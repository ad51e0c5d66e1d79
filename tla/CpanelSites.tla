---------------------------- MODULE CpanelSites ----------------------------
(***************************************************************************)
(* Which WordPress installations a cPanel account shows                    *)
(* (src/hosting/providers/cpanel-sites.ts): the document roots of its      *)
(* domains are read first; with WP Toolkit its installations are matched   *)
(* to them by host, then by path, otherwise every root is looked into.     *)
(***************************************************************************)
EXTENDS ProviderInventories

CONSTANTS
  Domains,   \* domains: sequences of labels, so that www may be one of its own
  Folders,   \* document roots
  Elsewhere, \* a path that is none of those, and the label of a foreign host
  MaxDomains, MaxInstalls

ASSUME DiscoveryAssumption ==
  Domains \subseteq Seq(STRING) /\ MaxDomains \in Nat /\ MaxInstalls \in Nat

VARIABLES
  cpanel,   \* [domains, toolkit, installs, wordpress], chosen once
  roots,    \* the document roots: [domain, root]
  looked,   \* roots looked into without WP Toolkit
  found,    \* the sites: [domain, root, install], install 0 without toolkit
  discovery \* "domains" | "toolkit" | "files" | "listed" | "failed"

cpVars == <<cpanel, roots, looked, found, discovery>>

Www(d) == <<"www">> \o d

\* What WP Toolkit says of an installation; top: at the top of its host.
Installs ==
  {i \in [host : Domains \cup {Www(d) : d \in Domains} \cup {<<Elsewhere>>},
          path : Folders \cup {Elsewhere}, top : BOOLEAN] : i.top \/ i.path = Elsewhere}

\* Entries as cPanel lists them; the root of one may not be trusted (Elsewhere).
Entries == [domain : Domains, root : Folders \cup {Elsewhere}]

CpInit ==
  /\ cpanel \in [domains : UNION {[1..k -> Entries] : k \in 0..MaxDomains},
                 toolkit : BOOLEAN, installs : UNION {[1..k -> Installs] : k \in 0..MaxInstalls},
                 wordpress : SUBSET Folders]
  /\ IsInjective([i \in DOMAIN cpanel.domains |-> cpanel.domains[i].domain])
  /\ IF cpanel.toolkit THEN cpanel.wordpress = {} ELSE cpanel.installs = <<>>
  /\ roots = <<>> /\ looked = 0 /\ found = <<>> /\ discovery = "domains"

CpFails ==
  /\ discovery \in {"domains", "toolkit", "files"} /\ discovery' = "failed"
  /\ UNCHANGED <<cpanel, roots, looked, found>>

\* One entry per document root, the first domain's.
DomainRoots(entries) ==
  Picked(entries, {k \in DOMAIN entries : /\ entries[k].root # Elsewhere
                                          /\ \A i \in 1..k - 1 : entries[i].root # entries[k].root})

ReadDomains ==
  /\ discovery = "domains" /\ discovery' = "toolkit"
  /\ roots' = DomainRoots(cpanel.domains)
  /\ UNCHANGED <<cpanel, looked, found>>

\* An installation below the top of its host is not one of a domain.
Candidates == {i \in DOMAIN cpanel.installs : cpanel.installs[i].top}

RootNamed(host) ==
  LET exact == {i \in DOMAIN roots : roots[i].domain = host}
      bare == {i \in DOMAIN roots : Www(roots[i].domain) = host}
  IN IF exact # {} THEN exact ELSE bare

ByHost(i) == {c \in Candidates : i \in RootNamed(cpanel.installs[c].host)}

Unnamed == {c \in Candidates : RootNamed(cpanel.installs[c].host) = {}}

ByPath(i) ==
  {c \in Unnamed : ByHost(i) = {} /\ cpanel.installs[c].path = roots[i].root}

First(s) == CHOOSE c \in s : \A d \in s : c <= d

\* The first one that is named by its host, or else the first one in the root.
ClaimOf(i) == IF ByPath(i) # {} THEN First(ByPath(i)) ELSE First(ByHost(i))

Claimed == {i \in DOMAIN roots : ByHost(i) \cup ByPath(i) # {}}

WithToolkitFound ==
  [k \in 1..Cardinality(Claimed) |->
     LET i == InOrder(Claimed)[k]
     IN [domain |-> roots[i].domain, root |-> roots[i].root, install |-> ClaimOf(i)]]

AskToolkit ==
  /\ discovery = "toolkit"
  /\ \/ cpanel.toolkit /\ found' = WithToolkitFound /\ discovery' = "listed"
     \/ ~cpanel.toolkit /\ discovery' = "files" /\ UNCHANGED found
  /\ UNCHANGED <<cpanel, roots, looked>>

\* A root that cPanel cannot list is left out; other failures end it all.
LookIntoRoot ==
  /\ discovery = "files" /\ looked < Len(roots)
  /\ looked' = looked + 1
  /\ LET r == roots[looked + 1] IN
     \/ /\ r.root \in cpanel.wordpress
        /\ found' = Append(found, [domain |-> r.domain, root |-> r.root, install |-> 0])
     \/ UNCHANGED found
  /\ UNCHANGED <<cpanel, roots, discovery>>

FilesRead ==
  /\ discovery = "files" /\ looked = Len(roots) /\ discovery' = "listed"
  /\ UNCHANGED <<cpanel, roots, looked, found>>

CpNext == CpFails \/ ReadDomains \/ AskToolkit \/ LookIntoRoot \/ FilesRead

CpSpec == CpInit /\ [][CpNext]_cpVars

CpTypeOK ==
  /\ cpanel \in [domains : Seq(Entries), toolkit : BOOLEAN, installs : Seq(Installs),
                 wordpress : SUBSET Folders]
  /\ Len(cpanel.domains) <= MaxDomains
  /\ IsInjective([i \in DOMAIN cpanel.domains |-> cpanel.domains[i].domain])
  /\ discovery \in {"domains", "toolkit", "files", "listed", "failed"}
  /\ looked \in 0..MaxDomains
  /\ found \in Seq([domain : Domains, root : Folders \cup {Elsewhere}, install : Nat])
  /\ Len(found) <= Len(roots)

\* Without the toolkit a site is in the folder of a root that was looked into, alone.
FoundInFiles ==
  /\ Len(found) <= looked
  /\ \A i \in DOMAIN found : found[i].install = 0 /\ \E k \in 1..looked : found[i].root = roots[k].root
  /\ \A i, j \in DOMAIN found : i # j => found[i].root # found[j].root

FoundInRoots ==
  discovery # "failed" =>
    /\ roots = IF discovery = "domains" THEN <<>> ELSE DomainRoots(cpanel.domains)
    /\ looked <= Len(roots)
    /\ discovery \in {"domains", "toolkit"} => found = <<>> /\ looked = 0
    /\ discovery = "files" => ~cpanel.toolkit
    /\ discovery \in {"files", "listed"} =>
         IF cpanel.toolkit THEN found = WithToolkitFound ELSE FoundInFiles

\* The installations whose address names this domain, and no other of the account.
NamedBy(d) ==
  {c \in Candidates :
     LET host == cpanel.installs[c].host IN
     host = d \/ (host = Www(d) /\ \A e \in Range(roots) : e.domain # host)}

(***************************************************************************)
(* A listed site is a folder of its own and an installation is shown once. *)
(* A domain that installations name shows one of them, any other domain    *)
(* only the one in its folder: what HQ later does to the site goes to the  *)
(* installation its address was shown for.                                 *)
(***************************************************************************)
DiscoveryHonest ==
  discovery = "listed" =>
    /\ \A i, j \in DOMAIN found : i # j =>
         /\ found[i].root # found[j].root
         /\ found[i].install = 0 \/ found[i].install # found[j].install
    /\ cpanel.toolkit => \A i \in DOMAIN found :
         LET named == NamedBy(found[i].domain) IN
         IF named # {} THEN found[i].install \in named
         ELSE cpanel.installs[found[i].install].path = found[i].root

DiscoveryInv == CpTypeOK /\ FoundInRoots
=============================================================================
