---------------------------- MODULE SitesService ----------------------------
(***************************************************************************)
(* The dashboard's site inventory (web/services/sites.ts): one key of its  *)
(* cache, the loads in flight, the snapshot the last answer left and the   *)
(* requests that run next to each other: list with and without refresh,    *)
(* refreshWarm and verifyConnections, with the provider page's mutations   *)
(* that invalidate everything.  The providers are asked one after another; *)
(* a listing is the version of the configuration it was asked with and the *)
(* time it came.  An inventory is dated by the end of the round of calls   *)
(* it is of; when the round began is noted here beside it.                 *)
(***************************************************************************)
EXTENDS Naturals, FiniteSets

CONSTANTS Requests,     \* the requests, each made once
          KindOf,       \* what each asks: "list" "refresh" "warm" "verify"
          Providers,    \* the hosting profiles behind the key
          MaxConfigEdits,     \* bound: changes of the configuration
          MaxExpiries,  \* bound: times the cached entry outlives its TTL
          MaxSitesTime,      \* bound: the clock loads read
          None          \* no entry, no listing

ASSUME SitesAssumption ==
  /\ KindOf \in [Requests -> {"list", "refresh", "warm", "verify"}]
  /\ IsFiniteSet(Providers) /\ Providers # {}
  /\ MaxConfigEdits \in Nat /\ MaxExpiries \in Nat /\ MaxSitesTime \in Nat

(* A value of KindOf: dashboard pages that all press Refresh.              *)
AllRefresh == [r \in Requests |-> "refresh"]

VARIABLES
  config,     \* the version of the configuration on disk
  told,       \* the version it had at the last invalidate()
  generation, \* the service's generation
  cache,      \* the key's entry [groups, dated], or None
  snapshot,   \* what the last answer left: the same, or None
  load,       \* per generation, the load in flight or None
  req,        \* the requests: [at, gen, entry, same]
  sitesNow, expiries

sVars == << config, told, generation, cache, snapshot, load, req, sitesNow, expiries >>

Generations == 0..MaxConfigEdits
SitesTimes   == 0..MaxSitesTime
Listings == [config : Generations, at : SitesTimes]
Groups  == [Providers -> Listings \cup {None}]
Rounds  == [begun : SitesTimes, storedAt : SitesTimes]
Entries == [groups : Groups, dated : Rounds]
Loads   == [config : Generations \cup {None}, previous : Entries \cup {None},
            begun : SitesTimes, asked : SUBSET Providers, groups : Groups,
            usedSnapshot : BOOLEAN]

SInit ==
  /\ config = 0 /\ told = 0 /\ generation = 0
  /\ cache = None /\ snapshot = None
  /\ load = [g \in Generations |-> None]
  /\ req = [r \in Requests |->
              [at |-> "idle", gen |-> 0, entry |-> None, same |-> FALSE]]
  /\ sitesNow = 0 /\ expiries = 0

-----------------------------------------------------------------------------
(* Entries are compared by identity: `same` says that a request holds the  *)
(* very entry the cache holds or, in verifyConnections, the very snapshot. *)
Verifies(r) == KindOf[r] = "verify"

Forgets(rs) == [r \in Requests |-> IF r \in rs THEN [req[r] EXCEPT !.same = FALSE]
                                   ELSE req[r]]
Listers == {r \in Requests : ~Verifies(r)}

\* A provider mutation: first the configuration, then invalidate().
EditConfig ==
        /\ config < MaxConfigEdits /\ generation = config
        /\ config' = config + 1
        /\ UNCHANGED << told, generation, cache, snapshot, load, req, sitesNow, expiries >>

invalidate ==
  /\ generation < config
  /\ generation' = config /\ told' = config
  /\ cache' = None /\ snapshot' = None /\ req' = Forgets(Requests)
  /\ UNCHANGED << config, load, sitesNow, expiries >>

EntryExpires ==
        /\ cache # None /\ expiries < MaxExpiries
        /\ expiries' = expiries + 1
        /\ cache' = None /\ req' = Forgets(Listers)
        /\ UNCHANGED << config, told, generation, snapshot, load, sitesNow >>

SitesTick ==
       /\ sitesNow < MaxSitesTime /\ sitesNow' = sitesNow + 1
       /\ UNCHANGED << config, told, generation, cache, snapshot, load, req, expiries >>

-----------------------------------------------------------------------------
(* fill() and loadGroups().                                                *)

\* listHostingProfiles(): the entries every provider is asked with.
ReadProfiles(g) ==
  /\ load[g] # None /\ load[g].config = None
  /\ load' = [load EXCEPT ![g].config = config]
  /\ UNCHANGED << config, told, generation, cache, snapshot, req, sitesNow, expiries >>

\* What one provider's turn gives: its listing, or its last one, or nothing.
RequestListed(g, p, ok) ==
         IF ok THEN [config |-> load[g].config, at |-> sitesNow]
         ELSE IF load[g].previous = None THEN None
         ELSE load[g].previous.groups[p]

WithTurn(g, p, ok) ==
  [load[g] EXCEPT !.asked = @ \cup {p}, !.groups[p] = RequestListed(g, p, ok),
                  !.usedSnapshot = @ \/ (~ok /\ load[g].previous # None)]

\* The providers have their turns one after another, each in its own time.
ListsProvider(g, p, ok) ==
  /\ load[g] # None /\ load[g].config # None /\ p \notin load[g].asked
  /\ load' = [load EXCEPT ![g] = WithTurn(g, p, ok)]
  /\ UNCHANGED << config, told, generation, cache, snapshot, req, sitesNow, expiries >>

\* Mutant of Dated: the entry is as new as the load, whoever failed.
DatedNow(g) == [begun |-> load[g].begun, storedAt |-> sitesNow]

\* The entry's time is read after the last turn; it is that of the snapshot as soon as
\* one provider needed it.
Dated(g) ==
  IF load[g].usedSnapshot THEN load[g].previous.dated
  ELSE [begun |-> load[g].begun, storedAt |-> sitesNow]

\* Mutant of Current: a load is cached whatever happened meanwhile.
CurrentAlways(g) == TRUE

\* Whether what was begun in generation g still counts.
Current(g) == g = generation

Loaded(g) == [groups |-> load[g].groups, dated |-> Dated(g)]

\* A load ends: its entry is cached, and everyone who waits for it has it.
LoadEnds(g) ==
  /\ load[g] # None /\ load[g].config # None /\ load[g].asked = Providers
  /\ LET entry == Loaded(g)
     IN  /\ cache' = IF Current(g) THEN entry ELSE cache
         /\ req' = [r \in Requests |->
              IF req[r].at = "loading" /\ req[r].gen = g
              THEN IF g = generation
                   THEN [req[r] EXCEPT !.at = "checking", !.entry = entry,
                                       !.same = TRUE]
                   ELSE [req[r] EXCEPT !.at = "again"]
              ELSE IF Current(g) THEN Forgets(Listers)[r] ELSE req[r]]
  /\ load' = [load EXCEPT ![g] = None]
  /\ UNCHANGED << config, told, generation, snapshot, sitesNow, expiries >>

\* The configuration cannot be read, or the one named provider fails.
LoadFails(g) ==
  /\ load[g] # None
  /\ \/ load[g].config = None
     \/ load[g].asked = {} /\ \E p \in Providers : Providers = {p}
  /\ load' = [load EXCEPT ![g] = None]
  /\ req' = [r \in Requests |->
       IF req[r].at = "loading" /\ req[r].gen = g
       THEN [req[r] EXCEPT !.at = IF g = generation THEN "failed" ELSE "again"]
       ELSE req[r]]
  /\ UNCHANGED << config, told, generation, cache, snapshot, sitesNow, expiries >>

-----------------------------------------------------------------------------
(* The requests.  Each turn of the loop of list and refreshWarm reads the  *)
(* cache first; what an earlier turn held is forgotten.                    *)

Turn(r) == req[r].at \in {"idle", "again"}

\* Mutant of UsesWarm: every turn asks the providers again.
UsesWarmNever(r) == FALSE
UsesWarm(r) == cache # None /\ KindOf[r] # "refresh"

ReadsWarm(r) ==
  /\ Turn(r) /\ ~Verifies(r) /\ UsesWarm(r)
  /\ req' = [req EXCEPT ![r] = [at |-> "checking", gen |-> generation,
                                entry |-> cache, same |-> TRUE]]
  /\ UNCHANGED << config, told, generation, cache, snapshot, load, sitesNow, expiries >>

\* fill(): a load of this generation is joined, or begun.
Fills(r) ==
  /\ Turn(r) /\ KindOf[r] \in {"list", "refresh"} /\ ~UsesWarm(r)
  /\ req' = [req EXCEPT ![r] = [at |-> "loading", gen |-> generation,
                                entry |-> None, same |-> FALSE]]
  /\ load' = IF load[generation] # None THEN load
             ELSE [load EXCEPT ![generation] =
                     [config |-> None, previous |-> snapshot, begun |-> sitesNow,
                      asked |-> {}, groups |-> [p \in Providers |-> None],
                      usedSnapshot |-> FALSE]]
  /\ UNCHANGED << config, told, generation, cache, snapshot, sitesNow, expiries >>

NothingWarm(r) ==
  /\ Turn(r) /\ KindOf[r] = "warm" /\ cache = None
  /\ req' = [req EXCEPT ![r].at = "done"]
  /\ UNCHANGED << config, told, generation, cache, snapshot, load, sitesNow, expiries >>

\* After refreshInventory: the answer, if nothing moved; else once more.
Unmoved(r) == req[r].gen = generation /\ req[r].same

ChecksAnswer(r) ==
  /\ req[r].at = "checking" /\ ~Verifies(r)
  /\ IF Unmoved(r)
       THEN /\ snapshot' = req[r].entry
            /\ req' = [q \in Requests |->
                 IF q = r THEN [req[r] EXCEPT !.at = "done"]
                 ELSE Forgets({v \in Requests : Verifies(v)})[q]]
       ELSE /\ req' = [req EXCEPT ![r].at = "again"]
            /\ UNCHANGED snapshot
  /\ UNCHANGED << config, told, generation, cache, load, sitesNow, expiries >>

\* verifyConnections: its `same` is about the snapshot, not the cache.
VerifyBegins(r) ==
  /\ req[r].at = "idle" /\ Verifies(r)
  /\ req' = [req EXCEPT ![r] = [at |-> "checking", gen |-> generation,
                                entry |-> snapshot, same |-> TRUE]]
  /\ UNCHANGED << config, told, generation, cache, snapshot, load, sitesNow, expiries >>

VerifyEnds(r) ==
  /\ req[r].at = "checking" /\ Verifies(r)
  /\ IF Unmoved(r)
       THEN /\ snapshot' = req[r].entry
            /\ req' = [Forgets({v \in Requests : Verifies(v)})
                         EXCEPT ![r].at = "done"]
       ELSE /\ req' = [req EXCEPT ![r].at = "failed"]
            /\ UNCHANGED snapshot
  /\ UNCHANGED << config, told, generation, cache, load, sitesNow, expiries >>

LoadStep(g) ==
  \/ ReadProfiles(g) \/ LoadFails(g) \/ LoadEnds(g)
  \/ \E p \in Providers, ok \in BOOLEAN : ListsProvider(g, p, ok)

RequestStep(r) ==
  \/ ReadsWarm(r) \/ Fills(r) \/ NothingWarm(r) \/ ChecksAnswer(r)
  \/ VerifyBegins(r) \/ VerifyEnds(r)

SNext ==
  \/ EditConfig \/ invalidate \/ EntryExpires \/ SitesTick
  \/ \E g \in Generations : LoadStep(g)
  \/ \E r \in Requests : RequestStep(r)

(* Provider calls end in their budget and site CLI children are killed in  *)
(* theirs, so a load ends and a check ends; the rest is Node's event loop. *)
SFairness ==
  /\ WF_sVars(\E g \in Generations : LoadStep(g))
  /\ \A r \in Requests : WF_sVars(RequestStep(r))

SSpec == SInit /\ [][SNext]_sVars /\ SFairness

-----------------------------------------------------------------------------
STypeOK ==
  /\ config \in Generations /\ told \in Generations /\ generation \in Generations
  /\ cache \in Entries \cup {None} /\ snapshot \in Entries \cup {None}
  /\ load \in [Generations -> Loads \cup {None}]
  /\ \A r \in Requests :
       /\ req[r].at \in {"idle", "again", "loading", "checking", "done", "failed"}
       /\ req[r].gen \in Generations /\ req[r].same \in BOOLEAN
       /\ req[r].entry \in Entries \cup {None}
  /\ sitesNow \in 0..MaxSitesTime /\ expiries \in 0..MaxExpiries

KeptEntries == {cache, snapshot} \ {None}

(* Nothing that the service keeps, and so nothing it answers with or falls *)
(* back on when a provider fails, was listed with a configuration older    *)
(* than the last change the dashboard told it of: a load or a connection   *)
(* check that was in flight when a provider was edited leaves no trace.    *)
OwnConfig ==
  \A e \in KeptEntries : \A p \in Providers :
    e.groups[p] # None => e.groups[p].config >= told

(* The page's "last updated" may be later than the listing of a provider,  *)
(* by what the turns after it took, but by no more than one round of       *)
(* calls: through any number of failed refreshes, no listing is older than *)
(* the round whose end is shown as the inventory's time.                   *)
HonestTime ==
  \A e \in KeptEntries : \A p \in Providers :
    e.groups[p] # None => e.dated.begun <= e.groups[p].at

(* Every request is answered.                                              *)
RequestsAnswered ==
           \A r \in Requests :
             req[r].at # "idle" ~> req[r].at \in {"done", "failed"}

(* Every inventory the service keeps belongs to the configuration it knows *)
(* of, and is no older than the round of calls that its date is of         *)
(* (web/services/sites.ts).                                                *)
HonestInventory == OwnConfig /\ HonestTime

(* What it rests on: every entry that may still be kept was listed with the *)
(* configuration of its own generation, and so was what a load falls back  *)
(* on; the service's generation is the last change it was told of.         *)
Requested == [at : {"idle", "again", "loading", "checking", "done", "failed"},
              gen : Generations, entry : Entries \cup {None}, same : BOOLEAN]
OfGeneration(e, g) ==
  e # None => \A p \in Providers : e.groups[p] # None => e.groups[p].config >= g
OfTime(e, now) ==
  e # None => /\ e.dated.begun <= now
              /\ \A p \in Providers : e.groups[p] # None => e.dated.begun <= e.groups[p].at
Trusted(e, g, now) == OfGeneration(e, g) /\ OfTime(e, now)

\* What a load has so far: with no snapshot used, all of it is of this round.
LoadInv(g) ==
  load[g] # None =>
    LET l == load[g]
        oldest == IF l.usedSnapshot THEN l.previous.dated.begun ELSE l.begun
    IN  /\ l.config # None => l.config >= g
        /\ g <= generation /\ Trusted(l.previous, g, sitesNow) /\ l.begun <= sitesNow
        /\ l.previous # None => l.previous.dated.begun <= l.begun
        /\ l.usedSnapshot => l.previous # None
        /\ l.config = None => l.asked = {}
        /\ \A p \in Providers :
             l.groups[p] # None => /\ p \in l.asked /\ l.groups[p].config >= g
                                   /\ oldest <= l.groups[p].at
SitesInv ==
  /\ STypeOK /\ req \in [Requests -> Requested]
  /\ told = generation /\ generation <= config
  /\ Trusted(cache, generation, sitesNow) /\ Trusted(snapshot, generation, sitesNow)
  /\ \A g \in Generations : LoadInv(g)
  /\ \A r \in Requests : req[r].at = "checking" => Trusted(req[r].entry, req[r].gen, sitesNow)
=============================================================================
