------------------------ MODULE ProviderInventories ------------------------
(***************************************************************************)
(* The inventory of a hosting account: listSites with its environments,    *)
(* read page by page while the account may change, then getSite and        *)
(* listEnvironments of one listed site, and a request with one of the ids  *)
(* shown (src/hosting/providers).  Every client has its own pagination,    *)
(* its own ids, and its own way to find the staging copies of a site.      *)
(*                                                                         *)
(* A site has an installation that is live and may have a staging copy.    *)
(* An id is the sequence of its parts, which the program joins by colons.  *)
(***************************************************************************)
EXTENDS Naturals, FiniteSets, SequencesExt

CONSTANTS
  InventoryProviders, \* the providers looked at
  PageSize,           \* rows on one page
  MaxPages,           \* pages xCloud and Hostinger read at most
  MaxSites            \* sites of the account, when the listing begins

Providers == {"kinsta", "rocketnet", "cloudways", "pantheon", "xcloud", "pressable", "instawp",
              "wpengine", "hostinger", "agency", "sandywp", "plesk", "cpanel", "whm"}

\* The sites, one more and their staging copies fit the pages that are read at most.
ASSUME InventoryAssumption ==
  /\ InventoryProviders \subseteq Providers
  /\ PageSize \in Nat \ {0} /\ MaxPages \in Nat \ {0} /\ MaxSites \in Nat
  /\ 2 * (MaxSites + 1) <= MaxPages * PageSize

VARIABLES
  lister,    \* [provider, paged, toolkit, user]: chosen once
  account,   \* the sites of the account, in the provider's order
  before,    \* the account as it was when the listing began
  page,      \* the page read next
  total,     \* the total the first page told, for Hostinger's agency
  rows,      \* the rows read so far
  listing,   \* what is shown for every row: sets of environments
  inventoryAt, \* "pages" | "details" | "listed" | "failed"
  shown,     \* the environments of the site that was opened
  address    \* where a request with an id shown goes: {} when it is refused

inventoryVars == <<lister, account, before, page, total, rows, listing, inventoryAt, shown, address>>

\* What a filter leaves of a list: the elements at these indices, in the list's order.
InOrder(kept) ==
  CHOOSE f \in Bijection(1..Cardinality(kept), kept) :
    \A i, j \in 1..Cardinality(kept) : i < j => f[i] < f[j]

Picked(list, kept) == [k \in 1..Cardinality(kept) |-> list[InOrder(kept)[k]]]

Part(n, r) == [site |-> n, role |-> r]
Site(n, staging) == [n |-> n, staging |-> staging]
Roles(s) == {"live"} \cup IF s.staging THEN {"staging"} ELSE {}

-----------------------------------------------------------------------------
(* The provider's API *)

\* Where a staging copy is a row of its own.
OwnRows == {"xcloud", "pressable", "instawp", "cloudways", "sandywp"}

RowOf(s, r) == [site |-> s.n, role |-> r, roles |-> Roles(s)]

RowsOf(s) == <<RowOf(s, "live")>> \o IF s.staging THEN <<RowOf(s, "staging")>> ELSE <<>>

ApiRows(p, a) ==
  IF p \in OwnRows
  THEN FlattenSeq([i \in DOMAIN a |-> RowsOf(a[i])])
  ELSE [i \in DOMAIN a |-> RowOf(a[i], "live")]

OnePage(p) == p \in {"kinsta", "cloudways", "sandywp", "plesk", "pantheon", "cpanel", "whm"}

\* A page; Pantheon's one page has its limit.
PageOf(c, all, k) ==
  IF (OnePage(c.provider) \/ ~c.paged) /\ c.provider # "pantheon" THEN all
  ELSE SubSeq(all, (k - 1) * PageSize + 1, IF k * PageSize < Len(all) THEN k * PageSize ELSE Len(all))

\* The roles a site of the account has now: none when it is gone.
RolesNow(now, n) == UNION {Roles(now[i]) : i \in {j \in DOMAIN now : now[j].n = n}}

-----------------------------------------------------------------------------
(* When each client stops to read pages *)

RocketNetStops(items, n, all) == Len(items) < PageSize \/ n >= Len(all)

PressableStops(k, all) == k * PageSize >= Len(all)
InstaWpStops(k, items, all) == items = <<>> \/ k * PageSize >= Len(all)

XCloudStops(k, items, all) ==
  items = <<>> \/ k * PageSize >= Len(all) \/ k = MaxPages

WpEngineStops(n, items, all) == items = <<>> \/ n >= Len(all)

\* Mutant: the page after the next is looked for.
HostingerStopsEarly(k, all) == (k + 1) * PageSize >= Len(all) \/ k = MaxPages

HostingerStops(k, all) == k * PageSize >= Len(all) \/ k = MaxPages

\* An answer without the provider's metadata is the last one.
Stops(c, k, items, n, all) ==
  \/ OnePage(c.provider) \/ ~c.paged
  \/ CASE c.provider = "rocketnet" -> RocketNetStops(items, n, all)
       [] c.provider = "pressable" -> PressableStops(k, all)
       [] c.provider = "instawp" -> InstaWpStops(k, items, all)
       [] c.provider = "xcloud" -> XCloudStops(k, items, all)
       [] c.provider = "wpengine" -> WpEngineStops(n, items, all)
       [] c.provider = "agency" -> n = Len(all)
       [] OTHER -> HostingerStops(k, all)

\* Mutant: only the length of the page is compared.
AgencyAgreesAlone(k, items, n, all) ==
  n = IF k * PageSize < Len(all) THEN k * PageSize ELSE Len(all)

\* The total must not change, no site may come twice, no page may be short.
AgencyAgrees(k, items, n, all) ==
  /\ k > 1 => total = Len(all)
  /\ \A i \in DOMAIN items : \A j \in DOMAIN rows : rows[j].site # items[i].site
  /\ n = IF k * PageSize < Len(all) THEN k * PageSize ELSE Len(all)

-----------------------------------------------------------------------------
(* The ids that are shown *)

CloudwaysId(n, r) == <<Part(n, "server"), Part(n, r)>>
PantheonId(n, r) == <<Part(n, "site"), Part(n, r)>>
HostingerId(n) == <<Part(n, "user"), Part(n, "domain")>>
InstallationId(n, r) == <<Part(n, r)>>
AgencyId(n) == <<Part(0, "agency"), Part(n, "live")>>
PleskId(c, n, r) ==
  IF c.toolkit THEN <<Part(0, "wp"), Part(n, r)>> ELSE <<Part(0, "domain"), Part(n, "domain")>>
CpanelId(n) == <<Part(0, "domain"), Part(n, "domain")>>
WhmId(n) == <<Part(n, "user"), Part(n, "domain")>>

EnvIdOf(c, n, r) ==
  CASE c.provider = "cloudways" -> CloudwaysId(n, r)
    [] c.provider = "pantheon" -> PantheonId(n, r)
    [] c.provider = "hostinger" -> HostingerId(n)
    [] c.provider = "agency" -> AgencyId(n)
    [] c.provider = "plesk" -> PleskId(c, n, r)
    [] c.provider = "cpanel" -> CpanelId(n)
    [] c.provider = "whm" -> WhmId(n)
    [] OTHER -> <<Part(n, r)>>

Environment(c, n, r) == [id |-> EnvIdOf(c, n, r), of |-> Part(n, r)]

\* Without WP Toolkit an environment of Plesk is a domain.
PleskRoles(c, roles) == IF c.toolkit THEN roles ELSE {"live"}

RolesShown(c, roles) ==
  CASE c.provider \in {"hostinger", "agency", "cpanel", "whm"} -> {"live"}
    [] c.provider = "plesk" -> PleskRoles(c, roles)
    [] OTHER -> roles

-----------------------------------------------------------------------------
(* What a client reads for each row *)

\* Mutant: the staging copy is shown under the id of its production site.
RocketNetStagingUnderSite(c, n) == [id |-> EnvIdOf(c, n, "live"), of |-> Part(n, "staging")]

\* withStaging: the copy is a site of its own, read by its id.
RocketNetStaging(c, n) == Environment(c, n, "staging")

Showing(c, row, roles) == {Environment(c, row.site, r) : r \in roles}

RocketNetSite(c, row) ==
  Showing(c, row, {"live"}) \cup
  IF "staging" \in row.roles THEN {RocketNetStaging(c, row.site)} ELSE {}

\* stagingSites: 422 for a site that is a staging copy itself.
XCloudSite(c, now, row) ==
  Showing(c, row, {row.role} \cup IF row.role = "staging" THEN {} ELSE RolesNow(now, row.site))

PantheonSite(c, now, row) == Showing(c, row, RolesNow(now, row.site))

\* verifiedInstance: the installations are read again.
PleskSite(c, now, row) == Showing(c, row, PleskRoles(c, RolesNow(now, row.site)))

\* The environments come with their site.
KinstaSite(c, row) == Showing(c, row, row.roles)
WpEngineSite(c, row) == Showing(c, row, row.roles)

\* Every installation is a row with one environment.
CloudwaysSite(c, row) == Showing(c, row, {row.role})
PressableSite(c, row) == Showing(c, row, {row.role})
InstaWpSite(c, row) == Showing(c, row, {row.role})
SandyWpSite(c, row) == Showing(c, row, {row.role})

\* A website or a domain is one environment, whatever is installed beside it.
HostingerSite(c, row) == Showing(c, row, {"live"})
AgencySite(c, row) == Showing(c, row, {"live"})
CpanelSite(c, row) == Showing(c, row, {"live"})
WhmSite(c, row) == Showing(c, row, {"live"})

Read(c, now, row) ==
  CASE c.provider = "kinsta" -> KinstaSite(c, row)
    [] c.provider = "wpengine" -> WpEngineSite(c, row)
    [] c.provider = "rocketnet" -> RocketNetSite(c, row)
    [] c.provider = "xcloud" -> XCloudSite(c, now, row)
    [] c.provider = "pantheon" -> PantheonSite(c, now, row)
    [] c.provider = "plesk" -> PleskSite(c, now, row)
    [] c.provider = "cloudways" -> CloudwaysSite(c, row)
    [] c.provider = "pressable" -> PressableSite(c, row)
    [] c.provider = "instawp" -> InstaWpSite(c, row)
    [] c.provider = "sandywp" -> SandyWpSite(c, row)
    [] c.provider = "hostinger" -> HostingerSite(c, row)
    [] c.provider = "agency" -> AgencySite(c, row)
    [] c.provider = "cpanel" -> CpanelSite(c, row)
    [] c.provider = "whm" -> WhmSite(c, row)

\* What was read of the account names something that is gone by now.
Gone(c, now, row) ==
  \/ c.provider \in {"xcloud", "pantheon"} /\ RolesNow(now, row.site) = {}
  \/ c.provider = "rocketnet" /\ "staging" \in row.roles /\ "staging" \notin RolesNow(now, row.site)
  \/ c.provider = "xcloud" /\ row.role = "staging" /\ "staging" \notin RolesNow(now, row.site)

\* xCloud's staging copies are folded into their production sites.
Folded(p, shownRows) ==
  IF p # "xcloud" THEN shownRows
  ELSE Picked(shownRows, {k \in DOMAIN shownRows : \A i \in DOMAIN shownRows :
                            shownRows[k] \subseteq shownRows[i] => shownRows[k] = shownRows[i]})

-----------------------------------------------------------------------------
Accounts ==
  UNION {{[i \in 1..k |-> Site(i, f[i])] : f \in [1..k -> BOOLEAN]} : k \in 0..MaxSites}

InventoryInit ==
  /\ lister \in [provider : InventoryProviders, paged : BOOLEAN, toolkit : BOOLEAN, user : BOOLEAN]
  /\ lister.paged \/ ~OnePage(lister.provider)
  /\ lister.toolkit => lister.provider = "plesk"
  /\ lister.user => lister.provider = "hostinger"
  /\ account \in Accounts /\ before = account
  /\ page = 1 /\ total = 0 /\ rows = <<>> /\ listing = <<>>
  /\ inventoryAt = "pages" /\ shown = {} /\ address = {}

ListingFails ==
  /\ inventoryAt \in {"pages", "details"} /\ inventoryAt' = "failed"
  /\ UNCHANGED <<lister, account, before, page, total, rows, listing, shown, address>>

ReadPage ==
  /\ inventoryAt = "pages"
  /\ lister.provider = "rocketnet" => Len(listing) = Len(rows)
  /\ LET p == lister.provider
         all == ApiRows(p, account)
         items == PageOf(lister, all, page)
         n == Len(rows) + Len(items)
     IN
     /\ rows' = rows \o items
     /\ total' = IF page = 1 THEN Len(all) ELSE total
     /\ page' = page + 1
     /\ inventoryAt' =
          IF p = "agency" /\ ~(lister.paged /\ AgencyAgrees(page, items, n, all))
          THEN "failed"
          ELSE IF Stops(lister, page, items, n, all) THEN "details" ELSE "pages"
  /\ UNCHANGED <<lister, account, before, listing, shown, address>>

\* Rocket.net's rows are looked into before the next page is read.
ReadDetails ==
  /\ \/ inventoryAt = "details"
     \/ inventoryAt = "pages" /\ lister.provider = "rocketnet"
  /\ Len(listing) < Len(rows)
  /\ LET row == rows[Len(listing) + 1] IN
     IF Gone(lister, account, row)
     THEN inventoryAt' = "failed" /\ UNCHANGED listing
     ELSE listing' = Append(listing, Read(lister, account, row)) /\ UNCHANGED inventoryAt
  /\ UNCHANGED <<lister, account, before, page, total, rows, shown, address>>

Show ==
  /\ inventoryAt = "details" /\ Len(listing) = Len(rows)
  /\ inventoryAt' = "listed" /\ listing' = Folded(lister.provider, listing)
  /\ UNCHANGED <<lister, account, before, page, total, rows, shown, address>>

\* getSite and listEnvironments of a site; Hostinger then reads its installations.
OpenSite ==
  /\ inventoryAt = "listed" /\ shown = {}
  /\ \E i \in DOMAIN account :
       LET s == account[i] IN
       shown' = IF lister.provider = "hostinger"
                THEN {[id |-> InstallationId(s.n, r), of |-> Part(s.n, r)] : r \in Roles(s)}
                ELSE Read(lister, account, RowOf(s, "live"))
  /\ UNCHANGED <<lister, account, before, page, total, rows, listing, inventoryAt, address>>

-----------------------------------------------------------------------------
(* Where a request with an id goes *)

TwoHalves(id) == IF Len(id) = 2 THEN {id} ELSE {}

\* resolveEnvRef: an id without a colon is a domain of the account HQ is set up for.
HostingerRef(c, id) ==
  IF Len(id) = 2 THEN {id} ELSE IF c.user THEN {<<Part(0, "user")>> \o id} ELSE {}

PleskRef(id) == IF id[1].role = "wp" THEN {<<id[2]>>} ELSE {}

\* domainFromEnvId: only what begins with the word.
CpanelRef(id) == IF id[1] = Part(0, "domain") THEN {<<id[2]>>} ELSE {}

RequestTo(c, id) ==
  CASE c.provider \in {"cloudways", "pantheon", "whm"} -> TwoHalves(id)
    [] c.provider = "hostinger" -> HostingerRef(c, id)
    [] c.provider = "agency" -> {} \* rejectAgencyOperation
    [] c.provider = "plesk" -> PleskRef(id)
    [] c.provider = "cpanel" -> CpanelRef(id)
    [] OTHER -> {id}

\* The provider's own name for an installation.
NameOf(p, i) ==
  CASE p = "cloudways" -> <<Part(i.site, "server"), i>>
    [] p = "pantheon" -> <<Part(i.site, "site"), i>>
    [] p \in {"hostinger", "whm"} -> <<Part(i.site, "user"), Part(i.site, "domain")>>
    [] p = "cpanel" -> <<Part(i.site, "domain")>>
    [] OTHER -> <<i>>

UseId ==
  /\ inventoryAt = "listed" /\ address = {}
  /\ \E env \in shown \cup UNION Range(listing) :
       address' = {[to |-> to, env |-> env] : to \in RequestTo(lister, env.id)}
  /\ UNCHANGED <<lister, account, before, page, total, rows, listing, inventoryAt, shown>>

\* Somebody adds or removes a site, once.
AccountChanges ==
  /\ inventoryAt \in {"pages", "details"} /\ account = before
  /\ \/ account' = Append(account, Site(MaxSites + 1, FALSE))
     \/ \E i \in DOMAIN account : account' = RemoveAt(account, i)
     \/ \E i \in DOMAIN account :
          account[i].staging /\ account' = [account EXCEPT ![i].staging = FALSE]
  /\ UNCHANGED <<lister, before, page, total, rows, listing, inventoryAt, shown, address>>

InventoryNext ==
  \/ ListingFails \/ ReadPage \/ ReadDetails \/ Show \/ OpenSite \/ UseId \/ AccountChanges

InventorySpec == InventoryInit /\ [][InventoryNext]_inventoryVars

RoleNames == {"live", "staging"}
Sites == [n : Nat, staging : BOOLEAN]
PartNames == RoleNames \cup {"server", "site", "user", "domain", "agency", "wp"}
Environments ==
  [id : Seq([site : Nat, role : PartNames]), of : [site : Nat, role : RoleNames]]
SiteRows == [site : Nat, role : RoleNames, roles : SUBSET RoleNames]
Distinct(a) == \A i, j \in DOMAIN a : i # j => a[i].n # a[j].n
SameSites(a, b) == Len(a) = Len(b) /\ \A i \in DOMAIN a : a[i].n = b[i].n

InventoryTypeOK ==
  /\ lister \in [provider : InventoryProviders, paged : BOOLEAN, toolkit : BOOLEAN, user : BOOLEAN]
  /\ before \in Accounts /\ account \in Seq(Sites)
  /\ page \in 1..MaxPages + 1 /\ total \in Nat
  /\ rows \in Seq(SiteRows)
  /\ listing \in Seq(SUBSET Environments) /\ Len(listing) <= Len(rows)
  /\ shown \in SUBSET Environments
  /\ inventoryAt \in {"pages", "details", "listed", "failed"}

\* One change at most: it alters the number of sites, or leaves every site in its place.
AccountKept ==
  /\ Distinct(account) /\ Len(account) <= MaxSites + 1
  /\ Len(account) = Len(before) => SameSites(account, before)

\* While pages are read, every page but the last was full, and the last is not read yet.
PagesFull ==
  inventoryAt = "pages" =>
    /\ Len(rows) = (page - 1) * PageSize
    /\ page > 1 => lister.paged /\ ~OnePage(lister.provider) /\ page <= MaxPages

\* Of an account at rest, the rows are its first ones, and at the end all of them.
RowsInOrder ==
  account = before =>
    LET all == ApiRows(lister.provider, account) IN
    /\ inventoryAt = "pages" => Len(rows) <= Len(all) /\ rows = SubSeq(all, 1, Len(rows))
    /\ inventoryAt \in {"details", "listed"} /\ lister.provider # "pantheon" => rows = all

\* The agency's rows are the first ones of one account, however it changes.
AgencyInOrder ==
  lister.provider = "agency" /\ inventoryAt # "failed" /\ (page > 1 \/ inventoryAt # "pages") =>
    \E a \in {account, before} :
      /\ total = Len(a) /\ Len(rows) <= Len(a)
      /\ \A i \in DOMAIN rows : rows[i].site = a[i].n
      /\ inventoryAt # "pages" => Len(rows) = Len(a)

\* What is shown is what every row reads as, xCloud's folded at the end.
ListingRead ==
  account = before \/ lister.provider = "agency" =>
    /\ inventoryAt \in {"pages", "details"} =>
         \A i \in DOMAIN listing : listing[i] = Read(lister, account, rows[i])
    /\ inventoryAt = "listed" =>
         listing = Folded(lister.provider, [i \in DOMAIN rows |-> Read(lister, account, rows[i])])

\* Every id shown was made from the installation it is shown for.
IdsMade ==
  lister.provider # "hostinger" =>
    \A env \in shown \cup UNION Range(listing) :
      env = Environment(lister, env.of.site, env.of.role) /\ env.of.role \in RoleNames

InstallationsOf(c, a) ==
  UNION {{Part(a[i].n, r) : r \in RolesShown(c, Roles(a[i]))} : i \in DOMAIN a}

AllShown(list) == UNION {{env.of : env \in list[i]} : i \in DOMAIN list}

ShowsOnce(list) == \A i, j \in DOMAIN list : i # j =>
  {env.of : env \in list[i]} \cap {env.of : env \in list[j]} = {}

ListingWhole ==
  inventoryAt = "listed" /\ lister.provider # "pantheon" =>
    /\ account = before => AllShown(listing) = InstallationsOf(lister, account) /\ ShowsOnce(listing)
    /\ lister.provider = "agency" =>
         /\ ShowsOnce(listing)
         /\ AllShown(listing) \in {InstallationsOf(lister, account), InstallationsOf(lister, before)}

(***************************************************************************)
(* An id that HQ shows for an environment is one HQ can use: a request     *)
(* with it goes to that environment or is refused before it is sent.       *)
(***************************************************************************)
IdsFit == \A a \in address : a.to = NameOf(lister.provider, a.env.of)

(***************************************************************************)
(* A listing that ends without an error shows every installation of an     *)
(* account at rest, in one place, whichever way the provider pages.        *)
(* Hostinger's agency inventory promises it of an account that changes     *)
(* meanwhile as well: it is the account as it was before or after.         *)
(* Pantheon's memberships are asked for once, so its first page is all.    *)
(* A request with an id shown goes to the environment it was shown for,    *)
(* but for the installations that Hostinger lists for a website.           *)
(***************************************************************************)
InventoryHonest == ListingWhole /\ (lister.provider # "hostinger" => IdsFit)

\* What is kept from step to step, and makes a listing honest.
InventoryInv ==
  /\ InventoryTypeOK /\ AccountKept /\ PagesFull /\ RowsInOrder /\ AgencyInOrder
  /\ ListingRead /\ IdsMade /\ (lister.provider # "hostinger" => IdsFit)
=============================================================================
