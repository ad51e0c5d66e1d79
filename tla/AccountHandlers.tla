-------------------------- MODULE AccountHandlers --------------------------
(***************************************************************************)
(* The dashboard's requests about one hosting account                      *)
(* (web/handlers/providers.ts with the marks of web/services/providers.ts  *)
(* and the site CLI's profiles of integration/profiles.ts): save and       *)
(* verify, verify again, review a removal and confirm it.  Several run at  *)
(* once, from several tabs, while the operator uses the site CLI.          *)
(*                                                                         *)
(* upsert() and remove() are one step each: ConfigStore.tla has their      *)
(* locks, secrets and failures.                                            *)
(***************************************************************************)
EXTENDS Naturals, FiniteSets

CONSTANTS Tabs,      \* requests, one per tab
          Links,     \* names of site CLI profiles
          Urls,      \* the sites they may stand for
          RemovalPlans, \* pending removal plans there is room for (64)
          CliEdits,  \* bound: what the operator changes with the site CLI
          NoAccount  \* no profile, no account

ASSUME AccountAssumption == /\ RemovalPlans \in Nat \ {0} /\ CliEdits \in Nat
                            /\ IsFiniteSet(Tabs)
                            /\ NoAccount \notin Urls \cup Nat

VARIABLES
  account,  \* the version of the saved account, or NoAccount
  saves,    \* how often it was saved
  checkedAt,\* lastChecked(): the version whose check set the mark, or NoAccount
  links,    \* the site CLI's profiles: Links -> Urls or NoAccount
  edits,    \* edits of theirs by others
  review,   \* the plans: a sequence's worth of records by their number
  tab       \* the requests

aVars == << account, saves, checkedAt, links, edits, review, tab >>

Tasks_ == {"save", "verify", "review", "confirm"}
TabOf(at, task, plan, rm, first) ==
  [at |-> at, task |-> task, version |-> NoAccount, plan |-> plan, remove |-> rm,
   first |-> first, left |-> {}, removed |-> {}, moved |-> {}, account |-> "kept",
   notice |-> "none"]
IdleTab == TabOf("idle", "none", 0, "no", FALSE)
Lists == [Links -> Urls \cup {NoAccount}]

AInit ==
  /\ account \in {NoAccount, 0} /\ saves = 0 /\ checkedAt = NoAccount
  /\ links \in Lists /\ edits = 0
  /\ \E plan \in {[state |-> "none"]} \cup
          {[state |-> "pending", known |-> TRUE, sites |-> {<< n, links[n] >> : n \in mine}] :
             mine \in SUBSET {n \in Links : links[n] # NoAccount}} :
       review = [n \in 1 .. Cardinality(Tabs) |->
                   IF n = 1 THEN plan ELSE [state |-> "none"]]
  /\ tab = [t \in Tabs |-> IdleTab]

TabTo(t, at) == tab' = [tab EXCEPT ![t].at = at]
Notice(t, n) == tab' = [tab EXCEPT ![t] = [@ EXCEPT !.at = "done", !.notice = n]]
PendingRemovals == {n \in DOMAIN review : review[n].state \in {"pending", "expired"}}

BeginTask(t) ==
  /\ tab[t].at = "idle"
  /\ \E k \in Tasks_, n \in DOMAIN review, rm \in {"yes", "no", "unsaid"}, f \in BOOLEAN :
       /\ (k = "confirm") \/ (n = 1 /\ rm = "no")
       /\ (k = "save") \/ ~f
       /\ tab' = [tab EXCEPT ![t] = TabOf(k, k, n, rm, f)]
  /\ UNCHANGED << account, saves, checkedAt, links, edits, review >>

-----------------------------------------------------------------------------
(* Save: a new account, or a change of the one that was opened for it. WHM  *)
(* (first) asks the provider before it saves.                              *)
Upsert(t) ==
  /\ tab[t].at = "save"
  /\ \/ /\ saves' = saves + 1 /\ account' = saves + 1
        /\ TabTo(t, "clear")
     \/ UNCHANGED << account, saves >> /\ Notice(t, "danger")
  /\ UNCHANGED << checkedAt, links, edits, review >>

Clear(t) ==
  /\ tab[t].at = "clear"
  /\ checkedAt' = IF tab[t].first THEN account ELSE NoAccount
  /\ IF tab[t].first THEN Notice(t, "verified") ELSE TabTo(t, "verify")
  /\ UNCHANGED << account, saves, links, edits, review >>

(* validate(): a client of the account as it is saved now asks the provider. *)
AskAccount(t) ==
  /\ tab[t].at = "verify"
  /\ IF account = NoAccount
       THEN Notice(t, IF tab[t].task = "save" THEN "unverified" ELSE "danger")
       ELSE tab' = [tab EXCEPT ![t] = [@ EXCEPT !.at = "asked", !.version = account]]
  /\ UNCHANGED << account, saves, checkedAt, links, edits, review >>

(* The provider's answer. The mark is set for the name, whatever became of  *)
(* the account meanwhile.                                                  *)
Verified(t) ==
  /\ tab[t].at = "asked"
  /\ \/ checkedAt' = tab[t].version /\ Notice(t, "verified")
     \/ /\ UNCHANGED checkedAt
        /\ Notice(t, IF tab[t].task = "save" THEN "unverified" ELSE "danger")
  /\ UNCHANGED << account, saves, links, edits, review >>

-----------------------------------------------------------------------------
(* Review: expired plans make room; the inventory says which profiles of    *)
(* the site CLI belong to this account's sites, or cannot say.             *)
Review(t) ==
  /\ tab[t].at = "review"
  /\ LET kept == {n \in PendingRemovals : review[n].state = "pending"}
         purged == [n \in DOMAIN review |->
                      IF review[n].state = "expired" THEN [state |-> "dropped"] ELSE review[n]]
         fresh == {n \in DOMAIN review : review[n].state = "none"}
     IN IF Cardinality(kept) >= RemovalPlans \/ fresh = {}
          THEN review' = purged /\ Notice(t, "danger")
          ELSE \E known \in BOOLEAN, mine \in SUBSET {n \in Links : links[n] # NoAccount} :
                 /\ known \/ mine = {}
                 /\ review' = [purged EXCEPT ![CHOOSE n \in fresh : \A m \in fresh : n <= m] =
                      [state |-> "pending", known |-> known,
                       sites |-> {<< n, links[n] >> : n \in mine}]]
                 /\ Notice(t, "review")
  /\ UNCHANGED << account, saves, checkedAt, links, edits >>

Expire(n) ==
  /\ review[n].state = "pending"
  /\ review' = [review EXCEPT ![n].state = "expired"]
  /\ UNCHANGED << account, saves, checkedAt, links, edits, tab >>

Consumed(n) == IF review[n].state = "none" THEN review
               ELSE [review EXCEPT ![n].state = "used"]

(* Confirm: the plan is taken out of the map first, then looked at.         *)
ConfirmRemoval(t) ==
  /\ tab[t].at = "confirm"
  /\ LET plan == review[tab[t].plan] IN
       IF plan.state # "pending" THEN Notice(t, "danger")
       ELSE CASE tab[t].remove = "unsaid" -> Notice(t, "danger")
              [] tab[t].remove = "no" -> TabTo(t, "account")
              [] OTHER -> IF ~plan.known THEN Notice(t, "danger")
                          ELSE tab' = [tab EXCEPT ![t] =
                                            [@ EXCEPT !.at = "compare", !.left = plan.sites]]
  /\ review' = Consumed(tab[t].plan)
  /\ UNCHANGED << account, saves, checkedAt, links, edits >>

(* Mutant of AsPlanned: the names are compared, the sites are not.          *)
NamesAsPlanned(sites) == \A s \in sites : links[s[1]] # NoAccount
AsPlanned(sites) == \A s \in sites : links[s[1]] = s[2]

(* stillExactlyAsPlanned(): the site CLI is asked once more.                *)
Compare(t) ==
  /\ tab[t].at = "compare"
  /\ \/ AsPlanned(tab[t].left) /\ tab' = [tab EXCEPT ![t] = [@ EXCEPT !.at = "sites", !.moved = {}]]
     \/ Notice(t, "danger")
  /\ UNCHANGED << account, saves, checkedAt, links, edits, review >>

AfterFailure(t, s) == [tab[t] EXCEPT !.at = "done", !.notice = "danger"]

AfterRemoval(t, s) ==
  [tab[t] EXCEPT !.left = @ \ {s},
                 !.removed = IF links[s[1]] = NoAccount THEN @
                             ELSE @ \cup {<< s[1], links[s[1]] >>}]

(* One removal after another; a missing profile is as good as removed, any  *)
(* other failure keeps the account.                                        *)
Disconnect(t) ==
  /\ tab[t].at = "sites" /\ tab[t].left # {}
  /\ LET one == CHOOSE l \in tab[t].left : TRUE IN
       \/ /\ links' = [links EXCEPT ![one[1]] = NoAccount]
          /\ tab' = [tab EXCEPT ![t] = AfterRemoval(t, one)]
       \/ UNCHANGED links /\ tab' = [tab EXCEPT ![t] = AfterFailure(t, one)]
  /\ UNCHANGED << account, saves, checkedAt, edits, review >>

Disconnected(t) ==
  /\ tab[t].at = "sites" /\ tab[t].left = {}
  /\ TabTo(t, "account")
  /\ UNCHANGED << account, saves, checkedAt, links, edits, review >>

RemoveAccount(t) ==
  /\ tab[t].at = "account"
  /\ IF account = NoAccount
       THEN UNCHANGED account /\ Notice(t, "danger")
       ELSE /\ account' = NoAccount
            /\ tab' = [tab EXCEPT ![t] = [@ EXCEPT !.at = "forget", !.account = "removed"]]
  /\ UNCHANGED << saves, checkedAt, links, edits, review >>

Forget(t) ==
  /\ tab[t].at = "forget"
  /\ checkedAt' = NoAccount
  /\ Notice(t, "removed")
  /\ UNCHANGED << account, saves, links, edits, review >>

(* Someone else uses the site CLI.                                         *)
Edit(n, u) ==
  /\ edits < CliEdits /\ links[n] # u
  /\ edits' = edits + 1
  /\ links' = [links EXCEPT ![n] = u]
  /\ tab' = [t \in Tabs |-> IF tab[t].at = "sites"
                              THEN [tab[t] EXCEPT !.moved = @ \cup {n}] ELSE tab[t]]
  /\ UNCHANGED << account, saves, checkedAt, review >>

ANext ==
  \/ \E t \in Tabs :
       \/ BeginTask(t) \/ Upsert(t) \/ Clear(t) \/ AskAccount(t) \/ Verified(t) \/ Review(t)
       \/ ConfirmRemoval(t) \/ Compare(t) \/ Disconnect(t) \/ Disconnected(t) \/ RemoveAccount(t)
       \/ Forget(t)
  \/ \E n \in DOMAIN review : Expire(n)
  \/ \E n \in Links, u \in Urls \cup {NoAccount} : Edit(n, u)

ASpec == AInit /\ [][ANext]_aVars

ATypeOK ==
  /\ account \in {NoAccount} \cup 0 .. Cardinality(Tabs)
  /\ checkedAt \in {NoAccount} \cup 0 .. Cardinality(Tabs)
  /\ saves \in 0 .. Cardinality(Tabs) /\ links \in Lists /\ edits \in 0 .. CliEdits
  /\ \A n \in DOMAIN review : review[n].state \in {"none", "pending", "expired",
                                                   "dropped", "used"}
  /\ \A t \in Tabs : tab[t].task \in Tasks_ \cup {"none"}

-----------------------------------------------------------------------------
(* A removal does what its review showed (web/handlers/providers.ts:        *)
(* 311-343): a connection is removed only for a request that asked for it,  *)
(* from a plan made of a complete inventory, as the plan showed it unless   *)
(* someone moved it while the removals ran; the account goes only after all *)
(* of them; and no two requests act on one confirmation.                    *)
RemovalAsReviewed ==
  \A t \in Tabs :
    /\ tab[t].removed # {} =>
         /\ tab[t].remove = "yes" /\ review[tab[t].plan].known
         /\ \A s \in tab[t].removed :
              s \in review[tab[t].plan].sites \/ s[1] \in tab[t].moved
    /\ (tab[t].account = "removed" /\ tab[t].remove = "yes") =>
         \A s \in review[tab[t].plan].sites :
           \/ s[1] \in {r[1] : r \in tab[t].removed}
           \/ \E u \in Tabs \ {t} : s[1] \in {r[1] : r \in tab[u].removed}
           \/ s[1] \in tab[t].moved
    /\ tab[t].at \in {"compare", "sites", "account", "forget"} =>
         \A u \in Tabs \ {t} :
           ~(/\ tab[u].task = "confirm" /\ tab[u].plan = tab[t].plan
             /\ tab[u].at \in {"compare", "sites", "account", "forget"})

(* What it rests on. The types of the plans and the requests; a plan that   *)
(* is acted on is used up, by one request only, and was made of a complete  *)
(* inventory; and while the removals run a connection is as it was shown or *)
(* gone, by this request or another's or because someone moved it.          *)
Connections == Links \X Urls
UsedPlans == [state : {"used"}, known : {TRUE}, sites : SUBSET Connections]
RemovalRecords ==
  [state : {"none", "dropped", "used"}] \cup
  [state : {"pending", "expired", "dropped", "used"}, known : BOOLEAN, sites : SUBSET Connections]
Acting == {"compare", "sites", "account", "forget"}
TabPlaces == Tasks_ \cup Acting \cup {"idle", "clear", "asked", "done"}
TabPlans == {0} \cup 1 .. Cardinality(Tabs)
Versions == Nat \cup {NoAccount}
Answers_ == {"yes", "no", "unsaid"}
Ends_ == {"kept", "removed"}
Notices == {"none", "danger", "verified", "unverified", "review", "removed"}
TabRecords ==
  [at : TabPlaces, task : Tasks_ \cup {"none"}, version : Versions, plan : TabPlans,
   remove : Answers_, first : BOOLEAN, left : SUBSET Connections,
   removed : SUBSET Connections, moved : SUBSET Links, account : Ends_, notice : Notices]

AccountPieces ==
  /\ account \in Versions /\ saves \in Nat /\ links \in Lists
  /\ review \in [1 .. Cardinality(Tabs) -> RemovalRecords] /\ tab \in [Tabs -> TabRecords]

Removes(t) == tab[t].remove = "yes" /\ tab[t].at \in Acting
NotYet ==
  \A t \in Tabs :
    /\ tab[t].at \notin {"sites", "account", "forget", "done"} => tab[t].removed = {}
    /\ tab[t].at \notin {"forget", "done"} => tab[t].account = "kept"
    /\ tab[t].at \in {"compare", "sites"} => tab[t].remove = "yes"
    /\ tab[t].at # "idle" => tab[t].plan \in DOMAIN review

UsedByOne ==
  \A t \in Tabs : tab[t].at \in Acting =>
    /\ tab[t].plan \in DOMAIN review /\ review[tab[t].plan].state = "used"
    /\ \A u \in Tabs \ {t} : tab[u].at \in Acting => tab[u].plan # tab[t].plan

RemovedSites(t) == Removes(t) \/ (tab[t].account = "removed" /\ tab[t].remove = "yes")
PlanStands ==
  \A t \in Tabs : RemovedSites(t) \/ tab[t].removed # {} =>
    /\ tab[t].remove = "yes"
    /\ tab[t].plan \in DOMAIN review /\ review[tab[t].plan] \in UsedPlans

GoneLink(t, n) == \/ n \in tab[t].moved
                  \/ \E u \in Tabs : \E s \in tab[u].removed : s[1] = n
ShownTo(t) ==
  LET sites == review[tab[t].plan].sites IN
  /\ \A s \in tab[t].removed : s \in sites \/ s[1] \in tab[t].moved
  /\ tab[t].at = "compare" => tab[t].left = sites
  /\ tab[t].at = "sites" => tab[t].left \subseteq sites
  /\ RemovedSites(t) /\ tab[t].at \notin {"compare", "sites"} => tab[t].left = {}
  /\ RemovedSites(t) => \A s \in sites : s \in tab[t].left \/ GoneLink(t, s[1])
  /\ tab[t].at = "sites" => \A s \in tab[t].left :
       /\ links[s[1]] \in {s[2], NoAccount} \/ s[1] \in tab[t].moved
       /\ links[s[1]] = s[2] \/ GoneLink(t, s[1])
AsShown == \A t \in Tabs : ShownTo(t)

AccountInv == AccountPieces /\ NotYet /\ UsedByOne /\ PlanStands /\ AsShown

(* A request saves the account once at most, so that those which still may  *)
(* and the versions there are come to no more than the requests.           *)
Unsaved == {t \in Tabs : tab[t].at \in {"idle", "save"}}
SavesCounted ==
  /\ saves \in Nat /\ saves + Cardinality(Unsaved) <= Cardinality(Tabs)
  /\ {account, checkedAt} \cup {tab[t].version : t \in Tabs} \subseteq {NoAccount} \cup 0 .. saves
  /\ edits \in 0 .. CliEdits

(* The mark that shows an account as connected is one the saved account has *)
(* earned (web/services/providers.ts:315-318: "so the two can never be done *)
(* in one place and not the other").                                       *)
MarkIsOfTheSaved ==
  (\A t \in Tabs : tab[t].at \in {"idle", "done"}) =>
    checkedAt \in {NoAccount, account}
=============================================================================
