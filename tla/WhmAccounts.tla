---------------------------- MODULE WhmAccounts ----------------------------
(* What HQ does with the accounts of a WHM server, in two parts that share  *)
(* no state.  The listing: the WordPress sites of every account, read by a  *)
(* small pool, WhmClient.listSites in src/src/hosting/providers/whm.ts over *)
(* the shared WP Toolkit list of whm-api.ts; a callback of a promise is a   *)
(* step of its own: other workers run between a rejection and its handlers. *)
(* The session: the temporary cPanel session a WHM user uploads the         *)
(* installer through, sessionUploads in whm-session.ts, used by the account *)
(* API of whm-api.ts and closed by #withSite of whm.ts; several uploads     *)
(* share one session, the caller may cancel at any moment.                  *)
EXTENDS Installer

-----------------------------------------------------------------------------
(* The listing.                                                             *)
CONSTANTS
  Accounts,  \* 1..n, in the sorted order
  Workers,   \* LISTING_CONCURRENCY of them
  Fetches    \* bound on requests of the toolkit list, 1..k

ASSUME WhmListingAssumption ==
  /\ IsFiniteSet(Accounts) /\ Accounts = 1..Cardinality(Accounts)
  /\ IsFiniteSet(Fetches) /\ Fetches = 1..Cardinality(Fetches)
  /\ Workers # {} \/ Accounts = {}

VARIABLES
  takenAccounts,    \* accounts taken from the list
  worker,     \* what each worker does: [at, account, fetch]
  found,    \* the result of each account
  broken,   \* history: accounts that could not be read themselves
  listing,  \* the remembered request of the toolkit list, 0 for none
  fetch,    \* each request: "none", "sent", "ok", "failed"
  failure,  \* serverFailure: the request whose error it is, 0 for none
  fatal,
  outcome   \* of the whole listing

listVars == <<takenAccounts, worker, found, broken, listing, fetch, failure, fatal, outcome>>

ListInit ==
  /\ takenAccounts = 0
  /\ worker = [w \in Workers |-> [at |-> "free", account |-> 0, fetch |-> 0]]
  /\ found = [a \in Accounts |-> "unread"] /\ broken = {}
  /\ listing = 0 /\ fetch = [f \in Fetches |-> "none"]
  /\ failure = 0 /\ fatal = FALSE /\ outcome = "none"

GoTo(w, at) == worker' = [worker EXCEPT ![w].at = at]
Free(w) == GoTo(w, "free")

(* After a fatal failure no new account starts.                            *)
MayTake == ~fatal /\ takenAccounts < Cardinality(Accounts)
TakeAccount(w) ==
         /\ worker[w].at = "free" /\ MayTake
         /\ takenAccounts' = takenAccounts + 1
         /\ worker' = [worker EXCEPT ![w] =
                            [at |-> "feature", account |-> takenAccounts + 1, fetch |-> 0]]
         /\ UNCHANGED <<found, broken, listing, fetch, failure, fatal, outcome>>
LeaveWorker(w) ==
        /\ worker[w].at = "free" /\ ~MayTake
        /\ GoTo(w, "over")
        /\ UNCHANGED <<takenAccounts, found, broken, listing, fetch, failure, fatal, outcome>>

(* An account without the WP Toolkit feature is read through its files.    *)
WithoutToolkit(w) ==
  /\ worker[w].at = "feature"
  /\ GoTo(w, "files")
  /\ UNCHANGED <<takenAccounts, found, broken, listing, fetch, failure, fatal, outcome>>

(* Otherwise it joins the remembered request, or sends one; but not once   *)
(* the list of the server has failed in this listing.                      *)
WithToolkit(w) ==
  /\ worker[w].at = "feature"
  /\ \/ /\ failure # 0
        /\ Free(w) /\ fatal' = TRUE
        /\ UNCHANGED <<listing, fetch>>
     \/ /\ failure = 0 /\ listing # 0
        /\ worker' = [worker EXCEPT ![w].at = "list", ![w].fetch = listing]
        /\ UNCHANGED <<listing, fetch, fatal>>
     \/ /\ failure = 0 /\ listing = 0
        /\ \E f \in Fetches :
             /\ fetch[f] = "none" /\ \A g \in 1..(f - 1) : fetch[g] # "none"
             /\ fetch' = [fetch EXCEPT ![f] = "sent"] /\ listing' = f
             /\ worker' = [worker EXCEPT ![w].at = "list", ![w].fetch = f]
        /\ UNCHANGED fatal
  /\ UNCHANGED <<takenAccounts, found, broken, failure, outcome>>

(* A failed request is not remembered.                                     *)
FetchAnswered(f) ==
       /\ fetch[f] = "sent"
       /\ \/ fetch' = [fetch EXCEPT ![f] = "ok"] /\ UNCHANGED listing
          \/ fetch' = [fetch EXCEPT ![f] = "failed"] /\ listing' = 0
       /\ UNCHANGED <<takenAccounts, worker, found, broken, failure, fatal, outcome>>
AllListed(w) ==
     /\ worker[w].at = "list" /\ fetch[worker[w].fetch] = "ok"
     /\ GoTo(w, "files")
     /\ UNCHANGED <<takenAccounts, found, broken, listing, fetch, failure, fatal, outcome>>

(* The error of the server's list is told from one of an account.          *)
IsServerFailure(f) == f = failure'
ListFailed(w) ==
  /\ worker[w].at = "list" /\ fetch[worker[w].fetch] = "failed"
  /\ failure' = IF failure = 0 THEN worker[w].fetch ELSE failure
  /\ Free(w)
  /\ IF IsServerFailure(worker[w].fetch)
     THEN fatal' = TRUE /\ UNCHANGED found
     ELSE \/ fatal' = TRUE /\ UNCHANGED found
          \/ found' = [found EXCEPT ![worker[w].account] = "left out"] /\ UNCHANGED fatal
  /\ UNCHANGED <<takenAccounts, broken, listing, fetch, outcome>>

Discovered(w) ==
  /\ worker[w].at = "files"
  /\ found' = [found EXCEPT ![worker[w].account] = "sites"]
  /\ Free(w)
  /\ UNCHANGED <<takenAccounts, broken, listing, fetch, failure, fatal, outcome>>

(* An account that went away is left out; a network, credential or abort   *)
(* failure ends the listing.                                               *)
AccountFails(w) ==
  /\ worker[w].at \in {"feature", "files"}
  /\ Free(w)
  /\ \/ /\ found' = [found EXCEPT ![worker[w].account] = "left out"]
        /\ broken' = broken \cup {worker[w].account}
        /\ UNCHANGED fatal
     \/ fatal' = TRUE /\ UNCHANGED <<found, broken>>
  /\ UNCHANGED <<takenAccounts, listing, fetch, failure, outcome>>

ListEnds ==
  /\ outcome = "none" /\ \A w \in Workers : worker[w].at = "over"
  /\ outcome' = IF fatal THEN "failed" ELSE "ok"
  /\ UNCHANGED <<takenAccounts, worker, found, broken, listing, fetch, failure, fatal>>

ListStep(w) ==
  \/ TakeAccount(w) \/ LeaveWorker(w) \/ WithoutToolkit(w) \/ WithToolkit(w) \/ AllListed(w)
  \/ ListFailed(w) \/ Discovered(w) \/ AccountFails(w)
ListNext == (\E w \in Workers : ListStep(w)) \/ (\E f \in Fetches : FetchAnswered(f)) \/ ListEnds
ListSpec == ListInit /\ [][ListNext]_listVars

-----------------------------------------------------------------------------
ListTypeOK ==
  /\ takenAccounts \in 0..Cardinality(Accounts) /\ broken \subseteq Accounts
  /\ worker \in [Workers -> [at : {"free", "feature", "list", "files", "over"},
                             account : Accounts \cup {0}, fetch : Fetches \cup {0}]]
  /\ found \in [Accounts -> {"unread", "sites", "left out"}]
  /\ fetch \in [Fetches -> {"none", "sent", "ok", "failed"}]
  /\ {listing, failure} \subseteq Fetches \cup {0}
  /\ fatal \in BOOLEAN /\ outcome \in {"none", "ok", "failed"}

(* A listing that succeeds is complete: the only accounts left out are      *)
(* those that could not be read themselves, whatever became of the list     *)
(* they all share, also when it is asked for a second time in between.      *)
CompleteListing ==
  outcome = "ok" => \A a \in Accounts : found[a] = "sites" \/ a \in broken

(* What it rests on: a worker is at an account that was taken; until        *)
(* something fatal happens every account that was taken is read, broken or  *)
(* in work; a worker leaves when none is left; and once the shared list     *)
(* failed something fatal has happened.                                     *)
AtTaken ==
  \A w \in Workers : worker[w].at \in {"feature", "list", "files"} =>
    worker[w].account \in Accounts /\ worker[w].account <= takenAccounts
TakenAreRead ==
  ~fatal => \A a \in 1..takenAccounts :
    \/ found[a] = "sites" \/ a \in broken
    \/ \E w \in Workers : worker[w].account = a /\ worker[w].at \in {"feature", "list", "files"}
LeavesLast ==
  ~fatal => /\ \A w \in Workers : worker[w].at = "over" => takenAccounts = Cardinality(Accounts)
            /\ failure = 0
AllOver == outcome = "ok" => ~fatal /\ \A w \in Workers : worker[w].at = "over"

ListInv == ListTypeOK /\ AtTaken /\ TakenAreRead /\ LeavesLast /\ AllOver

-----------------------------------------------------------------------------
(* The session.                                                             *)
CONSTANT Uploads \* uploads one operation makes, one after the other

ASSUME WhmSessionAssumption == Uploads \in Nat \ {0}

VARIABLES
  operationAt,        \* where the operation is
  uploads,   \* uploads made
  cancelled, \* the caller's signal
  opening,   \* the remembered opening: "none", "busy", "open", "failed"
  whmSession,   \* at the server: "none", "created", "live", "out"
  sessionClosed,    \* the flag of close()
  logouts,   \* attempts to log out
  unheard       \* history: the server did what HQ heard nothing of

sessVars == <<operationAt, uploads, cancelled, opening, whmSession, sessionClosed,
              logouts, unheard>>

SessInit ==
  /\ operationAt = "idle" /\ uploads = 0 /\ cancelled = FALSE
  /\ opening = "none" /\ whmSession = "none" /\ sessionClosed = FALSE
  /\ logouts = 0 /\ unheard = FALSE

(* multipart(): the first upload opens the session, the others wait for    *)
(* the same opening, also when it failed.                                  *)
SessUpload ==
  /\ operationAt = "idle" /\ ~sessionClosed /\ uploads < Uploads
  /\ operationAt' = CASE opening = "none" -> "create" [] opening = "open" -> "send"
                      [] OTHER -> "close"
  /\ opening' = IF opening = "none" THEN "busy" ELSE opening
  /\ UNCHANGED <<uploads, cancelled, whmSession, sessionClosed, logouts, unheard>>

CallFails == operationAt' = "close" /\ opening' = "failed"

(* create_user_session, under the caller's signal: without the login path  *)
(* the session is of no use to anyone and expires.                         *)
CreateSession ==
         /\ operationAt = "create"
         /\ \/ ~cancelled /\ whmSession' = "created" /\ operationAt' = "login" /\ UNCHANGED opening
            \/ whmSession' \in {"none", "created"} /\ CallFails
         /\ UNCHANGED <<uploads, cancelled, sessionClosed, logouts, unheard>>

(* Mutant of LoginStops: the login stops with the caller's signal.         *)
LoginStopsWithCaller == cancelled

(* The login does not: a cancellation counts once the cookie is known.     *)
LoginStops == FALSE
Login ==
  /\ operationAt = "login"
  /\ \/ whmSession' = "live" /\ operationAt' = "send" /\ opening' = "open" /\ UNCHANGED unheard
     \/ whmSession' = "created" /\ CallFails /\ UNCHANGED unheard
     \/ whmSession' = "live" /\ CallFails /\ unheard' = (unheard \/ ~LoginStops)
  /\ UNCHANGED <<uploads, cancelled, sessionClosed, logouts>>

(* The upload itself; a failure or a cancellation ends the operation.      *)
SessSend ==
  /\ operationAt = "send"
  /\ \/ /\ ~cancelled
        /\ uploads' = uploads + 1
        /\ operationAt' = IF uploads' = Uploads THEN "close" ELSE "idle"
     \/ operationAt' = "close" /\ UNCHANGED uploads
  /\ UNCHANGED <<cancelled, opening, whmSession, sessionClosed, logouts, unheard>>

(* close(): a session that never opened has no cookie to log out.          *)
SessClose ==
  /\ operationAt = "close"
  /\ sessionClosed' = TRUE
  /\ operationAt' = IF opening = "open" THEN "logout" ELSE "over"
  /\ opening' = "none"
  /\ UNCHANGED <<uploads, cancelled, whmSession, logouts, unheard>>
LogoutAttempts == 2

(* The first attempt may meet a connection the server has closed.          *)
Logout ==
  /\ operationAt = "logout"
  /\ logouts' = logouts + 1
  /\ \/ whmSession' = "out" /\ operationAt' = "over" /\ UNCHANGED unheard
     \/ /\ UNCHANGED whmSession
        /\ operationAt' = IF logouts' < LogoutAttempts THEN "logout" ELSE "over"
        /\ unheard' = (unheard \/ logouts' = 2)
  /\ UNCHANGED <<uploads, cancelled, opening, sessionClosed>>

Cancel ==
  /\ ~cancelled /\ operationAt # "over"
  /\ cancelled' = TRUE
  /\ UNCHANGED <<operationAt, uploads, opening, whmSession, sessionClosed, logouts, unheard>>

SessNext == SessUpload \/ CreateSession \/ Login \/ SessSend \/ SessClose \/ Logout \/ Cancel
SessSpec == SessInit /\ [][SessNext]_sessVars

-----------------------------------------------------------------------------
SessTypeOK ==
  /\ operationAt \in {"idle", "create", "login", "send", "close", "logout", "over"}
  /\ uploads \in 0..Uploads /\ cancelled \in BOOLEAN /\ sessionClosed \in BOOLEAN
  /\ unheard \in BOOLEAN
  /\ opening \in {"none", "busy", "open", "failed"}
  /\ whmSession \in {"none", "created", "live", "out"} /\ logouts \in 0..2

(* The session never outlives the operation that opened it: neither a       *)
(* cancellation at any moment nor one dead connection leaves it logged in,  *)
(* only an answer of the server that got lost twice or at the login does.   *)
SessionClosed == operationAt = "over" /\ whmSession = "live" => unheard

(* What it rests on: HQ knows of a session that is live, unless an answer   *)
(* got lost, and it logs out twice at most, when nothing is left to upload. *)
SessionKnown ==
  whmSession = "live" /\ ~unheard =>
    \/ opening = "open" /\ operationAt \in {"idle", "send", "close"}
    \/ operationAt = "logout"
UploadsLeft ==
  /\ operationAt \in {"create", "login", "send"} => uploads < Uploads
  /\ operationAt = "logout" => logouts < LogoutAttempts
  /\ operationAt \notin {"logout", "over"} => logouts = 0

SessInv == SessTypeOK /\ SessionKnown /\ UploadsLeft

(* What HQ does on a cPanel server is reported as it is and ended for good: *)
(* the installer's report, the accounts of a WHM server, the sessions       *)
(* opened on it.                                                            *)
CpanelHonest == HonestReports /\ CompleteListing /\ SessionClosed
=============================================================================
