----------------------------- MODULE SetupJobs -----------------------------
(***************************************************************************)
(* src/src/web/services/setup-jobs.ts: the registry of Novamira setups the *)
(* dashboard runs, and the pages that stream a job's progress              *)
(* (src/src/web/handlers/setup.ts).                                        *)
(*                                                                         *)
(* Each step is the code between two awaits of one Node process.  A job's  *)
(* random id is represented by its place in the order of insertion, which  *)
(* is the order the registry's Map is walked in.  The provisioning itself  *)
(* is a task that ends one way or the other; its event log steers nothing  *)
(* and is left out.                                                        *)
(***************************************************************************)
EXTENDS Naturals, FiniteSets

CONSTANTS
  Targets,    \* pairs of a hosting profile and an environment
  NoTarget,   \* the target of an id that is not in use
  MaxJobs,    \* records the registry keeps
  MaxStarts,  \* bound: jobs started in a behaviour
  MaxClock,    \* bound: the last millisecond
  ClockSteps  \* may the wall clock be set back?

ASSUME SetupAssumption ==
  /\ IsFiniteSet(Targets)
  /\ NoTarget \notin Targets
  /\ MaxJobs \in Nat \ {0}
  /\ MaxStarts \in Nat
  /\ MaxClock \in Nat
  /\ ClockSteps \in BOOLEAN

JobIds == 1..MaxStarts
Times == 0..MaxClock

VARIABLES
  power,      \* "up", "stopping" once shutdown() is called, "stopped"
  reserved,   \* targets whose hosting client is being resolved
  last,       \* jobs started so far
  setupJobs,       \* the ids the registry holds
  jobState,     \* what the record of each id says
  targetOf,     \* the target of each id
  startedAt,  \* the time it was started at
  tasks,      \* the ids whose provisioning is under way
  wallNow,        \* Date.now()
  page        \* the stream of each job: what its page shows

wallClock == <<wallNow>>
registry == <<last, setupJobs, jobState, targetOf, startedAt>>
setupVars == <<power, reserved, registry, tasks, wallClock, page>>

SetupTypeOK ==
       /\ power \in {"up", "stopping", "stopped"}
       /\ reserved \subseteq Targets
       /\ last \in 0..MaxStarts
       /\ setupJobs \subseteq 1..last
       /\ jobState \in [JobIds -> {"new", "running", "done", "error"}]
       /\ targetOf \in [JobIds -> Targets \union {NoTarget}]
       /\ startedAt \in [JobIds -> Times]
       /\ tasks \subseteq JobIds
       /\ wallNow \in Times
       /\ page \in [JobIds -> {"closed", "running", "ended", "lost"}]

SetupInit ==
       /\ power = "up"
       /\ reserved = {}
       /\ last = 0
       /\ setupJobs = {}
       /\ jobState = [id \in JobIds |-> "new"]
       /\ targetOf = [id \in JobIds |-> NoTarget]
       /\ startedAt = [id \in JobIds |-> 0]
       /\ tasks = {}
       /\ wallNow \in Times
       /\ page = [id \in JobIds |-> "closed"]

-----------------------------------------------------------------------------
(* start() *)

Running == {id \in setupJobs : jobState[id] = "running"}
RunningFor(t) == \E id \in Running : targetOf[id] = t

(* Mutant of HasCapacity: accepted runs without a record do not count.     *)
HasCapacityNow == Cardinality(Running) < MaxJobs
HasCapacity == Cardinality(Running) + Cardinality(reserved) < MaxJobs

(* A click on a target that runs or is reserved gets the same job, and one *)
(* without capacity is refused; neither changes anything.                  *)
Reserve(t) ==
  /\ power = "up"
  /\ ~RunningFor(t)
  /\ t \notin reserved
  /\ HasCapacity
  /\ reserved' = reserved \union {t}
  /\ UNCHANGED <<power, registry, tasks, wallClock, page>>

(* The profile or its credential cannot be read, or shutdown() came first. *)
ReserveFails(t) ==
  /\ t \in reserved
  /\ reserved' = reserved \ {t}
  /\ UNCHANGED <<power, registry, tasks, wallClock, page>>

Older(a, b) ==
  \/ startedAt[a] < startedAt[b]
  \/ startedAt[a] = startedAt[b] /\ a <= b

Evictable(id) ==
  /\ id \in setupJobs \ Running
  /\ \A other \in setupJobs \ Running : Older(id, other)

(* evict(): since the registry never exceeds MaxJobs (Bounded), its loop   *)
(* goes round at most once.  The set has one member: what is left.         *)
Evicted ==
  IF Cardinality(setupJobs) < MaxJobs \/ setupJobs \subseteq Running
  THEN {setupJobs}
  ELSE {setupJobs \ {id} : id \in {old \in setupJobs : Evictable(old)}}

(* The client is there and nothing was aborted: the reservation becomes a  *)
(* record and a task without an await in between.                          *)
BeginJob(t) ==
     /\ t \in reserved
     /\ power = "up"
     /\ last < MaxStarts /\ wallNow < MaxClock
     /\ reserved' = reserved \ {t}
     /\ last' = last + 1
     /\ \E kept \in Evicted : setupJobs' = kept \union {last'}
     /\ jobState' = [jobState EXCEPT ![last'] = "running"]
     /\ targetOf' = [targetOf EXCEPT ![last'] = t]
     /\ startedAt' = [startedAt EXCEPT ![last'] = wallNow]
     /\ tasks' = tasks \union {last'}
     /\ UNCHANGED <<power, wallClock, page>>

(* finishOk() and finishError(): a record that is gone stays gone.  A run  *)
(* asks the provider, so the clock moves while it is under way.            *)
FinishJob(id) ==
     /\ id \in tasks
     /\ wallNow # startedAt[id]
     /\ tasks' = tasks \ {id}
     /\ \E end \in {"done", "error"} :
          jobState' = IF id \in setupJobs THEN [jobState EXCEPT ![id] = end] ELSE jobState
     /\ UNCHANGED <<power, reserved, last, setupJobs, targetOf, startedAt, wallClock, page>>

-----------------------------------------------------------------------------
(* shutdown() *)

Shutdown ==
  /\ power = "up"
  /\ power' = "stopping"
  /\ UNCHANGED <<reserved, registry, tasks, wallClock, page>>

Drained ==
  /\ power = "stopping"
  /\ reserved = {} /\ tasks = {}
  /\ power' = "stopped"
  /\ UNCHANGED <<reserved, registry, tasks, wallClock, page>>

-----------------------------------------------------------------------------
(* A page that streams a job, one look per poll *)

LookAtJob(id) == IF jobState[id] = "running" THEN "running" ELSE "ended"

PageOpen(id) ==
  /\ id \in setupJobs
  /\ page[id] = "closed"
  /\ page' = [page EXCEPT ![id] = LookAtJob(id)]
  /\ UNCHANGED <<power, reserved, registry, tasks, wallClock>>

(* Mutant of PagePoll: a record that is gone is looked for again.          *)
PagePollAgain(id) ==
  /\ page[id] = "running"
  /\ id \in setupJobs
  /\ page' = [page EXCEPT ![id] = LookAtJob(id)]
  /\ UNCHANGED <<power, reserved, registry, tasks, wallClock>>

(* "lost": the stream ends and leaves what the page showed last.           *)
PagePoll(id) ==
  /\ page[id] = "running"
  /\ page' = [page EXCEPT ![id] = IF id \in setupJobs THEN LookAtJob(id) ELSE "lost"]
  /\ UNCHANGED <<power, reserved, registry, tasks, wallClock>>

PageClose(id) ==
  /\ page[id] # "closed"
  /\ page' = [page EXCEPT ![id] = "closed"]
  /\ UNCHANGED <<power, reserved, registry, tasks, wallClock>>

-----------------------------------------------------------------------------
ClockTick ==
       /\ wallNow < MaxClock
       /\ wallNow' = wallNow + 1
       /\ UNCHANGED <<power, reserved, registry, tasks, page>>

SetBack ==
  /\ ClockSteps
  /\ wallNow > 0
  /\ wallNow' = wallNow - 1
  /\ UNCHANGED <<power, reserved, registry, tasks, page>>

StartJob(t) == Reserve(t) \/ ReserveFails(t) \/ BeginJob(t)
Page(id) == PageOpen(id) \/ PagePoll(id) \/ PageClose(id)

SetupNext ==
       \/ \E t \in Targets : StartJob(t)
       \/ \E id \in JobIds : FinishJob(id) \/ Page(id)
       \/ Shutdown \/ Drained \/ ClockTick \/ SetBack

SetupSpec == SetupInit /\ [][SetupNext]_setupVars

(* Promises settle: a client is resolved or not, a cancelled run ends, a   *)
(* page polls on.                                                          *)
SetupFairness ==
       /\ WF_setupVars(Drained) /\ WF_setupVars(ClockTick)
       /\ \A t \in Targets : WF_setupVars(ReserveFails(t) \/ BeginJob(t))
       /\ \A id \in JobIds : WF_setupVars(FinishJob(id)) /\ WF_setupVars(PagePoll(id))
SetupFairSpec == SetupSpec /\ SetupFairness

-----------------------------------------------------------------------------
(* Properties *)

(* The registry never holds more than MaxJobs records, although a run is   *)
(* accepted before its record exists and running records are not evicted.  *)
Bounded == Cardinality(setupJobs) <= MaxJobs

(* One environment is never set up by two runs at once, whatever was       *)
(* evicted or reserved meanwhile: "two installs racing on one environment" *)
(* is what the double-click guard is for.                                  *)
OneRunPerTarget ==
  /\ \A a, b \in tasks : targetOf[a] = targetOf[b] => a = b
  /\ \A id \in tasks : targetOf[id] \notin reserved

(* Every run under way has its record, shown as running: neither eviction  *)
(* nor a failed run next to it hides it from start() and from its page.    *)
RunsListed == \A id \in tasks : id \in Running

(* The registry of jobs stays within its limit without losing a run, and   *)
(* never lets two runs of one environment in.                              *)
RegistryKept == Bounded /\ RunsListed /\ OneRunPerTarget

(* The inductive invariant behind these: the records that run are those of *)
(* the tasks, and with the reservations they leave room in the registry.   *)
RunsAreRunning == tasks = Running
Capacity == Cardinality(Running) + Cardinality(reserved) <= MaxJobs
Quiet == power = "stopped" => tasks = {} /\ reserved = {}
SetupInv == /\ SetupTypeOK /\ RunsAreRunning /\ Capacity /\ Bounded /\ OneRunPerTarget
            /\ Quiet

(* After shutdown() nothing starts, and it returns only when every run it  *)
(* had accepted is over, those without a record yet included.              *)
StopsForGood ==
  [][power # "up" =>
       /\ tasks' \subseteq tasks
       /\ power' = "stopped" => tasks' = {} /\ reserved' = {}]_setupVars

(* shutdown() returns.                                                     *)
ShutdownReturns == power = "stopping" ~> power = "stopped"

(* A stream ends: on the end of its job, or when the record is gone.       *)
StreamEnds == \A id \in JobIds : page[id] = "running" ~> page[id] # "running"

(* Neither shutdown() nor the stream of a page waits for ever.             *)
SetupEnds == ShutdownReturns /\ StreamEnds
=============================================================================
