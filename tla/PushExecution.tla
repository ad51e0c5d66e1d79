--------------------------- MODULE PushExecution ---------------------------
(***************************************************************************)
(* src/src/web/services/push-execution.ts: how the dashboard plans, starts *)
(* and follows pushes from one hosting environment to another, composed    *)
(* with the journal its requests are recorded in (History).                *)
(*                                                                         *)
(* A call of the model is one push: its confirmation id, its job, and the  *)
(* request it sends.  Each step is the code between two awaits.  The       *)
(* dashboard may close or crash and be started again; the journal and the  *)
(* provider carry on.                                                      *)
(***************************************************************************)
EXTENDS History, FiniteSets

CONSTANTS
  TargetOf,   \* the environment each push overwrites
  Earlier,    \* pushes completed before whose jobs the dashboard still has
  JobLimit,   \* jobs the dashboard keeps before it forgets finished ones
  Workers     \* status requests a refresh has under way at once

VARIABLES
  up,        \* the dashboard: "up", "closing" or "down"
  plan,      \* planning and confirmation of each push
  job,       \* the status of the job the dashboard shows for it
  run,       \* how far its run is; the run is in runs and pending while active
  refresh,   \* the refresh under way: provider asked or not, or NoRefresh
  snap,      \* the journal rows it has read
  todo,      \* the rows it has not looked at yet
  checking   \* the rows whose status it is asking for

dashboard == <<up, plan, job, run, refresh, snap, todo, checking>>
pushVars == <<vars, dashboard>>

NoRefresh == "none"
Idle == {"none", "ended"}
Active(c) == run[c] \notin Idle
Unsettled == {"running", "needs_verification"}
Finished == {"completed", "failed"}
Jobs == Calls \union Earlier
Known == {c \in Jobs : job[c] # "absent"}

(* Mutant of Blocked: only a running job blocks its target.                *)
BlockedWhileRunning(t) ==
  \E c \in Known \ Earlier : TargetOf[c] = t /\ job[c] = "running"
Blocked(t) ==
  \E c \in Known \ Earlier : TargetOf[c] = t /\ job[c] \in Unsettled

(* Every run and every row a refresh checks polls on its own.              *)
PushPollers == {"run", "check"} \X Calls

(* A job of an earlier push carries an id of its own.  No client asks on    *)
(* after it has written a push (ProviderActions!RejectedWroteNothing).     *)
ASSUME PushAssumption ==
  /\ Earlier \cap Calls = {} /\ AskingOn = {}
  /\ PushPollers \subseteq Pollers
  /\ Workers \in Nat \ {0}

PushTyped ==
  /\ up \in {"up", "closing", "down"}
  /\ plan \in [Calls -> {"none", "refreshing", "listed", "reading", "open",
                         "used"}]
  /\ job \in [Jobs -> {"absent"} \union Unsettled \union Finished]
  /\ run \in [Calls -> Idle \union {"check", "prepare", "begin", "send",
                                    "save", "poll", "observe"}]
  /\ refresh \in {NoRefresh, "ask", "list"}
  /\ snap \in [Calls -> Rows \union {NoRow}]
  /\ todo \subseteq Calls
  /\ checking \subseteq Calls

PushTypeOK == TypeOK /\ PushTyped /\ Cardinality(checking) <= Workers

PushInit ==
  /\ Init
  /\ up = "up"
  /\ plan = [c \in Calls |-> "none"]
  /\ job = [c \in Jobs |-> IF c \in Earlier THEN "completed" ELSE "absent"]
  /\ run = [c \in Calls |-> "none"]
  /\ refresh = NoRefresh
  /\ snap = [c \in Calls |-> NoRow]
  /\ todo = {}
  /\ checking = {}

Show(c, status) == job' = [job EXCEPT ![c] = status]
GoTo(c, label) == run' = [run EXCEPT ![c] = label]
Planning(c, stage) == plan' = [plan EXCEPT ![c] = stage]

-----------------------------------------------------------------------------
(* refresh() *)

(* The journal is read once; up to Workers rows are then worked on at a     *)
(* time, in the model in any order.  Only this dashboard's rows are kept    *)
(* here: the jobs are found by the confirmation id the row carries.         *)
Reading(mode) ==
  /\ refresh' = mode
  /\ snap' = row
  /\ todo' = {c \in Calls : Recorded(c)}

(* The timer, or a page: the page's refresh ("list") asks no provider.      *)
RefreshStart ==
  /\ up = "up"
  /\ refresh = NoRefresh
  /\ \E mode \in {"ask", "list"} : Reading(mode)
  /\ UNCHANGED <<vars, up, plan, job, run, checking>>

(* fromHistory() *)
FromRow(r) == CASE r.status = "succeeded" -> "completed"
                [] r.status = "failed"    -> "failed"
                [] OTHER                  -> "needs_verification"

Unresolved(c) == FromRow(snap[c]) = "needs_verification"

(* Mutant of Skipped: a job that is known is never checked again.          *)
SkippedIfKnown(c) ==
  \/ Active(c)
  \/ Unresolved(c) /\ job[c] # "absent"

Skipped(c) ==
  \/ Active(c)
  \/ refresh = "list" /\ Unresolved(c) /\ job[c] # "absent"

Take(c) ==
  /\ up = "up"
  /\ c \in todo
  /\ Cardinality(checking) < Workers
  /\ todo' = todo \ {c}
  /\ \/ Skipped(c) /\ UNCHANGED <<job, checking>>
     \/ /\ ~Skipped(c)
        /\ refresh = "ask" /\ Unresolved(c) /\ snap[c].op
        /\ checking' = checking \union {c}
        /\ UNCHANGED job
     \/ /\ ~Skipped(c)
        /\ ~(refresh = "ask" /\ Unresolved(c) /\ snap[c].op)
        /\ Show(c, FromRow(snap[c]))
        /\ UNCHANGED checking
  /\ UNCHANGED <<vars, up, plan, run, refresh, snap>>

(* recheckedAgainstProvider(): the answer is recorded in the journal first, *)
(* and whatever goes wrong leaves the job as the snapshot has it.           *)
CheckAsk(c) ==
  /\ c \in checking
  /\ Ask(<<"check", c>>, c)
  /\ UNCHANGED dashboard

(* Mutant of Checked: a check that went wrong reads as a failed push.      *)
CheckedOrFailed(c, status) ==
  /\ Show(c, CASE status = "succeeded" -> "completed"
               [] status = "accepted"  -> "running"
               [] OTHER                -> "failed")
  /\ checking' = checking \ {c}

Checked(c, status) ==
  /\ Show(c, CASE status = "succeeded" -> "completed"
               [] status = "failed"    -> "failed"
               [] status = "accepted"  -> "running"
               [] OTHER                -> FromRow(snap[c]))
  /\ checking' = checking \ {c}

CheckDone(c) ==
  /\ c \in checking
  /\ \/ /\ Observe(<<"check", c>>)
        /\ Checked(c, poll[<<"check", c>>].status)
     \/ /\ ObserveFails(<<"check", c>>)
        /\ Checked(c, "needs_verification")
  /\ UNCHANGED <<up, plan, run, refresh, snap, todo>>

(* The profile's client could not be built.                                *)
CheckFails(c) ==
  /\ c \in checking
  /\ poll[<<"check", c>>] = NoPoll
  /\ Checked(c, "needs_verification")
  /\ UNCHANGED <<vars, up, plan, run, refresh, snap, todo>>

(* Every plan() that waited for this refresh goes on.                      *)
RefreshEnd ==
  /\ refresh # NoRefresh
  /\ todo = {} \/ up = "closing"
  /\ checking = {}
  /\ refresh' = NoRefresh
  /\ snap' = [c \in Calls |-> NoRow]
  /\ todo' = {}
  /\ plan' = [c \in Calls |-> IF plan[c] = "refreshing" THEN "listed"
                               ELSE plan[c]]
  /\ UNCHANGED <<vars, up, job, run, checking>>

-----------------------------------------------------------------------------
(* plan() *)

(* It waits for the refresh under way, or for one it starts itself.        *)
PlanCall(c) ==
  /\ up = "up"
  /\ plan[c] = "none"
  /\ Planning(c, "refreshing")
  /\ \/ /\ refresh = NoRefresh
        /\ Reading("ask")
     \/ /\ refresh # NoRefresh
        /\ UNCHANGED <<refresh, snap, todo>>
  /\ UNCHANGED <<vars, up, job, run, checking>>

PlanCheck(c) ==
  /\ up = "up"
  /\ plan[c] = "listed"
  /\ Planning(c, IF Blocked(TargetOf[c]) THEN "used" ELSE "reading")
  /\ UNCHANGED <<vars, up, job, run, refresh, snap, todo, checking>>

(* prepareEnvironmentPush() read both environments: the user may confirm.  *)
PlanReady(c) ==
  /\ up = "up"
  /\ plan[c] = "reading"
  /\ Planning(c, "open")
  /\ UNCHANGED <<vars, up, job, run, refresh, snap, todo, checking>>

(* The plan expired, or one of its steps failed.                           *)
PlanGone(c) ==
  /\ plan[c] \in {"refreshing", "listed", "reading", "open"}
  /\ Planning(c, "used")
  /\ UNCHANGED <<vars, up, job, run, refresh, snap, todo, checking>>

-----------------------------------------------------------------------------
(* launch() *)

(* The confirmation is used up whatever comes of it.                       *)
Refuse(c) ==
  \/ \E d \in Calls : Active(d) /\ TargetOf[d] = TargetOf[c]
  \/ Blocked(TargetOf[c])
  \/ /\ Cardinality(Known) >= JobLimit
     /\ \A d \in Known : job[d] \notin Finished

LaunchRefused(c) ==
  /\ up = "up"
  /\ plan[c] = "open"
  /\ Refuse(c)
  /\ Planning(c, "used")
  /\ UNCHANGED <<vars, up, job, run, refresh, snap, todo, checking>>

Launch(c) ==
  /\ up = "up"
  /\ plan[c] = "open"
  /\ ~Refuse(c)
  /\ Planning(c, "used")
  /\ GoTo(c, "check")
  /\ \/ /\ Cardinality(Known) < JobLimit
        /\ Show(c, "running")
     \/ /\ Cardinality(Known) >= JobLimit
        /\ \E d \in Known :
             /\ job[d] \in Finished
             /\ job' = [job EXCEPT ![d] = "absent", ![c] = "running"]
  /\ UNCHANGED <<vars, up, refresh, snap, todo, checking>>

EndRun(c, status) ==
  /\ GoTo(c, "ended")
  /\ Show(c, status)

(* The saved push is re-read and the client built: from here on the job    *)
(* counts as dispatched.                                                   *)
RunCheck(c) ==
  /\ run[c] = "check"
  /\ \/ /\ up = "up"
        /\ GoTo(c, "prepare")
        /\ UNCHANGED job
     \/ EndRun(c, "failed")
  /\ UNCHANGED <<vars, up, plan, refresh, snap, todo, checking>>

(* executeEnvironmentPush() reads both environments once more.             *)
RunPrepare(c) ==
  /\ run[c] = "prepare"
  /\ \/ /\ up = "up"
        /\ GoTo(c, "begin")
        /\ UNCHANGED job
     \/ EndRun(c, "needs_verification")
  /\ UNCHANGED <<vars, up, plan, refresh, snap, todo, checking>>

RunBegin(c) ==
  /\ run[c] = "begin"
  /\ \/ /\ Begin(c)
        /\ GoTo(c, "send")
        /\ UNCHANGED job
     \/ /\ BeginFails(c)
        /\ EndRun(c, "needs_verification")
  /\ UNCHANGED <<up, plan, refresh, snap, todo, checking>>

RunSend(c) ==
  /\ run[c] = "send"
  /\ Send(c)
  /\ GoTo(c, "save")
  /\ UNCHANGED <<up, plan, job, refresh, snap, todo, checking>>

RunSave(c) ==
  /\ run[c] = "save"
  /\ \/ /\ Finish(c)
        /\ answer[c].status = "accepted" /\ answer[c].op
        /\ GoTo(c, "poll")
        /\ UNCHANGED job
     \/ /\ Finish(c)
        /\ ~(answer[c].status = "accepted" /\ answer[c].op)
        /\ EndRun(c, "needs_verification")
     \/ /\ FinishFails(c)
        /\ EndRun(c, "needs_verification")
  /\ UNCHANGED <<up, plan, refresh, snap, todo, checking>>

RunPoll(c) ==
  /\ run[c] = "poll"
  /\ up = "up"
  /\ Ask(<<"run", c>>, c)
  /\ GoTo(c, "observe")
  /\ UNCHANGED <<up, plan, job, refresh, snap, todo, checking>>

(* Only a verified completion completes the job.  A failure the provider   *)
(* reports ends the run like an error does, and so does any answer that    *)
(* comes after the deadline or once the dashboard is closing.              *)
RunObserve(c) ==
  /\ run[c] = "observe"
  /\ LET status == poll[<<"run", c>>].status IN
       \/ /\ Observe(<<"run", c>>)
          /\ status = "succeeded" /\ up = "up"
          /\ EndRun(c, "completed")
       \/ /\ Observe(<<"run", c>>)
          /\ status \in {"accepted", "needs_verification"}
          /\ GoTo(c, "poll")
          /\ UNCHANGED job
       \/ /\ Observe(<<"run", c>>)
          /\ EndRun(c, "needs_verification")
       \/ /\ ObserveFails(<<"run", c>>)
          /\ EndRun(c, "needs_verification")
  /\ UNCHANGED <<up, plan, refresh, snap, todo, checking>>

(* timeoutSeconds are over, or the dashboard is closing.                   *)
RunGivesUp(c) ==
  /\ run[c] = "poll"
  /\ EndRun(c, "needs_verification")
  /\ UNCHANGED <<vars, up, plan, refresh, snap, todo, checking>>

-----------------------------------------------------------------------------
(* shutdown(), a crash, and the next start *)

Close ==
  /\ up = "up"
  /\ up' = "closing"
  /\ plan' = [c \in Calls |-> IF plan[c] = "none" THEN "none" ELSE "used"]
  /\ UNCHANGED <<vars, job, run, refresh, snap, todo, checking>>

(* What the dashboard holds in memory is gone with it.                     *)
Gone ==
  /\ up' = "down"
  /\ plan' = [c \in Calls |-> IF plan[c] = "none" THEN "none" ELSE "used"]
  /\ job' = [c \in Jobs |-> "absent"]
  /\ run' = [c \in Calls |-> IF run[c] = "none" THEN "none" ELSE "ended"]
  /\ refresh' = NoRefresh
  /\ snap' = [c \in Calls |-> NoRow]
  /\ todo' = {}
  /\ checking' = {}

Closed ==
  /\ up = "closing"
  /\ \A c \in Calls : ~Active(c)
  /\ refresh = NoRefresh
  /\ Gone
  /\ UNCHANGED vars

CrashDashboard ==
  /\ up # "down"
  /\ Gone
  /\ Abandon(Calls)
  /\ poll' = [p \in Pollers |-> NoPoll]
  /\ UNCHANGED <<row, order, answer, remote, flow>>

Restart ==
  /\ up = "down"
  /\ up' = "up"
  /\ UNCHANGED <<vars, plan, job, run, refresh, snap, todo, checking>>

-----------------------------------------------------------------------------
Plan(c) ==
  \/ PlanCall(c) \/ PlanCheck(c) \/ PlanReady(c) \/ PlanGone(c)
  \/ LaunchRefused(c) \/ Launch(c)
Run(c) ==
  \/ RunCheck(c) \/ RunPrepare(c) \/ RunBegin(c) \/ RunSend(c) \/ RunSave(c)
  \/ RunPoll(c) \/ RunObserve(c) \/ RunGivesUp(c)
Check(c) == Take(c) \/ CheckAsk(c) \/ CheckDone(c) \/ CheckFails(c)
Monitor == RefreshStart \/ RefreshEnd \/ \E c \in Calls : Check(c)

PushNext ==
  \/ \E c \in Calls : Plan(c) \/ Run(c)
  \/ \E c \in Calls : Provider(c) /\ UNCHANGED dashboard
  \/ Monitor
  \/ Close \/ Closed \/ CrashDashboard \/ Restart

PushSpec == PushInit /\ [][PushNext]_pushVars

(* The timer starts a refresh that asks every 30 s; an answer comes back or *)
(* the request fails, and of the answers asked for again and again some     *)
(* are usable; a run's deadline passes; the provider finishes what it       *)
(* started.                                                                *)
AskRefresh == RefreshStart /\ refresh' = "ask"
CheckAnswered(c) ==
  CheckAsk(c) /\ poll'[<<"check", c>>].status # "needs_verification"
CheckSaved(c) == CheckDone(c) /\ job'[c] \in Finished
Fairness ==
  /\ SF_pushVars(AskRefresh)
  /\ WF_pushVars(RefreshEnd \/ \E c \in Calls : Check(c))
  /\ \A c \in Calls :
       /\ WF_pushVars(Run(c))
       /\ SF_pushVars(CheckAnswered(c)) /\ SF_pushVars(CheckSaved(c))
       /\ SF_pushVars(RunGivesUp(c))
       /\ WF_pushVars(Complete(c) /\ Provider(c) /\ UNCHANGED dashboard)
FairPushSpec == PushSpec /\ Fairness

-----------------------------------------------------------------------------
(* Properties *)

(* The dashboard never sends a push over one of its own that may still be  *)
(* executing: not after a lost answer, a failed check, a restart or a      *)
(* crash between any two steps, and not when two confirmations of the same *)
(* target are open.                                                        *)
InProgress(c) == remote[c] \in {"in_flight", "running"}
NoOverlap ==
  \A c, d \in Calls : InProgress(c) /\ InProgress(d) /\ c # d =>
    TargetOf[c] # TargetOf[d]

(* While a push runs, its job is shown as running, whatever a refresh that *)
(* started before it read: launch() and plan() find it by its job.         *)
RunningShows == \A c \in Calls : Active(c) => job[c] = "running"

(* A job shows an end only when that end is a fact: "completed" when the   *)
(* provider completed the push, "failed" when it did not take place.  No   *)
(* failed check, deadline or restart reads as a failed push; and one that  *)
(* is under way is shown as running.                                       *)
HonestJob ==
  /\ RunningShows
  /\ \A c \in Calls :
       /\ job[c] = "completed" => remote[c] = "done"
       /\ job[c] = "failed" => remote[c] \in {"unsent", "refused", "failed"}

(* The inductive invariant behind the two, besides that of the journal.    *)

(* A push is run once, after its confirmation, and its request is made by  *)
(* its run; in the journal there are requests of runs only.                *)
RunsOnce ==
  \A c \in Calls :
    /\ run[c] # "none" => plan[c] = "used"
    /\ run[c] \in {"none", "check", "prepare", "begin"} =>
         phase[c] = "new" /\ ~Recorded(c)
    /\ phase[c] = "begun" => run[c] = "send"
    /\ phase[c] = "answered" => run[c] = "save"

(* What a refresh has read is true, though it may be out of date, and it   *)
(* works on no push that has yet to be run.                                *)
RefreshTrue ==
  /\ \A c \in Calls : snap[c] # NoRow =>
       /\ snap[c].status = "succeeded" => remote[c] = "done"
       /\ snap[c].status = "failed" => remote[c] \in {"failed", "refused"}
  /\ \A c \in todo \union checking :
       /\ snap[c] # NoRow
       /\ run[c] \in {"send", "save", "poll", "observe", "ended"}
  /\ \A c \in checking : run[c] = "ended"
  /\ \A p \in PushPollers : poll[p] # NoPoll => poll[p].of = p[2]

(* Once a refresh of this dashboard is over, whatever may still execute    *)
(* has a job that blocks its target; until then the refresh has it ahead.  *)
RefreshFinds ==
  /\ refresh = NoRefresh => todo \union checking = {}
  /\ \A c \in Calls : plan[c] = "refreshing" => refresh # NoRefresh
  /\ up # "up" => \A c \in Calls : plan[c] \in {"none", "used"}
  /\ refresh # NoRefresh => \A c \in Calls : InProgress(c) =>
       job[c] \in Unsettled \/ c \in todo \union checking
  /\ (\E c \in Calls : plan[c] \in {"listed", "reading", "open"}) =>
       \A c \in Calls : InProgress(c) => job[c] \in Unsettled

(* A run has its target to itself, until the provider is done with it.     *)
RunsAlone ==
  \A c, d \in Calls :
    Active(c) /\ c # d /\ TargetOf[c] = TargetOf[d] =>
      ~Active(d) /\ ~InProgress(d)

PushInv ==
  /\ IInv /\ PushTyped
  /\ flow \in [Flows -> {"running"}]
  /\ RunsOnce /\ RefreshTrue /\ RefreshFinds /\ RunsAlone
  /\ NoOverlap /\ HonestJob

(* A push with a recorded operation is not left unsettled: if the          *)
(* dashboard stays up, its job ends as the provider's operation did.       *)
SettlesFor(c) ==
  (<>[](up = "up")) =>
    [](Recorded(c) /\ row[c].op => <>(job[c] \in Finished))
Settles == \A c \in Calls : SettlesFor(c)

(* push-execution.ts:51 says of a check that goes wrong that it leaves the *)
(* status alone: the end a job already shows does not become unknown.      *)
FailedCheck(c) ==
  /\ c \in checking
  /\ poll[<<"check", c>>] \in
       {NoPoll, [of |-> c, status |-> "needs_verification"]}
FailedCheckLeavesStatus ==
  [][\A c \in Calls :
       FailedCheck(c) /\ c \notin checking' /\ up' # "down"
         /\ job[c] \in Finished => job'[c] = job[c]]_pushVars
=============================================================================
