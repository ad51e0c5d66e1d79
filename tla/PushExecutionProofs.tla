------------------------ MODULE PushExecutionProofs ------------------------
(* What PushExecution promises for every number of pushes, targets, jobs   *)
(* and status requests: the inductive invariant PushInv, and with it that  *)
(* pushes never overlap and that jobs are honest.  It builds on what       *)
(* HistoryProofs shows of the journal.                                     *)
EXTENDS PushExecution, HistoryProofs, FiniteSetTheorems

(* The steps that move the journal keep its invariant.                     *)
LEMMA JournalKeeps ==
  ASSUME IInv, NEW c \in Calls,
         \/ Begin(c) \/ BeginFails(c) \/ Send(c) \/ Finish(c)
         \/ FinishFails(c) \/ Provider(c)
  PROVE  IInv'
BY IInvStep DEF Next, Request

(* A poll keeps the jobs and the journal together.                         *)
LEMMA PollKeeps ==
  ASSUME IInv, NEW p \in Pollers, Observe(p) \/ ObserveFails(p)
  PROVE  IInv'
BY IInvStep DEF Next, Verify

(* ... and so does a crash of the dashboard, which loses its requests.     *)
LEMMA CrashKeeps ==
  ASSUME IInv, Abandon(Calls), poll' = [p \in Pollers |-> NoPoll],
         UNCHANGED <<row, order, answer, remote, flow>>
  PROVE  IInv'
<1> USE ValuesAssumption
<1> USE DEF IInv
<1>1. \A c \in Calls :
        /\ phase'[c] \in {"new", "begun", "answered", "closed", "dead"}
        /\ phase'[c] \notin {"begun", "answered"}
        /\ phase'[c] = "new" => phase[c] = "new"
  BY DEF Abandon, Typed
<1>2. phase' \in [Calls -> {"new", "begun", "answered", "closed", "dead"}]
  BY <1>1 DEF Abandon
<1>3. Typed'
  BY <1>2 DEF Typed
<1>4. PendingRow' /\ NotYetSent' /\ AnswerTrue' /\ PollTrue'
  BY <1>1 DEF PendingRow, NotYetSent, AnswerTrue, PollTrue
<1>5. FlowVouches' /\ TruthfulOutcome' /\ ActivityRecorded'
  BY DEF FlowVouches, TruthfulOutcome, ActivityRecorded, Mislabelled, Recorded
<1>6. QED
  BY <1>3, <1>4, <1>5

(* No step of a request or a status request but begin() writes a new row.  *)
LEMMA NothingNew ==
  ASSUME Typed, NEW c \in Calls, NEW p \in Pollers,
         \/ Send(c) \/ Finish(c) \/ FinishFails(c) \/ Provider(c)
         \/ Ask(p, c) \/ Observe(p) \/ ObserveFails(p)
  PROVE  \A d \in Calls : ~Recorded(d) => ~Recorded(d)'
<1>1. CASE Observe(p)
  <2>1. poll[p] \in Polls /\ poll[p].of \in Calls
    BY <1>1 DEF Observe, Typed, Polls
  <2>2. QED
    BY <1>1, <2>1 DEF Observe, Recorded, Typed
<1>2. CASE Finish(c)
  BY <1>2 DEF Finish, Recorded, Typed
<1>3. QED
  BY <1>1, <1>2 DEF Send, FinishFails, Provider, Ask, ObserveFails, Recorded

(* What may still execute is in the journal, unresolved.                   *)
LEMMA InProgressRecorded ==
  ASSUME PushInv, NEW c \in Calls, InProgress(c)
  PROVE  /\ Recorded(c) /\ row[c] \in Rows
         /\ row[c].status \notin Terminal
<1>1. FlowOf[c] # NoFlow => flow[FlowOf[c]] = "running"
  BY HistoryAssumption DEF PushInv
<1>2. Recorded(c) /\ ~Resolved(row[c])
  BY <1>1, PushAssumption DEF PushInv, IInv, ActivityRecorded, Mislabelled, InProgress
<1>3. row[c] \in Rows
  BY <1>2 DEF PushInv, IInv, Typed, Recorded
<1>4. QED
  BY <1>2, <1>3, PushAssumption
  DEF PushInv, IInv, TruthfulOutcome, Mislabelled, Terminal, InProgress

(* What the journal holds stays while only the dashboard moves.            *)
LEMMA QuietKeeps ==
  ASSUME PushInv, UNCHANGED vars
  PROVE  /\ IInv' /\ flow' \in [Flows -> {"running"}]
         /\ UNCHANGED <<row, order, phase, answer, remote, poll, flow>>
         /\ \A c \in Calls : Recorded(c)' = Recorded(c)
BY IInvStep DEF PushInv, vars, Recorded

-----------------------------------------------------------------------------
(* Planning and launching *)

(* What reading the journal finds is true, and all that may still execute. *)
LEMMA ReadingFinds ==
  ASSUME PushInv, UNCHANGED vars, refresh = NoRefresh,
         NEW mode \in {"ask", "list"}, Reading(mode), UNCHANGED <<run, checking>>
  PROVE  /\ refresh' \in {"ask", "list"}
         /\ snap' \in [Calls -> Rows \union {NoRow}]
         /\ todo' \subseteq Calls /\ checking' = {}
         /\ RefreshTrue'
         /\ \A c \in Calls : InProgress(c) => c \in todo'
<1> USE DEF PushInv
<1>1. refresh' = mode /\ snap' = row /\ todo' = {c \in Calls : Recorded(c)}
  BY DEF Reading
<1>2. checking' = {}
  BY DEF RefreshFinds
<1>3. snap' \in [Calls -> Rows \union {NoRow}]
  BY <1>1 DEF IInv, Typed
<1>4. \A c \in Calls : snap'[c] # NoRow =>
        /\ snap'[c].status = "succeeded" => remote[c] = "done"
        /\ snap'[c].status = "failed" => remote[c] \in {"failed", "refused"}
  BY <1>1, PushAssumption DEF IInv, TruthfulOutcome, Mislabelled, Recorded
<1>5. \A c \in todo' :
        /\ snap'[c] # NoRow
        /\ run[c] \in {"send", "save", "poll", "observe", "ended"}
  BY <1>1 DEF RunsOnce, Recorded, PushTyped, Idle
<1>6. RefreshTrue'
  BY <1>2, <1>4, <1>5 DEF RefreshTrue, vars
<1>7. \A c \in Calls : InProgress(c) => c \in todo'
  BY <1>1, InProgressRecorded
<1>8. QED
  BY <1>1, <1>2, <1>3, <1>6, <1>7

(* So does the start of a refresh.                                         *)
LEMMA RefreshStartKeeps ==
  ASSUME PushInv, RefreshStart
  PROVE  PushInv'
<1> USE DEF PushInv
<1>1. PICK mode \in {"ask", "list"} : Reading(mode)
  BY DEF RefreshStart
<1>2. /\ refresh = NoRefresh
      /\ UNCHANGED vars /\ UNCHANGED <<up, plan, job, run, checking>>
  BY DEF RefreshStart
<1>3. /\ IInv' /\ flow' \in [Flows -> {"running"}]
      /\ UNCHANGED <<row, order, phase, answer, remote, poll, flow>>
      /\ \A c \in Calls : Recorded(c)' = Recorded(c)
  BY <1>2, QuietKeeps
<1>4. /\ refresh' \in {"ask", "list"}
      /\ snap' \in [Calls -> Rows \union {NoRow}]
      /\ todo' \subseteq Calls /\ checking' = {}
      /\ RefreshTrue'
      /\ \A c \in Calls : InProgress(c) => c \in todo'
  BY <1>1, <1>2, ReadingFinds
<1>5. PushTyped'
  BY <1>2, <1>4 DEF PushTyped
<1>6. RunsOnce' /\ RunsAlone' /\ NoOverlap' /\ HonestJob'
  BY <1>2, <1>3
  DEF RunsOnce, RunsAlone, NoOverlap, HonestJob, RunningShows, Active, InProgress
<1>7. RefreshFinds'
  BY <1>2, <1>3, <1>4 DEF RefreshFinds, InProgress, NoRefresh
<1>8. QED
  BY <1>3, <1>4, <1>5, <1>6, <1>7

(* So does a call that plans a push.                                       *)
LEMMA PlanCallKeeps ==
  ASSUME PushInv, NEW c \in Calls, PlanCall(c)
  PROVE  PushInv'
<1> USE DEF PushInv
<1>1. /\ up = "up" /\ plan[c] = "none"
      /\ plan' = [plan EXCEPT ![c] = "refreshing"]
      /\ UNCHANGED vars /\ UNCHANGED <<up, job, run, checking>>
  BY DEF PlanCall, Planning
<1>2. /\ IInv' /\ flow' \in [Flows -> {"running"}]
      /\ UNCHANGED <<row, order, phase, answer, remote, poll, flow>>
      /\ \A d \in Calls : Recorded(d)' = Recorded(d)
  BY <1>1, QuietKeeps
<1>3. RunsOnce' /\ RunsAlone' /\ NoOverlap' /\ HonestJob'
  BY <1>1, <1>2
  DEF RunsOnce, RunsAlone, NoOverlap, HonestJob, RunningShows, Active, InProgress,
      PushTyped
<1>4. CASE refresh = NoRefresh /\ Reading("ask")
  <2>1. /\ refresh' \in {"ask", "list"}
        /\ snap' \in [Calls -> Rows \union {NoRow}]
        /\ todo' \subseteq Calls /\ checking' = {}
        /\ RefreshTrue'
        /\ \A d \in Calls : InProgress(d) => d \in todo'
    BY <1>1, <1>4, ReadingFinds
  <2>2. PushTyped'
    BY <1>1, <2>1 DEF PushTyped
  <2>3. RefreshFinds'
    BY <1>1, <1>2, <2>1 DEF RefreshFinds, InProgress, NoRefresh, PushTyped
  <2>4. QED
    BY <1>2, <1>3, <2>1, <2>2, <2>3
<1>5. CASE refresh # NoRefresh /\ UNCHANGED <<refresh, snap, todo>>
  <2>1. PushTyped'
    BY <1>1, <1>5 DEF PushTyped
  <2>2. RefreshTrue'
    BY <1>1, <1>2, <1>5 DEF RefreshTrue
  <2>3. RefreshFinds'
    BY <1>1, <1>2, <1>5 DEF RefreshFinds, InProgress, PushTyped
  <2>4. QED
    BY <1>2, <1>3, <2>1, <2>2, <2>3
<1>6. QED
  BY <1>4, <1>5 DEF PlanCall

(* The stages of a plan that change nothing but the plan.                  *)
LEMMA PlanMovesKeep ==
  ASSUME PushInv, NEW c \in Calls,
         PlanCheck(c) \/ PlanReady(c) \/ PlanGone(c) \/ LaunchRefused(c)
  PROVE  PushInv'
<1> USE DEF PushInv
<1>1. PICK stage \in {"reading", "open", "used"} :
        plan' = [plan EXCEPT ![c] = stage]
  BY DEF PlanCheck, PlanReady, PlanGone, LaunchRefused, Planning
<1>2. /\ stage # "used" => plan[c] \in {"listed", "reading"} /\ up = "up"
      /\ plan[c] # "none" /\ plan[c] # "used"
      /\ UNCHANGED vars
      /\ UNCHANGED <<up, job, run, refresh, snap, todo, checking>>
  BY <1>1 DEF PlanCheck, PlanReady, PlanGone, LaunchRefused, Planning, PushTyped
<1>3. /\ IInv' /\ flow' \in [Flows -> {"running"}]
      /\ UNCHANGED <<row, order, phase, answer, remote, poll, flow>>
      /\ \A d \in Calls : Recorded(d)' = Recorded(d)
  BY <1>2, QuietKeeps
<1>4. PushTyped'
  BY <1>1, <1>2 DEF PushTyped
<1>5. RunsOnce' /\ RunsAlone' /\ NoOverlap' /\ HonestJob'
  BY <1>1, <1>2, <1>3
  DEF RunsOnce, RunsAlone, NoOverlap, HonestJob, RunningShows, Active, InProgress,
      PushTyped
<1>6. RefreshTrue'
  BY <1>2, <1>3 DEF RefreshTrue
<1>7. RefreshFinds'
  BY <1>1, <1>2, <1>3 DEF RefreshFinds, InProgress, PushTyped
<1>8. QED
  BY <1>3, <1>4, <1>5, <1>6, <1>7

(* The push that is launched finds its target free: its plan has waited    *)
(* for a refresh, so whatever may still execute there has a job that says  *)
(* so.                                                                     *)
LEMMA LaunchKeeps ==
  ASSUME PushInv, NEW c \in Calls, Launch(c)
  PROVE  PushInv'
<1> USE DEF PushInv
<1>1. /\ up = "up" /\ plan[c] = "open" /\ ~Refuse(c)
      /\ plan' = [plan EXCEPT ![c] = "used"]
      /\ run' = [run EXCEPT ![c] = "check"]
      /\ UNCHANGED vars /\ UNCHANGED <<up, refresh, snap, todo, checking>>
  BY DEF Launch, Planning, GoTo
<1>2. /\ IInv' /\ flow' \in [Flows -> {"running"}]
      /\ UNCHANGED <<row, order, phase, answer, remote, poll, flow>>
      /\ \A d \in Calls : Recorded(d)' = Recorded(d)
  BY <1>1, QuietKeeps
<1>3. /\ job' \in [Jobs -> {"absent"} \union Unsettled \union Finished]
      /\ job'[c] = "running"
      /\ \A d \in Jobs \ {c} :
           job'[d] = job[d] \/ (job[d] \in Finished /\ job'[d] = "absent")
  <2>1. CASE job' = [job EXCEPT ![c] = "running"]
    BY <2>1 DEF PushTyped, Jobs, Unsettled
  <2>2. ASSUME NEW d \in Known, job[d] \in Finished,
               job' = [job EXCEPT ![d] = "absent", ![c] = "running"]
        PROVE  <1>3
    BY <2>2 DEF PushTyped, Jobs, Unsettled, Known
  <2>3. QED
    BY <2>1, <2>2 DEF Launch, Show
<1>4. run[c] = "none"
  BY <1>1 DEF RunsOnce
<1>5. \A d \in Calls : TargetOf[d] = TargetOf[c] => ~Active(d) /\ ~InProgress(d)
  <2>1. SUFFICES ASSUME NEW d \in Calls, TargetOf[d] = TargetOf[c]
                 PROVE  ~Active(d) /\ ~InProgress(d)
    OBVIOUS
  <2>2. ~Active(d) /\ ~Blocked(TargetOf[c])
    BY <1>1, <2>1 DEF Refuse
  <2>3. job[d] \notin Unsettled
    BY <2>1, <2>2, PushAssumption DEF Blocked, Known, Jobs, Unsettled
  <2>4. InProgress(d) => job[d] \in Unsettled
    BY <1>1 DEF RefreshFinds
  <2>5. QED
    BY <2>2, <2>3, <2>4
<1>6. PushTyped'
  BY <1>1, <1>3 DEF PushTyped
<1>7. phase[c] = "new" /\ ~Recorded(c)
  BY <1>4 DEF RunsOnce
<1>8. RunsOnce'
  BY <1>1, <1>2, <1>7 DEF RunsOnce, PushTyped
<1>9. c \notin todo \union checking
  BY <1>4 DEF RefreshTrue
<1>10. RefreshTrue'
  BY <1>1, <1>2, <1>9 DEF RefreshTrue, PushTyped
<1>11. \A d \in Calls : InProgress(d) /\ job[d] \in Unsettled => job'[d] \in Unsettled
  BY <1>3 DEF Jobs, Unsettled, Finished
<1>12. RefreshFinds'
  BY <1>1, <1>2, <1>11 DEF RefreshFinds, InProgress, PushTyped
<1>13. RunsAlone' /\ NoOverlap'
  BY <1>1, <1>2, <1>5 DEF RunsAlone, NoOverlap, Active, InProgress, PushTyped
<1>14. HonestJob'
  BY <1>1, <1>2, <1>3
  DEF HonestJob, RunningShows, Active, Idle, Jobs, Finished, PushTyped
<1>15. QED
  BY <1>2, <1>6, <1>8, <1>10, <1>12, <1>13, <1>14

-----------------------------------------------------------------------------
(* Runs *)

(* What a step of the run of c leaves alone, besides the provider.         *)
OthersStay(c) ==
  /\ UNCHANGED <<up, plan, refresh, snap, todo, checking>>
  /\ \A d \in Calls \ {c} : phase'[d] = phase[d] /\ (~Recorded(d) => ~Recorded(d)')
  /\ \A p \in PushPollers :
       poll'[p] = poll[p] \/ poll'[p] = NoPoll \/ poll'[p].of = p[2]

(* A run goes on to its next label: its job stays as it is.                *)
LEMMA RunGoesOn ==
  ASSUME PushInv, NEW c \in Calls, Active(c), OthersStay(c),
         NEW label \in {"prepare", "begin", "send", "poll", "observe"},
         GoTo(c, label), UNCHANGED <<job, remote>>,
         label \in {"prepare", "begin"} =>
           run[c] \in {"check", "prepare"} /\ phase'[c] = "new" /\ ~Recorded(c)',
         phase'[c] # "answered", phase'[c] = "begun" => label = "send",
         IInv', flow' \in [Flows -> {"running"}]
  PROVE  PushInv'
<1> USE DEF PushInv, GoTo, OthersStay
<1>1. PushTyped'
  BY DEF PushTyped
<1>2. RunsOnce'
  BY DEF RunsOnce, PushTyped, Active, Idle
<1>3. RefreshTrue'
  BY DEF RefreshTrue, PushTyped, Active, Idle
<1>4. RefreshFinds'
  BY DEF RefreshFinds, InProgress
<1>5. RunsAlone' /\ NoOverlap' /\ HonestJob'
  BY DEF RunsAlone, NoOverlap, HonestJob, RunningShows, InProgress, Active, Idle,
         PushTyped
<1>6. QED
  BY <1>1, <1>2, <1>3, <1>4, <1>5

(* A run ends with a status that is true.                                  *)
LEMMA RunEnds ==
  ASSUME PushInv, NEW c \in Calls, Active(c), OthersStay(c),
         NEW status \in {"completed", "failed", "needs_verification"},
         EndRun(c, status), UNCHANGED remote,
         status = "completed" => remote[c] = "done",
         status = "failed" => remote[c] \in {"unsent", "refused", "failed"},
         phase'[c] \notin {"begun", "answered"},
         IInv', flow' \in [Flows -> {"running"}]
  PROVE  PushInv'
<1> USE DEF PushInv, EndRun, GoTo, Show, OthersStay
<1>1. PushTyped'
  BY DEF PushTyped, Jobs, Unsettled, Finished, Idle
<1>2. RunsOnce'
  BY DEF RunsOnce, PushTyped, Active, Idle
<1>3. RefreshTrue'
  BY DEF RefreshTrue, PushTyped
<1>4. \A d \in Calls : InProgress(d) /\ job[d] \in Unsettled => job'[d] \in Unsettled
  BY DEF InProgress, Unsettled, Jobs, PushTyped
<1>5. RefreshFinds'
  BY <1>4 DEF RefreshFinds, InProgress
<1>6. RunsAlone' /\ NoOverlap'
  BY DEF RunsAlone, NoOverlap, InProgress, Active, Idle, PushTyped
<1>7. HonestJob'
  BY DEF HonestJob, RunningShows, Active, Idle, Jobs, PushTyped
<1>8. QED
  BY <1>1, <1>2, <1>3, <1>5, <1>6, <1>7

(* The steps of a run that leave the journal alone.                        *)
LEMMA RunQuietKeeps ==
  ASSUME PushInv, NEW c \in Calls,
         RunCheck(c) \/ RunPrepare(c) \/ RunGivesUp(c)
  PROVE  PushInv'
<1> USE DEF PushInv
<1>1. /\ run[c] \in {"check", "prepare", "poll"} /\ Active(c)
      /\ UNCHANGED vars /\ UNCHANGED <<up, plan, refresh, snap, todo, checking>>
  BY DEF RunCheck, RunPrepare, RunGivesUp, Active, Idle
<1>2. /\ IInv' /\ flow' \in [Flows -> {"running"}]
      /\ UNCHANGED <<row, order, phase, answer, remote, poll, flow>>
      /\ \A d \in Calls : Recorded(d)' = Recorded(d)
  BY <1>1, QuietKeeps
<1>3. OthersStay(c)
  BY <1>1, <1>2 DEF OthersStay
<1>4. /\ phase[c] \notin {"begun", "answered"}
      /\ run[c] # "poll" => phase[c] = "new" /\ remote[c] = "unsent" /\ ~Recorded(c)
  BY <1>1 DEF RunsOnce, IInv, NotYetSent
<1>5. CASE \E label \in {"prepare", "begin"} :
             GoTo(c, label) /\ UNCHANGED job /\ run[c] # "poll"
  BY <1>1, <1>2, <1>3, <1>4, <1>5, RunGoesOn
<1>6. CASE EndRun(c, "failed") /\ run[c] = "check"
  BY <1>1, <1>2, <1>3, <1>4, <1>6, RunEnds
<1>7. CASE EndRun(c, "needs_verification")
  BY <1>1, <1>2, <1>3, <1>4, <1>7, RunEnds
<1>8. QED
  BY <1>5, <1>6, <1>7 DEF RunCheck, RunPrepare, RunGivesUp

(* So does a push that is written to the journal.                          *)
LEMMA RunBeginKeeps ==
  ASSUME PushInv, NEW c \in Calls, RunBegin(c)
  PROVE  PushInv'
<1> USE DEF PushInv
<1>1. /\ run[c] = "begin" /\ Active(c)
      /\ UNCHANGED <<up, plan, refresh, snap, todo, checking>>
      /\ Begin(c) \/ BeginFails(c)
  BY DEF RunBegin, Active, Idle
<1>2. /\ IInv'
      /\ UNCHANGED <<answer, remote, poll, flow>>
      /\ \A d \in Calls \ {c} : phase'[d] = phase[d]
  BY <1>1, JournalKeeps DEF Begin, BeginFails, IInv, Typed
<1>3. \A d \in Calls \ {c} : ~Recorded(d) => ~Recorded(d)'
  <2>1. CASE UNCHANGED journal
    BY <2>1 DEF journal, Recorded
  <2>2. CASE Insert(c, NewRow(c))
    <3>1. NewRow(c) \in Rows
      BY NewRowIsRow
    <3>2. QED
      BY <2>2, <3>1, InsertDropsResolved DEF IInv, Recorded
  <2>3. QED
    BY <1>1, <2>1, <2>2 DEF Begin, BeginFails
<1>4. OthersStay(c)
  BY <1>1, <1>2, <1>3 DEF OthersStay
<1>5. CASE Begin(c) /\ GoTo(c, "send") /\ UNCHANGED job
  <2>1. phase'[c] = "begun"
    BY <1>5 DEF Begin, IInv, Typed
  <2>2. QED
    BY <1>1, <1>2, <1>4, <1>5, <2>1, RunGoesOn
<1>6. CASE BeginFails(c) /\ EndRun(c, "needs_verification")
  <2>1. phase'[c] = "closed"
    BY <1>6 DEF BeginFails, IInv, Typed
  <2>2. QED
    BY <1>1, <1>2, <1>4, <1>6, <2>1, RunEnds
<1>7. QED
  BY <1>5, <1>6 DEF RunBegin

(* The request goes out while the run has its target to itself.            *)
LEMMA RunSendKeeps ==
  ASSUME PushInv, NEW c \in Calls, RunSend(c)
  PROVE  PushInv'
<1> USE DEF PushInv
<1>1. /\ run[c] = "send" /\ Active(c) /\ Send(c)
      /\ run' = [run EXCEPT ![c] = "save"]
      /\ UNCHANGED <<up, plan, job, refresh, snap, todo, checking>>
  BY DEF RunSend, Active, Idle, GoTo
<1>2. phase[c] = "begun" /\ remote[c] = "unsent"
  BY <1>1 DEF Send, IInv, NotYetSent
<1>3. /\ IInv' /\ UNCHANGED <<row, order, poll, flow>>
  BY <1>1, JournalKeeps DEF Send
<1>4. /\ phase' = [phase EXCEPT ![c] = "answered"]
      /\ \A d \in Calls \ {c} : remote'[d] = remote[d]
  BY <1>1 DEF Send, Accepted, Refused, RefusedLate, Unclear, Answered, IInv, Typed
<1>5. PushTyped'
  BY <1>1 DEF PushTyped
<1>6. RunsOnce'
  BY <1>1, <1>3, <1>4 DEF RunsOnce, PushTyped, Recorded, IInv, Typed
<1>7. RefreshTrue'
  BY <1>1, <1>2, <1>3, <1>4 DEF RefreshTrue, PushTyped
<1>8. job[c] = "running"
  BY <1>1 DEF HonestJob, RunningShows
<1>9. RefreshFinds'
  BY <1>1, <1>4, <1>8 DEF RefreshFinds, InProgress, Unsettled
<1>10. RunsAlone' /\ NoOverlap'
  BY <1>1, <1>4 DEF RunsAlone, NoOverlap, InProgress, Active, Idle, PushTyped
<1>11. HonestJob'
  BY <1>1, <1>4, <1>8 DEF HonestJob, RunningShows, Active, Idle, PushTyped
<1>12. QED
  BY <1>3, <1>5, <1>6, <1>7, <1>9, <1>10, <1>11

(* So does the answer of its request.                                      *)
LEMMA RunSaveKeeps ==
  ASSUME PushInv, NEW c \in Calls, RunSave(c)
  PROVE  PushInv'
<1> USE DEF PushInv
<1>1. /\ run[c] = "save" /\ Active(c)
      /\ UNCHANGED <<up, plan, refresh, snap, todo, checking>>
      /\ Finish(c) \/ FinishFails(c)
  BY DEF RunSave, Active, Idle
<1>2. /\ IInv'
      /\ UNCHANGED <<answer, remote, poll, flow>>
      /\ phase' = [phase EXCEPT ![c] = "closed"]
  BY <1>1, JournalKeeps DEF Finish, FinishFails
<1>3. \A d \in Calls : ~Recorded(d) => ~Recorded(d)'
  BY <1>1 DEF Finish, FinishFails, Recorded, IInv, Typed
<1>4. OthersStay(c) /\ phase'[c] = "closed"
  BY <1>1, <1>2, <1>3 DEF OthersStay, IInv, Typed
<1>5. CASE GoTo(c, "poll") /\ UNCHANGED job
  BY <1>1, <1>2, <1>4, <1>5, RunGoesOn
<1>6. CASE EndRun(c, "needs_verification")
  BY <1>1, <1>2, <1>4, <1>6, RunEnds
<1>7. QED
  BY <1>5, <1>6 DEF RunSave

(* So does an answer about its operation.                                  *)
LEMMA RunPollKeeps ==
  ASSUME PushInv, NEW c \in Calls, RunPoll(c) \/ RunObserve(c)
  PROVE  PushInv'
<1> USE DEF PushInv
<1>1. DEFINE p == <<"run", c>>
<1>2. p \in Pollers /\ p \in PushPollers /\ p[2] = c
  BY PushAssumption DEF PushPollers
<1> HIDE DEF p
<1>3. /\ run[c] \in {"poll", "observe"} /\ Active(c)
      /\ UNCHANGED <<up, plan, refresh, snap, todo, checking>>
      /\ Ask(p, c) \/ Observe(p) \/ ObserveFails(p)
  BY DEF RunPoll, RunObserve, Active, Idle, p
<1>4. /\ IInv' /\ UNCHANGED <<phase, answer, remote, flow>>
  BY <1>2, <1>3, AskKeeps, PollKeeps DEF Ask, Observe, ObserveFails
<1>5. \A d \in Calls : ~Recorded(d) => ~Recorded(d)'
  BY <1>2, <1>3, NothingNew DEF IInv
<1>6. \A q \in PushPollers :
        poll'[q] = poll[q] \/ poll'[q] = NoPoll \/ poll'[q].of = q[2]
  BY <1>2, <1>3, PushAssumption DEF Ask, Observe, ObserveFails, IInv, Typed
<1>7. phase'[c] \notin {"begun", "answered"}
  BY <1>3, <1>4 DEF RunsOnce
<1>8. OthersStay(c)
  BY <1>3, <1>4, <1>5, <1>6 DEF OthersStay
<1>9. CASE \E label \in {"poll", "observe"} : GoTo(c, label) /\ UNCHANGED job
  BY <1>3, <1>4, <1>7, <1>8, <1>9, RunGoesOn
<1>10. CASE EndRun(c, "needs_verification")
  BY <1>3, <1>4, <1>7, <1>8, <1>10, RunEnds
<1>11. CASE Observe(p) /\ poll[p].status = "succeeded" /\ EndRun(c, "completed")
  <2>1. poll[p].of = c /\ poll[p] # NoPoll
    BY <1>2, <1>11 DEF RefreshTrue, Observe
  <2>2. remote[c] = "done"
    BY <1>2, <1>11, <2>1 DEF IInv, PollTrue
  <2>3. QED
    BY <1>3, <1>4, <1>7, <1>8, <1>11, <2>2, RunEnds
<1>12. QED
  BY <1>9, <1>10, <1>11 DEF RunPoll, RunObserve, p

(* What is done or failed at the provider stays so, and nothing that had   *)
(* not been sent begins.                                                   *)
LEMMA ProviderKeeps ==
  ASSUME PushInv, NEW c \in Calls, Provider(c), UNCHANGED dashboard
  PROVE  PushInv'
<1> USE DEF PushInv
<1>1. /\ IInv' /\ UNCHANGED <<row, order, phase, answer, poll, flow>>
      /\ UNCHANGED <<up, plan, job, run, refresh, snap, todo, checking>>
  BY JournalKeeps DEF Provider, dashboard
<1>2. /\ remote[c] \in {"in_flight", "running"}
      /\ \A d \in Calls : d # c => remote'[d] = remote[d]
  BY DEF Provider, Arrive, Complete, IInv, Typed
<1>3. \A d \in Calls : InProgress(d)' => InProgress(d)
  BY <1>2 DEF InProgress
<1>4. PushTyped' /\ RunsOnce'
  BY <1>1 DEF PushTyped, RunsOnce, Recorded
<1>5. RefreshTrue'
  BY <1>1, <1>2 DEF RefreshTrue
<1>6. RefreshFinds'
  BY <1>1, <1>3 DEF RefreshFinds
<1>7. RunsAlone' /\ NoOverlap'
  BY <1>1, <1>3 DEF RunsAlone, NoOverlap, Active
<1>8. HonestJob'
  BY <1>1, <1>2 DEF HonestJob, RunningShows, Active
<1>9. QED
  BY <1>1, <1>4, <1>5, <1>6, <1>7, <1>8

-----------------------------------------------------------------------------
(* The refresh *)

(* A refresh changes the job of a push whose run is over, and only to what *)
(* is true: a job whose push may still execute keeps its target blocked.   *)
LEMMA JobRefreshed ==
  ASSUME PushInv, NEW c \in Calls, ~Active(c),
         NEW status \in Unsettled \union Finished, Show(c, status),
         status = "completed" => remote[c] = "done",
         status = "failed" => remote[c] \in {"refused", "failed"},
         UNCHANGED <<run, remote>>
  PROVE  /\ job' \in [Jobs -> {"absent"} \union Unsettled \union Finished]
         /\ HonestJob'
         /\ InProgress(c) => job'[c] \in Unsettled
         /\ \A d \in Calls : d # c => job'[d] = job[d]
<1> USE DEF PushInv, Show
<1>1. /\ job' \in [Jobs -> {"absent"} \union Unsettled \union Finished]
      /\ job'[c] = status
      /\ \A d \in Calls : d # c => job'[d] = job[d]
  BY DEF PushTyped, Jobs
<1>2. HonestJob'
  BY <1>1 DEF HonestJob, RunningShows, Active
<1>3. InProgress(c) => job'[c] \in Unsettled
  BY <1>1 DEF InProgress, Finished
<1>4. QED
  BY <1>1, <1>2, <1>3

(* What a row that was read shows is true.                                 *)
LEMMA SnapTrue ==
  ASSUME PushInv, NEW c \in todo \union checking
  PROVE  /\ FromRow(snap[c]) \in {"completed", "failed", "needs_verification"}
         /\ FromRow(snap[c]) = "completed" => remote[c] = "done"
         /\ FromRow(snap[c]) = "failed" => remote[c] \in {"refused", "failed"}
BY DEF PushInv, RefreshTrue, FromRow, PushTyped

(* So does a worker that takes the next row.                               *)
LEMMA TakeKeeps ==
  ASSUME PushInv, NEW c \in Calls, Take(c)
  PROVE  PushInv'
<1> USE DEF PushInv
<1>1. /\ c \in todo /\ todo' = todo \ {c}
      /\ UNCHANGED vars /\ UNCHANGED <<up, plan, run, refresh, snap>>
  BY DEF Take
<1>2. /\ IInv' /\ flow' \in [Flows -> {"running"}]
      /\ UNCHANGED <<row, order, phase, answer, remote, poll, flow>>
      /\ \A d \in Calls : Recorded(d)' = Recorded(d)
  BY <1>1, QuietKeeps
<1>3. RunsOnce' /\ RunsAlone' /\ NoOverlap'
  BY <1>1, <1>2 DEF RunsOnce, RunsAlone, NoOverlap, Active, InProgress
<1>4. refresh # NoRefresh
  BY <1>1 DEF RefreshFinds
<1>5. /\ FromRow(snap[c]) \in {"completed", "failed", "needs_verification"}
      /\ FromRow(snap[c]) = "completed" => remote[c] = "done"
      /\ FromRow(snap[c]) = "failed" => remote[c] \in {"refused", "failed"}
  BY <1>1, SnapTrue
<1>6. CASE Skipped(c) /\ UNCHANGED <<job, checking>>
  <2>1. InProgress(c) => job[c] \in Unsettled
    <3>1. Active(c) => job[c] = "running"
      BY DEF HonestJob, RunningShows
    <3>2. job[c] \in {"absent"} \union Unsettled \union Finished
      BY DEF PushTyped, Jobs
    <3>3. InProgress(c) /\ job[c] # "absent" => job[c] \in Unsettled
      BY <3>2 DEF HonestJob, InProgress, Finished
    <3>4. QED
      BY <1>6, <3>1, <3>3 DEF Skipped, Unsettled
  <2>2. PushTyped' /\ HonestJob'
    BY <1>1, <1>2, <1>6 DEF PushTyped, HonestJob, RunningShows, Active
  <2>3. RefreshTrue'
    BY <1>1, <1>2, <1>6 DEF RefreshTrue
  <2>4. RefreshFinds'
    BY <1>1, <1>2, <1>4, <1>6, <2>1 DEF RefreshFinds, InProgress
  <2>5. QED
    BY <1>2, <1>3, <2>2, <2>3, <2>4
<1>7. CASE /\ ~Skipped(c) /\ checking' = checking \union {c}
           /\ UNCHANGED job
  <2>1. run[c] = "ended"
    BY <1>1, <1>7 DEF Skipped, Active, Idle, RefreshTrue
  <2>2. PushTyped' /\ HonestJob'
    BY <1>1, <1>2, <1>7 DEF PushTyped, HonestJob, RunningShows, Active
  <2>3. RefreshTrue'
    BY <1>1, <1>2, <1>7, <2>1 DEF RefreshTrue
  <2>4. RefreshFinds'
    BY <1>1, <1>2, <1>4, <1>7 DEF RefreshFinds, InProgress
  <2>5. QED
    BY <1>2, <1>3, <2>2, <2>3, <2>4
<1>8. CASE ~Skipped(c) /\ Show(c, FromRow(snap[c])) /\ UNCHANGED checking
  <2>1. ~Active(c)
    BY <1>8 DEF Skipped
  <2>2. /\ job' \in [Jobs -> {"absent"} \union Unsettled \union Finished]
        /\ HonestJob'
        /\ InProgress(c) => job'[c] \in Unsettled
        /\ \A d \in Calls : d # c => job'[d] = job[d]
    BY <1>1, <1>2, <1>5, <1>8, <2>1, JobRefreshed DEF Unsettled, Finished
  <2>3. PushTyped'
    BY <1>1, <1>8, <2>2 DEF PushTyped
  <2>4. RefreshTrue'
    BY <1>1, <1>2, <1>8 DEF RefreshTrue
  <2>5. RefreshFinds'
    BY <1>1, <1>2, <1>4, <1>8, <2>2 DEF RefreshFinds, InProgress
  <2>6. QED
    BY <1>2, <1>3, <2>2, <2>3, <2>4, <2>5
<1>9. QED
  BY <1>6, <1>7, <1>8 DEF Take

(* So does its question.                                                   *)
LEMMA CheckAskKeeps ==
  ASSUME PushInv, NEW c \in Calls, CheckAsk(c)
  PROVE  PushInv'
<1> USE DEF PushInv
<1>1. DEFINE p == <<"check", c>>
<1>2. p \in Pollers /\ p \in PushPollers /\ p[2] = c
  BY PushAssumption DEF PushPollers
<1> HIDE DEF p
<1>3. /\ Ask(p, c)
      /\ UNCHANGED <<up, plan, job, run, refresh, snap, todo, checking>>
  BY DEF CheckAsk, dashboard, p
<1>4. /\ IInv' /\ UNCHANGED <<row, order, phase, answer, remote, flow>>
  BY <1>2, <1>3, AskKeeps DEF Ask
<1>5. \A q \in PushPollers : poll'[q] = poll[q] \/ poll'[q].of = q[2]
  BY <1>2, <1>3, PushAssumption DEF Ask, IInv, Typed
<1>6. PushTyped' /\ RunsOnce' /\ RunsAlone' /\ NoOverlap' /\ HonestJob'
  BY <1>3, <1>4
  DEF PushTyped, RunsOnce, RunsAlone, NoOverlap, HonestJob, RunningShows, Recorded,
      Active, InProgress
<1>7. RefreshTrue'
  BY <1>3, <1>4, <1>5 DEF RefreshTrue
<1>8. RefreshFinds'
  BY <1>3, <1>4 DEF RefreshFinds, InProgress
<1>9. QED
  BY <1>4, <1>6, <1>7, <1>8

(* The answer to a check, or its failure, leaves a job that is true.       *)
LEMMA CheckedKeeps ==
  ASSUME PushInv, NEW c \in checking, NEW status \in Statuses,
         Checked(c, status),
         status = "succeeded" => remote[c] = "done",
         status = "failed" => remote[c] = "failed",
         UNCHANGED <<phase, remote, up, plan, run, refresh, snap, todo>>,
         \A d \in Calls : ~Recorded(d) => ~Recorded(d)',
         \A p \in PushPollers : poll'[p] = poll[p] \/ poll'[p] = NoPoll,
         IInv', flow' \in [Flows -> {"running"}]
  PROVE  PushInv'
<1> USE DEF PushInv
<1>1. c \in Calls /\ run[c] = "ended" /\ ~Active(c) /\ refresh # NoRefresh
  BY DEF PushTyped, RefreshTrue, RefreshFinds, Active, Idle
<1>2. /\ FromRow(snap[c]) \in {"completed", "failed", "needs_verification"}
      /\ FromRow(snap[c]) = "completed" => remote[c] = "done"
      /\ FromRow(snap[c]) = "failed" => remote[c] \in {"refused", "failed"}
  BY SnapTrue
<1>3. PICK shown \in Unsettled \union Finished :
        /\ Show(c, shown)
        /\ shown = "completed" => remote[c] = "done"
        /\ shown = "failed" => remote[c] \in {"refused", "failed"}
  BY <1>2 DEF Checked, Unsettled, Finished, Statuses
<1>4. checking' = checking \ {c}
  BY DEF Checked
<1>5. /\ job' \in [Jobs -> {"absent"} \union Unsettled \union Finished]
      /\ HonestJob'
      /\ InProgress(c) => job'[c] \in Unsettled
      /\ \A d \in Calls : d # c => job'[d] = job[d]
  BY <1>1, <1>3, JobRefreshed
<1>6. PushTyped'
  BY <1>4, <1>5 DEF PushTyped
<1>7. RunsOnce' /\ RunsAlone' /\ NoOverlap'
  BY DEF RunsOnce, RunsAlone, NoOverlap, Active, InProgress
<1>8. RefreshTrue'
  BY <1>4 DEF RefreshTrue
<1>9. RefreshFinds'
  BY <1>1, <1>4, <1>5 DEF RefreshFinds, InProgress
<1>10. QED
  BY <1>5, <1>6, <1>7, <1>8, <1>9

(* So does its answer, or its failure.                                     *)
LEMMA CheckEndsKeep ==
  ASSUME PushInv, NEW c \in Calls, CheckDone(c) \/ CheckFails(c)
  PROVE  PushInv'
<1> USE DEF PushInv
<1>1. DEFINE p == <<"check", c>>
<1>2. p \in Pollers /\ p \in PushPollers /\ p[2] = c
  BY PushAssumption DEF PushPollers
<1> HIDE DEF p
<1>3. /\ c \in checking /\ UNCHANGED <<up, plan, run, refresh, snap, todo>>
  BY DEF CheckDone, CheckFails
<1>4. CASE Observe(p) \/ ObserveFails(p)
  <2>1. /\ IInv' /\ UNCHANGED <<phase, answer, remote, flow>>
        /\ \A q \in PushPollers : poll'[q] = poll[q] \/ poll'[q] = NoPoll
    BY <1>2, <1>4, PollKeeps, PushAssumption DEF Observe, ObserveFails, IInv, Typed
  <2>2. \A d \in Calls : ~Recorded(d) => ~Recorded(d)'
    BY <1>2, <1>4, NothingNew DEF IInv
  <2>3. /\ poll[p] \in Polls /\ poll[p] # NoPoll /\ poll[p].of = c
        /\ poll[p].status \in Statuses
    BY <1>2, <1>4 DEF Observe, ObserveFails, RefreshTrue, IInv, Typed, Polls
  <2>4. /\ poll[p].status = "succeeded" => remote[c] = "done"
        /\ poll[p].status = "failed" => remote[c] = "failed"
    BY <1>2, <2>3 DEF IInv, PollTrue
  <2>5. CASE Checked(c, poll[p].status)
    BY <1>3, <2>1, <2>2, <2>3, <2>4, <2>5, CheckedKeeps
  <2>6. CASE Checked(c, "needs_verification")
    BY <1>3, <2>1, <2>2, <2>6, CheckedKeeps DEF Statuses
  <2>7. CASE CheckFails(c)
    BY <2>6, <2>7 DEF CheckFails
  <2>8. QED
    BY <2>5, <2>6, <2>7 DEF CheckDone, p
<1>5. CASE CheckFails(c)
  <2>1. /\ IInv' /\ flow' \in [Flows -> {"running"}]
        /\ UNCHANGED <<row, order, phase, answer, remote, poll, flow>>
        /\ \A d \in Calls : Recorded(d)' = Recorded(d)
    BY <1>5, QuietKeeps DEF CheckFails
  <2>2. QED
    BY <1>3, <1>5, <2>1, CheckedKeeps DEF CheckFails, Statuses
<1>6. QED
  BY <1>4, <1>5 DEF CheckDone, p

(* A refresh that ends while the dashboard is up has looked at every row.  *)
LEMMA RefreshEndKeeps ==
  ASSUME PushInv, RefreshEnd
  PROVE  PushInv'
<1> USE DEF PushInv
<1>1. /\ refresh # NoRefresh /\ refresh' = NoRefresh
      /\ todo = {} \/ up = "closing"
      /\ checking = {} /\ todo' = {} /\ snap' = [c \in Calls |-> NoRow]
      /\ plan' = [c \in Calls |-> IF plan[c] = "refreshing" THEN "listed" ELSE plan[c]]
      /\ UNCHANGED vars /\ UNCHANGED <<up, job, run, checking>>
  BY DEF RefreshEnd
<1>2. /\ IInv' /\ flow' \in [Flows -> {"running"}]
      /\ UNCHANGED <<row, order, phase, answer, remote, poll, flow>>
      /\ \A c \in Calls : Recorded(c)' = Recorded(c)
  BY <1>1, QuietKeeps
<1>3. PushTyped'
  BY <1>1 DEF PushTyped
<1>4. RunsOnce' /\ RunsAlone' /\ NoOverlap' /\ HonestJob'
  BY <1>1, <1>2
  DEF RunsOnce, RunsAlone, NoOverlap, HonestJob, RunningShows, Active, InProgress,
      PushTyped
<1>5. RefreshTrue'
  BY <1>1, <1>2 DEF RefreshTrue
<1>6. RefreshFinds'
  BY <1>1, <1>2 DEF RefreshFinds, InProgress, PushTyped
<1>7. QED
  BY <1>2, <1>3, <1>4, <1>5, <1>6

-----------------------------------------------------------------------------
(* The end of the dashboard, and its next start *)

(* So does closing the service, or starting it again.                      *)
LEMMA CloseKeeps ==
  ASSUME PushInv, Close \/ Restart
  PROVE  PushInv'
<1> USE DEF PushInv
<1>1. /\ UNCHANGED vars /\ UNCHANGED <<job, run, refresh, snap, todo, checking>>
      /\ \/ up' = "up" /\ UNCHANGED plan /\ up = "down"
         \/ /\ up' = "closing"
            /\ plan' = [c \in Calls |-> IF plan[c] = "none" THEN "none" ELSE "used"]
  BY DEF Close, Restart
<1>2. /\ IInv' /\ flow' \in [Flows -> {"running"}]
      /\ UNCHANGED <<row, order, phase, answer, remote, poll, flow>>
      /\ \A c \in Calls : Recorded(c)' = Recorded(c)
  BY <1>1, QuietKeeps
<1>3. PushTyped'
  BY <1>1 DEF PushTyped
<1>4. RunsOnce' /\ RunsAlone' /\ NoOverlap' /\ HonestJob'
  BY <1>1, <1>2
  DEF RunsOnce, RunsAlone, NoOverlap, HonestJob, RunningShows, Active, InProgress,
      PushTyped
<1>5. RefreshTrue'
  BY <1>1, <1>2 DEF RefreshTrue
<1>6. RefreshFinds'
  BY <1>1, <1>2 DEF RefreshFinds, InProgress, PushTyped
<1>7. QED
  BY <1>2, <1>3, <1>4, <1>5, <1>6

(* What the dashboard held is gone; every run it had is over.              *)
LEMMA GoneKeeps ==
  ASSUME PushInv, Gone, UNCHANGED <<row, remote, flow>>, IInv',
         \A c \in Calls : phase'[c] \notin {"begun", "answered"},
         \A c \in Calls : run[c] = "none" => phase'[c] = phase[c],
         \A p \in PushPollers : poll'[p] = poll[p] \/ poll'[p] = NoPoll
  PROVE  PushInv'
<1> USE DEF PushInv, Gone
<1>1. PushTyped'
  BY DEF PushTyped, Idle, NoRefresh
<1>2. RunsOnce'
  BY DEF RunsOnce, Recorded, PushTyped
<1>3. RefreshTrue'
  BY DEF RefreshTrue
<1>4. RefreshFinds'
  BY DEF RefreshFinds
<1>5. \A c \in Calls : ~Active(c)' /\ job'[c] = "absent"
  BY DEF Active, Idle, Jobs
<1>6. RunsAlone' /\ NoOverlap' /\ HonestJob'
  BY <1>5 DEF RunsAlone, NoOverlap, HonestJob, RunningShows, InProgress
<1>7. QED
  BY <1>1, <1>2, <1>3, <1>4, <1>6

(* So does the end of the process.                                         *)
LEMMA DownKeeps ==
  ASSUME PushInv, Closed \/ CrashDashboard
  PROVE  PushInv'
<1> USE DEF PushInv
<1>1. CASE Closed
  <2>1. /\ Gone /\ UNCHANGED vars /\ \A c \in Calls : ~Active(c)
    BY <1>1 DEF Closed
  <2>2. IInv' /\ UNCHANGED <<row, order, phase, answer, remote, poll, flow>>
    BY <2>1, QuietKeeps
  <2>3. \A c \in Calls : phase[c] \notin {"begun", "answered"}
    BY <2>1 DEF RunsOnce, Active, Idle
  <2>4. QED
    BY <2>1, <2>2, <2>3, GoneKeeps
<1>2. CASE CrashDashboard
  <2>1. /\ Gone /\ Abandon(Calls) /\ poll' = [p \in Pollers |-> NoPoll]
        /\ UNCHANGED <<row, order, answer, remote, flow>>
    BY <1>2 DEF CrashDashboard
  <2>2. IInv'
    BY <2>1, CrashKeeps
  <2>3. \A c \in Calls :
          /\ phase'[c] \notin {"begun", "answered"}
          /\ run[c] = "none" => phase'[c] = phase[c]
    BY <2>1 DEF Abandon, RunsOnce
  <2>4. \A p \in PushPollers : poll'[p] = NoPoll
    BY <2>1, PushAssumption
  <2>5. QED
    BY <2>1, <2>2, <2>3, <2>4, GoneKeeps
<1>3. QED
  BY <1>1, <1>2

-----------------------------------------------------------------------------
(* The theorems *)

(* The service starts as the invariant says.                               *)
LEMMA PushInvInit == PushInit => PushInv
<1> SUFFICES ASSUME PushInit PROVE PushInv
  OBVIOUS
<1>1. Init /\ IInv
  BY IInvInit DEF PushInit
<1>2. PushTyped
  BY DEF PushInit, PushTyped, Idle, NoRefresh, Jobs, Finished
<1>3. flow \in [Flows -> {"running"}]
  BY <1>1 DEF Init
<1>4. RunsOnce
  BY <1>1 DEF PushInit, Init, RunsOnce, Recorded
<1>5. RefreshTrue /\ RefreshFinds
  BY <1>1, PushAssumption DEF PushInit, Init, RefreshTrue, RefreshFinds
<1>6. RunsAlone /\ NoOverlap /\ HonestJob
  BY <1>1, PushAssumption
  DEF PushInit, Init, RunsAlone, NoOverlap, HonestJob, RunningShows, Active, Idle,
      InProgress, Jobs
<1>7. QED
  BY <1>1, <1>2, <1>3, <1>4, <1>5, <1>6 DEF PushInv

(* Every step keeps it.                                                    *)
LEMMA PushInvStep == PushInv /\ [PushNext]_pushVars => PushInv'
<1> SUFFICES ASSUME PushInv, [PushNext]_pushVars PROVE PushInv'
  OBVIOUS
<1>1. ASSUME NEW c \in Calls, Plan(c) PROVE PushInv'
  BY <1>1, PlanCallKeeps, PlanMovesKeep, LaunchKeeps DEF Plan
<1>2. ASSUME NEW c \in Calls, Run(c) PROVE PushInv'
  BY <1>2, RunQuietKeeps, RunBeginKeeps, RunSendKeeps, RunSaveKeeps, RunPollKeeps
  DEF Run
<1>3. ASSUME NEW c \in Calls, Provider(c) /\ UNCHANGED dashboard PROVE PushInv'
  BY <1>3, ProviderKeeps
<1>4. CASE Monitor
  BY <1>4, RefreshStartKeeps, RefreshEndKeeps, TakeKeeps, CheckAskKeeps, CheckEndsKeep
  DEF Monitor, Check
<1>5. CASE Close \/ Closed \/ CrashDashboard \/ Restart
  BY <1>5, CloseKeeps, DownKeeps
<1>6. CASE UNCHANGED pushVars
  <2>1. /\ IInv' /\ flow' \in [Flows -> {"running"}]
        /\ UNCHANGED <<row, order, phase, answer, remote, poll, flow>>
        /\ UNCHANGED <<up, plan, job, run, refresh, snap, todo, checking>>
    BY <1>6, QuietKeeps DEF pushVars, dashboard
  <2>2. QED
    BY <2>1
    DEF PushInv, PushTyped, RunsOnce, RefreshTrue, RefreshFinds, RunsAlone, NoOverlap,
        HonestJob, RunningShows, Active, InProgress, Recorded
<1>7. QED
  BY <1>1, <1>2, <1>3, <1>4, <1>5, <1>6 DEF PushNext

(* So it holds in every state.                                             *)
LEMMA PushInductive == PushSpec => []PushInv
<1>1. QED
  BY PushInvInit, PushInvStep, PTL DEF PushSpec

(* The journal keeps its order under the dashboard, and a refresh has no   *)
(* more status requests under way than it may.                             *)
PushKept ==
  /\ PushInv /\ Journaled /\ NewUnrecorded
  /\ IsFiniteSet(checking) /\ Cardinality(checking) <= Workers

(* What the dashboard does to the journal, the processes that share it do. *)
LEMMA PushStepsInJournal ==
  ASSUME PushInv, PushNext
  PROVE  \/ Next
         \/ /\ UNCHANGED <<row, order>>
            /\ \A c \in Calls : phase'[c] = "new" => phase[c] = "new"
<1>1. ASSUME NEW c \in Calls, Plan(c)
      PROVE  UNCHANGED <<row, order, phase>>
  BY <1>1 DEF Plan, PlanCall, PlanCheck, PlanReady, PlanGone, LaunchRefused, Launch, vars
<1>2. ASSUME NEW c \in Calls, Run(c)
      PROVE  Next \/ UNCHANGED <<row, order, phase>>
  <2>1. <<"run", c>> \in Pollers
    BY PushAssumption DEF PushPollers
  <2>2. CASE RunCheck(c) \/ RunPrepare(c) \/ RunGivesUp(c) \/ RunPoll(c)
    BY <2>2 DEF RunCheck, RunPrepare, RunGivesUp, RunPoll, Ask, vars
  <2>3. CASE RunBegin(c) \/ RunSend(c) \/ RunSave(c)
    BY <2>3 DEF RunBegin, RunSend, RunSave, Next, Request
  <2>4. CASE RunObserve(c)
    BY <2>1, <2>4 DEF RunObserve, Next, Verify
  <2>5. QED
    BY <1>2, <2>2, <2>3, <2>4 DEF Run
<1>3. ASSUME NEW c \in Calls, Provider(c) PROVE Next
  BY <1>3 DEF Next
<1>4. ASSUME NEW c \in Calls, Check(c)
      PROVE  Next \/ UNCHANGED <<row, order, phase>>
  <2>1. <<"check", c>> \in Pollers
    BY PushAssumption DEF PushPollers
  <2>2. CASE Take(c) \/ CheckAsk(c) \/ CheckFails(c)
    BY <2>2 DEF Take, CheckAsk, CheckFails, Ask, vars
  <2>3. CASE CheckDone(c)
    BY <2>1, <2>3 DEF CheckDone, Next, Verify
  <2>4. QED
    BY <1>4, <2>2, <2>3 DEF Check
<1>5. CASE RefreshStart \/ RefreshEnd \/ Close \/ Closed \/ Restart
  BY <1>5 DEF RefreshStart, RefreshEnd, Close, Closed, Restart, vars
<1>6. CASE CrashDashboard
  BY <1>6 DEF CrashDashboard, Abandon
<1>7. QED
  BY <1>1, <1>2, <1>3, <1>4, <1>5, <1>6 DEF PushNext, Monitor

(* Only Take() adds a status request, and only while one more may be.      *)
LEMMA ChecksFit ==
  ASSUME PushKept, PushNext
  PROVE  IsFiniteSet(checking') /\ Cardinality(checking') <= Workers
<1> USE DEF PushKept
<1>1. CASE checking' \subseteq checking
  BY <1>1, FS_Subset, FS_CardinalityType, PushAssumption
<1>2. ASSUME NEW c \in Calls, Take(c)
      PROVE  \/ checking' \subseteq checking
             \/ checking' = checking \union {c} /\ Cardinality(checking) < Workers
  BY <1>2 DEF Take
<1>3. ASSUME NEW c \in Calls, checking' = checking \union {c},
             Cardinality(checking) < Workers
      PROVE  IsFiniteSet(checking') /\ Cardinality(checking') <= Workers
  BY <1>3, FS_AddElement, FS_CardinalityType, PushAssumption
<1>4. ASSUME NEW c \in Calls, Plan(c) \/ Run(c) \/ (Provider(c) /\ UNCHANGED dashboard)
      PROVE  checking' = checking
  BY <1>4
  DEF Plan, PlanCall, PlanCheck, PlanReady, PlanGone, LaunchRefused, Launch,
      Run, RunCheck, RunPrepare, RunBegin, RunSend, RunSave, RunPoll, RunObserve,
      RunGivesUp, dashboard
<1>5. ASSUME NEW c \in Calls, CheckAsk(c) \/ CheckDone(c) \/ CheckFails(c)
      PROVE  checking' \subseteq checking
  BY <1>5 DEF CheckAsk, CheckDone, CheckFails, Checked, dashboard
<1>6. CASE RefreshStart \/ RefreshEnd \/ Close \/ Restart \/ Closed \/ CrashDashboard
  BY <1>1, <1>6 DEF RefreshStart, RefreshEnd, Close, Restart, Closed, CrashDashboard, Gone
<1>7. QED
  BY <1>1, <1>2, <1>3, <1>4, <1>5, <1>6 DEF PushNext, Monitor, Check

(* The same holds at the start.                                            *)
LEMMA PushKeptStarts == PushInit => PushKept
<1>1. SUFFICES ASSUME PushInit PROVE PushKept
  OBVIOUS
<1>2. PushInv /\ JInv
  BY <1>1, PushInvInit, JInvInit DEF PushInit
<1>3. checking = {}
  BY <1>1 DEF PushInit
<1>4. IsFiniteSet(checking) /\ Cardinality(checking) <= Workers
  BY <1>3, FS_EmptySet, PushAssumption
<1>5. QED
  BY <1>2, <1>4 DEF PushKept, JInv

(* And so does what the journal alone has to keep.                         *)
LEMMA PushKeptSteps == PushKept /\ [PushNext]_pushVars => PushKept'
<1>1. SUFFICES ASSUME PushKept, [PushNext]_pushVars PROVE PushKept'
  OBVIOUS
<1>2. PushInv'
  BY <1>1, PushInvStep DEF PushKept
<1>3. CASE PushNext
  <3>1. CASE Next
    BY <1>1, <1>2, <1>3, <3>1, JInvStep, ChecksFit DEF PushKept, JInv, PushInv
  <3>2. CASE /\ UNCHANGED <<row, order>>
             /\ \A c \in Calls : phase'[c] = "new" => phase[c] = "new"
    <4>1. Journaled' /\ NewUnrecorded'
      BY <1>1, <3>2 DEF PushKept, Journaled, NewUnrecorded, Recorded
    <4>2. QED
      BY <1>1, <1>2, <1>3, <4>1, ChecksFit DEF PushKept
  <3>3. QED
    BY <1>1, <1>3, <3>1, <3>2, PushStepsInJournal DEF PushKept
<1>4. CASE UNCHANGED pushVars
  BY <1>1, <1>2, <1>4
  DEF PushKept, pushVars, vars, dashboard, Journaled, NewUnrecorded, Recorded
<1>5. QED
  BY <1>1, <1>3, <1>4

(* So both hold in every state.                                            *)
LEMMA PushKeptInductive == PushSpec => []PushKept
BY PushKeptStarts, PushKeptSteps, PTL DEF PushSpec

(* All of it has its type.                                                 *)
LEMMA PushKeptTyped == PushKept => PushTypeOK
BY DEF PushKept, PushInv, IInv, PushTypeOK, TypeOK

(* Every value the dashboard and the journal hold is one the code writes;  *)
(* a refresh asks for no more statuses at once than its workers allow.     *)
THEOREM PushTypeCorrect == PushSpec => []PushTypeOK
BY PushKeptTyped, PushKeptInductive, PTL

(* push-execution.ts: two pushes of the dashboard to one target are never  *)
(* at the provider together, whatever crashed or was lost in between.      *)
THEOREM NoOverlapHolds == PushSpec => []NoOverlap
<1>1. PushInv => NoOverlap
  BY DEF PushInv
<1>2. QED
  BY <1>1, PushInductive, PTL

(* push-execution.ts: a job says "completed" or "failed" only when its     *)
(* push is, and "running" as long as its run is under way.                 *)
THEOREM HonestJobHolds == PushSpec => []HonestJob
<1>1. PushInv => HonestJob
  BY DEF PushInv
<1>2. QED
  BY <1>1, PushInductive, PTL

(* What HistoryProofs shows of the journal is true of the dashboard's: a   *)
(* push that may still execute has an unresolved row, and a recorded       *)
(* outcome is what happened.                                               *)
THEOREM JournalHolds == PushSpec => [](ActivityRecorded /\ TruthfulOutcome)
<1>1. PushInv => ActivityRecorded /\ TruthfulOutcome
  BY DEF PushInv, IInv
<1>2. QED
  BY <1>1, PushInductive, PTL
=============================================================================
