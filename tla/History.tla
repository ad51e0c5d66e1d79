------------------------------ MODULE History ------------------------------
(***************************************************************************)
(* src/src/history: the journal of requests that change something at a     *)
(* hosting provider (index.ts) and the client wrapper that records each    *)
(* request before it is sent and its outcome afterwards (client.ts), with  *)
(* the workflows of src/src/operation-context.ts that group requests.      *)
(*                                                                         *)
(* Several processes share the journal.  A change of the file is one step: *)
(* it runs under the cross-process lock (module ProfileLock) and replaces  *)
(* the file by an atomic rename.  What happens between two changes, at the *)
(* provider and in other processes, is interleaved.                        *)
(***************************************************************************)
EXTENDS Naturals, Sequences

CONSTANTS
  Calls,     \* requests: calls of historyClient().action()
  Flows,     \* workflows
  FlowOf,    \* the workflow each request is sent in, or NoFlow
  NoFlow,
  AskingOn,  \* requests whose client asks on after its write (ProviderActions!AsksOn)
  Pollers,   \* calls of historyClient().operationStatus() under way
  NoRow,
  NoPoll,
  Limit      \* HISTORY_LIMIT

ASSUME HistoryAssumption ==
  /\ NoFlow \notin Flows
  /\ FlowOf \in [Calls -> Flows \union {NoFlow}]
  /\ AskingOn \subseteq Calls
  /\ Limit \in Nat \ {0}

VARIABLES
  row,      \* the journal row of each request
  order,    \* the requests that have a row, in file order
  phase,    \* how far the process that makes the request is with it
  answer,   \* the outcome the provider's answer lets it record
  remote,   \* what became of the request at the provider
  poll,     \* the answer an operationStatus call is about to record
  flow      \* how far each workflow's process is

journal == <<row, order>>
vars == <<row, order, phase, answer, remote, poll, flow>>

Statuses == {"needs_verification", "accepted", "succeeded", "failed"}
FlowStatuses == {"none", "running", "succeeded", "failed"}
Rows == [status : Statuses, op : BOOLEAN, workflow : FlowStatuses]
Answers == [status : Statuses, op : BOOLEAN]
Polls == [of : Calls, status : Statuses]
Terminal == {"succeeded", "failed"}
ASSUME ValuesAssumption == NoRow \notin Rows /\ NoPoll \notin Polls

Unanswered == [status |-> "needs_verification", op |-> FALSE]

Recorded(c) == row[c] # NoRow

Typed ==
  /\ row \in [Calls -> Rows \union {NoRow}]
  /\ phase \in [Calls -> {"new", "begun", "answered", "closed", "dead"}]
  /\ answer \in [Calls -> Answers]
  /\ remote \in [Calls -> {"unsent", "in_flight", "running", "done",
                           "failed", "refused"}]
  /\ poll \in [Pollers -> Polls \union {NoPoll}]
  /\ flow \in [Flows -> {"running", "succeeded", "failed", "dead"}]

(* The file holds every row once, and no more than the limit.              *)
Journaled ==
  /\ order \in Seq(Calls)
  /\ \A i, j \in DOMAIN order : order[i] = order[j] => i = j
  /\ {order[i] : i \in DOMAIN order} = {c \in Calls : Recorded(c)}
  /\ Len(order) <= Limit

TypeOK == Typed /\ Journaled

Init ==
  /\ row = [c \in Calls |-> NoRow]
  /\ order = <<>>
  /\ phase = [c \in Calls |-> "new"]
  /\ answer = [c \in Calls |-> Unanswered]
  /\ remote = [c \in Calls |-> "unsent"]
  /\ poll = [p \in Pollers |-> NoPoll]
  /\ flow = [f \in Flows |-> "running"]

-----------------------------------------------------------------------------
(* HistoryStore *)

(* Mutant of Resolved: an accepted request counts as resolved.             *)
ResolvedOnceAccepted(r) ==
  \/ r.workflow = "succeeded"
  \/ r.workflow # "running" /\ r.status # "needs_verification"

(* The rows that retention may drop.                                       *)
Resolved(r) ==
  \/ r.workflow = "succeeded"
  \/ r.workflow # "running" /\ r.status \in Terminal

FirstResolved(i) ==
  /\ Resolved(row[order[i]])
  /\ \A j \in 1..(i - 1) : ~Resolved(row[order[j]])

Drop(i) == SubSeq(order, 1, i - 1) \o SubSeq(order, i + 1, Len(order))

(* Mutant of Insert: room for one row more than the limit.                 *)
InsertOneMore(c, new) ==
  \/ /\ Len(order) <= Limit
     /\ order' = Append(order, c)
     /\ row' = [row EXCEPT ![c] = new]
  \/ /\ Len(order) > Limit
     /\ \E i \in DOMAIN order :
          /\ FirstResolved(i)
          /\ order' = Append(Drop(i), c)
          /\ row' = [row EXCEPT ![order[i]] = NoRow, ![c] = new]

(* begin(): append the row; at the limit the oldest resolved row makes     *)
(* room, and when there is none the request is refused.                    *)
Insert(c, new) ==
  \/ /\ Len(order) < Limit
     /\ order' = Append(order, c)
     /\ row' = [row EXCEPT ![c] = new]
  \/ /\ Len(order) = Limit
     /\ \E i \in DOMAIN order :
          /\ FirstResolved(i)
          /\ order' = Append(Drop(i), c)
          /\ row' = [row EXCEPT ![order[i]] = NoRow, ![c] = new]

Full == Len(order) = Limit /\ \A i \in DOMAIN order : ~Resolved(row[order[i]])

(* Mutant of Observed: a late answer replaces a recorded outcome.          *)
ObservedLast(r, status) ==
  IF r.op THEN [r EXCEPT !.status = status] ELSE r

(* observe(): an outcome that is recorded is never changed.                *)
Observed(r, status) ==
  IF r.op /\ r.status \notin Terminal THEN [r EXCEPT !.status = status] ELSE r

-----------------------------------------------------------------------------
(* historyClient().action() *)

InFlow(c) == FlowOf[c] # NoFlow => flow[FlowOf[c]] = "running"

NewRow(c) == [status |-> "needs_verification", op |-> FALSE,
              workflow |-> IF FlowOf[c] = NoFlow THEN "none" ELSE "running"]

Begin(c) ==
  /\ phase[c] = "new"
  /\ InFlow(c)
  /\ Insert(c, NewRow(c))
  /\ phase' = [phase EXCEPT ![c] = "begun"]
  /\ UNCHANGED <<answer, remote, poll, flow>>

(* begin() throws: the journal is full, or the write failed, before or     *)
(* after the file was replaced.  Nothing is sent.                          *)
BeginFails(c) ==
  /\ phase[c] = "new"
  /\ InFlow(c)
  /\ UNCHANGED journal \/ Insert(c, NewRow(c))
  /\ phase' = [phase EXCEPT ![c] = "closed"]
  /\ UNCHANGED <<answer, remote, poll, flow>>

Answered(c, status, op) ==
  /\ phase' = [phase EXCEPT ![c] = "answered"]
  /\ answer' = [answer EXCEPT ![c] = [status |-> status, op |-> op]]

(* Mutant of Unclear: an answer that was lost counts as a refusal.         *)
UnclearFails(c) ==
  /\ Answered(c, "failed", FALSE)
  /\ remote' = [remote EXCEPT ![c] = "in_flight"]

(* client.action(): the provider accepts the request, refuses it, or gives *)
(* no usable answer, in which case the request may still take effect.      *)
Accepted(c) ==
  /\ \E op \in BOOLEAN : Answered(c, "accepted", op)
  /\ remote' = [remote EXCEPT ![c] = "running"]
Refused(c) ==
  /\ Answered(c, "failed", FALSE)
  /\ remote' = [remote EXCEPT ![c] = "refused"]
(* The write went through, and a later question of the same request was     *)
(* refused with a code that client.ts:121-132 takes for a rejection.       *)
RefusedLate(c) ==
  /\ c \in AskingOn
  /\ Answered(c, "failed", FALSE)
  /\ remote' = [remote EXCEPT ![c] = "running"]
Unclear(c) ==
  \/ /\ Answered(c, "needs_verification", FALSE)
     /\ remote' = [remote EXCEPT ![c] = "in_flight"]
  \/ /\ Answered(c, "needs_verification", TRUE)
     /\ remote' = [remote EXCEPT ![c] = "running"]

Send(c) ==
  /\ phase[c] = "begun"
  /\ Accepted(c) \/ Refused(c) \/ RefusedLate(c) \/ Unclear(c)
  /\ UNCHANGED <<row, order, poll, flow>>

(* finish(): whatever the row says, the answer of the request replaces it. *)
Finish(c) ==
  /\ phase[c] = "answered"
  /\ row' = [row EXCEPT ![c] = IF @ = NoRow THEN @ ELSE
               [@ EXCEPT !.status = answer[c].status, !.op = answer[c].op]]
  /\ phase' = [phase EXCEPT ![c] = "closed"]
  /\ UNCHANGED <<order, answer, remote, poll, flow>>

(* saveOutcome() could not write: the request stays unverified.            *)
FinishFails(c) ==
  /\ phase[c] = "answered"
  /\ phase' = [phase EXCEPT ![c] = "closed"]
  /\ UNCHANGED <<row, order, answer, remote, poll, flow>>

(* The process that makes these requests dies: what it had not sent is     *)
(* never sent, what it had not recorded is never recorded.                 *)
Abandon(dying) ==
  phase' = [c \in Calls |->
              IF c \in dying /\ phase[c] \in {"begun", "answered"}
              THEN "dead" ELSE phase[c]]

-----------------------------------------------------------------------------
(* historyClient().operationStatus() *)

(* What a status request may bring back: no usable answer at any time, or  *)
(* what the provider knows.                                                *)
Evidence(c) ==
  {"needs_verification"} \union
  CASE remote[c] = "running" -> {"accepted"}
    [] remote[c] = "done"    -> {"succeeded"}
    [] remote[c] = "failed"  -> {"failed"}
    [] OTHER                 -> {}

Ask(p, c) ==
  /\ poll[p] = NoPoll
  /\ \E status \in Evidence(c) :
       poll' = [poll EXCEPT ![p] = [of |-> c, status |-> status]]
  /\ UNCHANGED <<row, order, phase, answer, remote, flow>>

Observe(p) ==
  /\ poll[p] # NoPoll
  /\ LET c == poll[p].of IN
       row' = [row EXCEPT ![c] = IF @ = NoRow THEN @
                                 ELSE Observed(@, poll[p].status)]
  /\ poll' = [poll EXCEPT ![p] = NoPoll]
  /\ UNCHANGED <<order, phase, answer, remote, flow>>

(* observe() could not write, or the process died.                         *)
ObserveFails(p) ==
  /\ poll[p] # NoPoll
  /\ poll' = [poll EXCEPT ![p] = NoPoll]
  /\ UNCHANGED <<row, order, phase, answer, remote, flow>>

-----------------------------------------------------------------------------
(* runHostingWorkflow() and finishWorkflow() *)

Working(f) ==
  \E c \in Calls : FlowOf[c] = f /\ phase[c] \in {"begun", "answered"}

EndFlow(f) ==
  /\ flow[f] = "running"
  /\ ~Working(f)
  /\ \E status \in {"succeeded", "failed"} :
       /\ flow' = [flow EXCEPT ![f] = status]
       /\ row' = [c \in Calls |-> IF Recorded(c) /\ FlowOf[c] = f
                                  THEN [row[c] EXCEPT !.workflow = status]
                                  ELSE row[c]]
  /\ UNCHANGED <<order, phase, answer, remote, poll>>

(* The process dies, or finishWorkflow() could not write.                  *)
KillFlow(f) ==
  /\ flow[f] = "running"
  /\ flow' = [flow EXCEPT ![f] = "dead"]
  /\ Abandon({c \in Calls : FlowOf[c] = f})
  /\ UNCHANGED <<row, order, answer, remote, poll>>

Kill(c) ==
  /\ FlowOf[c] = NoFlow
  /\ phase[c] \in {"begun", "answered"}
  /\ Abandon({c})
  /\ UNCHANGED <<row, order, answer, remote, poll, flow>>

-----------------------------------------------------------------------------
(* The provider *)

Arrive(c) ==
  /\ remote[c] = "in_flight"
  /\ remote' = [remote EXCEPT ![c] = "running"]
Complete(c) ==
  /\ remote[c] = "running"
  /\ \E end \in {"done", "failed"} : remote' = [remote EXCEPT ![c] = end]
Provider(c) ==
  /\ Arrive(c) \/ Complete(c)
  /\ UNCHANGED <<row, order, phase, answer, poll, flow>>

-----------------------------------------------------------------------------
Request(c) ==
  \/ Begin(c) \/ BeginFails(c) \/ Send(c) \/ Finish(c) \/ FinishFails(c)
  \/ Kill(c)
Verify(p) ==
  \/ \E c \in Calls : Recorded(c) /\ row[c].op /\ Ask(p, c)
  \/ Observe(p) \/ ObserveFails(p)
Workflow(f) == EndFlow(f) \/ KillFlow(f)

Next ==
  \/ \E c \in Calls : Request(c) \/ Provider(c)
  \/ \E p \in Pollers : Verify(p)
  \/ \E f \in Flows : Workflow(f)

Spec == Init /\ [][Next]_vars

-----------------------------------------------------------------------------
(* Properties *)

(* What client.ts calls failed although its write may have gone through.   *)
Mislabelled(c) == c \in AskingOn /\ answer[c].status = "failed"

(* What the provider may still be executing is in the journal, unresolved, *)
(* whatever crashed, was lost or dropped by retention since: the request   *)
(* is recorded before it is sent, and only resolved rows make room.  The   *)
(* requests of a workflow that succeeded are vouched for by the workflow;  *)
(* one that is mislabelled is dropped as if it were over.                  *)
ActivityRecorded ==
  \A c \in Calls : remote[c] \in {"in_flight", "running"} =>
    \/ Recorded(c) /\ ~Resolved(row[c])
    \/ FlowOf[c] # NoFlow /\ flow[FlowOf[c]] = "succeeded"
    \/ Mislabelled(c)

(* A recorded success or failure is what happened at the provider: a lost  *)
(* answer, a status request that failed or a synthetic status is neither.  *)
(* A failure says nothing where the client asked on after its write, unless *)
(* the row names an operation: then it is the provider's own word.         *)
TruthfulOutcome ==
  \A c \in Calls : Recorded(c) =>
    /\ row[c].status = "succeeded" => remote[c] = "done"
    /\ row[c].status = "failed" =>
         \/ remote[c] \in {"failed", "refused"}
         \/ Mislabelled(c) /\ ~row[c].op

(* Once recorded, a success or failure never changes, although several     *)
(* processes poll the same operation and their answers arrive in any order.*)
OutcomeSticks ==
  [][\A c \in Calls : Recorded(c) /\ row[c].status \in Terminal =>
       row'[c] = NoRow \/ row'[c].status = row[c].status]_vars

(* The inductive invariant behind the three.                               *)

(* Until its answer is recorded, a request's row is as begin() wrote it,   *)
(* and its workflow is not over.                                           *)
PendingRow ==
  \A c \in Calls : phase[c] \in {"begun", "answered"} =>
    /\ Recorded(c)
    /\ row[c].status = "needs_verification" /\ ~row[c].op
    /\ InFlow(c)

NotYetSent ==
  \A c \in Calls : phase[c] \in {"new", "begun"} =>
    remote[c] = "unsent" /\ answer[c] = Unanswered

(* What is about to be recorded is true, and stays true until it is.       *)
AnswerTrue ==
  \A c \in Calls : phase[c] = "answered" =>
    /\ answer[c].status # "succeeded"
    /\ answer[c].status = "failed" =>
         ~answer[c].op /\ (remote[c] = "refused" \/ Mislabelled(c))
PollTrue ==
  \A p \in Pollers : poll[p] # NoPoll =>
    /\ poll[p].status = "succeeded" => remote[poll[p].of] = "done"
    /\ poll[p].status = "failed" => remote[poll[p].of] = "failed"

(* Only a workflow that succeeded vouches for its rows.                    *)
FlowVouches ==
  \A c \in Calls : Recorded(c) /\ row[c].workflow = "succeeded" =>
    FlowOf[c] # NoFlow /\ flow[FlowOf[c]] = "succeeded"

IInv ==
  /\ Typed
  /\ PendingRow /\ NotYetSent /\ AnswerTrue /\ PollTrue /\ FlowVouches
  /\ TruthfulOutcome /\ ActivityRecorded

(* index.ts:265 tells the user of a full journal to verify the operations  *)
(* of its unresolved requests: once every workflow is over or dead, some   *)
(* request is there to be verified.                                        *)
VerificationMakesRoom ==
  Full /\ (\A f \in Flows : flow[f] # "running") =>
    \E i \in DOMAIN order : row[order[i]].status \notin Terminal
=============================================================================
