--------------------------- MODULE HistoryProofs ---------------------------
(* What History promises for every number of requests, workflows, status   *)
(* requests and journal rows: the inductive invariant IInv and what        *)
(* follows from it.  The order of the journal's rows plays no part in it.  *)
EXTENDS History, Integers, TLAPS

(* begin() writes the new row; of the others it drops at most resolved     *)
(* ones, and changes none.                                                 *)
LEMMA InsertDropsResolved ==
  ASSUME Typed, NEW c \in Calls, NEW new \in Rows, Insert(c, new)
  PROVE  /\ row' \in [Calls -> Rows \union {NoRow}]
         /\ row'[c] = new
         /\ \A d \in Calls \ {c} :
              row'[d] = row[d] \/ (row'[d] = NoRow /\ Resolved(row[d]))
<1>1. CASE row' = [row EXCEPT ![c] = new]
  BY <1>1 DEF Typed
<1>2. CASE \E i \in DOMAIN order :
             /\ FirstResolved(i)
             /\ row' = [row EXCEPT ![order[i]] = NoRow, ![c] = new]
  <2>1. PICK i \in DOMAIN order :
             /\ FirstResolved(i)
             /\ row' = [row EXCEPT ![order[i]] = NoRow, ![c] = new]
    BY <1>2
  <2>2. Resolved(row[order[i]])
    BY <2>1 DEF FirstResolved
  <2>3. DEFINE d == order[i]
  <2>4. /\ Resolved(row[d])
        /\ row' = [row EXCEPT ![d] = NoRow, ![c] = new]
    BY <2>1, <2>2
  <2> HIDE DEF d
  <2>5. QED
    BY <2>4 DEF Typed
<1>3. QED
  BY <1>1, <1>2 DEF Insert

(* The initial states satisfy the invariant: nothing is recorded or sent.  *)
LEMMA IInvInit == Init => IInv
<1> SUFFICES ASSUME Init PROVE IInv
  OBVIOUS
<1> USE HistoryAssumption, ValuesAssumption
<1>1. Typed
  BY DEF Init, Typed, Answers, Statuses, Unanswered
<1>2. PendingRow /\ NotYetSent /\ AnswerTrue /\ PollTrue
  BY DEF Init, PendingRow, NotYetSent, AnswerTrue, PollTrue
<1>3. FlowVouches /\ TruthfulOutcome /\ ActivityRecorded
  BY DEF Init, FlowVouches, TruthfulOutcome, ActivityRecorded, Recorded
<1>4. QED
  BY <1>1, <1>2, <1>3 DEF IInv

(* What begin() writes is a row.                                           *)
LEMMA NewRowIsRow ==
  ASSUME NEW c \in Calls
  PROVE  NewRow(c) \in Rows
<1>1. CASE FlowOf[c] = NoFlow
  BY <1>1 DEF NewRow, Rows, Statuses, FlowStatuses
<1>2. CASE FlowOf[c] # NoFlow
  BY <1>2 DEF NewRow, Rows, Statuses, FlowStatuses
<1>3. QED
  BY <1>1, <1>2

(* What finish() makes of a row is a row.                                  *)
LEMMA FinishedRowIsRow ==
  ASSUME NEW r \in Rows, NEW a \in Answers
  PROVE  /\ [r EXCEPT !.status = a.status, !.op = a.op] \in Rows
         /\ [r EXCEPT !.status = a.status, !.op = a.op] # NoRow
BY ValuesAssumption DEF Rows, Answers

(* What finishWorkflow() makes of a row is a row.                          *)
LEMMA VouchedRowIsRow ==
  ASSUME NEW r \in Rows, NEW status \in FlowStatuses
  PROVE  [r EXCEPT !.workflow = status] \in Rows
BY DEF Rows

(* What observe() makes of a row is a row; it changes no more than the     *)
(* status, and that only of a row with an operation and no outcome yet.    *)
LEMMA ObservedRowIsRow ==
  ASSUME NEW r \in Rows, NEW status \in Statuses
  PROVE  /\ Observed(r, status) \in Rows
         /\ Observed(r, status).workflow = r.workflow /\ Observed(r, status).op = r.op
         /\ Observed(r, status).status \in {r.status, status}
         /\ ~r.op => Observed(r, status) = r
         /\ r.status \in Terminal => Observed(r, status) = r
<1>1. CASE r.op /\ r.status \notin Terminal
  BY <1>1 DEF Rows, Observed
<1>2. CASE ~(r.op /\ r.status \notin Terminal)
  BY <1>2 DEF Observed
<1>3. QED
  BY <1>1, <1>2

(* An operation's status can be asked for whether its row is there or not. *)
LEMMA AskKeeps ==
  ASSUME IInv, NEW p \in Pollers, NEW c \in Calls, Ask(p, c)
  PROVE  IInv'
<1> USE ValuesAssumption
<1> USE DEF IInv, Mislabelled
<1>1. PICK status \in Evidence(c) :
        poll' = [poll EXCEPT ![p] = [of |-> c, status |-> status]]
  BY DEF Ask
<1>2. UNCHANGED <<row, phase, answer, remote, flow>>
  BY DEF Ask
<1>3. /\ status \in Statuses
      /\ status = "succeeded" => remote[c] = "done"
      /\ status = "failed" => remote[c] = "failed"
  BY DEF Evidence, Statuses
<1>4. Typed'
  BY <1>1, <1>2, <1>3 DEF Typed, Polls
<1>5. PollTrue'
  BY <1>1, <1>2, <1>3 DEF PollTrue, Typed
<1>6. /\ PendingRow' /\ NotYetSent' /\ AnswerTrue' /\ FlowVouches'
      /\ TruthfulOutcome' /\ ActivityRecorded'
  BY <1>2
  DEF PendingRow, NotYetSent, AnswerTrue, FlowVouches, TruthfulOutcome,
      ActivityRecorded, Recorded, InFlow
<1>7. QED
  BY <1>4, <1>5, <1>6

(* No step of the requests, the status requests, the workflows or the      *)
(* provider leaves the invariant.                                          *)
LEMMA IInvStep == IInv /\ [Next]_vars => IInv'
<1> SUFFICES ASSUME IInv, [Next]_vars PROVE IInv'
  OBVIOUS
<1> USE HistoryAssumption, ValuesAssumption
<1> USE DEF IInv, Mislabelled
<1>1. ASSUME NEW c \in Calls, Begin(c) PROVE IInv'
  <2>1. NewRow(c) \in Rows /\ NewRow(c) # NoRow
    BY NewRowIsRow
  <2>2. /\ row' \in [Calls -> Rows \union {NoRow}]
        /\ row'[c] = NewRow(c)
        /\ \A d \in Calls \ {c} :
             row'[d] = row[d] \/ (row'[d] = NoRow /\ Resolved(row[d]))
    BY <1>1, <2>1, InsertDropsResolved DEF Begin
  <2>3. /\ phase[c] = "new" /\ InFlow(c)
        /\ phase' = [phase EXCEPT ![c] = "begun"]
        /\ UNCHANGED <<answer, remote, poll, flow>>
    BY <1>1 DEF Begin
  <2>4. NewRow(c).status = "needs_verification" /\ ~NewRow(c).op
        /\ NewRow(c).workflow # "succeeded"
    BY DEF NewRow
  <2>5. Typed'
    BY <2>2, <2>3 DEF Typed
  <2>6. PendingRow'
    BY <2>1, <2>2, <2>3, <2>4
    DEF PendingRow, Recorded, Resolved, Terminal, InFlow, Typed, FlowVouches
  <2>7. NotYetSent' /\ AnswerTrue' /\ PollTrue'
    BY <2>3 DEF NotYetSent, AnswerTrue, PollTrue, Typed
  <2>8. FlowVouches' /\ TruthfulOutcome'
    BY <2>1, <2>2, <2>3, <2>4
    DEF FlowVouches, TruthfulOutcome, Recorded
  <2>9. ActivityRecorded'
    BY <2>1, <2>2, <2>3, <2>4
    DEF ActivityRecorded, Recorded, Resolved, NotYetSent
  <2>10. QED
    BY <2>5, <2>6, <2>7, <2>8, <2>9
<1>2. ASSUME NEW c \in Calls, BeginFails(c) PROVE IInv'
  <2>1. NewRow(c) \in Rows /\ NewRow(c) # NoRow
    BY NewRowIsRow
  <2>2. /\ phase[c] = "new"
        /\ phase' = [phase EXCEPT ![c] = "closed"]
        /\ UNCHANGED <<answer, remote, poll, flow>>
    BY <1>2 DEF BeginFails
  <2>3. NewRow(c).status = "needs_verification"
        /\ NewRow(c).workflow # "succeeded"
    BY DEF NewRow
  <2>4. /\ row' \in [Calls -> Rows \union {NoRow}]
        /\ row'[c] = row[c] \/ row'[c] = NewRow(c)
        /\ \A d \in Calls \ {c} :
             row'[d] = row[d] \/ (row'[d] = NoRow /\ Resolved(row[d]))
    BY <1>2, <2>1, InsertDropsResolved DEF BeginFails, journal, Typed
  <2>5. Typed'
    BY <2>2, <2>4 DEF Typed
  <2>6. PendingRow'
    BY <2>1, <2>2, <2>3, <2>4
    DEF PendingRow, Recorded, Resolved, Terminal, InFlow, Typed, FlowVouches
  <2>7. NotYetSent' /\ AnswerTrue' /\ PollTrue'
    BY <2>2 DEF NotYetSent, AnswerTrue, PollTrue, Typed
  <2>8. FlowVouches' /\ TruthfulOutcome'
    BY <2>1, <2>2, <2>3, <2>4
    DEF FlowVouches, TruthfulOutcome, Recorded
  <2>9. ActivityRecorded'
    BY <2>1, <2>2, <2>3, <2>4
    DEF ActivityRecorded, Recorded, Resolved, NotYetSent
  <2>10. QED
    BY <2>5, <2>6, <2>7, <2>8, <2>9
<1>3. ASSUME NEW c \in Calls, Send(c) PROVE IInv'
  <2>1. /\ phase[c] = "begun"
        /\ phase' = [phase EXCEPT ![c] = "answered"]
        /\ UNCHANGED <<row, order, poll, flow>>
    BY <1>3 DEF Send, Accepted, Refused, RefusedLate, Unclear, Answered
  <2>2. PICK a \in Answers, r \in {"in_flight", "running", "refused"} :
          /\ answer' = [answer EXCEPT ![c] = a]
          /\ remote' = [remote EXCEPT ![c] = r]
          /\ a.status # "succeeded"
          /\ a.status = "failed" => ~a.op /\ (r = "refused" \/ c \in AskingOn)
    <3>1. \A status \in Statuses, op \in BOOLEAN :
            [status |-> status, op |-> op] \in Answers
      BY DEF Answers
    <3>2. CASE Accepted(c)
      BY <3>1, <3>2 DEF Accepted, Answered, Statuses
    <3>3. CASE Refused(c)
      BY <3>1, <3>3 DEF Refused, Answered, Statuses
    <3>4. CASE Unclear(c)
      BY <3>1, <3>4 DEF Unclear, Answered, Statuses
    <3>5. CASE RefusedLate(c)
      BY <3>1, <3>5 DEF RefusedLate, Answered, Statuses
    <3>6. QED
      BY <1>3, <3>2, <3>3, <3>4, <3>5 DEF Send
  <2>3. remote[c] = "unsent"
    BY <2>1 DEF NotYetSent
  <2>4. Typed'
    BY <2>1, <2>2 DEF Typed
  <2>5. PendingRow' /\ NotYetSent'
    BY <2>1, <2>2 DEF PendingRow, NotYetSent, Recorded, InFlow, Typed
  <2>6. AnswerTrue' /\ PollTrue'
    BY <2>1, <2>2, <2>3 DEF AnswerTrue, PollTrue, Typed, Polls
  <2>7. FlowVouches' /\ TruthfulOutcome'
    BY <2>1, <2>2, <2>3
    DEF FlowVouches, TruthfulOutcome, PendingRow, Recorded, Typed
  <2>8. ActivityRecorded'
    BY <2>1, <2>2
    DEF ActivityRecorded, Recorded, Resolved, PendingRow, FlowVouches,
        InFlow, Terminal, Typed
  <2>9. QED
    BY <2>4, <2>5, <2>6, <2>7, <2>8
<1>4. ASSUME NEW c \in Calls, Finish(c) PROVE IInv'
  <2>1. /\ phase[c] = "answered"
        /\ row[c] \in Rows /\ row[c] # NoRow
        /\ answer[c] \in Answers
    BY <1>4 DEF Finish, PendingRow, Recorded, Typed
  <2>2. DEFINE r == [row[c] EXCEPT !.status = answer[c].status,
                                   !.op = answer[c].op]
  <2>3. /\ row' = [row EXCEPT ![c] = r]
        /\ phase' = [phase EXCEPT ![c] = "closed"]
        /\ UNCHANGED <<order, answer, remote, poll, flow>>
    BY <1>4, <2>1 DEF Finish
  <2>4. r \in Rows /\ r # NoRow
    BY <2>1, FinishedRowIsRow
  <2>5. /\ r.status = answer[c].status /\ r.op = answer[c].op
        /\ r.workflow = row[c].workflow
    BY <2>1 DEF Rows, Answers
  <2> HIDE DEF r
  <2>6. Typed'
    BY <2>3, <2>4 DEF Typed
  <2>7. PendingRow' /\ NotYetSent' /\ AnswerTrue' /\ PollTrue'
    BY <2>1, <2>3
    DEF PendingRow, NotYetSent, AnswerTrue, PollTrue, Recorded, InFlow, Typed
  <2>8. FlowVouches' /\ TruthfulOutcome'
    BY <2>1, <2>3, <2>4, <2>5
    DEF FlowVouches, TruthfulOutcome, AnswerTrue, Recorded, Typed
  <2>9. ActivityRecorded'
    BY <2>1, <2>3, <2>4, <2>5
    DEF ActivityRecorded, AnswerTrue, Recorded, Resolved, PendingRow,
        FlowVouches, InFlow, Terminal, Typed
  <2>10. QED
    BY <2>6, <2>7, <2>8, <2>9
<1>5. ASSUME NEW dying \in SUBSET Calls,
             \/ Abandon(dying)
             \/ \E c \in dying : phase' = [phase EXCEPT ![c] = "closed"],
             UNCHANGED <<row, answer, remote, poll>>,
             /\ flow' \in [Flows -> {"running", "succeeded", "failed", "dead"}]
             /\ \A f \in Flows :
                  flow'[f] # flow[f] =>
                    /\ flow[f] = "running" /\ Abandon(dying)
                    /\ \A c \in Calls : FlowOf[c] = f => c \in dying
      PROVE  IInv'
  <2>1. /\ phase' \in [Calls -> {"new", "begun", "answered", "closed", "dead"}]
        /\ \A c \in Calls :
             phase'[c] = phase[c] \/ phase'[c] \in {"closed", "dead"}
    BY <1>5 DEF Abandon, Typed
  <2>2. Typed'
    BY <1>5, <2>1 DEF Typed
  <2>3. ASSUME Abandon(dying), NEW c \in dying
        PROVE  phase'[c] \notin {"begun", "answered"}
    BY <2>3 DEF Abandon, Typed
  <2>4. ASSUME NEW c \in Calls, phase'[c] \in {"begun", "answered"}
        PROVE  phase[c] \in {"begun", "answered"} /\ InFlow(c)'
    BY <1>5, <2>1, <2>3, <2>4 DEF PendingRow, InFlow
  <2>5. PendingRow'
    BY <1>5, <2>1, <2>4 DEF PendingRow, Recorded
  <2>6. NotYetSent' /\ AnswerTrue' /\ PollTrue'
    BY <1>5, <2>1 DEF NotYetSent, AnswerTrue, PollTrue
  <2>7. FlowVouches' /\ TruthfulOutcome' /\ ActivityRecorded'
    BY <1>5 DEF FlowVouches, TruthfulOutcome, ActivityRecorded, Recorded
  <2>8. QED
    BY <2>2, <2>5, <2>6, <2>7
<1>6. ASSUME NEW c \in Calls, FinishFails(c) \/ Kill(c) PROVE IInv'
  <2>1. \/ Abandon({c})
        \/ phase' = [phase EXCEPT ![c] = "closed"]
    BY <1>6 DEF FinishFails, Kill
  <2>2. UNCHANGED <<row, answer, remote, poll, flow>>
    BY <1>6 DEF FinishFails, Kill
  <2>3. {c} \in SUBSET Calls
    OBVIOUS
  <2>4. \/ Abandon({c})
        \/ \E d \in {c} : phase' = [phase EXCEPT ![d] = "closed"]
    BY <2>1
  <2>5. /\ flow' \in [Flows -> {"running", "succeeded", "failed", "dead"}]
        /\ \A f \in Flows : flow'[f] = flow[f]
    BY <2>2 DEF Typed
  <2> DEFINE dying == {c}
  <2> HIDE DEF dying
  <2>6. QED
    BY <1>5, <2>2, <2>3, <2>4, <2>5 DEF dying
<1>7. ASSUME NEW f \in Flows, KillFlow(f) PROVE IInv'
  <2>1. DEFINE dying == {c \in Calls : FlowOf[c] = f}
  <2>2. /\ flow[f] = "running"
        /\ flow' = [flow EXCEPT ![f] = "dead"]
        /\ Abandon(dying)
        /\ UNCHANGED <<row, answer, remote, poll>>
    BY <1>7 DEF KillFlow
  <2>3. dying \in SUBSET Calls
    OBVIOUS
  <2>4. \A c \in Calls : FlowOf[c] = f => c \in dying
    OBVIOUS
  <2> HIDE DEF dying
  <2>5. QED
    BY <1>5, <2>2, <2>3, <2>4 DEF Typed
<1>8. ASSUME NEW f \in Flows, EndFlow(f) PROVE IInv'
  <2>1. PICK status \in {"succeeded", "failed"} :
          /\ flow' = [flow EXCEPT ![f] = status]
          /\ row' = [c \in Calls |-> IF Recorded(c) /\ FlowOf[c] = f
                                     THEN [row[c] EXCEPT !.workflow = status]
                                     ELSE row[c]]
    BY <1>8 DEF EndFlow
  <2>2. /\ flow[f] = "running" /\ ~Working(f)
        /\ UNCHANGED <<phase, answer, remote, poll>>
    BY <1>8 DEF EndFlow
  <2>3. \A c \in Calls :
          /\ row'[c] \in Rows \union {NoRow}
          /\ row'[c] = NoRow <=> row[c] = NoRow
          /\ FlowOf[c] # f => row'[c] = row[c]
          /\ Recorded(c) =>
               /\ row'[c].status = row[c].status /\ row'[c].op = row[c].op
               /\ row'[c].workflow =
                    IF FlowOf[c] = f THEN status ELSE row[c].workflow
    <3> SUFFICES ASSUME NEW c \in Calls
                 PROVE  /\ row'[c] \in Rows \union {NoRow}
                        /\ row'[c] = NoRow <=> row[c] = NoRow
                        /\ FlowOf[c] # f => row'[c] = row[c]
                        /\ Recorded(c) =>
                             /\ row'[c].status = row[c].status
                             /\ row'[c].op = row[c].op
                             /\ row'[c].workflow =
                                  IF FlowOf[c] = f THEN status
                                  ELSE row[c].workflow
      OBVIOUS
    <3>1. CASE Recorded(c) /\ FlowOf[c] = f
      <4>1. row[c] \in Rows /\ status \in FlowStatuses
        BY <3>1 DEF Recorded, Typed, FlowStatuses
      <4>2. row'[c] = [row[c] EXCEPT !.workflow = status]
        BY <2>1, <3>1
      <4>3. row'[c] \in Rows
        BY <4>1, <4>2, VouchedRowIsRow
      <4>4. /\ row'[c].status = row[c].status /\ row'[c].op = row[c].op
            /\ row'[c].workflow = status
        BY <4>1, <4>2 DEF Rows
      <4>5. QED
        BY <3>1, <4>3, <4>4 DEF Recorded
    <3>2. CASE ~(Recorded(c) /\ FlowOf[c] = f)
      BY <2>1, <3>2 DEF Recorded, Typed
    <3>3. QED
      BY <3>1, <3>2
  <2>4. Typed'
    BY <2>1, <2>2, <2>3 DEF Typed
  <2>5. PendingRow'
    BY <2>1, <2>2, <2>3 DEF PendingRow, Recorded, InFlow, Working, Typed
  <2>6. NotYetSent' /\ AnswerTrue' /\ PollTrue'
    BY <2>2 DEF NotYetSent, AnswerTrue, PollTrue
  <2>7. FlowVouches' /\ TruthfulOutcome'
    BY <2>1, <2>2, <2>3 DEF FlowVouches, TruthfulOutcome, Recorded, Typed
  <2>8. ActivityRecorded'
    <3> SUFFICES ASSUME NEW c \in Calls,
                        remote'[c] \in {"in_flight", "running"}
                 PROVE  \/ Recorded(c)' /\ ~Resolved(row[c])'
                        \/ /\ FlowOf[c] # NoFlow
                           /\ flow'[FlowOf[c]] = "succeeded"
                        \/ Mislabelled(c)'
      BY DEF ActivityRecorded
    <3>1. CASE FlowOf[c] # f
      BY <2>1, <2>2, <2>3, <3>1
      DEF ActivityRecorded, Recorded, Resolved, Typed
    <3>2. CASE Mislabelled(c)
      BY <2>2, <3>2
    <3>3. CASE FlowOf[c] = f /\ ~Mislabelled(c)
      <4>1. Recorded(c) /\ ~Resolved(row[c])
        BY <2>2, <3>3 DEF ActivityRecorded
      <4>2. row[c].status \notin Terminal
        BY <2>2, <3>3, <4>1 DEF TruthfulOutcome, Terminal
      <4>3. QED
        BY <2>1, <2>3, <3>3, <4>1, <4>2 DEF Recorded, Resolved, Typed
    <3>4. QED
      BY <3>1, <3>2, <3>3
  <2>9. QED
    BY <2>4, <2>5, <2>6, <2>7, <2>8
<1>9. ASSUME NEW c \in Calls, Provider(c) PROVE IInv'
  <2>1. PICK r \in {"running", "done", "failed"} :
          remote' = [remote EXCEPT ![c] = r]
    BY <1>9 DEF Provider, Arrive, Complete
  <2>2. /\ remote[c] \in {"in_flight", "running"}
        /\ UNCHANGED <<row, phase, answer, poll, flow>>
    BY <1>9 DEF Provider, Arrive, Complete
  <2>3. Typed'
    BY <2>1, <2>2 DEF Typed
  <2>4. PendingRow' /\ NotYetSent' /\ FlowVouches'
    BY <2>1, <2>2
    DEF PendingRow, NotYetSent, FlowVouches, Recorded, InFlow, Typed
  <2>5. AnswerTrue' /\ PollTrue'
    BY <2>1, <2>2 DEF AnswerTrue, PollTrue, Typed
  <2>6. TruthfulOutcome' /\ ActivityRecorded'
    BY <2>1, <2>2 DEF TruthfulOutcome, ActivityRecorded, Recorded, Typed
  <2>7. QED
    BY <2>3, <2>4, <2>5, <2>6
<1>10. ASSUME NEW p \in Pollers, NEW c \in Calls, Ask(p, c) PROVE IInv'
  BY <1>10, AskKeeps
<1>11. ASSUME NEW p \in Pollers, Observe(p) \/ ObserveFails(p) PROVE IInv'
  <2>1. /\ poll[p] \in Polls
        /\ poll' = [poll EXCEPT ![p] = NoPoll]
        /\ UNCHANGED <<phase, answer, remote, flow>>
    BY <1>11 DEF Observe, ObserveFails, Typed
  <2>2. DEFINE c == poll[p].of
               status == poll[p].status
  <2>3. c \in Calls /\ status \in Statuses
    BY <2>1 DEF Polls
  <2>4. /\ status = "succeeded" => remote[c] = "done"
        /\ status = "failed" => remote[c] = "failed"
    BY <2>1 DEF PollTrue
  <2>5. \/ row' = row
        \/ Recorded(c) /\ row' = [row EXCEPT ![c] = Observed(row[c], status)]
    BY <1>11, <2>3 DEF Observe, ObserveFails, Recorded, Typed
  <2> HIDE DEF c, status
  <2>6. Recorded(c) =>
          /\ Observed(row[c], status) \in Rows
          /\ Observed(row[c], status).op = row[c].op
          /\ Observed(row[c], status).workflow = row[c].workflow
          /\ Observed(row[c], status).status \in {row[c].status, status}
          /\ ~row[c].op => Observed(row[c], status) = row[c]
    BY <2>3, ObservedRowIsRow DEF Recorded, Typed
  <2>7. Typed'
    BY <2>1, <2>3, <2>5, <2>6 DEF Typed
  <2>8. PendingRow'
    BY <2>1, <2>3, <2>5, <2>6 DEF PendingRow, Recorded, InFlow, Typed
  <2>9. NotYetSent' /\ AnswerTrue' /\ PollTrue'
    BY <2>1 DEF NotYetSent, AnswerTrue, PollTrue, Typed
  <2>10. FlowVouches' /\ TruthfulOutcome'
    BY <2>1, <2>3, <2>4, <2>5, <2>6
    DEF FlowVouches, TruthfulOutcome, Recorded, Typed
  <2>11. ActivityRecorded'
    BY <2>1, <2>3, <2>4, <2>5, <2>6
    DEF ActivityRecorded, Recorded, Resolved, Terminal, Typed
  <2>12. QED
    BY <2>7, <2>8, <2>9, <2>10, <2>11
<1>12. CASE UNCHANGED vars
  BY <1>12
  DEF vars, Typed, PendingRow, NotYetSent, AnswerTrue, PollTrue, FlowVouches,
      TruthfulOutcome, ActivityRecorded, Recorded, InFlow
<1>13. QED
  BY <1>1, <1>2, <1>3, <1>4, <1>6, <1>7, <1>8, <1>9, <1>10, <1>11, <1>12
  DEF Next, Request, Verify, Workflow

(* A step never changes a recorded success or failure: finish() records an *)
(* outcome only over the row begin() wrote, observe() only over one that is*)
(* not terminal.                                                           *)
LEMMA OutcomeStays ==
  ASSUME IInv, Next, NEW c \in Calls, Recorded(c), row[c].status \in Terminal
  PROVE  row'[c] = NoRow \/ row'[c].status = row[c].status
<1> USE HistoryAssumption, ValuesAssumption
<1> USE DEF IInv, Mislabelled
<1>1. row[c] \in Rows /\ phase[c] \notin {"begun", "answered"}
  BY DEF PendingRow, Recorded, Typed, Terminal
<1>2. ASSUME NEW d \in Calls, Begin(d) \/ BeginFails(d)
      PROVE  row'[c] = NoRow \/ row'[c].status = row[c].status
  <2>1. NewRow(d) \in Rows
    BY NewRowIsRow
  <2>2. CASE UNCHANGED journal
    BY <2>2 DEF journal
  <2>3. CASE Insert(d, NewRow(d))
    <3>1. CASE c = d
      BY <1>2, <3>1
      DEF Begin, BeginFails, NotYetSent, Unanswered, TruthfulOutcome, Terminal
    <3>2. CASE c # d
      BY <2>1, <2>3, <3>2, InsertDropsResolved
    <3>3. QED
      BY <3>1, <3>2
  <2>4. QED
    BY <1>2, <2>2, <2>3 DEF Begin, BeginFails
<1>3. ASSUME NEW d \in Calls,
             Send(d) \/ FinishFails(d) \/ Kill(d) \/ Provider(d)
      PROVE  row'[c] = row[c]
  BY <1>3 DEF Send, FinishFails, Kill, Provider
<1>4. ASSUME NEW d \in Calls, Finish(d)
      PROVE  row'[c] = row[c]
  BY <1>1, <1>4 DEF Finish, Typed
<1>5. ASSUME NEW p \in Pollers,
             (\E d \in Calls : Ask(p, d)) \/ Observe(p) \/ ObserveFails(p)
      PROVE  row'[c] = row[c]
  <2>1. CASE Observe(p)
    <3>1. poll[p] \in Polls
      BY <2>1 DEF Observe, Typed
    <3>2. Observed(row[c], poll[p].status) = row[c]
      BY <1>1, <3>1, ObservedRowIsRow DEF Polls
    <3>3. QED
      BY <1>1, <2>1, <3>1, <3>2 DEF Observe, Polls, Typed
  <2>2. QED
    BY <1>5, <2>1 DEF Ask, ObserveFails
<1>6. ASSUME NEW f \in Flows, EndFlow(f) \/ KillFlow(f)
      PROVE  row'[c].status = row[c].status
  BY <1>1, <1>6 DEF EndFlow, KillFlow, Rows
<1>7. QED
  BY <1>2, <1>3, <1>4, <1>5, <1>6 DEF Next, Request, Verify, Workflow

(* The invariant holds in every reachable state.                           *)
LEMMA Inductive == Spec => []IInv
<1>1. QED
  BY IInvInit, IInvStep, PTL DEF Spec

-----------------------------------------------------------------------------
(* The order of the rows *)

(* The elements of sequences that are joined.                              *)
LEMMA ConcatIs ==
  ASSUME NEW S, NEW s \in Seq(S), NEW t \in Seq(S)
  PROVE  /\ s \o t \in Seq(S) /\ Len(s \o t) = Len(s) + Len(t)
         /\ \A j \in 1..(Len(s) + Len(t)) :
              (s \o t)[j] = IF j <= Len(s) THEN s[j] ELSE t[j - Len(s)]
OBVIOUS

(* A sequence with one more element.                                       *)
LEMMA AppendIs ==
  ASSUME NEW S, NEW s \in Seq(S), NEW e \in S
  PROVE  /\ Append(s, e) \in Seq(S) /\ Len(Append(s, e)) = Len(s) + 1
         /\ Append(s, e)[Len(s) + 1] = e
         /\ \A j \in 1..Len(s) : Append(s, e)[j] = s[j]
OBVIOUS

(* What is left of the file when a row is dropped.                         *)
LEMMA DropIs ==
  ASSUME NEW i \in DOMAIN order, order \in Seq(Calls)
  PROVE  /\ Drop(i) \in Seq(Calls)
         /\ Len(Drop(i)) = Len(order) - 1
         /\ \A j \in 1..Len(Drop(i)) :
              Drop(i)[j] = IF j < i THEN order[j] ELSE order[j + 1]
<1>1. i \in 1..Len(order) /\ Len(order) \in Nat
  OBVIOUS
<1>2. /\ SubSeq(order, 1, i - 1) \in Seq(Calls)
      /\ Len(SubSeq(order, 1, i - 1)) = i - 1
      /\ \A j \in 1..(i - 1) : SubSeq(order, 1, i - 1)[j] = order[j]
  BY <1>1
<1>3. /\ SubSeq(order, i + 1, Len(order)) \in Seq(Calls)
      /\ Len(SubSeq(order, i + 1, Len(order))) = Len(order) - i
      /\ \A j \in 1..(Len(order) - i) :
           SubSeq(order, i + 1, Len(order))[j] = order[i + j]
  BY <1>1
<1>4. DEFINE s == SubSeq(order, 1, i - 1)
             t == SubSeq(order, i + 1, Len(order))
<1>5. Drop(i) = s \o t /\ s \in Seq(Calls) /\ t \in Seq(Calls)
  BY <1>2, <1>3 DEF Drop
<1>6. /\ Len(s) = i - 1 /\ \A j \in 1..(i - 1) : s[j] = order[j]
      /\ Len(t) = Len(order) - i /\ \A j \in 1..(Len(order) - i) : t[j] = order[i + j]
  BY <1>2, <1>3
<1> HIDE DEF s, t
<1>7. /\ s \o t \in Seq(Calls) /\ Len(s \o t) = Len(s) + Len(t)
      /\ \A j \in 1..(Len(s) + Len(t)) :
           (s \o t)[j] = IF j <= Len(s) THEN s[j] ELSE t[j - Len(s)]
  BY <1>5, ConcatIs
<1>8. Len(Drop(i)) = Len(order) - 1
  BY <1>1, <1>5, <1>6, <1>7
<1>9. ASSUME NEW j \in 1..(Len(order) - 1)
      PROVE  Drop(i)[j] = IF j < i THEN order[j] ELSE order[j + 1]
  <2>1. CASE j < i
    <3>1. j \in 1..(i - 1) /\ j \in 1..(Len(s) + Len(t)) /\ j <= Len(s)
      BY <1>1, <1>6, <2>1
    <3>2. (s \o t)[j] = s[j]
      BY <1>7, <3>1
    <3>3. s[j] = order[j]
      BY <1>6, <3>1
    <3>. QED BY <1>5, <2>1, <3>2, <3>3
  <2>2. CASE ~(j < i)
    <3>1. /\ i \in Int /\ j \in Int /\ Len(order) \in Int
          /\ i <= j /\ j <= Len(order) - 1 /\ 1 <= i
      BY <1>1, <2>2
    <3>2. /\ Len(s) = i - 1 /\ Len(t) = Len(order) - i
      BY <1>6
    <3>3. /\ j - Len(s) \in 1..(Len(order) - i) /\ i + (j - Len(s)) = j + 1
          /\ ~(j <= Len(s)) /\ j \in 1..(Len(s) + Len(t))
      BY <3>1, <3>2, SMTT(30)
    <3>4. Drop(i)[j] = t[j - Len(s)]
      BY <1>5, <1>7, <3>3
    <3>5. QED
      BY <1>6, <2>2, <3>3, <3>4
  <2>3. QED
    BY <2>1, <2>2
<1>10. QED
  BY <1>5, <1>7, <1>8, <1>9

(* A request that has not begun has no row yet.                            *)
NewUnrecorded == \A c \in Calls : phase[c] = "new" => ~Recorded(c)

JInv == IInv /\ Journaled /\ NewUnrecorded

(* The order of the journal, index by index.                               *)
LEMMA JournaledIs ==
  Journaled <=> /\ order \in Seq(Calls)
                /\ \A i, j \in 1..Len(order) : order[i] = order[j] => i = j
                /\ \A d \in Calls : Recorded(d) <=> \E i \in 1..Len(order) : order[i] = d
                /\ Len(order) <= Limit
<1>1. ASSUME order \in Seq(Calls)
      PROVE  /\ DOMAIN order = 1..Len(order)
             /\ \A i \in 1..Len(order) : order[i] \in Calls
  BY <1>1
<1>2. QED
  BY <1>1 DEF Journaled

(* The same of the next state's journal.                                   *)
LEMMA JournaledNext ==
  ASSUME order' \in Seq(Calls), Len(order') <= Limit,
         \A i, j \in 1..Len(order') : order'[i] = order'[j] => i = j,
         \A d \in Calls : Recorded(d)' <=> \E i \in 1..Len(order') : order'[i] = d
  PROVE  Journaled'
<1>1. /\ DOMAIN order' = 1..Len(order')
      /\ \A i \in 1..Len(order') : order'[i] \in Calls
  OBVIOUS
<1>2. {order'[i] : i \in DOMAIN order'} = {c \in Calls : Recorded(c)'}
  BY <1>1
<1>3. QED
  BY <1>1, <1>2 DEF Journaled

(* begin() keeps every row once: it appends one that was not there, when   *)
(* there is room or another has made it.                                   *)
LEMMA InsertKeepsOrder ==
  ASSUME Typed, Journaled, NEW c \in Calls, NEW new \in Rows, ~Recorded(c),
         Insert(c, new)
  PROVE  Journaled'
<1> USE HistoryAssumption, ValuesAssumption
<1>1. /\ order \in Seq(Calls) /\ DOMAIN order = 1..Len(order) /\ Len(order) \in Nat
      /\ \A i, j \in 1..Len(order) : order[i] = order[j] => i = j
      /\ \A d \in Calls : Recorded(d) <=> \E i \in 1..Len(order) : order[i] = d
      /\ \A i \in 1..Len(order) : order[i] \in Calls /\ order[i] # c
      /\ Len(order) <= Limit
  BY JournaledIs
<1>2. CASE /\ Len(order) < Limit
           /\ order' = Append(order, c)
           /\ row' = [row EXCEPT ![c] = new]
  <2>1. /\ order' \in Seq(Calls) /\ Len(order') = Len(order) + 1
        /\ order'[Len(order) + 1] = c
        /\ \A i \in 1..Len(order) : order'[i] = order[i]
    BY <1>1, <1>2, AppendIs
  <2>2. \A i, j \in 1..Len(order') : order'[i] = order'[j] => i = j
    BY <1>1, <2>1
  <2>3. \A d \in Calls : Recorded(d)' <=> Recorded(d) \/ d = c
    BY <1>2 DEF Recorded, Typed
  <2>4. \A d \in Calls : Recorded(d)' <=> \E i \in 1..Len(order') : order'[i] = d
    BY <1>1, <2>1, <2>3
  <2>5. QED
    <3>1. Len(order') <= Limit
      BY <1>1, <1>2, <2>1
    <3>2. QED
      BY <2>1, <2>2, <2>4, <3>1, JournaledNext
<1>3. CASE /\ Len(order) = Limit
           /\ \E i \in DOMAIN order :
                /\ FirstResolved(i)
                /\ order' = Append(Drop(i), c)
                /\ row' = [row EXCEPT ![order[i]] = NoRow, ![c] = new]
  <2>1. PICK i \in 1..Len(order) :
          /\ order' = Append(Drop(i), c)
          /\ row' = [row EXCEPT ![order[i]] = NoRow, ![c] = new]
    BY <1>1, <1>3
  <2>2. /\ Drop(i) \in Seq(Calls)
        /\ Len(Drop(i)) = Len(order) - 1
        /\ \A j \in 1..(Len(order) - 1) :
             Drop(i)[j] = IF j < i THEN order[j] ELSE order[j + 1]
    BY <1>1, <2>1, DropIs
  <2>3. /\ order' \in Seq(Calls) /\ Len(order') = Len(order)
        /\ order'[Len(order)] = c
        /\ \A j \in 1..(Len(order) - 1) :
             order'[j] = IF j < i THEN order[j] ELSE order[j + 1]
    <3>1. /\ order' \in Seq(Calls) /\ Len(order') = Len(Drop(i)) + 1
          /\ order'[Len(Drop(i)) + 1] = c
          /\ \A j \in 1..Len(Drop(i)) : order'[j] = Drop(i)[j]
      BY <2>1, <2>2, AppendIs
    <3>2. QED
      BY <1>1, <2>2, <3>1
  <2>4. \A j, k \in 1..Len(order') : order'[j] = order'[k] => j = k
    <3>1. ASSUME NEW j \in 1..(Len(order) - 1)
          PROVE  \E m \in 1..Len(order) :
                   m = (IF j < i THEN j ELSE j + 1) /\ order'[j] = order[m]
      BY <1>1, <2>3
    <3>2. ASSUME NEW j \in 1..(Len(order) - 1) PROVE order'[j] # c
      BY <1>1, <3>1
    <3>3. ASSUME NEW j \in 1..(Len(order) - 1), NEW k \in 1..(Len(order) - 1),
                 order'[j] = order'[k]
          PROVE  j = k
      <4>1. PICK m \in 1..Len(order) :
              m = (IF j < i THEN j ELSE j + 1) /\ order'[j] = order[m]
        BY <3>1
      <4>2. PICK n \in 1..Len(order) :
              n = (IF k < i THEN k ELSE k + 1) /\ order'[k] = order[n]
        BY <3>1
      <4>3. m = n
        BY <1>1, <3>3, <4>1, <4>2
      <4>4. QED
        BY <1>1, <4>1, <4>2, <4>3
    <3>4. SUFFICES ASSUME NEW j \in 1..Len(order), NEW k \in 1..Len(order),
                          order'[j] = order'[k]
                   PROVE  j = k
      BY <2>3
    <3>5. \A m \in 1..Len(order) : m # Len(order) => m \in 1..(Len(order) - 1)
      <4>1. DEFINE n == Len(order)
      <4>2. n \in Int
        BY <1>1
      <4> HIDE DEF n
      <4>3. \A m \in 1..n : m # n => m \in 1..(n - 1)
        BY <4>2
      <4>4. QED
        BY <4>3 DEF n
    <3>6. CASE j = Len(order) \/ k = Len(order)
      BY <2>3, <3>2, <3>4, <3>5, <3>6
    <3>7. CASE j # Len(order) /\ k # Len(order)
      BY <3>3, <3>4, <3>5, <3>7
    <3>8. QED
      BY <3>6, <3>7
  <2>5. \A d \in Calls : Recorded(d)' <=> (Recorded(d) /\ d # order[i]) \/ d = c
    BY <1>1, <2>1 DEF Recorded, Typed
  <2>6. \A d \in Calls : (\E j \in 1..Len(order') : order'[j] = d)
                           <=> (Recorded(d) /\ d # order[i]) \/ d = c
    <3>1. ASSUME NEW d \in Calls, Recorded(d), d # order[i]
          PROVE  \E j \in 1..Len(order') : order'[j] = d
      <4>1. PICK k \in 1..Len(order) : order[k] = d
        BY <1>1, <3>1
      <4>2. CASE k < i
        BY <1>1, <2>3, <4>1, <4>2
      <4>3. CASE k > i
        <5>1. k - 1 \in 1..(Len(order) - 1) /\ ~(k - 1 < i) /\ (k - 1) + 1 = k
          BY <1>1, <4>3
        <5>2. order'[k - 1] = order[k] /\ k - 1 \in 1..Len(order')
          BY <1>1, <2>3, <5>1
        <5>3. QED
          BY <4>1, <5>2
      <4>4. QED
        BY <1>1, <3>1, <4>1, <4>2, <4>3
    <3>2. ASSUME NEW j \in 1..Len(order')
          PROVE  order'[j] = c \/ (Recorded(order'[j]) /\ order'[j] # order[i])
      BY <1>1, <2>3, <3>2
    <3>3. QED
      BY <1>1, <2>3, <3>1, <3>2
  <2>7. QED
    <3>1. Len(order') <= Limit
      BY <1>3, <2>3, HistoryAssumption
    <3>2. QED
      BY <2>3, <2>4, <2>5, <2>6, <3>1, JournaledNext
<1>4. QED
  BY <1>2, <1>3 DEF Insert

(* The empty journal fits.                                                 *)
LEMMA JInvInit == Init => JInv
<1> SUFFICES ASSUME Init PROVE JInv
  OBVIOUS
<1>1. order = <<>> /\ \A c \in Calls : ~Recorded(c)
  BY DEF Init, Recorded
<1>2. Journaled
  BY <1>1, HistoryAssumption DEF Journaled
<1>3. QED
  BY <1>1, <1>2, IInvInit DEF JInv, NewUnrecorded

(* Only begin() changes which requests have a row.                         *)
LEMMA JInvStep == JInv /\ [Next]_vars => JInv'
<1> SUFFICES ASSUME JInv, [Next]_vars PROVE JInv'
  OBVIOUS
<1> USE ValuesAssumption
<1> USE DEF JInv
<1>1. IInv'
  BY IInvStep
<1>2. ASSUME UNCHANGED order, \A c \in Calls : Recorded(c)' = Recorded(c),
             \A c \in Calls : phase'[c] = "new" => phase[c] = "new"
      PROVE  Journaled' /\ NewUnrecorded'
  BY <1>2 DEF Journaled, NewUnrecorded
<1>3. ASSUME NEW c \in Calls, Begin(c) \/ BeginFails(c)
      PROVE  Journaled' /\ NewUnrecorded'
  <2>1. /\ phase[c] = "new" /\ phase'[c] # "new"
        /\ \A d \in Calls \ {c} : phase'[d] = phase[d]
    BY <1>3 DEF Begin, BeginFails, IInv, Typed
  <2>2. CASE UNCHANGED journal
    BY <2>1, <2>2 DEF journal, Journaled, NewUnrecorded, Recorded
  <2>3. CASE Insert(c, NewRow(c))
    <3>1. NewRow(c) \in Rows /\ ~Recorded(c)
      BY <2>1, NewRowIsRow DEF NewUnrecorded
    <3>2. Journaled'
      BY <2>3, <3>1, InsertKeepsOrder DEF IInv
    <3>3. \A d \in Calls \ {c} : row'[d] = row[d] \/ row'[d] = NoRow
      BY <2>3, <3>1, InsertDropsResolved DEF IInv
    <3>4. NewUnrecorded'
      BY <2>1, <3>3 DEF NewUnrecorded, Recorded
    <3>5. QED
      BY <3>2, <3>4
  <2>4. QED
    BY <1>3, <2>2, <2>3 DEF Begin, BeginFails
<1>4. ASSUME NEW c \in Calls,
             Send(c) \/ FinishFails(c) \/ Kill(c) \/ Provider(c)
      PROVE  Journaled' /\ NewUnrecorded'
  <2>1. UNCHANGED <<row, order>>
    BY <1>4 DEF Send, FinishFails, Kill, Provider
  <2>2. \A d \in Calls : phase'[d] = "new" => phase[d] = "new"
    BY <1>4 DEF Send, Accepted, Refused, RefusedLate, Unclear, Answered, FinishFails, Kill, Abandon,
                Provider, IInv, Typed
  <2>3. QED
    BY <1>2, <2>1, <2>2 DEF Recorded
<1>5. ASSUME NEW c \in Calls, Finish(c) PROVE Journaled' /\ NewUnrecorded'
  <2>1. row[c] # NoRow => [row[c] EXCEPT !.status = answer[c].status,
                                         !.op = answer[c].op] # NoRow
    BY FinishedRowIsRow DEF IInv, Typed
  <2>2. /\ UNCHANGED order
        /\ \A d \in Calls : Recorded(d)' = Recorded(d)
        /\ \A d \in Calls : phase'[d] = "new" => phase[d] = "new"
    BY <1>5, <2>1 DEF Finish, Recorded, IInv, Typed
  <2>3. QED
    BY <1>2, <2>2
<1>6. ASSUME NEW p \in Pollers,
             (\E c \in Calls : Ask(p, c)) \/ Observe(p) \/ ObserveFails(p)
      PROVE  Journaled' /\ NewUnrecorded'
  <2>1. CASE Observe(p)
    <3>1. poll[p] \in Polls /\ poll[p].of \in Calls /\ poll[p].status \in Statuses
      BY <2>1 DEF Observe, IInv, Typed, Polls
    <3>2. \A r \in Rows : Observed(r, poll[p].status) # NoRow
      BY <3>1, ObservedRowIsRow
    <3>3. \A d \in Calls : Recorded(d)' = Recorded(d)
      BY <2>1, <3>1, <3>2 DEF Observe, Recorded, IInv, Typed
    <3>4. UNCHANGED <<order, phase>>
      BY <2>1 DEF Observe
    <3>5. QED
      BY <1>2, <3>3, <3>4
  <2>2. CASE ~Observe(p)
    <3>1. UNCHANGED <<row, order, phase>>
      BY <1>6, <2>2 DEF Ask, ObserveFails
    <3>2. QED
      BY <1>2, <3>1 DEF Recorded
  <2>3. QED
    BY <2>1, <2>2
<1>7. ASSUME NEW f \in Flows, EndFlow(f) PROVE Journaled' /\ NewUnrecorded'
  <2>1. PICK status \in {"succeeded", "failed"} :
          row' = [c \in Calls |-> IF Recorded(c) /\ FlowOf[c] = f
                                  THEN [row[c] EXCEPT !.workflow = status]
                                  ELSE row[c]]
    BY <1>7 DEF EndFlow
  <2>2. \A r \in Rows : [r EXCEPT !.workflow = status] # NoRow
    BY VouchedRowIsRow DEF FlowStatuses
  <2>3. \A c \in Calls : Recorded(c)' = Recorded(c)
    BY <2>1, <2>2 DEF Recorded, IInv, Typed
  <2>4. UNCHANGED <<order, phase>>
    BY <1>7 DEF EndFlow
  <2>5. QED
    BY <1>2, <2>3, <2>4
<1>8. ASSUME NEW f \in Flows, KillFlow(f) PROVE Journaled' /\ NewUnrecorded'
  BY <1>2, <1>8 DEF KillFlow, Abandon, Recorded
<1>9. CASE UNCHANGED vars
  <2>1. UNCHANGED <<row, order, phase>>
    BY <1>9 DEF vars
  <2>2. QED
    BY <1>1, <1>2, <2>1 DEF Recorded
<1>10. QED
  BY <1>1, <1>3, <1>4, <1>5, <1>6, <1>7, <1>8, <1>9
  DEF Next, Request, Verify, Workflow

-----------------------------------------------------------------------------
(* The theorems *)

(* index.ts: the file holds every row once, and never more than            *)
(* HISTORY_LIMIT of them.                                                  *)
THEOREM JournalKept == Spec => []TypeOK
<1>1. JInv => TypeOK
  BY DEF JInv, IInv, TypeOK
<1>2. QED
  BY <1>1, JInvInit, JInvStep, PTL DEF Spec

(* Every value the journal, the requests and the polls hold is one the     *)
(* code writes.                                                            *)
THEOREM TypedHolds == Spec => []Typed
<1>1. IInv => Typed
  BY DEF IInv
<1>2. QED
  BY <1>1, Inductive, PTL

(* Whatever crashes, is lost or is dropped: a request the provider may     *)
(* still be executing has an unresolved row, or its workflow succeeded.    *)
THEOREM ActivityRecordedHolds == Spec => []ActivityRecorded
<1>1. IInv => ActivityRecorded
  BY DEF IInv
<1>2. QED
  BY <1>1, Inductive, PTL

(* A success in the journal is what happened at the provider, and so is a   *)
(* failure: refused, or failed there.  A failure without an operation of a *)
(* client that asks on after its write says nothing (history/client.ts).   *)
THEOREM TruthfulOutcomeHolds == Spec => []TruthfulOutcome
<1>1. IInv => TruthfulOutcome
  BY DEF IInv
<1>2. QED
  BY <1>1, Inductive, PTL

(* Once recorded, a success or failure stays what it is, whatever order    *)
(* the answers of several processes arrive in.                             *)
THEOREM OutcomeSticksHolds == Spec => OutcomeSticks
<1>1. ASSUME IInv, [Next]_vars
      PROVE  [\A c \in Calls : Recorded(c) /\ row[c].status \in Terminal =>
                row'[c] = NoRow \/ row'[c].status = row[c].status]_vars
  BY <1>1, OutcomeStays
<1>2. QED
  BY <1>1, Inductive, PTL DEF Spec, OutcomeSticks
=============================================================================
