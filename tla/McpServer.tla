----------------------------- MODULE McpServer -----------------------------
(***************************************************************************)
(* One MCP session (mcp/server.ts): the lines of the client, handled one   *)
(* at a time in a chain of promises, the handshake, and the tools that     *)
(* change something through a reviewed plan with a one-use confirmation.   *)
(* Next to it the dashboard edits the saved route and holds its lock, time *)
(* passes, and the client may send anything at any moment and stop.        *)
(***************************************************************************)
EXTENDS Naturals, Sequences, FiniteSets

CONSTANTS PlanIds,       \* confirmation ids, each given out once (randomUUID)
          MaxPlans,  \* pending plans of a kind (MAX_PUSH_PLANS)
          PlanTtl,       \* how long a plan may be applied
          MaxMcpTime,   \* bound: the clock
          MaxSent,   \* bound: lines the client sends
          MaxQueue,  \* bound: lines the client sends ahead
          MaxRouteEdits   \* bound: changes of the saved route

ASSUME McpAssumption ==
  /\ IsFiniteSet(PlanIds) /\ MaxPlans \in Nat \ {0} /\ PlanTtl \in Nat \ {0}
  /\ MaxMcpTime \in Nat /\ MaxSent \in Nat /\ MaxQueue \in Nat
  /\ MaxRouteEdits \in Nat

PlanKinds == {"push", "restore"}
Lines == [method : {"initialize", "initialized", "read"}]
           \cup [method : {"plan"}, kind : PlanKinds]
           \cup [method : {"apply"}, kind : PlanKinds, id : PlanIds]

VARIABLES
  inbox,        \* the lines not yet handled; the first one is being handled
  inputClosed,       \* whether the input has ended
  doing,        \* how far its handling is: "none" "preparing" "waiting"
                \* "comparing" "executing"
  initialized, mcpReady,
  plans,        \* pending: id -> [kind, route, expires, begun]
  issued,       \* the ids given out
  takenPlan,        \* the plan apply took out of the map, while it is handled
  route,        \* the version of the saved route
  lockHolder,       \* who holds its lock: "nobody" "server" "dashboard"
  mcpClock,
  sent, answers,  \* how many lines came, how many were done with
  executed      \* what was executed: sets of [id, kind, ...], and how often

mVars == << inbox, inputClosed, doing, initialized, mcpReady, plans, issued, takenPlan,
            route, lockHolder, mcpClock, sent, answers, executed >>
mcpSession == << initialized, mcpReady, plans, issued >>
outside == << route, mcpClock, sent, inputClosed >>

Nothing == [kind |-> "none"]

MInit ==
  /\ inbox = << >> /\ inputClosed = FALSE /\ doing = "none"
  /\ initialized = FALSE /\ mcpReady = FALSE
  /\ plans = [i \in {} |-> Nothing] /\ issued = {} /\ takenPlan = Nothing
  /\ route = 0 /\ lockHolder = "nobody" /\ mcpClock = 0
  /\ sent = 0 /\ answers = 0 /\ executed = << >>

-----------------------------------------------------------------------------
(* Around the server.                                                      *)

SendLine(line) ==
      /\ sent < MaxSent /\ Len(inbox) < MaxQueue /\ ~inputClosed
      /\ sent' = sent + 1 /\ inbox' = Append(inbox, line)
      /\ UNCHANGED << mcpSession, doing, inputClosed, takenPlan, route, lockHolder,
                      mcpClock, answers, executed >>

CloseInput ==
  /\ ~inputClosed /\ inputClosed' = TRUE
  /\ UNCHANGED << inbox, mcpSession, doing, takenPlan, route, lockHolder, mcpClock, sent,
                  answers, executed >>

DashboardTakes ==
  /\ lockHolder = "nobody" /\ route < MaxRouteEdits
  /\ lockHolder' = "dashboard"
  /\ UNCHANGED << inbox, mcpSession, doing, takenPlan, outside, answers, executed >>

DashboardSaves ==
  /\ lockHolder = "dashboard" /\ route' = route + 1 /\ lockHolder' = "nobody"
  /\ UNCHANGED << inbox, mcpSession, doing, takenPlan, inputClosed, mcpClock, sent, answers,
                  executed >>

McpTick ==
     /\ mcpClock < MaxMcpTime /\ mcpClock' = mcpClock + 1
     /\ UNCHANGED << inbox, mcpSession, doing, takenPlan, route, inputClosed, sent, lockHolder,
                     answers, executed >>

-----------------------------------------------------------------------------
(* handle(): one line from its first word to its answer.                   *)

Line == Head(inbox)
Begins == inbox # << >> /\ doing = "none"

\* The line is done with: an answer, or nothing for a notification.
Done == inbox' = Tail(inbox) /\ answers' = answers + 1 /\ doing' = "none"

Handshake ==
  /\ Begins /\ Line.method \in {"initialize", "initialized"} /\ Done
  /\ initialized' = (initialized \/ Line.method = "initialize")
  /\ mcpReady' = (mcpReady \/ (initialized /\ Line.method = "initialized"))
  /\ UNCHANGED << plans, issued, takenPlan, outside, lockHolder, executed >>

\* Parse errors, unknown methods, ping and every tool that only reads.
AnswersPlain ==
  /\ Begins /\ (Line.method = "read" \/ ~mcpReady)
  /\ Line.method \notin {"initialize", "initialized"} /\ Done
  /\ UNCHANGED << mcpSession, takenPlan, outside, lockHolder, executed >>

\* A plan tool verifies the route or backup with the provider first.
Prepares ==
  /\ Begins /\ mcpReady /\ Line.method = "plan"
  /\ doing' = "preparing" /\ takenPlan' = [kind |-> Line.kind, route |-> route]
  /\ UNCHANGED << inbox, mcpSession, outside, lockHolder, answers, executed >>

PrepareFails ==
  /\ doing = "preparing" /\ Done /\ takenPlan' = Nothing
  /\ UNCHANGED << mcpSession, outside, lockHolder, executed >>

Live(kind) == {i \in DOMAIN plans :
                 plans[i].kind = kind => plans[i].expires > mcpClock}

\* Mutant of HasRoom: the limit is tested after the plan is kept.
HasRoomLate(kept) == Cardinality({i \in kept : plans[i].kind = Line.kind}) <= MaxPlans
HasRoom(kept) == Cardinality({i \in kept : plans[i].kind = Line.kind}) < MaxPlans

\* Expired plans go; the new one is kept if there is room for it.
Prepared(id) ==
  /\ doing = "preparing" /\ id \in PlanIds \ issued
  /\ LET kept == Live(Line.kind)
         room == HasRoom(kept)
         now  == IF room THEN kept \cup {id} ELSE kept
         plan == [kind |-> Line.kind, route |-> takenPlan.route,
                  expires |-> mcpClock + PlanTtl, begun |-> mcpClock]
     IN  /\ plans' = [i \in now |-> IF i = id THEN plan ELSE plans[i]]
         /\ issued' = IF room THEN issued \cup {id} ELSE issued
  /\ Done /\ takenPlan' = Nothing
  /\ UNCHANGED << initialized, mcpReady, outside, lockHolder, executed >>

\* The confirmation is used up as it is read.
Takes(i) == [j \in DOMAIN plans \ {i} |-> plans[j]]

InTime(plan) == plan.expires > mcpClock

ApplyRuns ==
    /\ Begins /\ mcpReady /\ Line.method = "apply"
    /\ LET mine == Line.id \in DOMAIN plans /\ plans[Line.id].kind = Line.kind IN
       IF mine /\ InTime(plans[Line.id])
         THEN /\ plans' = Takes(Line.id)
              /\ takenPlan' = [plans[Line.id] EXCEPT !.begun = mcpClock]
              /\ doing' = IF Line.kind = "push" THEN "waiting" ELSE "executing"
              /\ UNCHANGED << inbox, answers >>
         ELSE /\ plans' = IF mine THEN Takes(Line.id) ELSE plans
              /\ Done /\ UNCHANGED takenPlan
    /\ UNCHANGED << initialized, mcpReady, issued, outside, lockHolder, executed >>

\* withSavedPushLock: the lock, or after a while a conflict.
LockTaken ==
  /\ doing = "waiting" /\ lockHolder = "nobody"
  /\ IF InTime(takenPlan)
       THEN /\ doing' = "comparing" /\ lockHolder' = "server"
            /\ takenPlan' = [takenPlan EXCEPT !.begun = mcpClock]
            /\ UNCHANGED << inbox, answers >>
       ELSE Done /\ takenPlan' = Nothing /\ UNCHANGED lockHolder
  /\ UNCHANGED << mcpSession, outside, executed >>

\* Mutant of LockTimesOut: the lock is waited for as long as it takes.
LockNeverTimesOut == doing = "waiting" /\ lockHolder = "dashboard" /\ UNCHANGED mVars
LockTimesOut ==
  /\ doing = "waiting" /\ lockHolder = "dashboard" /\ Done /\ takenPlan' = Nothing
  /\ UNCHANGED << mcpSession, outside, lockHolder, executed >>

\* Mutant of SameRoute: the plan carries all that the push needs.
SameRouteAlways == TRUE

\* The route saved now is the reviewed one.
SameRoute == takenPlan.route = route

Compares ==
  /\ doing = "comparing"
  /\ IF SameRoute
       THEN doing' = "executing" /\ UNCHANGED << inbox, answers, takenPlan, lockHolder >>
       ELSE Done /\ takenPlan' = Nothing /\ lockHolder' = "nobody"
  /\ UNCHANGED << mcpSession, outside, executed >>

\* The provider is asked to push or restore; the answer is any.
Executes ==
  /\ doing = "executing"
  /\ executed' = Append(executed, [id |-> Line.id, kind |-> Line.kind,
                                   plan |-> takenPlan, route |-> route])
  /\ Done /\ takenPlan' = Nothing
  /\ lockHolder' = IF lockHolder = "server" THEN "nobody" ELSE lockHolder
  /\ UNCHANGED << mcpSession, outside >>

HandleStep ==
  \/ Handshake \/ AnswersPlain \/ Prepares \/ PrepareFails
  \/ \E id \in PlanIds : Prepared(id)
  \/ ApplyRuns \/ LockTaken \/ LockTimesOut \/ Compares \/ Executes

MNext ==
  \/ \E line \in Lines : SendLine(line)
  \/ CloseInput \/ DashboardTakes \/ DashboardSaves \/ McpTick \/ HandleStep

(* Node goes on with the chain: provider calls end in their budget and the *)
(* wait for a lock in its own, whether or not the dashboard lets go.       *)
MSpec == MInit /\ [][MNext]_mVars /\ WF_mVars(HandleStep)

-----------------------------------------------------------------------------
MTypeOK ==
  /\ Len(inbox) <= MaxQueue /\ \A i \in DOMAIN inbox : inbox[i] \in Lines
  /\ doing \in {"none", "preparing", "waiting", "comparing", "executing"}
  /\ initialized \in BOOLEAN /\ mcpReady \in BOOLEAN /\ inputClosed \in BOOLEAN
  /\ DOMAIN plans \subseteq issued /\ issued \subseteq PlanIds
  /\ \A k \in PlanKinds : Cardinality({i \in DOMAIN plans : plans[i].kind = k})
                            <= MaxPlans
  /\ route \in 0..MaxRouteEdits /\ mcpClock \in 0..MaxMcpTime
  /\ lockHolder \in {"nobody", "server", "dashboard"}
  /\ answers + Len(inbox) = sent

(* A confirmation is good for one mutation, of the kind it was given for   *)
(* and begun before it expired; and what a push sends is the route as it   *)
(* is saved at that moment, which is the route that was reviewed, however  *)
(* long the lock was waited for.                                           *)
ReviewedOnce ==
  /\ \A i, j \in DOMAIN executed : executed[i].id = executed[j].id => i = j
  /\ \A i \in DOMAIN executed :
       /\ executed[i].plan.kind = executed[i].kind
       /\ executed[i].plan.begun < executed[i].plan.expires
       /\ executed[i].kind = "push" => executed[i].plan.route = executed[i].route

(* What these two rest on.  The types of the pieces; what the line that is *)
(* being handled says of the plan taken for it, and that the lock is held  *)
(* from the comparison on; and that a confirmation which was acted on is   *)
(* not pending and cannot be given out again.                              *)
PlanRecords == [kind : PlanKinds, route : Nat, expires : Nat, begun : Nat]
ExecutedRecords == [id : PlanIds, kind : PlanKinds, plan : PlanRecords, route : Nat]
Applying == doing \in {"waiting", "comparing", "executing"}

McpPieces ==
  /\ inbox \in Seq(Lines) /\ executed \in Seq(ExecutedRecords)
  /\ sent \in Nat /\ answers \in Nat
  /\ lockHolder = "dashboard" => route < MaxRouteEdits
  /\ \A i \in DOMAIN plans : plans[i] \in PlanRecords
  /\ doing = "preparing" \/ Applying => inbox # << >>
  /\ doing = "preparing" => Line.method = "plan" /\ takenPlan.route \in Nat

PlanInHand ==
  Applying =>
    /\ Line.method = "apply" /\ Line.id \in issued \ DOMAIN plans
    /\ takenPlan \in PlanRecords /\ takenPlan.kind = Line.kind
    /\ takenPlan.begun < takenPlan.expires
    /\ doing # "executing" => Line.kind = "push"
    /\ doing # "waiting" /\ Line.kind = "push" => lockHolder = "server"
    /\ doing = "executing" /\ Line.kind = "push" => takenPlan.route = route

UsedUp ==
  \A n \in DOMAIN executed :
    /\ executed[n].id \in issued \ DOMAIN plans
    /\ Applying => executed[n].id # Line.id

McpInv == MTypeOK /\ McpPieces /\ PlanInHand /\ UsedUp /\ ReviewedOnce

(* Every line is done with, also what was sent just before the input ended *)
(* and what waits behind a push that waits for a lock.                     *)
EveryLineAnswered == \A n \in 1..MaxSent : sent >= n ~> answers >= n
=============================================================================
