--------------------------- MODULE DashboardProofs ---------------------------
(***************************************************************************)
(* What is proved of the parts behind the dashboard and the MCP client, a  *)
(* section for each: the MCP server, restores, child processes, skills,    *)
(* provisioning, the Pro license, accounts, setups, the inventory of sites *)
(* and their connections (pushes: PushExecutionProofs); then of all of     *)
(* them together (MCDashboard).  The parts share no state.                 *)
(***************************************************************************)
EXTENDS MCDashboard, PushExecutionProofs, FiniteSetTheorems, SequenceTheorems,
        WellFoundedInduction, TLAPS

-----------------------------------------------------------------------------
(* Numbers and sequences.                                                  *)

(* A set of numbers that is not empty has a least one.                     *)
LEMMA FirstOf ==
  ASSUME NEW T, T \subseteq Nat, T # {}
  PROVE  \E x \in T : \A y \in T : ~(y < x)
<1>1. \E x \in T : \A y \in T : <<y, x>> \notin OpToRel(<, Nat)
  BY NatLessThanWellFounded, WFMin, Zenon
<1>. QED BY <1>1 DEF OpToRel

(* A sequence without its k-th element still has all the others.           *)
LEMMA RemoveAtFacts ==
  ASSUME NEW S, NEW s \in Seq(S), NEW k \in 1..Len(s)
  PROVE  /\ RemoveAt(s, k) \in Seq(S) /\ Len(RemoveAt(s, k)) = Len(s) - 1
         /\ \A j \in 1..Len(s) : j # k => s[j] \in Range(RemoveAt(s, k))
<1>. DEFINE a == SubSeq(s, 1, k - 1)
            b == SubSeq(s, k + 1, Len(s))
            c == a \o b
<1>0. Len(s) \in Nat /\ k \in Int /\ 1 <= k /\ k <= Len(s) /\ \A i \in 1..Len(s) : s[i] \in S
  BY LenProperties, ElementOfSeq
<1>1. /\ a \in Seq(S) /\ Len(a) = k - 1 /\ \A i \in 1..(k - 1) : a[i] = s[i]
  <2>1. k - 1 \in Int /\ \A i \in 1..(k - 1) : s[i] \in S
    BY <1>0
  <2>. HIDE DEF a
  <2>2. /\ a \in Seq(S) /\ Len(a) = IF 1 <= k - 1 THEN (k - 1) - 1 + 1 ELSE 0
        /\ \A i \in 1..((k - 1) - 1 + 1) : a[i] = s[1 + i - 1]
    BY <2>1, SubSeqProperties DEF a
  <2>. QED BY <1>0, <2>2
<1>2. /\ b \in Seq(S) /\ Len(b) = Len(s) - k /\ \A i \in 1..(Len(s) - k) : b[i] = s[k + i]
  <2>1. k + 1 \in Int /\ \A i \in (k + 1)..Len(s) : s[i] \in S
    BY <1>0
  <2>. HIDE DEF b
  <2>2. /\ b \in Seq(S) /\ Len(b) = IF k + 1 <= Len(s) THEN Len(s) - (k + 1) + 1 ELSE 0
        /\ \A i \in 1..(Len(s) - (k + 1) + 1) : b[i] = s[k + 1 + i - 1]
    BY <1>0, <2>1, SubSeqProperties DEF b
  <2>. QED BY <1>0, <2>2
<1>. HIDE DEF a, b
<1>3. /\ c \in Seq(S) /\ Len(c) = Len(a) + Len(b)
      /\ \A i \in 1..(Len(a) + Len(b)) : c[i] = IF i <= Len(a) THEN a[i] ELSE b[i - Len(a)]
  BY <1>1, <1>2, ConcatProperties
<1>. HIDE DEF c
<1>4. Len(c) = Len(s) - 1 /\ DOMAIN c = 1..(Len(s) - 1)
  <2>1. Len(c) = Len(s) - 1
    BY <1>0, <1>1, <1>2, <1>3
  <2>. QED BY <1>3, <2>1, LenProperties
<1>5. ASSUME NEW j \in 1..Len(s), j # k PROVE \E i \in DOMAIN c : c[i] = s[j]
  <2>1. CASE j < k
    <3>1. j \in 1..(Len(s) - 1) /\ j \in 1..(Len(a) + Len(b)) /\ j <= Len(a) /\ j \in 1..(k - 1)
      BY <1>0, <1>1, <1>2, <2>1
    <3>. QED BY <1>1, <1>3, <1>4, <3>1
  <2>2. CASE j > k
    <3>1. /\ j - 1 \in 1..(Len(s) - 1) /\ j - 1 \in 1..(Len(a) + Len(b)) /\ ~(j - 1 <= Len(a))
          /\ (j - 1) - Len(a) = j - k /\ j - k \in 1..(Len(s) - k) /\ k + (j - k) = j
      BY <1>0, <1>1, <1>2, <2>2
    <3>2. c[j - 1] = b[j - k] /\ b[j - k] = s[j]
      BY <1>2, <1>3, <3>1
    <3>. QED BY <1>4, <3>1, <3>2
  <2>. QED BY <1>0, <1>5, <2>1, <2>2
<1>6. RemoveAt(s, k) = c
  BY DEF RemoveAt, a, b, c
<1>7. \A j \in 1..Len(s) : j # k => s[j] \in Range(c)
  BY <1>5 DEF Range
<1>. QED BY <1>3, <1>4, <1>6, <1>7

(* A sequence with one more element has its elements and that one.          *)
LEMMA AppendRange ==
  ASSUME NEW S, NEW s \in Seq(S), NEW e \in S
  PROVE  Range(Append(s, e)) = Range(s) \cup {e}
<1>1. /\ Len(s) \in Nat /\ DOMAIN s = 1..Len(s) /\ DOMAIN Append(s, e) = 1..(Len(s) + 1)
      /\ \A i \in 1..Len(s) : Append(s, e)[i] = s[i]
      /\ Append(s, e)[Len(s) + 1] = e
  BY AppendProperties, LenProperties
<1>2. Range(Append(s, e)) \subseteq Range(s) \cup {e}
  BY <1>1 DEF Range
<1>3. Range(s) \subseteq Range(Append(s, e)) /\ e \in Range(Append(s, e))
  BY <1>1 DEF Range
<1>. QED BY <1>2, <1>3

-----------------------------------------------------------------------------
(* The MCP server.                                                         *)

(* A line of the client is a record; the set is a union of three.          *)
LEMMA LineFields ==
  ASSUME NEW l \in Lines
  PROVE  /\ l.method = "plan" => l.kind \in PlanKinds
         /\ l.method = "apply" => l.kind \in PlanKinds /\ l.id \in PlanIds
BY DEF Lines, PlanKinds

(* The line being handled stays the first one while others arrive, and the *)
(* others stay lines when it is done with.                                 *)
LEMMA LineStays ==
  ASSUME inbox \in Seq(Lines), NEW l \in Lines
  PROVE  /\ Append(inbox, l) \in Seq(Lines) /\ Append(inbox, l) # << >>
         /\ Len(Append(inbox, l)) = Len(inbox) + 1
         /\ inbox # << >> => Head(Append(inbox, l)) = Head(inbox)
BY AppendProperties, EmptySeq, LenProperties

(* The other lines are as they were.                                        *)
LEMMA OtherLinesStay ==
  ASSUME inbox \in Seq(Lines), inbox # << >>
  PROVE  /\ Line \in Lines
         /\ Tail(inbox) \in Seq(Lines) /\ Len(Tail(inbox)) = Len(inbox) - 1
         /\ Len(inbox) \in Nat
BY HeadTailProperties, LenProperties DEF Line

(* The server starts as the invariant says.                                 *)
LEMMA McpInit == MInit => McpInv
<1>. SUFFICES ASSUME MInit PROVE McpInv
  OBVIOUS
<1>. USE McpAssumption DEF MInit
<1>1. MTypeOK
  <2>1. \A k \in PlanKinds : {i \in DOMAIN plans : plans[i].kind = k} = {}
    OBVIOUS
  <2>2. \A k \in PlanKinds : Cardinality({i \in DOMAIN plans : plans[i].kind = k}) <= MaxPlans
    BY <2>1, FS_EmptySet
  <2>3. Len(inbox) = 0 /\ DOMAIN inbox = {} /\ DOMAIN plans = {}
    OBVIOUS
  <2>4. Len(inbox) <= MaxQueue /\ \A i \in DOMAIN inbox : inbox[i] \in Lines
    BY <2>3
  <2>5. DOMAIN plans \subseteq issued /\ issued \subseteq PlanIds
    BY <2>3
  <2>6. /\ route \in 0..MaxRouteEdits /\ mcpClock \in 0..MaxMcpTime
        /\ answers + Len(inbox) = sent
    BY <2>3
  <2>7. /\ doing \in {"none", "preparing", "waiting", "comparing", "executing"}
        /\ lockHolder \in {"nobody", "server", "dashboard"}
        /\ initialized \in BOOLEAN /\ mcpReady \in BOOLEAN /\ inputClosed \in BOOLEAN
    OBVIOUS
  <2>. QED BY ONLY <2>2, <2>4, <2>5, <2>6, <2>7 DEF MTypeOK
<1>2. McpPieces
  BY EmptySeq DEF McpPieces, Applying
<1>. QED BY <1>1, <1>2 DEF McpInv, PlanInHand, UsedUp, ReviewedOnce, Applying

(* What is done with is counted, also where Prepared and Executes do more. *)
LEMMA DoneCounted ==
  ASSUME McpInv, inbox # << >>, Done, UNCHANGED sent
  PROVE  /\ Len(inbox') <= MaxQueue /\ \A i \in DOMAIN inbox' : inbox'[i] \in Lines
         /\ inbox' \in Seq(Lines) /\ answers' + Len(inbox') = sent'
         /\ answers' \in Nat /\ sent' \in Nat /\ doing' = "none"
<1>1. /\ inbox \in Seq(Lines) /\ answers \in Nat /\ sent \in Nat
      /\ answers + Len(inbox) = sent /\ Len(inbox) <= MaxQueue /\ MaxQueue \in Nat
  BY McpAssumption DEF McpInv, McpPieces, MTypeOK, McpAssumption
<1>2. /\ Tail(inbox) \in Seq(Lines) /\ Len(Tail(inbox)) = Len(inbox) - 1
      /\ Len(inbox) \in Nat
  BY <1>1, OtherLinesStay
<1>3. \A i \in DOMAIN Tail(inbox) : Tail(inbox)[i] \in Lines
  BY <1>2, ElementOfSeq, LenProperties
<1>. QED BY <1>1, <1>2, <1>3 DEF Done

(* The set of pending plans of a kind is finite, so that it can be counted. *)
LEMMA PlansCounted ==
  ASSUME McpInv, NEW S, S \subseteq DOMAIN plans
  PROVE  IsFiniteSet(S) /\ Cardinality(S) \in Nat
<1>1. S \subseteq PlanIds
  BY DEF McpInv, MTypeOK
<1>. QED BY <1>1, FS_Subset, FS_CardinalityType, McpAssumption DEF McpAssumption

(* A step beside the handling: the line, the plans and what was executed   *)
(* stay, and nobody touches the route while the server holds its lock.     *)
LEMMA McpBeside ==
  ASSUME McpInv,
         UNCHANGED << inbox, doing, mcpSession, takenPlan, sent, answers, executed >>,
         route' \in 0..MaxRouteEdits, mcpClock' \in 0..MaxMcpTime, inputClosed' \in BOOLEAN,
         lockHolder' \in {"nobody", "server", "dashboard"},
         lockHolder' = "dashboard" => route' < MaxRouteEdits,
         lockHolder = "server" => lockHolder' = "server" /\ route' = route
  PROVE  McpInv'
<1>1. MTypeOK'
  BY DEF McpInv, MTypeOK, mcpSession
<1>2. McpPieces' /\ UsedUp' /\ ReviewedOnce'
  BY DEF McpInv, McpPieces, UsedUp, ReviewedOnce, Applying, Line, mcpSession
<1>3. PlanInHand'
  BY DEF McpInv, PlanInHand, Applying, Line, mcpSession
<1>. QED BY <1>1, <1>2, <1>3 DEF McpInv

(* A step that is done with the line: it may drop plans, it executes none. *)
LEMMA McpDone ==
  ASSUME McpInv, inbox # << >>, Done, UNCHANGED << issued, outside, executed >>,
         DOMAIN plans' \subseteq DOMAIN plans,
         \A i \in DOMAIN plans' : plans'[i] = plans[i],
         lockHolder' \in {lockHolder, "nobody", "server"},
         initialized' \in BOOLEAN, mcpReady' \in BOOLEAN
  PROVE  McpInv'
<1>1. /\ Len(inbox') <= MaxQueue /\ \A i \in DOMAIN inbox' : inbox'[i] \in Lines
      /\ inbox' \in Seq(Lines) /\ answers' + Len(inbox') = sent'
      /\ answers' \in Nat /\ sent' \in Nat /\ doing' = "none"
  BY DoneCounted DEF outside
<1>3. MTypeOK'
  <2>3. ASSUME NEW k \in PlanKinds
        PROVE  Cardinality({i \in DOMAIN plans' : plans'[i].kind = k}) <= MaxPlans
    <3>. DEFINE old == {i \in DOMAIN plans : plans[i].kind = k}
    <3>. DEFINE new == {i \in DOMAIN plans' : plans'[i].kind = k}
    <3>1. new \subseteq old /\ old \subseteq DOMAIN plans
      OBVIOUS
    <3>2. Cardinality(old) <= MaxPlans
      BY DEF McpInv, MTypeOK
    <3>. HIDE DEF old, new
    <3>3. IsFiniteSet(old) /\ Cardinality(old) \in Nat /\ Cardinality(new) \in Nat
      BY <3>1, PlansCounted
    <3>4. Cardinality(new) <= Cardinality(old)
      BY <3>1, <3>3, FS_Subset
    <3>5. Cardinality(new) <= MaxPlans
      BY <3>2, <3>3, <3>4, McpAssumption DEF McpAssumption
    <3>. QED BY <3>5 DEF new
  <2>4. /\ DOMAIN plans' \subseteq issued' /\ issued' \subseteq PlanIds
        /\ route' \in 0..MaxRouteEdits /\ mcpClock' \in 0..MaxMcpTime
        /\ inputClosed' \in BOOLEAN
    BY DEF McpInv, MTypeOK, outside
  <2>5. lockHolder' \in {"nobody", "server", "dashboard"}
    BY DEF McpInv, MTypeOK
  <2>6. doing' \in {"none", "preparing", "waiting", "comparing", "executing"}
    BY DEF Done
  <2>. QED BY <1>1, <2>3, <2>4, <2>5, <2>6 DEF MTypeOK
<1>4. McpPieces'
  BY <1>1 DEF McpInv, McpPieces, outside, Applying
<1>5. PlanInHand'
  BY DEF PlanInHand, Done, Applying
<1>6. UsedUp' /\ ReviewedOnce'
  BY DEF McpInv, UsedUp, ReviewedOnce, Done, Applying
<1>. QED BY <1>3, <1>4, <1>5, <1>6 DEF McpInv

(* A line more: the one being handled stays the first.                     *)
LEMMA McpLine ==
  ASSUME McpInv, NEW l \in Lines, SendLine(l)
  PROVE  McpInv'
<1>1. inbox \in Seq(Lines) /\ Len(inbox) \in Nat
  BY LenProperties DEF McpInv, McpPieces
<1>2. /\ inbox' \in Seq(Lines) /\ inbox' # << >> /\ Len(inbox') = Len(inbox) + 1
      /\ inbox # << >> => Line' = Line
  BY <1>1, LineStays DEF SendLine, Line
<1>3. MTypeOK'
  <2>1. \A i \in DOMAIN inbox' : inbox'[i] \in Lines
    BY <1>2, ElementOfSeq, LenProperties
  <2>2. Len(inbox') <= MaxQueue
    BY <1>1, <1>2, McpAssumption DEF SendLine, McpAssumption
  <2>3. answers' + Len(inbox') = sent'
    BY <1>1, <1>2 DEF SendLine, McpInv, MTypeOK, McpPieces
  <2>. QED BY <2>1, <2>2, <2>3 DEF SendLine, McpInv, MTypeOK, mcpSession
<1>4. McpPieces'
  BY <1>2 DEF McpInv, McpPieces, SendLine, Applying, mcpSession
<1>5. PlanInHand'
  BY <1>2 DEF McpInv, McpPieces, PlanInHand, SendLine, Applying, mcpSession
<1>6. UsedUp'
  BY <1>2 DEF McpInv, McpPieces, UsedUp, SendLine, Applying, mcpSession
<1>7. ReviewedOnce'
  BY DEF McpInv, ReviewedOnce, SendLine
<1>. QED BY <1>3, <1>4, <1>5, <1>6, <1>7 DEF McpInv

(* A step on with the line that is not the last: inbox and counts stay, no *)
(* plan is made and none executed.                                         *)
LEMMA McpOn ==
  ASSUME McpInv, UNCHANGED << inbox, issued, outside, answers, executed, initialized, mcpReady >>,
         DOMAIN plans' \subseteq DOMAIN plans,
         \A i \in DOMAIN plans' : plans'[i] = plans[i],
         doing' \in {"preparing", "waiting", "comparing", "executing"},
         lockHolder' \in {lockHolder, "nobody", "server"}, inbox # << >>,
         doing' = "preparing" => Line.method = "plan" /\ takenPlan'.route \in Nat,
         PlanInHand',
         Applying' /\ ~Applying => Line.id \in DOMAIN plans
  PROVE  McpInv'
<1>1. MTypeOK'
  <2>1. ASSUME NEW k \in PlanKinds
        PROVE  Cardinality({i \in DOMAIN plans' : plans'[i].kind = k}) <= MaxPlans
    <3>. DEFINE old == {i \in DOMAIN plans : plans[i].kind = k}
    <3>. DEFINE new == {i \in DOMAIN plans' : plans'[i].kind = k}
    <3>1. new \subseteq old /\ old \subseteq DOMAIN plans
      OBVIOUS
    <3>2. Cardinality(old) <= MaxPlans
      BY DEF McpInv, MTypeOK
    <3>. HIDE DEF old, new
    <3>3. IsFiniteSet(old) /\ Cardinality(old) \in Nat /\ Cardinality(new) \in Nat
      BY <3>1, PlansCounted
    <3>4. Cardinality(new) <= Cardinality(old)
      BY <3>1, <3>3, FS_Subset
    <3>5. Cardinality(new) <= MaxPlans
      BY <3>2, <3>3, <3>4, McpAssumption DEF McpAssumption
    <3>. QED BY <3>5 DEF new
  <2>2. /\ doing' \in {"none", "preparing", "waiting", "comparing", "executing"}
        /\ DOMAIN plans' \subseteq issued'
        /\ lockHolder' \in {"nobody", "server", "dashboard"}
    BY DEF McpInv, MTypeOK
  <2>. QED BY <2>1, <2>2 DEF McpInv, MTypeOK, outside
<1>2. McpPieces'
  BY DEF McpInv, McpPieces, Applying, Line, outside
<1>3. UsedUp'
  BY DEF McpInv, UsedUp, Applying, Line
<1>4. ReviewedOnce'
  BY DEF McpInv, ReviewedOnce
<1>. QED BY <1>1, <1>2, <1>3, <1>4 DEF McpInv

(* A plan is kept under an id of its own, if there is room among those of  *)
(* its kind that have not expired.                                         *)
LEMMA McpPrepared ==
  ASSUME McpInv, NEW id \in PlanIds, Prepared(id)
  PROVE  McpInv'
<1>. DEFINE held == Live(Line.kind)
            room == HasRoom(held)
            now  == IF room THEN held \cup {id} ELSE held
            made == [kind |-> Line.kind, route |-> takenPlan.route,
                     expires |-> mcpClock + PlanTtl, begun |-> mcpClock]
<1>1. /\ plans' = [i \in now |-> IF i = id THEN made ELSE plans[i]]
      /\ issued' = IF room THEN issued \cup {id} ELSE issued
      /\ Done /\ doing = "preparing" /\ id \in PlanIds \ issued
      /\ UNCHANGED << initialized, mcpReady, outside, lockHolder, executed >>
  BY DEF Prepared
<1>2. inbox \in Seq(Lines) /\ inbox # << >> /\ Line.kind \in PlanKinds
  <2>1. inbox \in Seq(Lines) /\ inbox # << >> /\ Line.method = "plan"
    BY <1>1 DEF McpInv, McpPieces
  <2>. QED BY <2>1, OtherLinesStay, LineFields
<1>3. held \subseteq DOMAIN plans /\ id \notin DOMAIN plans /\ DOMAIN plans \subseteq PlanIds
  BY <1>1 DEF Live, McpInv, MTypeOK
<1>4. made \in PlanRecords /\ mcpClock \in Nat
  BY <1>1, <1>2, McpAssumption DEF McpInv, McpPieces, MTypeOK, PlanRecords, McpAssumption
<1>. HIDE DEF made, held, room
<1>5. /\ DOMAIN plans' = now
      /\ \A i \in now : plans'[i] = IF i = id THEN made ELSE plans[i]
  BY <1>1
<1>6. made.kind = Line.kind
  BY DEF made
<1>7. ASSUME NEW k \in PlanKinds
      PROVE  Cardinality({i \in DOMAIN plans' : plans'[i].kind = k}) <= MaxPlans
  <2>. DEFINE old == {i \in DOMAIN plans : plans[i].kind = k}
              new == {i \in DOMAIN plans' : plans'[i].kind = k}
              stay == {i \in held : plans[i].kind = k}
  <2>1. Cardinality(old) <= MaxPlans /\ MaxPlans \in Nat
    BY McpAssumption DEF McpInv, MTypeOK, McpAssumption
  <2>2. stay \subseteq old /\ old \subseteq DOMAIN plans
    BY <1>3
  <2>3. /\ IsFiniteSet(old) /\ Cardinality(old) \in Nat
        /\ IsFiniteSet(stay) /\ Cardinality(stay) \in Nat
    <3>. HIDE DEF old, stay
    <3>. QED BY <2>2, PlansCounted
  <2>4. Cardinality(stay) <= Cardinality(old)
    <3>. HIDE DEF old, stay
    <3>. QED BY <2>2, <2>3, FS_Subset
  <2>5. CASE room /\ k = Line.kind
    <3>1. new = stay \cup {id} /\ id \notin stay
      BY <1>3, <1>5, <1>6, <2>5
    <3>2. Cardinality(stay) < MaxPlans
      BY <2>5 DEF room, HasRoom
    <3>. HIDE DEF old, stay, new
    <3>3. Cardinality(new) = Cardinality(stay) + 1
      BY <3>1, <2>3, FS_AddElement
    <3>4. Cardinality(new) <= MaxPlans
      BY <3>2, <3>3, <2>1, <2>3
    <3>. QED BY <3>4 DEF new
  <2>6. CASE ~(room /\ k = Line.kind)
    <3>1. new = stay
      BY <1>3, <1>5, <1>6, <2>6
    <3>. HIDE DEF old, stay, new
    <3>2. Cardinality(new) <= MaxPlans
      BY <3>1, <2>1, <2>3, <2>4
    <3>. QED BY <3>2 DEF new
  <2>. QED BY <2>5, <2>6
<1>8. /\ Len(inbox') <= MaxQueue /\ \A i \in DOMAIN inbox' : inbox'[i] \in Lines
      /\ inbox' \in Seq(Lines) /\ answers' + Len(inbox') = sent'
      /\ answers' \in Nat /\ sent' \in Nat /\ doing' = "none"
  BY <1>1, <1>2, DoneCounted DEF outside
<1>9. MTypeOK'
  <2>3. DOMAIN plans' \subseteq issued' /\ issued' \subseteq PlanIds
    BY <1>1, <1>3, <1>5 DEF McpInv, MTypeOK
  <2>. QED BY <1>1, <1>7, <1>8, <2>3 DEF McpInv, MTypeOK, outside
<1>10. McpPieces'
  <2>1. \A i \in DOMAIN plans' : plans'[i] \in PlanRecords
    BY <1>3, <1>4, <1>5 DEF McpInv, McpPieces
  <2>. QED BY <1>1, <1>8, <2>1 DEF McpInv, McpPieces, outside, Applying
<1>11. PlanInHand'
  BY <1>1 DEF PlanInHand, Done, Applying
<1>12. UsedUp'
  BY <1>1, <1>3, <1>5 DEF McpInv, UsedUp, Done, Applying
<1>13. ReviewedOnce'
  BY <1>1 DEF McpInv, ReviewedOnce
<1>. QED BY <1>9, <1>10, <1>11, <1>12, <1>13 DEF McpInv

(* The plan in hand is executed: its id is used up and no other's.         *)
LEMMA McpExecutes ==
  ASSUME McpInv, Executes
  PROVE  McpInv'
<1>. DEFINE new == [id |-> Line.id, kind |-> Line.kind, plan |-> takenPlan, route |-> route]
<1>1. Applying /\ inbox \in Seq(Lines) /\ inbox # << >>
  BY DEF Executes, Applying, McpInv, McpPieces
<1>2. /\ Line.method = "apply" /\ Line.id \in issued \ DOMAIN plans
      /\ takenPlan \in PlanRecords /\ takenPlan.kind = Line.kind
      /\ takenPlan.begun < takenPlan.expires
      /\ Line.kind = "push" => takenPlan.route = route
  BY <1>1 DEF McpInv, PlanInHand, Executes
<1>3. Line.kind \in PlanKinds /\ Line.id \in PlanIds
  BY <1>1, <1>2, OtherLinesStay, LineFields
<1>4. new \in ExecutedRecords
  BY <1>2, <1>3, McpAssumption DEF ExecutedRecords, McpInv, MTypeOK, McpAssumption
<1>5. executed' = Append(executed, new) /\ executed \in Seq(ExecutedRecords)
  BY DEF Executes, McpInv, McpPieces
<1>. HIDE DEF new
<1>6. /\ executed' \in Seq(ExecutedRecords) /\ Len(executed) \in Nat
      /\ DOMAIN executed' = 1..(Len(executed) + 1) /\ DOMAIN executed = 1..Len(executed)
      /\ \A n \in 1..Len(executed) : executed'[n] = executed[n]
      /\ executed'[Len(executed) + 1] = new
  BY <1>4, <1>5, AppendProperties, LenProperties
<1>7. /\ Len(inbox') <= MaxQueue /\ \A i \in DOMAIN inbox' : inbox'[i] \in Lines
      /\ inbox' \in Seq(Lines) /\ answers' + Len(inbox') = sent'
      /\ answers' \in Nat /\ sent' \in Nat /\ doing' = "none"
  BY <1>1, DoneCounted DEF Executes, outside
<1>8. MTypeOK'
  BY <1>7 DEF Executes, McpInv, MTypeOK, outside, mcpSession
<1>9. McpPieces'
  BY <1>6, <1>7 DEF Executes, McpInv, McpPieces, Applying, mcpSession, outside
<1>10. PlanInHand'
  BY DEF Executes, PlanInHand, Done, Applying
<1>11. new.id = Line.id /\ new.kind = Line.kind /\ new.plan = takenPlan /\ new.route = route
  BY DEF new
<1>12. UsedUp'
  BY <1>2, <1>6, <1>11 DEF McpInv, UsedUp, Executes, Done, Applying, mcpSession
<1>13. \A n \in DOMAIN executed : executed[n].id # Line.id
  BY <1>1 DEF McpInv, UsedUp
<1>14. ReviewedOnce'
  <2>1. \A i, j \in DOMAIN executed' : executed'[i].id = executed'[j].id => i = j
    BY <1>6, <1>11, <1>13 DEF McpInv, ReviewedOnce
  <2>2. ASSUME NEW i \in DOMAIN executed'
        PROVE  /\ executed'[i].plan.kind = executed'[i].kind
               /\ executed'[i].plan.begun < executed'[i].plan.expires
               /\ executed'[i].kind = "push" => executed'[i].plan.route = executed'[i].route
    BY <1>2, <1>6, <1>11 DEF McpInv, ReviewedOnce
  <2>. QED BY <2>1, <2>2 DEF ReviewedOnce
<1>. QED BY <1>8, <1>9, <1>10, <1>12, <1>14 DEF McpInv

(* Every step of the session, of the client and of the dashboard beside it *)
(* preserves the invariant.                                                *)
THEOREM McpStep == McpInv /\ [MNext]_mVars => McpInv'
<1>. SUFFICES ASSUME McpInv, [MNext]_mVars PROVE McpInv'
  OBVIOUS
<1>0. /\ doing = "preparing" \/ Applying => inbox # << >>
      /\ inbox \in Seq(Lines) /\ (lockHolder = "dashboard" => route < MaxRouteEdits)
      /\ route \in 0..MaxRouteEdits /\ mcpClock \in 0..MaxMcpTime /\ MaxMcpTime \in Nat
      /\ MaxRouteEdits \in Nat /\ inputClosed \in BOOLEAN
      /\ lockHolder \in {"nobody", "server", "dashboard"}
      /\ initialized \in BOOLEAN /\ mcpReady \in BOOLEAN
  BY McpAssumption DEF McpInv, MTypeOK, McpPieces, McpAssumption
<1>1. CASE UNCHANGED mVars
  BY <1>0, <1>1, McpBeside DEF mVars, mcpSession
<1>2. ASSUME NEW l \in Lines, SendLine(l) PROVE McpInv'
  BY <1>2, McpLine
<1>3. CASE CloseInput
  BY <1>0, <1>3, McpBeside DEF CloseInput
<1>4. CASE DashboardTakes
  BY <1>0, <1>4, McpBeside DEF DashboardTakes, outside
<1>5. CASE DashboardSaves
  BY <1>0, <1>5, McpBeside DEF DashboardSaves
<1>6. CASE McpTick
  BY <1>0, <1>6, McpBeside DEF McpTick
<1>7. CASE Handshake
  BY <1>0, <1>7, McpDone DEF Handshake, Begins
<1>8. CASE AnswersPlain
  BY <1>0, <1>8, McpDone DEF AnswersPlain, Begins, mcpSession
<1>9. CASE Prepares
  <2>1. PlanInHand'
    BY <1>9 DEF Prepares, PlanInHand, Applying
  <2>2. takenPlan'.route \in Nat
    BY <1>0, <1>9 DEF Prepares
  <2>3. ~Applying'
    BY <1>9 DEF Prepares, Applying
  <2>. QED BY <1>0, <1>9, <2>1, <2>2, <2>3, McpOn DEF Prepares, Begins, mcpSession
<1>10. CASE PrepareFails
  BY <1>0, <1>10, McpDone DEF PrepareFails, mcpSession
<1>11. ASSUME NEW id \in PlanIds, Prepared(id) PROVE McpInv'
  BY <1>11, McpPrepared
<1>12. CASE ApplyRuns
  <2>. DEFINE known == Line.id \in DOMAIN plans /\ plans[Line.id].kind = Line.kind
  <2>0. /\ inbox # << >> /\ doing = "none" /\ Line.method = "apply" /\ ~Applying
        /\ UNCHANGED << initialized, mcpReady, issued, outside, lockHolder, executed >>
    BY <1>12 DEF ApplyRuns, Begins, Applying
  <2>1. CASE known /\ InTime(plans[Line.id])
    <3>1. /\ plans' = Takes(Line.id) /\ takenPlan' = [plans[Line.id] EXCEPT !.begun = mcpClock]
          /\ doing' = IF Line.kind = "push" THEN "waiting" ELSE "executing"
          /\ UNCHANGED << inbox, answers >>
      BY <1>12, <2>1 DEF ApplyRuns
    <3>2. /\ DOMAIN plans' = DOMAIN plans \ {Line.id}
          /\ \A i \in DOMAIN plans' : plans'[i] = plans[i]
      BY <3>1 DEF Takes
    <3>3. plans[Line.id] \in PlanRecords /\ Line.id \in issued /\ Line.id \in DOMAIN plans
      BY <2>1 DEF McpInv, McpPieces, MTypeOK
    <3>4. /\ takenPlan' \in PlanRecords /\ takenPlan'.kind = Line.kind
          /\ takenPlan'.begun = mcpClock /\ takenPlan'.expires > mcpClock
      BY <1>0, <2>1, <3>1, <3>3 DEF PlanRecords, InTime
    <3>5. mcpClock \in Nat /\ takenPlan'.expires \in Nat
      BY <1>0, <3>4 DEF PlanRecords
    <3>6. Line' = Line
      BY <3>1 DEF Line
    <3>7. PlanInHand'
      BY <2>0, <3>1, <3>2, <3>3, <3>4, <3>5, <3>6 DEF PlanInHand, Applying
    <3>. QED BY <1>0, <2>0, <3>1, <3>2, <3>3, <3>7, McpOn
  <2>2. CASE ~(known /\ InTime(plans[Line.id]))
    <3>1. /\ plans' = (IF known THEN Takes(Line.id) ELSE plans) /\ Done /\ UNCHANGED takenPlan
      BY <1>12, <2>2 DEF ApplyRuns
    <3>2. /\ DOMAIN plans' \subseteq DOMAIN plans
          /\ \A i \in DOMAIN plans' : plans'[i] = plans[i]
      BY <3>1 DEF Takes
    <3>. QED BY <1>0, <2>0, <3>1, <3>2, McpDone
  <2>. QED BY <2>1, <2>2
<1>13. CASE LockTaken
  <2>0. Applying /\ doing = "waiting" /\ lockHolder = "nobody"
    BY <1>13 DEF LockTaken, Applying
  <2>1. CASE InTime(takenPlan)
    <3>1. /\ doing' = "comparing" /\ lockHolder' = "server"
          /\ takenPlan' = [takenPlan EXCEPT !.begun = mcpClock]
          /\ UNCHANGED << inbox, answers, mcpSession, outside, executed >>
      BY <1>13, <2>1 DEF LockTaken
    <3>2. /\ takenPlan \in PlanRecords /\ takenPlan.kind = Line.kind
          /\ Line.method = "apply" /\ Line.id \in issued \ DOMAIN plans /\ Line.kind = "push"
      BY <2>0 DEF McpInv, PlanInHand
    <3>3. /\ takenPlan' \in PlanRecords /\ takenPlan'.kind = Line.kind
          /\ takenPlan'.begun = mcpClock /\ takenPlan'.expires > mcpClock
      BY <1>0, <2>1, <3>1, <3>2 DEF PlanRecords, InTime
    <3>4. mcpClock \in Nat /\ takenPlan'.expires \in Nat
      BY <1>0, <3>3 DEF PlanRecords
    <3>5. PlanInHand'
      BY <3>1, <3>2, <3>3, <3>4 DEF PlanInHand, Applying, Line, mcpSession
    <3>. QED BY <1>0, <2>0, <3>1, <3>5, McpOn DEF mcpSession
  <2>2. CASE ~InTime(takenPlan)
    BY <1>0, <1>13, <2>0, <2>2, McpDone DEF LockTaken, mcpSession
  <2>. QED BY <2>1, <2>2
<1>14. CASE LockTimesOut
  BY <1>0, <1>14, McpDone DEF LockTimesOut, mcpSession, Applying
<1>15. CASE Compares
  <2>0. Applying /\ doing = "comparing"
    BY <1>15 DEF Compares, Applying
  <2>1. CASE SameRoute
    <3>1. /\ doing' = "executing"
          /\ UNCHANGED << inbox, answers, takenPlan, lockHolder, mcpSession, outside, executed >>
      BY <1>15, <2>1 DEF Compares
    <3>2. PlanInHand'
      BY <2>0, <2>1, <3>1 DEF McpInv, PlanInHand, Applying, Line, SameRoute, mcpSession, outside
    <3>. QED BY <1>0, <2>0, <3>1, <3>2, McpOn DEF mcpSession
  <2>2. CASE ~SameRoute
    BY <1>0, <1>15, <2>0, <2>2, McpDone DEF Compares, mcpSession
  <2>. QED BY <2>1, <2>2
<1>16. CASE Executes
  BY <1>16, McpExecutes
<1>. QED BY <1>1, <1>2, <1>3, <1>4, <1>5, <1>6, <1>7, <1>8, <1>9, <1>10, <1>11, <1>12,
            <1>13, <1>14, <1>15, <1>16 DEF MNext, HandleStep

(* Whatever the client sends, and whenever the dashboard edits the route:  *)
(* a confirmation is good for one mutation, of the kind it was given for   *)
(* and begun in time, and a push runs on the route that was reviewed       *)
(* (confirmations of src/src/mcp/server.ts).                               *)
THEOREM ReviewedOnceHolds == MSpec => []ReviewedOnce
<1>1. McpInv => ReviewedOnce
  BY DEF McpInv
<1>. QED BY <1>1, McpInit, McpStep, PTL DEF MSpec

(* The pending plans keep to their limit, of each kind, and every line is  *)
(* counted once: answered or still in the queue.                           *)
THEOREM McpTypeCorrect == MSpec => []MTypeOK
<1>1. McpInv => MTypeOK
  BY DEF McpInv
<1>. QED BY <1>1, McpInit, McpStep, PTL DEF MSpec

-----------------------------------------------------------------------------
(* Restores from the dashboard.                                            *)

(* The service starts as the invariant says.                                *)
LEMMA RestoreStarts == RestoreInit => RestoreInv
BY EmptySeq, RestoreAssumption
   DEF RestoreInit, RestoreInv, RestoreTypeOK, StartedIsGone, SentByRun, HonestRestores,
       RunUnderWay, RestoreAssumption

(* The list makes room only by a job that is not running, and then has it. *)
LEMMA RoomIsMade ==
  ASSUME RestoreInv, ~(Len(restoreJobs) >= RestoreLimit /\ AllRunning)
  PROVE  /\ JobsKept \in Seq(RestoreIds) /\ Len(JobsKept) < RestoreLimit
         /\ \A j \in RestoreIds : InJobs(j) /\ jobStatus[j] = "running" => j \in Range(JobsKept)
<1>1. /\ restoreJobs \in Seq(RestoreIds) /\ Len(restoreJobs) <= RestoreLimit
      /\ Len(restoreJobs) \in Nat /\ RestoreLimit \in Nat
      /\ DOMAIN restoreJobs = 1..Len(restoreJobs)
  BY RestoreAssumption, LenProperties DEF RestoreInv, RestoreTypeOK, RestoreAssumption
<1>2. CASE ~(Len(restoreJobs) >= RestoreLimit)
  BY <1>1, <1>2 DEF JobsKept, InJobs
<1>3. CASE Len(restoreJobs) >= RestoreLimit
  <2>. DEFINE T == {k \in DOMAIN restoreJobs : jobStatus[restoreJobs[k]] # "running"}
  <2>1. T \subseteq Nat /\ T # {}
    BY <1>1, <1>3 DEF AllRunning
  <2>2. PICK x \in T : \A y \in T : ~(y < x)
    <3>. HIDE DEF T
    <3>. QED BY <2>1, FirstOf
  <2>3. \A j \in 1..(x - 1) : jobStatus[restoreJobs[j]] = "running"
    <3>1. \A j \in 1..(x - 1) : j \in DOMAIN restoreJobs /\ j < x
      BY <1>1, <2>2
    <3>. QED BY <2>2, <3>1
  <2>4. Oldest \in DOMAIN restoreJobs /\ jobStatus[restoreJobs[Oldest]] # "running"
    BY <2>2, <2>3 DEF Oldest
  <2>5. JobsKept = RemoveAt(restoreJobs, Oldest)
    BY <1>3 DEF JobsKept
  <2>6. /\ JobsKept \in Seq(RestoreIds) /\ Len(JobsKept) = Len(restoreJobs) - 1
        /\ \A j \in 1..Len(restoreJobs) : j # Oldest => restoreJobs[j] \in Range(JobsKept)
    <3>. HIDE DEF Oldest, JobsKept
    <3>. QED BY <1>1, <2>4, <2>5, RemoveAtFacts
  <2>7. \A j \in RestoreIds : InJobs(j) /\ jobStatus[j] = "running" => j \in Range(JobsKept)
    BY <1>1, <2>4, <2>6 DEF InJobs, Range
  <2>. QED BY <1>1, <2>6, <2>7
<1>. QED BY <1>2, <1>3

(* A confirmation moves on, or is dropped, before it is started: nothing   *)
(* that was sent or is shown changes.                                      *)
LEMMA RestorePlans ==
  ASSUME RestoreInv, UNCHANGED << runVars, effect, sends >>,
         destination' \in Destinations, reviewed' \in [RestoreIds -> Destinations],
         planning' \in [RestoreIds -> {"none", "asked", "open", "gone"}],
         expired' \subseteq RestoreIds, service' \in {"up", "closing", "down"},
         \A i \in RestoreIds : planning[i] = "gone" => planning'[i] = "gone"
  PROVE  RestoreInv'
<1>1. RestoreTypeOK'
  BY DEF RestoreInv, RestoreTypeOK, runVars
<1>2. StartedIsGone' /\ SentByRun'
  BY DEF RestoreInv, StartedIsGone, SentByRun, runVars
<1>3. HonestRestores'
  BY DEF RestoreInv, HonestRestores, RunUnderWay, InJobs, runVars
<1>. QED BY <1>1, <1>2, <1>3 DEF RestoreInv

(* A run goes on: what is sent is sent by one that then has gone past it,  *)
(* and what it leaves in the list is not a run under way.                  *)
LEMMA RestoreRuns ==
  ASSUME RestoreInv, NEW i \in RestoreIds, RunUnderWay(i),
         UNCHANGED << destination, planVars, restoreJobs, service >>,
         NEW at \in {"prepare", "send", "poll", "ended"}, Go(i, at),
         NEW status \in {"running", "completed", "needs_verification"},
         jobStatus' = [jobStatus EXCEPT ![i] = status],
         status = "running" <=> at # "ended",
         effect' \in [RestoreIds -> {"unsent", "running", "done", "failed"}],
         \A j \in RestoreIds \ {i} : effect'[j] = effect[j],
         status = "completed" => effect'[i] = "done",
         sends' \in [RestoreIds -> Nat],
         \A j \in RestoreIds \ {i} : sends'[j] = sends[j],
         sends'[i] <= IF at \in {"poll", "ended"} THEN 1 ELSE 0
  PROVE  RestoreInv'
<1>0. /\ restoreRun \in [RestoreIds -> {"none", "target", "prepare", "send", "poll", "ended"}]
      /\ jobStatus \in [RestoreIds -> {"none", "running", "completed", "needs_verification"}]
      /\ restoreRun' = [restoreRun EXCEPT ![i] = at] /\ restoreRun[i] # "none"
  BY DEF RestoreInv, RestoreTypeOK, Go, RunUnderWay
<1>1. RestoreTypeOK'
  BY <1>0 DEF RestoreInv, RestoreTypeOK, planVars
<1>2. StartedIsGone'
  BY <1>0 DEF RestoreInv, StartedIsGone, planVars
<1>3. SentByRun'
  BY <1>0 DEF RestoreInv, SentByRun
<1>4. HonestRestores'
  BY <1>0 DEF RestoreInv, HonestRestores, RunUnderWay, InJobs
<1>. QED BY <1>1, <1>2, <1>3, <1>4 DEF RestoreInv

(* A start uses the confirmation up; where it is not refused it adds a job *)
(* and drops only one that is not running.                                 *)
LEMMA RestoreStarted ==
  ASSUME RestoreInv, NEW i \in RestoreIds, StartRestore(i)
  PROVE  RestoreInv'
<1>1. /\ planning \in [RestoreIds -> {"none", "asked", "open", "gone"}] /\ planning[i] = "open"
      /\ planning' = [planning EXCEPT ![i] = "gone"]
      /\ UNCHANGED << destination, reviewed, expired, service, effect, sends >>
  BY DEF StartRestore, UseUp, Phase, RestoreInv, RestoreTypeOK
<1>2. restoreRun[i] = "none"
  BY <1>1 DEF RestoreInv, StartedIsGone
<1>3. CASE RestoreRefused(i)
  <2>1. UNCHANGED runVars
    BY <1>3 DEF StartRestore, runVars
  <2>. QED BY <1>1, <2>1, RestorePlans DEF RestoreInv, RestoreTypeOK
<1>4. CASE ~RestoreRefused(i)
  <2>1. /\ restoreJobs' = Append(JobsKept, i)
        /\ jobStatus' = [j \in RestoreIds |->
                           IF j = i THEN "running"
                           ELSE IF j \in Range(JobsKept) THEN jobStatus[j] ELSE "none"]
        /\ restoreRun' = [restoreRun EXCEPT ![i] = "target"]
    BY <1>4 DEF StartRestore
  <2>2. /\ EnvOf[i] \notin ActiveEnvs
        /\ ~(Len(restoreJobs) >= RestoreLimit /\ AllRunning)
    BY <1>4 DEF RestoreRefused
  <2>3. /\ JobsKept \in Seq(RestoreIds) /\ Len(JobsKept) < RestoreLimit
        /\ \A j \in RestoreIds : InJobs(j) /\ jobStatus[j] = "running" => j \in Range(JobsKept)
    BY <2>2, RoomIsMade
  <2>. HIDE DEF JobsKept
  <2>4. /\ restoreJobs' \in Seq(RestoreIds) /\ Len(restoreJobs') <= RestoreLimit
        /\ Range(restoreJobs') = Range(JobsKept) \cup {i}
    BY <2>1, <2>3, AppendProperties, AppendRange, LenProperties, RestoreAssumption
       DEF RestoreAssumption
  <2>5. RestoreTypeOK'
    BY <1>1, <2>1, <2>4 DEF RestoreInv, RestoreTypeOK
  <2>6. StartedIsGone' /\ SentByRun'
    BY <1>1, <1>2, <2>1 DEF RestoreInv, RestoreTypeOK, StartedIsGone, SentByRun
  <2>7. \A j \in RestoreIds : RunUnderWay(j)' => j = i \/ RunUnderWay(j)
    BY <2>1 DEF RunUnderWay, RestoreInv, RestoreTypeOK
  <2>8. ASSUME NEW j \in RestoreIds
        PROVE  /\ jobStatus'[j] = "completed" => effect'[j] = "done"
               /\ RunUnderWay(j)' => InJobs(j)' /\ jobStatus'[j] = "running"
    <3>1. jobStatus[j] = "completed" => effect[j] = "done"
      BY DEF RestoreInv, HonestRestores
    <3>2. RunUnderWay(j) => j \in Range(JobsKept) /\ jobStatus[j] = "running"
      BY <2>3 DEF RestoreInv, HonestRestores
    <3>. QED BY <1>1, <2>1, <2>4, <2>7, <3>1, <3>2 DEF InJobs
  <2>9. ASSUME NEW j \in RestoreIds, NEW k \in RestoreIds, j # k,
               RunUnderWay(j)', RunUnderWay(k)'
        PROVE  EnvOf[j] # EnvOf[k]
    <3>1. \A l \in RestoreIds : RunUnderWay(l) => EnvOf[l] # EnvOf[i]
      BY <2>2 DEF ActiveEnvs
    <3>. QED BY <2>7, <2>9, <3>1 DEF RestoreInv, HonestRestores
  <2>10. HonestRestores'
    BY <2>8, <2>9 DEF HonestRestores
  <2>. QED BY <2>5, <2>6, <2>10 DEF RestoreInv
<1>. QED BY <1>3, <1>4

(* What may happen to the confirmations, the runs, the list, the service   *)
(* and at the provider preserves the invariant.                            *)
THEOREM RestoreStepKeeps == RestoreInv /\ [RestoreNext]_restoreVars => RestoreInv'
<1>. SUFFICES ASSUME RestoreInv, [RestoreNext]_restoreVars PROVE RestoreInv'
  OBVIOUS
<1>0. /\ destination \in Destinations /\ reviewed \in [RestoreIds -> Destinations]
      /\ planning \in [RestoreIds -> {"none", "asked", "open", "gone"}]
      /\ expired \subseteq RestoreIds /\ service \in {"up", "closing", "down"}
      /\ effect \in [RestoreIds -> {"unsent", "running", "done", "failed"}]
      /\ sends \in [RestoreIds -> Nat]
      /\ restoreRun \in [RestoreIds -> {"none", "target", "prepare", "send", "poll", "ended"}]
      /\ jobStatus \in [RestoreIds -> {"none", "running", "completed", "needs_verification"}]
  BY DEF RestoreInv, RestoreTypeOK
<1>1. CASE UNCHANGED restoreVars
  BY <1>0, <1>1, RestorePlans DEF restoreVars, planVars
<1>2. CASE CloseRestores
  BY <1>0, <1>2, RestorePlans DEF CloseRestores
<1>3. CASE RestoresClosed
  BY <1>0, <1>3, RestorePlans DEF RestoresClosed, planVars
<1>4. CASE EditDestination
  BY <1>0, <1>4, RestorePlans DEF EditDestination, planVars
<1>5. ASSUME NEW i \in RestoreIds, RestoreStep(i) PROVE RestoreInv'
  <2>0. /\ RunUnderWay(i) => InJobs(i) /\ jobStatus[i] = "running"
        /\ sends[i] <= IF restoreRun[i] \in {"poll", "ended"} THEN 1 ELSE 0
        /\ sends[i] \in Nat
    BY <1>0 DEF RestoreInv, HonestRestores, SentByRun
  <2>1. CASE PlanRestore(i)
    BY <1>0, <2>1, RestorePlans DEF PlanRestore
  <2>2. CASE PlanOpens(i)
    BY <1>0, <2>2, RestorePlans DEF PlanOpens, Phase
  <2>3. CASE PlanFails(i)
    BY <1>0, <2>3, RestorePlans DEF PlanFails, Phase
  <2>4. CASE ConfirmationExpires(i)
    BY <1>0, <2>4, RestorePlans DEF ConfirmationExpires
  <2>5. CASE StartRestore(i)
    BY <2>5, RestoreStarted
  <2>6. CASE RunTarget(i)
    <3>1. /\ RunUnderWay(i) /\ jobStatus' = [jobStatus EXCEPT ![i] = "running"]
          /\ Go(i, "prepare") /\ sends'[i] <= 0
          /\ UNCHANGED << destination, planVars, restoreJobs, service, effect, sends >>
      BY <1>0, <2>0, <2>6 DEF RunTarget, RunUnderWay
    <3>. QED BY <1>0, <3>1, RestoreRuns
  <2>7. CASE Prepare(i)
    <3>1. /\ RunUnderWay(i) /\ jobStatus' = [jobStatus EXCEPT ![i] = "running"]
          /\ Go(i, "send") /\ sends'[i] <= 0
          /\ UNCHANGED << destination, planVars, restoreJobs, service, effect, sends >>
      BY <1>0, <2>0, <2>7 DEF Prepare, RunUnderWay
    <3>. QED BY <1>0, <3>1, RestoreRuns
  <2>8. CASE SendRestore(i)
    <3>1. /\ RunUnderWay(i) /\ InJobs(i) /\ jobStatus[i] = "running"
          /\ UNCHANGED << destination, planVars, restoreJobs, service >>
          /\ effect' = [effect EXCEPT ![i] = "running"] /\ sends' = [sends EXCEPT ![i] = @ + 1]
      BY <2>0, <2>8 DEF SendRestore, RunUnderWay
    <3>2. /\ sends' \in [RestoreIds -> Nat] /\ sends'[i] <= 1
          /\ \A j \in RestoreIds \ {i} : sends'[j] = sends[j]
      BY <1>0, <2>0, <2>8, <3>1 DEF SendRestore
    <3>3. /\ effect' \in [RestoreIds -> {"unsent", "running", "done", "failed"}]
          /\ \A j \in RestoreIds \ {i} : effect'[j] = effect[j]
      BY <1>0, <3>1
    <3>4. CASE Go(i, "poll") /\ UNCHANGED jobStatus
      <4>1. jobStatus' = [jobStatus EXCEPT ![i] = "running"]
        BY <1>0, <3>1, <3>4
      <4>. QED BY <3>1, <3>2, <3>3, <3>4, <4>1, RestoreRuns
    <3>5. CASE Go(i, "ended") /\ Settle(i, "needs_verification")
      <4>1. jobStatus' = [jobStatus EXCEPT ![i] = "needs_verification"]
        BY <3>1, <3>5 DEF Settle
      <4>. QED BY <3>1, <3>2, <3>3, <3>5, <4>1, RestoreRuns
    <3>. QED BY <2>8, <3>4, <3>5 DEF SendRestore
  <2>9. CASE RestoreCompletes(i)
    <3>1. /\ RunUnderWay(i) /\ InJobs(i) /\ Go(i, "ended") /\ Settle(i, "completed")
          /\ effect[i] = "done" /\ sends[i] <= 1
          /\ UNCHANGED << destination, planVars, restoreJobs, service, effect, sends >>
      BY <2>0, <2>9 DEF RestoreCompletes, RunUnderWay, Proven
    <3>2. jobStatus' = [jobStatus EXCEPT ![i] = "completed"]
      BY <3>1 DEF Settle
    <3>. QED BY <1>0, <3>1, <3>2, RestoreRuns
  <2>10. CASE RunFails(i)
    <3>1. /\ RunUnderWay(i) /\ InJobs(i) /\ Go(i, "ended") /\ Settle(i, "needs_verification")
          /\ sends[i] <= 1
          /\ UNCHANGED << destination, planVars, restoreJobs, service, effect, sends >>
      BY <2>0, <2>10 DEF RunFails
    <3>2. jobStatus' = [jobStatus EXCEPT ![i] = "needs_verification"]
      BY <3>1 DEF Settle
    <3>. QED BY <1>0, <3>1, <3>2, RestoreRuns
  <2>11. CASE ProviderEnds(i)
    <3>1. /\ effect' \in [RestoreIds -> {"unsent", "running", "done", "failed"}]
          /\ \A j \in RestoreIds : effect[j] = "done" => effect'[j] = "done"
          /\ UNCHANGED << destination, planVars, runVars, service, sends >>
      BY <1>0, <2>11 DEF ProviderEnds
    <3>2. RestoreTypeOK'
      BY <3>1 DEF RestoreInv, RestoreTypeOK, planVars, runVars
    <3>3. StartedIsGone' /\ SentByRun'
      BY <3>1 DEF RestoreInv, StartedIsGone, SentByRun, planVars, runVars
    <3>4. HonestRestores'
      BY <3>1 DEF RestoreInv, HonestRestores, RunUnderWay, InJobs, runVars
    <3>. QED BY <3>2, <3>3, <3>4 DEF RestoreInv
  <2>. QED BY <1>5, <2>1, <2>2, <2>3, <2>4, <2>5, <2>6, <2>7, <2>8, <2>9, <2>10, <2>11
           DEF RestoreStep
<1>. QED BY <1>1, <1>2, <1>3, <1>4, <1>5 DEF RestoreNext

(* A confirmation restores once at most, and the list of restores says     *)
(* what became of each, for any number of confirmations and any limits     *)
(* (plan(), start() and the runs of src/src/web/services/restore.ts).      *)
THEOREM RestoresAsConfirmedHolds == RestoreSpec => []RestoresAsConfirmed
<1>1. RestoreInv => RestoresAsConfirmed
  <2>1. RestoreInv => RestoresOnce
    BY DEF RestoreInv, RestoreTypeOK, SentByRun, RestoresOnce
  <2>. QED BY <2>1 DEF RestoreInv, RestoresAsConfirmed
<1>. QED BY <1>1, RestoreStarts, RestoreStepKeeps, PTL DEF RestoreSpec

-----------------------------------------------------------------------------
(* Child processes.                                                        *)

(* The group starts as the invariant says.                                  *)
LEMMA ChildStarts == KInit => ChildInv
BY ChildAssumption
   DEF KInit, ChildInv, KTypeOK, KeptAsRead, WholeOutput, ChildAssumption, OutcomeKinds, Alarms

(* Every step of the group, of the parent and of its timers keeps it.       *)
LEMMA ChildSteps == ChildInv /\ [KNext]_kVars => ChildInv'
<1>. SUFFICES ASSUME ChildInv, [KNext]_kVars PROVE ChildInv'
  OBVIOUS
<1>. USE ChildAssumption DEF ChildAssumption, ChildInv, KTypeOK, KeptAsRead, WholeOutput,
                             OutcomeKinds, Alarms
<1>1. CASE UNCHANGED kVars
  BY <1>1 DEF kVars
<1>2. CASE NotStarted
  BY <1>2 DEF NotStarted
<1>3. CASE SpawnChild
  BY <1>3 DEF SpawnChild
<1>4. CASE Data
  <2>1. CASE emitted - inPipe < Cap
    BY <1>4, <2>1 DEF Data
  <2>2. CASE ~(emitted - inPipe < Cap)
    BY <1>4, <2>2 DEF Data, Terminate
  <2>. QED BY <2>1, <2>2
<1>5. CASE FinishChild
  BY <1>5 DEF FinishChild, Over, Outcome, Disarmed
<1>6. CASE Escalate
  BY <1>6 DEF Escalate, Grace
<1>7. ASSUME NEW why \in Alarms, Alarm(why) PROVE ChildInv'
  BY <1>7 DEF Alarm, Terminate
<1>8. ASSUME NEW p \in Members, Exit(p) \/ HeedWarning(p) \/ Fork(p) PROVE ChildInv'
  BY <1>8 DEF Exit, HeedWarning, Fork
<1>9. ASSUME NEW p \in Members, WriteChunk(p) PROVE ChildInv'
  BY <1>9 DEF WriteChunk
<1>. QED BY <1>1, <1>2, <1>3, <1>4, <1>5, <1>6, <1>7, <1>8, <1>9 DEF KNext, GroupStep

(* Whatever the processes of the group do, and however many they are: a    *)
(* child that is reported to have exited was not warned, and all it wrote  *)
(* was kept (nodeSpawnChild of src/src/integration/spawn.ts).              *)
THEOREM WholeOutputHolds == KSpec => []WholeOutput
<1>1. ChildInv => WholeOutput
  BY DEF ChildInv
<1>. QED BY <1>1, ChildStarts, ChildSteps, PTL DEF KSpec

-----------------------------------------------------------------------------
(* Owned skills.                                                           *)

(* Whatever file the user has, the windows start as the invariant says.     *)
LEMMA SkillsStart == SkillsInit => SkillsInv
<1>. SUFFICES ASSUME SkillsInit PROVE SkillsInv
  OBVIOUS
<1>1. PICK action \in [Windows -> SkillActions] :
        apply = [w \in Windows |-> [at |-> "lock", action |-> action[w], state |-> "missing"]]
  BY DEF SkillsInit
<1>2. \A w \in Windows : apply[w].at = "lock" /\ skillsHolder # w
  BY <1>1, SkillsAssumption DEF SkillsInit, SkillsAssumption, NoWindow
<1>3. SkillsTypeOK
  <2>1. apply \in SkillCalls
    BY <1>1 DEF SkillCalls
  <2>2. userEdits \in 0..MaxUserEdits
    BY SkillsAssumption DEF SkillsInit, SkillsAssumption
  <2>. QED BY <2>1, <2>2 DEF SkillsInit, SkillsTypeOK, Releases, NoWindow
<1>4. skillFile \notin Releases /\ ~destroyed
  BY DEF SkillsInit, Releases
<1>5. WorksAlone /\ SawNoUserFile /\ StagesWhatItSaw /\ KnownCopy
  BY <1>2, <1>4 DEF WorksAlone, SawNoUserFile, StagesWhatItSaw, KnownCopy
<1>. QED BY <1>3, <1>4, <1>5 DEF SkillsInv

(* What inspect() calls a conflict is the user's, and all that is.         *)
LEMMA StateOfUserFile ==
  ASSUME NEW w \in Windows, SkillState(w) # "conflict"
  PROVE  skillFile # "user"
BY DEF SkillState, Releases

(* A call goes on with what it made of the skill.                          *)
LEMMA SkillCallKept ==
  ASSUME apply \in SkillCalls, NEW w \in Windows,
         NEW label \in {"lock", "inspect", "unlink", "rmdir", "unrecord", "stage", "mkdir",
                        "write", "record", "over"},
         NEW state \in {"missing", "installed", "outdated", "conflict"}
  PROVE  [apply EXCEPT ![w].at = label, ![w].state = state] \in SkillCalls
<1>. DEFINE A == {"lock", "inspect", "unlink", "rmdir", "unrecord", "stage", "mkdir",
                  "write", "record", "over"}
            C == {"missing", "installed", "outdated", "conflict"}
<1>1. /\ apply \in [Windows -> [at : A, action : SkillActions, state : C]]
      /\ label \in A /\ state \in C
  BY DEF SkillCalls
<1>2. SkillCalls = [Windows -> [at : A, action : SkillActions, state : C]]
  BY DEF SkillCalls
<1>. HIDE DEF A, C
<1>. QED BY <1>1, <1>2

(* Every step of a window and of the user keeps it.                         *)
LEMMA SkillsSteps == SkillsInv /\ [SkillsNext]_skillVars => SkillsInv'
<1>. SUFFICES ASSUME SkillsInv, [SkillsNext]_skillVars PROVE SkillsInv'
  OBVIOUS
<1>. USE SkillsAssumption DEF SkillsAssumption, SkillActions, Releases, NoWindow, SkillCalls
<1>0. /\ SkillsTypeOK /\ WorksAlone /\ SawNoUserFile /\ StagesWhatItSaw /\ KnownCopy
      /\ destroyed = FALSE
  BY DEF SkillsInv, SkillsTypeOK
<1>1. CASE UNCHANGED skillVars
  BY <1>1 DEF skillVars, SkillsInv, SkillsTypeOK, WorksAlone, SawNoUserFile, StagesWhatItSaw,
              KnownCopy
<1>2. CASE UserEdits
  <2>1. SkillsTypeOK' /\ ~destroyed'
    BY <1>0, <1>2 DEF UserEdits, SkillsTypeOK
  <2>2. WorksAlone' /\ SawNoUserFile' /\ StagesWhatItSaw' /\ KnownCopy'
    BY <1>0, <1>2
       DEF UserEdits, SkillsTypeOK, WorksAlone, SawNoUserFile, StagesWhatItSaw, KnownCopy
  <2>. QED BY <2>1, <2>2 DEF SkillsInv
<1>3. ASSUME NEW w \in Windows, SkillStep(w) PROVE SkillsInv'
  <2>0. /\ apply \in SkillCalls
        /\ NoWindow \notin Windows /\ userEdits \in Nat
    BY <1>0 DEF SkillsTypeOK
  <2>1. CASE SkillLock(w)
    <3>1. SkillsTypeOK' /\ WorksAlone' /\ ~destroyed'
      BY <1>0, <2>0, <2>1 DEF SkillLock, ToSkill, FilesStay, SkillsTypeOK, WorksAlone
    <3>2. SawNoUserFile' /\ StagesWhatItSaw'
      BY <1>0, <2>0, <2>1 DEF SkillLock, ToSkill, FilesStay, WorksAlone, SawNoUserFile,
         StagesWhatItSaw
    <3>3. KnownCopy'
      BY <1>0, <2>0, <2>1 DEF SkillLock, ToSkill, FilesStay, WorksAlone, KnownCopy
    <3>. QED BY <3>1, <3>2, <3>3 DEF SkillsInv
  <2>2. CASE InspectSkill(w)
    <3>1. PICK state \in {"missing", "installed", "outdated", "conflict"},
               next \in {"over", "rmdir", "unlink", "stage"} :
            /\ apply' = [apply EXCEPT ![w].at = next, ![w].state = state]
            /\ state = SkillState(w)
            /\ next # "over" => state # "conflict"
            /\ next = "stage" => state \in {"missing", "outdated"}
            /\ skillsHolder' = IF next = "over" THEN NoWindow ELSE w
      <4>. DEFINE s == SkillState(w)
                  action == apply[w].action
                  refused == \/ s = "conflict" \/ (action = "remove" /\ record = "none")
                             \/ action # "remove" /\ s = "installed"
                             \/ action = "install" /\ s = "outdated"
                  n == IF refused THEN "over"
                       ELSE IF action # "remove" THEN "stage"
                       ELSE IF s = "missing" THEN "rmdir" ELSE "unlink"
      <4>1. /\ apply' = [apply EXCEPT ![w].at = n, ![w].state = s]
            /\ skillsHolder' = IF n = "over" THEN NoWindow ELSE w
        BY <2>2 DEF InspectSkill
      <4>2. s \in {"missing", "installed", "outdated", "conflict"}
        BY DEF SkillState
      <4>. HIDE DEF s
      <4>3. /\ n \in {"over", "rmdir", "unlink", "stage"}
            /\ n # "over" => s # "conflict"
            /\ n = "stage" => s \in {"missing", "outdated"}
        BY <2>0, <4>2
      <4>. HIDE DEF n
      <4>. USE DEF s
      <4>. QED BY <4>1, <4>2, <4>3
    <3>2. /\ apply[w].at = "inspect" /\ skillsHolder = w /\ unseen' = unseen \ {w}
          /\ UNCHANGED <<skillFile, record, userEdits, destroyed, faults>>
      BY <2>2 DEF InspectSkill, AtSkill, FilesStay
    <3>3. next # "over" => skillFile # "user"
      BY <3>1, StateOfUserFile
    <3>4. /\ apply'[w].at = next /\ apply'[w].state = state
          /\ \A v \in Windows \ {w} : apply'[v] = apply[v]
      BY <2>0, <3>1
    <3>. HIDE DEF NoWindow
    <3>5. SkillsTypeOK'
      <4>. HIDE DEF SkillCalls
      <4>1. apply' \in SkillCalls
        BY <2>0, <3>1, SkillCallKept
      <4>2. skillsHolder' \in Windows \cup {NoWindow}
        BY <3>1
      <4>. QED BY <1>0, <3>2, <4>1, <4>2 DEF SkillsTypeOK
    <3>6. WorksAlone'
      BY <1>0, <2>0, <3>1, <3>2, <3>4 DEF WorksAlone
    <3>7. SawNoUserFile' /\ StagesWhatItSaw'
      BY <1>0, <3>1, <3>2, <3>3, <3>4 DEF SawNoUserFile, StagesWhatItSaw
    <3>8. KnownCopy'
      BY <1>0, <3>1, <3>2, <3>4 DEF KnownCopy
    <3>. QED BY <1>0, <3>2, <3>5, <3>6, <3>7, <3>8 DEF SkillsInv
  <2>3. CASE UnlinkSkill(w)
    <3>1. SkillsTypeOK'
      <4>1. apply' \in SkillCalls
        BY <2>0, <2>3 DEF UnlinkSkill, ToSkill, Returns, Destroys
      <4>. HIDE DEF SkillCalls
      <4>. QED BY <1>0, <4>1, <2>3 DEF UnlinkSkill, ToSkill, Returns, Destroys, SkillsTypeOK
    <3>2. WorksAlone'
      BY <1>0, <2>0, <2>3 DEF UnlinkSkill, AtSkill, ToSkill, Returns, Destroys, WorksAlone
    <3>3. ~destroyed'
      BY <1>0, <2>0, <2>3 DEF UnlinkSkill, AtSkill, ToSkill, Returns, Destroys,
         SawNoUserFile
    <3>4. SawNoUserFile' /\ StagesWhatItSaw'
      BY <1>0, <2>0, <2>3 DEF UnlinkSkill, AtSkill, ToSkill, Returns, Destroys,
         WorksAlone, SawNoUserFile, StagesWhatItSaw
    <3>5. KnownCopy'
      BY <1>0, <2>0, <2>3 DEF UnlinkSkill, AtSkill, ToSkill, Returns, Destroys,
         WorksAlone, KnownCopy
    <3>. QED BY <3>1, <3>2, <3>3, <3>4, <3>5 DEF SkillsInv
  <2>4. CASE RemoveSkillDir(w)
    <3>1. SkillsTypeOK'
      <4>1. apply' \in SkillCalls
        BY <2>0, <2>4 DEF RemoveSkillDir, ToSkill, Returns
      <4>. HIDE DEF SkillCalls
      <4>. QED BY <1>0, <4>1, <2>4 DEF RemoveSkillDir, ToSkill, Returns, SkillsTypeOK
    <3>2. WorksAlone'
      BY <1>0, <2>0, <2>4 DEF RemoveSkillDir, AtSkill, ToSkill, Returns, WorksAlone
    <3>3. ~destroyed'
      BY <1>0, <2>0, <2>4 DEF RemoveSkillDir, AtSkill, ToSkill, Returns, SawNoUserFile
    <3>4. SawNoUserFile' /\ StagesWhatItSaw'
      BY <1>0, <2>0, <2>4 DEF RemoveSkillDir, AtSkill, ToSkill, Returns, WorksAlone,
         SawNoUserFile, StagesWhatItSaw
    <3>5. KnownCopy'
      BY <1>0, <2>0, <2>4 DEF RemoveSkillDir, AtSkill, ToSkill, Returns, WorksAlone,
         KnownCopy
    <3>. QED BY <3>1, <3>2, <3>3, <3>4, <3>5 DEF SkillsInv
  <2>5. CASE RemoveRecord(w)
    <3>1. SkillsTypeOK' /\ WorksAlone' /\ ~destroyed'
      BY <1>0, <2>0, <2>5 DEF RemoveRecord, AtSkill, ToSkill, Returns, SkillsTypeOK,
         WorksAlone
    <3>2. SawNoUserFile' /\ StagesWhatItSaw'
      BY <1>0, <2>0, <2>5 DEF RemoveRecord, AtSkill, ToSkill, Returns, WorksAlone,
         SawNoUserFile, StagesWhatItSaw
    <3>3. KnownCopy'
      BY <1>0, <2>0, <2>5 DEF RemoveRecord, AtSkill, ToSkill, Returns, WorksAlone,
         KnownCopy
    <3>. QED BY <3>1, <3>2, <3>3 DEF SkillsInv
  <2>6. CASE StageSkill(w)
    <3>1. SkillsTypeOK' /\ WorksAlone' /\ ~destroyed'
      BY <1>0, <2>0, <2>6 DEF StageSkill, AtSkill, ToSkill, Returns, FilesStay,
         StillTheSame, SkillState, SkillsTypeOK, WorksAlone
    <3>2. SawNoUserFile' /\ StagesWhatItSaw'
      BY <1>0, <2>0, <2>6 DEF StageSkill, AtSkill, ToSkill, Returns, FilesStay,
         StillTheSame, SkillState, WorksAlone, SawNoUserFile, StagesWhatItSaw
    <3>3. KnownCopy'
      BY <1>0, <2>0, <2>6 DEF StageSkill, AtSkill, ToSkill, Returns, FilesStay,
         StillTheSame, SkillState, WorksAlone, KnownCopy
    <3>. QED BY <3>1, <3>2, <3>3 DEF SkillsInv
  <2>7. CASE MakeSkillDir(w)
    <3>1. SkillsTypeOK' /\ WorksAlone' /\ ~destroyed'
      BY <1>0, <2>0, <2>7 DEF MakeSkillDir, AtSkill, ToSkill, SkillsTypeOK, WorksAlone
    <3>2. SawNoUserFile' /\ StagesWhatItSaw'
      BY <1>0, <2>0, <2>7 DEF MakeSkillDir, AtSkill, ToSkill, WorksAlone, SawNoUserFile,
         StagesWhatItSaw
    <3>3. KnownCopy'
      BY <1>0, <2>0, <2>7 DEF MakeSkillDir, AtSkill, ToSkill, WorksAlone, KnownCopy
    <3>. QED BY <3>1, <3>2, <3>3 DEF SkillsInv
  <2>8. CASE PublishSkill(w)
    <3>1. SkillsTypeOK'
      <4>1. apply' \in SkillCalls
        BY <2>0, <2>8 DEF PublishSkill, ToSkill, Returns, Destroys, MayPlace
      <4>. HIDE DEF SkillCalls
      <4>. QED BY <1>0, <4>1, <2>8 DEF PublishSkill, ToSkill, Returns, Destroys, MayPlace, SkillsTypeOK
    <3>2. WorksAlone'
      BY <1>0, <2>0, <2>8 DEF PublishSkill, AtSkill, ToSkill, Returns, Destroys,
         MayPlace, WorksAlone
    <3>3. ~destroyed'
      BY <1>0, <2>0, <2>8 DEF PublishSkill, AtSkill, ToSkill, Returns, Destroys,
         MayPlace, SawNoUserFile
    <3>4. SawNoUserFile' /\ StagesWhatItSaw'
      BY <1>0, <2>0, <2>8 DEF PublishSkill, AtSkill, ToSkill, Returns, Destroys,
         MayPlace, WorksAlone, SawNoUserFile, StagesWhatItSaw
    <3>5. KnownCopy'
      BY <1>0, <2>0, <2>8 DEF PublishSkill, AtSkill, ToSkill, Returns, Destroys,
         MayPlace, WorksAlone, KnownCopy
    <3>. QED BY <3>1, <3>2, <3>3, <3>4, <3>5 DEF SkillsInv
  <2>9. CASE RecordSkill(w)
    <3>1. SkillsTypeOK' /\ WorksAlone' /\ ~destroyed'
      BY <1>0, <2>0, <2>9 DEF RecordSkill, AtSkill, ToSkill, Returns, SkillsTypeOK,
         WorksAlone
    <3>2. SawNoUserFile' /\ StagesWhatItSaw'
      BY <1>0, <2>0, <2>9 DEF RecordSkill, AtSkill, ToSkill, Returns, WorksAlone,
         SawNoUserFile, StagesWhatItSaw
    <3>3. KnownCopy'
      BY <1>0, <2>0, <2>9 DEF RecordSkill, AtSkill, ToSkill, Returns, WorksAlone,
         KnownCopy
    <3>. QED BY <3>1, <3>2, <3>3 DEF SkillsInv
  <2>10. CASE WindowDies(w)
    <3>1. SkillsTypeOK' /\ WorksAlone' /\ ~destroyed'
      BY <1>0, <2>0, <2>10 DEF WindowDies, ToSkill, Returns, FilesStay, SkillsTypeOK,
         WorksAlone
    <3>2. SawNoUserFile' /\ StagesWhatItSaw'
      BY <1>0, <2>0, <2>10 DEF WindowDies, ToSkill, Returns, FilesStay, WorksAlone,
         SawNoUserFile, StagesWhatItSaw
    <3>3. KnownCopy'
      BY <1>0, <2>0, <2>10 DEF WindowDies, ToSkill, Returns, FilesStay, WorksAlone,
         KnownCopy
    <3>. QED BY <3>1, <3>2, <3>3 DEF SkillsInv
  <2>. QED BY <1>3, <2>1, <2>2, <2>3, <2>4, <2>5, <2>6, <2>7, <2>8, <2>9, <2>10 DEF SkillStep
<1>. QED BY <1>1, <1>2, <1>3 DEF SkillsNext

(* However many windows and commands of the two releases work on the skill *)
(* and wherever they die: what the user wrote before HQ last looked stays, *)
(* and HQ knows its own copy while no call is under way (apply() and       *)
(* inspect() of src/src/agent-setup/owned-skills.ts).                      *)
THEOREM SkillsPreservedHolds == SkillsSpec => []SkillsPreserved
<1>1. SkillsInv => SkillsPreserved
  <2>. SUFFICES ASSUME SkillsInv, skillsHolder = NoWindow, ~faults, userEdits = 0,
                       skillFile \in Releases
                PROVE  record = skillFile
    BY DEF SkillsPreserved, SkillsInv
  <2>1. \A w \in Windows : apply[w].at # "record"
    BY SkillsAssumption DEF SkillsInv, WorksAlone, SkillsAssumption, NoWindow
  <2>. QED BY <2>1 DEF SkillsInv, KnownCopy
<1>. QED BY <1>1, SkillsStart, SkillsSteps, PTL DEF SkillsSpec

-----------------------------------------------------------------------------
(* Provisioning.                                                           *)

(* Whatever plugin the site has, the setups start as the invariant says.    *)
LEMMA ProvStarts == ProvInit => ProvInv
<1>. SUFFICES ASSUME ProvInit PROVE ProvInv
  OBVIOUS
<1>0. /\ options \in [Runs -> Options]
      /\ \A p \in Runs : options[p].via \in {"api", "output", "status", "bare"}
  BY ProvisioningAssumption DEF ProvInit, ProvisioningAssumption
<1>3a. ASSUME NEW p \in Runs PROVE commandAt[p] \in {"api", "inspect", "php"}
  BY <1>0 DEF ProvInit
<1>1. ProvTypeOK
  <2>1. commandAt \in [Runs -> {"api", "inspect", "php"}]
    BY <1>3a DEF ProvInit
  <2>2. commandAt \in [Runs -> Changing \cup ReadingSteps \cup {"done", "failed"}]
    BY <2>1 DEF ReadingSteps
  <2>. QED
    BY <1>0, <2>2 DEF ProvInit, ProvTypeOK
<1>2. FoundOrMine
  BY <1>0 DEF ProvInit, FoundOrMine, RunOK, PastInstall, IsApi
<1>3. Preserves
  BY DEF ProvInit, Preserves
<1>. QED BY <1>1, <1>2, <1>3 DEF ProvInv

(* What the site does for a command, at once or late: the setups that      *)
(* installed stay, and unless forced nothing is changed that was not       *)
(* asked for by a setup that is told what it found.                        *)
LEMMA CommandPreserves ==
  ASSUME ProvInv, NEW p \in Runs, NEW c \in Changing, Does(p, c),
         ~options[p].force /\ c \in {"enable", "domain"} => AskedOrMine(p),
         ~options[p].force /\ c = "upload" => IsApi(p) /\ ~present[p]
  PROVE  /\ plugin' \in {"absent", "old", "current"} /\ {active', ai', domain'} \subseteq BOOLEAN
         /\ mine \subseteq mine' /\ mine' \subseteq Runs
         /\ changed' \in [Runs -> SUBSET {"plugin", "ai"}]
         /\ \A q \in Runs : q # p => changed'[q] = changed[q]
         /\ options' = options /\ present' = present => Preserves'
<1>0. ProvTypeOK /\ Preserves
  BY DEF ProvInv
<1>1. CASE c = "install"
  <2>1. Installs(p)
    BY <1>1 DEF Does
  <2>. QED BY <1>0, <2>1 DEF Installs, InstallWorks, ProvTypeOK, Preserves, Unaware, IsApi
<1>2. CASE c = "activate"
  <2>1. Activates(p)
    BY <1>2 DEF Does
  <2>. QED BY <1>0, <2>1 DEF Activates, ProvTypeOK, Preserves, Unaware, IsApi
<1>3. CASE c = "enable"
  <2>1. Enables(p)
    BY <1>3 DEF Does
  <2>. QED
    BY <1>0, <1>3, <2>1 DEF Enables, TouchesAi, AskedOrMine, ProvTypeOK, Preserves, Unaware, IsApi
<1>4. CASE c = "domain"
  <2>1. Locks(p)
    BY <1>4 DEF Does
  <2>. QED
    BY <1>0, <1>4, <2>1 DEF Locks, TouchesAi, AskedOrMine, ProvTypeOK, Preserves, Unaware, IsApi
<1>5. CASE c = "upload"
  <2>1. Uploads(p)
    BY <1>5 DEF Does
  <2>. QED BY <1>0, <1>5, <2>1 DEF Uploads, ProvTypeOK, Preserves, Unaware, IsApi
<1>. QED BY <1>1, <1>2, <1>3, <1>4, <1>5 DEF Changing

(* A step that only reads the site, and may note what is there while the    *)
(* setup has not done anything yet.                                         *)
LEMMA ReadingKeeps ==
  ASSUME ProvInv, NEW p \in Runs, NEW s \in Changing \cup ReadingSteps \cup {"done", "failed"},
         NEW found \in BOOLEAN,
         commandAt' = [commandAt EXCEPT ![p] = s], present' = [present EXCEPT ![p] = found],
         commandAt[p] \in Looking \/ found = present[p],
         UNCHANGED <<options, pending, siteState, mine, changed>>,
         s \in Looking => commandAt[p] \in Looking,
         s \in {"php", "inspect", "preflight", "install"} /\ ~options[p].force => ~IsApi(p),
         s \in {"preflight", "install"} /\ ~options[p].force => ~found,
         s = "upload" => IsApi(p) /\ ~found, s \notin {"api", "installed", "turned on"},
         ~options[p].force /\ s \in PastInstall =>
           found \/ p \in mine \/ options[p].via \in {"api", "bare"},
         ~options[p].force /\ s \in {"enable", "domain"} =>
           options[p].ai = "yes" \/ p \in mine \/ (options[p].via \in {"api", "bare"} /\ ~found)
  PROVE  ProvInv'
<1>0. ProvTypeOK /\ FoundOrMine /\ Preserves
  BY DEF ProvInv
<1>1. UNCHANGED <<options, pending, plugin, active, ai, domain, mine, changed>>
  BY DEF siteState
<1>2. /\ commandAt'[p] = s /\ present'[p] = found
      /\ \A q \in Runs : q # p => commandAt'[q] = commandAt[q] /\ present'[q] = present[q]
  BY <1>0 DEF ProvTypeOK
<1>3. ProvTypeOK'
  <2>1. /\ commandAt' \in [Runs -> Changing \cup ReadingSteps \cup {"done", "failed"}]
        /\ present' \in [Runs -> BOOLEAN]
    BY <1>0 DEF ProvTypeOK
  <2>. QED BY <1>0, <1>1, <2>1 DEF ProvTypeOK
<1>4. RunOK(p) /\ (~options[p].force /\ commandAt[p] \in Looking =>
                     changed[p] = {} /\ pending[p] = "none")
  BY <1>0 DEF FoundOrMine, RunOK
<1>5. RunOK(p)'
  <2>1. CASE found = present[p]
    BY <1>1, <1>2, <1>4, <2>1 DEF RunOK, Unaware, AskedOrMine, IsApi
  <2>2. CASE commandAt[p] \in Looking
    BY <1>1, <1>2, <1>4, <2>2 DEF RunOK, Unaware, AskedOrMine, IsApi
  <2>. QED BY <2>1, <2>2
<1>6. ASSUME NEW q \in Runs, q # p PROVE RunOK(q)'
  <2>1. RunOK(q)
    BY <1>0 DEF FoundOrMine
  <2>. QED BY <1>1, <1>2, <1>6, <2>1 DEF RunOK, Unaware, AskedOrMine, IsApi
<1>7. FoundOrMine'
  BY <1>5, <1>6 DEF FoundOrMine
<1>8. Preserves'
  BY <1>0, <1>1, <1>2, <1>4 DEF Preserves, Unaware, IsApi
<1>. QED BY <1>3, <1>7, <1>8 DEF ProvInv

(* A step that has a command carried out.                                   *)
LEMMA ChangingKeeps ==
  ASSUME ProvInv, NEW p \in Runs, NEW c \in Changing, commandAt[p] = c, Does(p, c),
         NEW s \in {"active", "home", "domain", "enable", "compat", "failed", "installed",
                    "turned on"},
         commandAt' = [commandAt EXCEPT ![p] = s], UNCHANGED <<options, present, pending>>,
         ~options[p].force /\ s \in PastInstall =>
           c \in PastInstall \/ p \in mine' \/ Unaware(p),
         s \in {"domain", "enable"} => c \in {"domain", "enable"},
         s \in {"installed", "turned on"} => IsApi(p) \/ options[p].force
  PROVE  ProvInv'
<1>0. ProvTypeOK /\ FoundOrMine /\ Preserves /\ RunOK(p)
  BY DEF ProvInv, FoundOrMine
<1>1. /\ ~options[p].force /\ c \in {"enable", "domain"} => AskedOrMine(p)
      /\ ~options[p].force /\ c = "upload" => IsApi(p) /\ ~present[p]
  BY <1>0 DEF RunOK
<1>2. /\ plugin' \in {"absent", "old", "current"} /\ {active', ai', domain'} \subseteq BOOLEAN
      /\ mine \subseteq mine' /\ mine' \subseteq Runs
      /\ changed' \in [Runs -> SUBSET {"plugin", "ai"}]
      /\ \A q \in Runs : q # p => changed'[q] = changed[q]
      /\ Preserves'
  BY <1>1, CommandPreserves
<1>3. /\ commandAt'[p] = s
      /\ \A q \in Runs : q # p => commandAt'[q] = commandAt[q]
  BY <1>0 DEF ProvTypeOK
<1>4. ProvTypeOK'
  <2>1. s \in Changing \cup ReadingSteps \cup {"done", "failed"}
    BY DEF Changing, ReadingSteps
  <2>2. commandAt' \in [Runs -> Changing \cup ReadingSteps \cup {"done", "failed"}]
    BY <1>0, <2>1 DEF ProvTypeOK
  <2>. QED BY <1>0, <1>2, <2>2 DEF ProvTypeOK
<1>5. RunOK(p)'
  BY <1>0, <1>1, <1>2, <1>3 DEF RunOK, Unaware, AskedOrMine, IsApi, PastInstall, Looking
<1>6. ASSUME NEW q \in Runs, q # p PROVE RunOK(q)'
  <2>1. RunOK(q)
    BY <1>0 DEF FoundOrMine
  <2>. QED BY <1>2, <1>3, <1>6, <2>1 DEF RunOK, Unaware, AskedOrMine, IsApi
<1>. QED BY <1>2, <1>4, <1>5, <1>6 DEF ProvInv, FoundOrMine

(* Every step of a setup, of a late command and of the owner keeps it.      *)
LEMMA ProvSteps == ProvInv /\ [ProvNext]_provVars => ProvInv'
<1>. SUFFICES ASSUME ProvInv, [ProvNext]_provVars PROVE ProvInv'
  OBVIOUS
<1>0. ProvTypeOK /\ FoundOrMine /\ Preserves
  BY DEF ProvInv
<1>a. ASSUME NEW p \in Runs
      PROVE  /\ RunOK(p) /\ options[p].via \in {"api", "output", "status", "bare"}
             /\ options[p].ai \in {"unset", "yes", "no"} /\ present[p] \in BOOLEAN
             /\ options[p].force \in BOOLEAN
             /\ commandAt[p] \in Changing \cup ReadingSteps \cup {"done", "failed"}
             /\ present = [present EXCEPT ![p] = present[p]]
  <2>1. options[p] \in Options /\ RunOK(p) /\ present[p] \in BOOLEAN
        /\ commandAt[p] \in Changing \cup ReadingSteps \cup {"done", "failed"}
    BY <1>0 DEF ProvTypeOK, FoundOrMine
  <2>2. present = [present EXCEPT ![p] = present[p]]
    BY <1>0 DEF ProvTypeOK
  <2>. QED BY <2>1, <2>2, ProvisioningAssumption
<1>b. ASSUME NEW p \in Runs, NEW found \in BOOLEAN, NEW s \in AfterActive(p, found)
      PROVE  /\ s \in {"enable", "domain", "compat"}
             /\ s \in {"enable", "domain"} =>
                  options[p].ai = "yes" \/ (options[p].ai = "unset" /\ ~found)
  BY <1>b DEF AfterActive, AfterHome, WantsAi
<1>1. CASE UNCHANGED provVars
  BY <1>0, <1>1 DEF provVars, runsVars, siteState, ProvInv, ProvTypeOK, FoundOrMine, RunOK,
                    AskedOrMine, Preserves, Unaware, IsApi
<1>2. CASE Owner
  BY <1>0, <1>2 DEF Owner, runsVars, ProvInv, ProvTypeOK, FoundOrMine, RunOK, AskedOrMine,
                    Preserves, Unaware, IsApi
<1>3. ASSUME NEW p \in Runs,
             Php(p) \/ Preflight(p) \/ IsActive(p) \/ Compat(p) \/ Home(p)
             \/ ApiInstalled(p) \/ ApiTurnedOn(p)
      PROVE  ProvInv'
  <2>a. /\ RunOK(p) /\ present[p] \in BOOLEAN /\ present = [present EXCEPT ![p] = present[p]]
        /\ options[p].via \in {"api", "output", "status", "bare"}
        /\ options[p].ai \in {"unset", "yes", "no"}
    BY <1>a
  <2>1. CASE Php(p)
    <3>1. /\ commandAt[p] = "php" /\ commandAt' = [commandAt EXCEPT ![p] = "inspect"]
          /\ present' = present /\ UNCHANGED <<options, pending, siteState, mine, changed>>
      BY <2>1 DEF Php, Advance
    <3>2. ~options[p].force => ~IsApi(p)
      BY <2>a, <3>1 DEF RunOK
    <3>. QED
      BY <2>a, <3>1, <3>2, ReadingKeeps DEF Looking, ReadingSteps, PastInstall
  <2>2. CASE Preflight(p)
    BY <2>2, <2>a, ReadingKeeps
       DEF Preflight, Advance, RunOK, Looking, Changing, PastInstall
  <2>3. CASE IsActive(p)
    <3>1. PICK s \in {"home", "activate"} : commandAt' = [commandAt EXCEPT ![p] = s]
      BY <2>3 DEF IsActive, Advance
    <3>2. ~options[p].force => present[p] \/ p \in mine \/ options[p].via \in {"api", "bare"}
      BY <2>3, <2>a DEF IsActive, RunOK, PastInstall, Unaware
    <3>. QED
      BY <2>3, <2>a, <3>1, <3>2, ReadingKeeps
         DEF IsActive, Looking, ReadingSteps, Changing, PastInstall
  <2>4. CASE Compat(p)
    <3>1. PICK s \in {"done", "failed"} : commandAt' = [commandAt EXCEPT ![p] = s]
      BY <2>4 DEF Compat, Advance
    <3>. QED
      BY <2>4, <2>a, <3>1, ReadingKeeps DEF Compat, Looking, PastInstall
  <2>5. CASE Home(p)
    <3>0. AfterHome(p, present[p]) \in AfterActive(p, present[p])
      BY DEF AfterActive
    <3>1. PICK s \in AfterActive(p, present[p]) : commandAt' = [commandAt EXCEPT ![p] = s]
      BY <2>5, <3>0 DEF Home, Advance
    <3>2. ~options[p].force => present[p] \/ p \in mine \/ Unaware(p)
      BY <2>5, <2>a DEF Home, RunOK, PastInstall
    <3>3. /\ s \in {"enable", "domain", "compat"}
          /\ s \in {"enable", "domain"} =>
               options[p].ai = "yes" \/ (options[p].ai = "unset" /\ ~present[p])
      BY <1>b, <2>a, <3>1
    <3>. QED
      BY <2>5, <2>a, <3>1, <3>2, <3>3, ReadingKeeps
         DEF Home, Looking, ReadingSteps, Changing, PastInstall, Unaware
  <2>6. CASE ApiInstalled(p) \/ ApiTurnedOn(p)
    <3>1. PICK s \in {"failed", "activate"} \cup AfterActive(p, present[p]) :
            commandAt' = [commandAt EXCEPT ![p] = s]
      BY <2>6 DEF ApiInstalled, ApiTurnedOn, Advance
    <3>2. ~options[p].force => options[p].via = "api"
      BY <2>6, <2>a DEF ApiInstalled, ApiTurnedOn, RunOK, IsApi
    <3>3. /\ s \in {"failed", "activate", "enable", "domain", "compat"}
          /\ s \in {"enable", "domain"} =>
               options[p].ai = "yes" \/ (options[p].ai = "unset" /\ ~present[p])
      BY <1>b, <2>a, <3>1
    <3>4. UNCHANGED <<options, pending, siteState, mine, changed>> /\ present' = present
      BY <2>6 DEF ApiInstalled, ApiTurnedOn
    <3>. QED
      BY <2>a, <3>1, <3>2, <3>3, <3>4, ReadingKeeps
         DEF Looking, ReadingSteps, Changing, PastInstall
  <2>. QED BY <1>3, <2>1, <2>2, <2>3, <2>4, <2>5, <2>6
<1>4. ASSUME NEW p \in Runs, Inspect(p) PROVE ProvInv'
  <2>1. PICK found \in BOOLEAN : present' = [present EXCEPT ![p] = found]
    BY <1>4 DEF Inspect
  <2>2. present'[p] = found
    BY <1>0, <2>1 DEF ProvTypeOK
  <2>3. PICK s \in {"failed", "preflight", "active", "home"} :
          /\ commandAt' = [commandAt EXCEPT ![p] = s]
          /\ s \in {"active", "home"} => found
          /\ s = "preflight" => ~found \/ options[p].force
    BY <1>4, <2>1, <2>2 DEF Inspect, MayInstall, Advance, AfterPlugin
  <2>4. /\ UNCHANGED <<options, pending, siteState, mine, changed>>
        /\ commandAt[p] \in Looking
    BY <1>4 DEF Inspect, Looking
  <2>5. ~options[p].force => ~IsApi(p)
    BY <1>4, <1>a DEF Inspect, RunOK
  <2>6. s \in Changing \cup ReadingSteps \cup {"done", "failed"}
    BY <2>3 DEF Changing, ReadingSteps
  <2>. QED
    BY <2>1, <2>3, <2>4, <2>5, <2>6, ReadingKeeps DEF Looking, PastInstall
<1>5. ASSUME NEW p \in Runs, ApiLooks(p) PROVE ProvInv'
  <2>1. PICK found \in BOOLEAN :
          /\ present' = [present EXCEPT ![p] = found]
          /\ \E s \in {"failed"} \cup (IF ~found THEN {"upload"}
                                     ELSE {"activate"} \cup AfterActive(p, found)) :
               /\ commandAt' = [commandAt EXCEPT ![p] = s]
               /\ options[p].force => s = "failed"
    BY <1>5 DEF ApiLooks, Advance
  <2>2. PICK s \in {"failed"} \cup (IF ~found THEN {"upload"}
                                  ELSE {"activate"} \cup AfterActive(p, found)) :
          /\ commandAt' = [commandAt EXCEPT ![p] = s]
          /\ options[p].force => s = "failed"
    BY <2>1
  <2>3. /\ s \in {"failed", "upload", "activate", "enable", "domain", "compat"}
        /\ s = "upload" => ~found
        /\ s \in {"enable", "domain"} =>
             options[p].ai = "yes" \/ (options[p].ai = "unset" /\ ~found)
    BY <1>a, <1>b, <2>2
  <2>4. ~options[p].force => options[p].via = "api"
    BY <1>5, <1>a DEF ApiLooks, RunOK, IsApi
  <2>5. /\ UNCHANGED <<options, pending, siteState, mine, changed>>
        /\ commandAt[p] \in Looking
    BY <1>5 DEF ApiLooks, Looking
  <2>6. s = "upload" => IsApi(p) /\ ~found
    BY <2>2, <2>3, <2>4 DEF IsApi
  <2>. QED
    BY <2>1, <2>2, <2>3, <2>4, <2>5, <2>6, ReadingKeeps
       DEF Looking, ReadingSteps, Changing, PastInstall
<1>6. ASSUME NEW p \in Runs,
             Install(p) \/ ActivateNovamira(p) \/ EnableAiOption(p) \/ LockDomain(p)
             \/ ApiUploads(p)
      PROVE  ProvInv'
  <2>a. RunOK(p) /\ options[p].via \in {"api", "output", "status", "bare"}
        /\ present[p] \in BOOLEAN
    BY <1>a
  <2>1. CASE Install(p)
    <3>1. /\ commandAt[p] = "install" /\ Does(p, "install")
          /\ plugin = "absent" => p \in mine'
      <4>1. commandAt[p] = "install" /\ Installs(p)
        BY <2>1 DEF Install
      <4>. QED BY <4>1 DEF Installs, Does
    <3>2. PICK s \in {"active", "home", "failed"} :
            /\ commandAt' = [commandAt EXCEPT ![p] = s]
            /\ s # "failed" => options[p].force \/ plugin = "absent" \/ Bare(p)
      BY <2>1 DEF Install, InstallWorks, Advance, AfterPlugin
    <3>3. ~options[p].force /\ ~present[p] /\ Bare(p) => Unaware(p)
      BY DEF Bare, Unaware
    <3>4. ~options[p].force /\ commandAt[p] = "install" => ~present[p]
      BY <2>a, <3>1 DEF RunOK
    <3>. QED BY <2>1, <2>a, <3>1, <3>2, <3>3, <3>4, ChangingKeeps DEF Install, Changing, PastInstall
  <2>2. CASE ActivateNovamira(p)
    <3>1. commandAt[p] = "activate" /\ Does(p, "activate")
      BY <2>2 DEF ActivateNovamira, Does
    <3>2. PICK s \in {"home", "turned on", "failed"} :
            /\ commandAt' = [commandAt EXCEPT ![p] = s]
            /\ s = "turned on" => IsApi(p)
      BY <2>2 DEF ActivateNovamira, Advance
    <3>. QED
      BY <2>2, <3>1, <3>2, ChangingKeeps DEF ActivateNovamira, Changing, PastInstall
  <2>3. CASE EnableAiOption(p)
    <3>1. commandAt[p] = "enable" /\ Does(p, "enable")
      BY <2>3 DEF EnableAiOption, Does
    <3>2. PICK s \in {"compat", "domain"} : commandAt' = [commandAt EXCEPT ![p] = s]
      BY <2>3 DEF EnableAiOption, Advance
    <3>. QED BY <2>3, <3>1, <3>2, ChangingKeeps DEF EnableAiOption, Changing, PastInstall
  <2>4. CASE LockDomain(p)
    <3>1. commandAt[p] = "domain" /\ Does(p, "domain")
      BY <2>4 DEF LockDomain, Does
    <3>2. PICK s \in {"compat", "enable"} : commandAt' = [commandAt EXCEPT ![p] = s]
      BY <2>4 DEF LockDomain, Advance
    <3>. QED BY <2>4, <3>1, <3>2, ChangingKeeps DEF LockDomain, Changing, PastInstall
  <2>5. CASE ApiUploads(p)
    <3>1. commandAt[p] = "upload" /\ Does(p, "upload")
      BY <2>5 DEF ApiUploads, Does
    <3>2. IsApi(p) \/ options[p].force
      BY <2>a, <3>1 DEF RunOK
    <3>. QED
      BY <2>5, <3>1, <3>2, ChangingKeeps DEF ApiUploads, Advance, Changing, PastInstall
  <2>. QED BY <1>6, <2>1, <2>2, <2>3, <2>4, <2>5
<1>8. ASSUME NEW p \in Runs, GiveUpCommand(p) PROVE ProvInv'
  <2>1. /\ commandAt' = [commandAt EXCEPT ![p] = "failed"]
        /\ pending' = [pending EXCEPT ![p] = IF commandAt[p] \in Changing THEN commandAt[p] ELSE @]
        /\ UNCHANGED <<options, present, plugin, active, ai, domain, mine, changed>>
    BY <1>8 DEF GiveUpCommand, End, Advance, siteState
  <2>2. ProvTypeOK' /\ Preserves'
    BY <1>0, <2>1 DEF ProvTypeOK, Changing, Preserves, Unaware, IsApi
  <2>3. ASSUME NEW q \in Runs PROVE RunOK(q)'
    <3>1. RunOK(q) /\ RunOK(p)
      BY <1>0 DEF FoundOrMine
    <3>2. CASE q = p
      <4>1. commandAt'[p] = "failed" /\ pending'[p] \in {pending[p], commandAt[p]}
        BY <1>0, <2>1 DEF ProvTypeOK
      <4>. QED
        BY <2>1, <3>1, <3>2, <4>1 DEF RunOK, Unaware, AskedOrMine, IsApi, PastInstall, Looking
    <3>3. CASE q # p
      <4>1. commandAt'[q] = commandAt[q] /\ pending'[q] = pending[q]
        BY <1>0, <2>1, <3>3 DEF ProvTypeOK
      <4>. QED BY <2>1, <3>1, <4>1 DEF RunOK, Unaware, AskedOrMine, IsApi
    <3>. QED BY <3>2, <3>3
  <2>. QED BY <2>2, <2>3 DEF ProvInv, FoundOrMine
<1>9. ASSUME NEW p \in Runs, LateCommand(p) PROVE ProvInv'
  <2>1. pending[p] \in Changing /\ Does(p, pending[p]) /\ RunOK(p)
    BY <1>0, <1>9 DEF LateCommand, ProvTypeOK, FoundOrMine
  <2>2. /\ ~options[p].force /\ pending[p] \in {"enable", "domain"} => AskedOrMine(p)
        /\ ~options[p].force /\ pending[p] = "upload" => IsApi(p) /\ ~present[p]
    BY <2>1 DEF RunOK
  <2>3. /\ plugin' \in {"absent", "old", "current"} /\ {active', ai', domain'} \subseteq BOOLEAN
        /\ mine \subseteq mine' /\ mine' \subseteq Runs
        /\ changed' \in [Runs -> SUBSET {"plugin", "ai"}]
        /\ \A q \in Runs : q # p => changed'[q] = changed[q]
        /\ Preserves'
    BY <1>9, <2>1, <2>2, CommandPreserves DEF LateCommand
  <2>4. /\ pending' = [pending EXCEPT ![p] = "none"] /\ UNCHANGED <<options, commandAt, present>>
        /\ pending'[p] = "none" /\ \A q \in Runs : q # p => pending'[q] = pending[q]
    BY <1>0, <1>9 DEF LateCommand, ProvTypeOK
  <2>5. ProvTypeOK'
    BY <1>0, <2>3, <2>4 DEF ProvTypeOK
  <2>6. RunOK(p)'
    BY <1>9, <2>1, <2>3, <2>4
       DEF LateCommand, RunOK, Unaware, AskedOrMine, IsApi, Changing
  <2>7. ASSUME NEW q \in Runs, q # p PROVE RunOK(q)'
    <3>1. RunOK(q)
      BY <1>0 DEF FoundOrMine
    <3>. QED BY <2>3, <2>4, <2>7, <3>1 DEF RunOK, Unaware, AskedOrMine, IsApi
  <2>. QED BY <2>3, <2>5, <2>6, <2>7 DEF ProvInv, FoundOrMine
<1>. QED BY <1>1, <1>2, <1>3, <1>4, <1>5, <1>6, <1>8, <1>9 DEF ProvNext, ProvStep

(* However many setups, whatever they were asked, and with commands that   *)
(* are executed late: a setup that was not forced and was told what it did *)
(* replaces no plugin that was there and switches AI Abilities on only for *)
(* its own plugin or when asked.  The two kinds that are not told, and what *)
(* each of them keeps, are those of Preserves (setup.ts, existing.ts and   *)
(* provider-api.ts of src/src/provisioning).                               *)
THEOREM PreservesHolds == ProvSpec => []Preserves
<1>1. ProvInv => Preserves
  BY DEF ProvInv
<1>. QED BY <1>1, ProvStarts, ProvSteps, PTL DEF ProvSpec

-----------------------------------------------------------------------------
(* The Pro license.                                                        *)

(* Whatever key is stored, the requests start as the invariant says.        *)
LEMMA ProStarts == ProInit => ProInv
<1>. SUFFICES ASSUME ProInit PROVE ProInv
  OBVIOUS
<1>1. /\ \A i \in Reviews : proReview[i].at = "idle"
      /\ \A s \in Saves : saving[s].at = "idle"
      /\ licensed = {} /\ \A d \in Domains : pro[d] = "none"
  BY DEF ProInit
<1>2. ProTypeOK
  <2>1. PICK d \in Domains :
          /\ proReview = [i \in Reviews |-> [at |-> "idle", key |-> "none", domain |-> d]]
          /\ installWork = [i \in Reviews |-> [key |-> "none", url |-> d]]
    BY DEF ProInit
  <2>2. /\ proReview \in [Reviews ->
             [at : {"idle", "lists", "asks", "planned", "key", "relist", "reask", "activate",
                    "download", "unpack", "configure", "over"}, key : Stored, domain : Domains]]
        /\ installWork \in [Reviews -> [key : Stored, url : Domains]]
    BY <2>1 DEF Stored
  <2>3. /\ saving \in [Saves -> [at : {"idle", "replace", "metadata", "over"},
                                 key : Stored, prior : Stored]]
        /\ pro \in [Domains -> Stored \cup {"installed"}]
    BY DEF ProInit, Stored
  <2>4. stored \in Stored /\ shownKey \in Stored /\ damaged \in BOOLEAN /\ bound \in Domains
    BY DEF ProInit
  <2>5. moves \in 0..MaxMoves
    BY ProAssumption DEF ProInit, ProAssumption
  <2>6. licensed \subseteq [review : Reviews, key : LicenseKeys, domain : Domains]
    BY <1>1
  <2>. QED BY <2>2, <2>3, <2>4, <2>5, <2>6 DEF ProTypeOK
<1>3. KeyAsReviewed /\ ActiveFirst /\ ReviewsOver /\ LicensedAsReviewed
  BY <1>1 DEF KeyAsReviewed, ActiveFirst, ReviewsOver, LicensedAsReviewed
<1>4. OneAtATime
  BY <1>1 DEF OneAtATime, Installing, InSave
<1>5. ShownInBetween
  BY <1>1 DEF ShownInBetween, ProInit
<1>6. ProWhereLicensed
  BY <1>1, ProAssumption DEF ProWhereLicensed, ProAssumption
<1>. QED BY <1>2, <1>3, <1>4, <1>5, <1>6 DEF ProInv

(* What save() and remove() do to the stored key and what is shown of it.  *)
LEMMA SavesInOrder ==
  ASSUME ProInv, NEW s \in Saves, SaveStep(s)
  PROVE  /\ stored' \in Stored /\ shownKey' \in Stored /\ damaged' \in BOOLEAN
         /\ saving' \in [Saves -> [at : {"idle", "replace", "metadata", "over"},
                                   key : Stored, prior : Stored]]
         /\ \A t, u \in InSave' : t = u
         /\ ShownInBetween'
<1>0. ProTypeOK /\ ShownInBetween /\ \A t, u \in InSave : t = u
  BY DEF ProInv, OneAtATime
<1>. DEFINE SaveTypes ==
        saving' \in [Saves -> [at : {"idle", "replace", "metadata", "over"},
                               key : Stored, prior : Stored]]
<1>1. CASE SaveBegins(s)
  <2>1. SaveTypes /\ stored' \in Stored /\ shownKey' \in Stored /\ damaged' \in BOOLEAN
    BY <1>0, <1>1 DEF SaveBegins, ProTypeOK, Stored
  <2>2. \A t, u \in InSave' : t = u
    BY <1>0, <1>1 DEF SaveBegins, ProTypeOK, InSave
  <2>3. ShownInBetween'
    BY <1>0, <1>1 DEF SaveBegins, ProTypeOK, ShownInBetween, InSave
  <2>. QED BY <2>1, <2>2, <2>3
<1>2. CASE ReplaceKey(s)
  <2>1. SaveTypes /\ stored' \in Stored /\ shownKey' \in Stored /\ damaged' \in BOOLEAN
    <3>. DEFINE A == {"idle", "replace", "metadata", "over"}
    <3>1. saving \in [Saves -> [at : A, key : Stored, prior : Stored]] /\ stored \in Stored
      BY <1>0 DEF ProTypeOK
    <3>2. "metadata" \in A /\ "over" \in A
      OBVIOUS
    <3>. HIDE DEF A
    <3>3. saving' \in [Saves -> [at : A, key : Stored, prior : Stored]]
      BY <1>2, <3>1, <3>2 DEF ReplaceKey
    <3>. USE DEF A
    <3>. QED BY <1>0, <1>2, <3>3 DEF ReplaceKey, ProTypeOK
  <2>2. \A t, u \in InSave' : t = u
    BY <1>0, <1>2 DEF ReplaceKey, ProTypeOK, InSave
  <2>3. ShownInBetween'
    BY <1>0, <1>2 DEF ReplaceKey, ProTypeOK, ShownInBetween, InSave
  <2>. QED BY <2>1, <2>2, <2>3
<1>3. CASE WriteMetadata(s)
  <2>1. SaveTypes /\ stored' \in Stored /\ shownKey' \in Stored /\ damaged' \in BOOLEAN
    BY <1>0, <1>3 DEF WriteMetadata, ProTypeOK
  <2>2. \A t, u \in InSave' : t = u
    BY <1>0, <1>3 DEF WriteMetadata, ProTypeOK, InSave
  <2>3. ShownInBetween'
    BY <1>0, <1>3 DEF WriteMetadata, ProTypeOK, ShownInBetween, InSave
  <2>. QED BY <2>1, <2>2, <2>3
<1>4. CASE MetadataFails(s)
  <2>1. SaveTypes /\ stored' \in Stored /\ shownKey' \in Stored /\ damaged' \in BOOLEAN
    BY <1>0, <1>4 DEF MetadataFails, ProTypeOK, PutBack
  <2>2. \A t, u \in InSave' : t = u
    BY <1>0, <1>4 DEF MetadataFails, ProTypeOK, InSave
  <2>3. ShownInBetween'
    BY <1>0, <1>4 DEF MetadataFails, ProTypeOK, ShownInBetween, InSave, PutBack
  <2>. QED BY <2>1, <2>2, <2>3
<1>5. CASE SaveDies(s)
  <2>1. SaveTypes /\ stored' \in Stored /\ shownKey' \in Stored /\ damaged' \in BOOLEAN
    BY <1>0, <1>5 DEF SaveDies, ProTypeOK
  <2>2. \A t, u \in InSave' : t = u
    BY <1>0, <1>5 DEF SaveDies, ProTypeOK, InSave
  <2>3. ShownInBetween'
    BY <1>0, <1>5 DEF SaveDies, ProTypeOK, ShownInBetween, InSave
  <2>. QED BY <2>1, <2>2, <2>3
<1>. QED BY <1>1, <1>2, <1>3, <1>4, <1>5 DEF SaveStep

(* A review goes on to its next step.                                      *)
LEMMA ReviewGoesOn ==
  ASSUME ProTypeOK, NEW i \in Reviews, NEW label, ToReview(i, label),
         label \in {"idle", "lists", "asks", "planned", "key", "relist", "reask", "activate",
                    "download", "unpack", "configure", "over"}
  PROVE  /\ proReview' \in [Reviews ->
              [at : {"idle", "lists", "asks", "planned", "key", "relist", "reask", "activate",
                     "download", "unpack", "configure", "over"}, key : Stored, domain : Domains]]
         /\ proReview'[i].at = label
         /\ \A j \in Reviews : /\ proReview'[j].key = proReview[j].key
                               /\ proReview'[j].domain = proReview[j].domain
                               /\ j # i => proReview'[j] = proReview[j]
BY DEF ToReview, ProTypeOK

(* What was read is written into the review.                               *)
LEMMA ReviewWritten ==
  ASSUME ProTypeOK, NEW i \in Reviews, NEW label \in {"lists", "asks"}, NEW k \in Stored,
         NEW d \in Domains
  PROVE  /\ [proReview EXCEPT ![i].at = label, ![i].key = k] \in [Reviews ->
              [at : {"idle", "lists", "asks", "planned", "key", "relist", "reask", "activate",
                     "download", "unpack", "configure", "over"}, key : Stored, domain : Domains]]
         /\ [proReview EXCEPT ![i].at = label, ![i].domain = d] \in [Reviews ->
              [at : {"idle", "lists", "asks", "planned", "key", "relist", "reask", "activate",
                     "download", "unpack", "configure", "over"}, key : Stored, domain : Domains]]
<1>. DEFINE A == {"idle", "lists", "asks", "planned", "key", "relist", "reask", "activate",
                  "download", "unpack", "configure", "over"}
<1>1. proReview \in [Reviews -> [at : A, key : Stored, domain : Domains]] /\ label \in A
  BY DEF ProTypeOK
<1>. HIDE DEF A
<1>2. /\ [proReview EXCEPT ![i].at = label, ![i].key = k]
           \in [Reviews -> [at : A, key : Stored, domain : Domains]]
      /\ [proReview EXCEPT ![i].at = label, ![i].domain = d]
           \in [Reviews -> [at : A, key : Stored, domain : Domains]]
  BY <1>1
<1>. QED BY <1>2 DEF A

(* No second installation begins while one is under way.                   *)
LEMMA InstallsAlone ==
  ASSUME OneAtATime, NEW i \in Reviews,
         \A j \in Reviews : j # i => proReview'[j].at = proReview[j].at,
         i \in Installing' => i \in Installing \/ Installing = {}
  PROVE  \A j, k \in Installing' : j = k
BY DEF OneAtATime, Installing

(* An install step of a review that is not activated by it: the parts of   *)
(* the invariant about licenses and sites follow from what the review      *)
(* keeps.                                                                  *)
LEMMA ReviewMoves ==
  ASSUME ProInv, NEW i \in Reviews, UNCHANGED saveVars,
         bound' \in Domains, moves' \in 0..MaxMoves,
         proReview' \in [Reviews ->
              [at : {"idle", "lists", "asks", "planned", "key", "relist", "reask", "activate",
                     "download", "unpack", "configure", "over"}, key : Stored, domain : Domains]],
         installWork' \in [Reviews -> [key : Stored, url : Domains]],
         pro' \in [Domains -> Stored \cup {"installed"}],
         licensed \subseteq licensed',
         licensed' \subseteq licensed \cup
           {[review |-> i, key |-> installWork[i].key, domain |-> proReview[i].domain]},
         licensed' # licensed => proReview[i].at = "activate",
         \A j \in Reviews : j # i =>
           proReview'[j] = proReview[j] /\ installWork'[j] = installWork[j],
         proReview[i].at \in {"relist", "reask", "activate", "download", "unpack", "configure",
                              "over"}
           => /\ proReview'[i].key = proReview[i].key /\ proReview'[i].domain = proReview[i].domain
              /\ installWork'[i].key = installWork[i].key,
         proReview[i].at \in {"download", "unpack", "configure", "over"}
           => proReview'[i].at \in {"download", "unpack", "configure", "over"},
         licensed' # licensed => proReview'[i].at \in {"download", "over"},
         proReview'[i].at \in {"relist", "reask", "activate", "download", "unpack", "configure"}
           => /\ installWork'[i].key = proReview'[i].key /\ installWork'[i].key \in LicenseKeys,
         proReview'[i].at \in {"download", "unpack", "configure"}
           => [review |-> i, key |-> installWork'[i].key, domain |-> proReview'[i].domain]
                \in licensed',
         i \in Installing' => i \in Installing \/ Installing = {},
         pro' = pro \/ (/\ proReview[i].at \in {"unpack", "configure"} /\ bound = proReview[i].domain
                        /\ \E x \in {"installed", pro[bound], installWork[i].key} :
                             /\ x # "none" /\ pro' = [pro EXCEPT ![bound] = x]
                             )
  PROVE  ProInv'
<1>0. /\ ProTypeOK /\ KeyAsReviewed /\ ActiveFirst /\ ReviewsOver /\ OneAtATime /\ ShownInBetween
      /\ LicensedAsReviewed /\ ProWhereLicensed
  BY DEF ProInv
<1>. DEFINE new == [review |-> i, key |-> installWork[i].key, domain |-> proReview[i].domain]
<1>1. licensed' # licensed => new.key \in LicenseKeys /\ new.key = proReview[i].key
  BY <1>0 DEF KeyAsReviewed
<1>2. licensed' \subseteq [review : Reviews, key : LicenseKeys, domain : Domains]
  BY <1>0, <1>1 DEF ProTypeOK
<1>3. ProTypeOK'
  BY <1>0, <1>2 DEF ProTypeOK, saveVars
<1>4. KeyAsReviewed'
  BY <1>0 DEF KeyAsReviewed
<1>5. ActiveFirst'
  BY <1>0 DEF ActiveFirst
<1>6. ReviewsOver'
  <2>. SUFFICES ASSUME NEW l \in licensed'
                PROVE  proReview'[l.review].at \in {"download", "unpack", "configure", "over"}
    BY DEF ReviewsOver
  <2>1. CASE l \in licensed
    BY <1>0, <2>1 DEF ReviewsOver, ProTypeOK
  <2>2. CASE l \notin licensed
    BY <2>2
  <2>. QED BY <2>1, <2>2
<1>7. LicensedAsReviewed'
  <2>. SUFFICES ASSUME NEW l \in licensed'
                PROVE  /\ l.key = proReview'[l.review].key
                       /\ l.domain = proReview'[l.review].domain
    BY DEF LicensedAsReviewed
  <2>1. CASE l \in licensed
    BY <1>0, <2>1 DEF ReviewsOver, LicensedAsReviewed, ProTypeOK
  <2>2. CASE l \notin licensed
    BY <1>1, <2>2
  <2>. QED BY <2>1, <2>2
<1>8. ProWhereLicensed'
  <2>1. CASE pro' = pro
    BY <1>0, <2>1 DEF ProWhereLicensed
  <2>2. CASE /\ proReview[i].at \in {"unpack", "configure"} /\ bound = proReview[i].domain
             /\ \E x \in {"installed", pro[bound], installWork[i].key} :
                  x # "none" /\ pro' = [pro EXCEPT ![bound] = x]
    <3>1. new \in licensed /\ new.domain = bound
      BY <1>0, <2>2 DEF ActiveFirst
    <3>2. PICK x \in {"installed", pro[bound], installWork[i].key} :
            x # "none" /\ pro' = [pro EXCEPT ![bound] = x]
      BY <2>2
    <3>3. \A d \in Domains \ {bound} : pro'[d] = pro[d]
      BY <1>0, <3>2 DEF ProTypeOK
    <3>4. pro'[bound] = x /\ bound \in Domains
      BY <1>0, <3>2 DEF ProTypeOK
    <3>5. \A d \in Domains : pro'[d] # "none" => \E l \in licensed' : l.domain = d
      BY <1>0, <3>1, <3>3 DEF ProWhereLicensed
    <3>6. ASSUME NEW d \in Domains, pro'[d] \in LicenseKeys
          PROVE  \E l \in licensed' : l.domain = d /\ l.key = pro'[d]
      <4>1. CASE d # bound
        BY <1>0, <3>3, <3>6, <4>1 DEF ProWhereLicensed
      <4>2. CASE d = bound /\ x = installWork[i].key
        BY <3>1, <3>4, <4>2
      <4>3. CASE d = bound /\ x # installWork[i].key
        BY <1>0, <3>2, <3>4, <3>6, <4>3, ProAssumption DEF ProWhereLicensed, ProAssumption
      <4>. QED BY <4>1, <4>2, <4>3
    <3>. QED BY <3>5, <3>6 DEF ProWhereLicensed
  <2>. QED BY <2>1, <2>2
<1>9. \A j, k \in Installing' : j = k
  BY <1>0, InstallsAlone
<1>10. OneAtATime' /\ ShownInBetween'
  BY <1>0, <1>9 DEF OneAtATime, ShownInBetween, InSave, saveVars
<1>. QED BY <1>3, <1>4, <1>5, <1>6, <1>7, <1>8, <1>10 DEF ProInv

(* The same for a step that only moves the review on.                      *)
LEMMA LabelMoves ==
  ASSUME ProInv, NEW i \in Reviews, NEW label \in {"lists", "asks", "planned", "key", "relist", "reask", "activate", "download",
                        "unpack", "configure", "over"},
         ToReview(i, label), Elsewhere,
         installWork' \in [Reviews -> [key : Stored, url : Domains]],
         \A j \in Reviews : j # i => installWork'[j] = installWork[j],
         proReview[i].at # "key" => installWork'[i].key = installWork[i].key,
         pro' \in [Domains -> Stored \cup {"installed"}],
         \/ licensed' = licensed
         \/ /\ licensed' = licensed \cup
                 {[review |-> i, key |-> installWork[i].key, domain |-> proReview[i].domain]}
            /\ proReview[i].at = "activate" /\ label \in {"download", "over"},
         proReview[i].at \in {"download", "unpack", "configure", "over"}
           => label \in {"download", "unpack", "configure", "over"},
         label \in {"relist", "reask", "activate", "download", "unpack", "configure"}
           => \/ /\ proReview[i].at \in {"relist", "reask", "activate", "download", "unpack"}
                 /\ installWork'[i].key = installWork[i].key
              \/ installWork'[i].key = proReview[i].key /\ installWork'[i].key \in LicenseKeys,
         label \in {"download", "unpack", "configure"}
           => proReview[i].at \in {"download", "unpack"} \/ licensed' # licensed,
         label \in {"key", "relist", "reask", "activate", "download", "unpack", "configure"}
           => \/ Installing = {}
              \/ proReview[i].at \in {"key", "relist", "reask", "activate", "download", "unpack",
                                      "configure"},
         pro' = pro \/ (/\ proReview[i].at \in {"unpack", "configure"} /\ bound = proReview[i].domain
                        /\ \E x \in {"installed", pro[bound], installWork[i].key} :
                             /\ x # "none" /\ pro' = [pro EXCEPT ![bound] = x])
  PROVE  ProInv'
<1>0. ProTypeOK /\ KeyAsReviewed /\ ActiveFirst
  BY DEF ProInv
<1>1. /\ proReview' \in [Reviews ->
              [at : {"idle", "lists", "asks", "planned", "key", "relist", "reask", "activate",
                     "download", "unpack", "configure", "over"}, key : Stored, domain : Domains]]
      /\ proReview'[i].at = label
      /\ \A j \in Reviews : /\ proReview'[j].key = proReview[j].key
                            /\ proReview'[j].domain = proReview[j].domain
                            /\ j # i => proReview'[j] = proReview[j]
  BY <1>0, ReviewGoesOn
<1>2. /\ UNCHANGED saveVars /\ bound' \in Domains /\ moves' \in 0..MaxMoves
      /\ licensed \subseteq licensed'
      /\ licensed' \subseteq licensed \cup
           {[review |-> i, key |-> installWork[i].key, domain |-> proReview[i].domain]}
      /\ licensed' # licensed => proReview[i].at = "activate" /\ label \in {"download", "over"}
  BY <1>0 DEF Elsewhere, ProTypeOK
<1>3. label \in {"relist", "reask", "activate", "download", "unpack", "configure"}
        => installWork'[i].key = proReview'[i].key /\ installWork'[i].key \in LicenseKeys
  BY <1>0, <1>1 DEF KeyAsReviewed
<1>4. label \in {"download", "unpack", "configure"}
        => [review |-> i, key |-> installWork'[i].key, domain |-> proReview'[i].domain]
             \in licensed'
  <2>1. proReview[i].at # "key" => /\ installWork'[i].key = installWork[i].key
                                   /\ proReview'[i].domain = proReview[i].domain
    BY <1>1
  <2>2. CASE proReview[i].at \in {"download", "unpack"}
    BY <1>0, <1>2, <2>1, <2>2 DEF ActiveFirst
  <2>3. CASE licensed' # licensed
    BY <1>2, <2>1, <2>3
  <2>. QED BY <2>2, <2>3
<1>5. i \in Installing' => i \in Installing \/ Installing = {}
  BY <1>1 DEF Installing
<1>. QED BY <1>1, <1>2, <1>3, <1>4, <1>5, ReviewMoves

(* A step of the installation keeps it.                                     *)
LEMMA InstallKeepsInv == ASSUME ProInv, NEW i \in Reviews, InstallStep(i) PROVE ProInv'
<1>0. /\ ProTypeOK /\ KeyAsReviewed /\ ActiveFirst
  BY DEF ProInv
<1>1. CASE PlanReadsKey(i)
  <2>1. proReview' \in [Reviews ->
              [at : {"idle", "lists", "asks", "planned", "key", "relist", "reask", "activate",
                     "download", "unpack", "configure", "over"}, key : Stored, domain : Domains]]
    <3>1. stored \in Stored /\ bound \in Domains
      BY <1>0 DEF ProTypeOK
    <3>. QED BY <1>0, <1>1, <3>1, ReviewWritten DEF PlanReadsKey
  <2>2. /\ proReview[i].at \in {"idle", "lists"} /\ proReview'[i].at \in {"lists", "asks"}
        /\ \A j \in Reviews : j # i => proReview'[j] = proReview[j]
        /\ Elsewhere /\ UNCHANGED <<installWork, licensed, pro>>
    BY <1>0, <1>1 DEF PlanReadsKey, ProTypeOK
  <2>3. /\ UNCHANGED saveVars /\ bound' \in Domains /\ moves' \in 0..MaxMoves
        /\ installWork' \in [Reviews -> [key : Stored, url : Domains]]
        /\ pro' \in [Domains -> Stored \cup {"installed"}]
    BY <1>0, <2>2 DEF Elsewhere, ProTypeOK
  <2>. QED BY <2>1, <2>2, <2>3, ReviewMoves DEF Installing
<1>2. CASE PlanLists(i)
  <2>1. proReview' \in [Reviews ->
              [at : {"idle", "lists", "asks", "planned", "key", "relist", "reask", "activate",
                     "download", "unpack", "configure", "over"}, key : Stored, domain : Domains]]
    <3>1. stored \in Stored /\ bound \in Domains
      BY <1>0 DEF ProTypeOK
    <3>. QED BY <1>0, <1>2, <3>1, ReviewWritten DEF PlanLists
  <2>2. /\ proReview[i].at \in {"idle", "lists"} /\ proReview'[i].at \in {"lists", "asks"}
        /\ \A j \in Reviews : j # i => proReview'[j] = proReview[j]
        /\ Elsewhere /\ UNCHANGED <<installWork, licensed, pro>>
    BY <1>0, <1>2 DEF PlanLists, ProTypeOK
  <2>3. /\ UNCHANGED saveVars /\ bound' \in Domains /\ moves' \in 0..MaxMoves
        /\ installWork' \in [Reviews -> [key : Stored, url : Domains]]
        /\ pro' \in [Domains -> Stored \cup {"installed"}]
    BY <1>0, <2>2 DEF Elsewhere, ProTypeOK
  <2>. QED BY <2>1, <2>2, <2>3, ReviewMoves DEF Installing
<1>3. CASE PlanAsks(i)
  BY <1>0, <1>3, LabelMoves DEF PlanAsks, ProTypeOK
<1>4. CASE ReviewExpires(i)
  BY <1>0, <1>4, LabelMoves DEF ReviewExpires, ProTypeOK
<1>5. CASE TakeReview(i)
  BY <1>0, <1>5, LabelMoves DEF TakeReview, NotBusy, ProTypeOK
<1>6. CASE ReadKey(i)
  <2>1. PICK label \in {"relist", "over"} :
          /\ ToReview(i, label)
          /\ label = "relist" => stored # "none" /\ stored = proReview[i].key
    BY <1>6 DEF ReadKey, SameKey
  <2>2. /\ proReview[i].at = "key" /\ Elsewhere /\ UNCHANGED <<licensed, pro>>
        /\ installWork' = [installWork EXCEPT ![i].key = stored]
    BY <1>6 DEF ReadKey
  <2>3. /\ installWork' \in [Reviews -> [key : Stored, url : Domains]]
        /\ installWork'[i].key = stored
        /\ \A j \in Reviews : j # i => installWork'[j] = installWork[j]
        /\ stored # "none" => stored \in LicenseKeys
    BY <1>0, <2>2 DEF ProTypeOK, Stored
  <2>4. pro' \in [Domains -> Stored \cup {"installed"}]
    BY <1>0, <2>2 DEF ProTypeOK
  <2>. QED BY <2>1, <2>2, <2>3, <2>4, LabelMoves
<1>7. CASE Relist(i)
  BY <1>0, <1>7, LabelMoves DEF Relist, ProTypeOK
<1>8. CASE Reask(i)
  BY <1>0, <1>8, LabelMoves DEF Reask, ProTypeOK
<1>9. CASE ActivateLicense(i)
  <2>1. /\ proReview[i].at = "activate" /\ Elsewhere /\ UNCHANGED <<installWork, pro>>
        /\ installWork' \in [Reviews -> [key : Stored, url : Domains]]
        /\ pro' \in [Domains -> Stored \cup {"installed"}]
    BY <1>0, <1>9 DEF ActivateLicense, ProTypeOK
  <2>2. CASE ToReview(i, "over") /\ UNCHANGED licensed
    BY <2>1, <2>2, LabelMoves
  <2>3. CASE ~(ToReview(i, "over") /\ UNCHANGED licensed)
    <3>1. PICK label \in {"download", "over"} :
            /\ ToReview(i, label)
            /\ licensed' = licensed \cup
                 {[review |-> i, key |-> installWork[i].key, domain |-> proReview[i].domain]}
      BY <1>9, <2>3 DEF ActivateLicense
    <3>2. licensed' # licensed
      <4>1. \A l \in licensed : l.review # i
        BY <2>1 DEF ProInv, ReviewsOver
      <4>. DEFINE new == [review |-> i, key |-> installWork[i].key, domain |-> proReview[i].domain]
      <4>2. new \in licensed' /\ new.review = i
        BY <3>1
      <4>. QED BY <4>1, <4>2
    <3>. QED BY <2>1, <3>1, <3>2, LabelMoves
  <2>. QED BY <2>2, <2>3
<1>10. CASE SignedDownload(i)
  BY <1>0, <1>10, LabelMoves DEF SignedDownload, ProTypeOK
<1>11. CASE InstallPro(i)
  <2>1. PICK label \in {"configure", "over"} : ToReview(i, label)
    BY <1>11 DEF InstallPro
  <2>2. proReview[i].at = "unpack" /\ Elsewhere /\ UNCHANGED <<installWork, licensed>>
    BY <1>11 DEF InstallPro
  <2>3. /\ installWork' \in [Reviews -> [key : Stored, url : Domains]]
        /\ pro' \in [Domains -> Stored \cup {"installed"}]
    BY <1>0, <1>11 DEF InstallPro, ProTypeOK
  <2>4. \/ pro' = pro
        \/ /\ bound = proReview[i].domain
           /\ \E x \in {"installed", pro[bound], installWork[i].key} :
                x # "none" /\ pro' = [pro EXCEPT ![bound] = x]
    BY <1>0, <1>11 DEF InstallPro, AtReviewedSite, ProTypeOK
  <2>. QED BY <2>1, <2>2, <2>3, <2>4, LabelMoves
<1>12. CASE ConfigurePro(i)
  <2>1. /\ proReview[i].at = "configure" /\ Elsewhere /\ UNCHANGED <<installWork, licensed>>
        /\ ToReview(i, "over")
    BY <1>12 DEF ConfigurePro
  <2>2. /\ installWork' \in [Reviews -> [key : Stored, url : Domains]]
        /\ pro' \in [Domains -> Stored \cup {"installed"}]
    BY <1>0, <1>12 DEF ConfigurePro, ProTypeOK
  <2>3. installWork[i].key # "none"
    BY <1>0, <2>1, ProAssumption DEF KeyAsReviewed, ProAssumption
  <2>4. \/ pro' = pro
        \/ /\ bound = proReview[i].domain
           /\ \E x \in {"installed", pro[bound], installWork[i].key} :
                x # "none" /\ pro' = [pro EXCEPT ![bound] = x]
    BY <1>12, <2>3 DEF ConfigurePro, AtReviewedSite
  <2>. QED BY <2>1, <2>2, <2>4, LabelMoves
<1>. QED BY <1>1, <1>2, <1>3, <1>4, <1>5, <1>6, <1>7, <1>8, <1>9, <1>10, <1>11, <1>12 DEF InstallStep

(* Every step of a request and of the site keeps it.                        *)
LEMMA ProSteps == ProInv /\ [ProNext]_proVars => ProInv'
<1>. SUFFICES ASSUME ProInv, [ProNext]_proVars PROVE ProInv'
  OBVIOUS
<1>0. /\ ProTypeOK /\ KeyAsReviewed /\ ActiveFirst /\ ReviewsOver /\ OneAtATime /\ ShownInBetween
      /\ LicensedAsReviewed /\ ProWhereLicensed
  BY DEF ProInv
<1>1. ASSUME UNCHANGED installVars, UNCHANGED bound, UNCHANGED moves,
             UNCHANGED saveVars \/ \E s \in Saves : SaveStep(s)
      PROVE  ProInv'
  <2>1. /\ ProTypeOK' /\ ShownInBetween' /\ \A t, u \in InSave' : t = u
    <3>1. CASE UNCHANGED saveVars
      BY <1>0, <1>1, <3>1 DEF saveVars, installVars, ProTypeOK, ShownInBetween, OneAtATime, InSave
    <3>2. CASE \E s \in Saves : SaveStep(s)
      BY <1>0, <1>1, <3>2, SavesInOrder DEF installVars, ProTypeOK
    <3>. QED BY <1>1, <3>1, <3>2
  <2>2. OneAtATime'
    BY <1>0, <1>1, <2>1 DEF installVars, OneAtATime, Installing
  <2>3. KeyAsReviewed' /\ ActiveFirst' /\ ReviewsOver' /\ LicensedAsReviewed' /\ ProWhereLicensed'
    BY <1>0, <1>1 DEF installVars, KeyAsReviewed, ActiveFirst, ReviewsOver, LicensedAsReviewed,
                      ProWhereLicensed
  <2>. QED BY <2>1, <2>2, <2>3 DEF ProInv
<1>2. CASE UNCHANGED proVars
  BY <1>1, <1>2 DEF proVars
<1>3. CASE Moves
  <2>1. /\ UNCHANGED <<saveVars, installVars>> /\ bound' \in Domains /\ moves' \in 0..MaxMoves
    BY <1>0, <1>3, ProAssumption DEF Moves, ProTypeOK, ProAssumption
  <2>2. ProTypeOK'
    BY <1>0, <2>1 DEF saveVars, installVars, ProTypeOK
  <2>3. OneAtATime' /\ ShownInBetween'
    BY <1>0, <2>1 DEF saveVars, installVars, OneAtATime, Installing, InSave, ShownInBetween
  <2>4. KeyAsReviewed' /\ ActiveFirst' /\ ReviewsOver' /\ LicensedAsReviewed' /\ ProWhereLicensed'
    BY <1>0, <2>1 DEF installVars, KeyAsReviewed, ActiveFirst, ReviewsOver, LicensedAsReviewed,
                      ProWhereLicensed
  <2>. QED BY <2>2, <2>3, <2>4 DEF ProInv
<1>4. ASSUME NEW s \in Saves, SaveBegins(s) \/ ReplaceKey(s) \/ MetadataFails(s) \/ SaveDies(s)
      PROVE  ProInv'
  <2>1. UNCHANGED <<bound, moves, installVars>> /\ SaveStep(s)
    BY <1>4 DEF SaveBegins, ReplaceKey, MetadataFails, SaveDies, SaveStep
  <2>. QED BY <1>1, <2>1
<1>5. ASSUME NEW s \in Saves, WriteMetadata(s) PROVE ProInv'
  <2>1. /\ stored' \in Stored /\ shownKey' \in Stored /\ damaged' \in BOOLEAN
        /\ saving' \in [Saves -> [at : {"idle", "replace", "metadata", "over"},
                                  key : Stored, prior : Stored]]
        /\ \A t, u \in InSave' : t = u
        /\ ShownInBetween'
    BY <1>5, SavesInOrder DEF SaveStep
  <2>2. UNCHANGED <<bound, moves, installWork, licensed, pro>>
    BY <1>5 DEF WriteMetadata
  <2>3. /\ proReview' \in [Reviews ->
              [at : {"idle", "lists", "asks", "planned", "key", "relist", "reask", "activate",
                     "download", "unpack", "configure", "over"}, key : Stored, domain : Domains]]
        /\ \A i \in Reviews :
             /\ proReview'[i].key = proReview[i].key /\ proReview'[i].domain = proReview[i].domain
             /\ \/ proReview'[i].at = proReview[i].at
                \/ proReview[i].at = "planned" /\ proReview'[i].at = "over"
    <3>1. CASE proReview' = proReview
      BY <1>0, <3>1 DEF ProTypeOK
    <3>2. CASE proReview' = Cleared
      <4>1. Cleared \in [Reviews ->
              [at : {"idle", "lists", "asks", "planned", "key", "relist", "reask", "activate",
                     "download", "unpack", "configure", "over"}, key : Stored, domain : Domains]]
        BY <1>0 DEF ProTypeOK, Cleared
      <4>2. ASSUME NEW i \in Reviews
            PROVE  /\ Cleared[i].key = proReview[i].key /\ Cleared[i].domain = proReview[i].domain
                   /\ \/ Cleared[i].at = proReview[i].at
                      \/ proReview[i].at = "planned" /\ Cleared[i].at = "over"
        BY <1>0 DEF ProTypeOK, Cleared
      <4>. HIDE DEF Cleared
      <4>. QED BY <3>2, <4>1, <4>2
    <3>. QED BY <1>5, <3>1, <3>2 DEF WriteMetadata
  <2>4. ProTypeOK'
    BY <1>0, <2>1, <2>2, <2>3 DEF ProTypeOK
  <2>5. OneAtATime'
    BY <1>0, <2>1, <2>3 DEF OneAtATime, Installing
  <2>6. KeyAsReviewed' /\ ActiveFirst'
    BY <1>0, <2>2, <2>3 DEF KeyAsReviewed, ActiveFirst
  <2>7. ReviewsOver' /\ LicensedAsReviewed'
    BY <1>0, <2>2, <2>3 DEF ReviewsOver, LicensedAsReviewed, ProTypeOK
  <2>8. ProWhereLicensed'
    BY <1>0, <2>2 DEF ProWhereLicensed
  <2>. QED BY <2>1, <2>4, <2>5, <2>6, <2>7, <2>8 DEF ProInv
<1>6. ASSUME NEW i \in Reviews, InstallStep(i) PROVE ProInv'
  BY <1>6, InstallKeepsInv
<1>. QED BY <1>2, <1>3, <1>4, <1>5, <1>6 DEF ProNext, SaveStep

(* However many confirmations, saves and processes: a license is activated *)
(* and Pro installed only as the user reviewed it, one at a time, and the  *)
(* dashboard shows the end of the key that is stored (src/src/pro).        *)
THEOREM ProAsReviewedHolds == ProSpec => []ProAsReviewed
<1>1. ProInv => ProAsReviewed
  <2>. SUFFICES ASSUME ProInv PROVE ProAsReviewed
    OBVIOUS
  <2>1. Cardinality(Installing) <= 1
    <3>1. CASE Installing = {}
      BY <3>1, FS_EmptySet
    <3>2. CASE Installing # {}
      <4>1. PICK i \in Installing : Installing = {i}
        BY <3>2 DEF ProInv, OneAtATime
      <4>. QED BY <4>1, FS_Singleton
    <3>. QED BY <3>1, <3>2
  <2>2. InSave = {} /\ ~damaged => shownKey = stored
    BY DEF ProInv, ShownInBetween, InSave
  <2>. QED BY <2>1, <2>2 DEF ProInv, ProAsReviewed
<1>. QED BY <1>1, ProStarts, ProSteps, PTL DEF ProSpec

-----------------------------------------------------------------------------
(* Requests about an account (AccountHandlers): a connection is removed     *)
(* only as its review showed.                                              *)

(* A set of numbers that is not empty has a least one, the one chosen.     *)
LEMMA FirstOfThem ==
  ASSUME NEW S \in SUBSET Nat, S # {}
  PROVE  (CHOOSE n \in S : \A m \in S : n <= m) \in S
<1>1. PICK x \in S : \A y \in S : ~(y < x)
  BY FirstOf
<1>2. \A y \in S : x <= y
  BY <1>1
<1>. QED BY <1>2

(* The places and notices by name.                                         *)
LEMMA TabNames ==
  /\ {"idle", "save", "verify", "review", "confirm", "compare", "sites", "account", "forget",
      "clear", "asked", "done"} \subseteq TabPlaces
  /\ {"none", "danger", "verified", "unverified", "review", "removed"} \subseteq Notices
  /\ {"kept", "removed"} \subseteq Ends_ /\ {"yes", "no", "unsaid"} \subseteq Answers_
  /\ Acting \subseteq TabPlaces
BY DEF TabPlaces, Tasks_, Acting, Notices, Ends_, Answers_

(* What is known of a request, and what a step makes of it.                *)
LEMMA TabHas ==
  ASSUME AccountPieces, NEW t \in Tabs
  PROVE  tab \in [Tabs -> TabRecords] /\ tab[t] \in TabRecords
BY DEF AccountPieces

(* A request set to a record that fits is that record, the others as before. *)
LEMMA TabSet ==
  ASSUME AccountPieces, NEW t \in Tabs, NEW r \in TabRecords, tab' = [tab EXCEPT ![t] = r]
  PROVE  /\ tab' \in [Tabs -> TabRecords] /\ tab'[t] = r
         /\ \A u \in Tabs : u # t => tab'[u] = tab[u]
BY DEF AccountPieces

SamePlan(r, q) == /\ r.plan = q.plan /\ r.remove = q.remove /\ r.left = q.left
                  /\ r.removed = q.removed /\ r.account = q.account
Same(r, q) == /\ r.plan = q.plan /\ r.remove = q.remove /\ r.left = q.left
              /\ r.removed = q.removed /\ r.moved = q.moved /\ r.account = q.account

(* A request that goes on to a place keeps the rest.                       *)
LEMMA TabMoves ==
  ASSUME AccountPieces, NEW t \in Tabs, NEW at \in TabPlaces, TabTo(t, at)
  PROVE  /\ tab' \in [Tabs -> TabRecords]
         /\ \A u \in Tabs : u # t => tab'[u] = tab[u]
         /\ tab'[t].at = at /\ Same(tab'[t], tab[t])
<1>1. [tab[t] EXCEPT !.at = at] \in TabRecords
  BY TabHas DEF TabRecords
<1>2. tab' = [tab EXCEPT ![t] = [tab[t] EXCEPT !.at = at]]
  BY DEF TabTo
<1>3. [tab[t] EXCEPT !.at = at].at = at /\ Same([tab[t] EXCEPT !.at = at], tab[t])
  BY TabHas DEF TabRecords, Same
<1>. QED BY <1>1, <1>2, <1>3, TabSet

(* A request that ends with a notice keeps what it did.                   *)
LEMMA TabNotices ==
  ASSUME AccountPieces, NEW t \in Tabs, NEW n \in Notices, Notice(t, n)
  PROVE  /\ tab' \in [Tabs -> TabRecords]
         /\ \A u \in Tabs : u # t => tab'[u] = tab[u]
         /\ tab'[t].at = "done" /\ Same(tab'[t], tab[t])
<1>. DEFINE r == [tab[t] EXCEPT !.at = "done", !.notice = n]
<1>0. "done" \in TabPlaces
  BY TabNames
<1>1. r \in TabRecords
  BY <1>0, TabHas DEF TabRecords
<1>2. tab' = [tab EXCEPT ![t] = r]
  BY DEF Notice
<1>3. r.at = "done" /\ Same(r, tab[t])
  BY TabHas DEF TabRecords, Same
<1>. QED BY <1>1, <1>2, <1>3, TabSet

(* What taking the plan out of the map makes of it, and leaves of others.  *)
LEMMA ConsumedIs ==
  ASSUME AccountPieces, NEW n \in 1 .. Cardinality(Tabs), review' = Consumed(n)
  PROVE  /\ review' \in [1 .. Cardinality(Tabs) -> RemovalRecords]
         /\ \A m \in 1 .. Cardinality(Tabs) :
              review[m].state = "used" \/ m # n => review'[m] = review[m]
         /\ review[n].state = "pending" =>
              /\ review'[n].state = "used" /\ review'[n].sites = review[n].sites
              /\ review[n].known => review'[n] \in UsedPlans
<1>1. /\ review \in [1 .. Cardinality(Tabs) -> RemovalRecords] /\ review[n] \in RemovalRecords
  BY DEF AccountPieces
<1>. DEFINE r == [review[n] EXCEPT !.state = "used"]
<1>2. r \in RemovalRecords
  BY <1>1 DEF RemovalRecords
<1>3. review[n].state = "used" => r = review[n]
  BY <1>1 DEF RemovalRecords
<1>4. review[n].state = "pending" => /\ r.state = "used" /\ r.sites = review[n].sites
                                     /\ review[n].known => r \in UsedPlans
  BY <1>1 DEF RemovalRecords, UsedPlans
<1>5. review' = review \/ review' = [review EXCEPT ![n] = r]
  BY DEF Consumed
<1>6. review[n].state = "pending" => review' = [review EXCEPT ![n] = r]
  BY DEF Consumed
<1>. HIDE DEF r
<1>. QED BY <1>1, <1>2, <1>3, <1>4, <1>5, <1>6

(* Whoever steps, a plan that is used up stays as it is.                   *)
LEMMA ReviewStays ==
  ASSUME AccountPieces, [ANext]_aVars
  PROVE  /\ review' \in [1 .. Cardinality(Tabs) -> RemovalRecords]
         /\ \A m \in 1 .. Cardinality(Tabs) : review[m].state = "used" => review'[m] = review[m]
<1>0. review \in [1 .. Cardinality(Tabs) -> RemovalRecords] /\ links \in Lists
  BY DEF AccountPieces
<1>1. CASE UNCHANGED review
  BY <1>0, <1>1
<1>2. ASSUME NEW t \in Tabs, ConfirmRemoval(t) PROVE review' = Consumed(tab[t].plan)
  BY <1>2 DEF ConfirmRemoval
<1>3. ASSUME NEW t \in Tabs, ConfirmRemoval(t), tab[t].plan \notin 1 .. Cardinality(Tabs)
      PROVE  review' = review
  BY <1>0, <1>3 DEF ConfirmRemoval, Consumed
<1>4. ASSUME NEW n \in DOMAIN review, Expire(n)
      PROVE  /\ review' \in [1 .. Cardinality(Tabs) -> RemovalRecords]
             /\ \A m \in 1 .. Cardinality(Tabs) : review[m].state = "used" => review'[m] = review[m]
  <2>. DEFINE r == [review[n] EXCEPT !.state = "expired"]
  <2>1. review[n] \in RemovalRecords /\ review[n].state = "pending" /\ review' = [review EXCEPT ![n] = r]
    BY <1>0, <1>4 DEF Expire
  <2>2. r \in RemovalRecords
    BY <2>1 DEF RemovalRecords
  <2>. HIDE DEF r
  <2>. QED BY <1>0, <2>1, <2>2
<1>5. ASSUME NEW t \in Tabs, Review(t)
      PROVE  /\ review' \in [1 .. Cardinality(Tabs) -> RemovalRecords]
             /\ \A m \in 1 .. Cardinality(Tabs) : review[m].state = "used" => review'[m] = review[m]
  <2>. DEFINE purged == [n \in DOMAIN review |->
                 IF review[n].state = "expired" THEN [state |-> "dropped"] ELSE review[n]]
              fresh == {n \in DOMAIN review : review[n].state = "none"}
              first == CHOOSE n \in fresh : \A m \in fresh : n <= m
  <2>1. [state |-> "dropped"] \in RemovalRecords
    BY DEF RemovalRecords
  <2>2. /\ purged \in [1 .. Cardinality(Tabs) -> RemovalRecords]
        /\ \A m \in 1 .. Cardinality(Tabs) : review[m].state = "used" => purged[m] = review[m]
    BY <1>0, <2>1
  <2>3. fresh # {} => first \in fresh
    <3>1. fresh \in SUBSET Nat
      BY <1>0
    <3>. HIDE DEF fresh
    <3>. QED BY <3>1, FirstOfThem
  <2>4. \/ review' = purged
        \/ /\ fresh # {}
           /\ \E known \in BOOLEAN, own \in SUBSET {n \in Links : links[n] # NoAccount} :
                review' = [purged EXCEPT ![first] = [state |-> "pending", known |-> known,
                             sites |-> {<< n, links[n] >> : n \in own}]]
    BY <1>5 DEF Review, PendingRemovals
  <2>5. ASSUME NEW known \in BOOLEAN, NEW own \in SUBSET {n \in Links : links[n] # NoAccount}
        PROVE  [state |-> "pending", known |-> known, sites |-> {<< n, links[n] >> : n \in own}]
                 \in RemovalRecords
    <3>1. {<< n, links[n] >> : n \in own} \subseteq Connections
      BY <1>0 DEF Lists, Connections
    <3>. QED BY <3>1 DEF RemovalRecords
  <2>6. \A m \in fresh : review[m].state # "used"
    OBVIOUS
  <2>. HIDE DEF purged, fresh, first
  <2>. QED BY <2>2, <2>3, <2>4, <2>5, <2>6
<1>6. ASSUME NEW t \in Tabs, ConfirmRemoval(t), tab[t].plan \in 1 .. Cardinality(Tabs)
      PROVE  /\ review' \in [1 .. Cardinality(Tabs) -> RemovalRecords]
             /\ \A m \in 1 .. Cardinality(Tabs) : review[m].state = "used" => review'[m] = review[m]
  BY <1>2, <1>6, ConsumedIs
<1>. QED BY <1>0, <1>1, <1>3, <1>4, <1>5, <1>6
     DEF ANext, aVars, BeginTask, Upsert, Clear, AskAccount, Verified, Compare, Disconnect,
         Disconnected, RemoveAccount, Forget, Edit

(* A request that does not move is shown what it was shown, when what it   *)
(* knows to be gone stays so and a connection only goes away.              *)
LEMMA OthersShown ==
  ASSUME AccountInv, NEW u \in Tabs, tab'[u] = tab[u],
         RemovedSites(u) \/ tab[u].removed # {} =>
           review'[tab[u].plan] = review[tab[u].plan],
         \A n \in Links : GoneLink(u, n) => GoneLink(u, n)',
         \A n \in Links : \/ links'[n] = links[n]
                          \/ links'[n] = NoAccount /\ (links[n] = NoAccount \/ GoneLink(u, n)')
  PROVE  ShownTo(u)'
<1>0. ShownTo(u) /\ NotYet /\ PlanStands /\ tab[u] \in TabRecords
  BY TabHas DEF AccountInv, AsShown
<1>1. tab[u].at \in {"compare", "sites"} => RemovedSites(u)
  BY <1>0 DEF NotYet, RemovedSites, Removes, Acting
<1>2. RemovedSites(u)' <=> RemovedSites(u)
  BY DEF RemovedSites, Removes
<1>3. \A s \in Connections : s[1] \in Links /\ s[2] # NoAccount
  BY AccountAssumption DEF AccountAssumption, Connections
<1>4. tab[u].left \subseteq Connections
  BY <1>0 DEF TabRecords
<1>5. RemovedSites(u) => review[tab[u].plan].sites \subseteq Connections
  BY <1>0 DEF PlanStands, UsedPlans
<1>6. tab[u].at = "sites" => \A s \in tab[u].left :
        /\ links'[s[1]] \in {s[2], NoAccount} \/ s[1] \in tab[u].moved
        /\ links'[s[1]] = s[2] \/ GoneLink(u, s[1])'
  BY <1>0, <1>3, <1>4 DEF ShownTo
<1>7. RemovedSites(u) => \A s \in review[tab[u].plan].sites : s \in tab[u].left \/ GoneLink(u, s[1])'
  BY <1>0, <1>3, <1>5 DEF ShownTo
<1>. QED BY <1>0, <1>1, <1>2, <1>6, <1>7 DEF ShownTo

(* A request that removes nothing moves on outside of a removal.           *)
LEMMA OutsideStep ==
  ASSUME AccountInv, [ANext]_aVars, NEW t \in Tabs, tab' \in [Tabs -> TabRecords],
         tab[t].at \notin Acting \cup {"done"}, tab'[t].at \notin Acting,
         \A u \in Tabs : u # t => tab'[u] = tab[u],
         tab'[t].removed = {}, tab'[t].account = "kept", UNCHANGED links,
         tab'[t].plan \in 1 .. Cardinality(Tabs)
  PROVE  NotYet' /\ UsedByOne' /\ PlanStands' /\ AsShown'
<1>0. /\ AccountPieces /\ NotYet /\ UsedByOne /\ PlanStands
      /\ DOMAIN review = 1 .. Cardinality(Tabs) /\ DOMAIN review' = 1 .. Cardinality(Tabs)
  BY ReviewStays DEF AccountInv, AccountPieces
<1>1. NotYet'
  BY <1>0 DEF NotYet, Acting
<1>2. UsedByOne'
  BY <1>0, ReviewStays DEF UsedByOne
<1>3. \A u \in Tabs : (RemovedSites(u) \/ tab[u].removed # {}) =>
        /\ tab[u].plan \in 1 .. Cardinality(Tabs) /\ review'[tab[u].plan] = review[tab[u].plan]
  BY <1>0, ReviewStays DEF PlanStands, UsedPlans
<1>4. ~ RemovedSites(t)' /\ tab'[t].removed = {}
  BY DEF RemovedSites, Removes
<1>5. \A u \in Tabs : u # t => (RemovedSites(u)' <=> RemovedSites(u))
  BY DEF RemovedSites, Removes
<1>6. PlanStands'
  BY <1>0, <1>3, <1>4, <1>5 DEF PlanStands
<1>7. tab[t].removed = {}
  BY <1>0 DEF NotYet, Acting
<1>8. \A u \in Tabs : \A n : u # t /\ GoneLink(u, n) => GoneLink(u, n)'
  BY <1>7 DEF GoneLink
<1>9. \A u \in Tabs : u # t => ShownTo(u)'
  BY <1>3, <1>8, OthersShown
<1>10. ShownTo(t)'
  BY <1>4 DEF ShownTo, Acting
<1>. QED BY <1>1, <1>2, <1>6, <1>9, <1>10 DEF AsShown

(* A request moves on in a removal, with the plan it has; it has seen the  *)
(* plan used up, and knows of what it removes.                             *)
LEMMA InsideStep ==
  ASSUME AccountInv, NEW t \in Tabs, tab' \in [Tabs -> TabRecords], UNCHANGED review,
         tab[t].at \in Acting, tab'[t].at \in Acting \cup {"done"},
         tab'[t].at = "compare" => FALSE,
         tab'[t].at = "sites" => tab[t].remove = "yes",
         \A u \in Tabs : u # t => tab'[u] = tab[u],
         tab'[t].plan = tab[t].plan, tab'[t].remove = tab[t].remove,
         tab[t].removed \subseteq tab'[t].removed,
         tab'[t].removed # {} => tab[t].remove = "yes",
         tab'[t].account = "removed" => tab'[t].at \in {"forget", "done"},
         \A n \in Links : \/ links'[n] = links[n]
                          \/ /\ links'[n] = NoAccount
                             /\ links[n] = NoAccount \/ \E s \in tab'[t].removed : s[1] = n
  PROVE  NotYet' /\ UsedByOne' /\ PlanStands' /\ \A u \in Tabs : u # t => ShownTo(u)'
<1>0. /\ AccountPieces /\ NotYet /\ UsedByOne /\ PlanStands
      /\ tab[t] \in TabRecords /\ tab'[t] \in TabRecords
  BY TabHas DEF AccountInv
<1>1. NotYet'
  BY <1>0 DEF NotYet, Acting, TabRecords, Ends_
<1>2. UsedByOne'
  BY <1>0 DEF UsedByOne, Acting
<1>3. PlanStands'
  BY <1>0 DEF PlanStands, RemovedSites, Removes, Acting
<1>4. \A u \in Tabs, n \in Links : u # t /\ GoneLink(u, n) => GoneLink(u, n)'
  BY DEF GoneLink
<1>5. \A u \in Tabs, n \in Links : (\E s \in tab'[t].removed : s[1] = n) => GoneLink(u, n)'
  BY DEF GoneLink
<1>6. \A u \in Tabs : u # t => ShownTo(u)'
  BY <1>4, <1>5, OthersShown
<1>. QED BY <1>1, <1>2, <1>3, <1>6

(* The variables keep their types.                                         *)
LEMMA AccountTypesStep == ASSUME AccountInv, [ANext]_aVars PROVE AccountPieces'
<1>0. /\ AccountPieces /\ tab \in [Tabs -> TabRecords] /\ links \in Lists
      /\ account \in Versions /\ saves \in Nat
  BY DEF AccountInv, AccountPieces
<1>1. review' \in [1 .. Cardinality(Tabs) -> RemovalRecords]
  BY <1>0, ReviewStays
<1>2. account' \in Versions /\ saves' \in Nat
  <2>1. CASE \E t \in Tabs : Upsert(t)
    <3>1. \/ saves' = saves + 1 /\ account' = saves + 1
          \/ UNCHANGED << account, saves >>
      BY <2>1 DEF Upsert
    <3>. QED BY <1>0, <3>1 DEF Versions
  <2>2. CASE \E t \in Tabs : RemoveAccount(t)
    BY <1>0, <2>2 DEF RemoveAccount, Versions
  <2>3. CASE UNCHANGED << account, saves >>
    BY <1>0, <2>3
  <2>. QED BY <2>1, <2>2, <2>3
    DEF ANext, aVars, BeginTask, Clear, AskAccount, Verified, Review, ConfirmRemoval,
        Compare, Disconnect, Disconnected, Forget, Edit, Expire
<1>3. links' \in Lists
  BY <1>0 DEF ANext, aVars, BeginTask, Upsert, Clear, AskAccount, Verified, Review, ConfirmRemoval,
              Compare, Disconnect, Disconnected, RemoveAccount, Forget, Edit, Expire, Lists
<1>4. tab' \in [Tabs -> TabRecords]
  <2>1. CASE UNCHANGED tab
    BY <1>0, <2>1
  <2>2. ASSUME NEW n \in Links, NEW u \in Urls \cup {NoAccount}, Edit(n, u)
        PROVE  tab' \in [Tabs -> TabRecords]
    <3>1. \A t \in Tabs : [tab[t] EXCEPT !.moved = @ \cup {n}] \in TabRecords
      BY <1>0 DEF TabRecords
    <3>. QED BY <1>0, <2>2, <3>1 DEF Edit
  <2>3. ASSUME NEW t \in Tabs, NEW at \in TabPlaces, TabTo(t, at)
        PROVE  tab' \in [Tabs -> TabRecords]
    BY <1>0, <2>3, TabMoves
  <2>4. ASSUME NEW t \in Tabs, NEW n \in Notices, Notice(t, n)
        PROVE  tab' \in [Tabs -> TabRecords]
    BY <1>0, <2>4, TabNotices
  <2>5. ASSUME NEW t \in Tabs, BeginTask(t) PROVE tab' \in [Tabs -> TabRecords]
    <3>1. PICK k \in Tasks_, n \in DOMAIN review, rm \in {"yes", "no", "unsaid"}, f \in BOOLEAN :
            tab' = [tab EXCEPT ![t] = TabOf(k, k, n, rm, f)]
      BY <2>5 DEF BeginTask
    <3>2. /\ k \in TabPlaces /\ k \in Tasks_ \cup {"none"} /\ n \in TabPlans /\ rm \in Answers_
          /\ NoAccount \in Versions /\ "none" \in Notices /\ "kept" \in Ends_
      BY <1>0, TabNames DEF TabPlaces, TabPlans, Answers_, Versions, AccountPieces
    <3>3. TabOf(k, k, n, rm, f) \in TabRecords
      BY <3>2 DEF TabOf, TabRecords
    <3>. QED BY <1>0, <3>1, <3>3
  <2>6. ASSUME NEW t \in Tabs, AskAccount(t) PROVE tab' \in [Tabs -> TabRecords]
    <3>1. [tab[t] EXCEPT !.at = "asked", !.version = account] \in TabRecords
      BY <1>0, TabNames DEF TabRecords
    <3>. QED BY <1>0, <2>4, <2>6, <3>1, TabNames DEF AskAccount
  <2>7. ASSUME NEW t \in Tabs, ConfirmRemoval(t) PROVE tab' \in [Tabs -> TabRecords]
    <3>1. CASE /\ review[tab[t].plan].state = "pending" /\ review[tab[t].plan].known
               /\ tab' = [tab EXCEPT ![t] = [@ EXCEPT !.at = "compare",
                                                      !.left = review[tab[t].plan].sites]]
      <4>. DEFINE p == tab[t].plan
      <4>1. p \in DOMAIN review
        BY <2>7 DEF AccountInv, NotYet, ConfirmRemoval
      <4>2. review[p].sites \in SUBSET Connections
        BY <1>0, <3>1, <4>1 DEF AccountPieces, RemovalRecords
      <4>3. [tab[t] EXCEPT !.at = "compare", !.left = review[p].sites] \in TabRecords
        <5>1. tab[t] \in TabRecords /\ "compare" \in TabPlaces
          BY <1>0, TabNames
        <5>. QED BY <4>2, <5>1 DEF TabRecords
      <4>. QED BY <1>0, <3>1, <4>3
    <3>. QED BY <1>0, <2>3, <2>4, <2>7, <3>1, TabNames DEF ConfirmRemoval
  <2>8. ASSUME NEW t \in Tabs, Compare(t) PROVE tab' \in [Tabs -> TabRecords]
    <3>1. [tab[t] EXCEPT !.at = "sites", !.moved = {}] \in TabRecords
      BY <1>0, TabNames DEF TabRecords
    <3>. QED BY <1>0, <2>4, <2>8, <3>1, TabNames DEF Compare
  <2>9. ASSUME NEW t \in Tabs, Disconnect(t) PROVE tab' \in [Tabs -> TabRecords]
    <3>1. PICK one \in tab[t].left :
            \/ tab' = [tab EXCEPT ![t] = AfterRemoval(t, one)]
            \/ tab' = [tab EXCEPT ![t] = AfterFailure(t, one)]
      BY <2>9 DEF Disconnect
    <3>2. tab[t].left \subseteq Connections /\ tab[t].removed \subseteq Connections
      BY <1>0 DEF TabRecords
    <3>3. links[one[1]] # NoAccount => << one[1], links[one[1]] >> \in Connections
      BY <1>0, <3>2 DEF Lists, Connections
    <3>. DEFINE more == IF links[one[1]] = NoAccount THEN tab[t].removed
                        ELSE tab[t].removed \cup {<< one[1], links[one[1]] >>}
    <3>4. more \in SUBSET Connections /\ tab[t].left \ {one} \in SUBSET Connections
      BY <3>2, <3>3
    <3>5. AfterRemoval(t, one) \in TabRecords
      <4>1. AfterRemoval(t, one) = [tab[t] EXCEPT !.left = tab[t].left \ {one}, !.removed = more]
        BY DEF AfterRemoval
      <4>. HIDE DEF more
      <4>2. [tab[t] EXCEPT !.left = tab[t].left \ {one}, !.removed = more] \in TabRecords
        BY <1>0, <3>4 DEF TabRecords
      <4>. QED BY <4>1, <4>2
    <3>6. AfterFailure(t, one) \in TabRecords
      BY <1>0, TabNames DEF TabRecords, AfterFailure
    <3>. QED BY <1>0, <3>1, <3>5, <3>6
  <2>10. ASSUME NEW t \in Tabs, RemoveAccount(t) PROVE tab' \in [Tabs -> TabRecords]
    <3>1. [tab[t] EXCEPT !.at = "forget", !.account = "removed"] \in TabRecords
      BY <1>0, TabNames DEF TabRecords
    <3>. QED BY <1>0, <2>4, <2>10, <3>1, TabNames DEF RemoveAccount
  <2>11. ASSUME NEW t \in Tabs, Upsert(t) \/ Clear(t) \/ Verified(t) \/ Review(t) \/ Disconnected(t)
                                \/ Forget(t)
         PROVE  tab' \in [Tabs -> TabRecords]
    BY <1>0, <2>3, <2>4, <2>11, TabNames
       DEF Upsert, Clear, Verified, Review, Disconnected, Forget
  <2>. QED BY <1>0, <2>1, <2>2, <2>5, <2>6, <2>7, <2>8, <2>9, <2>10, <2>11 DEF ANext, aVars, Expire
<1>. QED BY <1>1, <1>2, <1>3, <1>4 DEF AccountPieces

(* The states the requests start from, the plan of an earlier review too.  *)
LEMMA AccountStarts == AInit => AccountInv
<1>. SUFFICES ASSUME AInit PROVE AccountInv
  OBVIOUS
<1>1. IdleTab \in TabRecords
  BY TabNames DEF IdleTab, TabOf, TabRecords, TabPlans, Versions
<1>2. \A t \in Tabs : tab[t] = IdleTab
  BY DEF AInit
<1>3. \A t \in Tabs : /\ tab[t].at = "idle" /\ tab[t].removed = {} /\ tab[t].account = "kept"
                      /\ tab[t].remove = "no"
  BY <1>2 DEF IdleTab, TabOf
<1>4. review \in [1 .. Cardinality(Tabs) -> RemovalRecords]
  <2>1. \A own \in SUBSET {n \in Links : links[n] # NoAccount} :
          {<< n, links[n] >> : n \in own} \in SUBSET Connections
    BY DEF AInit, Lists, Connections
  <2>2. PICK shownPlan \in {[state |-> "none"]} \cup
          {[state |-> "pending", known |-> TRUE, sites |-> {<< n, links[n] >> : n \in own}] :
             own \in SUBSET {n \in Links : links[n] # NoAccount}} :
          review = [n \in 1 .. Cardinality(Tabs) |-> IF n = 1 THEN shownPlan ELSE [state |-> "none"]]
    BY DEF AInit
  <2>3. [state |-> "none"] \in RemovalRecords
    BY DEF RemovalRecords
  <2>4. shownPlan \in RemovalRecords
    <3>1. CASE shownPlan = [state |-> "none"]
      BY <2>3, <3>1
    <3>2. ASSUME NEW sites \in SUBSET Connections,
                 shownPlan = [state |-> "pending", known |-> TRUE, sites |-> sites]
          PROVE  shownPlan \in RemovalRecords
      BY <3>2 DEF RemovalRecords
    <3>. QED BY <2>1, <2>2, <3>1, <3>2
  <2>. QED BY <2>2, <2>3, <2>4
<1>5. AccountPieces
  BY <1>1, <1>4 DEF AInit, AccountPieces, Versions
<1>6. \A t \in Tabs : ~ RemovedSites(t) /\ tab[t].at \notin Acting
  BY <1>3 DEF RemovedSites, Removes, Acting
<1>7. NotYet /\ UsedByOne /\ PlanStands
  BY <1>3, <1>6 DEF NotYet, UsedByOne, PlanStands, Acting
<1>8. AsShown
  BY <1>3, <1>6 DEF AsShown, ShownTo
<1>. QED BY <1>5, <1>7, <1>8 DEF AccountInv

(* The requests that save, verify and review, and a confirmation refused.  *)
LEMMA OutsideTasks ==
  ASSUME AccountInv, NEW t \in Tabs,
         \/ BeginTask(t) \/ Upsert(t) \/ Clear(t) \/ AskAccount(t) \/ Verified(t) \/ Review(t)
         \/ ConfirmRemoval(t) /\ tab'[t].at = "done"
  PROVE  NotYet' /\ UsedByOne' /\ PlanStands' /\ AsShown'
<1>0. /\ AccountPieces /\ NotYet /\ tab \in [Tabs -> TabRecords] /\ tab[t] \in TabRecords
      /\ DOMAIN review = 1 .. Cardinality(Tabs) /\ [ANext]_aVars
  BY TabHas DEF AccountInv, AccountPieces, ANext
<1>1. tab' \in [Tabs -> TabRecords]
  BY <1>0, AccountTypesStep DEF AccountPieces
<1>2. CASE BeginTask(t)
  <2>1. PICK k \in Tasks_, n \in DOMAIN review, rm \in {"yes", "no", "unsaid"}, f \in BOOLEAN :
          tab' = [tab EXCEPT ![t] = TabOf(k, k, n, rm, f)]
    BY <1>2 DEF BeginTask
  <2>2. tab'[t] = TabOf(k, k, n, rm, f) /\ \A u \in Tabs : u # t => tab'[u] = tab[u]
    BY <1>0, <2>1
  <2>3. tab[t].at \notin Acting \cup {"done"} /\ tab'[t].at \notin Acting
    BY <1>2, <2>2 DEF BeginTask, Acting, Tasks_, TabOf
  <2>4. tab'[t].removed = {} /\ tab'[t].account = "kept" /\ tab'[t].plan \in 1 .. Cardinality(Tabs)
    BY <1>0, <2>2 DEF TabOf
  <2>5. UNCHANGED links
    BY <1>2 DEF BeginTask
  <2>. QED BY <1>0, <1>1, <2>2, <2>3, <2>4, <2>5, OutsideStep
<1>3. CASE ~ BeginTask(t)
  <2>1. /\ tab[t].at \notin Acting \cup {"done", "idle"} /\ UNCHANGED links
    BY <1>3 DEF Upsert, Clear, AskAccount, Verified, Review, ConfirmRemoval, Acting
  <2>. DEFINE Moved == /\ tab'[t].at \notin Acting /\ \A u \in Tabs : u # t => tab'[u] = tab[u]
          /\ tab'[t].plan = tab[t].plan /\ tab'[t].removed = tab[t].removed
          /\ tab'[t].account = tab[t].account
  <2>2. Moved
    <3>1. ASSUME NEW at \in TabPlaces \ Acting, TabTo(t, at) PROVE Moved
      BY <1>0, <3>1, TabMoves DEF Same
    <3>2. ASSUME NEW n \in Notices, Notice(t, n) PROVE Moved
      BY <1>0, <3>2, TabNotices DEF Same, Acting
    <3>3. CASE AskAccount(t)
      <4>1. CASE tab' = [tab EXCEPT ![t] = [@ EXCEPT !.at = "asked", !.version = account]]
        BY <1>0, <4>1 DEF TabRecords, Acting
      <4>. QED BY <3>2, <3>3, <4>1, TabNames DEF AskAccount
    <3>4. CASE ConfirmRemoval(t) /\ tab'[t].at = "done"
      <4>1. CASE \E n \in Notices : Notice(t, n)
        BY <3>2, <4>1
      <4>2. CASE TabTo(t, "account")
        BY <1>0, <3>4, <4>2, TabMoves, TabNames
      <4>3. CASE tab' = [tab EXCEPT ![t] = [@ EXCEPT !.at = "compare",
                                                     !.left = review[tab[t].plan].sites]]
        BY <1>0, <3>4, <4>3 DEF TabRecords
      <4>. QED BY <3>4, <4>1, <4>2, <4>3, TabNames DEF ConfirmRemoval
    <3>5. {"clear", "verify"} \subseteq TabPlaces \ Acting
      BY TabNames DEF Acting
    <3>. QED BY <1>3, <3>1, <3>2, <3>3, <3>4, <3>5, TabNames
             DEF Upsert, Clear, Verified, Review
  <2>3. tab[t].removed = {} /\ tab[t].account = "kept" /\ tab[t].plan \in 1 .. Cardinality(Tabs)
    BY <1>0, <2>1 DEF NotYet, Acting
  <2>. QED BY <1>0, <1>1, <2>1, <2>2, <2>3, OutsideStep
<1>. QED BY <1>2, <1>3

(* An accepted confirmation: its plan was pending, so nobody acts on it.   *)
LEMMA AcceptedStep ==
  ASSUME AccountInv, NEW t \in Tabs, ConfirmRemoval(t), tab'[t].at # "done"
  PROVE  NotYet' /\ UsedByOne' /\ PlanStands' /\ AsShown'
<1>. DEFINE p == tab[t].plan
<1>0. /\ AccountPieces /\ NotYet /\ UsedByOne /\ PlanStands /\ [ANext]_aVars
      /\ tab \in [Tabs -> TabRecords] /\ tab[t] \in TabRecords /\ tab[t].at = "confirm"
      /\ DOMAIN review = 1 .. Cardinality(Tabs) /\ p \in 1 .. Cardinality(Tabs)
      /\ tab[t].removed = {} /\ tab[t].account = "kept"
  BY TabHas DEF AccountInv, AccountPieces, ANext, ConfirmRemoval, NotYet
<1>1. tab' \in [Tabs -> TabRecords] /\ DOMAIN review' = 1 .. Cardinality(Tabs)
  BY <1>0, AccountTypesStep DEF AccountPieces
<1>. DEFINE ToCompare == /\ tab'[t].at = "compare" /\ tab'[t].left = review[p].sites
                         /\ tab'[t].remove = "yes" /\ review[p].known
            Goes == tab'[t].at = "account" /\ tab'[t].remove = "no"
<1>2. /\ review[p].state = "pending" /\ (ToCompare \/ Goes)
      /\ tab'[t].plan = p /\ tab'[t].removed = {} /\ tab'[t].account = "kept"
      /\ \A u \in Tabs : u # t => tab'[u] = tab[u]
  <2>1. CASE \E n \in Notices : Notice(t, n)
    BY <1>0, <2>1, TabNotices
  <2>2. CASE TabTo(t, "account") /\ tab[t].remove = "no" /\ review[p].state = "pending"
    BY <1>0, <2>2, TabMoves, TabNames DEF Same
  <2>3. CASE /\ review[p].state = "pending" /\ review[p].known /\ tab[t].remove = "yes"
             /\ tab' = [tab EXCEPT ![t] = [@ EXCEPT !.at = "compare", !.left = review[p].sites]]
    BY <1>0, <2>3 DEF TabRecords
  <2>4. tab[t].remove \in {"yes", "no", "unsaid"}
    BY <1>0 DEF TabRecords, Answers_
  <2>. QED BY <2>1, <2>2, <2>3, <2>4, TabNames DEF ConfirmRemoval
<1>3. /\ review'[p].state = "used" /\ review'[p].sites = review[p].sites
      /\ review[p].known => review'[p] \in UsedPlans
  BY <1>0, <1>2, ConsumedIs DEF ConfirmRemoval
<1>4. \A u \in Tabs : (RemovedSites(u) \/ tab[u].removed # {} \/ tab[u].at \in Acting) =>
        /\ tab[u].plan \in 1 .. Cardinality(Tabs) /\ review'[tab[u].plan] = review[tab[u].plan]
        /\ tab[u].plan # p
  <2>1. ASSUME NEW u \in Tabs, RemovedSites(u) \/ tab[u].removed # {}
        PROVE  tab[u].plan \in 1 .. Cardinality(Tabs) /\ review[tab[u].plan].state = "used"
    BY <1>0, <2>1 DEF PlanStands, UsedPlans
  <2>2. ASSUME NEW u \in Tabs, tab[u].at \in Acting
        PROVE  tab[u].plan \in 1 .. Cardinality(Tabs) /\ review[tab[u].plan].state = "used"
    BY <1>0, <2>2 DEF UsedByOne
  <2>. QED BY <1>0, <1>2, <2>1, <2>2, ReviewStays
<1>5. \A u \in Tabs : u # t => (RemovedSites(u)' <=> RemovedSites(u))
  BY <1>2 DEF RemovedSites, Removes
<1>6. NotYet'
  BY <1>0, <1>1, <1>2 DEF NotYet
<1>7. UsedByOne'
  BY <1>0, <1>1, <1>2, <1>3, <1>4 DEF UsedByOne
<1>8. PlanStands'
  <2>1. \A u \in Tabs : u # t /\ (RemovedSites(u)' \/ tab'[u].removed # {}) =>
          /\ tab'[u].remove = "yes" /\ tab'[u].plan \in DOMAIN review'
          /\ review'[tab'[u].plan] \in UsedPlans
    BY <1>0, <1>1, <1>2, <1>4, <1>5 DEF PlanStands
  <2>2. RemovedSites(t)' \/ tab'[t].removed # {} =>
          /\ tab'[t].remove = "yes" /\ tab'[t].plan \in DOMAIN review'
          /\ review'[tab'[t].plan] \in UsedPlans
    BY <1>0, <1>1, <1>2, <1>3 DEF RemovedSites, Removes
  <2>. QED BY <2>1, <2>2 DEF PlanStands
<1>9. \A u \in Tabs : u # t => ShownTo(u)'
  <2>1. \A u \in Tabs : \A n : u # t /\ GoneLink(u, n) => GoneLink(u, n)'
    BY <1>0, <1>2 DEF GoneLink
  <2>2. UNCHANGED links
    BY DEF ConfirmRemoval
  <2>. QED BY <1>2, <1>4, <2>1, <2>2, OthersShown
<1>10. ShownTo(t)'
  BY <1>2, <1>3 DEF ShownTo, RemovedSites, Removes
<1>. QED BY <1>6, <1>7, <1>8, <1>9, <1>10 DEF AsShown

(* The comparison, one removal, the end of them, and the account's.        *)
LEMMA RemovalTasks ==
  ASSUME AccountInv, NEW t \in Tabs,
         Compare(t) \/ Disconnect(t) \/ Disconnected(t) \/ RemoveAccount(t) \/ Forget(t)
  PROVE  NotYet' /\ UsedByOne' /\ PlanStands' /\ AsShown'
<1>0. /\ AccountPieces /\ NotYet /\ UsedByOne /\ PlanStands /\ ShownTo(t) /\ [ANext]_aVars
      /\ tab \in [Tabs -> TabRecords] /\ tab[t] \in TabRecords /\ UNCHANGED review
      /\ links \in Lists
  BY TabHas DEF AccountInv, AccountPieces, AsShown, ANext, Compare, Disconnect, Disconnected,
                RemoveAccount, Forget
<1>1. tab' \in [Tabs -> TabRecords]
  BY <1>0, AccountTypesStep DEF AccountPieces
<1>. DEFINE sites == review[tab[t].plan].sites
            Kept == /\ \A u \in Tabs : u # t => tab'[u] = tab[u]
                    /\ tab[t].at \in Acting /\ tab'[t].at \in {"sites", "account", "forget", "done"}
                    /\ tab'[t].at = "sites" => tab[t].remove = "yes"
                    /\ tab'[t].plan = tab[t].plan /\ tab'[t].remove = tab[t].remove
                    /\ tab[t].removed \subseteq tab'[t].removed
                    /\ tab'[t].removed # {} => tab[t].remove = "yes"
                    /\ tab'[t].account = "removed" => tab'[t].at \in {"forget", "done"}
                    /\ \A n \in Links :
                         \/ links'[n] = links[n]
                         \/ /\ links'[n] = NoAccount
                            /\ links[n] = NoAccount \/ \E s \in tab'[t].removed : s[1] = n
<1>2. ASSUME Kept, ShownTo(t)' PROVE NotYet' /\ UsedByOne' /\ PlanStands' /\ AsShown'
  <2>1. tab'[t].at \in Acting \cup {"done"} /\ tab'[t].at # "compare"
    BY <1>2 DEF Acting
  <2>2. NotYet' /\ UsedByOne' /\ PlanStands' /\ \A u \in Tabs : u # t => ShownTo(u)'
    BY <1>0, <1>1, <1>2, <2>1, InsideStep
  <2>. QED BY <1>2, <2>2 DEF AsShown
<1>3. tab[t].removed # {} => tab[t].remove = "yes"
  BY <1>0 DEF PlanStands
<1>4. tab[t].at \in {"compare", "sites"} => tab[t].account = "kept" /\ tab[t].remove = "yes"
  BY <1>0 DEF NotYet
<1>5. ASSUME NEW n \in Notices, Notice(t, n), tab[t].at \in Acting, UNCHANGED links
      PROVE  Kept /\ ShownTo(t)'
  <2>1. /\ \A u \in Tabs : u # t => tab'[u] = tab[u]
        /\ tab'[t].at = "done" /\ Same(tab'[t], tab[t])
    BY <1>0, <1>5, TabNotices
  <2>2. RemovedSites(t)' => RemovedSites(t) /\ tab[t].at \notin {"compare", "sites"}
    BY <1>4, <1>5, <2>1 DEF RemovedSites, Removes, Same, Acting
  <2>3. \A m : GoneLink(t, m) => GoneLink(t, m)'
    BY <2>1 DEF GoneLink, Same
  <2>4. Kept
    BY <1>3, <1>5, <2>1 DEF Same
  <2>5. ShownTo(t)'
    BY <1>0, <2>1, <2>2, <2>3 DEF ShownTo, Same
  <2>. QED BY <2>4, <2>5
<1>6. CASE Compare(t) /\ ~ Notice(t, "danger")
  <2>1. /\ AsPlanned(tab[t].left) /\ tab[t].at = "compare" /\ UNCHANGED links
        /\ tab' = [tab EXCEPT ![t] = [@ EXCEPT !.at = "sites", !.moved = {}]]
    BY <1>6 DEF Compare
  <2>2. /\ \A u \in Tabs : u # t => tab'[u] = tab[u]
        /\ tab'[t].at = "sites" /\ tab'[t].plan = tab[t].plan /\ tab'[t].remove = tab[t].remove
        /\ tab'[t].left = tab[t].left /\ tab'[t].removed = tab[t].removed
        /\ tab'[t].account = tab[t].account
    BY <1>0, <2>1 DEF TabRecords
  <2>3. Kept
    BY <1>3, <1>4, <2>1, <2>2 DEF Acting
  <2>4. tab[t].removed = {} /\ tab[t].left = sites
    BY <1>0, <2>1 DEF NotYet, ShownTo
  <2>5. ShownTo(t)'
    BY <1>0, <2>1, <2>2, <2>4 DEF ShownTo, AsPlanned
  <2>. QED BY <1>2, <2>3, <2>5
<1>7. CASE Disconnect(t)
  <2>1. PICK one \in tab[t].left :
          \/ /\ links' = [links EXCEPT ![one[1]] = NoAccount]
             /\ tab' = [tab EXCEPT ![t] = AfterRemoval(t, one)]
          \/ UNCHANGED links /\ tab' = [tab EXCEPT ![t] = AfterFailure(t, one)]
    BY <1>7 DEF Disconnect
  <2>2. tab[t].at = "sites"
    BY <1>7 DEF Disconnect
  <2>3. CASE UNCHANGED links /\ tab' = [tab EXCEPT ![t] = AfterFailure(t, one)]
    <3>1. Notice(t, "danger")
      BY <2>3 DEF Notice, AfterFailure
    <3>. QED BY <1>2, <1>5, <2>2, <2>3, <3>1, TabNames DEF Acting
  <2>4. CASE /\ links' = [links EXCEPT ![one[1]] = NoAccount]
             /\ tab' = [tab EXCEPT ![t] = AfterRemoval(t, one)]
    <3>. DEFINE now == links[one[1]]
                more == IF now = NoAccount THEN tab[t].removed
                        ELSE tab[t].removed \cup {<< one[1], now >>}
    <3>1. /\ \A u \in Tabs : u # t => tab'[u] = tab[u]
          /\ tab'[t].at = "sites" /\ tab'[t].plan = tab[t].plan /\ tab'[t].remove = tab[t].remove
          /\ tab'[t].left = tab[t].left \ {one} /\ tab'[t].removed = more
          /\ tab'[t].account = tab[t].account /\ tab'[t].moved = tab[t].moved
      BY <1>0, <2>2, <2>4 DEF TabRecords, AfterRemoval
    <3>2. tab[t].left \subseteq Connections
      BY <1>0 DEF TabRecords
    <3>3. \A s \in Connections : s = << s[1], s[2] >> /\ s[1] \in Links /\ s[2] # NoAccount
      BY AccountAssumption DEF AccountAssumption, Connections
    <3>4. /\ links'[one[1]] = NoAccount /\ \A n \in Links : n # one[1] => links'[n] = links[n]
      BY <1>0, <2>4, <3>2, <3>3 DEF Lists
    <3>5. now # NoAccount => \E s \in more : s[1] = one[1]
      <4>1. now # NoAccount => << one[1], now >> \in more /\ << one[1], now >>[1] = one[1]
        OBVIOUS
      <4>. HIDE DEF more
      <4>. QED BY <4>1
    <3>6. Kept
      <4>1. \A n \in Links : \/ links'[n] = links[n]
                             \/ /\ links'[n] = NoAccount
                                /\ links[n] = NoAccount \/ \E s \in tab'[t].removed : s[1] = n
        <5>1. now # NoAccount => \E s \in tab'[t].removed : s[1] = one[1]
          <6>. HIDE DEF more
          <6>. QED BY <3>1, <3>5
        <5>. QED BY <3>4, <5>1
      <4>2. tab[t].removed \subseteq tab'[t].removed /\ tab[t].remove = "yes"
        BY <1>4, <2>2, <3>1
      <4>. HIDE DEF more
      <4>. QED BY <1>4, <2>2, <3>1, <4>1, <4>2 DEF Acting
    <3>7. \A n : GoneLink(t, n) => GoneLink(t, n)'
      BY <3>1 DEF GoneLink
    <3>8. GoneLink(t, one[1])'
      <4>1. CASE now # NoAccount
        <5>. HIDE DEF more
        <5>. QED BY <3>1, <3>5, <4>1 DEF GoneLink
      <4>2. CASE now = NoAccount
        <5>1. now # one[2]
          BY <3>2, <3>3, <4>2
        <5>. QED BY <1>0, <2>2, <3>7, <5>1 DEF ShownTo
      <4>. QED BY <4>1, <4>2
    <3>9. \A s \in tab'[t].removed : s \in sites \/ s[1] \in tab'[t].moved
      <4>1. now # NoAccount => << one[1], now >> \in sites \/ one[1] \in tab[t].moved
        BY <1>0, <2>2, <3>2, <3>3 DEF ShownTo
      <4>2. \A s \in tab[t].removed : s \in sites \/ s[1] \in tab[t].moved
        BY <1>0 DEF ShownTo
      <4>. QED BY <3>1, <4>1, <4>2
    <3>10. \A s \in sites : s \in tab'[t].left \/ GoneLink(t, s[1])'
      <4>1. RemovedSites(t)
        BY <1>4, <2>2 DEF RemovedSites, Removes, Acting
      <4>. QED BY <1>0, <3>1, <3>7, <3>8, <4>1 DEF ShownTo
    <3>11. \A s \in tab'[t].left :
             /\ links'[s[1]] \in {s[2], NoAccount} \/ s[1] \in tab'[t].moved
             /\ links'[s[1]] = s[2] \/ GoneLink(t, s[1])'
      BY <1>0, <2>2, <3>1, <3>2, <3>3, <3>4, <3>7, <3>8 DEF ShownTo
    <3>12. tab'[t].left \subseteq sites
      BY <1>0, <2>2, <3>1 DEF ShownTo
    <3>13. ShownTo(t)'
      <4>. HIDE DEF more
      <4>. QED BY <1>0, <3>1, <3>9, <3>10, <3>11, <3>12 DEF ShownTo
    <3>. QED BY <1>2, <3>6, <3>13
  <2>. QED BY <2>1, <2>3, <2>4
<1>8. CASE Disconnected(t)
  <2>1. /\ tab[t].at = "sites" /\ tab[t].left = {} /\ UNCHANGED links
        /\ \A u \in Tabs : u # t => tab'[u] = tab[u]
        /\ tab'[t].at = "account" /\ Same(tab'[t], tab[t])
    BY <1>0, <1>8, TabMoves, TabNames DEF Disconnected
  <2>2. Kept
    BY <1>3, <1>4, <2>1 DEF Acting, Same
  <2>3. \A n : GoneLink(t, n) => GoneLink(t, n)'
    BY <2>1 DEF GoneLink, Same
  <2>4. RemovedSites(t)
    BY <1>4, <2>1 DEF RemovedSites, Removes, Acting
  <2>5. ShownTo(t)'
    BY <1>0, <2>1, <2>3, <2>4 DEF ShownTo, Same
  <2>. QED BY <1>2, <2>2, <2>5
<1>9. CASE RemoveAccount(t) /\ ~ Notice(t, "danger")
  <2>1. /\ tab[t].at = "account" /\ UNCHANGED links
        /\ tab' = [tab EXCEPT ![t] = [@ EXCEPT !.at = "forget", !.account = "removed"]]
    BY <1>9 DEF RemoveAccount
  <2>2. /\ \A u \in Tabs : u # t => tab'[u] = tab[u]
        /\ tab'[t].at = "forget" /\ tab'[t].plan = tab[t].plan /\ tab'[t].remove = tab[t].remove
        /\ tab'[t].left = tab[t].left /\ tab'[t].removed = tab[t].removed
        /\ tab'[t].moved = tab[t].moved
    BY <1>0, <2>1 DEF TabRecords
  <2>3. Kept
    BY <1>3, <2>1, <2>2 DEF Acting
  <2>4. \A n : GoneLink(t, n) => GoneLink(t, n)'
    BY <2>2 DEF GoneLink
  <2>5. RemovedSites(t)' => RemovedSites(t)
    BY <2>1, <2>2 DEF RemovedSites, Removes, Acting
  <2>6. ShownTo(t)'
    BY <1>0, <2>1, <2>2, <2>4, <2>5 DEF ShownTo
  <2>. QED BY <1>2, <2>3, <2>6
<1>10. CASE Forget(t) \/ ((Compare(t) \/ RemoveAccount(t)) /\ Notice(t, "danger"))
  <2>1. tab[t].at \in Acting /\ UNCHANGED links /\ \E n \in Notices : Notice(t, n)
    BY <1>10, TabNames DEF Forget, Compare, RemoveAccount, Acting
  <2>. QED BY <1>2, <1>5, <2>1
<1>. QED BY <1>6, <1>7, <1>8, <1>9, <1>10

(* Someone else uses the site CLI, or a plan expires.                      *)
LEMMA OtherTasks ==
  ASSUME AccountInv,
         \/ \E n \in Links, u \in Urls \cup {NoAccount} : Edit(n, u)
         \/ \E n \in DOMAIN review : Expire(n)
         \/ UNCHANGED aVars
  PROVE  NotYet' /\ UsedByOne' /\ PlanStands' /\ AsShown'
<1>0. /\ AccountPieces /\ NotYet /\ UsedByOne /\ PlanStands /\ AsShown /\ [ANext]_aVars
      /\ tab \in [Tabs -> TabRecords] /\ links \in Lists
      /\ DOMAIN review = 1 .. Cardinality(Tabs)
  BY DEF AccountInv, AccountPieces, ANext
<1>1. tab' \in [Tabs -> TabRecords] /\ DOMAIN review' = 1 .. Cardinality(Tabs)
  BY <1>0, AccountTypesStep DEF AccountPieces
<1>2. \A m \in 1 .. Cardinality(Tabs) : review[m].state = "used" => review'[m] = review[m]
  BY <1>0, ReviewStays
<1>3. \A t \in Tabs : RemovedSites(t) \/ tab[t].removed # {} \/ tab[t].at \in Acting =>
        tab[t].plan \in 1 .. Cardinality(Tabs) /\ review'[tab[t].plan] = review[tab[t].plan]
  BY <1>0, <1>2 DEF PlanStands, UsedPlans, UsedByOne
<1>4. CASE UNCHANGED << links, tab >>
  <2>1. NotYet' /\ UsedByOne' /\ PlanStands'
    BY <1>0, <1>1, <1>3, <1>4 DEF NotYet, UsedByOne, PlanStands, RemovedSites, Removes
  <2>2. \A t \in Tabs : ShownTo(t)'
    BY <1>3, <1>4, OthersShown DEF GoneLink
  <2>. QED BY <2>1, <2>2 DEF AsShown
<1>5. ASSUME NEW n \in Links, NEW u \in Urls \cup {NoAccount}, Edit(n, u)
      PROVE  NotYet' /\ UsedByOne' /\ PlanStands' /\ AsShown'
  <2>1. UNCHANGED review /\ \A m \in Links : m # n => links'[m] = links[m]
    BY <1>0, <1>5 DEF Edit, Lists
  <2>2. \A t \in Tabs :
          /\ tab'[t].at = tab[t].at /\ SamePlan(tab'[t], tab[t])
          /\ tab'[t].moved = IF tab[t].at = "sites" THEN tab[t].moved \cup {n} ELSE tab[t].moved
    BY <1>0, <1>5 DEF Edit, TabRecords, SamePlan
  <2>3. NotYet' /\ UsedByOne' /\ PlanStands'
    <3>1. \A t \in Tabs : /\ tab'[t].at = tab[t].at /\ tab'[t].plan = tab[t].plan
                          /\ tab'[t].remove = tab[t].remove /\ tab'[t].removed = tab[t].removed
                          /\ tab'[t].account = tab[t].account
      BY <2>2 DEF SamePlan
    <3>2. NotYet'
      BY <1>0, <2>1, <3>1 DEF NotYet
    <3>3. UsedByOne'
      BY <1>0, <2>1, <3>1 DEF UsedByOne
    <3>4. \A t \in Tabs : RemovedSites(t)' => RemovedSites(t)
      BY <3>1 DEF RemovedSites, Removes
    <3>5. PlanStands'
      BY <1>0, <2>1, <3>1, <3>4 DEF PlanStands
    <3>. QED BY <3>2, <3>3, <3>5
  <2>4. \A t \in Tabs : \A m : GoneLink(t, m) => GoneLink(t, m)'
    BY <2>2 DEF GoneLink, SamePlan
  <2>5. ASSUME NEW t \in Tabs PROVE ShownTo(t)'
    <3>1. ShownTo(t) /\ tab[t].left \subseteq Connections
      BY <1>0 DEF AsShown, TabRecords
    <3>2. RemovedSites(t)' <=> RemovedSites(t)
      BY <2>2 DEF RemovedSites, Removes, SamePlan
    <3>3. tab[t].at = "sites" => \A s \in tab[t].left :
            /\ links'[s[1]] \in {s[2], NoAccount} \/ s[1] \in tab'[t].moved
            /\ links'[s[1]] = s[2] \/ GoneLink(t, s[1])'
      <4>1. tab[t].at = "sites" => n \in tab'[t].moved /\ GoneLink(t, n)'
        BY <2>2 DEF GoneLink
      <4>2. \A s \in tab[t].left : s[1] \in Links
        BY <3>1 DEF Connections
      <4>. QED BY <2>1, <2>2, <2>4, <3>1, <4>1, <4>2 DEF ShownTo
    <3>. QED BY <2>1, <2>2, <2>4, <3>1, <3>2, <3>3 DEF ShownTo, SamePlan
  <2>. QED BY <2>3, <2>5 DEF AsShown
<1>. QED BY <1>4, <1>5 DEF Expire, aVars

(* Every step keeps it: the requests, the plans and others at the site CLI.  *)
LEMMA AccountSteps == AccountInv /\ [ANext]_aVars => AccountInv'
<1>. SUFFICES ASSUME AccountInv, [ANext]_aVars PROVE AccountInv'
  OBVIOUS
<1>1. AccountPieces'
  BY AccountTypesStep
<1>2. NotYet' /\ UsedByOne' /\ PlanStands' /\ AsShown'
  <2>1. ASSUME NEW t \in Tabs,
               BeginTask(t) \/ Upsert(t) \/ Clear(t) \/ AskAccount(t) \/ Verified(t) \/ Review(t)
        PROVE  NotYet' /\ UsedByOne' /\ PlanStands' /\ AsShown'
    BY <2>1, OutsideTasks
  <2>. QED BY <2>1, OutsideTasks, AcceptedStep, RemovalTasks, OtherTasks DEF ANext
<1>. QED BY <1>1, <1>2 DEF AccountInv

(* So it holds in every state.                                             *)
LEMMA AccountAlways == ASpec => []AccountInv
BY AccountStarts, AccountSteps, PTL DEF ASpec

(* No request has saved the account yet.                                   *)
LEMMA SavesStart == AInit => SavesCounted
<1>. SUFFICES ASSUME AInit PROVE SavesCounted
  OBVIOUS
<1>1. /\ saves = 0 /\ edits = 0 /\ account \in {NoAccount, 0} /\ checkedAt = NoAccount
      /\ \A t \in Tabs : tab[t].version = NoAccount
  BY DEF AInit, IdleTab, TabOf
<1>2. Cardinality(Unsaved) \in Nat /\ Cardinality(Unsaved) <= Cardinality(Tabs)
      /\ Cardinality(Tabs) \in Nat
  BY AccountAssumption, FS_Subset, FS_CardinalityType DEF Unsaved
<1>. QED BY <1>1, <1>2, AccountAssumption DEF SavesCounted

(* Where no account is saved, no request may save again, and the versions  *)
(* that are told are those there were.                                     *)
LEMMA NothingSaved ==
  ASSUME SavesCounted, saves' = saves, Unsaved' \subseteq Unsaved, edits' \in 0 .. CliEdits,
         account' \in {NoAccount, account},
         checkedAt' \in {NoAccount} \cup 0 .. saves,
         \A t \in Tabs : tab'[t].version \in {NoAccount} \cup 0 .. saves
  PROVE  SavesCounted'
<1>1. /\ Cardinality(Unsaved) \in Nat /\ Cardinality(Unsaved') \in Nat
      /\ Cardinality(Tabs) \in Nat /\ Cardinality(Unsaved') <= Cardinality(Unsaved)
  <2>1. IsFiniteSet(Tabs) /\ IsFiniteSet(Unsaved)
    BY AccountAssumption, FS_Subset DEF Unsaved
  <2>. QED BY <2>1, FS_Subset, FS_CardinalityType
<1>2. saves' + Cardinality(Unsaved') <= Cardinality(Tabs)
  BY <1>1 DEF SavesCounted
<1>. QED BY <1>2 DEF SavesCounted

(* A request that is not about to save goes on.                            *)
LEMMA RequestGoesOn ==
  ASSUME AccountPieces, SavesCounted, NEW t \in Tabs, NEW R, tab' = [tab EXCEPT ![t] = R],
         R.at \notin {"idle", "save"} \/ tab[t].at \in {"idle", "save"},
         R.version \in {NoAccount} \cup 0 .. saves
  PROVE  /\ Unsaved' \subseteq Unsaved
         /\ \A u \in Tabs : tab'[u].version \in {NoAccount} \cup 0 .. saves
<1>1. \A u \in Tabs : tab'[u] = IF u = t THEN R ELSE tab[u]
  BY DEF AccountPieces
<1>2. \A u \in Tabs : tab[u].version \in {NoAccount} \cup 0 .. saves
  BY DEF SavesCounted
<1>. QED BY <1>1, <1>2 DEF Unsaved

(* Every request, and everyone else at the site CLI.                       *)
LEMMA SavesSteps == AccountPieces /\ SavesCounted /\ [ANext]_aVars => SavesCounted'
<1>. SUFFICES ASSUME AccountPieces, SavesCounted, [ANext]_aVars PROVE SavesCounted'
  OBVIOUS
<1>0. /\ saves \in Nat /\ account \in {NoAccount} \cup 0 .. saves
      /\ checkedAt \in {NoAccount} \cup 0 .. saves /\ edits \in 0 .. CliEdits
      /\ \A t \in Tabs : tab[t] \in TabRecords /\ tab[t].version \in {NoAccount} \cup 0 .. saves
  BY DEF SavesCounted, AccountPieces
<1>1. ASSUME NEW t \in Tabs, BeginTask(t) PROVE SavesCounted'
  <2>1. PICK k \in Tasks_, n \in DOMAIN review, rm \in {"yes", "no", "unsaid"}, f \in BOOLEAN :
          tab' = [tab EXCEPT ![t] = TabOf(k, k, n, rm, f)]
    BY <1>1 DEF BeginTask
  <2>2. TabOf(k, k, n, rm, f).version = NoAccount
    BY DEF TabOf
  <2>3. tab[t].at = "idle" /\ UNCHANGED <<account, saves, checkedAt, edits>>
    BY <1>1 DEF BeginTask
  <2>. QED BY <1>0, <2>1, <2>2, <2>3, RequestGoesOn, NothingSaved
<1>2. ASSUME NEW t \in Tabs, Upsert(t), saves' = saves + 1 PROVE SavesCounted'
  <2>1. /\ tab[t].at = "save" /\ account' = saves + 1 /\ tab' = [tab EXCEPT ![t].at = "clear"]
        /\ UNCHANGED <<checkedAt, edits>>
    BY <1>0, <1>2 DEF Upsert, TabTo
  <2>2. \A u \in Tabs : /\ tab'[u].version = tab[u].version
                        /\ tab'[u].at = IF u = t THEN "clear" ELSE tab[u].at
    BY <1>0, <2>1 DEF AccountPieces, TabRecords
  <2>3. t \in Unsaved /\ Unsaved' = Unsaved \ {t}
    BY <2>1, <2>2 DEF Unsaved
  <2>4. IsFiniteSet(Unsaved)
    BY AccountAssumption, FS_Subset DEF Unsaved
  <2>5. /\ Cardinality(Unsaved') = Cardinality(Unsaved) - 1
        /\ Cardinality(Unsaved) \in Nat /\ Cardinality(Tabs) \in Nat
    BY <2>3, <2>4, AccountAssumption, FS_RemoveElement, FS_CardinalityType
  <2>6. saves' \in Nat /\ saves' + Cardinality(Unsaved') <= Cardinality(Tabs)
    BY <1>0, <1>2, <2>5 DEF SavesCounted
  <2>7. {NoAccount} \cup 0 .. saves \subseteq {NoAccount} \cup 0 .. saves'
    BY <1>0, <1>2
  <2>8. {account', checkedAt'} \cup {tab'[u].version : u \in Tabs} \subseteq
          {NoAccount} \cup 0 .. saves'
    BY <1>0, <1>2, <2>1, <2>2, <2>7
  <2>. QED BY <1>0, <2>1, <2>6, <2>8 DEF SavesCounted
<1>3. ASSUME NEW t \in Tabs, Upsert(t), saves' = saves PROVE SavesCounted'
  <2>1. /\ tab[t].at = "save" /\ UNCHANGED <<account, checkedAt, edits>>
        /\ tab' = [tab EXCEPT ![t] = [@ EXCEPT !.at = "done", !.notice = "danger"]]
    BY <1>0, <1>3 DEF Upsert, Notice
  <2>2. [tab[t] EXCEPT !.at = "done", !.notice = "danger"].version = tab[t].version
    BY <1>0 DEF TabRecords
  <2>. QED BY <1>0, <1>3, <2>1, <2>2, RequestGoesOn, NothingSaved
<1>4. ASSUME NEW t \in Tabs,
             Clear(t) \/ AskAccount(t) \/ Verified(t) \/ Review(t) \/ ConfirmRemoval(t)
               \/ Compare(t) \/ Disconnect(t) \/ Disconnected(t) \/ RemoveAccount(t) \/ Forget(t)
      PROVE  SavesCounted'
  <2>0. tab \in [Tabs -> TabRecords] /\ tab[t] \in TabRecords
    BY <1>0 DEF AccountPieces
  <2>. DEFINE On == \A u \in Tabs : /\ tab'[u].at = tab[u].at \/ tab'[u].at \notin {"idle", "save"}
                                    /\ tab'[u].version \in {NoAccount} \cup 0 .. saves
  <2>1. ASSUME NEW n, Notice(t, n) PROVE On
    BY <1>0, <2>0, <2>1 DEF Notice, TabRecords
  <2>2. ASSUME NEW label, label \notin {"idle", "save"}, TabTo(t, label) PROVE On
    BY <1>0, <2>0, <2>2 DEF TabTo, TabRecords
  <2>3. ASSUME AskAccount(t) PROVE On
    <3>1. CASE account = NoAccount
      BY <2>1, <2>3, <3>1 DEF AskAccount
    <3>2. CASE account # NoAccount
      <4>1. tab' = [tab EXCEPT ![t] = [@ EXCEPT !.at = "asked", !.version = account]]
        BY <2>3, <3>2 DEF AskAccount
      <4>. QED BY <1>0, <2>0, <4>1 DEF TabRecords
    <3>. QED BY <3>1, <3>2
  <2>4. ASSUME ConfirmRemoval(t) PROVE On
    <3>1. ASSUME tab' = [tab EXCEPT ![t] = [@ EXCEPT !.at = "compare",
                                                    !.left = review[tab[t].plan].sites]]
          PROVE  On
      BY <1>0, <2>0, <3>1 DEF TabRecords
    <3>. HIDE DEF On
    <3>. QED BY <2>1, <2>2, <2>4, <3>1 DEF ConfirmRemoval
  <2>5. ASSUME Compare(t) PROVE On
    <3>1. ASSUME tab' = [tab EXCEPT ![t] = [@ EXCEPT !.at = "sites", !.moved = {}]] PROVE On
      BY <1>0, <2>0, <3>1 DEF TabRecords
    <3>. HIDE DEF On
    <3>. QED BY <2>1, <2>5, <3>1 DEF Compare
  <2>6. ASSUME Disconnect(t) PROVE On
    <3>1. ASSUME NEW one, tab' = [tab EXCEPT ![t] = AfterRemoval(t, one)] PROVE On
      BY <1>0, <2>0, <2>6, <3>1 DEF TabRecords, AfterRemoval, Disconnect
    <3>2. ASSUME NEW one, tab' = [tab EXCEPT ![t] = AfterFailure(t, one)] PROVE On
      BY <1>0, <2>0, <3>2 DEF TabRecords, AfterFailure
    <3>. HIDE DEF On
    <3>. QED BY <2>6, <3>1, <3>2 DEF Disconnect
  <2>7. ASSUME RemoveAccount(t) PROVE On
    <3>1. ASSUME tab' = [tab EXCEPT ![t] = [@ EXCEPT !.at = "forget", !.account = "removed"]]
          PROVE  On
      BY <1>0, <2>0, <3>1 DEF TabRecords
    <3>. HIDE DEF On
    <3>. QED BY <2>1, <2>7, <3>1 DEF RemoveAccount
  <2>8. On
    <3>. HIDE DEF On
    <3>. QED
      BY <1>4, <2>1, <2>2, <2>3, <2>4, <2>5, <2>6, <2>7
      DEF Clear, Verified, Review, Disconnected, Forget
  <2>9. Unsaved' \subseteq Unsaved
    BY <2>8 DEF Unsaved
  <2>10. /\ UNCHANGED <<saves, edits>> /\ account' \in {NoAccount, account}
         /\ checkedAt' \in {NoAccount} \cup 0 .. saves
    BY <1>0, <1>4 DEF Clear, AskAccount, Verified, Review, ConfirmRemoval, Compare, Disconnect,
       Disconnected, RemoveAccount, Forget
  <2>. QED BY <1>0, <2>8, <2>9, <2>10, NothingSaved
<1>5. ASSUME NEW n \in DOMAIN review, Expire(n) PROVE SavesCounted'
  <2>1. Unsaved' = Unsaved
    BY <1>5 DEF Expire, Unsaved
  <2>. QED BY <1>0, <1>5, <2>1, NothingSaved DEF Expire
<1>6. ASSUME NEW n \in Links, NEW u \in Urls \cup {NoAccount}, Edit(n, u) PROVE SavesCounted'
  <2>1. \A t \in Tabs : tab'[t].at = tab[t].at /\ tab'[t].version = tab[t].version
    BY <1>0, <1>6 DEF Edit, TabRecords
  <2>2. edits' \in 0 .. CliEdits
    BY <1>0, <1>6, AccountAssumption DEF Edit
  <2>3. Unsaved' = Unsaved
    BY <2>1 DEF Unsaved
  <2>. QED BY <1>0, <1>6, <2>1, <2>2, <2>3, NothingSaved DEF Edit
<1>7. CASE UNCHANGED aVars
  <2>1. Unsaved' = Unsaved
    BY <1>7 DEF aVars, Unsaved
  <2>. QED BY <1>0, <1>7, <2>1, NothingSaved DEF aVars
<1>8. \A t \in Tabs : Upsert(t) => saves' \in {saves, saves + 1}
  BY DEF Upsert
<1>. QED BY <1>1, <1>2, <1>3, <1>4, <1>5, <1>6, <1>7, <1>8 DEF ANext

(* The versions of the account are no more than the requests.              *)
LEMMA AccountsTyped == AccountInv /\ SavesCounted => ATypeOK
<1>. SUFFICES ASSUME AccountInv, SavesCounted PROVE ATypeOK
  OBVIOUS
<1>1. AccountPieces
  BY DEF AccountInv
<1>2. Cardinality(Unsaved) \in Nat /\ Cardinality(Tabs) \in Nat
  BY AccountAssumption, FS_Subset, FS_CardinalityType DEF Unsaved
<1>3. saves \in 0 .. Cardinality(Tabs)
  BY <1>2 DEF SavesCounted
<1>4. {NoAccount} \cup 0 .. saves \subseteq {NoAccount} \cup 0 .. Cardinality(Tabs)
  BY <1>2, <1>3
<1>5. \A n \in DOMAIN review : review[n].state \in {"none", "pending", "expired",
                                                     "dropped", "used"}
  BY <1>1 DEF AccountPieces, RemovalRecords
<1>6. \A t \in Tabs : tab[t].task \in Tasks_ \cup {"none"}
  BY <1>1 DEF AccountPieces, TabRecords
<1>. QED BY <1>1, <1>3, <1>4, <1>5, <1>6 DEF ATypeOK, SavesCounted, AccountPieces

(* A removal does what its review showed.                                  *)
THEOREM RemovalAsReviewedHolds == ASpec => []RemovalAsReviewed
<1>1. AccountInv => RemovalAsReviewed
  <2>. SUFFICES ASSUME AccountInv PROVE RemovalAsReviewed
    OBVIOUS
  <2>0. NotYet /\ UsedByOne /\ PlanStands /\ AsShown
    BY DEF AccountInv
  <2>1. ASSUME NEW t \in Tabs, tab[t].removed # {}
        PROVE  /\ tab[t].remove = "yes" /\ review[tab[t].plan].known
               /\ \A s \in tab[t].removed :
                    s \in review[tab[t].plan].sites \/ s[1] \in tab[t].moved
    BY <2>0, <2>1 DEF PlanStands, UsedPlans, AsShown, ShownTo
  <2>2. ASSUME NEW t \in Tabs, tab[t].account = "removed", tab[t].remove = "yes",
               NEW s \in review[tab[t].plan].sites
        PROVE  \/ s[1] \in {r[1] : r \in tab[t].removed}
               \/ \E u \in Tabs \ {t} : s[1] \in {r[1] : r \in tab[u].removed}
               \/ s[1] \in tab[t].moved
    <3>1. RemovedSites(t) /\ tab[t].at \notin {"compare", "sites"}
      BY <2>0, <2>2 DEF RemovedSites, NotYet
    <3>2. s \notin tab[t].left /\ GoneLink(t, s[1])
      BY <2>0, <3>1 DEF AsShown, ShownTo
    <3>3. \A u \in Tabs : \A n : (\E r \in tab[u].removed : r[1] = n) => n \in {r[1] : r \in tab[u].removed}
      OBVIOUS
    <3>. QED BY <3>2, <3>3 DEF GoneLink
  <2>3. ASSUME NEW t \in Tabs, tab[t].at \in {"compare", "sites", "account", "forget"},
               NEW u \in Tabs \ {t}
        PROVE  ~(/\ tab[u].task = "confirm" /\ tab[u].plan = tab[t].plan
                 /\ tab[u].at \in {"compare", "sites", "account", "forget"})
    BY <2>0, <2>3 DEF UsedByOne, Acting
  <2>. QED BY <2>1, <2>2, <2>3 DEF RemovalAsReviewed
<1>. QED BY <1>1, AccountAlways, PTL

-----------------------------------------------------------------------------
(* The setups that the dashboard runs.                                      *)

(***************************************************************************)
(* SetupInv is inductive.  RunsAreRunning says that the records            *)
(* that run are those of the tasks, so that what start() counts is what    *)
(* is under way; Capacity is what HasCapacity leaves true afterwards; it   *)
(* makes evict() find a finished record whenever the registry is full.     *)
(***************************************************************************)

(* The sets start() and evict() count are finite.                          *)
LEMMA CountsAreFinite ==
  ASSUME SetupTypeOK
  PROVE  /\ IsFiniteSet(setupJobs) /\ IsFiniteSet(Running) /\ IsFiniteSet(reserved)
         /\ Cardinality(setupJobs) \in Nat
         /\ Cardinality(Running) \in Nat
         /\ Cardinality(reserved) \in Nat
<1>1. IsFiniteSet(1..last)
  BY FS_Interval, SetupAssumption DEF SetupTypeOK
<1>2. IsFiniteSet(setupJobs)
  BY <1>1, FS_Subset DEF SetupTypeOK
<1>3. IsFiniteSet(Running)
  BY <1>2, FS_Subset DEF Running
<1>4. IsFiniteSet(reserved)
  BY FS_Subset, SetupAssumption DEF SetupTypeOK
<1> QED
  BY <1>2, <1>3, <1>4, FS_CardinalityType

(* What evict() leaves has room for a record when a run was reserved, and  *)
(* holds every record that runs.                                           *)
LEMMA EvictedFits ==
  ASSUME SetupTypeOK, Capacity, Bounded, reserved # {}, NEW left \in Evicted
  PROVE  /\ left \subseteq setupJobs
         /\ Running \subseteq left
         /\ IsFiniteSet(left)
         /\ Cardinality(left) < MaxJobs
<1>1. Cardinality(Running) < MaxJobs
  BY CountsAreFinite, FS_EmptySet, SetupAssumption DEF Capacity
<1>2. CASE Cardinality(setupJobs) < MaxJobs \/ setupJobs \subseteq Running
  <2>1. left = setupJobs
    BY <1>2 DEF Evicted
  <2>2. Cardinality(setupJobs) < MaxJobs
    <3>1. setupJobs \subseteq Running => setupJobs = Running
      BY DEF Running
    <3> QED
      BY <3>1, <1>1, <1>2
  <2> QED
    BY <2>1, <2>2, CountsAreFinite DEF Running
<1>3. CASE ~(Cardinality(setupJobs) < MaxJobs \/ setupJobs \subseteq Running)
  <2>1. PICK old \in setupJobs : Evictable(old) /\ left = setupJobs \ {old}
    BY <1>3 DEF Evicted
  <2>2. /\ IsFiniteSet(left)
        /\ Cardinality(left) = Cardinality(setupJobs) - 1
    BY <2>1, CountsAreFinite, FS_RemoveElement
  <2>3. Cardinality(left) < MaxJobs
    BY <2>2, CountsAreFinite, SetupAssumption DEF Bounded
  <2> QED
    BY <2>1, <2>2, <2>3 DEF Evictable, Running
<1> QED
  BY <1>2, <1>3

(* No job has been started: the registry fits.                             *)
LEMMA SetupStarts == SetupInit => SetupInv
<1> SUFFICES ASSUME SetupInit PROVE SetupInv
  OBVIOUS
<1>1. SetupTypeOK
  BY SetupAssumption DEF SetupInit, SetupTypeOK, JobIds, Times
<1>2. Running = {}
  BY DEF SetupInit, Running
<1> QED
  BY <1>1, <1>2, FS_EmptySet, SetupAssumption
     DEF SetupInit, SetupInv, Capacity, Bounded, RunsAreRunning, OneRunPerTarget, Quiet

(* A reservation keeps the registry in shape.                              *)
LEMMA ReserveKeeps ==
  ASSUME SetupInv, NEW t \in Targets, Reserve(t)
  PROVE  SetupInv'
<1> USE DEF SetupInv, Reserve, registry, wallClock
<1>1. SetupTypeOK'
  BY DEF SetupTypeOK
<1>2. Running' = Running
  BY DEF Running
<1>3. Cardinality(reserved') = Cardinality(reserved) + 1
  BY CountsAreFinite, FS_AddElement
<1>4. Capacity'
  BY <1>2, <1>3, CountsAreFinite, SetupAssumption DEF Capacity, HasCapacity
<1>5. OneRunPerTarget'
  BY DEF OneRunPerTarget, RunsAreRunning, RunningFor
<1> QED
  BY <1>1, <1>2, <1>4, <1>5 DEF RunsAreRunning, Bounded, Quiet

(* A refused start leaves it as it was.                                    *)
LEMMA ReserveFailsKeeps ==
  ASSUME SetupInv, NEW t \in Targets, ReserveFails(t)
  PROVE  SetupInv'
<1> USE DEF SetupInv, ReserveFails, registry, wallClock
<1>1. SetupTypeOK'
  BY DEF SetupTypeOK
<1>2. Running' = Running
  BY DEF Running
<1>3. Cardinality(reserved') = Cardinality(reserved) - 1
  BY CountsAreFinite, FS_RemoveElement
<1>4. Capacity'
  BY <1>2, <1>3, CountsAreFinite, SetupAssumption DEF Capacity
<1>5. OneRunPerTarget'
  BY DEF OneRunPerTarget
<1> QED
  BY <1>1, <1>2, <1>4, <1>5 DEF RunsAreRunning, Bounded, Quiet

(* A job begins for a reserved target, with the evictions it makes.        *)
LEMMA BeginKeeps ==
  ASSUME SetupInv, NEW t \in Targets, BeginJob(t)
  PROVE  SetupInv'
<1> USE DEF SetupInv, BeginJob, wallClock
<1> DEFINE new == last + 1
<1>1. PICK left \in Evicted : setupJobs' = left \union {new}
  OBVIOUS
<1>2. /\ left \subseteq setupJobs
      /\ Running \subseteq left
      /\ IsFiniteSet(left)
      /\ Cardinality(left) < MaxJobs
  BY EvictedFits
<1>3. /\ new \in JobIds
      /\ new \notin setupJobs
      /\ new \notin tasks
  BY SetupAssumption DEF SetupTypeOK, JobIds, RunsAreRunning, Running
<1>4. SetupTypeOK'
  <2>1. setupJobs' \subseteq 1..last'
    BY <1>1, <1>2, SetupAssumption DEF SetupTypeOK
  <2>2. /\ jobState' \in [JobIds -> {"new", "running", "done", "error"}]
        /\ targetOf' \in [JobIds -> Targets \union {NoTarget}]
        /\ startedAt' \in [JobIds -> Times]
        /\ tasks' \subseteq JobIds
    BY <1>3 DEF SetupTypeOK
  <2> QED
    BY <2>1, <2>2, <1>3, SetupAssumption DEF SetupTypeOK, JobIds
<1>5. Running' = Running \union {new}
  <2>1. \A id \in JobIds : jobState'[id] = IF id = new THEN "running" ELSE jobState[id]
    BY <1>3 DEF SetupTypeOK
  <2>2. setupJobs \subseteq JobIds
    BY SetupAssumption DEF SetupTypeOK, JobIds
  <2> QED
    BY <2>1, <2>2, <1>1, <1>2, <1>3 DEF Running
<1>6. Cardinality(Running') = Cardinality(Running) + 1
  BY <1>3, <1>5, CountsAreFinite, FS_AddElement DEF RunsAreRunning
<1>7. Cardinality(reserved') = Cardinality(reserved) - 1
  BY CountsAreFinite, FS_RemoveElement
<1>8. Capacity'
  BY <1>6, <1>7, CountsAreFinite, SetupAssumption DEF Capacity
<1>9. Bounded'
  <2>1. Cardinality(setupJobs') = Cardinality(left) + 1
    BY <1>1, <1>2, <1>3, FS_AddElement
  <2>2. Cardinality(left) \in Nat
    BY <1>2, FS_CardinalityType
  <2> QED
    BY <2>1, <2>2, <1>2, SetupAssumption DEF Bounded
<1>10. OneRunPerTarget'
  <2>1. \A id \in JobIds : targetOf'[id] = IF id = new THEN t ELSE targetOf[id]
    BY <1>3 DEF SetupTypeOK
  <2>2. \A id \in tasks : targetOf[id] # t
    BY DEF OneRunPerTarget
  <2>3. tasks \subseteq JobIds
    BY DEF SetupTypeOK
  <2> QED
    BY <2>1, <2>2, <2>3, <1>3 DEF OneRunPerTarget
<1> QED
  BY <1>4, <1>5, <1>8, <1>9, <1>10 DEF RunsAreRunning, Quiet

(* So does the end of a job.                                               *)
LEMMA FinishKeeps ==
  ASSUME SetupInv, NEW id \in JobIds, FinishJob(id)
  PROVE  SetupInv'
<1> USE DEF SetupInv, FinishJob, wallClock
<1>1. SetupTypeOK'
  BY DEF SetupTypeOK
<1>2. id \in Running
  BY DEF RunsAreRunning
<1>3. Running' = Running \ {id}
  <2>1. PICK end \in {"done", "error"} : jobState' = [jobState EXCEPT ![id] = end]
    BY <1>2 DEF Running
  <2>2. setupJobs \subseteq JobIds
    BY SetupAssumption DEF SetupTypeOK, JobIds
  <2> QED
    BY <2>1, <2>2 DEF Running, SetupTypeOK
<1>4. Cardinality(Running') = Cardinality(Running) - 1
  BY <1>2, <1>3, CountsAreFinite, FS_RemoveElement
<1>5. Capacity'
  BY <1>4, CountsAreFinite, SetupAssumption DEF Capacity
<1>6. OneRunPerTarget'
  BY DEF OneRunPerTarget
<1> QED
  BY <1>1, <1>3, <1>5, <1>6 DEF RunsAreRunning, Bounded, Quiet

(* Shutdown, the pages and the clock leave the registry alone.             *)
LEMMA OthersKeep ==
  ASSUME SetupInv, SetupTypeOK', Quiet', UNCHANGED <<reserved, registry, tasks>>
  PROVE  SetupInv'
BY DEF SetupInv, RunsAreRunning, Running, Capacity, Bounded, OneRunPerTarget,
       registry

(* Every step keeps the registry in shape.                                 *)
LEMMA SetupSteps == SetupInv /\ [SetupNext]_setupVars => SetupInv'
<1> SUFFICES ASSUME SetupInv, [SetupNext]_setupVars PROVE SetupInv'
  OBVIOUS
<1>1. ASSUME NEW t \in Targets, StartJob(t) PROVE SetupInv'
  BY <1>1, ReserveKeeps, ReserveFailsKeeps, BeginKeeps DEF StartJob
<1>2. ASSUME NEW id \in JobIds, FinishJob(id) PROVE SetupInv'
  BY <1>2, FinishKeeps
<1>3. ASSUME NEW id \in JobIds, Page(id) PROVE SetupInv'
  <2>1. SetupTypeOK' /\ Quiet'
    BY <1>3 DEF SetupInv, SetupTypeOK, Quiet, Page, PageOpen, PagePoll, PageClose, LookAtJob,
                registry, wallClock
  <2> QED
    BY <1>3, <2>1, OthersKeep DEF Page, PageOpen, PagePoll, PageClose
<1>4. CASE Shutdown \/ Drained
  <2>1. SetupTypeOK' /\ Quiet'
    BY <1>4 DEF SetupInv, SetupTypeOK, Quiet, Shutdown, Drained, registry, wallClock
  <2> QED
    BY <1>4, <2>1, OthersKeep DEF Shutdown, Drained
<1>5. CASE ClockTick \/ SetBack
  <2>1. wallNow' \in Times
    BY <1>5, SetupAssumption DEF SetupInv, SetupTypeOK, ClockTick, SetBack, Times
  <2>2. SetupTypeOK' /\ Quiet'
    BY <1>5, <2>1 DEF SetupInv, SetupTypeOK, Quiet, ClockTick, SetBack, registry
  <2> QED
    BY <1>5, <2>2, OthersKeep DEF ClockTick, SetBack
<1>6. CASE UNCHANGED setupVars
  <2>1. SetupTypeOK' /\ Quiet'
    BY <1>6 DEF SetupInv, SetupTypeOK, Quiet, setupVars, registry, wallClock
  <2> QED
    BY <1>6, <2>1, OthersKeep DEF setupVars
<1> QED
  BY <1>1, <1>2, <1>3, <1>4, <1>5, <1>6 DEF SetupNext

(* So it is in every state.                                                *)
LEMMA SetupAlways == SetupSpec => []SetupInv
BY SetupStarts, SetupSteps, PTL DEF SetupSpec

(* The registry holds at most MaxJobs records, whatever starts, fails,     *)
(* ends and is evicted, and every run under way is listed as running.      *)
THEOREM RegistryKeptHolds == SetupSpec => []RegistryKept
<1>1. SetupInv => RegistryKept
  BY DEF SetupInv, RunsAreRunning, RunsListed, RegistryKept
<1> QED
  BY <1>1, SetupAlways, PTL

(* No environment is set up by two runs at once.                           *)
THEOREM OneRunPerTargetHolds == SetupSpec => []OneRunPerTarget
BY SetupAlways, PTL DEF SetupInv

(* After shutdown() nothing starts, and nothing is left when it returns.   *)
THEOREM StopsForGoodHolds == SetupSpec => StopsForGood
<1>1. ASSUME SetupNext, power # "up"
      PROVE  tasks' \subseteq tasks
  BY <1>1 DEF SetupNext, StartJob, Page, Reserve, ReserveFails, BeginJob, FinishJob, PageOpen,
              PagePoll, PageClose, Shutdown, Drained, ClockTick, SetBack
<1>2. SetupInv' /\ [SetupNext]_setupVars =>
            [power # "up" =>
               /\ tasks' \subseteq tasks
               /\ power' = "stopped" => tasks' = {} /\ reserved' = {}]_setupVars
  BY <1>1 DEF SetupInv, Quiet
<1> QED
  BY <1>2, SetupAlways, PTL DEF SetupSpec, StopsForGood
-----------------------------------------------------------------------------
(* The inventory of sites.                                                *)

(* What a load ends with once every provider had its turn: listings of its  *)
(* own configuration or a later one, none of them older than the round that *)
(* the inventory's time is of.                                              *)
LEMMA LoadedKept ==
  ASSUME SitesInv, NEW g \in Generations, load[g] # None, load[g].config # None
  PROVE  Loaded(g) \in Entries /\ Trusted(Loaded(g), g, sitesNow)
<1>. DEFINE L == load[g]
            E == Loaded(g)
<1>1. /\ L \in Loads /\ L.previous \in Entries \cup {None} /\ L.groups \in Groups
      /\ L.begun \in SitesTimes /\ sitesNow \in SitesTimes
  BY DEF SitesInv, STypeOK, Loads, SitesTimes
<1>2. /\ L.begun <= sitesNow /\ Trusted(L.previous, g, sitesNow)
      /\ L.usedSnapshot => L.previous # None
      /\ \A p \in Providers : L.groups[p] # None =>
           /\ L.groups[p].config >= g
           /\ (IF L.usedSnapshot THEN L.previous.dated.begun ELSE L.begun) <= L.groups[p].at
  BY DEF SitesInv, LoadInv
<1>3. /\ Dated(g) \in Rounds /\ Dated(g).begun <= sitesNow
      /\ Dated(g).begun = IF L.usedSnapshot THEN L.previous.dated.begun ELSE L.begun
  <2>1. CASE L.usedSnapshot
    <3>1. Dated(g) = L.previous.dated /\ L.previous # None /\ L.previous \in Entries
      BY <1>1, <1>2, <2>1 DEF Dated
    <3>2. L.previous.dated \in Rounds /\ L.previous.dated.begun <= sitesNow
      BY <1>2, <3>1 DEF Entries, Trusted, OfTime
    <3>. QED BY <2>1, <3>1, <3>2
  <2>2. CASE ~L.usedSnapshot
    <3>1. Dated(g) = [begun |-> L.begun, storedAt |-> sitesNow]
      BY <2>2 DEF Dated
    <3>. QED BY <1>1, <1>2, <2>2, <3>1 DEF Rounds
  <2>. QED BY <2>1, <2>2
<1>4. E = [groups |-> L.groups, dated |-> Dated(g)]
  BY DEF Loaded
<1>5. E \in Entries
  BY <1>1, <1>3, <1>4 DEF Entries
<1>6. OfTime(E, sitesNow)
  <2>1. ASSUME NEW p \in Providers, E.groups[p] # None
        PROVE  E.dated.begun <= E.groups[p].at
    BY <1>2, <1>3, <1>4, <2>1
  <2>. QED BY <1>3, <1>4, <2>1 DEF OfTime
<1>7. OfGeneration(E, g)
  BY <1>2, <1>4 DEF OfGeneration
<1>. QED
  BY <1>5, <1>6, <1>7 DEF Trusted

(* The clock makes nothing older than it says.                             *)
LEMMA LaterKept ==
  ASSUME NEW e \in Entries \cup {None}, NEW g, NEW now \in Nat, Trusted(e, g, now)
  PROVE  Trusted(e, g, now + 1)
<1>1. e # None => e.dated.begun \in Nat
  BY SitesAssumption DEF Entries, Rounds, SitesTimes
<1>. QED
  BY <1>1 DEF Trusted, OfTime

(* Forgetting changes nothing else.                                        *)
LEMMA Forgotten ==
  ASSUME SitesInv, NEW S
  PROVE  /\ Forgets(S) \in [Requests -> Requested]
         /\ \A r \in Requests : /\ Forgets(S)[r].at = req[r].at
                                /\ Forgets(S)[r].gen = req[r].gen
                                /\ Forgets(S)[r].entry = req[r].entry
<1>1. ASSUME NEW r \in Requests
      PROVE  /\ Forgets(S)[r] \in Requested
             /\ Forgets(S)[r].at = req[r].at /\ Forgets(S)[r].gen = req[r].gen
             /\ Forgets(S)[r].entry = req[r].entry
  BY DEF Forgets, SitesInv, Requested
<1>. QED
  BY <1>1 DEF Forgets

(* Every step of the requests, the loads, the configuration and the clock. *)
LEMMA SitesSteps == SitesInv /\ [SNext]_sVars => SitesInv'
<1>. SUFFICES ASSUME SitesInv, [SNext]_sVars PROVE SitesInv'
  OBVIOUS
<1>0. /\ config \in Generations /\ told = generation /\ generation \in Generations
      /\ generation <= config /\ config \in Nat /\ generation \in Nat
      /\ cache \in Entries \cup {None} /\ snapshot \in Entries \cup {None}
      /\ load \in [Generations -> Loads \cup {None}] /\ req \in [Requests -> Requested]
      /\ sitesNow \in Nat /\ sitesNow \in 0..MaxSitesTime /\ expiries \in 0..MaxExpiries
      /\ Trusted(cache, generation, sitesNow) /\ Trusted(snapshot, generation, sitesNow)
      /\ MaxConfigEdits \in Nat /\ MaxExpiries \in Nat /\ MaxSitesTime \in Nat
  BY SitesAssumption DEF SitesInv, STypeOK, Generations
<1>. DEFINE ReqOK == /\ req' \in [Requests -> Requested]
                     /\ \A r \in Requests : req'[r].at = "checking" =>
                          Trusted(req'[r].entry, req'[r].gen, sitesNow')
            LoadOK == /\ load' \in [Generations -> Loads \cup {None}]
                      /\ \A g \in Generations : LoadInv(g)'
            Rest == /\ config' \in Generations /\ told' = generation' /\ generation' \in Generations
                    /\ generation' <= config'
                    /\ cache' \in Entries \cup {None} /\ snapshot' \in Entries \cup {None}
                    /\ sitesNow' \in 0..MaxSitesTime /\ expiries' \in 0..MaxExpiries
                    /\ Trusted(cache', generation', sitesNow') /\ Trusted(snapshot', generation', sitesNow')
<1>a. ASSUME ReqOK, LoadOK, Rest PROVE SitesInv'
  <2>1. \A r \in Requests :
          /\ req'[r].at \in {"idle", "again", "loading", "checking", "done", "failed"}
          /\ req'[r].gen \in Generations /\ req'[r].same \in BOOLEAN
          /\ req'[r].entry \in Entries \cup {None}
    BY <1>a DEF Requested
  <2>. QED
    BY <1>a, <2>1 DEF SitesInv, STypeOK
<1>b. ASSUME UNCHANGED << load, generation, sitesNow >> PROVE LoadOK
  BY <1>0, <1>b DEF SitesInv, LoadInv
<1>c. ASSUME UNCHANGED << req, sitesNow >> PROVE ReqOK
  BY <1>0, <1>c DEF SitesInv
<1>d. ASSUME NEW S, req' = Forgets(S), sitesNow' = sitesNow PROVE ReqOK
  BY <1>0, <1>d, Forgotten DEF SitesInv
<1>e. \A g, now : Trusted(None, g, now)
  BY DEF Trusted, OfGeneration, OfTime
<1>. HIDE DEF ReqOK, LoadOK, Rest
<1>1. CASE EditConfig
  <2>1. Rest
    BY <1>0, <1>1 DEF EditConfig, Rest, Generations
  <2>. QED BY <1>1, <2>1, <1>a, <1>b, <1>c DEF EditConfig
<1>2. CASE invalidate
  <2>1. Rest
    BY <1>0, <1>2, <1>e DEF invalidate, Rest
  <2>2. LoadOK
    <3>1. load' = load /\ sitesNow' = sitesNow /\ generation' > generation
      BY <1>0, <1>2 DEF invalidate
    <3>2. ASSUME NEW g \in Generations PROVE LoadInv(g)'
      BY <1>0, <2>1, <3>1 DEF SitesInv, LoadInv, Generations, Rest
    <3>. QED BY <1>0, <3>1, <3>2 DEF LoadOK
  <2>. QED BY <1>2, <2>1, <2>2, <1>a, <1>d DEF invalidate
<1>3. CASE EntryExpires
  <2>1. Rest
    BY <1>0, <1>3, <1>e DEF EntryExpires, Rest
  <2>. QED BY <1>3, <2>1, <1>a, <1>b, <1>d DEF EntryExpires
<1>4. CASE SitesTick
  <2>0. /\ sitesNow' = sitesNow + 1
        /\ UNCHANGED << config, told, generation, cache, snapshot, load, req, expiries >>
        /\ sitesNow' \in 0..MaxSitesTime
    BY <1>0, <1>4 DEF SitesTick
  <2>1. Rest
    BY <1>0, <2>0, LaterKept DEF Rest
  <2>2. LoadOK
    <3>1. ASSUME NEW g \in Generations, load[g] # None
          PROVE  Trusted(load[g].previous, g, sitesNow + 1)
      <4>1. load[g].previous \in Entries \cup {None} /\ Trusted(load[g].previous, g, sitesNow)
        BY <1>0, <3>1 DEF Loads, SitesInv, LoadInv
      <4>. QED BY <1>0, <4>1, LaterKept
    <3>2. ASSUME NEW g \in Generations, load[g] # None
          PROVE  load[g].begun <= sitesNow + 1
      <4>1. load[g].begun \in Nat /\ load[g].begun <= sitesNow
        BY <1>0, <3>2 DEF Loads, SitesTimes, SitesInv, LoadInv
      <4>. QED BY <1>0, <4>1
    <3>. QED
      BY <1>0, <2>0, <3>1, <3>2 DEF LoadOK, SitesInv, LoadInv
  <2>3. ReqOK
    <3>1. ASSUME NEW r \in Requests, req[r].at = "checking"
          PROVE  Trusted(req[r].entry, req[r].gen, sitesNow + 1)
      <4>1. req[r].entry \in Entries \cup {None} /\ Trusted(req[r].entry, req[r].gen, sitesNow)
        BY <1>0, <3>1 DEF Requested, SitesInv
      <4>. QED BY <1>0, <4>1, LaterKept
    <3>. QED
      BY <1>0, <2>0, <3>1 DEF ReqOK
  <2>. QED BY <2>1, <2>2, <2>3, <1>a
<1>5. ASSUME NEW g \in Generations, ReadProfiles(g) PROVE SitesInv'
  <2>1. Rest
    BY <1>0, <1>5 DEF ReadProfiles, Rest
  <2>2. LoadOK
    <3>1. /\ load[g] \in Loads /\ load' = [load EXCEPT ![g] = [load[g] EXCEPT !.config = config]]
      BY <1>0, <1>5 DEF ReadProfiles
    <3>2. [load[g] EXCEPT !.config = config] \in Loads
      BY <1>0, <3>1 DEF Loads
    <3>3. LoadInv(g) /\ load[g] # None
      BY <1>5 DEF SitesInv, ReadProfiles
    <3>4. config >= g /\ g \in Nat
      BY <1>0, <3>3 DEF LoadInv, Generations
    <3>5. /\ load'[g].config = config /\ load'[g].previous = load[g].previous
          /\ load'[g].begun = load[g].begun /\ load'[g].asked = load[g].asked
          /\ load'[g].groups = load[g].groups
          /\ load'[g].usedSnapshot = load[g].usedSnapshot
          /\ \A h \in Generations : h # g => load'[h] = load[h]
      BY <1>0, <3>1 DEF Loads
    <3>. QED
      BY <1>0, <1>5, <3>1, <3>2, <3>3, <3>4, <3>5 DEF LoadOK, LoadInv, SitesInv, ReadProfiles
  <2>. QED BY <1>5, <2>1, <2>2, <1>a, <1>c DEF ReadProfiles
<1>10. ASSUME NEW g \in Generations, NEW p \in Providers, NEW ok \in BOOLEAN,
              ListsProvider(g, p, ok)
       PROVE  SitesInv'
  <2>. DEFINE R == RequestListed(g, p, ok)
              used == load[g].usedSnapshot \/ (~ok /\ load[g].previous # None)
  <2>1. Rest
    <3>1. /\ UNCHANGED config /\ UNCHANGED told /\ UNCHANGED generation
          /\ UNCHANGED cache /\ UNCHANGED snapshot
          /\ UNCHANGED sitesNow /\ UNCHANGED expiries
      BY <1>10 DEF ListsProvider
    <3>. HIDE DEF R, used
    <3>. QED BY <1>0, <3>1 DEF Rest
  <2>2. LoadOK
    <3>1. /\ load[g] \in Loads /\ load[g] # None /\ load[g].config # None
          /\ p \notin load[g].asked
          /\ load' = [load EXCEPT ![g] = [load[g] EXCEPT
               !.asked = load[g].asked \cup {p},
               !.groups = [load[g].groups EXCEPT ![p] = R], !.usedSnapshot = used]]
      <4>1. /\ load[g] # None /\ load[g].config # None /\ p \notin load[g].asked
            /\ load' = [load EXCEPT ![g] = [load[g] EXCEPT
                 !.asked = load[g].asked \cup {p},
                 !.groups[p] = RequestListed(g, p, ok), !.usedSnapshot = used]]
        <5>1. WithTurn(g, p, ok) = [load[g] EXCEPT !.asked = load[g].asked \cup {p},
                !.groups[p] = RequestListed(g, p, ok), !.usedSnapshot = used]
          BY DEF WithTurn
        <5>. HIDE DEF used
        <5>. QED BY <1>10, <5>1 DEF ListsProvider
      <4>2. load[g] \in Loads
        BY <1>0, <4>1
      <4>. QED BY <4>1, <4>2
    <3>2. /\ load[g].config \in Generations /\ load[g].previous \in Entries \cup {None}
          /\ load[g].groups \in Groups /\ load[g].begun \in SitesTimes
          /\ load[g].asked \subseteq Providers /\ load[g].usedSnapshot \in BOOLEAN
          /\ sitesNow \in SitesTimes
      BY <1>0, <3>1 DEF Loads, SitesTimes
    <3>3. LoadInv(g)
      BY DEF SitesInv
    <3>4. /\ load[g].config >= g /\ g <= generation /\ Trusted(load[g].previous, g, sitesNow)
          /\ load[g].begun <= sitesNow
          /\ load[g].previous # None => load[g].previous.dated.begun <= load[g].begun
          /\ load[g].usedSnapshot => load[g].previous # None
      BY <3>1, <3>3 DEF LoadInv
    <3>5. \A q \in Providers : load[g].groups[q] # None =>
            /\ q \in load[g].asked /\ load[g].groups[q].config >= g
            /\ (IF load[g].usedSnapshot THEN load[g].previous.dated.begun ELSE load[g].begun)
                 <= load[g].groups[q].at
      BY <3>1, <3>3 DEF LoadInv
    <3>. DEFINE oldest == IF used THEN load[g].previous.dated.begun ELSE load[g].begun
                before == IF load[g].usedSnapshot THEN load[g].previous.dated.begun
                          ELSE load[g].begun
    <3>6. load[g].previous # None =>
            /\ load[g].previous.dated.begun \in SitesTimes /\ load[g].previous.groups \in Groups
            /\ \A q \in Providers : load[g].previous.groups[q] # None =>
                 /\ load[g].previous.groups[q].config >= g
                 /\ load[g].previous.dated.begun <= load[g].previous.groups[q].at
      BY <3>2, <3>4 DEF Trusted, OfGeneration, OfTime, Entries, Rounds
    <3>7. /\ oldest \in SitesTimes /\ before \in SitesTimes /\ oldest <= before
          /\ oldest <= sitesNow
      <4>1. CASE load[g].previous = None
        BY <3>2, <3>4, <4>1 DEF SitesTimes
      <4>2. CASE load[g].previous # None
        BY <3>2, <3>4, <3>6, <4>2, SitesAssumption DEF SitesTimes
      <4>. QED BY <4>1, <4>2
    <3>8. /\ R \in Listings \cup {None}
          /\ R # None => R.config >= g /\ oldest <= R.at
      <4>1. CASE ok
        <5>1. R = [config |-> load[g].config, at |-> sitesNow]
          BY <4>1 DEF RequestListed
        <5>. HIDE DEF oldest, R
        <5>. QED BY <3>2, <3>4, <3>7, <5>1 DEF Listings
      <4>2. CASE ~ok /\ load[g].previous = None
        BY <4>2 DEF RequestListed
      <4>3. CASE ~ok /\ load[g].previous # None
        <5>1. R = load[g].previous.groups[p] /\ oldest = load[g].previous.dated.begun
          BY <4>3 DEF RequestListed
        <5>. HIDE DEF oldest, R
        <5>. QED BY <3>6, <4>3, <5>1 DEF Groups
      <4>. QED BY <4>1, <4>2, <4>3
    <3>. DEFINE N == load'[g]
    <3>9. /\ N \in Loads /\ N.config = load[g].config /\ N.previous = load[g].previous
          /\ N.begun = load[g].begun /\ N.asked = load[g].asked \cup {p}
          /\ N.groups = [load[g].groups EXCEPT ![p] = R] /\ N.usedSnapshot = used
      <4>1. [load[g].groups EXCEPT ![p] = R] \in Groups
        <5>. HIDE DEF R
        <5>. QED BY <3>2, <3>8 DEF Groups
      <4>2. used \in BOOLEAN
        BY <3>2
      <4>. HIDE DEF R, used
      <4>3. N = [load[g] EXCEPT !.asked = load[g].asked \cup {p},
                   !.groups = [load[g].groups EXCEPT ![p] = R], !.usedSnapshot = used]
        BY <1>0, <3>1
      <4>. DEFINE G == [load[g].groups EXCEPT ![p] = R]
      <4>4. load[g].asked \cup {p} \in SUBSET Providers
        BY <3>2
      <4>5. load[g] = [config |-> load[g].config, previous |-> load[g].previous,
                       begun |-> load[g].begun, asked |-> load[g].asked,
                       groups |-> load[g].groups, usedSnapshot |-> load[g].usedSnapshot]
        BY <3>1 DEF Loads
      <4>. HIDE DEF G
      <4>6. N = [config |-> load[g].config, previous |-> load[g].previous,
                 begun |-> load[g].begun, asked |-> load[g].asked \cup {p},
                 groups |-> G, usedSnapshot |-> used]
        BY <4>3, <4>5 DEF G
      <4>. QED BY <3>1, <3>2, <4>1, <4>2, <4>4, <4>6 DEF Loads, G
    <3>10. ASSUME NEW q \in Providers, N.groups[q] # None
           PROVE  /\ q \in N.asked /\ N.groups[q].config >= g
                  /\ oldest <= N.groups[q].at
      <4>1. CASE q = p
        <5>1. N.groups[q] = R
          BY <3>2, <3>9, <4>1 DEF Groups
        <5>. HIDE DEF oldest, R, N
        <5>. QED BY <3>8, <3>9, <3>10, <4>1, <5>1
      <4>2. CASE q # p
        <5>1. N.groups[q] = load[g].groups[q]
          BY <3>2, <3>9, <4>2 DEF Groups
        <5>2. load[g].groups[q] \in Listings
          BY <3>2, <3>10, <5>1 DEF Groups
        <5>3. /\ q \in load[g].asked /\ load[g].groups[q].config >= g
              /\ before <= load[g].groups[q].at
          BY <3>5, <3>10, <5>1
        <5>4. load[g].groups[q].at \in SitesTimes
          BY <5>2 DEF Listings
        <5>5. oldest <= load[g].groups[q].at
          <6>. HIDE DEF oldest, before
          <6>. QED BY <3>7, <5>3, <5>4, SitesAssumption DEF SitesTimes
        <5>. HIDE DEF oldest, N
        <5>. QED BY <3>9, <5>1, <5>3, <5>5
      <4>. QED BY <4>1, <4>2
    <3>11. LoadInv(g)'
      <4>1. sitesNow' = sitesNow /\ generation' = generation
        BY <1>10 DEF ListsProvider
      <4>2. used => load[g].previous # None
        BY <3>4
      <4>. QED
        BY <3>1, <3>4, <3>9, <3>10, <4>1, <4>2 DEF LoadInv
    <3>12. ASSUME NEW h \in Generations, h # g PROVE LoadInv(h)'
      <4>1. load'[h] = load[h] /\ LoadInv(h)
            /\ sitesNow' = sitesNow /\ generation' = generation
        BY <1>0, <1>10, <3>12 DEF SitesInv, ListsProvider
      <4>. QED BY <4>1 DEF LoadInv
    <3>13. load' \in [Generations -> Loads \cup {None}]
      <4>1. load' = [load EXCEPT ![g] = N]
        BY <1>0, <3>1
      <4>. HIDE DEF N
      <4>. QED BY <1>0, <3>9, <4>1
    <3>. QED BY <3>11, <3>12, <3>13 DEF LoadOK
  <2>. QED BY <1>10, <2>1, <2>2, <1>a, <1>c DEF ListsProvider
<1>6. ASSUME NEW g \in Generations, LoadFails(g) PROVE SitesInv'
  <2>1. Rest
    BY <1>0, <1>6 DEF LoadFails, Rest
  <2>2. LoadOK
    BY <1>0, <1>6 DEF LoadFails, LoadOK, LoadInv, SitesInv
  <2>3. ReqOK
    <3>. DEFINE at == IF g = generation THEN "failed" ELSE "again"
    <3>1. ASSUME NEW r \in Requests
          PROVE /\ req'[r] \in Requested
                /\ req'[r] = req[r] \/ req'[r].at # "checking"
      BY <1>0, <1>6 DEF LoadFails, Requested
    <3>. QED
      BY <1>0, <1>6, <3>1 DEF LoadFails, ReqOK, SitesInv
  <2>. QED BY <2>1, <2>2, <2>3, <1>a
<1>7. ASSUME NEW g \in Generations, LoadEnds(g) PROVE SitesInv'
  <2>. DEFINE entry == Loaded(g)
  <2>0. entry \in Entries /\ Trusted(entry, g, sitesNow)
    BY <1>7, LoadedKept DEF LoadEnds
  <2>1. Rest
    BY <1>0, <1>7, <2>0 DEF LoadEnds, Rest, Current
  <2>2. LoadOK
    BY <1>0, <1>7 DEF LoadEnds, LoadOK, LoadInv, SitesInv
  <2>3. ReqOK
    <3>. HIDE DEF entry
    <3>1. ASSUME NEW r \in Requests
          PROVE /\ req'[r] \in Requested
                /\ \/ req'[r].at # "checking"
                   \/ req'[r].entry = entry /\ req'[r].gen = g
                   \/ /\ req'[r].at = req[r].at /\ req'[r].gen = req[r].gen
                      /\ req'[r].entry = req[r].entry
      <4>0. req[r] \in Requested /\ Forgets(Listers)[r] \in Requested
            /\ Forgets(Listers)[r].at = req[r].at /\ Forgets(Listers)[r].gen = req[r].gen
            /\ Forgets(Listers)[r].entry = req[r].entry
        BY <1>0, Forgotten
      <4>1. req'[r] = IF req[r].at = "loading" /\ req[r].gen = g
                      THEN IF g = generation
                           THEN [req[r] EXCEPT !.at = "checking", !.entry = entry, !.same = TRUE]
                           ELSE [req[r] EXCEPT !.at = "again"]
                      ELSE IF Current(g) THEN Forgets(Listers)[r] ELSE req[r]
        BY <1>7 DEF LoadEnds, entry
      <4>2. CASE req[r].at = "loading" /\ req[r].gen = g /\ g = generation
        <5>1. req'[r] = [req[r] EXCEPT !.at = "checking", !.entry = entry, !.same = TRUE]
          BY <4>1, <4>2
        <5>. QED
          BY <2>0, <4>0, <4>2, <5>1 DEF Requested
      <4>3. CASE req[r].at = "loading" /\ req[r].gen = g /\ g # generation
        <5>1. req'[r] = [req[r] EXCEPT !.at = "again"]
          BY <4>1, <4>3
        <5>. QED
          BY <4>0, <5>1 DEF Requested
      <4>4. CASE ~(req[r].at = "loading" /\ req[r].gen = g)
        <5>1. req'[r] \in {Forgets(Listers)[r], req[r]}
          BY <4>1, <4>4
        <5>. QED
          BY <4>0, <5>1
      <4>. QED
        BY <4>2, <4>3, <4>4
    <3>2. req' = [r \in Requests |-> req'[r]]
      BY <1>7 DEF LoadEnds
    <3>. QED
      BY <1>0, <1>7, <2>0, <3>1, <3>2 DEF LoadEnds, ReqOK, SitesInv
  <2>. QED BY <2>1, <2>2, <2>3, <1>a
<1>8. ASSUME NEW r \in Requests, RequestStep(r) PROVE SitesInv'
  <2>0. req[r] \in Requested /\ req[r].gen \in Generations
        /\ req[r].entry \in Entries \cup {None}
    BY <1>0 DEF Requested
  <2>a. ASSUME NEW R \in Requested, R.at = "checking" => Trusted(R.entry, R.gen, sitesNow),
               req' = [req EXCEPT ![r] = R], sitesNow' = sitesNow
        PROVE  ReqOK
    BY <1>0, <2>a DEF ReqOK, SitesInv
  <2>1. CASE ReadsWarm(r)
    <3>1. Rest
      BY <1>0, <2>1 DEF ReadsWarm, Rest
    <3>2. ReqOK
      BY <1>0, <2>1, <2>a DEF ReadsWarm, Requested
    <3>. QED BY <2>1, <3>1, <3>2, <1>a, <1>b DEF ReadsWarm
  <2>2. CASE Fills(r)
    <3>1. Rest
      BY <1>0, <2>2 DEF Fills, Rest
    <3>2. ReqOK
      BY <1>0, <2>2, <2>a DEF Fills, Requested
    <3>3. LoadOK
      <4>. DEFINE nothing == [p \in Providers |-> None]
                  L == [config |-> None, previous |-> snapshot, begun |-> sitesNow,
                        asked |-> {}, groups |-> nothing, usedSnapshot |-> FALSE]
      <4>0. nothing \in Groups
        BY DEF Groups
      <4>1. /\ L \in Loads /\ L.config = None /\ L.previous = snapshot /\ L.begun = sitesNow
            /\ L.asked = {} /\ L.usedSnapshot = FALSE
            /\ \A p \in Providers : L.groups[p] = None
        <5>. HIDE DEF nothing
        <5>1. \A p \in Providers : nothing[p] = None
          BY DEF nothing
        <5>. QED
          BY <1>0, <4>0, <5>1 DEF Loads, SitesTimes
      <4>4. snapshot # None => snapshot.dated.begun <= sitesNow
        BY <1>0 DEF Trusted, OfTime
      <4>2. CASE load' = load
        BY <1>0, <2>2, <4>2 DEF Fills, LoadOK, LoadInv, SitesInv
      <4>3. CASE load' = [load EXCEPT ![generation] = L]
        <5>. HIDE DEF L
        <5>1. ASSUME NEW g \in Generations PROVE LoadInv(g)'
          <6>0. sitesNow' = sitesNow /\ generation' = generation
            BY <2>2 DEF Fills
          <6>1. CASE g = generation
            <7>1. load'[g] = L
              BY <1>0, <4>3, <6>1
            <7>. QED BY <1>0, <4>1, <4>4, <6>0, <6>1, <7>1 DEF LoadInv
          <6>2. CASE g # generation
            <7>1. load'[g] = load[g] /\ LoadInv(g)
              BY <1>0, <4>3, <6>2 DEF SitesInv
            <7>. QED BY <6>0, <7>1 DEF LoadInv
          <6>. QED BY <6>1, <6>2
        <5>2. load' \in [Generations -> Loads \cup {None}]
          BY <1>0, <4>1, <4>3
        <5>. QED BY <5>1, <5>2 DEF LoadOK
      <4>. QED BY <2>2, <4>2, <4>3 DEF Fills
    <3>. QED BY <3>1, <3>2, <3>3, <1>a
  <2>3. CASE NothingWarm(r)
    <3>1. Rest
      BY <1>0, <2>3 DEF NothingWarm, Rest
    <3>2. ReqOK
      BY <1>0, <2>0, <2>3, <2>a DEF NothingWarm, Requested
    <3>. QED BY <2>3, <3>1, <3>2, <1>a, <1>b DEF NothingWarm
  <2>4. CASE ChecksAnswer(r)
    <3>1. Rest
      BY <1>0, <2>0, <2>4 DEF ChecksAnswer, Rest, Unmoved, SitesInv
    <3>2. ReqOK
      <4>1. CASE Unmoved(r)
        <5>. DEFINE S == {v \in Requests : Verifies(v)}
        <5>1. req' = [q \in Requests |-> IF q = r THEN [req[r] EXCEPT !.at = "done"]
                                          ELSE Forgets(S)[q]]
          BY <2>4, <4>1 DEF ChecksAnswer
        <5>2. [req[r] EXCEPT !.at = "done"] \in Requested
              /\ [req[r] EXCEPT !.at = "done"].at = "done"
          BY <2>0 DEF Requested
        <5>. HIDE DEF S
        <5>. QED
          BY <1>0, <2>4, <5>1, <5>2, Forgotten DEF ChecksAnswer, ReqOK, SitesInv
      <4>2. CASE ~Unmoved(r)
        BY <1>0, <2>0, <2>4, <4>2, <2>a DEF ChecksAnswer, Requested
      <4>. QED BY <4>1, <4>2
    <3>. QED BY <2>4, <3>1, <3>2, <1>a, <1>b DEF ChecksAnswer
  <2>5. CASE VerifyBegins(r)
    <3>1. Rest
      BY <1>0, <2>5 DEF VerifyBegins, Rest
    <3>2. ReqOK
      BY <1>0, <2>5, <2>a DEF VerifyBegins, Requested
    <3>. QED BY <2>5, <3>1, <3>2, <1>a, <1>b DEF VerifyBegins
  <2>6. CASE VerifyEnds(r)
    <3>1. Rest
      BY <1>0, <2>0, <2>6 DEF VerifyEnds, Rest, Unmoved, SitesInv
    <3>2. ReqOK
      <4>1. CASE Unmoved(r)
        <5>. DEFINE F == Forgets({v \in Requests : Verifies(v)})
        <5>0. /\ F \in [Requests -> Requested]
              /\ \A q \in Requests : /\ F[q].at = req[q].at /\ F[q].gen = req[q].gen
                                     /\ F[q].entry = req[q].entry
          BY Forgotten
        <5>1. req' = [F EXCEPT ![r] = [F[r] EXCEPT !.at = "done"]]
          BY <2>6, <4>1 DEF VerifyEnds
        <5>. HIDE DEF F
        <5>2. [F[r] EXCEPT !.at = "done"] \in Requested
              /\ [F[r] EXCEPT !.at = "done"].at = "done"
          BY <5>0 DEF Requested
        <5>. QED
          BY <1>0, <2>6, <5>0, <5>1, <5>2 DEF VerifyEnds, ReqOK, SitesInv
      <4>2. CASE ~Unmoved(r)
        BY <1>0, <2>0, <2>6, <4>2, <2>a DEF VerifyEnds, Requested
      <4>. QED BY <4>1, <4>2
    <3>. QED BY <2>6, <3>1, <3>2, <1>a, <1>b DEF VerifyEnds
  <2>. QED
    BY <1>8, <2>1, <2>2, <2>3, <2>4, <2>5, <2>6 DEF RequestStep
<1>9. CASE UNCHANGED sVars
  <2>1. Rest
    BY <1>0, <1>9 DEF sVars, Rest
  <2>. QED BY <1>9, <2>1, <1>a, <1>b, <1>c DEF sVars
<1>. QED
  BY <1>1, <1>2, <1>3, <1>4, <1>5, <1>6, <1>7, <1>8, <1>9, <1>10 DEF SNext, LoadStep

(* Nothing is listed or kept at first.                                      *)
LEMMA SitesStart == SInit => SitesInv
<1>. SUFFICES ASSUME SInit PROVE SitesInv
  OBVIOUS
<1>1. /\ 0 \in Generations /\ 0 \in 0..MaxSitesTime /\ 0 \in 0..MaxExpiries
  BY SitesAssumption DEF Generations
<1>2. req \in [Requests -> Requested] /\ \A r \in Requests : req[r].at = "idle"
  BY <1>1 DEF SInit, Requested
<1>3. STypeOK
  BY <1>1, <1>2 DEF SInit, STypeOK, Requested
<1>4. /\ told = generation /\ generation <= config
      /\ cache = None /\ snapshot = None /\ \A g \in Generations : load[g] = None
  BY DEF SInit
<1>5. \A g, now : Trusted(None, g, now)
  BY DEF Trusted, OfGeneration, OfTime
<1>. QED
  BY <1>2, <1>3, <1>4, <1>5 DEF SitesInv, LoadInv

(* With the invariant the inventory is honest.                             *)
LEMMA SitesInvHonest == SitesInv => HonestInventory
BY DEF SitesInv, HonestInventory, OwnConfig, HonestTime, KeptEntries, Trusted, OfGeneration, OfTime

(* Whatever the providers and the clients do, and however the loads, the   *)
(* checks and the mutations of one key meet: nothing that is kept was      *)
(* listed with a configuration older than the last change, and no listing  *)
(* is older than the round of calls whose end is shown as the inventory's   *)
(* time (web/services/sites.ts).                                           *)
THEOREM HonestInventoryHolds == SSpec => []HonestInventory
<1>1. SInit => SitesInv
  BY SitesStart
<1>2. SitesInv => HonestInventory
  BY SitesInvHonest
<1>. QED
  BY <1>1, <1>2, SitesSteps, PTL DEF SSpec

-----------------------------------------------------------------------------
(* The connections of sites.                                              *)

(* A verdict says what the profile's credential was when it was read.       *)
LEMMA VerdictIsSeen ==
  ASSUME NEW n \in Names, NEW v \in VerdictRead(n)
  PROVE  /\ v \in Verdicts
         /\ v = "connected" => Credential(n) = "usable"
         /\ v = "reconnect_required" => Credential(n) = "unusable"
BY DEF VerdictRead, Credential, Verdicts

(* What has been seen is not forgotten, and what is there now is seen.      *)
LEMMA SeenGrows ==
  ASSUME ConnInv, Watches
  PROVE  /\ DOMAIN seen' = Names
         /\ \A n \in Names : /\ round' # "idle" => Credential(n)' \in seen'[n]
                             /\ round' # "idle" /\ round # "idle" => seen[n] \subseteq seen'[n]
BY DEF Watches, ConnInv

(* The child processes of anyone who runs the site CLI.                     *)
LEMMA CliTypes ==
  ASSUME ConnInv, NEW n \in Names, NEW s \in Sites \cup {Absent}, NEW works \in BOOLEAN,
         Sets(n, s, works), works => s # Absent
  PROVE  /\ profileSite' \in [Names -> Sites \cup {Absent}]
         /\ usable' \subseteq {m \in Names : profileSite'[m] # Absent}
<1>1. /\ profileSite \in [Names -> Sites \cup {Absent}]
      /\ usable \subseteq {m \in Names : profileSite[m] # Absent}
      /\ profileSite' = [profileSite EXCEPT ![n] = s]
      /\ usable' = IF works THEN usable \cup {n} ELSE usable \ {n}
  BY DEF ConnInv, CTypeOK, Sets
<1>2. \A m \in Names : profileSite'[m] = IF m = n THEN s ELSE profileSite[m]
  BY <1>1
<1>3. profileSite' \in [Names -> Sites \cup {Absent}]
  BY <1>1
<1>4. ASSUME NEW m \in usable' PROVE m \in Names /\ profileSite'[m] # Absent
  BY <1>1, <1>2, <1>4
<1>. QED BY <1>3, <1>4

(* The rest of a step: the profiles, the round and what was seen.           *)
LEMMA ConnSteps == ConnInv /\ [CNext]_cVars => ConnInv'
<1>. SUFFICES ASSUME ConnInv, [CNext]_cVars PROVE ConnInv'
  OBVIOUS
<1>0. /\ profileSite \in [Names -> Sites \cup {Absent}]
      /\ usable \subseteq {m \in Names : profileSite[m] # Absent}
      /\ round \in {"idle", "listing", "asking", "answered"}
      /\ listed \in [Names -> Sites \cup {Absent}] /\ askedNames \subseteq Profiles
      /\ verdict \in [Names -> Verdicts \cup {"none"}] /\ roundLate \in BOOLEAN
      /\ shownConnection \in [Sites -> States \cup {"none"}]
      /\ connect \in [Connects -> ConnectRecords]
      /\ round \in {"idle", "listing"} => askedNames = {}
      /\ DOMAIN seen = Names /\ \A n \in Names : SeenOf(n)
      /\ HonestConnections /\ ConnectedToSite
  BY DEF ConnInv, CTypeOK, TrueConnections
<1>. DEFINE CliOK == /\ profileSite' \in [Names -> Sites \cup {Absent}]
                     /\ usable' \subseteq {m \in Names : profileSite'[m] # Absent}
            RoundOK == /\ round' \in {"idle", "listing", "asking", "answered"}
                       /\ listed' \in [Names -> Sites \cup {Absent}] /\ askedNames' \subseteq Profiles'
                       /\ verdict' \in [Names -> Verdicts \cup {"none"}] /\ roundLate' \in BOOLEAN
                       /\ shownConnection' \in [Sites -> States \cup {"none"}]
                       /\ round' \in {"idle", "listing"} => askedNames' = {}
                       /\ DOMAIN seen' = Names /\ (\A n \in Names : SeenOf(n)')
                       /\ HonestConnections'
            ConnectOK == /\ connect' \in [Connects -> ConnectRecords] /\ ConnectedToSite'
                         /\ \A c \in Connects : connect'[c].at \in Connecting => connect'[c].site \in Sites
<1>a. ASSUME CliOK, RoundOK, ConnectOK PROVE ConnInv'
  <2>1. \A c \in Connects :
          /\ connect'[c].at \in {"idle", "finding", "checking", "login", "connected", "failed"}
          /\ connect'[c].name \in Names \cup {NoName} /\ connect'[c].proof \in {"none", "site", "profile"}
    BY <1>a DEF ConnectRecords
  <2>. QED BY <1>a, <2>1 DEF ConnInv, CTypeOK, TrueConnections
<1>b. ASSUME UNCHANGED connect PROVE ConnectOK
  BY <1>0, <1>b DEF ConnectedToSite, ConnInv
<1>c. ASSUME UNCHANGED cliVars PROVE CliOK
  BY <1>0, <1>c DEF cliVars
<1>d. ASSUME Watches, UNCHANGED roundVars PROVE RoundOK
  <2>1. UNCHANGED << round, listed, askedNames, verdict, roundLate, shownConnection >>
        /\ Profiles' = Profiles
    BY <1>d DEF roundVars, Profiles
  <2>2. ASSUME NEW n \in Names PROVE SeenOf(n)'
    BY <1>0, <1>d, <2>1, SeenGrows DEF SeenOf
  <2>3. HonestConnections'
    BY <1>0, <1>d, <2>1, SeenGrows DEF HonestConnections, Profiles
  <2>. QED BY <1>0, <1>d, <2>1, <2>2, <2>3, SeenGrows
<1>. HIDE DEF CliOK, RoundOK, ConnectOK
<1>1. CASE OtherCli /\ Watches
  <2>1. CliOK
    <3>1. ASSUME NEW n \in Names, NEW s \in Sites, profileSite[n] \in {Absent, s}, Sets(n, s, TRUE)
          PROVE  CliOK
      BY <3>1, CliTypes, ConnectionsAssumption DEF CliOK
    <3>2. ASSUME NEW n \in Names, n \in usable, Sets(n, profileSite[n], FALSE) PROVE CliOK
      BY <1>0, <3>2, CliTypes DEF CliOK
    <3>3. ASSUME NEW n \in Names, Sets(n, Absent, FALSE) PROVE CliOK
      BY <3>3, CliTypes DEF CliOK
    <3>4. ASSUME NEW n \in Names, NEW m \in Names,
                 profileSite[n] # Absent, profileSite[m] = Absent,
                 profileSite' = [profileSite EXCEPT ![m] = profileSite[n], ![n] = Absent],
                 usable' = IF n \in usable THEN (usable \ {n}) \cup {m} ELSE usable
          PROVE  CliOK
      <4>1. \A k \in Names : profileSite'[k] = IF k = n THEN Absent
                                               ELSE IF k = m THEN profileSite[n] ELSE profileSite[k]
        BY <1>0, <3>4
      <4>2. profileSite' \in [Names -> Sites \cup {Absent}]
        BY <1>0, <3>4
      <4>3. ASSUME NEW k \in usable' PROVE k \in Names /\ profileSite'[k] # Absent
        BY <1>0, <3>4, <4>1, <4>3
      <4>. QED BY <4>2, <4>3 DEF CliOK
    <3>. QED BY <1>1, <3>1, <3>2, <3>3, <3>4 DEF OtherCli
  <2>. QED BY <1>1, <2>1, <1>a, <1>b, <1>d DEF OtherCli, roundVars
<1>2. CASE RoundBegins /\ Watches
  <2>1. RoundOK
    BY <1>0, <1>2, SeenGrows DEF RoundBegins, RoundOK, SeenOf, HonestConnections, Profiles
  <2>. QED BY <1>2, <2>1, <1>a, <1>b, <1>c DEF RoundBegins
<1>3. CASE RoundDeadline /\ Watches
  <2>1. RoundOK
    BY <1>0, <1>3, SeenGrows DEF RoundDeadline, RoundOK, SeenOf, HonestConnections, Profiles
  <2>. QED BY <1>3, <2>1, <1>a, <1>b, <1>c DEF RoundDeadline
<1>4. CASE ListAnswers /\ Watches
  <2>0. /\ round = "listing" /\ round' = "asking" /\ listed' = profileSite
        /\ UNCHANGED << profileSite, usable, askedNames, verdict, roundLate, shownConnection, connect >>
        /\ askedNames = {}
    BY <1>0, <1>4 DEF ListAnswers, cliVars
  <2>2. \A n \in Names : SeenOf(n)'
    BY <1>0, <1>4, <2>0, SeenGrows DEF SeenOf
  <2>1. RoundOK
    BY <1>0, <1>4, <2>0, <2>2, SeenGrows DEF RoundOK, HonestConnections
  <2>. QED BY <1>4, <2>1, <1>a, <1>b, <1>c DEF ListAnswers
<1>5. CASE ListFails /\ Watches
  <2>1. RoundOK
    BY <1>0, <1>5, SeenGrows DEF ListFails, RoundOK, SeenOf, HonestConnections, Profiles, States
  <2>. QED BY <1>5, <2>1, <1>a, <1>b, <1>c DEF ListFails
<1>6. CASE RoundAnswers /\ Watches
  <2>1. /\ shownConnection' = [s \in Sites |-> Summary(s)] /\ round = "asking" /\ round' = "answered"
        /\ UNCHANGED << profileSite, usable, listed, askedNames, verdict, roundLate, connect >>
        /\ \A n \in Names : seen[n] \subseteq seen'[n]
        /\ Profiles' = Profiles
    BY <1>6, SeenGrows DEF RoundAnswers, cliVars, Profiles
  <2>2. ASSUME NEW s \in Sites
        PROVE  /\ Summary(s) \in States
               /\ Summary(s) = "connected" => \E n \in Matched(s) : verdict[n] = "connected"
               /\ Summary(s) = "reconnect_required" =>
                    \E n \in Matched(s) : verdict[n] = "reconnect_required"
               /\ Summary(s) = "not_configured" => Matched(s) = {}
    BY DEF Summary, States
  <2>3. HonestConnections'
    <3>1. ASSUME NEW s \in Sites PROVE
            LET own == {n \in Profiles : listed[n] = s} IN
            /\ Summary(s) = "connected" => \E n \in own : "usable" \in seen'[n]
            /\ Summary(s) = "reconnect_required" => \E n \in own : "unusable" \in seen'[n]
            /\ Summary(s) = "not_configured" => own = {}
      <4>1. Matched(s) = {n \in Profiles : listed[n] = s} /\ Matched(s) \subseteq Names
        BY DEF Matched, Profiles
      <4>2. \A n \in Names : /\ verdict[n] = "connected" => "usable" \in seen'[n]
                             /\ verdict[n] = "reconnect_required" => "unusable" \in seen'[n]
        BY <1>0, <2>1 DEF SeenOf
      <4>. QED BY <2>2, <4>1, <4>2
    <3>2. \A s \in Sites : shownConnection'[s] = Summary(s)
      BY <2>1
    <3>. QED
      BY <2>1, <3>1, <3>2 DEF HonestConnections
  <2>4. shownConnection' \in [Sites -> States \cup {"none"}]
    BY <2>1, <2>2
  <2>5. \A n \in Names : SeenOf(n)'
    BY <1>0, <1>6, <2>1, SeenGrows DEF SeenOf
  <2>6. RoundOK
    BY <1>0, <1>6, <2>1, <2>3, <2>4, <2>5, SeenGrows DEF RoundOK
  <2>. QED BY <1>6, <2>6, <1>a, <1>b, <1>c DEF RoundAnswers
<1>7. ASSUME NEW n \in Names, TakeName(n) \/ StatusAnswers(n), Watches PROVE ConnInv'
  <2>1. CASE TakeName(n)
    <3>1. RoundOK
      BY <1>0, <1>7, <2>1, SeenGrows DEF TakeName, RoundOK, SeenOf, HonestConnections, Profiles
    <3>. QED BY <2>1, <3>1, <1>a, <1>b, <1>c DEF TakeName
  <2>2. CASE StatusAnswers(n)
    <3>1. PICK v \in IF roundLate THEN {"unknown"} ELSE VerdictRead(n) :
            verdict' = [verdict EXCEPT ![n] = v]
      BY <2>2 DEF StatusAnswers
    <3>2. /\ v \in Verdicts
          /\ v = "connected" => Credential(n) = "usable"
          /\ v = "reconnect_required" => Credential(n) = "unusable"
      BY <3>1, VerdictIsSeen DEF Verdicts
    <3>3. /\ n \in askedNames /\ verdict[n] = "none" /\ round \in {"asking", "answered"}
          /\ UNCHANGED << profileSite, usable, round, listed, askedNames, roundLate,
                          shownConnection, connect >>
          /\ Profiles' = Profiles
      BY <1>0, <2>2 DEF StatusAnswers, cliVars, Profiles
    <3>4. ASSUME NEW m \in Names PROVE SeenOf(m)'
      <4>1. CASE m = n
        BY <1>0, <1>7, <3>1, <3>2, <3>3, <4>1, SeenGrows DEF SeenOf
      <4>2. CASE m # n
        BY <1>0, <1>7, <3>1, <3>3, <4>2, SeenGrows DEF SeenOf
      <4>. QED BY <4>1, <4>2
    <3>5. HonestConnections'
      BY <1>0, <1>7, <3>3, SeenGrows DEF HonestConnections, Profiles
    <3>6. RoundOK
      BY <1>0, <1>7, <3>1, <3>2, <3>3, <3>4, <3>5, SeenGrows DEF RoundOK
    <3>. QED
      BY <1>7, <2>2, <3>6, <1>a, <1>b, <1>c DEF StatusAnswers
  <2>. QED BY <1>7, <2>1, <2>2
<1>8. ASSUME NEW c \in Connects, Watches,
             \/ \E s \in Sites, n \in Names \cup {NoName} : Presses(c, s, n)
             \/ Finds(c) \/ Checks(c) \/ Logins(c)
      PROVE  ConnInv'
  <2>0. /\ connect[c] \in ConnectRecords
        /\ \A d \in Connects : /\ connect[d].at = "connected" => connect[d].proof # "none"
                               /\ connect[d].at \in Connecting => connect[d].site \in Sites
    BY <1>0 DEF ConnectedToSite, ConnInv
  <2>a. ASSUME NEW R \in ConnectRecords, R.at = "connected" => R.proof # "none",
               R.at \in Connecting => R.site \in Sites,
               connect' = [connect EXCEPT ![c] = R]
        PROVE  ConnectOK
    BY <1>0, <2>0, <2>a DEF ConnectOK, ConnectedToSite
  <2>1. CASE \E s \in Sites, n \in Names \cup {NoName} : Presses(c, s, n)
    <3>1. PICK s \in Sites, n \in Names \cup {NoName} : Presses(c, s, n)
      BY <2>1
    <3>2. ConnectOK
      BY <2>0, <2>a, <3>1 DEF Presses, ConnectRecords, Connecting
    <3>. QED BY <1>8, <3>1, <3>2, <1>a, <1>c, <1>d DEF Presses
  <2>2. CASE Finds(c)
    <3>1. PICK n \in Existing(c) \cup {connect[c].name} :
            connect' = [connect EXCEPT ![c].name = n,
                          ![c].at = IF n = NoName THEN "login" ELSE "checking"]
      BY <2>2 DEF Finds
    <3>2. n \in Names \cup {NoName}
      BY <2>0, <3>1 DEF Existing, ConnectRecords
    <3>3. PICK at \in {"login", "checking"} : at = IF n = NoName THEN "login" ELSE "checking"
      OBVIOUS
    <3>4. connect' = [connect EXCEPT ![c] = [connect[c] EXCEPT !.name = n, !.at = at]]
      BY <1>0, <3>1, <3>3
    <3>5. ConnectOK
      BY <2>0, <2>2, <2>a, <3>2, <3>4 DEF Finds, ConnectRecords, Connecting
    <3>. QED BY <1>8, <2>2, <3>5, <1>a, <1>c, <1>d DEF Finds
  <2>3. CASE Checks(c)
    <3>0. connect[c].site \in Sites
      BY <2>0, <2>3 DEF Checks, Connecting
    <3>1. CASE \E at \in {"failed", "login"} : connect' = [connect EXCEPT ![c].at = at]
      <4>1. PICK at \in {"failed", "login"} :
              connect' = [connect EXCEPT ![c] = [connect[c] EXCEPT !.at = at]]
        BY <1>0, <3>1
      <4>2. ConnectOK
        BY <2>0, <2>a, <3>0, <4>1 DEF ConnectRecords, Connecting
      <4>. QED BY <1>8, <2>3, <4>2, <1>a, <1>c, <1>d DEF Checks
    <3>2. ASSUME NEW named \in BOOLEAN, RightSite(c, named),
                 connect' = [connect EXCEPT ![c].at = "connected", ![c].proof = Proof(c, named)]
          PROVE  ConnInv'
      <4>1. Proof(c, named) \in {"site", "profile"}
        BY <3>2 DEF RightSite, Proof
      <4>2. PICK proof \in {"site", "profile"} :
              connect' = [connect EXCEPT ![c] =
                           [connect[c] EXCEPT !.at = "connected", !.proof = proof]]
        BY <1>0, <3>2, <4>1
      <4>3. ConnectOK
        BY <2>0, <2>a, <3>0, <4>2 DEF ConnectRecords, Connecting
      <4>. QED BY <1>8, <2>3, <4>3, <1>a, <1>c, <1>d DEF Checks
    <3>3. ASSUME NEW named \in BOOLEAN,
                 connect' = IF ~RightSite(c, named) THEN [connect EXCEPT ![c].at = "failed"]
                            ELSE IF connect[c].name \in usable
                            THEN [connect EXCEPT ![c].at = "connected",
                                                 ![c].proof = Proof(c, named)]
                            ELSE [connect EXCEPT ![c].at = "login"]
          PROVE  ConnInv'
      <4>1. CASE RightSite(c, named) /\ connect[c].name \in usable
        BY <3>2, <3>3, <4>1
      <4>2. CASE ~(RightSite(c, named) /\ connect[c].name \in usable)
        BY <3>1, <3>3, <4>2
      <4>. QED BY <4>1, <4>2
    <3>. QED BY <2>3, <3>1, <3>3 DEF Checks
  <2>4. CASE Logins(c)
    <3>1. CASE UNCHANGED cliVars /\ connect' = [connect EXCEPT ![c].at = "failed"]
      <4>1. connect' = [connect EXCEPT ![c] = [connect[c] EXCEPT !.at = "failed"]]
        BY <1>0, <3>1
      <4>2. ConnectOK
        BY <2>0, <2>a, <4>1 DEF ConnectRecords, Connecting
      <4>. QED BY <1>8, <2>4, <3>1, <4>2, <1>a, <1>c, <1>d DEF Logins
    <3>2. ASSUME NEW n \in Names, profileSite[n] \in {Absent, connect[c].site},
                 Sets(n, connect[c].site, TRUE),
                 NEW end \in {"connected", "failed"},
                 connect' = [connect EXCEPT ![c].at = end, ![c].proof = "site"]
          PROVE  ConnInv'
      <4>1. connect' = [connect EXCEPT ![c] = [connect[c] EXCEPT !.at = end, !.proof = "site"]]
        BY <1>0, <3>2
      <4>2. ConnectOK
        BY <2>0, <2>a, <4>1, <3>2 DEF ConnectRecords, Connecting
      <4>3. connect[c].site \in Sites
        BY <2>0, <2>4 DEF Logins, Connecting
      <4>4. CliOK
        BY <3>2, <4>3, CliTypes, ConnectionsAssumption DEF CliOK
      <4>. QED BY <1>8, <2>4, <4>2, <4>4, <1>a, <1>d DEF Logins
    <3>. QED
      BY <1>0, <2>0, <2>4, <3>1, <3>2 DEF Logins, ConnectRecords
  <2>. QED BY <1>8, <2>1, <2>2, <2>3, <2>4
<1>9. CASE UNCHANGED cVars
  <2>1. RoundOK
    BY <1>0, <1>9 DEF cVars, RoundOK, SeenOf, Credential, HonestConnections, Profiles
  <2>. QED BY <1>9, <2>1, <1>a, <1>b, <1>c DEF cVars, cliVars
<1>. QED
  BY <1>1, <1>2, <1>3, <1>4, <1>5, <1>6, <1>7, <1>8, <1>9 DEF CNext

(* Whatever profiles there are, nothing was shown or connected yet.         *)
LEMMA ConnStarts == CInit => ConnInv
<1>. SUFFICES ASSUME CInit PROVE ConnInv
  OBVIOUS
<1>1. /\ connect \in [Connects -> ConnectRecords]
      /\ \A c \in Connects : connect[c].at = "idle" /\ connect[c].name = NoName
                             /\ connect[c].proof = "none"
  BY DEF CInit, ConnectRecords
<1>2. CTypeOK
  BY <1>1 DEF CInit, CTypeOK, Profiles, States, Verdicts
<1>3. /\ DOMAIN seen = Names /\ \A n \in Names : SeenOf(n)
      /\ round \in {"idle", "listing"} => askedNames = {}
  BY DEF CInit, SeenOf
<1>5. \A c \in Connects : connect[c].at \in Connecting => connect[c].site \in Sites
  BY <1>1 DEF Connecting
<1>4. TrueConnections
  BY <1>1 DEF CInit, TrueConnections, HonestConnections, ConnectedToSite
<1>. QED
  BY <1>1, <1>2, <1>3, <1>4, <1>5 DEF ConnInv

(* However the site CLI is used meanwhile, by anyone: what the inventory   *)
(* shows of a site's connection was seen while it was made, and Connect    *)
(* says "connected" only of a profile it made for the very site, or whose   *)
(* status was usable and named no other site (integration/profiles.ts,      *)
(* connection.ts, connect.ts).                                             *)
THEOREM TrueConnectionsHolds == CSpec => []TrueConnections
<1>1. CInit => ConnInv
  BY ConnStarts
<1>2. ConnInv => TrueConnections
  BY DEF ConnInv
<1>. QED
  BY <1>1, <1>2, ConnSteps, PTL DEF CSpec

(* The sites service and the connections together: what the sites page     *)
(* shows was listed with the configuration of now, no earlier than in the  *)
(* round it is dated by, and a connection it shows was seen of its site.   *)
THEOREM SitesHonestHolds == SSpec /\ CSpec => []SitesHonest
<1>1. HonestInventory /\ TrueConnections => SitesHonest
  BY DEF SitesHonest
<1>. QED
  BY <1>1, HonestInventoryHolds, TrueConnectionsHolds, PTL

-----------------------------------------------------------------------------
(* The suite of these parts (MCDashboard): what is proved of a part is true *)
(* of every behaviour in which it, or another part, is at work.            *)

(* What every part keeps, in whatever part a behaviour is.                 *)
PartsInv ==
  /\ SitesInv /\ ConnInv /\ McpInv /\ ChildInv /\ SkillsInv /\ ProInv
  /\ SetupInv /\ ProvInv /\ RestoreInv /\ PushKept /\ AccountInv /\ SavesCounted

(* Each part starts as its invariant says.                                 *)
LEMMA PartsStart == DashboardInit => PartsInv
<1>. SUFFICES ASSUME DashboardInit PROVE PartsInv
  OBVIOUS
<1>1. /\ SInit /\ CInit /\ MInit /\ KInit /\ SkillsInit /\ ProInit
      /\ SetupInit /\ ProvInit /\ RestoreInit /\ PushInit /\ AInit
  BY DEF DashboardInit
<1>. QED
  BY <1>1, SitesStart, ConnStarts, McpInit, ChildStarts, SkillsStart, ProStarts,
     SetupStarts, ProvStarts, RestoreStarts, PushKeptStarts, AccountStarts, SavesStart, Zenon DEF PartsInv

(* A step of the suite is one of each part, or leaves it alone.            *)
LEMMA PartsStep ==
  ASSUME [DashboardNext]_<<part, sVars, cVars, mVars, kVars, skillVars, proVars, setupVars,
                           provVars, restoreVars, pushVars, aVars>>
  PROVE  /\ [SNext]_sVars /\ [CNext]_cVars /\ [MNext]_mVars /\ [KNext]_kVars
         /\ [SkillsNext]_skillVars /\ [ProNext]_proVars /\ [SetupNext]_setupVars
         /\ [ProvNext]_provVars /\ [RestoreNext]_restoreVars /\ [PushNext]_pushVars
         /\ [ANext]_aVars
<1>1. CASE Only("sites") /\ SNext
  BY <1>1 DEF Only
<1>2. CASE (Only("connections") \/ Only("connect")) /\ CNext
  BY <1>2 DEF Only
<1>3. CASE Only("mcp") /\ MNext
  BY <1>3 DEF Only
<1>4. CASE Only("child") /\ KNext
  BY <1>4 DEF Only
<1>5. CASE Only("skills") /\ SkillsNext
  BY <1>5 DEF Only
<1>6. CASE Only("pro") /\ ProNext
  BY <1>6 DEF Only
<1>7. CASE Only("setup") /\ SetupNext
  BY <1>7 DEF Only
<1>8. CASE Only("provisioning") /\ ProvNext
  BY <1>8 DEF Only
<1>9. CASE Only("restore") /\ RestoreNext
  BY <1>9 DEF Only
<1>10. CASE Only("push") /\ PushNext
  BY <1>10 DEF Only
<1>11. CASE Only("accounts") /\ ANext
  BY <1>11 DEF Only
<1>12. CASE UNCHANGED <<part, sVars, cVars, mVars, kVars, skillVars, proVars, setupVars,
                        provVars, restoreVars, pushVars, aVars>>
  BY <1>12
<1>. QED
  BY <1>1, <1>2, <1>3, <1>4, <1>5, <1>6, <1>7, <1>8, <1>9, <1>10, <1>11, <1>12, Zenon
  DEF DashboardNext

(* What every part keeps is kept in the suite.                             *)
LEMMA PartsAlways == DashboardSpec => []PartsInv
<1>1. ASSUME PartsInv,
             [DashboardNext]_<<part, sVars, cVars, mVars, kVars, skillVars, proVars, setupVars,
                               provVars, restoreVars, pushVars, aVars>>
      PROVE  PartsInv'
  <2>1. /\ [SNext]_sVars /\ [CNext]_cVars /\ [MNext]_mVars /\ [KNext]_kVars
        /\ [SkillsNext]_skillVars /\ [ProNext]_proVars /\ [SetupNext]_setupVars
        /\ [ProvNext]_provVars /\ [RestoreNext]_restoreVars /\ [PushNext]_pushVars
        /\ [ANext]_aVars
    BY <1>1, PartsStep
  <2>. QED
    BY <1>1, <2>1, SitesSteps, ConnSteps, McpStep, ChildSteps, SkillsSteps, ProSteps,
       SetupSteps, ProvSteps, RestoreStepKeeps, PushKeptSteps, AccountSteps,
       SavesSteps, Zenon DEF PartsInv, AccountInv
<1>. QED BY <1>1, PartsStart, PTL DEF DashboardSpec

(* The state of the part at work has its type, its lists keep their limits, *)
(* and all that the theorems above rest on holds: sites, connections, the   *)
(* MCP session, child processes, skills, Pro, setups, provisioning,         *)
(* restores, pushes and accounts, for any constants.                       *)
THEOREM DashboardTypeOKHolds == DashboardSpec => []DashboardTypeOK
<1>2. DashboardInit => part \in Parts
  BY DEF DashboardInit
<1>3. ASSUME part \in Parts,
             [DashboardNext]_<<part, sVars, cVars, mVars, kVars, skillVars, proVars, setupVars,
                               provVars, restoreVars, pushVars, aVars>>
      PROVE  (part \in Parts)'
  BY <1>3 DEF DashboardNext, Only
<1>4. PartsInv /\ part \in Parts => DashboardTypeOK
  <2>1. SetupInv => SetupTypeOK
    BY DEF SetupInv
  <2>2. PushKept => PushTypeOK /\ PushInv
    BY PushKeptTyped DEF PushKept
  <2>. QED BY <2>1, <2>2, AccountsTyped DEF PartsInv, DashboardTypeOK, Parts
<1>. QED BY <1>2, <1>3, <1>4, PartsAlways, PTL DEF DashboardSpec

(* All that is checked of the services together: inventories and           *)
(* connections, confirmations, children, skills, Pro, setups, pushes,      *)
(* provisioning, restores and removals are what their sections say, with   *)
(* the other parts there (web/services, mcp/server.ts, integration).       *)
THEOREM DashboardSuite ==
  DashboardSpec =>
    [](/\ SitesHonest /\ ReviewedOnce /\ WholeOutput /\ SkillsPreserved /\ ProAsReviewed
       /\ RegistryKept /\ NoOverlap /\ HonestJob /\ Preserves /\ RestoresAsConfirmed
       /\ RemovalAsReviewed)
<1>1. DashboardInit => /\ CInit /\ SkillsInit /\ ProInit /\ SetupInit /\ ProvInit /\ RestoreInit
                       /\ PushInit /\ AInit
  BY DEF DashboardInit
<1>2. ASSUME [DashboardNext]_<<part, sVars, cVars, mVars, kVars, skillVars, proVars, setupVars,
                               provVars, restoreVars, pushVars, aVars>>
      PROVE  /\ [CNext]_cVars /\ [SkillsNext]_skillVars /\ [ProNext]_proVars
             /\ [SetupNext]_setupVars /\ [ProvNext]_provVars /\ [RestoreNext]_restoreVars
             /\ [PushNext]_pushVars /\ [ANext]_aVars
  BY <1>2, PartsStep
<1>3. DashboardSpec => /\ CSpec /\ SkillsSpec /\ ProSpec /\ SetupSpec /\ ProvSpec /\ RestoreSpec
                       /\ PushSpec /\ ASpec
  BY <1>1, <1>2, PTL DEF DashboardSpec, CSpec, SkillsSpec, ProSpec, SetupSpec, ProvSpec,
                         RestoreSpec, PushSpec, ASpec
<1>4. PartsInv => HonestInventory /\ ReviewedOnce /\ WholeOutput
  BY SitesInvHonest DEF PartsInv, McpInv, ChildInv
<1>5. HonestInventory /\ TrueConnections => SitesHonest
  BY DEF SitesHonest
<1>. QED
  BY <1>3, <1>4, <1>5, PartsAlways, TrueConnectionsHolds, SkillsPreservedHolds, ProAsReviewedHolds,
     RegistryKeptHolds, NoOverlapHolds, HonestJobHolds, PreservesHolds, RestoresAsConfirmedHolds,
     RemovalAsReviewedHolds, PTL
=============================================================================
