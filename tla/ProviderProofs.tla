--------------------------- MODULE ProviderProofs ---------------------------
(* Proofs about the clients of the hosting providers and the journal that   *)
(* they share (MCProviders): the tokens a client keeps (ProviderSessions),  *)
(* how the outcome of a request is proved (ProviderOperations), setups      *)
(* through a provider's API (ProviderSetups), what a client lists           *)
(* (ProviderInventories, CpanelSites), and what an action comes to          *)
(* (ProviderActions).                                                       *)
EXTENDS MCProviders, HistoryProofs, FiniteSetTheorems, FunctionTheorems,
        SequenceTheorems, WellFoundedInduction, TLAPS

-----------------------------------------------------------------------------
(* The tokens that a provider's client shares (ProviderSessions).           *)

(* What the types say of the exchanges, of the requests and of the constants. *)
LEMMA TokensAre ==
  ASSUME TokenInv
  PROVE  /\ TokenPieces /\ ExchangesInTime /\ PromiseSettles /\ KeptIsGood /\ AskersInTime
         /\ sessionNow \in Nat /\ usableUntil \in Int
         /\ Lifetime \in Nat /\ Margin \in Nat /\ Latency \in Nat /\ Latency <= Margin
         /\ Margin < Lifetime
         /\ exchanges \in Seq(ExchangeRecords) /\ Len(exchanges) \in Nat
         /\ DOMAIN exchanges = 1 .. Len(exchanges)
         /\ \A n \in DOMAIN exchanges : /\ n \in Nat /\ n # 0 /\ exchanges[n] \in ExchangeRecords
                                       /\ exchanges[n].began \in Nat /\ exchanges[n].issued \in Nat
         /\ cached \in {0} \cup DOMAIN exchanges /\ promise \in {0} \cup DOMAIN exchanges
         /\ asker \in [Askers -> AskerRecords]
         /\ \A a \in Askers : asker[a].since \in Nat /\ asker[a].of \in Nat
<1>1. /\ TokenPieces /\ ExchangesInTime /\ PromiseSettles /\ KeptIsGood /\ AskersInTime
      /\ sessionNow \in Nat /\ usableUntil \in Int /\ exchanges \in Seq(ExchangeRecords)
      /\ cached \in {0} \cup DOMAIN exchanges /\ promise \in {0} \cup DOMAIN exchanges
      /\ asker \in [Askers -> AskerRecords]
  BY DEF TokenInv, TokenPieces
<1>2. /\ Lifetime \in Nat /\ Margin \in Nat /\ Latency \in Nat /\ Latency <= Margin
      /\ Margin < Lifetime
  BY SessionAssumption DEF SessionAssumption
<1>3. /\ Len(exchanges) \in Nat /\ DOMAIN exchanges = 1 .. Len(exchanges)
      /\ \A n \in DOMAIN exchanges : n \in Nat /\ n # 0 /\ exchanges[n] \in ExchangeRecords
  BY <1>1
<1>4. \A n \in DOMAIN exchanges : exchanges[n].began \in Nat /\ exchanges[n].issued \in Nat
  BY <1>3 DEF ExchangeRecords
<1>5. \A a \in Askers : asker[a].since \in Nat /\ asker[a].of \in Nat
  BY <1>1 DEF AskerRecords
<1>. QED BY <1>1, <1>2, <1>3, <1>4, <1>5

(* What an exchange becomes, the others as they were.                      *)
LEMMA ExchangeTo ==
  ASSUME TokenInv, NEW n \in DOMAIN exchanges, NEW st \in ExchangeStates, NEW i \in Nat,
         exchanges' = [exchanges EXCEPT ![n] = [@ EXCEPT !.state = st, !.issued = i]]
  PROVE  /\ exchanges' \in Seq(ExchangeRecords) /\ DOMAIN exchanges' = DOMAIN exchanges
         /\ \A m \in DOMAIN exchanges : m # n => exchanges'[m] = exchanges[m]
         /\ exchanges'[n].state = st /\ exchanges'[n].issued = i
         /\ exchanges'[n].began = exchanges[n].began
<1>1. exchanges \in Seq(ExchangeRecords) /\ exchanges[n] \in ExchangeRecords
  BY TokensAre
<1>. DEFINE r == [exchanges[n] EXCEPT !.state = st, !.issued = i]
<1>2. r \in ExchangeRecords /\ r.state = st /\ r.issued = i /\ r.began = exchanges[n].began
  BY <1>1 DEF ExchangeRecords
<1>3. exchanges' = [exchanges EXCEPT ![n] = r]
  OBVIOUS
<1>. HIDE DEF r
<1>4. exchanges' \in Seq(ExchangeRecords) /\ Len(exchanges') = Len(exchanges)
  BY <1>2, <1>3, TokensAre, ExceptSeq
<1>5. DOMAIN exchanges' = DOMAIN exchanges
  BY <1>3
<1>. QED BY <1>2, <1>3, <1>4, <1>5

(* Nothing is kept and nobody waits at the start.                          *)
LEMMA TokenStarts == PsnInit => TokenInv
<1>. SUFFICES ASSUME PsnInit PROVE TokenInv
  OBVIOUS
<1>1. exchanges = <<>> /\ DOMAIN exchanges = {} /\ exchanges \in Seq(ExchangeRecords)
  BY DEF PsnInit
<1>2. asker \in [Askers -> AskerRecords] /\ \A a \in Askers : asker[a].at = "idle"
  BY DEF PsnInit, AskerRecords
<1>3. sessionNow = 0 /\ cached = 0 /\ usableUntil = 0 /\ promise = 0
  BY DEF PsnInit
<1>. QED BY <1>1, <1>2, <1>3
         DEF TokenInv, TokenPieces, ExchangesInTime, PromiseSettles, KeptIsGood, AskersInTime

(* The requests come, wait, and go; a token that is kept is used.          *)
LEMMA AskersKeep ==
  ASSUME TokenInv, NEW a \in Askers,
         UsesKept(a) \/ WaitsForShared(a) \/ ReplaysFailure(a) \/ AsksAgain(a)
  PROVE  TokenInv'
<1>0. /\ TokenPieces /\ ExchangesInTime /\ PromiseSettles /\ KeptIsGood /\ AskersInTime
      /\ asker \in [Askers -> AskerRecords]
  BY TokensAre
<1>1. UNCHANGED <<cacheKind, sessionNow, cached, usableUntil, promise, exchanges>>
  BY DEF UsesKept, WaitsForShared, ReplaysFailure, AsksAgain
<1>2. ExchangesInTime' /\ PromiseSettles' /\ KeptIsGood'
  BY <1>0, <1>1 DEF ExchangesInTime, PromiseSettles, KeptIsGood, UnderWay, Expires
<1>. DEFINE Goes(place, of) == asker' = [asker EXCEPT ![a] = [at |-> place, of |-> of, since |-> sessionNow]]
<1>3. \/ Goes("has", cached) /\ Kept
      \/ Goes("waits", promise) /\ promise # 0 /\ ~Kept
      \/ Goes("idle", 0)
  <2>1. ~ReplaysFailure(a)
    BY <1>0 DEF ReplaysFailure, AskersInTime, UnderWay
  <2>. QED BY <2>1 DEF UsesKept, WaitsForShared, AsksAgain, AsksFor, Shares
<1>4. /\ asker' \in [Askers -> AskerRecords] /\ \A b \in Askers : b # a => asker'[b] = asker[b]
      /\ asker'[a].since = sessionNow
      /\ \/ asker'[a].at = "has" /\ asker'[a].of = cached /\ Kept
         \/ asker'[a].at = "waits" /\ asker'[a].of = promise /\ promise # 0 /\ ~Kept
         \/ asker'[a].at = "idle"
  <2>1. ASSUME NEW place \in {"idle", "waits", "has", "failed"}, NEW of \in Nat, Goes(place, of)
        PROVE  /\ asker' \in [Askers -> AskerRecords]
               /\ \A b \in Askers : b # a => asker'[b] = asker[b]
               /\ asker'[a].since = sessionNow /\ asker'[a].at = place /\ asker'[a].of = of
    <3>1. [at |-> place, of |-> of, since |-> sessionNow] \in AskerRecords
      BY TokensAre DEF AskerRecords
    <3>. QED BY <1>0, <2>1, <3>1
  <2>2. cached \in Nat /\ promise \in Nat
    BY TokensAre
  <2>. HIDE DEF Goes
  <2>. QED BY <1>3, <2>1, <2>2
<1>5. TokenPieces'
  BY <1>0, <1>1, <1>4 DEF TokenPieces
<1>6. asker'[a].at = "waits" =>
        /\ asker'[a].of \in DOMAIN exchanges /\ UnderWay(asker'[a].of)
        /\ asker'[a].since <= sessionNow
  BY <1>0, <1>4, TokensAre DEF PromiseSettles, Kept
<1>7. asker'[a].at = "has" =>
        /\ asker'[a].of \in DOMAIN exchanges /\ exchanges[asker'[a].of].state = "done"
        /\ Expires => asker'[a].since < exchanges[asker'[a].of].issued + Lifetime
  <2>1. cached # 0 => cached \in DOMAIN exchanges /\ exchanges[cached].issued \in Nat
    BY TokensAre
  <2>2. usableUntil \in Int /\ Lifetime \in Nat /\ sessionNow \in Nat
    BY TokensAre
  <2>. QED BY <1>0, <1>4, <2>1, <2>2 DEF KeptIsGood, Kept
<1>8. AskersInTime'
  BY <1>0, <1>1, <1>4, <1>6, <1>7 DEF AskersInTime, UnderWay, Expires
<1>. QED BY <1>2, <1>5, <1>8 DEF TokenInv

(* An exchange begins when none is shared, so none is under way.           *)
LEMMA BeginKeepsTokens ==
  ASSUME TokenInv, NEW a \in Askers, BeginsExchange(a)
  PROVE  TokenInv'
<1>0. /\ TokenPieces /\ ExchangesInTime /\ PromiseSettles /\ KeptIsGood /\ AskersInTime
      /\ asker \in [Askers -> AskerRecords] /\ sessionNow \in Nat /\ Latency \in Nat
      /\ exchanges \in Seq(ExchangeRecords) /\ Len(exchanges) \in Nat
      /\ DOMAIN exchanges = 1 .. Len(exchanges)
  BY TokensAre
<1>1. PICK k \in Nat : k = Len(exchanges) + 1
  BY <1>0
<1>2. PICK fresh \in ExchangeRecords :
        fresh = [began |-> sessionNow, issued |-> sessionNow, state |-> "under way"]
  BY <1>0 DEF ExchangeRecords, ExchangeStates
<1>3. /\ exchanges' = Append(exchanges, fresh) /\ promise' = k /\ promise = 0
      /\ UNCHANGED <<cacheKind, sessionNow, cached, usableUntil>>
  BY <1>1, <1>2 DEF BeginsExchange, Shares
<1>4. fresh.began = sessionNow /\ fresh.issued = sessionNow
  BY <1>2
<1>5. fresh.state = "under way"
  BY <1>2
<1>6. /\ exchanges' \in Seq(ExchangeRecords) /\ Len(exchanges') = k
      /\ \A n \in 1 .. Len(exchanges) : exchanges'[n] = exchanges[n]
      /\ exchanges'[k] = fresh
  BY <1>0, <1>1, <1>3, AppendProperties
<1>7. /\ DOMAIN exchanges' = 1 .. k /\ k \in 1 .. k
      /\ \A n \in 1 .. k : n = k \/ (n \in DOMAIN exchanges /\ exchanges'[n] = exchanges[n])
  BY <1>0, <1>1, <1>6
<1>8. \A n \in DOMAIN exchanges : ~UnderWay(n) /\ n # k /\ n \in 1 .. k
  <2>1. \A n \in DOMAIN exchanges : n # 0 /\ (UnderWay(n) => promise = n)
    BY TokensAre DEF ExchangesInTime
  <2>2. \A n \in DOMAIN exchanges : n # k /\ n \in 1 .. k
    BY <1>0, <1>1
  <2>. QED BY <1>3, <2>1, <2>2
<1>9. ExchangesInTime'
  <2>1. ASSUME NEW n \in 1 .. k
        PROVE  /\ exchanges'[n].began <= exchanges'[n].issued /\ exchanges'[n].issued <= sessionNow
               /\ n = k => sessionNow <= exchanges'[n].began + Latency
    <3>1. CASE n = k
      <4>1. exchanges'[n] = fresh
        BY <1>6, <3>1
      <4>. QED BY <1>0, <1>4, <4>1
    <3>2. CASE n # k
      <4>1. n \in DOMAIN exchanges /\ exchanges'[n] = exchanges[n]
        BY <1>7, <3>2
      <4>. QED BY <1>0, <3>2, <4>1 DEF ExchangesInTime
    <3>. QED BY <3>1, <3>2
  <2>2. \A n \in 1 .. k : exchanges'[n].state \in {"under way", "issued"} => n = k
    BY <1>7, <1>8 DEF UnderWay
  <2>. QED BY <1>3, <1>7, <2>1, <2>2 DEF ExchangesInTime, UnderWay
<1>10. PromiseSettles'
  BY <1>3, <1>5, <1>6 DEF PromiseSettles, UnderWay
<1>11. KeptIsGood'
  <2>1. cached # 0 => cached \in DOMAIN exchanges
    BY TokensAre
  <2>. QED BY <1>0, <1>3, <1>6, <2>1 DEF KeptIsGood, Expires
<1>12. /\ asker' \in [Askers -> AskerRecords]
       /\ asker'[a] = [at |-> "waits", of |-> k, since |-> sessionNow]
       /\ \A b \in Askers : b # a => asker'[b] = asker[b]
  <2>1. [at |-> "waits", of |-> k, since |-> sessionNow] \in AskerRecords
    BY <1>0 DEF AskerRecords
  <2>2. AsksFor(a, "waits", k)
    BY <1>1 DEF BeginsExchange
  <2>. QED BY <1>0, <2>1, <2>2 DEF AsksFor
<1>13. TokenPieces'
  <2>1. cached' \in {0} \cup DOMAIN exchanges'
    BY <1>3, <1>7, <1>8, TokensAre
  <2>. QED BY <1>0, <1>3, <1>6, <1>7, <1>12, <2>1 DEF TokenPieces
<1>14. AskersInTime'
  <2>1. ASSUME NEW b \in Askers, b # a
        PROVE  /\ asker'[b].at = "waits" => FALSE
               /\ asker'[b].at = "has" =>
                    /\ asker'[b].of \in 1 .. k /\ exchanges'[asker'[b].of].state = "done"
                    /\ Expires' => asker'[b].since < exchanges'[asker'[b].of].issued + Lifetime
    <3>1. asker'[b] = asker[b]
      BY <1>12, <2>1
    <3>2. Expires' <=> Expires
      BY <1>3 DEF Expires
    <3>3. asker[b].at # "waits"
      BY <1>0, <1>8 DEF AskersInTime
    <3>4. asker[b].at = "has" => asker[b].of \in 1 .. k /\ exchanges'[asker[b].of] = exchanges[asker[b].of]
      BY <1>0, <1>6, <1>8 DEF AskersInTime
    <3>. QED BY <1>0, <3>1, <3>2, <3>3, <3>4 DEF AskersInTime
  <2>2. /\ asker'[a].at = "waits" /\ asker'[a].of = k /\ asker'[a].since = sessionNow
    BY <1>12
  <2>3. sessionNow' = sessionNow /\ sessionNow <= sessionNow
    BY <1>0, <1>3
  <2>4. exchanges'[k].state = "under way"
    BY <1>5, <1>6
  <2>. QED BY <1>7, <2>1, <2>2, <2>3, <2>4 DEF AskersInTime, UnderWay
<1>. QED BY <1>9, <1>10, <1>11, <1>13, <1>14 DEF TokenInv

(* The provider issues the token, answers, or fails; time passes.          *)
LEMMA IssueKeeps ==
  ASSUME TokenInv, NEW n \in DOMAIN exchanges, Issues(n)
  PROVE  TokenInv'
<1>0. /\ TokenPieces /\ ExchangesInTime /\ PromiseSettles /\ KeptIsGood /\ AskersInTime
      /\ sessionNow \in Nat /\ Latency \in Nat /\ exchanges[n] \in ExchangeRecords
  BY TokensAre
<1>1. UNCHANGED <<cacheKind, sessionNow, cached, usableUntil, promise, asker>>
  BY DEF Issues
<1>2. /\ exchanges' \in Seq(ExchangeRecords) /\ DOMAIN exchanges' = DOMAIN exchanges
      /\ \A m \in DOMAIN exchanges : m # n => exchanges'[m] = exchanges[m]
      /\ exchanges'[n].state = "issued" /\ exchanges'[n].issued = sessionNow
      /\ exchanges'[n].began = exchanges[n].began
  <2>1. exchanges' = [exchanges EXCEPT ![n] = [@ EXCEPT !.state = "issued", !.issued = sessionNow]]
    BY DEF Issues
  <2>2. "issued" \in ExchangeStates
    BY DEF ExchangeStates
  <2>. QED BY <1>0, <2>1, <2>2, ExchangeTo
<1>3. TokenPieces'
  BY <1>0, <1>1, <1>2 DEF TokenPieces, ExchangeRecords
<1>4. ExchangesInTime'
  <2>1. exchanges[n].began \in Nat /\ exchanges[n].issued \in Nat
    BY <1>0 DEF ExchangeRecords
  <2>2. UnderWay(n)
    BY DEF Issues, UnderWay
  <2>3. /\ promise = n /\ sessionNow <= exchanges[n].began + Latency
        /\ exchanges[n].began <= exchanges[n].issued /\ exchanges[n].issued <= sessionNow
    BY <1>0, <2>2 DEF ExchangesInTime
  <2>4. exchanges'[n].issued = sessionNow /\ exchanges'[n].began = exchanges[n].began
    BY <1>2
  <2>5. ASSUME NEW m \in DOMAIN exchanges
        PROVE  /\ exchanges'[m].began <= exchanges'[m].issued /\ exchanges'[m].issued <= sessionNow
               /\ UnderWay(m) => promise = m /\ sessionNow <= exchanges'[m].began + Latency
    <3>1. CASE m = n
      BY <1>0, <2>1, <2>3, <2>4, <3>1
    <3>2. CASE m # n
      <4>1. exchanges'[m] = exchanges[m]
        BY <1>2, <3>2
      <4>. QED BY <1>0, <4>1 DEF ExchangesInTime
    <3>. QED BY <3>1, <3>2
  <2>6. \A m \in DOMAIN exchanges : UnderWay(m)' => UnderWay(m)
    BY <1>2, <2>2 DEF UnderWay
  <2>. QED BY <1>1, <1>2, <2>5, <2>6 DEF ExchangesInTime
<1>5. exchanges[n].state = "under way"
  BY DEF Issues
<1>6. PromiseSettles'
  <2>1. promise # 0 => promise \in DOMAIN exchanges
    BY TokensAre
  <2>2. promise' = promise /\ cached' = cached /\ (Expires' <=> Expires)
    BY <1>1 DEF Expires
  <2>3. \A m \in DOMAIN exchanges : exchanges[m].state \in {"under way", "issued"} =>
          exchanges'[m].state \in {"under way", "issued"}
    BY <1>2
  <2>. QED BY <1>0, <2>1, <2>2, <2>3 DEF PromiseSettles, UnderWay
<1>7. \A m \in DOMAIN exchanges : exchanges[m].state = "done" => exchanges'[m] = exchanges[m]
  BY <1>2, <1>5
<1>8. KeptIsGood'
  <2>1. cached # 0 => cached \in DOMAIN exchanges
    BY TokensAre
  <2>. QED BY <1>0, <1>1, <1>7, <2>1 DEF KeptIsGood, Expires
<1>9. AskersInTime'
  <2>1. \A m \in DOMAIN exchanges : UnderWay(m) => UnderWay(m)'
    BY <1>2 DEF UnderWay
  <2>. QED BY <1>0, <1>1, <1>2, <1>7, <2>1 DEF AskersInTime, UnderWay, Expires
<1>. QED BY <1>3, <1>4, <1>6, <1>8, <1>9 DEF TokenInv

(* The outcome goes to everyone who waits, and a token is kept.            *)
LEMMA SettleKeeps ==
  ASSUME TokenInv, NEW n \in DOMAIN exchanges, ExchangeSucceeds(n) \/ ExchangeFails(n)
  PROVE  TokenInv'
<1>0. /\ TokenPieces /\ ExchangesInTime /\ PromiseSettles /\ KeptIsGood /\ AskersInTime
      /\ sessionNow \in Nat /\ usableUntil \in Int /\ n \in Nat /\ n # 0
      /\ Lifetime \in Nat /\ Margin \in Nat /\ Latency \in Nat /\ Latency <= Margin
      /\ Margin < Lifetime /\ asker \in [Askers -> AskerRecords]
      /\ exchanges \in Seq(ExchangeRecords) /\ exchanges[n] \in ExchangeRecords
      /\ UnderWay(n) /\ promise = n
  <2>1. UnderWay(n)
    BY DEF ExchangeSucceeds, ExchangeFails, UnderWay
  <2>2. promise = n
    BY <2>1, TokensAre DEF ExchangesInTime
  <2>. QED BY <2>1, <2>2, TokensAre
<1>. DEFINE st == IF ExchangeSucceeds(n) THEN "done" ELSE "failed"
<1>1. UNCHANGED <<cacheKind, sessionNow>>
  BY DEF ExchangeSucceeds, ExchangeFails
<1>2. /\ exchanges' \in Seq(ExchangeRecords) /\ DOMAIN exchanges' = DOMAIN exchanges
      /\ \A m \in DOMAIN exchanges : m # n => exchanges'[m] = exchanges[m]
      /\ exchanges'[n].state = st /\ exchanges'[n].issued = exchanges[n].issued
      /\ exchanges'[n].began = exchanges[n].began
  <2>1. exchanges' = [exchanges EXCEPT ![n].state = st]
    BY DEF ExchangeSucceeds, ExchangeFails
  <2>2. st \in ExchangeStates
    BY DEF ExchangeStates
  <2>. HIDE DEF st
  <2>3. [exchanges[n] EXCEPT !.state = st] =
          [exchanges[n] EXCEPT !.state = st, !.issued = exchanges[n].issued]
    BY <1>0 DEF ExchangeRecords
  <2>4. exchanges' = [exchanges EXCEPT ![n] = [exchanges[n] EXCEPT !.state = st, !.issued = exchanges[n].issued]]
    BY <2>1, <2>3
  <2>5. exchanges[n].issued \in Nat
    BY <1>0 DEF ExchangeRecords
  <2>. QED BY <2>2, <2>4, <2>5, ExchangeTo
<1>3. \A m \in DOMAIN exchanges : m # n => ~UnderWay(m) /\ ~UnderWay(m)'
  BY <1>0, <1>2 DEF ExchangesInTime, UnderWay
<1>4. ~UnderWay(n)'
  BY <1>2 DEF UnderWay
<1>5. ExchangesInTime'
  BY <1>0, <1>1, <1>2, <1>3, <1>4 DEF ExchangesInTime, UnderWay
<1>6. PromiseSettles'
  BY <1>0, <1>1 DEF PromiseSettles, ExchangeSucceeds, ExchangeFails, Forgotten, Expires
<1>7. exchanges[n].issued \in Nat /\ exchanges[n].began \in Nat
      /\ exchanges[n].began <= exchanges[n].issued /\ sessionNow <= exchanges[n].began + Latency
  BY <1>0 DEF ExchangesInTime, ExchangeRecords
<1>8. KeptIsGood'
  <2>1. CASE ExchangeSucceeds(n)
    <3>1. cached' = n /\ usableUntil' = IF Expires THEN sessionNow + Lifetime - Margin ELSE 0
      BY <2>1 DEF ExchangeSucceeds
    <3>. QED BY <1>0, <1>1, <1>2, <1>7, <2>1, <3>1 DEF KeptIsGood, Expires
  <2>2. CASE ~ExchangeSucceeds(n)
    <3>1. UNCHANGED <<cached, usableUntil>>
      BY <2>2 DEF ExchangeFails
    <3>2. cached # n
      BY <1>0 DEF KeptIsGood, UnderWay
    <3>. QED BY <1>0, <1>1, <1>2, <3>1, <3>2 DEF KeptIsGood, Expires, TokenPieces
  <2>. QED BY <2>1, <2>2
<1>9. /\ asker' \in [Askers -> AskerRecords]
      /\ \A b \in Askers :
           \/ /\ asker[b].at = "waits" /\ asker[b].of = n
              /\ asker'[b].at = (IF ExchangeSucceeds(n) THEN "has" ELSE "failed")
              /\ asker'[b].of = n /\ asker'[b].since = asker[b].since
           \/ ~(asker[b].at = "waits" /\ asker[b].of = n) /\ asker'[b] = asker[b]
  <2>. DEFINE place == IF ExchangeSucceeds(n) THEN "has" ELSE "failed"
  <2>1. Settled(n, place) /\ place \in {"idle", "waits", "has", "failed"}
    BY DEF ExchangeSucceeds, ExchangeFails
  <2>2. place = IF ExchangeSucceeds(n) THEN "has" ELSE "failed"
    OBVIOUS
  <2>. HIDE DEF place
  <2>3. \A b \in Askers : LET r == [asker[b] EXCEPT !.at = place]
                         IN  r \in AskerRecords /\ r.at = place /\ r.of = asker[b].of
                             /\ r.since = asker[b].since
    BY <1>0, <2>1 DEF AskerRecords
  <2>4. asker' = [b \in Askers |-> IF asker[b].at = "waits" /\ asker[b].of = n
                                   THEN [asker[b] EXCEPT !.at = place] ELSE asker[b]]
    BY <2>1 DEF Settled
  <2>. QED BY <1>0, <2>2, <2>3, <2>4
<1>10. TokenPieces'
  <2>1. cached' \in {cached, n} /\ promise' \in {0, promise}
        /\ usableUntil' \in {usableUntil, 0, sessionNow + Lifetime - Margin}
    BY DEF ExchangeSucceeds, ExchangeFails, Forgotten
  <2>2. usableUntil' \in Int
    BY <1>0, <2>1
  <2>3. cached' \in {0} \cup DOMAIN exchanges /\ promise' \in {0} \cup DOMAIN exchanges
    BY <2>1, TokensAre
  <2>. QED BY <1>0, <1>1, <1>2, <1>9, <2>2, <2>3 DEF TokenPieces
<1>11. AskersInTime'
  <2>1. ASSUME NEW b \in Askers
        PROVE  /\ asker'[b].at = "waits" => FALSE
               /\ asker'[b].at = "has" =>
                    /\ asker'[b].of \in DOMAIN exchanges /\ exchanges'[asker'[b].of].state = "done"
                    /\ Expires => asker'[b].since < exchanges'[asker'[b].of].issued + Lifetime
    <3>1. asker[b].since \in Nat
      BY TokensAre
    <3>2. CASE asker[b].at = "waits" /\ asker[b].of = n
      <4>1. asker[b].since <= sessionNow
        BY <1>0, <3>2 DEF AskersInTime
      <4>2. asker[b].since < exchanges[n].issued + Lifetime
        BY <1>0, <1>7, <3>1, <4>1
      <4>3. /\ asker'[b].at = (IF ExchangeSucceeds(n) THEN "has" ELSE "failed")
            /\ asker'[b].of = n /\ asker'[b].since = asker[b].since
        BY <1>9, <3>2
      <4>. QED BY <1>2, <4>2, <4>3
    <3>3. CASE ~(asker[b].at = "waits" /\ asker[b].of = n)
      <4>1. asker'[b] = asker[b] /\ asker[b].at # "waits"
        BY <1>0, <1>3, <1>9, <3>3 DEF AskersInTime
      <4>2. asker[b].at = "has" => asker[b].of # n
        BY <1>0 DEF AskersInTime, UnderWay
      <4>. QED BY <1>0, <1>2, <4>1, <4>2 DEF AskersInTime
    <3>. QED BY <3>2, <3>3
  <2>. QED BY <1>1, <1>2, <2>1 DEF AskersInTime, Expires
<1>. QED BY <1>5, <1>6, <1>8, <1>10, <1>11 DEF TokenInv

(* No exchange under way outlasts its limit, so time keeps the tokens good.*)
LEMMA TickKeepsTokens ==
  ASSUME TokenInv, PsnTick
  PROVE  TokenInv'
<1>0. /\ TokenPieces /\ ExchangesInTime /\ PromiseSettles /\ KeptIsGood /\ AskersInTime
      /\ sessionNow \in Nat /\ Latency \in Nat
      /\ \A n \in DOMAIN exchanges : exchanges[n].began \in Nat /\ exchanges[n].issued \in Nat
      /\ \A a \in Askers : asker[a].since \in Nat
  BY TokensAre
<1>1. /\ sessionNow' = sessionNow + 1 /\ cacheKind' = cacheKind /\ cached' = cached
      /\ usableUntil' = usableUntil /\ promise' = promise /\ exchanges' = exchanges
      /\ asker' = asker
  BY DEF PsnTick
<1>2. ExchangesInTime'
  <2>1. ASSUME NEW n \in DOMAIN exchanges
        PROVE  /\ exchanges[n].began <= exchanges[n].issued /\ exchanges[n].issued <= sessionNow + 1
               /\ UnderWay(n) => promise = n /\ sessionNow + 1 <= exchanges[n].began + Latency
    <3>1. UnderWay(n) => sessionNow < exchanges[n].began + Latency
      BY DEF PsnTick, UnderWay
    <3>. QED BY <1>0, <3>1 DEF ExchangesInTime
  <2>. QED BY <1>1, <2>1 DEF ExchangesInTime, UnderWay
<1>3. PromiseSettles' /\ KeptIsGood'
  BY <1>0, <1>1 DEF PromiseSettles, KeptIsGood, UnderWay, Expires
<1>4. TokenPieces'
  BY <1>0, <1>1 DEF TokenPieces
<1>5. AskersInTime'
  <2>1. \A a \in Askers : asker[a].at = "waits" => asker[a].since <= sessionNow + 1
    BY <1>0 DEF AskersInTime
  <2>. QED BY <1>0, <1>1, <2>1 DEF AskersInTime, UnderWay, Expires
<1>. QED BY <1>2, <1>3, <1>4, <1>5 DEF TokenInv

(* Every step of a request, of an exchange and of time keeps the tokens.   *)
LEMMA TokenSteps == TokenInv /\ [PsnNext]_sessionVars => TokenInv'
<1>. SUFFICES ASSUME TokenInv, [PsnNext]_sessionVars PROVE TokenInv'
  OBVIOUS
<1>1. CASE UNCHANGED sessionVars
  BY <1>1 DEF sessionVars, TokenInv, TokenPieces, ExchangesInTime, PromiseSettles, KeptIsGood,
              AskersInTime, UnderWay, Expires
<1>. QED BY <1>1, AskersKeep, BeginKeepsTokens, IssueKeeps, SettleKeeps, TickKeepsTokens DEF PsnNext

(* The client keeps to the number of exchanges.                            *)
LEMMA ExchangesCounted ==
  TokenInv /\ Len(exchanges) <= MaxExchanges /\ [PsnNext]_sessionVars => Len(exchanges') <= MaxExchanges
<1>. SUFFICES ASSUME TokenInv, Len(exchanges) <= MaxExchanges, [PsnNext]_sessionVars
              PROVE  Len(exchanges') <= MaxExchanges
  OBVIOUS
<1>1. Len(exchanges) \in Nat /\ exchanges \in Seq(ExchangeRecords) /\ MaxExchanges \in Nat
  BY TokensAre, SessionAssumption DEF SessionAssumption
<1>2. ASSUME NEW a \in Askers, BeginsExchange(a) PROVE Len(exchanges') <= MaxExchanges
  <2>1. Len(exchanges) < MaxExchanges
    BY <1>2 DEF BeginsExchange
  <2>2. PICK r : exchanges' = Append(exchanges, r)
    BY <1>2 DEF BeginsExchange
  <2>3. Len(exchanges') = Len(exchanges) + 1
    BY <1>1, <2>2
  <2>. QED BY <1>1, <2>1, <2>3
<1>3. ASSUME NEW n \in DOMAIN exchanges, Issues(n) \/ ExchangeSucceeds(n) \/ ExchangeFails(n)
      PROVE  Len(exchanges') = Len(exchanges)
  <2>1. DOMAIN exchanges' = DOMAIN exchanges
    BY <1>3 DEF Issues, ExchangeSucceeds, ExchangeFails
  <2>2. Len(exchanges') \in Nat /\ DOMAIN exchanges' = 1..Len(exchanges')
    BY TokenSteps DEF TokenInv, TokenPieces
  <2>3. DOMAIN exchanges = 1..Len(exchanges)
    BY <1>1
  <2>. DEFINE m == Len(exchanges)
              l == Len(exchanges')
  <2>4. m \in Nat /\ l \in Nat /\ 1..m = 1..l
    BY <1>1, <2>1, <2>2, <2>3
  <2>. HIDE DEF m, l
  <2>5. m = l
    BY <2>4
  <2>. QED BY <2>5 DEF m, l
<1>4. ASSUME NEW a \in Askers, UsesKept(a) \/ WaitsForShared(a) \/ ReplaysFailure(a) \/ AsksAgain(a)
      PROVE  exchanges' = exchanges
  BY <1>4 DEF UsesKept, WaitsForShared, ReplaysFailure, AsksAgain
<1>5. PsnTick \/ UNCHANGED sessionVars => exchanges' = exchanges
  BY DEF PsnTick, sessionVars
<1>. QED BY <1>2, <1>3, <1>4, <1>5 DEF PsnNext

(* So the tokens are good in every state.                                  *)
LEMMA TokensAlways == PsnSpec => []TokenInv
BY TokenStarts, TokenSteps, PTL DEF PsnSpec

(* One exchange for all who come meanwhile, and only good tokens go out.    *)
THEOREM SessionSharedHolds == PsnSpec => []SessionShared
<1>1. TokenInv => SessionShared
  <2>. SUFFICES ASSUME TokenInv PROVE SessionShared
    OBVIOUS
  <2>1. OneExchange
    <3>. DEFINE busy == {n \in DOMAIN exchanges : exchanges[n].state \in {"under way", "issued"}}
    <3>1. busy \subseteq {promise}
      BY DEF TokenInv, ExchangesInTime, UnderWay
    <3>2. IsFiniteSet({promise}) /\ Cardinality({promise}) = 1
      BY FS_Singleton
    <3>. HIDE DEF busy
    <3>3. Cardinality(busy) <= 1
      BY <3>1, <3>2, FS_Subset
    <3>. QED BY <3>3 DEF OneExchange, busy
  <2>2. FreshToken /\ FreshFailure
    BY DEF TokenInv, AskersInTime, FreshToken, FreshFailure, UnderWay
  <2>. QED BY <2>1, <2>2 DEF SessionShared
<1>. QED BY <1>1, TokensAlways, PTL

-----------------------------------------------------------------------------
(* How the outcome of a request is proved (ProviderOperations).           *)

(* A word of failure, or an envelope that refuses, means failure.          *)
LEMMA WordFails ==
  ASSUME NEW p, NEW a, a.inner = "missing", a.word \in AskFails \/ ~a.ok
  PROVE  Meaning(p, a) = "failure"
<1>1. CASE ~a.ok
  BY <1>1, Zenon DEF Meaning
<1>2. CASE a.word \in AskFails
  <2>1. {a.word} \cap AskFails # {}
    BY <1>2
  <2>. QED BY <2>1, Zenon DEF Meaning
<1>. QED BY <1>1, <1>2

(* The operation status of each client.                                    *)
LEMMA StatusIs ==
  ASSUME NEW a
  PROVE  /\ StatusOf("kinsta", a) = Kinsta(a)
         /\ StatusOf("rocketnet", a) = RocketNet(a)
         /\ StatusOf("cloudways", a) = Cloudways(a)
         /\ StatusOf("pantheon", a) = Pantheon(a)
         /\ StatusOf("xcloud", a) = XCloud(a)
         /\ StatusOf("instawp", a) = InstaWp(a)
         /\ StatusOf("instawp_version", a) = InstaWpVersion(a)
         /\ StatusOf("sandywp", a) = SandyWp(a)
         /\ StatusOf("pressable", a) = Synthetic /\ StatusOf("wpengine", a) = Synthetic
         /\ StatusOf("completed_action", a) = CompletedAction
<1>1. StatusOf("kinsta", a) = Kinsta(a)
  BY Zenon DEF StatusOf
<1>2. StatusOf("rocketnet", a) = RocketNet(a)
  BY Zenon DEF StatusOf
<1>3. StatusOf("cloudways", a) = Cloudways(a)
  BY Zenon DEF StatusOf
<1>4. StatusOf("pantheon", a) = Pantheon(a)
  BY Zenon DEF StatusOf
<1>5. StatusOf("xcloud", a) = XCloud(a)
  BY Zenon DEF StatusOf
<1>6. StatusOf("instawp", a) = InstaWp(a)
  BY Zenon DEF StatusOf
<1>7. StatusOf("instawp_version", a) = InstaWpVersion(a)
  BY Zenon DEF StatusOf
<1>8. StatusOf("sandywp", a) = SandyWp(a)
  BY Zenon DEF StatusOf
<1>9. StatusOf("pressable", a) = Synthetic
  BY Zenon DEF StatusOf
<1>10. StatusOf("wpengine", a) = Synthetic
  BY Zenon DEF StatusOf
<1>11. StatusOf("completed_action", a) = CompletedAction
  BY Zenon DEF StatusOf
<1>. QED BY <1>1, <1>2, <1>3, <1>4, <1>5, <1>6, <1>7, <1>8, <1>9, <1>10, <1>11

(* The words of each client.                                               *)
LEMMA WordsAre ==
  /\ WordsOf("rocketnet") = {"missing", "other"} \cup {"done", "error"}
  /\ WordsOf("cloudways") = {"missing", "other"} \cup {"completed", "done", "success", "failed", "error"}
  /\ WordsOf("pantheon") = {"missing", "other"} \cup {"running", "succeeded", "failed"}
  /\ WordsOf("xcloud") = {"missing", "other"} \cup {"finished", "failed", "timeout", "killed"}
  /\ WordsOf("sandywp") = {"missing", "other"} \cup {"creating", "failed", "cleanup_failed"}
  /\ WordsOf("instawp") = {"missing", "other"} \cup {"progress", "pending", "queued", "failed", "error"}
  /\ WordsOf("instawp_version") = {"missing", "other"} \cup {"completed", "failed", "error"}
<1>1. WordsOf("rocketnet") = {"missing", "other"} \cup {"done", "error"}
  BY Zenon DEF WordsOf
<1>2. WordsOf("cloudways") = {"missing", "other"} \cup {"completed", "done", "success", "failed", "error"}
  BY Zenon DEF WordsOf
<1>3. WordsOf("pantheon") = {"missing", "other"} \cup {"running", "succeeded", "failed"}
  BY Zenon DEF WordsOf
<1>4. WordsOf("xcloud") = {"missing", "other"} \cup {"finished", "failed", "timeout", "killed"}
  BY Zenon DEF WordsOf
<1>5. WordsOf("sandywp") = {"missing", "other"} \cup {"creating", "failed", "cleanup_failed"}
  BY Zenon DEF WordsOf
<1>6. WordsOf("instawp") = {"missing", "other"} \cup {"progress", "pending", "queued", "failed", "error"}
  BY Zenon DEF WordsOf
<1>7. WordsOf("instawp_version") = {"missing", "other"} \cup {"completed", "failed", "error"}
  BY Zenon DEF WordsOf
<1>. QED BY <1>1, <1>2, <1>3, <1>4, <1>5, <1>6, <1>7

(* The fields of an answer that a client does not read say nothing.        *)
Fields(p, a) ==
         /\ IF p = "kinsta" THEN a.http \in {200, 202, 500} /\ a.code \in {0, 200, 500}
                            ELSE a.http = 200 /\ a.code = 0
         /\ a.word # "missing" => a.word \in WordsOf(p)
         /\ a.inner # "missing" => a.inner \in WordsOf(p)
         /\ p \in {"kinsta", "pressable", "wpengine", "hostinger", "completed_action"} => a.word = "missing"
         /\ p \notin {"rocketnet", "cloudways"} => a.inner = "missing"
         /\ IF p \in {"cloudways", "completed_action"} THEN a.completed \in BOOLEAN
                                                       ELSE a.completed = FALSE
         /\ IF p = "cloudways" THEN a.broken \in BOOLEAN ELSE a.broken = FALSE
         /\ IF p \in {"instawp", "instawp_version"} THEN a.ok \in BOOLEAN ELSE a.ok = TRUE
\* The fields an answer of a client can have.
LEMMA AnswerFields == ASSUME NEW p, NEW a \in AnswersOf(p) PROVE Fields(p, a)
<1>1. /\ a.http \in IF p \in {"kinsta"} THEN {200, 202, 500} ELSE {200}
      /\ a.code \in IF p \in {"kinsta"} THEN {0, 200, 500} ELSE {0}
  BY DEF AnswersOf
<1>2. /\ a.word \in IF p \in {"rocketnet", "cloudways", "pantheon", "xcloud", "sandywp",
                            "instawp", "instawp_version"} THEN WordsOf(p) ELSE {"missing"}
      /\ a.inner \in IF p \in {"rocketnet", "cloudways"} THEN WordsOf(p) ELSE {"missing"}
  BY DEF AnswersOf
<1>3. /\ a.completed \in IF p \in {"cloudways", "completed_action"} THEN BOOLEAN ELSE {FALSE}
      /\ a.broken \in IF p \in {"cloudways"} THEN BOOLEAN ELSE {FALSE}
      /\ a.ok \in IF p \in {"instawp", "instawp_version"} THEN BOOLEAN ELSE {TRUE}
  BY DEF AnswersOf
<1>4. /\ a.word # "missing" => a.word \in WordsOf(p)
      /\ a.inner # "missing" => a.inner \in WordsOf(p)
      /\ p \in {"kinsta", "pressable", "wpengine", "hostinger", "completed_action"}
           => a.word = "missing"
      /\ p \notin {"rocketnet", "cloudways"} => a.inner = "missing"
  BY <1>2
<1>5. IF p = "kinsta" THEN a.http \in {200, 202, 500} /\ a.code \in {0, 200, 500}
                      ELSE a.http = 200 /\ a.code = 0
  BY <1>1
<1>6. /\ IF p \in {"cloudways", "completed_action"} THEN a.completed \in BOOLEAN
                                                  ELSE a.completed = FALSE
      /\ IF p = "cloudways" THEN a.broken \in BOOLEAN ELSE a.broken = FALSE
      /\ IF p \in {"instawp", "instawp_version"} THEN a.ok \in BOOLEAN ELSE a.ok = TRUE
  BY <1>3
<1>. QED
  BY <1>4, <1>5, <1>6 DEF Fields

(* What a status may claim about an answer.                                *)
Believes(p, a) ==
  LET s == StatusOf(p, a) IN
  ~Refuses(p, a) =>
    /\ s.failed => Meaning(p, a) = "failure"
    /\ Verified(s) => \/ Meaning(p, a) = "success"
                       \/ (p \in {"instawp", "sandywp"} /\ Meaning(p, a) # "failure")

(* No client takes an answer for an end that its words do not tell, but    *)
(* the two that take any unknown state for one.                            *)
LEMMA ClientsBelieve == \A p \in Watched : \A a \in AnswersOf(p) : Believes(p, a)
<1>. SUFFICES ASSUME NEW p \in Watched, NEW a \in AnswersOf(p) PROVE Believes(p, a)
  OBVIOUS
<1>0. Fields(p, a)
  BY AnswerFields
<1>1. CASE p = "kinsta"
  <2>1. StatusOf(p, a) = Kinsta(a)
    BY <1>1, StatusIs
  <2>2. /\ a.http \in {200, 202, 500} /\ a.code \in {0, 200, 500}
        /\ a.word = "missing" /\ a.inner = "missing"
        /\ a.completed = FALSE /\ a.broken = FALSE /\ a.ok = TRUE
    BY <1>0, <1>1 DEF Fields
  <2>3. Kinsta(a).failed <=> a.http = 500 \/ (IF a.code = 0 THEN a.http ELSE a.code) >= 500
    BY Zenon DEF Kinsta, Status
  <2>4. Kinsta(a).done <=> a.http = 200 /\ a.code = 200
    BY Zenon DEF Kinsta, Status
  <2>5. a.http = 500 \/ a.code = 500 => Meaning(p, a) = "failure"
    BY <2>2 DEF Meaning
  <2>6. a.http = 200 /\ a.code = 200 => Meaning(p, a) = "success"
    BY <2>2 DEF Meaning, AskFails
  <2>7. Kinsta(a).failed => a.http = 500 \/ a.code = 500
    BY <2>2, <2>3
  <2>. QED
    BY <2>1, <2>4, <2>5, <2>6, <2>7 DEF Believes, Verified
<1>2. CASE p = "rocketnet"
  <2>1. StatusOf(p, a) = RocketNet(a)
    BY <1>2, StatusIs
  <2>2. /\ a.http = 200 /\ a.code = 0 /\ (a.word # "missing" => a.word \in WordsOf(p))
        /\ (a.inner # "missing" => a.inner \in WordsOf(p))
        /\ a.completed = FALSE /\ a.broken = FALSE
        /\ a.ok = TRUE
    BY <1>0, <1>2 DEF Fields
  <2>3. WordsOf(p) = {"missing", "other"} \cup {"done", "error"}
    BY <1>2, WordsAre
  <2>4. RocketNet(a).failed <=> (IF a.inner = "missing" THEN a.word ELSE a.inner) = "error"
    BY Zenon DEF RocketNet, Status
  <2>5. RocketNet(a).done <=> (IF a.inner = "missing" THEN a.word ELSE a.inner) \in {"done", "error"}
    BY Zenon DEF RocketNet, Status
  <2>6. RocketNet(a).failed => Meaning(p, a) = "failure"
    BY <2>2, <2>3, <2>4 DEF Meaning, AskFails
  <2>7. RocketNet(a).done /\ ~RocketNet(a).failed => Meaning(p, a) = "success"
    BY <2>2, <2>3, <2>4, <2>5 DEF Meaning, AskFails, Succeeds
  <2>. QED
    BY <1>2, <2>1, <2>6, <2>7 DEF Believes, Verified
<1>3. CASE p = "cloudways"
  <2>1. StatusOf(p, a) = Cloudways(a)
    BY <1>3, StatusIs
  <2>2. /\ a.http = 200 /\ a.code = 0 /\ (a.word # "missing" => a.word \in WordsOf(p))
        /\ (a.inner # "missing" => a.inner \in WordsOf(p))
        /\ a.completed \in BOOLEAN /\ a.broken \in BOOLEAN
        /\ a.ok = TRUE
    BY <1>0, <1>3 DEF Fields
  <2>3. WordsOf(p) = {"missing", "other"} \cup {"completed", "done", "success", "failed", "error"}
    BY <1>3, WordsAre
  <2>4. Cloudways(a).failed <=> a.broken \/ (IF a.inner = "missing" THEN a.word ELSE a.inner) \in {"failed", "error"}
    BY Zenon DEF Cloudways, Status
  <2>5. Cloudways(a).done <=> a.completed \/ (IF a.inner = "missing" THEN a.word ELSE a.inner)
                        \in {"completed", "done", "success", "failed", "error"}
    BY Zenon DEF Cloudways, Status
  <2>6. Cloudways(a).failed => Meaning(p, a) = "failure"
    BY <2>2, <2>3, <2>4 DEF Meaning, AskFails
  <2>7. Cloudways(a).done /\ ~Cloudways(a).failed => Meaning(p, a) = "success"
    BY <2>2, <2>3, <2>4, <2>5 DEF Meaning, AskFails, Succeeds
  <2>. QED
    BY <1>3, <2>1, <2>6, <2>7 DEF Believes, Verified
<1>4. CASE p = "pantheon"
  <2>1. StatusOf(p, a) = Pantheon(a)
    BY <1>4, StatusIs
  <2>2. /\ a.http = 200 /\ a.code = 0 /\ (a.word # "missing" => a.word \in WordsOf(p))
        /\ a.inner = "missing"
        /\ a.completed = FALSE /\ a.broken = FALSE
        /\ a.ok = TRUE
    BY <1>0, <1>4 DEF Fields
  <2>3. WordsOf(p) = {"missing", "other"} \cup {"running", "succeeded", "failed"}
    BY <1>4, WordsAre
  <2>4. Pantheon(a).failed <=> a.word = "failed"
    BY Zenon DEF Pantheon, Status
  <2>5. Pantheon(a).done <=> a.word \in {"succeeded", "failed"}
    BY Zenon DEF Pantheon, Status
  <2>6. Pantheon(a).failed => Meaning(p, a) = "failure"
    BY <2>2, <2>3, <2>4 DEF Meaning, AskFails
  <2>7. Pantheon(a).done /\ ~Pantheon(a).failed => Meaning(p, a) = "success"
    <3>1. Pantheon(a).done /\ ~Pantheon(a).failed => a.word = "succeeded"
      BY <2>4, <2>5
    <3>2. a.word = "succeeded" => Meaning(p, a) = "success"
      BY <2>2 DEF Meaning, AskFails, Succeeds
    <3>. QED BY <3>1, <3>2
  <2>. QED
    BY <1>4, <2>1, <2>6, <2>7 DEF Believes, Verified
<1>5. CASE p = "xcloud"
  <2>1. StatusOf(p, a) = XCloud(a)
    BY <1>5, StatusIs
  <2>2. /\ a.http = 200 /\ a.code = 0 /\ (a.word # "missing" => a.word \in WordsOf(p))
        /\ a.inner = "missing"
        /\ a.completed = FALSE /\ a.broken = FALSE
        /\ a.ok = TRUE
    BY <1>0, <1>5 DEF Fields
  <2>3. WordsOf(p) = {"missing", "other"} \cup {"finished", "failed", "timeout", "killed"}
    BY <1>5, WordsAre
  <2>4. XCloud(a).failed <=> a.word \in {"failed", "timeout", "killed"}
    BY <2>2 DEF XCloud, Status
  <2>5. XCloud(a).done <=> a.word \in {"finished", "failed", "timeout", "killed"}
    BY Zenon DEF XCloud, Status
  <2>6. XCloud(a).failed => Meaning(p, a) = "failure"
    <3>1. a.word \in {"failed", "timeout", "killed"} => Meaning(p, a) = "failure"
      BY <2>2, WordFails DEF AskFails
    <3>. QED BY <2>4, <3>1, Zenon
  <2>7. XCloud(a).done /\ ~XCloud(a).failed => Meaning(p, a) = "success"
    <3>1. XCloud(a).done /\ ~XCloud(a).failed => a.word = "finished"
      BY <2>4, <2>5
    <3>2. a.word = "finished" => Meaning(p, a) = "success"
      BY <2>2 DEF Meaning, AskFails, Succeeds
    <3>. QED BY <3>1, <3>2
  <2>. QED
    BY <1>5, <2>1, <2>6, <2>7 DEF Believes, Verified
<1>6. CASE p = "instawp"
  <2>1. StatusOf(p, a) = InstaWp(a)
    BY <1>6, StatusIs
  <2>2. /\ a.http = 200 /\ a.code = 0 /\ (a.word # "missing" => a.word \in WordsOf(p))
        /\ a.inner = "missing"
        /\ a.completed = FALSE /\ a.broken = FALSE
        /\ a.ok \in BOOLEAN
    BY <1>0, <1>6 DEF Fields
  <2>3. WordsOf(p) = {"missing", "other"} \cup {"progress", "pending", "queued", "failed", "error"}
    BY <1>6, WordsAre
  <2>4. InstaWp(a).failed <=> ~a.ok \/ a.word \in {"failed", "cleanup_failed", "error"}
    BY Zenon DEF InstaWp, Status
  <2>5. InstaWp(a).done <=> a.word \notin {"missing", "progress", "pending", "queued"}
    BY Zenon DEF InstaWp, Status
  <2>6. InstaWp(a).failed => Meaning(p, a) = "failure"
    <3>1. ~a.ok \/ a.word \in {"failed", "cleanup_failed", "error"} => Meaning(p, a) = "failure"
      BY <2>2, WordFails DEF AskFails
    <3>. QED BY <2>4, <3>1, Zenon
  <2>7. InstaWp(a).done /\ ~InstaWp(a).failed => Meaning(p, a) # "failure"
    BY <2>2, <2>3, <2>4, <2>5 DEF Meaning, AskFails, Succeeds
  <2>. QED
    BY <1>6, <2>1, <2>6, <2>7 DEF Believes, Verified
<1>7. CASE p = "instawp_version"
  <2>1. StatusOf(p, a) = InstaWpVersion(a)
    BY <1>7, StatusIs
  <2>2. /\ a.http = 200 /\ a.code = 0 /\ (a.word # "missing" => a.word \in WordsOf(p))
        /\ a.inner = "missing"
        /\ a.completed = FALSE /\ a.broken = FALSE
        /\ a.ok \in BOOLEAN
    BY <1>0, <1>7 DEF Fields
  <2>3. WordsOf(p) = {"missing", "other"} \cup {"completed", "failed", "error"}
    BY <1>7, WordsAre
  <2>4. InstaWpVersion(a).failed <=> a.word \in {"error", "failed"}
    BY Zenon DEF InstaWpVersion, Status
  <2>5. InstaWpVersion(a).done <=> a.word \in {"completed", "error", "failed"}
    BY <2>2 DEF InstaWpVersion, Status
  <2>6. InstaWpVersion(a).failed => Meaning(p, a) = "failure"
    <3>1. a.word \in {"error", "failed"} => Meaning(p, a) = "failure"
      BY <2>2, WordFails DEF AskFails
    <3>. QED BY <2>4, <3>1, Zenon
  <2>7. InstaWpVersion(a).done /\ ~InstaWpVersion(a).failed /\ a.ok => Meaning(p, a) = "success"
    <3>1. InstaWpVersion(a).done /\ ~InstaWpVersion(a).failed => a.word = "completed"
      BY <2>4, <2>5
    <3>2. a.word = "completed" /\ a.ok => Meaning(p, a) = "success"
      BY <2>2 DEF Meaning, AskFails, Succeeds
    <3>. QED BY <3>1, <3>2
  <2>. QED
    BY <1>7, <2>1, <2>6, <2>7 DEF Believes, Verified, Refuses
<1>8. CASE p = "sandywp"
  <2>1. StatusOf(p, a) = SandyWp(a)
    BY <1>8, StatusIs
  <2>2. /\ a.http = 200 /\ a.code = 0 /\ (a.word # "missing" => a.word \in WordsOf(p))
        /\ a.inner = "missing"
        /\ a.completed = FALSE /\ a.broken = FALSE
        /\ a.ok = TRUE
    BY <1>0, <1>8 DEF Fields
  <2>3. WordsOf(p) = {"missing", "other"} \cup {"creating", "failed", "cleanup_failed"}
    BY <1>8, WordsAre
  <2>4. SandyWp(a).failed <=> a.word \in {"failed", "cleanup_failed"}
    BY Zenon DEF SandyWp, Status
  <2>5. SandyWp(a).done <=> a.word \notin {"missing", "creating"}
    BY Zenon DEF SandyWp, Status
  <2>6. SandyWp(a).failed => Meaning(p, a) = "failure"
    <3>1. a.word \in {"failed", "cleanup_failed"} => Meaning(p, a) = "failure"
      BY <2>2, WordFails DEF AskFails
    <3>. QED BY <2>4, <3>1, Zenon
  <2>7. SandyWp(a).done /\ ~SandyWp(a).failed => Meaning(p, a) # "failure"
    BY <2>2, <2>3, <2>4, <2>5 DEF Meaning, AskFails, Succeeds
  <2>. QED
    BY <1>8, <2>1, <2>6, <2>7 DEF Believes, Verified
<1>9. CASE p \in {"pressable", "wpengine"}
  <2>1. StatusOf(p, a) = Synthetic
    BY <1>9, StatusIs
  <2>2. ~Synthetic.failed /\ ~Synthetic.raw
    BY DEF Synthetic, Status
  <2>. QED
    BY <2>1, <2>2, Zenon DEF Believes, Verified
<1>10. CASE p = "completed_action"
  <2>1. StatusOf(p, a) = CompletedAction
    BY <1>10, StatusIs
  <2>2. ~CompletedAction.failed
    BY DEF CompletedAction, Status
  <2>3. /\ a.http = 200 /\ a.code = 0 /\ a.word = "missing" /\ a.inner = "missing"
        /\ a.broken = FALSE /\ a.ok = TRUE
    BY <1>0, <1>10 DEF Fields
  <2>4. a.completed => Meaning(p, a) = "success"
    BY <2>3 DEF Meaning, AskFails
  <2>. QED
    BY <1>10, <2>1, <2>2, <2>4 DEF Believes, Refuses
<1>11. CASE p = "hostinger"
  BY <1>11 DEF Believes, Refuses
<1>. QED
  BY OperationsAssumption, <1>1, <1>2, <1>3, <1>4, <1>5, <1>6, <1>7, <1>8, <1>9, <1>10, <1>11

(* The times of a wait: at most one request past the budget.               *)
LEMMA WaitTimes ==
  ASSUME OpInv, NEW t \in 0..Slow
  PROVE  /\ spent \in Nat /\ Budget \in Nat /\ spent <= Budget + Slow
         /\ wake \in 0..Budget /\ wake \in 0..(Budget + Slow)
         /\ spent + t >= Budget \/ spent + t < Budget
         /\ spent < Budget => spent + t \in 0..(Budget + Slow)
         /\ spent + t < Budget =>
              spent + t + OpMin(PollEvery, Budget - (spent + t)) \in 0..Budget
<1>1. PollEvery \in Nat \ {0} /\ Budget \in Nat /\ Slow \in Nat
  BY OperationsAssumption
<1>2. spent \in 0..(Budget + Slow) /\ wake \in 0..Budget
  BY DEF OpInv, OperationsTypeOK
<1>3. /\ spent \in Nat /\ Budget \in Nat /\ spent <= Budget + Slow
      /\ wake \in 0..Budget /\ wake \in 0..(Budget + Slow)
  BY <1>1, <1>2
<1>4. t \in Nat /\ t <= Slow
  BY <1>1
<1>5. spent < Budget => spent + t \in 0..(Budget + Slow)
  BY <1>1, <1>3, <1>4
<1>6. ASSUME spent + t < Budget
      PROVE  spent + t + OpMin(PollEvery, Budget - (spent + t)) \in 0..Budget
  BY <1>1, <1>3, <1>4, <1>6 DEF OpMin
<1>7. spent + t >= Budget \/ spent + t < Budget
  BY <1>1, <1>3, <1>4
<1>. QED BY <1>3, <1>5, <1>6, <1>7

(* A request may take no time.                                             *)
LEMMA NoTime == 0 \in 0..Slow
<1>1. Slow \in Nat
  BY OperationsAssumption
<1>. QED BY <1>1

(* No wait has begun.                                                      *)
LEMMA WaitStarts == OperationsInit => OpInv
BY OperationsAssumption DEF OperationsInit, OpInv, OperationsTypeOK, HonestProof

(* Every step of a wait.                                                   *)
LEMMA WaitSteps == OpInv /\ [OperationsNext]_opVars => OpInv'
<1>. SUFFICES ASSUME OpInv, [OperationsNext]_opVars PROVE OpInv'
  OBVIOUS
<1>. USE DEF OpInv, OperationsTypeOK, HonestProof
<1>0. 0 \in 0..Slow
  BY NoTime
<1>1. CASE WaitBegins
  BY <1>1 DEF WaitBegins, EndWait
<1>2. CASE Asks
  BY <1>2 DEF Asks
<1>3. CASE TimesOut
  BY <1>3 DEF TimesOut, EndWait
<1>4. CASE OperationAnswers
  <2>1. PICK a \in AnswersOf(operation.of), t \in 0..Slow :
          LET s == StatusOf(operation.of, a) IN
          /\ ~Refuses(operation.of, a)
          /\ spent' = spent + t /\ said' = Meaning(operation.of, a)
          /\ IF spent + t >= Budget THEN EndWait("uncertain")
             ELSE IF s.failed THEN EndWait("failed")
             ELSE IF s.done THEN EndWait(IF Verified(s) THEN "verified" ELSE "uncertain")
             ELSE /\ waiting' = "sleeps"
                  /\ wake' = spent + t + OpMin(PollEvery, Budget - (spent + t))
                  /\ UNCHANGED <<operation, proof>>
    BY <1>4 DEF OperationAnswers
  <2>2. said' \in {"nothing", "under way", "success", "failure"}
    BY <2>1 DEF Meaning
  <2>3. LET s == StatusOf(operation.of, a) IN
        /\ s.failed => said' = "failure"
        /\ Verified(s) => \/ said' = "success"
                          \/ (operation.of \in {"instawp", "sandywp"} /\ said' # "failure")
    <3>1. operation.of \in Watched
      OBVIOUS
    <3>2. Believes(operation.of, a)
      BY <3>1, ClientsBelieve
    <3>. QED BY <2>1, <3>2, Zenon DEF Believes
  <2>4. waiting = "asks" /\ spent < Budget /\ proof = "none"
    BY <1>4 DEF OperationAnswers
  <2>5. spent' \in 0..(Budget + Slow) /\ (spent + t < Budget <=> spent' < Budget)
    BY <2>1, <2>4, WaitTimes
  <2>6. CASE EndWait("uncertain")
    BY <2>2, <2>5, <2>6 DEF EndWait
  <2>7. CASE spent + t < Budget /\ EndWait("failed") /\ said' = "failure"
    BY <2>2, <2>5, <2>7 DEF EndWait
  <2>8. CASE /\ spent + t < Budget /\ EndWait("verified")
             /\ \/ said' = "success"
                \/ (operation.of \in {"instawp", "sandywp"} /\ said' # "failure")
    BY <2>2, <2>5, <2>8 DEF EndWait
  <2>9. CASE /\ spent + t < Budget /\ waiting' = "sleeps"
             /\ wake' = spent + t + OpMin(PollEvery, Budget - (spent + t))
             /\ UNCHANGED <<operation, proof>>
    <3>1. wake' \in 0..Budget
      BY <2>9, WaitTimes
    <3>. QED
      BY <2>2, <2>4, <2>5, <2>9, <3>1
  <2>10. spent + t >= Budget \/ spent + t < Budget
    BY WaitTimes
  <2>. QED
    BY <2>1, <2>3, <2>6, <2>7, <2>8, <2>9, <2>10
<1>5. CASE AnswerFails
  <2>1. PICK t \in 0..Slow : spent' = spent + t
    BY <1>5 DEF AnswerFails
  <2>2. spent' \in 0..(Budget + Slow)
    BY <1>5, <2>1, WaitTimes DEF AnswerFails
  <2>. QED BY <1>5, <2>2 DEF AnswerFails, EndWait
<1>6. CASE Wakes
  <2>1. spent' \in 0..(Budget + Slow)
    BY <1>0, <1>6, WaitTimes DEF Wakes
  <2>. QED BY <1>6, <2>1 DEF Wakes
<1>7. CASE UNCHANGED opVars
  BY <1>7 DEF opVars
<1>. QED
  BY <1>1, <1>2, <1>3, <1>4, <1>5, <1>6, <1>7 DEF OperationsNext

(* Whatever a provider answers, and whenever: a write is verified or failed *)
(* only by an answer in time that says so; of InstaWP and SandyWP, whose   *)
(* unknown states count as over, verified rules out a known failure only   *)
(* (hosting/operations.ts, verified-action.ts and every operationStatus).  *)
THEOREM HonestProofHolds == OperationsSpec => []HonestProof
<1>1. OperationsInit => OpInv
  BY WaitStarts
<1>2. OpInv => HonestProof
  BY DEF OpInv
<1>. QED
  BY <1>1, <1>2, WaitSteps, PTL DEF OperationsSpec

-----------------------------------------------------------------------------
(* Setups through a provider's API (ProviderSetups).                      *)

(* The records of a setup.                                                 *)
DeedRecords == [host : SetupHosts, wants : {"yes", "no", "default"}, at : SetupSteps,
                answer : Answers3, ai : BOOLEAN, named : BOOLEAN, completed : BOOLEAN]

(* What a step leaves of the record of the setup.                          *)
Goes(place, ans, ai, named, completed) ==
  /\ deed' \in DeedRecords /\ deed'.host = deed.host /\ deed'.at = place
  /\ deed'.answer = ans /\ deed'.ai = ai /\ deed'.named = named /\ deed'.completed = completed

\* A setup that goes on or ends keeps what it was started with.
LEMMA DeedGoes ==
  ASSUME deed \in DeedRecords, NEW s \in SetupSteps
  PROVE  /\ StepTo(s) => Goes(s, deed.answer, deed.ai, deed.named, deed.completed)
         /\ \A a \in Answers3 : EndsWith(a) =>
              Goes("end", a, deed.ai, deed.named, deed.completed)
BY DEF StepTo, EndsWith, Goes, DeedRecords, SetupSteps

(* Where an error leads.                                                   *)
LEMMA ThrownGoes ==
  ASSUME deed \in DeedRecords, Thrown
  PROVE  \/ /\ deed.host = "hostinger" /\ deed.at \in {"activate", "receipt"}
            /\ Goes("off", deed.answer, deed.ai, TRUE, deed.completed)
         \/ /\ deed.host = "hostinger" /\ deed.at \in {"put", "verify"}
            /\ Goes("end", "failed", deed.ai, TRUE, deed.completed)
         \/ /\ ~(deed.host = "hostinger" /\ deed.at \in {"put", "verify", "activate", "receipt"})
            /\ Goes("end", "failed", deed.ai, deed.named, deed.completed)
<1>1. CASE deed.host = "hostinger" /\ deed.at \in {"activate", "receipt"}
  <2>1. deed' = [deed EXCEPT !.at = "off", !.named = TRUE]
    BY <1>1 DEF Thrown
  <2>. QED BY <1>1, <2>1 DEF Goes, DeedRecords, SetupSteps
<1>2. CASE deed.host = "hostinger" /\ deed.at \in {"put", "verify"}
  <2>1. deed' = [deed EXCEPT !.at = "end", !.answer = "failed", !.named = TRUE]
    BY <1>2 DEF Thrown
  <2>. QED BY <1>2, <2>1 DEF Goes, DeedRecords, SetupSteps, Answers3
<1>3. CASE ~(deed.host = "hostinger" /\ deed.at \in {"put", "verify", "activate", "receipt"})
  <2>1. deed' = [deed EXCEPT !.at = "end", !.answer = "failed"]
    BY <1>3 DEF Thrown, EndsWith
  <2>. QED BY <1>3, <2>1 DEF Goes, DeedRecords, SetupSteps, Answers3
<1>. QED BY <1>1, <1>2, <1>3

(* What a setup makes of the plugin it read.                               *)
LEMMA DecidedGoes ==
  ASSUME NEW d \in DeedRecords, NEW p \in PluginStates, deed' = Decided(d, p)
  PROVE  /\ deed' \in DeedRecords /\ deed'.host = d.host /\ deed'.ai = d.ai
         /\ deed'.named = d.named /\ deed'.completed = d.completed
         /\ \/ deed'.at = "end" /\ deed'.answer = "failed"
            \/ /\ deed'.at = "turn on" /\ deed'.answer = d.answer /\ p = "inactive"
               /\ d.host # "sandywp"
            \/ deed'.at = "ai" /\ deed'.answer = d.answer /\ p = "active" /\ d.ai
            \/ /\ deed'.at = "end" /\ deed'.answer = "ok" /\ (p = "active" => ~d.ai)
               /\ p = "active" \/ (d.host = "sandywp" /\ p # "absent")
<1>1. CASE p = "absent" \/ (p \in Old /\ d.host # "sandywp")
  <2>1. Decided(d, p) = [d EXCEPT !.at = "end", !.answer = "failed"]
    BY <1>1 DEF Decided, Old
  <2>. QED BY <2>1 DEF DeedRecords, SetupSteps, Answers3
<1>2. CASE p = "inactive" /\ d.host # "sandywp"
  <2>1. Decided(d, p) = [d EXCEPT !.at = "turn on"]
    BY <1>2 DEF Decided, Old
  <2>. QED BY <1>2, <2>1 DEF DeedRecords, SetupSteps
<1>3. CASE p = "active" /\ d.ai
  <2>1. Decided(d, p) = [d EXCEPT !.at = "ai"]
    BY <1>3 DEF Decided, Old
  <2>. QED BY <1>3, <2>1 DEF DeedRecords, SetupSteps
<1>4. CASE /\ ~(p = "absent" \/ (p \in Old /\ d.host # "sandywp"))
           /\ ~(p = "inactive" /\ d.host # "sandywp") /\ ~(p = "active" /\ d.ai)
  <2>1. Decided(d, p) = [d EXCEPT !.at = "end", !.answer = "ok"]
    BY <1>4 DEF Decided
  <2>2. (p = "active" => ~d.ai) /\ (p = "active" \/ (d.host = "sandywp" /\ p # "absent"))
    BY <1>4 DEF PluginStates, Old
  <2>. QED BY <2>1, <2>2 DEF DeedRecords, SetupSteps, Answers3
<1>. QED BY <1>1, <1>2, <1>3, <1>4

\* The setup stays that of its host, and its owner's changes have been made.
Grows == deed'.host = deed.host /\ (ownerEdits > 0 => ownerEdits' > 0)

(* What the plugin is was shown, and what was shown stays so until the setup
   asks for something more.                                                *)
LEMMA ShownGrows ==
  ASSUME PsInv, PsNext, wordpress' \in [plugin : PluginStates, ai : BOOLEAN]
  PROVE  /\ wordpress'.plugin \in pluginShown' /\ pluginShown' \subseteq PluginStates
         /\ wordpress'.plugin \in PluginStates /\ wordpress'.ai \in BOOLEAN
         /\ accepted' \subseteq accepted =>
              /\ pluginShown \subseteq pluginShown'
              /\ Grows => (Shown => Shown')
              /\ pluginShown # {"absent"} => pluginShown' # {"absent"}
<1>1. /\ wordpress.plugin \in pluginShown /\ pluginShown \subseteq PluginStates
      /\ pluginShown' = {wordpress'.plugin}
            \cup IF accepted' \subseteq accepted THEN pluginShown ELSE {}
  BY DEF PsInv, PsTypeOK, PsNext
<1>2. ASSUME pluginShown \subseteq pluginShown', Grows, Shown PROVE Shown'
  <2>1. CASE "active" \in pluginShown
    BY <1>2, <2>1 DEF Shown
  <2>2. CASE "old active" \in pluginShown /\ ownerEdits > 0 /\ deed.host \in {"toolkit", "cloudways"}
    BY <1>2, <2>2 DEF Shown, Grows
  <2>. QED BY <1>2, <2>1, <2>2 DEF Shown
<1>. QED BY <1>1, <1>2

(* A request is answered or fails, with or without its effect: no step of it
   concerns the plugin or an answer of the setup but a failure.            *)
LEMMA RequestGoes ==
  ASSUME deed \in DeedRecords, NEW s \in SetupSteps,
         \/ StepTo(s)
         \/ Thrown
  PROVE  /\ deed' \in DeedRecords /\ deed'.host = deed.host /\ deed'.ai = deed.ai
         /\ deed'.completed = deed.completed
         /\ \/ deed'.at = s /\ deed'.answer = deed.answer /\ deed'.named = deed.named
            \/ /\ deed.host = "hostinger" /\ deed.at \in {"activate", "receipt"}
               /\ deed'.at = "off" /\ deed'.named = TRUE /\ deed'.answer = deed.answer
            \/ /\ deed'.at = "end" /\ deed'.answer = "failed"
               /\ \/ deed'.named = TRUE
                  \/ /\ ~(deed.host = "hostinger" /\ deed.at \in {"put", "verify", "activate", "receipt"})
                     /\ deed'.named = deed.named
<1>1. CASE StepTo(s)
  BY <1>1, DeedGoes DEF Goes
<1>2. CASE Thrown
  BY <1>2, ThrownGoes DEF Goes
<1>. QED BY <1>1, <1>2

(* How the cleanup leaves.                                                 *)
LEMMA CleanedGoes ==
  ASSUME deed \in DeedRecords, NEW w \in BOOLEAN, Cleaned(w)
  PROVE  Goes("end", IF deed.completed THEN "ok" ELSE "failed", deed.ai,
              deed.named \/ w, deed.completed)
BY DEF Cleaned, Goes, DeedRecords, SetupSteps, Answers3

(* A step keeps the types of what it changes.                              *)
LEMMA TypeKept ==
  ASSUME PsInv, PsNext, deed' \in DeedRecords, helper' \in HelperStates,
         wordpress' \in [plugin : PluginStates, ai : BOOLEAN],
         accepted' \subseteq {"install", "activate", "helper"},
         job' \in {"none", "queued", "done", "failed"}, ownerEdits' \in 0..OwnerEdits
  PROVE  PsTypeOK'
BY ShownGrows DEF PsTypeOK, DeedRecords

(* What a step of the setup itself keeps, if it leaves the site alone.     *)
LEMMA SiteAlone ==
  ASSUME PsInv, PsNext, UNCHANGED wordpress
  PROVE  /\ wordpress'.plugin \in pluginShown'
         /\ accepted' \subseteq accepted =>
              /\ Grows => (Shown => Shown')
              /\ pluginShown # {"absent"} => pluginShown' # {"absent"}
         /\ /\ deed' \in DeedRecords /\ helper' \in HelperStates
            /\ accepted' \subseteq {"install", "activate", "helper"}
            /\ job' \in {"none", "queued", "done", "failed"}
            /\ UNCHANGED ownerEdits
            => PsTypeOK'
<1>1. wordpress' \in [plugin : PluginStates, ai : BOOLEAN]
  BY DEF PsInv, PsTypeOK
<1>2. ownerEdits \in 0..OwnerEdits
  BY DEF PsInv, PsTypeOK
<1>. QED BY <1>1, <1>2, ShownGrows, TypeKept

(* Every step of a setup, of the provider and of the owner keeps it.       *)
THEOREM PsSteps == PsInv /\ [PsNext]_psVars => PsInv'
<1>. SUFFICES ASSUME PsInv, PsNext PROVE PsInv'
  <2>1. ASSUME PsInv, UNCHANGED psVars PROVE PsInv'
    <3>1. UNCHANGED <<wordpress, helper, accepted, job, deed, ownerEdits, pluginShown>>
      BY <2>1 DEF psVars
    <3>2. PsTypeOK'
      BY <2>1, <3>1 DEF PsInv, PsTypeOK
    <3>3. Shown = Shown'
      BY <3>1 DEF Shown
    <3>4. HonestAnswers'
      BY <2>1, <3>1, <3>3 DEF PsInv, HonestAnswers, ProvenSetups, HelperNamed
    <3>. QED
      BY <2>1, <3>1, <3>2, <3>3, <3>4 DEF PsInv
  <2>. QED BY <2>1
<1>t. /\ deed \in DeedRecords /\ wordpress \in [plugin : PluginStates, ai : BOOLEAN]
      /\ helper \in HelperStates /\ accepted \subseteq {"install", "activate", "helper"}
      /\ job \in {"none", "queued", "done", "failed"} /\ ownerEdits \in 0..OwnerEdits
      /\ PsTypeOK
  BY DEF PsInv, PsTypeOK, DeedRecords
<1>1. CASE LookAtSite
  <2>. DEFINE p == wordpress.plugin
              ai == WantsAbilities(p) /\ deed.host \in {"toolkit", "hostinger"}
              d == [deed EXCEPT !.ai = ai]
  <2>1. /\ ai \in BOOLEAN /\ (ai => deed.host \in {"toolkit", "hostinger"})
        /\ p \in PluginStates
    BY <1>t DEF WantsAbilities
  <2>2. /\ d \in DeedRecords /\ d.host = deed.host /\ d.answer = deed.answer /\ d.ai = ai
        /\ d.named = deed.named /\ d.completed = deed.completed
    BY <1>t, <2>1 DEF DeedRecords
  <2>. HIDE DEF ai, d
  <2>a. /\ deed.at = "look" /\ deed.answer = "running"
        /\ UNCHANGED <<wordpress, helper, accepted, job, ownerEdits>>
    BY <1>1 DEF LookAtSite, At
  <2>b. /\ p \in pluginShown' /\ (deed' \in DeedRecords => PsTypeOK')
    BY <1>t, <2>a, SiteAlone
  <2>c. helper = "none" /\ ~deed.completed
    BY <2>a DEF PsInv
  <2>3. CASE p = "absent" /\ deed.host # "hostinger"
    <3>1. deed' = [d EXCEPT !.at = "upload"]
      BY <1>1, <2>3 DEF LookAtSite, d, ai
    <3>9. Goes("upload", "running", ai, deed.named, deed.completed)
      BY <2>2, <2>a, <3>1 DEF Goes, DeedRecords, SetupSteps, Answers3
    <3>. QED
      BY <2>1, <2>a, <2>b, <2>c, <2>3, <3>9 DEF Goes, PsInv, HonestAnswers, ProvenSetups, HelperNamed, HelperSteps, Old
  <2>4. CASE p # "absent" /\ deed.host = "sandywp"
    <3>1. deed' = Decided(d, "absent")
      BY <1>1, <2>4 DEF LookAtSite, d, ai
    <3>2. deed' = [d EXCEPT !.at = "end", !.answer = "failed"]
      BY <3>1 DEF Decided
    <3>9. Goes("end", "failed", ai, deed.named, deed.completed)
      BY <2>2, <2>a, <3>2 DEF Goes, DeedRecords, SetupSteps, Answers3
    <3>. QED
      BY <2>1, <2>a, <2>b, <2>c, <2>4, <3>9 DEF Goes, PsInv, HonestAnswers, ProvenSetups, HelperNamed, HelperSteps
  <2>5. CASE p \notin Old /\ deed.host = "hostinger" /\ (p # "active" \/ d.ai)
    <3>1. deed' = [d EXCEPT !.at = "put"]
      BY <1>1, <2>5 DEF LookAtSite, d, ai
    <3>9. Goes("put", "running", ai, deed.named, deed.completed)
      BY <2>2, <2>a, <3>1 DEF Goes, DeedRecords, SetupSteps, Answers3
    <3>. QED
      BY <2>1, <2>a, <2>b, <2>c, <2>5, <3>9 DEF Goes, PsInv, HonestAnswers, ProvenSetups, HelperNamed, HelperSteps
  <2>6. CASE /\ p # "absent" /\ deed.host # "sandywp"
             /\ deed.host = "hostinger" => p \in Old \/ (p = "active" /\ ~ai)
    <3>1. deed' = Decided(d, p)
      BY <1>1, <2>2, <2>6 DEF LookAtSite, d, ai
    <3>2. /\ deed' \in DeedRecords /\ deed'.host = deed.host /\ deed'.ai = ai
          /\ deed'.named = deed.named /\ deed'.completed = deed.completed
          /\ \/ deed'.at = "end" /\ deed'.answer = "failed"
             \/ /\ deed'.at = "turn on" /\ deed'.answer = deed.answer /\ p \notin Old
                /\ deed.host \notin {"hostinger", "sandywp"}
             \/ /\ deed'.at = "ai" /\ deed'.answer = deed.answer /\ p = "active"
                /\ deed.host # "hostinger"
             \/ deed'.at = "end" /\ deed'.answer = "ok" /\ ~ai /\ p = "active"
      <4>1. CASE deed.host = "hostinger" /\ p \in Old
        <5>1. deed' = [d EXCEPT !.at = "end", !.answer = "failed"]
          BY <3>1, <4>1, <2>2 DEF Decided, Old
        <5>. QED BY <2>2, <5>1 DEF DeedRecords, SetupSteps, Answers3
      <4>2. CASE ~(deed.host = "hostinger" /\ p \in Old)
        <5>1. ~(p = "inactive" /\ deed.host = "hostinger") /\ p # "absent"
          BY <2>6, <4>2
        <5>2. p = "active" /\ deed.host = "hostinger" => ~ai
          BY <2>6, <4>2
        <5>. QED BY <2>1, <2>2, <2>6, <3>1, <5>1, <5>2, DecidedGoes DEF Old
      <4>. QED BY <4>1, <4>2
    <3>3. deed.host \in {"toolkit", "cloudways", "hostinger"}
      BY <1>t, <2>6, SetupsAssumption DEF DeedRecords
    <3>4. p = "active" => Shown' /\ p \notin Old
      BY <2>b DEF Shown, Old
    <3>5. PsTypeOK'
      BY <2>b, <3>2
    <3>6. CASE deed'.at = "end" /\ deed'.answer = "failed"
      BY <2>1, <2>a, <2>b, <2>c, <3>2, <3>5, <3>6 DEF PsInv, HonestAnswers, ProvenSetups, HelperNamed, HelperSteps
    <3>7. CASE /\ deed'.at = "turn on" /\ deed'.answer = deed.answer /\ p \notin Old
               /\ deed.host \notin {"hostinger", "sandywp"}
      BY <2>1, <2>a, <2>b, <2>c, <3>2, <3>3, <3>5, <3>7 DEF PsInv, HonestAnswers, ProvenSetups, HelperNamed, HelperSteps
    <3>8. CASE /\ deed'.at = "ai" /\ deed'.answer = deed.answer /\ p = "active"
               /\ deed.host # "hostinger"
      BY <2>1, <2>a, <2>b, <2>c, <3>2, <3>4, <3>5, <3>8 DEF PsInv, HonestAnswers, ProvenSetups, HelperNamed, HelperSteps
    <3>9. CASE deed'.at = "end" /\ deed'.answer = "ok" /\ ~ai /\ p = "active"
      BY <2>1, <2>a, <2>b, <2>c, <3>2, <3>4, <3>5, <3>9 DEF PsInv, HonestAnswers, ProvenSetups, HelperNamed, HelperSteps
    <3>. QED BY <3>2, <3>6, <3>7, <3>8, <3>9
  <2>. QED BY <2>2, <2>3, <2>4, <2>5, <2>6 DEF Old
<1>2. CASE UploadPlugin
  <2>1. /\ StepTo("installed") \/ StepTo("job") \/ Thrown
        /\ deed.at = "upload" /\ deed.answer = "running"
        /\ UNCHANGED <<wordpress, helper, ownerEdits>>
        /\ accepted' \subseteq {"install", "activate", "helper"}
        /\ job' \in {"none", "queued", "done", "failed"}
    BY <1>t, <1>2 DEF UploadPlugin, WriteRequest, At
  <2>2. /\ deed' \in DeedRecords /\ deed'.host = deed.host /\ deed'.ai = deed.ai
        /\ deed'.completed = deed.completed
        /\ \/ deed'.at \in {"installed", "job"} /\ deed'.answer = "running"
           \/ deed'.at = "end" /\ deed'.answer = "failed"
    BY <1>t, <2>1, RequestGoes DEF SetupSteps
  <2>3. wordpress'.plugin \in pluginShown' /\ PsTypeOK'
    BY <1>t, <2>1, <2>2, SiteAlone
  <2>. QED
    BY <2>1, <2>2, <2>3 DEF PsInv, HonestAnswers, ProvenSetups, HelperNamed, HelperSteps
<1>3. CASE JobFinished
  <2>1. /\ StepTo("installed") /\ deed.at = "job" /\ deed.answer = "running"
        /\ UNCHANGED <<wordpress, helper, accepted, job, ownerEdits>>
    BY <1>3 DEF JobFinished, At
  <2>2. Goes("installed", deed.answer, deed.ai, deed.named, deed.completed)
    BY <1>t, <2>1, DeedGoes DEF SetupSteps
  <2>3. wordpress'.plugin \in pluginShown' /\ PsTypeOK' /\ (Shown => Shown')
    BY <1>t, <2>1, <2>2, SiteAlone DEF Goes, Grows
  <2>. QED
    BY <2>1, <2>2, <2>3 DEF Goes, PsInv, HonestAnswers, ProvenSetups, HelperNamed, HelperSteps
<1>4. CASE Installed
  <2>1. PICK p \in PluginStates : p = wordpress.plugin /\ deed' = Decided(deed, p)
    BY <1>t, <1>4 DEF Installed, PluginRead
  <2>2. /\ deed.at = "installed" /\ deed.answer = "running"
        /\ UNCHANGED <<wordpress, helper, accepted, job, ownerEdits>>
    BY <1>4 DEF Installed, At
  <2>3. /\ deed' \in DeedRecords /\ deed'.host = deed.host /\ deed'.ai = deed.ai
        /\ deed'.named = deed.named /\ deed'.completed = deed.completed
        /\ \/ deed'.at = "end" /\ deed'.answer = "failed"
           \/ /\ deed'.at = "turn on" /\ deed'.answer = deed.answer
              /\ deed.host \in {"toolkit", "cloudways"}
           \/ deed'.at = "ai" /\ deed'.answer = deed.answer /\ p = "active"
           \/ /\ deed'.at = "end" /\ deed'.answer = "ok" /\ (p = "active" => ~deed.ai)
              /\ p = "active" \/ (deed.host = "sandywp" /\ p # "absent")
    <3>1. deed.host \in {"toolkit", "cloudways", "sandywp"}
      BY <1>t, <2>2, SetupsAssumption DEF DeedRecords, PsInv, HelperSteps
    <3>. QED BY <1>t, <2>1, <3>1, DecidedGoes
  <2>4. p \in pluginShown' /\ wordpress'.plugin \in pluginShown' /\ PsTypeOK'
    BY <1>t, <2>1, <2>2, <2>3, SiteAlone
  <2>5. p = "active" => Shown'
    BY <2>4 DEF Shown
  <2>6. p # "absent" => pluginShown' # {"absent"}
    BY <2>4
  <2>7. CASE deed'.at = "end" /\ deed'.answer = "failed"
    BY <2>2, <2>3, <2>4, <2>7 DEF PsInv, HonestAnswers, ProvenSetups, HelperNamed, HelperSteps
  <2>8. CASE /\ deed'.at \in {"turn on", "ai"} /\ deed'.answer = deed.answer
             /\ deed'.at = "turn on" => deed.host \in {"toolkit", "cloudways"}
             /\ deed'.at = "ai" => p = "active"
    BY <2>2, <2>3, <2>4, <2>5, <2>8 DEF PsInv, HonestAnswers, ProvenSetups, HelperNamed, HelperSteps
  <2>9. CASE /\ deed'.at = "end" /\ deed'.answer = "ok" /\ (p = "active" => ~deed.ai)
             /\ p = "active" \/ (deed.host = "sandywp" /\ p # "absent")
    <3>1. p = "active" => Shown'
      BY <2>5
    <3>2. p # "active" => deed'.host = "sandywp" /\ pluginShown' # {"absent"}
      BY <2>3, <2>6, <2>9
    <3>. QED
      BY <2>2, <2>3, <2>4, <2>9, <3>1, <3>2
      DEF PsInv, HonestAnswers, ProvenSetups, HelperNamed, HelperSteps, Shown
  <2>. QED BY <2>3, <2>7, <2>8, <2>9
<1>5. CASE TurnOn
  <2>1. /\ StepTo("turned on") \/ Thrown
        /\ deed.at = "turn on" /\ deed.answer = "running"
        /\ UNCHANGED <<wordpress, helper, job, ownerEdits>>
        /\ accepted' \subseteq {"install", "activate", "helper"}
    BY <1>t, <1>5 DEF TurnOn, WriteRequest, At
  <2>2. /\ deed' \in DeedRecords /\ deed'.host = deed.host /\ deed'.ai = deed.ai
        /\ deed'.completed = deed.completed
        /\ \/ deed'.at = "turned on" /\ deed'.answer = "running"
           \/ deed'.at = "end" /\ deed'.answer = "failed"
    BY <1>t, <2>1, RequestGoes DEF SetupSteps
  <2>3. wordpress'.plugin \in pluginShown' /\ PsTypeOK'
    BY <1>t, <2>1, <2>2, SiteAlone
  <2>. QED
    BY <2>1, <2>2, <2>3 DEF PsInv, HonestAnswers, ProvenSetups, HelperNamed, HelperSteps
<1>6. CASE TurnedOn
  <2>1. /\ deed.at = "turned on" /\ deed.answer = "running"
        /\ UNCHANGED <<wordpress, helper, accepted, job, ownerEdits>>
    BY <1>6 DEF TurnedOn, At
  <2>a. deed.host \in {"toolkit", "cloudways"}
    BY <2>1 DEF PsInv
  <2>2. CASE PluginActive /\ deed' = Decided(deed, "active")
    <3>1. /\ deed' \in DeedRecords /\ deed'.host = deed.host /\ deed'.ai = deed.ai
          /\ deed'.named = deed.named /\ deed'.completed = deed.completed
          /\ \/ deed'.at = "end" /\ deed'.answer = "failed"
             \/ deed'.at = "ai" /\ deed'.answer = deed.answer
             \/ deed'.at = "end" /\ deed'.answer = "ok" /\ ~deed.ai
      BY <1>t, <2>2, DecidedGoes DEF PluginStates
    <3>2. wordpress'.plugin \in pluginShown' /\ PsTypeOK'
      BY <1>t, <2>1, <3>1, SiteAlone
    <3>3. Shown'
      <4>1. CASE wordpress.plugin = "active"
        BY <2>1, <3>2, <4>1 DEF Shown
      <4>2. CASE wordpress.plugin = "old active"
        <5>1. ownerEdits # 0
          BY <2>1, <4>2 DEF PsInv, Old
        <5>2. ownerEdits' > 0
          <6>1. ownerEdits \in 0..OwnerEdits /\ OwnerEdits \in Nat
            BY <1>t, SetupsAssumption
          <6>2. ownerEdits > 0
            BY <5>1, <6>1
          <6>. QED BY <2>1, <6>2
        <5>3. "old active" \in pluginShown' /\ deed'.host \in {"toolkit", "cloudways"}
          BY <2>1, <2>a, <3>1, <3>2, <4>2
        <5>. QED BY <5>2, <5>3 DEF Shown
      <4>. QED BY <2>2, <4>1, <4>2 DEF PluginActive
    <3>. QED
      BY <2>1, <2>a, <3>1, <3>2, <3>3 DEF PsInv, HonestAnswers, ProvenSetups, HelperNamed, HelperSteps
  <2>3. CASE EndsWith("failed")
    <3>1. Goes("end", "failed", deed.ai, deed.named, deed.completed)
      BY <1>t, <2>3, DeedGoes DEF SetupSteps, Answers3
    <3>2. wordpress'.plugin \in pluginShown' /\ PsTypeOK'
      BY <1>t, <2>1, <3>1, SiteAlone DEF Goes
    <3>. QED
      BY <2>1, <3>1, <3>2 DEF Goes, PsInv, HonestAnswers, ProvenSetups, HelperNamed, HelperSteps
  <2>. QED BY <1>6, <2>2, <2>3 DEF TurnedOn
<1>7. CASE WriteAbilities
  <2>1. /\ wordpress' = [wordpress EXCEPT !.ai = TRUE] \/ UNCHANGED wordpress
        /\ deed.at = "ai" /\ deed.answer = "running"
        /\ UNCHANGED <<helper, accepted, job, ownerEdits>>
    BY <1>7 DEF WriteAbilities, At
  <2>2. (EndsWith("ok") /\ wordpress'.ai) \/ EndsWith("failed")
    BY <1>t, <1>7 DEF WriteAbilities
  <2>3. /\ wordpress' \in [plugin : PluginStates, ai : BOOLEAN]
        /\ wordpress'.plugin = wordpress.plugin /\ (wordpress.ai => wordpress'.ai)
    BY <1>t, <2>1
  <2>4. /\ deed' \in DeedRecords /\ deed'.host = deed.host /\ deed'.ai = deed.ai
        /\ deed'.completed = deed.completed /\ deed'.named = deed.named /\ deed'.at = "end"
        /\ deed'.answer = "failed" \/ (deed'.answer = "ok" /\ wordpress'.ai)
    BY <1>t, <2>2, DeedGoes DEF Goes, SetupSteps, Answers3
  <2>5. wordpress'.plugin \in pluginShown' /\ PsTypeOK' /\ (Shown => Shown')
    BY <1>t, <2>1, <2>3, <2>4, ShownGrows, TypeKept DEF Grows
  <2>. QED
    BY <2>1, <2>3, <2>4, <2>5 DEF Shown, PsInv, HonestAnswers, ProvenSetups, HelperNamed, HelperSteps
<1>8. CASE PutHelper
  <2>1. /\ StepTo("verify") \/ Thrown
        /\ deed.at = "put" /\ deed.answer = "running"
        /\ UNCHANGED <<wordpress, accepted, job, ownerEdits>> /\ helper' \in {helper, "files"}
    BY <1>8 DEF PutHelper, WriteRequest, At
  <2>2. deed.host = "hostinger"
    BY <2>1 DEF PsInv, HelperSteps
  <2>3. /\ deed' \in DeedRecords /\ deed'.host = deed.host /\ deed'.ai = deed.ai
        /\ deed'.completed = deed.completed
        /\ \/ deed'.at = "verify" /\ deed'.answer = "running"
           \/ deed'.at = "end" /\ deed'.answer = "failed" /\ deed'.named
    BY <1>t, <2>1, <2>2, RequestGoes DEF SetupSteps
  <2>4. helper' \in HelperStates
    BY <1>t, <2>1 DEF HelperStates
  <2>5. wordpress'.plugin \in pluginShown' /\ PsTypeOK'
    BY <1>t, <2>1, <2>3, <2>4, SiteAlone
  <2>. QED
    BY <2>1, <2>2, <2>3, <2>5 DEF PsInv, HonestAnswers, ProvenSetups, HelperNamed, HelperSteps
<1>9. CASE VerifyHelper
  <2>1. /\ StepTo("activate") /\ deed.at = "verify" /\ deed.answer = "running"
        /\ UNCHANGED <<wordpress, helper, accepted, job, ownerEdits>>
    BY <1>9 DEF VerifyHelper, At
  <2>2. Goes("activate", deed.answer, deed.ai, deed.named, deed.completed)
    BY <1>t, <2>1, DeedGoes DEF SetupSteps
  <2>3. wordpress'.plugin \in pluginShown' /\ PsTypeOK'
    BY <1>t, <2>1, <2>2, SiteAlone DEF Goes
  <2>. QED
    BY <2>1, <2>2, <2>3 DEF Goes, PsInv, HonestAnswers, ProvenSetups, HelperNamed, HelperSteps
<1>10. CASE ActivateHelper
  <2>1. /\ StepTo("receipt") \/ Thrown
        /\ deed.at = "activate" /\ deed.answer = "running"
        /\ UNCHANGED <<wordpress, helper, job, ownerEdits>>
        /\ accepted' \subseteq {"install", "activate", "helper"}
    BY <1>t, <1>10 DEF ActivateHelper, WriteRequest, At
  <2>2. deed.host = "hostinger" /\ ~deed.completed
    BY <2>1 DEF PsInv, HelperSteps
  <2>3. /\ deed' \in DeedRecords /\ deed'.host = deed.host /\ deed'.ai = deed.ai
        /\ deed'.completed = deed.completed
        /\ deed'.at \in {"receipt", "off"} /\ deed'.answer = "running"
    BY <1>t, <2>1, <2>2, DeedGoes, ThrownGoes DEF Goes, SetupSteps
  <2>4. wordpress'.plugin \in pluginShown' /\ PsTypeOK'
    BY <1>t, <2>1, <2>3, SiteAlone
  <2>. QED
    BY <2>1, <2>2, <2>3, <2>4 DEF PsInv, HonestAnswers, ProvenSetups, HelperNamed, HelperSteps
<1>11. CASE HelperCompleted
  <2>1. /\ helper = "active" /\ wordpress.plugin = "active"
        /\ deed.at = "receipt" /\ deed.answer = "running"
        /\ UNCHANGED <<wordpress, helper, accepted, job, ownerEdits>>
    BY <1>11 DEF HelperCompleted, Receipt, At
  <2>2. Goes("off", deed.answer, deed.ai, deed.named, TRUE)
    BY <1>t, <1>11 DEF HelperCompleted, Goes, DeedRecords, SetupSteps
  <2>3. wordpress'.plugin \in pluginShown' /\ PsTypeOK'
    BY <1>t, <2>1, <2>2, SiteAlone DEF Goes
  <2>4. Shown'
    BY <2>1, <2>3 DEF Shown
  <2>. QED
    BY <2>1, <2>2, <2>3, <2>4 DEF Goes, PsInv, HonestAnswers, ProvenSetups, HelperNamed, HelperSteps
<1>12. CASE HelperOff
  <2>1. /\ StepTo("remaining") \/ Cleaned(TRUE)
        /\ deed.at = "off" /\ deed.answer = "running" /\ helper' \in {helper, "inactive", "none"}
        /\ helper = "none" => helper' = "none"
        /\ UNCHANGED <<wordpress, accepted, job, ownerEdits>>
    BY <1>12 DEF HelperOff, At
  <2>2. \/ Goes("remaining", deed.answer, deed.ai, deed.named, deed.completed)
        \/ Goes("end", IF deed.completed THEN "ok" ELSE "failed", deed.ai,
                deed.named \/ TRUE, deed.completed)
    BY <1>t, <2>1, DeedGoes, CleanedGoes DEF SetupSteps
  <2>3. /\ deed' \in DeedRecords /\ deed'.host = deed.host /\ deed'.ai = deed.ai
        /\ deed'.completed = deed.completed
        /\ \/ deed'.at = "remaining" /\ deed'.answer = "running" /\ deed'.named = deed.named
           \/ /\ deed'.at = "end" /\ deed'.named
              /\ deed'.answer = IF deed.completed THEN "ok" ELSE "failed"
    BY <2>1, <2>2 DEF Goes
  <2>4. helper' \in HelperStates
    BY <1>t, <2>1 DEF HelperStates
  <2>5. wordpress'.plugin \in pluginShown' /\ PsTypeOK' /\ (Shown => Shown')
    BY <1>t, <2>1, <2>3, <2>4, SiteAlone DEF Grows
  <2>. QED
    BY <2>1, <2>3, <2>5 DEF Shown, PsInv, HonestAnswers, ProvenSetups, HelperNamed, HelperSteps
<1>13. CASE HelperRemoved
  <2>1. PICK w \in BOOLEAN : Cleaned(w) /\ (helper' # "none" => w)
    BY <1>13 DEF HelperRemoved, Remains
  <2>2. /\ deed.at = "remaining" /\ deed.answer = "running" /\ helper' \in {helper, "none"}
        /\ UNCHANGED <<wordpress, accepted, job, ownerEdits>>
    BY <1>13 DEF HelperRemoved, At
  <2>3. Goes("end", IF deed.completed THEN "ok" ELSE "failed", deed.ai,
             deed.named \/ w, deed.completed)
    BY <1>t, <2>1, CleanedGoes
  <2>4. helper' \in HelperStates
    BY <1>t, <2>2 DEF HelperStates
  <2>5. wordpress'.plugin \in pluginShown' /\ PsTypeOK' /\ (Shown => Shown')
    BY <1>t, <2>2, <2>3, <2>4, SiteAlone DEF Goes, Grows
  <2>. QED
    BY <2>1, <2>2, <2>3, <2>5 DEF Goes, Shown, PsInv, HonestAnswers, ProvenSetups, HelperNamed, HelperSteps
<1>14. CASE GivesUp
  <2>1. /\ Thrown /\ deed.answer = "running"
        /\ deed.at \in {"look", "job", "installed", "turned on", "receipt", "verify"}
        /\ UNCHANGED <<wordpress, helper, accepted, job, ownerEdits>>
    BY <1>14 DEF GivesUp
  <2>2. /\ wordpress'.plugin \in pluginShown'
        /\ deed' \in DeedRecords => PsTypeOK'
    BY <1>t, <2>1, SiteAlone
  <2>3. CASE deed.at = "receipt" /\ deed.host = "hostinger"
    <3>1. Goes("off", deed.answer, deed.ai, TRUE, deed.completed)
      BY <1>t, <2>1, <2>3, ThrownGoes
    <3>. QED
      BY <2>1, <2>2, <2>3, <3>1 DEF Goes, PsInv, HonestAnswers, ProvenSetups, HelperNamed, HelperSteps
  <2>4. CASE ~(deed.at = "receipt" /\ deed.host = "hostinger")
    <3>1. PICK named \in BOOLEAN :
             /\ Goes("end", "failed", deed.ai, named, deed.completed)
             /\ named = deed.named \/ named = TRUE
             /\ deed.at \in HelperSteps /\ deed.host = "hostinger" => named
      BY <1>t, <2>1, <2>4, ThrownGoes DEF DeedRecords, HelperSteps
    <3>. QED
      BY <2>1, <2>2, <2>4, <3>1 DEF Goes, PsInv, HonestAnswers, ProvenSetups, HelperNamed, HelperSteps
  <2>. QED BY <2>3, <2>4
<1>15. CASE ProviderWorks
  <2>1. PICK a \in accepted : accepted' = accepted \ {a}
    BY <1>15 DEF ProviderWorks
  <2>2. /\ wordpress' \in [plugin : PluginStates, ai : BOOLEAN] /\ helper' \in HelperStates
        /\ wordpress.ai => wordpress'.ai
        /\ job' \in {"none", "queued", "done", "failed"} /\ UNCHANGED <<deed, ownerEdits>>
        /\ helper = "none" => helper' = "none"
        /\ \/ helper' = helper
           \/ helper' = "active" /\ wordpress'.ai = (wordpress.ai \/ deed.ai)
        /\ wordpress.plugin \notin Old => wordpress'.plugin \notin Old
    <3>1. PICK b \in accepted :
             \/ /\ b = "install"
                /\ \/ job' = "failed" /\ UNCHANGED wordpress
                   \/ /\ job' = "done"
                      /\ wordpress' \in [plugin : {wordpress.plugin, "inactive"} \cup
                                                 (IF wordpress.plugin \in {"absent", "old active"}
                                                    THEN {"active"} ELSE {}),
                                        ai : {wordpress.ai}]
                /\ UNCHANGED helper
             \/ /\ b = "activate"
                /\ wordpress' \in {wordpress,
                       [wordpress EXCEPT !.plugin = CASE @ = "inactive" -> "active"
                                                      [] @ = "old" -> "old active" [] OTHER -> @]}
                /\ UNCHANGED <<helper, job>>
             \/ /\ b = "helper" /\ UNCHANGED job
                /\ \/ /\ helper \in {"files", "inactive"} /\ helper' = "active"
                      /\ wordpress.plugin \notin Old
                      /\ wordpress' = [plugin |-> "active", ai |-> wordpress.ai \/ deed.ai]
                   \/ UNCHANGED helper /\ wordpress' \in {wordpress, [wordpress EXCEPT !.plugin =
                                                          IF @ = "absent" THEN "inactive" ELSE @]}
      BY <1>15 DEF ProviderWorks
    <3>2. UNCHANGED <<deed, ownerEdits>> /\ deed.ai \in BOOLEAN
      BY <1>t, <1>15 DEF ProviderWorks, DeedRecords
    <3>3. CASE b = "install"
      BY <1>t, <3>1, <3>2, <3>3 DEF PluginStates, HelperStates, Old
    <3>4. CASE b = "activate"
      <4>1. CASE wordpress.plugin = "inactive"
        BY <1>t, <3>1, <3>2, <3>4, <4>1 DEF PluginStates, HelperStates, Old
      <4>2. CASE wordpress.plugin = "old"
        BY <1>t, <3>1, <3>2, <3>4, <4>2 DEF PluginStates, HelperStates, Old
      <4>3. CASE wordpress.plugin \notin {"inactive", "old"}
        <5>1. wordpress' = wordpress
          BY <1>t, <3>1, <3>4, <4>3
        <5>. QED BY <1>t, <3>1, <3>2, <3>4, <5>1
      <4>. QED BY <4>1, <4>2, <4>3
    <3>5. CASE b = "helper"
      <4>1. CASE helper' = "active" /\ wordpress' = [plugin |-> "active", ai |-> wordpress.ai \/ deed.ai]
        BY <1>t, <3>1, <3>2, <3>5, <4>1 DEF PluginStates, HelperStates, Old
      <4>2. CASE UNCHANGED <<helper, wordpress>>
        BY <1>t, <3>1, <3>2, <3>5, <4>2
      <4>3. CASE UNCHANGED helper /\ wordpress.plugin = "absent"
                   /\ wordpress' = [wordpress EXCEPT !.plugin = "inactive"]
        BY <1>t, <3>1, <3>2, <3>5, <4>3 DEF PluginStates, Old
      <4>. QED BY <1>t, <3>1, <3>5, <4>1, <4>2, <4>3
    <3>. QED BY <3>1, <3>3, <3>4, <3>5
  <2>3. /\ wordpress'.plugin \in pluginShown' /\ PsTypeOK' /\ (Shown => Shown')
        /\ pluginShown # {"absent"} => pluginShown' # {"absent"}
    BY <1>t, <2>1, <2>2, ShownGrows, TypeKept DEF Grows
  <2>4. deed.at # "look"
    BY <2>1 DEF PsInv
  <2>. QED
    BY <2>2, <2>3, <2>4 DEF PsInv, HonestAnswers, ProvenSetups, HelperNamed, HelperSteps
<1>16. CASE OwnerEdit
  <2>1. /\ wordpress' \in [plugin : PluginStates, ai : BOOLEAN] /\ wordpress'.ai = wordpress.ai
        /\ ownerEdits' \in 0..OwnerEdits /\ UNCHANGED <<helper, accepted, job, deed>>
        /\ ownerEdits' > 0
    BY <1>t, <1>16, SetupsAssumption DEF OwnerEdit
  <2>2. /\ wordpress'.plugin \in pluginShown' /\ PsTypeOK' /\ (Shown => Shown')
        /\ pluginShown # {"absent"} => pluginShown' # {"absent"}
    BY <1>t, <2>1, ShownGrows, TypeKept DEF Grows
  <2>3. ownerEdits' # 0 /\ deed'.host = deed.host
    BY <2>1, SetupsAssumption
  <2>. QED
    BY <2>1, <2>2, <2>3 DEF PsInv, HonestAnswers, ProvenSetups, HelperNamed, HelperSteps
<1>. QED
  BY <1>1, <1>2, <1>3, <1>4, <1>5, <1>6, <1>7, <1>8, <1>9, <1>10, <1>11, <1>12, <1>13,
     <1>14, <1>15, <1>16 DEF PsNext

(* No setup has looked yet.                                                *)
LEMMA SetupStarts == PsInit => PsInv
<1>. SUFFICES ASSUME PsInit PROVE PsInv
  OBVIOUS
<1>1. PICK h \in SetupHosts, p \in PluginStates, on \in BOOLEAN,
           wants \in {"yes", "no", "default"} :
        /\ wordpress = [plugin |-> p, ai |-> on] /\ pluginShown = {p}
        /\ helper = "none" /\ accepted = {} /\ job = "none" /\ ownerEdits = 0
        /\ deed = [host |-> h, wants |-> wants, at |-> "look", answer |-> "running",
                   ai |-> FALSE, named |-> FALSE, completed |-> FALSE]
  BY DEF PsInit
<1>. QED
  BY <1>1, SetupsAssumption DEF PsInv, PsTypeOK, HonestAnswers, ProvenSetups,
     HelperNamed,
     Shown, HelperSteps, SetupSteps, Answers3, HelperStates

(* What a setup through a provider's API says is true: of the site, after
   everything it asked for, but for the version of a plugin that its owner set
   back on WP Toolkit or Cloudways and for the activation on SandyWP; and of the
   helper it may have left there (the four setups of hosting/providers).     *)
THEOREM HonestAnswersHolds == PsSpec => []HonestAnswers
<1>1. PsInit => PsInv
  BY SetupStarts
<1>2. PsInv => HonestAnswers
  BY DEF PsInv
<1>. QED BY <1>1, <1>2, PsSteps, PTL DEF PsSpec

(* Operations and setups together: HQ says success and failure only of     *)
(* what a provider said or did, with the exceptions of the two theorems.   *)
THEOREM AnswersHonestHolds == OperationsSpec /\ PsSpec => []AnswersHonest
<1>1. HonestProof /\ HonestAnswers => AnswersHonest
  BY DEF AnswersHonest
<1>. QED
  BY <1>1, HonestProofHolds, HonestAnswersHolds, PTL

-----------------------------------------------------------------------------
(* What a client lists (ProviderInventories, CpanelSites).                 *)

-----------------------------------------------------------------------------
(* Numbers, sets of indices and lists.                                     *)

\* A set that holds zero, and with a number the next one, holds them all.
LEMMA SetInduction ==
  ASSUME NEW S, 0 \in S, \A n \in Nat : n \in S => n + 1 \in S
  PROVE  Nat \subseteq S
<1>. DEFINE T == Nat \ S
           R == OpToRel(<, Nat)
<1>. SUFFICES ASSUME T # {} PROVE FALSE
  OBVIOUS
<1>1. IsWellFoundedOn(R, Nat) /\ T \subseteq Nat
  BY NatLessThanWellFounded
<1>r. \A x, y \in Nat : x < y => <<x, y>> \in R
  BY DEF OpToRel
<1>. HIDE DEF R, T
<1>2. PICK x \in T : \A y \in T : ~(<<y, x>> \in R)
  BY <1>1, WFMin, Zenon
<1>3. x \in Nat /\ x \notin S /\ x # 0
  BY DEF T
<1>4. x - 1 \in Nat /\ x - 1 < x /\ (x - 1) + 1 = x
  BY <1>3
<1>5. x - 1 \notin T
  BY <1>r, <1>2, <1>3, <1>4
<1>. QED BY <1>3, <1>4, <1>5 DEF T

\* A set of numbers has a least one.
LEMMA LeastExists ==
  ASSUME NEW S \in SUBSET Nat, S # {}
  PROVE  \E c \in S : \A d \in S : c <= d
<1>. DEFINE R == OpToRel(<, Nat)
<1>1. IsWellFoundedOn(R, Nat)
  BY NatLessThanWellFounded
<1>r. \A x, y \in Nat : x < y => <<x, y>> \in R
  BY DEF OpToRel
<1>. HIDE DEF R
<1>2. PICK x \in S : \A y \in S : ~(<<y, x>> \in R)
  BY <1>1, WFMin, Zenon
<1>3. ASSUME NEW d \in S PROVE x <= d
  <2>1. ~(<<d, x>> \in R) /\ x \in Nat /\ d \in Nat
    BY <1>2
  <2>2. ~(d < x)
    BY <1>r, <2>1, Zenon
  <2>. QED BY <2>1, <2>2
<1>. QED BY <1>2, <1>3

\* The indices that a filter keeps can be put in order, for any list.
LEMMA OrderExists ==
  ASSUME NEW n \in Nat
  PROVE  \A kept \in SUBSET (1..n) :
           \E f \in Bijection(1..Cardinality(kept), kept) :
             \A i, j \in 1..Cardinality(kept) : i < j => f[i] < f[j]
<1>. DEFINE Ordered(I) == \E f \in Bijection(1..Cardinality(I), I) :
                            \A i, j \in 1..Cardinality(I) : i < j => f[i] < f[j]
            S == {m \in Nat : \A I \in SUBSET (1..m) : Ordered(I)}
<1>1. 0 \in S
  <2>. SUFFICES ASSUME NEW I \in SUBSET (1..0) PROVE Ordered(I)
    OBVIOUS
  <2>0. \A x \in I : x \in 1..0
    OBVIOUS
  <2>1. I = {} /\ Cardinality(I) = 0
    <3>1. I = {}
      BY <2>0
    <3>. QED BY <3>1, FS_EmptySet
  <2>2. [k \in 1..0 |-> k] \in Bijection(1..0, {})
    BY DEF Bijection, Injection, Surjection, IsInjective
  <2>. QED BY <2>1, <2>2
<1>2. ASSUME NEW m \in Nat, m \in S PROVE m + 1 \in S
  <2>. SUFFICES ASSUME NEW I \in SUBSET (1..m + 1) PROVE Ordered(I)
    OBVIOUS
  <2>1. CASE m + 1 \notin I
    <3>1. I \in SUBSET (1..m)
      BY <2>1
    <3>. QED BY <3>1, <1>2
  <2>2. CASE m + 1 \in I
    <3>. DEFINE J == I \ {m + 1}
                c == Cardinality(J)
    <3>1. J \in SUBSET (1..m) /\ I = J \cup {m + 1} /\ m + 1 \notin J
      BY <2>2
    <3>2. IsFiniteSet(J) /\ c \in Nat /\ Cardinality(I) = c + 1
      <4>1. IsFiniteSet(1..m)
        BY FS_Interval
      <4>2. IsFiniteSet(J)
        BY <3>1, <4>1, FS_Subset
      <4>. QED BY <3>1, <4>2, FS_AddElement, FS_CardinalityType
    <3>3. PICK f \in Bijection(1..c, J) : \A i, j \in 1..c : i < j => f[i] < f[j]
      BY <3>1, <1>2
    <3>4. /\ f \in [1..c -> J] /\ \A a, b \in 1..c : f[a] = f[b] => a = b
          /\ \A t \in J : \E s \in 1..c : f[s] = t
      BY <3>3 DEF Bijection, Injection, Surjection, IsInjective
    <3>. HIDE DEF J, c
    <3>. DEFINE g == [k \in 1..c + 1 |-> IF k = c + 1 THEN m + 1 ELSE f[k]]
    <3>6. g[c + 1] = m + 1
      BY <3>2
    <3>5. g \in [1..c + 1 -> I] /\ \A k \in 1..c : g[k] = f[k] /\ f[k] \in J /\ f[k] \in 1..m
      <4>1. \A k \in 1..c : f[k] \in J /\ f[k] \in 1..m
        BY <3>1, <3>4
      <4>2. \A k \in 1..c : k # c + 1 /\ k \in 1..c + 1
        BY <3>2
      <4>3. \A k \in 1..c + 1 : k = c + 1 \/ k \in 1..c
        BY <3>2
      <4>4. \A k \in 1..c : g[k] = f[k]
        BY <4>2
      <4>5. \A k \in 1..c + 1 : g[k] \in I
        BY <3>1, <3>6, <4>1, <4>3, <4>4
      <4>. QED BY <4>1, <4>4, <4>5
    <3>. HIDE DEF g
    <3>7. \A i, j \in 1..c + 1 : i < j => g[i] < g[j]
      BY <3>2, <3>3, <3>5, <3>6
    <3>8. \A i, j \in 1..c + 1 : g[i] = g[j] => i = j
      <4>. SUFFICES ASSUME NEW i \in 1..c + 1, NEW j \in 1..c + 1, i < j PROVE g[i] # g[j]
        BY <3>2
      <4>1. g[i] \in 1..m + 1 /\ g[j] \in 1..m + 1
        BY <3>5, <3>1
      <4>. QED BY <3>7, <4>1
    <3>9. \A t \in I : \E s \in 1..c + 1 : g[s] = t
      <4>. SUFFICES ASSUME NEW t \in I PROVE \E s \in 1..c + 1 : g[s] = t
        OBVIOUS
      <4>1. CASE t = m + 1
        BY <3>2, <3>6, <4>1
      <4>2. CASE t \in J
        BY <3>2, <3>4, <3>5, <4>2
      <4>. QED BY <3>1, <4>1, <4>2
    <3>10. g \in Bijection(1..c + 1, I)
      BY <3>5, <3>8, <3>9 DEF Bijection, Injection, Surjection, IsInjective
    <3>. QED BY <3>2, <3>7, <3>10
  <2>. QED BY <2>1, <2>2
<1>. HIDE DEF S
<1>3. n \in S
  BY <1>1, <1>2, SetInduction
<1>. QED BY <1>3 DEF S

\* So a filter keeps just these elements, each once and in the list's order.
LEMMA PickedInOrder ==
  ASSUME NEW n \in Nat, NEW kept \in SUBSET (1..n), NEW list
  PROVE  /\ Cardinality(kept) \in Nat /\ Cardinality(kept) <= n
         /\ InOrder(kept) \in [1..Cardinality(kept) -> kept]
         /\ \A i, j \in 1..Cardinality(kept) :
              i < j => InOrder(kept)[i] < InOrder(kept)[j]
         /\ \A i, j \in 1..Cardinality(kept) :
              InOrder(kept)[i] = InOrder(kept)[j] => i = j
         /\ \A t \in kept : \E k \in 1..Cardinality(kept) : InOrder(kept)[k] = t
         /\ Len(Picked(list, kept)) = Cardinality(kept)
         /\ DOMAIN Picked(list, kept) = 1..Cardinality(kept)
         /\ \A k \in 1..Cardinality(kept) : Picked(list, kept)[k] = list[InOrder(kept)[k]]
<1>1. IsFiniteSet(1..n) /\ Cardinality(1..n) = n
  BY FS_Interval
<1>2. Cardinality(kept) \in Nat /\ Cardinality(kept) <= n
  BY <1>1, FS_Subset, FS_CardinalityType
<1>3. /\ InOrder(kept) \in Bijection(1..Cardinality(kept), kept)
      /\ \A i, j \in 1..Cardinality(kept) : i < j => InOrder(kept)[i] < InOrder(kept)[j]
  BY OrderExists DEF InOrder
<1>4. /\ InOrder(kept) \in [1..Cardinality(kept) -> kept]
      /\ \A i, j \in 1..Cardinality(kept) : InOrder(kept)[i] = InOrder(kept)[j] => i = j
      /\ \A t \in kept : \E k \in 1..Cardinality(kept) : InOrder(kept)[k] = t
  BY <1>3 DEF Bijection, Injection, Surjection, IsInjective
<1>5. /\ DOMAIN Picked(list, kept) = 1..Cardinality(kept)
      /\ \A k \in 1..Cardinality(kept) : Picked(list, kept)[k] = list[InOrder(kept)[k]]
  BY DEF Picked
<1>6. Len(Picked(list, kept)) = Cardinality(kept)
  BY <1>2 DEF Picked
<1>. QED BY <1>2, <1>3, <1>4, <1>5, <1>6

\* The lists of a list, joined one after the other.
JoinsUp(F, seqs, n) ==
  /\ F[1] = seqs[1] /\ FlattenSeq(seqs) = F[n]
  /\ \A i \in 2..n : F[i] = F[i - 1] \o seqs[i]

\* Sequences joined one after the other: each joining is the one before and the next sequence.
LEMMA FlattenUnfolds ==
  ASSUME NEW S, NEW n \in Nat \ {0}, NEW seqs \in [1..n -> Seq(S)]
  PROVE  \E F \in [1..n -> Seq(S)] : JoinsUp(F, seqs, n)
<1>. DEFINE Joined(g, m) ==
              g = [i \in 1..m |-> IF i = 1 THEN seqs[i] ELSE g[i - 1] \o seqs[i]]
            T == {m \in Nat : m <= n => \E g : Joined(g, m)}
<1>1. Len(seqs) = n
  OBVIOUS
<1>. HIDE DEF Joined
<1>2. 0 \in T
  <2>. DEFINE g == [i \in 1..0 |-> seqs[i]]
  <2>1. \A i \in 1..0 : FALSE
    OBVIOUS
  <2>2. Joined(g, 0)
    BY <2>1 DEF Joined
  <2>. QED BY <2>2
<1>3. ASSUME NEW m \in Nat, m \in T PROVE m + 1 \in T
  <2>. SUFFICES ASSUME m + 1 <= n PROVE \E g : Joined(g, m + 1)
    OBVIOUS
  <2>1. PICK h : Joined(h, m)
    BY <1>3
  <2>. DEFINE g == [i \in 1..m + 1 |->
                      IF i <= m THEN h[i] ELSE IF i = 1 THEN seqs[i] ELSE h[i - 1] \o seqs[i]]
  <2>2. \A i \in 1..m : g[i] = h[i] /\ i \in 1..m + 1
    OBVIOUS
  <2>3. g[m + 1] = IF m + 1 = 1 THEN seqs[m + 1] ELSE h[m] \o seqs[m + 1]
    OBVIOUS
  <2>4. \A i \in 1..m : h[i] = IF i = 1 THEN seqs[i] ELSE h[i - 1] \o seqs[i]
    BY <2>1 DEF Joined
  <2>5. DOMAIN g = 1..m + 1 /\ g = [i \in 1..m + 1 |-> g[i]]
    OBVIOUS
  <2>. HIDE DEF g
  <2>6. ASSUME NEW i \in 1..m + 1
        PROVE  g[i] = IF i = 1 THEN seqs[i] ELSE g[i - 1] \o seqs[i]
    <3>1. CASE i = m + 1 /\ m = 0
      BY <2>3, <3>1
    <3>2. CASE i = m + 1 /\ m # 0
      <4>1. m \in 1..m /\ i - 1 = m /\ i # 1
        BY <3>2
      <4>2. g[i - 1] = h[m]
        BY <4>1, <2>2
      <4>0. ~(m + 1 = 1)
        BY <3>2
      <4>3. g[m + 1] = h[m] \o seqs[m + 1]
        BY <2>3, <4>0, Zenon
      <4>. QED BY <3>2, <4>1, <4>2, <4>3
    <3>3. CASE i \in 1..m /\ i # 1
      <4>1. i - 1 \in 1..m
        BY <3>3
      <4>. QED BY <2>2, <2>4, <3>3, <4>1
    <3>4. CASE i \in 1..m /\ i = 1
      BY <2>2, <2>4, <3>4
    <3>. QED BY <3>1, <3>2, <3>3, <3>4
  <2>7. Joined(g, m + 1)
    BY <2>5, <2>6 DEF Joined
  <2>. QED BY <2>7
<1>4. \E g : Joined(g, n)
  <2>. HIDE DEF T
  <2>1. n \in T
    BY <1>2, <1>3, SetInduction
  <2>. QED BY <2>1 DEF T
<1>5. PICK F : Joined(F, n) /\ FlattenSeq(seqs) = F[n]
  <2>. DEFINE F == CHOOSE g : g = [i \in 1..n |-> IF i = 1 THEN seqs[i] ELSE g[i - 1] \o seqs[i]]
  <2>1. Joined(F, n)
    BY <1>4 DEF Joined
  <2>2. FlattenSeq(seqs) = F[n]
    BY <1>1 DEF FlattenSeq
  <2>. QED BY <2>1, <2>2
<1>6. /\ DOMAIN F = 1..n /\ F[1] = seqs[1] /\ F = [i \in 1..n |-> F[i]]
      /\ \A i \in 2..n : F[i] = F[i - 1] \o seqs[i]
  <2>1. F = [i \in 1..n |-> IF i = 1 THEN seqs[i] ELSE F[i - 1] \o seqs[i]]
    BY <1>5 DEF Joined
  <2>2. \A i \in 1..n : F[i] = IF i = 1 THEN seqs[i] ELSE F[i - 1] \o seqs[i]
    BY <2>1, Zenon
  <2>3. DOMAIN F = 1..n /\ F = [i \in 1..n |-> F[i]]
    BY <2>1, Zenon
  <2>4. \A i \in 2..n : i \in 1..n /\ ~(i = 1)
    OBVIOUS
  <2>5. \A i \in 2..n : F[i] = F[i - 1] \o seqs[i]
    BY <2>2, <2>4, Zenon
  <2>6. F[1] = seqs[1]
    <3>1. 1 \in 1..n
      OBVIOUS
    <3>. QED BY <2>2, <3>1, Zenon
  <2>. QED BY <2>3, <2>5, <2>6
<1>. DEFINE U == {m \in Nat : m + 1 \in 1..n => F[m + 1] \in Seq(S)}
<1>7. 0 \in U
  BY <1>6
<1>8. ASSUME NEW m \in Nat, m \in U PROVE m + 1 \in U
  <2>. SUFFICES ASSUME (m + 1) + 1 \in 1..n PROVE F[(m + 1) + 1] \in Seq(S)
    OBVIOUS
  <2>1. m + 1 \in 1..n /\ (m + 1) + 1 \in 2..n /\ ((m + 1) + 1) - 1 = m + 1
    OBVIOUS
  <2>2. F[(m + 1) + 1] = F[m + 1] \o seqs[(m + 1) + 1]
    BY <1>6, <2>1
  <2>3. F[m + 1] \in Seq(S) /\ seqs[(m + 1) + 1] \in Seq(S)
    BY <1>8, <2>1
  <2>. QED BY <2>2, <2>3, ConcatProperties
<1>9. \A i \in 1..n : F[i] \in Seq(S)
  <2>. HIDE DEF U
  <2>1. Nat \subseteq U
    BY <1>7, <1>8, SetInduction
  <2>. SUFFICES ASSUME NEW i \in 1..n PROVE F[i] \in Seq(S)
    OBVIOUS
  <2>2. i - 1 \in Nat /\ (i - 1) + 1 = i
    OBVIOUS
  <2>. QED BY <2>1, <2>2 DEF U
<1>10. F \in [1..n -> Seq(S)]
  BY <1>6, <1>9
<1>. QED BY <1>5, <1>6, <1>10 DEF JoinsUp

-----------------------------------------------------------------------------
(* The rows of an account.                                                 *)

\* The rows of one site, one per role.
LEMMA RowsOfSite ==
  ASSUME NEW s \in Sites
  PROVE  /\ RowsOf(s) \in Seq(SiteRows) /\ Len(RowsOf(s)) <= 2
         /\ \A k \in 1..Len(RowsOf(s)) : \E r \in Roles(s) : RowsOf(s)[k] = RowOf(s, r)
         /\ \A r \in Roles(s) : \E k \in 1..Len(RowsOf(s)) : RowsOf(s)[k] = RowOf(s, r)
         /\ \A k, l \in 1..Len(RowsOf(s)) : k # l => RowsOf(s)[k].role # RowsOf(s)[l].role
<1>1. Roles(s) \in SUBSET RoleNames /\ "live" \in Roles(s)
  BY DEF Roles, RoleNames
<1>2. \A r \in RoleNames : RowOf(s, r) \in SiteRows /\ RowOf(s, r).role = r
  BY <1>1 DEF RowOf, SiteRows, Sites
<1>3. "live" \in RoleNames /\ "staging" \in RoleNames /\ "live" # "staging"
  BY DEF RoleNames
<1>4. CASE s.staging
  <2>. DEFINE x == RowOf(s, "live")
              y == RowOf(s, "staging")
  <2>1. RowsOf(s) = <<x>> \o <<y>>
    BY <1>4 DEF RowsOf
  <2>2. Roles(s) = {"live", "staging"}
    BY <1>4 DEF Roles
  <2>3. x \in SiteRows /\ y \in SiteRows /\ x.role # y.role
    BY <1>2, <1>3
  <2>. HIDE DEF x, y
  <2>4. <<x>> \in Seq(SiteRows) /\ <<y>> \in Seq(SiteRows) /\ Len(<<x>>) = 1 /\ Len(<<y>>) = 1
    BY <2>3
  <2>5. RowsOf(s) \in Seq(SiteRows) /\ Len(RowsOf(s)) = 2 /\ RowsOf(s)[1] = x /\ RowsOf(s)[2] = y
    BY <2>1, <2>4, ConcatProperties
  <2>6. 1..Len(RowsOf(s)) = {1, 2}
    BY <2>5
  <2>. QED BY <2>2, <2>3, <2>5, <2>6 DEF x, y
<1>5. CASE ~s.staging
  <2>1. RowsOf(s) = <<RowOf(s, "live")>>
    BY <1>5 DEF RowsOf
  <2>2. Roles(s) = {"live"}
    BY <1>5 DEF Roles
  <2>. QED BY <1>2, <1>3, <2>1, <2>2
<1>. QED BY <1>4, <1>5

\* Where every installation is a row, each is one row of its own.
LEMMA OwnRowsOfAccount ==
  ASSUME NEW p \in OwnRows, NEW a \in Seq(Sites), Distinct(a)
  PROVE  LET all == ApiRows(p, a) IN
         /\ all \in Seq(SiteRows) /\ Len(all) <= 2 * Len(a)
         /\ \A k \in 1..Len(all) : \E i \in 1..Len(a) : \E r \in Roles(a[i]) : all[k] = RowOf(a[i], r)
         /\ \A i \in 1..Len(a) : \A r \in Roles(a[i]) : \E k \in 1..Len(all) : all[k] = RowOf(a[i], r)
         /\ \A k, l \in 1..Len(all) : k # l => all[k].site # all[l].site \/ all[k].role # all[l].role
<1>. DEFINE n == Len(a)
            pieces == [i \in 1..n |-> RowsOf(a[i])]
            Fits(q, m) ==
              /\ q \in Seq(SiteRows) /\ Len(q) <= 2 * m
              /\ \A k \in 1..Len(q) : \E i \in 1..m : \E r \in Roles(a[i]) : q[k] = RowOf(a[i], r)
              /\ \A i \in 1..m : \A r \in Roles(a[i]) : \E k \in 1..Len(q) : q[k] = RowOf(a[i], r)
              /\ \A k, l \in 1..Len(q) : k # l => q[k].site # q[l].site \/ q[k].role # q[l].role
<1>1. n \in Nat /\ DOMAIN a = 1..n /\ \A i \in 1..n : a[i] \in Sites
  OBVIOUS
<1>2. \A i, j \in 1..n : i # j => a[i].n # a[j].n
  BY <1>1 DEF Distinct
<1>3. pieces \in [1..n -> Seq(SiteRows)] /\ \A i \in 1..n : pieces[i] = RowsOf(a[i])
  BY <1>1, RowsOfSite
<1>4. ApiRows(p, a) = FlattenSeq(pieces)
  BY <1>1 DEF ApiRows
<1>. HIDE DEF n, pieces
<1>5. CASE n = 0
  <2>1. DOMAIN pieces = 1..0 /\ Len(pieces) = 0
    BY <1>3, <1>5
  <2>2. FlattenSeq(pieces) = pieces
    BY <2>1 DEF FlattenSeq
  <2>3. pieces = <<>>
    BY <1>3, <1>5
  <2>4. Fits(<<>>, 0)
    OBVIOUS
  <2>. QED BY <1>4, <1>5, <2>2, <2>3, <2>4 DEF n
<1>6. CASE n # 0
  <2>1. PICK F \in [1..n -> Seq(SiteRows)] :
          /\ F[1] = pieces[1] /\ FlattenSeq(pieces) = F[n]
          /\ \A i \in 2..n : F[i] = F[i - 1] \o pieces[i]
    <3>1. n \in Nat \ {0}
      BY <1>1, <1>6
    <3>2. pieces \in [1..n -> Seq(SiteRows)]
      BY <1>3
    <3>3. \E F \in [1..n -> Seq(SiteRows)] : JoinsUp(F, pieces, n)
      BY <3>1, <3>2, FlattenUnfolds
    <3>. QED BY <3>3 DEF JoinsUp
  <2>. DEFINE S == {m \in Nat : m + 1 \in 1..n => Fits(F[m + 1], m + 1)}
  <2>2. 0 \in S
    <3>1. 1 \in 1..n /\ F[1] = RowsOf(a[1]) /\ a[1] \in Sites
      BY <1>1, <1>3, <1>6, <2>1
    <3>2. 1..1 = {1}
      OBVIOUS
    <3>. DEFINE z == RowsOf(a[1])
    <3>3. /\ z \in Seq(SiteRows) /\ Len(z) <= 2
          /\ \A k \in 1..Len(z) : \E r \in Roles(a[1]) : z[k] = RowOf(a[1], r)
          /\ \A r \in Roles(a[1]) : \E k \in 1..Len(z) : z[k] = RowOf(a[1], r)
          /\ \A k, l \in 1..Len(z) : k # l => z[k].role # z[l].role
      BY <3>1, RowsOfSite
    <3>. HIDE DEF z
    <3>4. Fits(z, 1)
      BY <3>2, <3>3
    <3>5. Fits(F[1], 1)
      BY <3>1, <3>4 DEF z
    <3>6. F[0 + 1] = F[1] /\ 0 + 1 = 1
      OBVIOUS
    <3>. HIDE DEF Fits
    <3>. QED BY <3>5, <3>6
  <2>3. ASSUME NEW m \in Nat, m \in S PROVE m + 1 \in S
    <3>. SUFFICES ASSUME (m + 1) + 1 \in 1..n PROVE Fits(F[(m + 1) + 1], (m + 1) + 1)
      OBVIOUS
    <3>. DEFINE j == m + 1
                q == F[j]
                z == RowsOf(a[j + 1])
    <3>1. j \in 1..n /\ j + 1 \in 2..n /\ j + 1 \in 1..n /\ (j + 1) - 1 = j /\ j \in Nat
      BY <1>1
    <3>2. F[j + 1] = q \o z
      BY <1>3, <2>1, <3>1
    <3>3. Fits(q, j)
      BY <2>3, <3>1
    <3>4. a[j + 1] \in Sites
      BY <1>1, <3>1
    <3>5. /\ z \in Seq(SiteRows) /\ Len(z) <= 2
          /\ \A k \in 1..Len(z) : \E r \in Roles(a[j + 1]) : z[k] = RowOf(a[j + 1], r)
          /\ \A r \in Roles(a[j + 1]) : \E k \in 1..Len(z) : z[k] = RowOf(a[j + 1], r)
          /\ \A k, l \in 1..Len(z) : k # l => z[k].role # z[l].role
      BY <3>4, RowsOfSite
    <3>6. /\ q \o z \in Seq(SiteRows) /\ Len(q \o z) = Len(q) + Len(z)
          /\ Len(q) \in Nat /\ Len(z) \in Nat
          /\ \A k \in 1..Len(q) : (q \o z)[k] = q[k]
          /\ \A k \in 1..Len(z) : (q \o z)[Len(q) + k] = z[k]
      <4>1. /\ q \o z \in Seq(SiteRows) /\ Len(q \o z) = Len(q) + Len(z)
            /\ \A i \in 1..Len(q) + Len(z) :
                 (q \o z)[i] = IF i <= Len(q) THEN q[i] ELSE z[i - Len(q)]
        <5>1. q \in Seq(SiteRows) /\ z \in Seq(SiteRows)
          BY <3>3, <3>5
        <5>. HIDE DEF q, z
        <5>. QED BY <5>1, ConcatProperties
      <4>2. Len(q) \in Nat /\ Len(z) \in Nat
        BY <3>3, <3>5
      <4>. HIDE DEF q, z
      <4>. QED BY <4>1, <4>2
    <3>. DEFINE w == q \o z
    <3>7. w \in Seq(SiteRows) /\ Len(w) <= 2 * (j + 1)
      BY <3>1, <3>3, <3>5, <3>6
    <3>. HIDE DEF w, z, q, j
    <3>8. \A k \in 1..Len(w) : k \in 1..Len(q) \/ (k - Len(q) \in 1..Len(z) /\ w[k] = z[k - Len(q)])
      <4>. SUFFICES ASSUME NEW k \in 1..Len(w), k \notin 1..Len(q)
                    PROVE  k - Len(q) \in 1..Len(z) /\ w[k] = z[k - Len(q)]
        OBVIOUS
      <4>1. k - Len(q) \in 1..Len(z) /\ Len(q) + (k - Len(q)) = k
        BY <3>6 DEF w
      <4>. QED BY <3>6, <4>1 DEF w
    <3>9. ASSUME NEW k \in 1..Len(w)
          PROVE  \E i \in 1..j + 1 : \E r \in Roles(a[i]) : w[k] = RowOf(a[i], r)
      <4>1. CASE k \in 1..Len(q)
        <5>1. PICK i \in 1..j : \E r \in Roles(a[i]) : q[k] = RowOf(a[i], r)
          BY <3>3, <4>1
        <5>2. i \in 1..j + 1
          BY <3>1
        <5>. QED BY <3>6, <4>1, <5>1, <5>2 DEF w
      <4>2. CASE k - Len(q) \in 1..Len(z) /\ w[k] = z[k - Len(q)]
        <5>1. j + 1 \in 1..j + 1
          BY <3>1
        <5>. QED BY <3>5, <4>2, <5>1
      <4>. QED BY <3>8, <4>1, <4>2
    <3>10. ASSUME NEW i \in 1..j + 1, NEW r \in Roles(a[i])
           PROVE  \E k \in 1..Len(w) : w[k] = RowOf(a[i], r)
      <4>1. CASE i = j + 1
        <5>1. PICK k \in 1..Len(z) : z[k] = RowOf(a[j + 1], r)
          BY <3>5, <4>1
        <5>2. Len(q) + k \in 1..Len(w)
          BY <3>6 DEF w
        <5>. QED BY <3>6, <4>1, <5>1, <5>2 DEF w
      <4>2. CASE i \in 1..j
        <5>1. PICK k \in 1..Len(q) : q[k] = RowOf(a[i], r)
          BY <3>3, <4>2
        <5>2. k \in 1..Len(w)
          BY <3>6 DEF w
        <5>. QED BY <3>6, <5>1, <5>2 DEF w
      <4>. QED BY <3>1, <4>1, <4>2
    <3>11. ASSUME NEW k \in 1..Len(w), NEW l \in 1..Len(w), k < l
           PROVE  w[k].site # w[l].site \/ w[k].role # w[l].role
      <4>1. CASE l \in 1..Len(q)
        <5>1. k \in 1..Len(q) /\ k # l
          BY <3>6, <3>11, <4>1
        <5>2. w[k] = q[k] /\ w[l] = q[l]
          BY <3>6, <4>1, <5>1 DEF w
        <5>. QED BY <3>3, <4>1, <5>1, <5>2
      <4>2. CASE k \in 1..Len(q) /\ l \notin 1..Len(q)
        <5>1. PICK i \in 1..j : \E r \in Roles(a[i]) : w[k] = RowOf(a[i], r)
          <6>1. w[k] = q[k]
            BY <3>6, <4>2 DEF w
          <6>2. \E i \in 1..j : \E r \in Roles(a[i]) : q[k] = RowOf(a[i], r)
            BY <3>3, <4>2
          <6>. QED BY <6>1, <6>2
        <5>2. \E r \in Roles(a[j + 1]) : w[l] = RowOf(a[j + 1], r)
          <6>1. l - Len(q) \in 1..Len(z) /\ w[l] = z[l - Len(q)]
            BY <3>8, <4>2
          <6>. QED BY <3>5, <6>1
        <5>3. w[k].site = a[i].n /\ w[l].site = a[j + 1].n
          BY <5>1, <5>2 DEF RowOf
        <5>4. i \in 1..n /\ i # j + 1
          BY <1>1, <3>1
        <5>. QED BY <1>2, <3>1, <5>3, <5>4
      <4>3. CASE k \notin 1..Len(q)
        <5>1. /\ k - Len(q) \in 1..Len(z) /\ w[k] = z[k - Len(q)]
              /\ l - Len(q) \in 1..Len(z) /\ w[l] = z[l - Len(q)]
              /\ k - Len(q) # l - Len(q)
          <6>1. Len(q) \in Nat /\ Len(w) \in Nat
            BY <3>6, <3>7
          <6>2. l \notin 1..Len(q) /\ k - Len(q) # l - Len(q)
            BY <3>11, <4>3, <6>1
          <6>3. k - Len(q) \in 1..Len(z) /\ w[k] = z[k - Len(q)]
            BY <3>8, <4>3
          <6>4. l - Len(q) \in 1..Len(z) /\ w[l] = z[l - Len(q)]
            BY <3>8, <6>2
          <6>. QED BY <6>2, <6>3, <6>4
        <5>2. z[k - Len(q)].role # z[l - Len(q)].role
          BY <3>5, <5>1
        <5>. QED BY <5>1, <5>2, Zenon
      <4>. QED BY <4>1, <4>2, <4>3
    <3>12. \A k, l \in 1..Len(w) : k # l => w[k].site # w[l].site \/ w[k].role # w[l].role
      <4>1. Len(w) \in Nat
        BY <3>7
      <4>2. \A k, l \in 1..Len(w) : k # l => k < l \/ l < k
        BY <4>1
      <4>. QED BY <3>11, <4>2
    <3>13. Fits(w, j + 1)
      BY <3>7, <3>9, <3>10, <3>12
    <3>. HIDE DEF Fits
    <3>. QED BY <3>2, <3>13 DEF w, j, q, z
  <2>4. Fits(F[n], n)
    <3>. HIDE DEF S
    <3>1. Nat \subseteq S
      BY <2>2, <2>3, SetInduction
    <3>2. n - 1 \in Nat /\ (n - 1) + 1 = n /\ n \in 1..n
      BY <1>1, <1>6
    <3>. HIDE DEF Fits
    <3>. QED BY <3>1, <3>2 DEF S
  <2>. QED BY <1>4, <2>1, <2>4 DEF n
<1>. QED BY <1>5, <1>6

\* What a client's API lists of an account: as many rows as it has sites, or up to two for each.
LEMMA RowsOfAccount ==
  ASSUME NEW p, NEW a \in Seq(Sites), Distinct(a)
  PROVE  /\ ApiRows(p, a) \in Seq(SiteRows) /\ Len(ApiRows(p, a)) <= 2 * Len(a)
         /\ p \notin OwnRows =>
              /\ Len(ApiRows(p, a)) = Len(a)
              /\ \A i \in 1..Len(a) : ApiRows(p, a)[i] = RowOf(a[i], "live")
<1>1. CASE p \in OwnRows
  BY <1>1, OwnRowsOfAccount
<1>2. CASE p \notin OwnRows
  <2>1. ApiRows(p, a) = [i \in DOMAIN a |-> RowOf(a[i], "live")]
    BY <1>2 DEF ApiRows
  <2>2. \A s \in Sites : RowOf(s, "live") \in SiteRows
    BY DEF RowOf, SiteRows, Sites, RoleNames, Roles
  <2>3. Len(a) \in Nat /\ DOMAIN a = 1..Len(a) /\ \A i \in 1..Len(a) : a[i] \in Sites
    OBVIOUS
  <2>4. ApiRows(p, a) \in [1..Len(a) -> SiteRows]
    BY <2>1, <2>2, <2>3
  <2>5. Len(ApiRows(p, a)) = Len(a) /\ ApiRows(p, a) \in Seq(SiteRows)
    BY <2>3, <2>4
  <2>. QED BY <1>2, <2>1, <2>3, <2>5
<1>. QED BY <1>1, <1>2

\* What a row reads as: the roles that are shown for its site.
ReadRoles(c, now, line) ==
  CASE c.provider \in {"kinsta", "wpengine"} -> line.roles
    [] c.provider = "rocketnet" -> {"live"} \cup (line.roles \cap {"staging"})
    [] c.provider = "xcloud" ->
         {line.role} \cup IF line.role = "staging" THEN {} ELSE RolesNow(now, line.site)
    [] c.provider = "pantheon" -> RolesNow(now, line.site)
    [] c.provider = "plesk" -> PleskRoles(c, RolesNow(now, line.site))
    [] c.provider \in {"cloudways", "pressable", "instawp", "sandywp"} -> {line.role}
    [] OTHER -> {"live"}

\* A line that is read shows the roles that are there when it is read.
LEMMA ReadShows ==
  ASSUME NEW c, c.provider \in Providers, NEW now, NEW line
  PROVE  Read(c, now, line) = Showing(c, line, ReadRoles(c, now, line))
<1>1. CASE c.provider = "kinsta"
  BY <1>1 DEF Read, ReadRoles, KinstaSite
<1>2. CASE c.provider = "wpengine"
  BY <1>2 DEF Read, ReadRoles, WpEngineSite
<1>3. CASE c.provider = "rocketnet"
  <2>1. ReadRoles(c, now, line) = {"live"} \cup (line.roles \cap {"staging"})
    BY <1>3 DEF ReadRoles
  <2>2. Read(c, now, line) = RocketNetSite(c, line)
    BY <1>3 DEF Read
  <2>3. CASE "staging" \in line.roles
    <3>1. line.roles \cap {"staging"} = {"staging"}
      BY <2>3
    <3>. QED BY <2>1, <2>2, <2>3, <3>1 DEF RocketNetSite, RocketNetStaging, Showing
  <2>4. CASE "staging" \notin line.roles
    <3>1. line.roles \cap {"staging"} = {}
      BY <2>4
    <3>. QED BY <2>1, <2>2, <2>4, <3>1 DEF RocketNetSite, Showing
  <2>. QED BY <2>3, <2>4
<1>4. CASE c.provider = "xcloud"
  BY <1>4 DEF Read, ReadRoles, XCloudSite
<1>5. CASE c.provider = "pantheon"
  BY <1>5 DEF Read, ReadRoles, PantheonSite
<1>6. CASE c.provider = "plesk"
  BY <1>6 DEF Read, ReadRoles, PleskSite
<1>7. CASE c.provider \in {"cloudways", "pressable", "instawp", "sandywp"}
  BY <1>7 DEF Read, ReadRoles, CloudwaysSite, PressableSite, InstaWpSite, SandyWpSite
<1>8. CASE c.provider \in {"hostinger", "agency", "cpanel", "whm"}
  BY <1>8 DEF Read, ReadRoles, HostingerSite, AgencySite, CpanelSite, WhmSite
<1>. QED BY <1>1, <1>2, <1>3, <1>4, <1>5, <1>6, <1>7, <1>8 DEF Providers

\* The roles are those that have a name, as things are now.
LEMMA RolesNowNamed ==
  ASSUME NEW now, NEW n
  PROVE  RolesNow(now, n) \in SUBSET RoleNames
<1>1. \A s : Roles(s) \subseteq RoleNames
  BY DEF Roles, RoleNames
<1>. QED BY <1>1 DEF RolesNow

\* So are the roles that a line is read to have.
LEMMA ReadRolesNamed ==
  ASSUME NEW c, NEW now, NEW line \in SiteRows
  PROVE  ReadRoles(c, now, line) \in SUBSET RoleNames
<1>1. line.roles \subseteq RoleNames /\ line.role \in RoleNames /\ "live" \in RoleNames
  BY DEF SiteRows, RoleNames
<1>2. RolesNow(now, line.site) \subseteq RoleNames
  BY RolesNowNamed
<1>3. PleskRoles(c, RolesNow(now, line.site)) \subseteq RoleNames
  BY <1>1, <1>2 DEF PleskRoles
<1>. QED BY <1>1, <1>2, <1>3 DEF ReadRoles

\* In an account whose sites differ, a site has the roles it is listed with.
LEMMA RolesAtRest ==
  ASSUME NEW a, Distinct(a), NEW i \in DOMAIN a
  PROVE  RolesNow(a, a[i].n) = Roles(a[i])
<1>1. {j \in DOMAIN a : a[j].n = a[i].n} = {i}
  BY DEF Distinct
<1>2. \A x \in {Roles(a[j]) : j \in {i}} : x = Roles(a[i])
  OBVIOUS
<1>3. {Roles(a[j]) : j \in {i}} = {Roles(a[i])}
  OBVIOUS
<1>4. RolesNow(a, a[i].n) = UNION {Roles(a[i])}
  BY <1>1, <1>3 DEF RolesNow
<1>. QED BY <1>4

\* An id is made of its installation, and a request with it goes there or nowhere.
LEMMA IdsOfEnvironments ==
  ASSUME NEW c, c.provider \in Providers, NEW n \in Nat, NEW r \in RoleNames
  PROVE  /\ Environment(c, n, r) \in Environments
         /\ Environment(c, n, r).of = [site |-> n, role |-> r]
         /\ c.provider # "hostinger" =>
              \A to \in RequestTo(c, Environment(c, n, r).id) :
                to = NameOf(c.provider, Environment(c, n, r).of)
<1>. DEFINE e == EnvIdOf(c, n, r)
            i == [site |-> n, role |-> r]
            Of == [site : Nat, role : PartNames]
<1>1. Environment(c, n, r) = [id |-> e, of |-> i]
  BY DEF Environment, Part
<1>2. 0 \in Nat /\ i \in [site : Nat, role : RoleNames] /\ i.site = n
  OBVIOUS
<1>3. \A x, y : Len(<<x, y>>) = 2 /\ Len(<<x>>) = 1
  OBVIOUS
<1>r. r \in PartNames
  BY DEF PartNames
<1>o. \A m \in Nat : \A s \in PartNames : [site |-> m, role |-> s] \in Of
  OBVIOUS
<1>i. i \in Of
  BY <1>r, <1>o
<1>w. /\ [site |-> n, role |-> "server"] \in Of /\ [site |-> n, role |-> "site"] \in Of
      /\ [site |-> n, role |-> "user"] \in Of /\ [site |-> n, role |-> "domain"] \in Of
      /\ [site |-> n, role |-> "live"] \in Of /\ [site |-> 0, role |-> "agency"] \in Of
      /\ [site |-> 0, role |-> "domain"] \in Of /\ [site |-> 0, role |-> "wp"] \in Of
  BY <1>2, <1>o DEF PartNames, RoleNames
<1>s. \A x, y \in Of : <<x, y>> \in Seq(Of) /\ <<x>> \in Seq(Of)
  OBVIOUS
<1>4. CASE c.provider = "cloudways"
  <2>1. e = <<[site |-> n, role |-> "server"], i>>
    BY <1>4 DEF EnvIdOf, CloudwaysId, Part
  <2>2. RequestTo(c, e) = {e} /\ NameOf(c.provider, i) = e
    BY <1>2, <1>3, <1>4, <2>1 DEF RequestTo, TwoHalves, NameOf, Part
  <2>3. e \in Seq(Of)
    BY <1>i, <1>w, <1>s, <2>1
  <2>. QED BY <1>1, <1>2, <2>2, <2>3 DEF Environments
<1>5. CASE c.provider = "pantheon"
  <2>1. e = <<[site |-> n, role |-> "site"], i>>
    BY <1>5 DEF EnvIdOf, PantheonId, Part
  <2>2. RequestTo(c, e) = {e} /\ NameOf(c.provider, i) = e
    BY <1>2, <1>3, <1>5, <2>1 DEF RequestTo, TwoHalves, NameOf, Part
  <2>3. e \in Seq(Of)
    BY <1>i, <1>w, <1>s, <2>1
  <2>. QED BY <1>1, <1>2, <2>2, <2>3 DEF Environments
<1>6. CASE c.provider = "whm"
  <2>1. e = <<[site |-> n, role |-> "user"], [site |-> n, role |-> "domain"]>>
    BY <1>6 DEF EnvIdOf, WhmId, Part
  <2>2. RequestTo(c, e) = {e} /\ NameOf(c.provider, i) = e
    BY <1>2, <1>3, <1>6, <2>1 DEF RequestTo, TwoHalves, NameOf, Part
  <2>3. e \in Seq(Of)
    BY <1>i, <1>w, <1>s, <2>1
  <2>. QED BY <1>1, <1>2, <2>2, <2>3 DEF Environments
<1>7. CASE c.provider = "hostinger"
  <2>1. e = <<[site |-> n, role |-> "user"], [site |-> n, role |-> "domain"]>>
    BY <1>7 DEF EnvIdOf, HostingerId, Part
  <2>3. e \in Seq(Of)
    BY <1>i, <1>w, <1>s, <2>1
  <2>. QED BY <1>1, <1>2, <1>7, <2>3 DEF Environments
<1>8. CASE c.provider = "agency"
  <2>1. e = <<[site |-> 0, role |-> "agency"], [site |-> n, role |-> "live"]>>
    BY <1>8 DEF EnvIdOf, AgencyId, Part
  <2>2. RequestTo(c, e) = {}
    BY <1>8 DEF RequestTo
  <2>3. e \in Seq(Of)
    BY <1>i, <1>w, <1>s, <2>1
  <2>. QED BY <1>1, <1>2, <2>2, <2>3 DEF Environments
<1>9. CASE c.provider = "plesk"
  <2>1. CASE c.toolkit
    <3>1. e = <<[site |-> 0, role |-> "wp"], i>>
      BY <1>9, <2>1 DEF EnvIdOf, PleskId, Part
    <3>2. RequestTo(c, e) = {<<i>>} /\ NameOf(c.provider, i) = <<i>>
      BY <1>9, <3>1 DEF RequestTo, PleskRef, NameOf
    <3>3. e \in Seq(Of)
      BY <1>i, <1>w, <1>s, <3>1
    <3>. QED BY <1>1, <1>2, <3>2, <3>3 DEF Environments
  <2>2. CASE ~c.toolkit
    <3>1. e = <<[site |-> 0, role |-> "domain"], [site |-> n, role |-> "domain"]>>
      BY <1>9, <2>2 DEF EnvIdOf, PleskId, Part
    <3>2. RequestTo(c, e) = {}
      BY <1>9, <3>1 DEF RequestTo, PleskRef
    <3>3. e \in Seq(Of)
      BY <1>i, <1>w, <1>s, <3>1
    <3>. QED BY <1>1, <1>2, <3>2, <3>3 DEF Environments
  <2>. QED BY <2>1, <2>2
<1>10. CASE c.provider = "cpanel"
  <2>1. e = <<[site |-> 0, role |-> "domain"], [site |-> n, role |-> "domain"]>>
    BY <1>10 DEF EnvIdOf, CpanelId, Part
  <2>2. e[1] = Part(0, "domain") /\ e[2] = Part(n, "domain")
    BY <2>1 DEF Part
  <2>3. RequestTo(c, e) = {<<Part(n, "domain")>>}
    BY <1>10, <2>2 DEF RequestTo, CpanelRef
  <2>4. NameOf(c.provider, i) = <<Part(n, "domain")>>
    BY <1>2, <1>10 DEF NameOf
  <2>5. e \in Seq(Of)
    BY <1>i, <1>w, <1>s, <2>1
  <2>. QED BY <1>1, <1>2, <2>3, <2>4, <2>5 DEF Environments
<1>11. CASE c.provider \notin {"cloudways", "pantheon", "whm", "hostinger", "agency", "plesk", "cpanel"}
  <2>1. e = <<i>>
    BY <1>11 DEF EnvIdOf, Part
  <2>2. RequestTo(c, e) = {e} /\ NameOf(c.provider, i) = e
    BY <1>11, <2>1 DEF RequestTo, NameOf
  <2>3. e \in Seq(Of)
    BY <1>i, <1>w, <1>s, <2>1
  <2>. QED BY <1>1, <1>2, <2>2, <2>3 DEF Environments
<1>. QED BY <1>4, <1>5, <1>6, <1>7, <1>8, <1>9, <1>10, <1>11

-----------------------------------------------------------------------------
(* Reading pages.                                                          *)

LastOn(k, all) == IF k * PageSize < Len(all) THEN k * PageSize ELSE Len(all)

\* Where a page begins and ends.
LEMMA PageBounds ==
  ASSUME NEW k \in Nat \ {0}
  PROVE  /\ PageSize \in Nat \ {0} /\ (k - 1) * PageSize \in Nat /\ k * PageSize \in Nat
         /\ k * PageSize = (k - 1) * PageSize + PageSize
         /\ ((k + 1) - 1) * PageSize = k * PageSize
<1>1. PageSize \in Nat \ {0}
  BY InventoryAssumption
<1>2. k - 1 \in Nat /\ k = (k - 1) + 1 /\ (k + 1) - 1 = k
  OBVIOUS
<1>3. \A x, y \in Nat : x * y \in Nat /\ (x + 1) * y = x * y + y
  OBVIOUS
<1>4. (k - 1) * PageSize \in Nat /\ ((k - 1) + 1) * PageSize = (k - 1) * PageSize + PageSize
  BY <1>1, <1>2, <1>3
<1>. QED BY <1>1, <1>2, <1>3, <1>4

\* A page continues the rows that were read before it.
LEMMA PageRead ==
  ASSUME NEW S, NEW all \in Seq(S), NEW c, c.paged, ~OnePage(c.provider), NEW k \in Nat \ {0}
  PROVE  LET m == (k - 1) * PageSize
             items == PageOf(c, all, k)
         IN
         /\ items \in Seq(S)
         /\ Len(items) = IF m < Len(all) THEN LastOn(k, all) - m ELSE 0
         /\ \A i \in 1..Len(items) : m + i \in 1..Len(all) /\ items[i] = all[m + i]
         /\ m <= Len(all) => SubSeq(all, 1, m) \o items = SubSeq(all, 1, LastOn(k, all))
<1>. DEFINE m == (k - 1) * PageSize
            l == LastOn(k, all)
            items == PageOf(c, all, k)
<1>1. /\ m \in Nat /\ k * PageSize \in Nat /\ k * PageSize = m + PageSize
      /\ PageSize \in Nat \ {0} /\ Len(all) \in Nat
  BY PageBounds
<1>2. l \in Nat /\ l <= Len(all) /\ l <= k * PageSize /\ (m < Len(all) => m < l) /\ (m >= Len(all) => l = Len(all))
  BY <1>1 DEF LastOn
<1>3. items = SubSeq(all, m + 1, l)
  BY DEF PageOf, OnePage, LastOn
<1>. HIDE DEF m, l, items
<1>4. \A i \in m + 1..l : all[i] \in S
  <2>1. \A i \in m + 1..l : i \in 1..Len(all)
    BY <1>1, <1>2
  <2>. QED BY <2>1, ElementOfSeq
<1>5. /\ items \in Seq(S) /\ Len(items) = IF m + 1 <= l THEN l - (m + 1) + 1 ELSE 0
      /\ \A i \in 1..l - (m + 1) + 1 : items[i] = all[(m + 1) + i - 1]
  <2>1. m + 1 \in Int /\ l \in Int
    BY <1>1, <1>2
  <2>. QED BY <1>3, <1>4, <2>1, SubSeqProperties
<1>6. Len(items) = IF m < Len(all) THEN l - m ELSE 0
  BY <1>1, <1>2, <1>5
<1>7. ASSUME NEW i \in 1..Len(items) PROVE m + i \in 1..Len(all) /\ items[i] = all[m + i]
  <2>1. m < Len(all) /\ i \in 1..l - m
    BY <1>1, <1>2, <1>6
  <2>2. i \in 1..l - (m + 1) + 1 /\ (m + 1) + i - 1 = m + i /\ m + i \in 1..Len(all)
    BY <1>1, <1>2, <2>1
  <2>. QED BY <1>5, <2>2
<1>8. ASSUME m <= Len(all) PROVE SubSeq(all, 1, m) \o items = SubSeq(all, 1, l)
  <2>1. m \in 1 - 1..Len(all) /\ l \in m..Len(all) /\ 1 \in 1..Len(all) + 1
    BY <1>1, <1>2, <1>8
  <2>. QED BY <1>3, <2>1, ConcatAdjacentSubSeq
<1>. QED BY <1>5, <1>6, <1>7, <1>8 DEF m, l, items

\* A page after which a client goes on was full, and not the last one.
LEMMA GoesOn ==
  ASSUME NEW S, NEW all \in Seq(S), NEW c, c.provider \in Providers, c.paged, ~OnePage(c.provider),
         NEW k \in Nat \ {0}, NEW n,
         n = (k - 1) * PageSize + Len(PageOf(c, all, k)),
         c.provider = "agency" => n = LastOn(k, all),
         ~Stops(c, k, PageOf(c, all, k), n, all)
  PROVE  k * PageSize < Len(all) /\ n = k * PageSize
<1>. DEFINE m == (k - 1) * PageSize
            K == k * PageSize
            L == Len(all)
            l == LastOn(k, all)
            items == PageOf(c, all, k)
<1>1. m \in Nat /\ K \in Nat /\ K = m + PageSize /\ PageSize \in Nat \ {0} /\ L \in Nat
  BY PageBounds
<1>2. l = IF K < L THEN K ELSE L
  BY DEF LastOn
<1>3. items \in Seq(S) /\ Len(items) = IF m < L THEN l - m ELSE 0
  BY PageRead
<1>4. ~Stops(c, k, items, n, all) /\ n = m + Len(items)
  OBVIOUS
<1>5. items = <<>> <=> Len(items) = 0
  BY <1>3
<1>. HIDE DEF m, l, items
<1>6. K < L
  <2>1. CASE c.provider = "rocketnet"
    <3>1. ~(Len(items) < PageSize) /\ ~(n >= L)
      BY <1>4, <2>1 DEF Stops, RocketNetStops
    <3>. QED BY <1>1, <1>2, <1>3, <1>4, <3>1
  <2>2. CASE c.provider \in {"pressable", "instawp", "xcloud"}
    <3>1. ~(K >= L)
      BY <1>4, <2>2 DEF Stops, PressableStops, InstaWpStops, XCloudStops
    <3>. QED BY <1>1, <3>1
  <2>3. CASE c.provider = "wpengine"
    <3>1. items # <<>> /\ ~(n >= L)
      BY <1>4, <2>3 DEF Stops, WpEngineStops
    <3>2. Len(items) # 0
      BY <1>5, <3>1
    <3>. QED BY <1>1, <1>2, <1>3, <1>4, <3>1, <3>2
  <2>4. CASE c.provider = "agency"
    <3>1. n # L /\ n = l
      BY <1>4, <2>4 DEF Stops, l
    <3>. QED BY <1>1, <1>2, <3>1
  <2>5. CASE c.provider = "hostinger"
    <3>1. ~(K >= L)
      BY <1>4, <2>5 DEF Stops, HostingerStops
    <3>. QED BY <1>1, <3>1
  <2>. QED BY <2>1, <2>2, <2>3, <2>4, <2>5 DEF Providers, OnePage
<1>. QED BY <1>1, <1>2, <1>3, <1>4, <1>6

\* A client that stops has read an account at rest to its end.
LEMMA StopsAtEnd ==
  ASSUME NEW S, NEW all \in Seq(S), NEW c, c.provider \in Providers, c.paged, ~OnePage(c.provider),
         NEW k \in Nat \ {0}, NEW n,
         (k - 1) * PageSize <= Len(all), Len(all) <= MaxPages * PageSize,
         n = (k - 1) * PageSize + Len(PageOf(c, all, k)),
         Stops(c, k, PageOf(c, all, k), n, all)
  PROVE  LastOn(k, all) = Len(all)
<1>. DEFINE m == (k - 1) * PageSize
            K == k * PageSize
            L == Len(all)
            l == LastOn(k, all)
            items == PageOf(c, all, k)
<1>1. m \in Nat /\ K \in Nat /\ K = m + PageSize /\ PageSize \in Nat \ {0} /\ L \in Nat
  BY PageBounds
<1>2. l = IF K < L THEN K ELSE L
  BY DEF LastOn
<1>3. items \in Seq(S) /\ Len(items) = IF m < L THEN l - m ELSE 0
  BY PageRead
<1>4. Stops(c, k, items, n, all) /\ n = m + Len(items) /\ m <= L
  OBVIOUS
<1>5. items = <<>> => Len(items) = 0
  BY <1>3
<1>6. k = MaxPages => K >= L
  BY <1>1
<1>. HIDE DEF m, l, items, K
<1>7. l = L
  <2>1. CASE c.provider = "rocketnet"
    <3>1. Len(items) < PageSize \/ n >= L
      BY <1>4, <2>1 DEF Stops, RocketNetStops
    <3>. QED BY <1>1, <1>2, <1>3, <1>4, <3>1
  <2>2. CASE c.provider \in {"pressable", "instawp", "xcloud"}
    <3>1. K >= L \/ items = <<>> \/ k = MaxPages
      BY <1>4, <2>2 DEF Stops, PressableStops, InstaWpStops, XCloudStops, K
    <3>. QED BY <1>1, <1>2, <1>3, <1>4, <1>5, <1>6, <3>1
  <2>3. CASE c.provider = "wpengine"
    <3>1. items = <<>> \/ n >= L
      BY <1>4, <2>3 DEF Stops, WpEngineStops
    <3>. QED BY <1>1, <1>2, <1>3, <1>4, <1>5, <3>1
  <2>4. CASE c.provider = "agency"
    <3>1. n = L
      BY <1>4, <2>4 DEF Stops
    <3>. QED BY <1>1, <1>2, <1>3, <1>4, <3>1
  <2>5. CASE c.provider = "hostinger"
    <3>1. K >= L \/ k = MaxPages
      BY <1>4, <2>5 DEF Stops, HostingerStops, K
    <3>. QED BY <1>1, <1>2, <1>6, <3>1
  <2>. QED BY <2>1, <2>2, <2>3, <2>4, <2>5 DEF Providers, OnePage
<1>. QED BY <1>7 DEF l

-----------------------------------------------------------------------------
(* The inventory's invariant.                                              *)

\* What the accounts are: sites, none twice, numbered as they stand.
LEMMA AccountsFit ==
  ASSUME NEW a \in Accounts
  PROVE  /\ a \in Seq(Sites) /\ Distinct(a) /\ Len(a) \in Nat /\ Len(a) <= MaxSites
         /\ \A i \in 1..Len(a) : a[i].n = i
<1>0. MaxSites \in Nat
  BY InventoryAssumption
<1>1. PICK k \in 0..MaxSites : a \in {[i \in 1..k |-> Site(i, f[i])] : f \in [1..k -> BOOLEAN]}
  BY DEF Accounts
<1>2. PICK f \in [1..k -> BOOLEAN] : a = [i \in 1..k |-> Site(i, f[i])]
  BY <1>1
<1>3. k \in Nat /\ k <= MaxSites
  BY <1>0
<1>4. \A i \in 1..k : Site(i, f[i]) \in Sites /\ Site(i, f[i]).n = i
  BY <1>3 DEF Site, Sites
<1>5. a \in [1..k -> Sites] /\ \A i \in 1..k : a[i].n = i
  BY <1>2, <1>4
<1>6. a \in Seq(Sites) /\ Len(a) = k /\ DOMAIN a = 1..k
  BY <1>3, <1>5
<1>. QED BY <1>3, <1>5, <1>6 DEF Distinct

\* What a row reads as are environments whose ids were made of their installations.
LEMMA ReadMakes ==
  ASSUME NEW c, c.provider \in Providers, NEW now, NEW line \in SiteRows
  PROVE  /\ Read(c, now, line) \in SUBSET Environments
         /\ \A env \in Read(c, now, line) :
              /\ env = Environment(c, env.of.site, env.of.role) /\ env.of.role \in RoleNames
              /\ env.of.site = line.site
<1>1. ReadRoles(c, now, line) \in SUBSET RoleNames /\ line.site \in Nat
  BY ReadRolesNamed DEF SiteRows
<1>2. ASSUME NEW r \in ReadRoles(c, now, line)
      PROVE  /\ Environment(c, line.site, r) \in Environments
             /\ Environment(c, line.site, r).of = [site |-> line.site, role |-> r]
  BY <1>1, IdsOfEnvironments
<1>3. Read(c, now, line) = {Environment(c, line.site, r) : r \in ReadRoles(c, now, line)}
  BY ReadShows DEF Showing
<1>4. ASSUME NEW env \in Read(c, now, line)
      PROVE  /\ env \in Environments
             /\ env = Environment(c, env.of.site, env.of.role) /\ env.of.role \in RoleNames
             /\ env.of.site = line.site
  <2>1. PICK r \in ReadRoles(c, now, line) : env = Environment(c, line.site, r)
    BY <1>3
  <2>2. env \in Environments /\ env.of = [site |-> line.site, role |-> r]
    BY <1>2, <2>1
  <2>3. env.of.site = line.site /\ env.of.role = r
    BY <2>2
  <2>. QED BY <1>1, <2>1, <2>2, <2>3
<1>. QED BY <1>4

\* Rows folded into sites are no more than the rows.
LEMMA FoldedFits ==
  ASSUME NEW p, NEW S, NEW list \in Seq(S)
  PROVE  /\ Folded(p, list) \in Seq(S) /\ Len(Folded(p, list)) <= Len(list)
         /\ \A i \in DOMAIN Folded(p, list) : \E k \in 1..Len(list) : Folded(p, list)[i] = list[k]
<1>. DEFINE kept == {k \in DOMAIN list : \A i \in DOMAIN list :
                       list[k] \subseteq list[i] => list[k] = list[i]}
<1>1. CASE p # "xcloud"
  BY <1>1 DEF Folded
<1>2. CASE p = "xcloud"
  <2>1. Folded(p, list) = Picked(list, kept)
    BY <1>2 DEF Folded
  <2>2. Len(list) \in Nat /\ kept \in SUBSET (1..Len(list))
    OBVIOUS
  <2>. HIDE DEF kept
  <2>. DEFINE c == Cardinality(kept)
  <2>3. /\ c \in Nat /\ c <= Len(list) /\ InOrder(kept) \in [1..c -> kept]
        /\ Len(Picked(list, kept)) = c /\ DOMAIN Picked(list, kept) = 1..c
        /\ \A k \in 1..c : Picked(list, kept)[k] = list[InOrder(kept)[k]]
    BY <2>2, PickedInOrder
  <2>4. Picked(list, kept) = [k \in 1..c |-> list[InOrder(kept)[k]]]
    BY DEF Picked
  <2>. HIDE DEF c
  <2>5. \A k \in 1..c : InOrder(kept)[k] \in 1..Len(list) /\ list[InOrder(kept)[k]] \in S
    <3>1. \A k \in 1..c : InOrder(kept)[k] \in 1..Len(list)
      BY <2>2, <2>3
    <3>. QED BY <3>1
  <2>6. Picked(list, kept) \in [1..c -> S]
    BY <2>4, <2>5
  <2>7. Picked(list, kept) \in Seq(S)
    BY <2>3, <2>6
  <2>. QED BY <2>1, <2>3, <2>5, <2>7
<1>. QED BY <1>1, <1>2

\* What is in one of a list of sets.
LEMMA InRange ==
  ASSUME NEW S, NEW list \in Seq(S), NEW e
  PROVE  e \in UNION Range(list) <=> \E i \in 1..Len(list) : e \in list[i]
BY DEF Range

\* A listing starts with nothing read.
LEMMA InventoryStarts == InventoryInit => InventoryInv
<1>. SUFFICES ASSUME InventoryInit PROVE InventoryInv
  OBVIOUS
<1>. USE DEF InventoryInit
<1>0. /\ MaxPages \in Nat /\ MaxPages >= 1 /\ MaxSites \in Nat /\ PageSize \in Nat
      /\ 2 * (MaxSites + 1) <= MaxPages * PageSize
  BY InventoryAssumption
<1>1. account \in Seq(Sites) /\ Distinct(account) /\ Len(account) <= MaxSites /\ Len(account) \in Nat
  BY AccountsFit
<1>2. rows = <<>> /\ Len(rows) = 0 /\ listing = <<>> /\ Len(listing) = 0 /\ DOMAIN listing = {}
  OBVIOUS
<1>3. InventoryTypeOK
  BY <1>0, <1>1, <1>2 DEF InventoryTypeOK
<1>4. AccountKept
  BY <1>0, <1>1 DEF AccountKept, SameSites
<1>5. PagesFull
  BY <1>0, <1>2 DEF PagesFull
<1>6. RowsInOrder
  <2>1. ApiRows(lister.provider, account) \in Seq(SiteRows)
    BY <1>1, RowsOfAccount
  <2>2. SubSeq(ApiRows(lister.provider, account), 1, 0) = <<>>
    BY SubSeqEmpty
  <2>. QED BY <1>2, <2>1, <2>2 DEF RowsInOrder
<1>7. AgencyInOrder
  BY DEF AgencyInOrder
<1>8. ListingRead
  BY <1>2 DEF ListingRead
<1>9. IdsMade
  BY <1>2 DEF IdsMade, Range
<1>10. IdsFit
  BY DEF IdsFit
<1>. QED BY <1>3, <1>4, <1>5, <1>6, <1>7, <1>8, <1>9, <1>10 DEF InventoryInv

\* The reading of a page: what the proofs of its conjuncts start from.
LEMMA PageStep ==
  ASSUME InventoryInv, ReadPage
  PROVE  LET p == lister.provider
             all == ApiRows(p, account)
             items == PageOf(lister, all, page)
             m == (page - 1) * PageSize
         IN
         /\ p \in Providers /\ page \in Nat \ {0} /\ all \in Seq(SiteRows) /\ items \in Seq(SiteRows)
         /\ Len(all) \in Nat /\ Len(all) <= MaxPages * PageSize
         /\ m \in Nat /\ Len(rows) = m /\ (page = 1 => m = 0 /\ rows = <<>>)
         /\ rows' \in Seq(SiteRows) /\ Len(rows') = m + Len(items) /\ Len(items) \in Nat
         /\ \A i \in 1..Len(rows) : i \in 1..Len(rows') /\ rows'[i] = rows[i]
         /\ \A i \in 1..Len(items) : rows'[m + i] = items[i]
<1>. DEFINE p == lister.provider
            all == ApiRows(p, account)
            items == PageOf(lister, all, page)
            m == (page - 1) * PageSize
<1>. USE DEF InventoryInv
<1>1. p \in Providers /\ page \in Nat \ {0}
  BY InventoryAssumption DEF InventoryTypeOK
<1>2. account \in Seq(Sites) /\ Distinct(account) /\ Len(account) <= MaxSites + 1
  BY DEF InventoryTypeOK, AccountKept
<1>3. all \in Seq(SiteRows) /\ Len(all) <= 2 * Len(account)
  BY <1>2, RowsOfAccount
<1>4. Len(all) \in Nat /\ Len(all) <= MaxPages * PageSize
  <2>. HIDE DEF all
  <2>1. Len(account) \in Nat /\ Len(all) \in Nat
    BY <1>2, <1>3
  <2>2. 2 * (MaxSites + 1) <= MaxPages * PageSize /\ MaxSites \in Nat /\ MaxPages * PageSize \in Nat
    BY InventoryAssumption
  <2>. QED BY <1>2, <1>3, <2>1, <2>2
<1>5. m \in Nat /\ Len(rows) = m /\ (page = 1 => m = 0)
  <2>1. inventoryAt = "pages"
    BY DEF ReadPage
  <2>2. Len(rows) = m
    BY <2>1 DEF PagesFull
  <2>. QED BY <1>1, <2>2, PageBounds
<1>6. rows \in Seq(SiteRows) /\ (page = 1 => rows = <<>>)
  <2>1. rows \in Seq(SiteRows)
    BY DEF InventoryTypeOK
  <2>. QED BY <1>5, <2>1
<1>7. items \in Seq(SiteRows)
  <2>. HIDE DEF all
  <2>1. CASE (OnePage(p) \/ ~lister.paged) /\ p # "pantheon"
    BY <1>3, <2>1 DEF PageOf
  <2>2. CASE ~((OnePage(p) \/ ~lister.paged) /\ p # "pantheon")
    <3>. DEFINE l == IF page * PageSize < Len(all) THEN page * PageSize ELSE Len(all)
    <3>1. items = SubSeq(all, m + 1, l)
      BY <2>2 DEF PageOf
    <3>2. m \in Nat /\ l \in Nat /\ l <= Len(all)
      BY <1>1, <1>4, <1>5, PageBounds
    <3>. HIDE DEF m, l, items
    <3>3. \A i \in m + 1..l : all[i] \in SiteRows
      BY <1>3, <1>4, <3>2
    <3>4. m + 1 \in Int /\ l \in Int
      BY <3>2
    <3>. QED BY <3>1, <3>3, <3>4, SubSeqProperties
  <2>. QED BY <2>1, <2>2
<1>8. rows' = rows \o items
  BY DEF ReadPage
<1>. HIDE DEF items, all, m, p, InventoryInv
<1>9. /\ rows' \in Seq(SiteRows) /\ Len(rows') = Len(rows) + Len(items)
      /\ \A i \in 1..Len(rows) + Len(items) :
           rows'[i] = IF i <= Len(rows) THEN rows[i] ELSE items[i - Len(rows)]
  BY <1>6, <1>7, <1>8, ConcatProperties
<1>10. Len(items) \in Nat /\ Len(rows) \in Nat
  BY <1>6, <1>7
<1>11. \A i \in 1..Len(rows) : i \in 1..Len(rows') /\ rows'[i] = rows[i]
  BY <1>9, <1>10
<1>12. \A i \in 1..Len(items) : rows'[m + i] = items[i]
  BY <1>5, <1>9, <1>10
<1>. QED BY <1>1, <1>3, <1>4, <1>5, <1>6, <1>7, <1>9, <1>10, <1>11, <1>12 DEF items, all, m, p

\* Where the client does not page, its only page ends the listing.
LEMMA OnlyPage ==
  ASSUME InventoryInv, ReadPage, OnePage(lister.provider) \/ ~lister.paged
  PROVE  /\ page = 1 /\ inventoryAt' \in {"details", "failed"}
         /\ lister.provider = "agency" => inventoryAt' = "failed"
         /\ lister.provider # "pantheon" => rows' = ApiRows(lister.provider, account)
<1>. DEFINE p == lister.provider
            all == ApiRows(p, account)
            items == PageOf(lister, all, page)
<1>1. page \in Nat \ {0} /\ inventoryAt = "pages" /\ PagesFull
  BY PageStep DEF InventoryInv, ReadPage
<1>2. page = 1
  BY <1>1 DEF PagesFull
<1>3. rows = <<>> /\ all \in Seq(SiteRows)
  BY <1>2, PageStep
<1>4. Stops(lister, page, items, Len(rows) + Len(items), all)
  BY DEF Stops
<1>5. /\ inventoryAt' \in {"details", "failed"}
      /\ p = "agency" /\ ~lister.paged => inventoryAt' = "failed"
  BY <1>4 DEF ReadPage
<1>6. p = "agency" => ~lister.paged
  BY DEF OnePage
<1>7. p # "pantheon" => rows' = all
  <2>. SUFFICES ASSUME p # "pantheon" PROVE rows' = all
    OBVIOUS
  <2>1. items = all
    BY DEF PageOf
  <2>2. rows' = rows \o items
    BY DEF ReadPage
  <2>. QED BY <1>3, <2>1, <2>2, ConcatEmptySeq
<1>. QED BY <1>2, <1>5, <1>6, <1>7

\* Where it pages, it stops at the end of an account at rest, and not before.
LEMMA OneOfPages ==
  ASSUME InventoryInv, ReadPage, ~OnePage(lister.provider), lister.paged
  PROVE  LET p == lister.provider
             all == ApiRows(p, account)
             items == PageOf(lister, all, page)
             m == (page - 1) * PageSize
         IN
         /\ Len(items) = IF m < Len(all) THEN LastOn(page, all) - m ELSE 0
         /\ \A i \in 1..Len(items) : m + i \in 1..Len(all) /\ items[i] = all[m + i]
         /\ m <= Len(all) => SubSeq(all, 1, m) \o items = SubSeq(all, 1, LastOn(page, all))
         /\ inventoryAt' \in {"pages", "details", "failed"}
         /\ inventoryAt' = "pages" => page * PageSize < Len(all) /\ Len(rows') = page * PageSize
         /\ inventoryAt' = "details" /\ m <= Len(all) => LastOn(page, all) = Len(all)
         /\ inventoryAt' # "failed" /\ p = "agency" => AgencyAgrees(page, items, Len(rows'), all)
         /\ inventoryAt' = "details" /\ p = "agency" => Len(rows') = Len(all)
<1>. DEFINE p == lister.provider
            all == ApiRows(p, account)
            items == PageOf(lister, all, page)
            m == (page - 1) * PageSize
            n == Len(rows) + Len(items)
<1>1. /\ p \in Providers /\ page \in Nat \ {0} /\ all \in Seq(SiteRows)
      /\ Len(all) <= MaxPages * PageSize /\ Len(rows) = m /\ Len(rows') = m + Len(items)
  BY PageStep
<1>2. /\ Len(items) = IF m < Len(all) THEN LastOn(page, all) - m ELSE 0
      /\ \A i \in 1..Len(items) : m + i \in 1..Len(all) /\ items[i] = all[m + i]
      /\ m <= Len(all) => SubSeq(all, 1, m) \o items = SubSeq(all, 1, LastOn(page, all))
  BY <1>1, PageRead
<1>3. n = m + Len(items) /\ Len(rows') = n
  BY <1>1
<1>4. inventoryAt' = IF p = "agency" /\ ~(lister.paged /\ AgencyAgrees(page, items, n, all))
                     THEN "failed"
                     ELSE IF Stops(lister, page, items, n, all) THEN "details" ELSE "pages"
  BY DEF ReadPage
<1>5. ASSUME inventoryAt' # "failed", p = "agency" PROVE AgencyAgrees(page, items, n, all)
  BY <1>4, <1>5
<1>. HIDE DEF items, all
<1>6. ASSUME inventoryAt' = "pages" PROVE page * PageSize < Len(all) /\ n = page * PageSize
  <2>1. ~Stops(lister, page, items, n, all)
    BY <1>4, <1>6
  <2>2. p = "agency" => n = LastOn(page, all)
    BY <1>5, <1>6 DEF AgencyAgrees, LastOn
  <2>. QED BY <1>1, <1>3, <2>1, <2>2, GoesOn DEF items
<1>7. ASSUME inventoryAt' = "details", m <= Len(all) PROVE LastOn(page, all) = Len(all)
  <2>1. Stops(lister, page, items, n, all)
    BY <1>4, <1>7
  <2>. QED BY <1>1, <1>3, <1>7, <2>1, StopsAtEnd DEF items
<1>8. ASSUME inventoryAt' = "details", p = "agency" PROVE n = Len(all)
  <2>1. Stops(lister, page, items, n, all)
    BY <1>4, <1>8
  <2>. QED BY <1>8, <2>1 DEF Stops
<1>9. inventoryAt' \in {"pages", "details", "failed"}
  BY <1>4
<1>. QED BY <1>2, <1>3, <1>5, <1>6, <1>7, <1>8, <1>9 DEF items, all

\* A page is read.
LEMMA ReadPageKeeps == InventoryInv /\ ReadPage => InventoryInv'
<1>. SUFFICES ASSUME InventoryInv, ReadPage PROVE InventoryInv'
  OBVIOUS
<1>. DEFINE p == lister.provider
            all == ApiRows(p, account)
            items == PageOf(lister, all, page)
            m == (page - 1) * PageSize
<1>0. MaxPages \in Nat \ {0} /\ PageSize \in Nat \ {0}
  BY InventoryAssumption
<1>1. /\ p \in Providers /\ page \in Nat \ {0} /\ all \in Seq(SiteRows) /\ items \in Seq(SiteRows)
      /\ Len(all) \in Nat /\ Len(all) <= MaxPages * PageSize
      /\ m \in Nat /\ Len(rows) = m /\ (page = 1 => m = 0 /\ rows = <<>>)
      /\ rows' \in Seq(SiteRows) /\ Len(rows') = m + Len(items) /\ Len(items) \in Nat
      /\ \A i \in 1..Len(rows) : i \in 1..Len(rows') /\ rows'[i] = rows[i]
      /\ \A i \in 1..Len(items) : rows'[m + i] = items[i]
  BY PageStep
<1>2. /\ UNCHANGED <<lister, account, before, listing, shown, address>>
      /\ rows' = rows \o items /\ page' = page + 1 /\ inventoryAt = "pages"
      /\ total' = IF page = 1 THEN Len(all) ELSE total
  BY DEF ReadPage
<1>3. InventoryTypeOK /\ AccountKept /\ PagesFull /\ RowsInOrder /\ AgencyInOrder
      /\ ListingRead /\ IdsMade /\ (lister.provider # "hostinger" => IdsFit)
  BY DEF InventoryInv
<1>4. inventoryAt' \in {"pages", "details", "failed"}
  BY OnlyPage, OneOfPages
<1>p. page * PageSize = m + PageSize /\ ((page + 1) - 1) * PageSize = page * PageSize
  BY <1>1, PageBounds
<1>5. InventoryTypeOK'
  <2>1. page \in 1..MaxPages
    BY <1>0, <1>1, <1>2, <1>3 DEF PagesFull, InventoryTypeOK
  <2>2. total' \in Nat
    BY <1>1, <1>2, <1>3 DEF InventoryTypeOK
  <2>3. Len(listing) <= Len(rows')
    <3>1. listing \in Seq(SUBSET Environments) /\ Len(listing) <= Len(rows)
      BY <1>3 DEF InventoryTypeOK
    <3>. QED BY <1>1, <3>1
  <2>4. page' \in 1..MaxPages + 1
    BY <1>0, <1>2, <2>1
  <2>5. rows' \in Seq(SiteRows)
    BY <1>1
  <2>6. inventoryAt' \in {"pages", "details", "listed", "failed"}
    BY <1>4
  <2>. HIDE DEF all, items, m, p
  <2>. QED BY <1>2, <1>3, <2>2, <2>3, <2>4, <2>5, <2>6 DEF InventoryTypeOK
<1>6. AccountKept'
  BY <1>2, <1>3 DEF AccountKept, SameSites, Distinct
<1>7. PagesFull'
  <2>. SUFFICES ASSUME inventoryAt' = "pages"
                PROVE  /\ Len(rows') = (page' - 1) * PageSize
                       /\ lister.paged /\ ~OnePage(lister.provider) /\ page' <= MaxPages
    BY <1>2 DEF PagesFull
  <2>1. lister.paged /\ ~OnePage(lister.provider)
    BY OnlyPage
  <2>2. page * PageSize < Len(all) /\ Len(rows') = page * PageSize
    BY <2>1, OneOfPages
  <2>3. page < MaxPages
    <3>. HIDE DEF all, items, m
    <3>1. page * PageSize < MaxPages * PageSize
      BY <1>0, <1>1, <2>2
    <3>. QED BY <1>0, <1>1, <3>1
  <2>. QED BY <1>0, <1>1, <1>2, <1>p, <2>1, <2>2, <2>3
<1>8. RowsInOrder'
  <2>. SUFFICES ASSUME account = before
                PROVE  /\ inventoryAt' = "pages" => Len(rows') <= Len(all) /\ rows' = SubSeq(all, 1, Len(rows'))
                       /\ inventoryAt' = "details" /\ p # "pantheon" => rows' = all
    BY <1>2, <1>4 DEF RowsInOrder
  <2>1. CASE OnePage(p) \/ ~lister.paged
    BY <2>1, OnlyPage
  <2>2. CASE ~(OnePage(p) \/ ~lister.paged)
    <3>1. m <= Len(all) /\ rows = SubSeq(all, 1, m)
      BY <1>1, <1>2, <1>3 DEF RowsInOrder
    <3>2. /\ SubSeq(all, 1, m) \o items = SubSeq(all, 1, LastOn(page, all))
          /\ inventoryAt' = "pages" => page * PageSize < Len(all) /\ Len(rows') = page * PageSize
          /\ inventoryAt' = "details" => LastOn(page, all) = Len(all)
      BY <2>2, <3>1, OneOfPages
    <3>3. rows' = SubSeq(all, 1, LastOn(page, all))
      BY <1>2, <3>1, <3>2
    <3>4. SubSeq(all, 1, Len(all)) = all
      BY <1>1, SubSeqFull
    <3>5. inventoryAt' = "pages" => LastOn(page, all) = Len(rows') /\ Len(rows') <= Len(all)
      BY <1>0, <1>1, <3>2 DEF LastOn
    <3>. QED BY <3>2, <3>3, <3>4, <3>5
  <2>. QED BY <2>1, <2>2
<1>9. AgencyInOrder'
  <2>. SUFFICES ASSUME p = "agency", inventoryAt' # "failed"
                PROVE  /\ total' = Len(account) /\ Len(rows') <= Len(account)
                       /\ \A i \in 1..Len(rows') : rows'[i].site = account[i].n
                       /\ inventoryAt' # "pages" => Len(rows') = Len(account)
    <3>1. DOMAIN rows' = 1..Len(rows')
      BY <1>1
    <3>. HIDE DEF all, items, m
    <3>. QED BY <1>2, <3>1 DEF AgencyInOrder
  <2>1. ~OnePage(p) /\ lister.paged
    BY OnlyPage
  <2>2. /\ \A i \in 1..Len(items) : m + i \in 1..Len(all) /\ items[i] = all[m + i]
        /\ AgencyAgrees(page, items, Len(rows'), all)
        /\ inventoryAt' = "details" => Len(rows') = Len(all)
    BY <2>1, OneOfPages
  <2>3. /\ account \in Seq(Sites) /\ Distinct(account) /\ before \in Seq(Sites)
        /\ Len(account) = Len(before) => SameSites(account, before)
    BY <1>3, AccountsFit DEF AccountKept, InventoryTypeOK
  <2>4. Len(all) = Len(account) /\ \A i \in 1..Len(account) : all[i] = RowOf(account[i], "live")
    BY <2>3, RowsOfAccount DEF OwnRows
  <2>5. Len(rows') = LastOn(page, all) /\ (page > 1 => total = Len(all))
    BY <2>2 DEF AgencyAgrees, LastOn
  <2>6. \A i \in 1..Len(rows) : rows[i].site = account[i].n
    <3>1. CASE page = 1
      <4>1. Len(rows) = 0
        BY <1>1, <3>1
      <4>. QED BY <4>1
    <3>2. CASE page > 1
      <4>1. PICK a \in {account, before} :
              total = Len(a) /\ Len(rows) <= Len(a) /\ \A i \in DOMAIN rows : rows[i].site = a[i].n
        BY <1>2, <1>3, <3>2 DEF AgencyInOrder
      <4>2. Len(a) = Len(account)
        BY <2>4, <2>5, <3>2, <4>1
      <4>3. \A i \in DOMAIN account : account[i].n = a[i].n
        BY <2>3, <4>2 DEF SameSites
      <4>4. DOMAIN rows = 1..Len(rows) /\ DOMAIN account = 1..Len(account) /\ Len(rows) \in Nat
            /\ Len(account) \in Nat
        BY <1>3, <2>3 DEF InventoryTypeOK
      <4>5. \A i \in 1..Len(rows) : i \in 1..Len(account)
        BY <4>1, <4>2, <4>4
      <4>. QED BY <4>1, <4>3, <4>4, <4>5
    <3>. QED BY <1>1, <3>1, <3>2
  <2>7. total' = Len(account)
    BY <1>1, <1>2, <2>4, <2>5
  <2>8. Len(rows') <= Len(account)
    BY <1>0, <1>1, <1>p, <2>4, <2>5, SMTT(30) DEF LastOn
  <2>9. ASSUME NEW i \in 1..Len(rows') PROVE rows'[i].site = account[i].n
    <3>1. CASE i \in 1..Len(rows)
      BY <1>1, <2>6, <3>1
    <3>2. CASE i \notin 1..Len(rows)
      <4>. DEFINE j == i - m
      <4>. HIDE DEF all, items, m
      <4>1. j \in 1..Len(items) /\ m + j = i
        BY <1>1, <3>2 DEF m
      <4>2. rows'[i] = all[i] /\ i \in 1..Len(all)
        <5>1. rows'[m + j] = items[j]
          BY <1>1, <4>1
        <5>2. items[j] = all[m + j] /\ m + j \in 1..Len(all)
          BY <2>2, <4>1
        <5>. QED BY <4>1, <5>1, <5>2
      <4>3. all[i].site = account[i].n
        <5>1. i \in 1..Len(account) /\ all[i] = RowOf(account[i], "live")
          BY <2>4, <4>2
        <5>. QED BY <5>1 DEF RowOf
      <4>. QED BY <4>2, <4>3
    <3>. QED BY <3>1, <3>2
  <2>10. inventoryAt' # "pages" => Len(rows') = Len(account)
    BY <1>4, <2>2, <2>4
  <2>. QED BY <2>7, <2>8, <2>9, <2>10
<1>10. ListingRead'
  <2>1. listing \in Seq(SUBSET Environments) /\ Len(listing) <= Len(rows)
    BY <1>3 DEF InventoryTypeOK
  <2>2. \A i \in DOMAIN listing : i \in 1..Len(rows)
    BY <1>1, <2>1
  <2>3. \A i \in DOMAIN listing : rows'[i] = rows[i]
    BY <1>1, <2>2
  <2>. QED BY <1>2, <1>3, <1>4, <2>3 DEF ListingRead
<1>11. IdsMade'
  BY <1>2, <1>3 DEF IdsMade
<1>12. (lister.provider # "hostinger" => IdsFit)'
  BY <1>2, <1>3 DEF IdsFit
<1>. QED BY <1>5, <1>6, <1>7, <1>8, <1>9, <1>10, <1>11, <1>12 DEF InventoryInv

\* A page or a detail cannot be read.
LEMMA ListingFailsKeeps == InventoryInv /\ ListingFails => InventoryInv'
<1>. SUFFICES ASSUME InventoryInv, ListingFails PROVE InventoryInv'
  OBVIOUS
<1>1. /\ UNCHANGED <<lister, account, before, page, total, rows, listing, shown, address>>
      /\ inventoryAt' = "failed"
  BY DEF ListingFails
<1>2. InventoryTypeOK' /\ AccountKept'
  BY <1>1 DEF InventoryInv, InventoryTypeOK, AccountKept, SameSites, Distinct
<1>3. PagesFull' /\ RowsInOrder' /\ AgencyInOrder' /\ ListingRead'
  BY <1>1 DEF PagesFull, RowsInOrder, AgencyInOrder, ListingRead
<1>4. IdsMade' /\ (lister.provider # "hostinger" => IdsFit)'
  BY <1>1 DEF InventoryInv, IdsMade, IdsFit
<1>. QED BY <1>2, <1>3, <1>4 DEF InventoryInv

\* The details of a listed item are read.
LEMMA ReadDetailsKeeps == InventoryInv /\ ReadDetails => InventoryInv'
<1>. SUFFICES ASSUME InventoryInv, ReadDetails PROVE InventoryInv'
  OBVIOUS
<1>. DEFINE line == rows[Len(listing) + 1]
<1>1. /\ UNCHANGED <<lister, account, before, page, total, rows, shown, address>>
      /\ inventoryAt \in {"pages", "details"} /\ Len(listing) < Len(rows)
      /\ \/ inventoryAt' = "failed" /\ UNCHANGED listing
         \/ inventoryAt' = inventoryAt /\ listing' = Append(listing, Read(lister, account, line))
  BY DEF ReadDetails
<1>2. CASE inventoryAt' = "failed" /\ UNCHANGED listing
  <2>1. InventoryTypeOK' /\ AccountKept'
    BY <1>1, <1>2 DEF InventoryInv, InventoryTypeOK, AccountKept, SameSites, Distinct
  <2>2. PagesFull' /\ RowsInOrder' /\ AgencyInOrder' /\ ListingRead'
    BY <1>2 DEF PagesFull, RowsInOrder, AgencyInOrder, ListingRead
  <2>3. IdsMade' /\ (lister.provider # "hostinger" => IdsFit)'
    BY <1>1, <1>2 DEF InventoryInv, IdsMade, IdsFit
  <2>. QED BY <2>1, <2>2, <2>3 DEF InventoryInv
<1>3. CASE inventoryAt' = inventoryAt /\ listing' = Append(listing, Read(lister, account, line))
  <2>1. /\ listing \in Seq(SUBSET Environments) /\ rows \in Seq(SiteRows)
        /\ lister.provider \in Providers /\ shown \in SUBSET Environments
    BY InventoryAssumption DEF InventoryInv, InventoryTypeOK
  <2>2. Len(listing) \in Nat /\ Len(rows) \in Nat /\ line \in SiteRows
    BY <1>1, <2>1
  <2>3. /\ Read(lister, account, line) \in SUBSET Environments
        /\ \A env \in Read(lister, account, line) :
             env = Environment(lister, env.of.site, env.of.role) /\ env.of.role \in RoleNames
    BY <2>1, <2>2, ReadMakes
  <2>4. /\ listing' \in Seq(SUBSET Environments) /\ Len(listing') = Len(listing) + 1
        /\ \A i \in 1..Len(listing) : listing'[i] = listing[i]
        /\ listing'[Len(listing) + 1] = Read(lister, account, line)
    <3>. HIDE DEF line
    <3>. QED BY <1>3, <2>1, <2>3, AppendProperties
  <2>5. Len(listing') <= Len(rows)
    BY <1>1, <2>2, <2>4
  <2>6. InventoryTypeOK' /\ AccountKept'
    <3>1. InventoryTypeOK'
      BY <1>1, <1>3, <2>4, <2>5 DEF InventoryInv, InventoryTypeOK
    <3>2. AccountKept'
      BY <1>1 DEF InventoryInv, AccountKept, SameSites, Distinct
    <3>. QED BY <3>1, <3>2
  <2>7. PagesFull' /\ RowsInOrder' /\ AgencyInOrder'
    BY <1>1, <1>3 DEF InventoryInv, PagesFull, RowsInOrder, AgencyInOrder
  <2>8. ListingRead'
    <3>. SUFFICES ASSUME account = before \/ lister.provider = "agency"
                  PROVE  \A i \in DOMAIN listing' : listing'[i] = Read(lister, account, rows[i])
      BY <1>1, <1>3 DEF ListingRead
    <3>. SUFFICES ASSUME NEW i \in DOMAIN listing'
                  PROVE  listing'[i] = Read(lister, account, rows[i])
      OBVIOUS
    <3>1. DOMAIN listing = 1..Len(listing) /\ DOMAIN listing' = 1..Len(listing) + 1
      BY <2>1, <2>4
    <3>2. CASE i = Len(listing) + 1
      BY <2>4, <3>2
    <3>3. CASE i \in 1..Len(listing)
      <4>1. listing[i] = Read(lister, account, rows[i])
        BY <1>1, <3>1, <3>3 DEF InventoryInv, ListingRead
      <4>. QED BY <2>4, <3>3, <4>1
    <3>. QED BY <2>2, <3>1, <3>2, <3>3
  <2>9. IdsMade'
    <3>. SUFFICES ASSUME lister.provider # "hostinger", NEW env \in shown \cup UNION Range(listing')
                  PROVE  env = Environment(lister, env.of.site, env.of.role) /\ env.of.role \in RoleNames
      BY <1>1 DEF IdsMade
    <3>1. \A e \in shown \cup UNION Range(listing) :
            e = Environment(lister, e.of.site, e.of.role) /\ e.of.role \in RoleNames
      BY DEF InventoryInv, IdsMade
    <3>2. CASE env \in shown
      BY <3>1, <3>2
    <3>3. CASE env \in UNION Range(listing')
      <4>1. PICK i \in 1..Len(listing') : env \in listing'[i]
        BY <2>4, <3>3, InRange
      <4>2. CASE i = Len(listing) + 1
        BY <2>3, <2>4, <4>1, <4>2
      <4>3. CASE i \in 1..Len(listing)
        <5>1. env \in listing[i]
          BY <2>4, <4>1, <4>3
        <5>2. env \in UNION Range(listing)
          BY <2>1, <4>3, <5>1, InRange
        <5>. QED BY <3>1, <5>2
      <4>. QED BY <2>2, <2>4, <4>1, <4>2, <4>3
    <3>. QED BY <3>2, <3>3
  <2>10. (lister.provider # "hostinger" => IdsFit)'
    BY <1>1 DEF InventoryInv, IdsFit
  <2>. QED BY <2>6, <2>7, <2>8, <2>9, <2>10 DEF InventoryInv
<1>. QED BY <1>1, <1>2, <1>3

\* The inventory is shown.
LEMMA ShowKeeps == InventoryInv /\ Show => InventoryInv'
<1>. SUFFICES ASSUME InventoryInv, Show PROVE InventoryInv'
  OBVIOUS
<1>1. /\ UNCHANGED <<lister, account, before, page, total, rows, shown, address>>
      /\ inventoryAt = "details" /\ inventoryAt' = "listed" /\ Len(listing) = Len(rows)
      /\ listing' = Folded(lister.provider, listing)
  BY DEF Show
<1>2. listing \in Seq(SUBSET Environments) /\ rows \in Seq(SiteRows) /\ Len(listing) \in Nat
  BY DEF InventoryInv, InventoryTypeOK
<1>3. /\ listing' \in Seq(SUBSET Environments) /\ Len(listing') <= Len(listing)
      /\ \A i \in DOMAIN listing' : \E k \in 1..Len(listing) : listing'[i] = listing[k]
  BY <1>1, <1>2, FoldedFits
<1>4. InventoryTypeOK'
  BY <1>1, <1>3 DEF InventoryInv, InventoryTypeOK
<1>5. AccountKept'
  BY <1>1 DEF InventoryInv, AccountKept, SameSites, Distinct
<1>6. PagesFull' /\ RowsInOrder' /\ AgencyInOrder'
  BY <1>1 DEF InventoryInv, PagesFull, RowsInOrder, AgencyInOrder
<1>7. ListingRead'
  <2>. SUFFICES ASSUME account = before \/ lister.provider = "agency"
                PROVE  listing = [i \in DOMAIN rows |-> Read(lister, account, rows[i])]
    BY <1>1 DEF ListingRead
  <2>1. \A i \in DOMAIN listing : listing[i] = Read(lister, account, rows[i])
    BY <1>1 DEF InventoryInv, ListingRead
  <2>2. DOMAIN listing = DOMAIN rows /\ listing = [i \in DOMAIN listing |-> listing[i]]
    BY <1>1, <1>2
  <2>. QED BY <2>1, <2>2
<1>8. IdsMade'
  <2>. SUFFICES ASSUME lister.provider # "hostinger", NEW env \in shown \cup UNION Range(listing')
                PROVE  env = Environment(lister, env.of.site, env.of.role) /\ env.of.role \in RoleNames
    BY <1>1 DEF IdsMade
  <2>1. \A e \in shown \cup UNION Range(listing) :
          e = Environment(lister, e.of.site, e.of.role) /\ e.of.role \in RoleNames
    BY DEF InventoryInv, IdsMade
  <2>2. CASE env \in UNION Range(listing')
    <3>1. PICK i \in 1..Len(listing') : env \in listing'[i]
      BY <1>3, <2>2, InRange
    <3>2. PICK k \in 1..Len(listing) : listing'[i] = listing[k]
      BY <1>3, <3>1
    <3>3. env \in UNION Range(listing)
      BY <1>2, <3>1, <3>2, InRange
    <3>. QED BY <2>1, <3>3
  <2>. QED BY <2>1, <2>2
<1>9. (lister.provider # "hostinger" => IdsFit)'
  BY <1>1 DEF InventoryInv, IdsFit
<1>. QED BY <1>4, <1>5, <1>6, <1>7, <1>8, <1>9 DEF InventoryInv

\* A site of the inventory is opened.
LEMMA OpenSiteKeeps == InventoryInv /\ OpenSite => InventoryInv'
<1>. SUFFICES ASSUME InventoryInv, OpenSite PROVE InventoryInv'
  OBVIOUS
<1>1. /\ UNCHANGED <<lister, account, before, page, total, rows, listing, inventoryAt, address>>
      /\ inventoryAt = "listed"
  BY DEF OpenSite
<1>2. PICK i \in DOMAIN account :
        shown' = IF lister.provider = "hostinger"
                 THEN {[id |-> InstallationId(account[i].n, r), of |-> Part(account[i].n, r)] :
                         r \in Roles(account[i])}
                 ELSE Read(lister, account, RowOf(account[i], "live"))
  BY DEF OpenSite
<1>3. account \in Seq(Sites) /\ account[i] \in Sites /\ lister.provider \in Providers
  BY InventoryAssumption DEF InventoryInv, InventoryTypeOK
<1>4. RowOf(account[i], "live") \in SiteRows /\ Roles(account[i]) \subseteq RoleNames /\ account[i].n \in Nat
  BY <1>3 DEF RowOf, SiteRows, Sites, RoleNames, Roles
<1>5. /\ shown' \in SUBSET Environments
      /\ lister.provider # "hostinger" => \A env \in shown' :
           env = Environment(lister, env.of.site, env.of.role) /\ env.of.role \in RoleNames
  <2>1. CASE lister.provider # "hostinger"
    BY <1>2, <1>3, <1>4, <2>1, ReadMakes
  <2>2. CASE lister.provider = "hostinger"
    <3>1. \A n \in Nat : \A r \in RoleNames :
            [id |-> <<[site |-> n, role |-> r]>>, of |-> [site |-> n, role |-> r]] \in Environments
      BY DEF Environments, PartNames
    <3>2. shown' = {[id |-> <<[site |-> account[i].n, role |-> r]>>, of |-> [site |-> account[i].n, role |-> r]] :
                      r \in Roles(account[i])}
      BY <1>2, <2>2 DEF InstallationId, Part
    <3>3. \A x \in shown' : x \in Environments
      BY <1>4, <3>1, <3>2
    <3>. QED BY <2>2, <3>3
  <2>. QED BY <2>1, <2>2
<1>6. InventoryTypeOK'
  BY <1>1, <1>5 DEF InventoryInv, InventoryTypeOK
<1>7. AccountKept' /\ PagesFull' /\ RowsInOrder' /\ AgencyInOrder'
  BY <1>1 DEF InventoryInv, AccountKept, SameSites, Distinct, PagesFull, RowsInOrder, AgencyInOrder
<1>8. ListingRead'
  BY <1>1 DEF InventoryInv, ListingRead
<1>9. IdsMade'
  BY <1>1, <1>5 DEF InventoryInv, IdsMade
<1>10. (lister.provider # "hostinger" => IdsFit)'
  BY <1>1 DEF InventoryInv, IdsFit
<1>. QED BY <1>6, <1>7, <1>8, <1>9, <1>10 DEF InventoryInv

\* An identifier that was shown is used.
LEMMA UseIdKeeps == InventoryInv /\ UseId => InventoryInv'
<1>. SUFFICES ASSUME InventoryInv, UseId PROVE InventoryInv'
  OBVIOUS
<1>1. /\ UNCHANGED <<lister, account, before, page, total, rows, listing, inventoryAt, shown>>
      /\ inventoryAt = "listed"
  BY DEF UseId
<1>2. PICK env \in shown \cup UNION Range(listing) :
        address' = {[to |-> to, env |-> env] : to \in RequestTo(lister, env.id)}
  BY DEF UseId
<1>3. lister.provider \in Providers /\ env \in Environments
  <2>1. listing \in Seq(SUBSET Environments) /\ shown \in SUBSET Environments
    BY DEF InventoryInv, InventoryTypeOK
  <2>2. env \in UNION Range(listing) => env \in Environments
    BY <2>1, InRange
  <2>. QED BY <2>1, <2>2, InventoryAssumption DEF InventoryInv, InventoryTypeOK
<1>4. ASSUME lister.provider # "hostinger", NEW a \in address'
      PROVE  a.to = NameOf(lister.provider, a.env.of)
  <2>1. env = Environment(lister, env.of.site, env.of.role) /\ env.of.role \in RoleNames
    BY <1>4 DEF InventoryInv, IdsMade
  <2>2. env.of.site \in Nat
    BY <1>3 DEF Environments
  <2>3. \A to \in RequestTo(lister, Environment(lister, env.of.site, env.of.role).id) :
          to = NameOf(lister.provider, Environment(lister, env.of.site, env.of.role).of)
    BY <1>3, <1>4, <2>1, <2>2, IdsOfEnvironments
  <2>4. \A to \in RequestTo(lister, env.id) : to = NameOf(lister.provider, env.of)
    BY <2>1, <2>3
  <2>. QED BY <1>2, <2>4
<1>5. (lister.provider # "hostinger" => IdsFit)'
  BY <1>1, <1>4 DEF IdsFit
<1>6. InventoryTypeOK'
  BY <1>1 DEF InventoryInv, InventoryTypeOK
<1>7. AccountKept' /\ PagesFull' /\ RowsInOrder' /\ AgencyInOrder'
  BY <1>1 DEF InventoryInv, AccountKept, SameSites, Distinct, PagesFull, RowsInOrder, AgencyInOrder
<1>8. ListingRead' /\ IdsMade'
  BY <1>1 DEF InventoryInv, ListingRead, IdsMade
<1>. QED BY <1>5, <1>6, <1>7, <1>8 DEF InventoryInv

\* Nothing happens to the listing.
LEMMA InventoryRests == InventoryInv /\ UNCHANGED inventoryVars => InventoryInv'
<1>. SUFFICES ASSUME InventoryInv, UNCHANGED inventoryVars PROVE InventoryInv'
  OBVIOUS
<1>1. UNCHANGED <<lister, account, before, page, total, rows, listing, inventoryAt, shown, address>>
  BY DEF inventoryVars
<1>2. InventoryTypeOK' /\ AccountKept' /\ PagesFull' /\ RowsInOrder' /\ AgencyInOrder'
  BY <1>1 DEF InventoryInv, InventoryTypeOK, AccountKept, SameSites, Distinct, PagesFull, RowsInOrder,
              AgencyInOrder
<1>3. ListingRead' /\ IdsMade' /\ (lister.provider # "hostinger" => IdsFit)'
  BY <1>1 DEF InventoryInv, ListingRead, IdsMade, IdsFit
<1>. QED BY <1>2, <1>3 DEF InventoryInv

\* A sequence without its i-th element.
LEMMA RemoveAtFits ==
  ASSUME NEW S, NEW s \in Seq(S), NEW i \in 1..Len(s)
  PROVE  /\ RemoveAt(s, i) \in Seq(S) /\ Len(RemoveAt(s, i)) = Len(s) - 1
         /\ \A k \in 1..Len(s) - 1 : RemoveAt(s, i)[k] = IF k < i THEN s[k] ELSE s[k + 1]
<1>. DEFINE l == SubSeq(s, 1, i - 1)
            r == SubSeq(s, i + 1, Len(s))
<1>1. Len(s) \in Nat /\ \A k \in 1..Len(s) : s[k] \in S
  OBVIOUS
<1>2. l \in Seq(S) /\ Len(l) = i - 1 /\ \A k \in 1..i - 1 : l[k] = s[k]
  <2>1. \A k \in 1..i - 1 : s[k] \in S
    BY <1>1
  <2>2. 1 \in Int /\ i - 1 \in Int
    OBVIOUS
  <2>3. /\ l \in Seq(S) /\ Len(l) = IF 1 <= i - 1 THEN (i - 1) - 1 + 1 ELSE 0
        /\ \A k \in 1..(i - 1) - 1 + 1 : l[k] = s[1 + k - 1]
    BY <2>1, <2>2, SubSeqProperties
  <2>. HIDE DEF l
  <2>. QED BY <1>1, <2>3
<1>3. r \in Seq(S) /\ Len(r) = Len(s) - i /\ \A k \in 1..Len(s) - i : r[k] = s[i + k]
  <2>1. \A k \in i + 1..Len(s) : s[k] \in S
    BY <1>1
  <2>2. i + 1 \in Int /\ Len(s) \in Int
    BY <1>1
  <2>3. /\ r \in Seq(S) /\ Len(r) = IF i + 1 <= Len(s) THEN Len(s) - (i + 1) + 1 ELSE 0
        /\ \A k \in 1..Len(s) - (i + 1) + 1 : r[k] = s[(i + 1) + k - 1]
    BY <2>1, <2>2, SubSeqProperties
  <2>. HIDE DEF r
  <2>4. \A k \in 1..Len(s) - i : r[k] = s[i + k]
    <3>. SUFFICES ASSUME NEW k \in 1..Len(s) - i PROVE r[k] = s[i + k]
      OBVIOUS
    <3>1. (i + 1) + k - 1 = i + k /\ k \in 1..Len(s) - (i + 1) + 1
      BY <1>1
    <3>. QED BY <2>3, <3>1
  <2>. QED BY <1>1, <2>3, <2>4
<1>4. RemoveAt(s, i) = l \o r
  BY DEF RemoveAt
<1>. HIDE DEF l, r
<1>5. /\ l \o r \in Seq(S) /\ Len(l \o r) = Len(l) + Len(r)
      /\ \A k \in 1..Len(l) + Len(r) : (l \o r)[k] = IF k <= Len(l) THEN l[k] ELSE r[k - Len(l)]
  BY <1>2, <1>3, ConcatProperties
<1>6. ASSUME NEW k \in 1..Len(s) - 1 PROVE (l \o r)[k] = IF k < i THEN s[k] ELSE s[k + 1]
  <2>1. k \in 1..Len(l) + Len(r)
    BY <1>1, <1>2, <1>3
  <2>2. CASE k < i
    BY <1>2, <1>5, <2>1, <2>2
  <2>3. CASE k >= i
    <3>1. k - Len(l) \in 1..Len(s) - i /\ i + (k - Len(l)) = k + 1
      BY <1>1, <1>2, <2>3
    <3>2. (l \o r)[k] = r[k - Len(l)]
      BY <1>2, <1>5, <2>1, <2>3
    <3>3. r[k - Len(l)] = s[k + 1]
      BY <1>3, <3>1
    <3>. QED BY <2>3, <3>2, <3>3
  <2>4. k < i \/ k >= i
    BY <1>1
  <2>. QED BY <2>2, <2>3, <2>4
<1>. QED BY <1>1, <1>2, <1>3, <1>4, <1>5, <1>6

\* The account changes while it is read.
LEMMA AccountChangesKeeps == InventoryInv /\ AccountChanges => InventoryInv'
<1>. SUFFICES ASSUME InventoryInv, AccountChanges PROVE InventoryInv'
  OBVIOUS
<1>1. /\ UNCHANGED <<lister, before, page, total, rows, listing, inventoryAt, shown, address>>
      /\ inventoryAt \in {"pages", "details"} /\ account = before
  BY DEF AccountChanges
<1>2. /\ account \in Seq(Sites) /\ Distinct(account) /\ Len(account) \in Nat
      /\ Len(account) <= MaxSites /\ \A i \in 1..Len(account) : account[i].n = i
  BY <1>1, AccountsFit DEF InventoryInv, InventoryTypeOK
<1>0. MaxSites \in Nat /\ DOMAIN account = 1..Len(account)
  BY <1>2, InventoryAssumption
<1>. DEFINE Changed ==
              /\ account' \in Seq(Sites) /\ Distinct(account') /\ Len(account') <= MaxSites + 1
              /\ Len(account') = Len(before) => SameSites(account', before)
              /\ account' # before
<1>3. Changed
  <2>1. CASE account' = Append(account, Site(MaxSites + 1, FALSE))
    <3>. DEFINE s == Site(MaxSites + 1, FALSE)
    <3>1. s \in Sites /\ s.n = MaxSites + 1
      BY <1>0 DEF Site, Sites
    <3>2. /\ account' \in Seq(Sites) /\ Len(account') = Len(account) + 1
          /\ \A i \in 1..Len(account) : account'[i] = account[i]
          /\ account'[Len(account) + 1] = s
      <4>. HIDE DEF s
      <4>1. account \in Seq(Sites)
        BY <1>2
      <4>2. account' = Append(account, s)
        BY <2>1 DEF s
      <4>. QED BY <3>1, <4>1, <4>2, AppendProperties
    <3>3. Len(account') # Len(before)
      BY <1>1, <1>2, <3>2
    <3>4. DOMAIN account' = 1..Len(account) + 1
      BY <3>2
    <3>5. \A i \in 1..Len(account) : account'[i].n = i /\ i # MaxSites + 1
      BY <1>0, <1>2, <3>2
    <3>6. \A i \in 1..Len(account) + 1 : i \in 1..Len(account) \/ i = Len(account) + 1
      BY <1>2
    <3>7. account'[Len(account) + 1].n = MaxSites + 1
      BY <3>1, <3>2
    <3>8. Distinct(account')
      BY <3>4, <3>5, <3>6, <3>7 DEF Distinct
    <3>9. Len(account') <= MaxSites + 1
      BY <1>0, <1>2, <3>2
    <3>10. account' # before
      BY <3>3
    <3>. QED BY <3>2, <3>3, <3>8, <3>9, <3>10
  <2>2. ASSUME NEW i \in DOMAIN account, account' = RemoveAt(account, i) PROVE Changed
    <3>1. /\ account' \in Seq(Sites) /\ Len(account') = Len(account) - 1
          /\ \A k \in 1..Len(account) - 1 :
               account'[k] = IF k < i THEN account[k] ELSE account[k + 1]
      BY <1>0, <1>2, <2>2, RemoveAtFits
    <3>2. Len(account') # Len(before)
      BY <1>1, <1>2, <3>1
    <3>3. DOMAIN account' = 1..Len(account) - 1
      BY <1>2, <3>1
    <3>4. \A k \in 1..Len(account) - 1 : account'[k].n = IF k < i THEN k ELSE k + 1
      BY <1>2, <3>1
    <3>5. Distinct(account')
      BY <1>0, <1>2, <3>3, <3>4 DEF Distinct
    <3>6. Len(account') <= MaxSites + 1
      BY <1>0, <1>2, <3>1
    <3>7. account' # before
      BY <3>2
    <3>. QED BY <3>1, <3>2, <3>5, <3>6, <3>7
  <2>3. ASSUME NEW i \in DOMAIN account, account[i].staging,
               account' = [account EXCEPT ![i].staging = FALSE]
        PROVE  Changed
    <3>1. account[i] \in Sites /\ [account[i] EXCEPT !.staging = FALSE] \in Sites
      <4>1. account[i] \in Sites
        BY <1>2
      <4>2. \A x \in Sites : [x EXCEPT !.staging = FALSE] \in Sites
        BY DEF Sites
      <4>. QED BY <4>1, <4>2
    <3>2. account' = [account EXCEPT ![i] = [account[i] EXCEPT !.staging = FALSE]]
      BY <2>3
    <3>3. account' \in Seq(Sites) /\ Len(account') = Len(account) /\ DOMAIN account' = DOMAIN account
      <4>1. account' \in [1..Len(account) -> Sites]
        BY <1>0, <1>2, <3>1, <3>2
      <4>. QED BY <1>0, <1>2, <4>1
    <3>4. \A k \in DOMAIN account : account'[k].n = account[k].n
      BY <1>0, <1>2, <3>1, <3>2
    <3>5. account'[i].staging = FALSE
      BY <3>1, <3>2 DEF Sites
    <3>6. account' # account
      BY <2>3, <3>5
    <3>7. Distinct(account')
      BY <1>2, <3>3, <3>4 DEF Distinct
    <3>8. SameSites(account', before)
      BY <1>1, <3>3, <3>4 DEF SameSites
    <3>9. Len(account') <= MaxSites + 1
      BY <1>0, <1>2, <3>3
    <3>10. account' # before
      BY <1>1, <3>6
    <3>. QED BY <3>3, <3>7, <3>8, <3>9, <3>10
  <2>. QED BY <2>1, <2>2, <2>3 DEF AccountChanges
<1>4. InventoryTypeOK'
  BY <1>1, <1>3 DEF InventoryInv, InventoryTypeOK
<1>5. AccountKept'
  <2>1. Distinct(account)'
    BY <1>3 DEF Distinct
  <2>2. SameSites(account, before)' \/ Len(account') # Len(before')
    BY <1>1, <1>3 DEF SameSites
  <2>. QED BY <1>3, <2>1, <2>2 DEF AccountKept
<1>6. PagesFull'
  BY <1>1 DEF InventoryInv, PagesFull
<1>7. RowsInOrder'
  BY <1>1, <1>3 DEF RowsInOrder
<1>8. AgencyInOrder'
  <2>. SUFFICES ASSUME lister.provider = "agency", inventoryAt # "failed", page > 1 \/ inventoryAt # "pages"
                PROVE  /\ total = Len(before) /\ Len(rows) <= Len(before)
                       /\ \A i \in DOMAIN rows : rows[i].site = before[i].n
                       /\ inventoryAt # "pages" => Len(rows) = Len(before)
    BY <1>1 DEF AgencyInOrder
  <2>. QED BY <1>1 DEF InventoryInv, AgencyInOrder
<1>9. ListingRead'
  <2>. SUFFICES ASSUME lister.provider = "agency"
                PROVE  \A i \in DOMAIN listing : listing[i] = Read(lister, account', rows[i])
    BY <1>1, <1>3 DEF ListingRead
  <2>1. \A i \in DOMAIN listing : listing[i] = Read(lister, account, rows[i])
    BY <1>1 DEF InventoryInv, ListingRead
  <2>2. \A line : Read(lister, account, line) = AgencySite(lister, line)
    BY DEF Read
  <2>3. \A line : Read(lister, account', line) = AgencySite(lister, line)
    BY DEF Read
  <2>. QED BY <2>1, <2>2, <2>3
<1>10. IdsMade'
  BY <1>1 DEF InventoryInv, IdsMade
<1>11. (lister.provider # "hostinger" => IdsFit)'
  BY <1>1 DEF InventoryInv, IdsFit
<1>. QED BY <1>4, <1>5, <1>6, <1>7, <1>8, <1>9, <1>10, <1>11 DEF InventoryInv

\* Every step of a listing keeps its invariant.
LEMMA InventorySteps == InventoryInv /\ [InventoryNext]_inventoryVars => InventoryInv'
BY ListingFailsKeeps, ReadPageKeeps, ReadDetailsKeeps, ShowKeeps, OpenSiteKeeps, UseIdKeeps,
   AccountChangesKeeps, InventoryRests DEF InventoryNext

-----------------------------------------------------------------------------
(* What a finished listing shows.                                          *)

\* The roles of each site that the entries of a listing show.
Shows(list, c, site, roles) ==
  \A i \in 1..Len(list) : list[i] = {Environment(c, site[i], r) : r \in roles[i]}

\* What a list shows, and when it shows nothing twice.
LEMMA ShownInstallations ==
  ASSUME NEW S, NEW list \in Seq(S), NEW c, NEW site, NEW roles, Shows(list, c, site, roles)
  PROVE  /\ \A x : x \in AllShown(list) <=> \E i \in 1..Len(list) : \E r \in roles[i] : x = Part(site[i], r)
         /\ (\A i, j \in 1..Len(list) : i # j => site[i] # site[j] \/ roles[i] \cap roles[j] = {})
              => ShowsOnce(list)
<1>1. DOMAIN list = 1..Len(list)
  OBVIOUS
<1>2. ASSUME NEW i \in 1..Len(list), NEW x
      PROVE  x \in {env.of : env \in list[i]} <=> \E r \in roles[i] : x = Part(site[i], r)
  <2>1. \A r : Environment(c, site[i], r).of = Part(site[i], r)
    BY DEF Environment
  <2>. QED BY <2>1 DEF Shows
<1>3. \A m, r : Part(m, r).site = m /\ Part(m, r).role = r
  BY DEF Part
<1>4. ASSUME \A i, j \in 1..Len(list) : i # j => site[i] # site[j] \/ roles[i] \cap roles[j] = {}
      PROVE  ShowsOnce(list)
  <2>. SUFFICES ASSUME NEW i \in 1..Len(list), NEW j \in 1..Len(list), i # j, NEW x,
                       x \in {env.of : env \in list[i]}, x \in {env.of : env \in list[j]}
                PROVE  FALSE
    BY <1>1 DEF ShowsOnce
  <2>1. site[i] # site[j] \/ roles[i] \cap roles[j] = {}
    BY <1>4
  <2>2. PICK r \in roles[i] : x = Part(site[i], r)
    BY <1>2
  <2>3. PICK t \in roles[j] : x = Part(site[j], t)
    BY <1>2
  <2>4. x.site = site[i] /\ x.role = r
    BY <1>3, <2>2, Zenon
  <2>5. x.site = site[j] /\ x.role = t
    BY <1>3, <2>3, Zenon
  <2>. QED BY <2>1, <2>2, <2>3, <2>4, <2>5
<1>5. ASSUME NEW x
      PROVE  x \in AllShown(list) <=> \E i \in 1..Len(list) : x \in {env.of : env \in list[i]}
  BY <1>1 DEF AllShown
<1>6. ASSUME NEW x
      PROVE  x \in AllShown(list) <=> \E i \in 1..Len(list) : \E r \in roles[i] : x = Part(site[i], r)
  <2>1. \A i \in 1..Len(list) : x \in {env.of : env \in list[i]} <=> \E r \in roles[i] : x = Part(site[i], r)
    BY <1>2
  <2>. QED BY <1>5, <2>1
<1>. QED BY <1>4, <1>6

\* What each site of an account has to show.
ToShow(c, a, x) == \E i \in 1..Len(a) : \E r \in RolesShown(c, Roles(a[i])) : x = Part(a[i].n, r)

\* The installations of an account are those its sites have.
LEMMA InstallationsIn ==
  ASSUME NEW c, NEW a \in Seq(Sites)
  PROVE  \A x : x \in InstallationsOf(c, a) <=> ToShow(c, a, x)
<1>. SUFFICES ASSUME NEW x PROVE x \in InstallationsOf(c, a) <=> ToShow(c, a, x)
  OBVIOUS
<1>1. DOMAIN a = 1..Len(a)
  OBVIOUS
<1>2. x \in InstallationsOf(c, a)
        <=> \E i \in 1..Len(a) : x \in {Part(a[i].n, r) : r \in RolesShown(c, Roles(a[i]))}
  BY <1>1 DEF InstallationsOf
<1>3. \A i \in 1..Len(a) : x \in {Part(a[i].n, r) : r \in RolesShown(c, Roles(a[i]))}
                            <=> \E r \in RolesShown(c, Roles(a[i])) : x = Part(a[i].n, r)
  OBVIOUS
<1>. QED BY <1>2, <1>3 DEF ToShow

\* Where a site is one row, the row shows what there is to show of the site.
LEMMA OneRowShows ==
  ASSUME NEW c, c.provider \in Providers, c.provider \notin OwnRows, NEW a, Distinct(a),
         a \in Seq(Sites), NEW i \in 1..Len(a)
  PROVE  ReadRoles(c, a, RowOf(a[i], "live")) = RolesShown(c, Roles(a[i]))
<1>. DEFINE line == RowOf(a[i], "live")
<1>1. line.site = a[i].n /\ line.roles = Roles(a[i])
  BY DEF RowOf
<1>2. RolesNow(a, line.site) = Roles(a[i])
  BY <1>1, RolesAtRest
<1>3. {"live"} \cup (Roles(a[i]) \cap {"staging"}) = Roles(a[i])
  BY DEF Roles
<1>. HIDE DEF line
<1>. QED BY <1>1, <1>2, <1>3 DEF ReadRoles, RolesShown, OwnRows, Providers, line

\* A client that lists sites shows the account's installations, each once.
LEMMA SitesShowOnce ==
  ASSUME InventoryInv, inventoryAt = "listed", account = before,
         lister.provider \notin OwnRows, lister.provider # "pantheon"
  PROVE  AllShown(listing) = InstallationsOf(lister, account) /\ ShowsOnce(listing)
<1>. DEFINE N == Len(account)
            site == [i \in 1..N |-> account[i].n]
            roles == [i \in 1..N |-> RolesShown(lister, Roles(account[i]))]
<1>1. /\ account \in Seq(Sites) /\ Distinct(account) /\ lister.provider \in Providers
      /\ listing \in Seq(SUBSET Environments) /\ N \in Nat /\ DOMAIN account = 1..N
  BY InventoryAssumption DEF InventoryInv, InventoryTypeOK, AccountKept
<1>2. rows = ApiRows(lister.provider, account)
  BY DEF InventoryInv, RowsInOrder
<1>3. rows \in Seq(SiteRows) /\ Len(rows) = N /\ \A i \in 1..N : rows[i] = RowOf(account[i], "live")
  BY <1>1, <1>2, RowsOfAccount
<1>4. listing = [i \in DOMAIN rows |-> Read(lister, account, rows[i])]
  <2>1. lister.provider # "xcloud"
    BY DEF OwnRows
  <2>. QED BY <2>1 DEF InventoryInv, ListingRead, Folded
<1>5. DOMAIN rows = 1..N /\ Len(listing) = N
  BY <1>1, <1>3, <1>4
<1>6. Shows(listing, lister, site, roles)
  <2>. SUFFICES ASSUME NEW i \in 1..N
                PROVE  listing[i] = {Environment(lister, site[i], r) : r \in roles[i]}
    BY <1>5 DEF Shows
  <2>1. listing[i] = Showing(lister, rows[i], ReadRoles(lister, account, rows[i]))
    BY <1>1, <1>4, <1>5, ReadShows
  <2>2. rows[i].site = site[i] /\ ReadRoles(lister, account, rows[i]) = roles[i]
    <3>1. rows[i] = RowOf(account[i], "live")
      BY <1>3
    <3>2. RowOf(account[i], "live").site = account[i].n
      BY DEF RowOf
    <3>. QED BY <1>1, <3>1, <3>2, OneRowShows
  <2>. QED BY <2>1, <2>2 DEF Showing
<1>. HIDE DEF N
<1>7. \A i, j \in 1..Len(listing) : i # j => site[i] # site[j] \/ roles[i] \cap roles[j] = {}
  BY <1>1, <1>5 DEF Distinct
<1>. HIDE DEF site, roles
<1>8. ShowsOnce(listing)
  BY <1>1, <1>6, <1>7, ShownInstallations
<1>9. \A x : x \in AllShown(listing) <=> \E i \in 1..N : \E r \in roles[i] : x = Part(site[i], r)
  BY <1>1, <1>5, <1>6, ShownInstallations
<1>10. ASSUME NEW x
       PROVE  ToShow(lister, account, x) <=> \E i \in 1..N : \E r \in roles[i] : x = Part(site[i], r)
  <2>1. \A i \in 1..N : site[i] = account[i].n /\ roles[i] = RolesShown(lister, Roles(account[i]))
    BY DEF site, roles
  <2>. QED BY <2>1, ZenonT(60) DEF ToShow, N
<1>11. AllShown(listing) = InstallationsOf(lister, account)
  <2>1. \A y : y \in InstallationsOf(lister, account) <=> ToShow(lister, account, y)
    BY <1>1, InstallationsIn
  <2>2. \A x : x \in AllShown(listing) <=> x \in InstallationsOf(lister, account)
    BY <1>9, <1>10, <2>1
  <2>. QED BY <2>2
<1>. QED BY <1>8, <1>11

\* So does a client that lists installations.
LEMMA InstallationsShowOnce ==
  ASSUME InventoryInv, inventoryAt = "listed", account = before,
         lister.provider \in OwnRows, lister.provider # "xcloud"
  PROVE  AllShown(listing) = InstallationsOf(lister, account) /\ ShowsOnce(listing)
<1>. DEFINE all == ApiRows(lister.provider, account)
            N == Len(all)
            site == [k \in 1..N |-> all[k].site]
            roles == [k \in 1..N |-> {all[k].role}]
<1>1. /\ account \in Seq(Sites) /\ Distinct(account) /\ lister.provider \in Providers
      /\ listing \in Seq(SUBSET Environments) /\ DOMAIN account = 1..Len(account)
  BY InventoryAssumption DEF InventoryInv, InventoryTypeOK, AccountKept
<1>2. /\ all \in Seq(SiteRows)
      /\ \A k \in 1..N : \E i \in 1..Len(account) : \E r \in Roles(account[i]) : all[k] = RowOf(account[i], r)
      /\ \A i \in 1..Len(account) : \A r \in Roles(account[i]) : \E k \in 1..N : all[k] = RowOf(account[i], r)
      /\ \A k, l \in 1..N : k # l => all[k].site # all[l].site \/ all[k].role # all[l].role
  BY <1>1, OwnRowsOfAccount, ZenonT(60)
<1>3. rows = all
  BY DEF InventoryInv, RowsInOrder, OwnRows
<1>. HIDE DEF all
<1>4. listing = [i \in DOMAIN rows |-> Read(lister, account, rows[i])]
  BY DEF InventoryInv, ListingRead, Folded
<1>5. N \in Nat /\ DOMAIN rows = 1..N /\ Len(listing) = N
  BY <1>2, <1>3, <1>4
<1>6. Shows(listing, lister, site, roles)
  <2>. SUFFICES ASSUME NEW k \in 1..N
                PROVE  listing[k] = {Environment(lister, site[k], r) : r \in roles[k]}
    BY <1>5 DEF Shows
  <2>1. listing[k] = Showing(lister, all[k], ReadRoles(lister, account, all[k]))
    BY <1>1, <1>3, <1>4, <1>5, ReadShows
  <2>2. ReadRoles(lister, account, all[k]) = {all[k].role}
    BY DEF ReadRoles, OwnRows
  <2>. QED BY <2>1, <2>2 DEF Showing
<1>. HIDE DEF N
<1>7. \A k, l \in 1..Len(listing) : k # l => site[k] # site[l] \/ roles[k] \cap roles[l] = {}
  BY <1>2, <1>5
<1>8. ShowsOnce(listing)
  <2>. HIDE DEF site, roles
  <2>. QED BY <1>1, <1>6, <1>7, ShownInstallations
<1>9. \A x : x \in AllShown(listing) <=> \E k \in 1..N : \E r \in roles[k] : x = Part(site[k], r)
  <2>. HIDE DEF site, roles
  <2>. QED BY <1>1, <1>5, <1>6, ShownInstallations
<1>10. \A x : x \in AllShown(listing) <=> \E k \in 1..N : x = Part(all[k].site, all[k].role)
  BY <1>9
<1>11. \A s, r : RowOf(s, r).site = s.n /\ RowOf(s, r).role = r
  BY DEF RowOf
<1>12. \A roleset : RolesShown(lister, roleset) = roleset
  BY DEF RolesShown, OwnRows
<1>13. ASSUME NEW x
       PROVE  x \in InstallationsOf(lister, account)
                <=> \E i \in 1..Len(account) : \E r \in Roles(account[i]) : x = Part(account[i].n, r)
  <2>1. \A y : y \in InstallationsOf(lister, account) <=> ToShow(lister, account, y)
    BY <1>1, InstallationsIn
  <2>2. \A i \in 1..Len(account) : RolesShown(lister, Roles(account[i])) = Roles(account[i])
    BY <1>12
  <2>3. ToShow(lister, account, x)
          <=> \E i \in 1..Len(account) : \E r \in Roles(account[i]) : x = Part(account[i].n, r)
    <3>1. \A i \in 1..Len(account) :
            (\E r \in RolesShown(lister, Roles(account[i])) : x = Part(account[i].n, r))
              <=> \E r \in Roles(account[i]) : x = Part(account[i].n, r)
      BY <2>2, Zenon
    <3>2. ASSUME ToShow(lister, account, x)
          PROVE  \E i \in 1..Len(account) : \E r \in Roles(account[i]) : x = Part(account[i].n, r)
      <4>1. PICK i \in 1..Len(account) :
              \E r \in RolesShown(lister, Roles(account[i])) : x = Part(account[i].n, r)
        BY <3>2, Zenon DEF ToShow
      <4>. QED BY <4>1, <3>1, Zenon
    <3>3. ASSUME \E i \in 1..Len(account) : \E r \in Roles(account[i]) : x = Part(account[i].n, r)
          PROVE  ToShow(lister, account, x)
      <4>1. PICK i \in 1..Len(account) : \E r \in Roles(account[i]) : x = Part(account[i].n, r)
        BY <3>3, Zenon
      <4>. QED BY <3>1, <4>1, Zenon DEF ToShow
    <3>. QED BY <3>2, <3>3, Zenon
  <2>4. x \in InstallationsOf(lister, account) <=> ToShow(lister, account, x)
    BY <2>1
  <2>. QED BY <2>3, <2>4, Zenon
<1>14. \A x : x \in AllShown(listing) <=> x \in InstallationsOf(lister, account)
  <2>1. ASSUME NEW x \in AllShown(listing) PROVE x \in InstallationsOf(lister, account)
    <3>1. PICK k \in 1..N : x = Part(all[k].site, all[k].role)
      BY <1>10
    <3>2. PICK i \in 1..Len(account) : \E r \in Roles(account[i]) : all[k] = RowOf(account[i], r)
      BY <1>2
    <3>3. PICK r \in Roles(account[i]) : all[k] = RowOf(account[i], r)
      BY <3>2
    <3>4. x = Part(account[i].n, r)
      BY <1>11, <3>1, <3>3
    <3>. QED BY <1>13, <3>4
  <2>2. ASSUME NEW x \in InstallationsOf(lister, account) PROVE x \in AllShown(listing)
    <3>1. PICK i \in 1..Len(account) : \E r \in Roles(account[i]) : x = Part(account[i].n, r)
      BY <1>13
    <3>2. PICK r \in Roles(account[i]) : x = Part(account[i].n, r)
      BY <3>1
    <3>3. PICK k \in 1..N : all[k] = RowOf(account[i], r)
      BY <1>2
    <3>. QED BY <1>10, <1>11, <3>2, <3>3
  <2>. QED BY <2>1, <2>2
<1>. QED BY <1>8, <1>14

\* Of a site's rows, xCloud's live one shows the whole site.
LEMMA XCloudListing ==
  ASSUME NEW c, c.provider = "xcloud", NEW a \in Seq(Sites), Distinct(a)
  PROVE  \A i \in 1..Len(a) : \A r \in Roles(a[i]) :
           /\ r = "live" => ReadRoles(c, a, RowOf(a[i], r)) = Roles(a[i])
           /\ r # "live" => /\ ReadRoles(c, a, RowOf(a[i], r)) \subseteq Roles(a[i])
                          /\ "live" \notin ReadRoles(c, a, RowOf(a[i], r))
<1>. SUFFICES ASSUME NEW i \in 1..Len(a), NEW r \in Roles(a[i])
              PROVE  /\ r = "live" => ReadRoles(c, a, RowOf(a[i], r)) = Roles(a[i])
                     /\ r # "live" => /\ ReadRoles(c, a, RowOf(a[i], r)) \subseteq Roles(a[i])
                          /\ "live" \notin ReadRoles(c, a, RowOf(a[i], r))
  OBVIOUS
<1>. DEFINE line == RowOf(a[i], r)
<1>1. line.site = a[i].n /\ line.role = r
  BY DEF RowOf
<1>2. RolesNow(a, line.site) = Roles(a[i])
  BY <1>1, RolesAtRest
<1>3. r \in {"live", "staging"} /\ "live" \in Roles(a[i])
  BY DEF Roles
<1>. HIDE DEF line
<1>4. ReadRoles(c, a, line) = {r} \cup IF r = "staging" THEN {} ELSE Roles(a[i])
  BY <1>1, <1>2 DEF ReadRoles, OwnRows
<1>. QED BY <1>3, <1>4 DEF line

\* One row's environments are another's only when the site is the same.
LEMMA ShowingWithin ==
  ASSUME NEW c, NEW x, NEW y, NEW xs, NEW ys, NEW r \in xs, Showing(c, x, xs) \subseteq Showing(c, y, ys)
  PROVE  x.site = y.site /\ r \in ys
<1>1. Environment(c, x.site, r) \in Showing(c, y, ys)
  BY DEF Showing
<1>2. PICK t \in ys : Environment(c, x.site, r) = Environment(c, y.site, t)
  BY <1>1 DEF Showing
<1>3. Part(x.site, r) = Part(y.site, t)
  BY <1>2 DEF Environment
<1>4. Part(x.site, r).site = Part(y.site, t).site /\ Part(x.site, r).role = Part(y.site, t).role
  BY <1>3
<1>5. \A m, q : Part(m, q).site = m /\ Part(m, q).role = q
  BY DEF Part
<1>6. x.site = y.site /\ r = t
  BY <1>4, <1>5
<1>. QED BY <1>6

\* The copies are folded, the live installations stay.
LEMMA XCloudKeepsLive ==
  ASSUME NEW c, c.provider = "xcloud", NEW a \in Seq(Sites), Distinct(a),
         NEW all, all = ApiRows("xcloud", a)
  PROVE  LET whole == [k \in DOMAIN all |-> Read(c, a, all[k])] IN
         \A k \in DOMAIN all :
           (\A i \in DOMAIN all : whole[k] \subseteq whole[i] => whole[k] = whole[i])
             <=> all[k].role = "live"
<1>. DEFINE whole == [k \in DOMAIN all |-> Read(c, a, all[k])]
            roles == [k \in DOMAIN all |-> ReadRoles(c, a, all[k])]
<1>1. /\ all \in Seq(SiteRows)
      /\ \A k \in 1..Len(all) : \E i \in 1..Len(a) : \E r \in Roles(a[i]) : all[k] = RowOf(a[i], r)
      /\ \A i \in 1..Len(a) : \A r \in Roles(a[i]) : \E k \in 1..Len(all) : all[k] = RowOf(a[i], r)
      /\ \A k, l \in 1..Len(all) : k # l => all[k].site # all[l].site \/ all[k].role # all[l].role
  <2>1. "xcloud" \in OwnRows
    BY DEF OwnRows
  <2>. QED BY <2>1, OwnRowsOfAccount, ZenonT(60)
<1>2. DOMAIN all = 1..Len(all)
  BY <1>1
<1>3. \A k \in DOMAIN all : whole[k] = Showing(c, all[k], roles[k])
  <2>1. c.provider \in Providers
    BY DEF Providers
  <2>. QED BY <2>1, ReadShows
<1>4. \A s, r : RowOf(s, r).site = s.n /\ RowOf(s, r).role = r
  BY DEF RowOf
<1>5. ASSUME NEW k \in DOMAIN all
      PROVE  \E i \in 1..Len(a) : /\ all[k] = RowOf(a[i], all[k].role) /\ all[k].role \in Roles(a[i])
                                  /\ all[k].site = a[i].n
                                  /\ all[k].role = "live" => roles[k] = Roles(a[i])
                                  /\ all[k].role # "live" => /\ roles[k] \subseteq Roles(a[i])
                                                              /\ "live" \notin roles[k]
  <2>0. k \in 1..Len(all)
    BY <1>2
  <2>1. PICK i \in 1..Len(a) : \E r \in Roles(a[i]) : all[k] = RowOf(a[i], r)
    BY <1>1, <2>0
  <2>2. PICK r \in Roles(a[i]) : all[k] = RowOf(a[i], r)
    BY <2>1
  <2>3. all[k].role = r /\ all[k].site = a[i].n
    BY <1>4, <2>2
  <2>4. /\ r = "live" => ReadRoles(c, a, RowOf(a[i], r)) = Roles(a[i])
        /\ r # "live" => /\ ReadRoles(c, a, RowOf(a[i], r)) \subseteq Roles(a[i])
                          /\ "live" \notin ReadRoles(c, a, RowOf(a[i], r))
    BY XCloudListing
  <2>. QED BY <2>2, <2>3, <2>4
<1>6. ASSUME NEW k \in DOMAIN all, all[k].role = "live",
             NEW i \in DOMAIN all, whole[k] \subseteq whole[i]
      PROVE  whole[k] = whole[i]
  <2>1. "live" \in roles[k]
    <3>1. \A s : "live" \in Roles(s)
      BY DEF Roles
    <3>. QED BY <1>5, <1>6, <3>1
  <2>2. all[k].site = all[i].site /\ "live" \in roles[i]
    <3>. HIDE DEF roles, whole
    <3>. QED BY <1>3, <1>6, <2>1, ShowingWithin
  <2>3. all[i].role = "live"
    <3>. HIDE DEF roles
    <3>. QED BY <1>5, <2>2
  <2>4. k = i
    BY <1>1, <1>2, <1>6, <2>2, <2>3
  <2>. QED BY <2>4
<1>7. ASSUME NEW k \in DOMAIN all, all[k].role # "live"
      PROVE  \E i \in DOMAIN all : whole[k] \subseteq whole[i] /\ whole[k] # whole[i]
  <2>1. PICK j \in 1..Len(a) : /\ all[k] = RowOf(a[j], all[k].role) /\ all[k].role \in Roles(a[j])
                               /\ all[k].site = a[j].n
                               /\ roles[k] \subseteq Roles(a[j]) /\ "live" \notin roles[k]
    <3>. HIDE DEF roles
    <3>. QED BY <1>5, <1>7
  <2>2. "live" \in Roles(a[j])
    BY DEF Roles
  <2>3. PICK i \in 1..Len(all) : all[i] = RowOf(a[j], "live")
    BY <1>1, <2>2
  <2>4. all[i].role = "live" /\ all[i].site = all[k].site
    BY <1>4, <2>1, <2>3
  <2>5. roles[i] = Roles(a[j])
    <3>1. ReadRoles(c, a, RowOf(a[j], "live")) = Roles(a[j])
      BY <2>2, XCloudListing
    <3>. QED BY <1>2, <2>3, <3>1
  <2>6. whole[k] \subseteq whole[i]
    <3>. HIDE DEF roles, whole
    <3>. QED BY <1>2, <1>3, <2>1, <2>4, <2>5 DEF Showing
  <2>7. ~(whole[i] \subseteq whole[k])
    <3>1. "live" \notin roles[k] /\ "live" \in roles[i]
      BY <1>7, <2>1, <2>2, <2>5
    <3>. HIDE DEF roles, whole
    <3>. QED BY <1>2, <1>3, <3>1, ShowingWithin
  <2>. QED BY <1>2, <2>6, <2>7
<1>. HIDE DEF whole
<1>8. \A k \in DOMAIN all :
           (\A i \in DOMAIN all : whole[k] \subseteq whole[i] => whole[k] = whole[i])
             <=> all[k].role = "live"
  BY <1>6, <1>7
<1>. QED BY <1>8 DEF whole

\* So does xCloud, which folds the rows of a site into one.
LEMMA XCloudShowsOnce ==
  ASSUME InventoryInv, inventoryAt = "listed", account = before, lister.provider = "xcloud"
  PROVE  AllShown(listing) = InstallationsOf(lister, account) /\ ShowsOnce(listing)
<1>. DEFINE all == ApiRows("xcloud", account)
            N == Len(all)
            whole == [k \in DOMAIN all |-> Read(lister, account, all[k])]
            kept == {k \in DOMAIN all : all[k].role = "live"}
            f == InOrder(kept)
            M == Cardinality(kept)
            site == [m \in 1..M |-> all[f[m]].site]
            roles == [m \in 1..M |-> ReadRoles(lister, account, all[f[m]])]
<1>1. /\ account \in Seq(Sites) /\ Distinct(account) /\ lister.provider \in Providers
      /\ listing \in Seq(SUBSET Environments) /\ DOMAIN account = 1..Len(account)
  BY InventoryAssumption DEF InventoryInv, InventoryTypeOK, AccountKept
<1>2. /\ all \in Seq(SiteRows)
      /\ \A k \in 1..N : \E i \in 1..Len(account) : \E r \in Roles(account[i]) : all[k] = RowOf(account[i], r)
      /\ \A i \in 1..Len(account) : \A r \in Roles(account[i]) : \E k \in 1..N : all[k] = RowOf(account[i], r)
      /\ \A k, l \in 1..N : k # l => all[k].site # all[l].site \/ all[k].role # all[l].role
  <2>1. "xcloud" \in OwnRows
    BY DEF OwnRows
  <2>. QED BY <1>1, <2>1, OwnRowsOfAccount, ZenonT(60)
<1>3. rows = all
  BY DEF InventoryInv, RowsInOrder, OwnRows
<1>4. \A k \in DOMAIN all : all[k].role = "live" <=>
        \A i \in DOMAIN all : whole[k] \subseteq whole[i] => whole[k] = whole[i]
  BY <1>1, XCloudKeepsLive
<1>. HIDE DEF all
<1>5. N \in Nat /\ DOMAIN all = 1..N /\ kept \in SUBSET (1..N)
  BY <1>2
<1>6. listing = Picked(whole, kept)
  <2>1. listing = Folded("xcloud", whole)
    BY <1>3 DEF InventoryInv, ListingRead
  <2>2. DOMAIN whole = DOMAIN all
    OBVIOUS
  <2>. HIDE DEF whole
  <2>3. kept = {k \in DOMAIN whole : \A i \in DOMAIN whole :
                  whole[k] \subseteq whole[i] => whole[k] = whole[i]}
    BY <1>4, <2>2
  <2>. QED BY <2>1, <2>3 DEF Folded
<1>7. /\ M \in Nat /\ f \in [1..M -> kept]
      /\ \A i, j \in 1..M : f[i] = f[j] => i = j
      /\ \A t \in kept : \E m \in 1..M : f[m] = t
  <2>. HIDE DEF kept
  <2>. QED BY <1>5, PickedInOrder, ZenonT(60)
<1>8. DOMAIN listing = 1..M /\ Len(listing) = M /\ \A m \in 1..M : listing[m] = whole[f[m]]
  <2>. HIDE DEF kept, whole, f, M
  <2>1. listing = [m \in 1..M |-> whole[f[m]]]
    BY <1>6 DEF Picked, f, M
  <2>. QED BY <1>7, <2>1
<1>9. Shows(listing, lister, site, roles)
  <2>. SUFFICES ASSUME NEW m \in 1..M
                PROVE  listing[m] = {Environment(lister, site[m], r) : r \in roles[m]}
    BY <1>8 DEF Shows
  <2>1. f[m] \in DOMAIN all
    BY <1>7
  <2>2. listing[m] = Read(lister, account, all[f[m]])
    BY <1>8, <2>1
  <2>3. listing[m] = Showing(lister, all[f[m]], ReadRoles(lister, account, all[f[m]]))
    BY <1>1, <2>2, ReadShows
  <2>. QED BY <2>3 DEF Showing
<1>10. \A s, r : RowOf(s, r).site = s.n /\ RowOf(s, r).role = r
  BY DEF RowOf
<1>11. \A m, l \in 1..M : m # l => site[m] # site[l]
  <2>. SUFFICES ASSUME NEW m \in 1..M, NEW l \in 1..M, m # l PROVE site[m] # site[l]
    OBVIOUS
  <2>1. f[m] \in kept /\ f[l] \in kept /\ f[m] # f[l]
    BY <1>7
  <2>2. f[m] \in 1..N /\ f[l] \in 1..N /\ all[f[m]].role = all[f[l]].role
    BY <1>5, <2>1
  <2>3. all[f[m]].site # all[f[l]].site
    BY <1>2, <2>1, <2>2
  <2>. QED BY <2>3
<1>12. ASSUME NEW m \in 1..M
       PROVE  \E i \in 1..Len(account) : site[m] = account[i].n /\ roles[m] = Roles(account[i])
  <2>1. f[m] \in 1..N /\ all[f[m]].role = "live"
    BY <1>5, <1>7
  <2>2. PICK i \in 1..Len(account) : \E r \in Roles(account[i]) : all[f[m]] = RowOf(account[i], r)
    BY <1>2, <2>1
  <2>3. PICK r \in Roles(account[i]) : all[f[m]] = RowOf(account[i], r)
    BY <2>2
  <2>4. r = "live" /\ all[f[m]].site = account[i].n
    BY <1>10, <2>1, <2>3
  <2>5. ReadRoles(lister, account, all[f[m]]) = Roles(account[i])
    <3>1. ReadRoles(lister, account, RowOf(account[i], r)) = Roles(account[i])
      BY <1>1, <2>4, XCloudListing
    <3>. QED BY <2>3, <3>1
  <2>. QED BY <2>4, <2>5
<1>13. ASSUME NEW i \in 1..Len(account)
       PROVE  \E m \in 1..M : site[m] = account[i].n /\ roles[m] = Roles(account[i])
  <2>1. "live" \in Roles(account[i])
    BY DEF Roles
  <2>2. PICK k \in 1..N : all[k] = RowOf(account[i], "live")
    BY <1>2, <2>1
  <2>3. k \in kept /\ all[k].site = account[i].n
    BY <1>5, <1>10, <2>2
  <2>4. PICK m \in 1..M : f[m] = k
    BY <1>7, <2>3
  <2>5. ReadRoles(lister, account, all[k]) = Roles(account[i])
    <3>1. ReadRoles(lister, account, RowOf(account[i], "live")) = Roles(account[i])
      BY <1>1, <2>1, XCloudListing
    <3>. QED BY <2>2, <3>1
  <2>. QED BY <2>3, <2>4, <2>5
<1>. HIDE DEF site, roles, M, f, kept, whole, N
<1>14. ShowsOnce(listing)
  BY <1>1, <1>8, <1>9, <1>11, ShownInstallations
<1>15. \A x : x \in AllShown(listing) <=> \E m \in 1..M : \E r \in roles[m] : x = Part(site[m], r)
  BY <1>1, <1>8, <1>9, ShownInstallations
<1>16. \A x : x \in InstallationsOf(lister, account) <=> ToShow(lister, account, x)
  BY <1>1, InstallationsIn
<1>17. \A roleset : RolesShown(lister, roleset) = roleset
  BY DEF RolesShown
<1>18. ASSUME NEW x \in AllShown(listing) PROVE x \in InstallationsOf(lister, account)
  <2>1. PICK m \in 1..M : \E r \in roles[m] : x = Part(site[m], r)
    BY <1>15
  <2>2. PICK r \in roles[m] : x = Part(site[m], r)
    BY <2>1
  <2>3. PICK i \in 1..Len(account) : site[m] = account[i].n /\ roles[m] = Roles(account[i])
    BY <1>12
  <2>4. r \in RolesShown(lister, Roles(account[i])) /\ x = Part(account[i].n, r)
    BY <1>17, <2>2, <2>3
  <2>5. ToShow(lister, account, x)
    BY <2>4, Zenon DEF ToShow
  <2>. QED BY <1>16, <2>5
<1>19. ASSUME NEW x \in InstallationsOf(lister, account) PROVE x \in AllShown(listing)
  <2>1. ToShow(lister, account, x)
    BY <1>16
  <2>2. PICK i \in 1..Len(account) : \E r \in RolesShown(lister, Roles(account[i])) : x = Part(account[i].n, r)
    BY <2>1, Zenon DEF ToShow
  <2>3. PICK r \in RolesShown(lister, Roles(account[i])) : x = Part(account[i].n, r)
    BY <2>2
  <2>4. PICK m \in 1..M : site[m] = account[i].n /\ roles[m] = Roles(account[i])
    BY <1>13
  <2>5. r \in roles[m] /\ x = Part(site[m], r)
    BY <1>17, <2>3, <2>4
  <2>. QED BY <1>15, <2>5
<1>. QED BY <1>14, <1>18, <1>19

\* So does the agency's list, which may be the account's of before.
LEMMA AgencyShowsOnce ==
  ASSUME InventoryInv, inventoryAt = "listed", lister.provider = "agency"
  PROVE  /\ ShowsOnce(listing)
         /\ AllShown(listing) \in {InstallationsOf(lister, account), InstallationsOf(lister, before)}
<1>1. /\ account \in Seq(Sites) /\ Distinct(account) /\ before \in Accounts
      /\ listing \in Seq(SUBSET Environments) /\ rows \in Seq(SiteRows)
  BY DEF InventoryInv, InventoryTypeOK, AccountKept
<1>2. PICK a \in {account, before} :
        Len(rows) = Len(a) /\ \A i \in DOMAIN rows : rows[i].site = a[i].n
  BY DEF InventoryInv, AgencyInOrder
<1>3. a \in Seq(Sites) /\ Distinct(a)
  BY <1>1, AccountsFit
<1>. DEFINE N == Len(a)
            site == [i \in 1..N |-> a[i].n]
            roles == [i \in 1..N |-> {"live"}]
<1>4. N \in Nat /\ DOMAIN rows = 1..N /\ DOMAIN a = 1..N
  BY <1>1, <1>2, <1>3
<1>5. listing = [i \in DOMAIN rows |-> Read(lister, account, rows[i])]
  BY DEF InventoryInv, ListingRead, Folded
<1>6. DOMAIN listing = 1..N /\ Len(listing) = N
  BY <1>1, <1>4, <1>5
<1>7. Shows(listing, lister, site, roles)
  <2>. SUFFICES ASSUME NEW i \in 1..N
                PROVE  listing[i] = {Environment(lister, site[i], r) : r \in roles[i]}
    BY <1>6 DEF Shows
  <2>1. listing[i] = AgencySite(lister, rows[i])
    BY <1>4, <1>5 DEF Read
  <2>2. rows[i].site = site[i]
    BY <1>2, <1>4
  <2>. QED BY <2>1, <2>2 DEF AgencySite, Showing
<1>8. \A i, j \in 1..Len(listing) : i # j => site[i] # site[j]
  BY <1>3, <1>4, <1>6 DEF Distinct
<1>9. \A i \in 1..N : site[i] = a[i].n /\ roles[i] = {"live"}
  OBVIOUS
<1>. HIDE DEF N, site, roles
<1>10. ShowsOnce(listing)
  BY <1>1, <1>7, <1>8, ShownInstallations
<1>11. \A x : x \in AllShown(listing) <=> \E i \in 1..N : \E r \in roles[i] : x = Part(site[i], r)
  BY <1>1, <1>6, <1>7, ShownInstallations
<1>12. \A x : x \in InstallationsOf(lister, a) <=> ToShow(lister, a, x)
  BY <1>3, InstallationsIn
<1>13. \A roleset : RolesShown(lister, roleset) = {"live"}
  BY DEF RolesShown
<1>14. ASSUME NEW x \in AllShown(listing) PROVE x \in InstallationsOf(lister, a)
  <2>1. PICK i \in 1..N : \E r \in roles[i] : x = Part(site[i], r)
    BY <1>11
  <2>2. x = Part(a[i].n, "live")
    BY <1>9, <2>1
  <2>3. "live" \in RolesShown(lister, Roles(a[i]))
    BY <1>13
  <2>4. ToShow(lister, a, x)
    BY <2>2, <2>3, Zenon DEF ToShow, N
  <2>. QED BY <1>12, <2>4
<1>15. ASSUME NEW x \in InstallationsOf(lister, a) PROVE x \in AllShown(listing)
  <2>1. ToShow(lister, a, x)
    BY <1>12
  <2>2. PICK i \in 1..N : \E r \in RolesShown(lister, Roles(a[i])) : x = Part(a[i].n, r)
    BY <2>1, Zenon DEF ToShow, N
  <2>3. PICK r \in RolesShown(lister, Roles(a[i])) : x = Part(a[i].n, r)
    BY <2>2
  <2>4. r = "live"
    BY <1>13, <2>3
  <2>. QED BY <1>9, <1>11, <2>3, <2>4
<1>16. AllShown(listing) = InstallationsOf(lister, a)
  BY <1>14, <1>15
<1>. QED BY <1>2, <1>10, <1>16

\* What the invariant of an inventory means: the listing is whole, the ids go where they should.
LEMMA InventoryInvHonest == InventoryInv => InventoryHonest
<1>. SUFFICES ASSUME InventoryInv PROVE InventoryHonest
  OBVIOUS
<1>1. lister.provider # "hostinger" => IdsFit
  BY DEF InventoryInv
<1>2. ASSUME inventoryAt = "listed", account = before, lister.provider # "pantheon"
      PROVE  AllShown(listing) = InstallationsOf(lister, account) /\ ShowsOnce(listing)
  <2>1. CASE lister.provider \notin OwnRows
    BY <1>2, <2>1, SitesShowOnce
  <2>2. CASE lister.provider = "xcloud"
    BY <1>2, <2>2, XCloudShowsOnce
  <2>3. CASE lister.provider \in OwnRows /\ lister.provider # "xcloud"
    BY <1>2, <2>3, InstallationsShowOnce
  <2>. QED BY <2>1, <2>2, <2>3
<1>3. ASSUME inventoryAt = "listed", lister.provider = "agency"
      PROVE  /\ ShowsOnce(listing)
             /\ AllShown(listing) \in {InstallationsOf(lister, account), InstallationsOf(lister, before)}
  BY <1>3, AgencyShowsOnce
<1>4. ListingWhole
  BY <1>2, <1>3 DEF ListingWhole
<1>. QED BY <1>1, <1>4 DEF InventoryHonest

-----------------------------------------------------------------------------
(* Which installations of a cPanel account are sites.                      *)

\* The domains' document roots: each root once, each domain at most once.
LEMMA DomainRootsDistinct ==
  ASSUME NEW entries \in Seq(Entries),
         IsInjective([i \in DOMAIN entries |-> entries[i].domain])
  PROVE  LET these == DomainRoots(entries) IN
         /\ these \in Seq(Entries) /\ Len(these) <= Len(entries)
         /\ \A i, j \in 1..Len(these) :
              i # j => these[i].root # these[j].root /\ these[i].domain # these[j].domain
<1>. DEFINE kept == {k \in DOMAIN entries : /\ entries[k].root # Elsewhere
                                            /\ \A i \in 1..k - 1 : entries[i].root # entries[k].root}
            c == Cardinality(kept)
            f == InOrder(kept)
            these == DomainRoots(entries)
<1>1. Len(entries) \in Nat /\ DOMAIN entries = 1..Len(entries) /\ kept \in SUBSET (1..Len(entries))
  OBVIOUS
<1>2. /\ c \in Nat /\ c <= Len(entries) /\ f \in [1..c -> kept]
      /\ \A i, j \in 1..c : f[i] = f[j] => i = j
  <2>. HIDE DEF kept
  <2>. QED BY <1>1, PickedInOrder
<1>3. these = [k \in 1..c |-> entries[f[k]]]
  BY DEF DomainRoots, Picked
<1>4. \A k, l \in kept : k # l => entries[k].root # entries[l].root
  <2>. SUFFICES ASSUME NEW k \in kept, NEW l \in kept, k < l
                PROVE  entries[k].root # entries[l].root
    BY <1>1
  <2>. QED BY <1>1
<1>5. \A k, l \in kept : k # l => entries[k].domain # entries[l].domain
  BY <1>1 DEF IsInjective
<1>6. \A k \in kept : entries[k] \in Entries
  BY <1>1
<1>. HIDE DEF kept, c, f, these
<1>7. \A k \in 1..c : f[k] \in kept /\ these[k] = entries[f[k]] /\ these[k] \in Entries
  BY <1>2, <1>3, <1>6
<1>8. these \in Seq(Entries) /\ Len(these) = c
  BY <1>2, <1>3, <1>7
<1>9. ASSUME NEW i \in 1..c, NEW j \in 1..c, i # j
      PROVE  these[i].root # these[j].root /\ these[i].domain # these[j].domain
  <2>1. f[i] # f[j]
    BY <1>2, <1>9
  <2>. QED BY <1>4, <1>5, <1>7, <2>1
<1>. QED BY <1>2, <1>8, <1>9 DEF these

\* Two domains have two www names.
LEMMA WwwInjective == ASSUME NEW d \in Domains, NEW e \in Domains, Www(d) = Www(e) PROVE d = e
<1>. DEFINE S == STRING \cup {"www"}
<1>1. Domains \subseteq Seq(STRING)
  BY DiscoveryAssumption
<1>2. d \in Seq(S) /\ e \in Seq(S)
  BY <1>1
<1>3. <<"www">> \in Seq(S)
  OBVIOUS
<1>4. <<"www">> \o d = <<"www">> \o e
  BY DEF Www
<1>. HIDE DEF S
<1>. QED BY <1>2, <1>3, <1>4, ConcatSimplifications

\* The first of a set of numbers is one of them.
LEMMA FirstOf == ASSUME NEW s \in SUBSET Nat, s # {} PROVE First(s) \in s
BY LeastExists DEF First

\* The roots that are distinct name one root at most for every host.
RootsDistinct ==
  \A i, j \in 1..Len(roots) : i # j => roots[i].root # roots[j].root /\ roots[i].domain # roots[j].domain

\* At most one domain root has a host's name.
LEMMA OneRootNamed ==
  ASSUME roots \in Seq(Entries), RootsDistinct, NEW host,
         NEW i \in RootNamed(host), NEW j \in RootNamed(host)
  PROVE  i = j
<1>1. DOMAIN roots = 1..Len(roots) /\ \A k \in DOMAIN roots : roots[k].domain \in Domains
  <2>1. \A x \in Entries : x.domain \in Domains
    BY DEF Entries
  <2>. QED BY <2>1
<1>2. i \in DOMAIN roots /\ j \in DOMAIN roots
  BY DEF RootNamed
<1>3. CASE roots[i].domain = host /\ roots[j].domain = host
  BY <1>1, <1>2, <1>3 DEF RootsDistinct
<1>4. CASE Www(roots[i].domain) = host /\ Www(roots[j].domain) = host
  <2>1. roots[i].domain = roots[j].domain
    BY <1>1, <1>2, <1>4, WwwInjective
  <2>. QED BY <1>1, <1>2, <2>1 DEF RootsDistinct
<1>5. \/ roots[i].domain = host /\ roots[j].domain = host
      \/ Www(roots[i].domain) = host /\ Www(roots[j].domain) = host
  BY DEF RootNamed
<1>. QED BY <1>3, <1>4, <1>5

\* The root that a domain names is its own.
LEMMA NamedByHost ==
  ASSUME roots \in Seq(Entries), RootsDistinct, NEW i \in DOMAIN roots
  PROVE  NamedBy(roots[i].domain) = ByHost(i)
<1>. SUFFICES ASSUME NEW c \in Candidates
              PROVE  c \in NamedBy(roots[i].domain) <=> c \in ByHost(i)
  BY DEF NamedBy, ByHost
<1>. DEFINE host == cpanel.installs[c].host
<1>1. c \in ByHost(i) <=> i \in RootNamed(host)
  BY DEF ByHost
<1>2. c \in NamedBy(roots[i].domain)
        <=> host = roots[i].domain \/ (host = Www(roots[i].domain) /\ \A e \in Range(roots) : e.domain # host)
  BY DEF NamedBy
<1>. HIDE DEF host
<1>3. (\A e \in Range(roots) : e.domain # host) <=> {k \in DOMAIN roots : roots[k].domain = host} = {}
  BY DEF Range
<1>4. i \in RootNamed(host)
        <=> host = roots[i].domain
              \/ (host = Www(roots[i].domain) /\ {k \in DOMAIN roots : roots[k].domain = host} = {})
  BY DEF RootNamed
<1>. QED BY <1>1, <1>2, <1>3, <1>4

\* Every root claims an installation of its own, by the host first and else by the path.
LEMMA ClaimsOfRoots ==
  ASSUME CpTypeOK, roots \in Seq(Entries), RootsDistinct, NEW i \in Claimed
  PROVE  /\ ByHost(i) # {} => ClaimOf(i) \in ByHost(i)
         /\ ByHost(i) = {} => ClaimOf(i) \in ByPath(i)
<1>1. Candidates \in SUBSET Nat
  <2>1. cpanel.installs \in Seq(Installs)
    BY DEF CpTypeOK
  <2>. QED BY <2>1 DEF Candidates
<1>2. ByHost(i) \in SUBSET Nat /\ ByPath(i) \in SUBSET Nat
  BY <1>1 DEF ByHost, ByPath, Unnamed
<1>3. ByHost(i) # {} => ByPath(i) = {}
  BY DEF ByPath
<1>4. ByHost(i) \cup ByPath(i) # {}
  BY DEF Claimed
<1>. QED BY <1>2, <1>3, <1>4, FirstOf DEF ClaimOf

\* Two roots do not claim the same installation of the toolkit.
LEMMA ClaimsDistinct ==
  ASSUME CpTypeOK, roots \in Seq(Entries), RootsDistinct,
         NEW i \in Claimed, NEW j \in Claimed, ClaimOf(i) = ClaimOf(j)
  PROVE  i = j
<1>. DEFINE c == ClaimOf(i)
            host == cpanel.installs[c].host
<1>1. c \in ByHost(i) \cup ByPath(i) /\ c \in ByHost(j) \cup ByPath(j)
  BY ClaimsOfRoots
<1>. HIDE DEF c
<1>2. CASE c \in ByHost(i) /\ c \in ByHost(j)
  <2>1. i \in RootNamed(host) /\ j \in RootNamed(host)
    BY <1>2 DEF ByHost
  <2>. QED BY <2>1, OneRootNamed
<1>3. CASE c \in ByPath(i) /\ c \in ByPath(j)
  <2>1. roots[i].root = roots[j].root /\ i \in 1..Len(roots) /\ j \in 1..Len(roots)
    BY <1>3 DEF ByPath, Claimed
  <2>. QED BY <2>1 DEF RootsDistinct
<1>4. \A k : c \in ByHost(k) => RootNamed(host) # {}
  BY DEF ByHost
<1>5. \A k : c \in ByPath(k) => RootNamed(host) = {}
  BY DEF ByPath, Unnamed
<1>. QED BY <1>1, <1>2, <1>3, <1>4, <1>5

\* The sites with what the toolkit found: one per root and per installation.
LEMMA ToolkitSites ==
  ASSUME CpTypeOK, roots \in Seq(Entries), RootsDistinct
  PROVE  /\ WithToolkitFound \in Seq([domain : Domains, root : Folders \cup {Elsewhere}, install : Nat])
         /\ Len(WithToolkitFound) \in Nat /\ Len(WithToolkitFound) <= Len(roots)
         /\ DOMAIN WithToolkitFound = 1..Len(WithToolkitFound)
         /\ \A k \in 1..Len(WithToolkitFound) : \E i \in Claimed :
              WithToolkitFound[k] = [domain |-> roots[i].domain, root |-> roots[i].root, install |-> ClaimOf(i)]
         /\ \A k, l \in 1..Len(WithToolkitFound) :
              k # l => /\ WithToolkitFound[k].root # WithToolkitFound[l].root
                       /\ WithToolkitFound[k].install # WithToolkitFound[l].install
<1>. DEFINE c == Cardinality(Claimed)
            f == InOrder(Claimed)
            sites == WithToolkitFound
<1>1. Claimed \in SUBSET (1..Len(roots)) /\ Len(roots) \in Nat
  BY DEF Claimed
<1>2. /\ c \in Nat /\ c <= Len(roots) /\ f \in [1..c -> Claimed]
      /\ \A i, j \in 1..c : f[i] = f[j] => i = j
  BY <1>1, PickedInOrder
<1>3. sites = [k \in 1..c |-> [domain |-> roots[f[k]].domain, root |-> roots[f[k]].root,
                               install |-> ClaimOf(f[k])]]
  BY DEF WithToolkitFound
<1>. HIDE DEF c, f, sites
<1>4. DOMAIN sites = 1..c /\ Len(sites) = c
  BY <1>2, <1>3
<1>5. ASSUME NEW k \in 1..c
      PROVE  /\ f[k] \in Claimed
             /\ sites[k] = [domain |-> roots[f[k]].domain, root |-> roots[f[k]].root, install |-> ClaimOf(f[k])]
             /\ sites[k].root = roots[f[k]].root /\ sites[k].install = ClaimOf(f[k])
  BY <1>2, <1>3
<1>6. ASSUME NEW k \in 1..c, NEW l \in 1..c, k # l
      PROVE  sites[k].root # sites[l].root /\ sites[k].install # sites[l].install
  <2>1. f[k] # f[l] /\ f[k] \in Claimed /\ f[l] \in Claimed
    BY <1>2, <1>6
  <2>2. \A m \in 1..c : sites[m].root = roots[f[m]].root /\ sites[m].install = ClaimOf(f[m])
    BY <1>5
  <2>4. roots[f[k]].root # roots[f[l]].root
    BY <1>1, <2>1 DEF RootsDistinct
  <2>5. ClaimOf(f[k]) # ClaimOf(f[l])
    BY <2>1, ClaimsDistinct
  <2>. QED BY <2>2, <2>4, <2>5
<1>7. sites \in Seq([domain : Domains, root : Folders \cup {Elsewhere}, install : Nat])
  <2>1. \A i \in Claimed : ClaimOf(i) \in Nat
    <3>1. \A i : ByHost(i) \cup ByPath(i) \subseteq DOMAIN cpanel.installs
      BY DEF ByHost, ByPath, Unnamed, Candidates
    <3>2. DOMAIN cpanel.installs \subseteq Nat
      BY DEF CpTypeOK
    <3>. QED BY <3>1, <3>2, ClaimsOfRoots
  <2>2. \A e \in Entries : e.domain \in Domains /\ e.root \in Folders \cup {Elsewhere}
    BY DEF Entries
  <2>3. \A i \in Claimed : roots[i] \in Entries
    BY <1>1
  <2>. DEFINE S == [domain : Domains, root : Folders \cup {Elsewhere}, install : Nat]
              made(k) == [domain |-> roots[f[k]].domain, root |-> roots[f[k]].root, install |-> ClaimOf(f[k])]
  <2>4. \A x \in Domains, y \in Folders \cup {Elsewhere}, z \in Nat :
          [domain |-> x, root |-> y, install |-> z] \in S
    OBVIOUS
  <2>5. \A k \in 1..c : made(k) \in S
    <3>. SUFFICES ASSUME NEW k \in 1..c PROVE made(k) \in S
      OBVIOUS
    <3>1. /\ roots[f[k]].domain \in Domains /\ roots[f[k]].root \in Folders \cup {Elsewhere}
          /\ ClaimOf(f[k]) \in Nat
      BY <1>5, <2>1, <2>2, <2>3
    <3>. HIDE DEF S
    <3>. QED BY <2>4, <3>1
  <2>6. sites = [k \in 1..c |-> made(k)]
    BY <1>3
  <2>. HIDE DEF made, S
  <2>7. sites \in Seq(S)
    BY <1>2, <2>5, <2>6
  <2>. QED BY <2>7 DEF S
<1>. QED BY <1>2, <1>4, <1>5, <1>6, <1>7 DEF sites

\* A discovery starts with nothing found.
LEMMA DiscoveryStarts == CpInit => DiscoveryInv
<1>. SUFFICES ASSUME CpInit PROVE DiscoveryInv
  OBVIOUS
<1>1. PICK k \in 0..MaxDomains : cpanel.domains \in [1..k -> Entries]
  BY DEF CpInit
<1>2. PICK m \in 0..MaxInstalls : cpanel.installs \in [1..m -> Installs]
  BY DEF CpInit
<1>3. cpanel.domains \in Seq(Entries) /\ Len(cpanel.domains) <= MaxDomains
  BY <1>1, DiscoveryAssumption
<1>4. cpanel.installs \in Seq(Installs)
  BY <1>2, DiscoveryAssumption
<1>5. /\ cpanel = [domains |-> cpanel.domains, toolkit |-> cpanel.toolkit, installs |-> cpanel.installs,
                   wordpress |-> cpanel.wordpress]
      /\ cpanel.toolkit \in BOOLEAN /\ cpanel.wordpress \in SUBSET Folders
  BY DEF CpInit
<1>6. cpanel \in [domains : Seq(Entries), toolkit : BOOLEAN, installs : Seq(Installs),
                  wordpress : SUBSET Folders]
  BY <1>3, <1>4, <1>5
<1>7. CpTypeOK
  BY <1>3, <1>6, DiscoveryAssumption DEF CpInit, CpTypeOK
<1>8. FoundInRoots
  BY DEF CpInit, FoundInRoots
<1>. QED BY <1>7, <1>8 DEF DiscoveryInv

\* What ReadDomains makes of the domains.
LEMMA RootsRead ==
  ASSUME CpTypeOK
  PROVE  LET these == DomainRoots(cpanel.domains) IN
         /\ these \in Seq(Entries) /\ Len(these) <= MaxDomains /\ Len(these) \in Nat
         /\ \A i, j \in 1..Len(these) :
              i # j => these[i].root # these[j].root /\ these[i].domain # these[j].domain
<1>1. /\ cpanel.domains \in Seq(Entries) /\ Len(cpanel.domains) <= MaxDomains
      /\ IsInjective([i \in DOMAIN cpanel.domains |-> cpanel.domains[i].domain])
  BY DEF CpTypeOK
<1>2. Len(cpanel.domains) \in Nat /\ MaxDomains \in Nat
  BY <1>1, DiscoveryAssumption
<1>. DEFINE these == DomainRoots(cpanel.domains)
<1>3. /\ these \in Seq(Entries) /\ Len(these) <= Len(cpanel.domains)
      /\ \A i, j \in 1..Len(these) :
           i # j => these[i].root # these[j].root /\ these[i].domain # these[j].domain
  BY <1>1, DomainRootsDistinct
<1>. HIDE DEF these
<1>4. Len(these) \in Nat /\ Len(these) <= MaxDomains
  BY <1>1, <1>2, <1>3
<1>. QED BY <1>3, <1>4 DEF these

\* Once read, the domain roots are distinct.
LEMMA RootsKept ==
  ASSUME DiscoveryInv, discovery # "failed"
  PROVE  roots \in Seq(Entries) /\ RootsDistinct /\ Len(roots) \in Nat /\ Len(roots) <= MaxDomains
<1>1. CASE discovery = "domains"
  <2>1. roots = <<>>
    BY <1>1 DEF DiscoveryInv, FoundInRoots
  <2>2. Len(roots) = 0
    BY <2>1
  <2>. QED BY <2>1, <2>2, DiscoveryAssumption DEF RootsDistinct
<1>2. CASE discovery # "domains"
  <2>1. roots = DomainRoots(cpanel.domains)
    BY <1>2 DEF DiscoveryInv, FoundInRoots
  <2>. QED BY <2>1, RootsRead DEF DiscoveryInv, RootsDistinct
<1>. QED BY <1>1, <1>2

\* What WP Toolkit finds depends on the account and its roots alone.
LEMMA ToolkitSitesKept ==
  ASSUME UNCHANGED <<cpanel, roots>>
  PROVE  WithToolkitFound' = WithToolkitFound
<1>1. Candidates' = Candidates
  BY DEF Candidates
<1>2. \A host : RootNamed(host)' = RootNamed(host)
  BY DEF RootNamed
<1>3. \A i : ByHost(i)' = ByHost(i)
  BY <1>1, <1>2 DEF ByHost
<1>4. Unnamed' = Unnamed
  BY <1>1, <1>2 DEF Unnamed
<1>5. \A i : ByPath(i)' = ByPath(i)
  BY <1>3, <1>4 DEF ByPath
<1>6. \A i : ClaimOf(i)' = ClaimOf(i)
  BY <1>3, <1>5 DEF ClaimOf
<1>7. Claimed' = Claimed
  BY <1>3, <1>5 DEF Claimed
<1>. QED BY <1>6, <1>7 DEF WithToolkitFound

\* Every step of a discovery keeps its invariant.
LEMMA DiscoveryStep == DiscoveryInv /\ [CpNext]_cpVars => DiscoveryInv'
<1>. SUFFICES ASSUME DiscoveryInv, [CpNext]_cpVars PROVE DiscoveryInv'
  OBVIOUS
<1>1. CASE CpFails
  BY <1>1 DEF CpFails, DiscoveryInv, CpTypeOK, FoundInRoots
<1>2. CASE ReadDomains
  <2>1. /\ DOMAIN roots' = 1..Len(roots') /\ Len(roots') \in Nat /\ found' = <<>> /\ looked' = 0
        /\ cpanel' = cpanel /\ roots' = DomainRoots(cpanel.domains) /\ discovery' = "toolkit"
    BY <1>2, RootsRead DEF ReadDomains, DiscoveryInv, FoundInRoots
  <2>2. CpTypeOK'
    <3>1. Len(found') <= Len(roots')
      BY <2>1
    <3>. QED BY <2>1, <3>1, DiscoveryAssumption DEF DiscoveryInv, CpTypeOK
  <2>3. DomainRoots(cpanel.domains)' = DomainRoots(cpanel.domains)
    BY <2>1
  <2>4. FoundInRoots'
    BY <2>1, <2>3 DEF FoundInRoots
  <2>. QED BY <2>2, <2>4 DEF DiscoveryInv
<1>3. CASE AskToolkit
  <2>1. /\ discovery = "toolkit" /\ UNCHANGED <<cpanel, roots, looked>>
        /\ roots = DomainRoots(cpanel.domains) /\ found = <<>> /\ looked = 0
    BY <1>3 DEF AskToolkit, DiscoveryInv, FoundInRoots
  <2>2. roots \in Seq(Entries) /\ RootsDistinct /\ Len(roots) \in Nat
    BY <2>1, RootsKept
  <2>3. DomainRoots(cpanel.domains)' = DomainRoots(cpanel.domains)
    BY <2>1
  <2>4. CASE cpanel.toolkit /\ found' = WithToolkitFound /\ discovery' = "listed"
    <3>1. WithToolkitFound' = WithToolkitFound
      BY <2>1, ToolkitSitesKept
    <3>2. /\ Len(found') <= Len(roots')
          /\ found' \in Seq([domain : Domains, root : Folders \cup {Elsewhere}, install : Nat])
      BY <2>1, <2>2, <2>4, ToolkitSites DEF DiscoveryInv
    <3>3. CpTypeOK'
      BY <2>1, <2>4, <3>2 DEF DiscoveryInv, CpTypeOK
    <3>4. FoundInRoots'
      BY <2>1, <2>2, <2>3, <2>4, <3>1 DEF FoundInRoots
    <3>. QED BY <3>3, <3>4 DEF DiscoveryInv
  <2>5. CASE ~cpanel.toolkit /\ discovery' = "files" /\ UNCHANGED found
    <3>1. CpTypeOK'
      BY <2>1, <2>5 DEF DiscoveryInv, CpTypeOK
    <3>2. FoundInFiles'
      BY <2>1, <2>5 DEF FoundInFiles
    <3>3. FoundInRoots'
      BY <2>1, <2>2, <2>3, <2>5, <3>2 DEF FoundInRoots
    <3>. QED BY <3>1, <3>3 DEF DiscoveryInv
  <2>. QED BY <1>3, <2>4, <2>5 DEF AskToolkit
<1>4. CASE LookIntoRoot
  <2>. DEFINE r == roots[looked + 1]
              one == [domain |-> r.domain, root |-> r.root, install |-> 0]
  <2>1. /\ discovery = "files" /\ UNCHANGED <<cpanel, roots, discovery>>
        /\ looked < Len(roots) /\ looked' = looked + 1
        /\ roots = DomainRoots(cpanel.domains) /\ ~cpanel.toolkit /\ FoundInFiles
        /\ found' = Append(found, one) \/ found' = found
    BY <1>4 DEF LookIntoRoot, DiscoveryInv, FoundInRoots
  <2>2. roots \in Seq(Entries) /\ RootsDistinct /\ Len(roots) \in Nat /\ Len(roots) <= MaxDomains
    BY <2>1, RootsKept
  <2>3. looked \in Nat /\ looked' \in 1..Len(roots) /\ looked' \in 0..MaxDomains
    BY <2>1, <2>2, DiscoveryAssumption DEF DiscoveryInv, CpTypeOK
  <2>4. DomainRoots(cpanel.domains)' = DomainRoots(cpanel.domains)
    BY <2>1
  <2>5. found \in Seq([domain : Domains, root : Folders \cup {Elsewhere}, install : Nat])
    BY DEF DiscoveryInv, CpTypeOK
  <2>6. /\ FoundInFiles' /\ Len(found') <= Len(roots')
        /\ found' \in Seq([domain : Domains, root : Folders \cup {Elsewhere}, install : Nat])
    <3>1. CASE found' = found
      <4>1. Len(found') <= looked' /\ Len(found') <= Len(roots')
        BY <2>1, <2>3, <2>5, <3>1 DEF FoundInFiles
      <4>2. \A i \in DOMAIN found' : found'[i].install = 0 /\ \E k \in 1..looked' : found'[i].root = roots'[k].root
        BY <2>1, <2>3, <3>1 DEF FoundInFiles
      <4>. QED BY <2>1, <2>5, <3>1, <4>1, <4>2 DEF FoundInFiles
    <3>2. CASE found' = Append(found, one)
      <4>. DEFINE n == Len(found)
      <4>1. n \in Nat /\ DOMAIN found = 1..n /\ n <= looked
        BY <2>1, <2>5 DEF FoundInFiles
      <4>2. /\ DOMAIN found' = 1..n + 1 /\ Len(found') = n + 1
            /\ found'[n + 1] = one /\ \A i \in 1..n : found'[i] = found[i]
        BY <2>5, <3>2
      <4>3. one.install = 0 /\ one.root = roots[looked + 1].root
        OBVIOUS
      <4>4. one \in [domain : Domains, root : Folders \cup {Elsewhere}, install : Nat]
        <5>1. r \in Entries
          BY <2>2, <2>3, <2>1
        <5>2. r.domain \in Domains /\ r.root \in Folders \cup {Elsewhere}
          BY <5>1 DEF Entries
        <5>. HIDE DEF r
        <5>. QED BY <5>2
      <4>5. found' \in Seq([domain : Domains, root : Folders \cup {Elsewhere}, install : Nat])
        <5>. HIDE DEF one
        <5>. QED BY <2>5, <3>2, <4>4
      <4>. HIDE DEF n, one
      <4>6. \A i \in 1..n : found[i].install = 0 /\ \E k \in 1..looked : found[i].root = roots[k].root
        BY <2>1, <4>1 DEF FoundInFiles
      <4>7. \A i \in 1..n : found[i].root # one.root
        BY <2>1, <2>2, <2>3, <4>3, <4>6 DEF RootsDistinct
      <4>8. \A i \in DOMAIN found' :
              found'[i].install = 0 /\ \E k \in 1..looked' : found'[i].root = roots'[k].root
        <5>. SUFFICES ASSUME NEW i \in 1..n + 1
                      PROVE  found'[i].install = 0 /\ \E k \in 1..looked' : found'[i].root = roots[k].root
          BY <2>1, <4>2
        <5>1. CASE i \in 1..n
          <6>1. PICK k \in 1..looked : found[i].root = roots[k].root
            BY <4>6, <5>1
          <6>2. k \in 1..looked'
            BY <2>1, <2>3
          <6>. QED BY <4>2, <4>6, <5>1, <6>1, <6>2
        <5>2. CASE i = n + 1
          <6>1. looked + 1 \in 1..looked'
            BY <2>1, <2>3
          <6>. QED BY <4>2, <4>3, <5>2, <6>1
        <5>. QED BY <4>1, <5>1, <5>2
      <4>9. \A i, j \in DOMAIN found' : i # j => found'[i].root # found'[j].root
        <5>1. \A i, j \in 1..n : i # j => found[i].root # found[j].root
          BY <2>1, <4>1 DEF FoundInFiles
        <5>. QED BY <4>1, <4>2, <4>7, <5>1
      <4>10. Len(found') <= looked' /\ Len(found') <= Len(roots')
        BY <2>1, <2>2, <2>3, <4>1, <4>2
      <4>. QED BY <4>5, <4>8, <4>9, <4>10 DEF FoundInFiles
    <3>. QED BY <2>1, <3>1, <3>2
  <2>7. CpTypeOK'
    BY <2>1, <2>3, <2>6 DEF DiscoveryInv, CpTypeOK
  <2>8. FoundInRoots'
    BY <2>1, <2>3, <2>4, <2>6 DEF FoundInRoots
  <2>. QED BY <2>7, <2>8 DEF DiscoveryInv
<1>5. CASE FilesRead
  <2>1. /\ UNCHANGED <<cpanel, roots, looked, found>> /\ discovery = "files" /\ discovery' = "listed"
    BY <1>5 DEF FilesRead
  <2>2. CpTypeOK'
    BY <2>1 DEF DiscoveryInv, CpTypeOK
  <2>3. FoundInFiles' = FoundInFiles /\ DomainRoots(cpanel.domains)' = DomainRoots(cpanel.domains)
    BY <2>1 DEF FoundInFiles
  <2>4. FoundInRoots'
    BY <2>1, <2>3 DEF DiscoveryInv, FoundInRoots
  <2>. QED BY <2>2, <2>4 DEF DiscoveryInv
<1>6. CASE UNCHANGED cpVars
  <2>1. UNCHANGED <<cpanel, roots, looked, found, discovery>>
    BY <1>6 DEF cpVars
  <2>2. CpTypeOK'
    BY <2>1 DEF DiscoveryInv, CpTypeOK
  <2>3. FoundInFiles' = FoundInFiles /\ DomainRoots(cpanel.domains)' = DomainRoots(cpanel.domains)
    BY <2>1 DEF FoundInFiles
  <2>4. WithToolkitFound' = WithToolkitFound
    BY <2>1, ToolkitSitesKept
  <2>5. FoundInRoots'
    BY <2>1, <2>3, <2>4 DEF DiscoveryInv, FoundInRoots
  <2>. QED BY <2>2, <2>5 DEF DiscoveryInv
<1>. QED BY <1>1, <1>2, <1>3, <1>4, <1>5, <1>6 DEF CpNext

\* What was discovered has no folder and no installation twice.
LEMMA DiscoveryInvHonest == DiscoveryInv => DiscoveryHonest
<1>. SUFFICES ASSUME DiscoveryInv, discovery = "listed" PROVE DiscoveryHonest
  BY DEF DiscoveryHonest
<1>1. CpTypeOK /\ roots \in Seq(Entries) /\ RootsDistinct
  BY RootsKept DEF DiscoveryInv
<1>2. CASE cpanel.toolkit
  <2>1. found = WithToolkitFound
    BY <1>2 DEF DiscoveryInv, FoundInRoots
  <2>2. /\ Len(found) \in Nat /\ DOMAIN found = 1..Len(found)
        /\ \A k \in 1..Len(found) : \E i \in Claimed :
              found[k] = [domain |-> roots[i].domain, root |-> roots[i].root, install |-> ClaimOf(i)]
        /\ \A k, l \in 1..Len(found) :
              k # l => found[k].root # found[l].root /\ found[k].install # found[l].install
    BY <1>1, <2>1, ToolkitSites, SMTT(30)
  <2>3. ASSUME NEW k \in DOMAIN found
        PROVE  LET named == NamedBy(found[k].domain) IN
               IF named # {} THEN found[k].install \in named
               ELSE cpanel.installs[found[k].install].path = found[k].root
    <3>1. PICK i \in Claimed :
            found[k] = [domain |-> roots[i].domain, root |-> roots[i].root, install |-> ClaimOf(i)]
      BY <2>2
    <3>2. /\ found[k].domain = roots[i].domain /\ found[k].root = roots[i].root
          /\ found[k].install = ClaimOf(i)
      BY <3>1
    <3>3. NamedBy(roots[i].domain) = ByHost(i)
      BY <1>1, NamedByHost DEF Claimed
    <3>4. /\ ByHost(i) # {} => ClaimOf(i) \in ByHost(i)
          /\ ByHost(i) = {} => ClaimOf(i) \in ByPath(i)
      BY <1>1, ClaimsOfRoots
    <3>5. \A c \in ByPath(i) : cpanel.installs[c].path = roots[i].root
      BY DEF ByPath
    <3>. QED BY <3>2, <3>3, <3>4, <3>5
  <2>. QED BY <2>2, <2>3 DEF DiscoveryHonest
<1>3. CASE ~cpanel.toolkit
  BY <1>3 DEF DiscoveryInv, FoundInRoots, FoundInFiles, DiscoveryHonest
<1>. QED BY <1>2, <1>3

-----------------------------------------------------------------------------
(* The plans of the clients.                                               *)

\* What is in the tables of requests.
LEMMA SendsIs ==
  ASSUME NEW K, NEW plan
  PROVE  DOMAIN Sends(K, plan) = K /\ \A k \in K : Sends(K, plan)[k] = plan
BY DEF Sends

\* Two tables together: the kinds of both, the first one's plan when both have one.
LEMMA JoinIs ==
  ASSUME NEW f, NEW g
  PROVE  /\ DOMAIN (f ++ g) = DOMAIN f \cup DOMAIN g
         /\ \A k \in DOMAIN f \cup DOMAIN g : (f ++ g)[k] = IF k \in DOMAIN f THEN f[k] ELSE g[k]
BY DEF ++

\* The plans of a table are in a set, those of some kinds aside.
Within(f, but, S) == \A k \in DOMAIN f \ but : f[k] \in S

\* One plan for some kinds is in a set if it is one of the set.
LEMMA SendsWithin ==
  ASSUME NEW K, NEW plan, NEW but, NEW S, plan \in S
  PROVE  Within(Sends(K, plan), but, S)
BY SendsIs DEF Within

\* A table of kinds that are left aside is in any set.
LEMMA SendsAside ==
  ASSUME NEW K, NEW plan, NEW but, NEW S, K \subseteq but
  PROVE  Within(Sends(K, plan), but, S)
BY SendsIs DEF Within

\* Two tables together are in a set if both are.
LEMMA JoinWithin ==
  ASSUME NEW f, NEW g, NEW but, NEW S, Within(f, but, S), Within(g, but, S)
  PROVE  Within(f ++ g, but, S)
<1>. SUFFICES ASSUME NEW k \in (DOMAIN f \cup DOMAIN g) \ but PROVE (f ++ g)[k] \in S
  BY JoinIs DEF Within
<1>1. (f ++ g)[k] = IF k \in DOMAIN f THEN f[k] ELSE g[k]
  BY JoinIs, ZenonT(60)
<1>. QED BY <1>1 DEF Within

\* The plans that keep to one write, and those that are short enough.
Tame == {s \in Seq(StepNames) : WritesLast(s) /\ WritesIn(s) \in 0..4}
Fit == {s \in Seq(StepNames) : WritesIn(s) \in 0..4}

\* One more element is at most one more.
LEMMA OneMore ==
  ASSUME NEW S, NEW x, NEW n \in Nat, IsFiniteSet(S), Cardinality(S) \in 0..n
  PROVE  IsFiniteSet(S \cup {x}) /\ Cardinality(S \cup {x}) \in 0..n + 1
<1>1. IsFiniteSet(S \cup {x})
  BY FS_AddElement
<1>2. Cardinality(S \cup {x}) = Cardinality(S) \/ Cardinality(S \cup {x}) = Cardinality(S) + 1
  BY FS_AddElement
<1>. QED BY <1>1, <1>2

\* Four places hold four writes at most.
LEMMA FourWrites ==
  ASSUME NEW s \in Seq(StepNames), NEW a, NEW b, NEW c, NEW d,
         \A i \in DOMAIN s : s[i] = "write" => i \in {a, b, c, d}
  PROVE  WritesIn(s) \in 0..4
<1>. DEFINE W == {i \in DOMAIN s : s[i] = "write"}
<1>1. IsFiniteSet({a, b, c, d}) /\ Cardinality({a, b, c, d}) \in 0..4
  <2>1. IsFiniteSet({}) /\ Cardinality({}) \in 0..0
    BY FS_EmptySet
  <2>2. IsFiniteSet({} \cup {a}) /\ Cardinality({} \cup {a}) \in 0..0 + 1
    BY <2>1, OneMore
  <2>3. IsFiniteSet({a}) /\ Cardinality({a}) \in 0..1
    <3>1. {} \cup {a} = {a}
      OBVIOUS
    <3>. QED BY <2>2, <3>1
  <2>4. 0..1 + 1 = 0..2 /\ 0..2 + 1 = 0..3 /\ 0..3 + 1 = 0..4
    OBVIOUS
  <2>5. IsFiniteSet({a} \cup {b}) /\ Cardinality({a} \cup {b}) \in 0..1 + 1
    BY <2>3, OneMore
  <2>6. IsFiniteSet(({a} \cup {b}) \cup {c}) /\ Cardinality(({a} \cup {b}) \cup {c}) \in 0..2 + 1
    BY <2>4, <2>5, OneMore
  <2>7. /\ IsFiniteSet((({a} \cup {b}) \cup {c}) \cup {d})
        /\ Cardinality((({a} \cup {b}) \cup {c}) \cup {d}) \in 0..3 + 1
    BY <2>4, <2>6, OneMore
  <2>8. (({a} \cup {b}) \cup {c}) \cup {d} = {a, b, c, d}
    OBVIOUS
  <2>. QED BY <2>4, <2>7, <2>8, Zenon
<1>2. W \subseteq {a, b, c, d}
  OBVIOUS
<1>. HIDE DEF W
<1>3. IsFiniteSet(W) /\ Cardinality(W) <= Cardinality({a, b, c, d})
  BY <1>1, <1>2, FS_Subset
<1>4. Cardinality(W) \in Nat
  BY <1>3, FS_CardinalityType
<1>. QED BY <1>1, <1>3, <1>4 DEF W, WritesIn

\* A plan with one write and only tidings after it.
LEMMA OneWrite ==
  ASSUME NEW s \in Seq(StepNames), NEW m \in Nat,
         \A i \in DOMAIN s : (s[i] = "write" => i = m) /\ (i > m => s[i] = "tell")
  PROVE  s \in Tame /\ s \in Fit
<1>1. \A i \in DOMAIN s : s[i] = "write" => i \in {m, m, m, m}
  OBVIOUS
<1>2. WritesIn(s) \in 0..4
  BY <1>1, FourWrites
<1>. QED BY <1>2 DEF Tame, Fit, WritesLast

\* A plan that writes nothing.
LEMMA NoWrite ==
  ASSUME NEW s \in Seq(StepNames), \A i \in DOMAIN s : s[i] # "write"
  PROVE  s \in Tame /\ s \in Fit
<1>1. \A i \in DOMAIN s : s[i] = "write" => i \in {0, 0, 0, 0}
  OBVIOUS
<1>2. WritesIn(s) \in 0..4
  BY <1>1, FourWrites
<1>. QED BY <1>2 DEF Tame, Fit, WritesLast

\* One plan after another.
LEMMA JoinedPlans ==
  ASSUME NEW s \in Seq(StepNames), NEW t \in Seq(StepNames)
  PROVE  /\ s \o t \in Seq(StepNames) /\ DOMAIN (s \o t) = 1..Len(s) + Len(t)
         /\ Len(s) \in Nat /\ Len(t) \in Nat /\ DOMAIN s = 1..Len(s) /\ DOMAIN t = 1..Len(t)
         /\ \A i \in 1..Len(s) : (s \o t)[i] = s[i]
         /\ \A i \in Len(s) + 1..Len(s) + Len(t) : (s \o t)[i] = t[i - Len(s)] /\ i - Len(s) \in 1..Len(t)
OBVIOUS

\* The plans of the reads write nothing.
LEMMA ReadPlans ==
  /\ <<>> \in Tame /\ Look \in Tame /\ CheckLook \in Tame /\ <<"account", "look">> \in Tame
  /\ <<"check", "account", "look">> \in Tame /\ <<"gate", "look", "look">> \in Tame
  /\ <<"look", "look">> \in Tame /\ <<"check", "look", "look">> \in Tame
<1>1. <<>> \in Tame
  <2>1. <<>> \in Seq(StepNames) /\ DOMAIN <<>> = {}
    OBVIOUS
  <2>. QED BY <2>1, NoWrite
<1>2. Look \in Tame
  <2>1. Look \in Seq(StepNames) /\ \A i \in DOMAIN Look : Look[i] # "write"
    BY DEF StepNames, Look
  <2>. QED BY <2>1, NoWrite
<1>3. CheckLook \in Tame
  <2>1. CheckLook \in Seq(StepNames) /\ \A i \in DOMAIN CheckLook : CheckLook[i] # "write"
    BY DEF StepNames, CheckLook
  <2>. QED BY <2>1, NoWrite
<1>4. <<"account", "look">> \in Tame
  <2>1. <<"account", "look">> \in Seq(StepNames) /\ \A i \in DOMAIN <<"account", "look">> : <<"account", "look">>[i] # "write"
    BY DEF StepNames
  <2>. QED BY <2>1, NoWrite
<1>5. <<"check", "account", "look">> \in Tame
  <2>1. <<"check", "account", "look">> \in Seq(StepNames) /\ \A i \in DOMAIN <<"check", "account", "look">> : <<"check", "account", "look">>[i] # "write"
    BY DEF StepNames
  <2>. QED BY <2>1, NoWrite
<1>6. <<"gate", "look", "look">> \in Tame
  <2>1. <<"gate", "look", "look">> \in Seq(StepNames) /\ \A i \in DOMAIN <<"gate", "look", "look">> : <<"gate", "look", "look">>[i] # "write"
    BY DEF StepNames
  <2>. QED BY <2>1, NoWrite
<1>7. <<"look", "look">> \in Tame
  <2>1. <<"look", "look">> \in Seq(StepNames) /\ \A i \in DOMAIN <<"look", "look">> : <<"look", "look">>[i] # "write"
    BY DEF StepNames
  <2>. QED BY <2>1, NoWrite
<1>8. <<"check", "look", "look">> \in Tame
  <2>1. <<"check", "look", "look">> \in Seq(StepNames) /\ \A i \in DOMAIN <<"check", "look", "look">> : <<"check", "look", "look">>[i] # "write"
    BY DEF StepNames
  <2>. QED BY <2>1, NoWrite
<1>. QED BY <1>1, <1>2, <1>3, <1>4, <1>5, <1>6, <1>7, <1>8

\* Most actions write once, and last.
LEMMA WritePlans ==
  /\ Write \in Tame
  /\ CheckWrite \in Tame
  /\ <<"check", "account", "write">> \in Tame
  /\ KinstaBulkUpdate \in Tame
  /\ <<"check", "look", "compare", "write">> \in Tame
  /\ <<"check", "write", "tell">> \in Tame
  /\ <<"gate", "check", "look", "look", "compare", "write">> \in Tame
  /\ <<"gate", "check">> \o PleskBackups \o <<"look", "write">> \in Tame
<1>1. Write \in Tame
  <2>. DEFINE plan == Write
  <2>1. plan \in Seq(StepNames)
    BY DEF StepNames, Write
  <2>2. \A i \in DOMAIN plan : (plan[i] = "write" => i = 1) /\ (i > 1 => plan[i] = "tell")
    BY DEF plan, Write
  <2>. HIDE DEF plan
  <2>3. plan \in Tame
    BY <2>1, <2>2, OneWrite
  <2>. QED BY <2>3 DEF plan
<1>2. CheckWrite \in Tame
  <2>. DEFINE plan == CheckWrite
  <2>1. plan \in Seq(StepNames)
    BY DEF StepNames, CheckWrite
  <2>2. \A i \in DOMAIN plan : (plan[i] = "write" => i = 2) /\ (i > 2 => plan[i] = "tell")
    BY DEF plan, CheckWrite
  <2>. HIDE DEF plan
  <2>3. plan \in Tame
    BY <2>1, <2>2, OneWrite
  <2>. QED BY <2>3 DEF plan
<1>3. <<"check", "account", "write">> \in Tame
  <2>. DEFINE plan == <<"check", "account", "write">>
  <2>1. plan \in Seq(StepNames)
    BY DEF StepNames
  <2>2. \A i \in DOMAIN plan : (plan[i] = "write" => i = 3) /\ (i > 3 => plan[i] = "tell")
    BY DEF plan
  <2>. HIDE DEF plan
  <2>3. plan \in Tame
    BY <2>1, <2>2, OneWrite
  <2>. QED BY <2>3 DEF plan
<1>4. KinstaBulkUpdate \in Tame
  <2>. DEFINE plan == KinstaBulkUpdate
  <2>1. plan \in Seq(StepNames)
    BY DEF StepNames, KinstaBulkUpdate
  <2>2. \A i \in DOMAIN plan : (plan[i] = "write" => i = 4) /\ (i > 4 => plan[i] = "tell")
    BY DEF plan, KinstaBulkUpdate
  <2>. HIDE DEF plan
  <2>3. plan \in Tame
    BY <2>1, <2>2, OneWrite
  <2>. QED BY <2>3 DEF plan
<1>5. <<"check", "look", "compare", "write">> \in Tame
  <2>. DEFINE plan == <<"check", "look", "compare", "write">>
  <2>1. plan \in Seq(StepNames)
    BY DEF StepNames
  <2>2. \A i \in DOMAIN plan : (plan[i] = "write" => i = 4) /\ (i > 4 => plan[i] = "tell")
    BY DEF plan
  <2>. HIDE DEF plan
  <2>3. plan \in Tame
    BY <2>1, <2>2, OneWrite
  <2>. QED BY <2>3 DEF plan
<1>6. <<"check", "write", "tell">> \in Tame
  <2>. DEFINE plan == <<"check", "write", "tell">>
  <2>1. plan \in Seq(StepNames)
    BY DEF StepNames
  <2>2. \A i \in DOMAIN plan : (plan[i] = "write" => i = 2) /\ (i > 2 => plan[i] = "tell")
    BY DEF plan
  <2>. HIDE DEF plan
  <2>3. plan \in Tame
    BY <2>1, <2>2, OneWrite
  <2>. QED BY <2>3 DEF plan
<1>7. <<"gate", "check", "look", "look", "compare", "write">> \in Tame
  <2>. DEFINE plan == <<"gate", "check", "look", "look", "compare", "write">>
  <2>1. plan \in Seq(StepNames)
    BY DEF StepNames
  <2>2. \A i \in DOMAIN plan : (plan[i] = "write" => i = 6) /\ (i > 6 => plan[i] = "tell")
    BY DEF plan
  <2>. HIDE DEF plan
  <2>3. plan \in Tame
    BY <2>1, <2>2, OneWrite
  <2>. QED BY <2>3 DEF plan
<1>8. <<"gate", "check">> \o PleskBackups \o <<"look", "write">> \in Tame
  <2>. DEFINE head == <<"gate", "check">>
              rest == <<"look", "write">>
  <2>1. PleskBackups \in Seq(StepNames) /\ \A i \in DOMAIN PleskBackups : PleskBackups[i] # "write"
    BY DEF PleskBackups, StepNames
  <2>2. /\ head \in Seq(StepNames) /\ \A i \in DOMAIN head : head[i] # "write"
        /\ rest \in Seq(StepNames) /\ Len(rest) = 2 /\ \A i \in DOMAIN rest : rest[i] = "write" => i = 2
    BY DEF StepNames
  <2>. HIDE DEF head, rest
  <2>3. /\ head \o PleskBackups \in Seq(StepNames)
        /\ \A i \in DOMAIN (head \o PleskBackups) : (head \o PleskBackups)[i] # "write"
    BY <2>1, <2>2, JoinedPlans
  <2>. DEFINE first == head \o PleskBackups
              plan == first \o rest
  <2>. HIDE DEF first
  <2>4. /\ plan \in Seq(StepNames) /\ Len(first) + 2 \in Nat
        /\ \A i \in DOMAIN plan : (plan[i] = "write" => i = Len(first) + 2) /\ i <= Len(first) + 2
    <3>1. first \in Seq(StepNames) /\ \A i \in DOMAIN first : first[i] # "write"
      BY <2>3 DEF first
    <3>2. /\ plan \in Seq(StepNames) /\ DOMAIN plan = 1..Len(first) + 2 /\ Len(first) \in Nat
          /\ DOMAIN first = 1..Len(first)
          /\ \A i \in 1..Len(first) : plan[i] = first[i]
          /\ \A i \in Len(first) + 1..Len(first) + 2 :
               plan[i] = rest[i - Len(first)] /\ i - Len(first) \in DOMAIN rest
      <4>1. /\ first \o rest \in Seq(StepNames) /\ DOMAIN (first \o rest) = 1..Len(first) + Len(rest)
            /\ Len(first) \in Nat /\ DOMAIN first = 1..Len(first) /\ DOMAIN rest = 1..Len(rest)
            /\ \A i \in 1..Len(first) : (first \o rest)[i] = first[i]
            /\ \A i \in Len(first) + 1..Len(first) + Len(rest) :
                 (first \o rest)[i] = rest[i - Len(first)] /\ i - Len(first) \in 1..Len(rest)
        BY <2>2, <3>1, JoinedPlans
      <4>2. Len(rest) = 2
        BY <2>2
      <4>. QED BY <4>1, <4>2
    <3>. HIDE DEF plan
    <3>3. ASSUME NEW i \in DOMAIN plan
          PROVE  (plan[i] = "write" => i = Len(first) + 2) /\ i <= Len(first) + 2
      <4>1. CASE i \in 1..Len(first)
        BY <3>1, <3>2, <4>1
      <4>2. CASE i \in Len(first) + 1..Len(first) + 2
        BY <2>2, <3>2, <4>2
      <4>. QED BY <3>2, <3>3, <4>1, <4>2
    <3>. QED BY <3>2, <3>3
  <2>. HIDE DEF plan
  <2>5. \A i \in DOMAIN plan : i > Len(first) + 2 => plan[i] = "tell"
    BY <2>4
  <2>6. plan \in Tame
    BY <2>4, <2>5, OneWrite
  <2>. QED BY <2>6 DEF plan, first, head, rest
<1>. QED BY <1>1, <1>2, <1>3, <1>4, <1>5, <1>6, <1>7, <1>8

\* A plan whose writes come last has few enough of them.
LEMMA TameFits == Tame \subseteq Fit
BY DEF Tame, Fit

\* Three plans that read on after they wrote, and the one that writes four times.
LEMMA PlansThatAskOn ==
  /\ <<"gate", "look", "write">> \o PleskBackups \in Fit /\ PleskSetup \in Fit
  /\ <<"check", "write", "own id", "tell">> \in Fit /\ CpanelAccountBackup \in Fit
<1>1. <<"gate", "look", "write">> \o PleskBackups \in Fit
  <2>. DEFINE plan == <<"gate", "look", "write">> \o PleskBackups
  <2>1. PleskBackups \in Seq(StepNames) /\ \A i \in DOMAIN PleskBackups : PleskBackups[i] # "write"
    BY DEF PleskBackups, StepNames
  <2>. DEFINE head == <<"gate", "look", "write">>
  <2>2. /\ head \in Seq(StepNames) /\ \A i \in DOMAIN head : head[i] = "write" => i = 3
    BY DEF StepNames
  <2>. HIDE DEF head
  <2>3. plan \in Seq(StepNames) /\ \A i \in DOMAIN plan : plan[i] = "write" => i \in {3, 3, 3, 3}
    BY <2>1, <2>2, JoinedPlans DEF head
  <2>4. WritesIn(plan) \in 0..4
    BY <2>3, FourWrites
  <2>. QED BY <2>3, <2>4 DEF plan, Fit
<1>2. PleskSetup \in Fit
  <2>1. PleskSetup \in Seq(StepNames)
    BY DEF PleskSetup, StepNames
  <2>2. \A i \in DOMAIN PleskSetup : PleskSetup[i] = "write" => i \in {7, 9, 11, 12}
    BY DEF PleskSetup
  <2>3. WritesIn(PleskSetup) \in 0..4
    BY <2>1, <2>2, FourWrites
  <2>. QED BY <2>1, <2>3 DEF Fit
<1>3. <<"check", "write", "own id", "tell">> \in Fit
  <2>. DEFINE plan == <<"check", "write", "own id", "tell">>
  <2>1. plan \in Seq(StepNames)
    BY DEF StepNames
  <2>2. \A i \in DOMAIN plan : plan[i] = "write" => i \in {2, 2, 2, 2}
    <3>1. DOMAIN plan = 1..4 /\ plan[1] # "write" /\ plan[3] # "write" /\ plan[4] # "write"
      BY DEF plan
    <3>. HIDE DEF plan
    <3>. QED BY <3>1
  <2>. HIDE DEF plan
  <2>3. WritesIn(plan) \in 0..4
    BY <2>1, <2>2, FourWrites
  <2>. QED BY <2>1, <2>3 DEF plan, Fit
<1>4. CpanelAccountBackup \in Fit
  <2>1. CpanelAccountBackup \in Seq(StepNames)
    BY DEF CpanelAccountBackup, StepNames
  <2>2. \A i \in DOMAIN CpanelAccountBackup : CpanelAccountBackup[i] = "write" => i \in {3, 3, 3, 3}
    BY DEF CpanelAccountBackup
  <2>3. WritesIn(CpanelAccountBackup) \in 0..4
    BY <2>1, <2>2, FourWrites
  <2>. QED BY <2>1, <2>3 DEF Fit
<1>. QED BY <1>1, <1>2, <1>3, <1>4

\* No client writes when it reads.
LEMMA ReadsTame == ASSUME NEW p \in ClientProviders PROVE Within(ReadsOf(p), {}, Tame)
<1>1. CASE p = "kinsta"
  <2>1. Within(KinstaReads, {}, Tame)
    BY ReadPlans, SendsWithin, JoinWithin DEF KinstaReads
  <2>. QED BY <1>1, <2>1 DEF ReadsOf
<1>2. CASE p = "rocketnet"
  <2>1. Within(RocketNetReads, {}, Tame)
    BY ReadPlans, SendsWithin, JoinWithin DEF RocketNetReads
  <2>. QED BY <1>2, <2>1 DEF ReadsOf
<1>3. CASE p = "cloudways"
  <2>1. Within(CloudwaysReads, {}, Tame)
    BY ReadPlans, SendsWithin, JoinWithin DEF CloudwaysReads
  <2>. QED BY <1>3, <2>1 DEF ReadsOf
<1>4. CASE p = "pantheon"
  <2>1. Within(PantheonReads, {}, Tame)
    BY ReadPlans, SendsWithin, JoinWithin DEF PantheonReads
  <2>. QED BY <1>4, <2>1 DEF ReadsOf
<1>5. CASE p = "xcloud"
  <2>1. Within(XCloudReads, {}, Tame)
    BY ReadPlans, SendsWithin, JoinWithin DEF XCloudReads
  <2>. QED BY <1>5, <2>1 DEF ReadsOf
<1>6. CASE p = "pressable"
  <2>1. Within(PressableReads, {}, Tame)
    BY ReadPlans, SendsWithin, JoinWithin DEF PressableReads
  <2>. QED BY <1>6, <2>1 DEF ReadsOf
<1>7. CASE p = "instawp"
  <2>1. Within(InstaWpReads, {}, Tame)
    BY ReadPlans, SendsWithin, JoinWithin DEF InstaWpReads
  <2>. QED BY <1>7, <2>1 DEF ReadsOf
<1>8. CASE p = "wpengine"
  <2>1. Within(WpEngineReads, {}, Tame)
    BY ReadPlans, SendsWithin, JoinWithin DEF WpEngineReads
  <2>. QED BY <1>8, <2>1 DEF ReadsOf
<1>9. CASE p = "hostinger"
  <2>1. Within(HostingerReads, {}, Tame)
    BY ReadPlans, SendsWithin, JoinWithin DEF HostingerReads
  <2>. QED BY <1>9, <2>1 DEF ReadsOf
<1>10. CASE p = "sandywp"
  <2>1. Within(SandyWpReads, {}, Tame)
    BY ReadPlans, SendsWithin, JoinWithin DEF SandyWpReads
  <2>. QED BY <1>10, <2>1 DEF ReadsOf
<1>11. CASE p = "plesk"
  <2>1. Within(PleskReads, {}, Tame)
    BY ReadPlans, SendsWithin, JoinWithin DEF PleskReads
  <2>. QED BY <1>11, <2>1 DEF ReadsOf
<1>12. CASE p = "cpanel"
  <2>1. Within(CpanelReads, {}, Tame)
    BY ReadPlans, SendsWithin, JoinWithin DEF CpanelReads
  <2>. QED BY <1>12, <2>1 DEF ReadsOf
<1>. QED BY <1>1, <1>2, <1>3, <1>4, <1>5, <1>6, <1>7, <1>8, <1>9, <1>10, <1>11, <1>12 DEF ClientProviders

\* The kinds of a client whose plans ask or read on after a write.
AskingKinds(p) == {k \in ActionKinds : <<p, k>> \in AsksOn}

\* The plans of the actions: all of them fit, and most write once, at the end.
LEMMA ActionsFit ==
  ASSUME NEW p \in ClientProviders
  PROVE  Within(ActionsOf(p), AskingKinds(p), Tame) /\ Within(ActionsOf(p), {}, Fit)
<1>1. CASE p = "kinsta"
  <2>1. Within(KinstaActions, {}, Tame)
    BY ReadPlans, WritePlans, SendsWithin, JoinWithin DEF KinstaActions
  <2>. QED BY <1>1, <2>1, TameFits DEF ActionsOf, Within
<1>2. CASE p = "rocketnet"
  <2>1. Within(RocketNetActions, {}, Tame)
    BY ReadPlans, WritePlans, SendsWithin, JoinWithin DEF RocketNetActions
  <2>. QED BY <1>2, <2>1, TameFits DEF ActionsOf, Within
<1>3. CASE p = "cloudways"
  <2>1. Within(CloudwaysActions, {}, Tame)
    BY ReadPlans, WritePlans, SendsWithin, JoinWithin DEF CloudwaysActions
  <2>. QED BY <1>3, <2>1, TameFits DEF ActionsOf, Within
<1>4. CASE p = "pantheon"
  <2>1. Within(PantheonActions, {}, Tame)
    BY ReadPlans, WritePlans, SendsWithin, JoinWithin DEF PantheonActions
  <2>. QED BY <1>4, <2>1, TameFits DEF ActionsOf, Within
<1>5. CASE p = "xcloud"
  <2>1. Within(XCloudActions, {}, Tame)
    BY ReadPlans, WritePlans, SendsWithin, JoinWithin DEF XCloudActions
  <2>. QED BY <1>5, <2>1, TameFits DEF ActionsOf, Within
<1>6. CASE p = "pressable"
  <2>1. Within(PressableActions, {}, Tame)
    BY ReadPlans, WritePlans, SendsWithin, JoinWithin DEF PressableActions
  <2>. QED BY <1>6, <2>1, TameFits DEF ActionsOf, Within
<1>7. CASE p = "instawp"
  <2>1. AskingKinds(p) = {"create-backup"}
    BY <1>7 DEF AskingKinds, AsksOn, ActionKinds
  <2>2. Within(InstaWpActions, {"create-backup"}, Tame)
    BY ReadPlans, WritePlans, SendsWithin, SendsAside, JoinWithin DEF InstaWpActions, InstaWpVersions
  <2>3. Within(InstaWpActions, {}, Fit)
    BY TameFits, PlansThatAskOn, ReadPlans, WritePlans, SendsWithin, JoinWithin DEF InstaWpActions, InstaWpVersions
  <2>. QED BY <1>7, <2>1, <2>2, <2>3 DEF ActionsOf
<1>8. CASE p = "wpengine"
  <2>1. Within(WpEngineActions, {}, Tame)
    BY ReadPlans, WritePlans, SendsWithin, JoinWithin DEF WpEngineActions
  <2>. QED BY <1>8, <2>1, TameFits DEF ActionsOf, Within
<1>9. CASE p = "hostinger"
  <2>1. Within(HostingerActions, {}, Tame)
    BY ReadPlans, WritePlans, SendsWithin, JoinWithin DEF HostingerActions
  <2>. QED BY <1>9, <2>1, TameFits DEF ActionsOf, Within
<1>10. CASE p = "sandywp"
  <2>1. Within(SandyWpActions, {}, Tame)
    BY ReadPlans, WritePlans, SendsWithin, JoinWithin DEF SandyWpActions
  <2>. QED BY <1>10, <2>1, TameFits DEF ActionsOf, Within
<1>11. CASE p = "plesk"
  <2>1. AskingKinds(p) = {"create-backup", "setup-novamira"}
    BY <1>11 DEF AskingKinds, AsksOn, ActionKinds
  <2>2. Within(PleskActions, {"create-backup", "setup-novamira"}, Tame)
    BY ReadPlans, WritePlans, SendsWithin, SendsAside, JoinWithin DEF PleskActions
  <2>3. Within(PleskActions, {}, Fit)
    BY TameFits, PlansThatAskOn, ReadPlans, WritePlans, SendsWithin, JoinWithin DEF PleskActions
  <2>. QED BY <1>11, <2>1, <2>2, <2>3 DEF ActionsOf
<1>12. CASE p = "cpanel"
  <2>1. AskingKinds(p) = {"create-backup"}
    BY <1>12 DEF AskingKinds, AsksOn, ActionKinds
  <2>2. Within(CpanelActions, {"create-backup"}, Tame)
    BY ReadPlans, WritePlans, SendsWithin, SendsAside, JoinWithin DEF CpanelActions
  <2>3. Within(CpanelActions, {}, Fit)
    BY TameFits, PlansThatAskOn, ReadPlans, WritePlans, SendsWithin, JoinWithin DEF CpanelActions
  <2>. QED BY <1>12, <2>1, <2>2, <2>3 DEF ActionsOf
<1>. QED BY <1>1, <1>2, <1>3, <1>4, <1>5, <1>6, <1>7, <1>8, <1>9, <1>10, <1>11, <1>12 DEF ClientProviders

\* The kinds that are in a table.
Keys(f, S) == DOMAIN f = S

\* The kinds of a table with one plan.
LEMMA SendsKeys == ASSUME NEW K, NEW plan PROVE Keys(Sends(K, plan), K)
BY SendsIs DEF Keys

\* The kinds of two tables together.
LEMMA JoinKeys ==
  ASSUME NEW f, NEW g, NEW S, NEW T, Keys(f, S), Keys(g, T)
  PROVE  Keys(f ++ g, S \cup T)
BY JoinIs DEF Keys

\* A kind of the first table has its plan there.
LEMMA JoinFirst == ASSUME NEW f, NEW g, NEW k \in DOMAIN f PROVE (f ++ g)[k] = f[k]
BY JoinIs

\* A kind of the second table only has its plan there.
LEMMA JoinSecond ==
  ASSUME NEW f, NEW g, NEW k \in DOMAIN g, k \notin DOMAIN f
  PROVE  (f ++ g)[k] = g[k]
<1>1. k \in DOMAIN f \cup DOMAIN g
  OBVIOUS
<1>2. (f ++ g)[k] = IF k \in DOMAIN f THEN f[k] ELSE g[k]
  BY <1>1, JoinIs, ZenonT(60)
<1>. QED BY <1>2

\* The plans of a client are those of its reads and its actions.
LEMMA PlansKeys ==
  ASSUME NEW p \in ClientProviders
  PROVE  /\ DOMAIN Plans(p) = DOMAIN ReadsOf(p) \cup DOMAIN ActionsOf(p)
         /\ \A k \in DOMAIN ReadsOf(p) : Plans(p)[k] = ReadsOf(p)[k]
         /\ \A k \in DOMAIN ActionsOf(p) \ DOMAIN ReadsOf(p) : Plans(p)[k] = ActionsOf(p)[k]
<1>1. DOMAIN Plans(p) = DOMAIN ReadsOf(p) \cup DOMAIN ActionsOf(p)
  BY JoinIs DEF Plans
<1>2. ASSUME NEW k \in DOMAIN ReadsOf(p)
      PROVE  Plans(p)[k] = ReadsOf(p)[k]
  BY JoinFirst, <1>2 DEF Plans
<1>3. ASSUME NEW k \in DOMAIN ActionsOf(p), k \notin DOMAIN ReadsOf(p)
      PROVE  Plans(p)[k] = ActionsOf(p)[k]
  BY JoinSecond, <1>3 DEF Plans
<1>. QED BY <1>1, <1>2, <1>3

\* What a client claims is in its tables, setups with a module of their own aside.
LEMMA ClaimsPlanned ==
  ASSUME NEW p \in ClientProviders, NEW k \in ServedKinds, CapabilityOf(k) \in ClaimsOf(p),
         <<p, k>> # <<"rocketnet", "site-domain-verification">>,
         k = "setup-novamira" => p \notin SetUpElsewhere
  PROVE  k \in DOMAIN Plans(p)
<1>. SUFFICES k \in DOMAIN ReadsOf(p) \cup DOMAIN ActionsOf(p)
  BY PlansKeys
<1>. USE DEF ReadKinds, ActionKinds, CreateSites, CreateEnvironments, ClearCaches, UpdateOnes, UpdateAlls
<1>1. CASE p = "kinsta"
  <2>1. CapabilityOf(k) \in KinstaClaims
    BY <1>1 DEF ClaimsOf
  <2>2. Keys(KinstaReads, {"capabilities"} \cup {"regions", "activity", "dns-domains",
         "company-plugins", "company-themes"} \cup {"analytics-env"} \cup {"logs",
         "analytics-usage"} \cup ReadKinds)
    <3>. HIDE DEF ReadKinds
    <3>. QED BY SendsKeys, JoinKeys DEF KinstaReads
  <2>3. Keys(KinstaActions, CreateSites \cup UpdateAlls \cup (ActionKinds \ {"setup-novamira"}))
    <3>. HIDE DEF ReadKinds, ActionKinds, CreateSites, CreateEnvironments, ClearCaches, UpdateOnes, UpdateAlls
    <3>. QED BY SendsKeys, JoinKeys DEF KinstaActions
  <2>4. k \in DOMAIN KinstaReads \cup DOMAIN KinstaActions
    BY <1>1, <2>1, <2>2, <2>3 DEF Keys, KinstaClaims, PublicCapabilities, CapabilityOf, ServedKinds, SetUpElsewhere
  <2>. QED BY <1>1, <2>4 DEF ReadsOf, ActionsOf
<1>2. CASE p = "rocketnet"
  <2>1. CapabilityOf(k) \in RocketNetClaims
    BY <1>2 DEF ClaimsOf
  <2>2. Keys(RocketNetReads, {"capabilities"} \cup {"regions", "activity", "site-domains",
         "backups", "plugins", "themes", "analytics-usage", "file-list"} \cup {"logs",
         "analytics-env"})
    <3>. HIDE DEF ReadKinds
    <3>. QED BY SendsKeys, JoinKeys DEF RocketNetReads
  <2>3. Keys(RocketNetActions, ({"create-site-clone", "create-backup", "restore-backup",
         "run-wp-cli"} \cup ClearCaches) \cup (CreateSites \cup CreateEnvironments \cup
         UpdateOnes \cup UpdateAlls \cup {"add-domain", "change-primary-domain"}))
    <3>. HIDE DEF ReadKinds, ActionKinds, CreateSites, CreateEnvironments, ClearCaches, UpdateOnes, UpdateAlls
    <3>. QED BY SendsKeys, JoinKeys DEF RocketNetActions
  <2>4. k # "site-domain-verification"
    BY <1>2
  <2>5. k \in DOMAIN RocketNetReads \cup DOMAIN RocketNetActions
    <3>1. CASE k \in ReadKinds
      BY <3>1, <2>1, <2>2, <2>4 DEF Keys, RocketNetClaims, CapabilityOf, ServedKinds
    <3>2. CASE k \in ActionKinds
      BY <3>2, <2>1, <2>3, <2>4, ZenonT(60) DEF Keys, RocketNetClaims, CapabilityOf, PublicCapabilities, ServedKinds
    <3>. QED BY <3>1, <3>2 DEF ServedKinds
  <2>. QED BY <1>2, <2>5 DEF ReadsOf, ActionsOf
<1>3. CASE p = "cloudways"
  <2>1. CapabilityOf(k) \in CloudwaysClaims
    BY <1>3 DEF ClaimsOf
  <2>2. Keys(CloudwaysReads, {"capabilities"} \cup {"regions"} \cup {"plugins",
         "analytics-usage", "analytics-env", "activity"})
    <3>. HIDE DEF ReadKinds
    <3>. QED BY SendsKeys, JoinKeys DEF CloudwaysReads
  <2>3. Keys(CloudwaysActions, {"restart-php"} \cup (CreateSites \cup CreateEnvironments \cup
         ClearCaches \cup {"add-domain", "change-primary-domain", "create-backup"}))
    <3>. HIDE DEF ReadKinds, ActionKinds, CreateSites, CreateEnvironments, ClearCaches, UpdateOnes, UpdateAlls
    <3>. QED BY SendsKeys, JoinKeys DEF CloudwaysActions
  <2>4. k \in DOMAIN CloudwaysReads \cup DOMAIN CloudwaysActions
    BY <1>3, <2>1, <2>2, <2>3 DEF Keys, CloudwaysClaims, PublicCapabilities, CapabilityOf, ServedKinds, SetUpElsewhere
  <2>. QED BY <1>3, <2>4 DEF ReadsOf, ActionsOf
<1>4. CASE p = "pantheon"
  <2>1. CapabilityOf(k) \in PantheonClaims
    BY <1>4 DEF ClaimsOf
  <2>2. Keys(PantheonReads, {"capabilities"} \cup {"site-domains", "backups",
         "downloadable-backups", "analytics-env"})
    <3>. HIDE DEF ReadKinds
    <3>. QED BY SendsKeys, JoinKeys DEF PantheonReads
  <2>3. Keys(PantheonActions, {"create-site", "create-site-plain"} \cup (CreateEnvironments \cup
         ClearCaches \cup {"add-domain", "change-primary-domain", "create-backup",
         "restore-backup"}))
    <3>. HIDE DEF ReadKinds, ActionKinds, CreateSites, CreateEnvironments, ClearCaches, UpdateOnes, UpdateAlls
    <3>. QED BY SendsKeys, JoinKeys DEF PantheonActions
  <2>4. k \in DOMAIN PantheonReads \cup DOMAIN PantheonActions
    BY <1>4, <2>1, <2>2, <2>3 DEF Keys, PantheonClaims, PublicCapabilities, CapabilityOf, ServedKinds, SetUpElsewhere
  <2>. QED BY <1>4, <2>4 DEF ReadsOf, ActionsOf
<1>5. CASE p = "xcloud"
  <2>1. CapabilityOf(k) \in XCloudClaims
    BY <1>5 DEF ClaimsOf
  <2>2. Keys(XCloudReads, {"capabilities"} \cup {"site-domains", "backups", "plugins", "themes",
         "logs", "activity"})
    <3>. HIDE DEF ReadKinds
    <3>. QED BY SendsKeys, JoinKeys DEF XCloudReads
  <2>3. Keys(XCloudActions, UpdateOnes \cup (UpdateAlls \cup {"clear-cache", "create-backup"}))
    <3>. HIDE DEF ReadKinds, ActionKinds, CreateSites, CreateEnvironments, ClearCaches, UpdateOnes, UpdateAlls
    <3>. QED BY SendsKeys, JoinKeys DEF XCloudActions
  <2>4. k \in DOMAIN XCloudReads \cup DOMAIN XCloudActions
    BY <1>5, <2>1, <2>2, <2>3 DEF Keys, XCloudClaims, PublicCapabilities, CapabilityOf, ServedKinds, SetUpElsewhere
  <2>. QED BY <1>5, <2>4 DEF ReadsOf, ActionsOf
<1>6. CASE p = "pressable"
  <2>1. CapabilityOf(k) \in PressableClaims
    BY <1>6 DEF ClaimsOf
  <2>2. Keys(PressableReads, {"capabilities"} \cup {"regions", "site-domains", "backups",
         "plugins", "analytics-usage", "dns-domains"} \cup {"logs", "activity"})
    <3>. HIDE DEF ReadKinds
    <3>. QED BY SendsKeys, JoinKeys DEF PressableReads
  <2>3. Keys(PressableActions, (CreateSites \cup {"add-domain"}) \cup (ClearCaches \cup
         {"run-wp-cli"}))
    <3>. HIDE DEF ReadKinds, ActionKinds, CreateSites, CreateEnvironments, ClearCaches, UpdateOnes, UpdateAlls
    <3>. QED BY SendsKeys, JoinKeys DEF PressableActions
  <2>4. k \in DOMAIN PressableReads \cup DOMAIN PressableActions
    BY <1>6, <2>1, <2>2, <2>3 DEF Keys, PressableClaims, PublicCapabilities, CapabilityOf, ServedKinds, SetUpElsewhere
  <2>. QED BY <1>6, <2>4 DEF ReadsOf, ActionsOf
<1>7. CASE p = "instawp"
  <2>1. CapabilityOf(k) \in InstaWpClaims
    BY <1>7 DEF ClaimsOf
  <2>2. Keys(InstaWpReads, {"capabilities"} \cup {"backups"})
    <3>. HIDE DEF ReadKinds
    <3>. QED BY SendsKeys, JoinKeys DEF InstaWpReads
  <2>3. Keys(InstaWpActions, (CreateSites \cup {"run-wp-cli"}) \cup ({"create-backup"} \cup
         {"restore-backup"}))
    <3>. HIDE DEF ReadKinds, ActionKinds, CreateSites, CreateEnvironments, ClearCaches, UpdateOnes, UpdateAlls
    <3>. QED BY SendsKeys, JoinKeys DEF InstaWpActions, InstaWpVersions
  <2>4. k \in DOMAIN InstaWpReads \cup DOMAIN InstaWpActions
    BY <1>7, <2>1, <2>2, <2>3 DEF Keys, InstaWpClaims, PublicCapabilities, CapabilityOf, ServedKinds, SetUpElsewhere
  <2>. QED BY <1>7, <2>4 DEF ReadsOf, ActionsOf
<1>8. CASE p = "wpengine"
  <2>1. CapabilityOf(k) \in WpEngineClaims
    BY <1>8 DEF ClaimsOf
  <2>2. Keys(WpEngineReads, {"capabilities"} \cup {"site-domains", "backups",
         "downloadable-backups"})
    <3>. HIDE DEF ReadKinds
    <3>. QED BY SendsKeys, JoinKeys DEF WpEngineReads
  <2>3. Keys(WpEngineActions, ((CreateSites \cup CreateEnvironments \cup ClearCaches \cup
         {"add-domain", "change-primary-domain", "create-backup", "restore-backup"}) \
         {"create-site-clone", "create-environment-clone"}))
    <3>. HIDE DEF ReadKinds, ActionKinds, CreateSites, CreateEnvironments, ClearCaches, UpdateOnes, UpdateAlls
    <3>. QED BY SendsKeys, JoinKeys DEF WpEngineActions
  <2>4. k \in DOMAIN WpEngineReads \cup DOMAIN WpEngineActions
    BY <1>8, <2>1, <2>2, <2>3 DEF Keys, WpEngineClaims, PublicCapabilities, CapabilityOf, ServedKinds, SetUpElsewhere
  <2>. QED BY <1>8, <2>4 DEF ReadsOf, ActionsOf
<1>9. CASE p = "hostinger"
  <2>1. CapabilityOf(k) \in HostingerClaims
    BY <1>9 DEF ClaimsOf
  <2>2. Keys(HostingerReads, {"capabilities"} \cup {"dns-domains", "dns-records"} \cup
         {"plugins", "regions", "site-domains"})
    <3>. HIDE DEF ReadKinds
    <3>. QED BY SendsKeys, JoinKeys DEF HostingerReads
  <2>3. Keys(HostingerActions, ({"create-site", "create-site-plain", "add-domain"} \cup
         CreateEnvironments))
    <3>. HIDE DEF ReadKinds, ActionKinds, CreateSites, CreateEnvironments, ClearCaches, UpdateOnes, UpdateAlls
    <3>. QED BY SendsKeys, JoinKeys DEF HostingerActions
  <2>4. k \in DOMAIN HostingerReads \cup DOMAIN HostingerActions
    BY <1>9, <2>1, <2>2, <2>3 DEF Keys, HostingerClaims, PublicCapabilities, CapabilityOf, ServedKinds, SetUpElsewhere
  <2>. QED BY <1>9, <2>4 DEF ReadsOf, ActionsOf
<1>10. CASE p = "sandywp"
  <2>1. CapabilityOf(k) \in SandyWpClaims
    BY <1>10 DEF ClaimsOf
  <2>2. Keys(SandyWpReads, {"capabilities"})
    <3>. HIDE DEF ReadKinds
    <3>. QED BY SendsKeys, JoinKeys DEF SandyWpReads
  <2>3. Keys(SandyWpActions, CreateSites)
    <3>. HIDE DEF ReadKinds, ActionKinds, CreateSites, CreateEnvironments, ClearCaches, UpdateOnes, UpdateAlls
    <3>. QED BY SendsKeys, JoinKeys DEF SandyWpActions
  <2>4. k \in DOMAIN SandyWpReads \cup DOMAIN SandyWpActions
    BY <1>10, <2>1, <2>2, <2>3 DEF Keys, SandyWpClaims, PublicCapabilities, CapabilityOf, ServedKinds, SetUpElsewhere
  <2>. QED BY <1>10, <2>4 DEF ReadsOf, ActionsOf
<1>11. CASE p = "plesk"
  <2>1. CapabilityOf(k) \in PleskClaims
    BY <1>11 DEF ClaimsOf
  <2>2. Keys(PleskReads, {"capabilities"} \cup {"backups", "plugins"})
    <3>. HIDE DEF ReadKinds
    <3>. QED BY SendsKeys, JoinKeys DEF PleskReads
  <2>3. Keys(PleskActions, {"push-environment"} \cup {"create-backup"} \cup {"restore-backup"}
         \cup {"setup-novamira"})
    <3>. HIDE DEF ReadKinds, ActionKinds, CreateSites, CreateEnvironments, ClearCaches, UpdateOnes, UpdateAlls
    <3>. QED BY SendsKeys, JoinKeys DEF PleskActions
  <2>4. k \in DOMAIN PleskReads \cup DOMAIN PleskActions
    BY <1>11, <2>1, <2>2, <2>3 DEF Keys, PleskClaims, PublicCapabilities, CapabilityOf, ServedKinds, SetUpElsewhere
  <2>. QED BY <1>11, <2>4 DEF ReadsOf, ActionsOf
<1>12. CASE p = "cpanel"
  <2>1. CapabilityOf(k) \in CpanelClaims
    BY <1>12 DEF ClaimsOf
  <2>2. Keys(CpanelReads, {"capabilities"} \cup {"backups"} \cup {"logs"})
    <3>. HIDE DEF ReadKinds
    <3>. QED BY SendsKeys, JoinKeys DEF CpanelReads
  <2>3. Keys(CpanelActions, {"create-backup"})
    <3>. HIDE DEF ReadKinds, ActionKinds, CreateSites, CreateEnvironments, ClearCaches, UpdateOnes, UpdateAlls
    <3>. QED BY SendsKeys, JoinKeys DEF CpanelActions
  <2>4. k \in DOMAIN CpanelReads \cup DOMAIN CpanelActions
    BY <1>12, <2>1, <2>2, <2>3 DEF Keys, CpanelClaims, PublicCapabilities, CapabilityOf, ServedKinds, SetUpElsewhere
  <2>. QED BY <1>12, <2>4 DEF ReadsOf, ActionsOf
<1>. QED BY <1>1, <1>2, <1>3, <1>4, <1>5, <1>6, <1>7, <1>8, <1>9, <1>10, <1>11, <1>12 DEF ClientProviders

\* What is left of a plan, after a step of it.
LEMMA StepOff ==
  ASSUME NEW s \in Seq(StepNames), s # <<>>
  PROVE  /\ Head(s) \in StepNames /\ Tail(s) \in Seq(StepNames)
         /\ 1 \in DOMAIN s /\ Head(s) = s[1]
         /\ \A i \in DOMAIN Tail(s) : i \in Nat /\ i + 1 \in DOMAIN s /\ Tail(s)[i] = s[i + 1]
<1>1. Len(s) \in Nat \ {0} /\ DOMAIN s = 1..Len(s) /\ Head(s) = s[1]
  OBVIOUS
<1>2. /\ Head(s) \in StepNames /\ Tail(s) \in Seq(StepNames) /\ Len(Tail(s)) = Len(s) - 1
      /\ \A i \in 1..Len(Tail(s)) : Tail(s)[i] = s[i + 1]
  BY HeadTailProperties
<1>3. DOMAIN Tail(s) = 1..Len(s) - 1
  BY <1>2
<1>. QED BY <1>1, <1>2, <1>3

\* The writes that are left.
LEMMA WritesLeft ==
  ASSUME NEW s \in Seq(StepNames)
  PROVE  WritesIn(s) \in Nat /\ IsFiniteSet({i \in DOMAIN s : s[i] = "write"})
<1>. DEFINE W == {i \in DOMAIN s : s[i] = "write"}
<1>1. Len(s) \in Int /\ W \subseteq 1..Len(s)
  OBVIOUS
<1>2. IsFiniteSet(1..Len(s))
  BY <1>1, FS_Interval
<1>3. IsFiniteSet(W)
  BY <1>1, <1>2, FS_Subset
<1>. QED BY <1>3, FS_CardinalityType DEF WritesIn

\* A step less is a write less when it was one.
LEMMA WritesStepOff ==
  ASSUME NEW s \in Seq(StepNames), s # <<>>
  PROVE  /\ WritesIn(Tail(s)) \in Nat /\ WritesIn(s) \in Nat
         /\ WritesIn(Tail(s)) <= WritesIn(s)
         /\ Head(s) = "write" => WritesIn(Tail(s)) + 1 <= WritesIn(s)
<1>. DEFINE t == Tail(s)
            W == {i \in DOMAIN s : s[i] = "write"}
            V == {i \in DOMAIN t : t[i] = "write"}
            Next1 == [i \in V |-> i + 1]
<1>1. /\ t \in Seq(StepNames) /\ 1 \in DOMAIN s /\ Head(s) = s[1]
      /\ \A i \in DOMAIN t : i \in Nat /\ i + 1 \in DOMAIN s /\ t[i] = s[i + 1]
  BY StepOff
<1>2. IsFiniteSet(W) /\ WritesIn(s) \in Nat /\ WritesIn(s) = Cardinality(W)
  BY WritesLeft DEF WritesIn
<1>3. IsFiniteSet(V) /\ WritesIn(t) \in Nat /\ WritesIn(t) = Cardinality(V)
  BY <1>1, WritesLeft DEF WritesIn
<1>4. IsFiniteSet(W \ {1}) /\ Cardinality(W \ {1}) = IF 1 \in W THEN Cardinality(W) - 1 ELSE Cardinality(W)
  BY <1>2, FS_RemoveElement
<1>5. \A i \in DOMAIN t : i # 0
  <2>1. DOMAIN t = 1..Len(t)
    BY <1>1
  <2>. QED BY <2>1
<1>6. Next1 \in Injection(V, W \ {1})
  <2>1. \A i \in V : i + 1 \in W \ {1}
    BY <1>1, <1>5
  <2>2. \A i, j \in V : i + 1 = j + 1 => i = j
    BY <1>1
  <2>. HIDE DEF V, W
  <2>. QED BY <2>1, <2>2 DEF Injection, IsInjective
<1>. HIDE DEF Next1
<1>7. Cardinality(V) <= Cardinality(W \ {1})
  BY <1>4, <1>6, FS_Injection, ZenonT(60)
<1>8. Head(s) = "write" => 1 \in W
  BY <1>1
<1>. HIDE DEF t, V, W
<1>. QED BY <1>2, <1>3, <1>4, <1>7, <1>8 DEF t

\* After the last write only what may fail unnoticed is left.
LEMMA TellsStepOff ==
  ASSUME NEW s \in Seq(StepNames), s # <<>>
  PROVE  /\ WritesLast(s) => WritesLast(Tail(s))
         /\ WritesLast(s) /\ Head(s) = "write" => OnlyTells(Tail(s))
         /\ OnlyTells(s) => Head(s) = "tell" /\ OnlyTells(Tail(s))
<1>. DEFINE t == Tail(s)
<1>1. /\ t \in Seq(StepNames) /\ 1 \in DOMAIN s /\ Head(s) = s[1]
      /\ \A i \in DOMAIN t : i \in Nat /\ i + 1 \in DOMAIN s /\ t[i] = s[i + 1]
  BY StepOff
<1>2. \A i \in DOMAIN t : i # 0
  <2>1. DOMAIN t = 1..Len(t)
    BY <1>1
  <2>. QED BY <2>1
<1>. HIDE DEF t
<1>3. WritesLast(s) => WritesLast(t)
  <2>. SUFFICES ASSUME WritesLast(s), NEW i \in DOMAIN t, t[i] = "write", NEW j \in DOMAIN t, i < j
                PROVE  t[j] = "tell"
    BY DEF WritesLast
  <2>1. i + 1 \in DOMAIN s /\ j + 1 \in DOMAIN s /\ i + 1 < j + 1 /\ s[i + 1] = "write"
    BY <1>1
  <2>2. s[j + 1] = "tell"
    BY <2>1 DEF WritesLast
  <2>. QED BY <1>1, <2>2
<1>4. WritesLast(s) /\ Head(s) = "write" => OnlyTells(t)
  <2>. SUFFICES ASSUME WritesLast(s), Head(s) = "write", NEW j \in DOMAIN t PROVE t[j] = "tell"
    BY DEF OnlyTells
  <2>1. j + 1 \in DOMAIN s /\ 1 < j + 1 /\ s[1] = "write"
    BY <1>1, <1>2
  <2>2. s[j + 1] = "tell"
    BY <1>1, <2>1 DEF WritesLast
  <2>. QED BY <1>1, <2>2
<1>5. OnlyTells(s) => Head(s) = "tell" /\ OnlyTells(t)
  BY <1>1 DEF OnlyTells
<1>. QED BY <1>3, <1>4, <1>5 DEF t

\* The plan that a wish is dispatched to.
LEMMA PlanFits ==
  ASSUME NEW p \in ClientProviders, NEW k \in DOMAIN Plans(p)
  PROVE  Plans(p)[k] \in Fit /\ (<<p, k>> \notin AsksOn => Plans(p)[k] \in Tame)
<1>1. CASE k \in DOMAIN ReadsOf(p)
  <2>1. ReadsOf(p)[k] \in Tame
    BY <1>1, ReadsTame DEF Within
  <2>. QED BY <1>1, <2>1, PlansKeys, TameFits
<1>2. CASE k \notin DOMAIN ReadsOf(p)
  <2>1. k \in DOMAIN ActionsOf(p) /\ Plans(p)[k] = ActionsOf(p)[k]
    BY <1>2, PlansKeys
  <2>2. ActionsOf(p)[k] \in Fit
    BY <2>1, ActionsFit DEF Within
  <2>3. ASSUME <<p, k>> \notin AsksOn PROVE ActionsOf(p)[k] \in Tame
    <3>1. k \notin AskingKinds(p)
      BY <2>3 DEF AskingKinds
    <3>. QED BY <2>1, <3>1, ActionsFit DEF Within
  <2>. QED BY <2>1, <2>2, <2>3
<1>. QED BY <1>1, <1>2

\* What is asked of a client is one of the kinds it serves.
LEMMA WishIs ==
  ASSUME NEW w \in Wishes
  PROVE  /\ w.provider \in ClientProviders /\ w.kind \in ActionKinds \cup ReadKinds
         /\ w.kind = "setup-novamira" => w.provider \notin SetUpElsewhere
<1>1. CASE w \in [provider : ClientProviders, kind : ReadKinds, body : {{}}]
  <2>1. w.kind # "setup-novamira"
    BY <1>1 DEF ReadKinds
  <2>. QED BY <1>1, <2>1
<1>2. ASSUME NEW k \in ActionKinds,
             w \in [provider : ClientProviders \ (IF k = "setup-novamira" THEN SetUpElsewhere ELSE {}),
                    kind : {k}, body : FlagBodies(k) \cup FileBodies(k)]
      PROVE  /\ w.provider \in ClientProviders /\ w.kind \in ActionKinds \cup ReadKinds
             /\ w.kind = "setup-novamira" => w.provider \notin SetUpElsewhere
  BY <1>2
<1>. DEFINE Of(k) == [provider : ClientProviders \ (IF k = "setup-novamira" THEN SetUpElsewhere ELSE {}),
                       kind : {k}, body : FlagBodies(k) \cup FileBodies(k)]
            Reads == [provider : ClientProviders, kind : ReadKinds, body : {{}}]
<1>3. w \in (UNION {Of(k) : k \in ActionKinds}) \cup Reads
  BY Zenon DEF Wishes
<1>4. \A k \in ActionKinds : w \in Of(k) =>
        /\ w.provider \in ClientProviders /\ w.kind \in ActionKinds \cup ReadKinds
        /\ w.kind = "setup-novamira" => w.provider \notin SetUpElsewhere
  BY <1>2
<1>5. w \in Reads =>
        /\ w.provider \in ClientProviders /\ w.kind \in ActionKinds \cup ReadKinds
        /\ w.kind = "setup-novamira" => w.provider \notin SetUpElsewhere
  BY <1>1
<1>. HIDE DEF Of, Reads
<1>. DEFINE All == {Of(k) : k \in ActionKinds}
<1>6. \A S \in All : \E k \in ActionKinds : S = Of(k)
  OBVIOUS
<1>. HIDE DEF All
<1>7. w \in (UNION All) \cup Reads
  BY <1>3 DEF All
<1>8. w \in Reads \/ \E S \in All : w \in S
  BY <1>7
<1>9. w \in Reads \/ \E k \in ActionKinds : w \in Of(k)
  BY <1>6, <1>8
<1>. QED BY <1>4, <1>5, <1>9

\* Nothing is written before a request is dispatched.
LEMMA ActStarts == ActInit => ActInv
<1>. SUFFICES ASSUME ActInit PROVE ActInv
  OBVIOUS
<1>1. <<>> \in Seq(StepNames) /\ \A i \in DOMAIN <<>> : FALSE
  OBVIOUS
<1>2. WritesIn(<<>>) = 0
  <2>1. {i \in DOMAIN <<>> : <<>>[i] = "write"} = {}
    BY <1>1
  <2>. QED BY <2>1, FS_EmptySet DEF WritesIn
<1>0. wish \in Wishes /\ steps = <<>> /\ at = "start" /\ written = 0 /\ verdict = "none"
  BY DEF ActInit
<1>3. ActTypeOK
  <2>1. 0 \in 0..4 /\ "start" \in StepNames \cup {"start", "dispatch"} /\ "none" \in AnswerCodes \cup {"none", "done"}
    OBVIOUS
  <2>. QED BY <1>0, <1>1, <2>1, Zenon DEF ActTypeOK
<1>4. WritesLast(steps)
  BY <1>1 DEF ActInit, WritesLast
<1>5. RejectedNeverWrote
  BY DEF ActInit, RejectedNeverWrote
<1>6. written + WritesIn(steps) <= 4
  <2>1. written = 0 /\ WritesIn(steps) = 0
    BY <1>0, <1>2, Zenon
  <2>. QED BY <2>1
<1>7. PlanKept
  <2>1. ~(steps # <<>>) /\ ~(written > 0) /\ at # "dispatch"
    BY <1>0
  <2>. QED BY <1>0, <1>4, <1>5, <1>6, <2>1, Zenon DEF PlanKept
<1>. QED BY <1>3, <1>7 DEF ActInv

\* A step of a plan: what it writes, and what it may fail with.
LEMMA PlanStep ==
  ASSUME ActInv, NEW names \in SUBSET StepNames, Steps(names),
         \/ written' = written
         \/ written' = written + 1 /\ Head(steps) = "write",
         verdict' \in AnswerCodes \cup {"none"},
         verdict' # "none" /\ RowSays(verdict') = "failed" => written' = written /\ Head(steps) # "tell"
  PROVE  ActInv'
<1>1. /\ ActTypeOK /\ PlanKept /\ wish' = wish /\ steps' = Tail(steps) /\ steps # <<>>
      /\ at' = Head(steps) /\ verdict = "none" /\ wish \in Wishes /\ steps \in Seq(StepNames)
      /\ written \in 0..4 /\ Head(steps) \in names
  BY DEF ActInv, ActTypeOK, Steps
<1>2. /\ WritesIn(steps') \in Nat /\ WritesIn(steps) \in Nat /\ WritesIn(steps') <= WritesIn(steps)
      /\ Head(steps) = "write" => WritesIn(steps') + 1 <= WritesIn(steps)
  BY <1>1, WritesStepOff
<1>3. written + WritesIn(steps) <= 4
  BY <1>1 DEF PlanKept
<1>4. written' + WritesIn(steps') <= 4 /\ written' \in 0..4
  <2>. DEFINE m == WritesIn(steps)
              n == WritesIn(steps')
  <2>1. m \in Nat /\ n \in Nat /\ n <= m /\ written + m <= 4 /\ written \in 0..4
    BY <1>1, <1>2, <1>3
  <2>2. written' = written \/ (written' = written + 1 /\ n + 1 <= m)
    BY <1>2
  <2>. HIDE DEF m, n
  <2>3. written' + n <= 4 /\ written' \in 0..4
    BY <2>1, <2>2
  <2>. QED BY <2>3 DEF n
<1>5. steps' \in Seq(StepNames) /\ at' \in StepNames
  BY <1>1, StepOff
<1>6. ActTypeOK'
  <2>1. wish' \in Wishes /\ verdict' \in AnswerCodes \cup {"none", "done"}
    BY <1>1
  <2>. QED BY <1>4, <1>5, <2>1 DEF ActTypeOK
<1>7. at' # "start" /\ at' # "dispatch"
  BY <1>5 DEF StepNames
<1>8. (wish.kind \in DOMAIN Plans(wish.provider))'
  BY <1>1 DEF PlanKept
<1>9. ASSUME <<wish.provider, wish.kind>> \notin AsksOn
      PROVE  /\ WritesLast(steps')
             /\ written' > 0 /\ verdict' = "none" => OnlyTells(steps')
             /\ RejectedNeverWrote'
  <2>1. WritesLast(steps) /\ (written > 0 => OnlyTells(steps))
    BY <1>1, <1>9 DEF PlanKept
  <2>2. WritesLast(steps')
    BY <1>1, <2>1, TellsStepOff
  <2>3. written' > 0 => OnlyTells(steps')
    <3>1. CASE written > 0
      BY <1>1, <2>1, <3>1, TellsStepOff
    <3>2. CASE Head(steps) = "write"
      BY <1>1, <2>1, <3>2, TellsStepOff
    <3>. QED BY <1>1, <3>1, <3>2
  <2>4. written > 0 => Head(steps) = "tell"
    BY <1>1, <2>1, TellsStepOff
  <2>5. RejectedNeverWrote'
    <3>. SUFFICES ASSUME verdict' # "none", RowSays(verdict') = "failed" PROVE written' = 0
      BY DEF RejectedNeverWrote, Failed
    <3>1. written' = written /\ ~(written > 0) /\ written \in 0..4
      BY <1>1, <2>4
    <3>. QED BY <3>1
  <2>. QED BY <2>2, <2>3, <2>5
<1>10. PlanKept'
  <2>1. (<<wish.provider, wish.kind>> \notin AsksOn)' => <<wish.provider, wish.kind>> \notin AsksOn
    BY <1>1
  <2>. QED BY <1>4, <1>7, <1>8, <1>9, <2>1 DEF PlanKept
<1>. QED BY <1>6, <1>10 DEF ActInv

\* The switch of read() and action().
LEMMA DispatchKeeps == ASSUME ActInv, Dispatch PROVE ActInv'
<1>1. /\ ActTypeOK /\ PlanKept /\ wish' = wish /\ written' = written /\ at = "start" /\ at' = "dispatch"
      /\ wish \in Wishes
  BY DEF ActInv, ActTypeOK, Dispatch
<1>2. steps = <<>> /\ written = 0 /\ verdict = "none" /\ written + WritesIn(steps) <= 4
      /\ (<<wish.provider, wish.kind>> \notin AsksOn => WritesLast(steps))
  BY <1>1 DEF PlanKept
<1>3. wish.provider \in ClientProviders
  BY <1>1, WishIs
<1>4. RejectedNeverWrote'
  BY <1>1, <1>2 DEF RejectedNeverWrote
<1>5. CASE wish.kind \in DOMAIN Plans(wish.provider)
  <2>. DEFINE plan == Plans(wish.provider)[wish.kind]
  <2>1. steps' = plan /\ verdict' = verdict
    BY <1>5 DEF Dispatch
  <2>2. plan \in Fit /\ (<<wish.provider, wish.kind>> \notin AsksOn => plan \in Tame)
    BY <1>3, <1>5, PlanFits
  <2>. HIDE DEF plan
  <2>3. /\ steps' \in Seq(StepNames) /\ WritesIn(steps') \in 0..4
        /\ <<wish.provider, wish.kind>> \notin AsksOn => WritesLast(steps')
    BY <2>1, <2>2 DEF Fit, Tame
  <2>4. ActTypeOK'
    BY <1>1, <1>2, <2>1, <2>3 DEF ActTypeOK
  <2>5. written' + WritesIn(steps') <= 4 /\ written' = 0 /\ verdict' = "none"
    <3>1. written' = 0 /\ verdict' = "none"
      BY <1>1, <1>2, <2>1
    <3>. QED BY <2>3, <3>1
  <2>6. (wish.kind \in DOMAIN Plans(wish.provider))'
    BY <1>1, <1>5
  <2>7. (<<wish.provider, wish.kind>> \notin AsksOn)' => WritesLast(steps')
    BY <1>1, <2>3
  <2>8. PlanKept'
    <3>1. ~(written' > 0) /\ at' # "start" /\ verdict' # "provider_unsupported"
      BY <1>1, <2>5
    <3>2. written' + WritesIn(steps') <= 4
      BY <2>5
    <3>. QED BY <1>4, <2>6, <2>7, <3>1, <3>2, Zenon DEF PlanKept
  <2>. QED BY <2>4, <2>8 DEF ActInv
<1>6. CASE wish.kind \notin DOMAIN Plans(wish.provider)
  <2>1. steps' = steps /\ verdict' = "provider_unsupported"
    BY <1>6 DEF Dispatch
  <2>2. ActTypeOK'
    BY <1>1, <2>1 DEF ActTypeOK, AnswerCodes
  <2>3. ~(wish.kind \in DOMAIN Plans(wish.provider))'
    BY <1>1, <1>6
  <2>4. /\ steps' = <<>> /\ written' = 0 /\ written' + WritesIn(steps') <= 4
        /\ (<<wish.provider, wish.kind>> \notin AsksOn)' => WritesLast(steps')
    BY <1>1, <1>2, <2>1
  <2>5. PlanKept'
    BY <1>1, <1>4, <2>1, <2>3, <2>4 DEF PlanKept
  <2>. QED BY <2>2, <2>5 DEF ActInv
<1>. QED BY <1>5, <1>6

\* An action that ends keeps its invariant.
LEMMA EndsKeeps == ASSUME ActInv, Ends PROVE ActInv'
<1>1. /\ ActTypeOK /\ PlanKept /\ wish' = wish /\ written' = written /\ at' = at /\ steps' = steps
      /\ verdict' = "done" /\ at # "start"
  BY DEF ActInv, Ends
<1>2. ActTypeOK'
  BY <1>1 DEF ActTypeOK
<1>3. RejectedNeverWrote'
  BY <1>1 DEF RejectedNeverWrote, Failed
<1>4. PlanKept'
  BY <1>1, <1>3 DEF PlanKept
<1>. QED BY <1>2, <1>4 DEF ActInv

\* Every step of an action keeps its invariant.
LEMMA ActSteps == ASSUME ActInv, [ActNext]_actVars PROVE ActInv'
<1>. USE DEF AnswerCodes, RowSays, Passes, FailsWith
<1>1. ASSUME ChecksBody PROVE ActInv'
  <2>1. /\ {"check"} \in SUBSET StepNames /\ Steps({"check"}) /\ written' = written
        /\ verdict' \in AnswerCodes \cup {"none"} /\ Head(steps) = "check"
    BY <1>1 DEF ChecksBody, Steps, StepNames
  <2>. QED BY <2>1, PlanStep
<1>2. ASSUME Looks PROVE ActInv'
  <2>1. /\ {"account", "look", "gate"} \in SUBSET StepNames /\ Steps({"account", "look", "gate"})
        /\ written' = written /\ verdict' \in AnswerCodes \cup {"none"} /\ Head(steps) # "tell"
    BY <1>2 DEF Looks, Steps, StepNames
  <2>. QED BY <2>1, PlanStep
<1>3. ASSUME Compares PROVE ActInv'
  <2>1. /\ {"compare"} \in SUBSET StepNames /\ Steps({"compare"}) /\ written' = written
        /\ verdict' \in AnswerCodes \cup {"none"} /\ Head(steps) = "compare"
    BY <1>3 DEF Compares, Steps, StepNames
  <2>. QED BY <2>1, PlanStep
<1>4. ASSUME Writes PROVE ActInv'
  <2>1. /\ {"write"} \in SUBSET StepNames /\ Steps({"write"}) /\ Head(steps) = "write"
        /\ verdict' \in AnswerCodes \cup {"none"}
        /\ \/ written' = written
           \/ written' = written + 1 /\ verdict' \in {"none", "provider_error"}
    BY <1>4 DEF Writes, Steps, StepNames
  <2>2. verdict' # "none" /\ RowSays(verdict') = "failed" => written' = written /\ Head(steps) # "tell"
    BY <2>1
  <2>. HIDE DEF AnswerCodes, RowSays
  <2>. QED BY <2>1, <2>2, PlanStep
<1>5. ASSUME ReadsOwnId PROVE ActInv'
  <2>1. /\ {"own id"} \in SUBSET StepNames /\ Steps({"own id"}) /\ written' = written
        /\ verdict' \in AnswerCodes \cup {"none"} /\ Head(steps) = "own id"
    BY <1>5 DEF ReadsOwnId, Steps, StepNames
  <2>. QED BY <2>1, PlanStep
<1>6. ASSUME Tells PROVE ActInv'
  <2>1. {"tell"} \in SUBSET StepNames /\ Steps({"tell"}) /\ written' = written /\ verdict' = "none"
    BY <1>6 DEF Tells, Steps, StepNames
  <2>. HIDE DEF AnswerCodes, RowSays
  <2>. QED BY <2>1, PlanStep
<1>7. ASSUME UNCHANGED actVars PROVE ActInv'
  BY <1>7 DEF actVars, ActInv, ActTypeOK, PlanKept, RejectedNeverWrote, Failed
<1>. QED BY <1>1, <1>2, <1>3, <1>4, <1>5, <1>6, <1>7, DispatchKeeps, EndsKeeps DEF ActNext


\* Two clients clone no site, and one clones no environment.
LEMMA NotCloned ==
  /\ \A k \in {"create-site-clone", "create-environment-clone"} : k \notin DOMAIN Plans("wpengine")
  /\ "create-site-clone" \notin DOMAIN Plans("pantheon")
<1>1. "wpengine" \in ClientProviders /\ "pantheon" \in ClientProviders
  BY DEF ClientProviders
<1>2. /\ ReadsOf("wpengine") = WpEngineReads /\ ActionsOf("wpengine") = WpEngineActions
      /\ ReadsOf("pantheon") = PantheonReads /\ ActionsOf("pantheon") = PantheonActions
  BY DEF ReadsOf, ActionsOf
<1>3. Keys(WpEngineReads, {"capabilities"} \cup {"site-domains", "backups", "downloadable-backups"})
  BY SendsKeys, JoinKeys DEF WpEngineReads
<1>4. Keys(WpEngineActions, ((CreateSites \cup CreateEnvironments \cup ClearCaches \cup
         {"add-domain", "change-primary-domain", "create-backup", "restore-backup"}) \
         {"create-site-clone", "create-environment-clone"}))
  BY SendsKeys DEF WpEngineActions
<1>5. Keys(PantheonReads, {"capabilities"} \cup {"site-domains", "backups",
         "downloadable-backups", "analytics-env"})
  BY SendsKeys, JoinKeys DEF PantheonReads
<1>6. Keys(PantheonActions, {"create-site", "create-site-plain"} \cup (CreateEnvironments \cup
         ClearCaches \cup {"add-domain", "change-primary-domain", "create-backup",
         "restore-backup"}))
  BY SendsKeys, JoinKeys DEF PantheonActions
<1>7. \A k \in {"create-site-clone", "create-environment-clone"} : k \notin DOMAIN Plans("wpengine")
  <2>1. DOMAIN Plans("wpengine") = DOMAIN WpEngineReads \cup DOMAIN WpEngineActions
    BY <1>1, <1>2, PlansKeys
  <2>. QED BY <2>1, <1>3, <1>4 DEF Keys
<1>8. "create-site-clone" \notin DOMAIN Plans("pantheon")
  <2>1. DOMAIN Plans("pantheon") = DOMAIN PantheonReads \cup DOMAIN PantheonActions
    BY <1>1, <1>2, PlansKeys
  <2>. QED BY <2>1, <1>5, <1>6 DEF Keys, CreateEnvironments, ClearCaches
<1>. QED BY <1>7, <1>8

\* The flag of a choice is in the body of its command.
LEMMA ChoiceInBody ==
  ASSUME NEW k \in ChoosingKinds, NEW b \in FlagBodies(k)
  PROVE  Chosen(k) \in b
<1>1. CASE k = "create-site-clone"
  <2>1. FlagBodies(k) = SiteClonePayload
    BY <1>1 DEF FlagBodies, ClearCaches, UpdateOnes, UpdateAlls
  <2>2. "source_env_id" \in b
    BY <2>1 DEF SiteClonePayload
  <2>. QED BY <1>1, <2>2 DEF Chosen
<1>2. CASE k = "create-environment-clone"
  <2>1. FlagBodies(k) = EnvironmentClonePayload
    BY <1>2 DEF FlagBodies, ClearCaches, UpdateOnes, UpdateAlls
  <2>2. "source_env_id" \in b
    BY <2>1 DEF EnvironmentClonePayload
  <2>. QED BY <1>2, <2>2 DEF Chosen
<1>3. CASE k = "add-domain"
  <2>1. FlagBodies(k) = DomainAddPayload
    BY <1>3 DEF FlagBodies, ClearCaches, UpdateOnes, UpdateAlls
  <2>2. "domain_name" \in b
    BY <2>1 DEF DomainAddPayload, Flags
  <2>. QED BY <1>3, <2>2 DEF Chosen
<1>4. CASE k = "change-primary-domain"
  <2>1. FlagBodies(k) = DomainPrimaryPayload
    BY <1>4 DEF FlagBodies, ClearCaches, UpdateOnes, UpdateAlls
  <2>2. "domain_id" \in b
    BY <2>1 DEF DomainPrimaryPayload
  <2>. QED BY <1>4, <2>2 DEF Chosen
<1>. QED BY <1>1, <1>2, <1>3, <1>4 DEF ChoosingKinds

\* The choice of an action that is served has a name that its client understands.
LEMMA ChoiceUnderstood ==
  ASSUME NEW p \in ClientProviders, NEW k \in ChoosingKinds, k \in DOMAIN Plans(p),
         <<p, k>> \notin Dropped
  PROVE  Chosen(k) \in Understands(p, k)
<1>1. CASE p = "pantheon"
  <2>1. k # "create-site-clone" /\ k # "create-environment-clone"
    BY <1>1, NotCloned DEF Dropped
  <2>. QED BY <1>1, <2>1 DEF Understands, PantheonUnderstands, Chosen, ChoosingKinds, CreateEnvironments
<1>2. CASE p = "cloudways"
  <2>1. k # "add-domain" /\ k # "change-primary-domain"
    BY <1>2 DEF Dropped
  <2>. QED BY <1>2, <2>1 DEF Understands, CloudwaysUnderstands
<1>3. CASE p = "wpengine"
  <2>1. k # "create-site-clone" /\ k # "create-environment-clone"
    BY <1>3, NotCloned
  <2>. QED BY <1>3, <2>1 DEF Understands, WpEngineUnderstands, Chosen, ChoosingKinds
<1>. QED BY <1>1, <1>2, <1>3 DEF Understands

\* What is kept makes a request come to what was said of it.
LEMMA ActInvHonest == ActInv => ActionsHonest
<1>. SUFFICES ASSUME ActInv PROVE ActionsHonest
  OBVIOUS
<1>1. ActTypeOK /\ PlanKept /\ wish \in Wishes
  BY DEF ActInv, ActTypeOK
<1>2. /\ wish.provider \in ClientProviders
      /\ wish.kind = "setup-novamira" => wish.provider \notin SetUpElsewhere
  BY <1>1, WishIs
<1>3. RejectedWroteNothing
  BY <1>1 DEF PlanKept, RejectedWroteNothing
<1>4. ClaimsServed
  <2>. SUFFICES ASSUME at = "dispatch", verdict = "provider_unsupported", wish.kind \in ServedKinds,
                       <<wish.provider, wish.kind>> # <<"rocketnet", "site-domain-verification">>,
                       CapabilityOf(wish.kind) \in ClaimsOf(wish.provider)
                PROVE  FALSE
    BY DEF ClaimsServed
  <2>1. wish.kind \notin DOMAIN Plans(wish.provider)
    BY <1>1 DEF PlanKept
  <2>. QED BY <1>2, <2>1, ClaimsPlanned
<1>5. ChoicesSentElsewhere
  <2>. SUFFICES ASSUME written > 0, wish.kind \in ChoosingKinds, wish.body \in FlagBodies(wish.kind),
                       <<wish.provider, wish.kind>> \notin Dropped
                PROVE  wish.body \cap Understands(wish.provider, wish.kind) # {}
    BY DEF ChoicesSentElsewhere, ChoicesSent
  <2>1. wish.kind \in DOMAIN Plans(wish.provider)
    BY <1>1 DEF PlanKept
  <2>. QED BY <1>2, <2>1, ChoiceInBody, ChoiceUnderstood
<1>. QED BY <1>3, <1>4, <1>5 DEF ActionsHonest

\* A request is honest, whatever its client is asked and however its steps fail.
THEOREM RequestsHonest == ActSpec => []ActionsHonest
<1>1. ActInit => ActInv
  BY ActStarts
<1>2. ActInv /\ [ActNext]_actVars => ActInv'
  BY ActSteps
<1>3. ActInv => ActionsHonest
  BY ActInvHonest
<1>. QED BY <1>1, <1>2, <1>3, PTL DEF ActSpec


-----------------------------------------------------------------------------
(* The clients and the journal together: what is proved of a part is true  *)
(* of every behaviour in which it, or another part, is at work.            *)
-----------------------------------------------------------------------------

\* What every part keeps, in whatever part a behaviour is.
PartsInv ==
  /\ JInv /\ OpInv /\ PsInv /\ ActInv /\ InventoryInv /\ DiscoveryInv
  /\ TokenInv /\ Len(exchanges) <= MaxExchanges

\* Each part starts as its invariant says.
LEMMA PartsStart == ProvidersInit => PartsInv
<1>. SUFFICES ASSUME ProvidersInit PROVE PartsInv
  OBVIOUS
<1>1. Init /\ OperationsInit /\ PsInit /\ ActInit /\ InventoryInit /\ CpInit /\ PsnInit
  BY DEF ProvidersInit
<1>2. Len(exchanges) <= MaxExchanges
  <2>1. Len(exchanges) = 0 /\ MaxExchanges \in Nat
    BY <1>1, SessionAssumption DEF PsnInit, SessionAssumption
  <2>. QED BY <2>1
<1>. QED
  BY <1>1, <1>2, JInvInit, WaitStarts, SetupStarts, ActStarts, InventoryStarts, DiscoveryStarts,
     TokenStarts, Zenon DEF PartsInv

\* A step of the suite is one of each part, or leaves it alone.
LEMMA PartsStep ==
  ASSUME [ProvidersNext]_<<part, vars, opVars, psVars, actVars, inventoryVars, cpVars, sessionVars>>
  PROVE  /\ [Next]_vars /\ [OperationsNext]_opVars /\ [PsNext]_psVars /\ [ActNext]_actVars
         /\ [InventoryNext]_inventoryVars /\ [CpNext]_cpVars /\ [PsnNext]_sessionVars
<1>1. CASE (Only("retention") /\ Next) \/ (Only("polls") /\ Next)
  BY <1>1 DEF Only
<1>2. CASE Only("operations") /\ OperationsNext
  BY <1>2 DEF Only
<1>3. CASE Only("setups") /\ PsNext
  BY <1>3 DEF Only
<1>4. CASE Only("actions") /\ ActNext
  BY <1>4 DEF Only
<1>5. CASE Only("inventory") /\ InventoryNext
  BY <1>5 DEF Only
<1>6. CASE Only("discovery") /\ CpNext
  BY <1>6 DEF Only
<1>7. CASE Only("tokens") /\ PsnNext
  BY <1>7 DEF Only
<1>8. CASE UNCHANGED <<part, vars, opVars, psVars, actVars, inventoryVars, cpVars, sessionVars>>
  BY <1>8
<1>. QED BY <1>1, <1>2, <1>3, <1>4, <1>5, <1>6, <1>7, <1>8 DEF ProvidersNext

\* What every part keeps is kept in the suite.
LEMMA PartsAlways == ProvidersSpec => []PartsInv
<1>1. ASSUME PartsInv,
             [ProvidersNext]_<<part, vars, opVars, psVars, actVars, inventoryVars, cpVars, sessionVars>>
      PROVE  PartsInv'
  <2>1. /\ [Next]_vars /\ [OperationsNext]_opVars /\ [PsNext]_psVars /\ [ActNext]_actVars
        /\ [InventoryNext]_inventoryVars /\ [CpNext]_cpVars /\ [PsnNext]_sessionVars
    BY <1>1, PartsStep
  <2>. QED
    BY <1>1, <2>1, JInvStep, WaitSteps, PsSteps, ActSteps, InventorySteps, DiscoveryStep,
       TokenSteps, ExchangesCounted DEF PartsInv
<1>. QED BY <1>1, PartsStart, PTL DEF ProvidersSpec

\* The client of a session counts its exchanges.
LEMMA TokensTyped == TokenInv /\ Len(exchanges) <= MaxExchanges => PsnTypeOK
<1>. SUFFICES ASSUME TokenInv, Len(exchanges) <= MaxExchanges PROVE PsnTypeOK
  OBVIOUS
<1>1. /\ Len(exchanges) \in Nat /\ DOMAIN exchanges = 1..Len(exchanges)
      /\ cached \in {0} \cup DOMAIN exchanges /\ promise \in {0} \cup DOMAIN exchanges
      /\ asker \in [Askers -> AskerRecords] /\ MaxExchanges \in Nat
  BY TokensAre, SessionAssumption DEF SessionAssumption
<1>. QED BY <1>1 DEF PsnTypeOK, AskerRecords

\* The state of the part at work has its type and its limits: the journal, a wait, a
\* setup, a request, a listing, a discovery and the tokens (src/hosting, src/history).
THEOREM ProvidersTypeOKHolds == ProvidersSpec => []ProvidersTypeOK
<1>1. JInv => TypeOK
  BY DEF JInv, IInv, TypeOK
<1>2. ProvidersInit => part \in Parts
  BY DEF ProvidersInit
<1>3. ASSUME part \in Parts,
             [ProvidersNext]_<<part, vars, opVars, psVars, actVars, inventoryVars, cpVars, sessionVars>>
      PROVE  (part \in Parts)'
  BY <1>3 DEF ProvidersNext, Only
<1>4. PartsInv /\ part \in Parts => ProvidersTypeOK
  BY <1>1, TokensTyped DEF PartsInv, ProvidersTypeOK, Parts
<1>. QED BY <1>2, <1>3, <1>4, PartsAlways, PTL DEF ProvidersSpec

\* One request through any client is honest: what its row calls refused changed nothing,
\* but for the four plans of AsksOn; what a client claims it serves, but for one of
\* Rocket.net; what the user chose is sent or the request refused, but for the three that
\* drop it (history/client.ts:126, hosting/client.ts:375-394 and every client's action()).
THEOREM ActionsHonestHolds == ProvidersSpec => []ActionsHonest
<1>1. PartsInv => ActionsHonest
  BY ActInvHonest DEF PartsInv
<1>. QED BY <1>1, PartsAlways, PTL

\* No client lists what is not there, twice, or under another's id, whatever changes in
\* the account while it reads, and the discovery of a cPanel account says what it leaves
\* out (src/hosting/providers, cpanel-sites.ts:239-327).
THEOREM InventoriesHonestHolds == ProvidersSpec => []InventoriesHonest
<1>1. PartsInv => InventoriesHonest
  BY InventoryInvHonest, DiscoveryInvHonest DEF PartsInv, InventoriesHonest
<1>. QED BY <1>1, PartsAlways, PTL

\* All that is checked of the clients and of the journal together: the journal records what
\* may have happened and what is known to have, an outcome sticks, waits and setups are
\* honest, each with the exceptions its own theorem names, and a session is shared
\* (src/history, src/hosting).
THEOREM ProvidersSuite ==
  ProvidersSpec => /\ [](ActivityRecorded /\ TruthfulOutcome /\ AnswersHonest /\ SessionShared)
                   /\ OutcomeSticks
<1>1. ProvidersInit => Init /\ OperationsInit /\ PsInit /\ PsnInit
  BY DEF ProvidersInit
<1>2. ASSUME [ProvidersNext]_<<part, vars, opVars, psVars, actVars, inventoryVars, cpVars, sessionVars>>
      PROVE  [Next]_vars /\ [OperationsNext]_opVars /\ [PsNext]_psVars /\ [PsnNext]_sessionVars
  BY <1>2, PartsStep
<1>3. ProvidersSpec => Spec /\ OperationsSpec /\ PsSpec /\ PsnSpec
  BY <1>1, <1>2, PTL DEF ProvidersSpec, Spec, OperationsSpec, PsSpec, PsnSpec
<1>. QED
  BY <1>3, ActivityRecordedHolds, TruthfulOutcomeHolds, AnswersHonestHolds, SessionSharedHolds,
     OutcomeSticksHolds, PTL
=============================================================================
