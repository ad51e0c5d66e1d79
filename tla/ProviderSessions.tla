-------------------------- MODULE ProviderSessions --------------------------
(***************************************************************************)
(* What a provider's client fetches once and shares between its requests:  *)
(* Rocket.net's and Pressable's token, Pantheon's session and xCloud's     *)
(* team (src/hosting/providers).  Requests of one client run concurrently; *)
(* they wait for one promise.  When it settles everybody who waits goes on *)
(* before anything else runs, because their reactions were queued together.*)
(***************************************************************************)
EXTENDS Integers, Sequences, FiniteSets

CONSTANTS
  Askers,        \* concurrent requests of one client
  SessionKinds,  \* subset of {"rocketnet", "pressable", "pantheon", "xcloud"}
  Lifetime,      \* how long a token of the provider is valid
  Margin,        \* how much of it the client leaves unused
  Latency,       \* the longest an exchange takes
  MaxExchanges, SessionEnd \* bounds: exchanges, and the end of time

ASSUME SessionAssumption ==
  /\ {Lifetime, Margin, Latency, MaxExchanges} \subseteq Nat /\ Latency <= Margin /\ Margin < Lifetime

VARIABLES
  cacheKind,  \* which client it is
  sessionNow, \* time
  cached,     \* the token kept: the exchange it is from, 0 for none
  usableUntil,\* when the client exchanges it again
  promise,    \* the exchange callers share: 0 for none
  exchanges,  \* the exchange n: [began, issued, state]
  asker       \* what each request waits for or got: [at, of, since]

sessionVars == <<cacheKind, sessionNow, cached, usableUntil, promise, exchanges, asker>>

Expires == cacheKind \in {"rocketnet", "pressable"}

PsnInit ==
  /\ cacheKind \in SessionKinds
  /\ sessionNow = 0 /\ cached = 0 /\ usableUntil = 0 /\ promise = 0
  /\ exchanges = <<>>
  /\ asker = [a \in Askers |-> [at |-> "idle", of |-> 0, since |-> 0]]

\* A token that is kept is used without the network: Pantheon and xCloud keep the promise.
Kept == cached # 0 /\ (Expires => sessionNow < usableUntil)

AsksFor(a, at, of) == asker' = [asker EXCEPT ![a] = [at |-> at, of |-> of, since |-> sessionNow]]

UsesKept(a) ==
  /\ asker[a].at = "idle" /\ Kept
  /\ AsksFor(a, "has", cached)
  /\ UNCHANGED <<cacheKind, sessionNow, cached, usableUntil, promise, exchanges>>

\* Mutant: every request without a token exchanges the credential itself.
SharesNever == FALSE

\* ??=: whoever comes while an exchange is under way waits for it.
Shares == promise # 0

WaitsForShared(a) ==
  /\ asker[a].at = "idle" /\ ~Kept /\ Shares
  /\ AsksFor(a, "waits", promise)
  /\ UNCHANGED <<cacheKind, sessionNow, cached, usableUntil, promise, exchanges>>

BeginsExchange(a) ==
  /\ asker[a].at = "idle" /\ ~Kept /\ ~Shares /\ Len(exchanges) < MaxExchanges
  /\ exchanges' = Append(exchanges, [began |-> sessionNow, issued |-> sessionNow, state |-> "under way"])
  /\ promise' = Len(exchanges) + 1
  /\ AsksFor(a, "waits", Len(exchanges) + 1)
  /\ UNCHANGED <<cacheKind, sessionNow, cached, usableUntil>>

\* The provider issues the token some time before its answer is there.
Issues(n) ==
  /\ exchanges[n].state = "under way"
  /\ exchanges' = [exchanges EXCEPT ![n].state = "issued", ![n].issued = sessionNow]
  /\ UNCHANGED <<cacheKind, sessionNow, cached, usableUntil, promise, asker>>

Settled(n, at) ==
  asker' = [a \in Askers |-> IF asker[a].at = "waits" /\ asker[a].of = n
                             THEN [asker[a] EXCEPT !.at = at] ELSE asker[a]]

ExchangeSucceeds(n) ==
  /\ exchanges[n].state = "issued"
  /\ exchanges' = [exchanges EXCEPT ![n].state = "done"]
  /\ cached' = n
  /\ usableUntil' = IF Expires THEN sessionNow + Lifetime - Margin ELSE 0
  /\ promise' = IF Expires THEN 0 ELSE promise \* finally
  /\ Settled(n, "has")
  /\ UNCHANGED <<cacheKind, sessionNow>>

\* Mutant: the promise that failed stays.
ForgottenNever(n) == promise

\* finally; Pantheon's catch of every waiter; xCloud's catch, if it is still this one.
Forgotten(n) == IF cacheKind = "xcloud" /\ promise # n THEN promise ELSE 0

ExchangeFails(n) ==
  /\ exchanges[n].state \in {"under way", "issued"}
  /\ exchanges' = [exchanges EXCEPT ![n].state = "failed"]
  /\ promise' = Forgotten(n)
  /\ Settled(n, "failed")
  /\ UNCHANGED <<cacheKind, sessionNow, cached, usableUntil>>

\* A request whose shared promise had failed before it came fails at once.
ReplaysFailure(a) ==
  /\ asker[a].at = "waits" /\ exchanges[asker[a].of].state = "failed"
  /\ asker' = [asker EXCEPT ![a].at = "failed"]
  /\ UNCHANGED <<cacheKind, sessionNow, cached, usableUntil, promise, exchanges>>

AsksAgain(a) ==
  /\ asker[a].at \in {"has", "failed"}
  /\ AsksFor(a, "idle", 0)
  /\ UNCHANGED <<cacheKind, sessionNow, cached, usableUntil, promise, exchanges>>

\* No exchange takes longer than the request's time limit.
PsnTick ==
  /\ sessionNow < SessionEnd
  /\ \A n \in DOMAIN exchanges : exchanges[n].state \in {"under way", "issued"} =>
       sessionNow < exchanges[n].began + Latency
  /\ sessionNow' = sessionNow + 1
  /\ UNCHANGED <<cacheKind, cached, usableUntil, promise, exchanges, asker>>

PsnNext ==
  \/ \E a \in Askers :
       UsesKept(a) \/ WaitsForShared(a) \/ BeginsExchange(a) \/ ReplaysFailure(a) \/ AsksAgain(a)
  \/ \E n \in DOMAIN exchanges : Issues(n) \/ ExchangeSucceeds(n) \/ ExchangeFails(n)
  \/ PsnTick

PsnSpec == PsnInit /\ [][PsnNext]_sessionVars

PsnTypeOK ==
  /\ cached \in 0..MaxExchanges /\ promise \in 0..MaxExchanges
  /\ \A a \in Askers : asker[a].at \in {"idle", "waits", "has", "failed"}

OneExchange ==
  Cardinality({n \in DOMAIN exchanges : exchanges[n].state \in {"under way", "issued"}}) <= 1

\* A token handed out is still valid at the provider.
FreshToken ==
  \A a \in Askers : asker[a].at = "has" /\ Expires =>
    asker[a].since < exchanges[asker[a].of].issued + Lifetime

\* A request fails only because of an exchange that was under way when it came.
FreshFailure ==
  \A a \in Askers : asker[a].at = "waits" => exchanges[asker[a].of].state # "failed"

(***************************************************************************)
(* The credential is exchanged once for all requests that come meanwhile;  *)
(* they get its outcome, a later request gets no failure of an earlier     *)
(* one, and a token is never sent after the provider let it expire.        *)
(***************************************************************************)
SessionShared == OneExchange /\ FreshToken /\ FreshFailure

(* What it rests on: an exchange under way is the one that is shared, and   *)
(* takes no longer than its limit; who waits, waits for it; and what is     *)
(* kept or handed out is a token that was issued and has not run out.       *)
ExchangeStates == {"under way", "issued", "done", "failed"}
ExchangeRecords == [began : Nat, issued : Nat, state : ExchangeStates]
AskerRecords == [at : {"idle", "waits", "has", "failed"}, of : Nat, since : Nat]
UnderWay(n) == exchanges[n].state \in {"under way", "issued"}

TokenPieces ==
  /\ sessionNow \in Nat /\ usableUntil \in Int
  /\ exchanges \in Seq(ExchangeRecords)
  /\ cached \in {0} \cup DOMAIN exchanges /\ promise \in {0} \cup DOMAIN exchanges
  /\ asker \in [Askers -> AskerRecords]

ExchangesInTime ==
  \A n \in DOMAIN exchanges :
    /\ exchanges[n].began <= exchanges[n].issued /\ exchanges[n].issued <= sessionNow
    /\ UnderWay(n) => promise = n /\ sessionNow <= exchanges[n].began + Latency

PromiseSettles == promise # 0 => UnderWay(promise) \/ (~Expires /\ cached # 0)

KeptIsGood ==
  cached # 0 => /\ exchanges[cached].state = "done"
                /\ Expires => usableUntil <= exchanges[cached].issued + Lifetime

AskersInTime ==
  \A a \in Askers :
    /\ asker[a].at = "waits" =>
         asker[a].of \in DOMAIN exchanges /\ UnderWay(asker[a].of) /\ asker[a].since <= sessionNow
    /\ asker[a].at = "has" =>
         /\ asker[a].of \in DOMAIN exchanges /\ exchanges[asker[a].of].state = "done"
         /\ Expires => asker[a].since < exchanges[asker[a].of].issued + Lifetime

TokenInv ==
  TokenPieces /\ ExchangesInTime /\ PromiseSettles /\ KeptIsGood /\ AskersInTime
=============================================================================
