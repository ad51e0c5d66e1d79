----------------------------- MODULE HttpClient -----------------------------
(* One call of the HTTP client of the hosting providers, alone or inside    *)
(* poll(): src/src/hosting/http-client.ts.  Attempts, redirect hops,        *)
(* retries and their waits run against one clock; what a provider answers,  *)
(* when, and whether an answer arrives is open.                             *)
EXTENDS Integers

CONSTANTS
  MaxAttempts,  \* retry.maxAttempts
  MaxRedirects, \* MAX_REDIRECTS (3 in the code)
  Timeout,      \* timeoutMs of an attempt
  Total,        \* totalTimeoutMs of a call
  Waits,        \* the waits retryDelayMs() may give, Retry-After's included
  Interval,     \* first interval of poll(); it doubles
  MaxInterval,  \* maxIntervalMs of poll()
  PollDeadline, \* deadlineMs of poll()
  AuthSlack     \* how far authorize() may outlast the budget of its call

ASSUME HttpAssumption ==
  /\ MaxAttempts \in Nat \ {0} /\ MaxRedirects \in Nat /\ Waits \subseteq Nat
  /\ {Timeout, Total, Interval, MaxInterval, PollDeadline} \subseteq Nat \ {0}
  /\ AuthSlack \in Nat

VARIABLES
  call,      \* the request: [method, idempotent, polled]
  client,        \* where the client is
  httpClock,
  deadline,  \* of the call
  attempt,
  limit,     \* deadline of the attempt, or the end of a wait
  hops,      \* redirects followed by the attempt
  method,    \* the method of the hop
  interval,  \* of poll()
  writes     \* history: writes of this call the provider may have executed

httpVars == <<call, client, httpClock, deadline, attempt, limit, hops, method, interval, writes>>

Methods == {"GET", "POST", "PUT"}
SAFE_METHODS == {"GET"}
HttpCalls == [method : Methods, idempotent : {"unset", "yes", "no"}, polled : BOOLEAN]

(* Mutant of Retryable: what may be repeated does not matter.              *)
RetryableAlways == TRUE

(* idempotent ?? SAFE_METHODS.has(method)                                  *)
Retryable == IF call.idempotent = "unset" THEN call.method \in SAFE_METHODS
             ELSE call.idempotent = "yes"

(* Mutant of Attempts: maxAttempts counts the retries after the first.     *)
AttemptsAfterTheFirst == IF Retryable THEN MaxAttempts + 1 ELSE 1

Attempts == IF Retryable THEN MaxAttempts ELSE 1

HttpMin(a, b) == IF a < b THEN a ELSE b

HttpInit ==
  /\ call \in HttpCalls
  /\ client = "start" /\ httpClock = 0 /\ deadline = 0
  /\ attempt = 0 /\ limit = 0 /\ hops = 0 /\ method = call.method
  /\ interval = HttpMin(Interval, MaxInterval)
  /\ writes = 0

(* request(): the budget starts before the credentials are fetched.        *)
BeginCall ==
      /\ client = "start"
      /\ client' = "authorize" /\ deadline' = httpClock + Total /\ attempt' = 1 /\ writes' = 0
      /\ UNCHANGED <<call, httpClock, limit, hops, method, interval>>
Authorize ==
  /\ client = "authorize"
  /\ client' \in {"attempt", "failed"}
  /\ UNCHANGED <<call, httpClock, deadline, attempt, limit, hops, method, interval, writes>>

(* An attempt gets what is left of the budget at most.                     *)
AttemptBudget == HttpMin(Timeout, deadline - httpClock)
BeginAttempt ==
  /\ client = "attempt"
  /\ IF httpClock >= deadline
     THEN client' = "failed" /\ UNCHANGED <<limit, hops, method>>
     ELSE /\ limit' = httpClock + AttemptBudget /\ hops' = 0
          /\ method' = call.method /\ client' = "hop"
  /\ UNCHANGED <<call, httpClock, deadline, attempt, interval, writes>>

(* A failure ends the call unless it may be tried again, and the wait ends *)
(* before the budget does.  A Retry-After above the ceiling is no wait.    *)
AttemptFails(retryable) ==
  /\ \/ client' = "failed" /\ UNCHANGED limit
     \/ \E w \in Waits :
          /\ retryable /\ attempt < Attempts /\ httpClock + w < deadline
          /\ client' = "wait" /\ limit' = httpClock + w
  /\ UNCHANGED <<call, httpClock, deadline, attempt, hops, method, interval, writes>>

(* Every hop of a request that writes may be executed, whatever is heard   *)
(* of it.                                                                  *)
SendHop ==
  /\ client = "hop" /\ httpClock < limit
  /\ client' = "answer"
  /\ writes' = writes + (IF method \in SAFE_METHODS THEN 0 ELSE 1)
  /\ UNCHANGED <<call, httpClock, deadline, attempt, limit, hops, method, interval>>

(* 303 always, and 301 and 302 after a POST, become a GET without a body;  *)
(* 307 and 308 replay the request.                                         *)
Redirected(code) ==
  IF code = 303 \/ (code \in {301, 302} /\ method = "POST") THEN "GET" ELSE method

(* A provider that answers a PUT with 301 or 302, or anything with 307 or  *)
(* 308, has not executed it.                                               *)
NotExecuted(code) == code \in {307, 308} \/ (code \in {301, 302} /\ method = "PUT")
Redirect ==
  /\ client = "answer" /\ hops < MaxRedirects
  /\ \E code \in {301, 302, 303, 307, 308} :
       /\ method' = Redirected(code)
       /\ writes' = writes - (IF NotExecuted(code) /\ method \notin SAFE_METHODS THEN 1 ELSE 0)
  /\ hops' = hops + 1 /\ client' = "hop"
  /\ UNCHANGED <<call, httpClock, deadline, attempt, limit, interval>>

(* A redirect too many, without a location or to another origin; an answer *)
(* that is no success, or no JSON; a body that breaks off or is too large; *)
(* no answer; the time of the attempt.  Some of them may be tried again.   *)
HopFails ==
  /\ client \in {"hop", "answer"}
  /\ client = "hop" => httpClock >= limit
  /\ \E retryable \in (IF httpClock >= limit THEN {TRUE} ELSE BOOLEAN) : AttemptFails(retryable)
RetryAttempt ==
         /\ client = "wait" /\ httpClock >= limit
         /\ client' = "attempt" /\ attempt' = attempt + 1
         /\ UNCHANGED <<call, httpClock, deadline, limit, hops, method, interval, writes>>

(* An accepted answer.  poll() asks again until isComplete() is true, as   *)
(* long as the next request starts before its own deadline.                *)
RequestAccepted ==
         /\ client = "answer" /\ httpClock < limit
         /\ client' = "ok"
         /\ UNCHANGED <<call, httpClock, deadline, attempt, limit, hops, method, interval, writes>>
MayPoll == httpClock + interval < PollDeadline
PollAgain ==
  /\ client = "ok" /\ call.polled
  /\ IF MayPoll THEN /\ client' = "interval" /\ limit' = httpClock + interval
                     /\ interval' = HttpMin(MaxInterval, 2 * interval)
     ELSE client' = "failed" /\ UNCHANGED <<limit, interval>>
  /\ UNCHANGED <<call, httpClock, deadline, attempt, hops, method, writes>>
PollNext ==
  /\ client = "interval" /\ httpClock >= limit
  /\ client' = "start"
  /\ UNCHANGED <<call, httpClock, deadline, attempt, limit, hops, method, interval, writes>>

(* The caller aborts: what is awaited rejects.                             *)
Abort ==
  /\ client \in {"answer", "wait", "interval"}
  /\ client' = "failed"
  /\ UNCHANGED <<call, httpClock, deadline, attempt, limit, hops, method, interval, writes>>

(* Time passes while something is awaited; a timer that is due fires first.*)
HttpTick ==
      /\ \/ client \in {"answer", "wait", "interval"} /\ httpClock < limit
         \/ client = "authorize" /\ httpClock < deadline + AuthSlack
      /\ httpClock' = httpClock + 1
      /\ UNCHANGED <<call, client, deadline, attempt, limit, hops, method, interval, writes>>

HttpNext ==
  \/ BeginCall \/ Authorize \/ BeginAttempt \/ SendHop \/ Redirect \/ HopFails
  \/ RetryAttempt \/ RequestAccepted \/ PollAgain \/ PollNext \/ Abort \/ HttpTick
HttpSpec == HttpInit /\ [][HttpNext]_httpVars

-----------------------------------------------------------------------------
HttpTypeOK ==
  /\ call \in HttpCalls /\ method \in Methods
  /\ client \in {"start", "authorize", "attempt", "hop", "answer", "wait",
               "interval", "ok", "failed"}
  /\ {httpClock, deadline, limit, hops, writes} \subseteq Nat
  /\ attempt \in 0..MaxAttempts /\ interval \in 1..MaxInterval

(* A call that is not idempotent is executed at most once by the provider, *)
(* over all its attempts and redirect hops, whatever got lost.             *)
WritesOnce ==
  call.method \notin SAFE_METHODS /\ call.idempotent # "yes" => writes <= 1

(* Once it has its credentials a call is over by the end of its budget,    *)
(* retries, waits and redirects included (or at once when the credentials  *)
(* took longer), and poll() by the end of its deadline and one call more.  *)
InBudget ==
  /\ client \notin {"start", "authorize", "interval", "ok", "failed"} =>
           httpClock <= deadline + AuthSlack /\ (client # "attempt" => httpClock <= deadline)
  /\ httpClock <= PollDeadline + Total + AuthSlack

(* What they rest on.  A call that may not be repeated has one attempt, and *)
(* counts its write when it is sent, not before; and a wait, an attempt or *)
(* a hop ends by the deadline, which no call sets later than a budget      *)
(* after the end of poll().                                                *)
OneAttempt ==
  call.method \notin SAFE_METHODS /\ call.idempotent # "yes" =>
    /\ client \in {"authorize", "attempt"} => writes = 0 /\ attempt = 1
    /\ client \in {"hop", "answer"} => attempt = 1
    /\ client = "hop" /\ method \notin SAFE_METHODS => writes = 0
    /\ client = "answer" /\ method \notin SAFE_METHODS => writes = 1
    /\ client # "wait"
SentCounts == client = "answer" /\ method \notin SAFE_METHODS => writes > 0
EndsInTime ==
  /\ client = "start" => httpClock < PollDeadline
  /\ client = "interval" => httpClock <= limit /\ limit < PollDeadline
  /\ client \in {"authorize", "attempt"} => httpClock <= deadline + AuthSlack
  /\ client \in {"hop", "answer", "wait"} => httpClock <= limit /\ limit <= deadline
  /\ client \notin {"start", "interval", "ok", "failed"} => deadline < PollDeadline + Total
  /\ attempt > 0 /\ client \notin {"start", "interval", "failed"} => attempt <= Attempts
  /\ client \in {"authorize", "attempt", "hop", "answer", "wait"} => attempt > 0
  /\ client = "wait" => attempt < Attempts

(* What http-client.ts promises its callers of one call: nothing is done   *)
(* twice, and the answer comes in time.                                    *)
OnceInTime == WritesOnce /\ InBudget

HttpInv == HttpTypeOK /\ OneAttempt /\ SentCounts /\ EndsInTime /\ OnceInTime
=============================================================================
