------------------------- MODULE ProviderOperations -------------------------
(***************************************************************************)
(* What HQ takes for the end of a provider's operation: the poll loop of   *)
(* src/hosting/operations.ts, the proof it demands for guarded writes      *)
(* (src/hosting/verified-action.ts) and every provider's operationStatus   *)
(* (src/hosting/providers).  An answer is the record of the few fields     *)
(* those functions read; texts are the words they tell apart, "other" any  *)
(* further one, "missing" a field that is not there or of a wrong type.   *)
(***************************************************************************)
EXTENDS Naturals

CONSTANTS Watched,   \* the kinds of operation that may be waited for
          PollEvery, \* intervalSeconds
          Budget,    \* timeoutSeconds
          Slow       \* the longest time one status request takes

ASSUME OperationsAssumption ==
  /\ Watched \subseteq {"kinsta", "rocketnet", "cloudways", "pantheon", "xcloud", "sandywp",
                        "instawp", "instawp_version", "pressable", "wpengine", "hostinger",
                        "completed_action"}
  /\ PollEvery \in Nat \ {0} /\ Budget \in Nat /\ Slow \in Nat

VARIABLES
  operation, \* [of, id: the action result is usable], chosen once
  waiting,   \* "idle" | "polls" | "asks" | "sleeps" | "ended"
  spent,     \* time since the wait began
  wake,      \* when the sleep ends
  said,      \* what the last answer tells a reader of the provider's words
  proof      \* "none" | "verified" | "failed" | "uncertain"

opVars == <<operation, waiting, spent, wake, said, proof>>

AskFails == {"failed", "error", "timeout", "killed", "cleanup_failed"}
Succeeds == {"done", "completed", "success", "succeeded", "finished"}
WaitGoes == {"progress", "pending", "queued", "creating", "running"}

(***************************************************************************)
(* An answer: http, the transport status (the HTTP client raises an error  *)
(* for 500 except where kinsta.ts:147 accepts it); word and inner, the     *)
(* state fields of the body and of its nested record; code, a status       *)
(* number in the body; two flags; ok, an envelope that says status: true.  *)
(***************************************************************************)
\* The words a client names among the values of a state field.
WordsOf(p) ==
  {"missing", "other"} \cup
  CASE p = "rocketnet" -> {"done", "error"}
    [] p = "cloudways" -> {"completed", "done", "success", "failed", "error"}
    [] p = "pantheon" -> {"running", "succeeded", "failed"}
    [] p = "xcloud" -> {"finished", "failed", "timeout", "killed"}
    [] p = "sandywp" -> {"creating", "failed", "cleanup_failed"}
    [] p = "instawp" -> {"progress", "pending", "queued", "failed", "error"}
    [] p = "instawp_version" -> {"completed", "failed", "error"}
    [] OTHER -> {}

\* Each client reads some of the fields only.
AnswersOf(p) ==
  LET ReadBy(clients, values, default) == IF p \in clients THEN values ELSE {default}
      Words == {"rocketnet", "cloudways", "pantheon", "xcloud", "sandywp", "instawp",
                "instawp_version"}
  IN [http : ReadBy({"kinsta"}, {200, 202, 500}, 200),
      word : ReadBy(Words, WordsOf(p), "missing"),
      inner : ReadBy({"rocketnet", "cloudways"}, WordsOf(p), "missing"),
      code : ReadBy({"kinsta"}, {0, 200, 500}, 0),
      completed : ReadBy({"cloudways", "completed_action"}, BOOLEAN, FALSE),
      broken : ReadBy({"cloudways"}, BOOLEAN, FALSE),
      ok : ReadBy({"instawp", "instawp_version"}, BOOLEAN, TRUE)]

Status(http, done, failed, raw) ==
  [status |-> http, done |-> done, failed |-> failed, raw |-> raw]

Kinsta(a) ==
  LET status == IF a.code = 0 THEN a.http ELSE a.code
  IN Status(status, a.http = 200 /\ a.code = 200,
            a.http = 500 \/ status >= 500, TRUE)

RocketNet(a) ==
  LET state == IF a.inner = "missing" THEN a.word ELSE a.inner \* task_status, status
  IN Status(200, state \in {"done", "error"}, state = "error", TRUE)

Cloudways(a) ==
  LET status == IF a.inner = "missing" THEN a.word ELSE a.inner
  IN Status(200, a.completed \/ status \in {"completed", "done", "success", "failed", "error"},
            a.broken \/ status \in {"failed", "error"}, TRUE)

Pantheon(a) == Status(200, a.word \in {"succeeded", "failed"}, a.word = "failed", TRUE)

XCloud(a) ==
  LET done == a.word \in {"finished", "failed", "timeout", "killed"}
  IN Status(200, done, done /\ a.word # "finished", TRUE)

\* A task is over in every state but the three the client knows as running.
InstaWp(a) ==
  Status(200, a.word \notin {"missing", "progress", "pending", "queued"},
         ~a.ok \/ a.word \in {"failed", "cleanup_failed", "error"}, TRUE)

\* The task of a site version; an envelope that is not ok is an error.
InstaWpVersion(a) ==
  LET failed == a.word \in {"error", "failed"}
  IN Status(200, a.word = "completed" \/ failed, failed, TRUE)

SandyWp(a) ==
  Status(200, a.word \notin {"missing", "creating"}, a.word \in {"failed", "cleanup_failed"}, TRUE)

\* Pressable and WP Engine have nothing to ask: a made-up end without evidence.
Synthetic == Status(200, TRUE, FALSE, FALSE)

\* cPanel, WHM and Plesk finish inside the action and remember that they did.
CompletedAction == Status(200, TRUE, FALSE, TRUE)

Refuses(p, a) ==
  \/ p = "hostinger"
  \/ p = "completed_action" /\ ~a.completed \* not recorded, or dropped since
  \/ p = "instawp_version" /\ ~a.ok
  \/ p # "kinsta" /\ a.http = 500

StatusOf(p, a) ==
  CASE p = "kinsta" -> Kinsta(a)
    [] p = "rocketnet" -> RocketNet(a)
    [] p = "cloudways" -> Cloudways(a)
    [] p = "pantheon" -> Pantheon(a)
    [] p = "xcloud" -> XCloud(a)
    [] p = "instawp" -> InstaWp(a)
    [] p = "instawp_version" -> InstaWpVersion(a)
    [] p = "sandywp" -> SandyWp(a)
    [] p \in {"pressable", "wpengine"} -> Synthetic
    [] OTHER -> CompletedAction

\* Mutant of Verified: an end without evidence is believed.
VerifiedWithoutRaw(s) == s.done /\ ~s.failed /\ s.status \in 200..299

\* hasVerifiedCompletion: the client's own provider and id are always there.
Verified(s) == s.done /\ ~s.failed /\ s.status \in 200..299 /\ s.raw

\* The reference: what the provider's words say, whichever client reads them.
Meaning(p, a) ==
  LET words == IF a.inner = "missing" THEN {a.word} ELSE {a.inner}
  IN IF \/ words \cap AskFails # {} \/ a.broken \/ ~a.ok
        \/ a.code >= 500 \/ a.http >= 500 THEN "failure"
     ELSE IF \/ words \cap Succeeds # {} \/ a.completed
             \/ (a.code = 200 /\ a.http = 200) THEN "success"
     ELSE IF words \cap WaitGoes # {} THEN "under way"
     ELSE "nothing"

OperationsInit ==
  /\ operation \in [of : Watched, id : BOOLEAN]
  /\ waiting = "idle" /\ spent = 0 /\ wake = 0
  /\ said = "nothing" /\ proof = "none"

EndWait(result) ==
  /\ waiting' = "ended" /\ proof' = result
  /\ UNCHANGED <<operation, wake>>

\* waitForVerifiedAction: without an id there is nothing to prove.
WaitBegins ==
  /\ waiting = "idle"
  /\ \/ operation.id /\ waiting' = "polls" /\ UNCHANGED <<operation, spent, wake, said, proof>>
     \/ ~operation.id /\ EndWait("uncertain") /\ UNCHANGED <<spent, said>>

Asks ==
  /\ waiting = "polls" /\ spent < Budget
  /\ waiting' = "asks" /\ UNCHANGED <<operation, spent, wake, said, proof>>

TimesOut ==
  /\ waiting = "polls" /\ spent >= Budget
  /\ EndWait("uncertain") /\ UNCHANGED <<spent, said>>

OpMin(a, b) == IF a <= b THEN a ELSE b

\* An answer, after some time; one that comes after the deadline is not used.
OperationAnswers ==
  /\ waiting = "asks"
  /\ \E a \in AnswersOf(operation.of), t \in 0..Slow :
       LET s == StatusOf(operation.of, a) IN
       /\ ~Refuses(operation.of, a)
       /\ spent' = spent + t /\ said' = Meaning(operation.of, a)
       /\ IF spent + t >= Budget THEN EndWait("uncertain")
          ELSE IF s.failed THEN EndWait("failed")
          ELSE IF s.done THEN EndWait(IF Verified(s) THEN "verified" ELSE "uncertain")
          ELSE /\ waiting' = "sleeps"
               /\ wake' = spent + t + OpMin(PollEvery, Budget - (spent + t))
               /\ UNCHANGED <<operation, proof>>

\* The status request fails: the wait ends, the write may have taken effect.
AnswerFails ==
  /\ waiting = "asks"
  /\ \E t \in 0..Slow : spent' = spent + t
  /\ EndWait("uncertain") /\ UNCHANGED said

Wakes ==
  /\ waiting = "sleeps"
  /\ waiting' = "polls" /\ spent' = wake
  /\ UNCHANGED <<operation, wake, said, proof>>

OperationsNext ==
  \/ WaitBegins \/ Asks \/ TimesOut \/ OperationAnswers \/ AnswerFails \/ Wakes

OperationsSpec == OperationsInit /\ [][OperationsNext]_opVars

OperationsTypeOK ==
  /\ operation \in [of : Watched, id : BOOLEAN]
  /\ waiting \in {"idle", "polls", "asks", "sleeps", "ended"}
  /\ spent \in 0..(Budget + Slow) /\ wake \in 0..Budget
  /\ said \in {"nothing", "under way", "success", "failure"}
  /\ proof \in {"none", "verified", "failed", "uncertain"}

(***************************************************************************)
(* A guarded write is called verified only after an answer that says it    *)
(* succeeded, and failed only after one that says it failed; nothing       *)
(* counts that came after the deadline.  Two clients believe more: a task  *)
(* of InstaWP and a sandbox of SandyWP are over in every state that is not *)
(* known as running, so there only a known failure is ruled out.           *)
(***************************************************************************)
HonestProof ==
  /\ proof = "verified" =>
       \/ said = "success"
       \/ operation.of \in {"instawp", "sandywp"} /\ said # "failure"
  /\ proof = "failed" => said = "failure"
  /\ proof \in {"verified", "failed"} => spent < Budget

\* What it rests on: only the end of a wait has a proof.
OpInv ==
  /\ OperationsTypeOK /\ HonestProof
  /\ waiting # "ended" => proof = "none"
  /\ waiting = "asks" => spent < Budget
=============================================================================
