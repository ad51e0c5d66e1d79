---------------------------- MODULE ChildProcess ----------------------------
(***************************************************************************)
(* One run of a child process by HQ (integration/spawn.ts): the promise of *)
(* nodeSpawnChild, the process group the child leads, the pipe its output  *)
(* comes through and the two timers.  The members of the group do as they  *)
(* please: they write, start each other, exit, hold the pipe open after    *)
(* the child itself is gone, and some ignore SIGTERM.  HQ may only decide  *)
(* to kill, and must answer.                                               *)
(***************************************************************************)
EXTENDS Naturals, FiniteSets

CONSTANTS Members,     \* the processes of the group
          Child,       \* the one HQ starts; it leads the group
          Chunks,      \* how many chunks of output the group writes at most
          Cap          \* how many of them HQ keeps (maxStdoutBytes)

ASSUME ChildAssumption ==
  /\ IsFiniteSet(Members) /\ Child \in Members
  /\ Chunks \in Nat /\ Cap \in Nat

VARIABLES
  promise,     \* "idle" | "running" | "settled": the promise
  kind,      \* the outcome's kind, "none" until it settles
  decided,   \* terminationKind: why HQ decided to kill, "none" before
  killTimer, \* "unset" | "armed" | "fired": the escalation to SIGKILL
  ringing,   \* what still can call terminate: the timer, the abort listener
  alive,     \* the members that run
  deaf,      \* the members that ignore SIGTERM
  holding,   \* the members that hold the pipe's other end while they run
  termed,    \* the members SIGTERM was sent to
  emitted, inPipe, kept   \* chunks written, unread, and kept by HQ

kVars == << promise, kind, decided, killTimer, ringing, alive, deaf, holding,
            termed, emitted, inPipe, kept >>

Alarms == {"timed_out", "aborted"}
OutcomeKinds  == Alarms \cup {"truncated", "exited", "not_found", "spawn_failed"}

(* Which members are deaf and which inherit the pipe is the program's own  *)
(* affair; with inheritStdio there is no pipe and nobody holds it.         *)
KInit ==
  /\ promise = "idle" /\ kind = "none" /\ decided = "none"
  /\ killTimer = "unset" /\ ringing = {} /\ alive = {} /\ termed = {}
  /\ deaf \in SUBSET Members /\ holding \in SUBSET Members
  /\ emitted = 0 /\ inPipe = 0 /\ kept = 0

-----------------------------------------------------------------------------
(* The promise.                                                            *)

\* resolve() before there is a child: the deadline has passed, or spawn failed.
NotStarted ==
  /\ promise = "idle"
  /\ promise' = "settled" /\ kind' \in {"aborted", "not_found", "spawn_failed"}
  /\ UNCHANGED << decided, killTimer, ringing, alive, deaf, holding, termed,
                  emitted, inPipe, kept >>

SpawnChild ==
       /\ promise = "idle"
       /\ promise' = "running" /\ alive' = {Child} /\ ringing' = Alarms
       /\ UNCHANGED << kind, decided, killTimer, deaf, holding, termed, emitted,
                       inPipe, kept >>

\* terminate(): the first reason stays, SIGTERM goes to the whole group once.
Terminate(why) ==
  /\ decided' = IF decided = "none" THEN why ELSE decided
  /\ IF killTimer # "unset" THEN UNCHANGED << killTimer, termed >>
     ELSE /\ killTimer' = "armed"
          /\ termed' = alive

Alarm(why) ==
  /\ promise = "running" /\ why \in ringing
  /\ ringing' = ringing \ {why}
  /\ Terminate(why)
  /\ UNCHANGED << promise, kind, alive, deaf, holding, emitted, inPipe, kept >>

\* A chunk arrives: it is kept while it fits, else the child is killed.
Data ==
  /\ promise = "running" /\ inPipe > 0
  /\ inPipe' = inPipe - 1
  /\ IF emitted - inPipe < Cap
       THEN /\ kept' = kept + 1
            /\ UNCHANGED << decided, killTimer, termed >>
       ELSE /\ UNCHANGED kept
            /\ Terminate("truncated")
  /\ UNCHANGED << promise, kind, ringing, alive, deaf, holding, emitted >>

(* The child's event that settles the promise is "close", after which no   *)
(* more output can come; "exit" comes as soon as the child is gone.        *)
\* Mutant of Over: the promise settles on "exit".
OverOnExit == Child \notin alive
Over == Child \notin alive /\ alive \cap holding = {} /\ inPipe = 0

\* terminationKind ?? "exited"
Outcome == IF decided = "none" THEN "exited" ELSE decided

\* Mutant of Disarmed: nothing of the run outlives its promise.
DisarmedAll == IF killTimer = "armed" THEN "unset" ELSE killTimer

\* What finish() does to the escalation: it stays armed.
Disarmed == killTimer

FinishChild ==
       /\ promise = "running" /\ Over
       /\ promise' = "settled" /\ kind' = Outcome
       /\ ringing' = {} /\ killTimer' = Disarmed
       /\ UNCHANGED << decided, alive, deaf, holding, termed, emitted, inPipe,
                       kept >>

\* Whether the grace period is over.
Grace == killTimer = "armed"

\* The escalation: SIGKILL to the whole group, settled or not.
Escalate ==
  /\ Grace
  /\ killTimer' = "fired" /\ alive' = {}
  /\ UNCHANGED << promise, kind, decided, ringing, deaf, holding, termed,
                  emitted, inPipe, kept >>

-----------------------------------------------------------------------------
(* The group.                                                              *)

Exit(p) ==
  /\ p \in alive
  /\ alive' = alive \ {p}
  /\ UNCHANGED << promise, kind, decided, killTimer, ringing, deaf, holding,
                  termed, emitted, inPipe, kept >>

\* SIGTERM ends who does not ignore it.
HeedWarning(p) == p \in termed \ deaf /\ Exit(p)

\* A member starts another one, which was not there for an earlier SIGTERM.
Fork(p) ==
  /\ alive # {} /\ p \in Members \ (alive \cup termed \cup {Child})
  /\ alive' = alive \cup {p}
  /\ UNCHANGED << promise, kind, decided, killTimer, ringing, deaf, holding,
                  termed, emitted, inPipe, kept >>

WriteChunk(p) ==
       /\ p \in alive \cap holding /\ emitted < Chunks /\ promise = "running"
       /\ emitted' = emitted + 1 /\ inPipe' = inPipe + 1
       /\ UNCHANGED << promise, kind, decided, killTimer, ringing, alive, deaf,
                       holding, termed, kept >>

GroupStep == \E p \in Members : Exit(p) \/ HeedWarning(p) \/ Fork(p) \/ WriteChunk(p)

KNext ==
  \/ NotStarted \/ SpawnChild \/ Data \/ FinishChild \/ Escalate
  \/ \E why \in Alarms : Alarm(why)
  \/ GroupStep

(* Node runs the callbacks that are due: data, close and the two timers.   *)
(* A process that does not ignore SIGTERM ends.  Nothing else is promised. *)
KFairness ==
  /\ WF_kVars(Data) /\ WF_kVars(FinishChild) /\ WF_kVars(Escalate)
  /\ WF_kVars(Alarm("timed_out"))
  /\ \A p \in Members : WF_kVars(HeedWarning(p))

KSpec == KInit /\ [][KNext]_kVars /\ KFairness

-----------------------------------------------------------------------------
KTypeOK ==
  /\ promise \in {"idle", "running", "settled"}
  /\ kind \in OutcomeKinds \cup {"none"} /\ (kind # "none" <=> promise = "settled")
  /\ decided \in OutcomeKinds \cup {"none"}
  /\ killTimer \in {"unset", "armed", "fired"} /\ ringing \subseteq Alarms
  /\ alive \subseteq Members /\ deaf \subseteq Members
  /\ holding \subseteq Members /\ termed \subseteq Members
  /\ emitted \in 0..Chunks /\ inPipe \in 0..Chunks /\ kept \in 0..Cap

(* An answer "exited" carries everything the group wrote, and nobody was   *)
(* killed for it: a child that writes its envelope and exits at once, or   *)
(* whose helper writes it, does not lose it, and a child that was cut off  *)
(* by a timer, by the deadline or by the output cap does not look like one *)
(* that ended by itself.                                                   *)
WholeOutput ==
  kind = "exited" => kept = emitted /\ termed = {}

(* What it rests on: as long as nothing was decided nobody was warned, no  *)
(* timer escalates, and whatever was read was kept.                        *)
KeptAsRead ==
  /\ inPipe <= emitted /\ kept <= emitted - inPipe
  /\ decided = "none" => killTimer = "unset" /\ termed = {} /\ kept = emitted - inPipe
  /\ decided # "exited"

ChildInv == KTypeOK /\ KeptAsRead /\ WholeOutput

(* The promise settles whatever the group does: the timer is always there, *)
(* and SIGKILL closes the pipe nobody else would.                          *)
PromiseSettles == promise = "running" ~> promise = "settled"

(* Once HQ has decided to kill, no member of the group survives, not even  *)
(* one that ignores SIGTERM, holds no pipe and so does not delay the       *)
(* answer.                                                                 *)
NobodyLeft == killTimer = "armed" ~> alive = {}

(* Every command of HQ comes to an end, and so does all that it started.   *)
ChildEnds == PromiseSettles /\ NobodyLeft
=============================================================================
