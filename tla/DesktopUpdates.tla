-------------------------- MODULE DesktopUpdates --------------------------
(***************************************************************************)
(* The check for a newer desktop release (update/desktop.ts, notifier.ts,  *)
(* createDashboardUpdates() of cli/dashboard.ts, web/handlers/updates.ts): *)
(* automatic checks and those a user asks for, in several processes that   *)
(* share one cached catalog, one installation id a month and one lock.     *)
(***************************************************************************)
EXTENDS Naturals, Sequences, FiniteSets, SequencesExt

CONSTANTS Hqs,       \* processes, each with one checker
          Askers,    \* calls of check(): the handler, doctor, the notice
          HqOf,      \* the process of a call
          Interval,  \* INTERVAL
          Month,     \* the length of a month, in the same unit
          LastTime,  \* bound of the clock
          Never

ASSUME UpdateAssumption ==
  /\ IsFiniteSet(Askers) /\ HqOf \in [Askers -> Hqs] /\ Interval \in Nat \ {0} /\ Month \in Nat \ {0}
  /\ LastTime \in Nat /\ Never \notin Nat \cup Hqs
  /\ \A t \in 0 .. LastTime, o \in {"none", "same", "newer"} : Never # [at |-> t, offer |-> o]

VARIABLES
  time,     \* the wall clock
  cached,   \* desktop-update-check.json: [at, offer], or Never
  monthId,  \* desktop-update-stats.json: [month, id], or Never
  turn,     \* who holds __desktop_update_check__
  hq,       \* the run of each process: [at, force, when, offer]
  asker,    \* the calls: [at, force, own, result]
  sent      \* history: the requests, in order

uVars == << time, cached, monthId, turn, hq, asker, sent >>

(* What a catalog comes to for this machine, selectDesktopRelease():        *)
(* "none" - not readable, or nothing published for this platform and        *)
(* channel -, "same" or "newer".                                           *)
Offers == {"none", "same", "newer"}
NoRun == [at |-> "none", force |-> FALSE, when |-> 0, offer |-> "none"]

UInit ==
  /\ time = 0 /\ monthId = Never
  /\ cached \in {Never, [at |-> LastTime, offer |-> "newer"]}  \* or from the future
  /\ turn = Never
  /\ hq = [h \in Hqs |-> NoRun]
  /\ asker \in [Askers -> [at : {"idle"}, force : BOOLEAN, own : {FALSE},
                           result : {"none"}]]
  /\ sent = << >>

HqTo(h, at) == hq' = [hq EXCEPT ![h].at = at]

(* check(): a run under way answers everyone who asks meanwhile.           *)
AskUpdate(c) ==
  LET h == HqOf[c] IN
    /\ asker[c].at = "idle" /\ hq[h].at # "dead"
    /\ asker' = [asker EXCEPT ![c].at = "waiting", ![c].own = hq[h].at = "none"]
    /\ hq' = IF hq[h].at = "none"
               THEN [hq EXCEPT ![h] = [NoRun EXCEPT !.at = "locking",
                                                    !.force = asker[c].force]]
               ELSE hq
    /\ UNCHANGED << time, cached, monthId, turn, sent >>

LockUpdates(h) ==
  /\ hq[h].at = "locking" /\ turn = Never
  /\ turn' = h /\ HqTo(h, "cache")
  /\ UNCHANGED << time, cached, monthId, asker, sent >>

(* Mutant of Fresh: only a catalog that was read counts.                   *)
FreshIfRead == /\ cached # Never /\ cached.offer # "none"
               /\ time >= cached.at /\ time - cached.at < Interval
(* A record of the last day answers, one of a failed attempt too; one from  *)
(* the future does not.                                                    *)
Fresh == /\ cached # Never
         /\ time >= cached.at /\ time - cached.at < Interval

Cache(h) ==
  /\ hq[h].at = "cache"
  /\ hq' = IF ~hq[h].force /\ Fresh
             THEN [hq EXCEPT ![h].at = "answer", ![h].offer = cached.offer]
             ELSE [hq EXCEPT ![h].at = "headers", ![h].when = time]
  /\ UNCHANGED << time, cached, monthId, turn, asker, sent >>

(* headers(): this month's id, or a new one once it is written. A file that *)
(* cannot be written sends no id.                                          *)
ThisMonth == time \div Month
SentIds == {sent[i].id : i \in DOMAIN sent}
NextId == 1 + Cardinality(SentIds)

Fetch(h) ==
  /\ hq[h].at = "headers"
  /\ \E id \in IF monthId # Never /\ monthId.month = ThisMonth THEN {monthId.id}
               ELSE {NextId, Never} :
       /\ monthId' = IF id = Never THEN monthId ELSE [month |-> ThisMonth, id |-> id]
       /\ sent' = Append(sent, [at |-> hq[h].when, month |-> ThisMonth, id |-> id,
                                force |-> hq[h].force, by |-> h, kept |-> FALSE])
  /\ HqTo(h, "fetching")
  /\ UNCHANGED << time, cached, turn, asker >>

Catalog(h) ==
  /\ hq[h].at = "fetching"
  /\ \E o \in Offers : hq' = [hq EXCEPT ![h].at = "keeping", ![h].offer = o]
  /\ UNCHANGED << time, cached, monthId, turn, asker, sent >>

Mine(h) == SelectLastInSeq(sent, LAMBDA r : r.by = h)

(* The record is written, as null after a failure. A catalog that cannot be *)
(* kept counts as a failed check.                                          *)
Keep(h) ==
  /\ hq[h].at = "keeping"
  /\ \/ /\ cached' = [at |-> sent[Mine(h)].at, offer |-> hq[h].offer]
        /\ sent' = [sent EXCEPT ![Mine(h)].kept = TRUE]
        /\ HqTo(h, "answer")
     \/ /\ hq[h].offer # "none"  \* the write failed; its failure is written
        /\ cached' = [at |-> sent[Mine(h)].at, offer |-> "none"]
        /\ sent' = [sent EXCEPT ![Mine(h)].kept = TRUE]
        /\ hq' = [hq EXCEPT ![h].at = "answer", ![h].offer = "none"]
     \/ /\ UNCHANGED << cached, sent >>
        /\ hq' = [hq EXCEPT ![h].at = "answer", ![h].offer = "none"]
  /\ UNCHANGED << time, monthId, turn, asker >>

(* A failed check is silence for an automatic caller and a network error    *)
(* for one who asked.                                                      *)
ResultOf(c, offer) == IF offer # "none" THEN offer
                      ELSE IF asker[c].force THEN "failed" ELSE "silent"

(* Mutant of AskerAnswered: a check that failed is made again at once.      *)
TriesAgain(h) ==
  /\ hq[h].at = "answer"
  /\ HqTo(h, IF hq[h].offer = "none" THEN "headers" ELSE "none")
  /\ UNCHANGED << time, cached, monthId, turn, asker, sent >>
AskerAnswered(h) ==
  /\ hq[h].at = "answer"
  /\ turn' = Never
  /\ hq' = [hq EXCEPT ![h] = NoRun]
  /\ asker' = [c \in Askers |->
       IF HqOf[c] = h /\ asker[c].at = "waiting"
         THEN [asker[c] EXCEPT !.at = "done", !.result = ResultOf(c, hq[h].offer)]
         ELSE asker[c]]
  /\ UNCHANGED << time, cached, monthId, sent >>

(* The process ends while its request is out; its lock is recovered.        *)
HqDies(h) ==
  /\ hq[h].at \in {"fetching", "keeping"}
  /\ HqTo(h, "dead")
  /\ turn' = IF turn = h THEN Never ELSE turn
  /\ asker' = [c \in Askers |-> IF HqOf[c] = h /\ asker[c].at = "waiting"
                                  THEN [asker[c] EXCEPT !.at = "done"] ELSE asker[c]]
  /\ UNCHANGED << time, cached, monthId, sent >>

(* The clock goes on; what a clock that was set back leaves is a record     *)
(* from the future.                                                        *)
Clock ==
  /\ time < LastTime /\ time' = time + 1
  /\ UNCHANGED << cached, monthId, turn, hq, asker, sent >>

UNext ==
  \/ \E c \in Askers : AskUpdate(c)
  \/ \E h \in Hqs : \/ LockUpdates(h) \/ Cache(h) \/ Fetch(h) \/ Catalog(h)
                    \/ Keep(h) \/ AskerAnswered(h) \/ HqDies(h)
  \/ Clock

USpec == UInit /\ [][UNext]_uVars

UTypeOK ==
  /\ time \in 0 .. LastTime
  /\ cached \in {Never} \cup [at : 0 .. LastTime, offer : Offers]
  /\ turn \in Hqs \cup {Never}
  /\ hq \in [Hqs -> [at : {"none", "locking", "cache", "headers", "fetching",
                           "keeping", "answer", "dead"},
                     force : BOOLEAN, when : 0 .. LastTime, offer : Offers]]
  /\ Len(sent) <= Cardinality(Askers)

-----------------------------------------------------------------------------
(* Automatic checks are throttled, failed ones too (update/desktop.ts:109): *)
(* none is sent within Interval after the last request whose outcome was    *)
(* kept, whoever sent it; a caller who started its own check by asking gets *)
(* the answer of a request; and an id belongs to one month only.            *)
KeptBefore(i) == SelectLastInSubSeq(sent, 1, i - 1, LAMBDA r : r.kept)
UpdatesThrottled ==
  /\ \A i \in DOMAIN sent : ~sent[i].force =>
       \A k \in {KeptBefore(i)} \ {0} :
         ~(sent[i].at >= sent[k].at /\ sent[i].at - sent[k].at < Interval)
  /\ \A c \in Askers :
       (asker[c].own /\ asker[c].force /\ asker[c].result # "none") =>
          \E i \in DOMAIN sent : sent[i].by = HqOf[c] /\ sent[i].force
  /\ \A i, j \in DOMAIN sent :
       (sent[i].id = sent[j].id /\ sent[i].id # Never) => sent[i].month = sent[j].month

(* What it rests on. Only who holds the lock looks and sends, so that the   *)
(* last request is its own; the record is of the last request whose outcome *)
(* was kept, and was too old when the next automatic one began; the ids are *)
(* numbered, and the stored one has its month.                             *)
RunAt == {"none", "locking", "cache", "headers", "fetching", "keeping", "answer", "dead"}
Locked == {"cache", "headers", "fetching", "keeping", "answer"}
RunRecords == [at : RunAt, force : BOOLEAN, when : 0 .. LastTime, offer : Offers]
AskRecords == [at : {"idle", "waiting", "done"}, force : BOOLEAN, own : BOOLEAN,
               result : Offers \cup {"failed", "silent"}]
RequestRecords == [at : 0 .. LastTime, month : Nat, id : Nat \cup {Never}, force : BOOLEAN,
                   by : Hqs, kept : BOOLEAN]
CacheRecords == [at : 0 .. LastTime, offer : Offers]
UpdatePieces ==
  /\ time \in 0 .. LastTime /\ cached \in {Never} \cup CacheRecords
  /\ monthId \in {Never} \cup [month : Nat, id : Nat]
  /\ hq \in [Hqs -> RunRecords] /\ asker \in [Askers -> AskRecords]
  /\ sent \in Seq(RequestRecords)

Within(at, since) == at >= since /\ at - since < Interval
LastKept(k, i) == /\ k \in DOMAIN sent /\ k < i /\ sent[k].kept
                  /\ \A j \in DOMAIN sent : k < j /\ j < i => ~sent[j].kept
OneAtATime ==
  \A h \in Hqs :
    /\ hq[h].at \in Locked <=> turn = h
    /\ hq[h].at \in {"fetching", "keeping"} =>
         Len(sent) > 0 /\ sent[Len(sent)].by = h /\ ~sent[Len(sent)].kept
    /\ hq[h].at \in {"fetching", "keeping", "answer"} /\ hq[h].force =>
         \E i \in DOMAIN sent : sent[i].by = h /\ sent[i].force
RecordOfLast ==
  /\ \A k \in DOMAIN sent :
       LastKept(k, Len(sent) + 1) => cached # Never /\ cached.at = sent[k].at
  /\ \A h \in Hqs : hq[h].at = "headers" /\ ~hq[h].force /\ cached # Never =>
       ~Within(hq[h].when, cached.at)
  /\ \A i, k \in DOMAIN sent :
       ~sent[i].force /\ LastKept(k, i) => ~Within(sent[i].at, sent[k].at)
AskedFor ==
  \A c \in Askers :
    /\ asker[c].at = "idle" => ~asker[c].own /\ asker[c].result = "none"
    /\ asker[c].at = "waiting" => asker[c].result = "none"
    /\ asker[c].at = "waiting" /\ asker[c].own =>
         /\ hq[HqOf[c]].at \notin {"none", "dead"}
         /\ asker[c].force => hq[HqOf[c]].force
    /\ asker[c].own /\ asker[c].force /\ asker[c].result # "none" =>
         \E i \in DOMAIN sent : sent[i].by = HqOf[c] /\ sent[i].force
OneMonthEach ==
  /\ IsFiniteSet(SentIds) /\ \A n \in SentIds \ {Never} : n <= Cardinality(SentIds)
  /\ monthId # Never =>
       /\ monthId.id \in SentIds
       /\ \A i \in DOMAIN sent : sent[i].id = monthId.id => sent[i].month = monthId.month
  /\ \A i, j \in DOMAIN sent :
       sent[i].id = sent[j].id /\ sent[i].id # Never => sent[i].month = sent[j].month
UpdInv == UpdatePieces /\ OneAtATime /\ RecordOfLast /\ AskedFor /\ OneMonthEach

(* A call sends one request at most: those that were sent, the runs on their *)
(* way to one and the calls that have not asked are no more than the calls. *)
AboutToSend == {h \in Hqs : hq[h].at \in {"locking", "cache", "headers"}}
NotAsked == {c \in Askers : asker[c].at = "idle"}
RequestsCounted ==
  /\ turn \in Hqs \cup {Never} /\ IsFiniteSet(AboutToSend)
  /\ Len(sent) + Cardinality(AboutToSend) + Cardinality(NotAsked) <= Cardinality(Askers)
=============================================================================
