----------------------------- MODULE WebServer -----------------------------
(***************************************************************************)
(* One request after another through the dashboard's HTTP server           *)
(* (web/server.ts, routes.ts, request.ts, sse.ts, static.ts): the loopback *)
(* guard, the route table, the token, the body that is read under a cap,   *)
(* the answer or the event stream, and the client that goes away.          *)
(***************************************************************************)
EXTENDS Naturals, FiniteSets

CONSTANTS Clients,   \* requests under way at the same time
          LiveTicks  \* how often what a live stream shows may change

ASSUME WebAssumption == LiveTicks \in Nat

VARIABLES
  web,    \* Clients -> the request: what was sent, where it is
  ticks,  \* how often the job that live streams follow has changed
  jobOver \* whether it has ended

wVars == << web, ticks, jobOver >>

(* The parts of a request that the guards read.                            *)
Hosts    == {"loopback", "missing", "empty_name", "foreign", "other_port"}
Origins  == {"absent", "loopback", "opaque", "foreign"}
FetchSites == {"absent", "same-origin", "none", "cross-site"}
Tokens   == {"right", "wrong", "none"}

(* The route table: every kind of route, the methods it answers, whether    *)
(* it wants the token, and what its handler does.                          *)
RouteRow(methods, auth, answer, body) ==
  [methods |-> methods, auth |-> auth, answer |-> answer, body |-> body]
Table ==
  [ asset   |-> RouteRow({"GET", "HEAD"}, "public", "asset", FALSE),
    page    |-> RouteRow({"GET"}, "public", "html", FALSE),
    bundle  |-> RouteRow({"GET"}, "public", "asset", FALSE),
    view    |-> RouteRow({"GET"}, "token", "sse", FALSE),
    follow  |-> RouteRow({"GET"}, "token", "live", FALSE),
    change  |-> RouteRow({"POST"}, "token", "sse", TRUE),
    await   |-> RouteRow({"POST"}, "token", "live", TRUE),
    answer  |-> RouteRow({"POST"}, "token", "json", TRUE) ]
Paths == DOMAIN Table \cup {"nowhere"}
Mutating == {"change", "await", "answer"}

(* requireTokenAuth(): no route under /_dashboard/ is public, or the table  *)
(* cannot be built.                                                        *)
Guarded == {"view", "follow", "change", "await", "answer"}
ASSUME TableAssumption == \A p \in Guarded : Table[p].auth = "token"

Sent == [host : Hosts, origin : Origins, site : FetchSites, token : Tokens,
         method : {"GET", "HEAD", "POST"}, path : Paths,
         body : {"small", "large", "malformed"}]

(* The requests that browsers and scripts make: at most one thing is wrong. *)
Proper(s) == {f \in {"host", "origin", "site", "token", "method"} :
                CASE f = "host" -> s.host = "loopback"
                  [] f = "origin" -> s.origin \in {"absent", "loopback"}
                  [] f = "site" -> s.site \in {"absent", "same-origin", "none"}
                  [] f = "token" -> s.token = "right"
                  [] OTHER -> s.path = "nowhere" \/ s.method \in Table[s.path].methods}
Requests == {s \in Sent : Cardinality(Proper(s)) >= 4
                          /\ (s.method # "POST" => s.body = "small")}

WebAt == {"unsent", "arrived", "matched", "handler", "reading", "streaming",
          "waiting", "answered", "gone"}

WInit ==
  /\ web = [c \in Clients |->
       [at |-> "unsent", sent |-> CHOOSE s \in Requests : TRUE, status |-> 0,
        aborted |-> FALSE, left |-> FALSE, ended |-> FALSE, shown |-> 0, acted |-> FALSE,
        over |-> FALSE, after |-> 0, drained |-> "no"]]
  /\ ticks = 0 /\ jobOver = FALSE

Of(c) == web[c].sent
RouteOf(c) == Table[Of(c).path]
WebTo(c, at) == web' = [web EXCEPT ![c].at = at]

(* The answer is written and ended; a body nobody read is discarded.        *)
Answer(c, status) ==
  /\ web' = [web EXCEPT ![c].at = "answered", ![c].status = status, ![c].ended = TRUE,
                        ![c].drained = IF Of(c).body = "large" THEN "draining" ELSE "no"]
  /\ UNCHANGED << ticks, jobOver >>

Receive(c) ==
  /\ web[c].at = "unsent"
  /\ \E s \in Requests : web' = [web EXCEPT ![c].at = "arrived", ![c].sent = s]
  /\ UNCHANGED << ticks, jobOver >>

-----------------------------------------------------------------------------
(* requireLoopbackRequest(): the host and its port, an origin if there is   *)
(* one, and what the browser says of the page the request came from.       *)
Loopback(s) ==
  /\ s.host = "loopback"
  /\ s.origin \in {"absent", "loopback"}
  /\ s.site \in {"absent", "same-origin", "none"}

Allowed(s) == Loopback(s)

(* matchRoute(): the row of the path, if its method is one of the row's.    *)
Route(c) ==
  /\ web[c].at = "arrived"
  /\ CASE ~Allowed(Of(c)) -> Answer(c, 403)
       [] Allowed(Of(c)) /\ Of(c).path = "nowhere" -> Answer(c, 404)
       [] OTHER -> IF Of(c).method \in RouteOf(c).methods
                     THEN WebTo(c, "matched") /\ UNCHANGED << ticks, jobOver >>
                     ELSE Answer(c, 405)

(* requireToken(), for the rows that want it.                              *)
Admit(c) ==
  /\ web[c].at = "matched"
  /\ IF RouteOf(c).auth = "token" /\ Of(c).token # "right"
       THEN Answer(c, 403)
       ELSE WebTo(c, "handler") /\ UNCHANGED << ticks, jobOver >>

(* A page, or the failure of what it shows: an optional part that cannot be *)
(* read is left out, the rest answers as an error.                         *)
Page(c) ==
  /\ web[c].at = "handler" /\ RouteOf(c).answer = "html"
  /\ \E status \in {200, 500} : Answer(c, status)

(* A file of static/, unchanged or missing ones included.                  *)
Asset(c) ==
  /\ web[c].at = "handler" /\ RouteOf(c).answer = "asset"
  /\ \E status \in {200, 304, 404} : Answer(c, status)

(* An SSE handler runs after its headers; a JSON one before.               *)
Begin(c) ==
  /\ web[c].at = "handler" /\ RouteOf(c).answer \in {"sse", "live", "json"}
  /\ web' = [web EXCEPT ![c].at = IF RouteOf(c).body THEN "reading" ELSE "streaming",
                        ![c].status = IF RouteOf(c).answer = "json" THEN 0 ELSE 200]
  /\ UNCHANGED << ticks, jobOver >>

(* Mutant of CloseIsDisconnect: the request is watched, which closes when   *)
(* its body has been read.                                                 *)
BodyReadCloses(c) == RouteOf(c).body
(* Only the response's close before its end is a client that left.         *)
CloseIsDisconnect(c) == FALSE

(* readBoundedBody() and readSignals(): a large body is refused once the    *)
(* cap is passed, without destroying the connection; one that is no object *)
(* is refused too. A stream says so in its notice, JSON in its status.      *)
ReadBody(c) ==
  /\ web[c].at = "reading"
  /\ IF Of(c).body = "small"
       THEN web' = [web EXCEPT ![c].at = "streaming",
                               ![c].aborted = @ \/ CloseIsDisconnect(c),
                               ![c].ended = @ \/ CloseIsDisconnect(c)]
       ELSE IF RouteOf(c).answer = "json"
              THEN web' = [web EXCEPT ![c].at = "answered", ![c].ended = TRUE,
                             ![c].status = IF Of(c).body = "large" THEN 413 ELSE 400,
                             ![c].drained = IF Of(c).body = "large" THEN "draining" ELSE "no"]
              ELSE web' = [web EXCEPT ![c].at = "answered", ![c].shown = 1, ![c].ended = TRUE]
  /\ UNCHANGED << ticks, jobOver >>

(* The service is called. A JSON answer follows; a stream shows its one     *)
(* patch; a live stream goes on.                                           *)
Act(c) ==
  /\ web[c].at = "streaming" /\ RouteOf(c).answer # "live"
  /\ web' = [web EXCEPT ![c].at = "answered", ![c].acted = TRUE,
                        ![c].status = 200, ![c].shown = IF web[c].ended THEN @ ELSE @ + 1,
                        ![c].ended = TRUE]
  /\ UNCHANGED << ticks, jobOver >>

(* A live stream: show what changed, stop when the job is over, else wait   *)
(* for the next round.                                                     *)
Follow(c) ==
  /\ web[c].at = "streaming" /\ RouteOf(c).answer = "live"
  /\ web' = [web EXCEPT ![c].at = IF jobOver THEN "answered" ELSE "waiting",
                        ![c].shown = IF web[c].ended THEN @ ELSE ticks + 1,
                        ![c].after = IF web[c].aborted THEN @ + 1 ELSE @,
                        ![c].over = jobOver /\ ~web[c].ended,
                        ![c].acted = TRUE,
                        ![c].ended = jobOver \/ web[c].ended]
  /\ UNCHANGED << ticks, jobOver >>

(* The one check, after the wait.                                          *)
Woken(c) == IF web[c].aborted THEN "gone" ELSE "streaming"

Wake(c) ==
  /\ web[c].at = "waiting"
  /\ web' = [web EXCEPT ![c].at = Woken(c)]
  /\ UNCHANGED << ticks, jobOver >>

(* Up to MAX_DISCARDED_BODY_BYTES of what is left of a body are dropped;    *)
(* a sender that goes on loses its connection.                             *)
Drain(c) ==
  /\ web[c].drained = "draining"
  /\ \E d \in {"whole", "cut"} : web' = [web EXCEPT ![c].drained = d]
  /\ UNCHANGED << ticks, jobOver >>

(* The client's socket closes before its answer was ended: the signal that  *)
(* handlers watch is aborted. close() of the server does the same to all.   *)
HangUp(c) ==
  /\ web[c].at \in {"matched", "handler", "reading", "streaming", "waiting"}
  /\ ~web[c].ended
  /\ web' = [web EXCEPT ![c].aborted = TRUE, ![c].left = TRUE, ![c].ended = TRUE,
                        ![c].at = IF web[c].at \in {"streaming", "waiting"} THEN @ ELSE "gone"]
  /\ UNCHANGED << ticks, jobOver >>

CloseAll ==
  /\ \E c \in Clients : ~web[c].ended /\ web[c].at # "unsent"
  /\ web' = [c \in Clients |->
       IF web[c].ended \/ web[c].at = "unsent" THEN web[c]
       ELSE [web[c] EXCEPT !.aborted = TRUE, !.left = TRUE, !.ended = TRUE,
               !.at = IF @ \in {"streaming", "waiting"} THEN @ ELSE "gone"]]
  /\ UNCHANGED << ticks, jobOver >>

Progress ==
  /\ ~jobOver
  /\ \/ ticks < LiveTicks /\ ticks' = ticks + 1 /\ UNCHANGED jobOver
     \/ jobOver' = TRUE /\ ticks' = ticks + 1
  /\ UNCHANGED web

WNext ==
  \/ \E c \in Clients :
       \/ Receive(c) \/ Route(c) \/ Admit(c) \/ Page(c) \/ Asset(c) \/ Begin(c)
       \/ ReadBody(c) \/ Act(c) \/ Follow(c) \/ Wake(c) \/ Drain(c) \/ HangUp(c)
  \/ CloseAll
  \/ Progress

WSpec == WInit /\ [][WNext]_wVars

WTypeOK ==
  /\ \A c \in Clients : /\ web[c].at \in WebAt /\ web[c].sent \in Sent
                        /\ web[c].shown \in 0 .. LiveTicks + 2
  /\ ticks \in 0 .. LiveTicks + 1 /\ jobOver \in BOOLEAN

-----------------------------------------------------------------------------
(* Nothing but a request of the dashboard's own pages reaches a service     *)
(* (web/server.ts:646-740): one on loopback by every header it carries,     *)
(* with the token, by the method of its route.                             *)
OnlyOwnPagesAct ==
  \A c \in Clients : (web[c].acted /\ Of(c).path \in Guarded) =>
    /\ Loopback(Of(c)) /\ Of(c).token = "right"
    /\ Of(c).method \in RouteOf(c).methods
    /\ RouteOf(c).body => Of(c).body = "small"

(* A client that stays gets the whole answer: its stream is ended only      *)
(* after it showed what the handler had last to show, a followed job's end  *)
(* included (web/sse.ts:45-56, web/request.ts:125-133); and a handler whose *)
(* client has left does at most one more round.                            *)
AnsweredWhole ==
  \A c \in Clients :
    /\ (web[c].at \in {"answered", "gone"} /\ ~web[c].left) =>
         /\ web[c].ended /\ web[c].status # 0
         /\ (web[c].status = 200 /\ RouteOf(c).answer \in {"sse", "live"}) => web[c].shown > 0
         /\ (web[c].acted /\ RouteOf(c).answer = "live") =>
              web[c].over /\ web[c].shown = ticks + 1
    /\ web[c].after <= 1
    /\ web[c].aborted => web[c].status # 413

(* Both: who may ask, and that who asked is answered.                      *)
ServedAsAsked == OnlyOwnPagesAct /\ AnsweredWhole

(* What it rests on, of each request: how far it may be at all, what its    *)
(* handler may have done, and what its client was told. A followed job does *)
(* not change any more once it is over.                                    *)
Statuses == {0, 200, 304, 400, 403, 404, 405, 413, 500}
WebRecords ==
  [at : WebAt, sent : Sent, status : Statuses, aborted : BOOLEAN, left : BOOLEAN,
   ended : BOOLEAN, shown : Nat, acted : BOOLEAN, over : BOOLEAN, after : {0, 1},
   drained : {"no", "draining", "whole", "cut"}]

Streams(s) == s.path \in DOMAIN Table /\ Table[s.path].answer \in {"sse", "live"}
Lives(s) == s.path \in DOMAIN Table /\ Table[s.path].answer = "live"
Matches(s) == Loopback(s) /\ s.path \in DOMAIN Table /\ s.method \in Table[s.path].methods
Trusted(s) == Matches(s) /\ (Table[s.path].auth = "token" => s.token = "right")
Usable(s) == Trusted(s) /\ (Table[s.path].body => s.body = "small")

GetsThere(r) ==
  /\ r.at = "matched" => Matches(r.sent)
  /\ r.at \in {"handler", "reading"} => Trusted(r.sent)
  /\ r.at \in {"streaming", "waiting"} => Usable(r.sent)
  /\ r.at \in {"reading", "streaming"} => Table[r.sent.path].answer \in {"sse", "live", "json"}
  /\ r.at = "waiting" => Lives(r.sent)
  /\ r.acted => Usable(r.sent) /\ r.at \in {"streaming", "waiting", "answered", "gone"}

LeavesOnce(r) ==
  /\ r.aborted => r.left
  /\ r.left => r.ended /\ r.at \in {"streaming", "waiting", "answered", "gone"}
  /\ r.ended => r.left \/ r.at = "answered"
  /\ r.at = "gone" => r.left
  /\ r.at = "answered" => r.ended
  /\ r.over => r.at = "answered"

IsTold(r) ==
  /\ r.at \in {"unsent", "arrived", "matched", "handler"} => r.status = 0
  /\ r.at \in {"reading", "streaming", "waiting"} =>
       r.status = IF Streams(r.sent) THEN 200 ELSE 0
  /\ r.aborted => r.status # 413
  /\ r.at = "answered" /\ ~r.left =>
       /\ r.status # 0
       /\ r.status = 200 => Matches(r.sent) /\ (Streams(r.sent) => r.shown > 0)
       /\ r.acted /\ Lives(r.sent) => r.over

StopsSoon(r) == ~r.aborted \/ r.at = "streaming" => r.after = 0
ToTheEnd(r) == r.over => jobOver /\ r.shown = ticks + 1

WebInv ==
  /\ web \in [Clients -> WebRecords] /\ ticks \in Nat /\ jobOver \in BOOLEAN
  /\ \A c \in Clients : /\ GetsThere(web[c]) /\ LeavesOnce(web[c]) /\ IsTold(web[c])
                        /\ StopsSoon(web[c]) /\ ToTheEnd(web[c])

(* A stream shows no more than there was to show, and nothing before its    *)
(* handler has run.                                                        *)
Silent(r) == \/ r.at \in {"unsent", "arrived", "matched", "handler", "reading"}
             \/ r.at = "streaming" /\ ~Lives(r.sent)
ShownInTime ==
  /\ ticks <= LiveTicks + (IF jobOver THEN 1 ELSE 0)
  /\ \A c \in Clients : web[c].shown <= ticks + 1 /\ (Silent(web[c]) => web[c].shown = 0)
=============================================================================
