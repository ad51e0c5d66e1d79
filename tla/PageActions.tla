---------------------------- MODULE PageActions ----------------------------
(***************************************************************************)
(* The handlers behind the dashboard's buttons (web/handlers/*.ts, with    *)
(* patch.ts): each reads its body, checks its input, calls one service and *)
(* paints what came of it.  One row of Actions says how a handler differs  *)
(* from the others; one button is pressed.  The accounts' own handlers are *)
(* in AccountHandlers.tla, the live streams in WebServer.tla.              *)
(***************************************************************************)
EXTENDS Naturals, Sequences

VARIABLES
  press,   \* the request: [at, row, outcome, left], row its handler's
  painted, \* the notices its stream has shown, in order
  viewLost \* whether the page could not be read when it was to be painted

bVars == << press, painted, viewLost >>

-----------------------------------------------------------------------------
(* body:    readSignals() refuses what is no object.                       *)
(* before:  how many neutral notices are shown before the service runs.    *)
(* can:     how the service may end; "throws" stands for every exception.  *)
(* good:    the notice of a service that did it.                           *)
(* paint:   "page" reads config.json again, "destination" refreshes the    *)
(*          warm inventory if there is one, "plain" reads nothing.         *)
(* recover: where an exception goes: the page again, a toast, the same     *)
(*          page with an error in it ("inside"), a repaint and then a toast *)
(*          ("both"), or a JSON failure.                                   *)
(* quiet:   nothing is painted for a client that left.                     *)
ActionRow(name, body, before, can, good, paint, recover, quiet) ==
  [name |-> name, body |-> body, before |-> before, can |-> can, good |-> good,
   paint |-> paint, recover |-> recover, quiet |-> quiet]
Done == {"done", "throws"}
Told == {"done", "missing", "failed", "throws"}
(* What the status page of a push reads of its job, when it is not done.    *)
JobRead == {"job_running", "job_failed"}

SiteProfiles ==
  { ActionRow("site_logout",  TRUE, 0, Told, "ok", "destination", "toast", FALSE),
    ActionRow("site_rename",  TRUE, 0, Told \cup {"rejected"}, "ok", "destination", "toast", FALSE),
    ActionRow("site_remove",  TRUE, 0, Told, "ok", "destination", "toast", FALSE),
    ActionRow("site_connect", TRUE, 1, {"done", "failed", "throws"}, "ok", "destination", "toast", FALSE),
    ActionRow("site_add",     TRUE, 1, {"done", "failed", "throws"}, "neutral", "page", "toast", FALSE),
    ActionRow("logout_json",  FALSE, 0, Told, "ok", "plain", "json", FALSE) }
ConnectEnvironment ==
  { ActionRow("env_connect", TRUE, 2, {"done", "failed", "unready", "throws"}, "ok",
                        "destination", "toast", FALSE) }
Pushes ==
  { ActionRow("push_save",   TRUE, 0, Done, "ok", "page", "page", FALSE),
    ActionRow("push_remove", TRUE, 0, Done, "ok", "page", "page", FALSE),
    ActionRow("push_plan",   TRUE, 0, Done \cup {"unresolved"}, "neutral", "page", "page", FALSE),
    ActionRow("push_apply",  TRUE, 0, Done, "neutral", "page", "page", FALSE),
    ActionRow("push_status", FALSE, 0, Done \cup {"verify"} \cup JobRead, "ok",
                        "page", "page", TRUE) }
Setups ==
  { ActionRow("setup_start", TRUE, 0, Done, "ok", "page", "page", FALSE) }
Restores ==
  { ActionRow("restore_plan",   TRUE, 0, Done, "neutral", "page", "inside", TRUE),
    ActionRow("restore_apply",  TRUE, 0, Done, "neutral", "page", "inside", TRUE),
    ActionRow("restore_status", FALSE, 0, Done, "neutral", "page", "inside", TRUE) }
Tools ==
  { ActionRow("tool_run", FALSE, 0, Done, "neutral", "page", "inside", TRUE) }
Licenses ==
  { ActionRow("pro_save", TRUE, 0, Done, "ok", "page", "toast", FALSE),
    ActionRow("pro_act",  FALSE, 0, Done, "ok", "page", "toast", FALSE) }
ReadModes ==
  { ActionRow("read_mode", FALSE, 0, Done, "neutral", "page", "toast", FALSE) }
Agents ==
  { ActionRow("agent_now",  FALSE, 0, Done, "neutral", "page", "toast", FALSE),
    ActionRow("agent_wait", FALSE, 1, Done, "neutral", "page", "toast", FALSE) }
Mcp ==
  { ActionRow("mcp_connect", FALSE, 2, Done, "neutral", "page", "both", FALSE),
    ActionRow("mcp_dismiss", FALSE, 0, Done, "neutral", "page", "toast", FALSE),
    ActionRow("mcp_verify",  FALSE, 0, Done, "ok", "plain", "toast", FALSE) }
Acknowledge ==
  { ActionRow("acknowledge", FALSE, 0, Done, "neutral", "page", "toast", FALSE) }
Diagnostics ==
  { ActionRow("diagnose", FALSE, 0, Done, "ok", "plain", "plain", FALSE) }
Inventory ==
  { ActionRow("sites", FALSE, 0, Done, "neutral", "plain", "plain", FALSE) }
Updates ==
  { ActionRow("update_check", FALSE, 0, Done, "ok", "plain", "plain", FALSE),
    ActionRow("update_quiet", FALSE, 0, Done, "warn", "plain", "silence", FALSE) }

Actions == UNION { SiteProfiles, ConnectEnvironment, Pushes, Setups, Restores, Tools, Licenses,
                   ReadModes, Agents, Mcp, Acknowledge, Diagnostics, Inventory, Updates }

Row_ == press.row
Outcomes == {"none", "done", "missing", "failed", "rejected", "unready",
             "unresolved", "verify", "throws", "refused"} \cup JobRead

FirstPress(r) == [at |-> "body", row |-> r, outcome |-> "none", left |-> FALSE]
BInit ==
  /\ press \in {FirstPress(r) : r \in Actions}
  /\ painted = << >> /\ viewLost = FALSE

At(at) == press' = [press EXCEPT !.at = at]
Show(notice) == painted' = IF press.left THEN painted ELSE Append(painted, notice)

(* The body is no object, or the input is refused: nothing was called.      *)
Accepted ==
  /\ press.at = "body"
  /\ \/ At("before") /\ UNCHANGED viewLost
     \/ /\ press' = [press EXCEPT !.at = "recover", !.outcome = "refused"]
        /\ UNCHANGED viewLost
  /\ UNCHANGED painted

(* What is shown while the service runs. For the agents and the clients it  *)
(* is the page, which may be unreadable.                                   *)
Before ==
  /\ press.at = "before"
  /\ IF Len(painted) >= Row_.before \/ press.left
       THEN At("service") /\ UNCHANGED << painted, viewLost >>
       ELSE \/ Show("neutral") /\ UNCHANGED << press, viewLost >>
            \/ /\ Row_.name \in {"agent_wait", "mcp_connect"}
               /\ viewLost' = TRUE
               /\ press' = [press EXCEPT !.at = "recover", !.outcome = "throws"]
               /\ UNCHANGED painted

Service ==
  /\ press.at = "service"
  /\ \E o \in Row_.can :
       press' = [press EXCEPT !.outcome = o,
                              !.at = IF o = "throws" THEN "recover" ELSE "paint"]
  /\ UNCHANGED << painted, viewLost >>

(* Mutant of NoticeOf: whatever the command answered, it is done.           *)
NoticeOfDone(o) == IF o \in {"unready", "unresolved"} THEN "neutral" ELSE Row_.good
(* A job's status is painted "ok" unless it needs verification, also the    *)
(* status of a push that failed: the words tell it, not the level.         *)
NoticeOf(o) ==
  CASE o = "done" -> Row_.good
    [] o \in JobRead -> "ok"
    [] o \in {"missing", "verify"} -> "warn"
    [] o \in {"unready", "unresolved"} -> "neutral"
    [] OTHER -> "danger"

(* Only a service that did something, or a page that is its whole answer,   *)
(* is read again for it.                                                   *)
PageReads == \/ Row_.paint = "page"
             \/ Row_.paint = "destination" /\ ~(Row_.name = "env_connect" /\ press.outcome = "failed")

Quiet == Row_.quiet /\ press.left

Paint ==
  /\ press.at = "paint"
  /\ \/ /\ IF Quiet THEN UNCHANGED painted ELSE Show(NoticeOf(press.outcome))
        /\ At("close") /\ UNCHANGED viewLost
     \/ /\ PageReads /\ ~Quiet
        /\ viewLost' = TRUE
        /\ At(IF Row_.recover = "inside" THEN "broken" ELSE "recover")
        /\ UNCHANGED painted

(* The catch block. A page painted there may be lost as well: the stream    *)
(* then ends without a word, and the connection is destroyed.              *)
RecoverPress ==
  /\ press.at = "recover"
  /\ CASE Row_.recover \in {"toast", "plain", "json"} ->
            Show("danger") /\ At("close") /\ UNCHANGED viewLost
       [] Row_.recover = "silence" -> At("close") /\ UNCHANGED << painted, viewLost >>
       [] OTHER ->
            \/ /\ IF Quiet THEN UNCHANGED painted ELSE Show("danger")
               /\ At("close") /\ UNCHANGED viewLost
            \/ /\ ~Quiet /\ viewLost' = TRUE
               /\ IF Row_.recover = "both"
                    THEN Show("danger") /\ At("close")
                    ELSE At("broken") /\ UNCHANGED painted

Close ==
  /\ press.at = "close" /\ At("closed")
  /\ UNCHANGED << painted, viewLost >>

(* The client goes away; the service is not told, except where it waits.    *)
GoAway ==
  /\ press.at \notin {"closed", "broken"} /\ ~press.left
  /\ press' = [press EXCEPT !.left = TRUE]
  /\ UNCHANGED << painted, viewLost >>

BNext == Accepted \/ Before \/ Service \/ Paint \/ RecoverPress \/ Close \/ GoAway
BSpec == BInit /\ [][BNext]_bVars

BTypeOK ==
  /\ press.at \in {"body", "before", "service", "paint", "recover", "close",
                   "closed", "broken"}
  /\ press.row \in Actions /\ press.outcome \in Outcomes
  /\ \A i \in DOMAIN painted : painted[i] \in {"ok", "warn", "neutral", "danger"}

-----------------------------------------------------------------------------
(* Who pressed a button is told what came of it (web/handlers/*.ts): "ok"    *)
(* only of what was done, or of a push whose job was read and needs no     *)
(* verification (running and failed ones too: handlers/pushes.ts);         *)
(* "danger" of what was done only if the page could not be read afterwards; *)
(* and a stream whose client stayed ends with the outcome as its last word, *)
(* or breaks because the page was lost.                                    *)
LastShown == painted[Len(painted)]
SaidOk == {"done"} \cup JobRead
PressesAnswered ==
  press.at \in {"closed", "broken"} =>
    /\ (painted # << >> /\ LastShown = "ok") => press.outcome \in SaidOk
    /\ (painted # << >> /\ LastShown = "danger" /\ press.outcome = "done") => viewLost
    /\ (~press.left /\ press.at = "closed" /\ Row_.recover # "silence") =>
         /\ painted # << >>
         /\ press.outcome \in {"failed", "rejected", "refused", "throws"} => LastShown = "danger"
         /\ Len(painted) <= Row_.before + 1
    /\ press.at = "broken" => viewLost

(* What it rests on. Until the stream is painted for the last time it holds *)
(* neutral notices only; a press that failed nowhere before is repainted    *)
(* because the page was lost; the last notice says the outcome.             *)
PressRecords == [at : {"body", "before", "service", "paint", "recover", "close",
                       "closed", "broken"},
                 row : Actions, outcome : Outcomes, left : BOOLEAN]
Underway == {"body", "before", "service", "paint", "recover"}
OnlyNeutral == /\ \A i \in 1 .. Len(painted) : painted[i] = "neutral"
               /\ Len(painted) <= Row_.before
LastWord ==
  /\ Len(painted) <= Row_.before + 1
  /\ (painted # << >> /\ LastShown = "ok") => press.outcome \in SaidOk
  /\ (painted # << >> /\ LastShown = "danger" /\ press.outcome = "done") => viewLost
  /\ (~press.left /\ Row_.recover # "silence") =>
       /\ painted # << >>
       /\ press.outcome \in {"failed", "rejected", "refused", "throws"} => LastShown = "danger"
PressInv ==
  /\ press \in PressRecords /\ painted \in Seq({"ok", "warn", "neutral", "danger"})
  /\ press.at \in Underway => OnlyNeutral
  /\ press.at = "recover" => press.outcome \in {"refused", "throws"} \/ viewLost
  /\ press.at \in {"close", "closed"} => LastWord
  /\ press.at = "broken" => OnlyNeutral /\ viewLost
=============================================================================
