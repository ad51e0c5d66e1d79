------------------------------- MODULE MCLive -------------------------------
(***************************************************************************)
(* What must happen eventually, for TLC: each part below with the fairness *)
(* its own module states.  The parts share no state, so a behaviour is one *)
(* of a single part, chosen at the start, and fairness is about the steps  *)
(* of that part.                                                           *)
(***************************************************************************)
EXTENDS ProfileLock, SetupJobs, ChildProcess, SitesService, McpServer, TLC

VARIABLE part

Parts == {"lock", "setup", "child", "sites", "mcp"}

\* In one of the runs every request asks for a refresh.
MCKindOf == [r \in Requests |-> CASE r = 1 -> "refresh" [] r = 2 -> "list"
                                   [] r = 3 -> "warm" [] OTHER -> "verify"]

LiveInit ==
  /\ part \in Parts
  /\ Init /\ (part # "lock" => lock = NoFile)
  /\ SetupInit /\ (part # "setup" => wallNow = 0)
  /\ SInit /\ MInit
  /\ KInit /\ (part # "child" => deaf = {} /\ holding = {})

Only(p) ==
  /\ part = p /\ UNCHANGED part
  /\ IF p = "lock" THEN TRUE ELSE UNCHANGED vars
  /\ IF p = "setup" THEN TRUE ELSE UNCHANGED setupVars
  /\ IF p = "child" THEN TRUE ELSE UNCHANGED kVars
  /\ IF p = "sites" THEN TRUE ELSE UNCHANGED sVars
  /\ IF p = "mcp" THEN TRUE ELSE UNCHANGED mVars

LiveNext ==
  \/ Only("lock") /\ Next
  \/ Only("setup") /\ SetupNext
  \/ Only("child") /\ KNext
  \/ Only("sites") /\ SNext
  \/ Only("mcp") /\ MNext

liveVars == <<part, vars, setupVars, kVars, sVars, mVars>>

\* The fairness of each part's module, about the steps of that part.
LiveFairness ==
  /\ WF_vars(part = "lock" /\ Age)
  /\ \A p \in Procs :
       WF_vars(part = "lock" /\ Run(p)) /\ WF_vars(part = "lock" /\ Start(p))
  /\ WF_setupVars(part = "setup" /\ Drained) /\ WF_setupVars(part = "setup" /\ ClockTick)
  /\ \A t \in Targets : WF_setupVars(part = "setup" /\ (ReserveFails(t) \/ BeginJob(t)))
  /\ \A id \in JobIds :
       /\ WF_setupVars(part = "setup" /\ FinishJob(id))
       /\ WF_setupVars(part = "setup" /\ PagePoll(id))
  /\ WF_kVars(part = "child" /\ Data) /\ WF_kVars(part = "child" /\ FinishChild)
  /\ WF_kVars(part = "child" /\ Escalate)
  /\ WF_kVars(part = "child" /\ Alarm("timed_out"))
  /\ \A p \in Members : WF_kVars(part = "child" /\ HeedWarning(p))
  /\ WF_sVars(part = "sites" /\ \E g \in Generations : LoadStep(g))
  /\ \A r \in Requests : WF_sVars(part = "sites" /\ RequestStep(r))
  /\ WF_mVars(part = "mcp" /\ HandleStep)

LiveSpec == LiveInit /\ [][LiveNext]_liveVars /\ LiveFairness
=============================================================================
