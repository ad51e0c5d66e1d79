----------------------------- MODULE MCDashboard -----------------------------
(***************************************************************************)
(* The parts of HQ that serve the dashboard, the MCP client and the site   *)
(* CLI, for TLC.  They share no state, so a behaviour of this module is    *)
(* one of a single part, chosen at the start; the others rest in one of    *)
(* their initial states.                                                   *)
(***************************************************************************)
EXTENDS SitesService, SiteConnections, McpServer, ChildProcess, OwnedSkills, ProLicense,
        SetupJobs, Provisioning, Restore, PushExecution, AccountHandlers, TLC

VARIABLE part

\* Inventories and Connect share the site CLI's profiles only, which anyone may
\* change at any moment: each is checked without the other.
Parts == {"sites", "connections", "connect", "mcp", "child", "skills", "pro", "setup",
          "provisioning", "restore", "push", "accounts"}

MCKindOf == [r \in Requests |-> CASE r = 1 -> "refresh" [] r = 2 -> "list"
                                   [] r = 3 -> "verify" [] OTHER -> "warm"]
MCReleaseOf == [w \in Windows |-> IF w = 1 THEN "old" ELSE "new"]

NoFlows == [c \in Calls |-> NoFlow]
OneTarget == [c \in Calls |-> "t1"]
EveryPoller == PushPollers

Setup(via, force, act, check, want) ==
  [via |-> via, force |-> force, activate |-> act, check |-> check, ai |-> want]
MCOptions == {Setup("output", FALSE, TRUE, TRUE, "unset"),
              Setup("status", FALSE, TRUE, TRUE, "unset"),
              Setup("bare", FALSE, TRUE, TRUE, "unset"),
              Setup("output", TRUE, FALSE, FALSE, "no"),
              Setup("api", FALSE, TRUE, TRUE, "unset"),
              Setup("output", FALSE, TRUE, TRUE, "yes")}
MCEnvOf == [i \in RestoreIds |-> IF i = 3 THEN "f" ELSE "e"]

Resting(p) == part # p
DashboardInit ==
  /\ part \in Parts
  /\ SInit /\ MInit
  /\ CInit /\ (part \notin {"connections", "connect"} =>
       profileSite = [n \in Names |-> Absent] /\ usable = {})
  /\ KInit /\ (Resting("child") => deaf = {} /\ holding = {})
  /\ SkillsInit /\ (Resting("skills") =>
       skillFile = "absent" /\ \A w \in Windows : apply[w].action = "install")
  /\ ProInit /\ (Resting("pro") =>
       /\ stored = "none"
       /\ bound = CHOOSE d \in Domains : TRUE
       /\ \A i \in Reviews : proReview[i].domain = bound)
  /\ ProvInit /\ (Resting("provisioning") =>
       /\ plugin = "absent"
       /\ options = [p \in Runs |-> CHOOSE o \in Options : TRUE])
  /\ RestoreInit /\ (Resting("restore") => destination = CHOOSE d \in Destinations : TRUE)
  /\ PushInit
  /\ SetupInit /\ (Resting("setup") => wallNow = 0)
  /\ (Resting("accounts") => account = NoAccount /\ links = [n \in Links |-> NoAccount])
  /\ AInit /\ (Resting("accounts") => review[1].state = "none")

Only(p) ==
  /\ part = p /\ UNCHANGED part
  /\ IF p = "sites" THEN TRUE ELSE UNCHANGED sVars
  /\ IF p \in {"connections", "connect"} THEN TRUE ELSE UNCHANGED cVars
  /\ IF p = "mcp" THEN TRUE ELSE UNCHANGED mVars
  /\ IF p = "child" THEN TRUE ELSE UNCHANGED kVars
  /\ IF p = "skills" THEN TRUE ELSE UNCHANGED skillVars
  /\ IF p = "pro" THEN TRUE ELSE UNCHANGED proVars
  /\ IF p = "setup" THEN TRUE ELSE UNCHANGED setupVars
  /\ IF p = "provisioning" THEN TRUE ELSE UNCHANGED provVars
  /\ IF p = "restore" THEN TRUE ELSE UNCHANGED restoreVars
  /\ IF p = "push" THEN TRUE ELSE UNCHANGED pushVars
  /\ IF p = "accounts" THEN TRUE ELSE UNCHANGED aVars

DashboardNext ==
  \/ Only("sites") /\ SNext
  \/ Only("connections") /\ CNext /\ UNCHANGED connect
  \/ Only("connect") /\ CNext /\ UNCHANGED round
  \/ Only("mcp") /\ MNext
  \/ Only("child") /\ KNext
  \/ Only("skills") /\ SkillsNext
  \/ Only("pro") /\ ProNext
  \/ Only("setup") /\ SetupNext
  \/ Only("provisioning") /\ ProvNext
  \/ Only("restore") /\ RestoreNext
  \/ Only("push") /\ PushNext
  \/ Only("accounts") /\ ANext

DashboardSpec ==
  DashboardInit
    /\ [][DashboardNext]_<<part, sVars, cVars, mVars, kVars, skillVars, proVars, setupVars,
                              provVars, restoreVars, pushVars, aVars>>

\* The state of the part has its type, its lists keep their limits, and a part
\* with proofs fits the inductive invariant that they rest on.
DashboardTypeOK ==
  CASE part = "sites" -> SitesInv [] part \in {"connections", "connect"} -> ConnInv
    [] part = "mcp" -> McpInv [] part = "child" -> ChildInv
    [] part = "skills" -> SkillsInv [] part = "pro" -> ProInv
    [] part = "setup" -> SetupTypeOK [] part = "provisioning" -> ProvInv
    [] part = "restore" -> RestoreInv [] part = "push" -> PushTypeOK /\ PushInv
    [] part = "accounts" -> ATypeOK /\ AccountInv /\ SavesCounted
=============================================================================
