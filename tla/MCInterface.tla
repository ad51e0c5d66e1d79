----------------------------- MODULE MCInterface -----------------------------
(***************************************************************************)
(* What HQ shows to those who use it, for TLC: the commands, the process   *)
(* and the server of the dashboard, its pages, the updates of the desktop  *)
(* application, and the lock they all take a profile with.  The parts      *)
(* share no state, so a behaviour of this module is one of a single part,  *)
(* chosen at the start; the others rest in one of their initial states.    *)
(***************************************************************************)
EXTENDS ProfileLock, HostingCommands, PluginInstall, DashboardProcess, WebServer,
        DesktopUpdates, PageActions

VARIABLE part

Parts == {"lock", "commands", "install", "process", "web", "updates", "pages"}

\* Two askers of one HQ, a third of another that shares its cache file.
MCHqOf == [c \in Askers |-> IF c = 3 THEN "h2" ELSE "h1"]

Resting(p) == part # p
InterfaceInit ==
  /\ part \in Parts
  /\ (Resting("lock") => lock = NoFile) /\ Init
  /\ (Resting("process") =>
       /\ portHolder = [p \in Ports |-> "free"]
       /\ dash = [d \in Dashes |-> FirstDash(CHOOSE a \in Asked : a.role # "desktop")])
  /\ DInit
  /\ WInit
  \* The other HQ looks for updates by itself, and is not told to.
  /\ UInit /\ (\A c \in Askers : asker[c].force => part = "updates" /\ HqOf[c] = "h1")
  /\ (Resting("updates") => cached = Never)
  /\ (Resting("pages") => \E r \in Diagnostics : press = FirstPress(r)) /\ BInit
  /\ (Resting("install") => install = (CHOOSE i \in Installs : TRUE) /\ onSite = "absent")
  /\ PInit
  /\ IF Resting("commands")
       THEN line = FirstLine("sites list", {}) /\ CmdStart
       ELSE CmdInit

Only(p) ==
  /\ part = p /\ UNCHANGED part
  /\ IF p = "lock" THEN TRUE ELSE UNCHANGED vars
  /\ IF p = "commands" THEN TRUE ELSE UNCHANGED cmdVars
  /\ IF p = "install" THEN TRUE ELSE UNCHANGED piVars
  /\ IF p = "process" THEN TRUE ELSE UNCHANGED dpVars
  /\ IF p = "web" THEN TRUE ELSE UNCHANGED wVars
  /\ IF p = "updates" THEN TRUE ELSE UNCHANGED uVars
  /\ IF p = "pages" THEN TRUE ELSE UNCHANGED bVars

InterfaceNext ==
  \/ Only("lock") /\ Prompt /\ Next
  \/ Only("commands") /\ CmdNext
  \/ Only("install") /\ PNext
  \/ Only("process") /\ DNext
  \/ Only("web") /\ WNext
  \/ Only("updates") /\ UNext
  \/ Only("pages") /\ BNext

InterfaceSpec ==
  InterfaceInit
    /\ [][InterfaceNext]_<<part, vars, cmdVars, piVars, dpVars, wVars, uVars, bVars>>

\* The state of the part has its type, and what its proofs rest on holds.
InterfaceTypeOK ==
  CASE part = "lock" -> TypeOK [] part = "commands" -> CmdInv
    [] part = "install" -> PluginInv [] part = "process" -> DTypeOK /\ DashInv
    [] part = "web" -> WTypeOK /\ WebInv /\ ShownInTime
    [] part = "updates" -> UTypeOK /\ UpdInv /\ RequestsCounted
    [] part = "pages" -> BTypeOK /\ PressInv

\* A command does what its words say, once they were confirmed, and a plugin is
\* installed and active wherever an exit status was taken for it (cli/hosting/).
CommandsKept == CommandsHonest /\ InstallHonest
=============================================================================
