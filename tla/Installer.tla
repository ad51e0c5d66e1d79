----------------------------- MODULE Installer -----------------------------
(* Novamira put on a cPanel account by a temporary must-use plugin:         *)
(* src/src/hosting/providers/cpanel-installer-setup.ts and the PHP it       *)
(* places, cpanel-installer.ts.                                             *)
(*                                                                          *)
(* Several setups of HQ meet on one site, where any visit may run a placed  *)
(* installer.  An upload or a rename HQ gives up on may still be executed   *)
(* later, and a run unpacks its archive file by file while HQ cleans up.    *)
EXTENDS Naturals, FiniteSets

CONSTANTS
  Setups,     \* setups, each with its own generated slug
  SetupDeadline,   \* time of a setup up to its clean-up (five minutes)
  InstallerTtl,        \* INSTALLER_TTL (three minutes)
  Wait,       \* removals of the installer and the wait for a run that has started
  Leftover,   \* TEN_MINUTES
  InstallerTime     \* bound on the clock

ASSUME InstallerAssumption ==
  /\ {SetupDeadline, InstallerTtl, Wait, Leftover, InstallerTime} \subseteq Nat
  /\ SetupDeadline + Wait < Leftover

VARIABLES
  time,       \* the clock of HQ and of the server
  setupAt,       \* where each setup is
  since,      \* when it began, then when its wait began
  placed,     \* it may have an installer on the site
  heard,      \* what it read from status.json
  report,     \* what it told the user
  namedLeft,     \* it named files it could not remove
  installer,       \* the installer: "none", "part", "php"
  dir,        \* the working directory: "none", "open", then complete: "ready" with
              \* the archive, "payload" with what is unpacked of it, "bare" for a
              \* Novamira that is there already; "remains" came after its removal
  writtenAt,    \* when its files were last written
  statusFile,     \* status.json
  renaming,   \* a rename HQ gave up on
  arriving,   \* an upload HQ gave up on: "none", to the "dir", of the "part"
  php,        \* the run of the installer by a visit
  novamira,   \* the plugin: "absent", "present", "active"
  installed   \* history: the setups whose installer moved or activated it

hqVars == <<setupAt, since, placed, heard, report, namedLeft>>
siteVars == <<installer, dir, writtenAt, statusFile, renaming, arriving, php, novamira, installed>>
instVars == <<time, hqVars, siteVars>>

InstInit ==
  /\ time = 0
  /\ setupAt = [s \in Setups |-> "idle"] /\ since = [s \in Setups |-> 0]
  /\ placed = {} /\ namedLeft = {} /\ renaming = {} /\ installed = {}
  /\ heard = [s \in Setups |-> "none"] /\ report = [s \in Setups |-> "none"]
  /\ installer = [s \in Setups |-> "none"] /\ dir = [s \in Setups |-> "none"]
  /\ writtenAt = [s \in Setups |-> 0] /\ statusFile = [s \in Setups |-> "none"]
  /\ php = [s \in Setups |-> "none"] /\ arriving = [s \in Setups |-> "none"]
  /\ novamira \in {"absent", "present"}

To(s, p) == setupAt' = [setupAt EXCEPT ![s] = p]

(* What is over needs its times no longer.                                 *)
Tell(s, r) ==
  /\ To(s, "done") /\ report' = [report EXCEPT ![s] = r]
  /\ since' = [since EXCEPT ![s] = 0] /\ heard' = [heard EXCEPT ![s] = "none"]
Late(s) == time >= since[s] + SetupDeadline

-----------------------------------------------------------------------------
(* removeLeftovers() *)

Seen == {s \in Setups : installer[s] # "none" \/ dir[s] # "none"}

(* Mutant of Young: a file counts as left behind after its installer's     *)
(* lifetime.                                                                *)
YoungTtl(s) == time < writtenAt[s] + InstallerTtl

(* What is younger than ten minutes may belong to a setup that goes on.  How  *)
(* young a directory is that came back is not kept: it may be either.       *)
Young(s) == time < writtenAt[s] + Leftover

BeginSetup(s) ==
       /\ setupAt[s] = "idle"
       /\ \/ /\ \E o \in Seen : Young(o) \/ dir[o] = "remains"
             /\ Tell(s, "conflict") /\ UNCHANGED <<installer, dir, statusFile>>
          \/ /\ ~\E o \in Seen : Young(o)
             /\ To(s, "check") /\ since' = [since EXCEPT ![s] = time]
             /\ UNCHANGED <<report, heard>>
             /\ \E gone \in SUBSET Seen :
                  /\ installer' = [o \in Setups |-> IF o \in gone THEN "none" ELSE installer[o]]
                  /\ dir' = [o \in Setups |-> IF o \in gone THEN "none" ELSE dir[o]]
                  /\ statusFile' = [o \in Setups |-> IF o \in gone THEN "none" ELSE statusFile[o]]
       /\ UNCHANGED <<time, placed, namedLeft, writtenAt, renaming, arriving, php, novamira,
                      installed>>

(* Permalinks, the version that is there, the readiness document, the      *)
(* download: any of them may end the setup before it wrote anything.  A    *)
(* Novamira that is there needs no archive, only to be activated.          *)
CheckInstall(s) ==
         /\ setupAt[s] = "check"
         /\ \/ To(s, IF novamira = "absent" THEN "upload" ELSE "enable")
               /\ UNCHANGED <<report, heard, since>>
            \/ Tell(s, "refused")
            \/ novamira = "active" /\ Tell(s, "installed")
         /\ UNCHANGED <<time, placed, namedLeft, siteVars>>

-----------------------------------------------------------------------------
(* Uploads, the rename, the polls *)

(* The working directory, closed to visitors first, then complete.         *)
Upload(s) ==
  /\ setupAt[s] \in {"upload", "enable"} /\ ~Late(s)
  /\ dir' = [dir EXCEPT ![s] = IF @ = "none" THEN "open"
                               ELSE IF setupAt[s] = "upload" THEN "ready" ELSE "bare"]
  /\ writtenAt' = [writtenAt EXCEPT ![s] = time]
  /\ IF dir[s] = "open" THEN To(s, "place") ELSE UNCHANGED setupAt
  /\ UNCHANGED <<time, since, placed, heard, report, namedLeft, installer, statusFile,
                 renaming, arriving, php, novamira, installed>>

(* An upload fails, runs out of its two minutes or is aborted, with or      *)
(* without its effect, which may come after the clean-up and brings the     *)
(* directory back.                                                          *)
UploadLost(s) ==
  /\ setupAt[s] \in {"upload", "enable", "place"}
  /\ arriving' = [arriving EXCEPT ![s] = IF setupAt[s] = "place" THEN "part" ELSE "dir"]
  /\ To(s, "unplace")
  /\ UNCHANGED <<time, since, placed, heard, report, namedLeft, installer, dir, writtenAt,
                 statusFile, renaming, php, novamira, installed>>
LateUpload(s) ==
  /\ arriving[s] # "none"
  /\ arriving' = [arriving EXCEPT ![s] = "none"]
  /\ writtenAt' = [writtenAt EXCEPT ![s] = time]
  /\ IF arriving[s] = "part"
     THEN installer' = [installer EXCEPT ![s] = "part"] /\ UNCHANGED dir
     ELSE dir' = [dir EXCEPT ![s] = IF @ = "none" THEN "remains" ELSE @] /\ UNCHANGED installer
  /\ UNCHANGED <<time, hqVars, statusFile, renaming, php, novamira, installed>>

(* From the rename on the installer may be live, whatever its answer is.   *)
PlacedBeforeRename(s) == placed' = placed \cup {s}
Place(s) ==
  /\ setupAt[s] = "place" /\ ~Late(s)
  /\ installer' = [installer EXCEPT ![s] = "part"]
  /\ writtenAt' = [writtenAt EXCEPT ![s] = time]
  /\ PlacedBeforeRename(s)
  /\ To(s, "rename")
  /\ UNCHANGED <<time, since, heard, report, namedLeft, dir, statusFile, renaming,
                 arriving, php, novamira, installed>>
Rename(s) ==
  /\ setupAt[s] = "rename" /\ installer[s] = "part"
  /\ installer' = [installer EXCEPT ![s] = "php"]
  /\ To(s, "poll") /\ placed' = placed \cup {s}
  /\ UNCHANGED <<time, since, heard, report, namedLeft, dir, writtenAt, statusFile,
                 renaming, arriving, php, novamira, installed>>
RenameLost(s) ==
  /\ setupAt[s] = "rename"
  /\ renaming' = renaming \cup {s}
  /\ To(s, "unplace")
  /\ UNCHANGED <<time, since, placed, heard, report, namedLeft, installer, dir, writtenAt,
                 statusFile, arriving, php, novamira, installed>>
LateRename(s) ==
  /\ s \in renaming
  /\ renaming' = renaming \ {s}
  /\ installer' = [installer EXCEPT ![s] = IF @ = "part" THEN "php" ELSE @]
  /\ UNCHANGED <<time, hqVars, dir, writtenAt, statusFile, arriving, php, novamira, installed>>

Hear(s) == heard' = [heard EXCEPT ![s] = statusFile[s]]
PollStatus(s) ==
  /\ setupAt[s] = "poll" /\ statusFile[s] # "none"
  /\ Hear(s) /\ To(s, "unplace")
  /\ UNCHANGED <<time, since, placed, report, namedLeft, siteVars>>

(* A minute of polls brought nothing.                                      *)
PollsOver(s) ==
  /\ setupAt[s] = "poll" /\ statusFile[s] = "none"
  /\ heard' = [heard EXCEPT ![s] = "silent"]
  /\ To(s, "unplace")
  /\ UNCHANGED <<time, since, placed, report, namedLeft, siteVars>>

(* A failure, the deadline or a cancellation goes to the clean-up; one       *)
(* before is an upload or a rename that is lost and never executed.         *)
Interrupt(s) ==
  /\ setupAt[s] = "poll"
  /\ To(s, "unplace")
  /\ UNCHANGED <<time, since, placed, heard, report, namedLeft, siteVars>>

-----------------------------------------------------------------------------
(* The clean-up, with deadlines of its own *)

(* remove(): what could not be removed is named to the user.               *)
RemovePhp(s) ==
  /\ setupAt[s] = "unplace"
  /\ \/ installer' = [installer EXCEPT ![s] = IF @ = "php" THEN "none" ELSE @]
        /\ UNCHANGED namedLeft
     \/ namedLeft' = namedLeft \cup {s} /\ UNCHANGED installer
  /\ To(s, "unpart")
  /\ UNCHANGED <<time, since, placed, heard, report, dir, writtenAt, statusFile,
                 renaming, arriving, php, novamira, installed>>
RemovePart(s) ==
  /\ setupAt[s] = "unpart"
  /\ \/ installer' = [installer EXCEPT ![s] = IF @ = "part" THEN "none" ELSE @]
        /\ UNCHANGED namedLeft
     \/ namedLeft' = namedLeft \cup {s} /\ UNCHANGED installer
  /\ IF heard[s] = "silent"
     THEN To(s, "look") /\ since' = [since EXCEPT ![s] = time]
     ELSE To(s, "tidy") /\ UNCHANGED since
  /\ UNCHANGED <<time, placed, heard, report, dir, writtenAt, statusFile, renaming,
                 arriving, php, novamira, installed>>

(* runStarted(): a lock file or a payload, or a listing that fails.        *)
LookAtStatus(s) ==
          /\ setupAt[s] = "look"
          /\ \/ php[s] # "none" /\ To(s, "wait")
             \/ php[s] = "none" /\ setupAt' \in {[setupAt EXCEPT ![s] = p] : p \in {"wait", "tidy"}}
          /\ UNCHANGED <<time, since, placed, heard, report, namedLeft, siteVars>>
WaitEnds(s) ==
  /\ setupAt[s] = "wait"
  /\ IF statusFile[s] # "none" THEN Hear(s) ELSE UNCHANGED heard
  /\ To(s, "tidy")
  /\ UNCHANGED <<time, since, placed, report, namedLeft, siteVars>>
Tidied(s) == dir' = [dir EXCEPT ![s] = "none"]
RemoveDir(s) ==
  /\ setupAt[s] = "tidy"
  /\ \/ Tidied(s) /\ statusFile' = [statusFile EXCEPT ![s] = "none"] /\ UNCHANGED namedLeft
     \/ namedLeft' = namedLeft \cup {s} /\ UNCHANGED <<dir, statusFile>>
  /\ Tell(s, CASE heard[s] = "ok" -> "installed"
               [] heard[s] = "none" /\ s \notin placed -> "not_placed"
               [] OTHER -> "check")
  /\ UNCHANGED <<time, placed, installer, writtenAt, renaming, arriving, php, novamira, installed>>

-----------------------------------------------------------------------------
(* The installer, run by a visit to the site *)

(* Its first outcome is final; without a directory there is none.  It      *)
(* removes itself.                                                         *)
FinishSetup(s, result) ==
       /\ statusFile' = [statusFile EXCEPT ![s] =
                            IF dir[s] # "none" /\ @ = "none" THEN result ELSE @]
       /\ installer' = [installer EXCEPT ![s] = "none"]
RunOver(s, result) == FinishSetup(s, result) /\ php' = [php EXCEPT ![s] = "none"]
Expired(s) == time > writtenAt[s] + InstallerTtl

(* One run holds the lock, which goes with the directory; a directory that  *)
(* came back has no archive.                                                *)
Visit(s) ==
  /\ installer[s] = "php" /\ (php[s] = "none" \/ dir[s] \in {"none", "remains"})
  /\ IF dir[s] \in {"none", "remains"} \/ statusFile[s] # "none" \/ Expired(s)
     THEN FinishSetup(s, "error") /\ UNCHANGED php
     ELSE /\ php' = [php EXCEPT ![s] = IF dir[s] = "bare" THEN "activate" ELSE "extract"]
          /\ UNCHANGED <<statusFile, installer>>
  /\ UNCHANGED <<time, hqVars, dir, writtenAt, renaming, arriving, novamira, installed>>

(* The package is checked, once: what a dead run has unpacked ends the next. *)
Extract(s) ==
  /\ php[s] = "extract"
  /\ \/ novamira = "absent" /\ dir[s] = "ready"
        /\ dir' = [dir EXCEPT ![s] = "payload"]
        /\ php' = [php EXCEPT ![s] = "unzip"] /\ UNCHANGED <<statusFile, installer>>
     \/ RunOver(s, "error") /\ UNCHANGED dir
  /\ UNCHANGED <<time, hqVars, writtenAt, renaming, arriving, novamira, installed>>

(* unzip_file() writes directories, then file by file; it makes the working *)
(* directory again when that is removed meanwhile.                          *)
Unzip(s) ==
  /\ php[s] = "unzip" /\ dir[s] = "none"
  /\ dir' = [dir EXCEPT ![s] = "remains"]
  /\ UNCHANGED <<time, hqVars, installer, writtenAt, statusFile, renaming, arriving, php,
                 novamira, installed>>

(* Once every file is there, it replaces no Novamira that got there meanwhile. *)
Move(s) ==
  /\ php[s] = "unzip"
  /\ \/ /\ novamira = "absent" /\ ~Expired(s) /\ dir[s] # "none"
        /\ novamira' = "present" /\ installed' = installed \cup {s}
        /\ php' = [php EXCEPT ![s] = "activate"] /\ UNCHANGED <<statusFile, installer>>
     \/ RunOver(s, "error") /\ UNCHANGED <<novamira, installed>>
  /\ UNCHANGED <<time, hqVars, dir, writtenAt, renaming, arriving>>
ReportWhenActive == novamira = "active"
ActivatePlugin(s) ==
        /\ php[s] = "activate" /\ novamira = "present"
        /\ novamira' = "active" /\ installed' = installed \cup {s}
        /\ UNCHANGED <<time, hqVars, installer, dir, writtenAt, statusFile, renaming, arriving,
                       php>>
Report(s) ==
  /\ php[s] = "activate"
  /\ \/ ReportWhenActive /\ RunOver(s, "ok")
     \/ RunOver(s, "error")
  /\ UNCHANGED <<time, hqVars, dir, writtenAt, renaming, arriving, novamira, installed>>

(* The visit dies; the lock goes with it.                                  *)
VisitDies(s) ==
  /\ php[s] # "none"
  /\ php' = [php EXCEPT ![s] = "none"]
  /\ UNCHANGED <<time, hqVars, installer, dir, writtenAt, statusFile, renaming,
                 arriving, novamira, installed>>

InstTick ==
  /\ time < InstallerTime
  /\ \A s \in Setups :
       /\ setupAt[s] \in {"check", "upload", "enable", "place", "rename", "poll"} => ~Late(s)
       /\ setupAt[s] \in {"look", "wait"} => time < since[s] + Wait
       /\ setupAt[s] \notin {"unplace", "unpart", "tidy"}
  /\ time' = time + 1
  /\ UNCHANGED <<hqVars, siteVars>>

InstStep(s) ==
  \/ BeginSetup(s) \/ CheckInstall(s) \/ Upload(s) \/ UploadLost(s) \/ LateUpload(s)
  \/ Place(s) \/ Rename(s) \/ RenameLost(s) \/ LateRename(s) \/ PollStatus(s) \/ PollsOver(s) \/ Interrupt(s)
  \/ RemovePhp(s) \/ RemovePart(s) \/ LookAtStatus(s) \/ WaitEnds(s) \/ RemoveDir(s)
  \/ Visit(s) \/ Extract(s) \/ Unzip(s) \/ Move(s) \/ ActivatePlugin(s) \/ Report(s) \/ VisitDies(s)
InstNext == (\E s \in Setups : InstStep(s)) \/ InstTick
InstSpec == InstInit /\ [][InstNext]_instVars

-----------------------------------------------------------------------------
InstTypeOK ==
  /\ time \in 0..InstallerTime /\ since \in [Setups -> 0..InstallerTime]
  /\ setupAt \in [Setups -> {"idle", "check", "upload", "enable", "place", "rename", "poll",
                             "unplace", "unpart", "look", "wait", "tidy", "done"}]
  /\ report \in [Setups -> {"none", "conflict", "refused", "installed", "not_placed", "check"}]
  /\ writtenAt \in [Setups -> 0..InstallerTime]
  /\ {placed, namedLeft, renaming, installed} \subseteq SUBSET Setups
  /\ novamira \in {"absent", "present", "active"}
  /\ heard \in [Setups -> {"none", "silent", "ok", "error"}]
  /\ installer \in [Setups -> {"none", "part", "php"}]
  /\ dir \in [Setups -> {"none", "open", "ready", "payload", "bare", "remains"}]
  /\ arriving \in [Setups -> {"none", "dir", "part"}]
  /\ statusFile \in [Setups -> {"none", "ok", "error"}]
  /\ php \in [Setups -> {"none", "extract", "unzip", "activate"}]

(* What a setup says is true of the site: "installed" only when Novamira is *)
(* active, and "nothing was installed" only when its installer never acted  *)
(* and never will, although a rename may be executed after HQ gave it up.   *)
HonestSetups ==
  /\ (\E s \in Setups : report[s] = "installed") => novamira = "active"
  /\ \A s \in Setups : report[s] = "not_placed" =>
       s \notin installed /\ php[s] = "none" /\ installer[s] # "php"

(* A setup that is over and named no files left nothing a visit could       *)
(* install from: an installer that turns up late finds its directory gone,  *)
(* or what a late upload or a run that was still unpacking brought back.    *)
(* One that installed left no directory at all.                             *)
NothingLeft ==
  \A s \in Setups : s \notin namedLeft =>
    /\ report[s] \in {"installed", "not_placed", "check"} => dir[s] \in {"none", "remains"}
    /\ report[s] = "installed" => dir[s] = "none" /\ installer[s] = "none"

(* Cleaning up after earlier setups never touches one that goes on.         *)
LiveUntouched ==
  [][\A o, s \in Setups :
       setupAt[o] = "idle" /\ setupAt'[o] = "check" /\ s # o /\ setupAt[s] \notin {"idle", "done"}
            => installer'[s] = installer[s] /\ dir'[s] = dir[s]]_instVars

(* What a setup through File Manager says of the site and of its own files *)
(* (cpanel-installer-setup.ts) is true.                                    *)
HonestReports == HonestSetups /\ NothingLeft

(* What these rest on: "ok" is written, and heard, only of an active        *)
(* Novamira by a run that is over; what was never placed runs nowhere, and   *)
(* an upload is only late of what was never placed; a setup that reported   *)
(* is over, and one that has not uploaded has no files.                     *)
OkIsActive ==
  \A s \in Setups : statusFile[s] = "ok" \/ heard[s] = "ok" => novamira = "active"
OkIsOver ==
  \A s \in Setups : statusFile[s] = "ok" \/ heard[s] = "ok" \/ report[s] = "installed"
    => php[s] = "none" /\ installer[s] = "none" /\ arriving[s] = "none"
Early == {"idle", "check", "upload", "enable", "place"}
NeverPlaced ==
  \A s \in Setups :
    /\ s \notin placed => /\ installer[s] # "php" /\ php[s] = "none" /\ heard[s] = "none"
                          /\ s \notin installed /\ s \notin renaming /\ statusFile[s] = "none"
    /\ arriving[s] # "none" => s \notin placed /\ setupAt[s] \notin Early
    /\ setupAt[s] \in Early => s \notin placed /\ installer[s] = "none"
    /\ setupAt[s] \in {"rename", "poll"} => s \in placed
    /\ setupAt[s] = "rename" => installer[s] # "php" /\ php[s] = "none" /\ statusFile[s] = "none"
    /\ s \in renaming => setupAt[s] \notin Early \cup {"rename", "poll"}
    /\ setupAt[s] \in Early \cup {"rename", "poll"} => heard[s] = "none"
Reported ==
  \A s \in Setups : /\ report[s] # "none" => setupAt[s] = "done"
                    /\ report[s] = "not_placed" => s \notin placed
                    /\ setupAt[s] \in {"idle", "check"} => dir[s] = "none"

(* The files of a setup that goes on are as young as its deadlines allow.   *)
InDeadline ==
  \A s \in Setups :
    /\ since[s] <= time
    /\ setupAt[s] \in {"check", "upload", "enable", "place", "rename", "poll", "unplace", "unpart"}
         => time <= since[s] + SetupDeadline
    /\ setupAt[s] \in {"look", "wait"} => time <= since[s] + Wait
YoungWhileLive ==
  \A s \in Seen \cup placed :
    /\ setupAt[s] \in {"upload", "enable", "place", "rename", "poll", "unplace", "unpart"}
         => since[s] <= writtenAt[s]
    /\ setupAt[s] \in {"look", "wait"} => since[s] <= writtenAt[s] + SetupDeadline
    /\ setupAt[s] = "tidy" => time <= writtenAt[s] + SetupDeadline + Wait

InstInv ==
  /\ InstTypeOK /\ OkIsActive /\ OkIsOver /\ NeverPlaced /\ Reported /\ InDeadline /\ YoungWhileLive
  /\ HonestReports
=============================================================================
