----------------------------- MODULE OwnedSkills -----------------------------
(***************************************************************************)
(* One agent skill that HQ installs, repairs and removes                   *)
(* (src/agent-setup/owned-skills.ts): the target directory with its        *)
(* SKILL.md, the private ownership record beside HQ's state, the windows   *)
(* and commands that work on them one at a time under the profile lock,    *)
(* and a user who may edit the directory at any moment.  HQ may be of two  *)
(* releases at once (an old window left open), each with its own SKILL.md. *)
(***************************************************************************)
EXTENDS Naturals, FiniteSets

CONSTANTS Windows,    \* the calls of apply, each made by a process of its own
          ReleaseOf,  \* ReleaseOf[w]: the release, which is also its SKILL.md
          MaxUserEdits

ASSUME SkillsAssumption ==
  /\ ReleaseOf \in [Windows -> {"old", "new"}] /\ MaxUserEdits \in Nat
  /\ 0 \notin Windows

VARIABLES
  skillFile,  \* "absent" | "empty" | "user" (a file that is not HQ's) | a release
  record,  \* "none", or the release whose digest the ownership record holds
  skillsHolder,  \* the window that holds the "agent-skills" lock, or 0 for none
  apply,   \* apply[w]: [at, action, state]
  unseen,  \* windows that have not looked since the user's last edit
  userEdits,
  faults,  \* some step failed or some window died half-way
  destroyed     \* what the user had written before the last look was destroyed

skillVars == <<skillFile, record, skillsHolder, apply, unseen, userEdits, faults, destroyed>>

NoWindow == 0
Releases == {"old", "new"}
SkillActions == {"install", "repair", "remove"}

SkillsInit ==
  /\ skillFile \in {"absent", "empty", "user"} /\ record = "none"
  /\ skillsHolder = NoWindow /\ unseen = {} /\ userEdits = 0
  /\ faults = FALSE /\ destroyed = FALSE
  /\ \E action \in [Windows -> SkillActions] :
       apply = [w \in Windows |->
                  [at |-> "lock", action |-> action[w], state |-> "missing"]]

\* What inspect() makes of the directory and the record.
SkillState(w) ==
  IF skillFile = "absent" \/ (skillFile = "empty" /\ record # "none") THEN "missing"
  ELSE IF skillFile \notin Releases \/ record # skillFile THEN "conflict"
  ELSE IF record = ReleaseOf[w] THEN "installed" ELSE "outdated"

AtSkill(w, label) == apply[w].at = label /\ skillsHolder = w
ToSkill(w, label) == apply' = [apply EXCEPT ![w].at = label]
FilesStay == UNCHANGED <<skillFile, record, userEdits, destroyed>>

SkillLock(w) ==
  /\ apply[w].at = "lock" /\ skillsHolder = NoWindow
  /\ skillsHolder' = w /\ ToSkill(w, "inspect")
  /\ FilesStay /\ UNCHANGED <<unseen, faults>>

\* The call returns or throws: withLock releases the lock.
Returns(w) ==
  /\ ToSkill(w, "over") /\ skillsHolder' = NoWindow

InspectSkill(w) ==
  LET state == SkillState(w)
      action == apply[w].action
      refused == \/ state = "conflict" \/ (action = "remove" /\ record = "none")
                 \/ action # "remove" /\ state = "installed"
                 \/ action = "install" /\ state = "outdated"
      next == IF refused THEN "over"
              ELSE IF action # "remove" THEN "stage"
              ELSE IF state = "missing" THEN "rmdir" ELSE "unlink"
  IN /\ AtSkill(w, "inspect")
     /\ apply' = [apply EXCEPT ![w].at = next, ![w].state = state]
     /\ skillsHolder' = IF next = "over" THEN NoWindow ELSE w
     /\ unseen' = unseen \ {w}
     /\ FilesStay /\ UNCHANGED faults

\* Removal unlinks SKILL.md, the directory when it is there, and the record.
Destroys(w) == destroyed' = (destroyed \/ (skillFile = "user" /\ w \notin unseen))

UnlinkSkill(w) ==
  /\ AtSkill(w, "unlink")
  /\ \/ /\ skillFile \notin {"absent", "empty"} /\ skillFile' = "empty" /\ Destroys(w)
        /\ ToSkill(w, "rmdir") /\ UNCHANGED <<skillsHolder, faults>>
     \/ /\ skillFile \in {"absent", "empty"} /\ Returns(w) \* ENOENT
        /\ faults' = TRUE /\ UNCHANGED <<skillFile, destroyed>>
  /\ UNCHANGED <<record, unseen, userEdits>>

RemoveSkillDir(w) ==
  /\ AtSkill(w, "rmdir")
  /\ \/ /\ skillFile \in {"absent", "empty"} /\ skillFile' = "absent"
        /\ ToSkill(w, "unrecord") /\ UNCHANGED <<skillsHolder, faults>>
     \/ /\ skillFile \notin {"absent", "empty"} /\ Returns(w) \* ENOTEMPTY
        /\ faults' = TRUE /\ UNCHANGED skillFile
  /\ UNCHANGED <<record, unseen, userEdits, destroyed>>

RemoveRecord(w) ==
  /\ AtSkill(w, "unrecord")
  /\ record' = "none" /\ Returns(w)
  /\ UNCHANGED <<skillFile, unseen, userEdits, destroyed, faults>>

\* Mutant of StillTheSame: the skill is not inspected again after staging.
StillTheSameAlways(w) == TRUE

StillTheSame(w) == SkillState(w) = apply[w].state

\* The staged copy is made in a private home, then the target looked at again.
StageSkill(w) ==
  /\ AtSkill(w, "stage")
  /\ unseen' = unseen \ {w}
  /\ \/ StillTheSame(w) /\ ToSkill(w, "mkdir") /\ UNCHANGED <<skillsHolder, faults>>
     \/ ~StillTheSame(w) /\ Returns(w) /\ UNCHANGED faults
     \/ Returns(w) /\ UNCHANGED faults \* the registrar fails or the call is cancelled
  /\ FilesStay

MakeSkillDir(w) ==
  /\ AtSkill(w, "mkdir")
  /\ skillFile' = IF skillFile = "absent" THEN "empty" ELSE skillFile
  /\ ToSkill(w, "write")
  /\ UNCHANGED <<record, skillsHolder, unseen, userEdits, faults, destroyed>>

MayPlace == skillFile = "empty" \* COPYFILE_EXCL, into a directory that is there

PublishSkill(w) ==
  /\ AtSkill(w, "write")
  /\ \/ /\ apply[w].state = "outdated" /\ skillFile # "absent"
        /\ Destroys(w) /\ skillFile' = ReleaseOf[w]
        /\ ToSkill(w, "record") /\ UNCHANGED <<skillsHolder, faults>>
     \/ /\ apply[w].state = "missing" /\ MayPlace
        /\ destroyed' = (destroyed \/ skillFile = "user") /\ skillFile' = ReleaseOf[w]
        /\ ToSkill(w, "record") /\ UNCHANGED <<skillsHolder, faults>>
     \* EEXIST, ENOENT, disk full
     \/ /\ Returns(w) /\ faults' = TRUE /\ UNCHANGED <<skillFile, destroyed>>
  /\ UNCHANGED <<record, unseen, userEdits>>

RecordSkill(w) ==
  /\ AtSkill(w, "record") /\ Returns(w)
  /\ \/ record' = ReleaseOf[w] /\ UNCHANGED faults
     \/ faults' = TRUE /\ UNCHANGED record
  /\ UNCHANGED <<skillFile, unseen, userEdits, destroyed>>

\* The process dies; the profile lock of a dead process is recovered.
WindowDies(w) ==
  /\ skillsHolder = w /\ Returns(w) /\ faults' = TRUE
  /\ FilesStay /\ UNCHANGED unseen

UserEdits ==
  /\ userEdits < MaxUserEdits /\ userEdits' = userEdits + 1
  /\ skillFile' \in {"absent", "empty", "user"} \ {skillFile}
  /\ unseen' = Windows
  /\ UNCHANGED <<record, skillsHolder, apply, faults, destroyed>>

SkillStep(w) ==
  \/ SkillLock(w) \/ InspectSkill(w) \/ UnlinkSkill(w) \/ RemoveSkillDir(w)
  \/ RemoveRecord(w) \/ StageSkill(w) \/ MakeSkillDir(w) \/ PublishSkill(w)
  \/ RecordSkill(w) \/ WindowDies(w)

SkillsNext == UserEdits \/ \E w \in Windows : SkillStep(w)

SkillsSpec == SkillsInit /\ [][SkillsNext]_skillVars

SkillCalls ==
  [Windows ->
     [at : {"lock", "inspect", "unlink", "rmdir", "unrecord", "stage", "mkdir", "write", "record",
            "over"},
      action : SkillActions, state : {"missing", "installed", "outdated", "conflict"}]]

SkillsTypeOK ==
  /\ skillFile \in {"absent", "empty", "user"} \cup Releases
  /\ record \in {"none"} \cup Releases /\ skillsHolder \in Windows \cup {NoWindow}
  /\ apply \in SkillCalls
  /\ unseen \subseteq Windows /\ userEdits \in 0..MaxUserEdits
  /\ faults \in BOOLEAN /\ destroyed \in BOOLEAN

(***************************************************************************)
(* What the preservation below rests on: the window that works on the      *)
(* skill holds the lock; one that looked since the user's last edit, and   *)
(* went on, saw no file of the user's; one that stages found the skill     *)
(* missing or outdated; and without faults and edits the record is of the  *)
(* copy that is there, except between publishing and recording it.         *)
(***************************************************************************)
WorksAlone ==
  \A w \in Windows : apply[w].at \notin {"lock", "over"} <=> skillsHolder = w
SawNoUserFile ==
  \A w \in Windows : apply[w].at \notin {"lock", "inspect", "over"} /\ w \notin unseen
                       => skillFile # "user"
StagesWhatItSaw ==
  \A w \in Windows : apply[w].at = "stage" => apply[w].state \in {"missing", "outdated"}
KnownCopy ==
  ~faults /\ userEdits = 0 =>
    /\ \A w \in Windows : /\ apply[w].at = "record" => skillFile = ReleaseOf[w]
                          /\ apply[w].at = "unrecord" => skillFile = "absent"
    /\ (\A w \in Windows : apply[w].at # "record") /\ skillFile \in Releases
         => record = skillFile

(***************************************************************************)
(* What a user wrote before HQ last looked is never overwritten or removed *)
(* (an installation into a missing skill overwrites nothing even then),    *)
(* and as long as no step failed and nobody edited, HQ still knows its own *)
(* copy whenever no call is under way.                                     *)
(***************************************************************************)
SkillsPreserved ==
  /\ ~destroyed
  /\ (skillsHolder = NoWindow /\ ~faults /\ userEdits = 0 /\ skillFile \in Releases)
       => record = skillFile

SkillsInv ==
  SkillsTypeOK /\ WorksAlone /\ SawNoUserFile /\ StagesWhatItSaw /\ KnownCopy /\ ~destroyed
=============================================================================
