---------------------------- MODULE ProfileLock ----------------------------
(***************************************************************************)
(* src/src/config/lock.ts: the cross-process lock every write of HQ's      *)
(* configuration, credentials and history runs under.                      *)
(*                                                                         *)
(* The lock is a file created with O_EXCL.  A process that finds the file  *)
(* of a dead process recovers it: it links a claim file named after the    *)
(* identity (device and inode) of the file it inspected, inspects the lock *)
(* again under that claim, and unlinks it.  Every system call that other   *)
(* processes can observe is a step of its own.                             *)
(*                                                                         *)
(* A process of the model is one operating-system process of one machine   *)
(* running acquire() for one key; a crashed process never comes back (a    *)
(* restart has a new pid, which is another member of Procs).               *)
(***************************************************************************)
CONSTANTS
  Procs,           \* processes competing for one lock key
  Ghost,           \* a process that died before the others started
  Files,           \* file identities (device and inode)
  NoFile,          \* no lock file, or no identity in hand
  Nobody,          \* content that does not parse, or no claim
  Stalls,          \* may a process be suspended for staleMs half-way?
  ClaimantsCrash,  \* may a process die while its claim file exists?
  InodeReuse       \* may a new file get an inode a process still remembers?

ASSUME LockAssumption ==
  /\ Ghost \notin Procs
  /\ Nobody \notin Procs \union {Ghost}
  /\ NoFile \notin Files
  /\ Stalls \in BOOLEAN
  /\ ClaimantsCrash \in BOOLEAN
  /\ InodeReuse \in BOOLEAN

Prompt == ~Stalls /\ ~ClaimantsCrash /\ ~InodeReuse

VARIABLES
  lock,     \* the file at lockPath, or NoFile
  owner,    \* the owner written in that file, Nobody while it is empty
  aged,     \* the mtime of that file is at least staleMs in the past
  claim,    \* owner of the claim file named after each identity
  pc,       \* where each process is
  file,     \* identity in hand: the file created, or the file inspected
  old,      \* the mtime test of the last stat
  names,    \* claim files still to look at in recoveryInProgress
  sweep,    \* the claim being looked at: its name and its owner
  after     \* where a releaseOwned call returns to

vars == <<lock, owner, aged, claim, pc, file, old, names, sweep, after>>

Owners == Procs \union {Ghost, Nobody}

(***************************************************************************)
(* Program locations.  Claiming is the part of recover() between link()    *)
(* and the end of its finally block.                                       *)
(***************************************************************************)
Scanning == {"list", "statClaim", "readClaim", "sweepOwned", "sweepUnlink"}
Claiming == {"stat2", "read2", "stat3", "claimOwned", "steal",
             "unclaimOwned", "unclaim"}
Labels   == Scanning \union Claiming \union
            {"idle", "open", "write", "confirm", "held", "relOwned",
             "relUnlink", "stat", "read", "link", "wait", "dead"}

Alive(p) == p \in Procs /\ pc[p] # "dead"
Creating(p) == pc[p] = "write" /\ file[p] = lock
NoSweep == [name |-> NoFile, owner |-> Nobody]

TypeOK ==
  /\ lock \in Files \union {NoFile}
  /\ owner \in Owners
  /\ aged \in BOOLEAN
  /\ claim \in [Files -> Owners]
  /\ pc \in [Procs -> Labels]
  /\ file \in [Procs -> Files \union {NoFile}]
  /\ old \in [Procs -> BOOLEAN]
  /\ names \in [Procs -> SUBSET Files]
  /\ sweep \in [Procs -> [name : Files \union {NoFile}, owner : Owners]]
  /\ \A p \in Procs : pc[p] = "readClaim" => sweep[p].name \in Files
  /\ after \in [Procs -> {"idle", "list", "wait"}]

(***************************************************************************)
(* An earlier run may have left its lock file behind, complete or empty,   *)
(* and, when claimants may crash, the claim it was recovering a file with. *)
(***************************************************************************)
Init ==
  /\ lock \in Files \union {NoFile}
  /\ owner \in IF lock = NoFile THEN {Nobody} ELSE {Ghost, Nobody}
  /\ aged = FALSE
  /\ claim \in {[i \in Files |-> IF i = lock THEN o ELSE Nobody] :
                  o \in IF ClaimantsCrash THEN {Ghost, Nobody} ELSE {Nobody}}
  /\ pc = [p \in Procs |-> "idle"]
  /\ file = [p \in Procs |-> NoFile]
  /\ old = [p \in Procs |-> FALSE]
  /\ names = [p \in Procs |-> {}]
  /\ sweep = [p \in Procs |-> NoSweep]
  /\ after = [p \in Procs |-> "idle"]

Goto(p, label) == pc' = [pc EXCEPT ![p] = label]
Return(p) ==
  /\ Goto(p, after[p])
  /\ after' = [after EXCEPT ![p] = "idle"]
  /\ file' = [file EXCEPT ![p] = NoFile]
Owned(p) == lock # NoFile /\ owner = p

-----------------------------------------------------------------------------
(* acquire() *)

Start(p) ==
  /\ pc[p] = "idle"
  /\ Goto(p, "list")
  /\ UNCHANGED <<lock, owner, aged, claim, file, old, names, sweep, after>>

(* recoveryInProgress: readdir, then each claim in turn.  It runs before   *)
(* the lock file is created and again once its content is written; the     *)
(* identity in hand tells the two calls apart.                             *)
ListClaims(p) ==
  /\ pc[p] = "list"
  /\ names' = [names EXCEPT ![p] = {i \in Files : claim[i] # Nobody}]
  /\ Goto(p, "statClaim")
  /\ UNCHANGED <<lock, owner, aged, claim, file, old, sweep, after>>

NoRecovery(p) ==
  /\ pc[p] = "statClaim"
  /\ names[p] = {}
  /\ Goto(p, IF file[p] = NoFile THEN "open" ELSE "held")
  /\ UNCHANGED <<lock, owner, aged, claim, file, old, names, sweep, after>>

StatClaim(p) ==
  /\ pc[p] = "statClaim"
  /\ \E i \in names[p] :
       /\ names' = [names EXCEPT ![p] = @ \ {i}]
       /\ IF claim[i] = Nobody
          THEN UNCHANGED <<pc, sweep>>
          ELSE /\ sweep' =
                    [sweep EXCEPT ![p] = [name |-> i, owner |-> claim[i]]]
               /\ Goto(p, "readClaim")
  /\ UNCHANGED <<lock, owner, aged, claim, file, old, after>>

(* A recovery is in progress: wait, or give the new lock file back.        *)
Busy(p) ==
  /\ names' = [names EXCEPT ![p] = {}]
  /\ sweep' = [sweep EXCEPT ![p] = NoSweep]
  /\ Goto(p, IF file[p] = NoFile THEN "wait" ELSE "relOwned")
  /\ after' = [after EXCEPT ![p] = IF file[p] = NoFile THEN @ ELSE "wait"]

\* mutant of ReadClaim: whoever made the claim, it is honoured
ReadClaimHonoured(p) ==
  /\ pc[p] = "readClaim"
  /\ Busy(p)
  /\ UNCHANGED <<lock, owner, aged, claim, file, old>>

(* The claim that stat saw is read.  One that vanished in between counts   *)
(* as a recovery in progress unless it is staleMs old, which takes a       *)
(* suspended process or a claim left by a dead one; an old one is unlinked *)
(* by path without looking at what is there now.                           *)
ReadClaim(p) ==
  /\ pc[p] = "readClaim"
  /\ LET i == sweep[p].name IN
       \/ /\ claim[i] = Nobody \/ Alive(claim[i])
          /\ Busy(p)
       \/ /\ claim[i] = Nobody
          /\ Stalls \/ (ClaimantsCrash /\ ~Alive(sweep[p].owner))
          /\ Goto(p, "sweepUnlink")
          /\ UNCHANGED <<names, sweep, after>>
       \/ /\ claim[i] # Nobody
          /\ ~Alive(claim[i])
          /\ sweep' = [sweep EXCEPT ![p] = [name |-> i, owner |-> claim[i]]]
          /\ Goto(p, "sweepOwned")
          /\ UNCHANGED <<names, after>>
  /\ UNCHANGED <<lock, owner, aged, claim, file, old>>

(* releaseOwned(claimPath, claim.owner) of a dead claimant: read, unlink.  *)
SweepOwned(p) ==
  /\ pc[p] = "sweepOwned"
  /\ IF claim[sweep[p].name] = sweep[p].owner
     THEN /\ Goto(p, "sweepUnlink")
          /\ UNCHANGED sweep
     ELSE /\ Goto(p, "statClaim")
          /\ sweep' = [sweep EXCEPT ![p] = NoSweep]
  /\ UNCHANGED <<lock, owner, aged, claim, file, old, names, after>>

SweepUnlink(p) ==
  /\ pc[p] = "sweepUnlink"
  /\ claim' = [claim EXCEPT ![sweep[p].name] = Nobody]
  /\ sweep' = [sweep EXCEPT ![p] = NoSweep]
  /\ Goto(p, "statClaim")
  /\ UNCHANGED <<lock, owner, aged, file, old, names, after>>

(* Identities that a directory entry, an open handle or, unless inodes are *)
(* reused at once, a process's memory still refers to.                     *)
Handles == {file[p] : p \in {q \in Procs : pc[q] = "write"}}
Remembered ==
  {i \in Files : claim[i] # Nobody} \union {file[p] : p \in Procs}
    \union UNION {names[p] : p \in Procs} \union {sweep[p].name : p \in Procs}
NewFile(i) == i \notin Handles /\ (InodeReuse \/ i \notin Remembered)

(* open(lockPath, "wx"): create the file, or find that it exists.          *)
Create(p) ==
  /\ pc[p] = "open"
  /\ lock = NoFile
  /\ \E i \in Files :
       /\ NewFile(i)
       /\ lock' = i
       /\ file' = [file EXCEPT ![p] = i]
  /\ owner' = Nobody
  /\ aged' = FALSE
  /\ Goto(p, "write")
  /\ UNCHANGED <<claim, old, names, sweep, after>>

Exists(p) ==
  /\ pc[p] = "open"
  /\ lock # NoFile
  /\ Goto(p, "stat")
  /\ UNCHANGED <<lock, owner, aged, claim, file, old, names, sweep, after>>

(* writeFile and sync go to the handle, whatever lockPath names by now.    *)
Fill(p) ==
  /\ owner' = IF lock = file[p] THEN p ELSE owner
  /\ aged' = (aged /\ lock # file[p])

Write(p) ==
  /\ pc[p] = "write"
  /\ Fill(p)
  /\ Goto(p, "confirm")
  /\ UNCHANGED <<lock, claim, file, old, names, sweep, after>>

(* The catch block, releaseOwned then throw.  A file left incomplete is    *)
(* not recognised as owned and stays; a complete one is released.          *)
WriteFails(p) ==
  /\ pc[p] = "write"
  /\ Fill(p) \/ UNCHANGED <<owner, aged>>
  /\ Goto(p, "relOwned")
  /\ UNCHANGED <<lock, claim, file, old, names, sweep, after>>

(* isOwned(lockPath) first, recoveryInProgress second.                     *)
Confirm(p) ==
  /\ pc[p] = "confirm"
  /\ IF Owned(p)
     THEN /\ Goto(p, "list")
          /\ UNCHANGED after
     ELSE /\ Goto(p, "relOwned")
          /\ after' = [after EXCEPT ![p] = "wait"]
  /\ UNCHANGED <<lock, owner, aged, claim, file, old, names, sweep>>

(* The caller's operation ends, normally or by throwing.                   *)
Release(p) ==
  /\ pc[p] = "held"
  /\ Goto(p, "relOwned")
  /\ UNCHANGED <<lock, owner, aged, claim, file, old, names, sweep, after>>

\* mutant of ReleaseOwned: unlink without comparing the owner
ReleaseUnchecked(p) ==
  /\ pc[p] = "relOwned"
  /\ Goto(p, "relUnlink")
  /\ UNCHANGED <<lock, owner, aged, claim, file, old, names, sweep, after>>

(* releaseOwned(lockPath, owner): read, then unlink by path.               *)
ReleaseOwned(p) ==
  /\ pc[p] = "relOwned"
  /\ IF Owned(p)
     THEN /\ Goto(p, "relUnlink")
          /\ UNCHANGED <<after, file>>
     ELSE Return(p)
  /\ UNCHANGED <<lock, owner, aged, claim, old, names, sweep>>

Unlink ==
  /\ lock' = NoFile
  /\ owner' = Nobody
  /\ aged' = FALSE

ReleaseUnlink(p) ==
  /\ pc[p] = "relUnlink"
  /\ Unlink
  /\ Return(p)
  /\ UNCHANGED <<claim, old, names, sweep>>

(* waitToRetry: sleep and try again, or give up after timeoutMs.           *)
Retry(p) ==
  /\ pc[p] = "wait"
  /\ Goto(p, "list")
  /\ UNCHANGED <<lock, owner, aged, claim, file, old, names, sweep, after>>

TimeOut(p) ==
  /\ pc[p] = "wait"
  /\ Goto(p, "idle")
  /\ UNCHANGED <<lock, owner, aged, claim, file, old, names, sweep, after>>

-----------------------------------------------------------------------------
(* inspect() and recover() *)

Recoverable(p) ==
  lock # NoFile /\ IF owner = Nobody THEN old[p] ELSE ~Alive(owner)

(* stat(lockPath) of the first inspection.                                 *)
Stat(p) ==
  /\ pc[p] = "stat"
  /\ file' = [file EXCEPT ![p] = lock]
  /\ old' = [old EXCEPT ![p] = aged]
  /\ Goto(p, IF lock = NoFile THEN "wait" ELSE "read")
  /\ UNCHANGED <<lock, owner, aged, claim, names, sweep, after>>

(* readFile(lockPath) and kill(pid, 0): the file may be another by now.    *)
Read(p) ==
  /\ pc[p] = "read"
  /\ Goto(p, IF Recoverable(p) THEN "link" ELSE "wait")
  /\ file' = [file EXCEPT ![p] = IF Recoverable(p) THEN @ ELSE NoFile]
  /\ old' = [old EXCEPT ![p] = FALSE]
  /\ UNCHANGED <<lock, owner, aged, claim, names, sweep, after>>

(* link(temporaryPath, claimPath) publishes a complete claim, or fails.    *)
LinkClaim(p) ==
  /\ pc[p] = "link"
  /\ IF claim[file[p]] = Nobody
     THEN /\ Goto(p, "stat2")
          /\ claim' = [claim EXCEPT ![file[p]] = p]
          /\ UNCHANGED file
     ELSE /\ Goto(p, "wait")
          /\ file' = [file EXCEPT ![p] = NoFile]
          /\ UNCHANGED claim
  /\ UNCHANGED <<lock, owner, aged, old, names, sweep, after>>

(* A test of recover() fails: release the claim, then wait.                *)
GiveUp(p) ==
  /\ Goto(p, "unclaimOwned")
  /\ after' = [after EXCEPT ![p] = "wait"]
Check(p, test, label) ==
  \/ /\ test
     /\ Goto(p, label)
     /\ UNCHANGED after
  \/ /\ ~test
     /\ GiveUp(p)

(* The second inspection, under the claim.  The code compares identities   *)
(* once the inspection is complete; since a mismatch only makes it give    *)
(* up, whatever it read, the comparison is taken right after the stat.     *)
StatAgain(p) ==
  /\ pc[p] = "stat2"
  /\ Check(p, lock = file[p], "read2")
  /\ old' = [old EXCEPT ![p] = lock = file[p] /\ aged]
  /\ UNCHANGED <<lock, owner, aged, claim, file, names, sweep>>

ReadAgain(p) ==
  /\ pc[p] = "read2"
  /\ Check(p, Recoverable(p), "stat3")
  /\ old' = [old EXCEPT ![p] = FALSE]
  /\ UNCHANGED <<lock, owner, aged, claim, file, names, sweep>>

SameIdentity(p) ==
  /\ pc[p] = "stat3"
  /\ Check(p, lock = file[p], "claimOwned")
  /\ UNCHANGED <<lock, owner, aged, claim, file, old, names, sweep>>

ClaimOwned(p) ==
  /\ pc[p] = "claimOwned"
  /\ Check(p, claim[file[p]] = p, "steal")
  /\ UNCHANGED <<lock, owner, aged, claim, file, old, names, sweep>>

(* unlink(lockPath), by path; when the file is gone the call throws and    *)
(* acquire() fails once the claim is released.                             *)
Steal(p) ==
  /\ pc[p] = "steal"
  /\ Unlink
  /\ after' = [after EXCEPT ![p] = IF lock = NoFile THEN "idle" ELSE "list"]
  /\ Goto(p, "unclaimOwned")
  /\ UNCHANGED <<claim, file, old, names, sweep>>

(* finally: releaseOwned(claimPath, claimOwner).                           *)
UnclaimOwned(p) ==
  /\ pc[p] = "unclaimOwned"
  /\ IF claim[file[p]] = p
     THEN /\ Goto(p, "unclaim")
          /\ UNCHANGED <<after, file>>
     ELSE Return(p)
  /\ UNCHANGED <<lock, owner, aged, claim, old, names, sweep>>

Unclaim(p) ==
  /\ pc[p] = "unclaim"
  /\ claim' = [claim EXCEPT ![file[p]] = Nobody]
  /\ Return(p)
  /\ UNCHANGED <<lock, owner, aged, old, names, sweep>>

-----------------------------------------------------------------------------
(* The environment *)

Crash(p) ==
  /\ Alive(p)
  /\ ClaimantsCrash \/ pc[p] \notin Claiming
  /\ Goto(p, "dead")
  /\ file' = [file EXCEPT ![p] = NoFile]
  /\ old' = [old EXCEPT ![p] = FALSE]
  /\ names' = [names EXCEPT ![p] = {}]
  /\ sweep' = [sweep EXCEPT ![p] = NoSweep]
  /\ after' = [after EXCEPT ![p] = "idle"]
  /\ UNCHANGED <<lock, owner, aged, claim>>

(* staleMs pass since the last write of the lock file.                     *)
Age ==
  /\ lock # NoFile
  /\ ~aged
  /\ Stalls \/ \A p \in Procs : ~Creating(p)
  /\ aged' = TRUE
  /\ UNCHANGED <<lock, owner, claim, pc, file, old, names, sweep, after>>

Scan(p) == ListClaims(p) \/ NoRecovery(p) \/ StatClaim(p) \/ ReadClaim(p)
             \/ SweepOwned(p) \/ SweepUnlink(p)
Acquire(p) == Create(p) \/ Exists(p) \/ Write(p) \/ Confirm(p) \/ Retry(p)
Recover(p) == Stat(p) \/ Read(p) \/ LinkClaim(p) \/ StatAgain(p)
                \/ ReadAgain(p) \/ SameIdentity(p) \/ ClaimOwned(p)
                \/ Steal(p) \/ UnclaimOwned(p) \/ Unclaim(p)
Leave(p) == Release(p) \/ ReleaseOwned(p) \/ ReleaseUnlink(p)

Run(p) == Scan(p) \/ Acquire(p) \/ Recover(p) \/ Leave(p)

Next ==
  \/ \E p \in Procs : Run(p) \/ Start(p) \/ WriteFails(p) \/ TimeOut(p)
                        \/ Crash(p)
  \/ Age

Spec == Init /\ [][Next]_vars

(***************************************************************************)
(* A live process runs on, the operation under the lock ends, time passes, *)
(* and a caller that was served or gave up asks again.  Nothing forces a   *)
(* process to give up, to fail, or to crash.                               *)
(***************************************************************************)
Fairness ==
  /\ WF_vars(Age)
  /\ \A p \in Procs : WF_vars(Run(p)) /\ WF_vars(Start(p))
FairSpec == Spec /\ Fairness

-----------------------------------------------------------------------------
(* Properties *)

(* Two processes never run an operation under the same key at once: the    *)
(* configuration, history and credential writes of lock.ts's callers are   *)
(* serialised across processes.                                            *)
MutualExclusion ==
  \A p, q \in Procs : pc[p] = "held" /\ pc[q] = "held" => p = q

(* While an operation runs, the lock file on disk is the one its process   *)
(* wrote, so that every other process sees it and release() removes it.    *)
HolderOwnsLock == \A p \in Procs : pc[p] = "held" => Owned(p)

(* recover() unlinks by path what it verified by identity: when it gets    *)
(* there the path still names the file it inspected, and the file is still *)
(* recoverable.  The unlink neither fails with ENOENT nor hits a file that *)
(* a live process created meanwhile.                                       *)
StealsWhatItInspected ==
  \A p \in Procs : pc[p] = "steal" =>
    lock = file[p] /\ ~Alive(owner) /\ \A q \in Procs : ~Creating(q)

(***************************************************************************)
(* The inductive invariant behind these three, for processes that neither  *)
(* stall nor die in Claiming on a file system that does not reuse inodes.  *)
(***************************************************************************)
Deserted == ~Alive(owner) /\ \A q \in Procs : ~Creating(q)

(* A creator is alone, and its file is at lockPath, empty and fresh.       *)
CreatorAlone ==
  /\ \A p \in Procs : pc[p] = "write" =>
       lock = file[p] /\ lock # NoFile /\ owner = Nobody /\ ~aged
  /\ \A p, q \in Procs : pc[p] = "write" /\ pc[q] = "write" => p = q

(* From isOwned() to the end of release() the file is the process's own.   *)
OwnerStays ==
  \A p \in Procs :
    \/ pc[p] \in {"held", "relUnlink"}
    \/ pc[p] \in Scanning /\ file[p] # NoFile
    => Owned(p)

(* The claim files are those of the processes in Claiming, one each.       *)
ClaimsMatch ==
  /\ \A i \in Files : claim[i] # Nobody =>
       claim[i] \in Procs /\ pc[claim[i]] \in Claiming /\ file[claim[i]] = i
  /\ \A p \in Procs : pc[p] \in Claiming =>
       file[p] \in Files /\ claim[file[p]] = p

(* What recover() has established about the file it holds the claim of.    *)
ClaimProtects ==
  \A p \in Procs :
    /\ pc[p] = "read2" /\ old[p] /\ lock = file[p] =>
         \A q \in Procs : ~Creating(q)
    /\ pc[p] = "stat3" /\ lock = file[p] => Deserted
    /\ pc[p] \in {"claimOwned", "steal"} => lock = file[p] /\ Deserted

(* The identity in hand is dropped between two attempts, and no claim is   *)
(* swept, since every claimant is alive.                                   *)
HandsMatch ==
  \A p \in Procs :
    /\ pc[p] \in {"idle", "wait", "open", "stat"} => file[p] = NoFile
    /\ pc[p] \in {"read", "link"} => file[p] \in Files
    /\ pc[p] \notin {"sweepOwned", "sweepUnlink"}

IInv == /\ TypeOK
        /\ CreatorAlone
        /\ OwnerStays
        /\ ClaimsMatch
        /\ ClaimProtects
        /\ HandsMatch

Stranded ==
  lock # NoFile /\ ~Alive(owner) /\ \A p \in Procs : ~Creating(p)
AllDead == \A p \in Procs : ~Alive(p)

(* The file of a dead process does not block a key for ever: as long as a  *)
(* live process keeps asking for the lock, the stranded file is removed,   *)
(* also when processes die in the middle of recovering it.                 *)
StrandedRecovered == Stranded ~> (~Stranded \/ AllDead)

(* The protocol of files and claims does what withLock() promises: seen    *)
(* from its callers it is a mutex.                                         *)
Holders == {p \in Procs : pc[p] = "held"}
Lock == INSTANCE Mutex WITH holders <- Holders
ImplementsMutex == Lock!Spec
=============================================================================
