------------------------- MODULE InterfaceProofs -------------------------
(***************************************************************************)
(* What is proved, for any constants, of what a user of HQ meets, a section *)
(* for each part: the lock on a profile (ProfileLock), the dashboard's     *)
(* process (DashboardProcess), the look for desktop updates                *)
(* (DesktopUpdates), the buttons of the pages (PageActions), the           *)
(* installation of a plugin (PluginInstall), the dashboard's server        *)
(* (WebServer) and the commands of the hosting tree (HostingCommands);     *)
(* then of all of them together (MCInterface).                             *)
(***************************************************************************)
EXTENDS MCInterface, FiniteSetTheorems, SequenceTheorems, WellFoundedInduction, TLAPS

-----------------------------------------------------------------------------
(* The lock on a profile.                                                 *)

(* The value of sweep while no claim is being looked at has the type of    *)
(* the others.                                                             *)
LEMMA NoSweepType == NoSweep \in [name : Files \union {NoFile}, owner : Owners]
BY DEF NoSweep, Owners

(* Whatever an earlier run left behind, the initial values have their      *)
(* types.                                                                  *)
LEMMA TypeInit == Init => TypeOK
<1> USE LockAssumption DEF TypeOK, Owners, Labels, Scanning, Claiming
<1> SUFFICES ASSUME Init PROVE TypeOK
  OBVIOUS
<1>1. owner \in Owners /\ claim \in [Files -> Owners]
  BY DEF Init
<1>2. QED
  BY NoSweepType, <1>1 DEF Init

(* Each system call of lock.ts, a crash and the passing of time keep every *)
(* variable in its range: one step per action.                             *)
LEMMA TypeStep == TypeOK /\ [Next]_vars => TypeOK'
<1> USE LockAssumption DEF TypeOK, Owners, Labels, Scanning, Claiming
<1> SUFFICES ASSUME TypeOK, [Next]_vars PROVE TypeOK'
  OBVIOUS
<1> USE DEF Goto
<1>1. ASSUME NEW p \in Procs, Start(p) PROVE TypeOK'
  BY <1>1 DEF Start
<1>2. ASSUME NEW p \in Procs, ListClaims(p) PROVE TypeOK'
  BY <1>2 DEF ListClaims
<1>3. ASSUME NEW p \in Procs, NoRecovery(p) PROVE TypeOK'
  BY <1>3 DEF NoRecovery
<1>4. ASSUME NEW p \in Procs, StatClaim(p) PROVE TypeOK'
  BY <1>4 DEF StatClaim
<1>5. ASSUME NEW p \in Procs, ReadClaim(p) PROVE TypeOK'
  <2>1. CASE Busy(p)
    BY NoSweepType, <1>5, <2>1 DEF ReadClaim, Busy
  <2>2. CASE ~Busy(p)
    BY <1>5, <2>2 DEF ReadClaim
  <2>3. QED
    BY <2>1, <2>2
<1>6. ASSUME NEW p \in Procs, SweepOwned(p) PROVE TypeOK'
  BY NoSweepType, <1>6 DEF SweepOwned
<1>7. ASSUME NEW p \in Procs, SweepUnlink(p) PROVE TypeOK'
  BY NoSweepType, <1>7 DEF SweepUnlink
<1>8. ASSUME NEW p \in Procs, Create(p) PROVE TypeOK'
  BY <1>8 DEF Create
<1>9. ASSUME NEW p \in Procs, Exists(p) PROVE TypeOK'
  BY <1>9 DEF Exists
<1>10. ASSUME NEW p \in Procs, Write(p) PROVE TypeOK'
  BY <1>10 DEF Write, Fill
<1>11. ASSUME NEW p \in Procs, WriteFails(p) PROVE TypeOK'
  BY <1>11 DEF WriteFails, Fill
<1>12. ASSUME NEW p \in Procs, Confirm(p) PROVE TypeOK'
  BY <1>12 DEF Confirm
<1>13. ASSUME NEW p \in Procs, Release(p) PROVE TypeOK'
  BY <1>13 DEF Release
<1>14. ASSUME NEW p \in Procs, ReleaseOwned(p) PROVE TypeOK'
  BY <1>14 DEF ReleaseOwned, Return
<1>15. ASSUME NEW p \in Procs, ReleaseUnlink(p) PROVE TypeOK'
  BY <1>15 DEF ReleaseUnlink, Return, Unlink
<1>16. ASSUME NEW p \in Procs, Retry(p) PROVE TypeOK'
  BY <1>16 DEF Retry
<1>17. ASSUME NEW p \in Procs, TimeOut(p) PROVE TypeOK'
  BY <1>17 DEF TimeOut
<1>18. ASSUME NEW p \in Procs, Stat(p) PROVE TypeOK'
  BY <1>18 DEF Stat
<1>19. ASSUME NEW p \in Procs, Read(p) PROVE TypeOK'
  BY <1>19 DEF Read
<1>20. ASSUME NEW p \in Procs, LinkClaim(p) PROVE TypeOK'
  BY <1>20, SMTT(30) DEF LinkClaim
<1>21. ASSUME NEW p \in Procs, StatAgain(p) PROVE TypeOK'
  BY <1>21 DEF StatAgain, Check, GiveUp
<1>22. ASSUME NEW p \in Procs, ReadAgain(p) PROVE TypeOK'
  BY <1>22 DEF ReadAgain, Check, GiveUp
<1>23. ASSUME NEW p \in Procs, SameIdentity(p) PROVE TypeOK'
  BY <1>23 DEF SameIdentity, Check, GiveUp
<1>24. ASSUME NEW p \in Procs, ClaimOwned(p) PROVE TypeOK'
  BY <1>24 DEF ClaimOwned, Check, GiveUp
<1>25. ASSUME NEW p \in Procs, Steal(p) PROVE TypeOK'
  BY <1>25 DEF Steal, Unlink
<1>26. ASSUME NEW p \in Procs, UnclaimOwned(p) PROVE TypeOK'
  BY <1>26 DEF UnclaimOwned, Return
<1>27. ASSUME NEW p \in Procs, Unclaim(p) PROVE TypeOK'
  BY <1>27 DEF Unclaim, Return
<1>28. ASSUME NEW p \in Procs, Crash(p) PROVE TypeOK'
  BY NoSweepType, <1>28 DEF Crash, Alive
<1>29. CASE Age
  BY <1>29 DEF Age
<1>30. CASE UNCHANGED vars
  BY <1>30 DEF vars
<1>31. QED
  BY <1>1, <1>2, <1>3, <1>4, <1>5, <1>6, <1>7, <1>8, <1>9, <1>10, <1>11,
     <1>12, <1>13, <1>14, <1>15, <1>16, <1>17, <1>18, <1>19, <1>20, <1>21,
     <1>22, <1>23, <1>24, <1>25, <1>26, <1>27, <1>28, <1>29, <1>30
  DEF Next, Run, Scan, Acquire, Recover, Leave

(* Type correctness of the lock model, stalls, crashes and inode reuse     *)
(* included: the steps of lock.ts keep every variable in its range.        *)
THEOREM TypeCorrect == Spec => []TypeOK
BY TypeInit, TypeStep, PTL DEF Spec

-----------------------------------------------------------------------------
(* The rest needs Prompt.  The safety properties follow from IInv: a held  *)
(* lock is owned, a file has one owner, and a recoverer that got as far as *)
(* unlink() still has the deserted file in front of it.                    *)
LEMMA InvariantsFollow ==
  IInv => MutualExclusion /\ HolderOwnsLock /\ StealsWhatItInspected
<1> SUFFICES ASSUME IInv
             PROVE MutualExclusion /\ HolderOwnsLock /\ StealsWhatItInspected
  OBVIOUS
<1>1. HolderOwnsLock
  BY DEF IInv, OwnerStays, HolderOwnsLock
<1>2. MutualExclusion
  BY <1>1 DEF HolderOwnsLock, MutualExclusion, Owned
<1>3. StealsWhatItInspected
  BY DEF IInv, ClaimProtects, Deserted, StealsWhatItInspected
<1>4. QED
  BY <1>1, <1>2, <1>3

(* With prompt processes no claim is left behind, nobody has a file in     *)
(* hand, and the invariant holds at the start.                             *)
LEMMA IInvInit == Prompt /\ Init => IInv
<1> SUFFICES ASSUME Prompt, Init PROVE IInv
  OBVIOUS
<1>1. TypeOK
  BY TypeInit
<1>2. \A p \in Procs : pc[p] = "idle" /\ file[p] = NoFile
  BY DEF Init
<1>3. \A i \in Files : claim[i] = Nobody
  BY DEF Init, Prompt
<1>4. QED
  BY <1>1, <1>2, <1>3
     DEF IInv, CreatorAlone, OwnerStays, ClaimsMatch, ClaimProtects,
         HandsMatch, Scanning, Claiming

(* Two processes are never both past the last test of recover(): each      *)
(* would hold the only claim on the one file at lockPath.                  *)
LEMMA OneStealer ==
  ASSUME IInv, NEW p \in Procs, NEW q \in Procs,
         pc[p] \in {"claimOwned", "steal"}, pc[q] \in {"claimOwned", "steal"}
  PROVE  p = q
<1>1. file[p] = lock /\ file[q] = lock
  BY DEF IInv, ClaimProtects
<1>2. claim[file[p]] = p /\ claim[file[q]] = q
  BY DEF IInv, ClaimsMatch, Claiming
<1>3. QED
  BY <1>1, <1>2

IRest ==
  CreatorAlone /\ OwnerStays /\ ClaimsMatch /\ ClaimProtects /\ HandsMatch

(* No step of a prompt process leaves the invariant: one step per action,  *)
(* with the fact about the other processes that it rests on.               *)
LEMMA IInvStep == Prompt /\ IInv /\ [Next]_vars => IInv'
<1> SUFFICES ASSUME Prompt, IInv, [Next]_vars PROVE IInv'
  OBVIOUS
<1>0. TypeOK /\ TypeOK'
  BY TypeStep DEF IInv
<1> USE <1>0, LockAssumption
    DEF Prompt, IInv, IRest, CreatorAlone, OwnerStays, ClaimsMatch,
        ClaimProtects, HandsMatch, TypeOK, Owners, Scanning, Claiming, Goto
<1>1. ASSUME NEW p \in Procs, Start(p) PROVE IRest'
  BY <1>1 DEF Start, Owned, Deserted, Creating, Alive
<1>2. ASSUME NEW p \in Procs, ListClaims(p) PROVE IRest'
  BY <1>2 DEF ListClaims, Owned, Deserted, Creating, Alive
<1>3. ASSUME NEW p \in Procs, NoRecovery(p) PROVE IRest'
  BY <1>3 DEF NoRecovery, Owned, Deserted, Creating, Alive
<1>4. ASSUME NEW p \in Procs, StatClaim(p) PROVE IRest'
  BY <1>4 DEF StatClaim, Owned, Deserted, Creating, Alive
<1>5. ASSUME NEW p \in Procs, ReadClaim(p) PROVE IRest'
  <2>1. Busy(p)
    BY <1>5 DEF ReadClaim, Alive
  <2>2. QED
    BY <1>5, <2>1 DEF ReadClaim, Busy, Owned, Deserted, Creating, Alive
<1>6. ASSUME NEW p \in Procs, SweepOwned(p) PROVE IRest'
  BY <1>6 DEF SweepOwned, Owned, Deserted, Creating, Alive
<1>7. ASSUME NEW p \in Procs, SweepUnlink(p) PROVE IRest'
  BY <1>7 DEF SweepUnlink, Owned, Deserted, Creating, Alive
<1>8. ASSUME NEW p \in Procs, Create(p) PROVE IRest'
  \* Create: lockPath was free, so nobody owned, wrote or was about to steal
  \* it, and the new file is none that a process in Claiming has in hand.
  BY <1>8 DEF Create, NewFile, Remembered, Creating, Deserted, Owned, Alive
<1>9. ASSUME NEW p \in Procs, Exists(p) PROVE IRest'
  BY <1>9 DEF Exists, Owned, Deserted, Creating, Alive
<1>10. ASSUME NEW p \in Procs, Write(p) PROVE IRest'
  \* Write: the only creator writes to its own file, which nobody owned or
  \* deserted.
  BY <1>10 DEF Write, Fill, Creating, Deserted, Owned, Alive
<1>11. ASSUME NEW p \in Procs, WriteFails(p) PROVE IRest'
  BY <1>11 DEF WriteFails, Fill, Creating, Deserted, Owned, Alive
<1>12. ASSUME NEW p \in Procs, Confirm(p) PROVE IRest'
  BY <1>12 DEF Confirm, Owned, Deserted, Creating, Alive
<1>13. ASSUME NEW p \in Procs, Release(p) PROVE IRest'
  BY <1>13 DEF Release, Owned, Deserted, Creating, Alive
<1>14. ASSUME NEW p \in Procs, ReleaseOwned(p) PROVE IRest'
  BY <1>14 DEF ReleaseOwned, Return, Owned, Deserted, Creating, Alive
<1>15. ASSUME NEW p \in Procs, ReleaseUnlink(p) PROVE IRest'
  \* ReleaseUnlink: the owner is alive, so the file it unlinks is not a
  \* deserted one.
  BY <1>15 DEF ReleaseUnlink, Return, Unlink, Owned, Deserted, Alive, Creating
<1>16. ASSUME NEW p \in Procs, Retry(p) PROVE IRest'
  BY <1>16 DEF Retry, Owned, Deserted, Creating, Alive
<1>17. ASSUME NEW p \in Procs, TimeOut(p) PROVE IRest'
  BY <1>17 DEF TimeOut, Owned, Deserted, Creating, Alive
<1>18. ASSUME NEW p \in Procs, Stat(p) PROVE IRest'
  BY <1>18 DEF Stat, Owned, Deserted, Creating, Alive
<1>19. ASSUME NEW p \in Procs, Read(p) PROVE IRest'
  BY <1>19 DEF Read, Owned, Deserted, Creating, Alive
<1>20. ASSUME NEW p \in Procs, LinkClaim(p) PROVE IRest'
  BY <1>20 DEF LinkClaim, Owned, Deserted, Creating, Alive
<1>21. ASSUME NEW p \in Procs, StatAgain(p) PROVE IRest'
  BY <1>21, SMTT(30) DEF StatAgain, Check, GiveUp, Creating, Owned, Deserted, Alive
<1>22. ASSUME NEW p \in Procs, ReadAgain(p) PROVE IRest'
  BY <1>22
  DEF ReadAgain, Check, GiveUp, Recoverable, Deserted, Creating, Alive, Owned
<1>23. ASSUME NEW p \in Procs, SameIdentity(p) PROVE IRest'
  BY <1>23 DEF SameIdentity, Check, GiveUp, Owned, Deserted, Creating, Alive
<1>24. ASSUME NEW p \in Procs, ClaimOwned(p) PROVE IRest'
  BY <1>24 DEF ClaimOwned, Check, GiveUp, Owned, Deserted, Creating, Alive
<1>25. ASSUME NEW p \in Procs, Steal(p) PROVE IRest'
  <2>1. Deserted /\ lock = file[p]
    BY <1>25 DEF Steal
  <2>2. \A q \in Procs : (pc[q] # "write" /\ ~Owned(q)) \/ ~Alive(q)
    BY <2>1 DEF Deserted, Creating, Owned
  <2>3. \A q \in Procs : pc[q] \in {"claimOwned", "steal"} => q = p
    BY <1>25, OneStealer DEF Steal
  <2>4. QED
    BY <1>25, <2>2, <2>3 DEF Steal, Unlink, Alive, Deserted, Creating, Owned
<1>26. ASSUME NEW p \in Procs, UnclaimOwned(p) PROVE IRest'
  BY <1>26 DEF UnclaimOwned, Return, Owned, Deserted, Creating, Alive
<1>27. ASSUME NEW p \in Procs, Unclaim(p) PROVE IRest'
  BY <1>27 DEF Unclaim, Return, Owned, Deserted, Creating, Alive
<1>28. ASSUME NEW p \in Procs, Crash(p) PROVE IRest'
  \* Crash: the dead process had no claim; its file can only become deserted.
  BY <1>28 DEF Crash, Alive, Deserted, Creating, Owned
<1>29. ASSUME Age PROVE IRest'
  BY <1>29 DEF Age, Creating, Deserted, Owned, Alive
<1>30. ASSUME UNCHANGED vars PROVE IRest'
  BY <1>30 DEF vars, Creating, Deserted, Owned, Alive
<1>31. QED
  BY <1>1, <1>2, <1>3, <1>4, <1>5, <1>6, <1>7, <1>8, <1>9, <1>10, <1>11,
     <1>12, <1>13, <1>14, <1>15, <1>16, <1>17, <1>18, <1>19, <1>20, <1>21,
     <1>22, <1>23, <1>24, <1>25, <1>26, <1>27, <1>28, <1>29, <1>30
  DEF Next, Run, Scan, Acquire, Recover, Leave

(* The invariant holds in every reachable state of prompt processes.       *)
LEMMA Inductive ==
  ASSUME Prompt
  PROVE  Spec => []IInv
<1>1. Init => IInv
  BY IInvInit
<1>2. IInv /\ [Next]_vars => IInv'
  BY IInvStep
<1>3. QED
  BY <1>1, <1>2, PTL DEF Spec

(* At most one process runs an operation under a key.                      *)
THEOREM MutualExclusionHolds ==
  ASSUME Prompt
  PROVE  Spec => []MutualExclusion
BY Inductive, InvariantsFollow, PTL

(* The process that runs it owns the lock file on disk.                    *)
THEOREM HolderOwnsLockHolds ==
  ASSUME Prompt
  PROVE  Spec => []HolderOwnsLock
BY Inductive, InvariantsFollow, PTL

(* recover() unlinks the deserted file it inspected and no other.          *)
THEOREM StealsWhatItInspectedHolds ==
  ASSUME Prompt
  PROVE  Spec => []StealsWhatItInspected
BY Inductive, InvariantsFollow, PTL

(* A step moves at most one process.                                       *)
LEMMA OneMoves ==
  ASSUME TypeOK, [Next]_vars
  PROVE  \/ pc' = pc
         \/ \E p \in Procs : \E label : pc' = [pc EXCEPT ![p] = label]
<1>1. ASSUME NEW p \in Procs, Scan(p)
      PROVE  pc' = pc \/ \E label : pc' = [pc EXCEPT ![p] = label]
  BY <1>1 DEF Scan, ListClaims, NoRecovery, StatClaim, ReadClaim, Busy,
              SweepOwned, SweepUnlink, Goto
<1>2. ASSUME NEW p \in Procs, Acquire(p) \/ Leave(p) \/ WriteFails(p)
      PROVE  \E label : pc' = [pc EXCEPT ![p] = label]
  BY <1>2 DEF Acquire, Create, Exists, Write, Confirm, Retry, Leave, Release,
              ReleaseOwned, ReleaseUnlink, WriteFails, Return, Goto
<1>3. ASSUME NEW p \in Procs, Recover(p)
      PROVE  \E label : pc' = [pc EXCEPT ![p] = label]
  BY <1>3 DEF Recover, Stat, Read, LinkClaim, StatAgain, ReadAgain, SameIdentity,
              ClaimOwned, Steal, UnclaimOwned, Unclaim, Check, GiveUp, Return, Goto
<1>4. ASSUME NEW p \in Procs, Start(p) \/ TimeOut(p) \/ Crash(p)
      PROVE  \E label : pc' = [pc EXCEPT ![p] = label]
  BY <1>4 DEF Start, TimeOut, Crash, Goto
<1>5. CASE Age \/ UNCHANGED vars
  BY <1>5 DEF Age, vars
<1> QED
  BY <1>1, <1>2, <1>3, <1>4, <1>5 DEF Next, Run

(* Seen from the callers of withLock() the protocol is a mutex.            *)
THEOREM ImplementsMutexHolds ==
  ASSUME Prompt
  PROVE  Spec => ImplementsMutex
<1>1. Init => Lock!Init
  BY DEF Init, Holders, Lock!Init
<1>2. IInv /\ MutualExclusion' /\ [Next]_vars => [Lock!Next]_Holders
  <2> SUFFICES ASSUME IInv, MutualExclusion', [Next]_vars, Holders' # Holders
               PROVE  Lock!Next
    OBVIOUS
  <2>1. PICK p \in Procs : \E label : pc' = [pc EXCEPT ![p] = label]
    <3>1. pc' # pc
      BY DEF Holders
    <3> QED
      BY <3>1, OneMoves DEF IInv
  <2>2. pc \in [Procs -> Labels]
    BY DEF IInv, TypeOK
  <2>3. \A q \in Procs \ {p} : q \in Holders' <=> q \in Holders
    BY <2>1, <2>2 DEF Holders
  <2>4. CASE p \in Holders
    BY <2>3, <2>4 DEF Holders, Lock!Next, Lock!Leave
  <2>5. CASE p \notin Holders
    BY <2>3, <2>5 DEF Holders, MutualExclusion, Lock!Next, Lock!Enter
  <2> QED
    BY <2>4, <2>5
<1> QED
  BY <1>1, <1>2, Inductive, InvariantsFollow, PTL DEF Spec, ImplementsMutex, Lock!Spec

-----------------------------------------------------------------------------
(* The process of the dashboard.                                          *)

(* A set of ports that is not empty has a least one.                      *)
LEMMA FirstPort ==
  ASSUME NEW T, T \subseteq Nat, T # {}
  PROVE  LeastOf(T) \in T
<1>1. \E x \in T : \A y \in T : <<y, x>> \notin OpToRel(<, Nat)
  BY NatLessThanWellFounded, WFMin, Zenon
<1>2. \E x \in T : \A y \in T : ~(y < x)
  BY <1>1 DEF OpToRel
<1>3. \E x \in T : \A y \in T : x <= y
  BY <1>2
<1>. QED BY <1>3 DEF LeastOf

(* Before an invocation looks for a port no one holds one and no run exists.*)
LEMMA DashStarts == DInit => DashInv
<1>. SUFFICES ASSUME DInit PROVE DashInv
  OBVIOUS
<1>1. portHolder \in [Ports -> {"free", "other"}] /\ wasDash = {}
      /\ job = [d \in Dashes |-> "none"]
  BY DEF DInit
<1>2. ASSUME NEW p \in Ports PROVE portHolder[p] \notin Dashes
  BY <1>1, DashboardAssumption
<1>3. ASSUME NEW d \in Dashes
      PROVE  \E a \in Asked : dash[d] = FirstDash(a)
  BY DEF DInit
<1>4. ASSUME NEW a \in Asked
      PROVE  /\ FirstDash(a) \in DashRecords /\ FirstDash(a).at = "start" /\ FirstDash(a).next = 0
             /\ FirstDash(a).found = {} /\ FirstDash(a).url = NoPort
  <2>1. 0 \in 0 .. PortAttempts
    BY DashboardAssumption
  <2>. QED BY <2>1 DEF FirstDash, DashRecords, DashAt
<1>5. dash = [d \in Dashes |-> dash[d]]
  BY DEF DInit
<1>6. dash \in [Dashes -> DashRecords]
  BY <1>3, <1>4, <1>5
<1>7. portHolder \in [Ports -> PortHolders] /\ job \in [Dashes -> Jobs] /\ wasDash \in SUBSET Ports
  BY <1>1 DEF PortHolders, Jobs
<1>8. ASSUME NEW d \in Dashes
      PROVE  KnownPorts(dash[d]) /\ OneAddress(dash[d]) /\ EndsItsRun(dash[d], job[d])
  BY <1>3, <1>4 DEF KnownPorts, OneAddress, EndsItsRun
<1>. QED BY <1>2, <1>6, <1>7, <1>8 DEF DashInv, HeldByListener

(* One invocation changes its own record and no other.                    *)
LEMMA OneDash ==
  ASSUME DashInv, NEW d \in Dashes
  PROVE  /\ dash \in [Dashes -> DashRecords] /\ dash[d] \in DashRecords /\ job[d] \in Jobs
         /\ portHolder \in [Ports -> PortHolders] /\ wasDash \in SUBSET Ports
         /\ Ports \subseteq Nat /\ NoPort \notin Ports /\ 0 \in Ports
         /\ KnownPorts(dash[d]) /\ OneAddress(dash[d]) /\ EndsItsRun(dash[d], job[d])
<1>1. Ports \subseteq Nat /\ 0 \in Ports
  BY DashboardAssumption DEF Ports
<1>. QED BY <1>1, DashboardAssumption DEF DashInv

(* What a step of one invocation must keep: a listener holds its port.      *)
LEMMA DashMoves ==
  ASSUME DashInv, NEW d \in Dashes, NEW r \in DashRecords, dash' = [dash EXCEPT ![d] = r],
         UNCHANGED << portHolder, wasDash >>, job' \in [Dashes -> Jobs],
         \A e \in Dashes \ {d} : job'[e] = job[e],
         KnownPorts(r), OneAddress(r), EndsItsRun(r, job'[d]),
         dash[d].at \in Listens /\ dash[d].won =>
           r.at \in Listens /\ r.won /\ r.url = dash[d].url
  PROVE  DashInv'
<1>1. dash \in [Dashes -> DashRecords] /\ dash' \in [Dashes -> DashRecords]
  BY DEF DashInv
<1>2. ASSUME NEW e \in Dashes PROVE dash'[e] = IF e = d THEN r ELSE dash[e]
  BY <1>1
<1>3. ASSUME NEW e \in Dashes
      PROVE  (KnownPorts(dash[e]) /\ OneAddress(dash[e]) /\ EndsItsRun(dash[e], job[e]))'
  <2>1. KnownPorts(dash'[e]) /\ OneAddress(dash'[e]) /\ EndsItsRun(dash'[e], job'[e])
    BY <1>2 DEF DashInv
  <2>. QED BY <2>1 DEF KnownPorts, OneAddress, EndsItsRun
<1>4. ASSUME NEW p \in Ports PROVE HeldByListener(p)'
  BY <1>2 DEF DashInv, HeldByListener
<1>. QED BY <1>1, <1>3, <1>4 DEF DashInv

(* An invocation that looks for a dashboard or for a free port, one step per*)
(* action: what it finds answered as a dashboard.                         *)
LEMMA BeforeBind ==
  ASSUME DashInv, NEW d \in Dashes,
         PortPreflight(d) \/ (\E p \in Ports : Probe(d, p)) \/ Probed(d) \/ InUse(d)
           \/ CannotListen(d) \/ ProbeAgain(d)
  PROVE  DashInv'
<1>0. /\ dash \in [Dashes -> DashRecords] /\ dash[d] \in DashRecords /\ job[d] \in Jobs
      /\ portHolder \in [Ports -> PortHolders] /\ wasDash \in SUBSET Ports
      /\ Ports \subseteq Nat /\ NoPort \notin Ports /\ 0 \in Ports
      /\ KnownPorts(dash[d]) /\ OneAddress(dash[d]) /\ EndsItsRun(dash[d], job[d])
  BY OneDash
<1>1. /\ UNCHANGED << portHolder, job, wasDash >> /\ job' \in [Dashes -> Jobs]
      /\ dash[d].at \notin Listens
  BY DEF PortPreflight, Probe, Probed, InUse, CannotListen, ProbeAgain, Listens, DashInv
<1>2. ASSUME NEW r \in DashRecords, dash' = [dash EXCEPT ![d] = r],
             KnownPorts(r), OneAddress(r), r.at \notin {"closing", "returned", "exited"}
      PROVE  DashInv'
  BY <1>1, <1>2, DashMoves DEF EndsItsRun
<1>3. ASSUME NEW p \in Ports, IsDashboard(p) PROVE p \in wasDash
  BY <1>3 DEF IsDashboard, DashInv, HeldByListener
<1>4. Candidates(d) \subseteq Ports
  BY <1>0 DEF Candidates
<1>5. CASE PortPreflight(d)
  <2>. DEFINE r == [dash[d] EXCEPT !.at = IF dash[d].ask.open THEN "probing" ELSE "listening",
                          !.probes = IF dash[d].ask.open THEN Candidates(d) ELSE {}]
  <2>1. dash' = [dash EXCEPT ![d] = r] /\ r \in DashRecords
    BY <1>0, <1>4, <1>5 DEF PortPreflight, DashRecords, DashAt
  <2>2. /\ r.at \in {"probing", "listening"} /\ r.found = dash[d].found /\ r.url = dash[d].url
        /\ r.ask = dash[d].ask /\ r.next = dash[d].next /\ dash[d].at = "start"
    BY <1>0, <1>5 DEF PortPreflight, DashRecords
  <2>3. KnownPorts(r) /\ OneAddress(r)
    BY <1>0, <2>2 DEF KnownPorts, OneAddress
  <2>. QED BY <1>2, <2>1, <2>2, <2>3
<1>6. ASSUME NEW p \in Ports, Probe(d, p) PROVE DashInv'
  <2>1. PICK late \in BOOLEAN :
       dash' = [dash EXCEPT ![d].probes = @ \ {p},
                            ![d].found = IF IsDashboard(p) /\ ~late
                                           THEN @ \cup {p} ELSE @]
    BY <1>6 DEF Probe
  <2>. DEFINE f == IF IsDashboard(p) /\ ~late THEN dash[d].found \cup {p} ELSE dash[d].found
              r == [dash[d] EXCEPT !.probes = @ \ {p}, !.found = f]
  <2>2. f \subseteq wasDash /\ f \subseteq Ports
    BY <1>0, <1>3 DEF KnownPorts
  <2>3. dash' = [dash EXCEPT ![d] = r]
    BY <1>0, <2>1
  <2>. HIDE DEF f
  <2>4. r \in DashRecords
    BY <1>0, <2>2 DEF DashRecords
  <2>5. /\ r.at = "probing" /\ r.found = f /\ r.url = dash[d].url
        /\ r.ask = dash[d].ask /\ r.next = dash[d].next /\ dash[d].at = "probing"
    BY <1>0, <1>6 DEF Probe, DashRecords
  <2>6. KnownPorts(r) /\ OneAddress(r)
    BY <1>0, <2>2, <2>5 DEF KnownPorts, OneAddress
  <2>. QED BY <1>2, <2>3, <2>4, <2>5, <2>6
<1>7. CASE Probed(d)
  <2>1. CASE dash[d].found # {}
    <3>. DEFINE u == LeastOf(dash[d].found)
                r == [dash[d] EXCEPT !.at = "opening", !.url = u]
    <3>1. u \in dash[d].found /\ u \in Ports /\ u \in wasDash
      BY <1>0, <2>1, FirstPort DEF KnownPorts, DashRecords
    <3>2. dash' = [dash EXCEPT ![d] = r]
      BY <1>0, <1>7, <2>1 DEF Probed
    <3>. HIDE DEF u
    <3>3. r \in DashRecords
      BY <1>0, <3>1 DEF DashRecords, DashAt
    <3>4. r.at = "opening" /\ r.found = dash[d].found /\ r.url = u /\ r.ask = dash[d].ask
      BY <1>0 DEF DashRecords
    <3>5. KnownPorts(r) /\ OneAddress(r)
      BY <1>0, <3>1, <3>4 DEF KnownPorts, OneAddress
    <3>. QED BY <1>2, <3>2, <3>3, <3>4, <3>5
  <2>2. CASE dash[d].found = {}
    <3>. DEFINE r == [dash[d] EXCEPT !.at = "listening"]
    <3>1. dash' = [dash EXCEPT ![d] = r] /\ r \in DashRecords
      BY <1>0, <1>7, <2>2 DEF Probed, DashTo, DashRecords, DashAt
    <3>2. /\ r.at = "listening" /\ r.found = dash[d].found /\ r.url = dash[d].url
          /\ r.ask = dash[d].ask /\ r.next = dash[d].next /\ dash[d].at = "probing"
      BY <1>0, <1>7 DEF Probed, DashRecords
    <3>3. KnownPorts(r) /\ OneAddress(r)
      BY <1>0, <3>2 DEF KnownPorts, OneAddress
    <3>. QED BY <1>2, <3>1, <3>2, <3>3
  <2>. QED BY <2>1, <2>2
<1>8. CASE InUse(d)
  <2>. DEFINE a == AfterConflict(d)
              r == [dash[d] EXCEPT !.at = a, !.next = @ + 1]
  <2>1. dash' = [dash EXCEPT ![d] = r]
    BY <1>0, <1>8 DEF InUse
  <2>2. a \in {"listening", "probing_again", "failed"} /\ (a = "listening" <=> ~dash[d].ask.explicit)
        /\ (a = "failed" => ~dash[d].ask.open)
    BY DEF AfterConflict
  <2>. HIDE DEF a
  <2>3. dash[d].next + 1 \in 0 .. PortAttempts /\ a \in DashAt
    <3>1. dash[d].next \in 0 .. PortAttempts /\ dash[d].next \in {0} \cup Ports
      BY <1>0, <1>8 DEF DashRecords, InUse, Candidates
    <3>. QED BY <2>2, <3>1, DashboardAssumption DEF Ports, DashAt
  <2>4. r \in DashRecords
    BY <1>0, <2>3 DEF DashRecords
  <2>5. r.at = a /\ r.found = dash[d].found /\ r.url = dash[d].url /\ r.ask = dash[d].ask
    BY <1>0 DEF DashRecords
  <2>6. KnownPorts(r) /\ OneAddress(r)
    BY <1>0, <2>2, <2>5 DEF KnownPorts, OneAddress
  <2>. QED BY <1>2, <2>1, <2>2, <2>4, <2>5, <2>6
<1>9. CASE CannotListen(d)
  <2>. DEFINE m == dash[d].next \in Candidates(d)
              r == [dash[d] EXCEPT !.at = "failed", !.missed = m]
  <2>1. dash' = [dash EXCEPT ![d] = r] /\ r \in DashRecords
    <3>1. dash' = [dash EXCEPT ![d] = r]
      BY <1>0, <1>9 DEF CannotListen
    <3>2. m \in BOOLEAN /\ "failed" \in DashAt
      BY DEF DashAt
    <3>. HIDE DEF m
    <3>. QED BY <1>0, <3>1, <3>2 DEF DashRecords
  <2>2. /\ r.at = "failed" /\ r.found = dash[d].found /\ r.url = dash[d].url
        /\ r.ask = dash[d].ask /\ (r.missed <=> m) /\ dash[d].at = "listening"
    BY <1>0, <1>9 DEF CannotListen, DashRecords
  <2>3. dash[d].ask.explicit => m
    BY <1>0, <2>2 DEF OneAddress, Candidates
  <2>4. KnownPorts(r) /\ OneAddress(r)
    BY <1>0, <2>2, <2>3 DEF KnownPorts, OneAddress
  <2>. QED BY <1>2, <2>1, <2>2, <2>4
<1>10. CASE ProbeAgain(d)
  <2>1. PICK late \in BOOLEAN :
       dash' = [dash EXCEPT ![d].at = IF IsDashboard(0) /\ ~late THEN "opening" ELSE "failed",
                            ![d].url = IF IsDashboard(0) /\ ~late THEN 0 ELSE @,
                            ![d].missed = late \/ ~IsDashboard(0)]
    BY <1>10 DEF ProbeAgain
  <2>. DEFINE a == IF IsDashboard(0) /\ ~late THEN "opening" ELSE "failed"
              u == IF IsDashboard(0) /\ ~late THEN 0 ELSE dash[d].url
              m == late \/ ~IsDashboard(0)
              r == [dash[d] EXCEPT !.at = a, !.url = u, !.missed = m]
  <2>2. dash' = [dash EXCEPT ![d] = r]
    BY <1>0, <2>1
  <2>3. u \in Ports \cup {NoPort} /\ (u # NoPort => u \in wasDash)
    BY <1>0, <1>3 DEF KnownPorts, DashRecords
  <2>4. a \in DashAt /\ a \in {"opening", "failed"} /\ (a = "failed" => m) /\ m \in BOOLEAN
    BY DEF DashAt, IsDashboard
  <2>. HIDE DEF a, u, m
  <2>5. r \in DashRecords
    BY <1>0, <2>3, <2>4 DEF DashRecords
  <2>6. r.at = a /\ r.found = dash[d].found /\ r.url = u /\ r.missed = m
    BY <1>0 DEF DashRecords
  <2>7. KnownPorts(r) /\ OneAddress(r)
    BY <1>0, <2>3, <2>4, <2>6 DEF KnownPorts, OneAddress
  <2>. QED BY <1>2, <2>2, <2>4, <2>5, <2>6, <2>7
<1>. QED BY <1>5, <1>6, <1>7, <1>8, <1>9, <1>10

(* A port changes hands: it is bound, given up, or another program's.       *)
LEMMA PortsMove ==
  ASSUME DashInv, NEW d \in Dashes, Bind(d) \/ Killed(d) \/ Closed(d)
  PROVE  DashInv'
<1>0. /\ dash \in [Dashes -> DashRecords] /\ dash[d] \in DashRecords /\ job[d] \in Jobs
      /\ portHolder \in [Ports -> PortHolders] /\ wasDash \in SUBSET Ports
      /\ Ports \subseteq Nat /\ NoPort \notin Ports /\ 0 \in Ports
      /\ KnownPorts(dash[d]) /\ OneAddress(dash[d]) /\ EndsItsRun(dash[d], job[d])
  BY OneDash
<1>1. ASSUME NEW p \in Ports PROVE HeldByListener(p)
  BY DEF DashInv
<1>2. CASE Bind(d)
  <2>1. Candidates(d) \subseteq Ports /\ dash[d].next \in Candidates(d)
    BY <1>0, <1>2 DEF Candidates, Bind
  <2>2. PICK p \in Ports :
         /\ portHolder[p] = "free"
         /\ portHolder' = [portHolder EXCEPT ![p] = d]
         /\ wasDash' = wasDash \cup {p}
         /\ dash' = [dash EXCEPT ![d].at = "opening", ![d].url = p, ![d].won = TRUE]
    BY <1>2, <2>1 DEF Bind
  <2>. DEFINE r == [dash[d] EXCEPT !.at = "opening", !.url = p, !.won = TRUE]
  <2>3. dash' = [dash EXCEPT ![d] = r] /\ r \in DashRecords
    BY <1>0, <2>2 DEF DashRecords, DashAt
  <2>4. r.at = "opening" /\ r.won /\ r.url = p /\ r.found = dash[d].found /\ dash[d].at = "listening"
    BY <1>0, <1>2 DEF Bind, DashRecords
  <2>5. ASSUME NEW e \in Dashes PROVE dash'[e] = IF e = d THEN r ELSE dash[e]
    BY <1>0, <2>3
  <2>6. job' = job /\ wasDash \subseteq wasDash' /\ wasDash' \in SUBSET Ports /\ p \in wasDash'
        /\ portHolder' \in [Ports -> PortHolders] /\ dash' \in [Dashes -> DashRecords]
    <3>1. dash' \in [Dashes -> DashRecords]
      BY <1>0, <2>3
    <3>. HIDE DEF r
    <3>. QED BY <1>0, <1>2, <2>2, <3>1 DEF Bind, PortHolders
  <2>. HIDE DEF r
  <2>7. ASSUME NEW e \in Dashes
        PROVE  (KnownPorts(dash[e]) /\ OneAddress(dash[e]) /\ EndsItsRun(dash[e], job[e]))'
    <3>1. CASE e = d
      <4>1. r.found \subseteq wasDash' /\ r.url \in wasDash'
        BY <1>0, <2>4, <2>6 DEF KnownPorts
      <4>. QED BY <2>4, <2>5, <3>1, <4>1 DEF KnownPorts, OneAddress, EndsItsRun
    <3>2. CASE e # d
      <4>1. KnownPorts(dash[e]) /\ OneAddress(dash[e]) /\ EndsItsRun(dash[e], job[e])
        BY DEF DashInv
      <4>. QED BY <2>5, <2>6, <3>2, <4>1 DEF KnownPorts, OneAddress, EndsItsRun
    <3>. QED BY <3>1, <3>2
  <2>8. ASSUME NEW q \in Ports PROVE HeldByListener(q)'
    <3>1. CASE q = p
      <4>1. portHolder'[q] = d
        BY <1>0, <2>2, <3>1
      <4>. QED BY <2>4, <2>5, <2>6, <3>1, <4>1 DEF HeldByListener, Listens
    <3>2. CASE q # p
      <4>1. portHolder'[q] = portHolder[q]
        BY <1>0, <2>2, <3>2
      <4>2. portHolder[q] \in Dashes => portHolder[q] # d
        BY <1>1, <2>4 DEF HeldByListener, Listens
      <4>. QED BY <1>1, <2>5, <2>6, <4>1, <4>2 DEF HeldByListener
    <3>. QED BY <3>1, <3>2
  <2>9. job' \in [Dashes -> Jobs]
    BY <2>6 DEF DashInv
  <2>. QED BY <2>6, <2>7, <2>8, <2>9 DEF DashInv
<1>3. ASSUME NEW at \in {"killed", "returned"}, DashTo(d, at), portHolder' = Freed(d),
             UNCHANGED << job, wasDash >>,
             at = "returned" => dash[d].at = "closing"
      PROVE  DashInv'
  <2>. DEFINE r == [dash[d] EXCEPT !.at = at]
  <2>1. dash' = [dash EXCEPT ![d] = r] /\ r \in DashRecords
    BY <1>0, <1>3 DEF DashTo, DashRecords, DashAt
  <2>2. r.at = at /\ r.url = dash[d].url /\ r.found = dash[d].found
    BY <1>0 DEF DashRecords
  <2>3. ASSUME NEW e \in Dashes PROVE dash'[e] = IF e = d THEN r ELSE dash[e]
    BY <1>0, <2>1
  <2>4. dash' \in [Dashes -> DashRecords]
    BY <1>0, <2>1
  <2>. HIDE DEF r
  <2>5. KnownPorts(r) /\ OneAddress(r) /\ EndsItsRun(r, job[d])
    BY <1>0, <1>3, <2>2 DEF KnownPorts, OneAddress, EndsItsRun
  <2>6. ASSUME NEW e \in Dashes
        PROVE  (KnownPorts(dash[e]) /\ OneAddress(dash[e]) /\ EndsItsRun(dash[e], job[e]))'
    <3>1. KnownPorts(dash'[e]) /\ OneAddress(dash'[e]) /\ EndsItsRun(dash'[e], job[e])
      BY <2>3, <2>5 DEF DashInv
    <3>. QED BY <1>3, <3>1 DEF KnownPorts, OneAddress, EndsItsRun
  <2>7. portHolder' \in [Ports -> PortHolders]
    BY <1>0, <1>3 DEF Freed, PortHolders
  <2>8. ASSUME NEW q \in Ports PROVE HeldByListener(q)'
    <3>1. portHolder'[q] \in Dashes => portHolder'[q] = portHolder[q] /\ portHolder[q] # d
      BY <1>3, DashboardAssumption DEF Freed
    <3>. QED BY <1>1, <1>3, <2>3, <3>1 DEF HeldByListener
  <2>. QED BY <1>3, <2>4, <2>6, <2>7, <2>8 DEF DashInv
<1>. QED BY <1>2, <1>3 DEF Killed, Closed

(* An invocation that serves or is done, and the run it accepted.           *)
LEMMA AfterBind ==
  ASSUME DashInv, NEW d \in Dashes,
         OpenBrowser(d) \/ Serve(d) \/ Accept(d) \/ Settle(d) \/ Stop(d) \/ ExitDash(d)
  PROVE  DashInv'
<1>0. /\ dash \in [Dashes -> DashRecords] /\ dash[d] \in DashRecords /\ job[d] \in Jobs
      /\ job \in [Dashes -> Jobs] /\ KnownPorts(dash[d]) /\ OneAddress(dash[d])
      /\ EndsItsRun(dash[d], job[d])
  BY OneDash DEF DashInv
<1>1. CASE OpenBrowser(d)
  <2>1. PICK b \in {"none", "opened", "warned"} :
       dash' = [dash EXCEPT ![d].at = IF dash[d].won THEN "ready" ELSE "reused",
                            ![d].browser = b]
    BY <1>1 DEF OpenBrowser
  <2>. DEFINE a == IF dash[d].won THEN "ready" ELSE "reused"
              r == [dash[d] EXCEPT !.at = a, !.browser = b]
  <2>2. dash' = [dash EXCEPT ![d] = r]
    BY <1>0, <2>1
  <2>3. a \in DashAt /\ a \in {"ready", "reused"} /\ (dash[d].won => a = "ready")
    BY DEF DashAt
  <2>. HIDE DEF a
  <2>4. r \in DashRecords
    BY <1>0, <2>3 DEF DashRecords
  <2>5. r.at = a /\ r.url = dash[d].url /\ r.found = dash[d].found /\ r.won = dash[d].won
    BY <1>0 DEF DashRecords
  <2>6. KnownPorts(r) /\ OneAddress(r) /\ EndsItsRun(r, job[d])
    BY <1>0, <2>3, <2>5 DEF KnownPorts, OneAddress, EndsItsRun
  <2>7. UNCHANGED << portHolder, job, wasDash >>
    BY <1>1 DEF OpenBrowser
  <2>. HIDE DEF r
  <2>. QED BY <1>0, <2>2, <2>3, <2>4, <2>5, <2>6, <2>7, DashMoves DEF Listens
<1>2. ASSUME NEW at \in {"serving", "closing", "exited"}, DashTo(d, at),
             UNCHANGED << portHolder, wasDash >>, NEW run \in Jobs, job' = [job EXCEPT ![d] = run],
             EndsItsRun([dash[d] EXCEPT !.at = at], run),
             dash[d].at \in Listens => at \in Listens
      PROVE  DashInv'
  <2>. DEFINE r == [dash[d] EXCEPT !.at = at]
  <2>1. dash' = [dash EXCEPT ![d] = r] /\ r \in DashRecords
    BY <1>0, <1>2 DEF DashTo, DashRecords, DashAt
  <2>2. r.at = at /\ r.url = dash[d].url /\ r.found = dash[d].found /\ r.won = dash[d].won
    BY <1>0 DEF DashRecords
  <2>3. KnownPorts(r) /\ OneAddress(r)
    BY <1>0, <1>2, <2>2 DEF KnownPorts, OneAddress
  <2>4. job' \in [Dashes -> Jobs] /\ job'[d] = run /\ \A e \in Dashes \ {d} : job'[e] = job[e]
    BY <1>0, <1>2
  <2>5. EndsItsRun(r, job'[d])
    BY <1>2, <2>4
  <2>. HIDE DEF r
  <2>. QED BY <1>2, <2>1, <2>2, <2>3, <2>4, <2>5, DashMoves
<1>3. job = [job EXCEPT ![d] = job[d]]
  BY <1>0
<1>4. CASE Serve(d)
  <2>1. EndsItsRun([dash[d] EXCEPT !.at = "serving"], job[d])
    BY <1>0 DEF EndsItsRun, DashRecords
  <2>. QED BY <1>0, <1>2, <1>3, <1>4, <2>1 DEF Serve, Listens
<1>5. CASE Stop(d)
  <2>1. Cancelled(d) \in Jobs /\ Cancelled(d) # "running"
    BY <1>0 DEF Cancelled, Jobs
  <2>2. EndsItsRun([dash[d] EXCEPT !.at = "closing"], Cancelled(d))
    BY <1>0, <2>1 DEF EndsItsRun, DashRecords
  <2>. QED BY <1>0, <1>2, <1>5, <2>1, <2>2 DEF Stop, Listens
<1>6. CASE ExitDash(d)
  <2>1. /\ dash[d].at = "returned" /\ job[d] # "running"
        /\ dash[d].ask.role = "cli" => job[d] \in {"none", "settled"}
    BY <1>0, <1>6 DEF ExitDash, EndsItsRun, MayExit, Jobs
  <2>2. EndsItsRun([dash[d] EXCEPT !.at = "exited"], job[d])
    BY <1>0, <2>1 DEF EndsItsRun, DashRecords
  <2>. QED BY <1>0, <1>2, <1>3, <1>6, <2>1, <2>2 DEF ExitDash, Listens
<1>7. CASE Accept(d) \/ Settle(d)
  <2>1. PICK run \in {"running", "settled"} : job' = [job EXCEPT ![d] = run]
    BY <1>7 DEF Accept, Settle
  <2>2. UNCHANGED << portHolder, dash, wasDash >>
    BY <1>7 DEF Accept, Settle
  <2>3. EndsItsRun(dash[d], run)
    BY <1>0, <1>7, <2>1 DEF Accept, Settle, EndsItsRun
  <2>4. dash' = [dash EXCEPT ![d] = dash[d]] /\ job' \in [Dashes -> Jobs] /\ job'[d] = run
        /\ \A e \in Dashes \ {d} : job'[e] = job[e]
    BY <1>0, <2>1, <2>2 DEF Jobs
  <2>. QED BY <1>0, <2>2, <2>3, <2>4, DashMoves
<1>. QED BY <1>1, <1>4, <1>5, <1>6, <1>7

(* Every step of the invocations and of other programs.                     *)
LEMMA DashSteps == DashInv /\ [DNext]_dpVars => DashInv'
<1>. SUFFICES ASSUME DashInv, [DNext]_dpVars PROVE DashInv'
  OBVIOUS
<1>1. ASSUME NEW p \in Ports, Foreign(p) PROVE DashInv'
  <2>1. UNCHANGED << dash, job, wasDash >> /\ portHolder \in [Ports -> PortHolders]
    BY <1>1 DEF Foreign, DashInv
  <2>2. \A q \in Ports : portHolder'[q] = portHolder[q] \/ portHolder'[q] \in {"free", "other"}
    BY <1>1, <2>1 DEF Foreign
  <2>3. portHolder' \in [Ports -> PortHolders]
    BY <1>1, <2>1 DEF Foreign, PortHolders
  <2>4. ASSUME NEW q \in Ports PROVE HeldByListener(q)'
    <3>1. HeldByListener(q) /\ (portHolder'[q] \in Dashes => portHolder'[q] = portHolder[q])
      BY <2>2, DashboardAssumption DEF DashInv
    <3>. QED BY <2>1, <3>1 DEF HeldByListener
  <2>5. ASSUME NEW d \in Dashes
        PROVE  (KnownPorts(dash[d]) /\ OneAddress(dash[d]) /\ EndsItsRun(dash[d], job[d]))'
    BY <2>1 DEF DashInv, KnownPorts, OneAddress, EndsItsRun
  <2>. QED BY <2>1, <2>3, <2>4, <2>5 DEF DashInv
<1>2. ASSUME UNCHANGED dpVars PROVE DashInv'
  BY <1>2 DEF dpVars, DashInv, KnownPorts, OneAddress, EndsItsRun, HeldByListener
<1>. QED BY <1>1, <1>2, BeforeBind, PortsMove, AfterBind DEF DNext

(* What the dashboard command told its user was so, whoever else starts one *)
(* or takes a port meanwhile (cli/dashboard.ts:345-530).                    *)
THEOREM DashboardHonestHolds == DSpec => []DashboardHonest
<1>1. DashInv => DashboardHonest
  BY DEF DashInv, KnownPorts, OneAddress, EndsItsRun, HeldByListener, Listens, DashboardHonest
<1>. QED BY <1>1, DashStarts, DashSteps, PTL DEF DSpec

(* What an invocation knows has its type.                                  *)
LEMMA DashTyped == DashInv => DTypeOK
BY DEF DashInv, DashRecords, Jobs, DTypeOK

-----------------------------------------------------------------------------
(* The look for desktop updates.                                          *)

(* A set of numbers up to a bound that is not empty has a greatest one.     *)
LEMMA GreatestOf ==
  ASSUME NEW n \in Nat, NEW T, T \subseteq 1 .. n, T # {}
  PROVE  Max(T) \in T /\ \A y \in T : Max(T) >= y
<1>. DEFINE U == {n - x : x \in T}
<1>0. \A x \in T : x \in Nat /\ n - x \in Nat
  BY Z3
<1>1. U \subseteq Nat /\ U # {}
  BY <1>0
<1>2. \E x \in U : \A y \in U : <<y, x>> \notin OpToRel(<, Nat)
  BY <1>1, NatLessThanWellFounded, WFMin, Zenon
<1>3. PICK x \in U : \A y \in U : ~(y < x)
  BY <1>1, <1>2 DEF OpToRel
<1>4. PICK z \in T : x = n - z
  BY <1>3
<1>5. \A y \in T : z >= y
  <2>. SUFFICES ASSUME NEW y \in T PROVE z >= y
    OBVIOUS
  <2>1. n - y \in U
    OBVIOUS
  <2>2. ~(n - y < x)
    BY <1>3, <2>1
  <2>3. y \in Nat /\ z \in Nat
    BY <1>0
  <2>. HIDE DEF U
  <2>. QED BY <1>4, <2>2, <2>3
<1>. QED BY <1>4, <1>5 DEF Max

(* Every run of a process, every call and every request has its parts.      *)
LEMMA UpdateFacts ==
  ASSUME UpdInv
  PROVE  /\ time \in Nat /\ time <= LastTime
         /\ hq \in [Hqs -> RunRecords] /\ asker \in [Askers -> AskRecords]
         /\ sent \in Seq(RequestRecords) /\ Len(sent) \in Nat /\ DOMAIN sent = 1 .. Len(sent)
         /\ \A i \in DOMAIN sent : sent[i] \in RequestRecords
         /\ HqOf \in [Askers -> Hqs] /\ Never \notin Hqs /\ Never \notin Nat
<1>1. UpdatePieces
  BY DEF UpdInv
<1>. QED BY <1>1, UpdateAssumption, LenProperties, ElementOfSeq DEF UpdatePieces

(* The last kept request before another one.                               *)
LEMMA KeptBeforeIs ==
  ASSUME UpdInv, NEW i \in DOMAIN sent, KeptBefore(i) # 0
  PROVE  LastKept(KeptBefore(i), i)
<1>. DEFINE I == {j \in 1 .. i - 1 : sent[j].kept}
<1>1. KeptBefore(i) = IF I # {} THEN Max(I) ELSE 0
  BY DEF KeptBefore, SelectLastInSubSeq
<1>2. i - 1 \in Nat /\ 1 .. i - 1 \subseteq DOMAIN sent /\ DOMAIN sent \subseteq Nat
  BY UpdateFacts
<1>3. I \subseteq 1 .. i - 1
  OBVIOUS
<1>4. Max(I) \in I /\ \A y \in I : Max(I) >= y
  BY <1>1, <1>2, <1>3, GreatestOf
<1>. DEFINE k == Max(I)
<1>5. k = KeptBefore(i) /\ k \in I /\ \A y \in I : k >= y
  BY <1>1, <1>4
<1>. HIDE DEF k
<1>6. k \in DOMAIN sent /\ k < i /\ sent[k].kept
  BY <1>2, <1>5
<1>7. ASSUME NEW j \in DOMAIN sent, k < j, j < i PROVE ~sent[j].kept
  <2>1. j \in 1 .. i - 1
    BY <1>2, <1>7, UpdateFacts
  <2>2. j \notin I
    BY <1>2, <1>5, <1>7
  <2>. QED BY <2>1, <2>2
<1>. QED BY <1>5, <1>6, <1>7 DEF LastKept

(* The last request is the one of the process that sent it.                 *)
LEMMA MineIs ==
  ASSUME UpdInv, NEW h \in Hqs, Len(sent) > 0, sent[Len(sent)].by = h
  PROVE  Mine(h) = Len(sent)
<1>. DEFINE I == {j \in 1 .. Len(sent) : sent[j].by = h}
<1>1. Mine(h) = IF I # {} THEN Max(I) ELSE 0
  BY DEF Mine, SelectLastInSeq
<1>2. Len(sent) \in I /\ I \subseteq 1 .. Len(sent) /\ Len(sent) \in Nat
  BY UpdateFacts
<1>3. Max(I) \in I /\ Max(I) >= Len(sent)
  BY <1>2, GreatestOf
<1>. QED BY <1>1, <1>2, <1>3

(* No process has asked yet: no request, no run, nobody holds the lock.   *)
LEMMA UpdStarts == UInit => UpdInv
<1>. SUFFICES ASSUME UInit PROVE UpdInv
  OBVIOUS
<1>1. sent = << >> /\ Len(sent) = 0 /\ DOMAIN sent = {} /\ sent \in Seq(RequestRecords)
  BY DEF UInit
<1>2. time = 0 /\ time \in 0 .. LastTime /\ monthId = Never /\ turn = Never
  BY UpdateAssumption DEF UInit
<1>3. cached \in {Never} \cup CacheRecords
  BY UpdateAssumption DEF UInit, CacheRecords, Offers
<1>4. hq = [h \in Hqs |-> NoRun] /\ NoRun \in RunRecords /\ NoRun.at = "none"
  BY UpdateAssumption DEF UInit, NoRun, RunRecords, RunAt, Offers
<1>5. asker \in [Askers -> AskRecords]
      /\ \A c \in Askers : asker[c].at = "idle" /\ ~asker[c].own /\ asker[c].result = "none"
  BY DEF UInit, AskRecords, Offers
<1>6. SentIds = {}
  BY <1>1 DEF SentIds
<1>7. UpdatePieces
  BY <1>1, <1>2, <1>3, <1>4, <1>5 DEF UpdatePieces
<1>8. OneAtATime
  BY <1>2, <1>4, UpdateAssumption DEF OneAtATime, Locked
<1>9. RecordOfLast
  BY <1>1, <1>4 DEF RecordOfLast, LastKept
<1>10. AskedFor
  BY <1>5 DEF AskedFor
<1>11. OneMonthEach
  BY <1>1, <1>2, <1>6, FS_EmptySet DEF OneMonthEach
<1>. QED BY <1>7, <1>8, <1>9, <1>10, <1>11 DEF UpdInv

(* A request is sent: the last one of the sequence, not kept yet.           *)
LEMMA FetchSends ==
  ASSUME UpdInv, NEW h \in Hqs, Fetch(h)
  PROVE  \E id \in Nat \cup {Never}, q \in RequestRecords :
           /\ id = Never => monthId' = monthId
           /\ id # Never => monthId' = [month |-> ThisMonth, id |-> id]
           /\ \/ monthId # Never /\ monthId.month = ThisMonth /\ id = monthId.id
              \/ id \in {NextId, Never}
           /\ sent' = Append(sent, q) /\ q.at = hq[h].when /\ q.month = ThisMonth
           /\ q.id = id /\ q.force = hq[h].force /\ q.by = h /\ q.kept = FALSE
           /\ ThisMonth \in Nat /\ NextId \in Nat
<1>1. UpdatePieces /\ IsFiniteSet(SentIds)
  BY DEF UpdInv, OneMonthEach
<1>2. ThisMonth \in Nat
  <2>1. time \in Nat /\ Month \in Nat \ {0}
    BY UpdateFacts, UpdateAssumption
  <2>. QED BY <2>1 DEF ThisMonth
<1>3. NextId \in Nat
  BY <1>1, FS_CardinalityType DEF NextId
<1>4. PICK id \in IF monthId # Never /\ monthId.month = ThisMonth THEN {monthId.id}
                  ELSE {NextId, Never} :
       /\ monthId' = IF id = Never THEN monthId ELSE [month |-> ThisMonth, id |-> id]
       /\ sent' = Append(sent, [at |-> hq[h].when, month |-> ThisMonth, id |-> id,
                                force |-> hq[h].force, by |-> h, kept |-> FALSE])
  BY DEF Fetch
<1>5. id \in Nat \cup {Never}
  BY <1>1, <1>3, <1>4 DEF UpdatePieces
<1>. DEFINE q == [at |-> hq[h].when, month |-> ThisMonth, id |-> id,
                  force |-> hq[h].force, by |-> h, kept |-> FALSE]
<1>6. hq[h].when \in 0 .. LastTime /\ hq[h].force \in BOOLEAN
  BY UpdateFacts DEF RunRecords
<1>7. q \in RequestRecords
  BY <1>2, <1>5, <1>6 DEF RequestRecords
<1>8. /\ q.at = hq[h].when /\ q.month = ThisMonth /\ q.id = id
      /\ q.force = hq[h].force /\ q.by = h /\ q.kept = FALSE
  OBVIOUS
<1>9. sent' = Append(sent, q)
  BY <1>4
<1>. HIDE DEF q
<1>. QED BY <1>2, <1>3, <1>4, <1>5, <1>7, <1>8, <1>9

(* What Append does to the requests.                                       *)
LEMMA OneMore ==
  ASSUME UpdInv, NEW q \in RequestRecords, sent' = Append(sent, q)
  PROVE  /\ sent' \in Seq(RequestRecords) /\ Len(sent') = Len(sent) + 1
         /\ DOMAIN sent' = 1 .. Len(sent) + 1 /\ sent'[Len(sent) + 1] = q
         /\ \A i \in DOMAIN sent : i \in DOMAIN sent' /\ sent'[i] = sent[i]
         /\ \A i \in DOMAIN sent' : i = Len(sent) + 1 \/ i \in DOMAIN sent
<1>. QED BY UpdateFacts, AppendProperties

(* The outcome of the last request is kept, or not.                         *)
LEMMA KeepMarks ==
  ASSUME UpdInv, NEW h \in Hqs, Keep(h)
  PROVE  /\ Len(sent) > 0 /\ sent[Len(sent)].by = h /\ ~sent[Len(sent)].kept
         /\ \/ UNCHANGED << cached, sent >>
            \/ /\ cached' \in CacheRecords /\ cached' # Never
               /\ cached'.at = sent[Len(sent)].at
               /\ sent' = [sent EXCEPT ![Len(sent)].kept = TRUE]
         /\ \E r \in RunRecords : /\ hq' = [hq EXCEPT ![h] = r] /\ r.at = "answer"
                                 /\ r.force = hq[h].force
         /\ UNCHANGED << time, monthId, turn, asker >>
<1>1. /\ hq[h].at = "keeping" /\ UNCHANGED << time, monthId, turn, asker >>
  BY DEF Keep
<1>2. Len(sent) > 0 /\ sent[Len(sent)].by = h /\ ~sent[Len(sent)].kept
  BY <1>1 DEF UpdInv, OneAtATime
<1>3. Mine(h) = Len(sent)
  BY <1>2, MineIs
<1>4. hq[h].offer \in Offers /\ "none" \in Offers
  BY UpdateFacts DEF RunRecords, Offers
<1>5. sent[Len(sent)].at \in 0 .. LastTime
  BY <1>2, UpdateFacts DEF RequestRecords
<1>6. ASSUME NEW o \in Offers
      PROVE  /\ [at |-> sent[Len(sent)].at, offer |-> o] \in CacheRecords
             /\ [at |-> sent[Len(sent)].at, offer |-> o] # Never
             /\ [at |-> sent[Len(sent)].at, offer |-> o].at = sent[Len(sent)].at
  BY <1>5, UpdateAssumption DEF CacheRecords, Offers
<1>7. \/ UNCHANGED << cached, sent >>
      \/ /\ cached' \in CacheRecords /\ cached' # Never
         /\ cached'.at = sent[Len(sent)].at
         /\ sent' = [sent EXCEPT ![Len(sent)].kept = TRUE]
  BY <1>3, <1>4, <1>6 DEF Keep
<1>8. PICK o \in Offers : hq' = [hq EXCEPT ![h].at = "answer", ![h].offer = o]
                          \/ hq' = [hq EXCEPT ![h].at = "answer"]
  BY <1>4 DEF Keep, HqTo
<1>9. \E r \in RunRecords : /\ hq' = [hq EXCEPT ![h] = r] /\ r.at = "answer"
                           /\ r.force = hq[h].force
  <2>. DEFINE r1 == [hq[h] EXCEPT !.at = "answer", !.offer = o]
              r2 == [hq[h] EXCEPT !.at = "answer"]
  <2>0. hq[h] \in RunRecords
    BY UpdateFacts
  <2>1. /\ r1 \in RunRecords /\ r1.at = "answer" /\ r1.force = hq[h].force
        /\ r2 \in RunRecords /\ r2.at = "answer" /\ r2.force = hq[h].force
    BY <2>0 DEF RunRecords, RunAt
  <2>2. hq' = [hq EXCEPT ![h] = r1] \/ hq' = [hq EXCEPT ![h] = r2]
    BY <1>8, UpdateFacts
  <2>. HIDE DEF r1, r2
  <2>. QED BY <2>1, <2>2
<1>. QED BY <1>1, <1>2, <1>7, <1>9

(* What marking the last request does to the requests.                      *)
LEMMA OneMarked ==
  ASSUME UpdInv, Len(sent) > 0, sent' = [sent EXCEPT ![Len(sent)].kept = TRUE]
  PROVE  /\ sent' \in Seq(RequestRecords) /\ Len(sent') = Len(sent) /\ DOMAIN sent' = DOMAIN sent
         /\ sent'[Len(sent)].kept
         /\ \A i \in DOMAIN sent :
              /\ sent'[i].at = sent[i].at /\ sent'[i].month = sent[i].month
              /\ sent'[i].id = sent[i].id /\ sent'[i].force = sent[i].force
              /\ sent'[i].by = sent[i].by /\ (i # Len(sent) => sent'[i].kept = sent[i].kept)
<1>. DEFINE n == Len(sent)
            q == [sent[n] EXCEPT !.kept = TRUE]
<1>0. n \in Nat /\ DOMAIN sent = 1 .. n /\ n \in 1 .. n /\ sent[n] \in RequestRecords
      /\ sent \in Seq(RequestRecords)
  BY UpdateFacts
<1>1. /\ q \in RequestRecords /\ q.at = sent[n].at /\ q.month = sent[n].month /\ q.id = sent[n].id
      /\ q.force = sent[n].force /\ q.by = sent[n].by /\ q.kept
  BY <1>0 DEF RequestRecords
<1>2. sent' = [sent EXCEPT ![n] = q]
  BY <1>0
<1>. HIDE DEF q
<1>3. sent' \in Seq(RequestRecords) /\ Len(sent') = n /\ DOMAIN sent' = DOMAIN sent
      /\ \A i \in DOMAIN sent : sent'[i] = IF i = n THEN q ELSE sent[i]
  <2>. HIDE DEF n
  <2>1. n \in 1 .. Len(sent)
    BY <1>0 DEF n
  <2>2. /\ [sent EXCEPT ![n] = q] \in Seq(RequestRecords) /\ Len([sent EXCEPT ![n] = q]) = Len(sent)
        /\ \A j \in 1 .. Len(sent) : [sent EXCEPT ![n] = q][j] = IF j = n THEN q ELSE sent[j]
    BY <1>0, <1>1, <2>1, ExceptSeq
  <2>3. sent' \in Seq(RequestRecords) /\ Len(sent') = n
        /\ \A j \in 1 .. n : sent'[j] = IF j = n THEN q ELSE sent[j]
    BY <1>2, <2>2 DEF n
  <2>. QED BY <1>0, <2>3, LenProperties
<1>. QED BY <1>0, <1>1, <1>3

(* A run goes on without a request: only its own part changes.              *)
LEMMA RunGoesOn ==
  ASSUME UpdInv, NEW h \in Hqs, NEW r \in RunRecords, hq' = [hq EXCEPT ![h] = r],
         UNCHANGED << time, cached, monthId, asker, sent >>, r.force = hq[h].force,
         hq[h].at \notin {"none", "dead"}, r.at \notin {"none", "dead"},
         \/ turn' = turn /\ (hq[h].at \in Locked <=> r.at \in Locked)
         \/ turn = Never /\ turn' = h /\ r.at \in Locked,
         r.at \in {"fetching", "keeping"} => hq[h].at \in {"fetching", "keeping"},
         r.at = "answer" /\ r.force => hq[h].at \in {"fetching", "keeping", "answer"},
         r.at = "headers" /\ ~r.force /\ cached # Never => ~Within(r.when, cached.at)
  PROVE  UpdInv'
<1>0. /\ hq \in [Hqs -> RunRecords] /\ Never \notin Hqs
      /\ UpdatePieces /\ OneAtATime /\ RecordOfLast /\ AskedFor /\ OneMonthEach
  BY UpdateFacts DEF UpdInv
<1>1. ASSUME NEW e \in Hqs PROVE hq'[e] = IF e = h THEN r ELSE hq[e]
  BY <1>0
<1>2. hq' \in [Hqs -> RunRecords]
  BY <1>0
<1>3. UpdatePieces'
  BY <1>0, <1>2 DEF UpdatePieces
<1>4. OneAtATime'
  <2>. SUFFICES ASSUME NEW e \in Hqs
                PROVE  /\ hq'[e].at \in Locked <=> turn' = e
                       /\ hq'[e].at \in {"fetching", "keeping"} =>
                            Len(sent) > 0 /\ sent[Len(sent)].by = e /\ ~sent[Len(sent)].kept
                       /\ hq'[e].at \in {"fetching", "keeping", "answer"} /\ hq'[e].force =>
                            \E i \in DOMAIN sent : sent[i].by = e /\ sent[i].force
    BY DEF OneAtATime
  <2>1. /\ hq[e].at \in Locked <=> turn = e
        /\ hq[h].at \in Locked <=> turn = h
        /\ hq[e].at \in {"fetching", "keeping"} =>
             Len(sent) > 0 /\ sent[Len(sent)].by = e /\ ~sent[Len(sent)].kept
        /\ hq[e].at \in {"fetching", "keeping", "answer"} /\ hq[e].force =>
             \E i \in DOMAIN sent : sent[i].by = e /\ sent[i].force
    BY <1>0 DEF OneAtATime
  <2>2. hq'[e].at \in Locked <=> turn' = e
    BY <1>0, <1>1, <2>1
  <2>3. CASE e = h
    <3>1. hq'[e] = r
      BY <1>1, <2>3
    <3>. QED BY <2>1, <2>2, <2>3, <3>1
  <2>4. CASE e # h
    <3>1. hq'[e] = hq[e]
      BY <1>1, <2>4
    <3>. QED BY <2>1, <2>2, <3>1
  <2>. QED BY <2>3, <2>4
<1>5. RecordOfLast'
  <2>1. ASSUME NEW e \in Hqs, hq'[e].at = "headers", ~hq'[e].force, cached # Never
        PROVE  ~Within(hq'[e].when, cached.at)
    <3>1. CASE e = h
      <4>1. hq'[e] = r
        BY <1>1, <3>1
      <4>. QED BY <2>1, <4>1
    <3>2. CASE e # h
      <4>1. hq'[e] = hq[e]
        BY <1>1, <3>2
      <4>. QED BY <1>0, <2>1, <4>1 DEF RecordOfLast
    <3>. QED BY <3>1, <3>2
  <2>. QED BY <1>0, <2>1 DEF RecordOfLast, LastKept, Within
<1>6. AskedFor'
  <2>1. ASSUME NEW c \in Askers
        PROVE  /\ hq[HqOf[c]].at \notin {"none", "dead"} => hq'[HqOf[c]].at \notin {"none", "dead"}
               /\ hq'[HqOf[c]].force = hq[HqOf[c]].force
    BY <1>1, UpdateFacts
  <2>. QED BY <1>0, <2>1 DEF AskedFor
<1>7. OneMonthEach'
  BY <1>0 DEF OneMonthEach, SentIds
<1>. QED BY <1>3, <1>4, <1>5, <1>6, <1>7 DEF UpdInv

(* The lock, the cached record and the answer of the catalog.               *)
LEMMA RunSteps ==
  ASSUME UpdInv, NEW h \in Hqs, LockUpdates(h) \/ Cache(h) \/ Catalog(h)
  PROVE  UpdInv'
<1>0. hq \in [Hqs -> RunRecords] /\ hq[h] \in RunRecords /\ time \in 0 .. LastTime
      /\ cached \in {Never} \cup CacheRecords
  BY UpdateFacts DEF UpdInv, UpdatePieces
<1>1. CASE LockUpdates(h)
  <2>. DEFINE r == [hq[h] EXCEPT !.at = "cache"]
  <2>1. hq' = [hq EXCEPT ![h] = r] /\ r \in RunRecords /\ r.at = "cache" /\ r.force = hq[h].force
    BY <1>0, <1>1 DEF LockUpdates, HqTo, RunRecords, RunAt
  <2>2. /\ hq[h].at = "locking" /\ turn = Never /\ turn' = h
        /\ UNCHANGED << time, cached, monthId, asker, sent >>
    BY <1>1 DEF LockUpdates
  <2>. HIDE DEF r
  <2>. QED BY <2>1, <2>2, RunGoesOn DEF Locked
<1>2. CASE Cache(h)
  <2>0. hq[h].at = "cache" /\ UNCHANGED << time, cached, monthId, turn, asker, sent >>
    BY <1>2 DEF Cache
  <2>1. CASE ~hq[h].force /\ Fresh
    <3>. DEFINE r == [hq[h] EXCEPT !.at = "answer", !.offer = cached.offer]
    <3>1. cached.offer \in Offers
      BY <1>0, <2>1 DEF Fresh, CacheRecords
    <3>2. hq' = [hq EXCEPT ![h] = r]
      BY <1>0, <1>2, <2>1 DEF Cache
    <3>3. r \in RunRecords /\ r.at = "answer" /\ r.force = hq[h].force
      BY <1>0, <3>1 DEF RunRecords, RunAt
    <3>. HIDE DEF r
    <3>. QED BY <2>0, <2>1, <3>2, <3>3, RunGoesOn DEF Locked
  <2>2. CASE ~(~hq[h].force /\ Fresh)
    <3>. DEFINE r == [hq[h] EXCEPT !.at = "headers", !.when = time]
    <3>1. hq' = [hq EXCEPT ![h] = r]
      BY <1>0, <1>2, <2>2 DEF Cache
    <3>2. r \in RunRecords /\ r.at = "headers" /\ r.force = hq[h].force /\ r.when = time
      BY <1>0 DEF RunRecords, RunAt
    <3>3. ~r.force /\ cached # Never => ~Within(r.when, cached.at)
      BY <2>2, <3>2 DEF Fresh, Within
    <3>. HIDE DEF r
    <3>. QED BY <2>0, <3>1, <3>2, <3>3, RunGoesOn DEF Locked
  <2>. QED BY <2>1, <2>2
<1>3. CASE Catalog(h)
  <2>1. PICK o \in Offers : hq' = [hq EXCEPT ![h].at = "keeping", ![h].offer = o]
    BY <1>3 DEF Catalog
  <2>. DEFINE r == [hq[h] EXCEPT !.at = "keeping", !.offer = o]
  <2>2. hq' = [hq EXCEPT ![h] = r] /\ r \in RunRecords /\ r.at = "keeping" /\ r.force = hq[h].force
    BY <1>0, <2>1 DEF RunRecords, RunAt
  <2>3. hq[h].at = "fetching" /\ UNCHANGED << time, cached, monthId, turn, asker, sent >>
    BY <1>3 DEF Catalog
  <2>. HIDE DEF r
  <2>. QED BY <2>2, <2>3, RunGoesOn DEF Locked
<1>. QED BY <1>1, <1>2, <1>3

(* A call joins the run of its process, or starts one.                      *)
LEMMA AskStep == ASSUME UpdInv, NEW c \in Askers, AskUpdate(c) PROVE UpdInv'
<1>. DEFINE h == HqOf[c]
<1>0. /\ hq \in [Hqs -> RunRecords] /\ hq[h] \in RunRecords /\ h \in Hqs
      /\ asker \in [Askers -> AskRecords] /\ asker[c] \in AskRecords /\ HqOf \in [Askers -> Hqs]
      /\ UpdatePieces /\ OneAtATime /\ RecordOfLast /\ AskedFor /\ OneMonthEach
  BY UpdateFacts DEF UpdInv
<1>1. /\ asker[c].at = "idle" /\ hq[h].at # "dead"
      /\ UNCHANGED << time, cached, monthId, turn, sent >>
  BY DEF AskUpdate
<1>. DEFINE a == [asker[c] EXCEPT !.at = "waiting", !.own = hq[h].at = "none"]
<1>2. asker' = [asker EXCEPT ![c] = a] /\ a \in AskRecords
  <2>1. (hq[h].at = "none") \in BOOLEAN
    OBVIOUS
  <2>2. asker' = [asker EXCEPT ![c] = a]
    BY <1>0 DEF AskUpdate
  <2>. QED BY <1>0, <2>1, <2>2 DEF AskRecords
<1>3. /\ a.at = "waiting" /\ (a.own <=> hq[h].at = "none") /\ a.force = asker[c].force
      /\ a.result = asker[c].result
  BY <1>0 DEF AskRecords
<1>4. PICK r \in RunRecords :
        /\ hq' = [hq EXCEPT ![h] = r]
        /\ hq[h].at # "none" => r = hq[h]
        /\ hq[h].at = "none" => r.at = "locking" /\ r.force = asker[c].force
  <2>1. CASE hq[h].at # "none"
    <3>1. hq' = hq
      BY <2>1 DEF AskUpdate
    <3>. QED BY <1>0, <2>1, <3>1
  <2>2. CASE hq[h].at = "none"
    <3>. DEFINE r == [NoRun EXCEPT !.at = "locking", !.force = asker[c].force]
    <3>1. hq' = [hq EXCEPT ![h] = r]
      BY <2>2 DEF AskUpdate
    <3>2. asker[c].force \in BOOLEAN
      BY <1>0 DEF AskRecords
    <3>3. r \in RunRecords /\ r.at = "locking" /\ r.force = asker[c].force
      <4>1. NoRun \in RunRecords
        BY UpdateAssumption DEF NoRun, RunRecords, RunAt, Offers
      <4>. QED BY <3>2, <4>1 DEF RunRecords, RunAt
    <3>. HIDE DEF r
    <3>. QED BY <2>2, <3>1, <3>3
  <2>. QED BY <2>1, <2>2
<1>. HIDE DEF a
<1>5. ASSUME NEW e \in Hqs PROVE hq'[e] = IF e = h THEN r ELSE hq[e]
  BY <1>0, <1>4
<1>6. ASSUME NEW d \in Askers PROVE asker'[d] = IF d = c THEN a ELSE asker[d]
  BY <1>0, <1>2
<1>7. hq' \in [Hqs -> RunRecords] /\ asker' \in [Askers -> AskRecords]
  BY <1>0, <1>2, <1>4
<1>8. UpdatePieces'
  BY <1>0, <1>1, <1>7 DEF UpdatePieces
<1>9. OneAtATime'
  <2>. SUFFICES ASSUME NEW e \in Hqs
                PROVE  /\ hq'[e].at \in Locked <=> turn' = e
                       /\ hq'[e].at \in {"fetching", "keeping"} =>
                            Len(sent) > 0 /\ sent[Len(sent)].by = e /\ ~sent[Len(sent)].kept
                       /\ hq'[e].at \in {"fetching", "keeping", "answer"} /\ hq'[e].force =>
                            \E i \in DOMAIN sent : sent[i].by = e /\ sent[i].force
    BY <1>1 DEF OneAtATime
  <2>1. hq'[e] = hq[e] \/ (hq[e].at = "none" /\ hq'[e].at = "locking")
    BY <1>4, <1>5
  <2>. QED BY <1>0, <1>1, <2>1 DEF OneAtATime, Locked
<1>10. RecordOfLast'
  <2>1. \A e \in Hqs : hq'[e].at = "headers" => hq'[e] = hq[e]
    BY <1>4, <1>5
  <2>. QED BY <1>0, <1>1, <2>1 DEF RecordOfLast, LastKept, Within
<1>11. AskedFor'
  <2>. SUFFICES ASSUME NEW d \in Askers
                PROVE  /\ asker'[d].at = "idle" => ~asker'[d].own /\ asker'[d].result = "none"
                       /\ asker'[d].at = "waiting" => asker'[d].result = "none"
                       /\ asker'[d].at = "waiting" /\ asker'[d].own =>
                            /\ hq'[HqOf[d]].at \notin {"none", "dead"}
                            /\ asker'[d].force => hq'[HqOf[d]].force
                       /\ asker'[d].own /\ asker'[d].force /\ asker'[d].result # "none" =>
                            \E i \in DOMAIN sent : sent[i].by = HqOf[d] /\ sent[i].force
    BY <1>1 DEF AskedFor
  <2>1. HqOf[d] \in Hqs /\ hq'[HqOf[d]] = IF HqOf[d] = h THEN r ELSE hq[HqOf[d]]
    BY <1>0, <1>5
  <2>2. CASE d = c
    <3>1. asker'[d] = a /\ hq'[HqOf[d]] = r /\ asker[c].result = "none"
      BY <1>0, <1>1, <1>6, <2>1, <2>2 DEF AskedFor
    <3>. QED BY <1>1, <1>3, <1>4, <2>2, <3>1
  <2>3. CASE d # c
    <3>1. asker'[d] = asker[d]
      BY <1>6, <2>3
    <3>2. hq[HqOf[d]].at \notin {"none", "dead"} => hq'[HqOf[d]] = hq[HqOf[d]]
      BY <1>4, <2>1
    <3>. QED BY <1>0, <3>1, <3>2 DEF AskedFor
  <2>. QED BY <2>2, <2>3
<1>12. OneMonthEach'
  BY <1>0, <1>1 DEF OneMonthEach, SentIds
<1>. QED BY <1>8, <1>9, <1>10, <1>11, <1>12 DEF UpdInv

(* A request is sent by the one that holds the lock.                        *)
LEMMA FetchStep == ASSUME UpdInv, NEW h \in Hqs, Fetch(h) PROVE UpdInv'
<1>n. PICK n \in Nat : n = Len(sent)
  BY UpdateFacts
<1>0. /\ hq \in [Hqs -> RunRecords] /\ hq[h] \in RunRecords /\ n \in Nat /\ DOMAIN sent = 1 .. n
      /\ UpdatePieces /\ OneAtATime /\ RecordOfLast /\ AskedFor /\ OneMonthEach /\ Never \notin Nat
  BY <1>n, UpdateFacts DEF UpdInv
<1>1. PICK id \in Nat \cup {Never}, q \in RequestRecords :
        /\ id = Never => monthId' = monthId
        /\ id # Never => monthId' = [month |-> ThisMonth, id |-> id]
        /\ \/ monthId # Never /\ monthId.month = ThisMonth /\ id = monthId.id
           \/ id \in {NextId, Never}
        /\ sent' = Append(sent, q) /\ q.at = hq[h].when /\ q.month = ThisMonth
        /\ q.id = id /\ q.force = hq[h].force /\ q.by = h /\ q.kept = FALSE
        /\ ThisMonth \in Nat /\ NextId \in Nat
  BY FetchSends
<1>2. /\ sent' \in Seq(RequestRecords) /\ Len(sent') = n + 1
      /\ DOMAIN sent' = 1 .. n + 1 /\ sent'[n + 1] = q
      /\ \A i \in DOMAIN sent : i \in DOMAIN sent' /\ sent'[i] = sent[i]
      /\ \A i \in DOMAIN sent' : i = n + 1 \/ i \in DOMAIN sent
  BY <1>n, <1>1, OneMore
<1>3. n + 1 \in DOMAIN sent' /\ n + 1 \notin DOMAIN sent /\ DOMAIN sent \subseteq Nat
      /\ DOMAIN sent' \subseteq Nat
  BY <1>0, <1>2
<1>4. hq[h].at = "headers" /\ UNCHANGED << time, cached, turn, asker >>
  BY DEF Fetch
<1>. DEFINE r == [hq[h] EXCEPT !.at = "fetching"]
<1>5. hq' = [hq EXCEPT ![h] = r] /\ r \in RunRecords /\ r.at = "fetching" /\ r.force = hq[h].force
  BY <1>0 DEF Fetch, HqTo, RunRecords, RunAt
<1>. HIDE DEF r
<1>6. ASSUME NEW e \in Hqs PROVE hq'[e] = IF e = h THEN r ELSE hq[e]
  BY <1>0, <1>5
<1>7. UpdatePieces'
  <2>1. hq' \in [Hqs -> RunRecords]
    BY <1>0, <1>5
  <2>2. monthId' \in {Never} \cup [month : Nat, id : Nat]
    BY <1>0, <1>1 DEF UpdatePieces
  <2>. QED BY <1>0, <1>2, <1>4, <2>1, <2>2 DEF UpdatePieces
<1>8. OneAtATime'
  <2>. SUFFICES ASSUME NEW e \in Hqs
                PROVE  /\ hq'[e].at \in Locked <=> turn' = e
                       /\ hq'[e].at \in {"fetching", "keeping"} =>
                            Len(sent') > 0 /\ sent'[Len(sent')].by = e /\ ~sent'[Len(sent')].kept
                       /\ hq'[e].at \in {"fetching", "keeping", "answer"} /\ hq'[e].force =>
                            \E i \in DOMAIN sent' : sent'[i].by = e /\ sent'[i].force
    BY DEF OneAtATime
  <2>1. turn = h /\ turn' = turn
    BY <1>0, <1>4 DEF OneAtATime, Locked
  <2>2. CASE e = h
    <3>1. hq'[e] = r
      BY <1>6, <2>2
    <3>2. Len(sent') > 0 /\ sent'[Len(sent')] = q
      BY <1>0, <1>2
    <3>. QED BY <1>1, <1>2, <1>3, <1>5, <2>1, <2>2, <3>1, <3>2 DEF Locked
  <2>3. CASE e # h
    <3>1. hq'[e] = hq[e] /\ hq[e].at \notin Locked
      BY <1>0, <1>6, <2>1, <2>3 DEF OneAtATime
    <3>. QED BY <2>1, <2>3, <3>1 DEF Locked
  <2>. QED BY <2>2, <2>3
<1>9. ASSUME NEW k \in DOMAIN sent', NEW i, i \in DOMAIN sent' \/ i = n + 2, LastKept(k, i)'
      PROVE  k \in DOMAIN sent /\ sent'[k] = sent[k] /\ k < i
             /\ (i \in DOMAIN sent => LastKept(k, i))
             /\ (i \in {n + 1, n + 2} => LastKept(k, n + 1))
  <2>1. k < i /\ sent'[k].kept /\ \A j \in DOMAIN sent' : k < j /\ j < i => ~sent'[j].kept
    BY <1>9 DEF LastKept
  <2>2. k # n + 1
    BY <1>1, <1>2, <2>1
  <2>3. k \in DOMAIN sent /\ sent'[k] = sent[k]
    BY <1>2, <2>2
  <2>4. k < n + 1
    BY <1>0, <2>3
  <2>5. ASSUME NEW j \in DOMAIN sent, k < j, j < i PROVE ~sent[j].kept
    BY <1>2, <2>1, <2>5
  <2>6. i \in {n + 1, n + 2} => \A j \in DOMAIN sent : j < i
    BY <1>0
  <2>. QED BY <2>1, <2>3, <2>4, <2>5, <2>6 DEF LastKept
<1>10. RecordOfLast'
  <2>1. ASSUME NEW k \in DOMAIN sent', LastKept(k, Len(sent) + 1)'
        PROVE  cached' # Never /\ cached'.at = sent'[k].at
    <3>1. Len(sent') + 1 = n + 2
      BY <1>0, <1>2
    <3>2. LastKept(k, n + 2)'
      BY <2>1, <3>1 DEF LastKept
    <3>3. k \in DOMAIN sent /\ sent'[k] = sent[k] /\ LastKept(k, n + 1)
      BY <1>9, <3>2
    <3>. QED BY <1>n, <1>0, <1>4, <3>3 DEF RecordOfLast
  <2>2. ASSUME NEW e \in Hqs, hq'[e].at = "headers", ~hq'[e].force, cached' # Never
        PROVE  ~Within(hq'[e].when, cached'.at)
    <3>1. hq'[e] = hq[e]
      BY <1>5, <1>6, <2>2
    <3>. QED BY <1>0, <1>4, <2>2, <3>1 DEF RecordOfLast
  <2>3. ASSUME NEW i \in DOMAIN sent', NEW k \in DOMAIN sent', ~sent'[i].force, LastKept(k, i)'
        PROVE  ~Within(sent'[i].at, sent'[k].at)
    <3>1. k \in DOMAIN sent /\ sent'[k] = sent[k]
      BY <1>9, <2>3
    <3>2. CASE i = n + 1
      <4>1. LastKept(k, n + 1) /\ sent'[i] = q
        BY <1>2, <1>9, <2>3, <3>2
      <4>2. cached # Never /\ cached.at = sent[k].at
        BY <1>n, <1>0, <3>1, <4>1 DEF RecordOfLast
      <4>3. ~Within(hq[h].when, cached.at)
        BY <1>0, <1>1, <1>4, <2>3, <4>1, <4>2 DEF RecordOfLast
      <4>. QED BY <1>1, <3>1, <4>1, <4>2, <4>3
    <3>3. CASE i \in DOMAIN sent
      <4>1. LastKept(k, i) /\ sent'[i] = sent[i]
        BY <1>2, <1>9, <2>3, <3>3
      <4>. QED BY <1>0, <2>3, <3>1, <3>3, <4>1 DEF RecordOfLast
    <3>. QED BY <1>2, <3>2, <3>3
  <2>. QED BY <2>1, <2>2, <2>3 DEF RecordOfLast, Within
<1>11. AskedFor'
  <2>1. ASSUME NEW c \in Askers
        PROVE  /\ hq[HqOf[c]].at \notin {"none", "dead"} => hq'[HqOf[c]].at \notin {"none", "dead"}
               /\ hq'[HqOf[c]].force = hq[HqOf[c]].force
    BY <1>5, <1>6, UpdateFacts
  <2>2. ASSUME NEW c \in Askers, NEW i \in DOMAIN sent, sent[i].by = HqOf[c], sent[i].force
        PROVE  \E j \in DOMAIN sent' : sent'[j].by = HqOf[c] /\ sent'[j].force
    BY <1>2, <2>2
  <2>. QED BY <1>0, <1>4, <2>1, <2>2 DEF AskedFor
<1>12. OneMonthEach'
  <2>1. SentIds' = SentIds \cup {id}
    <3>1. \A i \in DOMAIN sent' : sent'[i].id \in SentIds \cup {id}
      BY <1>1, <1>2 DEF SentIds
    <3>2. \A i \in DOMAIN sent : sent[i].id \in SentIds'
      BY <1>2 DEF SentIds
    <3>3. id \in SentIds'
      BY <1>1, <1>2, <1>3 DEF SentIds
    <3>4. SentIds = {sent[i].id : i \in DOMAIN sent} /\ SentIds' = {sent'[i].id : i \in DOMAIN sent'}
      BY DEF SentIds
    <3>. QED BY <3>1, <3>2, <3>3, <3>4
  <2>2. IsFiniteSet(SentIds) /\ Cardinality(SentIds) \in Nat
        /\ \A m \in SentIds \ {Never} : m <= Cardinality(SentIds)
    BY <1>0, FS_CardinalityType DEF OneMonthEach
  <2>3. SentIds \subseteq Nat \cup {Never}
    BY UpdateFacts DEF SentIds, RequestRecords
  <2>4. /\ IsFiniteSet(SentIds') /\ Cardinality(SentIds') \in Nat
        /\ Cardinality(SentIds') >= Cardinality(SentIds)
        /\ id \notin SentIds => Cardinality(SentIds') = Cardinality(SentIds) + 1
    <3>1. /\ IsFiniteSet(SentIds \cup {id})
          /\ Cardinality(SentIds \cup {id}) = IF id \in SentIds THEN Cardinality(SentIds)
                                             ELSE Cardinality(SentIds) + 1
      BY <2>2, FS_AddElement
    <3>. QED BY <2>1, <2>2, <3>1
  <2>5. id \in SentIds \/ id = Never \/ id = NextId
    BY <1>0, <1>1 DEF OneMonthEach
  <2>6. \A m \in SentIds' \ {Never} : m <= Cardinality(SentIds')
    <3>1. SUFFICES ASSUME NEW m \in SentIds' \ {Never} PROVE m <= Cardinality(SentIds')
      OBVIOUS
    <3>2. CASE m \in SentIds
      BY <2>2, <2>3, <2>4, <3>1, <3>2
    <3>3. CASE m \notin SentIds
      <4>1. m = id /\ id = NextId
        BY <2>1, <2>5, <3>1, <3>3
      <4>. QED BY <2>2, <2>4, <3>3, <4>1 DEF NextId
    <3>. QED BY <3>2, <3>3
  <2>7. ASSUME NEW i \in DOMAIN sent, sent[i].id = id, id # Never
        PROVE  sent[i].month = ThisMonth
    <3>1. id \in SentIds
      BY <2>7 DEF SentIds
    <3>2. id # NextId
      BY <2>2, <2>7, <3>1 DEF NextId
    <3>. QED BY <1>0, <1>1, <2>7, <3>2 DEF OneMonthEach
  <2>8. ASSUME NEW i \in DOMAIN sent', sent'[i].id = id, id # Never
        PROVE  sent'[i].month = ThisMonth
    BY <1>1, <1>2, <2>7, <2>8
  <2>9. ASSUME monthId' # Never
        PROVE  /\ monthId'.id \in SentIds'
               /\ \A i \in DOMAIN sent' : sent'[i].id = monthId'.id => sent'[i].month = monthId'.month
    <3>1. CASE id # Never
      <4>1. monthId'.id = id /\ monthId'.month = ThisMonth
        BY <1>1, <3>1
      <4>. QED BY <2>1, <2>8, <3>1, <4>1
    <3>2. CASE id = Never
      <4>1. monthId' = monthId /\ monthId # Never /\ monthId.id \in SentIds /\ monthId.id # Never
        BY <1>0, <1>1, <2>9, <3>2 DEF OneMonthEach, UpdatePieces
      <4>2. ASSUME NEW i \in DOMAIN sent', sent'[i].id = monthId.id PROVE i \in DOMAIN sent
        BY <1>1, <1>2, <3>2, <4>1, <4>2
      <4>. QED BY <1>0, <1>2, <2>1, <4>1, <4>2 DEF OneMonthEach
    <3>. QED BY <3>1, <3>2
  <2>10. ASSUME NEW i \in DOMAIN sent', NEW j \in DOMAIN sent', sent'[i].id = sent'[j].id, sent'[i].id # Never
         PROVE  sent'[i].month = sent'[j].month
    <3>1. CASE sent'[i].id = id
      <4>1. sent'[i].month = ThisMonth /\ sent'[j].month = ThisMonth
        BY <2>8, <2>10, <3>1
      <4>. QED BY <4>1
    <3>2. CASE sent'[i].id # id
      <4>1. i \in DOMAIN sent /\ j \in DOMAIN sent
        BY <1>1, <1>2, <2>10, <3>2
      <4>. QED BY <1>0, <1>2, <2>10, <4>1 DEF OneMonthEach
    <3>. QED BY <3>1, <3>2
  <2>. QED BY <2>4, <2>6, <2>9, <2>10 DEF OneMonthEach
<1>. QED BY <1>7, <1>8, <1>10, <1>11, <1>12 DEF UpdInv

(* The outcome of a request is kept, or lost.                               *)
LEMMA KeepStep == ASSUME UpdInv, NEW h \in Hqs, Keep(h) PROVE UpdInv'
<1>. DEFINE n == Len(sent)
<1>0. /\ hq \in [Hqs -> RunRecords] /\ hq[h] \in RunRecords /\ n \in Nat /\ DOMAIN sent = 1 .. n
      /\ UpdatePieces /\ OneAtATime /\ RecordOfLast /\ AskedFor /\ OneMonthEach
  BY UpdateFacts DEF UpdInv
<1>1. /\ n > 0 /\ sent[n].by = h /\ ~sent[n].kept
      /\ \/ UNCHANGED << cached, sent >>
         \/ /\ cached' \in CacheRecords /\ cached' # Never
            /\ cached'.at = sent[n].at
            /\ sent' = [sent EXCEPT ![n].kept = TRUE]
      /\ UNCHANGED << time, monthId, turn, asker >>
  BY KeepMarks
<1>2. PICK r \in RunRecords : hq' = [hq EXCEPT ![h] = r] /\ r.at = "answer" /\ r.force = hq[h].force
  BY KeepMarks
<1>3. ASSUME NEW e \in Hqs PROVE hq'[e] = IF e = h THEN r ELSE hq[e]
  BY <1>0, <1>2
<1>4. hq[h].at = "keeping" /\ turn = h
  BY <1>0 DEF Keep, OneAtATime, Locked
<1>5. /\ sent' \in Seq(RequestRecords) /\ Len(sent') = n /\ DOMAIN sent' = DOMAIN sent
      /\ \A i \in DOMAIN sent :
           /\ sent'[i].at = sent[i].at /\ sent'[i].month = sent[i].month
           /\ sent'[i].id = sent[i].id /\ sent'[i].force = sent[i].force
           /\ sent'[i].by = sent[i].by /\ (i # n => sent'[i].kept = sent[i].kept)
  <2>1. CASE UNCHANGED << cached, sent >>
    BY <1>0, <2>1 DEF UpdatePieces
  <2>2. CASE sent' = [sent EXCEPT ![n].kept = TRUE]
    BY <1>1, <2>2, OneMarked
  <2>. QED BY <1>1, <2>1, <2>2
<1>. HIDE DEF n
<1>6. UpdatePieces'
  <2>1. hq' \in [Hqs -> RunRecords]
    BY <1>0, <1>2
  <2>2. cached' \in {Never} \cup CacheRecords
    BY <1>0, <1>1 DEF UpdatePieces
  <2>. QED BY <1>0, <1>1, <1>5, <2>1, <2>2 DEF UpdatePieces
<1>7. OneAtATime'
  <2>. SUFFICES ASSUME NEW e \in Hqs
                PROVE  /\ hq'[e].at \in Locked <=> turn' = e
                       /\ hq'[e].at \in {"fetching", "keeping"} =>
                            Len(sent') > 0 /\ sent'[Len(sent')].by = e /\ ~sent'[Len(sent')].kept
                       /\ hq'[e].at \in {"fetching", "keeping", "answer"} /\ hq'[e].force =>
                            \E i \in DOMAIN sent' : sent'[i].by = e /\ sent'[i].force
    BY DEF OneAtATime
  <2>1. CASE e = h
    <3>1. hq'[e] = r
      BY <1>3, <2>1
    <3>2. hq[h].force => \E i \in DOMAIN sent : sent[i].by = h /\ sent[i].force
      BY <1>0, <1>4 DEF OneAtATime
    <3>3. hq[h].force => \E i \in DOMAIN sent' : sent'[i].by = h /\ sent'[i].force
      BY <1>5, <3>2
    <3>. QED BY <1>1, <1>2, <1>4, <2>1, <3>1, <3>3 DEF Locked
  <2>2. CASE e # h
    <3>1. hq'[e] = hq[e] /\ hq[e].at \notin Locked
      BY <1>0, <1>3, <1>4, <2>2 DEF OneAtATime
    <3>. QED BY <1>1, <1>4, <2>2, <3>1 DEF Locked
  <2>. QED BY <2>1, <2>2
<1>8. RecordOfLast'
  <2>1. ASSUME NEW e \in Hqs PROVE hq'[e].at # "headers"
    <3>1. CASE e = h
      BY <1>2, <1>3, <3>1
    <3>2. CASE e # h
      BY <1>0, <1>3, <1>4, <3>2 DEF OneAtATime, Locked
    <3>. QED BY <3>1, <3>2
  <2>2. ASSUME NEW i \in DOMAIN sent, NEW k \in DOMAIN sent, LastKept(k, i)' PROVE LastKept(k, i)
    <3>1. k < i /\ sent'[k].kept /\ \A j \in DOMAIN sent : k < j /\ j < i => ~sent'[j].kept
      BY <1>5, <2>2 DEF LastKept
    <3>2. k # n /\ \A j \in DOMAIN sent : j < i => j # n
      BY <1>0, <3>1
    <3>3. sent[k].kept /\ \A j \in DOMAIN sent : k < j /\ j < i => ~sent[j].kept
      BY <1>5, <3>1, <3>2
    <3>. QED BY <3>1, <3>3 DEF LastKept
  <2>3. ASSUME NEW i \in DOMAIN sent', NEW k \in DOMAIN sent', ~sent'[i].force, LastKept(k, i)'
        PROVE  ~Within(sent'[i].at, sent'[k].at)
    <3>1. LastKept(k, i) /\ ~sent[i].force /\ i \in DOMAIN sent /\ k \in DOMAIN sent
      BY <1>5, <2>2, <2>3
    <3>2. ~Within(sent[i].at, sent[k].at)
      BY <1>0, <3>1 DEF RecordOfLast
    <3>. QED BY <1>5, <3>1, <3>2
  <2>4. ASSUME NEW k \in DOMAIN sent', LastKept(k, Len(sent) + 1)'
        PROVE  cached' # Never /\ cached'.at = sent'[k].at
    <3>1. k \in DOMAIN sent /\ k < n + 1 /\ sent'[k].kept
          /\ \A j \in DOMAIN sent : k < j /\ j < n + 1 => ~sent'[j].kept
      BY <1>5, <2>4 DEF LastKept
    <3>2. CASE UNCHANGED << cached, sent >>
      <4>1. LastKept(k, n + 1)
        BY <3>1, <3>2 DEF LastKept
      <4>. QED BY <1>0, <3>1, <3>2, <4>1 DEF RecordOfLast, n
    <3>3. CASE cached' # Never /\ cached'.at = sent[n].at /\ sent' = [sent EXCEPT ![n].kept = TRUE]
      <4>1. sent'[n].kept
        BY <1>1, <3>3, OneMarked DEF n
      <4>2. k = n
        BY <1>0, <1>1, <3>1, <4>1
      <4>. QED BY <1>5, <3>1, <3>3, <4>2
    <3>. QED BY <1>1, <3>2, <3>3
  <2>. QED BY <2>1, <2>3, <2>4 DEF RecordOfLast, Within
<1>9. AskedFor'
  <2>1. ASSUME NEW c \in Askers
        PROVE  /\ hq[HqOf[c]].at \notin {"none", "dead"} => hq'[HqOf[c]].at \notin {"none", "dead"}
               /\ hq'[HqOf[c]].force = hq[HqOf[c]].force
    BY <1>2, <1>3, UpdateFacts
  <2>. QED BY <1>0, <1>1, <1>5, <2>1 DEF AskedFor
<1>10. OneMonthEach'
  <2>1. SentIds' = SentIds
    BY <1>5 DEF SentIds
  <2>. QED BY <1>0, <1>1, <1>5, <2>1 DEF OneMonthEach
<1>. QED BY <1>6, <1>7, <1>8, <1>9, <1>10 DEF UpdInv

(* A run ends: everyone who waited for it has an answer, or its process is  *)
(* gone.                                                                   *)
LEMMA EndStep ==
  ASSUME UpdInv, NEW h \in Hqs, AskerAnswered(h) \/ HqDies(h)
  PROVE  UpdInv'
<1>0. /\ hq \in [Hqs -> RunRecords] /\ hq[h] \in RunRecords
      /\ asker \in [Askers -> AskRecords] /\ HqOf \in [Askers -> Hqs] /\ Never \notin Hqs
      /\ UpdatePieces /\ OneAtATime /\ RecordOfLast /\ AskedFor /\ OneMonthEach
  BY UpdateFacts DEF UpdInv
<1>1. hq[h].at \in {"answer", "fetching", "keeping"} /\ turn = h /\ turn' = Never
      /\ UNCHANGED << time, cached, monthId, sent >>
  BY <1>0 DEF AskerAnswered, HqDies, OneAtATime, Locked
<1>2. PICK r \in RunRecords : hq' = [hq EXCEPT ![h] = r] /\ r.at \in {"none", "dead"}
  <2>1. CASE AskerAnswered(h)
    <3>1. NoRun \in RunRecords /\ NoRun.at = "none"
      BY UpdateAssumption DEF NoRun, RunRecords, RunAt, Offers
    <3>. QED BY <2>1, <3>1 DEF AskerAnswered
  <2>2. CASE HqDies(h)
    <3>. DEFINE r == [hq[h] EXCEPT !.at = "dead"]
    <3>1. hq' = [hq EXCEPT ![h] = r] /\ r \in RunRecords /\ r.at = "dead"
      BY <1>0, <2>2 DEF HqDies, HqTo, RunRecords, RunAt
    <3>. HIDE DEF r
    <3>. QED BY <3>1
  <2>. QED BY <2>1, <2>2
<1>3. ASSUME NEW e \in Hqs PROVE hq'[e] = IF e = h THEN r ELSE hq[e]
  BY <1>0, <1>2
<1>4. ASSUME NEW c \in Askers
      PROVE  /\ HqOf[c] = h /\ asker[c].at = "waiting" =>
                  /\ asker'[c].at = "done" /\ asker'[c].own = asker[c].own
                  /\ asker'[c].force = asker[c].force
                  /\ asker'[c].result = asker[c].result \/ hq[h].at = "answer"
             /\ ~(HqOf[c] = h /\ asker[c].at = "waiting") => asker'[c] = asker[c]
             /\ asker'[c] \in AskRecords
  <2>0. asker[c] \in AskRecords /\ hq[h].offer \in Offers
    BY <1>0 DEF RunRecords
  <2>1. CASE AskerAnswered(h)
    <3>1. ResultOf(c, hq[h].offer) \in Offers \cup {"failed", "silent"}
      BY <2>0 DEF ResultOf
    <3>2. asker'[c] = IF HqOf[c] = h /\ asker[c].at = "waiting"
         THEN [asker[c] EXCEPT !.at = "done", !.result = ResultOf(c, hq[h].offer)]
         ELSE asker[c]
      BY <2>1 DEF AskerAnswered
    <3>3. hq[h].at = "answer"
      BY <2>1 DEF AskerAnswered
    <3>. QED BY <2>0, <3>1, <3>2, <3>3 DEF AskRecords
  <2>2. CASE HqDies(h)
    <3>1. asker'[c] = IF HqOf[c] = h /\ asker[c].at = "waiting"
                        THEN [asker[c] EXCEPT !.at = "done"] ELSE asker[c]
      BY <2>2 DEF HqDies
    <3>. QED BY <2>0, <3>1 DEF AskRecords
  <2>. QED BY <2>1, <2>2
<1>5. UpdatePieces'
  <2>1. hq' \in [Hqs -> RunRecords]
    BY <1>0, <1>2
  <2>2. asker' = [c \in Askers |-> asker'[c]]
    BY DEF AskerAnswered, HqDies
  <2>3. asker' \in [Askers -> AskRecords]
    BY <1>4, <2>2
  <2>. QED BY <1>0, <1>1, <2>1, <2>3 DEF UpdatePieces
<1>6. OneAtATime'
  <2>. SUFFICES ASSUME NEW e \in Hqs
                PROVE  /\ hq'[e].at \in Locked <=> turn' = e
                       /\ hq'[e].at \in {"fetching", "keeping"} =>
                            Len(sent) > 0 /\ sent[Len(sent)].by = e /\ ~sent[Len(sent)].kept
                       /\ hq'[e].at \in {"fetching", "keeping", "answer"} /\ hq'[e].force =>
                            \E i \in DOMAIN sent : sent[i].by = e /\ sent[i].force
    BY <1>1 DEF OneAtATime
  <2>1. hq'[e].at \notin Locked
    BY <1>0, <1>1, <1>2, <1>3 DEF OneAtATime, Locked
  <2>. QED BY <1>0, <1>1, <2>1 DEF Locked
<1>7. RecordOfLast'
  <2>1. \A e \in Hqs : hq'[e].at = "headers" => hq'[e] = hq[e]
    BY <1>2, <1>3
  <2>. QED BY <1>0, <1>1, <2>1 DEF RecordOfLast, LastKept, Within
<1>8. AskedFor'
  <2>. SUFFICES ASSUME NEW d \in Askers
                PROVE  /\ asker'[d].at = "idle" => ~asker'[d].own /\ asker'[d].result = "none"
                       /\ asker'[d].at = "waiting" => asker'[d].result = "none"
                       /\ asker'[d].at = "waiting" /\ asker'[d].own =>
                            /\ hq'[HqOf[d]].at \notin {"none", "dead"}
                            /\ asker'[d].force => hq'[HqOf[d]].force
                       /\ asker'[d].own /\ asker'[d].force /\ asker'[d].result # "none" =>
                            \E i \in DOMAIN sent : sent[i].by = HqOf[d] /\ sent[i].force
    BY <1>1 DEF AskedFor
  <2>1. CASE HqOf[d] = h /\ asker[d].at = "waiting"
    <3>1. asker[d].own /\ asker[d].force /\ hq[h].at = "answer" =>
            \E i \in DOMAIN sent : sent[i].by = h /\ sent[i].force
      BY <1>0, <2>1 DEF AskedFor, OneAtATime
    <3>2. asker[d].result = "none"
      BY <1>0, <2>1 DEF AskedFor
    <3>. QED BY <1>4, <2>1, <3>1, <3>2
  <2>2. CASE ~(HqOf[d] = h /\ asker[d].at = "waiting")
    <3>1. asker'[d] = asker[d] /\ (HqOf[d] # h => hq'[HqOf[d]] = hq[HqOf[d]])
      BY <1>0, <1>3, <1>4, <2>2
    <3>. QED BY <1>0, <2>2, <3>1 DEF AskedFor
  <2>. QED BY <2>1, <2>2
<1>9. OneMonthEach'
  BY <1>0, <1>1 DEF OneMonthEach, SentIds
<1>. QED BY <1>5, <1>6, <1>7, <1>8, <1>9 DEF UpdInv

(* Every step of the processes, the calls and the clock.                    *)
LEMMA UpdSteps == UpdInv /\ [UNext]_uVars => UpdInv'
<1>. SUFFICES ASSUME UpdInv, [UNext]_uVars PROVE UpdInv'
  OBVIOUS
<1>1. ASSUME Clock \/ UNCHANGED uVars PROVE UpdInv'
  <2>1. UNCHANGED << cached, monthId, turn, hq, asker, sent >>
    BY <1>1 DEF Clock, uVars
  <2>2. time' \in 0 .. LastTime
    BY <1>1, UpdateAssumption DEF Clock, uVars, UpdInv, UpdatePieces
  <2>3. UpdatePieces' /\ OneAtATime'
    BY <2>1, <2>2 DEF UpdInv, UpdatePieces, OneAtATime
  <2>4. RecordOfLast' /\ AskedFor' /\ OneMonthEach'
    BY <2>1 DEF UpdInv, RecordOfLast, AskedFor, OneMonthEach, LastKept, Within, SentIds
  <2>. QED BY <2>3, <2>4 DEF UpdInv
<1>. QED BY <1>1, AskStep, RunSteps, FetchStep, KeepStep, EndStep DEF UNext

(* Automatic checks for updates are throttled, failed ones too, whichever   *)
(* process sends them; one who asks gets the answer of a request; an id     *)
(* belongs to one month (update/desktop.ts:109).                            *)
THEOREM UpdatesThrottledHolds == USpec => []UpdatesThrottled
<1>1. UpdInv => UpdatesThrottled
  <2>. SUFFICES ASSUME UpdInv PROVE UpdatesThrottled
    OBVIOUS
  <2>1. RecordOfLast /\ AskedFor /\ OneMonthEach
    BY DEF UpdInv
  <2>2. ASSUME NEW i \in DOMAIN sent, ~sent[i].force, NEW k \in {KeptBefore(i)} \ {0}
        PROVE  ~(sent[i].at >= sent[k].at /\ sent[i].at - sent[k].at < Interval)
    <3>1. LastKept(k, i) /\ k \in DOMAIN sent
      BY <2>2, KeptBeforeIs DEF LastKept
    <3>. QED BY <2>1, <2>2, <3>1 DEF RecordOfLast, Within
  <2>. QED BY <2>1, <2>2 DEF AskedFor, OneMonthEach, UpdatesThrottled
<1>. QED BY <1>1, UpdStarts, UpdSteps, PTL DEF USpec

(* Nobody has asked yet.                                                   *)
LEMMA CountStarts == UInit => RequestsCounted
<1>. SUFFICES ASSUME UInit PROVE RequestsCounted
  OBVIOUS
<1>1. AboutToSend = {} /\ sent = << >> /\ turn = Never
  BY DEF UInit, AboutToSend, NoRun
<1>2. /\ IsFiniteSet(AboutToSend) /\ Cardinality(AboutToSend) = 0 /\ Len(sent) = 0
      /\ Cardinality(NotAsked) \in Nat /\ Cardinality(NotAsked) <= Cardinality(Askers)
  BY <1>1, UpdateAssumption, FS_EmptySet, FS_Subset, FS_CardinalityType, EmptySeq DEF NotAsked
<1>. QED BY <1>1, <1>2 DEF RequestsCounted

(* Where none is sent and no call asks, no run may be on its way to one.    *)
LEMMA NoneSent ==
  ASSUME RequestsCounted, Len(sent) \in Nat, Len(sent') = Len(sent),
         turn' \in Hqs \cup {Never}, NotAsked' \subseteq NotAsked,
         AboutToSend' \subseteq AboutToSend
  PROVE  RequestsCounted'
<1>1. /\ IsFiniteSet(AboutToSend') /\ Cardinality(AboutToSend') \in Nat
      /\ Cardinality(AboutToSend) \in Nat /\ Cardinality(AboutToSend') <= Cardinality(AboutToSend)
  BY FS_Subset, FS_CardinalityType DEF RequestsCounted
<1>2. /\ Cardinality(NotAsked') \in Nat /\ Cardinality(NotAsked) \in Nat
      /\ Cardinality(NotAsked') <= Cardinality(NotAsked) /\ Cardinality(Askers) \in Nat
  <2>1. IsFiniteSet(NotAsked)
    BY UpdateAssumption, FS_Subset DEF NotAsked
  <2>. QED BY <2>1, UpdateAssumption, FS_Subset, FS_CardinalityType
<1>. QED BY <1>1, <1>2 DEF RequestsCounted

(* A call that asks may start one run; a run sends one request.             *)
LEMMA CountSteps == UpdInv /\ RequestsCounted /\ [UNext]_uVars => RequestsCounted'
<1>. SUFFICES ASSUME UpdInv, RequestsCounted, [UNext]_uVars PROVE RequestsCounted'
  OBVIOUS
<1>0. /\ Len(sent) \in Nat /\ hq \in [Hqs -> RunRecords] /\ asker \in [Askers -> AskRecords]
      /\ turn \in Hqs \cup {Never} /\ HqOf \in [Askers -> Hqs]
      /\ IsFiniteSet(AboutToSend) /\ IsFiniteSet(NotAsked)
      /\ Cardinality(AboutToSend) \in Nat /\ Cardinality(NotAsked) \in Nat
      /\ Cardinality(Askers) \in Nat
  <2>1. IsFiniteSet(AboutToSend) /\ IsFiniteSet(NotAsked)
    BY UpdateAssumption, FS_Subset DEF RequestsCounted, NotAsked
  <2>. QED BY <2>1, UpdateFacts, UpdateAssumption, FS_CardinalityType DEF RequestsCounted
<1>1. ASSUME NEW c \in Askers, AskUpdate(c) PROVE RequestsCounted'
  <2>. DEFINE h == HqOf[c]
  <2>1. h \in Hqs /\ c \in NotAsked /\ UNCHANGED <<turn, sent>>
    BY <1>0, <1>1 DEF AskUpdate, NotAsked
  <2>2. NotAsked' = NotAsked \ {c}
    BY <1>0, <1>1 DEF AskUpdate, NotAsked, AskRecords
  <2>3. AboutToSend' = AboutToSend \/ AboutToSend' = AboutToSend \cup {h}
    <3>1. CASE hq[h].at = "none"
      <4>1. hq' = [hq EXCEPT ![h] = [NoRun EXCEPT !.at = "locking", !.force = asker[c].force]]
        BY <1>1, <3>1 DEF AskUpdate
      <4>2. \A g \in Hqs : hq'[g].at = IF g = h THEN "locking" ELSE hq[g].at
        BY <1>0, <4>1 DEF NoRun
      <4>. QED BY <2>1, <4>2 DEF AboutToSend
    <3>2. CASE hq[h].at # "none"
      BY <1>1, <3>2 DEF AskUpdate, AboutToSend
    <3>. QED BY <3>1, <3>2
  <2>4. Cardinality(NotAsked') = Cardinality(NotAsked) - 1
    BY <1>0, <2>1, <2>2, FS_RemoveElement
  <2>5. /\ IsFiniteSet(AboutToSend') /\ Cardinality(AboutToSend') \in Nat
        /\ Cardinality(AboutToSend') <= Cardinality(AboutToSend) + 1
    <3>. DEFINE more == AboutToSend \cup {h}
    <3>1. /\ IsFiniteSet(more)
          /\ Cardinality(more) = IF h \in AboutToSend THEN Cardinality(AboutToSend)
                                 ELSE Cardinality(AboutToSend) + 1
      BY <1>0, FS_AddElement
    <3>2. AboutToSend' = AboutToSend \/ AboutToSend' = more
      BY <2>3
    <3>. HIDE DEF more, h
    <3>3. Cardinality(more) <= Cardinality(AboutToSend) + 1
      BY <1>0, <3>1
    <3>4. IsFiniteSet(AboutToSend') /\ Cardinality(AboutToSend') <= Cardinality(AboutToSend) + 1
      <4>1. CASE AboutToSend' = AboutToSend
        BY <1>0, <4>1
      <4>2. CASE AboutToSend' = more
        BY <3>1, <3>3, <4>2
      <4>. QED BY <3>2, <4>1, <4>2
    <3>. QED BY <3>4, FS_CardinalityType
  <2>. QED BY <1>0, <2>1, <2>4, <2>5 DEF RequestsCounted
<1>2. ASSUME NEW h \in Hqs, Fetch(h) PROVE RequestsCounted'
  <2>1. PICK q \in RequestRecords : sent' = Append(sent, q)
    BY <1>2, FetchSends
  <2>2. Len(sent') = Len(sent) + 1
    BY <2>1, OneMore
  <2>3. /\ hq[h].at = "headers" /\ hq' = [hq EXCEPT ![h].at = "fetching"]
        /\ UNCHANGED <<turn, asker>>
    BY <1>2 DEF Fetch, HqTo
  <2>4. \A g \in Hqs : hq'[g].at = IF g = h THEN "fetching" ELSE hq[g].at
    BY <1>0, <2>3 DEF RunRecords
  <2>5. h \in AboutToSend /\ AboutToSend' = AboutToSend \ {h} /\ NotAsked' = NotAsked
    BY <2>3, <2>4 DEF AboutToSend, NotAsked
  <2>6. IsFiniteSet(AboutToSend') /\ Cardinality(AboutToSend') = Cardinality(AboutToSend) - 1
    BY <1>0, <2>5, FS_RemoveElement
  <2>. QED BY <1>0, <2>2, <2>3, <2>5, <2>6 DEF RequestsCounted
<1>3. ASSUME NEW h \in Hqs, Keep(h) PROVE RequestsCounted'
  <2>1. Len(sent') = Len(sent) /\ UNCHANGED <<turn, asker>>
    BY <1>0, <1>3, KeepMarks, OneMarked
  <2>2. PICK r \in RunRecords : hq' = [hq EXCEPT ![h] = r] /\ r.at = "answer"
    BY <1>3, KeepMarks
  <2>3. AboutToSend' \subseteq AboutToSend /\ NotAsked' = NotAsked
    BY <1>0, <2>1, <2>2 DEF AboutToSend, NotAsked
  <2>. QED BY <1>0, <2>1, <2>3, NoneSent
<1>4. ASSUME NEW h \in Hqs, LockUpdates(h) \/ Cache(h) \/ Catalog(h) \/ HqDies(h)
      PROVE  RequestsCounted'
  <2>1. sent' = sent /\ turn' \in Hqs \cup {Never}
    BY <1>0, <1>4 DEF LockUpdates, Cache, Catalog, HqDies
  <2>2. AboutToSend' \subseteq AboutToSend
    <3>1. CASE LockUpdates(h)
      <4>1. hq[h].at = "locking" /\ hq' = [hq EXCEPT ![h].at = "cache"]
        BY <3>1 DEF LockUpdates, HqTo
      <4>. QED BY <1>0, <4>1 DEF RunRecords, AboutToSend
    <3>2. CASE Cache(h)
      <4>1. hq[h].at = "cache" /\ \A g \in Hqs \ {h} : hq'[g] = hq[g]
        BY <1>0, <3>2 DEF Cache
      <4>. QED BY <1>0, <4>1 DEF AboutToSend
    <3>3. CASE Catalog(h)
      <4>1. PICK o \in Offers : hq' = [hq EXCEPT ![h].at = "keeping", ![h].offer = o]
        BY <3>3 DEF Catalog
      <4>2. \A g \in Hqs : hq'[g].at = IF g = h THEN "keeping" ELSE hq[g].at
        BY <1>0, <4>1 DEF RunRecords
      <4>. QED BY <4>2 DEF AboutToSend
    <3>4. CASE HqDies(h)
      <4>1. hq' = [hq EXCEPT ![h].at = "dead"]
        BY <3>4 DEF HqDies, HqTo
      <4>2. \A g \in Hqs : hq'[g].at = IF g = h THEN "dead" ELSE hq[g].at
        BY <1>0, <4>1 DEF RunRecords
      <4>. QED BY <4>2 DEF AboutToSend
    <3>. QED BY <1>4, <3>1, <3>2, <3>3, <3>4
  <2>3. NotAsked' \subseteq NotAsked
    BY <1>0, <1>4 DEF LockUpdates, Cache, Catalog, HqDies, AskRecords, NotAsked
  <2>. QED BY <1>0, <2>1, <2>2, <2>3, NoneSent
<1>5. ASSUME NEW h \in Hqs, AskerAnswered(h) PROVE RequestsCounted'
  <2>1. sent' = sent /\ turn' = Never /\ hq' = [hq EXCEPT ![h] = NoRun]
    BY <1>5 DEF AskerAnswered
  <2>2. AboutToSend' \subseteq AboutToSend
    BY <1>0, <2>1 DEF AboutToSend, NoRun
  <2>3. NotAsked' \subseteq NotAsked
    BY <1>0, <1>5 DEF AskerAnswered, AskRecords, NotAsked
  <2>. QED BY <1>0, <2>1, <2>2, <2>3, NoneSent
<1>6. ASSUME Clock \/ UNCHANGED uVars PROVE RequestsCounted'
  <2>1. UNCHANGED <<turn, hq, asker, sent>>
    BY <1>6 DEF Clock, uVars
  <2>2. AboutToSend' = AboutToSend /\ NotAsked' = NotAsked
    BY <2>1 DEF AboutToSend, NotAsked
  <2>. QED BY <1>0, <2>1, <2>2, NoneSent
<1>. QED BY <1>1, <1>2, <1>3, <1>4, <1>5, <1>6 DEF UNext

(* The look for updates has its type, and as many requests as calls.        *)
LEMMA UpdatesTyped == UpdInv /\ RequestsCounted => UTypeOK
<1>. SUFFICES ASSUME UpdInv, RequestsCounted PROVE UTypeOK
  OBVIOUS
<1>1. /\ UpdatePieces /\ turn \in Hqs \cup {Never}
      /\ Len(sent) + Cardinality(AboutToSend) + Cardinality(NotAsked) <= Cardinality(Askers)
  BY DEF UpdInv, RequestsCounted
<1>2. /\ Len(sent) \in Nat /\ Cardinality(AboutToSend) \in Nat
      /\ Cardinality(NotAsked) \in Nat /\ Cardinality(Askers) \in Nat
  <2>1. IsFiniteSet(AboutToSend) /\ IsFiniteSet(NotAsked)
    BY UpdateAssumption, FS_Subset DEF RequestsCounted, NotAsked
  <2>. QED BY <2>1, UpdateFacts, UpdateAssumption, FS_CardinalityType
<1>3. Len(sent) <= Cardinality(Askers)
  BY <1>1, <1>2
<1>. QED BY <1>1, <1>3 DEF UpdatePieces, UTypeOK, CacheRecords, RunRecords, RunAt

-----------------------------------------------------------------------------
(* The buttons of the dashboard's pages.                                  *)

(* The notices a stream shows, and what every handler's row keeps to.       *)
Notices == {"ok", "warn", "neutral", "danger"}
GoodRow(r) == /\ r.before \in Nat /\ r.can \subseteq Outcomes
              /\ r.good \in {"ok", "warn", "neutral"}

(* A row is one whose notice of success is no "danger".                   *)
LEMMA RowIsGood ==
  ASSUME NEW name, NEW body, NEW before \in Nat, NEW can, can \subseteq Outcomes,
         NEW good \in {"ok", "warn", "neutral"}, NEW paint, NEW recover, NEW quiet
  PROVE  GoodRow(ActionRow(name, body, before, can, good, paint, recover, quiet))
BY DEF GoodRow, ActionRow

(* Every row of the table is one.                                         *)
LEMMA ActionsGood == \A r \in Actions : GoodRow(r)
<1>0. /\ Done \subseteq Outcomes /\ Told \subseteq Outcomes
      /\ Told \cup {"rejected"} \subseteq Outcomes
      /\ {"done", "failed", "throws"} \subseteq Outcomes
      /\ {"done", "failed", "unready", "throws"} \subseteq Outcomes
      /\ Done \cup {"unresolved"} \subseteq Outcomes
      /\ Done \cup {"verify"} \cup JobRead \subseteq Outcomes
  BY DEF Done, Told, JobRead, Outcomes
<1>1. \A r \in SiteProfiles : GoodRow(r)
  <2>1. \A name, body, paint, recover, quiet :
          /\ GoodRow(ActionRow(name, body, 0, Told, "ok", paint, recover, quiet))
          /\ GoodRow(ActionRow(name, body, 0, Told \cup {"rejected"}, "ok", paint, recover, quiet))
          /\ GoodRow(ActionRow(name, body, 1, {"done", "failed", "throws"}, "ok",
                               paint, recover, quiet))
          /\ GoodRow(ActionRow(name, body, 1, {"done", "failed", "throws"}, "neutral",
                               paint, recover, quiet))
    BY RowIsGood, <1>0
  <2>. QED BY <2>1 DEF SiteProfiles
<1>2. /\ \A r \in ConnectEnvironment : GoodRow(r)
      /\ \A r \in Setups : GoodRow(r)
      /\ \A r \in Tools : GoodRow(r)
  <2>1. \A r \in ConnectEnvironment : GoodRow(r)
    BY RowIsGood, <1>0 DEF ConnectEnvironment
  <2>2. \A r \in Setups \cup Tools : GoodRow(r)
    BY RowIsGood, <1>0 DEF Setups, Tools
  <2>. QED BY <2>1, <2>2
<1>3. \A r \in Pushes : GoodRow(r)
  BY RowIsGood, <1>0 DEF Pushes
<1>4. \A r \in Restores : GoodRow(r)
  BY RowIsGood, <1>0 DEF Restores
<1>5. \A r \in Licenses \cup ReadModes \cup Agents : GoodRow(r)
  BY RowIsGood, <1>0 DEF Licenses, ReadModes, Agents
<1>6. \A r \in Mcp \cup Acknowledge \cup Diagnostics : GoodRow(r)
  BY RowIsGood, <1>0 DEF Mcp, Acknowledge, Diagnostics
<1>7. \A r \in Inventory \cup Updates : GoodRow(r)
  BY RowIsGood, <1>0 DEF Inventory, Updates
<1>. QED
  BY <1>1, <1>2, <1>3, <1>4, <1>5, <1>6, <1>7 DEF Actions

(* The record of a press, field by field.                                  *)
LEMMA PressParts ==
  ASSUME PressInv
  PROVE  /\ press = [at |-> press.at, row |-> press.row, outcome |-> press.outcome,
                     left |-> press.left]
         /\ press.at \in {"body", "before", "service", "paint", "recover", "close",
                          "closed", "broken"}
         /\ press.row \in Actions /\ press.outcome \in Outcomes /\ press.left \in BOOLEAN
         /\ painted \in Seq(Notices) /\ GoodRow(press.row)
BY ActionsGood DEF PressInv, PressRecords, Notices

(* A press goes on: what its new record and notices must satisfy.          *)
LEMMA Pressed ==
  ASSUME PressInv, NEW at \in {"body", "before", "service", "paint", "recover", "close",
                               "closed", "broken"},
         NEW o \in Outcomes, NEW l \in BOOLEAN,
         press' = [press EXCEPT !.at = at, !.outcome = o, !.left = l]
  PROVE  /\ press' \in PressRecords /\ Row_' = Row_
         /\ press'.at = at /\ press'.outcome = o /\ press'.left = l
BY PressParts DEF PressInv, PressRecords, Row_

(* Showing a notice leaves the earlier ones as they are.                   *)
LEMMA Shown ==
  ASSUME PressInv, NEW n \in Notices, Show(n)
  PROVE  /\ painted' \in Seq(Notices)
         /\ press.left => painted' = painted
         /\ ~press.left => /\ Len(painted') = Len(painted) + 1 /\ painted' # << >>
                           /\ LastShown' = n
                           /\ \A i \in 1 .. Len(painted) : painted'[i] = painted[i]
<1>. /\ painted \in Seq(Notices) /\ press.left \in BOOLEAN
  BY PressParts
<1>1. CASE press.left
  BY <1>1 DEF Show
<1>2. CASE ~press.left
  <2>1. painted' = Append(painted, n)
    BY <1>2 DEF Show
  <2>. QED
    BY <1>2, <2>1, AppendProperties DEF LastShown
<1>. QED BY <1>1, <1>2

(* Every step of a press, of its client and of the page it paints.        *)
LEMMA PressSteps == PressInv /\ [BNext]_bVars => PressInv'
<1>. SUFFICES ASSUME PressInv, [BNext]_bVars PROVE PressInv'
  OBVIOUS
<1>. USE DEF Notices
<1>0. /\ PressInv
      /\ press.outcome \in Outcomes /\ press.left \in BOOLEAN
      /\ painted \in Seq(Notices) /\ GoodRow(Row_) /\ Len(painted) \in Nat
  BY PressParts, LenProperties DEF Row_
<1>. DEFINE Kept == /\ painted' = painted /\ Len(painted') = Len(painted)
<1>1. CASE Accepted
  <2>1. CASE At("before") /\ UNCHANGED viewLost /\ UNCHANGED painted
    <3>1. press' = [press EXCEPT !.at = "before", !.outcome = press.outcome, !.left = press.left]
      BY <2>1, PressParts DEF At
    <3>. QED
      <4>1. press' \in PressRecords /\ Row_' = Row_ /\ press'.at = "before"
        BY <1>0, <3>1, Pressed
      <4>2. OnlyNeutral'
        BY <1>0, <1>1, <2>1, <4>1 DEF Accepted, PressInv, OnlyNeutral, Underway
      <4>. QED BY <1>0, <2>1, <4>1, <4>2 DEF PressInv
  <2>2. CASE /\ press' = [press EXCEPT !.at = "recover", !.outcome = "refused"]
             /\ UNCHANGED << painted, viewLost >>
    <3>1. press' = [press EXCEPT !.at = "recover", !.outcome = "refused", !.left = press.left]
      BY <2>2, PressParts
    <3>2. "refused" \in Outcomes
      BY DEF Outcomes
    <3>. QED
      BY <1>0, <1>1, <2>2, <3>1, <3>2, Pressed DEF Accepted, PressInv, OnlyNeutral, Underway
  <2>. QED
    BY <1>1, <2>1, <2>2 DEF Accepted
<1>2. CASE Before
  <2>1. CASE At("service") /\ UNCHANGED << painted, viewLost >>
    <3>1. press' = [press EXCEPT !.at = "service", !.outcome = press.outcome, !.left = press.left]
      BY <2>1, PressParts DEF At
    <3>. QED
      BY <1>0, <1>2, <2>1, <3>1, Pressed DEF Before, PressInv, OnlyNeutral, Underway
  <2>2. CASE /\ Len(painted) < Row_.before /\ ~press.left
             /\ Show("neutral") /\ UNCHANGED << press, viewLost >>
    <3>1. /\ painted' \in Seq(Notices) /\ Len(painted') = Len(painted) + 1
          /\ \A i \in 1 .. Len(painted') : painted'[i] = "neutral"
      <4>1. \A i \in 1 .. Len(painted) : painted'[i] = "neutral"
        BY <1>0, <1>2, <2>2, Shown DEF Before, PressInv, OnlyNeutral, Underway
      <4>2. /\ painted' \in Seq(Notices) /\ Len(painted') = Len(painted) + 1
            /\ painted'[Len(painted')] = "neutral"
        BY <1>0, <2>2, Shown DEF LastShown
      <4>. QED BY <1>0, <4>1, <4>2
    <3>2. press' = press /\ Row_' = Row_ /\ Row_.before \in Nat
      BY <1>0, <2>2 DEF Row_, GoodRow
    <3>. QED
      BY <1>0, <1>2, <2>2, <3>1, <3>2 DEF Before, PressInv, OnlyNeutral, Underway
  <2>3. CASE /\ viewLost' = TRUE /\ UNCHANGED painted
             /\ press' = [press EXCEPT !.at = "recover", !.outcome = "throws"]
    <3>1. press' = [press EXCEPT !.at = "recover", !.outcome = "throws", !.left = press.left]
      BY <2>3, PressParts
    <3>2. "throws" \in Outcomes
      BY DEF Outcomes
    <3>. QED
      BY <1>0, <1>2, <2>3, <3>1, <3>2, Pressed DEF Before, PressInv, OnlyNeutral, Underway
  <2>4. Row_.before \in Nat
    BY <1>0 DEF GoodRow
  <2>5. CASE Len(painted) >= Row_.before \/ press.left
    BY <1>2, <2>1, <2>5 DEF Before
  <2>6. CASE ~(Len(painted) >= Row_.before \/ press.left)
    <3>1. Len(painted) < Row_.before /\ ~press.left
      BY <1>0, <2>4, <2>6
    <3>2. ~(Len(painted) >= Row_.before) /\ ~press.left
      BY <2>6
    <3>. QED
      BY <1>2, <2>2, <2>3, <3>1, <3>2, Zenon DEF Before
  <2>. QED BY <2>5, <2>6
<1>3. CASE Service
  <2>1. PICK o \in Row_.can :
          press' = [press EXCEPT !.outcome = o,
                                 !.at = IF o = "throws" THEN "recover" ELSE "paint"]
    BY <1>3 DEF Service
  <2>2. o \in Outcomes
    BY <1>0, <2>1 DEF GoodRow
  <2>3. CASE o = "throws"
    <3>1. press' = [press EXCEPT !.at = "recover", !.outcome = o, !.left = press.left]
      BY <2>1, <2>3, PressParts
    <3>. QED
      BY <1>0, <1>3, <2>2, <2>3, <3>1, Pressed DEF Service, PressInv, OnlyNeutral, Underway
  <2>4. CASE o # "throws"
    <3>1. press' = [press EXCEPT !.at = "paint", !.outcome = o, !.left = press.left]
      BY <2>1, <2>4, PressParts
    <3>. QED
      BY <1>0, <1>3, <2>2, <2>4, <3>1, Pressed DEF Service, PressInv, OnlyNeutral, Underway
  <2>. QED BY <2>3, <2>4
<1>4. CASE Paint
  <2>1. CASE /\ IF Quiet THEN UNCHANGED painted ELSE Show(NoticeOf(press.outcome))
             /\ At("close") /\ UNCHANGED viewLost
    <3>1. press' = [press EXCEPT !.at = "close", !.outcome = press.outcome, !.left = press.left]
      BY <2>1, PressParts DEF At
    <3>2. PICK n : n = NoticeOf(press.outcome)
      OBVIOUS
    <3>3. /\ n \in Notices
          /\ n = "ok" => press.outcome \in SaidOk
          /\ n = "danger" => press.outcome # "done"
          /\ press.outcome \in {"failed", "rejected", "refused", "throws"} => n = "danger"
      BY <1>0, <3>2 DEF NoticeOf, GoodRow, SaidOk, JobRead
    <3>4. OnlyNeutral /\ (Quiet => press.left)
      BY <1>4 DEF Paint, PressInv, Underway, Quiet
    <3>5. \/ painted' = painted /\ press.left
          \/ /\ painted' \in Seq(Notices) /\ Len(painted') = Len(painted) + 1
             /\ painted' # << >> /\ LastShown' = n
      BY <1>0, <2>1, <3>2, <3>3, <3>4, Shown
    <3>7. Row_' = Row_ /\ Row_.before \in Nat /\ Len(painted) <= Row_.before
      <4>1. Row_' = Row_
        BY <1>0, <3>1, Pressed
      <4>. QED BY <1>0, <4>1, <3>4 DEF OnlyNeutral, GoodRow
    <3>8. Len(painted') = Len(painted) \/ Len(painted') = Len(painted) + 1
      BY <3>5
    <3>9. Len(painted') <= Row_'.before + 1 /\ Row_' = Row_
      <4>1. \A b \in Nat : Len(painted) <= b => Len(painted') <= b + 1
        BY <1>0, <3>8
      <4>. QED BY <3>7, <4>1
    <3>6. LastWord'
      <4>1. CASE painted' = painted /\ press.left
        <5>1. painted' # << >> => LastShown' = "neutral"
          BY <1>0, <3>4, <4>1, EmptySeq DEF OnlyNeutral, LastShown
        <5>. QED
          BY <1>0, <3>1, <3>4, <4>1, <5>1, Pressed, <3>9 DEF LastWord
      <4>2. CASE /\ Len(painted') = Len(painted) + 1
                 /\ painted' # << >> /\ LastShown' = n
        BY <1>0, <3>1, <3>3, <3>9, <4>2, Pressed DEF LastWord
      <4>. QED BY <3>5, <4>1, <4>2
    <3>. QED
      BY <1>0, <3>1, <3>5, <3>6, Pressed DEF PressInv, Underway
  <2>2. CASE /\ PageReads /\ ~Quiet /\ viewLost' = TRUE
             /\ At(IF Row_.recover = "inside" THEN "broken" ELSE "recover")
             /\ UNCHANGED painted
    <3>1. PICK at \in {"broken", "recover"} : At(at)
      BY <2>2
    <3>2. press' = [press EXCEPT !.at = at, !.outcome = press.outcome, !.left = press.left]
      BY <3>1, PressParts DEF At
    <3>. QED
      BY <1>0, <1>4, <2>2, <3>1, <3>2, Pressed DEF Paint, PressInv, OnlyNeutral, Underway
  <2>. QED
    BY <1>4, <2>1, <2>2 DEF Paint
<1>5. CASE RecoverPress
  <2>0. OnlyNeutral /\ (Quiet => press.left)
        /\ (press.outcome = "done" => viewLost)
    BY <1>5 DEF RecoverPress, PressInv, Underway, Quiet
  <2>1. CASE /\ Show("danger") /\ At("close")
             /\ viewLost' = viewLost \/ viewLost' = TRUE
    <3>1. press' = [press EXCEPT !.at = "close", !.outcome = press.outcome, !.left = press.left]
      BY <2>1, PressParts DEF At
    <3>2. \/ painted' = painted /\ press.left
          \/ /\ painted' \in Seq(Notices) /\ Len(painted') = Len(painted) + 1
             /\ painted' # << >> /\ LastShown' = "danger"
      BY <1>0, <2>1, Shown
    <3>7. Row_' = Row_ /\ Row_.before \in Nat /\ Len(painted) <= Row_.before
      <4>1. Row_' = Row_
        BY <1>0, <3>1, Pressed
      <4>. QED BY <1>0, <4>1, <2>0 DEF OnlyNeutral, GoodRow
    <3>8. Len(painted') = Len(painted) \/ Len(painted') = Len(painted) + 1
      BY <3>2
    <3>9. Len(painted') <= Row_'.before + 1 /\ Row_' = Row_
      <4>1. \A b \in Nat : Len(painted) <= b => Len(painted') <= b + 1
        BY <1>0, <3>8
      <4>. QED BY <3>7, <4>1
    <3>3. LastWord'
      <4>1. CASE painted' = painted /\ press.left
        <5>1. painted' # << >> => LastShown' = "neutral"
          BY <1>0, <2>0, <4>1, EmptySeq DEF OnlyNeutral, LastShown
        <5>. QED
          BY <1>0, <3>1, <2>0, <4>1, <5>1, Pressed, <3>9 DEF LastWord
      <4>2. CASE /\ Len(painted') = Len(painted) + 1
                 /\ painted' # << >> /\ LastShown' = "danger"
        <5>1. press'.outcome = press.outcome
          BY <3>1, <1>0, Pressed
        <5>2. press.outcome = "done" => viewLost'
          <6>1. CASE viewLost' = viewLost
            BY <2>0, <6>1
          <6>2. CASE viewLost' = TRUE
            BY <6>2
          <6>. QED BY <2>1, <6>1, <6>2
        <5>. QED
          BY <3>9, <4>2, <5>1, <5>2 DEF LastWord
      <4>. QED BY <3>2, <4>1, <4>2
    <3>. QED
      BY <1>0, <3>1, <3>2, <3>3, Pressed DEF PressInv, Underway
  <2>2. CASE /\ UNCHANGED painted /\ At("close") /\ UNCHANGED viewLost
             /\ Row_.recover = "silence" \/ press.left
    <3>1. press' = [press EXCEPT !.at = "close", !.outcome = press.outcome, !.left = press.left]
      BY <2>2, PressParts DEF At
    <3>2. painted' # << >> => LastShown' = "neutral"
      BY <1>0, <2>0, <2>2, EmptySeq DEF OnlyNeutral, LastShown
    <3>7. Row_' = Row_ /\ Row_.before \in Nat /\ Len(painted) <= Row_.before
      <4>1. Row_' = Row_
        BY <1>0, <3>1, Pressed
      <4>. QED BY <1>0, <4>1, <2>0 DEF OnlyNeutral, GoodRow
    <3>8. Len(painted') = Len(painted) \/ Len(painted') = Len(painted) + 1
      BY <2>2
    <3>9. Len(painted') <= Row_'.before + 1 /\ Row_' = Row_
      <4>1. \A b \in Nat : Len(painted) <= b => Len(painted') <= b + 1
        BY <1>0, <3>8
      <4>. QED BY <3>7, <4>1
    <3>3. Len(painted') <= Row_'.before + 1 /\ Row_' = Row_ /\ painted' \in Seq(Notices)
      BY <1>0, <2>2, <3>9
    <3>4. LastWord'
      BY <1>0, <2>0, <2>2, <3>1, <3>2, <3>3, Pressed DEF LastWord
    <3>. QED
      <4>1. press' \in PressRecords /\ press'.at = "close"
        BY <1>0, <3>1, Pressed
      <4>. QED BY <3>3, <3>4, <4>1 DEF PressInv, Underway
  <2>3. CASE viewLost' = TRUE /\ At("broken") /\ UNCHANGED painted
    <3>1. press' = [press EXCEPT !.at = "broken", !.outcome = press.outcome, !.left = press.left]
      BY <2>3, PressParts DEF At
    <3>. QED
      BY <1>0, <2>0, <2>3, <3>1, Pressed DEF PressInv, OnlyNeutral, Underway
  <2>. QED
    BY <1>0, <1>5, <2>0, <2>1, <2>2, <2>3 DEF RecoverPress
<1>6. CASE Close
  <2>1. press' = [press EXCEPT !.at = "closed", !.outcome = press.outcome, !.left = press.left]
    BY <1>6, PressParts DEF At, Close
  <2>. QED
    BY <1>0, <1>6, <2>1, Pressed DEF Close, PressInv, LastWord, LastShown, Underway
<1>7. CASE GoAway
  <2>1. press' = [press EXCEPT !.at = press.at, !.outcome = press.outcome, !.left = TRUE]
    BY <1>7, PressParts DEF GoAway
  <2>2. /\ press' \in PressRecords /\ Row_' = Row_ /\ press'.at = press.at
        /\ press'.outcome = press.outcome /\ press'.left = TRUE
    BY <2>1, PressParts, Pressed
  <2>3. /\ painted' = painted /\ viewLost' = viewLost /\ LastShown' = LastShown
    BY <1>7 DEF GoAway, LastShown
  <2>4. LastWord => LastWord'
    BY <2>2, <2>3, Zenon DEF LastWord
  <2>5. OnlyNeutral => OnlyNeutral'
    BY <2>2, <2>3, Zenon DEF OnlyNeutral
  <2>. QED
    BY <1>0, <2>2, <2>3, <2>4, <2>5 DEF PressInv
<1>8. CASE UNCHANGED bVars
  BY <1>8 DEF bVars, PressInv, PressRecords, OnlyNeutral, LastWord, LastShown, Row_, Underway
<1>. QED
  BY <1>1, <1>2, <1>3, <1>4, <1>5, <1>6, <1>7, <1>8 DEF BNext

(* A press starts with a notice to show and none shown.                    *)
LEMMA PressStarts == BInit => PressInv
<1>. SUFFICES ASSUME BInit PROVE PressInv
  OBVIOUS
<1>1. PICK r \in Actions : press = FirstPress(r)
  BY DEF BInit
<1>2. GoodRow(r) /\ painted = << >> /\ Len(painted) = 0
  BY ActionsGood DEF BInit
<1>. QED
  BY <1>1, <1>2, EmptySeq DEF FirstPress, PressInv, PressRecords, Outcomes, OnlyNeutral, Row_,
     Underway, GoodRow

(* Whatever handler a button has, and wherever its client leaves or the    *)
(* page is lost: the last notice is "ok" only of what was done or of a     *)
(* push whose job was read, and who stays gets the outcome as last word.   *)
THEOREM PressesAnsweredHolds == BSpec => []PressesAnswered
<1>1. BInit => PressInv
  BY PressStarts
<1>2. PressInv => PressesAnswered
  <2>. SUFFICES ASSUME PressInv PROVE PressesAnswered
    OBVIOUS
  <2>0. painted \in Seq(Notices) /\ GoodRow(Row_)
    BY PressParts DEF Row_
  <2>1. CASE press.at = "closed"
    BY <2>1 DEF PressInv, PressesAnswered, LastWord
  <2>2. CASE press.at = "broken"
    <3>1. painted # << >> => LastShown = "neutral"
      BY <2>0, <2>2, EmptySeq, LenProperties DEF PressInv, OnlyNeutral, LastShown
    <3>. QED
      BY <2>2, <3>1 DEF PressInv, PressesAnswered
  <2>. QED BY <2>1, <2>2 DEF PressesAnswered
<1>. QED
  BY <1>1, <1>2, PressSteps, PTL DEF BSpec

(* A press has its type.                                                   *)
LEMMA PressTyped == PressInv => BTypeOK
<1>. SUFFICES ASSUME PressInv PROVE BTypeOK
  OBVIOUS
<1>1. press \in PressRecords /\ painted \in Seq(Notices)
  BY DEF PressInv, Notices
<1>2. \A i \in DOMAIN painted : painted[i] \in Notices
  BY <1>1, ElementOfSeq, LenProperties
<1>. QED BY <1>1, <1>2 DEF PressRecords, BTypeOK, Notices

-----------------------------------------------------------------------------
(* The installation of a plugin.                                          *)

(* The steps of the command, and of the provider that carries it out when   *)
(* it likes: one step per action.                                          *)
LEMMA PluginSteps == PluginInv /\ [PNext]_piVars => PluginInv'
<1>. SUFFICES ASSUME PluginInv, [PNext]_piVars PROVE PluginInv'
  OBVIOUS
<1>. USE DEF PluginInv, PITypeOK, InstallHonest, AfterInstall, Planned, Fail, Move
<1>1. CASE CheckSource
  BY <1>1 DEF CheckSource
<1>2. CASE CheckOptions
  BY <1>2 DEF CheckOptions
<1>3. CASE Preflight
  BY <1>3 DEF Preflight
<1>4. CASE Dispatch
  <2>1. /\ Carried \in {"bare", "with activation"}
        /\ Installed(Carried) \in {"installed", "active"}
        /\ Refused \subseteq {"absent", "installed", "active"}
    BY DEF Carried, Installed, Refused
  <2>2. CASE answer' = "bare"
    <3>1. /\ instAt = "install" /\ instAt' = "activate" /\ onSite' \in {"absent", "installed", "active"}
          /\ UNCHANGED <<install, instExit, running, activated>>
      BY <1>4, <2>1, <2>2 DEF Dispatch
    <3>2. instExit = "none" /\ running = "none" /\ activated = "none" /\ answer = "none"
      BY <3>1
    <3>. QED
      BY <2>2, <3>1, <3>2
  <2>3. CASE answer' # "bare"
    <3>1. CASE answer' = "refused"
      BY <1>4, <3>1 DEF Dispatch
    <3>2. CASE answer' = "accepted"
      BY <1>4, <2>1, <3>2 DEF Dispatch
    <3>. QED BY <1>4, <2>3, <3>1, <3>2 DEF Dispatch
  <2>. QED BY <2>2, <2>3
<1>5. CASE ProviderRuns
  <2>1. /\ Installed(running) \in {"installed", "active"}
        /\ onSite = "active" => Installed(running) = "active"
        /\ Refused \subseteq {"absent", "installed", "active"}
        /\ onSite = "active" => Refused = {"active"}
    BY DEF Installed, Refused
  <2>. QED BY <1>5, <2>1 DEF ProviderRuns
<1>6. CASE Wait
  BY <1>6 DEF Wait
<1>7. CASE Activate
  BY <1>7 DEF Activate
<1>8. CASE IsActive
  BY <1>8 DEF IsActive
<1>9. CASE ActivatePlugin
  BY <1>9 DEF ActivatePlugin
<1>10. CASE UNCHANGED piVars
  BY <1>10 DEF piVars
<1>. QED
  BY <1>1, <1>2, <1>3, <1>4, <1>5, <1>6, <1>7, <1>8, <1>9, <1>10 DEF PNext

\* An install starts with nothing sent.
LEMMA PluginStarts == PInit => PluginInv
BY DEF PInit, PluginInv, PITypeOK, InstallHonest, AfterInstall

(* An install that ends well has no run under way when it was waited for,   *)
(* and the plugin is there and active wherever an operation's exit status  *)
(* said so; a bare answer proves neither.  One that is refused by HQ       *)
(* itself has sent nothing (cli/hosting/wp.ts).                            *)
THEOREM InstallHonestHolds == PISpec => []InstallHonest
<1>1. PInit => PluginInv
  BY PluginStarts
<1>2. PluginInv => InstallHonest
  BY DEF PluginInv
<1>. QED
  BY <1>1, <1>2, PluginSteps, PTL DEF PISpec

-----------------------------------------------------------------------------
(* The dashboard's server.                                                 *)

(* Somebody asks something.                                                *)
LEMMA RequestSent == (CHOOSE s \in Requests : TRUE) \in Sent
<1>. DEFINE w == [host |-> "loopback", origin |-> "absent", site |-> "absent",
                  token |-> "right", method |-> "GET", path |-> "nowhere", body |-> "small"]
            five == {"host", "origin", "site", "token", "method"}
<1>1. Proper(w) = five
  BY DEF Proper
<1>2. Cardinality(five) >= 4
  <2>1. IsFiniteSet({"host"}) /\ Cardinality({"host"}) = 1
    BY FS_Singleton
  <2>2. IsFiniteSet({"host", "origin"}) /\ Cardinality({"host", "origin"}) = 2
    <3>1. {"host", "origin"} = {"host"} \cup {"origin"} /\ "origin" \notin {"host"}
      OBVIOUS
    <3>. QED BY <2>1, <3>1, FS_AddElement
  <2>3. IsFiniteSet({"host", "origin", "site"}) /\ Cardinality({"host", "origin", "site"}) = 3
    <3>1. {"host", "origin", "site"} = {"host", "origin"} \cup {"site"} /\ "site" \notin {"host", "origin"}
      OBVIOUS
    <3>. QED BY <2>2, <3>1, FS_AddElement
  <2>4. /\ IsFiniteSet({"host", "origin", "site", "token"})
        /\ Cardinality({"host", "origin", "site", "token"}) = 4
    <3>1. /\ {"host", "origin", "site", "token"} = {"host", "origin", "site"} \cup {"token"}
          /\ "token" \notin {"host", "origin", "site"}
      OBVIOUS
    <3>. QED BY <2>3, <3>1, FS_AddElement
  <2>5. Cardinality(five) = 5
    <3>1. /\ five = {"host", "origin", "site", "token"} \cup {"method"}
          /\ "method" \notin {"host", "origin", "site", "token"}
      OBVIOUS
    <3>. QED BY <2>4, <3>1, FS_AddElement
  <2>. QED BY <2>5
<1>3. w \in Sent
  BY DEF Sent, Hosts, Origins, FetchSites, Tokens, Paths
<1>4. w.method # "POST" => w.body = "small"
  OBVIOUS
<1>. HIDE DEF w, five
<1>5. w \in Requests
  BY <1>1, <1>2, <1>3, <1>4 DEF Requests
<1>. QED BY <1>5 DEF Requests

(* Nobody has asked yet.                                                   *)
LEMMA WebStarts == WInit => WebInv
<1>. SUFFICES ASSUME WInit PROVE WebInv
  OBVIOUS
<1>1. PICK s \in Sent : web = [c \in Clients |->
       [at |-> "unsent", sent |-> s, status |-> 0,
        aborted |-> FALSE, left |-> FALSE, ended |-> FALSE, shown |-> 0, acted |-> FALSE,
        over |-> FALSE, after |-> 0, drained |-> "no"]]
  BY RequestSent DEF WInit
<1>2. ticks = 0 /\ jobOver = FALSE
  BY DEF WInit
<1>3. web \in [Clients -> WebRecords]
  BY <1>1 DEF WebRecords, WebAt, Statuses
<1>4. ASSUME NEW c \in Clients PROVE GetsThere(web[c]) /\ LeavesOnce(web[c]) /\ ToTheEnd(web[c])
  BY <1>1 DEF GetsThere, LeavesOnce, ToTheEnd
<1>5. ASSUME NEW c \in Clients PROVE IsTold(web[c]) /\ StopsSoon(web[c])
  BY <1>1 DEF IsTold, StopsSoon
<1>. QED BY <1>2, <1>3, <1>4, <1>5 DEF WebInv

(* What holds of one request.                                              *)
WellServed(r) == GetsThere(r) /\ LeavesOnce(r) /\ IsTold(r) /\ StopsSoon(r) /\ ToTheEnd(r)

(* A step of one request leaves the others as they are.                    *)
LEMMA ServesOne ==
  ASSUME WebInv, NEW c \in Clients, NEW r \in WebRecords, web' = [web EXCEPT ![c] = r],
         UNCHANGED << ticks, jobOver >>, WellServed(r)
  PROVE  WebInv'
<1>. web \in [Clients -> WebRecords] /\ web' \in [Clients -> WebRecords]
  BY DEF WebInv
<1>1. ASSUME NEW d \in Clients PROVE web'[d] = IF d = c THEN r ELSE web[d]
  OBVIOUS
<1>2. ASSUME NEW d \in Clients PROVE WellServed(web[d])
  BY DEF WebInv, WellServed
<1>3. ASSUME NEW d \in Clients PROVE WellServed(web[d])'
  <2>1. WellServed(web'[d])
    BY <1>1, <1>2
  <2>. QED BY <2>1 DEF WellServed, ToTheEnd
<1>4. ticks' \in Nat /\ jobOver' \in BOOLEAN
  BY DEF WebInv
<1>. QED BY <1>3, <1>4 DEF WebInv, WellServed

(* The parts of a request, and what holds of it.                           *)
LEMMA OneRequest ==
  ASSUME WebInv, NEW c \in Clients
  PROVE  /\ web \in [Clients -> WebRecords] /\ web[c] \in WebRecords /\ Of(c) \in Sent
         /\ WellServed(web[c])
<1>1. web \in [Clients -> WebRecords] /\ WellServed(web[c])
  BY DEF WebInv, WellServed
<1>. QED BY <1>1 DEF WebRecords, Of

(* A request that is answered: its handler has not acted and it is no       *)
(* stream, or it is refused before it is one.                              *)
LEMMA AnswerKeeps ==
  ASSUME WebInv, NEW c \in Clients, NEW status \in Statuses \ {0}, Answer(c, status),
         web[c].at \in {"arrived", "matched", "handler"},
         status # 413, status = 200 => Matches(Of(c)) /\ ~Streams(Of(c))
  PROVE  WebInv'
<1>. DEFINE r == [web[c] EXCEPT !.at = "answered", !.status = status, !.ended = TRUE,
                        !.drained = IF Of(c).body = "large" THEN "draining" ELSE "no"]
<1>1. web \in [Clients -> WebRecords] /\ web[c] \in WebRecords /\ WellServed(web[c])
  BY OneRequest
<1>2. web' = [web EXCEPT ![c] = r] /\ UNCHANGED << ticks, jobOver >>
  BY <1>1 DEF Answer
<1>3. r \in WebRecords
  BY <1>1 DEF WebRecords, WebAt
<1>4. ~web[c].acted /\ ~web[c].left
  BY <1>1 DEF WellServed, GetsThere, LeavesOnce
<1>5. GetsThere(r) /\ LeavesOnce(r)
  BY <1>1, <1>4 DEF WellServed, GetsThere, LeavesOnce, WebRecords
<1>6. IsTold(r)
  BY <1>1, <1>4 DEF IsTold, WebRecords, Of
<1>7. StopsSoon(r) /\ ToTheEnd(r)
  BY <1>1, <1>4 DEF WellServed, StopsSoon, ToTheEnd, WebRecords, LeavesOnce
<1>. QED BY <1>2, <1>3, <1>5, <1>6, <1>7, ServesOne DEF WellServed

(* A request on its way to its handler.                                    *)
LEMMA BeforeHandler ==
  ASSUME WebInv, NEW c \in Clients, Receive(c) \/ Route(c) \/ Admit(c) \/ Page(c) \/ Asset(c)
  PROVE  WebInv'
<1>1. web \in [Clients -> WebRecords] /\ web[c] \in WebRecords /\ Of(c) \in Sent
      /\ WellServed(web[c])
  BY OneRequest
<1>2. CASE Receive(c)
  <2>1. PICK s \in Sent : web' = [web EXCEPT ![c].at = "arrived", ![c].sent = s]
    BY <1>2 DEF Receive, Requests
  <2>. DEFINE r == [web[c] EXCEPT !.at = "arrived", !.sent = s]
  <2>2. web' = [web EXCEPT ![c] = r] /\ r \in WebRecords
    BY <1>1, <2>1 DEF WebRecords, WebAt
  <2>3. web[c].at = "unsent"
    BY <1>2 DEF Receive
  <2>4. /\ r.at = "arrived" /\ r.acted = web[c].acted /\ r.aborted = web[c].aborted
        /\ r.left = web[c].left /\ r.ended = web[c].ended /\ r.status = web[c].status
        /\ r.over = web[c].over /\ r.shown = web[c].shown /\ r.after = web[c].after
    BY <1>1 DEF WebRecords
  <2>5. GetsThere(r) /\ LeavesOnce(r)
    BY <1>1, <2>3, <2>4 DEF WellServed, GetsThere, LeavesOnce
  <2>6. IsTold(r)
    BY <1>1, <2>3, <2>4 DEF WellServed, IsTold
  <2>7. StopsSoon(r) /\ ToTheEnd(r)
    BY <1>1, <2>3, <2>4 DEF WellServed, LeavesOnce, StopsSoon, ToTheEnd
  <2>. QED BY <1>2, <2>2, <2>5, <2>6, <2>7, ServesOne DEF WellServed, Receive
<1>3. ASSUME NEW at \in {"matched", "handler"}, WebTo(c, at), UNCHANGED << ticks, jobOver >>,
             web[c].at \in {"arrived", "matched"},
             at = "matched" => Matches(Of(c)), at = "handler" => Trusted(Of(c))
      PROVE  WebInv'
  <2>. DEFINE r == [web[c] EXCEPT !.at = at]
  <2>1. web' = [web EXCEPT ![c] = r] /\ r \in WebRecords
    BY <1>1, <1>3 DEF WebTo, WebRecords, WebAt
  <2>2. /\ r.at = at /\ r.acted = web[c].acted /\ r.aborted = web[c].aborted
        /\ r.left = web[c].left /\ r.ended = web[c].ended /\ r.status = web[c].status
        /\ r.over = web[c].over /\ r.shown = web[c].shown /\ r.after = web[c].after
        /\ r.sent = Of(c)
    BY <1>1 DEF WebRecords, Of
  <2>3. GetsThere(r) /\ LeavesOnce(r)
    BY <1>1, <1>3, <2>2 DEF WellServed, GetsThere, LeavesOnce
  <2>4. IsTold(r)
    BY <1>1, <1>3, <2>2 DEF WellServed, IsTold
  <2>5. StopsSoon(r) /\ ToTheEnd(r)
    BY <1>1, <1>3, <2>2 DEF WellServed, LeavesOnce, StopsSoon, ToTheEnd
  <2>. QED BY <1>3, <2>1, <2>3, <2>4, <2>5, ServesOne DEF WellServed
<1>4. CASE Route(c)
  <2>1. CASE ~Allowed(Of(c))
    BY <1>4, <2>1, AnswerKeeps DEF Route, Statuses
  <2>2. CASE Allowed(Of(c)) /\ Of(c).path = "nowhere"
    BY <1>4, <2>2, AnswerKeeps DEF Route, Statuses
  <2>3. CASE Allowed(Of(c)) /\ Of(c).path # "nowhere"
    <3>1. Of(c).path \in DOMAIN Table
      BY <1>1, <2>3 DEF Sent, Paths
    <3>2. CASE Of(c).method \in RouteOf(c).methods
      <4>1. Matches(Of(c))
        BY <2>3, <3>1, <3>2 DEF Matches, Allowed, RouteOf
      <4>. QED BY <1>3, <1>4, <2>3, <3>2, <4>1 DEF Route
    <3>3. CASE Of(c).method \notin RouteOf(c).methods
      BY <1>4, <2>3, <3>3, AnswerKeeps DEF Route, Statuses
    <3>. QED BY <3>2, <3>3
  <2>. QED BY <2>1, <2>2, <2>3
<1>5. CASE Admit(c)
  <2>1. CASE RouteOf(c).auth = "token" /\ Of(c).token # "right"
    BY <1>5, <2>1, AnswerKeeps DEF Admit, Statuses
  <2>2. CASE ~(RouteOf(c).auth = "token" /\ Of(c).token # "right")
    <3>1. Trusted(Of(c))
      BY <1>1, <1>5, <2>2 DEF Admit, WellServed, GetsThere, Trusted, RouteOf, Of
    <3>. QED BY <1>3, <1>5, <2>2, <3>1 DEF Admit
  <2>. QED BY <2>1, <2>2
<1>6. CASE Page(c) \/ Asset(c)
  <2>1. web[c].at = "handler" /\ Matches(Of(c)) /\ ~Streams(Of(c))
    <3>1. web[c].at = "handler" /\ Trusted(Of(c))
      <4>1. web[c].at = "handler"
        BY <1>6, Zenon DEF Page, Asset
      <4>. QED BY <1>1, <4>1 DEF WellServed, GetsThere, Of
    <3>2. RouteOf(c).answer \in {"html", "asset"}
      BY <1>6, Zenon DEF Page, Asset
    <3>. QED BY <3>1, <3>2 DEF Streams, RouteOf, Trusted
  <2>2. PICK status \in {200, 304, 404, 500} : Answer(c, status)
    BY <1>6 DEF Page, Asset
  <2>3. status \in Statuses \ {0}
    BY DEF Statuses
  <2>. QED BY <2>1, <2>2, <2>3, AnswerKeeps
<1>. QED BY <1>2, <1>4, <1>5, <1>6

(* The handler of a request: its stream begins, its body is read, its       *)
(* service called, its job followed.                                       *)
LEMMA InHandler ==
  ASSUME WebInv, NEW c \in Clients,
         Begin(c) \/ ReadBody(c) \/ Act(c) \/ Follow(c) \/ Wake(c) \/ Drain(c)
  PROVE  WebInv'
<1>1. web \in [Clients -> WebRecords] /\ web[c] \in WebRecords /\ Of(c) \in Sent
      /\ WellServed(web[c]) /\ web[c].sent = Of(c)
  BY OneRequest DEF Of
<1>2. CASE Begin(c)
  <2>. DEFINE r == [web[c] EXCEPT !.at = IF RouteOf(c).body THEN "reading" ELSE "streaming",
                        !.status = IF RouteOf(c).answer = "json" THEN 0 ELSE 200]
  <2>0. UNCHANGED << ticks, jobOver >>
    BY <1>2 DEF Begin
  <2>1. web' = [web EXCEPT ![c] = r] /\ r \in WebRecords
    <3>1. web' = [web EXCEPT ![c] = r]
      BY <1>1, <1>2 DEF Begin
    <3>2. (IF RouteOf(c).body THEN "reading" ELSE "streaming") \in WebAt
      BY DEF WebAt
    <3>3. (IF RouteOf(c).answer = "json" THEN 0 ELSE 200) \in Statuses
      BY DEF Statuses
    <3>4. ASSUME NEW a \in WebAt, NEW n \in Statuses
          PROVE  [web[c] EXCEPT !.at = a, !.status = n] \in WebRecords
      BY <1>1 DEF WebRecords
    <3>. QED BY <3>1, <3>2, <3>3, <3>4
  <2>2. /\ r.at = IF RouteOf(c).body THEN "reading" ELSE "streaming"
        /\ r.acted = web[c].acted /\ r.aborted = web[c].aborted
        /\ r.left = web[c].left /\ r.ended = web[c].ended /\ r.sent = Of(c)
        /\ r.over = web[c].over /\ r.shown = web[c].shown /\ r.after = web[c].after
        /\ r.status = IF RouteOf(c).answer = "json" THEN 0 ELSE 200
    BY <1>1 DEF WebRecords
  <2>3. /\ web[c].at = "handler" /\ Trusted(Of(c)) /\ Of(c).path \in DOMAIN Table
        /\ RouteOf(c).answer = "json" <=> ~Streams(Of(c))
        /\ RouteOf(c).answer \in {"sse", "live", "json"} /\ Table[Of(c).path] = RouteOf(c)
        /\ RouteOf(c).body \/ Usable(Of(c))
    BY <1>1, <1>2 DEF Begin, WellServed, GetsThere, Trusted, Matches, Usable, Streams, RouteOf
  <2>4. GetsThere(r) /\ LeavesOnce(r)
    BY <1>1, <2>2, <2>3 DEF WellServed, GetsThere, LeavesOnce
  <2>5. IsTold(r)
    BY <1>1, <2>2, <2>3 DEF WellServed, IsTold
  <2>6. StopsSoon(r) /\ ToTheEnd(r)
    BY <1>1, <2>2, <2>3 DEF WellServed, LeavesOnce, StopsSoon, ToTheEnd
  <2>. QED BY <2>0, <2>1, <2>4, <2>5, <2>6, ServesOne DEF WellServed
<1>3. CASE ReadBody(c)
  <2>0. /\ web[c].at = "reading" /\ Trusted(Of(c)) /\ ~web[c].acted /\ ~web[c].left
        /\ ~web[c].ended /\ ~web[c].aborted
        /\ web[c].status = IF Streams(Of(c)) THEN 200 ELSE 0
        /\ ~web[c].over /\ RouteOf(c).answer \in {"sse", "live", "json"}
        /\ Table[Of(c).path] = RouteOf(c) /\ Of(c).path \in DOMAIN Table
        /\ UNCHANGED << ticks, jobOver >>
    BY <1>1, <1>3 DEF ReadBody, WellServed, GetsThere, LeavesOnce, IsTold, RouteOf, Trusted, Matches
  <2>1. CASE Of(c).body = "small"
    <3>. DEFINE r == [web[c] EXCEPT !.at = "streaming"]
    <3>1. web' = [web EXCEPT ![c] = r] /\ r \in WebRecords
      BY <1>1, <1>3, <2>0, <2>1 DEF ReadBody, CloseIsDisconnect, WebRecords, WebAt
    <3>2. /\ r.at = "streaming" /\ r.acted = web[c].acted /\ r.aborted = web[c].aborted
          /\ r.left = web[c].left /\ r.ended = web[c].ended /\ r.status = web[c].status
          /\ r.over = web[c].over /\ r.shown = web[c].shown /\ r.after = web[c].after
          /\ r.sent = Of(c)
      BY <1>1 DEF WebRecords
    <3>3. GetsThere(r) /\ LeavesOnce(r)
      BY <2>0, <2>1, <3>2 DEF GetsThere, LeavesOnce, Usable
    <3>4. IsTold(r)
      BY <2>0, <3>2 DEF IsTold
    <3>5. StopsSoon(r) /\ ToTheEnd(r)
      BY <1>1, <2>0, <3>2 DEF WellServed, StopsSoon, ToTheEnd
    <3>. QED BY <2>0, <3>1, <3>3, <3>4, <3>5, ServesOne DEF WellServed
  <2>2. CASE Of(c).body # "small" /\ RouteOf(c).answer = "json"
    <3>. DEFINE n == IF Of(c).body = "large" THEN 413 ELSE 400
                d == IF Of(c).body = "large" THEN "draining" ELSE "no"
                r == [web[c] EXCEPT !.at = "answered", !.ended = TRUE, !.status = n, !.drained = d]
    <3>0. web' = [web EXCEPT ![c].at = "answered", ![c].ended = TRUE, ![c].status = n,
                             ![c].drained = d]
      BY <1>3, <2>2, Zenon DEF ReadBody
    <3>a. n \in {413, 400} /\ d \in {"draining", "no"}
      OBVIOUS
    <3>. HIDE DEF n, d
    <3>1. web' = [web EXCEPT ![c] = r] /\ r \in WebRecords
      <4>1. web' = [web EXCEPT ![c] = r]
        BY <1>1, <3>0
      <4>2. n \in Statuses /\ "answered" \in WebAt
        BY <3>a DEF Statuses, WebAt
      <4>. QED BY <1>1, <3>a, <4>1, <4>2 DEF WebRecords
    <3>2. /\ r.at = "answered" /\ r.acted = web[c].acted /\ r.aborted = web[c].aborted
          /\ r.left = web[c].left /\ r.ended = TRUE /\ r.status \in {413, 400}
          /\ r.over = web[c].over /\ r.shown = web[c].shown /\ r.after = web[c].after
          /\ r.sent = Of(c)
      BY <1>1, <3>a DEF WebRecords
    <3>3. GetsThere(r) /\ LeavesOnce(r)
      BY <2>0, <3>2 DEF GetsThere, LeavesOnce
    <3>4. IsTold(r)
      BY <2>0, <3>2 DEF IsTold
    <3>5. StopsSoon(r) /\ ToTheEnd(r)
      BY <1>1, <2>0, <3>2 DEF WellServed, StopsSoon, ToTheEnd
    <3>6. WellServed(r)
      BY <3>3, <3>4, <3>5 DEF WellServed
    <3>. HIDE DEF r
    <3>. QED BY <2>0, <3>1, <3>6, ServesOne
  <2>3. CASE Of(c).body # "small" /\ RouteOf(c).answer # "json"
    <3>. DEFINE r == [web[c] EXCEPT !.at = "answered", !.shown = 1, !.ended = TRUE]
    <3>1. web' = [web EXCEPT ![c] = r] /\ r \in WebRecords
      <4>1. web' = [web EXCEPT ![c] = r]
        BY <1>1, <1>3, <2>3 DEF ReadBody
      <4>2. "answered" \in WebAt /\ 1 \in Nat
        BY DEF WebAt
      <4>. QED BY <1>1, <4>1, <4>2 DEF WebRecords
    <3>2. /\ r.at = "answered" /\ r.acted = web[c].acted /\ r.aborted = web[c].aborted
          /\ r.left = web[c].left /\ r.ended = TRUE /\ r.status = web[c].status
          /\ r.over = web[c].over /\ r.shown = 1 /\ r.after = web[c].after
          /\ r.sent = Of(c)
      BY <1>1 DEF WebRecords
    <3>3. GetsThere(r) /\ LeavesOnce(r)
      BY <2>0, <3>2 DEF GetsThere, LeavesOnce
    <3>4. IsTold(r)
      <4>1. Streams(Of(c))
        BY <2>0, <2>3 DEF Streams
      <4>2. r.status = 200 /\ r.shown > 0 /\ ~r.aborted /\ ~r.acted /\ Matches(r.sent)
        BY <2>0, <3>2, <4>1 DEF Trusted
      <4>. QED BY <3>2, <4>2 DEF IsTold
    <3>5. StopsSoon(r) /\ ToTheEnd(r)
      BY <1>1, <2>0, <3>2 DEF WellServed, StopsSoon, ToTheEnd
    <3>. QED BY <2>0, <3>1, <3>3, <3>4, <3>5, ServesOne DEF WellServed
  <2>. QED BY <2>1, <2>2, <2>3
<1>4. CASE Act(c)
  <2>. DEFINE r == [web[c] EXCEPT !.at = "answered", !.acted = TRUE, !.status = 200,
                        !.shown = IF web[c].ended THEN @ ELSE @ + 1, !.ended = TRUE]
  <2>1. web' = [web EXCEPT ![c] = r] /\ r \in WebRecords
    <3>1. web' = [web EXCEPT ![c] = r]
      BY <1>1, <1>4, ZenonT(60) DEF Act
    <3>2. 200 \in Statuses
      BY DEF Statuses
    <3>3. "answered" \in WebAt
      BY DEF WebAt
    <3>4. web[c].shown \in Nat /\ (IF web[c].ended THEN web[c].shown ELSE web[c].shown + 1) \in Nat
      BY <1>1 DEF WebRecords
    <3>. QED BY <1>1, <3>1, <3>2, <3>3, <3>4, ZenonT(60) DEF WebRecords
  <2>2. /\ r.at = "answered" /\ r.acted = TRUE /\ r.aborted = web[c].aborted
        /\ r.left = web[c].left /\ r.ended = TRUE /\ r.status = 200 /\ r.sent = Of(c)
        /\ r.over = web[c].over /\ r.after = web[c].after
        /\ r.shown = IF web[c].ended THEN web[c].shown ELSE web[c].shown + 1
    BY <1>1 DEF WebRecords
  <2>3. /\ web[c].at = "streaming" /\ Usable(Of(c)) /\ ~Lives(Of(c))
    BY <1>1, <1>4 DEF Act, WellServed, GetsThere, Lives, RouteOf
  <2>4. GetsThere(r) /\ LeavesOnce(r)
    BY <1>1, <2>2, <2>3 DEF WellServed, GetsThere, LeavesOnce
  <2>5. web[c].ended => web[c].left
    BY <1>1, <2>3 DEF WellServed, LeavesOnce
  <2>6. IsTold(r)
    <3>1. ~r.left => r.shown > 0
      BY <1>1, <2>2, <2>5 DEF WebRecords
    <3>2. r.at = "answered" /\ r.status = 200 /\ Matches(r.sent) /\ ~Lives(r.sent)
      BY <2>2, <2>3 DEF Usable, Trusted
    <3>. QED BY <3>1, <3>2 DEF IsTold
  <2>7. ~web[c].over
    BY <1>1, <2>3 DEF WellServed, LeavesOnce
  <2>8. StopsSoon(r) /\ ToTheEnd(r)
    BY <1>1, <2>2, <2>3, <2>7 DEF WellServed, StopsSoon, ToTheEnd
  <2>. QED BY <1>4, <2>1, <2>4, <2>6, <2>8, ServesOne, ZenonT(60) DEF WellServed, Act
<1>5. CASE Follow(c)
  <2>. DEFINE r == [web[c] EXCEPT !.at = IF jobOver THEN "answered" ELSE "waiting",
                        !.shown = IF web[c].ended THEN @ ELSE ticks + 1,
                        !.after = IF web[c].aborted THEN @ + 1 ELSE @,
                        !.over = jobOver /\ ~web[c].ended, !.acted = TRUE,
                        !.ended = jobOver \/ web[c].ended]
  <2>0. ticks \in Nat /\ jobOver \in BOOLEAN
    BY DEF WebInv
  <2>1. web[c].at = "streaming" /\ Usable(Of(c)) /\ Lives(Of(c)) /\ Streams(Of(c))
    BY <1>1, <1>5 DEF Follow, WellServed, GetsThere, Usable, Trusted, Matches, Lives, Streams, RouteOf
  <2>2. web[c].after = 0
    BY <1>1, <2>1 DEF WellServed, StopsSoon
  <2>3. web' = [web EXCEPT ![c] = r]
    BY <1>1, <1>5, ZenonT(60) DEF Follow
  <2>4. r \in WebRecords
    <3>1. (IF jobOver THEN "answered" ELSE "waiting") \in WebAt
      BY DEF WebAt
    <3>2. (IF web[c].ended THEN web[c].shown ELSE ticks + 1) \in Nat
      BY <1>1, <2>0 DEF WebRecords
    <3>3. (IF web[c].aborted THEN web[c].after + 1 ELSE web[c].after) \in {0, 1}
      BY <2>2
    <3>4. web[c].ended \in BOOLEAN
      BY <1>1 DEF WebRecords
    <3>5. (jobOver /\ ~web[c].ended) \in BOOLEAN /\ (jobOver \/ web[c].ended) \in BOOLEAN
      BY <2>0, <3>4
    <3>. QED BY <1>1, <3>1, <3>2, <3>3, <3>5, ZenonT(60) DEF WebRecords
  <2>5. /\ r.at = IF jobOver THEN "answered" ELSE "waiting"
        /\ r.acted = TRUE /\ r.aborted = web[c].aborted /\ r.left = web[c].left
        /\ (r.ended <=> (jobOver \/ web[c].ended)) /\ r.status = web[c].status /\ r.sent = Of(c)
        /\ (r.over <=> (jobOver /\ ~web[c].ended))
        /\ r.after = IF web[c].aborted THEN web[c].after + 1 ELSE web[c].after
        /\ r.shown = IF web[c].ended THEN web[c].shown ELSE ticks + 1
    BY <1>1 DEF WebRecords
  <2>6. web[c].ended => web[c].left
    BY <1>1, <2>1 DEF WellServed, LeavesOnce
  <2>a. web[c].aborted => web[c].left
    BY <1>1 DEF WellServed, LeavesOnce
  <2>b. web[c].left => web[c].ended
    BY <1>1 DEF WellServed, LeavesOnce
  <2>7. GetsThere(r) /\ LeavesOnce(r)
    <3>1. r.at \in {"waiting", "answered"} /\ (r.at = "answered" <=> jobOver)
      BY <2>5
    <3>2. GetsThere(r)
      BY <2>1, <2>5, <3>1 DEF GetsThere
    <3>3. LeavesOnce(r)
      BY <2>5, <2>6, <2>a, <2>b, <3>1 DEF LeavesOnce
    <3>. QED BY <3>2, <3>3
  <2>8. IsTold(r)
    <3>1. ~r.left => r.shown > 0
      BY <2>0, <2>5, <2>6
    <3>2. r.at \in {"waiting", "answered"} /\ r.status = 200 /\ Matches(r.sent) /\ Streams(r.sent)
      <4>1. web[c].status = 200
        BY <1>1, <2>1 DEF WellServed, IsTold
      <4>. QED BY <2>1, <2>5, <4>1 DEF Usable, Trusted
    <3>3. r.at = "answered" /\ ~r.left => r.over
      BY <2>5, <2>6
    <3>. QED BY <3>1, <3>2, <3>3 DEF IsTold
  <2>9. StopsSoon(r) /\ ToTheEnd(r)
    <3>1. StopsSoon(r)
      <4>1. r.at # "streaming"
        BY <2>5
      <4>2. ~r.aborted => r.after = 0
        BY <2>2, <2>5
      <4>. QED BY <4>1, <4>2 DEF StopsSoon
    <3>2. ToTheEnd(r)
      BY <2>5 DEF ToTheEnd
    <3>. QED BY <3>1, <3>2
  <2>. QED BY <1>5, <2>3, <2>4, <2>7, <2>8, <2>9, ServesOne DEF WellServed, Follow
<1>6. CASE Wake(c)
  <2>. DEFINE r == [web[c] EXCEPT !.at = Woken(c)]
  <2>1. web' = [web EXCEPT ![c] = r] /\ r \in WebRecords
    BY <1>1, <1>6 DEF Wake, Woken, WebRecords, WebAt
  <2>2. /\ r.at = IF web[c].aborted THEN "gone" ELSE "streaming"
        /\ r.acted = web[c].acted /\ r.aborted = web[c].aborted
        /\ r.left = web[c].left /\ r.ended = web[c].ended /\ r.status = web[c].status
        /\ r.over = web[c].over /\ r.shown = web[c].shown /\ r.after = web[c].after
        /\ r.sent = Of(c)
    BY <1>1 DEF WebRecords, Woken
  <2>3. /\ web[c].at = "waiting" /\ Usable(Of(c)) /\ (web[c].aborted => web[c].left)
        /\ Table[Of(c).path].answer = "live" /\ ~web[c].over
    BY <1>1, <1>6 DEF Wake, WellServed, GetsThere, LeavesOnce, Lives
  <2>4. GetsThere(r) /\ LeavesOnce(r)
    BY <1>1, <2>2, <2>3 DEF WellServed, GetsThere, LeavesOnce
  <2>5. IsTold(r)
    BY <1>1, <2>2, <2>3 DEF WellServed, IsTold
  <2>6. StopsSoon(r) /\ ToTheEnd(r)
    BY <1>1, <2>2, <2>3 DEF WellServed, StopsSoon, ToTheEnd
  <2>. QED BY <1>6, <2>1, <2>4, <2>5, <2>6, ServesOne DEF WellServed, Wake
<1>7. CASE Drain(c)
  <2>1. PICK d \in {"whole", "cut"} : web' = [web EXCEPT ![c].drained = d]
    BY <1>7 DEF Drain
  <2>. DEFINE r == [web[c] EXCEPT !.drained = d]
  <2>2. web' = [web EXCEPT ![c] = r] /\ r \in WebRecords
    BY <1>1, <2>1 DEF WebRecords
  <2>3. /\ r.at = web[c].at /\ r.acted = web[c].acted /\ r.aborted = web[c].aborted
        /\ r.left = web[c].left /\ r.ended = web[c].ended /\ r.status = web[c].status
        /\ r.over = web[c].over /\ r.shown = web[c].shown /\ r.after = web[c].after
        /\ r.sent = web[c].sent
    BY <1>1 DEF WebRecords
  <2>4. GetsThere(r) /\ LeavesOnce(r)
    BY <1>1, <2>3 DEF WellServed, GetsThere, LeavesOnce
  <2>5. IsTold(r)
    BY <1>1, <2>3 DEF WellServed, IsTold
  <2>6. StopsSoon(r) /\ ToTheEnd(r)
    BY <1>1, <2>3 DEF WellServed, StopsSoon, ToTheEnd
  <2>. QED BY <1>7, <2>2, <2>4, <2>5, <2>6, ServesOne DEF WellServed, Drain
<1>. QED BY <1>2, <1>3, <1>4, <1>5, <1>6, <1>7

(* What a client that goes away leaves behind.                             *)
LEMMA Leaves ==
  ASSUME NEW q \in WebRecords, WellServed(q), ~q.ended, q.at # "unsent",
         NEW r, r = [q EXCEPT !.aborted = TRUE, !.left = TRUE, !.ended = TRUE,
                       !.at = IF q.at \in {"streaming", "waiting"} THEN q.at ELSE "gone"]
  PROVE  r \in WebRecords /\ WellServed(r)
<1>1. r \in WebRecords
  BY DEF WebRecords, WebAt
<1>2. /\ r.at = IF q.at \in {"streaming", "waiting"} THEN q.at ELSE "gone"
      /\ r.acted = q.acted /\ r.aborted = TRUE /\ r.left = TRUE /\ r.ended = TRUE
      /\ r.status = q.status /\ r.over = q.over /\ r.shown = q.shown /\ r.after = q.after
      /\ r.sent = q.sent
  BY DEF WebRecords
<1>3. q.at \in {"arrived", "matched", "handler", "reading", "streaming", "waiting"} /\ ~q.aborted
  BY DEF WellServed, LeavesOnce, WebRecords, WebAt
<1>4. GetsThere(r) /\ LeavesOnce(r)
  BY <1>2, <1>3 DEF WellServed, GetsThere, LeavesOnce
<1>5. IsTold(r)
  BY <1>2, <1>3 DEF WellServed, IsTold
<1>6. StopsSoon(r) /\ ToTheEnd(r)
  BY <1>2, <1>3 DEF WellServed, StopsSoon, ToTheEnd
<1>. QED BY <1>1, <1>4, <1>5, <1>6 DEF WellServed

(* Every step of the server keeps what holds of every request.              *)
LEMMA WebSteps == WebInv /\ [WNext]_wVars => WebInv'
<1>. SUFFICES ASSUME WebInv, [WNext]_wVars PROVE WebInv'
  OBVIOUS
<1>1. ASSUME NEW c \in Clients, HangUp(c) PROVE WebInv'
  <2>. DEFINE r == [web[c] EXCEPT !.aborted = TRUE, !.left = TRUE, !.ended = TRUE,
                     !.at = IF web[c].at \in {"streaming", "waiting"} THEN web[c].at ELSE "gone"]
  <2>1. web \in [Clients -> WebRecords] /\ web[c] \in WebRecords /\ WellServed(web[c])
    BY OneRequest
  <2>2. web' = [web EXCEPT ![c] = r]
    BY <1>1, <2>1 DEF HangUp
  <2>3. ~web[c].ended /\ web[c].at # "unsent"
    BY <1>1 DEF HangUp
  <2>4. r \in WebRecords /\ WellServed(r)
    BY <2>1, <2>3, Leaves
  <2>. QED BY <1>1, <2>2, <2>4, ServesOne DEF HangUp
<1>2. ASSUME CloseAll PROVE WebInv'
  <2>1. ASSUME NEW c \in Clients PROVE web'[c] \in WebRecords /\ WellServed(web'[c])
    <3>1. web[c] \in WebRecords /\ WellServed(web[c])
      BY OneRequest
    <3>2. CASE web[c].ended \/ web[c].at = "unsent"
      BY <1>2, <3>1, <3>2 DEF CloseAll
    <3>3. CASE ~web[c].ended /\ web[c].at # "unsent"
      <4>1. web'[c] = [web[c] EXCEPT !.aborted = TRUE, !.left = TRUE, !.ended = TRUE,
               !.at = IF web[c].at \in {"streaming", "waiting"} THEN web[c].at ELSE "gone"]
        BY <1>2, <3>1, <3>3 DEF CloseAll
      <4>. HIDE DEF WebInv
      <4>. QED BY <3>1, <3>3, <4>1, Leaves
    <3>. QED BY <3>2, <3>3
  <2>2. web' = [c \in Clients |-> web'[c]] /\ UNCHANGED << ticks, jobOver >>
    BY <1>2 DEF CloseAll
  <2>3. web' \in [Clients -> WebRecords]
    BY <2>1, <2>2
  <2>4. ASSUME NEW c \in Clients PROVE WellServed(web[c])'
    BY <2>1, <2>2 DEF WellServed, ToTheEnd
  <2>. QED BY <2>2, <2>3, <2>4 DEF WebInv, WellServed
<1>3. ASSUME Progress PROVE WebInv'
  <2>1. web' = web /\ ticks' \in Nat /\ jobOver' \in BOOLEAN /\ ~jobOver
    <3>1. ticks \in Nat /\ jobOver \in BOOLEAN
      BY DEF WebInv
    <3>2. web' = web /\ ~jobOver /\ ticks' = ticks + 1
      BY <1>3 DEF Progress
    <3>3. jobOver' \in BOOLEAN
      BY <1>3, <3>1, Zenon DEF Progress
    <3>. QED BY <3>1, <3>2, <3>3
  <2>2. ASSUME NEW c \in Clients PROVE ToTheEnd(web[c])'
    BY <2>1 DEF WebInv, ToTheEnd
  <2>3. web \in [Clients -> WebRecords]
        /\ \A c \in Clients : GetsThere(web[c]) /\ LeavesOnce(web[c]) /\ IsTold(web[c])
                             /\ StopsSoon(web[c])
    BY DEF WebInv
  <2>. QED BY <2>1, <2>2, <2>3 DEF WebInv
<1>4. ASSUME UNCHANGED wVars PROVE WebInv'
  BY <1>4 DEF wVars, WebInv, ToTheEnd
<1>. QED BY <1>1, <1>2, <1>3, <1>4, BeforeHandler, InHandler DEF WNext

(* Only a request of the dashboard's own pages reaches a service, and the   *)
(* client that stays gets its whole answer (web/server.ts, web/sse.ts).    *)
THEOREM ServedAsAskedHolds == WSpec => []ServedAsAsked
<1>1. WebInv => ServedAsAsked
  <2>. SUFFICES ASSUME WebInv PROVE ServedAsAsked
    OBVIOUS
  <2>1. OnlyOwnPagesAct
    <3>. SUFFICES ASSUME NEW c \in Clients, web[c].acted, Of(c).path \in Guarded
                  PROVE  /\ Loopback(Of(c)) /\ Of(c).token = "right"
                         /\ Of(c).method \in RouteOf(c).methods
                         /\ RouteOf(c).body => Of(c).body = "small"
      BY DEF OnlyOwnPagesAct
    <3>1. Usable(Of(c))
      BY OneRequest DEF WellServed, GetsThere, Of
    <3>. QED BY <3>1, TableAssumption DEF Usable, Trusted, Matches, RouteOf
  <2>2. AnsweredWhole
    <3>. SUFFICES ASSUME NEW c \in Clients
                  PROVE  /\ (web[c].at \in {"answered", "gone"} /\ ~web[c].left) =>
                              /\ web[c].ended /\ web[c].status # 0
                              /\ (web[c].status = 200 /\ RouteOf(c).answer \in {"sse", "live"}) =>
                                    web[c].shown > 0
                              /\ (web[c].acted /\ RouteOf(c).answer = "live") =>
                                    web[c].over /\ web[c].shown = ticks + 1
                         /\ web[c].after <= 1
                         /\ web[c].aborted => web[c].status # 413
      BY DEF AnsweredWhole
    <3>1. web[c] \in WebRecords /\ Of(c) \in Sent /\ WellServed(web[c])
      BY OneRequest
    <3>2. web[c].after <= 1 /\ (web[c].aborted => web[c].status # 413)
      BY <3>1 DEF WebRecords, WellServed, IsTold
    <3>3. ASSUME web[c].at \in {"answered", "gone"}, ~web[c].left
          PROVE  /\ web[c].ended /\ web[c].status # 0
                 /\ (web[c].status = 200 /\ RouteOf(c).answer \in {"sse", "live"}) =>
                       web[c].shown > 0
                 /\ (web[c].acted /\ RouteOf(c).answer = "live") =>
                       web[c].over /\ web[c].shown = ticks + 1
      <4>1. web[c].at = "answered" /\ web[c].ended /\ web[c].status # 0
        BY <3>1, <3>3 DEF WellServed, LeavesOnce, IsTold
      <4>2. web[c].status = 200 /\ RouteOf(c).answer \in {"sse", "live"} => web[c].shown > 0
        BY <3>1, <3>3, <4>1 DEF WellServed, IsTold, Of, Matches, Streams, RouteOf
      <4>3. web[c].acted /\ RouteOf(c).answer = "live" => Lives(Of(c))
        BY <3>1 DEF WellServed, GetsThere, Usable, Trusted, Matches, Lives, RouteOf, Of
      <4>4. web[c].acted /\ Lives(Of(c)) => web[c].over /\ web[c].shown = ticks + 1
        BY <3>1, <3>3, <4>1 DEF WellServed, IsTold, ToTheEnd, Of
      <4>. QED BY <4>1, <4>2, <4>3, <4>4
    <3>. QED BY <3>2, <3>3
  <2>. QED BY <2>1, <2>2 DEF ServedAsAsked
<1>. QED BY <1>1, WebStarts, WebSteps, PTL DEF WSpec

(* Nothing has been shown.                                                 *)
LEMMA ShownStarts == WInit => ShownInTime
<1>. SUFFICES ASSUME WInit PROVE ShownInTime
  OBVIOUS
<1>1. ticks = 0 /\ jobOver = FALSE /\ \A c \in Clients : web[c].shown = 0
  BY DEF WInit
<1>. QED BY <1>1, WebAssumption DEF ShownInTime

(* A step of one request that shows no more than there is.                 *)
LEMMA ShowsOne ==
  ASSUME WebInv, ShownInTime, NEW c \in Clients, UNCHANGED << ticks, jobOver >>,
         \A d \in Clients \ {c} : web'[d] = web[d],
         \/ web'[c].shown = web[c].shown /\ (Silent(web'[c]) => Silent(web[c]))
         \/ web'[c].shown \in 0 .. ticks + 1 /\ ~Silent(web'[c])
  PROVE  ShownInTime'
BY DEF ShownInTime, WebInv

(* Every step of a request, of the server's end and of the job they follow. *)
LEMMA ShownSteps == WebInv /\ ShownInTime /\ [WNext]_wVars => ShownInTime'
<1>. SUFFICES ASSUME WebInv, ShownInTime, [WNext]_wVars PROVE ShownInTime'
  OBVIOUS
<1>0. /\ web \in [Clients -> WebRecords] /\ ticks \in Nat /\ jobOver \in BOOLEAN
      /\ \A c \in Clients : web[c] \in WebRecords /\ web[c].shown \in Nat
                             /\ web[c].shown <= ticks + 1
  BY DEF WebInv, ShownInTime, WebRecords
<1>1. ASSUME NEW c \in Clients, NEW status, Answer(c, status), web[c].at \in {"arrived", "matched", "handler"}
      PROVE  ShownInTime'
  <2>1. /\ web'[c].shown = web[c].shown /\ web'[c].at = "answered"
        /\ \A d \in Clients \ {c} : web'[d] = web[d]
    BY <1>0, <1>1 DEF Answer, WebRecords
  <2>2. ~Silent(web'[c])
    BY <2>1 DEF Silent
  <2>. QED BY <1>0, <1>1, <2>1, <2>2, ShowsOne DEF Answer
<1>2. ASSUME NEW c \in Clients, NEW label \in {"matched", "handler"}, WebTo(c, label),
             UNCHANGED << ticks, jobOver >>, web[c].at \in {"arrived", "matched"}
      PROVE  ShownInTime'
  <2>1. /\ web'[c].shown = web[c].shown /\ \A d \in Clients \ {c} : web'[d] = web[d]
    BY <1>0, <1>2 DEF WebTo, WebRecords
  <2>2. Silent(web[c])
    BY <1>2 DEF Silent
  <2>. QED BY <1>2, <2>1, <2>2, ShowsOne
<1>3. ASSUME NEW c \in Clients, Route(c) \/ Admit(c) \/ Page(c) \/ Asset(c) PROVE ShownInTime'
  <2>1. CASE Route(c)
    <3>1. web[c].at = "arrived"
      BY <2>1 DEF Route
    <3>2. \/ \E status : Answer(c, status)
          \/ WebTo(c, "matched") /\ UNCHANGED << ticks, jobOver >>
      BY <2>1 DEF Route
    <3>. QED BY <1>1, <1>2, <3>1, <3>2
  <2>2. CASE Admit(c)
    <3>1. web[c].at = "matched"
      BY <2>2 DEF Admit
    <3>2. \/ \E status : Answer(c, status)
          \/ WebTo(c, "handler") /\ UNCHANGED << ticks, jobOver >>
      BY <2>2 DEF Admit
    <3>. QED BY <1>1, <1>2, <3>1, <3>2
  <2>3. CASE Page(c) \/ Asset(c)
    <3>1. web[c].at = "handler" /\ \E status : Answer(c, status)
      BY <2>3 DEF Page, Asset
    <3>. QED BY <1>1, <3>1
  <2>. QED BY <1>3, <2>1, <2>2, <2>3
<1>4. ASSUME NEW c \in Clients, Receive(c) \/ Begin(c) PROVE ShownInTime'
  <2>1. web'[c].shown = web[c].shown /\ \A d \in Clients \ {c} : web'[d] = web[d]
    BY <1>0, <1>4 DEF Receive, Begin, WebRecords
  <2>2. Silent(web[c]) /\ UNCHANGED << ticks, jobOver >>
    BY <1>4 DEF Receive, Begin, Silent
  <2>. QED BY <2>1, <2>2, ShowsOne
<1>5. ASSUME NEW c \in Clients, ReadBody(c) PROVE ShownInTime'
  <2>1. web[c].at = "reading" /\ Silent(web[c]) /\ web[c].shown = 0
        /\ UNCHANGED << ticks, jobOver >> /\ \A d \in Clients \ {c} : web'[d] = web[d]
    BY <1>0, <1>5 DEF ReadBody, Silent, ShownInTime
  <2>2. \/ web'[c].shown = web[c].shown
        \/ web'[c].shown = 1 /\ web'[c].at = "answered"
    BY <1>0, <1>5 DEF ReadBody, WebRecords
  <2>3. web'[c].at = "answered" => ~Silent(web'[c])
    BY DEF Silent
  <2>. QED BY <1>0, <2>1, <2>2, <2>3, ShowsOne
<1>6. ASSUME NEW c \in Clients, Act(c) PROVE ShownInTime'
  <2>1. /\ web[c].at = "streaming" /\ RouteOf(c).answer # "live"
        /\ UNCHANGED << ticks, jobOver >> /\ \A d \in Clients \ {c} : web'[d] = web[d]
        /\ web'[c].at = "answered"
        /\ web'[c].shown = IF web[c].ended THEN web[c].shown ELSE web[c].shown + 1
    BY <1>0, <1>6 DEF Act, WebRecords
  <2>2. Silent(web[c]) /\ ~Silent(web'[c])
    BY <2>1 DEF Silent, Lives, RouteOf, Of
  <2>3. web[c].shown = 0
    BY <2>2 DEF ShownInTime
  <2>. QED BY <1>0, <2>1, <2>2, <2>3, ShowsOne
<1>7. ASSUME NEW c \in Clients, Follow(c) PROVE ShownInTime'
  <2>1. /\ web[c].at = "streaming" /\ RouteOf(c).answer = "live"
        /\ UNCHANGED << ticks, jobOver >> /\ \A d \in Clients \ {c} : web'[d] = web[d]
        /\ web'[c].at \in {"answered", "waiting"}
        /\ web'[c].shown = IF web[c].ended THEN web[c].shown ELSE ticks + 1
    BY <1>0, <1>7 DEF Follow, WebRecords
  <2>2. ~Silent(web'[c])
    BY <2>1 DEF Silent
  <2>. QED BY <1>0, <2>1, <2>2, ShowsOne
<1>8. ASSUME NEW c \in Clients, Wake(c) PROVE ShownInTime'
  <2>1. /\ web[c].at = "waiting" /\ web'[c].at \in {"gone", "streaming"}
        /\ web'[c].shown = web[c].shown /\ web'[c].sent = web[c].sent
        /\ UNCHANGED << ticks, jobOver >> /\ \A d \in Clients \ {c} : web'[d] = web[d]
    BY <1>0, <1>8 DEF Wake, Woken, WebRecords
  <2>2. Lives(web[c].sent)
    BY <2>1, OneRequest DEF WellServed, GetsThere
  <2>3. ~Silent(web'[c])
    BY <2>1, <2>2 DEF Silent
  <2>. QED BY <2>1, <2>3, ShowsOne
<1>9. ASSUME NEW c \in Clients, Drain(c) \/ HangUp(c) PROVE ShownInTime'
  <2>1. /\ web'[c].at = web[c].at \/ web'[c].at = "gone"
        /\ web'[c].shown = web[c].shown /\ web'[c].sent = web[c].sent
        /\ UNCHANGED << ticks, jobOver >> /\ \A d \in Clients \ {c} : web'[d] = web[d]
    BY <1>0, <1>9 DEF Drain, HangUp, WebRecords
  <2>2. Silent(web'[c]) => Silent(web[c])
    BY <2>1 DEF Silent
  <2>. QED BY <2>1, <2>2, ShowsOne
<1>10. ASSUME CloseAll PROVE ShownInTime'
  <2>1. ASSUME NEW c \in Clients
        PROVE  web'[c].shown = web[c].shown /\ (Silent(web'[c]) => Silent(web[c]))
    <3>1. /\ web'[c].at = web[c].at \/ web'[c].at = "gone"
          /\ web'[c].shown = web[c].shown /\ web'[c].sent = web[c].sent
      BY <1>0, <1>10 DEF CloseAll, WebRecords
    <3>. QED BY <3>1 DEF Silent
  <2>2. UNCHANGED << ticks, jobOver >>
    BY <1>10 DEF CloseAll
  <2>. QED BY <2>1, <2>2 DEF ShownInTime
<1>11. ASSUME Progress PROVE ShownInTime'
  <2>1. /\ web' = web /\ ~jobOver /\ ticks' = ticks + 1 /\ jobOver' \in BOOLEAN
        /\ ticks < LiveTicks \/ jobOver' = TRUE
    BY <1>0, <1>11 DEF Progress
  <2>2. ticks <= LiveTicks
    BY <1>0, <2>1, WebAssumption DEF ShownInTime
  <2>3. ticks' <= LiveTicks + (IF jobOver' THEN 1 ELSE 0)
    BY <1>0, <2>1, <2>2, WebAssumption
  <2>4. ASSUME NEW c \in Clients PROVE web'[c].shown <= ticks' + 1
    BY <1>0, <2>1
  <2>. QED BY <2>1, <2>3, <2>4 DEF ShownInTime
<1>12. CASE UNCHANGED wVars
  BY <1>12 DEF wVars, ShownInTime
<1>. QED
  BY <1>3, <1>4, <1>5, <1>6, <1>7, <1>8, <1>9, <1>10, <1>11, <1>12 DEF WNext

(* A request shows what its job had to show, and no more.                  *)
LEMMA WebTyped == WebInv /\ ShownInTime => WTypeOK
<1>. SUFFICES ASSUME WebInv, ShownInTime PROVE WTypeOK
  OBVIOUS
<1>1. ticks \in 0 .. LiveTicks + 1 /\ jobOver \in BOOLEAN
  BY WebAssumption DEF WebInv, ShownInTime
<1>2. ASSUME NEW c \in Clients
      PROVE  web[c].at \in WebAt /\ web[c].sent \in Sent /\ web[c].shown \in 0 .. LiveTicks + 2
  <2>1. web[c] \in WebRecords /\ web[c].shown <= ticks + 1
    BY DEF WebInv, ShownInTime
  <2>. QED BY <1>1, <2>1, WebAssumption DEF WebRecords
<1>. QED BY <1>1, <1>2 DEF WTypeOK

-----------------------------------------------------------------------------
(* The commands of the hosting tree.                                       *)

(* Two groups together: the commands of both, the first one's when both have *)
(* a name.                                                                 *)
LEMMA JoinIs ==
  ASSUME NEW f, NEW g
  PROVE  /\ DOMAIN (f ++ g) = DOMAIN f \cup DOMAIN g
         /\ \A c \in DOMAIN f \cup DOMAIN g : (f ++ g)[c] = IF c \in DOMAIN f THEN f[c] ELSE g[c]
BY DEF ++

Keys(f, S) == DOMAIN f = S
\* The commands of two groups together.
LEMMA JoinKeys ==
  ASSUME NEW f, NEW g, NEW S, NEW T, Keys(f, S), Keys(g, T)
  PROVE  Keys(f ++ g, S \cup T)
BY JoinIs DEF Keys

(* A group has the commands it registers.                                  *)
LEMMA GrammarKeys ==
  ASSUME NEW called, NEW opts, NEW args, NEW typed
  PROVE  Keys(Grammar(called, opts, args, typed), called)
BY DEF Grammar, Keys

(* A row fits its command: what the handler asks for has a name in it, and  *)
(* the three requests that need care ask for what they need.               *)
Names(row) == row.options \cup row.arguments
WellAsked(c, h, given) ==
  /\ h.request = "restore-backup" => c = "backups restore" /\ "all-content" \in h.ids
  /\ (/\ h.request \in {"create-site", "create-environment"}
      /\ given \cap Native = {} /\ h.fields \subseteq given) =>
        Cardinality(given \cap Password) = 1
  /\ h.request = "push-environment" => {"site", "source-env", "target-env"} \subseteq h.ids
Asks(h, c, accepted, given) ==
  /\ h.ids \cup h.fields \cup h.checks \subseteq accepted \cup {"scope", "admin-password"}
  /\ h.writes => WellAsked(c, h, given)
Row(opts, args, typed) == [options |-> opts, arguments |-> args, parsed |-> typed]
Fits(c, row) ==
  /\ row.parsed \subseteq row.options /\ "admin-password" \notin Names(row)
  /\ \A given \in SUBSET Names(row) : Asks(HandlerOf(c, given), c, Names(row), given)
AllFit(f) == \A c \in DOMAIN f : Fits(c, f[c])

(* Two groups that fit fit together.                                       *)
LEMMA JoinFits == ASSUME NEW u, NEW v, AllFit(u), AllFit(v) PROVE AllFit(u ++ v)
<1>1. /\ DOMAIN (u ++ v) = DOMAIN u \cup DOMAIN v
      /\ \A c \in DOMAIN u \cup DOMAIN v : (u ++ v)[c] = IF c \in DOMAIN u THEN u[c] ELSE v[c]
  BY DEF ++
<1>2. ASSUME NEW c \in DOMAIN u \cup DOMAIN v PROVE Fits(c, (u ++ v)[c])
  <2>1. (u ++ v)[c] = IF c \in DOMAIN u THEN u[c] ELSE v[c]
    BY <1>1
  <2>. QED BY <2>1, Zenon DEF AllFit
<1>. QED BY <1>1, <1>2 DEF AllFit

(* The commands of one grammar fit if its row does.                        *)
LEMMA GrammarFits ==
  ASSUME NEW called, NEW opts, NEW args, NEW typed,
         \A c \in called : Fits(c, Row(opts, args, typed))
  PROVE  AllFit(Grammar(called, opts, args, typed))
BY DEF AllFit, Grammar, Row

(* The command that a handler is written for.                              *)
InventoryNames == {"providers validate", "providers capabilities", "regions list",
                   "activity list", "ops get", "ops wait"}
SitesNames == {"sites list", "sites get", "sites create", "sites create-plain", "sites clone"}
EnvsNames == {"envs list", "envs get", "envs create", "envs create-plain", "envs clone", "envs push"}
DomainsNames == {"domains list", "domains add", "domains verify", "domains primary",
                 "dns domains list", "dns records list"}
AssetNames == {"wp list", "wp update", "wp update-all", "wp-cli run", "logs get",
               "analytics usage", "analytics env"}
RestNames == {"backups list", "backups downloadable", "backups create", "backups restore",
              "cache clear", "php restart", "php set-version", "redirects list", "redirects apply",
              "denied-ips list", "denied-ips set"}

(* Which commands each group registers.                                    *)
LEMMA GroupKeys ==
  /\ Keys(InventoryGrammar, InventoryNames)
  /\ Keys(SitesGrammar, SitesNames)
  /\ Keys(EnvsGrammar, EnvsNames)
  /\ Keys(DomainsGrammar, {"domains list", "domains add", "domains verify", "domains primary"})
  /\ Keys(DnsGrammar, {"dns domains list", "dns records list"})
  /\ Keys(BackupsGrammar, {"backups list", "backups downloadable", "backups create",
                           "backups restore"})
  /\ Keys(CacheGrammar, {"cache clear"})
  /\ Keys(PhpGrammar, {"php restart", "php set-version"})
  /\ Keys(RedirectsGrammar, {"redirects list", "redirects apply"})
  /\ Keys(DeniedIpsGrammar, {"denied-ips list", "denied-ips set"})
  /\ Keys(AssetGrammar, {"wp list", "wp update", "wp update-all"})
  /\ Keys(WpCliGrammar, {"wp-cli run"})
  /\ Keys(LogsGrammar, {"logs get"})
  /\ Keys(AnalyticsGrammar, {"analytics usage", "analytics env"})
<1>1. Keys(InventoryGrammar, InventoryNames)
  <2>1. Keys(InventoryGrammar, ((({"providers validate", "providers capabilities"}
           \cup {"regions list"}) \cup {"activity list"}) \cup {"ops get"})
           \cup {"ops wait"})
    BY JoinKeys, GrammarKeys, Zenon DEF InventoryGrammar
  <2>. QED BY <2>1 DEF Keys, InventoryNames
<1>2. Keys(SitesGrammar, SitesNames)
  <2>1. Keys(SitesGrammar, ((({"sites list"} \cup {"sites get"}) \cup {"sites create"})
           \cup {"sites create-plain"}) \cup {"sites clone"})
    BY JoinKeys, GrammarKeys, Zenon DEF SitesGrammar
  <2>. QED BY <2>1 DEF Keys, SitesNames
<1>3. Keys(EnvsGrammar, EnvsNames)
  <2>1. Keys(EnvsGrammar, (((({"envs list"} \cup {"envs get"}) \cup {"envs create"})
           \cup {"envs create-plain"}) \cup {"envs clone"}) \cup {"envs push"})
    BY JoinKeys, GrammarKeys, Zenon DEF EnvsGrammar
  <2>. QED BY <2>1 DEF Keys, EnvsNames
<1>4. Keys(DomainsGrammar, {"domains list", "domains add", "domains verify", "domains primary"})
  <2>1. Keys(DomainsGrammar, (({"domains list"} \cup {"domains add"})
           \cup {"domains verify"}) \cup {"domains primary"})
    BY JoinKeys, GrammarKeys, Zenon DEF DomainsGrammar
  <2>. QED BY <2>1 DEF Keys
<1>5. Keys(DnsGrammar, {"dns domains list", "dns records list"})
  <2>1. Keys(DnsGrammar, {"dns domains list"} \cup {"dns records list"})
    BY JoinKeys, GrammarKeys, Zenon DEF DnsGrammar
  <2>. QED BY <2>1 DEF Keys
<1>6. Keys(BackupsGrammar, {"backups list", "backups downloadable", "backups create",
                            "backups restore"})
  <2>1. Keys(BackupsGrammar, ({"backups list", "backups downloadable"}
           \cup {"backups create"}) \cup {"backups restore"})
    BY JoinKeys, GrammarKeys, Zenon DEF BackupsGrammar
  <2>. QED BY <2>1 DEF Keys
<1>7. Keys(CacheGrammar, {"cache clear"})
  BY GrammarKeys DEF CacheGrammar
<1>8. Keys(PhpGrammar, {"php restart", "php set-version"})
  <2>1. Keys(PhpGrammar, {"php restart"} \cup {"php set-version"})
    BY JoinKeys, GrammarKeys, Zenon DEF PhpGrammar
  <2>. QED BY <2>1 DEF Keys
<1>9. Keys(RedirectsGrammar, {"redirects list", "redirects apply"})
  <2>1. Keys(RedirectsGrammar, {"redirects list"} \cup {"redirects apply"})
    BY JoinKeys, GrammarKeys, Zenon DEF RedirectsGrammar
  <2>. QED BY <2>1 DEF Keys
<1>10. Keys(DeniedIpsGrammar, {"denied-ips list", "denied-ips set"})
  <2>1. Keys(DeniedIpsGrammar, {"denied-ips list"} \cup {"denied-ips set"})
    BY JoinKeys, GrammarKeys, Zenon DEF DeniedIpsGrammar
  <2>. QED BY <2>1 DEF Keys
<1>11. Keys(AssetGrammar, {"wp list", "wp update", "wp update-all"})
  <2>1. Keys(AssetGrammar, ({"wp list"} \cup {"wp update"}) \cup {"wp update-all"})
    BY JoinKeys, GrammarKeys, Zenon DEF AssetGrammar
  <2>. QED BY <2>1 DEF Keys
<1>12. Keys(WpCliGrammar, {"wp-cli run"})
  BY GrammarKeys DEF WpCliGrammar
<1>13. Keys(LogsGrammar, {"logs get"})
  BY GrammarKeys DEF LogsGrammar
<1>14. Keys(AnalyticsGrammar, {"analytics usage", "analytics env"})
  <2>1. Keys(AnalyticsGrammar, {"analytics usage"} \cup {"analytics env"})
    BY JoinKeys, GrammarKeys, Zenon DEF AnalyticsGrammar
  <2>. QED BY <2>1 DEF Keys
<1>. QED BY <1>1, <1>2, <1>3, <1>4, <1>5, <1>6, <1>7,
            <1>8, <1>9, <1>10, <1>11, <1>12, <1>13, <1>14, Zenon

(* The group of a command is the one of its handler.                       *)
LEMMA HandlersFound ==
  ASSUME NEW given
  PROVE  /\ \A c \in InventoryNames : HandlerOf(c, given) = InventoryHandler(c)
         /\ \A c \in SitesNames : HandlerOf(c, given) = SitesHandler(c, given)
         /\ \A c \in EnvsNames : HandlerOf(c, given) = EnvsHandler(c, given)
         /\ \A c \in DomainsNames : HandlerOf(c, given) = DomainsHandler(c)
         /\ \A c \in AssetNames : HandlerOf(c, given) = WpHandler(c, given)
         /\ \A c \in RestNames : HandlerOf(c, given) = MaintenanceHandler(c, given)
<1>. DEFINE Right(c) ==
       HandlerOf(c, given) =
         CASE c \in InventoryNames -> InventoryHandler(c)
           [] c \in SitesNames -> SitesHandler(c, given)
           [] c \in EnvsNames -> EnvsHandler(c, given)
           [] c \in DomainsNames -> DomainsHandler(c)
           [] c \in AssetNames -> WpHandler(c, given)
           [] OTHER -> MaintenanceHandler(c, given)
<1>1. /\ DOMAIN InventoryGrammar = InventoryNames /\ DOMAIN SitesGrammar = SitesNames
      /\ DOMAIN EnvsGrammar = EnvsNames /\ DOMAIN DomainsGrammar \cup DOMAIN DnsGrammar = DomainsNames
      /\ DOMAIN AssetGrammar \cup DOMAIN WpCliGrammar \cup DOMAIN LogsGrammar
           \cup DOMAIN AnalyticsGrammar = AssetNames
  BY GroupKeys DEF Keys, DomainsNames, AssetNames
<1>8. \A c : Right(c)
  BY <1>1, Zenon DEF HandlerOf
<1>2. ASSUME NEW c \in InventoryNames PROVE HandlerOf(c, given) = InventoryHandler(c)
  BY <1>8 DEF InventoryNames, SitesNames, EnvsNames, DomainsNames, AssetNames
<1>3. ASSUME NEW c \in SitesNames PROVE HandlerOf(c, given) = SitesHandler(c, given)
  BY <1>8 DEF InventoryNames, SitesNames, EnvsNames, DomainsNames, AssetNames
<1>4. ASSUME NEW c \in EnvsNames PROVE HandlerOf(c, given) = EnvsHandler(c, given)
  BY <1>8 DEF InventoryNames, SitesNames, EnvsNames, DomainsNames, AssetNames
<1>5. ASSUME NEW c \in DomainsNames PROVE HandlerOf(c, given) = DomainsHandler(c)
  BY <1>8 DEF InventoryNames, SitesNames, EnvsNames, DomainsNames, AssetNames
<1>6. ASSUME NEW c \in AssetNames PROVE HandlerOf(c, given) = WpHandler(c, given)
  BY <1>8 DEF InventoryNames, SitesNames, EnvsNames, DomainsNames, AssetNames
<1>7. ASSUME NEW c \in RestNames PROVE HandlerOf(c, given) = MaintenanceHandler(c, given)
  BY <1>8 DEF InventoryNames, SitesNames, EnvsNames, DomainsNames, AssetNames, RestNames
<1>. QED BY <1>2, <1>3, <1>4, <1>5, <1>6, <1>7

(* A row of names that may be given fits if what is asked for is among them. *)
Sound(opts, args, typed) == typed \subseteq opts /\ "admin-password" \notin opts \cup args
LEMMA RowFits ==
  ASSUME NEW c, NEW opts, NEW args, NEW typed, Sound(opts, args, typed),
         \A given \in SUBSET (opts \cup args) : Asks(HandlerOf(c, given), c, opts \cup args, given)
  PROVE  Fits(c, Row(opts, args, typed))
BY DEF Fits, Row, Names, Sound

(* The commands that need no care: those that read, and those whose change  *)
(* is not one of four.                                                     *)
Careful == {"restore-backup", "create-site", "create-environment", "push-environment"}
Tame(h, N) == /\ h.ids \cup h.fields \cup h.checks \subseteq N
              /\ h.writes => h.request \notin Careful
\* A command that only reads needs no care,
LEMMA ReadsTame ==
  ASSUME NEW N, NEW ids \in SUBSET N, NEW request
  PROVE  Tame(ReadCommand(ids, request), N)
BY DEF Tame, ReadCommand, Handler
\* nor does one that reads after comparing a value,
LEMMA ChecksTame ==
  ASSUME NEW N, NEW checks \in SUBSET N, NEW request
  PROVE  Tame(Handler({}, {}, checks, request, FALSE), N)
BY DEF Tame, Handler
\* nor a change that is not one of the four.
LEMMA ActsTame ==
  ASSUME NEW N, NEW ids \in SUBSET N, NEW fields \in SUBSET N, NEW request, request \notin Careful
  PROVE  Tame(Acts(ids, fields, request), N)
BY DEF Tame, Acts, Handler

Plain(c, N) == \A given : Tame(HandlerOf(c, given), N)
\* A row fits a command that needs no care if it has what is asked for.
LEMMA PlainFits ==
  ASSUME NEW c, NEW opts, NEW args, NEW typed, NEW N, Sound(opts, args, typed),
         Plain(c, N), N \subseteq opts \cup args
  PROVE  Fits(c, Row(opts, args, typed))
<1>1. ASSUME NEW given PROVE Asks(HandlerOf(c, given), c, opts \cup args, given)
  <2>1. Tame(HandlerOf(c, given), N)
    BY DEF Plain
  <2>. QED BY <2>1 DEF Asks, Tame, WellAsked, Careful
<1>. QED BY <1>1, RowFits

(* Every row of every group fits its command.                              *)
LEMMA InventoryFits == AllFit(InventoryGrammar)
<1>1. ASSUME NEW given
      PROVE  /\ HandlerOf("providers validate", given) = ReadCommand({}, "validate")
             /\ HandlerOf("providers capabilities", given) = ReadCommand({}, "capabilities")
             /\ HandlerOf("regions list", given) = ReadCommand({}, "regions")
             /\ HandlerOf("activity list", given) = ReadCommand({}, "activity")
             /\ HandlerOf("ops get", given) = ReadCommand({}, "operation")
             /\ HandlerOf("ops wait", given) = ReadCommand({}, "operation")
  BY HandlersFound DEF InventoryNames, InventoryHandler
<1>2. /\ Plain("providers validate", {})
      /\ Plain("providers capabilities", {})
      /\ Plain("regions list", {})
      /\ Plain("activity list", {})
      /\ Plain("ops get", {})
      /\ Plain("ops wait", {})
  <2>1. /\ Tame(ReadCommand({}, "validate"), {})
        /\ Tame(ReadCommand({}, "capabilities"), {})
        /\ Tame(ReadCommand({}, "regions"), {})
        /\ Tame(ReadCommand({}, "activity"), {})
        /\ Tame(ReadCommand({}, "operation"), {})
    BY DEF Tame, Handler, ReadCommand
  <2>. QED BY <1>1, <2>1, Zenon DEF Plain
<1>3. /\ Sound({}, {}, {})
      /\ Sound({"company"}, {}, {})
      /\ Sound({"limit", "company"}, {}, {"limit"})
      /\ Sound({}, {"operation_id"}, {})
      /\ Sound(Polling, {"operation_id"}, Polling)
  BY DEF Sound, Polling
<1>4. ASSUME NEW c \in {"providers validate", "providers capabilities"}
      PROVE  Fits(c, Row({}, {}, {}))
  BY <1>2, <1>3, PlainFits
<1>5. ASSUME NEW c \in {"regions list"} PROVE Fits(c, Row({"company"}, {}, {}))
  BY <1>2, <1>3, PlainFits
<1>6. ASSUME NEW c \in {"activity list"} PROVE Fits(c, Row({"limit", "company"}, {}, {"limit"}))
  BY <1>2, <1>3, PlainFits
<1>7. ASSUME NEW c \in {"ops get"} PROVE Fits(c, Row({}, {"operation_id"}, {}))
  BY <1>2, <1>3, PlainFits
<1>8. ASSUME NEW c \in {"ops wait"} PROVE Fits(c, Row(Polling, {"operation_id"}, Polling))
  BY <1>2, <1>3, PlainFits
<1>. QED BY <1>4, <1>5, <1>6, <1>7, <1>8, GrammarFits, JoinFits, Zenon DEF InventoryGrammar

\* A site is created from a whole set of options, with one password.
LEMMA CreateSiteFits ==
  Fits("sites create", Row(CreateGrammar \cup Native \cup {"display-name", "region"}, {}, {}))
<1>. DEFINE N == CreateGrammar \cup Native \cup {"display-name", "region"}
<1>1. Sound(N, {}, {}) /\ {"display-name", "region", "admin-email", "admin-user", "site-title"} \subseteq N
  BY DEF Sound, CreateGrammar, Native, Password
<1>2. ASSUME NEW given \in SUBSET (N \cup {})
      PROVE  Asks(HandlerOf("sites create", given), "sites create", N \cup {}, given)
  <2>1. HandlerOf("sites create", given) = Acts({}, SiteFields("sites create", given), "create-site")
    BY HandlersFound DEF SitesNames, SitesHandler
  <2>. DEFINE F == SiteFields("sites create", given)
  <2>2. F \subseteq N \cup {"admin-password"}
    BY <1>1 DEF SiteFields, PasswordField
  <2>3. ASSUME given \cap Native = {}, F \subseteq given PROVE Cardinality(given \cap Password) = 1
    <3>. SUFFICES ASSUME Cardinality(given \cap Password) # 1 PROVE FALSE
      OBVIOUS
    <3>1. "admin-password" \in F
      BY <2>3 DEF SiteFields, PasswordField
    <3>2. "admin-password" \notin N
      BY <1>1 DEF Sound
    <3>. QED BY <3>1, <3>2, <2>3
  <2>. HIDE DEF F, N
  <2>4. Asks(Acts({}, F, "create-site"), "sites create", N \cup {}, given)
    BY <2>2, <2>3 DEF Asks, Acts, Handler, WellAsked
  <2>. QED BY <2>1, <2>4 DEF F
<1>. QED BY <1>1, <1>2, RowFits

\* The commands of sites.
LEMMA SitesFits == AllFit(SitesGrammar)
<1>1. ASSUME NEW given
      PROVE  /\ HandlerOf("sites list", given) = ReadCommand({}, "sites")
             /\ HandlerOf("sites get", given) = ReadCommand({}, "site")
             /\ HandlerOf("sites create-plain", given) =
                  Acts({}, {"display-name", "region"}, "create-site-plain")
             /\ HandlerOf("sites clone", given) =
                  Acts({}, {"display-name", "source-env"}, "create-site-clone")
  BY HandlersFound DEF SitesNames, SitesHandler, SiteFields
<1>2. /\ Plain("sites list", {})
      /\ Plain("sites get", {})
      /\ Plain("sites create-plain", {"display-name", "region"})
      /\ Plain("sites clone", {"display-name", "source-env"})
  <2>1. /\ Tame(ReadCommand({}, "sites"), {})
        /\ Tame(ReadCommand({}, "site"), {})
        /\ Tame(Acts({},
                  {"display-name", "region"}, "create-site-plain"),
                  {"display-name", "region"})
        /\ Tame(Acts({},
                  {"display-name", "source-env"}, "create-site-clone"),
                  {"display-name", "source-env"})
    BY DEF Tame, Handler, ReadCommand, Acts, Careful
  <2>. QED BY <1>1, <2>1, Zenon DEF Plain
<1>3. /\ Sound({}, {}, {})
      /\ Sound({}, {"site_id"}, {})
      /\ Sound({"from-json", "display-name", "region"}, {}, {})
      /\ Sound({"from-json", "display-name", "source-env"}, {}, {})
  BY DEF Sound
<1>4. ASSUME NEW c \in {"sites list"} PROVE Fits(c, Row({}, {}, {}))
  BY <1>2, <1>3, PlainFits
<1>5. ASSUME NEW c \in {"sites get"} PROVE Fits(c, Row({}, {"site_id"}, {}))
  BY <1>2, <1>3, PlainFits
<1>6. ASSUME NEW c \in {"sites create"}
      PROVE  Fits(c, Row(CreateGrammar \cup Native \cup {"display-name", "region"}, {}, {}))
  BY CreateSiteFits
<1>7. ASSUME NEW c \in {"sites create-plain"}
      PROVE  Fits(c, Row({"from-json", "display-name", "region"}, {}, {}))
  BY <1>2, <1>3, PlainFits
<1>8. ASSUME NEW c \in {"sites clone"}
      PROVE  Fits(c, Row({"from-json", "display-name", "source-env"}, {}, {}))
  BY <1>2, <1>3, PlainFits
<1>. QED BY <1>4, <1>5, <1>6, <1>7, <1>8, GrammarFits, JoinFits, Zenon DEF SitesGrammar

\* An environment is created in the same way.
LEMMA CreateEnvFits ==
  Fits("envs create", Row(CreateGrammar \cup {"site", "display-name"}, {}, {}))
<1>. DEFINE N == CreateGrammar \cup {"site", "display-name"}
<1>1. Sound(N, {}, {}) /\ {"display-name", "site-title", "admin-email", "admin-user"} \subseteq N
  BY DEF Sound, CreateGrammar, Password
<1>2. ASSUME NEW given \in SUBSET (N \cup {})
      PROVE  Asks(HandlerOf("envs create", given), "envs create", N \cup {}, given)
  <2>1. HandlerOf("envs create", given) = Acts({}, EnvironmentFields("envs create", given), "create-environment")
    BY HandlersFound DEF EnvsNames, EnvsHandler
  <2>. DEFINE F == EnvironmentFields("envs create", given)
  <2>2. F \subseteq N \cup {"admin-password"}
    BY <1>1 DEF EnvironmentFields, PasswordField
  <2>3. ASSUME given \cap Native = {}, F \subseteq given PROVE Cardinality(given \cap Password) = 1
    <3>. SUFFICES ASSUME Cardinality(given \cap Password) # 1 PROVE FALSE
      OBVIOUS
    <3>1. "admin-password" \in F
      BY <2>3 DEF EnvironmentFields, PasswordField
    <3>2. "admin-password" \notin N
      BY <1>1 DEF Sound
    <3>. QED BY <3>1, <3>2, <2>3
  <2>. HIDE DEF F, N
  <2>4. Asks(Acts({}, F, "create-environment"), "envs create", N \cup {}, given)
    BY <2>2, <2>3 DEF Asks, Acts, Handler, WellAsked
  <2>. QED BY <2>1, <2>4 DEF F
<1>. QED BY <1>1, <1>2, RowFits

\* A push asks for its three identifiers.
LEMMA PushEnvFits ==
  Fits("envs push", Row({"site", "source-env", "target-env", "db", "all-files", "search-replace", "file"},
                        {}, {}))
<1>. DEFINE N == {"site", "source-env", "target-env", "db", "all-files", "search-replace", "file"}
<1>1. Sound(N, {}, {})
  BY DEF Sound
<1>2. ASSUME NEW given
      PROVE  Asks(HandlerOf("envs push", given), "envs push", N \cup {}, given)
  <2>1. HandlerOf("envs push", given) =
          Acts({"site", "source-env", "target-env"} \cup
                 (IF PushScope(given) THEN {} ELSE {"scope"}), {}, "push-environment")
    BY HandlersFound DEF EnvsNames, EnvsHandler
  <2>2. ASSUME NEW ids, {"site", "source-env", "target-env"} \subseteq ids, ids \subseteq N \cup {"scope"}
        PROVE  Asks(Acts(ids, {}, "push-environment"), "envs push", N \cup {}, given)
    BY <2>2 DEF Asks, Acts, Handler, WellAsked
  <2>. QED BY <2>1, <2>2
<1>. QED BY <1>1, <1>2, RowFits

\* The commands of environments.
LEMMA EnvsFits == AllFit(EnvsGrammar)
<1>1. ASSUME NEW given
      PROVE  /\ HandlerOf("envs list", given) = ReadCommand({}, "environments")
             /\ HandlerOf("envs get", given) = ReadCommand({}, "environments")
             /\ HandlerOf("envs create-plain", given) =
                  Acts({}, {"display-name"}, "create-environment-plain")
             /\ HandlerOf("envs clone", given) =
                  Acts({}, {"display-name", "source-env"}, "create-environment-clone")
  BY HandlersFound DEF EnvsNames, EnvsHandler, EnvironmentFields
<1>2. /\ Plain("envs list", {})
      /\ Plain("envs get", {})
      /\ Plain("envs create-plain", {"display-name"})
      /\ Plain("envs clone", {"display-name", "source-env"})
  <2>1. /\ Tame(ReadCommand({}, "environments"), {})
        /\ Tame(Acts({}, {"display-name"}, "create-environment-plain"), {"display-name"})
        /\ Tame(Acts({},
                  {"display-name", "source-env"}, "create-environment-clone"),
                  {"display-name", "source-env"})
    BY DEF Tame, Handler, ReadCommand, Acts, Careful
  <2>. QED BY <1>1, <2>1, Zenon DEF Plain
<1>3. /\ Sound({"site"}, {}, {})
      /\ Sound({"site"}, {"env_id"}, {})
      /\ Sound({"site", "from-json", "display-name"}, {}, {})
      /\ Sound({"site", "from-json", "display-name", "source-env"}, {}, {})
  BY DEF Sound
<1>4. ASSUME NEW c \in {"envs list"} PROVE Fits(c, Row({"site"}, {}, {}))
  BY <1>2, <1>3, PlainFits
<1>5. ASSUME NEW c \in {"envs get"} PROVE Fits(c, Row({"site"}, {"env_id"}, {}))
  BY <1>2, <1>3, PlainFits
<1>6. ASSUME NEW c \in {"envs create"}
      PROVE  Fits(c, Row(CreateGrammar \cup {"site", "display-name"}, {}, {}))
  BY CreateEnvFits
<1>7. ASSUME NEW c \in {"envs create-plain"}
      PROVE  Fits(c, Row({"site", "from-json", "display-name"}, {}, {}))
  BY <1>2, <1>3, PlainFits
<1>8. ASSUME NEW c \in {"envs clone"}
      PROVE  Fits(c, Row({"site", "from-json", "display-name", "source-env"}, {}, {}))
  BY <1>2, <1>3, PlainFits
<1>9. ASSUME NEW c \in {"envs push"}
      PROVE  Fits(c, Row({"site", "source-env", "target-env", "db", "all-files", "search-replace",
                          "file"}, {}, {}))
  BY PushEnvFits
<1>. QED BY <1>4, <1>5, <1>6, <1>7, <1>8, <1>9, GrammarFits, JoinFits, Zenon DEF EnvsGrammar

\* The commands of domains,
LEMMA DomainsFits == AllFit(DomainsGrammar)
<1>1. ASSUME NEW given
      PROVE  /\ HandlerOf("domains list", given) = ReadCommand({"env"}, "site-domains")
             /\ HandlerOf("domains add", given) = Acts({"env"}, {"domain-name"}, "add-domain")
             /\ HandlerOf("domains verify", given) =
                  ReadCommand({"site_domain_id"}, "site-domain-verification")
             /\ HandlerOf("domains primary", given) =
                  Acts({"env"}, {"domain-id"}, "change-primary-domain")
  BY HandlersFound DEF DomainsNames, DomainsHandler, DomainFields
<1>2. /\ Plain("domains list", {"env"})
      /\ Plain("domains add", {"env", "domain-name"})
      /\ Plain("domains verify", {"site_domain_id"})
      /\ Plain("domains primary", {"env", "domain-id"})
  <2>1. /\ Tame(ReadCommand({"env"}, "site-domains"), {"env"})
        /\ Tame(Acts({"env"}, {"domain-name"}, "add-domain"), {"env", "domain-name"})
        /\ Tame(ReadCommand({"site_domain_id"}, "site-domain-verification"),
                  {"site_domain_id"})
        /\ Tame(Acts({"env"},
                  {"domain-id"}, "change-primary-domain"),
                  {"env", "domain-id"})
    BY DEF Tame, Handler, ReadCommand, Acts, Careful
  <2>. QED BY <1>1, <2>1, Zenon DEF Plain
<1>3. /\ Sound({"env"}, {}, {})
      /\ Sound({"env", "from-json", "domain-name", "setup-type"}, {}, {"setup-type"})
      /\ Sound({}, {"site_domain_id"}, {})
      /\ Sound({"env", "from-json", "domain-id"}, {}, {})
  BY DEF Sound
<1>4. ASSUME NEW c \in {"domains list"} PROVE Fits(c, Row({"env"}, {}, {}))
  BY <1>2, <1>3, PlainFits
<1>5. ASSUME NEW c \in {"domains add"}
      PROVE  Fits(c, Row({"env", "from-json", "domain-name", "setup-type"}, {}, {"setup-type"}))
  BY <1>2, <1>3, PlainFits
<1>6. ASSUME NEW c \in {"domains verify"} PROVE Fits(c, Row({}, {"site_domain_id"}, {}))
  BY <1>2, <1>3, PlainFits
<1>7. ASSUME NEW c \in {"domains primary"}
      PROVE  Fits(c, Row({"env", "from-json", "domain-id"}, {}, {}))
  BY <1>2, <1>3, PlainFits
<1>. QED BY <1>4, <1>5, <1>6, <1>7, GrammarFits, JoinFits, Zenon DEF DomainsGrammar

\* and of the DNS.
LEMMA DnsFits == AllFit(DnsGrammar)
<1>1. ASSUME NEW given
      PROVE  /\ HandlerOf("dns domains list", given) = ReadCommand({}, "dns-domains")
             /\ HandlerOf("dns records list", given) = ReadCommand({"domain"}, "dns-records")
  BY HandlersFound DEF DomainsNames, DomainsHandler
<1>2. /\ Plain("dns domains list", {})
      /\ Plain("dns records list", {"domain"})
  <2>1. /\ Tame(ReadCommand({}, "dns-domains"), {})
        /\ Tame(ReadCommand({"domain"}, "dns-records"), {"domain"})
    BY DEF Tame, Handler, ReadCommand
  <2>. QED BY <1>1, <2>1, Zenon DEF Plain
<1>3. /\ Sound({"company"}, {}, {})
      /\ Sound({"domain"}, {}, {})
  BY DEF Sound
<1>4. ASSUME NEW c \in {"dns domains list"} PROVE Fits(c, Row({"company"}, {}, {}))
  BY <1>2, <1>3, PlainFits
<1>5. ASSUME NEW c \in {"dns records list"} PROVE Fits(c, Row({"domain"}, {}, {}))
  BY <1>2, <1>3, PlainFits
<1>. QED BY <1>4, <1>5, GrammarFits, JoinFits, Zenon DEF DnsGrammar

\* A restore asks for --all-content.
LEMMA RestoreFits == Fits("backups restore", Row({"env", "backup-id", "all-content"}, {}, {}))
<1>. DEFINE N == {"env", "backup-id", "all-content"}
<1>1. Sound(N, {}, {})
  BY DEF Sound
<1>2. ASSUME NEW given
      PROVE  Asks(HandlerOf("backups restore", given), "backups restore", N \cup {}, given)
  <2>1. HandlerOf("backups restore", given) = Acts({"env", "backup-id", "all-content"}, {}, "restore-backup")
    BY HandlersFound DEF RestNames, MaintenanceHandler
  <2>2. Asks(Acts({"env", "backup-id", "all-content"}, {}, "restore-backup"), "backups restore",
             N \cup {}, given)
    BY DEF Asks, Acts, Handler, WellAsked
  <2>. QED BY <2>1, <2>2
<1>. QED BY <1>1, <1>2, RowFits

\* The commands of backups,
LEMMA BackupsFits == AllFit(BackupsGrammar)
<1>1. ASSUME NEW given
      PROVE  /\ HandlerOf("backups list", given) = ReadCommand({"env"}, "backups")
             /\ HandlerOf("backups downloadable", given) =
                  ReadCommand({"env"}, "downloadable-backups")
             /\ HandlerOf("backups create", given) = Acts({"env"}, {}, "create-backup")
  BY HandlersFound DEF RestNames, MaintenanceHandler
<1>2. /\ Plain("backups list", {"env"})
      /\ Plain("backups downloadable", {"env"})
      /\ Plain("backups create", {"env"})
  <2>1. /\ Tame(ReadCommand({"env"}, "backups"), {"env"})
        /\ Tame(ReadCommand({"env"}, "downloadable-backups"), {"env"})
        /\ Tame(Acts({"env"}, {}, "create-backup"), {"env"})
    BY DEF Tame, Handler, ReadCommand, Acts, Careful
  <2>. QED BY <1>1, <2>1, Zenon DEF Plain
<1>3. /\ Sound({"env"}, {}, {})
      /\ Sound({"env", "from-json"}, {}, {})
  BY DEF Sound
<1>4. ASSUME NEW c \in {"backups list", "backups downloadable"}
      PROVE  Fits(c, Row({"env"}, {}, {}))
  BY <1>2, <1>3, PlainFits
<1>5. ASSUME NEW c \in {"backups create"} PROVE Fits(c, Row({"env", "from-json"}, {}, {}))
  BY <1>2, <1>3, PlainFits
<1>6. ASSUME NEW c \in {"backups restore"}
      PROVE  Fits(c, Row({"env", "backup-id", "all-content"}, {}, {}))
  BY RestoreFits
<1>. QED BY <1>4, <1>5, <1>6, GrammarFits, JoinFits, Zenon DEF BackupsGrammar

\* of caches,
LEMMA CacheFits == AllFit(CacheGrammar)
<1>1. ASSUME NEW given
      PROVE  HandlerOf("cache clear", given) = Acts({}, CacheFields(given), "clear-cache")
  BY HandlersFound DEF RestNames, MaintenanceHandler
<1>2. Plain("cache clear", {"env", "cdn-cache-id"})
  <2>1. ASSUME NEW given
        PROVE  Tame(Acts({}, CacheFields(given), "clear-cache"), {"env", "cdn-cache-id"})
    BY DEF Tame, Handler, Acts, Careful, CacheFields
  <2>. QED BY <1>1, <2>1, Zenon DEF Plain
<1>3. Sound({"from-json", "env", "kind", "cdn-cache-id"}, {}, {"kind"})
  BY DEF Sound
<1>4. ASSUME NEW c \in {"cache clear"}
      PROVE  Fits(c, Row({"from-json", "env", "kind", "cdn-cache-id"}, {}, {"kind"}))
  BY <1>2, <1>3, PlainFits
<1>. QED BY <1>4, GrammarFits, JoinFits, Zenon DEF CacheGrammar

\* of PHP,
LEMMA PhpFits == AllFit(PhpGrammar)
<1>1. ASSUME NEW given
      PROVE  /\ HandlerOf("php restart", given) = Acts({"env"}, {}, "restart-php")
             /\ HandlerOf("php set-version", given) =
                  Acts({}, {"env", "php-version"}, "set-php-version")
  BY HandlersFound DEF RestNames, MaintenanceHandler
<1>2. /\ Plain("php restart", {"env"})
      /\ Plain("php set-version", {"env", "php-version"})
  <2>1. /\ Tame(Acts({"env"}, {}, "restart-php"), {"env"})
        /\ Tame(Acts({},
                  {"env", "php-version"}, "set-php-version"),
                  {"env", "php-version"})
    BY DEF Tame, Handler, Acts, Careful
  <2>. QED BY <1>1, <2>1, Zenon DEF Plain
<1>3. /\ Sound({"env"}, {}, {})
      /\ Sound({"from-json", "env", "php-version"}, {}, {})
  BY DEF Sound
<1>4. ASSUME NEW c \in {"php restart"} PROVE Fits(c, Row({"env"}, {}, {}))
  BY <1>2, <1>3, PlainFits
<1>5. ASSUME NEW c \in {"php set-version"}
      PROVE  Fits(c, Row({"from-json", "env", "php-version"}, {}, {}))
  BY <1>2, <1>3, PlainFits
<1>. QED BY <1>4, <1>5, GrammarFits, JoinFits, Zenon DEF PhpGrammar

\* of redirects,
LEMMA RedirectsFits == AllFit(RedirectsGrammar)
<1>1. ASSUME NEW given
      PROVE  /\ HandlerOf("redirects list", given) = ReadCommand({"env"}, "redirects")
             /\ HandlerOf("redirects apply", given) =
                  Acts({"env"}, {"from-json"}, "apply-redirects")
  BY HandlersFound DEF RestNames, MaintenanceHandler
<1>2. /\ Plain("redirects list", {"env"})
      /\ Plain("redirects apply", {"env", "from-json"})
  <2>1. /\ Tame(ReadCommand({"env"}, "redirects"), {"env"})
        /\ Tame(Acts({"env"}, {"from-json"}, "apply-redirects"), {"env", "from-json"})
    BY DEF Tame, Handler, ReadCommand, Acts, Careful
  <2>. QED BY <1>1, <2>1, Zenon DEF Plain
<1>3. /\ Sound({"env", "limit", "offset"}, {}, {"limit", "offset"})
      /\ Sound({"env", "from-json"}, {}, {})
  BY DEF Sound
<1>4. ASSUME NEW c \in {"redirects list"}
      PROVE  Fits(c, Row({"env", "limit", "offset"}, {}, {"limit", "offset"}))
  BY <1>2, <1>3, PlainFits
<1>5. ASSUME NEW c \in {"redirects apply"} PROVE Fits(c, Row({"env", "from-json"}, {}, {}))
  BY <1>2, <1>3, PlainFits
<1>. QED BY <1>4, <1>5, GrammarFits, JoinFits, Zenon DEF RedirectsGrammar

\* of denied addresses,
LEMMA DeniedIpsFits == AllFit(DeniedIpsGrammar)
<1>1. ASSUME NEW given
      PROVE  /\ HandlerOf("denied-ips list", given) = ReadCommand({"env"}, "denied-ips")
             /\ HandlerOf("denied-ips set", given) = Acts({}, {"env"}, "set-denied-ips")
  BY HandlersFound DEF RestNames, MaintenanceHandler
<1>2. /\ Plain("denied-ips list", {"env"})
      /\ Plain("denied-ips set", {"env"})
  <2>1. /\ Tame(ReadCommand({"env"}, "denied-ips"), {"env"})
        /\ Tame(Acts({}, {"env"}, "set-denied-ips"), {"env"})
    BY DEF Tame, Handler, ReadCommand, Acts, Careful
  <2>. QED BY <1>1, <2>1, Zenon DEF Plain
<1>3. /\ Sound({"env"}, {}, {})
      /\ Sound({"from-json", "env"}, {}, {})
  BY DEF Sound
<1>4. ASSUME NEW c \in {"denied-ips list"} PROVE Fits(c, Row({"env"}, {}, {}))
  BY <1>2, <1>3, PlainFits
<1>5. ASSUME NEW c \in {"denied-ips set"} PROVE Fits(c, Row({"from-json", "env"}, {}, {}))
  BY <1>2, <1>3, PlainFits
<1>. QED BY <1>4, <1>5, GrammarFits, JoinFits, Zenon DEF DeniedIpsGrammar

\* of plugins and themes,
LEMMA AssetFits == AllFit(AssetGrammar)
<1>1. ASSUME NEW given
      PROVE  /\ HandlerOf("wp list", given) =
                  ReadCommand(IF "company" \in given THEN {} ELSE {"env"}, "assets")
             /\ HandlerOf("wp update", given) =
                  Acts({}, {"name", "update-version"}, "update-asset")
             /\ HandlerOf("wp update-all", given) = Acts({}, {}, "bulk-update-assets")
  BY HandlersFound DEF AssetNames, WpHandler, WpFields
<1>2. /\ Plain("wp list", {"env"})
      /\ Plain("wp update", {"name", "update-version"})
      /\ Plain("wp update-all", {})
  <2>1. ASSUME NEW given
        PROVE  /\ Tame(ReadCommand(IF "company" \in given THEN {} ELSE {"env"}, "assets"),
                  {"env"})
               /\ Tame(Acts({},
                  {"name", "update-version"}, "update-asset"),
                  {"name", "update-version"})
               /\ Tame(Acts({}, {}, "bulk-update-assets"), {})
    BY DEF Tame, Handler, ReadCommand, Acts, Careful
  <2>. QED BY <1>1, <2>1, Zenon DEF Plain
<1>3. /\ Sound({"env", "company"}, {}, {})
      /\ Sound({"env", "from-json", "name", "update-version"}, {}, {})
      /\ Sound({"env", "from-json", "name"}, {}, {})
  BY DEF Sound
<1>4. ASSUME NEW c \in {"wp list"} PROVE Fits(c, Row({"env", "company"}, {}, {}))
  BY <1>2, <1>3, PlainFits
<1>5. ASSUME NEW c \in {"wp update"}
      PROVE  Fits(c, Row({"env", "from-json", "name", "update-version"}, {}, {}))
  BY <1>2, <1>3, PlainFits
<1>6. ASSUME NEW c \in {"wp update-all"}
      PROVE  Fits(c, Row({"env", "from-json", "name"}, {}, {}))
  BY <1>2, <1>3, PlainFits
<1>. QED BY <1>4, <1>5, <1>6, GrammarFits, JoinFits, Zenon DEF AssetGrammar

\* of WP-CLI,
LEMMA WpCliFits == AllFit(WpCliGrammar)
<1>1. ASSUME NEW given
      PROVE  HandlerOf("wp-cli run", given) =
                  Acts({}, WpFields("wp-cli run", given), "run-wp-cli")
  BY HandlersFound DEF AssetNames, WpHandler
<1>2. Plain("wp-cli run", {"command"})
  <2>1. ASSUME NEW given
        PROVE  Tame(Acts({}, WpFields("wp-cli run", given), "run-wp-cli"), {"command"})
    BY DEF Tame, Handler, Acts, Careful, WpFields
  <2>. QED BY <1>1, <2>1, Zenon DEF Plain
<1>3. Sound({"env", "from-json", "command", "command-stdin"}, {}, {})
  BY DEF Sound
<1>4. ASSUME NEW c \in {"wp-cli run"}
      PROVE  Fits(c, Row({"env", "from-json", "command", "command-stdin"}, {}, {}))
  BY <1>2, <1>3, PlainFits
<1>. QED BY <1>4, GrammarFits, JoinFits, Zenon DEF WpCliGrammar

\* of logs,
LEMMA LogsFits == AllFit(LogsGrammar)
<1>1. ASSUME NEW given
      PROVE  HandlerOf("logs get", given) = Handler({}, {}, {"file"}, "logs", FALSE)
  BY HandlersFound DEF AssetNames, WpHandler
<1>2. Plain("logs get", {"file"})
  <2>1. Tame(Handler({}, {}, {"file"}, "logs", FALSE), {"file"})
    BY DEF Tame, Handler
  <2>. QED BY <1>1, <2>1, Zenon DEF Plain
<1>3. Sound({"env", "file", "lines"}, {}, {"lines"})
  BY DEF Sound
<1>4. ASSUME NEW c \in {"logs get"} PROVE Fits(c, Row({"env", "file", "lines"}, {}, {"lines"}))
  BY <1>2, <1>3, PlainFits
<1>. QED BY <1>4, GrammarFits, JoinFits, Zenon DEF LogsGrammar

\* and of analytics.
LEMMA AnalyticsFits == AllFit(AnalyticsGrammar)
<1>1. ASSUME NEW given
      PROVE  /\ HandlerOf("analytics usage", given) =
                  Handler({}, {}, {"metric"}, "analytics", FALSE)
             /\ HandlerOf("analytics env", given) =
                  Handler({}, {}, {"metric"}, "analytics", FALSE)
  BY HandlersFound DEF AssetNames, WpHandler
<1>2. /\ Plain("analytics usage", {"metric"})
      /\ Plain("analytics env", {"metric"})
  <2>1. Tame(Handler({}, {}, {"metric"}, "analytics", FALSE), {"metric"})
    BY DEF Tame, Handler
  <2>. QED BY <1>1, <2>1, Zenon DEF Plain
<1>3. /\ Sound({"site", "metric"}, {}, {})
      /\ Sound({"env", "metric"}, {}, {})
  BY DEF Sound
<1>4. ASSUME NEW c \in {"analytics usage"} PROVE Fits(c, Row({"site", "metric"}, {}, {}))
  BY <1>2, <1>3, PlainFits
<1>5. ASSUME NEW c \in {"analytics env"} PROVE Fits(c, Row({"env", "metric"}, {}, {}))
  BY <1>2, <1>3, PlainFits
<1>. QED BY <1>4, <1>5, GrammarFits, JoinFits, Zenon DEF AnalyticsGrammar

(* Every command that is registered has a row that fits it.                *)
LEMMA ProgramFits == AllFit(Program)
<1>1. AllFit(SiteGroups)
  BY InventoryFits, SitesFits, EnvsFits, DomainsFits, DnsFits, JoinFits, Zenon DEF SiteGroups
<1>2. AllFit(CareGroups)
  BY BackupsFits, CacheFits, PhpFits, RedirectsFits, DeniedIpsFits, JoinFits, Zenon DEF CareGroups
<1>3. AllFit(AssetGroups)
  BY AssetFits, WpCliFits, LogsFits, AnalyticsFits, JoinFits, Zenon DEF AssetGroups
<1>. QED BY <1>1, <1>2, <1>3, JoinFits, Zenon DEF Program

(* The command of a line asks for what its row accepts.                    *)
Registered == Program[line.command].options \cup Program[line.command].arguments
LEMMA LineFits ==
  ASSUME CmdTypeOK
  PROVE  /\ line.given \subseteq Registered
         /\ Program[line.command].parsed \subseteq Registered
         /\ Handling.ids \subseteq Registered \cup {"scope", "admin-password"}
         /\ Handling.fields \subseteq Registered \cup {"scope", "admin-password"}
         /\ Handling.checks \subseteq Registered \cup {"scope", "admin-password"}
         /\ Handling.writes => WellAsked(line.command, Handling, line.given)
<1>1. line.given \in SUBSET Names(Program[line.command]) /\ Registered = Names(Program[line.command])
  BY DEF CmdTypeOK, Given, Names, Registered
<1>2. Fits(line.command, Program[line.command])
  BY ProgramFits DEF CmdTypeOK, AllFit, Commands
<1>3. Asks(Handling, line.command, Registered, line.given)
  BY <1>1, <1>2 DEF Fits, Handling
<1>4. Program[line.command].parsed \subseteq Registered
  BY <1>2 DEF Fits, Registered
<1>. QED BY <1>1, <1>3, <1>4 DEF Asks

(* There is a command that lists sites.                                    *)
LEMMA ListsSites == "sites list" \in Commands /\ {} \in Given("sites list")
<1>1. /\ Keys(SitesGrammar, SitesNames) /\ Keys(InventoryGrammar, InventoryNames)
      /\ Keys(EnvsGrammar, DOMAIN EnvsGrammar) /\ Keys(DomainsGrammar, DOMAIN DomainsGrammar)
      /\ Keys(DnsGrammar, DOMAIN DnsGrammar)
  BY GroupKeys DEF Keys
<1>2. Keys(SiteGroups, (((InventoryNames \cup SitesNames) \cup DOMAIN EnvsGrammar)
                          \cup DOMAIN DomainsGrammar) \cup DOMAIN DnsGrammar)
  BY <1>1, JoinKeys, Zenon DEF SiteGroups
<1>3. "sites list" \in DOMAIN SiteGroups
  BY <1>2 DEF Keys, SitesNames
<1>4. Keys(Program, (DOMAIN SiteGroups \cup DOMAIN CareGroups) \cup DOMAIN AssetGroups)
  <2>1. /\ Keys(SiteGroups, DOMAIN SiteGroups) /\ Keys(CareGroups, DOMAIN CareGroups)
        /\ Keys(AssetGroups, DOMAIN AssetGroups)
    BY DEF Keys
  <2>. QED BY <2>1, JoinKeys, Zenon DEF Program
<1>. QED BY <1>3, <1>4 DEF Keys, Commands, Given

\* A line that was only typed has sent nothing.
LEMMA CmdFresh ==
  ASSUME CmdStart, line.command \in Commands, line.given \in Given(line.command), LineParts
  PROVE  CmdInv
BY DEF CmdStart, CmdInv, CmdTypeOK, CommandsHonest

\* Whatever is typed, the invariant holds at the start,
LEMMA CmdStarts == CmdInit => CmdInv
<1>. SUFFICES ASSUME CmdInit PROVE CmdInv
  OBVIOUS
<1>1. /\ CmdStart /\ line.command \in Commands /\ line.given \in Given(line.command)
      /\ LineParts
  BY DEF CmdInit, LineParts
<1>. QED BY <1>1, CmdFresh

\* and of the line of a suite in which another part is at work.
LEMMA CmdRests == line = FirstLine("sites list", {}) /\ CmdStart => CmdInv
<1>. SUFFICES ASSUME line = FirstLine("sites list", {}), CmdStart PROVE CmdInv
  OBVIOUS
<1>1. line.command = "sites list" /\ line.given = {} /\ line.bad = "none" /\ line.file = "none"
  BY DEF FirstLine
<1>. QED BY <1>1, ListsSites, CmdFresh DEF LineParts

(* A refusal names what the command accepts, and nothing was sent.         *)
LEMMA RefusesWell ==
  ASSUME CmdInv, cmdAt \notin {"sent", "waiting", "done"}, NEW how \in Refusals, NEW options,
         options \subseteq Registered \cup {"scope", "admin-password", "profile", "yes"},
         Refuse(how, options)
  PROVE  CmdInv'
<1>1. /\ line' = line /\ cmdSent' = {} /\ cmdAt' = "done" /\ cmdExit' = how /\ asked' = options
      /\ Handling' = Handling
  BY DEF Refuse, ExitWith, CmdInv, Handling
<1>2. CmdTypeOK' /\ LineParts'
  BY <1>1 DEF CmdInv, CmdTypeOK, LineParts, Refusals
<1>3. CommandsHonest'
  BY <1>1 DEF CommandsHonest, Registered
<1>. QED BY <1>1, <1>2, <1>3 DEF CmdInv

(* One step per action.                                                    *)
LEMMA CmdSteps == CmdInv /\ [CmdNext]_cmdVars => CmdInv'
<1>. SUFFICES ASSUME CmdInv, [CmdNext]_cmdVars PROVE CmdInv'
  OBVIOUS
<1>0. /\ CmdTypeOK /\ LineParts /\ CommandsHonest
      /\ cmdAt \notin {"sent", "waiting", "done"} => cmdSent = {}
      /\ cmdAt # "done" => cmdExit = "none"
      /\ cmdAt \in {"ids", "body", "send"} /\ line.command = "backups restore" => line.yes
      /\ cmdAt \in {"body", "send"} => Handling.ids \subseteq line.given
      /\ cmdAt = "send" => BodyGiven
  BY DEF CmdInv
<1>f. /\ line.given \subseteq Registered
      /\ Program[line.command].parsed \subseteq Registered
      /\ Handling.ids \subseteq Registered \cup {"scope", "admin-password"}
      /\ Handling.fields \subseteq Registered \cup {"scope", "admin-password"}
      /\ Handling.checks \subseteq Registered \cup {"scope", "admin-password"}
      /\ Handling.writes => WellAsked(line.command, Handling, line.given)
  BY <1>0, LineFits
\* A step that goes on to another check.
<1>g. ASSUME NEW at \in {"profile", "confirm", "ids", "body", "send"}, GotoStep(at), cmdSent = {},
             cmdExit = "none",
             at \in {"ids", "body", "send"} /\ line.command = "backups restore" => line.yes,
             at \in {"body", "send"} => Handling.ids \subseteq line.given,
             at = "send" => BodyGiven
      PROVE  CmdInv'
  <2>1. /\ line' = line /\ cmdSent' = {} /\ cmdAt' = at /\ cmdExit' = "none" /\ asked' = asked
        /\ Handling' = Handling /\ BodyGiven' = BodyGiven
    BY <1>g DEF GotoStep, Handling, BodyGiven
  <2>2. CmdTypeOK' /\ LineParts' /\ CommandsHonest'
    BY <1>0, <2>1 DEF CmdTypeOK, LineParts, CommandsHonest
  <2>. QED BY <1>g, <2>1, <2>2 DEF CmdInv
<1>1. CASE Parse
  <2>. DEFINE wrong == (Program[line.command].arguments \ line.given) \cup
                       ({line.bad} \cap Program[line.command].parsed)
  <2>1. wrong \subseteq Registered
    BY <1>f DEF Registered
  <2>2. Refuse("usage", wrong) \/ GotoStep("profile")
    BY <1>1 DEF Parse
  <2>3. cmdAt = "parse"
    BY <1>1 DEF Parse
  <2>. HIDE DEF wrong
  <2>. QED BY <1>0, <1>g, <2>1, <2>2, <2>3, RefusesWell DEF Refusals
<1>2. CASE SelectProfile
  <2>1. cmdAt = "profile"
    BY <1>2 DEF SelectProfile
  <2>2. \/ Refuse("usage", {"profile"}) \/ Refuse("profile", {}) \/ Refuse("credential", {})
        \/ GotoStep("confirm")
    BY <1>2 DEF SelectProfile
  <2>. QED BY <1>0, <1>g, <2>1, <2>2, RefusesWell DEF Refusals
<1>3. CASE ConfirmAct
  <2>1. cmdAt = "confirm"
    BY <1>3 DEF ConfirmAct
  <2>2. \/ Refuse("confirmation", {"yes"})
        \/ GotoStep("ids") /\ (line.command = "backups restore" => line.yes)
    BY <1>3 DEF ConfirmAct
  <2>. QED BY <1>0, <1>g, <2>1, <2>2, RefusesWell DEF Refusals
<1>4. CASE RequireIds
  <2>. DEFINE wrong == (Handling.ids \ line.given) \cup ({line.bad} \cap Handling.checks)
  <2>1. wrong \subseteq Registered \cup {"scope", "admin-password"}
    BY <1>f
  <2>2. IF wrong # {} THEN Refuse("usage", wrong) ELSE GotoStep("body")
    BY <1>4 DEF RequireIds
  <2>3. cmdAt = "ids"
    BY <1>4 DEF RequireIds
  <2>4. wrong = {} => Handling.ids \subseteq line.given
    OBVIOUS
  <2>. HIDE DEF wrong
  <2>5. CASE wrong = {}
    BY <1>0, <1>g, <2>2, <2>3, <2>4, <2>5
  <2>6. CASE wrong # {}
    BY <1>0, <2>1, <2>2, <2>3, <2>6, RefusesWell DEF Refusals
  <2>. QED BY <2>5, <2>6
<1>5. CASE BuildBody
  <2>1. cmdAt = "body"
    BY <1>5 DEF BuildBody
  <2>2. \/ line.file = "unreadable" /\ Refuse("usage", {"from-json"})
        \/ Refuse("usage", Handling.fields \ line.given)
        \/ line.bad \in Password /\ Refuse("credential", {line.bad})
        \/ GotoStep("send") /\ BodyGiven
    BY <1>5 DEF BuildBody, BodyGiven
  <2>3. Handling.fields \ line.given \subseteq Registered \cup {"scope", "admin-password"}
    BY <1>f
  <2>4. line.bad \in Password => {line.bad} \subseteq Registered
    BY <1>0, <1>f DEF LineParts, Password
  <2>5. line.file = "unreadable" => {"from-json"} \subseteq Registered
    BY <1>0, <1>f DEF LineParts
  <2>6. CASE line.file = "unreadable" /\ Refuse("usage", {"from-json"})
    BY <1>0, <2>1, <2>5, <2>6, RefusesWell DEF Refusals
  <2>7. CASE Refuse("usage", Handling.fields \ line.given)
    BY <1>0, <2>1, <2>3, <2>7, RefusesWell DEF Refusals
  <2>8. CASE line.bad \in Password /\ Refuse("credential", {line.bad})
    BY <1>0, <2>1, <2>4, <2>8, RefusesWell DEF Refusals
  <2>9. CASE GotoStep("send") /\ BodyGiven
    BY <1>0, <1>g, <2>1, <2>9
  <2>. QED BY <2>2, <2>6, <2>7, <2>8, <2>9
<1>6. CASE Send
  <2>1. cmdAt = "send" /\ line' = line /\ Handling' = Handling
    BY <1>6 DEF Send, Handling
  <2>2. \/ /\ cmdSent' = {[request |-> Handling.request, writes |-> Handling.writes]}
           /\ cmdAt' = "sent" /\ cmdExit' = "none"
        \/ /\ cmdSent' = {[request |-> "capabilities", writes |-> FALSE]}
           /\ cmdAt' = "done" /\ cmdExit' = "failed"
    BY <1>0, <1>6, <2>1 DEF Send, ExitWith
  <2>3. ASSUME NEW r \in cmdSent', r.writes
        PROVE  /\ r.request = "restore-backup" => line.yes /\ "all-content" \in line.given
               /\ r.request \in {"create-site", "create-environment"} /\ line.file = "none"
                    /\ line.given \cap Native = {} =>
                      Cardinality(line.given \cap Password) = 1 /\ line.bad \notin Password
               /\ r.request = "push-environment" =>
                    {"site", "source-env", "target-env"} \subseteq line.given
    <3>1. r.request = Handling.request /\ Handling.writes
      BY <2>2, <2>3
    <3>2. WellAsked(line.command, Handling, line.given) /\ Handling.ids \subseteq line.given
      BY <1>0, <1>f, <2>1, <3>1
    <3>3. r.request = "restore-backup" => line.yes /\ "all-content" \in line.given
      BY <1>0, <2>1, <3>1, <3>2 DEF WellAsked
    <3>4. ASSUME r.request \in {"create-site", "create-environment"}, line.file = "none",
                 line.given \cap Native = {}
          PROVE  Cardinality(line.given \cap Password) = 1 /\ line.bad \notin Password
      BY <1>0, <2>1, <3>1, <3>2, <3>4 DEF WellAsked, BodyGiven
    <3>. QED BY <3>1, <3>2, <3>3, <3>4 DEF WellAsked
  <2>4. CommandsHonest'
    BY <2>1, <2>2, <2>3 DEF CommandsHonest
  <2>5. CmdTypeOK' /\ LineParts'
    BY <1>0, <2>1, <2>2 DEF CmdTypeOK, LineParts
  <2>. QED BY <2>1, <2>2, <2>4, <2>5 DEF CmdInv
<1>7. CASE CmdAnswered \/ Poll
  <2>1. /\ cmdAt \in {"sent", "waiting"} /\ line' = line /\ cmdSent' = cmdSent /\ asked' = asked
        /\ Handling' = Handling
    BY <1>7 DEF CmdAnswered, Poll, Handling
  <2>2. \/ cmdAt' = "done" /\ cmdExit' \in {"failed", "ok", "not found"}
        \/ cmdAt' = "waiting" /\ cmdExit' = "none"
    BY <1>0, <1>7, <2>1 DEF CmdAnswered, Poll, ExitWith
  <2>3. CmdTypeOK' /\ LineParts' /\ CommandsHonest'
    BY <1>0, <2>1, <2>2 DEF CmdTypeOK, LineParts, CommandsHonest
  <2>. QED BY <2>1, <2>2, <2>3 DEF CmdInv
<1>8. CASE UNCHANGED cmdVars
  <2>1. /\ line' = line /\ cmdAt' = cmdAt /\ cmdSent' = cmdSent /\ cmdExit' = cmdExit
        /\ asked' = asked
    BY <1>8 DEF cmdVars
  <2>. QED BY <1>0, <2>1 DEF CmdInv, CmdTypeOK, LineParts, CommandsHonest, BodyGiven, Handling
<1>. QED
  BY <1>1, <1>2, <1>3, <1>4, <1>5, <1>6, <1>7, <1>8 DEF CmdNext

(* Whatever was typed: a refused line wrote nothing and names what its     *)
(* command accepts, a backup is restored only with --yes and --all-content, *)
(* a site is created with one password, a push has its three ids           *)
(* (cli/hosting-command.ts, cli/hosting/).                                 *)
THEOREM CommandsHonestHolds == CmdSpec => []CommandsHonest
<1>1. CmdInv => CommandsHonest
  BY DEF CmdInv
<1>. QED BY <1>1, CmdStarts, CmdSteps, PTL DEF CmdSpec

-----------------------------------------------------------------------------
(* The suite of these parts (MCInterface): what is proved of a part is true *)
(* of every behaviour in which it, or another part, is at work.            *)

(* What every part keeps, in whatever part a behaviour is.                 *)
PartsInv ==
  /\ TypeOK /\ CmdInv /\ PluginInv /\ DashInv /\ WebInv /\ ShownInTime
  /\ UpdInv /\ RequestsCounted /\ PressInv

(* Each part starts as its invariant says.                                 *)
LEMMA PartsStart == InterfaceInit => PartsInv
<1>. SUFFICES ASSUME InterfaceInit PROVE PartsInv
  OBVIOUS
<1>1. Init /\ PInit /\ DInit /\ WInit /\ UInit /\ BInit
  BY DEF InterfaceInit
<1>2. CmdInv
  BY CmdStarts, CmdRests DEF InterfaceInit
<1>. QED
  BY <1>1, <1>2, TypeInit, PluginStarts, DashStarts, WebStarts, ShownStarts, UpdStarts,
     CountStarts, PressStarts, Zenon DEF PartsInv

(* A step of the suite is one of each part, or leaves it alone.            *)
LEMMA PartsStep ==
  ASSUME [InterfaceNext]_<<part, vars, cmdVars, piVars, dpVars, wVars, uVars, bVars>>
  PROVE  /\ [Next]_vars /\ [CmdNext]_cmdVars /\ [PNext]_piVars /\ [DNext]_dpVars
         /\ [WNext]_wVars /\ [UNext]_uVars /\ [BNext]_bVars
<1>1. CASE Only("lock") /\ Prompt /\ Next
  BY <1>1 DEF Only
<1>2. CASE Only("commands") /\ CmdNext
  BY <1>2 DEF Only
<1>3. CASE Only("install") /\ PNext
  BY <1>3 DEF Only
<1>4. CASE Only("process") /\ DNext
  BY <1>4 DEF Only
<1>5. CASE Only("web") /\ WNext
  BY <1>5 DEF Only
<1>6. CASE Only("updates") /\ UNext
  BY <1>6 DEF Only
<1>7. CASE Only("pages") /\ BNext
  BY <1>7 DEF Only
<1>8. CASE UNCHANGED <<part, vars, cmdVars, piVars, dpVars, wVars, uVars, bVars>>
  BY <1>8
<1>. QED
  BY <1>1, <1>2, <1>3, <1>4, <1>5, <1>6, <1>7, <1>8, Zenon DEF InterfaceNext

\* What every part keeps is kept in the suite.
LEMMA PartsAlways == InterfaceSpec => []PartsInv
<1>1. ASSUME PartsInv,
             [InterfaceNext]_<<part, vars, cmdVars, piVars, dpVars, wVars, uVars, bVars>>
      PROVE  PartsInv'
  <2>1. /\ [Next]_vars /\ [CmdNext]_cmdVars /\ [PNext]_piVars /\ [DNext]_dpVars
        /\ [WNext]_wVars /\ [UNext]_uVars /\ [BNext]_bVars
    BY <1>1, PartsStep
  <2>. QED
    BY <1>1, <2>1, TypeStep, CmdSteps, PluginSteps, DashSteps, WebSteps, ShownSteps, UpdSteps,
       CountSteps, PressSteps, Zenon DEF PartsInv
<1>. QED BY <1>1, PartsStart, PTL DEF InterfaceSpec

(* The state of the part at work has its type, and all that the theorems    *)
(* above rest on holds: the lock, the commands, the installation of a      *)
(* plugin, the process and the server of the dashboard, its updates and    *)
(* its pages, for any constants.                                           *)
THEOREM InterfaceTypeOKHolds == InterfaceSpec => []InterfaceTypeOK
<1>1. InterfaceInit => part \in Parts
  BY DEF InterfaceInit
<1>2. ASSUME part \in Parts,
             [InterfaceNext]_<<part, vars, cmdVars, piVars, dpVars, wVars, uVars, bVars>>
      PROVE  (part \in Parts)'
  BY <1>2 DEF InterfaceNext, Only
<1>3. PartsInv /\ part \in Parts => InterfaceTypeOK
  BY DashTyped, WebTyped, UpdatesTyped, PressTyped DEF PartsInv, InterfaceTypeOK, Parts
<1>. QED BY <1>1, <1>2, <1>3, PartsAlways, PTL DEF InterfaceSpec

(* A command does what its words say once they were confirmed, and an      *)
(* install ends well only after an answer that says so, a bare one         *)
(* included, whatever the other parts do (cli/hosting/).                   *)
THEOREM CommandsKeptHolds == InterfaceSpec => []CommandsKept
<1>1. PartsInv => CommandsKept
  BY DEF PartsInv, CmdInv, PluginInv, CommandsKept
<1>. QED BY <1>1, PartsAlways, PTL

(* All that is checked of what faces the user together: the dashboard's     *)
(* process, its server, its updates and its pages are what their sections  *)
(* say, and with prompt processes the lock is a mutex (cli, web, update,   *)
(* config/lock.ts).                                                        *)
THEOREM InterfaceSuite ==
  /\ InterfaceSpec => [](/\ DashboardHonest /\ ServedAsAsked /\ UpdatesThrottled
                         /\ PressesAnswered)
  /\ Prompt => (InterfaceSpec => ImplementsMutex)
<1>1. InterfaceInit => Init /\ DInit /\ WInit /\ UInit /\ BInit
  BY DEF InterfaceInit
<1>2. ASSUME [InterfaceNext]_<<part, vars, cmdVars, piVars, dpVars, wVars, uVars, bVars>>
      PROVE  [Next]_vars /\ [DNext]_dpVars /\ [WNext]_wVars /\ [UNext]_uVars /\ [BNext]_bVars
  BY <1>2, PartsStep
<1>3. InterfaceSpec => Spec /\ DSpec /\ WSpec /\ USpec /\ BSpec
  BY <1>1, <1>2, PTL DEF InterfaceSpec, Spec, DSpec, WSpec, USpec, BSpec
<1>4. ASSUME Prompt PROVE Spec => ImplementsMutex
  BY <1>4, ImplementsMutexHolds
<1>5. InterfaceSpec => [](/\ DashboardHonest /\ ServedAsAsked /\ UpdatesThrottled
                          /\ PressesAnswered)
  BY <1>3, DashboardHonestHolds, ServedAsAskedHolds, UpdatesThrottledHolds,
     PressesAnsweredHolds, PTL
<1>6. ASSUME Prompt PROVE InterfaceSpec => ImplementsMutex
  BY <1>3, <1>4, <1>6, PTL
<1>. QED BY <1>5, <1>6
=============================================================================
