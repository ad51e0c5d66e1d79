--------------------------- MODULE HostingProofs ---------------------------
(* Proofs about the configuration (ConfigStore), for any set of processes,  *)
(* operations and names: no completed write is lost, the nested locks       *)
(* never deadlock, and the saved profiles keep their secrets; and about     *)
(* what HQ does with it on the network: requests (HttpClient), the cPanel   *)
(* installer (Installer), the accounts and sessions of WHM (WhmAccounts).   *)
EXTENDS MCHosting, FiniteSetTheorems, SequenceTheorems, TLAPS

(* What the constants say of an operation.                                 *)
LEMMA OpHas ==
  ASSUME NEW o \in Ops
  PROVE  /\ o.kind \in Kinds /\ o.name \in Names /\ o.name \in Keys /\ o.name # ConfigKey
         /\ o.provider \in Providers /\ o.cred \in {"secret", "env", "keep"}
         /\ o.secret \in Secrets /\ o.secret # None /\ o.route \in Routes \cup {None}
         /\ o.kind \in ProfileKinds <=> o.name \in ProfileNames
         /\ o # NoOp
BY OpAssumption, SectionAssumption, NameAssumption DEF NoOp, Keys, Kinds

(* The two ways in which a queue changes.                                  *)
LEMMA QueueIs ==
  ASSUME TypeOK, NEW t \in Tasks, NEW k \in Keys
  PROVE  /\ DOMAIN Queue(t, k) = Procs /\ \A p \in Procs : DOMAIN Queue(t, k)[p] = Keys
         /\ Queue(t, k)[ProcOf[t]][k] = Append(chain[ProcOf[t]][k], t)
         /\ \A p \in Procs, l \in Keys :
              p # ProcOf[t] \/ l # k => Queue(t, k)[p][l] = chain[p][l]
BY ProcAssumption DEF TypeOK, Queue

(* Leaving a queue keeps the order of the others.                          *)
LEMMA DequeuedIs ==
  ASSUME TypeOK, NEW t \in Tasks, NEW k \in Keys
  PROVE  /\ DOMAIN Dequeued(t, k) = Procs /\ \A p \in Procs : DOMAIN Dequeued(t, k)[p] = Keys
         /\ Dequeued(t, k)[ProcOf[t]][k] = Tail(chain[ProcOf[t]][k])
         /\ \A p \in Procs, l \in Keys :
              p # ProcOf[t] \/ l # k => Dequeued(t, k)[p][l] = chain[p][l]
BY ProcAssumption DEF TypeOK, Dequeued

(* An operation that was started has the lock it asks for among the keys.  *)
LEMMA KeyOfIs ==
  ASSUME StoreInv, NEW t \in Tasks, Started(t)
  PROVE  op[t] \in Ops /\ op[t].name \in Keys \ {ConfigKey} /\ KeyOf(t) \in Keys
<1>1. op[t] \in Ops
  BY DEF StoreInv, LocksHeld
<1>2. QED
  BY <1>1, OpHas DEF KeyOf, InnerKey, Keys

(* What a save of a profile writes is a profile.                           *)
LEMMA NewProfileIs ==
  ASSUME NEW o \in Ops, o.kind \in Saves, NEW old \in Profiles \cup {None}
  PROVE  NewProfile(o, old) \in Profiles /\ NewProfile(o, old) # None
<1>1. o.name \in ProfileNames /\ o.provider \in Providers
  BY OpHas DEF Saves, ProfileKinds
<1>2. <<o.provider, o.name>> \in Ids
  BY <1>1 DEF Ids
<1>3. Reference(o, old) \in Ids \cup {Env}
  BY <1>2 DEF Reference, Profiles
<1>4. NewProfile(o, old) \in Profiles
  BY <1>1, <1>3 DEF NewProfile, Profiles
<1>5. QED
  BY <1>4, NameAssumption

(* The secret an operation makes is one of its own profile.                *)
LEMMA OwnIdIs ==
  ASSUME NEW t \in Tasks, op[t] \in Ops, op[t].kind \in ProfileKinds
  PROVE  OwnId(t) \in Ids /\ OwnId(t)[2] = op[t].name
BY OpHas DEF OwnId, Ids

(* What a profile's secret is stored under, if it has one.                 *)
LEMMA StoredIdIs ==
  ASSUME NEW profile \in Profiles \cup {None}
  PROVE  StoredId(profile) \in Ids \cup {None}
BY DEF StoredId, Profiles

(* What is forgotten is a stored secret.                                   *)
LEMMA OrphanIs ==
  ASSUME StoreInv, NEW t \in Tasks, pc[t] = "forget"
  PROVE  Orphan(op[t], existing[t]) \in Ids
<1>1. existing[t] \in Profiles \cup {None} /\ Orphan(op[t], existing[t]) # None
  BY DEF StoreInv, CoursesRight, Started
<1>2. QED
  BY <1>1, StoredIdIs DEF Orphan

(* What an operation writes is one of the values of its kind.              *)
LEMMA NewValueIs ==
  ASSUME StoreInv, NEW t \in Tasks, pc[t] = "write"
  PROVE  /\ NewValue(t) \in Value
         /\ op[t].name \in ProfileNames => NewValue(t) \in Profiles \cup {None}
<1>1. op[t] \in Ops /\ op[t].kind # "push_apply" /\ op[t].kind \in Kinds
  BY OpHas DEF StoreInv, LocksHeld, CoursesRight, Started
<1>2. CASE Removes(op[t])
  BY <1>2 DEF NewValue, Value, Removes
<1>3. CASE op[t].kind = "push_upsert"
  <2>1. ~Removes(op[t]) /\ op[t].name \notin ProfileNames
    BY <1>1, <1>3, OpHas DEF Removes, ProfileKinds
  <2>2. QED
    BY <1>1, <1>3, <2>1, OpHas DEF NewValue, Value
<1>4. CASE ~Removes(op[t]) /\ op[t].kind # "push_upsert"
  <2>1. op[t].kind \in Saves
    BY <1>1, <1>4 DEF Removes, Kinds, Saves
  <2>2. existing[t] \in Profiles \cup {None}
    BY <2>1 DEF StoreInv, CoursesRight, Started, Saves, ProfileKinds
  <2>3. NewProfile(op[t], existing[t]) \in Profiles
    BY <1>1, <2>1, <2>2, NewProfileIs
  <2>4. NewValue(t) = NewProfile(op[t], existing[t])
    BY <1>4 DEF NewValue
  <2>5. QED
    BY <2>3, <2>4 DEF Value
<1>5. QED
  BY <1>2, <1>3, <1>4

-----------------------------------------------------------------------------
(* The variables keep their types: one step per action.                    *)
LEMMA TypeStep == StoreInv /\ [Next]_storeVars => TypeOK'
<1> SUFFICES ASSUME StoreInv, [Next]_storeVars PROVE TypeOK'
  OBVIOUS
<1> USE DEF Goto, history
<1>0. TypeOK
  BY DEF StoreInv
<1>1. ASSUME NEW t \in Tasks, NEW o \in Ops, Submit(t, o) PROVE TypeOK'
  BY <1>0, <1>1, QueueIs, OpHas DEF Submit, TypeOK
<1>2. ASSUME NEW t \in Tasks, Acquire(t) PROVE TypeOK'
  <2>1. KeyOf(t) \in Keys
    BY <1>2, KeyOfIs DEF Acquire, Started
  <2>2. QED
    BY <1>0, <1>2, <2>1 DEF Acquire, TypeOK, AfterLock
<1>3. ASSUME NEW t \in Tasks, LockTimeout(t) PROVE TypeOK'
  <2>1. KeyOf(t) \in Keys
    BY <1>3, KeyOfIs DEF LockTimeout, Started
  <2>2. QED
    BY <1>0, <1>3, <2>1, DequeuedIs DEF LockTimeout, TypeOK
<1>4. ASSUME NEW t \in Tasks, EnterConfig(t) PROVE TypeOK'
  BY <1>0, <1>4, QueueIs DEF EnterConfig, TypeOK, InnerKey, Keys
<1>5. ASSUME NEW t \in Tasks, Plan(t) PROVE TypeOK'
  <2>1. op[t].name \in Names
    BY <1>5, OpHas DEF Plan, StoreInv, LocksHeld, Started
  <2>2. QED
    BY <1>0, <1>5, <2>1 DEF Plan, TypeOK
<1>6. ASSUME NEW t \in Tasks, Snapshot(t) PROVE TypeOK'
  <2>1. OwnId(t) \in Ids
    BY <1>6, OwnIdIs DEF Snapshot, StoreInv, LocksHeld, Started, CoursesRight, Saves, ProfileKinds
  <2>2. prior' \in [Tasks -> Priors]
    BY <1>0, <1>6, <2>1, SMTT(30) DEF Snapshot, TypeOK, Priors
  <2>3. QED
    BY <1>0, <1>6, <2>2 DEF Snapshot, TypeOK
<1>7. ASSUME NEW t \in Tasks, Replace(t) PROVE TypeOK'
  BY <1>0, <1>7, OpHas DEF Replace, TypeOK, StoreInv, LocksHeld, Started
<1>8. ASSUME NEW t \in Tasks, ReplaceFails(t) PROVE TypeOK'
  <2>1. op[t].secret \in Secrets
    BY <1>8, OpHas DEF ReplaceFails, StoreInv, LocksHeld, Started
  <2>2. prior' \in [Tasks -> Priors]
    BY <1>0, <1>8 DEF ReplaceFails, TypeOK, Priors, NoPrior
  <2>3. secrets' \in [Ids -> Secrets \cup {None}]
    BY <1>0, <1>8, <2>1, FaultAssumption DEF ReplaceFails, TypeOK
  <2>4. OwnId(t) \in Ids
    BY <1>8, OwnIdIs DEF ReplaceFails, StoreInv, LocksHeld, Started, CoursesRight, Saves, ProfileKinds
  <2>5. exposed' \subseteq Ids
    BY <1>0, <1>8, <2>4 DEF ReplaceFails, TypeOK
  <2>6. QED
    BY <1>0, <1>8, <2>2, <2>3, <2>5 DEF ReplaceFails, TypeOK
<1>9. ASSUME NEW t \in Tasks, Validate(t) PROVE TypeOK'
  BY <1>0, <1>9 DEF Validate, TypeOK
<1>10. ASSUME NEW t \in Tasks, Rollback(t) PROVE TypeOK'
  <2>1. op[t].name \in Keys
    BY <1>10, KeyOfIs DEF Rollback, Started
  <2>2. prior[t] # NoPrior => OwnId(t) \in Ids
    BY <1>10, OwnIdIs DEF StoreInv, CoursesRight, Saves, ProfileKinds
  <2>3. prior[t].state = "present" => prior[t].secret \in Secrets
    BY <1>0 DEF TypeOK, Priors, NoPrior
  <2>4. prior' \in [Tasks -> Priors]
    BY <1>0, <1>10 DEF Rollback, TypeOK, Priors, NoPrior
  <2>5. secrets' \in [Ids -> Secrets \cup {None}] /\ unrestored' \subseteq Ids
    BY <1>0, <1>10, <2>2, <2>3 DEF Rollback, TypeOK, PriorState
  <2>6. QED
    BY <1>0, <1>10, <2>1, <2>4, <2>5, DequeuedIs DEF Rollback, Release, TypeOK
<1>11. ASSUME NEW t \in Tasks, Load(t) PROVE TypeOK'
  BY <1>0, <1>11 DEF Load, TypeOK
<1>12. ASSUME NEW t \in Tasks, WriteDocument(t) PROVE TypeOK'
  <2>1. pc[t] = "write" /\ op[t] \in Ops /\ op[t].name \in Names /\ op[t].secret \in Secrets
    BY <1>12, OpHas DEF WriteDocument, StoreInv, LocksHeld, Started
  <2>2. NewValue(t) \in Value /\ OldEntry(t) \in Value
    BY <1>0, <2>1, NewValueIs DEF OldEntry, TypeOK
  <2>3. doc' \in [Names -> Value] /\ intended' \in [Names -> Value]
    BY <1>0, <1>12, <2>1, <2>2 DEF WriteDocument, TypeOK
  <2>4. saved' \in [Ids -> Secrets \cup {None}] /\ unrestored' \subseteq Ids
    BY <1>0, <1>12, <2>1 DEF WriteDocument, TypeOK
  <2>a. exposed' \subseteq Ids
    BY <1>0, <1>12 DEF WriteDocument, TypeOK
  <2>5. prior' \in [Tasks -> Priors] /\ existing' \in [Tasks -> Value]
    BY <1>0, <1>12, <2>2 DEF WriteDocument, TypeOK, Priors, NoPrior
  <2>6. QED
    BY <1>0, <1>12, <2>a, <2>3, <2>4, <2>5, DequeuedIs DEF WriteDocument, Release, TypeOK, Keys
<1>13. ASSUME NEW t \in Tasks, WriteFails(t) PROVE TypeOK'
  BY <1>0, <1>13, DequeuedIs DEF WriteFails, Release, TypeOK, Keys
<1>14. ASSUME NEW t \in Tasks, Leave(t) PROVE TypeOK'
  <2>1. op[t].name \in Keys
    BY <1>14, KeyOfIs DEF Leave, Started
  <2>2. QED
    BY <1>0, <1>14, <2>1, DequeuedIs DEF Leave, Release, TypeOK
<1>15. ASSUME NEW t \in Tasks, Forget(t) PROVE TypeOK'
  <2>1. Orphan(op[t], existing[t]) \in Ids
    BY <1>15, OrphanIs DEF Forget
  <2>2. QED
    BY <1>0, <1>15, <2>1 DEF Forget, TypeOK
<1>16. ASSUME NEW t \in Tasks, Compare(t) PROVE TypeOK'
  BY <1>0, <1>16 DEF Compare, TypeOK
<1>17. ASSUME NEW t \in Tasks, Execute(t) PROVE TypeOK'
  BY <1>0, <1>17 DEF Execute, TypeOK
<1>18. ASSUME NEW p \in Procs, Crash(p) PROVE TypeOK'
  <2>1. \A u \in Tasks : prior[u] # NoPrior => OwnId(u) \in Ids
    BY OwnIdIs DEF StoreInv, CoursesRight, Saves, ProfileKinds
  <2>2. unrestored' \subseteq Ids
    BY <1>0, <1>18, <2>1 DEF Crash, TypeOK
  <2>3. DOMAIN chain' = Procs /\ \A q \in Procs : DOMAIN chain'[q] = Keys
    BY <1>0, <1>18 DEF Crash, TypeOK
  <2>4. QED
    BY <1>0, <1>18, <2>2, <2>3 DEF Crash, TypeOK
<1>19. CASE UNCHANGED storeVars
  BY <1>0, <1>19 DEF storeVars, taskVars, TypeOK
<1>20. QED
  BY <1>1, <1>2, <1>3, <1>4, <1>5, <1>6, <1>7, <1>8, <1>9, <1>10, <1>11, <1>12, <1>13,
     <1>14, <1>15, <1>16, <1>17, <1>18, <1>19 DEF Next, TaskStep

-----------------------------------------------------------------------------
(* An operation has the locks of the place it is at: it gets one only when *)
(* it is free, and leaves the place when it gives one back.                *)
LEMMA LocksStep == StoreInv /\ [Next]_storeVars => LocksHeld'
<1> SUFFICES ASSUME StoreInv, [Next]_storeVars PROVE LocksHeld'
  OBVIOUS
<1> USE DEF Goto, history, LocksHeld, Started, Inside, InDocument
<1>0. TypeOK /\ LocksHeld /\ CoursesRight
  BY DEF StoreInv
<1>a. \A u \in Tasks : op[u] \in Ops => op[u].name \in Keys /\ op[u].name # ConfigKey
  BY OpHas
<1>b. ConfigKey \in Keys /\ None \notin Tasks
  BY NameAssumption DEF Keys
<1>1. ASSUME NEW t \in Tasks, NEW o \in Ops, Submit(t, o) PROVE LocksHeld'
  BY <1>0, <1>a, <1>1, OpHas DEF Submit, TypeOK
<1>2. ASSUME NEW t \in Tasks, Acquire(t) PROVE LocksHeld'
  BY <1>0, <1>a, <1>b, <1>2 DEF Acquire, AfterLock, KeyOf, InnerKey, FileFree, TypeOK
<1>3. ASSUME NEW t \in Tasks, LockTimeout(t) PROVE LocksHeld'
  BY <1>0, <1>3 DEF LockTimeout, TypeOK
<1>4. ASSUME NEW t \in Tasks, EnterConfig(t) PROVE LocksHeld'
  BY <1>0, <1>4 DEF EnterConfig, TypeOK
<1>5. ASSUME NEW t \in Tasks, Plan(t) PROVE LocksHeld'
  BY <1>0, <1>5 DEF Plan, TypeOK
<1>6. ASSUME NEW t \in Tasks, Snapshot(t) PROVE LocksHeld'
  BY <1>0, <1>6 DEF Snapshot, TypeOK
<1>7. ASSUME NEW t \in Tasks, Replace(t) PROVE LocksHeld'
  BY <1>0, <1>7 DEF Replace, TypeOK
<1>8. ASSUME NEW t \in Tasks, ReplaceFails(t) PROVE LocksHeld'
  BY <1>0, <1>8 DEF ReplaceFails, TypeOK
<1>9. ASSUME NEW t \in Tasks, Validate(t) PROVE LocksHeld'
  <2>1. /\ pc[t] = "validate" /\ UNCHANGED <<op, holder>>
        /\ pc' = [pc EXCEPT ![t] = "enter_config"] \/ pc' = [pc EXCEPT ![t] = "rollback"]
    BY <1>9 DEF Validate
  <2>2. /\ pc'[t] \in {"enter_config", "rollback"} /\ holder[op[t].name] = t
        /\ \A u \in Tasks \ {t} : pc'[u] = pc[u]
    BY <1>0, <2>1 DEF TypeOK
  <2>3. QED
    BY <1>0, <2>1, <2>2
<1>10. ASSUME NEW t \in Tasks, Rollback(t) PROVE LocksHeld'
  BY <1>0, <1>a, <1>b, <1>10 DEF Rollback, Release, TypeOK
<1>11. ASSUME NEW t \in Tasks, Load(t) PROVE LocksHeld'
  BY <1>0, <1>11 DEF Load, TypeOK
<1>12. ASSUME NEW t \in Tasks, WriteDocument(t) PROVE LocksHeld'
  BY <1>0, <1>a, <1>b, <1>12 DEF WriteDocument, Release, TypeOK
<1>13. ASSUME NEW t \in Tasks, WriteFails(t) PROVE LocksHeld'
  BY <1>0, <1>a, <1>b, <1>13 DEF WriteFails, Release, TypeOK
<1>14. ASSUME NEW t \in Tasks, Leave(t) PROVE LocksHeld'
  BY <1>0, <1>a, <1>b, <1>14 DEF Leave, Release, TypeOK
<1>15. ASSUME NEW t \in Tasks, Forget(t) PROVE LocksHeld'
  BY <1>0, <1>a, <1>15 DEF Forget, TypeOK
<1>16. ASSUME NEW t \in Tasks, Compare(t) PROVE LocksHeld'
  BY <1>0, <1>16 DEF Compare, TypeOK
<1>17. ASSUME NEW t \in Tasks, Execute(t) PROVE LocksHeld'
  BY <1>0, <1>17 DEF Execute, TypeOK
<1>18. ASSUME NEW p \in Procs, Crash(p) PROVE LocksHeld'
  BY <1>0, <1>a, <1>b, <1>18 DEF Crash, TypeOK
<1>19. CASE UNCHANGED storeVars
  BY <1>0, <1>19 DEF storeVars, taskVars
<1>20. QED
  BY <1>1, <1>2, <1>3, <1>4, <1>5, <1>6, <1>7, <1>8, <1>9, <1>10, <1>11, <1>12, <1>13,
     <1>14, <1>15, <1>16, <1>17, <1>18, <1>19 DEF Next, TaskStep

(* The course of each kind of operation is kept, with its snapshot.        *)
LEMMA CoursesStep == StoreInv /\ [Next]_storeVars => CoursesRight'
<1> SUFFICES ASSUME StoreInv, [Next]_storeVars PROVE CoursesRight'
  OBVIOUS
<1> USE DEF Goto, history, CoursesRight, Started, Saves, ProfileKinds, Transacting
<1>0. TypeOK /\ LocksHeld /\ CoursesRight /\ LoadedIsCurrent
  BY DEF StoreInv
<1>a. \A o \in Ops : o.kind \in Kinds /\ o.name \in Names
                     /\ (o.kind \in ProfileKinds <=> o.name \in ProfileNames)
  BY OpHas
<1>b. \A u \in Tasks : pc[u] \notin {"idle", "dead"} => op[u] \in Ops
  BY <1>0 DEF LocksHeld
<1>1. ASSUME NEW t \in Tasks, NEW o \in Ops, Submit(t, o) PROVE CoursesRight'
  BY <1>0, <1>1 DEF Submit, TypeOK
<1>2. ASSUME NEW t \in Tasks, Acquire(t) PROVE CoursesRight'
  <2>1. op[t] \in Ops /\ op[t].kind \in Kinds
    BY <1>a, <1>b, <1>2 DEF Acquire
  <2>2. pc' = [pc EXCEPT ![t] = AfterLock(t)]
    BY <1>2 DEF Acquire
  <2>3. /\ AfterLock(t) = "plan" => pc[t] = "wait_name" /\ op[t].kind \in Saves
        /\ AfterLock(t) = "compare" => pc[t] = "wait_name" /\ op[t].kind = "push_apply"
        /\ AfterLock(t) = "enter_config" => pc[t] = "wait_name" /\ op[t].kind # "push_apply"
        /\ AfterLock(t) = "load" => pc[t] = "wait_config"
        /\ AfterLock(t) \in {"plan", "compare", "enter_config", "load"}
    BY <1>2, <2>1 DEF Acquire, AfterLock, Kinds
  <2>4. QED
    BY <1>0, <1>2, <2>1, <2>2, <2>3 DEF Acquire, TypeOK
<1>3. ASSUME NEW t \in Tasks, LockTimeout(t) PROVE CoursesRight'
  BY <1>0, <1>3 DEF LockTimeout, TypeOK
<1>4. ASSUME NEW t \in Tasks, EnterConfig(t) PROVE CoursesRight'
  BY <1>0, <1>4 DEF EnterConfig, TypeOK
<1>5. ASSUME NEW t \in Tasks, Plan(t) PROVE CoursesRight'
  BY <1>0, <1>a, <1>b, <1>5 DEF Plan, TypeOK
<1>6. ASSUME NEW t \in Tasks, Snapshot(t) PROVE CoursesRight'
  BY <1>0, <1>b, <1>6 DEF Snapshot, TypeOK
<1>7. ASSUME NEW t \in Tasks, Replace(t) PROVE CoursesRight'
  BY <1>0, <1>7 DEF Replace, TypeOK
<1>8. ASSUME NEW t \in Tasks, ReplaceFails(t) PROVE CoursesRight'
  BY <1>0, <1>8 DEF ReplaceFails, TypeOK
<1>9. ASSUME NEW t \in Tasks, Validate(t) PROVE CoursesRight'
  BY <1>0, <1>9 DEF Validate, TypeOK
<1>10. ASSUME NEW t \in Tasks, Rollback(t) PROVE CoursesRight'
  BY <1>0, <1>10 DEF Rollback, TypeOK
<1>11. ASSUME NEW t \in Tasks, Load(t) PROVE CoursesRight'
  BY <1>0, <1>11 DEF Load, TypeOK
<1>12. ASSUME NEW t \in Tasks, WriteDocument(t) PROVE CoursesRight'
  <2>1. pc[t] = "write" /\ loaded[t] = doc /\ op[t] \in Ops
    BY <1>0, <1>b, <1>12 DEF WriteDocument, LoadedIsCurrent
  <2>2. op[t].name \in ProfileNames => NewValue(t) \in Profiles \cup {None}
    BY <2>1, NewValueIs
  <2>3. \A n \in ProfileNames : doc'[n] \in Profiles \cup {None}
    BY <1>0, <1>12, <2>1, <2>2 DEF WriteDocument, TypeOK, Names
  <2>4. op[t].kind \in ProfileKinds => OldEntry(t) \in Profiles \cup {None}
    BY <1>0, <1>a, <2>1 DEF OldEntry, Removes
  <2>5. QED
    BY <1>0, <1>12, <2>1, <2>3, <2>4 DEF WriteDocument, TypeOK
<1>13. ASSUME NEW t \in Tasks, WriteFails(t) PROVE CoursesRight'
  BY <1>0, <1>13 DEF WriteFails, TypeOK
<1>14. ASSUME NEW t \in Tasks, Leave(t) PROVE CoursesRight'
  BY <1>0, <1>14 DEF Leave, TypeOK
<1>15. ASSUME NEW t \in Tasks, Forget(t) PROVE CoursesRight'
  BY <1>0, <1>15 DEF Forget, TypeOK
<1>16. ASSUME NEW t \in Tasks, Compare(t) PROVE CoursesRight'
  BY <1>0, <1>16 DEF Compare, TypeOK
<1>17. ASSUME NEW t \in Tasks, Execute(t) PROVE CoursesRight'
  BY <1>0, <1>17 DEF Execute, TypeOK
<1>18. ASSUME NEW p \in Procs, Crash(p) PROVE CoursesRight'
  BY <1>0, <1>18 DEF Crash, TypeOK
<1>19. CASE UNCHANGED storeVars
  BY <1>0, <1>19 DEF storeVars, taskVars
<1>20. QED
  BY <1>1, <1>2, <1>3, <1>4, <1>5, <1>6, <1>7, <1>8, <1>9, <1>10, <1>11, <1>12, <1>13,
     <1>14, <1>15, <1>16, <1>17, <1>18, <1>19 DEF Next, TaskStep

-----------------------------------------------------------------------------
(* runExclusive() puts an operation that is not in a queue at its end: S   *)
(* and S2 are the operations at its lock before and after the step.        *)
LEMMA QueueGrows ==
  ASSUME NEW S, NEW S2, NEW q \in Seq(S), NEW t, OnceEach(q), t \notin S, S \cup {t} \subseteq S2
  PROVE  /\ Append(q, t) \in Seq(S2) /\ OnceEach(Append(q, t)) /\ Append(q, t) # <<>>
         /\ q # <<>> => Head(Append(q, t)) = Head(q)
<1> DEFINE r == Append(q, t)
<1>1. \A i \in 1..Len(q) : q[i] \in S /\ q[i] # t
  OBVIOUS
<1>2. q \in Seq(S2) /\ t \in S2
  BY SeqMonotonic
<1>3. r \in Seq(S2) /\ Len(r) = Len(q) + 1 /\ r[Len(q) + 1] = t
      /\ \A i \in 1..Len(q) : r[i] = q[i]
  BY <1>2
<1>4. \A i \in 1..Len(r) : i \in 1..Len(q) \/ i = Len(q) + 1
  BY <1>3
<1>5. OnceEach(r)
  BY <1>1, <1>3, <1>4 DEF OnceEach
<1>6. r # <<>> /\ (q # <<>> => Head(r) = Head(q))
  BY <1>2
<1>7. QED
  BY <1>3, <1>5, <1>6

(* The first leaves the queue, and is not in it any more.                  *)
LEMMA QueueShrinks ==
  ASSUME NEW S, NEW S2, NEW q \in Seq(S), OnceEach(q), q # <<>>, S \ {Head(q)} \subseteq S2
  PROVE  Tail(q) \in Seq(S2) /\ OnceEach(Tail(q))
<1> DEFINE r == Tail(q)
<1>1. Len(q) \in Nat /\ Len(q) >= 1 /\ q[1] = Head(q)
  OBVIOUS
<1>2. r \in Seq(S) /\ Len(r) = Len(q) - 1 /\ \A i \in 1..Len(r) : r[i] = q[i + 1]
  BY <1>1
<1>3. \A i \in 1..Len(r) : i + 1 \in 1..Len(q) /\ 1 \in 1..Len(q) /\ i + 1 # 1
  BY <1>1, <1>2
<1>4. \A i \in 1..Len(r) : r[i] \in S \ {Head(q)}
  BY <1>1, <1>2, <1>3 DEF OnceEach
<1>5. r \in Seq(S2)
  <2> HIDE DEF r
  <2>1. Len(r) \in Nat /\ r \in [1..Len(r) -> S]
    BY <1>2, LenProperties
  <2>2. r \in [1..Len(r) -> S2]
    BY <1>4, <2>1
  <2>3. QED
    BY <2>1, <2>2, SeqDef
<1>6. OnceEach(r)
  BY <1>2, <1>3 DEF OnceEach
<1>7. QED
  BY <1>5, <1>6

(* An action that leaves the queues alone keeps them right, if operations  *)
(* stay at the locks they are at and a lock file only goes to the first.   *)
LEMMA QueuesKept ==
  ASSUME TypeOK, QueuesRight, chain' = chain,
         \A u \in Tasks, k \in Keys : AtLock(u, k) => AtLock(u, k)',
         \A k \in Keys : holder'[k] \in {None, holder[k]} \/ First(holder'[k], k)
  PROVE  QueuesRight'
<1>1. ASSUME NEW p \in Procs, NEW k \in Keys
      PROVE  chain[p][k] \in Seq(TasksAt(p, k)') /\ OnceEach(chain[p][k])
  <2>1. TasksAt(p, k) \subseteq TasksAt(p, k)'
    BY DEF TasksAt
  <2>2. QED
    BY <2>1, SeqMonotonic DEF QueuesRight
<1>2. \A k \in Keys : holder'[k] # None => First(holder'[k], k)
  BY DEF QueuesRight
<1>3. QED
  BY <1>1, <1>2 DEF QueuesRight, First, OnceEach

(* Joining a queue keeps the queues in shape.                              *)
LEMMA QueuesGrow ==
  ASSUME TypeOK, QueuesRight, NEW t \in Tasks, NEW k \in Keys, chain' = Queue(t, k),
         ~AtLock(t, k), AtLock(t, k)', holder' = holder,
         \A u \in Tasks, l \in Keys : AtLock(u, l) => AtLock(u, l)'
  PROVE  QueuesRight'
<1>1. /\ chain'[ProcOf[t]][k] = Append(chain[ProcOf[t]][k], t)
      /\ \A p \in Procs, l \in Keys : p # ProcOf[t] \/ l # k => chain'[p][l] = chain[p][l]
  BY QueueIs
<1>2. ASSUME NEW p \in Procs, NEW l \in Keys
      PROVE  /\ chain'[p][l] \in Seq(TasksAt(p, l)') /\ OnceEach(chain'[p][l])
             /\ chain[p][l] # <<>> => chain'[p][l] # <<>> /\ Head(chain'[p][l]) = Head(chain[p][l])
  <2>1. TasksAt(p, l) \subseteq TasksAt(p, l)' /\ chain[p][l] \in Seq(TasksAt(p, l))
        /\ OnceEach(chain[p][l])
    BY DEF TasksAt, QueuesRight
  <2>2. CASE p = ProcOf[t] /\ l = k
    <3>1. t \notin TasksAt(p, l) /\ TasksAt(p, l) \cup {t} \subseteq TasksAt(p, l)'
      BY <2>2 DEF TasksAt
    <3>2. /\ Append(chain[p][l], t) \in Seq(TasksAt(p, l)')
          /\ OnceEach(Append(chain[p][l], t)) /\ Append(chain[p][l], t) # <<>>
          /\ chain[p][l] # <<>> => Head(Append(chain[p][l], t)) = Head(chain[p][l])
      <4>1. Append(chain[p][l], t) \in Seq(TasksAt(p, l)')
        BY <2>1, <3>1, QueueGrows
      <4>2. OnceEach(Append(chain[p][l], t))
        BY <2>1, <3>1, QueueGrows
      <4>3. Append(chain[p][l], t) # <<>>
        BY <2>1, <3>1, QueueGrows
      <4>4. chain[p][l] # <<>> => Head(Append(chain[p][l], t)) = Head(chain[p][l])
        BY <2>1, <3>1, QueueGrows
      <4>5. QED
        BY <4>1, <4>2, <4>3, <4>4
    <3>3. QED
      BY <1>1, <2>2, <3>2
  <2>3. CASE p # ProcOf[t] \/ l # k
    BY <1>1, <2>1, <2>3, SeqMonotonic
  <2>4. QED
    BY <2>2, <2>3
<1>3. ASSUME NEW l \in Keys, holder'[l] # None PROVE First(holder[l], l)'
  <2>1. First(holder[l], l) /\ holder[l] \in Tasks
    BY <1>3 DEF QueuesRight, TypeOK
  <2>2. ProcOf[holder[l]] \in Procs
    BY <2>1, ProcAssumption
  <2>3. QED
    BY <1>2, <2>1, <2>2 DEF First
<1>4. QED
  BY <1>2, <1>3 DEF QueuesRight, OnceEach

(* Leaving a queue keeps the queues in shape.                              *)
LEMMA QueuesShrink ==
  ASSUME TypeOK, QueuesRight, NEW t \in Tasks, NEW k \in Keys, First(t, k),
         chain' = Dequeued(t, k),
         \A u \in Tasks, l \in Keys : u # t \/ l # k => (AtLock(u, l) => AtLock(u, l)'),
         \A l \in Keys : holder'[l] # None =>
           holder'[l] = holder[l] /\ (l # k \/ ProcOf[holder[l]] # ProcOf[t])
  PROVE  QueuesRight'
<1>1. /\ chain'[ProcOf[t]][k] = Tail(chain[ProcOf[t]][k])
      /\ \A p \in Procs, l \in Keys : p # ProcOf[t] \/ l # k => chain'[p][l] = chain[p][l]
  BY DequeuedIs
<1>2. ASSUME NEW p \in Procs, NEW l \in Keys
      PROVE  chain'[p][l] \in Seq(TasksAt(p, l)') /\ OnceEach(chain'[p][l])
  <2>1. chain[p][l] \in Seq(TasksAt(p, l)) /\ OnceEach(chain[p][l])
    BY DEF QueuesRight
  <2>2. CASE p = ProcOf[t] /\ l = k
    <3>1. chain[p][l] # <<>> /\ Head(chain[p][l]) = t
      BY <2>2 DEF First
    <3>2. TasksAt(p, l) \ {t} \subseteq TasksAt(p, l)'
      BY DEF TasksAt
    <3>3. TasksAt(p, l) \ {Head(chain[p][l])} \subseteq TasksAt(p, l)'
      BY <3>1, <3>2
    <3>4. Tail(chain[p][l]) \in Seq(TasksAt(p, l)') /\ OnceEach(Tail(chain[p][l]))
      BY <2>1, <3>1, <3>3, QueueShrinks
    <3>5. QED
      BY <1>1, <2>2, <3>4
  <2>3. CASE p # ProcOf[t] \/ l # k
    <3>1. TasksAt(p, l) \subseteq TasksAt(p, l)'
      BY <2>3 DEF TasksAt
    <3>2. QED
      BY <1>1, <2>1, <2>3, <3>1, SeqMonotonic
  <2>4. QED
    BY <2>2, <2>3
<1>3. ASSUME NEW l \in Keys, holder'[l] # None PROVE First(holder[l], l)'
  <2>1. First(holder[l], l) /\ holder[l] \in Tasks /\ holder'[l] = holder[l]
    BY <1>3 DEF QueuesRight, TypeOK
  <2>2. ProcOf[holder[l]] \in Procs
    BY <2>1, ProcAssumption
  <2>3. chain'[ProcOf[holder[l]]][l] = chain[ProcOf[holder[l]]][l]
    BY <1>1, <1>3, <2>2
  <2>4. QED
    BY <2>1, <2>3 DEF First
<1>4. QED
  BY <1>2, <1>3 DEF QueuesRight, OnceEach

-----------------------------------------------------------------------------
(* The queues stay right: an operation joins one when it asks for the lock *)
(* and leaves it when it gives the lock back, or gives up.                 *)
LEMMA QueuesStep == StoreInv /\ [Next]_storeVars => QueuesRight'
<1> SUFFICES ASSUME StoreInv, [Next]_storeVars PROVE QueuesRight'
  OBVIOUS
<1> USE DEF Goto, Started, AtLock, Inside, InDocument
<1>0. TypeOK /\ QueuesRight /\ LocksHeld
  BY DEF StoreInv
<1>a. \A u \in Tasks : Started(u) => op[u].name \in Keys /\ op[u].name # ConfigKey
  BY OpHas DEF StoreInv, LocksHeld
<1>b. ConfigKey \in Keys /\ None \notin Tasks
  BY NameAssumption DEF Keys
<1>1. ASSUME NEW t \in Tasks, NEW o \in Ops, Submit(t, o) PROVE QueuesRight'
  <2>1. o.name \in Keys /\ ~AtLock(t, o.name) /\ AtLock(t, o.name)'
    BY <1>0, <1>1, OpHas DEF Submit, TypeOK
  <2>2. \A u \in Tasks, l \in Keys : AtLock(u, l) => AtLock(u, l)'
    BY <1>0, <1>1 DEF Submit, TypeOK
  <2>3. QED
    BY <1>0, <1>1, <2>1, <2>2, QueuesGrow DEF Submit
<1>2. ASSUME NEW t \in Tasks, Acquire(t) PROVE QueuesRight'
  <2>1. KeyOf(t) \in Keys
    BY <1>2, KeyOfIs DEF Acquire
  <2>2. \A k \in Keys : holder'[k] \in {None, holder[k]} \/ First(holder'[k], k)
    BY <1>0, <1>2, <2>1 DEF Acquire, TypeOK
  <2>3. \A u \in Tasks, k \in Keys : AtLock(u, k) => AtLock(u, k)'
    BY <1>0, <1>b, <1>2, <2>1 DEF Acquire, AfterLock, FileFree, TypeOK
  <2>4. QED
    BY <1>0, <1>2, <2>2, <2>3, QueuesKept DEF Acquire
<1>3. ASSUME NEW t \in Tasks, LockTimeout(t) PROVE QueuesRight'
  <2>1. KeyOf(t) \in Keys /\ First(t, KeyOf(t))
    BY <1>3, KeyOfIs DEF LockTimeout
  <2>2. holder[KeyOf(t)] # t
    BY <1>0, <1>a, <1>b, <1>3 DEF LockTimeout, LocksHeld, KeyOf, InnerKey
  <2>3. \A l \in Keys : holder'[l] # None =>
          holder'[l] = holder[l] /\ (l # KeyOf(t) \/ ProcOf[holder[l]] # ProcOf[t])
    BY <1>0, <1>3, <2>1, <2>2 DEF LockTimeout, QueuesRight, First
  <2>4. \A u \in Tasks, l \in Keys :
          u # t \/ l # KeyOf(t) => (AtLock(u, l) => AtLock(u, l)')
    BY <1>0, <1>3 DEF LockTimeout, KeyOf, InnerKey, TypeOK
  <2>5. QED
    BY <1>0, <1>3, <2>1, <2>3, <2>4, QueuesShrink DEF LockTimeout
<1>4. ASSUME NEW t \in Tasks, EnterConfig(t) PROVE QueuesRight'
  <2>1. ~AtLock(t, ConfigKey) /\ AtLock(t, ConfigKey)'
    BY <1>0, <1>4 DEF EnterConfig, TypeOK
  <2>2. \A u \in Tasks, l \in Keys : AtLock(u, l) => AtLock(u, l)'
    BY <1>0, <1>4 DEF EnterConfig, TypeOK
  <2>3. QED
    BY <1>0, <1>b, <1>4, <2>1, <2>2, QueuesGrow DEF EnterConfig, InnerKey
<1>5. ASSUME NEW t \in Tasks, Plan(t) PROVE QueuesRight'
  <2>1. \A u \in Tasks, k \in Keys : AtLock(u, k) => AtLock(u, k)'
    BY <1>0, <1>5 DEF Plan, TypeOK
  <2>2. QED
    BY <1>0, <1>5, <2>1, QueuesKept DEF Plan
<1>6. ASSUME NEW t \in Tasks, Snapshot(t) PROVE QueuesRight'
  <2>1. \A u \in Tasks, k \in Keys : AtLock(u, k) => AtLock(u, k)'
    BY <1>0, <1>6 DEF Snapshot, TypeOK
  <2>2. QED
    BY <1>0, <1>6, <2>1, QueuesKept DEF Snapshot
<1>7. ASSUME NEW t \in Tasks, Replace(t) PROVE QueuesRight'
  <2>1. \A u \in Tasks, k \in Keys : AtLock(u, k) => AtLock(u, k)'
    BY <1>0, <1>7 DEF Replace, TypeOK
  <2>2. QED
    BY <1>0, <1>7, <2>1, QueuesKept DEF Replace
<1>8. ASSUME NEW t \in Tasks, ReplaceFails(t) PROVE QueuesRight'
  <2>1. \A u \in Tasks, k \in Keys : AtLock(u, k) => AtLock(u, k)'
    BY <1>0, <1>8 DEF ReplaceFails, TypeOK
  <2>2. QED
    BY <1>0, <1>8, <2>1, QueuesKept DEF ReplaceFails
<1>9. ASSUME NEW t \in Tasks, Validate(t) PROVE QueuesRight'
  <2>1. \A u \in Tasks, k \in Keys : AtLock(u, k) => AtLock(u, k)'
    BY <1>0, <1>9 DEF Validate, TypeOK
  <2>2. QED
    BY <1>0, <1>9, <2>1, QueuesKept DEF Validate
<1>10. ASSUME NEW t \in Tasks, Rollback(t) PROVE QueuesRight'
  <2>1. op[t].name \in Keys /\ holder[op[t].name] = t
    BY <1>0, <1>a, <1>b, <1>10 DEF Rollback, LocksHeld
  <2>2. First(t, op[t].name)
    BY <1>0, <1>b, <2>1 DEF QueuesRight
  <2>3. \A l \in Keys : holder'[l] # None => holder'[l] = holder[l] /\ l # op[t].name
    BY <1>0, <1>10 DEF Rollback, Release, TypeOK
  <2>4. \A u \in Tasks, l \in Keys :
          u # t \/ l # op[t].name => (AtLock(u, l) => AtLock(u, l)')
    BY <1>0, <1>a, <1>b, <1>10, <2>1 DEF Rollback, Release, LocksHeld, TypeOK
  <2>5. QED
    BY <1>0, <1>10, <2>1, <2>2, <2>3, <2>4, QueuesShrink DEF Rollback, Release
<1>11. ASSUME NEW t \in Tasks, Load(t) PROVE QueuesRight'
  <2>1. \A u \in Tasks, k \in Keys : AtLock(u, k) => AtLock(u, k)'
    BY <1>0, <1>11 DEF Load, TypeOK
  <2>2. QED
    BY <1>0, <1>11, <2>1, QueuesKept DEF Load
<1>12. ASSUME NEW t \in Tasks, WriteDocument(t) PROVE QueuesRight'
  <2>1. ConfigKey \in Keys /\ holder[ConfigKey] = t
    BY <1>0, <1>a, <1>b, <1>12 DEF WriteDocument, LocksHeld
  <2>2. First(t, ConfigKey)
    BY <1>0, <1>b, <2>1 DEF QueuesRight
  <2>3. \A l \in Keys : holder'[l] # None => holder'[l] = holder[l] /\ l # ConfigKey
    BY <1>0, <1>12 DEF WriteDocument, Release, TypeOK
  <2>4. \A u \in Tasks, l \in Keys :
          u # t \/ l # ConfigKey => (AtLock(u, l) => AtLock(u, l)')
    BY <1>0, <1>a, <1>b, <1>12, <2>1 DEF WriteDocument, Release, LocksHeld, TypeOK
  <2>5. QED
    BY <1>0, <1>12, <2>1, <2>2, <2>3, <2>4, QueuesShrink DEF WriteDocument, Release
<1>13. ASSUME NEW t \in Tasks, WriteFails(t) PROVE QueuesRight'
  <2>1. ConfigKey \in Keys /\ holder[ConfigKey] = t
    BY <1>0, <1>a, <1>b, <1>13 DEF WriteFails, LocksHeld
  <2>2. First(t, ConfigKey)
    BY <1>0, <1>b, <2>1 DEF QueuesRight
  <2>3. \A l \in Keys : holder'[l] # None => holder'[l] = holder[l] /\ l # ConfigKey
    BY <1>0, <1>13 DEF WriteFails, Release, TypeOK
  <2>4. \A u \in Tasks, l \in Keys :
          u # t \/ l # ConfigKey => (AtLock(u, l) => AtLock(u, l)')
    BY <1>0, <1>a, <1>b, <1>13, <2>1 DEF WriteFails, Release, LocksHeld, TypeOK
  <2>5. QED
    BY <1>0, <1>13, <2>1, <2>2, <2>3, <2>4, QueuesShrink DEF WriteFails, Release
<1>14. ASSUME NEW t \in Tasks, Leave(t) PROVE QueuesRight'
  <2>1. op[t].name \in Keys /\ holder[op[t].name] = t
    BY <1>0, <1>a, <1>b, <1>14 DEF Leave, LocksHeld
  <2>2. First(t, op[t].name)
    BY <1>0, <1>b, <2>1 DEF QueuesRight
  <2>3. \A l \in Keys : holder'[l] # None => holder'[l] = holder[l] /\ l # op[t].name
    BY <1>0, <1>14 DEF Leave, Release, TypeOK
  <2>4. \A u \in Tasks, l \in Keys :
          u # t \/ l # op[t].name => (AtLock(u, l) => AtLock(u, l)')
    BY <1>0, <1>a, <1>b, <1>14, <2>1 DEF Leave, Release, LocksHeld, TypeOK
  <2>5. QED
    BY <1>0, <1>14, <2>1, <2>2, <2>3, <2>4, QueuesShrink DEF Leave, Release
<1>15. ASSUME NEW t \in Tasks, Forget(t) PROVE QueuesRight'
  <2>1. \A u \in Tasks, k \in Keys : AtLock(u, k) => AtLock(u, k)'
    BY <1>0, <1>15 DEF Forget, TypeOK
  <2>2. QED
    BY <1>0, <1>15, <2>1, QueuesKept DEF Forget
<1>16. ASSUME NEW t \in Tasks, Compare(t) PROVE QueuesRight'
  <2>1. \A u \in Tasks, k \in Keys : AtLock(u, k) => AtLock(u, k)'
    BY <1>0, <1>16 DEF Compare, TypeOK
  <2>2. QED
    BY <1>0, <1>16, <2>1, QueuesKept DEF Compare
<1>17. ASSUME NEW t \in Tasks, Execute(t) PROVE QueuesRight'
  <2>1. \A u \in Tasks, k \in Keys : AtLock(u, k) => AtLock(u, k)'
    BY <1>0, <1>17 DEF Execute, TypeOK
  <2>2. QED
    BY <1>0, <1>17, <2>1, QueuesKept DEF Execute
<1>18. ASSUME NEW p \in Procs, Crash(p) PROVE QueuesRight'
  <2>1. ASSUME NEW r \in Procs, NEW k \in Keys
        PROVE  chain'[r][k] \in Seq(TasksAt(r, k)') /\ OnceEach(chain'[r][k])
    <3>1. CASE r = p
      <4>1. chain'[r][k] = <<>>
        BY <1>0, <1>18, <3>1 DEF Crash, TypeOK
      <4>2. QED
        BY <4>1, EmptySeq DEF OnceEach
    <3>2. CASE r # p
      <4>1. chain'[r][k] = chain[r][k]
        BY <1>0, <1>18, <3>2 DEF Crash, TypeOK
      <4>2. TasksAt(r, k) \subseteq TasksAt(r, k)'
        BY <1>0, <1>b, <1>18, <3>2 DEF Crash, TasksAt, TypeOK
      <4>3. chain[r][k] \in Seq(TasksAt(r, k)) /\ OnceEach(chain[r][k])
        BY <1>0 DEF QueuesRight
      <4>4. QED
        BY <4>1, <4>2, <4>3, SeqMonotonic
    <3>3. QED
      BY <3>1, <3>2
  <2>2. ASSUME NEW k \in Keys, holder'[k] # None PROVE First(holder[k], k)'
    <3>1. holder[k] \in Tasks /\ ProcOf[holder[k]] # p /\ ProcOf[holder[k]] \in Procs
      BY <1>0, <1>18, <2>2, ProcAssumption DEF Crash, TypeOK
    <3>2. First(holder[k], k)
      BY <1>0, <1>b, <3>1 DEF QueuesRight
    <3>3. chain'[ProcOf[holder[k]]] = chain[ProcOf[holder[k]]] /\ holder'[k] = holder[k]
      BY <1>0, <1>18, <2>2, <3>1 DEF Crash, TypeOK
    <3>4. QED
      BY <3>2, <3>3 DEF First
  <2>3. \A k \in Keys : holder'[k] # None => holder'[k] = holder[k]
    BY <1>0, <1>18 DEF Crash, TypeOK
  <2>4. QED
    BY <2>1, <2>2, <2>3 DEF QueuesRight, OnceEach
<1>19. CASE UNCHANGED storeVars
  BY <1>0, <1>19, QueuesKept DEF storeVars, taskVars
<1>20. QED
  BY <1>1, <1>2, <1>3, <1>4, <1>5, <1>6, <1>7, <1>8, <1>9, <1>10, <1>11, <1>12, <1>13,
     <1>14, <1>15, <1>16, <1>17, <1>18, <1>19 DEF Next, TaskStep

-----------------------------------------------------------------------------
(* mutate() writes a change of the document that is there, and only of the *)
(* entry whose lock it holds.                                              *)
LEMMA KeptStep == StoreInv /\ [Next]_storeVars => LoadedIsCurrent' /\ ProfilesKept'
<1> SUFFICES ASSUME StoreInv, [Next]_storeVars PROVE LoadedIsCurrent' /\ ProfilesKept'
  OBVIOUS
<1> USE DEF Goto, history, LoadedIsCurrent, ProfilesKept, NothingLost, PushesAsReviewed
<1>0. TypeOK /\ LocksHeld /\ LoadedIsCurrent /\ ProfilesKept
  BY DEF StoreInv
<1>a. \A u \in Tasks : Started(u) => op[u].name \in Names /\ op[u].name # ConfigKey
                                     /\ op[u].name \in Keys
  BY OpHas DEF StoreInv, LocksHeld
<1>b. ConfigKey \in Keys
  BY DEF Keys
<1>1. ASSUME NEW t \in Tasks, NEW o \in Ops, Submit(t, o)
      PROVE LoadedIsCurrent' /\ ProfilesKept'
  BY <1>0, <1>1 DEF Submit, TypeOK
<1>2. ASSUME NEW t \in Tasks, Acquire(t) PROVE LoadedIsCurrent' /\ ProfilesKept'
  BY <1>0, <1>2 DEF Acquire, AfterLock, TypeOK
<1>3. ASSUME NEW t \in Tasks, LockTimeout(t) PROVE LoadedIsCurrent' /\ ProfilesKept'
  BY <1>0, <1>3 DEF LockTimeout, TypeOK
<1>4. ASSUME NEW t \in Tasks, EnterConfig(t) PROVE LoadedIsCurrent' /\ ProfilesKept'
  BY <1>0, <1>4 DEF EnterConfig, TypeOK
<1>5. ASSUME NEW t \in Tasks, Plan(t) PROVE LoadedIsCurrent' /\ ProfilesKept'
  BY <1>0, <1>5 DEF Plan, TypeOK
<1>6. ASSUME NEW t \in Tasks, Snapshot(t) PROVE LoadedIsCurrent' /\ ProfilesKept'
  BY <1>0, <1>6 DEF Snapshot, TypeOK
<1>7. ASSUME NEW t \in Tasks, Replace(t) PROVE LoadedIsCurrent' /\ ProfilesKept'
  BY <1>0, <1>7 DEF Replace, TypeOK
<1>8. ASSUME NEW t \in Tasks, ReplaceFails(t) PROVE LoadedIsCurrent' /\ ProfilesKept'
  BY <1>0, <1>8 DEF ReplaceFails, TypeOK
<1>9. ASSUME NEW t \in Tasks, Validate(t) PROVE LoadedIsCurrent' /\ ProfilesKept'
  BY <1>0, <1>9 DEF Validate, TypeOK
<1>10. ASSUME NEW t \in Tasks, Rollback(t) PROVE LoadedIsCurrent' /\ ProfilesKept'
  BY <1>0, <1>10 DEF Rollback, TypeOK
<1>11. ASSUME NEW t \in Tasks, Load(t) PROVE LoadedIsCurrent' /\ ProfilesKept'
  BY <1>0, <1>11 DEF Load, TypeOK
<1>12. ASSUME NEW t \in Tasks, WriteDocument(t) PROVE LoadedIsCurrent' /\ ProfilesKept'
  <2>1. pc[t] = "write" /\ holder[ConfigKey] = t /\ holder[op[t].name] = t
    BY <1>0, <1>12 DEF WriteDocument, LocksHeld, Inside, InDocument
  <2>2. loaded[t] = doc /\ op[t].name \in Names
    BY <1>0, <1>a, <2>1 DEF Started
  <2>3. NothingLost'
    BY <1>0, <1>12, <2>2 DEF WriteDocument, TypeOK
  <2>4. \A u \in Tasks : pc'[u] # "write"
    BY <1>0, <1>b, <1>12, <2>1 DEF WriteDocument, LocksHeld, InDocument, TypeOK
  <2>5. ASSUME NEW u \in Tasks, pc'[u] = "execute" PROVE doc'[op[u].name] = op[u].route
    <3>1. u # t /\ pc[u] = "execute"
      BY <1>0, <1>12, <2>5 DEF WriteDocument, TypeOK
    <3>2. holder[op[u].name] = u /\ op[u].name \in Names
      BY <1>0, <1>a, <3>1 DEF LocksHeld, Inside, Started
    <3>3. op[u].name # op[t].name
      BY <2>1, <3>1, <3>2
    <3>4. QED
      BY <1>0, <1>12, <2>2, <3>1, <3>2, <3>3 DEF WriteDocument, TypeOK
  <2>6. QED
    BY <1>12, <2>3, <2>4, <2>5 DEF WriteDocument
<1>13. ASSUME NEW t \in Tasks, WriteFails(t) PROVE LoadedIsCurrent' /\ ProfilesKept'
  BY <1>0, <1>13 DEF WriteFails, TypeOK
<1>14. ASSUME NEW t \in Tasks, Leave(t) PROVE LoadedIsCurrent' /\ ProfilesKept'
  BY <1>0, <1>14 DEF Leave, TypeOK
<1>15. ASSUME NEW t \in Tasks, Forget(t) PROVE LoadedIsCurrent' /\ ProfilesKept'
  BY <1>0, <1>15 DEF Forget, TypeOK
<1>16. ASSUME NEW t \in Tasks, Compare(t) PROVE LoadedIsCurrent' /\ ProfilesKept'
  BY <1>0, <1>16 DEF Compare, AsReviewed, TypeOK
<1>17. ASSUME NEW t \in Tasks, Execute(t) PROVE LoadedIsCurrent' /\ ProfilesKept'
  BY <1>0, <1>17 DEF Execute, TypeOK
<1>18. ASSUME NEW p \in Procs, Crash(p) PROVE LoadedIsCurrent' /\ ProfilesKept'
  BY <1>0, <1>18 DEF Crash, TypeOK
<1>19. CASE UNCHANGED storeVars
  BY <1>0, <1>19 DEF storeVars, taskVars
<1>20. QED
  BY <1>1, <1>2, <1>3, <1>4, <1>5, <1>6, <1>7, <1>8, <1>9, <1>10, <1>11, <1>12, <1>13,
     <1>14, <1>15, <1>16, <1>17, <1>18, <1>19 DEF Next, TaskStep

(* An empty configuration, and nobody at a lock.                           *)
LEMMA StoreInit == Init => StoreInv
<1> SUFFICES ASSUME Init PROVE StoreInv
  OBVIOUS
<1>1. TypeOK
  <2>1. prior \in [Tasks -> Priors]
    BY DEF Init, Priors
  <2>2. QED
    BY <2>1, NameAssumption DEF Init, TypeOK, Value, Keys
<1>2. LocksHeld
  BY NameAssumption DEF Init, LocksHeld, Started, Inside, InDocument
<1>3. QueuesRight
  <2>1. \A p \in Procs, k \in Keys : chain[p][k] = <<>>
    BY DEF Init
  <2>2. ASSUME NEW p \in Procs, NEW k \in Keys
        PROVE  chain[p][k] \in Seq(TasksAt(p, k)) /\ OnceEach(chain[p][k])
    <3>1. chain[p][k] = <<>>
      BY <2>1
    <3>2. <<>> \in Seq(TasksAt(p, k)) /\ OnceEach(<<>>)
      BY EmptySeq DEF OnceEach
    <3>3. QED
      BY <3>1, <3>2
  <2>3. QED
    BY <2>2 DEF Init, QueuesRight
<1>4. CoursesRight
  BY DEF Init, CoursesRight, Started, Names
<1>5. LoadedIsCurrent /\ ProfilesKept
  BY DEF Init, LoadedIsCurrent, ProfilesKept, NothingLost, PushesAsReviewed
<1>6. QED
  BY <1>1, <1>2, <1>3, <1>4, <1>5 DEF StoreInv

(* Every step of an operation keeps the locks and the files in shape.      *)
LEMMA StoreStep == StoreInv /\ [Next]_storeVars => StoreInv'
BY TypeStep, LocksStep, QueuesStep, CoursesStep, KeptStep DEF StoreInv

(* So they are in every state.                                             *)
LEMMA StoreAlways == Spec => []StoreInv
BY StoreInit, StoreStep, PTL DEF Spec

(* config.json holds what the last operation on each name wrote, whatever  *)
(* other processes wrote meanwhile and whichever died, and an environment  *)
(* is pushed as it was reviewed (config/profiles.ts, credentials/store.ts).*)
THEOREM ProfilesKeptHolds == Spec => []ProfilesKept
<1>1. StoreInv => ProfilesKept
  BY DEF StoreInv
<1>2. QED
  BY <1>1, StoreAlways, PTL

-----------------------------------------------------------------------------
(* A waiting operation whose blockers all wait is blocked by the first of  *)
(* its own queue, which waits for the same lock and is blocked by nobody.  *)
LEMMA NobodyBlocked ==
  ASSUME StoreInv, NEW T \in SUBSET {t \in Tasks : Waiting(t)}, NEW t \in T,
         \A u \in T : Blockers(u) # {} /\ Blockers(u) \subseteq T,
         pc[t] = "wait_name" => \A u \in T : pc[u] = "wait_name"
  PROVE  FALSE
<1> DEFINE k == KeyOf(t)
           c == chain[ProcOf[t]][k]
<1>0. TypeOK /\ LocksHeld /\ QueuesRight /\ t \in Tasks /\ ProcOf[t] \in Procs
  BY ProcAssumption DEF StoreInv
<1>1. \A u \in T : u \in Tasks /\ pc[u] \in {"wait_name", "wait_config"} /\ Started(u)
  BY DEF Waiting, Started
<1>2. k \in Keys /\ \A u \in T : op[u].name # ConfigKey
  BY <1>1, KeyOfIs
<1>3. \A u \in T : holder[k] # u
  BY <1>0, <1>1, <1>2 DEF LocksHeld, KeyOf, InnerKey, Inside, InDocument
<1>4. PICK u \in T : u # t /\ c # <<>> /\ Head(c) = u
  BY <1>3 DEF Blockers
<1>5. c \in Seq(TasksAt(ProcOf[t], k))
  BY <1>0, <1>2 DEF QueuesRight
<1>6. u \in TasksAt(ProcOf[t], k)
  BY <1>4, <1>5
<1>7. ProcOf[u] = ProcOf[t] /\ AtLock(u, k)
  BY <1>6 DEF TasksAt
<1>8. KeyOf(u) = k
  BY <1>1, <1>2, <1>7 DEF AtLock, KeyOf, InnerKey, Inside, InDocument
<1>9. Blockers(u) = {}
  <2>1. ASSUME NEW v \in Blockers(u) PROVE FALSE
    <3>1. v \in T
      BY <2>1
    <3>2. holder[k] # v /\ Head(c) = u
      BY <1>3, <1>4, <3>1
    <3>3. QED
      BY <1>7, <1>8, <2>1, <3>2 DEF Blockers
  <2>2. QED
    BY <2>1
<1>10. QED
  BY <1>9

(* The nested locks never deadlock, in one process or between several: a   *)
(* group of waiting operations always has one that waits for an operation  *)
(* outside the group or for nobody (runExclusive() and withLock()).        *)
THEOREM NoDeadlockHolds == Spec => []NoDeadlock
<1>1. ASSUME StoreInv PROVE NoDeadlock
  <2> SUFFICES ASSUME NEW T \in SUBSET {t \in Tasks : Waiting(t)}, T # {},
                      \A t \in T : Blockers(t) # {} /\ Blockers(t) \subseteq T
               PROVE  FALSE
    BY DEF NoDeadlock
  <2>1. CASE \E t \in T : pc[t] # "wait_name"
    <3>1. PICK t \in T : pc[t] # "wait_name"
      BY <2>1
    <3>2. pc[t] = "wait_name" => \A u \in T : pc[u] = "wait_name"
      BY <3>1
    <3>3. QED
      BY <1>1, <3>2, NobodyBlocked
  <2>2. CASE \A t \in T : pc[t] = "wait_name"
    BY <1>1, <2>2, NobodyBlocked
  <2>3. QED
    BY <2>1, <2>2
<1>2. QED
  BY <1>1, StoreAlways, PTL

-----------------------------------------------------------------------------
(* Two operations at work under the lock of their profile are never at the *)
(* same profile, nor at the same stored secret.                            *)
Working(t) == pc[t] \in Inside \/ (pc[t] = "forget" /\ holder[op[t].name] = t)

(* Two operations at work never have the same profile.                     *)
LEMMA Apart ==
  ASSUME StoreInv, NEW t \in Tasks, NEW u \in Tasks, t # u, Working(t), Working(u)
  PROVE  op[t].name # op[u].name
BY DEF StoreInv, LocksHeld, Working

(* What an operation found in the credential store, if it has looked.      *)
LEMMA PriorIs ==
  ASSUME TypeOK, NEW t \in Tasks
  PROVE  \/ prior[t] = NoPrior /\ prior[t].state = "none"
         \/ prior[t] # NoPrior /\ prior[t].state \in {"absent", "unknown"}
         \/ prior[t] # NoPrior /\ prior[t].state = "present" /\ prior[t].secret \in Secrets
BY DEF TypeOK, Priors, NoPrior

(* A step of another operation leaves alone what this one is at.           *)
LEMMA SnapshotStays ==
  ASSUME StoreInv, NEW u \in Tasks, SnapshotTrue(u),
         pc'[u] = pc[u], op'[u] = op[u], existing'[u] = existing[u], prior'[u] = prior[u],
         pc[u] = "forget" /\ holder'[op[u].name] = u => holder[op[u].name] = u,
         Working(u) => doc'[op[u].name] = doc[op[u].name],
         Working(u) /\ prior[u] # NoPrior /\ OwnId(u) \notin exposed' =>
           /\ OwnId(u) \notin exposed
           /\ secrets'[OwnId(u)] = secrets[OwnId(u)] /\ saved'[OwnId(u)] = saved[OwnId(u)]
           /\ OwnId(u) \in unrestored => OwnId(u) \in unrestored'
  PROVE  SnapshotTrue(u)'
<1>1. OwnId(u)' = OwnId(u)
  BY DEF OwnId
<1>2. CASE ~Working(u)
  BY <1>2 DEF SnapshotTrue, Working, Inside, Transacting, Replaced
<1>3. CASE Working(u)
  <2>1. CASE prior[u] = NoPrior
    <3>1. prior[u].state \notin {"present", "absent"}
      BY <2>1 DEF NoPrior
    <3>2. QED
      BY <1>1, <1>3, <2>1, <3>1 DEF SnapshotTrue
  <2>2. CASE prior[u] # NoPrior
    BY <1>1, <1>3, <2>2 DEF SnapshotTrue
  <2>3. QED
    BY <2>1, <2>2
<1>4. QED
  BY <1>2, <1>3

(* A stored secret that the step leaves alone, with whoever may restore it.*)
LEMMA SavedStays ==
  ASSUME StoreInv, NEW n \in ProfileNames, SecretSaved(n), doc'[n] = doc[n],
         ASSUME NEW i \in Ids, i = StoredId(doc[n]), i[2] = n, i \notin exposed'
         PROVE  /\ i \notin exposed
                /\ secrets'[i] = secrets[i] /\ saved'[i] = saved[i]
                /\ i \in unrestored => i \in unrestored'
                /\ holder[n] # None /\ Restores(holder[n], i) =>
                     \/ i \in unrestored'
                     \/ (holder[n] # None /\ Restores(holder[n], i))'
  PROVE  SecretSaved(n)'
<1>1. StoredId(doc[n]) \in Ids \cup {None}
  BY StoredIdIs DEF StoreInv, CoursesRight
<1>2. QED
  BY <1>1 DEF SecretSaved, Restores, OwnId

(* A step of t that changes no document, and only secrets that it exposes. *)
LEMMA ExposingStep ==
  ASSUME StoreInv, SecretsInv, NEW t \in Tasks, UNCHANGED <<doc, saved, unrestored>>,
         \A i \in Ids : i \notin exposed' => i \notin exposed /\ secrets'[i] = secrets[i],
         \A u \in Tasks \ {t} :
           /\ pc'[u] = pc[u] /\ op'[u] = op[u]
           /\ existing'[u] = existing[u] /\ prior'[u] = prior[u]
           /\ \A k \in Keys : holder'[k] = u => holder[k] = u,
         SnapshotTrue(t)',
         \A n \in ProfileNames, i \in Ids : holder[n] # None /\ Restores(holder[n], i) =>
           (holder[n] # None /\ Restores(holder[n], i))'
  PROVE  SecretsInv'
<1>1. ASSUME NEW u \in Tasks \ {t} PROVE SnapshotTrue(u)'
  <2>1. pc[u] = "forget" => op[u].name \in Keys
    BY OpHas DEF StoreInv, LocksHeld, Started
  <2>2. prior[u] # NoPrior => OwnId(u) \in Ids
    BY OwnIdIs DEF StoreInv, CoursesRight, Saves, ProfileKinds
  <2>3. QED
    BY <2>1, <2>2, SnapshotStays DEF SecretsInv
<1>2. ASSUME NEW n \in ProfileNames PROVE SecretSaved(n)'
  BY SavedStays DEF SecretsInv
<1>3. QED
  BY <1>1, <1>2 DEF SecretsInv

(* A step that changes neither the document nor a secret.                  *)
LEMMA QuietStep ==
  ASSUME StoreInv, SecretsInv, NEW t \in Tasks,
         UNCHANGED <<doc, secrets, saved, unrestored, exposed>>,
         \A u \in Tasks \ {t} :
           /\ pc'[u] = pc[u] /\ op'[u] = op[u]
           /\ existing'[u] = existing[u] /\ prior'[u] = prior[u]
           /\ \A k \in Keys : holder'[k] = u => holder[k] = u,
         SnapshotTrue(t)',
         \A n \in ProfileNames, i \in Ids : holder[n] # None /\ Restores(holder[n], i) =>
           (holder[n] # None /\ Restores(holder[n], i))'
  PROVE  SecretsInv'
BY ExposingStep

(* A step of t that writes secrets or the document, but only its own.      *)
LEMMA LoudStep ==
  ASSUME StoreInv, SecretsInv, NEW t \in Tasks, Working(t), op[t] \in Ops,
         \A n \in Names \ {op[t].name} : doc'[n] = doc[n],
         \A i \in Ids : i[2] # op[t].name =>
           /\ secrets'[i] = secrets[i] /\ saved'[i] = saved[i]
           /\ i \in unrestored => i \in unrestored'
           /\ i \in exposed => i \in exposed',
         op' = op,
         \A u \in Tasks \ {t} :
           /\ pc'[u] = pc[u] /\ existing'[u] = existing[u] /\ prior'[u] = prior[u]
           /\ \A k \in Keys : holder'[k] = u => holder[k] = u,
         \A n \in ProfileNames \ {op[t].name} : holder'[n] = holder[n],
         SnapshotTrue(t)', op[t].name \in ProfileNames => SecretSaved(op[t].name)'
  PROVE  SecretsInv'
<1>0. /\ \A u \in Tasks : Working(u) => op[u] \in Ops /\ op[u].name \in Names
      /\ \A u \in Tasks : prior[u] # NoPrior => op[u] \in Ops /\ OwnId(u) \in Ids
                                                /\ OwnId(u)[2] = op[u].name
  BY OpHas, OwnIdIs
     DEF StoreInv, LocksHeld, CoursesRight, Working, Started, Inside, Saves, ProfileKinds
<1>1. ASSUME NEW u \in Tasks \ {t} PROVE SnapshotTrue(u)'
  <2>1. Working(u) => op[u].name # op[t].name /\ op[u].name \in Names
    BY <1>0, Apart
  <2>2. Working(u) => doc'[op[u].name] = doc[op[u].name]
    BY <2>1
  <2>3. Working(u) /\ prior[u] # NoPrior =>
           /\ secrets'[OwnId(u)] = secrets[OwnId(u)] /\ saved'[OwnId(u)] = saved[OwnId(u)]
           /\ OwnId(u) \in unrestored => OwnId(u) \in unrestored'
           /\ OwnId(u) \in exposed => OwnId(u) \in exposed'
    BY <1>0, <2>1
  <2>4. pc[u] = "forget" => op[u].name \in Keys
    BY OpHas DEF StoreInv, LocksHeld, Started
  <2>5. QED
    BY <2>2, <2>3, <2>4, SnapshotStays DEF SecretsInv
<1>2. ASSUME NEW n \in ProfileNames PROVE SecretSaved(n)'
  <2>1. CASE n = op[t].name
    BY <2>1
  <2>2. CASE n # op[t].name
    <3>1. doc'[n] = doc[n] /\ SecretSaved(n)
      BY <2>2 DEF Names, SecretsInv
    <3>2. ASSUME NEW i \in Ids, i[2] = n, holder[n] # None, Restores(holder[n], i)
          PROVE  (holder[n] # None /\ Restores(holder[n], i))'
      <4>1. holder[n] \in Tasks /\ OwnId(holder[n]) = i
        BY <3>2 DEF StoreInv, TypeOK, Keys, Names, Restores
      <4>2. prior[holder[n]] # NoPrior
        BY <3>2 DEF Restores, NoPrior
      <4>3. op[holder[n]].name = n
        BY <1>0, <3>2, <4>1, <4>2
      <4>4. holder[n] # t /\ holder'[n] = holder[n]
        BY <2>2, <4>3
      <4>5. QED
        BY <3>2, <4>1, <4>4 DEF Restores, OwnId
    <3>3. ASSUME NEW i \in Ids, i = StoredId(doc[n]), i[2] = n, i \notin exposed'
          PROVE /\ i \notin exposed
                /\ secrets'[i] = secrets[i] /\ saved'[i] = saved[i]
                /\ i \in unrestored => i \in unrestored'
                /\ holder[n] # None /\ Restores(holder[n], i) =>
                     \/ i \in unrestored'
                     \/ (holder[n] # None /\ Restores(holder[n], i))'
      BY <2>2, <3>2, <3>3
    <3>4. QED
      BY <3>1, <3>3, SavedStays
  <2>3. QED
    BY <2>1, <2>2
<1>3. QED
  BY <1>1, <1>2 DEF SecretsInv

(* The secrets stay saved: what replace() overwrites is put back or named  *)
(* by the document, and nothing that is still named is forgotten.          *)
LEMMA SecretsStep ==
  ASSUME StoreInv, SecretsInv, [Next]_storeVars PROVE SecretsInv'
<1> USE DEF Goto, history, Transacting, Replaced
<1>0. TypeOK /\ LocksHeld /\ CoursesRight /\ StoreInv /\ SecretsInv /\ LoadedIsCurrent
  BY DEF StoreInv
<1>a. \A u \in Tasks : Started(u) => op[u] \in Ops
  BY <1>0 DEF LocksHeld
<1>b. \A u \in Tasks :
        /\ SnapshotTrue(u)
        /\ prior[u] = NoPrior \/ prior[u].state \in {"absent", "unknown", "present"}
        /\ prior[u] = NoPrior => prior[u].state = "none"
        /\ prior[u] # NoPrior => pc[u] \in Transacting \cup {"dead"}
  BY <1>0, PriorIs DEF CoursesRight, SecretsInv, NoPrior
<1>c. \A n \in ProfileNames : n \in Keys /\ n # ConfigKey /\ (holder[n] # None => holder[n] \in Tasks)
  BY <1>0, NameAssumption DEF TypeOK, Keys, Names
<1>d. \A o \in Ops : o.kind \in Kinds
  BY OpHas
<1>e. None \notin Tasks
  BY NameAssumption
<1>1. ASSUME NEW t \in Tasks, NEW o \in Ops, Submit(t, o) PROVE SecretsInv'
  <2>1. SnapshotTrue(t)'
    BY <1>0, <1>1 DEF Submit, SnapshotTrue, TypeOK
  <2>2. \A n \in ProfileNames, i \in Ids : holder[n] # None /\ Restores(holder[n], i) =>
           (holder[n] # None /\ Restores(holder[n], i))'
    BY <1>0, <1>c, <1>1 DEF Submit, Restores, OwnId, TypeOK
  <2>3. QED
    BY <1>0, <1>1, <2>1, <2>2, QuietStep DEF Submit, TypeOK
<1>2. ASSUME NEW t \in Tasks, Acquire(t) PROVE SecretsInv'
  <2>1. SnapshotTrue(t)'
    BY <1>0, <1>b, <1>2, <1>a, <1>d
       DEF Acquire, SnapshotTrue, OwnId, TypeOK, AfterLock, Started, Kinds, Saves
  <2>2. \A n \in ProfileNames, i \in Ids : holder[n] # None /\ Restores(holder[n], i) =>
           (holder[n] # None /\ Restores(holder[n], i))'
    BY <1>0, <1>c, <1>2 DEF Acquire, Restores, OwnId, TypeOK, AfterLock, FileFree
  <2>3. QED
    BY <1>0, <1>2, <2>1, <2>2, QuietStep DEF Acquire, TypeOK
<1>3. ASSUME NEW t \in Tasks, LockTimeout(t) PROVE SecretsInv'
  <2>1. SnapshotTrue(t)'
    BY <1>0, <1>b, <1>3 DEF LockTimeout, SnapshotTrue, OwnId, TypeOK
  <2>2. \A n \in ProfileNames, i \in Ids : holder[n] # None /\ Restores(holder[n], i) =>
           (holder[n] # None /\ Restores(holder[n], i))'
    BY <1>0, <1>c, <1>3 DEF LockTimeout, Restores, OwnId, TypeOK
  <2>3. QED
    BY <1>0, <1>3, <2>1, <2>2, QuietStep DEF LockTimeout, TypeOK
<1>4. ASSUME NEW t \in Tasks, EnterConfig(t) PROVE SecretsInv'
  <2>1. SnapshotTrue(t)'
    BY <1>0, <1>b, <1>4 DEF EnterConfig, SnapshotTrue, OwnId, TypeOK
  <2>2. \A n \in ProfileNames, i \in Ids : holder[n] # None /\ Restores(holder[n], i) =>
           (holder[n] # None /\ Restores(holder[n], i))'
    BY <1>0, <1>c, <1>4 DEF EnterConfig, Restores, OwnId, TypeOK
  <2>3. QED
    BY <1>0, <1>4, <2>1, <2>2, QuietStep DEF EnterConfig, TypeOK
<1>5. ASSUME NEW t \in Tasks, Plan(t) PROVE SecretsInv'
  <2>1. SnapshotTrue(t)'
    BY <1>0, <1>b, <1>5 DEF Plan, SnapshotTrue, OwnId, TypeOK
  <2>2. \A n \in ProfileNames, i \in Ids : holder[n] # None /\ Restores(holder[n], i) =>
           (holder[n] # None /\ Restores(holder[n], i))'
    BY <1>0, <1>c, <1>5 DEF Plan, Restores, OwnId, TypeOK
  <2>3. QED
    BY <1>0, <1>5, <2>1, <2>2, QuietStep DEF Plan, TypeOK
<1>9. ASSUME NEW t \in Tasks, Validate(t) PROVE SecretsInv'
  <2>1. SnapshotTrue(t)'
    BY <1>0, <1>b, <1>9 DEF Validate, SnapshotTrue, OwnId, TypeOK
  <2>2. \A n \in ProfileNames, i \in Ids : holder[n] # None /\ Restores(holder[n], i) =>
           (holder[n] # None /\ Restores(holder[n], i))'
    BY <1>0, <1>c, <1>9 DEF Validate, Restores, OwnId, TypeOK
  <2>3. QED
    BY <1>0, <1>9, <2>1, <2>2, QuietStep DEF Validate, TypeOK
<1>11. ASSUME NEW t \in Tasks, Load(t) PROVE SecretsInv'
  <2>1. SnapshotTrue(t)'
    BY <1>0, <1>b, <1>11 DEF Load, SnapshotTrue, OwnId, TypeOK
  <2>2. \A n \in ProfileNames, i \in Ids : holder[n] # None /\ Restores(holder[n], i) =>
           (holder[n] # None /\ Restores(holder[n], i))'
    BY <1>0, <1>c, <1>11 DEF Load, Restores, OwnId, TypeOK
  <2>3. QED
    BY <1>0, <1>11, <2>1, <2>2, QuietStep DEF Load, TypeOK
<1>13. ASSUME NEW t \in Tasks, WriteFails(t) PROVE SecretsInv'
  <2>1. SnapshotTrue(t)'
    BY <1>0, <1>b, <1>13 DEF WriteFails, SnapshotTrue, OwnId, TypeOK
  <2>2. \A n \in ProfileNames, i \in Ids : holder[n] # None /\ Restores(holder[n], i) =>
           (holder[n] # None /\ Restores(holder[n], i))'
    BY <1>0, <1>c, <1>13 DEF WriteFails, Restores, OwnId, TypeOK, Release
  <2>3. QED
    BY <1>0, <1>e, <1>13, <2>1, <2>2, QuietStep DEF WriteFails, Release, TypeOK
<1>14. ASSUME NEW t \in Tasks, Leave(t) PROVE SecretsInv'
  <2>1. SnapshotTrue(t)'
    <3>1. op[t].name \in Keys
      BY <1>a, <1>14, OpHas DEF Leave, Started
    <3>2. holder'[op[t].name] # t /\ pc'[t] \in {"forget", "done"} /\ op' = op
      BY <1>0, <1>e, <1>14, <3>1 DEF Leave, Release, TypeOK
    <3>3. QED
      BY <3>2 DEF SnapshotTrue
  <2>2. \A n \in ProfileNames, i \in Ids : holder[n] # None /\ Restores(holder[n], i) =>
           (holder[n] # None /\ Restores(holder[n], i))'
    BY <1>0, <1>c, <1>14 DEF Leave, Restores, OwnId, TypeOK, Release, LocksHeld, Inside
  <2>3. QED
    BY <1>0, <1>e, <1>14, <2>1, <2>2, QuietStep DEF Leave, Release, TypeOK
<1>16. ASSUME NEW t \in Tasks, Compare(t) PROVE SecretsInv'
  <2>1. SnapshotTrue(t)'
    BY <1>0, <1>b, <1>16 DEF Compare, SnapshotTrue, OwnId, TypeOK
  <2>2. \A n \in ProfileNames, i \in Ids : holder[n] # None /\ Restores(holder[n], i) =>
           (holder[n] # None /\ Restores(holder[n], i))'
    BY <1>0, <1>c, <1>16 DEF Compare, Restores, OwnId, TypeOK
  <2>3. QED
    BY <1>0, <1>16, <2>1, <2>2, QuietStep DEF Compare, TypeOK
<1>17. ASSUME NEW t \in Tasks, Execute(t) PROVE SecretsInv'
  <2>1. SnapshotTrue(t)'
    BY <1>0, <1>b, <1>17 DEF Execute, SnapshotTrue, OwnId, TypeOK
  <2>2. \A n \in ProfileNames, i \in Ids : holder[n] # None /\ Restores(holder[n], i) =>
           (holder[n] # None /\ Restores(holder[n], i))'
    BY <1>0, <1>c, <1>17 DEF Execute, Restores, OwnId, TypeOK
  <2>3. QED
    BY <1>0, <1>17, <2>1, <2>2, QuietStep DEF Execute, TypeOK
<1>6. ASSUME NEW t \in Tasks, Snapshot(t) PROVE SecretsInv'
  <2>1. op[t] \in Ops /\ op[t].name \in ProfileNames /\ OwnId(t) \in Ids /\ OwnId(t)[2] = op[t].name
    BY <1>0, <1>a, <1>6, OpHas, OwnIdIs DEF Snapshot, CoursesRight, Saves, ProfileKinds, Started
  <2>2. SecretSaved(op[t].name) /\ (holder[op[t].name] = t)
    BY <1>0, <1>6, <2>1 DEF Snapshot, SecretsInv, LocksHeld, Inside
  <2>3. ~Restores(holder[op[t].name], OwnId(t))
    BY <1>6, <2>2 DEF Restores, Snapshot
  <2>4. StoredId(doc[op[t].name]) = OwnId(t) /\ OwnId(t) \notin exposed =>
          /\ secrets[OwnId(t)] # None
          /\ OwnId(t) \in unrestored \/ secrets[OwnId(t)] = saved[OwnId(t)]
    BY <2>1, <2>2, <2>3, NameAssumption DEF SecretSaved
  <2>5. SnapshotTrue(t)'
    BY <1>0, <1>b, <1>6, <2>4 DEF Snapshot, SnapshotTrue, OwnId, TypeOK, NoPrior
  <2>6. \A n \in ProfileNames, i \in Ids : holder[n] # None /\ Restores(holder[n], i) =>
           (holder[n] # None /\ Restores(holder[n], i))'
    BY <1>0, <1>c, <1>6 DEF Snapshot, Restores, OwnId, TypeOK
  <2>7. QED
    BY <1>0, <1>6, <2>5, <2>6, QuietStep DEF Snapshot, TypeOK
<1>7. ASSUME NEW t \in Tasks, Replace(t) PROVE SecretsInv'
  <2>1. /\ op[t] \in Ops /\ op[t].name \in ProfileNames /\ op[t].secret # None
        /\ OwnId(t) \in Ids /\ OwnId(t)[2] = op[t].name /\ Working(t)
    BY <1>0, <1>a, <1>7, OpHas, OwnIdIs
       DEF Replace, CoursesRight, Saves, ProfileKinds, Started, Working, Inside
  <2>2. SecretSaved(op[t].name) /\ holder[op[t].name] = t /\ t # None
    BY <1>0, <1>7, <2>1, NameAssumption DEF Replace, SecretsInv, LocksHeld, Inside
  <2>3. SnapshotTrue(t)'
    BY <1>0, <1>b, <1>7, <2>1 DEF Replace, SnapshotTrue, OwnId, TypeOK
  <2>4. SecretSaved(op[t].name)'
    <3> DEFINE i == StoredId(doc[op[t].name])
    <3>1. i \in Ids \cup {None}
      BY <1>0, <2>1, StoredIdIs DEF CoursesRight
    <3>0. exposed' = exposed
      BY <1>7 DEF Replace
    <3>a. CASE i = OwnId(t) /\ i \in exposed
      BY <1>7, <2>1, <3>a, <3>0 DEF Replace, SecretSaved
    <3>2. CASE i = OwnId(t) /\ i \notin exposed
      <4>1. op[t].kind \in Saves /\ op[t].cred = "secret"
        BY <1>0, <1>d, <1>7, <2>1 DEF Replace, CoursesRight, Saves
      <4>2. prior[t].state \in {"unknown", "present"}
        BY <1>b, <1>7, <3>2, <4>1 DEF Replace, SnapshotTrue
      <4>3. secrets'[i] # None
        BY <1>0, <1>7, <2>1, <3>2 DEF Replace, TypeOK
      <4>4. (holder[op[t].name] # None /\ Restores(holder[op[t].name], OwnId(t)))'
        BY <1>0, <1>7, <2>2, <4>2 DEF Replace, Restores, OwnId, TypeOK
      <4>5. QED
        BY <1>7, <2>1, <3>2, <4>3, <4>4 DEF Replace, SecretSaved, Restores, OwnId
    <3>3. CASE i # OwnId(t)
      <4>1. ~Restores(t, i)
        BY <1>7 DEF Replace, Restores
      <4>2. i # None => secrets'[i] = secrets[i]
        BY <1>0, <1>7, <3>1, <3>3 DEF Replace, TypeOK
      <4>3. QED
        BY <1>7, <2>2, <3>0, <3>1, <4>1, <4>2 DEF Replace, SecretSaved
    <3>4. QED
      BY <3>a, <3>2, <3>3
  <2>5. \A i \in Ids : i[2] # op[t].name => secrets'[i] = secrets[i]
    BY <1>0, <1>7, <2>1 DEF Replace, TypeOK
  <2>6. QED
    BY <1>0, <1>7, <2>1, <2>3, <2>4, <2>5, LoudStep DEF Replace, TypeOK
<1>8. ASSUME NEW t \in Tasks, ReplaceFails(t) PROVE SecretsInv'
  <2>1. \A i \in Ids : i \notin exposed' => i \notin exposed /\ secrets'[i] = secrets[i]
    BY <1>0, <1>8 DEF ReplaceFails, TypeOK
  <2>2. SnapshotTrue(t)'
    BY <1>0, <1>8 DEF ReplaceFails, SnapshotTrue, TypeOK, NoPrior
  <2>3. \A n \in ProfileNames, i \in Ids : holder[n] # None /\ Restores(holder[n], i) =>
           (holder[n] # None /\ Restores(holder[n], i))'
    BY <1>0, <1>c, <1>8 DEF ReplaceFails, Restores, OwnId, TypeOK
  <2>4. QED
    BY <1>0, <1>8, <2>1, <2>2, <2>3, ExposingStep DEF ReplaceFails, TypeOK
<1>10. ASSUME NEW t \in Tasks, Rollback(t) PROVE SecretsInv'
  <2>1. /\ op[t] \in Ops /\ op[t].name \in Names /\ Working(t)
        /\ prior[t] # NoPrior => OwnId(t) \in Ids /\ OwnId(t)[2] = op[t].name
    BY <1>0, <1>a, <1>10, OpHas, OwnIdIs
       DEF Rollback, CoursesRight, Saves, ProfileKinds, Started, Working, Inside
  <2>2. holder[op[t].name] = t
    BY <1>0, <1>10 DEF Rollback, LocksHeld, Inside
  <2>3. SnapshotTrue(t)'
    BY <1>0, <1>10 DEF Rollback, SnapshotTrue, TypeOK, NoPrior
  <2>4. ASSUME op[t].name \in ProfileNames PROVE SecretSaved(op[t].name)'
    <3> DEFINE i == StoredId(doc[op[t].name])
    <3>0. SecretSaved(op[t].name) /\ i \in Ids \cup {None} /\ exposed' = exposed
      BY <1>0, <1>10, <2>4, StoredIdIs DEF CoursesRight, SecretsInv, Rollback
    <3>1. CASE prior[t] = NoPrior
      <4>1. ~Restores(t, i) /\ secrets' = secrets /\ unrestored' = unrestored
        BY <1>b, <1>10, <3>1 DEF Rollback, Restores, PriorState
      <4>2. QED
        BY <1>10, <2>2, <3>0, <4>1 DEF Rollback, SecretSaved
    <3>2. CASE prior[t] # NoPrior /\ i # OwnId(t)
      <4>1. ~Restores(t, i)
        BY <3>2 DEF Restores
      <4>2. i # None => secrets'[i] = secrets[i]
        BY <1>0, <1>10, <3>0, <3>2 DEF Rollback, PriorState, TypeOK
      <4>3. i \in unrestored => i \in unrestored'
        BY <1>10 DEF Rollback
      <4>4. QED
        BY <1>10, <2>2, <3>0, <4>1, <4>2, <4>3 DEF Rollback, SecretSaved
    <3>a. CASE prior[t] # NoPrior /\ i = OwnId(t) /\ i \in exposed
      BY <1>10, <3>0, <3>a DEF Rollback, SecretSaved
    <3>3. CASE prior[t] # NoPrior /\ i = OwnId(t) /\ i \notin exposed
      <4>1. i \in Ids /\ i[2] = op[t].name /\ secrets[i] # None
        BY <2>1, <3>0, <3>3, NameAssumption DEF SecretSaved
      <4>2. prior[t].state \in {"unknown", "present"}
        BY <1>b, <1>10, <3>3 DEF Rollback, SnapshotTrue
      <4>3. prior[t].state = "present" => prior[t].secret \in Secrets
                                          /\ (i \in unrestored \/ prior[t].secret = saved[i])
        BY <1>0, <1>b, <1>10, <3>3, PriorIs DEF Rollback, SnapshotTrue
      <4>4. CASE prior[t].state = "present" /\ secrets' = [secrets EXCEPT ![OwnId(t)] = prior[t].secret]
                 /\ unrestored' = unrestored
        <5>1. secrets'[i] = prior[t].secret /\ prior[t].secret # None
          BY <1>0, <3>3, <4>1, <4>3, <4>4, NameAssumption DEF TypeOK
        <5>2. QED
          BY <1>10, <4>1, <4>3, <4>4, <5>1 DEF Rollback, SecretSaved
      <4>5. CASE secrets' = secrets /\ unrestored' = unrestored \cup {OwnId(t)}
        BY <1>10, <3>3, <4>1, <4>5 DEF Rollback, SecretSaved
      <4>6. QED
        BY <1>10, <4>2, <4>4, <4>5 DEF Rollback, PriorState
    <3>4. QED
      BY <3>a, <3>1, <3>2, <3>3
  <2>5. \A i \in Ids : i[2] # op[t].name =>
          secrets'[i] = secrets[i] /\ (i \in unrestored => i \in unrestored')
    BY <1>0, <1>b, <1>10, <2>1 DEF Rollback, PriorState, TypeOK
  <2>h. \A u \in Tasks \ {t}, k \in Keys : holder'[k] = u => holder[k] = u
    BY <1>0, <1>e, <1>10 DEF Rollback, Release, TypeOK
  <2>6. QED
    BY <1>0, <1>c, <1>10, <2>h, <2>1, <2>3, <2>4, <2>5, LoudStep
       DEF Rollback, Release, TypeOK, Keys, Names
<1>12. ASSUME NEW t \in Tasks, WriteDocument(t) PROVE SecretsInv'
  <2>0. /\ pc[t] = "write" /\ loaded[t] = doc /\ op[t] \in Ops /\ op[t].name \in Names
        /\ Working(t) /\ op[t].kind # "push_apply" /\ op[t].kind \in Kinds
        /\ op[t].kind \in ProfileKinds <=> op[t].name \in ProfileNames
        /\ op[t].name # ConfigKey /\ op[t].secret # None /\ holder[op[t].name] = t
        /\ prior[t] # NoPrior => /\ OwnId(t) \in Ids /\ OwnId(t)[2] = op[t].name
                                 /\ op[t].kind \in Saves /\ op[t].cred = "secret"
    BY <1>0, <1>a, <1>d, <1>12, OpHas, OwnIdIs
       DEF WriteDocument, CoursesRight, LoadedIsCurrent, LocksHeld, Started, Working, Inside, Saves,
           ProfileKinds
  <2>1. doc' = [doc EXCEPT ![op[t].name] = NewValue(t)]
    BY <1>12, <2>0 DEF WriteDocument
  <2>2. doc'[op[t].name] = NewValue(t)
    BY <1>0, <2>0, <2>1 DEF TypeOK
  <2>3. \A i \in Ids : i[2] # op[t].name =>
          /\ saved'[i] = saved[i]
          /\ i \in unrestored => i \in unrestored'
          /\ i \in exposed => i \in exposed'
    BY <1>0, <1>12, <2>0 DEF WriteDocument, InStore, TypeOK
  <2>4. op[t].kind \in Saves =>
          /\ existing[t] = doc[op[t].name] /\ ~Removes(op[t])
          /\ NewValue(t) = NewProfile(op[t], existing[t]) /\ NewValue(t) # None
          /\ OldEntry(t) = existing[t]
          /\ op[t].cred = "secret" =>
               /\ prior[t] # NoPrior /\ StoredId(NewValue(t)) = OwnId(t)
               /\ OwnId(t) \notin exposed => secrets[OwnId(t)] = op[t].secret
          /\ op[t].cred # "secret" => StoredId(NewValue(t)) \in {None, StoredId(doc[op[t].name])}
    <3>1. SUFFICES ASSUME op[t].kind \in Saves
          PROVE /\ existing[t] = doc[op[t].name] /\ ~Removes(op[t])
                /\ NewValue(t) = NewProfile(op[t], existing[t]) /\ NewValue(t) # None
                /\ OldEntry(t) = existing[t]
                /\ op[t].cred = "secret" =>
                     /\ prior[t] # NoPrior /\ StoredId(NewValue(t)) = OwnId(t)
                     /\ OwnId(t) \notin exposed => secrets[OwnId(t)] = op[t].secret
                /\ op[t].cred # "secret" =>
                     StoredId(NewValue(t)) \in {None, StoredId(doc[op[t].name])}
      OBVIOUS
    <3>2. existing[t] = doc[op[t].name] /\ (op[t].cred = "secret" => prior[t] # NoPrior)
      BY <1>b, <2>0, <3>1 DEF SnapshotTrue
    <3>3. prior[t] # NoPrior /\ OwnId(t) \notin exposed => secrets[OwnId(t)] = op[t].secret
      BY <1>b, <2>0 DEF SnapshotTrue
    <3>4. /\ ~Removes(op[t]) /\ NewValue(t) = NewProfile(op[t], existing[t])
          /\ OldEntry(t) = existing[t]
      BY <3>1 DEF Removes, NewValue, OldEntry, Saves
    <3>5. existing[t] \in Profiles \cup {None}
      BY <1>0, <2>0, <3>1 DEF CoursesRight, Started, ProfileKinds, Saves
    <3>6. NewProfile(op[t], existing[t]) # None
      BY <2>0, <3>1, <3>5, NewProfileIs
    <3>7. NewProfile(op[t], existing[t]).ref = Reference(op[t], existing[t])
      BY DEF NewProfile
    <3>8. op[t].cred = "secret" => OwnId(t) # Env
      BY <2>0, <3>2, NameAssumption
    <3>9. CASE op[t].cred = "secret"
      <4>1. Reference(op[t], existing[t]) = OwnId(t)
        BY <3>9 DEF Reference, OwnId
      <4>2. StoredId(NewValue(t)) = OwnId(t)
        BY <3>4, <3>6, <3>7, <3>8, <3>9, <4>1 DEF StoredId
      <4>3. QED
        BY <3>2, <3>3, <3>4, <3>6, <3>9, <4>2
    <3>10. CASE op[t].cred # "secret"
      <4>1. Reference(op[t], existing[t]) = Env
            \/ (existing[t] # None /\ Reference(op[t], existing[t]) = existing[t].ref)
        BY <3>10 DEF Reference
      <4>2. StoredId(NewValue(t)) \in {None, StoredId(doc[op[t].name])}
        BY <3>2, <3>4, <3>6, <3>7, <4>1 DEF StoredId
      <4>3. QED
        BY <3>2, <3>4, <3>6, <3>10, <4>2
    <3>11. QED
      BY <3>9, <3>10
  <2>5. op[t].kind \in ProfileKinds /\ op[t].kind \notin Saves =>
          Removes(op[t]) /\ NewValue(t) = None /\ OldEntry(t) = doc[op[t].name]
    BY <2>0 DEF Removes, NewValue, OldEntry, ProfileKinds, Saves
  <2>6. SnapshotTrue(t)'
    <3>1. CASE pc'[t] # "forget"
      <4>1. pc'[t] = "leave"
        BY <1>0, <1>12, <3>1 DEF WriteDocument, TypeOK
      <4>2. QED
        BY <4>1 DEF SnapshotTrue
    <3>2. CASE pc'[t] = "forget"
      <4>1. op[t].kind \in {"cli_upsert", "cli_remove"} /\ op[t].name \in ProfileNames
        BY <1>0, <1>12, <2>0, <3>2 DEF WriteDocument, ProfileKinds, TypeOK
      <4>2. /\ existing'[t] = doc[op[t].name]
            /\ op[t].kind = "cli_upsert" => existing'[t] = existing[t]
        BY <1>0, <1>12, <2>4, <2>5, <4>1 DEF WriteDocument, TypeOK, Saves, ProfileKinds
      <4>3. StoredId(existing'[t]) = None \/ StoredId(existing'[t])[2] = op[t].name
        BY <1>0, <4>1, <4>2 DEF SecretsInv, SecretSaved
      <4>4. doc'[op[t].name] = IF Removes(op[t]) THEN None ELSE NewProfile(op[t], existing'[t])
        BY <2>2, <2>4, <2>5, <4>1, <4>2 DEF Saves, ProfileKinds
      <4>5. op' = op
        BY <1>12 DEF WriteDocument
      <4>6. QED
        BY <3>2, <4>3, <4>4, <4>5 DEF SnapshotTrue
    <3>3. QED
      BY <3>1, <3>2
  <2>7. ASSUME op[t].name \in ProfileNames PROVE SecretSaved(op[t].name)'
    <3>1. op[t].kind \in ProfileKinds
      BY <2>0, <2>7
    <3>2. CASE StoredId(doc'[op[t].name]) = None
      BY <1>12, <3>2 DEF WriteDocument, SecretSaved
    <3>3. CASE op[t].kind \in Saves /\ op[t].cred = "secret"
      <4>1. StoredId(doc'[op[t].name]) = OwnId(t) /\ prior[t] # NoPrior
        BY <2>2, <2>4, <3>3
      <4>2. OwnId(t) \notin exposed' => secrets[OwnId(t)] = op[t].secret
        BY <1>12, <2>4, <3>3 DEF WriteDocument, InStore
      <4>3. saved'[OwnId(t)] = op[t].secret /\ secrets' = secrets
        BY <1>0, <1>12, <2>0, <4>1 DEF WriteDocument, TypeOK
      <4>4. QED
        BY <1>12, <2>0, <4>1, <4>2, <4>3 DEF WriteDocument, SecretSaved
    <3>4. CASE /\ op[t].kind \in Saves /\ op[t].cred # "secret"
               /\ StoredId(doc'[op[t].name]) = StoredId(doc[op[t].name])
      <4>1. prior[t] = NoPrior /\ prior[t].state = "none"
        BY <1>b, <2>0, <3>4
      <4>2. UNCHANGED <<secrets, saved, unrestored, exposed, op>>
        BY <1>12, <4>1 DEF WriteDocument, InStore
      <4>3. SecretSaved(op[t].name) /\ ~Restores(t, StoredId(doc[op[t].name]))
        BY <1>0, <2>7, <4>1 DEF SecretsInv, Restores
      <4>4. QED
        BY <2>0, <3>4, <4>2, <4>3 DEF SecretSaved
    <3>5. QED
      BY <2>2, <2>4, <2>5, <3>1, <3>2, <3>3, <3>4 DEF StoredId
  <2>h. \A u \in Tasks \ {t}, k \in Keys : holder'[k] = u => holder[k] = u
    BY <1>0, <1>e, <1>12 DEF WriteDocument, Release, TypeOK
  <2>8. QED
    BY <1>0, <1>c, <1>12, <2>h, <2>0, <2>1, <2>3, <2>6, <2>7, LoudStep
       DEF WriteDocument, Release, TypeOK
<1>15. ASSUME NEW t \in Tasks, Forget(t) PROVE SecretsInv'
  <2> DEFINE gone == Orphan(op[t], existing[t])
  <2>1. /\ op[t] \in Ops /\ op[t].name \in ProfileNames /\ pc[t] = "forget"
        /\ gone \in Ids /\ pc'[t] \in {"leave", "done"}
    BY <1>0, <1>a, <1>15, OpHas, OrphanIs DEF Forget, CoursesRight, Started, TypeOK
  <2>2. SnapshotTrue(t)'
    BY <2>1 DEF SnapshotTrue
  <2>3. \A i \in Ids : i # gone => secrets'[i] = secrets[i]
    BY <1>0, <1>15 DEF Forget, TypeOK
  <2>4. CASE holder[op[t].name] # t
    <3>1. exposed \subseteq exposed' /\ (gone \notin exposed' => secrets' = secrets)
      BY <1>15, <2>4 DEF Forget
    <3>2. \A i \in Ids : i \notin exposed' => i \notin exposed /\ secrets'[i] = secrets[i]
      BY <2>3, <3>1
    <3>3. \A n \in ProfileNames, i \in Ids : holder[n] # None /\ Restores(holder[n], i) =>
             (holder[n] # None /\ Restores(holder[n], i))'
      BY <1>0, <1>c, <1>15 DEF Forget, Restores, OwnId, TypeOK
    <3>4. QED
      BY <1>0, <1>15, <2>2, <3>2, <3>3, ExposingStep DEF Forget, TypeOK
  <2>5. CASE holder[op[t].name] = t
    <3>1. /\ gone[2] = op[t].name /\ gone # StoredId(doc[op[t].name])
          /\ exposed' = exposed /\ Working(t)
      <4>1. /\ StoredId(existing[t]) = None \/ StoredId(existing[t])[2] = op[t].name
            /\ doc[op[t].name] = IF Removes(op[t]) THEN None ELSE NewProfile(op[t], existing[t])
        BY <1>b, <2>1, <2>5 DEF SnapshotTrue
      <4>2. gone # None
        BY <2>1, NameAssumption
      <4>3. QED
        BY <1>15, <2>1, <2>5, <4>1, <4>2 DEF Forget, Orphan, Working
    <3>2. SecretSaved(op[t].name)'
      <4>1. SecretSaved(op[t].name) /\ StoredId(doc[op[t].name]) \in Ids \cup {None}
        BY <1>0, <2>1, StoredIdIs DEF SecretsInv, CoursesRight
      <4>2. ~Restores(holder[op[t].name], StoredId(doc[op[t].name]))
        BY <2>1, <2>5 DEF Restores
      <4>3. StoredId(doc[op[t].name]) # None =>
              secrets'[StoredId(doc[op[t].name])] = secrets[StoredId(doc[op[t].name])]
        BY <2>3, <3>1, <4>1
      <4>4. QED
        BY <1>15, <3>1, <4>1, <4>2, <4>3 DEF Forget, SecretSaved
    <3>3. \A i \in Ids : i[2] # op[t].name => secrets'[i] = secrets[i]
      BY <2>3, <3>1
    <3>4. QED
      BY <1>0, <1>15, <2>1, <2>2, <3>1, <3>2, <3>3, LoudStep DEF Forget, TypeOK
  <2>6. QED
    BY <2>4, <2>5
<1>18. ASSUME NEW p \in Procs, Crash(p) PROVE SecretsInv'
  <2>1. ASSUME NEW u \in Tasks PROVE SnapshotTrue(u)'
    <3>1. CASE ProcOf[u] = p
      <4>1. pc'[u] = "dead"
        BY <1>18, <3>1 DEF Crash
      <4>2. QED
        BY <4>1 DEF SnapshotTrue
    <3>2. CASE ProcOf[u] # p
      <4>1. pc'[u] = pc[u]
        BY <1>18, <3>2 DEF Crash
      <4>2. pc[u] = "forget" /\ holder'[op[u].name] = u => holder[op[u].name] = u
        <5>1. pc[u] = "forget" => op[u].name \in Keys
          BY <1>a, OpHas DEF Started
        <5>2. QED
          BY <1>e, <1>18, <5>1 DEF Crash
      <4>3. QED
        BY <1>0, <1>b, <1>18, <4>1, <4>2, SnapshotStays DEF Crash
    <3>3. QED
      BY <3>1, <3>2
  <2>2. ASSUME NEW n \in ProfileNames PROVE SecretSaved(n)'
    <3>1. ASSUME NEW i \in Ids, holder[n] # None, Restores(holder[n], i)
          PROVE  i \in unrestored' \/ (holder[n] # None /\ Restores(holder[n], i))'
      <4>1. holder[n] \in Tasks /\ prior[holder[n]] # NoPrior /\ OwnId(holder[n]) = i
        BY <1>c, <3>1 DEF Restores, NoPrior
      <4>2. CASE ProcOf[holder[n]] = p
        BY <1>18, <4>1, <4>2 DEF Crash
      <4>3. CASE ProcOf[holder[n]] # p
        BY <1>c, <1>18, <3>1, <4>1, <4>3 DEF Crash, Restores, OwnId
      <4>4. QED
        BY <4>2, <4>3
    <3>2. QED
      BY <1>0, <1>18, <3>1, SavedStays DEF Crash, SecretsInv
  <2>3. QED
    BY <2>1, <2>2 DEF SecretsInv
<1>19. CASE UNCHANGED storeVars
  BY <1>0, <1>19 DEF storeVars, taskVars, SecretsInv, SnapshotTrue, SecretSaved, Restores, OwnId
<1>20. QED
  BY <1>1, <1>2, <1>3, <1>4, <1>5, <1>6, <1>7, <1>8, <1>9, <1>10, <1>11, <1>12, <1>13,
     <1>14, <1>15, <1>16, <1>17, <1>18, <1>19 DEF Next, TaskStep

(* Every saved profile starts with its secret stored.                      *)
LEMMA SecretsInit == Init => SecretsInv
<1> SUFFICES ASSUME Init PROVE SecretsInv
  OBVIOUS
<1>1. \A t \in Tasks : SnapshotTrue(t)
  BY DEF Init, SnapshotTrue, Transacting, Replaced
<1>2. \A n \in ProfileNames : StoredId(doc[n]) = None
  BY DEF Init, StoredId, Names
<1>3. QED
  BY <1>1, <1>2 DEF SecretsInv, SecretSaved

(* Whatever operations run, however replace() fails and whoever dies: a    *)
(* profile loses its stored secret, or finds another than the one saved,   *)
(* only by the two steps that expose one, the dashboard's late forgetting  *)
(* and a replace() that threw after it changed the record; or, for the     *)
(* second, by a rollback that failed or never ran. Everything else that    *)
(* withCredentialTransaction() and forgetSecret() do leaves a named secret *)
(* as it was saved (credentials/store.ts).                                 *)
THEOREM SecretsKeptHolds == Spec => []SecretsKept
<1>1. ASSUME StoreInv, SecretsInv PROVE SecretsKept
  <2>1. ASSUME NEW n \in ProfileNames, doc[n] # None, doc[n].ref # Env, doc[n].ref \notin exposed
        PROVE  /\ secrets[doc[n].ref] # None
               /\ holder[n] = None /\ doc[n].ref \notin unrestored =>
                    secrets[doc[n].ref] = saved[doc[n].ref]
    <3>1. StoredId(doc[n]) = doc[n].ref /\ doc[n] \in Profiles
      BY <1>1, <2>1 DEF StoredId, StoreInv, CoursesRight
    <3>2. doc[n].ref # None
      BY <2>1, <3>1, NameAssumption DEF Profiles
    <3>3. QED
      BY <1>1, <2>1, <3>1, <3>2 DEF SecretsInv, SecretSaved
  <2>2. QED
    BY <2>1 DEF SecretsKept
<1>2. StoreInv /\ SecretsInv /\ [Next]_storeVars => SecretsInv'
  BY SecretsStep
<1>3. QED
  BY <1>1, <1>2, SecretsInit, StoreAlways, PTL DEF Spec

-----------------------------------------------------------------------------
(* The HTTP client.                                                        *)

(* The client starts as its invariant says.                                *)
LEMMA HttpStarts == HttpInit => HttpInv
<1>. SUFFICES ASSUME HttpInit PROVE HttpInv
  OBVIOUS
<1>. USE HttpAssumption DEF HttpInit, HttpAssumption
<1>1. HttpTypeOK
  BY DEF HttpTypeOK, HttpCalls, HttpMin
<1>2. OneAttempt /\ SentCounts /\ EndsInTime
  BY DEF OneAttempt, SentCounts, EndsInTime
<1>3. OnceInTime
  BY DEF OnceInTime, WritesOnce, InBudget
<1>. QED BY <1>1, <1>2, <1>3 DEF HttpInv

(* Every step of a call, of the limit and of the provider keeps it.        *)
LEMMA HttpSteps == HttpInv /\ [HttpNext]_httpVars => HttpInv'
<1>. SUFFICES ASSUME HttpInv, [HttpNext]_httpVars PROVE HttpInv'
  OBVIOUS
<1>0. /\ HttpTypeOK /\ OneAttempt /\ SentCounts /\ EndsInTime
      /\ WritesOnce /\ InBudget
  BY DEF HttpInv, OnceInTime
<1>. USE HttpAssumption DEF HttpAssumption
<1>1. CASE UNCHANGED httpVars
  BY <1>0, <1>1 DEF httpVars, HttpInv, HttpTypeOK, OneAttempt, SentCounts, EndsInTime, Attempts,
                    Retryable, OnceInTime, WritesOnce, InBudget
<1>2. CASE BeginCall
  <2>1. HttpTypeOK'
    BY <1>0, <1>2 DEF BeginCall, Attempts, Retryable, HttpTypeOK, HttpCalls, Methods, SAFE_METHODS, SentCounts, EndsInTime
  <2>2. OneAttempt' /\ SentCounts'
    BY <1>0, <1>2 DEF BeginCall, Attempts, Retryable, HttpTypeOK, HttpCalls, Methods, SAFE_METHODS, OneAttempt, SentCounts,
                      EndsInTime
  <2>3. EndsInTime'
    BY <1>0, <1>2 DEF BeginCall, Attempts, Retryable, HttpTypeOK, EndsInTime
  <2>4. WritesOnce' /\ InBudget'
    BY <1>0, <1>2 DEF BeginCall, Attempts, Retryable, HttpTypeOK, HttpCalls, Methods, SAFE_METHODS, OneAttempt, EndsInTime,
                      WritesOnce, InBudget
  <2>. QED BY <2>1, <2>2, <2>3, <2>4 DEF HttpInv, OnceInTime
<1>3. CASE Authorize
  <2>1. HttpTypeOK'
    BY <1>0, <1>3 DEF Authorize, HttpTypeOK, HttpCalls, Methods, SAFE_METHODS, SentCounts, EndsInTime, Attempts, Retryable
  <2>2. OneAttempt' /\ SentCounts'
    BY <1>0, <1>3 DEF Authorize, Attempts, Retryable, HttpTypeOK, HttpCalls, Methods, SAFE_METHODS, OneAttempt, SentCounts,
                      EndsInTime
  <2>3. EndsInTime'
    BY <1>0, <1>3 DEF Authorize, Attempts, Retryable, HttpTypeOK, EndsInTime
  <2>4. WritesOnce' /\ InBudget'
    BY <1>0, <1>3 DEF Authorize, Attempts, Retryable, HttpTypeOK, HttpCalls, Methods, SAFE_METHODS, OneAttempt, EndsInTime,
                      WritesOnce, InBudget
  <2>. QED BY <2>1, <2>2, <2>3, <2>4 DEF HttpInv, OnceInTime
<1>4. CASE BeginAttempt
  <2>1. HttpTypeOK'
    BY <1>0, <1>4 DEF BeginAttempt, AttemptBudget, HttpMin, HttpTypeOK, HttpCalls, Methods, SAFE_METHODS, SentCounts, EndsInTime, Attempts, Retryable
  <2>2. OneAttempt' /\ SentCounts'
    BY <1>0, <1>4 DEF BeginAttempt, AttemptBudget, HttpMin, Attempts, Retryable, HttpTypeOK, HttpCalls, Methods, SAFE_METHODS, OneAttempt, SentCounts,
                      EndsInTime
  <2>3. EndsInTime'
    BY <1>0, <1>4 DEF BeginAttempt, AttemptBudget, HttpMin, Attempts, Retryable, HttpTypeOK, EndsInTime
  <2>4. WritesOnce' /\ InBudget'
    BY <1>0, <1>4 DEF BeginAttempt, AttemptBudget, HttpMin, Attempts, Retryable, HttpTypeOK, HttpCalls, Methods, SAFE_METHODS, OneAttempt, EndsInTime,
                      WritesOnce, InBudget
  <2>. QED BY <2>1, <2>2, <2>3, <2>4 DEF HttpInv, OnceInTime
<1>5. CASE SendHop
  <2>1. HttpTypeOK'
    BY <1>0, <1>5 DEF SendHop, HttpTypeOK, HttpCalls, Methods, SAFE_METHODS, SentCounts, EndsInTime, Attempts, Retryable
  <2>2. OneAttempt' /\ SentCounts'
    BY <1>0, <1>5 DEF SendHop, Attempts, Retryable, HttpTypeOK, HttpCalls, Methods, SAFE_METHODS, OneAttempt, SentCounts,
                      EndsInTime
  <2>3. EndsInTime'
    BY <1>0, <1>5 DEF SendHop, Attempts, Retryable, HttpTypeOK, EndsInTime
  <2>4. WritesOnce' /\ InBudget'
    BY <1>0, <1>5 DEF SendHop, Attempts, Retryable, HttpTypeOK, HttpCalls, Methods, SAFE_METHODS, OneAttempt, EndsInTime,
                      WritesOnce, InBudget
  <2>. QED BY <2>1, <2>2, <2>3, <2>4 DEF HttpInv, OnceInTime
<1>6. CASE Redirect
  <2>1. HttpTypeOK'
    BY <1>0, <1>6 DEF Redirect, Redirected, NotExecuted, HttpTypeOK, HttpCalls, Methods, SAFE_METHODS, SentCounts, EndsInTime, Attempts, Retryable
  <2>2. OneAttempt' /\ SentCounts'
    BY <1>0, <1>6 DEF Redirect, Redirected, NotExecuted, Attempts, Retryable, HttpTypeOK, HttpCalls, Methods, SAFE_METHODS, OneAttempt, SentCounts,
                      EndsInTime
  <2>3. EndsInTime'
    BY <1>0, <1>6 DEF Redirect, Redirected, NotExecuted, Attempts, Retryable, HttpTypeOK, EndsInTime
  <2>4. WritesOnce' /\ InBudget'
    BY <1>0, <1>6 DEF Redirect, Redirected, NotExecuted, Attempts, Retryable, HttpTypeOK, HttpCalls, Methods, SAFE_METHODS, OneAttempt, EndsInTime,
                      WritesOnce, InBudget
  <2>. QED BY <2>1, <2>2, <2>3, <2>4 DEF HttpInv, OnceInTime
<1>7. CASE HopFails
  <2>1. HttpTypeOK'
    BY <1>0, <1>7 DEF HopFails, AttemptFails, Attempts, Retryable, HttpTypeOK, HttpCalls, Methods, SAFE_METHODS, SentCounts, EndsInTime
  <2>2. OneAttempt' /\ SentCounts'
    BY <1>0, <1>7 DEF HopFails, AttemptFails, Attempts, Retryable, HttpTypeOK, HttpCalls, Methods, SAFE_METHODS, OneAttempt, SentCounts,
                      EndsInTime
  <2>3. EndsInTime'
    BY <1>0, <1>7 DEF HopFails, AttemptFails, Attempts, Retryable, HttpTypeOK, EndsInTime
  <2>4. WritesOnce' /\ InBudget'
    BY <1>0, <1>7 DEF HopFails, AttemptFails, Attempts, Retryable, HttpTypeOK, HttpCalls, Methods, SAFE_METHODS, OneAttempt, EndsInTime,
                      WritesOnce, InBudget
  <2>. QED BY <2>1, <2>2, <2>3, <2>4 DEF HttpInv, OnceInTime
<1>8. CASE RetryAttempt
  <2>1. HttpTypeOK'
    BY <1>0, <1>8 DEF RetryAttempt, Attempts, Retryable, HttpTypeOK, HttpCalls, Methods, SAFE_METHODS, SentCounts, EndsInTime
  <2>2. OneAttempt' /\ SentCounts'
    BY <1>0, <1>8 DEF RetryAttempt, Attempts, Retryable, HttpTypeOK, HttpCalls, Methods, SAFE_METHODS, OneAttempt, SentCounts,
                      EndsInTime
  <2>3. EndsInTime'
    BY <1>0, <1>8 DEF RetryAttempt, Attempts, Retryable, HttpTypeOK, EndsInTime
  <2>4. WritesOnce' /\ InBudget'
    BY <1>0, <1>8 DEF RetryAttempt, Attempts, Retryable, HttpTypeOK, HttpCalls, Methods, SAFE_METHODS, OneAttempt, EndsInTime,
                      WritesOnce, InBudget
  <2>. QED BY <2>1, <2>2, <2>3, <2>4 DEF HttpInv, OnceInTime
<1>9. CASE RequestAccepted
  <2>1. HttpTypeOK'
    BY <1>0, <1>9 DEF RequestAccepted, HttpTypeOK, HttpCalls, Methods, SAFE_METHODS, SentCounts, EndsInTime, Attempts, Retryable
  <2>2. OneAttempt' /\ SentCounts'
    BY <1>0, <1>9 DEF RequestAccepted, Attempts, Retryable, HttpTypeOK, HttpCalls, Methods, SAFE_METHODS, OneAttempt, SentCounts,
                      EndsInTime
  <2>3. EndsInTime'
    BY <1>0, <1>9 DEF RequestAccepted, Attempts, Retryable, HttpTypeOK, EndsInTime
  <2>4. WritesOnce' /\ InBudget'
    BY <1>0, <1>9 DEF RequestAccepted, Attempts, Retryable, HttpTypeOK, HttpCalls, Methods, SAFE_METHODS, OneAttempt, EndsInTime,
                      WritesOnce, InBudget
  <2>. QED BY <2>1, <2>2, <2>3, <2>4 DEF HttpInv, OnceInTime
<1>10. CASE PollAgain
  <2>1. HttpTypeOK'
    BY <1>0, <1>10 DEF PollAgain, MayPoll, HttpMin, HttpTypeOK, HttpCalls, Methods, SAFE_METHODS, SentCounts, EndsInTime, Attempts, Retryable
  <2>2. OneAttempt' /\ SentCounts'
    BY <1>0, <1>10 DEF PollAgain, MayPoll, HttpMin, Attempts, Retryable, HttpTypeOK, HttpCalls, Methods, SAFE_METHODS, OneAttempt, SentCounts,
                      EndsInTime
  <2>3. EndsInTime'
    BY <1>0, <1>10 DEF PollAgain, MayPoll, HttpMin, Attempts, Retryable, HttpTypeOK, EndsInTime
  <2>4. WritesOnce' /\ InBudget'
    BY <1>0, <1>10 DEF PollAgain, MayPoll, HttpMin, Attempts, Retryable, HttpTypeOK, HttpCalls, Methods, SAFE_METHODS, OneAttempt, EndsInTime,
                      WritesOnce, InBudget
  <2>. QED BY <2>1, <2>2, <2>3, <2>4 DEF HttpInv, OnceInTime
<1>11. CASE PollNext
  <2>1. HttpTypeOK'
    BY <1>0, <1>11 DEF PollNext, HttpTypeOK, HttpCalls, Methods, SAFE_METHODS, SentCounts, EndsInTime, Attempts, Retryable
  <2>2. OneAttempt' /\ SentCounts'
    BY <1>0, <1>11 DEF PollNext, Attempts, Retryable, HttpTypeOK, HttpCalls, Methods, SAFE_METHODS, OneAttempt, SentCounts,
                      EndsInTime
  <2>3. EndsInTime'
    BY <1>0, <1>11 DEF PollNext, Attempts, Retryable, HttpTypeOK, EndsInTime
  <2>4. WritesOnce' /\ InBudget'
    BY <1>0, <1>11 DEF PollNext, Attempts, Retryable, HttpTypeOK, HttpCalls, Methods, SAFE_METHODS, OneAttempt, EndsInTime,
                      WritesOnce, InBudget
  <2>. QED BY <2>1, <2>2, <2>3, <2>4 DEF HttpInv, OnceInTime
<1>12. CASE Abort
  <2>1. HttpTypeOK'
    BY <1>0, <1>12 DEF Abort, HttpTypeOK, HttpCalls, Methods, SAFE_METHODS, SentCounts, EndsInTime, Attempts, Retryable
  <2>2. OneAttempt' /\ SentCounts'
    BY <1>0, <1>12 DEF Abort, Attempts, Retryable, HttpTypeOK, HttpCalls, Methods, SAFE_METHODS, OneAttempt, SentCounts,
                      EndsInTime
  <2>3. EndsInTime'
    BY <1>0, <1>12 DEF Abort, Attempts, Retryable, HttpTypeOK, EndsInTime
  <2>4. WritesOnce' /\ InBudget'
    BY <1>0, <1>12 DEF Abort, Attempts, Retryable, HttpTypeOK, HttpCalls, Methods, SAFE_METHODS, OneAttempt, EndsInTime,
                      WritesOnce, InBudget
  <2>. QED BY <2>1, <2>2, <2>3, <2>4 DEF HttpInv, OnceInTime
<1>13. CASE HttpTick
  <2>1. HttpTypeOK'
    BY <1>0, <1>13 DEF HttpTick, HttpTypeOK, HttpCalls, Methods, SAFE_METHODS, SentCounts, EndsInTime, Attempts, Retryable
  <2>2. OneAttempt' /\ SentCounts'
    BY <1>0, <1>13 DEF HttpTick, Attempts, Retryable, HttpTypeOK, HttpCalls, Methods, SAFE_METHODS, OneAttempt, SentCounts,
                      EndsInTime
  <2>3. EndsInTime'
    BY <1>0, <1>13 DEF HttpTick, Attempts, Retryable, HttpTypeOK, EndsInTime
  <2>4. WritesOnce' /\ InBudget'
    BY <1>0, <1>13 DEF HttpTick, Attempts, Retryable, HttpTypeOK, HttpCalls, Methods, SAFE_METHODS, OneAttempt, EndsInTime,
                      WritesOnce, InBudget
  <2>. QED BY <2>1, <2>2, <2>3, <2>4 DEF HttpInv, OnceInTime
<1>. QED BY <1>1, <1>2, <1>3, <1>4, <1>5, <1>6, <1>7, <1>8, <1>9, <1>10, <1>11, <1>12, <1>13 DEF HttpNext

(* Whatever the limits, the waits and the provider's answers: a call that  *)
(* may not be repeated is executed once at most, and every call ends in    *)
(* its time (src/src/hosting/http-client.ts).                              *)
THEOREM OnceInTimeHolds == HttpSpec => []OnceInTime
<1>1. HttpInv => OnceInTime
  BY DEF HttpInv
<1>. QED BY <1>1, HttpStarts, HttpSteps, PTL DEF HttpSpec

-----------------------------------------------------------------------------
(* The cPanel installer.                                                   *)

(* What a setup that says "installed" says of the site.                    *)
SaysInstalled == (\E s \in Setups : report[s] = "installed") => novamira = "active"

(* No setup has begun.                                                     *)
LEMMA InstStarts == InstInit => InstInv
BY InstallerAssumption DEF InstallerAssumption, InstInit, InstInv, InstTypeOK, OkIsActive, OkIsOver, NeverPlaced, Early, Reported, InDeadline, YoungWhileLive, Seen, HonestReports, HonestSetups, NothingLeft, SaysInstalled


(* The variables keep their types.                                         *)
LEMMA InstTypesStep ==
  ASSUME InstInv, [InstNext]_instVars PROVE InstTypeOK'
<1>0. InstTypeOK /\ OkIsActive /\ OkIsOver /\ NeverPlaced /\ Reported /\ InDeadline /\ YoungWhileLive
      /\ HonestSetups /\ NothingLeft /\ SaysInstalled
  BY DEF InstInv, HonestReports, HonestSetups, SaysInstalled
<1>. USE InstallerAssumption DEF InstallerAssumption, hqVars, siteVars
<1>1. CASE UNCHANGED instVars
  BY <1>0, <1>1 DEF instVars, InstTypeOK
<1>2. CASE InstTick
  BY <1>0, <1>2 DEF InstTick, Late, InstTypeOK
<1>3. CASE \E s \in Setups : InstStep(s)
  <2>0. PICK s \in Setups : InstStep(s)
    BY <1>3
  <2>1. CASE BeginSetup(s)
    BY <1>0, <2>1 DEF BeginSetup, To, Tell, Seen, Young, InstTypeOK
  <2>2. CASE CheckInstall(s)
    BY <1>0, <2>2 DEF CheckInstall, To, Tell, InstTypeOK
  <2>3. CASE Upload(s)
    BY <1>0, <2>3 DEF Upload, To, Late, InstTypeOK
  <2>4. CASE Place(s)
    BY <1>0, <2>4 DEF Place, To, Late, PlacedBeforeRename, InstTypeOK
  <2>5. CASE Rename(s)
    BY <1>0, <2>5 DEF Rename, To, InstTypeOK
  <2>6. CASE RenameLost(s)
    BY <1>0, <2>6 DEF RenameLost, To, InstTypeOK
  <2>7. CASE LateRename(s)
    BY <1>0, <2>7 DEF LateRename, InstTypeOK
  <2>8. CASE PollStatus(s)
    BY <1>0, <2>8 DEF PollStatus, To, Hear, InstTypeOK
  <2>9. CASE PollsOver(s)
    BY <1>0, <2>9 DEF PollsOver, To, InstTypeOK
  <2>10. CASE Interrupt(s)
    BY <1>0, <2>10 DEF Interrupt, To, InstTypeOK
  <2>11. CASE RemovePhp(s)
    BY <1>0, <2>11 DEF RemovePhp, To, InstTypeOK
  <2>12. CASE RemovePart(s)
    BY <1>0, <2>12 DEF RemovePart, To, InstTypeOK
  <2>13. CASE LookAtStatus(s)
    BY <1>0, <2>13 DEF LookAtStatus, To, InstTypeOK
  <2>14. CASE WaitEnds(s)
    BY <1>0, <2>14 DEF WaitEnds, To, Hear, InstTypeOK
  <2>15. CASE RemoveDir(s)
    BY <1>0, <2>15 DEF RemoveDir, To, Tell, Tidied, InstTypeOK
  <2>16. CASE Visit(s)
    BY <1>0, <2>16 DEF Visit, FinishSetup, RunOver, Expired, InstTypeOK
  <2>17. CASE Extract(s)
    BY <1>0, <2>17 DEF Extract, FinishSetup, RunOver, InstTypeOK
  <2>18. CASE Move(s)
    BY <1>0, <2>18 DEF Move, FinishSetup, RunOver, Expired, InstTypeOK
  <2>19. CASE ActivatePlugin(s)
    BY <1>0, <2>19 DEF ActivatePlugin, InstTypeOK
  <2>20. CASE Report(s)
    BY <1>0, <2>20 DEF Report, FinishSetup, RunOver, ReportWhenActive, InstTypeOK
  <2>21. CASE VisitDies(s)
    BY <1>0, <2>21 DEF VisitDies, InstTypeOK
  <2>22. CASE UploadLost(s)
    BY <1>0, <2>22 DEF UploadLost, To, InstTypeOK
  <2>23. CASE LateUpload(s)
    BY <1>0, <2>23 DEF LateUpload, InstTypeOK
  <2>24. CASE Unzip(s)
    BY <1>0, <2>24 DEF Unzip, InstTypeOK
  <2>. QED BY <2>0, <2>1, <2>2, <2>3, <2>4, <2>5, <2>6, <2>7, <2>8, <2>9, <2>10, <2>11, <2>12, <2>13, <2>14, <2>15, <2>16, <2>17, <2>18, <2>19, <2>20, <2>21, <2>22, <2>23, <2>24 DEF InstStep
<1>. QED BY <1>1, <1>2, <1>3 DEF InstNext

(* "ok" is only written and heard of an active Novamira, which stays so.   *)
LEMMA InstActiveStep ==
  ASSUME InstInv, [InstNext]_instVars PROVE OkIsActive' /\ SaysInstalled'
<1>0. InstTypeOK /\ OkIsActive /\ OkIsOver /\ NeverPlaced /\ Reported /\ InDeadline /\ YoungWhileLive
      /\ HonestSetups /\ NothingLeft /\ SaysInstalled
  BY DEF InstInv, HonestReports, HonestSetups, SaysInstalled
<1>. USE InstallerAssumption DEF InstallerAssumption, hqVars, siteVars
<1>1. CASE UNCHANGED instVars
  BY <1>0, <1>1 DEF instVars, InstTypeOK, OkIsActive, SaysInstalled
<1>2. CASE InstTick
  BY <1>0, <1>2 DEF InstTick, Late, InstTypeOK, OkIsActive, SaysInstalled
<1>3. CASE \E s \in Setups : InstStep(s)
  <2>0. PICK s \in Setups : InstStep(s)
    BY <1>3
  <2>1. CASE BeginSetup(s)
    BY <1>0, <2>1 DEF BeginSetup, To, Tell, Seen, Young, InstTypeOK, OkIsActive, SaysInstalled
  <2>2. CASE CheckInstall(s)
    BY <1>0, <2>2 DEF CheckInstall, To, Tell, InstTypeOK, OkIsActive, SaysInstalled
  <2>3. CASE Upload(s)
    BY <1>0, <2>3 DEF Upload, To, Late, InstTypeOK, OkIsActive, SaysInstalled
  <2>4. CASE Place(s)
    BY <1>0, <2>4 DEF Place, To, Late, PlacedBeforeRename, InstTypeOK, OkIsActive, SaysInstalled
  <2>5. CASE Rename(s)
    BY <1>0, <2>5 DEF Rename, To, InstTypeOK, OkIsActive, SaysInstalled
  <2>6. CASE RenameLost(s)
    BY <1>0, <2>6 DEF RenameLost, To, InstTypeOK, OkIsActive, SaysInstalled
  <2>7. CASE LateRename(s)
    BY <1>0, <2>7 DEF LateRename, InstTypeOK, OkIsActive, SaysInstalled
  <2>8. CASE PollStatus(s)
    BY <1>0, <2>8 DEF PollStatus, To, Hear, InstTypeOK, OkIsActive, SaysInstalled
  <2>9. CASE PollsOver(s)
    BY <1>0, <2>9 DEF PollsOver, To, InstTypeOK, OkIsActive, SaysInstalled
  <2>10. CASE Interrupt(s)
    BY <1>0, <2>10 DEF Interrupt, To, InstTypeOK, OkIsActive, SaysInstalled
  <2>11. CASE RemovePhp(s)
    BY <1>0, <2>11 DEF RemovePhp, To, InstTypeOK, OkIsActive, SaysInstalled
  <2>12. CASE RemovePart(s)
    BY <1>0, <2>12 DEF RemovePart, To, InstTypeOK, OkIsActive, SaysInstalled
  <2>13. CASE LookAtStatus(s)
    BY <1>0, <2>13 DEF LookAtStatus, To, InstTypeOK, OkIsActive, SaysInstalled
  <2>14. CASE WaitEnds(s)
    BY <1>0, <2>14 DEF WaitEnds, To, Hear, InstTypeOK, OkIsActive, SaysInstalled
  <2>15. CASE RemoveDir(s)
    BY <1>0, <2>15 DEF RemoveDir, To, Tell, Tidied, InstTypeOK, OkIsActive, SaysInstalled
  <2>16. CASE Visit(s)
    BY <1>0, <2>16 DEF Visit, FinishSetup, RunOver, Expired, InstTypeOK, OkIsActive, SaysInstalled
  <2>17. CASE Extract(s)
    BY <1>0, <2>17 DEF Extract, FinishSetup, RunOver, InstTypeOK, OkIsActive, SaysInstalled
  <2>18. CASE Move(s)
    BY <1>0, <2>18 DEF Move, FinishSetup, RunOver, Expired, InstTypeOK, OkIsActive, SaysInstalled
  <2>19. CASE ActivatePlugin(s)
    BY <1>0, <2>19 DEF ActivatePlugin, InstTypeOK, OkIsActive, SaysInstalled
  <2>20. CASE Report(s)
    BY <1>0, <2>20 DEF Report, FinishSetup, RunOver, ReportWhenActive, InstTypeOK, OkIsActive, SaysInstalled
  <2>21. CASE VisitDies(s)
    BY <1>0, <2>21 DEF VisitDies, InstTypeOK, OkIsActive, SaysInstalled
  <2>22. CASE UploadLost(s)
    BY <1>0, <2>22 DEF UploadLost, To, InstTypeOK, OkIsActive, SaysInstalled
  <2>23. CASE LateUpload(s)
    BY <1>0, <2>23 DEF LateUpload, InstTypeOK, OkIsActive, SaysInstalled
  <2>24. CASE Unzip(s)
    BY <1>0, <2>24 DEF Unzip, InstTypeOK, OkIsActive, SaysInstalled
  <2>. QED BY <2>0, <2>1, <2>2, <2>3, <2>4, <2>5, <2>6, <2>7, <2>8, <2>9, <2>10, <2>11, <2>12, <2>13, <2>14, <2>15, <2>16, <2>17, <2>18, <2>19, <2>20, <2>21, <2>22, <2>23, <2>24 DEF InstStep
<1>. QED BY <1>1, <1>2, <1>3 DEF InstNext

(* Only a placed installer is on the site, late renames included.          *)
LEMMA InstPlacedStep ==
  ASSUME InstInv, [InstNext]_instVars PROVE NeverPlaced' /\ Reported' /\ OkIsOver'
<1>0. InstTypeOK /\ OkIsActive /\ OkIsOver /\ NeverPlaced /\ Reported /\ InDeadline /\ YoungWhileLive
      /\ HonestSetups /\ NothingLeft /\ SaysInstalled
  BY DEF InstInv, HonestReports, HonestSetups, SaysInstalled
<1>. USE InstallerAssumption DEF InstallerAssumption, hqVars, siteVars
<1>1. CASE UNCHANGED instVars
  BY <1>0, <1>1 DEF instVars, InstTypeOK, NeverPlaced, Early, Reported, OkIsOver
<1>2. CASE InstTick
  BY <1>0, <1>2 DEF InstTick, Late, InstTypeOK, NeverPlaced, Early, Reported, OkIsOver
<1>3. CASE \E s \in Setups : InstStep(s)
  <2>0. PICK s \in Setups : InstStep(s)
    BY <1>3
  <2>1. CASE BeginSetup(s)
    BY <1>0, <2>1 DEF BeginSetup, To, Tell, Seen, Young, InstTypeOK, NeverPlaced, Early, Reported, OkIsOver
  <2>2. CASE CheckInstall(s)
    BY <1>0, <2>2 DEF CheckInstall, To, Tell, InstTypeOK, NeverPlaced, Early, Reported, OkIsOver
  <2>3. CASE Upload(s)
    BY <1>0, <2>3 DEF Upload, To, Late, InstTypeOK, NeverPlaced, Early, Reported, OkIsOver
  <2>4. CASE Place(s)
    BY <1>0, <2>4 DEF Place, To, Late, PlacedBeforeRename, InstTypeOK, NeverPlaced, Early, Reported, OkIsOver
  <2>5. CASE Rename(s)
    BY <1>0, <2>5 DEF Rename, To, InstTypeOK, NeverPlaced, Early, Reported, OkIsOver
  <2>6. CASE RenameLost(s)
    BY <1>0, <2>6 DEF RenameLost, To, InstTypeOK, NeverPlaced, Early, Reported, OkIsOver
  <2>7. CASE LateRename(s)
    BY <1>0, <2>7 DEF LateRename, InstTypeOK, NeverPlaced, Early, Reported, OkIsOver
  <2>8. CASE PollStatus(s)
    BY <1>0, <2>8 DEF PollStatus, To, Hear, InstTypeOK, NeverPlaced, Early, Reported, OkIsOver
  <2>9. CASE PollsOver(s)
    BY <1>0, <2>9 DEF PollsOver, To, InstTypeOK, NeverPlaced, Early, Reported, OkIsOver
  <2>10. CASE Interrupt(s)
    BY <1>0, <2>10 DEF Interrupt, To, InstTypeOK, NeverPlaced, Early, Reported, OkIsOver
  <2>11. CASE RemovePhp(s)
    BY <1>0, <2>11 DEF RemovePhp, To, InstTypeOK, NeverPlaced, Early, Reported, OkIsOver
  <2>12. CASE RemovePart(s)
    BY <1>0, <2>12 DEF RemovePart, To, InstTypeOK, NeverPlaced, Early, Reported, OkIsOver
  <2>13. CASE LookAtStatus(s)
    BY <1>0, <2>13 DEF LookAtStatus, To, InstTypeOK, NeverPlaced, Early, Reported, OkIsOver
  <2>14. CASE WaitEnds(s)
    BY <1>0, <2>14 DEF WaitEnds, To, Hear, InstTypeOK, NeverPlaced, Early, Reported, OkIsOver
  <2>15. CASE RemoveDir(s)
    BY <1>0, <2>15 DEF RemoveDir, To, Tell, Tidied, InstTypeOK, NeverPlaced, Early, Reported, OkIsOver
  <2>16. CASE Visit(s)
    BY <1>0, <2>16 DEF Visit, FinishSetup, RunOver, Expired, InstTypeOK, NeverPlaced, Early, Reported, OkIsOver
  <2>17. CASE Extract(s)
    BY <1>0, <2>17 DEF Extract, FinishSetup, RunOver, InstTypeOK, NeverPlaced, Early, Reported, OkIsOver
  <2>18. CASE Move(s)
    BY <1>0, <2>18 DEF Move, FinishSetup, RunOver, Expired, InstTypeOK, NeverPlaced, Early, Reported, OkIsOver
  <2>19. CASE ActivatePlugin(s)
    BY <1>0, <2>19 DEF ActivatePlugin, InstTypeOK, NeverPlaced, Early, Reported, OkIsOver
  <2>20. CASE Report(s)
    BY <1>0, <2>20 DEF Report, FinishSetup, RunOver, ReportWhenActive, InstTypeOK, NeverPlaced, Early, Reported, OkIsOver
  <2>21. CASE VisitDies(s)
    BY <1>0, <2>21 DEF VisitDies, InstTypeOK, NeverPlaced, Early, Reported, OkIsOver
  <2>22. CASE UploadLost(s)
    BY <1>0, <2>22 DEF UploadLost, To, InstTypeOK, NeverPlaced, Early, Reported, OkIsOver
  <2>23. CASE LateUpload(s)
    BY <1>0, <2>23 DEF LateUpload, InstTypeOK, NeverPlaced, Early, Reported, OkIsOver
  <2>24. CASE Unzip(s)
    BY <1>0, <2>24 DEF Unzip, InstTypeOK, NeverPlaced, Early, Reported, OkIsOver
  <2>. QED BY <2>0, <2>1, <2>2, <2>3, <2>4, <2>5, <2>6, <2>7, <2>8, <2>9, <2>10, <2>11, <2>12, <2>13, <2>14, <2>15, <2>16, <2>17, <2>18, <2>19, <2>20, <2>21, <2>22, <2>23, <2>24 DEF InstStep
<1>. QED BY <1>1, <1>2, <1>3 DEF InstNext

(* A setup keeps its deadlines, and its files are as young as they allow.  *)
LEMMA InstTimesStep ==
  ASSUME InstInv, [InstNext]_instVars PROVE InDeadline' /\ YoungWhileLive'
<1>0. InstTypeOK /\ OkIsActive /\ OkIsOver /\ NeverPlaced /\ Reported /\ InDeadline /\ YoungWhileLive
      /\ HonestSetups /\ NothingLeft /\ SaysInstalled
  BY DEF InstInv, HonestReports, HonestSetups, SaysInstalled
<1>. USE InstallerAssumption DEF InstallerAssumption, hqVars, siteVars
<1>1. CASE UNCHANGED instVars
  BY <1>0, <1>1 DEF instVars, InstTypeOK, InDeadline, YoungWhileLive, Seen, Reported
<1>2. CASE InstTick
  BY <1>0, <1>2 DEF InstTick, Late, InstTypeOK, InDeadline, YoungWhileLive, Seen, Reported
<1>3. CASE \E s \in Setups : InstStep(s)
  <2>0. PICK s \in Setups : InstStep(s)
    BY <1>3
  <2>1. CASE BeginSetup(s)
    BY <1>0, <2>1 DEF BeginSetup, To, Tell, Seen, Young, InstTypeOK, InDeadline, YoungWhileLive, Reported
  <2>2. CASE CheckInstall(s)
    BY <1>0, <2>2 DEF CheckInstall, To, Tell, InstTypeOK, InDeadline, YoungWhileLive, Seen, Reported,
                        NeverPlaced, Early
  <2>3. CASE Upload(s)
    BY <1>0, <2>3 DEF Upload, To, Late, InstTypeOK, InDeadline, YoungWhileLive, Seen, Reported
  <2>4. CASE Place(s)
    BY <1>0, <2>4 DEF Place, To, Late, PlacedBeforeRename, InstTypeOK, InDeadline, YoungWhileLive, Seen, Reported
  <2>5. CASE Rename(s)
    BY <1>0, <2>5 DEF Rename, To, InstTypeOK, InDeadline, YoungWhileLive, Seen, Reported
  <2>6. CASE RenameLost(s)
    BY <1>0, <2>6 DEF RenameLost, To, InstTypeOK, InDeadline, YoungWhileLive, Seen, Reported
  <2>7. CASE LateRename(s)
    BY <1>0, <2>7 DEF LateRename, InstTypeOK, InDeadline, YoungWhileLive, Seen, Reported
  <2>8. CASE PollStatus(s)
    BY <1>0, <2>8 DEF PollStatus, To, Hear, InstTypeOK, InDeadline, YoungWhileLive, Seen, Reported
  <2>9. CASE PollsOver(s)
    BY <1>0, <2>9 DEF PollsOver, To, InstTypeOK, InDeadline, YoungWhileLive, Seen, Reported
  <2>10. CASE Interrupt(s)
    BY <1>0, <2>10 DEF Interrupt, To, InstTypeOK, InDeadline, YoungWhileLive, Seen, Reported
  <2>11. CASE RemovePhp(s)
    BY <1>0, <2>11 DEF RemovePhp, To, InstTypeOK, InDeadline, YoungWhileLive, Seen, Reported
  <2>12. CASE RemovePart(s)
    BY <1>0, <2>12 DEF RemovePart, To, InstTypeOK, InDeadline, YoungWhileLive, Seen, Reported
  <2>13. CASE LookAtStatus(s)
    BY <1>0, <2>13 DEF LookAtStatus, To, InstTypeOK, InDeadline, YoungWhileLive, Seen, Reported
  <2>14. CASE WaitEnds(s)
    BY <1>0, <2>14 DEF WaitEnds, To, Hear, InstTypeOK, InDeadline, YoungWhileLive, Seen, Reported
  <2>15. CASE RemoveDir(s)
    BY <1>0, <2>15 DEF RemoveDir, To, Tell, Tidied, InstTypeOK, InDeadline, YoungWhileLive, Seen, Reported
  <2>16. CASE Visit(s)
    BY <1>0, <2>16 DEF Visit, FinishSetup, RunOver, Expired, InstTypeOK, InDeadline, YoungWhileLive, Seen, Reported
  <2>17. CASE Extract(s)
    BY <1>0, <2>17 DEF Extract, FinishSetup, RunOver, InstTypeOK, InDeadline, YoungWhileLive, Seen, Reported
  <2>18. CASE Move(s)
    BY <1>0, <2>18 DEF Move, FinishSetup, RunOver, Expired, InstTypeOK, InDeadline, YoungWhileLive, Seen, Reported
  <2>19. CASE ActivatePlugin(s)
    BY <1>0, <2>19 DEF ActivatePlugin, InstTypeOK, InDeadline, YoungWhileLive, Seen, Reported
  <2>20. CASE Report(s)
    BY <1>0, <2>20 DEF Report, FinishSetup, RunOver, ReportWhenActive, InstTypeOK, InDeadline, YoungWhileLive, Seen, Reported
  <2>21. CASE VisitDies(s)
    BY <1>0, <2>21 DEF VisitDies, InstTypeOK, InDeadline, YoungWhileLive, Seen, Reported
  <2>22. CASE UploadLost(s)
    BY <1>0, <2>22 DEF UploadLost, To, InstTypeOK, InDeadline, YoungWhileLive, Seen, Reported
  <2>23. CASE LateUpload(s)
    BY <1>0, <2>23 DEF LateUpload, InstTypeOK, InDeadline, YoungWhileLive, Seen, Reported
  <2>24. CASE Unzip(s)
    BY <1>0, <2>24 DEF Unzip, NeverPlaced, InstTypeOK, InDeadline, YoungWhileLive, Seen, Reported
  <2>. QED BY <2>0, <2>1, <2>2, <2>3, <2>4, <2>5, <2>6, <2>7, <2>8, <2>9, <2>10, <2>11, <2>12, <2>13, <2>14, <2>15, <2>16, <2>17, <2>18, <2>19, <2>20, <2>21, <2>22, <2>23, <2>24 DEF InstStep
<1>. QED BY <1>1, <1>2, <1>3 DEF InstNext

(* Nothing puts back what a visit could install from, once it was removed.  *)
LEMMA InstLeftStep ==
  ASSUME InstInv, [InstNext]_instVars PROVE NothingLeft'
<1>0. InstTypeOK /\ OkIsActive /\ OkIsOver /\ NeverPlaced /\ Reported /\ InDeadline /\ YoungWhileLive
      /\ HonestSetups /\ NothingLeft /\ SaysInstalled
  BY DEF InstInv, HonestReports, HonestSetups, SaysInstalled
<1>. USE InstallerAssumption DEF InstallerAssumption, hqVars, siteVars
<1>1. CASE UNCHANGED instVars
  BY <1>0, <1>1 DEF instVars, InstTypeOK, NothingLeft, Reported, NeverPlaced, Early, OkIsOver
<1>2. CASE InstTick
  BY <1>0, <1>2 DEF InstTick, Late, InstTypeOK, NothingLeft, Reported, NeverPlaced, Early, OkIsOver
<1>3. CASE \E s \in Setups : InstStep(s)
  <2>0. PICK s \in Setups : InstStep(s)
    BY <1>3
  <2>1. CASE BeginSetup(s)
    BY <1>0, <2>1 DEF BeginSetup, To, Tell, Seen, Young, InstTypeOK, NothingLeft, Reported, NeverPlaced, Early, OkIsOver
  <2>2. CASE CheckInstall(s)
    BY <1>0, <2>2 DEF CheckInstall, To, Tell, InstTypeOK, NothingLeft, Reported, NeverPlaced, Early, OkIsOver
  <2>3. CASE Upload(s)
    BY <1>0, <2>3 DEF Upload, To, Late, InstTypeOK, NothingLeft, Reported, NeverPlaced, Early, OkIsOver
  <2>4. CASE Place(s)
    BY <1>0, <2>4 DEF Place, To, Late, PlacedBeforeRename, InstTypeOK, NothingLeft, Reported, NeverPlaced, Early, OkIsOver
  <2>5. CASE Rename(s)
    BY <1>0, <2>5 DEF Rename, To, InstTypeOK, NothingLeft, Reported, NeverPlaced, Early, OkIsOver
  <2>6. CASE RenameLost(s)
    BY <1>0, <2>6 DEF RenameLost, To, InstTypeOK, NothingLeft, Reported, NeverPlaced, Early, OkIsOver
  <2>7. CASE LateRename(s)
    BY <1>0, <2>7 DEF LateRename, InstTypeOK, NothingLeft, Reported, NeverPlaced, Early, OkIsOver
  <2>8. CASE PollStatus(s)
    BY <1>0, <2>8 DEF PollStatus, To, Hear, InstTypeOK, NothingLeft, Reported, NeverPlaced, Early, OkIsOver
  <2>9. CASE PollsOver(s)
    BY <1>0, <2>9 DEF PollsOver, To, InstTypeOK, NothingLeft, Reported, NeverPlaced, Early, OkIsOver
  <2>10. CASE Interrupt(s)
    BY <1>0, <2>10 DEF Interrupt, To, InstTypeOK, NothingLeft, Reported, NeverPlaced, Early, OkIsOver
  <2>11. CASE RemovePhp(s)
    BY <1>0, <2>11 DEF RemovePhp, To, InstTypeOK, NothingLeft, Reported, NeverPlaced, Early, OkIsOver
  <2>12. CASE RemovePart(s)
    BY <1>0, <2>12 DEF RemovePart, To, InstTypeOK, NothingLeft, Reported, NeverPlaced, Early, OkIsOver
  <2>13. CASE LookAtStatus(s)
    BY <1>0, <2>13 DEF LookAtStatus, To, InstTypeOK, NothingLeft, Reported, NeverPlaced, Early, OkIsOver
  <2>14. CASE WaitEnds(s)
    BY <1>0, <2>14 DEF WaitEnds, To, Hear, InstTypeOK, NothingLeft, Reported, NeverPlaced, Early, OkIsOver
  <2>15. CASE RemoveDir(s)
    BY <1>0, <2>15 DEF RemoveDir, To, Tell, Tidied, InstTypeOK, NothingLeft, Reported, NeverPlaced, Early, OkIsOver
  <2>16. CASE Visit(s)
    BY <1>0, <2>16 DEF Visit, FinishSetup, RunOver, Expired, InstTypeOK, NothingLeft, Reported, NeverPlaced, Early, OkIsOver
  <2>17. CASE Extract(s)
    BY <1>0, <2>17 DEF Extract, FinishSetup, RunOver, InstTypeOK, NothingLeft, Reported, NeverPlaced, Early, OkIsOver
  <2>18. CASE Move(s)
    BY <1>0, <2>18 DEF Move, FinishSetup, RunOver, Expired, InstTypeOK, NothingLeft, Reported, NeverPlaced, Early, OkIsOver
  <2>19. CASE ActivatePlugin(s)
    BY <1>0, <2>19 DEF ActivatePlugin, InstTypeOK, NothingLeft, Reported, NeverPlaced, Early, OkIsOver
  <2>20. CASE Report(s)
    BY <1>0, <2>20 DEF Report, FinishSetup, RunOver, ReportWhenActive, InstTypeOK, NothingLeft, Reported, NeverPlaced, Early, OkIsOver
  <2>21. CASE VisitDies(s)
    BY <1>0, <2>21 DEF VisitDies, InstTypeOK, NothingLeft, Reported, NeverPlaced, Early, OkIsOver
  <2>22. CASE UploadLost(s)
    BY <1>0, <2>22 DEF UploadLost, To, InstTypeOK, NothingLeft, Reported, NeverPlaced, Early, OkIsOver
  <2>23. CASE LateUpload(s)
    BY <1>0, <2>23 DEF LateUpload, InstTypeOK, NothingLeft, Reported, NeverPlaced, Early, OkIsOver
  <2>24. CASE Unzip(s)
    BY <1>0, <2>24 DEF Unzip, InstTypeOK, NothingLeft, Reported, NeverPlaced, Early, OkIsOver
  <2>. QED BY <2>0, <2>1, <2>2, <2>3, <2>4, <2>5, <2>6, <2>7, <2>8, <2>9, <2>10, <2>11, <2>12, <2>13, <2>14, <2>15, <2>16, <2>17, <2>18, <2>19, <2>20, <2>21, <2>22, <2>23, <2>24 DEF InstStep
<1>. QED BY <1>1, <1>2, <1>3 DEF InstNext


(* Every step of a setup, of its server and of the clock keeps it.         *)
LEMMA InstSteps == InstInv /\ [InstNext]_instVars => InstInv'
<1>. SUFFICES ASSUME InstInv, [InstNext]_instVars PROVE InstInv'
  OBVIOUS
<1>1. InstTypeOK' /\ OkIsActive' /\ SaysInstalled' /\ OkIsOver' /\ NeverPlaced' /\ Reported'
      /\ InDeadline' /\ YoungWhileLive' /\ NothingLeft'
  BY InstTypesStep, InstActiveStep, InstPlacedStep, InstTimesStep, InstLeftStep
<1>2. HonestSetups'
  BY <1>1 DEF HonestSetups, SaysInstalled, NeverPlaced, Reported
<1>. QED BY <1>1, <1>2 DEF InstInv, HonestReports

(* So it holds in every state.                                             *)
LEMMA InstAlways == InstSpec => []InstInv
BY InstStarts, InstSteps, PTL DEF InstSpec

(* Cleaning up after earlier setups never touches one that goes on: its    *)
(* files are younger than ten minutes, for all setups on one site and any  *)
(* delays of requests and visits (cpanel-installer-setup.ts).              *)
THEOREM LiveUntouchedHolds == InstSpec => LiveUntouched
<1>1. ASSUME InstInv, [InstNext]_instVars, NEW o \in Setups, NEW s \in Setups,
             setupAt[o] = "idle", setupAt'[o] = "check", s # o, setupAt[s] \notin {"idle", "done"}
      PROVE installer'[s] = installer[s] /\ dir'[s] = dir[s]
  <2>0. InstTypeOK /\ InDeadline /\ YoungWhileLive /\ Reported /\ NeverPlaced
    BY <1>1 DEF InstInv
  <2>1. BeginSetup(o)
    <3>1. ~ UNCHANGED instVars /\ ~ InstTick
      BY <1>1 DEF instVars, hqVars, InstTick
    <3>2. PICK q \in Setups : InstStep(q)
      BY <1>1, <3>1 DEF InstNext
    <3>. DEFINE begins == BeginSetup(q)
    <3>. HIDE DEF begins
    <3>3. ~ begins => setupAt'[o] = "idle" \/ setupAt'[o] # "check"
      BY <2>0, <1>1, <3>2 DEF begins, InstStep, CheckInstall, Upload, UploadLost, LateUpload, Place, Rename, RenameLost, LateRename, PollStatus, PollsOver, Interrupt, RemovePhp, RemovePart, LookAtStatus, WaitEnds, RemoveDir, Visit, Extract, Unzip, Move, ActivatePlugin, Report, VisitDies, To, Tell, InstTypeOK, hqVars
    <3>4. q # o => setupAt'[o] = setupAt[o]
      BY <2>0, <1>1, <3>2, <3>3 DEF begins, BeginSetup, To, Tell, InstTypeOK
    <3>. QED BY <1>1, <3>3, <3>4 DEF begins
  <2>2. s \in Seen => Young(s)
    BY <2>0, <1>1, InstallerAssumption DEF InstallerAssumption, InstTypeOK, InDeadline, YoungWhileLive, Young, Seen, Reported, NeverPlaced, Early
  <2>3. s \notin Seen
    BY <1>1, <2>1, <2>2, <2>0 DEF BeginSetup, Tell, To, InstTypeOK
  <2>. QED BY <2>0, <2>1, <2>3, <1>1 DEF BeginSetup, Seen, Tell, To, InstTypeOK
<1>2. InstInv /\ [InstNext]_instVars =>
        \A o, s \in Setups :
          setupAt[o] = "idle" /\ setupAt'[o] = "check" /\ s # o /\ setupAt[s] \notin {"idle", "done"}
            => installer'[s] = installer[s] /\ dir'[s] = dir[s]
  BY <1>1
<1>. QED BY <1>2, InstAlways, PTL DEF InstSpec, LiveUntouched

-----------------------------------------------------------------------------
(* The accounts of a WHM server, and its sessions.                         *)

(* The accounts and the requests are numbered.                             *)
LEMMA ListConstants ==
  /\ Cardinality(Accounts) \in Nat
  /\ Workers # {} \/ Cardinality(Accounts) = 0
  /\ Fetches \subseteq Nat \ {0}
<1>1. Cardinality(Accounts) \in Nat /\ Accounts = 1..Cardinality(Accounts)
  BY WhmListingAssumption, FS_CardinalityType DEF WhmListingAssumption
<1>2. Accounts = {} => Cardinality(Accounts) = 0
  BY FS_EmptySet
<1>3. Cardinality(Fetches) \in Nat /\ Fetches = 1..Cardinality(Fetches)
  BY WhmListingAssumption, FS_CardinalityType DEF WhmListingAssumption
<1>. QED BY <1>1, <1>2, <1>3, WhmListingAssumption DEF WhmListingAssumption

(* Accounts are numbered from 1, without gaps.                             *)
LEMMA AccountsAre == Accounts = 1..Cardinality(Accounts)
BY WhmListingAssumption DEF WhmListingAssumption

(* No account is taken yet.                                                *)
LEMMA ListStarts == ListInit => ListInv
<1>. SUFFICES ASSUME ListInit PROVE ListInv
  OBVIOUS
<1>1. [at |-> "free", account |-> 0, fetch |-> 0]
        \in [at : {"free", "feature", "list", "files", "over"},
             account : Accounts \cup {0}, fetch : Fetches \cup {0}]
  OBVIOUS
<1>2. worker \in [Workers -> [at : {"free", "feature", "list", "files", "over"},
                             account : Accounts \cup {0}, fetch : Fetches \cup {0}]]
  BY <1>1 DEF ListInit
<1>3. ListTypeOK
  <2>1. takenAccounts \in 0..Cardinality(Accounts)
    BY ListConstants DEF ListInit
  <2>2. found \in [Accounts -> {"unread", "sites", "left out"}] /\ broken \subseteq Accounts
    BY DEF ListInit
  <2>3. fetch \in [Fetches -> {"none", "sent", "ok", "failed"}]
    BY DEF ListInit
  <2>4. listing = 0 /\ failure = 0 /\ fatal = FALSE /\ outcome = "none"
    BY DEF ListInit
  <2>. QED BY <1>2, <2>1, <2>2, <2>3, <2>4 DEF ListTypeOK
<1>4. AtTaken /\ TakenAreRead /\ LeavesLast /\ AllOver
  BY ListConstants DEF ListInit, AtTaken, TakenAreRead, LeavesLast, AllOver
<1>. QED BY <1>3, <1>4 DEF ListInv

(* A worker that goes to another place keeps its account.                  *)
LEMMA WorkerIs ==
  ASSUME ListTypeOK, NEW w \in Workers,
         NEW at \in {"free", "feature", "list", "files", "over"}, GoTo(w, at)
  PROVE  /\ worker' \in [Workers -> [at : {"free", "feature", "list", "files", "over"},
                                     account : Accounts \cup {0}, fetch : Fetches \cup {0}]]
         /\ worker'[w].at = at /\ worker'[w].account = worker[w].account
         /\ \A v \in Workers : v # w => worker'[v] = worker[v]
<1>. DEFINE as == Accounts \cup {0}
            fs == Fetches \cup {0}
<1>1. worker \in [Workers -> [at : {"free", "feature", "list", "files", "over"},
                              account : as, fetch : fs]]
  BY DEF ListTypeOK
<1>. HIDE DEF as, fs
<1>2. /\ worker' \in [Workers -> [at : {"free", "feature", "list", "files", "over"},
                                  account : as, fetch : fs]]
      /\ worker'[w].at = at /\ worker'[w].account = worker[w].account
      /\ \A v \in Workers : v # w => worker'[v] = worker[v]
  BY <1>1 DEF GoTo
<1>. QED BY <1>2 DEF as, fs

(* The variables keep their types.                                         *)
LEMMA ListTypesStep == ASSUME ListInv, [ListNext]_listVars PROVE ListTypeOK'
<1>0. ListTypeOK
  BY DEF ListInv
<1>a. \A w \in Workers : worker[w].at \in {"feature", "list", "files"} =>
        worker[w].account \in Accounts
  BY DEF ListInv, AtTaken
<1>. USE ListConstants
<1>1. CASE UNCHANGED listVars
  BY <1>0, <1>1 DEF listVars, ListTypeOK
<1>2. CASE ListEnds
  BY <1>0, <1>2 DEF ListEnds, ListTypeOK
<1>3. CASE \E f \in Fetches : FetchAnswered(f)
  BY <1>0, <1>3 DEF FetchAnswered, ListTypeOK
<1>4. CASE \E w \in Workers : ListStep(w)
  <2>0. PICK w \in Workers : ListStep(w)
    BY <1>4
  <2>a. worker[w] \in [at : {"free", "feature", "list", "files", "over"},
                       account : Accounts \cup {0}, fetch : Fetches \cup {0}]
    BY <1>0 DEF ListTypeOK
  <2>1. CASE TakeAccount(w)
    <3>0. takenAccounts \in 0..Cardinality(Accounts)
      BY <1>0 DEF ListTypeOK
    <3>a. takenAccounts < Cardinality(Accounts) /\ takenAccounts' = takenAccounts + 1
      BY <2>1 DEF TakeAccount, MayTake
    <3>1. takenAccounts + 1 \in Accounts
      BY <3>0, <3>a, AccountsAre
    <3>2. [at |-> "feature", account |-> takenAccounts + 1, fetch |-> 0]
            \in [at : {"free", "feature", "list", "files", "over"},
                 account : Accounts \cup {0}, fetch : Fetches \cup {0}]
      BY <3>1
    <3>. DEFINE record == [at |-> "feature", account |-> takenAccounts + 1, fetch |-> 0]
                places == [at : {"free", "feature", "list", "files", "over"},
                           account : Accounts \cup {0}, fetch : Fetches \cup {0}]
    <3>3. worker' = [worker EXCEPT ![w] = record] /\ worker \in [Workers -> places]
      BY <1>0, <2>1 DEF TakeAccount, ListTypeOK
    <3>4. record \in places
      BY <3>2
    <3>. HIDE DEF record, places
    <3>5. worker' \in [Workers -> places]
      BY <3>3, <3>4
    <3>6. takenAccounts' \in 0..Cardinality(Accounts)
      BY <3>0, <3>a
    <3>. QED BY <1>0, <2>1, <3>5, <3>6 DEF TakeAccount, ListTypeOK, places
  <2>2. CASE LeaveWorker(w)
    BY <1>0, <2>2, WorkerIs DEF LeaveWorker, ListTypeOK
  <2>3. CASE WithoutToolkit(w)
    BY <1>0, <2>3, WorkerIs DEF WithoutToolkit, ListTypeOK
  <2>4. CASE WithToolkit(w)
    <3>1. CASE failure # 0
      <4>1. Free(w) /\ fatal' = TRUE
            /\ UNCHANGED <<listing, fetch, takenAccounts, found, broken, failure, outcome>>
        BY <2>4, <3>1 DEF WithToolkit
      <4>2. worker' \in [Workers -> [at : {"free", "feature", "list", "files", "over"},
                                     account : Accounts \cup {0}, fetch : Fetches \cup {0}]]
        BY <1>0, <4>1, WorkerIs DEF Free
      <4>. QED BY <1>0, <4>1, <4>2 DEF ListTypeOK
    <3>2. CASE failure = 0
      <4>0. PICK f \in Fetches \cup {0} :
              /\ worker' = [worker EXCEPT ![w].at = "list", ![w].fetch = f]
              /\ listing' = f
              /\ fetch' \in [Fetches -> {"none", "sent", "ok", "failed"}]
        BY <1>0, <2>4, <3>2 DEF WithToolkit, ListTypeOK
      <4>. DEFINE as == Accounts \cup {0}
                  fs == Fetches \cup {0}
      <4>1. /\ worker \in [Workers -> [at : {"free", "feature", "list", "files", "over"},
                                       account : as, fetch : fs]]
            /\ f \in fs
        BY <1>0 DEF ListTypeOK
      <4>. HIDE DEF as, fs
      <4>2. worker' \in [Workers -> [at : {"free", "feature", "list", "files", "over"},
                                     account : as, fetch : fs]]
        BY <4>0, <4>1
      <4>. QED BY <1>0, <2>4, <3>2, <4>0, <4>2 DEF WithToolkit, ListTypeOK, as, fs
    <3>. QED BY <3>1, <3>2
  <2>5. CASE AllListed(w)
    BY <1>0, <2>5, WorkerIs DEF AllListed, ListTypeOK
  <2>6. CASE ListFailed(w)
    <3>1. worker' \in [Workers -> [at : {"free", "feature", "list", "files", "over"},
                                   account : Accounts \cup {0}, fetch : Fetches \cup {0}]]
      BY <1>0, <2>6, WorkerIs DEF ListFailed, Free
    <3>2. /\ found' \in [Accounts -> {"unread", "sites", "left out"}]
          /\ fatal' \in BOOLEAN
      BY <1>0, <2>6 DEF ListFailed, ListTypeOK
    <3>3. failure' \in Fetches \cup {0}
      BY <1>0, <2>6, <2>a DEF ListFailed, ListTypeOK
    <3>. QED BY <1>0, <2>6, <3>1, <3>2, <3>3 DEF ListFailed, ListTypeOK
  <2>7. CASE Discovered(w)
    BY <1>0, <2>7, WorkerIs DEF Discovered, Free, ListTypeOK
  <2>8. CASE AccountFails(w)
    <3>1. worker' \in [Workers -> [at : {"free", "feature", "list", "files", "over"},
                                   account : Accounts \cup {0}, fetch : Fetches \cup {0}]]
      BY <1>0, <2>8, WorkerIs DEF AccountFails, Free
    <3>2. broken' \subseteq Accounts /\ found' \in [Accounts -> {"unread", "sites", "left out"}]
          /\ fatal' \in BOOLEAN
      BY <1>0, <1>a, <2>8 DEF AccountFails, ListTypeOK
    <3>. QED BY <1>0, <2>8, <3>1, <3>2 DEF AccountFails, ListTypeOK
  <2>. QED BY <2>0, <2>1, <2>2, <2>3, <2>4, <2>5, <2>6, <2>7, <2>8 DEF ListStep
<1>. QED BY <1>1, <1>2, <1>3, <1>4 DEF ListNext

(* Only the worker that steps is elsewhere afterwards; it leaves its       *)
(* account read, broken or for nobody, which is fatal.                     *)
LEMMA WorkerGoes ==
  ASSUME ListTypeOK, NEW w \in Workers, ListStep(w)
  PROVE  /\ \A v \in Workers : v # w => worker'[v] = worker[v]
         /\ \/ TakeAccount(w) /\ worker'[w].at = "feature"
               /\ worker'[w].account = takenAccounts + 1
            \/ LeaveWorker(w) /\ worker'[w].at = "over"
            \/ /\ worker'[w].account = worker[w].account
               /\ worker[w].at \in {"feature", "list", "files"}
               /\ worker'[w].at \in {"free", "list", "files"}
<1>. USE DEF Free
<1>1. CASE TakeAccount(w)
  BY <1>1 DEF TakeAccount, ListTypeOK
<1>2. CASE LeaveWorker(w)
  BY <1>2, WorkerIs DEF LeaveWorker
<1>3. CASE WithoutToolkit(w)
  BY <1>3, WorkerIs DEF WithoutToolkit
<1>4. CASE WithToolkit(w)
  <2>1. CASE failure # 0
    BY <1>4, <2>1, WorkerIs DEF WithToolkit
  <2>2. CASE failure = 0
    <3>1. PICK f : worker' = [worker EXCEPT ![w].at = "list", ![w].fetch = f]
      BY <1>4, <2>2 DEF WithToolkit
    <3>2. worker \in [Workers -> [at : {"free", "feature", "list", "files", "over"},
                                  account : Accounts \cup {0}, fetch : Fetches \cup {0}]]
      BY DEF ListTypeOK
    <3>3. /\ \A v \in Workers : v # w => worker'[v] = worker[v]
          /\ worker'[w].account = worker[w].account /\ worker'[w].at = "list"
      BY <3>1, <3>2
    <3>. QED BY <1>4, <3>3 DEF WithToolkit
  <2>. QED BY <2>1, <2>2
<1>5. CASE AllListed(w)
  BY <1>5, WorkerIs DEF AllListed
<1>6. CASE ListFailed(w)
  BY <1>6, WorkerIs DEF ListFailed
<1>7. CASE Discovered(w)
  BY <1>7, WorkerIs DEF Discovered
<1>8. CASE AccountFails(w)
  BY <1>8, WorkerIs DEF AccountFails
<1>. QED BY <1>1, <1>2, <1>3, <1>4, <1>5, <1>6, <1>7, <1>8 DEF ListStep

(* A worker is at an account that was taken.                               *)
LEMMA AtTakenStep == ASSUME ListInv, [ListNext]_listVars PROVE AtTaken'
<1>0. ListTypeOK /\ AtTaken /\ takenAccounts \in 0..Cardinality(Accounts)
  BY DEF ListInv, ListTypeOK
<1>1. CASE UNCHANGED <<worker, takenAccounts>>
  BY <1>0, <1>1 DEF AtTaken
<1>2. CASE \E w \in Workers : ListStep(w)
  <2>0. PICK w \in Workers : ListStep(w)
    BY <1>2
  <2>1. CASE TakeAccount(w)
    <3>1. takenAccounts < Cardinality(Accounts) /\ takenAccounts' = takenAccounts + 1
      BY <2>1 DEF TakeAccount, MayTake
    <3>2. \A a \in Accounts : a \in Nat
      BY AccountsAre, ListConstants
    <3>3. takenAccounts + 1 \in Accounts
      BY <1>0, <3>1, AccountsAre, ListConstants
    <3>4. \A v \in Workers : v # w => worker'[v] = worker[v]
      BY <1>0, <2>0, WorkerGoes
    <3>5. worker'[w].account = takenAccounts + 1
      BY <1>0, <2>1 DEF TakeAccount, ListTypeOK
    <3>. QED BY <1>0, <3>1, <3>2, <3>3, <3>4, <3>5, ListConstants DEF AtTaken
  <2>2. CASE ~ TakeAccount(w)
    <3>1. takenAccounts' = takenAccounts
      BY <2>0, <2>2 DEF ListStep, LeaveWorker, WithoutToolkit, WithToolkit, AllListed,
                        ListFailed, Discovered, AccountFails
    <3>. QED BY <1>0, <2>0, <2>2, <3>1, WorkerGoes DEF AtTaken
  <2>. QED BY <2>1, <2>2
<1>. QED BY <1>1, <1>2 DEF ListNext, listVars, ListEnds, FetchAnswered

(* Until something fatal happens an account that was taken is read, broken *)
(* or in work: only a failure of the shared list leaves one out, and the   *)
(* first of these is fatal.                                                *)
LEMMA TakenStep == ASSUME ListInv, [ListNext]_listVars PROVE TakenAreRead'
<1>0. /\ ListTypeOK /\ AtTaken /\ TakenAreRead /\ LeavesLast
      /\ takenAccounts \in 0..Cardinality(Accounts)
      /\ found \in [Accounts -> {"unread", "sites", "left out"}]
  BY DEF ListInv, ListTypeOK
<1>n. takenAccounts \in Nat /\ takenAccounts <= Cardinality(Accounts)
  <2>1. takenAccounts \in 0..Cardinality(Accounts)
    BY <1>0
  <2>. QED BY <2>1, ListConstants
<1>1. CASE UNCHANGED <<worker, takenAccounts, found, broken, fatal>>
  BY <1>0, <1>1 DEF TakenAreRead
<1>2. ASSUME NEW w \in Workers, ListStep(w), ~ fatal' PROVE TakenAreRead'
  <2>1. ~ fatal /\ failure = 0
    <3>1. ~ fatal
      BY <1>2 DEF ListStep, TakeAccount, LeaveWorker, WithoutToolkit, WithToolkit, AllListed,
                  ListFailed, Discovered, AccountFails
    <3>. QED BY <1>0, <3>1 DEF LeavesLast
  <2>2. ~ ListFailed(w)
    BY <1>2, <2>1 DEF ListFailed, IsServerFailure
  <2>3. \A a \in Accounts : found[a] = "sites" => found'[a] = "sites" \/ a \in broken'
    <3>1. CASE Discovered(w)
      BY <1>0, <3>1 DEF Discovered
    <3>2. CASE AccountFails(w)
      BY <1>0, <1>2, <3>2 DEF AccountFails
    <3>3. CASE ~ Discovered(w) /\ ~ AccountFails(w)
      BY <1>2, <2>2, <3>3 DEF ListStep, TakeAccount, LeaveWorker, WithoutToolkit, WithToolkit, AllListed
    <3>. QED BY <3>1, <3>2, <3>3
  <2>4. broken \subseteq broken'
    BY <1>2 DEF ListStep, TakeAccount, LeaveWorker, WithoutToolkit, WithToolkit, AllListed,
                ListFailed, Discovered, AccountFails
  <2>5. CASE TakeAccount(w)
    <3>1. takenAccounts' = takenAccounts + 1 /\ worker[w].at = "free" /\ UNCHANGED <<found, broken>>
      BY <2>5 DEF TakeAccount
    <3>2. worker'[w].account = takenAccounts + 1 /\ worker'[w].at = "feature"
      BY <1>0, <2>5 DEF TakeAccount, ListTypeOK
    <3>3. \A v \in Workers : v # w => worker'[v] = worker[v]
      BY <1>0, <1>2, WorkerGoes
    <3>. SUFFICES ASSUME NEW a \in 1..takenAccounts'
                  PROVE  \/ found'[a] = "sites" \/ a \in broken'
                         \/ \E v \in Workers : worker'[v].account = a
                              /\ worker'[v].at \in {"feature", "list", "files"}
      BY DEF TakenAreRead
    <3>4. CASE a = takenAccounts + 1
      BY <3>2, <3>4
    <3>5. CASE a \in 1..takenAccounts
      <4>1. CASE found[a] = "sites" \/ a \in broken
        BY <3>1, <4>1
      <4>2. CASE \E v \in Workers : worker[v].account = a
                                   /\ worker[v].at \in {"feature", "list", "files"}
        <5>1. PICK v \in Workers : worker[v].account = a
                                  /\ worker[v].at \in {"feature", "list", "files"}
          BY <4>2
        <5>2. worker'[v] = worker[v]
          BY <3>1, <3>3, <5>1
        <5>. QED BY <5>1, <5>2
      <4>. QED BY <1>0, <2>1, <3>5, <4>1, <4>2 DEF TakenAreRead
    <3>. QED BY <1>n, <3>1, <3>4, <3>5
  <2>6. CASE ~ TakeAccount(w)
    <3>0. takenAccounts' = takenAccounts
      BY <1>2, <2>6 DEF ListStep, LeaveWorker, WithoutToolkit, WithToolkit, AllListed,
                        ListFailed, Discovered, AccountFails
    <3>. SUFFICES ASSUME NEW a \in 1..takenAccounts
                  PROVE  \/ found'[a] = "sites" \/ a \in broken'
                         \/ \E v \in Workers : worker'[v].account = a
                              /\ worker'[v].at \in {"feature", "list", "files"}
      BY <3>0 DEF TakenAreRead
    <3>1. a \in Accounts
      BY <1>n, AccountsAre, ListConstants
    <3>2. CASE found[a] = "sites" \/ a \in broken
      BY <2>3, <2>4, <3>1, <3>2
    <3>3. ASSUME NEW v \in Workers, worker[v].account = a,
                 worker[v].at \in {"feature", "list", "files"}, v # w
          PROVE  worker'[v].account = a /\ worker'[v].at \in {"feature", "list", "files"}
      BY <1>0, <1>2, <3>3, WorkerGoes
    <3>4. CASE worker[w].account = a /\ worker[w].at \in {"feature", "list", "files"}
      <4>1. CASE Discovered(w)
        BY <1>0, <3>1, <3>4, <4>1 DEF Discovered
      <4>2. CASE AccountFails(w)
        BY <1>0, <1>2, <3>1, <3>4, <4>2 DEF AccountFails
      <4>3. CASE WithoutToolkit(w)
        BY <1>0, <3>4, <4>3, WorkerIs DEF WithoutToolkit
      <4>4. CASE AllListed(w)
        BY <1>0, <3>4, <4>4, WorkerIs DEF AllListed
      <4>5. CASE WithToolkit(w)
        <5>1. worker'[w].account = worker[w].account /\ worker'[w].at \in {"free", "list", "files"}
          BY <1>0, <1>2, <3>4, <4>5, WorkerGoes DEF TakeAccount, LeaveWorker, WithToolkit
        <5>2. PICK f : worker' = [worker EXCEPT ![w].at = "list", ![w].fetch = f]
          BY <2>1, <4>5 DEF WithToolkit
        <5>3. worker'[w].at = "list"
          BY <1>0, <5>2 DEF ListTypeOK
        <5>. QED BY <3>4, <5>1, <5>3
      <4>6. ~ LeaveWorker(w)
        BY <3>4 DEF LeaveWorker
      <4>. QED BY <1>2, <2>2, <2>6, <4>1, <4>2, <4>3, <4>4, <4>5, <4>6 DEF ListStep
    <3>. QED BY <1>0, <2>1, <3>2, <3>3, <3>4 DEF TakenAreRead
  <2>. QED BY <2>5, <2>6
<1>. QED BY <1>1, <1>2 DEF ListNext, listVars, ListEnds, FetchAnswered, TakenAreRead

(* Workers leave when no account is left, and the end says whether all of  *)
(* them did without a fatal failure.                                       *)
LEMMA LeavesStep == ASSUME ListInv, [ListNext]_listVars PROVE LeavesLast' /\ AllOver'
<1>0. ListTypeOK /\ LeavesLast /\ AllOver /\ takenAccounts \in 0..Cardinality(Accounts)
  BY DEF ListInv, ListTypeOK
<1>1. CASE ListEnds
  BY <1>0, <1>1 DEF ListEnds, LeavesLast, AllOver
<1>2. CASE UNCHANGED <<worker, takenAccounts, failure, fatal, outcome>>
  BY <1>0, <1>2 DEF LeavesLast, AllOver
<1>3. CASE \E w \in Workers : ListStep(w)
  <2>0. PICK w \in Workers : ListStep(w)
    BY <1>3
  <2>1. outcome' = outcome
    BY <2>0 DEF ListStep, TakeAccount, LeaveWorker, WithoutToolkit, WithToolkit, AllListed,
                ListFailed, Discovered, AccountFails
  <2>2. worker[w].at = "over" => FALSE
    BY <2>0 DEF ListStep, TakeAccount, LeaveWorker, WithoutToolkit, WithToolkit, AllListed,
                ListFailed, Discovered, AccountFails
  <2>3. AllOver'
    BY <1>0, <2>1, <2>2 DEF AllOver
  <2>4. ASSUME ~ fatal' PROVE LeavesLast'
    <3>1. ~ fatal
      BY <2>0, <2>4 DEF ListStep, TakeAccount, LeaveWorker, WithoutToolkit, WithToolkit,
                        AllListed, ListFailed, Discovered, AccountFails
    <3>2. ~ ListFailed(w) /\ failure = 0
      BY <1>0, <2>4, <3>1 DEF LeavesLast, ListFailed, IsServerFailure
    <3>3. failure' = 0
      BY <2>0, <3>2 DEF ListStep, TakeAccount, LeaveWorker, WithoutToolkit, WithToolkit,
                        AllListed, Discovered, AccountFails
    <3>4. CASE TakeAccount(w)
      <4>1. takenAccounts < Cardinality(Accounts)
        BY <3>4 DEF TakeAccount, MayTake
      <4>2. \A v \in Workers : worker[v].at # "over"
        BY <1>0, <3>1, <4>1, ListConstants DEF LeavesLast
      <4>3. \A v \in Workers : worker'[v].at # "over"
        BY <1>0, <2>0, <3>4, <4>2, WorkerGoes DEF LeaveWorker, TakeAccount
      <4>. QED BY <3>3, <4>3 DEF LeavesLast
    <3>5. CASE LeaveWorker(w)
      <4>1. takenAccounts' = takenAccounts /\ takenAccounts = Cardinality(Accounts)
        BY <1>0, <3>1, <3>5, ListConstants DEF LeaveWorker, MayTake
      <4>. QED BY <3>3, <4>1 DEF LeavesLast
    <3>6. CASE ~ TakeAccount(w) /\ ~ LeaveWorker(w)
      <4>1. takenAccounts' = takenAccounts
        BY <2>0, <3>6 DEF ListStep, WithoutToolkit, WithToolkit, AllListed,
                        ListFailed, Discovered, AccountFails
      <4>. QED BY <1>0, <2>0, <3>1, <3>3, <3>6, <4>1, WorkerGoes DEF LeavesLast
    <3>. QED BY <3>4, <3>5, <3>6
  <2>. QED BY <2>3, <2>4 DEF LeavesLast
<1>. QED BY <1>1, <1>2, <1>3 DEF ListNext, listVars, FetchAnswered

(* Every step of the listing and of its workers keeps it.                  *)
LEMMA ListSteps == ListInv /\ [ListNext]_listVars => ListInv'
BY ListTypesStep, AtTakenStep, TakenStep, LeavesStep DEF ListInv

(* A listing that succeeds took every account.                             *)
LEMMA ListingIsComplete == ListInv => CompleteListing
<1>. SUFFICES ASSUME ListInv, outcome = "ok", NEW a \in Accounts
              PROVE  found[a] = "sites" \/ a \in broken
  BY DEF CompleteListing
<1>1. ~ fatal /\ \A w \in Workers : worker[w].at = "over"
  BY DEF ListInv, AllOver
<1>2. takenAccounts = Cardinality(Accounts)
  <2>1. CASE Workers = {}
    <3>1. takenAccounts \in 0..Cardinality(Accounts)
      BY DEF ListInv, ListTypeOK
    <3>. QED BY <2>1, <3>1, ListConstants
  <2>2. CASE Workers # {}
    BY <1>1, <2>2 DEF ListInv, LeavesLast
  <2>. QED BY <2>1, <2>2
<1>3. a \in 1..takenAccounts
  BY <1>2, AccountsAre
<1>. QED BY <1>1, <1>3 DEF ListInv, TakenAreRead

(* No session is open.                                                     *)
LEMMA SessStarts == SessInit => SessInv
<1>. SUFFICES ASSUME SessInit PROVE SessInv
  OBVIOUS
<1>1. SessTypeOK
  <2>1. uploads \in 0..Uploads /\ logouts \in 0..2
    BY WhmSessionAssumption DEF WhmSessionAssumption, SessInit
  <2>2. cancelled \in BOOLEAN /\ sessionClosed \in BOOLEAN /\ unheard \in BOOLEAN
    BY DEF SessInit
  <2>. QED BY <2>1, <2>2 DEF SessInit, SessTypeOK
<1>2. SessionKnown /\ UploadsLeft
  BY DEF SessInit, SessionKnown, UploadsLeft
<1>. QED BY <1>1, <1>2 DEF SessInv

(* HQ knows of every live session whose answer it heard.                   *)
LEMMA SessSteps == SessInv /\ [SessNext]_sessVars => SessInv'
<1>. SUFFICES ASSUME SessInv, [SessNext]_sessVars PROVE SessInv'
  OBVIOUS
<1>. USE WhmSessionAssumption
     DEF WhmSessionAssumption, SessInv, SessTypeOK, SessionKnown, UploadsLeft, LogoutAttempts
<1>1. CASE UNCHANGED sessVars
  BY <1>1 DEF sessVars
<1>2. CASE SessUpload
  BY <1>2 DEF SessUpload
<1>3. CASE CreateSession
  BY <1>3 DEF CreateSession, CallFails
<1>4. CASE Login
  BY <1>4 DEF Login, CallFails, LoginStops
<1>5. CASE SessSend
  BY <1>5 DEF SessSend
<1>6. CASE SessClose
  BY <1>6 DEF SessClose
<1>7. CASE Logout
  <2>1. /\ logouts' = logouts + 1 /\ logouts \in {0, 1}
        /\ UNCHANGED <<uploads, cancelled, opening, sessionClosed>>
        /\ operationAt' \in {"logout", "over"} /\ whmSession' \in {"out", whmSession}
        /\ operationAt' = "logout" => logouts' < 2
    BY <1>7 DEF Logout
  <2>2. unheard' \in BOOLEAN
    BY <1>7 DEF Logout
  <2>3. SessTypeOK'
    BY <2>1, <2>2
  <2>4. UploadsLeft'
    BY <2>1
  <2>a. ~ (logouts' < LogoutAttempts) => logouts' = 2
    BY <2>1
  <2>5. whmSession' = "out" \/ operationAt' = "logout" \/ unheard'
    <3>1. CASE logouts' < LogoutAttempts
      BY <1>7, <3>1 DEF Logout
    <3>2. CASE logouts' = 2
      BY <1>7, <3>2, <2>1, Zenon DEF Logout
    <3>. QED BY <2>a, <3>1, <3>2
  <2>6. SessionKnown'
    BY <2>5
  <2>. QED BY <2>3, <2>4, <2>6
<1>8. CASE Cancel
  BY <1>8 DEF Cancel
<1>. QED BY <1>1, <1>2, <1>3, <1>4, <1>5, <1>6, <1>7, <1>8 DEF SessNext

(* The invariant says what is promised of the sessions.                    *)
LEMMA SessionsAreClosed == SessInv => SessionClosed
BY DEF SessInv, SessionKnown, SessionClosed

(* What HQ does on a cPanel server is reported as it is and ended for good, *)
(* for any number of setups, accounts, workers and uploads: what a setup   *)
(* reports of the site, although an upload or a run it gave up on may      *)
(* bring a directory back (cpanel-installer-setup.ts), a listing that is   *)
(* complete when it succeeds (whm.ts, whm-api.ts), a session that is       *)
(* logged out unless an answer got lost (whm-session.ts).                  *)
THEOREM CpanelHonestHolds == InstSpec /\ ListSpec /\ SessSpec => []CpanelHonest
<1>1. InstInv /\ ListInv /\ SessInv => CpanelHonest
  BY ListingIsComplete, SessionsAreClosed DEF InstInv, CpanelHonest
<1>2. ListSpec => []ListInv
  BY ListStarts, ListSteps, PTL DEF ListSpec
<1>3. SessSpec => []SessInv
  BY SessStarts, SessSteps, PTL DEF SessSpec
<1>. QED BY <1>1, <1>2, <1>3, InstAlways, PTL

-----------------------------------------------------------------------------
(* The configuration and its clients on the network together (MCHosting).  *)

\* What every part keeps, in whatever part a behaviour is.
PartsInv == StoreInv /\ SecretsInv /\ HttpInv /\ InstInv /\ ListInv /\ SessInv

\* A step of the suite is one of each part, or leaves it alone.
LEMMA PartsStep ==
  ASSUME [HostingNext]_<<part, storeVars, httpVars, instVars, listVars, sessVars>>
  PROVE  /\ [Next]_storeVars /\ [HttpNext]_httpVars /\ [InstNext]_instVars
         /\ [ListNext]_listVars /\ [SessNext]_sessVars
<1>1. CASE Only("config") /\ Next
  BY <1>1 DEF Only
<1>2. CASE Only("http") /\ HttpNext
  BY <1>2 DEF Only
<1>3. CASE Only("installer") /\ InstNext
  BY <1>3 DEF Only
<1>4. CASE Only("listing") /\ ListNext
  BY <1>4 DEF Only
<1>5. CASE Only("session") /\ SessNext
  BY <1>5 DEF Only
<1>6. CASE UNCHANGED <<part, storeVars, httpVars, instVars, listVars, sessVars>>
  BY <1>6
<1>. QED BY <1>1, <1>2, <1>3, <1>4, <1>5, <1>6 DEF HostingNext

\* The state of the part at work has its type, its limits, and all that the theorems
\* above rest on.
THEOREM HostingTypeOKHolds == HostingSpec => []HostingTypeOK
<1>1. HostingInit => PartsInv /\ part \in Parts
  <2>. SUFFICES ASSUME HostingInit PROVE PartsInv /\ part \in Parts
    OBVIOUS
  <2>1. /\ part \in Parts /\ Init /\ HttpInit /\ InstInit /\ ListInit /\ SessInit
    BY DEF HostingInit
  <2>. QED
    BY <2>1, StoreInit, SecretsInit, HttpStarts, InstStarts, ListStarts, SessStarts DEF PartsInv
<1>2. ASSUME PartsInv, part \in Parts,
             [HostingNext]_<<part, storeVars, httpVars, instVars, listVars, sessVars>>
      PROVE  (PartsInv /\ part \in Parts)'
  <2>1. /\ [Next]_storeVars /\ [HttpNext]_httpVars /\ [InstNext]_instVars
        /\ [ListNext]_listVars /\ [SessNext]_sessVars
    BY <1>2, PartsStep
  <2>2. PartsInv'
    BY <1>2, <2>1, StoreStep, SecretsStep, HttpSteps, InstSteps, ListSteps, SessSteps DEF PartsInv
  <2>3. (part \in Parts)'
    BY <1>2 DEF HostingNext, Only
  <2>. QED BY <2>2, <2>3
<1>3. PartsInv /\ part \in Parts => HostingTypeOK
  BY DEF PartsInv, HostingTypeOK, Parts
<1>. QED BY <1>1, <1>2, <1>3, PTL DEF HostingSpec

\* All that is checked of the configuration and of HQ's work on the network together: no
\* completed write is lost, the locks never deadlock, a named secret stays saved unless a
\* late forgetting or a half-done replace() exposed it, and requests, installers and
\* sessions are as their sections say (src/config, src/credentials, src/hosting).
THEOREM HostingSuite ==
  HostingSpec =>
    /\ [](OnceInTime /\ CpanelHonest /\ ProfilesKept /\ NoDeadlock /\ SecretsKept)
    /\ LiveUntouched
<1>1. HostingInit => Init /\ HttpInit /\ InstInit /\ ListInit /\ SessInit
  BY DEF HostingInit
<1>2. ASSUME [HostingNext]_<<part, storeVars, httpVars, instVars, listVars, sessVars>>
      PROVE  /\ [Next]_storeVars /\ [HttpNext]_httpVars /\ [InstNext]_instVars
             /\ [ListNext]_listVars /\ [SessNext]_sessVars
  BY <1>2, PartsStep
<1>3. HostingSpec => Spec /\ HttpSpec /\ InstSpec /\ ListSpec /\ SessSpec
  BY <1>1, <1>2, PTL DEF HostingSpec, Spec, HttpSpec, InstSpec, ListSpec, SessSpec
<1>. QED
  BY <1>3, OnceInTimeHolds, CpanelHonestHolds, ProfilesKeptHolds, NoDeadlockHolds, SecretsKeptHolds,
     LiveUntouchedHolds, PTL
=============================================================================
