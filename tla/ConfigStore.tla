---------------------------- MODULE ConfigStore ----------------------------
(* config.json, the credential store beside it, and the operations that    *)
(* change both: src/src/config/profiles.ts, src/src/credentials/store.ts,  *)
(* the dashboard's provider service, `hosting config` of the command line  *)
(* and the push that an MCP client applies under its saved push's lock.    *)
(*                                                                         *)
(* A lock file is one atomic variable here: ProfileLock.tla shows that     *)
(* withLock() implements the mutual exclusion this module builds on.       *)
EXTENDS Naturals, Sequences, FiniteSets

CONSTANTS
  Procs,        \* processes; each has one ConfigStore
  Tasks,        \* asynchronous operations that run in them
  ProcOf,       \* the process of a task
  ProfileNames, \* names of hosting profiles
  PushNames,    \* names of saved pushes
  Providers,
  Whm,          \* the provider whose token is checked before it is saved
  Secrets,      \* values of secrets
  Routes,       \* contents of saved pushes
  ConfigKey,    \* CONFIG_LOCK_KEY
  Env,          \* a credential reference that is not a stored id
  None,
  Ops,          \* the operations that tasks may be given
  ReplaceFaults,\* how backend.replace() may fail: see ReplaceFails
  Crashes       \* TRUE: a process may die

Names == ProfileNames \cup PushNames
Keys == Names \cup {ConfigKey}
Ids == Providers \X ProfileNames
Profiles == [provider : Providers, ref : Ids \cup {Env}]
Kinds == {"dash_upsert", "cli_upsert", "dash_remove", "cli_remove",
          "push_upsert", "push_remove", "push_apply"}
ProfileKinds == {"dash_upsert", "cli_upsert", "dash_remove", "cli_remove"}

ASSUME ProcAssumption == ProcOf \in [Tasks -> Procs]
ASSUME NameAssumption == /\ ProfileNames \cap PushNames = {}
                         /\ ConfigKey \notin Names
                         /\ None \notin Tasks \cup Secrets \cup Routes \cup Profiles \cup Ids
                         /\ Env \notin Ids
ASSUME OpAssumption ==
  Ops \subseteq [kind : Kinds, name : Names, provider : Providers,
                 cred : {"secret", "env", "keep"}, secret : Secrets,
                 force : BOOLEAN, route : Routes \cup {None}]
\* Profiles and saved pushes are two sections of the document.
ASSUME SectionAssumption ==
  \A o \in Ops : o.kind \in ProfileKinds <=> o.name \in ProfileNames
ASSUME FaultAssumption == ReplaceFaults \subseteq {"refused", "removed", "written"}

VARIABLES
  doc,      \* config.json: what each name stands for
  secrets,  \* the backend's records
  holder,   \* lock files: who owns each key
  chain,    \* ConfigStore.queue: tasks of one process waiting for a key
  pc, op,   \* per task: where it is, what it was asked
  existing, \* per task: what it read before it planned its change
  loaded,   \* per task: the document mutate() read
  prior,    \* per task: the snapshots of its credential transaction
  intended, \* history: the document as the completed writes made it
  saved,    \* history: the secret each stored reference was last saved with
  unrestored,\* history: ids whose rollback failed or never ran
  exposed   \* history: ids whose secret was taken or left by a step that nobody
            \* puts back, and that were not saved again since

taskVars == <<pc, op, existing, loaded, prior>>
history == <<intended, saved, unrestored, exposed>>
storeVars == <<doc, secrets, holder, chain, taskVars, history>>

Value == Profiles \cup Routes \cup {None}
NoOp == [kind |-> "none"]
NoPrior == [state |-> "none"]
Priors == {NoPrior, [state |-> "absent"], [state |-> "unknown"]}
          \cup [state : {"present"}, secret : Secrets]

Init ==
  /\ doc = [n \in Names |-> None]
  /\ secrets = [i \in Ids |-> None]
  /\ holder = [k \in Keys |-> None]
  /\ chain = [p \in Procs |-> [k \in Keys |-> <<>>]]
  /\ pc = [t \in Tasks |-> "idle"]
  /\ op = [t \in Tasks |-> NoOp]
  /\ existing = [t \in Tasks |-> None]
  /\ loaded = [t \in Tasks |-> doc]
  /\ prior = [t \in Tasks |-> NoPrior]
  /\ intended = doc
  /\ saved = [i \in Ids |-> None]
  /\ unrestored = {}
  /\ exposed = {}

Goto(t, label) == pc' = [pc EXCEPT ![t] = label]

-----------------------------------------------------------------------------
(* runExclusive(): a task queues behind the tasks of its own process, then *)
(* competes with the other processes for the lock file.                    *)
(* Mutant of InnerKey: the save asks again for the lock the task is in.    *)
InnerKeyAgain(t) == op[t].name
InnerKey(t) == ConfigKey
KeyOf(t) == IF pc[t] = "wait_config" THEN InnerKey(t) ELSE op[t].name
Held(t) == {k \in Keys : holder[k] = t}

Queue(t, k) == [chain EXCEPT ![ProcOf[t]][k] = Append(@, t)]
Dequeued(t, k) == [chain EXCEPT ![ProcOf[t]][k] = Tail(@)]

(* Mutant of FileFree: the queue of the process is the only lock.          *)
FileFreeAlways(k) == TRUE
FileFree(k) == holder[k] = None
First(t, k) == chain[ProcOf[t]][k] # <<>> /\ Head(chain[ProcOf[t]][k]) = t

Submit(t, o) ==
  /\ pc[t] = "idle"
  /\ op' = [op EXCEPT ![t] = o]
  /\ Goto(t, "wait_name")
  /\ chain' = Queue(t, o.name)
  /\ UNCHANGED <<doc, secrets, holder, existing, loaded, prior, history>>

(* The operation begins under its lock.                                    *)
AfterLock(t) ==
  IF pc[t] = "wait_config" THEN "load"
  ELSE CASE op[t].kind \in {"dash_upsert", "cli_upsert"} -> "plan"
         [] op[t].kind = "push_apply" -> "compare"
         [] OTHER -> "enter_config"

Acquire(t) ==
  /\ pc[t] \in {"wait_name", "wait_config"}
  /\ First(t, KeyOf(t))
  /\ FileFree(KeyOf(t))
  /\ holder' = [holder EXCEPT ![KeyOf(t)] = t]
  /\ Goto(t, AfterLock(t))
  /\ UNCHANGED <<doc, secrets, chain, op, existing, loaded, prior, history>>

(* Another process kept the lock file for longer than timeoutMs. A failure *)
(* inside a credential transaction rolls it back; otherwise the operation  *)
(* just ends. Either way the promise chain moves on.                       *)
LockTimeout(t) ==
  /\ pc[t] \in {"wait_name", "wait_config"}
  /\ First(t, KeyOf(t))
  /\ holder[KeyOf(t)] # None
  /\ chain' = Dequeued(t, KeyOf(t))
  /\ Goto(t, IF pc[t] = "wait_name" THEN "failed" ELSE "rollback")
  /\ UNCHANGED <<doc, secrets, holder, op, existing, loaded, prior, history>>

(* mutate() asks for the config lock inside the lock of the entry.         *)
EnterConfig(t) ==
  /\ pc[t] = "enter_config"
  /\ Goto(t, "wait_config")
  /\ chain' = Queue(t, InnerKey(t))
  /\ UNCHANGED <<doc, secrets, holder, op, existing, loaded, prior, history>>

(* withLock() returns: the lock file goes, and the chain of the process.   *)
Release(t, k) ==
  /\ holder' = [holder EXCEPT ![k] = None]
  /\ chain' = Dequeued(t, k)

-----------------------------------------------------------------------------
(* The reference the saved profile will carry. A dashboard form without a  *)
(* credential keeps the profile's own; the command line does not.          *)
Reference(o, old) ==
  IF o.cred = "secret" THEN <<o.provider, o.name>>
  ELSE IF o.cred = "keep" /\ o.kind = "dash_upsert" /\ old # None THEN old.ref
  ELSE Env
NewProfile(o, old) == [provider |-> o.provider, ref |-> Reference(o, old)]
StoredId(profile) == IF profile = None \/ profile.ref = Env THEN None ELSE profile.ref
OwnId(t) == <<op[t].provider, op[t].name>>

(* getHostingProfile(), the refusal of an existing name without --force,   *)
(* and the choice between a transaction and a plain save.                  *)
Plan(t) ==
  /\ pc[t] = "plan"
  /\ existing' = [existing EXCEPT ![t] = doc[op[t].name]]
  /\ Goto(t, IF doc[op[t].name] # None /\ ~op[t].force THEN "rollback"
             ELSE IF op[t].cred = "secret" THEN "snapshot" ELSE "validate")
  /\ UNCHANGED <<doc, secrets, holder, chain, op, loaded, prior, history>>

(* BackendCredentialStore.snapshot(): three outcomes, on purpose.          *)
Snapshot(t) ==
  /\ pc[t] = "snapshot"
  /\ \/ prior' = [prior EXCEPT ![t] =
           IF secrets[OwnId(t)] = None THEN [state |-> "absent"]
           ELSE [state |-> "present", secret |-> secrets[OwnId(t)]]]
     \/ prior' = [prior EXCEPT ![t] = [state |-> "unknown"]]
  /\ Goto(t, "replace")
  /\ UNCHANGED <<doc, secrets, holder, chain, op, existing, loaded, history>>

Replace(t) ==
  /\ pc[t] = "replace"
  /\ secrets' = [secrets EXCEPT ![OwnId(t)] = op[t].secret]
  /\ Goto(t, "validate")
  /\ UNCHANGED <<doc, holder, chain, op, existing, loaded, prior, history>>

(* replace() throws before its snapshot is kept, so the transaction has    *)
(* nothing to undo. "refused": nothing was written; "written": the helper  *)
(* was stopped at its time limit after it wrote; "removed": the file       *)
(* backend could not verify the file it wrote, and unlinked it.            *)
ReplaceFails(t) ==
  /\ pc[t] = "replace"
  /\ \E fault \in ReplaceFaults :
       /\ secrets' = [secrets EXCEPT ![OwnId(t)] =
                        CASE fault = "refused" -> @
                          [] fault = "written" -> op[t].secret
                          [] fault = "removed" -> None]
       /\ exposed' = IF fault = "refused" THEN exposed ELSE exposed \cup {OwnId(t)}
  /\ prior' = [prior EXCEPT ![t] = NoPrior]
  /\ Goto(t, "rollback")
  /\ UNCHANGED <<doc, holder, chain, op, existing, loaded, intended, saved, unrestored>>

(* The provider is asked before the save: always for WHM, and for every    *)
(* provider by `config add --company auto`. The answer may be a refusal.   *)
Validate(t) ==
  /\ pc[t] = "validate"
  /\ LET ref == Reference(op[t], existing[t])
         asked == op[t].provider = Whm \/ op[t].kind = "cli_upsert"
         readable == ref \in {i \in Ids : secrets[i] # None} \cup {Env}
     IN \/ (asked => readable) /\ Goto(t, "enter_config")
        \/ asked /\ Goto(t, "rollback")
  /\ UNCHANGED <<doc, secrets, holder, chain, op, existing, loaded, prior, history>>

(* Mutant of PriorState: a secret that could not be read counts as absent. *)
PriorStateOrAbsent(t) == IF prior[t].state = "present" THEN "present" ELSE "absent"
PriorState(t) == prior[t].state

(* withCredentialTransaction()'s catch: the snapshot is restored, except   *)
(* one that could not be read. Restoring may fail too: then a warning.     *)
Rollback(t) ==
  /\ pc[t] = "rollback"
  /\ \/ /\ PriorState(t) # "unknown"
        /\ secrets' = CASE PriorState(t) = "absent"  -> [secrets EXCEPT ![OwnId(t)] = None]
                        [] PriorState(t) = "present" ->
                             [secrets EXCEPT ![OwnId(t)] = prior[t].secret]
                        [] OTHER -> secrets
        /\ UNCHANGED unrestored
     \/ /\ prior[t] # NoPrior
        /\ unrestored' = unrestored \cup {OwnId(t)}
        /\ UNCHANGED secrets
  /\ prior' = [prior EXCEPT ![t] = NoPrior]
  /\ Release(t, op[t].name)
  /\ Goto(t, "failed")
  /\ UNCHANGED <<doc, op, existing, loaded, intended, saved, exposed>>

-----------------------------------------------------------------------------
(* mutate(): load, change one entry, write, under the config lock.         *)
Load(t) ==
  /\ pc[t] = "load"
  /\ loaded' = [loaded EXCEPT ![t] = doc]
  /\ Goto(t, "write")
  /\ UNCHANGED <<doc, secrets, holder, chain, op, existing, prior, history>>

(* Removing what is not there throws, as does a document or a path that    *)
(* cannot be trusted or parsed; then nothing is written.                   *)
Removes(o) == o.kind \in {"dash_remove", "cli_remove", "push_remove"}
NewValue(t) == CASE Removes(op[t]) -> None
                 [] op[t].kind = "push_upsert" -> op[t].route
                 [] OTHER -> NewProfile(op[t], existing[t])

(* The stored secret that the change left without a profile, if any. The   *)
(* dashboard forgets it after the lock of the profile, the command line    *)
(* inside it.                                                              *)
Orphan(o, old) ==
  LET next == IF Removes(o) THEN None ELSE NewProfile(o, old)
  IN IF o.kind \notin ProfileKinds \/ StoredId(old) = StoredId(next)
     THEN None ELSE StoredId(old)
OldEntry(t) == IF Removes(op[t]) THEN loaded[t][op[t].name] ELSE existing[t]

\* The secret of this save is still where replace() put it.
InStore(t) == prior[t] # NoPrior /\ secrets[OwnId(t)] = op[t].secret

WriteDocument(t) ==
  /\ pc[t] = "write"
  /\ Removes(op[t]) => loaded[t][op[t].name] # None
  /\ doc' = [loaded[t] EXCEPT ![op[t].name] = NewValue(t)]
  /\ intended' = [intended EXCEPT ![op[t].name] = NewValue(t)]
  /\ saved' = IF prior[t] = NoPrior THEN saved ELSE [saved EXCEPT ![OwnId(t)] = op[t].secret]
  /\ unrestored' = IF prior[t] = NoPrior THEN unrestored ELSE unrestored \ {OwnId(t)}
  /\ exposed' = IF InStore(t) THEN exposed \ {OwnId(t)} ELSE exposed
  /\ existing' = [existing EXCEPT ![t] = OldEntry(t)]
  /\ Release(t, ConfigKey)
  /\ prior' = [prior EXCEPT ![t] = NoPrior]
  /\ Goto(t, IF op[t].kind \in {"cli_upsert", "cli_remove"} /\ Orphan(op[t], OldEntry(t)) # None
             THEN "forget" ELSE "leave")
  /\ UNCHANGED <<secrets, op, loaded>>

WriteFails(t) ==
  /\ pc[t] = "write"
  /\ Release(t, ConfigKey)
  /\ Goto(t, "rollback")
  /\ UNCHANGED <<doc, secrets, op, existing, loaded, prior, history>>

(* withHostingProfileLock() returns.                                       *)
Leave(t) ==
  /\ pc[t] = "leave"
  /\ Release(t, op[t].name)
  /\ Goto(t, IF op[t].kind \in {"dash_upsert", "dash_remove"}
               /\ Orphan(op[t], existing[t]) # None
             THEN "forget" ELSE "done")
  /\ UNCHANGED <<doc, secrets, op, existing, loaded, prior, history>>

(* forgetSecret(): best effort, a failure becomes a warning. Without the   *)
(* lock of the profile, somebody may have saved the reference again.       *)
Forget(t) ==
  /\ pc[t] = "forget"
  /\ \/ /\ secrets' = [secrets EXCEPT ![Orphan(op[t], existing[t])] = None]
        /\ exposed' = IF holder[op[t].name] = t THEN exposed
                      ELSE exposed \cup {Orphan(op[t], existing[t])}
     \/ UNCHANGED <<secrets, exposed>>
  /\ Goto(t, IF holder[op[t].name] = t THEN "leave" ELSE "done")
  /\ UNCHANGED <<doc, holder, chain, op, existing, loaded, prior, intended, saved, unrestored>>

-----------------------------------------------------------------------------
AsReviewed(t) == doc[op[t].name] = op[t].route

(* hosting_environment_push_apply: the saved push must still be the one    *)
(* that was reviewed; it is sent to the provider with the lock held.       *)
Compare(t) ==
  /\ pc[t] = "compare"
  /\ Goto(t, IF AsReviewed(t) THEN "execute" ELSE "rollback")
  /\ UNCHANGED <<doc, secrets, holder, chain, op, existing, loaded, prior, history>>

Execute(t) ==
  /\ pc[t] = "execute"
  /\ Goto(t, "leave")
  /\ UNCHANGED <<doc, secrets, holder, chain, op, existing, loaded, prior, history>>

-----------------------------------------------------------------------------
(* A process dies: its tasks end where they are, its lock files are        *)
(* recovered, its queue is gone with it.                                   *)
Crash(p) ==
  /\ Crashes
  /\ \E t \in Tasks : ProcOf[t] = p /\ pc[t] \notin {"idle", "done", "failed", "dead"}
  /\ pc' = [t \in Tasks |-> IF ProcOf[t] = p THEN "dead" ELSE pc[t]]
  /\ holder' = [k \in Keys |-> IF holder[k] # None /\ ProcOf[holder[k]] = p
                               THEN None ELSE holder[k]]
  /\ chain' = [chain EXCEPT ![p] = [k \in Keys |-> <<>>]]
  /\ unrestored' = unrestored \cup
       {OwnId(t) : t \in {u \in Tasks : ProcOf[u] = p /\ prior[u] # NoPrior}}
  /\ UNCHANGED <<doc, secrets, op, existing, loaded, prior, intended, saved, exposed>>

TaskStep(t) ==
  \/ \E o \in Ops : Submit(t, o)
  \/ Acquire(t) \/ LockTimeout(t) \/ EnterConfig(t)
  \/ Plan(t) \/ Snapshot(t) \/ Replace(t) \/ ReplaceFails(t) \/ Validate(t) \/ Rollback(t)
  \/ Load(t) \/ WriteDocument(t) \/ WriteFails(t) \/ Leave(t) \/ Forget(t)
  \/ Compare(t) \/ Execute(t)

Next == (\E t \in Tasks : TaskStep(t)) \/ (\E p \in Procs : Crash(p))

Spec == Init /\ [][Next]_storeVars

-----------------------------------------------------------------------------
TypeOK ==
  /\ doc \in [Names -> Value] /\ intended \in [Names -> Value]
  /\ secrets \in [Ids -> Secrets \cup {None}]
  /\ saved \in [Ids -> Secrets \cup {None}]
  /\ unrestored \subseteq Ids /\ exposed \subseteq Ids
  /\ holder \in [Keys -> Tasks \cup {None}]
  /\ DOMAIN chain = Procs /\ \A p \in Procs : DOMAIN chain[p] = Keys
  /\ pc \in [Tasks -> {"idle", "wait_name", "plan", "snapshot", "replace", "validate",
                       "enter_config", "wait_config", "load", "write", "rollback", "leave",
                       "forget", "compare", "execute", "done", "failed", "dead"}]
  /\ op \in [Tasks -> Ops \cup {NoOp}]
  /\ existing \in [Tasks -> Value]
  /\ loaded \in [Tasks -> [Names -> Value]]
  /\ prior \in [Tasks -> Priors]

(* No completed write is lost: config.json holds, under every name, what   *)
(* the last operation on that name wrote, although each operation writes   *)
(* the whole document from a copy it read before (mutate()).               *)
NothingLost == doc = intended

(* Nested locks never deadlock: there is no group of operations of which   *)
(* each waits for a lock file, or for its turn in its process's queue,     *)
(* behind members of the group only (runExclusive()).                      *)
Waiting(t) == pc[t] \in {"wait_name", "wait_config"}
Blockers(t) ==
  LET c == chain[ProcOf[t]][KeyOf(t)]
  IN {u \in Tasks : holder[KeyOf(t)] = u \/ (u # t /\ c # <<>> /\ Head(c) = u)}
NoDeadlock ==
  \A T \in SUBSET {t \in Tasks : Waiting(t)} :
    T # {} => \E t \in T : ~(Blockers(t) # {} /\ Blockers(t) \subseteq T)

(* A profile that refers to a stored secret finds one: an operation that   *)
(* replaces, rolls back or forgets a secret never takes away the one a     *)
(* saved profile refers to, even when its process dies midway.             *)
StoredSecretExists ==
  \A n \in ProfileNames : doc[n] # None /\ doc[n].ref # Env => secrets[doc[n].ref] # None

(* Only two things take a saved profile's secret away: the dashboard's     *)
(* forgetting after it gave up the profile's lock, and a replace() that    *)
(* threw although it had changed the record. Of every other reference, a   *)
(* profile finds its secret while others save, roll back, forget or die;   *)
(* and once nobody works on the profile it finds the one saved with it,    *)
(* unless a rollback failed or never ran (withCredentialTransaction() and  *)
(* forgetSecret(), credentials/store.ts, web/services/providers.ts).       *)
SecretsKept ==
  \A n \in ProfileNames :
    (doc[n] # None /\ doc[n].ref # Env /\ doc[n].ref \notin exposed) =>
      /\ secrets[doc[n].ref] # None
      /\ holder[n] = None /\ doc[n].ref \notin unrestored =>
           secrets[doc[n].ref] = saved[doc[n].ref]

(* An environment is only pushed as reviewed: while the push runs, the     *)
(* saved push is the one the plan was made from.                           *)
PushesAsReviewed ==
  \A t \in Tasks : pc[t] = "execute" => doc[op[t].name] = op[t].route

(* What was saved last under a name is what is there, and what a push was  *)
(* reviewed with stays there while it runs (config/profiles.ts).           *)
ProfilesKept == NothingLost /\ PushesAsReviewed

-----------------------------------------------------------------------------
(* The inductive invariant behind these.                                   *)

\* Where an operation holds the lock of its entry, and that of the document.
Inside == {"plan", "snapshot", "replace", "validate", "enter_config", "wait_config", "load",
           "write", "rollback", "leave", "compare", "execute"}
InDocument == {"load", "write"}
Started(t) == pc[t] \notin {"idle", "dead"}

(* An operation holds the locks of the place it is at, and no others.      *)
LocksHeld ==
  /\ \A t \in Tasks :
       /\ Started(t) => op[t] \in Ops
       /\ pc[t] \in Inside => holder[op[t].name] = t
       /\ pc[t] \in InDocument => holder[ConfigKey] = t
       /\ pc[t] = "forget" /\ op[t].kind \in {"cli_upsert", "cli_remove"} =>
            holder[op[t].name] = t
  /\ \A k \in Keys : \A t \in Tasks : holder[k] = t =>
       IF k = ConfigKey THEN pc[t] \in InDocument
       ELSE k = op[t].name /\ pc[t] \in Inside \cup {"forget"}

(* A queue holds the operations of its process that are at its lock, each  *)
(* once, and the one that has the lock file is its first.                  *)
AtLock(t, k) ==
  IF k = ConfigKey THEN pc[t] \in InDocument \cup {"wait_config"}
  ELSE /\ pc[t] \in Inside \cup {"wait_name"} \/ (pc[t] = "forget" /\ holder[k] = t)
       /\ k = op[t].name
TasksAt(p, k) == {t \in Tasks : ProcOf[t] = p /\ AtLock(t, k)}
OnceEach(q) == \A i, j \in 1..Len(q) : q[i] = q[j] => i = j
QueuesRight ==
  /\ \A p \in Procs, k \in Keys : chain[p][k] \in Seq(TasksAt(p, k)) /\ OnceEach(chain[p][k])
  /\ \A k \in Keys : holder[k] # None => First(holder[k], k)

(* Each kind of operation takes its own course, a snapshot is only held by *)
(* one that saves a secret, and profiles stay apart from saved pushes.     *)
Transacting == {"replace", "validate", "enter_config", "wait_config", "load", "write",
                "rollback"}
Saves == {"dash_upsert", "cli_upsert"}
CoursesRight ==
  /\ \A t \in Tasks :
       /\ pc[t] \in {"plan", "snapshot", "replace", "validate"} => op[t].kind \in Saves
       /\ pc[t] \in {"snapshot", "replace"} => op[t].cred = "secret"
       /\ pc[t] \in {"enter_config", "wait_config", "load", "write"} => op[t].kind # "push_apply"
       /\ pc[t] \in {"compare", "execute"} => op[t].kind = "push_apply"
       /\ pc[t] = "forget" => /\ op[t].kind \in ProfileKinds
                              /\ Orphan(op[t], existing[t]) # None
       /\ prior[t] # NoPrior => /\ pc[t] \in Transacting \cup {"dead"}
                                /\ op[t] \in Ops /\ op[t].kind \in Saves /\ op[t].cred = "secret"
       /\ pc[t] = "idle" => existing[t] = None
       /\ Started(t) /\ op[t].kind \in ProfileKinds => existing[t] \in Profiles \cup {None}
  /\ \A n \in ProfileNames : doc[n] \in Profiles \cup {None}

(* What mutate() is about to write is a change of what is there.           *)
LoadedIsCurrent == \A t \in Tasks : pc[t] = "write" => loaded[t] = doc

StoreInv ==
  /\ TypeOK /\ LocksHeld /\ QueuesRight /\ CoursesRight /\ LoadedIsCurrent
  /\ ProfilesKept

(* While a profile is saved, it is as it was when it was read; unless the  *)
(* secret was exposed, the snapshot is of the one the profile was saved    *)
(* with, and the new one is there from replace() until the end.            *)
Replaced == Transacting \ {"replace"}
SnapshotTrue(t) ==
  LET id == OwnId(t)
      mine == StoredId(doc[op[t].name])
  IN
  /\ pc[t] \in {"snapshot", "replace", "validate", "enter_config", "wait_config", "load", "write"}
       /\ op[t].kind \in Saves => existing[t] = doc[op[t].name]
  /\ pc[t] \in {"replace", "validate", "enter_config", "wait_config", "load", "write"}
       /\ op[t].kind \in Saves /\ op[t].cred = "secret" => prior[t] # NoPrior
  /\ pc[t] \in Transacting /\ id \notin exposed =>
       /\ pc[t] = "replace" /\ prior[t].state = "present" => prior[t].secret = secrets[id]
       /\ prior[t].state = "absent" => mine # id
       /\ prior[t].state = "present" /\ mine = id =>
            id \in unrestored \/ prior[t].secret = saved[id]
       /\ pc[t] \in Replaced /\ prior[t] # NoPrior => secrets[id] = op[t].secret
  /\ pc[t] = "forget" /\ holder[op[t].name] = t =>
       /\ StoredId(existing[t]) = None \/ StoredId(existing[t])[2] = op[t].name
       /\ doc[op[t].name] = IF Removes(op[t]) THEN None ELSE NewProfile(op[t], existing[t])

(* A stored secret is the one it was saved with, or the operation that has *)
(* the profile's lock knows how to put it back.                            *)
Restores(t, i) ==
  pc[t] \in Replaced /\ OwnId(t) = i /\ prior[t].state \in {"unknown", "present"}
SecretSaved(n) ==
  LET i == StoredId(doc[n]) IN
  i # None => /\ i[2] = n
              /\ i \notin exposed =>
                   /\ secrets[i] # None
                   /\ \/ i \in unrestored \/ secrets[i] = saved[i]
                      \/ holder[n] # None /\ Restores(holder[n], i)
SecretsInv == /\ \A t \in Tasks : SnapshotTrue(t)
              /\ \A n \in ProfileNames : SecretSaved(n)

=============================================================================
