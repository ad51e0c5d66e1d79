------------------------------ MODULE Restore ------------------------------
(* Backups restored and created from the dashboard:                        *)
(* src/src/web/services/restore.ts with the guarded request of             *)
(* src/src/hosting/backup-restore.ts and verified-action.ts.               *)
(*                                                                         *)
(* An id is one confirmation.  What runs between two awaits of the code is *)
(* one step; meanwhile the configuration of the hosting profile, the       *)
(* provider and other confirmations move on.  The reads of one             *)
(* targetClient() are taken together: a destination is the configuration   *)
(* and the address they give.                                              *)
EXTENDS Naturals, Sequences, FiniteSets, SequencesExt

CONSTANTS
  RestoreIds,          \* confirmations
  EnvOf,        \* the environment each one is about
  Destinations, \* configurations with the address of the environment
  PlanLimit,    \* open confirmations kept (100 in the code)
  RestoreLimit  \* jobs kept (100 in the code)

ASSUME RestoreAssumption == PlanLimit \in Nat \ {0} /\ RestoreLimit \in Nat \ {0}

VARIABLES
  destination, \* what the configuration and the provider say now
  planning,       \* planning of each confirmation
  reviewed,      \* the destination each confirmation shows
  expired,        \* confirmations past their expiresAt
  restoreJobs,        \* the jobs map, oldest first
  jobStatus,      \* the status of each job in it
  restoreRun,  \* how far the run of each confirmation is
  service,     \* the service: "up", "closing", "down"
  effect,      \* the request at the provider
  sends        \* history: how often each confirmation was sent

planVars == <<planning, reviewed, expired>>
runVars == <<restoreJobs, jobStatus, restoreRun>>
restoreVars == <<destination, planVars, runVars, service, effect, sends>>

RunUnderWay(i) == restoreRun[i] \in {"target", "prepare", "send", "poll"}
ActiveEnvs == {EnvOf[i] : i \in {j \in RestoreIds : RunUnderWay(j)}}
Pending == {i \in RestoreIds : planning[i] = "open"}

RestoreInit ==
  /\ destination \in Destinations
  /\ planning = [i \in RestoreIds |-> "none"]
  /\ reviewed = [i \in RestoreIds |-> destination]
  /\ expired = {}
  /\ restoreJobs = <<>>
  /\ jobStatus = [i \in RestoreIds |-> "none"]
  /\ restoreRun = [i \in RestoreIds |-> "none"]
  /\ service = "up"
  /\ effect = [i \in RestoreIds |-> "unsent"]
  /\ sends = [i \in RestoreIds |-> 0]

-----------------------------------------------------------------------------
(* plan() and planCreate() *)

Phase(i, p) == planning' = [planning EXCEPT ![i] = p]

(* Expired confirmations go; then targetClient() and, for a restore, the   *)
(* catalog of backups are awaited.                                         *)
PlanRestore(i) ==
  /\ service = "up" /\ planning[i] = "none"
  /\ planning' = [j \in RestoreIds |-> IF j = i THEN "asked"
                                       ELSE IF planning[j] = "open" /\ j \in expired THEN "gone"
                                       ELSE planning[j]]
  /\ reviewed' = [reviewed EXCEPT ![i] = destination]
  /\ UNCHANGED <<destination, expired, runVars, service, effect, sends>>

(* The provider may refuse, or not know the backup; the service may have   *)
(* closed and the confirmations filled up meanwhile.                       *)
PlanOpens(i) ==
  /\ planning[i] = "asked"
  /\ service = "up" /\ Cardinality(Pending) < PlanLimit
  /\ Phase(i, "open")
  /\ UNCHANGED <<destination, reviewed, expired, runVars, service, effect, sends>>
PlanFails(i) ==
  /\ planning[i] = "asked"
  /\ Phase(i, "gone")
  /\ UNCHANGED <<destination, reviewed, expired, runVars, service, effect, sends>>

ConfirmationExpires(i) ==
               /\ planning[i] = "open" /\ i \notin expired
               /\ expired' = expired \cup {i}
               /\ UNCHANGED <<destination, planning, reviewed, runVars, service, effect, sends>>

-----------------------------------------------------------------------------
(* start() *)

InJobs(i) == i \in Range(restoreJobs)

(* At the limit the oldest job that is not running makes room.             *)
Oldest == CHOOSE k \in DOMAIN restoreJobs :
  /\ jobStatus[restoreJobs[k]] # "running"
  /\ \A j \in 1..(k - 1) : jobStatus[restoreJobs[j]] = "running"
AllRunning == \A k \in DOMAIN restoreJobs : jobStatus[restoreJobs[k]] = "running"

JobsKept == IF Len(restoreJobs) >= RestoreLimit THEN RemoveAt(restoreJobs, Oldest) ELSE restoreJobs
RestoreRefused(i) == \/ i \in expired
                     \/ EnvOf[i] \in ActiveEnvs
                     \/ Len(restoreJobs) >= RestoreLimit /\ AllRunning

(* Mutant of UseUp: the confirmation stays.                                *)
UseUpNever(i) == planning' = planning

(* A start uses its confirmation up, whatever happens next.                *)
UseUp(i) == Phase(i, "gone")

(* A start of a job that is still in the list returns the job.             *)
StartRestore(i) ==
         /\ service = "up" /\ ~InJobs(i) /\ planning[i] = "open"
         /\ UseUp(i)
         /\ IF RestoreRefused(i)
            THEN UNCHANGED <<restoreJobs, jobStatus, restoreRun>>
            ELSE /\ restoreJobs' = Append(JobsKept, i)
                 /\ jobStatus' = [j \in RestoreIds |->
                      IF j = i THEN "running"
                      ELSE IF j \in Range(JobsKept) THEN jobStatus[j] ELSE "none"]
                 /\ restoreRun' = [restoreRun EXCEPT ![i] = "target"]
         /\ UNCHANGED <<destination, reviewed, expired, service, effect, sends>>

-----------------------------------------------------------------------------
(* The run of a job                                                        *)

Go(i, step) == restoreRun' = [restoreRun EXCEPT ![i] = step]
Settle(i, s) == jobStatus' = [jobStatus EXCEPT ![i] = IF InJobs(i) THEN s ELSE @]

(* targetClient() again: the destination must be the confirmed one.        *)
Unchanged(i) == destination = reviewed[i]
RunTarget(i) ==
  /\ restoreRun[i] = "target"
  /\ Unchanged(i) /\ service = "up"
  /\ Go(i, "prepare")
  /\ UNCHANGED <<destination, planVars, restoreJobs, jobStatus, service, effect, sends>>

(* prepareBackupRestore() reads capabilities and catalog once more.        *)
Prepare(i) ==
  /\ restoreRun[i] = "prepare"
  /\ Go(i, "send")
  /\ UNCHANGED <<destination, planVars, restoreJobs, jobStatus, service, effect, sends>>

(* sendGuardedAction(): the signal is read, then the request goes out.  It *)
(* answers with an operation to follow, or without one, or gets lost on    *)
(* either way.                                                             *)
SendRestore(i) ==
         /\ restoreRun[i] = "send"
         /\ service = "up"
         /\ sends' = [sends EXCEPT ![i] = @ + 1]
         /\ effect' = [effect EXCEPT ![i] = "running"]
         /\ \/ Go(i, "poll") /\ UNCHANGED jobStatus
            \/ Go(i, "ended") /\ Settle(i, "needs_verification")
         /\ UNCHANGED <<destination, planVars, restoreJobs, service>>

(* hasVerifiedCompletion(): only positive evidence of the very operation.  *)
Proven(i) == effect[i] = "done"
RestoreCompletes(i) ==
         /\ restoreRun[i] = "poll" /\ Proven(i)
         /\ Go(i, "ended") /\ Settle(i, "completed")
         /\ UNCHANGED <<destination, planVars, restoreJobs, service, effect, sends>>

(* Whatever else happens in a run (a refused or changed destination, a     *)
(* deadline, a failure, the signal) ends it as uncertain.                  *)
RunFails(i) ==
  /\ RunUnderWay(i)
  /\ Go(i, "ended") /\ Settle(i, "needs_verification")
  /\ UNCHANGED <<destination, planVars, restoreJobs, service, effect, sends>>

-----------------------------------------------------------------------------
(* shutdown(): abort, drop the confirmations, wait for the runs.           *)
CloseRestores ==
  /\ service = "up"
  /\ service' = "closing"
  /\ planning' = [i \in RestoreIds |-> IF planning[i] = "open" THEN "gone" ELSE planning[i]]
  /\ UNCHANGED <<destination, reviewed, expired, runVars, effect, sends>>
RestoresClosed ==
  /\ service = "closing" /\ \A i \in RestoreIds : ~RunUnderWay(i)
  /\ service' = "down"
  /\ UNCHANGED <<destination, planVars, runVars, effect, sends>>

(* Outside: the profile or the domain is edited, the provider ends what it *)
(* was asked.                                                              *)
EditDestination ==
             /\ \E d \in Destinations : destination' = d
             /\ UNCHANGED <<planVars, runVars, service, effect, sends>>
ProviderEnds(i) ==
  /\ effect[i] = "running"
  /\ \E e \in {"done", "failed"} : effect' = [effect EXCEPT ![i] = e]
  /\ UNCHANGED <<destination, planVars, runVars, service, sends>>

RestoreStep(i) ==
  \/ PlanRestore(i) \/ PlanOpens(i) \/ PlanFails(i) \/ ConfirmationExpires(i)
  \/ StartRestore(i) \/ RunTarget(i) \/ Prepare(i) \/ SendRestore(i)
  \/ RestoreCompletes(i) \/ RunFails(i) \/ ProviderEnds(i)
RestoreNext ==
  (\E i \in RestoreIds : RestoreStep(i)) \/ CloseRestores \/ RestoresClosed \/ EditDestination
RestoreSpec == RestoreInit /\ [][RestoreNext]_restoreVars

-----------------------------------------------------------------------------
RestoreTypeOK ==
  /\ destination \in Destinations
  /\ planning \in [RestoreIds -> {"none", "asked", "open", "gone"}]
  /\ reviewed \in [RestoreIds -> Destinations]
  /\ expired \subseteq RestoreIds
  /\ restoreJobs \in Seq(RestoreIds) /\ Len(restoreJobs) <= RestoreLimit
  /\ jobStatus \in [RestoreIds -> {"none", "running", "completed", "needs_verification"}]
  /\ restoreRun \in [RestoreIds -> {"none", "target", "prepare", "send", "poll", "ended"}]
  /\ service \in {"up", "closing", "down"}
  /\ effect \in [RestoreIds -> {"unsent", "running", "done", "failed"}]
  /\ sends \in [RestoreIds -> Nat]

(* One confirmation restores at most once, however often it is started,    *)
(* also after its job was dropped from the list to make room: start() has  *)
(* deleted the confirmation.                                               *)
RestoresOnce == \A i \in RestoreIds : sends[i] <= 1

(* The list never lies: a job shown as completed was completed by the      *)
(* provider, a run that goes on is in the list as running, also when the   *)
(* list is full, and no two of them are about the same environment.        *)
HonestRestores ==
  /\ \A i \in RestoreIds : /\ jobStatus[i] = "completed" => effect[i] = "done"
                           /\ RunUnderWay(i) => InJobs(i) /\ jobStatus[i] = "running"
  /\ \A i, j \in RestoreIds : i # j /\ RunUnderWay(i) /\ RunUnderWay(j) => EnvOf[i] # EnvOf[j]

(* What they rest on: a confirmation that was started is used up, and what *)
(* was sent was sent by a run that has gone past that point.               *)
StartedIsGone == \A i \in RestoreIds : restoreRun[i] # "none" => planning[i] = "gone"
SentByRun == \A i \in RestoreIds :
               sends[i] <= IF restoreRun[i] \in {"poll", "ended"} THEN 1 ELSE 0

(* A confirmation restores once at most, and the list says what became of  *)
(* it (web/services/restore.ts).                                           *)
RestoresAsConfirmed == RestoresOnce /\ HonestRestores

RestoreInv == RestoreTypeOK /\ StartedIsGone /\ SentByRun /\ HonestRestores
=============================================================================
