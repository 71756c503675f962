--------------------------- MODULE RollbackRuntime ---------------------------
(***************************************************************************)
(* One rollback of a container to an earlier deployment, from the creation *)
(* of its Deployment row to its last write                                 *)
(* (src/server/services/deployment-rollback.service.ts).  The active       *)
(* runtime is replaced on the Docker host, the new one is checked, the     *)
(* outcome is written, and any error on the way starts the recovery of the *)
(* previous runtime.  Every Docker command, health check and database      *)
(* write may fail, with or without effect; MaxFaults bounds how often.     *)
(***************************************************************************)
EXTENDS Integers, Sequences

CONSTANTS
  Absent, NoRef,          \* no container; an empty reference
  Old, Stale,             \* id of the previous runtime; an id Docker forgot
  New, Again,             \* ids of the rolled back and of the recreated runtime
  App, Temp,              \* the container's name; the candidate's name
  AppCut,                 \* the first 12 characters of the container's name
  Prev, Target,           \* the previous image; the image rolled back to
  MaxFaults, MaxDbFaults  \* bounds on the failing calls of one behaviour

Ids == {Old, New, Again}
Refs == Ids \cup {Stale, App, Temp, AppCut, NoRef}
Containers == [name : {App, Temp}, image : {Prev, Target},
               state : {"running", "restarting", "exited", "created"}]

ASSUME ConstantsAssumption ==
  /\ MaxFaults \in Nat /\ MaxDbFaults \in Nat
  /\ Old \notin {New, Again, Stale, App, Temp, NoRef}
  /\ New \notin {Again, Stale, App, Temp, NoRef}
  /\ Again \notin {Stale, App, Temp, NoRef}
  /\ Stale \notin {App, Temp, NoRef}
  /\ App \notin {Temp, NoRef} /\ Temp # NoRef
  /\ Absent \notin Containers

D == INSTANCE DockerHost

VARIABLES
  docker,     \* docker[i]: the container with id i, or Absent
  row,        \* the Container row: image, status and dockerId
  deployment, \* status of the Deployment row of this rollback
  strategy,   \* resolveDeploymentStrategy of the target's ports
  owned,      \* assertOwned does not throw
  was,        \* docker and row when the rollback started
  pc,
  stage,      \* which call of stopAndRemoveContainer is running
  todo,       \* its references that are still to be tried
  stopTried,  \* docker stop was sent for the first of them
  touched,    \* previousRuntimeTouched
  candidate,  \* candidateRef
  recovered,  \* recoveryDockerId
  mode,       \* recoveryMode, or "SUCCESS" / "NONE" without a RollbackRuntimeError
  faults,     \* failed Docker commands and health checks so far
  dbFaults    \* failed database writes so far

local == <<stage, todo, stopTried, touched, candidate, recovered, mode>>
given == <<strategy, owned, was>>
vars == <<docker, row, deployment, strategy, owned, was, pc, stage, todo,
          stopTried, touched, candidate, recovered, mode, faults, dbFaults>>

Row == [image : {Prev, Target}, status : {"RUNNING", "STARTING", "STOPPED", "ERROR"},
        dockerId : Refs]

TypeOK ==
  /\ docker \in [Ids -> Containers \cup {Absent}]
  /\ row \in Row
  /\ deployment \in {"RUNNING", "SUCCESS", "FAILED"}
  /\ strategy \in {"ATOMIC_RENAME", "RECREATE_WITH_RECOVERY"}
  /\ owned \in BOOLEAN
  /\ was \in [docker : [Ids -> Containers \cup {Absent}], row : Row]
  /\ pc \in {"prepare", "removing", "launch", "probe", "rename", "finalize",
             "succeed", "checkPrevious", "relaunch", "checkRecovered",
             "recordRow", "recordFailure", "done"}
  /\ stage \in {"none", "recreate", "atomic", "abandon", "recover"}
  /\ todo \in Seq(Refs)
  /\ stopTried \in BOOLEAN /\ touched \in BOOLEAN
  /\ candidate \in Refs /\ recovered \in Refs
  /\ mode \in {"OPEN", "SUCCESS", "NONE", "UNCHANGED", "RECREATED", "FAILED"}
  /\ faults \in 0..MaxFaults /\ dbFaults \in 0..MaxDbFaults

(* The row names the previous runtime by its id, by an id Docker does not  *)
(* know any more, or not at all; the runtime runs, is restarted again and  *)
(* again, has exited or is gone.                                           *)
Init ==
  /\ \E state \in {"running", "restarting", "exited", "gone"} :
       docker = [i \in Ids |->
                   IF i = Old /\ state # "gone"
                   THEN [name |-> App, image |-> Prev, state |-> state]
                   ELSE Absent]
  /\ row \in [image : {Prev}, status : {"RUNNING", "STARTING", "STOPPED"},
              dockerId : {Old, Stale, NoRef}]
  /\ strategy \in {"ATOMIC_RENAME", "RECREATE_WITH_RECOVERY"}
  /\ owned \in BOOLEAN
  /\ was = [docker |-> docker, row |-> row]
  /\ deployment = "RUNNING" /\ pc = "prepare" /\ stage = "none" /\ todo = <<>>
  /\ stopTried = FALSE /\ touched = FALSE
  /\ candidate = NoRef /\ recovered = NoRef /\ mode = "OPEN"
  /\ faults = 0 /\ dbFaults = 0

Atomic == strategy = "ATOMIC_RENAME"

(* The row as it was read before the lock was taken.                       *)
CurrentRefs == <<was.row.dockerId, App>>

(* The references that are not blank: an id, which comes first, may be,    *)
(* the names that follow are not.                                          *)
NonBlank(refs) == IF Head(refs) = NoRef THEN Tail(refs) ELSE refs

FirstRef(refs) == Head(NonBlank(refs))

(* A Docker command with one of the given outcomes is run.                 *)
Docker(outcomes, answer) ==
  \E o \in outcomes : /\ o.answer = answer
                      /\ faults + o.fault <= MaxFaults
                      /\ faults' = faults + o.fault
                      /\ docker' = o.docker

(* A database write that turns value old into new: it succeeds, or fails   *)
(* with or without effect.                                                 *)
Saved(v, new) == v = new /\ UNCHANGED dbFaults
SaveFails(v, old, new) == /\ v \in {old, new}
                          /\ dbFaults < MaxDbFaults
                          /\ dbFaults' = dbFaults + 1

(* stopAndRemoveContainer is called with refs, blank ones left out.        *)
Remove(s, refs) == /\ pc' = "removing" /\ stage' = s
                   /\ todo' = NonBlank(refs)
                   /\ stopTried' = FALSE

(* The catch block of replaceRuntimeForRollback starts.                    *)
Recover == IF touched THEN Remove("recover", <<candidate, Temp, App>>)
           ELSE Remove("abandon", <<candidate, Temp>>)

RecoveryFails == /\ mode' = "FAILED" /\ pc' = "recordRow"
                 /\ UNCHANGED <<stage, todo, stopTried>>

-----------------------------------------------------------------------------
(* The image cannot be resolved, or a run command is not valid: an error   *)
(* outside the try block of replaceRuntimeForRollback.                     *)
PrepareFails ==
  /\ pc = "prepare"
  /\ mode' = "NONE" /\ pc' = "recordRow"
  /\ UNCHANGED <<docker, row, deployment, given, stage, todo, stopTried,
                 touched, candidate, recovered, faults, dbFaults>>

Prepare ==
  /\ pc = "prepare"
  /\ \/ /\ Atomic
        /\ pc' = "launch"
        /\ UNCHANGED <<stage, todo, stopTried, touched>>
     \/ /\ ~Atomic
        /\ touched' = TRUE
        /\ Remove("recreate", CurrentRefs)
  /\ UNCHANGED <<docker, row, deployment, given, candidate, recovered, mode,
                 faults, dbFaults>>

(* docker stop of the first reference; an error is swallowed.              *)
TryStop ==
  /\ pc = "removing" /\ todo # <<>> /\ ~stopTried
  /\ \E answer \in {"ok", "gone", "error"} :
       Docker(D!StopOutcomes(docker, Head(todo)), answer)
  /\ stopTried' = TRUE
  /\ UNCHANGED <<row, deployment, given, pc, stage, todo, touched, candidate,
                 recovered, mode, dbFaults>>

(* stopAndRemoveContainer returns to the step that called it.              *)
Returned == /\ pc' = CASE stage = "recreate" -> "launch"
                       [] stage = "atomic"   -> "rename"
                       [] stage = "abandon"  -> "checkPrevious"
                       [] stage = "recover"  -> "relaunch"
            /\ UNCHANGED <<stage, todo, stopTried, mode>>

(* Mutant of TryRemove: "no such container" ends the loop as well.         *)
TryRemoveOnce ==
  /\ pc = "removing" /\ todo # <<>> /\ stopTried
  /\ LET outcomes == D!RmOutcomes(docker, Head(todo)) IN
       \/ Docker(outcomes, "ok") /\ Returned
       \/ Docker(outcomes, "gone") /\ Returned
       \/ /\ Docker(outcomes, "error")
          /\ IF stage \in {"recreate", "atomic"} THEN Recover /\ UNCHANGED mode
             ELSE RecoveryFails
  /\ UNCHANGED <<row, deployment, given, touched, candidate, recovered, dbFaults>>

(* docker rm of the first reference.  The first removal that succeeds ends *)
(* the loop; "no such container" goes on to the next reference.            *)
TryRemove ==
  /\ pc = "removing" /\ todo # <<>> /\ stopTried
  /\ LET outcomes == D!RmOutcomes(docker, Head(todo)) IN
       \/ Docker(outcomes, "ok") /\ Returned
       \/ /\ Docker(outcomes, "gone")
          /\ todo' = Tail(todo) /\ stopTried' = FALSE
          /\ UNCHANGED <<pc, stage, mode>>
       \/ /\ Docker(outcomes, "error")
          /\ IF stage \in {"recreate", "atomic"} THEN Recover /\ UNCHANGED mode
             ELSE RecoveryFails
  /\ UNCHANGED <<row, deployment, given, touched, candidate, recovered, dbFaults>>

NothingToRemove ==
  /\ pc = "removing" /\ todo = <<>>
  /\ Returned
  /\ UNCHANGED <<docker, row, deployment, given, touched, candidate, recovered,
                 faults, dbFaults>>

Launch ==
  /\ pc = "launch"
  /\ LET outcomes == D!RunOutcomes(docker, New, IF Atomic THEN Temp ELSE App, Target)
     IN \/ /\ Docker(outcomes, "ok")
           /\ candidate' = New /\ pc' = "probe"
           /\ UNCHANGED <<stage, todo, stopTried>>
        \/ Docker(outcomes, "error") /\ Recover /\ UNCHANGED candidate
  /\ UNCHANGED <<row, deployment, given, touched, recovered, mode, dbFaults>>

(* The candidate must be healthy before an atomic rollback touches the     *)
(* active runtime.                                                         *)
Probe ==
  /\ pc = "probe"
  /\ LET outcomes == D!HealthOutcomes(docker, candidate) IN
       \/ /\ Docker(outcomes, "ok")
          /\ IF Atomic THEN touched' = TRUE /\ Remove("atomic", CurrentRefs)
             ELSE pc' = "finalize" /\ UNCHANGED <<touched, stage, todo, stopTried>>
       \/ Docker(outcomes, "error") /\ Recover /\ UNCHANGED touched
  /\ UNCHANGED <<row, deployment, given, candidate, recovered, mode, dbFaults>>

(* Mutant of Rename: an error is swallowed.                                *)
RenameUnchecked ==
  /\ pc = "rename"
  /\ \E answer \in {"ok", "error"} :
       Docker(D!RenameOutcomes(docker, Temp, App), answer)
  /\ pc' = "finalize"
  /\ UNCHANGED <<row, deployment, given, stage, todo, stopTried, touched,
                 candidate, recovered, mode, dbFaults>>

Rename ==
  /\ pc = "rename"
  /\ LET outcomes == D!RenameOutcomes(docker, Temp, App) IN
       \/ /\ Docker(outcomes, "ok")
          /\ pc' = "finalize" /\ UNCHANGED <<stage, todo, stopTried>>
       \/ Docker(outcomes, "error") /\ Recover
  /\ UNCHANGED <<row, deployment, given, touched, candidate, recovered, mode,
                 dbFaults>>

-----------------------------------------------------------------------------
(* finalize: assertOwned, then the Container row, then the Deployment row. *)
NewRow == [image |-> Target, status |-> "RUNNING", dockerId |-> candidate]

Finalize ==
  /\ pc = "finalize"
  /\ \/ /\ owned
        /\ Saved(row', NewRow)
        /\ pc' = "succeed" /\ UNCHANGED <<stage, todo, stopTried>>
     \/ /\ owned
        /\ SaveFails(row', row, NewRow)
        /\ Recover
     \/ ~owned /\ Recover /\ UNCHANGED <<row, dbFaults>>
  /\ UNCHANGED <<docker, deployment, given, touched, candidate, recovered, mode,
                 faults>>

Succeed ==
  /\ pc = "succeed"
  /\ \/ /\ Saved(deployment', "SUCCESS")
        /\ mode' = "SUCCESS" /\ pc' = "done"
        /\ UNCHANGED <<stage, todo, stopTried>>
     \/ SaveFails(deployment', deployment, "SUCCESS") /\ Recover /\ UNCHANGED mode
  /\ UNCHANGED <<docker, row, given, touched, candidate, recovered, faults>>

-----------------------------------------------------------------------------
(* The recovery.  An untouched runtime is only checked, by the first       *)
(* reference that is not blank; a touched one is created again.            *)
CheckPrevious ==
  /\ pc = "checkPrevious"
  /\ LET outcomes == D!HealthOutcomes(docker, FirstRef(CurrentRefs)) IN
       \/ /\ Docker(outcomes, "ok")
          /\ mode' = "UNCHANGED" /\ recovered' = FirstRef(CurrentRefs)
          /\ pc' = "recordRow" /\ UNCHANGED <<stage, todo, stopTried>>
       \/ Docker(outcomes, "error") /\ RecoveryFails /\ UNCHANGED recovered
  /\ UNCHANGED <<row, deployment, given, touched, candidate, dbFaults>>

Relaunch ==
  /\ pc = "relaunch"
  /\ LET outcomes == D!RunOutcomes(docker, Again, App, Prev) IN
       \/ /\ Docker(outcomes, "ok")
          /\ pc' = "checkRecovered" /\ UNCHANGED <<mode, stage, todo, stopTried>>
       \/ Docker(outcomes, "error") /\ RecoveryFails
  /\ UNCHANGED <<row, deployment, given, touched, candidate, recovered, dbFaults>>

CheckRecovered ==
  /\ pc = "checkRecovered"
  /\ LET outcomes == D!HealthOutcomes(docker, Again) IN
       \/ /\ Docker(outcomes, "ok")
          /\ mode' = "RECREATED" /\ recovered' = Again
          /\ pc' = "recordRow" /\ UNCHANGED <<stage, todo, stopTried>>
       \/ Docker(outcomes, "error") /\ RecoveryFails /\ UNCHANGED recovered
  /\ UNCHANGED <<row, deployment, given, touched, candidate, dbFaults>>

(* The first 12 characters of a reference: Docker still finds a container  *)
(* by a shortened id, but not by a shortened name.                         *)
Shortened(ref) == IF ref = App THEN AppCut ELSE ref

(* Mutant of FailedRow: the id of the recreated runtime is forgotten.       *)
FailedRowOldId ==
  IF mode = "FAILED" THEN [row EXCEPT !.status = "ERROR"]
  ELSE [image |-> Prev, status |-> "RUNNING", dockerId |-> was.row.dockerId]

(* What the catch block of rollbackContainerToDeployment writes: RUNNING   *)
(* unless the recovery failed, with the id of the recovered runtime or the *)
(* one that was read at the start.                                         *)
FailedRow ==
  IF mode = "FAILED" THEN [row EXCEPT !.status = "ERROR"]
  ELSE [image |-> Prev, status |-> "RUNNING",
        dockerId |-> IF recovered # NoRef THEN Shortened(recovered)
                     ELSE was.row.dockerId]

(* The write of the row; its error leaves the function, and the Deployment *)
(* row stays as it is.                                                     *)
RecordRow ==
  /\ pc = "recordRow"
  /\ \/ Saved(row', FailedRow) /\ pc' = "recordFailure"
     \/ SaveFails(row', row, FailedRow) /\ pc' = "done"
  /\ UNCHANGED <<docker, deployment, given, local, faults>>

(* updateDeployment FAILED; its error is ignored.                          *)
RecordFailure ==
  /\ pc = "recordFailure"
  /\ \/ Saved(deployment', "FAILED")
     \/ SaveFails(deployment', deployment, "FAILED")
  /\ pc' = "done"
  /\ UNCHANGED <<docker, row, given, local, faults>>

Next == \/ PrepareFails \/ Prepare \/ TryStop \/ TryRemove \/ NothingToRemove
        \/ Launch \/ Probe \/ Rename \/ Finalize \/ Succeed
        \/ CheckPrevious \/ Relaunch \/ CheckRecovered
        \/ RecordRow \/ RecordFailure

Spec == Init /\ [][Next]_vars

-----------------------------------------------------------------------------
Healthy(id, name, image) ==
  docker[id] = [name |-> name, image |-> image, state |-> "running"]

OnlyContainer(id) == \A i \in Ids : docker[i] # Absent => i = id

(* An atomic rollback does not touch the previous runtime before its       *)
(* candidate was found healthy, whatever fails and is cleaned up.  When the *)
(* rollback reports an outcome the host agrees: after SUCCESS the only     *)
(* container is the target's, under the application's name; UNCHANGED      *)
(* leaves the host as it was, with the previous runtime running; after     *)
(* RECREATED the only container is a running one of the previous image.    *)
OutcomeTruth ==
  /\ ~touched => docker[Old] = was.docker[Old]
  /\ mode = "UNCHANGED" => docker = was.docker /\ Healthy(Old, App, Prev)
  /\ mode = "SUCCESS" => /\ docker[New].name = App /\ OnlyContainer(New)
                         /\ Healthy(New, App, Target)
  /\ mode = "RECREATED" => /\ Healthy(Again, App, Prev)
                           /\ OnlyContainer(Again)

(* The row finds its container.                                            *)
RowTrue ==
  IF mode = "FAILED" THEN row.status = "ERROR"
  ELSE /\ row.status = "RUNNING"
       /\ D!Running(docker, row.dockerId)
       /\ \A i \in D!Matches(docker, row.dockerId) : docker[i].image = row.image

(* The row is written, and is not written any more.                        *)
RowWritten == \/ pc = "recordFailure"
              \/ pc = "done" /\ (mode = "SUCCESS" \/ dbFaults = 0)

(* The last write of the row that succeeds, in a rollback that succeeds or *)
(* after a recovery, leaves a row that finds its container, whatever       *)
(* failed before: a write of the new row or of SUCCESS that failed, with   *)
(* or without effect, after which the runtime was replaced once more,      *)
(* included.  The status is RUNNING and the id is that of the running      *)
(* container with the row's image, unless the recovery failed, which is    *)
(* recorded as ERROR.  A row that had no id at the start is left out:      *)
(* after UNCHANGED it gets the first 12 characters of the name.  So is a   *)
(* rollback that ends before it touches anything.  And without failing     *)
(* writes the Deployment row does not stay RUNNING, which would refuse     *)
(* later rollbacks.                                                        *)
RecordsTruth ==
  /\ RowWritten /\ mode # "NONE" /\ was.row.dockerId # NoRef => RowTrue
  /\ pc = "done" /\ dbFaults = 0 => deployment # "RUNNING"

(* A rollback of an application with published ports takes the previous    *)
(* runtime down first.  One failing command, health check or write, or a   *)
(* lost lock, does not leave the application down.                         *)
OneFaultRecovers ==
  pc = "done" /\ ~Atomic /\ was.docker[Old] # Absent
    /\ (faults + dbFaults + IF owned THEN 0 ELSE 1) <= 1
    => mode # "FAILED"
=============================================================================
