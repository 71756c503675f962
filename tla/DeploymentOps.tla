---------------------------- MODULE DeploymentOps ----------------------------
(***************************************************************************)
(* The requests that replace, record or remove the runtime of one          *)
(* application, as they run side by side in the one process of the         *)
(* backend: rollbacks (deployment-rollback.service.ts), Git rebuilds, the  *)
(* synchronisation of the server and the deletion of a container           *)
(* (routes/containers.ts), and rebuilds of an installed application        *)
(* (app-install-rebuild.service.ts).  An action is what happens between    *)
(* two awaits of a request.  They share the Docker host, the table of      *)
(* containers, the deployment history and the deployment lock, taken here  *)
(* as the lease that DeploymentLock implements.  RollbackRuntime has the   *)
(* finer steps and faults of a single rollback.                            *)
(***************************************************************************)
EXTENDS Integers, Sequences, FiniteSets

CONSTANTS
  Ops,          \* requests; each is also the name of its candidate container
                \* and of the image it deploys
  Kinds,        \* of Deploys, {"sync", "delete"} and the kinds of ContainerDeploys
  App, Prev,    \* the application's name; the image it runs at first
  Absent, NoRow, NoOp, None, Erased,
  MaxIds, MaxRows,      \* bounds on Docker containers and rows ever created
  MaxFaults, MaxCrashes, MaxLosses \* bounds on failures, crashes, lost locks

Ids == 1..MaxIds
RowIds == 1..MaxRows
Nothing == 0 \* no row id, no container id

Rollbacks == {"atomic", "recreate"}
Deploys == Rollbacks \cup {"git", "app"}
\* The requests of ContainerDeploys; "start" stands for restart as well.
NewDeploys == {"image", "source"}
Actions == {"start", "stop", "rm"}

Row == [name : {App} \cup Ops, image : {Prev} \cup Ops,
        status : {"RUNNING", "STOPPED", "ERROR", "STARTING"},
        dockerId : Ids \cup {Nothing}]
Container == [name : {App} \cup Ops, image : {Prev} \cup Ops,
              state : {"running", "restarting", "exited", "created"}]
Deployment == [row : RowIds, status : {"RUNNING", "SUCCESS", "FAILED"}]

ASSUME ConstantsAssumption ==
  /\ MaxIds \in Nat \ {0} /\ MaxRows \in Nat \ {0}
  /\ MaxFaults \in Nat /\ MaxCrashes \in Nat /\ MaxLosses \in Nat
  /\ Kinds \subseteq Deploys \cup NewDeploys \cup Actions \cup {"sync", "delete"}
  /\ Absent \notin Container /\ NoRow \notin Row /\ NoOp \notin Ops
  /\ None \notin Deployment /\ Erased \notin Deployment /\ None # Erased
  /\ App \notin Ops /\ ({App} \cup Ops) \cap (Ids \cup {Nothing}) = {} \* no name is an id

D == INSTANCE DockerHost
S == INSTANCE ContainerSync

VARIABLES
  docker,   \* docker[i]: the container with id i, or Absent
  lastId,   \* the id of the newest container
  rows,     \* rows[r]: the Container row with id r, or NoRow
  lastRow,  \* the id of the newest row
  sourced,  \* the rows with a deploymentSource (repository and build settings)
  lock,     \* lock[r]: the request that holds row r's lock, or NoOp
  history,  \* history[p]: the Deployment row of p; None before, Erased after
            \* its container's row was deleted
  op,       \* op[p]: where request p is, and what it remembers
  faults, crashes, losses

vars == <<docker, lastId, rows, lastRow, sourced, lock, history, op, faults,
          crashes, losses>>
host == <<docker, lastId, faults>>
table == <<rows, lastRow, sourced, lock, history>>
mishaps == <<crashes, losses>>

Steps == {"start", "check", "acquire", "create", "inspect", "resolve", "clear",
          "launch", "probe", "rename", "finalize", "list", "read", "apply",
          "match", "succeed", "cleanup", "verify", "relaunch", "reverify",
          "recordRow", "recordFailure", "release", "drop", "done", "crashed",
          "name", "insert", "record", "history", "fail", "act", "state", "note"}

Hosts == [Ids -> Container \cup {Absent}]
Tables == [RowIds -> Row \cup {NoRow}]

OpState ==
  [kind : Kinds, pc : Steps,
   on : {Nothing} \cup RowIds,     \* the row the request is about
   seen : Row \cup {NoRow},        \* that row as it was read
   prev : {Prev} \cup Ops,         \* image of previousRuntime
   cand : {Nothing} \cup Ids,      \* the container it launched
   back : {Nothing} \cup Ids,      \* the container the recovery launched
   touched : BOOLEAN,              \* previousRuntimeTouched
   mode : {"none", "unchanged", "recreated", "failed"}, \* recoveryMode
   lost : BOOLEAN,                 \* the heartbeat lost the lock
   unsaved : BOOLEAN,              \* its failure could not be written down
   list : Hosts \cup {None},       \* what docker ps answered to its sync
   known : Tables \cup {None}]     \* the rows its sync read

TypeOK ==
  /\ docker \in Hosts /\ lastId \in Ids
  /\ rows \in Tables /\ lastRow \in RowIds /\ sourced \subseteq RowIds
  /\ lock \in [RowIds -> Ops \cup {NoOp}]
  /\ history \in [Ops -> Deployment \cup {None, Erased}]
  /\ op \in [Ops -> OpState]
  /\ faults \in 0..MaxFaults /\ crashes \in 0..MaxCrashes /\ losses \in 0..MaxLosses

FreshOp(k) == [kind |-> k, pc |-> "start", on |-> Nothing, seen |-> NoRow,
               prev |-> Prev, cand |-> Nothing, back |-> Nothing,
               touched |-> FALSE, mode |-> "none", lost |-> FALSE, unsaved |-> FALSE,
               list |-> None, known |-> None]

(* The application runs, its row says so, and its earlier deployments can  *)
(* be rolled back to.  It comes from Git or from the app catalogue.        *)
Init ==
  /\ docker = [i \in Ids |-> IF i = 1
                 THEN [name |-> App, image |-> Prev, state |-> "running"]
                 ELSE Absent]
  /\ lastId = 1
  /\ rows = [r \in RowIds |-> IF r = 1
               THEN [name |-> App, image |-> Prev, status |-> "RUNNING",
                     dockerId |-> 1]
               ELSE NoRow]
  /\ lastRow = 1 /\ sourced = {1}
  /\ lock = [r \in RowIds |-> NoOp]
  /\ history = [p \in Ops |-> None]
  /\ \E kind \in [Ops -> Kinds] :
       /\ ~\E p, q \in Ops : kind[p] = "git" /\ kind[q] = "app"
       /\ op = [p \in Ops |-> FreshOp(kind[p])]
  /\ faults = 0 /\ crashes = 0 /\ losses = 0

-----------------------------------------------------------------------------
At(p, step, kinds) == op[p].pc = step /\ op[p].kind \in kinds

Goto(p, step) == op' = [op EXCEPT ![p].pc = step]

(* A Docker command with one of the given outcomes is run.                 *)
Docker(outcomes, answers) ==
  \E o \in outcomes : /\ o.answer \in answers
                      /\ faults + o.fault <= MaxFaults
                      /\ faults' = faults + o.fault
                      /\ docker' = o.docker

(* Where an error takes a request.                                         *)
OnError(p) == CASE op[p].kind \in Rollbacks -> "cleanup"
                [] op[p].kind = "git"       -> "recordFailure"
                [] op[p].kind = "app"       -> "recordRow"
                [] op[p].kind = "source" /\ op[p].cand # Nothing -> "fail"
                [] op[p].kind \in NewDeploys /\ op[p].pc = "launch" -> "fail"
                [] OTHER                    -> "done"

Recorded(p) == history[p] \notin {None, Erased}

(* The rows of R are deleted, and with them all that refers to them: lock, *)
(* history and source (onDelete: Cascade).                                 *)
Cascade(R) ==
  /\ lock' = [r \in RowIds |-> IF r \in R THEN NoOp ELSE lock[r]]
  /\ history' = [p \in Ops |-> IF Recorded(p) /\ history[p].row \in R
                               THEN Erased ELSE history[p]]

Named(name) == {r \in RowIds : rows[r] # NoRow /\ rows[r].name = name}

HasSuccess(r) == \/ r = 1
                 \/ \E q \in Ops : history[q] = [row |-> r, status |-> "SUCCESS"]

-----------------------------------------------------------------------------
(* The request reads its row: a rollback needs an earlier success on it, a *)
(* Git rebuild its source; an app rebuild looks for the row by name, and   *)
(* goes on without lock and history if there is none.                      *)
Start(p) ==
  /\ At(p, "start", Deploys \cup Actions \cup {"delete"})
  /\ \/ \E r \in RowIds :
          /\ rows[r] # NoRow
          /\ op[p].kind \in Rollbacks => HasSuccess(r)
          /\ op[p].kind = "git" => r \in sourced
          /\ op[p].kind = "app" => rows[r].name = App
          /\ op' = [op EXCEPT ![p].on = r, ![p].seen = rows[r],
                              ![p].pc = CASE op[p].kind \in Rollbacks -> "check"
                                          [] op[p].kind = "delete" -> "clear"
                                          [] op[p].kind \in Actions -> "act"
                                          [] OTHER -> "acquire"]
     \/ /\ op[p].kind = "app" /\ Named(App) = {}
        /\ Goto(p, "clear")
  /\ UNCHANGED <<host, table, mishaps>>

(* A rollback is refused while the history shows a running deployment.     *)
Check(p) ==
  /\ At(p, "check", Rollbacks)
  /\ LET busy == \E q \in Ops : history[q] = [row |-> op[p].on, status |-> "RUNNING"]
     IN Goto(p, IF busy THEN "done" ELSE "acquire")
  /\ UNCHANGED <<host, table, mishaps>>

(* Mutant of Acquire: the lock of another request is overwritten.          *)
AcquireHeld(p) ==
  /\ op[p].pc = "acquire"
  /\ rows[op[p].on] # NoRow
  /\ lock' = [lock EXCEPT ![op[p].on] = p]
  /\ Goto(p, "create")
  /\ UNCHANGED <<host, rows, lastRow, sourced, history, mishaps>>

(* The lock is taken, or the request ends: it is held, or the row is gone, *)
(* an error that an app rebuild records like any other.                    *)
Acquire(p) ==
  /\ op[p].pc = "acquire"
  /\ IF rows[op[p].on] = NoRow
     THEN /\ UNCHANGED lock
          /\ Goto(p, IF op[p].kind = "app" THEN "recordRow" ELSE "done")
     ELSE IF lock[op[p].on] # NoOp THEN UNCHANGED lock /\ Goto(p, "done")
     ELSE /\ lock' = [lock EXCEPT ![op[p].on] = p]
          /\ Goto(p, "create")
  /\ UNCHANGED <<host, rows, lastRow, sourced, history, mishaps>>

(* createDeployment with status RUNNING; it fails if the row is gone.      *)
Create(p) ==
  /\ op[p].pc = "create"
  /\ IF rows[op[p].on] # NoRow
     THEN /\ history' = [history EXCEPT ![p] = [row |-> op[p].on, status |-> "RUNNING"]]
          /\ Goto(p, IF op[p].kind \in Rollbacks THEN "inspect" ELSE "clear")
     ELSE /\ UNCHANGED history
          /\ Goto(p, IF op[p].kind \in Rollbacks THEN "release" ELSE OnError(p))
  /\ UNCHANGED <<host, rows, lastRow, sourced, lock, mishaps>>

(* The current container of a rollback: the id that was read, or the name. *)
CurrentRef(p) == IF op[p].seen.dockerId = Nothing THEN op[p].seen.name ELSE op[p].seen.dockerId

(* resolvePreviousRuntime: what docker inspect says of that container; if  *)
(* it fails, the row that was read.                                        *)
Inspect(p) ==
  /\ op[p].pc = "inspect"
  /\ LET found == D!Matches(docker, CurrentRef(p))
         Previous(image) == op' = [op EXCEPT ![p].pc = "resolve", ![p].prev = image]
     IN \/ /\ \E i \in found : Previous(docker[i].image)
           /\ UNCHANGED host
        \/ /\ Docker({D!Outcome("error", docker, IF found = {} THEN 0 ELSE 1)}, {"error"})
           /\ Previous(op[p].seen.image)
           /\ UNCHANGED lastId
  /\ UNCHANGED <<table, mishaps>>

(* The image of the target is resolved, or cannot be.                      *)
Resolve(p) ==
  /\ op[p].pc = "resolve"
  /\ \/ /\ Goto(p, IF op[p].kind = "atomic" THEN "launch" ELSE "clear")
        /\ UNCHANGED host
     \/ /\ Docker({D!Outcome("error", docker, 1)}, {"error"})
        /\ Goto(p, "recordRow")
        /\ UNCHANGED lastId
  /\ UNCHANGED <<table, mishaps>>

-----------------------------------------------------------------------------
(* The references of a sequence before which none finds a container, and   *)
(* that do: the first one, if there is one.                                *)
FirstFound(refs) ==
  {refs[k] : k \in {k \in DOMAIN refs : /\ D!Found(docker, refs[k])
                                       /\ \A j \in 1..(k - 1) : ~D!Found(docker, refs[j])}}

(* Stop and remove the first container found under one of refs; a failure  *)
(* may leave it stopped.                                                   *)
RemoveOutcomes(refs) ==
  IF FirstFound(refs) = {} THEN {D!Outcome("ok", docker, 0)}
  ELSE UNION {D!Attempt(docker, D!Removed(docker, ref))
                \cup {D!Outcome("error", D!Stopped(docker, ref), 1)} : ref \in FirstFound(refs)}

(* The current runtime is taken down: by the id that was read, or by name. *)
(* An app rebuild uses the name only, and ignores errors.                  *)
Clear(p) ==
  /\ At(p, "clear", Deploys)
  /\ LET refs == IF op[p].kind = "app" THEN <<App>>
                 ELSE <<op[p].seen.dockerId, op[p].seen.name>>
         next == IF op[p].kind = "atomic" THEN "rename" ELSE "launch"
     IN \E answer \in {"ok", "error"} :
          /\ Docker(RemoveOutcomes(refs), {answer})
          /\ op' = [op EXCEPT ![p].touched = TRUE,
                              ![p].pc = IF answer = "ok" \/ op[p].kind = "app"
                                        THEN next ELSE OnError(p)]
  /\ UNCHANGED <<lastId, table, mishaps>>

(* docker run, after the build in a Git rebuild.                           *)
Launch(p) ==
  /\ op[p].pc = "launch"
  /\ lastId < MaxIds
  /\ LET name == CASE op[p].kind = "atomic" -> p
                   [] op[p].kind \in NewDeploys \cup {"app"} -> App
                   [] OTHER                 -> op[p].seen.name
         next == CASE op[p].kind \in Rollbacks -> "probe"
                   [] op[p].kind \in {"git", "source"} -> "list"
                   [] op[p].kind = "app"       -> "finalize"
                   [] op[p].kind = "image"     -> "record"
         outcomes == D!RunOutcomes(docker, lastId + 1, name, p)
     IN \/ /\ Docker(outcomes, {"ok"})
           /\ op' = [op EXCEPT ![p].cand = lastId + 1, ![p].pc = next]
        \/ Docker(outcomes, {"error"}) /\ Goto(p, OnError(p))
  /\ lastId' = lastId + 1
  /\ UNCHANGED <<table, mishaps>>

Probe(p) ==
  /\ op[p].pc = "probe"
  /\ \E answer \in {"ok", "error"} :
       /\ Docker(D!HealthOutcomes(docker, op[p].cand), {answer})
       /\ Goto(p, IF answer = "error" THEN "cleanup"
                  ELSE IF op[p].kind = "atomic" THEN "clear" ELSE "finalize")
  /\ UNCHANGED <<lastId, table, mishaps>>

Rename(p) ==
  /\ op[p].pc = "rename"
  /\ \E answer \in {"ok", "error"} :
       /\ Docker(D!RenameOutcomes(docker, p, op[p].seen.name), {answer})
       /\ Goto(p, IF answer = "ok" THEN "finalize" ELSE "cleanup")
  /\ UNCHANGED <<lastId, table, mishaps>>

(* Mutant of FinalRows: the id of the new container is not written.        *)
FinalRowsOldId(p) ==
  LET Final(r) == [rows[r] EXCEPT !.image = p, !.status = "RUNNING"]
      R == IF op[p].kind = "app" THEN Named(App) ELSE {op[p].on}
  IN [r \in RowIds |-> IF r \in R THEN Final(r) ELSE rows[r]]

(* A rollback updates its row by id, an app rebuild all rows of its name.  *)
FinalRows(p) ==
  LET Final(r) == [rows[r] EXCEPT !.image = p, !.status = "RUNNING",
                                  !.dockerId = op[p].cand]
      R == IF op[p].kind = "app" THEN Named(App) ELSE {op[p].on}
  IN [r \in RowIds |-> IF r \in R THEN Final(r) ELSE rows[r]]

(* assertOwned, then the row.  The conflict assertOwned throws leaves an   *)
(* app rebuild with nothing recorded.                                      *)
Finalize(p) ==
  /\ op[p].pc = "finalize"
  /\ IF op[p].lost
     THEN /\ Goto(p, IF op[p].kind = "app" THEN "release" ELSE "cleanup")
          /\ UNCHANGED rows
     ELSE IF op[p].kind \in Rollbacks /\ rows[op[p].on] = NoRow
     THEN Goto(p, "cleanup") /\ UNCHANGED rows
     ELSE Goto(p, "succeed") /\ rows' = FinalRows(p)
  /\ UNCHANGED <<host, lastRow, sourced, lock, history, mishaps>>

(* updateDeployment SUCCESS; it fails if the history was erased.           *)
Succeed(p) ==
  /\ op[p].pc = "succeed"
  /\ IF history[p] = Erased
     THEN Goto(p, OnError(p)) /\ UNCHANGED history
     ELSE /\ history' = IF Recorded(p)
                        THEN [history EXCEPT ![p].status = "SUCCESS"] ELSE history
          /\ Goto(p, "release")
  /\ UNCHANGED <<host, rows, lastRow, sourced, lock, mishaps>>

-----------------------------------------------------------------------------
(* The recovery of a rollback *)

Recovered(p, mode) == op' = [op EXCEPT ![p].mode = mode, ![p].pc = "recordRow"]

Cleanup(p) ==
  /\ op[p].pc = "cleanup"
  /\ LET refs == IF op[p].touched THEN <<op[p].cand, p, op[p].seen.name>>
                 ELSE <<op[p].cand, p>>
     IN \/ /\ Docker(RemoveOutcomes(refs), {"ok"})
           /\ Goto(p, IF op[p].touched THEN "relaunch" ELSE "verify")
        \/ Docker(RemoveOutcomes(refs), {"error"}) /\ Recovered(p, "failed")
  /\ UNCHANGED <<lastId, table, mishaps>>

(* An untouched runtime is checked by the reference that was read.         *)
Verify(p) ==
  /\ op[p].pc = "verify"
  /\ \E answer \in {"ok", "error"} :
       /\ Docker(D!HealthOutcomes(docker, CurrentRef(p)), {answer})
       /\ Recovered(p, IF answer = "ok" THEN "unchanged" ELSE "failed")
  /\ UNCHANGED <<lastId, table, mishaps>>

Relaunch(p) ==
  /\ op[p].pc = "relaunch"
  /\ lastId < MaxIds
  /\ LET outcomes == D!RunOutcomes(docker, lastId + 1, op[p].seen.name, op[p].prev)
     IN \/ /\ Docker(outcomes, {"ok"})
           /\ op' = [op EXCEPT ![p].back = lastId + 1, ![p].pc = "reverify"]
        \/ Docker(outcomes, {"error"}) /\ Recovered(p, "failed")
  /\ lastId' = lastId + 1
  /\ UNCHANGED <<table, mishaps>>

Reverify(p) ==
  /\ op[p].pc = "reverify"
  /\ \E answer \in {"ok", "error"} :
       /\ Docker(D!HealthOutcomes(docker, op[p].back), {answer})
       /\ Recovered(p, IF answer = "ok" THEN "recreated" ELSE "failed")
  /\ UNCHANGED <<lastId, table, mishaps>>

(* Mutant of FailedRow: the recovery mode is written as the status.        *)
FailedRowOfMode(p) ==
  IF op[p].mode = "failed" THEN [rows[op[p].on] EXCEPT !.status = op[p].mode]
  ELSE [rows[op[p].on] EXCEPT !.status = "RUNNING", !.image = op[p].prev,
          !.dockerId = IF op[p].mode = "recreated" THEN op[p].back
                       ELSE op[p].seen.dockerId]

(* The row of a failed rollback.  Where the code writes the name as the id *)
(* of a runtime that never had one, the row here keeps none.               *)
FailedRow(p) ==
  IF op[p].mode = "failed" THEN [rows[op[p].on] EXCEPT !.status = "ERROR"]
  ELSE [rows[op[p].on] EXCEPT !.status = "RUNNING", !.image = op[p].prev,
          !.dockerId = IF op[p].mode = "recreated" THEN op[p].back
                       ELSE op[p].seen.dockerId]

(* The row of a failed rollback, or the rows of a failed app rebuild, are  *)
(* written; the lock is not looked at.  An update of a missing row throws. *)
RecordRow(p) ==
  /\ op[p].pc = "recordRow"
  /\ IF op[p].kind = "app"
     THEN /\ rows' = [r \in RowIds |-> IF r \in Named(App)
                                       THEN [rows[r] EXCEPT !.status = "ERROR"]
                                       ELSE rows[r]]
          /\ Goto(p, "recordFailure")
     ELSE IF rows[op[p].on] = NoRow THEN UNCHANGED rows /\ Goto(p, "release")
     ELSE /\ rows' = [rows EXCEPT ![op[p].on] = FailedRow(p)]
          /\ Goto(p, "recordFailure")
  /\ UNCHANGED <<host, lastRow, sourced, lock, history, mishaps>>

(* updateDeployment FAILED; an error is ignored (DatabaseFails).           *)
RecordFailure(p) ==
  /\ op[p].pc = "recordFailure"
  /\ history' = IF Recorded(p) THEN [history EXCEPT ![p].status = "FAILED"]
                ELSE history
  /\ Goto(p, "release")
  /\ UNCHANGED <<host, rows, lastRow, sourced, lock, mishaps>>

(* The finally block: the lock is released by its token, or that fails.    *)
Release(p) ==
  /\ op[p].pc = "release"
  /\ \/ /\ lock' = [r \in RowIds |-> IF lock[r] = p THEN NoOp ELSE lock[r]]
        /\ UNCHANGED faults
     \/ faults < MaxFaults /\ faults' = faults + 1 /\ UNCHANGED lock
  /\ Goto(p, "done")
  /\ UNCHANGED <<docker, lastId, rows, lastRow, sourced, history, mishaps>>

-----------------------------------------------------------------------------
(* syncContainersForServers: by itself, before a deployment and after some, *)
(* after an action, or inside a Git rebuild, which calls assertOwned       *)
(* before.  It takes no lock.  docker ps that exits with an error reads as *)
(* an empty list; one that cannot be run throws.                           *)
List(p) ==
  /\ op[p].pc = "list" \/ At(p, "start", NewDeploys \cup {"sync"})
  /\ IF op[p].lost THEN Goto(p, OnError(p)) /\ UNCHANGED host
     ELSE /\ \/ /\ op' = [op EXCEPT ![p].list = docker, ![p].pc = "read"]
                /\ UNCHANGED faults
             \/ /\ faults < MaxFaults /\ faults' = faults + 1
                /\ \/ op' = [op EXCEPT ![p].list = [i \in Ids |-> Absent],
                                        ![p].pc = "read"]
                   \/ Goto(p, OnError(p))
          /\ UNCHANGED <<docker, lastId>>
  /\ UNCHANGED <<table, mishaps>>

Read(p) ==
  /\ op[p].pc = "read"
  /\ op' = [op EXCEPT ![p].known = rows, ![p].pc = "apply"]
  /\ UNCHANGED <<host, table, mishaps>>

AfterSync(p) ==
  IF op[p].kind \in NewDeploys /\ op[p].cand = Nothing THEN "name"
  ELSE IF op[p].kind \in {"git", "source"} THEN "match" ELSE "done"

Apply(p) ==
  /\ op[p].pc = "apply"
  /\ LET list  == op[p].list
         known == op[p].known
         after == S!Synced(list, known, lastRow)
         done(step) == op' = [op EXCEPT ![p].list = None, ![p].known = None,
                                        ![p].pc = step]
     IN IF S!Applicable(list, known, rows)
        THEN /\ lastRow + Cardinality(S!New(list, known)) <= MaxRows
             /\ rows' = after
             /\ lastRow' = lastRow + Cardinality(S!New(list, known))
             /\ sourced' = {r \in sourced : after[r] # NoRow}
             /\ Cascade({r \in RowIds : after[r] = NoRow})
             /\ done(AfterSync(p))
        ELSE UNCHANGED table /\ done(OnError(p))
  /\ UNCHANGED <<host, mishaps>>

(* A Git rebuild, or a deployment from source, finds its container after   *)
(* the sync, stores the source of every match, and checks the lock again.  *)
MatchTarget(p) ==
  /\ op[p].pc = "match"
  /\ LET found == Named(IF op[p].kind = "source" THEN App ELSE op[p].seen.name) IN
       /\ sourced' = sourced \cup found
       /\ Goto(p, IF found = {} \/ op[p].lost THEN OnError(p)
                  ELSE IF op[p].kind = "git" THEN "succeed" ELSE "history")
  /\ UNCHANGED <<host, rows, lastRow, lock, history, mishaps>>

-----------------------------------------------------------------------------
(* DELETE /containers/:id: docker rm, which refuses a running container,   *)
(* with its error ignored; then the row.                                   *)
ClearDeleted(p) ==
  /\ At(p, "clear", {"delete"})
  /\ Docker(D!RmOutcomes(docker, op[p].seen.dockerId), {"ok", "gone", "error"})
  /\ Goto(p, "drop")
  /\ UNCHANGED <<lastId, table, mishaps>>

Drop(p) ==
  /\ op[p].pc = "drop"
  /\ rows' = [rows EXCEPT ![op[p].on] = NoRow]
  /\ sourced' = sourced \ {op[p].on}
  /\ Cascade({op[p].on})
  /\ Goto(p, "done")
  /\ UNCHANGED <<host, lastRow, mishaps>>

-----------------------------------------------------------------------------
Working(p) == op[p].pc \notin {"start", "done", "crashed"}

(* A renewal of the lock failed, or its row was deleted.                   *)
LoseLock(p) ==
  /\ Working(p) /\ ~op[p].lost
  /\ \/ /\ \E r \in RowIds : lock[r] = p
        /\ losses < MaxLosses /\ losses' = losses + 1
     \/ /\ history[p] = Erased /\ UNCHANGED losses
  /\ op' = [op EXCEPT ![p].lost = TRUE]
  /\ UNCHANGED <<host, table, crashes>>

(* Mutant of Expire: the lock of a dead process is not reclaimed.          *)
ExpireUnlessCrashed(r) ==
  /\ lock[r] # NoOp
  /\ op[lock[r]].lost \/ op[lock[r]].pc = "done"
  /\ lock' = [lock EXCEPT ![r] = NoOp]
  /\ UNCHANGED <<host, rows, lastRow, sourced, history, op, mishaps>>

(* The time to live of a lock that is not renewed any more is over.        *)
Expire(r) ==
  /\ lock[r] # NoOp
  /\ op[lock[r]].lost \/ ~Working(lock[r])
  /\ lock' = [lock EXCEPT ![r] = NoOp]
  /\ UNCHANGED <<host, rows, lastRow, sourced, history, op, mishaps>>

(* The process dies with all its requests; later requests run in a new one. *)
Dead == [p \in Ops |-> IF Working(p) THEN [op[p] EXCEPT !.pc = "crashed", !.list = None,
                                                       !.known = None]
                       ELSE op[p]]

Crash ==
  /\ crashes < MaxCrashes /\ crashes' = crashes + 1
  /\ \E p \in Ops : Working(p)
  /\ op' = Dead
  /\ UNCHANGED <<host, table, losses>>

(* Where request p is about to read or write the database.                 *)
Queries(p) ==
  \/ op[p].pc \in {"acquire", "create", "succeed", "recordRow", "recordFailure", "read", "apply",
                   "match", "drop", "name", "insert", "record", "history", "note"}
  \/ op[p].pc = "finalize" /\ ~op[p].lost
  \/ op[p].kind = "app" /\ op[p].pc \in {"start", "clear"}

(* Where the error of a query takes it.  In the code that handles a failure *)
(* an error is passed on, or ignored: the rest of the failure is unsaved.  *)
AfterQuery(p) ==
  CASE op[p].pc \in {"recordRow", "recordFailure"} -> "release"
    [] op[p].pc = "create" /\ op[p].kind \in Rollbacks -> "release"
    [] op[p].pc = "acquire" /\ op[p].kind # "app" -> "done"
    [] op[p].pc \in {"record", "history"} -> IF op[p].kind = "image" THEN "fail" ELSE "done"
    [] OTHER -> OnError(p)

(* A query fails, and nothing is written: the connection to the database,  *)
(* its pool, a transaction that takes too long.                            *)
DatabaseFails(p) ==
  /\ Queries(p)
  /\ faults < MaxFaults /\ faults' = faults + 1
  /\ op' = [op EXCEPT ![p].list = None, ![p].known = None,
                      ![p].unsaved = @ \/ op[p].pc \in {"recordRow", "recordFailure"},
                      ![p].pc = AfterQuery(p)]
  /\ UNCHANGED <<docker, lastId, table, mishaps>>

Step(p) == \/ Start(p) \/ Check(p) \/ Acquire(p) \/ Create(p) \/ Inspect(p)
           \/ Resolve(p) \/ Clear(p) \/ Launch(p) \/ Probe(p) \/ Rename(p)
           \/ Finalize(p) \/ Succeed(p) \/ Cleanup(p) \/ Verify(p)
           \/ Relaunch(p) \/ Reverify(p) \/ RecordRow(p) \/ RecordFailure(p)
           \/ Release(p) \/ List(p) \/ Read(p) \/ Apply(p) \/ MatchTarget(p)
           \/ ClearDeleted(p) \/ Drop(p)

Next == \/ \E p \in Ops : Step(p) \/ DatabaseFails(p) \/ LoseLock(p)
        \/ \E r \in RowIds : Expire(r)
        \/ Crash

Spec == Init /\ [][Next]_vars

(* Commands, queries and health checks have timeouts, so a request that    *)
(* works goes on; time passes, so an abandoned lock expires.               *)
FairSpec == /\ Spec
            /\ \A p \in Ops : WF_vars(Working(p) /\ Step(p))
            /\ \A r \in RowIds : WF_vars(Expire(r))

-----------------------------------------------------------------------------
(* A deployment that is recorded as SUCCESS is what is there: before the   *)
(* request gives its lock back, the application's name belongs to the      *)
(* container it launched, no candidate is left beside it, and the row of   *)
(* the application says so, whatever other requests crashed or failed on   *)
(* before.  A request that lost its lock still runs its Docker commands,   *)
(* and a sync or a deletion takes no lock: the run has none of the latter. *)
SuccessIsDeployed ==
  \A p \in Ops :
    op[p].pc = "release" /\ losses = 0 /\ Recorded(p) /\ history[p].status = "SUCCESS"
      => /\ \A i \in Ids : docker[i] # Absent /\ docker[i].name \in {App, p}
                            => i = op[p].cand
         /\ docker[op[p].cand] # Absent /\ docker[op[p].cand].name = App
         /\ docker[op[p].cand].image = p
         /\ \E r \in Named(App) : /\ rows[r].dockerId = op[p].cand
                                  /\ rows[r].image = p

(* The runtime of a successful deployment is only taken down by a request  *)
(* that holds the application's lock, or held it and was not told yet.     *)
DeployedKept ==
  [][\A p \in Ops :
       /\ Recorded(p) /\ history[p].status = "SUCCESS"
       /\ docker[op[p].cand] # Absent /\ docker'[op[p].cand] = Absent
       => \E q \in Ops \ {p} : lock[history[p].row] = q \/ op[q].lost]_vars

(* A sync whose snapshots of the host and of the table are both current    *)
(* leaves a table that shows the host, whatever state rollbacks, rebuilds, *)
(* deployments, actions, deletions, other syncs and crashes have left      *)
(* behind: one row for every container, candidates included, and no other. *)
(* It may miss a container only if a row has its name and another's id, or *)
(* the reverse: stale syncs and rollbacks can leave such a row.            *)
SyncShows ==
  [][\A p \in Ops :
       /\ op[p].pc = "apply" /\ op'[p].pc \notin {"apply", "crashed"}
       /\ op[p].list = docker /\ op[p].known = rows
       /\ faults' = faults \* the transaction commits
       => S!Shows(rows, rows', docker)]_vars

(* No request blocks those after it for good.  Its deployment does not     *)
(* stay RUNNING, which would refuse every later rollback of the container, *)
(* unless the process died in the middle, an app rebuild was told that its *)
(* lock is lost, or a write of the failure failed itself, which the code   *)
(* ignores; and no crash, failure or lost heartbeat leaves a container     *)
(* locked.                                                                 *)
NoneBlocked ==
  \A p \in Ops :
    /\ (Recorded(p) /\ history[p].status = "RUNNING")
         ~> \/ ~Recorded(p) \/ history[p].status # "RUNNING"
            \/ op[p].pc = "crashed"
            \/ op[p].kind = "app" /\ op[p].lost
            \/ op[p].unsaved
    /\ (\E r \in RowIds : lock[r] = p) ~> ~\E r \in RowIds : lock[r] = p

-----------------------------------------------------------------------------
(* What the program says elsewhere and does not do: the subject of a run   *)
(* that finds it violated.                                                 *)

(* "Another deployment operation is already running for this container":   *)
(* the second of two requests on one application is refused.               *)
OneAtATime ==
  \A p, q \in Ops :
    /\ op[p].pc \in {"clear", "launch", "probe", "rename"} /\ op[p].kind # "delete"
    /\ op[q].pc \in {"clear", "launch", "probe", "rename"} /\ op[q].kind # "delete"
    /\ ~op[p].lost /\ ~op[q].lost
    => p = q
=============================================================================
