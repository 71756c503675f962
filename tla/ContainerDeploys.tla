--------------------------- MODULE ContainerDeploys ---------------------------
(***************************************************************************)
(* Deployments of a new container and actions on an existing one           *)
(* (POST /containers and POST /containers/:id/action in                    *)
(* routes/containers.ts), beside the requests of DeploymentOps.  They take *)
(* no lock.  A deployment first syncs the server and refuses a name that a *)
(* row has, unless the row is in ERROR.  For an image it then creates the  *)
(* row, answers, and runs docker in the background; for a source it builds *)
(* and runs first, and finds its row by a second sync.  All ask for the    *)
(* name of the application here: it must have been deleted, or have failed. *)
(***************************************************************************)
EXTENDS DeploymentOps

(* A compose stack that publishes no port is not validated.                *)
Unvalidated(p) ==
  /\ At(p, "start", {"source"})
  /\ Goto(p, "launch")
  /\ UNCHANGED <<host, table, mishaps>>

(* assertRequestedContainerNameAvailable                                   *)
CheckName(p) ==
  /\ op[p].pc = "name"
  /\ Goto(p, IF \E r \in Named(App) : rows[r].status # "ERROR" THEN "done"
             ELSE IF op[p].kind = "image" THEN "insert" ELSE "launch")
  /\ UNCHANGED <<host, table, mishaps>>

(* The row, before there is a container; then docker run (Launch).         *)
Insert(p) ==
  LET r == lastRow + 1
      row == [name |-> App, image |-> p, status |-> "STARTING", dockerId |-> Nothing]
  IN
  /\ op[p].pc = "insert" /\ lastRow < MaxRows
  /\ rows' = [rows EXCEPT ![r] = row] /\ lastRow' = r
  /\ op' = [op EXCEPT ![p].pc = "launch", ![p].on = r, ![p].seen = row]
  /\ UNCHANGED <<host, sourced, lock, history, mishaps>>

(* The id and the status of the container that was started.  An update     *)
(* fails if a sync has deleted the row meanwhile.                          *)
Record(p) ==
  /\ op[p].pc = "record"
  /\ IF rows[op[p].on] # NoRow
     THEN /\ rows' = [rows EXCEPT ![op[p].on].status = "RUNNING",
                                  ![op[p].on].dockerId = op[p].cand]
          /\ Goto(p, "history")
     ELSE UNCHANGED rows /\ Goto(p, "fail")
  /\ UNCHANGED <<host, lastRow, sourced, lock, history, mishaps>>

(* recordDeployment SUCCESS; when that fails an image has failed, and for a *)
(* source it is only logged.                                               *)
RecordHistory(p) ==
  LET R == IF op[p].kind = "image" THEN {op[p].on} ELSE Named(App)
      kept == {r \in R : rows[r] # NoRow}
  IN
  /\ op[p].pc = "history"
  /\ \/ /\ \E r \in kept : history' = [history EXCEPT ![p] = [row |-> r, status |-> "SUCCESS"]]
        /\ Goto(p, "done")
     \/ /\ kept = {} /\ UNCHANGED history
        /\ Goto(p, IF op[p].kind = "image" THEN "fail" ELSE "done")
  /\ UNCHANGED <<host, rows, lastRow, sourced, lock, mishaps>>

(* Mutant of FailedDeploy: the row of a failed deployment keeps its status. *)
FailedDeployLeft(p) == rows

FailedDeploy(p) == IF op[p].kind = "image" THEN [rows EXCEPT ![op[p].on].status = "ERROR"] ELSE rows

(* The row is set to ERROR and the failure recorded with it; a source looks *)
(* for a row by name.  An error of the record is ignored.  When the row of *)
(* an image is gone, or the database fails, the handler itself throws:     *)
(* inside a job the request fails, but nothing catches the error of a      *)
(* background deployment, which ends the process.                          *)
Fail(p) ==
  LET R == IF op[p].kind = "image" THEN {op[p].on} ELSE Named(App)
      kept == {r \in R : rows[r] # NoRow}
      fails == faults < MaxFaults /\ faults' = faults + 1
  IN
  /\ op[p].pc = "fail"
  /\ \/ /\ kept # {} /\ rows' = FailedDeploy(p) /\ Goto(p, "done")
        /\ \/ /\ \E r \in kept : history' = [history EXCEPT ![p] = [row |-> r, status |-> "FAILED"]]
              /\ UNCHANGED faults
           \/ fails /\ UNCHANGED history
     \/ /\ (kept = {} /\ UNCHANGED faults) \/ fails
        /\ UNCHANGED <<rows, history>>
        /\ \/ op' = [op EXCEPT ![p].pc = "done", ![p].unsaved = TRUE]
           \/ op[p].kind = "image" /\ op' = Dead
  /\ UNCHANGED <<docker, lastId, lastRow, sourced, lock, mishaps>>

-----------------------------------------------------------------------------
(* The reference of the container that an action was run on: its id, or    *)
(* its name if there is none with that id.                                 *)
RefUsed(p) == IF op[p].back # Nothing THEN op[p].back ELSE op[p].seen.name

ActionOutcomes(kind, ref) ==
  CASE kind = "start" -> D!StartOutcomes(docker, ref)
    [] kind = "stop"  -> D!StopOutcomes(docker, ref)
    [] kind = "rm"    -> D!RmOutcomes(docker, ref)

Act(p) ==
  LET id == op[p].seen.dockerId
      found == FirstFound(<<id, op[p].seen.name>>)
  IN
  /\ op[p].pc = "act"
  /\ \/ found = {} /\ Goto(p, "done") /\ UNCHANGED <<docker, faults>>
     \/ \E ref \in found, answer \in {"ok", "error"} :
          /\ Docker(ActionOutcomes(op[p].kind, ref), {answer})
          /\ op' = [op EXCEPT ![p].back = IF ref = id THEN id ELSE Nothing,
                              ![p].pc = IF answer = "error" THEN "done"
                                        ELSE IF op[p].kind = "rm" THEN "drop" ELSE "state"]
  /\ UNCHANGED <<lastId, table, mishaps>>

(* docker inspect; a state that cannot be read is an error of the row.     *)
InspectState(p) ==
  /\ op[p].pc = "state"
  /\ \/ /\ \E i \in D!Matches(docker, RefUsed(p)) :
             op' = [op EXCEPT ![p].pc = "note", ![p].seen.dockerId = i,
                              ![p].seen.status = S!Status(docker[i].state)]
        /\ UNCHANGED faults
     \/ /\ op' = [op EXCEPT ![p].pc = "note", ![p].seen.status = "ERROR"]
        /\ IF D!Found(docker, RefUsed(p)) THEN faults < MaxFaults /\ faults' = faults + 1
           ELSE UNCHANGED faults
  /\ UNCHANGED <<docker, lastId, table, mishaps>>

(* What was read is written to the row, if it is there still; after a start *)
(* the server is synced.                                                   *)
Note(p) ==
  /\ op[p].pc = "note"
  /\ IF rows[op[p].on] # NoRow
     THEN /\ rows' = [rows EXCEPT ![op[p].on].status = op[p].seen.status,
                                  ![op[p].on].dockerId = op[p].seen.dockerId]
          /\ Goto(p, IF op[p].kind = "start" THEN "list" ELSE "done")
     ELSE UNCHANGED rows /\ Goto(p, "done")
  /\ UNCHANGED <<host, lastRow, sourced, lock, history, mishaps>>

DeployStep(p) ==
  \/ Unvalidated(p) \/ CheckName(p) \/ Insert(p) \/ Record(p) \/ RecordHistory(p) \/ Fail(p)
  \/ Act(p) \/ InspectState(p) \/ Note(p)

AllNext == Next \/ \E p \in Ops : DeployStep(p)

AllSpec == Init /\ [][AllNext]_vars

-----------------------------------------------------------------------------
(* A row without a container says STARTING only while docker run is under  *)
(* way for it, the process died under it, or its failure could not be      *)
(* written: no other failure of a deployment, and no sync, action or       *)
(* rebuild beside it, leaves a row that waits for a container nobody       *)
(* starts.  A container that Docker restarts is STARTING too, by its id.   *)
StartingIsUnderWay ==
  \A r \in RowIds : rows[r] # NoRow /\ rows[r].status = "STARTING" /\ rows[r].dockerId = Nothing =>
    \E p \in Ops : /\ op[p].kind = "image" /\ op[p].on = r
                   /\ op[p].pc \in {"launch", "record", "fail", "crashed"} \/ op[p].unsaved
=============================================================================
