---------------------------- MODULE ContainerSync ----------------------------
(***************************************************************************)
(* What a synchronisation of a server does to the table of containers      *)
(* (syncContainersForServers in src/server/routes/containers.ts): every    *)
(* container that docker ps -a listed is matched with a row that was read  *)
(* before, by id or else by name, the row is updated or a new one created, *)
(* and all other rows of the server are deleted in the same transaction.   *)
(*                                                                         *)
(* Containers and rows are numbered in the order of their creation.  The   *)
(* maps by id and by name keep the last row they are given, and rows are   *)
(* read oldest first, while docker ps lists the newest container first.    *)
(***************************************************************************)
EXTENDS Integers, FiniteSets

CONSTANTS Ids,    \* container ids, numbers
          RowIds, \* ids of rows, numbers
          Absent, \* no container with this id
          NoRow   \* no row with this id

Unmatched == 0

Latest(S) == CHOOSE r \in S : \A s \in S : s <= r
Oldest(S) == CHOOSE i \in S : \A j \in S : i <= j

Listed(list) == {i \in Ids : list[i] # Absent}

(* existingByDockerId.get(id) ?? existingByName.get(name)                  *)
Match(list, known, i) ==
  LET byId   == {r \in RowIds : known[r] # NoRow /\ known[r].dockerId = i}
      byName == {r \in RowIds : known[r] # NoRow /\ known[r].name = list[i].name}
  IN IF byId # {} THEN Latest(byId)
     ELSE IF byName # {} THEN Latest(byName) ELSE Unmatched

(* mapDockerStatus and mapDockerInspectStatus, for the states in which     *)
(* both see a container: "stopping" and "dead" are left out, and so is     *)
(* "paused", because nothing here pauses a container.                      *)
Status(state) == CASE state = "running"                         -> "RUNNING"
                   [] state = "restarting"                      -> "STARTING"
                   [] state \in {"exited", "created", "removing"} -> "STOPPED"
                   [] OTHER                                     -> "ERROR"

Payload(list, i) == [dockerId |-> i, name |-> list[i].name,
                     image |-> list[i].image, status |-> Status(list[i].state)]

New(list, known) == {i \in Listed(list) : Match(list, known, i) = Unmatched}

(* The id of the row created for container i.                              *)
NewRowId(list, known, lastRow, i) ==
  lastRow + Cardinality({j \in New(list, known) : j >= i})

(* An update of a row that was deleted since it was read aborts the        *)
(* transaction.                                                            *)
Applicable(list, known, rows) ==
  \A i \in Listed(list) : Match(list, known, i) # Unmatched
                            => rows[Match(list, known, i)] # NoRow

(* The containers whose payload is written to row r; the last one stays.   *)
WrittenTo(list, known, lastRow, r) ==
  {i \in Listed(list) : \/ Match(list, known, i) = r
                        \/ /\ i \in New(list, known)
                           /\ NewRowId(list, known, lastRow, i) = r}

(* Mutant of Synced: an empty list deletes nothing.                        *)
SyncedUnlessEmpty(list, known, lastRow) ==
  IF Listed(list) = {} THEN known
  ELSE [r \in RowIds |-> LET S == WrittenTo(list, known, lastRow, r)
                         IN IF S = {} THEN NoRow ELSE Payload(list, Oldest(S))]

(* The table after the transaction: what was written, and nothing else.    *)
Synced(list, known, lastRow) ==
  [r \in RowIds |-> LET S == WrittenTo(list, known, lastRow, r)
                    IN IF S = {} THEN NoRow ELSE Payload(list, Oldest(S))]

(* The row says what container i is.                                       *)
Says(row, docker, i) ==
  /\ row # NoRow /\ row.dockerId = i
  /\ row.name = docker[i].name /\ row.image = docker[i].image
  /\ row.status = "RUNNING" <=> docker[i].state = "running"

(* A row bears the id of one container and the name of another, of which i *)
(* is one: both may be written to it.                                      *)
Shared(known, docker, i) ==
  \E r \in RowIds, j \in Listed(docker) \ {i} :
    /\ known[r] # NoRow
    /\ \/ known[r].dockerId = i /\ known[r].name = docker[j].name
       \/ known[r].dockerId = j /\ known[r].name = docker[i].name

(* The table shows the host: a row for each container that no row shares   *)
(* with another, no two for one, and none that says what is not so.        *)
Shows(known, rows, docker) ==
  /\ \A i \in Listed(docker) : Shared(known, docker, i) \/ \E r \in RowIds : Says(rows[r], docker, i)
  /\ \A r \in RowIds : rows[r] # NoRow =>
       /\ \E i \in Listed(docker) : Says(rows[r], docker, i)
       /\ \A s \in RowIds \ {r} : rows[s] # NoRow => rows[s].dockerId # rows[r].dockerId
=============================================================================
