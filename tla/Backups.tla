-------------------------------- MODULE Backups --------------------------------
(***************************************************************************)
(* Backups of a server (routes/backups.ts), kept on the server itself or   *)
(* in an S3 bucket, and the retention of the buckets (services/            *)
(* s3-storage-retention.service.ts).                                       *)
(*                                                                         *)
(* A request creates the row and answers; a background task then writes    *)
(* the file, uploads it if there is a destination, and completes the row.  *)
(* Restores, deletions and passes of the retention run beside it.  Nothing *)
(* takes a lock, and a file is named by the name of the backup and the     *)
(* second it was asked for, so two backups may share one.  So may two      *)
(* destinations share a bucket with its prefix: nothing keeps their users  *)
(* from it.  Any command, call of S3 or write of the database may fail.    *)
(***************************************************************************)
EXTENDS Integers, FiniteSets

CONSTANTS
  BackupIds, Files, Destinations, Restores, None,
  Buckets,
  Place,       \* Place[d]: the bucket, with its prefix, of destination d
  Requests,    \* what the requests may ask for
  MaxCounts    \* the settings of maxBackupCount; 0 stands for none

\* full: the backup is of type FULL, not DATABASE or VOLUME.
Request == [file : Files, dest : Destinations \cup {None}, full : BOOLEAN]
\* Data of backup "of": still being written or mixed up, cut off by a tar that
\* failed, or whole.
States == {"open", "cut", "whole"}
Data == [of : BackupIds, state : States]
Object == [of : BackupIds, state : States, stamp : Nat]

ASSUME ConstantsAssumption ==
  /\ MaxCounts \subseteq Nat /\ MaxCounts # {}
  /\ IsFiniteSet(Files)
  /\ Place \in [Destinations -> Buckets] /\ Requests \subseteq Request
  /\ None \notin BackupIds \cup Files \cup Destinations \cup Restores \cup Request \cup Object

VARIABLES
  asked,     \* asked[b]: what the request asked for, None before it came
  row,       \* row[b]: the row of the backup, None if there is none
  task,      \* task[b]: the background task
  deleting,  \* backups whose file was removed and whose row will be
  disk,      \* disk[f]: backup file on the server
  bucket,    \* bucket[k][f]: object in bucket k
  clock,     \* stamp of the latest object
  pass,      \* the pass of the retention
  restore,   \* the restores; of: the backup whose data was put back
  lost       \* backups whose data was removed and whose row will not say so
vars == <<asked, row, task, deleting, disk, bucket, clock, pass, restore, lost>>

Row == [status : {"RUNNING", "COMPLETED", "FAILED"}, key : BOOLEAN]
Steps == {"none", "created", "writing", "read", "put", "head", "complete", "notify", "error",
          "done", "dead"}
RestoreSteps == {"none", "run", "remove"}

TypeOK ==
  /\ asked \in [BackupIds -> Request \cup {None}]
  /\ row \in [BackupIds -> Row \cup {None}]
  /\ task \in [BackupIds -> [pc : Steps, body : Data \cup {None}]]
  /\ deleting \subseteq BackupIds
  /\ disk \in [Files -> Data \cup {None}]
  /\ bucket \in [Buckets -> [Files -> Object \cup {None}]]
  /\ clock \in Nat
  /\ pass \in [pc : {"idle", "delete", "update"}, dest : Destinations \cup {None},
               max : MaxCounts, cutoff : Nat, keys : SUBSET Files]
  /\ restore \in [Restores -> [pc : RestoreSteps, backup : BackupIds \cup {None},
                               key : BOOLEAN, of : BackupIds \cup {None}]]
  /\ lost \subseteq BackupIds

IdlePass == [pc |-> "idle", dest |-> None, cutoff |-> 0, keys |-> {},
             max |-> CHOOSE n \in MaxCounts : TRUE]

NoRestore == [pc |-> "none", backup |-> None, key |-> FALSE, of |-> None]

Init ==
  /\ asked = [b \in BackupIds |-> None] /\ row = [b \in BackupIds |-> None]
  /\ task = [b \in BackupIds |-> [pc |-> "none", body |-> None]]
  /\ deleting = {}
  /\ disk = [f \in Files |-> None]
  /\ bucket = [k \in Buckets |-> [f \in Files |-> None]] /\ clock = 0
  /\ pass = IdlePass
  /\ restore = [r \in Restores |-> NoRestore]
  /\ lost = {}

-----------------------------------------------------------------------------
At(b, step) == task[b].pc = step
Goto(b, step) == task' = [task EXCEPT ![b] = [pc |-> step, body |-> None]]
FileOf(b) == asked[b].file
DestOf(b) == asked[b].dest
BucketOf(b) == Place[DestOf(b)]

\* Rows whose key names one of these objects of the pass's bucket; those that
\* the pass will clear are of its own destination.
Naming(keys) == {b \in BackupIds : row[b] # None /\ row[b].key /\ FileOf(b) \in keys /\
                                   BucketOf(b) = Place[pass.dest]}
RowsOf(keys) == {b \in Naming(keys) : DestOf(b) = pass.dest}

\* Rows of which a pass has deleted the objects and that it has yet to clear
Interrupted == IF pass.pc = "update" THEN RowsOf(pass.keys) ELSE {}

\* The process dies, with all that it had under way, and starts again; nothing
\* looks at the rows that are RUNNING.
Died ==
  /\ task' = [b \in BackupIds |-> IF task[b].pc \in {"none", "done"} THEN task[b]
                                  ELSE [pc |-> "dead", body |-> None]]
  /\ deleting' = {} /\ pass' = IdlePass
  /\ restore' = [r \in Restores |-> NoRestore]
  /\ lost' = lost \cup Interrupted \cup deleting

Crash ==
  /\ Died
  /\ UNCHANGED <<asked, row, disk, bucket, clock>>

-----------------------------------------------------------------------------
\* POST /backups creates the row, ...
Create(b) ==
  /\ asked[b] = None
  /\ \E request \in Requests : asked' = [asked EXCEPT ![b] = request]
  /\ row' = [row EXCEPT ![b] = [status |-> "RUNNING", key |-> FALSE]]
  /\ Goto(b, "created")
  /\ UNCHANGED <<deleting, disk, bucket, clock, pass, restore, lost>>

\* ... and dispatches the notification; when that throws, the request fails and
\* there will be no task.
NotStarted(b) ==
  /\ At(b, "created") /\ Goto(b, "dead")
  /\ UNCHANGED <<asked, row, deleting, disk, bucket, clock, pass, restore, lost>>

\* The task: mkdir, and the first byte of the archive
BeginWrite(b) ==
  /\ At(b, "created")
  /\ \/ /\ Goto(b, "writing")
        /\ disk' = [disk EXCEPT ![FileOf(b)] = [of |-> b, state |-> "open"]]
     \/ Goto(b, "error") /\ UNCHANGED disk
  /\ UNCHANGED <<asked, row, deleting, bucket, clock, pass, restore, lost>>

\* What a command that ends leaves: a FULL backup ignores the errors of tar.
Ends(b) == IF asked[b].full THEN {"whole", "cut"} ELSE {"whole"}

\* The archive is ended, unless the file was removed or another backup wrote
\* to it meanwhile.
EndWrite(b) ==
  /\ At(b, "writing")
  /\ \/ /\ Goto(b, "read")
        /\ IF disk[FileOf(b)] = [of |-> b, state |-> "open"]
           THEN \E end \in Ends(b) : disk' = [disk EXCEPT ![FileOf(b)].state = end]
           ELSE UNCHANGED disk
     \/ Goto(b, "error") /\ UNCHANGED disk
  /\ UNCHANGED <<asked, row, deleting, bucket, clock, pass, restore, lost>>

\* test -s (a file smaller than 0.005 MB counts as empty), and uploadBackupToS3
\* reads the file, ...
Read(b) ==
  /\ At(b, "read")
  /\ \/ /\ disk[FileOf(b)] # None
        /\ IF DestOf(b) = None THEN Goto(b, "complete")
           ELSE task' = [task EXCEPT ![b] = [pc |-> "put", body |-> disk[FileOf(b)]]]
     \/ Goto(b, "error")
  /\ UNCHANGED <<asked, row, deleting, disk, bucket, clock, pass, restore, lost>>

\* ... put (an error may come although the object is there), ...
Put(b) ==
  LET object == [of |-> task[b].body.of, state |-> task[b].body.state, stamp |-> clock + 1] IN
  /\ At(b, "put")
  /\ \/ /\ bucket' = [bucket EXCEPT ![BucketOf(b)][FileOf(b)] = object] /\ clock' = clock + 1
        /\ \E step \in {"head", "error"} : Goto(b, step)
     \/ Goto(b, "error") /\ UNCHANGED <<bucket, clock>>
  /\ UNCHANGED <<asked, row, deleting, disk, pass, restore, lost>>

\* ... and compares the size, which other data need not differ in; then
\* removeRemoteBackupFile, whose errors are ignored.
Head(b) ==
  /\ At(b, "head")
  /\ \/ /\ bucket[BucketOf(b)][FileOf(b)] # None /\ Goto(b, "complete")
        /\ disk' \in {disk, [disk EXCEPT ![FileOf(b)] = None]}
     \/ Goto(b, "error") /\ UNCHANGED disk
  /\ UNCHANGED <<asked, row, deleting, bucket, clock, pass, restore, lost>>

\* Mutant of Completed: the key is that of the destination.
CompletedIn(b) == [row EXCEPT ![b] = [status |-> "COMPLETED", key |-> DestOf(b)]]

Completed(b) == [row EXCEPT ![b] = [status |-> "COMPLETED", key |-> DestOf(b) # None]]

\* A pass that deleted the object before its key was in the row never clears it.
Complete(b) ==
  /\ At(b, "complete")
  /\ \/ /\ row[b] # None /\ Goto(b, "notify")
        /\ row' = Completed(b)
        /\ lost' = IF DestOf(b) # None /\ bucket[BucketOf(b)][FileOf(b)] = None /\
                        ~(pass.pc = "update" /\ pass.dest = DestOf(b) /\ FileOf(b) \in pass.keys)
                     THEN lost \cup {b} ELSE lost
     \/ Goto(b, "error") /\ UNCHANGED <<row, lost>>
  /\ UNCHANGED <<asked, deleting, disk, bucket, clock, pass, restore>>

\* The notification of a completed backup throws inside the try as well.
Notify(b) ==
  /\ At(b, "notify") /\ \E step \in {"done", "error"} : Goto(b, step)
  /\ UNCHANGED <<asked, row, deleting, disk, bucket, clock, pass, restore, lost>>

\* Mutant of FailedRow: the row of a backup that failed is left alone.
RowLeft(b) == row

FailedRow(b) == [row EXCEPT ![b].status = "FAILED"]

\* The error path.  Nothing catches its own errors: a row that was deleted, or
\* a database that does not answer, ends the process.
Fail(b) ==
  /\ At(b, "error")
  /\ \/ /\ row[b] # None /\ row' = FailedRow(b) /\ Goto(b, "done")
        /\ UNCHANGED <<deleting, pass, restore, lost>>
     \/ UNCHANGED row /\ Died
  /\ UNCHANGED <<asked, disk, bucket, clock>>

\* DELETE /backups/:id removes the file, as far as it can, and then the row; the
\* object stays.
Delete(b) ==
  /\ row[b] # None /\ b \notin deleting
  /\ deleting' = deleting \cup {b}
  /\ disk' \in {disk, [disk EXCEPT ![FileOf(b)] = None]}
  /\ UNCHANGED <<asked, row, task, bucket, clock, pass, restore, lost>>

DeleteRow(b) ==
  /\ b \in deleting /\ deleting' = deleting \ {b}
  /\ \/ row' = [row EXCEPT ![b] = None] /\ lost' = lost \ {b}
     \/ lost' = lost \cup {b} /\ UNCHANGED row
  /\ UNCHANGED <<asked, task, disk, bucket, clock, pass, restore>>

-----------------------------------------------------------------------------
\* Mutant of Expired: the oldest objects are kept.
ExpiredNewest(objects, cutoff, max) ==
  LET old == {f \in DOMAIN objects : objects[f] # None /\ objects[f].stamp < cutoff}
      young == {f \in DOMAIN objects \ old : objects[f] # None}
      older(f) == {g \in young : objects[g].stamp < objects[f].stamp}
  IN old \cup IF max = 0 THEN {} ELSE {f \in young : Cardinality(older(f)) >= max}

\* getExpiredObjectKeys: the objects from before the cutoff (1: none is that
\* old), and of the others all but the newest.
Expired(objects, cutoff, max) ==
  LET old == {f \in DOMAIN objects : objects[f] # None /\ objects[f].stamp < cutoff}
      young == {f \in DOMAIN objects \ old : objects[f] # None}
      newer(f) == {g \in young : objects[g].stamp > objects[f].stamp}
  IN old \cup IF max = 0 THEN {} ELSE {f \in young : Cardinality(newer(f)) >= max}

\* cleanupDestination: the settings of a destination and its objects; the age
\* of an object is any that its rank allows.  A pass of the retention does this
\* for one destination after the other, whatever fails, and no two passes run at
\* once; passes come again and again, so the next destination is any.
List ==
  /\ pass.pc = "idle"
  /\ \E d \in Destinations, cutoff \in 1..(clock + 1), max \in MaxCounts :
       LET keys == Expired(bucket[Place[d]], cutoff, max) IN
       keys # {} /\ pass' = [pc |-> "delete", dest |-> d, max |-> max, cutoff |-> cutoff,
                            keys |-> keys]
  /\ UNCHANGED <<asked, row, task, deleting, disk, bucket, clock, restore, lost>>

Without(k, keys) ==
  [bucket EXCEPT ![k] = [f \in Files |-> IF f \in keys THEN None ELSE bucket[k][f]]]

\* deleteS3Objects throws when one of the objects could not be deleted; the
\* rows of the others are then not cleared, and no later pass lists them.  Nor
\* are those of another destination that has its objects in the same bucket.
DeleteObjects ==
  /\ pass.pc = "delete"
  /\ \E gone \in SUBSET pass.keys :
       /\ bucket' = Without(Place[pass.dest], gone)
       /\ \/ gone = pass.keys /\ lost' = lost \cup (Naming(gone) \ RowsOf(gone))
             /\ pass' = [IdlePass EXCEPT !.pc = "update", !.dest = pass.dest, !.keys = gone]
          \/ pass' = IdlePass /\ lost' = lost \cup Naming(gone)
  /\ UNCHANGED <<asked, row, task, deleting, disk, clock, restore>>

\* Mutant of Cleared: no row is found by its key.
ClearedNone(keys) == row

\* The rows forget the objects; their status stays.
Cleared(keys) ==
  [b \in BackupIds |-> IF b \in RowsOf(keys) THEN [row[b] EXCEPT !.key = FALSE] ELSE row[b]]

UpdateRows ==
  /\ pass.pc = "update" /\ pass' = IdlePass
  /\ \/ row' = Cleared(pass.keys) /\ UNCHANGED lost
     \/ lost' = lost \cup RowsOf(pass.keys) /\ UNCHANGED row
  /\ UNCHANGED <<asked, task, deleting, disk, bucket, clock, restore>>

-----------------------------------------------------------------------------
NoLonger(r) == restore' = [restore EXCEPT ![r] = NoRestore]

\* POST /backups/:id/restore reads the row and answers; the rest is done by a
\* background task.
BeginRestore(r) ==
  /\ restore[r].pc = "none"
  /\ \E b \in BackupIds :
       /\ row[b] # None /\ row[b].status = "COMPLETED"
       /\ restore' = [restore EXCEPT ![r] =
            [pc |-> "run", backup |-> b, key |-> row[b].key, of |-> None]]
  /\ UNCHANGED <<asked, row, task, deleting, disk, bucket, clock, pass, lost>>

\* Mutant of ObjectOf: the newest object of the bucket.
NewestObject(b) ==
  LET objects == {f \in Files : bucket[BucketOf(b)][f] # None}
      newest == {f \in objects : \A g \in objects :
                   bucket[BucketOf(b)][g].stamp <= bucket[BucketOf(b)][f].stamp}
  IN IF objects = {} THEN None ELSE bucket[BucketOf(b)][CHOOSE f \in newest : TRUE]

\* The object that the key in the row names
ObjectOf(b) == bucket[BucketOf(b)][FileOf(b)]

\* The file on the server is restored, or, if the row named one, the object: it
\* is downloaded into memory and written to a file of this backup, which two
\* restores of one may share.  What the command makes of a cut archive is left
\* open.  Anything may fail; what is left then is the file that was fetched, and
\* it is overwritten before it is read again.
RunRestore(r) ==
  LET b == restore[r].backup
      data == IF restore[r].key THEN ObjectOf(b) ELSE disk[FileOf(b)]
  IN
  /\ restore[r].pc = "run"
  /\ \/ /\ data # None
        /\ restore' = [restore EXCEPT ![r].pc = "remove", ![r].of = data.of]
     \/ NoLonger(r)
  /\ UNCHANGED <<asked, row, task, deleting, disk, bucket, clock, pass, lost>>

\* finally: the fetched file is removed, as far as it can be.
RemoveHydrated(r) ==
  /\ restore[r].pc = "remove" /\ NoLonger(r)
  /\ UNCHANGED <<asked, row, task, deleting, disk, bucket, clock, pass, lost>>

Task(b) ==
  \/ NotStarted(b) \/ BeginWrite(b) \/ EndWrite(b) \/ Read(b) \/ Put(b) \/ Head(b)
  \/ Complete(b) \/ Notify(b) \/ Fail(b)
Pass == List \/ DeleteObjects \/ UpdateRows
Restore(r) == RunRestore(r) \/ RemoveHydrated(r)

Next ==
  \/ \E b \in BackupIds : Create(b) \/ Task(b) \/ Delete(b) \/ DeleteRow(b)
  \/ Pass
  \/ \E r \in Restores : BeginRestore(r) \/ Restore(r)
  \/ Crash

Spec == Init /\ [][Next]_vars

-----------------------------------------------------------------------------
Twins(b, c) == asked[b] # None /\ asked[c] # None /\ FileOf(b) = FileOf(c)
Alone(b) == \A c \in BackupIds \ {b} : ~Twins(b, c)

\* A COMPLETED backup has what its row promises: its file on the server, or
\* its object in the bucket, as its command left it: whole, or cut off if it
\* is FULL, whose command hides that tar failed.  The exceptions: it shares its
\* file name, it is being deleted, or a pass of the retention deleted its object
\* and has not come to clear the row yet; or one of these two never came to its
\* end, because of an error or a crash, or because the key was not in the row
\* when the pass looked for it, or because the pass was that of another
\* destination with the same bucket.
CompletedHasData ==
  \A b \in BackupIds : row[b] # None /\ row[b].status = "COMPLETED" /\ Alone(b) =>
    LET object == bucket[BucketOf(b)][FileOf(b)]
        Good(data) == data # None /\ data.of = b /\ data.state \in Ends(b)
    IN /\ DestOf(b) = None => Good(disk[FileOf(b)]) \/ b \in deleting \cup lost
       /\ row[b].key => Good(object) \/ b \in lost \cup Interrupted

\* A pass deletes only objects that are past their age or have at least
\* maxBackupCount newer ones beside them in the bucket at that moment, however
\* long ago it listed them (unless the object is that of two backups).
KeepsNewest ==
  [][\A b \in BackupIds : asked[b] # None /\ DestOf(b) # None =>
       LET k == BucketOf(b)
           object == bucket[k][FileOf(b)]
           newer == {f \in Files : bucket[k][f] # None /\ bucket[k][f].stamp > object.stamp}
       IN Alone(b) /\ object # None /\ bucket'[k][FileOf(b)] = None =>
          \/ object.stamp < pass.cutoff
          \/ pass.max > 0 /\ Cardinality(newer) >= pass.max]_vars

\* What a restore has put back is the data of its backup, or of one that was
\* asked for in the same second under the same name.
RestoresOwnData ==
  \A r \in Restores : restore[r].pc = "remove" =>
    LET b == restore[r].backup  c == restore[r].of IN b = c \/ Twins(b, c)

\* A backup is RUNNING only while its task is under way, unless the process died
\* or the request failed between the row and the task: every error on the way,
\* also that of the last notification, reaches the row.
NoneForgotten ==
  \A b \in BackupIds : row[b] # None /\ row[b].status = "RUNNING" =>
    task[b].pc \notin {"none", "done"}
=============================================================================
