---------------------------- MODULE Backups_proofs ----------------------------
(***************************************************************************)
(* Proofs about Backups for any number of backups, files, buckets and      *)
(* restores: a restore never puts back the data of another backup, no row  *)
(* stays RUNNING behind its task, the retention keeps the newest, and the  *)
(* data that a COMPLETED row promises is there.                            *)
(***************************************************************************)
EXTENDS Backups, FiniteSetTheorems, TLAPS

(* Data is that of a backup whose file has this name.                      *)
Named(data, f) == asked[data.of] # None /\ asked[data.of].file = f

(* Whatever lies, or is carried, under the name of a file belongs to a     *)
(* backup of that name; keys and uploads are of backups with a bucket.     *)
OwnInv ==
  /\ \A b \in BackupIds :
       /\ row[b] # None \/ task[b].pc # "none" => asked[b] # None
       /\ row[b] # None /\ row[b].key => DestOf(b) # None
       /\ task[b].pc \in {"put", "head"} => DestOf(b) # None
       /\ task[b].pc = "put" => task[b].body # None
       /\ task[b].body # None => asked[b] # None /\ Named(task[b].body, FileOf(b))
  /\ \A f \in Files : disk[f] # None => Named(disk[f], f)
  /\ \A k \in Buckets, f \in Files : bucket[k][f] # None => Named(bucket[k][f], f)
  /\ \A r \in Restores :
       /\ restore[r].pc # "none" => restore[r].backup # None /\ asked[restore[r].backup] # None
       /\ restore[r].pc # "none" /\ restore[r].key => DestOf(restore[r].backup) # None
       /\ restore[r].pc = "remove" =>
            restore[r].of # None /\ Named(restore[r], FileOf(restore[r].backup))

(* A row is RUNNING until its task says otherwise.                         *)
StatusInv ==
  /\ NoneForgotten
  /\ \A b \in BackupIds : At(b, "notify") /\ row[b] # None => row[b].status # "RUNNING"

(* An object may go: it is old, or enough others of its bucket are newer.  *)
Newer(k, f) == {g \in Files : bucket[k][g] # None /\ bucket[k][g].stamp > bucket[k][f].stamp}
Spare(k, f) ==
  \/ bucket[k][f].stamp < pass.cutoff
  \/ pass.max > 0 /\ Cardinality(Newer(k, f)) >= pass.max

Before == {"created", "writing", "read", "put"}

(* A backup that shares its name with no other uploads once, so what a     *)
(* pass has listed for it stays what it was until the pass deletes it.     *)
StampInv ==
  \A k \in Buckets, f \in Files : bucket[k][f] # None => bucket[k][f].stamp <= clock
UploadsOnce ==
  \A b \in BackupIds :
    asked[b] # None /\ DestOf(b) # None /\ Alone(b) /\ bucket[BucketOf(b)][FileOf(b)] # None =>
      task[b].pc \notin Before
PassInv ==
  pass.pc = "delete" =>
    /\ pass.dest \in Destinations
    /\ \A f \in pass.keys : bucket[Place[pass.dest]][f] # None
    /\ \A b \in BackupIds :
         asked[b] # None /\ DestOf(b) # None /\ BucketOf(b) = Place[pass.dest] /\ Alone(b) /\
         FileOf(b) \in pass.keys => Spare(Place[pass.dest], FileOf(b))
RetentionInv == StampInv /\ UploadsOnce /\ PassInv

IInv == TypeOK /\ OwnInv /\ StatusInv /\ RetentionInv

-----------------------------------------------------------------------------
LEMMA IdleType ==
  /\ IdlePass \in [pc : {"idle", "delete", "update"}, dest : Destinations \cup {None},
                   max : MaxCounts, cutoff : Nat, keys : SUBSET Files]
  /\ IdlePass.pc = "idle"
<1>1. (CHOOSE n \in MaxCounts : TRUE) \in MaxCounts
  BY ConstantsAssumption
<1> QED BY <1>1 DEF IdlePass

LEMMA InvInit == Init => IInv
<1> SUFFICES ASSUME Init PROVE IInv
  OBVIOUS
<1>1. TypeOK
  BY IdleType DEF Init, TypeOK, Steps, RestoreSteps, NoRestore
<1>2. OwnInv
  BY DEF Init, OwnInv, NoRestore
<1>3. StatusInv /\ RetentionInv
  BY IdleType DEF Init, StatusInv, NoneForgotten, RetentionInv, StampInv, UploadsOnce, PassInv, At
<1> QED BY <1>1, <1>2, <1>3 DEF IInv

(* Where a task goes next, with nothing in its hands.                      *)
LEMMA GotoType ==
  ASSUME TypeOK, NEW b \in BackupIds, NEW step \in Steps, Goto(b, step)
  PROVE  /\ task' \in [BackupIds -> [pc : Steps, body : Data \cup {None}]]
         /\ task'[b].pc = step /\ task'[b].body = None
         /\ \A c \in BackupIds \ {b} : task'[c] = task[c]
  BY DEF TypeOK, Goto

(* A step that uploads nothing, deletes no object and asks for no backup.   *)
LEMMA RetentionKept ==
  ASSUME RetentionInv, UNCHANGED <<asked, bucket, clock>>,
         pass' = pass \/ pass'.pc # "delete",
         \A c \in BackupIds : task'[c].pc \in Before => task[c].pc \in Before
  PROVE  RetentionInv'
<1>1. \A c \in BackupIds : /\ Alone(c)' = Alone(c) /\ DestOf(c)' = DestOf(c)
                           /\ FileOf(c)' = FileOf(c) /\ BucketOf(c)' = BucketOf(c)
  BY DEF Alone, Twins, BucketOf, DestOf, FileOf
<1>2. StampInv'
  BY DEF RetentionInv, StampInv
<1>3. UploadsOnce'
  BY <1>1 DEF RetentionInv, UploadsOnce
<1>4. PassInv'
  <2>1. CASE pass'.pc # "delete"
    BY <2>1 DEF PassInv
  <2>2. CASE pass' = pass
    BY <1>1, <2>2 DEF RetentionInv, PassInv, Spare, Newer
  <2> QED BY <2>1, <2>2
<1> QED BY <1>2, <1>3, <1>4 DEF RetentionInv

(* A step of one task that touches neither requests, buckets nor restores. *)
LEMMA OneTask ==
  ASSUME IInv, NEW b \in BackupIds, NEW step \in Steps \ {"none", "put"}, Goto(b, step),
         ~At(b, "none"), step \in Before => task[b].pc \in Before,
         step = "head" => DestOf(b) # None,
         disk' \in [Files -> Data \cup {None}],
         \A f \in Files : disk'[f] # None => Named(disk'[f], f),
         UNCHANGED <<asked, bucket, clock, pass, restore, deleting>>,
         row' \in [BackupIds -> Row \cup {None}], lost' \in SUBSET BackupIds,
         \A c \in BackupIds \ {b} : row'[c] = row[c],
         row'[b] # None => /\ row'[b].key => DestOf(b) # None
                           /\ step \in {"done", "notify"} => row'[b].status # "RUNNING"
  PROVE  IInv'
<1>1. /\ task' \in [BackupIds -> [pc : Steps, body : Data \cup {None}]]
      /\ task'[b].pc = step /\ task'[b].body = None
      /\ \A c \in BackupIds \ {b} : task'[c] = task[c]
  BY GotoType DEF IInv
<1>2. TypeOK'
  BY <1>1 DEF IInv, TypeOK
<1>3. asked[b] # None
  BY DEF IInv, OwnInv, At
<1>4. OwnInv'
  BY <1>1, <1>3 DEF IInv, OwnInv, Named, BucketOf, DestOf, FileOf
<1>5. StatusInv'
  BY <1>1 DEF IInv, StatusInv, NoneForgotten, At
<1>6. RetentionInv'
  <2>1. \A c \in BackupIds : task'[c].pc \in Before => task[c].pc \in Before
    BY <1>1
  <2> QED BY <2>1, RetentionKept DEF IInv
<1> QED BY <1>2, <1>4, <1>5, <1>6 DEF IInv

-----------------------------------------------------------------------------
LEMMA TaskInv ==
  ASSUME IInv, NEW b \in BackupIds,
         NotStarted(b) \/ BeginWrite(b) \/ EndWrite(b) \/ Head(b) \/ Complete(b) \/ Notify(b)
  PROVE  IInv'
<1> USE DEF Before, Steps
<1>1. /\ \A f \in Files : disk[f] # None => Named(disk[f], f)
      /\ disk \in [Files -> Data \cup {None}] /\ row \in [BackupIds -> Row \cup {None}]
      /\ lost \in SUBSET BackupIds
      /\ row[b] # None /\ row[b].key => DestOf(b) # None
  BY DEF IInv, TypeOK, OwnInv
<1>2. CASE NotStarted(b)
  BY <1>1, <1>2, OneTask DEF NotStarted, At
<1>3. CASE BeginWrite(b)
  <2>1. asked[b] # None /\ FileOf(b) \in Files
    BY <1>3 DEF BeginWrite, At, IInv, OwnInv, TypeOK, Request, FileOf
  <2>2. /\ disk' \in [Files -> Data \cup {None}]
        /\ \A f \in Files : disk'[f] # None => Named(disk'[f], f)
    <3> DEFINE new == [of |-> b, state |-> "open"]
    <3>1. new \in Data /\ new.of = b
      BY DEF Data, States
    <3>2. asked' = asked /\ disk' \in {disk, [disk EXCEPT ![FileOf(b)] = new]}
      BY <1>3 DEF BeginWrite
    <3>3. Named(new, FileOf(b))
      BY <2>1, <3>1 DEF Named, FileOf
    <3> HIDE DEF new
    <3> QED BY <1>1, <2>1, <3>1, <3>2, <3>3 DEF Named
  <2>3. \E step \in {"writing", "error"} : Goto(b, step)
    BY <1>3 DEF BeginWrite
  <2> QED BY <1>1, <1>3, <2>2, <2>3, OneTask DEF BeginWrite, At
<1>4. CASE EndWrite(b)
  <2>1. asked[b] # None /\ FileOf(b) \in Files
    BY <1>4 DEF EndWrite, At, IInv, OwnInv, TypeOK, Request, FileOf
  <2>2. /\ disk' \in [Files -> Data \cup {None}]
        /\ \A f \in Files : disk'[f] # None => Named(disk'[f], f)
    <3>1. PICK end \in States :
            \/ disk' = disk
            \/ /\ disk[FileOf(b)] = [of |-> b, state |-> "open"]
               /\ disk' = [disk EXCEPT ![FileOf(b)].state = end]
      BY <1>4 DEF EndWrite, Ends, States
    <3> DEFINE f == FileOf(b)
               new == [disk[f] EXCEPT !.state = end]
    <3>2. ASSUME disk[f] = [of |-> b, state |-> "open"]
          PROVE  new \in Data /\ new.of = b
      <4>1. disk[f] \in Data /\ disk[f].of = b
        BY <3>2 DEF Data, States
      <4> QED BY <4>1 DEF Data
    <3>3. asked' = asked /\ asked[b] # None /\ asked[b].file = f
      BY <1>4, <2>1 DEF EndWrite, FileOf
    <3>4. f \in Files
      BY <2>1
    <3>5. disk' = disk \/ (disk[f] = [of |-> b, state |-> "open"] /\ disk' = [disk EXCEPT ![f] = new])
      BY <3>1
    <3> HIDE DEF new, f
    <3>6. new.of = b => Named(new, f)
      BY <3>3 DEF Named
    <3> QED BY <1>1, <3>2, <3>3, <3>4, <3>5, <3>6 DEF Named
  <2>3. \E step \in {"read", "error"} : Goto(b, step)
    BY <1>4 DEF EndWrite
  <2> QED BY <1>1, <1>4, <2>2, <2>3, OneTask DEF EndWrite, At
<1>5. CASE Head(b)
  <2>1. FileOf(b) \in Files
    BY <1>5 DEF Head, At, IInv, OwnInv, TypeOK, Request, FileOf
  <2>2. /\ disk' \in [Files -> Data \cup {None}]
        /\ \A f \in Files : disk'[f] # None => Named(disk'[f], f)
    BY <1>1, <1>5, <2>1 DEF Head, Named
  <2>3. \E step \in {"complete", "error"} : Goto(b, step)
    BY <1>5 DEF Head
  <2> QED BY <1>1, <1>5, <2>2, <2>3, OneTask DEF Head, At
<1>6. CASE Complete(b)
  <2>1. CASE Goto(b, "notify") /\ row' = Completed(b)
    <3> DEFINE key == DestOf(b) # None
               new == [status |-> "COMPLETED", key |-> key]
    <3>1. key \in BOOLEAN
      OBVIOUS
    <3>2. row' = [row EXCEPT ![b] = new]
      BY <2>1 DEF Completed
    <3>3. new.key <=> DestOf(b) # None
      OBVIOUS
    <3> HIDE DEF key
    <3>4. new \in Row /\ new.status = "COMPLETED"
      BY <3>1 DEF Row
    <3> HIDE DEF new
    <3>5. /\ row' \in [BackupIds -> Row \cup {None}] /\ row'[b] = new
          /\ \A c \in BackupIds \ {b} : row'[c] = row[c]
      BY <1>1, <3>2, <3>4
    <3>6. lost' \in SUBSET BackupIds
      BY <1>1, <1>6 DEF Complete
    <3> QED BY <1>1, <1>6, <2>1, <3>3, <3>4, <3>5, <3>6, OneTask DEF Complete, At
  <2>2. CASE Goto(b, "error") /\ UNCHANGED <<row, lost>>
    BY <1>1, <1>6, <2>2, OneTask DEF Complete, At
  <2> QED BY <1>6, <2>1, <2>2 DEF Complete
<1>7. CASE Notify(b)
  <2>1. row[b] # None => row[b].status # "RUNNING"
    BY <1>7 DEF Notify, IInv, StatusInv
  <2>2. \E step \in {"done", "error"} : Goto(b, step)
    BY <1>7 DEF Notify
  <2> QED BY <1>1, <1>7, <2>1, <2>2, OneTask DEF Notify, At
<1> QED BY <1>2, <1>3, <1>4, <1>5, <1>6, <1>7

(* The process dies: everything under way is gone, and stays undone.       *)
LEMMA DiedInv ==
  ASSUME IInv, Died, UNCHANGED <<asked, row, disk, bucket, clock>>
  PROVE  IInv'
<1>1. /\ task' \in [BackupIds -> [pc : Steps, body : Data \cup {None}]]
      /\ \A b \in BackupIds : \/ task'[b] = task[b] /\ task[b].pc \in {"none", "done"}
                              \/ /\ task'[b].pc = "dead" /\ task'[b].body = None
                                 /\ task[b].pc \notin {"none", "done"}
  BY DEF Died, IInv, TypeOK, Steps
<1>2. /\ deleting' = {} /\ pass' = IdlePass
      /\ restore' \in [Restores -> [pc : RestoreSteps, backup : BackupIds \cup {None},
                                    key : BOOLEAN, of : BackupIds \cup {None}]]
      /\ \A r \in Restores : restore'[r].pc = "none"
  BY DEF Died, NoRestore, RestoreSteps
<1>3. lost' \in SUBSET BackupIds
  BY DEF Died, Interrupted, RowsOf, Naming, IInv, TypeOK
<1>4. TypeOK'
  BY <1>1, <1>2, <1>3, IdleType DEF IInv, TypeOK
<1>5. OwnInv'
  BY <1>1, <1>2 DEF IInv, OwnInv, Named, BucketOf, DestOf, FileOf
<1>6. StatusInv'
  BY <1>1 DEF IInv, StatusInv, NoneForgotten, At
<1>7. RetentionInv'
  BY <1>1, <1>2, IdleType, RetentionKept DEF IInv, Before
<1> QED BY <1>4, <1>5, <1>6, <1>7 DEF IInv

LEMMA FailInv ==
  ASSUME IInv, NEW b \in BackupIds, Fail(b)
  PROVE  IInv'
<1>1. CASE row[b] # None /\ row' = FailedRow(b) /\ Goto(b, "done")
           /\ UNCHANGED <<deleting, pass, restore, lost>>
  <2> DEFINE new == [row[b] EXCEPT !.status = "FAILED"]
  <2>1. row[b] \in Row /\ row \in [BackupIds -> Row \cup {None}] /\ lost \in SUBSET BackupIds
    BY <1>1 DEF IInv, TypeOK
  <2>2. new \in Row /\ new.status = "FAILED" /\ new.key = row[b].key
    BY <2>1 DEF Row
  <2>3. row' = [row EXCEPT ![b] = new]
    BY <1>1 DEF FailedRow
  <2> HIDE DEF new
  <2>4. /\ row' \in [BackupIds -> Row \cup {None}] /\ row'[b] = new
        /\ \A c \in BackupIds \ {b} : row'[c] = row[c]
    BY <2>1, <2>2, <2>3
  <2>5. row'[b].key => DestOf(b) # None
    BY <1>1, <2>2, <2>4 DEF IInv, OwnInv
  <2>6. /\ \A f \in Files : disk[f] # None => Named(disk[f], f)
        /\ disk \in [Files -> Data \cup {None}]
    BY DEF IInv, TypeOK, OwnInv
  <2> QED BY <1>1, <2>1, <2>2, <2>4, <2>5, <2>6, OneTask DEF Fail, At, Steps, Before
<1>2. CASE row' = row /\ Died
  BY <1>2, DiedInv DEF Fail
<1> QED BY <1>1, <1>2 DEF Fail

(* A backup that is asked for owns nothing yet: what bears its name is that *)
(* of another, which then shares it.                                       *)
LEMMA CreateInv ==
  ASSUME IInv, NEW b \in BackupIds, Create(b)
  PROVE  IInv'
<1>1. PICK request \in Request : asked' = [asked EXCEPT ![b] = request]
  BY ConstantsAssumption DEF Create
<1>2. /\ asked[b] = None /\ request # None /\ Goto(b, "created")
      /\ row' = [row EXCEPT ![b] = [status |-> "RUNNING", key |-> FALSE]]
      /\ UNCHANGED <<deleting, disk, bucket, clock, pass, restore, lost>>
  BY <1>1, ConstantsAssumption DEF Create
<1>3. /\ task' \in [BackupIds -> [pc : Steps, body : Data \cup {None}]]
      /\ task'[b].pc = "created" /\ task'[b].body = None
      /\ \A c \in BackupIds \ {b} : task'[c] = task[c]
  BY <1>2, GotoType DEF IInv, Steps
<1>4. /\ asked' \in [BackupIds -> Request \cup {None}] /\ asked'[b] = request
      /\ \A c \in BackupIds : asked[c] # None => c # b /\ asked'[c] = asked[c]
      /\ \A c \in BackupIds \ {b} : asked'[c] = asked[c]
  BY <1>1, <1>2 DEF IInv, TypeOK
<1>5. /\ row' \in [BackupIds -> Row \cup {None}]
      /\ ~row'[b].key /\ \A c \in BackupIds \ {b} : row'[c] = row[c]
  <2> DEFINE new == [status |-> "RUNNING", key |-> FALSE]
  <2>1. new \in Row /\ ~new.key
    BY DEF Row
  <2>2. row' = [row EXCEPT ![b] = new] /\ row \in [BackupIds -> Row \cup {None}]
    BY <1>2 DEF IInv, TypeOK
  <2> HIDE DEF new
  <2> QED BY <2>1, <2>2
<1>6. TypeOK'
  BY <1>2, <1>3, <1>4, <1>5 DEF IInv, TypeOK
<1>7. ASSUME NEW data, NEW f, Named(data, f), data.of \in BackupIds
      PROVE  Named(data, f)'
  BY <1>4, <1>7 DEF Named
<1>8. OwnInv'
  <2>1. \A c \in BackupIds :
          /\ row'[c] # None \/ task'[c].pc # "none" => asked'[c] # None
          /\ row'[c] # None /\ row'[c].key => DestOf(c)' # None
          /\ task'[c].pc \in {"put", "head"} => DestOf(c)' # None
          /\ task'[c].pc = "put" => task'[c].body # None
    BY <1>2, <1>3, <1>4, <1>5 DEF IInv, OwnInv, DestOf
  <2>2. ASSUME NEW c \in BackupIds, task'[c].body # None
        PROVE  asked'[c] # None /\ Named(task[c].body, FileOf(c))' /\ task'[c] = task[c]
    <3>1. c # b /\ task'[c] = task[c]
      BY <1>3, <2>2
    <3>2. asked[c] # None /\ Named(task[c].body, FileOf(c)) /\ task[c].body \in Data
      BY <2>2, <3>1 DEF IInv, OwnInv, TypeOK
    <3> QED BY <1>4, <1>3, <3>1, <3>2 DEF Named, FileOf, Data
  <2>3. \A f \in Files : disk'[f] # None => Named(disk[f], f)'
    BY <1>2, <1>4 DEF IInv, OwnInv, TypeOK, Data, Named
  <2>4. \A k \in Buckets, f \in Files : bucket'[k][f] # None => Named(bucket[k][f], f)'
    BY <1>2, <1>4 DEF IInv, OwnInv, TypeOK, Object, Named
  <2>5. ASSUME NEW r \in Restores
        PROVE  /\ restore'[r].pc # "none" =>
                    restore'[r].backup # None /\ asked'[restore'[r].backup] # None
               /\ restore'[r].pc # "none" /\ restore'[r].key => DestOf(restore[r].backup)' # None
               /\ restore'[r].pc = "remove" =>
                    restore'[r].of # None /\ Named(restore[r], FileOf(restore[r].backup))'
    <3>1. restore'[r] = restore[r]
      BY <1>2
    <3>2. CASE restore[r].pc = "none"
      BY <3>1, <3>2 DEF IInv, OwnInv
    <3>3. CASE restore[r].pc # "none"
      <4>1. restore[r].backup \in BackupIds /\ asked[restore[r].backup] # None
        BY <3>3 DEF IInv, OwnInv, TypeOK
      <4>2. restore[r].key => DestOf(restore[r].backup)' # None
        <5>1. restore[r].key => DestOf(restore[r].backup) # None
          BY <3>3 DEF IInv, OwnInv
        <5> QED BY <1>4, <3>1, <4>1, <5>1 DEF DestOf
      <4>3. restore[r].pc = "remove" =>
              restore[r].of \in BackupIds /\ Named(restore[r], FileOf(restore[r].backup))
        BY DEF IInv, OwnInv, TypeOK
      <4>4. restore[r].pc = "remove" =>
              restore[r].of # None /\ Named(restore[r], FileOf(restore[r].backup))'
        BY <1>2, <1>4, <4>1, <4>3, ConstantsAssumption DEF Named, FileOf
      <4>5. restore'[r].backup # None /\ asked'[restore'[r].backup] # None
        BY <1>4, <3>1, <3>3, <4>1 DEF IInv, OwnInv
      <4> QED BY <3>1, <4>2, <4>4, <4>5
    <3> QED BY <3>2, <3>3
  <2> QED BY <1>2, <2>1, <2>2, <2>3, <2>4, <2>5 DEF OwnInv
<1>9. StatusInv'
  BY <1>3, <1>5 DEF IInv, StatusInv, NoneForgotten, At
<1>10. ASSUME NEW c \in BackupIds, asked'[c] # None, Alone(c)', c # b
       PROVE  /\ asked[c] # None /\ Alone(c) /\ DestOf(c)' = DestOf(c) /\ FileOf(c)' = FileOf(c)
              /\ BucketOf(c)' = BucketOf(c)
  BY <1>4, <1>10 DEF Alone, Twins, BucketOf, DestOf, FileOf
<1>11. ASSUME NEW k \in Buckets, Alone(b)'
       PROVE  bucket[k][FileOf(b)'] = None
  <2>1. SUFFICES ASSUME bucket[k][FileOf(b)'] # None PROVE FALSE
    OBVIOUS
  <2> DEFINE f == request.file
             c == bucket[k][f].of
  <2>2. f \in Files /\ FileOf(b)' = f
    BY <1>4 DEF FileOf, Request
  <2>3. bucket[k][f] \in Object /\ asked[c] # None /\ asked[c].file = f
    BY <2>1, <2>2 DEF IInv, TypeOK, OwnInv, Named
  <2>4. c \in BackupIds \ {b} /\ asked'[c] = asked[c]
    BY <1>2, <1>4, <2>3 DEF Object
  <2> QED BY <1>2, <1>4, <1>11, <2>2, <2>3, <2>4 DEF Alone, Twins, FileOf
<1>12. RetentionInv'
  <2>1. StampInv'
    BY <1>2 DEF IInv, RetentionInv, StampInv
  <2>2. UploadsOnce'
    <3> SUFFICES ASSUME NEW c \in BackupIds, asked'[c] # None, DestOf(c)' # None, Alone(c)',
                        bucket'[BucketOf(c)'][FileOf(c)'] # None
                 PROVE  task'[c].pc \notin Before
      BY DEF UploadsOnce
    <3>1. CASE c = b
      <4>1. BucketOf(b)' \in Buckets
        BY <1>4, <3>1, ConstantsAssumption DEF Request, BucketOf, DestOf
      <4> QED BY <1>2, <1>11, <3>1, <4>1
    <3>2. CASE c # b
      BY <1>2, <1>3, <1>10, <3>2 DEF IInv, RetentionInv, UploadsOnce
    <3> QED BY <3>1, <3>2
  <2>3. PassInv'
    <3>1. SUFFICES ASSUME pass.pc = "delete" PROVE PassInv'
      BY <1>2 DEF PassInv
    <3> DEFINE k == Place[pass.dest]
    <3>2. k \in Buckets /\ pass.dest \in Destinations /\ \A f \in pass.keys : bucket[k][f] # None
      BY <3>1, ConstantsAssumption DEF IInv, RetentionInv, PassInv
    <3>3. ASSUME NEW c \in BackupIds, asked'[c] # None, DestOf(c)' # None, BucketOf(c)' = k,
                 Alone(c)', FileOf(c)' \in pass.keys
          PROVE  Spare(k, FileOf(c))'
      <4>1. c # b
        BY <1>11, <3>2, <3>3
      <4> QED BY <1>2, <1>10, <3>1, <3>3, <4>1 DEF IInv, RetentionInv, PassInv, Spare, Newer
    <3> QED BY <1>2, <3>2, <3>3 DEF PassInv
  <2> QED BY <2>1, <2>2, <2>3 DEF RetentionInv
<1> QED BY <1>6, <1>8, <1>9, <1>12 DEF IInv

(* The file is read: what is carried on is the data under its name.        *)
LEMMA ReadInv ==
  ASSUME IInv, NEW b \in BackupIds, Read(b)
  PROVE  IInv'
<1>1. /\ At(b, "read") /\ UNCHANGED <<asked, row, deleting, disk, bucket, clock, pass, restore, lost>>
  BY DEF Read
<1>2. /\ \A f \in Files : disk[f] # None => Named(disk[f], f)
      /\ disk \in [Files -> Data \cup {None}] /\ row \in [BackupIds -> Row \cup {None}]
      /\ lost \in SUBSET BackupIds
      /\ row[b] # None /\ row[b].key => DestOf(b) # None
  BY DEF IInv, TypeOK, OwnInv
<1>3. CASE Goto(b, "complete") \/ Goto(b, "error")
  BY <1>1, <1>2, <1>3, OneTask DEF At, Steps, Before
<1>4. CASE /\ disk[FileOf(b)] # None /\ DestOf(b) # None
           /\ task' = [task EXCEPT ![b] = [pc |-> "put", body |-> disk[FileOf(b)]]]
  <2>1. asked[b] # None /\ FileOf(b) \in Files
    BY <1>1 DEF At, IInv, OwnInv, TypeOK, Request, FileOf
  <2> DEFINE new == [pc |-> "put", body |-> disk[FileOf(b)]]
  <2>2. /\ new \in [pc : Steps, body : Data \cup {None}]
        /\ new.pc = "put" /\ new.body = disk[FileOf(b)]
    BY <1>2, <2>1 DEF Steps
  <2>3. task' = [task EXCEPT ![b] = new]
    BY <1>4
  <2> HIDE DEF new
  <2>4. /\ task' \in [BackupIds -> [pc : Steps, body : Data \cup {None}]] /\ task'[b] = new
        /\ \A c \in BackupIds \ {b} : task'[c] = task[c]
    BY <2>2, <2>3 DEF IInv, TypeOK
  <2>5. TypeOK'
    BY <1>1, <2>4 DEF IInv, TypeOK
  <2>6. OwnInv'
    <3>1. Named(new.body, FileOf(b))
      BY <1>2, <1>4, <2>1, <2>2
    <3>2. \A c \in BackupIds :
            /\ row[c] # None \/ task'[c].pc # "none" => asked[c] # None
            /\ task'[c].pc \in {"put", "head"} => DestOf(c) # None
            /\ task'[c].pc = "put" => task'[c].body # None
      BY <1>4, <2>1, <2>2, <2>4 DEF IInv, OwnInv
    <3>3. \A c \in BackupIds : task'[c].body # None =>
            asked[c] # None /\ Named(task'[c].body, FileOf(c))
      BY <2>1, <2>2, <2>4, <3>1 DEF IInv, OwnInv
    <3> QED BY <1>1, <3>2, <3>3 DEF IInv, OwnInv, Named, BucketOf, DestOf, FileOf
  <2>7. StatusInv'
    BY <1>1, <2>2, <2>4 DEF IInv, StatusInv, NoneForgotten, At
  <2>8. RetentionInv'
    <3>1. \A c \in BackupIds : task'[c].pc \in Before => task[c].pc \in Before
      BY <1>1, <2>4 DEF At, Before
    <3> QED BY <1>1, <3>1, RetentionKept DEF IInv
  <2> QED BY <2>5, <2>6, <2>7, <2>8 DEF IInv
<1> QED BY <1>3, <1>4 DEF Read

(* An upload: nobody else's object of a name that nobody shares, and newer *)
(* than every other.                                                       *)
LEMMA PutInv ==
  ASSUME IInv, NEW b \in BackupIds, Put(b)
  PROVE  IInv'
<1>1. /\ task[b].pc = "put" /\ UNCHANGED <<asked, row, deleting, disk, pass, restore, lost>>
  BY DEF Put, At
<1>2. /\ asked[b] # None /\ FileOf(b) \in Files
      /\ DestOf(b) \in Destinations /\ BucketOf(b) \in Buckets
      /\ task[b].body \in Data /\ Named(task[b].body, FileOf(b))
  BY <1>1, ConstantsAssumption DEF IInv, OwnInv, TypeOK, Request, FileOf, DestOf, BucketOf
<1>3. /\ \A f \in Files : disk[f] # None => Named(disk[f], f)
      /\ disk \in [Files -> Data \cup {None}] /\ row \in [BackupIds -> Row \cup {None}]
      /\ lost \in SUBSET BackupIds
      /\ row[b] # None /\ row[b].key => DestOf(b) # None
  BY DEF IInv, TypeOK, OwnInv
<1>4. CASE Goto(b, "error") /\ UNCHANGED <<bucket, clock>>
  BY <1>1, <1>3, <1>4, OneTask DEF At, Steps, Before
<1>5. ASSUME NEW step \in {"head", "error"}, Goto(b, step), clock' = clock + 1,
             bucket' = [bucket EXCEPT ![BucketOf(b)][FileOf(b)] =
               [of |-> task[b].body.of, state |-> task[b].body.state, stamp |-> clock + 1]]
      PROVE  IInv'
  <2> DEFINE D == BucketOf(b)
             F == FileOf(b)
             new == [of |-> task[b].body.of, state |-> task[b].body.state, stamp |-> clock + 1]
  <2>1. /\ task' \in [BackupIds -> [pc : Steps, body : Data \cup {None}]]
        /\ task'[b].pc = step /\ task'[b].body = None
        /\ \A c \in BackupIds \ {b} : task'[c] = task[c]
    BY <1>5, GotoType DEF IInv, Steps
  <2>2. /\ clock \in Nat /\ clock' \in Nat
        /\ new \in Object /\ new.of = task[b].body.of /\ new.stamp = clock + 1
    BY <1>2, <1>5 DEF IInv, TypeOK, Data, Object
  <2>3. bucket' = [bucket EXCEPT ![D][F] = new]
    BY <1>5
  <2> HIDE DEF new
  <2>4. bucket \in [Buckets -> [Files -> Object \cup {None}]]
    BY DEF IInv, TypeOK
  <2>5. /\ bucket' \in [Buckets -> [Files -> Object \cup {None}]]
        /\ bucket'[D][F] = new
        /\ \A k \in Buckets, f \in Files : k # D \/ f # F => bucket'[k][f] = bucket[k][f]
    BY <1>2, <2>2, <2>3, <2>4
  <2>6. TypeOK'
    BY <1>1, <2>1, <2>2, <2>5 DEF IInv, TypeOK
  <2>7. OwnInv'
    <3>1. Named(new, F)
      BY <1>2, <2>2 DEF Named
    <3>2. \A k \in Buckets, f \in Files : bucket'[k][f] # None => Named(bucket'[k][f], f)
      BY <1>2, <2>5, <3>1 DEF IInv, OwnInv
    <3> QED BY <1>1, <1>2, <2>1, <3>2 DEF IInv, OwnInv, Named, BucketOf, DestOf, FileOf
  <2>8. StatusInv'
    BY <1>1, <2>1 DEF IInv, StatusInv, NoneForgotten, At
  <2>9. \A c \in BackupIds : /\ Alone(c)' = Alone(c) /\ DestOf(c)' = DestOf(c)
                             /\ FileOf(c)' = FileOf(c) /\ BucketOf(c)' = BucketOf(c)
    BY <1>1 DEF Alone, Twins, BucketOf, DestOf, FileOf
  <2>10. ASSUME NEW c \in BackupIds, asked[c] # None, Alone(c), FileOf(c) = F
         PROVE  c = b
    BY <1>2, <2>10 DEF Alone, Twins
  <2>11. StampInv'
    BY <1>5, <2>2, <2>4, <2>5 DEF IInv, RetentionInv, StampInv, Object
  <2>12. UploadsOnce'
    <3> SUFFICES ASSUME NEW c \in BackupIds, asked[c] # None, Alone(c),
                        DestOf(c) # None, bucket'[BucketOf(c)][FileOf(c)] # None
                 PROVE  task'[c].pc \notin Before
      BY <1>1, <2>9 DEF UploadsOnce
    <3>1. CASE c = b
      BY <2>1, <3>1 DEF Before
    <3>2. CASE c # b
      <4>1. FileOf(c) \in Files /\ FileOf(c) # F /\ BucketOf(c) \in Buckets
        BY <2>10, <3>2, ConstantsAssumption
           DEF IInv, TypeOK, Request, FileOf, DestOf, BucketOf
      <4> QED BY <2>1, <2>5, <3>2, <4>1 DEF IInv, RetentionInv, UploadsOnce
    <3> QED BY <3>1, <3>2
  <2>13. PassInv'
    <3> SUFFICES ASSUME pass.pc = "delete" PROVE PassInv'
      BY <1>1 DEF PassInv
    <3> DEFINE k == Place[pass.dest]
    <3>1. /\ pass.dest \in Destinations /\ k \in Buckets /\ pass.keys \subseteq Files
          /\ \A f \in pass.keys : bucket[k][f] # None
          /\ pass.max \in Nat /\ pass.cutoff \in Nat
      BY ConstantsAssumption DEF IInv, RetentionInv, PassInv, TypeOK
    <3>2. new # None
      BY <2>2, ConstantsAssumption
    <3>3. \A f \in pass.keys : bucket'[k][f] # None
      BY <2>5, <3>1, <3>2
    <3>4. ASSUME NEW c \in BackupIds, asked[c] # None, DestOf(c) # None, BucketOf(c) = k,
                 Alone(c), FileOf(c) \in pass.keys
          PROVE  Spare(k, FileOf(c))'
      <4> DEFINE f == FileOf(c)
      <4>1. Spare(k, f) /\ bucket[k][f] # None /\ f \in Files
        BY <3>1, <3>4 DEF IInv, RetentionInv, PassInv
      <4>2. bucket'[k][f] = bucket[k][f]
        <5>1. f = F => FALSE
          BY <1>1, <2>10, <3>1, <3>4, <4>1 DEF IInv, RetentionInv, UploadsOnce, Before
        <5> QED BY <2>5, <3>1, <4>1, <5>1
      <4>3. bucket[k][f].stamp \in Nat /\ bucket[k][f].stamp <= clock
        BY <2>4, <3>1, <4>1 DEF Object, IInv, RetentionInv, StampInv
      <4> DEFINE old == Newer(k, f)
                 now == {g \in Files : bucket'[k][g] # None /\
                                       bucket'[k][g].stamp > bucket'[k][f].stamp}
      <4>4. old \subseteq now
        BY <2>2, <2>5, <3>1, <3>2, <4>2, <4>3 DEF Newer
      <4>5. IsFiniteSet(now) /\ IsFiniteSet(old)
        BY ConstantsAssumption, FS_Subset DEF Newer
      <4>6. Cardinality(old) \in Nat /\ Cardinality(now) \in Nat
            /\ Cardinality(old) <= Cardinality(now)
        BY <4>4, <4>5, FS_Subset, FS_CardinalityType
      <4>7. \/ bucket'[k][f].stamp < pass.cutoff
            \/ pass.max > 0 /\ Cardinality(now) >= pass.max
        <5> HIDE DEF old, now
        <5>1. \/ bucket[k][f].stamp < pass.cutoff
              \/ pass.max > 0 /\ Cardinality(old) >= pass.max
          BY <4>1 DEF Spare, old
        <5> QED BY <3>1, <4>2, <4>6, <5>1
      <4>8. pass' = pass /\ FileOf(c)' = f
        BY <1>1, <2>9
      <4> QED BY <4>7, <4>8 DEF Spare, Newer
    <3> QED BY <1>1, <2>9, <3>1, <3>3, <3>4 DEF PassInv
  <2> QED BY <2>6, <2>7, <2>8, <2>11, <2>12, <2>13 DEF IInv, RetentionInv
<1> QED BY <1>4, <1>5 DEF Put

(* Deletions of a backup.                                                  *)
LEMMA DeleteInv ==
  ASSUME IInv, NEW b \in BackupIds, Delete(b) \/ DeleteRow(b)
  PROVE  IInv'
<1>1. /\ UNCHANGED <<asked, task, bucket, clock, pass, restore>>
      /\ deleting' \in SUBSET BackupIds /\ lost' \in SUBSET BackupIds
      /\ row' = row \/ row' = [row EXCEPT ![b] = None]
      /\ disk' = disk \/ disk' = [disk EXCEPT ![FileOf(b)] = None]
  BY DEF Delete, DeleteRow, IInv, TypeOK
<1>2. /\ row' \in [BackupIds -> Row \cup {None}]
      /\ \A c \in BackupIds : row'[c] = row[c] \/ row'[c] = None
      /\ disk' \in [Files -> Data \cup {None}]
      /\ \A f \in Files : disk'[f] = disk[f] \/ disk'[f] = None
  BY <1>1 DEF IInv, TypeOK
<1>3. TypeOK'
  BY <1>1, <1>2 DEF IInv, TypeOK
<1>4. OwnInv'
  BY <1>1, <1>2 DEF IInv, OwnInv, Named, BucketOf, DestOf, FileOf
<1>5. StatusInv'
  BY <1>1, <1>2 DEF IInv, StatusInv, NoneForgotten, At
<1>6. RetentionInv'
  BY <1>1, RetentionKept DEF IInv
<1> QED BY <1>3, <1>4, <1>5, <1>6 DEF IInv

-----------------------------------------------------------------------------
(* The retention.                                                          *)
(* A pass that goes on without deleting anything.                          *)
LEMMA PassAlone ==
  ASSUME IInv, UNCHANGED <<asked, task, deleting, disk, bucket, clock, restore>>,
         pass' \in [pc : {"idle", "delete", "update"}, dest : Destinations \cup {None},
                    max : MaxCounts, cutoff : Nat, keys : SUBSET Files],
         row' \in [BackupIds -> Row \cup {None}], lost' \in SUBSET BackupIds,
         \A c \in BackupIds : row'[c] # None =>
           /\ row[c] # None /\ row'[c].status = row[c].status
           /\ row'[c].key => row[c].key,
         RetentionInv'
  PROVE  IInv'
<1>1. TypeOK'
  BY DEF IInv, TypeOK
<1>2. OwnInv'
  BY DEF IInv, OwnInv, Named, BucketOf, DestOf, FileOf
<1>3. StatusInv'
  BY DEF IInv, StatusInv, NoneForgotten, At
<1> QED BY <1>1, <1>2, <1>3 DEF IInv

(* What getExpiredObjectKeys returns may go.                               *)
LEMMA ExpiredSpare ==
  ASSUME TypeOK, NEW k \in Buckets, NEW cutoff \in Nat, NEW max \in Nat,
         NEW f \in Expired(bucket[k], cutoff, max)
  PROVE  /\ f \in Files /\ bucket[k][f] # None
         /\ \/ bucket[k][f].stamp < cutoff
            \/ max > 0 /\ Cardinality(Newer(k, f)) >= max
<1> DEFINE O == bucket[k]
           old == {g \in DOMAIN O : O[g] # None /\ O[g].stamp < cutoff}
           young == {g \in DOMAIN O \ old : O[g] # None}
           newer == {g \in young : O[g].stamp > O[f].stamp}
<1>1. DOMAIN O = Files
  BY DEF TypeOK
<1>2. f \in old \/ (f \in young /\ max # 0 /\ Cardinality(newer) >= max)
  BY DEF Expired
<1>3. CASE f \in old
  BY <1>1, <1>3
<1>4. CASE f \in young /\ max # 0 /\ Cardinality(newer) >= max
  <2>1. newer \subseteq Newer(k, f)
    BY <1>1 DEF Newer
  <2>2. IsFiniteSet(Newer(k, f)) /\ IsFiniteSet(newer)
    BY <2>1, ConstantsAssumption, FS_Subset DEF Newer
  <2>3. /\ Cardinality(newer) \in Nat /\ Cardinality(Newer(k, f)) \in Nat
        /\ Cardinality(newer) <= Cardinality(Newer(k, f))
    BY <2>1, <2>2, FS_Subset, FS_CardinalityType
  <2>4. f \in Files /\ bucket[k][f] # None
    BY <1>1, <1>4
  <2> HIDE DEF newer
  <2> QED BY <1>4, <2>3, <2>4
<1> QED BY <1>2, <1>3, <1>4

LEMMA ListInv ==
  ASSUME IInv, List
  PROVE  IInv'
<1>1. PICK d \in Destinations, cutoff \in 1..(clock + 1), max \in MaxCounts :
        pass' = [pc |-> "delete", dest |-> d, max |-> max, cutoff |-> cutoff,
                 keys |-> Expired(bucket[Place[d]], cutoff, max)]
  BY DEF List
<1>2. UNCHANGED <<asked, row, task, deleting, disk, bucket, clock, restore, lost>>
  BY DEF List
<1> DEFINE k == Place[d]
           keys == Expired(bucket[k], cutoff, max)
<1>3. /\ row \in [BackupIds -> Row \cup {None}] /\ lost \in SUBSET BackupIds
      /\ k \in Buckets /\ cutoff \in Nat /\ max \in Nat
  BY ConstantsAssumption DEF IInv, TypeOK
<1>4. \A f \in keys : /\ f \in Files /\ bucket[k][f] # None
                      /\ \/ bucket[k][f].stamp < cutoff
                         \/ max > 0 /\ Cardinality(Newer(k, f)) >= max
  BY <1>3, ExpiredSpare DEF IInv
<1>5. pass' = [pc |-> "delete", dest |-> d, max |-> max, cutoff |-> cutoff, keys |-> keys]
  BY <1>1
<1> HIDE DEF keys
<1>6. pass' \in [pc : {"idle", "delete", "update"}, dest : Destinations \cup {None},
                max : MaxCounts, cutoff : Nat, keys : SUBSET Files]
  BY <1>3, <1>4, <1>5
<1>7. \A c \in BackupIds : /\ Alone(c)' = Alone(c) /\ DestOf(c)' = DestOf(c)
                           /\ FileOf(c)' = FileOf(c) /\ BucketOf(c)' = BucketOf(c)
  BY <1>2 DEF Alone, Twins, BucketOf, DestOf, FileOf
<1>8. StampInv' /\ UploadsOnce'
  BY <1>2, <1>7 DEF IInv, RetentionInv, StampInv, UploadsOnce
<1>9. \A f \in keys : /\ bucket'[k][f] # None
                      /\ \/ bucket'[k][f].stamp < pass'.cutoff
                         \/ pass'.max > 0 /\ Cardinality(Newer(k, f)) >= pass'.max
  BY <1>2, <1>4, <1>5
<1>10. \A f : Newer(k, f) = {g \in Files : bucket'[k][g] # None /\
                                          bucket'[k][g].stamp > bucket'[k][f].stamp}
  BY <1>2 DEF Newer
<1>11. PassInv'
  <2>1. pass'.dest = d /\ pass'.keys = keys
    BY <1>5
  <2> QED BY <1>7, <1>9, <1>10, <2>1 DEF PassInv, Spare, Newer
<1> QED BY <1>2, <1>3, <1>6, <1>8, <1>11, PassAlone DEF RetentionInv

LEMMA DeleteObjectsInv ==
  ASSUME IInv, DeleteObjects
  PROVE  IInv'
<1>1. PICK gone \in SUBSET pass.keys :
        /\ bucket' = Without(Place[pass.dest], gone)
        /\ \/ /\ lost' = lost \cup (Naming(gone) \ RowsOf(gone))
              /\ pass' = [IdlePass EXCEPT !.pc = "update", !.dest = pass.dest, !.keys = gone]
           \/ pass' = IdlePass /\ lost' = lost \cup Naming(gone)
  BY DEF DeleteObjects
<1>2. pass.pc = "delete" /\ UNCHANGED <<asked, row, task, deleting, disk, clock, restore>>
  BY DEF DeleteObjects
<1>3. /\ pass.dest \in Destinations /\ Place[pass.dest] \in Buckets
      /\ gone \in SUBSET Files /\ lost' \in SUBSET BackupIds
  BY <1>1, <1>2, ConstantsAssumption DEF IInv, TypeOK, RetentionInv, PassInv, Naming
<1>4. /\ pass' \in [pc : {"idle", "delete", "update"}, dest : Destinations \cup {None},
                    max : MaxCounts, cutoff : Nat, keys : SUBSET Files]
      /\ pass'.pc # "delete"
  <2> DEFINE new == [IdlePass EXCEPT !.pc = "update", !.dest = pass.dest, !.keys = gone]
  <2>1. /\ new \in [pc : {"idle", "delete", "update"}, dest : Destinations \cup {None},
                    max : MaxCounts, cutoff : Nat, keys : SUBSET Files]
        /\ new.pc = "update"
    BY <1>3, IdleType
  <2>2. pass' = new \/ pass' = IdlePass
    BY <1>1
  <2> HIDE DEF new
  <2> QED BY <2>1, <2>2, IdleType
<1>5. /\ bucket' \in [Buckets -> [Files -> Object \cup {None}]]
      /\ \A k \in Buckets, f \in Files :
           bucket'[k][f] = bucket[k][f] \/ bucket'[k][f] = None
  BY <1>1, <1>3 DEF Without, IInv, TypeOK
<1>6. TypeOK'
  BY <1>2, <1>3, <1>4, <1>5 DEF IInv, TypeOK
<1>7. OwnInv'
  BY <1>2, <1>5 DEF IInv, OwnInv, Named, BucketOf, DestOf, FileOf
<1>8. StatusInv'
  BY <1>2 DEF IInv, StatusInv, NoneForgotten, At
<1>9. RetentionInv'
  <2>1. StampInv'
    BY <1>2, <1>5 DEF IInv, RetentionInv, StampInv
  <2>2. ASSUME NEW c \in BackupIds, asked[c] # None
        PROVE  /\ FileOf(c) \in Files /\ FileOf(c)' = FileOf(c) /\ DestOf(c)' = DestOf(c)
               /\ Alone(c)' = Alone(c) /\ BucketOf(c)' = BucketOf(c)
               /\ DestOf(c) # None => BucketOf(c) \in Buckets
    BY <1>2, <2>2, ConstantsAssumption
       DEF IInv, TypeOK, Request, FileOf, DestOf, BucketOf, Alone, Twins
  <2>3. UploadsOnce'
    BY <1>2, <1>5, <2>2 DEF IInv, RetentionInv, UploadsOnce
  <2>4. PassInv'
    BY <1>4 DEF PassInv
  <2> QED BY <2>1, <2>3, <2>4 DEF RetentionInv
<1> QED BY <1>6, <1>7, <1>8, <1>9 DEF IInv

LEMMA UpdateRowsInv ==
  ASSUME IInv, UpdateRows
  PROVE  IInv'
<1>1. /\ pass' = IdlePass
      /\ row' = Cleared(pass.keys) \/ row' = row
      /\ lost' = lost \/ lost' = lost \cup RowsOf(pass.keys)
      /\ UNCHANGED <<asked, task, deleting, disk, bucket, clock, restore>>
  BY DEF UpdateRows
<1>2. lost' \in SUBSET BackupIds /\ row \in [BackupIds -> Row \cup {None}]
  BY <1>1 DEF IInv, TypeOK, RowsOf, Naming
<1>3. ASSUME NEW c \in BackupIds, c \in RowsOf(pass.keys)
      PROVE  LET new == [row[c] EXCEPT !.key = FALSE]
             IN new \in Row /\ new.status = row[c].status /\ ~new.key /\ row[c] # None
  <2>1. row[c] \in Row /\ row[c] # None
    BY <1>2, <1>3 DEF RowsOf, Naming
  <2> QED BY <2>1 DEF Row
<1>4. ASSUME NEW c \in BackupIds
      PROVE  /\ Cleared(pass.keys)[c] \in Row \cup {None}
             /\ Cleared(pass.keys)[c] # None =>
                  /\ row[c] # None /\ Cleared(pass.keys)[c].status = row[c].status
                  /\ Cleared(pass.keys)[c].key => row[c].key
  BY <1>2, <1>3 DEF Cleared
<1>5. /\ row' \in [BackupIds -> Row \cup {None}]
      /\ \A c \in BackupIds : row'[c] # None =>
           /\ row[c] # None /\ row'[c].status = row[c].status
           /\ row'[c].key => row[c].key
  <2>1. Cleared(pass.keys) = [c \in BackupIds |-> Cleared(pass.keys)[c]]
    BY DEF Cleared
  <2> QED BY <1>1, <1>2, <1>4, <2>1
<1>6. RetentionInv'
  BY <1>1, <1>2, IdleType, RetentionKept DEF IInv
<1> QED BY <1>1, <1>2, <1>5, <1>6, IdleType, PassAlone

-----------------------------------------------------------------------------
(* Restores.                                                               *)
LEMMA RestoreAlone ==
  ASSUME IInv, NEW r \in Restores,
         UNCHANGED <<asked, row, task, deleting, disk, bucket, clock, pass, lost>>,
         NEW new \in [pc : RestoreSteps, backup : BackupIds \cup {None},
                      key : BOOLEAN, of : BackupIds \cup {None}],
         restore' = [restore EXCEPT ![r] = new],
         new.pc # "none" => new.backup # None /\ asked[new.backup] # None,
         new.pc # "none" /\ new.key => DestOf(new.backup) # None,
         new.pc = "remove" => new.of # None /\ Named(new, FileOf(new.backup))
  PROVE  IInv'
<1>1. TypeOK'
  BY DEF IInv, TypeOK
<1>2. \A q \in Restores : restore'[q] = IF q = r THEN new ELSE restore[q]
  BY DEF IInv, TypeOK
<1>3. OwnInv'
  BY <1>2 DEF IInv, OwnInv, Named, BucketOf, DestOf, FileOf
<1>4. StatusInv'
  BY DEF IInv, StatusInv, NoneForgotten, At
<1>5. RetentionInv'
  BY RetentionKept DEF IInv
<1> QED BY <1>1, <1>3, <1>4, <1>5 DEF IInv

LEMMA NoLongerInv ==
  ASSUME IInv, NEW r \in Restores, NoLonger(r),
         UNCHANGED <<asked, row, task, deleting, disk, bucket, clock, pass, lost>>
  PROVE  IInv'
<1>1. /\ NoRestore \in [pc : RestoreSteps, backup : BackupIds \cup {None},
                        key : BOOLEAN, of : BackupIds \cup {None}]
      /\ NoRestore.pc = "none"
  BY DEF NoRestore, RestoreSteps
<1> QED BY <1>1, RestoreAlone DEF NoLonger

LEMMA RestoreInv ==
  ASSUME IInv, NEW r \in Restores, BeginRestore(r) \/ Restore(r)
  PROVE  IInv'
<1>1. UNCHANGED <<asked, row, task, deleting, disk, bucket, clock, pass, lost>>
  BY DEF BeginRestore, Restore, RunRestore, RemoveHydrated
<1>2. CASE BeginRestore(r)
  <2>1. PICK b \in BackupIds :
          /\ row[b] # None
          /\ restore' = [restore EXCEPT ![r] =
               [pc |-> "run", backup |-> b, key |-> row[b].key, of |-> None]]
    BY <1>2 DEF BeginRestore
  <2> DEFINE new == [pc |-> "run", backup |-> b, key |-> row[b].key, of |-> None]
  <2>2. /\ row[b].key \in BOOLEAN /\ asked[b] # None /\ b # None
        /\ row[b].key => DestOf(b) # None
    BY <2>1, ConstantsAssumption DEF IInv, TypeOK, OwnInv, Row
  <2>3. /\ new \in [pc : RestoreSteps, backup : BackupIds \cup {None},
                    key : BOOLEAN, of : BackupIds \cup {None}]
        /\ new.backup = b /\ new.pc = "run" /\ new.key = row[b].key
    BY <2>2 DEF RestoreSteps
  <2>4. restore' = [restore EXCEPT ![r] = new]
    BY <2>1
  <2> HIDE DEF new
  <2> QED BY <1>1, <2>2, <2>3, <2>4, RestoreAlone
<1>3. CASE RunRestore(r)
  <2> DEFINE b == restore[r].backup
             data == IF restore[r].key THEN ObjectOf(b) ELSE disk[FileOf(b)]
             new == [restore[r] EXCEPT !.pc = "remove", !.of = data.of]
  <2>1. /\ restore[r].pc = "run"
        /\ \/ data # None
              /\ restore' = [restore EXCEPT ![r].pc = "remove", ![r].of = data.of]
           \/ NoLonger(r)
    BY <1>3 DEF RunRestore
  <2>2. b \in BackupIds /\ asked[b] # None /\ b # None
    BY <2>1 DEF IInv, OwnInv, TypeOK
  <2>3. /\ FileOf(b) \in Files
        /\ restore[r].key => DestOf(b) # None /\ BucketOf(b) \in Buckets
    <3>1. restore[r].key => DestOf(b) # None
      BY <2>1 DEF IInv, OwnInv
    <3> QED BY <2>2, <3>1, ConstantsAssumption
            DEF IInv, TypeOK, Request, FileOf, DestOf, BucketOf
  <2>4. CASE data # None /\ restore' = [restore EXCEPT ![r].pc = "remove", ![r].of = data.of]
    <3>1. data.of \in BackupIds /\ Named(data, FileOf(b))
      <4>1. CASE restore[r].key
        BY <2>3, <2>4, <4>1 DEF ObjectOf, IInv, TypeOK, OwnInv, Object
      <4>2. CASE ~restore[r].key
        BY <2>3, <2>4, <4>2 DEF IInv, TypeOK, OwnInv, Data
      <4> QED BY <4>1, <4>2
    <3> DEFINE c == data.of
    <3>2. c \in BackupIds /\ c # None /\ asked[c] # None /\ asked[c].file = FileOf(b)
      BY <3>1, ConstantsAssumption DEF Named
    <3>3. new = [restore[r] EXCEPT !.pc = "remove", !.of = c]
      OBVIOUS
    <3>4. restore' = [restore EXCEPT ![r] = new]
      BY <2>4
    <3> HIDE DEF c, new
    <3>5. /\ new \in [pc : RestoreSteps, backup : BackupIds \cup {None},
                      key : BOOLEAN, of : BackupIds \cup {None}]
          /\ new.backup = b /\ new.key = restore[r].key /\ new.of = c
      BY <3>2, <3>3 DEF IInv, TypeOK, RestoreSteps
    <3>6. Named(new, FileOf(new.backup))
      BY <3>2, <3>5 DEF Named
    <3> QED BY <1>1, <2>2, <2>3, <3>2, <3>4, <3>5, <3>6, RestoreAlone
  <2> QED BY <1>1, <2>1, <2>4, NoLongerInv
<1>4. CASE RemoveHydrated(r)
  BY <1>1, <1>4, NoLongerInv DEF RemoveHydrated
<1> QED BY <1>2, <1>3, <1>4 DEF Restore

-----------------------------------------------------------------------------
LEMMA InvStep == IInv /\ [Next]_vars => IInv'
<1> SUFFICES ASSUME IInv, [Next]_vars PROVE IInv'
  OBVIOUS
<1>1. ASSUME NEW b \in BackupIds, Create(b) \/ Task(b) \/ Delete(b) \/ DeleteRow(b)
      PROVE  IInv'
  BY <1>1, CreateInv, TaskInv, ReadInv, PutInv, FailInv, DeleteInv DEF Task
<1>2. CASE Pass
  BY <1>2, ListInv, DeleteObjectsInv, UpdateRowsInv DEF Pass
<1>3. ASSUME NEW r \in Restores, BeginRestore(r) \/ Restore(r)
      PROVE  IInv'
  BY <1>3, RestoreInv
<1>4. CASE Crash
  BY <1>4, DiedInv DEF Crash
<1>5. CASE UNCHANGED vars
  <2>1. RetentionInv'
    BY <1>5, RetentionKept DEF vars, IInv
  <2>2. row \in [BackupIds -> Row \cup {None}] /\ lost \in SUBSET BackupIds
        /\ pass \in [pc : {"idle", "delete", "update"}, dest : Destinations \cup {None},
              max : MaxCounts, cutoff : Nat, keys : SUBSET Files]
    BY DEF IInv, TypeOK
  <2> QED BY <1>5, <2>1, <2>2, PassAlone DEF vars
<1> QED BY <1>1, <1>2, <1>3, <1>4, <1>5 DEF Next

(* The invariant holds in every state of every behaviour of the module.    *)
THEOREM Invariant == Spec => []IInv
<1> QED BY InvInit, InvStep, PTL DEF Spec

(* Every variable of the backups keeps its type.                           *)
THEOREM TypeCorrect == Spec => []TypeOK
<1>1. IInv => TypeOK
  BY DEF IInv
<1> QED BY <1>1, Invariant, PTL

(* A row is RUNNING only while its task is under way, or died.             *)
THEOREM NoRowForgotten == Spec => []NoneForgotten
<1>1. IInv => NoneForgotten
  BY DEF IInv, StatusInv
<1> QED BY <1>1, Invariant, PTL

(* A restore puts back the data of its backup, or of one of the same name. *)
THEOREM RestoredIsOwn == Spec => []RestoresOwnData
<1>1. ASSUME IInv PROVE RestoresOwnData
  BY <1>1 DEF IInv, OwnInv, Named, RestoresOwnData, Twins, FileOf
<1> QED BY <1>1, Invariant, PTL

(* The retention deletes only what is old or has enough newer objects      *)
(* beside it at that moment.                                               *)
THEOREM NewestKept == Spec => KeepsNewest
<1> DEFINE Kept ==
      \A b \in BackupIds : asked[b] # None /\ DestOf(b) # None =>
        LET k == BucketOf(b)
            object == bucket[k][FileOf(b)]
            newer == {f \in Files : bucket[k][f] # None /\ bucket[k][f].stamp > object.stamp}
        IN Alone(b) /\ object # None /\ bucket'[k][FileOf(b)] = None =>
           \/ object.stamp < pass.cutoff
           \/ pass.max > 0 /\ Cardinality(newer) >= pass.max
<1>1. ASSUME IInv, Next, NEW b \in BackupIds, NEW k \in Buckets,
             asked[b] # None, DestOf(b) # None, BucketOf(b) = k, Alone(b),
             bucket[k][FileOf(b)] # None, bucket'[k][FileOf(b)] = None
      PROVE  Spare(k, FileOf(b))
  <2>1. bucket' # bucket
    BY <1>1
  <2>2. DeleteObjects \/ \E c \in BackupIds : Put(c)
    BY <1>1, <2>1 DEF Next, Create, Task, NotStarted, BeginWrite, EndWrite, Read, Head, Complete,
       Notify, Fail, Delete, DeleteRow, Pass, List, UpdateRows, BeginRestore, Restore,
       RunRestore, RemoveHydrated, Crash
  <2>3. FileOf(b) \in Files
    BY <1>1 DEF IInv, TypeOK, Request, FileOf
  <2>4. CASE DeleteObjects
    <3>1. PICK gone \in SUBSET pass.keys : bucket' = Without(Place[pass.dest], gone)
      BY <2>4 DEF DeleteObjects
    <3>2. pass.pc = "delete"
      BY <2>4 DEF DeleteObjects
    <3>3. Place[pass.dest] \in Buckets
      BY <1>1, <3>2, ConstantsAssumption DEF IInv, RetentionInv, PassInv
    <3>4. k = Place[pass.dest] /\ FileOf(b) \in gone
      BY <1>1, <2>3, <3>1, <3>3 DEF Without, IInv, TypeOK
    <3> QED BY <1>1, <3>1, <3>2, <3>4 DEF IInv, RetentionInv, PassInv
  <2>5. ASSUME NEW c \in BackupIds, Put(c)
        PROVE  FALSE
    <3>1. asked[c] # None /\ task[c].pc = "put" /\ BucketOf(c) \in Buckets
          /\ FileOf(c) \in Files
      <4>1. task[c].pc = "put"
        BY <2>5 DEF Put, At
      <4>2. asked[c] # None /\ DestOf(c) # None
        BY <1>1, <4>1 DEF IInv, OwnInv
      <4> QED BY <1>1, <4>1, <4>2, ConstantsAssumption
              DEF IInv, TypeOK, Request, DestOf, BucketOf, FileOf
    <3>2. c # b
      BY <1>1, <3>1 DEF IInv, RetentionInv, UploadsOnce, Before
    <3>3. FileOf(c) # FileOf(b)
      BY <1>1, <3>1, <3>2 DEF Alone, Twins
    <3>4. bucket'[k][FileOf(b)] = bucket[k][FileOf(b)]
      <4> DEFINE new == [of |-> task[c].body.of, state |-> task[c].body.state,
                         stamp |-> clock + 1]
      <4>1. bucket' = [bucket EXCEPT ![BucketOf(c)][FileOf(c)] = new] \/ bucket' = bucket
        BY <2>5 DEF Put
      <4>2. bucket \in [Buckets -> [Files -> Object \cup {None}]]
        BY <1>1 DEF IInv, TypeOK
      <4> HIDE DEF new
      <4> QED BY <2>3, <3>1, <3>3, <4>1, <4>2
    <3> QED BY <1>1, <3>4
  <2> QED BY <2>2, <2>4, <2>5
<1>2. IInv /\ [Next]_vars => [Kept]_vars
  <2> SUFFICES ASSUME IInv, Next, NEW b \in BackupIds, asked[b] # None, DestOf(b) # None,
                      Alone(b), bucket[BucketOf(b)][FileOf(b)] # None,
                      bucket'[BucketOf(b)][FileOf(b)] = None
               PROVE  Spare(BucketOf(b), FileOf(b))
    BY DEF Spare, Newer
  <2>1. BucketOf(b) \in Buckets
    BY ConstantsAssumption DEF IInv, TypeOK, Request, DestOf, BucketOf
  <2> QED BY <1>1, <2>1
<1> QED BY <1>2, Invariant, PTL DEF Spec, KeepsNewest

-----------------------------------------------------------------------------
(* What there is of the data of a backup that shares its name with no      *)
(* other, at each step of its task and once its row is COMPLETED: the file *)
(* is as its command left it as soon as its archive is written, and so is  *)
(* what is uploaded; where it is missing, somebody removed it and the row  *)
(* goes, is to be cleared, or the removal never came to its end.           *)
Underway == Before \cup {"head", "complete"}
Written == {"read", "put", "head", "complete"}
Finished(b) == row[b] # None /\ row[b].status = "COMPLETED"

DataOf(b) ==
  /\ row[b] # None /\ task[b].pc \in Underway => row[b].status = "RUNNING" /\ ~row[b].key
  /\ disk[FileOf(b)] = None \/ disk[FileOf(b)].state \in Ends(b) \cup {"open"}
  /\ task[b].pc \in Written \/ Finished(b) =>
       disk[FileOf(b)] = None \/ disk[FileOf(b)].state \in Ends(b)
  /\ row[b] # None /\ DestOf(b) = None /\ (At(b, "complete") \/ Finished(b)) =>
       disk[FileOf(b)] # None \/ b \in deleting \cup lost
  /\ At(b, "put") => task[b].body.state \in Ends(b)
  /\ DestOf(b) # None =>
       bucket[BucketOf(b)][FileOf(b)] = None \/ bucket[BucketOf(b)][FileOf(b)].state \in Ends(b)
  /\ row[b] # None /\ row[b].key =>
       bucket[BucketOf(b)][FileOf(b)] # None \/ b \in lost \cup Interrupted

DataInv == \A b \in BackupIds : asked[b] # None /\ Alone(b) => DataOf(b)

(* A step of other tasks, or of a removal: a row may fail, lose its key or *)
(* go; data may go if the row that promises it is accounted for.           *)
Steady(b) ==
  /\ asked'[b] = asked[b]
  /\ row'[b] # None => /\ row[b] # None /\ row'[b].status \in {row[b].status, "FAILED"}
                       /\ task'[b].pc \in Underway => row'[b].status = row[b].status
                       /\ row'[b].key => row[b].key
  /\ task'[b].pc \in Underway => task[b].pc \in Underway
  /\ task'[b].pc \in Written => task[b].pc \in Written
  /\ task'[b].pc = "put" => task'[b] = task[b]
  /\ task'[b].pc = "complete" => task[b].pc = "complete" \/ DestOf(b) # None
  /\ \/ disk'[FileOf(b)] = disk[FileOf(b)]
     \/ disk'[FileOf(b)] = None /\ (DestOf(b) # None \/ b \in deleting')
  /\ row'[b] # None /\ b \in deleting \cup lost => b \in deleting' \cup lost'
  /\ DestOf(b) # None =>
       \/ bucket'[BucketOf(b)][FileOf(b)] = bucket[BucketOf(b)][FileOf(b)]
       \/ /\ bucket'[BucketOf(b)][FileOf(b)] = None
          /\ row'[b] # None /\ row'[b].key => b \in lost' \cup Interrupted'
  /\ row'[b] # None /\ row'[b].key /\ b \in lost \cup Interrupted =>
       b \in lost' \cup Interrupted'

LEMMA SteadyKeeps ==
  ASSUME IInv, NEW b \in BackupIds, DataOf(b), Steady(b)
  PROVE  DataOf(b)'
<1>1. /\ DestOf(b)' = DestOf(b) /\ FileOf(b)' = FileOf(b)
      /\ BucketOf(b)' = BucketOf(b) /\ Ends(b)' = Ends(b)
      /\ row[b] # None /\ row[b].key => DestOf(b) # None
  BY DEF Steady, BucketOf, DestOf, FileOf, Ends, IInv, OwnInv
<1>2. Finished(b)' => Finished(b)
  BY DEF Steady, Finished
<1>3. Finished(b) \/ task[b].pc \in Written =>
        disk'[FileOf(b)] = None \/ disk'[FileOf(b)].state \in Ends(b)
  BY DEF Steady, DataOf
<1>4. row'[b] # None /\ DestOf(b) = None /\ (task'[b].pc = "complete" \/ Finished(b)') =>
        disk'[FileOf(b)] # None \/ b \in deleting' \cup lost'
  BY <1>2 DEF Steady, DataOf, At
<1>5. row'[b] # None /\ row'[b].key =>
        bucket'[BucketOf(b)][FileOf(b)] # None \/ b \in lost' \cup Interrupted'
  BY <1>1 DEF Steady, DataOf
<1>6. DestOf(b) # None =>
        bucket'[BucketOf(b)][FileOf(b)] = None \/ bucket'[BucketOf(b)][FileOf(b)].state \in Ends(b)
  BY DEF Steady, DataOf
<1>7. /\ row'[b] # None /\ task'[b].pc \in Underway =>
           row'[b].status = "RUNNING" /\ ~row'[b].key
      /\ task'[b].pc = "put" => task'[b].body.state \in Ends(b)
      /\ disk'[FileOf(b)] = None \/ disk'[FileOf(b)].state \in Ends(b) \cup {"open"}
      /\ task'[b].pc \in Written => task[b].pc \in Written
  BY DEF Steady, DataOf, At
<1> QED BY <1>1, <1>2, <1>3, <1>4, <1>5, <1>6, <1>7 DEF DataOf, At

LEMMA DataStep ==
  ASSUME DataInv, asked' = asked,
         \A c \in BackupIds : asked[c] # None /\ Alone(c) /\ DataOf(c) => DataOf(c)'
  PROVE  DataInv'
<1>1. \A c \in BackupIds : Alone(c)' = Alone(c)
  BY DEF Alone, Twins, FileOf
<1> QED BY <1>1 DEF DataInv

(* Under such a name lies nothing else.                                    *)
LEMMA OwnData ==
  ASSUME IInv, NEW b \in BackupIds, asked[b] # None, Alone(b)
  PROVE  /\ FileOf(b) \in Files /\ (DestOf(b) # None => BucketOf(b) \in Buckets)
         /\ disk[FileOf(b)] # None => disk[FileOf(b)] \in Data /\ disk[FileOf(b)].of = b
         /\ task[b].body # None => task[b].body \in Data /\ task[b].body.of = b
         /\ DestOf(b) # None /\ bucket[BucketOf(b)][FileOf(b)] # None =>
              bucket[BucketOf(b)][FileOf(b)].of = b
         /\ \A c \in BackupIds \ {b} : asked[c] # None => FileOf(c) # FileOf(b)
<1>1. FileOf(b) \in Files /\ (DestOf(b) # None => BucketOf(b) \in Buckets)
  BY ConstantsAssumption DEF IInv, TypeOK, Request, FileOf, DestOf, BucketOf
<1>2. ASSUME NEW data, Named(data, FileOf(b)), data.of \in BackupIds
      PROVE  data.of = b
  BY <1>2 DEF Named, Alone, Twins, FileOf
<1>3. disk[FileOf(b)] # None => disk[FileOf(b)] \in Data /\ disk[FileOf(b)].of = b
  BY <1>1, <1>2 DEF IInv, TypeOK, OwnInv, Data
<1>4. task[b].body # None => task[b].body \in Data /\ task[b].body.of = b
  BY <1>2 DEF IInv, TypeOK, OwnInv, Data
<1>5. DestOf(b) # None /\ bucket[BucketOf(b)][FileOf(b)] # None =>
        bucket[BucketOf(b)][FileOf(b)].of = b
  BY <1>1, <1>2 DEF IInv, TypeOK, OwnInv, Object
<1>6. \A c \in BackupIds \ {b} : asked[c] # None => FileOf(c) # FileOf(b)
  BY DEF Alone, Twins
<1> QED BY <1>1, <1>3, <1>4, <1>5, <1>6

(* Rows of which a pass has deleted the objects, one by one                *)
LEMMA InterruptedRows ==
  ASSUME NEW b \in BackupIds
  PROVE  b \in Interrupted <=>
           /\ pass.pc = "update" /\ row[b] # None /\ row[b].key
           /\ DestOf(b) = pass.dest /\ FileOf(b) \in pass.keys
BY DEF Interrupted, RowsOf, Naming, BucketOf

-----------------------------------------------------------------------------
(* A step of the task of b leaves the data of every other name alone.      *)
LEMMA OthersSteady ==
  ASSUME IInv, NEW b \in BackupIds, asked[b] # None, NEW c \in BackupIds \ {b},
         asked[c] # None, Alone(c), DataOf(c),
         asked' = asked, row'[c] = row[c], task'[c] = task[c], pass' = pass,
         c \in deleting => c \in deleting', c \in lost => c \in lost',
         \A f \in Files \ {FileOf(b)} : disk'[f] = disk[f],
         \A k \in Buckets, f \in Files \ {FileOf(b)} : bucket'[k][f] = bucket[k][f]
  PROVE  DataOf(c)'
<1>1. /\ FileOf(c) \in Files \ {FileOf(b)}
      /\ DestOf(c) # None => BucketOf(c) \in Buckets
  BY OwnData
<1>2. c \in Interrupted => c \in Interrupted'
  BY InterruptedRows DEF Interrupted, RowsOf, Naming, BucketOf, DestOf, FileOf
<1>3. Steady(c)
  BY <1>1, <1>2 DEF Steady
<1> QED BY <1>3, SteadyKeeps

LEMMA Went ==
  ASSUME IInv, NEW b \in BackupIds, NEW step \in Steps, Goto(b, step)
  PROVE  /\ task'[b].pc = step /\ task'[b].body = None
         /\ \A c \in BackupIds \ {b} : task'[c] = task[c]
  BY GotoType DEF IInv

(* The archive is written by the only task that has a name for it.         *)
LEMMA WriteData ==
  ASSUME IInv, DataInv, NEW b \in BackupIds, BeginWrite(b) \/ EndWrite(b)
  PROVE  DataInv'
<1>1. /\ asked[b] # None /\ asked' = asked /\ row' = row /\ bucket' = bucket /\ pass' = pass
      /\ deleting' = deleting /\ lost' = lost
      /\ At(b, "created") \/ At(b, "writing")
      /\ FileOf(b) \in Files
  BY DEF BeginWrite, EndWrite, At, IInv, OwnInv, TypeOK, Request, FileOf
<1>2. PICK step \in {"writing", "read", "error"} : Goto(b, step) /\ (step = "read" => EndWrite(b))
  BY DEF BeginWrite, EndWrite
<1>3. /\ task'[b].pc = step
      /\ \A c \in BackupIds \ {b} : task'[c] = task[c]
  BY <1>2, Went DEF Steps
<1>4. \A f \in Files \ {FileOf(b)} : disk'[f] = disk[f]
  BY <1>1 DEF BeginWrite, EndWrite, IInv, TypeOK
<1>5. ASSUME Alone(b), DataOf(b)
      PROVE  DataOf(b)'
  <2>1. row[b] # None => row[b].status = "RUNNING" /\ ~row[b].key
    BY <1>1, <1>5 DEF DataOf, Underway, Before, At
  <2>2. step = "read" => disk'[FileOf(b)] = None \/ disk'[FileOf(b)].state \in Ends(b)
    <3> SUFFICES ASSUME step = "read" PROVE disk'[FileOf(b)] = None \/ disk'[FileOf(b)].state \in Ends(b)
      OBVIOUS
    <3> DEFINE f == FileOf(b)
               data == disk[f]
    <3>1. IF data = [of |-> b, state |-> "open"]
          THEN \E end \in Ends(b) : disk' = [disk EXCEPT ![f].state = end]
          ELSE disk' = disk
      <4>1. Goto(b, "error") => task'[b].pc = "error"
        BY Went DEF Steps
      <4> QED BY <1>2, <1>3, <4>1 DEF EndWrite
    <3>2. CASE data = [of |-> b, state |-> "open"]
      <4>1. PICK end \in Ends(b) : disk' = [disk EXCEPT ![f].state = end]
        BY <3>1, <3>2
      <4> DEFINE new == [data EXCEPT !.state = end]
      <4>2. new.state = end
        BY <3>2
      <4>3. disk' = [disk EXCEPT ![f] = new]
        BY <4>1
      <4> HIDE DEF new
      <4> QED BY <1>1, <4>2, <4>3 DEF IInv, TypeOK
    <3>3. CASE data # [of |-> b, state |-> "open"]
      <4>1. disk' = disk
        BY <3>1, <3>3
      <4>2. data # None => data \in Data /\ data.of = b
        BY <1>1, <1>5, OwnData
      <4>3. data # None => data.state # "open"
        BY <3>3, <4>2 DEF Data
      <4>4. data = None \/ data.state \in Ends(b) \cup {"open"}
        BY <1>5 DEF DataOf
      <4> QED BY <4>1, <4>3, <4>4
    <3> QED BY <3>2, <3>3
  <2>3. /\ DestOf(b)' = DestOf(b) /\ FileOf(b)' = FileOf(b)
        /\ BucketOf(b)' = BucketOf(b) /\ Ends(b)' = Ends(b)
    BY <1>1 DEF DestOf, FileOf, BucketOf, Ends
  <2>4. disk'[FileOf(b)] = None \/ disk'[FileOf(b)].state \in Ends(b) \cup {"open"}
    <3>1. \/ disk' = disk
          \/ disk' = [disk EXCEPT ![FileOf(b)] = [of |-> b, state |-> "open"]]
          \/ \E end \in Ends(b) :
               /\ disk[FileOf(b)] = [of |-> b, state |-> "open"]
               /\ disk' = [disk EXCEPT ![FileOf(b)].state = end]
      BY DEF BeginWrite, EndWrite
    <3>2. disk \in [Files -> Data \cup {None}]
      BY DEF IInv, TypeOK
    <3>3. CASE disk' = disk
      BY <1>5, <3>3 DEF DataOf
    <3>4. CASE disk' = [disk EXCEPT ![FileOf(b)] = [of |-> b, state |-> "open"]]
      BY <1>1, <3>2, <3>4
    <3>5. ASSUME NEW end \in Ends(b), disk[FileOf(b)] = [of |-> b, state |-> "open"],
                 disk' = [disk EXCEPT ![FileOf(b)].state = end]
          PROVE  disk'[FileOf(b)].state = end
      BY <1>1, <3>2, <3>5
    <3> QED BY <3>1, <3>3, <3>4, <3>5
  <2> QED BY <1>1, <1>3, <1>5, <2>1, <2>2, <2>3, <2>4 DEF DataOf, Finished, Written, Underway, Before, At
<1>6. ASSUME NEW c \in BackupIds \ {b}, asked[c] # None, Alone(c), DataOf(c)
      PROVE  DataOf(c)'
  BY <1>1, <1>3, <1>4, <1>6, OthersSteady
<1> QED BY <1>1, <1>5, <1>6, DataStep

(* It is read and put in the bucket as it is.                              *)
LEMMA UploadData ==
  ASSUME IInv, DataInv, NEW b \in BackupIds, Read(b) \/ Put(b)
  PROVE  DataInv'
<1>1. /\ asked[b] # None /\ asked' = asked /\ row' = row /\ disk' = disk /\ pass' = pass
      /\ deleting' = deleting /\ lost' = lost
      /\ FileOf(b) \in Files /\ task[b].pc \in {"read", "put"}
  BY DEF Read, Put, At, IInv, OwnInv, TypeOK, Request, FileOf
<1>2. /\ task'[b].pc \in {"put", "complete", "head", "error"}
      /\ task'[b].pc = "put" => Read(b) /\ disk[FileOf(b)] # None
                                /\ task'[b].body = disk[FileOf(b)]
      /\ task'[b].pc = "complete" => Read(b) /\ disk[FileOf(b)] # None
      /\ \A c \in BackupIds \ {b} : task'[c] = task[c]
  <2>1. ASSUME NEW step \in {"complete", "error", "head"}, Goto(b, step)
        PROVE  task'[b].pc = step /\ \A c \in BackupIds \ {b} : task'[c] = task[c]
    BY <2>1, Went DEF Steps
  <2>2. CASE Read(b) /\ task' = [task EXCEPT ![b] = [pc |-> "put", body |-> disk[FileOf(b)]]]
    <3>1. disk[FileOf(b)] # None \/ Goto(b, "error")
      BY <2>2 DEF Read
    <3>2. task'[b] = [pc |-> "put", body |-> disk[FileOf(b)]]
          /\ \A c \in BackupIds \ {b} : task'[c] = task[c]
      BY <2>2 DEF IInv, TypeOK
    <3> QED BY <2>1, <2>2, <3>1, <3>2
  <2>3. CASE Read(b) /\ ((Goto(b, "complete") /\ disk[FileOf(b)] # None) \/ Goto(b, "error"))
    BY <2>1, <2>3
  <2>4. CASE Put(b)
    BY <2>1, <2>4 DEF Put
  <2> QED BY <2>2, <2>3, <2>4 DEF Read
<1>3. ASSUME NEW k \in Buckets, NEW f \in Files \ {FileOf(b)}
      PROVE  bucket'[k][f] = bucket[k][f]
  BY DEF Read, Put, IInv, TypeOK
<1>4. ASSUME Alone(b), DataOf(b)
      PROVE  DataOf(b)'
  <2>1. row[b] # None => row[b].status = "RUNNING" /\ ~row[b].key
    BY <1>1, <1>4 DEF DataOf, Underway, Before, At
  <2>2. disk[FileOf(b)] = None \/ disk[FileOf(b)].state \in Ends(b)
    BY <1>1, <1>4 DEF DataOf, Written
  <2>3. DestOf(b) # None =>
          bucket'[BucketOf(b)][FileOf(b)] = None \/ bucket'[BucketOf(b)][FileOf(b)].state \in Ends(b)
    <3>1. CASE bucket' = bucket
      BY <1>4, <3>1 DEF DataOf
    <3>2. CASE bucket' # bucket
      <4> DEFINE object == [of |-> task[b].body.of, state |-> task[b].body.state,
                            stamp |-> clock + 1]
      <4>1. bucket' = [bucket EXCEPT ![BucketOf(b)][FileOf(b)] = object] /\ At(b, "put")
        BY <3>2 DEF Read, Put
      <4>2. object.state \in Ends(b)
        BY <1>4, <4>1 DEF DataOf
      <4>3. DestOf(b) # None => BucketOf(b) \in Buckets
        BY <1>1, <1>4, OwnData
      <4> HIDE DEF object
      <4> QED BY <1>1, <4>1, <4>2, <4>3 DEF IInv, TypeOK
    <3> QED BY <3>1, <3>2
  <2>4. /\ DestOf(b)' = DestOf(b) /\ FileOf(b)' = FileOf(b)
        /\ BucketOf(b)' = BucketOf(b) /\ Ends(b)' = Ends(b)
    BY <1>1 DEF DestOf, FileOf, BucketOf, Ends
  <2> QED BY <1>1, <1>2, <1>4, <2>1, <2>2, <2>3, <2>4 DEF DataOf, Finished, At
<1>5. ASSUME NEW c \in BackupIds \ {b}, asked[c] # None, Alone(c), DataOf(c)
      PROVE  DataOf(c)'
  BY <1>1, <1>2, <1>3, <1>5, OthersSteady
<1> QED BY <1>1, <1>4, <1>5, DataStep

(* The object is there, the file on the server may go.                     *)
LEMMA HeadData ==
  ASSUME IInv, DataInv, NEW b \in BackupIds, Head(b)
  PROVE  DataInv'
<1>1. /\ asked[b] # None /\ asked' = asked /\ row' = row /\ bucket' = bucket /\ pass' = pass
      /\ deleting' = deleting /\ lost' = lost
      /\ FileOf(b) \in Files /\ task[b].pc = "head" /\ DestOf(b) # None
      /\ disk' \in {disk, [disk EXCEPT ![FileOf(b)] = None]}
  BY DEF Head, At, IInv, OwnInv, TypeOK, Request, FileOf
<1>2. PICK step \in {"complete", "error"} : Goto(b, step)
  BY DEF Head
<1>3. task'[b].pc = step /\ \A c \in BackupIds \ {b} : task'[c] = task[c]
  BY <1>2, Went DEF Steps
<1>4. /\ \A f \in Files \ {FileOf(b)} : disk'[f] = disk[f]
      /\ disk'[FileOf(b)] \in {disk[FileOf(b)], None}
  BY <1>1 DEF IInv, TypeOK
<1>5. Alone(b) /\ DataOf(b) => DataOf(b)'
  <2>1. b \in Interrupted => b \in Interrupted'
    BY <1>1, InterruptedRows DEF Interrupted, RowsOf, Naming, BucketOf, DestOf, FileOf
  <2>2. Steady(b)
    BY <1>1, <1>3, <1>4, <2>1 DEF Steady, Written, Underway, Before
  <2> QED BY <2>2, SteadyKeeps
<1>6. ASSUME NEW c \in BackupIds \ {b}, asked[c] # None, Alone(c), DataOf(c)
      PROVE  DataOf(c)'
  BY <1>1, <1>3, <1>4, <1>6, OthersSteady
<1> QED BY <1>1, <1>5, <1>6, DataStep

(* The row is completed: with the file that its command left, or whose     *)
(* removal is under way or was given up; with its object, or one that a    *)
(* pass has deleted and is about to clear, or never will.                  *)
LEMMA CompleteData ==
  ASSUME IInv, DataInv, NEW b \in BackupIds, Complete(b)
  PROVE  DataInv'
<1>1. /\ asked[b] # None /\ asked' = asked /\ bucket' = bucket /\ pass' = pass
      /\ deleting' = deleting /\ disk' = disk /\ task[b].pc = "complete"
      /\ \A c \in lost : c \in lost'
  BY DEF Complete, At, IInv, OwnInv
<1>2. PICK step \in {"notify", "error"} :
        /\ Goto(b, step)
        /\ step = "notify" =>
             /\ row[b] # None /\ row' = Completed(b)
             /\ lost' = IF DestOf(b) # None /\ bucket[BucketOf(b)][FileOf(b)] = None /\
                             ~(pass.pc = "update" /\ pass.dest = DestOf(b)
                                 /\ FileOf(b) \in pass.keys)
                        THEN lost \cup {b} ELSE lost
        /\ step = "error" => row' = row
  BY DEF Complete
<1>3. task'[b].pc = step /\ \A c \in BackupIds \ {b} : task'[c] = task[c]
  BY <1>2, Went DEF Steps
<1>4. \A c \in BackupIds \ {b} : row'[c] = row[c]
  BY <1>2 DEF Completed, IInv, TypeOK
<1>5. ASSUME Alone(b), DataOf(b)
      PROVE  DataOf(b)'
  <2>1. /\ DestOf(b)' = DestOf(b) /\ FileOf(b)' = FileOf(b)
        /\ BucketOf(b)' = BucketOf(b) /\ Ends(b)' = Ends(b)
    BY <1>1 DEF DestOf, FileOf, BucketOf, Ends
  <2>2. CASE step = "error"
    <3>1. row' = row
      BY <1>2, <2>2
    <3>2. row[b] # None => row[b].status = "RUNNING" /\ ~row[b].key
      BY <1>1, <1>5 DEF DataOf, Underway
    <3> QED BY <1>1, <1>3, <1>5, <2>1, <2>2, <3>1, <3>2
            DEF DataOf, Finished, Written, Underway, Before, At
  <2>3. CASE step = "notify"
    <3>1. row[b] # None /\ row'[b] # None => row'[b].key = (DestOf(b) # None)
      BY <1>2, <2>3 DEF Completed, IInv, TypeOK
    <3>2. disk'[FileOf(b)] = None \/ disk'[FileOf(b)].state \in Ends(b)
      BY <1>1, <1>5 DEF DataOf, Written
    <3>3. DestOf(b) = None => disk'[FileOf(b)] # None \/ b \in deleting' \cup lost'
      BY <1>1, <1>2, <1>5, <2>3 DEF DataOf, At
    <3>4. row'[b] # None /\ row'[b].key =>
            bucket'[BucketOf(b)][FileOf(b)] # None \/ b \in lost' \cup Interrupted'
      <4> SUFFICES ASSUME row'[b] # None, row'[b].key, bucket'[BucketOf(b)][FileOf(b)] = None,
                          b \notin lost'
                   PROVE  b \in Interrupted'
        OBVIOUS
      <4>1. DestOf(b) # None
        BY <1>2, <2>3, <3>1
      <4>2. pass.pc = "update" /\ pass.dest = DestOf(b) /\ FileOf(b) \in pass.keys
        BY <1>1, <1>2, <2>3, <4>1
      <4> QED BY <1>1, <2>1, <4>2 DEF Interrupted, RowsOf, Naming, BucketOf
    <3>5. DestOf(b) # None =>
            bucket'[BucketOf(b)][FileOf(b)] = None \/ bucket'[BucketOf(b)][FileOf(b)].state \in Ends(b)
      BY <1>1, <1>5 DEF DataOf
    <3> QED BY <1>1, <1>3, <2>1, <2>3, <3>2, <3>3, <3>4, <3>5 DEF DataOf, Underway, Before, At
  <2> QED BY <2>2, <2>3
<1>6. ASSUME NEW c \in BackupIds \ {b}, asked[c] # None, Alone(c), DataOf(c)
      PROVE  DataOf(c)'
  BY <1>1, <1>3, <1>4, <1>6, OthersSteady
<1> QED BY <1>1, <1>5, <1>6, DataStep

(* Steps after which nothing has changed but what they have at hand        *)
LEMMA AtRest ==
  ASSUME IInv, DataInv, UNCHANGED <<asked, row, deleting, disk, bucket, lost>>,
         \/ pass' = pass \/ pass.pc # "update",
         \A c \in BackupIds : task'[c] = task[c] \/ task'[c].pc \in {"done", "error", "dead"}
  PROVE  DataInv'
<1>1. ASSUME NEW c \in BackupIds, asked[c] # None, Alone(c), DataOf(c)
      PROVE  DataOf(c)'
  <2>1. c \in Interrupted => c \in Interrupted'
    BY DEF Interrupted, RowsOf, Naming, BucketOf, DestOf, FileOf
  <2>2. Steady(c)
    BY <2>1 DEF Steady, Underway, Before, Written
  <2> QED BY <1>1, <2>2, SteadyKeeps
<1> QED BY <1>1, DataStep

LEMMA LeaveTaskData ==
  ASSUME IInv, DataInv, NEW b \in BackupIds, NotStarted(b) \/ Notify(b)
  PROVE  DataInv'
<1>1. \E step \in {"dead", "done", "error"} : Goto(b, step)
  BY DEF NotStarted, Notify
<1>2. \A c \in BackupIds : task'[c] = task[c] \/ task'[c].pc \in {"done", "error", "dead"}
  BY <1>1, Went DEF Steps
<1> QED BY <1>2, AtRest DEF NotStarted, Notify

(* A process that dies gives up its removals, and they are lost.           *)
LEMMA DiedData ==
  ASSUME IInv, DataInv, Died, UNCHANGED <<asked, row, disk, bucket, clock>>
  PROVE  DataInv'
<1>1. ASSUME NEW c \in BackupIds, asked[c] # None, Alone(c), DataOf(c)
      PROVE  DataOf(c)'
  <2>1. task'[c] = task[c] \/ task'[c].pc = "dead"
    BY DEF Died
  <2>2. lost' = lost \cup Interrupted \cup deleting
    BY DEF Died
  <2>3. Steady(c)
    BY <2>1, <2>2 DEF Steady, Underway, Before, Written
  <2> QED BY <1>1, <2>3, SteadyKeeps
<1> QED BY <1>1, DataStep

LEMMA FailData ==
  ASSUME IInv, DataInv, NEW b \in BackupIds, Fail(b)
  PROVE  DataInv'
<1>1. CASE row[b] # None /\ row' = FailedRow(b) /\ Goto(b, "done")
           /\ UNCHANGED <<deleting, pass, restore, lost>>
  <2> DEFINE new == [row[b] EXCEPT !.status = "FAILED"]
  <2>1. /\ new.status = "FAILED" /\ new.key = row[b].key
        /\ row' = [row EXCEPT ![b] = new]
        /\ asked[b] # None /\ asked' = asked /\ disk' = disk /\ bucket' = bucket
    BY <1>1 DEF Fail, FailedRow, IInv, TypeOK, OwnInv, Row
  <2> HIDE DEF new
  <2>2. row'[b] = new /\ \A c \in BackupIds \ {b} : row'[c] = row[c]
    BY <2>1 DEF IInv, TypeOK
  <2>3. task'[b].pc = "done" /\ \A c \in BackupIds \ {b} : task'[c] = task[c]
    BY <1>1, Went DEF Steps
  <2>4. Alone(b) /\ DataOf(b) => DataOf(b)'
    <3>1. row'[b] # None /\ row'[b].key /\ b \in Interrupted => b \in Interrupted'
      BY <1>1, <2>1 DEF Interrupted, RowsOf, Naming, BucketOf, DestOf, FileOf
    <3>2. Steady(b)
      BY <1>1, <2>1, <2>2, <2>3, <3>1 DEF Steady, Underway, Before, Written
    <3> QED BY <3>2, SteadyKeeps
  <2>5. ASSUME NEW c \in BackupIds \ {b}, asked[c] # None, Alone(c), DataOf(c)
        PROVE  DataOf(c)'
    BY <1>1, <2>1, <2>2, <2>3, <2>5, OthersSteady
  <2> QED BY <2>1, <2>4, <2>5, DataStep
<1>2. CASE row' = row /\ Died
  BY <1>2, DiedData DEF Fail
<1> QED BY <1>1, <1>2 DEF Fail

(* A new backup has nothing yet; one that shares its name is no longer     *)
(* spoken of.                                                              *)
LEMMA CreateData ==
  ASSUME IInv, DataInv, NEW b \in BackupIds, Create(b)
  PROVE  DataInv'
<1> DEFINE new == [status |-> "RUNNING", key |-> FALSE]
<1>1. PICK request \in Request : asked' = [asked EXCEPT ![b] = request]
  BY ConstantsAssumption DEF Create
<1>2. /\ asked[b] = None /\ Goto(b, "created") /\ row' = [row EXCEPT ![b] = new]
      /\ UNCHANGED <<deleting, disk, bucket, clock, pass, restore, lost>>
  BY DEF Create
<1>3. task'[b].pc = "created" /\ \A c \in BackupIds \ {b} : task'[c] = task[c]
  BY <1>2, Went DEF Steps
<1>4. asked'[b] = request /\ \A c \in BackupIds \ {b} : asked'[c] = asked[c]
  BY <1>1 DEF IInv, TypeOK
<1>5. row'[b] = new /\ \A c \in BackupIds \ {b} : row'[c] = row[c]
  BY <1>2 DEF IInv, TypeOK
<1>6. ASSUME Alone(b)'
      PROVE  DataOf(b)'
  <2> DEFINE f == request.file
  <2>1. /\ f \in Files /\ FileOf(b)' = f
        /\ DestOf(b)' # None => BucketOf(b)' \in Buckets
    BY <1>4, ConstantsAssumption DEF FileOf, DestOf, BucketOf, Request
  <2>3. ASSUME NEW c \in BackupIds, asked[c] # None, asked[c].file = f
        PROVE  FALSE
    <3>1. c # b /\ asked'[c] = asked[c] /\ request # None
      BY <1>2, <1>4, <2>3, ConstantsAssumption
    <3> QED BY <1>4, <1>6, <2>1, <2>3, <3>1 DEF Alone, Twins, FileOf
  <2> HIDE DEF f
  <2>4. disk[f] = None
    <3> SUFFICES ASSUME disk[f] # None PROVE FALSE
      OBVIOUS
    <3>1. disk[f].of \in BackupIds /\ Named(disk[f], f)
      BY <2>1 DEF IInv, TypeOK, OwnInv, Data
    <3> QED BY <2>3, <3>1 DEF Named
  <2>5. DestOf(b)' # None => bucket[BucketOf(b)'][f] = None
    BY <2>1, <2>3 DEF IInv, TypeOK, OwnInv, Named, Object
  <2>2. row'[b].status = "RUNNING" /\ ~row'[b].key
    BY <1>5
  <2> QED BY <1>2, <1>3, <2>1, <2>2, <2>4, <2>5 DEF DataOf, Finished, Written, At
<1>7. ASSUME NEW c \in BackupIds \ {b}, asked'[c] # None, Alone(c)'
      PROVE  DataOf(c)'
  <2>1. asked[c] # None /\ Alone(c)
    BY <1>2, <1>4, <1>7 DEF Alone, Twins, FileOf
  <2>2. c \in Interrupted => c \in Interrupted'
    BY <1>2, <1>4, <1>5 DEF Interrupted, RowsOf, Naming, BucketOf, DestOf, FileOf
  <2>3. Steady(c)
    BY <1>2, <1>3, <1>4, <1>5, <2>2 DEF Steady
  <2> QED BY <2>1, <2>3, SteadyKeeps DEF DataInv
<1> QED BY <1>6, <1>7 DEF DataInv

(* While a backup is being deleted its file may be gone; then its row is,  *)
(* or the deletion was given up.                                           *)
LEMMA DeleteData ==
  ASSUME IInv, DataInv, NEW b \in BackupIds, Delete(b) \/ DeleteRow(b)
  PROVE  DataInv'
<1>1. /\ asked' = asked /\ task' = task /\ bucket' = bucket /\ pass' = pass
      /\ \A c \in lost \ {b} : c \in lost'
      /\ \A c \in deleting \ {b} : c \in deleting'
      /\ \/ b \in deleting' /\ row' = row /\ lost' = lost
            /\ disk' \in {disk, [disk EXCEPT ![FileOf(b)] = None]}
         \/ b \in lost' /\ row' = row /\ disk' = disk
         \/ row' = [row EXCEPT ![b] = None] /\ disk' = disk
  BY DEF Delete, DeleteRow
<1>2. /\ \A f \in Files \ {FileOf(b)} : disk'[f] = disk[f]
      /\ \A c \in BackupIds \ {b} : row'[c] = row[c]
      /\ row'[b] \in {row[b], None}
  BY <1>1 DEF IInv, TypeOK
<1>3. ASSUME asked[b] # None, Alone(b), DataOf(b)
      PROVE  DataOf(b)'
  <2>1. FileOf(b) \in Files
    BY <1>3, OwnData
  <2>2. \/ disk'[FileOf(b)] = disk[FileOf(b)]
        \/ disk'[FileOf(b)] = None /\ b \in deleting'
    BY <1>1, <2>1 DEF IInv, TypeOK
  <2>3. row'[b] # None => row'[b] = row[b] /\ b \in deleting' \cup lost'
    BY <1>1, <1>2 DEF IInv, TypeOK
  <2>4. row'[b] # None /\ b \in Interrupted => b \in Interrupted'
    BY <1>1, <2>3 DEF Interrupted, RowsOf, Naming, BucketOf, DestOf, FileOf
  <2>5. Steady(b)
    <3>1. row'[b] # None /\ b \in lost => b \in lost'
      BY <1>1, <1>2 DEF IInv, TypeOK
    <3> QED BY <1>1, <2>2, <2>3, <2>4, <3>1 DEF Steady
  <2> QED BY <1>3, <2>5, SteadyKeeps
<1>4. ASSUME NEW c \in BackupIds \ {b}, asked[c] # None, Alone(c), DataOf(c)
      PROVE  DataOf(c)'
  <2>1. CASE asked[b] # None
    BY <1>1, <1>2, <1>4, <2>1, OthersSteady
  <2>2. CASE asked[b] = None
    <3>1. row[b] = None
      BY <2>2 DEF IInv, OwnInv
    <3>2. disk' = disk
      BY <3>1 DEF Delete, DeleteRow
    <3>3. c \in Interrupted => c \in Interrupted'
      BY <1>1, <1>2 DEF Interrupted, RowsOf, Naming, BucketOf, DestOf, FileOf
    <3>4. Steady(c)
      BY <1>1, <1>2, <3>2, <3>3 DEF Steady
    <3> QED BY <1>4, <3>4, SteadyKeeps
  <2> QED BY <2>1, <2>2
<1> QED BY <1>1, <1>3, <1>4, DataStep

(* A pass that deletes objects goes on to clear their rows, or they are    *)
(* lost.                                                                   *)
LEMMA DeleteObjectsData ==
  ASSUME IInv, DataInv, DeleteObjects
  PROVE  DataInv'
<1>1. PICK gone \in SUBSET pass.keys :
        /\ bucket' = Without(Place[pass.dest], gone)
        /\ \/ /\ lost' = lost \cup (Naming(gone) \ RowsOf(gone))
              /\ pass' = [IdlePass EXCEPT !.pc = "update", !.dest = pass.dest, !.keys = gone]
           \/ lost' = lost \cup Naming(gone)
  BY DEF DeleteObjects
<1>2. /\ pass.pc = "delete" /\ asked' = asked /\ row' = row /\ task' = task /\ disk' = disk
      /\ deleting' = deleting
  BY DEF DeleteObjects
<1>3. Place[pass.dest] \in Buckets /\ pass.keys \subseteq Files
  BY <1>2, ConstantsAssumption DEF IInv, RetentionInv, PassInv, TypeOK
<1>4. \/ /\ lost' = lost \cup (Naming(gone) \ RowsOf(gone))
         /\ pass'.pc = "update" /\ pass'.dest = pass.dest /\ pass'.keys = gone
      \/ lost' = lost \cup Naming(gone)
  BY <1>1 DEF IdlePass
<1>5. ASSUME NEW k \in Buckets, NEW f \in Files
      PROVE  \/ bucket'[k][f] = bucket[k][f]
             \/ bucket'[k][f] = None /\ k = Place[pass.dest] /\ f \in gone
  BY <1>1, <1>3 DEF Without, IInv, TypeOK
<1>6. ASSUME NEW c \in BackupIds, asked[c] # None, Alone(c), DataOf(c)
      PROVE  DataOf(c)'
  <2>1. FileOf(c) \in Files /\ (DestOf(c) # None => BucketOf(c) \in Buckets)
    BY <1>6, OwnData
  <2>2. c \notin Interrupted /\ (c \in lost => c \in lost')
    BY <1>1, <1>2 DEF Interrupted
  <2>3. ASSUME BucketOf(c) = Place[pass.dest], FileOf(c) \in gone, row'[c] # None, row'[c].key
        PROVE  c \in lost' \cup Interrupted'
    <3>1. c \in Naming(gone)
      BY <1>2, <2>3 DEF Naming
    <3>2. CASE DestOf(c) = pass.dest /\ pass'.pc = "update" /\ pass'.dest = pass.dest
                 /\ pass'.keys = gone
      BY <1>2, <2>3, <3>2 DEF Interrupted, RowsOf, Naming, BucketOf, DestOf, FileOf
    <3>3. CASE DestOf(c) # pass.dest \/ lost' = lost \cup Naming(gone)
      BY <1>4, <3>1, <3>3 DEF RowsOf
    <3> QED BY <1>4, <3>2, <3>3
  <2>4. Steady(c)
    BY <1>2, <1>5, <2>1, <2>2, <2>3 DEF Steady
  <2> QED BY <1>6, <2>4, SteadyKeeps
<1> QED BY <1>2, <1>6, DataStep

(* Rows that are cleared promise no object any more; otherwise they are    *)
(* lost.                                                                   *)
LEMMA UpdateRowsData ==
  ASSUME IInv, DataInv, UpdateRows
  PROVE  DataInv'
<1>1. /\ pass.pc = "update" /\ asked' = asked /\ task' = task /\ disk' = disk
      /\ bucket' = bucket /\ deleting' = deleting
      /\ \/ row' = Cleared(pass.keys) /\ lost' = lost
         \/ lost' = lost \cup RowsOf(pass.keys) /\ row' = row
  BY DEF UpdateRows
<1>2. Interrupted = RowsOf(pass.keys)
  BY <1>1 DEF Interrupted
<1>3. ASSUME NEW c \in BackupIds, asked[c] # None, Alone(c), DataOf(c)
      PROVE  DataOf(c)'
  <2>1. CASE row' = row /\ lost' = lost \cup RowsOf(pass.keys)
    <3>1. Steady(c)
      BY <1>1, <1>2, <2>1 DEF Steady
    <3> QED BY <1>3, <3>1, SteadyKeeps
  <2>2. CASE row' = Cleared(pass.keys) /\ lost' = lost
    <3>1. CASE c \in RowsOf(pass.keys)
      <4> DEFINE new == [row[c] EXCEPT !.key = FALSE]
      <4>1. row'[c] = new /\ row[c] \in Row
        BY <2>2, <3>1 DEF Cleared, RowsOf, Naming, IInv, TypeOK
      <4>2. new.status = row[c].status /\ ~new.key /\ row[c] # None
        BY <3>1, <4>1 DEF Row, RowsOf, Naming
      <4> HIDE DEF new
      <4>3. Steady(c)
        BY <1>1, <2>2, <4>1, <4>2 DEF Steady
      <4> QED BY <1>3, <4>3, SteadyKeeps
    <3>2. CASE c \notin RowsOf(pass.keys)
      <4>1. row'[c] = row[c]
        BY <2>2, <3>2 DEF Cleared
      <4>2. Steady(c)
        BY <1>1, <1>2, <2>2, <3>2, <4>1 DEF Steady
      <4> QED BY <1>3, <4>2, SteadyKeeps
    <3> QED BY <3>1, <3>2
  <2> QED BY <1>1, <2>1, <2>2
<1> QED BY <1>1, <1>3, DataStep

LEMMA DataInit == Init => DataInv
<1> SUFFICES ASSUME Init PROVE DataInv
  OBVIOUS
<1> QED BY DEF Init, DataInv

LEMMA DataNext == IInv /\ DataInv /\ [Next]_vars => DataInv'
<1> SUFFICES ASSUME IInv, DataInv, [Next]_vars PROVE DataInv'
  OBVIOUS
<1>1. ASSUME NEW b \in BackupIds, Create(b) \/ Task(b) \/ Delete(b) \/ DeleteRow(b)
      PROVE  DataInv'
  BY <1>1, CreateData, LeaveTaskData, WriteData, UploadData, HeadData, CompleteData, FailData,
     DeleteData DEF Task
<1>2. CASE List
  <2>1. pass.pc # "update" /\ UNCHANGED <<asked, row, task, deleting, disk, bucket, lost>>
    BY <1>2 DEF List
  <2> QED BY <2>1, AtRest
<1>3. CASE DeleteObjects \/ UpdateRows
  BY <1>3, DeleteObjectsData, UpdateRowsData
<1>4. ASSUME NEW r \in Restores, BeginRestore(r) \/ Restore(r)
      PROVE  DataInv'
  <2>1. UNCHANGED <<asked, row, task, deleting, disk, bucket, pass, lost>>
    BY <1>4 DEF BeginRestore, Restore, RunRestore, RemoveHydrated
  <2> QED BY <2>1, AtRest
<1>5. CASE Crash
  BY <1>5, DiedData DEF Crash
<1>6. CASE UNCHANGED vars
  BY <1>6, AtRest DEF vars
<1> QED BY <1>1, <1>2, <1>3, <1>4, <1>5, <1>6 DEF Next, Pass

(* The data of a COMPLETED backup that shares its name with no other is    *)
(* there, its own and as its command left it (whole, or perhaps cut off if *)
(* it is FULL), or its removal is under way, was never brought to its end, *)
(* or was that of another destination in the same bucket.                  *)
THEOREM CompletedDataThere == Spec => []CompletedHasData
<1>1. IInv /\ DataInv => CompletedHasData
  <2> SUFFICES ASSUME IInv, DataInv, NEW b \in BackupIds,
                      row[b] # None, row[b].status = "COMPLETED", Alone(b)
               PROVE  LET object == bucket[BucketOf(b)][FileOf(b)]
                          Good(data) == data # None /\ data.of = b /\ data.state \in Ends(b)
                      IN /\ DestOf(b) = None => Good(disk[FileOf(b)]) \/ b \in deleting \cup lost
                         /\ row[b].key => Good(object) \/ b \in lost \cup Interrupted
    BY DEF CompletedHasData
  <2>1. asked[b] # None /\ DataOf(b) /\ (row[b].key => DestOf(b) # None)
    BY DEF IInv, OwnInv, DataInv
  <2>2. /\ DestOf(b) = None =>
             \/ /\ disk[FileOf(b)] # None /\ disk[FileOf(b)].of = b
                /\ disk[FileOf(b)].state \in Ends(b)
             \/ b \in deleting \cup lost
    BY <2>1, OwnData DEF DataOf, Finished
  <2>3. /\ row[b].key =>
             \/ /\ bucket[BucketOf(b)][FileOf(b)] # None /\ bucket[BucketOf(b)][FileOf(b)].of = b
                /\ bucket[BucketOf(b)][FileOf(b)].state \in Ends(b)
             \/ b \in lost \cup Interrupted
    BY <2>1, OwnData DEF DataOf, Finished
  <2> QED BY <2>2, <2>3
<1>2. IInv /\ DataInv /\ [Next]_vars => (IInv /\ DataInv)'
  BY InvStep, DataNext
<1>3. Init => IInv /\ DataInv
  BY InvInit, DataInit
<1>4. Spec => [](IInv /\ DataInv)
  BY <1>2, <1>3, PTL DEF Spec
<1> QED BY <1>1, <1>4, PTL
=============================================================================
