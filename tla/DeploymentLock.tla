--------------------------- MODULE DeploymentLock ---------------------------
(***************************************************************************)
(* The deployment lock (src/server/services/deployment-lock.service.ts): a *)
(* row of the table DeploymentLock per container, with the token of its    *)
(* owner and an expiry time, taken by an operation before it touches the   *)
(* container's runtime, renewed by a heartbeat while the operation works,  *)
(* checked by assertOwned before the operation writes its outcome, and     *)
(* deleted at the end.                                                     *)
(*                                                                         *)
(* Each operation runs once and has a fresh random token, so the operation *)
(* itself stands for its token.  A call to the database is a step of its   *)
(* own, so that calls of several operations interleave, arrive late, fail, *)
(* or fail after they took effect.  Time is the variable now.              *)
(***************************************************************************)
EXTENDS Integers

CONSTANTS
  Ops,            \* operations (one rollback or rebuild request each)
  Containers,     \* container ids
  NoRow,          \* no row in the table for a container
  NoOp,           \* no operation (abstract specification only)
  MinTtl,         \* 30_000 ms
  TtlInput,       \* ttlMs, by default 15 minutes
  MinBeat,        \* 10 ms
  IntervalInput,  \* intervalMs, by default 60 seconds
  RoundTrip,      \* the longest a database call may take
  Jitter,         \* how late a timer may fire
  MaxTime         \* bound of the clock (model checking only)

MaxOf(a, b) == IF a >= b THEN a ELSE b
MinOf(a, b) == IF a <= b THEN a ELSE b

Ttl      == MaxOf(MinTtl, TtlInput)
Interval == MinOf(MaxOf(MinBeat, IntervalInput), MaxOf(MinBeat, Ttl \div 3))

ASSUME ConstantsAssumption ==
  /\ \A n \in {MinTtl, TtlInput, MinBeat, IntervalInput, RoundTrip, Jitter,
               MaxTime} : n \in Nat
  /\ MinBeat > 0
  /\ MinTtl >= 3 * MinBeat
  /\ \A p \in Ops : p # NoOp
  /\ NoOp \notin Ops
  /\ NoRow \notin [token : Ops, expiresAt : Nat]

(* The environment is fast enough for the heartbeat: a renewal, the one    *)
(* skipped because it was still on its way, the next one, and the write of *)
(* the outcome all fit in one time to live (60 s + 3 round trips + delay   *)
(* of the timer < 15 min with the values of the code).                     *)
ASSUME TimingAssumption == Interval + Jitter + 3 * RoundTrip < Ttl

VARIABLES
  now,      \* the clock, Date.now()
  row,      \* row[c]: the row of container c, or NoRow
  exists,   \* containers whose Container row exists
  pc,       \* pc[p]: where operation p is
  target,   \* target[p]: the container of p
  mark,     \* mark[p]: clock when p started to acquire, or passed assertOwned
  beat,     \* beat[p]: clock when the heartbeat timer of p last fired
  renewAt,  \* renewAt[p]: clock when p issued the renewal that is on its way
  lost      \* lost[p]: ownershipError of p is set

vars == <<now, row, exists, pc, target, mark, beat, renewAt, lost>>

NoCall == -1

States == {"idle", "reclaiming", "creating", "working", "finalizing",
           "stopped", "done", "conflict", "failed", "crashed"}

Row == [token : Ops, expiresAt : Nat]

TypeOK ==
  /\ now \in Nat
  /\ row \in [Containers -> Row \cup {NoRow}]
  /\ exists \in SUBSET Containers
  /\ pc \in [Ops -> States]
  /\ target \in [Ops -> Containers]
  /\ mark \in [Ops -> Nat]
  /\ beat \in [Ops -> Nat]
  /\ renewAt \in [Ops -> Nat \cup {NoCall}]
  /\ lost \in [Ops -> BOOLEAN]

Init == /\ now = 0
        /\ row = [c \in Containers |-> NoRow]
        /\ exists = Containers
        /\ pc = [p \in Ops |-> "idle"]
        /\ target \in [Ops -> Containers]
        /\ mark = [p \in Ops |-> 0]
        /\ beat = [p \in Ops |-> 0]
        /\ renewAt = [p \in Ops |-> NoCall]
        /\ lost = [p \in Ops |-> FALSE]

Owns(p) == row[target[p]] # NoRow /\ row[target[p]].token = p

(* The row an operation writes with the clock value t of its call.         *)
RowOf(p, t) == [token |-> p, expiresAt |-> t + Ttl]

-----------------------------------------------------------------------------
(* acquireDeploymentLock *)

(* The expiry time is computed before the transaction starts.              *)
StartAcquire(p) ==
  /\ pc[p] = "idle"
  /\ pc' = [pc EXCEPT ![p] = "reclaiming"]
  /\ mark' = [mark EXCEPT ![p] = now]
  /\ UNCHANGED <<now, row, exists, target, beat, renewAt, lost>>

(* The outcome of the transaction as p sees it: it goes on and starts the  *)
(* heartbeat, or the answer is lost and p fails with its row in place.     *)
Acquired(p) ==
  /\ row' = [row EXCEPT ![target[p]] = RowOf(p, mark[p])]
  /\ \/ /\ now <= mark[p] + RoundTrip
        /\ pc' = [pc EXCEPT ![p] = "working"]
        /\ beat' = [beat EXCEPT ![p] = now]
     \/ /\ pc' = [pc EXCEPT ![p] = "failed"]
        /\ UNCHANGED beat
  /\ UNCHANGED <<now, exists, target, mark, renewAt, lost>>

(* Mutant of Reclaim: the row is taken whether it has expired or not.      *)
ReclaimAlways(p) ==
  /\ pc[p] = "reclaiming"
  /\ row[target[p]] # NoRow
  /\ Acquired(p)

(* updateMany where expiresAt <= now: an expired row changes its owner.    *)
Reclaim(p) ==
  /\ pc[p] = "reclaiming"
  /\ row[target[p]] # NoRow
  /\ row[target[p]].expiresAt <= now
  /\ Acquired(p)

(* updateMany matches nothing: there is no row, or its expiry lies after   *)
(* the clock value that was sent with the call.                            *)
ReclaimNothing(p) ==
  /\ pc[p] = "reclaiming"
  /\ row[target[p]] # NoRow => row[target[p]].expiresAt > mark[p]
  /\ pc' = [pc EXCEPT ![p] = "creating"]
  /\ UNCHANGED <<now, row, exists, target, mark, beat, renewAt, lost>>

(* Mutant of Create: an upsert, which overwrites the row of another.       *)
CreateOrReplace(p) ==
  /\ pc[p] = "creating"
  /\ target[p] \in exists
  /\ Acquired(p)

Create(p) ==
  /\ pc[p] = "creating"
  /\ row[target[p]] = NoRow
  /\ target[p] \in exists
  /\ Acquired(p)

(* P2002: the row of another operation is there.                           *)
CreateConflict(p) ==
  /\ pc[p] = "creating"
  /\ row[target[p]] # NoRow
  /\ pc' = [pc EXCEPT ![p] = "conflict"]
  /\ UNCHANGED <<now, row, exists, target, mark, beat, renewAt, lost>>

(* Any other error: the transaction timed out, the database cannot be      *)
(* reached, or the container is gone (foreign key).                        *)
AcquireFails(p) ==
  /\ pc[p] \in {"reclaiming", "creating"}
  /\ pc' = [pc EXCEPT ![p] = "failed"]
  /\ UNCHANGED <<now, row, exists, target, mark, beat, renewAt, lost>>

-----------------------------------------------------------------------------
(* startDeploymentLockHeartbeat and renewDeploymentLock *)

Beating(p) == pc[p] \in {"working", "finalizing"}

(* The timer fires: it issues a renewal unless one is on its way or the    *)
(* ownership was lost.                                                     *)
Heartbeat(p) ==
  /\ Beating(p)
  /\ now >= beat[p] + Interval
  /\ beat' = [beat EXCEPT ![p] = now]
  /\ renewAt' = IF renewAt[p] # NoCall \/ lost[p] THEN renewAt
                ELSE [renewAt EXCEPT ![p] = now]
  /\ UNCHANGED <<now, row, exists, pc, target, mark, lost>>

(* updateMany where token is ours and expiresAt > the clock sent with it.  *)
RenewMatches(p) == Owns(p) /\ row[target[p]].expiresAt > renewAt[p]

(* The row gets a later expiry time; the answer arrives or is lost.        *)
Renew(p) ==
  /\ renewAt[p] # NoCall
  /\ RenewMatches(p)
  /\ row' = [row EXCEPT ![target[p]] = RowOf(p, renewAt[p])]
  /\ renewAt' = [renewAt EXCEPT ![p] = NoCall]
  /\ \E answered \in BOOLEAN : lost' = [lost EXCEPT ![p] = @ \/ ~answered]
  /\ UNCHANGED <<now, exists, pc, target, mark, beat>>

(* The row is not ours any more, or the call fails: either error counts as *)
(* lost ownership, for good.                                               *)
RenewFails(p) ==
  /\ renewAt[p] # NoCall
  /\ renewAt' = [renewAt EXCEPT ![p] = NoCall]
  /\ lost' = [lost EXCEPT ![p] = TRUE]
  /\ UNCHANGED <<now, row, exists, pc, target, mark, beat>>

-----------------------------------------------------------------------------
(* The operation: its work, assertOwned, the write of its outcome, stop    *)
(* and releaseDeploymentLock in its finally block.                         *)

(* Mutant of AssertOwned: ownershipError is not looked at.                 *)
AssertNothing(p) ==
  /\ pc[p] = "working"
  /\ pc' = [pc EXCEPT ![p] = "finalizing"]
  /\ mark' = [mark EXCEPT ![p] = now]
  /\ UNCHANGED <<now, row, exists, target, beat, renewAt, lost>>

AssertOwned(p) ==
  /\ pc[p] = "working"
  /\ ~lost[p]
  /\ pc' = [pc EXCEPT ![p] = "finalizing"]
  /\ mark' = [mark EXCEPT ![p] = now]
  /\ UNCHANGED <<now, row, exists, target, beat, renewAt, lost>>

(* The work failed, or assertOwned threw, or the outcome is written.       *)
Stop(p) ==
  /\ Beating(p)
  /\ pc' = [pc EXCEPT ![p] = "stopped"]
  /\ UNCHANGED <<now, row, exists, target, mark, beat, renewAt, lost>>

(* deleteMany where the token is ours.                                     *)
Release(p) ==
  /\ pc[p] = "stopped"
  /\ row' = IF Owns(p) THEN [row EXCEPT ![target[p]] = NoRow] ELSE row
  /\ pc' = [pc EXCEPT ![p] = "done"]
  /\ UNCHANGED <<now, exists, target, mark, beat, renewAt, lost>>

ReleaseFails(p) ==
  /\ pc[p] = "stopped"
  /\ pc' = [pc EXCEPT ![p] = "done"]
  /\ UNCHANGED <<now, row, exists, target, mark, beat, renewAt, lost>>

(* The process dies: the operation is gone, its row stays.                 *)
Crash(p) ==
  /\ pc[p] \in {"reclaiming", "creating", "working", "finalizing", "stopped"}
  /\ pc' = [pc EXCEPT ![p] = "crashed"]
  /\ UNCHANGED <<now, row, exists, target, mark, beat, renewAt, lost>>

(* The container is deleted by a route or by sync; its lock row goes with  *)
(* it (onDelete: Cascade), and ids are never used again.                   *)
DeleteContainer(c) ==
  /\ c \in exists
  /\ exists' = exists \ {c}
  /\ row' = [row EXCEPT ![c] = NoRow]
  /\ UNCHANGED <<now, pc, target, mark, beat, renewAt, lost>>

(* Time passes, but not over a timer or an answer of a running operation   *)
(* that is due.                                                            *)
Due(p) == /\ Beating(p)
          /\ \/ now >= beat[p] + Interval + Jitter
             \/ renewAt[p] # NoCall /\ now >= renewAt[p] + RoundTrip
             \/ pc[p] = "finalizing" /\ now >= mark[p] + RoundTrip

Tick == /\ now < MaxTime
        /\ \A p \in Ops : ~Due(p)
        /\ now' = now + 1
        /\ UNCHANGED <<row, exists, pc, target, mark, beat, renewAt, lost>>

OpStep(p) == \/ StartAcquire(p) \/ Reclaim(p) \/ ReclaimNothing(p)
             \/ Create(p) \/ CreateConflict(p) \/ AcquireFails(p)
             \/ Heartbeat(p) \/ Renew(p) \/ RenewFails(p)
             \/ AssertOwned(p) \/ Stop(p) \/ Release(p) \/ ReleaseFails(p)
             \/ Crash(p)

Next == \/ \E p \in Ops : OpStep(p)
        \/ \E c \in Containers : DeleteContainer(c)
        \/ Tick

Spec == Init /\ [][Next]_vars

-----------------------------------------------------------------------------
(* An operation that may still write: it works and was not told otherwise, *)
(* or it passed assertOwned and is writing.                                *)
Believes(p) == \/ pc[p] = "working" /\ ~lost[p]
               \/ pc[p] = "finalizing"

(* Two operations on one container never both think that they own it, even *)
(* when rows expire under slow or failing renewals, transactions answer    *)
(* late, processes crash and old renewals and releases arrive afterwards.  *)
MutualExclusion ==
  \A p, q \in Ops :
    Believes(p) /\ Believes(q) /\ target[p] = target[q] => p = q

(* assertOwned is good for the write that follows it: until the write is   *)
(* done the operation's row is in the table and has not expired, although  *)
(* assertOwned only looks at an error flag of the heartbeat.               *)
WritesUnderLock ==
  \A p \in Ops :
    pc[p] = "finalizing" /\ target[p] \in exists
      => Owns(p) /\ row[target[p]].expiresAt > now

(* The abstract lease: the holder is the operation named in the row as     *)
(* long as that operation believes in it.                                  *)
LeaseHolder ==
  [c \in Containers |->
     IF row[c] # NoRow /\ target[row[c].token] = c /\ Believes(row[c].token)
     THEN row[c].token ELSE NoOp]

LeaseWriting == {p \in Ops : pc[p] = "finalizing" /\ Owns(p)}

Lease == INSTANCE DeploymentLease WITH holder <- LeaseHolder,
                                       writing <- LeaseWriting

(* The token table with expiry times and heartbeats implements the lease:  *)
(* a container changes hands only through nobody, and only its holder      *)
(* writes an outcome.                                                      *)
LeaseRefinement == Lease!LeaseSpec

-----------------------------------------------------------------------------
(* The inductive invariant: what the row of an operation that still        *)
(* believes looks like at each point of the heartbeat's cycle.             *)
TokenInv == \A c \in Containers :
              row[c] # NoRow => target[row[c].token] = c /\ c \in exists

IdleInv(p) == renewAt[p] = NoCall
              => row[target[p]].expiresAt >= beat[p] + Ttl - RoundTrip

CallInv(p) == renewAt[p] # NoCall
              => row[target[p]].expiresAt > renewAt[p] + 2 * RoundTrip

WriteInv(p) == pc[p] = "finalizing"
               => /\ now <= mark[p] + RoundTrip
                  /\ row[target[p]].expiresAt > mark[p] + RoundTrip

ClockInv == \A p \in Ops : /\ mark[p] <= now
                           /\ beat[p] <= now
                           /\ renewAt[p] <= now
                           /\ Beating(p) => now <= beat[p] + Interval + Jitter
                           /\ Beating(p) /\ renewAt[p] # NoCall
                                => now <= renewAt[p] + RoundTrip

FreshInv == \A p \in Ops :
              pc[p] \in {"idle", "reclaiming", "creating"} => /\ renewAt[p] = NoCall
                                                              /\ ~lost[p]
                                                              /\ ~Owns(p)

LeaseOf(p) == /\ Believes(p) => Owns(p)
              /\ Beating(p) /\ ~lost[p] => IdleInv(p) /\ CallInv(p)
              /\ WriteInv(p)

LeaseInv == \A p \in Ops : target[p] \in exists => LeaseOf(p)

IInv == TypeOK /\ TokenInv /\ ClockInv /\ FreshInv /\ LeaseInv /\ MutualExclusion
=============================================================================
