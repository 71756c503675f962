------------------------ MODULE DeploymentLock_proofs ------------------------
(***************************************************************************)
(* Proofs about DeploymentLock for every set of operations and containers, *)
(* every time to live, heartbeat interval, round trip and jitter that      *)
(* satisfy TimingAssumption, and an unbounded clock (MaxTime is any        *)
(* number).                                                                *)
(***************************************************************************)
EXTENDS DeploymentLock, TLAPS

(* The parameters as the proofs use them: the clamps of the code leave a   *)
(* positive interval and a time to live longer than a heartbeat cycle.     *)
LEMMA Parameters ==
  /\ Ttl \in Nat /\ Interval \in Nat /\ RoundTrip \in Nat /\ Jitter \in Nat
  /\ MaxTime \in Nat
  /\ Interval > 0
  /\ Interval + Jitter + 3 * RoundTrip < Ttl
<1>1. MinTtl \in Nat /\ TtlInput \in Nat /\ MinBeat \in Nat
      /\ IntervalInput \in Nat /\ RoundTrip \in Nat /\ Jitter \in Nat
      /\ MaxTime \in Nat /\ MinBeat > 0
  BY ConstantsAssumption
<1>2. Ttl \in Nat
  BY <1>1 DEF Ttl, MaxOf
<1>3. Interval \in Nat /\ Interval > 0
  BY <1>1, <1>2 DEF Interval, MaxOf, MinOf
<1> QED BY <1>1, <1>2, <1>3, TimingAssumption

(* Every reachable state is well typed.                                    *)
LEMMA TypeInit == Init => TypeOK
  BY DEF Init, TypeOK, States, NoCall

LEMMA TypeNext == TypeOK /\ [Next]_vars => TypeOK'
<1> SUFFICES ASSUME TypeOK, [Next]_vars PROVE TypeOK'
  OBVIOUS
<1> USE DEF TypeOK, States
<1>a. ASSUME NEW p \in Ops, Acquired(p) PROVE TypeOK'
  <2>1. RowOf(p, mark[p]) \in Row
    BY Parameters DEF RowOf, Row
  <2> QED BY <1>a, <2>1 DEF Acquired
<1>1. ASSUME NEW p \in Ops, StartAcquire(p) PROVE TypeOK'
  BY <1>1 DEF StartAcquire
<1>2. ASSUME NEW p \in Ops, Reclaim(p) PROVE TypeOK'
  BY <1>2, <1>a DEF Reclaim
<1>3. ASSUME NEW p \in Ops, ReclaimNothing(p) PROVE TypeOK'
  BY <1>3 DEF ReclaimNothing
<1>4. ASSUME NEW p \in Ops, Create(p) PROVE TypeOK'
  BY <1>4, <1>a DEF Create
<1>5. ASSUME NEW p \in Ops, CreateConflict(p) PROVE TypeOK'
  BY <1>5 DEF CreateConflict
<1>6. ASSUME NEW p \in Ops, AcquireFails(p) PROVE TypeOK'
  BY <1>6 DEF AcquireFails
<1>7. ASSUME NEW p \in Ops, Heartbeat(p) PROVE TypeOK'
  BY <1>7 DEF Heartbeat
<1>8. ASSUME NEW p \in Ops, Renew(p) PROVE TypeOK'
  <2>1. RowOf(p, renewAt[p]) \in Row
    BY <1>8, Parameters DEF Renew, RowOf, Row
  <2> QED BY <1>8, <2>1 DEF Renew, NoCall
<1>9. ASSUME NEW p \in Ops, RenewFails(p) PROVE TypeOK'
  BY <1>9 DEF RenewFails
<1>10. ASSUME NEW p \in Ops, AssertOwned(p) PROVE TypeOK'
  BY <1>10 DEF AssertOwned
<1>11. ASSUME NEW p \in Ops, Stop(p) PROVE TypeOK'
  BY <1>11 DEF Stop
<1>12. ASSUME NEW p \in Ops, Release(p) PROVE TypeOK'
  BY <1>12 DEF Release
<1>13. ASSUME NEW p \in Ops, ReleaseFails(p) PROVE TypeOK'
  BY <1>13 DEF ReleaseFails
<1>14. ASSUME NEW p \in Ops, Crash(p) PROVE TypeOK'
  BY <1>14 DEF Crash
<1>15. ASSUME NEW c \in Containers, DeleteContainer(c) PROVE TypeOK'
  BY <1>15 DEF DeleteContainer
<1>16. ASSUME Tick PROVE TypeOK'
  BY <1>16 DEF Tick
<1>17. ASSUME UNCHANGED vars PROVE TypeOK'
  BY <1>17 DEF vars
<1> QED
  BY <1>1, <1>2, <1>3, <1>4, <1>5, <1>6, <1>7, <1>8, <1>9, <1>10, <1>11,
     <1>12, <1>13, <1>14, <1>15, <1>16, <1>17 DEF Next, OpStep

(* Type correctness: every variable keeps its type in every behaviour.     *)
THEOREM TypeCorrect == Spec => []TypeOK
  BY TypeInit, TypeNext, PTL DEF Spec

-----------------------------------------------------------------------------
(* A row in the table is the row of an operation on that very container,   *)
(* and the container exists.                                               *)
LEMMA TokenNext == TypeOK /\ TokenInv /\ [Next]_vars => TokenInv'
<1> SUFFICES ASSUME TypeOK, TokenInv, [Next]_vars PROVE TokenInv'
  OBVIOUS
<1> USE DEF TypeOK, TokenInv
<1>1. ASSUME NEW p \in Ops, OpStep(p) PROVE TokenInv'
  <2>1. target' = target /\ exists' = exists
    BY <1>1 DEF OpStep, StartAcquire, Reclaim, Create, Acquired,
         ReclaimNothing, CreateConflict, AcquireFails, Heartbeat, Renew,
         RenewFails, AssertOwned, Stop, Release, ReleaseFails, Crash
  <2>2. CASE row' = row
    BY <2>1, <2>2
  <2>3. ASSUME Acquired(p), target[p] \in exists PROVE TokenInv'
    BY <2>1, <2>3 DEF Acquired, RowOf
  <2>4. CASE Reclaim(p)
    <3>1. target[p] \in exists
      BY <2>4 DEF Reclaim
    <3> QED BY <2>3, <2>4, <3>1 DEF Reclaim
  <2>5. CASE Create(p)
    BY <2>3, <2>5 DEF Create
  <2>6. CASE Renew(p)
    BY <2>1, <2>6 DEF Renew, RenewMatches, Owns, RowOf
  <2>7. CASE Release(p)
    BY <2>1, <2>7 DEF Release
  <2> QED
    BY <1>1, <2>2, <2>4, <2>5, <2>6, <2>7 DEF OpStep, StartAcquire,
       ReclaimNothing, CreateConflict, AcquireFails, Heartbeat, RenewFails,
       AssertOwned, Stop, ReleaseFails, Crash
<1>2. ASSUME NEW c \in Containers, DeleteContainer(c) PROVE TokenInv'
  BY <1>2 DEF DeleteContainer
<1>3. CASE Tick
  BY <1>3 DEF Tick
<1>4. CASE UNCHANGED vars
  BY <1>4 DEF vars
<1> QED BY <1>1, <1>2, <1>3, <1>4 DEF Next

(* An operation that has not acquired yet owns no row and has no renewal   *)
(* on its way.                                                             *)
LEMMA FreshNext == TypeOK /\ FreshInv /\ [Next]_vars => FreshInv'
<1> SUFFICES ASSUME TypeOK, FreshInv, [Next]_vars,
                    NEW q \in Ops,
                    pc'[q] \in {"idle", "reclaiming", "creating"}
             PROVE  renewAt'[q] = NoCall /\ ~lost'[q] /\ ~Owns(q)'
  BY DEF FreshInv
<1> USE DEF TypeOK, FreshInv, Owns, States
<1>1. ASSUME NEW p \in Ops, OpStep(p)
      PROVE  renewAt'[q] = NoCall /\ ~lost'[q] /\ ~Owns(q)'
  <2>1. CASE StartAcquire(p)
    BY <2>1 DEF StartAcquire
  <2>2. CASE Reclaim(p)
    BY <2>2 DEF Reclaim, Acquired, RowOf
  <2>3. CASE ReclaimNothing(p)
    BY <2>3 DEF ReclaimNothing
  <2>4. CASE Create(p)
    BY <2>4 DEF Create, Acquired, RowOf
  <2>5. CASE CreateConflict(p)
    BY <2>5 DEF CreateConflict
  <2>6. CASE AcquireFails(p)
    BY <2>6 DEF AcquireFails
  <2>7. CASE Heartbeat(p)
    BY <2>7 DEF Heartbeat, Beating
  <2>8. CASE Renew(p)
    BY <2>8 DEF Renew, RenewMatches, RowOf
  <2>9. CASE RenewFails(p)
    BY <2>9 DEF RenewFails
  <2>10. CASE AssertOwned(p)
    BY <2>10 DEF AssertOwned
  <2>11. CASE Stop(p)
    BY <2>11 DEF Stop, Beating
  <2>12. CASE Release(p)
    BY <2>12 DEF Release
  <2>13. CASE ReleaseFails(p)
    BY <2>13 DEF ReleaseFails
  <2>14. CASE Crash(p)
    BY <2>14 DEF Crash
  <2> QED
    BY <1>1, <2>1, <2>2, <2>3, <2>4, <2>5, <2>6, <2>7, <2>8, <2>9, <2>10,
       <2>11, <2>12, <2>13, <2>14 DEF OpStep
<1>2. ASSUME NEW c \in Containers, DeleteContainer(c)
      PROVE  renewAt'[q] = NoCall /\ ~lost'[q] /\ ~Owns(q)'
  BY <1>2 DEF DeleteContainer
<1>3. CASE Tick
  BY <1>3 DEF Tick
<1>4. CASE UNCHANGED vars
  BY <1>4 DEF vars
<1> QED BY <1>1, <1>2, <1>3, <1>4 DEF Next

-----------------------------------------------------------------------------
(* No clock value that an operation keeps lies in the future, and a        *)
(* renewal of a running operation is never on its way for longer than a    *)
(* round trip.                                                             *)
LEMMA ClockNext == TypeOK /\ FreshInv /\ ClockInv /\ [Next]_vars => ClockInv'
<1> SUFFICES ASSUME TypeOK, FreshInv, ClockInv, [Next]_vars, NEW q \in Ops
             PROVE  /\ mark'[q] <= now' /\ beat'[q] <= now'
                    /\ renewAt'[q] <= now'
                    /\ Beating(q)' => now' <= beat'[q] + Interval + Jitter
                    /\ Beating(q)' /\ renewAt'[q] # NoCall
                         => now' <= renewAt'[q] + RoundTrip
  BY DEF ClockInv
<1> DEFINE Goal == /\ mark'[q] <= now' /\ beat'[q] <= now'
                   /\ renewAt'[q] <= now'
                   /\ Beating(q)' => now' <= beat'[q] + Interval + Jitter
                   /\ Beating(q)' /\ renewAt'[q] # NoCall
                        => now' <= renewAt'[q] + RoundTrip
<1>0. /\ mark[q] <= now /\ beat[q] <= now /\ renewAt[q] <= now
      /\ Beating(q) => now <= beat[q] + Interval + Jitter
      /\ Beating(q) /\ renewAt[q] # NoCall => now <= renewAt[q] + RoundTrip
      /\ pc[q] \in {"idle", "reclaiming", "creating"} => renewAt[q] = NoCall
  BY DEF ClockInv, FreshInv
<1> USE Parameters, <1>0 DEF TypeOK, NoCall
<1>1. ASSUME NEW p \in Ops, OpStep(p) PROVE Goal
  <2>1. CASE StartAcquire(p)
    BY <2>1 DEF StartAcquire, Beating
  <2>2. CASE Reclaim(p)
    BY <2>2 DEF Reclaim, Acquired, Beating
  <2>3. CASE ReclaimNothing(p)
    BY <2>3 DEF ReclaimNothing, Beating
  <2>4. CASE Create(p)
    BY <2>4 DEF Create, Acquired, Beating
  <2>5. CASE CreateConflict(p)
    BY <2>5 DEF CreateConflict, Beating
  <2>6. CASE AcquireFails(p)
    BY <2>6 DEF AcquireFails, Beating
  <2>7. CASE Heartbeat(p)
    BY <2>7 DEF Heartbeat, Beating
  <2>8. CASE Renew(p)
    BY <2>8 DEF Renew, Beating
  <2>9. CASE RenewFails(p)
    BY <2>9 DEF RenewFails, Beating
  <2>10. CASE AssertOwned(p)
    BY <2>10 DEF AssertOwned, Beating
  <2>11. CASE Stop(p)
    BY <2>11 DEF Stop, Beating
  <2>12. CASE Release(p) \/ ReleaseFails(p)
    BY <2>12 DEF Release, ReleaseFails, Beating
  <2>13. CASE Crash(p)
    BY <2>13 DEF Crash, Beating
  <2> QED
    BY <1>1, <2>1, <2>2, <2>3, <2>4, <2>5, <2>6, <2>7, <2>8, <2>9, <2>10,
       <2>11, <2>12, <2>13 DEF OpStep
<1>2. ASSUME NEW c \in Containers, DeleteContainer(c) PROVE Goal
  BY <1>2 DEF DeleteContainer, Beating
<1>3. CASE Tick
  <2>1. /\ Beating(q) => now < beat[q] + Interval + Jitter
        /\ Beating(q) /\ renewAt[q] # NoCall => now < renewAt[q] + RoundTrip
    BY <1>3 DEF Tick, Due
  <2> QED BY <1>3, <2>1 DEF Tick, Beating
<1>4. CASE UNCHANGED vars
  BY <1>4 DEF vars, Beating
<1> QED BY <1>1, <1>2, <1>3, <1>4 DEF Next

-----------------------------------------------------------------------------
(* The row of an operation that still believes has not expired: in every   *)
(* part of its heartbeat's cycle the expiry time is later than the clock.  *)
LEMMA Unexpired ==
  ASSUME TypeOK, ClockInv, LeaseInv, NEW p \in Ops, Believes(p),
         target[p] \in exists
  PROVE  Owns(p) /\ row[target[p]] \in Row /\ row[target[p]].expiresAt > now
<1>1. LeaseOf(p)
  BY DEF LeaseInv
<1>2. Owns(p) /\ row[target[p]] \in Row
  BY <1>1 DEF LeaseOf, Owns, TypeOK
<1>3. row[target[p]].expiresAt \in Nat
  BY <1>2 DEF Row
<1>4. CASE pc[p] = "finalizing"
  BY <1>1, <1>2, <1>3, <1>4, Parameters DEF LeaseOf, WriteInv, TypeOK
<1>5. CASE pc[p] = "working" /\ ~lost[p]
  <2>1. /\ IdleInv(p) /\ CallInv(p)
        /\ now <= beat[p] + Interval + Jitter
        /\ renewAt[p] # NoCall => now <= renewAt[p] + RoundTrip
    BY <1>1, <1>5 DEF LeaseOf, Beating, ClockInv
  <2>2. CASE renewAt[p] = NoCall
    BY <1>2, <1>3, <2>1, <2>2, Parameters DEF IdleInv, TypeOK
  <2>3. CASE renewAt[p] # NoCall
    BY <1>2, <1>3, <2>1, <2>3, Parameters DEF CallInv, TypeOK
  <2> QED BY <2>2, <2>3
<1> QED BY <1>4, <1>5 DEF Believes

(* What another operation or another container does leaves the lease of an *)
(* operation alone, as long as its row stays.                              *)
LEMMA Unaffected ==
  ASSUME NEW p \in Ops, LeaseOf(p),
         now' = now, target' = target,
         pc'[p] = pc[p], mark'[p] = mark[p], beat'[p] = beat[p],
         renewAt'[p] = renewAt[p], lost'[p] = lost[p],
         row'[target[p]] = row[target[p]]
  PROVE  LeaseOf(p)'
  BY DEF LeaseOf, Believes, Beating, Owns, IdleInv, CallInv, WriteInv

(* The same when the operation has left its critical section.              *)
LEMMA Finished ==
  ASSUME NEW p \in Ops, pc'[p] \notin {"working", "finalizing"}
  PROVE  LeaseOf(p)'
  BY DEF LeaseOf, Believes, Beating, WriteInv

(* The part of the lease proof about the operation that takes the step:    *)
(* each point of its own cycle, from the acquisition to the write.         *)
LEMMA OwnStep ==
  ASSUME TypeOK, ClockInv, FreshInv, LeaseInv, NEW p \in Ops, OpStep(p),
         target[p] \in exists
  PROVE  LeaseOf(p)'
<1> USE Parameters DEF TypeOK, NoCall
<1>0. /\ LeaseOf(p)
      /\ mark[p] <= now /\ beat[p] <= now /\ renewAt[p] <= now
      /\ Beating(p) => now <= beat[p] + Interval + Jitter
      /\ Beating(p) /\ renewAt[p] # NoCall => now <= renewAt[p] + RoundTrip
  BY DEF LeaseInv, ClockInv
<1>1. CASE Reclaim(p) \/ Create(p)
  <2>1. renewAt[p] = NoCall /\ ~lost[p] /\ Acquired(p)
    BY <1>1 DEF FreshInv, Reclaim, Create
  <2>2. CASE pc'[p] = "failed"
    BY <2>2, Finished
  <2>3. CASE now <= mark[p] + RoundTrip /\ pc'[p] = "working" /\ beat'[p] = now
    <3>1. row'[target[p]] = RowOf(p, mark[p]) /\ RowOf(p, mark[p]) \in Row
      BY <2>1 DEF Acquired, RowOf, Row
    <3>2. NoRow \notin Row
      BY ConstantsAssumption DEF Row
    <3>3. /\ target' = target /\ now' = now /\ renewAt' = renewAt
      BY <2>1 DEF Acquired
    <3> QED BY <1>0, <2>1, <2>3, <3>1, <3>2, <3>3
            DEF LeaseOf, Believes, Owns, Beating, IdleInv, CallInv, WriteInv, RowOf
  <2> QED BY <2>1, <2>2, <2>3 DEF Acquired, States
<1>2. CASE Heartbeat(p)
  <2>1. row' = row /\ pc' = pc /\ target' = target /\ now' = now
        /\ mark' = mark /\ lost' = lost /\ beat'[p] = now
    BY <1>2 DEF Heartbeat
  <2>2. ~lost[p] => IdleInv(p) /\ CallInv(p)
    BY <1>0, <1>2 DEF LeaseOf, Heartbeat
  <2>3. Owns(p) => row[target[p]].expiresAt \in Nat
    BY DEF Owns, Row
  <2>4. CASE renewAt[p] = NoCall /\ ~lost[p]
    <3>1. renewAt'[p] = now
      BY <1>2, <2>4 DEF Heartbeat
    <3> QED BY <1>0, <1>2, <2>1, <2>2, <2>3, <2>4, <3>1
            DEF LeaseOf, Believes, Owns, Beating, IdleInv, CallInv, WriteInv, Heartbeat
  <2>5. CASE ~(renewAt[p] = NoCall /\ ~lost[p])
    <3>1. renewAt'[p] = renewAt[p]
      BY <1>2, <2>5 DEF Heartbeat
    <3> QED BY <1>0, <1>2, <2>1, <2>2, <2>3, <2>5, <3>1
            DEF LeaseOf, Believes, Owns, Beating, IdleInv, CallInv, WriteInv
  <2> QED BY <2>4, <2>5
<1>3. CASE Renew(p)
  <2>1. row'[target[p]] = RowOf(p, renewAt[p]) /\ RowOf(p, renewAt[p]) \in Row
    BY <1>3 DEF Renew, RowOf, Row
  <2>2. NoRow \notin Row
    BY ConstantsAssumption DEF Row
  <2>3. /\ target' = target /\ now' = now /\ pc' = pc /\ mark' = mark
        /\ beat' = beat /\ renewAt'[p] = NoCall /\ renewAt[p] \in Nat
    BY <1>3 DEF Renew
  <2>4. lost[p] => lost'[p]
    BY <1>3 DEF Renew
  <2>5. Owns(p) /\ row[target[p]].expiresAt \in Nat
    BY <1>3 DEF Renew, RenewMatches, Owns, Row
  <2>6. Owns(p)' /\ row'[target[p]].expiresAt = renewAt[p] + Ttl
    BY <2>1, <2>2, <2>3 DEF Owns, RowOf
  <2>7. Beating(p) => now <= renewAt[p] + RoundTrip
    BY <1>0, <2>3
  <2>8. Beating(p) => IdleInv(p)' /\ CallInv(p)'
    <3>1. Beating(p) => renewAt[p] + Ttl >= beat[p] + Ttl - RoundTrip
      BY <1>0, <2>3, <2>7
    <3> QED BY <2>3, <2>6, <3>1 DEF IdleInv, CallInv
  <2>9. WriteInv(p)'
    <3>1. pc[p] = "finalizing" => mark[p] <= renewAt[p] + RoundTrip
      BY <1>0, <2>3, <2>7 DEF Beating
    <3> QED BY <1>0, <2>3, <2>6, <3>1 DEF LeaseOf, WriteInv
  <2> QED BY <2>3, <2>6, <2>8, <2>9 DEF LeaseOf, Beating
<1>4. CASE RenewFails(p)
  BY <1>0, <1>4 DEF RenewFails, LeaseOf, Believes, Owns, Beating, IdleInv, CallInv, WriteInv
<1>5. CASE AssertOwned(p)
  <2>1. Owns(p) /\ row[target[p]].expiresAt \in Nat
    BY <1>0, <1>5 DEF AssertOwned, LeaseOf, Believes, Owns, Row
  <2>2. IdleInv(p) /\ CallInv(p)
    BY <1>0, <1>5 DEF AssertOwned, LeaseOf, Beating
  <2>3. row[target[p]].expiresAt > now + RoundTrip
    BY <1>0, <1>5, <2>1, <2>2 DEF IdleInv, CallInv, AssertOwned, Beating
  <2> QED BY <1>0, <1>5, <2>1, <2>2, <2>3
          DEF AssertOwned, LeaseOf, Believes, Owns, Beating, IdleInv, CallInv, WriteInv
<1>6. CASE \/ StartAcquire(p) \/ ReclaimNothing(p) \/ CreateConflict(p)
           \/ AcquireFails(p) \/ Stop(p) \/ Release(p) \/ ReleaseFails(p)
           \/ Crash(p)
  BY <1>6, Finished DEF StartAcquire, ReclaimNothing, CreateConflict,
     AcquireFails, Stop, Release, ReleaseFails, Crash, States
<1> QED BY <1>1, <1>2, <1>3, <1>4, <1>5, <1>6 DEF OpStep

(* Another operation cannot take the row of one that still believes: the   *)
(* row has not expired and its token is not the other's.                   *)
LEMMA OtherStep ==
  ASSUME TypeOK, ClockInv, LeaseInv, NEW p \in Ops, NEW q \in Ops, p # q,
         OpStep(q), target[p] \in exists
  PROVE  LeaseOf(p)'
<1> USE DEF TypeOK
<1>0. LeaseOf(p)
  BY DEF LeaseInv
<1>1. /\ now' = now /\ target' = target /\ pc'[p] = pc[p]
      /\ mark'[p] = mark[p] /\ beat'[p] = beat[p]
      /\ renewAt'[p] = renewAt[p] /\ lost'[p] = lost[p]
  BY DEF OpStep, StartAcquire, Reclaim, Create, Acquired, ReclaimNothing,
     CreateConflict, AcquireFails, Heartbeat, Renew, RenewFails, AssertOwned,
     Stop, Release, ReleaseFails, Crash
<1>2. CASE row'[target[p]] = row[target[p]]
  BY <1>0, <1>1, <1>2, Unaffected
<1>3. CASE row'[target[p]] # row[target[p]]
  <2>1. \/ Reclaim(q) \/ Create(q) \/ Renew(q) \/ Release(q)
    BY <1>3 DEF OpStep, StartAcquire, ReclaimNothing, CreateConflict,
       AcquireFails, Heartbeat, RenewFails, AssertOwned, Stop, ReleaseFails,
       Crash
  <2>2. target[q] = target[p]
    BY <1>3, <2>1 DEF Reclaim, Create, Acquired, Renew, Release
  <2>3. \/ row[target[p]] = NoRow
        \/ row[target[p]].expiresAt <= now
        \/ row[target[p]].token = q
    BY <1>3, <2>1, <2>2 DEF Reclaim, Create, Renew, RenewMatches, Release, Owns
  <2>4. Believes(p) => /\ Owns(p)
                       /\ row[target[p]] \in Row
                       /\ row[target[p]].expiresAt > now
    BY Unexpired
  <2>5. ~Believes(p)
    BY <2>3, <2>4 DEF Owns, Row
  <2>6. ~Believes(p)' /\ pc'[p] # "finalizing" /\ ~(Beating(p)' /\ ~lost'[p])
    BY <1>1, <2>5 DEF Believes, Beating
  <2> QED BY <2>6 DEF LeaseOf, WriteInv
<1> QED BY <1>2, <1>3

LEMMA LeaseStep ==
  TypeOK /\ ClockInv /\ FreshInv /\ TokenInv /\ LeaseInv /\ [Next]_vars
    => LeaseInv'
<1> SUFFICES ASSUME TypeOK, ClockInv, FreshInv, TokenInv, LeaseInv, [Next]_vars,
                    NEW p \in Ops, target'[p] \in exists'
             PROVE  LeaseOf(p)'
  BY DEF LeaseInv
<1>1. ASSUME NEW q \in Ops, OpStep(q) PROVE LeaseOf(p)'
  <2>1. target' = target /\ exists' = exists
    BY <1>1 DEF OpStep, StartAcquire, Reclaim, Create, Acquired,
         ReclaimNothing, CreateConflict, AcquireFails, Heartbeat, Renew,
         RenewFails, AssertOwned, Stop, Release, ReleaseFails, Crash
  <2> QED BY <1>1, <2>1, OwnStep, OtherStep
<1>2. ASSUME NEW c \in Containers, DeleteContainer(c) PROVE LeaseOf(p)'
  <2>1. LeaseOf(p) /\ target[p] # c
    BY <1>2 DEF DeleteContainer, LeaseInv
  <2>2. row'[target[p]] = row[target[p]]
    BY <1>2, <2>1 DEF DeleteContainer, TypeOK
  <2> QED BY <1>2, <2>1, <2>2, Unaffected DEF DeleteContainer
<1>3. CASE Tick
  <2>1. LeaseOf(p) /\ ~Due(p)
    BY <1>3 DEF Tick, LeaseInv
  <2>2. Owns(p) => row[target[p]].expiresAt \in Nat
    BY DEF Owns, Row, TypeOK
  <2> QED BY <1>3, <2>1, <2>2, Parameters
          DEF Tick, Due, LeaseOf, Believes, Beating, Owns, IdleInv, CallInv,
              WriteInv, TypeOK, NoCall
<1>4. CASE UNCHANGED vars
  BY <1>4, Unaffected DEF vars, LeaseInv
<1> QED BY <1>1, <1>2, <1>3, <1>4 DEF Next

-----------------------------------------------------------------------------
(* Nobody starts to believe while another operation on the container does: *)
(* reclaiming needs an expired row and creating needs no row at all.       *)
LEMMA MutexStep ==
  TypeOK /\ TokenInv /\ ClockInv /\ LeaseInv /\ MutualExclusion /\ [Next]_vars
    => MutualExclusion'
<1> SUFFICES ASSUME TypeOK, TokenInv, ClockInv, LeaseInv, MutualExclusion,
                    [Next]_vars,
                    NEW p \in Ops, NEW q \in Ops, p # q,
                    Believes(p)', Believes(q)', target'[p] = target'[q]
             PROVE  FALSE
  BY DEF MutualExclusion
<1>1. ASSUME NEW r \in Ops, pc[r] \notin {"reclaiming", "creating"}, Believes(r)'
      PROVE  Believes(r)
  BY <1>1 DEF Next, OpStep, vars, Believes, TypeOK, StartAcquire, Reclaim,
     Create, Acquired, ReclaimNothing, CreateConflict, AcquireFails, Heartbeat,
     Renew, RenewFails, AssertOwned, Stop, Release, ReleaseFails, Crash,
     DeleteContainer, Tick
<1>2. target' = target
  BY DEF Next, OpStep, vars, StartAcquire, Reclaim, Create, Acquired,
     ReclaimNothing, CreateConflict, AcquireFails, Heartbeat, Renew,
     RenewFails, AssertOwned, Stop, Release, ReleaseFails, Crash,
     DeleteContainer, Tick
<1>3. ASSUME NEW r \in Ops, NEW o \in Ops, r # o, target[r] = target[o],
             pc[r] \in {"reclaiming", "creating"}, Believes(r)', Believes(o)'
      PROVE  FALSE
  <2>1. Reclaim(r) \/ Create(r)
    BY <1>3 DEF Next, OpStep, vars, Believes, TypeOK, StartAcquire, Reclaim,
       Create, Acquired, ReclaimNothing, CreateConflict, AcquireFails,
       Heartbeat, Renew, RenewFails, AssertOwned, Stop, Release, ReleaseFails,
       Crash, DeleteContainer, Tick
  <2>2. pc'[o] = pc[o] /\ lost'[o] = lost[o]
    BY <1>3, <2>1 DEF Reclaim, Create, Acquired, TypeOK
  <2>3. Believes(o)
    BY <1>3, <2>2 DEF Believes
  <2>4. target[r] \in exists
    BY <2>1 DEF Reclaim, Create, TokenInv, TypeOK
  <2>5. Owns(o) /\ row[target[o]] \in Row /\ row[target[o]].expiresAt > now
    BY <1>3, <2>3, <2>4, Unexpired
  <2> QED BY <1>3, <2>1, <2>5 DEF Reclaim, Create, Owns, Row, TypeOK
<1>4. pc[p] \notin {"reclaiming", "creating"}
  BY <1>2, <1>3
<1>5. pc[q] \notin {"reclaiming", "creating"}
  BY <1>2, <1>3
<1> QED BY <1>1, <1>2, <1>4, <1>5 DEF MutualExclusion

(* The inductive invariant and what follows from it.                       *)
LEMMA InvInit == Init => IInv
<1> SUFFICES ASSUME Init PROVE IInv
  OBVIOUS
<1>1. TypeOK
  BY TypeInit
<1> QED BY <1>1 DEF Init, IInv, TokenInv, ClockInv, FreshInv, LeaseInv,
           MutualExclusion, LeaseOf, Believes, Beating, Owns, WriteInv, NoCall

LEMMA InvNext == IInv /\ [Next]_vars => IInv'
  BY TypeNext, TokenNext, ClockNext, FreshNext, LeaseStep, MutexStep DEF IInv

THEOREM Invariant == Spec => []IInv
  BY InvInit, InvNext, PTL DEF Spec

(* Two operations on the same container never both think they own it.      *)
THEOREM Exclusion == Spec => []MutualExclusion
<1>1. IInv => MutualExclusion
  BY DEF IInv
<1> QED BY <1>1, Invariant, PTL

(* What assertOwned let through is written under an unexpired row.         *)
THEOREM LockedWrites == Spec => []WritesUnderLock
<1>1. IInv => WritesUnderLock
  BY Unexpired DEF IInv, WritesUnderLock, Believes
<1> QED BY <1>1, Invariant, PTL

-----------------------------------------------------------------------------
(* The refinement.  HeldBy(p) says in terms of the detailed state that p   *)
(* is the abstract holder of its container.                                *)
HeldBy(p) == Owns(p) /\ Believes(p)

HolderInv == /\ LeaseHolder \in [Containers -> Ops \cup {NoOp}]
             /\ \A c \in Containers, p \in Ops :
                  LeaseHolder[c] = p <=> target[p] = c /\ HeldBy(p)

LEMMA HolderType == TypeOK /\ TokenInv => HolderInv
  BY ConstantsAssumption DEF HolderInv, LeaseHolder, HeldBy, Owns, TokenInv,
     TypeOK, Row

LEMMA Holders == IInv /\ IInv' => HolderInv /\ HolderInv'
<1>1. IInv => HolderInv
  BY HolderType DEF IInv
<1> QED BY <1>1, PTL

(* A step that leaves every operation's hold and its writing as they are   *)
(* is a stuttering step of the lease.                                      *)
LEMMA Stutter ==
  ASSUME HolderInv, HolderInv', target' = target,
         \A p \in Ops : HeldBy(p)' <=> HeldBy(p),
         \A p \in Ops : HeldBy(p) =>
           (pc'[p] = "finalizing" <=> pc[p] = "finalizing")
  PROVE  UNCHANGED <<LeaseHolder, LeaseWriting>>
<1>1. LeaseHolder' = LeaseHolder
  <2>1. \A c \in Containers, p \in Ops : LeaseHolder'[c] = p <=> LeaseHolder[c] = p
    BY DEF HolderInv
  <2> QED BY <2>1, ConstantsAssumption DEF HolderInv
<1>2. LeaseWriting' = LeaseWriting
  BY DEF LeaseWriting, HeldBy, Believes
<1> QED BY <1>1, <1>2

(* A step after which one operation does not hold its container any more   *)
(* is a Drop.                                                              *)
LEMMA Dropped ==
  ASSUME HolderInv, HolderInv', TypeOK, target' = target, NEW p \in Ops,
         HeldBy(p), ~HeldBy(p)',
         \A q \in Ops : q # p => /\ HeldBy(q)' <=> HeldBy(q)
                                /\ pc'[q] = pc[q]
  PROVE  Lease!Drop(p, target[p])
<1>1. target[p] \in Containers
  BY DEF TypeOK
<1>2. Lease!Holds(p, target[p])
  BY <1>1 DEF Lease!Holds, HolderInv
<1>3. LeaseHolder' = [LeaseHolder EXCEPT ![target[p]] = NoOp]
  <2>1. \A c \in Containers, q \in Ops :
          LeaseHolder'[c] = q <=> q # p /\ LeaseHolder[c] = q
    BY DEF HolderInv
  <2> QED BY <1>1, <1>2, <2>1, ConstantsAssumption DEF HolderInv, Lease!Holds
<1>4. LeaseWriting' = LeaseWriting \ {p}
  BY DEF LeaseWriting, HeldBy, Believes
<1> QED BY <1>2, <1>3, <1>4 DEF Lease!Drop

(* A step after which a new operation holds a container is a Grant.        *)
LEMMA Granted ==
  ASSUME HolderInv, HolderInv', TypeOK, target' = target, NEW p \in Ops,
         ~HeldBy(p), HeldBy(p)', pc'[p] = "working",
         \A q \in Ops : HeldBy(q) => target[q] # target[p],
         \A q \in Ops : q # p => /\ HeldBy(q)' <=> HeldBy(q)
                                /\ pc'[q] = pc[q]
  PROVE  Lease!Grant(p, target[p])
<1>1. target[p] \in Containers
  BY DEF TypeOK
<1>2. LeaseHolder[target[p]] = NoOp
  BY <1>1 DEF HolderInv
<1>3. \A d \in Containers : ~Lease!Holds(p, d)
  BY DEF HolderInv, Lease!Holds
<1>4. LeaseHolder' = [LeaseHolder EXCEPT ![target[p]] = p]
  <2>1. \A c \in Containers, q \in Ops :
          LeaseHolder'[c] = q <=> \/ q = p /\ c = target[p]
                                 \/ LeaseHolder[c] = q
    BY <1>2, ConstantsAssumption DEF HolderInv
  <2> QED BY <1>1, <1>2, <2>1, ConstantsAssumption DEF HolderInv
<1>5. LeaseWriting' = LeaseWriting
  BY DEF LeaseWriting, HeldBy, Believes
<1> QED BY <1>2, <1>3, <1>4, <1>5 DEF Lease!Grant

(* Only an operation that takes its own step changes its program counter,  *)
(* and only the owner of a row that has not expired is affected by what    *)
(* the others do.                                                          *)
LEMMA OthersHold ==
  ASSUME IInv, NEW p \in Ops, OpStep(p), NEW q \in Ops, q # p
  PROVE  /\ HeldBy(q)' <=> HeldBy(q)
         /\ pc'[q] = pc[q]
<1> USE DEF TypeOK
<1>1. /\ target' = target /\ pc'[q] = pc[q] /\ lost'[q] = lost[q]
  BY DEF IInv, OpStep, StartAcquire, Reclaim, Create, Acquired, ReclaimNothing,
     CreateConflict, AcquireFails, Heartbeat, Renew, RenewFails, AssertOwned,
     Stop, Release, ReleaseFails, Crash
<1>2. Believes(q)' <=> Believes(q)
  BY <1>1 DEF Believes
<1>3. ASSUME Believes(q) PROVE Owns(q)' <=> Owns(q)
  <2>1. CASE row'[target[q]] = row[target[q]]
    BY <1>1, <2>1 DEF Owns
  <2>2. CASE row'[target[q]] # row[target[q]]
    <3>1. Reclaim(p) \/ Create(p) \/ Renew(p) \/ Release(p)
      BY <2>2 DEF OpStep, StartAcquire, ReclaimNothing, CreateConflict,
         AcquireFails, Heartbeat, RenewFails, AssertOwned, Stop, ReleaseFails,
         Crash
    <3>2. target[p] = target[q]
      BY <2>2, <3>1 DEF IInv, Reclaim, Create, Acquired, Renew, Release
    <3>3. /\ Owns(q) => ~(Renew(p) \/ Release(p))
      BY <2>2, <3>2 DEF Renew, RenewMatches, Release, Owns
    <3>4. target[q] \in exists => ~(Reclaim(p) \/ Create(p))
      <4>1. target[q] \in exists =>
              Owns(q) /\ row[target[q]] \in Row /\ row[target[q]].expiresAt > now
        BY <1>3, Unexpired DEF IInv
      <4> QED BY <3>2, <4>1 DEF IInv, Reclaim, Create, Owns, Row
    <3>5. target[q] \notin exists => row[target[q]] = NoRow
      BY DEF IInv, TokenInv
    <3>6. target[q] \notin exists => ~(Reclaim(p) \/ Create(p))
      BY <3>2, <3>5 DEF Reclaim, Create
    <3>7. ~Owns(q) => target[q] \notin exists
      BY <1>3, Unexpired DEF IInv
    <3>8. ~Owns(q) => ~(Renew(p) \/ Release(p))
      BY <2>2, <3>2, <3>5, <3>7 DEF Renew, RenewMatches, Release, Owns
    <3> QED BY <3>1, <3>3, <3>4, <3>6, <3>8
  <2> QED BY <2>1, <2>2
<1> QED BY <1>1, <1>2, <1>3 DEF HeldBy

(* Every step of the token table is a step of the lease or leaves it       *)
(* alone.                                                                  *)
LEMMA LeaseSimulation ==
  IInv /\ IInv' /\ [Next]_vars => [Lease!LeaseNext]_(Lease!leaseVars)
<1> SUFFICES ASSUME IInv, IInv', [Next]_vars
             PROVE  \/ Lease!LeaseNext
                    \/ UNCHANGED <<LeaseHolder, LeaseWriting>>
  BY DEF Lease!leaseVars
<1>0. HolderInv /\ HolderInv' /\ TypeOK
  BY Holders DEF IInv
<1> DEFINE Same == UNCHANGED <<LeaseHolder, LeaseWriting>>
<1>1. ASSUME NEW p \in Ops, OpStep(p) PROVE Lease!LeaseNext \/ Same
  <2> USE DEF TypeOK
  <2>0. /\ \A q \in Ops : q # p => (HeldBy(q)' <=> HeldBy(q)) /\ pc'[q] = pc[q]
        /\ target' = target /\ target[p] \in Containers
    BY <1>0, <1>1, OthersHold DEF OpStep, StartAcquire, Reclaim, Create,
       Acquired, ReclaimNothing, CreateConflict, AcquireFails, Heartbeat,
       Renew, RenewFails, AssertOwned, Stop, Release, ReleaseFails, Crash
  <2>1. CASE HeldBy(p) /\ ~HeldBy(p)'
    <3>1. Lease!Drop(p, target[p])
      BY <1>0, <2>0, <2>1, Dropped
    <3> QED BY <2>0, <3>1 DEF Lease!LeaseNext
  <2>2. CASE ~HeldBy(p) /\ HeldBy(p)'
    <3>1. Reclaim(p) \/ Create(p)
      BY <1>0, <1>1, <2>2 DEF HeldBy, Owns, Believes, OpStep, StartAcquire,
         ReclaimNothing, CreateConflict, AcquireFails, Heartbeat, Renew,
         RenewMatches, RenewFails, AssertOwned, Stop, Release, ReleaseFails,
         Crash
    <3>2. pc'[p] = "working"
      BY <1>0, <2>2, <3>1 DEF Reclaim, Create, Acquired, HeldBy, Believes
    <3>3. ASSUME NEW q \in Ops, HeldBy(q), target[q] = target[p] PROVE FALSE
      <4>1. q # p
        BY <2>2, <3>3
      <4>2. HeldBy(q)'
        BY <2>0, <3>3, <4>1
      <4> QED BY <2>0, <2>2, <3>3, <4>1, <4>2 DEF HeldBy, IInv, MutualExclusion
    <3>4. Lease!Grant(p, target[p])
      BY <1>0, <2>0, <2>2, <3>2, <3>3, Granted
    <3> QED BY <2>0, <3>4 DEF Lease!LeaseNext
  <2>3. CASE HeldBy(p) <=> HeldBy(p)'
    <3>1. CASE AssertOwned(p) /\ HeldBy(p)
      <4>1. UNCHANGED LeaseHolder
        BY <1>0, <2>0, <2>3, ConstantsAssumption DEF HolderInv
      <4>2. p \notin LeaseWriting /\ LeaseWriting' = LeaseWriting \cup {p}
        BY <1>0, <3>1 DEF LeaseWriting, AssertOwned, HeldBy, Owns
      <4>3. Lease!StartWriting(p)
        BY <1>0, <2>0, <3>1, <4>1, <4>2 DEF Lease!StartWriting, Lease!Holds, HolderInv
      <4> QED BY <4>3 DEF Lease!LeaseNext
    <3>2. CASE ~(AssertOwned(p) /\ HeldBy(p))
      <4>1. HeldBy(p) => (pc'[p] = "finalizing" <=> pc[p] = "finalizing")
        BY <1>0, <1>1, <2>3, <3>2 DEF HeldBy, Believes, OpStep, StartAcquire,
           Reclaim, Create, Acquired, ReclaimNothing, CreateConflict,
           AcquireFails, Heartbeat, Renew, RenewFails, AssertOwned, Stop,
           Beating, Release, ReleaseFails, Crash
      <4> QED BY <1>0, <2>0, <2>3, <4>1, Stutter
    <3> QED BY <3>1, <3>2
  <2> QED BY <2>1, <2>2, <2>3
<1>2. ASSUME NEW c \in Containers, DeleteContainer(c) PROVE Lease!LeaseNext \/ Same
  <2>1. /\ target' = target /\ pc' = pc /\ lost' = lost
        /\ row' = [row EXCEPT ![c] = NoRow]
    BY <1>2 DEF DeleteContainer
  <2>2. \A q \in Ops : HeldBy(q)' <=> HeldBy(q) /\ target[q] # c
    BY <1>0, <2>1 DEF HeldBy, Owns, Believes, TypeOK
  <2>3. \A d \in Containers, q \in Ops :
          LeaseHolder'[d] = q <=> d # c /\ LeaseHolder[d] = q
    BY <1>0, <2>1, <2>2 DEF HolderInv
  <2>4. LeaseHolder' = [LeaseHolder EXCEPT ![c] = NoOp]
    BY <1>0, <2>3, ConstantsAssumption DEF HolderInv
  <2>5. LeaseWriting' = LeaseWriting \ {LeaseHolder[c]}
    <3>1. \A q \in Ops : q \in LeaseWriting' <=> q \in LeaseWriting /\ target[q] # c
      BY <1>0, <2>1 DEF LeaseWriting, Owns, TypeOK
    <3>2. \A q \in Ops : q \in LeaseWriting => (LeaseHolder[c] = q <=> target[q] = c)
      BY <1>0 DEF LeaseWriting, HolderInv, HeldBy, Believes
    <3> QED BY <3>1, <3>2 DEF LeaseWriting
  <2>6. Lease!Remove(c)
    BY <2>4, <2>5 DEF Lease!Remove
  <2> QED BY <2>6 DEF Lease!LeaseNext
<1>3. CASE Tick
  <2>1. target' = target /\ pc' = pc /\ lost' = lost /\ row' = row
    BY <1>3 DEF Tick
  <2> QED BY <2>1 DEF LeaseHolder, LeaseWriting, Believes, Owns
<1>4. CASE UNCHANGED vars
  <2>1. target' = target /\ pc' = pc /\ lost' = lost /\ row' = row
    BY <1>4 DEF vars
  <2> QED BY <2>1 DEF LeaseHolder, LeaseWriting, Believes, Owns
<1> QED BY <1>1, <1>2, <1>3, <1>4 DEF Next

(* The token table with expiry and heartbeat implements the lease.         *)
THEOREM Refinement == Spec => LeaseRefinement
<1>1. Init => Lease!LeaseInit
  BY DEF Init, Lease!LeaseInit, LeaseHolder, LeaseWriting, Owns
<1> QED BY <1>1, LeaseSimulation, Invariant, PTL
        DEF Spec, LeaseRefinement, Lease!LeaseSpec
=============================================================================
