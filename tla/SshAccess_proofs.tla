-------------------------- MODULE SshAccess_proofs --------------------------
(***************************************************************************)
(* Proofs about SshAccess for every set of requests, policies and bases,   *)
(* and every number of failing commands.                                   *)
(***************************************************************************)
EXTENDS SshAccess, TLAPS

USE DEF server, units

LEMMA InvInit == Init => IInv
<1> SUFFICES ASSUME Init PROVE IInv
  OBVIOUS
<1>1. TypeOK
  <2>1. base \in Policy /\ managed \in File
    BY ConstantsAssumption DEF Init, File
  <2>2. daemon \in Policy
    BY <2>1 DEF Init, Effective, File
  <2>3. req \in [Requests -> Request]
    BY <2>1 DEF Init, Request, Steps, Answers, File
  <2>4. timer \in [Requests -> Timers] /\ faults \in 0..MaxFaults
    BY ConstantsAssumption DEF Init, Timers
  <2>5. account \in Account /\ disturbed \subseteq Requests
        /\ dir \in [Requests -> Directory \cup {None}]
    BY DEF Init
  <2> QED BY <2>1, <2>2, <2>3, <2>4, <2>5 DEF TypeOK
<1>2. NotLockedOut
  BY DEF Init, NotLockedOut
<1>3. Installable
  BY DEF Init, Installable, Working
<1>4. AloneKeeps
  BY DEF Init, AloneKeeps, Alone, At
<1> QED BY <1>1, <1>2, <1>3, <1>4 DEF IInv

(* validateSshAccessPolicy accepts nothing that locks Doktainer out.       *)
LEMMA ValidAdmits ==
  ASSUME TypeOK, NEW desired \in Desired, NEW temporary \in BOOLEAN,
         Valid(desired, temporary)
  PROVE  Admits(desired)
BY DEF TypeOK, Account, Valid, Admits

(* A policy that was asked for or was in force is a policy.                *)
LEMMA EffectivePolicy ==
  ASSUME TypeOK, NEW file \in File
  PROVE  Effective(file) \in Policy
BY DEF TypeOK, File, Effective

LEMMA TypeStep == TypeOK /\ [Next]_vars => TypeOK'
<1> SUFFICES ASSUME TypeOK, [Next]_vars PROVE TypeOK'
  OBVIOUS
<1>g. ASSUME NEW r \in Requests, NEW s \in Steps, Goto(r, s)
      PROVE  req' \in [Requests -> Request]
  BY <1>g DEF Goto, TypeOK, Request
<1>f. ASSUME NEW r \in Requests, NEW a \in Answers, Finish(r, a)
      PROVE  req' \in [Requests -> Request]
  BY <1>f DEF Finish, TypeOK, Request, Steps
<1>e. Effective(managed) \in Policy
  BY EffectivePolicy DEF TypeOK
<1>w. ASSUME NEW r \in Requests, Writes(r) \/ TimerWrites(r)
      PROVE  disturbed' \subseteq Requests
  BY <1>w DEF Writes, TimerWrites, TypeOK
<1>c. Fine \/ Fault => faults' \in 0..MaxFaults
  BY ConstantsAssumption DEF Fine, Fault, TypeOK
<1>1. ASSUME NEW r \in Requests, Load(r) PROVE TypeOK'
  <2>1. req' \in [Requests -> Request]
    <3>1. [req[r] EXCEPT !.pc = "loaded", !.revision = managed] \in Request
      BY DEF TypeOK, Request, Steps
    <3> QED BY <1>1, <3>1 DEF Load, TypeOK
  <2> QED BY <1>1, <2>1 DEF Load, TypeOK
<1>2. ASSUME NEW r \in Requests, Submit(r) PROVE TypeOK'
  <2>1. req' \in [Requests -> Request]
    <3>1. PICK desired \in Desired, temporary \in BOOLEAN :
            IF req[r].revision = managed /\ Valid(desired, temporary)
            THEN req' = [req EXCEPT ![r].pc = "read", ![r].desired = desired,
                                    ![r].temporary = temporary]
            ELSE Finish(r, "refused")
      BY <1>2 DEF Submit
    <3>2. CASE Finish(r, "refused")
      BY <3>2, <1>f DEF Answers
    <3>3. CASE req' = [req EXCEPT ![r].pc = "read", ![r].desired = desired,
                                  ![r].temporary = temporary]
      <4>1. desired \in Policy
        BY ConstantsAssumption
      <4>2. [req[r] EXCEPT !.pc = "read", !.desired = desired, !.temporary = temporary]
              \in Request
        BY <4>1 DEF TypeOK, Request, Steps
      <4> QED BY <3>3, <4>2 DEF TypeOK
    <3> QED BY <3>1, <3>2, <3>3
  <2> QED BY <1>2, <2>1 DEF Submit, TypeOK
<1>3. ASSUME NEW r \in Requests, ReadPrevious(r) PROVE TypeOK'
  <2>1. req' \in [Requests -> Request]
    <3>1. CASE Finish(r, "refused")
      BY <3>1, <1>f DEF Answers
    <3>2. CASE req' = [req EXCEPT ![r].pc = "install", ![r].previous = managed]
      BY <3>2 DEF TypeOK, Request, Steps
    <3> QED BY <1>3, <3>1, <3>2 DEF ReadPrevious
  <2> QED BY <1>3, <2>1, <1>c DEF ReadPrevious, TypeOK
<1>4. ASSUME NEW r \in Requests, Install(r) PROVE TypeOK'
  <2>1. req' \in [Requests -> Request]
    BY <1>4, <1>g, <1>f DEF Install, Steps, Answers
  <2>2. managed' \in File
    <3>1. req[r] \in Request /\ managed \in File
      BY DEF TypeOK
    <3>2. req[r].desired \in File
      BY <3>1 DEF Request, File
    <3> QED BY <1>4, <3>1, <3>2 DEF Install
  <2> QED BY <1>4, <2>1, <2>2, <1>c, <1>w DEF Install, TypeOK
<1>5. ASSUME NEW r \in Requests, Reload(r) PROVE TypeOK'
  <2>1. req' \in [Requests -> Request]
    BY <1>5, <1>g DEF Reload, Steps
  <2>2. daemon' \in Policy
    BY <1>5, <1>e DEF Reload, TypeOK
  <2> QED BY <1>5, <2>1, <2>2, <1>c, <1>w DEF Reload, TypeOK
<1>6. ASSUME NEW r \in Requests, Test(r) PROVE TypeOK'
  <2>1. req' \in [Requests -> Request]
    BY <1>6, <1>g DEF Test, Steps
  <2> QED BY <1>6, <2>1, <1>c DEF Test, TypeOK
<1>7. ASSUME NEW r \in Requests, CancelTimers(r) PROVE TypeOK'
  <2>1. req' \in [Requests -> Request]
    BY <1>7, <1>g DEF CancelTimers, Steps
  <2>2. ASSUME NEW S \in SUBSET Requests
        PROVE  /\ Stopped(S) \in [Requests -> Timers]
               /\ Deleted(S) \in [Requests -> Directory \cup {None}]
    BY DEF Stopped, Deleted, TypeOK, Timers
  <2>3. /\ timer' \in [Requests -> Timers]
        /\ dir' \in [Requests -> Directory \cup {None}]
    BY <1>7, <2>2 DEF CancelTimers
  <2> QED BY <1>7, <2>1, <2>3, <1>c, <1>w DEF CancelTimers, TypeOK
<1>8. ASSUME NEW r \in Requests, Schedule(r) PROVE TypeOK'
  <2>1. req' \in [Requests -> Request]
    BY <1>8, <1>g DEF Schedule, Steps
  <2>2. [previous |-> req[r].previous, expected |-> Expected(r)]
          \in Directory
    BY DEF TypeOK, Request, Expected, Directory
  <2>3. /\ timer' \in [Requests -> Timers]
        /\ dir' \in [Requests -> Directory \cup {None}]
    BY <1>8, <2>2 DEF Schedule, TypeOK, Timers
  <2> QED BY <1>8, <2>1, <2>3, <1>c, <1>w DEF Schedule, TypeOK
<1>9. ASSUME NEW r \in Requests, Status(r) PROVE TypeOK'
  <2>1. req' \in [Requests -> Request]
    BY <1>9, <1>f DEF Status, Answers
  <2> QED BY <1>9, <2>1, <1>c DEF Status, TypeOK
<1>10. ASSUME NEW r \in Requests, Restore(r) PROVE TypeOK'
  <2>1. req' \in [Requests -> Request]
    BY <1>10, <1>g, <1>f DEF Restore, Steps, Answers
  <2>2. managed' \in File
    BY <1>10 DEF Restore, TypeOK, Request
  <2> QED BY <1>10, <2>1, <2>2, <1>c, <1>w DEF Restore, TypeOK
<1>11. ASSUME NEW r \in Requests, RestoreReload(r) PROVE TypeOK'
  <2>1. req' \in [Requests -> Request]
    BY <1>11, <1>g, <1>f DEF RestoreReload, Steps, Answers
  <2>2. daemon' \in Policy
    BY <1>11, <1>e DEF RestoreReload, TypeOK
  <2> QED BY <1>11, <2>1, <2>2, <1>c, <1>w DEF RestoreReload, TypeOK
<1>12. ASSUME NEW r \in Requests, RestoreTest(r) PROVE TypeOK'
  <2>1. req' \in [Requests -> Request]
    BY <1>12, <1>f DEF RestoreTest, Answers
  <2> QED BY <1>12, <2>1, <1>c DEF RestoreTest, TypeOK
<1>13. ASSUME NEW t \in Requests, TimerFires(t) PROVE TypeOK'
  BY <1>13 DEF TimerFires, TypeOK, Timers
<1>14. ASSUME NEW t \in Requests, TimerInstalls(t) PROVE TypeOK'
  <2>1. managed' \in File
    BY <1>14 DEF TimerInstalls, TypeOK, Directory
  <2>2. timer' \in [Requests -> Timers]
    BY <1>14 DEF TimerInstalls, TypeOK, Timers
  <2> QED BY <1>14, <2>1, <2>2, <1>w DEF TimerInstalls, TypeOK
<1>15. ASSUME NEW t \in Requests, TimerReloads(t) PROVE TypeOK'
  <2>1. timer' \in [Requests -> Timers]
        /\ dir' \in [Requests -> Directory \cup {None}]
    BY <1>15 DEF TimerReloads, TypeOK, Timers
  <2> QED BY <1>15, <2>1, <1>e, <1>w DEF TimerReloads, TypeOK
<1>16. CASE UNCHANGED vars
  BY <1>16 DEF vars, TypeOK
<1> QED BY <1>1, <1>2, <1>3, <1>4, <1>5, <1>6, <1>7, <1>8, <1>9, <1>10, <1>11, <1>12,
           <1>13, <1>14, <1>15, <1>16 DEF Next, Apply, Timer

(* What may still be installed stays good, whatever requests and timers do *)
(* and whichever commands fail: a policy enters a request through          *)
(* validateSshAccessPolicy or is read from the host, where it admitted.    *)
LEMMA AccessStep ==
  ASSUME TypeOK, NotLockedOut, Installable, [Next]_vars
  PROVE  NotLockedOut' /\ Installable'
<1> USE DEF NotLockedOut, Installable
<1>p. \A p \in Policy : Effective(p) = p
  BY ConstantsAssumption DEF Effective
<1>r. \A r \in Requests : req[r] \in Request
  BY DEF TypeOK
<1>u. ASSUME server' = server, managed' = managed, daemon' = daemon PROVE NotLockedOut'
  BY <1>u DEF Admits, Effective
<1>d. ASSUME server' = server,
             \A t \in Requests : dir'[t] # None =>
               \/ dir'[t] = dir[t]
               \/ Admits(Effective(dir'[t].previous))
      PROVE  \A t \in Requests : dir'[t] # None => Admits(Effective(dir[t].previous))'
  BY <1>d DEF Admits, Effective
<1>q. ASSUME server' = server,
             \A q \in Requests : Working(q)' =>
               /\ Working(q) /\ req'[q].desired = req[q].desired
               /\ ~At(q, "read")' => ~At(q, "read") /\ req'[q].previous = req[q].previous
      PROVE  /\ \A q \in Requests : Working(q)' => Admits(req[q].desired)'
             /\ \A q \in Requests :
                  Working(q)' /\ ~At(q, "read")' => Admits(Effective(req[q].previous))'
  BY <1>q DEF Admits, Effective
<1>g. ASSUME NEW r \in Requests, Working(r), ~At(r, "read"),
             \/ \E s \in Steps \ {"idle", "loaded", "read"} : Goto(r, s)
             \/ \E a \in Answers : Finish(r, a)
      PROVE  \A q \in Requests : Working(q)' =>
               /\ Working(q) /\ req'[q].desired = req[q].desired
               /\ ~At(q, "read")' => ~At(q, "read") /\ req'[q].previous = req[q].previous
  BY <1>g, <1>r DEF TypeOK, Goto, Finish, Request, Working, At
<1>1. ASSUME NEW r \in Requests, Load(r) PROVE NotLockedOut' /\ Installable'
  <2>1. \A q \in Requests : Working(q)' =>
               /\ Working(q) /\ req'[q] = req[q]
    BY <1>1 DEF Load, TypeOK, Request, Working, At
  <2>2. server' = server /\ managed' = managed /\ daemon' = daemon /\ dir' = dir
    BY <1>1 DEF Load
  <2> QED BY <1>u, <1>d, <1>q, <2>1, <2>2 DEF At
<1>2. ASSUME NEW r \in Requests, Submit(r) PROVE NotLockedOut' /\ Installable'
  <2>1. PICK desired \in Desired, temporary \in BOOLEAN :
          IF req[r].revision = managed /\ Valid(desired, temporary)
          THEN req' = [req EXCEPT ![r].pc = "read", ![r].desired = desired,
                                  ![r].temporary = temporary]
          ELSE Finish(r, "refused")
    BY <1>2 DEF Submit
  <2>2. server' = server /\ managed' = managed /\ daemon' = daemon /\ dir' = dir
    BY <1>2 DEF Submit
  <2>3. CASE Finish(r, "refused")
    <3>1. \A q \in Requests : Working(q)' => Working(q) /\ req'[q] = req[q]
      BY <2>3 DEF Finish, TypeOK, Request, Working
    <3> QED BY <1>u, <1>d, <1>q, <2>2, <3>1 DEF At
  <2>4. CASE /\ Valid(desired, temporary)
             /\ req' = [req EXCEPT ![r].pc = "read", ![r].desired = desired,
                                   ![r].temporary = temporary]
    <3>1. Admits(desired)
      BY <2>4, ValidAdmits
    <3>2. req'[r].pc = "read" /\ req'[r].desired = desired
          /\ \A q \in Requests \ {r} : req'[q] = req[q]
      BY <2>4 DEF TypeOK, Request
    <3>3. Installable'
      BY <1>d, <2>2, <3>1, <3>2 DEF Working, At, Admits, Effective
    <3> QED BY <1>u, <2>2, <3>3
  <2> QED BY <2>1, <2>3, <2>4
<1>3. ASSUME NEW r \in Requests, ReadPrevious(r) PROVE NotLockedOut' /\ Installable'
  <2>2. server' = server /\ managed' = managed /\ daemon' = daemon /\ dir' = dir
    BY <1>3 DEF ReadPrevious
  <2>3. CASE Finish(r, "refused")
    <3>1. \A q \in Requests : Working(q)' => Working(q) /\ req'[q] = req[q]
      BY <2>3 DEF Finish, TypeOK, Request, Working
    <3> QED BY <1>u, <1>d, <1>q, <2>2, <3>1 DEF At
  <2>4. CASE req' = [req EXCEPT ![r].pc = "install", ![r].previous = managed]
    <3>1. req'[r].previous = managed /\ req'[r].desired = req[r].desired
          /\ \A q \in Requests \ {r} : req'[q] = req[q]
      BY <2>4 DEF TypeOK, Request
    <3>2. Working(r)
      BY <1>3 DEF ReadPrevious, Working, At
    <3>3. Installable'
      BY <1>d, <2>2, <3>1, <3>2 DEF Working, At, Admits, Effective
    <3> QED BY <1>u, <2>2, <3>3
  <2> QED BY <1>3, <2>3, <2>4 DEF ReadPrevious
<1>4. ASSUME NEW r \in Requests, Install(r) PROVE NotLockedOut' /\ Installable'
  <2>1. Working(r) /\ ~At(r, "read")
    BY <1>4 DEF Install, Working, At
  <2>2. server' = server /\ daemon' = daemon /\ dir' = dir
        /\ managed' \in {managed, req[r].desired}
    BY <1>4 DEF Install
  <2>3. Installable'
    BY <1>4, <1>d, <1>q, <1>g, <2>1, <2>2 DEF Install, Steps, Answers
  <2>4. Effective(req[r].desired) = req[r].desired
    BY <1>p, <1>r DEF Request
  <2>5. Admits(Effective(managed'))
    BY <2>1, <2>2, <2>4
  <2> QED BY <2>2, <2>3, <2>5 DEF Admits, Effective
<1>5. ASSUME NEW r \in Requests, Reload(r) \/ Test(r) PROVE NotLockedOut' /\ Installable'
  <2>1. Working(r) /\ ~At(r, "read")
    BY <1>5 DEF Reload, Test, Working, At
  <2>2. server' = server /\ dir' = dir /\ managed' = managed
        /\ daemon' \in {daemon, Effective(managed)}
    BY <1>5 DEF Reload, Test
  <2>3. Installable'
    BY <1>5, <1>d, <1>q, <1>g, <2>1, <2>2 DEF Reload, Test, Steps
  <2> QED BY <2>2, <2>3 DEF Admits, Effective
<1>6. ASSUME NEW r \in Requests, CancelTimers(r) PROVE NotLockedOut' /\ Installable'
  <2>1. Working(r) /\ ~At(r, "read")
    BY <1>6 DEF CancelTimers, Working, At
  <2>2. server' = server /\ managed' = managed /\ daemon' = daemon
    BY <1>6 DEF CancelTimers
  <2>3. \A t \in Requests : dir'[t] # None => dir'[t] = dir[t]
    BY <1>6 DEF CancelTimers, Deleted
  <2>4. Installable'
    BY <1>6, <1>d, <1>q, <1>g, <2>1, <2>2, <2>3 DEF CancelTimers, Steps
  <2> QED BY <1>u, <2>2, <2>4
<1>7. ASSUME NEW r \in Requests, Schedule(r) PROVE NotLockedOut' /\ Installable'
  <2>1. Working(r) /\ ~At(r, "read")
    BY <1>7 DEF Schedule, Working, At
  <2>2. server' = server /\ managed' = managed /\ daemon' = daemon
    BY <1>7 DEF Schedule
  <2>3. \A t \in Requests : dir'[t] # None =>
          \/ dir'[t] = dir[t] \/ dir'[t].previous = req[r].previous
    BY <1>7 DEF Schedule, TypeOK
  <2>4. Installable'
    BY <1>7, <1>d, <1>q, <1>g, <2>1, <2>2, <2>3 DEF Schedule, Steps
  <2> QED BY <1>u, <2>2, <2>4
<1>8. ASSUME NEW r \in Requests, Status(r) \/ RestoreTest(r)
      PROVE  NotLockedOut' /\ Installable'
  <2>1. Working(r) /\ ~At(r, "read")
    BY <1>8 DEF Status, RestoreTest, Working, At
  <2>2. server' = server /\ dir' = dir /\ managed' = managed /\ daemon' = daemon
    BY <1>8 DEF Status, RestoreTest
  <2>3. Installable'
    BY <1>8, <1>d, <1>q, <1>g, <2>1, <2>2 DEF Status, RestoreTest, Answers
  <2> QED BY <1>u, <2>2, <2>3
<1>9. ASSUME NEW r \in Requests, Restore(r) PROVE NotLockedOut' /\ Installable'
  <2>1. Working(r) /\ ~At(r, "read")
    BY <1>9 DEF Restore, Working, At
  <2>2. server' = server /\ daemon' = daemon /\ dir' = dir
        /\ managed' \in {managed, req[r].previous}
    BY <1>9 DEF Restore
  <2>3. Installable'
    BY <1>9, <1>d, <1>q, <1>g, <2>1, <2>2 DEF Restore, Steps, Answers
  <2> QED BY <2>1, <2>2, <2>3 DEF Admits, Effective
<1>10. ASSUME NEW r \in Requests, RestoreReload(r) PROVE NotLockedOut' /\ Installable'
  <2>1. Working(r) /\ ~At(r, "read")
    BY <1>10 DEF RestoreReload, Working, At
  <2>2. server' = server /\ dir' = dir /\ managed' = managed
        /\ daemon' \in {daemon, Effective(managed)}
    BY <1>10 DEF RestoreReload
  <2>3. Installable'
    BY <1>10, <1>d, <1>q, <1>g, <2>1, <2>2 DEF RestoreReload, Steps, Answers
  <2> QED BY <2>2, <2>3 DEF Admits, Effective
<1>11. ASSUME NEW t \in Requests, Timer(t) PROVE NotLockedOut' /\ Installable'
  <2>1. server' = server /\ req' = req
        /\ \A u \in Requests : dir'[u] # None => dir'[u] = dir[u]
    BY <1>11 DEF Timer, TimerFires, TimerInstalls, TimerReloads, TypeOK
  <2>2. Installable'
    BY <1>d, <1>q, <2>1 DEF Working, At
  <2>3. /\ \/ managed' = managed
           \/ dir[t] # None /\ managed' = dir[t].previous
        /\ daemon' \in {daemon, Effective(managed)}
    BY <1>11 DEF Timer, TimerFires, TimerInstalls, TimerReloads
  <2> QED BY <2>1, <2>2, <2>3 DEF Admits, Effective
<1>12. CASE UNCHANGED vars
  BY <1>12 DEF vars, Working, At, Admits, Effective
<1> QED BY <1>1, <1>2, <1>3, <1>4, <1>5, <1>6, <1>7, <1>8, <1>9, <1>10, <1>11, <1>12
        DEF Next, Apply

(* A request that nobody disturbed finds what it left: others that write   *)
(* to the host are a disturbance, and a timer of its own that has fired    *)
(* meanwhile still waits with its directory.                               *)
LEMMA AloneStep ==
  ASSUME TypeOK, AloneKeeps, [Next]_vars
  PROVE  AloneKeeps'
<1>r. \A r \in Requests : req[r] \in Request
  BY DEF TypeOK
<1>d. disturbed \subseteq disturbed'
  BY DEF Next, Apply, Timer, Load, Submit, ReadPrevious, Install, Reload, Test,
         CancelTimers, Schedule, Status, Restore, RestoreReload, RestoreTest, TimerFires,
         TimerInstalls, TimerReloads, Writes, TimerWrites, vars
<1>g. ASSUME NEW r \in Requests, NEW s \in Steps, Goto(r, s)
      PROVE  /\ req'[r].pc = s /\ req'[r].desired = req[r].desired
             /\ req'[r].previous = req[r].previous
             /\ req'[r].temporary = req[r].temporary /\ req'[r].answer = req[r].answer
             /\ \A q \in Requests \ {r} : req'[q] = req[q]
  <2>1. req'[r] = [req[r] EXCEPT !.pc = s]
    BY <1>g DEF Goto, TypeOK
  <2> QED BY <1>g, <1>r, <2>1 DEF Goto, TypeOK, Request
<1>f. ASSUME NEW r \in Requests, NEW a \in Answers, Finish(r, a)
      PROVE  req'[r].pc = "done" /\ \A q \in Requests \ {r} : req'[q] = req[q]
  BY <1>f DEF Finish, TypeOK, Request
(* A request that has not begun, or is over, says nothing of the host.     *)
<1>i. ASSUME NEW r \in Requests \ disturbed', req'[r] = req[r], ~Working(r)
      PROVE  Alone(r)'
  BY <1>i, <1>d, <1>r DEF AloneKeeps, Alone, At, Working, Request, Steps
<1>z. ASSUME NEW r \in Requests, req'[r].pc = "done" PROVE Alone(r)'
  BY <1>z DEF Alone, At
<1>w. ASSUME NEW r \in Requests, Writes(r), NEW q \in Requests \ disturbed', q # r,
             req'[q] = req[q]
      PROVE  Alone(q)'
  BY <1>w, <1>i DEF Writes, Begun
<1>s. ASSUME NEW q \in Requests \ disturbed', req'[q] = req[q],
             managed' = managed, daemon' = daemon, units' = units, server' = server
      PROVE  Alone(q)'
  BY <1>s, <1>d DEF AloneKeeps, Alone, At, Live, Effective
<1>1. ASSUME NEW r \in Requests, Load(r), NEW q \in Requests \ disturbed'
      PROVE  Alone(q)'
  <2>1. q # r => req'[q] = req[q]
    BY <1>1 DEF Load, TypeOK
  <2>2. req'[r].pc = "loaded" /\ req'[r].answer = req[r].answer
    BY <1>1, <1>r DEF Load, TypeOK, Request
  <2> QED BY <1>1, <1>s, <1>d, <2>1, <2>2 DEF Load, AloneKeeps, Alone, At
<1>2. ASSUME NEW r \in Requests, Submit(r), NEW q \in Requests \ disturbed'
      PROVE  Alone(q)'
  <2>1. PICK desired \in Desired, temporary \in BOOLEAN :
          \/ req' = [req EXCEPT ![r].pc = "read", ![r].desired = desired,
                               ![r].temporary = temporary]
          \/ Finish(r, "refused")
    BY <1>2 DEF Submit
  <2>2. q # r => req'[q] = req[q]
    BY <2>1 DEF Finish, TypeOK
  <2>3. CASE q = r /\ Finish(r, "refused")
    BY <2>3, <1>f, <1>z DEF Answers
  <2>4. CASE q = r /\ req' = [req EXCEPT ![r].pc = "read", ![r].desired = desired,
                                        ![r].temporary = temporary]
    <3>1. req'[r].pc = "read" /\ req'[r].answer = req[r].answer
      BY <2>4, <1>r DEF TypeOK, Request
    <3> QED BY <1>2, <1>d, <2>4, <3>1 DEF Submit, AloneKeeps, Alone, At
  <2> QED BY <1>2, <1>s, <2>1, <2>2, <2>3, <2>4 DEF Submit
<1>3. ASSUME NEW r \in Requests, ReadPrevious(r), NEW q \in Requests \ disturbed'
      PROVE  Alone(q)'
  <2>1. \/ req' = [req EXCEPT ![r].pc = "install", ![r].previous = managed]
        \/ Finish(r, "refused")
    BY <1>3 DEF ReadPrevious
  <2>2. q # r => req'[q] = req[q]
    BY <2>1 DEF Finish, TypeOK
  <2>3. CASE q = r /\ Finish(r, "refused")
    BY <2>3, <1>f, <1>z DEF Answers
  <2>4. CASE q = r /\ req' = [req EXCEPT ![r].pc = "install", ![r].previous = managed]
    <3>1. req'[r].pc = "install" /\ req'[r].answer = req[r].answer
      BY <2>4, <1>r DEF TypeOK, Request
    <3> QED BY <1>3, <1>d, <2>4, <3>1 DEF ReadPrevious, AloneKeeps, Alone, At
  <2> QED BY <1>3, <1>s, <2>1, <2>2, <2>3, <2>4 DEF ReadPrevious
<1>4. ASSUME NEW r \in Requests, Install(r), NEW q \in Requests \ disturbed'
      PROVE  Alone(q)'
  <2>1. CASE q # r
    BY <1>4, <1>w, <1>g, <1>f, <2>1 DEF Install, Steps, Answers
  <2>2. CASE q = r /\ Finish(r, "error")
    BY <2>2, <1>f, <1>z DEF Answers
  <2>3. CASE q = r /\ managed' = req[r].desired /\ Goto(r, "reload")
    BY <1>4, <1>d, <1>g, <1>r, <2>3 DEF Install, AloneKeeps, Alone, At, Steps, Request
  <2> QED BY <1>4, <2>1, <2>2, <2>3 DEF Install
<1>5. ASSUME NEW r \in Requests, Reload(r), NEW q \in Requests \ disturbed'
      PROVE  Alone(q)'
  <2>1. CASE q # r
    BY <1>5, <1>w, <1>g, <2>1 DEF Reload, Steps
  <2>2. CASE q = r /\ Goto(r, "restore")
    BY <1>5, <1>d, <1>g, <1>r, <2>2 DEF Reload, AloneKeeps, Alone, At, Steps, Request
  <2>3. CASE q = r /\ daemon' = Effective(managed) /\ Goto(r, "test")
    <3>1. managed = req[r].desired /\ req[r].desired \in Policy
      BY <1>5, <1>d, <1>r, <2>3 DEF Reload, AloneKeeps, Alone, At, Request
    <3>2. daemon' = req[r].desired
      BY <2>3, <3>1, ConstantsAssumption DEF Effective
    <3> QED BY <1>5, <1>d, <1>g, <1>r, <2>3, <3>1, <3>2
            DEF Reload, AloneKeeps, Alone, At, Steps, Request
  <2> QED BY <1>5, <2>1, <2>2, <2>3 DEF Reload
<1>6. ASSUME NEW r \in Requests, Test(r), NEW q \in Requests \ disturbed'
      PROVE  Alone(q)'
  <2>1. CASE q # r
    BY <1>6, <1>s, <1>g, <2>1 DEF Test, Steps
  <2>2. CASE q = r
    <3>1. \E s \in {"cancel", "restore"} : Goto(r, s)
      BY <1>6 DEF Test
    <3> QED BY <1>6, <1>d, <1>g, <1>r, <2>2, <3>1
            DEF Test, AloneKeeps, Alone, At, Steps, Request
  <2> QED BY <2>1, <2>2
<1>7. ASSUME NEW r \in Requests, CancelTimers(r), NEW q \in Requests \ disturbed'
      PROVE  Alone(q)'
  <2>1. CASE q # r
    BY <1>7, <1>w, <1>g, <2>1 DEF CancelTimers, Steps
  <2>2. CASE q = r /\ Goto(r, "restore")
    BY <1>7, <1>d, <1>g, <1>r, <2>2 DEF CancelTimers, AloneKeeps, Alone, At, Steps, Request
  <2>3. CASE /\ q = r /\ dir' = Deleted(Requests)
             /\ Goto(r, IF req[r].temporary THEN "schedule" ELSE "status")
    <3>1. \A t \in Requests : ~Live(t)'
      BY <2>3 DEF Deleted, Live
    <3>2. PICK s \in {"schedule", "status"} :
            Goto(r, s) /\ (req[r].temporary <=> s = "schedule")
      BY <2>3, <1>r DEF Request
    <3>4. /\ req'[r].pc = s /\ req'[r].desired = req[r].desired
          /\ req'[r].temporary = req[r].temporary /\ req'[r].answer = req[r].answer
      BY <3>2, <1>g DEF Steps
    <3>5. managed = req[r].desired /\ daemon = req[r].desired /\ req[r].answer = "none"
      BY <1>7, <1>d, <2>3 DEF CancelTimers, AloneKeeps, Alone, At
    <3> QED BY <1>7, <2>3, <3>1, <3>2, <3>4, <3>5 DEF CancelTimers, Alone, At
  <2> QED BY <1>7, <2>1, <2>2, <2>3 DEF CancelTimers
<1>8. ASSUME NEW r \in Requests, Schedule(r), NEW q \in Requests \ disturbed'
      PROVE  Alone(q)'
  <2>1. CASE q # r
    BY <1>8, <1>w, <1>g, <2>1 DEF Schedule, Steps
  <2>2. CASE q = r /\ Goto(r, "restore")
    BY <1>8, <1>d, <1>g, <1>r, <2>2 DEF Schedule, AloneKeeps, Alone, At, Steps, Request
  <2>3. CASE /\ q = r /\ Goto(r, "status")
             /\ dir' = [dir EXCEPT ![r] = [previous |-> req[r].previous,
                                           expected |-> Expected(r)]]
             /\ timer' = [timer EXCEPT ![r] = "armed"]
    <3>2. /\ req'[r].pc = "status" /\ req'[r].desired = req[r].desired
          /\ req'[r].previous = req[r].previous
          /\ req'[r].temporary = req[r].temporary /\ req'[r].answer = req[r].answer
      BY <2>3, <1>g DEF Steps
    <3>3. /\ managed = req[r].desired /\ daemon = req[r].desired /\ req[r].answer = "none"
          /\ req[r].temporary /\ \A t \in Requests : ~Live(t)
      BY <1>8, <1>d, <2>3 DEF Schedule, AloneKeeps, Alone, At
    <3>4. \A t \in Requests \ {r} : dir'[t] = dir[t] /\ timer'[t] = timer[t]
      BY <2>3 DEF TypeOK
    <3>5. /\ timer'[r] = "armed"
          /\ dir'[r] = [previous |-> req[r].previous, expected |-> managed]
      BY <2>3 DEF TypeOK, Expected
    <3>6. \A t \in Requests \ {r} : ~Live(t)'
      BY <3>3, <3>4 DEF Live
    <3>7. managed' = managed /\ daemon' = daemon
      BY <1>8 DEF Schedule
    <3> QED BY <2>3, <3>2, <3>3, <3>5, <3>6, <3>7 DEF Alone, At
  <2> QED BY <1>8, <2>1, <2>2, <2>3 DEF Schedule
<1>9. ASSUME NEW r \in Requests, Status(r), NEW q \in Requests \ disturbed'
      PROVE  Alone(q)'
  BY <1>9, <1>s, <1>f, <1>z DEF Status, Answers
<1>10. ASSUME NEW r \in Requests, Restore(r), NEW q \in Requests \ disturbed'
       PROVE  Alone(q)'
  <2>1. CASE q # r
    BY <1>10, <1>w, <1>g, <1>f, <2>1 DEF Restore, Steps, Answers
  <2>2. CASE q = r /\ Finish(r, "stuck")
    BY <2>2, <1>f, <1>z DEF Answers
  <2>3. CASE q = r /\ managed' = req[r].previous /\ Goto(r, "restoreReload")
    BY <1>10, <1>d, <1>g, <1>r, <2>3 DEF Restore, AloneKeeps, Alone, At, Steps, Request
  <2> QED BY <1>10, <2>1, <2>2, <2>3 DEF Restore
<1>11. ASSUME NEW r \in Requests, RestoreReload(r), NEW q \in Requests \ disturbed'
       PROVE  Alone(q)'
  <2>1. CASE q # r
    BY <1>11, <1>w, <1>g, <1>f, <2>1 DEF RestoreReload, Steps, Answers
  <2>2. CASE q = r /\ Finish(r, "stuck")
    BY <2>2, <1>f, <1>z DEF Answers
  <2>3. CASE q = r /\ daemon' = Effective(managed) /\ Goto(r, "restoreTest")
    BY <1>11, <1>d, <1>g, <1>r, <2>3
    DEF RestoreReload, AloneKeeps, Alone, At, Steps, Request, Effective
  <2> QED BY <1>11, <2>1, <2>2, <2>3 DEF RestoreReload
<1>12. ASSUME NEW r \in Requests, RestoreTest(r), NEW q \in Requests \ disturbed'
       PROVE  Alone(q)'
  BY <1>12, <1>s, <1>f, <1>z DEF RestoreTest, Answers
<1>13. ASSUME NEW t \in Requests, TimerFires(t), NEW q \in Requests \ disturbed'
       PROVE  Alone(q)'
  <2>1. \A u \in Requests : Live(u)' => Live(u)
    BY <1>13 DEF TimerFires, Live, TypeOK
  <2>2. server' = server /\ managed' = managed /\ daemon' = daemon /\ req' = req
    BY <1>13 DEF TimerFires
  <2>3. q # t => timer'[q] = timer[q] /\ dir'[q] = dir[q]
    BY <1>13 DEF TimerFires, TypeOK
  <2>4. ASSUME q = t, managed # NoFile,
               dir[q] = [previous |-> req[q].previous, expected |-> managed]
        PROVE  timer'[q] = "checked" /\ dir'[q] = dir[q]
    <3>1. [previous |-> req[q].previous, expected |-> managed] # None
      BY <1>r, ConstantsAssumption DEF Directory, Request, TypeOK
    <3> QED BY <1>13, <2>4, <3>1 DEF TimerFires, TypeOK
  <2>5. At(q, "status") => managed # NoFile
    <3>1. At(q, "status") => managed = req[q].desired
      BY <1>d DEF AloneKeeps, Alone, At
    <3>2. req[q].desired \in Policy
      BY <1>r DEF Request
    <3> QED BY <3>1, <3>2, ConstantsAssumption
  <2> QED BY <1>d, <2>1, <2>2, <2>3, <2>4, <2>5 DEF AloneKeeps, Alone, At, Effective
<1>14. ASSUME NEW t \in Requests, TimerInstalls(t) \/ TimerReloads(t),
              NEW q \in Requests \ disturbed'
       PROVE  Alone(q)'
  BY <1>14, <1>i DEF TimerInstalls, TimerReloads, TimerWrites, Begun
<1>15. CASE UNCHANGED vars
  BY <1>15, <1>s DEF vars, AloneKeeps
<1> QED BY <1>1, <1>2, <1>3, <1>4, <1>5, <1>6, <1>7, <1>8, <1>9, <1>10, <1>11, <1>12,
           <1>13, <1>14, <1>15 DEF Next, Apply, Timer, AloneKeeps

(* The invariant of the whole specification.                               *)
THEOREM Invariant == Spec => []IInv
<1>1. IInv /\ [Next]_vars => IInv'
  BY TypeStep, AccessStep, AloneStep DEF IInv
<1> QED BY InvInit, <1>1, PTL DEF Spec

(* No interleaving of requests, failing commands and timers on the host    *)
(* leads to a policy, in force or about to be loaded, under which          *)
(* Doktainer could not log in any more.                                    *)
THEOREM AccessIsKept == Spec => []NotLockedOut
<1>1. IInv => NotLockedOut
  BY DEF IInv
<1> QED BY Invariant, <1>1, PTL

(* Whatever fails on the way, a request that nobody disturbed answers what *)
(* the host does.                                                          *)
THEOREM AnswersAreTrue == Spec => AnswersTrue
<1>1. ASSUME IInv, [Next]_vars, NEW r \in Requests, At(r, "done")', ~At(r, "done"),
             r \notin disturbed
      PROVE  Answered(r)'
  <2>r. \A q \in Requests : req[q] \in Request
    BY <1>1 DEF IInv, TypeOK
  <2>a. Alone(r)
    BY <1>1 DEF IInv, AloneKeeps
  <2>f. ASSUME NEW a \in Answers, Finish(r, a)
        PROVE  /\ req'[r].answer = a /\ req'[r].desired = req[r].desired
               /\ req'[r].previous = req[r].previous
               /\ req'[r].temporary = req[r].temporary
    <3>1. req'[r] = [req[r] EXCEPT !.pc = "done", !.answer = a]
      BY <2>f, <1>1 DEF Finish, IInv, TypeOK
    <3> QED BY <3>1, <2>r DEF Request
  <2>1. CASE Status(r)
    <3>1. \/ Finish(r, "applied") \/ Finish(r, "error")
      BY <2>1 DEF Status
    <3>2. CASE Finish(r, "error")
      BY <2>f, <3>2 DEF Answered, Answers
    <3>3. CASE Finish(r, "applied")
      <4>1. /\ req'[r].answer = "applied" /\ req'[r].desired = req[r].desired
            /\ req'[r].previous = req[r].previous
            /\ req'[r].temporary = req[r].temporary
        BY <2>f, <3>3 DEF Answers
      <4>2. /\ managed' = managed /\ daemon' = daemon /\ dir' = dir /\ timer' = timer
        BY <2>1 DEF Status
      <4>3. /\ managed = req[r].desired /\ daemon = req[r].desired
            /\ \A t \in Requests : t # r \/ ~req[r].temporary => ~Live(t)
            /\ req[r].temporary =>
                 /\ timer[r] \in {"armed", "checked"}
                 /\ dir[r] = [previous |-> req[r].previous, expected |-> managed]
        BY <2>1, <2>a DEF Status, Alone, At
      <4>4. [previous |-> req[r].previous, expected |-> managed] # None
        BY <1>1, <2>r, ConstantsAssumption DEF Directory, Request, IInv, TypeOK
      <4>5. \A t \in Requests : Live(t) <=> t = r /\ req[r].temporary
        BY <4>3, <4>4 DEF Live
      <4> QED BY <4>1, <4>2, <4>3, <4>5 DEF Answered, Live
    <3> QED BY <3>1, <3>2, <3>3
  <2>2. CASE RestoreTest(r)
    <3>1. \/ Finish(r, "restored") \/ Finish(r, "stuck")
      BY <2>2 DEF RestoreTest
    <3>2. CASE Finish(r, "stuck")
      BY <2>f, <3>2 DEF Answered, Answers
    <3>3. CASE Finish(r, "restored")
      BY <2>2, <2>a, <2>f, <3>3
      DEF RestoreTest, Answered, Answers, Alone, At, Effective
    <3> QED BY <3>1, <3>2, <3>3
  <2>3. CASE Finish(r, "refused") \/ Finish(r, "error") \/ Finish(r, "stuck")
    BY <2>f, <2>3 DEF Answered, Answers
  <2>g. ASSUME NEW q \in Requests, NEW s \in Steps \ {"done"}, Goto(q, s)
        PROVE  FALSE
    BY <1>1, <2>g DEF Goto, At, IInv, TypeOK, Request
  <2>q. ASSUME NEW q \in Requests, q # r, NEW a \in Answers, Finish(q, a)
        PROVE  FALSE
    BY <1>1, <2>q DEF Finish, At, IInv, TypeOK
  <2>u. req' # req
    BY <1>1 DEF At
  <2>4. CASE \E q \in Requests : Load(q)
    BY <1>1, <2>4 DEF Load, At, IInv, TypeOK, Request
  <2>5. CASE \E q \in Requests : Submit(q)
    BY <1>1, <2>5, <2>3, <2>q DEF Submit, At, IInv, TypeOK, Request, Answers
  <2>6. CASE \E q \in Requests : ReadPrevious(q)
    BY <1>1, <2>6, <2>3, <2>q DEF ReadPrevious, At, IInv, TypeOK, Request, Answers
  <2>7. CASE \E q \in Requests : Install(q) \/ Reload(q) \/ Test(q)
    BY <2>7, <2>3, <2>g, <2>q DEF Install, Reload, Test, Answers, Steps
  <2>8. CASE \E q \in Requests : CancelTimers(q) \/ Schedule(q)
    BY <2>8, <2>g DEF CancelTimers, Schedule, Steps
  <2>9. CASE \E q \in Requests : Restore(q) \/ RestoreReload(q)
    BY <2>9, <2>3, <2>g, <2>q DEF Restore, RestoreReload, Answers, Steps
  <2>10. CASE \E q \in Requests : Status(q) \/ RestoreTest(q)
    BY <2>10, <2>1, <2>2, <2>q DEF Status, RestoreTest, Answers
  <2>11. CASE \E t \in Requests : Timer(t)
    BY <2>11, <2>u DEF Timer, TimerFires, TimerInstalls, TimerReloads
  <2>12. CASE UNCHANGED vars
    BY <2>12, <2>u DEF vars
  <2> QED BY <1>1, <2>4, <2>5, <2>6, <2>7, <2>8, <2>9, <2>10, <2>11, <2>12 DEF Next, Apply
<1>2. IInv /\ [Next]_vars =>
        [\A r \in Requests : At(r, "done")' /\ ~At(r, "done") /\ r \notin disturbed
                               => Answered(r)']_vars
  BY <1>1
<1> QED BY Invariant, <1>2, PTL DEF Spec, AnswersTrue
=============================================================================
