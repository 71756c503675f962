------------------------ MODULE SshConnections_proofs ------------------------
(***************************************************************************)
(* Proofs about SshConnections for every set of clients and accounts and   *)
(* every bound on connection objects and requests.                         *)
(***************************************************************************)
EXTENDS SshConnections, TLAPS

(* The empty pool satisfies the invariant.                                 *)
LEMMA InvInit == Init => IInv
<1> SUFFICES ASSUME Init PROVE IInv
  OBVIOUS
<1>1. TypeOK
  BY DEF Init, TypeOK, ConnRec, ClientRec, Idle
<1>2. NothingLeaks /\ WaitersServed /\ PoolCurrent /\ ClientsBound
  BY DEF Init, NothingLeaks, WaitersServed, PoolCurrent, ClientsBound, Idle, NoConn
<1>3. PendingCurrent
  BY DEF Init, PendingCurrent, NoConn, Superseded
<1> QED BY <1>1, <1>2, <1>3 DEF IInv

(* closeConnection: whatever the pool held is closed and nothing else is   *)
(* touched.                                                                *)
LEMMA DisposedFacts ==
  ASSUME TypeOK, NEW c \in Conns
  PROVE  /\ Disposed(conns) \in [Conns -> ConnRec]
         /\ Disposed(conns)[c].account = conns[c].account
         /\ Disposed(conns)[c].gen = conns[c].gen
         /\ c = pool => Disposed(conns)[c].state = "closed"
         /\ c # pool => Disposed(conns)[c] = conns[c]
  BY DEF Disposed, TypeOK, ConnRec

LEMMA DisposedType == TypeOK => Disposed(conns) \in [Conns -> ConnRec]
  BY DEF Disposed, TypeOK, ConnRec

(* Client r begins attempt c in generation g, with the objects cs.         *)
Begins(r, c, cs, g, again) ==
  /\ conns' = [cs EXCEPT ![c] = [state |-> "connecting",
                                 account |-> client[r].account, gen |-> g]]
  /\ pool' = NoConn /\ pending' = c /\ gen' = g /\ row' = row /\ started' = started
  /\ client' = [client EXCEPT ![r].pc = "waiting", ![r].conn = c, ![r].retried = again]

(* What a new attempt leaves, given what held of the objects before it:    *)
(* they are closed or outdated, and the attempt's own object is nobody's.  *)
LEMMA NewAttempt ==
  ASSUME IInv, NEW r \in Clients, NEW c \in Conns, NEW cs \in [Conns -> ConnRec],
         NEW g \in Nat, NEW again \in BOOLEAN, Unused(c), Begins(r, c, cs, g, again),
         \A d \in Conns : /\ cs[d].gen <= g /\ cs[d].account = conns[d].account
                          /\ cs[d].state # "open"
                          /\ cs[d].state = "connecting" => cs[d].gen # g
                          /\ cs[d].state = "connecting" <=> conns[d].state = "connecting"
  PROVE  IInv'
<1> USE DEF IInv, NoConn
<1>t. TypeOK
  OBVIOUS
<1>a. conns' \in [Conns -> ConnRec]
  <2>1. [state |-> "connecting", account |-> client[r].account, gen |-> g] \in ConnRec
    BY <1>t DEF TypeOK, ClientRec, ConnRec
  <2> QED BY <2>1 DEF Begins
<1>b. client' \in [Clients -> ClientRec]
  <2>1. [client[r] EXCEPT !.pc = "waiting", !.conn = c, !.retried = again] \in ClientRec
    BY <1>t DEF TypeOK, ClientRec
  <2>2. client' = [client EXCEPT ![r] =
                     [client[r] EXCEPT !.pc = "waiting", !.conn = c, !.retried = again]]
    BY <1>t DEF Begins, TypeOK
  <2> QED BY <1>t, <2>1, <2>2 DEF TypeOK
<1>1. TypeOK'
  BY <1>t, <1>a, <1>b DEF Begins, TypeOK
<1>2. c # 0 /\ \A s \in Clients : client[s].conn # c
  BY DEF Unused, Conns
<1>3. /\ conns'[c] = [state |-> "connecting", account |-> client[r].account, gen |-> g]
      /\ \A d \in Conns : d # c => conns'[d] = cs[d]
  BY DEF Begins
<1>4. (NothingLeaks /\ PoolCurrent)'
  BY <1>3 DEF Begins, NothingLeaks, PoolCurrent
<1>5. PendingCurrent'
  BY <1>3 DEF Begins, PendingCurrent, Superseded
<1>6. /\ client'[r].pc = "waiting" /\ client'[r].conn = c
      /\ client'[r].account = client[r].account
      /\ \A s \in Clients : s # r => client'[s] = client[s]
  BY DEF Begins, TypeOK, ClientRec
<1>7. WaitersServed'
  BY <1>2, <1>3, <1>6 DEF WaitersServed, TypeOK, ClientRec
<1>8. PoolCurrent /\ ClientsBound
  OBVIOUS
<1>9. ClientsBound'
  BY <1>2, <1>3, <1>6, <1>8 DEF ClientsBound, TypeOK, ClientRec
<1> QED BY <1>1, <1>4, <1>5, <1>7, <1>9

(* ... after closeConnection, which outdates every attempt there is.       *)
LEMMA AfterClose ==
  ASSUME IInv, NEW r \in Clients, NEW c \in Conns, Unused(c), NEW again \in BOOLEAN,
         Begins(r, c, Disposed(conns), gen + 1, again)
  PROVE  IInv'
<1> USE DEF IInv
<1>1. gen + 1 \in Nat /\ \A d \in Conns : conns[d].gen \in Nat
  BY DEF TypeOK, ConnRec
<1>2. ASSUME NEW d \in Conns
      PROVE  /\ Disposed(conns)[d].gen <= gen + 1
             /\ Disposed(conns)[d].account = conns[d].account
             /\ Disposed(conns)[d].state # "open"
             /\ Disposed(conns)[d].gen # gen + 1
             /\ Disposed(conns)[d].state = "connecting" <=> conns[d].state = "connecting"
  <2>1. conns[d].gen <= gen /\ gen \in Nat
    BY DEF PendingCurrent, TypeOK
  <2>2. CASE d = pool
    BY <1>1, <2>1, <2>2, DisposedFacts DEF PoolCurrent, NoConn, Conns
  <2>3. CASE d # pool
    BY <1>1, <2>1, <2>3, DisposedFacts DEF NothingLeaks
  <2> QED BY <2>2, <2>3
<1>3. Disposed(conns) \in [Conns -> ConnRec]
  BY DEF Disposed, TypeOK, ConnRec
<1> QED BY <1>1, <1>2, <1>3, NewAttempt

(* ... or when there is nothing to close.                                  *)
LEMMA WithoutClose ==
  ASSUME IInv, pool = NoConn, pending = NoConn, NEW r \in Clients, NEW c \in Conns,
         Unused(c), NEW again \in BOOLEAN, Begins(r, c, conns, gen, again)
  PROVE  IInv'
<1> USE DEF IInv
<1>1. gen \in Nat /\ conns \in [Conns -> ConnRec]
  BY DEF TypeOK
<1>2. \A d \in Conns : /\ conns[d].gen <= gen /\ conns[d].state # "open"
                       /\ conns[d].state = "connecting" => conns[d].gen # gen
  BY DEF NothingLeaks, PendingCurrent, Superseded, NoConn, Conns
<1> QED BY <1>1, <1>2, NewAttempt

(* Each step preserves the inductive invariant.                            *)
LEMMA InvNext == IInv /\ [Next]_vars => IInv'
<1> SUFFICES ASSUME IInv, [Next]_vars PROVE IInv'
  OBVIOUS
<1> USE DEF IInv, NoConn
<1>1. ASSUME NEW r \in Clients, Read(r) PROVE IInv'
  <2>1. TypeOK'
    <3>1. [client[r] EXCEPT !.pc = "read", !.account = row] \in ClientRec
      BY DEF TypeOK, ClientRec
    <3>2. client' = [client EXCEPT ![r] = [client[r] EXCEPT !.pc = "read", !.account = row]]
      BY <1>1 DEF Read, TypeOK
    <3> QED BY <1>1, <3>1, <3>2 DEF Read, TypeOK
  <2>2. (NothingLeaks /\ PoolCurrent /\ PendingCurrent)'
    BY <1>1 DEF Read, NothingLeaks, PoolCurrent, PendingCurrent, Superseded
  <2>3. (WaitersServed /\ ClientsBound)'
    BY <1>1 DEF Read, TypeOK, ClientRec, WaitersServed, ClientsBound
  <2> QED BY <2>1, <2>2, <2>3
<1>2. ASSUME NEW r \in Clients, GetPooled(r) PROVE IInv'
  <2>1. TypeOK'
    BY <1>2 DEF GetPooled, Usable, SameAccount, TypeOK, ClientRec
  <2>2. (NothingLeaks /\ PoolCurrent /\ PendingCurrent)'
    BY <1>2 DEF GetPooled, Usable, SameAccount, NothingLeaks, PoolCurrent, PendingCurrent, Superseded
  <2>3. (WaitersServed /\ ClientsBound)'
    BY <1>2 DEF GetPooled, Usable, SameAccount, TypeOK, ClientRec, ConnRec, PoolCurrent, PendingCurrent, WaitersServed, ClientsBound
  <2> QED BY <2>1, <2>2, <2>3
<1>3. ASSUME NEW r \in Clients, GetPending(r) PROVE IInv'
  <2>1. TypeOK'
    BY <1>3 DEF GetPending, Joinable, SameAccount, TypeOK, ClientRec
  <2>2. (NothingLeaks /\ PoolCurrent /\ PendingCurrent)'
    BY <1>3 DEF GetPending, Joinable, SameAccount, NothingLeaks, PoolCurrent, PendingCurrent, Superseded
  <2>3. (WaitersServed /\ ClientsBound)'
    BY <1>3 DEF GetPending, Joinable, SameAccount, TypeOK, ClientRec, ConnRec, PoolCurrent, PendingCurrent, WaitersServed, ClientsBound
  <2> QED BY <2>1, <2>2, <2>3
<1>4. ASSUME NEW r \in Clients, Finish(r) PROVE IInv'
  <2>1. TypeOK'
    BY <1>4 DEF Finish, Leave, Idle, TypeOK, ClientRec
  <2>2. (NothingLeaks /\ PoolCurrent /\ PendingCurrent)'
    BY <1>4 DEF Finish, Leave, Idle, NothingLeaks, PoolCurrent, PendingCurrent, Superseded
  <2>3. (WaitersServed /\ ClientsBound)'
    BY <1>4 DEF Finish, Leave, Idle, TypeOK, ClientRec, ConnRec, PoolCurrent, PendingCurrent, WaitersServed, ClientsBound
  <2> QED BY <2>1, <2>2, <2>3
<1>5. ASSUME NEW r \in Clients, CommandFails(r) PROVE IInv'
  <2>1. TypeOK'
    BY <1>5 DEF CommandFails, TypeOK, ClientRec
  <2>2. (NothingLeaks /\ PoolCurrent /\ PendingCurrent)'
    BY <1>5 DEF CommandFails, NothingLeaks, PoolCurrent, PendingCurrent, Superseded
  <2>3. (WaitersServed /\ ClientsBound)'
    BY <1>5 DEF CommandFails, TypeOK, ClientRec, ConnRec, PoolCurrent, PendingCurrent, WaitersServed, ClientsBound
  <2> QED BY <2>1, <2>2, <2>3
<1>6. ASSUME NEW r \in Clients, GiveUp(r) PROVE IInv'
  <2>1. TypeOK'
    BY <1>6 DEF GiveUp, Leave, Idle, TypeOK, ClientRec
  <2>2. (NothingLeaks /\ PoolCurrent /\ PendingCurrent)'
    BY <1>6 DEF GiveUp, Leave, Idle, NothingLeaks, PoolCurrent, PendingCurrent, Superseded
  <2>3. (WaitersServed /\ ClientsBound)'
    BY <1>6 DEF GiveUp, Leave, Idle, TypeOK, ClientRec, ConnRec, PoolCurrent, PendingCurrent, WaitersServed, ClientsBound
  <2> QED BY <2>1, <2>2, <2>3
<1>7. ASSUME NEW r \in Clients, UpdateRow(r) PROVE IInv'
  <2>1. TypeOK'
    BY <1>7 DEF UpdateRow, TypeOK, ClientRec
  <2>2. (NothingLeaks /\ PoolCurrent /\ PendingCurrent)'
    BY <1>7 DEF UpdateRow, NothingLeaks, PoolCurrent, PendingCurrent, Superseded
  <2>3. (WaitersServed /\ ClientsBound)'
    BY <1>7 DEF UpdateRow, TypeOK, ClientRec, ConnRec, PoolCurrent, PendingCurrent, WaitersServed, ClientsBound
  <2> QED BY <2>1, <2>2, <2>3
<1>8. ASSUME NEW r \in Clients, TimeOut(r) PROVE IInv'
  <2>1. /\ pool' = NoConn /\ pending' = NoConn /\ gen' = gen + 1
        /\ conns' = Disposed(conns) /\ UNCHANGED <<row>> /\ started' = started
        /\ client' = [client EXCEPT ![r] = Idle]
    BY <1>8 DEF TimeOut, CloseConnection, Leave, NextGen
  <2>2. TypeOK'
    <3>1. Idle \in ClientRec
      BY DEF Idle, ClientRec
    <3>2. conns' \in [Conns -> ConnRec]
      BY <2>1, DisposedType
    <3> QED BY <2>1, <3>1, <3>2 DEF TypeOK
  <2>3. (NothingLeaks /\ PoolCurrent)'
    BY <2>1, DisposedFacts DEF NothingLeaks, PoolCurrent
  <2>4. PendingCurrent'
    BY <2>1, DisposedFacts DEF PendingCurrent, Superseded, TypeOK, ConnRec
  <2>5. (WaitersServed /\ ClientsBound)'
    BY <2>1, DisposedFacts DEF TypeOK, ClientRec, ConnRec, PoolCurrent, WaitersServed, ClientsBound, Idle
  <2> QED BY <2>2, <2>3, <2>4, <2>5
<1>9. ASSUME NEW r \in Clients, UpdateClose(r) PROVE IInv'
  <2>1. /\ pool' = NoConn /\ pending' = NoConn /\ gen' = gen + 1
        /\ conns' = Disposed(conns) /\ UNCHANGED <<row>> /\ started' = started
        /\ client' = [client EXCEPT ![r] = Idle]
    BY <1>9 DEF UpdateClose, CloseConnection, Leave, NextGen
  <2>2. TypeOK'
    <3>1. Idle \in ClientRec
      BY DEF Idle, ClientRec
    <3>2. conns' \in [Conns -> ConnRec]
      BY <2>1, DisposedType
    <3> QED BY <2>1, <3>1, <3>2 DEF TypeOK
  <2>3. (NothingLeaks /\ PoolCurrent)'
    BY <2>1, DisposedFacts DEF NothingLeaks, PoolCurrent
  <2>4. PendingCurrent'
    BY <2>1, DisposedFacts DEF PendingCurrent, Superseded, TypeOK, ConnRec
  <2>5. (WaitersServed /\ ClientsBound)'
    BY <2>1, DisposedFacts DEF TypeOK, ClientRec, ConnRec, PoolCurrent, WaitersServed, ClientsBound, Idle
  <2> QED BY <2>2, <2>3, <2>4, <2>5
<1>10. ASSUME NEW r \in Clients, GetNew(r) PROVE IInv'
  <2>1. CASE pool # NoConn \/ pending # NoConn
    <3>1. PICK c \in Free : Begins(r, c, Disposed(conns), gen + 1, FALSE)
      BY <1>10, <2>1 DEF GetNew, Attempt, Begins, NextGen
    <3> QED BY <3>1, AfterClose DEF Free
  <2>2. CASE pool = NoConn /\ pending = NoConn
    <3>1. PICK c \in Free : Begins(r, c, conns, gen, FALSE)
      BY <1>10, <2>2 DEF GetNew, Attempt, Begins
    <3> QED BY <3>1, <2>2, WithoutClose DEF Free
  <2> QED BY <2>1, <2>2
<1>11. ASSUME NEW r \in Clients, Retry(r) PROVE IInv'
  <2>1. PICK c \in Free : Begins(r, c, Disposed(conns), gen + 1, TRUE)
    BY <1>11 DEF Retry, Attempt, Begins, NextGen
  <2> QED BY <2>1, AfterClose DEF Free
<1>12. ASSUME NEW c \in Conns, NEW alive \in BOOLEAN, Connected(c, alive) PROVE IInv'
  <2>1. /\ conns[c].state = "connecting" /\ gen' = gen /\ row' = row /\ started' = started
        /\ conns' = [conns EXCEPT ![c].state = IF alive THEN "open" ELSE "closed"]
        /\ pool' = c
        /\ pending' = IF pending = c THEN NoConn ELSE pending
    BY <1>12 DEF Connected, Answer
  <2>2. client' \in [Clients -> ClientRec] /\ \A r \in Clients :
          IF client[r].pc = "waiting" /\ client[r].conn = c
            THEN client'[r] = [client[r] EXCEPT !.pc = "using"]
            ELSE client'[r] = client[r]
    BY <1>12 DEF Connected, Answer, Told, TypeOK, ClientRec, Idle
  <2>3. TypeOK'
    BY <2>1, <2>2 DEF TypeOK, ConnRec
  <2>6. NothingLeaks /\ PoolCurrent /\ PendingCurrent /\ TypeOK
    OBVIOUS
  <2>7. /\ \A d \in Conns : d # c => conns'[d] = conns[d]
        /\ conns'[c].gen = conns[c].gen /\ conns'[c].account = conns[c].account
        /\ conns'[c].state # "connecting"
    BY <2>1, <2>6 DEF TypeOK, ConnRec
  <2>4. (NothingLeaks /\ PoolCurrent /\ PendingCurrent)'
    <3>0. ~Superseded(c)
      BY <1>12 DEF Connected
    <3>a. pending = c
      BY <2>1, <2>6, <3>0 DEF PendingCurrent
    <3>b. pool = NoConn
      BY <2>6, <3>a DEF PoolCurrent, Conns
    <3>1. conns[c].gen = gen /\ pending = c /\ pool = NoConn /\ pending' = NoConn
      BY <2>1, <3>0, <3>a, <3>b DEF Superseded
    <3>2. \A d \in Conns : conns[d].state # "open"
      BY <3>1, <2>6 DEF NothingLeaks, Conns
    <3>3. (NothingLeaks /\ PoolCurrent)'
      BY <2>1, <2>7, <3>1, <3>2 DEF NothingLeaks, PoolCurrent
    <3>4. PendingCurrent'
      BY <2>1, <2>6, <2>7, <3>1 DEF PendingCurrent, Superseded
    <3> QED BY <3>3, <3>4
  <2>5. WaitersServed /\ ClientsBound
    OBVIOUS
  <2>8. \A r \in Clients :
          /\ client'[r].pc \in {"waiting", "using"} =>
               /\ client'[r].conn = client[r].conn /\ client[r].conn \in Conns
               /\ client'[r].account = client[r].account
               /\ client[r].pc \in {"waiting", "using"}
          /\ client'[r].pc = "waiting" => client[r].pc = "waiting" /\ client[r].conn # c
          /\ client'[r].pc = "using" => client[r].pc = "using" \/ client[r].conn = c
    BY <2>2, <2>5, <2>6 DEF TypeOK, ClientRec, WaitersServed, ClientsBound, Idle
  <2>9. (WaitersServed /\ ClientsBound)'
    BY <2>5, <2>7, <2>8 DEF WaitersServed, ClientsBound
  <2> QED BY <2>3, <2>4, <2>9
<1>13. ASSUME NEW c \in Conns, Outdated(c) PROVE IInv'
  <2>1. /\ conns[c].state = "connecting" /\ gen' = gen /\ row' = row /\ started' = started
        /\ conns' = [conns EXCEPT ![c].state = "closed"]
        /\ pool' = pool
        /\ pending' = IF pending = c THEN NoConn ELSE pending
    BY <1>13 DEF Outdated, Answer
  <2>2. client' \in [Clients -> ClientRec] /\ \A r \in Clients :
          IF client[r].pc = "waiting" /\ client[r].conn = c
            THEN client'[r] = Idle
            ELSE client'[r] = client[r]
    BY <1>13 DEF Outdated, Answer, Told, TypeOK, ClientRec, Idle
  <2>3. TypeOK'
    BY <2>1, <2>2 DEF TypeOK, ConnRec
  <2>6. NothingLeaks /\ PoolCurrent /\ PendingCurrent /\ TypeOK
    OBVIOUS
  <2>7. /\ \A d \in Conns : d # c => conns'[d] = conns[d]
        /\ conns'[c].gen = conns[c].gen /\ conns'[c].account = conns[c].account
        /\ conns'[c].state # "connecting"
    BY <2>1, <2>6 DEF TypeOK, ConnRec
  <2>4. (NothingLeaks /\ PoolCurrent /\ PendingCurrent)'
    <3>1. \A d \in Conns : conns'[d].state = "open" => conns[d].state = "open"
      BY <1>13, <2>7 DEF Outdated, TypeOK, ConnRec
    <3>2. (NothingLeaks /\ PoolCurrent)'
      BY <2>1, <2>6, <2>7, <3>1 DEF NothingLeaks, PoolCurrent, TypeOK
    <3>3. PendingCurrent'
      BY <2>1, <2>6, <2>7 DEF PendingCurrent, Superseded, TypeOK
    <3> QED BY <3>2, <3>3
  <2>5. WaitersServed /\ ClientsBound
    OBVIOUS
  <2>8. \A r \in Clients :
          /\ client'[r].pc \in {"waiting", "using"} =>
               /\ client'[r].conn = client[r].conn /\ client[r].conn \in Conns
               /\ client'[r].account = client[r].account
               /\ client[r].pc \in {"waiting", "using"}
          /\ client'[r].pc = "waiting" => client[r].pc = "waiting" /\ client[r].conn # c
          /\ client'[r].pc = "using" => client[r].pc = "using" \/ client[r].conn = c
    BY <2>2, <2>5, <2>6 DEF TypeOK, ClientRec, WaitersServed, ClientsBound, Idle
  <2>9. (WaitersServed /\ ClientsBound)'
    BY <2>5, <2>7, <2>8 DEF WaitersServed, ClientsBound
  <2> QED BY <2>3, <2>4, <2>9
<1>14. ASSUME NEW c \in Conns, ConnectFails(c) PROVE IInv'
  <2>1. /\ conns[c].state = "connecting" /\ gen' = gen /\ row' = row /\ started' = started
        /\ conns' = [conns EXCEPT ![c].state = "closed"]
        /\ pool' = pool
        /\ pending' = IF pending = c THEN NoConn ELSE pending
    BY <1>14 DEF ConnectFails, Answer
  <2>2. client' \in [Clients -> ClientRec] /\ \A r \in Clients :
          IF client[r].pc = "waiting" /\ client[r].conn = c
            THEN client'[r] = [client[r] EXCEPT !.pc = "broken", !.conn = NoConn]
            ELSE client'[r] = client[r]
    BY <1>14 DEF ConnectFails, Answer, Told, TypeOK, ClientRec, Idle
  <2>3. TypeOK'
    BY <2>1, <2>2 DEF TypeOK, ConnRec
  <2>6. NothingLeaks /\ PoolCurrent /\ PendingCurrent /\ TypeOK
    OBVIOUS
  <2>7. /\ \A d \in Conns : d # c => conns'[d] = conns[d]
        /\ conns'[c].gen = conns[c].gen /\ conns'[c].account = conns[c].account
        /\ conns'[c].state # "connecting"
    BY <2>1, <2>6 DEF TypeOK, ConnRec
  <2>4. (NothingLeaks /\ PoolCurrent /\ PendingCurrent)'
    <3>1. \A d \in Conns : conns'[d].state = "open" => conns[d].state = "open"
      BY <1>14, <2>7 DEF ConnectFails, TypeOK, ConnRec
    <3>2. (NothingLeaks /\ PoolCurrent)'
      BY <2>1, <2>6, <2>7, <3>1 DEF NothingLeaks, PoolCurrent, TypeOK
    <3>3. PendingCurrent'
      BY <2>1, <2>6, <2>7 DEF PendingCurrent, Superseded, TypeOK
    <3> QED BY <3>2, <3>3
  <2>5. WaitersServed /\ ClientsBound
    OBVIOUS
  <2>8. \A r \in Clients :
          /\ client'[r].pc \in {"waiting", "using"} =>
               /\ client'[r].conn = client[r].conn /\ client[r].conn \in Conns
               /\ client'[r].account = client[r].account
               /\ client[r].pc \in {"waiting", "using"}
          /\ client'[r].pc = "waiting" => client[r].pc = "waiting" /\ client[r].conn # c
          /\ client'[r].pc = "using" => client[r].pc = "using" \/ client[r].conn = c
    BY <2>2, <2>5, <2>6 DEF TypeOK, ClientRec, WaitersServed, ClientsBound, Idle
  <2>9. (WaitersServed /\ ClientsBound)'
    BY <2>5, <2>7, <2>8 DEF WaitersServed, ClientsBound
  <2> QED BY <2>3, <2>4, <2>9
<1>15. ASSUME NEW c \in Conns, Drop(c) PROVE IInv'
  <2>1. TypeOK'
    BY <1>15 DEF Drop, TypeOK, ConnRec
  <2>2. (NothingLeaks /\ PoolCurrent /\ PendingCurrent)'
    BY <1>15 DEF Drop, TypeOK, ConnRec, NothingLeaks, PoolCurrent, PendingCurrent, Superseded
  <2>3. (WaitersServed /\ ClientsBound)'
    BY <1>15 DEF Drop, TypeOK, ClientRec, ConnRec, WaitersServed, ClientsBound
  <2> QED BY <2>1, <2>2, <2>3
<1>16. CASE UNCHANGED vars
  BY <1>16 DEF vars, TypeOK, NothingLeaks, WaitersServed, PoolCurrent, PendingCurrent,
               ClientsBound, Superseded
<1> QED BY <1>1, <1>2, <1>3, <1>4, <1>5, <1>6, <1>7, <1>8, <1>9, <1>10, <1>11, <1>12,
           <1>13, <1>14, <1>15, <1>16 DEF Next, Quiet

(* Every reachable state satisfies the inductive invariant.                *)
THEOREM Invariant == Spec => []IInv
  BY InvInit, InvNext, PTL DEF Spec

(* Types.                                                                  *)
THEOREM TypeCorrect == Spec => []TypeOK
<1>1. IInv => TypeOK
  BY DEF IInv
<1> QED BY <1>1, Invariant, PTL

(* A command runs on the account of the row it was called with.            *)
THEOREM CommandsOnOwnAccount == Spec => []OwnAccount
<1>1. IInv => OwnAccount
  BY DEF IInv, OwnAccount, ClientsBound
<1> QED BY <1>1, Invariant, PTL

(* No connection is open outside the pool.                                 *)
THEOREM NoLeak == Spec => []NothingLeaks
<1>1. IInv => NothingLeaks
  BY DEF IInv
<1> QED BY <1>1, Invariant, PTL

(* At most one attempt that no close has outdated, and none beside a       *)
(* pooled connection.                                                      *)
THEOREM AttemptsShared == Spec => []OneAttempt
<1>1. IInv => OneAttempt
  BY DEF IInv, OneAttempt, PoolCurrent, PendingCurrent, NoConn, Conns
<1> QED BY <1>1, Invariant, PTL

(* A request that joined or began an attempt awaits one that is still      *)
(* connecting, even when updates, timeouts and retries outdated it.        *)
THEOREM WaitersAnswerable == Spec => []WaitersServed
<1>1. IInv => WaitersServed
  BY DEF IInv
<1> QED BY <1>1, Invariant, PTL

(* A client is only ever handed a connection begun after the last close.   *)
THEOREM NothingOutdatedHanded == Spec => HandedCurrent
<1>1. ASSUME IInv, [Next]_vars PROVE [\A r \in Clients : HandsCurrent(r)]_vars
  <2>1. SUFFICES ASSUME Next, NEW r \in Clients, client[r].pc # "using",
                        client'[r].pc = "using"
                 PROVE  conns'[client'[r].conn].gen = gen'
    BY <1>1 DEF HandsCurrent
  <2> USE <1>1 DEF IInv, TypeOK, ClientRec, ConnRec, NoConn
  <2>2. CASE \E s \in Clients : GetPooled(s)
    <3>1. PICK s \in Clients : GetPooled(s)
      BY <2>2
    <3>2. s = r
      BY <2>1, <3>1 DEF GetPooled
    <3> QED BY <3>1, <3>2 DEF GetPooled, Usable, PoolCurrent
  <2>3. CASE \E c \in Conns, alive \in BOOLEAN : Connected(c, alive)
    <3>1. PICK c \in Conns, alive \in BOOLEAN : Connected(c, alive)
      BY <2>3
    <3>2. client'[r] = IF client[r].pc = "waiting" /\ client[r].conn = c
                         THEN Told(r, "using") ELSE client[r]
      BY <3>1 DEF Connected, Answer
    <3>3. client'[r].conn = c
      BY <2>1, <3>2 DEF Told
    <3> QED BY <3>1, <3>3 DEF Connected, Superseded
  <2>4. CASE \E c \in Conns : Outdated(c) \/ ConnectFails(c) \/ Drop(c)
    <3>1. PICK c \in Conns : Outdated(c) \/ ConnectFails(c) \/ Drop(c)
      BY <2>4
    <3>2. \/ client'[r] = client[r]
          \/ client'[r] = Told(r, "idle") \/ client'[r] = Told(r, "broken")
      BY <3>1 DEF Outdated, ConnectFails, Drop, Answer
    <3>3. client[r] \in ClientRec
      BY DEF TypeOK
    <3>4. Told(r, "idle") = Idle
          /\ Told(r, "broken") = [client[r] EXCEPT !.pc = "broken", !.conn = NoConn]
      BY DEF Told
    <3>5. Idle.pc # "using"
      BY DEF Idle
    <3>6. [client[r] EXCEPT !.pc = "broken", !.conn = NoConn].pc # "using"
      BY <3>3 DEF ClientRec
    <3> QED BY <2>1, <3>2, <3>4, <3>5, <3>6
  <2>5. CASE \E s \in Clients : Read(s) \/ GetPending(s) \/ GetNew(s) \/ Retry(s)
    <3>1. PICK s \in Clients : Read(s) \/ GetPending(s) \/ GetNew(s) \/ Retry(s)
      BY <2>5
    <3>2. client'[s].pc \in {"read", "waiting"} /\ (s # r => client'[r] = client[r])
      <4>1. client[s] \in ClientRec /\ client \in [Clients -> ClientRec]
        BY DEF TypeOK
      <4>2. CASE Read(s)
        BY <4>1, <4>2 DEF Read, ClientRec
      <4>3. CASE GetPending(s)
        BY <4>1, <4>3 DEF GetPending, ClientRec
      <4>4. ASSUME NEW cs, NEW g, NEW b, Attempt(s, cs, g, b)
            PROVE  client'[s].pc = "waiting" /\ (s # r => client'[r] = client[r])
        BY <4>1, <4>4 DEF Attempt, ClientRec
      <4>5. CASE GetNew(s)
        BY <4>4, <4>5 DEF GetNew
      <4>6. CASE Retry(s)
        BY <4>4, <4>6 DEF Retry
      <4> QED BY <3>1, <4>2, <4>3, <4>5, <4>6
    <3> QED BY <2>1, <3>2
  <2>6. CASE \E s \in Clients : \/ Finish(s) \/ CommandFails(s) \/ GiveUp(s) \/ TimeOut(s)
                                \/ UpdateRow(s) \/ UpdateClose(s)
    BY <2>1, <2>6 DEF Finish, CommandFails, GiveUp, TimeOut, UpdateRow, UpdateClose, Leave, Idle
  <2>7. CASE Quiet
    BY <2>1, <2>7 DEF Quiet, vars
  <2> QED BY <2>1, <2>2, <2>3, <2>4, <2>5, <2>6, <2>7 DEF Next
<1> QED BY <1>1, Invariant, PTL DEF Spec, HandedCurrent
=============================================================================
