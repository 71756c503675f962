----------------------- MODULE TerminalSessions_proofs -----------------------
(***************************************************************************)
(* Proofs about TerminalSessions for any number of users, servers,         *)
(* sockets, tickets and session ids: nobody gets a shell of somebody else, *)
(* and sessions, shells and sockets end with what they depend on.          *)
(***************************************************************************)
EXTENDS TerminalSessions, TLAPS

Begun == {"lookup", "found", "opening", "failing", "live"}
Settled == {"live", "done"}

(* A socket that came in holds a ticket for what it asked for, which nobody *)
(* else holds and which is out of the map of tickets.                      *)
TicketInv ==
  \A k \in Sockets :
    /\ sock[k].ticket # None =>
         /\ issued[sock[k].ticket] # None /\ sock[k].ticket \notin valid
         /\ issued[sock[k].ticket].server = sock[k].server
         /\ issued[sock[k].ticket].id = sock[k].id
         /\ \A j \in Sockets \ {k} : sock[j].ticket # sock[k].ticket
    /\ sock[k].phase \in Begun => sock[k].ticket # None
    /\ sock[k].phase \in {"found", "opening"} => sock[k].row # None

(* Every id of the map leads to a session whose shell has been opened, and *)
(* a connected socket is in a session of the user of its ticket.           *)
SessionInv ==
  /\ \A n \in Names : map[n] # None =>
       session[map[n]] \in Session /\ sock[map[n]].phase \in Settled
  /\ \A k \in Sockets : Live(k) =>
       /\ sock[k].sess # None /\ sock[sock[k].sess].phase \in Settled
       /\ session[sock[k].sess] \in Session
       /\ session[sock[k].sess].user = UserOf(k)

IInv == TypeOK /\ TicketInv /\ SessionInv

(* Sessions t and sockets q that differ from what there is only in what    *)
(* the invariant does not speak of, or in sockets that ended or failed.    *)
SameSessions(t) ==
  /\ t \in [Sockets -> Session \cup {None}]
  /\ \A x \in Sockets : session[x] \in Session =>
       t[x] \in Session /\ t[x].user = session[x].user

SameSockets(q) ==
  /\ q \in [Sockets -> Socket]
  /\ \A k \in Sockets :
       /\ q[k].ticket = sock[k].ticket /\ q[k].server = sock[k].server
       /\ q[k].id = sock[k].id /\ q[k].row = sock[k].row /\ q[k].sess = sock[k].sess
       /\ \/ q[k].phase = sock[k].phase
          \/ q[k].phase = "failing" /\ sock[k].phase = "opening"
          \/ q[k].phase = "done"

-----------------------------------------------------------------------------
(* What the helpers of the module return.                                  *)
LEMMA ClosedKeeps ==
  ASSUME TypeOK, NEW X \in SUBSET Sockets, \A x \in X : session[x] \in Session
  PROVE  SameSessions(Closed(X))
<1>1. ASSUME NEW x \in X
      PROVE  LET y == [session[x] EXCEPT !.shell = "closed", !.attached = None]
             IN y \in Session /\ y.user = session[x].user
  BY DEF Session
<1> QED BY <1>1 DEF SameSessions, Closed, TypeOK

LEMMA CutShellsKeeps ==
  ASSUME TypeOK, NEW s \in Servers
  PROVE  SameSessions(CutShells(s))
<1>1. ASSUME NEW x \in Sockets, session[x] # None
      PROVE  LET y == [session[x] EXCEPT !.shell = "ending"]
             IN y \in Session /\ y.user = session[x].user
  BY <1>1 DEF Session, TypeOK
<1> QED BY <1>1 DEF SameSessions, CutShells, TypeOK

LEMMA ReleasedKeeps ==
  ASSUME TypeOK, NEW X \in SUBSET Sockets
  PROVE  SameSockets(Released(X))
<1>1. ASSUME NEW k \in Sockets
      PROVE  LET q == [sock[k] EXCEPT !.open = FALSE]
             IN /\ q \in Socket
                /\ q.ticket = sock[k].ticket /\ q.server = sock[k].server /\ q.id = sock[k].id
                /\ q.row = sock[k].row /\ q.sess = sock[k].sess /\ q.phase = sock[k].phase
  BY DEF Socket, TypeOK
<1> QED BY <1>1 DEF SameSockets, Released, TypeOK

LEMMA CutSocketsKeeps ==
  ASSUME TypeOK, NEW s \in Servers
  PROVE  SameSockets(CutSockets(s))
<1>1. ASSUME NEW k \in Sockets
      PROVE  LET q == [sock[k] EXCEPT !.phase = "failing"]
             IN /\ q \in Socket
                /\ q.ticket = sock[k].ticket /\ q.server = sock[k].server /\ q.id = sock[k].id
                /\ q.row = sock[k].row /\ q.sess = sock[k].sess /\ q.phase = "failing"
  BY DEF Socket, TypeOK, Phases
<1> QED BY <1>1 DEF SameSockets, CutSockets, TypeOK, At

LEMMA ObjectsAreSessions ==
  ASSUME IInv, NEW names \in SUBSET Names
  PROVE  /\ Objects(names) \in SUBSET Sockets
         /\ \A x \in Objects(names) : session[x] \in Session
  BY DEF IInv, TypeOK, SessionInv, Objects

LEMMA UnmappedIsLess ==
  ASSUME TypeOK, NEW names \in SUBSET Names
  PROVE  /\ Unmapped(names) \in [Names -> Sockets \cup {None}]
         /\ \A n \in Names : Unmapped(names)[n] \in {map[n], None}
  BY DEF TypeOK, Unmapped

(* A step that changes no more than that keeps the invariant.              *)
LEMMA Kept ==
  ASSUME IInv, SameSessions(session'), SameSockets(sock'),
         map' \in [Names -> Sockets \cup {None}],
         \A n \in Names : map'[n] \in {map[n], None},
         issued' = issued, valid' \in SUBSET valid
  PROVE  (TicketInv /\ SessionInv)'
<1>1. TicketInv'
  BY DEF IInv, TicketInv, SameSockets, Begun
<1>2. ASSUME NEW n \in Names, map'[n] # None
      PROVE  session'[map'[n]] \in Session /\ sock'[map'[n]].phase \in Settled
  <2>1. map'[n] = map[n] /\ map[n] \in Sockets
    BY <1>2 DEF IInv, TypeOK
  <2>2. session[map[n]] \in Session /\ sock[map[n]].phase \in Settled
    BY <1>2, <2>1 DEF IInv, SessionInv
  <2> QED BY <2>1, <2>2 DEF SameSessions, SameSockets, Settled
<1>3. ASSUME NEW k \in Sockets, Live(k)'
      PROVE  /\ sock'[k].sess # None /\ sock'[sock'[k].sess].phase \in Settled
             /\ session'[sock'[k].sess] \in Session
             /\ session'[sock'[k].sess].user = UserOf(k)'
  <2>1. Live(k) /\ sock'[k].sess = sock[k].sess /\ sock'[k].ticket = sock[k].ticket
    BY <1>3 DEF SameSockets, Live, At
  <2>2. /\ sock[k].sess # None /\ sock[sock[k].sess].phase \in Settled
        /\ session[sock[k].sess] \in Session
        /\ session[sock[k].sess].user = UserOf(k)
    BY <2>1 DEF IInv, SessionInv
  <2>3. sock[k].sess \in Sockets
    BY <2>2 DEF IInv, TypeOK, Socket
  <2> QED BY <2>1, <2>2, <2>3 DEF SameSessions, SameSockets, Settled, UserOf
<1> QED BY <1>1, <1>2, <1>3 DEF SessionInv

(* In particular one that destroys sessions.                               *)
LEMMA DestroyKeeps ==
  ASSUME IInv, NEW names \in SUBSET Names
  PROVE  /\ SameSessions(Closed(Objects(names))) /\ SameSockets(Released(Objects(names)))
         /\ Unmapped(names) \in [Names -> Sockets \cup {None}]
         /\ \A n \in Names : Unmapped(names)[n] \in {map[n], None}
  BY ObjectsAreSessions, ClosedKeeps, ReleasedKeeps, UnmappedIsLess DEF IInv

LEMMA NothingChanged ==
  ASSUME TypeOK
  PROVE  /\ SameSessions(session) /\ SameSockets(sock)
         /\ map \in [Names -> Sockets \cup {None}]
         /\ \A n \in Names : map[n] \in {map[n], None}
  BY DEF TypeOK, SameSessions, SameSockets

(* One socket whose record changed, or one session.                        *)
LEMMA OneSocket ==
  ASSUME TypeOK, NEW q, SameSockets(q), NEW k \in Sockets, NEW r \in Socket,
         r.ticket = q[k].ticket, r.server = q[k].server, r.id = q[k].id,
         r.row = q[k].row, r.sess = q[k].sess,
         r.phase = q[k].phase \/ r.phase = "done"
  PROVE  SameSockets([q EXCEPT ![k] = r])
  BY DEF SameSockets

LEMMA OneSession ==
  ASSUME TypeOK, NEW t, SameSessions(t), NEW x \in Sockets, NEW y \in Session,
         session[x] \in Session, y.user = session[x].user
  PROVE  SameSessions([t EXCEPT ![x] = y])
  BY DEF SameSessions

(* The settings of the servers, on which the invariant says their types.   *)
ServersOK ==
  /\ current \in [Servers -> Version \cup {None}]
  /\ change \in [Servers -> {"none", "update", "delete"}]
  /\ pool \in [Servers -> Version \cup {None}]

LEMMA KeptInv ==
  ASSUME IInv, SameSessions(session'), SameSockets(sock'),
         map' \in [Names -> Sockets \cup {None}],
         \A n \in Names : map'[n] \in {map[n], None},
         issued' = issued, valid' \in SUBSET valid, ServersOK'
  PROVE  IInv'
<1>1. TypeOK'
  BY DEF IInv, TypeOK, SameSessions, SameSockets, ServersOK
<1> QED BY <1>1, Kept DEF IInv

-----------------------------------------------------------------------------
LEMMA InvInit == Init => IInv
<1> SUFFICES ASSUME Init PROVE IInv
  OBVIOUS
<1>1. TypeOK
  <2>1. sock \in [Sockets -> Socket]
    BY DEF Init, Socket, Phases
  <2>2. current \in [Servers -> Version \cup {None}]
    BY ConstantsAssumption DEF Init, Version
  <2> QED BY <2>1, <2>2 DEF Init, TypeOK
<1>2. TicketInv /\ SessionInv
  BY DEF Init, TicketInv, SessionInv, Begun, Live, At
<1> QED BY <1>1, <1>2 DEF IInv

LEMMA IssueTicketInv ==
  ASSUME IInv, NEW t \in Tickets, IssueTicket(t)
  PROVE  IInv'
<1>1. PICK request \in Ticket :
        issued' = [issued EXCEPT ![t] = request] /\ valid' = valid \cup {t}
  BY DEF IssueTicket
<1>2. issued[t] = None /\ UNCHANGED <<current, change, pool, sock, session, map>>
  BY DEF IssueTicket, server
<1>3. TypeOK'
  BY <1>1, <1>2 DEF IInv, TypeOK
<1>4. \A k \in Sockets : sock[k].ticket # None =>
        sock[k].ticket # t /\ issued'[sock[k].ticket] = issued[sock[k].ticket]
  BY <1>1, <1>2 DEF IInv, TypeOK, TicketInv, Socket
<1>5. TicketInv'
  BY <1>1, <1>2, <1>4 DEF IInv, TicketInv
<1>6. SessionInv'
  <2>1. \A k \in Sockets : Live(k) => UserOf(k)' = UserOf(k)
    BY <1>2, <1>4 DEF IInv, TicketInv, Begun, Live, At, UserOf
  <2> QED BY <1>2, <2>1 DEF IInv, SessionInv, Live, At
<1> QED BY <1>3, <1>5, <1>6 DEF IInv

(* The ticket that a socket takes was in the map, so nobody has it.        *)
LEMMA ConnectInv ==
  ASSUME IInv, NEW k \in Sockets, Connect(k)
  PROVE  IInv'
<1> DEFINE X == Objects(Expired)
<1>1. Expired \in SUBSET Names
  BY DEF Expired
<1>2. PICK t \in Tickets, s \in Servers \cup {None}, i \in Ids \cup {None} :
        /\ issued[t] # None /\ valid' = valid \ {t}
        /\ sock' = [Released(X) EXCEPT ![k] = Presented(@, t, s, i)]
  BY DEF Connect, Consumed
<1>3. /\ At(k, "idle") /\ session' = Closed(X) /\ map' = Unmapped(Expired)
      /\ UNCHANGED <<current, change, pool, issued>>
  BY DEF Connect, server
<1>4. /\ SameSessions(session') /\ SameSockets(Released(X))
      /\ map' \in [Names -> Sockets \cup {None}]
      /\ \A n \in Names : map'[n] \in {map[n], None}
  BY <1>1, <1>3, DestroyKeeps
<1> DEFINE old == Released(X)[k]
           new == Presented(old, t, s, i)
<1>5. /\ new \in Socket
      /\ new.phase \in {"lookup", "done"} /\ new.sess = old.sess
      /\ new.phase = "lookup" => /\ new.ticket = t /\ t \in valid
                                 /\ issued[t].server = new.server /\ issued[t].id = new.id
      /\ new.phase = "done" => new.ticket = None
  <2>1. old \in Socket
    BY <1>4 DEF SameSockets
  <2>2. CASE Admits(t, s, i)
    BY <2>1, <2>2 DEF Presented, Socket, Phases, Admits
  <2>3. CASE ~Admits(t, s, i)
    BY <2>1, <2>3 DEF Presented, Socket, Phases
  <2> QED BY <2>2, <2>3
<1>6. sock' \in [Sockets -> Socket] /\ sock'[k] = new
      /\ \A j \in Sockets \ {k} : sock'[j] = Released(X)[j]
  <2>1. sock' = [Released(X) EXCEPT ![k] = new]
    BY <1>2
  <2>2. Released(X) \in [Sockets -> Socket]
    BY <1>4 DEF SameSockets
  <2> HIDE DEF new
  <2> QED BY <1>5, <2>1, <2>2
<1> HIDE DEF new
<1>7. TypeOK'
  BY <1>2, <1>3, <1>4, <1>6 DEF IInv, TypeOK, SameSessions
<1>8. sock[k].phase = "idle" /\ \A j \in Sockets \ {k} :
        /\ sock'[j].ticket = sock[j].ticket /\ sock'[j].server = sock[j].server
        /\ sock'[j].id = sock[j].id /\ sock'[j].row = sock[j].row
        /\ sock'[j].sess = sock[j].sess
        /\ \/ sock'[j].phase = sock[j].phase
           \/ sock'[j].phase = "failing" /\ sock[j].phase = "opening"
           \/ sock'[j].phase = "done"
  BY <1>3, <1>4, <1>6 DEF SameSockets, At
<1>9. TicketInv'
  <2>1. ASSUME NEW j \in Sockets \ {k}
        PROVE  /\ sock'[j].ticket # None =>
                    /\ issued'[sock'[j].ticket] # None /\ sock'[j].ticket \notin valid'
                    /\ issued'[sock'[j].ticket].server = sock'[j].server
                    /\ issued'[sock'[j].ticket].id = sock'[j].id
                    /\ \A h \in Sockets \ {j} : sock'[h].ticket # sock'[j].ticket
               /\ sock'[j].phase \in Begun => sock'[j].ticket # None
               /\ sock'[j].phase \in {"found", "opening"} => sock'[j].row # None
    <3>1. sock[j].ticket # None => sock'[k].ticket # sock[j].ticket
      BY <1>2, <1>5, <1>6, <2>1 DEF IInv, TicketInv
    <3> QED BY <1>2, <1>3, <1>8, <2>1, <3>1 DEF IInv, TicketInv, Begun
  <2>2. /\ sock'[k].ticket # None =>
             /\ issued'[sock'[k].ticket] # None /\ sock'[k].ticket \notin valid'
             /\ issued'[sock'[k].ticket].server = sock'[k].server
             /\ issued'[sock'[k].ticket].id = sock'[k].id
             /\ \A h \in Sockets \ {k} : sock'[h].ticket # sock'[k].ticket
        /\ sock'[k].phase \in Begun => sock'[k].ticket # None
        /\ sock'[k].phase \in {"found", "opening"} => sock'[k].row # None
    <3>1. t # None
      BY ConstantsAssumption
    <3>2. t \in valid => \A h \in Sockets \ {k} : sock[h].ticket # t
      BY <3>1 DEF IInv, TicketInv
    <3> QED BY <1>2, <1>3, <1>5, <1>6, <1>8, <3>1, <3>2 DEF Begun
  <2> QED BY <2>1, <2>2 DEF TicketInv
<1>10. SessionInv'
  <2>1. ASSUME NEW n \in Names, map'[n] # None
        PROVE  session'[map'[n]] \in Session /\ sock'[map'[n]].phase \in Settled
    <3>1. map'[n] = map[n] /\ map[n] \in Sockets
      BY <1>4, <2>1 DEF IInv, TypeOK
    <3>2. session[map[n]] \in Session /\ sock[map[n]].phase \in Settled
      BY <2>1, <3>1 DEF IInv, SessionInv
    <3> QED BY <1>4, <1>8, <3>1, <3>2 DEF SameSessions, Settled
  <2>2. ASSUME NEW j \in Sockets, Live(j)'
        PROVE  /\ sock'[j].sess # None /\ sock'[sock'[j].sess].phase \in Settled
               /\ session'[sock'[j].sess] \in Session
               /\ session'[sock'[j].sess].user = UserOf(j)'
    <3>1. j # k
      BY <1>5, <1>6, <2>2 DEF Live, At
    <3>2. Live(j) /\ sock'[j].sess = sock[j].sess /\ sock'[j].ticket = sock[j].ticket
      BY <1>8, <2>2, <3>1 DEF Live, At
    <3>3. /\ sock[j].sess # None /\ sock[sock[j].sess].phase \in Settled
          /\ session[sock[j].sess] \in Session
          /\ session[sock[j].sess].user = UserOf(j)
      BY <3>2 DEF IInv, SessionInv
    <3>4. sock[j].sess \in Sockets
      BY <3>3 DEF IInv, TypeOK, Socket
    <3> QED BY <1>3, <1>4, <1>8, <3>2, <3>3, <3>4 DEF SameSessions, Settled, UserOf
  <2> QED BY <2>1, <2>2 DEF SessionInv
<1> QED BY <1>7, <1>9, <1>10 DEF IInv

LEMMA LookupInv ==
  ASSUME IInv, NEW k \in Sockets, Lookup(k)
  PROVE  IInv'
<1>1. /\ sock[k].phase = "lookup" /\ sock[k] \in Socket /\ sock \in [Sockets -> Socket]
      /\ UNCHANGED <<current, change, pool, issued, valid, session, map>>
  BY DEF IInv, TypeOK, Lookup, At, server, tickets
<1>2. CASE /\ current[sock[k].server] # None
           /\ sock' = [sock EXCEPT ![k].phase = "found", ![k].row = current[sock[k].server]]
  <2> DEFINE new == [sock[k] EXCEPT !.phase = "found", !.row = current[sock[k].server]]
  <2>1. sock[k].ticket # None /\ sock[k].server \in Servers
    BY <1>1 DEF IInv, TicketInv, TypeOK, Begun, Ticket, Socket
  <2>2. current[sock[k].server] \in Version \cup {None}
    BY <2>1 DEF IInv, TypeOK
  <2>3. /\ new \in Socket /\ new.phase = "found" /\ new.row # None
        /\ new.ticket = sock[k].ticket /\ new.server = sock[k].server
        /\ new.id = sock[k].id /\ new.sess = sock[k].sess
    BY <1>1, <1>2, <2>2 DEF Socket, Phases
  <2>4. sock' = [sock EXCEPT ![k] = new]
    BY <1>2
  <2> HIDE DEF new
  <2>5. TypeOK'
    BY <1>1, <2>3, <2>4 DEF IInv, TypeOK
  <2>6. TicketInv'
    BY <1>1, <2>1, <2>3, <2>4 DEF IInv, TicketInv, Begun
  <2>7. SessionInv'
    BY <1>1, <2>3, <2>4 DEF IInv, TypeOK, SessionInv, Socket, Settled, Live, At, UserOf
  <2> QED BY <2>5, <2>6, <2>7 DEF IInv
<1>3. CASE sock' = [sock EXCEPT ![k].phase = "done", ![k].open = FALSE]
  <2> DEFINE r == [sock[k] EXCEPT !.phase = "done", !.open = FALSE]
  <2>1. /\ r \in Socket /\ r.phase = "done" /\ r.ticket = sock[k].ticket
        /\ r.server = sock[k].server /\ r.id = sock[k].id /\ r.row = sock[k].row
        /\ r.sess = sock[k].sess
    BY <1>1 DEF Socket, Phases
  <2>2. SameSockets(sock')
    <3>1. sock' = [sock EXCEPT ![k] = r]
      BY <1>3
    <3> HIDE DEF r
    <3> QED BY <2>1, <3>1, NothingChanged, OneSocket DEF IInv
  <2> QED BY <1>1, <2>2, NothingChanged, KeptInv DEF IInv, TypeOK, ServersOK
<1> QED BY <1>2, <1>3 DEF Lookup

(* A session is only joined by its user.                                   *)
LEMMA RejoinInv ==
  ASSUME IInv, NEW k \in Sockets, Rejoin(k)
  PROVE  IInv'
<1> DEFINE x == Known(k)
           y == Attached(session[x], k)
           q == [sock[k] EXCEPT !.phase = "live", !.sess = x]
<1>1. /\ sock[k].phase = "found" /\ x # None
      /\ session' = [session EXCEPT ![x] = y]
      /\ sock' = [sock EXCEPT ![k] = q]
      /\ UNCHANGED <<current, change, pool, issued, valid, map>>
  BY DEF Rejoin, At, server, tickets, Attached
<1>2. x \in Sockets /\ session[x] \in Session /\ session[x].user = UserOf(k)
      /\ sock[x].phase \in Settled
  <2>1. sock[k].id \in Ids /\ map[sock[k].id] # None
    BY <1>1 DEF Known, IInv, TypeOK, Socket
  <2>2. x = map[sock[k].id] /\ session[x].user = UserOf(k)
    BY <1>1, <2>1 DEF Known
  <2> QED BY <2>1, <2>2 DEF IInv, TypeOK, SessionInv, Names
<1>3. y \in Session /\ y.user = session[x].user
  BY <1>2 DEF Attached, Session
<1>4. sock[k] \in Socket /\ sock[k].ticket # None
  BY <1>1 DEF IInv, TypeOK, TicketInv, Begun
<1>5. /\ q \in Socket /\ q.phase = "live" /\ q.sess = x /\ q.ticket = sock[k].ticket
      /\ q.server = sock[k].server /\ q.id = sock[k].id
  BY <1>2, <1>4 DEF Socket, Phases
<1> HIDE DEF x, y, q
<1>6. TypeOK'
  BY <1>1, <1>2, <1>3, <1>5 DEF IInv, TypeOK
<1>7. TicketInv'
  BY <1>1, <1>4, <1>5 DEF IInv, TicketInv, Begun
<1>8. SameSessions(session')
  BY <1>1, <1>2, <1>3, NothingChanged, OneSession DEF IInv
<1>9. \A j \in Sockets : sock[j].phase \in Settled => sock'[j].phase \in Settled
  BY <1>1, <1>5 DEF Settled, IInv, TypeOK
<1>10. SessionInv'
  <2>1. \A n \in Names : map'[n] # None =>
          session'[map'[n]] \in Session /\ sock'[map'[n]].phase \in Settled
    BY <1>1, <1>8, <1>9 DEF IInv, TypeOK, SessionInv, SameSessions
  <2>2. ASSUME NEW j \in Sockets, Live(j)'
        PROVE  /\ sock'[j].sess # None /\ sock'[sock'[j].sess].phase \in Settled
               /\ session'[sock'[j].sess] \in Session
               /\ session'[sock'[j].sess].user = UserOf(j)'
    <3>1. CASE j = k
      <4>1. sock'[k] = q /\ UserOf(k)' = UserOf(k)
        BY <1>1, <1>5 DEF IInv, TypeOK, UserOf
      <4>2. x # None
        BY <1>1
      <4> QED BY <1>2, <1>5, <1>8, <1>9, <3>1, <4>1, <4>2 DEF SameSessions
    <3>2. CASE j # k
      <4>1. sock'[j] = sock[j] /\ Live(j) /\ UserOf(j)' = UserOf(j)
        BY <1>1, <2>2, <3>2 DEF Live, At, UserOf, IInv, TypeOK
      <4>2. /\ sock[j].sess # None /\ sock[sock[j].sess].phase \in Settled
            /\ session[sock[j].sess] \in Session /\ session[sock[j].sess].user = UserOf(j)
        BY <4>1 DEF IInv, SessionInv
      <4>3. sock[j].sess \in Sockets
        BY <4>2 DEF IInv, TypeOK, Socket
      <4> QED BY <1>8, <1>9, <4>1, <4>2, <4>3 DEF SameSessions
    <3> QED BY <3>1, <3>2
  <2> QED BY <2>1, <2>2 DEF SessionInv
<1> QED BY <1>6, <1>7, <1>10 DEF IInv

(* The handler begins to open a shell, on a new connection if need be.     *)
LEMMA OpenInv ==
  ASSUME IInv, NEW k \in Sockets, Open(k)
  PROVE  IInv'
<1> DEFINE s == sock[k].server
           same == pool[s] \in {None, sock[k].row}
           base == IF same THEN sock ELSE CutSockets(s)
           q == [base[k] EXCEPT !.phase = "opening", !.known = current[s],
                                !.between = change[s] = "delete"]
<1>1. /\ sock[k].phase = "found"
      /\ pool' = [pool EXCEPT ![s] = sock[k].row]
      /\ sock' = [base EXCEPT ![k].phase = "opening", ![k].known = current[s],
                              ![k].between = change[s] = "delete"]
      /\ session' = IF same THEN session ELSE CutShells(s)
      /\ UNCHANGED <<current, change, issued, valid, map>>
  BY DEF Open, At, tickets
<1>2. /\ sock[k] \in Socket /\ s \in Servers /\ sock[k].row \in Version /\ sock[k].ticket # None
  BY <1>1 DEF IInv, TypeOK, TicketInv, Begun, Socket, Ticket
<1>3. SameSessions(session') /\ SameSockets(base)
  BY <1>1, <1>2, NothingChanged, CutShellsKeeps, CutSocketsKeeps DEF IInv
<1>4. base[k] \in Socket /\ base \in [Sockets -> Socket]
      /\ base[k].ticket = sock[k].ticket /\ base[k].server = s /\ base[k].id = sock[k].id
      /\ base[k].row = sock[k].row /\ base[k].sess = sock[k].sess
  BY <1>3 DEF SameSockets
<1>5. current[s] \in Version \cup {None} /\ (change[s] = "delete") \in BOOLEAN
  BY <1>2 DEF IInv, TypeOK
<1>6. /\ q \in Socket /\ q.phase = "opening" /\ q.ticket = sock[k].ticket
      /\ q.server = s /\ q.id = sock[k].id /\ q.row = sock[k].row
  <2>1. PICK b \in BOOLEAN :
          q = [base[k] EXCEPT !.phase = "opening", !.known = current[s], !.between = b]
    BY <1>5
  <2>2. base[k] \in Socket /\ current[s] \in Version \cup {None}
    BY <1>4, <1>5
  <2> HIDE DEF q, base, s
  <2>3. /\ q \in Socket /\ q.phase = "opening" /\ q.ticket = base[k].ticket
        /\ q.server = base[k].server /\ q.id = base[k].id /\ q.row = base[k].row
    BY <2>1, <2>2 DEF Socket, Phases
  <2> QED BY <1>4, <2>3
<1>7. sock' = [base EXCEPT ![k] = q]
  BY <1>1, <1>4
<1> HIDE DEF q, base
<1>8. ServersOK'
  BY <1>1, <1>2 DEF IInv, TypeOK, ServersOK
<1>9. TypeOK'
  <2>1. sock' \in [Sockets -> Socket]
    BY <1>4, <1>6, <1>7
  <2>2. session' \in [Sockets -> Session \cup {None}]
    BY <1>3 DEF SameSessions
  <2>3. UNCHANGED <<issued, valid, map>>
    BY <1>1
  <2> QED BY <1>8, <2>1, <2>2, <2>3 DEF IInv, TypeOK, ServersOK
<1>10. sock'[k] = q /\ \A j \in Sockets \ {k} : sock'[j] = base[j]
  BY <1>4, <1>7
<1>11. TicketInv'
  BY <1>1, <1>2, <1>3, <1>6, <1>10 DEF IInv, TicketInv, SameSockets, Begun
<1>12. \A j \in Sockets : sock[j].phase \in Settled => j # k /\ sock'[j].phase \in Settled
  BY <1>1, <1>3, <1>10 DEF Settled, SameSockets
<1>13. SessionInv'
  <2>1. ASSUME NEW n \in Names, map'[n] # None
        PROVE  session'[map'[n]] \in Session /\ sock'[map'[n]].phase \in Settled
    BY <1>1, <1>3, <1>12, <2>1 DEF IInv, TypeOK, SessionInv, SameSessions
  <2>2. ASSUME NEW j \in Sockets, Live(j)'
        PROVE  /\ sock'[j].sess # None /\ sock'[sock'[j].sess].phase \in Settled
               /\ session'[sock'[j].sess] \in Session
               /\ session'[sock'[j].sess].user = UserOf(j)'
    <3>1. j # k
      BY <1>6, <1>10, <2>2 DEF Live, At
    <3>2. Live(j) /\ sock'[j].sess = sock[j].sess /\ sock'[j].ticket = sock[j].ticket
      BY <1>3, <1>10, <2>2, <3>1 DEF Live, At, SameSockets
    <3>3. /\ sock[j].sess # None /\ sock[sock[j].sess].phase \in Settled
          /\ session[sock[j].sess] \in Session /\ session[sock[j].sess].user = UserOf(j)
      BY <3>2 DEF IInv, SessionInv
    <3>4. sock[j].sess \in Sockets
      BY <3>3 DEF IInv, TypeOK, Socket
    <3> QED BY <1>1, <1>3, <1>12, <3>2, <3>3, <3>4 DEF SameSessions, UserOf
  <2> QED BY <2>1, <2>2 DEF SessionInv
<1> QED BY <1>9, <1>11, <1>13 DEF IInv

(* The session that a socket opens is one of the user of its ticket.       *)
LEMMA OpenedInv ==
  ASSUME IInv, NEW k \in Sockets, Opened(k)
  PROVE  IInv'
<1> DEFINE ticket == issued[sock[k].ticket]
           name == NameFor(k)
           y == Attached([user |-> ticket.user, server |-> sock[k].server, id |-> name,
                          command |-> ticket.command, account |-> sock[k].row,
                          shell |-> "open", attached |-> None, expired |-> FALSE], k)
           q == [sock[k] EXCEPT !.phase = "live", !.sess = k]
<1>1. /\ sock[k].phase = "opening"
      /\ session' = [session EXCEPT ![k] = y] /\ map' = [map EXCEPT ![name] = k]
      /\ sock' = [sock EXCEPT ![k] = q]
      /\ UNCHANGED <<current, change, pool, issued, valid>>
  BY DEF Opened, At, server, tickets
<1>2. /\ sock[k] \in Socket /\ sock[k].ticket # None /\ sock[k].row \in Version
      /\ ticket \in Ticket /\ ticket.server = sock[k].server
  BY <1>1 DEF IInv, TypeOK, TicketInv, Begun, Socket
<1>3. name \in Names
  BY <1>2 DEF NameFor, Names, Socket
<1>4. y \in Session /\ y.user = UserOf(k)
  <2>1. ticket.user \in Users /\ ticket.server \in Servers /\ ticket.command \in BOOLEAN
    BY <1>2 DEF Ticket
  <2> HIDE DEF name
  <2> QED BY <1>2, <1>3, <2>1 DEF Attached, Session, UserOf
<1>5. /\ q \in Socket /\ q.phase = "live" /\ q.sess = k /\ q.ticket = sock[k].ticket
      /\ q.server = sock[k].server /\ q.id = sock[k].id
  BY <1>2 DEF Socket, Phases
<1> HIDE DEF ticket, name, y, q
<1>6. TypeOK'
  BY <1>1, <1>3, <1>4, <1>5 DEF IInv, TypeOK
<1>7. TicketInv'
  BY <1>1, <1>2, <1>5 DEF IInv, TicketInv, Begun
<1>8. /\ sock'[k] = q /\ \A j \in Sockets \ {k} : sock'[j] = sock[j]
      /\ session'[k] = y /\ \A j \in Sockets \ {k} : session'[j] = session[j]
  BY <1>1 DEF IInv, TypeOK
<1>9. \A j \in Sockets : sock[j].phase \in Settled =>
        j # k /\ sock'[j].phase \in Settled /\ session'[j] = session[j]
  BY <1>1, <1>8 DEF Settled
<1>10. SessionInv'
  <2>1. ASSUME NEW n \in Names, map'[n] # None
        PROVE  session'[map'[n]] \in Session /\ sock'[map'[n]].phase \in Settled
    <3>1. CASE n = name
      BY <1>1, <1>3, <1>4, <1>5, <1>8, <3>1 DEF Settled, IInv, TypeOK
    <3>2. CASE n # name
      <4>1. map'[n] = map[n] /\ map[n] \in Sockets
        BY <1>1, <1>3, <2>1, <3>2 DEF IInv, TypeOK
      <4>2. session[map[n]] \in Session /\ sock[map[n]].phase \in Settled
        BY <2>1, <4>1 DEF IInv, SessionInv
      <4> QED BY <1>9, <4>1, <4>2
    <3> QED BY <3>1, <3>2
  <2>2. ASSUME NEW j \in Sockets, Live(j)'
        PROVE  /\ sock'[j].sess # None /\ sock'[sock'[j].sess].phase \in Settled
               /\ session'[sock'[j].sess] \in Session
               /\ session'[sock'[j].sess].user = UserOf(j)'
    <3>1. CASE j = k
      <4>1. UserOf(k)' = UserOf(k) /\ k # None
        BY <1>1, <1>5, <1>8, ConstantsAssumption DEF UserOf
      <4> QED BY <1>4, <1>5, <1>8, <3>1, <4>1 DEF Settled
    <3>2. CASE j # k
      <4>1. sock'[j] = sock[j] /\ Live(j) /\ UserOf(j)' = UserOf(j)
        BY <1>1, <1>8, <2>2, <3>2 DEF Live, At, UserOf
      <4>2. /\ sock[j].sess # None /\ sock[sock[j].sess].phase \in Settled
            /\ session[sock[j].sess] \in Session /\ session[sock[j].sess].user = UserOf(j)
        BY <4>1 DEF IInv, SessionInv
      <4>3. sock[j].sess \in Sockets
        BY <4>2 DEF IInv, TypeOK, Socket
      <4> QED BY <1>9, <4>1, <4>2, <4>3
    <3> QED BY <3>1, <3>2
  <2> QED BY <2>1, <2>2 DEF SessionInv
<1> QED BY <1>6, <1>7, <1>10 DEF IInv

-----------------------------------------------------------------------------
(* What happens to a socket or a session that is there: SameSockets and    *)
(* SameSessions hold of each step.                                         *)
LEMMA LeaveKeeps ==
  ASSUME IInv, NEW k \in Sockets, Live(k), Leave(k)
  PROVE  /\ SameSessions(session') /\ SameSockets(Left(k))
         /\ map' \in [Names -> Sockets \cup {None}]
         /\ \A n \in Names : map'[n] \in {map[n], None}
<1> DEFINE x == sock[k].sess
           n == {session[x].id}
<1>1. x \in Sockets /\ session[x] \in Session
  BY DEF IInv, TypeOK, SessionInv, Socket
<1>2. n \in SUBSET Names
  BY <1>1 DEF Session
<1>3. CASE session[x].command
  <2>1. session' = Closed(Objects(n)) /\ map' = Unmapped(n) /\ Left(k) = Released(Objects(n))
    BY <1>3 DEF Leave, Left
  <2> QED BY <1>2, <2>1, DestroyKeeps
<1>4. CASE ~session[x].command
  <2> DEFINE y == [session[x] EXCEPT !.attached = None, !.expired = FALSE]
  <2>1. session' = [session EXCEPT ![x] = y] /\ map' = map /\ Left(k) = sock
    BY <1>4 DEF Leave, Left
  <2>2. y \in Session /\ y.user = session[x].user
    BY <1>1 DEF Session
  <2> HIDE DEF y, x
  <2> QED BY <1>1, <2>1, <2>2, NothingChanged, OneSession DEF IInv
<1> QED BY <1>3, <1>4

(* A socket that is told, or closed.                                       *)
LEMMA SocketTold ==
  ASSUME TypeOK, NEW q, SameSockets(q), NEW k \in Sockets
  PROVE  /\ SameSockets([q EXCEPT ![k].told = TRUE])
         /\ SameSockets([q EXCEPT ![k].open = FALSE])
         /\ SameSockets([q EXCEPT ![k].told = TRUE, ![k].phase = "done"])
         /\ SameSockets([q EXCEPT ![k].phase = "done", ![k].open = FALSE])
<1>1. q[k] \in Socket /\ q \in [Sockets -> Socket]
  BY DEF SameSockets
<1>2. ASSUME NEW r \in {[q[k] EXCEPT !.told = TRUE], [q[k] EXCEPT !.open = FALSE],
                        [q[k] EXCEPT !.told = TRUE, !.phase = "done"],
                        [q[k] EXCEPT !.phase = "done", !.open = FALSE]}
      PROVE  SameSockets([q EXCEPT ![k] = r])
  <2>1. /\ r \in Socket /\ r.ticket = q[k].ticket /\ r.server = q[k].server
        /\ r.id = q[k].id /\ r.row = q[k].row /\ r.sess = q[k].sess
        /\ r.phase = q[k].phase \/ r.phase = "done"
    BY <1>1 DEF Socket, Phases
  <2> QED BY <2>1, OneSocket
<1>3. /\ [q EXCEPT ![k].told = TRUE] = [q EXCEPT ![k] = [q[k] EXCEPT !.told = TRUE]]
      /\ [q EXCEPT ![k].open = FALSE] = [q EXCEPT ![k] = [q[k] EXCEPT !.open = FALSE]]
      /\ [q EXCEPT ![k].told = TRUE, ![k].phase = "done"]
           = [q EXCEPT ![k] = [q[k] EXCEPT !.told = TRUE, !.phase = "done"]]
      /\ [q EXCEPT ![k].phase = "done", ![k].open = FALSE]
           = [q EXCEPT ![k] = [q[k] EXCEPT !.phase = "done", !.open = FALSE]]
  BY <1>1
<1> QED BY <1>2, <1>3

(* One session of which only the shell or the clock changed.               *)
LEMMA SessionTold ==
  ASSUME TypeOK, NEW t, SameSessions(t), NEW x \in Sockets, session[x] \in Session
  PROVE  /\ \A shell \in {"ending", "closed"} : SameSessions([t EXCEPT ![x].shell = shell])
         /\ \A expired \in BOOLEAN : SameSessions([t EXCEPT ![x].expired = expired])
<1>1. t[x] \in Session /\ t[x].user = session[x].user /\ t \in [Sockets -> Session \cup {None}]
  BY DEF SameSessions
<1>2. ASSUME NEW shell \in {"ending", "closed"}
      PROVE  SameSessions([t EXCEPT ![x].shell = shell])
  <2> DEFINE y == [t[x] EXCEPT !.shell = shell]
  <2>1. y \in Session /\ y.user = session[x].user
    BY <1>1 DEF Session
  <2>2. [t EXCEPT ![x].shell = shell] = [t EXCEPT ![x] = y]
    BY <1>1
  <2> HIDE DEF y
  <2>3. SameSessions([t EXCEPT ![x] = y])
    BY <2>1, OneSession
  <2> QED BY <2>2, <2>3
<1>3. ASSUME NEW expired \in BOOLEAN
      PROVE  SameSessions([t EXCEPT ![x].expired = expired])
  <2> DEFINE y == [t[x] EXCEPT !.expired = expired]
  <2>1. y \in Session /\ y.user = session[x].user
    BY <1>1 DEF Session
  <2>2. [t EXCEPT ![x].expired = expired] = [t EXCEPT ![x] = y]
    BY <1>1
  <2> HIDE DEF y
  <2>3. SameSessions([t EXCEPT ![x] = y])
    BY <2>1, OneSession
  <2> QED BY <2>2, <2>3
<1> QED BY <1>2, <1>3

(* A connection that closes, after some sessions were destroyed.           *)
LEMMA CloseConnectionKeeps ==
  ASSUME IInv, NEW s \in Servers, NEW X \in SUBSET Sockets,
         \A x \in X : session[x] \in Session, CloseConnection(s, X)
  PROVE  SameSessions(session') /\ SameSockets(sock')
         /\ pool' \in [Servers -> Version \cup {None}]
<1>1. /\ SameSessions(Closed(X)) /\ SameSessions(CutShells(s))
      /\ SameSockets(Released(X)) /\ SameSockets(CutSockets(s))
  BY ClosedKeeps, CutShellsKeeps, ReleasedKeeps, CutSocketsKeeps DEF IInv
<1>2. SameSessions(session')
  <2>1. session' = [x \in Sockets |-> IF x \in X THEN Closed(X)[x] ELSE CutShells(s)[x]]
    BY DEF CloseConnection
  <2> QED BY <1>1, <2>1 DEF SameSessions
<1>3. SameSockets(sock')
  <2>1. \A k \in Sockets : sock'[k] \in {Released(X)[k], CutSockets(s)[k]}
    BY DEF CloseConnection
  <2>2. sock' = [k \in Sockets |-> sock'[k]]
    BY DEF CloseConnection
  <2>3. sock' \in [Sockets -> Socket]
    BY <1>1, <2>1, <2>2 DEF SameSockets
  <2> QED BY <1>1, <2>1, <2>3 DEF SameSockets
<1>4. pool' \in [Servers -> Version \cup {None}]
  BY DEF CloseConnection, IInv, TypeOK
<1> QED BY <1>2, <1>3, <1>4

-----------------------------------------------------------------------------
(* The steps that only end, cut or release something.                      *)
LEMMA SocketStepInv ==
  ASSUME IInv, NEW k \in Sockets,
         OpenFails(k) \/ Message(k) \/ HangUp(k) \/ CloseEvent(k) \/ ErrorEvent(k)
  PROVE  IInv'
<1>1. ServersOK' /\ issued' = issued /\ valid' \in SUBSET valid
  BY DEF OpenFails, Message, HangUp, CloseEvent, ErrorEvent, server, tickets, IInv, TypeOK,
         ServersOK
<1>2. /\ SameSessions(session) /\ SameSockets(sock)
      /\ map \in [Names -> Sockets \cup {None}] /\ \A n \in Names : map[n] \in {map[n], None}
  BY NothingChanged DEF IInv
<1>3. CASE OpenFails(k)
  <2>1. SameSockets(sock') /\ session' = session /\ map' = map
    BY <1>2, <1>3, SocketTold DEF OpenFails, IInv
  <2> QED BY <1>1, <1>2, <2>1, KeptInv
<1>4. CASE HangUp(k)
  <2>1. SameSockets(sock') /\ session' = session /\ map' = map
    BY <1>2, <1>4, SocketTold DEF HangUp, IInv
  <2> QED BY <1>1, <1>2, <2>1, KeptInv
<1>5. CASE Message(k)
  <2>1. sock[k].sess \in Sockets /\ session[sock[k].sess] \in Session
    BY <1>5 DEF Message, Live, IInv, TypeOK, SessionInv, Socket
  <2>2. SameSessions([session EXCEPT ![sock[k].sess].expired = FALSE])
    BY <1>2, <2>1, SessionTold DEF IInv
  <2>3. SameSessions(session') /\ sock' = sock /\ map' = map
    BY <1>5, <2>2 DEF Message
  <2> QED BY <1>1, <1>2, <2>3, KeptInv
<1>6. CASE CloseEvent(k)
  <2>1. CASE At(k, "live")
    <3>1. Leave(k) /\ sock' = [Left(k) EXCEPT ![k].told = TRUE, ![k].phase = "done"]
      BY <1>6, <2>1 DEF CloseEvent
    <3>2. /\ SameSessions(session') /\ SameSockets(Left(k))
          /\ map' \in [Names -> Sockets \cup {None}]
          /\ \A n \in Names : map'[n] \in {map[n], None}
      BY <2>1, <3>1, LeaveKeeps DEF Live
    <3>3. SameSockets(sock')
      BY <3>1, <3>2, SocketTold DEF IInv
    <3> QED BY <1>1, <3>2, <3>3, KeptInv
  <2>2. CASE ~At(k, "live")
    <3>1. SameSockets(sock') /\ session' = session /\ map' = map
      BY <1>2, <1>6, <2>2, SocketTold DEF CloseEvent, IInv
    <3> QED BY <1>1, <1>2, <3>1, KeptInv
  <2> QED BY <2>1, <2>2
<1>7. CASE ErrorEvent(k)
  <2>1. Leave(k) /\ Live(k) /\ sock' = [Left(k) EXCEPT ![k].open = FALSE]
    BY <1>7 DEF ErrorEvent, Live
  <2>2. /\ SameSessions(session') /\ SameSockets(Left(k))
        /\ map' \in [Names -> Sockets \cup {None}]
        /\ \A n \in Names : map'[n] \in {map[n], None}
    BY <2>1, LeaveKeeps
  <2>3. SameSockets(sock')
    BY <2>1, <2>2, SocketTold DEF IInv
  <2> QED BY <1>1, <2>2, <2>3, KeptInv
<1> QED BY <1>3, <1>4, <1>5, <1>6, <1>7

LEMMA ShellStepInv ==
  ASSUME IInv, NEW x \in Sockets, ShellExits(x) \/ ShellCloses(x) \/ Expires(x)
  PROVE  IInv'
<1>1. ServersOK' /\ issued' = issued /\ valid' \in SUBSET valid /\ session[x] \in Session
  BY DEF ShellExits, ShellCloses, Expires, server, tickets, IInv, TypeOK, ServersOK
<1>2. /\ SameSessions(session) /\ SameSockets(sock)
      /\ map \in [Names -> Sockets \cup {None}] /\ \A n \in Names : map[n] \in {map[n], None}
  BY NothingChanged DEF IInv
<1>3. CASE ShellExits(x) \/ Expires(x)
  <2>1. \/ session' = [session EXCEPT ![x].shell = "ending"]
        \/ session' = [session EXCEPT ![x].expired = TRUE]
    BY <1>3 DEF ShellExits, Expires
  <2>2. /\ SameSessions([session EXCEPT ![x].shell = "ending"])
        /\ SameSessions([session EXCEPT ![x].expired = TRUE])
    BY <1>1, <1>2, SessionTold DEF IInv
  <2>3. sock' = sock /\ map' = map
    BY <1>3 DEF ShellExits, Expires
  <2>4. SameSessions(session')
    BY <2>1, <2>2
  <2> QED BY <1>1, <1>2, <2>3, <2>4, KeptInv
<1>4. CASE ShellCloses(x)
  <2> DEFINE k == session[x].attached
             n == {session[x].id}
  <2>1. k \in Sockets \cup {None} /\ n \in SUBSET Names
    BY <1>1 DEF Session
  <2>2. CASE k = None
    <3>1. SameSessions(session') /\ sock' = sock /\ map' = map
      BY <1>1, <1>2, <1>4, <2>2, SessionTold DEF ShellCloses, IInv
    <3> QED BY <1>1, <1>2, <3>1, KeptInv
  <2>3. CASE k # None
    <3>1. /\ session' = [Closed(Objects(n)) EXCEPT ![x].shell = "closed"]
          /\ sock' = [Released(Objects(n)) EXCEPT ![k].open = FALSE]
          /\ map' = Unmapped(n)
      BY <1>4, <2>3 DEF ShellCloses
    <3> HIDE DEF n, k
    <3>2. /\ SameSessions(Closed(Objects(n))) /\ SameSockets(Released(Objects(n)))
          /\ map' \in [Names -> Sockets \cup {None}]
          /\ \A m \in Names : map'[m] \in {map[m], None}
      BY <2>1, <3>1, DestroyKeeps
    <3>3. SameSessions(session')
      BY <1>1, <3>1, <3>2, SessionTold DEF IInv
    <3>4. SameSockets(sock')
      BY <2>1, <2>3, <3>1, <3>2, SocketTold DEF IInv
    <3> QED BY <1>1, <3>2, <3>3, <3>4, KeptInv
  <2> QED BY <2>2, <2>3
<1> QED BY <1>3, <1>4

LEMMA ServerStepInv ==
  ASSUME IInv, NEW s \in Servers,
         \/ UpdateRow(s) \/ UpdateCloses(s) \/ DeleteCloses(s)
         \/ DeleteRow(s) \/ Disconnect(s) \/ UseElsewhere(s)
  PROVE  IInv'
<1>1. issued' = issued /\ valid' \in SUBSET valid
  BY DEF UpdateRow, UpdateCloses, DeleteCloses, DeleteRow, Disconnect, UseElsewhere, tickets
<1>2. /\ SameSessions(session) /\ SameSockets(sock)
      /\ map \in [Names -> Sockets \cup {None}] /\ \A n \in Names : map[n] \in {map[n], None}
  BY NothingChanged DEF IInv
<1>3. CASE UpdateRow(s)
  <2>1. current' = [current EXCEPT ![s] = @ + 1] /\ current[s] \in Version
        /\ current[s] < MaxChanges
    BY <1>3 DEF UpdateRow, IInv, TypeOK
  <2>2. current[s] + 1 \in Version
    BY <2>1, ConstantsAssumption DEF Version
  <2>3. current' \in [Servers -> Version \cup {None}]
    BY <2>1, <2>2 DEF IInv, TypeOK
  <2>4. ServersOK' /\ session' = session /\ sock' = sock /\ map' = map
    BY <1>3, <2>3 DEF UpdateRow, IInv, TypeOK, ServersOK
  <2> QED BY <1>1, <1>2, <2>4, KeptInv
<1>4. CASE UpdateCloses(s)
  <2> DEFINE X == Objects(OnServer(s))
  <2>1. OnServer(s) \in SUBSET Names
    BY DEF OnServer
  <2>2. X \in SUBSET Sockets /\ \A x \in X : session[x] \in Session
    BY <2>1, ObjectsAreSessions
  <2>3. CloseConnection(s, X) /\ map' = Unmapped(OnServer(s)) /\ current' = current
        /\ change' = [change EXCEPT ![s] = "none"]
    BY <1>4 DEF UpdateCloses
  <2> HIDE DEF X
  <2>4. SameSessions(session') /\ SameSockets(sock')
        /\ pool' \in [Servers -> Version \cup {None}]
    BY <2>2, <2>3, CloseConnectionKeeps
  <2>5. /\ map' \in [Names -> Sockets \cup {None}]
        /\ \A n \in Names : map'[n] \in {map[n], None}
    BY <2>1, <2>3, UnmappedIsLess DEF IInv
  <2>6. ServersOK'
    BY <2>3, <2>4 DEF IInv, TypeOK, ServersOK
  <2> QED BY <1>1, <2>4, <2>5, <2>6, KeptInv
<1>5. CASE DeleteCloses(s) \/ Disconnect(s)
  <2>1. CloseConnection(s, {}) /\ map' = map /\ current' = current
        /\ change' \in {change, [change EXCEPT ![s] = "delete"]}
    BY <1>5 DEF DeleteCloses, Disconnect
  <2>2. {} \in SUBSET Sockets /\ \A x \in {} : session[x] \in Session
    OBVIOUS
  <2>3. SameSessions(session') /\ SameSockets(sock')
        /\ pool' \in [Servers -> Version \cup {None}]
    BY <2>1, <2>2, CloseConnectionKeeps
  <2>4. ServersOK'
    BY <2>1, <2>3 DEF IInv, TypeOK, ServersOK
  <2> QED BY <1>1, <1>2, <2>1, <2>3, <2>4, KeptInv
<1>6. CASE DeleteRow(s)
  <2>1. ServersOK' /\ session' = session /\ sock' = sock /\ map' = map
    BY <1>6 DEF DeleteRow, IInv, TypeOK, ServersOK
  <2> QED BY <1>1, <1>2, <2>1, KeptInv
<1>7. CASE UseElsewhere(s)
  <2>1. ServersOK' /\ map' = map
    BY <1>7 DEF UseElsewhere, IInv, TypeOK, ServersOK
  <2>2. /\ session' \in {session, CutShells(s)}
        /\ sock' \in {sock, CutSockets(s)}
    BY <1>7 DEF UseElsewhere
  <2>3. SameSessions(session') /\ SameSockets(sock')
    BY <1>2, <2>2, CutShellsKeeps, CutSocketsKeeps DEF IInv
  <2> QED BY <1>1, <1>2, <2>1, <2>3, KeptInv
<1> QED BY <1>3, <1>4, <1>5, <1>6, <1>7

LEMMA InvStep == IInv /\ [Next]_vars => IInv'
<1> SUFFICES ASSUME IInv, [Next]_vars PROVE IInv'
  OBVIOUS
<1>1. /\ SameSessions(session) /\ SameSockets(sock) /\ ServersOK
      /\ map \in [Names -> Sockets \cup {None}] /\ \A n \in Names : map[n] \in {map[n], None}
  BY NothingChanged DEF IInv, TypeOK, ServersOK
<1>2. ASSUME NEW t \in Tickets, IssueTicket(t) \/ TicketExpires(t)
      PROVE  IInv'
  <2>1. CASE TicketExpires(t)
    <3>1. /\ valid' \in SUBSET valid
          /\ UNCHANGED <<current, change, pool, issued, sock, session, map>>
      BY <2>1 DEF TicketExpires, server
    <3>2. ServersOK'
      BY <1>1, <3>1 DEF ServersOK
    <3> QED BY <1>1, <3>1, <3>2, KeptInv
  <2> QED BY <1>2, <2>1, IssueTicketInv
<1>3. ASSUME NEW k \in Sockets,
             \/ Connect(k) \/ Lookup(k) \/ Rejoin(k) \/ Open(k) \/ Opened(k)
             \/ OpenFails(k) \/ Message(k) \/ HangUp(k) \/ CloseEvent(k)
             \/ ErrorEvent(k) \/ ShellExits(k) \/ ShellCloses(k) \/ Expires(k)
      PROVE  IInv'
  BY <1>3, ConnectInv, LookupInv, RejoinInv, OpenInv, OpenedInv, SocketStepInv, ShellStepInv
<1>4. ASSUME NEW names \in SUBSET Names, Destroy(names), UNCHANGED <<server, tickets>>
      PROVE  IInv'
  <2>1. /\ SameSessions(session') /\ SameSockets(sock')
        /\ map' \in [Names -> Sockets \cup {None}]
        /\ \A n \in Names : map'[n] \in {map[n], None}
    BY <1>4, DestroyKeeps DEF Destroy
  <2>2. ServersOK' /\ issued' = issued /\ valid' \in SUBSET valid
    BY <1>1, <1>4 DEF ServersOK, server, tickets
  <2> QED BY <2>1, <2>2, KeptInv
<1>5. CASE ListSessions
  BY <1>4, <1>5 DEF ListSessions, Expired
<1>6. ASSUME NEW n \in Names, DeleteSession(n)
      PROVE  IInv'
  BY <1>4, <1>6 DEF DeleteSession
<1>7. ASSUME NEW s \in Servers,
             \/ UpdateRow(s) \/ UpdateCloses(s) \/ DeleteCloses(s)
             \/ DeleteRow(s) \/ Disconnect(s) \/ UseElsewhere(s)
      PROVE  IInv'
  BY <1>7, ServerStepInv
<1>8. CASE UNCHANGED vars
  <2>1. /\ session' = session /\ sock' = sock /\ map' = map /\ issued' = issued
        /\ valid' = valid /\ current' = current /\ change' = change /\ pool' = pool
    BY <1>8 DEF vars
  <2>2. ServersOK'
    BY <1>1, <2>1 DEF ServersOK
  <2> QED BY <1>1, <2>1, <2>2, KeptInv
<1> QED BY <1>2, <1>3, <1>5, <1>6, <1>7, <1>8 DEF Next

(* The invariant holds in every state of every behaviour of the module.    *)
THEOREM Invariant == Spec => []IInv
<1> QED BY InvInit, InvStep, PTL DEF Spec

(* Every variable of the terminals keeps its type.                         *)
THEOREM TypeCorrect == Spec => []TypeOK
<1>1. IInv => TypeOK
  BY DEF IInv
<1> QED BY <1>1, Invariant, PTL

(* A socket reads and writes only a shell of the user of its ticket, and   *)
(* no two sockets come in with one ticket, nor one with a ticket for       *)
(* another server or session.                                              *)
THEOREM OwnShells == Spec => []OwnShell
<1>1. IInv => OwnShell
  BY DEF IInv, TicketInv, SessionInv, OwnShell
<1> QED BY <1>1, Invariant, PTL

-----------------------------------------------------------------------------
(* Which socket a session counts as attached to, and which shells the map  *)
(* leads to.  What a handler does with its session when its socket closes  *)
(* depends on the last two conjuncts: only a socket whose shell was opened *)
(* is in a session, and only such a socket has opened one.                 *)
WellAttached(x) ==
  \A k \in Sockets : session[x].attached = k => Live(k) /\ sock[k].sess = x

AttachInv ==
  /\ \A n \in Names : map[n] # None => session[map[n]].id = n /\ WellAttached(map[n])
  /\ LoneSocketServed /\ NoShellLost
  /\ \A k \in Sockets : /\ sock[k].phase \notin Settled => sock[k].sess = None
                        /\ session[k] # None => sock[k].phase \in Settled

(* A handler that read the row and went on with it before anything changed *)
(* has the current settings, or a change of them is under way; while the   *)
(* server is being deleted and after it, its shell, if any, ends.          *)
Explained(k, ends) ==
  \/ sock[k].row # sock[k].known
  \/ LET s == sock[k].server IN
     /\ current[s] # None => sock[k].row = current[s] \/ change[s] = "update"
     /\ current[s] = None \/ change[s] = "delete" => ends \/ sock[k].between

UpToDate(x) ==
  /\ session[x].server = sock[x].server /\ session[x].account = sock[x].row
  /\ Explained(x, session[x].shell # "open")

SettingsInv ==
  /\ \A s \in Servers : change[s] # "none" => current[s] # None
  /\ \A k \in Sockets : At(k, "opening") => Explained(k, FALSE)
  /\ \A n \in Names : map[n] # None => UpToDate(map[n])

(* Sessions t, sockets q and a map m in which some sessions have ended and *)
(* some sockets were closed, in good order: a socket is only detached from *)
(* its session when it closes or another joined; the session of a socket   *)
(* that is gone is detached or out of the map; what leaves the map ends.   *)
QuietSessions(t) ==
  \A x \in Sockets :
    /\ session[x] = None => t[x] = None
    /\ session[x] # None =>
         /\ t[x] # None /\ t[x].id = session[x].id
         /\ t[x].server = session[x].server /\ t[x].account = session[x].account
         /\ t[x].attached \in {session[x].attached, None}
         /\ t[x].shell = "open" => session[x].shell = "open"

QuietSockets(q) ==
  \A k \in Sockets :
    /\ q[k].sess = sock[k].sess
    /\ sock[k].phase \in Settled => q[k].phase \in Settled
    /\ q[k].phase = "live" => Live(k) /\ (q[k].open => sock[k].open)
    /\ sock[k].phase \in Settled \cup {"opening"} =>
         /\ q[k].server = sock[k].server /\ q[k].row = sock[k].row
         /\ q[k].known = sock[k].known /\ q[k].between = sock[k].between

Quiet(t, q, m) ==
  /\ QuietSessions(t) /\ QuietSockets(q)
  /\ \A n \in Names : /\ m[n] \in {map[n], None}
                      /\ map[n] # None /\ m[n] = None => t[map[n]].shell # "open"
  /\ \A k \in Sockets :
       /\ q[k].phase = "live" /\ q[k].open /\ session[sock[k].sess].attached = k =>
            \/ t[sock[k].sess].attached = k
            \/ \E j \in Sockets \ {k} : sock[j].sess = sock[k].sess
       /\ Live(k) /\ q[k].phase # "live" =>
            \A n \in Names : m[n] # None => t[m[n]].attached # k

LEMMA SessionThere ==
  ASSUME IInv
  PROVE  /\ \A n \in Names : map[n] # None => map[n] \in Sockets /\ session[map[n]] # None
         /\ \A k \in Sockets : Live(k) => sock[k].sess \in Sockets /\ session[sock[k].sess] # None
  BY ConstantsAssumption DEF IInv, TypeOK, SessionInv, Socket

(* Such a step keeps what there is to say of the sockets.                  *)
LEMMA QuietAttach ==
  ASSUME IInv, AttachInv, Quiet(session', sock', map')
  PROVE  AttachInv'
<1>1. QuietSessions(session') /\ QuietSockets(sock')
  BY DEF Quiet
<1>2. ASSUME NEW n \in Names, map'[n] # None
      PROVE  session'[map'[n]].id = n /\ WellAttached(map[n])' /\ map'[n] = map[n]
  <2>1. PICK x \in Sockets : map[n] = x /\ map'[n] = x /\ session[x] # None
    BY <1>2, SessionThere DEF Quiet
  <2>2. session[x].id = n /\ session'[x].id = n /\ WellAttached(x)
    BY <1>1, <1>2, <2>1 DEF AttachInv, QuietSessions
  <2>3. ASSUME NEW k \in Sockets, session'[x].attached = k
        PROVE  Live(k)' /\ sock'[k].sess = x
    <3>1. session[x].attached = k
      BY <1>1, <2>1, <2>3, ConstantsAssumption DEF QuietSessions
    <3>2. Live(k) /\ sock[k].sess = x
      BY <2>2, <3>1 DEF WellAttached
    <3>3. sock'[k].phase = "live"
      BY <1>2, <2>1, <2>3, <3>2 DEF Quiet
    <3> QED BY <1>1, <3>2, <3>3 DEF QuietSockets, Live, At
  <2> QED BY <2>1, <2>2, <2>3 DEF WellAttached
<1>3. LoneSocketServed'
  <2> SUFFICES ASSUME NEW k \in Sockets, Live(k)', sock'[k].open
               PROVE  \/ session'[sock'[k].sess].attached = k
                      \/ \E j \in Sockets \ {k} : sock'[j].sess = sock'[k].sess
    BY DEF LoneSocketServed
  <2>1. Live(k) /\ sock[k].open /\ \A j \in Sockets : sock'[j].sess = sock[j].sess
    BY <1>1 DEF QuietSockets, Live, At
  <2>2. \/ session[sock[k].sess].attached = k
        \/ \E j \in Sockets \ {k} : sock[j].sess = sock[k].sess
    BY <2>1 DEF AttachInv, LoneSocketServed
  <2>3. sock'[k].phase = "live"
    BY DEF Live, At
  <2> QED BY <2>1, <2>2, <2>3 DEF Quiet
<1>4. NoShellLost'
  <2> SUFFICES ASSUME NEW x \in Sockets, session'[x] # None, session'[x].shell = "open"
               PROVE  \/ map'[session'[x].id] = x
                      \/ \E y \in Sockets \ {x} :
                           session'[y] # None /\ session'[y].id = session'[x].id
    BY DEF NoShellLost
  <2>1. session[x] # None /\ session[x].shell = "open" /\ session'[x].id = session[x].id
    BY <1>1 DEF QuietSessions
  <2>2. CASE map[session[x].id] = x
    <3>1. session[x].id \in Names /\ x # None
      BY <2>1, ConstantsAssumption DEF IInv, TypeOK, Session
    <3> QED BY <2>1, <2>2, <3>1 DEF Quiet
  <2>3. CASE \E y \in Sockets \ {x} : session[y] # None /\ session[y].id = session[x].id
    BY <1>1, <2>1, <2>3 DEF QuietSessions
  <2> QED BY <2>1, <2>2, <2>3 DEF AttachInv, NoShellLost
<1>5. \A k \in Sockets : /\ sock'[k].phase \notin Settled => sock'[k].sess = None
                         /\ session'[k] # None => sock'[k].phase \in Settled
  BY <1>1 DEF AttachInv, QuietSockets, QuietSessions
<1> QED BY <1>2, <1>3, <1>4, <1>5 DEF AttachInv

(* Unless the settings change, it also keeps what there is to say of them. *)
LEMMA QuietExplained ==
  ASSUME QuietSockets(sock'), current' = current, change' = change, NEW k \in Sockets,
         sock[k].phase \in Settled \cup {"opening"},
         NEW ends \in BOOLEAN, NEW now \in BOOLEAN, ends => now, Explained(k, ends)
  PROVE  Explained(k, now)'
  BY DEF QuietSockets, Explained

LEMMA QuietSettings ==
  ASSUME IInv, SettingsInv, Quiet(session', sock', map'), current' = current, change' = change,
         \A k \in Sockets : At(k, "opening")' => At(k, "opening") \/ Explained(k, FALSE)'
  PROVE  SettingsInv'
<1>1. QuietSessions(session') /\ QuietSockets(sock')
  BY DEF Quiet
<1>2. ASSUME NEW k \in Sockets, At(k, "opening")'
      PROVE  Explained(k, FALSE)'
  BY <1>1, <1>2, QuietExplained DEF SettingsInv, At
<1>3. ASSUME NEW n \in Names, map'[n] # None
      PROVE  UpToDate(map[n])' /\ map'[n] = map[n]
  <2>1. PICK x \in Sockets : /\ map[n] = x /\ map'[n] = x /\ session[x] # None
                             /\ sock[x].phase \in Settled
    BY <1>3, SessionThere DEF Quiet, IInv, SessionInv
  <2>2. UpToDate(x)
    BY <1>3, <2>1 DEF SettingsInv
  <2>3. /\ session'[x].server = session[x].server /\ session'[x].account = session[x].account
        /\ sock'[x].server = sock[x].server /\ sock'[x].row = sock[x].row
        /\ session[x].shell # "open" => session'[x].shell # "open"
    BY <1>1, <2>1 DEF QuietSessions, QuietSockets
  <2>4. PICK ends \in BOOLEAN : ends <=> session[x].shell # "open"
    OBVIOUS
  <2>5. PICK now \in BOOLEAN : now <=> session'[x].shell # "open"
    OBVIOUS
  <2>6. Explained(x, ends)
    BY <2>2, <2>4 DEF UpToDate, Explained
  <2>7. Explained(x, now)'
    BY <1>1, <2>1, <2>3, <2>4, <2>5, <2>6, QuietExplained
  <2>8. Explained(x, session[x].shell # "open")'
    BY <2>5, <2>7 DEF Explained
  <2> QED BY <2>1, <2>2, <2>3, <2>8 DEF UpToDate
<1> QED BY <1>2, <1>3 DEF SettingsInv

-----------------------------------------------------------------------------
(* The helpers of the module are such steps.                               *)
LEMMA QuietNothing ==
  ASSUME IInv
  PROVE  Quiet(session, sock, map) /\ QuietSessions(session) /\ QuietSockets(sock)
BY SessionThere DEF Quiet, QuietSessions, QuietSockets, Live, At

LEMMA ClosedQuiet ==
  ASSUME IInv, NEW X \in SUBSET Sockets, \A x \in X : session[x] \in Session
  PROVE  /\ QuietSessions(Closed(X))
         /\ \A x \in X : Closed(X)[x].shell = "closed"
         /\ \A x \in Sockets \ X : Closed(X)[x] = session[x]
<1>1. ASSUME NEW x \in X
      PROVE  LET y == [session[x] EXCEPT !.shell = "closed", !.attached = None]
             IN /\ y # None /\ y.id = session[x].id /\ y.server = session[x].server
                /\ y.account = session[x].account /\ y.attached = None /\ y.shell = "closed"
  <2> DEFINE y == [session[x] EXCEPT !.shell = "closed", !.attached = None]
  <2>1. /\ y \in Session /\ y.id = session[x].id /\ y.server = session[x].server
        /\ y.account = session[x].account /\ y.attached = None /\ y.shell = "closed"
    BY DEF Session
  <2>2. None \notin Session
    BY ConstantsAssumption
  <2> QED BY <2>1, <2>2
<1>2. \A x \in X : session[x] # None
  BY ConstantsAssumption
<1>3. \A x \in Sockets :
        Closed(X)[x] = IF x \in X
                       THEN [session[x] EXCEPT !.shell = "closed", !.attached = None]
                       ELSE session[x]
  BY DEF Closed
<1>4. \A x \in Sockets \ X : Closed(X)[x] = session[x]
  BY <1>3
<1>5. ASSUME NEW x \in X
      PROVE  /\ Closed(X)[x] # None /\ Closed(X)[x].id = session[x].id
             /\ Closed(X)[x].server = session[x].server
             /\ Closed(X)[x].account = session[x].account
             /\ Closed(X)[x].attached = None /\ Closed(X)[x].shell = "closed"
  BY <1>1, <1>3
<1> QED BY <1>2, <1>4, <1>5 DEF QuietSessions

LEMMA CutShellsQuiet ==
  ASSUME IInv, NEW s \in Servers
  PROVE  /\ QuietSessions(CutShells(s))
         /\ \A x \in Sockets : session[x] # None =>
              /\ CutShells(s)[x].attached = session[x].attached
              /\ session[x].server = s => CutShells(s)[x].shell # "open"
<1>1. ASSUME NEW x \in Sockets, session[x] # None
      PROVE  LET y == [session[x] EXCEPT !.shell = "ending"]
             IN /\ y # None /\ y.id = session[x].id /\ y.server = session[x].server
                /\ y.account = session[x].account /\ y.attached = session[x].attached
                /\ y.shell = "ending"
  <2> DEFINE y == [session[x] EXCEPT !.shell = "ending"]
  <2>1. session[x] \in Session
    BY <1>1 DEF IInv, TypeOK
  <2>2. /\ y \in Session /\ y.id = session[x].id /\ y.server = session[x].server
        /\ y.account = session[x].account /\ y.attached = session[x].attached
        /\ y.shell = "ending"
    BY <2>1 DEF Session
  <2>3. None \notin Session
    BY ConstantsAssumption
  <2> QED BY <2>2, <2>3
<1>2. \A x \in Sockets :
        CutShells(s)[x] = IF session[x] # None /\ session[x].server = s
                               /\ session[x].shell = "open"
                          THEN [session[x] EXCEPT !.shell = "ending"] ELSE session[x]
  BY DEF CutShells
<1> QED BY <1>1, <1>2 DEF QuietSessions

LEMMA ReleasedQuiet ==
  ASSUME IInv, NEW X \in SUBSET Sockets
  PROVE  /\ QuietSockets(Released(X))
         /\ \A k \in Sockets : Released(X)[k].phase = sock[k].phase
         /\ \A k \in Sockets, x \in X : session[x].attached = k => ~Released(X)[k].open
<1>1. ASSUME NEW k \in Sockets
      PROVE  LET q == [sock[k] EXCEPT !.open = FALSE]
             IN /\ q.phase = sock[k].phase /\ q.sess = sock[k].sess /\ q.server = sock[k].server
                /\ q.row = sock[k].row /\ q.known = sock[k].known
                /\ q.between = sock[k].between /\ q.open = FALSE
  BY DEF IInv, Socket, TypeOK
<1>2. \A k \in Sockets :
        Released(X)[k] = IF \E x \in X : session[x].attached = k
                         THEN [sock[k] EXCEPT !.open = FALSE] ELSE sock[k]
  BY DEF Released
<1> QED BY <1>1, <1>2 DEF QuietSockets, Live, At

LEMMA CutSocketsQuiet ==
  ASSUME IInv, NEW s \in Servers
  PROVE  /\ QuietSockets(CutSockets(s))
         /\ \A k \in Sockets :
              /\ CutSockets(s)[k].phase # "live" => ~Live(k)
              /\ CutSockets(s)[k].phase = "opening" =>
                   sock[k].phase = "opening" /\ sock[k].server # s
<1>1. ASSUME NEW k \in Sockets
      PROVE  LET q == [sock[k] EXCEPT !.phase = "failing"]
             IN /\ q.phase = "failing" /\ q.sess = sock[k].sess /\ q.server = sock[k].server
                /\ q.row = sock[k].row /\ q.known = sock[k].known
                /\ q.between = sock[k].between /\ q.open = sock[k].open
  BY DEF IInv, Socket, TypeOK
<1>2. \A k \in Sockets :
        CutSockets(s)[k] = IF sock[k].server = s /\ sock[k].phase = "opening"
                           THEN [sock[k] EXCEPT !.phase = "failing"] ELSE sock[k]
  BY DEF CutSockets, At
<1> QED BY <1>1, <1>2 DEF QuietSockets, Live, At, Settled

(* Sessions that are destroyed                                             *)
LEMMA DestroyQuiet ==
  ASSUME IInv, NEW names \in SUBSET Names
  PROVE  Quiet(Closed(Objects(names)), Released(Objects(names)), Unmapped(names))
<1> DEFINE X == Objects(names)
<1>1. X \in SUBSET Sockets /\ \A x \in X : session[x] \in Session
  BY ObjectsAreSessions
<1>2. /\ QuietSessions(Closed(X)) /\ QuietSockets(Released(X))
      /\ \A x \in X : Closed(X)[x].shell = "closed"
      /\ \A x \in Sockets \ X : Closed(X)[x] = session[x]
      /\ \A k \in Sockets : Released(X)[k].phase = sock[k].phase
      /\ \A k \in Sockets, x \in X : session[x].attached = k => ~Released(X)[k].open
  BY <1>1, ClosedQuiet, ReleasedQuiet
<1>3. \A n \in Names : /\ Unmapped(names)[n] \in {map[n], None}
                       /\ map[n] # None /\ Unmapped(names)[n] = None => map[n] \in X
  BY DEF Unmapped, Objects
<1> HIDE DEF X
<1>4. ASSUME NEW k \in Sockets, Released(X)[k].phase = "live", Released(X)[k].open,
             session[sock[k].sess].attached = k
      PROVE  Closed(X)[sock[k].sess].attached = k
  BY <1>2, <1>4, SessionThere DEF Live, At
<1> QED BY <1>2, <1>3, <1>4 DEF Quiet, Live, At, X

(* ... or one socket or one session of which something else changes.       *)
LEMMA OneQuietSocket ==
  ASSUME NEW t, NEW q, NEW m, Quiet(t, q, m), q \in [Sockets -> Socket],
         NEW k \in Sockets, NEW r, r.sess = q[k].sess,
         sock[k].phase \in Settled => r.phase \in Settled,
         r.phase = "live" => q[k].phase = "live" /\ (r.open => q[k].open),
         sock[k].phase \in Settled \cup {"opening"} =>
           /\ r.server = q[k].server /\ r.row = q[k].row
           /\ r.known = q[k].known /\ r.between = q[k].between,
         Live(k) /\ r.phase # "live" => \A n \in Names : m[n] # None => t[m[n]].attached # k
  PROVE  Quiet(t, [q EXCEPT ![k] = r], m)
BY DEF Quiet, QuietSockets

LEMMA OneQuietSession ==
  ASSUME IInv, NEW t, NEW q, NEW m, Quiet(t, q, m), t \in [Sockets -> Session \cup {None}],
         NEW x \in Sockets, session[x] # None, NEW y \in Session,
         y.id = t[x].id, y.server = t[x].server, y.account = t[x].account,
         y.attached = t[x].attached, y.shell = "open" => t[x].shell = "open"
  PROVE  Quiet([t EXCEPT ![x] = y], q, m)
<1> DEFINE u == [t EXCEPT ![x] = y]
<1>1. \A z \in Sockets :
        /\ z = x => u[z] = y
        /\ z # x => u[z] = t[z]
        /\ u[z].attached = t[z].attached /\ (u[z].shell = "open" => t[z].shell = "open")
  OBVIOUS
<1>2. y # None
  BY ConstantsAssumption
<1> HIDE DEF u
<1>3. QuietSessions(u)
  BY <1>1, <1>2 DEF Quiet, QuietSessions
<1>4. \A n \in Names : /\ map[n] # None => map[n] \in Sockets
                       /\ m[n] # None => m[n] \in Sockets
  BY SessionThere DEF Quiet
<1>5. \A k \in Sockets : q[k].phase = "live" => sock[k].sess \in Sockets
  BY SessionThere DEF Quiet, QuietSockets
<1> QED BY <1>1, <1>3, <1>4, <1>5 DEF Quiet, u

-----------------------------------------------------------------------------
(* The steps of a handler on its way to a shell                            *)
LEMMA ConnectQuiet ==
  ASSUME IInv, NEW k \in Sockets, Connect(k)
  PROVE  Quiet(session', sock', map') /\ \A j \in Sockets : At(j, "opening")' => At(j, "opening")
<1> DEFINE X == Objects(Expired)
<1>1. Expired \in SUBSET Names /\ X \in SUBSET Sockets
  BY ObjectsAreSessions DEF Expired
<1>2. PICK t \in Tickets, s \in Servers \cup {None}, i \in Ids \cup {None} :
        sock' = [Released(X) EXCEPT ![k] = Presented(@, t, s, i)]
  BY DEF Connect
<1>3. sock[k].phase = "idle" /\ session' = Closed(X) /\ map' = Unmapped(Expired)
  BY DEF Connect, At
<1>4. Quiet(session', Released(X), map') /\ Released(X) \in [Sockets -> Socket]
      /\ \A j \in Sockets : Released(X)[j].phase = sock[j].phase
  BY <1>1, <1>3, DestroyQuiet, ReleasedQuiet, ReleasedKeeps DEF SameSockets, IInv
<1> HIDE DEF X
<1> DEFINE q == Released(X)
           r == Presented(q[k], t, s, i)
<1>5. r.phase \in {"lookup", "done"} /\ r.sess = q[k].sess
  BY <1>4 DEF Presented, Socket
<1>6. sock' = [q EXCEPT ![k] = r]
  BY <1>2
<1>7. q \in [Sockets -> Socket] /\ Quiet(session', q, map')
  BY <1>4
<1> HIDE DEF r, q
<1>8. Quiet(session', [q EXCEPT ![k] = r], map')
  BY <1>3, <1>5, <1>7, OneQuietSocket DEF Live, At, Settled
<1>9. \A j \in Sockets : sock'[j].phase = "opening" => sock[j].phase = "opening"
  BY <1>4, <1>5, <1>6, <1>7 DEF q
<1> QED BY <1>6, <1>8, <1>9 DEF At

LEMMA LookupQuiet ==
  ASSUME IInv, NEW k \in Sockets, Lookup(k)
  PROVE  Quiet(session', sock', map') /\ \A j \in Sockets : At(j, "opening")' => At(j, "opening")
<1>1. /\ sock[k].phase = "lookup" /\ sock[k] \in Socket /\ sock \in [Sockets -> Socket]
      /\ session' = session /\ map' = map
  BY DEF IInv, TypeOK, Lookup, At
<1>2. \E r : /\ sock' = [sock EXCEPT ![k] = r] /\ r.phase \in {"found", "done"}
             /\ r.sess = sock[k].sess
  <2>1. CASE sock' = [sock EXCEPT ![k].phase = "found", ![k].row = current[sock[k].server]]
    <3> DEFINE r == [sock[k] EXCEPT !.phase = "found", !.row = current[sock[k].server]]
    <3>1. r.phase = "found" /\ r.sess = sock[k].sess
      BY <1>1 DEF Socket
    <3>2. sock' = [sock EXCEPT ![k] = r]
      BY <1>1, <2>1
    <3> QED BY <3>1, <3>2
  <2>2. CASE sock' = [sock EXCEPT ![k].phase = "done", ![k].open = FALSE]
    <3> DEFINE r == [sock[k] EXCEPT !.phase = "done", !.open = FALSE]
    <3>1. r.phase = "done" /\ r.sess = sock[k].sess
      BY <1>1 DEF Socket
    <3>2. sock' = [sock EXCEPT ![k] = r]
      BY <1>1, <2>2
    <3> QED BY <3>1, <3>2
  <2> QED BY <2>1, <2>2 DEF Lookup
<1>3. PICK r : /\ sock' = [sock EXCEPT ![k] = r] /\ r.phase \in {"found", "done"}
               /\ r.sess = sock[k].sess
  BY <1>2
<1>4. Quiet(session, [sock EXCEPT ![k] = r], map)
  BY <1>1, <1>3, QuietNothing, OneQuietSocket DEF Live, At, Settled
<1>5. \A j \in Sockets : sock'[j].phase = "opening" => sock[j].phase = "opening"
  BY <1>1, <1>3
<1> QED BY <1>1, <1>3, <1>4, <1>5 DEF At

(* The session that a socket rejoins is attached to that socket now; the   *)
(* former ones of that session are no longer alone in it.                  *)
LEMMA RejoinKeeps ==
  ASSUME IInv, AttachInv, SettingsInv, NEW k \in Sockets, Rejoin(k)
  PROVE  AttachInv' /\ SettingsInv'
<1> DEFINE x == Known(k)
           y == Attached(session[x], k)
           q == [sock[k] EXCEPT !.phase = "live", !.sess = x]
<1>1. /\ sock[k].phase = "found" /\ x # None
      /\ session' = [session EXCEPT ![x] = y]
      /\ sock' = [sock EXCEPT ![k] = q]
      /\ UNCHANGED <<current, change, map>>
  BY DEF Rejoin, At, server, Attached
<1>2. x \in Sockets /\ session[x] \in Session /\ session[x] # None /\ k # None
  <2>1. sock[k].id \in Ids /\ map[sock[k].id] # None
    BY <1>1 DEF Known, IInv, TypeOK, Socket
  <2>2. x = map[sock[k].id]
    BY <1>1, <2>1 DEF Known
  <2> QED BY <2>1, <2>2, ConstantsAssumption DEF IInv, TypeOK, SessionInv, Names
<1>3. /\ y # None /\ y.id = session[x].id /\ y.attached = k /\ y.shell = session[x].shell
      /\ y.server = session[x].server /\ y.account = session[x].account
  <2>1. /\ y \in Session /\ y.id = session[x].id /\ y.attached = k
        /\ y.shell = session[x].shell /\ y.server = session[x].server
        /\ y.account = session[x].account
    BY <1>2 DEF Attached, Session
  <2> HIDE DEF y
  <2> QED BY <2>1, ConstantsAssumption
<1>4. /\ q.phase = "live" /\ q.sess = x /\ q.open = sock[k].open
      /\ q.server = sock[k].server /\ q.row = sock[k].row /\ q.known = sock[k].known
      /\ q.between = sock[k].between
  BY DEF IInv, TypeOK, Socket
<1> HIDE DEF x, y, q
<1>5. /\ sock'[k] = q /\ \A j \in Sockets \ {k} : sock'[j] = sock[j]
      /\ session'[x] = y /\ \A z \in Sockets \ {x} : session'[z] = session[z]
  BY <1>1, <1>2 DEF IInv, TypeOK
<1>6. sock[k].sess = None /\ ~Live(k) /\ session[k] = None
  BY <1>1 DEF AttachInv, Settled, Live, At
<1>7. ASSUME NEW n \in Names, map'[n] # None
      PROVE  /\ session'[map'[n]].id = n /\ WellAttached(map[n])' /\ UpToDate(map[n])'
  <2>1. PICK z \in Sockets : map[n] = z /\ map'[n] = z /\ session[z] # None
    BY <1>1, <1>7, SessionThere
  <2>2. session[z].id = n /\ WellAttached(z) /\ UpToDate(z) /\ z # k
    BY <1>1, <1>6, <1>7, <2>1 DEF AttachInv, SettingsInv
  <2>3. session'[z].id = n
    BY <1>3, <1>5, <2>2
  <2>4. ASSUME NEW j \in Sockets, session'[z].attached = j
        PROVE  Live(j)' /\ sock'[j].sess = z
    BY <1>3, <1>4, <1>5, <1>6, <2>2, <2>4 DEF WellAttached, Live, At
  <2>5. /\ session'[z].server = session[z].server /\ session'[z].account = session[z].account
        /\ session'[z].shell = session[z].shell /\ sock'[z] = sock[z]
    BY <1>3, <1>5, <2>2
  <2>6. UpToDate(z)'
    BY <1>1, <2>2, <2>5 DEF UpToDate, Explained
  <2> QED BY <2>1, <2>3, <2>4, <2>6 DEF WellAttached
<1>8. LoneSocketServed'
  <2> SUFFICES ASSUME NEW j \in Sockets, Live(j)', sock'[j].open
               PROVE  \/ session'[sock'[j].sess].attached = j
                      \/ \E h \in Sockets \ {j} : sock'[h].sess = sock'[j].sess
    BY DEF LoneSocketServed
  <2>1. CASE j = k
    BY <1>3, <1>4, <1>5, <2>1
  <2>2. CASE j # k
    <3>1. sock'[j] = sock[j] /\ Live(j) /\ sock[j].open /\ sock[j].sess \in Sockets
      BY <1>5, <2>2, SessionThere DEF Live, At
    <3>2. \/ session[sock[j].sess].attached = j
          \/ \E h \in Sockets \ {j} : sock[h].sess = sock[j].sess
      BY <3>1 DEF AttachInv, LoneSocketServed
    <3>3. CASE sock[j].sess = x
      BY <1>4, <1>5, <2>2, <3>1, <3>3
    <3>4. CASE sock[j].sess # x /\ session[sock[j].sess].attached = j
      BY <1>5, <3>1, <3>4
    <3>5. ASSUME NEW h \in Sockets \ {j}, sock[h].sess = sock[j].sess
          PROVE  sock'[h].sess = sock'[j].sess
      <4>1. sock[j].sess # None
        BY <3>1, ConstantsAssumption
      <4> QED BY <1>5, <1>6, <3>1, <3>5, <4>1
    <3> QED BY <3>2, <3>3, <3>4, <3>5
  <2> QED BY <2>1, <2>2
<1>9. NoShellLost'
  <2>1. \A z \in Sockets : /\ session'[z] # None <=> session[z] # None
                           /\ session'[z].id = session[z].id
                           /\ session'[z].shell = session[z].shell
    BY <1>2, <1>3, <1>5
  <2> QED BY <1>1, <2>1 DEF AttachInv, NoShellLost
<1>10. \A j \in Sockets : /\ sock'[j].phase \notin Settled => sock'[j].sess = None
                          /\ session'[j] # None => sock'[j].phase \in Settled
  BY <1>2, <1>4, <1>5 DEF AttachInv, Settled
<1>11. \A j \in Sockets : At(j, "opening")' => Explained(j, FALSE)'
  BY <1>1, <1>4, <1>5 DEF SettingsInv, Explained, At
<1>12. \A s \in Servers : change'[s] # "none" => current'[s] # None
  BY <1>1 DEF SettingsInv
<1> QED BY <1>1, <1>7, <1>8, <1>9, <1>10, <1>11, <1>12 DEF AttachInv, SettingsInv

(* A handler that goes on with the row it has read                         *)
LEMMA OpenKeeps ==
  ASSUME IInv, AttachInv, SettingsInv, NEW k \in Sockets, Open(k)
  PROVE  AttachInv' /\ SettingsInv'
<1> DEFINE s == sock[k].server
           same == pool[s] \in {None, sock[k].row}
           base == IF same THEN sock ELSE CutSockets(s)
           q == [base[k] EXCEPT !.phase = "opening", !.known = current[s],
                                !.between = change[s] = "delete"]
<1>1. /\ sock[k].phase = "found"
      /\ sock' = [base EXCEPT ![k].phase = "opening", ![k].known = current[s],
                              ![k].between = change[s] = "delete"]
      /\ session' = IF same THEN session ELSE CutShells(s)
      /\ UNCHANGED <<current, change, map>>
  BY DEF Open, At
<1>2. /\ s \in Servers /\ sock[k].row \in Version
  BY <1>1 DEF IInv, TypeOK, TicketInv, Begun, Socket, Ticket
<1>3. SameSockets(base) /\ Quiet(session', base, map)
      /\ \A j \in Sockets : base[j].phase = "opening" => sock[j].phase = "opening"
  <2>1. CASE same
    BY <1>1, <2>1, QuietNothing, NothingChanged DEF IInv
  <2>2. CASE ~same
    <3>1. base = CutSockets(s) /\ session' = CutShells(s)
      BY <1>1, <2>2
    <3>2. Quiet(CutShells(s), CutSockets(s), map)
      BY <1>2, CutShellsQuiet, CutSocketsQuiet, SessionThere DEF Quiet, QuietSockets
    <3> QED BY <1>2, <3>1, <3>2, CutSocketsQuiet, CutSocketsKeeps DEF IInv
  <2> QED BY <2>1, <2>2
<1>4. base[k] \in Socket /\ base \in [Sockets -> Socket]
      /\ base[k].server = s /\ base[k].row = sock[k].row /\ base[k].sess = sock[k].sess
  BY <1>3 DEF SameSockets
<1>5. current[s] \in Version \cup {None} /\ (change[s] = "delete") \in BOOLEAN
  BY <1>2 DEF IInv, TypeOK
<1>6. /\ q.phase = "opening" /\ q.server = s /\ q.row = sock[k].row /\ q.sess = base[k].sess
      /\ q.known = current[s] /\ (q.between <=> change[s] = "delete")
  BY <1>4 DEF Socket
<1>7. sock' = [base EXCEPT ![k] = q]
  BY <1>1, <1>4
<1> HIDE DEF q, base
<1>8. Quiet(session', sock', map')
  <2>1. Quiet(session', [base EXCEPT ![k] = q], map)
    BY <1>1, <1>3, <1>4, <1>6, OneQuietSocket DEF Live, At, Settled
  <2> QED BY <1>1, <1>7, <2>1
<1>9. sock'[k] = q /\ \A j \in Sockets \ {k} : sock'[j] = base[j]
  BY <1>4, <1>7
<1>10. Explained(k, FALSE)'
  <2>1. ASSUME q.row = q.known
        PROVE  /\ current[s] = q.row /\ current[s] # None
               /\ change[s] = "delete" => q.between
    BY <1>1, <1>6, <2>1 DEF IInv, TicketInv
  <2> QED BY <1>1, <1>6, <1>9, <2>1 DEF Explained
<1>11. \A j \in Sockets : At(j, "opening")' => At(j, "opening") \/ Explained(j, FALSE)'
  BY <1>3, <1>9, <1>10 DEF At
<1> QED BY <1>1, <1>8, <1>11, QuietAttach, QuietSettings

(* A socket whose shell is there is the only one in its session.           *)
LEMMA OpenedKeeps ==
  ASSUME IInv, AttachInv, SettingsInv, NEW k \in Sockets, Opened(k)
  PROVE  AttachInv' /\ SettingsInv'
<1> DEFINE ticket == issued[sock[k].ticket]
           name == NameFor(k)
           y == Attached([user |-> ticket.user, server |-> sock[k].server, id |-> name,
                          command |-> ticket.command, account |-> sock[k].row,
                          shell |-> "open", attached |-> None, expired |-> FALSE], k)
           q == [sock[k] EXCEPT !.phase = "live", !.sess = k]
<1>1. /\ sock[k].phase = "opening"
      /\ session' = [session EXCEPT ![k] = y] /\ map' = [map EXCEPT ![name] = k]
      /\ sock' = [sock EXCEPT ![k] = q]
      /\ UNCHANGED <<current, change>>
  BY DEF Opened, At, server, tickets
<1>2. /\ sock[k] \in Socket /\ name \in Names /\ k # None
  BY ConstantsAssumption DEF IInv, TypeOK, NameFor, Names, Socket
<1>3. /\ y # None /\ y.id = name /\ y.attached = k /\ y.shell = "open"
      /\ y.server = sock[k].server /\ y.account = sock[k].row
  <2>1. ticket \in Ticket /\ sock[k].row \in Version /\ ticket.server = sock[k].server
    BY <1>1, <1>2 DEF IInv, TypeOK, TicketInv, Begun, Socket
  <2>2. ticket.user \in Users /\ ticket.server \in Servers /\ ticket.command \in BOOLEAN
    BY <2>1 DEF Ticket
  <2> HIDE DEF name
  <2>3. y \in Session
    BY <1>2, <2>1, <2>2 DEF Attached, Session
  <2>4. /\ y.id = name /\ y.attached = k /\ y.shell = "open"
        /\ y.server = sock[k].server /\ y.account = sock[k].row
    BY DEF Attached
  <2> HIDE DEF y
  <2> QED BY <2>3, <2>4, ConstantsAssumption
<1>4. /\ q.phase = "live" /\ q.sess = k /\ q.open = sock[k].open
      /\ q.server = sock[k].server /\ q.row = sock[k].row /\ q.known = sock[k].known
      /\ q.between = sock[k].between
  BY <1>2 DEF Socket
<1> HIDE DEF ticket, name, y, q
<1>5. /\ sock'[k] = q /\ \A j \in Sockets \ {k} : sock'[j] = sock[j]
      /\ session'[k] = y /\ \A z \in Sockets \ {k} : session'[z] = session[z]
      /\ map'[name] = k /\ \A n \in Names \ {name} : map'[n] = map[n]
  BY <1>1, <1>2 DEF IInv, TypeOK
<1>6. sock[k].sess = None /\ ~Live(k) /\ session[k] = None
  BY <1>1 DEF AttachInv, Settled, Live, At
<1>7. ASSUME NEW n \in Names, map'[n] # None
      PROVE  session'[map'[n]].id = n /\ WellAttached(map[n])' /\ UpToDate(map[n])'
  <2>1. CASE n = name
    <3>1. ASSUME NEW j \in Sockets, session'[k].attached = j
          PROVE  Live(j)' /\ sock'[j].sess = k
      BY <1>3, <1>4, <1>5, <3>1 DEF Live, At
    <3>2. UpToDate(k)'
      <4>1. Explained(k, FALSE)
        BY <1>1 DEF SettingsInv, At
      <4> QED BY <1>1, <1>3, <1>4, <1>5, <4>1 DEF UpToDate, Explained
    <3>3. session'[k].id = n
      BY <1>3, <1>5, <2>1
    <3> QED BY <1>5, <2>1, <3>1, <3>2, <3>3 DEF WellAttached
  <2>2. CASE n # name
    <3>1. PICK z \in Sockets : map[n] = z /\ map'[n] = z /\ session[z] # None
      BY <1>5, <1>7, <2>2, SessionThere
    <3>2. session[z].id = n /\ WellAttached(z) /\ UpToDate(z) /\ z # k
      BY <1>6, <1>7, <3>1 DEF AttachInv, SettingsInv
    <3>3. session'[z] = session[z] /\ sock'[z] = sock[z]
      BY <1>5, <3>2
    <3>4. ASSUME NEW j \in Sockets, session'[z].attached = j
          PROVE  Live(j)' /\ sock'[j].sess = z
      BY <1>5, <1>6, <3>2, <3>3, <3>4 DEF WellAttached, Live, At
    <3>5. UpToDate(z)'
      BY <1>1, <3>2, <3>3 DEF UpToDate, Explained
    <3> QED BY <3>1, <3>2, <3>3, <3>4, <3>5 DEF WellAttached
  <2> QED BY <2>1, <2>2
<1>8. LoneSocketServed'
  <2> SUFFICES ASSUME NEW j \in Sockets, Live(j)', sock'[j].open
               PROVE  \/ session'[sock'[j].sess].attached = j
                      \/ \E h \in Sockets \ {j} : sock'[h].sess = sock'[j].sess
    BY DEF LoneSocketServed
  <2>1. CASE j = k
    BY <1>3, <1>4, <1>5, <2>1
  <2>2. CASE j # k
    <3>1. /\ sock'[j] = sock[j] /\ Live(j) /\ sock[j].open
          /\ sock[j].sess \in Sockets \ {k} /\ sock[j].sess # None
      BY <1>5, <1>6, <2>2, SessionThere, ConstantsAssumption DEF Live, At
    <3>2. \/ session[sock[j].sess].attached = j
          \/ \E h \in Sockets \ {j} : sock[h].sess = sock[j].sess
      BY <3>1 DEF AttachInv, LoneSocketServed
    <3> QED BY <1>5, <1>6, <3>1, <3>2
  <2> QED BY <2>1, <2>2
<1>9. NoShellLost'
  <2> SUFFICES ASSUME NEW z \in Sockets, session'[z] # None, session'[z].shell = "open"
               PROVE  \/ map'[session'[z].id] = z
                      \/ \E h \in Sockets \ {z} :
                           session'[h] # None /\ session'[h].id = session'[z].id
    BY DEF NoShellLost
  <2>1. CASE z = k
    BY <1>3, <1>5, <2>1
  <2>2. CASE z # k
    <3>1. session'[z] = session[z] /\ session[z].id \in Names
      BY <1>5, <2>2 DEF IInv, TypeOK, Session
    <3>2. CASE session[z].id = name
      BY <1>3, <1>5, <2>2, <3>1, <3>2
    <3>3. CASE session[z].id # name /\ map[session[z].id] = z
      BY <1>5, <3>1, <3>3
    <3>4. ASSUME NEW h \in Sockets \ {z}, session[h] # None, session[h].id = session[z].id
          PROVE  session'[h] # None /\ session'[h].id = session'[z].id
      BY <1>5, <1>6, <3>1, <3>4
    <3>5. \/ map[session[z].id] = z
          \/ \E h \in Sockets \ {z} : session[h] # None /\ session[h].id = session[z].id
      BY <3>1 DEF AttachInv, NoShellLost
    <3> QED BY <3>2, <3>3, <3>4, <3>5
  <2> QED BY <2>1, <2>2
<1>10. \A j \in Sockets : /\ sock'[j].phase \notin Settled => sock'[j].sess = None
                          /\ session'[j] # None => sock'[j].phase \in Settled
  BY <1>4, <1>5 DEF AttachInv, Settled
<1>11. \A j \in Sockets : At(j, "opening")' => Explained(j, FALSE)'
  BY <1>1, <1>4, <1>5 DEF SettingsInv, Explained, At
<1>12. \A s \in Servers : change'[s] # "none" => current'[s] # None
  BY <1>1 DEF SettingsInv
<1> QED BY <1>7, <1>8, <1>9, <1>10, <1>11, <1>12 DEF AttachInv, SettingsInv

-----------------------------------------------------------------------------
(* When a socket leaves, its session is detached, or ends; a session of    *)
(* the map that counted as attached to the socket is that session.         *)
LEMMA LeaveQuiet ==
  ASSUME IInv, AttachInv, NEW k \in Sockets, Live(k), Leave(k),
         NEW r, r.sess = Left(k)[k].sess, r.phase \in Settled, r.phase = "done" \/ ~r.open,
         r.server = Left(k)[k].server, r.row = Left(k)[k].row,
         r.known = Left(k)[k].known, r.between = Left(k)[k].between
  PROVE  Quiet(session', [Left(k) EXCEPT ![k] = r], map')
<1> DEFINE x == sock[k].sess
           n == {session[x].id}
           q == Left(k)
           p == [q EXCEPT ![k] = r]
<1>1. x \in Sockets /\ session[x] \in Session /\ session[x] # None /\ n \in SUBSET Names
  BY SessionThere DEF IInv, TypeOK, SessionInv, Session
<1>2. q \in [Sockets -> Socket]
  BY LeaveKeeps DEF SameSockets
<1>3. p[k] = r /\ \A j \in Sockets \ {k} : p[j] = q[j]
  BY <1>2
<1>4. \A m \in Names : map[m] # None /\ session[map[m]].attached = k =>
        map[m] = x /\ session[x].id = m
  BY DEF AttachInv, WellAttached
<1>5. CASE session[x].command
  <2>1. session' = Closed(Objects(n)) /\ map' = Unmapped(n) /\ q = Released(Objects(n))
    BY <1>5 DEF Leave, Left
  <2>2. Quiet(session', q, map')
    BY <1>1, <2>1, DestroyQuiet
  <2>3. \A m \in Names : map'[m] # None => m \notin n /\ map'[m] = map[m]
    BY <2>1 DEF Unmapped
  <2>4. \A m \in Names : map'[m] # None => session'[map'[m]].attached # k
    <3> SUFFICES ASSUME NEW m \in Names, map'[m] # None, session'[map'[m]].attached = k
                 PROVE  FALSE
      OBVIOUS
    <3>1. map[m] # None /\ map[m] \in Sockets /\ session[map[m]] # None
      BY <2>3, SessionThere
    <3>2. session[map[m]].attached = k
      BY <2>2, <2>3, <3>1, ConstantsAssumption DEF Quiet, QuietSessions
    <3> QED BY <1>4, <2>3, <3>1, <3>2
  <2>5. QuietSockets(p)
    BY <1>3, <2>2 DEF Quiet, QuietSockets, Settled, Live, At
  <2>6. ASSUME NEW j \in Sockets, p[j].phase = "live", p[j].open
        PROVE  j # k
    BY <1>3, <2>6
  <2> HIDE DEF x, n, q, p
  <2> QED BY <1>3, <2>2, <2>4, <2>5, <2>6 DEF Quiet, q, p
<1>6. CASE ~session[x].command
  <2> DEFINE y == [session[x] EXCEPT !.attached = None, !.expired = FALSE]
  <2>1. session' = [session EXCEPT ![x] = y] /\ map' = map /\ q = sock
    BY <1>6 DEF Leave, Left
  <2>2. /\ y # None /\ y.id = session[x].id /\ y.server = session[x].server
        /\ y.account = session[x].account /\ y.attached = None /\ y.shell = session[x].shell
    <3>1. /\ y \in Session /\ y.id = session[x].id /\ y.server = session[x].server
          /\ y.account = session[x].account /\ y.attached = None
          /\ y.shell = session[x].shell
      BY <1>1 DEF Session
    <3> HIDE DEF y
    <3> QED BY <3>1, ConstantsAssumption
  <2> HIDE DEF y, n
  <2>3. session'[x] = y /\ \A z \in Sockets \ {x} : session'[z] = session[z]
    BY <1>1, <2>1 DEF IInv, TypeOK
  <2>4. QuietSessions(session')
    BY <1>1, <2>2, <2>3 DEF QuietSessions
  <2>5. QuietSockets(p)
    BY <1>3, <2>1, QuietNothing DEF QuietSockets, Settled, Live, At
  <2>6. \A m \in Names : map[m] # None => session'[map[m]].attached # k
    BY <1>1, <1>4, <2>2, <2>3, SessionThere, ConstantsAssumption
  <2>7. ASSUME NEW j \in Sockets, p[j].phase = "live", p[j].open, session[sock[j].sess].attached = j
        PROVE  \/ session'[sock[j].sess].attached = j
               \/ \E h \in Sockets \ {j} : sock[h].sess = sock[j].sess
    <3>1. j # k /\ Live(j)
      BY <1>3, <2>1, <2>7 DEF Live, At
    <3>2. sock[j].sess \in Sockets
      BY <3>1, SessionThere
    <3>3. CASE sock[j].sess = x
      BY <3>1, <3>3
    <3>4. CASE sock[j].sess # x
      BY <2>3, <2>7, <3>2, <3>4
    <3> QED BY <3>3, <3>4
  <2>8. ASSUME NEW j \in Sockets, Live(j), p[j].phase # "live"
        PROVE  j = k
    BY <1>3, <2>1, <2>8 DEF Live, At
  <2> HIDE DEF x, q, p
  <2> QED BY <2>1, <2>4, <2>5, <2>6, <2>7, <2>8 DEF Quiet, q, p
<1> QED BY <1>5, <1>6

LEMMA SocketStepQuiet ==
  ASSUME IInv, AttachInv, NEW k \in Sockets,
         OpenFails(k) \/ Message(k) \/ HangUp(k) \/ CloseEvent(k) \/ ErrorEvent(k)
  PROVE  Quiet(session', sock', map') /\ \A j \in Sockets : At(j, "opening")' => At(j, "opening")
<1>1. sock \in [Sockets -> Socket] /\ Quiet(session, sock, map)
  BY QuietNothing DEF IInv, TypeOK
<1>2. CASE OpenFails(k)
  <2> DEFINE r == [sock[k] EXCEPT !.phase = "done", !.open = FALSE]
  <2>1. sock' = [sock EXCEPT ![k] = r] /\ session' = session /\ map' = map
    BY <1>1, <1>2 DEF OpenFails
  <2>2. /\ r.phase = "done" /\ r.sess = sock[k].sess /\ r.server = sock[k].server
        /\ r.row = sock[k].row /\ r.known = sock[k].known /\ r.between = sock[k].between
    BY <1>1 DEF Socket
  <2>3. ~Live(k)
    BY <1>2 DEF OpenFails, Live, At
  <2> HIDE DEF r
  <2>4. Quiet(session, [sock EXCEPT ![k] = r], map)
    BY <1>1, <2>2, <2>3, OneQuietSocket DEF Settled
  <2> QED BY <1>1, <2>1, <2>2, <2>4 DEF At
<1>3. CASE HangUp(k) \/ (CloseEvent(k) /\ ~At(k, "live"))
  <2>1. PICK r : /\ sock' = [sock EXCEPT ![k] = r] /\ session' = session /\ map' = map
                 /\ r.phase = sock[k].phase /\ (r.open => sock[k].open)
                 /\ r.sess = sock[k].sess /\ r.server = sock[k].server
                 /\ r.row = sock[k].row /\ r.known = sock[k].known
                 /\ r.between = sock[k].between
    <3>1. CASE HangUp(k)
      <4> DEFINE r == [sock[k] EXCEPT !.open = FALSE]
      <4>1. sock' = [sock EXCEPT ![k] = r] /\ session' = session /\ map' = map
        BY <1>1, <3>1 DEF HangUp
      <4>2. /\ r.phase = sock[k].phase /\ ~r.open
            /\ r.sess = sock[k].sess /\ r.server = sock[k].server
            /\ r.row = sock[k].row /\ r.known = sock[k].known /\ r.between = sock[k].between
        BY <1>1 DEF Socket
      <4> QED BY <4>1, <4>2
    <3>2. CASE CloseEvent(k) /\ ~At(k, "live")
      <4> DEFINE r == [sock[k] EXCEPT !.told = TRUE]
      <4>1. sock' = [sock EXCEPT ![k] = r] /\ session' = session /\ map' = map
        BY <1>1, <3>2 DEF CloseEvent
      <4>2. /\ r.phase = sock[k].phase /\ r.open = sock[k].open
            /\ r.sess = sock[k].sess /\ r.server = sock[k].server
            /\ r.row = sock[k].row /\ r.known = sock[k].known /\ r.between = sock[k].between
        BY <1>1 DEF Socket
      <4> QED BY <4>1, <4>2
    <3> QED BY <1>3, <3>1, <3>2
  <2>2. Quiet(session, [sock EXCEPT ![k] = r], map)
    BY <1>1, <2>1, OneQuietSocket DEF Live, At
  <2> QED BY <1>1, <2>1, <2>2 DEF At
<1>4. CASE Message(k)
  <2> DEFINE x == sock[k].sess
             y == [session[x] EXCEPT !.expired = FALSE]
  <2>1. x \in Sockets /\ session[x] \in Session /\ session[x] # None
    BY <1>4, SessionThere DEF Message, Live, IInv, SessionInv
  <2>2. session' = [session EXCEPT ![x] = y] /\ sock' = sock /\ map' = map
    BY <1>4 DEF Message
  <2>3. /\ y \in Session /\ y.id = session[x].id /\ y.server = session[x].server
        /\ y.account = session[x].account /\ y.attached = session[x].attached
        /\ y.shell = session[x].shell
    BY <2>1 DEF Session
  <2>4. session \in [Sockets -> Session \cup {None}]
    BY DEF IInv, TypeOK
  <2> HIDE DEF x, y
  <2>5. Quiet([session EXCEPT ![x] = y], sock, map)
    BY <1>1, <2>1, <2>3, <2>4, OneQuietSession
  <2> QED BY <2>2, <2>5 DEF At
<1>5. CASE (CloseEvent(k) /\ At(k, "live")) \/ ErrorEvent(k)
  <2>1. Live(k) /\ Leave(k)
    BY <1>5 DEF CloseEvent, ErrorEvent, Live
  <2>2. Left(k) \in [Sockets -> Socket] /\ Left(k)[k].phase \in Settled
        /\ \A j \in Sockets : Left(k)[j].phase = "opening" => sock[j].phase = "opening"
    BY <2>1, LeaveKeeps DEF SameSockets, Settled, Live, At
  <2>3. PICK r : /\ sock' = [Left(k) EXCEPT ![k] = r] /\ r.phase \in Settled
                 /\ r.phase = "done" \/ ~r.open
                 /\ r.sess = Left(k)[k].sess /\ r.server = Left(k)[k].server
                 /\ r.row = Left(k)[k].row /\ r.known = Left(k)[k].known
                 /\ r.between = Left(k)[k].between
    <3> DEFINE q == Left(k)
    <3>1. CASE CloseEvent(k) /\ At(k, "live")
      <4> DEFINE r == [q[k] EXCEPT !.told = TRUE, !.phase = "done"]
      <4>1. sock' = [q EXCEPT ![k] = r]
        BY <2>2, <3>1 DEF CloseEvent
      <4>2. q[k] \in Socket
        BY <2>2
      <4> HIDE DEF q
      <4>3. /\ r.phase = "done" /\ r.sess = q[k].sess /\ r.server = q[k].server
            /\ r.row = q[k].row /\ r.known = q[k].known /\ r.between = q[k].between
        BY <4>2 DEF Socket
      <4> QED BY <4>1, <4>3 DEF q, Settled
    <3>2. CASE ErrorEvent(k)
      <4> DEFINE r == [q[k] EXCEPT !.open = FALSE]
      <4>1. sock' = [q EXCEPT ![k] = r]
        BY <2>2, <3>2 DEF ErrorEvent
      <4>2. q[k] \in Socket /\ q[k].phase \in Settled
        BY <2>2
      <4> HIDE DEF q
      <4>3. /\ r.phase \in Settled /\ ~r.open /\ r.sess = q[k].sess /\ r.server = q[k].server
            /\ r.row = q[k].row /\ r.known = q[k].known /\ r.between = q[k].between
        BY <4>2 DEF Socket
      <4> QED BY <4>1, <4>3 DEF q
    <3> QED BY <1>5, <3>1, <3>2
  <2>4. Quiet(session', [Left(k) EXCEPT ![k] = r], map')
    BY <2>1, <2>3, LeaveQuiet
  <2>5. \A j \in Sockets : sock'[j].phase = "opening" => sock[j].phase = "opening"
    BY <2>2, <2>3 DEF Settled
  <2> QED BY <2>3, <2>4, <2>5 DEF At
<1> QED BY <1>2, <1>3, <1>4, <1>5

LEMMA ShellStepQuiet ==
  ASSUME IInv, NEW x \in Sockets, ShellExits(x) \/ ShellCloses(x) \/ Expires(x)
  PROVE  Quiet(session', sock', map') /\ \A j \in Sockets : At(j, "opening")' => At(j, "opening")
<1>1. /\ session[x] \in Session /\ session[x] # None /\ Quiet(session, sock, map)
      /\ session \in [Sockets -> Session \cup {None}] /\ sock \in [Sockets -> Socket]
  BY QuietNothing, ConstantsAssumption DEF ShellExits, ShellCloses, Expires, IInv, TypeOK
<1>2. CASE ShellExits(x) \/ Expires(x) \/ (ShellCloses(x) /\ session[x].attached = None)
  <2>1. PICK y \in Session :
          /\ session' = [session EXCEPT ![x] = y] /\ sock' = sock /\ map' = map
          /\ y.id = session[x].id /\ y.server = session[x].server
          /\ y.account = session[x].account /\ y.attached = session[x].attached
          /\ y.shell = "open" => session[x].shell = "open"
    <3>1. CASE ShellExits(x)
      <4> DEFINE y == [session[x] EXCEPT !.shell = "ending"]
      <4>1. session' = [session EXCEPT ![x] = y] /\ sock' = sock /\ map' = map
        BY <3>1 DEF ShellExits
      <4>2. /\ y \in Session /\ y.id = session[x].id /\ y.server = session[x].server
            /\ y.account = session[x].account /\ y.attached = session[x].attached
            /\ y.shell = "ending"
        BY <1>1 DEF Session
      <4> QED BY <4>1, <4>2
    <3>2. CASE Expires(x)
      <4> DEFINE y == [session[x] EXCEPT !.expired = TRUE]
      <4>1. session' = [session EXCEPT ![x] = y] /\ sock' = sock /\ map' = map
        BY <3>2 DEF Expires
      <4>2. /\ y \in Session /\ y.id = session[x].id /\ y.server = session[x].server
            /\ y.account = session[x].account /\ y.attached = session[x].attached
            /\ y.shell = session[x].shell
        BY <1>1 DEF Session
      <4> QED BY <4>1, <4>2
    <3>3. CASE ShellCloses(x) /\ session[x].attached = None
      <4> DEFINE y == [session[x] EXCEPT !.shell = "closed"]
      <4>1. session' = [session EXCEPT ![x] = y] /\ sock' = sock /\ map' = map
        BY <3>3 DEF ShellCloses
      <4>2. /\ y \in Session /\ y.id = session[x].id /\ y.server = session[x].server
            /\ y.account = session[x].account /\ y.attached = session[x].attached
            /\ y.shell = "closed"
        BY <1>1 DEF Session
      <4> QED BY <4>1, <4>2
    <3> QED BY <1>2, <3>1, <3>2, <3>3
  <2>2. Quiet([session EXCEPT ![x] = y], sock, map)
    BY <1>1, <2>1, OneQuietSession
  <2> QED BY <2>1, <2>2 DEF At
<1>3. CASE ShellCloses(x) /\ session[x].attached # None
  <2> DEFINE k == session[x].attached
             n == {session[x].id}
             t == Closed(Objects(n))
             q == Released(Objects(n))
             y == [t[x] EXCEPT !.shell = "closed"]
             r == [q[k] EXCEPT !.open = FALSE]
  <2>1. k \in Sockets /\ n \in SUBSET Names
    BY <1>1, <1>3 DEF Session
  <2>2. /\ session' = [t EXCEPT ![x].shell = "closed"]
        /\ sock' = [q EXCEPT ![k].open = FALSE]
        /\ map' = Unmapped(n)
    BY <1>3 DEF ShellCloses
  <2>3. Quiet(t, q, Unmapped(n)) /\ SameSessions(t) /\ SameSockets(q)
    BY <2>1, DestroyQuiet, DestroyKeeps
  <2>4. \A j \in Sockets : q[j].phase = sock[j].phase
    BY <2>1, ObjectsAreSessions, ReleasedQuiet
  <2> HIDE DEF k, n, t, q
  <2>5. /\ t \in [Sockets -> Session \cup {None}] /\ t[x] \in Session
        /\ q \in [Sockets -> Socket] /\ q[k] \in Socket
    BY <1>1, <2>1, <2>3 DEF SameSessions, SameSockets
  <2>6. session' = [t EXCEPT ![x] = y] /\ sock' = [q EXCEPT ![k] = r]
    BY <2>1, <2>2, <2>5
  <2>7. /\ y \in Session /\ y.id = t[x].id /\ y.server = t[x].server
        /\ y.account = t[x].account /\ y.attached = t[x].attached /\ y.shell = "closed"
    BY <2>5 DEF Session
  <2>8. /\ r.phase = q[k].phase /\ ~r.open /\ r.sess = q[k].sess /\ r.server = q[k].server
        /\ r.row = q[k].row /\ r.known = q[k].known /\ r.between = q[k].between
    BY <2>5 DEF Socket
  <2> HIDE DEF y, r
  <2>9. Quiet([t EXCEPT ![x] = y], q, map')
    BY <1>1, <2>2, <2>3, <2>5, <2>7, OneQuietSession
  <2>10. Quiet([t EXCEPT ![x] = y], [q EXCEPT ![k] = r], map')
    BY <2>1, <2>4, <2>5, <2>8, <2>9, OneQuietSocket DEF Live, At
  <2>11. \A j \in Sockets : sock'[j].phase = sock[j].phase
    BY <2>4, <2>5, <2>6, <2>8
  <2> QED BY <2>6, <2>10, <2>11 DEF At
<1> QED BY <1>2, <1>3

-----------------------------------------------------------------------------
(* A connection that closes after the sessions of these names were         *)
(* destroyed; the shells of its server end, and those who wait for a shell *)
(* on it fail.                                                             *)
LEMMA CloseConnectionQuiet ==
  ASSUME IInv, AttachInv, NEW s \in Servers, NEW names \in SUBSET Names,
         CloseConnection(s, Objects(names)), map' = Unmapped(names)
  PROVE  /\ Quiet(session', sock', map')
         /\ \A j \in Sockets : sock'[j].phase = "opening" =>
              sock[j].phase = "opening" /\ sock[j].server # s
         /\ \A x \in Sockets : session[x] # None /\ session[x].server = s =>
              session'[x].shell # "open"
<1> DEFINE X == Objects(names)
<1>1. X \in SUBSET Sockets /\ \A x \in X : session[x] \in Session /\ session[x] # None
                                            /\ WellAttached(x)
  BY ObjectsAreSessions, ConstantsAssumption DEF AttachInv, Objects
<1>2. /\ \A x \in Sockets :
           /\ x \in X => session'[x] = Closed(X)[x]
           /\ x \notin X => session'[x] = CutShells(s)[x]
      /\ \A k \in Sockets :
           /\ (\E x \in X : session[x].attached = k) => sock'[k] = Released(X)[k]
           /\ ~(\E x \in X : session[x].attached = k) => sock'[k] = CutSockets(s)[k]
  BY DEF CloseConnection
<1>3. /\ QuietSessions(Closed(X)) /\ QuietSockets(Released(X))
      /\ \A x \in X : Closed(X)[x].shell = "closed"
      /\ \A k \in Sockets : Released(X)[k].phase = sock[k].phase
      /\ \A k \in Sockets, x \in X : session[x].attached = k => ~Released(X)[k].open
  BY <1>1, ClosedQuiet, ReleasedQuiet
<1>4. \A n \in Names : /\ Unmapped(names)[n] \in {map[n], None}
                       /\ map[n] # None /\ Unmapped(names)[n] = None => map[n] \in X
  BY DEF Unmapped, Objects
<1> HIDE DEF X
<1>5. QuietSessions(session')
  BY <1>2, <1>3, CutShellsQuiet DEF QuietSessions
<1>6. QuietSockets(sock')
  BY <1>2, <1>3, CutSocketsQuiet DEF QuietSockets
<1>7. ASSUME NEW k \in Sockets, sock'[k].phase = "live", sock'[k].open,
             session[sock[k].sess].attached = k
      PROVE  session'[sock[k].sess].attached = k
  <2>1. Live(k) /\ sock[k].sess \in Sockets /\ session[sock[k].sess] # None
    BY <1>6, <1>7, SessionThere DEF QuietSockets
  <2>2. sock[k].sess \notin X
    BY <1>2, <1>3, <1>7
  <2> QED BY <1>2, <1>7, <2>1, <2>2, CutShellsQuiet
<1>8. ASSUME NEW k \in Sockets, Live(k)
      PROVE  sock'[k].phase = "live"
  BY <1>2, <1>3, <1>8, CutSocketsQuiet DEF Live, At
<1>9. \A n \in Names : map[n] # None /\ map'[n] = None => session'[map[n]].shell # "open"
  BY <1>1, <1>2, <1>3, <1>4
<1>10. Quiet(session', sock', map')
  BY <1>4, <1>5, <1>6, <1>7, <1>8, <1>9 DEF Quiet
<1>11. ASSUME NEW j \in Sockets, sock'[j].phase = "opening"
       PROVE  sock[j].phase = "opening" /\ sock[j].server # s
  <2>1. CASE \E x \in X : session[x].attached = j
    BY <1>1, <1>2, <1>3, <1>11, <2>1 DEF WellAttached, Live, At
  <2>2. CASE ~(\E x \in X : session[x].attached = j)
    BY <1>2, <1>11, <2>2, CutSocketsQuiet
  <2> QED BY <2>1, <2>2
<1>12. \A x \in Sockets : session[x] # None /\ session[x].server = s =>
         session'[x].shell # "open"
  BY <1>2, <1>3, CutShellsQuiet
<1> QED BY <1>10, <1>11, <1>12

(* Whose settings the last conjuncts of the invariant speak of             *)
LEMMA ServersThere ==
  ASSUME IInv, SettingsInv
  PROVE  /\ \A k \in Sockets : At(k, "opening") => sock[k].server \in Servers
         /\ \A n \in Names : map[n] # None => sock[map[n]].server \in Servers
<1>1. ASSUME NEW k \in Sockets, At(k, "opening")
      PROVE  sock[k].server \in Servers
  BY <1>1 DEF IInv, TypeOK, TicketInv, Begun, At, Ticket, Socket
<1>2. ASSUME NEW n \in Names, map[n] # None
      PROVE  sock[map[n]].server \in Servers
  BY <1>2 DEF IInv, SessionInv, Session, SettingsInv, UpToDate
<1> QED BY <1>1, <1>2

LEMMA UnmappedNone == TypeOK => Objects({}) = {} /\ Unmapped({}) = map
BY DEF TypeOK, Objects, Unmapped

(* The first half of an update: from now on it is under way.               *)
LEMMA UpdateRowKeeps ==
  ASSUME IInv, AttachInv, SettingsInv, NEW s \in Servers, UpdateRow(s)
  PROVE  AttachInv' /\ SettingsInv'
<1>1. /\ current[s] \in Nat /\ current[s] # None
      /\ current' = [current EXCEPT ![s] = current[s] + 1]
      /\ change' = [change EXCEPT ![s] = "update"]
      /\ session' = session /\ sock' = sock /\ map' = map
  BY ConstantsAssumption DEF UpdateRow, IInv, TypeOK, Version
<1>2. /\ current'[s] # None /\ change'[s] = "update" /\ change[s] = "none"
      /\ \A z \in Servers \ {s} : current'[z] = current[z] /\ change'[z] = change[z]
  <2>1. current'[s] \in Version \cup {None} /\ current'[s] = current[s] + 1
    <3>1. current[s] + 1 \in Version
      BY <1>1, ConstantsAssumption DEF UpdateRow, Version
    <3> QED BY <1>1, <3>1 DEF IInv, TypeOK
  <2>2. current[s] + 1 # None
    BY <1>1, ConstantsAssumption DEF UpdateRow, Version
  <2> QED BY <1>1, <2>1, <2>2 DEF UpdateRow, IInv, TypeOK
<1>3. AttachInv'
  BY <1>1, QuietNothing, QuietAttach
<1>4. ASSUME NEW k \in Sockets, NEW ends, Explained(k, ends), sock[k].server \in Servers
      PROVE  Explained(k, ends)'
  BY <1>1, <1>2, <1>4 DEF Explained
<1>5. ASSUME NEW n \in Names, map'[n] # None
      PROVE  UpToDate(map[n])'
  <2>1. PICK x \in Sockets : map[n] = x /\ map'[n] = x
    BY <1>1, <1>5, SessionThere
  <2>2. UpToDate(x) /\ sock[x].server \in Servers
    BY <1>5, <2>1, ServersThere DEF SettingsInv
  <2>3. PICK ends : ends = (session[x].shell # "open")
    OBVIOUS
  <2>4. Explained(x, ends)'
    BY <1>4, <2>2, <2>3 DEF UpToDate
  <2>5. UpToDate(x)'
    BY <1>1, <2>2, <2>3, <2>4 DEF UpToDate
  <2> QED BY <2>1, <2>5
<1>6. \A k \in Sockets : At(k, "opening")' => Explained(k, FALSE)'
  BY <1>1, <1>4, ServersThere DEF SettingsInv, At
<1> QED BY <1>1, <1>2, <1>3, <1>5, <1>6 DEF SettingsInv

(* The second half: nothing is left on the former connection.              *)
LEMMA UpdateClosesKeeps ==
  ASSUME IInv, AttachInv, SettingsInv, NEW s \in Servers, UpdateCloses(s)
  PROVE  AttachInv' /\ SettingsInv'
<1>1. /\ change' = [change EXCEPT ![s] = "none"] /\ current' = current
      /\ map' = Unmapped(OnServer(s)) /\ CloseConnection(s, Objects(OnServer(s)))
      /\ OnServer(s) \in SUBSET Names
  BY DEF UpdateCloses, OnServer
<1>2. /\ Quiet(session', sock', map')
      /\ \A j \in Sockets : sock'[j].phase = "opening" =>
           sock[j].phase = "opening" /\ sock[j].server # s
  BY <1>1, CloseConnectionQuiet
<1>3. change'[s] = "none" /\ \A z \in Servers \ {s} : change'[z] = change[z]
  BY <1>1 DEF IInv, TypeOK
<1>4. QuietSessions(session') /\ QuietSockets(sock')
  BY <1>2 DEF Quiet
<1>5. ASSUME NEW k \in Sockets, sock[k].server \in Servers \ {s},
             sock[k].phase \in Settled \cup {"opening"},
             NEW ends \in BOOLEAN, NEW now \in BOOLEAN, ends => now, Explained(k, ends)
      PROVE  Explained(k, now)'
  BY <1>1, <1>3, <1>4, <1>5 DEF QuietSockets, Explained
<1>6. ASSUME NEW k \in Sockets, At(k, "opening")'
      PROVE  Explained(k, FALSE)'
  BY <1>2, <1>5, <1>6, ServersThere DEF SettingsInv, At
<1>7. ASSUME NEW n \in Names, map'[n] # None
      PROVE  UpToDate(map[n])' /\ map'[n] = map[n]
  <2>1. PICK x \in Sockets : /\ map[n] = x /\ map'[n] = x /\ session[x] # None
                             /\ sock[x].phase \in Settled
    BY <1>2, <1>7, SessionThere DEF Quiet, IInv, SessionInv
  <2>2. UpToDate(x) /\ sock[x].server \in Servers
    BY <1>7, <2>1, ServersThere DEF SettingsInv
  <2>3. sock[x].server # s
    <3>1. n \notin OnServer(s)
      BY <1>1, <1>7 DEF Unmapped
    <3> QED BY <2>1, <2>2, <3>1, ConstantsAssumption DEF OnServer, UpToDate
  <2>4. /\ session'[x].server = session[x].server /\ session'[x].account = session[x].account
        /\ sock'[x].server = sock[x].server /\ sock'[x].row = sock[x].row
        /\ session[x].shell # "open" => session'[x].shell # "open"
    BY <1>4, <2>1 DEF QuietSessions, QuietSockets
  <2>5. PICK ends \in BOOLEAN : ends <=> session[x].shell # "open"
    OBVIOUS
  <2>6. PICK now \in BOOLEAN : now <=> session'[x].shell # "open"
    OBVIOUS
  <2>7. Explained(x, ends)
    BY <2>2, <2>5 DEF UpToDate, Explained
  <2>8. Explained(x, now)'
    BY <1>5, <2>1, <2>2, <2>3, <2>4, <2>5, <2>6, <2>7
  <2>9. Explained(x, session[x].shell # "open")'
    BY <2>6, <2>8 DEF Explained
  <2> QED BY <2>1, <2>2, <2>4, <2>9 DEF UpToDate
<1>8. \A z \in Servers : change'[z] # "none" => current'[z] # None
  BY <1>1, <1>3 DEF SettingsInv
<1> QED BY <1>2, <1>6, <1>7, <1>8, QuietAttach DEF SettingsInv

(* The first half of a deletion: every shell of the server ends.           *)
LEMMA DeleteClosesKeeps ==
  ASSUME IInv, AttachInv, SettingsInv, NEW s \in Servers, DeleteCloses(s)
  PROVE  AttachInv' /\ SettingsInv'
<1>1. /\ change' = [change EXCEPT ![s] = "delete"] /\ current' = current /\ map' = map
      /\ change[s] = "none" /\ current[s] # None /\ CloseConnection(s, {})
  BY DEF DeleteCloses
<1>2. /\ Quiet(session', sock', map')
      /\ \A j \in Sockets : sock'[j].phase = "opening" =>
           sock[j].phase = "opening" /\ sock[j].server # s
      /\ \A x \in Sockets : session[x] # None /\ session[x].server = s =>
           session'[x].shell # "open"
  <2>1. Objects({}) = {} /\ map' = Unmapped({}) /\ {} \in SUBSET Names
    BY <1>1, UnmappedNone DEF IInv
  <2>2. CloseConnection(s, Objects({}))
    BY <1>1, <2>1
  <2> QED BY <2>1, <2>2, CloseConnectionQuiet
<1>3. change'[s] = "delete" /\ \A z \in Servers \ {s} : change'[z] = change[z]
  BY <1>1 DEF IInv, TypeOK
<1>4. QuietSessions(session') /\ QuietSockets(sock')
  BY <1>2 DEF Quiet
<1>5. ASSUME NEW k \in Sockets, sock[k].server \in Servers,
             sock[k].phase \in Settled \cup {"opening"},
             NEW ends \in BOOLEAN, NEW now \in BOOLEAN, ends => now, Explained(k, ends),
             sock[k].server = s => now
      PROVE  Explained(k, now)'
  BY <1>1, <1>3, <1>4, <1>5 DEF QuietSockets, Explained
<1>6. ASSUME NEW k \in Sockets, At(k, "opening")'
      PROVE  Explained(k, FALSE)'
  BY <1>2, <1>5, <1>6, ServersThere DEF SettingsInv, At
<1>7. ASSUME NEW n \in Names, map'[n] # None
      PROVE  UpToDate(map[n])' /\ map'[n] = map[n]
  <2>1. PICK x \in Sockets : /\ map[n] = x /\ map'[n] = x /\ session[x] # None
                             /\ sock[x].phase \in Settled
    BY <1>1, <1>7, SessionThere DEF IInv, SessionInv
  <2>2. UpToDate(x) /\ sock[x].server \in Servers /\ session[x].server = sock[x].server
    BY <1>1, <1>7, <2>1, ServersThere DEF SettingsInv, UpToDate
  <2>3. /\ session'[x].server = session[x].server /\ session'[x].account = session[x].account
        /\ sock'[x].server = sock[x].server /\ sock'[x].row = sock[x].row
        /\ session[x].shell # "open" => session'[x].shell # "open"
    BY <1>4, <2>1 DEF QuietSessions, QuietSockets
  <2>4. PICK ends \in BOOLEAN : ends <=> session[x].shell # "open"
    OBVIOUS
  <2>5. PICK now \in BOOLEAN : now <=> session'[x].shell # "open"
    OBVIOUS
  <2>6. Explained(x, ends)
    BY <2>2, <2>4 DEF UpToDate, Explained
  <2>7. Explained(x, now)'
    BY <1>2, <1>5, <2>1, <2>2, <2>3, <2>4, <2>5, <2>6
  <2>8. Explained(x, session[x].shell # "open")'
    BY <2>5, <2>7 DEF Explained
  <2> QED BY <2>1, <2>2, <2>3, <2>8 DEF UpToDate
<1>8. \A z \in Servers : change'[z] # "none" => current'[z] # None
  BY <1>1, <1>3 DEF SettingsInv
<1> QED BY <1>2, <1>6, <1>7, <1>8, QuietAttach DEF SettingsInv

(* The second half, which may fail                                         *)
LEMMA DeleteRowKeeps ==
  ASSUME IInv, AttachInv, SettingsInv, NEW s \in Servers, DeleteRow(s)
  PROVE  AttachInv' /\ SettingsInv'
<1>1. /\ change[s] = "delete" /\ current[s] # None
      /\ change'[s] = "none" /\ current'[s] \in {current[s], None}
      /\ \A z \in Servers \ {s} : current'[z] = current[z] /\ change'[z] = change[z]
      /\ session' = session /\ sock' = sock /\ map' = map
  BY DEF DeleteRow, IInv, TypeOK, SettingsInv
<1>2. AttachInv'
  BY <1>1, QuietNothing, QuietAttach
<1>3. ASSUME NEW k \in Sockets, NEW ends, Explained(k, ends), sock[k].server \in Servers
      PROVE  Explained(k, ends)'
  BY <1>1, <1>3 DEF Explained
<1>4. ASSUME NEW n \in Names, map'[n] # None
      PROVE  UpToDate(map[n])'
  <2>1. PICK x \in Sockets : map[n] = x /\ map'[n] = x
    BY <1>1, <1>4, SessionThere
  <2>2. UpToDate(x) /\ sock[x].server \in Servers
    BY <1>1, <1>4, <2>1, ServersThere DEF SettingsInv
  <2>3. PICK ends : ends = (session[x].shell # "open")
    OBVIOUS
  <2>4. Explained(x, ends)'
    BY <1>3, <2>2, <2>3 DEF UpToDate
  <2>5. UpToDate(x)'
    BY <1>1, <2>2, <2>3, <2>4 DEF UpToDate
  <2> QED BY <2>1, <2>5
<1>5. \A k \in Sockets : At(k, "opening")' => Explained(k, FALSE)'
  BY <1>1, <1>3, ServersThere DEF SettingsInv, At
<1> QED BY <1>1, <1>2, <1>4, <1>5 DEF SettingsInv

(* A connection that ends although nothing changed                         *)
LEMMA CutQuiet ==
  ASSUME IInv, AttachInv, NEW s \in Servers, Disconnect(s) \/ UseElsewhere(s)
  PROVE  Quiet(session', sock', map') /\ \A j \in Sockets : At(j, "opening")' => At(j, "opening")
<1>1. CASE Disconnect(s)
  <2>1. Objects({}) = {} /\ map' = Unmapped({}) /\ {} \in SUBSET Names
    BY <1>1, UnmappedNone DEF IInv, Disconnect
  <2>2. CloseConnection(s, Objects({}))
    BY <1>1, <2>1 DEF Disconnect
  <2> QED BY <2>1, <2>2, CloseConnectionQuiet DEF At
<1>2. CASE UseElsewhere(s)
  <2>1. \/ session' = session /\ sock' = sock /\ map' = map
        \/ session' = CutShells(s) /\ sock' = CutSockets(s) /\ map' = map
    BY <1>2 DEF UseElsewhere
  <2>2. Quiet(CutShells(s), CutSockets(s), map)
    BY CutShellsQuiet, CutSocketsQuiet, SessionThere DEF Quiet, QuietSockets
  <2>3. \A j \in Sockets : CutSockets(s)[j].phase = "opening" => sock[j].phase = "opening"
    BY CutSocketsQuiet
  <2> QED BY <2>1, <2>2, <2>3, QuietNothing DEF At
<1> QED BY <1>1, <1>2

LEMMA FullInit == Init => IInv /\ AttachInv /\ SettingsInv
<1> SUFFICES ASSUME Init PROVE AttachInv /\ SettingsInv
  BY InvInit
<1>1. /\ \A n \in Names : map[n] = None
      /\ \A k \in Sockets : sock[k].phase = "idle" /\ sock[k].sess = None /\ session[k] = None
      /\ \A s \in Servers : change[s] = "none"
  BY DEF Init
<1> QED BY <1>1 DEF AttachInv, SettingsInv, LoneSocketServed, NoShellLost, Live, At, Settled

LEMMA FullStep ==
  IInv /\ AttachInv /\ SettingsInv /\ [Next]_vars => AttachInv' /\ SettingsInv'
<1> SUFFICES ASSUME IInv, AttachInv, SettingsInv, [Next]_vars
             PROVE  AttachInv' /\ SettingsInv'
  OBVIOUS
<1>1. ASSUME Quiet(session', sock', map'), current' = current, change' = change,
             \A j \in Sockets : At(j, "opening")' => At(j, "opening")
      PROVE  AttachInv' /\ SettingsInv'
  BY <1>1, QuietAttach, QuietSettings
<1>2. ASSUME session' = session, sock' = sock, map' = map, current' = current, change' = change
      PROVE  AttachInv' /\ SettingsInv'
  BY <1>1, <1>2, QuietNothing DEF At
<1>3. ASSUME NEW t \in Tickets, IssueTicket(t) \/ TicketExpires(t)
      PROVE  AttachInv' /\ SettingsInv'
  BY <1>2, <1>3 DEF IssueTicket, TicketExpires, server
<1>4. ASSUME NEW k \in Sockets,
             \/ Connect(k) \/ Lookup(k) \/ OpenFails(k) \/ Message(k) \/ HangUp(k)
             \/ CloseEvent(k) \/ ErrorEvent(k) \/ ShellExits(k) \/ ShellCloses(k) \/ Expires(k)
      PROVE  AttachInv' /\ SettingsInv'
  <2>1. current' = current /\ change' = change
    BY <1>4 DEF Connect, Lookup, OpenFails, Message, HangUp, CloseEvent, ErrorEvent,
                ShellExits, ShellCloses, Expires, server
  <2> QED BY <1>1, <1>4, <2>1, ConnectQuiet, LookupQuiet, SocketStepQuiet, ShellStepQuiet
<1>5. ASSUME NEW k \in Sockets, Rejoin(k) \/ Open(k) \/ Opened(k)
      PROVE  AttachInv' /\ SettingsInv'
  BY <1>5, RejoinKeeps, OpenKeeps, OpenedKeeps
<1>6. ASSUME NEW names \in SUBSET Names, Destroy(names), UNCHANGED server
      PROVE  AttachInv' /\ SettingsInv'
  <2>1. /\ current' = current /\ change' = change
        /\ session' = Closed(Objects(names)) /\ sock' = Released(Objects(names))
        /\ map' = Unmapped(names)
    BY <1>6 DEF Destroy, server
  <2>2. Quiet(session', sock', map')
    BY <2>1, DestroyQuiet
  <2>3. \A j \in Sockets : At(j, "opening")' => At(j, "opening")
    BY <2>1, ObjectsAreSessions, ReleasedQuiet DEF At
  <2> QED BY <1>1, <2>1, <2>2, <2>3
<1>7. CASE ListSessions
  BY <1>6, <1>7 DEF ListSessions, Expired
<1>8. ASSUME NEW n \in Names, DeleteSession(n)
      PROVE  AttachInv' /\ SettingsInv'
  BY <1>6, <1>8 DEF DeleteSession
<1>9. ASSUME NEW s \in Servers,
             \/ UpdateRow(s) \/ UpdateCloses(s) \/ DeleteCloses(s)
             \/ DeleteRow(s) \/ Disconnect(s) \/ UseElsewhere(s)
      PROVE  AttachInv' /\ SettingsInv'
  <2>1. Disconnect(s) \/ UseElsewhere(s) => current' = current /\ change' = change
    BY DEF Disconnect, UseElsewhere
  <2> QED BY <1>1, <1>9, <2>1, UpdateRowKeeps, UpdateClosesKeeps, DeleteClosesKeeps,
             DeleteRowKeeps, CutQuiet
<1>10. CASE UNCHANGED vars
  BY <1>2, <1>10 DEF vars
<1> QED BY <1>3, <1>4, <1>5, <1>7, <1>8, <1>9, <1>10 DEF Next

(* The full invariant holds in every state of every behaviour.             *)
THEOREM FullInvariant == Spec => [](IInv /\ AttachInv /\ SettingsInv)
<1>1. IInv /\ AttachInv /\ SettingsInv /\ [Next]_vars => (IInv /\ AttachInv /\ SettingsInv)'
  BY InvStep, FullStep
<1> QED BY FullInit, <1>1, PTL DEF Spec

(* A connected socket that is alone in its session is served by it.        *)
THEOREM LoneSocketsServed == Spec => []LoneSocketServed
<1>1. AttachInv => LoneSocketServed
  BY DEF AttachInv
<1> QED BY <1>1, FullInvariant, PTL

(* No session of the map counts as attached to a socket whose handler has  *)
(* seen it close, so that a prune will take it when it expires.            *)
THEOREM AttachedToLive == Spec => []NoneAttachedToGone
<1>1. IInv /\ AttachInv => NoneAttachedToGone
  BY DEF IInv, SessionInv, Session, AttachInv, WellAttached, NoneAttachedToGone
<1> QED BY <1>1, FullInvariant, PTL

(* A shell that runs is found through the map, unless another session has  *)
(* been opened under the same id.                                          *)
THEOREM ShellsAreFound == Spec => []NoShellLost
<1>1. AttachInv => NoShellLost
  BY DEF AttachInv
<1> QED BY <1>1, FullInvariant, PTL

(* A session of the map runs with the current settings of its server, or a *)
(* change of them is under way, or its handler had read the row before a   *)
(* change and went on with it afterwards or within a deletion.             *)
THEOREM OutdatedSessionsExplained == Spec => []OutdatedExplained
<1>1. SettingsInv => OutdatedExplained
  BY DEF SettingsInv, UpToDate, Explained, OutdatedExplained
<1> QED BY <1>1, FullInvariant, PTL
=============================================================================
