--------------------------- MODULE TerminalSessions ---------------------------
(***************************************************************************)
(* The interactive terminals of the panel (routes/terminal.ts), the        *)
(* tickets their sockets present (services/terminal-ticket.service.ts) and *)
(* the changes of a server that end them (routes/servers.ts).              *)
(*                                                                         *)
(* A socket handler awaits twice, for the row of the server and for its    *)
(* shell; everything between two awaits is one step.  The object of a      *)
(* session is named by the socket that opened its shell, and so is the id  *)
(* that randomUUID gives to a client that sent none.  A client may leave   *)
(* at any time; the close event follows later, and finds a handler only if *)
(* the socket had one by then.                                             *)
(***************************************************************************)
EXTENDS Naturals

CONSTANTS
  Users, Servers,
  Ids,         \* session ids that clients choose, kept across reconnects
  Sockets,     \* WebSocket connections
  Tickets,
  None,
  MaxChanges   \* bound on the updates of a server

Names == Ids \cup Sockets
Version == 0..MaxChanges
Session == [user : Users, server : Servers, id : Names, command : BOOLEAN,
            account : Version, shell : {"open", "ending", "closed"},
            attached : Sockets \cup {None}, expired : BOOLEAN]

ASSUME ConstantsAssumption ==
  /\ MaxChanges \in Nat
  /\ None \notin Users \cup Servers \cup Ids \cup Sockets \cup Tickets \cup Session \cup Version
  /\ Ids \cap Sockets = {}

VARIABLES
  current,   \* current[s]: version of the SSH settings in the row, None: no row
  change,    \* change[s]: the PUT or DELETE of s that is between its two halves
  pool,      \* pool[s]: settings of the connection, or of the pending attempt
  issued,    \* issued[t]: what ticket t was issued for
  valid,     \* tickets in the map of tickets
  sock,      \* the sockets and their handlers
  session,   \* session[k]: the object of the session that socket k opened
  map        \* terminalSessions: the session object of an id
vars == <<current, change, pool, issued, valid, sock, session, map>>
server == <<current, change, pool>>
tickets == <<issued, valid>>

Ticket == [user : Users, server : Servers, id : Ids \cup {None}, command : BOOLEAN]
Phases == {"idle", "lookup", "found", "opening", "failing", "live", "done"}

\* told: the close event has fired; row: what getAccessibleServer returned,
\* known: what was in the row when the handler went on with it, and between:
\* whether a deletion of the server was between its two halves then.
Socket == [phase : Phases, open : BOOLEAN, told : BOOLEAN, ticket : Tickets \cup {None},
           server : Servers \cup {None}, id : Ids \cup {None},
           row : Version \cup {None}, known : Version \cup {None},
           between : BOOLEAN, sess : Sockets \cup {None}]

TypeOK ==
  /\ current \in [Servers -> Version \cup {None}]
  /\ change \in [Servers -> {"none", "update", "delete"}]
  /\ pool \in [Servers -> Version \cup {None}]
  /\ issued \in [Tickets -> Ticket \cup {None}] /\ valid \subseteq Tickets
  /\ sock \in [Sockets -> Socket]
  /\ session \in [Sockets -> Session \cup {None}]
  /\ map \in [Names -> Sockets \cup {None}]

Init ==
  /\ current = [s \in Servers |-> 0] /\ change = [s \in Servers |-> "none"]
  /\ pool = [s \in Servers |-> None]
  /\ issued = [t \in Tickets |-> None] /\ valid = {}
  /\ sock = [k \in Sockets |-> [phase |-> "idle", open |-> TRUE, told |-> FALSE,
       ticket |-> None, server |-> None, id |-> None, row |-> None, known |-> None,
       between |-> FALSE, sess |-> None]]
  /\ session = [k \in Sockets |-> None]
  /\ map = [n \in Names |-> None]

-----------------------------------------------------------------------------
At(k, phase) == sock[k].phase = phase
UserOf(k) == issued[sock[k].ticket].user

\* Mutant of Closed: the shells of destroyed sessions stay open.
ForgottenOnly(X) ==
  [x \in Sockets |-> IF x \in X THEN [session[x] EXCEPT !.attached = None]
                                ELSE session[x]]

\* destroySession for the session objects X of the map: their shells end, ...
Closed(X) ==
  [x \in Sockets |->
     IF x \in X THEN [session[x] EXCEPT !.shell = "closed", !.attached = None]
                ELSE session[x]]

Objects(names) == {map[n] : n \in names} \ {None}
Unmapped(names) == [n \in Names |-> IF n \in names THEN None ELSE map[n]]

\* Mutant of Released: the socket of a destroyed session is left open.
NotReleased(X) == sock

\* ... and the sockets attached to them are closed.
Released(X) ==
  [k \in Sockets |-> IF \E x \in X : session[x].attached = k
                     THEN [sock[k] EXCEPT !.open = FALSE] ELSE sock[k]]

Destroy(names) ==
  /\ session' = Closed(Objects(names)) /\ map' = Unmapped(names)
  /\ sock' = Released(Objects(names))

\* pruneExpiredSessions
Expired == {n \in Names : map[n] # None /\ LET x == session[map[n]] IN
                            x.attached = None /\ x.expired}

\* An SSH connection ends: its shells end, and those who wait for a shell on
\* it, or for the connection itself, will get an error.
CutShells(s) ==
  [x \in Sockets |-> IF session[x] # None /\ session[x].server = s /\ session[x].shell = "open"
                     THEN [session[x] EXCEPT !.shell = "ending"] ELSE session[x]]
CutSockets(s) ==
  [k \in Sockets |-> IF sock[k].server = s /\ At(k, "opening")
                     THEN [sock[k] EXCEPT !.phase = "failing"] ELSE sock[k]]

\* POST /terminal/ws-ticket, for a server that the user may access
IssueTicket(t) ==
  /\ issued[t] = None
  /\ \E request \in Ticket :
       /\ current[request.server] # None
       /\ issued' = [issued EXCEPT ![t] = request] /\ valid' = valid \cup {t}
  /\ UNCHANGED <<server, sock, session, map>>

TicketExpires(t) ==
  /\ valid' = valid \ {t} /\ t \in valid
  /\ UNCHANGED <<server, issued, sock, session, map>>

\* Mutant of Consumed: the ticket stays in the map.
LeftValid(t) == valid

\* consumeTerminalSocketTicket: the ticket leaves the map, whatever comes next, ...
Consumed(t) == valid \ {t}

\* ... and admits if it was issued for this server and this session.
Admits(t, s, i) == t \in valid /\ issued[t].server = s /\ issued[t].id = i

\* Socket q as it is after it has presented the ticket.
Presented(q, t, s, i) ==
  IF Admits(t, s, i)
  THEN [q EXCEPT !.phase = "lookup", !.open = TRUE, !.ticket = t, !.server = s, !.id = i]
  ELSE [q EXCEPT !.phase = "done", !.open = FALSE, !.ticket = None, !.server = s, !.id = i]

\* A socket opens with a ticket that was issued at some time, for a server (None:
\* one that does not exist) and a session of its own choice.
Connect(k) ==
  /\ At(k, "idle")
  /\ \E t \in Tickets, s \in Servers \cup {None}, i \in Ids \cup {None} :
       /\ issued[t] # None
       /\ valid' = Consumed(t)
       /\ sock' = [Released(Objects(Expired)) EXCEPT ![k] = Presented(@, t, s, i)]
  /\ session' = Closed(Objects(Expired)) /\ map' = Unmapped(Expired)
  /\ UNCHANGED <<server, issued>>

\* getAccessibleServer reads the row; it refuses when there is none, when the
\* user lost the access, and throws when the database does not answer.
Lookup(k) ==
  /\ At(k, "lookup")
  /\ \/ /\ current[sock[k].server] # None
        /\ sock' = [sock EXCEPT ![k].phase = "found", ![k].row = current[sock[k].server]]
     \/ sock' = [sock EXCEPT ![k].phase = "done", ![k].open = FALSE]
  /\ UNCHANGED <<server, tickets, session, map>>

\* Mutant of Known: the session of another user will do.
KnownToAnyone(k) == IF sock[k].id = None THEN None ELSE map[sock[k].id]

\* The session that the socket asks for, if it is a session of its user.
Known(k) ==
  IF sock[k].id = None \/ map[sock[k].id] = None THEN None
  ELSE IF session[map[sock[k].id]].user = UserOf(k) THEN map[sock[k].id] ELSE None

\* attachSocket, the former socket being detached, and the handlers of k
Attached(x, k) == [x EXCEPT !.attached = k, !.expired = FALSE]

Rejoin(k) ==
  /\ At(k, "found") /\ Known(k) # None
  /\ session' = [session EXCEPT ![Known(k)] = Attached(@, k)]
  /\ sock' = [sock EXCEPT ![k].phase = "live", ![k].sess = Known(k)]
  /\ UNCHANGED <<server, tickets, map>>

\* createTerminalSession calls getConnection, which closes a connection that
\* was opened with other settings.
Open(k) ==
  LET s == sock[k].server IN
  /\ At(k, "found") /\ Known(k) = None
  /\ pool' = [pool EXCEPT ![s] = sock[k].row]
  /\ sock' = [IF pool[s] \in {None, sock[k].row} THEN sock ELSE CutSockets(s) EXCEPT
                ![k].phase = "opening", ![k].known = current[s],
                ![k].between = change[s] = "delete"]
  /\ session' = IF pool[s] \in {None, sock[k].row} THEN session ELSE CutShells(s)
  /\ UNCHANGED <<current, change, tickets, map>>

\* Mutant of NameFor: a session keeps the id that was sent, be it none.
NameSent(k) == sock[k].id

NameFor(k) == IF sock[k].id = None THEN k ELSE sock[k].id

\* The shell is there: its session enters the map, over any other of its id.
Opened(k) ==
  LET ticket == issued[sock[k].ticket]
      name == NameFor(k)
  IN
  /\ At(k, "opening")
  /\ session' = [session EXCEPT ![k] =
       Attached([user |-> ticket.user, server |-> sock[k].server, id |-> name,
                 command |-> ticket.command, account |-> sock[k].row, shell |-> "open",
                 attached |-> None, expired |-> FALSE], k)]
  /\ map' = [map EXCEPT ![name] = k]
  /\ sock' = [sock EXCEPT ![k].phase = "live", ![k].sess = k]
  /\ UNCHANGED <<server, tickets>>

OpenFails(k) ==
  /\ sock[k].phase \in {"opening", "failing"}
  /\ sock' = [sock EXCEPT ![k].phase = "done", ![k].open = FALSE]
  /\ UNCHANGED <<server, tickets, session, map>>

\* Input or a resize, also of a socket that is no longer attached
Message(k) ==
  /\ At(k, "live") /\ sock[k].open
  /\ session' = [session EXCEPT ![sock[k].sess].expired = FALSE]
  /\ UNCHANGED <<server, tickets, sock, map>>

HangUp(k) ==
  /\ sock[k].phase # "idle" /\ sock[k].open
  /\ sock' = [sock EXCEPT ![k].open = FALSE]
  /\ UNCHANGED <<server, tickets, session, map>>

\* Mutant of Leave: the handler does not detach.
LeaveAttached(k) ==
  IF session[sock[k].sess].command
  THEN LET n == {session[sock[k].sess].id} IN
       session' = Closed(Objects(n)) /\ map' = Unmapped(n)
  ELSE UNCHANGED <<session, map>>

\* What the handlers of "close" and "error" do to the session of the socket,
\* whichever socket it is attached to by now: a command ends, by its id.
Leave(k) ==
  LET x == sock[k].sess
      n == {session[x].id}
  IN
  IF session[x].command
  THEN session' = Closed(Objects(n)) /\ map' = Unmapped(n)
  ELSE session' = [session EXCEPT ![x].attached = None, ![x].expired = FALSE]
       /\ map' = map

\* The sockets that Leave closes
Left(k) == IF session[sock[k].sess].command
           THEN Released(Objects({session[sock[k].sess].id})) ELSE sock

CloseEvent(k) ==
  /\ sock[k].phase # "idle" /\ ~sock[k].open /\ ~sock[k].told
  /\ IF At(k, "live")
     THEN /\ Leave(k)
          /\ sock' = [Left(k) EXCEPT ![k].told = TRUE, ![k].phase = "done"]
     ELSE /\ sock' = [sock EXCEPT ![k].told = TRUE]
          /\ UNCHANGED <<session, map>>
  /\ UNCHANGED <<server, tickets>>

\* ws closes a socket that failed, and its close event follows.
ErrorEvent(k) ==
  /\ At(k, "live") /\ sock[k].open
  /\ Leave(k) /\ sock' = [Left(k) EXCEPT ![k].open = FALSE]
  /\ UNCHANGED <<server, tickets>>

\* The program in the shell ends.
ShellExits(x) ==
  /\ session[x] # None /\ session[x].shell = "open"
  /\ session' = [session EXCEPT ![x].shell = "ending"]
  /\ UNCHANGED <<server, tickets, sock, map>>

\* The close event of a shell: onClose, if a socket is attached, closes that
\* socket and destroys the session that now has the id.
ShellCloses(x) ==
  LET k == session[x].attached
      n == {session[x].id}
      after == IF k = None THEN session ELSE Closed(Objects(n))
  IN
  /\ session[x] # None /\ session[x].shell = "ending"
  /\ session' = [after EXCEPT ![x].shell = "closed"]
  /\ IF k = None THEN UNCHANGED <<sock, map>>
     ELSE /\ sock' = [Released(Objects(n)) EXCEPT ![k].open = FALSE]
          /\ map' = Unmapped(n)
  /\ UNCHANGED <<server, tickets>>

\* SESSION_TTL_MS passes without activity; only a session that no socket is
\* attached to is ever asked.
Expires(x) ==
  /\ session[x] # None /\ session[x].attached = None /\ ~session[x].expired
  /\ session' = [session EXCEPT ![x].expired = TRUE]
  /\ UNCHANGED <<server, tickets, sock, map>>

\* GET /terminal/sessions
ListSessions == Expired # {} /\ Destroy(Expired) /\ UNCHANGED <<server, tickets>>

\* DELETE /terminal/sessions/:id, by the user of the session
DeleteSession(n) ==
  /\ map[n] # None /\ Destroy({n})
  /\ UNCHANGED <<server, tickets>>

-----------------------------------------------------------------------------
\* ssh.closeConnection, after the sessions X were destroyed
CloseConnection(s, X) ==
  /\ pool' = [pool EXCEPT ![s] = None]
  /\ session' = [x \in Sockets |-> IF x \in X THEN Closed(X)[x] ELSE CutShells(s)[x]]
  /\ sock' = [k \in Sockets |-> IF \E x \in X : session[x].attached = k
                                THEN Released(X)[k] ELSE CutSockets(s)[k]]

\* PUT /servers/:id with other SSH settings: first the row, ...
UpdateRow(s) ==
  /\ change[s] = "none" /\ current[s] # None /\ current[s] < MaxChanges
  /\ current' = [current EXCEPT ![s] = @ + 1]
  /\ change' = [change EXCEPT ![s] = "update"]
  /\ UNCHANGED <<pool, tickets, sock, session, map>>

\* Mutant of OnServer: the sessions of the server are not looked for.
NoneOnServer(s) == {}

\* closeTerminalSessionsForServer
OnServer(s) == {n \in Names : map[n] # None /\ session[map[n]].server = s}

\* ... then the sessions and the connection.
UpdateCloses(s) ==
  /\ change[s] = "update"
  /\ change' = [change EXCEPT ![s] = "none"]
  /\ map' = Unmapped(OnServer(s)) /\ CloseConnection(s, Objects(OnServer(s)))
  /\ UNCHANGED <<current, tickets>>

\* DELETE /servers/:id: first the connection, then the row.
DeleteCloses(s) ==
  /\ change[s] = "none" /\ current[s] # None
  /\ change' = [change EXCEPT ![s] = "delete"]
  /\ CloseConnection(s, {})
  /\ UNCHANGED <<current, tickets, map>>

\* The transaction may fail.
DeleteRow(s) ==
  /\ change[s] = "delete"
  /\ current' \in {current, [current EXCEPT ![s] = None]}
  /\ change' = [change EXCEPT ![s] = "none"]
  /\ UNCHANGED <<pool, tickets, sock, session, map>>

\* The connection breaks.
Disconnect(s) ==
  /\ pool[s] # None /\ CloseConnection(s, {})
  /\ UNCHANGED <<current, change, tickets, map>>

\* Another request of the panel gets a connection with the current settings.
UseElsewhere(s) ==
  /\ current[s] \notin {None, pool[s]}
  /\ pool' = [pool EXCEPT ![s] = current[s]]
  /\ IF pool[s] = None THEN UNCHANGED <<sock, session>>
     ELSE sock' = CutSockets(s) /\ session' = CutShells(s)
  /\ UNCHANGED <<current, change, tickets, map>>

Next ==
  \/ \E t \in Tickets : IssueTicket(t) \/ TicketExpires(t)
  \/ \E k \in Sockets : \/ Connect(k) \/ Lookup(k) \/ Rejoin(k) \/ Open(k) \/ Opened(k)
                        \/ OpenFails(k) \/ Message(k) \/ HangUp(k) \/ CloseEvent(k)
                        \/ ErrorEvent(k) \/ ShellExits(k) \/ ShellCloses(k) \/ Expires(k)
  \/ ListSessions
  \/ \E n \in Names : DeleteSession(n)
  \/ \E s \in Servers : \/ UpdateRow(s) \/ UpdateCloses(s) \/ DeleteCloses(s)
                        \/ DeleteRow(s) \/ Disconnect(s) \/ UseElsewhere(s)

Spec == Init /\ [][Next]_vars

-----------------------------------------------------------------------------
Live(k) == At(k, "live")

\* A socket reads and writes only a shell of the user whom its ticket names,
\* and no two sockets came in with one ticket, nor with a ticket for another
\* server or another session.  (The ids are the clients' choice: two users may
\* send the same one, one after the other or at once.)
OwnShell ==
  \A k \in Sockets :
    /\ Live(k) => session[sock[k].sess].user = UserOf(k)
    /\ sock[k].ticket # None =>
         /\ issued[sock[k].ticket].server = sock[k].server
         /\ issued[sock[k].ticket].id = sock[k].id
         /\ \A j \in Sockets \ {k} : sock[j].ticket # sock[k].ticket

\* An open terminal is never silent for no reason: a connected socket that is
\* the only one that ever joined its session is attached to it, or the server
\* has hung up on it when the session ended.
LoneSocketServed ==
  \A k \in Sockets : Live(k) /\ sock[k].open =>
    \/ session[sock[k].sess].attached = k
    \/ \E j \in Sockets \ {k} : sock[j].sess = sock[k].sess

\* A session that no prune will ever take, because it counts as attached to a
\* client that is gone, comes only from a client that left while the shell was
\* being opened: the close handler of a socket never leaves one behind.
NoneAttachedToGone ==
  \A n \in Names : map[n] # None =>
    LET k == session[map[n]].attached IN k # None => Live(k)

\* A shell that runs on with no session that leads to it, so that no route can
\* end it, comes only from a second shell of the same id.
NoShellLost ==
  \A x \in Sockets : session[x] # None /\ session[x].shell = "open" =>
    \/ map[session[x].id] = x
    \/ \E y \in Sockets \ {x} : session[y] # None /\ session[y].id = session[x].id

\* Once an update of the SSH settings is through, no session is left that uses
\* the former ones, and once a server is deleted, no shell runs on it; except
\* those of a handler that had read the row before the change and went on with
\* it afterwards, or between the two halves of the deletion.
OutdatedExplained ==
  \A n \in Names : map[n] # None =>
    LET x == map[n]
        s == session[x].server
    IN \/ sock[x].row # sock[x].known
       \/ /\ current[s] # None
          /\ session[x].account = current[s] \/ change[s] = "update"
       \/ /\ current[s] = None
          /\ session[x].shell # "open" \/ sock[x].between
=============================================================================
