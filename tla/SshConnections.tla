--------------------------- MODULE SshConnections ---------------------------
(***************************************************************************)
(* The pool of SSH connections of one server (ssh-services/connection.ts)  *)
(* and the requests that use it.  The three maps of the module are keyed   *)
(* by the server's id and never read across keys, so one server is enough. *)
(*                                                                         *)
(* JavaScript runs a handler up to its next await without interruption:    *)
(* getConnection and closeConnection are one step each.  What an attempt   *)
(* does when its handshake ends, the `finally` that forgets it included,   *)
(* is one step too: the turns in between run in the same turn of the event *)
(* loop, and a request that joins the attempt there gets the answer of one *)
(* that joined just before.                                                *)
(***************************************************************************)
EXTENDS Naturals

CONSTANTS
  Clients,        \* requests of the server's routes, jobs and samplers
  NoAccount,      \* no fingerprint
  Accounts,       \* fingerprints: address, user and credentials of a row
  MaxConns,       \* bound: connection objects that exist at a time
  MaxRequests     \* bound: requests started, by all clients together

ASSUME ConstantsAssumption ==
  MaxConns \in Nat /\ MaxRequests \in Nat /\ Accounts # {}

NoConn == 0
Conns == 1..MaxConns

VARIABLES
  row,        \* the account in the server's row of the database
  pool,       \* pool.get(id)
  pending,    \* connectionPromises.get(id)
  gen,        \* connectionGenerations.get(id)
  conns,      \* the connection objects: [state, account, gen]
  client,     \* where each client's request is: [pc, account, conn, retried]
  started     \* requests started so far
vars == <<row, pool, pending, gen, conns, client, started>>

ConnRec == [state : {"closed", "connecting", "open"}, account : Accounts \cup {NoAccount}, gen : Nat]
ClientRec == [pc : {"idle", "read", "waiting", "using", "broken", "closing"},
              account : Accounts \cup {NoAccount}, conn : Conns \cup {NoConn}, retried : BOOLEAN]

TypeOK ==
  /\ row \in Accounts
  /\ pool \in Conns \cup {NoConn}
  /\ pending \in Conns \cup {NoConn}
  /\ gen \in Nat
  /\ conns \in [Conns -> ConnRec]
  /\ client \in [Clients -> ClientRec]
  /\ started \in Nat

\* Objects nothing refers to any more can stand for new ones; any one will do.
Unused(c) == /\ conns[c].state = "closed" /\ c \notin {pool, pending}
             /\ \A r \in Clients : client[r].conn # c
Free == {c \in Conns : Unused(c) /\ \A d \in Conns : Unused(d) => c <= d}

Idle == [pc |-> "idle", account |-> NoAccount, conn |-> NoConn, retried |-> FALSE]

Init ==
  /\ row \in Accounts
  /\ pool = NoConn /\ pending = NoConn /\ gen = 0
  /\ conns = [c \in Conns |-> [state |-> "closed", account |-> NoAccount, gen |-> 0]]
  /\ client = [r \in Clients |-> Idle]
  /\ started = 0

-----------------------------------------------------------------------------
\* What the steps are made of.

\* Mutant of SameAccount: the pool compares server ids only.
AnyAccount(c, r) == TRUE

\* The object was made from the very account the request holds.
SameAccount(c, r) == conns[c].account = client[r].account

\* closeConnection counts the generation up.
NextGen(g) == g + 1

\* Mutant of Disposed: closeConnection drops the entry without disposing of the connection.
Undisposed(cs) == cs

\* closeConnection disposes of the pooled connection, not of an attempt.
Disposed(cs) == [c \in Conns |-> IF c = pool THEN [cs[c] EXCEPT !.state = "closed"]
                                            ELSE cs[c]]

CloseConnection ==
  /\ pool' = NoConn
  /\ pending' = NoConn
  /\ gen' = NextGen(gen)
  /\ conns' = Disposed(conns)

\* A fresh attempt of client r, in generation g, after whatever was closed.
Attempt(r, cs, g, again) ==
  \E c \in Free :
    /\ conns' = [cs EXCEPT ![c] = [state |-> "connecting",
                                   account |-> client[r].account, gen |-> g]]
    /\ pool' = NoConn
    /\ pending' = c
    /\ gen' = g
    /\ client' = [client EXCEPT ![r].pc = "waiting", ![r].conn = c, ![r].retried = again]

\* The client of an attempt that succeeded, failed, or came too late.
Told(r, pc) ==
  CASE pc = "using"  -> [client[r] EXCEPT !.pc = "using"]
    [] pc = "broken" -> [client[r] EXCEPT !.pc = "broken", !.conn = NoConn]
    [] pc = "idle"   -> Idle

\* An attempt is over: it is no longer pending, and all that awaited it go on.
Answer(c, pc) ==
  /\ pending' = IF pending = c THEN NoConn ELSE pending
  /\ client' = [r \in Clients |->
       IF client[r].pc = "waiting" /\ client[r].conn = c THEN Told(r, pc)
                                                        ELSE client[r]]

\* A close happened after the attempt began.
Superseded(c) == conns[c].gen # gen

Leave(r) == client' = [client EXCEPT ![r] = Idle]

-----------------------------------------------------------------------------
\* getConnection.

\* A request reads the server's row; it may call getConnection much later.
Read(r) ==
  /\ client[r].pc = "idle" /\ started < MaxRequests
  /\ started' = started + 1
  /\ client' = [client EXCEPT ![r].pc = "read", ![r].account = row]
  /\ UNCHANGED <<row, pool, pending, gen, conns>>

Usable(r) == pool # NoConn /\ SameAccount(pool, r) /\ conns[pool].state = "open"

GetPooled(r) ==
  /\ client[r].pc = "read" /\ Usable(r)
  /\ client' = [client EXCEPT ![r].pc = "using", ![r].conn = pool]
  /\ UNCHANGED <<row, pool, pending, gen, conns, started>>

Joinable(r) == pool = NoConn /\ pending # NoConn /\ SameAccount(pending, r)

GetPending(r) ==
  /\ client[r].pc = "read" /\ Joinable(r)
  /\ client' = [client EXCEPT ![r].pc = "waiting", ![r].conn = pending]
  /\ UNCHANGED <<row, pool, pending, gen, conns, started>>

\* Nothing fits: what is pooled or pending is closed, once, and an attempt made.
GetNew(r) ==
  /\ client[r].pc = "read" /\ ~Usable(r) /\ ~Joinable(r)
  /\ IF pool # NoConn \/ pending # NoConn
       THEN Attempt(r, Disposed(conns), NextGen(gen), FALSE)
       ELSE Attempt(r, conns, gen, FALSE)
  /\ UNCHANGED <<row, started>>

-----------------------------------------------------------------------------
\* How attempts and connections end.

\* The handshake is done, and nothing was closed meanwhile.  The connection may
\* have died before its events were listened to: then it is pooled all the same.
Connected(c, alive) ==
  /\ conns[c].state = "connecting" /\ ~Superseded(c)
  /\ conns' = [conns EXCEPT ![c].state = IF alive THEN "open" ELSE "closed"]
  /\ pool' = c
  /\ Answer(c, "using")
  /\ UNCHANGED <<row, gen, started>>

\* Mutant of Outdated: the end of an outdated attempt is not told to those that await it.
OutdatedSilently(c) ==
  /\ conns[c].state = "connecting" /\ Superseded(c)
  /\ conns' = [conns EXCEPT ![c].state = "closed"]
  /\ UNCHANGED <<row, pool, pending, gen, client, started>>

\* Mutant of Outdated: the end of an outdated attempt is told as a success.
OutdatedHanded(c) ==
  /\ conns[c].state = "connecting" /\ Superseded(c)
  /\ conns' = [conns EXCEPT ![c].state = "closed"]
  /\ Answer(c, "using")
  /\ UNCHANGED <<row, pool, gen, started>>

\* The handshake is done after a close: everyone is told to try again.
Outdated(c) ==
  /\ conns[c].state = "connecting" /\ Superseded(c)
  /\ conns' = [conns EXCEPT ![c].state = "closed"]
  /\ Answer(c, "idle")
  /\ UNCHANGED <<row, pool, gen, started>>

\* The handshake fails or its readyTimeout (10 s) ends it.
ConnectFails(c) ==
  /\ conns[c].state = "connecting"
  /\ conns' = [conns EXCEPT ![c].state = "closed"]
  /\ Answer(c, "broken")
  /\ UNCHANGED <<row, pool, gen, started>>

\* The server, the network or the keepalive ends a connection.
Drop(c) ==
  /\ conns[c].state = "open"
  /\ conns' = [conns EXCEPT ![c].state = "closed"]
  /\ pool' = IF pool = c THEN NoConn ELSE pool
  /\ UNCHANGED <<row, pending, gen, client, started>>

-----------------------------------------------------------------------------
\* What requests do with a connection (exec of commands.ts) and to the pool.

Finish(r) ==
  /\ client[r].pc = "using" /\ conns[client[r].conn].state = "open"
  /\ Leave(r)
  /\ UNCHANGED <<row, pool, pending, gen, conns, started>>

\* The command fails with its connection, or its channel could not be opened.
CommandFails(r) ==
  /\ client[r].pc = "using"
  /\ client' = [client EXCEPT ![r].pc = "broken", ![r].conn = NoConn]
  /\ UNCHANGED <<row, pool, pending, gen, conns, started>>

GiveUp(r) ==
  /\ client[r].pc = "broken"
  /\ Leave(r)
  /\ UNCHANGED <<row, pool, pending, gen, conns, started>>

\* A recoverable error: exec closes what is pooled now and connects once more,
\* with the row it was called with.
Retry(r) ==
  /\ client[r].pc = "broken" /\ ~client[r].retried
  /\ Attempt(r, Disposed(conns), NextGen(gen), TRUE)
  /\ UNCHANGED <<row, started>>

\* The command's own timeout closes the connection the pool holds then.
TimeOut(r) ==
  /\ client[r].pc = "using"
  /\ CloseConnection
  /\ Leave(r)
  /\ UNCHANGED <<row, started>>

\* PUT /servers/:id writes the new account and then closes the connection.
UpdateRow(r) ==
  /\ client[r].pc = "idle" /\ started < MaxRequests
  /\ started' = started + 1
  /\ row' \in Accounts
  /\ client' = [client EXCEPT ![r].pc = "closing"]
  /\ UNCHANGED <<pool, pending, gen, conns>>

UpdateClose(r) ==
  /\ client[r].pc = "closing"
  /\ CloseConnection
  /\ Leave(r)
  /\ UNCHANGED <<row, started>>

\* The bound is reached and every request is answered.
Quiet ==
  /\ started = MaxRequests /\ \A r \in Clients : client[r].pc = "idle"
  /\ UNCHANGED vars

Next ==
  \/ \E r \in Clients :
       \/ Read(r) \/ GetPooled(r) \/ GetPending(r) \/ GetNew(r)
       \/ Finish(r) \/ CommandFails(r) \/ GiveUp(r) \/ Retry(r) \/ TimeOut(r)
       \/ UpdateRow(r) \/ UpdateClose(r)
  \/ \E c \in Conns :
       \/ \E alive \in BOOLEAN : Connected(c, alive)
       \/ Outdated(c) \/ ConnectFails(c) \/ Drop(c)
  \/ Quiet

Spec == Init /\ [][Next]_vars

-----------------------------------------------------------------------------
\* Properties.

\* A command runs on the account of the row it was called with: neither the pool
\* nor an attempt it joined hands it a connection of another account, however
\* updates, timeouts and retries of others interleave (connection.ts:15-17).
OwnAccount ==
  \A r \in Clients :
    client[r].pc = "using" => conns[client[r].conn].account = client[r].account

\* Every open connection is the pooled one: no interleaving of closes and of
\* attempts that end late leaves a connection open that nothing can close.
NothingLeaks == \A c \in Conns : conns[c].state = "open" => pool = c

\* Requests share attempts: besides attempts that a close has already outdated
\* there is at most one, and then nothing is pooled.
OneAttempt ==
  \A c, d \in Conns :
    conns[c].state = "connecting" /\ ~Superseded(c) =>
      /\ pool = NoConn
      /\ conns[d].state = "connecting" /\ ~Superseded(d) => c = d

\* Whoever awaits an attempt awaits one that is still to end.
WaitersServed ==
  \A r \in Clients :
    client[r].pc = "waiting" => /\ client[r].conn # NoConn
                                /\ conns[client[r].conn].state = "connecting"

\* After closeConnection nobody is handed a connection begun before it: the
\* credentials of a row that was updated are not taken up by an attempt that was
\* on its way when the update closed the pool.
HandsCurrent(r) ==
  client[r].pc # "using" /\ client'[r].pc = "using"
    => conns'[client'[r].conn].gen = gen'
HandedCurrent == [][\A r \in Clients : HandsCurrent(r)]_vars

\* What the pool holds is of this generation, and no attempt runs beside it.
PoolCurrent ==
  pool # NoConn => /\ conns[pool].gen = gen
                   /\ conns[pool].state # "connecting"
                   /\ pending = NoConn

\* The pending attempt is not outdated, and every other attempt is.
PendingCurrent ==
  /\ pending # NoConn => conns[pending].state = "connecting" /\ ~Superseded(pending)
  /\ \A c \in Conns :
       /\ conns[c].gen <= gen
       /\ conns[c].state = "connecting" /\ ~Superseded(c) => pending = c

\* What a client holds was made for its account.
ClientsBound ==
  \A r \in Clients :
    /\ client[r].pc \in {"waiting", "using"} =>
         /\ client[r].conn # NoConn
         /\ conns[client[r].conn].account = client[r].account
    /\ client[r].pc = "using" => conns[client[r].conn].state # "connecting"

\* The inductive invariant: an attempt that nothing has outdated is the pending
\* one and excludes a pooled connection, so that its success leaks nothing.
IInv == /\ TypeOK /\ NothingLeaks /\ WaitersServed
        /\ PoolCurrent /\ PendingCurrent /\ ClientsBound

=============================================================================
