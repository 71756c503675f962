---------------------------- MODULE SshCommands ----------------------------
(***************************************************************************)
(* Commands on one server (ssh-services/commands.ts).  Callers of exec     *)
(* wait in commandQueues, callers of streamCommand (every command of a     *)
(* process job) in streamCommandQueues; both kinds share the connection    *)
(* that SshConnections models, so that whoever closes it ends the commands *)
(* of the others.  The queues are chains of promises: a command begins     *)
(* when the promise that was the queue's tail at its call has settled.     *)
(*                                                                         *)
(* How the server answers is external: a process starts after its request  *)
(* arrived, may outlive the connection, and its stream's "end" and "close" *)
(* events come in either order.                                            *)
(***************************************************************************)
EXTENDS Naturals

CONSTANTS
  Execs,      \* calls of exec and execStrict outside a process job
  Streams,    \* calls of streamCommand, execStrict inside a job among them
  Bounded,    \* calls with a timeout (and, of exec, a queue timeout)
  Tracked,    \* streamed calls with a run id and an abort signal
  None

Calls == Execs \cup Streams
ASSUME ConstantsAssumption ==
  /\ Bounded \subseteq Calls /\ Tracked \subseteq Streams
  /\ Execs \cap Streams = {} /\ None \notin Calls

VARIABLES
  place,     \* where each call is
  prev,      \* the call whose promise it waits for
  tail,      \* queue.get(server.id), per queue
  answer,    \* what its caller was told
  lost,      \* its connection, or the attempt it awaits, was closed
  retried,   \* exec has connected a second time
  aborted,   \* its signal has been aborted
  killing,   \* its process is to be killed over a connection of its own
  runs,      \* how often it was sent to the server
  remote     \* its process on the server (the last one, if two)
vars == <<place, prev, tail, answer, lost, retried, aborted, killing, runs, remote>>

Places == {"new", "queued", "connecting", "sent", "running", "settled"}
Answers == {"none", "ok", "failed", "error", "timeout", "queueTimeout", "cancelled"}
Remotes == {"none", "asked", "running", "exit0", "exit1"}
Queues == {"exec", "stream"}
QueueOf(k) == IF k \in Execs THEN "exec" ELSE "stream"

TypeOK ==
  /\ place \in [Calls -> Places] /\ answer \in [Calls -> Answers]
  /\ prev \in [Calls -> Calls \cup {None}] /\ tail \in [Queues -> Calls \cup {None}]
  /\ lost \in [Calls -> BOOLEAN] /\ retried \in [Calls -> BOOLEAN]
  /\ aborted \in [Calls -> BOOLEAN] /\ killing \in [Calls -> BOOLEAN]
  /\ runs \in [Calls -> Nat] /\ remote \in [Calls -> Remotes]

Init ==
  /\ place = [k \in Calls |-> "new"] /\ answer = [k \in Calls |-> "none"]
  /\ prev = [k \in Calls |-> None] /\ tail = [q \in Queues |-> None]
  /\ lost = [k \in Calls |-> FALSE] /\ retried = [k \in Calls |-> FALSE]
  /\ aborted = [k \in Calls |-> FALSE] /\ killing = [k \in Calls |-> FALSE]
  /\ runs = [k \in Calls |-> 0] /\ remote = [k \in Calls |-> "none"]

-----------------------------------------------------------------------------
\* What the steps are made of.

OnConnection == {"connecting", "sent", "running"}

\* closeConnection: every command on the shared connection, of either queue,
\* and every attempt to connect is lost.  `me` is not, when it connects anew.
Closed(me) == [k \in Calls |-> k # me /\ (lost[k] \/ place[k] \in OnConnection)]

\* The task of a call is over and its caller told, if it was not told already;
\* the queue forgets the promise if it is its last.
Settle(k, a) ==
  /\ place' = [place EXCEPT ![k] = "settled"]
  /\ answer' = [answer EXCEPT ![k] = IF @ = "none" THEN a ELSE @]
  /\ tail' = [tail EXCEPT ![QueueOf(k)] = IF @ = k THEN None ELSE @]

\* A recoverable error of exec: close, connect, and run the command again, once.
MayRetry(k) == k \in Execs /\ ~retried[k]
Retry(k) ==
  /\ place' = [place EXCEPT ![k] = "connecting"]
  /\ retried' = [retried EXCEPT ![k] = TRUE]
  /\ lost' = Closed(k)
  /\ UNCHANGED <<tail, answer>>

\* Mutant of Recoverable: the second attempt is caught like the first.
RecoverableAlways(k) ==
  IF k \in Execs THEN Retry(k) ELSE Settle(k, "error") /\ UNCHANGED <<lost, retried>>

Recoverable(k) ==
  IF MayRetry(k) THEN Retry(k) ELSE Settle(k, "error") /\ UNCHANGED <<lost, retried>>

-----------------------------------------------------------------------------
\* The queues.

Call(k) ==
  /\ place[k] = "new"
  /\ place' = [place EXCEPT ![k] = "queued"]
  /\ prev' = [prev EXCEPT ![k] = tail[QueueOf(k)]]
  /\ tail' = [tail EXCEPT ![QueueOf(k)] = k]
  /\ UNCHANGED <<answer, lost, retried, aborted, killing, runs, remote>>

\* The queue timeout of a call that has not begun.
QueueTimeout(k) ==
  /\ k \in Execs \cap Bounded /\ place[k] = "queued" /\ answer[k] = "none"
  /\ answer' = [answer EXCEPT ![k] = "queueTimeout"]
  /\ UNCHANGED <<place, prev, tail, lost, retried, aborted, killing, runs, remote>>

Cancelled(k) == answer[k] = "queueTimeout"
Reached(k) == place[k] = "queued" /\ (prev[k] # None => place[prev[k]] = "settled")

Skip(k) ==
  /\ Reached(k) /\ Cancelled(k)
  /\ Settle(k, "error")
  /\ UNCHANGED <<prev, lost, retried, aborted, killing, runs, remote>>

\* Mutant of Begin: the task does not look whether its caller has left.
BeginCancelled(k) ==
  /\ Reached(k)
  /\ place' = [place EXCEPT ![k] = "connecting"]
  /\ UNCHANGED <<prev, tail, answer, lost, retried, aborted, killing, runs, remote>>

\* Mutant of Begin: the task does not wait for the one before it.
BeginAtOnce(k) ==
  /\ place[k] = "queued" /\ ~Cancelled(k)
  /\ place' = [place EXCEPT ![k] = "connecting"]
  /\ UNCHANGED <<prev, tail, answer, lost, retried, aborted, killing, runs, remote>>

Begin(k) ==
  /\ Reached(k) /\ ~Cancelled(k)
  /\ place' = [place EXCEPT ![k] = "connecting"]
  /\ UNCHANGED <<prev, tail, answer, lost, retried, aborted, killing, runs, remote>>

-----------------------------------------------------------------------------
\* Connecting and sending.

Connect(k) ==
  /\ place[k] = "connecting" /\ ~lost[k]
  /\ place' = [place EXCEPT ![k] = "sent"]
  /\ runs' = [runs EXCEPT ![k] = @ + 1]
  /\ remote' = [remote EXCEPT ![k] = "asked"]
  /\ UNCHANGED <<prev, tail, answer, lost, retried, aborted, killing>>

\* No connection: refused, "configuration changed while connecting" (the attempt
\* was closed), or an error that exec takes for recoverable; an attempt that was
\* closed can still end in one, the timeout of its handshake.
ConnectFails(k) ==
  /\ place[k] = "connecting"
  /\ \/ Settle(k, "error") /\ UNCHANGED <<lost, retried>>
     \/ Recoverable(k)
  /\ UNCHANGED <<prev, aborted, killing, runs, remote>>

\* "Channel open failure": the command did not reach a shell.
Refused(k) ==
  /\ place[k] = "sent" /\ ~lost[k] /\ remote[k] = "asked"
  /\ remote' = [remote EXCEPT ![k] = "none"]
  /\ Recoverable(k)
  /\ UNCHANGED <<prev, aborted, killing, runs>>

\* "No response from server": the connection went before the request was
\* answered; the process may have been started all the same.
NoResponse(k) ==
  /\ place[k] = "sent" /\ lost[k]
  /\ Recoverable(k)
  /\ UNCHANGED <<prev, aborted, killing, runs, remote>>

\* The request is answered.  A stream whose signal is aborted by then is ended,
\* and its process killed.
Accepted(k) ==
  /\ place[k] = "sent" /\ ~lost[k] /\ remote[k] # "asked"
  /\ IF aborted[k]
       THEN /\ Settle(k, "cancelled")
            /\ lost' = Closed(None)
            /\ killing' = [killing EXCEPT ![k] = TRUE]
       ELSE /\ place' = [place EXCEPT ![k] = "running"]
            /\ UNCHANGED <<tail, answer, lost, killing>>
  /\ UNCHANGED <<prev, retried, aborted, runs, remote>>

-----------------------------------------------------------------------------
\* The server's processes, and the network.

Starts(k) ==
  /\ remote[k] = "asked"
  /\ remote' = [remote EXCEPT ![k] = "running"]
  /\ UNCHANGED <<place, prev, tail, answer, lost, retried, aborted, killing, runs>>

Exits(k) ==
  /\ remote[k] = "running"
  /\ \E code \in {"exit0", "exit1"} : remote' = [remote EXCEPT ![k] = code]
  /\ UNCHANGED <<place, prev, tail, answer, lost, retried, aborted, killing, runs>>

\* terminateTrackedRemoteCommand: TERM and KILL; nobody waits for it.
Kill(k) ==
  /\ killing[k]
  /\ killing' = [killing EXCEPT ![k] = FALSE]
  /\ remote' = [remote EXCEPT ![k] = IF @ = "running" THEN "exit1" ELSE @]
  /\ UNCHANGED <<place, prev, tail, answer, lost, retried, aborted, runs>>

\* The shared connection breaks (keepalive, network, the server).
Drop ==
  /\ \E k \in Calls : place[k] \in {"sent", "running"} /\ ~lost[k]
  /\ lost' = [k \in Calls |-> lost[k] \/ place[k] \in {"sent", "running"}]
  /\ UNCHANGED <<place, prev, tail, answer, retried, aborted, killing, runs, remote>>

-----------------------------------------------------------------------------
\* How a call that was sent ends.

Exited(k) == remote[k] \in {"exit0", "exit1"}
Result(k) == IF remote[k] = "exit0" THEN "ok" ELSE "failed"

\* Mutant of EndOfLost: a channel closed without an exit code counts as success.
EndOfLostOk(k) == "ok"
\* execCommand resolves with the code null when the channel closes without one,
\* and execStrict throws on it.
EndOfLost(k) == "failed"

ExecCloses(k) ==
  /\ k \in Execs /\ place[k] = "running"
  /\ \/ ~lost[k] /\ Exited(k) /\ Settle(k, Result(k))
     \/ lost[k] /\ Settle(k, EndOfLost(k))
  /\ UNCHANGED <<prev, lost, retried, aborted, killing, runs, remote>>

\* Mutant of ExecTimeout: the timer starts when the server has answered.
ExecTimeoutLate(k) ==
  /\ k \in Execs \cap Bounded /\ place[k] = "running"
  /\ Settle(k, "timeout")
  /\ lost' = Closed(None)
  /\ UNCHANGED <<prev, retried, aborted, killing, runs, remote>>

\* withCommandTimeout: the connection is closed, the process is not killed.
ExecTimeout(k) ==
  /\ k \in Execs \cap Bounded /\ place[k] \in {"sent", "running"}
  /\ Settle(k, "timeout")
  /\ lost' = Closed(None)
  /\ UNCHANGED <<prev, retried, aborted, killing, runs, remote>>

\* The first event ends a stream: "close" brings the exit code, if there is one,
\* "end" counts as 0, and so does a "close" without a code.
StreamCloses(k) ==
  /\ k \in Streams /\ place[k] = "running"
  /\ \/ ~lost[k] /\ Exited(k) /\ (Settle(k, Result(k)) \/ Settle(k, "ok"))
     \/ lost[k] /\ (Settle(k, "ok") \/ Settle(k, "error"))
  /\ UNCHANGED <<prev, lost, retried, aborted, killing, runs, remote>>

\* terminate, for the timeout of a stream or the abort of its signal.
Terminate(k, a) ==
  /\ Settle(k, a)
  /\ lost' = Closed(None)
  /\ killing' = [killing EXCEPT ![k] = k \in Tracked]

StreamTimeout(k) ==
  /\ k \in Streams \cap Bounded /\ place[k] = "running"
  /\ Terminate(k, "timeout")
  /\ UNCHANGED <<prev, retried, aborted, runs, remote>>

\* The signal reaches a stream that runs; an earlier one is found by Accepted.
Abort(k) ==
  /\ k \in Tracked /\ ~aborted[k] /\ place[k] \notin {"new", "settled"}
  /\ aborted' = [aborted EXCEPT ![k] = TRUE]
  /\ IF place[k] = "running" THEN Terminate(k, "cancelled")
                             ELSE UNCHANGED <<place, tail, answer, lost, killing>>
  /\ UNCHANGED <<prev, retried, runs, remote>>

\* Every call is answered and every process over.
Quiet ==
  /\ \A k \in Calls : place[k] = "settled" /\ remote[k] \notin {"asked", "running"}
  /\ UNCHANGED vars

Next ==
  \/ \E k \in Calls :
       \/ Call(k) \/ QueueTimeout(k) \/ Skip(k) \/ Begin(k)
       \/ Connect(k) \/ ConnectFails(k) \/ Refused(k) \/ NoResponse(k) \/ Accepted(k)
       \/ Starts(k) \/ Exits(k) \/ Kill(k)
       \/ ExecCloses(k) \/ ExecTimeout(k)
       \/ StreamCloses(k) \/ StreamTimeout(k) \/ Abort(k)
  \/ Drop
  \/ Quiet

Spec == Init /\ [][Next]_vars

\* The event loop runs what is ready, timers fire, and a connection attempt ends
\* within its readyTimeout.  Nothing is assumed of the server's processes.
Fairness ==
  \A k \in Calls :
    /\ WF_vars(QueueTimeout(k)) /\ WF_vars(Skip(k)) /\ WF_vars(Begin(k))
    /\ WF_vars(Connect(k) \/ ConnectFails(k)) /\ WF_vars(NoResponse(k))
    /\ WF_vars(ExecCloses(k)) /\ WF_vars(ExecTimeout(k)) /\ WF_vars(StreamTimeout(k))

FairSpec == Spec /\ Fairness

-----------------------------------------------------------------------------
\* Properties.

\* At most one command of a queue is on the connection, although the queue keeps
\* its last promise only and callers leave it by their timeouts.
OneAtATime ==
  \A j, k \in Calls :
    /\ place[j] \in OnConnection /\ place[k] \in OnConnection
    /\ QueueOf(j) = QueueOf(k)
    => j = k

\* Who was told that the queue timed out can call again: the command was not
\* sent and never will be.
TimedOutNeverRuns == \A k \in Calls : answer[k] = "queueTimeout" => runs[k] = 0

\* A command runs at most twice, a streamed one at most once, whatever breaks.
RunsBounded == \A k \in Calls : runs[k] <= IF k \in Execs THEN 2 ELSE 1

\* Outside a job, a command reported as done has exited with 0, for all the
\* connections that others closed under it.
ExecTruth == \A k \in Execs : answer[k] = "ok" => remote[k] = "exit0"

\* "Execute command, throw on non-zero exit" (commands.ts:386), of streamed
\* commands, as execStrict runs them inside a process job.
StreamTruth == \A k \in Streams : answer[k] = "ok" => remote[k] = "exit0"

\* A call of exec with timeouts is answered, even behind calls without any and
\* with a server that answers nothing.
ExecAnswered == \A k \in Execs \cap Bounded : place[k] = "queued" ~> answer[k] # "none"

\* What a call has done by the time it is at a place.
Progress ==
  \A k \in Calls :
    /\ place[k] \in OnConnection => answer[k] = "none"
    /\ place[k] \in {"new", "queued"} =>
         /\ runs[k] = 0 /\ remote[k] = "none" /\ ~retried[k]
         /\ answer[k] \in {"none", "queueTimeout"}
    /\ place[k] = "connecting" => runs[k] <= IF retried[k] THEN 1 ELSE 0
    /\ place[k] \in {"sent", "running"} => runs[k] <= IF retried[k] THEN 2 ELSE 1
    /\ retried[k] => k \in Execs

\* The inductive invariant of what a call does.  That the calls of a queue follow
\* one another (OneAtATime) is proved from it and the lines of SshCommands_proofs.
IInv == TypeOK /\ Progress /\ TimedOutNeverRuns /\ RunsBounded /\ ExecTruth
=============================================================================
