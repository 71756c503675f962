------------------------- MODULE SshCommands_proofs -------------------------
(***************************************************************************)
(* Proofs about SshCommands for any number of calls of either kind, with   *)
(* and without timeouts.                                                   *)
(***************************************************************************)
EXTENDS SshCommands, TLAPS

(* Nothing has been called: the invariant holds.                           *)
LEMMA InvInit == Init => IInv
<1> SUFFICES ASSUME Init PROVE IInv
  OBVIOUS
<1>1. TypeOK
  BY DEF Init, TypeOK, Places, Answers, Remotes
<1>2. Progress /\ TimedOutNeverRuns /\ RunsBounded /\ ExecTruth
  BY DEF Init, Progress, OnConnection, TimedOutNeverRuns, RunsBounded, ExecTruth, Calls
<1> QED BY <1>1, <1>2 DEF IInv

(* What the end of a call leaves: only its place and its answer, which is  *)
(* kept if there is one.                                                   *)
LEMMA Settled ==
  ASSUME TypeOK, NEW k \in Calls, NEW a \in Answers, Settle(k, a)
  PROVE  /\ place' \in [Calls -> Places] /\ answer' \in [Calls -> Answers]
         /\ tail' \in [Queues -> Calls \cup {None}]
         /\ place'[k] = "settled"
         /\ answer'[k] = IF answer[k] = "none" THEN a ELSE answer[k]
         /\ \A j \in Calls : j # k => place'[j] = place[j] /\ answer'[j] = answer[j]
  BY DEF Settle, TypeOK, Places, Answers, Queues, QueueOf

(* A call that is over, whatever it was told, with processes and counts as *)
(* they were: the invariant holds if "ok" was told truly.                  *)
LEMMA SettledInv ==
  ASSUME IInv, NEW k \in Calls, NEW a \in Answers, Settle(k, a), place[k] # "new",
         a # "queueTimeout",
         k \in Execs /\ a = "ok" => remote[k] = "exit0",
         prev' = prev, lost' \in [Calls -> BOOLEAN], retried' = retried,
         aborted' \in [Calls -> BOOLEAN], killing' \in [Calls -> BOOLEAN],
         runs' = runs, remote' \in [Calls -> Remotes],
         \A j \in Calls : remote'[j] = remote[j] \/ (j = k /\ remote[k] = "asked")
  PROVE  IInv'
<1> USE DEF IInv
<1>1. TypeOK'
  BY Settled DEF TypeOK
<1>2. Progress'
  <2>1. Progress /\ TypeOK
    OBVIOUS
  <2> QED BY <2>1, Settled DEF Progress, OnConnection
<1>3. (TimedOutNeverRuns /\ RunsBounded)'
  <2>1. TimedOutNeverRuns /\ RunsBounded
    OBVIOUS
  <2> QED BY <2>1, Settled DEF TimedOutNeverRuns, RunsBounded
<1>4. ExecTruth'
  <2>1. ExecTruth /\ TypeOK
    OBVIOUS
  <2> QED BY <2>1, Settled DEF ExecTruth, Calls, TypeOK, Answers
<1> QED BY <1>1, <1>2, <1>3, <1>4

(* A recoverable error: the call is over, or exec connects once more.      *)
LEMMA RecoverableInv ==
  ASSUME IInv, NEW k \in Calls, Recoverable(k), place[k] \in {"connecting", "sent"},
         UNCHANGED <<prev, aborted, killing, runs>>,
         remote' \in [Calls -> Remotes],
         \A j \in Calls : remote'[j] = remote[j] \/ (j = k /\ remote[k] = "asked")
  PROVE  IInv'
<1> USE DEF IInv
<1>1. CASE ~MayRetry(k)
  <2>1. Settle(k, "error") /\ UNCHANGED <<lost, retried>>
    BY <1>1 DEF Recoverable
  <2>2. lost \in [Calls -> BOOLEAN] /\ aborted \in [Calls -> BOOLEAN]
        /\ killing \in [Calls -> BOOLEAN]
    BY DEF TypeOK
  <2>3. "error" \in Answers
    BY DEF Answers
  <2> QED BY <2>1, <2>2, <2>3, SettledInv
<1>2. CASE MayRetry(k)
  <2>1. /\ Retry(k) /\ k \in Execs /\ ~retried[k]
    BY <1>2 DEF Recoverable, MayRetry
  <2>2. TypeOK'
    BY <2>1 DEF Retry, TypeOK, Closed, Places
  <2>3. /\ place'[k] = "connecting" /\ retried'[k] /\ answer' = answer
        /\ \A j \in Calls : j # k => place'[j] = place[j] /\ retried'[j] = retried[j]
    BY <2>1 DEF Retry, TypeOK
  <2>4. runs[k] \in Nat /\ runs[k] <= 1 /\ answer[k] = "none"
    BY <2>1 DEF Progress, OnConnection, TypeOK
  <2>5. Progress'
    <3>1. Progress /\ runs' = runs
      OBVIOUS
    <3> QED BY <2>1, <2>3, <2>4, <3>1 DEF Progress, OnConnection
  <2>6. (TimedOutNeverRuns /\ RunsBounded /\ ExecTruth)'
    BY <2>3, <2>4 DEF TimedOutNeverRuns, RunsBounded, ExecTruth, Calls
  <2> QED BY <2>2, <2>5, <2>6
<1> QED BY <1>1, <1>2

(* Each step preserves the inductive invariant.                            *)
LEMMA InvNext == IInv /\ [Next]_vars => IInv'
<1> SUFFICES ASSUME IInv, [Next]_vars PROVE IInv'
  OBVIOUS
<1> USE DEF IInv
<1>t. /\ lost \in [Calls -> BOOLEAN] /\ aborted \in [Calls -> BOOLEAN]
      /\ killing \in [Calls -> BOOLEAN] /\ remote \in [Calls -> Remotes]
      /\ Closed(None) \in [Calls -> BOOLEAN]
  BY DEF TypeOK, Closed
<1>a. {"ok", "failed", "error", "timeout", "cancelled"} \subseteq Answers
  BY DEF Answers
<1>1. ASSUME NEW k \in Calls, Call(k) PROVE IInv'
  <2>1. TypeOK'
    BY <1>1 DEF Call, TypeOK, Places, Queues, QueueOf
  <2>2. (Progress /\ TimedOutNeverRuns /\ RunsBounded /\ ExecTruth)'
    BY <1>1 DEF Call, TypeOK, Progress, OnConnection, TimedOutNeverRuns, RunsBounded, ExecTruth
  <2> QED BY <2>1, <2>2
<1>2. ASSUME NEW k \in Calls, QueueTimeout(k) PROVE IInv'
  <2>1. TypeOK'
    BY <1>2 DEF QueueTimeout, TypeOK, Answers
  <2>2. /\ runs[k] = 0 /\ place[k] \notin OnConnection
        /\ answer'[k] = "queueTimeout" /\ \A j \in Calls : j # k => answer'[j] = answer[j]
    BY <1>2 DEF QueueTimeout, Progress, OnConnection, TypeOK
  <2>3. (Progress /\ TimedOutNeverRuns /\ RunsBounded /\ ExecTruth)'
    BY <1>2, <2>2 DEF QueueTimeout, Progress, TimedOutNeverRuns, RunsBounded, ExecTruth, Calls
  <2> QED BY <2>1, <2>3
<1>3. ASSUME NEW k \in Calls, Skip(k) PROVE IInv'
  <2>1. Settle(k, "error") /\ place[k] # "new" /\ UNCHANGED <<prev, lost, retried, aborted, killing, runs, remote>>
    BY <1>3 DEF Skip, Reached
  <2> QED BY <1>t, <1>a, <2>1, SettledInv
<1>4. ASSUME NEW k \in Calls, Begin(k) PROVE IInv'
  <2>1. TypeOK'
    BY <1>4 DEF Begin, TypeOK, Places
  <2>2. runs[k] = 0 /\ ~retried[k] /\ answer[k] = "none" /\ place'[k] = "connecting"
        /\ \A j \in Calls : j # k => place'[j] = place[j]
    BY <1>4 DEF Begin, Reached, Cancelled, Progress, TypeOK
  <2>3. (Progress /\ TimedOutNeverRuns /\ RunsBounded /\ ExecTruth)'
    BY <1>4, <2>2 DEF Begin, Progress, OnConnection, TimedOutNeverRuns, RunsBounded, ExecTruth
  <2> QED BY <2>1, <2>3
<1>5. ASSUME NEW k \in Calls, Connect(k) PROVE IInv'
  <2>1. TypeOK'
    BY <1>5 DEF Connect, TypeOK, Places, Remotes
  <2>2. /\ place'[k] = "sent" /\ runs'[k] = runs[k] + 1 /\ answer[k] = "none"
        /\ runs[k] <= IF retried[k] THEN 1 ELSE 0
        /\ runs[k] \in Nat /\ (retried[k] => k \in Execs)
        /\ \A j \in Calls : j # k => /\ place'[j] = place[j] /\ runs'[j] = runs[j]
                                     /\ remote'[j] = remote[j]
    BY <1>5 DEF Connect, Progress, OnConnection, TypeOK
  <2>3. UNCHANGED <<answer, retried>>
    BY <1>5 DEF Connect
  <2>4. Progress'
    BY <2>2, <2>3 DEF Progress, OnConnection
  <2>5. (TimedOutNeverRuns /\ RunsBounded /\ ExecTruth)'
    BY <2>2, <2>3 DEF TimedOutNeverRuns, RunsBounded, ExecTruth, Calls
  <2> QED BY <2>1, <2>4, <2>5
<1>6. ASSUME NEW k \in Calls, ConnectFails(k) PROVE IInv'
  <2>1. CASE Settle(k, "error") /\ UNCHANGED <<lost, retried>>
    <3>1. place[k] # "new" /\ UNCHANGED <<prev, aborted, killing, runs, remote>>
      BY <1>6 DEF ConnectFails
    <3> QED BY <1>t, <1>a, <2>1, <3>1, SettledInv
  <2>2. CASE Recoverable(k)
    <3>1. place[k] = "connecting" /\ UNCHANGED <<prev, aborted, killing, runs, remote>>
      BY <1>6 DEF ConnectFails
    <3> QED BY <1>t, <2>2, <3>1, RecoverableInv
  <2> QED BY <1>6, <2>1, <2>2 DEF ConnectFails
<1>7. ASSUME NEW k \in Calls, Refused(k) PROVE IInv'
  <2>1. /\ place[k] = "sent" /\ Recoverable(k) /\ UNCHANGED <<prev, aborted, killing, runs>>
        /\ remote[k] = "asked"
    BY <1>7 DEF Refused
  <2>2. remote' \in [Calls -> Remotes] /\ \A j \in Calls : j # k => remote'[j] = remote[j]
    BY <1>7, <1>t DEF Refused, Remotes
  <2>3. \A j \in Calls : remote'[j] = remote[j] \/ (j = k /\ remote[k] = "asked")
    BY <2>1, <2>2
  <2> QED BY <2>1, <2>2, <2>3, RecoverableInv
<1>8. ASSUME NEW k \in Calls, NoResponse(k) PROVE IInv'
  <2>1. place[k] = "sent" /\ Recoverable(k) /\ UNCHANGED <<prev, aborted, killing, runs, remote>>
    BY <1>8 DEF NoResponse
  <2> QED BY <1>t, <2>1, RecoverableInv
<1>9. ASSUME NEW k \in Calls, Accepted(k) PROVE IInv'
  <2>1. place[k] = "sent" /\ UNCHANGED <<prev, retried, aborted, runs, remote>>
    BY <1>9 DEF Accepted
  <2>2. CASE aborted[k]
    <3>1. Settle(k, "cancelled") /\ lost' = Closed(None)
          /\ killing' = [killing EXCEPT ![k] = TRUE]
      BY <1>9, <2>2 DEF Accepted
    <3>2. killing' \in [Calls -> BOOLEAN]
      BY <1>t, <3>1
    <3> QED BY <1>t, <1>a, <2>1, <3>1, <3>2, SettledInv
  <2>3. CASE ~aborted[k]
    <3>1. place' = [place EXCEPT ![k] = "running"] /\ UNCHANGED <<tail, answer, lost, killing>>
      BY <1>9, <2>3 DEF Accepted
    <3>2. TypeOK'
      BY <2>1, <3>1 DEF TypeOK, Places
    <3>3. (Progress /\ TimedOutNeverRuns /\ RunsBounded /\ ExecTruth)'
      BY <2>1, <3>1 DEF TypeOK, Progress, OnConnection, TimedOutNeverRuns, RunsBounded, ExecTruth
    <3> QED BY <3>2, <3>3
  <2> QED BY <2>2, <2>3
<1>10. ASSUME NEW k \in Calls, Starts(k) \/ Exits(k) \/ Kill(k) PROVE IInv'
  <2>1. /\ UNCHANGED <<place, prev, tail, answer, lost, retried, aborted, runs>>
        /\ remote' \in [Calls -> Remotes] /\ killing' \in [Calls -> BOOLEAN]
    BY <1>10, <1>t DEF Starts, Exits, Kill, Remotes
  <2>2. \A j \in Calls : remote[j] \in {"none", "exit0"} => remote'[j] = remote[j]
    BY <1>10, <1>t DEF Starts, Exits, Kill
  <2>3. TypeOK'
    BY <2>1 DEF TypeOK
  <2>4. (Progress /\ TimedOutNeverRuns /\ RunsBounded /\ ExecTruth)'
    BY <2>1, <2>2 DEF Progress, TimedOutNeverRuns, RunsBounded, ExecTruth, Calls
  <2> QED BY <2>3, <2>4
<1>11. ASSUME NEW k \in Calls, ExecCloses(k) PROVE IInv'
  <2>1. place[k] # "new" /\ UNCHANGED <<prev, lost, retried, aborted, killing, runs, remote>>
    BY <1>11 DEF ExecCloses
  <2>2. Settle(k, Result(k)) \/ Settle(k, "failed")
    BY <1>11 DEF ExecCloses, EndOfLost
  <2>3. Result(k) \in {"ok", "failed"} /\ (Result(k) = "ok" => remote[k] = "exit0")
    BY DEF Result
  <2> QED BY <1>t, <1>a, <2>1, <2>2, <2>3, SettledInv
<1>12. ASSUME NEW k \in Calls, ExecTimeout(k) PROVE IInv'
  <2>1. /\ Settle(k, "timeout") /\ place[k] # "new" /\ lost' = Closed(None)
        /\ UNCHANGED <<prev, retried, aborted, killing, runs, remote>>
    BY <1>12 DEF ExecTimeout
  <2> QED BY <1>t, <1>a, <2>1, SettledInv
<1>13. ASSUME NEW k \in Calls, StreamCloses(k) PROVE IInv'
  <2>a. k \in Streams
    BY <1>13 DEF StreamCloses
  <2>b. k \notin Execs
    BY <2>a, ConstantsAssumption
  <2>1. /\ place[k] # "new"
        /\ UNCHANGED <<prev, lost, retried, aborted, killing, runs, remote>>
    BY <1>13 DEF StreamCloses
  <2>2. PICK a \in {"ok", "failed", "error"} : Settle(k, a)
    BY <1>13 DEF StreamCloses, Result
  <2> QED BY <1>t, <1>a, <2>b, <2>1, <2>2, SettledInv
<1>14. ASSUME NEW k \in Calls, StreamTimeout(k) PROVE IInv'
  <2>1. /\ place[k] # "new" /\ Terminate(k, "timeout")
        /\ UNCHANGED <<prev, retried, aborted, runs, remote>>
    BY <1>14 DEF StreamTimeout
  <2>2. Settle(k, "timeout") /\ lost' = Closed(None) /\ killing' \in [Calls -> BOOLEAN]
    BY <1>t, <2>1 DEF Terminate
  <2> QED BY <1>t, <1>a, <2>1, <2>2, SettledInv
<1>15. ASSUME NEW k \in Calls, Abort(k) PROVE IInv'
  <2>1. /\ place[k] # "new" /\ UNCHANGED <<prev, retried, runs, remote>>
        /\ aborted' = [aborted EXCEPT ![k] = TRUE]
    BY <1>15 DEF Abort
  <2>2. aborted' \in [Calls -> BOOLEAN]
    BY <1>t, <2>1
  <2>3. CASE place[k] = "running"
    <3>1. Settle(k, "cancelled") /\ lost' = Closed(None) /\ killing' \in [Calls -> BOOLEAN]
      BY <1>15, <1>t, <2>3 DEF Abort, Terminate
    <3> QED BY <1>t, <1>a, <2>1, <2>2, <3>1, SettledInv
  <2>4. CASE place[k] # "running"
    <3>1. UNCHANGED <<place, tail, answer, lost, killing>>
      BY <1>15, <2>4 DEF Abort
    <3> QED BY <2>1, <2>2, <3>1 DEF TypeOK, Progress, TimedOutNeverRuns, RunsBounded, ExecTruth
  <2> QED BY <2>3, <2>4
<1>16. CASE Drop
  <2>1. /\ lost' \in [Calls -> BOOLEAN]
        /\ UNCHANGED <<place, prev, tail, answer, retried, aborted, killing, runs, remote>>
    BY <1>16, <1>t DEF Drop
  <2> QED BY <2>1 DEF TypeOK, Progress, TimedOutNeverRuns, RunsBounded, ExecTruth
<1>17. CASE UNCHANGED vars
  BY <1>17 DEF vars, TypeOK, Progress, TimedOutNeverRuns, RunsBounded, ExecTruth
<1> QED BY <1>1, <1>2, <1>3, <1>4, <1>5, <1>6, <1>7, <1>8, <1>9, <1>10, <1>11, <1>12,
           <1>13, <1>14, <1>15, <1>16, <1>17 DEF Next, Quiet

(* Every reachable state satisfies the inductive invariant.                *)
THEOREM Invariant == Spec => []IInv
  BY InvInit, InvNext, PTL DEF Spec

(* Types.                                                                  *)
THEOREM TypeCorrect == Spec => []TypeOK
<1>1. IInv => TypeOK
  BY DEF IInv
<1> QED BY <1>1, Invariant, PTL

(* A call whose queue timeout was reported is never sent to the server.    *)
THEOREM QueueTimeoutIsFinal == Spec => []TimedOutNeverRuns
<1>1. IInv => TimedOutNeverRuns
  BY DEF IInv
<1> QED BY <1>1, Invariant, PTL

(* A command is sent at most twice, a streamed one at most once.           *)
THEOREM AtMostOneRetry == Spec => []RunsBounded
<1>1. IInv => RunsBounded
  BY DEF IInv
<1> QED BY <1>1, Invariant, PTL

(* A command of exec that is reported as done has exited with 0.           *)
THEOREM ExecReportsTruth == Spec => []ExecTruth
<1>1. IInv => ExecTruth
  BY DEF IInv
<1> QED BY <1>1, Invariant, PTL
-----------------------------------------------------------------------------
(* That calls of a queue follow one another: the calls of queue q that are *)
(* not over stand in a line s of n calls, of which the last is the queue's *)
(* tail, each waits for the one before it, and only the first has begun.   *)
Waiting(k) == place[k] \notin {"new", "settled"}

Line(q, n, s) ==
  /\ n \in Nat /\ s \in [1..n -> Calls]
  /\ \A i \in 1..n : QueueOf(s[i]) = q /\ Waiting(s[i])
  /\ \A k \in Calls : QueueOf(k) = q /\ Waiting(k) => \E i \in 1..n : s[i] = k
  /\ \A i, j \in 1..n : s[i] = s[j] => i = j
  /\ tail[q] = IF n = 0 THEN None ELSE s[n]
  /\ \A i \in 1..n : i > 1 => prev[s[i]] = s[i - 1] /\ place[s[i]] = "queued"

Lined(q) == \E n \in Nat : \E s \in [1..n -> Calls] : Line(q, n, s)

InLine == \A q \in Queues : Lined(q)

(* A call whose turn it is, or that has begun, is the first of its line.   *)
Front(k) == Reached(k) \/ place[k] \in OnConnection

LEMMA FrontIsFirst ==
  ASSUME TypeOK, NEW k \in Calls, Front(k), NEW n, NEW s, Line(QueueOf(k), n, s)
  PROVE  n >= 1 /\ s[1] = k
<1>1. Waiting(k)
  BY DEF Front, Reached, OnConnection, Waiting
<1>2. PICK i \in 1..n : s[i] = k
  BY <1>1 DEF Line
<1>3. n \in Nat /\ i \in Nat /\ i >= 1 /\ i <= n
  BY DEF Line
<1>4. CASE i > 1
  <2>1. prev[k] = s[i - 1] /\ place[k] = "queued"
    BY <1>2, <1>4 DEF Line
  <2>2. i - 1 \in 1..n
    BY <1>3, <1>4
  <2>3. s[i - 1] \in Calls /\ Waiting(s[i - 1])
    BY <2>2 DEF Line
  <2>4. prev[k] # None /\ place[prev[k]] # "settled"
    BY <2>1, <2>3, ConstantsAssumption DEF Waiting
  <2> QED BY <2>1, <2>4 DEF Front, Reached, OnConnection
<1>5. CASE i = 1
  BY <1>2, <1>3, <1>5
<1> QED BY <1>3, <1>4, <1>5

(* A new call joins its line at the end.                                   *)
LEMMA CallInLine ==
  ASSUME TypeOK, InLine, NEW k \in Calls, Call(k)
  PROVE  InLine'
<1> SUFFICES ASSUME NEW q \in Queues PROVE Lined(q)'
  BY DEF InLine
<1>1. PICK n \in Nat : \E s \in [1..n -> Calls] : Line(q, n, s)
  BY DEF InLine, Lined
<1>2. PICK s \in [1..n -> Calls] : Line(q, n, s)
  BY <1>1
<1>3. /\ place[k] = "new" /\ place'[k] = "queued"
      /\ \A j \in Calls : j # k => place'[j] = place[j] /\ prev'[j] = prev[j]
      /\ prev'[k] = tail[QueueOf(k)]
      /\ tail' = [tail EXCEPT ![QueueOf(k)] = k]
  BY DEF Call, TypeOK
<1>4. \A i \in 1..n : s[i] \in Calls /\ s[i] # k
  BY <1>2, <1>3 DEF Line, Waiting
<1>5. CASE q # QueueOf(k)
  <2>1. tail'[q] = tail[q]
    BY <1>3, <1>5 DEF TypeOK
  <2>2. Line(q, n, s)'
    BY <1>2, <1>3, <1>4, <1>5, <2>1 DEF Line, Waiting
  <2> QED BY <2>2 DEF Lined
<1>6. CASE q = QueueOf(k)
  <2> DEFINE t == [i \in 1..(n + 1) |-> IF i <= n THEN s[i] ELSE k]
  <2>1. n + 1 \in Nat /\ t \in [1..(n + 1) -> Calls] /\ t[n + 1] = k
        /\ \A i \in 1..n : t[i] = s[i]
    BY <1>4
  <2>2. tail'[q] = k
    BY <1>3, <1>6 DEF TypeOK
  <2>3. \A i \in 1..(n + 1) : QueueOf(t[i]) = q /\ Waiting(t[i])'
    BY <1>2, <1>3, <1>4, <1>6, <2>1 DEF Line, Waiting
  <2>4. ASSUME NEW j \in Calls, QueueOf(j) = q, Waiting(j)'
        PROVE  \E i \in 1..(n + 1) : t[i] = j
    <3>1. CASE j = k
      BY <2>1, <3>1
    <3>2. CASE j # k
      <4>1. PICK i \in 1..n : s[i] = j
        BY <1>2, <1>3, <2>4, <3>2 DEF Line, Waiting
      <4> QED BY <4>1, <2>1
    <3> QED BY <3>1, <3>2
  <2>5. \A i, j \in 1..(n + 1) : t[i] = t[j] => i = j
    BY <1>2, <1>4 DEF Line
  <2>6. \A i \in 1..(n + 1) : i > 1 => prev'[t[i]] = t[i - 1] /\ place'[t[i]] = "queued"
    <3> SUFFICES ASSUME NEW i \in 1..(n + 1), i > 1
                 PROVE  prev'[t[i]] = t[i - 1] /\ place'[t[i]] = "queued"
      OBVIOUS
    <3>1. CASE i <= n
      <4>1. i \in 1..n /\ i - 1 \in 1..n
        BY <3>1
      <4>2. prev[s[i]] = s[i - 1] /\ place[s[i]] = "queued"
        BY <1>2, <4>1 DEF Line
      <4> QED BY <1>3, <1>4, <2>1, <4>1, <4>2
    <3>2. CASE i = n + 1
      <4>1. n \in 1..n /\ n # 0
        BY <3>2
      <4>2. tail[q] = s[n]
        BY <1>2, <4>1 DEF Line
      <4> QED BY <1>3, <1>6, <2>1, <3>2, <4>1, <4>2
    <3> QED BY <3>1, <3>2
  <2>7. Line(q, n + 1, t)'
    <3> HIDE DEF t
    <3> QED BY <2>1, <2>2, <2>3, <2>4, <2>5, <2>6 DEF Line
  <2> HIDE DEF t
  <2> QED BY <2>1, <2>7 DEF Lined
<1> QED BY <1>5, <1>6

(* The first of a line moves on.                                           *)
LEMMA MoveInLine ==
  ASSUME TypeOK, InLine, NEW k \in Calls, Front(k), NEW x \in OnConnection,
         place' = [place EXCEPT ![k] = x], UNCHANGED <<prev, tail>>
  PROVE  InLine'
<1> SUFFICES ASSUME NEW q \in Queues PROVE Lined(q)'
  BY DEF InLine
<1>1. PICK n \in Nat : \E s \in [1..n -> Calls] : Line(q, n, s)
  BY DEF InLine, Lined
<1>2. PICK s \in [1..n -> Calls] : Line(q, n, s)
  BY <1>1
<1>3. /\ Waiting(k) /\ Waiting(k)' /\ \A j \in Calls : j # k => place'[j] = place[j]
  BY DEF TypeOK, Front, Reached, OnConnection, Waiting
<1>4. \A j \in Calls : Waiting(j)' <=> Waiting(j)
  BY <1>3 DEF Waiting
<1>5. \A i \in 1..n : i > 1 => s[i] # k
  <2> SUFFICES ASSUME NEW i \in 1..n, i > 1, s[i] = k PROVE FALSE
    OBVIOUS
  <2>1. QueueOf(k) = q
    BY <1>2 DEF Line
  <2>2. s[1] = k /\ n >= 1
    BY <1>2, <2>1, FrontIsFirst
  <2>3. 1 \in 1..n
    BY <2>2
  <2> QED BY <1>2, <2>2, <2>3 DEF Line
<1>6. \A i \in 1..n : i > 1 => prev'[s[i]] = s[i - 1] /\ place'[s[i]] = "queued"
  BY <1>2, <1>3, <1>5 DEF Line
<1>7. Line(q, n, s)'
  BY <1>2, <1>4, <1>6 DEF Line
<1> QED BY <1>7 DEF Lined

(* The first of a line leaves it, and is forgotten if it was the last.     *)
LEMMA SettleInLine ==
  ASSUME TypeOK, InLine, NEW k \in Calls, Front(k), NEW a \in Answers,
         Settle(k, a), prev' = prev
  PROVE  InLine'
<1> SUFFICES ASSUME NEW q \in Queues PROVE Lined(q)'
  BY DEF InLine
<1>1. PICK n \in Nat : \E s \in [1..n -> Calls] : Line(q, n, s)
  BY DEF InLine, Lined
<1>2. PICK s \in [1..n -> Calls] : Line(q, n, s)
  BY <1>1
<1>3. /\ Waiting(k) /\ place'[k] = "settled" /\ \A j \in Calls : j # k => place'[j] = place[j]
      /\ tail' = [tail EXCEPT ![QueueOf(k)] = IF @ = k THEN None ELSE @]
  BY DEF Settle, TypeOK, Front, Reached, OnConnection, Waiting
<1>4. CASE q # QueueOf(k)
  <2>1. tail'[q] = tail[q]
    BY <1>3, <1>4 DEF TypeOK
  <2>2. \A i \in 1..n : s[i] \in Calls /\ s[i] # k
    BY <1>2, <1>4 DEF Line
  <2>3. \A j \in Calls : QueueOf(j) = q => (Waiting(j)' <=> Waiting(j)) /\ place'[j] = place[j]
    BY <1>3, <1>4 DEF Waiting
  <2>4. Line(q, n, s)'
    BY <1>2, <2>1, <2>2, <2>3 DEF Line
  <2> QED BY <2>4 DEF Lined
<1>5. CASE q = QueueOf(k)
  <2>1. n >= 1 /\ s[1] = k /\ n - 1 \in Nat
    BY <1>2, <1>5, FrontIsFirst
  <2> DEFINE t == [i \in 1..(n - 1) |-> s[i + 1]]
  <2>2. \A i \in 1..(n - 1) : i + 1 \in 1..n /\ t[i] = s[i + 1] /\ s[i + 1] \in Calls
    BY <2>1
  <2>3. t \in [1..(n - 1) -> Calls]
    BY <2>2
  <2>4. \A i \in 1..n : i > 1 => s[i] # k
    <3>1. 1 \in 1..n
      BY <2>1
    <3> QED BY <1>2, <2>1, <3>1 DEF Line
  <2> HIDE DEF t
  <2>5. \A i \in 1..(n - 1) : t[i] \in Calls /\ t[i] # k
    BY <2>1, <2>2, <2>4
  <2>6. \A i \in 1..(n - 1) : QueueOf(t[i]) = q /\ Waiting(t[i])'
    BY <1>2, <1>3, <2>2, <2>5 DEF Line, Waiting
  <2>7. ASSUME NEW j \in Calls, QueueOf(j) = q, Waiting(j)'
        PROVE  \E i \in 1..(n - 1) : t[i] = j
    <3>1. j # k /\ Waiting(j)
      BY <1>3, <2>7 DEF Waiting
    <3>2. PICK i \in 1..n : s[i] = j
      BY <1>2, <2>7, <3>1 DEF Line
    <3>3. i # 1
      BY <2>1, <3>1, <3>2
    <3>4. i - 1 \in 1..(n - 1) /\ t[i - 1] = s[i]
      BY <2>1, <2>2, <3>3
    <3> QED BY <3>2, <3>4
  <2>8. \A i, j \in 1..(n - 1) : t[i] = t[j] => i = j
    <3> SUFFICES ASSUME NEW i \in 1..(n - 1), NEW j \in 1..(n - 1), t[i] = t[j]
                 PROVE  i = j
      OBVIOUS
    <3>1. i + 1 = j + 1
      BY <1>2, <2>2 DEF Line
    <3> QED BY <3>1
  <2>9. tail'[q] = IF n - 1 = 0 THEN None ELSE t[n - 1]
    <3>1. tail'[q] = (IF tail[q] = k THEN None ELSE tail[q]) /\ tail[q] = s[n]
      BY <1>2, <1>3, <1>5, <2>1 DEF TypeOK, Line
    <3>2. CASE n = 1
      BY <2>1, <3>1, <3>2
    <3>3. CASE n > 1
      <4>1. n \in 1..n /\ n - 1 \in 1..(n - 1)
        BY <3>3
      <4>2. s[n] # k /\ t[n - 1] = s[n]
        BY <2>2, <2>4, <3>3, <4>1
      <4> QED BY <3>1, <3>3, <4>2
    <3> QED BY <2>1, <3>2, <3>3
  <2>10. \A i \in 1..(n - 1) : i > 1 => prev'[t[i]] = t[i - 1] /\ place'[t[i]] = "queued"
    <3> SUFFICES ASSUME NEW i \in 1..(n - 1), i > 1
                 PROVE  prev'[t[i]] = t[i - 1] /\ place'[t[i]] = "queued"
      OBVIOUS
    <3>1. i + 1 \in 1..n /\ i + 1 > 1 /\ t[i] = s[i + 1] /\ t[i - 1] = s[i]
      BY <2>2
    <3>2. prev[s[i + 1]] = s[i] /\ place[s[i + 1]] = "queued"
      BY <1>2, <3>1 DEF Line
    <3> QED BY <1>3, <2>5, <3>1, <3>2
  <2>11. Line(q, n - 1, t)'
    BY <2>1, <2>3, <2>6, <2>7, <2>8, <2>9, <2>10 DEF Line
  <2> QED BY <2>1, <2>3, <2>11 DEF Lined
<1> QED BY <1>4, <1>5

(* A step that moves no call and calls none.                               *)
LEMMA StayInLine ==
  ASSUME InLine, UNCHANGED <<place, prev, tail>>
  PROVE  InLine'
<1>1. \A k \in Calls : Waiting(k)' <=> Waiting(k)
  BY DEF Waiting
<1>2. ASSUME NEW q, NEW n, NEW s, Line(q, n, s) PROVE Line(q, n, s)'
  BY <1>1, <1>2 DEF Line
<1> QED BY <1>2 DEF InLine, Lined

(* A recoverable error moves the first of a line, or ends it.              *)
LEMMA RecoverInLine ==
  ASSUME TypeOK, InLine, NEW k \in Calls, Front(k), Recoverable(k), prev' = prev
  PROVE  InLine'
<1>1. CASE MayRetry(k)
  <2>1. place' = [place EXCEPT ![k] = "connecting"] /\ tail' = tail
    BY <1>1 DEF Recoverable, Retry
  <2>2. "connecting" \in OnConnection
    BY DEF OnConnection
  <2> QED BY <2>1, <2>2, MoveInLine
<1>2. CASE ~MayRetry(k)
  <2>1. Settle(k, "error") /\ "error" \in Answers
    BY <1>2 DEF Recoverable, Answers
  <2> QED BY <2>1, SettleInLine
<1> QED BY <1>1, <1>2

(* In the initial states the lines are empty.                              *)
LEMMA LineInit == Init => InLine
<1> SUFFICES ASSUME Init, NEW q \in Queues PROVE Lined(q)
  BY DEF InLine
<1> DEFINE s == [i \in 1..0 |-> None]
<1>1. s \in [1..0 -> Calls]
  OBVIOUS
<1>2. Line(q, 0, s)
  BY <1>1 DEF Init, Line, Waiting
<1> HIDE DEF s
<1> QED BY <1>1, <1>2 DEF Lined

(* Each step keeps the calls in line.                                      *)
LEMMA LineNext == TypeOK /\ InLine /\ [Next]_vars => InLine'
<1> SUFFICES ASSUME TypeOK, InLine, [Next]_vars PROVE InLine'
  OBVIOUS
<1>a. /\ {"ok", "failed", "error", "timeout", "cancelled"} \subseteq Answers
      /\ {"connecting", "sent", "running"} = OnConnection
  BY DEF Answers, OnConnection
<1>1. ASSUME NEW k \in Calls, Call(k) PROVE InLine'
  BY <1>1, CallInLine
<1>2. ASSUME NEW k \in Calls, QueueTimeout(k) \/ Starts(k) \/ Exits(k) \/ Kill(k)
      PROVE  InLine'
  BY <1>2, StayInLine DEF QueueTimeout, Starts, Exits, Kill
<1>3. ASSUME NEW k \in Calls, Skip(k) PROVE InLine'
  <2>1. Front(k) /\ Settle(k, "error") /\ prev' = prev
    BY <1>3 DEF Skip, Front
  <2> QED BY <1>a, <2>1, SettleInLine
<1>4. ASSUME NEW k \in Calls, Begin(k) PROVE InLine'
  <2>1. /\ Front(k) /\ place' = [place EXCEPT ![k] = "connecting"]
        /\ UNCHANGED <<prev, tail>>
    BY <1>4 DEF Begin, Front
  <2> QED BY <1>a, <2>1, MoveInLine
<1>5. ASSUME NEW k \in Calls, Connect(k) PROVE InLine'
  <2>1. /\ Front(k) /\ place' = [place EXCEPT ![k] = "sent"] /\ UNCHANGED <<prev, tail>>
    BY <1>5, <1>a DEF Connect, Front
  <2> QED BY <1>a, <2>1, MoveInLine
<1>6. ASSUME NEW k \in Calls, ConnectFails(k) \/ Refused(k) \/ NoResponse(k) PROVE InLine'
  <2>1. Front(k) /\ prev' = prev /\ (Settle(k, "error") \/ Recoverable(k))
    BY <1>6, <1>a DEF ConnectFails, Refused, NoResponse, Front
  <2> QED BY <1>a, <2>1, SettleInLine, RecoverInLine
<1>7. ASSUME NEW k \in Calls, Accepted(k) PROVE InLine'
  <2>1. Front(k) /\ prev' = prev
    BY <1>7, <1>a DEF Accepted, Front
  <2>2. \/ Settle(k, "cancelled")
        \/ place' = [place EXCEPT ![k] = "running"] /\ tail' = tail
    BY <1>7 DEF Accepted
  <2> QED BY <1>a, <2>1, <2>2, SettleInLine, MoveInLine
<1>8. ASSUME NEW k \in Calls, ExecCloses(k) \/ StreamCloses(k) PROVE InLine'
  <2>1. Front(k) /\ prev' = prev
    BY <1>8, <1>a DEF ExecCloses, StreamCloses, Front
  <2>2. PICK a \in {"ok", "failed", "error"} : Settle(k, a)
    BY <1>8 DEF ExecCloses, StreamCloses, Result, EndOfLost
  <2> QED BY <1>a, <2>1, <2>2, SettleInLine
<1>9. ASSUME NEW k \in Calls, ExecTimeout(k) \/ StreamTimeout(k) PROVE InLine'
  <2>1. Front(k) /\ Settle(k, "timeout") /\ prev' = prev
    BY <1>9, <1>a DEF ExecTimeout, StreamTimeout, Terminate, Front
  <2> QED BY <1>a, <2>1, SettleInLine
<1>10. ASSUME NEW k \in Calls, Abort(k) PROVE InLine'
  <2>1. CASE place[k] = "running"
    <3>1. Front(k) /\ Settle(k, "cancelled") /\ prev' = prev
      BY <1>10, <1>a, <2>1 DEF Abort, Terminate, Front
    <3> QED BY <1>a, <3>1, SettleInLine
  <2>2. CASE place[k] # "running"
    BY <1>10, <2>2, StayInLine DEF Abort
  <2> QED BY <2>1, <2>2
<1>11. CASE Drop
  BY <1>11, StayInLine DEF Drop
<1>12. CASE UNCHANGED vars
  BY <1>12, StayInLine DEF vars
<1> QED BY <1>1, <1>2, <1>3, <1>4, <1>5, <1>6, <1>7, <1>8, <1>9, <1>10, <1>11, <1>12
        DEF Next, Quiet

(* Two calls of a queue on the connection are both the first of its line.  *)
LEMMA FrontIsAlone == TypeOK /\ InLine => OneAtATime
<1> SUFFICES ASSUME TypeOK, InLine, NEW j \in Calls, NEW k \in Calls,
                    place[j] \in OnConnection, place[k] \in OnConnection,
                    QueueOf(j) = QueueOf(k)
             PROVE  j = k
  BY DEF OneAtATime
<1>1. QueueOf(k) \in Queues
  BY DEF QueueOf, Queues
<1>2. PICK n \in Nat : \E s \in [1..n -> Calls] : Line(QueueOf(k), n, s)
  BY <1>1 DEF InLine, Lined
<1>3. PICK s \in [1..n -> Calls] : Line(QueueOf(k), n, s)
  BY <1>2
<1>4. Front(j) /\ Front(k)
  BY DEF Front
<1> QED BY <1>3, <1>4, FrontIsFirst

(* At most one command of a queue is on the connection, for any number of  *)
(* calls, with whatever timeouts, retries and aborts.                      *)
THEOREM QueueInOrder == Spec => []OneAtATime
<1>1. Spec => []InLine
  BY LineInit, LineNext, TypeCorrect, PTL DEF Spec
<1> QED BY <1>1, FrontIsAlone, TypeCorrect, PTL
=============================================================================
