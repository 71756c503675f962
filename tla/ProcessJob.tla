----------------------------- MODULE ProcessJob -----------------------------
(***************************************************************************)
(* A background job (services/process-job.service.ts): a deployment or a   *)
(* rebuild that the backend runs by injecting the request into itself      *)
(* (runInjectedContainerJob in routes/containers.ts), while clients cancel *)
(* it and follow its log over event streams.  An action is what happens in *)
(* one turn of the event loop.                                             *)
(***************************************************************************)
EXTENDS Integers, Sequences

CONSTANTS Streams,  \* clients that follow the job
          MaxLogs,  \* MAX_LOGS_PER_JOB
          MaxLines  \* bound on the lines the job writes

ASSUME LogAssumption == MaxLogs \in Nat \ {0} /\ MaxLines \in Nat

VARIABLES
  status,   \* ProcessJobStatus
  known,    \* the job is in the map jobs
  runner,   \* runInjectedContainerJob: "scheduled", "running" or "over"
  cancel,   \* job.cancel is set
  aborted,  \* the command's abort signal was raised
  asked,    \* a cancellation was answered with "Cancellation requested"
  nextId,   \* nextLogId
  logs,     \* ids of the kept log entries
  stream,   \* stream[s]: "none", "open", "ended" by the server, "closed" by s
  got       \* got[s]: ids of the log entries sent to s

jobVars == <<status, known, runner, cancel, aborted, asked, nextId, logs, stream, got>>

Terminal == {"success", "error", "cancelled"}

JobTypeOK ==
  /\ status \in {"queued", "running", "cancelling"} \cup Terminal
  /\ known \in BOOLEAN /\ cancel \in BOOLEAN /\ aborted \in BOOLEAN /\ asked \in BOOLEAN
  /\ runner \in {"scheduled", "running", "over"}
  /\ nextId \in Nat
  /\ logs \in Seq(Nat) /\ Len(logs) <= MaxLogs
  /\ stream \in [Streams -> {"none", "open", "ended", "closed"}]
  /\ got \in [Streams -> Seq(Nat)]

JobInit == /\ status = "queued" /\ known = TRUE /\ runner = "scheduled"
           /\ cancel = FALSE /\ aborted = FALSE /\ asked = FALSE
           /\ nextId = 1 /\ logs = <<>>
           /\ stream = [s \in Streams |-> "none"]
           /\ got = [s \in Streams |-> <<>>]

(* Mutant of Kept: old entries are not dropped.                            *)
KeptAll(entries) == entries

(* The newest MaxLogs entries.                                             *)
Kept(entries) == IF Len(entries) <= MaxLogs THEN entries
                 ELSE SubSeq(entries, Len(entries) - MaxLogs + 1, Len(entries))

(* appendProcessJobLog: one line is kept and sent to the subscribers.      *)
LogLine == /\ nextId' = nextId + 1
           /\ logs' = Kept(Append(logs, nextId))
           /\ got' = [s \in Streams |-> IF stream[s] = "open"
                                        THEN Append(got[s], nextId) ELSE got[s]]

-----------------------------------------------------------------------------
(* The runner starts: it is cancelled already, or sends its request.  The  *)
(* routes start it in the turn that creates the job, before a client has   *)
(* the id; the service leaves more time, and so does the model.            *)
Begin ==
  /\ runner = "scheduled"
  /\ LogLine
  /\ IF status = "cancelling"
     THEN status' = "cancelled" /\ runner' = "over" /\ UNCHANGED cancel
     ELSE status' = "running" /\ runner' = "running" /\ cancel' = TRUE
  /\ UNCHANGED <<known, aborted, asked, stream>>

(* A command of the request writes a line.                                 *)
Output == /\ runner = "running"
          /\ nextId <= MaxLines
          /\ LogLine
          /\ UNCHANGED <<status, known, runner, cancel, aborted, asked, stream>>

(* Mutant of Outcome: what the request answered decides.                   *)
OutcomeOfRequest(answer) ==
  CASE answer = "aborted" -> "cancelled"
    [] answer = "failed"  -> "error"
    [] answer = "ok"      -> "success"

(* A requested cancellation decides, even if the request went through.     *)
Outcome(answer) ==
  IF status = "cancelling" \/ answer = "aborted" THEN "cancelled"
  ELSE IF answer = "failed" THEN "error" ELSE "success"

(* The request returns: it went through, failed, or its command was aborted. *)
Return ==
  /\ runner = "running"
  /\ \E answer \in {"ok", "failed"} \cup IF aborted THEN {"aborted"} ELSE {} :
       status' = Outcome(answer)
  /\ LogLine
  /\ runner' = "over"
  /\ UNCHANGED <<known, cancel, aborted, asked, stream>>

-----------------------------------------------------------------------------
(* Mutant of Cancellable: a finished job can be cancelled.                 *)
CancellableAlways == status # "cancelling"

Cancellable == status \in {"queued", "running"}

(* POST /jobs/:jobId/cancel.  The abort function is called, if it is set   *)
(* already; a job that is cancelled or about to be is not cancelled again. *)
Cancel ==
  /\ known
  /\ IF Cancellable
     THEN /\ status' = "cancelling" /\ asked' = TRUE
          /\ aborted' = cancel
          /\ LogLine
     ELSE /\ asked' = (asked \/ status \in {"cancelling", "cancelled"})
          /\ UNCHANGED <<status, aborted, nextId, logs, got>>
  /\ UNCHANGED <<known, runner, cancel, stream>>

(* Mutant of Open: the client is subscribed without the earlier entries.   *)
OpenWithoutLogs(s) ==
  /\ known /\ stream[s] = "none"
  /\ stream' = [stream EXCEPT ![s] = "open"]
  /\ UNCHANGED <<status, known, runner, cancel, aborted, asked, nextId, logs, got>>

(* GET /jobs/:jobId/stream: the kept entries are sent, and the client is   *)
(* subscribed in the same turn.                                            *)
Open(s) ==
  /\ known /\ stream[s] = "none"
  /\ stream' = [stream EXCEPT ![s] = "open"]
  /\ got' = [got EXCEPT ![s] = logs]
  /\ UNCHANGED <<status, known, runner, cancel, aborted, asked, nextId, logs>>

(* Mutant of End: the timer does not look for a cancelled job.             *)
EndUnlessCancelled(s) ==
  /\ stream[s] = "open" /\ status \in {"success", "error"}
  /\ stream' = [stream EXCEPT ![s] = "ended"]
  /\ UNCHANGED <<status, known, runner, cancel, aborted, asked, nextId, logs, got>>

(* The interval timer of the stream ends it once the job has ended.        *)
End(s) ==
  /\ stream[s] = "open" /\ status \in Terminal
  /\ stream' = [stream EXCEPT ![s] = "ended"]
  /\ UNCHANGED <<status, known, runner, cancel, aborted, asked, nextId, logs, got>>

(* The client goes away.                                                   *)
Close(s) ==
  /\ stream[s] = "open"
  /\ stream' = [stream EXCEPT ![s] = "closed"]
  /\ UNCHANGED <<status, known, runner, cancel, aborted, asked, nextId, logs, got>>

(* pruneJobs, an hour after the last change of the job.                    *)
Prune ==
  /\ known /\ status \in Terminal
  /\ \A s \in Streams : stream[s] # "open"
  /\ known' = FALSE
  /\ UNCHANGED <<status, runner, cancel, aborted, asked, nextId, logs, stream, got>>

JobNext == \/ Begin \/ Output \/ Return \/ Cancel \/ Prune
        \/ \E s \in Streams : Open(s) \/ End(s) \/ Close(s)

JobSpec == JobInit /\ [][JobNext]_jobVars

(* A scheduled turn of the event loop comes; an interval timer fires.      *)
(* That the request returns is not assumed: exec inside a job has neither  *)
(* a timeout nor the abort signal (commands.ts:286), so a command that     *)
(* never ends keeps its job, and cancelling the job does not end it.       *)
FairJobSpec == /\ JobSpec
               /\ WF_jobVars(Begin)
               /\ \A s \in Streams : WF_jobVars(End(s))

-----------------------------------------------------------------------------
(* Who was told "Cancellation requested" never sees the job succeed or     *)
(* fail afterwards, wherever the cancellation falls: in the queue, between *)
(* two commands, or when the request has just been answered; and while the *)
(* request runs, a pending cancellation has raised the abort signal of its *)
(* commands.                                                               *)
CancelHonoured ==
  /\ asked => status \in {"cancelling", "cancelled"}
  /\ status = "cancelling" /\ runner = "running" => aborted

(* A finished job keeps its outcome.                                       *)
OutcomeFinal == [][(status \in Terminal) => status' = status]_jobVars

(* A stream that the server ended has carried the log without a gap or a   *)
(* repetition up to its last line, from the first line on or, for a late   *)
(* client, from the oldest entry that is kept.                             *)
StreamComplete ==
  \A s \in Streams :
    stream[s] = "ended" =>
      /\ \A i \in 1..Len(got[s]) : got[s][i] = nextId - 1 - Len(got[s]) + i
      /\ Len(got[s]) >= IF nextId - 1 <= MaxLogs THEN nextId - 1 ELSE MaxLogs

(* Nothing but a request that does not return keeps a job or its clients.  *)
(* A cancellation that comes before the runner ends the job; whichever way *)
(* the runner ended (cancelled early, aborted, failed, gone through), the  *)
(* job is at an end, and every stream of it ends, those that joined before *)
(* and after, unless its client leaves first.                              *)
EndsWithRunner ==
  /\ asked /\ runner = "scheduled" ~> status = "cancelled"
  /\ runner # "running" ~> status \in Terminal \/ runner = "running"
  /\ \A s \in Streams : stream[s] = "open" /\ runner = "over" ~> stream[s] # "open"
=============================================================================
