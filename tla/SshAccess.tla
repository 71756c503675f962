------------------------------ MODULE SshAccess ------------------------------
(***************************************************************************)
(* The SSH access policy of a host (ssh-services/ssh-access.ts).  A        *)
(* request replaces the managed drop-in of sshd, reloads the daemon, tests *)
(* a fresh connection and, for a temporary policy, leaves a timer on the   *)
(* host that puts the previous file back; an error after the file was      *)
(* written puts it back at once.  Requests, of several administrators or   *)
(* of an impatient one, take no lock; each command of a request is a step, *)
(* and so is each command of a timer's script.                             *)
(*                                                                         *)
(* A command that fails does so with or without its effect; MaxFaults      *)
(* bounds how many do.  The scripts of the timers do not fail.             *)
(***************************************************************************)
EXTENDS Naturals

CONSTANTS
  Requests,   \* PUT /servers/:id/ssh-access; also the tokens of their timers
  Desired,    \* the policies that are asked for
  Bases,      \* what sshd_config says without the managed file
  NoFile,     \* the managed file does not exist
  None,
  MaxFaults   \* bound on the commands that fail

Policy == [pubkey : BOOLEAN, password : BOOLEAN, root : {"no", "keys", "yes"}]
Account == [key : BOOLEAN, root : BOOLEAN]
File == Policy \cup {NoFile}
Directory == [previous : File, expected : File]

ASSUME ConstantsAssumption ==
  /\ Bases \subseteq Policy /\ NoFile \notin Policy /\ None \notin Directory
  /\ Desired \subseteq {p \in Policy : p.root # "yes"} /\ MaxFaults \in Nat

VARIABLES
  account,   \* how Doktainer itself logs in: with a key?  as root?
  base,      \* sshd_config and the drop-ins of others
  managed,   \* 00-doktainer.conf
  daemon,    \* the policy sshd has loaded
  dir,       \* dir[t]: rollback directory of t, with the file to put back and
             \* the (hash of the) file it may replace
  timer,     \* timer[t]: the unit of t and how far its script is
  req,       \* the requests
  disturbed, \* requests since whose begin somebody else wrote to the host
  faults
vars == <<account, base, managed, daemon, dir, timer, req, disturbed, faults>>
server == <<account, base>>
units == <<dir, timer>>

\* First values win in sshd, and the managed file comes first.
Effective(file) == IF file = NoFile THEN base ELSE file

Admits(policy) ==
  IF account.key THEN policy.pubkey /\ (account.root => policy.root # "no")
                 ELSE policy.password /\ (account.root => policy.root = "yes")

Steps == {"idle", "loaded", "read", "install", "reload", "test", "cancel", "schedule",
          "status", "restore", "restoreReload", "restoreTest", "done"}
Answers == {"none", "refused", "applied", "restored", "stuck", "error"}
Timers == {"none", "armed", "checked", "written", "over"}

Request == [pc : Steps, answer : Answers, revision : File, desired : Policy,
            temporary : BOOLEAN, previous : File]

TypeOK ==
  /\ account \in Account /\ base \in Policy
  /\ managed \in File /\ daemon \in Policy
  /\ dir \in [Requests -> Directory \cup {None}]
  /\ timer \in [Requests -> Timers]
  /\ req \in [Requests -> Request]
  /\ disturbed \subseteq Requests /\ faults \in 0..MaxFaults

\* Doktainer can log in, and the file, if there is one, has been loaded.
Init ==
  /\ account \in Account /\ base \in Bases
  /\ managed \in Desired \cup {NoFile}
  /\ daemon = Effective(managed) /\ Admits(daemon)
  /\ dir = [t \in Requests |-> None] /\ timer = [t \in Requests |-> "none"]
  /\ req = [r \in Requests |-> [pc |-> "idle", answer |-> "none", revision |-> NoFile,
                                desired |-> base, temporary |-> FALSE,
                                previous |-> NoFile]]
  /\ disturbed = {} /\ faults = 0

-----------------------------------------------------------------------------
At(r, step) == req[r].pc = step
Goto(r, step) == req' = [req EXCEPT ![r].pc = step]
Finish(r, answer) == req' = [req EXCEPT ![r].pc = "done", ![r].answer = answer]
Working(r) == req[r].pc \notin {"idle", "loaded", "done"}

Fault == faults < MaxFaults /\ faults' = faults + 1
Fine == UNCHANGED faults

\* x writes to the host, over what the other requests left or expect there.
Begun(r) == Working(r) \/ (At(r, "done") /\ req[r].answer # "refused")
Writes(x) == disturbed' = disturbed \cup {r \in Requests \ {x} : Begun(r)}

\* The administrator loads the snapshot, whose revision (a hash of all files)
\* stands here for the managed file.
Load(r) ==
  /\ At(r, "idle")
  /\ req' = [req EXCEPT ![r].pc = "loaded", ![r].revision = managed]
  /\ UNCHANGED <<server, managed, daemon, units, disturbed, faults>>

\* Mutant of Valid: the account is not looked at.
ValidForOthers(desired, temporary) ==
  /\ desired.pubkey \/ desired.password
  /\ temporary => desired.password /\ ~Effective(managed).password

\* validateSshAccessPolicy
Valid(desired, temporary) ==
  /\ desired.pubkey \/ desired.password
  /\ IF account.key THEN desired.pubkey ELSE desired.password
  /\ account.root => desired.root # "no" /\ account.key
  /\ temporary => /\ desired.password /\ account.key
                  /\ ~Effective(managed).password

Submit(r) ==
  /\ At(r, "loaded")
  /\ \E desired \in Desired, temporary \in BOOLEAN :
       IF req[r].revision = managed /\ Valid(desired, temporary)
       THEN req' = [req EXCEPT ![r].pc = "read", ![r].desired = desired,
                               ![r].temporary = temporary]
       ELSE Finish(r, "refused")
  /\ UNCHANGED <<server, managed, daemon, units, disturbed, faults>>

ReadPrevious(r) ==
  /\ At(r, "read")
  /\ \/ Fine /\ req' = [req EXCEPT ![r].pc = "install", ![r].previous = managed]
     \/ Fault /\ Finish(r, "refused")
  /\ UNCHANGED <<server, managed, daemon, units, disturbed>>

\* The script checks what it wrote and takes it back itself; its errors, a
\* timeout after the file was written among them, are outside the try block.
Install(r) ==
  /\ At(r, "install")
  /\ \/ Fine /\ managed' = req[r].desired /\ Goto(r, "reload")
     \/ Fault /\ managed' \in {managed, req[r].desired} /\ Finish(r, "error")
  /\ Writes(r)
  /\ UNCHANGED <<server, daemon, units>>

-----------------------------------------------------------------------------
\* The try block: an error goes to "restore".

Reload(r) ==
  /\ At(r, "reload")
  /\ \/ Fine /\ daemon' = Effective(managed) /\ Goto(r, "test")
     \/ Fault /\ daemon' \in {daemon, Effective(managed)} /\ Goto(r, "restore")
  /\ Writes(r)
  /\ UNCHANGED <<server, managed, units>>

\* testConnection: an isolated connection, so that the pooled one says nothing.
Test(r) ==
  /\ At(r, "test")
  /\ \/ Fine /\ Goto(r, IF Admits(daemon) THEN "cancel" ELSE "restore")
     \/ Fault /\ Goto(r, "restore")
  /\ UNCHANGED <<server, managed, daemon, units, disturbed>>

Stopped(S) ==
  [t \in Requests |-> IF t \in S /\ timer[t] # "none" THEN "over" ELSE timer[t]]
Deleted(S) == [t \in Requests |-> IF t \in S THEN None ELSE dir[t]]

\* Mutant of CancelTimers: the earlier timers are left alone.
CancelNothing(r) ==
  /\ At(r, "cancel")
  /\ Goto(r, IF req[r].temporary THEN "schedule" ELSE "status")
  /\ UNCHANGED <<server, managed, daemon, units, disturbed, faults>>

\* cancelTemporaryRollbacks stops the units, then deletes the directories.  It
\* does not look whether a unit could be stopped; without its directory a
\* script does nothing.
CancelTimers(r) ==
  /\ At(r, "cancel")
  /\ \/ /\ \/ Fine /\ timer' = Stopped(Requests)
           \/ Fault /\ \E S \in SUBSET Requests : timer' = Stopped(S)
        /\ dir' = Deleted(Requests)
        /\ Goto(r, IF req[r].temporary THEN "schedule" ELSE "status")
     \/ /\ Fault /\ \E S, D \in SUBSET Requests :
                    timer' = Stopped(S) /\ dir' = Deleted(D)
        /\ Goto(r, "restore")
  /\ Writes(r)
  /\ UNCHANGED <<server, managed, daemon>>

\* Mutant of Expected: the timer waits for the file it is to put back.
ExpectedPrevious(r) == req[r].previous
\* sha256sum "$MANAGED", when the timer is scheduled.
Expected(r) == managed

\* scheduleTemporaryRollback; without systemd-run, or without a managed file,
\* it fails.
Schedule(r) ==
  /\ At(r, "schedule")
  /\ LET Scheduled == /\ dir' = [dir EXCEPT ![r] = [previous |-> req[r].previous,
                                                    expected |-> Expected(r)]]
                      /\ timer' = [timer EXCEPT ![r] = "armed"]
     IN \/ Fine /\ managed # NoFile /\ Scheduled /\ Goto(r, "status")
        \/ Fine /\ managed = NoFile /\ UNCHANGED units /\ Goto(r, "restore")
        \/ Fault /\ (Scheduled \/ UNCHANGED units) /\ Goto(r, "restore")
  /\ Writes(r)
  /\ UNCHANGED <<server, managed, daemon>>

\* The effective state is read again; if that fails the administrator reads
\* that the policy could not be applied.
Status(r) ==
  /\ At(r, "status")
  /\ \/ Fine /\ Finish(r, "applied")
     \/ Fault /\ Finish(r, "error")
  /\ UNCHANGED <<server, managed, daemon, units, disturbed>>

-----------------------------------------------------------------------------
\* restoreManagedConfiguration; if that fails too, the administrator is told to
\* keep the session open.

Restore(r) ==
  /\ At(r, "restore")
  /\ \/ Fine /\ managed' = req[r].previous /\ Goto(r, "restoreReload")
     \/ Fault /\ managed' \in {managed, req[r].previous} /\ Finish(r, "stuck")
  /\ Writes(r)
  /\ UNCHANGED <<server, daemon, units>>

RestoreReload(r) ==
  /\ At(r, "restoreReload")
  /\ \/ Fine /\ daemon' = Effective(managed) /\ Goto(r, "restoreTest")
     \/ Fault /\ daemon' \in {daemon, Effective(managed)} /\ Finish(r, "stuck")
  /\ Writes(r)
  /\ UNCHANGED <<server, managed, units>>

RestoreTest(r) ==
  /\ At(r, "restoreTest")
  /\ \/ Fine /\ Finish(r, IF Admits(daemon) THEN "restored" ELSE "stuck")
     \/ Fault /\ Finish(r, "stuck")
  /\ UNCHANGED <<server, managed, daemon, units, disturbed>>

-----------------------------------------------------------------------------
\* The timers' scripts on the host.

TimerWrites(t) ==
  disturbed' = disturbed \cup {r \in Requests : Begun(r) /\ (r # t \/ Working(r))}

\* The time is over: the file must be the expected one.
TimerFires(t) ==
  /\ timer[t] = "armed"
  /\ IF dir[t] # None /\ managed # NoFile /\ dir[t].expected = managed
     THEN timer' = [timer EXCEPT ![t] = "checked"] /\ UNCHANGED dir
     ELSE /\ timer' = [timer EXCEPT ![t] = "over"]
          /\ dir' = IF managed # NoFile THEN [dir EXCEPT ![t] = None] ELSE dir
  /\ UNCHANGED <<server, managed, daemon, req, disturbed, faults>>

TimerInstalls(t) ==
  /\ timer[t] = "checked"
  /\ IF dir[t] # None /\ managed # NoFile
     THEN managed' = dir[t].previous /\ timer' = [timer EXCEPT ![t] = "written"]
     ELSE timer' = [timer EXCEPT ![t] = "over"] /\ UNCHANGED managed
  /\ TimerWrites(t)
  /\ UNCHANGED <<server, daemon, dir, req, faults>>

TimerReloads(t) ==
  /\ timer[t] = "written"
  /\ daemon' = Effective(managed)
  /\ timer' = [timer EXCEPT ![t] = "over"] /\ dir' = [dir EXCEPT ![t] = None]
  /\ TimerWrites(t)
  /\ UNCHANGED <<server, managed, req, faults>>

Timer(t) == TimerFires(t) \/ TimerInstalls(t) \/ TimerReloads(t)

Apply(r) ==
  \/ Submit(r) \/ ReadPrevious(r) \/ Install(r) \/ Reload(r) \/ Test(r)
  \/ CancelTimers(r) \/ Schedule(r) \/ Status(r)
  \/ Restore(r) \/ RestoreReload(r) \/ RestoreTest(r)

Next == \E r \in Requests : Load(r) \/ Apply(r) \/ Timer(r)

Spec == Init /\ [][Next]_vars

\* The host's clock runs, so a timer fires and its script goes on.
FairSpec == Spec /\ \A t \in Requests : WF_vars(Timer(t))

-----------------------------------------------------------------------------
\* Properties.

\* Neither the policy in force nor the one that the next reload would bring
\* locks Doktainer out, however requests, failures and timers interleave.
NotLockedOut == Admits(daemon) /\ Admits(Effective(managed))

\* What a request answers is what the host does, if nobody else wrote to it in
\* the meantime: an applied policy is the one in force, with a timer that puts
\* the previous one back if it is temporary and without any if it is not; after
\* "restored" the previous policy is in force.
Live(t) == timer[t] \in {"armed", "checked", "written"} /\ dir[t] # None
Answered(r) ==
  /\ req[r].answer = "applied" =>
       /\ managed = req[r].desired /\ daemon = req[r].desired
       /\ \A t \in Requests : Live(t) <=> t = r /\ req[r].temporary
       /\ req[r].temporary => dir[r].previous = req[r].previous
  /\ req[r].answer = "restored" =>
       managed = req[r].previous /\ daemon = Effective(req[r].previous)
AnswersTrue ==
  [][\A r \in Requests : At(r, "done")' /\ ~At(r, "done") /\ r \notin disturbed
                         => Answered(r)']_vars

\* A temporary policy that was applied is over some time, unless another request
\* has written to the host since.
TemporaryEnds ==
  \A r \in Requests :
    (At(r, "done") /\ req[r].answer = "applied" /\ req[r].temporary)
      ~> (daemon = Effective(req[r].previous) \/ r \in disturbed)

\* The inductive invariant: whatever may still be installed admits Doktainer ...
Installable ==
  /\ \A r \in Requests : Working(r) => Admits(req[r].desired)
  /\ \A r \in Requests :
       Working(r) /\ ~At(r, "read") => Admits(Effective(req[r].previous))
  /\ \A t \in Requests : dir[t] # None => Admits(Effective(dir[t].previous))

\* ... and a request that is alone finds on the host what it left there.
Alone(r) ==
  /\ req[r].pc \in {"reload", "test", "cancel", "schedule", "status"} =>
       managed = req[r].desired
  /\ req[r].pc \in {"test", "cancel", "schedule", "status"} => daemon = req[r].desired
  /\ At(r, "schedule") => req[r].temporary
  /\ req[r].pc \in {"schedule", "status"} =>
       \A t \in Requests : t # r \/ At(r, "schedule") \/ ~req[r].temporary => ~Live(t)
  /\ At(r, "status") /\ req[r].temporary =>
       /\ timer[r] \in {"armed", "checked"}
       /\ dir[r] = [previous |-> req[r].previous, expected |-> managed]
  /\ req[r].pc \in {"restoreReload", "restoreTest"} => managed = req[r].previous
  /\ At(r, "restoreTest") => daemon = Effective(req[r].previous)
  /\ ~At(r, "done") => req[r].answer = "none"
AloneKeeps == \A r \in Requests \ disturbed : Alone(r)

IInv == TypeOK /\ NotLockedOut /\ Installable /\ AloneKeeps
=============================================================================
