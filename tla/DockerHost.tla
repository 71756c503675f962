----------------------------- MODULE DockerHost -----------------------------
(***************************************************************************)
(* The Docker daemon of one server as the backend sees it through SSH      *)
(* (src/server/services/ssh-services/docker-containers.ts): the containers *)
(* of one application, addressed by id or by name, and what a command that *)
(* is sent may do.  A command may fail without effect, and it may take     *)
(* effect although its caller sees an error (the SSH call timed out).      *)
(***************************************************************************)
CONSTANTS Ids,    \* container ids Docker may assign
          Absent  \* no container with this id

(* An outcome: what the caller sees ("gone" is an error that says that     *)
(* there is no such container), the containers after the command, and      *)
(* whether a fault of the connection or the daemon was needed for it.      *)
Outcome(answer, d, fault) == [answer |-> answer, docker |-> d, fault |-> fault]

Matches(d, ref) == {i \in Ids : d[i] # Absent /\ (i = ref \/ d[i].name = ref)}

Found(d, ref) == Matches(d, ref) # {}

NameTaken(d, name) == \E i \in Ids : d[i] # Absent /\ d[i].name = name

Running(d, ref) == \E i \in Matches(d, ref) : d[i].state = "running"

(* Docker restarts a container whose process ends, if its policy says so:  *)
(* the container is up, but it does not run.                               *)
UpStates == {"running", "restarting"}

Up(d, ref) == \E i \in Matches(d, ref) : d[i].state \in UpStates

(* A command whose effect turns d into e.                                  *)
Attempt(d, e) == {Outcome("ok", e, 0), Outcome("error", d, 1),
                  Outcome("error", e, 1)}

Stopped(d, ref) ==
  [i \in Ids |-> IF i \in Matches(d, ref) /\ d[i].state \in UpStates
                 THEN [d[i] EXCEPT !.state = "exited"] ELSE d[i]]

Removed(d, ref) == [i \in Ids |-> IF i \in Matches(d, ref) THEN Absent ELSE d[i]]

(* docker stop                                                             *)
StopOutcomes(d, ref) ==
  IF Found(d, ref) THEN Attempt(d, Stopped(d, ref)) ELSE {Outcome("gone", d, 0)}

(* docker start and docker restart; they fail as docker run does, and what *)
(* they start may end again and again.                                     *)
Started(d, ref, state) ==
  [i \in Ids |-> IF i \in Matches(d, ref) THEN [d[i] EXCEPT !.state = state] ELSE d[i]]

StartOutcomes(d, ref) ==
  IF Found(d, ref)
  THEN Attempt(d, Started(d, ref, "running")) \cup {Outcome("ok", Started(d, ref, "restarting"), 1)}
  ELSE {Outcome("gone", d, 0)}

(* docker rm, without -f: it refuses to remove a container that is up.     *)
RmOutcomes(d, ref) ==
  IF ~Found(d, ref) THEN {Outcome("gone", d, 0)}
  ELSE IF Up(d, ref) THEN {Outcome("error", d, 0)}
  ELSE Attempt(d, Removed(d, ref))

(* docker run -d: it refuses a name that is taken; a failure to start (a   *)
(* port in use, a bad command) leaves a created container behind, and an   *)
(* application that starts may exit at once, or be restarted by Docker.    *)
RunOutcomes(d, id, name, image) ==
  LET With(state) == [d EXCEPT ![id] = [name |-> name, image |-> image,
                                        state |-> state]]
  IN IF NameTaken(d, name) THEN {Outcome("error", d, 0)}
     ELSE Attempt(d, With("running"))
            \cup {Outcome("error", With("created"), 1), Outcome("ok", With("exited"), 1),
                  Outcome("ok", With("restarting"), 1)}

(* docker rename                                                           *)
RenameOutcomes(d, ref, name) ==
  IF NameTaken(d, name) \/ ~Found(d, ref)
  THEN {Outcome("error", d, 0)}
  ELSE Attempt(d, [i \in Ids |-> IF i \in Matches(d, ref)
                                 THEN [d[i] EXCEPT !.name = name] ELSE d[i]])

(* waitForDockerHealth: a container that does not run is not healthy; one  *)
(* that runs is, unless its health check fails or cannot be read in time.  *)
HealthOutcomes(d, ref) ==
  IF Running(d, ref) THEN {Outcome("ok", d, 0), Outcome("error", d, 1)}
  ELSE {Outcome("error", d, 0)}
=============================================================================
