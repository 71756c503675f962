------------------------ MODULE RollbackRuntime_proofs ------------------------
(***************************************************************************)
(* Proofs about RollbackRuntime for any bounds on the faults: a rollback   *)
(* reports what is on the host, records it, and survives one fault.        *)
(***************************************************************************)
EXTENDS RollbackRuntime, TLAPS

Removing(s) == pc = "removing" /\ stage = s
Ended == {"recordRow", "recordFailure", "done"}

(* What each container can be, whatever state it is in; Docker gives a     *)
(* name to one container at a time.                                        *)
HostInv ==
  /\ docker \in [Ids -> Containers \cup {Absent}]
  /\ docker[Old] # Absent => docker[Old].name = App /\ docker[Old].image = Prev
  /\ docker[New] # Absent => /\ docker[New].image = Target
                             /\ ~Atomic => docker[New].name = App
  /\ docker[Again] # Absent => docker[Again].name = App /\ docker[Again].image = Prev
  /\ \A i, j \in Ids : docker[i] # Absent /\ docker[j] # Absent /\ i # j
                         => docker[i].name # docker[j].name

StartInv ==
  /\ was.docker[New] = Absent /\ was.docker[Again] = Absent
  /\ was.docker \in [Ids -> Containers \cup {Absent}]
  /\ was.row.dockerId \in {Old, Stale, NoRef}

(* Where the rollback is tells what it has touched and which candidate it  *)
(* knows.                                                                  *)
ControlInv ==
  /\ mode = "OPEN" <=> pc \notin Ended
  /\ mode = "SUCCESS" => pc = "done"
  /\ candidate \in {NoRef, New}
  /\ pc \in {"prepare", "launch"} \/ Removing("recreate") => candidate = NoRef
  /\ pc \in {"probe", "rename", "finalize", "succeed"} \/ Removing("atomic")
       => candidate = New
  /\ touched /\ candidate = NoRef => ~Atomic
  /\ ~touched => Atomic \/ pc = "prepare" \/ mode = "NONE"
  /\ pc = "prepare" \/ Removing("abandon") \/ pc = "checkPrevious" => ~touched
  /\ pc \in {"launch", "probe"} => (touched <=> ~Atomic)
  /\ pc \in {"rename", "finalize", "succeed", "relaunch", "checkRecovered"} => touched
  /\ Removing("recreate") => touched /\ ~Atomic
  /\ Removing("atomic") => touched /\ Atomic
  /\ Removing("recover") => touched
  /\ pc = "rename" => Atomic

(* Which references stopAndRemoveContainer still has to try: those of a    *)
(* container that is there are among them.                                 *)
TodoInv ==
  /\ pc = "removing" => stage # "none"
  /\ Removing("recreate") \/ Removing("atomic") =>
       /\ todo \in {<<was.row.dockerId, App>>, <<App>>, <<>>}
       /\ todo = <<was.row.dockerId, App>> => was.row.dockerId # NoRef
       /\ todo = <<>> => docker[Old] = Absent
  /\ Removing("abandon") =>
       /\ todo \in {<<New, Temp>>, <<Temp>>, <<>>}
       /\ todo = <<>> => docker[New] = Absent
  /\ Removing("recover") =>
       /\ todo \in {<<New, Temp, App>>, <<Temp, App>>, <<App>>, <<>>}
       /\ todo = <<New, Temp, App>> => candidate = New
       /\ docker[New] # Absent => \/ todo = <<New, Temp, App>>
                                  \/ candidate = NoRef /\ todo # <<>>
       /\ ~Atomic /\ docker[Old] # Absent => candidate = NoRef /\ todo # <<>>

(* What is on the host at each point.                                      *)
PlaceInv ==
  /\ ~touched => /\ docker[Old] = was.docker[Old]
                 /\ docker[New] # Absent => docker[New].name = Temp
  /\ docker[Again] # Absent => pc \in {"checkRecovered"} \cup Ended
  /\ pc \in {"prepare", "launch"} \/ Removing("recreate") => docker[New] = Absent
  /\ pc \in {"launch", "probe"} /\ ~Atomic => docker[Old] = Absent
  /\ pc = "probe" => docker[New] # Absent
  /\ Removing("atomic") => Healthy(New, Temp, Target)
  /\ pc = "rename" => Healthy(New, Temp, Target) /\ docker[Old] = Absent
  /\ pc \in {"finalize", "succeed"} => Healthy(New, App, Target) /\ docker[Old] = Absent
  /\ pc = "checkPrevious" => docker[New] = Absent
  /\ pc = "relaunch" => docker[New] = Absent /\ (~Atomic => docker[Old] = Absent)
  /\ pc = "checkRecovered" => /\ docker[Again] # Absent
                              /\ docker[Old] = Absent /\ docker[New] = Absent

(* What the rollback of an application with ports has cost in faults.      *)
Cost == faults + dbFaults + (IF owned THEN 0 ELSE 1)

CostInv ==
  ~Atomic =>
    /\ Removing("recreate") /\ stopTried /\ todo # <<>> /\ D!Up(docker, Head(todo))
         => Cost >= 1
    /\ pc = "probe" /\ docker[New].state # "running" => Cost >= 1
    /\ Removing("recover") \/ pc \in {"relaunch", "checkRecovered"} => Cost >= 1
    /\ Removing("recover") /\ stopTried /\ todo # <<>> /\ D!Up(docker, Head(todo))
         => Cost >= 2
    /\ pc = "checkRecovered" /\ docker[Again].state # "running" => Cost >= 2
    /\ mode = "FAILED" => Cost >= 2

(* What the rows say of the outcome.                                       *)
RecordInv ==
  /\ pc = "succeed" \/ mode = "SUCCESS" => row = NewRow /\ candidate = New
  /\ mode = "UNCHANGED" => recovered = FirstRef(CurrentRefs) /\ D!Running(docker, recovered)
  /\ mode = "RECREATED" => recovered = Again
  /\ pc = "recordFailure" \/ (pc = "done" /\ dbFaults = 0) =>
       /\ mode = "FAILED" => row.status = "ERROR"
       /\ mode \in {"UNCHANGED", "RECREATED"} =>
            row = [image |-> Prev, status |-> "RUNNING", dockerId |-> Shortened(recovered)]
  /\ dbFaults = 0 /\ pc = "done" => deployment # "RUNNING"

IInv == /\ TypeOK /\ HostInv /\ StartInv /\ ControlInv /\ TodoInv /\ PlaceInv
        /\ OutcomeTruth /\ CostInv /\ RecordInv

-----------------------------------------------------------------------------
(* What the commands of the host do, in the terms of the invariant.        *)
Alike(c, d) == /\ c = Absent <=> d = Absent
               /\ c # Absent => c.name = d.name /\ c.image = d.image

(* A reference of the rollback finds a container by its id or its name.    *)
LEMMA Finds ==
  ASSUME HostInv, NEW ref \in Refs
  PROVE  /\ ref = Stale => D!Matches(docker, ref) = {}
         /\ \A i \in Ids : i \in D!Matches(docker, i) <=> docker[i] # Absent
         /\ \A i \in Ids : ref \in Ids /\ ref # i => i \notin D!Matches(docker, ref)
         /\ ref \in {App, Temp} => \A i \in Ids :
              i \in D!Matches(docker, ref) <=> docker[i] # Absent /\ docker[i].name = ref
         /\ \A i, j \in D!Matches(docker, ref) : i = j
  BY ConstantsAssumption DEF HostInv, Refs, Ids, Containers, D!Matches

LEMMA StopStep ==
  ASSUME HostInv, NEW ref, NEW answer, Docker(D!StopOutcomes(docker, ref), answer),
         faults \in 0..MaxFaults
  PROVE  /\ docker' \in [Ids -> Containers \cup {Absent}]
         /\ \A i \in Ids : Alike(docker[i], docker'[i])
         /\ \A i \in Ids \ D!Matches(docker, ref) : docker'[i] = docker[i]
         /\ faults' \in {faults, faults + 1} /\ faults' \in 0..MaxFaults
         /\ faults' = faults => ~D!Up(docker', ref)
<1> DEFINE d == D!Stopped(docker, ref)
<1>a. ASSUME NEW c \in Containers
      PROVE  LET e == [c EXCEPT !.state = "exited"]
             IN /\ e \in Containers /\ e # Absent /\ c # Absent /\ e.state = "exited"
                /\ e.name = c.name /\ e.image = c.image
  BY ConstantsAssumption DEF Containers
<1>b. ASSUME NEW i \in Ids
      PROVE  d[i] \in Containers \cup {Absent} /\ Alike(docker[i], d[i])
  <2>1. CASE d[i] = docker[i]
    BY <2>1 DEF HostInv, Alike
  <2>2. CASE d[i] # docker[i]
    <3>1. docker[i] \in Containers /\ d[i] = [docker[i] EXCEPT !.state = "exited"]
      BY <2>2 DEF HostInv, D!Stopped, D!Matches
    <3> QED BY <1>a, <3>1 DEF Alike
  <2> QED BY <2>1, <2>2
<1>1. d \in [Ids -> Containers \cup {Absent}]
  BY <1>b DEF D!Stopped
<1>2. \A i \in Ids : Alike(docker[i], d[i])
  BY <1>b
<1>3. \A i \in Ids \ D!Matches(docker, ref) : d[i] = docker[i]
  BY DEF D!Stopped
<1>4. ~D!Up(d, ref)
  <2>1. D!Matches(d, ref) = D!Matches(docker, ref)
    BY <1>1, <1>2 DEF D!Matches, Alike
  <2>2. \A i \in D!Matches(docker, ref) : docker[i] \in Containers /\ d[i].state \notin D!UpStates
    <3> SUFFICES ASSUME NEW i \in D!Matches(docker, ref)
                 PROVE  docker[i] \in Containers /\ d[i].state \notin D!UpStates
      OBVIOUS
    <3>1. i \in Ids /\ docker[i] \in Containers
      BY DEF D!Matches, HostInv
    <3> QED BY <1>a, <3>1 DEF D!Stopped, D!UpStates
  <2> QED BY <2>1, <2>2 DEF D!Up
<1>5. ~D!Found(docker, ref) => ~D!Up(docker, ref)
  BY DEF D!Found, D!Up
<1>6. \/ docker' = d /\ faults' \in {faults, faults + 1}
      \/ docker' = docker /\ faults' = faults + 1
      \/ docker' = docker /\ faults' = faults /\ ~D!Found(docker, ref)
  BY DEF Docker, D!StopOutcomes, D!Attempt, D!Outcome
<1>7. faults' \in 0..MaxFaults
  BY <1>6, ConstantsAssumption DEF Docker
<1>8. docker \in [Ids -> Containers \cup {Absent}] /\ \A i \in Ids : Alike(docker[i], docker[i])
  BY DEF HostInv, Alike
<1> HIDE DEF d
<1> QED BY <1>1, <1>2, <1>3, <1>4, <1>5, <1>6, <1>7, <1>8

LEMMA RmStep ==
  ASSUME HostInv, NEW ref, NEW answer, Docker(D!RmOutcomes(docker, ref), answer),
         faults \in 0..MaxFaults
  PROVE  /\ docker' \in [Ids -> Containers \cup {Absent}]
         /\ \A i \in Ids : docker'[i] \in {docker[i], Absent}
         /\ \A i \in Ids \ D!Matches(docker, ref) : docker'[i] = docker[i]
         /\ faults' \in {faults, faults + 1} /\ faults' \in 0..MaxFaults
         /\ answer = "ok" => /\ \A i \in D!Matches(docker, ref) : docker'[i] = Absent
                             /\ D!Matches(docker, ref) # {} /\ faults' = faults
         /\ answer = "gone" => /\ docker' = docker /\ faults' = faults
                               /\ D!Matches(docker, ref) = {}
         /\ answer = "error" /\ faults' = faults => D!Up(docker, ref)
<1> DEFINE d == D!Removed(docker, ref)
<1>1. /\ d \in [Ids -> Containers \cup {Absent}]
      /\ \A i \in Ids : d[i] \in {docker[i], Absent}
      /\ \A i \in Ids \ D!Matches(docker, ref) : d[i] = docker[i]
      /\ \A i \in D!Matches(docker, ref) : d[i] = Absent
  BY DEF HostInv, D!Removed, D!Matches
<1>2. docker \in [Ids -> Containers \cup {Absent}]
  BY DEF HostInv
<1>3. \/ answer = "gone" /\ docker' = docker /\ faults' = faults /\ ~D!Found(docker, ref)
      \/ answer = "error" /\ docker' = docker /\ faults' = faults /\ D!Up(docker, ref)
      \/ answer = "ok" /\ docker' = d /\ faults' = faults /\ D!Found(docker, ref)
      \/ answer = "error" /\ docker' \in {docker, d} /\ faults' = faults + 1
  BY DEF Docker, D!RmOutcomes, D!Attempt, D!Outcome
<1>4. faults' \in 0..MaxFaults
  BY <1>3, ConstantsAssumption DEF Docker
<1> HIDE DEF d
<1> QED BY <1>1, <1>2, <1>3, <1>4 DEF D!Found

LEMMA RunStep ==
  ASSUME HostInv, NEW id \in Ids, NEW name \in {App, Temp}, NEW image \in {Prev, Target},
         NEW answer, Docker(D!RunOutcomes(docker, id, name, image), answer),
         faults \in 0..MaxFaults
  PROVE  /\ docker' \in [Ids -> Containers \cup {Absent}]
         /\ \A i \in Ids \ {id} : docker'[i] = docker[i]
         /\ \/ docker'[id] = docker[id] /\ answer = "error"
            \/ /\ docker'[id].name = name /\ docker'[id].image = image
               /\ docker'[id] # Absent
               /\ \A i \in Ids : docker[i] # Absent => docker[i].name # name
         /\ faults' \in {faults, faults + 1} /\ faults' \in 0..MaxFaults
         /\ answer = "ok" => docker'[id] # Absent
         /\ answer = "ok" /\ docker'[id].state # "running" => faults' = faults + 1
         /\ answer = "error" /\ faults' = faults => D!NameTaken(docker, name)
<1> DEFINE Made(state) == [name |-> name, image |-> image, state |-> state]
<1>1. \/ answer = "error" /\ docker' = docker /\ faults' = faults /\ D!NameTaken(docker, name)
      \/ answer = "error" /\ docker' = docker /\ faults' = faults + 1
      \/ /\ ~D!NameTaken(docker, name) /\ answer \in {"ok", "error"}
         /\ \E state \in {"running", "created", "exited", "restarting"} :
              /\ docker' = [docker EXCEPT ![id] = Made(state)]
              /\ \/ faults' = faults + 1
                 \/ faults' = faults /\ state = "running" /\ answer = "ok"
  <2>1. PICK o \in D!RunOutcomes(docker, id, name, image) :
          o.answer = answer /\ faults' = faults + o.fault /\ docker' = o.docker
    BY DEF Docker
  <2>2. CASE D!NameTaken(docker, name)
    BY <2>1, <2>2 DEF D!RunOutcomes, D!Outcome
  <2>3. CASE ~D!NameTaken(docker, name)
    <3> DEFINE With(state) == [docker EXCEPT ![id] = Made(state)]
    <3>1. o \in {D!Outcome("ok", With("running"), 0), D!Outcome("error", docker, 1),
                 D!Outcome("error", With("running"), 1), D!Outcome("error", With("created"), 1),
                 D!Outcome("ok", With("exited"), 1), D!Outcome("ok", With("restarting"), 1)}
      BY <2>1, <2>3 DEF D!RunOutcomes, D!Attempt
    <3> HIDE DEF With
    <3>2. \/ answer = "error" /\ docker' = docker /\ faults' = faults + 1
          \/ /\ answer \in {"ok", "error"}
             /\ \E state \in {"running", "created", "exited", "restarting"} :
                  /\ docker' = With(state)
                  /\ \/ faults' = faults + 1
                     \/ faults' = faults /\ state = "running" /\ answer = "ok"
      BY <2>1, <3>1 DEF D!Outcome
    <3> QED BY <2>3, <3>2 DEF With
  <2> QED BY <2>2, <2>3
<1>2. faults' \in 0..MaxFaults
  BY <1>1, ConstantsAssumption DEF Docker
<1>3. docker \in [Ids -> Containers \cup {Absent}]
  BY DEF HostInv
<1>4. \A state \in {"running", "created", "exited", "restarting"} :
        /\ Made(state) \in Containers /\ Made(state) # Absent
        /\ Made(state).name = name /\ Made(state).image = image /\ Made(state).state = state
  BY ConstantsAssumption DEF Containers
<1>5. CASE /\ ~D!NameTaken(docker, name) /\ answer \in {"ok", "error"}
           /\ \E state \in {"running", "created", "exited", "restarting"} :
                /\ docker' = [docker EXCEPT ![id] = Made(state)]
                /\ \/ faults' = faults + 1
                   \/ faults' = faults /\ state = "running" /\ answer = "ok"
  <2>1. PICK state \in {"running", "created", "exited", "restarting"} :
              /\ docker' = [docker EXCEPT ![id] = Made(state)]
              /\ \/ faults' = faults + 1
                 \/ faults' = faults /\ state = "running" /\ answer = "ok"
    BY <1>5
  <2>2. docker'[id] = Made(state) /\ \A i \in Ids \ {id} : docker'[i] = docker[i]
    BY <1>3, <2>1
  <2>3. docker' \in [Ids -> Containers \cup {Absent}]
    BY <1>3, <1>4, <2>1
  <2> HIDE DEF Made
  <2> QED BY <1>2, <1>4, <1>5, <2>1, <2>2, <2>3 DEF D!NameTaken
<1> QED BY <1>1, <1>2, <1>3, <1>5

LEMMA RenameStep ==
  ASSUME HostInv, NEW answer, docker[New] # Absent, docker[New].name = Temp,
         Docker(D!RenameOutcomes(docker, Temp, App), answer), faults \in 0..MaxFaults
  PROVE  /\ docker' \in [Ids -> Containers \cup {Absent}]
         /\ \A i \in Ids \ {New} : docker'[i] = docker[i]
         /\ docker'[New] \in {docker[New], [docker[New] EXCEPT !.name = App]}
         /\ docker'[New] # docker[New] \/ answer = "ok" =>
              /\ docker'[New] = [docker[New] EXCEPT !.name = App]
              /\ \A i \in Ids : docker[i] # Absent => docker[i].name # App
         /\ faults' \in {faults, faults + 1} /\ faults' \in 0..MaxFaults
<1> DEFINE d == [i \in Ids |-> IF i \in D!Matches(docker, Temp)
                               THEN [docker[i] EXCEPT !.name = App] ELSE docker[i]]
<1>1. \A i \in Ids : i \in D!Matches(docker, Temp) <=> i = New
  BY Finds DEF HostInv, Refs, Ids
<1>2. /\ d \in [Ids -> Containers \cup {Absent}]
      /\ d[New] = [docker[New] EXCEPT !.name = App] /\ \A i \in Ids \ {New} : d[i] = docker[i]
  BY <1>1 DEF HostInv, Containers, Ids
<1>3. \/ docker' = docker /\ answer = "error" /\ faults' \in {faults, faults + 1}
      \/ docker' = d /\ ~D!NameTaken(docker, App) /\ faults' \in {faults, faults + 1}
  BY DEF Docker, D!RenameOutcomes, D!Attempt, D!Outcome
<1>4. faults' \in 0..MaxFaults
  BY <1>3, ConstantsAssumption DEF Docker
<1>5. docker \in [Ids -> Containers \cup {Absent}]
  BY DEF HostInv
<1> HIDE DEF d
<1> QED BY <1>2, <1>3, <1>4, <1>5 DEF D!NameTaken

LEMMA HealthStep ==
  ASSUME NEW ref, NEW answer, Docker(D!HealthOutcomes(docker, ref), answer),
         faults \in 0..MaxFaults
  PROVE  /\ docker' = docker
         /\ faults' \in {faults, faults + 1} /\ faults' \in 0..MaxFaults
         /\ answer = "ok" => D!Running(docker, ref) /\ faults' = faults
         /\ answer = "error" /\ faults' = faults => ~D!Running(docker, ref)
<1>1. \/ /\ docker' = docker /\ faults' = faults /\ answer = "ok" /\ D!Running(docker, ref)
      \/ /\ docker' = docker /\ faults' = faults + 1 /\ answer = "error"
      \/ /\ docker' = docker /\ faults' = faults /\ answer = "error"
         /\ ~D!Running(docker, ref)
  BY DEF Docker, D!HealthOutcomes, D!Outcome
<1>2. faults' \in 0..MaxFaults
  BY <1>1, ConstantsAssumption DEF Docker
<1> QED BY <1>1, <1>2

-----------------------------------------------------------------------------
LEMMA InvInit == Init => IInv
<1> SUFFICES ASSUME Init PROVE IInv
  OBVIOUS
<1>1. [name |-> App, image |-> Prev, state |-> "running"] \in Containers
      /\ [name |-> App, image |-> Prev, state |-> "restarting"] \in Containers
      /\ [name |-> App, image |-> Prev, state |-> "exited"] \in Containers
  BY DEF Containers
<1>2. /\ docker \in [Ids -> Containers \cup {Absent}]
      /\ docker[New] = Absent /\ docker[Again] = Absent
      /\ docker[Old] # Absent => docker[Old].name = App /\ docker[Old].image = Prev
  BY <1>1, ConstantsAssumption DEF Init, Ids
<1>3. HostInv
  BY <1>2 DEF HostInv, Ids
<1>4. row \in Row /\ row.dockerId \in {Old, Stale, NoRef} /\ row.image = Prev
  BY DEF Init, Row, Refs, Ids
<1>5. TypeOK
  <2>1. was \in [docker : [Ids -> Containers \cup {Absent}], row : Row]
    BY <1>2, <1>4 DEF Init
  <2>2. NoRef \in Refs /\ <<>> \in Seq(Refs)
    BY DEF Refs
  <2>3. faults \in 0..MaxFaults /\ dbFaults \in 0..MaxDbFaults
    BY ConstantsAssumption DEF Init
  <2> QED BY <1>2, <1>4, <2>1, <2>2, <2>3 DEF Init, TypeOK
<1>6. StartInv
  BY <1>2, <1>4 DEF Init, StartInv
<1>7. ControlInv /\ TodoInv /\ PlaceInv
  BY <1>2 DEF Init, ControlInv, TodoInv, PlaceInv, Removing, Ended
<1>8. OutcomeTruth /\ CostInv /\ RecordInv
  BY <1>2 DEF Init, OutcomeTruth, CostInv, RecordInv, Removing
<1> QED BY <1>3, <1>5, <1>6, <1>7, <1>8 DEF IInv

(* The references of a container, blank or not.                            *)
LEMMA References ==
  ASSUME StartInv
  PROVE  /\ NonBlank(CurrentRefs) \in {<<was.row.dockerId, App>>, <<App>>}
         /\ NonBlank(CurrentRefs) = <<was.row.dockerId, App>> => was.row.dockerId # NoRef
         /\ NonBlank(CurrentRefs) \in Seq(Refs)
         /\ FirstRef(CurrentRefs) \in Refs
         /\ was.row.dockerId # NoRef => FirstRef(CurrentRefs) = was.row.dockerId
<1> DEFINE id == was.row.dockerId
<1>1. id \in Refs /\ App \in Refs
  BY DEF StartInv, Refs, Ids
<1>2. CurrentRefs = <<id, App>> /\ Head(CurrentRefs) = id /\ Tail(CurrentRefs) = <<App>>
  BY DEF CurrentRefs
<1>3. NonBlank(CurrentRefs) = IF id = NoRef THEN <<App>> ELSE <<id, App>>
  BY <1>2 DEF NonBlank
<1>4. <<App>> \in Seq(Refs) /\ <<id, App>> \in Seq(Refs)
  BY <1>1
<1>5. Head(<<App>>) = App /\ Head(<<id, App>>) = id
  OBVIOUS
<1>6. <<App>> # <<id, App>>
  OBVIOUS
<1> HIDE DEF id
<1> QED BY <1>1, <1>3, <1>4, <1>5, <1>6 DEF FirstRef, id

(* The catch block of replaceRuntimeForRollback keeps the invariant: it    *)
(* starts with all the references of what the rollback may have left.      *)
LEMMA RecoverStep ==
  ASSUME ControlInv, Recover, touched' = touched, candidate' = candidate
  PROVE  /\ pc' = "removing" /\ stopTried' = FALSE
         /\ touched => /\ stage' = "recover"
                       /\ todo' = IF candidate = New THEN <<New, Temp, App>> ELSE <<Temp, App>>
         /\ ~touched => /\ stage' = "abandon"
                        /\ todo' = IF candidate = New THEN <<New, Temp>> ELSE <<Temp>>
         /\ todo' \in Seq(Refs)
<1>1. candidate \in {New, NoRef} /\ New # NoRef
  BY ConstantsAssumption DEF ControlInv
<1>2. /\ NonBlank(<<New, Temp, App>>) = <<New, Temp, App>>
      /\ NonBlank(<<NoRef, Temp, App>>) = <<Temp, App>>
      /\ NonBlank(<<New, Temp>>) = <<New, Temp>> /\ NonBlank(<<NoRef, Temp>>) = <<Temp>>
  BY <1>1 DEF NonBlank
<1>3. /\ <<New, Temp, App>> \in Seq(Refs) /\ <<Temp, App>> \in Seq(Refs)
      /\ <<New, Temp>> \in Seq(Refs) /\ <<Temp>> \in Seq(Refs)
  BY DEF Refs, Ids
<1> QED BY <1>1, <1>2, <1>3 DEF Recover, Remove

-----------------------------------------------------------------------------
(* The steps that leave the host alone.                                    *)
LEMMA GivenKept ==
  ASSUME HostInv, StartInv, docker' = docker, UNCHANGED given
  PROVE  HostInv' /\ StartInv'
  BY DEF HostInv, StartInv, given, Atomic

LEMMA PrepareFailsInv == IInv /\ PrepareFails => IInv'
<1> SUFFICES ASSUME IInv, PrepareFails PROVE IInv'
  OBVIOUS
<1> USE DEF IInv
<1>1. HostInv' /\ StartInv'
  BY GivenKept DEF PrepareFails
<1>2. TypeOK'
  BY DEF PrepareFails, TypeOK, given
<1>3. ControlInv' /\ TodoInv' /\ PlaceInv'
  BY DEF PrepareFails, given, Removing, Ended, Atomic, ControlInv, TodoInv, PlaceInv, Healthy
<1>4. OutcomeTruth' /\ CostInv' /\ RecordInv'
  BY DEF PrepareFails, given, Removing, Atomic, OutcomeTruth, CostInv, Cost, RecordInv
<1> QED BY <1>1, <1>2, <1>3, <1>4

LEMMA PrepareInv == IInv /\ Prepare => IInv'
<1> SUFFICES ASSUME IInv, Prepare PROVE IInv'
  OBVIOUS
<1> USE DEF IInv
<1>1. HostInv' /\ StartInv'
  BY GivenKept DEF Prepare
<1>2. CASE Atomic
  <2> USE DEF Prepare, given
  <2>1. pc = "prepare" /\ pc' = "launch" /\ UNCHANGED <<stage, todo, stopTried, touched>>
    BY <1>2
  <2>2. TypeOK'
    BY <2>1 DEF TypeOK
  <2>3. ControlInv' /\ TodoInv' /\ PlaceInv'
    BY <1>2, <2>1 DEF Removing, Ended, Atomic, ControlInv, TodoInv, PlaceInv
  <2>4. OutcomeTruth' /\ CostInv' /\ RecordInv'
    BY <1>2, <2>1 DEF Removing, Atomic, OutcomeTruth, CostInv, RecordInv, ControlInv, Ended
  <2> QED BY <1>1, <2>2, <2>3, <2>4
<1>3. CASE ~Atomic
  <2> USE DEF Prepare, given
  <2>1. /\ pc = "prepare" /\ touched' = TRUE /\ pc' = "removing" /\ stage' = "recreate"
        /\ todo' = NonBlank(CurrentRefs) /\ stopTried' = FALSE
    BY <1>3 DEF Remove
  <2>2. TypeOK'
    BY <2>1, References DEF TypeOK
  <2>3. ControlInv'
    BY <1>3, <2>1 DEF Removing, Ended, Atomic, ControlInv
  <2>4. TodoInv'
    <3>1. /\ was' = was /\ <<was.row.dockerId, App>> # <<>> /\ <<App>> # <<>>
          /\ ~Removing("atomic")' /\ ~Removing("abandon")' /\ ~Removing("recover")'
          /\ stage' # "none"
      BY <2>1 DEF Removing
    <3> QED BY <2>1, <3>1, References DEF TodoInv
  <2>5. PlaceInv'
    BY <1>3, <2>1 DEF Removing, Ended, Atomic, PlaceInv
  <2>6. OutcomeTruth' /\ CostInv' /\ RecordInv'
    BY <1>3, <2>1 DEF Removing, Atomic, OutcomeTruth, CostInv, RecordInv, ControlInv, Ended
  <2> QED BY <1>1, <2>2, <2>3, <2>4, <2>5, <2>6
<1> QED BY <1>2, <1>3

(* The steps that write a row.                                             *)
LEMMA SaveFailsFaults ==
  ASSUME TypeOK, NEW v, NEW old, NEW new, SaveFails(v, old, new)
  PROVE  v \in {old, new} /\ dbFaults' = dbFaults + 1 /\ dbFaults' \in 0..MaxDbFaults
                          /\ dbFaults' # 0
  BY ConstantsAssumption DEF SaveFails, TypeOK

LEMMA RecordRowInv == IInv /\ RecordRow => IInv'
<1> SUFFICES ASSUME IInv, RecordRow PROVE IInv'
  OBVIOUS
<1> USE DEF IInv, RecordRow, given, local
<1>1. HostInv' /\ StartInv'
  BY GivenKept
<1>2. /\ pc = "recordRow" /\ row' \in {row, FailedRow} /\ pc' \in {"recordFailure", "done"}
      /\ pc' = "recordFailure" => row' = FailedRow /\ dbFaults' = dbFaults
      /\ pc' = "done" => dbFaults' = dbFaults + 1
      /\ dbFaults' \in 0..MaxDbFaults /\ (pc' = "done" => dbFaults' # 0)
      /\ dbFaults' >= dbFaults
  BY SaveFailsFaults DEF Saved, TypeOK
<1>3. FailedRow \in Row
  BY ConstantsAssumption DEF FailedRow, TypeOK, Row, StartInv, Shortened, Refs, Ids
<1>4. TypeOK'
  BY <1>2, <1>3 DEF TypeOK
<1>5. mode \in {"NONE", "UNCHANGED", "RECREATED", "FAILED"}
  BY <1>2 DEF TypeOK, ControlInv, Ended
<1>6. ControlInv' /\ TodoInv' /\ PlaceInv'
  BY <1>2 DEF Removing, Ended, Atomic, ControlInv, TodoInv, PlaceInv, Healthy
<1>7. OutcomeTruth' /\ CostInv'
  BY <1>2 DEF Removing, Atomic, OutcomeTruth, CostInv, Cost, Healthy, OnlyContainer, TypeOK
<1>8. RecordInv'
  <2>1. mode \in {"UNCHANGED", "RECREATED"} => recovered # NoRef
    BY ConstantsAssumption, References DEF RecordInv, Ids, CurrentRefs, FirstRef, NonBlank, StartInv
  <2>2. mode = "FAILED" => FailedRow.status = "ERROR"
    BY DEF FailedRow, TypeOK, Row
  <2>3. mode \in {"UNCHANGED", "RECREATED"} =>
          FailedRow = [image |-> Prev, status |-> "RUNNING", dockerId |-> Shortened(recovered)]
    BY <2>1 DEF FailedRow
  <2>4. FirstRef(CurrentRefs)' = FirstRef(CurrentRefs)
    BY DEF FirstRef, CurrentRefs
  <2> QED BY <1>2, <1>5, <2>2, <2>3, <2>4 DEF RecordInv, Shortened
<1> QED BY <1>1, <1>4, <1>6, <1>7, <1>8

LEMMA RecordFailureInv == IInv /\ RecordFailure => IInv'
<1> SUFFICES ASSUME IInv, RecordFailure PROVE IInv'
  OBVIOUS
<1> USE DEF IInv, RecordFailure, given, local
<1>1. HostInv' /\ StartInv'
  BY GivenKept
<1>2. /\ pc = "recordFailure" /\ pc' = "done" /\ deployment' \in {deployment, "FAILED"}
      /\ dbFaults' \in {dbFaults, dbFaults + 1} /\ dbFaults' \in 0..MaxDbFaults
      /\ dbFaults' = 0 => deployment' = "FAILED" /\ dbFaults = 0
  BY SaveFailsFaults DEF Saved, TypeOK
<1>3. TypeOK'
  BY <1>2 DEF TypeOK
<1>4. mode \in {"NONE", "UNCHANGED", "RECREATED", "FAILED"}
  BY <1>2 DEF TypeOK, ControlInv, Ended
<1>5. ControlInv' /\ TodoInv' /\ PlaceInv'
  BY <1>2 DEF Removing, Ended, Atomic, ControlInv, TodoInv, PlaceInv
<1>6. OutcomeTruth' /\ CostInv'
  BY <1>2 DEF Removing, Atomic, OutcomeTruth, CostInv, Cost, Healthy, OnlyContainer, TypeOK
<1>7. RecordInv'
  BY <1>2, <1>4 DEF RecordInv, Shortened, FirstRef, CurrentRefs
<1> QED BY <1>1, <1>3, <1>5, <1>6, <1>7

(* What a step may add to the cost.                                        *)
LEMMA CostGrows ==
  ASSUME TypeOK, owned' = owned, faults' \in {faults, faults + 1},
         dbFaults' \in {dbFaults, dbFaults + 1}
  PROVE  /\ Cost \in Nat /\ Cost' \in Nat /\ Cost' >= Cost
         /\ faults' = faults + 1 \/ dbFaults' = dbFaults + 1 => Cost' >= Cost + 1
         /\ faults' = faults + 1 \/ dbFaults' = dbFaults + 1 \/ ~owned => Cost' >= 1
<1>1. faults \in Nat /\ dbFaults \in Nat
  BY ConstantsAssumption DEF TypeOK
<1>2. PICK f \in Nat, d \in Nat : f = faults' /\ d = dbFaults'
  BY <1>1
<1>3. PICK lost \in {0, 1} : lost = IF owned THEN 0 ELSE 1
  OBVIOUS
<1>4. Cost = faults + dbFaults + lost /\ Cost' = f + d + lost
  BY <1>2, <1>3 DEF Cost
<1>5. f \in {faults, faults + 1} /\ d \in {dbFaults, dbFaults + 1}
  BY <1>2
<1>6. /\ faults + dbFaults + lost \in Nat /\ f + d + lost \in Nat
      /\ f + d + lost >= faults + dbFaults + lost
      /\ f = faults + 1 \/ d = dbFaults + 1 => f + d + lost >= faults + dbFaults + lost + 1
      /\ lost = 1 => f + d + lost >= 1
  BY <1>1, <1>5
<1>7. ~owned => lost = 1
  BY <1>3
<1>8. faults' = faults + 1 \/ dbFaults' = dbFaults + 1 => Cost' >= Cost + 1
  BY <1>2, <1>4, <1>6, Zenon
<1>9. Cost \in Nat /\ Cost' \in Nat /\ Cost' >= Cost
  BY <1>4, <1>6, Zenon
<1>10. Cost' >= Cost + 1 => Cost' >= 1
  BY <1>9
<1>11. ~owned => Cost' >= 1
  BY <1>4, <1>6, <1>7, Zenon
<1> QED BY <1>8, <1>9, <1>10, <1>11

(* Any step that starts the recovery.                                      *)
Counted == faults' \in 0..MaxFaults /\ dbFaults' \in 0..MaxDbFaults

LEMMA RecoveryInv ==
  ASSUME IInv, Recover, pc \notin Ended, UNCHANGED <<given, candidate, touched, mode, recovered>>,
         HostInv', Counted, row' \in Row, deployment' \in {"RUNNING", "SUCCESS", "FAILED"},
         docker'[Again] = Absent,
         ~touched => /\ docker'[Old] = docker[Old] /\ Atomic
                     /\ docker'[New] # Absent => docker'[New].name = Temp,
         ~Atomic /\ docker'[Old] # Absent => candidate = NoRef,
         ~Atomic => Cost' >= 1
  PROVE  IInv'
<1> USE DEF IInv, given
<1>1. StartInv'
  BY DEF StartInv
<1>2. mode = "OPEN" /\ mode' = "OPEN" /\ Atomic' = Atomic
  BY DEF ControlInv, Atomic
<1>3. /\ pc' = "removing" /\ stopTried' = FALSE
      /\ touched => /\ stage' = "recover"
                    /\ todo' = IF candidate = New THEN <<New, Temp, App>> ELSE <<Temp, App>>
      /\ ~touched => /\ stage' = "abandon"
                     /\ todo' = IF candidate = New THEN <<New, Temp>> ELSE <<Temp>>
      /\ todo' \in Seq(Refs)
  BY RecoverStep
<1>4. TypeOK'
  BY <1>3 DEF TypeOK, HostInv, Counted
<1>5. ControlInv'
  BY <1>2, <1>3 DEF ControlInv, Removing, Ended
<1>6. TodoInv'
  <2>1. candidate \in {NoRef, New} /\ candidate' = candidate /\ touched' = touched
    BY DEF ControlInv
  <2>2. <<New, Temp, App>> # <<>> /\ <<Temp, App>> # <<>> /\ <<New, Temp>> # <<>> /\ <<Temp>> # <<>>
        /\ <<Temp, App>> # <<New, Temp, App>>
    OBVIOUS
  <2>3. CASE touched
    <3>1. Removing("recover")' /\ ~Removing("recreate")' /\ ~Removing("atomic")'
          /\ ~Removing("abandon")' /\ stage' # "none"
      BY <1>3, <2>3 DEF Removing
    <3> QED BY <1>2, <1>3, <2>1, <2>2, <2>3, <3>1 DEF TodoInv
  <2>4. CASE ~touched
    <3>1. Removing("abandon")' /\ ~Removing("recreate")' /\ ~Removing("atomic")'
          /\ ~Removing("recover")' /\ stage' # "none"
      BY <1>3, <2>4 DEF Removing
    <3> QED BY <1>3, <2>2, <2>4, <3>1 DEF TodoInv
  <2> QED BY <2>3, <2>4
<1>7. PlaceInv'
  BY <1>2, <1>3 DEF PlaceInv, Removing, Ended
<1>8. OutcomeTruth' /\ CostInv' /\ RecordInv'
  BY <1>2, <1>3 DEF OutcomeTruth, CostInv, RecordInv, Removing, PlaceInv
<1> QED BY <1>1, <1>4, <1>5, <1>6, <1>7, <1>8

LEMMA FinalizeInv == IInv /\ Finalize => IInv'
<1> SUFFICES ASSUME IInv, Finalize PROVE IInv'
  OBVIOUS
<1> USE DEF IInv, given
<1>1. /\ pc = "finalize" /\ candidate = New /\ touched /\ docker[Again] = Absent
      /\ docker[Old] = Absent /\ Healthy(New, App, Target)
      /\ UNCHANGED <<docker, deployment, given, touched, candidate, recovered, mode, faults>>
  BY DEF Finalize, ControlInv, PlaceInv, Ended
<1>2. HostInv' /\ StartInv'
  BY <1>1, GivenKept
<1>3. NewRow \in Row
  BY <1>1 DEF NewRow, Row, Refs, Ids
<1>4. CASE row' = NewRow /\ UNCHANGED dbFaults /\ pc' = "succeed" /\ UNCHANGED <<stage, todo, stopTried>>
  <2>1. TypeOK'
    BY <1>1, <1>3, <1>4 DEF TypeOK
  <2>2. ControlInv' /\ TodoInv' /\ PlaceInv'
    BY <1>1, <1>4 DEF Removing, Ended, Atomic, ControlInv, TodoInv, PlaceInv, Healthy
  <2>3. OutcomeTruth' /\ CostInv' /\ RecordInv'
    BY <1>1, <1>4 DEF Removing, Ended, Atomic, ControlInv, OutcomeTruth, CostInv, RecordInv, NewRow
  <2> QED BY <1>2, <2>1, <2>2, <2>3
<1>5. CASE Recover /\ row' \in {row, NewRow} /\ Counted
           /\ (dbFaults' = dbFaults + 1 \/ (dbFaults' = dbFaults /\ ~owned))
  <2>1. ~Atomic => Cost' >= 1
    <3>1. owned' = owned /\ faults' = faults /\ TypeOK
      BY <1>1
    <3> QED BY <1>5, <3>1, CostGrows
  <2> QED BY <1>1, <1>2, <1>3, <1>5, <2>1, RecoveryInv DEF TypeOK, Ended
<1> HIDE DEF IInv, given
<1> QED
  <2>1. CASE owned /\ Saved(row', NewRow) /\ pc' = "succeed" /\ UNCHANGED <<stage, todo, stopTried>>
    BY <1>4, <2>1 DEF Saved
  <2>2. CASE owned /\ SaveFails(row', row, NewRow) /\ Recover
    <3>1. row' \in {row, NewRow} /\ dbFaults' = dbFaults + 1 /\ Counted
      BY <1>1, <2>2, SaveFailsFaults DEF IInv, TypeOK, Counted
    <3> QED BY <1>5, <2>2, <3>1
  <2>3. CASE ~owned /\ Recover /\ UNCHANGED <<row, dbFaults>>
    BY <1>1, <1>5, <2>3 DEF Counted, IInv, TypeOK
  <2> QED BY <2>1, <2>2, <2>3 DEF Finalize

LEMMA SucceedInv == IInv /\ Succeed => IInv'
<1> SUFFICES ASSUME IInv, Succeed PROVE IInv'
  OBVIOUS
<1> USE DEF IInv, given
<1>1. /\ pc = "succeed" /\ candidate = New /\ touched /\ docker[Again] = Absent
      /\ docker[Old] = Absent /\ Healthy(New, App, Target) /\ row = NewRow
      /\ UNCHANGED <<docker, row, given, touched, candidate, recovered, faults>>
  BY DEF Succeed, ControlInv, PlaceInv, RecordInv, Ended
<1>2. HostInv' /\ StartInv'
  BY <1>1, GivenKept
<1>3. CASE /\ Saved(deployment', "SUCCESS") /\ mode' = "SUCCESS" /\ pc' = "done"
           /\ UNCHANGED <<stage, todo, stopTried>>
  <2>1. TypeOK'
    BY <1>1, <1>3 DEF TypeOK, Saved
  <2>2. ControlInv' /\ TodoInv' /\ PlaceInv'
    BY <1>1, <1>3 DEF Removing, Ended, Atomic, ControlInv, TodoInv, PlaceInv
  <2>3. OutcomeTruth'
    BY <1>1, <1>3 DEF OutcomeTruth, Healthy, OnlyContainer, Ids
  <2>4. CostInv' /\ RecordInv'
    BY <1>1, <1>3 DEF Removing, CostInv, RecordInv, Saved, NewRow
  <2> QED BY <1>2, <2>1, <2>2, <2>3, <2>4
<1>4. CASE SaveFails(deployment', deployment, "SUCCESS") /\ Recover /\ UNCHANGED mode
  <2>1. /\ deployment' \in {deployment, "SUCCESS"} /\ dbFaults' = dbFaults + 1 /\ Counted
    BY <1>1, <1>4, SaveFailsFaults DEF Counted, TypeOK
  <2>2. ~Atomic => Cost' >= 1
    <3>1. owned' = owned /\ faults' = faults /\ TypeOK
      BY <1>1
    <3> QED BY <2>1, <3>1, CostGrows
  <2> QED BY <1>1, <1>2, <1>4, <2>1, <2>2, RecoveryInv DEF TypeOK, Ended
<1> QED BY <1>3, <1>4 DEF Succeed

-----------------------------------------------------------------------------
(* The commands of the host.                                               *)
LEMMA LaunchInv == IInv /\ Launch => IInv'
<1> SUFFICES ASSUME IInv, Launch PROVE IInv'
  OBVIOUS
<1> USE DEF IInv, given
<1> DEFINE name == IF Atomic THEN Temp ELSE App
<1>1. /\ pc = "launch" /\ candidate = NoRef /\ (touched <=> ~Atomic) /\ mode = "OPEN"
      /\ docker[New] = Absent /\ docker[Again] = Absent /\ (~Atomic => docker[Old] = Absent)
      /\ UNCHANGED <<row, deployment, given, touched, recovered, mode, dbFaults>>
      /\ Atomic' = Atomic
  BY DEF Launch, ControlInv, PlaceInv, Ended, Atomic
<1>2. PICK answer \in {"ok", "error"} :
        /\ Docker(D!RunOutcomes(docker, New, name, Target), answer)
        /\ answer = "ok" => candidate' = New /\ pc' = "probe" /\ UNCHANGED <<stage, todo, stopTried>>
        /\ answer = "error" => Recover /\ UNCHANGED candidate
  BY DEF Launch
<1>3. /\ docker' \in [Ids -> Containers \cup {Absent}]
      /\ docker'[Old] = docker[Old] /\ docker'[Again] = docker[Again]
      /\ \/ docker'[New] = docker[New] /\ answer = "error"
         \/ /\ docker'[New].name = name /\ docker'[New].image = Target
            /\ docker'[New] # Absent
            /\ \A i \in Ids : docker[i] # Absent => docker[i].name # name
      /\ faults' \in {faults, faults + 1} /\ faults' \in 0..MaxFaults
      /\ answer = "ok" => docker'[New] # Absent
      /\ answer = "ok" /\ docker'[New].state # "running" => faults' = faults + 1
      /\ answer = "error" /\ faults' = faults => D!NameTaken(docker, name)
  <2>1. New \in Ids /\ name \in {App, Temp} /\ faults \in 0..MaxFaults
        /\ Old \in Ids \ {New} /\ Again \in Ids \ {New}
    BY ConstantsAssumption DEF Ids, TypeOK
  <2> HIDE DEF name
  <2> QED BY <1>2, <2>1, RunStep
<1>4. HostInv'
  BY <1>1, <1>3 DEF HostInv, Ids
<1>5. CASE answer = "ok"
  <2>1. /\ candidate' = New /\ pc' = "probe" /\ UNCHANGED <<stage, todo, stopTried>>
    BY <1>2, <1>5
  <2>2. TypeOK'
    BY <1>1, <1>3, <2>1 DEF TypeOK, Refs, Ids
  <2>3. StartInv' /\ ControlInv' /\ TodoInv'
    BY <1>1, <2>1 DEF Removing, Ended, ControlInv, TodoInv, StartInv
  <2>4. PlaceInv'
    BY <1>1, <1>3, <1>5, <2>1 DEF Removing, Ended, PlaceInv
  <2>5. OutcomeTruth' /\ RecordInv'
    BY <1>1, <1>3, <2>1 DEF OutcomeTruth, RecordInv
  <2>6. ~Atomic /\ docker'[New].state # "running" => Cost' >= 1
    <3>1. owned' = owned /\ dbFaults' = dbFaults /\ TypeOK
      BY <1>1
    <3> QED BY <1>3, <1>5, <3>1, CostGrows
  <2>7. CostInv'
    BY <1>1, <2>1, <2>6 DEF CostInv, Removing
  <2> QED BY <1>4, <2>2, <2>3, <2>4, <2>5, <2>7
<1>6. CASE answer = "error"
  <2>1. ~Atomic => faults' = faults + 1
    BY <1>1, <1>3, <1>6 DEF D!NameTaken, Ids
  <2>2. ~Atomic => Cost' >= 1
    <3>1. owned' = owned /\ dbFaults' = dbFaults /\ TypeOK
      BY <1>1
    <3> QED BY <2>1, <3>1, CostGrows
  <2>3. Counted
    BY <1>1, <1>3 DEF Counted, TypeOK
  <2>4. ~touched => /\ docker'[Old] = docker[Old] /\ Atomic
                    /\ docker'[New] # Absent => docker'[New].name = Temp
    BY <1>1, <1>3
  <2> QED BY <1>1, <1>2, <1>3, <1>4, <1>6, <2>2, <2>3, <2>4, RecoveryInv DEF Ended, TypeOK
<1> QED BY <1>5, <1>6

LEMMA ProbeInv == IInv /\ Probe => IInv'
<1> SUFFICES ASSUME IInv, Probe PROVE IInv'
  OBVIOUS
<1> USE DEF IInv, given
<1>1. /\ pc = "probe" /\ candidate = New /\ (touched <=> ~Atomic) /\ mode = "OPEN"
      /\ docker[New] # Absent /\ docker[Again] = Absent /\ (~Atomic => docker[Old] = Absent)
      /\ docker[New].name = (IF Atomic THEN Temp ELSE App) /\ docker[New].image = Target
      /\ ~touched => docker[Old] = was.docker[Old]
      /\ UNCHANGED <<row, deployment, given, candidate, recovered, mode, dbFaults>>
      /\ Atomic' = Atomic
  BY DEF Probe, ControlInv, PlaceInv, HostInv, Ended, Atomic
<1>2. PICK answer \in {"ok", "error"} :
        /\ Docker(D!HealthOutcomes(docker, candidate), answer)
        /\ answer = "ok" => IF Atomic THEN touched' = TRUE /\ Remove("atomic", CurrentRefs)
                            ELSE pc' = "finalize" /\ UNCHANGED <<touched, stage, todo, stopTried>>
        /\ answer = "error" => Recover /\ UNCHANGED touched
  BY DEF Probe
<1>3. /\ docker' = docker /\ faults' \in {faults, faults + 1} /\ faults' \in 0..MaxFaults
      /\ answer = "ok" => D!Running(docker, New) /\ faults' = faults
      /\ answer = "error" /\ faults' = faults => ~D!Running(docker, New)
  BY <1>1, <1>2, HealthStep DEF TypeOK
<1>4. HostInv' /\ StartInv'
  BY <1>1, <1>3, GivenKept
<1>5. D!Running(docker, New) <=> docker[New].state = "running"
  <2>1. D!Matches(docker, New) = {New}
    BY <1>1, ConstantsAssumption DEF D!Matches, HostInv, Ids, Containers
  <2> QED BY <2>1 DEF D!Running
<1>6. docker[New] = [name |-> docker[New].name, image |-> docker[New].image,
                     state |-> docker[New].state]
  BY <1>1 DEF HostInv, Ids, Containers
<1>7. CASE answer = "ok" /\ Atomic
  <2>1. /\ touched' = TRUE /\ pc' = "removing" /\ stage' = "atomic" /\ stopTried' = FALSE
        /\ todo' = NonBlank(CurrentRefs)
    BY <1>2, <1>7 DEF Remove
  <2>2. TypeOK'
    BY <1>1, <1>3, <2>1, References DEF TypeOK
  <2>3. ControlInv'
    BY <1>1, <1>7, <2>1, ConstantsAssumption DEF Removing, Ended, ControlInv
  <2>4. TodoInv'
    <3>1. /\ was' = was /\ <<was.row.dockerId, App>> # <<>> /\ <<App>> # <<>>
          /\ ~Removing("recreate")' /\ ~Removing("abandon")' /\ ~Removing("recover")'
          /\ stage' # "none"
      BY <1>1, <2>1 DEF Removing
    <3> QED BY <2>1, <3>1, References DEF TodoInv
  <2>5. Healthy(New, Temp, Target)'
    BY <1>1, <1>3, <1>5, <1>6, <1>7 DEF Healthy
  <2>6. PlaceInv'
    BY <1>1, <1>3, <2>1, <2>5 DEF Removing, Ended, PlaceInv
  <2>7. OutcomeTruth' /\ CostInv' /\ RecordInv'
    BY <1>1, <1>7, <2>1 DEF OutcomeTruth, CostInv, RecordInv
  <2> QED BY <1>4, <2>2, <2>3, <2>4, <2>6, <2>7
<1>8. CASE answer = "ok" /\ ~Atomic
  <2>1. pc' = "finalize" /\ UNCHANGED <<touched, stage, todo, stopTried>>
    BY <1>2, <1>8
  <2>2. TypeOK'
    BY <1>1, <1>3, <2>1 DEF TypeOK
  <2>3. ControlInv' /\ TodoInv'
    BY <1>1, <1>8, <2>1 DEF Removing, Ended, ControlInv, TodoInv
  <2>4. Healthy(New, App, Target)'
    BY <1>1, <1>3, <1>5, <1>6, <1>8 DEF Healthy
  <2>5. PlaceInv'
    BY <1>1, <1>3, <1>8, <2>1, <2>4 DEF Removing, Ended, PlaceInv
  <2>6. OutcomeTruth' /\ CostInv' /\ RecordInv'
    BY <1>1, <1>8, <2>1 DEF OutcomeTruth, CostInv, RecordInv, Removing
  <2> QED BY <1>4, <2>2, <2>3, <2>5, <2>6
<1>9. CASE answer = "error"
  <2>1. Recover /\ UNCHANGED touched
    BY <1>2, <1>9
  <2>2. ~Atomic => Cost' >= 1
    <3>1. owned' = owned /\ dbFaults' = dbFaults /\ TypeOK
      BY <1>1
    <3>2. ~Atomic /\ faults' = faults => Cost >= 1
      BY <1>1, <1>3, <1>5, <1>9 DEF CostInv
    <3> QED BY <1>3, <3>1, <3>2, CostGrows
  <2>3. Counted
    BY <1>1, <1>3 DEF Counted, TypeOK
  <2> QED BY <1>1, <1>3, <1>4, <2>1, <2>2, <2>3, RecoveryInv DEF Ended, TypeOK
<1> QED BY <1>7, <1>8, <1>9

LEMMA RenameInv == IInv /\ Rename => IInv'
<1> SUFFICES ASSUME IInv, Rename PROVE IInv'
  OBVIOUS
<1> USE DEF IInv, given
<1>1. /\ pc = "rename" /\ candidate = New /\ touched /\ Atomic /\ mode = "OPEN"
      /\ Healthy(New, Temp, Target) /\ docker[Again] = Absent /\ docker[Old] = Absent
      /\ UNCHANGED <<row, deployment, given, touched, candidate, recovered, mode, dbFaults>>
      /\ Atomic' = Atomic
  BY DEF Rename, ControlInv, PlaceInv, Ended, Atomic
<1>2. PICK answer \in {"ok", "error"} :
        /\ Docker(D!RenameOutcomes(docker, Temp, App), answer)
        /\ answer = "ok" => pc' = "finalize" /\ UNCHANGED <<stage, todo, stopTried>>
        /\ answer = "error" => Recover
  BY DEF Rename
<1>3. /\ docker[New] # Absent /\ docker[New].name = Temp
      /\ [docker[New] EXCEPT !.name = App] = [name |-> App, image |-> Target, state |-> "running"]
      /\ [name |-> App, image |-> Target, state |-> "running"] # Absent
  BY <1>1, ConstantsAssumption DEF Healthy, Containers
<1>4. /\ docker' \in [Ids -> Containers \cup {Absent}]
      /\ docker'[Old] = Absent /\ docker'[Again] = Absent
      /\ docker'[New] \in {docker[New], [name |-> App, image |-> Target, state |-> "running"]}
      /\ answer = "ok" => docker'[New] = [name |-> App, image |-> Target, state |-> "running"]
      /\ faults' \in {faults, faults + 1} /\ faults' \in 0..MaxFaults
  <2>1. faults \in 0..MaxFaults /\ Old \in Ids \ {New} /\ Again \in Ids \ {New}
    BY ConstantsAssumption DEF TypeOK, Ids
  <2> QED BY <1>1, <1>2, <1>3, <2>1, RenameStep
<1>5. HostInv'
  BY <1>1, <1>3, <1>4 DEF HostInv, Ids
<1>6. CASE answer = "ok"
  <2>1. pc' = "finalize" /\ UNCHANGED <<stage, todo, stopTried>>
    BY <1>2, <1>6
  <2>2. TypeOK'
    BY <1>1, <1>4, <2>1 DEF TypeOK
  <2>3. StartInv' /\ ControlInv' /\ TodoInv'
    BY <1>1, <2>1 DEF Removing, Ended, ControlInv, TodoInv, StartInv
  <2>4. PlaceInv'
    BY <1>1, <1>4, <1>6, <2>1 DEF Removing, Ended, PlaceInv, Healthy
  <2>5. OutcomeTruth' /\ CostInv' /\ RecordInv'
    BY <1>1, <2>1 DEF OutcomeTruth, CostInv, RecordInv
  <2> QED BY <1>5, <2>2, <2>3, <2>4, <2>5
<1>7. CASE answer = "error"
  <2>1. Counted
    BY <1>1, <1>4 DEF Counted, TypeOK
  <2> QED BY <1>1, <1>2, <1>4, <1>5, <1>7, <2>1, RecoveryInv DEF Ended, TypeOK
<1> QED BY <1>6, <1>7

(* The recovery ends in a failure to recover.                              *)
LEMMA FailureInv ==
  ASSUME IInv, RecoveryFails, pc \notin Ended,
         UNCHANGED <<given, row, deployment, candidate, touched, recovered, dbFaults>>,
         HostInv', Counted,
         ~touched => /\ docker'[Old] = docker[Old] /\ Atomic
                     /\ docker'[New] # Absent => docker'[New].name = Temp,
         ~Atomic => Cost' >= 2
  PROVE  IInv'
<1> USE DEF IInv, given
<1>1. mode' = "FAILED" /\ pc' = "recordRow" /\ UNCHANGED <<stage, todo, stopTried>>
      /\ Atomic' = Atomic
  BY DEF RecoveryFails, Atomic
<1>2. TypeOK' /\ StartInv'
  BY <1>1 DEF TypeOK, HostInv, Counted, StartInv
<1>3. ControlInv' /\ TodoInv'
  BY <1>1 DEF ControlInv, TodoInv, Removing, Ended
<1>4. PlaceInv'
  BY <1>1 DEF PlaceInv, Removing, Ended
<1>5. OutcomeTruth' /\ CostInv' /\ RecordInv'
  BY <1>1 DEF OutcomeTruth, CostInv, RecordInv, Removing, PlaceInv
<1> QED BY <1>1, <1>2, <1>3, <1>4, <1>5

LEMMA CheckPreviousInv == IInv /\ CheckPrevious => IInv'
<1> SUFFICES ASSUME IInv, CheckPrevious PROVE IInv'
  OBVIOUS
<1> USE DEF IInv, given
<1> DEFINE ref == FirstRef(CurrentRefs)
<1>1. /\ pc = "checkPrevious" /\ ~touched /\ Atomic /\ mode = "OPEN"
      /\ docker[New] = Absent /\ docker[Again] = Absent /\ docker[Old] = was.docker[Old]
      /\ UNCHANGED <<row, deployment, given, touched, candidate, dbFaults>>
      /\ Atomic' = Atomic
  BY DEF CheckPrevious, ControlInv, PlaceInv, Ended, Atomic, TypeOK
<1>2. PICK answer \in {"ok", "error"} :
        /\ Docker(D!HealthOutcomes(docker, ref), answer)
        /\ answer = "ok" => /\ mode' = "UNCHANGED" /\ recovered' = ref /\ pc' = "recordRow"
                            /\ UNCHANGED <<stage, todo, stopTried>>
        /\ answer = "error" => RecoveryFails /\ UNCHANGED recovered
  BY DEF CheckPrevious
<1>3. /\ docker' = docker /\ faults' \in {faults, faults + 1} /\ faults' \in 0..MaxFaults
      /\ answer = "ok" => D!Running(docker, ref)
  BY <1>2, HealthStep DEF TypeOK
<1>4. HostInv' /\ StartInv' /\ ref \in Refs
  BY <1>1, <1>3, GivenKept, References
<1>5. ref' = ref
  BY <1>1 DEF FirstRef, CurrentRefs
<1> HIDE DEF ref
<1>6. CASE answer = "ok"
  <2>1. /\ mode' = "UNCHANGED" /\ recovered' = ref /\ pc' = "recordRow"
        /\ UNCHANGED <<stage, todo, stopTried>> /\ D!Running(docker, ref)
    BY <1>2, <1>3, <1>6
  <2>2. docker = was.docker
    <3>1. \A i \in Ids : docker[i] = was.docker[i]
      BY <1>1 DEF StartInv, Ids
    <3> QED BY <3>1 DEF HostInv, StartInv
  <2>3. Healthy(Old, App, Prev)
    <3>1. PICK i \in D!Matches(docker, ref) : docker[i].state = "running"
      BY <2>1 DEF D!Running
    <3>2. i \in Ids /\ docker[i] # Absent /\ docker[i] \in Containers
      BY <3>1 DEF D!Matches, HostInv
    <3>3. i = Old
      BY <1>1, <3>2 DEF Ids
    <3> QED BY <3>1, <3>2, <3>3 DEF HostInv, Healthy, Containers
  <2>4. TypeOK'
    BY <1>1, <1>3, <1>4, <2>1 DEF TypeOK
  <2>5. ControlInv' /\ TodoInv' /\ PlaceInv'
    BY <1>1, <1>3, <2>1 DEF ControlInv, TodoInv, PlaceInv, Removing, Ended
  <2>6. OutcomeTruth' /\ CostInv'
    BY <1>1, <1>3, <2>1, <2>2, <2>3 DEF OutcomeTruth, CostInv, Removing, Healthy
  <2>7. RecordInv'
    BY <1>1, <1>3, <1>5, <2>1 DEF RecordInv, ref
  <2> QED BY <1>4, <2>4, <2>5, <2>6, <2>7
<1>7. CASE answer = "error"
  <2>1. Counted
    BY <1>1, <1>3 DEF Counted, TypeOK
  <2> QED BY <1>1, <1>2, <1>3, <1>4, <1>7, <2>1, FailureInv DEF Ended
<1> QED BY <1>6, <1>7

LEMMA RelaunchInv == IInv /\ Relaunch => IInv'
<1> SUFFICES ASSUME IInv, Relaunch PROVE IInv'
  OBVIOUS
<1> USE DEF IInv, given
<1>1. /\ pc = "relaunch" /\ touched /\ mode = "OPEN"
      /\ docker[New] = Absent /\ docker[Again] = Absent /\ (~Atomic => docker[Old] = Absent)
      /\ UNCHANGED <<row, deployment, given, touched, candidate, recovered, dbFaults>>
      /\ Atomic' = Atomic
  BY DEF Relaunch, ControlInv, PlaceInv, Ended, Atomic
<1>2. PICK answer \in {"ok", "error"} :
        /\ Docker(D!RunOutcomes(docker, Again, App, Prev), answer)
        /\ answer = "ok" => pc' = "checkRecovered" /\ UNCHANGED <<mode, stage, todo, stopTried>>
        /\ answer = "error" => RecoveryFails
  BY DEF Relaunch
<1>3. /\ docker' \in [Ids -> Containers \cup {Absent}]
      /\ docker'[Old] = docker[Old] /\ docker'[New] = docker[New]
      /\ \/ docker'[Again] = docker[Again] /\ answer = "error"
         \/ /\ docker'[Again].name = App /\ docker'[Again].image = Prev
            /\ docker'[Again] # Absent
            /\ \A i \in Ids : docker[i] # Absent => docker[i].name # App
      /\ faults' \in {faults, faults + 1} /\ faults' \in 0..MaxFaults
      /\ answer = "ok" => docker'[Again] # Absent
      /\ answer = "ok" /\ docker'[Again].state # "running" => faults' = faults + 1
      /\ answer = "error" /\ faults' = faults => D!NameTaken(docker, App)
  <2>1. Again \in Ids /\ faults \in 0..MaxFaults /\ Old \in Ids \ {Again} /\ New \in Ids \ {Again}
    BY ConstantsAssumption DEF Ids, TypeOK
  <2> QED BY <1>2, <2>1, RunStep
<1>4. HostInv'
  BY <1>1, <1>3 DEF HostInv, Ids
<1>5. /\ ~Atomic => Cost' >= 1
      /\ ~Atomic /\ faults' = faults + 1 => Cost' >= 2
  <2>1. owned' = owned /\ dbFaults' = dbFaults /\ TypeOK
    BY <1>1
  <2>2. ~Atomic => Cost >= 1
    BY <1>1 DEF CostInv
  <2> QED BY <1>3, <2>1, <2>2, CostGrows
<1>6. CASE answer = "ok"
  <2>1. pc' = "checkRecovered" /\ UNCHANGED <<mode, stage, todo, stopTried>>
    BY <1>2, <1>6
  <2>2. TypeOK'
    BY <1>1, <1>3, <2>1 DEF TypeOK
  <2>3. StartInv' /\ ControlInv' /\ TodoInv'
    BY <1>1, <2>1 DEF Removing, Ended, ControlInv, TodoInv, StartInv
  <2>4. docker'[Old] = Absent
    BY <1>3, <1>6 DEF HostInv, Ids
  <2>5. PlaceInv'
    BY <1>1, <1>3, <1>6, <2>1, <2>4 DEF Removing, Ended, PlaceInv
  <2>6. OutcomeTruth' /\ RecordInv'
    BY <1>1, <2>1 DEF OutcomeTruth, RecordInv
  <2>7. CostInv'
    BY <1>1, <1>3, <1>5, <1>6, <2>1 DEF CostInv, Removing
  <2> QED BY <1>4, <2>2, <2>3, <2>5, <2>6, <2>7
<1>7. CASE answer = "error"
  <2>1. Counted
    BY <1>1, <1>3 DEF Counted, TypeOK
  <2>2. ~Atomic => faults' = faults + 1
    BY <1>1, <1>3, <1>7 DEF D!NameTaken, Ids
  <2>3. ~Atomic => Cost' >= 2
    BY <1>5, <2>2
  <2> QED BY <1>1, <1>2, <1>4, <1>7, <2>1, <2>3, FailureInv DEF Ended
<1> QED BY <1>6, <1>7

LEMMA CheckRecoveredInv == IInv /\ CheckRecovered => IInv'
<1> SUFFICES ASSUME IInv, CheckRecovered PROVE IInv'
  OBVIOUS
<1> USE DEF IInv, given
<1>1. /\ pc = "checkRecovered" /\ touched /\ mode = "OPEN"
      /\ docker[New] = Absent /\ docker[Again] # Absent /\ docker[Old] = Absent
      /\ UNCHANGED <<row, deployment, given, touched, candidate, dbFaults>>
      /\ Atomic' = Atomic
  BY DEF CheckRecovered, ControlInv, PlaceInv, Ended, Atomic
<1>2. PICK answer \in {"ok", "error"} :
        /\ Docker(D!HealthOutcomes(docker, Again), answer)
        /\ answer = "ok" => /\ mode' = "RECREATED" /\ recovered' = Again /\ pc' = "recordRow"
                            /\ UNCHANGED <<stage, todo, stopTried>>
        /\ answer = "error" => RecoveryFails /\ UNCHANGED recovered
  BY DEF CheckRecovered
<1>3. /\ docker' = docker /\ faults' \in {faults, faults + 1} /\ faults' \in 0..MaxFaults
      /\ answer = "ok" => D!Running(docker, Again)
      /\ answer = "error" /\ faults' = faults => ~D!Running(docker, Again)
  BY <1>2, HealthStep DEF TypeOK
<1>4. HostInv' /\ StartInv'
  BY <1>1, <1>3, GivenKept
<1>5. D!Running(docker, Again) <=> docker[Again].state = "running"
  <2>1. D!Matches(docker, Again) = {Again}
    BY <1>1 DEF D!Matches, Ids
  <2> QED BY <2>1 DEF D!Running
<1>6. CASE answer = "ok"
  <2>1. /\ mode' = "RECREATED" /\ recovered' = Again /\ pc' = "recordRow"
        /\ UNCHANGED <<stage, todo, stopTried>>
    BY <1>2, <1>6
  <2>2. Healthy(Again, App, Prev) /\ OnlyContainer(Again)
    <3>1. docker[Again] \in Containers /\ docker[Again].state = "running"
      BY <1>1, <1>3, <1>5, <1>6 DEF HostInv, Ids
    <3> QED BY <1>1, <3>1 DEF HostInv, Healthy, Containers, OnlyContainer, Ids
  <2>3. TypeOK'
    BY <1>1, <1>3, <2>1 DEF TypeOK, Refs, Ids
  <2>4. ControlInv' /\ TodoInv' /\ PlaceInv'
    BY <1>1, <1>3, <2>1 DEF ControlInv, TodoInv, PlaceInv, Removing, Ended
  <2>5. OutcomeTruth' /\ CostInv' /\ RecordInv'
    BY <1>1, <1>3, <2>1, <2>2 DEF OutcomeTruth, CostInv, RecordInv, Removing, Healthy,
                                OnlyContainer
  <2> QED BY <1>4, <2>3, <2>4, <2>5
<1>7. CASE answer = "error"
  <2>1. Counted
    BY <1>1, <1>3 DEF Counted, TypeOK
  <2>2. ~Atomic => Cost' >= 2
    <3>1. owned' = owned /\ dbFaults' = dbFaults /\ TypeOK
      BY <1>1
    <3>2. ~Atomic => Cost >= 1 /\ (faults' = faults => Cost >= 2)
      BY <1>1, <1>3, <1>5, <1>7 DEF CostInv
    <3> QED BY <1>3, <3>1, <3>2, CostGrows
  <2> QED BY <1>1, <1>2, <1>4, <1>7, <2>1, <2>2, FailureInv DEF Ended
<1> QED BY <1>6, <1>7

-----------------------------------------------------------------------------
(* stopAndRemoveContainer.  A running container that is to be removed but  *)
(* was stopped has cost a fault.                                           *)
LEMMA TodoRefs ==
  ASSUME IInv, pc = "removing", todo # <<>>
  PROVE  /\ stage \in {"recreate", "atomic", "abandon", "recover"}
         /\ Head(todo) \in Refs /\ Tail(todo) \in Seq(Refs)
         /\ stage \in {"recreate", "atomic"} =>
              /\ Head(todo) \in {Old, Stale, App}
              /\ Head(todo) # App => Tail(todo) = <<App>>
              /\ Head(todo) = App => Tail(todo) = <<>>
         /\ stage = "abandon" =>
              /\ Head(todo) \in {New, Temp}
              /\ Head(todo) = New => Tail(todo) = <<Temp>>
              /\ Head(todo) = Temp => Tail(todo) = <<>>
         /\ stage = "recover" =>
              /\ Head(todo) \in {New, Temp, App}
              /\ Head(todo) = New => Tail(todo) = <<Temp, App>> /\ candidate = New
              /\ Head(todo) = Temp => Tail(todo) = <<App>>
              /\ Head(todo) = App => Tail(todo) = <<>>
              /\ docker[New] # Absent => Head(todo) = New \/ candidate = NoRef
              /\ ~Atomic /\ docker[Old] # Absent => candidate = NoRef
<1>1. todo \in Seq(Refs) /\ stage \in {"recreate", "atomic", "abandon", "recover"}
  BY DEF IInv, TypeOK, TodoInv
<1>2. Head(todo) \in Refs /\ Tail(todo) \in Seq(Refs)
  BY <1>1
<1>3. ASSUME stage \in {"recreate", "atomic"}
      PROVE  /\ Head(todo) \in {Old, Stale, App}
             /\ Head(todo) # App => Tail(todo) = <<App>>
             /\ Head(todo) = App => Tail(todo) = <<>>
  <2>1. /\ todo \in {<<was.row.dockerId, App>>, <<App>>}
        /\ todo = <<was.row.dockerId, App>> => was.row.dockerId \in {Old, Stale}
    BY <1>3 DEF IInv, TodoInv, Removing, StartInv
  <2>2. /\ Head(<<was.row.dockerId, App>>) = was.row.dockerId /\ Head(<<App>>) = App
        /\ Tail(<<was.row.dockerId, App>>) = <<App>> /\ Tail(<<App>>) = <<>>
    OBVIOUS
  <2> QED BY <2>1, <2>2, ConstantsAssumption
<1>4. ASSUME stage = "abandon"
      PROVE  /\ Head(todo) \in {New, Temp}
             /\ Head(todo) = New => Tail(todo) = <<Temp>>
             /\ Head(todo) = Temp => Tail(todo) = <<>>
  <2>1. todo \in {<<New, Temp>>, <<Temp>>}
    BY <1>4 DEF IInv, TodoInv, Removing
  <2>2. /\ Head(<<New, Temp>>) = New /\ Head(<<Temp>>) = Temp
        /\ Tail(<<New, Temp>>) = <<Temp>> /\ Tail(<<Temp>>) = <<>>
    OBVIOUS
  <2> QED BY <2>1, <2>2, ConstantsAssumption
<1>5. ASSUME stage = "recover"
      PROVE  /\ Head(todo) \in {New, Temp, App}
             /\ Head(todo) = New => Tail(todo) = <<Temp, App>> /\ candidate = New
             /\ Head(todo) = Temp => Tail(todo) = <<App>>
             /\ Head(todo) = App => Tail(todo) = <<>>
             /\ docker[New] # Absent => Head(todo) = New \/ candidate = NoRef
             /\ ~Atomic /\ docker[Old] # Absent => candidate = NoRef
  <2>1. /\ todo \in {<<New, Temp, App>>, <<Temp, App>>, <<App>>}
        /\ todo = <<New, Temp, App>> => candidate = New
        /\ docker[New] # Absent => todo = <<New, Temp, App>> \/ candidate = NoRef
        /\ ~Atomic /\ docker[Old] # Absent => candidate = NoRef
    BY <1>5 DEF IInv, TodoInv, Removing
  <2>2. /\ Head(<<New, Temp, App>>) = New /\ Tail(<<New, Temp, App>>) = <<Temp, App>>
        /\ Head(<<Temp, App>>) = Temp /\ Tail(<<Temp, App>>) = <<App>>
        /\ Head(<<App>>) = App /\ Tail(<<App>>) = <<>>
    OBVIOUS
  <2> QED BY <2>1, <2>2, ConstantsAssumption
<1> QED BY <1>1, <1>2, <1>3, <1>4, <1>5

LEMMA TryStopInv == IInv /\ TryStop => IInv'
<1> SUFFICES ASSUME IInv, TryStop PROVE IInv'
  OBVIOUS
<1> USE DEF IInv, given
<1> DEFINE ref == Head(todo)
<1>1. /\ pc = "removing" /\ todo # <<>> /\ ~stopTried /\ stopTried' = TRUE
      /\ UNCHANGED <<row, deployment, given, pc, stage, todo, touched, candidate,
                     recovered, mode, dbFaults>>
      /\ mode = "OPEN" /\ docker[Again] = Absent /\ Atomic' = Atomic
  BY DEF TryStop, ControlInv, PlaceInv, Ended, Atomic, TypeOK
<1>2. PICK answer : Docker(D!StopOutcomes(docker, ref), answer)
  BY DEF TryStop
<1>3. ref \in Refs
  BY <1>1, TodoRefs
<1> HIDE DEF ref
<1>4. /\ docker' \in [Ids -> Containers \cup {Absent}]
      /\ \A i \in Ids : Alike(docker[i], docker'[i])
      /\ \A i \in Ids \ D!Matches(docker, ref) : docker'[i] = docker[i]
      /\ faults' \in {faults, faults + 1} /\ faults' \in 0..MaxFaults
      /\ faults' = faults => ~D!Up(docker', ref)
  BY <1>2, StopStep DEF TypeOK
<1>5. HostInv' /\ StartInv'
  BY <1>1, <1>4 DEF HostInv, StartInv, Alike, Ids
<1>6. TypeOK'
  BY <1>1, <1>4 DEF TypeOK
<1>7. ControlInv'
  BY <1>1 DEF ControlInv, Removing, Ended
<1>8. /\ docker'[Old] = Absent <=> docker[Old] = Absent
      /\ docker'[New] = Absent <=> docker[New] = Absent
      /\ docker'[Again] = Absent
      /\ docker'[New] # Absent => docker'[New].name = docker[New].name
  BY <1>1, <1>4 DEF Alike, Ids
<1>9. TodoInv'
  BY <1>1, <1>8 DEF TodoInv, Removing
<1>10. ~touched => docker'[Old] = docker[Old]
  <2>1. ~touched => stage = "abandon" /\ (docker[New] # Absent => docker[New].name = Temp)
    BY <1>1, TodoRefs DEF ControlInv, PlaceInv, Removing
  <2>2. ~touched => ref \in {New, Temp}
    BY <1>1, TodoRefs DEF ControlInv, Removing, ref
  <2>3. ~touched => Old \notin D!Matches(docker, ref)
    BY <1>3, <2>2, Finds, ConstantsAssumption DEF HostInv, Ids
  <2> QED BY <1>4, <2>3 DEF Ids
<1>11. stage = "atomic" => docker'[New] = docker[New]
  <2>1. stage = "atomic" => Healthy(New, Temp, Target) /\ ref \in {Old, Stale, App}
    BY <1>1, TodoRefs DEF PlaceInv, Removing, ref
  <2>2. stage = "atomic" => New \notin D!Matches(docker, ref)
    BY <1>3, <2>1, Finds, ConstantsAssumption DEF Ids, Healthy
  <2> QED BY <1>4, <2>2 DEF Ids
<1>12. PlaceInv'
  BY <1>1, <1>8, <1>10, <1>11 DEF PlaceInv, Removing, Ended, Healthy
<1>13. OutcomeTruth' /\ RecordInv'
  BY <1>1, <1>10 DEF OutcomeTruth, RecordInv, PlaceInv
<1>14. CostInv'
  <2>1. owned' = owned /\ dbFaults' = dbFaults /\ TypeOK
    BY <1>1
  <2>2. ~Atomic /\ stage = "recover" => Cost >= 1
    BY <1>1 DEF CostInv, Removing
  <2>3. ~Atomic /\ stage = "recover" => Cost' >= 1
    BY <1>4, <2>1, <2>2, CostGrows
  <2>4. D!Up(docker', ref) => Cost' >= 1
    BY <1>4, <2>1, CostGrows
  <2>5. ~Atomic /\ stage = "recover" /\ D!Up(docker', ref) => Cost' >= 2
    BY <1>4, <2>1, <2>2, CostGrows
  <2> QED BY <1>1, <2>3, <2>4, <2>5 DEF CostInv, Removing, ref
<1> QED BY <1>5, <1>6, <1>7, <1>9, <1>12, <1>13, <1>14

(* The return of stopAndRemoveContainer, when what it was called for is     *)
(* gone.                                                                   *)
LEMMA ReturnInv ==
  ASSUME IInv, pc = "removing", Returned, HostInv',
         UNCHANGED <<row, deployment, given, touched, candidate, recovered, faults, dbFaults>>,
         docker'[Again] = Absent, docker'[New] \in {docker[New], Absent},
         ~touched => docker'[Old] = docker[Old],
         stage \in {"recreate", "atomic"} => docker'[Old] = Absent,
         stage = "atomic" => docker'[New] = docker[New],
         stage = "abandon" => docker'[New] = Absent,
         stage = "recover" => docker'[New] = Absent /\ (~Atomic => docker'[Old] = Absent)
  PROVE  IInv'
<1> USE DEF IInv, given
<1>1. /\ stage \in {"recreate", "atomic", "abandon", "recover"}
      /\ stage = "recreate" => pc' = "launch"
      /\ stage = "atomic" => pc' = "rename"
      /\ stage = "abandon" => pc' = "checkPrevious"
      /\ stage = "recover" => pc' = "relaunch"
      /\ UNCHANGED <<stage, todo, stopTried, mode>> /\ mode = "OPEN"
  BY DEF Returned, TypeOK, TodoInv, ControlInv, Ended
<1>2. TypeOK' /\ StartInv'
  BY <1>1 DEF TypeOK, HostInv, StartInv
<1>3. ControlInv' /\ TodoInv'
  BY <1>1 DEF Removing, Ended, Atomic, ControlInv, TodoInv
<1>4. Atomic' = Atomic /\ pc' \notin Ended /\ pc' # "removing" /\ pc' # "prepare"
      /\ pc' \notin {"probe", "finalize", "succeed", "checkRecovered"}
  BY <1>1 DEF Atomic, Ended
<1>5. ~touched => docker'[Old] = was.docker[Old] /\ (docker'[New] # Absent => docker'[New].name = Temp)
  BY DEF PlaceInv
<1>6. pc' = "launch" => docker'[New] = Absent /\ docker'[Old] = Absent
  BY <1>1 DEF PlaceInv, Removing
<1>7. pc' = "rename" => Healthy(New, Temp, Target)' /\ docker'[Old] = Absent
  BY <1>1 DEF PlaceInv, Removing, Healthy
<1>8. PlaceInv'
  BY <1>1, <1>4, <1>5, <1>6, <1>7 DEF Removing, PlaceInv
<1>9. OutcomeTruth' /\ CostInv' /\ RecordInv'
  BY <1>1, <1>4, <1>5 DEF Removing, OutcomeTruth, CostInv, Cost, RecordInv
<1> QED BY <1>2, <1>3, <1>8, <1>9

LEMMA NothingToRemoveInv == IInv /\ NothingToRemove => IInv'
<1> SUFFICES ASSUME IInv, NothingToRemove PROVE IInv'
  OBVIOUS
<1>1. /\ pc = "removing" /\ todo = <<>> /\ Returned
      /\ UNCHANGED <<docker, row, deployment, given, touched, candidate, recovered,
                     faults, dbFaults>>
  BY DEF NothingToRemove
<1>2. HostInv'
  BY <1>1, GivenKept DEF IInv
<1>3. /\ docker[Again] = Absent
      /\ stage \in {"recreate", "atomic"} => docker[Old] = Absent
      /\ stage = "abandon" => docker[New] = Absent
      /\ stage = "recover" => docker[New] = Absent /\ (~Atomic => docker[Old] = Absent)
  <2>1. <<>> # <<New, Temp, App>>
    OBVIOUS
  <2> QED BY <1>1, <2>1 DEF IInv, TodoInv, PlaceInv, Removing, Ended
<1> QED BY <1>1, <1>2, <1>3, ReturnInv

(* What is gone once docker rm has removed a reference, or has not found   *)
(* it.                                                                     *)
LEMMA Cleared ==
  ASSUME IInv, pc = "removing", todo # <<>>, NEW answer, faults \in 0..MaxFaults,
         Docker(D!RmOutcomes(docker, Head(todo)), answer)
  PROVE  /\ HostInv' \/ ~UNCHANGED given
         /\ docker'[Again] = Absent
         /\ docker'[New] \in {docker[New], Absent} /\ docker'[Old] \in {docker[Old], Absent}
         /\ ~touched => docker'[Old] = docker[Old]
         /\ stage = "atomic" => docker'[New] = docker[New]
         /\ answer = "ok" =>
              /\ stage \in {"recreate", "atomic"} => docker'[Old] = Absent
              /\ stage = "abandon" => docker'[New] = Absent
              /\ stage = "recover" => docker'[New] = Absent /\ (~Atomic => docker'[Old] = Absent)
         /\ answer = "gone" =>
              /\ stage \in {"recreate", "atomic"} /\ Head(todo) = App => docker[Old] = Absent
              /\ stage = "abandon" /\ Head(todo) = Temp => docker[New] = Absent
              /\ stage = "recover" /\ Head(todo) = New => docker[New] = Absent
              /\ stage = "recover" /\ Head(todo) = App /\ candidate = NoRef =>
                   docker[New] = Absent /\ docker[Old] = Absent
<1> USE DEF IInv
<1> DEFINE ref == Head(todo)
           found == D!Matches(docker, ref)
<1>1. ref \in Refs /\ Old \in Ids /\ New \in Ids /\ Again \in Ids
  BY TodoRefs DEF Ids
<1>2. /\ docker' \in [Ids -> Containers \cup {Absent}]
      /\ \A i \in Ids : docker'[i] \in {docker[i], Absent}
      /\ \A i \in Ids \ found : docker'[i] = docker[i]
      /\ answer = "ok" => (\A i \in found : docker'[i] = Absent) /\ found # {}
      /\ answer = "gone" => found = {}
  <2>1. Docker(D!RmOutcomes(docker, ref), answer)
    OBVIOUS
  <2> HIDE DEF ref
  <2> QED BY <2>1, RmStep
<1>3. HostInv' \/ ~UNCHANGED given
  BY <1>2 DEF HostInv, Ids, given, Atomic
<1>4. docker[Again] = Absent /\ docker'[Again] = Absent
  BY <1>1, <1>2 DEF PlaceInv, Ended
<1>5. /\ Again \notin found
      /\ New \in found <=> docker[New] # Absent /\ (ref = New \/ docker[New].name = ref)
      /\ Old \in found <=> docker[Old] # Absent /\ (ref = Old \/ docker[Old].name = ref)
      /\ found \subseteq {Old, New}
  BY <1>4 DEF D!Matches, Ids
<1>6. docker[Old] # Absent => docker[Old].name = App
  BY DEF HostInv
<1>7. /\ stage = "recreate" => docker[New] = Absent
      /\ stage = "atomic" => Healthy(New, Temp, Target)
      /\ stage = "abandon" => ~touched /\ (docker[New] # Absent => docker[New].name = Temp)
      /\ ~touched => stage = "abandon"
  BY TodoRefs DEF PlaceInv, ControlInv, Removing
<1> HIDE DEF found
<1>8. ASSUME stage \in {"recreate", "atomic"}
      PROVE  /\ stage = "atomic" => docker'[New] = docker[New]
             /\ answer = "ok" => docker'[Old] = Absent
             /\ answer = "gone" /\ ref = App => docker[Old] = Absent
  <2>1. New \notin found
    <3>1. ref \in {Old, Stale, App}
      BY <1>8, TodoRefs
    <3> QED BY <1>5, <1>7, <1>8, <3>1, ConstantsAssumption DEF Healthy
  <2> QED BY <1>1, <1>2, <1>5, <1>6, <2>1
<1>9. ASSUME stage = "abandon"
      PROVE  /\ docker'[Old] = docker[Old]
             /\ answer = "ok" => docker'[New] = Absent
             /\ answer = "gone" /\ ref = Temp => docker[New] = Absent
  <2>1. Old \notin found
    <3>1. ref \in {New, Temp}
      BY <1>9, TodoRefs
    <3> QED BY <1>5, <1>6, <3>1, ConstantsAssumption
  <2> QED BY <1>1, <1>2, <1>5, <1>7, <1>9, <2>1
<1>10. ASSUME stage = "recover"
       PROVE  /\ answer = "ok" => docker'[New] = Absent /\ (~Atomic => docker'[Old] = Absent)
              /\ answer = "gone" /\ ref = New => docker[New] = Absent
              /\ answer = "gone" /\ ref = App /\ candidate = NoRef =>
                   docker[New] = Absent /\ docker[Old] = Absent
  <2>1. /\ ref \in {New, Temp, App} /\ (ref = New => candidate = New)
        /\ docker[New] # Absent => ref = New \/ candidate = NoRef
        /\ ~Atomic /\ docker[Old] # Absent => candidate = NoRef
    BY <1>10, TodoRefs
  <2>2. /\ touched /\ candidate \in {NoRef, New} /\ New # NoRef
        /\ candidate = NoRef => ~Atomic /\ (docker[New] # Absent => docker[New].name = App)
    BY <1>10, ConstantsAssumption DEF ControlInv, HostInv, Removing
  <2>3. CASE ref = New
    BY <1>1, <1>2, <1>5, <2>1, <2>2, <2>3
  <2>4. CASE ref # New /\ candidate = New
    BY <1>1, <1>2, <2>1, <2>2, <2>4
  <2>5. CASE ref = Temp /\ candidate = NoRef
    <3>1. found = {}
      BY <1>5, <1>6, <2>2, <2>5, ConstantsAssumption
    <3> QED BY <1>2, <2>5, <3>1, ConstantsAssumption
  <2>6. CASE ref = App /\ candidate = NoRef
    <3>1. /\ New \in found <=> docker[New] # Absent
          /\ Old \in found <=> docker[Old] # Absent
      BY <1>5, <1>6, <2>2, <2>6, ConstantsAssumption
    <3> QED BY <1>1, <1>2, <2>2, <2>6, <3>1, ConstantsAssumption
  <2> QED BY <2>1, <2>2, <2>3, <2>4, <2>5, <2>6
<1> QED BY <1>1, <1>2, <1>3, <1>4, <1>7, <1>8, <1>9, <1>10, TodoRefs

LEMMA TryRemoveInv == IInv /\ TryRemove => IInv'
<1> SUFFICES ASSUME IInv, TryRemove PROVE IInv'
  OBVIOUS
<1> DEFINE ref == Head(todo)
<1>1. /\ pc = "removing" /\ todo # <<>> /\ stopTried /\ mode = "OPEN"
      /\ UNCHANGED <<row, deployment, given, touched, candidate, recovered, dbFaults>>
      /\ Atomic' = Atomic /\ owned' = owned /\ faults \in 0..MaxFaults
      /\ stage \in {"recreate", "atomic", "abandon", "recover"}
  BY DEF TryRemove, IInv, ControlInv, Ended, Atomic, TypeOK, given, TodoInv
<1>2. PICK answer \in {"ok", "gone", "error"} :
        /\ Docker(D!RmOutcomes(docker, ref), answer)
        /\ answer = "ok" => Returned
        /\ answer = "gone" => /\ todo' = Tail(todo) /\ stopTried' = FALSE
                              /\ UNCHANGED <<pc, stage, mode>>
        /\ answer = "error" => IF stage \in {"recreate", "atomic"}
                               THEN Recover /\ UNCHANGED mode ELSE RecoveryFails
  BY DEF TryRemove
<1>3. /\ docker' \in [Ids -> Containers \cup {Absent}]
      /\ faults' \in {faults, faults + 1} /\ faults' \in 0..MaxFaults
      /\ answer = "ok" => faults' = faults
      /\ answer = "gone" => docker' = docker /\ faults' = faults
      /\ answer = "error" /\ faults' = faults => D!Up(docker, ref)
  BY <1>1, <1>2, RmStep DEF IInv
<1>4. /\ HostInv' /\ docker'[Again] = Absent
      /\ docker'[New] \in {docker[New], Absent} /\ docker'[Old] \in {docker[Old], Absent}
      /\ ~touched => docker'[Old] = docker[Old]
      /\ stage = "atomic" => docker'[New] = docker[New]
      /\ answer = "ok" =>
           /\ stage \in {"recreate", "atomic"} => docker'[Old] = Absent
           /\ stage = "abandon" => docker'[New] = Absent
           /\ stage = "recover" => docker'[New] = Absent /\ (~Atomic => docker'[Old] = Absent)
      /\ answer = "gone" =>
           /\ stage \in {"recreate", "atomic"} /\ ref = App => docker[Old] = Absent
           /\ stage = "abandon" /\ ref = Temp => docker[New] = Absent
           /\ stage = "recover" /\ ref = New => docker[New] = Absent
           /\ stage = "recover" /\ ref = App /\ candidate = NoRef =>
                docker[New] = Absent /\ docker[Old] = Absent
  BY <1>1, <1>2, Cleared
<1>5. CASE answer = "ok"
  BY <1>1, <1>2, <1>3, <1>4, <1>5, ReturnInv
<1>6. CASE answer = "gone"
  <2>1. todo' = Tail(todo) /\ stopTried' = FALSE /\ UNCHANGED <<docker, faults, pc, stage, mode>>
    BY <1>2, <1>3, <1>6
  <2>2. StartInv' /\ todo' \in Seq(Refs)
    BY <1>1, <2>1, GivenKept, TodoRefs DEF IInv
  <2>3. TypeOK'
    BY <1>1, <2>1, <2>2 DEF IInv, TypeOK, given
  <2>4. ControlInv' /\ PlaceInv'
    BY <1>1, <2>1 DEF IInv, ControlInv, PlaceInv, Removing, Ended, Healthy, given
  <2>5. TodoInv'
    <3>1. stage \in {"recreate", "atomic"} =>
            /\ todo' \in {<<App>>, <<>>} /\ (todo' = <<>> => docker[Old] = Absent)
      <4>1. <<App>> # <<>>
        OBVIOUS
      <4> QED BY <1>1, <1>4, <1>6, <2>1, <4>1, TodoRefs
    <3>2. stage = "abandon" =>
            /\ todo' \in {<<Temp>>, <<>>} /\ (todo' = <<>> => docker[New] = Absent)
      <4>1. <<Temp>> # <<>>
        OBVIOUS
      <4> QED BY <1>1, <1>4, <1>6, <2>1, <4>1, TodoRefs
    <3>3. stage = "recover" =>
            /\ todo' \in {<<Temp, App>>, <<App>>, <<>>}
            /\ docker[New] # Absent => candidate = NoRef /\ todo' # <<>>
            /\ ~Atomic /\ docker[Old] # Absent => candidate = NoRef /\ todo' # <<>>
      <4>1. <<Temp, App>> # <<>> /\ <<App>> # <<>>
        OBVIOUS
      <4> QED BY <1>1, <1>4, <1>6, <2>1, <4>1, TodoRefs, ConstantsAssumption
    <3>4. <<App>> # <<was.row.dockerId, App>> /\ <<>> # <<was.row.dockerId, App>>
          /\ <<Temp, App>> # <<New, Temp, App>> /\ <<App>> # <<New, Temp, App>>
          /\ <<>> # <<New, Temp, App>> /\ was' = was
      BY <1>1 DEF given
    <3> QED BY <1>1, <2>1, <3>1, <3>2, <3>3, <3>4 DEF TodoInv, Removing
  <2>6. OutcomeTruth' /\ RecordInv'
    BY <1>1, <2>1 DEF IInv, OutcomeTruth, RecordInv, given
  <2>7. CostInv'
    BY <1>1, <2>1 DEF IInv, CostInv, Cost, Removing
  <2> QED BY <1>4, <2>2, <2>3, <2>4, <2>5, <2>6, <2>7 DEF IInv
<1>7. CASE answer = "error"
  <2>1. Counted /\ row' \in Row /\ deployment' \in {"RUNNING", "SUCCESS", "FAILED"}
    BY <1>1, <1>3 DEF IInv, TypeOK, Counted
  <2>2. ~touched => /\ docker'[Old] = docker[Old] /\ Atomic
                    /\ docker'[New] # Absent => docker'[New].name = Temp
    BY <1>1, <1>4 DEF IInv, ControlInv, PlaceInv
  <2>3. /\ Cost \in Nat /\ Cost' >= Cost /\ Cost' \in Nat
        /\ faults' = faults + 1 => Cost' >= Cost + 1 /\ Cost' >= 1
    BY <1>1, <1>3, CostGrows DEF IInv
  <2>4. CASE stage \in {"recreate", "atomic"}
    <3>1. ~Atomic => stage = "recreate" /\ candidate = NoRef
      BY <1>1, <2>4 DEF IInv, ControlInv, Removing
    <3>2. ~Atomic => Cost' >= 1
      <4>1. ~Atomic /\ D!Up(docker, ref) => Cost >= 1
        BY <1>1, <3>1 DEF IInv, CostInv, Removing
      <4> QED BY <1>3, <1>7, <2>3, <4>1
    <3> QED BY <1>1, <1>2, <1>4, <1>7, <2>1, <2>2, <2>4, <3>1, <3>2, RecoveryInv DEF Ended
  <2>5. CASE stage \in {"abandon", "recover"}
    <3>1. ~Atomic => Cost' >= 2
      <4>1. ~Atomic => stage = "recover" /\ Cost >= 1
        BY <1>1, <2>5 DEF IInv, ControlInv, CostInv, Removing
      <4>2. ~Atomic /\ D!Up(docker, ref) => Cost >= 2
        BY <1>1, <4>1 DEF IInv, CostInv, Removing
      <4> QED BY <1>3, <1>7, <2>3, <4>1, <4>2
    <3> QED BY <1>1, <1>2, <1>4, <1>7, <2>1, <2>2, <2>5, <3>1, FailureInv DEF Ended
  <2> QED BY <1>1, <2>4, <2>5
<1> QED BY <1>5, <1>6, <1>7

-----------------------------------------------------------------------------
LEMMA InvStep == IInv /\ [Next]_vars => IInv'
<1> SUFFICES ASSUME IInv, [Next]_vars PROVE IInv'
  OBVIOUS
<1>1. CASE UNCHANGED vars
  <2>1. HostInv' /\ StartInv'
    BY <1>1, GivenKept DEF IInv, vars, given
  <2>2. TypeOK' /\ ControlInv' /\ TodoInv' /\ PlaceInv'
    BY <1>1 DEF IInv, vars, TypeOK, ControlInv, TodoInv, PlaceInv, Removing, Atomic, Healthy
  <2>3. OutcomeTruth' /\ CostInv' /\ RecordInv'
    BY <1>1 DEF IInv, vars, OutcomeTruth, CostInv, Cost, RecordInv, Removing, Atomic, Healthy,
                OnlyContainer, NewRow, FirstRef, CurrentRefs, Shortened
  <2> QED BY <2>1, <2>2, <2>3 DEF IInv
<1> QED BY <1>1, PrepareFailsInv, PrepareInv, TryStopInv, TryRemoveInv, NothingToRemoveInv,
           LaunchInv, ProbeInv, RenameInv, FinalizeInv, SucceedInv, CheckPreviousInv,
           RelaunchInv, CheckRecoveredInv, RecordRowInv, RecordFailureInv DEF Next

(* The invariant holds in every state of every rollback.                   *)
THEOREM Invariant == Spec => []IInv
<1> QED BY InvInit, InvStep, PTL DEF Spec

(* Every variable of a rollback keeps its type.                            *)
THEOREM TypeCorrect == Spec => []TypeOK
<1>1. IInv => TypeOK
  BY DEF IInv
<1> QED BY <1>1, Invariant, PTL

(* An outcome that a rollback reports is what is on the host, and an       *)
(* atomic one leaves the previous runtime alone until its candidate was    *)
(* found healthy.                                                          *)
THEOREM OutcomesAreTrue == Spec => []OutcomeTruth
<1>1. IInv => OutcomeTruth
  BY DEF IInv
<1> QED BY <1>1, Invariant, PTL

(* The last write of the row leaves a row that finds its container, or     *)
(* says that there is none, for any number of failing commands and writes  *)
(* before it; and the Deployment row is closed unless a write failed.      *)
THEOREM RecordsAreTrue == Spec => []RecordsTruth
<1>1. ASSUME IInv, RowWritten, mode # "NONE", was.row.dockerId # NoRef
      PROVE  RowTrue
  <2>1. /\ mode = "FAILED" => row.status = "ERROR"
        /\ mode \in {"UNCHANGED", "RECREATED"} =>
             row = [image |-> Prev, status |-> "RUNNING", dockerId |-> Shortened(recovered)]
    BY <1>1 DEF IInv, RecordInv, RowWritten
  <2>2. mode \in {"SUCCESS", "UNCHANGED", "RECREATED", "FAILED"}
    BY <1>1 DEF IInv, TypeOK, ControlInv, Ended, RowWritten
  <2>3. \A i \in Ids : docker[i] # Absent /\ docker[i].state = "running" =>
          D!Running(docker, i) /\ D!Matches(docker, i) = {i}
    BY <1>1, ConstantsAssumption DEF IInv, HostInv, D!Running, D!Matches, Ids, Containers
  <2>4. CASE mode = "SUCCESS"
    <3>1. row = [image |-> Target, status |-> "RUNNING", dockerId |-> New]
      BY <1>1, <2>4 DEF IInv, RecordInv, NewRow
    <3>2. docker[New] = [name |-> App, image |-> Target, state |-> "running"]
          /\ docker[New] # Absent
      BY <1>1, <2>4, ConstantsAssumption DEF IInv, OutcomeTruth, Healthy, Containers
    <3> QED BY <2>3, <2>4, <3>1, <3>2 DEF Ids, RowTrue
  <2>5. CASE mode = "RECREATED"
    <3>1. row = [image |-> Prev, status |-> "RUNNING", dockerId |-> Again]
      BY <1>1, <2>1, <2>5, ConstantsAssumption DEF IInv, RecordInv, Shortened
    <3>2. docker[Again] = [name |-> App, image |-> Prev, state |-> "running"]
          /\ docker[Again] # Absent
      BY <1>1, <2>5, ConstantsAssumption DEF IInv, OutcomeTruth, Healthy, Containers
    <3> QED BY <2>3, <2>5, <3>1, <3>2 DEF Ids, RowTrue
  <2>6. CASE mode = "UNCHANGED"
    <3>1. was.row.dockerId \in {Old, Stale} /\ recovered = was.row.dockerId
      BY <1>1, <2>6, References DEF IInv, RecordInv, StartInv
    <3>2. D!Running(docker, recovered)
      BY <1>1, <2>6 DEF IInv, RecordInv
    <3>3. recovered = Old
      <4>1. D!Matches(docker, Stale) = {}
        BY <1>1, Finds DEF IInv, Refs
      <4> QED BY <3>1, <3>2, <4>1 DEF D!Running
    <3>4. row = [image |-> Prev, status |-> "RUNNING", dockerId |-> Old]
      BY <2>1, <2>6, <3>3, ConstantsAssumption DEF Shortened
    <3>5. docker[Old] = [name |-> App, image |-> Prev, state |-> "running"]
          /\ docker[Old] # Absent
      BY <1>1, <2>6, ConstantsAssumption DEF IInv, OutcomeTruth, Healthy, Containers
    <3> QED BY <2>3, <2>6, <3>4, <3>5 DEF Ids, RowTrue
  <2> QED BY <2>1, <2>2, <2>4, <2>5, <2>6 DEF RowTrue
<1>2. IInv => RecordsTruth
  BY <1>1 DEF RecordsTruth, IInv, RecordInv
<1> QED BY <1>2, Invariant, PTL

(* One fault does not leave an application with published ports down.      *)
THEOREM OneFaultIsSurvived == Spec => []OneFaultRecovers
<1>1. IInv => OneFaultRecovers
  <2> SUFFICES ASSUME IInv, ~Atomic, mode = "FAILED", Cost <= 1
               PROVE  FALSE
    BY DEF OneFaultRecovers, Cost
  <2>1. Cost >= 2
    BY DEF IInv, CostInv
  <2>2. Cost \in Nat
    <3>1. faults \in Nat /\ dbFaults \in Nat
      BY ConstantsAssumption DEF IInv, TypeOK
    <3> QED BY <3>1 DEF Cost
  <2> QED BY <2>1, <2>2
<1> QED BY <1>1, Invariant, PTL
=============================================================================
