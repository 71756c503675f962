------------------------ MODULE Deployments_proofs ------------------------
(***************************************************************************)
(* Proofs about the requests of DeploymentOps and ContainerDeploys side by *)
(* side, for any number of requests and any bounds on containers, rows,    *)
(* failures, crashes and lost locks; and about the background job that a   *)
(* deployment or a rebuild runs in (ProcessJob), for any number of         *)
(* clients, lines and kept entries.  The two share no variable.            *)
(***************************************************************************)
EXTENDS ContainerDeploys, ProcessJob, FiniteSetTheorems, WellFoundedInduction, TLAPS

(* Which kinds of request come to a step.                                  *)
Suits(kind, step) ==
  /\ step \in {"check", "inspect", "resolve", "probe", "cleanup", "verify", "relaunch",
               "reverify"} => kind \in Rollbacks
  /\ step \in {"acquire", "create", "succeed", "recordFailure", "release"} => kind \in Deploys
  /\ step = "clear" => kind \in Deploys \cup {"delete"}
  /\ step = "launch" => kind \in Deploys \cup NewDeploys
  /\ step = "rename" => kind = "atomic"
  /\ step \in {"finalize", "recordRow"} => kind \in Rollbacks \cup {"app"}
  /\ step = "list" => kind \in {"git", "source", "start"}
  /\ step \in {"read", "apply"} => kind \in {"git", "start", "sync"} \cup NewDeploys
  /\ step = "match" => kind \in {"git", "source"}
  /\ step = "drop" => kind \in {"delete", "rm"}
  /\ step \in {"name", "history", "fail"} => kind \in NewDeploys
  /\ step \in {"insert", "record"} => kind = "image"
  /\ step = "act" => kind \in Actions
  /\ step \in {"state", "note"} => kind \in {"start", "stop"}

(* What a request in state o remembers when it needs it: a row and what it *)
(* read there, the host and the table its sync has seen, and an id with    *)
(* the status of a container that Docker restarts.  Only at its end has a  *)
(* deployment of an image failed to write down its failure.                *)
Remembers(o) ==
  /\ o.kind \in Rollbacks \cup {"git", "delete"} \cup Actions
     /\ o.pc \notin {"start", "done", "crashed"} => o.on \in RowIds /\ o.seen \in Row
  /\ o.kind = "app" /\ o.pc \in {"acquire", "create"} => o.on \in RowIds
  /\ o.kind = "image" /\ o.pc \in {"launch", "record", "history", "fail"} => o.on \in RowIds
  /\ o.pc \in {"read", "apply"} => o.list \in Hosts
  /\ o.pc = "apply" => o.known \in Tables
  /\ o.pc = "note" /\ o.seen.status = "STARTING" => o.seen.dockerId \in Ids
  /\ o.kind = "image" /\ o.unsaved => o.pc \in {"done", "crashed"}

HostOK == docker \in Hosts /\ lastId \in Ids /\ faults \in 0..MaxFaults

TableOK ==
  /\ rows \in Tables /\ lastRow \in RowIds /\ sourced \subseteq RowIds
  /\ lock \in [RowIds -> Ops \cup {NoOp}]
  /\ history \in [Ops -> Deployment \cup {None, Erased}]

OpsOK ==
  /\ op \in [Ops -> OpState]
  /\ \A p \in Ops : Suits(op[p].kind, op[p].pc) /\ Remembers(op[p])

MishapsOK == crashes \in 0..MaxCrashes /\ losses \in 0..MaxLosses

Parts == HostOK /\ TableOK /\ OpsOK /\ MishapsOK

(* The inductive invariant: what is where, and that a row without a        *)
(* container says STARTING only under its deployment.                      *)
IInv == Parts /\ StartingIsUnderWay

LEMMA RowIds1 == 1 \in RowIds /\ Nothing \notin Ids
  BY ConstantsAssumption DEF RowIds, Nothing, Ids

LEMMA PartsType == Parts => TypeOK
  BY DEF Parts, HostOK, TableOK, OpsOK, MishapsOK, TypeOK

-----------------------------------------------------------------------------
(* Every non-empty set of numbers has a least one.                         *)
LEMMA LeastNatural ==
  ASSUME NEW T \in SUBSET Nat, T # {}
  PROVE  \E i \in T : \A j \in T : i <= j
<1> DEFINE R == {ss \in Nat \X Nat : ss[1] < ss[2]}
<1>1. IsWellFoundedOn(R, Nat)
  BY NatLessThanWellFounded DEF OpToRel
<1>2. PICK i \in T : \A j \in T : <<j, i>> \notin R
  <2> HIDE DEF R
  <2> QED BY <1>1, WFMin
<1>3. \A j \in T : ~(j < i)
  BY <1>2
<1> QED BY <1>3

(* What Docker commands make of a host is a host.                          *)
Typed(O) == \A o \in O : o.docker \in Hosts /\ o.fault \in {0, 1}

LEMMA AttemptTyped ==
  ASSUME NEW d \in Hosts, NEW e \in Hosts
  PROVE  /\ Typed(D!Attempt(d, e))
         /\ Typed({D!Outcome("gone", d, 0)}) /\ Typed({D!Outcome("ok", d, 0)})
         /\ Typed({D!Outcome("error", d, 0)}) /\ Typed({D!Outcome("error", d, 1)})
  BY DEF D!Attempt, D!Outcome, Typed

LEMMA TypedUnion ==
  ASSUME NEW O, NEW Q, Typed(O), Typed(Q)
  PROVE  Typed(O \cup Q)
  BY DEF Typed

LEMMA ChangedHosts ==
  ASSUME NEW d \in Hosts, NEW ref
  PROVE  /\ D!Matches(d, ref) \subseteq {i \in Ids : d[i] \in Container}
         /\ D!Stopped(d, ref) \in Hosts
         /\ \A s \in D!UpStates : D!Started(d, ref, s) \in Hosts
         /\ D!Removed(d, ref) \in Hosts
         /\ \A name \in {App} \cup Ops :
              [i \in Ids |-> IF i \in D!Matches(d, ref)
                             THEN [d[i] EXCEPT !.name = name] ELSE d[i]] \in Hosts
<1>1. \A i \in D!Matches(d, ref) : i \in Ids /\ d[i] \in Container
  BY DEF D!Matches, Hosts
<1>2. \A c \in Container :
        /\ [c EXCEPT !.state = "exited"] \in Container
        /\ \A s \in D!UpStates : [c EXCEPT !.state = s] \in Container
        /\ \A name \in {App} \cup Ops : [c EXCEPT !.name = name] \in Container
  BY DEF Container, D!UpStates
<1>3. D!Stopped(d, ref) \in Hosts
  BY <1>1, <1>2 DEF D!Stopped, Hosts
<1>4. \A s \in D!UpStates : D!Started(d, ref, s) \in Hosts
  BY <1>1, <1>2 DEF D!Started, Hosts
<1>5. D!Removed(d, ref) \in Hosts
  BY DEF D!Removed, Hosts
<1>6. ASSUME NEW name \in {App} \cup Ops
      PROVE  [i \in Ids |-> IF i \in D!Matches(d, ref)
                            THEN [d[i] EXCEPT !.name = name] ELSE d[i]] \in Hosts
  BY <1>1, <1>2 DEF Hosts
<1> QED BY <1>1, <1>3, <1>4, <1>5, <1>6

LEMMA OutcomesTyped ==
  ASSUME NEW d \in Hosts, NEW ref
  PROVE  /\ Typed(D!StopOutcomes(d, ref)) /\ Typed(D!StartOutcomes(d, ref))
         /\ Typed(D!RmOutcomes(d, ref)) /\ Typed(D!HealthOutcomes(d, ref))
         /\ \A name \in {App} \cup Ops : Typed(D!RenameOutcomes(d, ref, name))
<1>1. Typed(D!StopOutcomes(d, ref)) /\ Typed(D!RmOutcomes(d, ref))
  BY ChangedHosts, AttemptTyped DEF D!StopOutcomes, D!RmOutcomes
<1>4. Typed(D!StartOutcomes(d, ref))
  <2>1. D!Started(d, ref, "running") \in Hosts /\ D!Started(d, ref, "restarting") \in Hosts
    BY ChangedHosts DEF D!UpStates
  <2>2. Typed({D!Outcome("ok", D!Started(d, ref, "restarting"), 1)})
    BY <2>1 DEF Typed, D!Outcome
  <2> QED BY <2>1, <2>2, AttemptTyped, TypedUnion DEF D!StartOutcomes
<1>2. Typed(D!HealthOutcomes(d, ref))
  BY AttemptTyped DEF D!HealthOutcomes, Typed, D!Outcome
<1>3. ASSUME NEW name \in {App} \cup Ops
      PROVE  Typed(D!RenameOutcomes(d, ref, name))
  BY ChangedHosts, AttemptTyped DEF D!RenameOutcomes
<1> QED BY <1>1, <1>2, <1>3, <1>4

LEMMA RunTyped ==
  ASSUME NEW d \in Hosts, NEW id \in Ids, NEW name \in {App} \cup Ops,
         NEW image \in {Prev} \cup Ops
  PROVE  Typed(D!RunOutcomes(d, id, name, image))
<1> DEFINE With(state) == [d EXCEPT ![id] = [name |-> name, image |-> image, state |-> state]]
<1>1. \A s \in {"running", "created", "exited", "restarting"} : With(s) \in Hosts
  BY DEF Hosts, Container
<1>2. Typed({D!Outcome("error", With("created"), 1), D!Outcome("ok", With("exited"), 1),
             D!Outcome("ok", With("restarting"), 1)})
  <2> HIDE DEF With
  <2> QED BY <1>1 DEF Typed, D!Outcome
<1>3. Typed(D!Attempt(d, With("running")))
  BY <1>1, AttemptTyped
<1> HIDE DEF With
<1>4. Typed(D!Attempt(d, With("running"))
              \cup {D!Outcome("error", With("created"), 1), D!Outcome("ok", With("exited"), 1),
                    D!Outcome("ok", With("restarting"), 1)})
  BY <1>2, <1>3, TypedUnion
<1> QED BY <1>4, AttemptTyped DEF D!RunOutcomes, With

LEMMA RemoveTyped ==
  ASSUME HostOK, NEW refs
  PROVE  Typed(RemoveOutcomes(refs))
<1>1. docker \in Hosts
  BY DEF HostOK
<1>2. ASSUME NEW ref
      PROVE  Typed(D!Attempt(docker, D!Removed(docker, ref))
                     \cup {D!Outcome("error", D!Stopped(docker, ref), 1)})
  <2>1. Typed({D!Outcome("error", D!Stopped(docker, ref), 1)})
    BY <1>1, ChangedHosts, AttemptTyped
  <2>2. Typed(D!Attempt(docker, D!Removed(docker, ref)))
    BY <1>1, ChangedHosts, AttemptTyped
  <2> QED BY <2>1, <2>2, TypedUnion
<1>3. Typed({D!Outcome("ok", docker, 0)})
  BY <1>1, AttemptTyped
<1> QED BY <1>2, <1>3 DEF RemoveOutcomes, Typed

(* The host after a command; the caller keeps the id of the newest one.    *)
LEMMA DockerTyped ==
  ASSUME HostOK, NEW O, NEW A, Typed(O), Docker(O, A)
  PROVE  docker' \in Hosts /\ faults' \in 0..MaxFaults
<1>1. PICK o \in O : /\ faults + o.fault <= MaxFaults
                     /\ faults' = faults + o.fault /\ docker' = o.docker
  BY DEF Docker
<1>2. o.docker \in Hosts /\ o.fault \in {0, 1}
  BY DEF Typed
<1>3. faults + o.fault \in 0..MaxFaults
  BY <1>1, <1>2, ConstantsAssumption DEF HostOK
<1> QED BY <1>1, <1>2, <1>3

-----------------------------------------------------------------------------
(* What a step of one request has to show.                                 *)
Waits(t, r) == t[r] # NoRow /\ t[r].status = "STARTING" /\ t[r].dockerId = Nothing

Bears(o, r) == /\ o.kind = "image" /\ o.on = r
               /\ o.pc \in {"launch", "record", "fail", "crashed"} \/ o.unsaved

NoneNew == \A r \in RowIds : Waits(rows', r) => Waits(rows, r)

LEMMA StepTo ==
  ASSUME IInv, NEW p \in Ops, NEW o \in OpState, op' = [op EXCEPT ![p] = o],
         Suits(o.kind, o.pc), Remembers(o), HostOK', TableOK', UNCHANGED mishaps, NoneNew,
         \A r \in RowIds : Waits(rows', r) /\ Bears(op[p], r) => Bears(o, r)
  PROVE  IInv'
<1>1. op \in [Ops -> OpState] /\ \A q \in Ops : Suits(op[q].kind, op[q].pc) /\ Remembers(op[q])
  BY DEF IInv, Parts, OpsOK
<1>2. op' \in [Ops -> OpState] /\ op'[p] = o /\ \A q \in Ops \ {p} : op'[q] = op[q]
  BY <1>1
<1>3. \A q \in Ops : Suits(op'[q].kind, op'[q].pc) /\ Remembers(op'[q])
  BY <1>1, <1>2
<1>4. OpsOK'
  BY <1>2, <1>3 DEF OpsOK, Suits, Remembers
<1>5. MishapsOK'
  BY DEF IInv, Parts, MishapsOK, mishaps
<1>6. ASSUME NEW r \in RowIds, Waits(rows', r)
      PROVE  \E q \in Ops : Bears(op'[q], r)
  <2>1. PICK q \in Ops : Bears(op[q], r)
    BY <1>6 DEF NoneNew, IInv, StartingIsUnderWay, Waits, Bears
  <2> QED BY <1>2, <1>6, <2>1
<1>7. StartingIsUnderWay'
  BY <1>6 DEF StartingIsUnderWay, Waits, Bears
<1> QED BY <1>4, <1>5, <1>7 DEF IInv, Parts

(* A request may go to a step without learning anything.                   *)
May(p, step) ==
  /\ step \in Steps \ {"start", "read", "apply", "note"} /\ Suits(op[p].kind, step)
  /\ op[p].pc = "start" =>
       step = "done" \/ op[p].kind \in {"app", "sync"} \cup NewDeploys
  /\ op[p].pc \in {"done", "crashed"} => step = "done"
  /\ op[p].kind = "app" /\ step \in {"acquire", "create"} => op[p].pc \in {"acquire", "create"}
  /\ op[p].kind = "image" /\ step \in {"launch", "record", "history", "fail"} =>
       op[p].pc \in {"launch", "record", "history", "fail"}

(* It does not leave its STARTING row alone.                               *)
Stays(p, step) ==
  op[p].kind = "image" /\ op[p].pc \in {"launch", "record", "fail", "crashed"} =>
    \/ step \in {"launch", "record", "fail"}
    \/ op[p].on \in RowIds => ~Waits(rows', op[p].on)

(* The request goes there with what it remembered, but for some fields.    *)
Follows(old, o, step) ==
  /\ o \in OpState /\ o.pc = step
  /\ o.kind = old.kind /\ o.on = old.on /\ o.seen = old.seen
  /\ o.kind = "image" => o.unsaved = old.unsaved

LEMMA Onward ==
  ASSUME IInv, NEW p \in Ops, NEW o, NEW step, op' = [op EXCEPT ![p] = o],
         Follows(op[p], o, step), May(p, step), Stays(p, step),
         HostOK', TableOK', UNCHANGED mishaps, NoneNew
  PROVE  IInv'
<1>1. op[p] \in OpState /\ Remembers(op[p])
  BY DEF IInv, Parts, OpsOK
<1>2. Suits(o.kind, o.pc)
  BY DEF May, Follows
<1>3. Remembers(o)
  BY <1>1 DEF Follows, May, Remembers, Suits, Deploys, Rollbacks, NewDeploys, Actions
<1>4. \A r \in RowIds : Waits(rows', r) /\ Bears(op[p], r) => Bears(o, r)
  BY DEF Stays, Bears, Follows
<1> QED BY <1>2, <1>3, <1>4, StepTo DEF Follows

(* The fields that requests set on the way.                                *)
LEMMA Updates ==
  ASSUME NEW o \in OpState, NEW step \in Steps
  PROVE  /\ \A image \in {Prev} \cup Ops :
              Follows(o, [o EXCEPT !.pc = step, !.prev = image], step)
         /\ Follows(o, [o EXCEPT !.touched = TRUE, !.pc = step], step)
         /\ \A i \in Ids \cup {Nothing} :
              /\ Follows(o, [o EXCEPT !.cand = i, !.pc = step], step)
              /\ Follows(o, [o EXCEPT !.back = i, !.pc = step], step)
         /\ \A mode \in {"unchanged", "recreated", "failed"} :
              Follows(o, [o EXCEPT !.mode = mode, !.pc = step], step)
         /\ Follows(o, [o EXCEPT !.list = None, !.known = None, !.pc = step], step)
         /\ \A b \in BOOLEAN :
              (o.kind = "image" => b = o.unsaved)
              => Follows(o, [o EXCEPT !.list = None, !.known = None, !.unsaved = b, !.pc = step],
                         step)
<1> USE DEF OpState, Follows
<1>1. \A image \in {Prev} \cup Ops : Follows(o, [o EXCEPT !.pc = step, !.prev = image], step)
  OBVIOUS
<1>2. Follows(o, [o EXCEPT !.touched = TRUE, !.pc = step], step)
  OBVIOUS
<1>3. \A i \in Ids \cup {Nothing} : Follows(o, [o EXCEPT !.cand = i, !.pc = step], step)
  OBVIOUS
<1>4. \A i \in Ids \cup {Nothing} : Follows(o, [o EXCEPT !.back = i, !.pc = step], step)
  OBVIOUS
<1>5. \A mode \in {"unchanged", "recreated", "failed"} :
        Follows(o, [o EXCEPT !.mode = mode, !.pc = step], step)
  OBVIOUS
<1>6. Follows(o, [o EXCEPT !.list = None, !.known = None, !.pc = step], step)
  OBVIOUS
<1>7. ASSUME NEW b \in BOOLEAN, o.kind = "image" => b = o.unsaved
      PROVE  Follows(o, [o EXCEPT !.list = None, !.known = None, !.unsaved = b, !.pc = step], step)
  BY <1>7
<1> HIDE DEF Follows, OpState
<1> QED BY <1>1, <1>2, <1>3, <1>4, <1>5, <1>6, <1>7

LEMMA Goes ==
  ASSUME IInv, NEW p \in Ops, NEW step, Goto(p, step), May(p, step), Stays(p, step),
         HostOK', TableOK', UNCHANGED mishaps, NoneNew
  PROVE  IInv'
<1>1. op \in [Ops -> OpState] /\ step \in Steps
  BY DEF IInv, Parts, OpsOK, May
<1> DEFINE o == [op[p] EXCEPT !.pc = step]
<1>2. op' = [op EXCEPT ![p] = o] /\ Follows(op[p], o, step)
  BY <1>1 DEF OpState, Goto, Follows
<1> HIDE DEF o
<1> QED BY <1>2, Onward

LEMMA SameRows ==
  ASSUME rows' = rows
  PROVE  NoneNew
  BY DEF NoneNew

LEMMA SameTable ==
  ASSUME IInv, UNCHANGED table
  PROVE  TableOK' /\ NoneNew
  BY DEF IInv, Parts, TableOK, table, NoneNew

LEMMA SameHost ==
  ASSUME IInv, UNCHANGED host
  PROVE  HostOK'
  BY DEF IInv, Parts, HostOK, host

LEMMA DockerHostOK ==
  ASSUME IInv, NEW O, NEW A, Typed(O), Docker(O, A), lastId' \in Ids
  PROVE  HostOK'
<1>1. HostOK
  BY DEF IInv, Parts
<1> QED BY <1>1, DockerTyped DEF HostOK

(* What is known of the request that takes a step.                         *)
LEMMA Known ==
  ASSUME IInv, NEW p \in Ops
  PROVE  /\ op \in [Ops -> OpState] /\ op[p] \in OpState
         /\ Suits(op[p].kind, op[p].pc) /\ Remembers(op[p])
         /\ op[p].kind \in Deploys \cup NewDeploys \cup Actions \cup {"sync", "delete"}
  BY ConstantsAssumption DEF IInv, Parts, OpsOK, OpState

-----------------------------------------------------------------------------
(* The steps of DeploymentOps.                                             *)
LEMMA CheckInv ==
  ASSUME IInv, NEW p \in Ops, Check(p)
  PROVE  IInv'
<1>1. PICK step \in {"done", "acquire"} : Goto(p, step)
  BY DEF Check
<1>2. May(p, step) /\ Stays(p, step)
  BY Known, <1>1 DEF Check, At, May, Stays, Suits, Steps, Deploys, Rollbacks, NewDeploys
<1>3. UNCHANGED host /\ UNCHANGED table /\ UNCHANGED mishaps
  BY DEF Check
<1> QED BY <1>1, <1>2, <1>3, Goes, SameHost, SameTable

LEMMA AcquireInv ==
  ASSUME IInv, NEW p \in Ops, Acquire(p)
  PROVE  IInv'
<1>1. PICK step \in {"recordRow", "done", "create"} :
        Goto(p, step) /\ (step = "recordRow" => op[p].kind = "app")
  BY DEF Acquire
<1>2. May(p, step) /\ Stays(p, step)
  BY Known, <1>1 DEF Acquire, May, Stays, Suits, Steps, Deploys, Rollbacks, NewDeploys
<1>3. UNCHANGED host /\ UNCHANGED mishaps /\ NoneNew
  BY DEF Acquire, NoneNew
<1>4. TableOK'
  BY DEF Acquire, IInv, Parts, TableOK
<1> QED BY <1>1, <1>2, <1>3, <1>4, Goes, SameHost

LEMMA CreateInv ==
  ASSUME IInv, NEW p \in Ops, Create(p)
  PROVE  IInv'
<1>1. op[p].kind \in Deploys /\ op[p].pc = "create"
  BY Known DEF Create, Suits
<1>2. PICK step \in {"inspect", "clear", "release", "recordFailure", "recordRow"} :
        /\ Goto(p, step)
        /\ step = "inspect" => op[p].kind \in Rollbacks
        /\ step = "recordRow" => op[p].kind = "app"
  BY <1>1 DEF Create, OnError, Deploys, Rollbacks
<1>3. May(p, step) /\ Stays(p, step)
  BY <1>1, <1>2 DEF May, Stays, Suits, Steps, Deploys, Rollbacks
<1>4. UNCHANGED host /\ UNCHANGED mishaps /\ NoneNew
  BY DEF Create, NoneNew
<1>5. op[p].on \in RowIds
  BY <1>1, Known DEF Remembers, Deploys
<1>6. TableOK'
  BY <1>5 DEF Create, IInv, Parts, TableOK, Deployment
<1> QED BY <1>2, <1>3, <1>4, <1>6, Goes, SameHost

LEMMA InspectInv ==
  ASSUME IInv, NEW p \in Ops, Inspect(p)
  PROVE  IInv'
<1>1. /\ op[p].kind \in Rollbacks /\ op[p].pc = "inspect" /\ op[p].seen \in Row
  BY Known DEF Inspect, Suits, Remembers
<1>2. docker \in Hosts
  BY DEF IInv, Parts, HostOK
<1>3. PICK image \in {Prev} \cup Ops :
        op' = [op EXCEPT ![p].pc = "resolve", ![p].prev = image]
  <2>1. CASE \E i \in D!Matches(docker, CurrentRef(p)) :
               op' = [op EXCEPT ![p].pc = "resolve", ![p].prev = docker[i].image]
    BY <1>2, <2>1, ChangedHosts DEF Container
  <2>2. CASE op' = [op EXCEPT ![p].pc = "resolve", ![p].prev = op[p].seen.image]
    BY <1>1, <2>2 DEF Row
  <2> QED BY <2>1, <2>2 DEF Inspect
<1> DEFINE o == [op[p] EXCEPT !.pc = "resolve", !.prev = image]
<1>4. op' = [op EXCEPT ![p] = o]
  BY <1>3, Zenon
<1>5. Follows(op[p], o, "resolve")
  BY Known, Updates DEF Steps
<1> HIDE DEF o
<1>6. May(p, "resolve") /\ Stays(p, "resolve")
  BY <1>1 DEF May, Stays, Suits, Steps, Rollbacks
<1>7. HostOK'
  <2>1. CASE UNCHANGED host
    BY <2>1, SameHost
  <2>2. ASSUME NEW n \in {0, 1}, Docker({D!Outcome("error", docker, n)}, {"error"}), lastId' = lastId
        PROVE  HostOK'
    <3>1. Typed({D!Outcome("error", docker, n)})
      BY <1>2, AttemptTyped
    <3> QED BY <2>2, <3>1, DockerHostOK DEF IInv, Parts, HostOK
  <2> QED BY <2>1, <2>2 DEF Inspect
<1>8. UNCHANGED table /\ UNCHANGED mishaps
  BY DEF Inspect
<1> QED BY <1>4, <1>5, <1>6, <1>7, <1>8, Onward, SameTable

LEMMA ResolveInv ==
  ASSUME IInv, NEW p \in Ops, Resolve(p)
  PROVE  IInv'
<1>1. op[p].pc = "resolve" /\ op[p].kind \in Rollbacks
  BY Known DEF Resolve, Suits
<1>2. PICK step \in {"launch", "clear", "recordRow"} : Goto(p, step)
  BY DEF Resolve
<1>3. May(p, step) /\ Stays(p, step)
  BY <1>1 DEF May, Stays, Suits, Steps, Deploys, Rollbacks
<1>4. HostOK'
  <2>1. CASE UNCHANGED host
    BY <2>1, SameHost
  <2>2. ASSUME Docker({D!Outcome("error", docker, 1)}, {"error"}), lastId' = lastId
        PROVE  HostOK'
    <3>1. docker \in Hosts /\ lastId \in Ids
      BY DEF IInv, Parts, HostOK
    <3> QED BY <2>2, <3>1, AttemptTyped, DockerHostOK
  <2> QED BY <2>1, <2>2 DEF Resolve
<1> QED BY <1>2, <1>3, <1>4, Goes, SameTable DEF Resolve

LEMMA ClearInv ==
  ASSUME IInv, NEW p \in Ops, Clear(p)
  PROVE  IInv'
<1>1. op[p].pc = "clear" /\ op[p].kind \in Deploys
  BY DEF Clear, At
<1> DEFINE refs == IF op[p].kind = "app" THEN <<App>>
                   ELSE <<op[p].seen.dockerId, op[p].seen.name>>
           To(answer) == IF answer = "ok" \/ op[p].kind = "app"
                         THEN IF op[p].kind = "atomic" THEN "rename" ELSE "launch"
                         ELSE OnError(p)
<1>7. PICK answer : /\ Docker(RemoveOutcomes(refs), {answer})
                    /\ op' = [op EXCEPT ![p].touched = TRUE, ![p].pc = To(answer)]
  BY DEF Clear
<1>8. /\ To(answer) \in {"rename", "launch", "cleanup", "recordFailure"}
      /\ To(answer) = "rename" => op[p].kind = "atomic"
      /\ To(answer) = "cleanup" => op[p].kind \in Rollbacks
  BY <1>1 DEF OnError, Deploys, Rollbacks
<1>2. PICK step \in {"rename", "launch", "cleanup", "recordFailure"} :
        /\ op' = [op EXCEPT ![p].touched = TRUE, ![p].pc = step]
        /\ step = "rename" => op[p].kind = "atomic"
        /\ step = "cleanup" => op[p].kind \in Rollbacks
  <2> HIDE DEF To
  <2> QED BY <1>7, <1>8
<1> HIDE DEF refs, To
<1> DEFINE o == [op[p] EXCEPT !.touched = TRUE, !.pc = step]
<1>3. op' = [op EXCEPT ![p] = o]
  BY <1>2, Zenon
<1>4. Follows(op[p], o, step)
  BY Known, Updates DEF Steps
<1> HIDE DEF o
<1>5. May(p, step) /\ Stays(p, step)
  BY <1>1, <1>2 DEF May, Stays, Suits, Steps, Deploys, Rollbacks
<1>6. HostOK'
  <2>1. HostOK /\ lastId' = lastId /\ lastId \in Ids
    BY DEF IInv, Parts, HostOK, Clear
  <2> QED BY <1>7, <2>1, RemoveTyped, DockerHostOK
<1> QED BY <1>3, <1>4, <1>5, <1>6, Onward, SameTable DEF Clear

LEMMA LaunchInv ==
  ASSUME IInv, NEW p \in Ops, Launch(p)
  PROVE  IInv'
<1>1. op[p].pc = "launch" /\ op[p].kind \in Deploys \cup NewDeploys
  BY Known DEF Launch, Suits
<1>2. lastId + 1 \in Ids /\ lastId' = lastId + 1
  BY ConstantsAssumption DEF Launch, IInv, Parts, HostOK, Ids
<1> DEFINE name == CASE op[p].kind = "atomic" -> p
                     [] op[p].kind \in NewDeploys \cup {"app"} -> App
                     [] OTHER -> op[p].seen.name
           next == CASE op[p].kind \in Rollbacks -> "probe"
                     [] op[p].kind \in {"git", "source"} -> "list"
                     [] op[p].kind = "app" -> "finalize"
                     [] op[p].kind = "image" -> "record"
<1>9. name \in {App} \cup Ops
  <2>1. op[p].kind \in {"recreate", "git"} => op[p].seen.name \in {App} \cup Ops
    BY <1>1, Known DEF Remembers, Row, Rollbacks
  <2> QED BY <1>1, <2>1 DEF Deploys, Rollbacks, NewDeploys
<1>10. /\ next \in {"probe", "list", "finalize", "record"}
       /\ next = "probe" => op[p].kind \in Rollbacks
       /\ next = "list" => op[p].kind \in {"git", "source"}
       /\ next = "finalize" => op[p].kind = "app"
       /\ next = "record" => op[p].kind = "image"
  BY <1>1 DEF Deploys, Rollbacks, NewDeploys
<1>11. PICK A \in {{"ok"}, {"error"}} :
         /\ Docker(D!RunOutcomes(docker, lastId + 1, name, p), A)
         /\ \/ op' = [op EXCEPT ![p].cand = lastId + 1, ![p].pc = next]
            \/ Goto(p, OnError(p))
  BY DEF Launch
<1>4. /\ OnError(p) = "cleanup" => op[p].kind \in Rollbacks
      /\ OnError(p) = "recordRow" => op[p].kind = "app"
      /\ OnError(p) = "fail" => op[p].kind \in NewDeploys
      /\ OnError(p) \in {"cleanup", "recordFailure", "recordRow", "fail"}
      /\ op[p].kind \in NewDeploys => OnError(p) = "fail"
      /\ OnError(p) = "recordFailure" => op[p].kind = "git"
  BY <1>1 DEF OnError, Deploys, Rollbacks, NewDeploys
<1>5. next \in Steps /\ May(p, next) /\ Stays(p, next)
  BY <1>1, <1>10 DEF May, Stays, Suits, Steps, Deploys, Rollbacks, NewDeploys
<1>12. May(p, OnError(p)) /\ Stays(p, OnError(p))
  BY <1>1, <1>4 DEF May, Stays, Suits, Steps, Deploys, Rollbacks, NewDeploys
<1> HIDE DEF name, next
<1>6. HostOK'
  <2>1. docker \in Hosts
    BY DEF IInv, Parts, HostOK
  <2>2. Typed(D!RunOutcomes(docker, lastId + 1, name, p))
    BY <1>2, <1>9, <2>1, RunTyped
  <2> QED BY <1>2, <1>11, <2>2, DockerHostOK
<1>7. UNCHANGED table /\ UNCHANGED mishaps
  BY DEF Launch
<1>8. CASE Goto(p, OnError(p))
  BY <1>6, <1>7, <1>8, <1>12, Goes, SameTable
<1>13. CASE op' = [op EXCEPT ![p].cand = lastId + 1, ![p].pc = next]
  <2> DEFINE o == [op[p] EXCEPT !.cand = lastId + 1, !.pc = next]
  <2>1. op' = [op EXCEPT ![p] = o]
    BY <1>13, Zenon
  <2>2. Follows(op[p], o, next)
    BY <1>2, <1>5, Known, Updates
  <2> HIDE DEF o
  <2> QED BY <1>5, <1>6, <1>7, <2>1, <2>2, Onward, SameTable
<1> QED BY <1>8, <1>11, <1>13

(* A health check or a renaming, and where it takes the request.           *)
LEMMA Commanded ==
  ASSUME IInv, NEW p \in Ops, NEW O, NEW A, NEW step, Typed(O), Docker(O, A),
         lastId' = lastId, Goto(p, step), May(p, step), Stays(p, step),
         UNCHANGED table, UNCHANGED mishaps
  PROVE  IInv'
<1>1. HostOK'
  BY DockerHostOK DEF IInv, Parts, HostOK
<1> QED BY <1>1, Goes, SameTable

LEMMA ProbeInv ==
  ASSUME IInv, NEW p \in Ops, Probe(p)
  PROVE  IInv'
<1>1. op[p].pc = "probe" /\ op[p].kind \in Rollbacks /\ docker \in Hosts
  BY Known DEF Probe, Suits, IInv, Parts, HostOK
<1>2. PICK answer \in {"ok", "error"}, step \in {"cleanup", "clear", "finalize"} :
        Docker(D!HealthOutcomes(docker, op[p].cand), {answer}) /\ Goto(p, step)
  <2> DEFINE To(answer) == IF answer = "error" THEN "cleanup"
                           ELSE IF op[p].kind = "atomic" THEN "clear" ELSE "finalize"
  <2>1. PICK answer \in {"ok", "error"} :
          Docker(D!HealthOutcomes(docker, op[p].cand), {answer}) /\ Goto(p, To(answer))
    BY DEF Probe
  <2>2. To(answer) \in {"cleanup", "clear", "finalize"}
    BY <1>1 DEF Rollbacks
  <2> HIDE DEF To
  <2> QED BY <2>1, <2>2
<1>3. May(p, step) /\ Stays(p, step)
  BY <1>1 DEF May, Stays, Suits, Steps, Deploys, Rollbacks
<1>4. Typed(D!HealthOutcomes(docker, op[p].cand))
  BY <1>1, OutcomesTyped
<1>5. lastId' = lastId /\ UNCHANGED table /\ UNCHANGED mishaps
  BY DEF Probe
<1> QED BY <1>2, <1>3, <1>4, <1>5, Commanded

LEMMA RenameInv ==
  ASSUME IInv, NEW p \in Ops, Rename(p)
  PROVE  IInv'
<1>1. /\ op[p].pc = "rename" /\ op[p].kind = "atomic" /\ docker \in Hosts
      /\ op[p].seen \in Row
  BY Known DEF Rename, Suits, Remembers, Rollbacks, IInv, Parts, HostOK
<1>2. PICK answer \in {"ok", "error"}, step \in {"cleanup", "finalize"} :
        Docker(D!RenameOutcomes(docker, p, op[p].seen.name), {answer}) /\ Goto(p, step)
  <2>1. PICK answer \in {"ok", "error"} :
          /\ Docker(D!RenameOutcomes(docker, p, op[p].seen.name), {answer})
          /\ Goto(p, IF answer = "ok" THEN "finalize" ELSE "cleanup")
    BY DEF Rename
  <2> QED BY <2>1
<1>3. May(p, step) /\ Stays(p, step)
  BY <1>1 DEF May, Stays, Suits, Steps, Deploys, Rollbacks
<1>4. Typed(D!RenameOutcomes(docker, p, op[p].seen.name))
  BY <1>1, OutcomesTyped DEF Row
<1>5. lastId' = lastId /\ UNCHANGED table /\ UNCHANGED mishaps
  BY DEF Rename
<1> QED BY <1>2, <1>3, <1>4, <1>5, Commanded

LEMMA FinalizeInv ==
  ASSUME IInv, NEW p \in Ops, Finalize(p)
  PROVE  IInv'
<1>1. op[p].pc = "finalize" /\ op[p].kind \in Rollbacks \cup {"app"}
  BY Known DEF Finalize, Suits
<1>2. PICK step \in {"release", "cleanup", "succeed"} :
        Goto(p, step) /\ (step = "cleanup" => op[p].kind \in Rollbacks)
  BY <1>1 DEF Finalize, Rollbacks
<1>3. May(p, step) /\ Stays(p, step)
  BY <1>1, <1>2 DEF May, Stays, Suits, Steps, Deploys, Rollbacks
<1>4. rows \in Tables
  BY DEF IInv, Parts, TableOK
<1>5. rows' \in Tables /\ NoneNew
  <2>1. CASE rows' = rows
    BY <1>4, <2>1 DEF NoneNew
  <2>2. CASE rows' = FinalRows(p) /\ ~(op[p].kind \in Rollbacks /\ rows[op[p].on] = NoRow)
    <3> DEFINE R == IF op[p].kind = "app" THEN Named(App) ELSE {op[p].on}
    <3>1. /\ rows' = [r \in RowIds |-> IF r \in R
                        THEN [rows[r] EXCEPT !.image = p, !.status = "RUNNING",
                                             !.dockerId = op[p].cand]
                        ELSE rows[r]]
          /\ \A r \in R : rows[r] # NoRow
      BY <1>1, <2>2 DEF FinalRows, Named, Rollbacks
    <3> HIDE DEF R
    <3>2. op[p].cand \in Ids \cup {Nothing}
      BY Known DEF OpState
    <3>3. \A o \in Row : LET n == [o EXCEPT !.image = p, !.status = "RUNNING",
                                            !.dockerId = op[p].cand]
                         IN n \in Row /\ n.status = "RUNNING"
      BY <3>2 DEF Row
    <3>4. \A r \in RowIds : rows[r] # NoRow => rows[r] \in Row
      BY <1>4 DEF Tables
    <3>5. \A r \in RowIds : r \in R => rows'[r] \in Row /\ rows'[r].status # "STARTING"
      BY <3>1, <3>3, <3>4
    <3>6. \A r \in RowIds : r \notin R => rows'[r] = rows[r]
      BY <3>1
    <3> QED BY <1>4, <3>1, <3>5, <3>6 DEF Tables, NoneNew, Waits
  <2> QED BY <2>1, <2>2 DEF Finalize
<1>6. TableOK'
  BY <1>5 DEF Finalize, IInv, Parts, TableOK
<1>7. UNCHANGED host /\ UNCHANGED mishaps
  BY DEF Finalize
<1> QED BY <1>2, <1>3, <1>5, <1>6, <1>7, Goes, SameHost

LEMMA SucceedInv ==
  ASSUME IInv, NEW p \in Ops, Succeed(p)
  PROVE  IInv'
<1>1. op[p].pc = "succeed" /\ op[p].kind \in Deploys
  BY Known DEF Succeed, Suits
<1>2. PICK step \in {"release", "cleanup", "recordFailure", "recordRow"} :
        /\ Goto(p, step)
        /\ step = "cleanup" => op[p].kind \in Rollbacks
        /\ step = "recordRow" => op[p].kind = "app"
  BY <1>1 DEF Succeed, OnError, Deploys, Rollbacks
<1>3. May(p, step) /\ Stays(p, step)
  BY <1>1, <1>2 DEF May, Stays, Suits, Steps, Deploys, Rollbacks
<1>4. history \in [Ops -> Deployment \cup {None, Erased}]
  BY DEF IInv, Parts, TableOK
<1>5. history' \in [Ops -> Deployment \cup {None, Erased}]
  <2>1. \A h \in Deployment : [h EXCEPT !.status = "SUCCESS"] \in Deployment
    BY DEF Deployment
  <2> QED BY <1>4, <2>1 DEF Succeed, Recorded
<1>6. TableOK' /\ NoneNew
  BY <1>5 DEF Succeed, IInv, Parts, TableOK, NoneNew
<1> QED BY <1>2, <1>3, <1>6, Goes, SameHost DEF Succeed

(* The recovery. *)
LEMMA RecoveredInv ==
  ASSUME IInv, NEW p \in Ops, NEW mode \in {"unchanged", "recreated", "failed"},
         Recovered(p, mode), May(p, "recordRow"), Stays(p, "recordRow"), HostOK',
         UNCHANGED table, UNCHANGED mishaps
  PROVE  IInv'
<1> DEFINE o == [op[p] EXCEPT !.mode = mode, !.pc = "recordRow"]
<1>1. op' = [op EXCEPT ![p] = o]
  BY Zenon DEF Recovered
<1>2. Follows(op[p], o, "recordRow")
  BY Known, Updates DEF Steps
<1> HIDE DEF o
<1> QED BY <1>1, <1>2, Onward, SameTable

LEMMA CleanupInv ==
  ASSUME IInv, NEW p \in Ops, Cleanup(p)
  PROVE  IInv'
<1>1. op[p].pc = "cleanup" /\ op[p].kind \in Rollbacks
  BY Known DEF Cleanup, Suits
<1>2. \A step \in {"relaunch", "verify", "recordRow"} : May(p, step) /\ Stays(p, step)
  BY <1>1 DEF May, Stays, Suits, Steps, Deploys, Rollbacks
<1>3. HostOK'
  <2>1. PICK refs \in {<<op[p].cand, p, op[p].seen.name>>, <<op[p].cand, p>>},
             A \in {{"ok"}, {"error"}} : Docker(RemoveOutcomes(refs), A)
    BY DEF Cleanup
  <2>2. HostOK /\ lastId' = lastId /\ lastId \in Ids
    BY DEF IInv, Parts, HostOK, Cleanup
  <2> QED BY <2>1, <2>2, RemoveTyped, DockerHostOK
<1>4. \/ \E step \in {"relaunch", "verify"} : Goto(p, step)
      \/ Recovered(p, "failed")
  BY DEF Cleanup
<1>5. UNCHANGED table /\ UNCHANGED mishaps
  BY DEF Cleanup
<1> QED BY <1>2, <1>3, <1>4, <1>5, Goes, RecoveredInv, SameTable

LEMMA VerifyInv ==
  ASSUME IInv, NEW p \in Ops, Verify(p) \/ Reverify(p)
  PROVE  IInv'
<1>1. op[p].pc \in {"verify", "reverify"} /\ op[p].kind \in Rollbacks
  BY Known DEF Verify, Reverify, Suits
<1>2. May(p, "recordRow") /\ Stays(p, "recordRow")
  BY <1>1 DEF May, Stays, Suits, Steps, Deploys, Rollbacks
<1>3. PICK ref \in {CurrentRef(p), op[p].back}, answer \in {"ok", "error"} :
        Docker(D!HealthOutcomes(docker, ref), {answer})
  BY DEF Verify, Reverify
<1>4. PICK mode \in {"unchanged", "recreated", "failed"} : Recovered(p, mode)
  BY DEF Verify, Reverify
<1>5. HostOK'
  <2>1. docker \in Hosts /\ lastId \in Ids /\ lastId' = lastId
    BY DEF IInv, Parts, HostOK, Verify, Reverify
  <2> QED BY <1>3, <2>1, OutcomesTyped, DockerHostOK
<1>6. UNCHANGED table /\ UNCHANGED mishaps
  BY DEF Verify, Reverify
<1> QED BY <1>2, <1>4, <1>5, <1>6, RecoveredInv

LEMMA RelaunchInv ==
  ASSUME IInv, NEW p \in Ops, Relaunch(p)
  PROVE  IInv'
<1>1. op[p].pc = "relaunch" /\ op[p].kind \in Rollbacks
  BY Known DEF Relaunch, Suits
<1>2. \A step \in {"reverify", "recordRow"} : May(p, step) /\ Stays(p, step)
  BY <1>1 DEF May, Stays, Suits, Steps, Deploys, Rollbacks
<1>3. lastId + 1 \in Ids /\ lastId' = lastId + 1 /\ docker \in Hosts
  BY ConstantsAssumption DEF Relaunch, IInv, Parts, HostOK, Ids
<1> DEFINE outcomes == D!RunOutcomes(docker, lastId + 1, op[p].seen.name, op[p].prev)
<1>4. Typed(outcomes)
  <2>1. op[p].seen.name \in {App} \cup Ops /\ op[p].prev \in {Prev} \cup Ops
    BY <1>1, Known DEF Remembers, Row, OpState
  <2> QED BY <1>3, <2>1, RunTyped
<1>5. /\ \E A \in {{"ok"}, {"error"}} : Docker(outcomes, A)
      /\ \/ op' = [op EXCEPT ![p].back = lastId + 1, ![p].pc = "reverify"]
         \/ Recovered(p, "failed")
  BY DEF Relaunch
<1> HIDE DEF outcomes
<1>6. HostOK'
  BY <1>3, <1>4, <1>5, DockerHostOK
<1>7. UNCHANGED table /\ UNCHANGED mishaps
  BY DEF Relaunch
<1>8. CASE op' = [op EXCEPT ![p].back = lastId + 1, ![p].pc = "reverify"]
  <2> DEFINE o == [op[p] EXCEPT !.back = lastId + 1, !.pc = "reverify"]
  <2>1. op' = [op EXCEPT ![p] = o]
    BY <1>8, Zenon
  <2>2. Follows(op[p], o, "reverify")
    BY <1>3, Known, Updates DEF Steps
  <2> HIDE DEF o
  <2> QED BY <1>2, <1>6, <1>7, <2>1, <2>2, Onward, SameTable
<1> QED BY <1>2, <1>5, <1>6, <1>7, <1>8, RecoveredInv

(* What the error handlers and the ends of requests write.                 *)
LEMMA RecordRowInv ==
  ASSUME IInv, NEW p \in Ops, RecordRow(p)
  PROVE  IInv'
<1>1. op[p].pc = "recordRow" /\ op[p].kind \in Rollbacks \cup {"app"}
  BY Known DEF RecordRow, Suits
<1>2. PICK step \in {"recordFailure", "release"} : Goto(p, step)
  BY DEF RecordRow
<1>3. May(p, step) /\ Stays(p, step)
  BY <1>1 DEF May, Stays, Suits, Steps, Deploys, Rollbacks
<1>4. rows \in Tables /\ \A r \in RowIds : rows[r] # NoRow => rows[r] \in Row
  BY DEF IInv, Parts, TableOK, Tables
<1>5. \A o \in Row : LET n == [o EXCEPT !.status = "ERROR"]
                     IN n \in Row /\ n.status = "ERROR"
  BY DEF Row
<1>6. rows' \in Tables /\ NoneNew
  <2>1. CASE rows' = rows
    BY <1>4, <2>1 DEF NoneNew
  <2>2. CASE rows' = [r \in RowIds |-> IF r \in Named(App)
                                       THEN [rows[r] EXCEPT !.status = "ERROR"] ELSE rows[r]]
    <3>1. \A r \in RowIds : /\ r \in Named(App) => rows'[r] \in Row /\ rows'[r].status = "ERROR"
                            /\ r \notin Named(App) => rows'[r] = rows[r]
      BY <1>4, <1>5, <2>2 DEF Named
    <3> QED BY <1>4, <2>2, <3>1 DEF Tables, NoneNew, Waits
  <2>3. CASE op[p].kind # "app" /\ rows[op[p].on] # NoRow
             /\ rows' = [rows EXCEPT ![op[p].on] = FailedRow(p)]
    <3>1. /\ op[p].on \in RowIds /\ op[p].seen.dockerId \in Ids \cup {Nothing}
          /\ op[p].back \in Ids \cup {Nothing} /\ op[p].prev \in {Prev} \cup Ops
      BY <1>1, <2>3, Known DEF Remembers, Row, OpState
    <3>2. rows[op[p].on] \in Row
      BY <1>4, <2>3, <3>1
    <3>4. FailedRow(p) \in Row /\ FailedRow(p).status # "STARTING"
      <4>1. CASE op[p].mode = "failed"
        BY <1>5, <3>2, <4>1 DEF FailedRow
      <4>2. CASE op[p].mode # "failed"
        <5>1. PICK d \in Ids \cup {Nothing} :
                FailedRow(p) = [rows[op[p].on] EXCEPT !.status = "RUNNING", !.image = op[p].prev,
                                                      !.dockerId = d]
          BY <3>1, <4>2 DEF FailedRow
        <5> DEFINE n == [rows[op[p].on] EXCEPT !.status = "RUNNING", !.image = op[p].prev,
                                                !.dockerId = d]
        <5>2. n \in Row /\ n.status = "RUNNING"
          BY <3>1, <3>2 DEF Row
        <5>3. FailedRow(p) = n
          BY <5>1
        <5> HIDE DEF n
        <5> QED BY <5>2, <5>3
      <4> QED BY <4>1, <4>2
    <3> QED BY <1>4, <2>3, <3>1, <3>4 DEF Tables, NoneNew, Waits
  <2> QED BY <2>1, <2>2, <2>3 DEF RecordRow
<1>7. TableOK'
  BY <1>6 DEF RecordRow, IInv, Parts, TableOK
<1>8. UNCHANGED host /\ UNCHANGED mishaps
  BY DEF RecordRow
<1> QED BY <1>2, <1>3, <1>6, <1>7, <1>8, Goes, SameHost

LEMMA RecordFailureInv ==
  ASSUME IInv, NEW p \in Ops, RecordFailure(p)
  PROVE  IInv'
<1>1. op[p].pc = "recordFailure" /\ op[p].kind \in Deploys /\ Goto(p, "release")
  BY Known DEF RecordFailure, Suits
<1>2. May(p, "release") /\ Stays(p, "release")
  BY <1>1 DEF May, Stays, Suits, Steps, Deploys, Rollbacks
<1>3. history' \in [Ops -> Deployment \cup {None, Erased}]
  <2>1. \A h \in Deployment : [h EXCEPT !.status = "FAILED"] \in Deployment
    BY DEF Deployment
  <2>2. history \in [Ops -> Deployment \cup {None, Erased}]
    BY DEF IInv, Parts, TableOK
  <2> QED BY <2>1, <2>2 DEF RecordFailure, Recorded
<1>4. TableOK' /\ NoneNew
  BY <1>3 DEF RecordFailure, IInv, Parts, TableOK, NoneNew
<1> QED BY <1>1, <1>2, <1>4, Goes, SameHost DEF RecordFailure

LEMMA ReleaseInv ==
  ASSUME IInv, NEW p \in Ops, Release(p)
  PROVE  IInv'
<1>1. op[p].pc = "release" /\ op[p].kind \in Deploys /\ Goto(p, "done")
  BY Known DEF Release, Suits
<1>2. May(p, "done") /\ Stays(p, "done")
  BY <1>1 DEF May, Stays, Suits, Steps, Deploys, Rollbacks
<1>3. TableOK' /\ NoneNew
  BY DEF Release, IInv, Parts, TableOK, NoneNew
<1>4. HostOK'
  <2>1. faults + 1 \in 0..MaxFaults \/ faults' = faults
    BY ConstantsAssumption DEF Release, IInv, Parts, HostOK
  <2>2. faults' \in 0..MaxFaults
    BY <2>1 DEF Release, IInv, Parts, HostOK
  <2> QED BY <2>2 DEF Release, IInv, Parts, HostOK
<1> QED BY <1>1, <1>2, <1>3, <1>4, Goes DEF Release

-----------------------------------------------------------------------------
(* Synchronisation.                                                        *)
LEMMA LearnedList ==
  ASSUME IInv, NEW p \in Ops, NEW list \in Hosts,
         op' = [op EXCEPT ![p].list = list, ![p].pc = "read"],
         op[p].pc = "start" => op[p].kind \in NewDeploys \cup {"sync"},
         op[p].pc \in {"start", "list"}, HostOK', UNCHANGED table, UNCHANGED mishaps
  PROVE  IInv'
<1> DEFINE o == [op[p] EXCEPT !.list = list, !.pc = "read"]
<1>1. op' = [op EXCEPT ![p] = o]
  BY Zenon
<1>2. op[p] \in OpState /\ Suits(op[p].kind, op[p].pc) /\ Remembers(op[p])
  BY Known
<1>3. o \in OpState
  <2>1. list \in Hosts \cup {None} /\ "read" \in Steps
    BY DEF Steps
  <2> QED BY <1>2, <2>1 DEF OpState
<1>4. /\ o.pc = "read" /\ o.kind = op[p].kind /\ o.on = op[p].on /\ o.seen = op[p].seen
      /\ o.list = list /\ o.unsaved = op[p].unsaved
  BY <1>2 DEF OpState
<1> HIDE DEF o
<1>5. Suits(o.kind, o.pc) /\ Remembers(o)
  BY <1>2, <1>4 DEF Suits, Remembers, Rollbacks, NewDeploys, Actions
<1>6. \A r \in RowIds : ~Bears(op[p], r)
  BY <1>2 DEF Bears, Remembers
<1> QED BY <1>1, <1>3, <1>5, <1>6, StepTo, SameTable

LEMMA ListInv ==
  ASSUME IInv, NEW p \in Ops, List(p)
  PROVE  IInv'
<1>1. op[p].pc = "list" \/ (op[p].pc = "start" /\ op[p].kind \in NewDeploys \cup {"sync"})
  BY DEF List, At
<1>2. Suits(op[p].kind, op[p].pc) /\ op[p].kind \in Kinds
  BY Known DEF OpState
<1>3. docker \in Hosts /\ [i \in Ids |-> Absent] \in Hosts
  BY DEF IInv, Parts, HostOK, Hosts
<1>4. HostOK'
  <2>1. CASE UNCHANGED host
    BY <2>1, SameHost
  <2>2. CASE docker' = docker /\ lastId' = lastId /\ faults < MaxFaults /\ faults' = faults + 1
    <3>1. faults + 1 \in 0..MaxFaults
      BY <2>2, ConstantsAssumption DEF IInv, Parts, HostOK
    <3> QED BY <2>2, <3>1 DEF IInv, Parts, HostOK
  <2> QED BY <2>1, <2>2 DEF List, host
<1>5. UNCHANGED table /\ UNCHANGED mishaps
  BY DEF List
<1>6. CASE Goto(p, OnError(p))
  <2>1. /\ OnError(p) \in {"recordFailure", "fail", "done"}
        /\ OnError(p) = "recordFailure" => op[p].kind = "git"
        /\ OnError(p) = "fail" => op[p].kind = "source"
        /\ op[p].kind \notin NewDeploys \cup {"sync"} /\ op[p].pc = "start" => OnError(p) = "done"
    BY <1>1, <1>2 DEF OnError, Suits, Deploys, Rollbacks, NewDeploys
  <2>2. May(p, OnError(p)) /\ Stays(p, OnError(p))
    BY <1>1, <1>2, <2>1 DEF May, Stays, Suits, Steps, Deploys, Rollbacks, NewDeploys
  <2> QED BY <1>4, <1>5, <1>6, <2>2, Goes, SameTable
<1>7. CASE \E list \in Hosts : op' = [op EXCEPT ![p].list = list, ![p].pc = "read"]
  BY <1>1, <1>4, <1>5, <1>7, LearnedList
<1> QED BY <1>3, <1>6, <1>7 DEF List

LEMMA ReadInv ==
  ASSUME IInv, NEW p \in Ops, Read(p)
  PROVE  IInv'
<1> DEFINE o == [op[p] EXCEPT !.known = rows, !.pc = "apply"]
<1>1. op' = [op EXCEPT ![p] = o] /\ op[p].pc = "read"
  BY Zenon DEF Read
<1>2. op[p] \in OpState /\ Suits(op[p].kind, op[p].pc) /\ Remembers(op[p]) /\ rows \in Tables
  BY Known DEF IInv, Parts, TableOK
<1>3. o \in OpState
  <2>1. rows \in Tables \cup {None} /\ "apply" \in Steps
    BY <1>2 DEF Steps
  <2> QED BY <1>2, <2>1 DEF OpState
<1>4. /\ o.pc = "apply" /\ o.kind = op[p].kind /\ o.on = op[p].on /\ o.seen = op[p].seen
      /\ o.list = op[p].list /\ o.known = rows /\ o.unsaved = op[p].unsaved
  BY <1>2 DEF OpState
<1> HIDE DEF o
<1>5. Suits(o.kind, o.pc) /\ Remembers(o)
  BY <1>1, <1>2, <1>4 DEF Suits, Remembers, Rollbacks, NewDeploys, Actions
<1>6. \A r \in RowIds : ~Bears(op[p], r)
  BY <1>1, <1>2 DEF Bears, Remembers
<1>7. UNCHANGED host /\ UNCHANGED table /\ UNCHANGED mishaps
  BY DEF Read
<1> QED BY <1>1, <1>3, <1>5, <1>6, <1>7, StepTo, SameTable, SameHost

(* The payload that stays in a row is that of a container written to it.   *)
LEMMA OldestWritten ==
  ASSUME NEW list, NEW read, NEW last, NEW r \in RowIds, S!WrittenTo(list, read, last, r) # {}
  PROVE  S!Oldest(S!WrittenTo(list, read, last, r)) \in S!WrittenTo(list, read, last, r)
<1> DEFINE T == S!WrittenTo(list, read, last, r)
<1>1. T \subseteq Nat /\ T # {}
  BY DEF S!WrittenTo, S!Listed, Ids
<1> HIDE DEF T
<1>2. \E i \in T : \A j \in T : i <= j
  BY <1>1, LeastNatural
<1>3. S!Oldest(T) \in T
  BY <1>2 DEF S!Oldest
<1> QED BY <1>3 DEF T

(* The transaction of a sync leaves rows of the containers that docker ps  *)
(* listed.                                                                 *)
LEMMA SyncedRows ==
  ASSUME NEW list \in Hosts, NEW read, NEW last
  PROVE  S!Synced(list, read, last) \in
           [RowIds -> {NoRow} \cup {r \in Row : r.dockerId \in Ids}]
<1>1. ASSUME NEW i \in S!Listed(list)
      PROVE  S!Payload(list, i) \in {r \in Row : r.dockerId \in Ids}
  <2>1. i \in Ids /\ list[i] \in Container
    BY <1>1 DEF S!Listed, Hosts
  <2> QED BY <2>1 DEF S!Payload, S!Status, Container, Row
<1>2. ASSUME NEW r \in RowIds, S!WrittenTo(list, read, last, r) # {}
      PROVE  S!Oldest(S!WrittenTo(list, read, last, r)) \in S!Listed(list)
  <2>1. S!WrittenTo(list, read, last, r) \subseteq S!Listed(list)
    BY DEF S!WrittenTo
  <2>2. S!Oldest(S!WrittenTo(list, read, last, r)) \in S!WrittenTo(list, read, last, r)
    BY <1>2, OldestWritten
  <2> QED BY <2>1, <2>2
<1> QED BY <1>1, <1>2 DEF S!Synced

LEMMA NewCounted ==
  ASSUME NEW list, NEW read
  PROVE  Cardinality(S!New(list, read)) \in Nat
<1>1. S!New(list, read) \in SUBSET (1..MaxIds)
  BY DEF S!New, S!Listed, Ids
<1>2. IsFiniteSet(1..MaxIds)
  BY FS_Interval, ConstantsAssumption
<1>3. IsFiniteSet(S!New(list, read))
  BY <1>1, <1>2, FS_Subset
<1> QED BY <1>3, FS_CardinalityType

LEMMA CascadeTyped ==
  ASSUME TableOK, NEW R, Cascade(R)
  PROVE  /\ lock' \in [RowIds -> Ops \cup {NoOp}]
         /\ history' \in [Ops -> Deployment \cup {None, Erased}]
  BY DEF TableOK, Cascade

LEMMA ApplyInv ==
  ASSUME IInv, NEW p \in Ops, Apply(p)
  PROVE  IInv'
<1>1. /\ op[p].pc = "apply" /\ op[p].list \in Hosts /\ op[p].kind \in Kinds
      /\ op[p].kind \in Deploys \cup NewDeploys \cup Actions \cup {"sync", "delete"}
  BY Known DEF Apply, Remembers, OpState
<1>2. PICK step \in {AfterSync(p), OnError(p)} :
        op' = [op EXCEPT ![p].list = None, ![p].known = None, ![p].pc = step]
  BY DEF Apply
<1>3. May(p, step) /\ Stays(p, step)
  <2>1. /\ AfterSync(p) \in {"name", "match", "done"}
        /\ AfterSync(p) = "name" => op[p].kind \in NewDeploys
        /\ AfterSync(p) = "match" => op[p].kind \in {"git", "source"}
    BY DEF AfterSync
  <2>2. /\ OnError(p) \in {"cleanup", "recordFailure", "recordRow", "fail", "done"}
        /\ OnError(p) = "cleanup" => op[p].kind \in Rollbacks
        /\ OnError(p) = "recordRow" => op[p].kind = "app"
        /\ OnError(p) = "recordFailure" => op[p].kind = "git"
        /\ OnError(p) = "fail" => op[p].kind = "source"
    BY <1>1 DEF OnError
  <2> QED BY <1>1, <2>1, <2>2
      DEF May, Stays, Suits, Steps, Deploys, Rollbacks, NewDeploys
<1> DEFINE o == [op[p] EXCEPT !.list = None, !.known = None, !.pc = step]
<1>4. op' = [op EXCEPT ![p] = o]
  BY <1>2, Zenon
<1>5. Follows(op[p], o, step)
  BY <1>3, Known, Updates DEF May
<1> HIDE DEF o
<1>6. TableOK' /\ NoneNew
  <2>1. CASE UNCHANGED table
    BY <2>1, SameTable
  <2>2. CASE /\ lastRow + Cardinality(S!New(op[p].list, op[p].known)) <= MaxRows
             /\ rows' = S!Synced(op[p].list, op[p].known, lastRow)
             /\ lastRow' = lastRow + Cardinality(S!New(op[p].list, op[p].known))
             /\ sourced' \subseteq sourced
             /\ \E R : Cascade(R)
    <3>1. TableOK
      BY DEF IInv, Parts
    <3>2. rows' \in [RowIds -> {NoRow} \cup {r \in Row : r.dockerId \in Ids}]
      BY <1>1, <2>2, SyncedRows
    <3>3. rows' \in Tables /\ NoneNew
      BY <3>2, ConstantsAssumption DEF Tables, NoneNew, Waits, Ids, Nothing
    <3>4. lastRow + Cardinality(S!New(op[p].list, op[p].known)) \in RowIds
      <4>1. PICK n \in Nat : n = Cardinality(S!New(op[p].list, op[p].known))
        BY NewCounted
      <4> QED BY <2>2, <3>1, <4>1, ConstantsAssumption DEF TableOK, RowIds
    <3>5. lastRow' \in RowIds
      BY <2>2, <3>4
    <3> QED BY <2>2, <3>1, <3>3, <3>5, CascadeTyped DEF TableOK
  <2> QED BY <2>1, <2>2 DEF Apply
<1>7. UNCHANGED host /\ UNCHANGED mishaps
  BY DEF Apply
<1> QED BY <1>3, <1>4, <1>5, <1>6, <1>7, Onward, SameHost

-----------------------------------------------------------------------------
(* The other steps of DeploymentOps.                                       *)
LEMMA StartInv ==
  ASSUME IInv, NEW p \in Ops, Start(p)
  PROVE  IInv'
<1>1. /\ op[p].pc = "start" /\ op[p].kind \in Deploys \cup Actions \cup {"delete"}
      /\ rows \in Tables /\ op[p] \in OpState
  BY Known DEF Start, At, IInv, Parts, TableOK
<1>2. UNCHANGED host /\ UNCHANGED table /\ UNCHANGED mishaps
  BY DEF Start
<1> DEFINE next == CASE op[p].kind \in Rollbacks -> "check"
                     [] op[p].kind = "delete" -> "clear"
                     [] op[p].kind \in Actions -> "act"
                     [] OTHER -> "acquire"
<1>3. /\ next \in Steps \ {"start", "read", "apply", "note", "done"}
      /\ Suits(op[p].kind, next)
  BY <1>1 DEF Suits, Steps, Deploys, Rollbacks, Actions
<1>4. ASSUME NEW r \in RowIds, rows[r] # NoRow,
             op' = [op EXCEPT ![p].on = r, ![p].seen = rows[r], ![p].pc = next]
      PROVE  IInv'
  <2> HIDE DEF next
  <2> DEFINE o == [op[p] EXCEPT !.on = r, !.seen = rows[r], !.pc = next]
  <2>1. op' = [op EXCEPT ![p] = o]
    BY <1>4, Zenon
  <2>2. rows[r] \in Row
    BY <1>1, <1>4 DEF Tables
  <2>3. o \in OpState
    BY <1>1, <1>3, <2>2 DEF OpState
  <2>4. o.pc = next /\ o.kind = op[p].kind /\ o.on = r /\ o.seen = rows[r]
    BY <1>1 DEF OpState
  <2> HIDE DEF o
  <2>5. op[p].kind # "image"
    BY <1>1 DEF Deploys, Rollbacks, Actions
  <2>6. Suits(o.kind, o.pc) /\ Remembers(o)
    BY <1>1, <1>3, <2>2, <2>4, <2>5 DEF Remembers, Deploys, Rollbacks, Actions
  <2>7. \A s \in RowIds : ~Bears(op[p], s)
    BY <2>5 DEF Bears
  <2> QED BY <1>2, <2>1, <2>3, <2>6, <2>7, StepTo, SameTable, SameHost
<1>5. CASE op[p].kind = "app" /\ Goto(p, "clear")
  <2>1. May(p, "clear") /\ Stays(p, "clear")
    BY <1>1, <1>5 DEF May, Stays, Suits, Steps, Deploys, Rollbacks
  <2> QED BY <1>2, <1>5, <2>1, Goes, SameTable, SameHost
<1> QED BY <1>4, <1>5 DEF Start

LEMMA MatchTargetInv ==
  ASSUME IInv, NEW p \in Ops, MatchTarget(p)
  PROVE  IInv'
<1>1. op[p].pc = "match" /\ op[p].kind \in {"git", "source"}
  BY Known DEF MatchTarget, Suits
<1>2. PICK step \in {OnError(p), "succeed", "history"} :
        /\ Goto(p, step)
        /\ step = "succeed" => op[p].kind = "git"
        /\ step = "history" => op[p].kind = "source"
  <2> DEFINE found == Named(IF op[p].kind = "source" THEN App ELSE op[p].seen.name)
             next == IF found = {} \/ op[p].lost THEN OnError(p)
                     ELSE IF op[p].kind = "git" THEN "succeed" ELSE "history"
  <2>1. Goto(p, next)
    BY DEF MatchTarget
  <2>2. /\ next \in {OnError(p), "succeed", "history"}
        /\ next = "succeed" => op[p].kind = "git"
        /\ next = "history" => op[p].kind = "source"
    BY <1>1 DEF OnError, Rollbacks, NewDeploys
  <2> HIDE DEF next
  <2> QED BY <2>1, <2>2
<1>3. /\ OnError(p) \in {"recordFailure", "fail", "done"}
      /\ OnError(p) = "recordFailure" => op[p].kind = "git"
      /\ OnError(p) = "fail" => op[p].kind = "source"
  BY <1>1 DEF OnError, Rollbacks, NewDeploys
<1>4. May(p, step) /\ Stays(p, step)
  BY <1>1, <1>2, <1>3 DEF May, Stays, Suits, Steps, Deploys, Rollbacks, NewDeploys
<1>5. TableOK' /\ NoneNew
  BY DEF MatchTarget, Named, IInv, Parts, TableOK, NoneNew
<1> QED BY <1>2, <1>4, <1>5, Goes, SameHost DEF MatchTarget

LEMMA ClearDeletedInv ==
  ASSUME IInv, NEW p \in Ops, ClearDeleted(p)
  PROVE  IInv'
<1>1. op[p].pc = "clear" /\ op[p].kind = "delete" /\ docker \in Hosts
  BY DEF ClearDeleted, At, IInv, Parts, HostOK
<1>2. May(p, "drop") /\ Stays(p, "drop")
  BY <1>1 DEF May, Stays, Suits, Steps, Deploys, Rollbacks, NewDeploys
<1>3. Typed(D!RmOutcomes(docker, op[p].seen.dockerId))
  BY <1>1, OutcomesTyped
<1>4. /\ Docker(D!RmOutcomes(docker, op[p].seen.dockerId), {"ok", "gone", "error"})
      /\ Goto(p, "drop") /\ lastId' = lastId /\ UNCHANGED table /\ UNCHANGED mishaps
  BY DEF ClearDeleted
<1> QED BY <1>2, <1>3, <1>4, Commanded

LEMMA DropInv ==
  ASSUME IInv, NEW p \in Ops, Drop(p)
  PROVE  IInv'
<1>1. op[p].pc = "drop" /\ Goto(p, "done")
  BY DEF Drop
<1>2. May(p, "done") /\ Stays(p, "done")
  BY <1>1 DEF May, Stays, Suits, Steps
<1>3. TableOK
  BY DEF IInv, Parts
<1>4. TableOK'
  BY <1>3, CascadeTyped DEF Drop, TableOK, Tables
<1>5. NoneNew
  BY <1>3 DEF Drop, TableOK, Tables, NoneNew, Waits
<1> QED BY <1>1, <1>2, <1>4, <1>5, Goes, SameHost DEF Drop

LEMMA LoseLockInv ==
  ASSUME IInv, NEW p \in Ops, LoseLock(p)
  PROVE  IInv'
<1> DEFINE o == [op[p] EXCEPT !.lost = TRUE]
<1>1. op' = [op EXCEPT ![p] = o]
  BY Zenon DEF LoseLock
<1>2. /\ op \in [Ops -> OpState] /\ op[p] \in OpState
      /\ Suits(op[p].kind, op[p].pc) /\ Remembers(op[p])
  BY Known
<1>3. /\ o \in OpState /\ o.pc = op[p].pc /\ o.kind = op[p].kind /\ o.on = op[p].on
      /\ o.seen = op[p].seen /\ o.list = op[p].list /\ o.known = op[p].known
      /\ o.unsaved = op[p].unsaved
  BY <1>2 DEF OpState
<1> HIDE DEF o
<1>4. Suits(o.kind, o.pc) /\ Remembers(o)
  BY <1>2, <1>3 DEF Remembers
<1>5. /\ op' \in [Ops -> OpState] /\ \A q \in Ops : op'[q] = IF q = p THEN o ELSE op[q]
  BY <1>1, <1>2, <1>3
<1>6. OpsOK'
  <2>1. \A q \in Ops : Suits(op'[q].kind, op'[q].pc) /\ Remembers(op'[q])
    BY <1>4, <1>5 DEF IInv, Parts, OpsOK
  <2> QED BY <1>5, <2>1 DEF OpsOK, Suits, Remembers
<1>7. \A q \in Ops, r \in RowIds : Bears(op[q], r) => Bears(op'[q], r)
  BY <1>3, <1>5 DEF Bears
<1>8. StartingIsUnderWay'
  BY <1>7 DEF IInv, StartingIsUnderWay, Bears, LoseLock, table
<1>9. MishapsOK'
  <2>1. losses + 1 \in 0..MaxLosses \/ losses' = losses
    BY ConstantsAssumption DEF LoseLock, IInv, Parts, MishapsOK
  <2> QED BY <2>1 DEF LoseLock, IInv, Parts, MishapsOK
<1>10. HostOK' /\ TableOK'
  BY SameHost, SameTable DEF LoseLock
<1> QED BY <1>6, <1>8, <1>9, <1>10 DEF IInv, Parts

LEMMA ExpireInv ==
  ASSUME IInv, NEW r \in RowIds, Expire(r)
  PROVE  IInv'
<1>1. HostOK' /\ OpsOK' /\ MishapsOK'
  BY SameHost DEF Expire, IInv, Parts, OpsOK, MishapsOK, mishaps, Suits, Remembers
<1>2. TableOK'
  BY DEF Expire, IInv, Parts, TableOK
<1>3. StartingIsUnderWay'
  BY DEF Expire, IInv, StartingIsUnderWay
<1> QED BY <1>1, <1>2, <1>3 DEF IInv, Parts

LEMMA DeadInv ==
  ASSUME IInv, op' = Dead, UNCHANGED table, HostOK', MishapsOK'
  PROVE  IInv'
<1>1. op \in [Ops -> OpState] /\ \A q \in Ops : Suits(op[q].kind, op[q].pc) /\ Remembers(op[q])
  BY DEF IInv, Parts, OpsOK
<1>2. ASSUME NEW q \in Ops
      PROVE  /\ op'[q] \in OpState /\ op'[q].kind = op[q].kind /\ op'[q].on = op[q].on
             /\ op'[q] = op[q] \/ op'[q].pc = "crashed"
  <2> DEFINE o == [op[q] EXCEPT !.pc = "crashed", !.list = None, !.known = None]
  <2>1. op[q] \in OpState /\ "crashed" \in Steps
    BY <1>1 DEF Steps
  <2>2. o \in OpState /\ o.pc = "crashed" /\ o.kind = op[q].kind /\ o.on = op[q].on
    BY <2>1 DEF OpState
  <2>3. op'[q] \in {op[q], o}
    BY DEF Dead
  <2> HIDE DEF o
  <2> QED BY <2>1, <2>2, <2>3
<1>3. op' \in [Ops -> OpState]
  BY <1>2 DEF Dead
<1>4. \A q \in Ops : Suits(op'[q].kind, op'[q].pc) /\ Remembers(op'[q])
  <2>1. \A q \in Ops : op'[q].pc = "crashed" =>
          Suits(op'[q].kind, op'[q].pc) /\ Remembers(op'[q])
    BY DEF Suits, Remembers
  <2> QED BY <1>1, <1>2, <2>1
<1>5. OpsOK'
  BY <1>3, <1>4 DEF OpsOK, Suits, Remembers
<1>6. \A q \in Ops, r \in RowIds : Bears(op[q], r) => Bears(op'[q], r)
  BY <1>2 DEF Bears
<1>7. StartingIsUnderWay'
  BY <1>6 DEF IInv, StartingIsUnderWay, Bears, table
<1>8. TableOK'
  BY SameTable
<1> QED BY <1>5, <1>7, <1>8 DEF IInv, Parts

LEMMA CrashInv ==
  ASSUME IInv, Crash
  PROVE  IInv'
<1>1. crashes + 1 \in 0..MaxCrashes
  BY ConstantsAssumption DEF Crash, IInv, Parts, MishapsOK
<1>2. MishapsOK'
  BY <1>1 DEF Crash, IInv, Parts, MishapsOK
<1> QED BY <1>2, DeadInv, SameHost DEF Crash

-----------------------------------------------------------------------------
(* The steps of ContainerDeploys.                                          *)
LEMMA CheckNameInv ==
  ASSUME IInv, NEW p \in Ops, Unvalidated(p) \/ CheckName(p)
  PROVE  IInv'
<1>1. \/ op[p].pc = "start" /\ op[p].kind = "source"
      \/ op[p].pc = "name" /\ op[p].kind \in NewDeploys
  BY Known DEF Unvalidated, CheckName, At, Suits
<1>2. PICK step \in {"done", "insert", "launch"} :
        /\ Goto(p, step)
        /\ step = "insert" => op[p].kind = "image"
        /\ step = "launch" => op[p].kind = "source"
  BY <1>1 DEF Unvalidated, CheckName, At, NewDeploys
<1>3. May(p, step) /\ Stays(p, step)
  BY <1>1, <1>2 DEF May, Stays, Suits, Steps, Deploys, Rollbacks, NewDeploys
<1>4. UNCHANGED host /\ UNCHANGED table /\ UNCHANGED mishaps
  BY DEF Unvalidated, CheckName
<1> QED BY <1>2, <1>3, <1>4, Goes, SameTable, SameHost

LEMMA InsertInv ==
  ASSUME IInv, NEW p \in Ops, Insert(p)
  PROVE  IInv'
<1> DEFINE r == lastRow + 1
           row == [name |-> App, image |-> p, status |-> "STARTING", dockerId |-> Nothing]
           o == [op[p] EXCEPT !.pc = "launch", !.on = r, !.seen = row]
<1>1. /\ op[p].pc = "insert" /\ op[p].kind = "image" /\ op[p] \in OpState
      /\ Suits(op[p].kind, op[p].pc) /\ Remembers(op[p]) /\ op \in [Ops -> OpState]
      /\ \A q \in Ops : Suits(op[q].kind, op[q].pc) /\ Remembers(op[q])
  BY Known DEF Insert, Suits
<1>2. rows \in Tables /\ lastRow \in RowIds
  BY DEF IInv, Parts, TableOK
<1>3. r \in RowIds /\ lastRow' = r
  BY <1>2, ConstantsAssumption DEF Insert, RowIds
<1>4. row \in Row /\ rows' = [rows EXCEPT ![r] = row]
  BY DEF Row, Insert
<1>5. op' = [op EXCEPT ![p] = o]
  BY Zenon DEF Insert
<1> HIDE DEF r, row
<1>6. o \in OpState
  <2>1. "launch" \in Steps
    BY DEF Steps
  <2> QED BY <1>1, <1>3, <1>4, <2>1 DEF OpState
<1>7. o.pc = "launch" /\ o.kind = "image" /\ o.on = r /\ ~o.unsaved
  BY <1>1 DEF OpState, Remembers
<1> HIDE DEF o
<1>8. Suits(o.kind, o.pc) /\ Remembers(o)
  BY <1>3, <1>7 DEF Suits, Remembers, Deploys, Rollbacks, NewDeploys, Actions
<1>9. op' \in [Ops -> OpState] /\ op'[p] = o /\ \A q \in Ops \ {p} : op'[q] = op[q]
  BY <1>1, <1>5, <1>6
<1>10. OpsOK'
  <2>1. \A q \in Ops : Suits(op'[q].kind, op'[q].pc) /\ Remembers(op'[q])
    BY <1>1, <1>8, <1>9
  <2> QED BY <1>9, <2>1 DEF OpsOK, Suits, Remembers
<1>11. TableOK'
  <2>1. rows' \in Tables
    BY <1>2, <1>3, <1>4 DEF Tables
  <2> QED BY <1>3, <2>1 DEF Insert, IInv, Parts, TableOK
<1>12. StartingIsUnderWay'
  <2>1. SUFFICES ASSUME NEW s \in RowIds, Waits(rows', s)
                 PROVE  \E q \in Ops : Bears(op'[q], s)
    BY DEF StartingIsUnderWay, Bears, Waits
  <2>2. CASE s = r
    BY <1>7, <1>9, <2>2 DEF Bears
  <2>3. CASE s # r
    <3>1. rows'[s] = rows[s]
      BY <1>2, <1>4, <2>3 DEF Tables
    <3>2. PICK q \in Ops : Bears(op[q], s)
      BY <2>1, <3>1 DEF IInv, StartingIsUnderWay, Bears, Waits
    <3>3. q # p
      BY <1>1, <3>2 DEF Bears, Remembers
    <3> QED BY <1>9, <3>2, <3>3
  <2> QED BY <2>2, <2>3
<1>13. HostOK' /\ MishapsOK'
  BY SameHost DEF Insert, IInv, Parts, MishapsOK, mishaps
<1> QED BY <1>10, <1>11, <1>12, <1>13 DEF IInv, Parts

LEMMA RecordInv ==
  ASSUME IInv, NEW p \in Ops, Record(p)
  PROVE  IInv'
<1>1. /\ op[p].pc = "record" /\ op[p].kind = "image" /\ op[p].on \in RowIds
      /\ op[p].cand \in Ids \cup {Nothing}
  BY Known DEF Record, Suits, Remembers, OpState
<1>2. PICK step \in {"history", "fail"} :
        /\ Goto(p, step)
        /\ step = "history" => rows[op[p].on] # NoRow
                               /\ rows' = [rows EXCEPT ![op[p].on].status = "RUNNING",
                                                       ![op[p].on].dockerId = op[p].cand]
        /\ step = "fail" => rows' = rows
  BY DEF Record
<1>3. rows \in Tables
  BY DEF IInv, Parts, TableOK
<1>4. rows' \in Tables /\ NoneNew /\ (step = "history" => ~Waits(rows', op[p].on))
  <2>1. CASE step = "fail"
    BY <1>2, <1>3, <2>1 DEF NoneNew
  <2>2. CASE step = "history"
    <3> DEFINE n == [rows[op[p].on] EXCEPT !.status = "RUNNING", !.dockerId = op[p].cand]
    <3>1. rows' = [rows EXCEPT ![op[p].on] = n]
      BY <1>2, <2>2, Zenon
    <3>2. rows[op[p].on] \in Row
      BY <1>1, <1>2, <1>3, <2>2 DEF Tables
    <3>3. n \in Row /\ n.status = "RUNNING"
      BY <1>1, <3>2 DEF Row
    <3> HIDE DEF n
    <3> QED BY <1>1, <1>3, <3>1, <3>3 DEF Tables, NoneNew, Waits
  <2> QED BY <2>1, <2>2
<1>5. May(p, step) /\ Stays(p, step)
  BY <1>1, <1>4 DEF May, Stays, Suits, Steps, Deploys, Rollbacks, NewDeploys
<1>6. TableOK'
  BY <1>4 DEF Record, IInv, Parts, TableOK
<1> QED BY <1>2, <1>4, <1>5, <1>6, Goes, SameHost DEF Record

LEMMA RecordHistoryInv ==
  ASSUME IInv, NEW p \in Ops, RecordHistory(p)
  PROVE  IInv'
<1>1. op[p].pc = "history" /\ op[p].kind \in NewDeploys
  BY Known DEF RecordHistory, Suits
<1>2. PICK step \in {"done", "fail"} : Goto(p, step)
  BY DEF RecordHistory
<1>3. May(p, step) /\ Stays(p, step)
  BY <1>1 DEF May, Stays, Suits, Steps, Deploys, Rollbacks, NewDeploys
<1>4. op[p].kind = "image" => op[p].on \in RowIds
  BY <1>1, Known DEF Remembers
<1>5. PICK h \in Deployment \cup {None, Erased} : history' \in {history, [history EXCEPT ![p] = h]}
  <2>1. CASE history' = history
    BY <2>1
  <2>2. CASE \E r \in RowIds :
               history' = [history EXCEPT ![p] = [row |-> r, status |-> "SUCCESS"]]
    <3>1. \A r \in RowIds : [row |-> r, status |-> "SUCCESS"] \in Deployment
      BY DEF Deployment
    <3> QED BY <2>2, <3>1
  <2> QED BY <1>1, <1>4, <2>1, <2>2 DEF RecordHistory, Named, NewDeploys
<1>6. TableOK' /\ NoneNew
  BY <1>5 DEF RecordHistory, IInv, Parts, TableOK, NoneNew
<1> QED BY <1>2, <1>3, <1>6, Goes, SameHost DEF RecordHistory

LEMMA FailInv ==
  ASSUME IInv, NEW p \in Ops, Fail(p)
  PROVE  IInv'
<1>1. /\ op[p].pc = "fail" /\ op[p].kind \in NewDeploys
      /\ op[p].kind = "image" => op[p].on \in RowIds
  BY Known DEF Fail, Suits, Remembers
<1>2. rows \in Tables /\ history \in [Ops -> Deployment \cup {None, Erased}]
  BY DEF IInv, Parts, TableOK
<1> DEFINE R == IF op[p].kind = "image" THEN {op[p].on} ELSE Named(App)
           kept == {r \in R : rows[r] # NoRow}
<1>3. kept \subseteq RowIds /\ (op[p].kind = "image" => kept \subseteq {op[p].on})
  BY <1>1 DEF Named
<1>7. HostOK'
  <2>1. faults' = faults \/ (faults < MaxFaults /\ faults' = faults + 1)
    BY DEF Fail
  <2>2. faults' \in 0..MaxFaults
    BY <2>1, ConstantsAssumption DEF IInv, Parts, HostOK
  <2> QED BY <2>2 DEF Fail, IInv, Parts, HostOK
<1>4. ASSUME kept # {}, rows' = FailedDeploy(p), Goto(p, "done"),
             \/ history' = history
             \/ \E r \in kept : history' = [history EXCEPT ![p] = [row |-> r, status |-> "FAILED"]]
      PROVE  IInv'
  <2>1. rows' \in Tables /\ NoneNew /\ (op[p].kind = "image" => ~Waits(rows', op[p].on))
    <3>1. CASE op[p].kind = "image"
      <4> DEFINE n == [rows[op[p].on] EXCEPT !.status = "ERROR"]
      <4>1. rows' = [rows EXCEPT ![op[p].on] = n]
        BY <1>4, <3>1, Zenon DEF FailedDeploy
      <4>2. rows[op[p].on] \in Row
        BY <1>1, <1>2, <1>4, <3>1 DEF Tables
      <4>3. n \in Row /\ n.status = "ERROR"
        BY <4>2 DEF Row
      <4> HIDE DEF n
      <4> QED BY <1>1, <1>2, <3>1, <4>1, <4>3 DEF Tables, NoneNew, Waits
    <3>2. CASE op[p].kind # "image"
      BY <1>2, <1>4, <3>2 DEF FailedDeploy, NoneNew
    <3> QED BY <3>1, <3>2
  <2>2. May(p, "done") /\ Stays(p, "done")
    BY <1>1, <2>1 DEF May, Stays, Suits, Steps
  <2>3. history' \in [Ops -> Deployment \cup {None, Erased}]
    <3>1. \A r \in RowIds : [row |-> r, status |-> "FAILED"] \in Deployment
      BY DEF Deployment
    <3> QED BY <1>2, <1>3, <1>4, <3>1
  <2>4. TableOK'
    BY <2>1, <2>3 DEF Fail, IInv, Parts, TableOK
  <2> QED BY <1>4, <1>7, <2>1, <2>2, <2>4, Goes DEF Fail
<1>5. ASSUME UNCHANGED <<rows, history>>,
             op' = [op EXCEPT ![p].pc = "done", ![p].unsaved = TRUE] \/ op' = Dead
      PROVE  IInv'
  <2>1. UNCHANGED table /\ UNCHANGED mishaps
    BY <1>5 DEF Fail, table
  <2>2. CASE op' = Dead
    <3>1. MishapsOK'
      BY <2>1 DEF IInv, Parts, MishapsOK, mishaps
    <3> QED BY <1>7, <2>1, <2>2, <3>1, DeadInv
  <2>3. CASE op' = [op EXCEPT ![p].pc = "done", ![p].unsaved = TRUE]
    <3> DEFINE o == [op[p] EXCEPT !.pc = "done", !.unsaved = TRUE]
    <3>1. op' = [op EXCEPT ![p] = o]
      BY <2>3, Zenon
    <3>2. op[p] \in OpState /\ "done" \in Steps
      BY Known DEF Steps
    <3>3. o \in OpState /\ o.pc = "done" /\ o.kind = op[p].kind /\ o.on = op[p].on /\ o.unsaved
      BY <3>2 DEF OpState
    <3> HIDE DEF o
    <3>4. Suits(o.kind, o.pc) /\ Remembers(o)
      BY <3>3 DEF Suits, Remembers
    <3>5. \A r \in RowIds : Bears(op[p], r) => Bears(o, r)
      BY <3>3 DEF Bears
    <3> QED BY <1>7, <2>1, <3>1, <3>3, <3>4, <3>5, StepTo, SameTable
  <2> QED BY <1>5, <2>2, <2>3
<1> QED BY <1>4, <1>5 DEF Fail

LEMMA ActInv ==
  ASSUME IInv, NEW p \in Ops, Act(p)
  PROVE  IInv'
<1>1. /\ op[p].pc = "act" /\ op[p].kind \in Actions /\ op[p].seen \in Row
      /\ op[p] \in OpState /\ op \in [Ops -> OpState]
  BY Known DEF Act, Suits, Remembers
<1>2. docker \in Hosts /\ lastId \in Ids /\ lastId' = lastId /\ UNCHANGED table /\ UNCHANGED mishaps
  BY DEF Act, IInv, Parts, HostOK
<1>3. op[p].seen.dockerId \in Ids \cup {Nothing}
  BY <1>1 DEF Row
<1>4. CASE Goto(p, "done") /\ UNCHANGED <<docker, faults>>
  <2>1. May(p, "done") /\ Stays(p, "done")
    BY <1>1 DEF May, Stays, Suits, Steps, Actions
  <2>2. UNCHANGED host
    BY <1>2, <1>4 DEF host
  <2> QED BY <1>2, <1>4, <2>1, <2>2, Goes, SameTable, SameHost
<1>5. ASSUME NEW ref, NEW answer \in {"ok", "error"}, NEW back, NEW step,
             Docker(ActionOutcomes(op[p].kind, ref), {answer}),
             back = IF ref = op[p].seen.dockerId THEN op[p].seen.dockerId ELSE Nothing,
             step = IF answer = "error" THEN "done"
                    ELSE IF op[p].kind = "rm" THEN "drop" ELSE "state",
             op' = [op EXCEPT ![p].back = back, ![p].pc = step]
      PROVE  IInv'
  <2>1. Typed(ActionOutcomes(op[p].kind, ref))
    BY <1>1, <1>2, OutcomesTyped DEF ActionOutcomes, Actions
  <2>2. HostOK'
    BY <1>2, <1>5, <2>1, DockerHostOK
  <2>3. back \in Ids \cup {Nothing}
    BY <1>3, <1>5
  <2>4. /\ step \in {"done", "drop", "state"} /\ (step = "drop" => op[p].kind = "rm")
        /\ (step = "state" => op[p].kind \in {"start", "stop"})
    BY <1>1, <1>5 DEF Actions
  <2>5. step \in Steps
    BY <2>4 DEF Steps
  <2> DEFINE o == [op[p] EXCEPT !.back = back, !.pc = step]
  <2>6. op' = [op EXCEPT ![p] = o]
    <3>1. op' = [op EXCEPT ![p].back = back, ![p].pc = step]
      BY <1>5
    <3> QED BY <3>1, Zenon
  <2>7. Follows(op[p], o, step)
    BY <1>1, <2>3, <2>5, Updates
  <2> HIDE DEF o
  <2>8. May(p, step) /\ Stays(p, step)
    BY <1>1, <2>4, <2>5 DEF May, Stays, Suits, Actions
  <2> QED BY <1>2, <2>2, <2>6, <2>7, <2>8, Onward, SameTable
<1>6. CASE \E ref \in FirstFound(<<op[p].seen.dockerId, op[p].seen.name>>), answer \in {"ok", "error"} :
             /\ Docker(ActionOutcomes(op[p].kind, ref), {answer})
             /\ op' = [op EXCEPT ![p].back = IF ref = op[p].seen.dockerId
                                             THEN op[p].seen.dockerId ELSE Nothing,
                                 ![p].pc = IF answer = "error" THEN "done"
                                           ELSE IF op[p].kind = "rm" THEN "drop" ELSE "state"]
  BY <1>5, <1>6
<1> QED BY <1>4, <1>6 DEF Act

(* What a request has read of its container.                               *)
LEMMA InspectStateInv ==
  ASSUME IInv, NEW p \in Ops, InspectState(p)
  PROVE  IInv'
<1>1. /\ op[p].pc = "state" /\ op[p].kind \in {"start", "stop"} /\ op[p].seen \in Row
      /\ op[p].on \in RowIds /\ op[p] \in OpState /\ op \in [Ops -> OpState]
  BY Known DEF InspectState, Suits, Remembers, Actions
<1>2. docker \in Hosts /\ UNCHANGED table /\ UNCHANGED mishaps
  BY DEF InspectState, IInv, Parts, HostOK
<1>3. HostOK'
  <2>1. CASE faults' = faults
    BY <2>1 DEF InspectState, IInv, Parts, HostOK
  <2>2. CASE faults < MaxFaults /\ faults' = faults + 1
    <3>1. faults + 1 \in 0..MaxFaults
      BY <2>2, ConstantsAssumption DEF IInv, Parts, HostOK
    <3> QED BY <2>2, <3>1 DEF InspectState, IInv, Parts, HostOK
  <2> QED BY <2>1, <2>2 DEF InspectState
<1>4. PICK s \in Row : /\ s.status = "STARTING" => s.dockerId \in Ids
                       /\ op' = [op EXCEPT ![p] = [op[p] EXCEPT !.pc = "note", !.seen = s]]
  <2>1. CASE \E i \in D!Matches(docker, RefUsed(p)) :
               op' = [op EXCEPT ![p].pc = "note", ![p].seen.dockerId = i,
                                ![p].seen.status = S!Status(docker[i].state)]
    <3>1. PICK i \in D!Matches(docker, RefUsed(p)) :
               op' = [op EXCEPT ![p].pc = "note", ![p].seen.dockerId = i,
                                ![p].seen.status = S!Status(docker[i].state)]
      BY <2>1
    <3>2. i \in Ids /\ docker[i] \in Container
      BY <1>2, ChangedHosts
    <3> DEFINE said == S!Status(docker[i].state)
               s == [op[p].seen EXCEPT !.dockerId = i, !.status = said]
    <3>3. said \in {"RUNNING", "STARTING", "STOPPED", "ERROR"}
      BY DEF S!Status
    <3>4. op' = [op EXCEPT ![p] = [op[p] EXCEPT !.pc = "note", !.seen = s]]
      BY <3>1, Zenon
    <3> HIDE DEF said
    <3>5. s \in Row /\ s.dockerId \in Ids
      BY <1>1, <3>2, <3>3 DEF Row
    <3> QED BY <3>4, <3>5
  <2>2. CASE op' = [op EXCEPT ![p].pc = "note", ![p].seen.status = "ERROR"]
    <3> DEFINE s == [op[p].seen EXCEPT !.status = "ERROR"]
    <3>1. op' = [op EXCEPT ![p] = [op[p] EXCEPT !.pc = "note", !.seen = s]]
      BY <2>2, Zenon
    <3>2. s \in Row /\ s.status # "STARTING"
      BY <1>1 DEF Row
    <3> QED BY <3>1, <3>2
  <2> QED BY <2>1, <2>2 DEF InspectState
<1> DEFINE o == [op[p] EXCEPT !.pc = "note", !.seen = s]
<1>5. o \in OpState
  <2>1. "note" \in Steps /\ s \in Row \cup {NoRow}
    BY DEF Steps
  <2> QED BY <1>1, <2>1 DEF OpState
<1>6. o.pc = "note" /\ o.kind = op[p].kind /\ o.on = op[p].on /\ o.seen = s
  BY <1>1 DEF OpState
<1>7. op' = [op EXCEPT ![p] = o]
  BY <1>4
<1> HIDE DEF o
<1>8. Suits(o.kind, o.pc) /\ Remembers(o)
  BY <1>1, <1>4, <1>6 DEF Suits, Remembers, Rollbacks, NewDeploys, Actions
<1>9. \A r \in RowIds : ~Bears(op[p], r)
  BY <1>1 DEF Bears
<1> QED BY <1>2, <1>3, <1>5, <1>7, <1>8, <1>9, StepTo, SameTable

LEMMA NoteInv ==
  ASSUME IInv, NEW p \in Ops, Note(p)
  PROVE  IInv'
<1>1. /\ op[p].pc = "note" /\ op[p].kind \in {"start", "stop"} /\ op[p].seen \in Row
      /\ op[p].on \in RowIds /\ (op[p].seen.status = "STARTING" => op[p].seen.dockerId \in Ids)
  BY Known DEF Note, Suits, Remembers, Actions
<1>2. rows \in Tables
  BY DEF IInv, Parts, TableOK
<1>3. PICK step \in {"list", "done"} : Goto(p, step) /\ (step = "list" => op[p].kind = "start")
  BY DEF Note
<1>4. rows' \in Tables /\ NoneNew
  <2>1. CASE rows' = rows
    BY <1>2, <2>1 DEF NoneNew
  <2>2. CASE /\ rows[op[p].on] # NoRow
             /\ rows' = [rows EXCEPT ![op[p].on].status = op[p].seen.status,
                                     ![op[p].on].dockerId = op[p].seen.dockerId]
    <3> DEFINE n == [rows[op[p].on] EXCEPT !.status = op[p].seen.status,
                                           !.dockerId = op[p].seen.dockerId]
    <3>0. rows' = [rows EXCEPT ![op[p].on].status = op[p].seen.status,
                               ![op[p].on].dockerId = op[p].seen.dockerId]
      BY <2>2
    <3>1. rows' = [rows EXCEPT ![op[p].on] = n]
      BY <3>0, Zenon
    <3>2. rows[op[p].on] \in Row
      BY <1>1, <1>2, <2>2 DEF Tables
    <3>3. n \in Row /\ (n.status = "STARTING" => n.dockerId # Nothing)
      <4>1. op[p].seen.status \in {"RUNNING", "STOPPED", "ERROR", "STARTING"}
            /\ op[p].seen.dockerId \in Ids \cup {Nothing}
        BY <1>1 DEF Row
      <4>2. n \in Row /\ n.status = op[p].seen.status /\ n.dockerId = op[p].seen.dockerId
        BY <3>2, <4>1 DEF Row
      <4> QED BY <1>1, <4>2, RowIds1
    <3> HIDE DEF n
    <3> QED BY <1>1, <1>2, <3>1, <3>3 DEF Tables, NoneNew, Waits
  <2> QED BY <2>1, <2>2 DEF Note
<1>5. May(p, step) /\ Stays(p, step)
  BY <1>1, <1>3 DEF May, Stays, Suits, Steps, Deploys, Rollbacks, NewDeploys
<1>6. TableOK'
  BY <1>4 DEF Note, IInv, Parts, TableOK
<1> QED BY <1>3, <1>4, <1>5, <1>6, Goes, SameHost DEF Note

-----------------------------------------------------------------------------
LEMMA InvInit == Init => IInv
<1> SUFFICES ASSUME Init PROVE IInv
  OBVIOUS
<1>1. 1 \in Ids /\ 1 \in RowIds
  BY ConstantsAssumption DEF Ids, RowIds
<1>2. HostOK
  <2>1. [name |-> App, image |-> Prev, state |-> "running"] \in Container
    BY DEF Container
  <2> QED BY <1>1, <2>1, ConstantsAssumption DEF Init, HostOK, Hosts
<1>3. TableOK
  <2>1. [name |-> App, image |-> Prev, status |-> "RUNNING", dockerId |-> 1] \in Row
    BY <1>1 DEF Row
  <2> QED BY <1>1, <2>1 DEF Init, TableOK, Tables
<1>4. OpsOK
  <2>1. PICK kind \in [Ops -> Kinds] : op = [p \in Ops |-> FreshOp(kind[p])]
    BY DEF Init
  <2>2. \A k \in Kinds : FreshOp(k) \in OpState
    <3>1. "start" \in Steps
      BY DEF Steps
    <3> QED BY <3>1 DEF FreshOp, OpState
  <2>3. \A k \in Kinds : Suits(FreshOp(k).kind, FreshOp(k).pc) /\ Remembers(FreshOp(k))
    BY DEF FreshOp, Suits, Remembers
  <2> QED BY <2>1, <2>2, <2>3 DEF OpsOK
<1>5. MishapsOK
  BY ConstantsAssumption DEF Init, MishapsOK
<1>6. StartingIsUnderWay
  BY <1>1 DEF Init, StartingIsUnderWay
<1> QED BY <1>2, <1>3, <1>4, <1>5, <1>6 DEF IInv, Parts

LEMMA DatabaseFailsInv ==
  ASSUME IInv, NEW p \in Ops, DatabaseFails(p)
  PROVE  IInv'
<1> DEFINE step == AfterQuery(p)
           b == op[p].unsaved \/ op[p].pc \in {"recordRow", "recordFailure"}
           o == [op[p] EXCEPT !.list = None, !.known = None, !.unsaved = b, !.pc = step]
<1>1. /\ Queries(p) /\ op[p] \in OpState /\ Suits(op[p].kind, op[p].pc) /\ Remembers(op[p])
      /\ op[p].kind \in Deploys \cup NewDeploys \cup Actions \cup {"sync", "delete"}
  BY Known DEF DatabaseFails
<1>2. op[p].pc \in {"acquire", "create", "succeed", "recordRow", "recordFailure", "read", "apply",
                    "match", "drop", "name", "insert", "record", "history", "note", "finalize",
                    "start", "clear"}
      /\ (op[p].pc \in {"start", "clear"} => op[p].kind = "app")
  BY <1>1 DEF Queries
<1>9. OnError(p) = IF op[p].kind \in Rollbacks THEN "cleanup"
                   ELSE IF op[p].kind = "git" THEN "recordFailure"
                   ELSE IF op[p].kind = "app" THEN "recordRow"
                   ELSE IF op[p].kind = "source" /\ op[p].cand # Nothing THEN "fail" ELSE "done"
  BY <1>1, <1>2 DEF OnError, Deploys, Rollbacks, NewDeploys, Actions
<1>10. step = IF op[p].pc \in {"recordRow", "recordFailure"} THEN "release"
              ELSE IF op[p].pc = "create" /\ op[p].kind \in Rollbacks THEN "release"
              ELSE IF op[p].pc = "acquire" /\ op[p].kind # "app" THEN "done"
              ELSE IF op[p].pc \in {"record", "history"}
                   THEN IF op[p].kind = "image" THEN "fail" ELSE "done"
              ELSE OnError(p)
  BY <1>2 DEF AfterQuery
<1>3. /\ step \in {"release", "done", "fail", "cleanup", "recordRow", "recordFailure"}
      /\ step \in {"release", "recordFailure"} => op[p].kind \in Deploys
      /\ step = "cleanup" => op[p].kind \in Rollbacks
      /\ step = "recordRow" => op[p].kind = "app"
      /\ step = "fail" => \/ op[p].kind = "source"
                          \/ op[p].kind = "image" /\ op[p].pc \in {"record", "history"}
      /\ op[p].pc = "record" => step = "fail"
  <2> HIDE DEF step
  <2>1. op[p].pc \in {"acquire", "create", "recordRow", "recordFailure"} => op[p].kind \in Deploys
    BY <1>1 DEF Suits, Deploys, Rollbacks
  <2>2. op[p].pc = "record" => op[p].kind = "image"
    BY <1>1 DEF Suits
  <2>3. CASE step = OnError(p)
    BY <1>2, <1>9, <1>10, <2>2, <2>3 DEF Deploys, Rollbacks
  <2>4. CASE step # OnError(p)
    BY <1>2, <1>10, <2>1, <2>2, <2>4
  <2> QED BY <2>3, <2>4
<1>4. May(p, step) /\ Stays(p, step)
  BY <1>2, <1>3 DEF May, Stays, Suits, Steps, Deploys, Rollbacks, NewDeploys
<1>5. op' = [op EXCEPT ![p] = o]
  BY Zenon DEF DatabaseFails
<1>6. Follows(op[p], o, step)
  <2>1. b \in BOOLEAN /\ (op[p].kind = "image" => b = op[p].unsaved)
    BY <1>1 DEF OpState, Suits, Deploys, Rollbacks
  <2>2. step \in Steps
    BY <1>4 DEF May
  <2> HIDE DEF step, b
  <2> QED BY <1>1, <2>1, <2>2, Updates
<1> HIDE DEF step, o
<1>7. HostOK'
  <2>1. faults' \in 0..MaxFaults
    BY ConstantsAssumption DEF DatabaseFails, IInv, Parts, HostOK
  <2> QED BY <2>1 DEF DatabaseFails, IInv, Parts, HostOK
<1>8. UNCHANGED table /\ UNCHANGED mishaps
  BY DEF DatabaseFails
<1> QED BY <1>4, <1>5, <1>6, <1>7, <1>8, Onward, SameTable

LEMMA StepInv ==
  ASSUME IInv, NEW p \in Ops, Step(p)
  PROVE  IInv'
<1>1. CASE Start(p)
  BY <1>1, StartInv
<1>2. CASE Check(p)
  BY <1>2, CheckInv
<1>3. CASE Acquire(p)
  BY <1>3, AcquireInv
<1>4. CASE Create(p)
  BY <1>4, CreateInv
<1>5. CASE Inspect(p)
  BY <1>5, InspectInv
<1>6. CASE Resolve(p)
  BY <1>6, ResolveInv
<1>7. CASE Clear(p)
  BY <1>7, ClearInv
<1>8. CASE Launch(p)
  BY <1>8, LaunchInv
<1>9. CASE Probe(p)
  BY <1>9, ProbeInv
<1>10. CASE Rename(p)
  BY <1>10, RenameInv
<1>11. CASE Finalize(p)
  BY <1>11, FinalizeInv
<1>12. CASE Succeed(p)
  BY <1>12, SucceedInv
<1>13. CASE Cleanup(p)
  BY <1>13, CleanupInv
<1>14. CASE Verify(p) \/ Reverify(p)
  BY <1>14, VerifyInv
<1>15. CASE Relaunch(p)
  BY <1>15, RelaunchInv
<1>16. CASE RecordRow(p)
  BY <1>16, RecordRowInv
<1>17. CASE RecordFailure(p)
  BY <1>17, RecordFailureInv
<1>18. CASE Release(p)
  BY <1>18, ReleaseInv
<1>19. CASE List(p)
  BY <1>19, ListInv
<1>20. CASE Read(p)
  BY <1>20, ReadInv
<1>21. CASE Apply(p)
  BY <1>21, ApplyInv
<1>22. CASE MatchTarget(p)
  BY <1>22, MatchTargetInv
<1>23. CASE ClearDeleted(p)
  BY <1>23, ClearDeletedInv
<1>24. CASE Drop(p)
  BY <1>24, DropInv
<1> QED BY <1>1, <1>2, <1>3, <1>4, <1>5, <1>6, <1>7, <1>8, <1>9, <1>10, <1>11, <1>12, <1>13,
           <1>14, <1>15, <1>16, <1>17, <1>18, <1>19, <1>20, <1>21, <1>22, <1>23, <1>24 DEF Step

LEMMA InvNext == IInv /\ [AllNext]_vars => IInv'
<1> SUFFICES ASSUME IInv, [AllNext]_vars PROVE IInv'
  OBVIOUS
<1>1. ASSUME NEW p \in Ops, Step(p) \/ DatabaseFails(p) \/ LoseLock(p)
      PROVE  IInv'
  BY <1>1, StepInv, DatabaseFailsInv, LoseLockInv
<1>2. ASSUME NEW r \in RowIds, Expire(r)
      PROVE  IInv'
  BY <1>2, ExpireInv
<1>3. CASE Crash
  BY <1>3, CrashInv
<1>4. ASSUME NEW p \in Ops, DeployStep(p)
      PROVE  IInv'
  BY <1>4, CheckNameInv, InsertInv, RecordInv, RecordHistoryInv, FailInv, ActInv,
     InspectStateInv, NoteInv DEF DeployStep
<1>5. CASE UNCHANGED vars
  <2>1. OpsOK'
    BY <1>5 DEF vars, IInv, Parts, OpsOK, Suits, Remembers
  <2> QED BY <1>5, <2>1 DEF vars, IInv, Parts, HostOK, TableOK, MishapsOK, StartingIsUnderWay
<1> QED BY <1>1, <1>2, <1>3, <1>4, <1>5 DEF AllNext, Next

THEOREM Invariant == AllSpec => []IInv
  BY InvInit, InvNext, PTL DEF AllSpec

(* Every variable keeps its type: for requests of any kinds and number,    *)
(* whatever fails, crashes, or loses its lock.                             *)
THEOREM TypeCorrect == AllSpec => []TypeOK
<1>1. IInv => TypeOK
  BY PartsType DEF IInv
<1> QED BY <1>1, Invariant, PTL

(* The same without deployments and actions beside them.                   *)
THEOREM TypeCorrectOps == Spec => []TypeOK
<1>1. [Next]_vars => [AllNext]_vars
  BY DEF AllNext
<1>2. Spec => AllSpec
  BY <1>1, PTL DEF Spec, AllSpec
<1> QED BY <1>2, TypeCorrect, PTL

(* A row without a container that says STARTING waits for a deployment     *)
(* that is under way, whose process died, or that could not write down its *)
(* failure.                                                                *)
THEOREM StartingExplained == AllSpec => []StartingIsUnderWay
<1>1. IInv => StartingIsUnderWay
  BY DEF IInv
<1> QED BY <1>1, Invariant, PTL
-----------------------------------------------------------------------------
(* What is deployed, when all requests are rollbacks and rebuilds.         *)

Success(p) == Recorded(p) /\ history[p].status = "SUCCESS"

(* A request has recorded its success only at its end.                     *)
EndsInv == \A p \in Ops : Success(p) => op[p].pc \in {"release", "done", "crashed"}

(* A sync that was shown an empty list has deleted every row.  No request  *)
(* finds or makes another one.                                             *)
Vanished ==
  /\ \A r \in RowIds : rows[r] = NoRow
  /\ \A p \in Ops : /\ history[p] \in {None, Erased}
                    /\ op[p].pc \notin {"create", "list", "read", "apply"}
                    /\ op[p].kind = "git" => op[p].pc \notin {"clear", "launch"}

(* No lock was lost before its owner was done with host and row.           *)
Faithful == \A p \in Ops : op[p].lost => op[p].pc = "succeed" \/ Success(p)

(* The application comes from Git or from the catalogue, not from both.    *)
Apart == ~\E p, q \in Ops : op[p].kind = "git" /\ op[q].kind = "app"

(* The steps between a request's lock and its release.                     *)
Owning == {"create", "inspect", "resolve", "clear", "launch", "probe", "rename", "finalize",
           "list", "read", "apply", "match", "succeed", "cleanup", "verify", "relaunch",
           "reverify", "recordRow", "recordFailure", "release"}

(* A request that took the lock.  An app rebuild that failed may have come *)
(* to the record of its failure without it.                                *)
Locked(p) ==
  /\ op[p].pc \in Owning
  /\ op[p].kind = "app" /\ op[p].pc \in {"recordRow", "recordFailure", "release"} => Success(p)

There(i, name) == docker[i] # Absent /\ docker[i].name = name

Untaken(name) == \A i \in Ids : ~There(i, name)

(* An id that, if it is a container's, is the application's.               *)
Points(i) == i <= lastId /\ (i \in Ids /\ docker[i] # Absent => docker[i].name = App)

NamesInv ==
  /\ \A i \in Ids : docker[i] # Absent => i <= lastId
  /\ \A i, j \in Ids : docker[i] # Absent /\ docker[j] # Absent /\ docker[i].name = docker[j].name
                         => i = j

(* The first row is the application's, the others are of candidates that   *)
(* failed or died.                                                         *)
RowsInv ==
  /\ rows[1] # NoRow /\ rows[1].name = App /\ Points(rows[1].dockerId)
  /\ sourced \subseteq {1}
  /\ \A r \in RowIds \ {1} : rows[r] # NoRow =>
       /\ rows[r].name # App /\ rows[r].dockerId <= lastId
       /\ \A i \in Ids : i = rows[r].dockerId => ~There(i, App)

LockInv ==
  \A p \in Ops :
    /\ history[p] # Erased /\ (Recorded(p) => history[p].row = 1)
    /\ Locked(p) /\ ~op[p].lost => lock[1] = p

SeenInv ==
  \A p \in Ops :
    /\ Points(op[p].back)
    /\ Locked(p) \/ op[p].pc \in {"check", "acquire"} =>
         /\ op[p].on = 1 /\ op[p].seen # NoRow
         /\ op[p].seen.name = App /\ Points(op[p].seen.dockerId)

(* The steps of an atomic rollback before it starts its candidate.         *)
Before == {"start", "check", "acquire", "create", "inspect", "resolve", "launch"}

CandidateInv ==
  \A p \in Ops : op[p].kind # "atomic" \/ op[p].pc \in Before => Untaken(p)

Deployed(p) ==
  /\ op[p].cand \in Ids /\ There(op[p].cand, App) /\ docker[op[p].cand].image = p
  /\ Untaken(p)

Shown(p) == rows[1].dockerId = op[p].cand /\ rows[1].image = p

IsCandidate(p) ==
  /\ op[p].cand \in Ids /\ There(op[p].cand, p) /\ docker[op[p].cand].image = p
  /\ \A r \in RowIds : rows[r] # NoRow => rows[r].dockerId # op[p].cand

(* What the request that holds the lock has achieved at each step.         *)
StageInv(p) ==
  /\ op[p].kind = "atomic" /\ op[p].pc \in {"probe", "clear", "rename"} => IsCandidate(p)
  /\ \/ op[p].pc \in {"finalize", "list", "read", "apply", "match", "succeed"}
     \/ op[p].pc = "probe" /\ op[p].kind = "recreate"
     => Deployed(p)
  /\ op[p].pc \in {"read", "apply"} => op[p].list \in {docker, [i \in Ids |-> Absent]}
  /\ op[p].pc = "apply" => op[p].known = rows
  /\ op[p].pc \in {"match", "succeed"} => Shown(p)
  /\ op[p].pc = "release" /\ Success(p) => Deployed(p) /\ Shown(p)

Good == /\ NamesInv /\ RowsInv /\ LockInv /\ SeenInv /\ CandidateInv
        /\ \A p \in Ops : lock[1] = p => StageInv(p)

DeployedInv ==
  /\ EndsInv /\ Apart
  /\ \/ Vanished
     \/ /\ Faithful => Good
        /\ losses = 0 => \A p \in Ops : ~op[p].lost

-----------------------------------------------------------------------------
(* What a step of one request leaves as it is.                             *)
Turn(p, step) ==
  /\ \A q \in Ops \ {p} : op'[q] = op[q]
  /\ op'[p].pc = step /\ op'[p].kind = op[p].kind /\ op'[p].lost = op[p].lost
  /\ op'[p].on = op[p].on /\ op'[p].seen = op[p].seen

LEMMA TurnTo ==
  ASSUME IInv, NEW p \in Ops, NEW o, NEW step, op' = [op EXCEPT ![p] = o],
         o.pc = step, o.kind = op[p].kind, o.lost = op[p].lost, o.on = op[p].on, o.seen = op[p].seen
  PROVE  Turn(p, step) /\ op'[p] = o
<1>1. op \in [Ops -> OpState]
  BY Known
<1> QED BY <1>1 DEF Turn

LEMMA Turns ==
  ASSUME IInv, NEW p \in Ops, NEW step
  PROVE  /\ Goto(p, step) =>
              Turn(p, step) /\ op'[p].cand = op[p].cand /\ op'[p].back = op[p].back
         /\ \A image : op' = [op EXCEPT ![p].pc = step, ![p].prev = image] =>
              Turn(p, step) /\ op'[p].back = op[p].back
         /\ op' = [op EXCEPT ![p].touched = TRUE, ![p].pc = step] =>
              Turn(p, step) /\ op'[p].cand = op[p].cand /\ op'[p].back = op[p].back
         /\ \A i : op' = [op EXCEPT ![p].cand = i, ![p].pc = step] =>
              Turn(p, step) /\ op'[p].cand = i /\ op'[p].back = op[p].back
         /\ \A i : op' = [op EXCEPT ![p].back = i, ![p].pc = step] =>
              Turn(p, step) /\ op'[p].back = i
         /\ \A mode : op' = [op EXCEPT ![p].mode = mode, ![p].pc = step] =>
              Turn(p, step) /\ op'[p].back = op[p].back
         /\ \A list : op' = [op EXCEPT ![p].list = list, ![p].pc = step] =>
              /\ Turn(p, step) /\ op'[p].list = list
              /\ op'[p].cand = op[p].cand /\ op'[p].back = op[p].back
         /\ \A read : op' = [op EXCEPT ![p].known = read, ![p].pc = step] =>
              /\ Turn(p, step) /\ op'[p].known = read /\ op'[p].list = op[p].list
              /\ op'[p].cand = op[p].cand /\ op'[p].back = op[p].back
         /\ op' = [op EXCEPT ![p].list = None, ![p].known = None, ![p].pc = step] =>
              Turn(p, step) /\ op'[p].cand = op[p].cand /\ op'[p].back = op[p].back
<1>0. op[p] \in OpState
  BY Known
<1>1. ASSUME Goto(p, step)
      PROVE  Turn(p, step) /\ op'[p].cand = op[p].cand /\ op'[p].back = op[p].back
  <2> DEFINE o == [op[p] EXCEPT !.pc = step]
  <2>1. op' = [op EXCEPT ![p] = o]
    BY <1>1, Zenon DEF Goto
  <2>2. /\ o.pc = step /\ o.kind = op[p].kind /\ o.lost = op[p].lost /\ o.on = op[p].on
        /\ o.seen = op[p].seen /\ o.cand = op[p].cand /\ o.back = op[p].back
    BY <1>0 DEF OpState
  <2> HIDE DEF o
  <2> QED BY <2>1, <2>2, TurnTo
<1>2. ASSUME NEW image, op' = [op EXCEPT ![p].pc = step, ![p].prev = image]
      PROVE  Turn(p, step) /\ op'[p].back = op[p].back
  <2> DEFINE o == [op[p] EXCEPT !.pc = step, !.prev = image]
  <2>1. op' = [op EXCEPT ![p] = o]
    BY <1>2, Zenon DEF Goto
  <2>2. /\ o.pc = step /\ o.kind = op[p].kind /\ o.lost = op[p].lost /\ o.on = op[p].on
        /\ o.seen = op[p].seen /\ o.back = op[p].back
    BY <1>0 DEF OpState
  <2> HIDE DEF o
  <2> QED BY <2>1, <2>2, TurnTo
<1>3. ASSUME op' = [op EXCEPT ![p].touched = TRUE, ![p].pc = step]
      PROVE  Turn(p, step) /\ op'[p].cand = op[p].cand /\ op'[p].back = op[p].back
  <2> DEFINE o == [op[p] EXCEPT !.touched = TRUE, !.pc = step]
  <2>1. op' = [op EXCEPT ![p] = o]
    BY <1>3, Zenon DEF Goto
  <2>2. /\ o.pc = step /\ o.kind = op[p].kind /\ o.lost = op[p].lost /\ o.on = op[p].on
        /\ o.seen = op[p].seen /\ o.cand = op[p].cand /\ o.back = op[p].back
    BY <1>0 DEF OpState
  <2> HIDE DEF o
  <2> QED BY <2>1, <2>2, TurnTo
<1>4. ASSUME NEW i, op' = [op EXCEPT ![p].cand = i, ![p].pc = step]
      PROVE  Turn(p, step) /\ op'[p].cand = i /\ op'[p].back = op[p].back
  <2> DEFINE o == [op[p] EXCEPT !.cand = i, !.pc = step]
  <2>1. op' = [op EXCEPT ![p] = o]
    BY <1>4, Zenon DEF Goto
  <2>2. /\ o.pc = step /\ o.kind = op[p].kind /\ o.lost = op[p].lost /\ o.on = op[p].on
        /\ o.seen = op[p].seen /\ o.cand = i /\ o.back = op[p].back
    BY <1>0 DEF OpState
  <2> HIDE DEF o
  <2> QED BY <2>1, <2>2, TurnTo
<1>5. ASSUME NEW i, op' = [op EXCEPT ![p].back = i, ![p].pc = step]
      PROVE  Turn(p, step) /\ op'[p].back = i
  <2> DEFINE o == [op[p] EXCEPT !.back = i, !.pc = step]
  <2>1. op' = [op EXCEPT ![p] = o]
    BY <1>5, Zenon DEF Goto
  <2>2. /\ o.pc = step /\ o.kind = op[p].kind /\ o.lost = op[p].lost /\ o.on = op[p].on
        /\ o.seen = op[p].seen /\ o.back = i
    BY <1>0 DEF OpState
  <2> HIDE DEF o
  <2> QED BY <2>1, <2>2, TurnTo
<1>6. ASSUME NEW mode, op' = [op EXCEPT ![p].mode = mode, ![p].pc = step]
      PROVE  Turn(p, step) /\ op'[p].back = op[p].back
  <2> DEFINE o == [op[p] EXCEPT !.mode = mode, !.pc = step]
  <2>1. op' = [op EXCEPT ![p] = o]
    BY <1>6, Zenon DEF Goto
  <2>2. /\ o.pc = step /\ o.kind = op[p].kind /\ o.lost = op[p].lost /\ o.on = op[p].on
        /\ o.seen = op[p].seen /\ o.back = op[p].back
    BY <1>0 DEF OpState
  <2> HIDE DEF o
  <2> QED BY <2>1, <2>2, TurnTo
<1>7. ASSUME NEW list, op' = [op EXCEPT ![p].list = list, ![p].pc = step]
      PROVE  /\ Turn(p, step) /\ op'[p].list = list
             /\ op'[p].cand = op[p].cand /\ op'[p].back = op[p].back
  <2> DEFINE o == [op[p] EXCEPT !.list = list, !.pc = step]
  <2>1. op' = [op EXCEPT ![p] = o]
    BY <1>7, Zenon DEF Goto
  <2>2. /\ o.pc = step /\ o.kind = op[p].kind /\ o.lost = op[p].lost /\ o.on = op[p].on
        /\ o.seen = op[p].seen /\ o.list = list
        /\ o.cand = op[p].cand /\ o.back = op[p].back
    BY <1>0 DEF OpState
  <2> HIDE DEF o
  <2> QED BY <2>1, <2>2, TurnTo
<1>8. ASSUME NEW read, op' = [op EXCEPT ![p].known = read, ![p].pc = step]
      PROVE  /\ Turn(p, step) /\ op'[p].known = read /\ op'[p].list = op[p].list
             /\ op'[p].cand = op[p].cand /\ op'[p].back = op[p].back
  <2> DEFINE o == [op[p] EXCEPT !.known = read, !.pc = step]
  <2>1. op' = [op EXCEPT ![p] = o]
    BY <1>8, Zenon DEF Goto
  <2>2. /\ o.pc = step /\ o.kind = op[p].kind /\ o.lost = op[p].lost /\ o.on = op[p].on
        /\ o.seen = op[p].seen /\ o.known = read /\ o.list = op[p].list
        /\ o.cand = op[p].cand /\ o.back = op[p].back
    BY <1>0 DEF OpState
  <2> HIDE DEF o
  <2> QED BY <2>1, <2>2, TurnTo
<1>9. ASSUME op' = [op EXCEPT ![p].list = None, ![p].known = None, ![p].pc = step]
      PROVE  Turn(p, step) /\ op'[p].cand = op[p].cand /\ op'[p].back = op[p].back
  <2> DEFINE o == [op[p] EXCEPT !.list = None, !.known = None, !.pc = step]
  <2>1. op' = [op EXCEPT ![p] = o]
    BY <1>9, Zenon DEF Goto
  <2>2. /\ o.pc = step /\ o.kind = op[p].kind /\ o.lost = op[p].lost /\ o.on = op[p].on
        /\ o.seen = op[p].seen /\ o.cand = op[p].cand /\ o.back = op[p].back
    BY <1>0 DEF OpState
  <2> HIDE DEF o
  <2> QED BY <2>1, <2>2, TurnTo
<1> QED BY <1>1, <1>2, <1>3, <1>4, <1>5, <1>6, <1>7, <1>8, <1>9

-----------------------------------------------------------------------------
(* Success and loss: what a step of request p may do about them.           *)
Facts(p) ==
  /\ \A q \in Ops \ {p} : op'[q] = op[q]
  /\ op'[p].kind = op[p].kind /\ op'[p].lost = op[p].lost
  /\ op'[p].pc = "succeed" => ~op[p].lost
  /\ op[p].pc \in {"release", "done", "crashed"} => op[p].pc = "release" /\ op'[p].pc = "done"
  /\ \A q \in Ops : Success(q)' =>
       Success(q) \/ (q = p /\ op[p].pc = "succeed" /\ op'[p].pc = "release")
  /\ losses' = losses

(* A request goes there although there is no row any more.                 *)
Allowed(p, step) ==
  /\ step \notin {"create", "list", "read", "apply"}
  /\ op[p].kind = "git" => step \notin {"clear", "launch"}

LEMMA StaysVanished ==
  ASSUME IInv, NEW p \in Ops, Vanished, \A q \in Ops \ {p} : op'[q] = op[q],
         op'[p].kind = op[p].kind, Allowed(p, op'[p].pc),
         rows' = rows, \A q \in Ops : history'[q] \in {None, Erased}
  PROVE  Vanished'
<1>1. \A q \in Ops : /\ op'[q].pc \notin {"create", "list", "read", "apply"}
                     /\ op'[q].kind = "git" => op'[q].pc \notin {"clear", "launch"}
  BY DEF Vanished, Allowed
<1> QED BY <1>1 DEF Vanished

(* A step that leaves the history and the rows alone.                      *)
LEMMA PlainFacts ==
  ASSUME IInv, NEW p \in Ops, NEW step, Turn(p, step), UNCHANGED history, UNCHANGED mishaps,
         step = "succeed" => ~op[p].lost,
         op[p].pc \in {"release", "done", "crashed"} => op[p].pc = "release" /\ step = "done",
         Vanished => Allowed(p, step) /\ rows' = rows
  PROVE  Facts(p) /\ (Vanished => Vanished')
<1>1. Facts(p)
  BY DEF Facts, Turn, Success, Recorded, mishaps
<1>2. ASSUME Vanished PROVE Vanished'
  BY <1>2, StaysVanished DEF Turn, Vanished
<1> QED BY <1>1, <1>2

LEMMA KnownDeploy ==
  ASSUME IInv, Kinds \subseteq Deploys, NEW p \in Ops
  PROVE  /\ op[p].kind \in {"atomic", "recreate", "git", "app"}
         /\ Suits(op[p].kind, op[p].pc) /\ Remembers(op[p]) /\ op[p] \in OpState
  BY Known DEF OpState, Deploys, Rollbacks

LEMMA StartFacts ==
  ASSUME IInv, Kinds \subseteq Deploys, NEW p \in Ops, Start(p)
  PROVE  Facts(p) /\ (Vanished => Vanished')
<1>1. op[p].pc = "start" /\ op \in [Ops -> OpState] /\ op[p].kind \in Deploys
      /\ UNCHANGED table /\ UNCHANGED mishaps
  BY Known, KnownDeploy DEF Start, At, Deploys, Rollbacks
<1>2. ASSUME NEW r \in RowIds, rows[r] # NoRow, NEW next, next \in {"check", "acquire"},
             op' = [op EXCEPT ![p].on = r, ![p].seen = rows[r], ![p].pc = next]
      PROVE  Facts(p) /\ (Vanished => Vanished')
  <2> DEFINE o == [op[p] EXCEPT !.on = r, !.seen = rows[r], !.pc = next]
  <2>1. op' = [op EXCEPT ![p] = o]
    BY <1>2, Zenon
  <2>2. o.pc = next /\ o.kind = op[p].kind /\ o.lost = op[p].lost
    BY <1>1 DEF OpState
  <2> HIDE DEF o
  <2>3. op'[p] = o /\ \A q \in Ops \ {p} : op'[q] = op[q]
    BY <1>1, <2>1
  <2>4. Facts(p)
    BY <1>1, <1>2, <2>2, <2>3 DEF Facts, Success, Recorded, table, mishaps
  <2>5. ~Vanished
    BY <1>2 DEF Vanished
  <2> QED BY <2>4, <2>5
<1>3. CASE op[p].kind = "app" /\ Goto(p, "clear")
  <2>1. Turn(p, "clear")
    BY <1>3, Turns
  <2> QED BY <1>1, <1>3, <2>1, PlainFacts DEF Allowed, table
<1>4. CASE \E r \in RowIds : /\ rows[r] # NoRow
                             /\ op' = [op EXCEPT ![p].on = r, ![p].seen = rows[r],
                                         ![p].pc = CASE op[p].kind \in Rollbacks -> "check"
                                                     [] op[p].kind = "delete" -> "clear"
                                                     [] op[p].kind \in Actions -> "act"
                                                     [] OTHER -> "acquire"]
  <2> DEFINE next == CASE op[p].kind \in Rollbacks -> "check"
                       [] op[p].kind = "delete" -> "clear"
                       [] op[p].kind \in Actions -> "act"
                       [] OTHER -> "acquire"
  <2>1. next \in {"check", "acquire"}
    BY <1>1 DEF Deploys, Rollbacks, Actions
  <2>2. PICK r \in RowIds : /\ rows[r] # NoRow
                            /\ op' = [op EXCEPT ![p].on = r, ![p].seen = rows[r], ![p].pc = next]
    BY <1>4
  <2> HIDE DEF next
  <2> QED BY <1>2, <2>1, <2>2
<1> QED BY <1>3, <1>4 DEF Start

LEMMA CheckFacts ==
  ASSUME IInv, Kinds \subseteq Deploys, NEW p \in Ops, Check(p)
  PROVE  Facts(p) /\ (Vanished => Vanished')
<1>1. PICK step \in {"done", "acquire"} : Goto(p, step)
  BY DEF Check
<1>2. op[p].pc = "check" /\ UNCHANGED table /\ UNCHANGED mishaps /\ Turn(p, step)
  BY <1>1, Turns DEF Check, At
<1> QED BY <1>2, PlainFacts DEF Allowed, table

LEMMA AcquireFacts ==
  ASSUME IInv, Kinds \subseteq Deploys, NEW p \in Ops, Acquire(p)
  PROVE  Facts(p) /\ (Vanished => Vanished')
<1>1. op[p].pc = "acquire" /\ op[p].on \in RowIds
  BY KnownDeploy DEF Acquire, Remembers, Rollbacks
<1>2. PICK step \in {"recordRow", "done", "create"} :
        Goto(p, step) /\ (step = "create" => rows[op[p].on] # NoRow)
  BY DEF Acquire
<1>3. Turn(p, step) /\ UNCHANGED <<rows, history>> /\ UNCHANGED mishaps
  BY <1>2, Turns DEF Acquire
<1>4. Vanished => Allowed(p, step)
  BY <1>1, <1>2 DEF Vanished, Allowed
<1> QED BY <1>1, <1>2, <1>3, <1>4, PlainFacts

LEMMA CreateFacts ==
  ASSUME IInv, Kinds \subseteq Deploys, NEW p \in Ops, Create(p)
  PROVE  Facts(p) /\ (Vanished => Vanished')
<1>1. op[p].pc = "create" /\ UNCHANGED mishaps
  BY DEF Create
<1>2. PICK step \in {"inspect", "clear", "release", "recordFailure", "recordRow"} : Goto(p, step)
  BY <1>1, KnownDeploy DEF Create, OnError, Rollbacks, NewDeploys
<1>3. Turn(p, step)
  BY <1>2, Turns
<1>4. \A q \in Ops : Success(q)' => Success(q)
  <2>1. history \in [Ops -> Deployment \cup {None, Erased}]
    BY DEF IInv, Parts, TableOK
  <2>2. \A q \in Ops : history'[q] = history[q] \/ history'[q] = [row |-> op[p].on, status |-> "RUNNING"]
    BY <2>1 DEF Create
  <2>3. [row |-> op[p].on, status |-> "RUNNING"].status # "SUCCESS"
    OBVIOUS
  <2> QED BY <2>2, <2>3 DEF Success, Recorded
<1>5. Facts(p)
  BY <1>1, <1>2, <1>3, <1>4 DEF Facts, Turn, mishaps
<1> QED BY <1>1, <1>5 DEF Vanished

LEMMA InspectFacts ==
  ASSUME IInv, Kinds \subseteq Deploys, NEW p \in Ops, Inspect(p)
  PROVE  Facts(p) /\ (Vanished => Vanished')
<1>1. op[p].pc = "inspect" /\ UNCHANGED table /\ UNCHANGED mishaps
  BY DEF Inspect
<1>2. PICK image : op' = [op EXCEPT ![p].pc = "resolve", ![p].prev = image]
  BY DEF Inspect
<1>3. Turn(p, "resolve")
  BY <1>2, Turns
<1> QED BY <1>1, <1>3, PlainFacts DEF Allowed, table

LEMMA ResolveFacts ==
  ASSUME IInv, Kinds \subseteq Deploys, NEW p \in Ops, Resolve(p)
  PROVE  Facts(p) /\ (Vanished => Vanished')
<1>1. op[p].pc = "resolve" /\ op[p].kind \in Rollbacks /\ UNCHANGED table /\ UNCHANGED mishaps
  BY KnownDeploy DEF Resolve, Suits
<1>2. PICK step \in {"launch", "clear", "recordRow"} : Goto(p, step)
  BY DEF Resolve
<1>3. Turn(p, step)
  BY <1>2, Turns
<1> QED BY <1>1, <1>3, PlainFacts DEF Allowed, table, Rollbacks

LEMMA ClearFacts ==
  ASSUME IInv, Kinds \subseteq Deploys, NEW p \in Ops, Clear(p)
  PROVE  Facts(p) /\ (Vanished => Vanished')
<1>1. op[p].pc = "clear" /\ op[p].kind \in Deploys /\ UNCHANGED table /\ UNCHANGED mishaps
  BY DEF Clear, At
<1>2. PICK step : op' = [op EXCEPT ![p].touched = TRUE, ![p].pc = step]
                  /\ step \in {"rename", "launch", OnError(p)}
  <2>1. PICK answer \in {"ok", "error"} :
          op' = [op EXCEPT ![p].touched = TRUE,
                   ![p].pc = IF answer = "ok" \/ op[p].kind = "app"
                             THEN IF op[p].kind = "atomic" THEN "rename" ELSE "launch"
                             ELSE OnError(p)]
    BY DEF Clear
  <2> QED BY <2>1
<1>3. OnError(p) \in {"cleanup", "recordFailure", "recordRow"}
  BY <1>1 DEF OnError, Deploys, Rollbacks
<1>4. Turn(p, step)
  BY <1>2, Turns
<1>5. Vanished => op[p].kind # "git"
  BY <1>1 DEF Vanished
<1> QED BY <1>1, <1>2, <1>3, <1>4, <1>5, PlainFacts DEF Allowed, table

LEMMA LaunchFacts ==
  ASSUME IInv, Kinds \subseteq Deploys, NEW p \in Ops, Launch(p)
  PROVE  Facts(p) /\ (Vanished => Vanished')
<1>1. /\ op[p].pc = "launch" /\ op[p].kind \in {"atomic", "recreate", "git", "app"}
      /\ UNCHANGED table /\ UNCHANGED mishaps
  BY KnownDeploy DEF Launch
<1> DEFINE next == CASE op[p].kind \in Rollbacks -> "probe"
                     [] op[p].kind \in {"git", "source"} -> "list"
                     [] op[p].kind = "app" -> "finalize"
                     [] op[p].kind = "image" -> "record"
<1>2. \/ op' = [op EXCEPT ![p].cand = lastId + 1, ![p].pc = next]
      \/ Goto(p, OnError(p))
  BY DEF Launch
<1>3. /\ next \in {"probe", "list", "finalize"} /\ (next = "list" => op[p].kind = "git")
      /\ OnError(p) \in {"cleanup", "recordFailure", "recordRow"}
  BY <1>1 DEF OnError, Rollbacks, NewDeploys
<1>4. Vanished => op[p].kind # "git"
  BY <1>1 DEF Vanished
<1> HIDE DEF next
<1>5. PICK step \in {next, OnError(p)} : Turn(p, step)
  BY <1>2, Turns
<1> QED BY <1>1, <1>3, <1>4, <1>5, PlainFacts DEF Allowed, table

LEMMA ProbeFacts ==
  ASSUME IInv, Kinds \subseteq Deploys, NEW p \in Ops, Probe(p) \/ Rename(p)
  PROVE  Facts(p) /\ (Vanished => Vanished')
<1>1. /\ op[p].pc \in {"probe", "rename"} /\ op[p].kind \in Rollbacks
      /\ UNCHANGED table /\ UNCHANGED mishaps
  BY KnownDeploy DEF Probe, Rename, Suits, Rollbacks
<1>2. PICK step : step \in {"cleanup", "clear", "finalize"} /\ Goto(p, step)
  <2> DEFINE To(answer) == IF answer = "error" THEN "cleanup"
                           ELSE IF op[p].kind = "atomic" THEN "clear" ELSE "finalize"
  <2>1. CASE Probe(p)
    <3>1. PICK answer \in {"ok", "error"} : Goto(p, To(answer))
      BY <2>1 DEF Probe
    <3>2. To(answer) \in {"cleanup", "clear", "finalize"}
      BY <1>1 DEF Rollbacks
    <3> QED BY <3>1, <3>2
  <2>2. CASE Rename(p)
    BY <2>2 DEF Rename
  <2> QED BY <2>1, <2>2
<1>3. Turn(p, step)
  BY <1>2, Turns
<1> QED BY <1>1, <1>2, <1>3, PlainFacts DEF Allowed, table, Rollbacks

LEMMA FinalizeFacts ==
  ASSUME IInv, Kinds \subseteq Deploys, NEW p \in Ops, Finalize(p)
  PROVE  Facts(p) /\ (Vanished => Vanished')
<1>1. /\ op[p].pc = "finalize" /\ op[p].kind \in {"atomic", "recreate", "app"}
      /\ op[p].kind # "app" => op[p].on \in RowIds
      /\ UNCHANGED history /\ UNCHANGED mishaps
  BY KnownDeploy DEF Finalize, Suits, Remembers, Rollbacks
<1>2. PICK step \in {"release", "cleanup", "succeed"} :
        Goto(p, step) /\ (step = "succeed" => ~op[p].lost /\ rows' = FinalRows(p))
                      /\ (step = "succeed" /\ op[p].kind # "app" => rows[op[p].on] # NoRow)
                      /\ (step # "succeed" => rows' = rows)
  BY <1>1 DEF Finalize, Rollbacks
<1>3. Turn(p, step)
  BY <1>2, Turns
<1>4. ASSUME Vanished PROVE rows' = rows
  <2>1. CASE step # "succeed"
    BY <1>2, <2>1
  <2>2. CASE step = "succeed"
    <3>1. op[p].kind = "app" /\ Named(App) = {} /\ rows' = FinalRows(p)
      BY <1>1, <1>2, <1>4, <2>2 DEF Vanished, Named
    <3>2. rows' = [r \in RowIds |-> rows[r]]
      BY <3>1 DEF FinalRows
    <3>3. rows \in Tables
      BY DEF IInv, Parts, TableOK
    <3> QED BY <3>2, <3>3 DEF Tables
  <2> QED BY <2>1, <2>2
<1> QED BY <1>1, <1>2, <1>3, <1>4, PlainFacts DEF Allowed

LEMMA SucceedFacts ==
  ASSUME IInv, Kinds \subseteq Deploys, NEW p \in Ops, Succeed(p)
  PROVE  Facts(p) /\ (Vanished => Vanished')
<1>1. op[p].pc = "succeed" /\ UNCHANGED rows /\ UNCHANGED mishaps
  BY DEF Succeed
<1>2. PICK step : /\ Goto(p, step) /\ step \in {"release", "cleanup", "recordFailure", "recordRow"}
                  /\ step # "release" => history' = history
  <2>1. OnError(p) \in {"cleanup", "recordFailure", "recordRow"}
    BY <1>1, KnownDeploy DEF OnError, Rollbacks, NewDeploys
  <2> QED BY <2>1 DEF Succeed
<1>3. Turn(p, step)
  BY <1>2, Turns
<1>4. history \in [Ops -> Deployment \cup {None, Erased}]
  BY DEF IInv, Parts, TableOK
<1>5. \A q \in Ops : history'[q] = history[q] \/ (q = p /\ step = "release" /\ Recorded(p))
  BY <1>2, <1>4 DEF Succeed
<1>6. Facts(p)
  BY <1>1, <1>2, <1>3, <1>5 DEF Facts, Turn, Success, Recorded, mishaps
<1>7. ASSUME Vanished PROVE Vanished'
  <2>1. \A q \in Ops : history'[q] \in {None, Erased}
    BY <1>5, <1>7 DEF Vanished, Recorded
  <2> QED BY <1>1, <1>2, <1>3, <1>7, <2>1, StaysVanished DEF Turn, Allowed
<1> QED BY <1>6, <1>7

LEMMA CleanupFacts ==
  ASSUME IInv, Kinds \subseteq Deploys, NEW p \in Ops,
         Cleanup(p) \/ Verify(p) \/ Relaunch(p) \/ Reverify(p)
  PROVE  Facts(p) /\ (Vanished => Vanished')
<1>1. /\ op[p].pc \in {"cleanup", "verify", "relaunch", "reverify"}
      /\ UNCHANGED table /\ UNCHANGED mishaps
  BY DEF Cleanup, Verify, Relaunch, Reverify
<1>2. \/ \E step \in {"relaunch", "verify"} : Goto(p, step)
      \/ \E mode : op' = [op EXCEPT ![p].mode = mode, ![p].pc = "recordRow"]
      \/ op' = [op EXCEPT ![p].back = lastId + 1, ![p].pc = "reverify"]
  <2>1. CASE Cleanup(p)
    BY <2>1 DEF Cleanup, Recovered
  <2>2. CASE Verify(p)
    BY <2>2 DEF Verify, Recovered
  <2>3. CASE Relaunch(p)
    BY <2>3 DEF Relaunch, Recovered
  <2>4. CASE Reverify(p)
    BY <2>4 DEF Reverify, Recovered
  <2> QED BY <2>1, <2>2, <2>3, <2>4
<1>3. PICK step \in {"relaunch", "verify", "recordRow", "reverify"} : Turn(p, step)
  BY <1>2, Turns
<1> QED BY <1>1, <1>3, PlainFacts DEF Allowed, table

LEMMA RecordRowFacts ==
  ASSUME IInv, Kinds \subseteq Deploys, NEW p \in Ops, RecordRow(p)
  PROVE  Facts(p) /\ (Vanished => Vanished')
<1>1. /\ op[p].pc = "recordRow" /\ op[p].kind \in {"atomic", "recreate", "app"}
      /\ op[p].kind # "app" => op[p].on \in RowIds
      /\ UNCHANGED history /\ UNCHANGED mishaps
  BY KnownDeploy DEF RecordRow, Suits, Remembers, Rollbacks
<1>2. PICK step \in {"recordFailure", "release"} : Goto(p, step)
  BY DEF RecordRow
<1>3. Turn(p, step)
  BY <1>2, Turns
<1>4. ASSUME Vanished PROVE rows' = rows
  <2>1. CASE op[p].kind = "app"
    <3>1. Named(App) = {}
      BY <1>4 DEF Vanished, Named
    <3>2. rows' = [r \in RowIds |-> rows[r]]
      BY <2>1, <3>1 DEF RecordRow
    <3>3. rows \in Tables
      BY DEF IInv, Parts, TableOK
    <3> QED BY <3>2, <3>3 DEF Tables
  <2>2. CASE op[p].kind # "app"
    BY <1>1, <1>4, <2>2 DEF RecordRow, Vanished
  <2> QED BY <2>1, <2>2
<1> QED BY <1>1, <1>3, <1>4, PlainFacts DEF Allowed

LEMMA RecordFailureFacts ==
  ASSUME IInv, Kinds \subseteq Deploys, NEW p \in Ops, RecordFailure(p)
  PROVE  Facts(p) /\ (Vanished => Vanished')
<1>1. op[p].pc = "recordFailure" /\ UNCHANGED rows /\ UNCHANGED mishaps /\ Goto(p, "release")
  BY DEF RecordFailure
<1>2. Turn(p, "release")
  BY <1>1, Turns
<1>3. history \in [Ops -> Deployment \cup {None, Erased}]
  BY DEF IInv, Parts, TableOK
<1>4. /\ \A q \in Ops \ {p} : history'[q] = history[q]
      /\ history'[p] = history[p] \/ (Recorded(p) /\ history'[p].status = "FAILED")
  <2>1. CASE Recorded(p)
    <3>1. history[p] \in Deployment
      BY <1>3, <2>1 DEF Recorded
    <3>2. [history[p] EXCEPT !.status = "FAILED"].status = "FAILED"
      BY <3>1 DEF Deployment
    <3>3. history' = [history EXCEPT ![p] = [history[p] EXCEPT !.status = "FAILED"]]
      BY <2>1, Zenon DEF RecordFailure
    <3> QED BY <1>3, <2>1, <3>2, <3>3
  <2>2. CASE ~Recorded(p)
    BY <2>2 DEF RecordFailure
  <2> QED BY <2>1, <2>2
<1>5. Facts(p)
  BY <1>1, <1>2, <1>4 DEF Facts, Turn, Success, Recorded, mishaps
<1>6. ASSUME Vanished PROVE Vanished'
  <2>1. \A q \in Ops : history'[q] \in {None, Erased}
    BY <1>4, <1>6 DEF Vanished, Recorded
  <2> QED BY <1>1, <1>2, <1>6, <2>1, StaysVanished DEF Turn, Allowed
<1> QED BY <1>5, <1>6

LEMMA ReleaseFacts ==
  ASSUME IInv, Kinds \subseteq Deploys, NEW p \in Ops, Release(p)
  PROVE  Facts(p) /\ (Vanished => Vanished')
<1>1. op[p].pc = "release" /\ UNCHANGED <<rows, history>> /\ UNCHANGED mishaps /\ Goto(p, "done")
  BY DEF Release
<1>2. Turn(p, "done")
  BY <1>1, Turns
<1> QED BY <1>1, <1>2, PlainFacts DEF Allowed

LEMMA ListFacts ==
  ASSUME IInv, Kinds \subseteq Deploys, NEW p \in Ops, List(p) \/ Read(p)
  PROVE  Facts(p) /\ (Vanished => Vanished')
<1>1. op[p].pc \in {"list", "read"} /\ UNCHANGED table /\ UNCHANGED mishaps
  BY KnownDeploy DEF List, Read, At, NewDeploys
<1>2. op[p].pc = "list" => op[p].kind = "git"
  BY KnownDeploy DEF Suits
<1>3. \/ \E list : op' = [op EXCEPT ![p].list = list, ![p].pc = "read"]
      \/ Goto(p, OnError(p)) /\ op[p].pc = "list"
      \/ op' = [op EXCEPT ![p].known = rows, ![p].pc = "apply"]
  BY <1>1, KnownDeploy DEF List, Read, At, NewDeploys
<1>4. op[p].kind = "git" => OnError(p) = "recordFailure"
  BY DEF OnError, Rollbacks, NewDeploys
<1>5. PICK step \in {"read", "apply", "recordFailure"} : Turn(p, step)
  BY <1>2, <1>3, <1>4, Turns
<1> QED BY <1>1, <1>5, PlainFacts DEF Vanished, table

LEMMA ApplyFacts ==
  ASSUME IInv, Kinds \subseteq Deploys, NEW p \in Ops, Apply(p)
  PROVE  Facts(p) /\ (Vanished => Vanished')
<1>1. op[p].pc = "apply" /\ UNCHANGED mishaps
  BY DEF Apply
<1>2. PICK step : /\ op' = [op EXCEPT ![p].list = None, ![p].known = None, ![p].pc = step]
                  /\ step \in {AfterSync(p), OnError(p)}
  BY DEF Apply
<1>3. step \in {"match", "done", "cleanup", "recordFailure", "recordRow"}
  BY <1>1, <1>2, KnownDeploy DEF AfterSync, OnError, Rollbacks, NewDeploys
<1>4. Turn(p, step)
  BY <1>2, Turns
<1>5. history \in [Ops -> Deployment \cup {None, Erased}]
  BY DEF IInv, Parts, TableOK
<1>6. \A q \in Ops : history'[q] \in {history[q], Erased}
  BY <1>5 DEF Apply, Cascade, table
<1>7. Facts(p)
  BY <1>1, <1>3, <1>4, <1>6 DEF Facts, Turn, Success, Recorded, mishaps
<1> QED BY <1>1, <1>7 DEF Vanished

LEMMA MatchTargetFacts ==
  ASSUME IInv, Kinds \subseteq Deploys, NEW p \in Ops, MatchTarget(p)
  PROVE  Facts(p) /\ (Vanished => Vanished')
<1>1. /\ op[p].pc = "match" /\ op[p].kind = "git"
      /\ UNCHANGED <<rows, history>> /\ UNCHANGED mishaps
  BY KnownDeploy DEF MatchTarget, Suits
<1>2. PICK step \in {"recordFailure", "succeed"} :
        /\ Goto(p, step)
        /\ step = "succeed" => ~op[p].lost
  <2> DEFINE found == Named(IF op[p].kind = "source" THEN App ELSE op[p].seen.name)
             next == IF found = {} \/ op[p].lost THEN OnError(p)
                     ELSE IF op[p].kind = "git" THEN "succeed" ELSE "history"
  <2>1. Goto(p, next)
    BY DEF MatchTarget
  <2>2. OnError(p) = "recordFailure"
    BY <1>1 DEF OnError, Rollbacks, NewDeploys
  <2> HIDE DEF found
  <2>3. next \in {"recordFailure", "succeed"} /\ (next = "succeed" => ~op[p].lost)
    BY <1>1, <2>2
  <2> HIDE DEF next
  <2> QED BY <2>1, <2>3
<1>3. Turn(p, step)
  BY <1>2, Turns
<1> QED BY <1>1, <1>2, <1>3, PlainFacts DEF Allowed

(* All steps of a request together.                                        *)
LEMMA StepFacts ==
  ASSUME IInv, Kinds \subseteq Deploys, NEW p \in Ops, Step(p)
  PROVE  Facts(p) /\ (Vanished => Vanished')
<1>1. ~ClearDeleted(p) /\ ~Drop(p)
  BY KnownDeploy DEF ClearDeleted, Drop, At, Suits
<1> QED BY <1>1, StartFacts, CheckFacts, AcquireFacts, CreateFacts, InspectFacts, ResolveFacts,
           ClearFacts, LaunchFacts, ProbeFacts, FinalizeFacts, SucceedFacts, CleanupFacts,
           RecordRowFacts, RecordFailureFacts, ReleaseFacts, ListFacts, ApplyFacts,
           MatchTargetFacts DEF Step

-----------------------------------------------------------------------------
(* What a Docker command leaves of the host: names stay unique, an id that *)
(* points to the application does so after it, and so does a row.  Only a  *)
(* container of the given name may have appeared.                          *)
HostKept(name) ==
  /\ NamesInv'
  /\ \A i \in Ids \cup {Nothing} : Points(i) => Points(i)'
  /\ \A q \in Ops : q # name /\ Untaken(q) => Untaken(q)'
  /\ RowsInv /\ UNCHANGED <<rows, sourced>> => RowsInv'

LEMMA RowTyped ==
  ASSUME IInv, NEW r \in RowIds, rows[r] # NoRow
  PROVE  rows[r] \in Row /\ rows[r].dockerId \in Ids \cup {Nothing}
BY DEF IInv, Parts, TableOK, Tables, Row

(* No command, or one that only stops and removes containers.              *)
Spared(i) == \/ docker'[i] = Absent
           \/ /\ docker[i] # Absent
              /\ docker'[i].name = docker[i].name /\ docker'[i].image = docker[i].image

LEMMA Shrinks ==
  ASSUME IInv, NamesInv, lastId' = lastId, \A i \in Ids : Spared(i), NEW name
  PROVE  HostKept(name)
<1>1. NamesInv'
  BY DEF NamesInv, Spared
<1>2. \A i \in Ids \cup {Nothing} : Points(i) => Points(i)'
  BY DEF Points, Spared
<1>3. \A q \in Ops : Untaken(q) => Untaken(q)'
  BY DEF Untaken, There, Spared
<1>4. ASSUME RowsInv, UNCHANGED <<rows, sourced>> PROVE RowsInv'
  <2>1. Points(rows[1].dockerId)'
    BY <1>2, <1>4, RowIds1, RowTyped DEF RowsInv
  <2> QED BY <1>4, <2>1 DEF RowsInv, There, Spared
<1> QED BY <1>1, <1>2, <1>3, <1>4 DEF HostKept

LEMMA SameDocker ==
  ASSUME IInv, NamesInv, UNCHANGED <<docker, lastId>>, NEW name
  PROVE  HostKept(name)
BY Shrinks DEF Spared

(* A container may be launched: it has a new id and a name of its own.     *)
LEMMA Grows ==
  ASSUME IInv, NamesInv, NEW n \in Ids, n = lastId + 1, lastId' = n, NEW name,
         \A i \in Ids : \/ docker'[i] = docker[i]
                        \/ i = n /\ docker'[i].name = name /\ Untaken(name)
  PROVE  HostKept(name)
<1>1. PICK last \in Int : last = lastId
  BY DEF IInv, Parts, HostOK, Ids
<1>2. n = last + 1 /\ lastId' = n /\ \A i \in Ids : i <= last => docker'[i] = docker[i] /\ i <= n
  BY <1>1 DEF Ids
<1>3. \A i \in Ids : docker[i] # Absent => i <= last
  BY <1>1 DEF NamesInv
<1>4. \A i \in Ids : docker'[i] # Absent => i <= last \/ i = n
  BY <1>3
<1>5. n <= n /\ \A i \in Ids : i <= last => i <= n
  BY <1>2 DEF Ids
<1>6. NamesInv'
  <2>1. \A i \in Ids : docker'[i] # Absent => i <= lastId'
    BY <1>2, <1>4, <1>5
  <2>2. ASSUME NEW i \in Ids, NEW j \in Ids, docker'[i] # Absent, docker'[j] # Absent,
               docker'[i].name = docker'[j].name
        PROVE  i = j
    <3>1. CASE docker'[i] = docker[i] /\ docker'[j] = docker[j]
      BY <2>2, <3>1 DEF NamesInv
    <3>2. CASE docker'[i] = docker[i] /\ docker'[j] # docker[j]
      BY <2>2, <3>2 DEF Untaken, There
    <3>3. CASE docker'[i] # docker[i] /\ docker'[j] = docker[j]
      BY <2>2, <3>3 DEF Untaken, There
    <3>4. CASE docker'[i] # docker[i] /\ docker'[j] # docker[j]
      BY <3>4
    <3> QED BY <3>1, <3>2, <3>3, <3>4
  <2> QED BY <2>1, <2>2 DEF NamesInv
<1>7. ASSUME NEW i \in Ids \cup {Nothing}, Points(i) PROVE Points(i)'
  <2>1. i <= last /\ (i \in Ids => docker'[i] = docker[i])
    BY <1>1, <1>2, <1>7 DEF Points
  <2>2. i <= lastId'
    BY <1>2, <2>1 DEF Ids, Nothing
  <2> QED BY <1>7, <2>1, <2>2 DEF Points
<1>8. \A q \in Ops : q # name /\ Untaken(q) => Untaken(q)'
  BY DEF Untaken, There
<1>9. ASSUME RowsInv, UNCHANGED <<rows, sourced>> PROVE RowsInv'
  <2>1. Points(rows[1].dockerId)'
    BY <1>7, <1>9, RowIds1, RowTyped DEF RowsInv
  <2>2. ASSUME NEW r \in RowIds \ {1}, rows[r] # NoRow
        PROVE  /\ rows[r].dockerId <= lastId'
               /\ \A i \in Ids : i = rows[r].dockerId => docker'[i] = docker[i]
    <3>1. PICK id \in Ids \cup {Nothing} : id = rows[r].dockerId
      BY <2>2, RowTyped
    <3>2. id <= last
      BY <1>1, <1>9, <2>2, <3>1 DEF RowsInv
    <3>3. id <= n
      BY <1>2, <3>2 DEF Ids, Nothing
    <3> QED BY <1>2, <3>1, <3>2, <3>3
  <2> QED BY <1>9, <2>1, <2>2 DEF RowsInv, There
<1> QED BY <1>6, <1>7, <1>8, <1>9 DEF HostKept

(* The candidate c of an atomic rollback may get the name of the           *)
(* application, which no other container has any more.                     *)
LEMMA Renames ==
  ASSUME IInv, NamesInv, UNCHANGED lastId, NEW p \in Ops, NEW c \in Ids, There(c, p),
         Untaken(App), \A r \in RowIds : rows[r] # NoRow => rows[r].dockerId # c,
         \A i \in Ids : \/ docker'[i] = docker[i]
                        \/ i = c /\ docker'[i].name = App, NEW name
  PROVE  HostKept(name)
<1>1. NamesInv'
  <2>1. \A i \in Ids : docker'[i] # Absent => i <= lastId'
    BY DEF NamesInv, There
  <2>2. ASSUME NEW i \in Ids, NEW j \in Ids, docker'[i] # Absent, docker'[j] # Absent,
               docker'[i].name = docker'[j].name
        PROVE  i = j
    BY <2>2 DEF NamesInv, Untaken, There
  <2> QED BY <2>1, <2>2 DEF NamesInv
<1>2. \A i \in Ids \cup {Nothing} : Points(i) => Points(i)'
  BY DEF Points
<1>3. \A q \in Ops : Untaken(q) => Untaken(q)'
  BY ConstantsAssumption DEF Untaken, There
<1>4. ASSUME RowsInv, UNCHANGED <<rows, sourced>> PROVE RowsInv'
  <2>1. Points(rows[1].dockerId)'
    BY <1>2, <1>4, RowIds1, RowTyped DEF RowsInv
  <2> QED BY <1>4, <2>1 DEF RowsInv, There
<1> QED BY <1>1, <1>2, <1>3, <1>4 DEF HostKept

(* The outcomes of the commands are such changes.                          *)
LEMMA RemoveShrinks ==
  ASSUME IInv, NEW refs, NEW A, Docker(RemoveOutcomes(refs), A)
  PROVE  \A i \in Ids : /\ Spared(i)
                        /\ \/ docker'[i] = docker[i]
                           \/ \E k \in DOMAIN refs : i \in D!Matches(docker, refs[k])
<1>1. docker \in Hosts
  BY DEF IInv, Parts, HostOK
<1>2. \/ docker' = docker
      \/ \E ref \in FirstFound(refs) : docker' \in {D!Removed(docker, ref), D!Stopped(docker, ref)}
  BY DEF Docker, RemoveOutcomes, D!Attempt, D!Outcome
<1>3. CASE docker' = docker
  BY <1>3 DEF Spared
<1>4. ASSUME NEW ref \in FirstFound(refs),
             docker' \in {D!Removed(docker, ref), D!Stopped(docker, ref)}
      PROVE  \A i \in Ids : /\ Spared(i)
                            /\ docker'[i] = docker[i] \/ i \in D!Matches(docker, ref)
  <2>1. \A i \in D!Matches(docker, ref) :
          /\ docker[i] \in Container /\ docker[i] # Absent
          /\ [docker[i] EXCEPT !.state = "exited"].name = docker[i].name
          /\ [docker[i] EXCEPT !.state = "exited"].image = docker[i].image
    BY <1>1 DEF D!Matches, Hosts, Container
  <2> QED BY <1>4, <2>1 DEF D!Removed, D!Stopped, Spared
<1>5. \A ref \in FirstFound(refs) : \E k \in DOMAIN refs : ref = refs[k]
  BY DEF FirstFound
<1> QED BY <1>2, <1>3, <1>4, <1>5

LEMMA RunGrows ==
  ASSUME IInv, NEW n \in Ids, NEW name \in {App} \cup Ops, NEW image \in {Prev} \cup Ops, NEW A,
         Docker(D!RunOutcomes(docker, n, name, image), A)
  PROVE  /\ \A i \in Ids : \/ docker'[i] = docker[i]
                           \/ i = n /\ docker'[i].name = name /\ Untaken(name)
         /\ A = {"ok"} => There(n, name)' /\ docker'[n].image = image /\ Untaken(name)
<1> DEFINE C(state) == [name |-> name, image |-> image, state |-> state]
           With(state) == [docker EXCEPT ![n] = C(state)]
<1>1. docker \in Hosts
  BY DEF IInv, Parts, HostOK
<1>2. /\ docker' = docker \/ (Untaken(name) /\ \E s \in {"running", "restarting", "created", "exited"} :
                                                       docker' = With(s))
      /\ A = {"ok"} => Untaken(name) /\ \E s \in {"running", "restarting", "exited"} : docker' = With(s)
  <2>1. ~D!NameTaken(docker, name) <=> Untaken(name)
    BY DEF D!NameTaken, Untaken, There
  <2> HIDE DEF With
  <2>2. D!RunOutcomes(docker, n, name, image) =
          IF D!NameTaken(docker, name) THEN {D!Outcome("error", docker, 0)}
          ELSE D!Attempt(docker, With("running"))
                 \cup {D!Outcome("error", With("created"), 1), D!Outcome("ok", With("exited"), 1),
                       D!Outcome("ok", With("restarting"), 1)}
    BY DEF D!RunOutcomes, With
  <2> QED BY <2>1, <2>2 DEF Docker, D!Attempt, D!Outcome
<1>3. \A s \in {"running", "restarting", "created", "exited"} :
        /\ C(s) # Absent /\ C(s).name = name /\ C(s).image = image
        /\ With(s)[n] = C(s) /\ \A i \in Ids : i # n => With(s)[i] = docker[i]
  <2>1. \A s \in {"running", "restarting", "created", "exited"} : C(s) \in Container
    BY DEF Container
  <2> QED BY <1>1, <2>1, ConstantsAssumption DEF Hosts
<1> HIDE DEF C, With
<1> QED BY <1>2, <1>3 DEF There

-----------------------------------------------------------------------------
(* No lock was lost too early, and all is as it should be.                 *)
Sound == IInv /\ EndsInv /\ Faithful /\ Apart /\ Good

LEMMA Owner ==
  ASSUME Sound, NEW p \in Ops, op[p].pc \in Owning,
         op[p].pc \in {"recordRow", "recordFailure", "release"} => op[p].kind # "app"
  PROVE  /\ op[p].on = 1 /\ rows[1] # NoRow /\ rows[1].name = App
         /\ op[p].seen.name = App /\ Points(op[p].seen.dockerId) /\ Points(op[p].back)
         /\ NamesInv /\ RowsInv
         /\ history[p] # Erased /\ (history[p] # None => history[p].row = 1)
         /\ op[p].pc \notin {"succeed", "release"} => ~op[p].lost /\ lock[1] = p /\ StageInv(p)
         /\ lock[1] = p => StageInv(p)
<1>1. /\ NamesInv /\ RowsInv /\ LockInv /\ SeenInv /\ Locked(p)
      /\ (lock[1] = p => StageInv(p))
  BY DEF Sound, Good, Locked
<1>2. op[p].pc \notin {"succeed", "release"} => ~op[p].lost
  BY DEF Sound, EndsInv, Faithful, Owning
<1>3. rows[1] # NoRow /\ rows[1].name = App
  BY <1>1 DEF RowsInv
<1>4. /\ op[p].on = 1 /\ op[p].seen.name = App /\ Points(op[p].seen.dockerId)
      /\ Points(op[p].back)
  BY <1>1 DEF SeenInv
<1>5. history[p] # Erased /\ (history[p] # None => history[p].row = 1)
      /\ (~op[p].lost => lock[1] = p)
  BY <1>1 DEF LockInv, Recorded
<1> QED BY <1>1, <1>2, <1>3, <1>4, <1>5

LEMMA StageKept ==
  ASSUME NEW q \in Ops, UNCHANGED <<docker, rows>>, op'[q] = op[q], history'[q] = history[q],
         StageInv(q)
  PROVE  StageInv(q)'
BY DEF StageInv, IsCandidate, Deployed, Shown, Success, Recorded, There, Untaken

(* A step of a request that holds the lock, or has lost it at its end.     *)
LEMMA OwnerMoves ==
  ASSUME Sound, NEW p \in Ops, op[p].pc \in Owning, NEW step \in Owning, Turn(p, step),
         op[p].pc \in {"recordRow", "recordFailure", "release"} => op[p].kind # "app",
         NEW name \in {p, App}, HostKept(name), lock'[1] = lock[1], RowsInv',
         Points(op[p].back)', ~op[p].lost \/ UNCHANGED <<docker, rows>>,
         \A q \in Ops \ {p} : history'[q] = history[q],
         history'[p] # Erased, history'[p] # None => history'[p].row = 1,
         op[p].kind # "atomic" \/ step \in Before => Untaken(p)',
         lock[1] = p => StageInv(p)'
  PROVE  Good'
<1>1. NamesInv /\ RowsInv /\ LockInv /\ SeenInv /\ CandidateInv /\ Locked(p)
      /\ \A q \in Ops : lock[1] = q => StageInv(q)
  BY DEF Sound, Good, Locked
<1>0. \A q \in Ops \ {p} : Locked(q)' => Locked(q)
  BY DEF Locked, Success, Recorded, Turn
<1>2. LockInv'
  <2>1. ~op[p].lost => lock[1] = p
    BY <1>1 DEF LockInv
  <2>2. ASSUME NEW q \in Ops
        PROVE  /\ history'[q] # Erased /\ (history'[q] # None => history'[q].row = 1)
               /\ Locked(q)' /\ ~op'[q].lost => lock'[1] = q
    BY <1>0, <1>1, <2>1 DEF LockInv, Recorded, Turn
  <2> QED BY <2>2 DEF LockInv, Recorded
<1>3. SeenInv'
  <2>1. ASSUME NEW q \in Ops PROVE Points(op[q].back)'
    <3>1. op[q].back \in Ids \cup {Nothing}
      BY Known DEF Sound, OpState
    <3>2. CASE q # p
      BY <1>1, <3>1, <3>2 DEF SeenInv, HostKept, Turn, Points
    <3> QED BY <3>2
  <2>2. ASSUME NEW q \in Ops, Locked(q)' \/ op'[q].pc \in {"check", "acquire"}
        PROVE  /\ op'[q].on = 1 /\ op'[q].seen # NoRow /\ op'[q].seen.name = App
               /\ Points(op[q].seen.dockerId)'
    <3>1. /\ Locked(q) \/ op[q].pc \in {"check", "acquire"}
          /\ op'[q].on = op[q].on /\ op'[q].seen = op[q].seen
      BY <1>0, <1>1, <2>2 DEF Turn
    <3>2. op[q].seen \in Row
      BY <1>1, <3>1, Known DEF Sound, SeenInv, OpState
    <3>3. op[q].seen.dockerId \in Ids \cup {Nothing}
      BY <3>2 DEF Row
    <3> QED BY <1>1, <3>1, <3>3 DEF SeenInv, HostKept, Points
  <2> QED BY <2>1, <2>2 DEF SeenInv
<1>4. CandidateInv'
  <2>1. ASSUME NEW q \in Ops, op'[q].kind # "atomic" \/ op'[q].pc \in Before
        PROVE  Untaken(q)'
    <3>1. CASE q = p
      BY <2>1, <3>1 DEF Turn
    <3>2. CASE q # p
      BY <1>1, <2>1, <3>2, ConstantsAssumption DEF CandidateInv, HostKept, Turn
    <3> QED BY <3>1, <3>2
  <2> QED BY <2>1 DEF CandidateInv
<1>5. ASSUME NEW q \in Ops, lock'[1] = q PROVE StageInv(q)'
  <2>1. CASE q = p
    BY <1>5, <2>1
  <2>2. CASE q # p
    <3>1. op[p].lost /\ UNCHANGED <<docker, rows>>
      BY <1>1, <1>5, <2>2 DEF LockInv
    <3> QED BY <1>1, <1>5, <2>2, <3>1, StageKept DEF Turn
  <2> QED BY <2>1, <2>2
<1> QED BY <1>2, <1>3, <1>4, <1>5 DEF Good, HostKept

(* The same for a step that leaves the table alone.                        *)
LEMMA OwnerWorks ==
  ASSUME Sound, NEW p \in Ops,
         op[p].pc \in Owning \ {"succeed", "recordRow", "recordFailure", "release"},
         NEW step \in Owning, Turn(p, step), NEW name \in {p, App}, HostKept(name),
         UNCHANGED table, Points(op[p].back)',
         op[p].kind # "atomic" \/ step \in Before => Untaken(p)', StageInv(p)'
  PROVE  Good'
<1>1. RowsInv'
  BY Owner DEF HostKept, table
<1> QED BY <1>1, Owner, OwnerMoves DEF table

(* Steps after which there is nothing to show.                             *)
Easy == {"create", "inspect", "resolve", "launch", "cleanup", "verify", "relaunch", "reverify",
         "recordRow", "recordFailure"}

LEMMA EasyStage ==
  ASSUME NEW p \in Ops, op'[p].pc \in Easy \/ (op'[p].pc = "clear" /\ op'[p].kind # "atomic")
  PROVE  StageInv(p)'
BY DEF StageInv, Easy

(* A step that changes neither host nor table.                             *)
LEMMA OwnerWaits ==
  ASSUME Sound, NEW p \in Ops,
         op[p].pc \in Owning \ {"succeed", "recordRow", "recordFailure", "release"},
         NEW step \in Owning, Turn(p, step), UNCHANGED <<docker, lastId>>, UNCHANGED table,
         op'[p].back = op[p].back, step \in Before => op[p].pc \in Before, StageInv(p)'
  PROVE  Good'
<1>1. HostKept(p) /\ Points(op[p].back)'
  BY Owner, SameDocker DEF Sound, Points
<1>2. op[p].kind # "atomic" \/ step \in Before => Untaken(p)'
  BY DEF Sound, Good, CandidateInv, Untaken, There
<1> QED BY <1>1, <1>2, OwnerWorks

-----------------------------------------------------------------------------
(* The steps of a rollback or rebuild from its lock to its release.        *)
LEMMA CreateGood ==
  ASSUME Sound, Kinds \subseteq Deploys, NEW p \in Ops, Create(p)
  PROVE  Good'
<1>1. /\ IInv /\ op[p].pc = "create" /\ op[p].pc \in Owning /\ UNCHANGED <<rows, sourced, lock>>
      /\ UNCHANGED <<docker, lastId>>
  BY DEF Sound, Create, Owning, host
<1>2. op[p].on = 1 /\ rows[1] # NoRow /\ ~op[p].lost /\ NamesInv
  BY <1>1, Owner
<1>3. PICK step \in {"inspect", "clear"} :
        Goto(p, step) /\ (step = "inspect" <=> op[p].kind \in Rollbacks)
  BY <1>1, <1>2 DEF Create
<1>4. Turn(p, step) /\ op'[p].back = op[p].back /\ step \in Owning
  BY <1>1, <1>3, Turns DEF Owning
<1>5. /\ \A q \in Ops \ {p} : history'[q] = history[q]
      /\ history'[p] # Erased /\ history'[p].row = 1
  <2>1. history \in [Ops -> Deployment \cup {None, Erased}]
    BY <1>1 DEF IInv, Parts, TableOK
  <2> DEFINE h == [row |-> op[p].on, status |-> "RUNNING"]
  <2>2. history' = [history EXCEPT ![p] = h]
    BY <1>1, <1>2 DEF Create
  <2>3. h \in Deployment /\ h.row = 1
    BY <1>2, RowIds1 DEF Deployment
  <2> HIDE DEF h
  <2> QED BY <2>1, <2>2, <2>3, ConstantsAssumption
<1>6. HostKept(p) /\ Points(op[p].back)' /\ RowsInv'
  BY <1>1, <1>4, Owner, SameDocker DEF Points, HostKept
<1>7. Untaken(p)'
  BY <1>1 DEF Sound, Good, CandidateInv, Before, Untaken, There
<1>8. StageInv(p)'
  BY <1>3, <1>4, EasyStage DEF Turn, Easy, Rollbacks
<1> QED BY <1>1, <1>2, <1>4, <1>5, <1>6, <1>7, <1>8, OwnerMoves

LEMMA InspectGood ==
  ASSUME Sound, Kinds \subseteq Deploys, NEW p \in Ops, Inspect(p)
  PROVE  Good'
<1>1. IInv /\ op[p].pc = "inspect" /\ op[p].pc \in Owning /\ UNCHANGED table
  BY DEF Sound, Inspect, Owning
<1>2. UNCHANGED <<docker, lastId>>
  BY DEF Inspect, host, Docker, D!Outcome
<1>3. Turn(p, "resolve") /\ op'[p].back = op[p].back
  <2>1. PICK image : op' = [op EXCEPT ![p].pc = "resolve", ![p].prev = image]
    BY DEF Inspect
  <2> QED BY <1>1, <2>1, Turns
<1>4. StageInv(p)'
  BY <1>3, EasyStage DEF Turn, Easy
<1>5. "resolve" \in Owning /\ op[p].pc \in Before
  BY <1>1 DEF Owning, Before
<1> QED BY <1>1, <1>2, <1>3, <1>4, <1>5, OwnerWaits

LEMMA ResolveGood ==
  ASSUME Sound, Kinds \subseteq Deploys, NEW p \in Ops, Resolve(p)
  PROVE  Good'
<1>1. IInv /\ op[p].pc = "resolve" /\ op[p].pc \in Owning /\ UNCHANGED table
  BY DEF Sound, Resolve, Owning
<1>2. UNCHANGED <<docker, lastId>>
  BY DEF Resolve, host, Docker, D!Outcome
<1>3. PICK step \in {"launch", "clear", "recordRow"} :
        Goto(p, step) /\ (step = "clear" => op[p].kind # "atomic")
  BY DEF Resolve
<1>4. Turn(p, step) /\ op'[p].back = op[p].back
  BY <1>1, <1>3, Turns
<1>5. StageInv(p)'
  BY <1>3, <1>4, EasyStage DEF Turn, Easy
<1>6. step \in Owning /\ op[p].pc \in Before
  BY <1>1 DEF Owning, Before
<1> QED BY <1>1, <1>2, <1>4, <1>5, <1>6, OwnerWaits

(* Clear and Cleanup address the application, by its name or by an id that *)
(* points to it, and the candidate.                                        *)
LEMMA OnlyOf ==
  ASSUME IInv, NEW refs, NEW A, Docker(RemoveOutcomes(refs), A), NEW name \in {App} \cup Ops,
         \A k \in DOMAIN refs : \/ refs[k] \in {App} \cup Ops /\ refs[k] # name
                                \/ refs[k] \in Ids \cup {Nothing} /\ Points(refs[k]) /\ name # App
  PROVE  \A i \in Ids : There(i, name) => docker'[i] = docker[i]
<1>1. ASSUME NEW i \in Ids, There(i, name), NEW k \in DOMAIN refs, i \in D!Matches(docker, refs[k])
      PROVE  FALSE
  <2>1. i = refs[k] \/ name = refs[k]
    BY <1>1 DEF D!Matches, There
  <2>2. {App} \cup Ops \cup {name} \subseteq {App} \cup Ops
        /\ \A x \in {App} \cup Ops : x \notin Ids \cup {Nothing}
    BY ConstantsAssumption
  <2> QED BY <1>1, <2>1, <2>2 DEF Points, There
<1> QED BY <1>1, RemoveShrinks

LEMMA ClearGood ==
  ASSUME Sound, Kinds \subseteq Deploys, NEW p \in Ops, Clear(p)
  PROVE  Good'
<1>1. /\ IInv /\ op[p].pc = "clear" /\ op[p].pc \in Owning /\ UNCHANGED table /\ UNCHANGED lastId
      /\ op[p].kind \in Deploys
  BY DEF Sound, Clear, Owning, At
<1> DEFINE refs == IF op[p].kind = "app" THEN <<App>>
                   ELSE <<op[p].seen.dockerId, op[p].seen.name>>
<1>2. PICK answer \in {"ok", "error"} :
        /\ Docker(RemoveOutcomes(refs), {answer})
        /\ op' = [op EXCEPT ![p].touched = TRUE,
                    ![p].pc = IF answer = "ok" \/ op[p].kind = "app"
                              THEN IF op[p].kind = "atomic" THEN "rename" ELSE "launch"
                              ELSE OnError(p)]
  BY DEF Clear
<1>3. OnError(p) \in {"cleanup", "recordFailure", "recordRow"}
  BY <1>1 DEF OnError, Deploys, Rollbacks
<1>4. PICK step \in {"rename", "launch", "cleanup", "recordFailure", "recordRow"} :
        /\ op' = [op EXCEPT ![p].touched = TRUE, ![p].pc = step]
        /\ step = "rename" => op[p].kind = "atomic"
        /\ step = "launch" => op[p].kind # "atomic"
  <2> DEFINE next == IF answer = "ok" \/ op[p].kind = "app"
                     THEN IF op[p].kind = "atomic" THEN "rename" ELSE "launch" ELSE OnError(p)
  <2>1. /\ next \in {"rename", "launch", "cleanup", "recordFailure", "recordRow"}
        /\ next = "rename" => op[p].kind = "atomic"
        /\ next = "launch" => op[p].kind # "atomic"
    BY <1>3
  <2>2. op' = [op EXCEPT ![p].touched = TRUE, ![p].pc = next]
    BY <1>2
  <2> HIDE DEF next
  <2> QED BY <2>1, <2>2
<1>5. /\ Turn(p, step) /\ op'[p].back = op[p].back /\ op'[p].cand = op[p].cand
      /\ step \in Owning
  BY <1>1, <1>4, Turns DEF Owning
<1>6. /\ op[p].seen.name = App /\ Points(op[p].seen.dockerId) /\ NamesInv
      /\ Points(op[p].back) /\ StageInv(p) /\ (op[p].kind # "app" => op[p].seen \in Row)
  BY <1>1, Owner, KnownDeploy DEF Remembers, Deploys, Rollbacks
<1>7. \A i \in Ids : Spared(i)
  BY <1>1, <1>2, RemoveShrinks
<1>8. HostKept(p)
  BY <1>1, <1>6, <1>7, Shrinks
<1>9. Points(op[p].back)'
  BY <1>1, <1>5, <1>6, <1>8, Known DEF HostKept, Points, OpState
<1>10. ASSUME op[p].kind # "atomic" \/ step \in Before PROVE Untaken(p)'
  BY <1>4, <1>7, <1>10 DEF Sound, Good, CandidateInv, Before, Spared, Untaken, There
<1>11. ASSUME step = "rename" PROVE IsCandidate(p)'
  <2>1. op[p].kind = "atomic" /\ IsCandidate(p)
    BY <1>1, <1>4, <1>6, <1>11 DEF StageInv
  <2>2. \A k \in DOMAIN refs : \/ refs[k] \in {App} \cup Ops /\ refs[k] # p
                               \/ refs[k] \in Ids \cup {Nothing} /\ Points(refs[k]) /\ p # App
    <3>1. refs = <<op[p].seen.dockerId, App>> /\ op[p].seen.dockerId \in Ids \cup {Nothing}
      BY <1>6, <2>1 DEF Row
    <3> QED BY <1>6, <3>1, ConstantsAssumption
  <2> HIDE DEF refs
  <2>3. \A i \in Ids : There(i, p) => docker'[i] = docker[i]
    BY <1>1, <1>2, <2>2, OnlyOf
  <2> QED BY <1>1, <1>5, <2>1, <2>3 DEF IsCandidate, There, table
<1>12. StageInv(p)'
  <2>1. CASE step = "rename"
    BY <1>5, <1>11, <2>1 DEF StageInv, Turn
  <2>2. CASE step # "rename"
    BY <1>5, <2>2, EasyStage DEF Turn, Easy
  <2> QED BY <2>1, <2>2
<1> QED BY <1>1, <1>5, <1>8, <1>9, <1>10, <1>12, OwnerWorks

LEMMA LaunchGood ==
  ASSUME Sound, Kinds \subseteq Deploys, NEW p \in Ops, Launch(p)
  PROVE  Good'
<1>1. /\ IInv /\ op[p].pc = "launch" /\ op[p].pc \in Owning /\ UNCHANGED table
      /\ op[p].kind \in {"atomic", "recreate", "git", "app"}
  BY KnownDeploy DEF Sound, Launch, Owning
<1>2. op[p].seen.name = App /\ Points(op[p].back) /\ NamesInv /\ RowsInv
  BY <1>1, Owner
<1>0. PICK name \in {p, App} : name = p <=> op[p].kind = "atomic"
  BY ConstantsAssumption
<1> DEFINE next == CASE op[p].kind \in Rollbacks -> "probe"
                     [] op[p].kind \in {"git", "source"} -> "list"
                     [] op[p].kind = "app"       -> "finalize"
                     [] op[p].kind = "image"     -> "record"
<1>3. PICK n \in Ids : n = lastId + 1
  BY <1>1, ConstantsAssumption DEF IInv, Parts, HostOK, Ids, Launch
<1>4. PICK A : /\ Docker(D!RunOutcomes(docker, n, name, p), A)
               /\ \/ A = {"ok"} /\ op' = [op EXCEPT ![p].cand = n, ![p].pc = next]
                  \/ A = {"error"} /\ Goto(p, OnError(p))
  <2>1. name = CASE op[p].kind = "atomic" -> p
                 [] op[p].kind \in NewDeploys \cup {"app"} -> App
                 [] OTHER                 -> op[p].seen.name
    BY <1>0, <1>1, <1>2, ConstantsAssumption DEF NewDeploys
  <2> QED BY <1>3, <2>1 DEF Launch
<1>5. lastId' = n /\ name \in {App} \cup Ops
  BY <1>3 DEF Launch
<1>6. /\ next \in {"probe", "list", "finalize"} /\ (next = "probe" <=> op[p].kind \in Rollbacks)
      /\ OnError(p) \in {"cleanup", "recordFailure", "recordRow"}
  BY <1>1 DEF OnError, Rollbacks, NewDeploys
<1> HIDE DEF next
<1>7. PICK step \in {next, OnError(p)} : Turn(p, step) /\ op'[p].back = op[p].back
  <2>1. CASE op' = [op EXCEPT ![p].cand = n, ![p].pc = next]
    BY <1>1, <2>1, Turns
  <2>2. CASE Goto(p, OnError(p))
    BY <1>1, <2>2, Turns
  <2> QED BY <1>4, <2>1, <2>2
<1>8. /\ \A i \in Ids : \/ docker'[i] = docker[i]
                        \/ i = n /\ docker'[i].name = name /\ Untaken(name)
      /\ A = {"ok"} => There(n, name)' /\ docker'[n].image = p /\ Untaken(name)
  BY <1>1, <1>4, <1>5, RunGrows
<1>9. HostKept(name)
  BY <1>1, <1>2, <1>3, <1>5, <1>8, Grows
<1>10. Points(op[p].back)'
  BY <1>1, <1>2, <1>7, <1>9, Known DEF HostKept, Points, OpState
<1>11. step \in Owning \ Before
  BY <1>6 DEF Owning, Before
<1>12. ASSUME op[p].kind # "atomic" PROVE Untaken(p)'
  <2>1. Untaken(p) /\ name # p
    BY <1>0, <1>12, ConstantsAssumption DEF Sound, Good, CandidateInv
  <2> QED BY <1>9, <2>1 DEF HostKept
<1>13. StageInv(p)'
  <2>1. CASE A = {"ok"}
    <3>1. Turn(p, next) /\ op'[p].cand = n
      <4>1. op' = [op EXCEPT ![p].cand = n, ![p].pc = next]
        BY <1>4, <2>1
      <4> QED BY <1>1, <4>1, Turns
    <3>2. CASE op[p].kind = "atomic"
      <4>1. \A r \in RowIds : rows[r] # NoRow => rows[r].dockerId # n
        <5>1. PICK last \in Int : last = lastId
          BY <1>1 DEF IInv, Parts, HostOK, Ids
        <5>2. \A r \in RowIds : rows[r] # NoRow => rows[r].dockerId <= last
          BY <1>2, <5>1 DEF RowsInv, Points
        <5>3. n = last + 1
          BY <1>3, <5>1
        <5> QED BY <5>1, <5>2, <5>3
      <4>2. IsCandidate(p)'
        BY <1>0, <1>1, <1>8, <2>1, <3>1, <3>2, <4>1 DEF IsCandidate, There, table
      <4>3. op'[p].pc = "probe" /\ op'[p].kind = "atomic"
        BY <1>6, <3>1, <3>2 DEF Turn, Rollbacks
      <4> QED BY <4>2, <4>3 DEF StageInv
    <3>3. CASE op[p].kind # "atomic"
      <4>1. Deployed(p)'
        BY <1>0, <1>8, <1>12, <2>1, <3>1, <3>3 DEF Deployed, There
      <4>2. op'[p].pc \in {"probe", "list", "finalize"} /\ op'[p].kind # "atomic"
        BY <1>6, <3>1, <3>3 DEF Turn
      <4> QED BY <4>1, <4>2 DEF StageInv
    <3> QED BY <3>2, <3>3
  <2>2. CASE A = {"error"}
    BY <1>1, <1>4, <1>6, <2>2, Turns, EasyStage DEF Turn, Easy
  <2> QED BY <1>4, <2>1, <2>2
<1> QED BY <1>1, <1>5, <1>7, <1>9, <1>10, <1>11, <1>12, <1>13, OwnerWorks

LEMMA ProbeGood ==
  ASSUME Sound, Kinds \subseteq Deploys, NEW p \in Ops, Probe(p)
  PROVE  Good'
<1>1. /\ IInv /\ op[p].pc = "probe" /\ op[p].pc \in Owning /\ UNCHANGED table
      /\ op[p].kind \in Rollbacks
  BY KnownDeploy DEF Sound, Probe, Owning, Suits
<1>2. UNCHANGED <<docker, lastId>>
  BY DEF Probe, Docker, D!HealthOutcomes, D!Outcome
<1>3. PICK step \in {"cleanup", "clear", "finalize"} :
        /\ Goto(p, step)
        /\ step = "clear" => op[p].kind = "atomic"
        /\ step = "finalize" => op[p].kind = "recreate"
  <2> DEFINE To(answer) == IF answer = "error" THEN "cleanup"
                           ELSE IF op[p].kind = "atomic" THEN "clear" ELSE "finalize"
  <2>1. PICK answer \in {"ok", "error"} : Goto(p, To(answer))
    BY DEF Probe
  <2>2. /\ To(answer) \in {"cleanup", "clear", "finalize"}
        /\ To(answer) = "clear" => op[p].kind = "atomic"
        /\ To(answer) = "finalize" => op[p].kind = "recreate"
    BY <1>1 DEF Rollbacks
  <2> HIDE DEF To
  <2> QED BY <2>1, <2>2
<1>4. /\ Turn(p, step) /\ op'[p].back = op[p].back /\ op'[p].cand = op[p].cand
      /\ step \in Owning \ Before
  BY <1>1, <1>3, Turns DEF Owning, Before
<1>5. StageInv(p)
  BY <1>1, Owner
<1>6. StageInv(p)'
  <2>1. CASE step = "cleanup"
    BY <1>4, <2>1, EasyStage DEF Turn, Easy
  <2>2. CASE step = "clear"
    <3>1. IsCandidate(p)'
      BY <1>1, <1>2, <1>3, <1>4, <1>5, <2>2 DEF StageInv, IsCandidate, There, table
    <3> QED BY <1>4, <2>2, <3>1 DEF StageInv, Turn
  <2>3. CASE step = "finalize"
    <3>1. Deployed(p)'
      BY <1>1, <1>2, <1>3, <1>4, <1>5, <2>3 DEF StageInv, Deployed, There, Untaken
    <3> QED BY <1>4, <2>3, <3>1 DEF StageInv, Turn
  <2> QED BY <2>1, <2>2, <2>3
<1> QED BY <1>1, <1>2, <1>4, <1>6, OwnerWaits

LEMMA RenameGood ==
  ASSUME Sound, Kinds \subseteq Deploys, NEW p \in Ops, Rename(p)
  PROVE  Good'
<1>1. /\ IInv /\ op[p].pc = "rename" /\ op[p].pc \in Owning /\ UNCHANGED table
      /\ op[p].kind = "atomic" /\ UNCHANGED lastId
  BY KnownDeploy DEF Sound, Rename, Owning, Suits
<1>2. /\ op[p].seen.name = App /\ Points(op[p].back) /\ NamesInv /\ StageInv(p)
  BY <1>1, Owner
<1>3. IsCandidate(p)
  BY <1>1, <1>2 DEF StageInv
<1>4. PICK c \in Ids : c = op[p].cand
  BY <1>3 DEF IsCandidate
<1>5. docker \in Hosts /\ There(c, p) /\ docker[c] \in Container
  BY <1>1, <1>3, <1>4 DEF IsCandidate, There, Hosts, IInv, Parts, HostOK
<1> DEFINE renamed == [i \in Ids |-> IF i \in D!Matches(docker, p)
                                     THEN [docker[i] EXCEPT !.name = App] ELSE docker[i]]
<1>6. D!Matches(docker, p) = {c}
  <2>1. p \notin Ids
    BY ConstantsAssumption
  <2> QED BY <1>2, <1>5, <2>1 DEF D!Matches, There, NamesInv
<1>7. PICK answer \in {"ok", "error"} :
        /\ Docker(D!RenameOutcomes(docker, p, App), {answer})
        /\ Goto(p, IF answer = "ok" THEN "finalize" ELSE "cleanup")
  BY <1>2 DEF Rename
<1>8. /\ docker' = docker \/ (docker' = renamed /\ Untaken(App))
      /\ answer = "ok" => docker' = renamed /\ Untaken(App)
  <2>1. ~D!NameTaken(docker, App) <=> Untaken(App)
    BY DEF D!NameTaken, Untaken, There
  <2>2. D!RenameOutcomes(docker, p, App) =
          IF D!NameTaken(docker, App) \/ ~D!Found(docker, p)
          THEN {D!Outcome("error", docker, 0)} ELSE D!Attempt(docker, renamed)
    BY DEF D!RenameOutcomes
  <2> HIDE DEF renamed
  <2> QED BY <1>7, <2>1, <2>2 DEF Docker, D!Attempt, D!Outcome
<1>9. /\ renamed[c] \in Container /\ renamed[c].name = App /\ renamed[c].image = docker[c].image
      /\ \A i \in Ids \ {c} : renamed[i] = docker[i]
  BY <1>5, <1>6 DEF Container
<1> HIDE DEF renamed
<1>10. HostKept(p)
  <2>1. CASE docker' = docker
    BY <1>1, <1>2, <2>1, SameDocker
  <2>2. CASE docker' = renamed /\ Untaken(App)
    <3>1. \A r \in RowIds : rows[r] # NoRow => rows[r].dockerId # c
      BY <1>3, <1>4 DEF IsCandidate
    <3>2. \A i \in Ids : \/ docker'[i] = docker[i]
                         \/ i = c /\ docker'[i].name = App
      BY <1>9, <2>2
    <3> QED BY <1>1, <1>2, <1>5, <2>2, <3>1, <3>2, Renames
  <2> QED BY <1>8, <2>1, <2>2
<1>11. PICK step \in {"finalize", "cleanup"} : Goto(p, step) /\ (step = "finalize" <=> answer = "ok")
  BY <1>7
<1>12. /\ Turn(p, step) /\ op'[p].back = op[p].back /\ op'[p].cand = op[p].cand
       /\ step \in Owning \ Before
  BY <1>1, <1>11, Turns DEF Owning, Before
<1>13. Points(op[p].back)'
  BY <1>1, <1>2, <1>10, <1>12, Known DEF HostKept, Points, OpState
<1>14. StageInv(p)'
  <2>1. CASE step = "cleanup"
    BY <1>12, <2>1, EasyStage DEF Turn, Easy
  <2>2. CASE step = "finalize"
    <3>1. docker' = renamed /\ docker[c].image = p
      BY <1>3, <1>4, <1>8, <1>11, <2>2 DEF IsCandidate
    <3>2. Untaken(p)'
      BY <1>2, <1>5, <1>9, <3>1, ConstantsAssumption DEF Untaken, There, NamesInv
    <3>3. Deployed(p)'
      BY <1>4, <1>9, <1>12, <3>1, <3>2, ConstantsAssumption DEF Deployed, There
    <3> QED BY <1>1, <1>12, <2>2, <3>3 DEF StageInv, Turn
  <2> QED BY <2>1, <2>2
<1> QED BY <1>1, <1>10, <1>12, <1>13, <1>14, OwnerWorks

(* The application's rows are those named after it: the first one.         *)
LEMMA NamedApp ==
  ASSUME RowsInv
  PROVE  Named(App) = {1}
BY RowIds1 DEF RowsInv, Named

(* The first row gets a container that is the application's; all others    *)
(* stay as they are.                                                       *)
LEMMA RowWritten ==
  ASSUME RowsInv, UNCHANGED <<docker, lastId, sourced>>, rows'[1] # NoRow, rows'[1].name = App,
         Points(rows[1].dockerId)', \A r \in RowIds \ {1} : rows'[r] = rows[r]
  PROVE  RowsInv'
BY DEF RowsInv, There

LEMMA FinalizeGood ==
  ASSUME Sound, Kinds \subseteq Deploys, NEW p \in Ops, Finalize(p)
  PROVE  Good'
<1>1. /\ IInv /\ op[p].pc = "finalize" /\ op[p].pc \in Owning /\ UNCHANGED <<lock, history, sourced>>
      /\ op[p].kind \in Rollbacks \cup {"app"} /\ UNCHANGED <<docker, lastId>>
  BY KnownDeploy DEF Sound, Finalize, Owning, host, Suits
<1>2. /\ op[p].on = 1 /\ rows[1] # NoRow /\ rows[1].name = App /\ Points(op[p].back) /\ NamesInv
      /\ RowsInv /\ StageInv(p) /\ ~op[p].lost
      /\ history[p] # Erased /\ (history[p] # None => history[p].row = 1)
  BY <1>1, Owner
<1>3. Deployed(p)
  BY <1>1, <1>2 DEF StageInv
<1>4. Goto(p, "succeed") /\ rows' = FinalRows(p)
  BY <1>2 DEF Finalize
<1>5. Turn(p, "succeed") /\ op'[p].back = op[p].back /\ op'[p].cand = op[p].cand
  BY <1>1, <1>4, Turns
<1> DEFINE row == [rows[1] EXCEPT !.image = p, !.status = "RUNNING", !.dockerId = op[p].cand]
<1>6. rows'[1] = row /\ \A r \in RowIds \ {1} : rows'[r] = rows[r]
  BY <1>1, <1>2, <1>4, NamedApp, RowIds1 DEF FinalRows
<1>7. row \in Row /\ row.name = App /\ row.dockerId = op[p].cand /\ row.image = p
  BY <1>1, <1>2, <1>3, RowTyped, RowIds1 DEF Row, Deployed
<1> HIDE DEF row
<1>8. Points(rows[1].dockerId)'
  BY <1>1, <1>2, <1>3, <1>6, <1>7 DEF Points, Deployed, There, NamesInv
<1>9. RowsInv'
  BY <1>1, <1>2, <1>6, <1>7, <1>8, RowWritten, ConstantsAssumption
<1>10. Deployed(p)' /\ Shown(p)'
  BY <1>1, <1>3, <1>5, <1>6, <1>7 DEF Deployed, Shown, There, Untaken
<1>11. StageInv(p)'
  BY <1>5, <1>10 DEF StageInv, Turn
<1>12. HostKept(p) /\ Points(op[p].back)'
  BY <1>1, <1>2, <1>5, SameDocker DEF Points
<1>13. op[p].kind # "atomic" \/ "succeed" \in Before => Untaken(p)'
  BY <1>1, <1>3 DEF Before, Deployed, Untaken, There
<1>14. "succeed" \in Owning
  BY DEF Owning
<1> QED BY <1>1, <1>2, <1>5, <1>9, <1>11, <1>12, <1>13, <1>14, OwnerMoves

LEMMA SucceedGood ==
  ASSUME Sound, Kinds \subseteq Deploys, NEW p \in Ops, Succeed(p)
  PROVE  Good'
<1>1. /\ IInv /\ op[p].pc = "succeed" /\ op[p].pc \in Owning /\ UNCHANGED <<rows, sourced, lock>>
      /\ UNCHANGED <<docker, lastId>>
  BY DEF Sound, Succeed, Owning, host
<1>2. /\ op[p].on = 1 /\ Points(op[p].back) /\ NamesInv /\ RowsInv
      /\ history[p] # Erased /\ (history[p] # None => history[p].row = 1)
      /\ lock[1] = p => StageInv(p)
  BY <1>1, Owner
<1>3. Goto(p, "release")
      /\ history' = IF Recorded(p) THEN [history EXCEPT ![p].status = "SUCCESS"] ELSE history
  BY <1>2 DEF Succeed
<1>4. Turn(p, "release") /\ op'[p].back = op[p].back /\ op'[p].cand = op[p].cand
  BY <1>1, <1>3, Turns
<1>5. /\ \A q \in Ops \ {p} : history'[q] = history[q]
      /\ history'[p] # Erased /\ (history'[p] # None => history'[p].row = 1)
  <2>1. history \in [Ops -> Deployment \cup {None, Erased}]
    BY <1>1 DEF IInv, Parts, TableOK
  <2>2. CASE Recorded(p)
    <3> DEFINE h == [history[p] EXCEPT !.status = "SUCCESS"]
    <3>1. history[p] \in Deployment
      BY <2>1, <2>2 DEF Recorded
    <3>2. history' = [history EXCEPT ![p] = h]
      BY <1>3, <2>2, Zenon
    <3>3. h \in Deployment /\ h.row = history[p].row
      BY <3>1 DEF Deployment
    <3> HIDE DEF h
    <3> QED BY <1>2, <2>1, <2>2, <3>2, <3>3, ConstantsAssumption DEF Recorded
  <2>3. CASE ~Recorded(p)
    BY <1>2, <1>3, <2>3
  <2> QED BY <2>2, <2>3
<1>6. ASSUME lock[1] = p PROVE StageInv(p)'
  <2>1. Deployed(p) /\ Shown(p)
    BY <1>1, <1>2, <1>6 DEF StageInv
  <2>2. Deployed(p)' /\ Shown(p)'
    BY <1>1, <1>4, <2>1 DEF Deployed, Shown, There, Untaken
  <2> QED BY <1>4, <2>2 DEF StageInv, Turn
<1>7. HostKept(p) /\ Points(op[p].back)' /\ RowsInv'
  BY <1>1, <1>2, <1>4, SameDocker DEF Points, HostKept
<1>8. op[p].kind # "atomic" \/ "release" \in Before => Untaken(p)'
  BY <1>1 DEF Before, Sound, Good, CandidateInv, Untaken, There
<1>9. "release" \in Owning
  BY DEF Owning
<1> QED BY <1>1, <1>4, <1>5, <1>6, <1>7, <1>8, <1>9, OwnerMoves

(* The recovery.                                                           *)
LEMMA CleanupGood ==
  ASSUME Sound, Kinds \subseteq Deploys, NEW p \in Ops, Cleanup(p)
  PROVE  Good'
<1>1. /\ IInv /\ op[p].pc = "cleanup" /\ op[p].pc \in Owning /\ UNCHANGED table /\ UNCHANGED lastId
  BY DEF Sound, Cleanup, Owning
<1>2. /\ Points(op[p].back) /\ NamesInv
  BY <1>1, Owner
<1>3. \A i \in Ids : Spared(i)
  BY <1>1, RemoveShrinks DEF Cleanup
<1>4. HostKept(p)
  BY <1>1, <1>2, <1>3, Shrinks
<1>5. PICK step \in {"relaunch", "verify", "recordRow"} : Turn(p, step) /\ op'[p].back = op[p].back
  BY <1>1, Turns DEF Cleanup, Recovered
<1>6. Points(op[p].back)'
  BY <1>1, <1>2, <1>4, <1>5, Known DEF HostKept, Points, OpState
<1>7. op[p].kind # "atomic" \/ step \in Before => Untaken(p)'
  BY <1>3 DEF Sound, Good, CandidateInv, Before, Spared, Untaken, There
<1>8. StageInv(p)'
  BY <1>5, EasyStage DEF Turn, Easy
<1>9. step \in Owning
  BY DEF Owning
<1> QED BY <1>1, <1>4, <1>5, <1>6, <1>7, <1>8, <1>9, OwnerWorks

LEMMA VerifyGood ==
  ASSUME Sound, Kinds \subseteq Deploys, NEW p \in Ops, Verify(p) \/ Reverify(p)
  PROVE  Good'
<1>1. /\ IInv /\ op[p].pc \in {"verify", "reverify"} /\ op[p].pc \in Owning /\ UNCHANGED table
      /\ UNCHANGED <<docker, lastId>>
  BY DEF Sound, Verify, Reverify, Owning, Docker, D!HealthOutcomes, D!Outcome
<1>2. Turn(p, "recordRow") /\ op'[p].back = op[p].back
  <2>1. PICK mode : op' = [op EXCEPT ![p].mode = mode, ![p].pc = "recordRow"]
    BY DEF Verify, Reverify, Recovered
  <2> QED BY <1>1, <2>1, Turns
<1>3. StageInv(p)'
  BY <1>2, EasyStage DEF Turn, Easy
<1>4. /\ "recordRow" \in Owning \ Before
      /\ op[p].pc \in Owning \ {"succeed", "recordRow", "recordFailure", "release"}
  BY <1>1 DEF Owning, Before
<1> QED BY <1>1, <1>2, <1>3, <1>4, OwnerWaits

LEMMA RelaunchGood ==
  ASSUME Sound, Kinds \subseteq Deploys, NEW p \in Ops, Relaunch(p)
  PROVE  Good'
<1>1. /\ IInv /\ op[p].pc = "relaunch" /\ op[p].pc \in Owning /\ UNCHANGED table
  BY DEF Sound, Relaunch, Owning
<1>2. op[p].seen.name = App /\ Points(op[p].back) /\ NamesInv
  BY <1>1, Owner
<1>3. PICK n \in Ids : n = lastId + 1
  BY <1>1, ConstantsAssumption DEF IInv, Parts, HostOK, Ids, Relaunch
<1>4. PICK image \in {Prev} \cup Ops : image = op[p].prev
  BY <1>1, Known DEF OpState
<1>5. PICK A : /\ Docker(D!RunOutcomes(docker, n, App, image), A)
               /\ \/ A = {"ok"} /\ op' = [op EXCEPT ![p].back = n, ![p].pc = "reverify"]
                  \/ A = {"error"} /\ op' = [op EXCEPT ![p].mode = "failed", ![p].pc = "recordRow"]
  BY <1>2, <1>3, <1>4 DEF Relaunch, Recovered
<1>6. lastId' = n
  BY <1>3 DEF Relaunch
<1>7. /\ \A i \in Ids : \/ docker'[i] = docker[i]
                        \/ i = n /\ docker'[i].name = App /\ Untaken(App)
      /\ A = {"ok"} => There(n, App)'
  BY <1>1, <1>5, RunGrows
<1>8. HostKept(App)
  BY <1>1, <1>2, <1>3, <1>6, <1>7, Grows
<1>9. PICK step \in {"reverify", "recordRow"} : Turn(p, step)
  BY <1>1, <1>5, Turns
<1>10. Points(op[p].back)'
  <2>1. CASE A = {"ok"}
    <3>1. op' = [op EXCEPT ![p].back = n, ![p].pc = "reverify"]
      BY <1>5, <2>1
    <3>2. op'[p].back = n
      BY <1>1, <3>1, Turns
    <3>3. n <= lastId'
      BY <1>6 DEF Ids
    <3> QED BY <1>7, <2>1, <3>2, <3>3 DEF Points, There
  <2>2. CASE A = {"error"}
    <3>1. op' = [op EXCEPT ![p].mode = "failed", ![p].pc = "recordRow"]
      BY <1>5, <2>2
    <3>2. op'[p].back = op[p].back
      BY <1>1, <3>1, Turns
    <3> QED BY <1>1, <1>2, <1>8, <3>2, Known DEF HostKept, Points, OpState
  <2> QED BY <1>5, <2>1, <2>2
<1>11. op[p].kind # "atomic" \/ step \in Before => Untaken(p)'
  BY <1>8, ConstantsAssumption DEF Sound, Good, CandidateInv, Before, HostKept
<1>12. StageInv(p)'
  BY <1>9, EasyStage DEF Turn, Easy
<1>13. step \in Owning
  BY DEF Owning
<1> QED BY <1>1, <1>8, <1>9, <1>10, <1>11, <1>12, <1>13, OwnerWorks

(* A failed app rebuild writes statuses only, with or without the lock.    *)
LEMMA AsideGood ==
  ASSUME Sound, Kinds \subseteq Deploys, NEW p \in Ops, op[p].kind = "app",
         op[p].pc \in {"recordRow", "recordFailure"}, NEW step \in {"recordFailure", "release"},
         Turn(p, step), op'[p].back = op[p].back, UNCHANGED <<docker, lastId>>,
         UNCHANGED <<lock, sourced>>, \A q \in Ops \ {p} : history'[q] = history[q],
         history'[p] # Erased, history'[p] # None => history'[p].row = 1, ~Success(p)',
         rows'[1].image = rows[1].image,
         \A r \in RowIds : /\ rows'[r] # NoRow <=> rows[r] # NoRow
                           /\ rows'[r].name = rows[r].name
                           /\ rows'[r].dockerId = rows[r].dockerId
  PROVE  Good'
<1>1. NamesInv /\ RowsInv /\ LockInv /\ SeenInv /\ CandidateInv
      /\ \A q \in Ops : lock[1] = q => StageInv(q)
  BY DEF Sound, Good
<1>2. NamesInv' /\ RowsInv'
  BY <1>1, RowIds1 DEF NamesInv, RowsInv, Points, There
<1>3. ~Locked(p)' /\ \A q \in Ops \ {p} : Locked(q)' => Locked(q)
  BY DEF Locked, Success, Recorded, Turn
<1>4. LockInv'
  BY <1>1, <1>3 DEF LockInv, Recorded, Turn
<1>5. SeenInv'
  <2>1. \A q \in Ops : Points(op[q].back)'
    BY <1>1 DEF SeenInv, Points, Turn
  <2>2. ASSUME NEW q \in Ops, Locked(q)' \/ op'[q].pc \in {"check", "acquire"}
        PROVE  /\ op'[q].on = 1 /\ op'[q].seen # NoRow /\ op'[q].seen.name = App
               /\ Points(op[q].seen.dockerId)'
    <3>1. q # p
      BY <1>3, <2>2 DEF Turn
    <3> QED BY <1>1, <1>3, <2>2, <3>1 DEF SeenInv, Points, Turn
  <2> QED BY <2>1, <2>2 DEF SeenInv
<1>6. CandidateInv'
  BY <1>1 DEF CandidateInv, Untaken, There, Turn
<1>7. ASSUME NEW q \in Ops, lock'[1] = q PROVE StageInv(q)'
  <2>1. CASE q = p
    BY <2>1 DEF StageInv, Turn
  <2>2. CASE q # p
    <3>1. StageInv(q) /\ op'[q] = op[q] /\ history'[q] = history[q]
      BY <1>1, <1>7, <2>2 DEF Turn
    <3>2. op[q].pc # "apply"
      <4>1. op[q].pc = "apply" => op[q].kind = "git"
        BY KnownDeploy DEF Sound, Suits, NewDeploys
      <4> QED BY <4>1 DEF Sound, Apart
    <3>3. /\ IsCandidate(q) => IsCandidate(q)'
          /\ Deployed(q) => Deployed(q)'
          /\ Shown(q) => Shown(q)'
      BY <3>1, RowIds1 DEF IsCandidate, Deployed, Shown, There, Untaken
    <3> QED BY <3>1, <3>2, <3>3 DEF StageInv, Success, Recorded
  <2> QED BY <2>1, <2>2
<1> QED BY <1>2, <1>4, <1>5, <1>6, <1>7 DEF Good

LEMMA RecordRowGood ==
  ASSUME Sound, Kinds \subseteq Deploys, NEW p \in Ops, RecordRow(p)
  PROVE  Good'
<1>1. /\ IInv /\ op[p].pc = "recordRow" /\ op[p].pc \in Owning
      /\ UNCHANGED <<lock, history, sourced>> /\ UNCHANGED <<docker, lastId>>
  BY DEF Sound, RecordRow, Owning, host
<1>2. NamesInv /\ RowsInv /\ LockInv /\ SeenInv /\ EndsInv
  BY DEF Sound, Good
<1>3. /\ rows[1] \in Row /\ rows[1] # NoRow /\ rows[1].name = App /\ rows \in Tables
      /\ history[p] # Erased /\ (history[p] # None => history[p].row = 1)
      /\ op[p].back \in Ids \cup {Nothing} /\ (op[p].kind # "app" => op[p].seen \in Row)
      /\ op[p].kind \in {"atomic", "recreate", "app"}
  BY <1>1, <1>2, RowTyped, RowIds1, KnownDeploy DEF IInv, Parts, TableOK, Remembers, OpState, Suits,
     Rollbacks, RowsInv, LockInv, Recorded
<1>4. CASE op[p].kind = "app"
  <2>1. Goto(p, "recordFailure")
    BY <1>4 DEF RecordRow
  <2>2. Turn(p, "recordFailure") /\ op'[p].back = op[p].back
    BY <1>1, <2>1, Turns
  <2> DEFINE row == [rows[1] EXCEPT !.status = "ERROR"]
  <2>3. rows'[1] = row /\ \A r \in RowIds \ {1} : rows'[r] = rows[r]
    BY <1>2, <1>4, NamedApp, RowIds1 DEF RecordRow
  <2>4. row \in Row /\ row.name = App /\ row.dockerId = rows[1].dockerId /\ row.image = rows[1].image
    BY <1>3 DEF Row
  <2> HIDE DEF row
  <2>5. \A r \in RowIds : /\ rows'[r] # NoRow <=> rows[r] # NoRow
                          /\ rows'[r].name = rows[r].name
                          /\ rows'[r].dockerId = rows[r].dockerId
    BY <1>3, <2>3, <2>4, ConstantsAssumption
  <2>6. ~Success(p)'
    BY <1>1, <1>2 DEF EndsInv, Success, Recorded
  <2> QED BY <1>1, <1>3, <1>4, <2>2, <2>3, <2>4, <2>5, <2>6, AsideGood
<1>5. CASE op[p].kind # "app"
  <2>1. op[p].on = 1 /\ ~op[p].lost /\ Points(op[p].back) /\ Points(op[p].seen.dockerId)
    BY <1>1, <1>5, Owner
  <2>2. Goto(p, "recordFailure") /\ rows' = [rows EXCEPT ![1] = FailedRow(p)]
    BY <1>3, <1>5, <2>1 DEF RecordRow
  <2>3. Turn(p, "recordFailure") /\ op'[p].back = op[p].back
    BY <1>1, <2>2, Turns
  <2>4. /\ FailedRow(p) \in Row /\ FailedRow(p).name = App
        /\ FailedRow(p).dockerId \in {rows[1].dockerId, op[p].back, op[p].seen.dockerId}
    <3>0. op[p].seen.dockerId \in Ids \cup {Nothing}
      BY <1>3, <1>5 DEF Row
    <3>1. PICK i \in Ids \cup {Nothing} :
            /\ i \in {op[p].back, op[p].seen.dockerId}
            /\ i = IF op[p].mode = "recreated" THEN op[p].back ELSE op[p].seen.dockerId
      BY <1>3, <3>0
    <3>2. PICK image \in {Prev} \cup Ops : image = op[p].prev
      BY <1>1, Known DEF OpState
    <3>3. CASE op[p].mode = "failed"
      <4>1. FailedRow(p) = [rows[1] EXCEPT !.status = "ERROR"]
        BY <2>1, <3>3 DEF FailedRow
      <4> QED BY <1>3, <4>1 DEF Row
    <3>4. CASE op[p].mode # "failed"
      <4>1. FailedRow(p) = [rows[1] EXCEPT !.status = "RUNNING", !.image = image, !.dockerId = i]
        BY <2>1, <3>1, <3>2, <3>4 DEF FailedRow
      <4> QED BY <1>3, <3>1, <4>1 DEF Row
    <3> QED BY <3>3, <3>4
  <2>5. rows'[1] = FailedRow(p) /\ \A r \in RowIds \ {1} : rows'[r] = rows[r]
    BY <1>3, <2>2, RowIds1 DEF Tables
  <2>6. rows'[1] # NoRow /\ rows'[1].name = App /\ Points(rows[1].dockerId)'
    BY <1>1, <1>2, <2>1, <2>4, <2>5, ConstantsAssumption DEF Points, RowsInv
  <2>7. RowsInv'
    BY <1>1, <1>2, <2>5, <2>6, RowWritten
  <2>8. HostKept(p) /\ Points(op[p].back)'
    BY <1>1, <1>2, <2>1, <2>3, SameDocker DEF Points
  <2>9. op[p].kind # "atomic" \/ "recordFailure" \in Before => Untaken(p)'
    BY <1>1 DEF Before, Sound, Good, CandidateInv, Untaken, There
  <2>10. StageInv(p)'
    BY <2>3, EasyStage DEF Turn, Easy
  <2>11. "recordFailure" \in Owning
    BY DEF Owning
  <2> QED BY <1>1, <1>3, <1>5, <2>1, <2>3, <2>7, <2>8, <2>9, <2>10, <2>11, OwnerMoves
<1> QED BY <1>4, <1>5

LEMMA RecordFailureGood ==
  ASSUME Sound, Kinds \subseteq Deploys, NEW p \in Ops, RecordFailure(p)
  PROVE  Good'
<1>1. /\ IInv /\ op[p].pc = "recordFailure" /\ op[p].pc \in Owning /\ Goto(p, "release")
      /\ UNCHANGED <<rows, sourced, lock>> /\ UNCHANGED <<docker, lastId>>
  BY DEF Sound, RecordFailure, Owning, host
<1>2. /\ NamesInv /\ RowsInv
      /\ history[p] # Erased /\ (history[p] # None => history[p].row = 1)
  BY DEF Sound, Good, LockInv, Recorded
<1>3. Turn(p, "release") /\ op'[p].back = op[p].back
  BY <1>1, Turns
<1>4. /\ \A q \in Ops \ {p} : history'[q] = history[q]
      /\ history'[p] # Erased /\ (history'[p] # None => history'[p].row = 1)
      /\ ~Success(p)'
  <2>1. history \in [Ops -> Deployment \cup {None, Erased}]
    BY <1>1 DEF IInv, Parts, TableOK
  <2>2. CASE Recorded(p)
    <3> DEFINE h == [history[p] EXCEPT !.status = "FAILED"]
    <3>1. history[p] \in Deployment
      BY <2>1, <2>2 DEF Recorded
    <3>2. history' = [history EXCEPT ![p] = h]
      BY <2>2, Zenon DEF RecordFailure
    <3>3. h \in Deployment /\ h.row = history[p].row /\ h.status = "FAILED"
      BY <3>1 DEF Deployment
    <3> HIDE DEF h
    <3> QED BY <1>2, <2>1, <2>2, <3>2, <3>3, ConstantsAssumption DEF Recorded, Success
  <2>3. CASE ~Recorded(p)
    BY <1>2, <2>3 DEF RecordFailure, Success, Recorded
  <2> QED BY <2>2, <2>3
<1>5. CASE op[p].kind = "app"
  BY <1>1, <1>3, <1>4, <1>5, AsideGood
<1>6. CASE op[p].kind # "app"
  <2>1. Points(op[p].back) /\ ~op[p].lost
    BY <1>1, <1>6, Owner
  <2>2. StageInv(p)'
    BY <1>3, <1>4 DEF StageInv, Turn
  <2>3. HostKept(p) /\ Points(op[p].back)' /\ RowsInv'
    BY <1>1, <1>2, <1>3, <2>1, SameDocker DEF Points, HostKept
  <2>4. op[p].kind # "atomic" \/ "release" \in Before => Untaken(p)'
    BY <1>1 DEF Before, Sound, Good, CandidateInv, Untaken, There
  <2>5. "release" \in Owning
    BY DEF Owning
  <2> QED BY <1>1, <1>3, <1>4, <1>6, <2>1, <2>2, <2>3, <2>4, <2>5, OwnerMoves
<1> QED BY <1>5, <1>6

-----------------------------------------------------------------------------
(* A Git rebuild syncs, and finds its row.                                 *)
LEMMA GreatestRow ==
  ASSUME NEW T \in SUBSET RowIds, T # {}
  PROVE  S!Latest(T) \in T
<1> DEFINE Q == {MaxRows - r : r \in T}
<1>1. \A r \in T : r \in Int /\ MaxRows - r \in Nat /\ MaxRows \in Int
  BY ConstantsAssumption DEF RowIds
<1>2. Q \in SUBSET Nat /\ Q # {}
  BY <1>1
<1>3. PICK m \in Q : \A j \in Q : m <= j
  <2> HIDE DEF Q
  <2> QED BY <1>2, LeastNatural
<1>4. PICK r \in T : m = MaxRows - r
  BY <1>3
<1>5. \A s \in T : s <= r
  <2>1. \A s \in T : MaxRows - r <= MaxRows - s
    BY <1>3, <1>4
  <2> QED BY <1>1, <2>1
<1> QED BY <1>5 DEF S!Latest

LEMMA MatchIn ==
  ASSUME NEW list, NEW read, NEW i
  PROVE  \/ /\ S!Match(list, read, i) \in RowIds
            /\ read[S!Match(list, read, i)] # NoRow
            /\ \/ read[S!Match(list, read, i)].dockerId = i
               \/ read[S!Match(list, read, i)].name = list[i].name
         \/ S!Match(list, read, i) = S!Unmatched
<1> DEFINE byId == {r \in RowIds : read[r] # NoRow /\ read[r].dockerId = i}
           byName == {r \in RowIds : read[r] # NoRow /\ read[r].name = list[i].name}
<1>1. S!Match(list, read, i) = IF byId # {} THEN S!Latest(byId)
                                 ELSE IF byName # {} THEN S!Latest(byName) ELSE S!Unmatched
  BY DEF S!Match
<1>2. byId # {} => S!Latest(byId) \in byId
  BY GreatestRow
<1>3. byName # {} => S!Latest(byName) \in byName
  BY GreatestRow
<1> QED BY <1>1, <1>2, <1>3

(* The rows of new containers are newer than all others.                   *)
LEMMA NewerRow ==
  ASSUME IInv, NEW list, NEW read, NEW i \in S!New(list, read)
  PROVE  S!NewRowId(list, read, lastRow, i) # 1
<1> DEFINE T == {j \in S!New(list, read) : j >= i}
<1>1. IsFiniteSet(Ids) /\ S!New(list, read) \subseteq Ids
  BY ConstantsAssumption, FS_Interval DEF Ids, S!New, S!Listed
<1>2. IsFiniteSet(T) /\ i \in T
  <2>1. T \subseteq Ids /\ i \in Ids
    BY <1>1
  <2>2. i >= i
    BY <2>1 DEF Ids
  <2>3. i \in T
    BY <2>2
  <2> HIDE DEF T
  <2> QED BY <1>1, <2>1, <2>3, FS_Subset
<1>3. Cardinality(T) \in Nat /\ Cardinality(T) # 0
  <2> HIDE DEF T
  <2> QED BY <1>2, FS_CardinalityType, FS_EmptySet
<1>4. S!NewRowId(list, read, lastRow, i) = lastRow + Cardinality(T)
  BY DEF S!NewRowId, S!Cardinality, Cardinality
<1>5. lastRow \in Int /\ lastRow >= 1
  BY DEF IInv, Parts, TableOK, RowIds
<1> HIDE DEF T
<1> QED BY <1>3, <1>4, <1>5

(* A sync that sees the host and the table as they are, with the container *)
(* c as the application's: the first row is for c, the others are not.     *)
LEMMA CurrentSync ==
  ASSUME IInv, NamesInv, RowsInv, NEW c \in Ids, There(c, App)
  PROVE  /\ S!Applicable(docker, rows, rows)
         /\ S!Synced(docker, rows, lastRow)[1] = S!Payload(docker, c)
         /\ \A r \in RowIds \ {1} :
              S!Synced(docker, rows, lastRow)[r] # NoRow =>
                \E i \in Ids : /\ docker[i] # Absent /\ docker[i].name # App
                               /\ S!Synced(docker, rows, lastRow)[r] = S!Payload(docker, i)
<1> DEFINE m(i) == S!Match(docker, rows, i)
           W(r) == S!WrittenTo(docker, rows, lastRow, r)
<1>1. S!Applicable(docker, rows, rows)
  BY MatchIn DEF S!Applicable
<1>2. \A i \in Ids : docker[i] # Absent /\ docker[i].name = App => i = c
  BY DEF NamesInv, There
<1>3. m(c) = 1
  <2> DEFINE byId == {r \in RowIds : rows[r] # NoRow /\ rows[r].dockerId = c}
             byName == {r \in RowIds : rows[r] # NoRow /\ rows[r].name = docker[c].name}
  <2>1. m(c) = IF byId # {} THEN S!Latest(byId)
               ELSE IF byName # {} THEN S!Latest(byName) ELSE S!Unmatched
    BY DEF S!Match
  <2>2. byId \subseteq {1}
    BY DEF RowsInv
  <2>3. byName = {1}
    BY RowIds1 DEF RowsInv, There
  <2>4. byId # {} => S!Latest(byId) \in byId
    BY GreatestRow
  <2>5. byName # {} => S!Latest(byName) \in byName
    BY GreatestRow
  <2> HIDE DEF byId, byName, m
  <2> QED BY <2>1, <2>2, <2>3, <2>4, <2>5
<1>4. ASSUME NEW i \in Ids, docker[i] # Absent, i # c PROVE m(i) # 1
  <2>1. docker[i].name # App
    BY <1>2, <1>4
  <2>2. rows[1].dockerId # i
    BY <1>4, <2>1 DEF RowsInv, Points
  <2>3. rows[1].name # docker[i].name
    BY <2>1 DEF RowsInv
  <2> QED BY <2>2, <2>3, MatchIn DEF S!Unmatched
<1>5. c \notin S!New(docker, rows)
  BY <1>3 DEF S!New, S!Unmatched
<1>6. \A r \in RowIds : /\ W(r) \subseteq Ids /\ \A i \in W(r) : docker[i] # Absent
                        /\ r # 1 => c \notin W(r)
  BY <1>3, <1>5 DEF S!WrittenTo, S!Listed
<1>7. W(1) = {c}
  <2>1. c \in W(1)
    BY <1>3 DEF S!WrittenTo, S!Listed, There
  <2>2. ASSUME NEW i \in W(1) PROVE i = c
    <3>1. i \in Ids /\ docker[i] # Absent
      BY <1>6, <2>2, RowIds1
    <3>2. m(i) = 1 \/ (i \in S!New(docker, rows) /\ S!NewRowId(docker, rows, lastRow, i) = 1)
      BY <2>2 DEF S!WrittenTo
    <3> QED BY <1>4, <3>1, <3>2, NewerRow
  <2> HIDE DEF W
  <2> QED BY <2>1, <2>2
<1>8. \A r \in RowIds : S!Synced(docker, rows, lastRow)[r] =
        IF W(r) = {} THEN NoRow ELSE S!Payload(docker, S!Oldest(W(r)))
  BY DEF S!Synced
<1>9. \A r \in RowIds : W(r) # {} => S!Oldest(W(r)) \in W(r)
  <2>1. ASSUME NEW r \in RowIds, W(r) # {} PROVE S!Oldest(W(r)) \in W(r)
    <3>1. W(r) \in SUBSET Nat
      BY <1>6 DEF Ids
    <3> HIDE DEF W
    <3> QED BY <2>1, <3>1, LeastNatural DEF S!Oldest
  <2> QED BY <2>1
<1> HIDE DEF W, m
<1>10. S!Synced(docker, rows, lastRow)[1] = S!Payload(docker, c)
  <2>1. S!Oldest(W(1)) = c
    BY <1>7, <1>9, RowIds1
  <2> QED BY <1>7, <1>8, <2>1, RowIds1
<1>11. ASSUME NEW r \in RowIds \ {1}, S!Synced(docker, rows, lastRow)[r] # NoRow
       PROVE  \E i \in Ids : /\ docker[i] # Absent /\ docker[i].name # App
                             /\ S!Synced(docker, rows, lastRow)[r] = S!Payload(docker, i)
  <2>1. W(r) # {} /\ S!Synced(docker, rows, lastRow)[r] = S!Payload(docker, S!Oldest(W(r)))
    BY <1>8, <1>11
  <2>2. S!Oldest(W(r)) \in W(r)
    BY <1>9, <2>1
  <2> QED BY <1>2, <1>6, <2>1, <2>2
<1> QED BY <1>1, <1>10, <1>11

LEMMA ListGood ==
  ASSUME Sound, Kinds \subseteq Deploys, NEW p \in Ops, List(p)
  PROVE  Good'
<1>1. /\ IInv /\ op[p].pc = "list" /\ op[p].kind = "git" /\ op[p].pc \in Owning /\ UNCHANGED table
      /\ UNCHANGED <<docker, lastId>>
  <2>1. op[p].pc = "list"
    BY KnownDeploy DEF Sound, List, At, NewDeploys
  <2> QED BY <2>1, KnownDeploy DEF Sound, List, Owning, Suits, host
<1>2. ~op[p].lost /\ StageInv(p)
  BY <1>1, Owner
<1>3. OnError(p) = "recordFailure"
  BY <1>1 DEF OnError, Rollbacks, NewDeploys
<1>4. \/ \E list \in {docker, [i \in Ids |-> Absent]} :
           op' = [op EXCEPT ![p].list = list, ![p].pc = "read"]
      \/ Goto(p, "recordFailure")
  BY <1>2, <1>3 DEF List
<1>5. CASE Goto(p, "recordFailure")
  <2>1. Turn(p, "recordFailure") /\ op'[p].back = op[p].back
    BY <1>1, <1>5, Turns
  <2>2. StageInv(p)' /\ "recordFailure" \in Owning \ Before
    BY <2>1, EasyStage DEF Turn, Easy, Owning, Before
  <2> QED BY <1>1, <2>1, <2>2, OwnerWaits
<1>6. CASE \E list \in {docker, [i \in Ids |-> Absent]} :
             op' = [op EXCEPT ![p].list = list, ![p].pc = "read"]
  <2>1. PICK list \in {docker, [i \in Ids |-> Absent]} :
          op' = [op EXCEPT ![p].list = list, ![p].pc = "read"]
    BY <1>6
  <2>2. /\ Turn(p, "read") /\ op'[p].list = list /\ op'[p].cand = op[p].cand
        /\ op'[p].back = op[p].back
    BY <1>1, <2>1, Turns
  <2>3. Deployed(p)
    BY <1>1, <1>2 DEF StageInv
  <2>4. Deployed(p)'
    BY <1>1, <2>2, <2>3 DEF Deployed, There, Untaken
  <2>5. StageInv(p)' /\ "read" \in Owning \ Before
    BY <1>1, <2>1, <2>2, <2>4 DEF StageInv, Turn, Owning, Before
  <2> QED BY <1>1, <2>2, <2>5, OwnerWaits
<1> QED BY <1>4, <1>5, <1>6

LEMMA ReadGood ==
  ASSUME Sound, Kinds \subseteq Deploys, NEW p \in Ops, Read(p)
  PROVE  Good'
<1>1. /\ IInv /\ op[p].pc = "read" /\ op[p].kind = "git" /\ op[p].pc \in Owning /\ UNCHANGED table
      /\ UNCHANGED <<docker, lastId>> /\ op' = [op EXCEPT ![p].known = rows, ![p].pc = "apply"]
  BY KnownDeploy DEF Sound, Read, Owning, Suits, host, NewDeploys
<1>2. ~op[p].lost /\ StageInv(p)
  BY <1>1, Owner
<1>3. /\ Turn(p, "apply") /\ op'[p].known = rows /\ op'[p].list = op[p].list
      /\ op'[p].cand = op[p].cand /\ op'[p].back = op[p].back
  BY <1>1, Turns
<1>4. Deployed(p) /\ op[p].list \in {docker, [i \in Ids |-> Absent]}
  BY <1>1, <1>2 DEF StageInv
<1>5. Deployed(p)'
  BY <1>1, <1>3, <1>4 DEF Deployed, There, Untaken
<1>6. StageInv(p)' /\ "apply" \in Owning \ Before
  BY <1>1, <1>3, <1>4, <1>5 DEF StageInv, Turn, Owning, Before, table
<1> QED BY <1>1, <1>3, <1>6, OwnerWaits

(* After an empty list no row is left, and no request that needs one.      *)
LEMMA ApplyEmpty ==
  ASSUME Sound, Kinds \subseteq Deploys, NEW p \in Ops, Apply(p),
         op[p].list = [i \in Ids |-> Absent]
  PROVE  Vanished'
<1>1. /\ IInv /\ op[p].pc = "apply" /\ op[p].kind = "git" /\ op[p].pc \in Owning
  BY KnownDeploy DEF Sound, Apply, Owning, Suits, NewDeploys
<1>2. ~op[p].lost /\ lock[1] = p
  BY <1>1, Owner
<1> DEFINE after == S!Synced(op[p].list, op[p].known, lastRow)
<1>3. S!Listed(op[p].list) = {}
  BY DEF S!Listed
<1>4. S!Applicable(op[p].list, op[p].known, rows) /\ after = [r \in RowIds |-> NoRow]
  BY <1>3 DEF S!Applicable, S!Synced, S!WrittenTo, S!New
<1>5. /\ rows' = after /\ Cascade({r \in RowIds : after[r] = NoRow})
      /\ op' = [op EXCEPT ![p].list = None, ![p].known = None, ![p].pc = AfterSync(p)]
  BY <1>4 DEF Apply
<1>6. Turn(p, "match")
  <2>1. AfterSync(p) = "match"
    BY <1>1 DEF AfterSync, NewDeploys
  <2> QED BY <1>1, <1>5, <2>1, Turns
<1>7. \A q \in Ops : history'[q] \in {None, Erased}
  <2>1. history \in [Ops -> Deployment \cup {None, Erased}]
    BY <1>1 DEF IInv, Parts, TableOK
  <2>2. {r \in RowIds : after[r] = NoRow} = RowIds
    BY <1>4
  <2>3. \A q \in Ops : Recorded(q) => history[q].row \in RowIds
    BY <2>1 DEF Recorded, Deployment
  <2> HIDE DEF after
  <2> QED BY <1>5, <2>1, <2>2, <2>3 DEF Cascade, Recorded
<1>8. ASSUME NEW q \in Ops
      PROVE  /\ op'[q].pc \notin {"create", "list", "read", "apply"}
             /\ op'[q].kind = "git" => op'[q].pc \notin {"clear", "launch"}
  <2>1. CASE q = p
    BY <1>6, <2>1 DEF Turn
  <2>2. CASE q # p
    <3>1. op[q].pc \notin Owning \ {"succeed", "recordRow", "recordFailure", "release"}
      BY <1>2, <2>2, Owner
    <3> QED BY <1>6, <2>2, <3>1 DEF Turn, Owning
  <2> QED BY <2>1, <2>2
<1> QED BY <1>4, <1>5, <1>7, <1>8 DEF Vanished

LEMMA ApplyCurrent ==
  ASSUME Sound, Kinds \subseteq Deploys, NEW p \in Ops, Apply(p), op[p].list = docker
  PROVE  Good'
<1>1. /\ IInv /\ op[p].pc = "apply" /\ op[p].kind = "git" /\ op[p].pc \in Owning
      /\ UNCHANGED <<docker, lastId>>
  BY KnownDeploy DEF Sound, Apply, Owning, Suits, NewDeploys, host
<1>2. /\ ~op[p].lost /\ StageInv(p) /\ Points(op[p].back) /\ NamesInv /\ RowsInv
      /\ history[p] # Erased /\ (history[p] # None => history[p].row = 1) /\ lock[1] = p
  BY <1>1, Owner
<1>3. Deployed(p) /\ op[p].known = rows
  BY <1>1, <1>2 DEF StageInv
<1>4. PICK c \in Ids : c = op[p].cand
  BY <1>3 DEF Deployed
<1> DEFINE after == S!Synced(docker, rows, lastRow)
<1>5. /\ There(c, App) /\ docker[c] \in Container /\ docker[c].image = p /\ c <= lastId
  BY <1>1, <1>2, <1>3, <1>4 DEF Deployed, There, IInv, Parts, HostOK, Hosts, NamesInv
<1>6. /\ S!Applicable(docker, rows, rows) /\ after[1] = S!Payload(docker, c)
      /\ \A r \in RowIds \ {1} :
           after[r] # NoRow => \E i \in Ids : /\ docker[i] # Absent /\ docker[i].name # App
                                              /\ after[r] = S!Payload(docker, i)
  BY <1>1, <1>2, <1>5, CurrentSync
<1>7. /\ rows' = after /\ Cascade({r \in RowIds : after[r] = NoRow})
      /\ sourced' = {r \in sourced : after[r] # NoRow}
      /\ op' = [op EXCEPT ![p].list = None, ![p].known = None, ![p].pc = AfterSync(p)]
  BY <1>3, <1>6 DEF Apply
<1> HIDE DEF after
<1>8. Turn(p, "match") /\ op'[p].back = op[p].back /\ op'[p].cand = op[p].cand
  <2>1. AfterSync(p) = "match"
    BY <1>1 DEF AfterSync, NewDeploys
  <2> QED BY <1>1, <1>7, <2>1, Turns
<1>9. after[1] # NoRow /\ after[1].name = App /\ after[1].dockerId = c /\ after[1].image = p
  <2>1. S!Payload(docker, c) \in Row
    BY <1>5 DEF S!Payload, S!Status, Row, Container
  <2>2. S!Payload(docker, c).name = App /\ S!Payload(docker, c).dockerId = c
        /\ S!Payload(docker, c).image = p
    BY <1>5 DEF S!Payload, There
  <2> QED BY <1>6, <2>1, <2>2, ConstantsAssumption
<1>10. RowsInv'
  <2>1. ASSUME NEW r \in RowIds \ {1}, after[r] # NoRow
        PROVE  /\ after[r].name # App /\ after[r].dockerId <= lastId
               /\ \A i \in Ids : i = after[r].dockerId => ~There(i, App)
    <3>1. PICK i \in Ids : /\ docker[i] # Absent /\ docker[i].name # App
                           /\ after[r] = S!Payload(docker, i)
      BY <1>6, <2>1
    <3>2. after[r].name = docker[i].name /\ after[r].dockerId = i
      BY <3>1 DEF S!Payload
    <3> QED BY <1>2, <3>1, <3>2 DEF NamesInv, There
  <2>2. sourced' \subseteq {1}
    BY <1>2, <1>7 DEF RowsInv
  <2> QED BY <1>1, <1>5, <1>7, <1>9, <2>1, <2>2 DEF RowsInv, Points, There
<1>11. /\ lock'[1] = p /\ history' = history
  <2>1. 1 \notin {r \in RowIds : after[r] = NoRow}
    BY <1>9
  <2>2. \A q \in Ops : Recorded(q) => history[q].row = 1
    BY DEF Sound, Good, LockInv
  <2>3. history \in [Ops -> Deployment \cup {None, Erased}]
    BY <1>1 DEF IInv, Parts, TableOK
  <2>4. history' = [q \in Ops |-> history[q]]
    BY <1>7, <2>1, <2>2 DEF Cascade
  <2>5. lock'[1] = lock[1]
    BY <1>7, <2>1, RowIds1 DEF Cascade
  <2> QED BY <1>2, <2>3, <2>4, <2>5
<1>12. HostKept(p) /\ Points(op[p].back)'
  BY <1>1, <1>2, <1>8, SameDocker DEF Points
<1>13. Deployed(p)' /\ Shown(p)'
  BY <1>1, <1>3, <1>4, <1>7, <1>8, <1>9 DEF Deployed, Shown, There, Untaken
<1>14. StageInv(p)'
  BY <1>8, <1>13 DEF StageInv, Turn
<1>15. op[p].kind # "atomic" \/ "match" \in Before => Untaken(p)'
  BY <1>13 DEF Deployed
<1>16. "match" \in Owning
  BY DEF Owning
<1>17. lock'[1] = lock[1]
  BY <1>2, <1>11
<1> QED BY <1>1, <1>2, <1>8, <1>10, <1>11, <1>12, <1>14, <1>15, <1>16, <1>17, OwnerMoves

LEMMA MatchTargetGood ==
  ASSUME Sound, Kinds \subseteq Deploys, NEW p \in Ops, MatchTarget(p)
  PROVE  Good'
<1>1. /\ IInv /\ op[p].pc = "match" /\ op[p].kind = "git" /\ op[p].pc \in Owning
      /\ UNCHANGED <<docker, lastId>> /\ UNCHANGED <<rows, lock, history>>
  BY KnownDeploy DEF Sound, MatchTarget, Owning, Suits, host
<1>2. /\ ~op[p].lost /\ StageInv(p) /\ Points(op[p].back) /\ NamesInv /\ RowsInv
      /\ op[p].seen.name = App
      /\ history[p] # Erased /\ (history[p] # None => history[p].row = 1)
  BY <1>1, Owner
<1>3. Goto(p, "succeed") /\ sourced' = sourced \cup {1}
  <2>1. Named(IF op[p].kind = "source" THEN App ELSE op[p].seen.name) = {1}
    BY <1>2, NamedApp
  <2> QED BY <1>1, <1>2, <2>1 DEF MatchTarget
<1>4. Turn(p, "succeed") /\ op'[p].back = op[p].back /\ op'[p].cand = op[p].cand
  BY <1>1, <1>3, Turns
<1>5. RowsInv'
  BY <1>1, <1>2, <1>3 DEF RowsInv, Points, There
<1>6. HostKept(p) /\ Points(op[p].back)'
  BY <1>1, <1>2, <1>4, SameDocker DEF Points
<1>7. Deployed(p) /\ Shown(p)
  BY <1>1, <1>2 DEF StageInv
<1>8. Deployed(p)' /\ Shown(p)'
  BY <1>1, <1>4, <1>7 DEF Deployed, Shown, There, Untaken
<1>9. StageInv(p)'
  BY <1>4, <1>8 DEF StageInv, Turn
<1>10. op[p].kind # "atomic" \/ "succeed" \in Before => Untaken(p)'
  BY <1>8 DEF Deployed
<1>11. "succeed" \in Owning
  BY DEF Owning
<1> QED BY <1>1, <1>2, <1>4, <1>5, <1>6, <1>9, <1>10, <1>11, OwnerMoves

-----------------------------------------------------------------------------
(* A request before its lock, or giving it back.                           *)
LEMMA Outside ==
  ASSUME Sound, NEW p \in Ops, UNCHANGED <<docker, lastId>>, UNCHANGED <<rows, sourced, history>>,
         \A q \in Ops \ {p} : op'[q] = op[q],
         op'[p].kind = op[p].kind, op'[p].back = op[p].back, op'[p].lost = op[p].lost,
         op'[p].pc \in {"check", "acquire", "create", "done"},
         op'[p].pc \in Before => op[p].pc \in Before,
         op'[p].pc \in {"check", "acquire", "create"} =>
           /\ op'[p].on = 1 /\ op'[p].seen # NoRow /\ op'[p].seen.name = App
           /\ Points(op[p].seen.dockerId)',
         op'[p].pc = "create" => lock'[1] = p,
         \A q \in Ops \ {p} : /\ lock'[1] = q => lock[1] = q
                              /\ Locked(q) /\ ~op[q].lost => lock'[1] = q
  PROVE  Good'
<1>1. NamesInv /\ RowsInv /\ LockInv /\ SeenInv /\ CandidateInv
      /\ \A q \in Ops : lock[1] = q => StageInv(q)
  BY DEF Sound, Good
<1>2. NamesInv' /\ RowsInv'
  BY <1>1 DEF NamesInv, RowsInv, Points, There
<1>0. \A q \in Ops \ {p} : Locked(q)' => Locked(q)
  BY DEF Locked, Success, Recorded
<1>3. LockInv'
  BY <1>0, <1>1 DEF LockInv, Recorded, Owning, Locked
<1>4. SeenInv'
  <2>1. \A q \in Ops : Points(op[q].back)'
    BY <1>1 DEF SeenInv, Points
  <2>2. ASSUME NEW q \in Ops, Locked(q)' \/ op'[q].pc \in {"check", "acquire"}
        PROVE  /\ op'[q].on = 1 /\ op'[q].seen # NoRow /\ op'[q].seen.name = App
               /\ Points(op[q].seen.dockerId)'
    <3>1. CASE q = p
      BY <2>2, <3>1 DEF Owning, Locked
    <3>2. CASE q # p
      BY <1>0, <1>1, <2>2, <3>2 DEF SeenInv, Points
    <3> QED BY <3>1, <3>2
  <2> QED BY <2>1, <2>2 DEF SeenInv
<1>5. CandidateInv'
  BY <1>1 DEF CandidateInv, Untaken, There
<1>6. ASSUME NEW q \in Ops, lock'[1] = q PROVE StageInv(q)'
  <2>1. CASE q = p
    BY <2>1 DEF StageInv
  <2>2. CASE q # p
    BY <1>1, <1>6, <2>2, StageKept
  <2> QED BY <2>1, <2>2
<1> QED BY <1>2, <1>3, <1>4, <1>5, <1>6 DEF Good

LEMMA StartGood ==
  ASSUME Sound, Kinds \subseteq Deploys, NEW p \in Ops, Start(p)
  PROVE  Good'
<1>1. /\ IInv /\ op[p].pc = "start" /\ op \in [Ops -> OpState] /\ op[p] \in OpState
      /\ op[p].kind \in {"atomic", "recreate", "git", "app"}
      /\ UNCHANGED table /\ UNCHANGED <<docker, lastId>>
  BY Known, KnownDeploy DEF Sound, Start, At, host
<1>2. RowsInv /\ LockInv
  BY DEF Sound, Good
<1> DEFINE next == CASE op[p].kind \in Rollbacks -> "check"
                     [] op[p].kind = "delete" -> "clear"
                     [] op[p].kind \in Actions -> "act"
                     [] OTHER -> "acquire"
<1>3. next \in {"check", "acquire"}
  BY <1>1 DEF Rollbacks, Actions
<1>4. PICK r \in RowIds :
        /\ rows[r] # NoRow
        /\ op[p].kind \in Rollbacks => HasSuccess(r)
        /\ op[p].kind = "git" => r \in sourced
        /\ op[p].kind = "app" => rows[r].name = App
        /\ op' = [op EXCEPT ![p].on = r, ![p].seen = rows[r], ![p].pc = next]
  BY <1>2, NamedApp DEF Start
<1> HIDE DEF next
<1>5. r = 1
  <2>1. CASE op[p].kind \in Rollbacks
    BY <1>2, <1>4, <2>1, ConstantsAssumption DEF HasSuccess, LockInv, Recorded, Deployment
  <2>2. CASE op[p].kind = "git"
    BY <1>2, <1>4, <2>2 DEF RowsInv
  <2>3. CASE op[p].kind = "app"
    BY <1>2, <1>4, <2>3 DEF RowsInv
  <2> QED BY <1>1, <2>1, <2>2, <2>3 DEF Rollbacks
<1> DEFINE o == [op[p] EXCEPT !.on = r, !.seen = rows[r], !.pc = next]
<1>6. op' = [op EXCEPT ![p] = o]
  <2>1. op' = [op EXCEPT ![p].on = r, ![p].seen = rows[r], ![p].pc = next]
    BY <1>4
  <2> QED BY <2>1, Zenon
<1>7. /\ o.pc = next /\ o.kind = op[p].kind /\ o.lost = op[p].lost /\ o.back = op[p].back
      /\ o.on = r /\ o.seen = rows[r]
  BY <1>1 DEF OpState
<1> HIDE DEF o
<1>8. op'[p] = o /\ \A q \in Ops \ {p} : op'[q] = op[q]
  BY <1>1, <1>6
<1>9. op'[p].seen # NoRow /\ op'[p].seen.name = App /\ Points(op[p].seen.dockerId)'
  BY <1>1, <1>2, <1>5, <1>7, <1>8 DEF RowsInv, Points, table
<1>10. UNCHANGED <<rows, sourced, history>> /\ UNCHANGED lock
  BY <1>1 DEF table
<1>11. \A q \in Ops \ {p} : Locked(q) /\ ~op[q].lost => lock'[1] = q
  BY <1>2, <1>10 DEF LockInv
<1>12. op[p].pc \in Before
  BY <1>1 DEF Before
<1> QED BY <1>1, <1>3, <1>5, <1>7, <1>8, <1>9, <1>10, <1>11, <1>12, Outside

LEMMA CheckGood ==
  ASSUME Sound, Kinds \subseteq Deploys, NEW p \in Ops, Check(p)
  PROVE  Good'
<1>1. /\ IInv /\ op[p].pc = "check" /\ UNCHANGED <<docker, lastId>>
      /\ UNCHANGED <<rows, sourced, history>> /\ UNCHANGED lock
  BY DEF Sound, Check, At, host, table
<1>2. PICK step \in {"done", "acquire"} : Goto(p, step)
  BY DEF Check
<1>3. Turn(p, step) /\ op'[p].back = op[p].back
  BY <1>1, <1>2, Turns
<1>4. LockInv /\ SeenInv
  BY DEF Sound, Good
<1>5. op'[p].on = 1 /\ op'[p].seen # NoRow /\ op'[p].seen.name = App /\ Points(op[p].seen.dockerId)'
  BY <1>1, <1>3, <1>4 DEF SeenInv, Turn, Points
<1>6. \A q \in Ops \ {p} : Locked(q) /\ ~op[q].lost => lock'[1] = q
  BY <1>1, <1>4 DEF LockInv
<1>7. op[p].pc \in Before
  BY <1>1 DEF Before
<1> QED BY <1>1, <1>3, <1>5, <1>6, <1>7, Outside DEF Turn

LEMMA AcquireGood ==
  ASSUME Sound, Kinds \subseteq Deploys, NEW p \in Ops, Acquire(p)
  PROVE  Good'
<1>1. /\ IInv /\ op[p].pc = "acquire" /\ UNCHANGED <<docker, lastId>>
      /\ UNCHANGED <<rows, sourced, history>>
  BY DEF Sound, Acquire, host
<1>2. LockInv /\ SeenInv /\ rows[1] # NoRow
  BY DEF Sound, Good, RowsInv
<1>3. op[p].on = 1 /\ lock \in [RowIds -> Ops \cup {NoOp}]
  BY <1>1, <1>2 DEF SeenInv, IInv, Parts, TableOK
<1>4. PICK step \in {"done", "create"} :
        /\ Goto(p, step)
        /\ step = "done" => UNCHANGED lock
        /\ step = "create" => lock[1] = NoOp /\ lock' = [lock EXCEPT ![1] = p]
  BY <1>2, <1>3 DEF Acquire
<1>5. Turn(p, step) /\ op'[p].back = op[p].back
  BY <1>1, <1>4, Turns
<1>6. op'[p].on = 1 /\ op'[p].seen # NoRow /\ op'[p].seen.name = App /\ Points(op[p].seen.dockerId)'
  BY <1>1, <1>2, <1>5 DEF SeenInv, Turn, Points
<1>7. /\ step = "create" => lock'[1] = p
      /\ \A q \in Ops \ {p} : /\ lock'[1] = q => lock[1] = q
                              /\ Locked(q) /\ ~op[q].lost => lock'[1] = q
  BY <1>2, <1>3, <1>4, RowIds1, ConstantsAssumption DEF LockInv
<1>8. op[p].pc \in Before
  BY <1>1 DEF Before
<1> QED BY <1>1, <1>5, <1>6, <1>7, <1>8, Outside DEF Turn

LEMMA ReleaseGood ==
  ASSUME Sound, Kinds \subseteq Deploys, NEW p \in Ops, Release(p)
  PROVE  Good'
<1>1. /\ IInv /\ op[p].pc = "release" /\ UNCHANGED <<docker, lastId>> /\ Goto(p, "done")
      /\ UNCHANGED <<rows, sourced, history>>
  BY DEF Sound, Release
<1>2. LockInv
  BY DEF Sound, Good
<1>3. Turn(p, "done") /\ op'[p].back = op[p].back
  BY <1>1, Turns
<1>4. lock'[1] = lock[1] \/ (lock[1] = p /\ lock'[1] = NoOp)
  BY RowIds1 DEF Release
<1>5. \A q \in Ops \ {p} : /\ lock'[1] = q => lock[1] = q
                           /\ Locked(q) /\ ~op[q].lost => lock'[1] = q
  BY <1>2, <1>4, ConstantsAssumption DEF LockInv
<1>6. "done" \notin Before
  BY DEF Before
<1> QED BY <1>1, <1>3, <1>5, <1>6, Outside DEF Turn

(* All steps of a request together.                                        *)
LEMMA StepGood ==
  ASSUME Sound, Kinds \subseteq Deploys, NEW p \in Ops, Step(p)
  PROVE  Good' \/ Vanished'
<1>1. ~ClearDeleted(p) /\ ~Drop(p)
  BY KnownDeploy DEF Sound, ClearDeleted, Drop, At, Suits
<1>2. ASSUME Apply(p) PROVE Good' \/ Vanished'
  <2>1. op[p].pc = "apply" /\ op[p].pc \in Owning
    BY <1>2 DEF Apply, Owning
  <2>2. op[p].list \in {docker, [i \in Ids |-> Absent]}
    BY <2>1, Owner DEF StageInv
  <2> QED BY <1>2, <2>2, ApplyEmpty, ApplyCurrent
<1> QED BY <1>1, <1>2, StartGood, CheckGood, AcquireGood, CreateGood, InspectGood, ResolveGood,
           ClearGood, LaunchGood, ProbeGood, RenameGood, FinalizeGood, SucceedGood, CleanupGood,
           VerifyGood, RelaunchGood, RecordRowGood, RecordFailureGood, ReleaseGood, ListGood,
           ReadGood, MatchTargetGood DEF Step

(* A query fails.  It changes neither host nor table, and takes the        *)
(* request to a record of its failure, or to its end.                      *)
LEMMA FaultTurn ==
  ASSUME IInv, Kinds \subseteq Deploys, NEW p \in Ops, DatabaseFails(p)
  PROVE  \E step \in {"cleanup", "recordFailure", "recordRow", "release", "done"} :
           /\ Turn(p, step) /\ op'[p].back = op[p].back
           /\ op[p].pc \notin {"release", "done", "crashed"}
           /\ step = "done" => op[p].pc = "acquire"
           /\ op[p].kind = "app" => step \in {"recordRow", "release"}
           /\ op[p].pc = "acquire" /\ op[p].kind # "app" => step = "done"
           /\ op[p].kind # "app" => op[p].pc \in Owning \cup {"acquire"}
<1>1. /\ op[p] \in OpState /\ Queries(p) /\ op[p].kind \in {"atomic", "recreate", "git", "app"}
      /\ Suits(op[p].kind, op[p].pc)
  BY KnownDeploy DEF DatabaseFails
<1> DEFINE unsaved == op[p].unsaved \/ op[p].pc \in {"recordRow", "recordFailure"}
           o == [op[p] EXCEPT !.list = None, !.known = None, !.unsaved = unsaved, !.pc = AfterQuery(p)]
<1>2. op' = [op EXCEPT ![p] = o]
  BY Zenon DEF DatabaseFails
<1>3. /\ o.pc = AfterQuery(p) /\ o.kind = op[p].kind /\ o.lost = op[p].lost /\ o.on = op[p].on
      /\ o.seen = op[p].seen /\ o.back = op[p].back
  BY <1>1 DEF OpState
<1> HIDE DEF o
<1>4. Turn(p, AfterQuery(p)) /\ op'[p].back = op[p].back
  BY <1>2, <1>3, TurnTo
<1>5. op[p].pc \notin {"record", "history", "drop", "name", "insert", "note"}
  BY <1>1 DEF Suits, NewDeploys
<1>6. OnError(p) = IF op[p].kind \in Rollbacks THEN "cleanup"
                   ELSE IF op[p].kind = "git" THEN "recordFailure" ELSE "recordRow"
  BY <1>1 DEF OnError, Rollbacks, NewDeploys
<1>7. AfterQuery(p) = IF op[p].pc \in {"recordRow", "recordFailure"} THEN "release"
                      ELSE IF op[p].pc = "create" /\ op[p].kind \in Rollbacks THEN "release"
                      ELSE IF op[p].pc = "acquire" /\ op[p].kind # "app" THEN "done" ELSE OnError(p)
  BY <1>5 DEF AfterQuery
<1>8. /\ AfterQuery(p) \in {"cleanup", "recordFailure", "recordRow", "release", "done"}
      /\ AfterQuery(p) = "done" => op[p].pc = "acquire"
      /\ op[p].kind = "app" => AfterQuery(p) \in {"recordRow", "release"}
      /\ op[p].pc = "acquire" /\ op[p].kind # "app" => AfterQuery(p) = "done"
  BY <1>1, <1>6, <1>7 DEF Rollbacks
<1>9. /\ op[p].pc \notin {"release", "done", "crashed"}
      /\ op[p].kind # "app" => op[p].pc \in Owning \cup {"acquire"}
  BY <1>1, <1>5 DEF Queries, Owning
<1> QED BY <1>4, <1>8, <1>9

LEMMA FaultFacts ==
  ASSUME IInv, Kinds \subseteq Deploys, NEW p \in Ops, DatabaseFails(p)
  PROVE  Facts(p) /\ (Vanished => Vanished')
<1>1. PICK step \in {"cleanup", "recordFailure", "recordRow", "release", "done"} :
        Turn(p, step) /\ op[p].pc \notin {"release", "done", "crashed"}
  BY FaultTurn
<1>2. UNCHANGED history /\ UNCHANGED mishaps /\ UNCHANGED rows
  BY DEF DatabaseFails, table
<1> QED BY <1>1, <1>2, PlainFacts DEF Allowed

LEMMA FaultGood ==
  ASSUME Sound, Kinds \subseteq Deploys, NEW p \in Ops, DatabaseFails(p)
  PROVE  Good'
<1>1. /\ IInv /\ EndsInv /\ NamesInv /\ RowsInv /\ LockInv /\ SeenInv /\ CandidateInv
      /\ \A q \in Ops : lock[1] = q => StageInv(q)
  BY DEF Sound, Good
<1>2. UNCHANGED <<docker, lastId>> /\ UNCHANGED <<rows, sourced, lock, history>>
  BY DEF DatabaseFails, table
<1>3. PICK step \in {"cleanup", "recordFailure", "recordRow", "release", "done"} :
        /\ Turn(p, step) /\ op'[p].back = op[p].back
        /\ op[p].pc \notin {"release", "done", "crashed"}
        /\ step = "done" => op[p].pc = "acquire"
        /\ op[p].kind = "app" => step \in {"recordRow", "release"}
        /\ op[p].pc = "acquire" /\ op[p].kind # "app" => step = "done"
        /\ op[p].kind # "app" => op[p].pc \in Owning \cup {"acquire"}
  BY <1>1, FaultTurn
<1>4. ~Success(p) /\ ~Success(p)'
  BY <1>1, <1>2, <1>3 DEF EndsInv, Success, Recorded
<1>7. \A q \in Ops : Locked(q)' => Locked(q)
  <2>1. \A q \in Ops \ {p} : Locked(q)' => Locked(q)
    BY <1>2, <1>3 DEF Locked, Success, Recorded, Turn
  <2>2. Locked(p)' => Locked(p)
    BY <1>3, <1>4 DEF Locked, Turn, Owning
  <2> QED BY <2>1, <2>2
<1>8. NamesInv' /\ RowsInv' /\ LockInv'
  BY <1>1, <1>2, <1>3, <1>7 DEF NamesInv, RowsInv, Points, There, LockInv, Recorded, Turn
<1>9. SeenInv'
  <2>1. \A q \in Ops : op'[q].pc \in {"check", "acquire"} => op[q].pc \in {"check", "acquire"}
    BY <1>3 DEF Turn
  <2> QED BY <1>1, <1>2, <1>3, <1>7, <2>1 DEF SeenInv, Points, Turn
<1>10. CandidateInv'
  BY <1>1, <1>2, <1>3 DEF CandidateInv, Untaken, There, Turn, Before
<1>11. ASSUME NEW q \in Ops, lock'[1] = q PROVE StageInv(q)'
  <2>1. CASE q = p
    BY <1>3, <1>4, <2>1 DEF StageInv, Turn
  <2>2. CASE q # p
    BY <1>1, <1>2, <1>3, <1>11, <2>2, StageKept DEF Turn
  <2> QED BY <2>1, <2>2
<1> QED BY <1>8, <1>9, <1>10, <1>11 DEF Good

LEMMA StepDeployed ==
  ASSUME IInv, DeployedInv, Kinds \subseteq Deploys, NEW p \in Ops, Step(p) \/ DatabaseFails(p)
  PROVE  DeployedInv'
<1>1. Facts(p) /\ (Vanished => Vanished')
  BY StepFacts, FaultFacts
<1>2. EndsInv /\ Apart /\ op \in [Ops -> OpState]
  BY Known DEF DeployedInv
<1>3. EndsInv' /\ Apart'
  BY <1>1, <1>2 DEF EndsInv, Apart, Facts
<1>4. Faithful' => Faithful
  BY <1>1, <1>2 DEF Faithful, Facts
<1>5. ~Vanished /\ losses' = 0 => \A q \in Ops : ~op'[q].lost
  BY <1>1 DEF DeployedInv, Facts
<1>6. ~Vanished /\ Faithful' => Good' \/ Vanished'
  BY <1>2, <1>4, StepGood, FaultGood DEF DeployedInv, Sound
<1> QED BY <1>1, <1>3, <1>5, <1>6 DEF DeployedInv

-----------------------------------------------------------------------------
(* Locks lost and expired, and the end of the process.                     *)
LEMMA LoseDeployed ==
  ASSUME IInv, DeployedInv, NEW p \in Ops, LoseLock(p)
  PROVE  DeployedInv'
<1>1. op \in [Ops -> OpState] /\ op[p] \in OpState /\ ~op[p].lost /\ EndsInv /\ Apart
  BY Known DEF LoseLock, DeployedInv
<1>2. UNCHANGED <<docker, lastId>> /\ UNCHANGED <<rows, sourced, lock, history>>
  BY DEF LoseLock, host, table
<1>3. \A q \in Ops : /\ op'[q] = [op[q] EXCEPT !.lost = op'[q].lost]
                     /\ op[q].lost => op'[q].lost
                     /\ q # p => op'[q] = op[q]
  <2> DEFINE o == [op[p] EXCEPT !.lost = TRUE]
  <2>1. op' = [op EXCEPT ![p] = o]
    BY DEF LoseLock
  <2>2. o.lost = TRUE /\ o = [op[p] EXCEPT !.lost = o.lost]
    BY <1>1 DEF OpState
  <2>3. \A q \in Ops : op[q] = [op[q] EXCEPT !.lost = op[q].lost]
    BY <1>1 DEF OpState
  <2> HIDE DEF o
  <2> QED BY <1>1, <2>1, <2>2, <2>3
<1>4. ASSUME NEW q \in Ops
      PROVE  /\ op'[q].kind = op[q].kind /\ op'[q].pc = op[q].pc
             /\ op'[q].on = op[q].on /\ op'[q].seen = op[q].seen
             /\ op'[q].cand = op[q].cand /\ op'[q].back = op[q].back
             /\ op'[q].list = op[q].list /\ op'[q].known = op[q].known
  <2>1. PICK b : op'[q] = [op[q] EXCEPT !.lost = b]
    BY <1>3
  <2> DEFINE o == [op[q] EXCEPT !.lost = b]
  <2>2. /\ o.kind = op[q].kind /\ o.pc = op[q].pc /\ o.on = op[q].on
        /\ o.seen = op[q].seen /\ o.cand = op[q].cand /\ o.back = op[q].back
        /\ o.list = op[q].list /\ o.known = op[q].known
    BY <1>1 DEF OpState
  <2>3. op'[q] = o
    BY <2>1
  <2> HIDE DEF o
  <2> QED BY <2>2, <2>3
<1>5. EndsInv' /\ Apart'
  BY <1>1, <1>2, <1>4 DEF EndsInv, Success, Recorded, Apart
<1>6. Vanished => Vanished'
  BY <1>2, <1>4 DEF Vanished
<1>7. Faithful' => Faithful
  BY <1>2, <1>3, <1>4 DEF Faithful, Success, Recorded
<1>8. ASSUME Good PROVE Good'
  <2>1. NamesInv' /\ RowsInv'
    BY <1>2, <1>8 DEF Good, NamesInv, RowsInv, Points, There
  <2>0. \A q \in Ops : Locked(q)' <=> Locked(q)
    BY <1>2, <1>4 DEF Locked, Success, Recorded
  <2>2. LockInv'
    BY <1>2, <1>3, <1>4, <1>8, <2>0 DEF Good, LockInv, Recorded
  <2>3. SeenInv'
    BY <1>2, <1>4, <1>8, <2>0 DEF Good, SeenInv, Points
  <2>4. CandidateInv'
    BY <1>2, <1>4, <1>8 DEF Good, CandidateInv, Untaken, There
  <2>5. ASSUME NEW q \in Ops, lock'[1] = q PROVE StageInv(q)'
    <3>1. StageInv(q)
      BY <1>2, <1>8, <2>5 DEF Good
    <3> QED BY <1>2, <1>4, <3>1
            DEF StageInv, IsCandidate, Deployed, Shown, Success, Recorded, There, Untaken
  <2> QED BY <2>1, <2>2, <2>3, <2>4, <2>5 DEF Good
<1>9. ASSUME ~Vanished, losses' = 0 PROVE FALSE
  <2>1. losses \in Nat
    BY DEF IInv, Parts, MishapsOK
  <2>2. PICK n \in Nat : n = losses
    BY <2>1
  <2>3. n + 1 # 0
    BY <2>2
  <2>4. history[p] = Erased /\ losses = 0
    BY <1>9, <2>2, <2>3 DEF LoseLock
  <2>5. Faithful
    BY <1>9, <2>4 DEF DeployedInv, Faithful
  <2>6. LockInv
    BY <1>9, <2>5 DEF DeployedInv, Good
  <2> QED BY <2>4, <2>6 DEF LockInv
<1> QED BY <1>5, <1>6, <1>7, <1>8, <1>9 DEF DeployedInv

LEMMA ExpireDeployed ==
  ASSUME IInv, DeployedInv, NEW r \in RowIds, Expire(r)
  PROVE  DeployedInv'
<1>1. /\ UNCHANGED <<docker, lastId>> /\ UNCHANGED <<rows, sourced, history, op>>
      /\ UNCHANGED losses /\ EndsInv /\ Apart
  BY DEF Expire, host, mishaps, DeployedInv
<1>2. EndsInv' /\ Apart' /\ (Vanished => Vanished') /\ (Faithful' => Faithful)
  BY <1>1 DEF EndsInv, Vanished, Faithful, Success, Recorded, Apart
<1>3. lock \in [RowIds -> Ops \cup {NoOp}]
  BY DEF IInv, Parts, TableOK
<1>4. \/ lock'[1] = lock[1]
      \/ /\ lock'[1] = NoOp /\ lock[1] \in Ops
         /\ op[lock[1]].lost \/ op[lock[1]].pc \in {"start", "done", "crashed"}
  BY <1>3, RowIds1 DEF Expire, Working
<1>5. ASSUME Good PROVE Good'
  <2>1. NamesInv' /\ RowsInv'
    BY <1>1, <1>5 DEF Good, NamesInv, RowsInv, Points, There
  <2>2. LockInv'
    <3>1. ASSUME NEW q \in Ops, Locked(q), ~op[q].lost PROVE lock'[1] = q
      <4>1. lock[1] = q
        BY <1>5, <3>1 DEF Good, LockInv
      <4>2. op[q].pc \notin {"start", "done", "crashed"}
        BY <3>1 DEF Owning, Locked
      <4> QED BY <1>4, <3>1, <4>1, <4>2
    <3> QED BY <1>1, <1>5, <3>1 DEF Good, LockInv, Recorded, Locked, Success
  <2>3. SeenInv' /\ CandidateInv'
    BY <1>1, <1>5 DEF Good, SeenInv, Points, CandidateInv, Untaken, There, Locked, Success, Recorded
  <2>4. ASSUME NEW q \in Ops, lock'[1] = q PROVE StageInv(q)'
    <3>1. StageInv(q)
      BY <1>4, <1>5, <2>4, ConstantsAssumption DEF Good
    <3> QED BY <1>1, <3>1, StageKept
  <2> QED BY <2>1, <2>2, <2>3, <2>4 DEF Good
<1> QED BY <1>1, <1>2, <1>5 DEF DeployedInv

LEMMA CrashDeployed ==
  ASSUME IInv, DeployedInv, Crash
  PROVE  DeployedInv'
<1>1. /\ UNCHANGED <<docker, lastId>> /\ UNCHANGED <<rows, sourced, lock, history>>
      /\ UNCHANGED losses /\ EndsInv /\ Apart /\ op \in [Ops -> OpState] /\ op' = Dead
  BY DEF Crash, host, table, DeployedInv, IInv, Parts, OpsOK
<1>2. ASSUME NEW q \in Ops
      PROVE  /\ op'[q].kind = op[q].kind /\ op'[q].lost = op[q].lost /\ op'[q].back = op[q].back
             /\ \/ op'[q].pc = "crashed" /\ op[q].pc \notin {"start", "done", "crashed"}
                \/ op'[q].pc = op[q].pc /\ op[q].pc \in {"start", "done", "crashed"}
  <2> DEFINE o == [op[q] EXCEPT !.pc = "crashed", !.list = None, !.known = None]
  <2>1. op'[q] = IF Working(q) THEN o ELSE op[q]
    BY <1>1 DEF Dead
  <2>2. o.kind = op[q].kind /\ o.lost = op[q].lost /\ o.back = op[q].back /\ o.pc = "crashed"
    BY <1>1 DEF OpState
  <2> HIDE DEF o
  <2> QED BY <2>1, <2>2 DEF Working
<1>3. EndsInv' /\ Apart'
  BY <1>1, <1>2 DEF EndsInv, Success, Recorded, Apart
<1>4. Vanished => Vanished'
  BY <1>1, <1>2 DEF Vanished
<1>5. Faithful' => Faithful
  BY <1>1, <1>2 DEF Faithful, Success, Recorded
<1>6. ASSUME Good PROVE Good'
  <2>1. NamesInv' /\ RowsInv'
    BY <1>1, <1>6 DEF Good, NamesInv, RowsInv, Points, There
  <2>2. LockInv' /\ SeenInv'
    BY <1>1, <1>2, <1>6 DEF Good, LockInv, SeenInv, Owning, Recorded, Points, Locked
  <2>3. CandidateInv'
    BY <1>1, <1>2, <1>6 DEF Good, CandidateInv, Before, Untaken, There
  <2>4. ASSUME NEW q \in Ops PROVE StageInv(q)'
    BY <1>2 DEF StageInv
  <2> QED BY <2>1, <2>2, <2>3, <2>4 DEF Good
<1>7. losses' = 0 /\ (\A q \in Ops : ~op[q].lost) => \A q \in Ops : ~op'[q].lost
  BY <1>2
<1> QED BY <1>1, <1>3, <1>4, <1>5, <1>6, <1>7 DEF DeployedInv

LEMMA SameDeployed ==
  ASSUME DeployedInv, UNCHANGED vars
  PROVE  DeployedInv'
<1>1. UNCHANGED <<docker, lastId>> /\ UNCHANGED <<rows, sourced, lock, history, op, losses>>
  BY DEF vars
<1>2. EndsInv' /\ Apart' /\ (Vanished => Vanished') /\ (Faithful' => Faithful)
  BY <1>1 DEF DeployedInv, EndsInv, Vanished, Faithful, Success, Recorded, Apart
<1>3. ASSUME Good PROVE Good'
  <2>1. NamesInv' /\ RowsInv'
    BY <1>1, <1>3 DEF Good, NamesInv, RowsInv, Points, There
  <2>2. LockInv' /\ SeenInv' /\ CandidateInv'
    BY <1>1, <1>3 DEF Good, LockInv, Recorded, SeenInv, Points, CandidateInv, Untaken, There,
       Locked, Success
  <2>3. \A q \in Ops : lock'[1] = q => StageInv(q)'
    BY <1>1, <1>3, StageKept DEF Good
  <2> QED BY <2>1, <2>2, <2>3 DEF Good
<1> QED BY <1>1, <1>2, <1>3 DEF DeployedInv

LEMMA DeployedInit ==
  ASSUME Init
  PROVE  DeployedInv
<1>1. /\ docker = [i \in Ids |-> IF i = 1 THEN [name |-> App, image |-> Prev, state |-> "running"]
                                ELSE Absent]
      /\ lastId = 1 /\ sourced = {1} /\ lock = [r \in RowIds |-> NoOp]
      /\ rows = [r \in RowIds |-> IF r = 1 THEN [name |-> App, image |-> Prev, status |-> "RUNNING",
                                                dockerId |-> 1]
                                  ELSE NoRow]
      /\ history = [p \in Ops |-> None]
  BY DEF Init
<1>2. \A p \in Ops : /\ op[p].pc = "start" /\ ~op[p].lost /\ op[p].back = Nothing
                     /\ history[p] = None
  BY DEF Init, FreshOp
<1>3. 1 \in RowIds /\ 1 \in Ids /\ Nothing \notin Ids
  BY ConstantsAssumption DEF RowIds, Ids, Nothing
<1>4. /\ rows[1].name = App /\ rows[1].dockerId = 1 /\ rows[1] # NoRow
      /\ \A r \in RowIds \ {1} : rows[r] = NoRow
  <2>1. rows[1] \in Row
    BY <1>1, <1>3 DEF Row
  <2> QED BY <1>1, <1>3, <2>1, ConstantsAssumption
<1>5. docker[1].name = App /\ \A i \in Ids \ {1} : docker[i] = Absent
  BY <1>1, <1>3
<1>6. EndsInv /\ Apart
  <2>1. PICK kind \in [Ops -> Kinds] : /\ ~\E p, q \in Ops : kind[p] = "git" /\ kind[q] = "app"
                                       /\ op = [p \in Ops |-> FreshOp(kind[p])]
    BY DEF Init
  <2>2. \A p \in Ops : op[p].kind = kind[p]
    BY <2>1 DEF FreshOp
  <2> QED BY <1>2, <2>1, <2>2 DEF EndsInv, Success, Recorded, Apart
<1>7. NamesInv
  BY <1>1, <1>5 DEF NamesInv
<1>8. RowsInv
  BY <1>1, <1>4, <1>5 DEF RowsInv, Points
<1>9. LockInv
  BY <1>2, ConstantsAssumption DEF LockInv, Recorded, Owning, Locked
<1>10. SeenInv
  <2>1. Points(Nothing)
    BY <1>1, <1>3 DEF Points, Nothing
  <2> QED BY <1>2, <2>1 DEF SeenInv, Owning, Locked
<1>11. CandidateInv
  BY <1>5, ConstantsAssumption DEF CandidateInv, Untaken, There
<1>12. \A p \in Ops : StageInv(p)
  BY <1>2 DEF StageInv
<1> QED BY <1>2, <1>6, <1>7, <1>8, <1>9, <1>10, <1>11, <1>12 DEF DeployedInv, Good

LEMMA DeployedNext ==
  ASSUME IInv, DeployedInv, Kinds \subseteq Deploys, [Next]_vars
  PROVE  DeployedInv'
BY StepDeployed, LoseDeployed, ExpireDeployed, CrashDeployed, SameDeployed DEF Next

LEMMA DeployedAlways ==
  ASSUME Kinds \subseteq Deploys
  PROVE  Spec => [](IInv /\ DeployedInv)
<1>1. [Next]_vars => [AllNext]_vars
  BY DEF AllNext
<1>2. Spec => AllSpec
  BY <1>1, PTL DEF Spec, AllSpec
<1>3. Init => DeployedInv
  BY DeployedInit
<1>4. IInv /\ DeployedInv /\ [Next]_vars => DeployedInv'
  BY DeployedNext
<1> QED BY <1>2, <1>3, <1>4, Invariant, PTL DEF Spec

(* A deployment that is recorded as SUCCESS is what runs and what the      *)
(* table says, before its lock is given back: for any number of rollbacks  *)
(* and rebuilds side by side, and whatever failed or crashed before.       *)
THEOREM SuccessDeployed ==
  ASSUME Kinds \subseteq Deploys
  PROVE  Spec => []SuccessIsDeployed
<1>1. ASSUME IInv, DeployedInv PROVE SuccessIsDeployed
  <2> SUFFICES ASSUME NEW p \in Ops, op[p].pc = "release", losses = 0, Success(p)
               PROVE  /\ \A i \in Ids : docker[i] # Absent /\ docker[i].name \in {App, p}
                                         => i = op[p].cand
                      /\ docker[op[p].cand] # Absent /\ docker[op[p].cand].name = App
                      /\ docker[op[p].cand].image = p
                      /\ \E r \in Named(App) : /\ rows[r].dockerId = op[p].cand
                                               /\ rows[r].image = p
    BY DEF SuccessIsDeployed, Success
  <2>1. ~Vanished
    BY DEF Vanished, Success, Recorded
  <2>2. Good
    BY <1>1, <2>1 DEF DeployedInv, Faithful
  <2>3. lock[1] = p
    BY <1>1, <2>1, <2>2 DEF DeployedInv, Good, LockInv, Owning, Locked
  <2>4. NamesInv /\ RowsInv /\ Deployed(p) /\ Shown(p)
    BY <2>2, <2>3 DEF Good, StageInv
  <2>5. 1 \in Named(App)
    BY <2>4, NamedApp
  <2> QED BY <2>4, <2>5 DEF NamesInv, Deployed, Shown, There, Untaken
<1> QED BY <1>1, DeployedAlways, PTL

(* The host changes only by a request that took the lock: it owns it, or   *)
(* lost it since.                                                          *)
LEMMA WhoTouchesHost ==
  ASSUME IInv, Kinds \subseteq Deploys, NEW p \in Ops, Step(p), docker' # docker
  PROVE  op[p].pc \in Owning \ {"recordRow", "recordFailure", "release"}
<1>1. ~ClearDeleted(p) /\ ~Drop(p)
  BY KnownDeploy DEF ClearDeleted, Drop, At, Suits
<1>2. ~Start(p) /\ ~Check(p) /\ ~Acquire(p) /\ ~RecordRow(p) /\ ~RecordFailure(p) /\ ~Release(p)
  BY DEF Start, Check, Acquire, RecordRow, RecordFailure, Release, host
<1>3. \/ Create(p) \/ Inspect(p) \/ Resolve(p) \/ Clear(p) \/ Launch(p) \/ Probe(p) \/ Rename(p)
      \/ Finalize(p) \/ Succeed(p) \/ Cleanup(p) \/ Verify(p) \/ Relaunch(p) \/ Reverify(p)
      \/ List(p) \/ Read(p) \/ Apply(p) \/ MatchTarget(p)
  BY <1>1, <1>2 DEF Step
<1>4. op[p].pc \in {"create", "inspect", "resolve", "clear", "launch", "probe", "rename",
                    "finalize", "list", "read", "apply", "match", "succeed", "cleanup", "verify",
                    "relaunch", "reverify"}
  BY <1>3, KnownDeploy DEF Create, Inspect, Resolve, Clear, Launch, Probe, Rename, Finalize, Succeed,
     Cleanup, Verify, Relaunch, Reverify, List, Read, Apply, MatchTarget, At, NewDeploys
<1> QED BY <1>4 DEF Owning

(* The container of a successful deployment is taken down only by another  *)
(* request that holds the lock of the row, or held it and lost it.         *)
THEOREM DeployedStays ==
  ASSUME Kinds \subseteq Deploys
  PROVE  Spec => DeployedKept
<1> DEFINE Keeps == \A p \in Ops :
             /\ Recorded(p) /\ history[p].status = "SUCCESS"
             /\ docker[op[p].cand] # Absent /\ docker'[op[p].cand] = Absent
             => \E q \in Ops \ {p} : lock[history[p].row] = q \/ op[q].lost
<1>1. ASSUME IInv, DeployedInv, [Next]_vars PROVE [Keeps]_vars
  <2> SUFFICES ASSUME Next, NEW p \in Ops, Success(p), docker[op[p].cand] # docker'[op[p].cand],
                      \A q \in Ops \ {p} : ~op[q].lost
               PROVE  \E q \in Ops \ {p} : lock[history[p].row] = q
    BY <1>1 DEF Success
  <2>1. ~Vanished
    BY DEF Vanished, Success, Recorded
  <2>2. Faithful
    BY DEF Faithful
  <2>3. LockInv
    BY <1>1, <2>1, <2>2 DEF DeployedInv, Good
  <2>4. history[p].row = 1
    BY <2>3 DEF LockInv, Success
  <2>5. PICK q \in Ops : Step(q)
    BY DEF Next, DatabaseFails, LoseLock, Expire, Crash, host
  <2>6. op[q].pc \in Owning \ {"recordRow", "recordFailure", "release"}
    BY <1>1, <2>5, WhoTouchesHost
  <2>7. q # p
    BY <1>1, <2>6 DEF DeployedInv, EndsInv, Owning
  <2> QED BY <2>3, <2>4, <2>6, <2>7 DEF LockInv, Locked
<1>2. DeployedKept <=> [][Keeps]_vars
  BY DEF DeployedKept
<1> QED BY <1>1, <1>2, DeployedAlways, PTL DEF Spec

-----------------------------------------------------------------------------
(* What a sync needs of the host and the table: no two containers have one *)
(* name, as Docker refuses a name that is taken, and ids of rows grow.     *)
Distinct(d) ==
  \A i, j \in Ids : d[i] # Absent /\ d[j] # Absent /\ d[i].name = d[j].name => i = j

Bounded(t, last) == \A r \in RowIds : t[r] # NoRow => r <= last

SyncInv == Distinct(docker) /\ Bounded(rows, lastRow)

(* Commands that start, stop or remove keep the names.                     *)
SameNames(d, e) ==
  \A i \in Ids : e[i] = Absent \/ (d[i] # Absent /\ e[i].name = d[i].name)

LEMMA SameNamesDistinct ==
  ASSUME NEW d, NEW e, Distinct(d), SameNames(d, e)
  PROVE  Distinct(e)
BY DEF Distinct, SameNames

LEMMA ChangedNames ==
  ASSUME NEW d \in Hosts, NEW ref
  PROVE  /\ SameNames(d, d) /\ SameNames(d, D!Stopped(d, ref))
         /\ \A s \in D!UpStates : SameNames(d, D!Started(d, ref, s))
         /\ SameNames(d, D!Removed(d, ref))
<1>1. \A i \in D!Matches(d, ref) :
        /\ d[i] # Absent
        /\ \A s : [d[i] EXCEPT !.state = s].name = d[i].name
  BY ChangedHosts DEF D!Matches, Container
<1> QED BY <1>1 DEF SameNames, D!Stopped, D!Started, D!Removed

LEMMA CommandNames ==
  ASSUME NEW d \in Hosts, NEW ref, NEW kind \in Actions, docker = d
  PROVE  /\ \A o \in D!HealthOutcomes(d, ref) : SameNames(d, o.docker)
         /\ \A o \in D!RmOutcomes(d, ref) : SameNames(d, o.docker)
         /\ \A o \in ActionOutcomes(kind, ref) : SameNames(d, o.docker)
<1>1. \A o \in D!HealthOutcomes(d, ref) : SameNames(d, o.docker)
  BY ChangedNames DEF D!HealthOutcomes, D!Outcome
<1>2. \A o \in D!RmOutcomes(d, ref) : SameNames(d, o.docker)
  BY ChangedNames DEF D!RmOutcomes, D!Attempt, D!Outcome
<1>3. \A o \in D!StartOutcomes(d, ref) \cup D!StopOutcomes(d, ref) : SameNames(d, o.docker)
  BY ChangedNames DEF D!StartOutcomes, D!StopOutcomes, D!Attempt, D!Outcome, D!UpStates
<1> QED BY <1>1, <1>2, <1>3 DEF ActionOutcomes, Actions

LEMMA DockerDistinct ==
  ASSUME Distinct(docker), NEW O, NEW A, Docker(O, A), \A o \in O : SameNames(docker, o.docker)
  PROVE  Distinct(docker')
<1>1. PICK o \in O : docker' = o.docker
  BY DEF Docker
<1> QED BY <1>1, SameNamesDistinct

LEMMA RemoveDistinct ==
  ASSUME IInv, Distinct(docker), NEW refs, NEW A, Docker(RemoveOutcomes(refs), A)
  PROVE  Distinct(docker')
<1>1. SameNames(docker, docker')
  BY RemoveShrinks DEF Spared, SameNames
<1> QED BY <1>1, SameNamesDistinct

LEMMA RunDistinct ==
  ASSUME IInv, Distinct(docker), NEW n \in Ids, NEW name \in {App} \cup Ops,
         NEW image \in {Prev} \cup Ops, NEW A,
         Docker(D!RunOutcomes(docker, n, name, image), A)
  PROVE  Distinct(docker')
<1>1. \A i \in Ids : \/ docker'[i] = docker[i]
                     \/ i = n /\ docker'[i].name = name /\ Untaken(name)
  BY RunGrows
<1> SUFFICES ASSUME NEW i \in Ids, NEW j \in Ids, docker'[i] # Absent, docker'[j] # Absent,
                    docker'[i].name = docker'[j].name, i # j
             PROVE  FALSE
  BY DEF Distinct
<1>2. CASE docker'[i] = docker[i] /\ docker'[j] = docker[j]
  BY <1>2 DEF Distinct
<1>3. CASE docker'[i] # docker[i]
  <2>1. docker'[j] = docker[j] /\ docker'[i].name = name /\ Untaken(name)
    BY <1>1, <1>3
  <2> QED BY <2>1 DEF Untaken, There
<1>4. CASE docker'[j] # docker[j]
  <2>1. docker'[i] = docker[i] /\ docker'[j].name = name /\ Untaken(name)
    BY <1>1, <1>4
  <2> QED BY <2>1 DEF Untaken, There
<1> QED BY <1>2, <1>3, <1>4

LEMMA RenameDistinct ==
  ASSUME IInv, Distinct(docker), NEW p \in Ops, NEW name \in {App} \cup Ops, NEW A,
         Docker(D!RenameOutcomes(docker, p, name), A)
  PROVE  Distinct(docker')
<1> DEFINE M == D!Matches(docker, p)
           d == [i \in Ids |-> IF i \in M THEN [docker[i] EXCEPT !.name = name] ELSE docker[i]]
<1>1. docker \in Hosts
  BY DEF IInv, Parts, HostOK
<1>2. \A i \in M : docker[i] # Absent /\ docker[i] \in Container /\ docker[i].name = p
  BY <1>1, ChangedHosts, ConstantsAssumption DEF D!Matches
<1>3. docker' = docker \/ (docker' = d /\ Untaken(name))
  BY DEF Docker, D!RenameOutcomes, D!Attempt, D!Outcome, D!NameTaken, Untaken, There
<1>4. \A i \in Ids : d[i] = docker[i] \/ (i \in M /\ d[i].name = name)
  BY <1>2 DEF Container
<1> HIDE DEF d
<1> SUFFICES ASSUME NEW i \in Ids, NEW j \in Ids, docker'[i] # Absent, docker'[j] # Absent,
                    docker'[i].name = docker'[j].name, i # j
             PROVE  FALSE
  BY DEF Distinct
<1>5. CASE docker'[i] = docker[i] /\ docker'[j] = docker[j]
  BY <1>5 DEF Distinct
<1>6. CASE docker'[i] # docker[i] /\ docker'[j] # docker[j]
  BY <1>2, <1>3, <1>4, <1>6 DEF Distinct
<1>7. CASE docker'[i] # docker[i] /\ docker'[j] = docker[j]
  BY <1>3, <1>4, <1>7 DEF Untaken, There
<1>8. CASE docker'[i] = docker[i] /\ docker'[j] # docker[j]
  BY <1>3, <1>4, <1>8 DEF Untaken, There
<1> QED BY <1>5, <1>6, <1>7, <1>8

(* The launches of the deployments and of the recovery.                    *)
LEMMA LaunchDistinct ==
  ASSUME IInv, Distinct(docker), NEW p \in Ops, Launch(p) \/ Relaunch(p)
  PROVE  Distinct(docker')
<1>1. lastId + 1 \in Ids
  <2>1. lastId \in Ids /\ lastId < MaxIds
    BY DEF Launch, Relaunch, IInv, Parts, HostOK
  <2> QED BY <2>1, ConstantsAssumption DEF Ids
<1>2. CASE Launch(p)
  <2> DEFINE name == CASE op[p].kind = "atomic" -> p
                       [] op[p].kind \in NewDeploys \cup {"app"} -> App
                       [] OTHER -> op[p].seen.name
  <2>1. op[p].kind \in Deploys \cup NewDeploys /\ op[p].pc = "launch"
    BY <1>2, Known DEF Launch, Suits
  <2>2. op[p].kind \in {"recreate", "git"} => op[p].seen \in Row
    BY <2>1, Known DEF Remembers, Rollbacks
  <2>3. name \in {App} \cup Ops
    BY <2>1, <2>2 DEF Deploys, Rollbacks, NewDeploys, Row
  <2>4. \E A : Docker(D!RunOutcomes(docker, lastId + 1, name, p), A)
    BY <1>2 DEF Launch
  <2> HIDE DEF name
  <2> QED BY <1>1, <2>3, <2>4, RunDistinct
<1>3. CASE Relaunch(p)
  <2>1. op[p].pc = "relaunch" /\ op[p].kind \in Rollbacks /\ op[p] \in OpState
    BY <1>3, Known DEF Relaunch, Suits
  <2>2. op[p].seen \in Row
    BY <2>1, Known DEF Remembers
  <2>3. op[p].seen.name \in {App} \cup Ops /\ op[p].prev \in {Prev} \cup Ops
    BY <2>1, <2>2 DEF Row, OpState
  <2>4. \E A : Docker(D!RunOutcomes(docker, lastId + 1, op[p].seen.name, op[p].prev), A)
    BY <1>3 DEF Relaunch
  <2> QED BY <1>1, <2>3, <2>4, RunDistinct
<1> QED BY <1>2, <1>3

LEMMA StepDistinct ==
  ASSUME IInv, Distinct(docker), NEW p \in Ops, Step(p) \/ DeployStep(p)
  PROVE  Distinct(docker')
<1>1. docker \in Hosts
  BY DEF IInv, Parts, HostOK
<1>2. CASE docker' = docker
  BY <1>2 DEF Distinct
<1>3. CASE Launch(p) \/ Relaunch(p)
  BY <1>3, LaunchDistinct
<1>4. CASE Clear(p) \/ Cleanup(p)
  <2>1. \E refs, A : Docker(RemoveOutcomes(refs), A)
    BY <1>4 DEF Clear, Cleanup
  <2> QED BY <2>1, RemoveDistinct
<1>5. CASE Rename(p)
  <2>1. op[p].pc = "rename" /\ op[p].kind = "atomic"
    BY <1>5, Known DEF Rename, Suits
  <2>2. op[p].seen.name \in {App} \cup Ops
    BY <2>1, Known DEF Remembers, Rollbacks, Row
  <2>3. \E A : Docker(D!RenameOutcomes(docker, p, op[p].seen.name), A)
    BY <1>5 DEF Rename
  <2> QED BY <2>2, <2>3, RenameDistinct
<1>6. CASE Probe(p) \/ Verify(p) \/ Reverify(p)
  <2>1. \E ref, A : Docker(D!HealthOutcomes(docker, ref), A)
    BY <1>6 DEF Probe, Verify, Reverify
  <2> QED BY <1>1, <2>1, CommandNames, DockerDistinct DEF Actions
<1>7. CASE ClearDeleted(p)
  <2>1. \E ref, A : Docker(D!RmOutcomes(docker, ref), A)
    BY <1>7 DEF ClearDeleted
  <2> QED BY <1>1, <2>1, CommandNames, DockerDistinct DEF Actions
<1>8. CASE Act(p)
  <2>1. op[p].kind \in Actions
    BY <1>8, Known DEF Act, Suits
  <2>2. docker' = docker \/ \E ref, A : Docker(ActionOutcomes(op[p].kind, ref), A)
    BY <1>8 DEF Act
  <2> QED BY <1>1, <1>2, <2>1, <2>2, CommandNames, DockerDistinct
<1>9. CASE Inspect(p) \/ Resolve(p)
  <2>1. docker' = docker
    BY <1>9 DEF Inspect, Resolve, Docker, D!Outcome, host
  <2> QED BY <1>2, <2>1
<1>10. CASE List(p) \/ Release(p) \/ InspectState(p)
  BY <1>2, <1>10 DEF List, Release, InspectState, host
<1>11. CASE \/ Start(p) \/ Check(p) \/ Acquire(p) \/ Create(p) \/ Finalize(p) \/ Succeed(p)
            \/ RecordRow(p) \/ RecordFailure(p) \/ Read(p) \/ Apply(p) \/ MatchTarget(p) \/ Drop(p)
  BY <1>2, <1>11 DEF Start, Check, Acquire, Create, Finalize, Succeed, RecordRow, RecordFailure,
     Read, Apply, MatchTarget, Drop, host
<1>12. CASE \/ Unvalidated(p) \/ CheckName(p) \/ Insert(p) \/ Record(p) \/ RecordHistory(p)
            \/ Fail(p) \/ Note(p)
  BY <1>2, <1>12 DEF Unvalidated, CheckName, Insert, Record, RecordHistory, Fail, Note, host
<1> QED BY <1>3, <1>4, <1>5, <1>6, <1>7, <1>8, <1>9, <1>10, <1>11, <1>12 DEF Step, DeployStep

(* What a sync makes of the rows: those it matched were there, and the new *)
(* ones have ids beyond.                                                   *)
LEMMA NewRowIds ==
  ASSUME IInv, NEW list, NEW read, NEW i \in S!New(list, read)
  PROVE  /\ S!NewRowId(list, read, lastRow, i) \in Int
         /\ S!NewRowId(list, read, lastRow, i) > lastRow
         /\ S!NewRowId(list, read, lastRow, i) <= lastRow + Cardinality(S!New(list, read))
         /\ \A k \in S!New(list, read) :
              S!NewRowId(list, read, lastRow, k) = S!NewRowId(list, read, lastRow, i) => k = i
<1> DEFINE N == S!New(list, read)
           T(k) == {j \in N : j >= k}
<1>1. IsFiniteSet(N) /\ N \subseteq Ids
  <2>1. IsFiniteSet(Ids) /\ N \subseteq Ids
    BY ConstantsAssumption, FS_Interval DEF Ids, S!New, S!Listed
  <2> HIDE DEF N
  <2> QED BY <2>1, FS_Subset
<1>2. \A k \in N : S!NewRowId(list, read, lastRow, k) = lastRow + Cardinality(T(k))
  BY DEF S!NewRowId, S!Cardinality, Cardinality
<1> HIDE DEF N
<1>3. ASSUME NEW k \in N
      PROVE  /\ T(k) \subseteq N /\ IsFiniteSet(T(k)) /\ k \in T(k)
             /\ Cardinality(T(k)) \in Nat \ {0} /\ Cardinality(T(k)) <= Cardinality(N)
  <2>1. T(k) \subseteq N /\ k \in T(k)
    BY <1>1 DEF Ids
  <2> HIDE DEF T
  <2>2. IsFiniteSet(T(k)) /\ Cardinality(T(k)) <= Cardinality(N)
    BY <1>1, <2>1, FS_Subset
  <2> QED BY <2>1, <2>2, FS_CardinalityType, FS_EmptySet
<1>4. ASSUME NEW k \in N, NEW j \in N, Cardinality(T(k)) = Cardinality(T(j)), k < j
      PROVE  FALSE
  <2>0. k \in Int /\ j \in Int /\ \A m \in N : m \in Int
    BY <1>1 DEF Ids
  <2>1. T(j) \subseteq T(k) /\ k \notin T(j)
    <3>1. \A m \in N : m >= j => m >= k
      BY <1>4, <2>0
    <3>2. ~(k >= j)
      BY <1>4, <2>0
    <3> QED BY <3>1, <3>2
  <2> HIDE DEF T
  <2>2. T(k) = T(j)
    BY <1>3, <1>4, <2>1, FS_Subset
  <2> QED BY <1>3, <2>1, <2>2
<1> HIDE DEF T
<1>5. lastRow \in Int /\ Cardinality(N) \in Nat
  BY <1>1, FS_CardinalityType DEF IInv, Parts, TableOK, RowIds
<1>6. i \in N
  BY DEF N
<1>7. PICK n \in Nat \ {0} : n = Cardinality(T(i)) /\ n <= Cardinality(N)
  BY <1>3, <1>6
<1>8. /\ S!NewRowId(list, read, lastRow, i) \in Int
      /\ S!NewRowId(list, read, lastRow, i) > lastRow
      /\ S!NewRowId(list, read, lastRow, i) <= lastRow + Cardinality(N)
  BY <1>2, <1>5, <1>6, <1>7
<1>9. ASSUME NEW k \in N, S!NewRowId(list, read, lastRow, k) = S!NewRowId(list, read, lastRow, i)
      PROVE  k = i
  <2>1. PICK m \in Nat : m = Cardinality(T(k))
    BY <1>3
  <2>2. lastRow + m = lastRow + n
    BY <1>2, <1>6, <1>7, <1>9, <2>1
  <2>3. Cardinality(T(k)) = Cardinality(T(i))
    BY <1>5, <1>7, <2>1, <2>2
  <2>4. ~(k < i) /\ ~(i < k)
    BY <1>4, <1>6, <2>3
  <2> QED BY <1>1, <1>6, <2>4 DEF Ids
<1> QED BY <1>8, <1>9 DEF N

LEMMA StepBounded ==
  ASSUME IInv, Bounded(rows, lastRow), NEW p \in Ops, Step(p) \/ DeployStep(p)
  PROVE  Bounded(rows', lastRow')
<1>1. rows \in [RowIds -> Row \cup {NoRow}] /\ lastRow \in RowIds
  BY DEF IInv, Parts, TableOK, Tables
<1>2. CASE lastRow' = lastRow /\ \A r \in RowIds : rows'[r] # NoRow => rows[r] # NoRow
  BY <1>2 DEF Bounded
<1>3. CASE Insert(p)
  <2>1. PICK last \in Int : last = lastRow
    BY <1>1 DEF RowIds
  <2>2. lastRow' = last + 1 /\ \A r \in RowIds : rows'[r] = rows[r] \/ r = last + 1
    BY <1>1, <1>3, <2>1 DEF Insert
  <2>3. \A r \in RowIds : r <= last => r <= last + 1
    BY <2>1 DEF RowIds
  <2>4. \A r \in RowIds : r = last + 1 => r <= last + 1
    BY <2>1 DEF RowIds
  <2> QED BY <2>1, <2>2, <2>3, <2>4 DEF Bounded
<1>4. CASE Apply(p)
  <2> DEFINE list == op[p].list
             read == op[p].known
  <2>1. CASE UNCHANGED table
    BY <1>2, <2>1 DEF table
  <2>2. CASE /\ S!Applicable(list, read, rows)
             /\ rows' = S!Synced(list, read, lastRow)
             /\ lastRow' = lastRow + Cardinality(S!New(list, read))
    <3>1. PICK n \in Nat, last \in Int :
            n = Cardinality(S!New(list, read)) /\ last = lastRow /\ lastRow' = last + n
      BY <1>1, <2>2, NewCounted DEF RowIds
    <3>2. ASSUME NEW r \in RowIds, rows'[r] # NoRow
          PROVE  r <= last + n
      <4>1. PICK i \in S!WrittenTo(list, read, lastRow, r) : TRUE
        BY <2>2, <3>2 DEF S!Synced
      <4>2. CASE S!Match(list, read, i) = r
        <5>1. i \in S!Listed(list) /\ r # S!Unmatched
          BY <4>1 DEF S!WrittenTo, S!Unmatched, RowIds
        <5>2. rows[r] # NoRow
          BY <2>2, <4>2, <5>1 DEF S!Applicable
        <5>3. r <= last
          BY <3>1, <5>2 DEF Bounded
        <5> QED BY <3>1, <5>3 DEF RowIds
      <4>3. CASE i \in S!New(list, read) /\ S!NewRowId(list, read, lastRow, i) = r
        BY <3>1, <4>3, NewRowIds
      <4> QED BY <4>1, <4>2, <4>3 DEF S!WrittenTo
    <3> QED BY <3>1, <3>2 DEF Bounded
  <2> QED BY <1>4, <2>1, <2>2 DEF Apply
<1>5. CASE Finalize(p)
  <2>1. op[p].kind \in Rollbacks \cup {"app"}
    BY <1>5, Known DEF Finalize, Suits
  <2>2. CASE rows' = rows
    BY <1>2, <1>5, <2>2 DEF Finalize
  <2>3. CASE rows' = FinalRows(p) /\ (op[p].kind \in Rollbacks => rows[op[p].on] # NoRow)
    <3>1. \A r \in RowIds : rows'[r] # NoRow => rows[r] # NoRow
      BY <2>1, <2>3 DEF FinalRows, Named, Rollbacks
    <3> QED BY <1>2, <1>5, <3>1 DEF Finalize
  <2> QED BY <1>5, <2>2, <2>3 DEF Finalize
<1>6. CASE RecordRow(p)
  <2>1. \A r \in RowIds : rows'[r] # NoRow => rows[r] # NoRow
    BY <1>1, <1>6 DEF RecordRow, Named
  <2> QED BY <1>2, <1>6, <2>1 DEF RecordRow
<1>7. CASE Drop(p) \/ Record(p) \/ Note(p)
  <2>1. \A r \in RowIds : rows'[r] # NoRow => rows[r] # NoRow
    BY <1>1, <1>7 DEF Drop, Record, Note
  <2> QED BY <1>2, <1>7, <2>1 DEF Drop, Record, Note
<1>8. CASE Fail(p)
  <2>1. \A r \in RowIds : rows'[r] # NoRow => rows[r] # NoRow
    BY <1>1, <1>8 DEF Fail, FailedDeploy
  <2> QED BY <1>2, <1>8, <2>1 DEF Fail
<1>9. CASE \/ Start(p) \/ Check(p) \/ Acquire(p) \/ Create(p) \/ Inspect(p) \/ Resolve(p) \/ Clear(p)
           \/ Launch(p) \/ Probe(p) \/ Rename(p) \/ Succeed(p) \/ Cleanup(p) \/ Verify(p)
  BY <1>2, <1>9 DEF Start, Check, Acquire, Create, Inspect, Resolve, Clear, Launch, Probe, Rename,
     Succeed, Cleanup, Verify, table
<1>10. CASE \/ Relaunch(p) \/ Reverify(p) \/ RecordFailure(p) \/ Release(p) \/ List(p) \/ Read(p)
            \/ MatchTarget(p) \/ ClearDeleted(p)
  BY <1>2, <1>10 DEF Relaunch, Reverify, RecordFailure, Release, List, Read, MatchTarget,
     ClearDeleted, table
<1>11. CASE \/ Unvalidated(p) \/ CheckName(p) \/ RecordHistory(p) \/ Act(p) \/ InspectState(p)
  BY <1>2, <1>11 DEF Unvalidated, CheckName, RecordHistory, Act, InspectState, table
<1> QED BY <1>3, <1>4, <1>5, <1>6, <1>7, <1>8, <1>9, <1>10, <1>11 DEF Step, DeployStep

LEMMA SyncAlways == AllSpec => [](IInv /\ SyncInv)
<1>1. Init => SyncInv
  <2> SUFFICES ASSUME Init PROVE SyncInv
    OBVIOUS
  <2>1. \A i \in Ids : docker[i] # Absent => i = 1
    BY DEF Init
  <2>2. \A r \in RowIds : rows[r] # NoRow => r <= lastRow
    BY DEF Init, RowIds
  <2> QED BY <2>1, <2>2 DEF SyncInv, Distinct, Bounded
<1>2. IInv /\ SyncInv /\ [AllNext]_vars => SyncInv'
  <2> SUFFICES ASSUME IInv, SyncInv, [AllNext]_vars PROVE SyncInv'
    OBVIOUS
  <2>1. ASSUME NEW p \in Ops, Step(p) \/ DeployStep(p)
        PROVE  SyncInv'
    BY <2>1, StepDistinct, StepBounded DEF SyncInv, Distinct, Bounded
  <2>2. CASE UNCHANGED <<docker, rows, lastRow>>
    BY <2>2 DEF SyncInv, Distinct, Bounded
  <2>3. CASE \/ \E p \in Ops : LoseLock(p)
             \/ \E p \in Ops : DatabaseFails(p)
             \/ \E r \in RowIds : Expire(r)
             \/ Crash \/ UNCHANGED vars
    BY <2>2, <2>3 DEF LoseLock, DatabaseFails, Expire, Crash, vars, host, table
  <2> QED BY <2>1, <2>3 DEF AllNext, Next
<1> QED BY <1>1, <1>2, Invariant, PTL DEF AllSpec

(* The row a container's payload is written to.                            *)
Target(list, read, i) ==
  IF i \in S!New(list, read) THEN S!NewRowId(list, read, lastRow, i) ELSE S!Match(list, read, i)

LEMMA TargetWritten ==
  ASSUME NEW list, NEW read, NEW r \in RowIds
  PROVE  S!WrittenTo(list, read, lastRow, r) = {i \in S!Listed(list) : Target(list, read, i) = r}
<1>1. r # S!Unmatched
  BY DEF S!Unmatched, RowIds
<1> QED BY <1>1 DEF S!WrittenTo, Target, S!New

(* Two containers are written to one row only if it has the id of one and  *)
(* the name of the other.                                                  *)
LEMMA Collision ==
  ASSUME IInv, SyncInv, NEW i \in S!Listed(docker), NEW j \in S!Listed(docker) \ {i},
         Target(docker, rows, i) = Target(docker, rows, j), Target(docker, rows, i) \in RowIds
  PROVE  S!Shared(rows, docker, i)
<1> DEFINE N == S!New(docker, rows)
<1>1. /\ i \in Ids /\ docker[i] # Absent /\ j \in Ids /\ docker[j] # Absent /\ i # j
  BY DEF S!Listed
<1>2. ~(i \in N /\ j \in N)
  BY NewRowIds DEF Target
<1>3. lastRow \in Int /\ \A r \in RowIds : rows[r] # NoRow => ~(r > lastRow)
  BY DEF IInv, Parts, TableOK, SyncInv, Bounded, RowIds
<1>4. \A k \in S!Listed(docker) \ N :
        /\ S!Match(docker, rows, k) \in RowIds /\ rows[S!Match(docker, rows, k)] # NoRow
        /\ \/ rows[S!Match(docker, rows, k)].dockerId = k
           \/ rows[S!Match(docker, rows, k)].name = docker[k].name
  BY MatchIn DEF S!New
<1>5. i \notin N /\ j \notin N
  <2>1. \A k \in N : S!NewRowId(docker, rows, lastRow, k) > lastRow
    BY NewRowIds
  <2> QED BY <1>2, <1>3, <1>4, <2>1 DEF Target
<1>6. PICK r \in RowIds : /\ rows[r] # NoRow
                          /\ rows[r].dockerId = i \/ rows[r].name = docker[i].name
                          /\ rows[r].dockerId = j \/ rows[r].name = docker[j].name
  BY <1>4, <1>5 DEF Target
<1>7. docker[i].name # docker[j].name
  BY <1>1 DEF SyncInv, Distinct
<1> QED BY <1>1, <1>6, <1>7 DEF S!Shared

(* A sync that sees the host and the table as they are.                    *)
LEMMA CurrentShows ==
  ASSUME IInv, SyncInv, lastRow + Cardinality(S!New(docker, rows)) <= MaxRows
  PROVE  S!Shows(rows, S!Synced(docker, rows, lastRow), docker)
<1> DEFINE W(r) == S!WrittenTo(docker, rows, lastRow, r)
           t == S!Synced(docker, rows, lastRow)
<1>1. \A i \in S!Listed(docker) : Target(docker, rows, i) \in RowIds
  <2>1. \A i \in S!Listed(docker) \ S!New(docker, rows) : S!Match(docker, rows, i) \in RowIds
    BY MatchIn DEF S!New
  <2>2. ASSUME NEW i \in S!New(docker, rows)
        PROVE  S!NewRowId(docker, rows, lastRow, i) \in RowIds
    <3>1. PICK n \in Nat : n = Cardinality(S!New(docker, rows))
      BY NewCounted
    <3>2. lastRow \in Int /\ lastRow >= 1 /\ MaxRows \in Int
      BY ConstantsAssumption DEF IInv, Parts, TableOK, RowIds
    <3> QED BY <3>1, <3>2, NewRowIds DEF RowIds
  <2> QED BY <2>1, <2>2 DEF Target
<1>2. \A i \in S!Listed(docker) :
        S!Payload(docker, i) # NoRow /\ S!Says(S!Payload(docker, i), docker, i)
  <2> TAKE i \in S!Listed(docker)
  <2>1. i \in Ids /\ docker[i] \in Container
    BY DEF S!Listed, IInv, Parts, HostOK, Hosts
  <2>2. S!Payload(docker, i) \in Row
    BY <2>1 DEF S!Payload, S!Status, Container, Row
  <2>3. S!Payload(docker, i) # NoRow
    BY <2>2, ConstantsAssumption
  <2> QED BY <2>3 DEF S!Says, S!Payload, S!Status
<1>3. \A r \in RowIds : t[r] = IF W(r) = {} THEN NoRow ELSE S!Payload(docker, S!Oldest(W(r)))
  BY DEF S!Synced
<1>4. \A r \in RowIds : W(r) = {i \in S!Listed(docker) : Target(docker, rows, i) = r}
  BY TargetWritten
<1>5. \A r \in RowIds : W(r) # {} => S!Oldest(W(r)) \in W(r)
  BY OldestWritten
<1> HIDE DEF W, t
<1>6. ASSUME NEW i \in S!Listed(docker), ~S!Shared(rows, docker, i)
      PROVE  \E r \in RowIds : S!Says(t[r], docker, i)
  <2>1. PICK r \in RowIds : r = Target(docker, rows, i)
    BY <1>1
  <2>2. i \in W(r) /\ S!Oldest(W(r)) \in W(r)
    BY <1>4, <1>5, <2>1
  <2>3. S!Oldest(W(r)) = i
    BY <1>4, <1>6, <2>1, <2>2, Collision
  <2>4. t[r] = S!Payload(docker, i)
    BY <1>3, <2>2, <2>3
  <2> QED BY <1>2, <2>4
<1>7. \A r \in RowIds : t[r] # NoRow =>
        \E i \in S!Listed(docker) : Target(docker, rows, i) = r /\ S!Says(t[r], docker, i)
  BY <1>2, <1>3, <1>4, <1>5
<1>8. ASSUME NEW r \in RowIds, t[r] # NoRow, NEW s \in RowIds \ {r}, t[s] # NoRow
      PROVE  t[s].dockerId # t[r].dockerId
  BY <1>7, <1>8 DEF S!Says
<1> QED BY <1>6, <1>7, <1>8 DEF S!Shows, t

(* Only its own step takes a request from "apply", or a crash.             *)
LEMMA OthersWait ==
  ASSUME IInv, NEW p \in Ops, NEW q \in Ops \ {p}, Step(q) \/ DeployStep(q) \/ DatabaseFails(q)
  PROVE  op'[p] = op[p] \/ op' = Dead
<1>1. op \in [Ops -> OpState] /\ p # q
  BY Known
<1>2. \A step : Goto(q, step) => op'[p] = op[p]
  BY <1>1 DEF Goto
<1>3. CASE \/ Start(q) \/ Check(q) \/ Acquire(q) \/ Create(q) \/ Inspect(q) \/ Resolve(q) \/ Clear(q)
  BY <1>1, <1>2, <1>3 DEF Start, Check, Acquire, Create, Inspect, Resolve, Clear
<1>4. CASE \/ Launch(q) \/ Probe(q) \/ Rename(q) \/ Finalize(q) \/ Succeed(q) \/ Cleanup(q) \/ Verify(q)
  BY <1>1, <1>2, <1>4 DEF Launch, Probe, Rename, Finalize, Succeed, Cleanup, Verify, Recovered
<1>5. CASE \/ Relaunch(q) \/ Reverify(q) \/ RecordRow(q) \/ RecordFailure(q) \/ Release(q) \/ List(q)
           \/ Read(q) \/ Apply(q) \/ MatchTarget(q) \/ ClearDeleted(q) \/ Drop(q)
  BY <1>1, <1>2, <1>5 DEF Relaunch, Reverify, RecordRow, RecordFailure, Release, List, Read, Apply,
     MatchTarget, ClearDeleted, Drop, Recovered
<1>6. CASE DeployStep(q)
  BY <1>1, <1>2, <1>6 DEF DeployStep, Unvalidated, CheckName, Insert, Record, RecordHistory, Fail,
     Act, InspectState, Note
<1>7. CASE DatabaseFails(q)
  BY <1>1, <1>7 DEF DatabaseFails
<1> QED BY <1>3, <1>4, <1>5, <1>6, <1>7 DEF Step

(* A sync with current snapshots of host and table leaves a table that     *)
(* shows the host, after whatever any number of requests of any kind have  *)
(* done before it; it misses a container only if a row has the name of one *)
(* and the id of another (syncContainersForServers).                       *)
THEOREM SyncsShow == AllSpec => SyncShows
<1> DEFINE ShowsHost(p) ==
             /\ op[p].pc = "apply" /\ op'[p].pc \notin {"apply", "crashed"}
             /\ op[p].list = docker /\ op[p].known = rows
             /\ faults' = faults
             => S!Shows(rows, rows', docker)
<1>1. ASSUME IInv, SyncInv, [AllNext]_vars, NEW p \in Ops
      PROVE  ShowsHost(p)
  <2> SUFFICES ASSUME op[p].pc = "apply", op'[p].pc \notin {"apply", "crashed"},
                      op[p].list = docker, op[p].known = rows, faults' = faults
               PROVE  S!Shows(rows, rows', docker)
    OBVIOUS
  <2>1. op \in [Ops -> OpState] /\ op[p] \in OpState
    BY <1>1, Known
  <2>2. op' # Dead
    BY <2>1 DEF Dead, Working, OpState
  <2>3. ~UNCHANGED op
    OBVIOUS
  <2>4. ~\E q \in Ops : LoseLock(q)
    BY <2>1 DEF LoseLock, OpState
  <2>5. PICK q \in Ops : Step(q) \/ DeployStep(q) \/ DatabaseFails(q)
    BY <1>1, <2>2, <2>3, <2>4 DEF AllNext, Next, Expire, Crash, vars
  <2>6. q = p
    BY <1>1, <2>2, <2>5, OthersWait
  <2>10. ~DatabaseFails(p)
    <3>1. PICK n \in Nat : n = faults
      BY <1>1 DEF IInv, Parts, HostOK
    <3>2. n + 1 # n
      OBVIOUS
    <3> QED BY <3>1, <3>2 DEF DatabaseFails
  <2>7. Apply(p)
    <3>1. ~DeployStep(p)
      BY DEF DeployStep, Unvalidated, CheckName, Insert, Record, RecordHistory, Fail, Act,
         InspectState, Note, At
    <3> QED BY <2>5, <2>6, <2>10, <3>1 DEF Step, Start, Check, Acquire, Create, Inspect, Resolve, Clear,
           Launch, Probe, Rename, Finalize, Succeed, Cleanup, Verify, Relaunch, Reverify, RecordRow,
           RecordFailure, Release, List, Read, MatchTarget, ClearDeleted, Drop, At
  <2>8. S!Applicable(docker, rows, rows)
    BY MatchIn DEF S!Applicable
  <2>9. /\ lastRow + Cardinality(S!New(docker, rows)) <= MaxRows
        /\ rows' = S!Synced(docker, rows, lastRow)
    BY <2>7, <2>8 DEF Apply
  <2> QED BY <1>1, <2>9, CurrentShows
<1>2. ASSUME IInv, SyncInv, [AllNext]_vars
      PROVE  [\A p \in Ops : ShowsHost(p)]_vars
  BY <1>1, <1>2
<1> QED BY <1>2, SyncAlways, PTL DEF AllSpec, SyncShows

-----------------------------------------------------------------------------
(* Background jobs.                                                        *)
(* Where the runner is decides which states the job can be in.             *)
RunnerDecides ==
  /\ runner = "scheduled" => status \in {"queued", "cancelling"}
  /\ runner = "running" => status \in {"running", "cancelling"} /\ cancel
  /\ runner = "over" => status \in Terminal

(* Ids that follow one another, up to the last line written, and as many   *)
(* as are kept at least.                                                   *)
Newest(ids) ==
  /\ \A i \in 1..Len(ids) : ids[i] = nextId - 1 - Len(ids) + i
  /\ Len(ids) >= IF nextId - 1 <= MaxLogs THEN nextId - 1 ELSE MaxLogs

(* The kept entries are the newest, and every client that is subscribed, or *)
(* was until the server ended its stream, has them.                        *)
LogInv ==
  /\ nextId >= 1
  /\ Newest(logs)
  /\ \A s \in Streams : stream[s] \in {"open", "ended"} => Newest(got[s])
  /\ \A s \in Streams : stream[s] = "ended" => status \in Terminal

JobInv == JobTypeOK /\ RunnerDecides /\ CancelHonoured /\ LogInv

-----------------------------------------------------------------------------
LEMMA JobInvInit == JobInit => JobInv
<1> SUFFICES ASSUME JobInit PROVE JobInv
  OBVIOUS
<1>1. JobTypeOK
  <2>1. logs = <<>> /\ logs \in Seq(Nat) /\ Len(logs) = 0 /\ 0 <= MaxLogs
    BY LogAssumption DEF JobInit
  <2>2. stream \in [Streams -> {"none", "open", "ended", "closed"}] /\ got \in [Streams -> Seq(Nat)]
    BY DEF JobInit
  <2> QED BY <2>1, <2>2 DEF JobInit, JobTypeOK
<1>2. RunnerDecides /\ CancelHonoured
  BY DEF JobInit, RunnerDecides, CancelHonoured
<1>3. LogInv
  BY LogAssumption DEF JobInit, LogInv, Newest
<1> QED BY <1>1, <1>2, <1>3 DEF JobInv

(* Dropping the oldest entries leaves the newest.                          *)
LEMMA KeptIsNewest ==
  ASSUME NEW ids \in Seq(Nat), NEW n \in Nat,
         \A i \in 1..Len(ids) : ids[i] = n - Len(ids) + i,
         Len(ids) >= IF n <= MaxLogs THEN n ELSE MaxLogs
  PROVE  /\ Kept(ids) \in Seq(Nat) /\ Len(Kept(ids)) <= MaxLogs
         /\ \A i \in 1..Len(Kept(ids)) : Kept(ids)[i] = n - Len(Kept(ids)) + i
         /\ Len(Kept(ids)) >= IF n <= MaxLogs THEN n ELSE MaxLogs
<1>1. CASE Len(ids) <= MaxLogs
  BY <1>1 DEF Kept
<1>2. CASE Len(ids) > MaxLogs
  <2> DEFINE from == Len(ids) - MaxLogs + 1
             new == SubSeq(ids, from, Len(ids))
  <2>1. Kept(ids) = new /\ from \in 1..Len(ids) /\ MaxLogs \in Nat /\ Len(ids) \in Nat
    BY <1>2, LogAssumption DEF Kept
  <2>2. new \in Seq(Nat) /\ Len(new) = MaxLogs
    BY <2>1
  <2>3. \A i \in 1..MaxLogs : new[i] = ids[from + i - 1]
    BY <2>1
  <2>4. \A i \in 1..MaxLogs : new[i] = n - MaxLogs + i
    BY <2>1, <2>3
  <2> QED BY <2>1, <2>2, <2>4
<1> QED BY <1>1, <1>2, LogAssumption

(* A line more: it is the newest, here and with every open client.         *)
LEMMA LogLineInv ==
  ASSUME JobTypeOK, LogInv, LogLine, stream' = stream
  PROVE  /\ nextId' \in Nat /\ nextId' >= 1
         /\ logs' \in Seq(Nat) /\ Len(logs') <= MaxLogs
         /\ got' \in [Streams -> Seq(Nat)]
         /\ Newest(logs)'
         /\ \A s \in Streams : stream[s] = "open" => Newest(got[s])'
<1> USE LogAssumption
<1>1. nextId \in Nat /\ nextId >= 1 /\ nextId' = nextId + 1 /\ logs \in Seq(Nat)
  BY DEF JobTypeOK, LogInv, LogLine
<1>2. ASSUME NEW ids \in Seq(Nat), Newest(ids)
      PROVE  LET more == Append(ids, nextId) IN
               /\ more \in Seq(Nat)
               /\ \A i \in 1..Len(more) : more[i] = nextId - Len(more) + i
               /\ Len(more) >= IF nextId <= MaxLogs THEN nextId ELSE MaxLogs
  <2> DEFINE more == Append(ids, nextId)
  <2>1. more \in Seq(Nat) /\ Len(more) = Len(ids) + 1 /\ Len(ids) \in Nat
    BY <1>1
  <2>2. \A i \in 1..Len(ids) : more[i] = nextId - 1 - Len(ids) + i
    BY <1>1, <1>2 DEF Newest
  <2>3. more[Len(ids) + 1] = nextId
    BY <1>1
  <2>4. Len(more) >= IF nextId <= MaxLogs THEN nextId ELSE MaxLogs
    BY <1>1, <1>2, <2>1 DEF Newest
  <2>5. \A i \in 1..Len(more) : more[i] = nextId - Len(more) + i
    BY <1>1, <2>1, <2>2, <2>3
  <2> QED BY <2>1, <2>4, <2>5
<1>3. /\ logs' \in Seq(Nat) /\ Len(logs') <= MaxLogs
      /\ \A i \in 1..Len(logs') : logs'[i] = nextId - Len(logs') + i
      /\ Len(logs') >= IF nextId <= MaxLogs THEN nextId ELSE MaxLogs
  <2>1. Newest(logs)
    BY DEF LogInv
  <2>2. logs' = Kept(Append(logs, nextId))
    BY DEF LogLine
  <2> QED BY <1>1, <1>2, <2>1, <2>2, KeptIsNewest
<1>4. Newest(logs)'
  BY <1>1, <1>3 DEF Newest
<1>5. got' = [s \in Streams |-> IF stream[s] = "open" THEN Append(got[s], nextId) ELSE got[s]]
  BY DEF LogLine
<1>6. got' \in [Streams -> Seq(Nat)]
  BY <1>1, <1>5 DEF JobTypeOK
<1>7. ASSUME NEW s \in Streams, stream[s] = "open" PROVE Newest(got[s])'
  <2>1. got[s] \in Seq(Nat) /\ Newest(got[s]) /\ got'[s] = Append(got[s], nextId)
    BY <1>5, <1>7 DEF JobTypeOK, LogInv
  <2>2. /\ \A i \in 1..Len(got'[s]) : got'[s][i] = nextId - Len(got'[s]) + i
        /\ Len(got'[s]) >= IF nextId <= MaxLogs THEN nextId ELSE MaxLogs
        /\ got'[s] \in Seq(Nat)
    BY <1>2, <2>1, <1>1, KeptIsNewest
  <2>3. nextId' - 1 = nextId
    BY <1>1
  <2> QED BY <2>2, <2>3 DEF Newest
<1> QED BY <1>1, <1>3, <1>4, <1>6, <1>7

(* A step that writes a line while the job has not ended keeps the         *)
(* invariant of the log.                                                   *)
LEMMA LogStep ==
  ASSUME JobInv, LogLine, stream' = stream, runner # "over"
  PROVE  /\ LogInv' /\ nextId' \in Nat
         /\ logs' \in Seq(Nat) /\ Len(logs') <= MaxLogs
         /\ got' \in [Streams -> Seq(Nat)]
<1>1. status \notin Terminal
  BY DEF JobInv, JobTypeOK, RunnerDecides, Terminal
<1>2. \A s \in Streams : stream[s] # "ended"
  BY <1>1 DEF JobInv, LogInv
<1>3. JobTypeOK /\ LogInv
  BY DEF JobInv
<1>4. /\ nextId' \in Nat /\ nextId' >= 1
      /\ logs' \in Seq(Nat) /\ Len(logs') <= MaxLogs
      /\ got' \in [Streams -> Seq(Nat)]
      /\ Newest(logs)'
      /\ \A s \in Streams : stream[s] = "open" => Newest(got[s])'
  BY <1>3, LogLineInv
<1> QED BY <1>2, <1>4 DEF LogInv

(* A step that leaves the log and the clients alone keeps it too.          *)
LEMMA LogUnchanged ==
  ASSUME LogInv, UNCHANGED <<nextId, logs, stream, got>>,
         status \in Terminal => status' = status
  PROVE  LogInv'
  BY DEF LogInv, Newest

-----------------------------------------------------------------------------
(* Every step keeps the invariant.                                         *)
LEMMA JobInvStep == JobInv /\ [JobNext]_jobVars => JobInv'
<1> SUFFICES ASSUME JobInv, [JobNext]_jobVars PROVE JobInv'
  OBVIOUS
<1>0. JobTypeOK /\ RunnerDecides /\ CancelHonoured /\ LogInv
  BY DEF JobInv
<1>1. CASE Begin
  <2>1. LogInv' /\ JobTypeOK'
    <3>1. LogLine /\ stream' = stream /\ runner # "over"
      BY <1>1 DEF Begin
    <3> QED BY <1>0, <1>1, <3>1, LogStep DEF Begin, JobTypeOK, Terminal
  <2>2. RunnerDecides' /\ CancelHonoured'
    BY <1>0, <1>1 DEF Begin, RunnerDecides, CancelHonoured, Terminal, JobTypeOK
  <2> QED BY <2>1, <2>2 DEF JobInv
<1>2. CASE Output
  <2>1. LogInv' /\ JobTypeOK'
    <3>1. LogLine /\ stream' = stream /\ runner # "over"
      BY <1>2 DEF Output
    <3> QED BY <1>0, <1>2, <3>1, LogStep DEF Output, JobTypeOK, Terminal
  <2>2. RunnerDecides' /\ CancelHonoured'
    BY <1>0, <1>2 DEF Output, RunnerDecides, CancelHonoured
  <2> QED BY <2>1, <2>2 DEF JobInv
<1>3. CASE Return
  <2>1. status' \in Terminal /\ (status = "cancelling" => status' = "cancelled")
    BY <1>3 DEF Return, Outcome, Terminal
  <2>2. LogInv' /\ JobTypeOK'
    <3>1. LogLine /\ stream' = stream /\ runner # "over"
      BY <1>3 DEF Return
    <3>2. runner' = "over" /\ UNCHANGED <<known, cancel, aborted, asked, stream>>
      BY <1>3 DEF Return
    <3> QED BY <1>0, <2>1, <3>1, <3>2, LogStep DEF JobTypeOK, Terminal
  <2>3. RunnerDecides' /\ CancelHonoured'
    BY <1>0, <1>3, <2>1 DEF Return, RunnerDecides, CancelHonoured, Terminal
  <2> QED BY <2>2, <2>3 DEF JobInv
<1>4. CASE Cancel
  <2>1. CASE Cancellable
    <3>1. LogLine /\ UNCHANGED <<known, runner, cancel, stream>>
          /\ status' = "cancelling" /\ asked' = TRUE /\ aborted' = cancel
      BY <1>4, <2>1 DEF Cancel
    <3>2. runner # "over"
      BY <1>0, <2>1 DEF Cancellable, RunnerDecides, Terminal
    <3>3. LogInv' /\ JobTypeOK'
      BY <1>0, <3>1, <3>2, LogStep DEF JobTypeOK, Terminal
    <3>4. RunnerDecides' /\ CancelHonoured'
      BY <1>0, <3>1, <3>2 DEF RunnerDecides, CancelHonoured
    <3> QED BY <3>3, <3>4 DEF JobInv
  <2>2. CASE ~Cancellable
    <3>1. /\ UNCHANGED <<status, aborted, nextId, logs, got, known, runner, cancel, stream>>
          /\ asked' = (asked \/ status \in {"cancelling", "cancelled"})
      BY <1>4, <2>2 DEF Cancel
    <3>2. LogInv' /\ JobTypeOK'
      BY <1>0, <3>1, LogUnchanged DEF JobTypeOK
    <3>3. RunnerDecides' /\ CancelHonoured'
      BY <1>0, <3>1 DEF RunnerDecides, CancelHonoured
    <3> QED BY <3>2, <3>3 DEF JobInv
  <2> QED BY <2>1, <2>2
<1>5. CASE Prune
  <2>1. LogInv' /\ JobTypeOK'
    BY <1>0, <1>5, LogUnchanged DEF Prune, JobTypeOK
  <2>2. RunnerDecides' /\ CancelHonoured'
    BY <1>0, <1>5 DEF Prune, RunnerDecides, CancelHonoured
  <2> QED BY <2>1, <2>2 DEF JobInv
<1>6. ASSUME NEW s \in Streams, Open(s) PROVE JobInv'
  <2>1. /\ stream' = [stream EXCEPT ![s] = "open"] /\ got' = [got EXCEPT ![s] = logs]
        /\ UNCHANGED <<status, known, runner, cancel, aborted, asked, nextId, logs>>
    BY <1>6 DEF Open
  <2>2. JobTypeOK'
    BY <1>0, <2>1 DEF JobTypeOK
  <2>3. LogInv'
    <3>1. Newest(logs)' /\ nextId' >= 1
      BY <1>0, <2>1 DEF LogInv, Newest
    <3>2. ASSUME NEW t \in Streams, stream'[t] \in {"open", "ended"} PROVE Newest(got[t])'
      <4>1. CASE t = s
        <5>1. got'[t] = logs'
          BY <1>0, <2>1, <4>1 DEF JobTypeOK
        <5> QED BY <3>1, <5>1 DEF Newest
      <4>2. CASE t # s
        <5>1. got'[t] = got[t] /\ stream'[t] = stream[t]
          BY <1>0, <2>1, <4>2 DEF JobTypeOK
        <5> QED BY <1>0, <2>1, <3>2, <5>1 DEF LogInv, Newest
      <4> QED BY <4>1, <4>2
    <3>3. \A t \in Streams : stream'[t] = "ended" => status' \in Terminal
      BY <1>0, <2>1 DEF LogInv, JobTypeOK
    <3> QED BY <3>1, <3>2, <3>3 DEF LogInv
  <2>4. RunnerDecides' /\ CancelHonoured'
    BY <1>0, <2>1 DEF RunnerDecides, CancelHonoured
  <2> QED BY <2>2, <2>3, <2>4 DEF JobInv
<1>7. ASSUME NEW s \in Streams, End(s) \/ Close(s) PROVE JobInv'
  <2>1. /\ stream[s] = "open" /\ \E e \in {"ended", "closed"} :
             /\ stream' = [stream EXCEPT ![s] = e]
             /\ e = "ended" => status \in Terminal
        /\ UNCHANGED <<status, known, runner, cancel, aborted, asked, nextId, logs, got>>
    BY <1>7 DEF End, Close
  <2>2. JobTypeOK'
    BY <1>0, <2>1 DEF JobTypeOK
  <2>3. LogInv'
    BY <1>0, <2>1 DEF LogInv, Newest, JobTypeOK
  <2>4. RunnerDecides' /\ CancelHonoured'
    BY <1>0, <2>1 DEF RunnerDecides, CancelHonoured
  <2> QED BY <2>2, <2>3, <2>4 DEF JobInv
<1>8. CASE UNCHANGED jobVars
  <2>1. LogInv' /\ JobTypeOK'
    BY <1>0, <1>8, LogUnchanged DEF jobVars, JobTypeOK
  <2>2. RunnerDecides' /\ CancelHonoured'
    BY <1>0, <1>8 DEF jobVars, RunnerDecides, CancelHonoured
  <2> QED BY <2>1, <2>2 DEF JobInv
<1> QED BY <1>1, <1>2, <1>3, <1>4, <1>5, <1>6, <1>7, <1>8 DEF JobNext

(* The invariant holds in every reachable state.                           *)
THEOREM JobInvariant == JobSpec => []JobInv
  BY JobInvInit, JobInvStep, PTL DEF JobSpec

(* The variables of a job have their types; the log is never longer than   *)
(* its limit (MAX_LOGS_PER_JOB).                                           *)
THEOREM JobTypeCorrect == JobSpec => []JobTypeOK
<1>1. JobInv => JobTypeOK
  BY DEF JobInv
<1> QED BY <1>1, JobInvariant, PTL

(* A cancellation that was confirmed is honoured (POST /jobs/:jobId/cancel). *)
THEOREM CancellationHolds == JobSpec => []CancelHonoured
<1>1. JobInv => CancelHonoured
  BY DEF JobInv
<1> QED BY <1>1, JobInvariant, PTL

(* A stream that the server ended has carried the whole log, for any       *)
(* number of lines, kept entries and clients (GET /jobs/:jobId/stream).    *)
THEOREM StreamsComplete == JobSpec => []StreamComplete
<1>1. JobInv => StreamComplete
  BY DEF JobInv, LogInv, Newest, StreamComplete
<1> QED BY <1>1, JobInvariant, PTL

(* A finished job keeps its outcome: nothing that happens afterwards, late *)
(* cancellations included, changes it.                                     *)
THEOREM OutcomeIsFinal == JobSpec => OutcomeFinal
<1>1. JobInv /\ [JobNext]_jobVars => [(status \in Terminal) => status' = status]_jobVars
  <2> SUFFICES ASSUME JobInv, JobNext, status \in Terminal PROVE status' = status
    BY DEF jobVars
  <2>1. runner = "over" /\ ~Cancellable
    BY DEF JobInv, JobTypeOK, RunnerDecides, Terminal, Cancellable
  <2> QED BY <2>1 DEF JobNext, Begin, Output, Return, Cancel, Prune, Open, End, Close
<1> QED BY <1>1, JobInvariant, PTL DEF JobSpec, OutcomeFinal
=============================================================================
