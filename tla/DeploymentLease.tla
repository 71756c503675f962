-------------------------- MODULE DeploymentLease --------------------------
(***************************************************************************)
(* What the deployment lock promises to the operations that take it        *)
(* (rollback, Git rebuild, app-install rebuild): a container has at most   *)
(* one operation that may still write its outcome, and an operation writes *)
(* its outcome only while it is that one.  Nothing here speaks of tokens,  *)
(* expiry times or heartbeats; DeploymentLock shows how they keep the      *)
(* promise.                                                                *)
(***************************************************************************)
CONSTANTS Ops, Containers, NoOp

VARIABLES
  holder,  \* holder[c]: the operation that holds container c, or NoOp
  writing  \* the operations that are writing their outcome

leaseVars == <<holder, writing>>

LeaseInit == /\ holder = [c \in Containers |-> NoOp]
             /\ writing = {}

Holds(p, c) == holder[c] = p

(* A container nobody holds is given to an operation that holds nothing.   *)
Grant(p, c) == /\ holder[c] = NoOp
               /\ \A d \in Containers : ~Holds(p, d)
               /\ holder' = [holder EXCEPT ![c] = p]
               /\ UNCHANGED writing

(* A holder starts to write its outcome, and finishes writing while it is  *)
(* still the holder.                                                       *)
StartWriting(p) == /\ \E c \in Containers : Holds(p, c)
                   /\ p \notin writing
                   /\ writing' = writing \cup {p}
                   /\ UNCHANGED holder

(* The operation gives the container up: it has written its outcome, it    *)
(* was told that it lost the lock, or it is dead.                          *)
Drop(p, c) == /\ Holds(p, c)
              /\ holder' = [holder EXCEPT ![c] = NoOp]
              /\ writing' = writing \ {p}

(* The container is removed with everything that refers to it.             *)
Remove(c) == /\ holder' = [holder EXCEPT ![c] = NoOp]
             /\ writing' = writing \ {holder[c]}

LeaseNext == \/ \E p \in Ops : StartWriting(p)
             \/ \E p \in Ops, c \in Containers : Grant(p, c) \/ Drop(p, c)
             \/ \E c \in Containers : Remove(c)

LeaseSpec == LeaseInit /\ [][LeaseNext]_leaseVars
=============================================================================
