---------------------------- MODULE ScaleProtocol ----------------------------
(***************************************************************************)
(* What the migration executor promises about the Scale subresource of a  *)
(* pod's controller (ReplicationController, ReplicaSet or Deployment):    *)
(* it raises spec.replicas by one, and later lowers it by one, at most one *)
(* raise outstanding per controller.  Any other writer (a user, an        *)
(* autoscaler) may set the scale to any value at any time, and the        *)
(* executor's writes must keep that value.                                 *)
(***************************************************************************)
EXTENDS Naturals

CONSTANTS
  Scaled,         \* the controllers with a Scale subresource
  InitReplicas    \* controller -> spec.replicas at the start

VARIABLES
  replicas,       \* controller -> spec.replicas
  surged          \* controllers raised by the executor and not yet lowered

abs == <<replicas, surged>>

Init == replicas = InitReplicas /\ surged = {}

\* The executor's "+1" before it removes a pod.
ScaleUp(w) ==
  /\ w \notin surged
  /\ replicas' = [replicas EXCEPT ![w] = @ + 1]
  /\ surged' = surged \cup {w}

\* The executor's "-1" once the pod is gone.
ScaleDown(w) ==
  /\ w \in surged
  /\ replicas' = [replicas EXCEPT ![w] = @ - 1]
  /\ surged' = surged \ {w}

\* Another writer sets the scale of one controller.
Write(w) ==
  /\ replicas'[w] \in Nat
  /\ replicas' = [replicas EXCEPT ![w] = replicas'[w]]
  /\ UNCHANGED surged

Next == \E w \in Scaled : ScaleUp(w) \/ ScaleDown(w) \/ Write(w)

\* The safety part, and the promise that every raise is undone.
SafetySpec == Init /\ [][Next]_abs
Spec == SafetySpec /\ WF_abs(\E w \in Scaled : ScaleDown(w))

=============================================================================
