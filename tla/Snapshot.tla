------------------------------ MODULE Snapshot ------------------------------
(***************************************************************************)
(* The cluster as the strategy reads it (capacity/system.go): a binding   *)
(* of pods to nodes, from which GetSystemSnapshot builds one NodeInfo per *)
(* node of the `nodes` argument, in that order.                           *)
(***************************************************************************)
EXTENDS NodeInfo

CONSTANTS
  NodeOrder,  \* the `nodes` argument: a sequence of the node names
  PodOrder    \* the order in which the API lists pods

ASSUME NodeOrder \in Seq(Nodes) /\ Len(NodeOrder) >= 2

N == Len(NodeOrder)

\* ListPodsOnANode: the pods bound to the node, in listing order.
PodsOn(pn, node) == KeepIn(PodOrder, {p \in Pods : pn[p] = node})

(***************************************************************************)
(* GetSystemSnapshot: for every node, in order, ListPodsOnANode; a node    *)
(* whose listing fails is skipped (`continue`), the others get NewNodeInfo, *)
(* SetNode, then AddPod for every pod.  `listed` is the set of nodes whose *)
(* listing succeeds in this call.                                          *)
(***************************************************************************)
GetSystemSnapshotOf(pn, listed) ==
  LET order == KeepIn(NodeOrder, listed) IN
  [i \in 1..Len(order) |-> BuildNodeInfo(order[i], PodsOn(pn, order[i]))]

\* The snapshot when every listing succeeds: the cluster as it is.
GetSystemSnapshot(pn) == [i \in 1..N |-> BuildNodeInfo(NodeOrder[i], PodsOn(pn, NodeOrder[i]))]

\* The scheduler binds a pod only where the real requests of the node's
\* pods fit its allocatable capacity.
NodeFits(pn, node) ==
  LET n == BuildNodeInfo(node, PodsOn(pn, node)) IN
  /\ n.requested.cpu <= n.allocatable.cpu
  /\ n.requested.mem <= n.allocatable.mem
  /\ \A k \in DOMAIN n.requested.sr : n.requested.sr[k] <= Get(n.allocatable.sr, k)
Fits(pn) == \A node \in Nodes : NodeFits(pn, node)

=============================================================================
