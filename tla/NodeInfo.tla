------------------------------ MODULE NodeInfo ------------------------------
(***************************************************************************)
(* The NodeInfo value of capacity/node_info.go (component B) and its       *)
(* methods, written as operators from one NodeInfo record to the next.     *)
(* The Go methods mutate their receiver; here each returns the receiver's  *)
(* new value, and RemovePod also returns its error outcome.                *)
(*                                                                         *)
(* The Generation field and the process-global counter behind it are kept  *)
(* beside the record, in NodeInfoSpec, so other modules do not carry them. *)
(***************************************************************************)
EXTENDS Resource, SequencesExt

CONSTANTS
  Nodes,            \* node names
  NoNode,           \* the nil *v1.Node of a NodeInfo without SetNode
  NodeAllocatable,  \* node -> [cpu, mem, sr]: NewResource(node.Status.Allocatable)
  AffinityPods,     \* pods for which podWithAffinity holds
  AntiAffinityPods  \* pods for which podWithRequiredAntiAffinity holds

ZeroResource == [cpu |-> 0, mem |-> 0, sr |-> NoScalars]

\* NewNodeInfo(): an empty NodeInfo.
NewNodeInfo ==
  [node |-> NoNode, pods |-> <<>>, podsWithAffinity |-> <<>>,
   podsWithRequiredAntiAffinity |-> <<>>,
   requested |-> ZeroResource, nonZeroRequested |-> ZeroResource,
   allocatable |-> ZeroResource, available |-> ZeroResource]

\* SetNode: Allocatable and Available both become the node's allocatable.
SetNode(n, node) ==
  [n EXCEPT !.node = node,
            !.allocatable = NodeAllocatable[node],
            !.available = NodeAllocatable[node]]

\* AddPodInfo / AddPod.
AddPod(n, p) ==
  LET r == CalculateResource(p) IN
  [n EXCEPT
    !.requested = [cpu |-> @.cpu + r.res.cpu, mem |-> @.mem + r.res.mem,
                   sr |-> ScalarAdd(@.sr, r.res.sr)],
    !.nonZeroRequested = [cpu |-> @.cpu + r.non0CPU, mem |-> @.mem + r.non0Mem,
                          sr |-> ScalarAdd(@.sr, r.res.sr)],
    !.available = [cpu |-> @.cpu - r.non0CPU, mem |-> @.mem - r.non0Mem,
                   sr |-> ScalarSub(@.sr, r.res.sr)],
    !.pods = Append(@, p),
    !.podsWithAffinity = IF p \in AffinityPods THEN Append(@, p) ELSE @,
    !.podsWithRequiredAntiAffinity = IF p \in AntiAffinityPods THEN Append(@, p) ELSE @]

\* A variant of removeFromSlice that drops the last entry, whichever
\* entry matched.
removeLastFromSlice(s, k) ==
  IF FirstIndex({i \in DOMAIN s : s[i] = k}) = 0 THEN s ELSE SubSeq(s, 1, Len(s) - 1)

\* removeFromSlice: the first entry with key k is overwritten by the last
\* entry and the slice shortened by one; no match leaves it unchanged.
removeFromSlice(s, k) ==
  LET i == FirstIndex({j \in DOMAIN s : s[j] = k}) IN
  IF i = 0 THEN s ELSE SubSeq([s EXCEPT ![i] = s[Len(s)]], 1, Len(s) - 1)

(***************************************************************************)
(* RemovePod: the affinity subsets are pruned first; then, if the pod is   *)
(* in Pods, it is removed and its CPU and memory and its requested scalar  *)
(* resources are subtracted (the scalar parts of NonZeroRequested and      *)
(* Available are not touched).  A pod that is not found yields an error    *)
(* built from n.node.Name, which dereferences nil when the NodeInfo has no *)
(* node: that outcome is "panic".                                          *)
(***************************************************************************)
RemovePod(n, p) ==
  LET n1 == [n EXCEPT
               !.podsWithAffinity = IF p \in AffinityPods THEN removeFromSlice(@, p) ELSE @,
               !.podsWithRequiredAntiAffinity =
                   IF p \in AntiAffinityPods THEN removeFromSlice(@, p) ELSE @]
      r == CalculateResource(p)
  IN IF p \in ToSet(n.pods)
     THEN [status |-> "ok",
           ni |-> [n1 EXCEPT
                    !.pods = removeFromSlice(@, p),
                    !.requested = [cpu |-> @.cpu - r.res.cpu, mem |-> @.mem - r.res.mem,
                                   sr |-> ScalarSub(@.sr, r.res.sr)],
                    !.nonZeroRequested = [@ EXCEPT !.cpu = @ - r.non0CPU, !.mem = @ - r.non0Mem],
                    !.available = [@ EXCEPT !.cpu = @ + r.non0CPU, !.mem = @ + r.non0Mem]]]
     ELSE [status |-> IF n.node = NoNode THEN "panic" ELSE "notfound", ni |-> n1]

\* The NodeInfo that GetSystemSnapshot builds for a node from its pod list.
BuildNodeInfo(node, podList) ==
  FoldLeft(AddPod, SetNode(NewNodeInfo, node), podList)

=============================================================================
