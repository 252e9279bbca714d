--------------------------- MODULE MCNodeInfoSpec ---------------------------
(***************************************************************************)
(* A node with 2 CPU units, 8 model bytes of memory and one GPU, and three *)
(* pods: one with explicit requests, one without requests that takes the   *)
(* non-zero defaults and a GPU, one whose init container dominates.        *)
(***************************************************************************)
EXTENDS NodeInfoSpec

MCScalarNames == {"gpu"}

MCPodSpec ==
  [p \in Pods |->
     CASE p = "p1" -> [containers |-> <<[cpu |-> 1, memory |-> 2]>>, initContainers |-> <<>>]
       [] p = "p2" -> [containers |-> <<[gpu |-> 1]>>, initContainers |-> <<>>]
       [] p = "p3" -> [containers |-> <<[cpu |-> 1], [memory |-> 1]>>,
                       initContainers |-> <<[cpu |-> 3, memory |-> 4]>>]]

\* The objects are interchangeable: none is named by Init or an action.
ObjectSymmetry == Permutations(Objects)

MCNodeAllocatable == [n \in Nodes |-> [cpu |-> 4, mem |-> 8, sr |-> [gpu |-> 1]]]
=============================================================================
