----------------------------- MODULE MCBalancer -----------------------------
(***************************************************************************)
(* Four identical nodes (8 CPU units, 16 model bytes = 8 MiB, one GPU) and *)
(* five pods: two CPU-heavy, two memory-heavy of which one takes a GPU,    *)
(* and one that is not migratable.  Where the pods sit decides which nodes *)
(* lie left and right of the pivot.                                        *)
(***************************************************************************)
EXTENDS Balancer

MCScalarNames == {"gpu"}

MCPodSpec ==
  [p \in Pods |->
     CASE p = "c1" -> [containers |-> <<[cpu |-> 3, memory |-> 2]>>, initContainers |-> <<>>]
       [] p = "c2" -> [containers |-> <<[cpu |-> 3, memory |-> 2]>>, initContainers |-> <<>>]
       [] p = "m1" -> [containers |-> <<[cpu |-> 1, memory |-> 8]>>, initContainers |-> <<>>]
       [] p = "g1" -> [containers |-> <<[cpu |-> 1, memory |-> 8, gpu |-> 1]>>, initContainers |-> <<>>]
       [] p = "d1" -> [containers |-> <<[cpu |-> 1, memory |-> 2]>>, initContainers |-> <<>>]]

MCNodeAllocatable == [n \in Nodes |-> [cpu |-> 8, mem |-> 16, sr |-> [gpu |-> 1]]]

MCNodeOrder == <<"n1", "n2", "n3", "n4">>
MCPodOrder == <<"c1", "c2", "g1", "m1", "d1">>

=============================================================================
