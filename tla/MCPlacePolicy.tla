---------------------------- MODULE MCPlacePolicy ----------------------------
(***************************************************************************)
(* Three nodes of 10 CPU units and 16 model bytes (8 MiB), one GPU each.  *)
(* Pods p (7 CPU) and g (8 CPU and a GPU) wait to be placed; the others  *)
(* are running pods of 2 to 7 CPU.  Each configuration picks its pods.   *)
(***************************************************************************)
EXTENDS PlacePolicy

MCScalarNames == {"gpu"}

Req(cpu, mem) == [containers |-> <<[cpu |-> cpu, memory |-> mem]>>, initContainers |-> <<>>]

MCPodSpec ==
  [q \in Pods |->
     CASE q = "p" -> Req(7, 4)
       [] q = "v" -> Req(4, 2)
       [] q = "w" -> Req(5, 2)
       [] q = "x" -> Req(6, 2)
       [] q = "d" -> Req(3, 2)
       [] q = "g" -> [containers |-> <<[cpu |-> 8, memory |-> 4, gpu |-> 1]>>, initContainers |-> <<>>]
       [] q = "a" -> Req(4, 2)
       [] q = "b" -> Req(3, 2)
       [] q = "c" -> Req(2, 2)
       [] q = "e" -> Req(8, 4)
       [] q = "m" -> Req(7, 6)
       [] q = "f" -> Req(4, 3)
       [] q = "y" -> Req(6, 6)
       [] q = "h" -> [containers |-> <<[cpu |-> 3, memory |-> 2, gpu |-> 1]>>, initContainers |-> <<>>]]

MCNodeAllocatable == [n \in Nodes |-> [cpu |-> 10, mem |-> 16, sr |-> [gpu |-> 1]]]

MCNodeOrder == <<"n1", "n2", "n3">>
MCNodeOrder2 == <<"n1", "n2">>
MCPodOrder == <<"v", "w", "x", "d", "p">>
MCPodOrder2 == <<"a", "b", "c", "d", "p", "g">>
MCPodOrder3 == <<"d", "w", "m", "x", "a", "e">>
MCPodOrder5 == <<"f", "h", "y", "x", "a", "e">>
MCAdmits == Pods \X Nodes
MCPriority == [q \in Pods |-> 0]

=============================================================================
