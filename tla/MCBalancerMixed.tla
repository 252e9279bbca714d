--------------------------- MODULE MCBalancerMixed ---------------------------
(***************************************************************************)
(* Four nodes of different shapes, so that empty nodes already lie on both *)
(* sides of the pivot: free CPU units per MiB of 0.2, 0.8, 1.5 and 3.  Two *)
(* migratable pods, one CPU-heavy and one memory-heavy, and one pod that   *)
(* is not migratable.                                                      *)
(***************************************************************************)
EXTENDS Balancer

MCScalarNames == {"gpu"}

MCPodSpec ==
  [p \in Pods |->
     CASE p = "c1" -> [containers |-> <<[cpu |-> 2, memory |-> 2]>>, initContainers |-> <<>>]
       [] p = "m1" -> [containers |-> <<[cpu |-> 1, memory |-> 4]>>, initContainers |-> <<>>]
       [] p = "d1" -> [containers |-> <<[cpu |-> 1, memory |-> 2]>>, initContainers |-> <<>>]]

MCNodeAllocatable ==
  [n \in Nodes |->
     CASE n = "n1" -> [cpu |-> 1, mem |-> 10, sr |-> NoScalars]
       [] n = "n2" -> [cpu |-> 4, mem |-> 10, sr |-> NoScalars]
       [] n = "n3" -> [cpu |-> 3, mem |-> 4, sr |-> NoScalars]
       [] n = "n4" -> [cpu |-> 6, mem |-> 4, sr |-> NoScalars]]

MCNodeOrder == <<"n1", "n2", "n3", "n4">>
MCPodOrder == <<"c1", "m1", "d1">>
=============================================================================
