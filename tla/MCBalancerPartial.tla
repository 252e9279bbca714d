-------------------------- MODULE MCBalancerPartial --------------------------
(***************************************************************************)
(* Four identical nodes (8 CPU units, 16 model bytes = 8 MiB) and five     *)
(* pods: a CPU-heavy and a memory-heavy migratable pod, and three pods     *)
(* that are not migratable, two of which take almost all of a node's       *)
(* memory.  The pod listing of any two nodes may fail, so BalanceWorkload  *)
(* may search a snapshot whose pivot is far from the cluster's.            *)
(***************************************************************************)
EXTENDS Balancer

MCScalarNames == {"gpu"}

MCPodSpec ==
  [p \in Pods |->
     CASE p = "c1" -> [containers |-> <<[cpu |-> 3, memory |-> 2]>>, initContainers |-> <<>>]
       [] p = "m1" -> [containers |-> <<[cpu |-> 1, memory |-> 8]>>, initContainers |-> <<>>]
       [] p = "d1" -> [containers |-> <<[cpu |-> 1, memory |-> 2]>>, initContainers |-> <<>>]
       [] p \in {"y1", "y2"} -> [containers |-> <<[cpu |-> 1, memory |-> 14]>>, initContainers |-> <<>>]]

MCNodeAllocatable == [n \in Nodes |-> [cpu |-> 8, mem |-> 16, sr |-> NoScalars]]

MCNodeOrder == <<"n1", "n2", "n3", "n4">>
MCPodOrder == <<"c1", "m1", "d1", "y1", "y2">>

\* Every listing succeeds, or those of two nodes fail.
MCTwoUnlisted == {Nodes} \cup {l \in SUBSET Nodes : Cardinality(l) = 2}
=============================================================================
