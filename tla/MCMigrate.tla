------------------------------ MODULE MCMigrate ------------------------------
(***************************************************************************)
(* A bare pod "b" on n1, a controller "s" with two replicas on n2 and n1,  *)
(* and a job's pod "j" on n2.  The calls: the balancer's swap of b and     *)
(* s's pod, the placement's single migration of s's pod, and of the job's *)
(* pod.  Each pod object of a workload is <<workload, generation>>.       *)
(***************************************************************************)
EXTENDS Migrate, TLC

MCWorkloads == {"b", "s", "j"}
MCKind == [w \in MCWorkloads |-> CASE w = "b" -> "bare" [] w = "s" -> "scaled" [] OTHER -> "job"]
MCNodes == {"n1", "n2"}
MCInitReplicas == [w \in {"s"} |-> 2]
MCInitNode == (<<"b", 0>> :> "n1") @@ (<<"s", 0>> :> "n2") @@ (<<"s", 1>> :> "n1") @@ (<<"j", 0>> :> "n2")
MCCalls == {[op |-> "swap", a |-> <<"b", 0>>, b |-> <<"s", 0>>],
            [op |-> "move", a |-> <<"s", 0>>],
            [op |-> "move", a |-> <<"j", 0>>]}
MCFailing == {"get", "update", "delete", "create"}

=============================================================================
