----------------------------- MODULE PlacePolicy -----------------------------
(***************************************************************************)
(* The place policy (place.go: PlacePolicy and PlaceWorkload; the place  *)
(* branch of cmd/k8s-client/defragment.go) running against the cluster's *)
(* scheduler.                                                             *)
(*                                                                         *)
(* A driver step reads the pod to place (PlacePolicy lists the pending   *)
(* pods, the CLI gets the named one); PlaceWorkload is the next step, so  *)
(* the scheduler may act between the read and the planning.  The planning *)
(* itself is one step: it reads only the snapshot taken before it and    *)
(* writes the cluster only by deleting pods, so a scheduler step between  *)
(* two of its deletions can also be taken after them (deleting only      *)
(* frees room).                                                           *)
(* A deleted pod comes back pending: a bare pod is re-created by          *)
(* reSchedulePod, a controller's pod by its controller.                   *)
(***************************************************************************)
EXTENDS Placement, Snapshot

CONSTANTS
  PlaceablePods,    \* pods for which capacity.IsPlaceable holds
  Priority,         \* pod -> Spec.Priority
  InitialPending,   \* the pods that are pending when the policy starts
  Iterations,       \* strategy.Params.Iterations
  Drivers,          \* entry points: "policy" (PlacePolicy), "cli" (the CLI's place branch)
  CliPod            \* the -pod flag of the CLI

ASSUME Iterations \in Nat /\ Drivers \subseteq {"policy", "cli"} /\ Drivers # {} /\ CliPod \in Pods

VARIABLES
  podNode,    \* the cluster: each pod's node, NoNode while it is pending
  iter,       \* currIterations
  pc,         \* "place", "snapshot" (PlacePolicy), "cli", "plan" (in PlaceWorkload),
              \* then "exit" or "crashed"
  nodeInfos,  \* the driver's snapshot
  call,       \* the PlaceWorkload call: the pod object as read (pod, its
              \* Spec.NodeName) and where the driver goes on after it
  last        \* the last PlaceWorkload: pod, result, target, deletions

vars == <<podNode, iter, pc, nodeInfos, call, last>>

Pending(pn) == {p \in Pods : pn[p] = NoNode}

\* The pods' Spec.NodeName as the planner's pod objects carry it: the node
\* a pod was listed on in the snapshot; the pod to place carries the name
\* it had when the driver read it.
Home(ns, p, node) ==
  [q \in Pods |-> IF q = p THEN node
                  ELSE LET i == FirstIndex({j \in DOMAIN ns : q \in ToSet(ns[j].pods)})
                       IN IF i = 0 THEN NoNode ELSE ns[i].node]

(***************************************************************************)
(* ListPods keeps the pods whose phase is neither Succeeded nor Failed (all *)
(* the pods of the model) that pass opts.filter.  PlacePolicy passes       *)
(* WithFilter(IsPendingPod) and then WithFilter(IsPlaceable); WithFilter   *)
(* assigns opts.filter, so only IsPlaceable is applied and running pods    *)
(* are listed with the pending ones.  pods[0] is taken after sort.Slice by *)
(* ascending priority, then creation time.  Creation times have a          *)
(* resolution of one second and are not modelled: any pod of the lowest   *)
(* priority can come first.                                                *)
(***************************************************************************)
Listed == {p \in Pods : p \in PlaceablePods}
FirstListed == {p \in Listed : \A q \in Listed : Priority[p] <= Priority[q]}

Evict(pn, mig) == [p \in Pods |-> IF p \in ToSet(mig) THEN NoNode ELSE pn[p]]

NoCall == [pod |-> CliPod, node |-> NoNode, ret |-> "exit"]

NoOutcome == [pod |-> CliPod, res |-> "none", target |-> NoNode, mig |-> <<>>,
              pn |-> [p \in Pods |-> NoNode]]

(***************************************************************************)
(* PlaceWorkload(pod): PlacePod on the driver's snapshot, then           *)
(* MigratePod(pod, nil, toNode), which does nothing.  Its effect on the   *)
(* cluster is the pods the planner deleted.  A panic in the planner ends  *)
(* the process; either result returns to the driver.                      *)
(***************************************************************************)
PlaceWorkload ==
  /\ pc = "plan"
  /\ \E home \in {Home(nodeInfos, call.pod, call.node)} :
     \E o \in PlacePod(call.pod, nodeInfos, home) :
       /\ podNode' = Evict(podNode, o.mig)
       /\ last' = [pod |-> call.pod, res |-> o.res,
                   target |-> IF o.node = 0 THEN NoNode ELSE nodeInfos[o.node].node,
                   mig |-> o.mig, pn |-> Evict(podNode, o.mig)]
       /\ pc' = IF o.res = "panic" THEN "crashed" ELSE call.ret
  /\ UNCHANGED <<iter, nodeInfos, call>>

\* A variant of PlaceIteration whose loop test is currIterations <= iterations.
PlaceIterationPastCap ==
  /\ pc = "place" /\ iter <= Iterations
  /\ IF Listed = {}
     THEN pc' = "exit" /\ UNCHANGED call
     ELSE \E p \in FirstListed :
            /\ call' = [pod |-> p, node |-> podNode[p], ret |-> "snapshot"]
            /\ pc' = "plan"
  /\ UNCHANGED <<podNode, iter, nodeInfos, last>>

\* PlacePolicy's loop body up to PlaceWorkload: list the pods and take the
\* first; with none listed the loop breaks.
PlaceIteration ==
  /\ pc = "place" /\ iter < Iterations
  /\ IF Listed = {}
     THEN pc' = "exit" /\ UNCHANGED call
     ELSE \E p \in FirstListed :
            /\ call' = [pod |-> p, node |-> podNode[p], ret |-> "snapshot"]
            /\ pc' = "plan"
  /\ UNCHANGED <<podNode, iter, nodeInfos, last>>

\* After the sleep: a fresh snapshot and the next iteration.
Resnapshot ==
  /\ pc = "snapshot"
  /\ nodeInfos' = GetSystemSnapshot(podNode)
  /\ iter' = iter + 1
  /\ pc' = "place"
  /\ UNCHANGED <<podNode, call, last>>

LoopDone ==
  /\ pc = "place" /\ iter >= Iterations
  /\ pc' = "exit"
  /\ UNCHANGED <<podNode, iter, nodeInfos, call, last>>

\* The CLI gets the named pod, whatever its state, and places it once; the
\* snapshot it takes after the sleep is only logged.
CliPlace ==
  /\ pc = "cli"
  /\ call' = [pod |-> CliPod, node |-> podNode[CliPod], ret |-> "exit"]
  /\ pc' = "plan"
  /\ UNCHANGED <<podNode, iter, nodeInfos, last>>

(***************************************************************************)
(* The orchestrator's scheduler: it binds a pending pod to an admitting   *)
(* node where the real requests fit.                                      *)
(***************************************************************************)
SchedulableOn(pn, p, node) ==
  PodFitsCurrentNode(p, node) /\ NodeFits([pn EXCEPT ![p] = node], node)

Schedule(p, node) ==
  /\ podNode[p] = NoNode
  /\ SchedulableOn(podNode, p, node)
  /\ podNode' = [podNode EXCEPT ![p] = node]
  /\ UNCHANGED <<iter, pc, nodeInfos, call, last>>

\* The process has ended; the cluster may be quiet.
Terminating == pc \in {"exit", "crashed"} /\ UNCHANGED vars

Init ==
  /\ podNode \in {pn \in [Pods -> Nodes \cup {NoNode}] :
                    Pending(pn) = InitialPending /\ Fits(pn)}
  /\ iter = 0
  /\ pc \in {IF d = "policy" THEN "place" ELSE "cli" : d \in Drivers}
  /\ nodeInfos = GetSystemSnapshot(podNode)
  /\ call = NoCall
  /\ last = NoOutcome

Next ==
  \/ PlaceIteration \/ Resnapshot \/ LoopDone \/ CliPlace \/ PlaceWorkload
  \/ \E p \in Pods, node \in Nodes : Schedule(p, node)
  \/ Terminating

Spec == Init /\ [][Next]_vars

(***************************************************************************)
(* Fairness.  The driver is one goroutine that waits on nothing: each of  *)
(* its steps changes pc and one is enabled until it exits (PlacePod       *)
(* always has an outcome), so pc keeps changing until it stops.  The      *)
(* scheduler retries a pending pod whenever the cluster changes, so a pod *)
(* for which room appears again and again is eventually bound: strong     *)
(* fairness of Schedule for each pod.  Both are written without ENABLED:  *)
(* CanSchedule(p) is the enabling condition of Schedule(p, _).           *)
(***************************************************************************)
CanSchedule(p) == podNode[p] = NoNode /\ \E n \in Nodes : SchedulableOn(podNode, p, n)

DriverProgress == []<><<TRUE>>_pc \/ <>[](pc \in {"exit", "crashed"})

SchedulerFairness ==
  \A p \in Pods : []<>CanSchedule(p) => []<><<podNode[p] = NoNode /\ podNode'[p] # NoNode>>_podNode

LiveSpec == Spec /\ DriverProgress /\ SchedulerFairness

-----------------------------------------------------------------------------
TypeOK ==
  /\ podNode \in [Pods -> Nodes \cup {NoNode}]
  /\ iter \in 0..Iterations
  /\ pc \in {"place", "snapshot", "cli", "plan", "exit", "crashed"}
  /\ call.pod \in Pods /\ call.ret \in {"snapshot", "exit"}
  /\ last.res \in {"none", "ok", "fail", "panic"}
  /\ last.target \in Nodes \cup {NoNode}

\* Room(n, p): the NodeInfo's Available covers the pod's non-zero CPU and
\* memory and every extended resource it requests.
Room(n, p) ==
  /\ Res(p).non0CPU <= n.available.cpu
  /\ Res(p).non0Mem <= n.available.mem
  /\ \A k \in DOMAIN Res(p).res.sr : Get(n.available.sr, k) >= Res(p).res.sr[k]

\* Every pod that the planner deletes to make room for a pod, through the
\* displacement chain of placeCapacity or the pod lists of the
\* multi-migration path, asks for strictly less non-zero CPU and memory
\* than that pod: placement never evicts a larger workload for a smaller.
EvictsOnlySmaller ==
  \A q \in ToSet(last.mig) \ {last.pod} :
     Res(q).non0CPU < Res(last.pod).non0CPU /\ Res(q).non0Mem < Res(last.pod).non0Mem

\* Spec property 7 on PlacePod: when it reports the pod placed, the target
\* node has room for the pod once the planner's deletions are done.
PlacedTargetFits ==
  last.res = "ok" =>
    Room(BuildNodeInfo(last.target, PodsOn(last.pn, last.target)), last.pod)

\* Spec property 8 on PlacePod: every pod the planner migrates to make room
\* is migratable.
MigratedAreMigratable == \A q \in ToSet(last.mig) \ {last.pod} : IsMigratable(q)

\* Spec section 7: a PlaceWorkload that reports failure ("place pod
\* failed", after which the CLI returns) has deleted no pod.  The planner
\* returns false on every MigratePod error (placement.go:38-40), including
\* an error MigratePod returns after its deletePod.
NoEvictionOnFailure == last.res = "fail" => last.mig = <<>>

(***************************************************************************)
(* PlacePolicy deletes pods only to make room for a pod that was pending   *)
(* when its loop listed it (spec 4.5: the planner is given a pending pod;  *)
(* place.go lists pods through the IsPendingPod filter): a PlaceWorkload   *)
(* of the policy driver that deletes pods plans for a pod with no node.    *)
(***************************************************************************)
DisplacesOnlyForPending ==
  [][(pc = "plan" /\ pc' # "plan" /\ call.ret = "snapshot" /\ podNode' # podNode)
        => call.node = NoNode]_vars

(***************************************************************************)
(* A running pod that the planner deletes to make room is one it has      *)
(* placed elsewhere (spec 4.5.1 and 4.5.2: each displaced pod is placed   *)
(* via single-pod placement), so under a fair scheduler it runs again:    *)
(* every pod that was running when the policy started and is pending at  *)
(* some point is later bound to a node.                                   *)
(***************************************************************************)
DisplacedPodsRunAgain ==
  \A p \in Pods \ InitialPending : podNode[p] = NoNode ~> podNode[p] # NoNode

=============================================================================
