------------------------------ MODULE Balancer ------------------------------
(***************************************************************************)
(* The balancer of defragmentation/balance.go (component F) driven by the  *)
(* balance branch of cmd/k8s-client/defragment.go: `Iterations` calls of  *)
(* BalanceWorkload, each of which takes a snapshot, searches for one pod   *)
(* pair to swap between a node left of the pivot ratio and a node right of *)
(* it, and swaps the pair through SwapPods.                                *)
(*                                                                         *)
(* Each iteration of the two nested search loops of BalanceWorkload is one *)
(* step.  SwapPods is abstract here: the swapped pods exchange nodes.  The *)
(* cluster is the pod -> node binding; every snapshot is rebuilt from it.  *)
(* Node and pod indices are 1-based (the code's are 0-based).              *)
(***************************************************************************)
EXTENDS Metrics, Snapshot

CONSTANTS
  MigratablePods,  \* pods for which capacity.IsMigratable holds
  Iterations,      \* the -iterations flag, or the strategy's Iterations
  Driver,          \* "cli": the balance branch of the CLI; "policy": BalancePolicy
  Listings         \* the sets of nodes whose pod listing may succeed in one snapshot

ASSUME Iterations \in Nat /\ Driver \in {"cli", "policy"} /\ Listings \subseteq SUBSET Nodes

VARIABLES
  podNode,    \* the cluster: the node each pod is bound to
  iter,       \* currentIteration of the CLI loop
  pc,         \* "call", "outer", "inner", "exit", "crashed"
  nodeInfos,  \* BalanceWorkload's sorted snapshot
  pivot,      \* its pivot ratio
  left,       \* leftNodeIndex
  right,      \* rightNodeIndex
  cpuPods,    \* cpuPodInfos
  memPods,    \* memPodInfos
  lp,         \* leftPodIndex
  rp,         \* rightPodIndex
  pivot0      \* BalancePolicy's pivotRatio, taken once before its loop (0 for the CLI)

vars == <<podNode, iter, pc, nodeInfos, pivot, left, right, cpuPods, memPods, lp, rp, pivot0>>
searchVars == <<nodeInfos, pivot, left, right, cpuPods, memPods, lp, rp, pivot0>>

IsMigratable(p) == p \in MigratablePods

Ratio(i) == GetCpuMemoryRatio(nodeInfos[i])
LeftDistance == GetDistanceFromPivot(nodeInfos[left], pivot)
RightDistance == GetDistanceFromPivot(nodeInfos[right], pivot)

\* A variant of swapIfPossible whose scalar parity test only walks the
\* first pod's map.
swapIfPossibleOneWay(ns, l, r, a, b) ==
  LET srA == CalculateResource(a).res.sr
      srB == CalculateResource(b).res.sr
      remA == RemovePod(ns[l], a)
      remB == RemovePod(ns[r], b)
      swapped == [ns EXCEPT ![l] = AddPod(remA.ni, b), ![r] = AddPod(remB.ni, a)]
  IN /\ \A k \in DOMAIN srA : k \in DOMAIN srB /\ srB[k] = srA[k]
     /\ remA.status = "ok" /\ remB.status = "ok"
     /\ RatLess(GetSystemEntropy(swapped), GetSystemEntropy(ns))

(***************************************************************************)
(* swapIfPossible on a deep copy `ns` of the snapshot: the pods' scalar    *)
(* resource maps must agree both ways, then a trial swap must strictly     *)
(* lower the entropy.  The code's revert of a rejected trial only affects  *)
(* the copy, which is discarded, so only the verdict is modelled.  Both    *)
(* removals failing returns true in the code; it cannot happen, the pods   *)
(* being taken from the nodes' own lists.                                  *)
(***************************************************************************)
swapIfPossible(ns, l, r, a, b) ==
  LET srA == CalculateResource(a).res.sr
      srB == CalculateResource(b).res.sr
      isSatisfied ==
        /\ \A k \in DOMAIN srA : k \in DOMAIN srB /\ srB[k] = srA[k]
        /\ \A k \in DOMAIN srB : k \in DOMAIN srA /\ srA[k] = srB[k]
      remA == RemovePod(ns[l], a)
      remB == RemovePod(ns[r], b)
      swapped == [ns EXCEPT ![l] = AddPod(remA.ni, b), ![r] = AddPod(remB.ni, a)]
  IN /\ isSatisfied
     /\ \/ /\ remA.status = "ok" /\ remB.status = "ok"
           /\ RatLess(GetSystemEntropy(swapped), GetSystemEntropy(ns))
        \/ remA.status # "ok" /\ remB.status # "ok"

\* isSchedulingDone: every node lies strictly on the same side of the pivot.
isSchedulingDone(ns, pivotRatio) ==
  LET positive == {i \in DOMAIN ns : RatLess(GetCpuMemoryRatio(ns[i]), pivotRatio)}
      negative == {i \in DOMAIN ns : RatLess(pivotRatio, GetCpuMemoryRatio(ns[i]))}
  IN Cardinality(positive) = Len(ns) \/ Cardinality(negative) = Len(ns)

\* The loop condition of the driver besides the iteration cap: BalancePolicy
\* tests isSchedulingDone on a fresh snapshot (of the nodes `listed` in it)
\* against its first pivot.
KeepBalancing(listed) ==
  Driver = "policy" => isSchedulingDone(GetSystemSnapshotOf(podNode, listed), pivot0)

\* SwapPods, abstractly: each pod of the pair is bound to the other's node.
SwapPods(pn, a, b) == [pn EXCEPT ![a] = pn[b], ![b] = pn[a]]

-----------------------------------------------------------------------------
Init ==
  /\ podNode \in {pn \in [Pods -> Nodes] : Fits(pn) /\ PivotDefined(GetSystemSnapshot(pn))}
  /\ iter = 0
  /\ pc = "call"
  /\ nodeInfos = <<>>
  /\ pivot = RatZero
  /\ left = 0 /\ right = 0
  /\ cpuPods = <<>> /\ memPods = <<>>
  /\ lp = 0 /\ rp = 0
  /\ pivot0 \in IF Driver = "policy"
                THEN {GetPivotRatio(GetSystemSnapshotOf(podNode, l)) : l \in Listings}
                ELSE {RatZero}

\* A variant of CallBalanceWorkload whose iteration test is off by one.
CallBalanceWorkloadPastCap ==
  /\ pc = "call"
  /\ \E l0 \in Listings : iter <= Iterations /\ KeepBalancing(l0)
  /\ \E listed \in Listings :
       LET snap == GetSystemSnapshotOf(podNode, listed) IN
       /\ snap # <<>>
       /\ nodeInfos' \in SortNodesBasedRatio(snap)
       /\ pivot' = GetPivotRatio(snap)
       /\ left' = 1 /\ right' = Len(snap)
  /\ pc' = "outer"
  /\ UNCHANGED <<podNode, iter, cpuPods, memPods, lp, rp, pivot0>>

(***************************************************************************)
(* The driver calls BalanceWorkload, which snapshots, computes the pivot   *)
(* and sorts the nodes by ratio.  A pivot that is +Inf or NaN (under one   *)
(* MiB free in the nodes listed) fails the outer loop test at once.        *)
(***************************************************************************)
CallBalanceWorkload ==
  /\ pc = "call"
  /\ \E l0 \in Listings : iter < Iterations /\ KeepBalancing(l0)
  /\ \E listed \in Listings :
       LET snap == GetSystemSnapshotOf(podNode, listed) IN
       /\ snap # <<>>
       /\ nodeInfos' \in SortNodesBasedRatio(snap)
       /\ pivot' = GetPivotRatio(snap)
       /\ left' = 1 /\ right' = Len(snap)
  /\ pc' = "outer"
  /\ UNCHANGED <<podNode, iter, cpuPods, memPods, lp, rp, pivot0>>

\* Every listing fails: the snapshot is empty and the log line before the
\* outer loop indexes nodeInfos[0], which panics and ends the process.
SnapshotEmptyPanic ==
  /\ pc = "call"
  /\ \E l0 \in Listings : iter < Iterations /\ KeepBalancing(l0)
  /\ \E listed \in Listings : GetSystemSnapshotOf(podNode, listed) = <<>>
  /\ pc' = "crashed"
  /\ UNCHANGED <<podNode, iter, searchVars>>

\* The driver's loop ends.
Finish ==
  /\ pc = "call"
  /\ \E l0 \in Listings : ~(iter < Iterations /\ KeepBalancing(l0))
  /\ pc' = "exit"
  /\ UNCHANGED <<podNode, iter, searchVars>>

(***************************************************************************)
(* Outer loop, entered while the left node is below and the right node     *)
(* above the pivot.  SortPodsBasedOnCpu/Memory copy the pod slice, sort    *)
(* the NodeInfo's own slice in place and return the unsorted copy.         *)
(***************************************************************************)
OuterEnter ==
  /\ pc = "outer"
  /\ RatLess(Ratio(left), pivot) /\ RatLess(pivot, Ratio(right))
  /\ cpuPods' = nodeInfos[left].pods
  /\ memPods' = nodeInfos[right].pods
  /\ \E cs \in SortPodsBasedOnCpu(nodeInfos[left].pods),
        ms \in SortPodsBasedOnMemory(nodeInfos[right].pods) :
       nodeInfos' = [nodeInfos EXCEPT ![left].pods = cs, ![right].pods = ms]
  /\ lp' = 1 /\ rp' = 1
  /\ pc' = "inner"
  /\ UNCHANGED <<podNode, iter, pivot, left, right, pivot0>>

\* The outer loop ends with no pair found: BalanceWorkload returns nil and
\* the CLI loop goes on to its next iteration.
OuterExitNoSwap ==
  /\ pc = "outer"
  /\ ~(RatLess(Ratio(left), pivot) /\ RatLess(pivot, Ratio(right)))
  /\ iter' = iter + 1
  /\ pc' = "call"
  /\ UNCHANGED <<podNode, searchVars>>

InnerGuard == lp <= Len(cpuPods) /\ rp <= Len(memPods)

SkipLeftPod ==
  /\ pc = "inner" /\ InnerGuard
  /\ ~IsMigratable(cpuPods[lp])
  /\ lp' = lp + 1
  /\ UNCHANGED <<podNode, iter, pc, nodeInfos, pivot, left, right, cpuPods, memPods, rp, pivot0>>

SkipRightPod ==
  /\ pc = "inner" /\ InnerGuard
  /\ IsMigratable(cpuPods[lp]) /\ ~IsMigratable(memPods[rp])
  /\ rp' = rp + 1
  /\ UNCHANGED <<podNode, iter, pc, nodeInfos, pivot, left, right, cpuPods, memPods, lp, pivot0>>

\* A trial swap succeeds: BalanceWorkload leaves both loops, SwapPods moves
\* the pair, BalanceWorkload returns and the CLI loop goes on.
SwapAccepted ==
  /\ pc = "inner" /\ InnerGuard
  /\ IsMigratable(cpuPods[lp]) /\ IsMigratable(memPods[rp])
  /\ swapIfPossible(nodeInfos, left, right, cpuPods[lp], memPods[rp])
  /\ podNode' = SwapPods(podNode, cpuPods[lp], memPods[rp])
  /\ iter' = iter + 1
  /\ pc' = "call"
  /\ UNCHANGED searchVars

\* A trial swap fails: the pod index of the side farther from the pivot
\* advances, wrapping to the other side's next pod.
SwapRejected ==
  /\ pc = "inner" /\ InnerGuard
  /\ IsMigratable(cpuPods[lp]) /\ IsMigratable(memPods[rp])
  /\ ~swapIfPossible(nodeInfos, left, right, cpuPods[lp], memPods[rp])
  /\ IF RatLess(LeftDistance, RightDistance)
     THEN IF lp < Len(nodeInfos[left].pods)
          THEN lp' = lp + 1 /\ rp' = rp
          ELSE lp' = 1 /\ rp' = rp + 1
     ELSE IF rp < Len(nodeInfos[right].pods)
          THEN rp' = rp + 1 /\ lp' = lp
          ELSE rp' = 1 /\ lp' = lp + 1
  /\ UNCHANGED <<podNode, iter, pc, nodeInfos, pivot, left, right, cpuPods, memPods, pivot0>>

\* The pair loop ends without a swap: the node index of the side farther
\* from the pivot moves inward; past the pivot it restarts from the outer
\* end and the other side's index moves inward instead.
NextNodePair ==
  /\ pc = "inner" /\ ~InnerGuard
  /\ IF RatLess(LeftDistance, RightDistance)
     THEN IF RatLess(Ratio(left + 1), pivot)
          THEN left' = left + 1 /\ right' = right
          ELSE left' = 1 /\ right' = right - 1
     ELSE IF RatLess(pivot, Ratio(right - 1))
          THEN right' = right - 1 /\ left' = left
          ELSE right' = Len(nodeInfos) /\ left' = left + 1
  /\ pc' = "outer"
  /\ UNCHANGED <<podNode, iter, nodeInfos, pivot, cpuPods, memPods, lp, rp, pivot0>>

\* The CLI has returned, or the process has panicked.
Terminating ==
  /\ pc \in {"exit", "crashed"}
  /\ UNCHANGED vars

Next ==
  \/ CallBalanceWorkload
  \/ SnapshotEmptyPanic
  \/ Finish
  \/ OuterEnter
  \/ OuterExitNoSwap
  \/ SkipLeftPod
  \/ SkipRightPod
  \/ SwapAccepted
  \/ SwapRejected
  \/ NextNodePair
  \/ Terminating

(***************************************************************************)
(* The loop is single-threaded and waits on nothing, so it keeps taking    *)
(* steps until the CLI returns.  Next is enabled in every state (the runs  *)
(* check for deadlock), so this is weak fairness of Next, stated without   *)
(* ENABLED.                                                                *)
(***************************************************************************)
Fairness == []<><<Next>>_vars \/ <>[](pc \in {"exit", "crashed"})

Spec == Init /\ [][Next]_vars /\ Fairness

-----------------------------------------------------------------------------
\* The entropy of the cluster as a fresh snapshot sees it.
ClusterEntropy(pn) == GetSystemEntropy(GetSystemSnapshot(pn))

TypeOK ==
  /\ podNode \in [Pods -> Nodes]
  /\ iter \in 0..Iterations
  /\ pc \in {"call", "outer", "inner", "exit", "crashed"}
  /\ left \in 0..N /\ right \in 0..N
  /\ cpuPods \in Seq(Pods) /\ memPods \in Seq(Pods)
  /\ lp \in 0..(Len(cpuPods) + 1) /\ rp \in 0..(Len(memPods) + 1)

(***************************************************************************)
(* Swap contract (spec properties 10 and 12): the cluster only ever        *)
(* changes by BalanceWorkload exchanging two migratable pods that sit on   *)
(* nodes on opposite sides of the pivot, whose scalar resource maps are    *)
(* identical, and the exchange strictly lowers the entropy of the cluster  *)
(* as the next snapshot sees it.  swapIfPossible decides on a deep copy    *)
(* whose pods were sorted in place, so this relates that trial to the real *)
(* outcome.                                                                *)
(***************************************************************************)
SwapContract ==
  [][podNode' # podNode =>
       \E a, b \in MigratablePods :
          LET snap == GetSystemSnapshot(podNode)
              RatioOf(node) == GetCpuMemoryRatio(BuildNodeInfo(node, PodsOn(podNode, node)))
          IN /\ podNode' = SwapPods(podNode, a, b)
             /\ RatLess(RatioOf(podNode[a]), GetPivotRatio(snap))
             /\ RatLess(GetPivotRatio(snap), RatioOf(podNode[b]))
             /\ CalculateResource(a).res.sr = CalculateResource(b).res.sr
             /\ RatLess(ClusterEntropy(podNode'), ClusterEntropy(podNode))]_vars

(***************************************************************************)
(* Termination: the balance loop of the CLI ends (spec 4.6: the iteration  *)
(* cap is terminal).  Each BalanceWorkload call must return, so the walk   *)
(* of leftNodeIndex and rightNodeIndex in balance.go must not cycle.       *)
(***************************************************************************)
Termination == <>(pc = "exit")

(***************************************************************************)
(* Fit: every pod fits the node it is bound to.  The scheduler establishes *)
(* this; a swap keeps it only if each pod fits on the other's node, which  *)
(* is the check commented out in BalanceWorkload's pair loop.              *)
(***************************************************************************)
ClusterFits == Fits(podNode)

=============================================================================
