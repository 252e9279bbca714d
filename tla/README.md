# TLA+ models of the defragmentation strategy

This directory holds TLA+ models of the CPU/memory defragmentation strategy in
`src/pkg/descheduler/strategies/defragmentation/`, its helpers, and the
`cmd/k8s-client` driver. The TLC configurations check the models, and
`PROJECT.json` lists:

- the components;
- the runs;
- the mutants that show each checked property can fail;
- the map from every modelled definition to the source lines it translates;
- the findings;
- the hazards.

## The system

The strategy works on a **snapshot** of the cluster. `GetSystemSnapshot` (`capacity/system.go`) builds one `NodeInfo` per node:

- it lists the pods bound to the node (`pod/pods.go`: `ListPodsOnANode`);
- it calls `AddPod` for each of them (`capacity/node_info.go`);
- a node whose pod listing fails is left out of the snapshot, which is then shorter than the node list and may be empty.

A `NodeInfo` keeps four resource vectors (`Requested`, `NonZeroRequested`, `Allocatable`, `Available`), each made of CPU, memory and a map of extended ("scalar") resources such as GPUs. The per-pod quantities come from `CalculateResource`, which lives outside `src/`.

Three metrics are computed over a snapshot:

- the **ratio** of a node: free milliCPU per MiB of free memory;
- the **pivot**: the same ratio for the whole cluster;
- the **entropy**: the sum of the distances of the nodes' ratios from the pivot.

Two policies use the snapshot:

- **Balance** (`balance.go`). `BalanceWorkload` sorts the nodes by ratio. It walks a left index over nodes below the pivot and a right index over nodes above it. For each node pair it walks the two pod lists and asks `swapIfPossible` whether exchanging a pod pair strictly lowers the entropy on a deep copy of the snapshot, with equal scalar footprints required. It swaps the first pair that passes, through `scheduler.SwapPods`. `BalancePolicy` (library entry) and the CLI balance branch call it in a loop.
- **Place** (`place.go`, `scheduler/placement.go`). This policy tries to make room for a pending pod. It looks for a node that fits the pod directly. Failing that, it recursively displaces a smaller pod (`placeCapacity`) or several pods (`placeCapacityWithMultipleMigration`), ranking nodes and pods with the Cantor pairing (`cantor/paridepair.go`).

Both policies act through the **migration executor** (`scheduler/migrate.go`):

- a bare pod is deleted and re-created;
- a ReplicationController/ReplicaSet/Deployment pod is moved by scaling up by one, deleting the pod (unless it is a swap), then scaling back down;
- Job and operator pods are deleted.

Everything runs in one goroutine; the only concurrency is with the orchestrator (scheduler, controllers, other API writers).

## Modules

| Module | Models | State / operators |
|---|---|---|
| `Resource` | resource arithmetic | `CalculateResource` (RECURSIVE over containers, then init containers; from the spec, because the code is outside `src/`), `getCpuRequests`/`getMemoryRequests` (pod_info.go), `SortSlice` (an unstable `sort.Slice`: every ascending arrangement), `ToMiB` (the `int64(float64(x)/MB)` truncation), and first-order sequence helpers (`SeqSum`, `KeepIn`, `FirstIndex`) for the code's summing, append-if and break-at-first loops |
| `NodeInfo` | `capacity/node_info.go` | `NewNodeInfo`, `SetNode`, `AddPod`, `removeFromSlice` and `RemovePod`, as operators from one NodeInfo record to the next. `RemovePod` also returns `ok`, `notfound` or `panic`: its error message dereferences a nil node. |
| `NodeInfoSpec` | NodeInfo objects under `NewNodeInfo`/`SetNode`/`AddPod`/`RemovePod`/`Clone`/`RemoveNode` calls | variables `made` (objects created), `ni` and `gen` (each object's record and `Generation`), `generation` (the package counter that `nextGeneration` increments), `lastErr`, `calls`; one action per method. Each mutating action takes a fresh number through `Bump`; `RemovePod` bumps only on the path that finds the pod; `Clone` copies the record and the `Generation`. A `panic` outcome ends the run. |
| `Snapshot` | `capacity/system.go`, `ListPodsOnANode` | `GetSystemSnapshotOf` over a binding of pods to nodes and the set of nodes whose listing succeeds; `GetSystemSnapshot`, the case where every listing succeeds; `NodeFits`, the scheduler's admission test |
| `Metrics` | ratio, pivot, entropy, node sort | exact rationals `<<num, den>>`. `GetCpuMemoryRatio` keeps the sentinel for a node with under 1 MiB free, and the 0 for a node with no free CPU. `GetPivotRatio` over under 1 MiB of free memory is float64's +Inf, -Inf or NaN, kept as `<<1, 0>>`, `<<-1, 0>>` and `<<0, 0>>`, on which `RatLess` compares as Go does. |
| `Balancer` | `BalanceWorkload`, `swapIfPossible`, `isSchedulingDone`, `BalancePolicy`'s loop and the CLI loop | The variables are the cluster (`podNode`), the driver's iteration, and BalanceWorkload's locals (`nodeInfos`, `pivot`, `left`, `right`, `cpuPods`, `memPods`, `lp`, `rp`). `pivot0` is BalancePolicy's pivot, taken once. `Listings` is the set of possible outcomes of the pod listings, one drawn per snapshot. |
| `Cantor` | `cantor/paridepair.go` | `Pair`, `depair` and the integer square root they use |
| `Placement` | `scheduler/placement.go` | the planner as RECURSIVE operators that return the set of outcomes `[res, node, ns, mig]` |
| `PlacePolicy` | `place.go` (`PlacePolicy`, `PlaceWorkload`), the CLI place branch, and the cluster's scheduler | variables `podNode`, `iter`, `pc`, `nodeInfos`, `call`, `last` |
| `ScaleProtocol` | what the executor promises about a controller's Scale (spec 4.7) | variables `replicas`, `surged`. The executor's `ScaleUp` (+1) and `ScaleDown` (-1), one raise outstanding per controller. `Write` is any other writer. `Spec` adds weak fairness of `ScaleDown`: every raise is undone. |
| `Migrate` | `scheduler/migrate.go` (`SwapPods`, `MigratePod`, `reSchedulePod`, `deletePod`) against the orchestrator | variables `loc`, `born`, `replicas`, `ver` (the cluster and the Scales), `call`, `ip`, `sc`, `scv`, `pc` (the executor). One action per API call. The orchestrator's actions are `ReplicaAdd`, `ReplicaRemove`, `JobReplace` and `Schedule`, and the process may `Crash`. |
| `MCNodeInfoSpec`, `MCBalancer`, `MCBalancerMixed`, `MCBalancerPartial`, `MCPlacePolicy`, `MCMigrate` | model values for TLC | pods, nodes, allocatable capacity, request vectors, workloads and executor calls |
| `MCMigrateWriter` | `MCMigrate` with another writer of the Scale | `ExternalWrite(w, v)`, like a user's `kubectl scale` or an autoscaler |

### How the Balancer corresponds to the code

Each iteration of a loop in `BalanceWorkload` is one action:

- `CallBalanceWorkload` (lines 128-132): snapshot of the nodes whose listing succeeds, pivot, node sort, `left = 1`, `right = Len(snapshot)`. A pivot that is +Inf or NaN fails the outer loop test, so the call returns at once.
- `SnapshotEmptyPanic` (lines 128-135): every listing fails, and the log line before the outer loop indexes `nodeInfos[0]` of the empty snapshot, a panic. `pc` becomes `"crashed"`.
- `OuterEnter` / `OuterExitNoSwap`: the test of the outer loop (line 136). On entry, `SortPodsBasedOnCpu/Memory` sort the NodeInfo's own slices in place, while the loop walks the unsorted copies they return.
- `SkipLeftPod` / `SkipRightPod` (lines 152-160), `SwapAccepted` / `SwapRejected` (lines 162-183): one iteration of the pair loop. `SwapAccepted` carries on to the end of the call. It applies `SwapPods` to the cluster and returns to the driver, which counts the iteration.
- `NextNodePair` (lines 192-206): the node-index advance after a pair loop without a swap.
- `Finish` / `Terminating`: the driver's loop ends and the process stays stopped.

`SwapPods` is abstract here: the two pods exchange nodes.

Indices are 1-based in the model and 0-based in the code. Each test was translated accordingly:

- `leftPodIndex < len-1` becomes `lp < Len`;
- `leftPodIndex < len` becomes `lp <= Len`.

### How the placement planner corresponds to the code

The planner mutates the snapshot it is given, and it calls `MigratePod` as it goes. Each planner function is therefore an operator from the snapshot `ns` to a **set of outcomes**. An outcome records:

- the result: `ok`, `fail` or `panic`;
- the index of the returned NodeInfo;
- the mutated snapshot;
- the sequence `mig` of pods it deleted.

The result is a set because `sort.Slice` is not stable, and every order it may produce is followed.

- `placeCapacity` (lines 33-67): `checkPlacementElibility`, then one of two branches.
  - **Direct placement** (`computeNormalPlacement`). The log line at 37 reads `fromNode.Node().GetName()`. For a pending pod `fromNode` is nil, so this branch is a panic.
  - **Displacement.** The first node in `computePlacementPriority` order that has eligible pods gives the minimal pod, on which `placeCapacity` recurses. `FirstByPriority` takes any node of least score among those with eligible pods. This is what the loop over the unstable sort can reach.
- `placeCapacityWithMultipleMigration` (lines 206-244): it tries the direct branch first. Otherwise it takes the pod list of `computeMinimumMigrateablePods` (RECURSIVE, with its `eligible[1]` panic) and calls `PlacePod` on each pod in turn, through `placeEach`, against the snapshot it started from. It returns `ok` whatever those calls did.
- `PlacePod` is `placeCapacity`, falling back to the multi path when it fails.
- `MigratePod` as the planner sees it: a nil `fromNode` does nothing. Otherwise the pod is deleted. When `MigrateMayFail` holds, the call may also error before deleting (`err`). For every pod outside `DeleteLastPods` (a Job's or an operator's pod, whose `deletePod` is the last call), it may also error after deleting (`errDeleted`): the bare pod's Create, or a controller's second `UpdateScale`, failed. `MigrateFailed` is the planner's `return nil, nil, false` on either error, with the snapshot untouched and the deletion recorded. `PlacePod` keeps the deletions of a failed `placeCapacity` when it falls back to the multi path. A bare pod whose Create failed is shown pending again, as if recreated; `Migrate` covers its loss (`migrate_lost_pod`).

`PlacePolicy` has these actions:

- `PlaceIteration` (the listing, its `len(pods) == 0` break, and `pods[0]`) and `CliPlace` (the CLI's `Get` of the named pod) record the call in `call`: the pod, the `Spec.NodeName` just read, and where the driver goes next.
- `PlaceWorkload` applies one outcome of `PlacePod` to the cluster. Deleted pods become pending again.
- `Resnapshot` and `LoopDone` are the rest of PlacePolicy's loop.
- The listing (`Listed`) passes `WithFilter(IsPendingPod)` and then `WithFilter(IsPlaceable)`. `WithFilter` assigns `opts.filter` (pods.go:41), so only `IsPlaceable` applies, and running pods are listed too.
- `Schedule` is the orchestrator's scheduler. It binds a pending pod wherever the real requests fit, and it can act between any two driver steps.

### How the migration executor corresponds to the code

A call of the executor is a straight-line program of API calls, so `Program(call)` spells it out as a sequence of instructions. `ip` is the position of the next call, and each instruction is executed by its own action.

- `MigrateProg(p, isSwap)` is `MigratePod`'s dispatch on the pod's first owner. The owner is given by `Kind`:
  - a pod with no owner (`"bare"`) gets `delete`, then `create`;
  - a ReplicationController, ReplicaSet or Deployment pod (`"scaled"`) gets `get`, `up`, then `delete` unless it is a swap, then `down`;
  - a Job or operator pod (`"job"`) gets `delete`.
- Every error in `MigratePod` returns, so its instructions are `fatal`. An error in `SwapPods`' delayed deletions is only logged.
- `Program` is `SwapPods`: `MigratePod(A)`, then `MigratePod(B)`, then the delayed deletions of B and then A, for pods owned by an RC or RS. A Deployment's pod is owned by its ReplicaSet, so it counts.
- `GetScale` reads `spec.replicas` and the resourceVersion into `sc` and `scv`.
- `ScaleUp` writes `sc + 1` with the version read. The server refuses the write if the Scale changed in between.
- `ScaleDown` writes `sc` with the version cleared (migrate.go:139), so the server always takes it.
- `DeletePod` fails with NotFound once the pod is gone. `CreatePod` fails with AlreadyExists while an object of that name exists. The copy keeps the pod's name.
- Any call in `Failing` may also fail.
- `Crash` ends the call between two API calls. Nothing resumes it: the executor keeps no state.

The orchestrator acts between any two calls:

- a controller adds a pending pod while it has fewer pods than `spec.replicas`;
- a controller removes a pod while it has more, taking a pending one first, as the ReplicaSet controller ranks unscheduled pods first;
- the job controller replaces a deleted job pod;
- the scheduler binds pending pods to nodes with room.

The preferred affinity `reSchedulePod` sets on a swap binds nothing, so the re-created pod is just pending.

`Migrate` implements `ScaleProtocol` under the mapping `surged <- {w : Raised(w)}`. `Raised(w)` holds when the executor has passed a `ScaleUp` of w and no `ScaleDown` of it since. That mapping is sound because `MigratePod` returns on a failed scale-up. A step of the executor is then one of:

- an abstract `ScaleUp`;
- an abstract `ScaleDown`, when nobody else wrote in between;
- a stutter.

### Abstractions

- **Memory** is counted in model bytes, with `MB` = 2 model bytes per MiB. The truncation to MiB therefore happens, as it does in the code, and is not the identity.
- **Ratios** are exact rationals instead of float64. They differ from the code's floats only by rounding, which matters only for quantities that are equal or nearly so.
- **The sentinel ratio** is the constant `RatioSentinel` = 1000. The code's 1000000 exceeds every real milliCPU-per-MiB ratio. 1000 exceeds every ratio the model's quantities yield (at most 16) and keeps TLC's integers in range.
- **Pods** are model values. `PodSpec` gives each pod its containers' requests. `IsMigratable`, `IsPlaceable`, the predicate-level fit (`Admits`) and a "-" in a pod's name (`HyphenatedPods`, which `sortMigrateablePods` loses) are given as sets of pods.
- **Extended resources.** At most one name is allowed. With two, Go's random map order makes the comparator of `computeMinimumMigrateablePod` nondeterministic.
- **Creation timestamps** are not modelled. Any pod of the lowest priority may be listed first.
- **Initial clusters** are all bindings of pods to nodes in which each node's requests fit its allocatable capacity (the scheduler guarantees this).

## Runs

| Run | Config | Expect | What it shows |
|---|---|---|---|
| nodeinfo_accounting | `MCNodeInfoSpec.cfg` | pass | `ResourceAccounting` holds over every sequence of up to 8 calls on three NodeInfo objects and three pods: a plain pod, a GPU pod without CPU/memory requests (non-zero defaults), and a pod whose init container dominates. Duplicate adds, removes of absent pods, clones and `RemoveNode` are included. `GenerationIdentifiesContent` also holds: two objects share a `Generation` only when they hold the same content. That depends on every mutation after a `Clone` bumping the counter. |
| balance_swap_contract | `MCBalancer.cfg` | pass | `SwapContract` holds on four identical nodes with five pods and two CLI iterations. Every swap exchanges two migratable pods from opposite sides of the pivot, with equal scalar maps, and it strictly lowers the entropy of the next snapshot. `Listings` also lets every listing fail (the panic) or only n1 succeed, whose pivot is +Inf when m1 and g1 fill its memory. |
| balance_termination | `MCBalancerMixed_termination.cfg` | violation | `Termination` fails. On nodes whose free ratios are 0.2, 0.8, 1.5 and 3, the node walk alternates between the pairs (1,3) and (2,4) forever. |
| balance_partial_snapshot | `MCBalancerPartial` with `MCBalancer_partial.cfg` | violation | `SwapContract` fails when the listings of n3 and n4 fail. On the snapshot of n1 (c1) and n2 (m1, d1) the pivot is 11/10 and swapping c1 and m1 lowers the entropy. The cluster's pivot is 25/12, because n3 and n4 have almost no memory free; both nodes lie below it, and the cluster's entropy rises from 79/7 to 139/12. |
| place_evicts_smaller | `MCPlacePolicy_evict.cfg` | pass | The setup is three nodes, one pending 8-CPU pod and five running pods, with both drivers, `MigrateMayFail` and the scheduler interleaved. `EvictsOnlySmaller`: every pod the planner deletes asks for strictly less CPU and memory than the pod it places, also when `MigratePod` fails before or after its `deletePod`. Every action and every outcome (ok, fail, panic) is reached. |
| place_failure_after_delete | `MCPlacePolicy_failed.cfg` | violation | `NoEvictionOnFailure` (spec section 7: a failed placement made no mutations) fails on the evict instance. The first iteration places e by deleting h. In the second, `placeCapacity` moves f directly to n3; `MigratePod` deletes f and then fails after the delete, and `placeCapacity` returns false (placement.go:40). The multi path finds nothing, and `PlaceWorkload` returns "place pod failed" with f deleted. |
| place_target_fits | `MCPlacePolicy_target.cfg` | violation | `PlacedTargetFits` fails. The multi path reports the pod placed on a node that still lacks room for it. |
| place_displaced_stranded | `MCPlacePolicy_stranded.cfg` | violation | `DisplacedPodsRunAgain` fails under `LiveSpec`, with a fair scheduler. To place e (8 CPU) on n1, the multi path deletes f (4 CPU) and h (3 CPU and a GPU). Direct placement removes a pod from its source NodeInfo but never adds it to the target's (placement.go:44), so both are planned onto n3, which has 4 CPU free. The scheduler binds e to n1 and f to n3, and h never finds room again. |
| place_running_pod | `MCPlacePolicy_running.cfg` | violation | `DisplacesOnlyForPending` fails on the evict instance. e is placed on n1 by deleting f and h, and the scheduler binds e. The next iteration lists e again, because only the `IsPlaceable` filter survives, and deletes a from n3, planning it onto n2, to make room for the running e. |
| migrate_executor | `MCMigrate.cfg` | pass | Every API call may fail and the process may die between calls, and the three calls (a swap of a bare and a controller's pod, and single migrations of a controller's and a job's pod) run against the controllers and the scheduler. `ScaleSafety`: the executor's Scale writes refine `ScaleProtocol!SafetySpec`. `SurgeBeforeDelete`: `MigratePod`'s own `deletePod` of a controller's pod comes only after its +1 write succeeded (spec S6). `SwapPods`' delayed deletions, after the scale-down, are not covered. |
| migrate_lost_pod | `MCMigrate_lost.cfg` | violation | `NoBarePodLost` fails. `deletePod` of the bare pod succeeds, `reSchedulePod`'s Create fails, and the call returns: the pod is gone, and no controller brings it back. |
| migrate_scale_clobber | `MCMigrateWriter` with `MCMigrate_clobber.cfg` | violation | `ScaleProtocolSpec` fails on its safety part. The executor reads 2 and writes 3, a user scales to 1, and the executor's second write sets 2. |

The violations are listed as findings in `PROJECT.json`, at the source line where each one happens.

Two more checks were run on the executor but are not kept as runs. With no other writer and `Failing = {}`, `ScaleProtocolSpec`, liveness included, holds on `MCMigrateWriter` (207 states). With `Failing = {"delete"}` its liveness fails: after `get`, `up` and a failed `delete`, `MigratePod` returns and the +1 stays for good (migrate.go:133, a hazard in `PROJECT.json`).

An earlier passing run checked `Pair` against the rank of `(a, b)` in the diagonal walk of N x N for every `a, b <= 10`, and it held. It was retired for balance_partial_snapshot: `Pair` is a pure function of two naturals, which a unit test reaches directly.

One more check on the Balancer is not kept as a run. With every listing succeeding on `MCBalancerPartial`, `ClusterFits` fails. n1 holds c1 and y1, so its memory is full and the ratio sentinel puts it rightmost. m1 is then swapped onto it, 22 of 16 memory units, because the fit tests at balance.go:151 and :156 are commented out. `MigratePod` only prefers the target node, so in the cluster the scheduler would land m1 elsewhere. The spec sets no fit requirement on a swap.

Earlier violation runs, retired to make room for later runs, found six defects. Each one also shows up in a unit test of one or two calls:

- `RemovePod` (node_info.go:216) gives back CPU and memory but not the extended resources that `AddPodInfo` took, so `SetNode`, `AddPod(gpu pod)`, `RemovePod(gpu pod)` leaves the node a GPU short.
- `BalancePolicy` (balance.go:82) loops only while `isSchedulingDone` holds, the opposite of the spec's convergence test, so on a cluster with nodes on both sides of the pivot it returns at once.
- `BalanceWorkload`'s pair loop (balance.go:152) skips a non-migratable pod at the end of the left list by moving `leftPodIndex` past the end, which ends the loop before the right list is exhausted: a swap that `swapIfPossible` accepts, `(c1, m1)`, is never tried.
- The multi path (placement.go:234) calls `placeCapacity` on each chosen pod with the snapshot it started from. `placeCapacity(f)` can displace h, another chosen pod, whose pod object keeps its old `NodeName`, and `placeCapacity(h)` then migrates h a second time (`EachEvictedOnce`; one `PlacePod` call shows it).
- `placeCapacity`'s log line (placement.go:37) calls `GetName` on the nil `fromNode` of a pending pod that fits a node directly, a panic. A GPU pod that no candidate covers also makes `computeMinimumMigrateablePods` index past its list (placement.go:301), but breadth-first search reaches the line-37 panic first, so a panic property cannot single out line 301. Both panics remain in the model as the outcome `panic`.

Each property of a passing run has a mutant in `PROJECT.json`: a variant of a mapped definition, with a plausible defect, under which TLC finds the property violated. The variants are:

- `ScalarsOf` counting CPU and memory as extended resources;
- `removeFromSlice` dropping the last entry instead of the matching one;
- the iteration test off by one, in the Balancer and in PlacePolicy;
- the scalar parity test walking only one pod's map;
- `computeEligiblePods` comparing only CPU;
- the executor's second `UpdateScale` adding one instead of subtracting, or leaving out the decrement;
- `MigratePod` deleting the pod before the scale-up.

### Bounds

- **NodeInfoSpec.** One node is enough, because NodeInfo methods touch only their receiver. Three objects let a clone be cloned again, and let a clone and its source each be changed. The objects are interchangeable model values, so they are checked up to symmetry. `SetNode` is enabled, as in `GetSystemSnapshot`, only on an object that has no node and no pods. A `SetNode` on an object that already holds pods would reset `Available` to `Allocatable`; the strategy never makes that call. `MaxPodsOnNode` = 3 and `MaxCalls` = 8 allow duplicate entries, removal from the middle of the list, and repeated add/remove cycles. The call bound is needed because the scalar drift makes `Available` fall without limit.
- **MCBalancer.** Four nodes give two nodes on each side of the pivot. Five pods give lists of two or three pods on a node, a GPU pod for the parity test, and a non-migratable pod on either side. `Iterations` = 2 lets a second call see the result of a swap. On this instance's uniform pods, a partial snapshot does not move the pivot across a swapped pair: with every subset of the nodes listable and one iteration, `SwapContract` held (135,084 states), so the pass run keeps only the full cluster, n1 alone and the empty listing, and the wrong swap needs MCBalancerPartial's memory-filling pods.
- **MCBalancerMixed.** Nodes of different shapes place even empty nodes on both sides of the pivot, which the livelock needs.
- **MCBalancerPartial.** Two pods that fill almost all of a node's memory (y1, y2) make the nodes they sit on lie far above any pivot; when the listings of those two nodes fail, the snapshot's pivot falls between the remaining two. `Listings` is every pair of nodes and the whole cluster, and one iteration is enough for one wrong swap.
- **MCPlacePolicy.** Three nodes of 10 CPU and one GPU each. Pods of 2 to 8 CPU give every branch of the planner:
  - direct placement;
  - single displacement;
  - chained displacement;
  - the multi path;
  - the GPU cases.

  `Iterations` = 2 lets a second planning see the first one's deletions after the scheduler has acted.
- **MCMigrate.** Three workloads, one of each kind. The controller has two replicas, so removing one pod leaves one running. Two nodes with room for three pods each mean the scheduler is never stuck. `MaxGen` = 5 pod objects per workload covers the controller's two pods plus the replacement for each of the executor's steps (at most three per call). The three calls together reach every instruction kind, the NotFound of a delayed deletion after the controller removed the pod, and every error branch. `MaxVersion` = 3 bounds the other writer to the Scale's first versions, enough to write between the executor's read and its last write.

### Fairness

The Balancer process is one goroutine that waits on nothing in the modelled part, so it keeps taking steps until it exits. `Spec` states this as `[]<><<Next>>_vars \/ <>[](pc \in {"exit", "crashed"})`. This is weak fairness of `Next`, because `Next` is enabled in every state: the passing run checks for deadlock, and `Terminating` lets the final state stutter. It is written without `ENABLED` because TLC evaluates the enabledness of the snapshot and entropy actions very slowly.

`PlacePolicy!Spec` assumes no fairness; its safety runs check deadlock, because `Terminating` lets the exited or crashed process stutter and every other state has a driver step. `LiveSpec` adds two assumptions:

- `DriverProgress`: the driver is one goroutine, every one of its steps changes `pc`, and one is enabled until it exits (`PlacePod` always has an outcome).
- `SchedulerFairness`: strong fairness of `Schedule(p, _)` for each pod. The scheduler retries a pending pod whenever the cluster changes, so a pod for which room appears again and again is eventually bound.

Both are written without `ENABLED`, as `[]<>CanSchedule(p) => []<><<p bound>>_podNode`, because TLC evaluates `ENABLED` of the planner's actions very slowly.

The executor's goroutine makes its API calls one after another, and each call returns an answer or an error, so `FairSpec` and `WriterSpec` assume weak fairness of `Executor`. The orchestrator gets no fairness: `ScaleProtocolSpec`'s liveness asks only that the executor write back its raise.

## What is not modelled yet

- **The executor composed with the policies.** `Balancer` and `PlacePolicy` still treat a migration as an atomic exchange or deletion. `Migrate` shows why the executor cannot refine `Balancer!SwapPods`: the scheduler, not the executor, chooses where a replacement lands, and a controller may remove the new replica instead of the old one (migrate.go:30).
- **An availability bound**, for example that a workload is never more than one pod short. The code deletes the pod right after the +1 write, without waiting for a replacement (spec S6 says it waits, migrate.go:132).
- **Liveness of the pod being placed.** Its eventual binding is no promise: the displaced pods, pending again, may take the room back, and the cluster may be too full. Only the displaced pods' return is stated (`DisplacedPodsRunAgain`).

The following are left out on purpose:

- flag parsing, kubeconfig loading and node listing in the CLI, which are I/O;
- `GetNodeResourceUsage` and `GetStatus`, which only feed log lines;
- the affinity helpers, whose results are given as pod sets;
- the generated API conversion code.
- `NodeInfo.String`, which is formatting; `FilterOutPods`, a query nothing calls; and `resetSlicesIfEmpty`, which only separates a nil slice from an empty one, and no comparison in the strategy sees that difference;
- the `Resource.Clone` that `NodeInfo.Clone` calls, which is outside `src/`. It is taken to be a deep copy, as spec section 3 says.
