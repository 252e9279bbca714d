----------------------------- MODULE Placement -----------------------------
(***************************************************************************)
(* The placement planner of scheduler/placement.go (component E) and the  *)
(* place policy of place.go that drives it.                               *)
(*                                                                         *)
(* The planner works on a snapshot `ns` (a sequence of NodeInfo records in *)
(* the order of the `nodes` argument) that it mutates as it goes: a pod    *)
(* placed directly is removed from its NodeInfo.  Every MigratePod call    *)
(* that can delete a pod is recorded, in order, in `mig`.  sort.Slice is  *)
(* not stable, so each planner operator returns the SET of outcomes the   *)
(* possible sort orders lead to.  An outcome is a record                  *)
(*   [res |-> "ok" | "fail" | "panic", node |-> i, ns |-> ns', mig |-> s]  *)
(* where node is the index of the returned NodeInfo (0 for nil).          *)
(*                                                                         *)
(* A pod object keeps the Spec.NodeName it had when it was listed, even   *)
(* after the planner removes it from its NodeInfo: that name is home[p].  *)
(***************************************************************************)
EXTENDS NodeInfo, Cantor

CONSTANTS
  MigratablePods,   \* pods for which capacity.IsMigratable holds
  HyphenatedPods,   \* pods whose namespace or name contains "-"
  Admits,           \* <<pod, node>> pairs passing the node-selector/taint predicates
  MigrateMayFail,   \* whether a MigratePod API call may return an error
  DeleteLastPods    \* pods of a Job or operator: deletePod is MigratePod's last call

\* Go ranges over maps in random order; with more than one extended
\* resource the comparator of computeMinimumMigrateablePod is not a function
\* of its arguments.  The model keeps to the deterministic case.
ASSUME Cardinality(ScalarNames) <= 1 /\ MigrateMayFail \in BOOLEAN

IsMigratable(p) == p \in MigratablePods

\* nodeutil.PodFitsCurrentNode / PodFitsAnyOtherNode (outside the
\* repository): predicate-level fit, no resources.
PodFitsCurrentNode(p, node) == <<p, node>> \in Admits
PodFitsAnyOtherNode(p, ns, home) ==
  \E i \in DOMAIN ns : ns[i].node # home[p] /\ PodFitsCurrentNode(p, ns[i].node)

\* CalculateResource of every pod, computed once: it depends only on the spec.
ResOf == [q \in Pods |-> CalculateResource(q)]
Res(p) == ResOf[p]

\* int(math.Abs(float64(x)/capacity.MB)): |x| in whole MiB.
AbsInt(x) == IF x < 0 THEN -x ELSE x
AbsMiB(x) == AbsInt(x) \div MB

Outcome(res, node, ns, mig) == [res |-> res, node |-> node, ns |-> ns, mig |-> mig]

(***************************************************************************)
(* checkPlacementElibility: available CPU, but allocatable memory and     *)
(* allocatable extended resources, summed over the snapshot.              *)
(***************************************************************************)
checkPlacementElibility(p, ns, home) ==
  LET cpuSum == SeqSum([i \in DOMAIN ns |-> ns[i].available.cpu])
      memorySum == SeqSum([i \in DOMAIN ns |-> ns[i].allocatable.mem])
      srSum(k) == SeqSum([i \in DOMAIN ns |-> Get(ns[i].allocatable.sr, k)])
      isUnAvailable == \E k \in DOMAIN Res(p).res.sr : srSum(k) < Res(p).res.sr[k]
  IN /\ cpuSum >= Res(p).non0CPU
     /\ memorySum >= Res(p).non0Mem
     /\ ~isUnAvailable
     /\ PodFitsAnyOtherNode(p, ns, home)

\* The node test of computeNormalPlacement: another node, admitted, whose
\* Available covers the non-zero CPU and memory and every extended resource.
FitsDirectly(p, n, home) ==
  /\ n.node # home[p]
  /\ PodFitsCurrentNode(p, n.node)
  /\ Res(p).non0CPU <= n.available.cpu
  /\ Res(p).non0Mem <= n.available.mem
  /\ \A k \in DOMAIN Res(p).res.sr : Get(n.available.sr, k) >= Res(p).res.sr[k]

\* computeNormalPlacement: the NodeInfo of the pod's own node (0 if none)
\* and the first NodeInfo the pod fits directly (0 if none).
computeNormalPlacement(p, ns, home) ==
  LET to == FirstIndex({i \in DOMAIN ns : FitsDirectly(p, ns[i], home)})
  IN [from |-> FirstIndex({i \in DOMAIN ns : ns[i].node = home[p]}), to |-> to, found |-> to # 0]

\* computePlacementPriority's key: the sum of Cantor pairs of the pod's
\* gaps to the node's Available.
PlacementScore(p, n) ==
  LET cpuGap == AbsInt(Res(p).non0CPU - n.available.cpu)
      memGap == AbsMiB(Res(p).non0Mem - n.available.mem)
      srGap(k) == AbsInt(Res(p).res.sr[k] - Get(n.available.sr, k))
      ks == SetToSeq(DOMAIN Res(p).res.sr)
  IN SeqSum([i \in DOMAIN ks |-> Pair(srGap(ks[i]), cpuGap) + Pair(srGap(ks[i]), memGap)])
     + Pair(cpuGap, memGap)

\* computePlacementPriority sorts the node names by score, and the callers'
\* loop over that order stops at the first node that has eligible pods
\* (the indices H).  sort.Slice is not stable, so that node may be any node with
\* eligible pods whose score no other such node beats.
FirstByPriority(p, ns, H) ==
  {i \in H : \A j \in H : PlacementScore(p, ns[i]) <= PlacementScore(p, ns[j])}

\* A variant of computeEligiblePods that compares only the CPU of a
\* candidate with that of the pod to place, not its memory.
computeEligiblePodsCpuOnly(p, n) ==
  LET place == Res(p)
      diffCpu == place.non0CPU - n.available.cpu
      diffMem == place.non0Mem - n.available.mem
      isUnAvailable(q) ==
        \E k \in DOMAIN place.res.sr \cap DOMAIN n.available.sr :
           \/ Get(Res(q).res.sr, k) < place.res.sr[k] - n.available.sr[k]
           \/ Get(Res(q).res.sr, k) >= place.res.sr[k]
  IN IF ~PodFitsCurrentNode(p, n.node) THEN {}
     ELSE {q \in ToSet(n.pods) :
             /\ IsMigratable(q)
             /\ Res(q).non0CPU >= diffCpu /\ Res(q).non0Mem >= diffMem
             /\ Res(q).non0CPU < place.non0CPU
             /\ ~isUnAvailable(q)}

\* computeEligiblePods: migratable pods of the node that cover its deficit
\* for the pod yet ask for less CPU and memory than it.
computeEligiblePods(p, n) ==
  LET place == Res(p)
      diffCpu == place.non0CPU - n.available.cpu
      diffMem == place.non0Mem - n.available.mem
      isUnAvailable(q) ==
        \E k \in DOMAIN place.res.sr \cap DOMAIN n.available.sr :
           \/ Get(Res(q).res.sr, k) < place.res.sr[k] - n.available.sr[k]
           \/ Get(Res(q).res.sr, k) >= place.res.sr[k]
  IN IF ~PodFitsCurrentNode(p, n.node) THEN {}
     ELSE {q \in ToSet(n.pods) :
             /\ IsMigratable(q)
             /\ Res(q).non0CPU >= diffCpu /\ Res(q).non0Mem >= diffMem
             /\ Res(q).non0CPU < place.non0CPU /\ Res(q).non0Mem < place.non0Mem
             /\ ~isUnAvailable(q)}

\* The comparator of computeMinimumMigrateablePod: the extended resource
\* both pods have, if their quantities differ, else the non-zero CPU.
MinPodLess(q, r) ==
  LET common == {k \in DOMAIN Res(q).res.sr \cap DOMAIN Res(r).res.sr :
                   Res(q).res.sr[k] # Res(r).res.sr[k]}
  IN IF common # {} THEN \A k \in common : Res(q).res.sr[k] < Res(r).res.sr[k]
     ELSE Res(q).non0CPU < Res(r).non0CPU

\* computeMinimumMigrateablePod: the pods the sort can put first.
computeMinimumMigrateablePod(eligible) ==
  {q \in eligible : \A r \in eligible : ~MinPodLess(r, q)}

(***************************************************************************)
(* MigratePod(pod, fromNode, toNode, false) as the planner sees it: a nil *)
(* fromNode returns nil at once; otherwise the pod is deleted ("ok").  If *)
(* API calls may fail, a call before deletePod may return an error with   *)
(* nothing deleted ("err"), and for every pod but a Job's or an           *)
(* operator's a call after it (the Create of a bare pod, the second       *)
(* UpdateScale of a controller's) may return one with the pod already     *)
(* deleted ("errDeleted").                                                *)
(***************************************************************************)
MigratePod(p, from) ==
  IF from = 0 THEN {"noop"}
  ELSE {"ok"} \cup (IF MigrateMayFail THEN {"err"} ELSE {})
              \cup (IF MigrateMayFail /\ p \notin DeleteLastPods THEN {"errDeleted"} ELSE {})

\* The planner's return of nil, nil, false after a MigratePod error: the
\* snapshot is left as it was, whether or not the pod was deleted.
MigrateFailed(p, m, ns) == Outcome("fail", 0, ns, IF m = "errDeleted" THEN <<p>> ELSE <<>>)

\* computeMultipleEligiblePods: the node's pods, in order, asking for less
\* CPU and memory than the pod and less of every extended resource both
\* have.  IsMigratable is not consulted.
computeMultipleEligiblePods(p, n) ==
  LET place == Res(p) IN
  KeepIn(n.pods, {q \in ToSet(n.pods) :
    /\ Res(q).non0CPU < place.non0CPU
    /\ Res(q).non0Mem < place.non0Mem
    /\ ~\E k \in DOMAIN place.res.sr \cap DOMAIN Res(q).res.sr :
          Res(q).res.sr[k] >= place.res.sr[k]})

\* sortMigrateablePods: the pods ordered by their Cantor score, then looked
\* up again by splitting the key namespace + "-" + name on "-": a pod with a
\* "-" in its namespace or name is not found and is dropped.
MigrateScore(q) ==
  LET cpu == Res(q).non0CPU
      memMiB == Res(q).non0Mem \div MB
      sr == Res(q).res.sr
      ks == SetToSeq(DOMAIN sr)
  IN SeqSum([i \in DOMAIN ks |-> Pair(sr[ks[i]], cpu) + Pair(sr[ks[i]], memMiB)])
     + Pair(cpu, memMiB)
MigrateScoreOf == [q \in Pods |-> MigrateScore(q)]
\* The arrangements an unstable sort by score can yield (as SortSlice):
\* repeatedly take any remaining index of least score.
RECURSIVE ScoreOrders(_, _)
ScoreOrders(s, rest) ==
  IF rest = {} THEN {<<>>}
  ELSE UNION { { <<s[i]>> \o t : t \in ScoreOrders(s, rest \ {i}) } :
                 i \in {i \in rest : \A j \in rest : MigrateScoreOf[s[i]] <= MigrateScoreOf[s[j]]} }
sortMigrateablePods(pods) ==
  { KeepIn(o, Pods \ HyphenatedPods) : o \in ScoreOrders(pods, DOMAIN pods) }

(***************************************************************************)
(* computeMinimumMigrateablePods: grow the prefix `cur` of the eligible   *)
(* list until it covers the node's deficit.  computeTotalCpuMilicore sums *)
(* the third value of CalculateResource, the non-zero MEMORY, and         *)
(* computeTotalMemoryMB yields MiB that are compared with a deficit in    *)
(* bytes; the memory-only case tests the CPU total.  When the extended    *)
(* resources are not covered and the list is exhausted, eligible[1]       *)
(* panics (index out of range): [panic |-> TRUE].                         *)
(***************************************************************************)
RECURSIVE computeMinimumMigrateablePods(_, _, _, _)
computeMinimumMigrateablePods(p, eligible, cur, n) ==
  LET totalCpuMiliCore == SeqSum([i \in DOMAIN cur |-> Res(cur[i]).non0Mem])
      totalMemMB == SeqSum([i \in DOMAIN cur |-> Res(cur[i]).non0Mem]) \div MB
      placed == Res(p)
      isUnAvailable ==
        \E k \in DOMAIN placed.res.sr :
           SeqSum([i \in DOMAIN cur |-> Get(Res(cur[i]).res.sr, k)]) < placed.res.sr[k]
      cpuDiff == placed.non0CPU - n.available.cpu
      memDiff == placed.non0Mem - n.available.mem
      covered ==
        \/ cpuDiff > 0 /\ memDiff > 0 /\ totalCpuMiliCore >= cpuDiff /\ totalMemMB >= memDiff
        \/ cpuDiff > 0 /\ memDiff < 0 /\ totalCpuMiliCore >= cpuDiff
        \/ memDiff > 0 /\ cpuDiff < 0 /\ totalCpuMiliCore >= cpuDiff
  IN IF ~isUnAvailable /\ (covered \/ Len(eligible) <= 1)
     THEN {[panic |-> FALSE, pods |-> s] : s \in sortMigrateablePods(cur)}
     ELSE IF Len(eligible) <= 1 THEN {[panic |-> TRUE, pods |-> <<>>]}
     ELSE computeMinimumMigrateablePods(p, Tail(eligible), Append(cur, eligible[2]), n)

RECURSIVE placeCapacity(_, _, _), placeCapacityWithMultipleMigration(_, _, _),
          placeEach(_, _, _, _), PlacePod(_, _, _)

(***************************************************************************)
(* placeCapacity: if the snapshot is eligible, place the pod directly.  A *)
(* pending pod has no fromNode, and the log line before MigratePod calls *)
(* GetName on fromNode.Node(), a nil *v1.Node: the goroutine panics.     *)
(* Otherwise take the first node in priority order that has eligible     *)
(* pods and return the placement of its minimum pod, whatever it gives.  *)
(***************************************************************************)
placeCapacity(p, ns, home) ==
  LET fail == Outcome("fail", 0, ns, <<>>)
      Has == {i \in DOMAIN ns : computeEligiblePods(p, ns[i]) # {}}
  IN IF ~checkPlacementElibility(p, ns, home) THEN {fail}
     ELSE UNION {
       IF d.found /\ d.from = 0 THEN {Outcome("panic", 0, ns, <<>>)}
       ELSE IF d.found
       THEN { IF m = "ok"
              THEN Outcome("ok", d.from, [ns EXCEPT ![d.from] = RemovePod(@, p).ni], <<p>>)
              ELSE MigrateFailed(p, m, ns) : m \in MigratePod(p, d.from) }
       ELSE IF first = {} THEN {fail}
       ELSE UNION { placeCapacity(q, ns, home) :
                      q \in UNION { computeMinimumMigrateablePod(computeEligiblePods(p, ns[i])) : i \in first } }
       : d \in {computeNormalPlacement(p, ns, home)}, first \in {FirstByPriority(p, ns, Has)} }

(***************************************************************************)
(* placeCapacityWithMultipleMigration: runs only when the snapshot is NOT *)
(* eligible.  A direct fit migrates the pod and returns its own node.     *)
(* Otherwise the first node in priority order with multiply-eligible pods *)
(* gives the pods to move; each is placed with placeCapacity, falling     *)
(* back to this function, and the node is returned as placed whatever   *)
(* those placements gave.                                                 *)
(***************************************************************************)
placeCapacityWithMultipleMigration(p, ns, home) ==
  LET fail == Outcome("fail", 0, ns, <<>>)
      Has == {i \in DOMAIN ns : Len(computeMultipleEligiblePods(p, ns[i])) # 0}
  IN IF checkPlacementElibility(p, ns, home) THEN {fail}
     ELSE UNION {
       IF d.found THEN { IF m = "ok" THEN Outcome("ok", d.from, ns, <<p>>) ELSE MigrateFailed(p, m, ns) : m \in MigratePod(p, d.from) }
       ELSE IF first = {} THEN {fail}
       ELSE UNION { IF c.panic THEN {Outcome("panic", 0, ns, <<>>)}
                    ELSE { Outcome(IF r.res = "panic" THEN "panic" ELSE "ok", c.node, r.ns, r.mig) :
                             r \in placeEach(c.pods, ns, <<>>, home) }
                  : c \in UNION { LET e == computeMultipleEligiblePods(p, ns[i]) IN
                                  { [panic |-> cc.panic, pods |-> cc.pods, node |-> i] : cc \in computeMinimumMigrateablePods(p, e, <<e[1]>>, ns[i]) }
                                : i \in first } }
       : d \in {computeNormalPlacement(p, ns, home)}, first \in {FirstByPriority(p, ns, Has)} }

\* The loop of placeCapacityWithMultipleMigration over the pods to move,
\* threading the snapshot and the migrations: placeCapacity, falling back
\* to placeCapacityWithMultipleMigration when it fails, which is PlacePod
\* with its result ignored; res is "ok" or "panic".
placeEach(s, ns, mig, home) ==
  IF s = <<>> THEN {Outcome("ok", 0, ns, mig)}
  ELSE UNION { IF o.res = "panic" THEN {Outcome("panic", 0, o.ns, mig \o o.mig)}
               ELSE placeEach(Tail(s), o.ns, mig \o o.mig, home)
             : o \in PlacePod(Head(s), ns, home) }

\* PlacePod: the single-pod placement, else the multi-pod placement.
PlacePod(p, ns, home) ==
  UNION { IF s.res # "fail" THEN {s}
          ELSE { [r EXCEPT !.mig = s.mig \o @] : r \in placeCapacityWithMultipleMigration(p, s.ns, home) }
        : s \in placeCapacity(p, ns, home) }

=============================================================================
