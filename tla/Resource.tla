------------------------------ MODULE Resource ------------------------------
(***************************************************************************)
(* Resource arithmetic of the defragmentation strategy (component A).      *)
(*                                                                         *)
(* A resource vector is a record [cpu, mem, sr] where sr is a scalar       *)
(* ("extended") resource map: a function whose DOMAIN is the set of names  *)
(* present in the Go map, so that a key present with quantity 0 differs   *)
(* from an absent key, as it does for the code's `_, ok := m[name]`.       *)
(*                                                                         *)
(* Memory is kept in model bytes; MB is the number of model bytes in one   *)
(* MiB, so that the code's int64(float64(x)/MB) truncation is modelled by  *)
(* what it does rather than as the identity.                               *)
(***************************************************************************)
EXTENDS Integers, Sequences, FiniteSets

CONSTANTS
  MB,               \* model bytes per MiB (capacity.MB)
  DefaultMilliCPU,  \* non-zero CPU default for a container without a CPU request
  DefaultMemory,    \* non-zero memory default for a container without a memory request
  ScalarNames,      \* names of extended resources (e.g. a GPU)
  Pods,             \* pod identities: the namespace/name key of GetPodKey
  PodSpec           \* pod -> [containers, initContainers], each a sequence of request maps

ASSUME MB \in Nat \ {0}
ASSUME DefaultMilliCPU \in Nat \ {0} /\ DefaultMemory \in Nat \ {0}

CPU == "cpu"
Memory == "memory"

\* The value of a Go map lookup: the zero value for an absent key.
Get(m, k) == IF k \in DOMAIN m THEN m[k] ELSE 0

\* m[k] += r[k] for every key k of r (the Go loops over res.ScalarResources).
ScalarAdd(m, r) == [k \in DOMAIN m \cup DOMAIN r |-> Get(m, k) + Get(r, k)]
ScalarSub(m, r) == [k \in DOMAIN m \cup DOMAIN r |-> Get(m, k) - Get(r, k)]

NoScalars == [k \in {} |-> 0]

\* First-order sequence helpers, so that no operator argument is passed
\* on the planner's paths: the sum of a sequence of integers, the
\* subsequence of the elements in S (Go's append-if loop), and the least
\* index of a set of indices (0 for none: the loop that breaks at the
\* first match and leaves its result nil).
SeqSum(s) ==
  LET S[i \in 0..Len(s)] == IF i = 0 THEN 0 ELSE S[i - 1] + s[i]
  IN S[Len(s)]
RECURSIVE KeepIn(_, _)
KeepIn(s, S) ==
  IF s = <<>> THEN <<>>
  ELSE (IF Head(s) \in S THEN <<Head(s)>> ELSE <<>>) \o KeepIn(Tail(s), S)
FirstIndex(I) == IF I = {} THEN 0 ELSE CHOOSE i \in I : \A j \in I : i <= j

\* A variant of ScalarsOf that keeps every requested name, CPU and memory
\* included, as extended resources.
ScalarsOfAllKeys(req) == req

\* The scalar part of a container's request list.
ScalarsOf(req) == [k \in DOMAIN req \cap ScalarNames |-> req[k]]

\* schedutil.GetNonzeroRequests: a missing CPU or memory request counts as the default.
NonzeroCPU(req) == IF CPU \in DOMAIN req THEN req[CPU] ELSE DefaultMilliCPU
NonzeroMem(req) == IF Memory \in DOMAIN req THEN req[Memory] ELSE DefaultMemory

MaxOf(a, b) == IF a >= b THEN a ELSE b

\* Resource.SetMaxResource: component-wise maximum with a container's requests.
SetMaxResource(res, req) ==
  [cpu |-> MaxOf(res.cpu, Get(req, CPU)),
   mem |-> MaxOf(res.mem, Get(req, Memory)),
   sr  |-> [k \in DOMAIN res.sr \cup DOMAIN ScalarsOf(req) |->
              MaxOf(Get(res.sr, k), Get(ScalarsOf(req), k))]]

(***************************************************************************)
(* CalculateResource(pod) = (res, non0CPU, non0Mem): the requests of the   *)
(* runtime containers are summed, then every init container raises each   *)
(* component to at least its own request (init containers never run        *)
(* together with the others).                                             *)
(***************************************************************************)
CalculateResource(p) ==
  LET cs  == PodSpec[p].containers
      ics == PodSpec[p].initContainers
      RECURSIVE SumC(_)
      SumC(i) == IF i = 0
                 THEN [res |-> [cpu |-> 0, mem |-> 0, sr |-> NoScalars], non0CPU |-> 0, non0Mem |-> 0]
                 ELSE LET acc == SumC(i - 1) IN
                      [res |-> [cpu |-> acc.res.cpu + Get(cs[i], CPU),
                                mem |-> acc.res.mem + Get(cs[i], Memory),
                                sr  |-> ScalarAdd(acc.res.sr, ScalarsOf(cs[i]))],
                       non0CPU |-> acc.non0CPU + NonzeroCPU(cs[i]),
                       non0Mem |-> acc.non0Mem + NonzeroMem(cs[i])]
      RECURSIVE MaxI(_)
      MaxI(i) == IF i = 0 THEN SumC(Len(cs))
                 ELSE LET acc == MaxI(i - 1) IN
                      [res |-> SetMaxResource(acc.res, ics[i]),
                       non0CPU |-> MaxOf(acc.non0CPU, NonzeroCPU(ics[i])),
                       non0Mem |-> MaxOf(acc.non0Mem, NonzeroMem(ics[i]))]
  IN MaxI(Len(ics))

\* getCpuRequests / getMemoryRequests (pod_info.go): the non-zero CPU and
\* memory of a pod, used as sort keys by the balancer.
getCpuRequests(p) ==
  LET cs == PodSpec[p].containers
      ics == PodSpec[p].initContainers
      RECURSIVE S(_), M(_)
      S(i) == IF i = 0 THEN 0 ELSE S(i - 1) + NonzeroCPU(cs[i])
      M(i) == IF i = 0 THEN S(Len(cs)) ELSE MaxOf(M(i - 1), NonzeroCPU(ics[i]))
  IN M(Len(ics))

getMemoryRequests(p) ==
  LET cs == PodSpec[p].containers
      ics == PodSpec[p].initContainers
      RECURSIVE S(_), M(_)
      S(i) == IF i = 0 THEN 0 ELSE S(i - 1) + NonzeroMem(cs[i])
      M(i) == IF i = 0 THEN S(Len(cs)) ELSE MaxOf(M(i - 1), NonzeroMem(ics[i]))
  IN M(Len(ics))

\* sort.Slice(s, less): the sort is not stable, so it may yield any
\* rearrangement of s in which no element is less than one before it.  An
\* arrangement is built by repeatedly taking any remaining element that no
\* other remaining element is less than.
SortSlice(s, Less(_, _)) ==
  LET RECURSIVE Orders(_)
      Orders(rest) ==
        IF rest = {} THEN {<<>>}
        ELSE UNION { { <<i>> \o t : t \in Orders(rest \ {i}) } :
                       i \in {i \in rest : \A j \in rest : ~Less(s[j], s[i])} }
  IN { [k \in DOMAIN s |-> s[o[k]]] : o \in Orders(DOMAIN s) }

\* The in-place sorts of SortPodsBasedOnCpu and SortPodsBasedOnMemory.
SortPodsBasedOnCpu(s) == SortSlice(s, LAMBDA a, b : getCpuRequests(a) < getCpuRequests(b))
SortPodsBasedOnMemory(s) == SortSlice(s, LAMBDA a, b : getMemoryRequests(a) < getMemoryRequests(b))

\* int64(float64(x) / MB): conversion to MiB, truncating toward zero.
ToMiB(x) == IF x >= 0 THEN x \div MB ELSE -((-x) \div MB)

=============================================================================
