------------------------------ MODULE Metrics ------------------------------
(***************************************************************************)
(* Pivot and entropy metrics of capacity/node_info.go (component D) over a *)
(* snapshot, a sequence of NodeInfo records.                               *)
(*                                                                         *)
(* The code computes in float64.  Here every ratio is an exact rational    *)
(* <<num, den>> with den > 0, kept in lowest terms.  The float results     *)
(* can differ from these only by rounding, which can only matter when two *)
(* compared quantities are equal or nearly so.                             *)
(***************************************************************************)
EXTENDS NodeInfo

CONSTANT
  RatioSentinel  \* the ratio 1000000 given to a node with under one MiB free

\* The code's 1000000 exceeds every ratio of real milliCPU per MiB; the
\* value given here must exceed every ratio the model's quantities yield.
ASSUME RatioSentinel \in Nat \ {0}

RECURSIVE GCD(_, _)
GCD(a, b) == IF b = 0 THEN a ELSE GCD(b, a % b)

AbsInt(x) == IF x < 0 THEN -x ELSE x

\* The rational n/d in lowest terms with a positive denominator (d # 0).
Frac(n, d) ==
  LET g == GCD(AbsInt(n), AbsInt(d))
      s == IF d < 0 THEN -1 ELSE 1
  IN <<s * (n \div g), s * (d \div g)>>

RatAdd(a, b) == Frac(a[1] * b[2] + b[1] * a[2], a[2] * b[2])
RatSub(a, b) == Frac(a[1] * b[2] - b[1] * a[2], a[2] * b[2])
RatAbs(a) == <<AbsInt(a[1]), a[2]>>
RatLess(a, b) == a[1] * b[2] < b[1] * a[2]
RatZero == <<0, 1>>

(***************************************************************************)
(* GetCpuMemoryRatio: Available.MilliCPU per MiB of Available.Memory.  The *)
(* zero test uses the truncated MiB value; the division uses the exact     *)
(* quotient float64(mem)/MB, so the ratio is cpu * MB / mem.               *)
(***************************************************************************)
GetCpuMemoryRatio(n) ==
  IF ToMiB(n.available.mem) = 0 THEN <<RatioSentinel, 1>>
  ELSE IF n.available.cpu = 0 THEN RatZero
  ELSE Frac(n.available.cpu * MB, n.available.mem)

(***************************************************************************)
(* GetPivotRatio: total free CPU over the truncated MiB of total free      *)
(* memory.  When that MiB value is 0 the float64 division gives +Inf or    *)
(* -Inf by the sign of the CPU total, and NaN for 0/0.  These are kept as  *)
(* the pairs <<1, 0>>, <<-1, 0>> and <<0, 0>>, on which RatLess agrees     *)
(* with Go's float comparison: +Inf is above every finite ratio, -Inf      *)
(* below, and NaN is neither below nor above anything.                     *)
(***************************************************************************)
TotalAvailableCpu(ns) == FoldLeft(LAMBDA acc, n : acc + n.available.cpu, 0, ns)
TotalAvailableMem(ns) == FoldLeft(LAMBDA acc, n : acc + n.available.mem, 0, ns)
PivotDefined(ns) == ToMiB(TotalAvailableMem(ns)) # 0
GetPivotRatio(ns) ==
  LET cpu == TotalAvailableCpu(ns) IN
  IF PivotDefined(ns) THEN Frac(cpu, ToMiB(TotalAvailableMem(ns)))
  ELSE <<IF cpu > 0 THEN 1 ELSE IF cpu < 0 THEN -1 ELSE 0, 0>>

GetDistanceFromPivot(n, pivot) == RatAbs(RatSub(pivot, GetCpuMemoryRatio(n)))

\* GetSystemEntropy: the sum of the distances of all nodes from the pivot,
\* the pivot being recomputed from the same snapshot.
GetSystemEntropy(ns) ==
  LET pivot == GetPivotRatio(ns) IN
  FoldLeft(LAMBDA acc, n : RatAdd(acc, GetDistanceFromPivot(n, pivot)), RatZero, ns)

\* SortNodesBasedRatio: every order ascending by ratio (sort.Slice is not stable).
SortNodesBasedRatio(ns) ==
  SortSlice(ns, LAMBDA a, b : RatLess(GetCpuMemoryRatio(a), GetCpuMemoryRatio(b)))

=============================================================================
