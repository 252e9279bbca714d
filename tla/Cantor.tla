------------------------------- MODULE Cantor -------------------------------
(***************************************************************************)
(* cantor/paridepair.go: the Cantor pairing the placement planner uses to  *)
(* score nodes and pods.                                                   *)
(*                                                                         *)
(* Every caller passes int(math.Abs(...)), so the inputs are natural       *)
(* numbers and the operators are given for those only.  On them the float  *)
(* arithmetic of the code is exact while 8z+1 < 2^52 (the square root is   *)
(* then correctly rounded and never reaches the next integer), so          *)
(* int(math.Floor((math.Sqrt(8z+1)-1)/2)) is floor((isqrt(8z+1)-1)/2).     *)
(***************************************************************************)
EXTENDS Integers

\* floor(math.Sqrt(float64(x))) for a natural number x.
FloorSqrt(x) ==
  LET RECURSIVE Up(_)
      Up(r) == IF (r + 1) * (r + 1) > x THEN r ELSE Up(r + 1)
  IN Up(0)

\* A variant of depair whose triangle index misses the "- 1".
depairOffByOne(z) ==
  LET t == FloorSqrt(8 * z + 1) \div 2
  IN <<(t * (t + 3)) \div 2 - z, z - (t * (t + 1)) \div 2>>

\* depair(z): the triangle index t, then x and y (Go's / on the even,
\* non-negative products t(t+3) and t(t+1) is exact).
depair(z) ==
  LET t == (FloorSqrt(8 * z + 1) - 1) \div 2
  IN <<(t * (t + 3)) \div 2 - z, z - (t * (t + 1)) \div 2>>

\* Pair(a, b): (a+b)(a+b+1) is even, so 0.5 * float64(...) + float64(b) is
\* an integer and int() keeps it; the result is returned only if depair
\* gives the inputs back, and -1 otherwise.
Pair(a, b) ==
  LET result == ((a + b) * (a + b + 1)) \div 2 + b
  IN IF (a > -1 \/ b > -1) /\ depair(result) = <<a, b>> THEN result ELSE -1

=============================================================================
