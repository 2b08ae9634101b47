------------------------------- MODULE Words --------------------------------
(***************************************************************************)
(* Numbers of a fixed width in bytes, and the operators on them.           *)
(***************************************************************************)
EXTENDS Integers

CONSTANT ByteValues     \* bound: the values of one byte, for all widths alike

ASSUME ByteValuesAssumption == ByteValues \in Nat /\ ByteValues >= 2 /\ ByteValues % 2 = 0

(* What w bytes can hold, and their value as a signed number.              *)
Values(w) ==
  LET power[k \in 0..w] == IF k = 0 THEN 1 ELSE ByteValues * power[k - 1]
  IN  power[w]
Wrap(w, n)   == n % Values(w)
Signed(w, n) == Wrap(w, n + Values(w) \div 2) - Values(w) \div 2

(* An operator on signed numbers; a quotient is truncated towards zero.    *)
Truth(b) == IF b THEN 1 ELSE 0
Quotient(n, d) ==
  LET Abs(k) == IF k < 0 THEN -k ELSE k
      q == Abs(n) \div Abs(d)
  IN  IF (n < 0) = (d < 0) THEN q ELSE -q
Operations == {"plus", "minus", "multi", "divide", "cmp", "not_eq", "less", "less_eq",
               "more", "more_eq", "and", "or"}
Meaning(op, n, k) ==
  CASE op = "plus"    -> n + k
    [] op = "minus"   -> n - k
    [] op = "multi"   -> n * k
    [] op = "divide"  -> Quotient(n, k)
    [] op = "cmp"     -> Truth(n = k)
    [] op = "not_eq"  -> Truth(n # k)
    [] op = "less"    -> Truth(n < k)
    [] op = "less_eq" -> Truth(n <= k)
    [] op = "more"    -> Truth(n > k)
    [] op = "more_eq" -> Truth(n >= k)
    [] op = "and"     -> Truth(n # 0 /\ k # 0)
    [] op = "or"      -> Truth(n # 0 \/ k # 0)
=============================================================================
