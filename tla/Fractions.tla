----------------------------- MODULE Fractions ------------------------------
(***************************************************************************)
(* Fractions in lowest terms, for the quotients that the code computes in  *)
(* f64: averages of entry prices and the margin scale.                     *)
(***************************************************************************)
EXTENDS Integers, FiniteSetsExt

Gcd(m, n) == Max({k \in 1 .. Max({m, n, 1}) : m % k = 0 /\ n % k = 0})
Abs(x) == IF x < 0 THEN -x ELSE x

Frac(num, den) ==
  LET s == IF den < 0 THEN -1 ELSE 1
      g == Gcd(Abs(num), Abs(den))
  IN [num |-> (s * num) \div g, den |-> (s * den) \div g]

Plus(a, b) == Frac(a.num * b.den + b.num * a.den, a.den * b.den)
Times(a, n) == Frac(a.num * n, a.den)
Minus(a, b) == Plus(a, Times(b, -1))
AtMost(a, b) == a.num * b.den <= b.num * a.den
Zero == Frac(0, 1)
=============================================================================
