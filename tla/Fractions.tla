------------------------------ MODULE Fractions ------------------------------
(* Exact fractions [n, d], d > 0, in lowest terms, where the code has float64. *)
EXTENDS Integers

Abs(a) == IF a < 0 THEN -a ELSE a

gcd[p \in Nat \X Nat] == IF p[2] = 0 THEN p[1] ELSE gcd[<<p[2], p[1] % p[2]>>]

Fraction == [n : Int, d : Nat \ {0}]

Frac(n, d) == LET g == gcd[<<Abs(n), d>>] IN [n |-> n \div g, d |-> d \div g]
Whole(n) == [n |-> n, d |-> 1]

Plus(a, b) == Frac(a.n * b.d + b.n * a.d, a.d * b.d)
Minus(a, b) == Frac(a.n * b.d - b.n * a.d, a.d * b.d)
Times(a, b) == Frac(a.n * b.n, a.d * b.d)
Over(a, b) == Frac(a.n * b.d, a.d * b.n)      \* b > 0

AtMost(a, b) == a.n * b.d <= b.n * a.d
Least(a, b) == IF AtMost(a, b) THEN a ELSE b
Greatest(a, b) == IF AtMost(a, b) THEN b ELSE a
==============================================================================
