---------------------------------- MODULE Sums ----------------------------------
(***************************************************************************)
(* Finite sums of integers indexed 0 .. n-1, the way the engine's loops    *)
(* "for i := range players" accumulate them.                               *)
(***************************************************************************)
EXTENDS Integers

\* f[0] + f[1] + ... + f[n-1]: a recursive function, so that it can be
\* reasoned about (SumTheorems) as well as evaluated.
Sum(n, f) ==
  LET s[k \in 0 .. n] == IF k = 0 THEN 0 ELSE s[k - 1] + f[k - 1]
  IN  s[n]

AtMost(a, b) == IF a <= b THEN a ELSE b

\* The largest of f[0], ..., f[n-1] and 0.
Highest(n, f) ==
  CHOOSE m \in {0} \cup {f[k] : k \in 0 .. n - 1} : \A k \in 0 .. n - 1 : f[k] <= m
=================================================================================
