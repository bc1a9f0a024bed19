-------------------------------- MODULE Sums --------------------------------
(* The sum of a sequence of numbers, as a loop adds it up.                 *)
EXTENDS Integers, Sequences

Total(s) == LET sum[k \in 0..Len(s)] == IF k = 0 THEN 0 ELSE sum[k - 1] + s[k] IN sum[Len(s)]
=============================================================================
