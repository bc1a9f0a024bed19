----------------------------- MODULE DataLemmas -----------------------------
(***************************************************************************)
(* What the recursive definitions of the model compute, shared by the      *)
(* modules that prove theorems about its components.                       *)
(*                                                                         *)
(* First induction, in first-order form: the induction theorems of the     *)
(* library take the property as an operator parameter; here it is a set,   *)
(* whose elements are the numbers (or the finite sets) that have the       *)
(* property.  Then sums of sequences.  Last the operators of VFpgaFabric,  *)
(* for every design, lane count and net values: lookup tables, padded      *)
(* inputs, and the recursions behind a pass and a clock edge.              *)
(***************************************************************************)
EXTENDS VFpgaFabric, Sums, SequenceTheorems, WellFoundedInduction, TLAPS

(* A set of numbers has a least one.                                       *)
LEMMA LeastNumber ==
  ASSUME NEW S, S \subseteq Nat, S # {}
  PROVE  \E x \in S : \A y \in S : x <= y
<1> DEFINE R == OpToRel(<, Nat)
<1>1. IsWellFoundedOn(R, Nat)
  BY NatLessThanWellFounded
<1>2. PICK x \in S : \A y \in S : <<y, x>> \notin R
  BY <1>1, WFMin
<1>3. ASSUME NEW y \in S PROVE x <= y
  <2>1. x \in Nat /\ y \in Nat /\ <<y, x>> \notin R
    BY <1>2
  <2>2. x \in Int /\ y \in Int /\ ~(y < x)
    BY <2>1 DEF OpToRel
  <2> HIDE DEF R
  <2> QED
    BY <2>2
<1> QED
  BY <1>3

(* A set of numbers that holds 0 and the successor of each of its elements *)
(* holds every number: the least number outside it would have none before. *)
LEMMA NatBySets ==
  ASSUME NEW S, 0 \in S, \A n \in Nat : n \in S => n + 1 \in S
  PROVE  Nat \subseteq S
<1> DEFINE T == Nat \ S
<1> SUFFICES ASSUME T # {} PROVE FALSE
  OBVIOUS
<1>1. T \subseteq Nat
  OBVIOUS
<1> HIDE DEF T
<1>2. PICK x \in T : \A y \in T : x <= y
  BY <1>1, LeastNumber
<1>3. x \in Nat /\ x # 0
  BY <1>2 DEF T
<1>4. x - 1 \in Nat /\ ~(x <= x - 1) /\ (x - 1) + 1 = x
  BY <1>3
<1>5. x - 1 \in T
  BY <1>2, <1>4 DEF T
<1> QED
  BY <1>2, <1>4, <1>5

(* The same up to a bound.                                                 *)
LEMMA IntervalBySets ==
  ASSUME NEW n \in Nat, NEW S, 0 \in S, \A k \in 0 .. n - 1 : k \in S => k + 1 \in S
  PROVE  0..n \subseteq S
<1> DEFINE U == {k \in Nat : k <= n => k \in S}
<1>1. 0 \in U
  OBVIOUS
<1>2. ASSUME NEW k \in Nat, k \in U PROVE k + 1 \in U
  BY <1>2
<1> HIDE DEF U
<1>3. Nat \subseteq U
  BY <1>1, <1>2, NatBySets
<1> QED
  BY <1>3 DEF U

(* Of finitely many numbers one is the first of the greatest.              *)
LEMMA FirstGreatest ==
  ASSUME NEW n \in Nat, n > 0, NEW at \in [1..n -> Int]
  PROVE  \E p \in 1..n : \A q \in 1..n : at[q] <= at[p] /\ (at[q] = at[p] => p <= q)
<1> DEFINE First(m, p) == \A q \in 1..m : at[q] <= at[p] /\ (at[q] = at[p] => p <= q)
           U == {m \in 0..n : m > 0 => \E p \in 1..m : First(m, p)}
<1>1. 0 \in U
  OBVIOUS
<1>2. ASSUME NEW m \in 0 .. n - 1, m \in U PROVE m + 1 \in U
  <2>1. m + 1 \in 1..n /\ \A q \in 1..n : at[q] \in Int
    OBVIOUS
  <2>2. CASE m = 0
    <3>1. \A q \in 1 .. m + 1 : q = m + 1
      BY <2>2
    <3>2. at[m + 1] \in Int
      BY <2>1
    <3>3. \A q \in 1 .. m + 1 : at[q] <= at[m + 1] /\ q = m + 1
      BY <3>1, <3>2
    <3>4. First(m + 1, m + 1)
      BY <2>1, <3>3
    <3> QED
      BY <2>1, <3>4
  <2>3. CASE m > 0
    <3>1. PICK p \in 1..m : First(m, p)
      BY <1>2, <2>3
    <3>2. \A q \in 1 .. m + 1 : q \in 1..m \/ q = m + 1
      OBVIOUS
    <3>3. p \in 1..n /\ at[p] \in Int /\ at[m + 1] \in Int /\ p <= m + 1 /\ \A q \in 1..m : q <= m + 1
      BY <2>1
    <3>4. CASE at[m + 1] <= at[p]
      <4>1. First(m + 1, p)
        BY <3>1, <3>2, <3>3, <3>4
      <4> QED
        BY <2>1, <3>3, <4>1
    <3>5. CASE ~(at[m + 1] <= at[p])
      <4>1. ASSUME NEW q \in 1..m PROVE at[q] <= at[m + 1] /\ at[q] # at[m + 1]
        BY <2>1, <3>1, <3>3, <3>5
      <4>2. First(m + 1, m + 1)
        BY <2>1, <3>2, <4>1
      <4> QED
        BY <2>1, <4>2
    <3> QED
      BY <3>4, <3>5
  <2> QED
    BY <2>2, <2>3
<1> HIDE DEF U
<1>3. 0..n \subseteq U
  BY <1>1, <1>2, IntervalBySets
<1>4. n \in 0..n
  OBVIOUS
<1>5. n \in U
  BY <1>3, <1>4
<1>6. \E p \in 1..n : First(n, p)
  BY <1>5 DEF U
<1> QED
  BY <1>6

(* The values of a recursion over 0..n, for any first value and any steps. *)
Recursive(f, n, v, steps) ==
  f = [k \in 0..n |-> IF k = 0 THEN v ELSE steps[k][f[k - 1]]]

(* A recursion over 0..n whose steps stay in a set has a solution.         *)
LEMMA RecursionExists ==
  ASSUME NEW n \in Nat, NEW T, NEW v \in T, NEW steps \in [1..n -> [T -> T]]
  PROVE  \E f \in [0..n -> T] : Recursive(f, n, v, steps)
<1> USE DEF Recursive
<1> DEFINE U == {m \in Nat : m <= n => \E f \in [0..m -> T] : Recursive(f, m, v, steps)}
<1>1. 0 \in U
  <2>1. [k \in 0..0 |-> v] \in [0..0 -> T] /\ Recursive([k \in 0..0 |-> v], 0, v, steps)
    OBVIOUS
  <2> QED
    BY <2>1
<1>2. ASSUME NEW m \in Nat, m \in U PROVE m + 1 \in U
  <2> SUFFICES ASSUME m + 1 <= n
               PROVE  \E f \in [0 .. m + 1 -> T] : Recursive(f, m + 1, v, steps)
    OBVIOUS
  <2>1. PICK f \in [0..m -> T] : Recursive(f, m, v, steps)
    BY <1>2
  <2> DEFINE g == [k \in 0 .. m + 1 |-> IF k <= m THEN f[k] ELSE steps[m + 1][f[m]]]
  <2>2. m \in 0..m /\ f[m] \in T /\ m + 1 \in 1..n /\ m + 1 \in 0 .. m + 1 /\ ~(m + 1 <= m)
    OBVIOUS
  <2>3. g \in [0 .. m + 1 -> T]
    BY <2>2
  <2>4. \A k \in 0..m : f[k] = IF k = 0 THEN v ELSE steps[k][f[k - 1]]
    BY <2>1, Zenon
  <2>5. ASSUME NEW k \in 0 .. m + 1 PROVE g[k] = IF k = 0 THEN v ELSE steps[k][g[k - 1]]
    <3>1. CASE k = m + 1
      <4>1. k - 1 = m /\ m \in 0 .. m + 1 /\ m <= m /\ k # 0
        BY <3>1
      <4>2. g[k] = steps[m + 1][f[m]] /\ g[m] = f[m]
        BY <3>1, <2>2, <4>1
      <4> QED
        BY <3>1, <4>1, <4>2
    <3>2. CASE k \in 0..m
      <4>1. g[k] = f[k] /\ (k # 0 => g[k - 1] = f[k - 1])
        BY <3>2
      <4> QED
        BY <3>2, <4>1, <2>4
    <3> QED
      BY <3>1, <3>2
  <2>6. g = [k \in 0 .. m + 1 |-> IF k = 0 THEN v ELSE steps[k][g[k - 1]]]
    BY <2>5
  <2> QED
    BY <2>3, <2>6
<1> HIDE DEF U
<1>3. Nat \subseteq U
  BY <1>1, <1>2, NatBySets
<1> QED
  BY <1>3 DEF U
-----------------------------------------------------------------------------
(* Sums *)

(* The sums of the beginnings of a sequence.                               *)
PartialSums(f, n, s) ==
  /\ f \in [0..n -> Int]
  /\ f[0] = 0
  /\ \A k \in 1..n : f[k] = f[k - 1] + s[k]

(* A function on 1..n is a sequence of n elements.                         *)
LEMMA LengthOf ==
  ASSUME NEW n \in Nat, NEW T, NEW s \in [1..n -> T]
  PROVE  s \in Seq(T) /\ Len(s) = n
<1>1. s \in Seq(T)
  BY SeqDef
<1>2. Len(s) \in Nat /\ DOMAIN s = 1..Len(s)
  BY <1>1, LenProperties
<1>3. 1..n = 1..Len(s)
  BY <1>2
<1> QED
  BY <1>1, <1>2, <1>3

(* A total is the last of the partial sums.                                *)
LEMMA TotalUnfolds ==
  ASSUME NEW n \in Nat, NEW s \in [1..n -> Int]
  PROVE  \E f : PartialSums(f, n, s) /\ Total(s) = f[n]
<1> DEFINE steps == [k \in 1..n |-> [x \in Int |-> x + s[k]]]
           F(f) == f = [k \in 0..n |-> IF k = 0 THEN 0 ELSE f[k - 1] + s[k]]
           sum == CHOOSE f : F(f)
<1>1. Len(s) = n
  BY LengthOf
<1>2. steps \in [1..n -> [Int -> Int]]
  <2>1. ASSUME NEW k \in 1..n PROVE [x \in Int |-> x + s[k]] \in [Int -> Int]
    <3>1. s[k] \in Int
      OBVIOUS
    <3> QED
      BY <3>1
  <2> QED
    BY <2>1
<1>3. PICK g \in [0..n -> Int] : Recursive(g, n, 0, steps)
  <2>1. 0 \in Int
    OBVIOUS
  <2> HIDE DEF steps
  <2> QED
    BY <1>2, <2>1, RecursionExists, Zenon
<1>4. F(g)
  <2>1. ASSUME NEW k \in 0..n PROVE g[k] = IF k = 0 THEN 0 ELSE g[k - 1] + s[k]
    <3>1. g[k] = IF k = 0 THEN 0 ELSE steps[k][g[k - 1]]
      BY <1>3 DEF Recursive
    <3>2. CASE k # 0
      <4>1. k \in 1..n /\ g[k - 1] \in Int
        BY <3>2
      <4> QED
        BY <3>1, <3>2, <4>1
    <3> QED
      BY <3>1, <3>2
  <2> QED
    BY <2>1
<1>5. F(sum)
  BY <1>4, Zenon
<1> HIDE DEF sum
<1>6. \A k \in 0..n : sum[k] = IF k = 0 THEN 0 ELSE sum[k - 1] + s[k]
  BY <1>5
<1>7. sum[0] = 0 /\ \A k \in 1..n : sum[k] = sum[k - 1] + s[k]
  <2>1. 0 \in 0..n /\ \A k \in 1..n : k \in 0..n /\ k # 0
    OBVIOUS
  <2> QED
    BY <1>6, <2>1
<1>8. \A k \in 0..n : sum[k] \in Int
  <2> DEFINE U == {k \in 0..n : sum[k] \in Int}
  <2>1. 0 \in U
    BY <1>7
  <2>2. \A k \in 0 .. n - 1 : k \in U => k + 1 \in U
    <3>1. ASSUME NEW k \in 0 .. n - 1, sum[k] \in Int PROVE sum[k + 1] \in Int
      <4>1. k + 1 \in 1..n /\ (k + 1) - 1 = k /\ s[k + 1] \in Int
        OBVIOUS
      <4>2. sum[k + 1] = sum[k] + s[k + 1]
        BY <1>7, <4>1
      <4> QED
        BY <3>1, <4>1, <4>2
    <3> QED
      BY <3>1
  <2> HIDE DEF U
  <2>3. 0..n \subseteq U
    BY <2>1, <2>2, IntervalBySets
  <2> QED
    BY <2>3 DEF U
<1>9. PartialSums(sum, n, s)
  <2>1. sum \in [0..n -> Int]
    BY <1>5, <1>8
  <2> QED
    BY <1>7, <2>1 DEF PartialSums
<1>10. Total(s) = sum[n]
  BY <1>1, Zenon DEF Total, sum, F
<1> QED
  BY <1>9, <1>10

(* A sum of integers is one.                                               *)
LEMMA TotalInt ==
  ASSUME NEW n \in Nat, NEW s \in [1..n -> Int]
  PROVE  Total(s) \in Int
<1>1. PICK f : PartialSums(f, n, s) /\ Total(s) = f[n]
  BY TotalUnfolds
<1> QED
  BY <1>1 DEF PartialSums

(* Changing one number changes the sum by as much.                         *)
LEMMA TotalChange ==
  ASSUME NEW n \in Nat, NEW s \in [1..n -> Int], NEW t \in [1..n -> Int], NEW j \in 1..n,
         \A k \in 1..n : k # j => t[k] = s[k]
  PROVE  Total(t) = Total(s) - s[j] + t[j]
<1>1. PICK f : PartialSums(f, n, s) /\ Total(s) = f[n]
  BY TotalUnfolds
<1>2. PICK g : PartialSums(g, n, t) /\ Total(t) = g[n]
  BY TotalUnfolds
<1> DEFINE U == {k \in 0..n : g[k] = IF k < j THEN f[k] ELSE f[k] - s[j] + t[j]}
<1>3. 0 \in U
  BY <1>1, <1>2 DEF PartialSums
<1>4. \A k \in 0 .. n - 1 : k \in U => k + 1 \in U
  <2> SUFFICES ASSUME NEW k \in 0 .. n - 1, k \in U PROVE k + 1 \in U
    OBVIOUS
  <2>1. k + 1 \in 1..n /\ (k + 1) - 1 = k /\ s[k + 1] \in Int /\ t[k + 1] \in Int /\ s[j] \in Int /\ t[j] \in Int
    OBVIOUS
  <2>2. /\ f[k + 1] = f[k] + s[k + 1] /\ g[k + 1] = g[k] + t[k + 1]
        /\ f[k] \in Int /\ g[k] \in Int
    BY <1>1, <1>2, <2>1 DEF PartialSums
  <2>3. CASE k + 1 = j
    <3>1. k < j /\ ~(k + 1 < j) /\ g[k] = f[k] /\ k + 1 \in 0..n
      BY <2>3
    <3>2. g[k + 1] = f[k] + t[j] /\ f[k + 1] = f[k] + s[j]
      BY <2>2, <2>3, <3>1
    <3>3. g[k + 1] = f[k + 1] - s[j] + t[j]
      BY <2>1, <2>2, <3>2
    <3> QED
      BY <3>1, <3>3
  <2>4. CASE k + 1 # j
    <3>1. t[k + 1] = s[k + 1]
      BY <2>1, <2>4
    <3>2. (k + 1 < j <=> k < j) /\ k + 1 \in 0..n
      BY <2>4
    <3>3. CASE k < j
      <4>1. g[k] = f[k]
        BY <3>3
      <4>2. g[k + 1] = f[k + 1]
        BY <2>2, <3>1, <4>1
      <4> QED
        BY <3>2, <3>3, <4>2
    <3>4. CASE ~(k < j)
      <4>1. g[k] = f[k] - s[j] + t[j]
        BY <3>4
      <4>2. g[k + 1] = f[k + 1] - s[j] + t[j]
        BY <2>1, <2>2, <3>1, <4>1
      <4> QED
        BY <3>2, <3>4, <4>2
    <3> QED
      BY <3>3, <3>4
  <2> QED
    BY <2>3, <2>4
<1> HIDE DEF U
<1>5. 0..n \subseteq U
  BY <1>3, <1>4, IntervalBySets
<1>6. n \in U /\ ~(n < j)
  BY <1>5
<1> QED
  BY <1>1, <1>2, <1>6 DEF U

(* Sums keep the order of their numbers.                                   *)
LEMMA TotalMonotone ==
  ASSUME NEW n \in Nat, NEW s \in [1..n -> Int], NEW t \in [1..n -> Int],
         \A k \in 1..n : s[k] <= t[k]
  PROVE  Total(s) <= Total(t)
<1>1. PICK f : PartialSums(f, n, s) /\ Total(s) = f[n]
  BY TotalUnfolds
<1>2. PICK g : PartialSums(g, n, t) /\ Total(t) = g[n]
  BY TotalUnfolds
<1> DEFINE U == {k \in 0..n : f[k] <= g[k]}
<1>3. 0 \in U
  BY <1>1, <1>2 DEF PartialSums
<1>4. \A k \in 0 .. n - 1 : k \in U => k + 1 \in U
  <2> SUFFICES ASSUME NEW k \in 0 .. n - 1, k \in U PROVE k + 1 \in U
    OBVIOUS
  <2>1. k + 1 \in 1..n /\ (k + 1) - 1 = k /\ s[k + 1] \in Int /\ t[k + 1] \in Int
    OBVIOUS
  <2>2. /\ f[k + 1] = f[k] + s[k + 1] /\ g[k + 1] = g[k] + t[k + 1]
        /\ f[k] \in Int /\ g[k] \in Int
    BY <1>1, <1>2, <2>1 DEF PartialSums
  <2> QED
    BY <2>1, <2>2
<1> HIDE DEF U
<1>5. 0..n \subseteq U
  BY <1>3, <1>4, IntervalBySets
<1>6. n \in U
  BY <1>5
<1> QED
  BY <1>1, <1>2, <1>6 DEF U

(* The sum of n equal numbers.                                             *)
LEMMA TotalOfEqual ==
  ASSUME NEW n \in Nat, NEW m \in Int, NEW s \in [1..n -> Int], \A k \in 1..n : s[k] = m
  PROVE  Total(s) = n * m
<1>1. PICK f : PartialSums(f, n, s) /\ Total(s) = f[n]
  BY TotalUnfolds
<1> DEFINE U == {k \in 0..n : f[k] = k * m}
<1>2. 0 \in U
  BY <1>1 DEF PartialSums
<1>3. \A k \in 0 .. n - 1 : k \in U => k + 1 \in U
  <2> SUFFICES ASSUME NEW k \in 0 .. n - 1, k \in U PROVE k + 1 \in U
    OBVIOUS
  <2>1. k + 1 \in 1..n /\ (k + 1) - 1 = k /\ s[k + 1] = m
    OBVIOUS
  <2>2. f[k + 1] = f[k] + m
    BY <1>1, <2>1 DEF PartialSums
  <2>3. (k + 1) * m = k * m + m
    OBVIOUS
  <2> QED
    BY <2>1, <2>2, <2>3
<1> HIDE DEF U
<1>4. 0..n \subseteq U
  BY <1>2, <1>3, IntervalBySets
<1>5. n \in U
  BY <1>4
<1> QED
  BY <1>1, <1>5 DEF U

-----------------------------------------------------------------------------
(* Lookup tables, passes and edges *)

(* The output of a LUT is a word, whatever the net values.                 *)
LEMMA LutOutIsWord ==
  ASSUME NEW l, NEW sig
  PROVE  LutOut(l, sig) \in Word
BY DEF LutOut, Evaluate, Word

(* A LUT's output depends on the nets it reads only.                       *)
LEMMA LutOutLocal ==
  ASSUME NEW l, NEW s, NEW t, \A n \in Reads(l) : s[n] = t[n]
  PROVE  LutOut(l, s) = LutOut(l, t)
BY DEF LutOut, Reads

(* A padded LUT keeps its table and its output, and each of its four inputs*)
(* is one of the LUT's own, or net 0 when it has none.                     *)
LEMMA Padded ==
  ASSUME NEW l \in MappedLut
  PROVE  /\ Pad(l).tt = l.tt /\ Pad(l).out = l.out
         /\ \A i \in 1..4 : i <= Len(l.in) => Pad(l).in[i] = l.in[i]
         /\ \A x \in Reads(Pad(l)) : x = 0 \/ \E i \in 1..Len(l.in) : x = l.in[i]
<1>1. l.in \in Seq(Net) /\ Len(l.in) \in Nat
  BY DEF MappedLut
<1>2. /\ Pad(l).tt = l.tt /\ Pad(l).out = l.out
      /\ Pad(l).in = [k \in 1..4 |-> IF k <= Len(l.in) THEN l.in[k]
                                     ELSE IF l.in = <<>> THEN 0 ELSE l.in[1]]
  BY DEF Pad, MappedLut
<1>3. l.in # <<>> => 1 \in 1..Len(l.in)
  BY <1>1
<1>4. \A i \in 1..4 : Pad(l).in[i] = 0 \/ \E j \in 1..Len(l.in) : Pad(l).in[i] = l.in[j]
  BY <1>1, <1>2, <1>3
<1>5. \A i \in 1..4 : i <= Len(l.in) => Pad(l).in[i] = l.in[i]
  BY <1>2
<1> QED
  BY <1>2, <1>4, <1>5 DEF Reads

-----------------------------------------------------------------------------
(***************************************************************************)
(* What a pass and an edge compute.  PassValues and EdgeValues are the last*)
(* entries of recursive functions, the values after 0, 1, 2, ... LUTs or   *)
(* registers; the loops of the simulator go through exactly these.         *)
(***************************************************************************)
PassAfter(cfg, v) ==
  LET step(lut, sig) == [sig EXCEPT ![lut.out] = LutOut(Pad(lut), sig)]
      after[k \in 0 .. Len(cfg.luts)] ==
        IF k = 0 THEN v
        ELSE CHOOSE r \in { step(cfg.luts[k], sig) : sig \in {after[k - 1]} } : TRUE
  IN  after

EdgeAfter(cfg, v) ==
  LET step(ff, sig) == [sig EXCEPT ![ff.q] = sig[ff.d]]
      after[k \in 0 .. Len(cfg.ffs)] ==
        IF k = 0 THEN v
        ELSE CHOOSE r \in { step(cfg.ffs[k], sig) : sig \in {after[k - 1]} } : TRUE
  IN  after

(* Words for the nets of a set.                                            *)
WordsOver(D) == [D -> Word]

(* The k-th LUT, and the k-th register, at net values sig.                 *)
LutStep(cfg, k, sig) == [sig EXCEPT ![cfg.luts[k].out] = LutOut(Pad(cfg.luts[k]), sig)]
FfStep(cfg, k, sig) == [sig EXCEPT ![cfg.ffs[k].q] = sig[cfg.ffs[k].d]]

LEMMA CallsAreLastEntries ==
  ASSUME NEW cfg, NEW v
  PROVE  /\ PassValues(cfg, v) = PassAfter(cfg, v)[Len(cfg.luts)]
         /\ EdgeValues(cfg, v) = EdgeAfter(cfg, v)[Len(cfg.ffs)]
BY Zenon DEF PassValues, PassAfter, EdgeValues, EdgeAfter

(* After k LUTs: the values after k - 1 with the k-th output recomputed.   *)
LEMMA PassUnfolds ==
  ASSUME NEW cfg, Len(cfg.luts) \in Nat, NEW D, NEW v \in WordsOver(D)
  PROVE  /\ PassAfter(cfg, v) \in [0 .. Len(cfg.luts) -> WordsOver(D)]
         /\ PassAfter(cfg, v)[0] = v
         /\ \A k \in 1 .. Len(cfg.luts) :
              PassAfter(cfg, v)[k] = LutStep(cfg, k, PassAfter(cfg, v)[k - 1])
<1> DEFINE n == Len(cfg.luts)
           T == WordsOver(D)
           step(k, sig) == LutStep(cfg, k, sig)
           steps == [k \in 1..n |-> [sig \in T |-> step(k, sig)]]
           body(f, k) == IF k = 0 THEN v
                         ELSE CHOOSE r \in { step(k, sig) : sig \in {f[k - 1]} } : TRUE
<1>1. ASSUME NEW k, NEW sig \in T PROVE step(k, sig) \in T
  BY LutOutIsWord DEF LutStep, WordsOver
<1>2. steps \in [1..n -> [T -> T]]
  BY <1>1
<1>3. PICK f \in [0..n -> T] : Recursive(f, n, v, steps)
  BY <1>2, RecursionExists
<1>4. ASSUME NEW h, NEW k PROVE body(h, k) = IF k = 0 THEN v ELSE step(k, h[k - 1])
  <2> HIDE DEF step
  <2>1. (CHOOSE r \in { step(k, sig) : sig \in {h[k - 1]} } : TRUE) = step(k, h[k - 1])
    BY Zenon
  <2> QED
    BY <2>1
<1>5. ASSUME NEW k \in 0..n PROVE f[k] = IF k = 0 THEN v ELSE step(k, f[k - 1])
  <2>1. f[k] = IF k = 0 THEN v ELSE steps[k][f[k - 1]]
    BY <1>3, Zenon DEF Recursive
  <2>2. k # 0 => k \in 1..n /\ k - 1 \in 0..n
    OBVIOUS
  <2>3. k # 0 => steps[k][f[k - 1]] = step(k, f[k - 1])
    BY <2>2
  <2> QED
    BY <2>1, <2>3
<1> HIDE DEF body, step
<1>6. \A k \in 0..n : f[k] = body(f, k)
  BY <1>4, <1>5
<1>7. f = [k \in 0..n |-> body(f, k)]
  BY <1>6
<1>8. PassAfter(cfg, v) = CHOOSE g : g = [k \in 0..n |-> body(g, k)]
  BY Zenon DEF PassAfter, body, step, LutStep
<1>9. PassAfter(cfg, v) = [k \in 0..n |-> body(PassAfter(cfg, v), k)]
  BY <1>7, <1>8, Zenon
<1> DEFINE g == PassAfter(cfg, v)
<1>10. \A k \in 0..n : g[k] = IF k = 0 THEN v ELSE step(k, g[k - 1])
  BY <1>4, <1>9
<1> HIDE DEF g
<1>11. 0..n \subseteq {k \in 0..n : g[k] \in T}
  <2>1. 0 \in {k \in 0..n : g[k] \in T}
    BY <1>10
  <2>2. ASSUME NEW k \in 0 .. n - 1, k \in {j \in 0..n : g[j] \in T}
        PROVE  k + 1 \in {j \in 0..n : g[j] \in T}
    <3>1. k + 1 \in 0..n /\ k + 1 # 0 /\ (k + 1) - 1 = k
      OBVIOUS
    <3>2. g[k + 1] = step(k + 1, g[k])
      BY <1>10, <3>1
    <3> QED
      BY <1>1, <2>2, <3>1, <3>2
  <2> DEFINE U == {k \in 0..n : g[k] \in T}
  <2> HIDE DEF U
  <2>3. 0..n \subseteq U
    BY <2>1, <2>2, IntervalBySets DEF U
  <2> QED
    BY <2>3 DEF U
<1>12. g = [k \in 0..n |-> g[k]]
  BY <1>9 DEF g
<1>13. g \in [0..n -> T]
  BY <1>11, <1>12
<1>14. g[0] = v /\ \A k \in 1..n : g[k] = step(k, g[k - 1])
  BY <1>10
<1> QED
  BY <1>13, <1>14 DEF g, step

(* After k registers: the values after k - 1 with the k-th register's Q at  *)
(* the value of its D.                                                     *)
LEMMA EdgeUnfolds ==
  ASSUME NEW cfg, Len(cfg.ffs) \in Nat, NEW D, NEW v \in WordsOver(D),
         \A k \in 1 .. Len(cfg.ffs) : cfg.ffs[k].d \in D
  PROVE  /\ EdgeAfter(cfg, v) \in [0 .. Len(cfg.ffs) -> WordsOver(D)]
         /\ EdgeAfter(cfg, v)[0] = v
         /\ \A k \in 1 .. Len(cfg.ffs) :
              EdgeAfter(cfg, v)[k] = FfStep(cfg, k, EdgeAfter(cfg, v)[k - 1])
<1> DEFINE n == Len(cfg.ffs)
           T == WordsOver(D)
           step(k, sig) == FfStep(cfg, k, sig)
           steps == [k \in 1..n |-> [sig \in T |-> step(k, sig)]]
           body(f, k) == IF k = 0 THEN v
                         ELSE CHOOSE r \in { step(k, sig) : sig \in {f[k - 1]} } : TRUE
<1>1. ASSUME NEW k \in 1..n, NEW sig \in T PROVE step(k, sig) \in T
  BY DEF FfStep, WordsOver
<1>2. steps \in [1..n -> [T -> T]]
  BY <1>1
<1>3. PICK f \in [0..n -> T] : Recursive(f, n, v, steps)
  BY <1>2, RecursionExists
<1>4. ASSUME NEW h, NEW k PROVE body(h, k) = IF k = 0 THEN v ELSE step(k, h[k - 1])
  <2> HIDE DEF step
  <2>1. (CHOOSE r \in { step(k, sig) : sig \in {h[k - 1]} } : TRUE) = step(k, h[k - 1])
    BY Zenon
  <2> QED
    BY <2>1
<1>5. ASSUME NEW k \in 0..n PROVE f[k] = IF k = 0 THEN v ELSE step(k, f[k - 1])
  <2>1. f[k] = IF k = 0 THEN v ELSE steps[k][f[k - 1]]
    BY <1>3, Zenon DEF Recursive
  <2>2. k # 0 => k \in 1..n /\ k - 1 \in 0..n
    OBVIOUS
  <2>3. k # 0 => steps[k][f[k - 1]] = step(k, f[k - 1])
    BY <2>2
  <2> QED
    BY <2>1, <2>3
<1> HIDE DEF body, step
<1>6. \A k \in 0..n : f[k] = body(f, k)
  BY <1>4, <1>5
<1>7. f = [k \in 0..n |-> body(f, k)]
  BY <1>6
<1>8. EdgeAfter(cfg, v) = CHOOSE g : g = [k \in 0..n |-> body(g, k)]
  BY Zenon DEF EdgeAfter, body, step, FfStep
<1>9. EdgeAfter(cfg, v) = [k \in 0..n |-> body(EdgeAfter(cfg, v), k)]
  BY <1>7, <1>8, Zenon
<1> DEFINE g == EdgeAfter(cfg, v)
<1>10. \A k \in 0..n : g[k] = IF k = 0 THEN v ELSE step(k, g[k - 1])
  BY <1>4, <1>9
<1> HIDE DEF g
<1>11. 0..n \subseteq {k \in 0..n : g[k] \in T}
  <2>1. 0 \in {k \in 0..n : g[k] \in T}
    BY <1>10
  <2>2. ASSUME NEW k \in 0 .. n - 1, k \in {j \in 0..n : g[j] \in T}
        PROVE  k + 1 \in {j \in 0..n : g[j] \in T}
    <3>1. k + 1 \in 0..n /\ k + 1 \in 1..n /\ k + 1 # 0 /\ (k + 1) - 1 = k
      OBVIOUS
    <3>2. g[k + 1] = step(k + 1, g[k])
      BY <1>10, <3>1
    <3> QED
      BY <1>1, <2>2, <3>1, <3>2
  <2> DEFINE U == {k \in 0..n : g[k] \in T}
  <2> HIDE DEF U
  <2>3. 0..n \subseteq U
    BY <2>1, <2>2, IntervalBySets DEF U
  <2> QED
    BY <2>3 DEF U
<1>12. g = [k \in 0..n |-> g[k]]
  BY <1>9 DEF g
<1>13. g \in [0..n -> T]
  BY <1>11, <1>12
<1>14. g[0] = v /\ \A k \in 1..n : g[k] = step(k, g[k - 1])
  BY <1>10
<1> QED
  BY <1>13, <1>14 DEF g, step

(* A pass gives words, and changes only nets that a LUT drives.            *)
LEMMA PassKeeps ==
  ASSUME NEW cfg, Len(cfg.luts) \in Nat, NEW D, NEW v \in WordsOver(D)
  PROVE  /\ PassValues(cfg, v) \in WordsOver(D)
         /\ \A n \in D \ LutOutputs(cfg.luts) : PassValues(cfg, v)[n] = v[n]
<1> DEFINE m == Len(cfg.luts)
           f == PassAfter(cfg, v)
<1>1. /\ f \in [0..m -> WordsOver(D)] /\ f[0] = v
      /\ \A k \in 1..m : f[k] = LutStep(cfg, k, f[k - 1])
  BY PassUnfolds
<1>2. PassValues(cfg, v) = f[m]
  BY CallsAreLastEntries
<1> HIDE DEF f
<1>3. ASSUME NEW n \in D \ LutOutputs(cfg.luts)
      PROVE  f[m][n] = v[n]
  <2> DEFINE U == {k \in 0..m : f[k][n] = v[n]}
  <2>1. 0 \in U
    BY <1>1
  <2>2. ASSUME NEW k \in 0 .. m - 1, f[k][n] = v[n]
        PROVE  f[k + 1][n] = v[n]
    <3>1. k + 1 \in 1..m /\ (k + 1) - 1 = k /\ k \in 0..m
      OBVIOUS
    <3>2. f[k + 1] = LutStep(cfg, k + 1, f[k]) /\ f[k] \in WordsOver(D)
      BY <1>1, <3>1
    <3>3. cfg.luts[k + 1].out # n
      BY <3>1 DEF LutOutputs
    <3> QED
      BY <2>2, <3>2, <3>3 DEF LutStep, WordsOver
  <2>3. \A k \in 0 .. m - 1 : k \in U => k + 1 \in U
    BY <2>2
  <2> HIDE DEF U
  <2>4. 0..m \subseteq U
    BY <2>1, <2>3, IntervalBySets
  <2> QED
    BY <2>4 DEF U
<1>4. f[m] \in WordsOver(D)
  BY <1>1
<1> QED
  BY <1>2, <1>3, <1>4

(* A clock edge gives words, and changes only nets of registers.           *)
LEMMA EdgeKeeps ==
  ASSUME NEW cfg, Len(cfg.ffs) \in Nat, NEW D, NEW v \in WordsOver(D),
         \A k \in 1 .. Len(cfg.ffs) : cfg.ffs[k].d \in D
  PROVE  /\ EdgeValues(cfg, v) \in WordsOver(D)
         /\ \A n \in D \ FfOutputs(cfg.ffs) : EdgeValues(cfg, v)[n] = v[n]
<1> DEFINE m == Len(cfg.ffs)
           f == EdgeAfter(cfg, v)
<1>1. /\ m \in 0..m /\ f \in [0..m -> WordsOver(D)] /\ f[0] = v
      /\ \A k \in 1..m : f[k] = FfStep(cfg, k, f[k - 1])
  BY EdgeUnfolds
<1>2. EdgeValues(cfg, v) = f[m]
  BY CallsAreLastEntries
<1> HIDE DEF f
<1>3. ASSUME NEW n \in D \ FfOutputs(cfg.ffs)
      PROVE  f[m][n] = v[n]
  <2> DEFINE U == {k \in 0..m : f[k][n] = v[n]}
  <2>1. 0 \in U
    BY <1>1
  <2>2. ASSUME NEW k \in 0 .. m - 1, f[k][n] = v[n]
        PROVE  f[k + 1][n] = v[n]
    <3>1. k + 1 \in 1..m /\ (k + 1) - 1 = k /\ k \in 0..m
      OBVIOUS
    <3>2. f[k + 1] = FfStep(cfg, k + 1, f[k]) /\ f[k] \in WordsOver(D)
      BY <1>1, <3>1
    <3>3. cfg.ffs[k + 1].q # n
      BY <3>1 DEF FfOutputs
    <3> QED
      BY <2>2, <3>2, <3>3 DEF FfStep, WordsOver
  <2>3. \A k \in 0 .. m - 1 : k \in U => k + 1 \in U
    BY <2>2
  <2> HIDE DEF U
  <2>4. 0..m \subseteq U
    BY <2>1, <2>3, IntervalBySets
  <2> QED
    BY <2>4 DEF U
<1>4. f[m] \in WordsOver(D)
  BY <1>1
<1> QED
  BY <1>2, <1>3, <1>4
=============================================================================
