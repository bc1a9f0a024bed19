------------------------- MODULE CommandLineProofs -------------------------
(***************************************************************************)
(* What holds of every run of the command line tool, for every set of      *)
(* designs, testbenches and commands: time, clocks and cycles, the trace   *)
(* and the net values of the testbench executor, the exit code, the dump,  *)
(* and the cycles an automatic testbench gives a design.                   *)
(***************************************************************************)
EXTENDS CommandLine, DataLemmas

-----------------------------------------------------------------------------
(* The inductive invariant *)

Clock == [net : Nat, low : Nat \ {0}, high : Nat \ {0}, level : {0, 1}, toggle : Nat, init : {0, 1}]
Waits ==
  {NoWait} \cup [kind : {"ns"}, target : Nat]
  \cup [kind : {"edge"}, target : Nat, net : Nat, rising : BOOLEAN, before : BOOLEAN, tries : Nat]

Sample == [t : Nat, net : Nat, value : Word]

Typed ==
  /\ IsJob(job)
  /\ todo \in Seq(Statements)
  /\ wait \in Waits
  /\ values \in WordsOver(NetsOf(job))
  /\ time \in Nat
  /\ clocks \in Seq(Clock)
  /\ watched \in Seq(NetsOf(job)) /\ IsInjective(watched)
  /\ samples \in Seq(Sample)
  /\ result \in [passed : Nat, failed : Nat]
  /\ cycles \in Nat
  /\ late \in BOOLEAN

(* A wait for an edge is for a net with a clock.                           *)
WaitsForClock == wait # NoWait /\ wait.kind = "edge" => TogglesOn(wait.net) # {} /\ wait.net \in NetsOf(job)

(* Nothing is behind the simulated time.                                   *)
Ahead ==
  ~late =>
    /\ \A i \in 1..Len(clocks) : clocks[i].toggle > time
    /\ wait # NoWait => wait.target >= time

(* Where the first clock is in its period.                                 *)
Period(c) == c.low + c.high
FirstRise(c) == c.low + (IF c.init = 1 THEN c.high ELSE 0)
InPhase(c, n, t) ==
  IF c.level = 0
  THEN /\ c.toggle = FirstRise(c) + n * Period(c)
       /\ c.toggle <= t + c.low
  ELSE /\ c.toggle + Period(c) = FirstRise(c) + n * Period(c) + c.high
       /\ c.toggle <= t + c.high
Phase ==
  /\ clocks = <<>> => cycles = 0
  /\ clocks # <<>> /\ ~late => InPhase(clocks[1], cycles, time)

(* Samples s are the changes of the nets that are watched, and end at v.   *)
NoneOf(s, i, j, n) == \A k \in i + 1 .. j - 1 : s[k].net # n
EndsAt(s, nets, v) ==
  \A n \in nets : \E i \in 1..Len(s) :
    s[i].net = n /\ s[i].value = v[n] /\ NoneOf(s, i, Len(s) + 1, n)
OnlyChanges(s) ==
  \A j \in 1..Len(s) : \A i \in 1 .. j - 1 :
    s[i].net = s[j].net /\ s[i].value = s[j].value => ~NoneOf(s, i, j, s[i].net)
IsTrace(s, nets, v) ==
  /\ \A i \in 1..Len(s) : s[i].net \in nets
  /\ EndsAt(s, nets, v)
  /\ OnlyChanges(s)

Tracing ==
  /\ last = [n \in ToSet(watched) |-> values[n]]
  /\ IsTrace(samples, ToSet(watched), values)

(* Nothing runs before a testbench does.                                   *)
Idle ==
  /\ stage = "start" => job = NoJob
  /\ stage \in {"start", "loaded"} =>
       todo = <<>> /\ wait = NoWait /\ time = 0 /\ clocks = <<>> /\ watched = <<>> /\ samples = <<>>

(* How far the command is.                                                 *)
Ended ==
  /\ argv \in CommandLines
  /\ stage \in {"start", "loaded", "running", "dumped", "done"}
  /\ exit \in 0..4 \cup {argv.viewer}
  /\ stage \in {"running", "dumped"} => argv.command \in {"sim", "verify"}
  /\ stage = "dumped" =>
       /\ todo = <<>> /\ wait = NoWait
       /\ IF argv.writable THEN dump = Changes ELSE result.failed > 0

ToolInv == Typed /\ WaitsForClock /\ Ahead /\ Phase /\ Tracing /\ Idle /\ Ended /\ ZeroMeansPassed
-----------------------------------------------------------------------------
(* The trace *)

(* Those(s, S) are the elements of s in S, and each of them once when each *)
(* is in s once.                                                           *)
LEMMA ThoseAre ==
  ASSUME NEW T, NEW s \in Seq(T), NEW S
  PROVE  /\ Those(s, S) \in Seq(T)
         /\ ToSet(Those(s, S)) = ToSet(s) \cap S
         /\ IsInjective(s) => IsInjective(Those(s, S))
<1> DEFINE n == Len(s)
           step == [k \in 1..n |-> [x \in Seq(T) |-> IF s[k] \in S THEN Append(x, s[k]) ELSE x]]
           F(f) == f = [i \in 0..n |->
                          IF i = 0 THEN <<>> ELSE IF s[i] \in S THEN Append(f[i - 1], s[i]) ELSE f[i - 1]]
           those == CHOOSE f : F(f)
<1>1. n \in Nat /\ DOMAIN s = 1..n /\ \A k \in 1..n : s[k] \in T
  OBVIOUS
<1>2. step \in [1..n -> [Seq(T) -> Seq(T)]] /\ <<>> \in Seq(T)
  BY <1>1
<1>3. PICK f \in [0..n -> Seq(T)] : Recursive(f, n, <<>>, step)
  <2> HIDE DEF n, step
  <2> QED
    BY <1>1, <1>2, RecursionExists
<1>4. F(f)
  <2>1. f = [i \in 0..n |-> IF i = 0 THEN <<>> ELSE step[i][f[i - 1]]]
    BY <1>3, Zenon DEF Recursive
  <2>2. ASSUME NEW i \in 0..n, i # 0
        PROVE  step[i][f[i - 1]] = IF s[i] \in S THEN Append(f[i - 1], s[i]) ELSE f[i - 1]
    <3>1. i \in 1..n /\ i - 1 \in 0..n
      BY <2>2, <1>1
    <3>2. f[i - 1] \in Seq(T)
      BY <3>1, <1>3
    <3> QED
      BY <3>1, <3>2
  <2> HIDE DEF n, step
  <2> QED
    BY <2>1, <2>2, Zenon
<1>5. F(those)
  BY <1>4, Zenon
<1>6. Those(s, S) = those[n]
  BY Zenon DEF Those
<1>7. /\ those[0] = <<>>
      /\ \A i \in 1..n : those[i] = IF s[i] \in S THEN Append(those[i - 1], s[i]) ELSE those[i - 1]
  <2> HIDE DEF those
  <2>1. \A i \in 0..n : those[i] = IF i = 0 THEN <<>>
                                   ELSE IF s[i] \in S THEN Append(those[i - 1], s[i]) ELSE those[i - 1]
    BY <1>5, Zenon
  <2>2. 0 \in 0..n /\ \A i \in 1..n : i \in 0..n /\ i # 0
    BY <1>1
  <2> QED
    BY <2>1, <2>2, Zenon
<1> HIDE DEF those
<1> DEFINE Good(i) ==
             /\ those[i] \in Seq(T)
             /\ \A p \in 1 .. Len(those[i]) : those[i][p] \in S /\ \E k \in 1..i : s[k] = those[i][p]
             /\ \A k \in 1..i : s[k] \in S => \E p \in 1 .. Len(those[i]) : those[i][p] = s[k]
             /\ IsInjective(s) =>
                  \A p, q \in 1 .. Len(those[i]) : those[i][p] = those[i][q] => p = q
           U == {i \in 0..n : Good(i)}
<1>8. 0 \in U
  <2>1. those[0] \in Seq(T) /\ Len(those[0]) = 0 /\ 1..0 = {} /\ 0 \in 0..n
    BY <1>1, <1>7
  <2>2. Good(0)
    BY <2>1
  <2> QED
    BY <2>1, <2>2
<1>9. ASSUME NEW i \in 0 .. n - 1, Good(i)
      PROVE  Good(i + 1)
  <2> DEFINE a == those[i]
             b == those[i + 1]
  <2>1. i + 1 \in 1..n /\ (i + 1) - 1 = i /\ i \in Nat
    BY <1>1
  <2>2. b = IF s[i + 1] \in S THEN Append(a, s[i + 1]) ELSE a
    BY <2>1, <1>7
  <2>3. CASE s[i + 1] \notin S
    <3>1. b = a
      BY <2>2, <2>3
    <3> QED
      BY <3>1, <2>1, <2>3, <1>9, SMTT(30)
  <2>4. CASE s[i + 1] \in S
    <3>1. b = Append(a, s[i + 1])
      BY <2>2, <2>4
    <3>2. a \in Seq(T) /\ s[i + 1] \in T
      BY <1>9, <1>1, <2>1
    <3>3. /\ b \in Seq(T) /\ Len(b) = Len(a) + 1 /\ Len(a) \in Nat
          /\ b[Len(a) + 1] = s[i + 1]
          /\ \A p \in 1..Len(a) : b[p] = a[p]
      BY <3>1, <3>2
    <3> HIDE DEF a, b
    <3>4. ASSUME NEW p \in 1..Len(b) PROVE b[p] \in S /\ \E k \in 1 .. i + 1 : s[k] = b[p]
      <4>1. CASE p = Len(a) + 1
        BY <4>1, <3>3, <2>4, <2>1
      <4>2. CASE p \in 1..Len(a)
        <5>1. a[p] \in S /\ \E k \in 1..i : s[k] = a[p]
          BY <1>9, <4>2 DEF a
        <5> QED
          BY <5>1, <4>2, <3>3, <2>1
      <4> QED
        BY <4>1, <4>2, <3>3
    <3>5. \A k \in 1 .. i + 1 : s[k] \in S => \E p \in 1..Len(b) : b[p] = s[k]
      <4> SUFFICES ASSUME NEW k \in 1 .. i + 1, s[k] \in S PROVE \E p \in 1..Len(b) : b[p] = s[k]
        OBVIOUS
      <4>1. CASE k = i + 1
        BY <4>1, <3>3
      <4>2. CASE k \in 1..i
        <5>1. PICK p \in 1..Len(a) : a[p] = s[k]
          BY <1>9, <4>2 DEF a
        <5> QED
          BY <5>1, <3>3
      <4> QED
        BY <4>1, <4>2, <2>1
    <3>6. ASSUME IsInjective(s), NEW p \in 1..Len(b), NEW q \in 1..Len(b), b[p] = b[q]
          PROVE  p = q
      <4>1. ASSUME NEW r \in 1..Len(a) PROVE a[r] # s[i + 1]
        <5>1. PICK k \in 1..i : s[k] = a[r]
          BY <1>9 DEF a
        <5>2. k \in 1..n /\ i + 1 \in 1..n /\ k # i + 1
          BY <2>1
        <5> QED
          BY <5>1, <5>2, <3>6, <1>1 DEF IsInjective
      <4>2. p \in 1..Len(a) /\ q \in 1..Len(a) => p = q
        BY <1>9, <3>3, <3>6 DEF a
      <4> QED
        BY <4>1, <4>2, <3>3, <3>6
    <3> QED
      BY <3>3, <3>4, <3>5, <3>6 DEF b
  <2> QED
    BY <2>3, <2>4
<1> HIDE DEF Good
<1>10. \A i \in 0 .. n - 1 : i \in U => i + 1 \in U
  BY <1>9, <1>1 DEF U
<1>11. 0..n \subseteq U
  <2> HIDE DEF U, n
  <2> QED
    BY <1>1, <1>8, <1>10, IntervalBySets
<1>12. Good(n)
  BY <1>1, <1>11 DEF U
<1> DEFINE r == Those(s, S)
<1>13. r = those[n]
  BY <1>6
<1>14. /\ r \in Seq(T) /\ DOMAIN r = 1..Len(r)
       /\ \A p \in 1..Len(r) : r[p] \in S /\ \E k \in 1..n : s[k] = r[p]
       /\ \A k \in 1..n : s[k] \in S => \E p \in 1..Len(r) : r[p] = s[k]
       /\ IsInjective(s) => \A p, q \in 1..Len(r) : r[p] = r[q] => p = q
  <2>1. r \in Seq(T)
    BY <1>12, <1>13 DEF Good
  <2>2. DOMAIN r = 1..Len(r)
    BY <2>1
  <2> QED
    BY <1>12, <1>13, <2>1, <2>2 DEF Good
<1> HIDE DEF r
<1>15. ToSet(r) = ToSet(s) \cap S
  <2>1. \A x : x \in ToSet(r) <=> \E p \in 1..Len(r) : r[p] = x
    BY <1>14 DEF ToSet
  <2>2. \A x : x \in ToSet(s) <=> \E k \in 1..n : s[k] = x
    BY <1>1 DEF ToSet
  <2>3. ASSUME NEW x, x \in ToSet(r) PROVE x \in ToSet(s) \cap S
    BY <2>1, <2>2, <2>3, <1>14
  <2>4. ASSUME NEW x, x \in ToSet(s) \cap S PROVE x \in ToSet(r)
    BY <2>1, <2>2, <2>4, <1>14
  <2> QED
    BY <2>3, <2>4
<1>16. IsInjective(s) => IsInjective(r)
  BY <1>14 DEF IsInjective
<1> QED
  BY <1>14, <1>15, <1>16 DEF r
(* Samples of every net of N2 that is new or has a new value make a trace  *)
(* of the nets N at values v a trace of the nets N2 at values w.           *)
LEMMA TraceGrows ==
  ASSUME NEW T, NEW s \in Seq(T), NEW N, NEW N2, N \subseteq N2, NEW v, NEW w, NEW t,
         NEW D, NEW c \in Seq(D), IsInjective(c),
         ToSet(c) = { n \in N2 : n \notin N \/ v[n] # w[n] },
         IsTrace(s, N, v)
  PROVE  IsTrace(s \o Sampled(t, w, c), N2, w)
<1> DEFINE a == Sampled(t, w, c)
           r == s \o a
           m == Len(s)
           k == Len(c)
<1>1. m \in Nat /\ k \in Nat /\ DOMAIN c = 1..k
  OBVIOUS
<1>2. a \in Seq({ a[p] : p \in 1..k }) /\ Len(a) = k
  <2>1. a \in [1..k -> { a[p] : p \in 1..k }]
    BY DEF Sampled
  <2> HIDE DEF a, k
  <2> QED
    BY <1>1, <2>1, LengthOf
<1>3. /\ Len(r) = m + k
      /\ \A i \in 1..m : r[i] = s[i]
      /\ \A i \in m + 1 .. m + k : r[i] = a[i - m]
  <2> DEFINE V == T \cup { a[p] : p \in 1..k }
  <2>1. s \in Seq(V) /\ a \in Seq(V)
    BY <1>2
  <2> HIDE DEF a, V
  <2>2. /\ Len(r) = m + Len(a)
        /\ \A i \in 1 .. m + Len(a) : r[i] = IF i <= m THEN s[i] ELSE a[i - m]
    BY <2>1, ConcatProperties
  <2> HIDE DEF r, m, k
  <2> QED
    BY <1>1, <1>2, <2>2
<1>4. \A p \in 1..k : a[p].net = c[p] /\ a[p].value = w[c[p]]
  BY DEF Sampled
<1>5. \A i \in m + 1 .. m + k : i - m \in 1..k /\ r[i].net = c[i - m] /\ r[i].value = w[c[i - m]]
  <2> HIDE DEF a, r
  <2> QED
    BY <1>1, <1>3, <1>4
<1>6. \A x : x \in N2 /\ (x \notin N \/ v[x] # w[x]) <=> \E p \in 1..k : c[p] = x
  <2>1. \A x : x \in ToSet(c) <=> \E p \in 1..k : c[p] = x
    BY <1>1 DEF ToSet
  <2> QED
    BY <2>1
<1>7. \A p, q \in 1..k : c[p] = c[q] => p = q
  BY <1>1 DEF IsInjective
<1> HIDE DEF a, r, m, k
<1>8. \A i \in 1 .. m + k : i \in 1..m \/ i \in m + 1 .. m + k
  BY <1>1
<1>9. /\ \A i \in 1..m : s[i].net \in N
      /\ \A n \in N : \E i \in 1..m : s[i].net = n /\ s[i].value = v[n] /\ NoneOf(s, i, m + 1, n)
      /\ \A j \in 1..m : \A i \in 1 .. j - 1 :
           s[i].net = s[j].net /\ s[i].value = s[j].value => ~NoneOf(s, i, j, s[i].net)
  BY DEF IsTrace, EndsAt, OnlyChanges, m
<1>10. ASSUME NEW i \in 1 .. m + k PROVE r[i].net \in N2
  <2>1. CASE i \in 1..m
    BY <2>1, <1>3, <1>9
  <2>2. CASE i \in m + 1 .. m + k
    BY <2>2, <1>5, <1>6
  <2> QED
    BY <2>1, <2>2, <1>8
<1>11. ASSUME NEW n \in N2
       PROVE  \E i \in 1 .. m + k : r[i].net = n /\ r[i].value = w[n] /\ NoneOf(r, i, m + k + 1, n)
  <2>1. CASE \E p \in 1..k : c[p] = n
    <3>1. PICK p \in 1..k : c[p] = n
      BY <2>1
    <3>2. m + p \in m + 1 .. m + k /\ (m + p) - m = p /\ m + p \in 1 .. m + k
      BY <1>1
    <3>3. r[m + p].net = n /\ r[m + p].value = w[n]
      BY <3>1, <3>2, <1>5
    <3>4. ASSUME NEW j \in m + p + 1 .. m + k PROVE r[j].net # n
      <4>1. j \in m + 1 .. m + k /\ j - m # p
        BY <1>1
      <4> QED
        BY <4>1, <1>5, <1>7, <3>1
    <3>5. NoneOf(r, m + p, m + k + 1, n)
      BY <1>1, <3>4 DEF NoneOf
    <3> QED
      BY <3>2, <3>3, <3>5
  <2>2. CASE ~ \E p \in 1..k : c[p] = n
    <3>1. n \in N /\ v[n] = w[n]
      BY <2>2, <1>6
    <3>2. PICK i \in 1..m : s[i].net = n /\ s[i].value = v[n] /\ NoneOf(s, i, m + 1, n)
      BY <3>1, <1>9
    <3>3. i \in 1 .. m + k /\ r[i].net = n /\ r[i].value = w[n]
      BY <3>1, <3>2, <1>1, <1>3
    <3>4. ASSUME NEW j \in i + 1 .. m + k PROVE r[j].net # n
      <4>1. CASE j \in i + 1 .. m
        <5>1. j \in 1..m
          BY <4>1, <1>1
        <5>2. s[j].net # n
          BY <1>1, <4>1, <3>2 DEF NoneOf
        <5> QED
          BY <5>1, <5>2, <1>3
      <4>2. CASE j \in m + 1 .. m + k
        BY <4>2, <1>5, <2>2
      <4> QED
        BY <4>1, <4>2, <1>1
    <3>5. NoneOf(r, i, m + k + 1, n)
      BY <1>1, <3>4 DEF NoneOf
    <3> QED
      BY <3>3, <3>5
  <2> QED
    BY <2>1, <2>2
<1>12. ASSUME NEW j \in 1 .. m + k, NEW i \in 1 .. j - 1,
              r[i].net = r[j].net, r[i].value = r[j].value
       PROVE  ~NoneOf(r, i, j, r[i].net)
  <2> DEFINE n == r[i].net
  <2>1. i \in 1 .. m + k /\ i \in Int /\ j \in Int
    BY <1>1
  <2>2. CASE j \in 1..m
    <3>1. i \in 1..m /\ s[i].net = s[j].net /\ s[i].value = s[j].value /\ s[i].net = n
      BY <2>2, <1>1, <1>3, <1>12
    <3>2. PICK l \in i + 1 .. j - 1 : s[l].net = n
      <4>1. ~NoneOf(s, i, j, n)
        BY <3>1, <1>9, <2>2
      <4> HIDE DEF n
      <4> QED
        BY <4>1 DEF NoneOf
    <3>3. l \in 1..m
      BY <2>2, <3>1, <1>1
    <3> QED
      BY <3>2, <3>3, <1>3 DEF NoneOf
  <2>3. CASE j \in m + 1 .. m + k /\ i \in m + 1 .. m + k
    <3>1. j - m = i - m
      BY <2>3, <1>5, <1>7, <1>12
    <3> QED
      BY <3>1, <1>1, <2>1
  <2>4. CASE j \in m + 1 .. m + k /\ i \in 1..m
    <3>1. r[i] = s[i] /\ n \in N
      BY <2>4, <1>3, <1>9
    <3>2. v[n] # w[n] /\ r[j].value = w[n]
      <4>1. \E p \in 1..k : c[p] = n
        BY <2>4, <1>5, <1>12
      <4>2. r[j].value = w[n]
        BY <2>4, <1>5, <1>12
      <4> QED
        BY <3>1, <4>1, <4>2, <1>6
    <3>3. PICK l \in 1..m : s[l].net = n /\ s[l].value = v[n] /\ NoneOf(s, l, m + 1, n)
      BY <3>1, <1>9
    <3>4. l # i
      BY <3>1, <3>2, <3>3, <1>12
    <3>5. ~(i \in l + 1 .. m)
      <4>1. s[i].net = n
        BY <3>1
      <4> HIDE DEF n
      <4> QED
        BY <1>1, <4>1, <3>3 DEF NoneOf
    <3>6. l \in i + 1 .. j - 1 /\ r[l].net = n
      BY <3>3, <3>4, <3>5, <2>4, <1>1, <1>3
    <3> QED
      BY <3>6 DEF NoneOf
  <2> QED
    BY <2>1, <2>2, <2>3, <2>4, <1>8
<1>13. Len(r) = m + k
  BY <1>3
<1>14. IsTrace(r, N2, w)
  BY <1>10, <1>11, <1>12, <1>13 DEF IsTrace, EndsAt, OnlyChanges
<1> QED
  BY <1>14 DEF r, a

(* Samples of words are samples.                                           *)
LEMMA SamplesGrow ==
  ASSUME NEW s \in Seq(Sample), NEW t \in Nat, NEW D, D \subseteq Nat, NEW w \in WordsOver(D),
         NEW c \in Seq(D)
  PROVE  s \o Sampled(t, w, c) \in Seq(Sample)
<1> DEFINE a == Sampled(t, w, c)
           k == Len(c)
<1>1. k \in Nat /\ \A p \in 1..k : c[p] \in D
  OBVIOUS
<1>2. ASSUME NEW p \in 1..k PROVE [t |-> t, net |-> c[p], value |-> w[c[p]]] \in Sample
  <2>1. c[p] \in D /\ c[p] \in Nat /\ w[c[p]] \in Word
    BY <1>1 DEF WordsOver
  <2> QED
    BY <2>1 DEF Sample
<1>3. a \in [1..k -> Sample]
  BY <1>2 DEF Sampled
<1>4. a \in Seq(Sample)
  <2> HIDE DEF a, k
  <2> QED
    BY <1>1, <1>3, LengthOf
<1> HIDE DEF a
<1>5. s \o a \in Seq(Sample)
  BY <1>4
<1> QED
  BY <1>5 DEF a

(* Net ids are numbers.                                                    *)
LEMMA NetsAreNumbers ==
  ASSUME IsJob(job) PROVE NetsOf(job) \subseteq Nat
BY DEF IsJob, NetsOf

(* A record of new values of the nets that are watched, or of more nets.   *)
LEMMA RecordKeeps ==
  ASSUME Typed, Tracing, NEW nets \in Seq(NetsOf(job)), IsInjective(nets),
         ToSet(watched) \subseteq ToSet(nets), NEW w \in WordsOver(NetsOf(job)), NEW t \in Nat,
         Record(t, w, nets)
  PROVE  /\ samples' \in Seq(Sample)
         /\ last' = [n \in ToSet(nets) |-> w[n]]
         /\ IsTrace(samples', ToSet(nets), w)
<1> DEFINE D == NetsOf(job)
           new == { n \in ToSet(nets) : n \notin DOMAIN last \/ last[n] # w[n] }
           c == Changed(w, nets)
<1>1. c = Those(nets, new)
  BY DEF Changed
<1>2. DOMAIN last = ToSet(watched) /\ \A n \in ToSet(watched) : last[n] = values[n]
  BY DEF Tracing
<1>3. new = { n \in ToSet(nets) : n \notin ToSet(watched) \/ values[n] # w[n] }
  BY <1>2
<1> HIDE DEF new, c, D
<1>4. c \in Seq(D) /\ ToSet(c) = ToSet(nets) \cap new /\ IsInjective(c)
  <2>1. nets \in Seq(D)
    BY DEF D
  <2> QED
    BY <1>1, <2>1, ThoseAre
<1>5. ToSet(c) = { n \in ToSet(nets) : n \notin ToSet(watched) \/ values[n] # w[n] }
  BY <1>3, <1>4
<1>6. samples \in Seq(Sample) /\ IsTrace(samples, ToSet(watched), values)
  BY DEF Typed, Tracing
<1>7. samples' = samples \o Sampled(t, w, c) /\ last' = [n \in ToSet(nets) |-> w[n]]
  BY DEF Record, c
<1>8. IsTrace(samples \o Sampled(t, w, c), ToSet(nets), w)
  BY <1>4, <1>5, <1>6, TraceGrows
<1>9. D \subseteq Nat /\ w \in WordsOver(D)
  BY NetsAreNumbers DEF Typed, D
<1>10. samples \o Sampled(t, w, c) \in Seq(Sample)
  BY <1>4, <1>6, <1>9, SamplesGrow
<1> QED
  BY <1>7, <1>8, <1>10

(* What a pass over new values that is recorded leaves behind.             *)
LEMMA SettleKeeps ==
  ASSUME Typed, Tracing, NEW v \in WordsOver(NetsOf(job)), NEW t \in Nat, Settle(v, t)
  PROVE  /\ values' \in WordsOver(NetsOf(job))
         /\ \A n \in NetsOf(job) \ LutOutputs(job.design.luts) : values'[n] = v[n]
         /\ watched' = watched
         /\ samples' \in Seq(Sample)
         /\ Tracing'
<1>1. values' = PassValues(job.design, v) /\ Record(t, values', watched) /\ watched' = watched
  BY DEF Settle
<1>2. Len(job.design.luts) \in Nat
  BY DEF Typed, IsJob, IsConfig
<1>3. /\ values' \in WordsOver(NetsOf(job))
      /\ \A n \in NetsOf(job) \ LutOutputs(job.design.luts) : values'[n] = v[n]
  BY <1>1, <1>2, PassKeeps
<1>4. watched \in Seq(NetsOf(job)) /\ IsInjective(watched)
  BY DEF Typed
<1>5. /\ samples' \in Seq(Sample)
      /\ last' = [n \in ToSet(watched) |-> values'[n]]
      /\ IsTrace(samples', ToSet(watched), values')
  BY <1>1, <1>3, <1>4, RecordKeeps
<1> QED
  BY <1>1, <1>3, <1>5 DEF Tracing

-----------------------------------------------------------------------------
(* Clocks *)

(* The first of some times is one of them, and none is before it.          *)
LEMMA FirstIsLeast ==
  ASSUME NEW S, S \subseteq Nat, S # {}
  PROVE  First(S) \in S /\ \A u \in S : First(S) <= u
BY LeastNumber DEF First

(* A clock is made of a period, a duty and a level as it should be.        *)
LEMMA NewClockIsClock ==
  ASSUME NEW c, IsCommand(c), c.type = "CLOCK", NetOf(c.name) \in Nat
  PROVE  /\ NewClock(c) \in Clock
         /\ NewClock(c).level = NewClock(c).init
         /\ NewClock(c).toggle = IF NewClock(c).init = 1 THEN NewClock(c).high ELSE NewClock(c).low
<1> DEFINE period == IF c.period = 0 THEN 10 ELSE c.period
           low == (period * (100 - c.duty)) \div 100
<1>1. c.period \in Nat /\ c.duty \in 0..100 /\ c.init \in {0, 1}
  BY DEF IsCommand
<1>2. period \in Nat
  BY <1>1
<1>3. low \in Nat /\ low <= period
  <2> HIDE DEF period
  <2>1. 100 - c.duty \in 0..100
    BY <1>1
  <2>2. ASSUME NEW x \in 0..100 PROVE period * x \in Nat /\ period * x <= 100 * period
    <3>1. period * x >= 0
      BY <1>2
    <3>2. period * (100 - x) >= 0
      BY <1>2
    <3>3. period * (100 - x) = 100 * period - period * x
      BY <1>2
    <3>4. period * x \in Int
      BY <1>2
    <3> QED
      BY <1>2, <3>1, <3>2, <3>3, <3>4
  <2>3. period * (100 - c.duty) \in Nat /\ period * (100 - c.duty) <= 100 * period
    BY <2>1, <2>2
  <2> QED
    BY <1>2, <2>3
<1> HIDE DEF period, low
<1>4. period - low \in Nat
  BY <1>2, <1>3
<1>5. NewClock(c) = [net |-> NetOf(c.name), low |-> AtLeastOne(low), high |-> AtLeastOne(period - low),
                     level |-> c.init,
                     toggle |-> IF c.init = 1 THEN AtLeastOne(period - low) ELSE AtLeastOne(low),
                     init |-> c.init]
  BY Zenon DEF NewClock, period, low
<1>6. AtLeastOne(low) \in Nat \ {0} /\ AtLeastOne(period - low) \in Nat \ {0}
  BY <1>3, <1>4 DEF AtLeastOne
<1> QED
  BY <1>1, <1>5, <1>6 DEF Clock

(* What a toggle at t makes of the clocks.                                 *)
LEMMA ClocksAfterAre ==
  ASSUME clocks \in Seq(Clock), NEW t \in Nat
  PROVE  /\ ClocksAfter(t) \in Seq(Clock) /\ Len(ClocksAfter(t)) = Len(clocks)
         /\ \A i \in 1..Len(clocks) :
              LET c == clocks[i]  d == ClocksAfter(t)[i] IN
              /\ d.net = c.net /\ d.low = c.low /\ d.high = c.high /\ d.init = c.init
              /\ c.toggle # t => d = c
              /\ c.toggle = t => /\ d.level = 1 - c.level
                                 /\ d.toggle = c.toggle + (IF c.level = 0 THEN c.high ELSE c.low)
<1> DEFINE m == Len(clocks)
           d == ClocksAfter(t)
<1>1. m \in Nat /\ \A i \in 1..m : clocks[i] \in Clock
  OBVIOUS
<1>2. ASSUME NEW i \in 1..m
      PROVE  /\ d[i] \in Clock
             /\ d[i].net = clocks[i].net /\ d[i].low = clocks[i].low
             /\ d[i].high = clocks[i].high /\ d[i].init = clocks[i].init
             /\ clocks[i].toggle # t => d[i] = clocks[i]
             /\ clocks[i].toggle = t =>
                  /\ d[i].level = 1 - clocks[i].level
                  /\ d[i].toggle = clocks[i].toggle + (IF clocks[i].level = 0 THEN clocks[i].high
                                                                              ELSE clocks[i].low)
  <2>1. d[i] = IF clocks[i].toggle # t THEN clocks[i]
               ELSE [clocks[i] EXCEPT !.level = 1 - @,
                                      !.toggle = @ + (IF clocks[i].level = 0 THEN clocks[i].high
                                                                             ELSE clocks[i].low)]
    BY DEF ClocksAfter
  <2>2. clocks[i] \in Clock
    BY <1>1
  <2> HIDE DEF d
  <2>3. CASE clocks[i].toggle # t
    BY <2>1, <2>2, <2>3
  <2>4. CASE clocks[i].toggle = t
    <3> DEFINE c == clocks[i]
               lv == 1 - c.level
               tg == c.toggle + (IF c.level = 0 THEN c.high ELSE c.low)
    <3>1. lv \in {0, 1} /\ tg \in Nat
      <4>1. c \in Clock
        BY <2>2
      <4> HIDE DEF c
      <4>2. c.level \in {0, 1} /\ c.toggle \in Nat /\ c.low \in Nat /\ c.high \in Nat
        BY <4>1 DEF Clock
      <4> QED
        BY <4>2
    <3>2. d[i] = [c EXCEPT !.level = lv, !.toggle = tg]
      BY <2>1, <2>4
    <3> HIDE DEF c, lv, tg
    <3>3. /\ d[i] \in Clock
          /\ d[i].net = c.net /\ d[i].low = c.low /\ d[i].high = c.high /\ d[i].init = c.init
          /\ d[i].level = lv /\ d[i].toggle = tg
      BY <2>2, <3>1, <3>2 DEF Clock, c
    <3> QED
      BY <2>4, <3>3 DEF c, lv, tg
  <2> QED
    BY <2>3, <2>4
<1>3. d \in [1..m -> Clock]
  <2>1. d = [i \in 1..m |-> d[i]]
    BY DEF ClocksAfter
  <2> HIDE DEF d, m
  <2> QED
    BY <1>2, <2>1
<1>4. d \in Seq(Clock) /\ Len(d) = m
  <2> HIDE DEF d, m
  <2> QED
    BY <1>1, <1>3, LengthOf
<1> HIDE DEF d
<1>5. \A i \in 1..m :
        /\ d[i].net = clocks[i].net /\ d[i].low = clocks[i].low
        /\ d[i].high = clocks[i].high /\ d[i].init = clocks[i].init
        /\ clocks[i].toggle # t => d[i] = clocks[i]
        /\ clocks[i].toggle = t =>
             /\ d[i].level = 1 - clocks[i].level
             /\ d[i].toggle = clocks[i].toggle + (IF clocks[i].level = 0 THEN clocks[i].high
                                                                         ELSE clocks[i].low)
  BY <1>2
<1> QED
  BY <1>4, <1>5, Zenon DEF d

(* The clocks that toggle write words, and to no net but their own.        *)
LEMMA ClockWritesKeep ==
  ASSUME Typed, NEW t \in Nat
  PROVE  /\ ClockWrites(t) \in WordsOver(NetsOf(job))
         /\ \A n \in NetsOf(job) \ ClockNets : ClockWrites(t)[n] = values[n]
         /\ Len(clocks) = 1 /\ clocks[1].toggle = t /\ clocks[1].net \in NetsOf(job) =>
              ClockWrites(t)[clocks[1].net] = LevelWord(ClocksAfter(t)[1].level = 1)
<1> DEFINE D == NetsOf(job)
           m == Len(clocks)
           put(k, sig) == [sig EXCEPT ![clocks[k].net] = LevelWord(ClocksAfter(t)[k].level = 1)]
           step == [k \in 1..m |-> [sig \in WordsOver(D) |-> IF clocks[k].toggle # t THEN sig ELSE put(k, sig)]]
           F(f) == f = [k \in 0..m |-> IF k = 0 THEN values
                                       ELSE IF clocks[k].toggle # t THEN f[k - 1] ELSE put(k, f[k - 1])]
           write == CHOOSE f : F(f)
<1>1. m \in Nat /\ values \in WordsOver(D)
  BY DEF Typed
<1>2. ASSUME NEW k \in 1..m, NEW sig \in WordsOver(D)
      PROVE  /\ put(k, sig) \in WordsOver(D)
             /\ \A n \in D \ ClockNets : put(k, sig)[n] = sig[n]
  <2>1. LevelWord(ClocksAfter(t)[k].level = 1) \in Word
    BY DEF LevelWord, ToWord, Word
  <2>2. clocks[k].net \in ClockNets
    BY DEF ClockNets
  <2> QED
    BY <2>1, <2>2 DEF WordsOver
<1>3. step \in [1..m -> [WordsOver(D) -> WordsOver(D)]]
  BY <1>2
<1>4. PICK f \in [0..m -> WordsOver(D)] : Recursive(f, m, values, step)
  <2> HIDE DEF m, step, D
  <2> QED
    BY <1>1, <1>3, RecursionExists
<1>5. F(f)
  <2>1. f = [k \in 0..m |-> IF k = 0 THEN values ELSE step[k][f[k - 1]]]
    BY <1>4, Zenon DEF Recursive
  <2>2. ASSUME NEW k \in 0..m, k # 0
        PROVE  step[k][f[k - 1]] = IF clocks[k].toggle # t THEN f[k - 1] ELSE put(k, f[k - 1])
    <3>1. k \in 1..m /\ k - 1 \in 0..m
      BY <2>2, <1>1
    <3>2. f[k - 1] \in WordsOver(D)
      BY <3>1, <1>4
    <3> HIDE DEF put
    <3> QED
      BY <3>1, <3>2
  <2> HIDE DEF m, step, put
  <2> QED
    BY <2>1, <2>2, Zenon
<1>6. F(write)
  BY <1>5, Zenon
<1>7. ClockWrites(t) = write[m]
  BY Zenon DEF ClockWrites
<1> HIDE DEF step, put, write
<1>8. /\ write[0] = values
      /\ \A k \in 1..m : write[k] = IF clocks[k].toggle # t THEN write[k - 1] ELSE put(k, write[k - 1])
  <2>1. \A k \in 0..m : write[k] = IF k = 0 THEN values
                                   ELSE IF clocks[k].toggle # t THEN write[k - 1] ELSE put(k, write[k - 1])
    BY <1>6, Zenon
  <2>2. 0 \in 0..m /\ \A k \in 1..m : k \in 0..m /\ k # 0
    BY <1>1
  <2> QED
    BY <2>1, <2>2, Zenon
<1> DEFINE Good(k) == write[k] \in WordsOver(D) /\ \A n \in D \ ClockNets : write[k][n] = values[n]
           U == {k \in 0..m : Good(k)}
<1>9. 0 \in U
  BY <1>1, <1>8
<1>10. ASSUME NEW k \in 0 .. m - 1, Good(k) PROVE Good(k + 1)
  <2>1. k + 1 \in 1..m /\ (k + 1) - 1 = k
    BY <1>1
  <2>2. write[k + 1] = IF clocks[k + 1].toggle # t THEN write[k] ELSE put(k + 1, write[k])
    BY <2>1, <1>8
  <2>3. /\ put(k + 1, write[k]) \in WordsOver(D)
        /\ \A n \in D \ ClockNets : put(k + 1, write[k])[n] = write[k][n]
    BY <2>1, <1>10, <1>2
  <2> QED
    BY <2>2, <2>3, <1>10
<1> HIDE DEF Good
<1>11. \A k \in 0 .. m - 1 : k \in U => k + 1 \in U
  BY <1>10, <1>1 DEF U
<1>12. 0..m \subseteq U
  <2> HIDE DEF U, m
  <2> QED
    BY <1>1, <1>9, <1>11, IntervalBySets
<1>13. Good(m)
  BY <1>1, <1>12 DEF U
<1>14. ASSUME m = 1, clocks[1].toggle = t, clocks[1].net \in D
       PROVE  write[m][clocks[1].net] = LevelWord(ClocksAfter(t)[1].level = 1)
  <2>1. write[1] = put(1, values)
    BY <1>8, <1>14
  <2> QED
    BY <1>1, <1>14, <2>1 DEF put, WordsOver
<1> QED
  BY <1>7, <1>13, <1>14 DEF Good

-----------------------------------------------------------------------------
(* The executor's steps keep its part of the invariant *)

ExecInv == Typed /\ WaitsForClock /\ Ahead /\ Phase /\ Tracing

(* The nets of a name are nets of the design, each bit one of its own.     *)
LEMMA NetsOfNames ==
  ASSUME IsJob(job), NEW name
  PROVE  /\ Whole(name) \subseteq NetsOf(job)
         /\ Whole(name) # {} => NetOf(name) \in Whole(name)
         /\ Bits(name) \in Seq(NetsOf(job)) /\ IsInjective(Bits(name))
<1>1. CASE name \in DOMAIN job.ports
  BY <1>1 DEF IsJob, Whole, Bits, NetOf
<1>2. CASE name \notin DOMAIN job.ports
  BY <1>2 DEF Whole, Bits, NetOf, IsInjective
<1> QED
  BY <1>1, <1>2

(* write_value() writes words, to the nets of its name only.               *)
LEMMA WrittenKeeps ==
  ASSUME Typed, NEW name, NEW v
  PROVE  /\ Written(name, v) \in WordsOver(NetsOf(job))
         /\ \A n \in NetsOf(job) \ DrivenBy(name) : Written(name, v)[n] = values[n]
<1> DEFINE D == NetsOf(job)
           w == Written(name, v)
<1>1. DOMAIN values = D /\ \A n \in D : values[n] \in Word
  BY DEF Typed, WordsOver
<1>2. \A x : ToWord(x) \in Word
  BY DEF ToWord, Word
<1>3. \A b : LevelWord(b) \in Word
  BY <1>2 DEF LevelWord
<1>4. ASSUME NEW n \in D PROVE w[n] \in Word
  BY <1>1, <1>2, <1>3 DEF Written
<1>5. w = [n \in D |-> w[n]]
  BY <1>1 DEF Written
<1>6. ASSUME NEW n \in D \ DrivenBy(name) PROVE w[n] = values[n]
  <2>1. Bits(name) \in Seq(D)
    BY NetsOfNames DEF Typed
  <2>2. n \notin Whole(name) /\ \A i \in 1..Len(Bits(name)) : Bits(name)[i] # n
    BY <2>1 DEF DrivenBy, ToSet
  <2> QED
    BY <1>1, <2>2 DEF Written
<1> HIDE DEF w, D
<1>7. w \in WordsOver(D)
  BY <1>4, <1>5 DEF WordsOver
<1> QED
  BY <1>6, <1>7 DEF w, D

(* What is left to do are commands.                                        *)
LEMMA NextCommand ==
  ASSUME Typed, todo # <<>>
  PROVE  /\ Head(todo) \in Statements /\ IsCommand(Head(todo))
         /\ Tail(todo) \in Seq(Statements)
<1>1. todo \in Seq(Statements)
  BY DEF Typed
<1>2. Head(todo) \in Statements /\ Tail(todo) \in Seq(Statements)
  BY <1>1
<1> QED
  BY <1>2, StatementsAssumption

(* Steps that only look at the design, or start a wait.                    *)
LEMMA Unmoved ==
  ASSUME ExecInv, UNCHANGED <<job, values, time, clocks, tracer, cycles, late>>,
         todo' \in Seq(Statements), wait' \in Waits, result' \in [passed : Nat, failed : Nat],
         \/ wait' = wait \/ wait' = NoWait
         \/ /\ wait'.kind = "edge" => TogglesOn(wait'.net) # {} /\ wait'.net \in NetsOf(job)
            /\ ~late => wait'.target >= time
  PROVE  ExecInv'
<1>1. /\ job' = job /\ values' = values /\ time' = time /\ clocks' = clocks /\ watched' = watched
      /\ last' = last /\ samples' = samples /\ cycles' = cycles /\ late' = late
  BY DEF tracer
<1>2. Typed'
  BY <1>1 DEF ExecInv, Typed
<1>3. WaitsForClock'
  <2>1. TogglesOn(wait.net)' = { clocks[i].toggle : i \in { j \in 1..Len(clocks) : clocks[j].net = wait'.net } }
    BY <1>1 DEF TogglesOn
  <2>2. TogglesOn(wait.net)' = TogglesOn(wait'.net)
    BY <2>1 DEF TogglesOn
  <2>3. NetsOf(job)' = NetsOf(job)
    BY <1>1
  <2> QED
    BY <1>1, <2>2, <2>3 DEF ExecInv, WaitsForClock
<1>4. Ahead'
  BY <1>1 DEF ExecInv, Ahead
<1>5. Phase'
  BY <1>1 DEF ExecInv, Phase
<1>6. Tracing'
  BY <1>1 DEF ExecInv, Tracing
<1> QED
  BY <1>2, <1>3, <1>4, <1>5, <1>6 DEF ExecInv

(* The toggles of a net are toggles of clocks.                             *)
LEMMA TogglesAre ==
  ASSUME Typed, Ahead, NEW net
  PROVE  /\ TogglesOn(net) \subseteq Nat
         /\ ~late => \A u \in TogglesOn(net) : u > time
         /\ TogglesOn(net) # {} => /\ First(TogglesOn(net)) \in TogglesOn(net)
                                   /\ First(TogglesOn(net)) \in Nat
                                   /\ ~late => First(TogglesOn(net)) > time
<1>1. \A i \in 1..Len(clocks) : clocks[i].toggle \in Nat
  <2>1. \A i \in 1..Len(clocks) : clocks[i] \in Clock
    BY DEF Typed
  <2> QED
    BY <2>1 DEF Clock
<1>2. \A u \in TogglesOn(net) : \E i \in 1..Len(clocks) : u = clocks[i].toggle
  BY DEF TogglesOn
<1>3. TogglesOn(net) \subseteq Nat /\ (~late => \A u \in TogglesOn(net) : u > time)
  BY <1>1, <1>2 DEF Ahead
<1>4. TogglesOn(net) # {} => First(TogglesOn(net)) \in TogglesOn(net)
  BY <1>3, FirstIsLeast
<1> QED
  BY <1>3, <1>4

(* Checks that pass and checks that fail are counted.                      *)
LEMMA Counted ==
  ASSUME Typed, Pass \/ Fail
  PROVE  result' \in [passed : Nat, failed : Nat]
<1>1. result \in [passed : Nat, failed : Nat]
  BY DEF Typed
<1> QED
  BY <1>1 DEF Pass, Fail

(* Each step of the executor keeps its invariant: what it does not know    *)
(* first.                                                                  *)
LEMMA UnknownKeeps ==
  ASSUME ExecInv, Unknown
  PROVE  ExecInv'
<1>1. Typed /\ todo # <<>> /\ Fail /\ todo' = Tail(todo) /\ wait' = wait
  BY DEF Unknown, ExecInv
<1>2. todo' \in Seq(Statements) /\ wait' \in Waits
  BY <1>1, NextCommand DEF Typed
<1>3. result' \in [passed : Nat, failed : Nat]
  BY <1>1, Counted
<1>4. UNCHANGED <<job, values, time, clocks, tracer, cycles, late>>
  BY DEF Unknown
<1> QED
  BY <1>1, <1>2, <1>3, <1>4, Unmoved

(* A command that is parsed and not executed.                              *)
LEMMA IgnoredKeeps ==
  ASSUME ExecInv, Ignored
  PROVE  ExecInv'
<1>1. Typed /\ todo # <<>> /\ result' = result /\ todo' = Tail(todo) /\ wait' = wait
  BY DEF Ignored, ExecInv, Command
<1>2. todo' \in Seq(Statements) /\ wait' \in Waits /\ result' \in [passed : Nat, failed : Nat]
  BY <1>1, NextCommand DEF Typed
<1>3. UNCHANGED <<job, values, time, clocks, tracer, cycles, late>>
  BY DEF Ignored
<1> QED
  BY <1>1, <1>2, <1>3, Unmoved

(* An assertion counts once, as passed or failed.                          *)
LEMMA CheckAssertionKeeps ==
  ASSUME ExecInv, CheckAssertion
  PROVE  ExecInv'
<1>1. Typed /\ todo # <<>> /\ (Pass \/ Fail) /\ todo' = Tail(todo) /\ wait' = wait
  BY DEF CheckAssertion, ExecInv, Command
<1>2. todo' \in Seq(Statements) /\ wait' \in Waits
  BY <1>1, NextCommand DEF Typed
<1>3. result' \in [passed : Nat, failed : Nat]
  BY <1>1, Counted
<1>4. UNCHANGED <<job, values, time, clocks, tracer, cycles, late>>
  BY DEF CheckAssertion
<1> QED
  BY <1>1, <1>2, <1>3, <1>4, Unmoved

(* A repetition puts its body before the commands that are left.           *)
LEMMA RepeatKeeps ==
  ASSUME ExecInv, Repeat
  PROVE  ExecInv'
<1> DEFINE c == Head(todo)
           less == [c EXCEPT !.value = @ - 1]
<1>1. Typed /\ todo # <<>> /\ result' = result /\ wait' = wait /\ c.type = "REPEAT"
  BY DEF Repeat, ExecInv, Command
<1>2. c \in Statements /\ c.value \in Nat /\ Tail(todo) \in Seq(Statements)
  BY <1>1, NextCommand DEF IsCommand
<1>3. c.block \in Seq(Statements) /\ (c.value > 0 => less \in Statements)
  BY <1>1, <1>2, StatementsAssumption
<1>4. todo' = IF c.value = 0 THEN Tail(todo) ELSE c.block \o <<less>> \o Tail(todo)
  BY DEF Repeat
<1> HIDE DEF c, less
<1>5. todo' \in Seq(Statements)
  BY <1>2, <1>3, <1>4
<1>6. wait' \in Waits /\ result' \in [passed : Nat, failed : Nat]
  BY <1>1 DEF Typed
<1>7. UNCHANGED <<job, values, time, clocks, tracer, cycles, late>>
  BY DEF Repeat
<1> QED
  BY <1>1, <1>5, <1>6, <1>7, Unmoved

(* The end of the testbench.                                               *)
LEMMA StopKeeps ==
  ASSUME ExecInv, Stop
  PROVE  ExecInv'
<1>1. Typed /\ result' = result /\ todo' = <<>> /\ wait' = wait
  BY DEF Stop, ExecInv
<1>2. todo' \in Seq(Statements) /\ wait' \in Waits /\ result' \in [passed : Nat, failed : Nat]
  BY <1>1 DEF Typed
<1>3. UNCHANGED <<job, values, time, clocks, tracer, cycles, late>>
  BY DEF Stop
<1> QED
  BY <1>1, <1>2, <1>3, Unmoved

(* A wait for a time has a target that is not behind.                      *)
LEMMA WaitNsKeeps ==
  ASSUME ExecInv, WaitNs
  PROVE  ExecInv'
<1>1. /\ Typed /\ todo # <<>> /\ result' = result /\ todo' = Tail(todo) /\ Head(todo).type = "WAIT_NS"
      /\ wait' = [kind |-> "ns", target |-> time + Head(todo).value]
  BY DEF WaitNs, ExecInv, Command
<1>2. todo' \in Seq(Statements) /\ Head(todo).value \in Nat /\ time \in Nat
  BY <1>1, NextCommand DEF IsCommand, Typed
<1>3. wait' \in Waits /\ wait'.kind = "ns" /\ wait'.target >= time
  BY <1>1, <1>2 DEF Waits
<1>4. result' \in [passed : Nat, failed : Nat]
  BY <1>1 DEF Typed
<1>5. UNCHANGED <<job, values, time, clocks, tracer, cycles, late>>
  BY DEF WaitNs
<1> QED
  BY <1>2, <1>3, <1>4, <1>5, Unmoved

(* A wait for an edge is for a net with a clock.                           *)
LEMMA WaitEdgeKeeps ==
  ASSUME ExecInv, WaitEdge
  PROVE  ExecInv'
<1> DEFINE net == NetOf(Head(todo).name)
<1>1. /\ Typed /\ Ahead /\ todo # <<>> /\ todo' = Tail(todo) /\ Head(todo).type = "WAIT_EDGE"
      /\ Whole(Head(todo).name) # {}
  BY DEF WaitEdge, ExecInv, Command
<1>2. todo' \in Seq(Statements) /\ Head(todo).rising \in BOOLEAN
  BY <1>1, NextCommand DEF IsCommand
<1>3. net \in NetsOf(job) /\ net \in Nat
  BY <1>1, NetsOfNames, NetsAreNumbers DEF Typed
<1>4. UNCHANGED <<job, values, time, clocks, tracer, cycles, late>>
  BY DEF WaitEdge
<1>5. CASE TogglesOn(net) = {}
  <2>1. Fail /\ wait' = wait
    BY <1>5 DEF WaitEdge
  <2>2. result' \in [passed : Nat, failed : Nat] /\ wait' \in Waits
    BY <1>1, <2>1, Counted DEF Typed
  <2> QED
    BY <1>2, <1>4, <2>1, <2>2, Unmoved
<1>6. CASE TogglesOn(net) # {}
  <2>1. /\ wait' = [kind |-> "edge", target |-> First(TogglesOn(net)), net |-> net,
                    rising |-> Head(todo).rising, before |-> values[net] # Zero, tries |-> 1]
        /\ result' = result
    BY <1>6, Zenon DEF WaitEdge
  <2>2. First(TogglesOn(net)) \in Nat /\ (~late => First(TogglesOn(net)) > time)
    BY <1>1, <1>6, TogglesAre
  <2>3. (values[net] # Zero) \in BOOLEAN
    OBVIOUS
  <2> HIDE DEF net
  <2>4. wait' \in Waits /\ wait'.kind = "edge" /\ wait'.target = First(TogglesOn(net)) /\ wait'.net = net
    <3> DEFINE b == values[net] # Zero
    <3>1. b \in BOOLEAN
      BY <2>3
    <3>2. wait' = [kind |-> "edge", target |-> First(TogglesOn(net)), net |-> net,
                    rising |-> Head(todo).rising, before |-> b, tries |-> 1]
      BY <2>1
    <3> HIDE DEF b
    <3> QED
      BY <1>2, <1>3, <2>2, <3>1, <3>2 DEF Waits
  <2>5. result' \in [passed : Nat, failed : Nat] /\ time \in Nat
    BY <1>1, <2>1 DEF Typed
  <2>6. TogglesOn(wait'.net) # {} /\ wait'.net \in NetsOf(job)
    BY <1>3, <1>6, <2>4
  <2>7. ~late => wait'.target >= time
    BY <2>2, <2>4, <2>5
  <2> QED
    BY <1>2, <1>4, <2>4, <2>5, <2>6, <2>7, Unmoved
<1> QED
  BY <1>5, <1>6

(* A driven input settles, and is recorded.                                *)
LEMMA DriveKeeps ==
  ASSUME ExecInv, Drive
  PROVE  ExecInv'
<1> DEFINE v == Written(Head(todo).name, Head(todo).value)
<1>1. Typed /\ Tracing /\ todo # <<>> /\ todo' = Tail(todo) /\ Settle(v, time)
  BY DEF Drive, ExecInv, Command
<1>2. v \in WordsOver(NetsOf(job)) /\ time \in Nat
  BY <1>1, WrittenKeeps DEF Typed
<1> HIDE DEF v
<1>3. /\ values' \in WordsOver(NetsOf(job)) /\ watched' = watched
      /\ samples' \in Seq(Sample) /\ Tracing'
  BY <1>1, <1>2, SettleKeeps
<1>4. todo' \in Seq(Statements)
  BY <1>1, NextCommand
<1>5. /\ job' = job /\ wait' = wait /\ time' = time /\ clocks' = clocks
      /\ result' = result /\ cycles' = cycles /\ late' = late
  BY DEF Drive
<1>6. Typed'
  BY <1>1, <1>3, <1>4, <1>5 DEF Typed
<1>7. WaitsForClock' /\ Ahead' /\ Phase'
  BY <1>5 DEF ExecInv, WaitsForClock, Ahead, Phase, TogglesOn
<1> QED
  BY <1>3, <1>6, <1>7 DEF ExecInv

(* A new clock starts in its phase, unless it is late.                     *)
LEMMA DeclareClockKeeps ==
  ASSUME ExecInv, DeclareClock
  PROVE  ExecInv'
<1> DEFINE c == NewClock(Head(todo))
           v == [values EXCEPT ![c.net] = LevelWord(c.level = 1)]
<1>1. /\ Typed /\ Tracing /\ wait = NoWait /\ todo # <<>> /\ todo' = Tail(todo)
      /\ Head(todo).type = "CLOCK" /\ Whole(Head(todo).name) # {}
      /\ clocks' = Append(clocks, c) /\ Settle(v, time)
  BY DEF DeclareClock, ExecInv, Command
<1>2. NetOf(Head(todo).name) \in Nat
  BY <1>1, NetsOfNames, NetsAreNumbers DEF Typed
<1>3. /\ c \in Clock /\ c.level = c.init
      /\ c.toggle = IF c.init = 1 THEN c.high ELSE c.low
  BY <1>1, <1>2, NextCommand, NewClockIsClock
<1>4. v \in WordsOver(NetsOf(job)) /\ time \in Nat
  <2>1. LevelWord(c.level = 1) \in Word
    BY DEF LevelWord, ToWord, Word
  <2> QED
    BY <1>1, <2>1 DEF Typed, WordsOver
<1> HIDE DEF c, v
<1>5. /\ values' \in WordsOver(NetsOf(job)) /\ watched' = watched
      /\ samples' \in Seq(Sample) /\ Tracing'
  BY <1>1, <1>4, SettleKeeps
<1>6. todo' \in Seq(Statements)
  BY <1>1, NextCommand
<1>7. /\ job' = job /\ wait' = wait /\ time' = time
      /\ result' = result /\ cycles' = cycles /\ late' = (late \/ time > 0)
  BY DEF DeclareClock
<1>8. clocks \in Seq(Clock) /\ clocks' \in Seq(Clock)
  BY <1>1, <1>3 DEF Typed
<1>9. /\ Len(clocks') = Len(clocks) + 1 /\ clocks' # <<>> /\ Len(clocks) \in Nat
      /\ clocks'[Len(clocks) + 1] = c /\ \A i \in 1..Len(clocks) : clocks'[i] = clocks[i]
  BY <1>1, <1>3, <1>8
<1>10. Typed'
  <2>1. late' \in BOOLEAN
    BY <1>7
  <2> QED
    BY <1>1, <1>5, <1>6, <1>7, <1>8, <2>1 DEF Typed
<1>11. WaitsForClock'
  BY <1>1, <1>7 DEF WaitsForClock
<1>12. ~late' => ~late /\ time = 0
  <2>1. ~late' => ~late /\ ~(time > 0)
    BY <1>7, Zenon
  <2>2. ~(time > 0) => time = 0
    BY <1>4
  <2> QED
    BY <2>1, <2>2, Zenon
<1>13. Ahead'
  <2>1. c.toggle > 0
    BY <1>3 DEF Clock
  <2>2. ASSUME ~late', NEW i \in 1 .. Len(clocks) + 1 PROVE clocks'[i].toggle > time'
    <3>1. ~late /\ time = 0
      BY <2>2, <1>12
    <3>2. CASE i = Len(clocks) + 1
      BY <3>1, <3>2, <1>7, <1>9, <2>1
    <3>3. CASE i \in 1..Len(clocks)
      BY <3>1, <3>3, <1>7, <1>9 DEF ExecInv, Ahead
    <3> QED
      BY <3>2, <3>3, <1>9
  <2> QED
    BY <2>2, <1>1, <1>7, <1>9 DEF Ahead
<1>14. Phase'
  <2> SUFFICES ASSUME ~late' PROVE InPhase(clocks'[1], cycles', time')
    BY <1>9 DEF Phase
  <2>1. ~late /\ time = 0
    BY <1>12
  <2>2. CASE clocks = <<>>
    <3>1. clocks'[1] = c /\ cycles = 0
      BY <2>2, <1>9 DEF ExecInv, Phase
    <3>2. InPhase(c, 0, 0)
      BY <1>3 DEF InPhase, FirstRise, Period, Clock
    <3> QED
      BY <3>1, <3>2, <2>1, <1>7
  <2>3. CASE clocks # <<>>
    <3>1. clocks'[1] = clocks[1]
      BY <2>3, <1>8, <1>9
    <3> QED
      BY <3>1, <2>1, <2>3, <1>7 DEF ExecInv, Phase
  <2> QED
    BY <2>2, <2>3
<1> QED
  BY <1>5, <1>10, <1>11, <1>13, <1>14 DEF ExecInv

(* The nets of a traced name are recorded as they are watched.             *)
LEMMA TraceKeeps ==
  ASSUME ExecInv, Trace
  PROVE  ExecInv'
<1> DEFINE D == NetsOf(job)
           name == Head(todo).name
           nets == TraceNets(name)
           new == Those(nets, ToSet(nets) \ ToSet(watched))
<1>1. Typed /\ Tracing /\ todo # <<>> /\ todo' = Tail(todo)
  BY DEF Trace, ExecInv, Command
<1>2. watched' = watched \o new /\ Record(time, values, watched')
  BY Zenon DEF Trace
<1>3. /\ job' = job /\ wait' = wait /\ values' = values /\ time' = time /\ clocks' = clocks
      /\ result' = result /\ cycles' = cycles /\ late' = late
  BY DEF Trace
<1>4. nets \in Seq(D) /\ IsInjective(nets)
  <2>1. /\ Bits(name) \in Seq(D) /\ IsInjective(Bits(name))
        /\ Whole(name) # {} => NetOf(name) \in D
    BY <1>1, NetsOfNames DEF Typed
  <2>2. \A n \in D : <<n>> \in Seq(D) /\ IsInjective(<<n>>)
    BY DEF IsInjective
  <2> HIDE DEF D
  <2> QED
    BY <2>1, <2>2 DEF TraceNets, TracedByBits
<1>5. watched \in Seq(D) /\ IsInjective(watched) /\ values \in WordsOver(D) /\ time \in Nat
  BY <1>1 DEF Typed
<1> HIDE DEF nets, D
<1>6. new \in Seq(D) /\ ToSet(new) = ToSet(nets) \cap (ToSet(nets) \ ToSet(watched)) /\ IsInjective(new)
  BY <1>4, ThoseAre
<1> HIDE DEF new
<1>7. /\ watched' \in Seq(D) /\ IsInjective(watched')
      /\ ToSet(watched) \subseteq ToSet(watched')
  <2> DEFINE m == Len(watched)
             k == Len(new)
             w == watched \o new
  <2>1. /\ w \in Seq(D) /\ Len(w) = m + k /\ m \in Nat /\ k \in Nat
        /\ \A i \in 1 .. m + k : w[i] = IF i <= m THEN watched[i] ELSE new[i - m]
    BY <1>5, <1>6, ConcatProperties
  <2>2. DOMAIN w = 1 .. m + k /\ DOMAIN watched = 1..m /\ DOMAIN new = 1..k
    BY <2>1, <1>5, <1>6
  <2> HIDE DEF m, k, w
  <2>3. ToSet(watched) \subseteq ToSet(w)
    BY <2>1, <2>2 DEF ToSet
  <2>4. ASSUME NEW i \in 1..m, NEW j \in m + 1 .. m + k PROVE w[i] # w[j]
    <3>1. w[i] = watched[i] /\ w[j] = new[j - m] /\ j - m \in 1..k
      BY <2>1
    <3>2. watched[i] \in ToSet(watched) /\ new[j - m] \in ToSet(new)
      BY <2>2, <3>1 DEF ToSet
    <3> QED
      BY <3>1, <3>2, <1>6
  <2>5. ASSUME NEW i \in 1 .. m + k, NEW j \in 1 .. m + k, w[i] = w[j] PROVE i = j
    <3>1. CASE i <= m /\ j <= m
      <4>1. watched[i] = watched[j] /\ i \in 1..m /\ j \in 1..m
        BY <3>1, <2>1, <2>5
      <4> QED
        BY <4>1, <1>5, <2>2 DEF IsInjective
    <3>2. CASE ~(i <= m) /\ ~(j <= m)
      <4>1. new[i - m] = new[j - m] /\ i - m \in 1..k /\ j - m \in 1..k
        BY <3>2, <2>1, <2>5
      <4>2. i - m = j - m
        BY <4>1, <1>6, <2>2 DEF IsInjective
      <4> QED
        BY <4>2, <2>1
    <3>3. CASE i <= m /\ ~(j <= m)
      <4>1. i \in 1..m /\ j \in m + 1 .. m + k
        BY <3>3, <2>1
      <4> QED
        BY <4>1, <2>4, <2>5
    <3>4. CASE ~(i <= m) /\ j <= m
      <4>1. j \in 1..m /\ i \in m + 1 .. m + k
        BY <3>4, <2>1
      <4> QED
        BY <4>1, <2>4, <2>5
    <3> QED
      BY <3>1, <3>2, <3>3, <3>4
  <2>6. IsInjective(w)
    BY <2>2, <2>5 DEF IsInjective
  <2>7. watched' = w
    BY <1>2 DEF w
  <2> QED
    BY <2>1, <2>3, <2>6, <2>7
<1>8. /\ samples' \in Seq(Sample)
      /\ last' = [n \in ToSet(watched') |-> values[n]]
      /\ IsTrace(samples', ToSet(watched'), values)
  BY <1>1, <1>2, <1>5, <1>7, RecordKeeps DEF D
<1>9. Tracing'
  BY <1>3, <1>8 DEF Tracing
<1>10. todo' \in Seq(Statements)
  BY <1>1, NextCommand
<1>11. Typed'
  BY <1>1, <1>3, <1>7, <1>8, <1>10 DEF Typed, D
<1>12. WaitsForClock' /\ Ahead' /\ Phase'
  BY <1>3 DEF ExecInv, WaitsForClock, Ahead, Phase, TogglesOn
<1> QED
  BY <1>9, <1>11, <1>12 DEF ExecInv

(* The next toggle is the first of all.                                    *)
LEMMA NextToggleIsFirst ==
  ASSUME Typed, clocks # <<>>
  PROVE  /\ NextToggle \in Nat
         /\ \E i \in 1..Len(clocks) : clocks[i].toggle = NextToggle
         /\ \A i \in 1..Len(clocks) : NextToggle <= clocks[i].toggle
<1> DEFINE S == { clocks[i].toggle : i \in 1..Len(clocks) }
<1>1. clocks \in Seq(Clock) /\ \A i \in 1..Len(clocks) : clocks[i] \in Clock
  BY DEF Typed
<1>2. S \subseteq Nat
  BY <1>1 DEF Clock
<1>3. 1 \in 1..Len(clocks) /\ S # {}
  BY <1>1
<1>4. \A i \in 1..Len(clocks) : clocks[i].toggle \in S
  OBVIOUS
<1>5. \A u \in S : \E i \in 1..Len(clocks) : clocks[i].toggle = u
  OBVIOUS
<1>6. NextToggle = First(S)
  BY DEF NextToggle
<1> HIDE DEF S
<1>7. First(S) \in S /\ \A u \in S : First(S) <= u
  BY <1>2, <1>3, FirstIsLeast
<1> QED
  BY <1>2, <1>4, <1>5, <1>6, <1>7

(* Once advance_to() has nothing more to toggle, no clock is behind its    *)
(* target.                                                                 *)
LEMMA NoToggleLeft ==
  ASSUME Typed, wait # NoWait, ~TogglePending
  PROVE  wait.target \in Nat /\ \A i \in 1..Len(clocks) : clocks[i].toggle > wait.target
<1>1. wait.target \in Nat
  BY DEF Typed, Waits
<1>2. CASE clocks = <<>>
  BY <1>1, <1>2
<1>3. CASE clocks # <<>>
  <2>1. ~(NextToggle <= wait.target)
    BY <1>3 DEF TogglePending
  <2>2. \A i \in 1..Len(clocks) : clocks[i] \in Clock
    BY DEF Typed
  <2>3. \A i \in 1..Len(clocks) : clocks[i].toggle \in Nat
    BY <2>2 DEF Clock
  <2> QED
    BY <1>1, <1>3, <2>1, <2>3, NextToggleIsFirst
<1> QED
  BY <1>2, <1>3

(* A wait that is over leaves no toggle behind.                            *)
LEMMA AdvanceReturnsKeeps ==
  ASSUME ExecInv, AdvanceReturns
  PROVE  ExecInv'
<1>1. /\ Typed /\ Tracing /\ Ahead /\ WaitsForClock /\ Phase
      /\ wait # NoWait /\ ~TogglePending /\ time' = wait.target
      /\ Settle(values, time')
  BY DEF AdvanceReturns, ExecInv
<1>2. /\ job' = job /\ todo' = todo /\ clocks' = clocks /\ cycles' = cycles /\ late' = late
  BY DEF AdvanceReturns
<1>3. time' \in Nat /\ \A i \in 1..Len(clocks) : clocks[i].toggle > time'
  BY <1>1, NoToggleLeft
<1>4. values \in WordsOver(NetsOf(job))
  BY <1>1 DEF Typed
<1>5. /\ values' \in WordsOver(NetsOf(job)) /\ watched' = watched
      /\ samples' \in Seq(Sample) /\ Tracing'
  BY <1>1, <1>3, <1>4, SettleKeeps
<1>6. \/ wait' = NoWait
      \/ /\ wait' = [wait EXCEPT !.target = First(TogglesOn(wait.net)),
                                 !.before = values'[wait.net] # Zero,
                                 !.tries = TriesAfter]
         /\ wait.kind # "ns"
  BY Zenon DEF AdvanceReturns
<1>7. result' = result \/ Fail
  BY DEF AdvanceReturns
<1>8. /\ wait' \in Waits
      /\ wait' # NoWait => /\ wait'.kind = "edge" /\ wait'.net = wait.net /\ wait.kind = "edge"
                           /\ wait'.target = First(TogglesOn(wait.net))
  <2>1. CASE wait' = NoWait
    BY <2>1 DEF Waits
  <2>2. CASE wait' # NoWait
    <3> DEFINE b == values'[wait.net] # Zero
               f == First(TogglesOn(wait.net))
    <3>1. wait \in [kind : {"edge"}, target : Nat, net : Nat, rising : BOOLEAN, before : BOOLEAN, tries : Nat]
      BY <1>1, <1>6, <2>2 DEF Typed, Waits
    <3>2. b \in BOOLEAN /\ TriesAfter \in Nat
      BY <3>1 DEF TriesAfter
    <3>3. TogglesOn(wait.net) # {}
      BY <1>1, <3>1 DEF WaitsForClock
    <3>4. f \in Nat
      BY <1>1, <3>3, TogglesAre
    <3>5. wait' = [wait EXCEPT !.target = f, !.before = b, !.tries = TriesAfter]
      BY <1>6, <2>2
    <3> HIDE DEF b, f
    <3>6. /\ wait' \in Waits
          /\ wait'.kind = "edge" /\ wait'.net = wait.net /\ wait.kind = "edge" /\ wait'.target = f
      BY <3>1, <3>2, <3>4, <3>5 DEF Waits
    <3> QED
      BY <3>6 DEF f
  <2> QED
    BY <2>1, <2>2
<1>9. Typed'
  <2>1. result' \in [passed : Nat, failed : Nat]
    BY <1>1, <1>7, Counted DEF Typed
  <2> QED
    BY <1>1, <1>2, <1>3, <1>5, <1>8, <2>1 DEF Typed
<1>10. WaitsForClock'
  <2> SUFFICES ASSUME wait' # NoWait PROVE TogglesOn(wait.net)' # {} /\ wait'.net \in NetsOf(job)
    BY <1>2 DEF WaitsForClock
  <2>1. TogglesOn(wait.net) # {} /\ wait.net \in NetsOf(job)
    BY <1>1, <1>8 DEF WaitsForClock
  <2>2. wait'.net = wait.net
    BY <1>8
  <2>3. TogglesOn(wait.net)' = TogglesOn(wait.net)
    BY <1>2, <2>2 DEF TogglesOn
  <2> QED
    BY <2>1, <2>2, <2>3
<1>11. Ahead'
  <2>1. \A i \in 1..Len(clocks') : clocks'[i].toggle > time'
    BY <1>2, <1>3
  <2>2. ASSUME wait' # NoWait PROVE wait'.target >= time'
    <3>1. TogglesOn(wait.net) # {}
      BY <1>1, <1>8, <2>2 DEF WaitsForClock
    <3>2. First(TogglesOn(wait.net)) \in TogglesOn(wait.net) /\ First(TogglesOn(wait.net)) \in Nat
      BY <1>1, <3>1, TogglesAre
    <3>3. \A u \in TogglesOn(wait.net) : \E i \in 1..Len(clocks) : u = clocks[i].toggle
      BY DEF TogglesOn
    <3>4. First(TogglesOn(wait.net)) > time'
      BY <3>2, <3>3, <1>3
    <3>5. wait'.target = First(TogglesOn(wait.net))
      BY <1>8, <2>2
    <3> QED
      BY <1>3, <3>2, <3>4, <3>5
  <2> QED
    BY <2>1, <2>2 DEF Ahead
<1>12. Phase'
  <2> SUFFICES ASSUME clocks # <<>>, ~late PROVE InPhase(clocks[1], cycles, time')
    BY <1>1, <1>2 DEF Phase
  <2>1. InPhase(clocks[1], cycles, time)
    BY <1>1 DEF Phase
  <2>2. time' >= time /\ time \in Nat
    BY <1>1 DEF Ahead, Typed
  <2>3. clocks[1] \in Clock
    BY <1>1 DEF Typed
  <2> QED
    BY <1>3, <2>1, <2>2, <2>3 DEF InPhase, Clock
<1> QED
  BY <1>5, <1>9, <1>10, <1>11, <1>12 DEF ExecInv

(* A clock that toggles at t, or stays as it is while t passes, stays in   *)
(* phase; its cycles are its rises.                                        *)
LEMMA PhaseKeeps ==
  ASSUME NEW c \in Clock, NEW d \in Clock, NEW n \in Nat, NEW time0 \in Nat, NEW t \in Nat,
         InPhase(c, n, time0), time0 < t, t <= c.toggle,
         d.low = c.low, d.high = c.high, d.init = c.init,
         c.toggle # t => d = c,
         c.toggle = t => /\ d.level = 1 - c.level
                         /\ d.toggle = c.toggle + (IF c.level = 0 THEN c.high ELSE c.low)
  PROVE  InPhase(d, IF d.level = 1 /\ d.toggle - d.high = t THEN n + 1 ELSE n, t)
<1> DEFINE P == Period(c)
           Q == n * P
           R == FirstRise(c)
<1>1. /\ c.low \in Nat /\ c.high \in Nat /\ c.low > 0 /\ c.high > 0 /\ c.toggle \in Nat
      /\ c.level \in {0, 1} /\ d.level \in {0, 1} /\ d.toggle \in Nat
  BY DEF Clock
<1>2. P = c.low + c.high /\ P \in Nat /\ R \in Nat /\ Period(d) = P /\ FirstRise(d) = R
  BY <1>1 DEF Period, FirstRise
<1>3. Q \in Nat /\ (n + 1) * P = Q + P
  <2> HIDE DEF P
  <2> QED
    BY <1>2
<1>4. IF c.level = 0 THEN c.toggle = R + Q /\ c.toggle <= time0 + c.low
      ELSE c.toggle + P = R + Q + c.high /\ c.toggle <= time0 + c.high
  BY DEF InPhase
<1>5. /\ InPhase(d, n, t) <=> IF d.level = 0 THEN d.toggle = R + Q /\ d.toggle <= t + d.low
                              ELSE d.toggle + P = R + Q + d.high /\ d.toggle <= t + d.high
      /\ InPhase(d, n + 1, t) <=> IF d.level = 0 THEN d.toggle = R + (n + 1) * P /\ d.toggle <= t + d.low
                              ELSE d.toggle + P = R + (n + 1) * P + d.high /\ d.toggle <= t + d.high
  BY <1>2 DEF InPhase
<1> HIDE DEF P, Q, R
<1>6. CASE c.toggle # t
  BY <1>1, <1>2, <1>3, <1>4, <1>5, <1>6
<1>7. CASE c.toggle = t /\ c.level = 0
  BY <1>1, <1>2, <1>3, <1>4, <1>5, <1>7
<1>8. CASE c.toggle = t /\ c.level = 1
  BY <1>1, <1>2, <1>3, <1>4, <1>5, <1>8
<1> QED
  BY <1>1, <1>6, <1>7, <1>8

(* The due clocks toggle together, and the design gets its cycle.          *)
LEMMA ToggleKeeps ==
  ASSUME ExecInv, Toggle
  PROVE  ExecInv'
<1> DEFINE D == NetsOf(job)
           t == NextToggle
           settled == PassValues(job.design, ClockWrites(t))
           cycled  == PassValues(job.design,
                        EdgeValues(job.design, PassValues(job.design, settled)))
           other   == { n \in ToSet(watched) : settled[n] # cycled[n] }
           first   == Sampled(t, settled, Changed(settled, watched))
           second  == Sampled(t, cycled, Those(watched, other))
<1>1. /\ Typed /\ Tracing /\ Ahead /\ WaitsForClock /\ Phase
      /\ wait # NoWait /\ clocks # <<>> /\ t <= wait.target
  BY DEF Toggle, TogglePending, ExecInv
<1>2. /\ job' = job /\ todo' = todo /\ wait' = wait /\ watched' = watched
      /\ result' = result /\ late' = late
  BY DEF Toggle
<1>3. /\ time' = t /\ clocks' = ClocksAfter(t)
      /\ last' = [n \in ToSet(watched) |-> values'[n]]
      /\ \/ PrimaryRose(t) /\ values' = cycled /\ samples' = samples \o first \o second /\ cycles' = cycles + 1
         \/ ~PrimaryRose(t) /\ values' = settled /\ samples' = samples \o first /\ cycles' = cycles
  BY Zenon DEF Toggle
<1>4. /\ t \in Nat /\ \E i \in 1..Len(clocks) : clocks[i].toggle = t
      /\ \A i \in 1..Len(clocks) : t <= clocks[i].toggle
  BY <1>1, NextToggleIsFirst
<1> HIDE DEF t
<1>5. settled \in WordsOver(D) /\ cycled \in WordsOver(D)
  <2>1. /\ Len(job.design.luts) \in Nat /\ Len(job.design.ffs) \in Nat
        /\ \A k \in 1 .. Len(job.design.ffs) : job.design.ffs[k].d \in D
    BY <1>1, SMTT(30) DEF Typed, IsJob, IsConfig
  <2> HIDE DEF D
  <2>2. ClockWrites(t) \in WordsOver(D)
    BY <1>1, <1>4, ClockWritesKeep DEF D
  <2>3. settled \in WordsOver(D)
    BY <2>1, <2>2, PassKeeps
  <2> HIDE DEF settled
  <2>4. PassValues(job.design, settled) \in WordsOver(D)
    BY <2>1, <2>3, PassKeeps
  <2>5. EdgeValues(job.design, PassValues(job.design, settled)) \in WordsOver(D)
    BY <2>1, <2>4, EdgeKeeps
  <2> QED
    BY <2>1, <2>3, <2>5, PassKeeps
<1> HIDE DEF settled, cycled
<1>6. /\ watched \in Seq(D) /\ IsInjective(watched) /\ values \in WordsOver(D)
      /\ samples \in Seq(Sample) /\ IsTrace(samples, ToSet(watched), values) /\ D \subseteq Nat
  BY <1>1, NetsAreNumbers DEF Typed, Tracing
<1> HIDE DEF D
<1>7. samples \o first \in Seq(Sample) /\ IsTrace(samples \o first, ToSet(watched), settled)
  <2> DEFINE c == Changed(settled, watched)
             new == { n \in ToSet(watched) : n \notin DOMAIN last \/ last[n] # settled[n] }
  <2>1. c = Those(watched, new)
    BY DEF Changed
  <2>2. DOMAIN last = ToSet(watched) /\ \A n \in ToSet(watched) : last[n] = values[n]
    BY <1>1 DEF Tracing
  <2>3. new = { n \in ToSet(watched) : n \notin ToSet(watched) \/ values[n] # settled[n] }
    BY <2>2
  <2> HIDE DEF c, new
  <2>4. c \in Seq(D) /\ ToSet(c) = ToSet(watched) \cap new /\ IsInjective(c)
    BY <1>6, <2>1, ThoseAre
  <2>5. ToSet(c) = { n \in ToSet(watched) : n \notin ToSet(watched) \/ values[n] # settled[n] }
    BY <2>3, <2>4
  <2>6. samples \o Sampled(t, settled, c) \in Seq(Sample)
    BY <1>4, <1>5, <1>6, <2>4, SamplesGrow
  <2>7. IsTrace(samples \o Sampled(t, settled, c), ToSet(watched), settled)
    BY <1>6, <2>4, <2>5, TraceGrows
  <2> QED
    BY <2>6, <2>7 DEF c
<1> HIDE DEF first
<1>8. /\ samples \o first \o second \in Seq(Sample)
      /\ IsTrace(samples \o first \o second, ToSet(watched), cycled)
  <2> DEFINE c == Those(watched, other)
             s == samples \o first
  <2>1. other = { n \in ToSet(watched) : n \notin ToSet(watched) \/ settled[n] # cycled[n] }
    OBVIOUS
  <2>2. s \in Seq(Sample) /\ IsTrace(s, ToSet(watched), settled)
    BY <1>7
  <2> HIDE DEF other, c, s
  <2>3. c \in Seq(D) /\ ToSet(c) = ToSet(watched) \cap other /\ IsInjective(c)
    BY <1>6, ThoseAre DEF c
  <2>4. ToSet(c) = { n \in ToSet(watched) : n \notin ToSet(watched) \/ settled[n] # cycled[n] }
    BY <2>1, <2>3
  <2>5. s \o Sampled(t, cycled, c) \in Seq(Sample)
    BY <1>4, <1>5, <1>6, <2>2, <2>3, SamplesGrow
  <2>6. IsTrace(s \o Sampled(t, cycled, c), ToSet(watched), cycled)
    BY <2>2, <2>3, <2>4, TraceGrows
  <2> QED
    BY <2>5, <2>6 DEF c, s
<1> HIDE DEF second
<1>9. /\ values' \in WordsOver(D) /\ samples' \in Seq(Sample) /\ Tracing'
  <2>1. values' \in WordsOver(D) /\ samples' \in Seq(Sample)
    BY <1>3, <1>5, <1>7, <1>8
  <2>2. IsTrace(samples', ToSet(watched), values')
    BY <1>3, <1>7, <1>8
  <2> QED
    BY <2>1, <2>2, <1>2, <1>3 DEF Tracing
<1>10. /\ clocks \in Seq(Clock) /\ time \in Nat /\ cycles \in Nat /\ late \in BOOLEAN
       /\ \A i \in 1..Len(clocks) : clocks[i] \in Clock
  BY <1>1 DEF Typed
<1>11. /\ clocks' \in Seq(Clock) /\ Len(clocks') = Len(clocks)
       /\ \A i \in 1..Len(clocks) :
            /\ clocks'[i].net = clocks[i].net /\ clocks'[i].low = clocks[i].low
            /\ clocks'[i].high = clocks[i].high /\ clocks'[i].init = clocks[i].init
            /\ clocks[i].toggle # t => clocks'[i] = clocks[i]
            /\ clocks[i].toggle = t =>
                 /\ clocks'[i].level = 1 - clocks[i].level
                 /\ clocks'[i].toggle = clocks[i].toggle + (IF clocks[i].level = 0 THEN clocks[i].high
                                                                                   ELSE clocks[i].low)
  BY <1>3, <1>4, <1>10, ClocksAfterAre
<1>12. Typed'
  <2>1. cycles' \in Nat
    BY <1>3, <1>10
  <2> QED
    BY <1>1, <1>2, <1>3, <1>4, <1>9, <1>11, <2>1 DEF Typed, D
<1>13. WaitsForClock'
  <2> SUFFICES ASSUME wait.kind = "edge" PROVE TogglesOn(wait.net)' # {} /\ wait.net \in NetsOf(job)
    BY <1>2 DEF WaitsForClock
  <2>1. TogglesOn(wait.net) # {} /\ wait.net \in NetsOf(job)
    BY <1>1 DEF WaitsForClock
  <2>2. PICK i \in 1..Len(clocks) : clocks[i].net = wait.net
    BY <2>1 DEF TogglesOn
  <2>3. i \in 1..Len(clocks') /\ clocks'[i].net = wait'.net
    BY <1>2, <1>11, <2>2
  <2> QED
    BY <2>1, <2>3 DEF TogglesOn
<1>14. Ahead'
  <2>1. ASSUME NEW i \in 1..Len(clocks) PROVE clocks'[i].toggle > t
    <3>1. /\ clocks[i].toggle \in Nat /\ clocks[i].low \in Nat \ {0} /\ clocks[i].high \in Nat \ {0}
          /\ t <= clocks[i].toggle
      BY <1>4, <1>10 DEF Clock
    <3> QED
      BY <3>1, <1>4, <1>11
  <2>2. wait'.target >= time'
    <3>1. wait.target \in Nat
      BY <1>1 DEF Typed, Waits
    <3> QED
      BY <1>1, <1>2, <1>3, <1>4, <3>1
  <2>3. \A i \in 1..Len(clocks') : clocks'[i].toggle > time'
    BY <2>1, <1>3, <1>11
  <2> QED
    BY <2>2, <2>3 DEF Ahead
<1>15. Phase'
  <2>1. 1 \in 1..Len(clocks) /\ clocks' # <<>> /\ Len(clocks) \in Nat
    BY <1>1, <1>10, <1>11
  <2> SUFFICES ASSUME ~late PROVE InPhase(clocks'[1], cycles', time')
    BY <1>2, <2>1 DEF Phase
  <2>2. InPhase(clocks[1], cycles, time)
    BY <1>1 DEF Phase
  <2>3. time < t
    <3>1. PICK i \in 1..Len(clocks) : clocks[i].toggle = t
      BY <1>4
    <3> QED
      BY <3>1, <1>1, <1>4, <1>10 DEF Ahead
  <2>4. t <= clocks[1].toggle /\ clocks[1] \in Clock /\ clocks'[1] \in Clock
    BY <1>4, <1>10, <1>11, <2>1
  <2> DEFINE c == clocks[1]
             d == clocks'[1]
  <2>5. /\ d.low = c.low /\ d.high = c.high /\ d.init = c.init
        /\ c.toggle # t => d = c
        /\ c.toggle = t => /\ d.level = 1 - c.level
                           /\ d.toggle = c.toggle + (IF c.level = 0 THEN c.high ELSE c.low)
    BY <1>11, <2>1
  <2>6. PrimaryRose(t) <=> d.level = 1 /\ d.toggle - d.high = t
    BY <1>3 DEF PrimaryRose
  <2>7. cycles' = IF d.level = 1 /\ d.toggle - d.high = t THEN cycles + 1 ELSE cycles
    BY <1>3, <2>6
  <2> HIDE DEF c, d
  <2>8. InPhase(d, IF d.level = 1 /\ d.toggle - d.high = t THEN cycles + 1 ELSE cycles, t)
    <3>1. c \in Clock /\ d \in Clock /\ InPhase(c, cycles, time) /\ t <= c.toggle
      BY <2>2, <2>4 DEF c, d
    <3> QED
      BY <3>1, <1>4, <1>10, <2>3, <2>5, PhaseKeeps
  <2> QED
    BY <2>7, <2>8, <1>3 DEF d
<1> QED
  BY <1>9, <1>12, <1>13, <1>14, <1>15 DEF ExecInv

(* Every step of the executor keeps its invariant.                         *)
LEMMA ExecutorKeeps ==
  ASSUME ExecInv, TbNext
  PROVE  ExecInv'
BY UnknownKeeps, IgnoredKeeps, DeclareClockKeeps, DriveKeeps, CheckAssertionKeeps, TraceKeeps,
   RepeatKeeps, StopKeeps, WaitNsKeeps, WaitEdgeKeeps, ToggleKeeps, AdvanceReturnsKeeps DEF TbNext

-----------------------------------------------------------------------------
(* The steps of the command *)

(* The values a design starts with are words.                              *)
LEMMA InitialWords ==
  ASSUME NEW cfg, \A n \in DOMAIN cfg.constants : cfg.constants[n] \in Word
  PROVE  InitialValues(cfg) \in WordsOver(0 .. cfg.total_nets - 1)
BY DEF InitialValues, WordsOver, Zero, Word

(* The command line starts in it.                                          *)
LEMMA InitKeeps ==
  ASSUME ToolInit
  PROVE  ToolInv
<1> USE DEF ToolInit, TbInit
<1>1. IsJob(NoJob)
  <2>1. NoJob.design = NoDesign /\ DOMAIN NoJob.ports = {}
    BY DEF NoJob
  <2>2. /\ NoDesign.luts = <<>> /\ NoDesign.ffs = <<>> /\ NoDesign.total_nets = 0
        /\ DOMAIN NoDesign.constants = {}
    BY DEF NoDesign
  <2> QED
    BY <2>1, <2>2 DEF IsJob, IsConfig
<1>2. values \in WordsOver(NetsOf(job))
  <2>1. \A n \in DOMAIN NoDesign.constants : NoDesign.constants[n] \in Word
    BY DEF NoDesign
  <2>2. NetsOf(job) = 0 .. NoDesign.total_nets - 1
    BY DEF NetsOf, NoJob
  <2> QED
    BY <2>1, <2>2, InitialWords
<1>3. Typed
  <2>1. IsInjective(watched) /\ watched \in Seq(NetsOf(job))
    BY DEF IsInjective
  <2>2. wait \in Waits
    BY DEF Waits
  <2>3. todo \in Seq(Statements) /\ clocks \in Seq(Clock) /\ samples \in Seq(Sample)
    OBVIOUS
  <2> QED
    BY <1>1, <1>2, <2>1, <2>2, <2>3 DEF Typed
<1>4. ToSet(watched) = {}
  BY DEF ToSet
<1>5. Tracing
  BY <1>4 DEF Tracing, IsTrace, EndsAt, OnlyChanges
<1>6. WaitsForClock /\ Ahead /\ Phase
  BY DEF WaitsForClock, Ahead, Phase
<1>7. Idle /\ Ended /\ ZeroMeansPassed
  BY DEF Idle, Ended, ZeroMeansPassed
<1> QED
  BY <1>3, <1>5, <1>6, <1>7 DEF ToolInv

(* A step outside the executor that may count a failed check.              *)
LEMMA OutsideKeeps ==
  ASSUME ExecInv, UNCHANGED <<job, todo, wait, values, time, clocks, tracer, cycles, late>>,
         result' = result \/ Fail
  PROVE  ExecInv'
<1>1. Typed /\ todo' = todo /\ wait' = wait
  BY DEF ExecInv
<1>2. result' \in [passed : Nat, failed : Nat]
  BY <1>1, Counted DEF Typed
<1>3. todo' \in Seq(Statements) /\ wait' \in Waits
  BY <1>1 DEF Typed
<1>4. UNCHANGED <<job, values, time, clocks, tracer, cycles, late>>
  OBVIOUS
<1> QED
  BY <1>1, <1>2, <1>3, <1>4, Unmoved

(* A design that is loaded starts a new executor.                          *)
LEMMA LoadDesignKeeps ==
  ASSUME ExecInv, Idle, Ended, LoadDesign
  PROVE  ExecInv'
<1> DEFINE j == Loaded[argv.design].job
<1>1. stage = "start" /\ LoadJob(j) /\ argv \in CommandLines
  BY DEF LoadDesign, Ended
<1>2. /\ wait = NoWait /\ time = 0 /\ clocks = <<>> /\ watched = <<>> /\ samples = <<>>
  BY <1>1 DEF Idle
<1>3. /\ job' = j /\ values' = InitialValues(j.design) /\ todo' = todo /\ wait' = wait /\ time' = time
      /\ clocks' = clocks /\ watched' = watched /\ last' = last /\ samples' = samples
      /\ result' = result /\ cycles' = cycles /\ late' = late
  BY <1>1 DEF LoadJob, tracer
<1>4. IsJob(j)
  BY <1>1, LinesAssumption, JobsAssumption
<1> HIDE DEF j
<1>5. values' \in WordsOver(NetsOf(job'))
  <2>1. \A n \in DOMAIN j.design.constants : j.design.constants[n] \in Word
    BY <1>4 DEF IsJob, IsConfig
  <2> QED
    BY <1>3, <2>1, InitialWords DEF NetsOf
<1>6. Typed'
  <2>1. watched' \in Seq(NetsOf(job'))
    BY <1>2, <1>3
  <2> QED
    BY <1>3, <1>4, <1>5, <2>1 DEF ExecInv, Typed, NetsOf
<1>7. Tracing'
  <2>1. ToSet(watched) = {}
    BY <1>2 DEF ToSet
  <2> QED
    BY <1>2, <1>3, <2>1 DEF ExecInv, Tracing, IsTrace, EndsAt, OnlyChanges
<1>8. WaitsForClock' /\ Ahead' /\ Phase'
  BY <1>2, <1>3 DEF ExecInv, WaitsForClock, Ahead, Phase
<1> QED
  BY <1>6, <1>7, <1>8 DEF ExecInv

(* A command that runs is one of the executor's steps.                     *)
LEMMA RunKeeps ==
  ASSUME ExecInv, NEW commands \in Seq(Statements), RunTestbench(commands)
  PROVE  ExecInv'
<1>1. /\ todo' = commands /\ wait' = wait /\ result' = result
      /\ UNCHANGED <<job, values, time, clocks, tracer, cycles, late>>
  BY DEF RunTestbench
<1>2. todo' \in Seq(Statements) /\ wait' \in Waits /\ result' \in [passed : Nat, failed : Nat]
  BY <1>1 DEF ExecInv, Typed
<1> QED
  BY <1>1, <1>2, Unmoved

(* Every step of the tool keeps the invariant of the executor.             *)
LEMMA ToolExecInv ==
  ASSUME ToolInv, [ToolNext]_toolVars
  PROVE  ExecInv'
<1>1. ExecInv /\ Idle /\ Ended
  BY DEF ToolInv, ExecInv
<1>2. CASE UNCHANGED <<job, todo, wait, values, time, clocks, tracer, cycles, late>> /\ (result' = result \/ Fail)
  BY <1>1, <1>2, OutsideKeeps
<1>3. CASE UNCHANGED tbVars
  BY <1>2, <1>3 DEF tbVars, tracer
<1>4. CASE Usage \/ ViewWave \/ CannotReadDesign \/ Report \/ RefuseTestbench \/ Finish
  BY <1>3, <1>4 DEF Usage, ViewWave, CannotReadDesign, Report, RefuseTestbench, Finish
<1>5. CASE LoadDesign
  BY <1>1, <1>5, LoadDesignKeeps
<1>6. CASE RunFile
  <2>1. argv \in LinesWith("file") /\ Testbenches[argv.tokens].ok
    BY <1>1, <1>6 DEF RunFile, Ended, LinesWith
  <2>2. argv.tokens \in DOMAIN Testbenches
    BY <2>1, LinesAssumption
  <2>3. Testbenches[argv.tokens].cmds \in Seq(Statements)
    BY <2>1, <2>2, StatementsAssumption
  <2>4. RunTestbench(Testbenches[argv.tokens].cmds)
    BY <1>6 DEF RunFile
  <2> QED
    BY <1>1, <2>3, <2>4, RunKeeps
<1>7. CASE RunAuto
  <2>1. argv \in LinesWith("auto")
    BY <1>1, <1>7 DEF RunAuto, Ended, LinesWith
  <2>2. AutoTestbench(Loaded[argv.design], argv.cycles) \in Seq(Statements)
    BY <2>1, StatementsAssumption
  <2>3. RunTestbench(AutoTestbench(Loaded[argv.design], argv.cycles))
    BY <1>7 DEF RunAuto
  <2> QED
    BY <1>1, <2>2, <2>3, RunKeeps
<1>8. CASE Execute
  BY <1>1, <1>8, ExecutorKeeps DEF Execute
<1>9. CASE WriteDump
  <2>1. UNCHANGED <<job, todo, wait, values, time, clocks, tracer, cycles, late>>
    BY <1>9 DEF WriteDump
  <2>2. result' = result \/ Fail
    BY <1>9 DEF WriteDump
  <2> QED
    BY <1>2, <2>1, <2>2
<1>10. CASE UNCHANGED toolVars
  BY <1>3, <1>10 DEF toolVars
<1> QED
  BY <1>4, <1>5, <1>6, <1>7, <1>8, <1>9, <1>10 DEF ToolNext

(* Before a run there is nothing in the executor.                          *)
LEMMA IdleKeeps ==
  ASSUME ToolInv, [ToolNext]_toolVars
  PROVE  Idle'
<1> USE DEF Idle
<1>1. Idle
  BY DEF ToolInv
<1>2. CASE LoadDesign
  BY <1>1, <1>2 DEF LoadDesign, LoadJob, tracer
<1>3. CASE Execute
  BY <1>3 DEF Execute
<1>4. CASE Usage \/ ViewWave \/ CannotReadDesign \/ Report \/ RefuseTestbench \/ Finish
  BY <1>4 DEF Usage, ViewWave, CannotReadDesign, Report, RefuseTestbench, Finish, Exit
<1>5. CASE RunFile \/ RunAuto \/ WriteDump
  BY <1>5 DEF RunFile, RunAuto, WriteDump
<1>6. CASE UNCHANGED toolVars
  BY <1>1, <1>6 DEF toolVars, tbVars
<1> QED
  BY <1>2, <1>3, <1>4, <1>5, <1>6 DEF ToolNext

(* The changes of a dump are those of the samples.                         *)
LEMMA ChangesStay ==
  ASSUME job' = job, samples' = samples
  PROVE  Changes' = Changes
BY DEF Changes, AfterSample, VarOf, IsBit, BitOf, BusAfter, Reached, Shown, Whole, Bits

(* The verdict in the exit code.                                           *)
LEMMA Verdict ==
  ASSUME Typed
  PROVE  /\ ExitCode \in 0..4
         /\ ExitCode = 0 => result.failed = 0
<1>1. result.failed \in Nat
  BY DEF Typed
<1>2. Bit(result.failed > 0) \in {0, 1} /\ (Bit(result.failed > 0) = 0 => result.failed = 0)
  BY <1>1 DEF Bit
<1> QED
  BY <1>2 DEF ExitCode

(* How a run ended stays as it is.                                         *)
LEMMA EndedKeeps ==
  ASSUME ToolInv, [ToolNext]_toolVars
  PROVE  Ended' /\ ZeroMeansPassed'
<1>1. Typed /\ Ended /\ ZeroMeansPassed
  BY DEF ToolInv
<1>2. CASE Usage \/ ViewWave \/ CannotReadDesign \/ Report \/ RefuseTestbench
  <2>1. /\ argv' = argv /\ stage' = "done"
        /\ exit' \in 0..4 \cup {argv.viewer}
        /\ argv.command \in {"sim", "verify"} => exit' # 0
    <3>1. CASE Usage
      BY <3>1 DEF Usage, Exit
    <3>2. CASE ViewWave
      BY <3>2 DEF ViewWave, Exit
    <3>3. CASE CannotReadDesign
      BY <3>3 DEF CannotReadDesign, Exit
    <3>4. CASE Report
      BY <3>4 DEF Report, Exit
    <3>5. CASE RefuseTestbench
      BY <3>5 DEF RefuseTestbench, Exit
    <3> QED
      BY <1>2, <3>1, <3>2, <3>3, <3>4, <3>5
  <2> QED
    BY <1>1, <2>1 DEF Ended, ZeroMeansPassed
<1>3. CASE LoadDesign
  BY <1>1, <1>3 DEF LoadDesign, Ended, ZeroMeansPassed
<1>4. CASE RunFile \/ RunAuto
  BY <1>1, <1>4 DEF RunFile, RunAuto, Simulates, Ended, ZeroMeansPassed
<1>5. CASE Execute
  BY <1>1, <1>5 DEF Execute, Ended, ZeroMeansPassed
<1>6. CASE WriteDump
  <2>1. /\ argv' = argv /\ exit' = exit /\ stage' = "dumped" /\ todo' = todo /\ wait' = wait
        /\ stage = "running" /\ todo = <<>> /\ wait = NoWait
        /\ IF argv.writable THEN dump' = Changes ELSE Fail
    BY <1>6 DEF WriteDump, TestbenchDone
  <2>2. Changes' = Changes
    BY <1>6, ChangesStay DEF WriteDump, tracer
  <2>3. ~argv.writable => result'.failed > 0
    <3>1. result \in [passed : Nat, failed : Nat]
      BY <1>1 DEF Typed
    <3> QED
      BY <3>1, <2>1 DEF Fail
  <2> HIDE DEF Changes
  <2> QED
    BY <1>1, <2>1, <2>2, <2>3 DEF Ended, ZeroMeansPassed
<1>7. CASE Finish
  <2>1. /\ argv' = argv /\ stage' = "done" /\ exit' = ExitCode /\ dump' = dump
        /\ result' = result /\ todo' = todo /\ wait' = wait
        /\ stage = "dumped" \/ (TestbenchDone /\ ~Dumps)
    BY <1>7 DEF Finish, Exit, tbVars
  <2>2. Changes' = Changes
    BY <1>7, ChangesStay DEF Finish, tbVars
  <2>3. ExitCode \in 0..4 /\ (ExitCode = 0 => result.failed = 0)
    BY <1>1, Verdict
  <2>4. Dumps' <=> Dumps
    BY <2>1 DEF Dumps
  <2>5. Ended'
    BY <1>1, <2>1, <2>3 DEF Ended
  <2>6. ASSUME exit' = 0
        PROVE  /\ result'.failed = 0 /\ todo' = <<>> /\ wait' = NoWait
               /\ Dumps' => argv'.writable /\ dump' = Changes'
    <3>1. result.failed = 0
      BY <2>1, <2>3, <2>6
    <3>2. CASE stage = "dumped"
      <4>1. todo = <<>> /\ wait = NoWait /\ argv.writable /\ dump = Changes
        BY <1>1, <3>1, <3>2 DEF Ended
      <4> QED
        BY <2>1, <2>2, <3>1, <4>1
    <3>3. CASE TestbenchDone /\ ~Dumps
      BY <2>1, <2>4, <3>1, <3>3 DEF TestbenchDone
    <3> QED
      BY <2>1, <3>2, <3>3
  <2> QED
    BY <2>5, <2>6 DEF ZeroMeansPassed
<1>8. CASE UNCHANGED toolVars
  <2>1. /\ argv' = argv /\ stage' = stage /\ exit' = exit /\ dump' = dump /\ todo' = todo /\ wait' = wait
        /\ result' = result /\ job' = job /\ samples' = samples
    BY <1>8 DEF toolVars, tbVars
  <2>2. Changes' = Changes
    BY <2>1, ChangesStay
  <2>3. Dumps' <=> Dumps
    BY <2>1 DEF Dumps
  <2> QED
    BY <1>1, <2>1, <2>2, <2>3 DEF Ended, ZeroMeansPassed
<1> QED
  BY <1>2, <1>3, <1>4, <1>5, <1>6, <1>7, <1>8 DEF ToolNext

(* The invariant of the tool: the executor, main.cpp's stages and the exit *)
(* code they lead to.                                                      *)
THEOREM ToolInvariant == ToolSpec => []ToolInv
<1>1. ToolInit => ToolInv
  BY InitKeeps
<1>2. ToolInv /\ [ToolNext]_toolVars => ToolInv'
  BY ToolExecInv, IdleKeeps, EndedKeeps DEF ToolInv, ExecInv
<1> QED
  BY <1>1, <1>2, PTL DEF ToolSpec

-----------------------------------------------------------------------------
(* What follows from the invariant *)

(* The state of the command and of its executor keeps its types, however   *)
(* far the command is: main.cpp, TbExecutor and Tracer.                    *)
THEOREM ToolTypeCorrect == ToolSpec => []ToolTypeOK
<1>1. ToolInv => ToolTypeOK
  <2> SUFFICES ASSUME ToolInv PROVE ToolTypeOK
    OBVIOUS
  <2>1. Typed /\ Tracing /\ Ended
    BY DEF ToolInv
  <2>2. wait # NoWait => wait.kind \in {"ns", "edge"} /\ wait.target \in Nat
    BY <2>1 DEF Typed, Waits
  <2>3. ASSUME NEW i \in 1..Len(clocks)
        PROVE  clocks[i].level \in {0, 1} /\ clocks[i].low > 0 /\ clocks[i].high > 0
    <3>1. clocks[i] \in Clock
      BY <2>1 DEF Typed
    <3> QED
      BY <3>1 DEF Clock
  <2>4. DOMAIN values = NetsOf(job) /\ ToSet(watched) \subseteq NetsOf(job)
    BY <2>1 DEF Typed, WordsOver, ToSet
  <2>5. values \in [0 .. job.design.total_nets - 1 -> Word]
    BY <2>1 DEF Typed, WordsOver, NetsOf
  <2>6. DOMAIN last = ToSet(watched)
    BY <2>1 DEF Tracing
  <2>7. time \in Nat /\ result \in [passed : Nat, failed : Nat]
    BY <2>1 DEF Typed
  <2>8. TbTypeOK
    BY <2>2, <2>3, <2>4, <2>5, <2>6, <2>7 DEF TbTypeOK
  <2> QED
    BY <2>1, <2>8 DEF ToolTypeOK, Ended
<1> QED
  BY <1>1, ToolInvariant, PTL

(* Exit code 0 means passed: no check failed, the testbench ran to its end *)
(* and the dump that was asked for is written (cmd_verify()).              *)
THEOREM ExitCodesMeanWhatTheySay == ToolSpec => []ZeroMeansPassed
<1>1. ToolInv => ZeroMeansPassed
  BY DEF ToolInv
<1> QED
  BY <1>1, ToolInvariant, PTL

(* A quotient, by its bounds.                                              *)
LEMMA Quotient ==
  ASSUME NEW a \in Int, NEW b \in Nat, b > 0, NEW q \in Int, q * b <= a, a < q * b + b
  PROVE  a \div b = q
<1> DEFINE r == a \div b
           m == a % b
<1>1. r \in Int /\ m \in Int /\ a = b * r + m /\ 0 <= m /\ m < b
  OBVIOUS
<1> HIDE DEF r, m
<1>2. CASE r >= q + 1
  <2>1. b * (r - (q + 1)) >= 0
    BY <1>1, <1>2
  <2>2. b * (r - (q + 1)) = b * r - (q * b + b)
    BY <1>1
  <2> QED
    BY <1>1, <2>1, <2>2
<1>3. CASE r <= q - 1
  <2>1. b * ((q - 1) - r) >= 0
    BY <1>1, <1>3
  <2>2. b * ((q - 1) - r) = (q * b - b) - b * r
    BY <1>1
  <2> QED
    BY <1>1, <2>1, <2>2
<1> QED
  BY <1>1, <1>2, <1>3 DEF r

(* A clock in its phase has risen as often as its cycles say.              *)
LEMMA RisesInPhase ==
  ASSUME NEW c \in Clock, NEW n \in Nat, NEW t \in Nat, InPhase(c, n, t), t < c.toggle
  PROVE  Rises(c, t) = n
<1> DEFINE P == Period(c)
           R == FirstRise(c)
           Q == n * P
<1>1. /\ c.low \in Nat /\ c.high \in Nat /\ c.low > 0 /\ c.high > 0 /\ c.toggle \in Nat /\ c.level \in {0, 1}
  BY DEF Clock
<1>2. P = c.low + c.high /\ P \in Nat /\ P > 0 /\ R \in Nat /\ R = c.low + (IF c.init = 1 THEN c.high ELSE 0)
  BY <1>1 DEF Period, FirstRise
<1>3. Q \in Nat /\ (n - 1) * P = Q - P /\ (n = 0 => Q = 0) /\ (n > 0 => Q >= P)
  <2> HIDE DEF P
  <2>1. (n - 1) * P = n * P - P /\ n * P \in Nat
    BY <1>2
  <2>2. n > 0 => (n - 1) * P >= 0
    BY <1>2
  <2> QED
    BY <2>1, <2>2, <1>2
<1>4. IF c.level = 0 THEN c.toggle = R + Q /\ c.toggle <= t + c.low
      ELSE c.toggle + P = R + Q + c.high /\ c.toggle <= t + c.high
  BY DEF InPhase
<1>5. Rises(c, t) = IF t < R THEN 0 ELSE (t - R) \div P + 1
  <2>1. c.low + c.high = P
    BY <1>2
  <2> QED
    BY <1>2, <2>1 DEF Rises
<1> HIDE DEF P, R, Q
<1>6. CASE n = 0
  BY <1>1, <1>2, <1>3, <1>4, <1>5, <1>6
<1>7. CASE n > 0
  <2>1. ~(t < R)
    BY <1>1, <1>2, <1>3, <1>4, <1>7
  <2>2. Q - P <= t - R /\ t - R < (Q - P) + P
    BY <1>1, <1>2, <1>3, <1>4
  <2>3. (n - 1) * P <= t - R /\ t - R < (n - 1) * P + P
    BY <1>3, <2>2
  <2>4. (t - R) \div P = n - 1
    BY <1>2, <2>3, Quotient
  <2> QED
    BY <1>5, <2>1, <2>4
<1> QED
  BY <1>6, <1>7

(* The design gets one cycle per rising edge of its first clock in the     *)
(* time that has passed: advance_to() and what it leaves to later waits.   *)
THEOREM CyclesAreRises == ToolSpec => []CyclesFollowTheClock
<1>1. ToolInv => CyclesFollowTheClock
  <2> SUFFICES ASSUME ToolInv, clocks # <<>>, ~late PROVE cycles = Rises(clocks[1], time)
    BY DEF CyclesFollowTheClock
  <2>1. Typed /\ Ahead /\ Phase
    BY DEF ToolInv
  <2>2. clocks[1] \in Clock /\ 1 \in 1..Len(clocks) /\ cycles \in Nat /\ time \in Nat
    BY <2>1 DEF Typed
  <2>3. InPhase(clocks[1], cycles, time)
    BY <2>1 DEF Phase
  <2>4. clocks[1].toggle > time /\ clocks[1].toggle \in Nat
    BY <2>1, <2>2 DEF Ahead, Clock
  <2> QED
    BY <2>2, <2>3, <2>4, RisesInPhase
<1> QED
  BY <1>1, ToolInvariant, PTL

(* Replaying the samples gives the present values, and there are only      *)
(* changes among them: Tracer::record() and what the executor records.     *)
THEOREM TraceIsComplete == ToolSpec => []TraceFollowsTheNets
<1>1. ToolInv => TraceFollowsTheNets
  <2> SUFFICES ASSUME ToolInv PROVE TraceFollowsTheNets
    OBVIOUS
  <2>1. IsTrace(samples, ToSet(watched), values)
    BY DEF ToolInv, Tracing
  <2> DEFINE between(i, j) == { k \in i + 1 .. j - 1 : samples[k].net = samples[i].net }
  <2>2. \A i, j : between(i, j) = {} <=> NoneOf(samples, i, j, samples[i].net)
    BY DEF NoneOf
  <2> HIDE DEF between
  <2>3. ASSUME NEW n \in ToSet(watched)
        PROVE  \E i \in 1..Len(samples) :
                 samples[i].net = n /\ samples[i].value = values[n] /\ between(i, Len(samples) + 1) = {}
    BY <2>1, <2>2 DEF IsTrace, EndsAt
  <2>4. ASSUME NEW j \in 1..Len(samples), NEW i \in 1 .. j - 1,
               samples[i].net = samples[j].net, samples[i].value = samples[j].value
        PROVE  between(i, j) # {}
    BY <2>1, <2>2, <2>4 DEF IsTrace, OnlyChanges
  <2> QED
    BY <2>3, <2>4 DEF TraceFollowsTheNets, between
<1> QED
  BY <1>1, ToolInvariant, PTL

-----------------------------------------------------------------------------
(* What the steps may not do *)

(* What the steps that only look, or end, leave as it is.                  *)
LEMMA StepsThatKeepValues ==
  ASSUME \/ Unknown \/ Ignored \/ CheckAssertion \/ Trace \/ Repeat \/ Stop \/ WaitNs \/ WaitEdge
         \/ WriteDump
         \/ /\ UNCHANGED tbVars
  PROVE  values' = values /\ time' = time
BY DEF Unknown, Ignored, CheckAssertion, Trace, Repeat, Stop, WaitNs, WaitEdge, WriteDump, tbVars

(* The executor's variables change in few steps of the command.            *)
LEMMA StepsOfTheCommand ==
  ASSUME [ToolNext]_toolVars
  PROVE  \/ Unknown \/ Ignored \/ CheckAssertion \/ Trace \/ Repeat \/ Stop \/ WaitNs \/ WaitEdge
         \/ WriteDump
         \/ UNCHANGED tbVars
         \/ LoadDesign
         \/ \E commands : RunTestbench(commands)
         \/ DeclareClock \/ Drive \/ Toggle \/ AdvanceReturns
<1>1. CASE Usage \/ ViewWave \/ CannotReadDesign \/ Report \/ RefuseTestbench \/ Finish
  BY <1>1 DEF Usage, ViewWave, CannotReadDesign, Report, RefuseTestbench, Finish
<1>2. CASE RunFile \/ RunAuto
  BY <1>2 DEF RunFile, RunAuto
<1>3. CASE Execute
  BY <1>3 DEF Execute, TbNext
<1>4. CASE UNCHANGED toolVars
  BY <1>4 DEF toolVars
<1> QED
  BY <1>1, <1>2, <1>3, <1>4 DEF ToolNext

(* Time in a step of the command.                                          *)
LEMMA TimeStep ==
  ASSUME ToolInv, [ToolNext]_toolVars
  PROVE  ~late' => time' >= time
<1> SUFFICES ASSUME ~late' PROVE time' >= time
  OBVIOUS
<1>1. Typed /\ Ahead /\ time \in Nat
  BY DEF ToolInv, Typed
<1>2. CASE values' = values /\ time' = time
  BY <1>1, <1>2
<1>3. CASE LoadDesign
  BY <1>1, <1>3 DEF LoadDesign, LoadJob
<1>4. CASE \E commands : RunTestbench(commands)
  BY <1>1, <1>4 DEF RunTestbench
<1>5. CASE DeclareClock \/ Drive
  BY <1>1, <1>5 DEF DeclareClock, Drive
<1>6. CASE Toggle
  <2>1. clocks # <<>> /\ time' = NextToggle /\ late' = late
    BY <1>6, Zenon DEF Toggle, TogglePending
  <2>2. PICK i \in 1..Len(clocks) : clocks[i].toggle = NextToggle
    BY <1>1, <2>1, NextToggleIsFirst
  <2>3. clocks[i].toggle > time
    BY <1>1, <2>1 DEF Ahead
  <2> QED
    BY <1>1, <2>1, <2>2, <2>3, NextToggleIsFirst
<1>7. CASE AdvanceReturns
  BY <1>1, <1>7 DEF AdvanceReturns, Ahead
<1> QED
  BY <1>2, <1>3, <1>4, <1>5, <1>6, <1>7, StepsOfTheCommand, StepsThatKeepValues

(* Simulated time does not go back, in no step of the command, unless a    *)
(* clock was declared late: sim_.advance() never gets a negative number.   *)
THEOREM TimeGoesOn == ToolSpec => TimeNeverGoesBack
<1>1. ToolInv /\ [ToolNext]_toolVars => [~late' => time' >= time]_tbVars
  BY TimeStep
<1> QED
  BY <1>1, ToolInvariant, PTL DEF ToolSpec, TimeNeverGoesBack

(* A register whose net no LUT drives changes when the design gets its     *)
(* cycle, or is driven: eval_combinational() after every command, toggle   *)
(* and cycle writes LUT outputs only.                                      *)
THEOREM RegistersWaitForTheEdge == ToolSpec => RegistersAreEdgeTriggered
<1> DEFINE Kept ==
      \A k \in 1..Len(job.design.ffs) :
        LET q == job.design.ffs[k].q IN
        q \notin LutOutputs(job.design.luts) \cup ClockNets' /\ values'[q] # values[q] =>
          \/ cycles' = cycles + 1
          \/ Head(todo).type = "DRIVE" /\ q \in DrivenBy(Head(todo).name)
<1>1. ASSUME ToolInv, [ToolNext]_toolVars PROVE Kept
  <2>1. Typed /\ Tracing /\ Idle /\ ExecInv
    BY <1>1 DEF ToolInv, ExecInv
  <2> SUFFICES ASSUME NEW k \in 1..Len(job.design.ffs), NEW q, q = job.design.ffs[k].q,
                      q \notin LutOutputs(job.design.luts), q \notin ClockNets',
                      values'[q] # values[q]
               PROVE  \/ cycles' = cycles + 1
                      \/ Head(todo).type = "DRIVE" /\ q \in DrivenBy(Head(todo).name)
    BY DEF Kept
  <2>2. q \in NetsOf(job) \ LutOutputs(job.design.luts)
    BY <2>1 DEF Typed, IsJob
  <2>3. ~(values' = values /\ time' = time)
    OBVIOUS
  <2>4. ~LoadDesign
    <3> SUFFICES ASSUME LoadDesign PROVE FALSE
      OBVIOUS
    <3>1. job = NoJob
      BY <2>1 DEF LoadDesign, Idle
    <3>2. job.design.ffs = <<>>
      BY <3>1 DEF NoJob, NoDesign
    <3> QED
      BY <3>2
  <2>5. ~ \E commands : RunTestbench(commands)
    BY DEF RunTestbench
  <2>6. CASE DeclareClock
    <3> DEFINE c == NewClock(Head(todo))
               v == [values EXCEPT ![c.net] = LevelWord(c.level = 1)]
    <3>1. Settle(v, time) /\ clocks' = Append(clocks, c)
      BY <2>6 DEF DeclareClock
    <3>2. v \in WordsOver(NetsOf(job)) /\ time \in Nat
      <4>1. LevelWord(c.level = 1) \in Word
        BY DEF LevelWord, ToWord, Word
      <4> QED
        BY <2>1, <4>1 DEF Typed, WordsOver
    <3>3. c.net # q
      <4> HIDE DEF c
      <4>1. clocks \in Seq(Clock)
        BY <2>1 DEF Typed
      <4>2. Len(clocks) + 1 \in 1..Len(clocks') /\ clocks'[Len(clocks) + 1] = c
        BY <3>1, <4>1
      <4> QED
        BY <4>2 DEF ClockNets
    <3>4. v[q] = values[q]
      BY <3>3
    <3> HIDE DEF v
    <3>5. values'[q] = v[q]
      BY <2>1, <2>2, <3>1, <3>2, SettleKeeps
    <3> QED
      BY <3>4, <3>5
  <2>7. CASE Drive
    <3> DEFINE v == Written(Head(todo).name, Head(todo).value)
    <3>1. Settle(v, time) /\ Head(todo).type = "DRIVE"
      BY <2>7 DEF Drive, Command
    <3>2. v \in WordsOver(NetsOf(job)) /\ time \in Nat
      BY <2>1, WrittenKeeps DEF Typed
    <3>3. q \notin DrivenBy(Head(todo).name) => v[q] = values[q]
      BY <2>1, <2>2, WrittenKeeps
    <3> HIDE DEF v
    <3>4. values'[q] = v[q]
      BY <2>1, <2>2, <3>1, <3>2, SettleKeeps
    <3> QED
      BY <3>1, <3>3, <3>4
  <2>8. CASE Toggle
    <3> DEFINE t == NextToggle
    <3>1. clocks # <<>> /\ clocks' = ClocksAfter(t)
          /\ \/ cycles' = cycles + 1
             \/ values' = PassValues(job.design, ClockWrites(t))
      BY <2>8, Zenon DEF Toggle, TogglePending
    <3>2. t \in Nat
      BY <2>1, <3>1, NextToggleIsFirst
    <3> HIDE DEF t
    <3>3. /\ ClockWrites(t) \in WordsOver(NetsOf(job))
          /\ q \notin ClockNets => ClockWrites(t)[q] = values[q]
      BY <2>1, <2>2, <3>2, ClockWritesKeep
    <3>4. q \notin ClockNets
      <4>1. clocks \in Seq(Clock)
        BY <2>1 DEF Typed
      <4>2. Len(clocks') = Len(clocks) /\ \A i \in 1..Len(clocks) : clocks'[i].net = clocks[i].net
        BY <3>1, <3>2, <4>1, ClocksAfterAre
      <4> QED
        BY <4>2 DEF ClockNets
    <3>5. Len(job.design.luts) \in Nat
      BY <2>1 DEF Typed, IsJob, IsConfig
    <3>6. PassValues(job.design, ClockWrites(t))[q] = ClockWrites(t)[q]
      <4> DEFINE w == ClockWrites(t)
                 D == NetsOf(job)
      <4>1. w \in WordsOver(D) /\ q \in D \ LutOutputs(job.design.luts)
        BY <2>2, <3>3
      <4> HIDE DEF w, D
      <4>2. \A n \in D \ LutOutputs(job.design.luts) : PassValues(job.design, w)[n] = w[n]
        BY <3>5, <4>1, PassKeeps
      <4>3. PassValues(job.design, w)[q] = w[q]
        BY <4>1, <4>2
      <4> QED
        BY <4>3 DEF w
    <3> QED
      BY <3>1, <3>3, <3>4, <3>6
  <2>9. CASE AdvanceReturns
    <3>1. wait # NoWait /\ ~TogglePending /\ time' = wait.target /\ Settle(values, time')
      BY <2>9 DEF AdvanceReturns
    <3>2. time' \in Nat /\ values \in WordsOver(NetsOf(job))
      BY <2>1, <3>1, NoToggleLeft DEF Typed
    <3> QED
      BY <2>1, <2>2, <3>1, <3>2, SettleKeeps
  <2> QED
    BY <1>1, <2>3, <2>4, <2>5, <2>6, <2>7, <2>8, <2>9, StepsOfTheCommand, StepsThatKeepValues
<1>2. ToolInv /\ [ToolNext]_toolVars => [Kept]_tbVars
  BY <1>1
<1> QED
  BY <1>2, ToolInvariant, PTL DEF ToolSpec, RegistersAreEdgeTriggered

-----------------------------------------------------------------------------
(* The dump *)

(* Every watched net is watched with the other nets of its name.           *)
Watches ==
  \A n \in ToSet(watched) : \E name \in DOMAIN job.ports :
    n \in ToSet(TraceNets(name)) /\ ToSet(TraceNets(name)) \subseteq ToSet(watched)

(* Samples are in order of time.                                           *)
InOrder ==
  ~late =>
    /\ \A i \in 1..Len(samples) : samples[i].t <= time
    /\ \A j \in 1..Len(samples) : \A i \in 1..j : samples[i].t <= samples[j].t

(* A net of a name has a sample no later than those of its other nets.     *)
Together ==
  ~late =>
    \A i \in 1..Len(samples) : \A name \in DOMAIN job.ports :
      samples[i].net \in ToSet(TraceNets(name)) =>
        \A n \in ToSet(TraceNets(name)) :
          \E j \in 1..Len(samples) : samples[j].net = n /\ samples[j].t <= samples[i].t

WaveInv == Watches /\ InOrder /\ Together

-----------------------------------------------------------------------------

At(t) == { s \in Sample : s.t = t }

(* The samples of some nets at a time.                                     *)
LEMMA SampledAre ==
  ASSUME NEW t \in Nat, NEW D, D \subseteq Nat, NEW w \in WordsOver(D), NEW c \in Seq(D)
  PROVE  Sampled(t, w, c) \in Seq(At(t))
<1> DEFINE a == Sampled(t, w, c)
           k == Len(c)
<1>1. k \in Nat /\ \A p \in 1..k : c[p] \in D
  OBVIOUS
<1>2. ASSUME NEW p \in 1..k PROVE [t |-> t, net |-> c[p], value |-> w[c[p]]] \in At(t)
  <2>1. c[p] \in D /\ c[p] \in Nat /\ w[c[p]] \in Word
    BY <1>1 DEF WordsOver
  <2> QED
    BY <2>1 DEF Sample, At
<1>3. a \in [1..k -> At(t)]
  BY <1>2 DEF Sampled
<1> HIDE DEF a, k
<1>4. a \in Seq(At(t))
  BY <1>1, <1>3, LengthOf
<1> QED
  BY <1>4 DEF a

(* A step adds samples of its time.                                        *)
Appends == \E x \in Seq(At(time')) : samples' = samples \o x

(* Tracer::record() adds samples of the time it is called with.            *)
LEMMA RecordAppends ==
  ASSUME Typed, NEW nets \in Seq(NetsOf(job)), NEW w \in WordsOver(NetsOf(job)),
         time' \in Nat, Record(time', w, nets)
  PROVE  Appends
<1> DEFINE D == NetsOf(job)
           c == Changed(w, nets)
<1>1. D \subseteq Nat
  BY NetsAreNumbers DEF Typed
<1>2. c \in Seq(D)
  <2> DEFINE new == { n \in ToSet(nets) : n \notin DOMAIN last \/ last[n] # w[n] }
  <2>1. c = Those(nets, new)
    BY DEF Changed
  <2> HIDE DEF new, D, c
  <2>2. nets \in Seq(D)
    BY DEF D
  <2> QED
    BY <2>1, <2>2, ThoseAre
<1>3. samples' = samples \o Sampled(time', w, c)
  BY DEF Record
<1> HIDE DEF c, D
<1>4. w \in WordsOver(D)
  BY DEF D
<1> QED
  BY <1>1, <1>2, <1>3, <1>4, SampledAre DEF Appends

(* So does a command that settles.                                         *)
LEMMA SettleAppends ==
  ASSUME Typed, NEW v \in WordsOver(NetsOf(job)), time' \in Nat, Settle(v, time')
  PROVE  Appends
<1>1. values' = PassValues(job.design, v) /\ Record(time', values', watched)
  BY DEF Settle
<1>2. Len(job.design.luts) \in Nat
  BY DEF Typed, IsJob, IsConfig
<1>3. values' \in WordsOver(NetsOf(job))
  BY <1>1, <1>2, PassKeeps
<1> QED
  BY <1>1, <1>3, RecordAppends DEF Typed

(* So do the clocks that toggle.                                           *)
LEMMA ToggleAppends ==
  ASSUME ExecInv, Toggle
  PROVE  Appends
<1> DEFINE D == NetsOf(job)
           t == NextToggle
           settled == PassValues(job.design, ClockWrites(t))
           cycled  == PassValues(job.design,
                        EdgeValues(job.design, PassValues(job.design, settled)))
           other   == { n \in ToSet(watched) : settled[n] # cycled[n] }
           new     == { n \in ToSet(watched) : n \notin DOMAIN last \/ last[n] # settled[n] }
           first   == Sampled(t, settled, Changed(settled, watched))
           second  == Sampled(t, cycled, Those(watched, other))
<1>1. Typed /\ clocks # <<>>
  BY DEF Toggle, TogglePending, ExecInv
<1>2. /\ time' = t
      /\ samples' = samples \o first \o second \/ samples' = samples \o first
  BY Zenon DEF Toggle
<1>3. t \in Nat
  BY <1>1, NextToggleIsFirst
<1> HIDE DEF t
<1>4. settled \in WordsOver(D) /\ cycled \in WordsOver(D)
  <2>1. /\ Len(job.design.luts) \in Nat /\ Len(job.design.ffs) \in Nat
        /\ \A k \in 1 .. Len(job.design.ffs) : job.design.ffs[k].d \in D
    BY <1>1, SMTT(30) DEF Typed, IsJob, IsConfig
  <2> HIDE DEF D
  <2>2. ClockWrites(t) \in WordsOver(D)
    BY <1>1, <1>3, ClockWritesKeep DEF D
  <2>3. settled \in WordsOver(D)
    BY <2>1, <2>2, PassKeeps
  <2> HIDE DEF settled
  <2>4. PassValues(job.design, settled) \in WordsOver(D)
    BY <2>1, <2>3, PassKeeps
  <2>5. EdgeValues(job.design, PassValues(job.design, settled)) \in WordsOver(D)
    BY <2>1, <2>4, EdgeKeeps
  <2> QED
    BY <2>1, <2>3, <2>5, PassKeeps
<1> HIDE DEF settled, cycled
<1>5. watched \in Seq(D) /\ D \subseteq Nat /\ samples \in Seq(Sample)
  BY <1>1, NetsAreNumbers DEF Typed
<1>6. Changed(settled, watched) = Those(watched, new)
  BY DEF Changed
<1> HIDE DEF D, other, new
<1>7. Changed(settled, watched) \in Seq(D) /\ Those(watched, other) \in Seq(D)
  BY <1>5, <1>6, ThoseAre
<1>8. first \in Seq(At(t)) /\ second \in Seq(At(t))
  BY <1>3, <1>4, <1>5, <1>7, SampledAre
<1> HIDE DEF first, second
<1>9. At(t) \subseteq Sample
  BY DEF At
<1>10. first \in Seq(Sample) /\ second \in Seq(Sample)
  BY <1>8, <1>9
<1>11. samples \o first \o second = samples \o (first \o second) /\ first \o second \in Seq(At(t))
  <2>1. samples \o first \o second = samples \o (first \o second)
    <3>1. \A a, b, c \in Seq(Sample) : (a \o b) \o c = a \o (b \o c)
      BY ConcatAssociative
    <3>2. samples \in Seq(Sample)
      BY <1>5
    <3> QED
      BY <1>10, <3>1, <3>2
  <2> QED
    BY <1>8, <2>1, ConcatProperties
<1> QED
  BY <1>2, <1>8, <1>11 DEF Appends

(* What a step of the command does to the trace.                           *)
LEMMA StepAppends ==
  ASSUME ToolInv, [ToolNext]_toolVars, ~LoadDesign
  PROVE  /\ job' = job
         /\ late => late'
         /\ Appends
         /\ Trace \/ watched' = watched
<1>1. Typed /\ ExecInv /\ samples \in Seq(Sample) /\ time \in Nat /\ watched \in Seq(NetsOf(job))
  BY DEF ToolInv, ExecInv, Typed
<1>2. samples' = samples => Appends
  <2>1. <<>> \in Seq(At(time')) /\ samples = samples \o <<>>
    BY <1>1, ConcatEmptySeq
  <2> QED
    BY <2>1 DEF Appends
<1>3. CASE \/ Unknown \/ Ignored \/ CheckAssertion \/ Repeat \/ Stop \/ WaitNs \/ WaitEdge
           \/ WriteDump \/ UNCHANGED tbVars \/ \E commands : RunTestbench(commands)
  <2>1. /\ job' = job /\ late' = late /\ samples' = samples /\ watched' = watched
    BY <1>3 DEF Unknown, Ignored, CheckAssertion, Repeat, Stop, WaitNs, WaitEdge, WriteDump, tbVars,
                RunTestbench, tracer
  <2> QED
    BY <1>2, <2>1
<1>4. CASE Trace
  <2>1. /\ job' = job /\ late' = late /\ time' = time /\ values' = values
        /\ Record(time', values, watched')
    BY <1>4 DEF Trace
  <2>2. watched' \in Seq(NetsOf(job)) /\ values \in WordsOver(NetsOf(job))
    <3>1. ExecInv'
      BY <1>1, <1>4, TraceKeeps
    <3> QED
      BY <1>1, <2>1, <3>1 DEF ExecInv, Typed
  <2>3. Appends
    BY <1>1, <2>1, <2>2, RecordAppends
  <2> QED
    BY <1>4, <2>1, <2>3
<1>5. CASE DeclareClock
  <2> DEFINE c == NewClock(Head(todo))
             v == [values EXCEPT ![c.net] = LevelWord(c.level = 1)]
  <2>1. /\ Settle(v, time) /\ time' = time /\ job' = job /\ late' = (late \/ time > 0)
    BY <1>5 DEF DeclareClock
  <2>2. v \in WordsOver(NetsOf(job))
    <3>1. LevelWord(c.level = 1) \in Word
      BY DEF LevelWord, ToWord, Word
    <3> QED
      BY <1>1, <3>1 DEF Typed, WordsOver
  <2>3. watched' = watched
    BY <2>1 DEF Settle
  <2> HIDE DEF v
  <2>4. Appends
    BY <1>1, <2>1, <2>2, SettleAppends
  <2> QED
    BY <2>1, <2>3, <2>4
<1>6. CASE Drive
  <2> DEFINE v == Written(Head(todo).name, Head(todo).value)
  <2>1. Settle(v, time) /\ time' = time /\ job' = job /\ late' = late
    BY <1>6 DEF Drive
  <2>2. v \in WordsOver(NetsOf(job))
    BY <1>1, WrittenKeeps
  <2>3. watched' = watched
    BY <2>1 DEF Settle
  <2> HIDE DEF v
  <2>4. Appends
    BY <1>1, <2>1, <2>2, SettleAppends
  <2> QED
    BY <2>1, <2>3, <2>4
<1>7. CASE Toggle
  <2>1. job' = job /\ late' = late /\ watched' = watched
    BY <1>7 DEF Toggle
  <2> QED
    BY <1>1, <1>7, <2>1, ToggleAppends
<1>8. CASE AdvanceReturns
  <2>1. /\ wait # NoWait /\ ~TogglePending /\ time' = wait.target /\ Settle(values, time')
        /\ job' = job /\ late' = late
    BY <1>8 DEF AdvanceReturns
  <2>2. time' \in Nat /\ values \in WordsOver(NetsOf(job))
    BY <1>1, <2>1, NoToggleLeft DEF Typed
  <2>3. watched' = watched
    BY <2>1 DEF Settle
  <2> QED
    BY <1>1, <2>1, <2>2, <2>3, SettleAppends
<1> QED
  BY <1>3, <1>4, <1>5, <1>6, <1>7, <1>8, StepsOfTheCommand

(* The elements of two sequences, one after the other.                     *)
LEMMA ToSetOfConcat ==
  ASSUME NEW T, NEW s \in Seq(T), NEW x \in Seq(T)
  PROVE  ToSet(s \o x) = ToSet(s) \cup ToSet(x)
<1> DEFINE m == Len(s)
           k == Len(x)
           r == s \o x
<1>1. /\ r \in Seq(T) /\ Len(r) = m + k /\ m \in Nat /\ k \in Nat
      /\ \A i \in 1 .. m + k : r[i] = IF i <= m THEN s[i] ELSE x[i - m]
  BY ConcatProperties
<1>2. DOMAIN r = 1 .. m + k /\ DOMAIN s = 1..m /\ DOMAIN x = 1..k
  BY <1>1
<1> HIDE DEF m, k, r
<1>3. \A i \in 1..m : i \in 1 .. m + k /\ r[i] = s[i]
  BY <1>1
<1>4. \A i \in 1..k : i + m \in 1 .. m + k /\ r[i + m] = x[i]
  BY <1>1
<1>5. \A i \in 1 .. m + k : i \in 1..m \/ (i - m \in 1..k /\ r[i] = x[i - m])
  BY <1>1
<1>6. ToSet(r) = ToSet(s) \cup ToSet(x)
  BY <1>2, <1>3, <1>4, <1>5 DEF ToSet
<1> QED
  BY <1>6 DEF r

(* The nets a name is traced by, each of them once.                        *)
LEMMA TraceNetsAre ==
  ASSUME IsJob(job), NEW name
  PROVE  TraceNets(name) \in Seq(NetsOf(job)) /\ IsInjective(TraceNets(name))
<1> DEFINE D == NetsOf(job)
<1>1. /\ Bits(name) \in Seq(D) /\ IsInjective(Bits(name))
      /\ Whole(name) # {} => NetOf(name) \in D
  BY NetsOfNames
<1>2. \A n \in D : <<n>> \in Seq(D) /\ IsInjective(<<n>>)
  BY DEF IsInjective
<1> HIDE DEF D
<1>3. TraceNets(name) \in Seq(D) /\ IsInjective(TraceNets(name))
  BY <1>1, <1>2 DEF TraceNets, TracedByBits
<1> QED
  BY <1>3 DEF D

(* The nets a name is traced by are of no other name.                      *)
LEMMA OneName ==
  ASSUME IsJob(job), NEW a \in DOMAIN job.ports, NEW b \in DOMAIN job.ports, NEW n,
         n \in ToSet(TraceNets(a)), n \in ToSet(TraceNets(b))
  PROVE  a = b
<1>1. ASSUME NEW c \in DOMAIN job.ports, n \in ToSet(TraceNets(c)) PROVE n \in PortNets(job.ports[c])
  <2>1. Whole(c) = job.ports[c].whole /\ Bits(c) = job.ports[c].bits
    BY DEF Whole, Bits
  <2>2. CASE TracedByBits(c)
    BY <1>1, <2>1, <2>2 DEF TraceNets, PortNets
  <2>3. CASE ~TracedByBits(c)
    <3>1. NetOf(c) \in Whole(c)
      BY <2>3 DEF TracedByBits, NetOf
    <3>2. TraceNets(c) = <<NetOf(c)>>
      BY <2>3 DEF TraceNets
    <3>3. n = NetOf(c)
      BY <1>1, <3>2 DEF ToSet
    <3> QED
      BY <2>1, <3>1, <3>3 DEF PortNets
  <2> QED
    BY <2>2, <2>3
<1>2. a # b => PortNets(job.ports[a]) \cap PortNets(job.ports[b]) = {}
  BY DEF IsJob
<1> QED
  BY <1>1, <1>2

(* A net stays watched with the others of its name.                        *)
LEMMA WatchesKeep ==
  ASSUME ToolInv, Watches, [ToolNext]_toolVars, ~LoadDesign
  PROVE  Watches'
<1>1. Typed /\ job' = job /\ (Trace \/ watched' = watched)
  BY StepAppends DEF ToolInv
<1>2. \A name : TraceNets(name)' = TraceNets(name)
  BY <1>1 DEF TraceNets, TracedByBits, NetOf, Whole, Bits
<1>3. CASE watched' = watched
  BY <1>1, <1>2, <1>3 DEF Watches
<1>4. CASE Trace
  <2> DEFINE name == Head(todo).name
             nets == TraceNets(name)
             new == Those(nets, ToSet(nets) \ ToSet(watched))
             D == NetsOf(job)
  <2>1. watched' = watched \o new
    BY <1>4, Zenon DEF Trace
  <2>2. name \in DOMAIN job.ports /\ nets \in Seq(D)
    <3>1. Known(name)
      BY <1>4 DEF Trace
    <3>2. /\ Bits(name) \in Seq(D) /\ (Whole(name) # {} => NetOf(name) \in D)
      BY <1>1, NetsOfNames DEF Typed
    <3>3. \A n \in D : <<n>> \in Seq(D)
      OBVIOUS
    <3>4. name \in DOMAIN job.ports
      BY <3>1 DEF Known, Whole, Bits
    <3> HIDE DEF D, name
    <3> QED
      BY <3>2, <3>3, <3>4 DEF TraceNets, TracedByBits
  <2>3. watched \in Seq(D)
    BY <1>1 DEF Typed
  <2> HIDE DEF nets, D, name
  <2>4. new \in Seq(D) /\ ToSet(new) = ToSet(nets) \cap (ToSet(nets) \ ToSet(watched))
    BY <2>2, ThoseAre
  <2> HIDE DEF new
  <2>5. ToSet(watched') = ToSet(watched) \cup ToSet(new)
    BY <2>1, <2>3, <2>4, ToSetOfConcat
  <2>6. ToSet(nets) \subseteq ToSet(watched') /\ ToSet(watched) \subseteq ToSet(watched')
    BY <2>4, <2>5
  <2>7. ASSUME NEW n \in ToSet(watched')
        PROVE  \E a \in DOMAIN job.ports :
                 n \in ToSet(TraceNets(a)) /\ ToSet(TraceNets(a)) \subseteq ToSet(watched')
    <3>1. CASE n \in ToSet(watched)
      BY <2>6, <3>1 DEF Watches
    <3>2. CASE n \in ToSet(new)
      BY <2>2, <2>4, <2>6, <3>2 DEF nets
    <3> QED
      BY <2>5, <3>1, <3>2
  <2> QED
    BY <1>1, <1>2, <2>7 DEF Watches
<1> QED
  BY <1>1, <1>3, <1>4

(* Every step keeps the order of the samples, and the nets of a name       *)
(* together.                                                               *)
LEMMA WaveKeeps ==
  ASSUME ToolInv, WaveInv, [ToolNext]_toolVars
  PROVE  WaveInv'
<1>1. CASE LoadDesign
  <2>1. watched' = <<>> /\ samples' = <<>>
    BY <1>1 DEF LoadDesign, LoadJob, tracer, ToolInv, Idle
  <2>2. ToSet(watched') = {} /\ Len(samples') = 0
    BY <2>1 DEF ToSet
  <2> QED
    BY <2>2 DEF WaveInv, Watches, InOrder, Together
<1>2. CASE ~LoadDesign
  <2>1. Watches'
    BY <1>2, WatchesKeep DEF WaveInv
  <2> SUFFICES ASSUME ~late' PROVE InOrder' /\ Together'
    BY <2>1 DEF WaveInv, InOrder, Together
  <2>2. /\ job' = job /\ ~late /\ Appends
        /\ Typed /\ Typed' /\ Tracing'
        /\ time' >= time
    BY <1>2, StepAppends, TimeStep, ToolExecInv DEF ToolInv, ExecInv
  <2>3. PICK x \in Seq(At(time')) : samples' = samples \o x
    BY <2>2 DEF Appends
  <2> DEFINE m == Len(samples)
             k == Len(x)
  <2>4. /\ m \in Nat /\ k \in Nat /\ Len(samples') = m + k
        /\ \A i \in 1 .. m + k : samples'[i] = IF i <= m THEN samples[i] ELSE x[i - m]
        /\ \A i \in 1..k : x[i].t = time'
        /\ \A i \in 1 .. m + k : samples'[i].t \in Nat
        /\ time \in Nat /\ time' \in Nat
    <3>1. samples \in Seq(Sample) /\ samples' \in Seq(Sample) /\ x \in Seq(Sample)
      <4>1. At(time') \subseteq Sample
        BY DEF At
      <4> QED
        BY <2>2, <4>1 DEF Typed
    <3>2. \A i \in 1..k : x[i] \in At(time')
      OBVIOUS
    <3>3. \A i \in 1..k : x[i].t = time'
      BY <3>2 DEF At
    <3>4. Len(samples') = m + k /\ \A i \in 1 .. m + k : samples'[i] = IF i <= m THEN samples[i] ELSE x[i - m]
      BY <2>3, <3>1, ConcatProperties
    <3>5. \A i \in 1 .. m + k : samples'[i] \in Sample
      BY <3>1, <3>4
    <3>6. \A i \in 1 .. m + k : samples'[i].t \in Nat
      BY <3>5 DEF Sample
    <3>7. m \in Nat /\ k \in Nat
      BY <3>1
    <3>8. time \in Nat /\ time' \in Nat
      BY <2>2 DEF Typed
    <3> QED
      BY <3>3, <3>4, <3>6, <3>7, <3>8
  <2> HIDE DEF m, k
  <2>5. \A i \in 1..m : samples'[i] = samples[i] /\ i \in 1 .. m + k
    BY <2>4
  <2>6. \A i \in m + 1 .. m + k : samples'[i].t = time'
    <3> SUFFICES ASSUME NEW i \in m + 1 .. m + k PROVE samples'[i].t = time'
      OBVIOUS
    <3>1. i - m \in 1..k /\ ~(i <= m) /\ i \in 1 .. m + k
      BY <2>4
    <3> QED
      BY <2>4, <3>1
  <2>7. \A i \in 1..m : samples[i].t <= time
    BY <2>2 DEF WaveInv, InOrder, m
  <2>8. \A j \in 1..m : \A i \in 1..j : samples[i].t <= samples[j].t
    BY <2>2 DEF WaveInv, InOrder, m
  <2>9. \A i \in 1 .. m + k : samples'[i].t <= time'
    <3> SUFFICES ASSUME NEW i \in 1 .. m + k PROVE samples'[i].t <= time'
      OBVIOUS
    <3>1. CASE i \in 1..m
      <4>1. samples'[i].t <= time /\ samples'[i].t \in Nat
        BY <2>4, <2>5, <2>7, <3>1
      <4> QED
        BY <2>2, <2>4, <4>1
    <3>2. CASE i \in m + 1 .. m + k
      BY <2>4, <2>6, <3>2
    <3> QED
      BY <2>4, <3>1, <3>2
  <2>10. InOrder'
    <3>1. ASSUME NEW j \in 1 .. m + k, NEW i \in 1..j PROVE samples'[i].t <= samples'[j].t
      <4>1. i \in 1 .. m + k
        BY <2>4
      <4>2. CASE j \in 1..m
        <5>1. i \in 1..m
          BY <2>4, <4>2
        <5> QED
          BY <2>5, <2>8, <4>2, <5>1
      <4>3. CASE j \in m + 1 .. m + k
        BY <2>6, <2>9, <4>1, <4>3
      <4> QED
        BY <2>4, <4>2, <4>3
    <3> QED
      BY <2>4, <2>9, <3>1 DEF InOrder
  <2>11. Together'
    <3> SUFFICES ASSUME NEW i \in 1 .. m + k, NEW b \in DOMAIN job.ports,
                        samples'[i].net \in ToSet(TraceNets(b)), NEW n \in ToSet(TraceNets(b))
                 PROVE  \E j \in 1 .. m + k : samples'[j].net = n /\ samples'[j].t <= samples'[i].t
      <4>1. \A a : TraceNets(a)' = TraceNets(a)
        BY <2>2 DEF TraceNets, TracedByBits, NetOf, Whole, Bits
      <4> QED
        BY <2>2, <2>4, <4>1 DEF Together
    <3>1. CASE i \in 1..m
      <4>1. samples[i].net \in ToSet(TraceNets(b)) /\ i \in 1..Len(samples)
        BY <2>5, <3>1 DEF m
      <4>2. PICK j \in 1..Len(samples) : samples[j].net = n /\ samples[j].t <= samples[i].t
        BY <2>2, <4>1 DEF WaveInv, Together
      <4>3. j \in 1..m
        BY DEF m
      <4> QED
        BY <2>5, <3>1, <4>2, <4>3
    <3>2. CASE i \in m + 1 .. m + k
      <4>1. samples'[i].net \in ToSet(watched')
        BY <2>2, <2>4 DEF Tracing, IsTrace
      <4>2. PICK a \in DOMAIN job.ports :
              samples'[i].net \in ToSet(TraceNets(a)) /\ ToSet(TraceNets(a)) \subseteq ToSet(watched')
        <5>1. \A e : TraceNets(e)' = TraceNets(e)
          BY <2>2 DEF TraceNets, TracedByBits, NetOf, Whole, Bits
        <5> QED
          BY <2>1, <2>2, <4>1, <5>1 DEF Watches
      <4>3. a = b
        BY <2>2, <4>2, OneName DEF Typed
      <4>4. n \in ToSet(watched')
        BY <4>2, <4>3
      <4>5. PICK j \in 1..Len(samples') : samples'[j].net = n
        BY <2>2, <4>4 DEF Tracing, IsTrace, EndsAt
      <4> QED
        BY <2>4, <2>6, <2>9, <3>2, <4>5
    <3> QED
      BY <2>4, <3>1, <3>2
  <2> QED
    BY <2>10, <2>11
<1> QED
  BY <1>1, <1>2

-----------------------------------------------------------------------------

(* A net that is watched, and the variable it belongs to.                  *)
LEMMA VariableOf ==
  ASSUME IsJob(job), Watches, NEW n \in ToSet(watched)
  PROVE  /\ VarOf(n) \in DOMAIN job.ports
         /\ n \in ToSet(TraceNets(VarOf(n)))
         /\ IsBit(n) <=> TracedByBits(VarOf(n))
         /\ IsBit(n) => /\ BitOf(n) \in 0 .. Len(TraceNets(VarOf(n))) - 1
                        /\ TraceNets(VarOf(n))[BitOf(n) + 1] = n
         /\ ~IsBit(n) => TraceNets(VarOf(n)) = <<n>>
<1> DEFINE v == VarOf(n)
<1>1. PICK a \in DOMAIN job.ports : n \in ToSet(TraceNets(a))
  BY DEF Watches
<1>2. \A b \in DOMAIN job.ports : Whole(b) = job.ports[b].whole /\ Bits(b) = job.ports[b].bits
  BY DEF Whole, Bits
<1>3. ~TracedByBits(a) => NetOf(a) \in Whole(a) /\ TraceNets(a) = <<NetOf(a)>> /\ n = NetOf(a)
  <2> SUFFICES ASSUME ~TracedByBits(a)
               PROVE  NetOf(a) \in Whole(a) /\ TraceNets(a) = <<NetOf(a)>> /\ n = NetOf(a)
    OBVIOUS
  <2>1. NetOf(a) \in Whole(a) /\ TraceNets(a) = <<NetOf(a)>>
    BY DEF TracedByBits, NetOf, TraceNets
  <2> QED
    BY <1>1, <2>1 DEF ToSet
<1>4. TracedByBits(a) => TraceNets(a) = Bits(a)
  BY DEF TraceNets
<1>5. n \in Whole(a) \cup ToSet(Bits(a))
  BY <1>1, <1>3, <1>4
<1>6. ASSUME NEW b \in DOMAIN job.ports, n \in Whole(b) \cup ToSet(Bits(b)) PROVE b = a
  <2>1. n \in PortNets(job.ports[a]) /\ n \in PortNets(job.ports[b])
    BY <1>2, <1>5, <1>6 DEF PortNets
  <2> QED
    BY <2>1 DEF IsJob
<1>7. v = a
  BY <1>5, <1>6 DEF VarOf
<1>8. IsBit(n) <=> n \in ToSet(Bits(a))
  BY <1>6 DEF IsBit
<1>9. Whole(a) \cap ToSet(Bits(a)) = {}
  BY <1>2 DEF IsJob
<1>10. IsBit(n) <=> TracedByBits(a)
  BY <1>1, <1>3, <1>4, <1>8, <1>9
<1>11. ASSUME IsBit(n)
       PROVE  BitOf(n) \in 0 .. Len(Bits(a)) - 1 /\ Bits(a)[BitOf(n) + 1] = n
  <2>1. Bits(a) \in Seq(NetsOf(job)) /\ n \in ToSet(Bits(a))
    BY <1>8, <1>11, NetsOfNames
  <2>2. PICK i \in 1..Len(Bits(a)) : Bits(a)[i] = n
    BY <2>1 DEF ToSet
  <2>3. i - 1 \in 0 .. Len(Bits(a)) - 1 /\ (i - 1) + 1 = i
    BY <2>1
  <2>4. \E b \in 0 .. Len(Bits(a)) - 1 : Bits(a)[b + 1] = n
    BY <2>2, <2>3
  <2> QED
    BY <2>4, <1>7 DEF BitOf
<1> QED
  BY <1>1, <1>3, <1>4, <1>7, <1>10, <1>11

(* The last of the first k samples of a net.                               *)
IsLast(k, n, i) == i \in 1..k /\ samples[i].net = n /\ \A j \in i + 1 .. k : samples[j].net # n

(* A net with a sample has a last one.                                     *)
LEMMA LastExists ==
  ASSUME NEW k \in Nat, NEW j \in 1..k
  PROVE  \E i \in 1..k : IsLast(k, samples[j].net, i)
<1> DEFINE n == samples[j].net
           at == [q \in 1..k |-> IF samples[q].net = n THEN q ELSE 0]
<1>1. at \in [1..k -> Int] /\ k > 0
  OBVIOUS
<1>2. \A q \in 1..k : at[q] = IF samples[q].net = n THEN q ELSE 0
  OBVIOUS
<1>3. samples[j].net = n
  OBVIOUS
<1> HIDE DEF at, n
<1>4. PICK p \in 1..k : \A q \in 1..k : at[q] <= at[p]
  BY <1>1, FirstGreatest
<1>5. samples[p].net = n
  BY <1>2, <1>3, <1>4
<1>6. \A q \in p + 1 .. k : samples[q].net # n
  BY <1>2, <1>4, <1>5
<1> QED
  BY <1>5, <1>6 DEF IsLast, n

(* What a variable shows after k samples: its bits that are on.            *)
OnAfter(k, v) ==
  { b \in 0 .. Len(TraceNets(v)) - 1 :
      \E i \in 1..k : IsLast(k, TraceNets(v)[b + 1], i) /\ 0 \in samples[i].value }

(* The last sample of a net stays the last until the net has another.      *)
LEMMA LastStays ==
  ASSUME NEW k \in Nat, NEW x, samples[k + 1].net # x, NEW i
  PROVE  IsLast(k + 1, x, i) <=> IsLast(k, x, i)
<1>1. i \in 1 .. k + 1 /\ samples[i].net = x <=> i \in 1..k /\ samples[i].net = x
  <2>1. k + 1 \in 1 .. k + 1 /\ \A h \in 1 .. k + 1 : h \in 1..k \/ h = k + 1
    OBVIOUS
  <2> QED
    BY <2>1
<1>2. \A j : (j \in i + 1 .. k + 1 => samples[j].net # x) <=> (j \in i + 1 .. k => samples[j].net # x)
  <2> SUFFICES ASSUME NEW j, samples[j].net = x PROVE j \in i + 1 .. k + 1 <=> j \in i + 1 .. k
    OBVIOUS
  <2> QED
    OBVIOUS
<1>3. (\A j \in i + 1 .. k + 1 : samples[j].net # x) <=> \A j \in i + 1 .. k : samples[j].net # x
  BY <1>2
<1> QED
  BY <1>1, <1>3 DEF IsLast

(* A sample changes its bit of its variable.                               *)
LEMMA OnAfterSample ==
  ASSUME Typed, NEW k \in Nat, k + 1 \in 1..Len(samples), NEW v \in DOMAIN job.ports,
         NEW b \in 0 .. Len(TraceNets(v)) - 1, TraceNets(v)[b + 1] = samples[k + 1].net
  PROVE  OnAfter(k + 1, v) = IF 0 \in samples[k + 1].value THEN OnAfter(k, v) \cup {b} ELSE OnAfter(k, v) \ {b}
<1> DEFINE s == samples[k + 1]
           N == TraceNets(v)
<1>1. N \in Seq(NetsOf(job)) /\ IsInjective(N)
  BY TraceNetsAre DEF Typed
<1>2. \A a \in 0 .. Len(N) - 1 : a + 1 \in 1..Len(N) /\ a + 1 \in DOMAIN N
  BY <1>1
<1>3. \A a \in 0 .. Len(N) - 1 : N[a + 1] = s.net <=> a = b
  BY <1>1, <1>2 DEF IsInjective
<1> HIDE DEF N
<1>4. k + 1 \in 1 .. k + 1 /\ ~(k + 1 \in 1..k) /\ \A i \in 1 .. k + 1 : i \in 1..k \/ i = k + 1
  OBVIOUS
<1>5. ASSUME NEW a \in 0 .. Len(N) - 1, a # b, NEW i
      PROVE  IsLast(k + 1, N[a + 1], i) <=> IsLast(k, N[a + 1], i)
  <2>1. samples[k + 1].net # N[a + 1]
    BY <1>3, <1>5
  <2> QED
    BY <2>1, LastStays
<1>6. ASSUME NEW i PROVE IsLast(k + 1, N[b + 1], i) <=> i = k + 1
  <2>1. s.net = N[b + 1]
    BY DEF N
  <2> HIDE DEF s
  <2>2. samples[k + 1].net = N[b + 1]
    BY <2>1 DEF s
  <2>3. IsLast(k + 1, N[b + 1], i) => i = k + 1
    <3> SUFFICES ASSUME IsLast(k + 1, N[b + 1], i), i # k + 1 PROVE FALSE
      OBVIOUS
    <3>1. i \in 1..k /\ k + 1 \in i + 1 .. k + 1
      BY <1>4 DEF IsLast
    <3> QED
      BY <2>2, <3>1 DEF IsLast
  <2>4. i = k + 1 => \A j \in i + 1 .. k + 1 : FALSE
    OBVIOUS
  <2> QED
    BY <1>4, <2>2, <2>3, <2>4 DEF IsLast
<1>7. ASSUME NEW a \in 0 .. Len(N) - 1, a # b
      PROVE  a \in OnAfter(k + 1, v) <=> a \in OnAfter(k, v)
  BY <1>4, <1>5, <1>7 DEF OnAfter, N, IsLast
<1>8. b \in OnAfter(k + 1, v) <=> 0 \in s.value
  BY <1>4, <1>6 DEF OnAfter, N
<1>9. OnAfter(k, v) \subseteq 0 .. Len(N) - 1 /\ OnAfter(k + 1, v) \subseteq 0 .. Len(N) - 1
  BY DEF OnAfter, N
<1>10. b \in 0 .. Len(N) - 1
  BY DEF N
<1> HIDE DEF s
<1>11. OnAfter(k + 1, v) = IF 0 \in s.value THEN OnAfter(k, v) \cup {b} ELSE OnAfter(k, v) \ {b}
  BY <1>7, <1>8, <1>9, <1>10
<1> QED
  BY <1>11 DEF s

(* And no other variable.                                                  *)
LEMMA OthersAfterSample ==
  ASSUME NEW k \in Nat, NEW v, samples[k + 1].net \notin ToSet(TraceNets(v)), Typed
  PROVE  OnAfter(k + 1, v) = OnAfter(k, v)
<1> DEFINE N == TraceNets(v)
<1>1. N \in Seq(NetsOf(job))
  BY TraceNetsAre DEF Typed
<1>2. ASSUME NEW a \in 0 .. Len(N) - 1 PROVE samples[k + 1].net # N[a + 1]
  <2>1. a + 1 \in DOMAIN N
    BY <1>1
  <2> QED
    BY <2>1 DEF ToSet
<1> HIDE DEF N
<1>3. k + 1 \in 1 .. k + 1 /\ ~(k + 1 \in 1..k) /\ \A i \in 1 .. k + 1 : i \in 1..k \/ i = k + 1
  OBVIOUS
<1>4. ASSUME NEW a \in 0 .. Len(N) - 1, NEW i
      PROVE  IsLast(k + 1, N[a + 1], i) <=> IsLast(k, N[a + 1], i)
  BY <1>2, LastStays
<1>5. ASSUME NEW a \in 0 .. Len(N) - 1
      PROVE  (\E i \in 1 .. k + 1 : IsLast(k + 1, N[a + 1], i) /\ 0 \in samples[i].value)
               <=> \E i \in 1..k : IsLast(k, N[a + 1], i) /\ 0 \in samples[i].value
  BY <1>3, <1>4 DEF IsLast
<1> QED
  BY <1>5 DEF OnAfter, N

-----------------------------------------------------------------------------
(* A dump as it is being written *)

Change == [t : Nat, var : DOMAIN job.ports, value : SUBSET Nat]
Buses == UNION { [S -> SUBSET Nat] : S \in SUBSET (DOMAIN job.ports) }
Writing == [changes : Seq(Change), buses : Buses]

(* A variable of which the dump keeps every bit.                           *)
Kept(v) == Len(Bits(v)) <= 32

(* d is what is written after k samples: the buses that have occurred with *)
(* their bits, and of each variable last what it shows.                    *)
BusesFollow(d, k) ==
  \A v \in DOMAIN job.ports :
    TracedByBits(v) /\ Kept(v) =>
      IF \E i \in 1..k : VarOf(samples[i].net) = v
      THEN v \in DOMAIN d.buses /\ d.buses[v] = OnAfter(k, v)
      ELSE v \notin DOMAIN d.buses
LastOfVar(d, k, v) ==
  \E c \in 1..Len(d.changes) :
    /\ d.changes[c].var = v /\ d.changes[c].value = OnAfter(k, v)
    /\ \A later \in c + 1 .. Len(d.changes) : d.changes[later].var # v
Follows(d, k) ==
  /\ d \in Writing
  /\ BusesFollow(d, k)
  /\ \A i \in 1..k : Kept(VarOf(samples[i].net)) => LastOfVar(d, k, VarOf(samples[i].net))

(* The bits of the names, and what a shift by one reaches.                 *)
LEMMA ReachedIs ==
  ASSUME IsJob(job), NEW v \in DOMAIN job.ports
  PROVE  /\ Len(Bits(v)) \in Nat
         /\ \A b \in 0 .. Len(Bits(v)) - 1 :
              /\ Reached(b) \in SUBSET Nat
              /\ b < 32 => Reached(b) = {b}
<1>1. Len(Bits(v)) \in Nat /\ Len(Bits(v)) <= 64
  <2>1. Bits(v) = job.ports[v].bits
    BY DEF Bits
  <2>2. job.ports[v].bits \in Seq(NetsOf(job)) /\ Len(job.ports[v].bits) <= 64
    BY DEF IsJob
  <2> QED
    BY <2>1, <2>2
<1>2. ASSUME NEW b \in 0 .. Len(Bits(v)) - 1 PROVE Reached(b) \in SUBSET Nat
  <2>1. CASE b < 32
    BY <1>1, <2>1 DEF Reached
  <2>2. CASE ~(b < 32)
    <3>1. b \in 32..63
      BY <1>1, <2>2
    <3>2. FarBits[b] \in SUBSET (0..31)
      BY <3>1, FarBitsAssumption
    <3>3. FarBits[b] \in SUBSET Nat
      <4> DEFINE S == FarBits[b]
      <4> HIDE DEF S
      <4>1. \A x \in S : x \in 0..31
        BY <3>2 DEF S
      <4>2. ASSUME NEW x \in S PROVE x \in Nat
        <5>1. x \in 0..31
          BY <4>1
        <5> QED
          BY <5>1
      <4> QED
        BY <4>2 DEF S
    <3>4. Reached(b) = FarBits[b]
      BY <2>2 DEF Reached
    <3> QED
      BY <3>3, <3>4
  <2> QED
    BY <2>1, <2>2
<1>3. ASSUME NEW b \in 0 .. Len(Bits(v)) - 1, b < 32 PROVE Reached(b) = {b}
  BY <1>3 DEF Reached
<1> QED
  BY <1>1, <1>2, <1>3

(* Of a bus that fits the dump, what is kept is what is written.           *)
LEMMA ShownIs ==
  ASSUME IsJob(job), NEW v \in DOMAIN job.ports, Kept(v), NEW bus \in SUBSET (0 .. Len(Bits(v)) - 1)
  PROVE  Shown(bus, v) = bus
<1>1. Len(Bits(v)) \in Nat /\ \A b \in 0 .. Len(Bits(v)) - 1 : b < 32
  BY ReachedIs DEF Kept
<1>2. \A b \in 0 .. Len(Bits(v)) - 1 : Reached(b) = {b}
  BY <1>1, ReachedIs
<1> QED
  BY <1>2 DEF Shown

(* A sample adds at most one change, of its time.                          *)
LEMMA AfterSampleIs ==
  ASSUME Typed, Tracing, Watches, NEW k \in Nat, k + 1 \in 1..Len(samples), NEW d \in Writing
  PROVE  LET s == samples[k + 1]
             e == AfterSample(d, s)
             v == VarOf(s.net)
             on == IF IsBit(s.net) THEN BusAfter(d.buses, s) ELSE IF 0 \in s.value THEN {0} ELSE {}
             shown == IF IsBit(s.net) THEN Shown(on, v) ELSE on
         IN  /\ v \in DOMAIN job.ports /\ on \in SUBSET Nat
             /\ IF IsBit(s.net)
                THEN /\ DOMAIN e.buses = DOMAIN d.buses \cup {v}
                     /\ \A u \in DOMAIN e.buses : e.buses[u] = IF u = v THEN on ELSE d.buses[u]
                ELSE e.buses = d.buses
             /\ \/ e.changes = d.changes /\ IsBit(s.net) /\ v \in DOMAIN d.buses /\ d.buses[v] = on
                \/ e.changes = Append(d.changes, [t |-> s.t, var |-> v, value |-> shown])
             /\ e \in Writing
<1> DEFINE s == samples[k + 1]
           e == AfterSample(d, s)
           v == VarOf(s.net)
           on == IF IsBit(s.net) THEN BusAfter(d.buses, s) ELSE IF 0 \in s.value THEN {0} ELSE {}
           shown == IF IsBit(s.net) THEN Shown(on, v) ELSE on
           new == [t |-> s.t, var |-> v, value |-> shown]
           grown == [u \in DOMAIN d.buses \cup {v} |-> IF u = v THEN on ELSE d.buses[u]]
<1>1. s \in Sample
  BY DEF Typed
<1>2. s.net \in ToSet(watched) /\ s.t \in Nat
  BY <1>1 DEF Tracing, IsTrace, Sample
<1>3. /\ v \in DOMAIN job.ports /\ Len(Bits(v)) \in Nat
      /\ IsBit(s.net) => Reached(BitOf(s.net)) \in SUBSET Nat
  <2>1. /\ v \in DOMAIN job.ports
        /\ IsBit(s.net) => TraceNets(v) = Bits(v) /\ BitOf(s.net) \in 0 .. Len(TraceNets(v)) - 1
    BY <1>2, VariableOf DEF Typed, TraceNets
  <2>2. IsJob(job)
    BY DEF Typed
  <2> HIDE DEF v, s
  <2> QED
    BY <2>1, <2>2, ReachedIs
<1> HIDE DEF s, v
<1>4. /\ d.changes \in Seq(Change) /\ d = [changes |-> d.changes, buses |-> d.buses]
      /\ DOMAIN d.buses \subseteq DOMAIN job.ports
      /\ \A u \in DOMAIN d.buses : d.buses[u] \in SUBSET Nat
      /\ d.buses \in Buses
  BY DEF Writing, Buses
<1>5. on \in SUBSET Nat
  BY <1>3, <1>4 DEF BusAfter, v
<1> HIDE DEF on
<1>6. new \in Change
  <2>1. shown \in SUBSET Nat
    BY <1>3, <1>5 DEF Shown
  <2> HIDE DEF shown
  <2> QED
    BY <1>2, <1>3, <2>1 DEF Change
<1> HIDE DEF shown
<1>7. grown \in Buses
  <2>1. grown \in [DOMAIN d.buses \cup {v} -> SUBSET Nat]
    BY <1>4, <1>5
  <2>2. DOMAIN d.buses \cup {v} \in SUBSET (DOMAIN job.ports)
    BY <1>3, <1>4
  <2> HIDE DEF grown
  <2> QED
    BY <2>1, <2>2 DEF Buses
<1>8. Append(d.changes, new) \in Seq(Change)
  BY <1>4, <1>6
<1>9. CASE ~IsBit(s.net)
  <2>1. e = [d EXCEPT !.changes = Append(d.changes, new)]
    BY <1>9 DEF AfterSample, shown, on, v
  <2> HIDE DEF new, e
  <2>2. e.changes = Append(d.changes, new) /\ e.buses = d.buses /\ e \in Writing
    BY <1>4, <1>8, <2>1 DEF Writing
  <2> QED
    BY <1>3, <1>5, <1>9, <2>2 DEF new, e, shown, on, v, s
<1>10. CASE IsBit(s.net) /\ v \in DOMAIN d.buses /\ d.buses[v] = on
  <2>1. e = d
    BY <1>10 DEF AfterSample, shown, on, v
  <2>2. DOMAIN d.buses = DOMAIN d.buses \cup {v}
    BY <1>10
  <2>3. \A u \in DOMAIN d.buses : d.buses[u] = IF u = v THEN on ELSE d.buses[u]
    BY <1>10
  <2> HIDE DEF e
  <2> QED
    BY <1>3, <1>5, <1>10, <2>1, <2>2, <2>3 DEF e, shown, on, v, s
<1>11. CASE IsBit(s.net) /\ ~(v \in DOMAIN d.buses /\ d.buses[v] = on)
  <2>1. e = [changes |-> Append(d.changes, new), buses |-> grown]
    BY <1>11 DEF AfterSample, shown, on, v
  <2>2. DOMAIN grown = DOMAIN d.buses \cup {v} /\ \A u \in DOMAIN grown : grown[u] = IF u = v THEN on ELSE d.buses[u]
    OBVIOUS
  <2> HIDE DEF new, grown, e
  <2>3. e.changes = Append(d.changes, new) /\ e.buses = grown /\ e \in Writing
    BY <1>7, <1>8, <2>1 DEF Writing
  <2> QED
    BY <1>3, <1>5, <1>11, <2>2, <2>3 DEF new, e, shown, on, v, s
<1> QED
  BY <1>9, <1>10, <1>11

(* Every sample is of a variable.                                          *)
LEMMA SampledVar ==
  ASSUME Typed, Tracing, Watches, NEW i \in 1..Len(samples)
  PROVE  VarOf(samples[i].net) \in DOMAIN job.ports
<1>1. IsJob(job) /\ samples[i].net \in ToSet(watched)
  BY DEF Typed, Tracing, IsTrace
<1> QED
  BY <1>1, VariableOf

(* The variable of a sample, and what it shows after the sample.           *)
LEMMA ShowsAfterSample ==
  ASSUME Typed, Tracing, Watches, NEW k \in Nat, k + 1 \in 1..Len(samples), NEW d, Follows(d, k)
  PROVE  LET s == samples[k + 1]
             v == VarOf(s.net)
             on == IF IsBit(s.net) THEN BusAfter(d.buses, s) ELSE IF 0 \in s.value THEN {0} ELSE {}
             shown == IF IsBit(s.net) THEN Shown(on, v) ELSE on
         IN  /\ Kept(v) => on = OnAfter(k + 1, v) /\ shown = on
             /\ \A u \in DOMAIN job.ports : u # v => OnAfter(k + 1, u) = OnAfter(k, u)
<1> DEFINE s == samples[k + 1]
           v == VarOf(s.net)
<1>1. \A i \in 1..Len(samples) : samples[i].net \in ToSet(watched)
  BY DEF Tracing, IsTrace
<1>2. IsJob(job) /\ s.net \in ToSet(watched)
  BY <1>1 DEF Typed
<1>3. /\ v \in DOMAIN job.ports
      /\ s.net \in ToSet(TraceNets(v))
      /\ IsBit(s.net) <=> TracedByBits(v)
      /\ IsBit(s.net) => BitOf(s.net) \in 0 .. Len(TraceNets(v)) - 1 /\ TraceNets(v)[BitOf(s.net) + 1] = s.net
      /\ ~IsBit(s.net) => TraceNets(v) = <<s.net>>
  <2> HIDE DEF s
  <2> QED
    BY <1>2, VariableOf
<1> HIDE DEF v
<1>4. v \in DOMAIN job.ports
  BY <1>3
<1>5. ASSUME NEW u \in DOMAIN job.ports, u # v PROVE OnAfter(k + 1, u) = OnAfter(k, u)
  <2>1. s.net \notin ToSet(TraceNets(u))
    BY <1>2, <1>3, <1>5, OneName
  <2> QED
    BY <2>1, OthersAfterSample
<1>6. CASE IsBit(s.net) /\ Kept(v)
  <2> DEFINE b == BitOf(s.net)
             old == IF v \in DOMAIN d.buses THEN d.buses[v] ELSE {}
  <2>1. BusAfter(d.buses, s) = IF 0 \in s.value THEN old \cup {b} ELSE old \ {b}
    <3>1. TraceNets(v) = Bits(v)
      BY <1>3, <1>6 DEF TraceNets
    <3>2. Reached(b) = {b}
      <4>1. b \in 0 .. Len(Bits(v)) - 1
        BY <1>3, <1>6, <3>1
      <4> HIDE DEF b
      <4>2. Len(Bits(v)) \in Nat /\ (b < 32 => Reached(b) = {b})
        BY <1>2, <1>4, <4>1, ReachedIs
      <4> QED
        BY <1>6, <4>1, <4>2 DEF Kept
    <3> QED
      BY <3>2 DEF BusAfter, v
  <2>2. OnAfter(k + 1, v) = IF 0 \in s.value THEN OnAfter(k, v) \cup {b} ELSE OnAfter(k, v) \ {b}
    <3>1. b \in 0 .. Len(TraceNets(v)) - 1 /\ TraceNets(v)[b + 1] = samples[k + 1].net
      BY <1>3, <1>6
    <3> HIDE DEF b
    <3> QED
      BY <1>4, <3>1, OnAfterSample
  <2>3. old = OnAfter(k, v)
    <3>1. CASE \E i \in 1..k : VarOf(samples[i].net) = v
      BY <1>3, <1>6, <3>1 DEF Follows, BusesFollow
    <3>2. CASE ~ \E i \in 1..k : VarOf(samples[i].net) = v
      <4>1. v \notin DOMAIN d.buses
        BY <1>3, <1>6, <3>2 DEF Follows, BusesFollow
      <4>2. ASSUME NEW i \in 1..k, NEW a \in 0 .. Len(TraceNets(v)) - 1 PROVE samples[i].net # TraceNets(v)[a + 1]
        <5>1. samples[i].net \in ToSet(watched)
          BY <1>1
        <5>2. VarOf(samples[i].net) \in DOMAIN job.ports /\ samples[i].net \in ToSet(TraceNets(VarOf(samples[i].net)))
          BY <1>2, <5>1, VariableOf
        <5>3. samples[i].net \notin ToSet(TraceNets(v))
          BY <1>2, <1>3, <3>2, <5>2, OneName
        <5>4. TraceNets(v) \in Seq(NetsOf(job))
          BY <1>2, TraceNetsAre
        <5>5. a + 1 \in DOMAIN TraceNets(v)
          BY <5>4
        <5> QED
          BY <5>3, <5>5 DEF ToSet
      <4>3. OnAfter(k, v) = {}
        BY <4>2 DEF OnAfter, IsLast
      <4> QED
        BY <4>1, <4>3
    <3> QED
      BY <3>1, <3>2
  <2> HIDE DEF old, b, s
  <2>4. BusAfter(d.buses, s) = OnAfter(k + 1, v)
    BY <2>1, <2>2, <2>3
  <2>5. Shown(OnAfter(k + 1, v), v) = OnAfter(k + 1, v)
    <3> DEFINE on == OnAfter(k + 1, v)
    <3>1. on \in SUBSET (0 .. Len(Bits(v)) - 1)
      BY <1>3, <1>6 DEF OnAfter, TraceNets
    <3> HIDE DEF on
    <3>2. Shown(on, v) = on
      BY <1>2, <1>4, <1>6, <3>1, ShownIs
    <3> QED
      BY <3>2 DEF on
  <2> QED
    BY <1>5, <1>6, <2>4, <2>5 DEF s, v
<1>7. CASE ~IsBit(s.net)
  <2> DEFINE n == s.net
             z == 0
  <2>1. z \in 0 .. Len(TraceNets(v)) - 1 /\ TraceNets(v)[z + 1] = n /\ Len(TraceNets(v)) = 1
    <3> HIDE DEF n
    <3>1. TraceNets(v) = <<n>>
      BY <1>3, <1>7 DEF n
    <3> QED
      BY <3>1
  <2>2. OnAfter(k + 1, v) = IF 0 \in s.value THEN OnAfter(k, v) \cup {0} ELSE OnAfter(k, v) \ {0}
    <3> HIDE DEF z
    <3>1. OnAfter(k + 1, v) = IF 0 \in s.value THEN OnAfter(k, v) \cup {z} ELSE OnAfter(k, v) \ {z}
      BY <1>4, <2>1, OnAfterSample
    <3> QED
      BY <3>1 DEF z
  <2>3. OnAfter(k, v) \subseteq {0}
    BY <2>1 DEF OnAfter
  <2>4. OnAfter(k + 1, v) = IF 0 \in s.value THEN {0} ELSE {}
    BY <2>2, <2>3
  <2> QED
    BY <1>5, <1>7, <2>4 DEF s, v
<1>8. CASE ~Kept(v)
  BY <1>5, <1>8 DEF s, v
<1> QED
  BY <1>6, <1>7, <1>8

(* One more sample: the last change of each variable still shows its nets. *)
LEMMA FollowsKeeps ==
  ASSUME Typed, Tracing, Watches, NEW k \in Nat, k + 1 \in 1..Len(samples), NEW d, Follows(d, k)
  PROVE  Follows(AfterSample(d, samples[k + 1]), k + 1)
<1> DEFINE s == samples[k + 1]
           e == AfterSample(d, s)
           v == VarOf(s.net)
           on == IF IsBit(s.net) THEN BusAfter(d.buses, s) ELSE IF 0 \in s.value THEN {0} ELSE {}
           shown == IF IsBit(s.net) THEN Shown(on, v) ELSE on
           new == [t |-> s.t, var |-> v, value |-> shown]
<1>1. d \in Writing /\ d.changes \in Seq(Change)
  BY DEF Follows, Writing
<1>2. /\ v \in DOMAIN job.ports
      /\ IF IsBit(s.net)
         THEN /\ DOMAIN e.buses = DOMAIN d.buses \cup {v}
              /\ \A u \in DOMAIN e.buses : e.buses[u] = IF u = v THEN on ELSE d.buses[u]
         ELSE e.buses = d.buses
      /\ \/ e.changes = d.changes /\ IsBit(s.net) /\ v \in DOMAIN d.buses /\ d.buses[v] = on
         \/ e.changes = Append(d.changes, new)
      /\ e \in Writing
  BY <1>1, AfterSampleIs
<1>3. /\ Kept(v) => on = OnAfter(k + 1, v) /\ shown = on
      /\ \A u \in DOMAIN job.ports : u # v => OnAfter(k + 1, u) = OnAfter(k, u)
  BY ShowsAfterSample
<1>4. IsBit(s.net) <=> TracedByBits(v)
  <2>1. s.net \in ToSet(watched) /\ IsJob(job)
    BY DEF Tracing, IsTrace, Typed
  <2> HIDE DEF s
  <2> QED
    BY <2>1, VariableOf
<1>5. new.var = v /\ new.value = shown
  OBVIOUS
<1>6. VarOf(samples[k + 1].net) = v
  OBVIOUS
<1> HIDE DEF new, shown, on, v, e
<1>7. /\ k + 1 \in 1 .. k + 1
      /\ \A i \in 1 .. k + 1 : i \in 1..k \/ i = k + 1
      /\ \A i \in 1..k : i \in 1 .. k + 1
  OBVIOUS
<1>8. BusesFollow(e, k + 1)
  <2> SUFFICES ASSUME NEW u \in DOMAIN job.ports, TracedByBits(u), Kept(u)
               PROVE  IF \E i \in 1 .. k + 1 : VarOf(samples[i].net) = u
                      THEN u \in DOMAIN e.buses /\ e.buses[u] = OnAfter(k + 1, u)
                      ELSE u \notin DOMAIN e.buses
    BY DEF BusesFollow
  <2>1. CASE u = v
    <3>1. v \in DOMAIN e.buses /\ e.buses[v] = on
      BY <1>2, <1>4, <2>1
    <3> QED
      BY <1>3, <1>6, <1>7, <2>1, <3>1
  <2>2. CASE u # v
    <3>1. (\E i \in 1 .. k + 1 : VarOf(samples[i].net) = u) <=> (\E i \in 1..k : VarOf(samples[i].net) = u)
      BY <1>6, <1>7, <2>2
    <3>2. IF \E i \in 1..k : VarOf(samples[i].net) = u
          THEN u \in DOMAIN d.buses /\ d.buses[u] = OnAfter(k, u)
          ELSE u \notin DOMAIN d.buses
      BY DEF Follows, BusesFollow
    <3>3. /\ u \in DOMAIN e.buses <=> u \in DOMAIN d.buses
          /\ u \in DOMAIN d.buses => e.buses[u] = d.buses[u]
      BY <1>2, <2>2
    <3>4. OnAfter(k + 1, u) = OnAfter(k, u)
      BY <1>3, <2>2
    <3> QED
      BY <3>1, <3>2, <3>3, <3>4
  <2> QED
    BY <2>1, <2>2
<1>9. CASE e.changes = d.changes /\ IsBit(s.net) /\ v \in DOMAIN d.buses /\ d.buses[v] = on
  <2>1. Kept(v) => \E j \in 1..k : VarOf(samples[j].net) = v
    BY <1>2, <1>4, <1>9 DEF Follows, BusesFollow
  <2>2. Kept(v) => OnAfter(k, v) = on
    BY <1>2, <1>4, <1>9, <2>1 DEF Follows, BusesFollow
  <2>3. ASSUME NEW i \in 1 .. k + 1, Kept(VarOf(samples[i].net)) PROVE LastOfVar(e, k + 1, VarOf(samples[i].net))
    <3> DEFINE u == VarOf(samples[i].net)
    <3>1. PICK h \in 1..k : VarOf(samples[h].net) = u
      BY <1>6, <1>7, <2>1, <2>3
    <3>2. LastOfVar(d, k, u)
      BY <2>3, <3>1 DEF Follows
    <3>3. u \in DOMAIN job.ports
      BY <3>1, SampledVar
    <3>4. OnAfter(k + 1, u) = OnAfter(k, u)
      BY <1>3, <2>2, <2>3, <3>3
    <3> HIDE DEF u
    <3>5. LastOfVar(e, k + 1, u)
      BY <1>9, <3>2, <3>4 DEF LastOfVar
    <3> QED
      BY <3>5 DEF u
  <2> QED
    BY <1>2, <1>8, <2>3 DEF Follows, e, s
<1>10. CASE e.changes = Append(d.changes, new)
  <2> DEFINE n == Len(d.changes)
             x == e.changes
  <2>1. /\ n \in Nat /\ Len(x) = n + 1 /\ x[n + 1] = new
        /\ \A c \in 1..n : x[c] = d.changes[c]
    BY <1>1, <1>10
  <2> HIDE DEF n, x
  <2>2. ASSUME Kept(v) PROVE LastOfVar(e, k + 1, v)
    <3>1. n + 1 \in 1..Len(x) /\ x[n + 1].var = v /\ x[n + 1].value = OnAfter(k + 1, v)
      BY <1>3, <1>5, <2>1, <2>2
    <3>2. \A later \in (n + 1) + 1 .. Len(x) : FALSE
      BY <2>1
    <3> QED
      BY <3>1, <3>2 DEF LastOfVar, x
  <2>3. ASSUME NEW i \in 1 .. k + 1, Kept(VarOf(samples[i].net)) PROVE LastOfVar(e, k + 1, VarOf(samples[i].net))
    <3> DEFINE u == VarOf(samples[i].net)
    <3>1. CASE u = v
      BY <2>2, <2>3, <3>1
    <3>2. CASE u # v
      <4>1. i \in 1..k
        BY <1>6, <1>7, <3>2
      <4>2. LastOfVar(d, k, u)
        BY <2>3, <4>1 DEF Follows
      <4>3. u \in DOMAIN job.ports
        BY <4>1, SampledVar
      <4>4. OnAfter(k + 1, u) = OnAfter(k, u)
        BY <1>3, <3>2, <4>3
      <4> HIDE DEF u
      <4>5. PICK c \in 1..n :
              /\ d.changes[c].var = u /\ d.changes[c].value = OnAfter(k, u)
              /\ \A later \in c + 1 .. n : d.changes[later].var # u
        BY <4>2 DEF LastOfVar, n
      <4>6. c \in 1..Len(x) /\ x[c].var = u /\ x[c].value = OnAfter(k + 1, u)
        BY <2>1, <4>4, <4>5
      <4>7. ASSUME NEW later \in c + 1 .. Len(x) PROVE x[later].var # u
        <5>1. later \in c + 1 .. n \/ later = n + 1
          BY <2>1
        <5>2. CASE later = n + 1
          BY <1>5, <2>1, <3>2, <5>2
        <5>3. CASE later \in c + 1 .. n
          <6>1. later \in 1..n
            BY <5>3
          <6> QED
            BY <2>1, <4>5, <5>3, <6>1
        <5> QED
          BY <5>1, <5>2, <5>3
      <4>8. LastOfVar(e, k + 1, u)
        BY <4>6, <4>7 DEF LastOfVar, x
      <4> QED
        BY <4>8 DEF u
    <3> QED
      BY <3>1, <3>2
  <2> QED
    BY <1>2, <1>8, <2>3 DEF Follows, e, s
<1> QED
  BY <1>2, <1>9, <1>10

(* The dump after each sample.                                             *)
Empty == [changes |-> <<>>, buses |-> [v \in {} |-> {}]]
Dumped(w) ==
  /\ w[0] = Empty
  /\ \A k \in 0..Len(samples) : w[k] \in Writing
  /\ \A k \in 0 .. Len(samples) - 1 : w[k + 1] = AfterSample(w[k], samples[k + 1])

(* The changes are the last of a list, one entry for each sample written.  *)
LEMMA ChangesUnfold ==
  ASSUME Typed, Tracing, Watches
  PROVE  \E w : Dumped(w) /\ Changes = w[Len(samples)].changes
<1> DEFINE n == Len(samples)
           T == Writing
           step(k, d) == AfterSample(d, samples[k])
           steps == [k \in 1..n |-> [d \in T |-> step(k, d)]]
           body(f, k) == IF k = 0 THEN Empty
                         ELSE CHOOSE r \in { step(k, d) : d \in {f[k - 1]} } : TRUE
           w == CHOOSE f : f = [k \in 0..n |-> body(f, k)]
<1>1. n \in Nat /\ Empty \in T
  <2>1. Empty.changes = <<>> /\ Empty.buses = [v \in {} |-> {}]
        /\ Empty = [changes |-> Empty.changes, buses |-> Empty.buses]
    BY DEF Empty
  <2>2. [v \in {} |-> {}] \in [{} -> SUBSET Nat] /\ {} \in SUBSET (DOMAIN job.ports)
    OBVIOUS
  <2>3. Empty.buses \in Buses
    BY <2>1, <2>2 DEF Buses
  <2>4. Empty.changes \in Seq(Change)
    BY <2>1
  <2>5. n \in Nat
    BY DEF Typed
  <2> QED
    BY <2>1, <2>3, <2>4, <2>5 DEF Writing
<1>2. ASSUME NEW k \in 1..n, NEW d \in T PROVE step(k, d) \in T
  <2> DEFINE j == k - 1
  <2>1. j \in Nat /\ j + 1 \in 1..Len(samples) /\ j + 1 = k
    BY <1>1
  <2> HIDE DEF j
  <2>2. AfterSample(d, samples[j + 1]) \in Writing
    BY <2>1, AfterSampleIs
  <2> QED
    BY <2>1, <2>2
<1>3. steps \in [1..n -> [T -> T]]
  BY <1>2
<1>4. PICK f \in [0..n -> T] : Recursive(f, n, Empty, steps)
  <2> HIDE DEF n, T, steps
  <2> QED
    BY <1>1, <1>3, RecursionExists
<1>5. ASSUME NEW h, NEW k PROVE body(h, k) = IF k = 0 THEN Empty ELSE step(k, h[k - 1])
  <2> HIDE DEF step
  <2>1. (CHOOSE r \in { step(k, d) : d \in {h[k - 1]} } : TRUE) = step(k, h[k - 1])
    BY Zenon
  <2> QED
    BY <2>1
<1>6. ASSUME NEW k \in 0..n PROVE f[k] = IF k = 0 THEN Empty ELSE step(k, f[k - 1])
  <2>1. f[k] = IF k = 0 THEN Empty ELSE steps[k][f[k - 1]]
    BY <1>4, Zenon DEF Recursive
  <2>2. k # 0 => k \in 1..n /\ k - 1 \in 0..n
    BY <1>1
  <2>3. k # 0 => steps[k][f[k - 1]] = step(k, f[k - 1])
    BY <1>4, <2>2
  <2> QED
    BY <2>1, <2>3
<1> HIDE DEF body, step, T
<1>7. \A k \in 0..n : f[k] = body(f, k)
  BY <1>5, <1>6
<1>8. f = [k \in 0..n |-> body(f, k)]
  BY <1>4, <1>7
<1>9. w = [k \in 0..n |-> body(w, k)]
  BY <1>8, Zenon
<1>10. Changes = w[n].changes
  BY Zenon DEF Changes, body, step, w, n, Empty
<1> HIDE DEF w
<1>11. \A k \in 0..n : w[k] = IF k = 0 THEN Empty ELSE step(k, w[k - 1])
  BY <1>5, <1>9
<1>12. 0..n \subseteq {k \in 0..n : w[k] \in T}
  <2> DEFINE U == {k \in 0..n : w[k] \in T}
  <2>1. 0 \in U
    BY <1>1, <1>11
  <2>2. ASSUME NEW k \in 0 .. n - 1, k \in U PROVE k + 1 \in U
    <3>1. k + 1 \in 0..n /\ k + 1 # 0 /\ (k + 1) - 1 = k /\ k + 1 \in 1..n
      BY <1>1
    <3>2. w[k + 1] = step(k + 1, w[k])
      BY <1>11, <3>1
    <3> QED
      BY <1>2, <2>2, <3>1, <3>2
  <2> HIDE DEF U, n
  <2>3. 0..n \subseteq U
    BY <1>1, <2>1, <2>2, IntervalBySets
  <2> QED
    BY <2>3 DEF U
<1>13. Dumped(w)
  <2>1. ASSUME NEW k \in 0 .. n - 1 PROVE w[k + 1] = step(k + 1, w[k])
    <3>1. k + 1 \in 0..n /\ k + 1 # 0 /\ (k + 1) - 1 = k
      BY <1>1
    <3> QED
      BY <1>11, <3>1
  <2>2. w[0] = Empty
    BY <1>1, <1>11
  <2> QED
    BY <1>12, <2>1, <2>2 DEF Dumped, step, T
<1> QED
  BY <1>10, <1>13

(* It follows the samples at each of them.                                 *)
LEMMA DumpFollows ==
  ASSUME Typed, Tracing, Watches, NEW w, Dumped(w), NEW k \in 0..Len(samples)
  PROVE  Follows(w[k], k)
<1> DEFINE n == Len(samples)
           U == {j \in 0..n : Follows(w[j], j)}
<1>1. n \in Nat
  BY DEF Typed
<1>2. 0 \in U
  <2>1. w[0] = Empty /\ w[0] \in Writing
    BY <1>1 DEF Dumped
  <2>2. DOMAIN w[0].buses = {}
    BY <2>1 DEF Empty
  <2> QED
    BY <1>1, <2>1, <2>2 DEF Follows, BusesFollow
<1>3. ASSUME NEW j \in 0 .. n - 1, j \in U PROVE j + 1 \in U
  <2>1. j \in Nat /\ j + 1 \in 1..Len(samples) /\ j + 1 \in 0..n
    BY <1>1
  <2>2. Follows(w[j], j) /\ w[j + 1] = AfterSample(w[j], samples[j + 1])
    BY <1>3 DEF Dumped
  <2>3. Follows(AfterSample(w[j], samples[j + 1]), j + 1)
    BY <2>1, <2>2, FollowsKeeps
  <2> QED
    BY <2>1, <2>2, <2>3
<1> HIDE DEF U
<1>4. 0..n \subseteq U
  <2> HIDE DEF n
  <2> QED
    BY <1>1, <1>2, <1>3, IntervalBySets
<1> QED
  BY <1>4 DEF U

(* What comes after sample m has the times of samples after m.             *)
LEMMA DumpGrows ==
  ASSUME Typed, Tracing, Watches, NEW w, Dumped(w), NEW m \in 0..Len(samples), NEW k \in m..Len(samples)
  PROVE  /\ Len(w[m].changes) <= Len(w[k].changes)
         /\ \A c \in 1..Len(w[m].changes) : w[k].changes[c] = w[m].changes[c]
         /\ \A c \in Len(w[m].changes) + 1 .. Len(w[k].changes) :
              \E j \in m + 1 .. k : w[k].changes[c].t = samples[j].t
<1> DEFINE n == Len(samples)
           C(j) == w[j].changes
           L(j) == Len(w[j].changes)
           Grown(j) == /\ L(m) <= L(j)
                       /\ \A c \in 1..L(m) : C(j)[c] = C(m)[c]
                       /\ \A c \in L(m) + 1 .. L(j) : \E i \in m + 1 .. j : C(j)[c].t = samples[i].t
           U == {j \in 0..n : j >= m => Grown(j)}
<1>1. n \in Nat /\ \A j \in 0..n : w[j] \in Writing /\ C(j) \in Seq(Change) /\ L(j) \in Nat
  BY DEF Typed, Dumped, Writing
<1>2. Grown(m)
  BY <1>1
<1>3. ASSUME NEW j \in 0 .. n - 1, j >= m, Grown(j) PROVE Grown(j + 1)
  <2> DEFINE s == samples[j + 1]
             e == AfterSample(w[j], s)
  <2>1. j \in Nat /\ j + 1 \in 1..Len(samples) /\ j + 1 \in 0..n /\ j \in 0..n /\ m \in 0..n
    BY <1>1
  <2>2. w[j + 1] = e
    BY DEF Dumped
  <2>3. e.changes = C(j) \/ \E v, on : e.changes = Append(C(j), [t |-> s.t, var |-> v, value |-> on])
    <3> DEFINE d == w[j]
               v == VarOf(s.net)
               on == IF IsBit(s.net) THEN BusAfter(d.buses, s) ELSE IF 0 \in s.value THEN {0} ELSE {}
               shown == IF IsBit(s.net) THEN Shown(on, v) ELSE on
    <3>1. d \in Writing
      BY <1>1, <2>1
    <3> HIDE DEF d
    <3>2. \/ AfterSample(d, s).changes = d.changes
          \/ AfterSample(d, s).changes = Append(d.changes, [t |-> s.t, var |-> v, value |-> shown])
      BY <2>1, <3>1, AfterSampleIs
    <3> HIDE DEF shown, on, v
    <3> QED
      BY <3>2 DEF d
  <2> HIDE DEF e
  <2>4. CASE e.changes = C(j)
    <3>1. C(j + 1) = C(j) /\ L(j + 1) = L(j)
      BY <2>2, <2>4
    <3>2. \A i \in m + 1 .. j : i \in m + 1 .. j + 1
      BY <2>1
    <3> HIDE DEF C, L
    <3> QED
      BY <1>3, <3>1, <3>2
  <2>5. CASE \E v, on : e.changes = Append(C(j), [t |-> s.t, var |-> v, value |-> on])
    <3>1. PICK v, on : e.changes = Append(C(j), [t |-> s.t, var |-> v, value |-> on])
      BY <2>5
    <3> DEFINE new == [t |-> s.t, var |-> v, value |-> on]
    <3>2. new.t = s.t
      OBVIOUS
    <3>3. C(j + 1) = Append(C(j), new)
      BY <2>2, <3>1
    <3> HIDE DEF new
    <3>4. /\ L(j + 1) = L(j) + 1 /\ C(j + 1)[L(j) + 1] = new
          /\ \A c \in 1..L(j) : C(j + 1)[c] = C(j)[c]
      BY <1>1, <2>1, <3>3
    <3>5. L(j) \in Nat /\ L(m) \in Nat
      BY <1>1, <2>1
    <3> HIDE DEF C, L
    <3>6. L(m) <= L(j + 1)
      BY <1>3, <3>4, <3>5
    <3>7. ASSUME NEW c \in 1..L(m) PROVE C(j + 1)[c] = C(m)[c]
      <4>1. c \in 1..L(j)
        BY <1>3, <3>5
      <4> QED
        BY <1>3, <3>4, <4>1
    <3>8. ASSUME NEW c \in L(m) + 1 .. L(j + 1) PROVE \E i \in m + 1 .. j + 1 : C(j + 1)[c].t = samples[i].t
      <4>1. CASE c = L(j) + 1
        <5>1. C(j + 1)[c].t = samples[j + 1].t
          BY <3>2, <3>4, <4>1
        <5>2. j + 1 \in m + 1 .. j + 1
          BY <1>3, <2>1
        <5> QED
          BY <5>1, <5>2
      <4>2. CASE c # L(j) + 1
        <5>1. c \in L(m) + 1 .. L(j) /\ c \in 1..L(j)
          BY <3>4, <3>5, <4>2
        <5>2. PICK i \in m + 1 .. j : C(j)[c].t = samples[i].t
          BY <1>3, <5>1
        <5>3. i \in m + 1 .. j + 1
          BY <2>1
        <5> QED
          BY <3>4, <5>1, <5>2, <5>3
      <4> QED
        BY <4>1, <4>2
    <3> QED
      BY <3>6, <3>7, <3>8
  <2> QED
    BY <2>3, <2>4, <2>5
<1> HIDE DEF Grown
<1>4. 0 \in U
  BY <1>1, <1>2
<1>5. ASSUME NEW j \in 0 .. n - 1, j \in U PROVE j + 1 \in U
  <2>1. CASE j >= m
    BY <1>1, <1>3, <1>5, <2>1
  <2>2. CASE ~(j >= m)
    <3>1. j + 1 >= m => j + 1 = m
      BY <1>1, <2>2
    <3> QED
      BY <1>1, <1>2, <3>1
  <2> QED
    BY <2>1, <2>2
<1> HIDE DEF U
<1>6. 0..n \subseteq U
  <2> HIDE DEF n
  <2> QED
    BY <1>1, <1>4, <1>5, IntervalBySets
<1>7. k \in 0..n /\ k >= m
  BY <1>1
<1>8. Grown(k)
  BY <1>6, <1>7 DEF U
<1> QED
  BY <1>8 DEF Grown

(* The samples up to a time are the first ones.                            *)
LEMMA SamplesUpTo ==
  ASSUME Typed, InOrder, ~late, NEW k \in 1..Len(samples)
  PROVE  \E m \in k..Len(samples) :
           /\ \A i \in 1..m : samples[i].t <= samples[k].t
           /\ \A i \in m + 1 .. Len(samples) : samples[i].t > samples[k].t
<1> DEFINE n == Len(samples)
           T == samples[k].t
           at == [q \in 1..n |-> IF samples[q].t <= T THEN q ELSE 0]
<1>1. n \in Nat /\ n > 0 /\ at \in [1..n -> Int]
  BY DEF Typed
<1>2. \A q \in 1..n : at[q] = IF samples[q].t <= T THEN q ELSE 0
  OBVIOUS
<1>3. \A q \in 1..n : samples[q].t \in Nat
  <2>1. \A q \in 1..n : samples[q] \in Sample
    BY DEF Typed
  <2> QED
    BY <2>1 DEF Sample
<1>4. k \in 1..n /\ T \in Nat /\ samples[k].t = T
  BY <1>3
<1>5. \A j \in 1..n : \A i \in 1..j : samples[i].t <= samples[j].t
  BY DEF InOrder
<1> HIDE DEF at, n, T
<1>6. PICK m \in 1..n : \A q \in 1..n : at[q] <= at[m]
  BY <1>1, FirstGreatest
<1>7. at[k] = k
  BY <1>2, <1>3, <1>4
<1>8. at[m] = m /\ samples[m].t <= T /\ k <= m
  BY <1>2, <1>4, <1>6, <1>7
<1>9. ASSUME NEW i \in 1..m PROVE samples[i].t <= T
  <2>1. samples[i].t <= samples[m].t /\ i \in 1..n
    BY <1>1, <1>5
  <2> QED
    BY <1>3, <1>4, <1>8, <2>1
<1>10. ASSUME NEW i \in m + 1 .. n PROVE samples[i].t > T
  <2>1. i \in 1..n /\ at[i] <= m /\ i > m
    BY <1>1, <1>6, <1>8
  <2> QED
    BY <1>2, <1>3, <1>4, <2>1
<1>11. m \in k..n
  BY <1>1, <1>4, <1>8
<1> QED
  BY <1>9, <1>10, <1>11 DEF n, T

(* What a viewer is to show is what the variable shows after them.         *)
LEMMA ShowingIs ==
  ASSUME Typed, Tracing, WaveInv, ~late, NEW k \in 1..Len(samples), NEW m \in k..Len(samples),
         \A i \in 1..m : samples[i].t <= samples[k].t,
         \A i \in m + 1 .. Len(samples) : samples[i].t > samples[k].t
  PROVE  Showing(samples[k].net, samples[k].t) = OnAfter(m, VarOf(samples[k].net))
<1> DEFINE n == Len(samples)
           T == samples[k].t
           net == samples[k].net
           v == VarOf(net)
           N == TraceNets(v)
           P(x, i) == /\ samples[i].net = x /\ samples[i].t <= T
                      /\ \A j \in i + 1 .. n : samples[j].net = x => samples[j].t > T
<1>1. n \in Nat /\ k \in 1..n /\ m \in 1..n /\ \A i \in 1..n : samples[i].t \in Nat
  <2>1. n \in Nat
    BY DEF Typed
  <2>2. \A q \in 1..n : samples[q] \in Sample
    BY DEF Typed
  <2>3. \A q \in 1..n : samples[q].t \in Nat
    BY <2>2 DEF Sample
  <2> QED
    BY <2>1, <2>3
<1>2. net \in ToSet(watched) /\ IsJob(job)
  BY DEF Tracing, IsTrace, Typed
<1>3. /\ v \in DOMAIN job.ports /\ net \in ToSet(N)
      /\ IsBit(net) <=> TracedByBits(v)
      /\ ~IsBit(net) => N = <<net>>
  <2> HIDE DEF net
  <2> QED
    BY <1>2, VariableOf DEF WaveInv
<1>4. N \in Seq(NetsOf(job))
  BY <1>2, TraceNetsAre
<1>5. \A i \in 1..n : (i \in 1..m => samples[i].t <= T) /\ (i \in m + 1 .. n => samples[i].t > T)
  OBVIOUS
<1>6. ASSUME NEW x, NEW i \in 1..n PROVE P(x, i) <=> IsLast(m, x, i)
  <2>1. T \in Nat
    BY <1>1
  <2> HIDE DEF T, n
  <2>2. samples[i].t <= T <=> i \in 1..m
    BY <1>1, <1>5, <2>1
  <2>3. ASSUME i \in 1..m
        PROVE  (\A j \in i + 1 .. n : samples[j].net = x => samples[j].t > T) <=> (\A j \in i + 1 .. m : samples[j].net # x)
    <3>1. \A j \in i + 1 .. n : j \in 1..n /\ (samples[j].t > T <=> ~(j \in i + 1 .. m))
      BY <1>1, <1>5, <2>1, <2>3
    <3>2. \A j \in i + 1 .. m : j \in i + 1 .. n
      BY <1>1
    <3> QED
      BY <3>1, <3>2
  <2> QED
    BY <2>2, <2>3 DEF IsLast
<1>7. ASSUME NEW x \in ToSet(N)
      PROVE  LastSample(x, T) \in 1..m /\ IsLast(m, x, LastSample(x, T))
  <2>1. PICK h \in 1..n : samples[h].net = x /\ samples[h].t <= T
    <3> HIDE DEF v, net
    <3>1. samples[k].net \in ToSet(N)
      BY <1>3 DEF net
    <3> QED
      BY <1>3, <3>1 DEF WaveInv, Together
  <2>2. h \in 1..m
    BY <1>1, <1>5, <2>1
  <2>3. PICK i \in 1..m : IsLast(m, x, i)
    <3>1. m \in Nat
      BY <1>1
    <3>2. \E i \in 1..m : IsLast(m, samples[h].net, i)
      BY <2>2, <3>1, LastExists
    <3> QED
      BY <2>1, <3>2
  <2>4. i \in 1..n /\ P(x, i)
    BY <1>1, <1>6, <2>3
  <2>5. LastSample(x, T) = CHOOSE j \in 1..n : P(x, j)
    BY DEF LastSample
  <2> DEFINE l == LastSample(x, T)
  <2> HIDE DEF P, T, N
  <2>6. l \in 1..n /\ P(x, l)
    BY <2>4, <2>5
  <2> HIDE DEF l
  <2>7. IsLast(m, x, l)
    BY <1>6, <2>6
  <2> QED
    BY <2>7 DEF IsLast, l
<1>8. ASSUME NEW x \in ToSet(N)
      PROVE  0 \in samples[LastSample(x, T)].value <=> \E i \in 1..m : IsLast(m, x, i) /\ 0 \in samples[i].value
  <2> DEFINE l == LastSample(x, T)
  <2>1. l \in 1..m /\ IsLast(m, x, l)
    BY <1>7
  <2>2. ASSUME NEW i \in 1..m, IsLast(m, x, i) PROVE i = l
    <3> HIDE DEF l
    <3> QED
      BY <1>1, <2>1, <2>2 DEF IsLast
  <2> HIDE DEF l
  <2>3. 0 \in samples[l].value <=> \E i \in 1..m : IsLast(m, x, i) /\ 0 \in samples[i].value
    BY <2>1, <2>2
  <2> QED
    BY <2>3 DEF l
<1>9. \A b \in 0 .. Len(N) - 1 : N[b + 1] \in ToSet(N)
  <2> HIDE DEF N
  <2>1. \A b \in 0 .. Len(N) - 1 : b + 1 \in DOMAIN N
    BY <1>4
  <2> QED
    BY <2>1 DEF ToSet
<1>10. OnAfter(m, v) = { b \in 0 .. Len(N) - 1 : 0 \in samples[LastSample(N[b + 1], T)].value }
  <2> HIDE DEF T, v
  <2> QED
    BY <1>8, <1>9 DEF OnAfter
<1>11. CASE IsBit(net)
  <2>1. N = Bits(v)
    BY <1>3, <1>11 DEF TraceNets
  <2>2. Showing(net, T) = { b \in 0 .. Len(Bits(v)) - 1 : 0 \in samples[LastSample(Bits(v)[b + 1], T)].value }
    BY <1>11 DEF Showing
  <2> QED
    BY <1>10, <2>1, <2>2
<1>12. CASE ~IsBit(net)
  <2>1. Showing(net, T) = IF 0 \in samples[LastSample(net, T)].value THEN {0} ELSE {}
    BY <1>12 DEF Showing
  <2>2. N = <<net>>
    BY <1>3, <1>12
  <2> DEFINE S == OnAfter(m, v)
  <2> HIDE DEF N, v, T, net, S
  <2>3. Len(N) = 1 /\ N[0 + 1] = net
    BY <2>2
  <2>4. S = { b \in {0} : 0 \in samples[LastSample(net, T)].value }
    BY <1>10, <2>3 DEF S
  <2>5. Showing(net, T) = S
    BY <2>1, <2>4
  <2> QED
    BY <2>5 DEF N, v, T, net, S
<1> QED
  BY <1>11, <1>12

(* The invariant is enough: what the dump shows at the time of a sample is *)
(* what the first samples, up to that time, leave its nets at.             *)
LEMMA WaveShows ==
  ASSUME ToolInv, WaveInv
  PROVE  WaveShowsTheTrace
<1> SUFFICES ASSUME stage = "dumped", argv.writable, ~late, NEW k \in 1..Len(samples),
                    Kept(VarOf(samples[k].net))
             PROVE  \E c \in 1..Len(dump) :
                      /\ dump[c].var = VarOf(samples[k].net) /\ dump[c].t <= samples[k].t
                      /\ \A later \in c + 1 .. Len(dump) :
                           dump[later].var = VarOf(samples[k].net) => dump[later].t > samples[k].t
                      /\ dump[c].value = Showing(samples[k].net, samples[k].t)
  BY DEF WaveShowsTheTrace, Kept
<1>1. Typed /\ Tracing /\ Watches /\ InOrder /\ dump = Changes
  BY DEF ToolInv, Ended, WaveInv
<1> DEFINE n == Len(samples)
           T == samples[k].t
           var == VarOf(samples[k].net)
<1>2. PICK m \in k..n : /\ \A i \in 1..m : samples[i].t <= T
                        /\ \A i \in m + 1 .. n : samples[i].t > T
  BY <1>1, SamplesUpTo
<1>3. Showing(samples[k].net, T) = OnAfter(m, var)
  BY <1>1, <1>2, ShowingIs
<1>4. PICK w : Dumped(w) /\ Changes = w[n].changes
  BY <1>1, ChangesUnfold
<1>5. n \in Nat /\ k \in 1..m /\ m \in 0..n /\ 0 \in 0..n /\ n \in m..n /\ m \in 0..Len(samples)
      /\ m \in Nat
  BY <1>1 DEF Typed
<1>6. LastOfVar(w[m], m, var)
  <2>1. Follows(w[m], m)
    BY <1>1, <1>4, <1>5, DumpFollows
  <2> QED
    BY <1>5, <2>1 DEF Follows
<1> HIDE DEF var, T
<1> DEFINE a == w[m].changes
<1>7. PICK c \in 1..Len(a) :
        /\ a[c].var = var /\ a[c].value = OnAfter(m, var)
        /\ \A later \in c + 1 .. Len(a) : a[later].var # var
  BY <1>6 DEF LastOfVar
<1>8. w[0].changes = <<>> /\ Len(w[0].changes) = 0
  BY <1>4 DEF Dumped, Empty
<1>9. \A x \in 1..Len(a) : \E j \in 1..m : a[x].t = samples[j].t
  <2>1. \A x \in Len(w[0].changes) + 1 .. Len(w[m].changes) :
          \E j \in 0 + 1 .. m : w[m].changes[x].t = samples[j].t
    BY <1>1, <1>4, <1>5, DumpGrows
  <2> QED
    BY <1>8, <2>1
<1>10. /\ Len(a) <= Len(dump)
       /\ \A x \in 1..Len(a) : dump[x] = a[x]
       /\ \A x \in Len(a) + 1 .. Len(dump) : \E j \in m + 1 .. n : dump[x].t = samples[j].t
  <2>1. /\ Len(w[m].changes) <= Len(w[n].changes)
        /\ \A x \in 1..Len(w[m].changes) : w[n].changes[x] = w[m].changes[x]
        /\ \A x \in Len(w[m].changes) + 1 .. Len(w[n].changes) :
             \E j \in m + 1 .. n : w[n].changes[x].t = samples[j].t
    <3> HIDE DEF n
    <3> QED
      BY <1>1, <1>4, <1>5, DumpGrows DEF n
  <2> QED
    BY <1>1, <1>4, <2>1
<1>11. Len(a) \in Nat /\ Len(dump) \in Nat
  <2>1. w[m] \in Writing /\ w[n] \in Writing
    BY <1>4, <1>5 DEF Dumped
  <2> QED
    BY <1>1, <1>4, <2>1 DEF Writing
<1> HIDE DEF a, n
<1>12. c \in 1..Len(dump) /\ dump[c] = a[c]
  BY <1>10, <1>11
<1>13. dump[c].t <= T
  BY <1>2, <1>7, <1>9, <1>12
<1>14. ASSUME NEW later \in c + 1 .. Len(dump), dump[later].var = var PROVE dump[later].t > T
  <2>1. ~(later \in c + 1 .. Len(a))
    <3> SUFFICES ASSUME later \in c + 1 .. Len(a) PROVE FALSE
      OBVIOUS
    <3>1. later \in 1..Len(a)
      BY <1>11
    <3> QED
      BY <1>7, <1>10, <1>14, <3>1
  <2>2. later \in Len(a) + 1 .. Len(dump)
    BY <1>11, <2>1
  <2> QED
    BY <1>2, <1>10, <2>2
<1>15. dump[c].var = var /\ dump[c].value = Showing(samples[k].net, T)
  BY <1>3, <1>7, <1>12
<1> QED
  BY <1>12, <1>13, <1>14, <1>15 DEF T, var

(* The last change of a variable in the dump up to the time of a sample is *)
(* what its nets have in the trace at that time: write_vcd() assembles     *)
(* buses from samples of their bits.  It does so in 32 bits, and nothing is*)
(* said of a variable of more.                                             *)
THEOREM DumpShowsTheTrace == ToolSpec => []WaveShowsTheTrace
<1>1. ToolInit => WaveInv
  <2> SUFFICES ASSUME ToolInit PROVE WaveInv
    OBVIOUS
  <2>1. watched = <<>> /\ samples = <<>>
    BY DEF ToolInit, TbInit
  <2>2. ToSet(watched) = {} /\ Len(samples) = 0
    BY <2>1 DEF ToSet
  <2> QED
    BY <2>2 DEF WaveInv, Watches, InOrder, Together
<1>2. ToolInv /\ WaveInv /\ [ToolNext]_toolVars => WaveInv'
  BY WaveKeeps
<1>3. ToolInv /\ WaveInv => WaveShowsTheTrace
  BY WaveShows
<1> QED
  BY <1>1, <1>2, <1>3, ToolInvariant, PTL DEF ToolSpec
-----------------------------------------------------------------------------
(* The automatic testbench *)

Made == Loaded[argv.design]
ClockName == FindInput(Made, ClockNames)
ResetName == FindInput(Made, ResetNames)
ClockNet == NetOf(ClockName)
AutoRuns == argv.testbench = "auto" /\ argv.command \in {"sim", "verify"}

(* Nothing but the testbench drives the clock and the reset.               *)
InputsFree == Undriven(ClockName) /\ (HasReset(Made) => Undriven(ResetName))

(* No clock is declared, and none will be.                                 *)
NoClock(c) ==
  \/ c.type \in {"TRACE", "RESET", "DRIVE", "WAIT_NS", "WAIT_EDGE"}
  \/ \E k \in Nat : c = EdgesOf(ClockName, k)
Quiet == clocks = <<>> /\ \A i \in 1..Len(todo) : NoClock(todo[i])

(* Nothing has happened but traces; the clock comes next.                  *)
Traces == { c \in Statements : c.type = "TRACE" }
Waiting ==
  /\ clocks = <<>> /\ wait = NoWait /\ time = 0 /\ ~late
  /\ IsClocked(Made)
  /\ \E s \in Seq(Traces) : todo = s \o CyclesOf(Made, argv.cycles)

(* The clock ticks, and its net shows it.                                  *)
Ticking ==
  /\ Len(clocks) = 1 /\ clocks[1].net = ClockNet /\ Whole(ClockName) # {}
  /\ clocks[1].low = 5 /\ clocks[1].high = 5 /\ clocks[1].init = 0
  /\ values[ClockNet] = LevelWord(clocks[1].level = 1)

(* The time after n of the edges of the repeat, and what is left then.     *)
Asked == CyclesAsked(argv.cycles)
Start == IF HasReset(Made) THEN 20 ELSE 0
After(n) == IF n = 0 THEN Start ELSE Start + 10 * n - 5
Left(n) == EdgesOf(ClockName, Asked - n)

(* The stage of the reset that a wait w, a time t and commands c left are  *)
(* in.                                                                     *)
ResetTodo(k) == [i \in 1 .. 6 - k |-> IF i = 6 - k THEN Left(0) ELSE ResetPulse(ResetName)[i + k - 1]]
ResettingAt(w, t, c) ==
  /\ HasReset(Made)
  /\ \/ \E k \in 1..3 : w = NoWait /\ t = 0 /\ c = ResetTodo(k)
     \/ w = [kind |-> "ns", target |-> 20] /\ c = ResetTodo(4)
     \/ w = NoWait /\ t = 20 /\ c = ResetTodo(4)
Resetting == ResettingAt(wait, time, todo)

(* A wait for the edge after n others: for the falling edge before it, and *)
(* for itself.                                                             *)
ForEdge(w, n) ==
  /\ w # NoWait /\ w.kind = "edge" /\ w.net = ClockNet /\ w.rising
  /\ w.target = IF w.before THEN After(n) + 5 ELSE After(n + 1)
  /\ w.before => n > 0
  /\ w.tries = IF w.before \/ n = 0 THEN 1 ELSE 2

(* The stages of the repeat after n edges.                                 *)
Between(w, t, c, n) == w = NoWait /\ t = After(n) /\ c = <<Left(n)>>
Asking(w, t, c, n)  == n < Asked /\ w = NoWait /\ t = After(n) /\ c = <<EdgeOf(ClockName), Left(n + 1)>>
InEdge(w, c, n)     == n < Asked /\ ForEdge(w, n) /\ c = <<Left(n + 1)>>
Over(w, t, c, n)    == n = Asked /\ w = NoWait /\ t = After(n) /\ c = <<>>
CountingAt(w, t, c, n) == Between(w, t, c, n) \/ Asking(w, t, c, n) \/ InEdge(w, c, n) \/ Over(w, t, c, n)
ResetIsOff == HasReset(Made) => \A m \in DrivenBy(ResetName) : values[m] = Zero
Counting == ResetIsOff /\ \E n \in 0..Asked : CountingAt(wait, time, todo, n)

Begun == clocks # <<>> /\ (InputsFree => ~late /\ Ticking /\ (Resetting \/ Counting))

AutoInv ==
  /\ stage \in {"start", "loaded"} => ~late
  /\ stage \in {"loaded", "running", "dumped"} => job = Made.job
  /\ stage \in {"running", "dumped", "done"} /\ AutoRuns =>
       \/ Quiet
       \/ /\ job = Made.job /\ IsClocked(Made)
          /\ \/ stage = "running" /\ Waiting
             \/ Begun /\ (stage # "running" => todo = <<>> /\ wait = NoWait)

-----------------------------------------------------------------------------
(* Numbers as words: nothing of 0 is left, however far it is shifted, and  *)
(* lane 0 has the lowest bit.                                              *)
LEMMA ShiftsRight ==
  /\ \A n : ShiftRight(n, 0) = n
  /\ \A k \in Nat : ShiftRight(0, k) = 0
<1> DEFINE body(n, k, f) == [i \in 0..k |-> IF i = 0 THEN n ELSE f[i - 1] \div 2]
           shifted(n, k) == CHOOSE f : f = body(n, k, f)
<1>1. \A n, k : ShiftRight(n, k) = shifted(n, k)[k]
  BY Zenon DEF ShiftRight
<1>2. ASSUME NEW n PROVE shifted(n, 0)[0] = n
  <2>1. [i \in 0..0 |-> n] = body(n, 0, [i \in 0..0 |-> n])
    OBVIOUS
  <2>2. shifted(n, 0) = body(n, 0, shifted(n, 0))
    <3> HIDE DEF body
    <3> QED
      BY <2>1, Zenon
  <2> HIDE DEF shifted
  <2>3. body(n, 0, shifted(n, 0))[0] = n
    OBVIOUS
  <2> QED
    BY <2>2, <2>3, Zenon
<1>3. ASSUME NEW k \in Nat PROVE shifted(0, k)[k] = 0
  <2> DEFINE zeros == [i \in 0..k |-> 0]
  <2>1. zeros = body(0, k, zeros)
    OBVIOUS
  <2>2. shifted(0, k) = body(0, k, shifted(0, k))
    <3> HIDE DEF body, zeros
    <3> QED
      BY <2>1, Zenon
  <2> DEFINE g == shifted(0, k)
             U == {i \in 0..k : g[i] = 0}
  <2>3. \A i \in 0..k : g[i] = IF i = 0 THEN 0 ELSE g[i - 1] \div 2
    <3> HIDE DEF shifted
    <3>1. g = [i \in 0..k |-> IF i = 0 THEN 0 ELSE g[i - 1] \div 2]
      BY <2>2, Zenon
    <3> HIDE DEF g
    <3> QED
      BY <3>1
  <2> HIDE DEF g
  <2>4. 0 \in U /\ \A i \in 0 .. k - 1 : i \in U => i + 1 \in U
    BY <2>3
  <2> HIDE DEF U
  <2>5. 0..k \subseteq U
    BY <2>4, IntervalBySets
  <2> QED
    BY <2>5 DEF U, g
<1> HIDE DEF shifted
<1> QED
  BY <1>1, <1>2, <1>3

(* A low net is 0 in every lane, and a high one is not.                    *)
LEMMA LevelsDiffer ==
  /\ ToWord(0) = Zero /\ LevelWord(FALSE) = Zero
  /\ LevelWord(TRUE) # Zero
<1>1. \A l \in Lanes : ShiftRight(0, l) % 2 # 1
  BY ShiftsRight, LanesAssumption
<1>2. ToWord(0) = {}
  BY <1>1 DEF ToWord
<1>3. 0 \in ToWord(1)
  BY ShiftsRight, LanesAssumption DEF ToWord
<1> QED
  BY <1>2, <1>3 DEF LevelWord, Bit, Zero

(* find_input() finds one of the names, so the clock is not the reset.     *)
LEMMA Found ==
  ASSUME NEW d, d.inputs \in Seq(STRING), NEW names, InputsNamed(d, names) # {}
  PROVE  FindInput(d, names) \in names
<1>1. InputsNamed(d, names) \subseteq Nat
  BY DEF InputsNamed
<1>2. First(InputsNamed(d, names)) \in InputsNamed(d, names)
  BY <1>1, FirstIsLeast
<1> QED
  BY <1>2 DEF FindInput, InputsNamed

(* The clock and the reset are different inputs.                           *)
LEMMA TwoNames ==
  ASSUME ToolInv, IsClocked(Made), HasReset(Made)
  PROVE  ClockName # ResetName
<1>1. argv \in CommandLines
  BY DEF ToolInv, Ended
<1>2. Made.inputs \in Seq(STRING)
  BY <1>1, LinesAssumption, JobsAssumption DEF Made
<1>3. ClockName \in ClockNames /\ ResetName \in ResetNames
  BY <1>2, Found DEF IsClocked, HasReset, ClockName, ResetName
<1> QED
  BY <1>3 DEF ClockNames, ResetNames

(* The nets of two names are different nets.                               *)
LEMMA TwoNets ==
  ASSUME IsJob(job), NEW a, NEW b, a # b
  PROVE  DrivenBy(a) \cap DrivenBy(b) = {}
<1>1. \A name : DrivenBy(name) = IF name \in DOMAIN job.ports THEN PortNets(job.ports[name]) ELSE {}
  BY DEF DrivenBy, Whole, Bits, PortNets, ToSet
<1>2. a \in DOMAIN job.ports /\ b \in DOMAIN job.ports \ {a} =>
        PortNets(job.ports[a]) \cap PortNets(job.ports[b]) = {}
  BY DEF IsJob
<1> QED
  BY <1>1, <1>2

(* What the command line and its design determine stays.                   *)
LEMMA SameNames ==
  ASSUME job' = job, argv' = argv
  PROVE  /\ Made' = Made /\ ClockName' = ClockName /\ ResetName' = ResetName /\ ClockNet' = ClockNet
         /\ (AutoRuns' <=> AutoRuns) /\ (InputsFree' <=> InputsFree)
         /\ Whole(ClockName)' = Whole(ClockName) /\ DrivenBy(ResetName)' = DrivenBy(ResetName)
         /\ Asked' = Asked /\ Start' = Start
         /\ \A n : After(n)' = After(n) /\ Left(n)' = Left(n) /\ ResetTodo(n)' = ResetTodo(n)
         /\ \A c : NoClock(c)' <=> NoClock(c)
<1>1. Made' = Made
  BY DEF Made
<1>2. ClockName' = ClockName /\ ResetName' = ResetName
  BY <1>1 DEF ClockName, ResetName
<1>3. \A name : Whole(name)' = Whole(name) /\ Bits(name)' = Bits(name)
  BY DEF Whole, Bits
<1>4. Whole(ClockName)' = Whole(ClockName) /\ Bits(ClockName)' = Bits(ClockName)
      /\ Whole(ResetName)' = Whole(ResetName) /\ Bits(ResetName)' = Bits(ResetName)
  BY <1>2 DEF Whole, Bits
<1>5. ClockNet' = ClockNet
  BY <1>4 DEF ClockNet, NetOf
<1>6. DrivenBy(ResetName)' = DrivenBy(ResetName) /\ DrivenBy(ClockName)' = DrivenBy(ClockName)
  BY <1>4 DEF DrivenBy
<1>7. InputsFree' <=> InputsFree
  BY <1>1, <1>6 DEF InputsFree, Undriven
<1>8. AutoRuns' <=> AutoRuns
  BY DEF AutoRuns
<1>9. Asked' = Asked /\ Start' = Start
  BY <1>1 DEF Asked, Start
<1>10. \A n : After(n)' = After(n) /\ Left(n)' = Left(n)
  BY <1>2, <1>9 DEF After, Left
<1>11. \A n : ResetTodo(n)' = ResetTodo(n)
  BY <1>2, <1>9 DEF ResetTodo, Left
<1>12. \A c : NoClock(c)' <=> NoClock(c)
  BY <1>2 DEF NoClock
<1> QED
  BY <1>1, <1>2, <1>4, <1>5, <1>6, <1>7, <1>8, <1>9, <1>10, <1>11, <1>12

(* What the executor does next, by the command.                            *)
LEMMA WhichStep ==
  ASSUME TbNext, wait = NoWait
  PROVE  /\ todo # <<>>
         /\ LET c == Head(todo) IN
            /\ c.type = "TRACE" => Unknown \/ Trace
            /\ c.type = "CLOCK" => (Unknown /\ Whole(c.name) = {}) \/ DeclareClock
            /\ c.type = "RESET" => Unknown \/ Ignored
            /\ c.type = "DRIVE" => (Unknown /\ ~Known(c.name)) \/ Drive
            /\ c.type = "WAIT_NS" => WaitNs
            /\ c.type = "WAIT_EDGE" => (Unknown /\ Whole(c.name) = {}) \/ WaitEdge
            /\ c.type = "REPEAT" => Repeat
<1> DEFINE c == Head(todo)
<1>1. ~Toggle /\ ~AdvanceReturns
  BY DEF Toggle, AdvanceReturns
<1>2. Unknown => /\ todo # <<>>
                 /\ \/ c.type = "TRACE" \/ (c.type = "DRIVE" /\ ~Known(c.name)) \/ c.type = "ASSERT"
                    \/ c.type = "RESET" \/ (c.type \in {"CLOCK", "WAIT_EDGE"} /\ Whole(c.name) = {})
  BY DEF Unknown
<1>3. Ignored => todo # <<>> /\ c.type \in {"TIMESCALE", "RESET"}
  BY DEF Ignored, Command
<1>4. DeclareClock => todo # <<>> /\ c.type = "CLOCK"
  BY DEF DeclareClock, Command
<1>5. Drive => todo # <<>> /\ c.type = "DRIVE"
  BY DEF Drive, Command
<1>6. CheckAssertion => todo # <<>> /\ c.type = "ASSERT"
  BY DEF CheckAssertion, Command
<1>7. Trace => todo # <<>> /\ c.type = "TRACE"
  BY DEF Trace, Command
<1>8. Repeat => todo # <<>> /\ c.type = "REPEAT"
  BY DEF Repeat, Command
<1>9. Stop => todo # <<>> /\ c.type = "STOP"
  BY DEF Stop, Command
<1>10. WaitNs => todo # <<>> /\ c.type = "WAIT_NS"
  BY DEF WaitNs, Command
<1>11. WaitEdge => todo # <<>> /\ c.type = "WAIT_EDGE"
  BY DEF WaitEdge, Command
<1> HIDE DEF c
<1>12. /\ todo # <<>>
       /\ c.type = "TRACE" => Unknown \/ Trace
       /\ c.type = "CLOCK" => (Unknown /\ Whole(c.name) = {}) \/ DeclareClock
       /\ c.type = "RESET" => Unknown \/ Ignored
       /\ c.type = "DRIVE" => (Unknown /\ ~Known(c.name)) \/ Drive
       /\ c.type = "WAIT_NS" => WaitNs
       /\ c.type = "WAIT_EDGE" => (Unknown /\ Whole(c.name) = {}) \/ WaitEdge
       /\ c.type = "REPEAT" => Repeat
  BY <1>1, <1>2, <1>3, <1>4, <1>5, <1>6, <1>7, <1>8, <1>9, <1>10, <1>11, SMT DEF TbNext
<1> QED
  BY <1>12 DEF c

(* The clock of the automatic testbench.                                   *)
LEMMA ClockMade ==
  ASSUME NEW name
  PROVE  NewClock(ClockOf(name)) =
           [net |-> NetOf(name), low |-> 5, high |-> 5, level |-> 0, toggle |-> 5, init |-> 0]
BY DEF NewClock, ClockOf, AtLeastOne

(* It is low for the first half of each 10 ns, and then high.              *)
LEMMA TickTock ==
  ASSUME NEW c \in Clock, c.low = 5, c.high = 5, c.init = 0, NEW n \in Nat, NEW t \in Nat,
         InPhase(c, n, t), t < c.toggle
  PROVE  IF c.level = 1 THEN c.toggle = 10 * n /\ 10 * n <= t + 5
         ELSE c.level = 0 /\ c.toggle = 10 * n + 5 /\ 10 * n <= t
<1>1. c.level \in {0, 1} /\ c.toggle \in Nat
  BY DEF Clock
<1> QED
  BY <1>1 DEF InPhase, Period, FirstRise

(* One clock alone decides what toggles next.                              *)
LEMMA OneClock ==
  ASSUME Typed, Len(clocks) = 1
  PROVE  /\ clocks[1] \in Clock /\ clocks # <<>>
         /\ NextToggle = clocks[1].toggle
         /\ TogglesOn(clocks[1].net) = {clocks[1].toggle}
         /\ First(TogglesOn(clocks[1].net)) = clocks[1].toggle
<1>1. clocks \in Seq(Clock) /\ clocks[1] \in Clock /\ clocks # <<>>
  <2>1. clocks \in Seq(Clock) /\ 1 \in 1..Len(clocks)
    BY DEF Typed
  <2>2. clocks[1] \in Clock
    BY <2>1
  <2>3. clocks # <<>>
    BY <2>1
  <2> QED
    BY <2>1, <2>2, <2>3
<1>2. NextToggle = clocks[1].toggle
  BY <1>1, NextToggleIsFirst
<1>3. { j \in 1..Len(clocks) : clocks[j].net = clocks[1].net } = {1}
  OBVIOUS
<1>4. TogglesOn(clocks[1].net) = {clocks[1].toggle}
  BY <1>3 DEF TogglesOn
<1>5. clocks[1].toggle \in Nat
  BY <1>1 DEF Clock
<1>6. First(TogglesOn(clocks[1].net)) \in {clocks[1].toggle}
  BY <1>4, <1>5, FirstIsLeast
<1> QED
  BY <1>1, <1>2, <1>4, <1>6

(* A net no gate and no register drives is written by the clocks only.     *)
LEMMA FreeNet ==
  ASSUME ExecInv, NEW n \in NetsOf(job),
         n \notin LutOutputs(job.design.luts) \cup FfOutputs(job.design.ffs)
  PROVE  /\ Toggle => values'[n] = ClockWrites(NextToggle)[n]
         /\ AdvanceReturns => values'[n] = values[n]
<1> DEFINE D == NetsOf(job)
           t == NextToggle
           settled == PassValues(job.design, ClockWrites(t))
           again   == PassValues(job.design, settled)
           edged   == EdgeValues(job.design, again)
           cycled  == PassValues(job.design, edged)
<1>1. Typed /\ Tracing
  BY DEF ExecInv
<1>2. /\ Len(job.design.luts) \in Nat /\ Len(job.design.ffs) \in Nat
      /\ \A k \in 1 .. Len(job.design.ffs) : job.design.ffs[k].d \in D
  BY <1>1, SMTT(30) DEF Typed, IsJob, IsConfig
<1>3. ASSUME Toggle PROVE values'[n] = ClockWrites(t)[n]
  <2>1. clocks # <<>>
    BY <1>3 DEF Toggle, TogglePending
  <2>2. t \in Nat
    BY <1>1, <2>1, NextToggleIsFirst
  <2>3. ClockWrites(t) \in WordsOver(D)
    BY <1>1, <2>2, ClockWritesKeep
  <2>4. values' = cycled \/ values' = settled
    BY <1>3, Zenon DEF Toggle
  <2> HIDE DEF D, t
  <2>5. settled \in WordsOver(D) /\ settled[n] = ClockWrites(t)[n]
    BY <1>2, <2>3, PassKeeps DEF D
  <2> HIDE DEF settled
  <2>6. again \in WordsOver(D) /\ again[n] = settled[n]
    BY <1>2, <2>5, PassKeeps DEF D
  <2> HIDE DEF again
  <2>7. edged \in WordsOver(D) /\ edged[n] = again[n]
    BY <1>2, <2>6, EdgeKeeps DEF D
  <2> HIDE DEF edged
  <2>8. cycled[n] = edged[n]
    BY <1>2, <2>7, PassKeeps DEF D
  <2> QED
    BY <2>4, <2>5, <2>6, <2>7, <2>8
<1>4. ASSUME AdvanceReturns PROVE values'[n] = values[n]
  <2>1. Settle(values, time') /\ time' = wait.target /\ wait # NoWait
    BY <1>4 DEF AdvanceReturns
  <2>2. time' \in Nat /\ values \in WordsOver(D)
    BY <1>1, <2>1 DEF Typed, Waits
  <2> QED
    BY <1>1, <2>1, <2>2, SettleKeeps
<1> QED
  BY <1>3, <1>4

(* So are the clock and the reset of the automatic testbench.              *)
LEMMA FreeInputs ==
  ASSUME IsJob(job), InputsFree
  PROVE  /\ Whole(ClockName) # {} =>
              /\ ClockNet \in NetsOf(job) /\ ClockNet \in DrivenBy(ClockName)
              /\ ClockNet \notin LutOutputs(job.design.luts) \cup FfOutputs(job.design.ffs)
         /\ HasReset(Made) => \A m \in DrivenBy(ResetName) :
              /\ m \in NetsOf(job)
              /\ m \notin LutOutputs(job.design.luts) \cup FfOutputs(job.design.ffs)
<1>1. \A name : DrivenBy(name) \subseteq NetsOf(job)
  <2> SUFFICES ASSUME NEW name PROVE DrivenBy(name) \subseteq NetsOf(job)
    OBVIOUS
  <2>1. Whole(name) \subseteq NetsOf(job) /\ Bits(name) \in Seq(NetsOf(job))
    BY NetsOfNames
  <2> QED
    BY <2>1 DEF DrivenBy, ToSet
<1>2. Whole(ClockName) # {} => ClockNet \in DrivenBy(ClockName)
  BY NetsOfNames DEF ClockNet, DrivenBy
<1> QED
  BY <1>1, <1>2 DEF InputsFree, Undriven

(* What the parts of the invariant say of the state after a step.          *)
LEMMA TickingIs ==
  ASSUME job' = job, argv' = argv
  PROVE  Ticking' <=> /\ Len(clocks') = 1 /\ clocks'[1].net = ClockNet /\ Whole(ClockName) # {}
                      /\ clocks'[1].low = 5 /\ clocks'[1].high = 5 /\ clocks'[1].init = 0
                      /\ values'[ClockNet] = LevelWord(clocks'[1].level = 1)
<1>1. Ticking' <=> /\ Len(clocks') = 1 /\ clocks'[1].net = ClockNet' /\ Whole(ClockName)' # {}
                   /\ clocks'[1].low = 5 /\ clocks'[1].high = 5 /\ clocks'[1].init = 0
                   /\ values'[ClockNet'] = LevelWord(clocks'[1].level = 1)
  BY DEF Ticking, ClockNet, LevelWord, ToWord, ShiftRight
<1> QED
  BY <1>1, SameNames

(* Without a clock: what is left to do says whether one comes.             *)
LEMMA QuietIs ==
  ASSUME job' = job, argv' = argv
  PROVE  Quiet' <=> clocks' = <<>> /\ \A i \in 1..Len(todo') : NoClock(todo'[i])
<1>1. Quiet' <=> clocks' = <<>> /\ \A i \in 1..Len(todo') : NoClock(todo[i])'
  BY DEF Quiet
<1> QED
  BY <1>1, SameNames DEF NoClock

(* The stages of the reset and of the repeat.                              *)
LEMMA StagesAre ==
  ASSUME job' = job, argv' = argv
  PROVE  /\ Resetting' <=> ResettingAt(wait', time', todo')
         /\ ResetIsOff' <=> (HasReset(Made) => \A m \in DrivenBy(ResetName) : values'[m] = Zero)
         /\ Counting' <=> ResetIsOff' /\ \E n \in 0..Asked : CountingAt(wait', time', todo', n)
<1>1. /\ Made' = Made /\ Asked' = Asked /\ DrivenBy(ResetName)' = DrivenBy(ResetName) /\ ClockName' = ClockName
      /\ ClockNet' = ClockNet
      /\ \A n : After(n)' = After(n) /\ Left(n)' = Left(n) /\ ResetTodo(n)' = ResetTodo(n)
  BY SameNames
<1>2. HasReset(Made)' <=> HasReset(Made)
  BY <1>1 DEF HasReset, InputsNamed, ResetNames
<1>3. Resetting' <=> ResettingAt(wait', time', todo')
  <2>1. Resetting' <=>
          /\ HasReset(Made)'
          /\ \/ \E k \in 1..3 : wait' = NoWait /\ time' = 0 /\ todo' = ResetTodo(k)'
             \/ wait' = [kind |-> "ns", target |-> 20] /\ todo' = ResetTodo(4)'
             \/ wait' = NoWait /\ time' = 20 /\ todo' = ResetTodo(4)'
    BY Zenon DEF Resetting, ResettingAt, NoWait
  <2> QED
    BY <1>1, <1>2, <2>1 DEF ResettingAt
<1>4. ResetIsOff' <=> (HasReset(Made) => \A m \in DrivenBy(ResetName) : values'[m] = Zero)
  <2>1. ResetIsOff' <=> (HasReset(Made)' => \A m \in DrivenBy(ResetName)' : values'[m] = Zero)
    BY Zenon DEF ResetIsOff, Zero
  <2> QED
    BY <1>1, <1>2, <2>1
<1>5. ASSUME NEW n
      PROVE  CountingAt(wait, time, todo, n)' <=> CountingAt(wait', time', todo', n)
  <2>1. InEdge(wait, todo, n)' <=>
          /\ n < Asked' /\ todo' = <<Left(n + 1)'>>
          /\ wait' # NoWait /\ wait'.kind = "edge" /\ wait'.net = ClockNet' /\ wait'.rising
          /\ wait'.target = IF wait'.before THEN After(n)' + 5 ELSE After(n + 1)'
          /\ wait'.before => n > 0
          /\ wait'.tries = IF wait'.before \/ n = 0 THEN 1 ELSE 2
    BY Zenon DEF InEdge, ForEdge, NoWait
  <2>2. InEdge(wait, todo, n)' <=> InEdge(wait', todo', n)
    BY <1>1, <2>1 DEF InEdge, ForEdge
  <2>3. /\ Between(wait, time, todo, n)' <=> wait' = NoWait /\ time' = After(n)' /\ todo' = <<Left(n)'>>
        /\ Asking(wait, time, todo, n)' <=>
             n < Asked' /\ wait' = NoWait /\ time' = After(n)' /\ todo' = <<EdgeOf(ClockName'), Left(n + 1)'>>
        /\ Over(wait, time, todo, n)' <=> n = Asked' /\ wait' = NoWait /\ time' = After(n)' /\ todo' = <<>>
    BY Zenon DEF Between, Asking, Over, NoWait, EdgeOf
  <2> QED
    BY <1>1, <2>2, <2>3 DEF CountingAt, Between, Asking, Over
<1>6. Counting' <=> ResetIsOff' /\ \E n \in 0..Asked' : CountingAt(wait, time, todo, n)'
  BY Zenon DEF Counting
<1> QED
  BY <1>1, <1>3, <1>4, <1>5, <1>6

(* The commands that follow the traces stay the same.                      *)
LEMMA WaitingIs ==
  ASSUME job' = job, argv' = argv
  PROVE  /\ IsClocked(Made)' <=> IsClocked(Made)
         /\ Waiting' <=> /\ clocks' = <<>> /\ wait' = NoWait /\ time' = 0 /\ ~late'
                         /\ IsClocked(Made)
                         /\ \E s \in Seq(Traces) : todo' = s \o CyclesOf(Made, argv.cycles)
<1> DEFINE C == CyclesOf(Made, argv.cycles)
<1>1. Made' = Made
  BY SameNames
<1>2. C' = CyclesOf(Made', argv'.cycles)
  BY DEF CyclesOf, ClockOf, EdgesOf, EdgeOf, CyclesAsked, HasReset, InputsNamed, FindInput, First, ResetPulse,
         ClockNames, ResetNames
<1>3. C' = C
  BY <1>1, <1>2
<1>4. IsClocked(Made)' <=> IsClocked(Made)
  BY <1>1 DEF IsClocked, InputsNamed, ClockNames
<1>5. Waiting' <=> /\ clocks' = <<>> /\ wait' = NoWait /\ time' = 0 /\ ~late' /\ IsClocked(Made)'
                   /\ \E s \in Seq(Traces) : todo' = s \o C'
  BY Zenon DEF Waiting, Traces, NoWait
<1> HIDE DEF C
<1> QED
  BY <1>3, <1>4, <1>5 DEF C

(* What keeps the values and the clocks keeps the clock ticking.           *)
LEMMA TickingSame ==
  ASSUME Ticking, job' = job, argv' = argv, clocks' = clocks, values'[ClockNet] = values[ClockNet]
  PROVE  Ticking'
<1>1. Ticking' <=> /\ Len(clocks') = 1 /\ clocks'[1].net = ClockNet' /\ Whole(ClockName)' # {}
                   /\ clocks'[1].low = 5 /\ clocks'[1].high = 5 /\ clocks'[1].init = 0
                   /\ values'[ClockNet'] = LevelWord(clocks'[1].level = 1)
  BY DEF Ticking, ClockNet, LevelWord, ToWord, ShiftRight
<1> QED
  BY <1>1, SameNames DEF Ticking

(* The executor keeps it ticking until another clock is declared or the    *)
(* design or a drive reaches its net.                                      *)
LEMMA TickingKeeps ==
  ASSUME ExecInv, Ticking, InputsFree, IsClocked(Made), TbNext, argv' = argv, ~DeclareClock,
         Drive => ClockNet \notin DrivenBy(Head(todo).name)
  PROVE  Ticking'
<1>1. Typed /\ Tracing /\ IsJob(job) /\ Len(clocks) = 1 /\ Whole(ClockName) # {} /\ clocks[1].net = ClockNet
  BY DEF ExecInv, Typed, Ticking
<1>2. job' = job
  BY DEF TbNext, Unknown, Ignored, DeclareClock, Drive, CheckAssertion, Trace, Repeat, Stop, WaitNs, WaitEdge,
         Toggle, AdvanceReturns
<1>3. /\ ClockNet \in NetsOf(job)
      /\ ClockNet \notin LutOutputs(job.design.luts) \cup FfOutputs(job.design.ffs)
  BY <1>1, FreeInputs
<1>4. CASE Unknown \/ Ignored \/ CheckAssertion \/ Trace \/ Repeat \/ Stop \/ WaitNs \/ WaitEdge
  <2>1. values' = values
    BY <1>4, StepsThatKeepValues
  <2>2. clocks' = clocks
    BY <1>4 DEF Unknown, Ignored, CheckAssertion, Trace, Repeat, Stop, WaitNs, WaitEdge
  <2> QED
    BY <1>2, <2>1, <2>2, TickingSame
<1>5. CASE Drive
  <2>1. clocks' = clocks /\ Settle(Written(Head(todo).name, Head(todo).value), time) /\ time \in Nat
    BY <1>1, <1>5 DEF Drive, Typed
  <2> DEFINE w == Written(Head(todo).name, Head(todo).value)
  <2>2. w \in WordsOver(NetsOf(job)) /\ w[ClockNet] = values[ClockNet]
    BY <1>1, <1>3, <1>5, WrittenKeeps
  <2> HIDE DEF w
  <2>3. values'[ClockNet] = w[ClockNet]
    BY <1>1, <1>3, <2>1, <2>2, SettleKeeps DEF w
  <2> QED
    BY <1>2, <2>1, <2>2, <2>3, TickingSame
<1>6. CASE AdvanceReturns
  <2>1. clocks' = clocks
    BY <1>6 DEF AdvanceReturns
  <2>2. values'[ClockNet] = values[ClockNet]
    BY <1>3, <1>6, FreeNet
  <2> QED
    BY <1>2, <2>1, <2>2, TickingSame
<1>7. CASE Toggle
  <2> DEFINE t == NextToggle
  <2>1. t \in Nat /\ clocks[1].toggle = t /\ clocks \in Seq(Clock)
    <3>1. NextToggle = clocks[1].toggle /\ clocks[1] \in Clock
      BY <1>1, OneClock
    <3> QED
      BY <1>1, <3>1 DEF Clock, Typed
  <2>2. clocks' = ClocksAfter(t)
    BY <1>7, Zenon DEF Toggle
  <2>3. values'[ClockNet] = ClockWrites(t)[ClockNet]
    BY <1>3, <1>7, FreeNet
  <2> HIDE DEF t
  <2>4. ClockWrites(t)[ClockNet] = LevelWord(ClocksAfter(t)[1].level = 1)
    BY <1>1, <1>3, <2>1, ClockWritesKeep
  <2>5. /\ Len(ClocksAfter(t)) = 1
        /\ LET d == ClocksAfter(t)[1] IN
           d.net = ClockNet /\ d.low = 5 /\ d.high = 5 /\ d.init = 0
    <3>1. 1 \in 1..Len(clocks)
      BY <1>1
    <3> QED
      BY <1>1, <2>1, <3>1, ClocksAfterAre DEF Ticking
  <2>6. /\ Len(clocks') = 1 /\ clocks'[1].net = ClockNet
        /\ clocks'[1].low = 5 /\ clocks'[1].high = 5 /\ clocks'[1].init = 0
        /\ values'[ClockNet] = LevelWord(clocks'[1].level = 1)
    BY <2>2, <2>3, <2>4, <2>5
  <2>7. Ticking' <=> /\ Len(clocks') = 1 /\ clocks'[1].net = ClockNet' /\ Whole(ClockName)' # {}
                     /\ clocks'[1].low = 5 /\ clocks'[1].high = 5 /\ clocks'[1].init = 0
                     /\ values'[ClockNet'] = LevelWord(clocks'[1].level = 1)
    BY DEF Ticking, ClockNet, LevelWord, ToWord, ShiftRight
  <2> QED
    BY <1>1, <1>2, <2>6, <2>7, SameNames
<1> QED
  BY <1>4, <1>5, <1>6, <1>7 DEF TbNext

(* A reset that is off stays off while nothing is driven.                  *)
LEMMA ResetStaysOff ==
  ASSUME ExecInv, Ticking, InputsFree, IsClocked(Made), ToolInv, TbNext, argv' = argv, ResetIsOff,
         ~DeclareClock, ~Drive
  PROVE  ResetIsOff'
<1> SUFFICES ASSUME HasReset(Made), NEW m \in DrivenBy(ResetName) PROVE values'[m] = Zero
  <2>1. job' = job
    BY DEF TbNext, Unknown, Ignored, DeclareClock, Drive, CheckAssertion, Trace, Repeat, Stop, WaitNs, WaitEdge,
           Toggle, AdvanceReturns
  <2>2. Made' = Made /\ DrivenBy(ResetName)' = DrivenBy(ResetName)
    BY <2>1, SameNames
  <2>3. ResetIsOff' <=> (HasReset(Made') => \A m \in DrivenBy(ResetName)' : values'[m] = Zero)
    BY DEF ResetIsOff, HasReset, InputsNamed, Zero
  <2> QED
    BY <2>2, <2>3
<1>1. Typed /\ IsJob(job) /\ values[m] = Zero /\ Len(clocks) = 1 /\ Whole(ClockName) # {} /\ clocks[1].net = ClockNet
  BY DEF ExecInv, Typed, ResetIsOff, Ticking
<1>2. m \in NetsOf(job) /\ m \notin LutOutputs(job.design.luts) \cup FfOutputs(job.design.ffs)
  BY <1>1, FreeInputs
<1>3. CASE Unknown \/ Ignored \/ CheckAssertion \/ Trace \/ Repeat \/ Stop \/ WaitNs \/ WaitEdge
  BY <1>1, <1>3, StepsThatKeepValues
<1>4. CASE AdvanceReturns
  BY <1>1, <1>2, <1>4, FreeNet
<1>5. CASE Toggle
  <2>1. values'[m] = ClockWrites(NextToggle)[m]
    BY <1>2, <1>5, FreeNet
  <2>2. ClockNet \in DrivenBy(ClockName)
    BY <1>1, FreeInputs
  <2>3. m # ClockNet
    BY <1>1, <2>2, TwoNames, TwoNets
  <2>4. m \notin ClockNets
    BY <1>1, <2>3 DEF ClockNets
  <2>5. NextToggle \in Nat
    BY <1>1, OneClock DEF Clock
  <2> QED
    BY <1>1, <1>2, <2>1, <2>4, <2>5, ClockWritesKeep
<1> QED
  BY <1>3, <1>4, <1>5 DEF TbNext

-----------------------------------------------------------------------------
(* The stages of the automatic testbench *)

(* Without a clock, and none to come, no clock comes.                      *)
LEMMA QuietKeeps ==
  ASSUME Typed, Quiet, TbNext, argv' = argv
  PROVE  Quiet'
<1>1. todo \in Seq(Statements) /\ clocks = <<>> /\ \A i \in 1..Len(todo) : NoClock(todo[i])
  BY DEF Typed, Quiet
<1>2. todo # <<>> => /\ Tail(todo) \in Seq(Statements) /\ NoClock(Head(todo))
                     /\ \A i \in 1..Len(Tail(todo)) : NoClock(Tail(todo)[i])
  <2> SUFFICES ASSUME todo # <<>>
               PROVE  /\ Tail(todo) \in Seq(Statements) /\ NoClock(Head(todo))
                      /\ \A i \in 1..Len(Tail(todo)) : NoClock(Tail(todo)[i])
    OBVIOUS
  <2>1. /\ Tail(todo) \in Seq(Statements) /\ Head(todo) = todo[1] /\ 1 \in 1..Len(todo)
        /\ \A i \in 1..Len(Tail(todo)) : Tail(todo)[i] = todo[i + 1] /\ i + 1 \in 1..Len(todo)
    BY <1>1
  <2> QED
    BY <1>1, <2>1
<1>3. job' = job /\ ~DeclareClock => clocks' = <<>>
  <2>1. Toggle \/ AdvanceReturns => ~Toggle /\ clocks' = clocks
    BY <1>1 DEF Toggle, TogglePending, AdvanceReturns
  <2>2. Unknown \/ Ignored \/ Drive \/ CheckAssertion \/ Trace \/ Repeat \/ Stop \/ WaitNs \/ WaitEdge => clocks' = clocks
    BY DEF Unknown, Ignored, Drive, CheckAssertion, Trace, Repeat, Stop, WaitNs, WaitEdge
  <2> QED
    BY <1>1, <2>1, <2>2 DEF TbNext
<1>4. job' = job
  BY DEF TbNext, Unknown, Ignored, DeclareClock, Drive, CheckAssertion, Trace, Repeat, Stop, WaitNs, WaitEdge,
         Toggle, AdvanceReturns
<1>5. NoClock(Head(todo)) => Head(todo).type # "CLOCK"
  BY DEF NoClock, EdgesOf
<1>6. ~DeclareClock
  BY <1>2, <1>5 DEF DeclareClock, Command
<1>7. \A i \in 1..Len(todo') : NoClock(todo'[i])
  <2>1. CASE Unknown \/ Ignored \/ Drive \/ CheckAssertion \/ Trace \/ WaitNs \/ WaitEdge
    <3>1. todo # <<>> /\ todo' = Tail(todo)
      BY <2>1 DEF Unknown, Ignored, Drive, CheckAssertion, Trace, WaitNs, WaitEdge, Command
    <3> QED
      BY <1>2, <3>1
  <2>2. CASE Toggle \/ AdvanceReturns
    BY <1>1, <2>2 DEF Toggle, AdvanceReturns
  <2>3. CASE Stop
    BY <2>3 DEF Stop
  <2>4. CASE Repeat
    <3> DEFINE c == Head(todo)
    <3>1. /\ todo # <<>> /\ c.type = "REPEAT"
          /\ todo' = IF c.value = 0 THEN Tail(todo)
                     ELSE c.block \o <<[c EXCEPT !.value = @ - 1]>> \o Tail(todo)
      BY <2>4 DEF Repeat, Command
    <3>2. PICK k \in Nat : c = EdgesOf(ClockName, k)
      BY <1>2, <3>1 DEF NoClock
    <3>3. c.value = k /\ c.block = <<EdgeOf(ClockName)>> /\ [c EXCEPT !.value = @ - 1] = EdgesOf(ClockName, k - 1)
      BY <3>2 DEF EdgesOf
    <3> HIDE DEF c
    <3>4. CASE k = 0
      BY <1>2, <3>1, <3>3, <3>4
    <3>5. CASE k # 0
      <4> DEFINE e == EdgeOf(ClockName)
                 r == EdgesOf(ClockName, k - 1)
      <4>1. todo' = <<e>> \o <<r>> \o Tail(todo)
        BY <3>1, <3>3, <3>5
      <4>2. NoClock(e)
        BY DEF NoClock, EdgeOf
      <4>3. NoClock(r)
        <5>1. k - 1 \in Nat
          BY <3>5
        <5> QED
          BY <5>1 DEF NoClock
      <4> HIDE DEF e, r
      <4>4. Tail(todo) \in Seq(Statements) /\ \A i \in 1..Len(Tail(todo)) : NoClock(Tail(todo)[i])
        BY <1>2, <3>1
      <4> DEFINE s == Tail(todo)
      <4> HIDE DEF s
      <4>5. \A i \in 1 .. Len(<<e>> \o <<r>> \o s) :
              (<<e>> \o <<r>> \o s)[i] \in {e, r} \/ \E j \in 1..Len(s) : (<<e>> \o <<r>> \o s)[i] = s[j]
        <5>1. s \in Seq(Statements)
          BY <4>4 DEF s
        <5>2. /\ Len(<<e>> \o <<r>> \o s) = Len(s) + 2 /\ Len(s) \in Nat
              /\ (<<e>> \o <<r>> \o s)[1] = e /\ (<<e>> \o <<r>> \o s)[2] = r
              /\ \A j \in 1..Len(s) : (<<e>> \o <<r>> \o s)[j + 2] = s[j]
          BY <5>1
        <5>3. ASSUME NEW i \in 1 .. Len(s) + 2 PROVE i = 1 \/ i = 2 \/ (i - 2 \in 1..Len(s) /\ (i - 2) + 2 = i)
          BY <5>2
        <5> QED
          BY <5>2, <5>3
      <4> QED
        BY <4>1, <4>2, <4>3, <4>4, <4>5 DEF s
    <3> QED
      BY <3>4, <3>5
  <2> QED
    BY <1>6, <2>1, <2>2, <2>3, <2>4 DEF TbNext
<1>8. \A c : NoClock(c)' <=> NoClock(c)
  BY <1>4, SameNames
<1>9. Quiet' <=> clocks' = <<>> /\ \A i \in 1..Len(todo') : NoClock(todo'[i])
  <2>1. Quiet' <=> clocks' = <<>> /\ \A i \in 1..Len(todo') : NoClock(todo[i])'
    BY DEF Quiet
  <2> QED
    BY <1>4, <2>1, SameNames DEF NoClock
<1> QED
  BY <1>3, <1>4, <1>6, <1>7, <1>9

(* What follows the head of a sequence.                                    *)
LEMMA TailOf ==
  ASSUME NEW T, NEW q \in Seq(T), q # <<>>
  PROVE  Tail(q) = [i \in 1 .. Len(q) - 1 |-> q[i + 1]]
<1> DEFINE w == Tail(q)
<1>1. w \in Seq(T) /\ Len(w) = Len(q) - 1 /\ \A i \in 1 .. Len(q) - 1 : w[i] = q[i + 1]
  OBVIOUS
<1> HIDE DEF w
<1>2. w = [i \in 1..Len(w) |-> w[i]]
  BY <1>1
<1> QED
  BY <1>1, <1>2 DEF w

(* The commands of the reset, one after the other.                         *)
LEMMA ResetTodoIs ==
  ASSUME NEW k \in 1..4
  PROVE  /\ ResetTodo(k) # <<>>
         /\ Head(ResetTodo(k)) = ResetPulse(ResetName)[k]
         /\ Tail(ResetTodo(k)) = IF k = 4 THEN <<Left(0)>> ELSE ResetTodo(k + 1)
<1> DEFINE r == ResetTodo(k)
           f == [i \in 1 .. 6 - k |-> IF i = 6 - k THEN Left(0) ELSE ResetPulse(ResetName)[i + k - 1]]
<1>1. r = f
  BY DEF ResetTodo
<1>2. /\ Len(f) = 6 - k /\ f \in Seq({Left(0)} \cup { ResetPulse(ResetName)[i] : i \in 1..4 })
  OBVIOUS
<1>3. f # <<>> /\ Head(f) = ResetPulse(ResetName)[k]
  <2>1. f # <<>> /\ Head(f) = f[1]
    BY <1>2
  <2>2. 1 \in 1 .. 6 - k /\ 1 # 6 - k /\ 1 + k - 1 = k
    OBVIOUS
  <2> QED
    BY <2>1, <2>2
<1>4. Tail(f) = [i \in 1 .. 5 - k |-> f[i + 1]]
  <2> HIDE DEF f
  <2>1. Tail(f) = [i \in 1 .. Len(f) - 1 |-> f[i + 1]]
    BY <1>2, <1>3, TailOf
  <2>2. Len(f) - 1 = 5 - k
    BY <1>2
  <2> QED
    BY <2>1, <2>2, Zenon
<1>5. \A i \in 1 .. 5 - k : f[i + 1] = IF i = 5 - k THEN Left(0) ELSE ResetPulse(ResetName)[i + k]
  OBVIOUS
<1> HIDE DEF f
<1>6. CASE k = 4
  <2>1. Tail(f) = [i \in 1..1 |-> Left(0)]
    BY <1>4, <1>5, <1>6
  <2> QED
    BY <1>1, <1>3, <1>6, <2>1
<1>7. CASE k # 4
  <2>1. ResetTodo(k + 1) = [i \in 1 .. 5 - k |-> IF i = 5 - k THEN Left(0) ELSE ResetPulse(ResetName)[i + k]]
    <3>1. 6 - (k + 1) = 5 - k /\ \A i \in 1 .. 5 - k : i + (k + 1) - 1 = i + k
      OBVIOUS
    <3> QED
      BY <3>1 DEF ResetTodo
  <2>2. Tail(f) = ResetTodo(k + 1)
    BY <1>4, <1>5, <2>1
  <2> QED
    BY <1>1, <1>3, <1>7, <2>2
<1> QED
  BY <1>6, <1>7

(* A sequence between two elements: its head and its tail.                 *)
LEMMA Around ==
  ASSUME NEW T, NEW a \in T, NEW b \in T, NEW p \in Seq(T)
  PROVE  LET q == <<a>> \o p \o <<b>> IN
         /\ q \in Seq(T) /\ q # <<>> /\ Len(q) = Len(p) + 2
         /\ Head(q) = a
         /\ Tail(q) = [i \in 1 .. Len(p) + 1 |-> IF i = Len(p) + 1 THEN b ELSE p[i]]
<1> DEFINE r == <<a>> \o p
           q == r \o <<b>>
           n == Len(p)
<1>1. <<a>> \in Seq(T) /\ Len(<<a>>) = 1 /\ <<a>>[1] = a /\ <<b>> \in Seq(T) /\ Len(<<b>>) = 1 /\ <<b>>[1] = b
      /\ n \in Nat
  OBVIOUS
<1>2. r \in Seq(T) /\ Len(r) = n + 1 /\ r[1] = a /\ \A i \in 1..n : r[i + 1] = p[i]
  BY <1>1
<1> HIDE DEF r
<1>3. q \in Seq(T) /\ Len(q) = n + 2 /\ (\A i \in 1 .. n + 1 : q[i] = r[i]) /\ q[n + 2] = b
  BY <1>1, <1>2
<1> HIDE DEF q, n
<1>4. q # <<>> /\ Head(q) = q[1] /\ Tail(q) = [i \in 1 .. n + 1 |-> q[i + 1]]
  <2>1. Len(q) - 1 = n + 1 /\ Len(q) # 0
    BY <1>1, <1>3
  <2>2. q # <<>>
    BY <1>3, <2>1
  <2>3. Tail(q) = [i \in 1 .. Len(q) - 1 |-> q[i + 1]]
    BY <1>3, <2>2, TailOf
  <2> QED
    BY <1>3, <2>1, <2>2, <2>3
<1>5. q[1] = a
  BY <1>1, <1>2, <1>3
<1>6. \A i \in 1 .. n + 1 : q[i + 1] = IF i = n + 1 THEN b ELSE p[i]
  BY <1>1, <1>2, <1>3
<1> QED
  BY <1>3, <1>4, <1>5, <1>6 DEF q, r, n

(* The commands for a clocked design: its clock, the reset, the repeat.    *)
LEMMA CyclesOfMade ==
  ASSUME Asked \in Nat
  PROVE  LET C == CyclesOf(Made, argv.cycles) IN
         /\ C # <<>> /\ \E T : C \in Seq(T)
         /\ Head(C) = ClockOf(ClockName)
         /\ Tail(C) = IF HasReset(Made) THEN ResetTodo(1) ELSE <<Left(0)>>
<1> DEFINE C == CyclesOf(Made, argv.cycles)
           c == ClockOf(ClockName)
           p == ResetPulse(ResetName)
           T == {c, Left(0), p[1], p[2], p[3], p[4]}
<1>1. Left(0) = EdgesOf(ClockName, CyclesAsked(argv.cycles))
  <2>1. Asked - 0 = Asked
    OBVIOUS
  <2> QED
    BY <2>1 DEF Left, Asked
<1>2. C = <<c>> \o (IF HasReset(Made) THEN p ELSE <<>>) \o <<Left(0)>>
  BY <1>1 DEF CyclesOf, ClockName, ResetName
<1>3. Len(p) = 4 /\ p \in Seq(T)
  <2>1. p = <<p[1], p[2], p[3], p[4]>>
    BY DEF ResetPulse
  <2> HIDE DEF p, c
  <2>2. <<p[1], p[2], p[3], p[4]>> \in Seq(T) /\ Len(<<p[1], p[2], p[3], p[4]>>) = 4
    OBVIOUS
  <2> QED
    BY <2>1, <2>2
<1> HIDE DEF C, c, p
<1> DEFINE m == IF HasReset(Made) THEN p ELSE <<>>
<1>4. m \in Seq(T) /\ c \in T /\ Left(0) \in T /\ C = <<c>> \o m \o <<Left(0)>>
  BY <1>2, <1>3
<1> HIDE DEF T
<1>5. /\ C \in Seq(T) /\ C # <<>> /\ Head(C) = c
      /\ Tail(C) = [i \in 1 .. Len(m) + 1 |-> IF i = Len(m) + 1 THEN Left(0) ELSE m[i]]
  <2> HIDE DEF m
  <2> QED
    BY <1>4, Around
<1>6. CASE HasReset(Made)
  <2>1. Tail(C) = [i \in 1..5 |-> IF i = 5 THEN Left(0) ELSE p[i]]
    <3>1. m = p
      BY <1>6
    <3> HIDE DEF m
    <3>2. Len(m) = Len(p)
      BY <3>1, Zenon
    <3>3. Len(m) + 1 = 5
      BY <1>3, <3>2
    <3> QED
      BY <1>5, <3>1, <3>3
  <2>2. ResetTodo(1) = [i \in 1..5 |-> IF i = 5 THEN Left(0) ELSE p[i]]
    <3>1. 6 - 1 = 5 /\ \A i \in 1..5 : i + 1 - 1 = i
      OBVIOUS
    <3> QED
      BY <3>1 DEF ResetTodo, p
  <2> QED
    BY <1>5, <1>6, <2>1, <2>2 DEF C, c
<1>7. CASE ~HasReset(Made)
  <2>1. Tail(C) = [i \in 1..1 |-> Left(0)]
    BY <1>5, <1>7
  <2>2. Tail(C) = <<Left(0)>>
    BY <2>1
  <2> QED
    BY <1>5, <1>7, <2>2 DEF C, c
<1> QED
  BY <1>6, <1>7

(* The number of cycles asked for is a number above 0.                     *)
LEMMA AskedIs ==
  ASSUME ToolInv, AutoRuns
  PROVE  Asked \in Nat /\ Asked > 0
<1>1. argv \in LinesWith("auto")
  BY DEF ToolInv, Ended, AutoRuns, LinesWith
<1>2. argv.cycles \in Int
  BY <1>1, LinesAssumption
<1> QED
  BY <1>2 DEF Asked, CyclesAsked

(* Before its clock, the testbench only traces.                            *)
LEMMA WaitingKeeps ==
  ASSUME ToolInv, Waiting, AutoRuns, job = Made.job, TbNext, argv' = argv
  PROVE  Quiet' \/ Waiting' \/ Begun'
<1>1. /\ Typed /\ Tracing /\ IsJob(job) /\ Asked \in Nat /\ Asked > 0
      /\ clocks = <<>> /\ wait = NoWait /\ time = 0 /\ ~late /\ IsClocked(Made)
  BY AskedIs DEF ToolInv, Typed, Waiting
<1> DEFINE C == CyclesOf(Made, argv.cycles)
<1>2. PICK s \in Seq(Traces) : todo = s \o C
  BY DEF Waiting
<1>3. job' = job
  BY DEF TbNext, Unknown, Ignored, DeclareClock, Drive, CheckAssertion, Trace, Repeat, Stop, WaitNs, WaitEdge,
         Toggle, AdvanceReturns
<1>4. PICK T : C \in Seq(T)
  BY <1>1, CyclesOfMade
<1>5. /\ C # <<>> /\ Head(C) = ClockOf(ClockName)
      /\ Tail(C) = IF HasReset(Made) THEN ResetTodo(1) ELSE <<Left(0)>>
  BY <1>1, CyclesOfMade
<1> HIDE DEF C
<1>6. CASE s # <<>>
  <2>1. Head(todo) = s[1] /\ Tail(todo) = Tail(s) \o C /\ s[1] \in Traces /\ Tail(s) \in Seq(Traces)
    BY <1>2, <1>4, <1>6
  <2>2. Head(todo).type = "TRACE"
    BY <2>1 DEF Traces
  <2>3. Unknown \/ Trace
    BY <1>1, <2>2, WhichStep
  <2>4. /\ todo' = Tail(todo) /\ clocks' = clocks /\ wait' = wait /\ time' = time /\ late' = late
    BY <2>3 DEF Unknown, Trace
  <2>5. \E r \in Seq(Traces) : todo' = r \o C
    BY <2>1, <2>4
  <2> QED
    BY <1>1, <1>3, <2>4, <2>5, WaitingIs DEF C
<1>7. CASE s = <<>>
  <2>1. todo = C
    BY <1>2, <1>4, <1>7
  <2>2. Head(todo) = ClockOf(ClockName) /\ Tail(todo) = IF HasReset(Made) THEN ResetTodo(1) ELSE <<Left(0)>>
    BY <1>5, <2>1
  <2>3. Head(todo).type = "CLOCK" /\ Head(todo).name = ClockName
    BY <2>2 DEF ClockOf
  <2>4. CASE Unknown
    <3>1. todo' = Tail(todo) /\ clocks' = <<>>
      BY <1>1, <2>4 DEF Unknown
    <3>2. NoClock(Left(0))
      <4>1. Asked - 0 \in Nat
        BY <1>1
      <4> QED
        BY <4>1 DEF NoClock, Left
    <3>3. ASSUME NEW i \in 1..4 PROVE NoClock(ResetPulse(ResetName)[i])
      BY DEF NoClock, ResetPulse
    <3>4. \A i \in 1..Len(todo') : NoClock(todo'[i])
      <4>1. CASE HasReset(Made)
        <5>1. todo' = [i \in 1..5 |-> IF i = 5 THEN Left(0) ELSE ResetPulse(ResetName)[i]]
          <6>1. 6 - 1 = 5 /\ \A i \in 1..5 : i + 1 - 1 = i
            OBVIOUS
          <6> QED
            BY <2>2, <3>1, <4>1, <6>1 DEF ResetTodo
        <5>2. \A i \in 1..5 : NoClock(todo'[i])
          BY <3>2, <3>3, <5>1
        <5> QED
          BY <5>1, <5>2
      <4>2. CASE ~HasReset(Made)
        <5>1. todo' = <<Left(0)>>
          BY <2>2, <3>1, <4>2
        <5>2. Len(todo') = 1 /\ todo'[1] = Left(0)
          BY <5>1
        <5> QED
          BY <3>2, <5>2
      <4> QED
        BY <4>1, <4>2
    <3> QED
      BY <1>3, <3>1, <3>4, QuietIs
  <2>5. CASE DeclareClock
    <3> DEFINE c == NewClock(ClockOf(ClockName))
               v == [values EXCEPT ![c.net] = LevelWord(c.level = 1)]
    <3>1. /\ clocks' = Append(clocks, c) /\ Settle(v, time) /\ todo' = Tail(todo)
          /\ Whole(ClockName) # {} /\ wait' = wait /\ time' = time /\ late' = (late \/ time > 0)
      BY <2>2, <2>3, <2>5 DEF DeclareClock
    <3>2. c = [net |-> ClockNet, low |-> 5, high |-> 5, level |-> 0, toggle |-> 5, init |-> 0]
      BY ClockMade DEF ClockNet
    <3> HIDE DEF c
    <3>3. clocks' = <<c>>
      BY <1>1, <3>1
    <3>4. ASSUME InputsFree
          PROVE  ~late' /\ Ticking' /\ (Resetting' \/ Counting')
      <4>1. ClockNet \in NetsOf(job) /\ ClockNet \notin LutOutputs(job.design.luts)
        BY <1>1, <3>1, <3>4, FreeInputs
      <4>2. v \in WordsOver(NetsOf(job)) /\ v[ClockNet] = LevelWord(c.level = 1)
        <5>1. LevelWord(c.level = 1) \in Word
          BY DEF LevelWord, ToWord, Word
        <5> QED
          BY <1>1, <3>2, <4>1, <5>1 DEF Typed, WordsOver
      <4> HIDE DEF v
      <4>3. values'[ClockNet] = v[ClockNet]
        BY <1>1, <3>1, <4>1, <4>2, SettleKeeps
      <4>4. Ticking'
        <5>1. Len(clocks') = 1 /\ clocks'[1] = c
          BY <3>3
        <5>2. c.net = ClockNet /\ c.low = 5 /\ c.high = 5 /\ c.init = 0
          BY <3>2
        <5> QED
          BY <1>3, <3>1, <4>2, <4>3, <5>1, <5>2, TickingIs
      <4>7. ~late'
        <5>1. ~(late \/ time > 0)
          BY <1>1
        <5> QED
          BY <3>1, <5>1, Zenon
      <4>5. CASE HasReset(Made)
        <5>1. wait' = NoWait /\ time' = 0 /\ todo' = ResetTodo(1)
          BY <1>1, <2>2, <3>1, <4>5
        <5>2. Resetting'
          <6>1. ResettingAt(wait', time', todo')
            BY <4>5, <5>1 DEF ResettingAt
          <6> QED
            BY <1>3, <6>1, StagesAre
        <5> QED
          BY <4>4, <4>7, <5>2
      <4>6. CASE ~HasReset(Made)
        <5>1. wait' = NoWait /\ time' = After(0) /\ todo' = <<Left(0)>>
          BY <1>1, <2>2, <3>1, <4>6 DEF After, Start
        <5>2. 0 \in 0..Asked
          BY <1>1
        <5>3. Counting'
          <6>1. CountingAt(wait', time', todo', 0)
            BY <5>1 DEF CountingAt, Between
          <6>2. ResetIsOff'
            BY <1>3, <4>6, StagesAre
          <6> QED
            BY <1>3, <5>2, <6>1, <6>2, StagesAre
        <5> QED
          BY <4>4, <4>7, <5>3
      <4> QED
        BY <4>5, <4>6
    <3>5. Begun'
      <4>1. InputsFree' <=> InputsFree
        BY <1>3, SameNames
      <4>2. clocks' # <<>>
        BY <3>3
      <4> QED
        BY <3>4, <4>1, <4>2 DEF Begun
    <3> QED
      BY <3>5
  <2> QED
    BY <1>1, <2>3, <2>4, <2>5, WhichStep
<1> QED
  BY <1>6, <1>7

(* A drive with 0 writes 0 to every net of its name.                       *)
LEMMA DrivenLow ==
  ASSUME Typed, NEW name, NEW m \in DrivenBy(name), m \in NetsOf(job)
  PROVE  Written(name, 0)[m] = Zero
<1>1. DOMAIN values = NetsOf(job) /\ Bits(name) \in Seq(NetsOf(job))
  BY NetsOfNames DEF Typed, WordsOver
<1> DEFINE some == \E i \in 1..Len(Bits(name)) : Bits(name)[i] = m
           one == \E i \in 1..Len(Bits(name)) : Bits(name)[i] = m /\ ShiftRight(0, i - 1) % 2 = 1
<1>2. some \/ m \in Whole(name)
  BY <1>1 DEF DrivenBy, ToSet
<1>3. ~one
  <2>1. ASSUME NEW i \in 1..Len(Bits(name)) PROVE ShiftRight(0, i - 1) % 2 # 1
    <3>1. i - 1 \in Nat
      BY <1>1
    <3>2. ShiftRight(0, i - 1) = 0
      BY <3>1, ShiftsRight
    <3> QED
      BY <3>2
  <2> QED
    BY <2>1
<1>4. Written(name, 0)[m] = IF some THEN LevelWord(one) ELSE IF m \in Whole(name) THEN ToWord(0) ELSE values[m]
  BY <1>1, Zenon DEF Written
<1>5. LevelWord(one) = LevelWord(FALSE)
  BY <1>3 DEF LevelWord, Bit
<1> HIDE DEF some, one
<1> QED
  BY <1>2, <1>4, <1>5, LevelsDiffer

(* What the executor leaves alone unless it declares a clock.              *)
LEMMA StepFrame ==
  ASSUME TbNext
  PROVE  /\ job' = job
         /\ ~DeclareClock => late' = late
         /\ Unknown \/ Ignored \/ Drive \/ Repeat =>
              wait' = wait /\ time' = time /\ clocks' = clocks
         /\ Unknown \/ Ignored \/ Drive \/ WaitNs \/ WaitEdge => todo' = Tail(todo)
BY DEF TbNext, Unknown, Ignored, DeclareClock, Drive, CheckAssertion, Trace, Repeat, Stop, WaitNs, WaitEdge,
       Toggle, AdvanceReturns

(* The reset of the automatic testbench, to the drive that ends it.        *)
LEMMA ResettingKeeps ==
  ASSUME ToolInv, AutoRuns, IsClocked(Made), InputsFree, Ticking, ~late, Resetting, TbNext, argv' = argv
  PROVE  ~late' /\ Ticking' /\ (Resetting' \/ Counting')
<1>1. /\ Typed /\ Tracing /\ ExecInv /\ IsJob(job) /\ Asked \in Nat /\ Asked > 0 /\ HasReset(Made)
      /\ ResettingAt(wait, time, todo)
  BY AskedIs DEF ToolInv, ExecInv, Typed, Resetting, ResettingAt
<1> DEFINE r == ResetPulse(ResetName)
<1>2. /\ r[1].type = "RESET" /\ r[2].type = "DRIVE" /\ r[3].type = "WAIT_NS" /\ r[4].type = "DRIVE"
      /\ r[2].name = ResetName /\ r[3].value = 20 /\ r[4].name = ResetName /\ r[4].value = 0
  BY DEF ResetPulse
<1> HIDE DEF r
<1>3. ClockNet \notin DrivenBy(ResetName)
  <2>1. ClockNet \in DrivenBy(ClockName)
    BY <1>1, FreeInputs DEF Ticking
  <2> QED
    BY <1>1, <2>1, TwoNames, TwoNets
<1>4. ASSUME ~DeclareClock, Drive => Head(todo).name = ResetName PROVE ~late' /\ Ticking' /\ job' = job
  BY <1>1, <1>3, <1>4, TickingKeeps, StepFrame
<1>5. DeclareClock => wait = NoWait /\ todo # <<>> /\ Head(todo).type = "CLOCK"
  BY DEF DeclareClock, Command
<1>6. Drive => wait = NoWait /\ todo # <<>> /\ Head(todo).type = "DRIVE"
  BY DEF Drive, Command
<1>7. ASSUME NEW k \in 1..3, wait = NoWait, time = 0, todo = ResetTodo(k)
      PROVE  ~late' /\ Ticking' /\ Resetting'
  <2>1. Head(todo) = r[k] /\ Tail(todo) = ResetTodo(k + 1) /\ todo # <<>>
    <3>1. k \in 1..4 /\ k # 4
      OBVIOUS
    <3> QED
      BY <1>7, <3>1, ResetTodoIs DEF r
  <2>2. ~late' /\ Ticking' /\ job' = job
    <3>1. Head(todo).type # "CLOCK" /\ (Head(todo).type = "DRIVE" => Head(todo).name = ResetName)
      BY <1>2, <2>1
    <3> QED
      BY <1>4, <1>5, <1>6, <3>1
  <2>3. CASE k \in 1..2
    <3>1. Unknown \/ Ignored \/ Drive
      BY <1>2, <1>7, <2>1, <2>3, WhichStep
    <3>2. wait' = NoWait /\ time' = 0 /\ todo' = ResetTodo(k + 1)
      BY <1>7, <2>1, <3>1, StepFrame
    <3>3. k + 1 \in 1..3
      BY <2>3
    <3>4. ResettingAt(wait', time', todo')
      BY <1>1, <3>2, <3>3 DEF ResettingAt
    <3> QED
      BY <2>2, <3>4, StagesAre
  <2>4. CASE k = 3
    <3>1. WaitNs /\ Head(todo).value = 20
      BY <1>2, <1>7, <2>1, <2>4, WhichStep
    <3>2. wait' = [kind |-> "ns", target |-> 20] /\ todo' = ResetTodo(4)
      BY <1>7, <2>1, <2>4, <3>1 DEF WaitNs
    <3>3. ResettingAt(wait', time', todo')
      BY <1>1, <3>2 DEF ResettingAt
    <3> QED
      BY <2>2, <3>3, StagesAre
  <2> QED
    BY <2>3, <2>4
<1>8. ASSUME wait = [kind |-> "ns", target |-> 20], todo = ResetTodo(4)
      PROVE  ~late' /\ Ticking' /\ Resetting'
  <2>1. wait # NoWait /\ wait.kind = "ns" /\ wait.target = 20
    BY <1>8 DEF NoWait
  <2>2. Toggle \/ AdvanceReturns
    BY <2>1 DEF TbNext, Unknown, Ignored, DeclareClock, Drive, CheckAssertion, Trace, Repeat, Stop, WaitNs,
                WaitEdge, Command
  <2>3. ~late' /\ Ticking' /\ job' = job
    BY <1>4, <1>5, <1>6, <2>1
  <2>4. \/ wait' = wait /\ todo' = todo
        \/ wait' = NoWait /\ time' = 20 /\ todo' = todo
    BY <2>1, <2>2 DEF Toggle, AdvanceReturns
  <2>5. ResettingAt(wait', time', todo')
    BY <1>1, <1>8, <2>4 DEF ResettingAt
  <2> QED
    BY <2>3, <2>5, StagesAre
<1>9. ASSUME wait = NoWait, time = 20, todo = ResetTodo(4)
      PROVE  ~late' /\ Ticking' /\ Counting'
  <2>1. Head(todo) = r[4] /\ Tail(todo) = <<Left(0)>> /\ todo # <<>>
    <3>1. 4 \in 1..4
      OBVIOUS
    <3> QED
      BY <1>9, <3>1, ResetTodoIs DEF r
  <2>2. ~late' /\ Ticking' /\ job' = job
    <3>1. Head(todo).type # "CLOCK" /\ Head(todo).name = ResetName
      BY <1>2, <2>1
    <3> QED
      BY <1>4, <1>5, <3>1
  <2>3. (Unknown /\ ~Known(ResetName)) \/ Drive
    BY <1>2, <1>9, <2>1, WhichStep
  <2>4. wait' = NoWait /\ time' = After(0) /\ todo' = <<Left(0)>>
    BY <1>1, <1>9, <2>1, <2>3, StepFrame DEF After, Start
  <2>5. CountingAt(wait', time', todo', 0) /\ 0 \in 0..Asked
    BY <1>1, <2>4 DEF CountingAt, Between
  <2>6. ASSUME NEW m \in DrivenBy(ResetName) PROVE values'[m] = Zero
    <3>1. CASE ~Known(ResetName)
      <4>1. DrivenBy(ResetName) = {}
        BY <3>1 DEF Known, DrivenBy, ToSet
      <4> QED
        BY <4>1
    <3>2. CASE Drive
      <4> DEFINE w == Written(ResetName, 0)
      <4>1. Settle(w, time) /\ time \in Nat
        BY <1>1, <1>2, <2>1, <3>2 DEF Drive, Typed
      <4>2. w \in WordsOver(NetsOf(job))
        BY <1>1, WrittenKeeps
      <4>3. m \in NetsOf(job) /\ m \notin LutOutputs(job.design.luts)
        BY <1>1, FreeInputs
      <4>4. w[m] = Zero
        BY <1>1, <4>3, DrivenLow
      <4> HIDE DEF w
      <4>5. values'[m] = w[m]
        BY <1>1, <4>1, <4>2, <4>3, SettleKeeps
      <4> QED
        BY <4>4, <4>5
    <3> QED
      BY <2>3, <3>1, <3>2
  <2>7. ResetIsOff'
    BY <2>2, <2>6, StagesAre
  <2> QED
    BY <2>2, <2>5, <2>7, StagesAre
<1> QED
  BY <1>1, <1>7, <1>8, <1>9 DEF ResettingAt

(* The clock at a time: where it is in its period and what its net shows.  *)
LEMMA ClockAt ==
  ASSUME Typed, Ahead, Phase, Ticking, ~late
  PROVE  /\ cycles \in Nat /\ time \in Nat /\ clocks[1].toggle > time
         /\ IF values[ClockNet] # Zero
            THEN clocks[1].level = 1 /\ clocks[1].toggle = 10 * cycles /\ 10 * cycles <= time + 5
            ELSE clocks[1].level = 0 /\ clocks[1].toggle = 10 * cycles + 5 /\ 10 * cycles <= time
<1>1. clocks[1] \in Clock /\ clocks # <<>> /\ 1 \in 1..Len(clocks) /\ cycles \in Nat /\ time \in Nat
  BY OneClock DEF Ticking, Typed
<1>2. InPhase(clocks[1], cycles, time) /\ time < clocks[1].toggle
  <2>1. clocks[1].toggle \in Nat
    BY <1>1 DEF Clock
  <2> QED
    BY <1>1, <2>1 DEF Phase, Ahead
<1>3. IF clocks[1].level = 1 THEN clocks[1].toggle = 10 * cycles /\ 10 * cycles <= time + 5
      ELSE clocks[1].level = 0 /\ clocks[1].toggle = 10 * cycles + 5 /\ 10 * cycles <= time
  BY <1>1, <1>2, TickTock DEF Ticking
<1>4. values[ClockNet] # Zero <=> clocks[1].level = 1
  <2>1. values[ClockNet] = LevelWord(clocks[1].level = 1)
    BY DEF Ticking
  <2>2. CASE clocks[1].level = 1
    BY <2>1, <2>2, LevelsDiffer DEF LevelWord
  <2>3. CASE clocks[1].level # 1
    BY <2>1, <2>3, LevelsDiffer DEF LevelWord
  <2> QED
    BY <2>2, <2>3
<1> QED
  BY <1>1, <1>2, <1>3, <1>4

(* The same, after a step that leaves the clocks alone.                    *)
LEMMA ClockAfterwards ==
  ASSUME ToolInv', Ticking', ~late', job' = job, argv' = argv, clocks' = clocks
  PROVE  /\ cycles' \in Nat /\ clocks[1].toggle > time'
         /\ IF values'[ClockNet] # Zero
            THEN clocks[1].toggle = 10 * cycles' /\ 10 * cycles' <= time' + 5
            ELSE clocks[1].toggle = 10 * cycles' + 5 /\ 10 * cycles' <= time'
<1>1. /\ Len(clocks) = 1 /\ clocks[1].low = 5 /\ clocks[1].high = 5 /\ clocks[1].init = 0
      /\ values'[ClockNet] = LevelWord(clocks[1].level = 1)
  BY TickingIs
<1>2. cycles' \in Nat /\ time' \in Nat /\ clocks \in Seq(Clock)
  BY DEF ToolInv, Typed, Clock
<1>3. clocks[1] \in Clock /\ clocks # <<>> /\ 1 \in 1..Len(clocks)
  BY <1>1, <1>2
<1>4. InPhase(clocks[1], cycles', time') /\ time' < clocks[1].toggle
  <2>1. clocks[1].toggle > time'
    BY <1>3 DEF ToolInv, Ahead
  <2>2. clocks[1].toggle \in Nat
    BY <1>3 DEF Clock
  <2>3. InPhase(clocks[1], cycles', time')
    BY <1>3 DEF ToolInv, Phase, InPhase, Period, FirstRise
  <2> QED
    BY <1>2, <2>1, <2>2, <2>3
<1>5. IF clocks[1].level = 1 THEN clocks[1].toggle = 10 * cycles' /\ 10 * cycles' <= time' + 5
      ELSE clocks[1].level = 0 /\ clocks[1].toggle = 10 * cycles' + 5 /\ 10 * cycles' <= time'
  BY <1>1, <1>2, <1>3, <1>4, TickTock
<1>6. values'[ClockNet] # Zero <=> clocks[1].level = 1
  <2>1. CASE clocks[1].level = 1
    BY <1>1, <2>1, LevelsDiffer DEF LevelWord
  <2>2. CASE clocks[1].level # 1
    BY <1>1, <2>2, LevelsDiffer DEF LevelWord
  <2> QED
    BY <2>1, <2>2
<1> QED
  BY <1>2, <1>4, <1>5, <1>6

(* The next command of the repeat.                                         *)
LEMMA RepeatGoesOn ==
  ASSUME NEW n \in Nat, n <= Asked, Asked \in Nat, todo = <<Left(n)>>, Repeat
  PROVE  todo' = IF n = Asked THEN <<>> ELSE <<EdgeOf(ClockName), Left(n + 1)>>
<1> DEFINE c == Left(n)
<1>1. c.value = Asked - n /\ c.block = <<EdgeOf(ClockName)>> /\ [c EXCEPT !.value = @ - 1] = Left(n + 1)
  <2>1. (Asked - n) - 1 = Asked - (n + 1)
    OBVIOUS
  <2> QED
    BY <2>1 DEF Left, EdgesOf
<1> HIDE DEF c
<1>2. Head(todo) = c /\ Tail(todo) = <<>>
  BY DEF c
<1>3. todo' = IF c.value = 0 THEN <<>> ELSE c.block \o <<[c EXCEPT !.value = @ - 1]>> \o <<>>
  BY <1>2 DEF Repeat
<1> DEFINE e == EdgeOf(ClockName)
           l == Left(n + 1)
<1>4. n # Asked => todo' = <<e>> \o <<l>> \o <<>>
  <2>1. n # Asked => c.value # 0
    BY <1>1
  <2> QED
    BY <1>1, <1>3, <2>1, Zenon
<1>5. n = Asked => todo' = <<>>
  BY <1>1, <1>3
<1> HIDE DEF e, l
<1>6. <<e>> \o <<l>> \o <<>> = <<e, l>>
  <2> DEFINE s == <<e>> \o <<l>>
  <2>1. s = <<e, l>>
    <3>1. <<e>> \in Seq({e, l}) /\ <<l>> \in Seq({e, l}) /\ Len(<<e>>) = 1 /\ Len(<<l>>) = 1
          /\ <<e>>[1] = e /\ <<l>>[1] = l
      OBVIOUS
    <3>2. s \in Seq({e, l}) /\ Len(s) = 2 /\ s[1] = e /\ s[2] = l
      BY <3>1
    <3> HIDE DEF s
    <3>3. s = [i \in 1..2 |-> s[i]]
      BY <3>2
    <3> QED
      BY <3>2, <3>3
  <2>2. <<e, l>> \o <<>> = <<e, l>>
    OBVIOUS
  <2> QED
    BY <2>1, <2>2, Zenon DEF s
<1> QED
  BY <1>4, <1>5, <1>6 DEF e, l

(* The times of the edges.                                                 *)
LEMMA EdgeTimes ==
  ASSUME NEW n \in Nat
  PROVE  /\ Start \in {0, 20} /\ After(0) = Start
         /\ After(n) \in Nat
         /\ n > 0 => After(n) = Start + 10 * n - 5
         /\ After(n + 1) = Start + 10 * n + 5
BY DEF After, Start

(* The edges the automatic testbench waits for.                            *)
LEMMA CountingKeeps ==
  ASSUME ToolInv, ToolInv', AutoRuns, IsClocked(Made), InputsFree, Ticking, ~late, Counting, TbNext, argv' = argv
  PROVE  ~late' /\ Ticking' /\ Counting'
<1>1. /\ Typed /\ Tracing /\ Ahead /\ Phase /\ ExecInv /\ IsJob(job) /\ Asked \in Nat /\ Asked > 0
  BY AskedIs DEF ToolInv, ExecInv, Typed
<1>2. PICK n \in 0..Asked : CountingAt(wait, time, todo, n)
  BY DEF Counting
<1>3. /\ n \in Nat /\ n <= Asked /\ Start \in {0, 20} /\ After(0) = Start /\ After(n) \in Nat
      /\ n > 0 => After(n) = Start + 10 * n - 5
      /\ After(n + 1) = Start + 10 * n + 5
  BY <1>1, <1>2, EdgeTimes
<1>4. DeclareClock => wait = NoWait /\ todo # <<>> /\ Head(todo).type = "CLOCK"
  BY DEF DeclareClock, Command
<1>5. Drive => wait = NoWait /\ todo # <<>> /\ Head(todo).type = "DRIVE"
  BY DEF Drive, Command
<1>6. ASSUME ~DeclareClock, ~Drive PROVE ~late' /\ Ticking' /\ job' = job /\ ResetIsOff'
  <2>1. ResetIsOff
    BY DEF Counting
  <2> QED
    BY <1>1, <1>6, <2>1, TickingKeeps, ResetStaysOff, StepFrame
<1>7. CASE Between(wait, time, todo, n)
  <2>1. wait = NoWait /\ time = After(n) /\ todo = <<Left(n)>>
    BY <1>7 DEF Between
  <2>2. Head(todo).type = "REPEAT"
    BY <2>1 DEF Left, EdgesOf
  <2>3. Repeat
    BY <2>1, <2>2, WhichStep
  <2>4. wait' = NoWait /\ time' = After(n)
    BY <2>1, <2>3, StepFrame
  <2>5. todo' = IF n = Asked THEN <<>> ELSE <<EdgeOf(ClockName), Left(n + 1)>>
    BY <1>1, <1>3, <2>1, <2>3, RepeatGoesOn
  <2>6. CountingAt(wait', time', todo', n)
    BY <1>3, <1>1, <2>4, <2>5 DEF CountingAt, Asking, Over
  <2> QED
    BY <1>2, <1>4, <1>5, <1>6, <2>2, <2>6, StagesAre
<1>8. CASE Asking(wait, time, todo, n)
  <2>1. n < Asked /\ wait = NoWait /\ time = After(n) /\ todo = <<EdgeOf(ClockName), Left(n + 1)>>
    BY <1>8 DEF Asking
  <2>2. Head(todo) = EdgeOf(ClockName) /\ Tail(todo) = <<Left(n + 1)>>
    BY <2>1
  <2>3. Head(todo).type = "WAIT_EDGE" /\ Head(todo).name = ClockName /\ Head(todo).rising = TRUE
    BY <2>2 DEF EdgeOf
  <2>4. WaitEdge
    BY <2>1, <2>3, WhichStep DEF Ticking
  <2>5. /\ TogglesOn(ClockNet) = {clocks[1].toggle} /\ First(TogglesOn(ClockNet)) = clocks[1].toggle
    BY <1>1, OneClock DEF Ticking
  <2>6. /\ wait' = [kind |-> "edge", target |-> clocks[1].toggle, net |-> ClockNet, rising |-> TRUE,
                    before |-> values[ClockNet] # Zero, tries |-> 1]
        /\ todo' = <<Left(n + 1)>>
    BY <2>2, <2>3, <2>4, <2>5 DEF WaitEdge, ClockNet
  <2>7. /\ cycles \in Nat /\ clocks[1].toggle > time
        /\ IF values[ClockNet] # Zero
           THEN clocks[1].toggle = 10 * cycles /\ 10 * cycles <= time + 5
           ELSE clocks[1].toggle = 10 * cycles + 5 /\ 10 * cycles <= time
    BY <1>1, ClockAt
  <2>8. IF values[ClockNet] # Zero THEN n > 0 /\ clocks[1].toggle = After(n) + 5
        ELSE n = 0 /\ clocks[1].toggle = After(n + 1)
    BY <1>3, <2>1, <2>7
  <2>9. ForEdge(wait', n)
    BY <2>6, <2>8 DEF ForEdge, NoWait
  <2>10. CountingAt(wait', time', todo', n)
    BY <2>1, <2>6, <2>9 DEF CountingAt, InEdge
  <2> QED
    BY <1>2, <1>4, <1>5, <1>6, <2>3, <2>10, StagesAre
<1>9. CASE InEdge(wait, todo, n)
  <2>1. n < Asked /\ ForEdge(wait, n) /\ todo = <<Left(n + 1)>>
    BY <1>9 DEF InEdge
  <2>2. wait # NoWait /\ wait.kind = "edge" /\ wait.net = ClockNet /\ wait.rising
    BY <2>1 DEF ForEdge
  <2>3. ~late' /\ Ticking' /\ job' = job /\ ResetIsOff'
    BY <1>4, <1>5, <1>6, <2>2
  <2>4. CASE Toggle
    <3>1. wait' = wait /\ todo' = todo
      BY <2>4 DEF Toggle
    <3>2. CountingAt(wait', time', todo', n)
      BY <1>9, <3>1 DEF CountingAt
    <3> QED
      BY <1>2, <2>3, <3>2, StagesAre
  <2>5. CASE AdvanceReturns
    <3>1. /\ time' = wait.target /\ todo' = todo /\ clocks' = clocks
          /\ IF EdgeOccurred(values') THEN wait' = NoWait
             ELSE IF wait.tries = EdgeCap THEN wait' = NoWait
             ELSE wait' = [wait EXCEPT !.target = First(TogglesOn(wait.net)),
                                       !.before = values'[wait.net] # Zero,
                                       !.tries = TriesAfter]
      BY <2>2, <2>5 DEF AdvanceReturns
    <3>2. First(TogglesOn(ClockNet)) = clocks[1].toggle
      BY <1>1, OneClock DEF Ticking
    <3>3. /\ wait.target = IF wait.before THEN After(n) + 5 ELSE After(n + 1)
          /\ wait.before => n > 0
          /\ wait.tries = IF wait.before \/ n = 0 THEN 1 ELSE 2
          /\ wait.before \in BOOLEAN
      <4>1. wait \in [kind : {"edge"}, target : Nat, net : Nat, rising : BOOLEAN, before : BOOLEAN, tries : Nat]
        BY <1>1, <2>2 DEF Typed, Waits
      <4> QED
        BY <2>1, <4>1 DEF ForEdge
    <3>4. /\ cycles' \in Nat /\ clocks[1].toggle > time'
          /\ IF values'[ClockNet] # Zero
             THEN clocks[1].toggle = 10 * cycles' /\ 10 * cycles' <= time' + 5
             ELSE clocks[1].toggle = 10 * cycles' + 5 /\ 10 * cycles' <= time'
      BY <2>3, <3>1, ClockAfterwards
    <3>5. CASE wait.before
      <4>1. time' = Start + 10 * n /\ n > 0 /\ wait.tries = 1
        BY <1>3, <3>1, <3>3, <3>5
      <4>2. values'[ClockNet] = Zero /\ clocks[1].toggle = After(n + 1)
        BY <1>3, <3>4, <4>1
      <4>3. ~EdgeOccurred(values') /\ wait.tries # EdgeCap
        BY <2>2, <3>5, <4>1, EdgeCapAssumption DEF EdgeOccurred
      <4>4. wait' = [wait EXCEPT !.target = After(n + 1), !.before = FALSE, !.tries = 2]
        <5>1. wait' = [wait EXCEPT !.target = clocks[1].toggle, !.before = values'[ClockNet] # Zero, !.tries = TriesAfter]
          BY <2>2, <3>1, <3>2, <4>3
        <5>2. TriesAfter = 2 /\ (values'[ClockNet] # Zero) = FALSE
          BY <4>1, <4>2 DEF TriesAfter
        <5> QED
          BY <4>2, <5>1, <5>2
      <4>5. ForEdge(wait', n)
        <5>1. wait \in [kind : {"edge"}, target : Nat, net : Nat, rising : BOOLEAN, before : BOOLEAN, tries : Nat]
          BY <1>1, <2>2 DEF Typed, Waits
        <5>2. /\ wait'.kind = "edge" /\ wait'.net = ClockNet /\ wait'.rising /\ wait'.target = After(n + 1)
              /\ wait'.before = FALSE /\ wait'.tries = 2
          BY <2>2, <4>4, <5>1
        <5> QED
          BY <4>1, <5>2 DEF ForEdge, NoWait
      <4>6. CountingAt(wait', time', todo', n)
        BY <2>1, <3>1, <4>5 DEF CountingAt, InEdge
      <4> QED
        BY <1>2, <2>3, <4>6, StagesAre
    <3>6. CASE ~wait.before
      <4>1. time' = After(n + 1) /\ time' = Start + 10 * n + 5
        BY <1>3, <3>1, <3>3, <3>6
      <4>2. values'[ClockNet] # Zero
        BY <1>3, <3>4, <4>1
      <4>3. wait' = NoWait
        BY <2>2, <3>1, <3>6, <4>2 DEF EdgeOccurred
      <4>4. CountingAt(wait', time', todo', n + 1)
        BY <2>1, <3>1, <4>1, <4>3 DEF CountingAt, Between
      <4>5. n + 1 \in 0..Asked
        BY <1>1, <1>3, <2>1
      <4> QED
        BY <2>3, <4>4, <4>5, StagesAre
    <3> QED
      BY <3>3, <3>5, <3>6
  <2> QED
    BY <2>2, <2>4, <2>5 DEF TbNext, Unknown, Ignored, DeclareClock, Drive, CheckAssertion, Trace, Repeat, Stop, WaitNs,
                WaitEdge, Command
<1>10. CASE Over(wait, time, todo, n)
  BY <1>10, WhichStep DEF Over
<1> QED
  BY <1>2, <1>7, <1>8, <1>9, <1>10 DEF CountingAt

(* Once begun, the testbench goes on to its end.                           *)
LEMMA BegunKeeps ==
  ASSUME ToolInv, ToolInv', AutoRuns, IsClocked(Made), Begun, TbNext, argv' = argv
  PROVE  Begun'
<1>1. Typed /\ clocks \in Seq(Clock) /\ clocks # <<>>
  BY DEF ToolInv, Typed, Begun
<1>2. job' = job
  BY StepFrame
<1>3. clocks' # <<>>
  <2>1. CASE DeclareClock
    <3>1. \E c : clocks' = Append(clocks, c)
      BY <2>1, Zenon DEF DeclareClock
    <3> QED
      BY <1>1, <3>1
  <2>2. CASE Toggle
    <3>1. clocks' = ClocksAfter(NextToggle)
      BY <2>2, Zenon DEF Toggle
    <3>2. DOMAIN clocks' = 1..Len(clocks)
      BY <3>1, Zenon DEF ClocksAfter
    <3>3. 1 \in DOMAIN clocks'
      BY <1>1, <3>2
    <3> QED
      BY <3>3
  <2>3. CASE ~DeclareClock /\ ~Toggle
    <3>1. clocks' = clocks
      BY <2>3 DEF TbNext, Unknown, Ignored, Drive, CheckAssertion, Trace, Repeat, Stop, WaitNs, WaitEdge, AdvanceReturns
    <3> QED
      BY <1>1, <3>1
  <2> QED
    BY <2>1, <2>2, <2>3
<1>4. InputsFree' <=> InputsFree
  BY <1>2, SameNames
<1>5. ASSUME InputsFree PROVE ~late' /\ Ticking' /\ (Resetting' \/ Counting')
  <2>1. ~late /\ Ticking /\ (Resetting \/ Counting)
    BY <1>5 DEF Begun
  <2>2. CASE Resetting
    BY <1>5, <2>1, <2>2, ResettingKeeps
  <2>3. CASE Counting
    BY <1>5, <2>1, <2>3, CountingKeeps
  <2> QED
    BY <2>1, <2>2, <2>3
<1> QED
  BY <1>3, <1>4, <1>5 DEF Begun

(* What is begun stays so while only the command goes on.                  *)
LEMMA Untouched ==
  ASSUME argv' = argv, UNCHANGED <<job, todo, wait, values, time, clocks, cycles, late>>
  PROVE  (Quiet' <=> Quiet) /\ (Begun' <=> Begun)
<1>1. Quiet' <=> Quiet
  BY QuietIs DEF Quiet
<1>2. Ticking' <=> Ticking
  BY TickingIs DEF Ticking
<1>3. (Resetting' <=> Resetting) /\ (Counting' <=> Counting)
  BY StagesAre DEF Resetting, Counting, ResetIsOff
<1>4. InputsFree' <=> InputsFree
  BY SameNames
<1> QED
  BY <1>1, <1>2, <1>3, <1>4, Zenon DEF Begun

(* The testbench that is made.                                             *)
LEMMA AutoStarts ==
  ASSUME ToolInv, AutoInv, RunAuto
  PROVE  AutoInv'
<1>1. /\ stage = "loaded" /\ stage' = "running" /\ argv' = argv /\ AutoRuns
      /\ todo' = AutoTestbench(Made, argv.cycles)
      /\ UNCHANGED <<job, wait, values, time, clocks, cycles, late>>
  BY DEF RunAuto, Simulates, RunTestbench, AutoRuns, Made
<1>2. /\ job = Made.job /\ ~late /\ wait = NoWait /\ time = 0 /\ clocks = <<>>
  BY <1>1 DEF ToolInv, Idle, AutoInv
<1>3. argv \in LinesWith("auto")
  BY <1>1 DEF ToolInv, Ended, AutoRuns, LinesWith
<1>4. AutoTestbench(Made, argv.cycles) \in Seq(Statements)
  BY <1>3, StatementsAssumption DEF Made
<1>5. Made.inputs \in Seq(STRING) /\ Made.outputs \in Seq(STRING)
  BY <1>3, LinesAssumption, JobsAssumption DEF Made, LinesWith
<1> DEFINE T == TracesOf(Made)
           C == CyclesOf(Made, argv.cycles)
           ios == Made.inputs \o Made.outputs
<1>6. ios \in Seq(STRING)
  BY <1>5
<1>7. T = [i \in 1..Len(ios) |-> [type |-> "TRACE", name |-> ios[i]]] /\ Len(ios) \in Nat
  <2>1. T = [i \in 1..Len(ios) |-> [type |-> "TRACE", name |-> ios[i]]]
    BY Zenon DEF TracesOf
  <2> HIDE DEF ios
  <2> QED
    BY <1>6, <2>1
<1>8. Len(T) \in Nat /\ T = [i \in 1..Len(T) |-> T[i]] /\ \A i \in 1..Len(T) : T[i].type = "TRACE"
  <2> HIDE DEF ios, T
  <2>1. Len(T) = Len(ios)
    BY <1>7
  <2> QED
    BY <1>7, <2>1
<1>9. Made' = Made /\ (AutoRuns' <=> AutoRuns)
  BY <1>1, SameNames
<1>10. CASE IsClocked(Made)
  <2>1. todo' = T \o C /\ T \o C \in Seq(Statements)
    BY <1>1, <1>4, <1>10 DEF AutoTestbench
  <2>2. Asked \in Nat
    BY <1>1, AskedIs
  <2>3. PICK U : C \in Seq(U)
    BY <2>2, CyclesOfMade
  <2> HIDE DEF T, C
  <2>4. T \in Seq(Traces)
    <3>1. T \in Seq({ T[i] : i \in 1..Len(T) })
      BY <1>8
    <3>2. ASSUME NEW i \in 1..Len(T) PROVE T[i] \in Statements
      <4>1. Len(C) \in Nat
        BY <2>3
      <4>2. (T \o C)[i] = T[i] /\ i \in 1..Len(T \o C)
        BY <2>3, <3>1, <4>1
      <4> QED
        BY <2>1, <4>2
    <3> QED
      BY <1>8, <3>2 DEF Traces
  <2>5. Waiting'
    <3>1. \E r \in Seq(Traces) : todo' = r \o C
      BY <2>1, <2>4
    <3>2. ~late'
      BY <1>1, <1>2, Zenon
    <3> QED
      BY <1>1, <1>2, <1>10, <3>1, <3>2, WaitingIs DEF C
  <2>6. IsClocked(Made)'
    BY <2>5 DEF Waiting
  <2> QED
    BY <1>1, <1>2, <1>9, <2>5, <2>6 DEF AutoInv
<1>11. CASE ~IsClocked(Made)
  <2>1. todo' = T
    <3>1. todo' = T \o <<>>
      BY <1>1, <1>11 DEF AutoTestbench
    <3> HIDE DEF T
    <3>2. T \in Seq({ T[i] : i \in 1..Len(T) })
      BY <1>8
    <3> QED
      BY <3>1, <3>2
  <2>2. \A i \in 1..Len(T) : NoClock(T[i])
    <3> HIDE DEF T
    <3> QED
      BY <1>8 DEF NoClock
  <2>3. Quiet'
    <3> HIDE DEF T
    <3> QED
      BY <1>1, <1>2, <2>1, <2>2, QuietIs
  <2> QED
    BY <1>1, <1>2, <1>9, <2>3 DEF AutoInv
<1> QED
  BY <1>10, <1>11

(* The stages of the automatic testbench are an invariant.                 *)
LEMMA AutoKeeps ==
  ASSUME ToolInv, ToolInv', AutoInv, [ToolNext]_toolVars
  PROVE  AutoInv'
<1>1. CASE Usage \/ ViewWave \/ CannotReadDesign \/ Report \/ RefuseTestbench
  <2>1. /\ stage \in {"start", "loaded"} /\ stage' = "done" /\ argv' = argv
        /\ UNCHANGED <<job, todo, wait, values, time, clocks, cycles, late>>
    BY <1>1 DEF Usage, ViewWave, CannotReadDesign, Report, RefuseTestbench, Simulates, Exit, tbVars
  <2>2. todo = <<>> /\ clocks = <<>>
    BY <2>1 DEF ToolInv, Idle
  <2>3. Quiet'
    BY <2>1, <2>2, Untouched DEF Quiet
  <2> QED
    BY <2>1, <2>3 DEF AutoInv
<1>2. CASE LoadDesign
  <2>1. stage = "start" /\ stage' = "loaded" /\ argv' = argv /\ job' = Loaded[argv.design].job /\ late' = late
    BY <1>2 DEF LoadDesign, LoadJob
  <2>2. job' = Made.job'
    BY <2>1 DEF Made
  <2>3. ~late'
    BY <2>1, Zenon DEF AutoInv
  <2> QED
    BY <2>1, <2>2, <2>3 DEF AutoInv
<1>3. CASE RunFile
  <2>1. stage = "loaded" /\ stage' = "running" /\ argv' = argv /\ job' = job /\ argv.testbench = "file"
    BY <1>3 DEF RunFile, Simulates, RunTestbench
  <2>2. Made' = Made /\ ~AutoRuns'
    BY <2>1 DEF Made, AutoRuns
  <2> QED
    BY <2>1, <2>2 DEF AutoInv
<1>4. CASE RunAuto
  BY <1>4, AutoStarts
<1>5. CASE Execute
  <2>1. TbNext /\ stage = "running" /\ stage' = "running" /\ argv' = argv
    BY <1>5 DEF Execute
  <2>2. job' = job
    BY <2>1, StepFrame
  <2>3. Made' = Made /\ (AutoRuns' <=> AutoRuns)
    BY <2>1, <2>2, SameNames
  <2>4. job' = Made'.job
    BY <2>1, <2>2, <2>3 DEF AutoInv
  <2>5. ASSUME AutoRuns PROVE Quiet' \/ (job' = Made'.job /\ IsClocked(Made)' /\ (Waiting' \/ Begun'))
    <3>1. CASE Quiet
      BY <2>1, <3>1, QuietKeeps DEF ToolInv
    <3>2. CASE IsClocked(Made) /\ job = Made.job /\ (Waiting \/ Begun)
      <4>1. IsClocked(Made)'
        BY <2>1, <2>2, <3>2, WaitingIs
      <4>2. CASE Waiting
        BY <2>1, <2>4, <2>5, <3>2, <4>1, <4>2, WaitingKeeps
      <4>3. CASE Begun
        BY <2>1, <2>4, <2>5, <3>2, <4>1, <4>3, BegunKeeps
      <4> QED
        BY <3>2, <4>2, <4>3
    <3> QED
      BY <2>1, <2>5, <3>1, <3>2 DEF AutoInv
  <2> QED
    BY <2>1, <2>3, <2>4, <2>5 DEF AutoInv
<1>6. CASE WriteDump \/ Finish
  <2>1. /\ argv' = argv /\ UNCHANGED <<job, todo, wait, values, time, clocks, cycles, late>>
        /\ stage \in {"running", "dumped"} /\ stage' \in {"dumped", "done"}
        /\ stage = "running" => todo = <<>> /\ wait = NoWait
    BY <1>6 DEF WriteDump, Finish, TestbenchDone, Exit, tbVars
  <2>2. Made' = Made /\ (AutoRuns' <=> AutoRuns)
    BY <2>1, SameNames
  <2>3. (Quiet' <=> Quiet) /\ (Begun' <=> Begun)
    BY <2>1, Untouched
  <2>4. todo = <<>> /\ wait = NoWait
    BY <2>1 DEF ToolInv, Ended
  <2>5. AutoRuns => ~Waiting
    <3> SUFFICES ASSUME AutoRuns, Waiting PROVE FALSE
      OBVIOUS
    <3>1. Asked \in Nat
      BY AskedIs
    <3> DEFINE C == CyclesOf(Made, argv.cycles)
    <3>2. C # <<>> /\ \E T : C \in Seq(T)
      BY <3>1, CyclesOfMade
    <3>3. \E s \in Seq(Traces) : todo = s \o C
      BY DEF Waiting
    <3> HIDE DEF C
    <3> QED
      BY <2>4, <3>2, <3>3
  <2>6. job = Made.job
    BY <2>1 DEF AutoInv
  <2>7. IsClocked(Made)' <=> IsClocked(Made)
    BY <2>1, WaitingIs
  <2>8. AutoRuns => Quiet \/ (IsClocked(Made) /\ Begun)
    BY <2>1, <2>5 DEF AutoInv
  <2> QED
    BY <2>1, <2>2, <2>3, <2>4, <2>6, <2>7, <2>8 DEF AutoInv
<1>7. CASE UNCHANGED toolVars
  <2>1. argv' = argv /\ stage' = stage /\ UNCHANGED <<job, todo, wait, values, time, clocks, cycles, late>>
    BY <1>7 DEF toolVars, tbVars
  <2>2. Made' = Made /\ (AutoRuns' <=> AutoRuns)
    BY <2>1, SameNames
  <2>3. (Quiet' <=> Quiet) /\ (Begun' <=> Begun)
    BY <2>1, Untouched
  <2>4. IsClocked(Made)' <=> IsClocked(Made)
    BY <2>1, WaitingIs
  <2>5. Waiting => Waiting'
    <3>1. Waiting => /\ clocks = <<>> /\ wait = NoWait /\ time = 0 /\ ~late /\ IsClocked(Made)
                     /\ \E r \in Seq(Traces) : todo = r \o CyclesOf(Made, argv.cycles)
      BY Zenon DEF Waiting
    <3>2. late' <=> late
      BY <2>1
    <3> QED
      BY <2>1, <3>1, <3>2, WaitingIs
  <2>6. (job = Made.job)' <=> job = Made.job
    BY <2>1, <2>2
  <2> QED
    BY <2>1, <2>2, <2>3, <2>4, <2>5, <2>6 DEF AutoInv
<1> QED
  BY <1>1, <1>2, <1>3, <1>4, <1>5, <1>6, <1>7 DEF ToolNext

-----------------------------------------------------------------------------
(* What the automatic testbench has done at its end *)

(* A name whose nets are all 0 is read as 0.                               *)
LEMMA ReadsZero ==
  ASSUME Typed, NEW name, \A m \in DrivenBy(name) : values[m] = Zero
  PROVE  ReadValue(name) = 0
<1> DEFINE len == IF Len(Bits(name)) < 32 THEN Len(Bits(name)) ELSE 32
           body(f) == [i \in 0..len |-> IF i = 0 THEN 0
                        ELSE f[i - 1] + (IF values[Bits(name)[i]] # Zero THEN 2^(i - 1) ELSE 0)]
           f == CHOOSE f : f = body(f)
           g == [i \in 0..len |-> 0]
<1>1. Bits(name) \in Seq(NetsOf(job)) /\ len \in Nat /\ \A i \in 1..len : i \in 1..Len(Bits(name))
  BY NetsOfNames DEF Typed
<1>2. \A i \in 1..len : values[Bits(name)[i]] = Zero
  BY <1>1 DEF DrivenBy, ToSet
<1> HIDE DEF len
<1>3. BusValue(name) = f[len]
  BY Zenon DEF BusValue, len
<1>4. g = body(g)
  <2>1. \A i \in 0..len : i # 0 => i \in 1..len /\ i - 1 \in 0..len
    BY <1>1
  <2> QED
    BY <1>2, <2>1
<1>5. f = body(f)
  <2> HIDE DEF g, body
  <2> QED
    BY <1>4, Zenon
<1> HIDE DEF f, g
<1>6. \A i \in 0..len : f[i] = IF i = 0 THEN 0
                        ELSE f[i - 1] + (IF values[Bits(name)[i]] # Zero THEN 2^(i - 1) ELSE 0)
  <2>1. f = [i \in 0..len |-> IF i = 0 THEN 0
                        ELSE f[i - 1] + (IF values[Bits(name)[i]] # Zero THEN 2^(i - 1) ELSE 0)]
    BY <1>5, Zenon
  <2> QED
    BY <2>1
<1> DEFINE U == { i \in 0..len : f[i] = 0 }
<1>7. 0 \in U
  BY <1>1, <1>6
<1>8. ASSUME NEW i \in 0 .. len - 1, i \in U PROVE i + 1 \in U
  <2>1. i + 1 \in 0..len /\ i + 1 \in 1..len /\ i + 1 # 0 /\ (i + 1) - 1 = i
    BY <1>1
  <2>2. f[i + 1] = f[i] + 0
    BY <1>2, <1>6, <2>1
  <2> QED
    BY <1>8, <2>1, <2>2
<1> HIDE DEF U
<1>9. 0..len \subseteq U
  BY <1>1, <1>7, <1>8, IntervalBySets
<1>10. BusValue(name) = 0
  <2>1. len \in U
    BY <1>1, <1>9
  <2> QED
    BY <1>3, <2>1 DEF U
<1>11. Whole(name) # {} => values[NetOf(name)] = {}
  <2>1. Whole(name) # {} => NetOf(name) \in DrivenBy(name)
    BY NetsOfNames DEF DrivenBy, Typed
  <2> QED
    BY <2>1 DEF Zero
<1> QED
  BY <1>10, <1>11 DEF ReadValue, Bit

(* The testbench made for a clocked design gives it the cycles asked for,  *)
(* and two with the reset on, and leaves the reset off, whatever the       *)
(* design: auto_testbench() and the executor that runs its commands.       *)
THEOREM AutoGivesTheCycles == ToolSpec => []AutoRunsTheCycles
<1>1. ToolInit => AutoInv
  BY DEF ToolInit, TbInit, AutoInv
<1>2. ToolInv /\ ToolInv' /\ AutoInv /\ [ToolNext]_toolVars => AutoInv'
  BY AutoKeeps
<1>3. ToolInv /\ AutoInv => AutoRunsTheCycles
  <2> SUFFICES ASSUME ToolInv, AutoInv,
                      stage = "done", argv.testbench = "auto", argv.command \in {"sim", "verify"}, clocks # <<>>,
                      InputsFree
               PROVE  /\ cycles = CyclesAsked(argv.cycles) + (IF HasReset(Made) THEN 2 ELSE 0)
                      /\ HasReset(Made) => ReadValue(ResetName) = 0
    BY DEF AutoRunsTheCycles, InputsFree, Made, ClockName, ResetName
  <2>1. AutoRuns
    BY DEF AutoRuns
  <2>2. ~Quiet
    BY DEF Quiet
  <2>3. Begun /\ todo = <<>> /\ wait = NoWait
    BY <2>1, <2>2 DEF AutoInv
  <2>4. ~late /\ Ticking /\ (Resetting \/ Counting)
    BY <2>3 DEF Begun
  <2>5. Typed /\ Ahead /\ Phase /\ Asked \in Nat /\ Asked > 0
    BY <2>1, AskedIs DEF ToolInv
  <2>6. ~Resetting
    <3>1. \A k \in 1..4 : ResetTodo(k) # <<>>
      BY ResetTodoIs
    <3>2. 4 \in 1..4 /\ \A k \in 1..3 : k \in 1..4
      OBVIOUS
    <3> QED
      BY <2>3, <3>1, <3>2, Zenon DEF Resetting, ResettingAt
  <2>7. ResetIsOff /\ \E n \in 0..Asked : CountingAt(wait, time, todo, n)
    BY <2>4, <2>6 DEF Counting
  <2>8. time = After(Asked)
    BY <2>3, <2>7 DEF CountingAt, Between, Asking, InEdge, Over
  <2>9. time = Start + 10 * Asked - 5 /\ Start = IF HasReset(Made) THEN 20 ELSE 0
    BY <2>5, <2>8 DEF After, Start
  <2>10. cycles = Asked + (IF HasReset(Made) THEN 2 ELSE 0)
    <3>1. /\ cycles \in Nat /\ clocks[1].toggle > time
          /\ \/ clocks[1].toggle = 10 * cycles /\ 10 * cycles <= time + 5
             \/ clocks[1].toggle = 10 * cycles + 5 /\ 10 * cycles <= time
      BY <2>4, <2>5, ClockAt
    <3> QED
      BY <2>5, <2>9, <3>1
  <2>11. HasReset(Made) => ReadValue(ResetName) = 0
    BY <2>5, <2>7, ReadsZero DEF ResetIsOff
  <2> QED
    BY <2>10, <2>11 DEF Asked
<1> QED
  BY <1>1, <1>2, <1>3, ToolInvariant, PTL DEF ToolSpec
=============================================================================
