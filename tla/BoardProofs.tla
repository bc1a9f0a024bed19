---------------------------- MODULE BoardProofs -----------------------------
(***************************************************************************)
(* Theorems about Board, for every design, core size, set of virtual I/Os  *)
(* and set of pins:                                                        *)
(*                                                                         *)
(*   - the pins keep to the table of safe ones and to their mappings;      *)
(*   - what the firmware calls of its core is a behaviour of VFpgaCore, so *)
(*     that the theorems of VFpgaCoreProofs hold of the core on the board. *)
(***************************************************************************)
EXTENDS Board, DataLemmas

(* The theorems about the core, with the constants the board gives it.     *)
CoreProofs == INSTANCE VFpgaCoreProofs WITH
  Sizes <- {CoreSize}, Configs <- Designs, InputWords <- Levels, MaxCycles <- 0

(* What VFpgaCore assumes of its constants is true of these.               *)
LEMMA CoreAssumptions ==
  /\ {CoreSize} \subseteq [signals : Nat \ {0}, luts : Nat \ {0}, ffs : Nat]
  /\ \A cfg \in Designs : CoreProofs!IsConfig(cfg)
  /\ Levels \subseteq CoreProofs!Word
  /\ 0 \in Nat
  /\ Debris # {}
  /\ \A debris \in Debris : \A n \in DOMAIN debris : debris[n] \in CoreProofs!Word
<1>1. \A cfg \in Designs : CoreProofs!IsConfig(cfg)
  BY DesignsAssumption
  DEF Designs, IsConfig, Word, MappedLut, Net, TruthTable, MappedFf, CoreProofs!IsConfig, CoreProofs!Word,
      CoreProofs!MappedLut, CoreProofs!Net, CoreProofs!TruthTable, CoreProofs!MappedFf
<1>2. Levels \subseteq CoreProofs!Word
  BY LanesAssumption DEF Levels, CoreProofs!Word, Zero, AllOnes, One
<1>3. /\ Debris # {}
      /\ \A debris \in Debris : \A n \in DOMAIN debris : debris[n] \in CoreProofs!Word
  BY BoardDebrisAssumption DEF Word, CoreProofs!Word
<1> QED
  BY <1>1, <1>2, <1>3, CoreSizeAssumption

(* It is the core of the board.                                            *)
LEMMA SameCore ==
  /\ Core!Init <=> CoreProofs!Init
  /\ Core!vars = CoreProofs!vars
  /\ UNCHANGED Core!vars <=> UNCHANGED CoreProofs!vars
  /\ Core!Next <=> CoreProofs!Next
<1> USE DEF
    Core!Next, CoreProofs!Next, Core!Init, CoreProofs!Init, Core!CoreInit,
    CoreProofs!CoreInit, Core!Freed, CoreProofs!Freed, Core!Needed, CoreProofs!Needed,
    Core!Cleared, CoreProofs!Cleared, Core!NoCapacity, CoreProofs!NoCapacity,
    Core!Buffers, CoreProofs!Buffers, Core!Destroy, CoreProofs!Destroy, Core!Reset,
    CoreProofs!Reset, Core!LoadConfig, CoreProofs!LoadConfig, Core!LoadedLuts, CoreProofs!LoadedLuts, Core!LoadedFfs,
    CoreProofs!LoadedFfs, Core!LoadLut, CoreProofs!LoadLut, Core!Taken,
    CoreProofs!Taken, Core!WriteInput, CoreProofs!WriteInput, Core!Enter,
    CoreProofs!Enter, Core!EvaluateCombinational, CoreProofs!EvaluateCombinational,
    Core!Clock, CoreProofs!Clock, Core!RunCycles, CoreProofs!RunCycles,
    Core!EvaluateBatch4, CoreProofs!EvaluateBatch4, Core!EvaluateRemainder,
    CoreProofs!EvaluateRemainder, Core!EvaluateDone, CoreProofs!EvaluateDone,
    Core!ClockFf, CoreProofs!ClockFf, Core!ClockDone, CoreProofs!ClockDone,
    Core!Compute, CoreProofs!Compute, Core!vars, CoreProofs!vars, Core!memory,
    CoreProofs!memory, Core!design, CoreProofs!design, Core!Zero, CoreProofs!Zero,
    Core!LutOut, CoreProofs!LutOut, Core!Evaluate, CoreProofs!Evaluate, Core!Bit,
    CoreProofs!Bit, Core!Found, CoreProofs!Found, Core!Written, CoreProofs!Written,
    Core!Store, CoreProofs!Store, Core!EvaluateOne, CoreProofs!EvaluateOne, Core!Net,
    CoreProofs!Net, Zero, LutOut, Evaluate, Bit, Net
<1>1. Core!Init <=> CoreProofs!Init
  OBVIOUS
<1>2. Core!vars = CoreProofs!vars /\ (UNCHANGED Core!vars <=> UNCHANGED CoreProofs!vars)
  OBVIOUS
<1>3. Core!Next <=> CoreProofs!Next
  OBVIOUS
<1> QED
  BY <1>1, <1>2, <1>3
-----------------------------------------------------------------------------
(* The calls of a function *)

PinCalls == [call : {"pin"}, gpio : {4, LedPin}, mode : {"input", "output"}, level : {0, 1}]
SetupCalls == [call : {"table", "begin"}] \cup PinCalls

(* Ids are the net ids a function names; those of nets its design does not *)
(* have may be anything.                                                   *)
InnerCalls(Ids) ==
  [call : {"evaluate", "clock", "commit"}]
    \cup [call : {"write"}, id : Ids, word : Levels]
    \cup [call : {"report"}, vector : Seq({0, 1})]
    \cup [call : {"set"}, vio : {0}, id : Ids]
FunctionCalls(Ids) ==
  InnerCalls(Ids) \cup [call : {"init", "load", "destroy"}]

Has(calls, name) == \E i \in 1..Len(calls) : calls[i].call = name
DestroyLast(calls) == \A i \in 1..Len(calls) : calls[i].call = "destroy" => i = Len(calls)

(* A flattened sequence has the elements of the sequences it is made of.   *)
LEMMA FlattenStays ==
  ASSUME NEW S, NEW n \in Nat, NEW s \in [1..n -> Seq(S)]
  PROVE  FlattenSeq(s) \in Seq(S)
<1> DEFINE T == Seq(S)
           steps == [k \in 1..n |-> [x \in T |-> x \o s[k]]]
           body(f, i) == IF i = 1 THEN s[i] ELSE f[i - 1] \o s[i]
           flatten == CHOOSE f : f = [i \in 1..n |-> body(f, i)]
<1>1. Len(s) = n /\ s \in Seq(Seq(S))
  BY LengthOf
<1>2. CASE n = 0
  <2>1. s = <<>>
    BY <1>1, <1>2
  <2>2. FlattenSeq(s) = s
    BY <1>1, <1>2 DEF FlattenSeq
  <2>3. <<>> \in Seq(S)
    OBVIOUS
  <2> QED
    BY <2>1, <2>2, <2>3, Zenon
<1>3. CASE n # 0
  <2>1. \A k \in 1..n, x \in T : x \o s[k] \in T
    OBVIOUS
  <2>2. steps \in [1..n -> [T -> T]] /\ <<>> \in T
    BY <2>1
  <2>3. PICK f \in [0..n -> T] : Recursive(f, n, <<>>, steps)
    <3> HIDE DEF steps, T
    <3> QED
      BY <2>2, RecursionExists
  <2>4. ASSUME NEW k \in 1..n PROVE f[k] = f[k - 1] \o s[k] /\ f[k] \in T
    <3>1. k - 1 \in 0..n /\ k \in 0..n /\ k # 0
      OBVIOUS
    <3>2. f[k] = steps[k][f[k - 1]]
      BY <2>3, <3>1, Zenon DEF Recursive
    <3> QED
      BY <3>1, <3>2
  <2>5. f[0] = <<>>
    BY <2>3 DEF Recursive
  <2> DEFINE g == [i \in 1..n |-> f[i]]
  <2>6. \A i \in 1..n : g[i] = body(g, i)
    <3>1. \A i \in 1..n : i # 1 => i - 1 \in 1..n
      OBVIOUS
    <3>2. 1 \in 1..n /\ 1 - 1 = 0
      BY <1>3
    <3>3. f[1] = s[1]
      <4>1. f[1] = <<>> \o s[1]
        BY <2>4, <2>5, <3>2
      <4>2. s[1] \in Seq(S)
        BY <3>2
      <4> QED
        BY <4>1, <4>2
    <3> QED
      BY <2>4, <3>1, <3>3
  <2> HIDE DEF body
  <2>7. g = [i \in 1..n |-> body(g, i)]
    BY <2>6
  <2>8. flatten = [i \in 1..n |-> body(flatten, i)]
    BY <2>7, Zenon
  <2> HIDE DEF flatten
  <2>9. \A i \in 1..n : flatten[i] = IF i = 1 THEN s[i] ELSE flatten[i - 1] \o s[i]
    BY <2>8 DEF body
  <2> DEFINE U == {k \in 0..n : k = 0 \/ flatten[k] \in T}
  <2>10. 0 \in U
    BY <1>3
  <2>11. ASSUME NEW k \in 0 .. n - 1, k \in U PROVE k + 1 \in U
    <3>1. k + 1 \in 1..n /\ (k + 1) - 1 = k /\ k + 1 \in 0..n
      OBVIOUS
    <3>2. CASE k = 0
      BY <2>9, <3>1, <3>2
    <3>3. CASE k # 0
      <4>1. flatten[k] \in T /\ k + 1 # 1
        BY <2>11, <3>3
      <4>2. flatten[k + 1] = flatten[k] \o s[k + 1]
        BY <2>9, <3>1, <4>1
      <4>3. flatten[k] \o s[k + 1] \in T
        BY <3>1, <4>1
      <4> HIDE DEF T
      <4> QED
        BY <3>1, <4>2, <4>3
    <3> QED
      BY <3>2, <3>3
  <2> HIDE DEF U
  <2>12. 0..n \subseteq U
    BY <2>10, <2>11, IntervalBySets
  <2>13. flatten[n] \in T
    BY <1>3, <2>12 DEF U
  <2>14. FlattenSeq(s) = flatten[n]
    BY <1>1, <1>3, Zenon DEF FlattenSeq, flatten, body
  <2> QED
    BY <2>13, <2>14
<1> QED
  BY <1>2, <1>3

(* What Try() and the two ways to run a design call.                       *)
LEMMA TryCalls ==
  ASSUME NEW c, NEW Ids, \A i \in Nat : c.ins[i].id \in Ids, NEW vector \in Seq({0, 1})
  PROVE  Try(c, vector) \in Seq(InnerCalls(Ids))
<1> DEFINE S == InnerCalls(Ids)
<1>1. \A i \in 1..Len(vector) : Writes(c, vector)[i] \in S
  BY DEF Writes, Write, InnerCalls, Levels
<1>2. Writes(c, vector) \in [1..Len(vector) -> S]
  BY <1>1 DEF Writes
<1>3. Writes(c, vector) \in Seq(S)
  BY <1>2, LengthOf
<1>4. Evaluate1 \in S /\ [call |-> "report", vector |-> vector] \in S
  BY DEF Evaluate1, InnerCalls
<1> HIDE DEF S
<1>5. <<Evaluate1, [call |-> "report", vector |-> vector]>> \in Seq(S)
  BY <1>4
<1>6. Try(c, vector) \in Seq(S)
  BY <1>3, <1>5 DEF Try
<1> QED
  BY <1>6 DEF S

(* A session of a clocked design writes to its own inputs only.            *)
LEMMA SequentialCalls ==
  ASSUME NEW Ids, NEW clk \in Ids, NEW rst \in Ids, NEW n \in Nat
  PROVE  Sequential(clk, rst, n) \in Seq(InnerCalls(Ids))
<1> DEFINE S == InnerCalls(Ids)
           report1 == [call |-> "report", vector |-> <<>>]
           cycle == <<Write(clk, One), Evaluate1, Clock1, report1, Write(clk, Zero), Evaluate1>>
           reset == <<Write(rst, One), Write(clk, Zero), Evaluate1, Clock1, Write(rst, Zero)>>
           all == [k \in 1..n |-> cycle]
<1>1. \A id \in Ids, w \in {Zero, One} : Write(id, w) \in S
  BY DEF Write, InnerCalls, Levels
<1>2. Evaluate1 \in S /\ Clock1 \in S /\ report1 \in S
  <2>1. <<>> \in Seq({0, 1})
    OBVIOUS
  <2> QED
    BY <2>1 DEF Evaluate1, Clock1, InnerCalls
<1> HIDE DEF S, report1
<1>3. cycle \in Seq(S) /\ reset \in Seq(S)
  BY <1>1, <1>2
<1> HIDE DEF cycle, reset
<1>4. all \in [1..n -> Seq(S)]
  BY <1>3
<1>5. FlattenSeq(all) \in Seq(S)
  <2> HIDE DEF all
  <2> QED
    BY <1>4, FlattenStays
<1>6. Sequential(clk, rst, n) = reset \o FlattenSeq(all)
  BY DEF Sequential, reset, cycle, report1
<1> HIDE DEF all
<1>7. reset \o FlattenSeq(all) \in Seq(S)
  BY <1>3, <1>5
<1> QED
  BY <1>6, <1>7 DEF S

(* The sizes of the levels that are written are numbers.                   *)
LEMMA PowersOfTwo ==
  ASSUME NEW m \in 0..8
  PROVE  2^m \in Nat \ {0}
<1>1. CASE m = 0
  <2>1. 2^m = 2^0
    BY <1>1
  <2>2. 2^0 = 1
    OBVIOUS
  <2> QED
    BY <2>1, <2>2
<1>2. CASE m = 1
  <2>1. 2^m = 2^1
    BY <1>2
  <2>2. 2^1 = 2
    OBVIOUS
  <2> QED
    BY <2>1, <2>2
<1>3. CASE m = 2
  <2>1. 2^m = 2^2
    BY <1>3
  <2>2. 2^2 = 4
    OBVIOUS
  <2> QED
    BY <2>1, <2>2
<1>4. CASE m = 3
  <2>1. 2^m = 2^3
    BY <1>4
  <2>2. 2^3 = 8
    OBVIOUS
  <2> QED
    BY <2>1, <2>2
<1>5. CASE m = 4
  <2>1. 2^m = 2^4
    BY <1>5
  <2>2. 2^4 = 16
    OBVIOUS
  <2> QED
    BY <2>1, <2>2
<1>6. CASE m = 5
  <2>1. 2^m = 2^5
    BY <1>6
  <2>2. 2^5 = 32
    OBVIOUS
  <2> QED
    BY <2>1, <2>2
<1>7. CASE m = 6
  <2>1. 2^m = 2^6
    BY <1>7
  <2>2. 2^6 = 64
    OBVIOUS
  <2> QED
    BY <2>1, <2>2
<1>8. CASE m = 7
  <2>1. 2^m = 2^7
    BY <1>8
  <2>2. 2^7 = 128
    OBVIOUS
  <2> QED
    BY <2>1, <2>2
<1>9. CASE m = 8
  <2>1. 2^m = 2^8
    BY <1>9
  <2>2. 2^8 = 256
    OBVIOUS
  <2> QED
    BY <2>1, <2>2
<1> QED
  BY <1>1, <1>2, <1>3, <1>4, <1>5, <1>6, <1>7, <1>8, <1>9

(* The values of up to eight inputs.                                       *)
LEMMA VectorsAre ==
  ASSUME NEW n \in 1..8
  PROVE  Vectors(n) \in Seq(Seq({0, 1}))
<1>1. 2^n \in Nat
  <2>1. n \in 0..8
    OBVIOUS
  <2> QED
    BY <2>1, PowersOfTwo
<1>2. ASSUME NEW k \in 1 .. 2^n
      PROVE  [i \in 1..n |-> ((k - 1) \div 2^(i - 1)) % 2] \in Seq({0, 1})
  <2> DEFINE v == [i \in 1..n |-> ((k - 1) \div 2^(i - 1)) % 2]
  <2>1. ASSUME NEW i \in 1..n PROVE v[i] \in {0, 1}
    <3>1. i - 1 \in 0..8
      OBVIOUS
    <3>3. 2^(i - 1) \in Nat \ {0}
      BY <3>1, PowersOfTwo
    <3>4. k - 1 \in Nat
      BY <1>1
    <3>5. \A p \in Nat \ {0}, q \in Nat : (q \div p) % 2 \in {0, 1}
      OBVIOUS
    <3> QED
      BY <3>1, <3>3, <3>4, <3>5
  <2>2. v \in [1..n -> {0, 1}]
    BY <2>1
  <2> HIDE DEF v
  <2>3. v \in Seq({0, 1})
    BY <2>2, LengthOf
  <2> QED
    BY <2>3 DEF v
<1> DEFINE m == 2^n
           all == [k \in 1..m |-> [i \in 1..n |-> ((k - 1) \div 2^(i - 1)) % 2]]
<1>3. all \in [1..m -> Seq({0, 1})] /\ m \in Nat
  BY <1>1, <1>2
<1> HIDE DEF m
<1>4. Vectors(n) = all
  BY Zenon DEF Vectors, m
<1> HIDE DEF all
<1>5. all \in Seq(Seq({0, 1}))
  BY <1>3, LengthOf
<1> QED
  BY <1>4, <1>5

-----------------------------------------------------------------------------
(* The functions *)

MapCalls == [call : {"map"}, vio : {0}, gpio : {LedPin}]

(* The functions but the two that prepare the board.                       *)
Running == {2, 4, 5, 6, 7}

(* The functions of main.cpp, in their order.                              *)
LEMMA TheFunctions ==
  /\ Len(Functions) = 7
  /\ \A j \in 1..7 : Functions[j] \in Preparing <=> j \notin Running
  /\ \A j \in 1..7 : Functions[j] = "main" => j = 1
  /\ \A j \in 1..7 : Functions[j] = "blinker" => j = 7
  /\ \A j \in 1..7 : j \in Running => Functions[j] \in {"user", "and_gate", "counter", "lfsr", "blinker"}
BY DEF Functions, Preparing, Running

(* An input's values, cut to the inputs there are.                         *)
LEMMA CombinationalCalls ==
  ASSUME NEW c, NEW Ids, \A i \in Nat : c.ins[i].id \in Ids, Len(c.ins) \in Nat,
         c.design.tests \in Seq(Seq({0, 1}))
  PROVE  Combinational(c) \in Seq(InnerCalls(Ids))
<1> DEFINE n     == Len(c.ins)
           tests == c.design.tests
           tried == IF tests # <<>> THEN [t \in 1..Len(tests) |-> Cut(tests[t], n)]
                    ELSE IF n \in 1..8 THEN Vectors(n) ELSE <<>>
           all   == [t \in 1..Len(tried) |-> Try(c, tried[t])]
<1>1. \A t \in 1..Len(tests) : Cut(tests[t], n) \in Seq({0, 1})
  <2> SUFFICES ASSUME NEW t \in 1..Len(tests) PROVE Cut(tests[t], n) \in Seq({0, 1})
    OBVIOUS
  <2>1. tests[t] \in Seq({0, 1})
    OBVIOUS
  <2> HIDE DEF n, tests
  <2>2. n \in Nat
    BY DEF n
  <2>3. \A s \in Seq({0, 1}) : \A m \in 0..Len(s) : SubSeq(s, 1, m) \in Seq({0, 1})
    OBVIOUS
  <2>4. (IF Len(tests[t]) < n THEN Len(tests[t]) ELSE n) \in 0..Len(tests[t])
    BY <2>1, <2>2
  <2> QED
    BY <2>1, <2>3, <2>4 DEF Cut
<1>2. tried \in Seq(Seq({0, 1}))
  <2>1. CASE tests # <<>>
    <3>1. [t \in 1..Len(tests) |-> Cut(tests[t], n)] \in [1..Len(tests) -> Seq({0, 1})]
      BY <1>1
    <3>2. Len(tests) \in Nat
      OBVIOUS
    <3> HIDE DEF n, tests
    <3>3. [t \in 1..Len(tests) |-> Cut(tests[t], n)] \in Seq(Seq({0, 1}))
      BY <3>1, <3>2, LengthOf
    <3> QED
      BY <2>1, <3>3
  <2>2. CASE ~(tests # <<>>)
    <3>1. <<>> \in Seq(Seq({0, 1}))
      OBVIOUS
    <3>2. n \in 1..8 => Vectors(n) \in Seq(Seq({0, 1}))
      <4> HIDE DEF n
      <4> QED
        BY VectorsAre
    <3> HIDE DEF n, tests
    <3> QED
      BY <2>2, <3>1, <3>2
  <2> QED
    BY <2>1, <2>2
<1> HIDE DEF tried
<1>3. all \in [1..Len(tried) -> Seq(InnerCalls(Ids))] /\ Len(tried) \in Nat
  <2>1. \A t \in 1..Len(tried) : tried[t] \in Seq({0, 1})
    BY <1>2
  <2>2. \A t \in 1..Len(tried) : Try(c, tried[t]) \in Seq(InnerCalls(Ids))
    BY <2>1, TryCalls
  <2> QED
    BY <1>2, <2>2
<1>4. Combinational(c) = FlattenSeq(all)
  BY Zenon DEF Combinational, tried
<1> HIDE DEF all
<1> QED
  BY <1>3, <1>4, FlattenStays

(* init() and load_config() before them, the destructor after.             *)
LEMMA SessionCalls ==
  ASSUME NEW Ids, NEW calls \in Seq(InnerCalls(Ids))
  PROVE  /\ Session(calls) \in Seq(FunctionCalls(Ids))
         /\ DestroyLast(Session(calls)) /\ ~Has(Session(calls), "map")
<1> DEFINE S == FunctionCalls(Ids)
           first == <<[call |-> "init"], [call |-> "load"]>>
           last == <<[call |-> "destroy"]>>
<1>1. first \in Seq(S) /\ last \in Seq(S) /\ calls \in Seq(S)
  <2>1. [call |-> "init"] \in S /\ [call |-> "load"] \in S /\ [call |-> "destroy"] \in S
    BY DEF FunctionCalls
  <2>2. InnerCalls(Ids) \subseteq S
    BY DEF FunctionCalls
  <2> HIDE DEF S
  <2> QED
    BY <2>1, <2>2
<1>2. \A i \in 1..Len(calls) : calls[i].call \notin {"destroy", "map"}
  <2>1. \A c \in InnerCalls(Ids) : c.call \notin {"destroy", "map"}
    BY DEF InnerCalls
  <2> QED
    BY <2>1
<1>3. /\ Len(first) = 2 /\ Len(last) = 1
      /\ \A i \in 1..2 : first[i].call \notin {"destroy", "map"}
      /\ last[1].call # "map"
  OBVIOUS
<1>4. Session(calls) = first \o calls \o last
  BY DEF Session
<1> HIDE DEF S, first, last
<1>5. first \o calls \o last \in Seq(S)
  BY <1>1
<1> DEFINE all == first \o calls \o last
<1>6. /\ Len(all) = Len(calls) + 3 /\ Len(calls) \in Nat
      /\ \A i \in 1..2 : all[i] = first[i]
      /\ \A i \in 1..Len(calls) : all[i + 2] = calls[i]
      /\ all[Len(calls) + 3] = last[1]
  <2> DEFINE front == first \o calls
  <2>1. /\ front \in Seq(S) /\ Len(front) = Len(calls) + 2 /\ Len(calls) \in Nat
        /\ \A i \in 1..2 : front[i] = first[i]
        /\ \A i \in 1..Len(calls) : front[i + 2] = calls[i]
    <3>1. /\ front \in Seq(S) /\ Len(front) = Len(first) + Len(calls)
          /\ \A i \in 1 .. Len(first) + Len(calls) :
               front[i] = IF i <= Len(first) THEN first[i] ELSE calls[i - Len(first)]
      BY <1>1, ConcatProperties
    <3>2. Len(calls) \in Nat
      BY <1>1
    <3> HIDE DEF front
    <3>3. \A i \in 1..Len(calls) : i + 2 \in 1 .. Len(calls) + 2 /\ (i + 2) - 2 = i /\ ~(i + 2 <= 2)
      BY <3>2
    <3>4. \A i \in 1..2 : i \in 1 .. 2 + Len(calls) /\ i <= 2
      BY <3>2
    <3> QED
      BY <1>3, <3>1, <3>2, <3>3, <3>4
  <2>2. all = front \o last
    OBVIOUS
  <2> HIDE DEF front, all
  <2>3. /\ Len(front \o last) = Len(front) + 1
        /\ \A i \in 1..Len(front) : (front \o last)[i] = front[i]
        /\ (front \o last)[Len(front) + 1] = last[1]
    <3>1. front \in Seq(S) /\ last \in Seq(S) /\ Len(last) = 1 /\ Len(front) \in Nat
      BY <1>1, <1>3, <2>1
    <3>2. /\ Len(front \o last) = Len(front) + Len(last)
          /\ \A i \in 1 .. Len(front) + Len(last) :
               (front \o last)[i] = IF i <= Len(front) THEN front[i] ELSE last[i - Len(front)]
      BY <3>1, ConcatProperties
    <3> QED
      BY <3>1, <3>2
  <2> QED
    BY <2>1, <2>2, <2>3
<1> HIDE DEF all
<1>7. ASSUME NEW i \in 1 .. Len(calls) + 2
      PROVE  all[i].call \notin {"destroy", "map"}
  <2>1. CASE i <= 2
    BY <1>3, <1>6, <2>1
  <2>2. CASE i > 2
    <3>1. i - 2 \in 1..Len(calls) /\ (i - 2) + 2 = i
      BY <1>6, <2>2
    <3>2. all[i] = calls[i - 2]
      BY <1>6, <3>1
    <3> QED
      BY <1>2, <3>1, <3>2
  <2> QED
    BY <2>1, <2>2, <1>6
<1>8. Session(calls) = all
  BY <1>4 DEF all
<1>9. DestroyLast(Session(calls)) /\ ~Has(Session(calls), "map")
  BY <1>3, <1>6, <1>7, <1>8 DEF DestroyLast, Has
<1> QED
  BY <1>4, <1>5, <1>9 DEF S

(* The calls of the user's design, and of each demo.                       *)
LEMMA UserBody ==
  ASSUME NEW d \in UserDesigns
  PROVE  \E Ids : UserCalls(Compilation(d)) \in Seq(InnerCalls(Ids))
<1> DEFINE c == Compilation(d)
           clks == PortsNamed(c, {"clock", "clk"})
           rsts == PortsNamed(c, {"reset", "rst"})
           Ids == { c.ins[i].id : i \in Nat } \cup {LastOf(c, clks), LastOf(c, rsts)}
<1>1. d.cycles \in Nat /\ d.tests \in Seq(Seq({0, 1}))
  BY DesignsAssumption
<1>2. c.design = d /\ c.ins = Compiled[d.text].ins
  BY DEF Compilation
<1>3. Len(c.ins) \in Nat
  <2>1. d.text \in Texts
    BY DEF Texts
  <2>2. c.ins \in Seq([name : STRING, id : Net])
    BY <1>2, <2>1, DesignsAssumption
  <2> QED
    BY <2>2
<1> HIDE DEF c
<1>4. Combinational(c) \in Seq(InnerCalls(Ids))
  BY <1>1, <1>2, <1>3, CombinationalCalls
<1>5. Sequential(LastOf(c, clks), LastOf(c, rsts), c.design.cycles) \in Seq(InnerCalls(Ids))
  BY <1>1, <1>2, SequentialCalls
<1>6. <<>> \in Seq(InnerCalls(Ids))
  OBVIOUS
<1> HIDE DEF Ids
<1>7. UserCalls(c) \in Seq(InnerCalls(Ids))
  BY <1>4, <1>5, <1>6, Zenon DEF UserCalls, clks, rsts
<1> QED
  BY <1>7 DEF c

(* The calls between the two ends of a session of each demo.               *)
LEMMA DemoBodies ==
  ASSUME NEW c
  PROVE  /\ \E Ids : GateCalls(c) \in Seq(InnerCalls(Ids))
         /\ \A n \in Nat : \E Ids : CounterCalls(c, n) \in Seq(InnerCalls(Ids))
         /\ \E Ids : FlattenSeq([k \in 1..8 |-> Blink(c)]) \in Seq(InnerCalls(Ids))
<1> DEFINE Ids == { NetNamed(c, name) : name \in {"a", "b", "clock", "reset", "led"} }
           S == InnerCalls(Ids)
           report1 == [call |-> "report", vector |-> <<>>]
           set == [call |-> "set", vio |-> 0, id |-> NetNamed(c, "led")]
           commit == [call |-> "commit"]
<1>1. \A name \in {"a", "b", "clock", "reset", "led"} : NetNamed(c, name) \in Ids
  OBVIOUS
<1>2. \A id \in Ids, w \in Levels : Write(id, w) \in S
  BY DEF Write, InnerCalls
<1>3. Evaluate1 \in S /\ Clock1 \in S /\ report1 \in S /\ set \in S /\ commit \in S
  <2>1. <<>> \in Seq({0, 1})
    OBVIOUS
  <2> QED
    BY <1>1, <2>1 DEF Evaluate1, Clock1, InnerCalls
<1> HIDE DEF Ids
<1>4. GateCalls(c) \in Seq(S)
  <2>1. \A id \in {NetNamed(c, "a"), NetNamed(c, "b")}, w \in {AllOnes, Zero} : Write(id, w) \in S
    BY <1>1, <1>2 DEF Levels
  <2> HIDE DEF S, report1
  <2>2. \A a, b : (Write(a, AllOnes) \in S /\ Write(b, AllOnes) \in S /\ Write(b, Zero) \in S) =>
          <<Write(a, AllOnes), Write(b, AllOnes), Evaluate1, report1,
            Write(a, AllOnes), Write(b, Zero), Evaluate1, report1>> \in Seq(S)
    BY <1>3
  <2> QED
    BY <2>1, <2>2 DEF GateCalls, report1
<1>5. \A n \in Nat : CounterCalls(c, n) \in Seq(S)
  BY <1>1, SequentialCalls DEF CounterCalls
<1>6. FlattenSeq([k \in 1..8 |-> Blink(c)]) \in Seq(S)
  <2> HIDE DEF S, set, commit
  <2>1. <<Evaluate1, Clock1, set, commit>> \in Seq(S)
    BY <1>3
  <2>2. Blink(c) \in Seq(S)
    BY <2>1 DEF Blink, set, commit
  <2>3. [k \in 1..8 |-> Blink(c)] \in [1..8 -> Seq(S)]
    BY <2>2
  <2> QED
    BY <2>3, FlattenStays
<1> QED
  BY <1>4, <1>5, <1>6

(* What a function that has begun is about to call.                        *)
Ready(calls, j) ==
  /\ \E Ids : calls \in Seq(FunctionCalls(Ids) \cup MapCalls)
  /\ DestroyLast(calls)
  /\ Has(calls, "map") => j = 7

(* A session begins by making its core and ends by destroying it.          *)
LEMMA SessionReady ==
  ASSUME NEW Ids, NEW calls \in Seq(InnerCalls(Ids)), NEW j
  PROVE  /\ Ready(Session(calls), j)
         /\ Ready(<<[call |-> "map", vio |-> 0, gpio |-> LedPin]>> \o Session(calls), 7)
<1> DEFINE S == FunctionCalls(Ids) \cup MapCalls
           s == Session(calls)
           map == [call |-> "map", vio |-> 0, gpio |-> LedPin]
<1>1. s \in Seq(S) /\ DestroyLast(s) /\ ~Has(s, "map")
  <2>1. s \in Seq(FunctionCalls(Ids)) /\ DestroyLast(s) /\ ~Has(s, "map")
    BY SessionCalls
  <2>2. FunctionCalls(Ids) \subseteq S
    OBVIOUS
  <2> HIDE DEF S, s
  <2> QED
    BY <2>1, <2>2
<1>2. map \in S /\ map.call # "destroy"
  BY DEF MapCalls
<1> HIDE DEF map, s, S
<1>3. <<map>> \in Seq(S) /\ Len(<<map>>) = 1 /\ <<map>>[1] = map
  BY <1>2
<1>4. /\ <<map>> \o s \in Seq(S) /\ Len(<<map>> \o s) = 1 + Len(s)
      /\ \A i \in 1 .. 1 + Len(s) : (<<map>> \o s)[i] = IF i <= 1 THEN <<map>>[1] ELSE s[i - 1]
  <2>1. /\ <<map>> \o s \in Seq(S) /\ Len(<<map>> \o s) = Len(<<map>>) + Len(s)
        /\ \A i \in 1 .. Len(<<map>>) + Len(s) :
             (<<map>> \o s)[i] = IF i <= Len(<<map>>) THEN <<map>>[i] ELSE s[i - Len(<<map>>)]
    BY <1>1, <1>3, ConcatProperties
  <2>2. \A i \in 1 .. 1 + Len(s) : i <= 1 => i = 1
    BY <1>1
  <2> QED
    BY <1>3, <2>1, <2>2
<1>5. DestroyLast(<<map>> \o s)
  <2> SUFFICES ASSUME NEW i \in 1 .. Len(s) + 1, (<<map>> \o s)[i].call = "destroy"
               PROVE  i = Len(s) + 1
    BY <1>1, <1>4 DEF DestroyLast
  <2>1. i # 1 /\ Len(s) \in Nat
    BY <1>1, <1>2, <1>3, <1>4
  <2>2. i - 1 \in 1..Len(s) /\ ~(i <= 1) /\ i \in 1 .. 1 + Len(s)
    BY <2>1
  <2>3. s[i - 1].call = "destroy"
    BY <1>4, <2>2
  <2>4. i - 1 = Len(s)
    BY <1>1, <2>2, <2>3 DEF DestroyLast
  <2> QED
    BY <2>1, <2>4
<1>6. Ready(<<map>> \o s, 7)
  BY <1>4, <1>5 DEF Ready, S
<1>7. Ready(s, j)
  BY <1>1 DEF Ready, S
<1> QED
  BY <1>6, <1>7 DEF map, s

(* The calls of each function of main.cpp are such a session.              *)
LEMMA FunctionReady ==
  ASSUME NEW j \in Running, NEW d,
         IF Functions[j] = "user" THEN d \in UserDesigns ELSE d = Demos[Functions[j]]
  PROVE  Ready(CallsOf(Functions[j], Compilation(d)), j) /\ Compilation(d).cfg \in Designs
<1> DEFINE c == Compilation(d)
<1>1. Functions[j] \in {"user", "and_gate", "counter", "lfsr", "blinker"}
      /\ (Functions[j] = "blinker" => j = 7)
  BY TheFunctions DEF Running
<1>2. c.cfg \in Designs
  <2>1. d.text \in Texts
    BY <1>1, DesignsAssumption DEF Texts
  <2> QED
    BY <2>1 DEF Compilation, Designs
<1>3. CASE Functions[j] = "user"
  <2>1. PICK Ids : UserCalls(c) \in Seq(InnerCalls(Ids))
    BY <1>3, UserBody
  <2>2. CallsOf(Functions[j], c) = Session(UserCalls(c))
    BY <1>3 DEF CallsOf
  <2> QED
    BY <1>2, <2>1, <2>2, SessionReady
<1>4. CASE Functions[j] = "and_gate"
  <2>1. PICK Ids : GateCalls(c) \in Seq(InnerCalls(Ids))
    BY DemoBodies
  <2>2. CallsOf(Functions[j], c) = Session(GateCalls(c))
    BY <1>4 DEF CallsOf
  <2> QED
    BY <1>2, <2>1, <2>2, SessionReady
<1>5. CASE Functions[j] \in {"counter", "lfsr"}
  <2>1. PICK n \in Nat : CallsOf(Functions[j], c) = Session(CounterCalls(c, n))
    <3>1. CASE Functions[j] = "counter"
      BY <3>1 DEF CallsOf
    <3>2. CASE Functions[j] = "lfsr"
      BY <3>2 DEF CallsOf
    <3> QED
      BY <1>5, <3>1, <3>2
  <2>2. PICK Ids : CounterCalls(c, n) \in Seq(InnerCalls(Ids))
    BY DemoBodies
  <2> QED
    BY <1>2, <2>1, <2>2, SessionReady
<1>6. CASE Functions[j] = "blinker"
  <2>1. PICK Ids : FlattenSeq([k \in 1..8 |-> Blink(c)]) \in Seq(InnerCalls(Ids))
    BY DemoBodies
  <2>2. CallsOf(Functions[j], c) =
          <<[call |-> "map", vio |-> 0, gpio |-> LedPin]>> \o Session(FlattenSeq([k \in 1..8 |-> Blink(c)]))
    BY <1>6 DEF CallsOf
  <2> QED
    BY <1>1, <1>2, <1>6, <2>1, <2>2, SessionReady
<1> QED
  BY <1>1, <1>3, <1>4, <1>5, <1>6

-----------------------------------------------------------------------------
(***************************************************************************)
(* The invariant.  That the pins follow their mappings needs that none is  *)
(* mapped while the board is tested, and that the bridge asks its table    *)
(* from the second function on; so it needs what the calls to come are.    *)
(***************************************************************************)
CallsInv ==
  /\ job \in 0..7
  /\ job = 0 => todo = <<>>
  /\ job \in {1, 3} => todo \in Seq(SetupCalls)
  /\ job \in Running => Ready(todo, job)
  /\ Has(todo, "load") => made.cfg \in Designs

PinsInv ==
  /\ pins = [g \in Gpios |-> [mode |-> pins[g].mode, level |-> pins[g].level]]
  /\ mappings = [v \in DOMAIN mappings |->
                   [gpio |-> mappings[v].gpio, is_input |-> mappings[v].is_input, value |-> mappings[v].value]]
  /\ \A v \in DOMAIN mappings : mappings[v].gpio \in Gpios
  /\ PinsFollowMappings

StageInv ==
  /\ job < 7 => DOMAIN mappings = {}
  /\ job = 1 => (begun \/ Has(todo, "begin")) /\ (safe = SafeGpios \/ Has(todo, "table"))
  /\ job > 1 => begun /\ safe = SafeGpios

CoreInv == CoreProofs!Safe /\ (phase = "idle" => start = signals)

BoardInv == CallsInv /\ PinsInv /\ StageInv /\ CoreInv

(* The next call, and what is left after it.                               *)
LEMMA NextCall ==
  ASSUME CallsInv, todo # <<>>
  PROVE  /\ job \in 1..7
         /\ job \in {1, 3} => This \in SetupCalls
         /\ job \in Running => \E Ids : This \in FunctionCalls(Ids) \cup MapCalls
         /\ This.call = "map" => job = 7
         /\ This.call = "load" => made.cfg \in Designs
         /\ This.call = "destroy" => Tail(todo) = <<>>
<1> DEFINE Of(S) == todo \in Seq(S)
<1>1. job \in 0..7 /\ job # 0 /\ (job \notin Running => job \in {1, 3})
  BY DEF CallsInv, Running
<1>2. \E S : Of(S)
  <2>1. CASE job \in Running
    <3>1. \E Ids : todo \in Seq(FunctionCalls(Ids) \cup MapCalls)
      BY <2>1 DEF CallsInv, Ready
    <3> QED
      BY <3>1
  <2> QED
    BY <1>1, <2>1 DEF CallsInv
<1>3. PICK S : todo \in Seq(S)
  BY <1>2
<1>4. Len(todo) \in Nat /\ Len(todo) >= 1 /\ This = todo[1]
  BY <1>3 DEF This
<1>5. \A T : todo \in Seq(T) => This \in T
  BY <1>4
<1>6. This.call = "load" => Has(todo, "load")
  BY <1>4 DEF Has
<1>7. job \in {1, 3} => This.call \in {"table", "begin", "pin"}
  BY <1>5 DEF CallsInv, SetupCalls, PinCalls
<1>8. This.call = "map" => job = 7
  BY <1>1, <1>4, <1>7 DEF CallsInv, Ready, Has
<1>9. This.call = "destroy" => Tail(todo) = <<>>
  <2> SUFFICES ASSUME This.call = "destroy" PROVE Tail(todo) = <<>>
    OBVIOUS
  <2>1. DestroyLast(todo)
    BY <1>1, <1>7 DEF CallsInv, Ready
  <2>2. Len(todo) = 1
    <3>1. 1 \in 1..Len(todo) /\ todo[1].call = "destroy"
      BY <1>4
    <3> QED
      BY <2>1, <3>1, Zenon DEF DestroyLast
  <2>3. /\ Tail(todo) \in Seq(S) /\ Len(Tail(todo)) = 0
    BY <1>3, <2>2, HeadTailProperties
  <2> QED
    BY <2>3, EmptySeq
<1>10. job \in Running => \E Ids : This \in FunctionCalls(Ids) \cup MapCalls
  <2> SUFFICES ASSUME job \in Running PROVE \E Ids : This \in FunctionCalls(Ids) \cup MapCalls
    OBVIOUS
  <2>1. PICK Ids : todo \in Seq(FunctionCalls(Ids) \cup MapCalls)
    BY DEF CallsInv, Ready
  <2> QED
    BY <1>5, <2>1
<1>11. job \in 1..7
  BY <1>1
<1> QED
  BY <1>5, <1>6, <1>8, <1>9, <1>10, <1>11, Zenon DEF CallsInv

(* A call that is done, or gives up the others, leaves the rest as it was. *)
LEMMA TailStays ==
  ASSUME CallsInv, todo # <<>>, todo' \in {Tail(todo), <<>>}, UNCHANGED job,
         UNCHANGED made \/ todo' = <<>>
  PROVE  CallsInv'
<1>1. \E S : todo \in Seq(S)
  <2>1. job \in Running \/ job \in {1, 3}
    BY DEF CallsInv, Running
  <2>2. CASE job \in Running
    <3>1. \E Ids : todo \in Seq(FunctionCalls(Ids) \cup MapCalls)
      BY <2>2 DEF CallsInv, Ready
    <3> QED
      BY <3>1
  <2> QED
    BY <2>1, <2>2 DEF CallsInv
<1>2. PICK S : todo \in Seq(S)
  BY <1>1
<1>3. ASSUME NEW T, todo \in Seq(T) PROVE todo' \in Seq(T)
  <2>1. Tail(todo) \in Seq(T) /\ <<>> \in Seq(T)
    BY <1>3, HeadTailProperties
  <2> QED
    BY <2>1
<1>4. /\ Len(todo') \in Nat /\ Len(todo) \in Nat
      /\ Len(todo') # 0 => Len(todo) = Len(todo') + 1
      /\ \A i \in 1..Len(todo') : i + 1 \in 1..Len(todo) /\ todo'[i] = todo[i + 1]
  <2>1. CASE todo' = <<>>
    BY <1>2, <2>1
  <2>2. CASE todo' = Tail(todo)
    <3>1. /\ Tail(todo) \in Seq(S) /\ Len(Tail(todo)) = Len(todo) - 1
          /\ \A i \in 1..Len(Tail(todo)) : Tail(todo)[i] = todo[i + 1]
      BY <1>2, HeadTailProperties
    <3>2. Len(todo) \in Nat /\ Len(todo) > 0
      BY <1>2
    <3> QED
      BY <2>2, <3>1, <3>2
  <2> QED
    BY <2>1, <2>2
<1>5. \A name : Has(todo', name) => Has(todo, name)
  BY <1>4 DEF Has
<1>6. DestroyLast(todo) => DestroyLast(todo')
  BY <1>4 DEF DestroyLast
<1>7. job \in Running => Ready(todo', job)
  BY <1>3, <1>5, <1>6 DEF CallsInv, Ready
<1>8. Has(todo', "load") => made'.cfg \in Designs
  <2>1. ~Has(<<>>, "load")
    BY DEF Has
  <2> QED
    BY <1>5, <2>1 DEF CallsInv
<1> QED
  BY <1>3, <1>7, <1>8 DEF CallsInv

(* Which call is it when the guard of an action finds it.                  *)
LEMMA SetupHas ==
  ASSUME CallsInv, todo # <<>>, job = 1, todo' = Tail(todo)
  PROVE  \A name : Has(todo, name) => This.call = name \/ Has(todo', name)
<1>1. todo \in Seq(SetupCalls)
  BY DEF CallsInv
<1>2. /\ Tail(todo) \in Seq(SetupCalls) /\ Len(Tail(todo)) = Len(todo) - 1
      /\ \A i \in 1..Len(Tail(todo)) : Tail(todo)[i] = todo[i + 1]
  BY <1>1, HeadTailProperties
<1>3. Len(todo) \in Nat /\ This = todo[1]
  BY <1>1 DEF This
<1> SUFFICES ASSUME NEW name, NEW i \in 1..Len(todo), todo[i].call = name, i # 1
             PROVE  Has(todo', name)
  BY <1>3 DEF Has
<1>4. i - 1 \in 1..Len(Tail(todo)) /\ (i - 1) + 1 = i
  BY <1>2, <1>3
<1> QED
  BY <1>2, <1>4 DEF Has

(* The operations of the bridge.                                           *)
LEMMA MapKeeps ==
  ASSUME PinsInv, begun, safe = SafeGpios, NEW v, NEW g \in Gpios, NEW input \in BOOLEAN, Map(v, g, input)
  PROVE  PinsInv'
<1>1. CASE ~Valid(v, g)
  <2>1. UNCHANGED <<pins, mappings, shared>>
    BY <1>1 DEF Map, bridgeVars
  <2> QED
    BY <2>1 DEF PinsInv, PinsFollowMappings
<1>2. CASE Valid(v, g)
  <2>1. /\ mappings' = [u \in DOMAIN mappings \cup {v} |->
                          IF u = v THEN [gpio |-> g, is_input |-> input, value |-> 0] ELSE mappings[u]]
        /\ pins' = [pins EXCEPT ![g].mode = IF input THEN "input" ELSE "output"]
        /\ shared' = IF Owners(g) = {} THEN shared \ {g} ELSE shared \cup {g}
        /\ v \notin DOMAIN mappings /\ g \in SafeGpios
    BY <1>2 DEF Map, Valid, Allocated
  <2>2. pins = [p \in Gpios |-> [mode |-> pins[p].mode, level |-> pins[p].level]]
    BY DEF PinsInv
  <2>3. \A p \in Gpios :
          pins'[p] = [mode  |-> IF p = g THEN (IF input THEN "input" ELSE "output") ELSE pins[p].mode,
                      level |-> pins[p].level]
    <3>1. pins[g] = [mode |-> pins[g].mode, level |-> pins[g].level]
      BY <2>2
    <3>2. DOMAIN pins = Gpios /\ \A p \in Gpios : pins[p] = [mode |-> pins[p].mode, level |-> pins[p].level]
      BY <2>2
    <3>3. pins'[g] = [pins[g] EXCEPT !.mode = IF input THEN "input" ELSE "output"]
      BY <2>1, <3>2
    <3>4. \A p \in Gpios \ {g} : pins'[p] = pins[p]
      BY <2>1, <3>2
    <3>5. pins'[g] = [mode |-> IF input THEN "input" ELSE "output", level |-> pins[g].level]
      BY <3>1, <3>3
    <3> QED
      BY <3>2, <3>4, <3>5
  <2>4. DOMAIN pins' = Gpios /\ pins' = [p \in DOMAIN pins' |-> pins'[p]]
    BY <2>1, <2>2
  <2>5. \A p \in Gpios : pins'[p] = [mode |-> pins'[p].mode, level |-> pins'[p].level]
    <3> SUFFICES ASSUME NEW p \in Gpios
                 PROVE  pins'[p] = [mode |-> pins'[p].mode, level |-> pins'[p].level]
      OBVIOUS
    <3> DEFINE m == IF p = g THEN (IF input THEN "input" ELSE "output") ELSE pins[p].mode
    <3>1. pins'[p] = [mode |-> m, level |-> pins[p].level]
      BY <2>3
    <3> HIDE DEF m
    <3>2. pins'[p].mode = m /\ pins'[p].level = pins[p].level
      BY <3>1
    <3> QED
      BY <3>1, <3>2
  <2>6. pins' = [p \in Gpios |-> [mode |-> pins'[p].mode, level |-> pins'[p].level]]
    BY <2>4, <2>5
  <2>7. DOMAIN mappings' = DOMAIN mappings \cup {v}
        /\ mappings'[v] = [gpio |-> g, is_input |-> input, value |-> 0]
        /\ \A u \in DOMAIN mappings : mappings'[u] = mappings[u]
    BY <2>1
  <2>8. \A u \in DOMAIN mappings' :
          mappings'[u] = [gpio |-> mappings'[u].gpio, is_input |-> mappings'[u].is_input, value |-> mappings'[u].value]
    BY <2>7 DEF PinsInv
  <2>9. mappings' = [u \in DOMAIN mappings' |->
          [gpio |-> mappings'[u].gpio, is_input |-> mappings'[u].is_input, value |-> mappings'[u].value]]
    BY <2>1, <2>8
  <2>10. \A u \in DOMAIN mappings' : mappings'[u].gpio \in Gpios
    BY <2>7 DEF PinsInv
  <2>11. PinsFollowMappings'
    <3>1. \A p \in Gpios : pins'[p].mode # "reset" => p \in SafeGpios
      BY <2>1, <2>3 DEF PinsInv, PinsFollowMappings
    <3>2. ASSUME NEW u \in DOMAIN mappings', mappings'[u].gpio \notin shared'
          PROVE  pins'[mappings'[u].gpio].mode = IF mappings'[u].is_input THEN "input" ELSE "output"
      <4>1. CASE u = v
        <5>1. mappings'[u].gpio = g /\ mappings'[u].is_input = input
          BY <2>7, <4>1
        <5>2. pins'[g].mode = IF input THEN "input" ELSE "output"
          <6>1. pins'[g] = [mode |-> IF input THEN "input" ELSE "output", level |-> pins[g].level]
            BY <2>3
          <6> QED
            BY <6>1
        <5> QED
          BY <5>1, <5>2, Zenon
      <4>2. CASE u # v
        <5>1. u \in DOMAIN mappings /\ mappings'[u] = mappings[u] /\ mappings[u].gpio \in Gpios
          BY <2>7, <4>2 DEF PinsInv
        <5>2. mappings[u].gpio # g
          BY <2>1, <3>2, <5>1 DEF Owners
        <5>3. mappings[u].gpio \notin shared
          BY <2>1, <3>2, <5>1, <5>2
        <5> QED
          BY <2>3, <5>1, <5>2, <5>3 DEF PinsInv, PinsFollowMappings
      <4> QED
        BY <4>1, <4>2
    <3> QED
      BY <3>1, <3>2 DEF PinsFollowMappings
  <2> QED
    BY <2>6, <2>9, <2>10, <2>11 DEF PinsInv
<1> QED
  BY <1>1, <1>2

(* A step that leaves the modes of the pins and the mappings' pins and     *)
(* directions alone, but perhaps forgets mappings.                         *)
LEMMA PinsFrame ==
  ASSUME PinsInv, UNCHANGED shared, DOMAIN mappings' \subseteq DOMAIN mappings,
         mappings' = [v \in DOMAIN mappings' |->
           [gpio |-> mappings[v].gpio, is_input |-> mappings[v].is_input, value |-> mappings'[v].value]],
         pins' = [g \in Gpios |-> [mode |-> pins[g].mode, level |-> pins'[g].level]]
  PROVE  PinsInv'
<1>1. \A g \in Gpios : pins'[g].mode = pins[g].mode
  <2>1. \A g \in Gpios : pins'[g] = [mode |-> pins[g].mode, level |-> pins'[g].level]
    BY Zenon
  <2> QED
    BY <2>1
<1>2. \A v \in DOMAIN mappings' :
        v \in DOMAIN mappings /\ mappings'[v].gpio = mappings[v].gpio /\ mappings'[v].is_input = mappings[v].is_input
  <2>1. \A v \in DOMAIN mappings' :
          mappings'[v] = [gpio |-> mappings[v].gpio, is_input |-> mappings[v].is_input, value |-> mappings'[v].value]
    BY Zenon
  <2> QED
    BY <2>1
<1>3. pins' = [g \in Gpios |-> [mode |-> pins'[g].mode, level |-> pins'[g].level]]
  BY <1>1
<1>4. mappings' = [v \in DOMAIN mappings' |->
        [gpio |-> mappings'[v].gpio, is_input |-> mappings'[v].is_input, value |-> mappings'[v].value]]
  BY <1>2
<1>5. PinsFollowMappings'
  BY <1>1, <1>2 DEF PinsInv, PinsFollowMappings
<1> QED
  BY <1>2, <1>3, <1>4, <1>5 DEF PinsInv

(* Levels may change, and no pin moves.                                    *)
LEMMA ValuesKeep ==
  ASSUME PinsInv
  PROVE  /\ \A v, value : SetOutputValue(v, value) => PinsInv'
         /\ \A v : Unmap(v) => PinsInv'
         /\ SampleInputs => PinsInv'
         /\ CommitOutputs => PinsInv'
<1> DEFINE Same(m) == [v \in DOMAIN m |->
             [gpio |-> mappings[v].gpio, is_input |-> mappings[v].is_input, value |-> m[v].value]]
           SamePins(p) == [g \in Gpios |-> [mode |-> pins[g].mode, level |-> p[g].level]]
<1>1. /\ pins = SamePins(pins) /\ mappings = Same(mappings)
      /\ DOMAIN pins = Gpios
      /\ \A v \in DOMAIN mappings :
           mappings[v] = [gpio |-> mappings[v].gpio, is_input |-> mappings[v].is_input, value |-> mappings[v].value]
      /\ \A g \in Gpios : pins[g] = [mode |-> pins[g].mode, level |-> pins[g].level]
  BY DEF PinsInv
<1>2. ASSUME NEW v, NEW value, SetOutputValue(v, value) PROVE PinsInv'
  <2>1. UNCHANGED <<pins, shared>>
    BY <1>2 DEF SetOutputValue
  <2>2. CASE UNCHANGED mappings
    BY <1>1, <2>1, <2>2, PinsFrame
  <2>3. CASE v \in DOMAIN mappings /\ mappings' = [mappings EXCEPT ![v].value = value]
    <3>1. DOMAIN mappings' = DOMAIN mappings
      BY <2>3
    <3>2. mappings'[v] = [mappings[v] EXCEPT !.value = value] /\ \A u \in DOMAIN mappings \ {v} : mappings'[u] = mappings[u]
      BY <1>1, <2>3
    <3>3. mappings'[v] = [gpio |-> mappings[v].gpio, is_input |-> mappings[v].is_input, value |-> mappings'[v].value]
      BY <1>1, <2>3, <3>2
    <3>4. \A u \in DOMAIN mappings' :
            mappings'[u] = [gpio |-> mappings[u].gpio, is_input |-> mappings[u].is_input, value |-> mappings'[u].value]
      BY <1>1, <3>1, <3>2, <3>3
    <3>5. mappings' = [u \in DOMAIN mappings' |-> mappings'[u]]
      BY <2>3
    <3>6. mappings' = Same(mappings')
      BY <3>4, <3>5
    <3> QED
      BY <1>1, <2>1, <3>1, <3>6, PinsFrame
  <2> QED
    BY <1>2, <2>2, <2>3 DEF SetOutputValue, Allocated
<1>3. ASSUME NEW v, Unmap(v) PROVE PinsInv'
  <2>1. mappings' = [u \in DOMAIN mappings \ {v} |-> mappings[u]] /\ UNCHANGED <<pins, shared>>
    BY <1>3 DEF Unmap
  <2>2. DOMAIN mappings' \subseteq DOMAIN mappings /\ mappings' = [u \in DOMAIN mappings' |-> mappings'[u]]
        /\ \A u \in DOMAIN mappings' : mappings'[u] = mappings[u]
    BY <2>1
  <2>3. mappings' = Same(mappings')
    BY <1>1, <2>2
  <2> QED
    BY <1>1, <2>1, <2>2, <2>3, PinsFrame
<1>4. ASSUME SampleInputs PROVE PinsInv'
  <2>1. /\ mappings' = [v \in DOMAIN mappings |->
             IF mappings[v].is_input THEN [mappings[v] EXCEPT !.value = Level(mappings[v].gpio)] ELSE mappings[v]]
        /\ UNCHANGED <<pins, shared>>
    BY <1>4 DEF SampleInputs
  <2>2. DOMAIN mappings' = DOMAIN mappings /\ mappings' = [u \in DOMAIN mappings' |-> mappings'[u]]
    BY <2>1
  <2>3. ASSUME NEW u \in DOMAIN mappings
        PROVE  mappings'[u] = [gpio |-> mappings[u].gpio, is_input |-> mappings[u].is_input, value |-> mappings'[u].value]
    <3>1. mappings[u] = [gpio |-> mappings[u].gpio, is_input |-> mappings[u].is_input, value |-> mappings[u].value]
      BY <1>1
    <3>2. mappings'[u] = [mappings[u] EXCEPT !.value = Level(mappings[u].gpio)] \/ mappings'[u] = mappings[u]
      BY <2>1
    <3> QED
      BY <3>1, <3>2
  <2>4. mappings' = Same(mappings')
    BY <2>2, <2>3
  <2> QED
    BY <1>1, <2>1, <2>2, <2>4, PinsFrame
<1>5. ASSUME CommitOutputs PROVE PinsInv'
  <2>1. /\ pins' = [g \in Gpios |-> IF Writers(g) = {} THEN pins[g]
                                    ELSE [pins[g] EXCEPT !.level = mappings[Winner(g)].value]]
        /\ UNCHANGED <<mappings, shared>>
    BY <1>5 DEF CommitOutputs
  <2>2. ASSUME NEW g \in Gpios PROVE pins'[g] = [mode |-> pins[g].mode, level |-> pins'[g].level]
    <3>1. pins[g] = [mode |-> pins[g].mode, level |-> pins[g].level]
      BY <1>1
    <3>2. pins'[g] = [pins[g] EXCEPT !.level = mappings[Winner(g)].value] \/ pins'[g] = pins[g]
      BY <2>1
    <3> QED
      BY <3>1, <3>2
  <2>3. pins' = [g \in Gpios |-> pins'[g]]
    BY <2>1
  <2>4. pins' = SamePins(pins')
    BY <2>2, <2>3
  <2> QED
    BY <1>1, <2>1, <2>4, PinsFrame
<1> QED
  BY <1>2, <1>3, <1>4, <1>5

(* The self test drives a pin before anything is mapped.                   *)
LEMMA TestPinKeeps ==
  ASSUME PinsInv, DOMAIN mappings = {}, NEW g \in {4, LedPin}, NEW mode, NEW level, SetPin(g, mode, level)
  PROVE  PinsInv'
<1>1. g \in SafeGpios /\ UNCHANGED <<mappings, shared>>
  BY DEF SetPin, SafeGpios, LedPin
<1>2. pins' = [pins EXCEPT ![g] = [mode |-> mode, level |-> level]] /\ DOMAIN pins = Gpios
      /\ \A p \in Gpios : pins[p] = [mode |-> pins[p].mode, level |-> pins[p].level]
  BY DEF SetPin, PinsInv
<1>3. pins' = [p \in Gpios |-> pins'[p]]
  BY <1>2
<1>4. \A p \in Gpios : pins'[p] = IF p = g THEN [mode |-> mode, level |-> level] ELSE pins[p]
  BY <1>2
<1>5. \A p \in Gpios : pins'[p] = [mode |-> pins'[p].mode, level |-> pins'[p].level]
  BY <1>2, <1>4
<1>6. pins' = [p \in Gpios |-> [mode |-> pins'[p].mode, level |-> pins'[p].level]]
  BY <1>3, <1>5
<1>7. PinsFollowMappings'
  <2>1. \A p \in Gpios : pins'[p].mode # "reset" => p \in SafeGpios
    BY <1>1, <1>4 DEF PinsInv, PinsFollowMappings
  <2> QED
    BY <1>1, <2>1 DEF PinsFollowMappings
<1> QED
  BY <1>1, <1>6, <1>7 DEF PinsInv

(* The board starts in its invariant.                                      *)
LEMMA InitBoard == BoardInit => BoardInv
<1> SUFFICES ASSUME BoardInit PROVE BoardInv
  OBVIOUS
<1>1. /\ job = 0 /\ todo = <<>>
      /\ safe = {} /\ begun = FALSE /\ mappings = [v \in {} |-> 0]
      /\ pins = [g \in Gpios |-> [mode |-> "reset", level |-> 0]]
      /\ Core!Init
  BY DEF BoardInit, BridgeInit
<1>2. CallsInv
  BY <1>1 DEF CallsInv, Running, Has
<1>3. PinsInv
  <2>1. DOMAIN mappings = {} /\ \A g \in Gpios : pins[g].mode = "reset" /\ pins[g].level = 0
    BY <1>1
  <2> QED
    BY <1>1, <2>1 DEF PinsInv, PinsFollowMappings
<1>4. StageInv
  BY <1>1 DEF StageInv
<1>5. CoreInv
  <2>1. CoreProofs!Init
    BY <1>1, SameCore
  <2>2. CoreProofs!Safe
    BY <2>1, CoreAssumptions, CoreProofs!InitSafe
  <2>3. start = signals
    BY <2>1 DEF CoreProofs!Init
  <2> QED
    BY <2>2, <2>3 DEF CoreInv
<1> QED
  BY <1>2, <1>3, <1>4, <1>5 DEF BoardInv

(* The core of a board that leaves it alone.                               *)
LEMMA CoreIdle ==
  ASSUME CoreInv, UNCHANGED coreVars
  PROVE  CoreInv' /\ UNCHANGED Core!vars
<1>1. UNCHANGED Core!vars
  BY DEF coreVars, Core!vars, Core!memory
<1>2. UNCHANGED CoreProofs!vars
  BY <1>1, SameCore
<1>3. CoreProofs!Safe'
  BY <1>2, CoreAssumptions, CoreProofs!NextSafe DEF CoreInv
<1> QED
  BY <1>1, <1>3 DEF CoreInv, coreVars

(* A step of the core keeps the invariant of the core.                     *)
LEMMA CoreSteps ==
  ASSUME CoreInv, [Core!Next]_Core!vars, phase' = "idle" => start' = signals'
  PROVE  CoreInv'
<1>1. [CoreProofs!Next]_CoreProofs!vars
  BY SameCore
<1>2. CoreProofs!Safe'
  BY <1>1, CoreAssumptions, CoreProofs!NextSafe DEF CoreInv
<1> QED
  BY <1>2 DEF CoreInv

(* The steps of the board, and what they are to its core.                  *)
CoreStep == [Core!Next]_Core!vars

(* The next function starts with no call left and the core as it was.      *)
LEMMA BeginStep ==
  ASSUME BoardInv, BeginFunction \/ BeginBoard
  PROVE  BoardInv' /\ CoreStep
<1>1. todo = <<>> /\ job \in 0..6 /\ job' = job + 1 /\ UNCHANGED bridgeVars /\ UNCHANGED coreVars
  BY TheFunctions DEF BoardInv, CallsInv, BeginFunction, BeginBoard, Begins, More, Idle
<1>2. CoreInv' /\ CoreStep
  BY <1>1, CoreIdle DEF BoardInv, CoreStep
<1>3. UNCHANGED <<safe, begun, mappings, pins, shared>>
  BY <1>1 DEF bridgeVars
<1>4. PinsInv'
  BY <1>3 DEF BoardInv, PinsInv, PinsFollowMappings
<1>5. \A name : ~Has(todo, name)
  BY <1>1 DEF Has
<1>6. CASE BeginFunction
  <2>1. job + 1 \in Running
    BY <1>1, <1>6, TheFunctions DEF BeginFunction
  <2>2. PICK d \in IF Functions[job + 1] = "user" THEN UserDesigns ELSE {Demos[Functions[job + 1]]} :
          made' = Compilation(d) /\ todo' = CallsOf(Functions[job + 1], Compilation(d))
    BY <1>6 DEF BeginFunction, Begins
  <2>3. Ready(todo', job + 1) /\ made'.cfg \in Designs
    BY <2>1, <2>2, FunctionReady
  <2>4. CallsInv'
    BY <1>1, <2>1, <2>3 DEF CallsInv, Running
  <2>5. job # 0
    BY <2>1 DEF Running
  <2>6. begun /\ safe = SafeGpios
    BY <1>1, <1>5, <2>5 DEF BoardInv, StageInv
  <2>7. StageInv'
    BY <1>1, <1>3, <2>5, <2>6 DEF BoardInv, StageInv
  <2> QED
    BY <1>2, <1>4, <2>4, <2>7 DEF BoardInv
<1>7. CASE BeginBoard
  <2>1. job + 1 \in {1, 3}
    BY <1>1, <1>7, TheFunctions DEF BeginBoard, Running
  <2>2. todo' = Prepare \o SelfTests \/ todo' = Prepare
    BY <1>7 DEF BeginBoard, Begins
  <2>3. todo' \in Seq(SetupCalls) /\ Len(todo') \in {2, 5}
        /\ todo'[1] = [call |-> "table"] /\ todo'[2] = [call |-> "begin"]
    <3>1. /\ Prepare \in Seq(SetupCalls) /\ Len(Prepare) = 2
          /\ Prepare[1] = [call |-> "table"] /\ Prepare[2] = [call |-> "begin"]
      BY DEF Prepare, SetupCalls
    <3>2. SelfTests \in Seq(SetupCalls) /\ Len(SelfTests) = 3
      BY DEF SelfTests, SetupCalls, PinCalls
    <3>3. /\ Prepare \o SelfTests \in Seq(SetupCalls)
          /\ Len(Prepare \o SelfTests) = Len(Prepare) + Len(SelfTests)
          /\ \A i \in 1 .. Len(Prepare) + Len(SelfTests) : (Prepare \o SelfTests)[i] =
               IF i <= Len(Prepare) THEN Prepare[i] ELSE SelfTests[i - Len(Prepare)]
      BY <3>1, <3>2, ConcatProperties
    <3> DEFINE both == Prepare \o SelfTests
    <3>4. both \in Seq(SetupCalls) /\ Len(both) = 5 /\ both[1] = Prepare[1] /\ both[2] = Prepare[2]
      <4> HIDE DEF both
      <4> QED
        BY <3>1, <3>2, <3>3 DEF both
    <3> HIDE DEF both
    <3> QED
      BY <2>2, <3>1, <3>4 DEF both
  <2>4. \A i \in 1..Len(todo') : todo'[i].call # "load"
    BY <2>3 DEF SetupCalls, PinCalls
  <2>5. CallsInv'
    BY <1>1, <2>1, <2>3, <2>4 DEF CallsInv, Running, Has
  <2>6. Has(todo', "begin") /\ Has(todo', "table")
    BY <2>3 DEF Has
  <2>7. StageInv'
    <3>1. CASE job = 0
      BY <1>1, <1>3, <2>6, <3>1 DEF BoardInv, StageInv
    <3>2. CASE job # 0
      BY <1>1, <1>3, <1>5, <3>2 DEF BoardInv, StageInv
    <3> QED
      BY <3>1, <3>2
  <2> QED
    BY <1>2, <1>4, <2>5, <2>7 DEF BoardInv
<1> QED
  BY <1>6, <1>7

(* Calls that leave the bridge alone keep what it has come to.             *)
LEMMA StageStays ==
  ASSUME BoardInv, todo # <<>>, todo' = Tail(todo), This.call \notin {"begin", "table"},
         UNCHANGED <<job, safe, begun>>, DOMAIN mappings' = DOMAIN mappings
  PROVE  StageInv'
<1>1. job = 1 => \A name : Has(todo, name) => This.call = name \/ Has(todo', name)
  BY SetupHas DEF BoardInv
<1> QED
  BY <1>1 DEF BoardInv, StageInv

(* A call that is not the core's.                                          *)
LEMMA CallStep ==
  ASSUME BoardInv, NEW name, Calls(name), UNCHANGED <<job, made>>, UNCHANGED coreVars, StageInv', PinsInv'
  PROVE  BoardInv' /\ CoreStep
<1>1. CallsInv'
  BY TailStays DEF BoardInv, Calls
<1>2. CoreInv' /\ CoreStep
  BY CoreIdle DEF BoardInv, CoreStep
<1> QED
  BY <1>1, <1>2 DEF BoardInv

(* The calls of the bridge leave the core as it is.                        *)
LEMMA BridgeStep ==
  ASSUME BoardInv, ReportOutputs \/ LoadTable \/ BeginBridge \/ TestPin \/ SetLed \/ CommitLed
  PROVE  BoardInv' /\ CoreStep
<1>1. PinsInv /\ StageInv /\ CallsInv
  BY DEF BoardInv
<1>2. CASE ReportOutputs
  <2>1. Calls("report") /\ UNCHANGED <<job, made>> /\ UNCHANGED bridgeVars /\ UNCHANGED coreVars
    BY <1>2 DEF ReportOutputs
  <2>2. StageInv'
    BY <2>1, StageStays DEF Calls, bridgeVars, This
  <2>3. PinsInv'
    BY <1>1, <2>1 DEF bridgeVars, PinsInv, PinsFollowMappings
  <2> QED
    BY <2>1, <2>2, <2>3, CallStep
<1>3. CASE LoadTable
  <2>1. Calls("table") /\ UNCHANGED <<job, made>> /\ UNCHANGED coreVars /\ safe' = SafeGpios
        /\ UNCHANGED <<begun, mappings, pins, shared>>
    BY <1>3 DEF LoadTable, OnBridge, LoadDefault
  <2>2. job = 1 /\ Has(todo, "begin") => Has(todo', "begin")
    BY <1>1, <2>1, SetupHas DEF Calls, This
  <2>3. StageInv'
    BY <1>1, <2>1, <2>2 DEF StageInv
  <2>4. PinsInv'
    BY <1>1, <2>1 DEF PinsInv, PinsFollowMappings
  <2> QED
    BY <2>1, <2>3, <2>4, CallStep
<1>4. CASE BeginBridge
  <2>1. Calls("begin") /\ UNCHANGED <<job, made>> /\ UNCHANGED coreVars /\ begun' = TRUE
        /\ UNCHANGED <<safe, mappings, pins, shared>>
    BY <1>4 DEF BeginBridge, OnBridge, Begin
  <2>2. job = 1 /\ Has(todo, "table") => Has(todo', "table")
    BY <1>1, <2>1, SetupHas DEF Calls, This
  <2>3. StageInv'
    BY <1>1, <2>1, <2>2 DEF StageInv
  <2>4. PinsInv'
    BY <1>1, <2>1 DEF PinsInv, PinsFollowMappings
  <2> QED
    BY <2>1, <2>3, <2>4, CallStep
<1>5. CASE TestPin
  <2>1. Calls("pin") /\ SetPin(This.gpio, This.mode, This.level) /\ UNCHANGED <<job, made>> /\ UNCHANGED coreVars
    BY <1>5 DEF TestPin, OnBridge
  <2>2. UNCHANGED <<safe, begun, mappings, shared>> /\ todo # <<>> /\ This.call = "pin"
    BY <2>1 DEF SetPin, Calls, This
  <2>3. job \in {1, 3} /\ This \in PinCalls
    <3>1. \A Ids : This \notin FunctionCalls(Ids) \cup MapCalls
      BY <2>2 DEF FunctionCalls, InnerCalls, MapCalls
    <3>2. job \in {1, 3} /\ This \in SetupCalls
      BY <1>1, <2>2, <3>1, NextCall DEF Running
    <3> QED
      BY <2>2, <3>2 DEF SetupCalls
  <2>4. This.gpio \in {4, LedPin}
    BY <2>3 DEF PinCalls
  <2>5. DOMAIN mappings = {}
    BY <1>1, <2>3 DEF StageInv
  <2>6. PinsInv'
    BY <1>1, <2>1, <2>4, <2>5, TestPinKeeps
  <2>7. StageInv'
    BY <2>1, <2>2, StageStays DEF Calls
  <2> QED
    BY <2>1, <2>6, <2>7, CallStep
<1>6. CASE SetLed
  <2>1. Calls("set") /\ (\E value : SetOutputValue(This.vio, value)) /\ UNCHANGED <<job, made>> /\ UNCHANGED coreVars
    BY <1>6, Zenon DEF SetLed, OnBridge
  <2>2. PinsInv'
    BY <1>1, <2>1, ValuesKeep
  <2>3. UNCHANGED <<safe, begun>> /\ DOMAIN mappings' = DOMAIN mappings /\ todo # <<>> /\ This.call = "set"
    BY <1>1, <2>1 DEF SetOutputValue, Calls, This, PinsInv
  <2>4. StageInv'
    BY <2>1, <2>3, StageStays DEF Calls
  <2> QED
    BY <2>1, <2>2, <2>4, CallStep
<1>7. CASE CommitLed
  <2>1. Calls("commit") /\ CommitOutputs /\ UNCHANGED <<job, made>> /\ UNCHANGED coreVars
    BY <1>7 DEF CommitLed, OnBridge
  <2>2. PinsInv'
    BY <1>1, <2>1, ValuesKeep
  <2>3. UNCHANGED <<safe, begun, mappings>> /\ todo # <<>> /\ This.call = "commit"
    BY <2>1 DEF CommitOutputs, Calls, This
  <2>4. StageInv'
    BY <2>1, <2>3, StageStays DEF Calls
  <2> QED
    BY <2>1, <2>2, <2>4, CallStep
<1> QED
  BY <1>2, <1>3, <1>4, <1>5, <1>6, <1>7

(* The blinker maps its LED, or gives up.                                  *)
LEMMA MapLedStep ==
  ASSUME BoardInv, MapLed
  PROVE  BoardInv' /\ CoreStep
<1>1. /\ todo # <<>> /\ This.call = "map" /\ Map(This.vio, This.gpio, FALSE)
      /\ todo' \in {Tail(todo), <<>>} /\ UNCHANGED <<job, made>> /\ UNCHANGED coreVars
  BY DEF MapLed, OnBridge
<1>2. job = 7 /\ This \in MapCalls
  <2>1. job = 7
    BY <1>1, NextCall DEF BoardInv
  <2>2. PICK Ids : This \in FunctionCalls(Ids) \cup MapCalls
    BY <1>1, <2>1, NextCall DEF BoardInv, Running
  <2>3. This \notin FunctionCalls(Ids)
    BY <1>1 DEF FunctionCalls, InnerCalls
  <2> QED
    BY <2>1, <2>2, <2>3
<1>3. This.gpio \in Gpios
  BY <1>2, PinsAssumption DEF MapCalls
<1>4. begun /\ safe = SafeGpios
  BY <1>2 DEF BoardInv, StageInv
<1>5. PinsInv'
  BY <1>1, <1>3, <1>4, MapKeeps DEF BoardInv
<1>6. UNCHANGED <<safe, begun>>
  BY <1>1 DEF Map, bridgeVars
<1>7. StageInv'
  BY <1>1, <1>2, <1>4, <1>6 DEF StageInv
<1>8. CallsInv'
  BY <1>1, TailStays DEF BoardInv
<1>9. CoreInv' /\ CoreStep
  BY <1>1, CoreIdle DEF BoardInv, CoreStep
<1> QED
  BY <1>5, <1>7, <1>8, <1>9 DEF BoardInv

(* After the last function, any operation of the bridge.                   *)
LEMMA ApplicationStep ==
  ASSUME BoardInv, Application
  PROVE  BoardInv' /\ CoreStep
<1>1. Idle /\ ~More /\ UNCHANGED <<todo, job, made>> /\ UNCHANGED coreVars
  BY DEF Application, Apply, OnBridge
<1>2. job = 7 /\ begun /\ safe = SafeGpios
  BY <1>1, TheFunctions DEF More, BoardInv, CallsInv, StageInv
<1>3. PinsInv' /\ UNCHANGED <<safe, begun>>
  <2>1. CASE \E v \in Vios, g \in Gpios, input \in BOOLEAN : Apply(Map(v, g, input))
    <3>1. PICK v \in Vios, g \in Gpios, input \in BOOLEAN : Map(v, g, input)
      BY <2>1 DEF Apply
    <3>2. PinsInv'
      BY <1>2, <3>1, MapKeeps DEF BoardInv
    <3> QED
      BY <3>1, <3>2 DEF Map, bridgeVars
  <2>2. CASE \E v \in Vios : Apply(Unmap(v))
    <3>1. PICK v \in Vios : Unmap(v)
      BY <2>2 DEF Apply
    <3> QED
      BY <3>1, ValuesKeep DEF BoardInv, Unmap
  <2>3. CASE \E v \in Vios, value \in {0, 1} : Apply(SetOutputValue(v, value))
    <3>1. PICK v \in Vios, value \in {0, 1} : SetOutputValue(v, value)
      BY <2>3 DEF Apply
    <3> QED
      BY <3>1, ValuesKeep DEF BoardInv, SetOutputValue
  <2>4. CASE Apply(SampleInputs) \/ Apply(CommitOutputs)
    <3>1. SampleInputs \/ CommitOutputs
      BY <2>4 DEF Apply
    <3> QED
      BY <3>1, ValuesKeep DEF BoardInv, SampleInputs, CommitOutputs
  <2>5. CASE \E g \in Gpios : Apply(WorldChanges(g))
    <3>1. UNCHANGED <<safe, begun, mappings, pins, shared>>
      BY <2>5 DEF Apply, WorldChanges
    <3> QED
      BY <3>1 DEF BoardInv, PinsInv, PinsFollowMappings
  <2> QED
    BY <2>1, <2>2, <2>3, <2>4, <2>5 DEF Application
<1>4. StageInv'
  BY <1>1, <1>2, <1>3 DEF StageInv
<1>5. CallsInv'
  BY <1>1 DEF BoardInv, CallsInv, Ready, Has, DestroyLast
<1>6. CoreInv' /\ CoreStep
  BY <1>1, CoreIdle DEF BoardInv, CoreStep
<1> QED
  BY <1>3, <1>4, <1>5, <1>6 DEF BoardInv

(* A call into the core, or a step of a loop of it.                        *)
LEMMA WriteIsStep ==
  ASSUME CoreInv, phase = "idle", NEW id, NEW word \in Levels, Core!WriteInput(id, word)
  PROVE  CoreStep /\ start' = signals'
<1>1. signals \in [0 .. max.signals - 1 -> CoreProofs!Word] /\ max.signals \in Nat
  BY DEF CoreInv, CoreProofs!Safe, CoreProofs!TypeOK
<1>2. CASE id \in 0 .. max.signals
  <2>1. Core!Next
    BY <1>2 DEF Core!Next
  <2> QED
    BY <2>1 DEF CoreStep, Core!WriteInput
<1>3. CASE id \notin 0 .. max.signals
  <2>1. signals' = signals
    <3>1. id \notin DOMAIN signals
      BY <1>1, <1>3
    <3>2. [signals EXCEPT ![id] = word] = signals
      BY <1>1, <3>1
    <3> QED
      BY <3>2 DEF Core!WriteInput
  <2>2. start' = signals' /\ start = signals
    BY DEF Core!WriteInput, CoreInv
  <2>3. UNCHANGED Core!vars
    BY <2>1, <2>2 DEF Core!WriteInput, Core!vars, Core!memory, Core!design
  <2> QED
    BY <2>2, <2>3 DEF CoreStep
<1> QED
  BY <1>2, <1>3

(* The calls of the core leave the pins as they are, and are steps of it.  *)
LEMMA CoreCallStep ==
  ASSUME BoardInv, InitCore \/ LoadDesign \/ WriteNet \/ EvaluateDesign \/ ClockDesign \/ CoreRuns \/ DestroyCore
  PROVE  BoardInv' /\ CoreStep
<1>1. /\ UNCHANGED job /\ UNCHANGED bridgeVars
      /\ todo' = todo \/ (todo # <<>> /\ todo' = Tail(todo) /\ This.call \notin {"begin", "table"})
      /\ UNCHANGED made \/ todo' = <<>>
  <2>1. CASE CoreRuns
    BY <2>1 DEF CoreRuns, OnCore
  <2>2. CASE DestroyCore
    BY <2>2, NextCall DEF DestroyCore, Calls, This, BoardInv
  <2>3. CASE InitCore \/ LoadDesign \/ WriteNet \/ EvaluateDesign \/ ClockDesign
    BY <2>3 DEF InitCore, LoadDesign, WriteNet, EvaluateDesign, ClockDesign, OnCore, Calls, This
  <2> QED
    BY <2>1, <2>2, <2>3
<1>2. UNCHANGED <<safe, begun, mappings, pins, shared>>
  BY <1>1 DEF bridgeVars
<1>3. PinsInv'
  BY <1>2 DEF BoardInv, PinsInv, PinsFollowMappings
<1>4. CallsInv' /\ StageInv'
  <2>1. CASE todo' = todo /\ UNCHANGED made
    BY <1>1, <1>2, <2>1 DEF BoardInv, CallsInv, StageInv, Ready, Has, DestroyLast
  <2>2. CASE todo # <<>> /\ todo' = Tail(todo) /\ This.call \notin {"begin", "table"}
    BY <1>1, <1>2, <2>2, TailStays, StageStays DEF BoardInv
  <2>3. CASE todo' = todo /\ todo' = <<>>
    <3>1. ~Has(todo', "load")
      BY <2>3 DEF Has
    <3> QED
      BY <1>1, <1>2, <2>3, <3>1 DEF BoardInv, CallsInv, StageInv, Ready, Has, DestroyLast
  <2> QED
    BY <1>1, <2>1, <2>2, <2>3
<1>5. CoreStep /\ (phase' = "idle" => start' = signals')
  <2>1. CASE InitCore
    <3>1. PICK got \in {{}, Core!Needed(CoreSize)} : Core!CoreInit(CoreSize, got)
      BY <2>1 DEF InitCore
    <3>2. got \in SUBSET Core!Buffers
      BY DEF Core!Needed, Core!Buffers
    <3>3. Core!Next
      BY <3>1, <3>2, Zenon DEF Core!Next
    <3>4. start' = signals'
      BY <3>1 DEF Core!CoreInit
    <3> QED
      BY <3>3, <3>4 DEF CoreStep
  <2>2. CASE LoadDesign
    <3>1. made.cfg \in Designs /\ Core!LoadConfig(made.cfg)
      BY <2>2, NextCall DEF LoadDesign, Calls, This, BoardInv
    <3> QED
      BY <3>1 DEF CoreStep, Core!Next, Core!LoadConfig
  <2>3. CASE WriteNet
    <3>1. todo # <<>> /\ This.call = "write" /\ phase = "idle" /\ Core!WriteInput(This.id, This.word)
      BY <2>3 DEF WriteNet, Calls, This
    <3>2. This.word \in Levels
      <4>1. This \notin SetupCalls /\ This \notin MapCalls
        BY <3>1 DEF SetupCalls, PinCalls, MapCalls
      <4>2. PICK Ids : This \in FunctionCalls(Ids)
        <5>1. job \in Running
          BY <3>1, <4>1, NextCall DEF BoardInv, Running
        <5>2. PICK Ids : This \in FunctionCalls(Ids) \cup MapCalls
          BY <3>1, <5>1, NextCall DEF BoardInv
        <5> QED
          BY <4>1, <5>2
      <4> QED
        BY <3>1, <4>2 DEF FunctionCalls, InnerCalls
    <3> QED
      BY <3>1, <3>2, WriteIsStep DEF BoardInv
  <2>4. CASE EvaluateDesign
    BY <2>4 DEF EvaluateDesign, CoreStep, Core!Next, Core!EvaluateCombinational, Core!Enter
  <2>5. CASE ClockDesign
    BY <2>5 DEF ClockDesign, CoreStep, Core!Next, Core!Clock, Core!Enter
  <2>6. CASE CoreRuns
    <3>1. Core!Compute /\ Core!Next
      BY <2>6 DEF CoreRuns, Core!Next
    <3>2. phase' = "idle" => start' = signals'
      BY <3>1 DEF Core!Compute, Core!EvaluateBatch4, Core!EvaluateRemainder, Core!EvaluateOne,
                  Core!EvaluateDone, Core!ClockFf, Core!ClockDone, Core!Enter
    <3> QED
      BY <3>1, <3>2 DEF CoreStep
  <2>7. CASE DestroyCore
    BY <2>7 DEF DestroyCore, CoreStep, Core!Next, Core!Destroy
  <2> QED
    BY <2>1, <2>2, <2>3, <2>4, <2>5, <2>6, <2>7
<1>6. CoreInv'
  BY <1>5, CoreSteps DEF BoardInv, CoreStep
<1> QED
  BY <1>3, <1>4, <1>5, <1>6 DEF BoardInv

(* Every step keeps the invariant, and is a step of the core or none.      *)
LEMMA BoardStep == BoardInv /\ [BoardNext]_boardVars => BoardInv' /\ CoreStep
<1> SUFFICES ASSUME BoardInv, [BoardNext]_boardVars PROVE BoardInv' /\ CoreStep
  OBVIOUS
<1>1. CASE BeginFunction \/ BeginBoard
  BY <1>1, BeginStep
<1>2. CASE InitCore \/ LoadDesign \/ WriteNet \/ EvaluateDesign \/ ClockDesign \/ CoreRuns \/ DestroyCore
  BY <1>2, CoreCallStep
<1>3. CASE ReportOutputs \/ LoadTable \/ BeginBridge \/ TestPin \/ SetLed \/ CommitLed
  BY <1>3, BridgeStep
<1>4. CASE MapLed
  BY <1>4, MapLedStep
<1>5. CASE Application
  BY <1>5, ApplicationStep
<1>6. CASE UNCHANGED boardVars
  <2>1. /\ UNCHANGED <<job, todo, made, safe, begun, mappings, pins, shared>>
        /\ UNCHANGED coreVars
    BY <1>6 DEF boardVars, bridgeVars
  <2>2. CoreInv' /\ CoreStep
    BY <2>1, CoreIdle DEF BoardInv, CoreStep
  <2>3. CallsInv'
    BY <2>1 DEF BoardInv, CallsInv, Ready, Has, DestroyLast
  <2>4. StageInv'
    BY <2>1 DEF BoardInv, StageInv, Has
  <2>5. PinsInv'
    BY <2>1 DEF BoardInv, PinsInv, PinsFollowMappings
  <2> QED
    BY <2>2, <2>3, <2>4, <2>5 DEF BoardInv
<1> QED
  BY <1>1, <1>2, <1>3, <1>4, <1>5, <1>6 DEF BoardNext

(* The invariant of the board.                                             *)
LEMMA BoardInvariant == BoardSpec => []BoardInv
BY InitBoard, BoardStep, PTL DEF BoardSpec

-----------------------------------------------------------------------------
(* The theorems *)

(* No pin outside of the table gets a direction, and a mapped pin has the  *)
(* direction of its mapping, whatever the functions and then an application*)
(* do with the bridge.                                                     *)
THEOREM PinsStayWithMappings == BoardSpec => []PinsFollowMappings
<1>1. BoardInv => PinsFollowMappings
  BY DEF BoardInv, PinsInv
<1> QED
  BY <1>1, BoardInvariant, PTL

(* Whatever the firmware calls of its core, and however large the design it*)
(* loads, is a behaviour of VFpgaCore: the core is not called before its   *)
(* loops have ended, and it is given compiled designs and whole lanes only.*)
THEOREM BoardDrivesTheCore == BoardSpec => Core!Spec
<1>1. BoardInit => Core!Init
  BY DEF BoardInit
<1>2. BoardInv /\ [BoardNext]_boardVars => [Core!Next]_Core!vars
  BY BoardStep DEF CoreStep
<1> QED
  BY <1>1, <1>2, BoardInvariant, PTL DEF BoardSpec, Core!Spec

(* So no start-up of the firmware, whichever of its allocations fail, leaks*)
(* a heap block, uses a core without its buffers or indexes past a table.  *)
(* It stores past the net values only for a design with an output net that *)
(* its core has not: nothing in the firmware keeps such a design out.      *)
THEOREM BoardCoreIsSafe ==
  BoardSpec => [](Core!NoLeak /\ Core!InertWithoutBuffers /\ Core!AccessesInBounds)
<1>1. BoardInv => Core!NoLeak /\ Core!InertWithoutBuffers /\ Core!AccessesInBounds
  BY DEF BoardInv, CoreInv, CoreProofs!Safe, CoreProofs!NoLeak, CoreProofs!InertWithoutBuffers,
         CoreProofs!AccessesInBounds, Core!NoLeak, Core!InertWithoutBuffers, Core!AccessesInBounds,
         CoreProofs!Buffers, Core!Buffers, CoreProofs!NoCapacity, Core!NoCapacity,
         CoreProofs!LutOutputs, Core!LutOutputs, CoreProofs!FfOutputs, Core!FfOutputs
<1> QED
  BY <1>1, BoardInvariant, PTL

(* The circuit that core implements is the same one.                       *)
LEMMA SameCircuit ==
  /\ Core!Circuit!CircuitInit <=> CoreProofs!Circuit!CircuitInit
  /\ Core!Circuit!circuitVars = CoreProofs!Circuit!circuitVars
  /\ UNCHANGED Core!Circuit!circuitVars <=> UNCHANGED CoreProofs!Circuit!circuitVars
  /\ Core!Circuit!CircuitNext <=> CoreProofs!Circuit!CircuitNext
BY DEF
  Core!Circuit!circuitVars, CoreProofs!Circuit!circuitVars, Core!Circuit!Blank,
  CoreProofs!Circuit!Blank, Core!Circuit!CircuitInit, CoreProofs!Circuit!CircuitInit,
  Core!Circuit!Clear, CoreProofs!Circuit!Clear, Core!Circuit!Configure,
  CoreProofs!Circuit!Configure, Core!Circuit!Drive, CoreProofs!Circuit!Drive,
  Core!Circuit!Begin, CoreProofs!Circuit!Begin, Core!Circuit!Settle,
  CoreProofs!Circuit!Settle, Core!Circuit!Edge, CoreProofs!Circuit!Edge,
  Core!Circuit!CircuitNext, CoreProofs!Circuit!CircuitNext, Core!Circuit!Word,
  CoreProofs!Circuit!Word, Core!Circuit!Zero, CoreProofs!Circuit!Zero, Core!Circuit!Bit,
  CoreProofs!Circuit!Bit, Core!Circuit!Evaluate, CoreProofs!Circuit!Evaluate,
  Core!Circuit!LutOut, CoreProofs!Circuit!LutOut, Core!Circuit!Reads,
  CoreProofs!Circuit!Reads, Core!Circuit!LutOutputs, CoreProofs!Circuit!LutOutputs,
  Core!Circuit!FfOutputs, CoreProofs!Circuit!FfOutputs, Core!Circuit!Settled,
  CoreProofs!Circuit!Settled, Core!Circuit!SameBatch, CoreProofs!Circuit!SameBatch,
  Core!Circuit!OrderedLuts, CoreProofs!Circuit!OrderedLuts, Core!Circuit!OrderedFfs,
  CoreProofs!Circuit!OrderedFfs, Core!Circuit!NetsExist, CoreProofs!Circuit!NetsExist,
  Core!Circuit!TableNets, CoreProofs!Circuit!TableNets

(* So what the firmware shows of any design its core has the nets of is    *)
(* what a synchronous circuit does: a pass settles the LUTs and an edge is *)
(* simultaneous, as far as the order of the tables allows, and nothing else*)
(* changes a net but an input.                                             *)
THEOREM BoardImplementsTheCircuit == BoardSpec => Core!ImplementsCircuit
<1>1. CoreProofs!Spec => CoreProofs!ImplementsCircuit
  BY CoreAssumptions, CoreProofs!CoreImplementsCircuit
<1>2. Core!Spec => CoreProofs!Spec
  BY SameCore, PTL DEF Core!Spec, CoreProofs!Spec
<1>3. CoreProofs!ImplementsCircuit => Core!ImplementsCircuit
  BY SameCircuit, PTL
  DEF Core!ImplementsCircuit, CoreProofs!ImplementsCircuit, Core!Circuit!CircuitSpec, CoreProofs!Circuit!CircuitSpec
<1> QED
  BY <1>1, <1>2, <1>3, BoardDrivesTheCore, PTL
=============================================================================
