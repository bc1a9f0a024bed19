-------------------------- MODULE VFpgaCoreProofs --------------------------
(***************************************************************************)
(* Proofs about VFpgaCore, for every lane count, capacity, configuration   *)
(* and cycle count.                                                        *)
(*                                                                         *)
(* Safe is inductive: each of its parts needs the type invariant, and that *)
(* a core without buffers is inert needs its capacities to bound its tables*)
(***************************************************************************)
EXTENDS VFpgaCore, TLAPS

Safe == TypeOK /\ NoLeak /\ InertWithoutBuffers /\ AccessesInBounds

(* A LUT computes a word whatever it reads.                                *)
LEMMA LutOutIsWord ==
  ASSUME NEW l, NEW sig
  PROVE  LutOut(l, sig) \in Word
BY DEF LutOut, Evaluate, Word

LEMMA ClearedType ==
  ASSUME NEW c
  PROVE  Cleared(c) \in [0 .. c.signals - 1 -> Word]
BY DEF Cleared, Zero, Word

(* What an iteration finds at a net is a word.                             *)
LEMMA FoundIsWord ==
  ASSUME TypeOK, NEW debris \in Debris, NEW n \in Net
  PROVE  Found(debris)[n] \in Word
BY DebrisAssumption DEF Found, TypeOK, Zero, Word

LEMMA WrittenType ==
  ASSUME NEW d, NEW nets \in [d -> Word], NEW n, NEW w \in Word
  PROVE  Written(nets, n, w) \in [d -> Word]
BY DEF Written

LEMMA EmptyTables ==
  /\ <<>> \in Seq(CoreLut) /\ Len(<<>>) = 0
  /\ <<>> \in Seq(MappedFf)
OBVIOUS

(* free() of what the core points to leaves nothing allocated.             *)
LEMMA FreedAll ==
  ASSUME NoLeak
  PROVE  \A b \in Buffers : Freed[b] = 0
BY DEF NoLeak, Freed

(* What load_config() makes of a configuration: tables of the right type   *)
(* that are no longer than the capacities.                                 *)
LEMMA LoadedTables ==
  ASSUME TypeOK, NEW cfg \in Configs
  PROVE  /\ LoadedLuts(cfg) \in Seq(CoreLut)
         /\ Len(LoadedLuts(cfg)) <= max.luts
         /\ LoadedFfs(cfg) \in Seq(MappedFf)
         /\ Len(LoadedFfs(cfg)) <= max.ffs
<1> DEFINE nl == Taken(cfg.luts, max.luts)
           nf == Taken(cfg.ffs, max.ffs)
<1>1. cfg.luts \in Seq(MappedLut) /\ cfg.ffs \in Seq(MappedFf)
  BY ConfigsAssumption DEF IsConfig
<1>2. max.luts \in Nat /\ max.ffs \in Nat
  BY DEF TypeOK
<1>3. /\ nl \in Nat /\ nl <= max.luts /\ nl <= Len(cfg.luts)
      /\ nf \in Nat /\ nf <= max.ffs /\ nf <= Len(cfg.ffs)
  BY <1>1, <1>2 DEF Taken
<1>4. \A k \in 1..nl : LoadLut(cfg.luts[k]) \in CoreLut
  <2> SUFFICES ASSUME NEW k \in 1..nl PROVE LoadLut(cfg.luts[k]) \in CoreLut
    OBVIOUS
  <2>1. cfg.luts[k] \in MappedLut
    BY <1>1, <1>3
  <2>2. \A i \in 1..Len(cfg.luts[k].in) : cfg.luts[k].in[i] \in Net
    BY <2>1 DEF MappedLut
  <2>3. Len(cfg.luts[k].in) \in Nat
    BY <2>1 DEF MappedLut
  <2> QED
    BY <2>1, <2>2, <2>3 DEF LoadLut, MappedLut, CoreLut, Net
<1>5. \A k \in 1..nf : cfg.ffs[k] \in MappedFf
  BY <1>1, <1>3
<1>6. LoadedLuts(cfg) \in Seq(CoreLut) /\ Len(LoadedLuts(cfg)) = nl
  BY <1>3, <1>4 DEF LoadedLuts
<1>7. LoadedFfs(cfg) \in Seq(MappedFf) /\ Len(LoadedFfs(cfg)) = nf
  BY <1>3, <1>5 DEF LoadedFfs
<1> QED
  BY <1>3, <1>6, <1>7

LEMMA InitSafe == Init => Safe
<1> SUFFICES ASSUME Init PROVE Safe
  OBVIOUS
<1>1. Cleared(NoCapacity) \in [0 .. NoCapacity.signals - 1 -> Word]
  BY ClearedType
<1>2. signals \in [0 .. max.signals - 1 -> Word] /\ start \in [0 .. max.signals - 1 -> Word]
  BY <1>1 DEF Init
<1>3. max \in [signals : Nat, luts : Nat, ffs : Nat]
  BY DEF Init, NoCapacity
<1>4. live \in [Buffers -> Int]
  BY DEF Init
<1>5. initialized \in BOOLEAN /\ bufs \in SUBSET Buffers
  BY DEF Init
<1>6. luts \in Seq(CoreLut) /\ ffs \in Seq(MappedFf)
  BY EmptyTables DEF Init
<1>7. TypeOK
  BY <1>2, <1>3, <1>4, <1>5, <1>6 DEF Init, TypeOK
<1> QED
  BY <1>7 DEF Init, Safe, NoLeak, InertWithoutBuffers, AccessesInBounds, NoCapacity, Buffers

(* A step that leaves the memory and the design alone and keeps the net    *)
(* values well typed is safe.                                              *)
LEMMA SafeFrame ==
  ASSUME Safe, UNCHANGED <<memory, design>>,
         signals' \in [0 .. max.signals - 1 -> Word],
         start' \in [0 .. max.signals - 1 -> Word],
         phase' \in {"idle", "eval", "clock"}, idx' \in Nat, cycles' \in Nat
  PROVE  Safe'
BY DEF Safe, TypeOK, NoLeak, InertWithoutBuffers, AccessesInBounds, memory, design

(* An iteration of a loop: it stores at outputs of the tables only.        *)
LEMMA LoopFrame ==
  ASSUME Safe, UNCHANGED <<memory, luts, ffs, phase, cycles, start>>, idx' \in Nat,
         NEW to \in SUBSET (LutOutputs(luts) \cup FfOutputs(ffs)),
         NEW stored \in [0 .. max.signals - 1 -> Word], Store(to, stored)
  PROVE  Safe'
<1>1. TypeOK /\ NoLeak /\ InertWithoutBuffers /\ AccessesInBounds
  BY DEF Safe
<1>2. DOMAIN signals = 0 .. max.signals - 1
  BY <1>1 DEF TypeOK
<1>3. signals' \in [0 .. max.signals - 1 -> Word]
  <2>1. CASE ~overrun'
    BY <2>1 DEF Store
  <2>2. CASE overrun'
    <3>1. PICK debris \in Debris :
            signals' = [n \in DOMAIN signals |->
                          IF n \in DOMAIN debris THEN debris[n] ELSE stored[n]]
      BY <2>2 DEF Store
    <3>2. \A n \in DOMAIN debris : debris[n] \in Word
      BY DebrisAssumption
    <3> QED
      BY <1>2, <3>1, <3>2
  <2> QED
    BY <2>1, <2>2
<1>4. overrun' \in BOOLEAN
  BY DEF Store
<1>5. TypeOK'
  BY <1>1, <1>3, <1>4 DEF TypeOK, memory
<1>6. NoLeak' /\ InertWithoutBuffers'
  BY <1>1 DEF NoLeak, InertWithoutBuffers, memory
<1>7. AccessesInBounds'
  <2>1. DOMAIN signals' = DOMAIN signals
    BY <1>2, <1>3
  <2>2. overrun' => overrun \/ ~(to \subseteq DOMAIN signals)
    BY DEF Store
  <2>3. overrun' => ~(LutOutputs(luts) \cup FfOutputs(ffs) \subseteq DOMAIN signals)
    BY <1>1, <2>2 DEF AccessesInBounds
  <2> QED
    BY <1>1, <2>1, <2>3 DEF AccessesInBounds, memory
<1> QED
  BY <1>5, <1>6, <1>7 DEF Safe

LEMMA EnterSafe ==
  ASSUME Safe, NEW loop \in {"idle", "eval", "clock"}, NEW left \in Nat, Enter(loop, left)
  PROVE  Safe'
BY SafeFrame DEF Enter, Safe, TypeOK

LEMMA LifetimeSafe ==
  ASSUME Safe
  PROVE  /\ \A size \in Sizes, got \in SUBSET Buffers : CoreInit(size, got) => Safe'
         /\ Destroy => Safe'
         /\ Reset => Safe'
<1> USE DEF Safe
<1>1. ASSUME NEW size \in Sizes, NEW got \in SUBSET Buffers, CoreInit(size, got)
      PROVE  Safe'
  <2>1. size \in [signals : Nat \ {0}, luts : Nat \ {0}, ffs : Nat]
    BY SizesAssumption
  <2>2. max' \in [signals : Nat, luts : Nat, ffs : Nat]
    BY <1>1, <2>1 DEF CoreInit, NoCapacity
  <2>3. signals' = Cleared(max') /\ start' = signals'
    BY <1>1 DEF CoreInit
  <2>4. signals' \in [0 .. max'.signals - 1 -> Word] /\ start' \in [0 .. max'.signals - 1 -> Word]
    BY <2>3 DEF Cleared, Zero, Word
  <2>5. live' \in [Buffers -> Int] /\ NoLeak'
    <3>1. CASE got = Needed(size)
      <4>1. bufs' = got /\ live' = [b \in Buffers |-> IF b \in got THEN Freed[b] + 1 ELSE Freed[b]]
        BY <1>1, <3>1 DEF CoreInit
      <4> QED
        BY <4>1, FreedAll DEF NoLeak
    <3>2. CASE got # Needed(size)
      <4>1. bufs' = {} /\ live' = Freed
        BY <1>1, <3>2 DEF CoreInit
      <4>2. live' = [b \in Buffers |-> Freed[b]]
        BY <4>1 DEF Freed
      <4> QED
        BY <4>1, <4>2, FreedAll DEF NoLeak
    <3> QED
      BY <3>1, <3>2
  <2>6. /\ luts' = <<>> /\ ffs' = <<>> /\ overrun' = FALSE /\ UNCHANGED <<phase, idx, cycles>>
        /\ bufs' \in SUBSET Buffers /\ initialized' \in BOOLEAN /\ overrun' \in BOOLEAN
    BY <1>1 DEF CoreInit, Needed, Buffers
  <2>7. TypeOK'
    <3>1. luts' \in Seq(CoreLut) /\ ffs' \in Seq(MappedFf)
      BY <2>6, EmptyTables
    <3> QED
      BY <2>2, <2>4, <2>5, <2>6, <3>1 DEF TypeOK
  <2>8. \A b \in Buffers : max'[b] > 0 => b \in bufs'
    BY <1>1, <2>1 DEF CoreInit, Needed, NoCapacity, Buffers
  <2>9. IF initialized' THEN {"signals", "luts"} \subseteq bufs' ELSE max' = NoCapacity
    BY <1>1 DEF CoreInit, Needed
  <2>10. InertWithoutBuffers' /\ AccessesInBounds'
    BY <2>2, <2>6, <2>8, <2>9 DEF InertWithoutBuffers, AccessesInBounds
  <2> QED
    BY <2>5, <2>7, <2>10
<1>2. ASSUME Destroy PROVE Safe'
  <2>1. live' \in [Buffers -> Int] /\ NoLeak'
    <3>1. live' = [b \in Buffers |-> Freed[b]] /\ bufs' = {}
      BY <1>2 DEF Destroy, Freed
    <3> QED
      BY <3>1, FreedAll DEF NoLeak
  <2>2. signals' \in [0 .. max'.signals - 1 -> Word] /\ start' = signals'
    BY <1>2 DEF Destroy, Cleared, Zero, Word
  <2>3. TypeOK'
    <3>1. max' \in [signals : Nat, luts : Nat, ffs : Nat]
      BY <1>2 DEF Destroy, NoCapacity
    <3>2. initialized' \in BOOLEAN /\ bufs' \in SUBSET Buffers
      BY <1>2 DEF Destroy
    <3>3. luts' \in Seq(CoreLut) /\ ffs' \in Seq(MappedFf)
      BY <1>2, EmptyTables DEF Destroy
    <3> QED
      BY <1>2, <2>1, <2>2, <3>1, <3>2, <3>3 DEF Destroy, TypeOK
  <2>4. AccessesInBounds'
    BY <1>2, EmptyTables DEF Destroy, AccessesInBounds, NoCapacity
  <2>5. InertWithoutBuffers'
    BY <1>2, EmptyTables DEF Destroy, InertWithoutBuffers, NoCapacity, Buffers
  <2> QED
    BY <2>1, <2>3, <2>4, <2>5
<1>3. ASSUME Reset PROVE Safe'
  <2>1. signals' \in [0 .. max.signals - 1 -> Word] /\ start' = signals'
    BY <1>3, ClearedType DEF Reset, TypeOK
  <2>2. \/ luts' = <<>> /\ ffs' = <<>> /\ overrun' = FALSE
        \/ UNCHANGED design /\ ~initialized /\ signals' = signals
    BY <1>3 DEF Reset
  <2>3. UNCHANGED <<memory, phase, idx, cycles>>
    BY <1>3 DEF Reset
  <2>4. TypeOK' /\ NoLeak'
    BY <2>1, <2>2, <2>3, EmptyTables DEF TypeOK, NoLeak, memory, design
  <2>5. CASE luts' = <<>> /\ ffs' = <<>> /\ overrun' = FALSE
    <3>1. AccessesInBounds'
      BY <2>3, <2>5, EmptyTables DEF AccessesInBounds, memory, TypeOK
    <3>2. InertWithoutBuffers'
      BY <2>3, <2>5, EmptyTables DEF InertWithoutBuffers, memory
    <3> QED
      BY <2>4, <3>1, <3>2
  <2>6. CASE UNCHANGED design /\ ~initialized /\ signals' = signals
    BY <2>3, <2>4, <2>6 DEF InertWithoutBuffers, AccessesInBounds, memory, design
  <2> QED
    BY <2>2, <2>5, <2>6
<1> QED
  BY <1>1, <1>2, <1>3

LEMMA LoadSafe ==
  ASSUME Safe, NEW cfg \in Configs, LoadConfig(cfg)
  PROVE  Safe'
<1> USE DEF Safe
<1>1. /\ luts' \in Seq(CoreLut) /\ Len(luts') <= max.luts
      /\ ffs' \in Seq(MappedFf) /\ Len(ffs') <= max.ffs
  BY LoadedTables DEF LoadConfig
<1>2. signals' \in [0 .. max.signals - 1 -> Word] /\ start' = signals'
  BY ConfigsAssumption DEF LoadConfig, TypeOK, IsConfig, Zero, Word
<1>3. TypeOK' /\ NoLeak' /\ UNCHANGED memory
  <2>1. overrun' \in BOOLEAN
    BY DEF LoadConfig
  <2> QED
    BY <1>1, <1>2, <2>1 DEF LoadConfig, TypeOK, NoLeak, memory
<1>4. initialized \/ (Len(luts') = 0 /\ Len(ffs') = 0)
  <2>1. ~initialized => max.luts = 0 /\ max.ffs = 0
    BY DEF InertWithoutBuffers, NoCapacity
  <2>2. Len(luts') \in Nat /\ Len(ffs') \in Nat
    BY <1>1
  <2> QED
    BY <1>1, <2>1, <2>2
<1>5. AccessesInBounds'
  BY <1>1, <1>3 DEF LoadConfig, AccessesInBounds, memory
<1>6. InertWithoutBuffers'
  <2>1. /\ Len(luts') > 0 => max.luts > 0 /\ initialized
        /\ Len(ffs') > 0 => max.ffs > 0 /\ initialized
    BY <1>1, <1>4 DEF TypeOK
  <2> QED
    BY <1>3, <2>1 DEF InertWithoutBuffers, memory, Buffers
<1> QED
  BY <1>3, <1>5, <1>6

LEMMA WriteSafe ==
  ASSUME Safe, NEW id \in 0 .. max.signals, NEW w \in InputWords, WriteInput(id, w)
  PROVE  Safe'
<1>1. signals' \in [0 .. max.signals - 1 -> Word] /\ start' = signals'
  BY InputWordsAssumption DEF WriteInput, Safe, TypeOK
<1> QED
  BY <1>1, SafeFrame DEF WriteInput, Safe, TypeOK

(* The loops store words, at outputs of the tables.                        *)
LEMMA ComputeSafe ==
  ASSUME Safe, Compute
  PROVE  Safe'
<1>0. TypeOK /\ AccessesInBounds
  BY DEF Safe
<1>1. CASE EvaluateBatch4
  <2> DEFINE lut(k) == luts[idx + k]
             out(k, debris) == LutOut(lut(k), Found(debris))
             two(debris) == Written(Written(signals, lut(1).out, out(1, debris)),
                                    lut(2).out, out(2, debris))
             four(debris) == Written(Written(two(debris), lut(3).out, out(3, debris)),
                                     lut(4).out, out(4, debris))
             to == {lut(k).out : k \in 1..4}
  <2>1. PICK debris \in Debris : Store(to, four(debris))
    BY <1>1 DEF EvaluateBatch4
  <2>2. four(debris) \in [0 .. max.signals - 1 -> Word]
    <3> DEFINE Nets == [0 .. max.signals - 1 -> Word]
               first == Written(signals, lut(1).out, out(1, debris))
               third == Written(two(debris), lut(3).out, out(3, debris))
    <3>1. /\ out(1, debris) \in Word /\ out(2, debris) \in Word
          /\ out(3, debris) \in Word /\ out(4, debris) \in Word
      BY LutOutIsWord
    <3> HIDE DEF lut, out
    <3>2. first \in Nets
      BY <1>0, <3>1, WrittenType DEF TypeOK
    <3>3. two(debris) \in Nets
      <4> HIDE DEF first
      <4>1. Written(first, lut(2).out, out(2, debris)) \in Nets
        BY <3>1, <3>2, WrittenType
      <4> QED
        BY <4>1 DEF first
    <3>4. third \in Nets
      <4> HIDE DEF two
      <4> QED
        BY <3>1, <3>3, WrittenType
    <3>5. Written(third, lut(4).out, out(4, debris)) \in Nets
      <4> HIDE DEF third
      <4> QED
        BY <3>1, <3>4, WrittenType
    <3> QED
      BY <3>5
  <2>3. to \in SUBSET (LutOutputs(luts) \cup FfOutputs(ffs))
    <3>1. idx \in Nat /\ Len(luts) \in Nat /\ idx + 3 < Len(luts)
      BY <1>0, <1>1 DEF EvaluateBatch4, TypeOK
    <3>2. \A k \in 1..4 : idx + k \in 1..Len(luts)
      BY <3>1
    <3> QED
      BY <3>2 DEF LutOutputs
  <2>4. UNCHANGED <<memory, luts, ffs, phase, cycles, start>> /\ idx' \in Nat
    BY <1>0, <1>1 DEF EvaluateBatch4, TypeOK
  <2> HIDE DEF to, four
  <2> QED
    BY <2>1, <2>2, <2>3, <2>4, LoopFrame
<1>2. CASE EvaluateRemainder
  <2> DEFINE lut == luts[idx + 1]
             stored(debris) == Written(signals, lut.out, LutOut(lut, Found(debris)))
  <2>1. PICK debris \in Debris : Store({lut.out}, stored(debris))
    BY <1>2 DEF EvaluateRemainder, EvaluateOne
  <2>2. stored(debris) \in [0 .. max.signals - 1 -> Word]
    BY <1>0, WrittenType, LutOutIsWord DEF TypeOK
  <2>3. {lut.out} \in SUBSET (LutOutputs(luts) \cup FfOutputs(ffs))
    <3>1. idx + 1 \in 1..Len(luts)
      BY <1>0, <1>2 DEF EvaluateRemainder, EvaluateOne, TypeOK
    <3> QED
      BY <3>1 DEF LutOutputs
  <2>4. UNCHANGED <<memory, luts, ffs, phase, cycles, start>> /\ idx' \in Nat
    BY <1>0, <1>2 DEF EvaluateRemainder, EvaluateOne, TypeOK
  <2> HIDE DEF lut, stored
  <2> QED
    BY <2>1, <2>2, <2>3, <2>4, LoopFrame
<1>3. CASE EvaluateDone
  BY <1>0, <1>3, EnterSafe DEF EvaluateDone, TypeOK
<1>4. CASE ClockFf
  <2> DEFINE ff == ffs[idx + 1]
             stored(debris) == Written(signals, ff.q, Found(debris)[ff.d])
  <2>1. PICK debris \in Debris : Store({ff.q}, stored(debris))
    BY <1>4 DEF ClockFf
  <2>2. idx + 1 \in 1..Len(ffs)
    BY <1>0, <1>4 DEF ClockFf, TypeOK
  <2>3. stored(debris) \in [0 .. max.signals - 1 -> Word]
    <3>1. ff \in MappedFf
      BY <1>0, <2>2 DEF TypeOK
    <3>2. Found(debris)[ff.d] \in Word
      BY <1>0, <3>1, FoundIsWord DEF MappedFf
    <3> QED
      BY <1>0, <3>2, WrittenType DEF TypeOK
  <2>4. {ff.q} \in SUBSET (LutOutputs(luts) \cup FfOutputs(ffs))
    BY <2>2 DEF FfOutputs
  <2>5. UNCHANGED <<memory, luts, ffs, phase, cycles, start>> /\ idx' \in Nat
    BY <1>0, <1>4 DEF ClockFf, TypeOK
  <2> HIDE DEF ff, stored
  <2> QED
    BY <2>1, <2>3, <2>4, <2>5, LoopFrame
<1>5. CASE ClockDone
  <2>1. (IF cycles > 1 THEN cycles - 1 ELSE 0) \in Nat
    BY <1>0 DEF TypeOK
  <2> QED
    BY <1>5, <2>1, EnterSafe DEF ClockDone
<1> QED
  BY <1>1, <1>2, <1>3, <1>4, <1>5 DEF Compute

LEMMA NextSafe == Safe /\ [Next]_vars => Safe'
<1> SUFFICES ASSUME Safe, [Next]_vars PROVE Safe'
  OBVIOUS
<1>1. CASE \E size \in Sizes, got \in SUBSET Buffers : CoreInit(size, got)
  BY <1>1, LifetimeSafe
<1>2. CASE Destroy \/ Reset
  BY <1>2, LifetimeSafe
<1>3. CASE \E cfg \in Configs : LoadConfig(cfg)
  BY <1>3, LoadSafe
<1>4. CASE \E id \in 0 .. max.signals, w \in InputWords : WriteInput(id, w)
  BY <1>4, WriteSafe
<1>5. CASE EvaluateCombinational \/ Clock
  BY <1>5, EnterSafe DEF EvaluateCombinational, Clock
<1>6. CASE \E n \in 1..MaxCycles : RunCycles(n)
  BY <1>6, EnterSafe, MaxCyclesAssumption DEF RunCycles
<1>7. CASE Compute
  BY <1>7, ComputeSafe
<1>8. CASE UNCHANGED vars
  <2>1. UNCHANGED <<memory, design>> /\ UNCHANGED <<signals, start, phase, idx, cycles>>
    BY <1>8 DEF vars, memory, design
  <2> QED
    BY <2>1, SafeFrame DEF Safe, TypeOK
<1> QED
  BY <1>1, <1>2, <1>3, <1>4, <1>5, <1>6, <1>7, <1>8 DEF Next

LEMMA SafeInvariant == Spec => []Safe
BY InitSafe, NextSafe, PTL DEF Spec

(* Every variable keeps its type.                                          *)
THEOREM TypeCorrect == Spec => []TypeOK
<1>1. Safe => TypeOK
  BY DEF Safe
<1> QED
  BY <1>1, SafeInvariant, PTL

(* No sequence of calls leaks, double-frees or loses a heap block.         *)
THEOREM HeapBalanced == Spec => []NoLeak
<1>1. Safe => NoLeak
  BY DEF Safe
<1> QED
  BY <1>1, SafeInvariant, PTL

(* A core whose initialization failed, or that was destroyed, is inert.    *)
THEOREM FailedInitIsInert == Spec => []InertWithoutBuffers
<1>1. Safe => InertWithoutBuffers
  BY DEF Safe
<1> QED
  BY <1>1, SafeInvariant, PTL

(* The loops never index past a table, and a store goes past the net values*)
(* only for an output net the design has and the core has not.             *)
THEOREM LoopsInBounds == Spec => []AccessesInBounds
<1>1. Safe => AccessesInBounds
  BY DEF Safe
<1> QED
  BY <1>1, SafeInvariant, PTL

-----------------------------------------------------------------------------
(***************************************************************************)
(* A pass settles, an edge is simultaneous.  The strengthening is PassInv  *)
(* and EdgeInv of VFpgaCore, on top of Safe.                               *)
(***************************************************************************)
LoopInv == Safe /\ PassInv /\ EdgeInv

(* A LUT's output depends on the nets it reads only.                       *)
LEMMA LutOutLocal ==
  ASSUME NEW l, NEW s, NEW t, \A n \in Reads(l) : s[n] = t[n]
  PROVE  LutOut(l, s) = LutOut(l, t)
BY DEF LutOut, Reads

(* What is known of an entry of the tables when the design fits.           *)
LEMMA LutBounds ==
  ASSUME Safe, FitsSignals, NEW k \in 1..Len(luts)
  PROVE  /\ luts[k].out \in DOMAIN signals
         /\ Reads(luts[k]) \subseteq DOMAIN signals
         /\ luts[k].out \in LutOutputs(luts)
         /\ Len(luts) \in Nat
<1>1. Len(luts) \in Nat
  BY DEF Safe, TypeOK
<1>2. Reads(luts[k]) \cup {luts[k].out} \subseteq TableNets(luts, ffs)
  BY DEF TableNets
<1> QED
  BY <1>1, <1>2 DEF FitsSignals, LutOutputs

LEMMA FfBounds ==
  ASSUME Safe, FitsSignals, NEW k \in 1..Len(ffs)
  PROVE  /\ ffs[k].d \in DOMAIN signals
         /\ ffs[k].q \in DOMAIN signals
         /\ ffs[k].q \in FfOutputs(ffs)
         /\ Len(ffs) \in Nat
<1>1. Len(ffs) \in Nat
  BY DEF Safe, TypeOK
<1>2. {ffs[k].d, ffs[k].q} \subseteq TableNets(luts, ffs)
  BY DEF TableNets
<1> QED
  BY <1>1, <1>2 DEF FitsSignals, FfOutputs

(* An iteration of a design that fits finds the nets and changes what it   *)
(* stores at.                                                              *)
LEMMA FoundInside ==
  ASSUME Safe, FitsSignals, NEW debris
  PROVE  /\ \A n \in DOMAIN signals : Found(debris)[n] = signals[n]
         /\ \A k \in 1..Len(luts) : LutOut(luts[k], Found(debris)) = LutOut(luts[k], signals)
<1>1. \A n \in DOMAIN signals : Found(debris)[n] = signals[n]
  BY DEF Safe, TypeOK, Found, Net
<1>2. \A k \in 1..Len(luts) : LutOut(luts[k], Found(debris)) = LutOut(luts[k], signals)
  BY <1>1, LutBounds, LutOutLocal
<1> QED
  BY <1>1, <1>2

LEMMA StoreInside ==
  ASSUME Safe, FitsSignals, NEW to \in SUBSET DOMAIN signals, NEW stored, Store(to, stored)
  PROVE  signals' = stored
<1>1. LutOutputs(luts) \cup FfOutputs(ffs) \subseteq DOMAIN signals
  <2>1. LutOutputs(luts) \subseteq DOMAIN signals
    BY LutBounds DEF LutOutputs
  <2>2. FfOutputs(ffs) \subseteq DOMAIN signals
    BY FfBounds DEF FfOutputs
  <2> QED
    BY <2>1, <2>2
<1>2. overrun = FALSE
  BY <1>1 DEF Safe, TypeOK, AccessesInBounds
<1> QED
  BY <1>2 DEF Store

(* A group of four writes its four outputs and nothing else.               *)
LEMMA Batch4Writes ==
  ASSUME Safe, FitsSignals, EvaluateBatch4
  PROVE  /\ DOMAIN signals' = DOMAIN signals
         /\ \A n \in DOMAIN signals :
              (\A m \in idx + 1 .. idx + 4 : luts[m].out # n) => signals'[n] = signals[n]
         /\ OrderedLuts(4, luts) =>
              \A m \in idx + 1 .. idx + 4 : signals'[luts[m].out] = LutOut(luts[m], signals)
<1>1. idx \in Nat /\ Len(luts) \in Nat /\ idx + 4 <= Len(luts)
  BY DEF Safe, TypeOK, EvaluateBatch4
<1>2. \A m \in {idx + 1, idx + 2, idx + 3, idx + 4} :
        m \in idx + 1 .. idx + 4 /\ m \in 1 .. Len(luts) /\ luts[m].out \in DOMAIN signals
  BY <1>1, LutBounds
<1> DEFINE lut(k) == luts[idx + k]
           out(k, debris) == LutOut(lut(k), Found(debris))
           two(debris) == Written(Written(signals, lut(1).out, out(1, debris)),
                                  lut(2).out, out(2, debris))
           four(debris) == Written(Written(two(debris), lut(3).out, out(3, debris)),
                                   lut(4).out, out(4, debris))
<1>3. PICK debris \in Debris : Store({lut(k).out : k \in 1..4}, four(debris))
  BY DEF EvaluateBatch4
<1>4. signals' = four(debris)
  <2>1. {lut(k).out : k \in 1..4} \in SUBSET DOMAIN signals
    BY <1>2
  <2> HIDE DEF four, lut
  <2> QED
    BY <1>3, <2>1, StoreInside
<1>5. \A k \in 1..4 : out(k, debris) = LutOut(lut(k), signals)
  BY <1>1, FoundInside
<1>6. signals = [n \in DOMAIN signals |-> signals[n]]
  BY DEF Safe, TypeOK
<1>7. \A k \in 1..4 : lut(k).out \in DOMAIN signals
  BY <1>2
<1>8. signals' = [signals EXCEPT ![lut(1).out] = out(1, debris), ![lut(2).out] = out(2, debris),
                                 ![lut(3).out] = out(3, debris), ![lut(4).out] = out(4, debris)]
  <2> HIDE DEF lut, out
  <2> QED
    BY <1>4, <1>6, <1>7 DEF Written
<1>9. DOMAIN signals' = DOMAIN signals
  BY <1>6, <1>8
<1>10. ASSUME NEW n \in DOMAIN signals, \A m \in idx + 1 .. idx + 4 : luts[m].out # n
       PROVE  signals'[n] = signals[n]
  <2>1. \A k \in 1..4 : lut(k).out # n
    BY <1>1, <1>10
  <2> HIDE DEF lut, out
  <2> QED
    BY <1>6, <1>8, <2>1
<1>11. ASSUME OrderedLuts(4, luts)
       PROVE  \A m \in idx + 1 .. idx + 4 : signals'[luts[m].out] = LutOut(luts[m], signals)
  <2>1. \A j, k \in 1..4 : j # k => lut(j).out # lut(k).out
    BY <1>1, <1>11 DEF OrderedLuts
  <2>2. \A k \in 1..4 : signals'[lut(k).out] = out(k, debris)
    <3> HIDE DEF lut, out
    <3> QED
      BY <1>6, <1>7, <1>8, <2>1
  <2>3. \A m \in idx + 1 .. idx + 4 : m - idx \in 1..4 /\ m = idx + (m - idx)
    BY <1>1
  <2>4. \A k \in 1..4 : signals'[lut(k).out] = LutOut(lut(k), signals)
    BY <1>5, <2>2
  <2> QED
    BY <2>3, <2>4
<1> QED
  BY <1>9, <1>10, <1>11

(* Whether the design fits does not change within a loop.                  *)
LEMMA FitsKept ==
  ASSUME Safe, Safe', UNCHANGED <<memory, luts, ffs>>
  PROVE  FitsSignals' <=> FitsSignals
BY DEF Safe, TypeOK, FitsSignals, memory

LEMMA Batch4SoFar ==
  ASSUME Safe, FitsSignals, PassInv, EvaluateBatch4
  PROVE  SettledSoFar'
<1> DEFINE n == Len(luts)
           group == idx + 1 .. idx + 4
<1>1. /\ idx \in Nat /\ n \in Nat /\ idx + 4 <= n
      /\ idx' = idx + 4 /\ luts' = luts /\ start' = start /\ phase = "eval"
  BY DEF Safe, TypeOK, EvaluateBatch4
<1>2. PICK g \in 0..n : idx = 4 * g
  BY <1>1 DEF PassInv
<1>3. SettledSoFar
  BY <1>1 DEF PassInv
<1>4. \A m \in group : m \in 1..n /\ luts[m].out \in LutOutputs(luts)
  BY <1>1, LutBounds
<1>5. \A x \in DOMAIN signals' \ LutOutputs(luts) : signals'[x] = start[x]
  <2> SUFFICES ASSUME NEW x \in DOMAIN signals' \ LutOutputs(luts)
               PROVE  signals'[x] = start[x]
    OBVIOUS
  <2>1. x \in DOMAIN signals
    BY Batch4Writes
  <2>2. \A m \in group : luts[m].out # x
    BY <1>4
  <2>3. signals'[x] = signals[x]
    BY <2>1, <2>2, Batch4Writes
  <2> QED
    BY <1>3, <2>1, <2>3 DEF SettledSoFar
<1>6. ASSUME OrderedLuts(4, luts), NEW k \in 1 .. idx + 4
      PROVE  signals'[luts[k].out] = LutOut(luts[k], signals')
  <2>1. k \in 1..n
    BY <1>1
  <2>2. \A m \in group : luts[m].out \notin Reads(luts[k])
    <3> SUFFICES ASSUME NEW m \in group, luts[m].out \in Reads(luts[k])
                 PROVE  FALSE
      OBVIOUS
    <3>1. m < k /\ ~SameBatch(4, n, m, k)
      BY <1>4, <1>6, <2>1 DEF OrderedLuts
    <3>2. m \in 4 * g + 1 .. 4 * g + 4 /\ k \in 4 * g + 1 .. 4 * g + 4
      BY <1>1, <1>2, <3>1
    <3>3. SameBatch(4, n, m, k)
      BY <1>1, <1>2, <3>2 DEF SameBatch
    <3> QED
      BY <3>1, <3>3
  <2>3. \A x \in Reads(luts[k]) : signals'[x] = signals[x]
    BY <2>1, <2>2, LutBounds, Batch4Writes
  <2>4. LutOut(luts[k], signals') = LutOut(luts[k], signals)
    BY <2>3, LutOutLocal
  <2>5. CASE k \in group
    BY <1>6, <2>4, <2>5, Batch4Writes
  <2>6. CASE k \in 1..idx
    <3>1. \A m \in group : luts[m].out # luts[k].out
      BY <1>1, <1>4, <1>6, <2>1, <2>6 DEF OrderedLuts
    <3>2. signals'[luts[k].out] = signals[luts[k].out]
      BY <2>1, <3>1, LutBounds, Batch4Writes
    <3> QED
      BY <1>3, <1>6, <2>4, <2>6, <3>2 DEF SettledSoFar
  <2> QED
    BY <1>1, <2>5, <2>6
<1> QED
  BY <1>1, <1>5, <1>6 DEF SettledSoFar

LEMMA Batch4Pass ==
  ASSUME Safe, PassInv, EvaluateBatch4
  PROVE  PassInv'
<1> DEFINE n == Len(luts)
<1>1. /\ idx \in Nat /\ n \in Nat /\ idx + 4 <= n /\ idx' = idx + 4 /\ phase = "eval"
      /\ UNCHANGED <<memory, luts, ffs>>
  BY DEF Safe, TypeOK, EvaluateBatch4
<1>2. PICK g \in 0..n : idx = 4 * g
  BY <1>1 DEF PassInv
<1>3. idx' = 4 * (g + 1) /\ g + 1 \in 0..n
  BY <1>1, <1>2
<1>4. FitsSignals' => SettledSoFar'
  BY <1>1, FitsKept, ComputeSafe, Batch4SoFar DEF Compute
<1> QED
  BY <1>1, <1>3, <1>4 DEF PassInv

LEMMA RemainderSoFar ==
  ASSUME Safe, FitsSignals, PassInv, EvaluateRemainder
  PROVE  SettledSoFar'
<1> DEFINE n == Len(luts)
           m == idx + 1
<1>1. /\ idx \in Nat /\ n \in Nat /\ m \in 1..n
      /\ idx' = m /\ luts' = luts /\ start' = start /\ phase = "eval"
  BY DEF Safe, TypeOK, EvaluateRemainder, EvaluateOne
<1>2. /\ DOMAIN signals' = DOMAIN signals
      /\ signals'[luts[m].out] = LutOut(luts[m], signals)
      /\ \A x \in DOMAIN signals : x # luts[m].out => signals'[x] = signals[x]
  <2> DEFINE lut == luts[m]
             out(debris) == LutOut(lut, Found(debris))
  <2>1. PICK debris \in Debris : Store({lut.out}, Written(signals, lut.out, out(debris)))
    BY DEF EvaluateRemainder, EvaluateOne
  <2>2. lut.out \in DOMAIN signals /\ out(debris) = LutOut(lut, signals)
    BY <1>1, LutBounds, FoundInside
  <2>3. signals' = Written(signals, lut.out, out(debris))
    BY <2>1, <2>2, StoreInside
  <2>4. signals' = [signals EXCEPT ![lut.out] = out(debris)]
    BY <2>2, <2>3 DEF Written
  <2>5. signals = [x \in DOMAIN signals |-> signals[x]]
    BY DEF Safe, TypeOK
  <2> HIDE DEF lut, out
  <2>6. /\ DOMAIN signals' = DOMAIN signals
        /\ signals'[lut.out] = LutOut(lut, signals)
        /\ \A x \in DOMAIN signals : x # lut.out => signals'[x] = signals[x]
    BY <2>2, <2>4, <2>5
  <2> QED
    BY <2>6 DEF lut
<1>3. \A x \in DOMAIN signals' \ LutOutputs(luts) : signals'[x] = start[x]
  BY <1>1, <1>2, LutBounds DEF PassInv, SettledSoFar
<1>4. ASSUME OrderedLuts(4, luts), NEW k \in 1..m
      PROVE  signals'[luts[k].out] = LutOut(luts[k], signals')
  <2>1. k \in 1..n /\ ~(m < k)
    BY <1>1
  <2>2. luts[m].out \notin Reads(luts[k])
    BY <1>1, <1>4, <2>1 DEF OrderedLuts
  <2>3. \A x \in Reads(luts[k]) : signals'[x] = signals[x]
    BY <1>2, <2>1, <2>2, LutBounds
  <2>4. LutOut(luts[k], signals') = LutOut(luts[k], signals)
    BY <2>3, LutOutLocal
  <2>5. CASE k = m
    BY <1>2, <2>4, <2>5
  <2>6. CASE k \in 1..idx
    <3>1. luts[k].out # luts[m].out
      BY <1>1, <1>4, <2>1, <2>6 DEF OrderedLuts
    <3>2. signals'[luts[k].out] = signals[luts[k].out]
      BY <1>2, <2>1, <3>1, LutBounds
    <3> QED
      BY <1>1, <1>4, <2>4, <2>6, <3>2 DEF PassInv, SettledSoFar
  <2> QED
    BY <1>1, <2>5, <2>6
<1> QED
  BY <1>1, <1>3, <1>4 DEF SettledSoFar

LEMMA RemainderPass ==
  ASSUME Safe, PassInv, EvaluateRemainder
  PROVE  PassInv'
<1>1. /\ idx \in Nat /\ Len(luts) \in Nat /\ idx + 1 <= Len(luts) /\ ~(idx + 3 < Len(luts))
      /\ idx' = idx + 1 /\ UNCHANGED <<memory, luts, ffs>>
  BY DEF Safe, TypeOK, EvaluateRemainder, EvaluateOne
<1>2. FitsSignals' => SettledSoFar'
  BY <1>1, FitsKept, ComputeSafe, RemainderSoFar DEF Compute
<1> QED
  BY <1>1, <1>2 DEF PassInv

LEMMA ClockFfSoFar ==
  ASSUME Safe, FitsSignals, EdgeInv, ClockFf
  PROVE  ClockedSoFar'
<1> DEFINE m == idx + 1
<1>1. /\ idx \in Nat /\ Len(ffs) \in Nat /\ m \in 1..Len(ffs)
      /\ idx' = m /\ ffs' = ffs /\ start' = start /\ phase = "clock"
  BY DEF Safe, TypeOK, ClockFf
<1>2. /\ DOMAIN signals' = DOMAIN signals
      /\ signals'[ffs[m].q] = signals[ffs[m].d]
      /\ \A x \in DOMAIN signals : x # ffs[m].q => signals'[x] = signals[x]
  <2> DEFINE ff == ffs[m]
             found(debris) == Found(debris)[ff.d]
  <2>1. PICK debris \in Debris : Store({ff.q}, Written(signals, ff.q, found(debris)))
    BY DEF ClockFf
  <2>2. ff.q \in DOMAIN signals /\ found(debris) = signals[ff.d]
    BY <1>1, FfBounds, FoundInside
  <2>3. signals' = Written(signals, ff.q, found(debris))
    BY <2>1, <2>2, StoreInside
  <2>4. signals' = [signals EXCEPT ![ff.q] = found(debris)]
    BY <2>2, <2>3 DEF Written
  <2>5. signals = [x \in DOMAIN signals |-> signals[x]]
    BY DEF Safe, TypeOK
  <2> HIDE DEF ff, found
  <2>6. /\ DOMAIN signals' = DOMAIN signals
        /\ signals'[ff.q] = signals[ff.d]
        /\ \A x \in DOMAIN signals : x # ff.q => signals'[x] = signals[x]
    BY <2>2, <2>4, <2>5
  <2> QED
    BY <2>6 DEF ff
<1>3. ASSUME NEW x \in DOMAIN signals', \A k \in 1..m : ffs[k].q # x
      PROVE  signals'[x] = start[x]
  <2>1. signals'[x] = signals[x]
    BY <1>1, <1>2, <1>3
  <2>2. \A k \in 1..idx : ffs[k].q # x
    BY <1>1, <1>3
  <2> QED
    BY <1>1, <1>2, <2>1, <2>2 DEF EdgeInv, ClockedSoFar
<1>4. ASSUME OrderedFfs(ffs), NEW k \in 1..m
      PROVE  signals'[ffs[k].q] = start[ffs[k].d]
  <2>1. k \in 1..Len(ffs)
    BY <1>1
  <2>2. CASE k = m
    <3>1. \A j \in 1..idx : ffs[j].q # ffs[m].d
      BY <1>1, <1>4 DEF OrderedFfs
    <3>2. signals[ffs[m].d] = start[ffs[m].d]
      BY <1>1, <3>1, FfBounds DEF EdgeInv, ClockedSoFar
    <3> QED
      BY <1>2, <2>2, <3>2
  <2>3. CASE k \in 1..idx
    <3>1. ffs[k].q # ffs[m].q
      BY <1>1, <1>4, <2>1, <2>3 DEF OrderedFfs
    <3>2. signals'[ffs[k].q] = signals[ffs[k].q]
      BY <1>2, <2>1, <3>1, FfBounds
    <3> QED
      BY <1>1, <1>4, <2>3, <3>2 DEF EdgeInv, ClockedSoFar
  <2> QED
    BY <1>1, <2>2, <2>3
<1> QED
  BY <1>1, <1>3, <1>4 DEF ClockedSoFar

LEMMA ClockFfEdge ==
  ASSUME Safe, EdgeInv, ClockFf
  PROVE  EdgeInv'
<1>1. /\ idx \in Nat /\ Len(ffs) \in Nat /\ idx + 1 <= Len(ffs)
      /\ idx' = idx + 1 /\ UNCHANGED <<memory, luts, ffs>>
  BY DEF Safe, TypeOK, ClockFf
<1>2. FitsSignals' => ClockedSoFar'
  BY <1>1, FitsKept, ComputeSafe, ClockFfSoFar DEF Compute
<1> QED
  BY <1>1, <1>2 DEF EdgeInv

(* A loop that has just begun.                                             *)
LEMMA EnterLoop ==
  ASSUME Safe, NEW loop, NEW left, Enter(loop, left)
  PROVE  PassInv' /\ EdgeInv'
<1>1. idx' = 0 /\ start' = signals' /\ Len(luts') \in Nat /\ Len(ffs') \in Nat
  BY DEF Enter, Safe, TypeOK, design
<1>2. 0 = 4 * 0 /\ 0 \in 0 .. Len(luts')
  BY <1>1
<1>3. SettledSoFar' /\ ClockedSoFar'
  BY <1>1 DEF SettledSoFar, ClockedSoFar
<1> QED
  BY <1>1, <1>2, <1>3 DEF PassInv, EdgeInv

LEMMA InitLoop == Init => LoopInv
BY InitSafe DEF Init, LoopInv, PassInv, EdgeInv

LEMMA NextLoop == LoopInv /\ [Next]_vars => LoopInv'
<1> SUFFICES ASSUME LoopInv, [Next]_vars PROVE PassInv' /\ EdgeInv'
  BY NextSafe DEF LoopInv
<1>1. Safe /\ PassInv /\ EdgeInv
  BY DEF LoopInv
<1>2. CASE \/ \E size \in Sizes, got \in SUBSET Buffers : CoreInit(size, got)
           \/ Destroy
           \/ Reset
           \/ \E cfg \in Configs : LoadConfig(cfg)
           \/ \E id \in 0 .. max.signals, w \in InputWords : WriteInput(id, w)
  <2>1. phase' = "idle"
    BY <1>2 DEF CoreInit, Destroy, Reset, LoadConfig, WriteInput
  <2> QED
    BY <2>1 DEF PassInv, EdgeInv
<1>3. CASE EvaluateCombinational \/ Clock \/ \E n \in 1..MaxCycles : RunCycles(n)
  BY <1>1, <1>3, EnterLoop DEF EvaluateCombinational, Clock, RunCycles
<1>4. CASE EvaluateDone \/ ClockDone
  BY <1>1, <1>4, EnterLoop DEF EvaluateDone, ClockDone
<1>5. CASE EvaluateBatch4
  BY <1>1, <1>5, Batch4Pass DEF EvaluateBatch4, EdgeInv
<1>6. CASE EvaluateRemainder
  BY <1>1, <1>6, RemainderPass DEF EvaluateRemainder, EvaluateOne, EdgeInv
<1>7. CASE ClockFf
  BY <1>1, <1>7, ClockFfEdge DEF ClockFf, PassInv
<1>8. CASE UNCHANGED vars
  <2>1. FitsSignals' = FitsSignals /\ SettledSoFar' = SettledSoFar /\ ClockedSoFar' = ClockedSoFar
    BY <1>8 DEF vars, FitsSignals, SettledSoFar, ClockedSoFar
  <2> QED
    BY <1>1, <1>8, <2>1 DEF vars, PassInv, EdgeInv
<1> QED
  BY <1>2, <1>3, <1>4, <1>5, <1>6, <1>7, <1>8 DEF Next, Compute

LEMMA LoopInvariant == Spec => []LoopInv
BY InitLoop, NextLoop, PTL DEF Spec

(* One pass of evaluate_batch_4 settles every design that fits and whose   *)
(* LUTs are ordered for groups of four, whatever the number of LUTs and    *)
(* lanes.                                                                  *)
THEOREM OnePassSettles == Spec => PassSettles
<1>1. LoopInv => (EvaluateDone /\ FitsSignals /\ OrderedLuts(4, luts) => Settled(luts, signals))
  <2> SUFFICES ASSUME Safe, PassInv, EvaluateDone, FitsSignals, OrderedLuts(4, luts)
               PROVE  Settled(luts, signals)
    BY DEF LoopInv
  <2>1. idx = Len(luts)
    BY DEF EvaluateDone, PassInv, Safe, TypeOK
  <2> QED
    BY <2>1 DEF EvaluateDone, PassInv, SettledSoFar, Settled
<1>2. LoopInv =>
        [EvaluateDone /\ FitsSignals /\ OrderedLuts(4, luts) => Settled(luts, signals)]_vars
  BY <1>1
<1> QED
  BY <1>2, LoopInvariant, PTL DEF PassSettles

(* clock() is a simultaneous edge for every ordered flip-flop table of a   *)
(* design that fits.                                                       *)
THEOREM EdgeSimultaneous == Spec => EdgeIsSimultaneous
<1>1. LoopInv => [ ClockDone /\ FitsSignals /\ OrderedFfs(ffs) =>
                     \A k \in 1..Len(ffs) : signals[ffs[k].q] = start[ffs[k].d] ]_vars
  <2> SUFFICES ASSUME Safe, EdgeInv, ClockDone, FitsSignals, OrderedFfs(ffs)
               PROVE  \A k \in 1..Len(ffs) : signals[ffs[k].q] = start[ffs[k].d]
    BY DEF LoopInv
  <2>1. idx = Len(ffs)
    BY DEF ClockDone, EdgeInv, Safe, TypeOK
  <2> QED
    BY <2>1 DEF ClockDone, EdgeInv, ClockedSoFar
<1> QED
  BY <1>1, LoopInvariant, PTL DEF EdgeIsSimultaneous

-----------------------------------------------------------------------------
(***************************************************************************)
(* The core implements a synchronous circuit.  The nets of the     *)
(* abstract circuit change only when a loop ends.                          *)
(***************************************************************************)
LEMMA SameSettled ==
  ASSUME NEW s
  PROVE  /\ Circuit!OrderedLuts(4, luts) <=> OrderedLuts(4, luts)
         /\ Circuit!OrderedFfs(ffs) <=> OrderedFfs(ffs)
         /\ Circuit!Settled(luts, s) <=> Settled(luts, s)
         /\ Circuit!LutOutputs(luts) = LutOutputs(luts)
         /\ Circuit!FfOutputs(ffs) = FfOutputs(ffs)
         /\ Circuit!TableNets(luts, ffs) = TableNets(luts, ffs)
BY DEF Circuit!TableNets, TableNets, Circuit!OrderedLuts, OrderedLuts, Circuit!OrderedFfs, OrderedFfs, Circuit!Settled, Settled,
       Circuit!LutOutputs, LutOutputs, Circuit!FfOutputs, FfOutputs, Circuit!Reads, Reads,
       Circuit!SameBatch, SameBatch, Circuit!LutOut, LutOut, Circuit!Evaluate, Evaluate,
       Circuit!Bit, Bit

LEMMA InitCircuit == Init => Circuit!CircuitInit
BY DEF Init, Circuit!CircuitInit, Circuit!Blank, Circuit!Zero, Cleared, NoCapacity, Zero

(* init(), destroy() and reset() clear the circuit.                        *)
LEMMA LifetimeStep ==
  ASSUME \/ \E size \in Sizes, got \in SUBSET Buffers : CoreInit(size, got)
         \/ Destroy
         \/ Reset
  PROVE  Circuit!Clear \/ UNCHANGED Circuit!circuitVars
<1>1. phase = "idle" /\ UNCHANGED <<phase, cycles>>
  BY DEF CoreInit, Destroy, Reset
<1>2. CASE /\ luts' = <<>> /\ ffs' = <<>>
           /\ \E c : signals' = Cleared(c)
  <2>1. signals' = [n \in DOMAIN signals' |-> Zero]
    BY <1>2 DEF Cleared
  <2> QED
    BY <1>1, <1>2, <2>1 DEF Circuit!Clear, Circuit!Blank, Circuit!Zero, Zero
<1>3. CASE UNCHANGED <<signals, design>>
  BY <1>1, <1>3 DEF Circuit!circuitVars, design
<1> QED
  BY <1>2, <1>3 DEF CoreInit, Destroy, Reset

LEMMA LoadStep ==
  ASSUME Safe, NEW cfg \in Configs, LoadConfig(cfg)
  PROVE  Circuit!Configure(cfg)
<1>1. TypeOK
  BY DEF Safe
<1>2. cfg.luts \in Seq(MappedLut) /\ cfg.ffs \in Seq(MappedFf) /\ max.luts \in Nat /\ max.ffs \in Nat
  BY <1>1, ConfigsAssumption DEF IsConfig, TypeOK
<1> DEFINE nl == Taken(cfg.luts, max.luts)
           nf == Taken(cfg.ffs, max.ffs)
<1>3. nl \in Nat /\ nl <= Len(cfg.luts) /\ nf \in Nat /\ nf <= Len(cfg.ffs)
  BY <1>2 DEF Taken
<1>4. luts' = [k \in 1..nl |-> LoadLut(cfg.luts[k])] /\ ffs' = [k \in 1..nf |-> cfg.ffs[k]]
  BY DEF LoadConfig, LoadedLuts, LoadedFfs
<1>5. Len(luts') = nl /\ Len(ffs') = nf
  <2>1. luts' \in Seq(CoreLut) /\ ffs' \in Seq(MappedFf)
    BY <1>1, LoadedTables DEF LoadConfig
  <2>2. DOMAIN luts' = 1..nl /\ DOMAIN ffs' = 1..nf
    BY <1>4
  <2> QED
    BY <1>3, <2>1, <2>2
<1>6. ASSUME NEW k \in 1..Len(luts')
      PROVE  /\ luts'[k].tt = cfg.luts[k].tt /\ luts'[k].out = cfg.luts[k].out
             /\ \A i \in 1..4 : i <= Len(cfg.luts[k].in) => luts'[k].in[i] = cfg.luts[k].in[i]
  BY <1>4, <1>5 DEF LoadLut
<1>7. \A k \in 1..Len(ffs') : ffs'[k] = cfg.ffs[k]
  BY <1>4, <1>5
<1>8. /\ phase = "idle" /\ UNCHANGED <<phase, cycles>>
      /\ DOMAIN signals' = DOMAIN signals
      /\ \A n \in DOMAIN signals :
           signals'[n] = IF n \in DOMAIN cfg.constants THEN cfg.constants[n] ELSE Zero
  BY DEF LoadConfig
<1>9. Len(luts') <= Len(cfg.luts) /\ Len(ffs') <= Len(cfg.ffs)
  BY <1>3, <1>5
<1> QED
  BY <1>6, <1>7, <1>8, <1>9, Zenon DEF Circuit!Configure, Circuit!Zero, Zero

LEMMA WriteStep ==
  ASSUME Safe, NEW id \in 0 .. max.signals, NEW w \in InputWords, WriteInput(id, w)
  PROVE  Circuit!Drive \/ UNCHANGED Circuit!circuitVars
<1>1. phase = "idle" /\ UNCHANGED <<design, phase, cycles>>
  BY DEF WriteInput
<1>2. CASE id < max.signals
  <2>1. id \in DOMAIN signals /\ w \in Circuit!Word
    BY <1>2, InputWordsAssumption DEF Safe, TypeOK, Circuit!Word, Word
  <2>2. signals' = [signals EXCEPT ![id] = w]
    BY <1>2 DEF WriteInput
  <2> QED
    BY <1>1, <2>1, <2>2 DEF Circuit!Drive, design
<1>3. CASE ~(id < max.signals)
  BY <1>1, <1>3 DEF WriteInput, Circuit!circuitVars, design
<1> QED
  BY <1>2, <1>3

LEMMA BeginStep ==
  ASSUME EvaluateCombinational \/ Clock \/ \E n \in 1..MaxCycles : RunCycles(n)
  PROVE  Circuit!Begin
<1>1. PICK loop \in {"eval", "clock"}, left \in Nat : phase = "idle" /\ Enter(loop, left)
  BY MaxCyclesAssumption DEF EvaluateCombinational, Clock, RunCycles
<1>2. /\ phase = "idle" /\ phase' = loop /\ cycles' = left /\ start' = signals
      /\ UNCHANGED <<design>>
  BY <1>1 DEF Enter
<1> QED
  BY <1>2 DEF Circuit!Begin, design

(* Iterations of a loop do not show.                                       *)
LEMMA InnerStep ==
  ASSUME EvaluateBatch4 \/ EvaluateRemainder \/ ClockFf
  PROVE  UNCHANGED Circuit!circuitVars
<1>1. phase \in {"eval", "clock"} /\ UNCHANGED <<luts, ffs, phase, cycles, start>>
  BY DEF EvaluateBatch4, EvaluateRemainder, EvaluateOne, ClockFf
<1> QED
  BY <1>1 DEF Circuit!circuitVars

LEMMA SettleStep ==
  ASSUME Safe, PassInv, EvaluateDone
  PROVE  Circuit!Settle
<1>1. idx = Len(luts) /\ phase = "eval"
  BY DEF EvaluateDone, PassInv, Safe, TypeOK
<1>2. /\ phase' = (IF cycles = 0 THEN "idle" ELSE "clock")
      /\ cycles' = cycles /\ signals' = signals /\ start' = signals /\ luts' = luts /\ ffs' = ffs
  BY DEF EvaluateDone, Enter, design
<1>3. DOMAIN signals = DOMAIN start
  BY DEF Safe, TypeOK
<1>4. FitsSignals => \A n \in DOMAIN signals \ LutOutputs(luts) : signals[n] = start[n]
  BY <1>1 DEF PassInv, SettledSoFar
<1>5. FitsSignals /\ OrderedLuts(4, luts) => Settled(luts, signals)
  BY <1>1 DEF PassInv, SettledSoFar, Settled
<1>6. (IF phase' = "idle" THEN signals' ELSE start') = signals
  BY <1>2
<1>7. (IF phase = "idle" THEN signals ELSE start) = start
  BY <1>1
<1>8. Circuit!NetsExist <=> FitsSignals
  BY <1>3, <1>7, SameSettled DEF Circuit!NetsExist, FitsSignals
<1> QED
  BY <1>1, <1>2, <1>3, <1>4, <1>5, <1>6, <1>7, <1>8, SameSettled DEF Circuit!Settle

LEMMA EdgeStep ==
  ASSUME Safe, EdgeInv, ClockDone
  PROVE  Circuit!Edge
<1>1. idx = Len(ffs) /\ phase = "clock"
  BY DEF ClockDone, EdgeInv, Safe, TypeOK
<1>2. /\ phase' = (IF cycles > 1 THEN "eval" ELSE "idle")
      /\ cycles' = (IF cycles > 1 THEN cycles - 1 ELSE 0)
      /\ signals' = signals /\ start' = signals /\ luts' = luts /\ ffs' = ffs
  BY DEF ClockDone, Enter, design
<1>3. DOMAIN signals = DOMAIN start
  BY DEF Safe, TypeOK
<1>4. FitsSignals => \A n \in DOMAIN signals \ FfOutputs(ffs) : signals[n] = start[n]
  BY <1>1 DEF EdgeInv, ClockedSoFar, FfOutputs
<1>5. FitsSignals /\ OrderedFfs(ffs) =>
        \A k \in 1..Len(ffs) : signals[ffs[k].q] = start[ffs[k].d]
  BY <1>1 DEF EdgeInv, ClockedSoFar
<1>6. (IF phase' = "idle" THEN signals' ELSE start') = signals
  BY <1>2
<1>7. (IF phase = "idle" THEN signals ELSE start) = start
  BY <1>1
<1>8. Circuit!NetsExist <=> FitsSignals
  BY <1>3, <1>7, SameSettled DEF Circuit!NetsExist, FitsSignals
<1> QED
  BY <1>1, <1>2, <1>3, <1>4, <1>5, <1>6, <1>7, <1>8, SameSettled DEF Circuit!Edge

LEMMA NextCircuit ==
  LoopInv /\ [Next]_vars => [Circuit!CircuitNext]_(Circuit!circuitVars)
<1> SUFFICES ASSUME LoopInv, [Next]_vars
             PROVE  Circuit!CircuitNext \/ UNCHANGED Circuit!circuitVars
  OBVIOUS
<1> USE DEF LoopInv, Circuit!CircuitNext
<1>1. CASE \/ \E size \in Sizes, got \in SUBSET Buffers : CoreInit(size, got)
           \/ Destroy
           \/ Reset
  BY <1>1, LifetimeStep
<1>2. CASE \E cfg \in Configs : LoadConfig(cfg)
  BY <1>2, LoadStep
<1>3. CASE \E id \in 0 .. max.signals, w \in InputWords : WriteInput(id, w)
  BY <1>3, WriteStep
<1>4. CASE EvaluateCombinational \/ Clock \/ \E n \in 1..MaxCycles : RunCycles(n)
  BY <1>4, BeginStep
<1>5. CASE EvaluateBatch4 \/ EvaluateRemainder \/ ClockFf
  BY <1>5, InnerStep
<1>6. CASE EvaluateDone
  BY <1>6, SettleStep
<1>7. CASE ClockDone
  BY <1>7, EdgeStep
<1>8. CASE UNCHANGED vars
  BY <1>8 DEF vars, Circuit!circuitVars
<1> QED
  BY <1>1, <1>2, <1>3, <1>4, <1>5, <1>6, <1>7, <1>8 DEF Next, Compute

(* The firmware's core, with its groups of four and its one-by-one clock,  *)
(* is a synchronous circuit for every ordered design that fits.            *)
THEOREM CoreImplementsCircuit == Spec => ImplementsCircuit
BY InitCircuit, NextCircuit, LoopInvariant, PTL
   DEF Spec, ImplementsCircuit, Circuit!CircuitSpec
=============================================================================
