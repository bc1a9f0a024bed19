--------------------------- MODULE RiscvSocProofs --------------------------
(***************************************************************************)
(* Proofs about RiscvSoc, for every script, program, RAM size, lane count  *)
(* and stray word.                                                         *)
(*                                                                         *)
(* The output register: a read goes through stages that nothing else can   *)
(* come between, each of which adds a net that is known, and the gate in   *)
(* the core is always the one of the truth table that was written last.    *)
(*                                                                         *)
(* The types: every field of an instruction is a number of its width, every*)
(* operation of the machine leaves 32 bits, and what a store changes of RAM*)
(* are bytes of it.                                                        *)
(***************************************************************************)
EXTENDS RiscvSoc, DataLemmas, TLAPS

(* The table in the core is the gate of the fabric's truth table.          *)
HoldsGate ==
  /\ max = FabricSize
  /\ Len(luts) = 1
  /\ luts[1].tt = fabric.tt /\ luts[1].out = NetY
  /\ luts[1].in[1] = NetA /\ luts[1].in[2] = NetB /\ luts[1].in[3] = 0 /\ luts[1].in[4] = 0
  /\ signals[0] = Zero

(* The core has its memory or not, and holds no table or the fabric's,     *)
(* whose nets are its own.                                                 *)
FabricShape ==
  /\ fabric \in [a : BOOLEAN, b : BOOLEAN, tt : TruthTable]
  /\ stage \in {"none", "a", "b", "evaluate", "loop"}
  /\ max \in {Core!NoCapacity, FabricSize}
  /\ signals \in [0 .. max.signals - 1 -> Word]
  /\ luts = <<>> \/ HoldsGate
  /\ luts = <<>> /\ NetY \in DOMAIN signals => signals[NetY] = Zero
  /\ overrun = FALSE
  /\ max = FabricSize => initialized = TRUE

(* The loop runs within a read only, and no register is ever clocked.      *)
FabricControl ==
  /\ phase \in {"idle", "eval"} /\ idx \in Nat /\ cycles = 0
  /\ stage # "loop" => phase = "idle"

(* What the stages of a read have done.                                    *)
ReadGoesOn ==
  luts # <<>> =>
    /\ stage \in {"b", "evaluate", "loop"} => signals[NetA] = Driven(fabric.a)
    /\ stage \in {"evaluate", "loop"} => signals[NetB] = Driven(fabric.b)
    /\ stage = "loop" /\ (phase = "idle" \/ idx > 0) => signals[NetY] = LutOut(luts[1], signals)

FabricInv == FabricShape /\ FabricControl /\ ReadGoesOn

-----------------------------------------------------------------------------
(* The steps, by what they do to the fabric *)

LeavesFabric == UNCHANGED <<fabric, stage, coreVars>>
BeginsRead == stage = "none" /\ stage' = "a" /\ UNCHANGED <<fabric, coreVars>>
EndsRead == FabricReady /\ stage' = "none" /\ UNCHANGED <<fabric, coreVars>>
WritesRegister ==
  /\ stage = "none" /\ stage' = stage
  /\ \E addr, data : FabricWrite(addr, data)

LEMMA RetireLeaves ==
  ASSUME NEW newRegs, NEW newPc, Retire(newRegs, newPc)
  PROVE  UNCHANGED <<script, made, connected, seen>>
BY DEF Retire

LEMMA InstructionSteps ==
  ASSUME Instruction
  PROVE  LeavesFabric \/ BeginsRead \/ WritesRegister
<1>1. PICK inst \in Words(pc) : Execute(inst)
  BY DEF Instruction
<1>2. stage = "none"
  BY DEF Instruction, Fetches
<1>3. CASE RegisterOp(inst)
  BY <1>3 DEF RegisterOp, LeavesFabric
<1>4. CASE ImmediateOp(inst)
  BY <1>4 DEF ImmediateOp, LeavesFabric
<1>5. CASE Load(inst)
  BY <1>5 DEF Load, LeavesFabric
<1>6. CASE BeginLoad(inst)
  BY <1>2, <1>6 DEF BeginLoad, BeginsRead
<1>7. CASE Store(inst)
  BY <1>2, <1>7 DEF Store, LeavesFabric, WritesRegister
<1>8. CASE Branch(inst)
  BY <1>8 DEF Branch, LeavesFabric
<1>9. CASE LoadUpper(inst)
  BY <1>9 DEF LoadUpper, LeavesFabric
<1>10. CASE AddUpper(inst)
  BY <1>10 DEF AddUpper, LeavesFabric
<1>11. CASE Jump(inst)
  BY <1>11 DEF Jump, LeavesFabric
<1>12. CASE JumpRegister(inst)
  BY <1>12 DEF JumpRegister, LeavesFabric
<1>13. CASE System(inst)
  BY <1>13 DEF System, LeavesFabric
<1>14. CASE UnknownOp(inst)
  BY <1>14 DEF UnknownOp, LeavesFabric
<1> QED
  BY <1>1, <1>3, <1>4, <1>5, <1>6, <1>7, <1>8, <1>9, <1>10, <1>11, <1>12, <1>13, <1>14 DEF Execute

LEMMA FabricSteps ==
  ASSUME [SocNext]_socVars
  PROVE  \/ LeavesFabric \/ BeginsRead \/ EndsRead \/ WritesRegister \/ InitFabric
         \/ ApplyA \/ ApplyB \/ ApplyEvaluate \/ CoreRuns
<1>1. CASE Instruction
  BY <1>1, InstructionSteps
<1>2. CASE LoadReturns
  BY <1>2 DEF LoadReturns, EndLoad, EndsRead
<1>3. CASE ResetCpu \/ Connect \/ LoadProgram \/ Run
  BY <1>3 DEF ResetCpu, Connect, LoadProgram, Run, LeavesFabric
<1>4. CASE OwnerWrites
  BY <1>4 DEF OwnerWrites, Called, WritesRegister
<1>5. CASE OwnerReads
  BY <1>5 DEF OwnerReads, Called, BeginsRead
<1>6. CASE OwnerHasRead
  BY <1>6 DEF OwnerHasRead, EndsRead
<1>7. CASE UNCHANGED socVars
  BY <1>7 DEF socVars, LeavesFabric
<1> QED
  BY <1>1, <1>2, <1>3, <1>4, <1>5, <1>6, <1>7 DEF SocNext

-----------------------------------------------------------------------------
(* The output register *)

(* The core's fabric is the fabric.                                        *)
LEMMA SameFabric ==
  Core!Zero = Zero /\ \A lut, sig : Core!LutOut(lut, sig) = LutOut(lut, sig)
BY DEF Core!Zero, Zero, Core!LutOut, LutOut, Core!Evaluate, Evaluate, Core!Bit, Bit

LEMMA FabricStart == SocInit => FabricInv
<1> SUFFICES ASSUME SocInit PROVE FabricInv
  OBVIOUS
<1>1. Core!Init
  BY DEF SocInit
<1>2. signals \in [0 .. max.signals - 1 -> Word] /\ NetY \notin DOMAIN signals
  BY <1>1 DEF Core!Init, Core!Cleared, Core!NoCapacity, Zero, Word, NetY
<1>3. max = Core!NoCapacity /\ max # FabricSize
  BY <1>1 DEF Core!Init, Core!NoCapacity, FabricSize
<1> QED
  BY <1>1, <1>2, <1>3 DEF SocInit, Core!Init, FabricInv, FabricShape, FabricControl, ReadGoesOn, TruthTable

LEMMA RegistersDiffer == RegA # RegB /\ RegA # RegTT /\ RegB # RegTT
<1>1. 2 \in RegB /\ 2 \notin RegA /\ 3 \in RegTT /\ 3 \notin RegB /\ 3 \notin RegA
  BY DEF RegA, RegB, RegTT, MmioBase
<1> QED
  BY <1>1

LEMMA FabricWritten ==
  ASSUME FabricInv, WritesRegister
  PROVE  FabricInv'
<1>1. PICK addr, data : FabricWrite(addr, data)
  BY DEF WritesRegister
<1>2. stage = "none" /\ stage' = "none" /\ phase = "idle"
  BY DEF WritesRegister, FabricInv, FabricControl
<1>3. CASE UNCHANGED coreVars /\ fabric'.tt = fabric.tt
           /\ fabric' \in [a : BOOLEAN, b : BOOLEAN, tt : TruthTable]
  BY <1>2, <1>3 DEF FabricInv, FabricShape, FabricControl, ReadGoesOn, HoldsGate, coreVars
<1>4. CASE /\ fabric' = [fabric EXCEPT !.tt = data \cap 0..15]
           /\ Core!LoadConfig(GateConfig(fabric'.tt))
  <2> DEFINE cfg == GateConfig(fabric'.tt)
  <2>1. /\ fabric' \in [a : BOOLEAN, b : BOOLEAN, tt : TruthTable]
    BY <1>4 DEF FabricInv, FabricShape, TruthTable
  <2>2. cfg.luts = <<Gate(fabric'.tt)>> /\ Len(cfg.luts) = 1 /\ DOMAIN cfg.constants = {}
    BY DEF GateConfig
  <2> HIDE DEF cfg
  <2>3. UNCHANGED <<initialized, max, phase, idx, cycles>> /\ luts' = Core!LoadedLuts(cfg)
        /\ signals' = [n \in DOMAIN signals |-> Zero] /\ overrun' = FALSE
    <3>1. Core!LoadConfig(cfg)
      BY <1>4 DEF cfg
    <3>2. UNCHANGED <<initialized, max, phase, idx, cycles>> /\ luts' = Core!LoadedLuts(cfg) /\ overrun' = FALSE
      BY <3>1 DEF Core!LoadConfig, Core!memory
    <3>3. signals' = [n \in DOMAIN signals |->
                       IF n \in DOMAIN cfg.constants THEN cfg.constants[n] ELSE Zero]
      BY <3>1, SameFabric DEF Core!LoadConfig
    <3> QED
      BY <2>2, <3>2, <3>3
  <2>4. signals' \in [0 .. max.signals - 1 -> Word]
    BY <2>3 DEF FabricInv, FabricShape, Word, Zero
  <2>5. CASE max = Core!NoCapacity
    <3>1. Core!Taken(cfg.luts, max.luts) = 0
      BY <2>2, <2>5 DEF Core!Taken, Core!NoCapacity
    <3>2. luts' = <<>>
      BY <2>3, <3>1 DEF Core!LoadedLuts
    <3> QED
      BY <1>2, <2>1, <2>3, <2>4, <2>5, <3>2 DEF FabricInv, FabricShape, FabricControl, ReadGoesOn
  <2>6. CASE max = FabricSize
    <3>1. Core!Taken(cfg.luts, max.luts) = 1
      BY <2>2, <2>6 DEF Core!Taken, FabricSize
    <3>2. luts' = [k \in 1..1 |-> Core!LoadLut(cfg.luts[k])]
      BY <2>3, <3>1 DEF Core!LoadedLuts
    <3>3. Len(luts') = 1 /\ luts'[1] = Core!LoadLut(Gate(fabric'.tt))
      BY <2>2, <3>2
    <3>4. LET in == <<NetA, NetB, 0, 0>> IN
          /\ luts'[1].tt = fabric'.tt /\ luts'[1].out = NetY
          /\ luts'[1].in = [k \in 1..4 |-> IF k <= Len(in) THEN in[k] ELSE 0]
      BY <3>3 DEF Core!LoadLut, Gate
    <3>5. Len(<<NetA, NetB, 0, 0>>) = 4
      OBVIOUS
    <3>6. /\ luts'[1].in[1] = NetA /\ luts'[1].in[2] = NetB
          /\ luts'[1].in[3] = 0 /\ luts'[1].in[4] = 0
      BY <3>4, <3>5
    <3>7. signals'[0] = Zero
      BY <2>3, <2>6 DEF FabricInv, FabricShape, FabricSize
    <3>8. HoldsGate'
      BY <2>3, <2>6, <3>3, <3>4, <3>6, <3>7 DEF HoldsGate
    <3> QED
      BY <1>2, <2>1, <2>3, <2>4, <2>6, <3>8 DEF FabricInv, FabricShape, FabricControl, ReadGoesOn
  <2> QED
    BY <2>5, <2>6 DEF FabricInv, FabricShape
<1>5. fabric \in [a : BOOLEAN, b : BOOLEAN, tt : TruthTable]
  BY DEF FabricInv, FabricShape
<1>7. \/ fabric' = [fabric EXCEPT !.a = 0 \in data] /\ UNCHANGED coreVars
      \/ fabric' = [fabric EXCEPT !.b = 0 \in data] /\ UNCHANGED coreVars
      \/ /\ fabric' = [fabric EXCEPT !.tt = data \cap 0..15]
         /\ Core!LoadConfig(GateConfig(fabric'.tt))
      \/ UNCHANGED <<fabric, coreVars>>
  BY <1>1, RegistersDiffer, Zenon DEF FabricWrite
<1>8. \A v \in BOOLEAN :
        /\ [fabric EXCEPT !.a = v] \in [a : BOOLEAN, b : BOOLEAN, tt : TruthTable]
        /\ [fabric EXCEPT !.b = v] \in [a : BOOLEAN, b : BOOLEAN, tt : TruthTable]
        /\ [fabric EXCEPT !.a = v].tt = fabric.tt /\ [fabric EXCEPT !.b = v].tt = fabric.tt
  BY <1>5
<1>9. (0 \in data) \in BOOLEAN
  OBVIOUS
<1>10. \/ UNCHANGED coreVars /\ fabric'.tt = fabric.tt
          /\ fabric' \in [a : BOOLEAN, b : BOOLEAN, tt : TruthTable]
       \/ /\ fabric' = [fabric EXCEPT !.tt = data \cap 0..15]
          /\ Core!LoadConfig(GateConfig(fabric'.tt))
  BY <1>5, <1>7, <1>8, <1>9, Zenon
<1> QED
  BY <1>3, <1>4, <1>10

LEMMA FabricInited ==
  ASSUME FabricInv, InitFabric
  PROVE  FabricInv'
<1>1. PICK got \in SUBSET Core!Needed(FabricSize) : Core!CoreInit(FabricSize, got)
  BY DEF InitFabric
<1>2. UNCHANGED <<fabric, stage, phase, idx, cycles>> /\ luts' = <<>>
      /\ max' \in {Core!NoCapacity, FabricSize} /\ signals' = Core!Cleared(max')
  BY <1>1 DEF InitFabric, Core!CoreInit
<1>4. overrun' = FALSE /\ (max' = FabricSize => initialized' = TRUE)
  BY <1>1 DEF Core!CoreInit, Core!NoCapacity, FabricSize
<1>3. /\ signals' \in [0 .. max'.signals - 1 -> Word]
      /\ NetY \in DOMAIN signals' => signals'[NetY] = Zero
  <2>1. Zero \in Word
    BY DEF Zero, Word
  <2>2. signals' = [n \in 0 .. max'.signals - 1 |-> Zero]
    BY <1>2, SameFabric DEF Core!Cleared
  <2> QED
    BY <2>1, <2>2
<1> QED
  BY <1>2, <1>3, <1>4 DEF FabricInv, FabricShape, FabricControl, ReadGoesOn

(* A write of an input leaves the other nets alone.                        *)
LEMMA Applied ==
  ASSUME FabricInv, NEW net \in {NetA, NetB}, NEW v \in BOOLEAN,
         Core!WriteInput(net, Driven(v)), fabric' = fabric, stage' \in {"b", "evaluate"}
  PROVE  /\ FabricShape' /\ FabricControl'
         /\ luts' = luts
         /\ luts # <<>> => /\ signals'[net] = Driven(v)
                           /\ \A n \in 0..15 \ {net} : signals'[n] = signals[n]
<1>1. /\ UNCHANGED <<initialized, max, luts, overrun, phase, idx, cycles>> /\ phase = "idle"
      /\ signals' = IF net < max.signals THEN [signals EXCEPT ![net] = Driven(v)] ELSE signals
  BY DEF Core!WriteInput, Core!memory, Core!design
<1>2. Driven(v) \in Word
  BY DEF Driven, AllOnes, Zero, Word
<1>3. signals' \in [0 .. max'.signals - 1 -> Word]
  BY <1>1, <1>2 DEF FabricInv, FabricShape
<1>4. luts # <<>> => max = FabricSize /\ HoldsGate
  BY DEF FabricInv, FabricShape, HoldsGate
<1>5. max = FabricSize => net < max.signals /\ net \in DOMAIN signals /\ net # 0
  BY DEF FabricInv, FabricShape, FabricSize, NetA, NetB
<1>6. luts # <<>> => /\ signals'[net] = Driven(v)
                     /\ \A n \in 0..15 \ {net} : signals'[n] = signals[n]
  BY <1>1, <1>4, <1>5 DEF FabricInv, FabricShape, FabricSize
<1>7. HoldsGate => HoldsGate'
  <2> SUFFICES ASSUME HoldsGate PROVE HoldsGate'
    OBVIOUS
  <2>1. Len(luts) = 1 /\ Len(<<>>) = 0
    BY DEF HoldsGate
  <2>2. signals'[0] = signals[0]
    BY <1>4, <1>5, <1>6, <2>1
  <2> QED
    BY <1>1, <2>2 DEF HoldsGate
<1>9. NetY \in DOMAIN signals' => NetY \in DOMAIN signals /\ signals'[NetY] = signals[NetY]
  BY <1>1, <1>2 DEF FabricInv, FabricShape, NetA, NetB, NetY
<1>8. FabricShape' /\ FabricControl'
  BY <1>1, <1>3, <1>7, <1>9 DEF FabricInv, FabricShape, FabricControl
<1> QED
  BY <1>1, <1>6, <1>8

LEMMA AppliedA == ASSUME FabricInv, ApplyA PROVE FabricInv'
<1>1. /\ Core!WriteInput(NetA, Driven(fabric.a)) /\ fabric' = fabric /\ stage' = "b"
      /\ fabric.a \in BOOLEAN
  BY DEF ApplyA, FabricInv, FabricShape
<1>2. /\ FabricShape' /\ FabricControl' /\ luts' = luts
      /\ luts # <<>> => signals'[NetA] = Driven(fabric.a)
  BY <1>1, Applied
<1> QED
  BY <1>1, <1>2 DEF FabricInv, ReadGoesOn

LEMMA AppliedB == ASSUME FabricInv, ApplyB PROVE FabricInv'
<1>1. /\ Core!WriteInput(NetB, Driven(fabric.b)) /\ fabric' = fabric
      /\ stage = "b" /\ stage' = "evaluate" /\ fabric.b \in BOOLEAN
  BY DEF ApplyB, FabricInv, FabricShape
<1>2. /\ FabricShape' /\ FabricControl' /\ luts' = luts
      /\ luts # <<>> => /\ signals'[NetB] = Driven(fabric.b)
                        /\ \A n \in 0..15 \ {NetB} : signals'[n] = signals[n]
  BY <1>1, Applied
<1>3. NetA \in 0..15 \ {NetB}
  BY DEF NetA, NetB
<1>4. luts # <<>> => signals'[NetA] = Driven(fabric.a)
  BY <1>1, <1>2, <1>3 DEF FabricInv, ReadGoesOn
<1> QED
  BY <1>1, <1>2, <1>4 DEF FabricInv, ReadGoesOn

LEMMA LoopBegins == ASSUME FabricInv, ApplyEvaluate PROVE FabricInv'
<1>1. /\ UNCHANGED <<fabric, initialized, max, luts, overrun, signals>>
      /\ stage = "evaluate" /\ stage' = "loop"
      /\ phase' = "eval" /\ idx' = 0 /\ cycles' = 0
  BY DEF ApplyEvaluate, Core!EvaluateCombinational, Core!Enter, Core!memory, Core!design
<1> QED
  BY <1>1 DEF FabricInv, FabricShape, FabricControl, ReadGoesOn, HoldsGate

LEMMA LoopRuns == ASSUME FabricInv, CoreRuns PROVE FabricInv'
<1>1. fabric' = fabric /\ stage = "loop" /\ stage' = "loop" /\ Core!Compute
  BY DEF CoreRuns
<1>2. /\ phase \in {"idle", "eval"} /\ idx \in Nat /\ cycles = 0
      /\ Len(luts) \in {0, 1} /\ (Len(luts) = 0 <=> luts = <<>>)
  BY DEF FabricInv, FabricShape, FabricControl, HoldsGate
<1>3. ~Core!EvaluateBatch4 /\ ~Core!ClockFf /\ ~Core!ClockDone
  BY <1>2 DEF Core!EvaluateBatch4, Core!ClockFf, Core!ClockDone
<1>4. CASE Core!EvaluateRemainder
  <2>1. /\ phase = "eval" /\ idx = 0 /\ idx' = 1 /\ luts # <<>> /\ HoldsGate
        /\ UNCHANGED <<initialized, max, luts, phase, cycles>>
    <3>1. /\ idx < Len(luts) /\ idx' = idx + 1 /\ phase = "eval"
          /\ UNCHANGED <<initialized, max, luts, phase, cycles>>
      BY <1>4 DEF Core!EvaluateRemainder, Core!EvaluateOne, Core!memory
    <3>2. idx = 0 /\ Len(luts) = 1
      <4> DEFINE length == Len(luts)
      <4>1. length \in {0, 1} /\ idx \in Nat /\ idx < length
        BY <1>2, <3>1
      <4> HIDE DEF length
      <4>2. idx = 0 /\ length = 1
        BY <4>1
      <4> QED
        BY <4>2 DEF length
    <3>3. luts # <<>>
      BY <1>2, <3>2
    <3> QED
      BY <3>1, <3>2, <3>3 DEF FabricInv, FabricShape
  <2>2. signals' = [signals EXCEPT ![NetY] = LutOut(luts[1], signals)]
    <3> DEFINE lut == luts[idx + 1]
    <3>1. PICK debris \in {[n \in {} |-> Zero]} :
            Core!Store({lut.out}, Core!Written(signals, lut.out, Core!LutOut(lut, Core!Found(debris))))
      BY <1>4, SameFabric DEF Core!EvaluateRemainder, Core!EvaluateOne
    <3>2. lut = luts[1] /\ lut.out = NetY
      BY <2>1 DEF HoldsGate
    <3> HIDE DEF lut
    <3>3. DOMAIN signals = 0..15 /\ {0, NetA, NetB, NetY} \subseteq DOMAIN signals
      BY <2>1 DEF FabricInv, FabricShape, HoldsGate, FabricSize, NetA, NetB, NetY
    <3>4. \A n \in {0, NetA, NetB} : Core!Found(debris)[n] = signals[n]
      BY <3>3, SameFabric DEF Core!Found, Core!Net, NetA, NetB
    <3>5. Core!LutOut(lut, Core!Found(debris)) = LutOut(luts[1], signals)
      <4>1. Core!LutOut(lut, Core!Found(debris)) = LutOut(luts[1], Core!Found(debris))
        BY <3>2, SameFabric
      <4> QED
        BY <2>1, <3>4, <4>1 DEF LutOut, HoldsGate
    <3> DEFINE stored == Core!Written(signals, NetY, LutOut(luts[1], signals))
    <3>6. Core!Store({NetY}, stored)
      BY <3>1, <3>2, <3>5
    <3>7. stored = [signals EXCEPT ![NetY] = LutOut(luts[1], signals)]
      BY <3>3 DEF Core!Written
    <3>8. stored = signals'
      <4>1. overrun = FALSE
        BY <2>1 DEF FabricInv, FabricShape
      <4> HIDE DEF stored
      <4> QED
        BY <3>3, <3>6, <4>1 DEF Core!Store
    <3> QED
      BY <3>7, <3>8
  <2>10. overrun' = FALSE
    <3>1. overrun = FALSE /\ {luts[idx + 1].out} \subseteq DOMAIN signals
      BY <2>1 DEF FabricInv, FabricShape, HoldsGate, FabricSize, NetY
    <3>2. overrun' = (overrun \/ ~({luts[idx + 1].out} \subseteq DOMAIN signals))
      BY <1>4 DEF Core!EvaluateRemainder, Core!EvaluateOne, Core!Store
    <3> QED
      BY <3>1, <3>2
  <2>3. LutOut(luts[1], signals) \in Word
    BY DEF LutOut, Evaluate, Word
  <2>4. /\ signals' \in [0 .. max.signals - 1 -> Word]
        /\ signals'[NetY] = LutOut(luts[1], signals)
        /\ \A n \in 0..15 \ {NetY} : signals'[n] = signals[n]
    BY <2>1, <2>2, <2>3 DEF FabricInv, FabricShape, HoldsGate, FabricSize, NetY
  <2>5. signals'[0] = signals[0] /\ signals'[NetA] = signals[NetA] /\ signals'[NetB] = signals[NetB]
    BY <2>4 DEF NetA, NetB, NetY
  <2>6. LutOut(luts[1], signals') = LutOut(luts[1], signals)
    BY <2>1, <2>5 DEF LutOut, HoldsGate
  <2>7. HoldsGate'
    BY <1>1, <2>1, <2>5 DEF HoldsGate
  <2>8. FabricShape' /\ FabricControl'
    BY <1>1, <2>1, <2>4, <2>7, <2>10 DEF FabricInv, FabricShape, FabricControl
  <2>9. ReadGoesOn'
    BY <1>1, <2>1, <2>4, <2>5, <2>6 DEF FabricInv, ReadGoesOn
  <2> QED
    BY <2>8, <2>9 DEF FabricInv
<1>5. CASE Core!EvaluateDone
  <2>1. /\ phase = "eval" /\ phase' = "idle" /\ idx' = 0 /\ cycles' = 0
        /\ UNCHANGED <<initialized, max, luts, overrun, signals>>
        /\ luts # <<>> => idx > 0
    BY <1>2, <1>5 DEF Core!EvaluateDone, Core!Enter, Core!memory, Core!design
  <2> QED
    BY <1>1, <2>1 DEF FabricInv, FabricShape, FabricControl, ReadGoesOn, HoldsGate
<1> QED
  BY <1>1, <1>3, <1>4, <1>5 DEF Core!Compute

LEMMA FabricNext == FabricInv /\ [SocNext]_socVars => FabricInv'
<1> SUFFICES ASSUME FabricInv, [SocNext]_socVars PROVE FabricInv'
  OBVIOUS
<1>1. CASE LeavesFabric
  BY <1>1 DEF LeavesFabric, coreVars, FabricInv, FabricShape, FabricControl, ReadGoesOn, HoldsGate
<1>2. CASE BeginsRead
  BY <1>2 DEF BeginsRead, coreVars, FabricInv, FabricShape, FabricControl, ReadGoesOn, HoldsGate
<1>3. CASE EndsRead
  BY <1>3 DEF EndsRead, FabricReady, coreVars, FabricInv, FabricShape, FabricControl, ReadGoesOn,
              HoldsGate
<1> QED
  BY <1>1, <1>2, <1>3, FabricSteps, FabricWritten, FabricInited, AppliedA, AppliedB, LoopBegins,
     LoopRuns

LEMMA FabricInvariant == SocSpec => []FabricInv
<1>1. SocInit => FabricInv
  BY FabricStart
<1>2. FabricInv /\ [SocNext]_socVars => FabricInv'
  BY FabricNext
<1> QED
  BY <1>1, <1>2, PTL DEF SocSpec

(* A read of the output register returns the entry of the truth table for  *)
(* the inputs software has written: fabric_apply() writes both inputs and  *)
(* runs the loop within every soc_read() of it, and soc_write() loads the  *)
(* gate of every table it takes.                                           *)
THEOREM OutputIsLookup == SocSpec => []YIsLookup
<1>1. FabricInv => YIsLookup
  <2>0. FabricInv /\ luts = <<>> => Output = {}
    BY DEF FabricInv, FabricShape, Output, Flag
  <2> SUFFICES ASSUME FabricInv, FabricReady, luts # <<>>
               PROVE  /\ initialized
                      /\ Output # {} <=> Bit(fabric.a) + 2 * Bit(fabric.b) \in fabric.tt
    BY <2>0 DEF YIsLookup
  <2>1. HoldsGate /\ fabric.a \in BOOLEAN /\ fabric.b \in BOOLEAN /\ initialized
    BY DEF FabricInv, FabricShape, HoldsGate
  <2>2. /\ signals[NetA] = Driven(fabric.a) /\ signals[NetB] = Driven(fabric.b)
        /\ signals[0] = {} /\ signals[NetY] = LutOut(luts[1], signals)
    BY <2>1 DEF FabricInv, ReadGoesOn, FabricReady, HoldsGate, Zero
  <2>3. signals[NetY] = Evaluate(fabric.tt, Driven(fabric.a), Driven(fabric.b), {}, {})
    BY <2>1, <2>2 DEF LutOut, HoldsGate
  <2>4. ASSUME NEW l \in Lanes
        PROVE  l \in signals[NetY] <=> Bit(fabric.a) + 2 * Bit(fabric.b) \in fabric.tt
    <3>1. /\ Bit(l \in Driven(fabric.a)) = Bit(fabric.a)
          /\ Bit(l \in Driven(fabric.b)) = Bit(fabric.b)
          /\ Bit(l \in {}) = 0
      BY <2>1, <2>4 DEF Driven, AllOnes, Zero, Bit
    <3>2. Bit(fabric.a) \in Nat /\ Bit(fabric.b) \in Nat
      BY DEF Bit
    <3>3. Bit(fabric.a) + 2 * Bit(fabric.b) + 4 * 0 + 8 * 0 = Bit(fabric.a) + 2 * Bit(fabric.b)
      BY <3>2
    <3> QED
      BY <2>3, <2>4, <3>1, <3>3 DEF Evaluate
  <2>5. signals[NetY] \subseteq Lanes
    BY <2>3 DEF Evaluate
  <2>6. NetY \in DOMAIN signals
    BY <2>1 DEF FabricInv, FabricShape, HoldsGate, FabricSize, NetY
  <2>7. Output # {} <=> signals[NetY] # {}
    BY <2>6 DEF Output, Flag, Zero
  <2>8. Output # {} <=> Bit(fabric.a) + 2 * Bit(fabric.b) \in fabric.tt
    BY <2>4, <2>5, <2>7, LanesAssumption
  <2> QED
    BY <2>1, <2>8
<1> QED
  BY <1>1, FabricInvariant, PTL

-----------------------------------------------------------------------------
(* Registers and fields *)

(* The numbers read so far, as Field reads the bits.                       *)

ReadsField(f, w, from, len) ==
  /\ f \in [0..len -> Nat]
  /\ f[0] = 0 /\ Field(w, from, len) = f[len]
  /\ \A k \in 1..len : f[k] \in {2 * f[k - 1], 2 * f[k - 1] + 1}

LEMMA FieldUnfolds ==
  ASSUME NEW w, NEW from \in Int, NEW len \in Nat
  PROVE  \E f : ReadsField(f, w, from, len)
<1> DEFINE one(k) == IF from + len - k \in w THEN 1 ELSE 0
           F(f) == f = [k \in 0..len |-> IF k = 0 THEN 0 ELSE 2 * f[k - 1] + one(k)]
           steps == [k \in 1..len |-> [n \in Nat |-> 2 * n + one(k)]]
           g == CHOOSE f : F(f)
<1>1. \A k : one(k) \in {0, 1}
  OBVIOUS
<1> HIDE DEF one
<1>2. steps \in [1..len -> [Nat -> Nat]]
  BY <1>1
<1> HIDE DEF steps
<1>3. PICK f \in [0..len -> Nat] : Recursive(f, len, 0, steps)
  BY <1>2, RecursionExists
<1>4. ASSUME NEW k \in 0..len PROVE f[k] = IF k = 0 THEN 0 ELSE 2 * f[k - 1] + one(k)
  <2>1. f[k] = IF k = 0 THEN 0 ELSE steps[k][f[k - 1]]
    BY <1>3, Zenon DEF Recursive
  <2>2. k # 0 => k \in 1..len /\ k - 1 \in 0..len
    OBVIOUS
  <2>3. k # 0 => steps[k][f[k - 1]] = 2 * f[k - 1] + one(k)
    BY <2>2 DEF steps
  <2> QED
    BY <2>1, <2>3
<1>5. F(f)
  BY <1>4
<1>6. F(g)
  BY <1>5, Zenon
<1>7. Field(w, from, len) = g[len]
  BY Zenon DEF Field, one
<1> HIDE DEF g
<1>8. \A k \in 0..len : g[k] = IF k = 0 THEN 0 ELSE 2 * g[k - 1] + one(k)
  BY <1>6
<1> HIDE DEF F
<1> DEFINE U == {k \in 0..len : g[k] \in Nat}
<1>9. 0 \in U
  BY <1>8
<1>10. ASSUME NEW k \in 0 .. len - 1, k \in U PROVE k + 1 \in U
  <2>1. k + 1 \in 0..len /\ k + 1 # 0 /\ (k + 1) - 1 = k
    OBVIOUS
  <2>2. g[k + 1] = 2 * g[k] + one(k + 1)
    BY <1>8, <2>1
  <2> QED
    BY <1>1, <1>10, <2>1, <2>2
<1>11. 0..len \subseteq U
  <2> HIDE DEF U
  <2> QED
    BY <1>9, <1>10, IntervalBySets
<1>12. g \in [0..len -> Nat]
  BY <1>6, <1>11 DEF F
<1>13. /\ g[0] = 0
       /\ \A k \in 1..len : g[k] \in {2 * g[k - 1], 2 * g[k - 1] + 1}
  <2>1. ASSUME NEW k \in 1..len PROVE g[k] \in {2 * g[k - 1], 2 * g[k - 1] + 1}
    <3>1. k \in 0..len /\ k # 0 /\ k - 1 \in 0..len
      OBVIOUS
    <3>2. g[k] = 2 * g[k - 1] + one(k) /\ g[k - 1] \in Nat
      BY <1>8, <1>12, <3>1
    <3>3. one(k) = 0 \/ one(k) = 1
      BY <1>1
    <3> QED
      BY <3>2, <3>3
  <2> QED
    BY <1>8, <2>1
<1>14. ReadsField(g, w, from, len)
  BY <1>7, <1>12, <1>13 DEF ReadsField
<1> QED
  BY <1>14

LEMMA FieldWidths ==
  ASSUME NEW w, NEW from \in Int
  PROVE  /\ \A len \in Nat : Field(w, from, len) \in Nat
         /\ Field(w, from, 2) \in 0..3
         /\ Field(w, from, 3) \in 0..7
         /\ Field(w, from, 5) \in 0..31
<1>1. ASSUME NEW len \in Nat PROVE Field(w, from, len) \in Nat
  <2>1. PICK f : ReadsField(f, w, from, len)
    BY FieldUnfolds
  <2> QED
    BY <2>1 DEF ReadsField
<1>4. Field(w, from, 2) \in 0..3
  <2>1. PICK f : ReadsField(f, w, from, 2)
    BY FieldUnfolds
  <2>2. /\ f[0] = 0 /\ Field(w, from, 2) = f[2]
        /\ f[1] \in {2 * f[0], 2 * f[0] + 1}
        /\ f[2] \in {2 * f[1], 2 * f[1] + 1}
    BY <2>1 DEF ReadsField
  <2>3. f[1] \in 0..1
    BY <2>2
  <2> QED
    BY <2>2, <2>3
<1>2. Field(w, from, 3) \in 0..7
  <2>1. PICK f : ReadsField(f, w, from, 3)
    BY FieldUnfolds
  <2>2. /\ f[0] = 0 /\ Field(w, from, 3) = f[3]
        /\ f[1] \in {2 * f[0], 2 * f[0] + 1}
        /\ f[2] \in {2 * f[1], 2 * f[1] + 1}
        /\ f[3] \in {2 * f[2], 2 * f[2] + 1}
    BY <2>1 DEF ReadsField
  <2>3. f[1] \in 0..1
    BY <2>2
  <2>4. f[2] \in 0..3
    BY <2>2, <2>3
  <2> QED
    BY <2>2, <2>4
<1>3. Field(w, from, 5) \in 0..31
  <2>1. PICK f : ReadsField(f, w, from, 5)
    BY FieldUnfolds
  <2>2. /\ f[0] = 0 /\ Field(w, from, 5) = f[5]
        /\ f[1] \in {2 * f[0], 2 * f[0] + 1}
        /\ f[2] \in {2 * f[1], 2 * f[1] + 1}
        /\ f[3] \in {2 * f[2], 2 * f[2] + 1}
        /\ f[4] \in {2 * f[3], 2 * f[3] + 1}
        /\ f[5] \in {2 * f[4], 2 * f[4] + 1}
    BY <2>1 DEF ReadsField
  <2>3. f[1] \in 0..1
    BY <2>2
  <2>4. f[2] \in 0..3
    BY <2>2, <2>3
  <2>5. f[3] \in 0..7
    BY <2>2, <2>4
  <2>6. f[4] \in 0..15
    BY <2>2, <2>5
  <2> QED
    BY <2>2, <2>6
<1> QED
  BY <1>1, <1>2, <1>3, <1>4

LEMMA Fields ==
  ASSUME NEW w
  PROVE  /\ Rd(w) \in 0..31 /\ Rs1(w) \in 0..31 /\ Rs2(w) \in 0..31
         /\ Funct3(w) \in 0..7 /\ ShiftAmount(w) \in 0..31 /\ Location(w) \in Nat
<1>1. \A from \in Int : Field(w, from, 3) \in 0..7 /\ Field(w, from, 5) \in 0..31
  BY FieldWidths
<1>2. Field(w, 0, 18) \in Nat
  <2>1. 0 \in Int /\ 18 \in Nat
    OBVIOUS
  <2>2. \A len \in Nat : Field(w, 0, len) \in Nat
    BY <2>1, FieldWidths
  <2> QED
    BY <2>1, <2>2
<1> QED
  BY <1>1, <1>2 DEF Rd, Rs1, Rs2, Funct3, ShiftAmount, Location

LEMMA PlaceWithin ==
  ASSUME NEW w, NEW from \in Nat, NEW len \in Nat, NEW to \in Nat
  PROVE  Place(w, from, len, to) \subseteq to .. to + len - 1
BY DEF Place

LEMMA PlaceInRegister ==
  ASSUME NEW w, NEW from \in Nat, NEW len \in Nat, NEW to \in Nat, to + len <= 32
  PROVE  Place(w, from, len, to) \in Register
BY DEF Place, Register, Places

LEMMA SumInRegister ==
  ASSUME NEW a \in Register, NEW b \in Register, NEW in
  PROVE  SumOf(a, b, in) \in Register
<1> DEFINE sum == Xor(Xor(a, b), { i \in Places : Carry(a, b, in, i) })
           sums == { Xor(Xor(x, y), { i \in Places : Carry(x, y, in, i) }) : x \in {a}, y \in {b} }
<1>1. sum \in sums /\ \A s \in sums : s = sum
  OBVIOUS
<1>2. SumOf(a, b, in) = sum
  <2> HIDE DEF sum
  <2>1. SumOf(a, b, in) = CHOOSE s \in sums : TRUE
    BY DEF SumOf
  <2> HIDE DEF sums
  <2> QED
    BY <1>1, <2>1
<1>3. sum \subseteq Places
  BY DEF Xor, Register
<1> QED
  BY <1>2, <1>3 DEF Register

LEMMA ArithmeticInRegister ==
  ASSUME NEW a \in Register, NEW b \in Register
  PROVE  Plus(a, b) \in Register /\ Minus(a, b) \in Register /\ Xor(a, b) \in Register
<1>1. Places \ b \in Register
  BY DEF Register
<1> QED
  BY <1>1, SumInRegister DEF Plus, Minus, Xor, Register

LEMMA SignExtendInRegister ==
  ASSUME NEW v \in Register, NEW bits \in 1..32
  PROVE  SignExtend(v, bits) \in Register
<1>1. {bits - 1} \in Register
  BY DEF Register, Places
<1>2. Xor(v, {bits - 1}) \in Register
  BY <1>1, ArithmeticInRegister
<1> QED
  BY <1>1, <1>2, ArithmeticInRegister DEF SignExtend

LEMMA Immediates ==
  ASSUME NEW w \in Register
  PROVE  /\ ImmI(w) \in Register /\ ImmS(w) \in Register /\ ImmB(w) \in Register
         /\ ImmU(w) \in Register /\ ImmJ(w) \in Register
<1>1. ImmI(w) \in Register
  BY PlaceInRegister, SignExtendInRegister DEF ImmI
<1>2. ImmS(w) \in Register
  <2>1. Place(w, 7, 5, 0) \in Register /\ Place(w, 25, 7, 5) \in Register
    BY PlaceInRegister
  <2>2. Place(w, 7, 5, 0) \cup Place(w, 25, 7, 5) \in Register
    BY <2>1 DEF Register
  <2> QED
    BY <2>2, SignExtendInRegister DEF ImmS
<1>3. ImmB(w) \in Register
  <2>1. /\ Place(w, 7, 1, 11) \in Register /\ Place(w, 8, 4, 1) \in Register
        /\ Place(w, 25, 6, 5) \in Register /\ Place(w, 31, 1, 12) \in Register
    BY PlaceInRegister
  <2>2. Place(w, 7, 1, 11) \cup Place(w, 8, 4, 1) \cup Place(w, 25, 6, 5) \cup Place(w, 31, 1, 12)
          \in Register
    BY <2>1 DEF Register
  <2> QED
    BY <2>2, SignExtendInRegister DEF ImmB
<1>4. ImmU(w) \in Register
  BY DEF ImmU, Register
<1>5. ImmJ(w) \in Register
  <2>1. /\ Place(w, 21, 10, 1) \in Register /\ Place(w, 20, 1, 11) \in Register
        /\ Place(w, 12, 8, 12) \in Register /\ Place(w, 31, 1, 20) \in Register
    BY PlaceInRegister
  <2>2. Place(w, 21, 10, 1) \cup Place(w, 20, 1, 11) \cup Place(w, 12, 8, 12) \cup Place(w, 31, 1, 20)
          \in Register
    BY <2>1 DEF Register
  <2> QED
    BY <2>2, SignExtendInRegister DEF ImmJ
<1> QED
  BY <1>1, <1>2, <1>3, <1>4, <1>5

LEMMA ResultsInRegister ==
  ASSUME NEW w \in Register, NEW a \in Register, NEW b \in Register
  PROVE  RegisterResult(w, a, b) \in Register /\ ImmediateResult(w, a) \in Register
<1>1. ASSUME NEW f3 \in 1..7, NEW alternate \in BOOLEAN, NEW x \in Register, NEW y \in Register
      PROVE  Logic(f3, alternate, x, y) \in Register
  <2>1. \A n : ShiftLeft(x, n) \in Register /\ ShiftRight(x, n) \in Register
    BY DEF ShiftLeft, ShiftRight, Register
  <2>2. ShiftRightSigned(x, ShiftAmount(y)) \in Register
    <3>1. 32 - ShiftAmount(y) .. 31 \subseteq Places
      BY Fields DEF Places
    <3> QED
      BY <2>1, <3>1 DEF ShiftRightSigned, Register
  <2>3. \A flag : Flag(flag) \in Register
    BY DEF Flag, Register, Places
  <2>4. Xor(x, y) \in Register /\ x \cup y \in Register /\ x \cap y \in Register
    BY DEF Xor, Register
  <2>5. f3 = 1 \/ f3 = 2 \/ f3 = 3 \/ f3 = 4 \/ f3 = 5 \/ f3 = 6 \/ f3 = 7
    OBVIOUS
  <2> QED
    BY <2>1, <2>2, <2>3, <2>4, <2>5 DEF Logic
<1>2. Funct3(w) # 0 => Funct3(w) \in 1..7
  BY Fields
<1>3. Alternate(w) \in BOOLEAN
  BY DEF Alternate
<1> QED
  BY <1>1, <1>2, <1>3, ArithmeticInRegister, Immediates DEF RegisterResult, ImmediateResult

-----------------------------------------------------------------------------
(* What loads and stores touch *)

LEMMA Reading ==
  ASSUME SocTypeOK
  PROVE  /\ \A addr : ReadByte(addr) \subseteq 0..7
         /\ \A addr : ReadHalf(addr) \in Register
         /\ \A addr : ReadWord(addr) \in Register
         /\ \A addr : Words(addr) \subseteq Register
<1>1. ASSUME NEW addr PROVE MmioRead(addr) \subseteq {0}
  BY DEF MmioRead, Output, Flag
<1>2. ASSUME NEW a PROVE RamByte(a) \subseteq 0..7
  BY DEF RamByte, SocTypeOK
<1>3. ASSUME NEW addr PROVE ReadByte(addr) \subseteq 0..7
  BY <1>1, <1>2 DEF ReadByte
<1>4. ASSUME NEW addr PROVE ReadHalf(addr) \in Register
  <2>1. { i + 8 : i \in ReadByte(Plus(addr, {0})) } \subseteq Places
    BY <1>3 DEF Places
  <2>2. ReadByte(addr) \subseteq Places
    BY <1>3 DEF Places
  <2> QED
    BY <2>1, <2>2 DEF ReadHalf, Register
<1>5. ASSUME NEW a PROVE WordAt(a) \in Register
  <2>1. ASSUME NEW k \in 0..3 PROVE { i + 8 * k : i \in RamByte(a + k) } \subseteq Places
    BY <1>2 DEF Places
  <2> QED
    BY <2>1 DEF WordAt, Register
<1>6. ASSUME NEW addr PROVE ReadWord(addr) \in Register
  <2>1. {} \in Register /\ MmioRead(addr) \in Register
    BY <1>1 DEF Register, Places
  <2> QED
    BY <1>5, <2>1 DEF ReadWord
<1>7. ASSUME NEW addr PROVE Words(addr) \subseteq Register
  <2>1. ASSUME NEW stray \in Register, Wraps(addr)
        PROVE  Place(stray, 0, 0 - 8 * First(addr), 0) \cup WordAt(First(addr)) \in Register
    <3>1. Place(stray, 0, 0 - 8 * First(addr), 0) \subseteq stray
      <4>1. First(addr) \in Int
        BY <2>1, FieldWidths DEF First
      <4> QED
        BY <2>1, <4>1 DEF Place, Register, Places
    <3> QED
      BY <1>5, <2>1, <3>1 DEF Register
  <2> QED
    BY <1>6, <2>1, StraysAssumption DEF Words
<1> QED
  BY <1>3, <1>4, <1>6, <1>7

LEMMA LoadResults ==
  ASSUME SocTypeOK, NEW inst \in Register, NEW word \in Register
  PROVE  LoadResult(inst, word) \in Register
<1>1. /\ ReadByte(LoadAddress(inst)) \in Register
      /\ ReadHalf(LoadAddress(inst)) \in Register
  BY Reading DEF Register, Places
<1>2. /\ SignExtend(ReadByte(LoadAddress(inst)), 8) \in Register
      /\ SignExtend(ReadHalf(LoadAddress(inst)), 16) \in Register
  BY <1>1, SignExtendInRegister
<1>3. regs[Rd(inst)] \in Register
  BY Fields DEF SocTypeOK
<1> QED
  BY <1>1, <1>2, <1>3 DEF LoadResult

(* What a store leaves in RAM lies inside it.                              *)
RamOK(bytes) == DOMAIN bytes \subseteq 0 .. RamSize - 1 /\ \A x \in DOMAIN bytes : bytes[x] \subseteq 0..7

LEMMA Storing ==
  ASSUME RamOK(ram), NEW f3, NEW addr, NEW v
  PROVE  RamOK(RamAfter(StoreWrites(f3, addr, v)))
<1> DEFINE writes == StoreWrites(f3, addr, v)
           stored == { Stored(w) : w \in { u \in writes : ToRam(u) } }
           places == UNION { DOMAIN s : s \in stored }
           bytes == [x \in DOMAIN ram \cup places |->
                       IF x \in places THEN (CHOOSE s \in stored : x \in DOMAIN s)[x] ELSE ram[x]]
<1>1. RamAfter(writes) = bytes
  BY DEF RamAfter
<1>2. ASSUME NEW w \in writes PROVE w.n \in {1, 4}
  BY DEF StoreWrites, Write
<1>3. RamSize \in Nat
  BY RamSizeAssumption
<1> HIDE DEF writes
<1>4. ASSUME NEW w \in writes, ToRam(w)
      PROVE  RamOK(Stored(w))
  <2> DEFINE first == First(w.addr)
             inside == { y \in first .. first + w.n - 1 : y >= 0 }
  <2>1. first \in Int /\ first + w.n <= RamSize
    <3>1. CASE Wraps(w.addr)
      <4>1. Field(w.addr, 0, 2) \in 0..3 /\ first = Field(w.addr, 0, 2) - 4
        BY <3>1, FieldWidths DEF First
      <4> HIDE DEF first
      <4> QED
        BY <1>2, <4>1, RamSizeAssumption
    <3>2. CASE ~Wraps(w.addr)
      BY <1>4, <3>2, Fields DEF ToRam, InRam, First
    <3> QED
      BY <3>1, <3>2
  <2> HIDE DEF first
  <2>2. Stored(w) = [x \in inside |-> Place(w.data, 8 * (x - first), 8, 0)]
    BY DEF Stored, first
  <2>3. first \in Int /\ w.n \in {1, 4} /\ first + w.n <= RamSize
    BY <1>2, <2>1
  <2>4. inside \subseteq 0 .. RamSize - 1
    BY <1>3, <2>3
  <2>5. ASSUME NEW x \in inside
        PROVE  Place(w.data, 8 * (x - first), 8, 0) \subseteq 0..7
    <3>1. 8 * (x - first) \in Nat
      BY <2>3
    <3> QED
      BY <3>1 DEF Place
  <2> QED
    BY <2>2, <2>4, <2>5 DEF RamOK
<1>5. \A s \in stored : RamOK(s)
  BY <1>4
<1> HIDE DEF stored
<1>6. DOMAIN bytes \subseteq 0 .. RamSize - 1
  BY <1>5 DEF RamOK
<1>7. ASSUME NEW x \in DOMAIN bytes PROVE bytes[x] \subseteq 0..7
  <2>1. CASE x \in places
    <3>1. PICK s \in stored : s = CHOOSE t \in stored : x \in DOMAIN t
      BY <2>1
    <3>2. x \in DOMAIN s
      BY <2>1, <3>1
    <3>3. bytes[x] = s[x]
      BY <1>7, <2>1, <3>1
    <3> QED
      BY <1>5, <3>2, <3>3 DEF RamOK
  <2>2. CASE x \notin places
    BY <1>7, <2>2 DEF RamOK
  <2> QED
    BY <2>1, <2>2
<1> HIDE DEF bytes
<1> QED
  BY <1>1, <1>6, <1>7 DEF RamOK, writes

-----------------------------------------------------------------------------
(* The types *)

MachineInv ==
  /\ FabricInv
  /\ script \in DOMAIN Scripts /\ made \in Nat
  /\ SocTypeOK

LEMMA Flags == ASSUME NEW flag PROVE Flag(flag) \in Register
BY DEF Flag, Register, Places

LEMMA Retired ==
  ASSUME SocTypeOK, left > 0, NEW inst, NEW v \in Register, NEW target \in Register,
         Retire(Written(Rd(inst), v), target) \/ Retire(regs, target)
  PROVE  /\ pc' \in Register /\ left' \in Nat
         /\ regs' \in [0..31 -> Register] /\ regs'[0] = {}
         /\ UNCHANGED <<script, made>>
<1>1. left - 1 \in Nat
  BY DEF SocTypeOK
<1>2. Rd(inst) \in 0..31 /\ {} \in Register
  BY Fields DEF Register
<1>3. /\ Written(Rd(inst), v) \in [0..31 -> Register]
      /\ Written(Rd(inst), v)[0] = {}
  BY <1>2 DEF Written, SocTypeOK
<1>4. regs \in [0..31 -> Register] /\ regs[0] = {}
  BY DEF SocTypeOK
<1> QED
  BY <1>1, <1>3, <1>4 DEF Retire

LEMMA Decoded ==
  ASSUME SocTypeOK, NEW inst \in Register
  PROVE  /\ Source1(inst) \in Register /\ Source2(inst) \in Register
         /\ NextPc \in Register
         /\ \A imm \in Register : Plus(pc, imm) \in Register /\ Plus(Source1(inst), imm) \in Register
         /\ ImmI(inst) \in Register /\ ImmB(inst) \in Register
         /\ ImmU(inst) \in Register /\ ImmJ(inst) \in Register
<1>1. Source1(inst) \in Register /\ Source2(inst) \in Register
  BY Fields DEF Source1, Source2, SocTypeOK
<1>2. {2} \in Register
  BY DEF Register, Places
<1>3. pc \in Register
  BY DEF SocTypeOK
<1> QED
  BY <1>1, <1>2, <1>3, ArithmeticInRegister, Immediates DEF NextPc

(* An instruction leaves registers and RAM typed.                          *)
MachineOK ==
  /\ pc' \in Register /\ left' \in Nat
  /\ regs' \in [0..31 -> Register] /\ regs'[0] = {}
  /\ csrs' \in [SupportedCsrs -> Register]
  /\ RamOK(ram')
  /\ script' \in DOMAIN Scripts /\ made' \in Nat

LEMMA InstructionTyped ==
  ASSUME MachineInv, Instruction
  PROVE  MachineOK
<1>1. PICK inst \in Words(pc) : Execute(inst)
  BY DEF Instruction
<1>2. SocTypeOK /\ left > 0 /\ script \in DOMAIN Scripts /\ made \in Nat
  BY DEF MachineInv, Instruction, Fetches
<1>3. inst \in Register
  BY <1>2, Reading
<1>4. csrs \in [SupportedCsrs -> Register] /\ RamOK(ram)
  BY <1>2 DEF SocTypeOK, RamOK
<1> DEFINE Keeps == UNCHANGED <<csrs, ram>>
           Retires == \E v, target \in Register :
                        Retire(Written(Rd(inst), v), target) \/ Retire(regs, target)
<1>5. Retires => /\ pc' \in Register /\ left' \in Nat
                 /\ regs' \in [0..31 -> Register] /\ regs'[0] = {}
                 /\ UNCHANGED <<script, made>>
  BY <1>2, Retired
<1>6. CASE Retires /\ Keeps
  BY <1>2, <1>4, <1>5, <1>6 DEF MachineOK
<1>7. Source1(inst) \in Register /\ Source2(inst) \in Register /\ NextPc \in Register
  BY <1>2, <1>3, Decoded
<1>8. CASE RegisterOp(inst)
  <2>1. RegisterResult(inst, Source1(inst), Source2(inst)) \in Register
    BY <1>3, <1>7, ResultsInRegister
  <2> QED
    BY <1>6, <1>7, <1>8, <2>1 DEF RegisterOp
<1>9. CASE ImmediateOp(inst)
  <2>1. ImmediateResult(inst, Source1(inst)) \in Register
    BY <1>3, <1>7, ResultsInRegister
  <2> QED
    BY <1>6, <1>7, <1>9, <2>1 DEF ImmediateOp
<1>10. CASE Load(inst)
  <2>1. PICK word \in Words(LoadAddress(inst)) :
           Retire(Written(Rd(inst), LoadResult(inst, word)), NextPc)
    BY <1>10 DEF Load
  <2>2. LoadResult(inst, word) \in Register
    BY <1>2, <1>3, Reading, LoadResults
  <2> QED
    BY <1>6, <1>7, <1>10, <2>1, <2>2 DEF Load
<1>11. CASE BeginLoad(inst)
  BY <1>2, <1>4, <1>11 DEF BeginLoad, cpuVars, MachineOK, SocTypeOK
<1>12. CASE Store(inst)
  <2>1. Retire(regs, NextPc) /\ csrs' = csrs
        /\ ram' = RamAfter(StoreWrites(Funct3(inst), StoreAddress(inst), Source2(inst)))
    BY <1>12 DEF Store
  <2>2. RamOK(ram')
    BY <1>4, <2>1, Storing
  <2>3. Retires
    BY <1>7, <2>1
  <2> QED
    BY <1>2, <1>4, <1>5, <2>1, <2>2, <2>3 DEF MachineOK
<1>13. CASE Branch(inst)
  <2>1. Plus(pc, IF BranchTaken(Funct3(inst), Source1(inst), Source2(inst)) THEN ImmB(inst) ELSE {2})
          \in Register
    BY <1>2, <1>3, Decoded DEF NextPc
  <2> QED
    BY <1>6, <1>7, <1>13, <2>1 DEF Branch
<1>14. CASE LoadUpper(inst)
  <2>1. ImmU(inst) \in Register
    BY <1>2, <1>3, Decoded
  <2> QED
    BY <1>6, <1>7, <1>14, <2>1 DEF LoadUpper
<1>15. CASE AddUpper(inst)
  <2>1. Plus(pc, ImmU(inst)) \in Register
    BY <1>2, <1>3, Decoded
  <2> QED
    BY <1>6, <1>7, <1>15, <2>1 DEF AddUpper
<1>16. CASE Jump(inst)
  <2>1. Plus(pc, ImmJ(inst)) \in Register
    BY <1>2, <1>3, Decoded
  <2> QED
    BY <1>6, <1>7, <1>16, <2>1 DEF Jump
<1>17. CASE JumpRegister(inst)
  <2>1. Plus(Source1(inst), ImmI(inst)) \in Register
    BY <1>2, <1>3, Decoded
  <2>2. Plus(Source1(inst), ImmI(inst)) \ {0} \in Register
    BY <2>1 DEF Register
  <2> QED
    BY <1>6, <1>7, <1>17, <2>2 DEF JumpRegister
<1>18. CASE System(inst)
  <2> DEFINE csr     == CsrAddress(inst)
             old     == IF csr \in SupportedCsrs THEN csrs[csr] ELSE {}
             operand == IF Funct3(inst) \in 1..3 THEN Source1(inst) ELSE Place(inst, 15, 5, 0)
  <2>1. old \in Register /\ operand \in Register
    BY <1>4, <1>7, PlaceInRegister DEF Register
  <2>2. CsrResult(Funct3(inst), old, operand) \in Register
    BY <2>1 DEF CsrResult, Register
  <2>3. CASE Funct3(inst) = 0
    <3>1. Retire(regs, NextPc) /\ Keeps
      BY <1>18, <2>3 DEF System
    <3> QED
      BY <1>6, <1>7, <3>1
  <2>4. CASE Funct3(inst) # 0
    <3>1. /\ csrs' = [c \in SupportedCsrs |->
                        IF c = csr THEN CsrResult(Funct3(inst), old, operand) ELSE csrs[c]]
          /\ Retire(Written(Rd(inst), old), NextPc)
          /\ ram' = ram
      BY <1>18, <2>4 DEF System
    <3> HIDE DEF old, operand, csr
    <3>2. csrs' \in [SupportedCsrs -> Register]
      BY <1>4, <2>2, <3>1
    <3>3. Retires
      BY <1>7, <2>1, <3>1
    <3> QED
      BY <1>2, <1>4, <1>5, <3>1, <3>2, <3>3 DEF MachineOK
  <2> QED
    BY <2>3, <2>4
<1>19. CASE UnknownOp(inst)
  BY <1>6, <1>7, <1>19 DEF UnknownOp
<1> QED
  BY <1>1, <1>8, <1>9, <1>10, <1>11, <1>12, <1>13, <1>14, <1>15, <1>16, <1>17, <1>18, <1>19
     DEF Execute

LEMMA CallsTyped ==
  ASSUME MachineInv, ResetCpu \/ Connect \/ LoadProgram \/ Run
  PROVE  MachineOK
<1>1. /\ made \in Nat /\ script \in DOMAIN Scripts /\ script' = script
      /\ made' = made + 1 /\ made < Len(Calls)
      /\ pc \in Register /\ left \in Nat
      /\ regs \in [0..31 -> Register] /\ regs[0] = {}
      /\ csrs \in [SupportedCsrs -> Register] /\ RamOK(ram)
  BY DEF MachineInv, SocTypeOK, RamOK, ResetCpu, Connect, LoadProgram, Run, Called
<1>9. script' \in DOMAIN Scripts /\ made' \in Nat
  BY <1>1
<1>2. Len(Calls) \in Nat
      /\ \A k \in 1..Len(Calls) :
           /\ Calls[k].call = "load" => Len(Calls[k].words) \in 0 .. RamSize \div 4
           /\ Calls[k].call = "run" => Calls[k].n \in Nat
  BY <1>1, ScriptsAssumption DEF Calls
<1>3. /\ NextCall.call = "load" => Len(NextCall.words) \in 0 .. RamSize \div 4
      /\ NextCall.call = "run" => NextCall.n \in Nat
  <2>1. made + 1 \in 1..Len(Calls)
    BY <1>1, <1>2
  <2> QED
    BY <1>2, <2>1 DEF NextCall
<1>4. {} \in Register
  BY DEF Register
<1>5. CASE ResetCpu
  <2>1. pc' = {} /\ regs' = [r \in 0..31 |-> {}] /\ csrs' = [c \in SupportedCsrs |-> {}]
        /\ ram' = [x \in {} |-> {}] /\ left' = left
    BY <1>5 DEF ResetCpu
  <2>2. RamOK(ram')
    BY <2>1 DEF RamOK
  <2> QED
    BY <1>1, <1>4, <2>1, <2>2 DEF MachineOK
<1>6. CASE Connect
  <2>1. UNCHANGED <<left, pc, regs, csrs, ram>>
    BY <1>6 DEF Connect, cpuVars
  <2> QED
    BY <1>1, <1>9, <2>1 DEF MachineOK
<1>7. CASE LoadProgram
  <2> DEFINE words == NextCall.words
             n == Len(words)
  <2>1. ram' = [x \in DOMAIN ram \cup 0 .. 4 * n - 1 |->
                  IF x < 4 * n THEN Place(words[x \div 4 + 1], 8 * (x % 4), 8, 0) ELSE ram[x]]
        /\ UNCHANGED <<left, pc, regs, csrs>>
    BY <1>7 DEF LoadProgram
  <2>2. n \in 0 .. RamSize \div 4
    BY <1>3, <1>7 DEF LoadProgram, Called
  <2> HIDE DEF n, words
  <2>3. 0 .. 4 * n - 1 \subseteq 0 .. RamSize - 1
    BY <2>2, RamSizeAssumption
  <2>4. \A w, from : Place(w, from, 8, 0) \subseteq 0..7
    BY DEF Place
  <2>5. RamOK(ram')
    <3>1. DOMAIN ram' \subseteq 0 .. RamSize - 1
      BY <1>1, <2>1, <2>3 DEF RamOK
    <3>2. ASSUME NEW x \in DOMAIN ram' PROVE ram'[x] \subseteq 0..7
      <4>1. CASE x < 4 * n
        BY <2>1, <2>4, <3>2, <4>1
      <4>2. CASE ~(x < 4 * n)
        <5>1. x \in DOMAIN ram
          BY <2>1, <2>2, <3>2, <4>2, RamSizeAssumption
        <5> QED
          BY <1>1, <2>1, <3>2, <4>2, <5>1 DEF RamOK
      <4> QED
        BY <4>1, <4>2
    <3> QED
      BY <3>1, <3>2 DEF RamOK
  <2>6. UNCHANGED <<left, pc, regs, csrs>>
    BY <2>1
  <2> QED
    BY <1>1, <1>9, <2>5, <2>6 DEF MachineOK
<1>8. CASE Run
  <2>1. UNCHANGED <<pc, regs, csrs, ram>> /\ left' \in Nat
    BY <1>3, <1>8 DEF Run, Called, cpuVars
  <2> QED
    BY <1>1, <1>9, <2>1 DEF MachineOK
<1> QED
  BY <1>5, <1>6, <1>7, <1>8

LEMMA MachineStart == SocInit => MachineInv
<1> SUFFICES ASSUME SocInit PROVE MachineInv
  OBVIOUS
<1>1. {} \in Register
  BY DEF Register
<1> QED
  BY <1>1, FabricStart DEF SocInit, MachineInv, SocTypeOK, FabricInv, FabricShape

LEMMA MachineNext == MachineInv /\ [SocNext]_socVars => MachineInv'
<1> SUFFICES ASSUME MachineInv, [SocNext]_socVars PROVE MachineInv'
  OBVIOUS
<1>1. FabricInv /\ FabricInv'
  BY FabricNext DEF MachineInv
<1>2. MachineOK
  <2>0. UNCHANGED <<script, left, cpuVars>> /\ made' \in {made, made + 1} => MachineOK
    BY DEF MachineInv, SocTypeOK, RamOK, MachineOK, cpuVars
  <2>1. CASE Instruction
    BY <2>1, InstructionTyped
  <2>2. CASE LoadReturns
    <3>1. PICK inst \in {ReadWord(pc)} : EndLoad(inst)
      BY <2>2 DEF LoadReturns
    <3>2. SocTypeOK /\ inst \in Register /\ left > 0
      BY <2>2, <3>1, Reading DEF MachineInv, LoadReturns
    <3>3. LoadResult(inst, Output) \in Register /\ NextPc \in Register
      BY <3>2, Flags, LoadResults, Decoded DEF Output
    <3>4. Retire(Written(Rd(inst), LoadResult(inst, Output)), NextPc) /\ UNCHANGED <<csrs, ram>>
      BY <3>1 DEF EndLoad
    <3>5. /\ pc' \in Register /\ left' \in Nat
          /\ regs' \in [0..31 -> Register] /\ regs'[0] = {}
          /\ UNCHANGED <<script, made>>
      BY <3>2, <3>3, <3>4, Retired
    <3> QED
      BY <3>4, <3>5 DEF MachineOK, MachineInv, SocTypeOK, RamOK
  <2>3. CASE ResetCpu \/ Connect \/ LoadProgram \/ Run
    BY <2>3, CallsTyped
  <2>4. CASE ApplyA \/ ApplyB \/ ApplyEvaluate \/ CoreRuns \/ OwnerHasRead
    BY <2>0, <2>4 DEF ApplyA, ApplyB, ApplyEvaluate, CoreRuns, OwnerHasRead
  <2>5. CASE InitFabric \/ OwnerWrites \/ OwnerReads
    BY <2>0, <2>5 DEF InitFabric, OwnerWrites, OwnerReads, Called
  <2>6. CASE UNCHANGED socVars
    BY <2>0, <2>6 DEF socVars
  <2> QED
    BY <2>1, <2>2, <2>3, <2>4, <2>5, <2>6 DEF SocNext
<1> QED
  BY <1>1, <1>2 DEF MachineInv, MachineOK, SocTypeOK, RamOK, FabricInv, FabricShape

(* The machine keeps its types, whatever it executes: registers and CSRs   *)
(* are 32 bits, x0 is 0, and what a program changes of RAM are bytes of it,*)
(* stores over the end of the address space and loads of whatever is there *)
(* included.  It says nothing of the bytes before RAM that write_word()    *)
(* lets such a store change: they belong to the heap.                      *)
THEOREM MachineTypeCorrect == SocSpec => []SocTypeOK
<1>1. MachineInv => SocTypeOK
  BY DEF MachineInv
<1> QED
  BY <1>1, MachineStart, MachineNext, PTL DEF SocSpec
=============================================================================
