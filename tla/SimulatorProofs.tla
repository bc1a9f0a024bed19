-------------------------- MODULE SimulatorProofs --------------------------
(***************************************************************************)
(* Proofs about Simulator and FabricParity, for every core, design, lane   *)
(* count and input.                                                        *)
(*                                                                         *)
(* The simulator evaluates one LUT at a time, so the invariant of a pass   *)
(* needs no groups: what has been evaluated stays settled because an       *)
(* ordered LUT never reads what is written after it.  The claim of the     *)
(* code, that one in-order pass propagates, and the refinement follow.     *)
(*                                                                         *)
(* The two evaluators agree on every design of padding-blind LUTs without a*)
(* hazard in a group of four: both are compared with PassAfter and         *)
(* EdgeAfter, the values after some LUTs or registers.  While the simulator*)
(* runs, its values at the start of the loop are a known function of the   *)
(* core's; when it has returned, the core goes through the values the      *)
(* simulator went through, four at a time where it takes a group.          *)
(***************************************************************************)
EXTENDS FabricParity, DataLemmas

(* The simulator holds a loaded design, or none, and a word for each of its*)
(* nets; the values of the beginning of a loop are for the same nets.      *)
SimSafe ==
  /\ design \in Configs \cup {NoDesign}
  /\ values \in [0 .. design.total_nets - 1 -> Word]
  /\ before \in [0 .. design.total_nets - 1 -> Word]
  /\ loop \in {"idle", "eval", "clock"}
  /\ next \in Nat
  /\ stepping \in BOOLEAN

(* Within a pass: nets without a LUT keep their value, and the LUTs that   *)
(* have been evaluated are settled.                                        *)
SimPassInv ==
  loop = "eval" =>
    /\ next <= Len(design.luts)
    /\ \A n \in DOMAIN values \ LutOutputs(PaddedLuts) : values[n] = before[n]
    /\ OrderedLuts(1, PaddedLuts) =>
         \A k \in 1..next : values[PaddedLuts[k].out] = LutOut(PaddedLuts[k], values)

(* Within an edge: the registers clocked show their D of its beginning, and*)
(* every other net has its value of then.                                  *)
SimEdgeInv ==
  loop = "clock" =>
    /\ next <= Len(design.ffs)
    /\ \A n \in DOMAIN values :
         (\A k \in 1..next : design.ffs[k].q # n) => values[n] = before[n]
    /\ OrderedFfs(design.ffs) =>
         \A k \in 1..next : values[design.ffs[k].q] = before[design.ffs[k].d]

SimLoopInv == SimSafe /\ SimPassInv /\ SimEdgeInv

-----------------------------------------------------------------------------
(* Designs and their padded tables *)

LEMMA NoDesignWellFormed == WellFormed(NoDesign)
<1>1. <<>> \in Seq(MappedLut) /\ <<>> \in Seq(MappedFf) /\ Len(<<>>) = 0 /\ DOMAIN <<>> = {}
  OBVIOUS
<1> QED
  BY <1>1 DEF WellFormed, IsConfig, NoDesign

LEMMA DesignWellFormed ==
  ASSUME SimSafe
  PROVE  WellFormed(design)
BY NoDesignWellFormed, SimConfigsAssumption DEF SimSafe

LEMMA InitialType ==
  ASSUME NEW cfg, WellFormed(cfg)
  PROVE  InitialValues(cfg) \in [0 .. cfg.total_nets - 1 -> Word]
BY DEF InitialValues, WellFormed, IsConfig, Zero, Word

LEMMA PaddedTable ==
  ASSUME SimSafe
  PROVE  /\ Len(design.luts) \in Nat /\ Len(PaddedLuts) = Len(design.luts)
         /\ \A k \in 1..Len(design.luts) :
              PaddedLuts[k] = Pad(design.luts[k]) /\ design.luts[k] \in MappedLut
<1>1. design.luts \in Seq(MappedLut)
  BY DesignWellFormed DEF WellFormed, IsConfig
<1>2. Len(design.luts) \in Nat /\ \A k \in 1..Len(design.luts) : design.luts[k] \in MappedLut
  BY <1>1
<1>3. DOMAIN PaddedLuts = 1..Len(design.luts)
  BY DEF PaddedLuts
<1>4. Len(PaddedLuts) = Len(design.luts)
  BY <1>2 DEF PaddedLuts
<1> QED
  BY <1>2, <1>4 DEF PaddedLuts

(* The nets a LUT and a register of the design touch are allocated.        *)
LEMMA SimLutBounds ==
  ASSUME SimSafe, NEW k \in 1..Len(design.luts)
  PROVE  /\ design.luts[k].out = PaddedLuts[k].out
         /\ PaddedLuts[k].out \in DOMAIN values
         /\ Reads(PaddedLuts[k]) \subseteq DOMAIN values
         /\ PaddedLuts[k].out \in LutOutputs(PaddedLuts)
<1> DEFINE l == design.luts[k]
<1>1. l \in MappedLut /\ PaddedLuts[k] = Pad(l) /\ Len(PaddedLuts) = Len(design.luts)
  BY PaddedTable
<1>2. /\ design.total_nets \in Nat /\ l.out < design.total_nets
      /\ \A i \in 1..Len(l.in) : l.in[i] < design.total_nets
  BY DesignWellFormed DEF WellFormed
<1>3. l.out \in Nat /\ \A i \in 1..Len(l.in) : l.in[i] \in Nat
  BY <1>1 DEF MappedLut, Net
<1>4. DOMAIN values = 0 .. design.total_nets - 1
  BY DEF SimSafe
<1>5. 0 \in DOMAIN values /\ l.out \in DOMAIN values
  BY <1>2, <1>3, <1>4
<1>6. \A i \in 1..Len(l.in) : l.in[i] \in DOMAIN values
  BY <1>2, <1>3, <1>4
<1>7. Reads(PaddedLuts[k]) \subseteq DOMAIN values
  BY <1>1, <1>5, <1>6, Padded
<1>8. PaddedLuts[k].out = l.out
  BY <1>1, Padded
<1>9. PaddedLuts[k].out \in LutOutputs(PaddedLuts)
  BY <1>1 DEF LutOutputs
<1> QED
  BY <1>5, <1>7, <1>8, <1>9

LEMMA SimFfBounds ==
  ASSUME SimSafe
  PROVE  /\ Len(design.ffs) \in Nat
         /\ \A k \in 1..Len(design.ffs) :
              /\ design.ffs[k].d \in DOMAIN values
              /\ design.ffs[k].q \in DOMAIN values
              /\ design.ffs[k].q \in FfOutputs(design.ffs)
<1>1. design.ffs \in Seq(MappedFf)
  BY DesignWellFormed DEF WellFormed, IsConfig
<1>2. \A k \in 1..Len(design.ffs) : design.ffs[k].d \in Nat /\ design.ffs[k].q \in Nat
  <2>1. \A k \in 1..Len(design.ffs) : design.ffs[k] \in MappedFf
    BY <1>1
  <2>2. \A f \in MappedFf : f.d \in Nat /\ f.q \in Nat
    BY DEF MappedFf, Net
  <2> QED
    BY <2>1, <2>2
<1>3. /\ design.total_nets \in Nat
      /\ \A k \in 1..Len(design.ffs) :
           design.ffs[k].d < design.total_nets /\ design.ffs[k].q < design.total_nets
  BY DesignWellFormed DEF WellFormed
<1>4. DOMAIN values = 0 .. design.total_nets - 1
  BY DEF SimSafe
<1>5. Len(design.ffs) \in Nat
  BY <1>1
<1> QED
  BY <1>2, <1>3, <1>4, <1>5 DEF FfOutputs

-----------------------------------------------------------------------------
(* The invariant *)

LEMMA SimInitLoop == SimInit => SimLoopInv
<1> SUFFICES ASSUME SimInit PROVE SimLoopInv
  OBVIOUS
<1>1. design.total_nets = 0 /\ 0 .. design.total_nets - 1 = {}
  BY DEF SimInit, NoDesign
<1>2. values \in [0 .. design.total_nets - 1 -> Word] /\ before = values
  BY <1>1 DEF SimInit
<1>3. loop = "idle" /\ next = 0 /\ stepping = FALSE /\ design = NoDesign
  BY DEF SimInit
<1> QED
  BY <1>2, <1>3 DEF SimLoopInv, SimSafe, SimPassInv, SimEdgeInv

(* One LUT of a pass: it is settled now, it was read by none of the LUTs   *)
(* before it, and it drives none of their outputs.                         *)
LEMMA EvalLutPass ==
  ASSUME SimSafe, SimPassInv, EvalLut
  PROVE  SimSafe' /\ SimPassInv'
<1> DEFINE m == next + 1
           table == PaddedLuts
<1>1. /\ next \in Nat /\ Len(design.luts) \in Nat /\ m \in 1..Len(design.luts)
      /\ loop = "eval" /\ next' = m
      /\ design' = design /\ loop' = loop /\ stepping' = stepping /\ before' = before
  BY PaddedTable DEF EvalLut, SimSafe
<1>2. table[m].out \in DOMAIN values /\ table[m].out \in LutOutputs(table)
      /\ design.luts[m].out = table[m].out
  BY <1>1, SimLutBounds
<1>3. values' = [values EXCEPT ![table[m].out] = LutOut(table[m], values)]
  BY <1>2 DEF EvalLut
<1>4. /\ DOMAIN values' = DOMAIN values
      /\ values'[table[m].out] = LutOut(table[m], values)
      /\ \A x \in DOMAIN values : x # table[m].out => values'[x] = values[x]
  BY <1>2, <1>3 DEF SimSafe
<1>5. SimSafe'
  BY <1>1, <1>2, <1>3, LutOutIsWord DEF SimSafe
<1>6. PaddedLuts' = table
  BY <1>1 DEF PaddedLuts
<1>7. \A x \in DOMAIN values' \ LutOutputs(table) : values'[x] = before[x]
  BY <1>1, <1>2, <1>4 DEF SimPassInv
<1>8. ASSUME OrderedLuts(1, table), NEW k \in 1..m
      PROVE  values'[table[k].out] = LutOut(table[k], values')
  <2>1. k \in 1..Len(table) /\ m \in 1..Len(table) /\ k \in 1..Len(design.luts) /\ ~(m < k)
    BY <1>1, PaddedTable
  <2>2. table[m].out \notin Reads(table[k])
    BY <1>8, <2>1 DEF OrderedLuts
  <2>3. \A x \in Reads(table[k]) : values'[x] = values[x]
    BY <1>4, <2>1, <2>2, SimLutBounds
  <2>4. LutOut(table[k], values') = LutOut(table[k], values)
    BY <2>3, LutOutLocal
  <2>5. CASE k = m
    BY <1>4, <2>4, <2>5
  <2>6. CASE k \in 1..next
    <3>1. k # m
      BY <1>1, <2>6
    <3>2. table[k].out # table[m].out
      BY <1>8, <2>1, <3>1 DEF OrderedLuts
    <3>3. values'[table[k].out] = values[table[k].out]
      BY <1>4, <2>1, <3>2, SimLutBounds
    <3> QED
      BY <1>1, <1>8, <2>4, <2>6, <3>3 DEF SimPassInv
  <2> QED
    BY <1>1, <2>5, <2>6
<1>9. m <= Len(design.luts)
  BY <1>1
<1>10. SimPassInv'
  BY <1>1, <1>6, <1>7, <1>8, <1>9 DEF SimPassInv
<1> QED
  BY <1>5, <1>10

(* One register of an edge.                                                *)
LEMMA ClockRegisterEdge ==
  ASSUME SimSafe, SimEdgeInv, ClockRegister
  PROVE  SimSafe' /\ SimEdgeInv'
<1> DEFINE m == next + 1
           registers == design.ffs
<1>1. /\ next \in Nat /\ Len(registers) \in Nat /\ m \in 1..Len(registers)
      /\ loop = "clock" /\ next' = m
      /\ design' = design /\ loop' = loop /\ stepping' = stepping /\ before' = before
  BY SimFfBounds DEF ClockRegister, SimSafe
<1>2. registers[m].d \in DOMAIN values /\ registers[m].q \in DOMAIN values
  BY <1>1, SimFfBounds
<1>3. values' = [values EXCEPT ![registers[m].q] = values[registers[m].d]]
  BY DEF ClockRegister
<1>4. /\ DOMAIN values' = DOMAIN values
      /\ values'[registers[m].q] = values[registers[m].d]
      /\ \A x \in DOMAIN values : x # registers[m].q => values'[x] = values[x]
  BY <1>2, <1>3 DEF SimSafe
<1>5. SimSafe'
  BY <1>1, <1>2, <1>3 DEF SimSafe
<1>6. ASSUME NEW x \in DOMAIN values', \A k \in 1..m : registers[k].q # x
      PROVE  values'[x] = before[x]
  <2>1. values'[x] = values[x]
    BY <1>1, <1>4, <1>6
  <2>2. \A k \in 1..next : registers[k].q # x
    BY <1>1, <1>6
  <2> QED
    BY <1>1, <1>4, <2>1, <2>2 DEF SimEdgeInv
<1>7. ASSUME OrderedFfs(registers), NEW k \in 1..m
      PROVE  values'[registers[k].q] = before[registers[k].d]
  <2>1. k \in 1..Len(registers)
    BY <1>1
  <2>2. CASE k = m
    <3>1. \A j \in 1..next : registers[j].q # registers[m].d
      BY <1>1, <1>7 DEF OrderedFfs
    <3>2. values[registers[m].d] = before[registers[m].d]
      BY <1>1, <1>2, <3>1 DEF SimEdgeInv
    <3> QED
      BY <1>4, <2>2, <3>2
  <2>3. CASE k \in 1..next
    <3>1. k # m
      BY <1>1, <2>3
    <3>2. registers[k].q # registers[m].q
      BY <1>1, <1>7, <2>1, <3>1 DEF OrderedFfs
    <3>3. values'[registers[k].q] = values[registers[k].q]
      BY <1>4, <2>1, <3>2, SimFfBounds
    <3> QED
      BY <1>1, <1>7, <2>3, <3>3 DEF SimEdgeInv
  <2> QED
    BY <1>1, <2>2, <2>3
<1>8. SimEdgeInv'
  BY <1>1, <1>6, <1>7 DEF SimEdgeInv
<1> QED
  BY <1>5, <1>8

(* A loop that begins, or has returned.                                    *)
LEMMA StartLoop ==
  ASSUME SimSafe, NEW which \in {"idle", "eval", "clock"}, NEW withEdge \in BOOLEAN,
         Start(which, withEdge)
  PROVE  SimLoopInv'
<1>1. /\ loop' = which /\ next' = 0 /\ stepping' = withEdge /\ before' = values
      /\ design' = design /\ values' = values
  BY DEF Start
<1>2. SimSafe'
  BY <1>1 DEF SimSafe
<1>3. Len(design.luts) \in Nat /\ Len(design.ffs) \in Nat
  BY PaddedTable, SimFfBounds
<1> QED
  BY <1>1, <1>2, <1>3 DEF SimLoopInv, SimPassInv, SimEdgeInv

LEMMA SimNextLoop == SimLoopInv /\ [SimNext]_simVars => SimLoopInv'
<1> SUFFICES ASSUME SimLoopInv, [SimNext]_simVars PROVE SimLoopInv'
  OBVIOUS
<1>0. SimSafe /\ SimPassInv /\ SimEdgeInv
  BY DEF SimLoopInv
<1>1. ASSUME NEW cfg \in Configs, Load(cfg) PROVE SimLoopInv'
  <2>1. InitialValues(cfg) \in [0 .. cfg.total_nets - 1 -> Word]
    BY InitialType, SimConfigsAssumption
  <2> QED
    BY <1>0, <1>1, <2>1 DEF Load, SimLoopInv, SimSafe, SimPassInv, SimEdgeInv
<1>2. CASE SimReset
  <2>1. InitialValues(design) \in [0 .. design.total_nets - 1 -> Word]
    BY <1>0, InitialType, DesignWellFormed
  <2> QED
    BY <1>0, <1>2, <2>1 DEF SimReset, SimLoopInv, SimSafe, SimPassInv, SimEdgeInv
<1>3. ASSUME NEW net \in 0 .. design.total_nets, NEW w \in InputWords, SimWriteInput(net, w)
      PROVE  SimLoopInv'
  <2>1. values' \in [0 .. design.total_nets - 1 -> Word]
    BY <1>0, <1>3, SimInputWordsAssumption DEF SimWriteInput, SimSafe
  <2> QED
    BY <1>0, <1>3, <2>1 DEF SimWriteInput, SimLoopInv, SimSafe, SimPassInv, SimEdgeInv
<1>4. CASE \E dt \in Durations : Advance(dt)
  BY <1>0, <1>4 DEF Advance, SimLoopInv, SimSafe, SimPassInv, SimEdgeInv
<1>5. CASE EvalCombinational \/ SimClock \/ Step
  BY <1>0, <1>5, StartLoop DEF EvalCombinational, SimClock, Step
<1>6. CASE EvalReturns \/ ClockReturns
  <2>1. (IF stepping THEN "clock" ELSE "idle") \in {"idle", "eval", "clock"} /\ stepping \in BOOLEAN
    BY <1>0 DEF SimSafe
  <2> QED
    BY <1>0, <1>6, <2>1, StartLoop DEF EvalReturns, ClockReturns
<1>7. CASE EvalLut
  BY <1>0, <1>7, EvalLutPass DEF EvalLut, SimLoopInv, SimEdgeInv
<1>8. CASE ClockRegister
  BY <1>0, <1>8, ClockRegisterEdge DEF ClockRegister, SimLoopInv, SimPassInv
<1>9. CASE UNCHANGED simVars
  BY <1>0, <1>9, ZenonT(30) DEF simVars, SimLoopInv, SimSafe, SimPassInv, SimEdgeInv, PaddedLuts
<1> QED
  BY <1>1, <1>2, <1>3, <1>4, <1>5, <1>6, <1>7, <1>8, <1>9 DEF SimNext, SimCompute

LEMMA SimLoopInvariant == SimSpec => []SimLoopInv
BY SimInitLoop, SimNextLoop, PTL DEF SimSpec

(* One in-order pass propagates through every ordered design: the claim in *)
(* eval_combinational(), for every number of LUTs and lanes.               *)
THEOREM OnePassSuffices == SimSpec => OnePassPropagates
<1>1. SimLoopInv => (EvalReturns /\ OrderedLuts(1, PaddedLuts) => Settled(PaddedLuts, values))
  <2> SUFFICES ASSUME SimSafe, SimPassInv, EvalReturns, OrderedLuts(1, PaddedLuts)
               PROVE  Settled(PaddedLuts, values)
    BY DEF SimLoopInv
  <2>1. next = Len(PaddedLuts)
    BY PaddedTable DEF EvalReturns, SimPassInv, SimSafe
  <2> QED
    BY <2>1 DEF EvalReturns, SimPassInv, Settled
<1>2. SimLoopInv =>
        [EvalReturns /\ OrderedLuts(1, PaddedLuts) => Settled(PaddedLuts, values)]_simVars
  BY <1>1
<1> QED
  BY <1>2, SimLoopInvariant, PTL DEF OnePassPropagates

-----------------------------------------------------------------------------
(***************************************************************************)
(* The simulator implements a synchronous circuit without groups.  The     *)
(* nets of the abstract circuit change only when a loop returns.           *)
(***************************************************************************)
LEMMA SameDefinitions ==
  ASSUME NEW lutTable, NEW ffTable, NEW s
  PROVE  /\ SimCircuit!OrderedLuts(1, lutTable) <=> OrderedLuts(1, lutTable)
         /\ SimCircuit!OrderedFfs(ffTable) <=> OrderedFfs(ffTable)
         /\ SimCircuit!Settled(lutTable, s) <=> Settled(lutTable, s)
         /\ SimCircuit!LutOutputs(lutTable) = LutOutputs(lutTable)
         /\ SimCircuit!FfOutputs(ffTable) = FfOutputs(ffTable)
BY DEF SimCircuit!OrderedLuts, OrderedLuts, SimCircuit!OrderedFfs, OrderedFfs,
       SimCircuit!Settled, Settled, SimCircuit!LutOutputs, LutOutputs,
       SimCircuit!FfOutputs, FfOutputs, SimCircuit!Reads, Reads,
       SimCircuit!SameBatch, SameBatch, SimCircuit!LutOut, LutOut,
       SimCircuit!Evaluate, Evaluate, SimCircuit!Bit, Bit

LEMMA SimInitCircuit == SimInit => SimCircuit!CircuitInit
<1> SUFFICES ASSUME SimInit PROVE SimCircuit!CircuitInit
  OBVIOUS
<1>1. design.luts = <<>> /\ design.ffs = <<>> /\ PaddedLuts = <<>>
  BY DEF SimInit, NoDesign, PaddedLuts
<1> QED
  BY <1>1 DEF SimInit, SimCircuit!CircuitInit, SimCircuit!Blank, SimCircuit!Zero, Zero, Bit

(* load() and reset() configure the circuit.                               *)
LEMMA ConfigureStep ==
  ASSUME SimSafe', NEW cfg \in Configs,
         design' = cfg, loop = "idle", loop' = "idle", stepping' = stepping,
         values' = InitialValues(cfg)
  PROVE  SimCircuit!Configure(cfg)
<1>1. /\ Len(cfg.luts) \in Nat /\ Len(PaddedLuts') = Len(cfg.luts)
      /\ \A k \in 1..Len(cfg.luts) :
           PaddedLuts'[k] = Pad(cfg.luts[k]) /\ cfg.luts[k] \in MappedLut
  <2>1. cfg.luts \in Seq(MappedLut)
    BY SimConfigsAssumption DEF WellFormed, IsConfig
  <2>2. PaddedLuts' = [k \in 1..Len(cfg.luts) |-> Pad(cfg.luts[k])]
    BY DEF PaddedLuts
  <2> QED
    BY <2>1, <2>2
<1>2. ASSUME NEW k \in 1..Len(cfg.luts)
      PROVE  /\ PaddedLuts'[k].tt = cfg.luts[k].tt
             /\ PaddedLuts'[k].out = cfg.luts[k].out
             /\ \A i \in 1..4 :
                  i <= Len(cfg.luts[k].in) => PaddedLuts'[k].in[i] = cfg.luts[k].in[i]
  <2>1. cfg.luts[k] \in MappedLut /\ PaddedLuts'[k] = Pad(cfg.luts[k])
    BY <1>1
  <2> QED
    BY <2>1, Padded, Zenon
<1>3. \A n \in DOMAIN values' :
        values'[n] = IF n \in DOMAIN cfg.constants THEN cfg.constants[n] ELSE SimCircuit!Zero
  BY DEF InitialValues, SimCircuit!Zero, Zero
<1>4. Len(design'.ffs) <= Len(cfg.ffs) /\ \A k \in 1..Len(design'.ffs) : design'.ffs[k] = cfg.ffs[k]
  <2>1. Len(cfg.ffs) \in Nat
    BY SimConfigsAssumption DEF WellFormed, IsConfig
  <2> QED
    BY <2>1
<1>5. (IF loop = "idle" THEN values ELSE before)' = values' /\ UNCHANGED <<loop, Bit(stepping)>>
  BY DEF Bit
<1>6. Len(PaddedLuts') <= Len(cfg.luts) /\ 1..Len(PaddedLuts') = 1..Len(cfg.luts)
  BY <1>1
<1>7. design.ffs' = design'.ffs
  OBVIOUS
<1> QED
  BY <1>2, <1>3, <1>4, <1>5, <1>6, <1>7, Zenon DEF SimCircuit!Configure

LEMMA WriteDrives ==
  ASSUME SimSafe, NEW net \in 0 .. design.total_nets, NEW w \in InputWords, SimWriteInput(net, w)
  PROVE  SimCircuit!Drive \/ UNCHANGED SimCircuit!circuitVars
<1>1. /\ loop = "idle" /\ loop' = loop
      /\ PaddedLuts' = PaddedLuts /\ design.ffs' = design.ffs /\ Bit(stepping)' = Bit(stepping)
  BY DEF SimWriteInput, PaddedLuts, Bit
<1>2. CASE net \in DOMAIN values
  <2>1. w \in SimCircuit!Word
    BY SimInputWordsAssumption DEF SimCircuit!Word, Word
  <2>2. values' = [values EXCEPT ![net] = w]
    BY <1>2 DEF SimWriteInput
  <2> QED
    BY <1>1, <1>2, <2>1, <2>2 DEF SimCircuit!Drive
<1>3. CASE net \notin DOMAIN values
  BY <1>1, <1>3 DEF SimWriteInput, SimCircuit!circuitVars
<1> QED
  BY <1>2, <1>3

LEMMA BeginLoop ==
  ASSUME EvalCombinational \/ SimClock \/ Step
  PROVE  SimCircuit!Begin
<1>1. PICK which \in {"eval", "clock"}, withEdge \in BOOLEAN :
        loop = "idle" /\ Start(which, withEdge)
  BY DEF EvalCombinational, SimClock, Step
<1>2. /\ loop = "idle" /\ loop' \in {"eval", "clock"} /\ before' = values
      /\ PaddedLuts' = PaddedLuts /\ design.ffs' = design.ffs /\ Bit(stepping)' \in Nat
  BY <1>1 DEF Start, PaddedLuts, Bit
<1> QED
  BY <1>2 DEF SimCircuit!Begin

(* Iterations of a loop, and the passing of time, do not show.             *)
LEMMA Hidden ==
  ASSUME EvalLut \/ ClockRegister \/ \E dt \in Durations : Advance(dt)
  PROVE  UNCHANGED SimCircuit!circuitVars
<1>1. /\ UNCHANGED <<design, loop, stepping, before>>
      /\ loop = "idle" => values' = values
  BY DEF EvalLut, ClockRegister, Advance
<1> QED
  BY <1>1 DEF SimCircuit!circuitVars, PaddedLuts, Bit

LEMMA PassSettlesCircuit ==
  ASSUME SimSafe, SimPassInv, EvalReturns
  PROVE  SimCircuit!Settle
<1>1. next = Len(PaddedLuts) /\ loop = "eval"
  BY PaddedTable DEF EvalReturns, SimPassInv, SimSafe
<1>2. /\ loop' = (IF Bit(stepping) = 0 THEN "idle" ELSE "clock")
      /\ Bit(stepping)' = Bit(stepping) /\ values' = values /\ before' = values
      /\ PaddedLuts' = PaddedLuts /\ design.ffs' = design.ffs
  BY DEF EvalReturns, Start, Bit, PaddedLuts, SimSafe
<1>3. DOMAIN values = DOMAIN before
  BY DEF SimSafe
<1>4. \A n \in DOMAIN values \ LutOutputs(PaddedLuts) : values[n] = before[n]
  BY <1>1 DEF SimPassInv
<1>5. OrderedLuts(1, PaddedLuts) => Settled(PaddedLuts, values)
  BY <1>1 DEF SimPassInv, Settled
<1>6. (IF loop = "idle" THEN values ELSE before)' = values
  BY <1>2
<1>7. (IF loop = "idle" THEN values ELSE before) = before
  BY <1>1
<1> QED
  BY <1>1, <1>2, <1>3, <1>4, <1>5, <1>6, <1>7, SameDefinitions DEF SimCircuit!Settle

LEMMA EdgeIsSimultaneousCircuit ==
  ASSUME SimSafe, SimEdgeInv, ClockReturns
  PROVE  SimCircuit!Edge
<1>1. next = Len(design.ffs) /\ loop = "clock"
  BY SimFfBounds DEF ClockReturns, SimEdgeInv, SimSafe
<1>2. /\ loop' = "idle" /\ Bit(stepping) \in {0, 1} /\ Bit(stepping)' = 0
      /\ values' = values /\ before' = values
      /\ PaddedLuts' = PaddedLuts /\ design.ffs' = design.ffs
  BY DEF ClockReturns, Start, Bit, PaddedLuts
<1>3. DOMAIN values = DOMAIN before
  BY DEF SimSafe
<1>4. \A n \in DOMAIN values \ FfOutputs(design.ffs) : values[n] = before[n]
  BY <1>1 DEF SimEdgeInv, FfOutputs
<1>5. OrderedFfs(design.ffs) =>
        \A k \in 1..Len(design.ffs) : values[design.ffs[k].q] = before[design.ffs[k].d]
  BY <1>1 DEF SimEdgeInv
<1>6. (IF loop = "idle" THEN values ELSE before)' = values
  BY <1>2
<1>7. (IF loop = "idle" THEN values ELSE before) = before
  BY <1>1
<1> QED
  BY <1>1, <1>2, <1>3, <1>4, <1>5, <1>6, <1>7, SameDefinitions DEF SimCircuit!Edge

LEMMA SimNextCircuit ==
  SimLoopInv /\ SimLoopInv' /\ [SimNext]_simVars
    => [SimCircuit!CircuitNext]_(SimCircuit!circuitVars)
<1> SUFFICES ASSUME SimLoopInv, SimLoopInv', [SimNext]_simVars
             PROVE  SimCircuit!CircuitNext \/ UNCHANGED SimCircuit!circuitVars
  OBVIOUS
<1>0. SimSafe /\ SimPassInv /\ SimEdgeInv /\ SimSafe'
  BY DEF SimLoopInv
<1> USE DEF SimCircuit!CircuitNext
<1>1. ASSUME NEW cfg \in Configs, Load(cfg) PROVE SimCircuit!CircuitNext
  BY <1>0, <1>1, ConfigureStep DEF Load
<1>2. CASE SimReset
  <2>1. design \in Configs
    BY <1>0, <1>2 DEF SimReset, SimSafe
  <2> QED
    BY <1>0, <1>2, <2>1, ConfigureStep DEF SimReset
<1>3. CASE \E net \in 0 .. design.total_nets, w \in InputWords : SimWriteInput(net, w)
  BY <1>0, <1>3, WriteDrives
<1>4. CASE EvalCombinational \/ SimClock \/ Step
  BY <1>4, BeginLoop
<1>5. CASE EvalLut \/ ClockRegister \/ \E dt \in Durations : Advance(dt)
  BY <1>5, Hidden
<1>6. CASE EvalReturns
  BY <1>0, <1>6, PassSettlesCircuit
<1>7. CASE ClockReturns
  BY <1>0, <1>7, EdgeIsSimultaneousCircuit
<1>8. CASE UNCHANGED simVars
  BY <1>8 DEF simVars, SimCircuit!circuitVars, PaddedLuts, Bit
<1> QED
  BY <1>1, <1>2, <1>3, <1>4, <1>5, <1>6, <1>7, <1>8 DEF SimNext, SimCompute

(* The host simulator is a synchronous circuit for every ordered design,   *)
(* the same one the firmware's core is but for the size of its groups.     *)
THEOREM SimulatorImplementsCircuit == SimSpec => SimImplementsCircuit
BY SimInitCircuit, SimNextCircuit, SimLoopInvariant, PTL
   DEF SimSpec, SimImplementsCircuit, SimCircuit!CircuitSpec
-----------------------------------------------------------------------------
(* Within a loop the values are those after the iterations made so far.    *)
SimFunInv ==
  /\ loop = "eval" => values = PassAfter(design, before)[next]
  /\ loop = "clock" => values = EdgeAfter(design, before)[next]

(* Both recursions unfold for the design of the simulator.                 *)
LEMMA DesignUnfolds ==
  ASSUME SimSafe, NEW v \in WordsOver(0 .. design.total_nets - 1)
  PROVE  /\ PassAfter(design, v)[0] = v
         /\ \A k \in 1 .. Len(design.luts) :
              PassAfter(design, v)[k] = LutStep(design, k, PassAfter(design, v)[k - 1])
         /\ \A k \in 0 .. Len(design.luts) :
              PassAfter(design, v)[k] \in WordsOver(0 .. design.total_nets - 1)
         /\ EdgeAfter(design, v)[0] = v
         /\ \A k \in 1 .. Len(design.ffs) :
              EdgeAfter(design, v)[k] = FfStep(design, k, EdgeAfter(design, v)[k - 1])
         /\ \A k \in 0 .. Len(design.ffs) :
              EdgeAfter(design, v)[k] \in WordsOver(0 .. design.total_nets - 1)
<1> DEFINE D == 0 .. design.total_nets - 1
<1>1. Len(design.luts) \in Nat /\ Len(design.ffs) \in Nat
  BY PaddedTable, SimFfBounds
<1>2. DOMAIN values = D
  BY DEF SimSafe
<1>3. \A k \in 1 .. Len(design.ffs) : design.ffs[k].d \in D
  BY <1>2, SimFfBounds
<1>4. v \in WordsOver(D)
  OBVIOUS
<1> HIDE DEF D
<1>5. /\ PassAfter(design, v) \in [0 .. Len(design.luts) -> WordsOver(D)]
      /\ PassAfter(design, v)[0] = v
      /\ \A k \in 1 .. Len(design.luts) :
           PassAfter(design, v)[k] = LutStep(design, k, PassAfter(design, v)[k - 1])
  BY <1>1, <1>4, PassUnfolds
<1>6. /\ EdgeAfter(design, v) \in [0 .. Len(design.ffs) -> WordsOver(D)]
      /\ EdgeAfter(design, v)[0] = v
      /\ \A k \in 1 .. Len(design.ffs) :
           EdgeAfter(design, v)[k] = FfStep(design, k, EdgeAfter(design, v)[k - 1])
  BY <1>1, <1>3, <1>4, EdgeUnfolds
<1>7. \A k \in 0 .. Len(design.luts) : PassAfter(design, v)[k] \in WordsOver(D)
  BY <1>5
<1>8. \A k \in 0 .. Len(design.ffs) : EdgeAfter(design, v)[k] \in WordsOver(D)
  BY <1>6
<1> QED
  BY <1>5, <1>6, <1>7, <1>8, Zenon DEF D

LEMMA StartFun ==
  ASSUME SimSafe, NEW which, NEW withEdge, Start(which, withEdge)
  PROVE  SimFunInv'
<1>1. /\ next' = 0 /\ before' = values /\ design' = design /\ values' = values
      /\ values \in WordsOver(0 .. design.total_nets - 1)
  BY DEF Start, SimSafe, WordsOver
<1>2. PassAfter(design, values)[0] = values /\ EdgeAfter(design, values)[0] = values
  BY <1>1, DesignUnfolds
<1> QED
  BY <1>1, <1>2 DEF SimFunInv

LEMMA SimNextFun ==
  ASSUME SimLoopInv, SimFunInv, [SimNext]_simVars
  PROVE  SimFunInv'
<1>0. SimSafe /\ before \in WordsOver(0 .. design.total_nets - 1) /\ next \in Nat
  BY DEF SimLoopInv, SimSafe, WordsOver
<1>1. CASE \/ \E cfg \in Configs : Load(cfg)
           \/ SimReset
           \/ \E net \in 0 .. design.total_nets, w \in InputWords : SimWriteInput(net, w)
           \/ \E dt \in Durations : Advance(dt)
  BY <1>1 DEF Load, SimReset, SimWriteInput, Advance, SimFunInv
<1>2. CASE EvalCombinational \/ SimClock \/ Step \/ EvalReturns \/ ClockReturns
  BY <1>0, <1>2, StartFun DEF EvalCombinational, SimClock, Step, EvalReturns, ClockReturns
<1>3. CASE EvalLut
  <2>0. Len(design.luts) \in Nat
    BY <1>0, PaddedTable
  <2>1. next + 1 \in 1 .. Len(design.luts) /\ (next + 1) - 1 = next
    BY <1>0, <1>3, <2>0 DEF EvalLut
  <2>2. PaddedLuts[next + 1] = Pad(design.luts[next + 1])
    BY <1>0, <2>1, PaddedTable
  <2>3. values = PassAfter(design, before)[next]
    BY <1>3 DEF EvalLut, SimFunInv
  <2>4. PassAfter(design, before)[next + 1] =
          LutStep(design, next + 1, PassAfter(design, before)[next])
    <3>1. \A k \in 1 .. Len(design.luts) : PassAfter(design, before)[k] =
            LutStep(design, k, PassAfter(design, before)[k - 1])
      BY <1>0, DesignUnfolds, Zenon
    <3> QED
      BY <2>1, <3>1
  <2>5. values' = PassAfter(design, before)[next + 1]
    BY <1>3, <2>2, <2>3, <2>4 DEF EvalLut, LutStep
  <2> QED
    BY <1>3, <2>5 DEF EvalLut, SimFunInv
<1>4. CASE ClockRegister
  <2>1. next + 1 \in 1 .. Len(design.ffs) /\ (next + 1) - 1 = next
    BY <1>0, <1>4, SimFfBounds DEF ClockRegister
  <2>2. values = EdgeAfter(design, before)[next]
    BY <1>4 DEF ClockRegister, SimFunInv
  <2>3. EdgeAfter(design, before)[next + 1] =
          FfStep(design, next + 1, EdgeAfter(design, before)[next])
    <3>1. \A k \in 1 .. Len(design.ffs) : EdgeAfter(design, before)[k] =
            FfStep(design, k, EdgeAfter(design, before)[k - 1])
      BY <1>0, DesignUnfolds, Zenon
    <3> QED
      BY <2>1, <3>1
  <2>4. values' = EdgeAfter(design, before)[next + 1]
    BY <1>4, <2>2, <2>3 DEF ClockRegister, FfStep
  <2> QED
    BY <1>4, <2>4 DEF ClockRegister, SimFunInv
<1>5. CASE UNCHANGED simVars
  BY <1>5 DEF simVars, SimFunInv
<1> QED
  BY <1>1, <1>2, <1>3, <1>4, <1>5 DEF SimNext, SimCompute

(* eval_combinational() and clock() are functions of the values they are   *)
(* called with, for every design: when a loop returns it leaves the value  *)
(* the recursive function has after its last LUT or register.              *)
THEOREM CallsAreFunctionsOfValues == SimSpec => CallsAreFunctions
<1>1. SimInit => SimFunInv
  BY DEF SimInit, SimFunInv
<1>2. SimLoopInv /\ SimFunInv =>
        /\ EvalReturns => values = PassValues(design, before)
        /\ ClockReturns => values = EdgeValues(design, before)
  <2> SUFFICES ASSUME SimLoopInv, SimFunInv
               PROVE  /\ EvalReturns => values = PassValues(design, before)
                      /\ ClockReturns => values = EdgeValues(design, before)
    OBVIOUS
  <2>1. EvalReturns => next = Len(design.luts) /\ loop = "eval"
    BY PaddedTable DEF EvalReturns, SimLoopInv, SimSafe, SimPassInv
  <2>2. ClockReturns => next = Len(design.ffs) /\ loop = "clock"
    BY SimFfBounds DEF ClockReturns, SimLoopInv, SimSafe, SimEdgeInv
  <2> QED
    BY <2>1, <2>2, CallsAreLastEntries DEF SimFunInv
<1>3. SimLoopInv /\ SimFunInv =>
        [ /\ EvalReturns => values = PassValues(design, before)
          /\ ClockReturns => values = EdgeValues(design, before) ]_simVars
  BY <1>2
<1> QED
  BY <1>1, <1>3, SimLoopInvariant, SimNextFun, PTL DEF SimSpec, CallsAreFunctions

-----------------------------------------------------------------------------
(* The simulator and the core side by side: the invariant *)

Separate(cfg) == NoGroupHazard(cfg) /\ AllPaddingBlind(cfg)

(* The core's values of the nets of the design: now, and when its loop     *)
(* began.                                                                  *)
Seen == [n \in DOMAIN values |-> signals[n]]
SeenStart == [n \in DOMAIN values |-> start[n]]

(* What holds whatever design is loaded: the core keeps its capacities.    *)
CoreKept ==
  /\ initialized \in BOOLEAN
  /\ max = IF initialized THEN Size ELSE Core!NoCapacity
  /\ ~initialized => design = NoDesign
  /\ DOMAIN signals = 0 .. max.signals - 1
  /\ idx \in Nat /\ cycles \in {0, 1}

(* A design that fits is held by the core as the simulator holds it, in    *)
(* tables that no store has overrun, and the core waits at the beginning of*)
(* its loop for the simulator.                                             *)
CoreShape ==
  /\ initialized \in BOOLEAN
  /\ max = IF initialized THEN Size ELSE Core!NoCapacity
  /\ ~initialized => design = NoDesign
  /\ signals \in [0 .. max.signals - 1 -> Word]
  /\ start \in [0 .. max.signals - 1 -> Word]
  /\ overrun = FALSE
  /\ design.total_nets <= max.signals
  /\ Len(design.luts) <= max.luts /\ Len(design.ffs) <= max.ffs
  /\ Len(luts) = Len(design.luts)
  /\ \A k \in 1..Len(design.luts) : luts[k] = Core!LoadLut(design.luts[k])
  /\ Len(ffs) = Len(design.ffs)
  /\ \A k \in 1..Len(design.ffs) : ffs[k] = design.ffs[k]

CoreControl ==
  /\ phase \in {"idle", "eval", "clock"} /\ idx \in Nat /\ cycles \in {0, 1}
  /\ loop # "idle" => phase # "idle" /\ idx = 0 /\ start = signals
  /\ phase = "eval" =>
       /\ idx <= Len(luts)
       /\ idx + 3 < Len(luts) => \E g \in 0 .. Len(luts) : idx = 4 * g
  /\ phase = "clock" => idx <= Len(ffs)

(* How the values of the two are related.                                  *)
CoreFollows ==
  /\ phase = "idle" => values = Seen
  /\ loop = "eval" => phase = "eval" /\ cycles = Bit(stepping) /\ before = Seen
  /\ loop = "clock" /\ ~stepping => phase = "clock" /\ before = Seen
  /\ loop = "clock" /\ stepping =>
       phase = "eval" /\ cycles = 1 /\ before = PassValues(design, Seen)
  /\ loop = "idle" /\ phase = "eval" =>
       /\ Seen = PassAfter(design, SeenStart)[idx]
       /\ values = IF cycles = 0 THEN PassValues(design, SeenStart)
                   ELSE EdgeValues(design, PassValues(design, SeenStart))
  /\ loop = "idle" /\ phase = "clock" =>
       Seen = EdgeAfter(design, SeenStart)[idx] /\ values = EdgeValues(design, SeenStart)

ParityInv ==
  /\ SimLoopInv /\ SimFunInv /\ CoreKept
  /\ Fits(design) => CoreShape /\ CoreControl /\ (Separate(design) => CoreFollows)

-----------------------------------------------------------------------------
(* The operators of the two modules *)

LEMMA SameOperators ==
  /\ \A l, s : Core!LutOut(l, s) = LutOut(l, s)
  /\ Core!Zero = Zero /\ Core!Word = Word
BY DEF Core!LutOut, LutOut, Core!Evaluate, Evaluate, Core!Bit, Bit, Core!Zero, Zero, Core!Word, Word

(* s and t agree on the inputs a LUT has.                                  *)
SameInputs(lut, s, t) == \A i \in 1..4 : i <= Len(lut.in) => s[lut.in[i]] = t[lut.in[i]]

(* A padding-blind LUT has one value, however the inputs it does not have  *)
(* are read.                                                               *)
LEMMA BlindLut ==
  ASSUME NEW l \in MappedLut, PaddingBlind(l), NEW s, NEW t, SameInputs(l, s, t)
  PROVE  Core!LutOut(Core!LoadLut(l), s) = LutOut(Pad(l), t)
<1> DEFINE c == Core!LoadLut(l)
           d == Pad(l)
<1>1. c.tt = l.tt /\ c.in = [k \in 1..4 |-> IF k <= Len(l.in) THEN l.in[k] ELSE 0]
  BY DEF Core!LoadLut
<1>2. d.tt = l.tt /\ \A i \in 1..4 : i <= Len(l.in) => d.in[i] = l.in[i]
  BY Padded
<1>3. \A i \in 1..4 : i <= Len(l.in) => s[c.in[i]] = t[d.in[i]]
  BY <1>1, <1>2 DEF SameInputs
<1> HIDE DEF c, d
<1>4. ASSUME NEW n \in Lanes
      PROVE  (Bit(n \in s[c.in[1]]) + 2 * Bit(n \in s[c.in[2]])
                + 4 * Bit(n \in s[c.in[3]]) + 8 * Bit(n \in s[c.in[4]]) \in l.tt)
             <=> (Bit(n \in t[d.in[1]]) + 2 * Bit(n \in t[d.in[2]])
                + 4 * Bit(n \in t[d.in[3]]) + 8 * Bit(n \in t[d.in[4]]) \in l.tt)
  <2> DEFINE p == [i \in 1..4 |-> Bit(n \in s[c.in[i]])]
             q == [i \in 1..4 |-> Bit(n \in t[d.in[i]])]
  <2>1. p \in [1..4 -> {0, 1}] /\ q \in [1..4 -> {0, 1}]
    BY DEF Bit
  <2>2. \A i \in 1..4 : i <= Len(l.in) => p[i] = q[i]
    BY <1>3
  <2>3. /\ p[1] = Bit(n \in s[c.in[1]]) /\ p[2] = Bit(n \in s[c.in[2]])
        /\ p[3] = Bit(n \in s[c.in[3]]) /\ p[4] = Bit(n \in s[c.in[4]])
        /\ q[1] = Bit(n \in t[d.in[1]]) /\ q[2] = Bit(n \in t[d.in[2]])
        /\ q[3] = Bit(n \in t[d.in[3]]) /\ q[4] = Bit(n \in t[d.in[4]])
    OBVIOUS
  <2> HIDE DEF p, q
  <2>4. p[1] + 2 * p[2] + 4 * p[3] + 8 * p[4] \in l.tt
          <=> q[1] + 2 * q[2] + 4 * q[3] + 8 * q[4] \in l.tt
    BY <2>1, <2>2, Zenon DEF PaddingBlind
  <2> QED
    BY <2>3, <2>4, Zenon
<1>5. LutOut(c, s) = LutOut(d, t)
  BY <1>1, <1>2, <1>4, Zenon DEF LutOut, Evaluate
<1> QED
  BY <1>5, SameOperators DEF c, d
-----------------------------------------------------------------------------
(* Steps of the simulator *)

LEMMA ParityIsSimulator == [ParityNext]_parityVars => [SimNext]_simVars
<1> SUFFICES ASSUME ParityNext \/ UNCHANGED parityVars PROVE SimNext \/ UNCHANGED simVars
  OBVIOUS
<1>1. CASE StartCore \/ CoreRuns \/ UNCHANGED parityVars
  BY <1>1 DEF StartCore, CoreRuns, parityVars
<1>2. CASE \E cfg \in Configs : LoadBoth(cfg)
  BY <1>2 DEF LoadBoth, SimNext
<1>3. CASE \E net \in 0 .. design.total_nets, w \in InputWords : WriteBoth(net, w)
  BY <1>3 DEF WriteBoth, SimNext
<1>4. CASE \E dt \in Durations : AdvanceSimulator(dt)
  BY <1>4 DEF AdvanceSimulator, SimNext
<1>5. CASE ResetBoth \/ EvaluateBoth \/ ClockBoth \/ StepBoth \/ SimulatorRuns
  BY <1>5 DEF ResetBoth, EvaluateBoth, ClockBoth, StepBoth, SimulatorRuns, SimNext
<1> QED
  BY <1>1, <1>2, <1>3, <1>4, <1>5 DEF ParityNext

LEMMA Domains ==
  ASSUME SimSafe, CoreShape
  PROVE  /\ DOMAIN values = 0 .. design.total_nets - 1
         /\ DOMAIN signals = 0 .. max.signals - 1
         /\ DOMAIN values \subseteq DOMAIN signals
         /\ values \in WordsOver(0 .. design.total_nets - 1)
         /\ before \in WordsOver(0 .. design.total_nets - 1)
         /\ Seen \in WordsOver(0 .. design.total_nets - 1)
         /\ SeenStart \in WordsOver(0 .. design.total_nets - 1)
         /\ Len(design.luts) \in Nat /\ Len(design.ffs) \in Nat
<1>1. /\ design.total_nets \in Nat /\ design.total_nets <= max.signals
      /\ Len(design.luts) \in Nat /\ Len(design.ffs) \in Nat
  BY DesignWellFormed, PaddedTable, SimFfBounds DEF WellFormed, CoreShape
<1>2. max.signals \in Nat
  BY SizeAssumption DEF CoreShape, Core!NoCapacity
<1>3. DOMAIN values = 0 .. design.total_nets - 1 /\ DOMAIN signals = 0 .. max.signals - 1
      /\ DOMAIN start = 0 .. max.signals - 1
  BY DEF SimSafe, CoreShape
<1>4. DOMAIN values \subseteq DOMAIN signals
  BY <1>1, <1>2, <1>3
<1>5. Seen \in WordsOver(0 .. design.total_nets - 1) /\ SeenStart \in WordsOver(0 .. design.total_nets - 1)
  BY <1>3, <1>4 DEF Seen, SeenStart, WordsOver, CoreShape
<1> QED
  BY <1>1, <1>3, <1>4, <1>5 DEF SimSafe, WordsOver

(* A step that keeps the memory and the tables of the core.                *)
LEMMA ShapeFrame ==
  ASSUME CoreShape, UNCHANGED <<initialized, max, design, luts, ffs, overrun>>,
         signals' \in [0 .. max.signals - 1 -> Word], start' \in [0 .. max.signals - 1 -> Word]
  PROVE  CoreShape'
BY DEF CoreShape

LEMMA ParityInitInv == ParityInit => ParityInv
<1> SUFFICES ASSUME ParityInit PROVE ParityInv
  OBVIOUS
<1>1. SimLoopInv /\ SimFunInv
  BY SimInitLoop DEF ParityInit, SimInit, SimFunInv
<1>2. /\ design = NoDesign /\ loop = "idle" /\ values = [n \in {} |-> Zero]
      /\ initialized = FALSE /\ max = Core!NoCapacity
      /\ signals = Core!Cleared(Core!NoCapacity) /\ start = Core!Cleared(Core!NoCapacity)
      /\ luts = <<>> /\ ffs = <<>> /\ phase = "idle" /\ idx = 0 /\ cycles = 0 /\ overrun = FALSE
  BY DEF ParityInit, SimInit, Core!Init
<1>3. max.signals = 0 /\ max.luts = 0 /\ max.ffs = 0 /\ 0 .. max.signals - 1 = {}
  BY <1>2 DEF Core!NoCapacity
<1>4. signals \in [0 .. max.signals - 1 -> Word] /\ start \in [0 .. max.signals - 1 -> Word]
  BY <1>2, <1>3 DEF Core!Cleared, Core!NoCapacity
<1>5. design.total_nets = 0 /\ design.luts = <<>> /\ design.ffs = <<>> /\ Len(<<>>) = 0
  BY <1>2 DEF NoDesign
<1>6. CoreShape
  <2>1. initialized \in BOOLEAN /\ ~initialized /\ max = IF initialized THEN Size ELSE Core!NoCapacity
    BY <1>2
  <2>2. /\ Len(design.luts) = 0 /\ Len(design.ffs) = 0 /\ Len(luts) = 0 /\ Len(ffs) = 0
        /\ 1 .. Len(design.luts) = {} /\ 1 .. Len(design.ffs) = {}
    BY <1>2, <1>5
  <2> QED
    BY <1>2, <1>3, <1>4, <1>5, <2>1, <2>2 DEF CoreShape
<1>7. CoreControl
  BY <1>2 DEF CoreControl
<1>8. values = Seen
  BY <1>2 DEF Seen
<1>9. CoreFollows
  BY <1>2, <1>8 DEF CoreFollows
<1>10. CoreKept
  BY <1>2, <1>4 DEF CoreKept
<1> QED
  BY <1>1, <1>6, <1>7, <1>9, <1>10 DEF ParityInv

LEMMA StartCoreStep ==
  ASSUME ParityInv, StartCore
  PROVE  CoreShape' /\ CoreControl' /\ CoreFollows'
<1>0. Fits(design)
  <2>1. design = NoDesign
    BY DEF ParityInv, CoreKept, StartCore
  <2>2. design.total_nets = 0 /\ Len(design.luts) = 0 /\ Len(design.ffs) = 0
    BY <2>1 DEF NoDesign
  <2> QED
    BY <2>2, SizeAssumption DEF Fits
<1>1. /\ UNCHANGED simVars /\ phase = "idle" /\ UNCHANGED <<phase, idx, cycles>>
      /\ initialized' = TRUE /\ max' = Size
      /\ signals' = Core!Cleared(Size) /\ start' = signals'
      /\ luts' = <<>> /\ ffs' = <<>> /\ overrun' = FALSE
  BY DEF StartCore, Core!CoreInit
<1>2. design = NoDesign /\ loop = "idle" /\ CoreControl /\ SimSafe
  BY <1>0, <1>1 DEF StartCore, ParityInv, CoreShape, CoreControl, SimLoopInv
<1>3. /\ design' = NoDesign /\ loop' = "idle" /\ values' = values
      /\ design'.total_nets = 0 /\ design'.luts = <<>> /\ design'.ffs = <<>> /\ Len(<<>>) = 0
      /\ DOMAIN values = {} /\ values \in [{} -> Word]
  BY <1>1, <1>2 DEF simVars, NoDesign, SimSafe
<1>4. signals' \in [0 .. max'.signals - 1 -> Word] /\ start' \in [0 .. max'.signals - 1 -> Word]
  BY <1>1, SameOperators DEF Core!Cleared, Zero, Word
<1>5. CoreShape'
  BY <1>1, <1>3, <1>4, SizeAssumption DEF CoreShape
<1>6. CoreControl'
  BY <1>1, <1>2, <1>3 DEF CoreControl
<1>7. values' = [n \in DOMAIN values' |-> signals'[n]]
  BY <1>3
<1>8. CoreFollows'
  BY <1>1, <1>3, <1>7 DEF CoreFollows, Seen
<1> QED
  BY <1>5, <1>6, <1>8

(* load(), and reset(), which loads the design again.                      *)
LEMMA LoadStep ==
  ASSUME ParityInv, initialized, NEW cfg \in Configs, Fits(cfg), Core!LoadConfig(cfg),
         design' = cfg, values' = InitialValues(cfg), loop = "idle", loop' = "idle"
  PROVE  CoreShape' /\ CoreControl' /\ CoreFollows'
<1>1. CoreKept /\ max = Size
  BY DEF ParityInv, CoreKept
<1>2. /\ phase = "idle" /\ phase' = "idle" /\ UNCHANGED <<initialized, max, idx, cycles>>
      /\ luts' = Core!LoadedLuts(cfg) /\ ffs' = Core!LoadedFfs(cfg)
      /\ signals' = [n \in DOMAIN signals |->
                       IF n \in DOMAIN cfg.constants THEN cfg.constants[n] ELSE Zero]
      /\ start' = signals' /\ overrun' = FALSE
  BY SameOperators DEF Core!LoadConfig, Core!memory
<1>3. /\ WellFormed(cfg) /\ Len(cfg.luts) \in Nat /\ Len(cfg.ffs) \in Nat
      /\ cfg.total_nets \in Nat /\ DOMAIN cfg.constants \subseteq Net
      /\ \A n \in DOMAIN cfg.constants : cfg.constants[n] \in Word
  <2>1. WellFormed(cfg)
    BY SimConfigsAssumption
  <2>2. cfg.luts \in Seq(MappedLut) /\ cfg.ffs \in Seq(MappedFf)
    BY <2>1 DEF WellFormed, IsConfig
  <2>3. Len(cfg.luts) \in Nat /\ Len(cfg.ffs) \in Nat
    BY <2>2
  <2> QED
    BY <2>1, <2>3 DEF WellFormed, IsConfig
<1>4. /\ cfg.total_nets <= max.signals /\ Len(cfg.luts) <= max.luts /\ Len(cfg.ffs) <= max.ffs
      /\ max.luts \in Nat /\ max.ffs \in Nat /\ max.signals \in Nat
  BY <1>1, SizeAssumption DEF Fits
<1>5. Core!Taken(cfg.luts, max.luts) = Len(cfg.luts) /\ Core!Taken(cfg.ffs, max.ffs) = Len(cfg.ffs)
  BY <1>3, <1>4 DEF Core!Taken
<1>6. /\ Len(luts') = Len(cfg.luts)
      /\ \A k \in 1..Len(cfg.luts) : luts'[k] = Core!LoadLut(cfg.luts[k])
      /\ Len(ffs') = Len(cfg.ffs) /\ \A k \in 1..Len(cfg.ffs) : ffs'[k] = cfg.ffs[k]
  <2>1. /\ luts' = [k \in 1..Len(cfg.luts) |-> Core!LoadLut(cfg.luts[k])]
        /\ ffs' = [k \in 1..Len(cfg.ffs) |-> cfg.ffs[k]]
    BY <1>2, <1>5 DEF Core!LoadedLuts, Core!LoadedFfs
  <2> QED
    BY <1>3, <2>1
<1>7. DOMAIN signals = 0 .. max.signals - 1
  BY <1>1 DEF CoreKept
<1>8. signals' \in [0 .. max.signals - 1 -> Word]
  BY <1>2, <1>3, <1>7 DEF Zero, Word
<1>9. CoreShape'
  BY <1>1, <1>2, <1>4, <1>6, <1>8 DEF CoreShape, CoreKept
<1>10. CoreControl'
  BY <1>1, <1>2 DEF CoreControl, CoreKept
<1>11. values' = [n \in DOMAIN values' |-> signals'[n]]
  <2>1. values' = [n \in 0 .. cfg.total_nets - 1 |->
                     IF n \in DOMAIN cfg.constants THEN cfg.constants[n] ELSE Zero]
    BY DEF InitialValues
  <2>2. \A n \in 0 .. cfg.total_nets - 1 : n \in DOMAIN signals
    BY <1>3, <1>4, <1>7
  <2> QED
    BY <1>2, <2>1, <2>2
<1>12. CoreFollows'
  BY <1>2, <1>11 DEF CoreFollows, Seen
<1> QED
  BY <1>9, <1>10, <1>12

LEMMA WriteStep ==
  ASSUME ParityInv, Fits(design), NEW net \in 0 .. design.total_nets, NEW w \in InputWords, WriteBoth(net, w)
  PROVE  CoreShape' /\ CoreControl' /\ (Separate(design) => CoreFollows')
<1>1. CoreShape /\ CoreControl /\ SimSafe
  BY DEF ParityInv, SimLoopInv
<1>2. /\ phase = "idle" /\ phase' = "idle" /\ loop = "idle" /\ loop' = "idle"
      /\ UNCHANGED <<initialized, max, luts, ffs, overrun, design, idx, cycles>>
      /\ values' = IF net \in DOMAIN values THEN [values EXCEPT ![net] = w] ELSE values
      /\ signals' = IF net < max.signals THEN [signals EXCEPT ![net] = w] ELSE signals
      /\ start' = signals'
  BY DEF WriteBoth, SimWriteInput, Core!WriteInput, Core!memory, Core!design
<1>3. signals' \in [0 .. max.signals - 1 -> Word]
  BY <1>1, <1>2, SimInputWordsAssumption DEF CoreShape
<1>4. CoreShape'
  BY <1>1, <1>2, <1>3, ShapeFrame
<1>5. CoreControl'
  BY <1>1, <1>2 DEF CoreControl
<1>6. ASSUME Separate(design)
      PROVE  values' = [n \in DOMAIN values' |-> signals'[n]]
  <2>1. values = [n \in DOMAIN values |-> signals[n]]
    BY <1>2, <1>6 DEF ParityInv, CoreFollows, Seen
  <2>2. /\ DOMAIN values = 0 .. design.total_nets - 1 /\ DOMAIN signals = 0 .. max.signals - 1
        /\ DOMAIN values \subseteq DOMAIN signals
    BY <1>1, Domains
  <2>3. signals \in [0 .. max.signals - 1 -> Word] /\ values \in [DOMAIN values -> Word]
    BY <1>1 DEF CoreShape, SimSafe
  <2>4. max.signals \in Nat /\ net \in Nat /\ design.total_nets \in Nat
    BY <1>1, SizeAssumption, DesignWellFormed DEF CoreShape, Core!NoCapacity, WellFormed
  <2>5. DOMAIN values' = DOMAIN values
    BY <1>2, <2>3
  <2>6. \A n \in DOMAIN values : values[n] = signals[n]
    BY <2>1
  <2>7. ASSUME NEW n \in DOMAIN values PROVE values'[n] = signals'[n]
    <3>1. n \in DOMAIN signals /\ n < max.signals
      BY <2>2, <2>4
    <3>2. CASE n = net
      BY <1>2, <2>3, <2>7, <3>1, <3>2
    <3>3. CASE n # net
      <4>1. values'[n] = values[n] /\ signals'[n] = signals[n]
        BY <1>2, <2>3, <2>7, <3>1, <3>3
      <4> QED
        BY <2>6, <4>1
    <3> QED
      BY <3>2, <3>3
  <2>8. values' = [n \in DOMAIN values' |-> values'[n]]
    BY <1>2, <2>3
  <2> QED
    BY <2>5, <2>7, <2>8
<1>7. Separate(design) => CoreFollows'
  BY <1>2, <1>6 DEF CoreFollows, Seen
<1> QED
  BY <1>4, <1>5, <1>7
(* eval_combinational(), clock() and step() begin in both.                 *)
LEMMA BeginStep ==
  ASSUME ParityInv, Fits(design), EvaluateBoth \/ ClockBoth \/ StepBoth
  PROVE  CoreShape' /\ CoreControl' /\ (Separate(design) => CoreFollows')
<1>1. CoreShape /\ CoreControl /\ SimSafe
  BY DEF ParityInv, SimLoopInv
<1>2. PICK which \in {"eval", "clock"}, withEdge \in BOOLEAN :
        /\ withEdge => which = "eval"
        /\ loop = "idle" /\ Start(which, withEdge)
        /\ phase = "idle" /\ Core!Enter(which, Bit(withEdge))
  BY Zenon DEF EvaluateBoth, ClockBoth, StepBoth, EvalCombinational, SimClock, Step, Bit,
     Core!EvaluateCombinational, Core!Clock, Core!RunCycles
<1>3. /\ loop' = which /\ stepping' = withEdge /\ before' = values
      /\ UNCHANGED <<design, values>>
      /\ phase' = which /\ idx' = 0 /\ cycles' = Bit(withEdge) /\ start' = signals
      /\ UNCHANGED <<initialized, max, luts, ffs, overrun, signals>>
  BY <1>2 DEF Start, Core!Enter, Core!memory, Core!design
<1>4. signals' \in [0 .. max.signals - 1 -> Word] /\ start' \in [0 .. max.signals - 1 -> Word]
  BY <1>1, <1>3 DEF CoreShape
<1>5. CoreShape'
  BY <1>1, <1>3, <1>4, ShapeFrame
<1>6. Len(luts) \in Nat /\ Len(ffs) \in Nat
  BY <1>1, Domains DEF CoreShape
<1>7. CoreControl'
  <2>1. \E g \in 0 .. Len(luts) : 0 = 4 * g
    BY <1>6
  <2> QED
    BY <1>2, <1>3, <1>6, <2>1 DEF CoreControl, Bit
<1>8. ASSUME Separate(design) PROVE CoreFollows'
  <2>1. values = [n \in DOMAIN values |-> signals[n]]
    BY <1>2, <1>8 DEF ParityInv, CoreFollows, Seen
  <2>2. before' = [n \in DOMAIN values' |-> signals'[n]]
    BY <1>3, <2>1
  <2> QED
    BY <1>2, <1>3, <2>2, Zenon DEF CoreFollows, Seen
<1> QED
  BY <1>5, <1>7, <1>8

(* Only the simulator moves: the core waits at the beginning of its loop.  *)
LEMMA SimulatorStep ==
  ASSUME ParityInv, Fits(design), SimSafe', SimulatorRuns \/ \E dt \in Durations : AdvanceSimulator(dt)
  PROVE  CoreShape' /\ CoreControl' /\ (Separate(design) => CoreFollows')
<1>1. CoreShape /\ CoreControl /\ SimSafe /\ SimPassInv /\ SimEdgeInv /\ SimFunInv
  BY DEF ParityInv, SimLoopInv
<1>2. /\ UNCHANGED <<initialized, max, signals, luts, ffs, phase, idx, cycles, start, overrun>>
      /\ design' = design
  BY DEF SimulatorRuns, AdvanceSimulator, coreVars, SimCompute, EvalLut, EvalReturns,
         ClockRegister, ClockReturns, Advance, Start
<1>3. signals' \in [0 .. max.signals - 1 -> Word] /\ start' \in [0 .. max.signals - 1 -> Word]
  BY <1>1, <1>2 DEF CoreShape
<1>4. CoreShape'
  BY <1>1, <1>2, <1>3, ShapeFrame
<1>5. loop' # "idle" => loop # "idle"
  BY DEF SimulatorRuns, AdvanceSimulator, SimCompute, EvalLut, EvalReturns,
         ClockRegister, ClockReturns, Advance, Start
<1>6. CoreControl'
  BY <1>1, <1>2, <1>5 DEF CoreControl
<1>7. DOMAIN values' = DOMAIN values
  BY <1>1, <1>2 DEF SimSafe
<1>8. Seen' = Seen /\ SeenStart' = SeenStart
  BY <1>2, <1>7 DEF Seen, SeenStart
<1>9. loop # "idle" => SeenStart = Seen /\ idx = 0
  BY <1>1 DEF CoreControl, Seen, SeenStart
<1>10. Seen \in WordsOver(0 .. design.total_nets - 1)
  BY <1>1, Domains
<1>11. PassAfter(design, Seen)[0] = Seen /\ EdgeAfter(design, Seen)[0] = Seen
  BY <1>1, <1>10, DesignUnfolds
<1>12. ASSUME Separate(design) PROVE CoreFollows'
  <2>0. CoreFollows
    BY <1>12 DEF ParityInv
  <2>1. CASE \E dt \in Durations : AdvanceSimulator(dt)
    <3>1. UNCHANGED <<values, loop, before, stepping>>
      BY <2>1 DEF AdvanceSimulator, Advance
    <3> QED
      BY <1>2, <1>8, <2>0, <3>1 DEF CoreFollows
  <2>2. CASE EvalLut
    <3>1. loop = "eval" /\ UNCHANGED <<loop, before, stepping>>
      BY <2>2 DEF EvalLut
    <3>2. phase = "eval"
      BY <2>0, <3>1 DEF CoreFollows
    <3> QED
      BY <1>2, <1>8, <2>0, <3>1, <3>2 DEF CoreFollows
  <2>3. CASE ClockRegister
    <3>1. loop = "clock" /\ UNCHANGED <<loop, before, stepping>>
      BY <2>3 DEF ClockRegister
    <3>2. phase # "idle"
      BY <1>1, <3>1 DEF CoreControl
    <3> QED
      BY <1>2, <1>8, <2>0, <3>1, <3>2 DEF CoreFollows
  <2>4. CASE EvalReturns
    <3>1. /\ loop = "eval" /\ values' = values /\ before' = values /\ stepping' = stepping
          /\ loop' = IF stepping THEN "clock" ELSE "idle"
      BY <2>4 DEF EvalReturns, Start
    <3>2. phase = "eval" /\ cycles = Bit(stepping) /\ before = Seen
      BY <2>0, <3>1 DEF CoreFollows
    <3>3. next = Len(design.luts)
      BY <1>1, <2>4, PaddedTable DEF EvalReturns, SimSafe, SimPassInv
    <3>4. values = PassValues(design, Seen)
      BY <1>1, <3>1, <3>2, <3>3, CallsAreLastEntries DEF SimFunInv
    <3>5. Seen = PassAfter(design, SeenStart)[idx] /\ SeenStart = Seen
      BY <1>9, <1>11, <3>1
    <3>6. CASE stepping
      BY <1>2, <1>8, <3>1, <3>2, <3>4, <3>6 DEF CoreFollows, Bit
    <3>7. CASE ~stepping
      BY <1>2, <1>8, <3>1, <3>2, <3>4, <3>5, <3>7 DEF CoreFollows, Bit
    <3> QED
      BY <3>6, <3>7
  <2>5. CASE ClockReturns
    <3>1. loop = "clock" /\ loop' = "idle" /\ values' = values
      BY <2>5 DEF ClockReturns, Start
    <3>2. next = Len(design.ffs)
      BY <1>1, <2>5, SimFfBounds DEF ClockReturns, SimSafe, SimEdgeInv
    <3>3. values = EdgeValues(design, before)
      BY <1>1, <3>1, <3>2, CallsAreLastEntries DEF SimFunInv
    <3>4. /\ Seen = PassAfter(design, SeenStart)[idx] /\ SeenStart = Seen
          /\ Seen = EdgeAfter(design, SeenStart)[idx]
      BY <1>9, <1>11, <3>1
    <3>5. CASE stepping
      <4>1. phase = "eval" /\ cycles = 1 /\ before = PassValues(design, Seen)
        BY <2>0, <3>1, <3>5 DEF CoreFollows
      <4> QED
        BY <1>2, <1>8, <3>1, <3>3, <3>4, <4>1 DEF CoreFollows
    <3>6. CASE ~stepping
      <4>1. phase = "clock" /\ before = Seen
        BY <2>0, <3>1, <3>6 DEF CoreFollows
      <4> QED
        BY <1>2, <1>8, <3>1, <3>3, <3>4, <4>1 DEF CoreFollows
    <3> QED
      BY <3>5, <3>6
  <2> QED
    BY <2>1, <2>2, <2>3, <2>4, <2>5 DEF SimulatorRuns, SimCompute
<1> QED
  BY <1>4, <1>6, <1>12
-----------------------------------------------------------------------------
(* Steps of the core *)

(* What a LUT of the core's table computes from s is what the same LUT of  *)
(* the design computes from t, when s and t agree on the inputs it has.    *)
LEMMA LoadedLutOut ==
  ASSUME SimSafe, CoreShape, Separate(design), NEW k \in 1..Len(design.luts), NEW s, NEW t,
         SameInputs(design.luts[k], s, t)
  PROVE  Core!LutOut(luts[k], s) = LutOut(Pad(design.luts[k]), t)
<1>1. luts[k] = Core!LoadLut(design.luts[k]) /\ design.luts[k] \in MappedLut
  BY PaddedTable DEF CoreShape
<1>2. PaddingBlind(design.luts[k])
  BY DEF Separate, AllPaddingBlind
<1>3. Core!LutOut(Core!LoadLut(design.luts[k]), s) = LutOut(Pad(design.luts[k]), t)
  BY <1>1, <1>2, BlindLut, Zenon
<1> QED
  BY <1>1, <1>3

(* The nets a LUT of the design touches have values.                       *)
LEMMA DesignNets ==
  ASSUME SimSafe, NEW k \in 1..Len(design.luts)
  PROVE  /\ design.luts[k].out \in DOMAIN values
         /\ \A i \in 1..Len(design.luts[k].in) : design.luts[k].in[i] \in DOMAIN values
<1>1. design.luts[k].out \in DOMAIN values
  BY SimLutBounds
<1>2. /\ design.total_nets \in Nat
      /\ \A i \in 1..Len(design.luts[k].in) : design.luts[k].in[i] < design.total_nets
  BY DesignWellFormed DEF WellFormed
<1>3. \A i \in 1..Len(design.luts[k].in) : design.luts[k].in[i] \in Nat
  BY PaddedTable DEF MappedLut, Net
<1>4. DOMAIN values = 0 .. design.total_nets - 1
  BY DEF SimSafe
<1>5. ASSUME NEW x \in Nat, x < design.total_nets PROVE x \in DOMAIN values
  BY <1>2, <1>4, <1>5
<1> QED
  BY <1>1, <1>2, <1>3, <1>5

(* A design that fits has no net past signals_: what an iteration finds is *)
(* there, and what it stores is all that changes.                          *)
LEMMA CoreFinds ==
  ASSUME SimSafe, CoreShape, NEW debris
  PROVE  /\ \A n \in DOMAIN values : Core!Found(debris)[n] = signals[n]
         /\ \A k \in 1..Len(design.luts) :
              Core!LutOut(luts[k], Core!Found(debris)) = Core!LutOut(luts[k], signals)
<1> DEFINE found == Core!Found(debris)
<1>1. /\ DOMAIN values = 0 .. design.total_nets - 1 /\ DOMAIN signals = 0 .. max.signals - 1
      /\ DOMAIN values \subseteq DOMAIN signals
  BY Domains
<1>2. \A n \in DOMAIN signals : found[n] = signals[n]
  BY <1>1 DEF Core!Found, Core!Net
<1>3. ASSUME NEW k \in 1..Len(design.luts)
      PROVE  Core!LutOut(luts[k], found) = Core!LutOut(luts[k], signals)
  <2> DEFINE l == design.luts[k]
  <2>1. luts[k].in = [i \in 1..4 |-> IF i <= Len(l.in) THEN l.in[i] ELSE 0]
    <3>1. luts[k] = Core!LoadLut(l)
      BY DEF CoreShape
    <3> QED
      BY <3>1 DEF Core!LoadLut
  <2>2. Len(l.in) \in Nat /\ design.total_nets \in Nat
    BY PaddedTable, DesignWellFormed DEF MappedLut, WellFormed
  <2>3. l.out \in DOMAIN values /\ \A i \in 1..Len(l.in) : l.in[i] \in DOMAIN values
    BY DesignNets
  <2>4. 0 \in DOMAIN values
    BY <1>1, <2>2, <2>3
  <2>5. \A i \in 1..4 : luts[k].in[i] \in DOMAIN signals
    <3> HIDE DEF l
    <3>1. \A i \in 1..4 : i <= Len(l.in) => i \in 1..Len(l.in)
      BY <2>2
    <3> QED
      BY <1>1, <2>1, <2>3, <2>4, <3>1
  <2>6. \A i \in 1..4 : found[luts[k].in[i]] = signals[luts[k].in[i]]
    BY <1>2, <2>5
  <2> HIDE DEF found
  <2> QED
    BY <2>6 DEF Core!LutOut
<1> QED
  BY <1>1, <1>2, <1>3

LEMMA CoreStores ==
  ASSUME SimSafe, CoreShape, NEW to \in SUBSET DOMAIN values, NEW stored, Core!Store(to, stored)
  PROVE  signals' = stored /\ overrun' = FALSE
<1>1. to \subseteq DOMAIN signals
  BY Domains
<1>2. overrun' = FALSE
  BY <1>1 DEF Core!Store, CoreShape
<1> QED
  BY <1>2 DEF Core!Store

(* w differs from the core's values only at outputs of the LUTs of group g *)
(* before the k-th.                                                        *)
WrittenBefore(g, k, w) ==
  \A n \in DOMAIN values :
    (\A j \in 4 * g + 1 .. k - 1 : design.luts[j].out # n) => w[n] = signals[n]

(* One more LUT of a group.  If w is what the simulator has after j LUTs,  *)
(* the k-th LUT's output from the core's values, read before the group was *)
(* written, is its output from w, as w differs from them only at outputs   *)
(* of LUTs before it in the group.                                         *)
LEMMA GroupMember ==
  ASSUME SimSafe, CoreShape, Separate(design),
         NEW g \in 0..Len(design.luts), 4 * g + 4 <= Len(design.luts),
         NEW k \in 4 * g + 1 .. 4 * g + 4, NEW w, WrittenBefore(g, k, w)
  PROVE  Core!LutOut(luts[k], signals) = LutOut(Pad(design.luts[k]), w)
<1>1. Len(design.luts) \in Nat /\ k \in 1..Len(design.luts)
  BY PaddedTable
<1>2. ASSUME NEW i \in 1..4, i <= Len(design.luts[k].in)
      PROVE  signals[design.luts[k].in[i]] = w[design.luts[k].in[i]]
  <2>1. Len(design.luts[k].in) \in Nat
    BY <1>1, PaddedTable DEF MappedLut
  <2>2. i \in 1..Len(design.luts[k].in)
    BY <1>2, <2>1
  <2>3. design.luts[k].in[i] \in DOMAIN values
    BY <1>1, <2>2, DesignNets
  <2>4. ASSUME NEW j \in 4 * g + 1 .. k - 1 PROVE design.luts[j].out # design.luts[k].in[i]
    <3>1. j \in 1..Len(design.luts) /\ j < k /\ j \in 4 * g + 1 .. 4 * g + 4
      BY <1>1
    <3>2. SameBatch(4, Len(design.luts), j, k)
      BY <3>1 DEF SameBatch
    <3> QED
      BY <1>1, <1>2, <2>2, <3>1, <3>2 DEF Separate, NoGroupHazard
  <2> QED
    BY <2>3, <2>4 DEF WrittenBefore
<1>3. SameInputs(design.luts[k], signals, w)
  BY <1>2 DEF SameInputs
<1> QED
  BY <1>1, <1>3, LoadedLutOut, Zenon

(* A step of the simulator changes the output of its LUT only.             *)
LEMMA LutStepWrites ==
  ASSUME SimSafe, NEW k \in 1..Len(design.luts), NEW v \in WordsOver(DOMAIN values)
  PROVE  /\ LutStep(design, k, v) \in WordsOver(DOMAIN values)
         /\ \A n \in DOMAIN values :
              LutStep(design, k, v)[n] = IF n = design.luts[k].out
                                         THEN LutOut(Pad(design.luts[k]), v) ELSE v[n]
<1>1. LutStep(design, k, v) = [v EXCEPT ![design.luts[k].out] = LutOut(Pad(design.luts[k]), v)]
  BY DEF LutStep
<1>2. v \in [DOMAIN values -> Word] /\ LutOut(Pad(design.luts[k]), v) \in Word
  BY LutOutIsWord DEF WordsOver
<1> QED
  BY <1>1, <1>2 DEF WordsOver

(* What the steps of the core's loops do to the nets of a design that fits.*)
BatchEffect ==
  /\ phase = "eval" /\ idx + 3 < Len(luts)
  /\ signals' = [signals EXCEPT ![luts[idx + 1].out] = Core!LutOut(luts[idx + 1], signals),
                                ![luts[idx + 2].out] = Core!LutOut(luts[idx + 2], signals),
                                ![luts[idx + 3].out] = Core!LutOut(luts[idx + 3], signals),
                                ![luts[idx + 4].out] = Core!LutOut(luts[idx + 4], signals)]

RemainderEffect ==
  /\ idx < Len(luts)
  /\ signals' = [signals EXCEPT ![luts[idx + 1].out] = Core!LutOut(luts[idx + 1], signals)]

RegisterEffect ==
  /\ idx < Len(ffs)
  /\ signals' = [signals EXCEPT ![ffs[idx + 1].q] = signals[ffs[idx + 1].d]]

LEMMA TableOutputs ==
  ASSUME SimSafe, CoreShape
  PROVE  /\ \A k \in 1..Len(luts) : luts[k].out \in DOMAIN values /\ luts[k].out \in DOMAIN signals
         /\ Len(luts) = Len(design.luts) /\ Len(luts) \in Nat
         /\ \A k \in 1..Len(ffs) : /\ ffs[k].q \in DOMAIN values /\ ffs[k].q \in DOMAIN signals
                                   /\ ffs[k].d \in DOMAIN values
         /\ Len(ffs) \in Nat
<1>1. \A k \in 1..Len(design.luts) : luts[k].out = design.luts[k].out
  <2>1. \A k \in 1..Len(design.luts) : luts[k] = Core!LoadLut(design.luts[k])
    BY DEF CoreShape
  <2>2. \A l : Core!LoadLut(l).out = l.out
    BY DEF Core!LoadLut
  <2> QED
    BY <2>1, <2>2
<1>2. DOMAIN values \subseteq DOMAIN signals /\ Len(design.luts) \in Nat /\ Len(design.ffs) \in Nat
  BY Domains
<1>3. \A k \in 1..Len(design.luts) : design.luts[k].out \in DOMAIN values
  BY DesignNets
<1>4. \A k \in 1..Len(design.ffs) : ffs[k] = design.ffs[k]
  BY DEF CoreShape
<1> QED
  BY <1>1, <1>2, <1>3, <1>4, SimFfBounds DEF CoreShape

LEMMA BatchHasEffect ==
  ASSUME SimSafe, CoreShape, CoreControl, Core!EvaluateBatch4
  PROVE  BatchEffect /\ overrun' = FALSE
<1> DEFINE lut(k) == luts[idx + k]
           out(k, debris) == Core!LutOut(lut(k), Core!Found(debris))
           two(debris) == Core!Written(Core!Written(signals, lut(1).out, out(1, debris)),
                                       lut(2).out, out(2, debris))
           four(debris) == Core!Written(Core!Written(two(debris), lut(3).out, out(3, debris)),
                                        lut(4).out, out(4, debris))
           to == {lut(k).out : k \in 1..4}
<1>1. PICK debris \in Debris : Core!Store(to, four(debris))
  BY DEF Core!EvaluateBatch4
<1>2. idx \in Nat /\ Len(luts) \in Nat /\ idx + 3 < Len(luts) /\ phase = "eval"
  BY TableOutputs DEF CoreControl, Core!EvaluateBatch4
<1>3. \A k \in 1..4 : idx + k \in 1..Len(luts)
  BY <1>2
<1>4. \A k \in 1..4 : lut(k).out \in DOMAIN values /\ lut(k).out \in DOMAIN signals
  BY <1>3, TableOutputs
<1>5. to \in SUBSET DOMAIN values
  BY <1>4
<1>6. signals' = four(debris) /\ overrun' = FALSE
  <2> HIDE DEF four, to
  <2> QED
    BY <1>1, <1>5, CoreStores
<1>7. \A k \in 1..4 : out(k, debris) = Core!LutOut(lut(k), signals)
  BY <1>3, TableOutputs, CoreFinds
<1>8. signals' = [signals EXCEPT ![lut(1).out] = out(1, debris), ![lut(2).out] = out(2, debris),
                                 ![lut(3).out] = out(3, debris), ![lut(4).out] = out(4, debris)]
  <2>1. signals = [n \in DOMAIN signals |-> signals[n]]
    BY DEF CoreShape
  <2> HIDE DEF lut, out
  <2> QED
    BY <1>4, <1>6, <2>1 DEF Core!Written
<1>9. /\ out(1, debris) = Core!LutOut(lut(1), signals) /\ out(2, debris) = Core!LutOut(lut(2), signals)
      /\ out(3, debris) = Core!LutOut(lut(3), signals) /\ out(4, debris) = Core!LutOut(lut(4), signals)
  BY <1>7
<1>10. signals' = [signals EXCEPT ![lut(1).out] = Core!LutOut(lut(1), signals),
                                  ![lut(2).out] = Core!LutOut(lut(2), signals),
                                  ![lut(3).out] = Core!LutOut(lut(3), signals),
                                  ![lut(4).out] = Core!LutOut(lut(4), signals)]
  <2> HIDE DEF lut, out
  <2> QED
    BY <1>8, <1>9
<1> QED
  BY <1>2, <1>6, <1>10 DEF BatchEffect

LEMMA RemainderHasEffect ==
  ASSUME SimSafe, CoreShape, CoreControl, Core!EvaluateRemainder
  PROVE  RemainderEffect /\ overrun' = FALSE
<1> DEFINE lut == luts[idx + 1]
           stored(debris) == Core!Written(signals, lut.out, Core!LutOut(lut, Core!Found(debris)))
<1>1. PICK debris \in Debris : Core!Store({lut.out}, stored(debris))
  BY DEF Core!EvaluateRemainder, Core!EvaluateOne
<1>2. idx < Len(luts) /\ idx + 1 \in 1..Len(luts)
  BY TableOutputs DEF CoreControl, Core!EvaluateRemainder, Core!EvaluateOne
<1>3. lut.out \in DOMAIN values /\ lut.out \in DOMAIN signals
  BY <1>2, TableOutputs
<1>4. signals' = stored(debris) /\ overrun' = FALSE
  <2> HIDE DEF lut, stored
  <2> QED
    BY <1>1, <1>3, CoreStores
<1>5. Core!LutOut(lut, Core!Found(debris)) = Core!LutOut(lut, signals)
  BY <1>2, TableOutputs, CoreFinds
<1> QED
  BY <1>2, <1>3, <1>4, <1>5 DEF RemainderEffect, Core!Written

LEMMA RegisterHasEffect ==
  ASSUME SimSafe, CoreShape, CoreControl, Core!ClockFf
  PROVE  RegisterEffect /\ overrun' = FALSE
<1> DEFINE ff == ffs[idx + 1]
           stored(debris) == Core!Written(signals, ff.q, Core!Found(debris)[ff.d])
<1>1. PICK debris \in Debris : Core!Store({ff.q}, stored(debris))
  BY DEF Core!ClockFf
<1>2. idx < Len(ffs) /\ idx + 1 \in 1..Len(ffs)
  BY TableOutputs DEF CoreControl, Core!ClockFf
<1>3. ff.q \in DOMAIN values /\ ff.q \in DOMAIN signals /\ ff.d \in DOMAIN values
  BY <1>2, TableOutputs
<1>4. signals' = stored(debris) /\ overrun' = FALSE
  <2> HIDE DEF ff, stored
  <2> QED
    BY <1>1, <1>3, CoreStores
<1>5. Core!Found(debris)[ff.d] = signals[ff.d]
  BY <1>3, CoreFinds
<1> QED
  BY <1>2, <1>3, <1>4, <1>5 DEF RegisterEffect, Core!Written

(* A group of four is four steps of the simulator.                         *)
LEMMA GroupIsFourSteps ==
  ASSUME SimSafe, CoreShape, CoreControl, Separate(design), BatchEffect
  PROVE  [n \in DOMAIN values |-> signals'[n]] =
           LutStep(design, idx + 4, LutStep(design, idx + 3,
             LutStep(design, idx + 2, LutStep(design, idx + 1, Seen))))
<1> DEFINE D == DOMAIN values
           o(k) == design.luts[k].out
           x(k) == Core!LutOut(luts[k], signals)
           v1 == LutStep(design, idx + 1, Seen)
           v2 == LutStep(design, idx + 2, v1)
           v3 == LutStep(design, idx + 3, v2)
           v4 == LutStep(design, idx + 4, v3)
<1>1. /\ phase = "eval" /\ Len(luts) = Len(design.luts) /\ Len(design.luts) \in Nat
      /\ idx \in Nat /\ idx + 3 < Len(luts)
  BY Domains DEF BatchEffect, CoreControl, CoreShape
<1>2. PICK g \in 0..Len(design.luts) : idx = 4 * g
  BY <1>1 DEF CoreControl
<1>3. 4 * g + 4 <= Len(design.luts)
  BY <1>1, <1>2
<1>4. /\ idx + 1 \in 1..Len(design.luts) /\ idx + 2 \in 1..Len(design.luts)
      /\ idx + 3 \in 1..Len(design.luts) /\ idx + 4 \in 1..Len(design.luts)
      /\ 4 * g + 1 .. (idx + 1) - 1 = {} /\ 4 * g + 1 .. (idx + 2) - 1 = {idx + 1}
      /\ 4 * g + 1 .. (idx + 3) - 1 = {idx + 1, idx + 2}
      /\ 4 * g + 1 .. (idx + 4) - 1 = {idx + 1, idx + 2, idx + 3}
  BY <1>1, <1>2
<1>5. \A k \in {idx + 1, idx + 2, idx + 3, idx + 4} : k \in 4 * g + 1 .. 4 * g + 4
  BY <1>1, <1>2
<1>6. D = 0 .. design.total_nets - 1 /\ Seen \in WordsOver(D) /\ \A n \in D : Seen[n] = signals[n]
  BY Domains DEF Seen
<1> HIDE DEF D
<1>7. v1 \in WordsOver(D) /\ \A n \in D : v1[n] = IF n = o(idx + 1) THEN x(idx + 1) ELSE signals[n]
  <2>1. WrittenBefore(g, idx + 1, Seen)
    BY <1>4, <1>6 DEF WrittenBefore, D
  <2>2. x(idx + 1) = LutOut(Pad(design.luts[idx + 1]), Seen)
    BY <1>3, <1>5, <2>1, GroupMember
  <2> QED
    BY <1>4, <1>6, <2>2, LutStepWrites, SMTT(30) DEF D
<1> HIDE DEF v1
<1>8. v2 \in WordsOver(D) /\ \A n \in D : v2[n] = IF n = o(idx + 2) THEN x(idx + 2) ELSE v1[n]
  <2>1. \A n \in D : o(idx + 1) # n => v1[n] = signals[n]
    BY <1>7
  <2>2. WrittenBefore(g, idx + 2, v1)
    BY <1>4, <2>1 DEF WrittenBefore, D
  <2>3. x(idx + 2) = LutOut(Pad(design.luts[idx + 2]), v1)
    BY <1>3, <1>5, <2>2, GroupMember
  <2> QED
    BY <1>4, <1>7, <2>3, LutStepWrites DEF D
<1> HIDE DEF v2
<1>9. v3 \in WordsOver(D) /\ \A n \in D : v3[n] = IF n = o(idx + 3) THEN x(idx + 3) ELSE v2[n]
  <2>1. \A n \in D : o(idx + 1) # n /\ o(idx + 2) # n => v2[n] = signals[n]
    BY <1>7, <1>8
  <2>2. WrittenBefore(g, idx + 3, v2)
    BY <1>4, <2>1 DEF WrittenBefore, D
  <2>3. x(idx + 3) = LutOut(Pad(design.luts[idx + 3]), v2)
    BY <1>3, <1>5, <2>2, GroupMember
  <2> QED
    BY <1>4, <1>8, <2>3, LutStepWrites, SMTT(30) DEF D
<1> HIDE DEF v3
<1>10. v4 \in WordsOver(D) /\ \A n \in D : v4[n] = IF n = o(idx + 4) THEN x(idx + 4) ELSE v3[n]
  <2>1. \A n \in D : o(idx + 1) # n /\ o(idx + 2) # n /\ o(idx + 3) # n => v3[n] = signals[n]
    BY <1>7, <1>8, <1>9
  <2>2. WrittenBefore(g, idx + 4, v3)
    BY <1>4, <2>1 DEF WrittenBefore, D
  <2>3. x(idx + 4) = LutOut(Pad(design.luts[idx + 4]), v3)
    BY <1>3, <1>5, <2>2, GroupMember
  <2> QED
    BY <1>4, <1>9, <2>3, LutStepWrites DEF D
<1> HIDE DEF v4
<1>11. /\ luts[idx + 1].out = o(idx + 1) /\ luts[idx + 2].out = o(idx + 2)
       /\ luts[idx + 3].out = o(idx + 3) /\ luts[idx + 4].out = o(idx + 4)
  <2>1. \A k \in 1..Len(design.luts) : luts[k] = Core!LoadLut(design.luts[k])
    BY DEF CoreShape
  <2>2. \A l : Core!LoadLut(l).out = l.out
    BY DEF Core!LoadLut
  <2> QED
    BY <1>4, <2>1, <2>2
<1>12. signals' = [signals EXCEPT ![o(idx + 1)] = x(idx + 1), ![o(idx + 2)] = x(idx + 2),
                                  ![o(idx + 3)] = x(idx + 3), ![o(idx + 4)] = x(idx + 4)]
  BY <1>11 DEF BatchEffect
<1>13. D \subseteq DOMAIN signals /\ signals \in [DOMAIN signals -> Word]
  BY Domains DEF D, CoreShape
<1> HIDE DEF o, x
<1>14. ASSUME NEW n \in D PROVE signals'[n] = v4[n]
  <2>1. signals'[n] = IF n = o(idx + 4) THEN x(idx + 4)
                      ELSE IF n = o(idx + 3) THEN x(idx + 3)
                      ELSE IF n = o(idx + 2) THEN x(idx + 2)
                      ELSE IF n = o(idx + 1) THEN x(idx + 1) ELSE signals[n]
    BY <1>12, <1>13
  <2> QED
    BY <1>7, <1>8, <1>9, <1>10, <2>1
<1>15. v4 = [n \in D |-> v4[n]]
  BY <1>10 DEF WordsOver
<1>16. [n \in D |-> signals'[n]] = v4
  BY <1>14, <1>15
<1> QED
  BY <1>16 DEF D, v1, v2, v3, v4
(* The remainder goes one LUT at a time, and an edge one register.         *)
LEMMA RemainderIsOneStep ==
  ASSUME SimSafe, CoreShape, CoreControl, Separate(design), RemainderEffect
  PROVE  [n \in DOMAIN values |-> signals'[n]] = LutStep(design, idx + 1, Seen)
<1> DEFINE l == design.luts[idx + 1]
<1>1. Len(luts) = Len(design.luts) /\ Len(design.luts) \in Nat /\ idx + 1 \in 1..Len(design.luts)
  BY Domains DEF RemainderEffect, CoreControl, CoreShape
<1>2. /\ DOMAIN values \subseteq DOMAIN signals /\ signals \in [DOMAIN signals -> Word]
      /\ Seen \in WordsOver(DOMAIN values) /\ \A n \in DOMAIN values : Seen[n] = signals[n]
  BY Domains DEF CoreShape, Seen
<1>3. luts[idx + 1] = Core!LoadLut(l)
  BY <1>1 DEF CoreShape
<1>4. luts[idx + 1].out = l.out
  BY <1>3 DEF Core!LoadLut
<1>5. SameInputs(l, signals, Seen)
  <2>1. Len(l.in) \in Nat
    BY <1>1, PaddedTable DEF MappedLut
  <2>2. \A i \in 1..4 : i <= Len(l.in) => l.in[i] \in DOMAIN values
    BY <1>1, <2>1, DesignNets
  <2> QED
    BY <1>2, <2>2 DEF SameInputs
<1>6. Core!LutOut(luts[idx + 1], signals) = LutOut(Pad(l), Seen)
  BY <1>1, <1>5, LoadedLutOut, Zenon
<1>7. signals' = [signals EXCEPT ![l.out] = LutOut(Pad(l), Seen)]
  BY <1>4, <1>6 DEF RemainderEffect
<1>8. LutStep(design, idx + 1, Seen) = [Seen EXCEPT ![l.out] = LutOut(Pad(l), Seen)]
  BY DEF LutStep
<1>9. Seen \in [DOMAIN values -> Word]
  BY <1>2 DEF WordsOver
<1> HIDE DEF l
<1> QED
  BY <1>2, <1>7, <1>8, <1>9

LEMMA RegisterIsOneStep ==
  ASSUME SimSafe, CoreShape, CoreControl, RegisterEffect
  PROVE  [n \in DOMAIN values |-> signals'[n]] = FfStep(design, idx + 1, Seen)
<1> DEFINE f == design.ffs[idx + 1]
<1>1. Len(ffs) = Len(design.ffs) /\ Len(design.ffs) \in Nat /\ idx + 1 \in 1..Len(design.ffs)
  BY Domains DEF RegisterEffect, CoreControl, CoreShape
<1>2. /\ DOMAIN values \subseteq DOMAIN signals /\ signals \in [DOMAIN signals -> Word]
      /\ Seen \in WordsOver(DOMAIN values) /\ \A n \in DOMAIN values : Seen[n] = signals[n]
  BY Domains DEF CoreShape, Seen
<1>3. ffs[idx + 1] = f /\ f.d \in DOMAIN values
  BY <1>1, SimFfBounds DEF CoreShape
<1>4. signals' = [signals EXCEPT ![f.q] = Seen[f.d]]
  BY <1>2, <1>3 DEF RegisterEffect
<1>5. FfStep(design, idx + 1, Seen) = [Seen EXCEPT ![f.q] = Seen[f.d]]
  BY DEF FfStep
<1>6. Seen \in [DOMAIN values -> Word]
  BY <1>2 DEF WordsOver
<1> HIDE DEF f
<1> QED
  BY <1>2, <1>4, <1>5, <1>6

(* The loops of the core write words, inside signals_.                     *)
LEMMA CoreWritesWords ==
  ASSUME SimSafe, CoreShape, CoreControl, Core!Compute
  PROVE  /\ signals' \in [0 .. max.signals - 1 -> Word]
         /\ start' \in [0 .. max.signals - 1 -> Word]
         /\ UNCHANGED overrun
<1>1. /\ signals \in [0 .. max.signals - 1 -> Word] /\ start \in [0 .. max.signals - 1 -> Word]
      /\ \A l, s : Core!LutOut(l, s) \in Word
  BY SameOperators, LutOutIsWord DEF CoreShape
<1>2. CASE Core!EvaluateBatch4
  <2>1. BatchEffect /\ overrun' = FALSE /\ start' = start
    BY <1>2, BatchHasEffect DEF Core!EvaluateBatch4
  <2> DEFINE w(k) == Core!LutOut(luts[idx + k], signals)
  <2>2. w(1) \in Word /\ w(2) \in Word /\ w(3) \in Word /\ w(4) \in Word
    BY <1>1
  <2>3. signals' = [signals EXCEPT ![luts[idx + 1].out] = w(1), ![luts[idx + 2].out] = w(2),
                                   ![luts[idx + 3].out] = w(3), ![luts[idx + 4].out] = w(4)]
    BY <2>1 DEF BatchEffect
  <2> HIDE DEF w
  <2>4. signals' \in [0 .. max.signals - 1 -> Word]
    BY <1>1, <2>2, <2>3
  <2> QED
    BY <1>1, <2>1, <2>4 DEF CoreShape
<1>3. CASE Core!EvaluateRemainder
  <2>1. RemainderEffect /\ overrun' = FALSE /\ start' = start
    BY <1>3, RemainderHasEffect DEF Core!EvaluateRemainder, Core!EvaluateOne
  <2> QED
    BY <1>1, <2>1 DEF RemainderEffect, CoreShape
<1>4. CASE Core!EvaluateDone \/ Core!ClockDone
  BY <1>1, <1>4 DEF Core!EvaluateDone, Core!ClockDone, Core!Enter, Core!design
<1>5. CASE Core!ClockFf
  <2>1. RegisterEffect /\ overrun' = FALSE /\ start' = start
    BY <1>5, RegisterHasEffect DEF Core!ClockFf
  <2>2. idx + 1 \in 1..Len(ffs)
    BY <2>1, TableOutputs DEF RegisterEffect, CoreControl
  <2>3. ffs[idx + 1].d \in 0 .. max.signals - 1
    BY <2>2, TableOutputs, Domains
  <2> QED
    BY <1>1, <2>1, <2>3 DEF RegisterEffect, CoreShape
<1> QED
  BY <1>2, <1>3, <1>4, <1>5 DEF Core!Compute

LEMMA CoreStep ==
  ASSUME ParityInv, Fits(design), CoreRuns
  PROVE  CoreShape' /\ CoreControl' /\ (Separate(design) => CoreFollows')
<1>1. CoreShape /\ CoreControl /\ SimSafe /\ Core!Compute
  BY DEF ParityInv, SimLoopInv, CoreRuns
<1>2. /\ loop = "idle" /\ UNCHANGED <<design, values, loop>>
      /\ UNCHANGED <<initialized, max, luts, ffs>>
  BY <1>1 DEF CoreRuns, simVars, Core!Compute, Core!EvaluateBatch4, Core!EvaluateRemainder,
     Core!EvaluateOne, Core!EvaluateDone, Core!ClockFf, Core!ClockDone, Core!Enter,
     Core!memory, Core!design
<1>3. CoreShape'
  BY <1>1, <1>2, CoreWritesWords, ShapeFrame
<1>4. /\ idx \in Nat /\ cycles \in {0, 1}
      /\ Len(luts) = Len(design.luts) /\ Len(design.luts) \in Nat
      /\ Len(ffs) = Len(design.ffs) /\ Len(design.ffs) \in Nat
  BY <1>1, Domains DEF CoreControl, CoreShape
<1>5. ASSUME UNCHANGED start PROVE SeenStart' = SeenStart
  BY <1>2, <1>5 DEF SeenStart
<1>6. /\ Seen' = [n \in DOMAIN values |-> signals'[n]]
      /\ SeenStart' = [n \in DOMAIN values |-> start'[n]]
  BY <1>2 DEF Seen, SeenStart
<1>7. Seen \in WordsOver(0 .. design.total_nets - 1) /\ SeenStart \in WordsOver(0 .. design.total_nets - 1)
  BY <1>1, Domains
<1>8. /\ \A k \in 1 .. Len(design.luts) :
           PassAfter(design, SeenStart)[k] = LutStep(design, k, PassAfter(design, SeenStart)[k - 1])
      /\ \A k \in 1 .. Len(design.ffs) :
           EdgeAfter(design, SeenStart)[k] = FfStep(design, k, EdgeAfter(design, SeenStart)[k - 1])
      /\ EdgeAfter(design, Seen)[0] = Seen
  BY <1>1, <1>7, DesignUnfolds, Zenon
<1>9. Separate(design) => CoreFollows
  BY DEF ParityInv
<1>10. CASE Core!EvaluateBatch4
  <2>1. phase = "eval" /\ idx' = idx + 4 /\ UNCHANGED <<phase, cycles, start>> /\ idx + 3 < Len(luts)
    BY <1>10 DEF Core!EvaluateBatch4
  <2>2. PICK g \in 0 .. Len(luts) : idx = 4 * g
    BY <1>1, <2>1 DEF CoreControl
  <2>3. idx' = 4 * (g + 1) /\ g + 1 \in 0 .. Len(luts) /\ idx' <= Len(luts) /\ idx' \in Nat
    BY <1>4, <2>1, <2>2
  <2>4. CoreControl'
    BY <1>1, <1>2, <2>1, <2>3 DEF CoreControl
  <2>5. ASSUME Separate(design) PROVE CoreFollows'
    <3>1. Seen = PassAfter(design, SeenStart)[idx]
      BY <1>2, <1>9, <2>1, <2>5 DEF CoreFollows
    <3>2. Seen' = LutStep(design, idx + 4, LutStep(design, idx + 3,
                    LutStep(design, idx + 2, LutStep(design, idx + 1, Seen))))
      BY <1>1, <1>6, <1>10, <2>5, BatchHasEffect, GroupIsFourSteps
    <3>3. /\ idx + 1 \in 1..Len(design.luts) /\ (idx + 1) - 1 = idx
          /\ idx + 2 \in 1..Len(design.luts) /\ (idx + 2) - 1 = idx + 1
          /\ idx + 3 \in 1..Len(design.luts) /\ (idx + 3) - 1 = idx + 2
          /\ idx + 4 \in 1..Len(design.luts) /\ (idx + 4) - 1 = idx + 3
      BY <1>4, <2>1
    <3>4. Seen' = PassAfter(design, SeenStart)[idx + 4]
      BY <1>8, <3>1, <3>2, <3>3
    <3> QED
      BY <1>2, <1>5, <1>9, <2>1, <2>5, <3>4 DEF CoreFollows
  <2> QED
    BY <1>3, <2>4, <2>5
<1>11. CASE Core!EvaluateRemainder
  <2>1. /\ phase = "eval" /\ idx' = idx + 1 /\ UNCHANGED <<phase, cycles, start>>
        /\ ~(idx + 3 < Len(luts)) /\ idx < Len(luts)
    BY <1>11 DEF Core!EvaluateRemainder, Core!EvaluateOne
  <2>2. CoreControl'
    BY <1>1, <1>2, <1>4, <2>1 DEF CoreControl
  <2>3. ASSUME Separate(design) PROVE CoreFollows'
    <3>1. Seen = PassAfter(design, SeenStart)[idx]
      BY <1>2, <1>9, <2>1, <2>3 DEF CoreFollows
    <3>2. Seen' = LutStep(design, idx + 1, Seen)
      BY <1>1, <1>6, <1>11, <2>3, RemainderHasEffect, RemainderIsOneStep
    <3>3. idx + 1 \in 1..Len(design.luts) /\ (idx + 1) - 1 = idx
      BY <1>4, <2>1
    <3>4. Seen' = PassAfter(design, SeenStart)[idx + 1]
      BY <1>8, <3>1, <3>2, <3>3
    <3> QED
      BY <1>2, <1>5, <1>9, <2>1, <2>3, <3>4 DEF CoreFollows
  <2> QED
    BY <1>3, <2>2, <2>3
<1>12. CASE Core!EvaluateDone
  <2>1. /\ phase = "eval" /\ ~(idx < Len(luts)) /\ idx' = 0 /\ cycles' = cycles
        /\ phase' = (IF cycles = 0 THEN "idle" ELSE "clock")
        /\ start' = signals /\ signals' = signals
    BY <1>12 DEF Core!EvaluateDone, Core!Enter
  <2>2. CoreControl'
    BY <1>1, <1>2, <1>4, <2>1 DEF CoreControl
  <2>3. ASSUME Separate(design) PROVE CoreFollows'
    <3>1. /\ Seen = PassAfter(design, SeenStart)[idx]
          /\ values = IF cycles = 0 THEN PassValues(design, SeenStart)
                      ELSE EdgeValues(design, PassValues(design, SeenStart))
      BY <1>2, <1>9, <2>1, <2>3 DEF CoreFollows
    <3>2. idx = Len(design.luts)
      BY <1>1, <1>4, <2>1 DEF CoreControl
    <3>3. Seen = PassValues(design, SeenStart)
      BY <3>1, <3>2, CallsAreLastEntries
    <3>4. Seen' = Seen /\ SeenStart' = Seen
      BY <1>6, <2>1 DEF Seen
    <3> QED
      BY <1>2, <1>4, <1>8, <2>1, <3>1, <3>3, <3>4 DEF CoreFollows
  <2> QED
    BY <1>3, <2>2, <2>3
<1>13. CASE Core!ClockFf
  <2>1. phase = "clock" /\ idx' = idx + 1 /\ UNCHANGED <<phase, cycles, start>> /\ idx < Len(ffs)
    BY <1>13 DEF Core!ClockFf
  <2>2. CoreControl'
    BY <1>1, <1>2, <1>4, <2>1 DEF CoreControl
  <2>3. ASSUME Separate(design) PROVE CoreFollows'
    <3>1. Seen = EdgeAfter(design, SeenStart)[idx]
      BY <1>2, <1>9, <2>1, <2>3 DEF CoreFollows
    <3>2. Seen' = FfStep(design, idx + 1, Seen)
      BY <1>1, <1>6, <1>13, RegisterHasEffect, RegisterIsOneStep
    <3>3. idx + 1 \in 1..Len(design.ffs) /\ (idx + 1) - 1 = idx
      BY <1>4, <2>1
    <3>4. Seen' = EdgeAfter(design, SeenStart)[idx + 1]
      BY <1>8, <3>1, <3>2, <3>3
    <3> QED
      BY <1>2, <1>5, <1>9, <2>1, <2>3, <3>4 DEF CoreFollows
  <2> QED
    BY <1>3, <2>2, <2>3
<1>14. CASE Core!ClockDone
  <2>1. phase = "clock" /\ ~(idx < Len(ffs)) /\ phase' = "idle" /\ idx' = 0 /\ cycles' = 0
        /\ signals' = signals
    BY <1>4, <1>14 DEF Core!ClockDone, Core!Enter
  <2>2. CoreControl'
    BY <1>1, <1>2, <1>4, <2>1 DEF CoreControl
  <2>3. ASSUME Separate(design) PROVE CoreFollows'
    <3>1. Seen = EdgeAfter(design, SeenStart)[idx] /\ values = EdgeValues(design, SeenStart)
      BY <1>2, <1>9, <2>1, <2>3 DEF CoreFollows
    <3>2. idx = Len(design.ffs)
      BY <1>1, <1>4, <2>1 DEF CoreControl
    <3>3. values = Seen /\ Seen' = Seen
      BY <1>6, <2>1, <3>1, <3>2, CallsAreLastEntries DEF Seen
    <3> QED
      BY <1>2, <2>1, <3>3 DEF CoreFollows
  <2> QED
    BY <1>3, <2>2, <2>3
<1> QED
  BY <1>1, <1>10, <1>11, <1>12, <1>13, <1>14 DEF Core!Compute

-----------------------------------------------------------------------------

(* No step of either changes what the core keeps.                          *)
LEMMA KeptStep ==
  ASSUME CoreKept, ParityNext \/ UNCHANGED parityVars
  PROVE  CoreKept'
<1>1. CASE StartCore
  <2>1. /\ initialized' = TRUE /\ max' = Size /\ DOMAIN signals' = 0 .. max'.signals - 1
        /\ UNCHANGED <<idx, cycles>>
    BY <1>1 DEF StartCore, Core!CoreInit, Core!Cleared
  <2> QED
    BY <2>1 DEF CoreKept
<1>2. ASSUME NEW cfg, Core!LoadConfig(cfg), initialized PROVE CoreKept'
  BY <1>2 DEF Core!LoadConfig, Core!memory, CoreKept
<1>3. ASSUME NEW net, NEW w, WriteBoth(net, w) PROVE CoreKept'
  BY <1>3 DEF WriteBoth, Core!WriteInput, Core!memory, CoreKept
<1>4. CASE EvaluateBoth \/ ClockBoth \/ StepBoth
  BY <1>4 DEF EvaluateBoth, ClockBoth, StepBoth, Core!EvaluateCombinational, Core!Clock,
     Core!RunCycles, Core!Enter, Core!memory, CoreKept
<1>5. CASE SimulatorRuns \/ \E dt \in Durations : AdvanceSimulator(dt)
  <2>1. UNCHANGED <<initialized, max, signals, idx, cycles, design>>
    BY <1>5 DEF SimulatorRuns, AdvanceSimulator, coreVars, SimCompute, EvalLut, EvalReturns,
       ClockRegister, ClockReturns, Advance, Start
  <2> QED
    BY <2>1 DEF CoreKept
<1>6. CASE CoreRuns
  <2>1. UNCHANGED design
    BY <1>6 DEF CoreRuns, simVars
  <2>2. CASE Core!EvaluateDone \/ Core!ClockDone
    BY <2>1, <2>2 DEF Core!EvaluateDone, Core!ClockDone, Core!Enter, Core!memory, CoreKept
  <2>3. CASE Core!EvaluateBatch4 \/ Core!EvaluateRemainder \/ Core!ClockFf
    <3>1. UNCHANGED <<initialized, max, cycles>> /\ idx' \in Nat
      BY <2>3 DEF Core!EvaluateBatch4, Core!EvaluateRemainder, Core!EvaluateOne, Core!ClockFf,
         Core!memory, CoreKept
    <3>2. DOMAIN signals' = DOMAIN signals
      <4>1. \A nets, n, w : DOMAIN Core!Written(nets, n, w) = DOMAIN nets
        BY DEF Core!Written
      <4>2. \A to, stored : Core!Store(to, stored) /\ DOMAIN stored = DOMAIN signals
                               => DOMAIN signals' = DOMAIN signals
        BY DEF Core!Store
      <4>3. CASE Core!EvaluateBatch4
        <5> DEFINE lut(k) == luts[idx + k]
                   out(k, debris) == Core!LutOut(lut(k), Core!Found(debris))
                   two(debris) == Core!Written(Core!Written(signals, lut(1).out, out(1, debris)),
                                               lut(2).out, out(2, debris))
                   four(debris) ==
                     Core!Written(Core!Written(two(debris), lut(3).out, out(3, debris)),
                                  lut(4).out, out(4, debris))
        <5>1. PICK debris \in Debris : Core!Store({lut(k).out : k \in 1..4}, four(debris))
          BY <4>3 DEF Core!EvaluateBatch4
        <5>2. DOMAIN four(debris) = DOMAIN signals
          <6> HIDE DEF lut, out
          <6> QED
            BY <4>1
        <5> HIDE DEF lut, four
        <5> QED
          BY <4>2, <5>1, <5>2
      <4>4. CASE Core!EvaluateRemainder
        BY <4>1, <4>2, <4>4 DEF Core!EvaluateRemainder, Core!EvaluateOne
      <4>5. CASE Core!ClockFf
        BY <4>1, <4>2, <4>5 DEF Core!ClockFf
      <4> QED
        BY <2>3, <4>3, <4>4, <4>5
    <3> QED
      BY <2>1, <3>1, <3>2 DEF CoreKept
  <2> QED
    BY <1>6, <2>2, <2>3 DEF CoreRuns, Core!Compute
<1>7. CASE UNCHANGED parityVars
  BY <1>7 DEF parityVars, simVars, coreVars, CoreKept
<1> QED
  BY <1>1, <1>2, <1>3, <1>4, <1>5, <1>6, <1>7 DEF ParityNext, LoadBoth, ResetBoth

LEMMA ParityNextInv == ParityInv /\ [ParityNext]_parityVars => ParityInv'
<1> SUFFICES ASSUME ParityInv, ParityNext \/ UNCHANGED parityVars PROVE ParityInv'
  OBVIOUS
<1>1. SimLoopInv' /\ SimFunInv'
  BY ParityIsSimulator, SimNextLoop, SimNextFun DEF ParityInv
<1>2. SimSafe' /\ SimSafe /\ CoreKept'
  BY <1>1, KeptStep DEF SimLoopInv, ParityInv
<1> SUFFICES ASSUME Fits(design')
             PROVE  CoreShape' /\ CoreControl' /\ (Separate(design') => CoreFollows')
  BY <1>1, <1>2, Zenon DEF ParityInv, Separate, NoGroupHazard, AllPaddingBlind, Fits
<1>3. CASE StartCore
  BY <1>3, StartCoreStep
<1>4. ASSUME NEW cfg \in Configs, LoadBoth(cfg) PROVE CoreShape' /\ CoreControl' /\ CoreFollows'
  <2>1. design' = cfg /\ Fits(cfg)
    BY <1>4 DEF LoadBoth, Load
  <2> QED
    BY <1>4, <2>1, LoadStep DEF LoadBoth, Load
<1>5. CASE ResetBoth
  <2>1. /\ initialized /\ Core!LoadConfig(design) /\ design' = design /\ design \in Configs
        /\ values' = InitialValues(design) /\ loop = "idle" /\ loop' = "idle"
    BY <1>2, <1>5 DEF ResetBoth, SimReset, SimSafe
  <2> QED
    BY <2>1, LoadStep
<1>6. ASSUME NEW net \in 0 .. design.total_nets, NEW w \in InputWords, WriteBoth(net, w)
      PROVE  CoreShape' /\ CoreControl' /\ (Separate(design') => CoreFollows')
  <2>1. design' = design
    BY <1>6 DEF WriteBoth, SimWriteInput
  <2> QED
    BY <1>6, <2>1, WriteStep
<1>7. CASE EvaluateBoth \/ ClockBoth \/ StepBoth
  <2>1. design' = design
    BY <1>7 DEF EvaluateBoth, ClockBoth, StepBoth, EvalCombinational, SimClock, Step, Start
  <2> QED
    BY <1>7, <2>1, BeginStep
<1>8. CASE SimulatorRuns \/ \E dt \in Durations : AdvanceSimulator(dt)
  <2>1. design' = design
    BY <1>8 DEF SimulatorRuns, AdvanceSimulator, SimCompute, EvalLut, EvalReturns, ClockRegister,
       ClockReturns, Advance, Start
  <2> QED
    BY <1>2, <1>8, <2>1, SimulatorStep
<1>9. CASE CoreRuns
  <2>1. design' = design
    BY <1>9 DEF CoreRuns, simVars
  <2> QED
    BY <1>9, <2>1, CoreStep
<1>10. CASE UNCHANGED parityVars
  <2>1. design' = design
    BY <1>10 DEF parityVars, simVars
  <2>2. CoreShape /\ CoreControl /\ (Separate(design) => CoreFollows)
    BY <2>1 DEF ParityInv
  <2> QED
    BY <1>10, <2>1, <2>2 DEF CoreShape, CoreControl, CoreFollows, Seen, SeenStart,
       parityVars, simVars, coreVars
<1> QED
  BY <1>3, <1>4, <1>5, <1>6, <1>7, <1>8, <1>9, <1>10 DEF ParityNext

LEMMA ParityInvariant == ParitySpec => []ParityInv
BY ParityInitInv, ParityNextInv, PTL DEF ParitySpec

(* The firmware's core and the host simulator have the same value on every *)
(* net whenever both are at rest, for every design that fits the core, has *)
(* padding-blind LUTs and no hazard in a group, ordered or not, and after  *)
(* every sequence of loads, resets, writes, passes, edges and steps, those *)
(* of designs that do not fit included.                                    *)
THEOREM EvaluatorsAgree == ParitySpec => []AgreeWithoutHazards
<1>1. ParityInv => AgreeWithoutHazards
  <2> SUFFICES ASSUME ParityInv, AtRest, Fits(design), Separate(design) PROVE Agree
    BY DEF AgreeWithoutHazards, Separate
  <2>1. values = Seen
    BY DEF ParityInv, CoreFollows, AtRest
  <2> QED
    BY <2>1 DEF Agree, Seen
<1> QED
  BY <1>1, ParityInvariant, PTL
=============================================================================
