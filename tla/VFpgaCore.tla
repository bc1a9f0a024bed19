----------------------------- MODULE VFpgaCore -----------------------------
(***************************************************************************)
(* The firmware's evaluation core: class VFpgaCore (src/vfpga/vfpga_core)  *)
(* with the batch evaluator it calls (src/vfpga/vfpga_pie).                *)
(*                                                                         *)
(* The core owns three heap buffers: the net values, the LUT table and the *)
(* flip-flop table.  evaluate_combinational() and clock() are loops over   *)
(* the tables that write the net values they read, so each iteration is an *)
(* action of its own: what an iteration sees depends on the ones before it.*)
(*                                                                         *)
(* Tables are the sequences of the entries in use; the zeroed rest of a    *)
(* buffer is never read.  The state a flip-flop holds is always rewritten  *)
(* before it is read, so only its D and Q nets are kept.                   *)
(*                                                                         *)
(* Nothing compares the net ids of the tables with the number of nets, so  *)
(* an iteration may read and store past signals_, in the external memory   *)
(* where the tables are too.  It goes on: what it finds there is any word, *)
(* and once a store has gone there, any entry of the tables may have been  *)
(* changed and so any net be driven with any word.                         *)
(***************************************************************************)
EXTENDS VFpgaFabric

CONSTANTS
  Sizes,      (* the capacities init() may be called with                  *)
  Configs,    (* the mapped configurations that may be loaded              *)
  InputWords, (* the words write_input() may be called with                *)
  MaxCycles,  (* bound on the argument of run_cycles()                     *)
  Debris      (* what is found past signals_, or left in it by tables that *)
              (* were stored over: some nets and the words at them         *)

ASSUME SizesAssumption ==
  Sizes \subseteq [signals : Nat \ {0}, luts : Nat \ {0}, ffs : Nat]
ASSUME ConfigsAssumption == \A cfg \in Configs : IsConfig(cfg)
ASSUME InputWordsAssumption == InputWords \subseteq Word
ASSUME MaxCyclesAssumption == MaxCycles \in Nat
ASSUME DebrisAssumption ==
  /\ Debris # {}
  /\ \A debris \in Debris : \A n \in DOMAIN debris : debris[n] \in Word

VARIABLES
  initialized, (* initialized_                                             *)
  bufs,        (* which of signals_, luts_ and ffs_ are not null           *)
  live,        (* heap blocks allocated and not yet freed, per buffer      *)
  max,         (* max_signals_, max_luts_, max_ffs_                        *)
  signals,     (* contents of signals_: net id -> word                     *)
  luts,        (* luts_[0 .. lut_count_ - 1]                               *)
  ffs,         (* ffs_[0 .. ff_count_ - 1]                                 *)
  phase,       (* the loop that is running, or "idle"                      *)
  idx,         (* its index i                                              *)
  cycles,      (* cycles left of run_cycles(), 0 outside it                *)
  start,       (* history: signals when the running loop began             *)
  overrun      (* a store has gone past signals_ since the tables were set *)

vars ==
  <<initialized, bufs, live, max, signals, luts, ffs, phase, idx, cycles, start, overrun>>
memory == <<initialized, bufs, live, max>>
design == <<luts, ffs, overrun>>
control == <<phase, idx, cycles, start>>

Buffers == {"signals", "luts", "ffs"}
NoCapacity == [signals |-> 0, luts |-> 0, ffs |-> 0]
Cleared(capacity) == [n \in 0 .. capacity.signals - 1 |-> Zero]

-----------------------------------------------------------------------------
(* Object lifetime *)

Init ==
  /\ initialized = FALSE
  /\ bufs = {}
  /\ live = [b \in Buffers |-> 0]
  /\ max = NoCapacity
  /\ signals = Cleared(NoCapacity)
  /\ luts = <<>> /\ ffs = <<>> /\ overrun = FALSE
  /\ phase = "idle" /\ idx = 0 /\ cycles = 0
  /\ start = Cleared(NoCapacity)

(* Mutant: the pointers are dropped without free().                        *)
FreedNothing == live

(* The heap after free() of every non-null buffer.                         *)
Freed == [b \in Buffers |-> IF b \in bufs THEN live[b] - 1 ELSE live[b]]

(* Mutant: the flip-flop buffer is left out of the null checks.            *)
NeededWithoutFfs(size) == {"signals", "luts"}

(* Allocations asked of the heap: no flip-flop buffer when max_ffs is 0.   *)
Needed(size) == {"signals", "luts"} \cup (IF size.ffs > 0 THEN {"ffs"} ELSE {})

(* init(): frees what the core held, then every allocation of `got`        *)
(* succeeds and the others return null.                                    *)
CoreInit(size, got) ==
  /\ phase = "idle"
  /\ got \subseteq Needed(size)
  /\ \/ /\ got = Needed(size)
        /\ initialized' = TRUE
        /\ bufs' = got
        /\ live' = [b \in Buffers |-> IF b \in got THEN Freed[b] + 1 ELSE Freed[b]]
        /\ max' = size
     \/ /\ got # Needed(size)
        /\ initialized' = FALSE
        /\ bufs' = {}
        /\ live' = Freed
        /\ max' = NoCapacity
  /\ signals' = Cleared(max')
  /\ luts' = <<>> /\ ffs' = <<>> /\ overrun' = FALSE
  /\ start' = signals'
  /\ UNCHANGED <<phase, idx, cycles>>

Destroy ==
  /\ phase = "idle"
  /\ initialized' = FALSE
  /\ bufs' = {}
  /\ live' = Freed
  /\ max' = NoCapacity
  /\ signals' = Cleared(NoCapacity)
  /\ luts' = <<>> /\ ffs' = <<>> /\ overrun' = FALSE
  /\ start' = signals'
  /\ UNCHANGED <<phase, idx, cycles>>

(* reset(): returns at once when the core is not initialized.              *)
Reset ==
  /\ phase = "idle"
  /\ IF initialized
     THEN /\ signals' = Cleared(max)
          /\ luts' = <<>> /\ ffs' = <<>> /\ overrun' = FALSE
     ELSE UNCHANGED <<signals, design>>
  /\ start' = signals'
  /\ UNCHANGED <<memory, phase, idx, cycles>>

-----------------------------------------------------------------------------
(* Configuration and input *)

(* Mutant: the capacity is compared after the entry is stored.             *)
TakenOneMore(table, capacity) == IF Len(table) <= capacity THEN Len(table) ELSE capacity + 1

(* How many entries of a configured table a buffer takes before the loop    *)
(* that fills it breaks off.                                               *)
Taken(table, capacity) == IF Len(table) < capacity THEN Len(table) ELSE capacity

(* Missing inputs keep the id 0 the table entry was cleared to.            *)
LoadLut(lut) ==
  [tt  |-> lut.tt,
   in  |-> [k \in 1..4 |-> IF k <= Len(lut.in) THEN lut.in[k] ELSE 0],
   out |-> lut.out]

LoadedLuts(cfg) == [k \in 1 .. Taken(cfg.luts, max.luts) |-> LoadLut(cfg.luts[k])]
LoadedFfs(cfg) == [k \in 1 .. Taken(cfg.ffs, max.ffs) |-> cfg.ffs[k]]

(* load_config(): reset(), the tables up to their capacity, the constants. *)
(* A constant outside signals_ is left out; the nets of the tables are     *)
(* stored as they come.                                                    *)
LoadConfig(cfg) ==
  /\ phase = "idle"
  /\ luts' = LoadedLuts(cfg)
  /\ ffs' = LoadedFfs(cfg)
  /\ overrun' = FALSE
  /\ signals' = [n \in DOMAIN signals |->
                   IF n \in DOMAIN cfg.constants THEN cfg.constants[n] ELSE Zero]
  /\ start' = signals'
  /\ UNCHANGED <<memory, phase, idx, cycles>>

(* write_input(): an id at or above max_signals_ is ignored.               *)
WriteInput(id, value) ==
  /\ phase = "idle"
  /\ signals' = IF id < max.signals THEN [signals EXCEPT ![id] = value] ELSE signals
  /\ start' = signals'
  /\ UNCHANGED <<memory, design, phase, idx, cycles>>

-----------------------------------------------------------------------------
(* evaluate_combinational(), clock() and run_cycles() *)

Enter(loop, left) ==
  /\ phase' = loop
  /\ idx' = 0
  /\ cycles' = left
  /\ start' = signals
  /\ UNCHANGED <<memory, design, signals>>

EvaluateCombinational == phase = "idle" /\ Enter("eval", 0)
Clock == phase = "idle" /\ Enter("clock", 0)
RunCycles(n) == phase = "idle" /\ n > 0 /\ Enter("eval", n)

(* The nets as an iteration reads them.                                    *)
Found(debris) ==
  [n \in Net |-> IF n \in DOMAIN signals THEN signals[n]
                 ELSE IF n \in DOMAIN debris THEN debris[n] ELSE Zero]

(* signals_[n] = w, as far as it is seen in signals_.                      *)
Written(nets, n, w) == IF n \in DOMAIN nets THEN [nets EXCEPT ![n] = w] ELSE nets

(* The stores of an iteration to the nets `to`, which leave `stored` when  *)
(* the table they are read from is what was loaded.                        *)
Store(to, stored) ==
  /\ overrun' = (overrun \/ ~(to \subseteq DOMAIN signals))
  /\ IF overrun'
     THEN \E debris \in Debris :
            signals' = [n \in DOMAIN signals |->
                          IF n \in DOMAIN debris THEN debris[n] ELSE stored[n]]
     ELSE signals' = stored

(* Mutant: the third output is stored twice and the fourth not at all.     *)
EvaluateBatch4Twice ==
  /\ phase = "eval"
  /\ idx + 3 < Len(luts)
  /\ \E debris \in Debris :
       LET lut(k) == luts[idx + k]
           out(k) == LutOut(lut(k), Found(debris))
           two == Written(Written(signals, lut(1).out, out(1)), lut(2).out, out(2))
           four == Written(Written(two, lut(3).out, out(3)), lut(4).out, out(3))
       IN  Store({lut(k).out : k \in 1..4}, four)
  /\ idx' = idx + 4
  /\ UNCHANGED <<memory, luts, ffs, phase, cycles, start>>

(* A group of four: all inputs are read before the four outputs are        *)
(* written, in order.                                                      *)
EvaluateBatch4 ==
  /\ phase = "eval"
  /\ idx + 3 < Len(luts)
  /\ \E debris \in Debris :
       LET lut(k) == luts[idx + k]
           out(k) == LutOut(lut(k), Found(debris))
           two == Written(Written(signals, lut(1).out, out(1)), lut(2).out, out(2))
           four == Written(Written(two, lut(3).out, out(3)), lut(4).out, out(4))
       IN  Store({lut(k).out : k \in 1..4}, four)
  /\ idx' = idx + 4
  /\ UNCHANGED <<memory, luts, ffs, phase, cycles, start>>

(* One LUT of the remainder.                                               *)
EvaluateOne ==
  /\ phase = "eval"
  /\ ~(idx + 3 < Len(luts))
  /\ idx < Len(luts)
  /\ \E debris \in Debris :
       LET lut == luts[idx + 1]
       IN  Store({lut.out}, Written(signals, lut.out, LutOut(lut, Found(debris))))
  /\ UNCHANGED <<memory, luts, ffs, phase, cycles, start>>

(* Mutant: the remainder loop does not advance.                            *)
EvaluateRemainderStuck == EvaluateOne /\ UNCHANGED idx

(* The remainder, one LUT at a time.                                       *)
EvaluateRemainder == EvaluateOne /\ idx' = idx + 1

(* Mutant: the loop ends one LUT early.                                    *)
EvaluateDoneEarly ==
  /\ phase = "eval"
  /\ ~(idx + 1 < Len(luts))
  /\ Enter(IF cycles = 0 THEN "idle" ELSE "clock", cycles)

EvaluateDone ==
  /\ phase = "eval"
  /\ ~(idx < Len(luts))
  /\ Enter(IF cycles = 0 THEN "idle" ELSE "clock", cycles)

(* clock_edge(d, true) of one flip-flop: its output is visible to the next.*)
ClockFf ==
  /\ phase = "clock"
  /\ idx < Len(ffs)
  /\ \E debris \in Debris :
       LET ff == ffs[idx + 1]
       IN  Store({ff.q}, Written(signals, ff.q, Found(debris)[ff.d]))
  /\ idx' = idx + 1
  /\ UNCHANGED <<memory, luts, ffs, phase, cycles, start>>

(* Mutants: the loop ends one flip-flop early; the count goes below zero.  *)
ClockDoneEarly ==
  /\ phase = "clock"
  /\ ~(idx + 1 < Len(ffs))
  /\ Enter(IF cycles > 1 THEN "eval" ELSE "idle", IF cycles > 1 THEN cycles - 1 ELSE 0)

ClockDoneUnderflow ==
  /\ phase = "clock"
  /\ ~(idx < Len(ffs))
  /\ Enter(IF cycles > 1 THEN "eval" ELSE "idle", cycles - 1)

ClockDone ==
  /\ phase = "clock"
  /\ ~(idx < Len(ffs))
  /\ Enter(IF cycles > 1 THEN "eval" ELSE "idle", IF cycles > 1 THEN cycles - 1 ELSE 0)

(* A step of the loop that is running.                                     *)
Compute ==
  \/ EvaluateBatch4
  \/ EvaluateRemainder
  \/ EvaluateDone
  \/ ClockFf
  \/ ClockDone

Next ==
  \/ \E size \in Sizes, got \in SUBSET Buffers : CoreInit(size, got)
  \/ Destroy
  \/ Reset
  \/ \E cfg \in Configs : LoadConfig(cfg)
  \/ \E id \in 0 .. max.signals, w \in InputWords : WriteInput(id, w)
  \/ EvaluateCombinational
  \/ Clock
  \/ \E n \in 1..MaxCycles : RunCycles(n)
  \/ Compute

Spec == Init /\ [][Next]_vars

(* The loops run on one thread that nothing in the core ever blocks.       *)
FairSpec == Spec /\ WF_vars(Compute)

-----------------------------------------------------------------------------
(* Properties *)

TypeOK ==
  /\ initialized \in BOOLEAN
  /\ bufs \in SUBSET Buffers
  /\ live \in [Buffers -> Int]
  /\ max \in [signals : Nat, luts : Nat, ffs : Nat]
  /\ signals \in [0 .. max.signals - 1 -> Word]
  /\ luts \in Seq(CoreLut)
  /\ ffs \in Seq(MappedFf)
  /\ phase \in {"idle", "eval", "clock"}
  /\ idx \in Nat
  /\ cycles \in Nat
  /\ start \in [0 .. max.signals - 1 -> Word]
  /\ overrun \in BOOLEAN

(* No sequence of init() calls, failed or not, leaks a heap block, frees   *)
(* one twice or loses track of one: the blocks in use are exactly the      *)
(* buffers the core points to.                                             *)
NoLeak == \A b \in Buffers : live[b] = IF b \in bufs THEN 1 ELSE 0

(* A core without its buffers is inert: when an allocation has failed, or  *)
(* after destroy(), the capacities that guard every access are 0 and no    *)
(* table entry is left for a loop to dereference, whatever was loaded or   *)
(* written since.                                                          *)
InertWithoutBuffers ==
  /\ IF initialized THEN {"signals", "luts"} \subseteq bufs ELSE max = NoCapacity
  /\ \A b \in Buffers : max[b] > 0 => b \in bufs
  /\ Len(luts) > 0 => {"signals", "luts"} \subseteq bufs
  /\ Len(ffs) > 0 => {"signals", "ffs"} \subseteq bufs

(* The tables stay within the buffers they were allocated in, and a store  *)
(* past signals_ is always that of a design with an output too many: the   *)
(* evaluation of a design whose LUT outputs and Qs are nets of the core    *)
(* never leaves it, whatever was loaded, truncated or stored over before.  *)
AccessesInBounds ==
  /\ Len(luts) <= max.luts
  /\ Len(ffs) <= max.ffs
  /\ overrun => ~(LutOutputs(luts) \cup FfOutputs(ffs) \subseteq DOMAIN signals)

(* Every net the tables name is one of the core.                           *)
FitsSignals == TableNets(luts, ffs) \subseteq DOMAIN signals

(* One combinational pass settles the design: when the loop of             *)
(* evaluate_batch_4 ends, every LUT output agrees with its inputs as they  *)
(* are then, provided the design fits and no LUT reads an output of its own*)
(* group or a later one.  The loop updates the nets in place, four LUTs at *)
(* a time.                                                                 *)
PassSettles ==
  [][ EvaluateDone /\ FitsSignals /\ OrderedLuts(4, luts) => Settled(luts, signals) ]_vars

(* A clock edge is simultaneous: when the loop of clock() ends, every Q has*)
(* the value its D had when the loop began, provided the design fits and no*)
(* D is the Q of an earlier flip-flop.                                     *)
EdgeIsSimultaneous ==
  [][ ClockDone /\ FitsSignals /\ OrderedFfs(ffs) =>
        \A k \in 1..Len(ffs) : signals[ffs[k].q] = start[ffs[k].d] ]_vars

(* evaluate_combinational(), clock() and run_cycles() return.              *)
LoopsTerminate == phase # "idle" ~> phase = "idle"

(* The core implements a synchronous circuit: seen from outside the loops, *)
(* a pass is one settling step and an edge one simultaneous step.          *)
Circuit == INSTANCE SynchronousCircuit WITH
  Batch <- 4,
  nets  <- IF phase = "idle" THEN signals ELSE start

ImplementsCircuit == Circuit!CircuitSpec

-----------------------------------------------------------------------------
(* What is true within a loop, from which the properties above follow      *)

(* Nets without a LUT keep their value; the LUTs already evaluated stay    *)
(* settled.                                                                *)
SettledSoFar ==
  /\ \A n \in DOMAIN signals \ LutOutputs(luts) : signals[n] = start[n]
  /\ OrderedLuts(4, luts) =>
       \A k \in 1..idx : signals[luts[k].out] = LutOut(luts[k], signals)

(* Groups start at multiples of four.                                      *)
PassInv ==
  phase = "eval" =>
    /\ idx <= Len(luts)
    /\ idx + 3 < Len(luts) => \E g \in 0 .. Len(luts) : idx = 4 * g
    /\ FitsSignals => SettledSoFar

(* The flip-flops already clocked show their D of the beginning of the     *)
(* edge; every other net still has its value of then.                      *)
ClockedSoFar ==
  /\ \A n \in DOMAIN signals :
       (\A k \in 1..idx : ffs[k].q # n) => signals[n] = start[n]
  /\ OrderedFfs(ffs) => \A k \in 1..idx : signals[ffs[k].q] = start[ffs[k].d]

EdgeInv ==
  phase = "clock" =>
    /\ idx <= Len(ffs)
    /\ FitsSignals => ClockedSoFar
=============================================================================
