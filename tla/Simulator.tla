----------------------------- MODULE Simulator -----------------------------
(***************************************************************************)
(* The host simulator: class Simulator (host_test/simulator/sim.h,         *)
(* sim.cpp).  It runs the same mapped configurations as VFpgaCore, with    *)
(* one LUT per step instead of groups of four and with another reading of  *)
(* the inputs a LUT does not have.                                         *)
(*                                                                         *)
(* The simulator keeps pointers to the design it was given, so the design  *)
(* is its state and its tables are never truncated; the values are         *)
(* allocated for exactly the nets of the design.                           *)
(***************************************************************************)
EXTENDS VFpgaFabric

CONSTANTS
  Configs,    (* the mapped configurations that may be loaded              *)
  InputWords, (* the words write_input() may be called with                *)
  Durations,  (* the arguments of advance()                                *)
  MaxTime     (* bound on the simulated time                               *)

(* What the mapper guarantees: total_nets counts every net of the netlist, *)
(* so it is above every id in the tables.                                  *)
WellFormed(cfg) ==
  /\ IsConfig(cfg)
  /\ cfg.total_nets \in Nat
  /\ \A k \in 1..Len(cfg.luts) :
       /\ cfg.luts[k].out < cfg.total_nets
       /\ \A i \in 1..Len(cfg.luts[k].in) : cfg.luts[k].in[i] < cfg.total_nets
  /\ \A k \in 1..Len(cfg.ffs) :
       cfg.ffs[k].d < cfg.total_nets /\ cfg.ffs[k].q < cfg.total_nets

ASSUME SimConfigsAssumption == \A cfg \in Configs : WellFormed(cfg)
ASSUME SimInputWordsAssumption == InputWords \subseteq Word
ASSUME DurationsAssumption == Durations \subseteq Nat /\ MaxTime \in Nat

VARIABLES
  design,   (* *cfg_, or NoDesign while cfg_ is null                       *)
  values,   (* values_: net id -> word                                     *)
  time,     (* time_ns_                                                    *)
  loop,     (* the loop that is running, or "idle"                         *)
  next,     (* index of the LUT or flip-flop it comes to next              *)
  stepping, (* inside step(): a clock edge follows the pass                *)
  before    (* history: values when the running loop began                 *)

simVars == <<design, values, time, loop, next, stepping, before>>

NoDesign == [luts |-> <<>>, ffs |-> <<>>, constants |-> <<>>, total_nets |-> 0]

SimInit ==
  /\ design = NoDesign
  /\ values = [n \in {} |-> Zero]
  /\ time = 0
  /\ loop = "idle" /\ next = 0 /\ stepping = FALSE
  /\ before = values

(* load(): the design, then reset().                                       *)
Load(cfg) ==
  /\ loop = "idle"
  /\ design' = cfg
  /\ values' = InitialValues(cfg)
  /\ time' = 0
  /\ before' = values'
  /\ UNCHANGED <<loop, next, stepping>>

(* reset(): returns at once when there is no design.                       *)
SimReset ==
  /\ loop = "idle"
  /\ design # NoDesign
  /\ values' = InitialValues(design)
  /\ time' = 0
  /\ before' = values'
  /\ UNCHANGED <<design, loop, next, stepping>>

SimWriteInput(net, value) ==
  /\ loop = "idle"
  /\ values' = IF net \in DOMAIN values THEN [values EXCEPT ![net] = value] ELSE values
  /\ before' = values'
  /\ UNCHANGED <<design, time, loop, next, stepping>>

Advance(dt) ==
  /\ loop = "idle"
  /\ time + dt <= MaxTime
  /\ time' = time + dt
  /\ UNCHANGED <<design, values, loop, next, stepping, before>>

-----------------------------------------------------------------------------
(* eval_combinational(), clock() and step() *)

PaddedLuts == [k \in 1..Len(design.luts) |-> Pad(design.luts[k])]

Start(which, withEdge) ==
  /\ loop' = which
  /\ next' = 0
  /\ stepping' = withEdge
  /\ before' = values
  /\ UNCHANGED <<design, values, time>>

EvalCombinational == loop = "idle" /\ design # NoDesign /\ Start("eval", FALSE)
SimClock == loop = "idle" /\ design # NoDesign /\ Start("clock", FALSE)
Step == loop = "idle" /\ design # NoDesign /\ Start("eval", TRUE)

EvalLut ==
  /\ loop = "eval"
  /\ next < Len(design.luts)
  /\ values' = [values EXCEPT ![design.luts[next + 1].out] =
                                 LutOut(PaddedLuts[next + 1], values)]
  /\ next' = next + 1
  /\ UNCHANGED <<design, time, loop, stepping, before>>

(* Mutant: the loop leaves out the last LUT.                               *)
EvalReturnsEarly ==
  /\ loop = "eval"
  /\ ~(next + 1 < Len(design.luts))
  /\ Start(IF stepping THEN "clock" ELSE "idle", stepping)

EvalReturns ==
  /\ loop = "eval"
  /\ ~(next < Len(design.luts))
  /\ Start(IF stepping THEN "clock" ELSE "idle", stepping)

(* Mutant: the registers are read backwards from what was just written.    *)
ClockRegisterSwapped ==
  /\ loop = "clock"
  /\ next < Len(design.ffs)
  /\ values' = [values EXCEPT ![design.ffs[next + 1].d] = values[design.ffs[next + 1].q]]
  /\ next' = next + 1
  /\ UNCHANGED <<design, time, loop, stepping, before>>

(* Mutant: the loop does not advance.                                      *)
ClockRegisterStuck ==
  /\ loop = "clock"
  /\ next < Len(design.ffs)
  /\ values' = [values EXCEPT ![design.ffs[next + 1].q] = values[design.ffs[next + 1].d]]
  /\ UNCHANGED <<design, time, loop, next, stepping, before>>

(* One register: its new value is visible to the next.                     *)
ClockRegister ==
  /\ loop = "clock"
  /\ next < Len(design.ffs)
  /\ values' = [values EXCEPT ![design.ffs[next + 1].q] = values[design.ffs[next + 1].d]]
  /\ next' = next + 1
  /\ UNCHANGED <<design, time, loop, stepping, before>>

ClockReturns ==
  /\ loop = "clock"
  /\ ~(next < Len(design.ffs))
  /\ Start("idle", FALSE)

SimCompute ==
  \/ EvalLut
  \/ EvalReturns
  \/ ClockRegister
  \/ ClockReturns

SimNext ==
  \/ \E cfg \in Configs : Load(cfg)
  \/ SimReset
  \/ \E net \in 0 .. design.total_nets, w \in InputWords : SimWriteInput(net, w)
  \/ \E dt \in Durations : Advance(dt)
  \/ EvalCombinational
  \/ SimClock
  \/ Step
  \/ SimCompute

SimSpec == SimInit /\ [][SimNext]_simVars /\ WF_simVars(SimCompute)

-----------------------------------------------------------------------------
(* Properties *)

(* The claim in eval_combinational(): for components in topological order  *)
(* one in-order pass fully propagates, whatever the values before it.      *)
OnePassPropagates ==
  [][ EvalReturns /\ OrderedLuts(1, PaddedLuts) => Settled(PaddedLuts, values) ]_simVars

(* What the testbench executor relies on: eval_combinational() and clock() *)
(* are functions of the values they are called with, an in-order pass over *)
(* the LUTs and an in-order update of the registers.                       *)
CallsAreFunctions ==
  [][ /\ EvalReturns => values = PassValues(design, before)
      /\ ClockReturns => values = EdgeValues(design, before) ]_simVars

(* eval_combinational(), clock() and step() return.                        *)
SimLoopsTerminate == loop # "idle" ~> loop = "idle"

(* The simulator is a synchronous circuit without groups: whatever it is   *)
(* asked to do, seen from outside its loops a pass is one settling step,   *)
(* an edge one simultaneous step, and only driven nets change.             *)
SimCircuit == INSTANCE SynchronousCircuit WITH
  Batch  <- 1,
  nets   <- IF loop = "idle" THEN values ELSE before,
  luts   <- PaddedLuts,
  ffs    <- design.ffs,
  phase  <- loop,
  cycles <- Bit(stepping)

SimImplementsCircuit == SimCircuit!CircuitSpec
=============================================================================
