---------------------------- MODULE FabricParity ---------------------------
(***************************************************************************)
(* The two evaluators of mapped designs side by side: the host simulator   *)
(* and the firmware core are given the same design, the same inputs and    *)
(* the same passes and edges.  The simulator is what a design is tested    *)
(* with before it runs on the device, so what matters is whether the two   *)
(* agree on every net.                                                     *)
(*                                                                         *)
(* The programs do not interact; the simulator is let run first, then the  *)
(* core, and they are compared when both are at rest.                      *)
(***************************************************************************)
EXTENDS Simulator

CONSTANTS
  Size,   (* the capacities the core is initialized with                   *)
  Debris  (* what is found past its nets, or left by overwritten tables    *)

VARIABLES
  initialized, bufs, live, max, signals, luts, ffs, phase, idx, cycles, start, overrun

ASSUME SizeAssumption == Size \in [signals : Nat \ {0}, luts : Nat \ {0}, ffs : Nat]

Core == INSTANCE VFpgaCore WITH Sizes <- {Size}, MaxCycles <- 1

coreVars ==
  <<initialized, bufs, live, max, signals, luts, ffs, phase, idx, cycles, start, overrun>>
parityVars == <<simVars, coreVars>>

(* The core is as large as the design.  The firmware's commands take the   *)
(* default size whatever the design (main.cpp, demo_run.cpp).              *)
Fits(cfg) ==
  /\ Len(cfg.luts) <= Size.luts
  /\ Len(cfg.ffs) <= Size.ffs
  /\ cfg.total_nets <= Size.signals

ParityInit == SimInit /\ Core!Init

StartCore ==
  /\ ~initialized
  /\ Core!CoreInit(Size, Core!Needed(Size))
  /\ UNCHANGED simVars

LoadBoth(cfg) ==
  /\ initialized
  /\ Load(cfg)
  /\ Core!LoadConfig(cfg)

(* The core has no reset of its own: it is given the design again.         *)
ResetBoth == initialized /\ SimReset /\ Core!LoadConfig(design)

WriteBoth(net, w) == initialized /\ SimWriteInput(net, w) /\ Core!WriteInput(net, w)
EvaluateBoth == initialized /\ EvalCombinational /\ Core!EvaluateCombinational
ClockBoth == initialized /\ SimClock /\ Core!Clock
StepBoth == initialized /\ Step /\ Core!RunCycles(1)

(* Only the simulator keeps a time.                                        *)
AdvanceSimulator(dt) == initialized /\ phase = "idle" /\ Advance(dt) /\ UNCHANGED coreVars

SimulatorRuns == SimCompute /\ UNCHANGED coreVars
CoreRuns == loop = "idle" /\ Core!Compute /\ UNCHANGED simVars

ParityNext ==
  \/ StartCore
  \/ \E cfg \in Configs : LoadBoth(cfg)
  \/ ResetBoth
  \/ \E net \in 0 .. design.total_nets, w \in InputWords : WriteBoth(net, w)
  \/ \E dt \in Durations : AdvanceSimulator(dt)
  \/ EvaluateBoth
  \/ ClockBoth
  \/ StepBoth
  \/ SimulatorRuns
  \/ CoreRuns

(* The loops of both are calls in one thread: once begun, they go on.      *)
ParityFairness == WF_parityVars(SimulatorRuns) /\ WF_parityVars(CoreRuns)

ParitySpec == ParityInit /\ [][ParityNext]_parityVars /\ ParityFairness

-----------------------------------------------------------------------------
(* Properties *)

AtRest == loop = "idle" /\ phase = "idle"
Agree == \A n \in DOMAIN values : signals[n] = values[n]

(* The value of a LUT does not depend on the inputs it does not have, which*)
(* the firmware reads from net 0 and the simulator from its first input.   *)
PaddingBlind(lut) ==
  LET at(p) == p[1] + 2 * p[2] + 4 * p[3] + 8 * p[4] IN
  \A p, q \in [1..4 -> {0, 1}] :
    (\A i \in 1..4 : i <= Len(lut.in) => p[i] = q[i]) => (at(p) \in lut.tt <=> at(q) \in lut.tt)

AllPaddingBlind(cfg) == \A k \in 1..Len(cfg.luts) : PaddingBlind(cfg.luts[k])

(* No LUT reads the output of an earlier LUT of its own group of four,     *)
(* which the firmware reads before it writes.                              *)
NoGroupHazard(cfg) ==
  LET n == Len(cfg.luts) IN
  \A j, k \in 1..n :
    j < k /\ SameBatch(4, n, j, k) =>
      \A i \in 1..Len(cfg.luts[k].in) : i <= 4 => cfg.luts[k].in[i] # cfg.luts[j].out

(* Exactly these two differences separate the evaluators of a design that  *)
(* fits the core: one of padding-blind LUTs without a hazard in a group has*)
(* the same value on every net of both, after any sequence of loads,       *)
(* writes, passes and edges, also when its tables are in no useful order   *)
(* and after designs that did not fit.                                     *)
AgreeWithoutHazards ==
  AtRest /\ Fits(design) /\ NoGroupHazard(design) /\ AllPaddingBlind(design) => Agree

(* eval_combinational() in sim.cpp: "Firmware parity: ONE in-order pass    *)
(* (vfpga_pie::evaluate_batch_4)".  The padding is documented to differ,   *)
(* so only padding-blind designs are compared.                             *)
FirmwareParity == AtRest /\ Fits(design) /\ AllPaddingBlind(design) => Agree
=============================================================================
