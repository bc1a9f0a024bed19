------------------------ MODULE SynchronousCircuit -------------------------
(***************************************************************************)
(* What the evaluators of this repository promise: a loaded design behaves *)
(* as a synchronous circuit.  A combinational pass settles every LUT in one*)
(* step and a clock edge moves every D to its Q at once, provided the      *)
(* tables follow the ordering disciplines of VFpgaFabric for the           *)
(* evaluator's group size.  For any other table the only promise is that   *)
(* nets without a driver keep their value, and there is none for tables    *)
(* that name nets the evaluator does not have.                             *)
(*                                                                         *)
(* VFpgaCore (groups of four) and Simulator (no groups) both implement it. *)
(***************************************************************************)
EXTENDS VFpgaFabric

CONSTANTS
  Batch,    (* how many LUTs are read before any of them is written        *)
  Configs   (* the configurations that may be loaded                       *)

VARIABLES
  nets,     (* net id -> word; its domain is the allocated nets            *)
  luts,     (* the loaded LUT table                                        *)
  ffs,      (* the loaded flip-flop table                                  *)
  phase,    (* "idle", "eval" or "clock"                                   *)
  cycles    (* clock cycles left of a run, 0 for a single pass or edge     *)

circuitVars == <<nets, luts, ffs, phase, cycles>>

Blank(s) == [n \in s |-> Zero]

CircuitInit ==
  /\ nets = Blank({})
  /\ luts = <<>> /\ ffs = <<>>
  /\ phase = "idle" /\ cycles = 0

(* No design: every net is 0.                                              *)
Clear ==
  /\ phase = "idle"
  /\ nets' = Blank(DOMAIN nets')
  /\ luts' = <<>> /\ ffs' = <<>>
  /\ UNCHANGED <<phase, cycles>>

(* A design, or as much of it as there is room for, whatever is read where *)
(* a LUT has fewer than four inputs, with every net 0 but the constants of *)
(* the configuration.  The nets may be allocated anew.                     *)
Configure(cfg) ==
  /\ phase = "idle"
  /\ Len(luts') <= Len(cfg.luts)
  /\ \A k \in 1..Len(luts') :
       /\ luts'[k].tt = cfg.luts[k].tt
       /\ luts'[k].out = cfg.luts[k].out
       /\ \A i \in 1..4 : i <= Len(cfg.luts[k].in) => luts'[k].in[i] = cfg.luts[k].in[i]
  /\ Len(ffs') <= Len(cfg.ffs)
  /\ \A k \in 1..Len(ffs') : ffs'[k] = cfg.ffs[k]
  /\ \A n \in DOMAIN nets' :
       nets'[n] = IF n \in DOMAIN cfg.constants THEN cfg.constants[n] ELSE Zero
  /\ UNCHANGED <<phase, cycles>>

Drive ==
  /\ phase = "idle"
  /\ \E n \in DOMAIN nets, w \in Word : nets' = [nets EXCEPT ![n] = w]
  /\ UNCHANGED <<luts, ffs, phase, cycles>>

Begin ==
  /\ phase = "idle"
  /\ phase' \in {"eval", "clock"}
  /\ cycles' \in Nat
  /\ UNCHANGED <<nets, luts, ffs>>

(* Every net of the tables is allocated.                                   *)
NetsExist == TableNets(luts, ffs) \subseteq DOMAIN nets

(* The combinational pass, as one step.                                    *)
Settle ==
  /\ phase = "eval"
  /\ phase' = IF cycles = 0 THEN "idle" ELSE "clock"
  /\ DOMAIN nets' = DOMAIN nets
  /\ NetsExist =>
       /\ \A n \in DOMAIN nets \ LutOutputs(luts) : nets'[n] = nets[n]
       /\ OrderedLuts(Batch, luts) => Settled(luts, nets')
  /\ UNCHANGED <<luts, ffs, cycles>>

(* The clock edge, as one step.                                            *)
Edge ==
  /\ phase = "clock"
  /\ phase' = IF cycles > 1 THEN "eval" ELSE "idle"
  /\ cycles' = IF cycles > 1 THEN cycles - 1 ELSE 0
  /\ DOMAIN nets' = DOMAIN nets
  /\ NetsExist =>
       /\ \A n \in DOMAIN nets \ FfOutputs(ffs) : nets'[n] = nets[n]
       /\ OrderedFfs(ffs) => \A k \in 1..Len(ffs) : nets'[ffs[k].q] = nets[ffs[k].d]
  /\ UNCHANGED <<luts, ffs>>

CircuitNext ==
  \/ Clear
  \/ \E cfg \in Configs : Configure(cfg)
  \/ Drive
  \/ Begin
  \/ Settle
  \/ Edge

CircuitSpec == CircuitInit /\ [][CircuitNext]_circuitVars
=============================================================================
