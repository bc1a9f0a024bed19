---------------------------- MODULE VFpgaFabric ----------------------------
(***************************************************************************)
(* The data the virtual FPGA computes with, shared by every module that    *)
(* evaluates a mapped design: signal words, 4-input lookup tables,         *)
(* flip-flops and mapped configurations (vfpga_lut, vfpga_ff, mapper.h).   *)
(*                                                                         *)
(* A VSignal is a uint32_t used as 32 independent one-bit lanes.  A word is*)
(* the set of the lanes that are 1; the code has Lanes = 0..31.            *)
(* A truth table is the set of the indices 0..15 whose bit is 1.           *)
(***************************************************************************)
EXTENDS Integers, Sequences

CONSTANT Lanes

Word == SUBSET Lanes
Zero == {}
AllOnes == Lanes
TruthTable == SUBSET (0..15)

(* Net ids are uint16_t; nothing in the evaluation depends on that width.  *)
Net == Nat

Bit(b) == IF b THEN 1 ELSE 0

(* VLut4::evaluate: lane l of the output is the table's bit at the index   *)
(* made of lane l of the four inputs, input a being the low bit.           *)
Evaluate(tt, a, b, c, d) ==
  { l \in Lanes :
      Bit(l \in a) + 2 * Bit(l \in b) + 4 * Bit(l \in c) + 8 * Bit(l \in d) \in tt }

(* A LUT as the mapper emits it: up to four input nets and an output net.  *)
MappedLut == [tt : TruthTable, in : Seq(Net), out : Net]
MappedFf  == [d : Net, q : Net]

(* A LUT as an evaluator holds it: exactly four input ids.                 *)
CoreLut == [tt : TruthTable, in : [1..4 -> Net], out : Net]

(* A mapped configuration; constants maps a net id to its value.           *)
IsConfig(cfg) ==
  /\ cfg.luts \in Seq(MappedLut)
  /\ cfg.ffs \in Seq(MappedFf)
  /\ DOMAIN cfg.constants \subseteq Net
  /\ \A n \in DOMAIN cfg.constants : cfg.constants[n] \in Word

(* The value a LUT computes from the net values sig.                       *)
LutOut(lut, sig) ==
  Evaluate(lut.tt, sig[lut.in[1]], sig[lut.in[2]], sig[lut.in[3]], sig[lut.in[4]])

Reads(lut) == {lut.in[1], lut.in[2], lut.in[3], lut.in[4]}
LutOutputs(luts) == { luts[k].out : k \in 1..Len(luts) }
FfOutputs(ffs) == { ffs[k].q : k \in 1..Len(ffs) }

(* Every net the tables name.                                              *)
TableNets(luts, ffs) ==
  (UNION { Reads(luts[k]) \cup {luts[k].out} : k \in 1..Len(luts) })
    \cup (UNION { {ffs[k].d, ffs[k].q} : k \in 1..Len(ffs) })

(***************************************************************************)
(* Net values at which no LUT has anything left to do: every LUT output is *)
(* the LUT's function of its inputs.                                       *)
(***************************************************************************)
Settled(luts, sig) ==
  \A k \in 1..Len(luts) : sig[luts[k].out] = LutOut(luts[k], sig)

(***************************************************************************)
(* LUTs j and k of a table of n are evaluated together: the evaluator takes*)
(* the table in groups of `batch` while a whole group is left, reads every *)
(* input of the group and then writes its outputs.                         *)
(***************************************************************************)
SameBatch(batch, n, j, k) ==
  \E g \in 0..n : /\ batch * g + batch <= n
                  /\ j \in batch * g + 1 .. batch * g + batch
                  /\ k \in batch * g + 1 .. batch * g + batch

(***************************************************************************)
(* The discipline a LUT table must follow for one pass to settle it: one   *)
(* driver per net, and a LUT reads only outputs of earlier LUTs that are   *)
(* not evaluated in the same group as it.                                  *)
(***************************************************************************)
OrderedLuts(batch, luts) ==
  LET n == Len(luts) IN
  \A j, k \in 1..n :
    /\ j # k => luts[j].out # luts[k].out
    /\ luts[j].out \in Reads(luts[k]) => j < k /\ ~SameBatch(batch, n, j, k)

(***************************************************************************)
(* The discipline a flip-flop table must follow for a clock edge to be     *)
(* simultaneous although the flip-flops are updated one after another: one *)
(* driver per net, and no D input is the Q of an earlier flip-flop.        *)
(***************************************************************************)
OrderedFfs(ffs) ==
  \A j, k \in 1..Len(ffs) :
    /\ j # k => ffs[j].q # ffs[k].q
    /\ j < k => ffs[k].d # ffs[j].q

-----------------------------------------------------------------------------
(* The host simulator's calls as functions of the net values.  The loops   *)
(* themselves are in module Simulator, which checks that they agree.       *)

(* Inputs a LUT does not have replicate its first one.                     *)
Pad(lut) ==
  [lut EXCEPT !.in = [k \in 1..4 |-> IF k <= Len(lut.in) THEN lut.in[k]
                                     ELSE IF lut.in = <<>> THEN 0 ELSE lut.in[1]]]

InitialValues(cfg) ==
  [n \in 0 .. cfg.total_nets - 1 |->
     IF n \in DOMAIN cfg.constants THEN cfg.constants[n] ELSE Zero]

(* One in-order pass over the LUTs of a configuration.  (The values before *)
(* a LUT are bound by the set so that they are computed only once.)        *)
PassValues(cfg, v) ==
  LET step(lut, sig) == [sig EXCEPT ![lut.out] = LutOut(Pad(lut), sig)]
      after[k \in 0 .. Len(cfg.luts)] ==
        IF k = 0 THEN v
        ELSE CHOOSE r \in { step(cfg.luts[k], sig) : sig \in {after[k - 1]} } : TRUE
  IN  after[Len(cfg.luts)]

(* One clock edge, flip-flop after flip-flop.                              *)
EdgeValues(cfg, v) ==
  LET step(ff, sig) == [sig EXCEPT ![ff.q] = sig[ff.d]]
      after[k \in 0 .. Len(cfg.ffs)] ==
        IF k = 0 THEN v
        ELSE CHOOSE r \in { step(cfg.ffs[k], sig) : sig \in {after[k - 1]} } : TRUE
  IN  after[Len(cfg.ffs)]
=============================================================================
