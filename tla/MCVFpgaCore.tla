---------------------------- MODULE MCVFpgaCore ----------------------------
(* Model checking of VFpgaCore on small designs of the shapes the demos,   *)
(* the benchmarks and the netlist builder produce.                         *)
EXTENDS VFpgaCore, TLC

\* mapper.cpp's truth tables
And  == {15}
Xor  == {1, 2, 5, 6, 9, 10, 13, 14}
Xor3 == {1, 2, 4, 7, 9, 10, 12, 15}
Maj3 == {3, 5, 6, 7, 11, 13, 14, 15}
Not  == {0, 2, 4, 6, 8, 10, 12, 14}

lut(table, inputs, output) == [tt |-> table, in |-> inputs, out |-> output]
ff(from, to) == [d |-> from, q |-> to]

\* A toggling register: q <= ~q.  Net 3 is a constant, as the mapper lists it.
Blinker ==
  [luts      |-> <<lut(Not, <<1>>, 2)>>,
   ffs       |-> <<ff(2, 1)>>,
   constants |-> (3 :> AllOnes)]

\* Four gates of a first level and one that reads two of them: one whole
\* group and a remainder, in an order one pass settles.
TwoLevels ==
  [luts      |-> <<lut(Not, <<1>>, 3), lut(Xor, <<1, 2>>, 4),
                   lut(And, <<1, 2, 1, 1>>, 5), lut(Not, <<2>>, 6),
                   lut(Xor, <<3, 5>>, 7)>>,
   ffs       |-> <<>>,
   constants |-> <<>>]

\* A two-bit ripple-carry adder: the second stage reads the carry of the
\* first, which is in the same group of four.
Ripple ==
  [luts      |-> <<lut(Xor, <<1, 2>>, 4), lut(And, <<1, 2, 1, 1>>, 5),
                   lut(Xor3, <<1, 3, 5>>, 6), lut(Maj3, <<1, 3, 5>>, 7)>>,
   ffs       |-> <<>>,
   constants |-> <<>>]

\* A feedback shift register, from the last stage to the first as in
\* benchmark.cpp, and its feedback gate.
Lfsr ==
  [luts      |-> <<lut(Xor, <<3, 2>>, 4)>>,
   ffs       |-> <<ff(2, 3), ff(1, 2), ff(4, 1)>>,
   constants |-> <<>>]

\* A chain in source order: each D is the Q of the flip-flop before it.
ForwardChain ==
  [luts      |-> <<>>,
   ffs       |-> <<ff(1, 2), ff(2, 3)>>,
   constants |-> (1 :> {0})]

\* Inputs past the nets of the smallest core, outputs inside.
ReadsOutside ==
  [luts      |-> <<lut(Xor, <<1, 6>>, 2)>>,
   ffs       |-> <<ff(6, 1)>>,
   constants |-> (6 :> {0})]

MCConfigs == {Blinker, TwoLevels, Ripple, Lfsr, ForwardChain, ReadsOutside}

\* Enough for every design; too few table entries; no flip-flop buffer; too
\* few nets for every design but the toggling register.
MCSizes ==
  { [signals |-> 8, luts |-> 5, ffs |-> 3],
    [signals |-> 8, luts |-> 4, ffs |-> 1],
    [signals |-> 8, luts |-> 1, ffs |-> 0],
    [signals |-> 3, luts |-> 5, ffs |-> 3] }

\* The memory past signals_ reads 0 and the tables survive; or it reads 1s,
\* and net 0 is overwritten.
MCDebris == { [n \in {} |-> Zero], [n \in {0, 3, 6} |-> AllOnes] }

MCLanes == {0, 1}
MCInputWords == {Zero, {0}}
=============================================================================
