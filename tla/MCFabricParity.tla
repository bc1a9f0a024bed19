--------------------------- MODULE MCFabricParity --------------------------
(* Model checking of FabricParity.                                         *)
EXTENDS FabricParity, TLC

\* mapper.cpp's truth tables
And  == {15}
Or   == 1..15
Xor  == {1, 2, 5, 6, 9, 10, 13, 14}
Xor3 == {1, 2, 4, 7, 9, 10, 12, 15}
Maj3 == {3, 5, 6, 7, 11, 13, 14, 15}
Not  == {0, 2, 4, 6, 8, 10, 12, 14}

lut(table, inputs, output) == [tt |-> table, in |-> inputs, out |-> output]
ff(from, to) == [d |-> from, q |-> to]

\* Two independent full adders: the four LUTs of the group read only inputs.
TwoAdders ==
  [luts       |-> <<lut(Xor3, <<1, 2, 3>>, 4), lut(Maj3, <<1, 2, 3>>, 5),
                    lut(Xor3, <<2, 3, 0>>, 6), lut(Maj3, <<2, 3, 0>>, 7),
                    lut(Xor, <<4, 7>>, 8)>>,
   ffs        |-> <<>>,
   constants  |-> <<>>,
   total_nets |-> 9]

\* A two-bit ripple-carry adder: the third and the fourth LUT read the carry
\* the second one computes.
Ripple ==
  [luts       |-> <<lut(Xor, <<1, 2>>, 4), lut(And, <<1, 2, 1, 1>>, 5),
                    lut(Xor3, <<1, 3, 5>>, 6), lut(Maj3, <<1, 3, 5>>, 7)>>,
   ffs        |-> <<>>,
   constants  |-> <<>>,
   total_nets |-> 8]

\* A gate of two inputs that looks at all four: an OR with net 0 set.
ShortOr ==
  [luts       |-> <<lut(Or, <<1, 2>>, 3)>>,
   ffs        |-> <<>>,
   constants  |-> (0 :> {0}),
   total_nets |-> 4]

\* Readers before their drivers: no pass settles them, but both evaluators
\* are late by the same pass.
Backwards ==
  [luts       |-> <<lut(Not, <<2>>, 3), lut(Xor, <<1, 3>>, 2)>>,
   ffs        |-> <<ff(3, 0), ff(0, 1)>>,
   constants  |-> <<>>,
   total_nets |-> 4]

\* Assigns in source order, the reader before the driver it reads.
Unordered ==
  [luts       |-> <<lut(Or, <<0, 3>>, 2), lut(Not, <<1>>, 3)>>,
   ffs        |-> <<>>,
   constants  |-> (0 :> {0}),
   total_nets |-> 4]

\* A register whose D and Q share the net its gate drives: q <= q ^ 1.
SharedNet ==
  [luts       |-> <<lut(Xor, <<1, 2>>, 1)>>,
   ffs        |-> <<ff(1, 1)>>,
   constants  |-> (2 :> {0}),
   total_nets |-> 3]

\* A feedback shift register, clocked from the last stage to the first.
Lfsr ==
  [luts       |-> <<lut(Xor, <<3, 2>>, 4)>>,
   ffs        |-> <<ff(2, 3), ff(1, 2), ff(4, 1)>>,
   constants  |-> (1 :> {0}),
   total_nets |-> 5]

\* A chain in source order: each D is the Q of the flip-flop before it.
ForwardChain ==
  [luts       |-> <<>>,
   ffs        |-> <<ff(1, 2), ff(2, 3)>>,
   constants  |-> (1 :> {0}),
   total_nets |-> 4]

\* One net more than the core has, driven and clocked.
OneNetMore ==
  [luts       |-> <<lut(Not, <<1>>, 9)>>,
   ffs        |-> <<ff(9, 1)>>,
   constants  |-> <<>>,
   total_nets |-> 10]

MCConfigs ==
  { TwoAdders, Ripple, ShortOr, Backwards, Unordered, SharedNet, Lfsr, ForwardChain,
    OneNetMore }
MCSize == [signals |-> 9, luts |-> 5, ffs |-> 3]
\* What lies past the nets reads 1s; stored over, the tables set net 0.
MCDebris == { [n \in {0, 9} |-> AllOnes] }
MCLanes == {0}
MCInputWords == {Zero, {0}}
MCDurations == {0, 5}
=============================================================================
