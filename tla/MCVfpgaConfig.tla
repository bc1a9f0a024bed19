--------------------------- MODULE MCVfpgaConfig ---------------------------
(* Model checking of VfpgaConfig.  The magic and version sum to 308, so a  *)
(* sum of 510, the next multiple of 255, needs 202 more in counts or       *)
(* padding.                                                                *)
EXTENDS VfpgaConfig

Nothing == [i \in 1..10 |-> 0]

\* No counts, lut_count + ff_count = 202, and the same with a vio_count.
MCPayloads ==
  { Nothing,
    [Nothing EXCEPT ![1] = 100, ![3] = 102],
    [Nothing EXCEPT ![1] = 100, ![3] = 102, ![9] = 7] }
MCPaddings == { <<0, 0>>, <<201, 1>> }
\* A high byte of 2 is the right one for a sum of 510.
MCRotBytes == {0, 2, 255}
MCCuts == {0, 7, 19}
=============================================================================
