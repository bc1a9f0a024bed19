----------------------------- MODULE HdlMeaning ----------------------------
(***************************************************************************)
(* What the text of a design says, with nothing of how it is built: named  *)
(* values, assigns that hold at all times, and registers that all take     *)
(* their next value at once, at a clock edge.                              *)
(***************************************************************************)
EXTENDS HdlPrograms

CONSTANT Programs

VARIABLES program, ins, regs, outs

meaningVars == <<program, ins, regs, outs>>

MeaningInit ==
  /\ program = Nothing
  /\ ins = [n \in {} |-> {}] /\ regs = [n \in {} |-> {}] /\ outs = [n \in {} |-> {}]

(* The fabric of a new design is all zero, its outputs too.                *)
Take ==
  /\ program = Nothing
  /\ program' \in Programs
  /\ ins' = [n \in program'.inputs |-> {}]
  /\ regs' = [n \in program'.registers |-> {}]
  /\ outs' = [n \in program'.outputs |-> {}]

SetInput ==
  /\ \E n \in program.inputs :
       \E v \in SUBSET (0 .. program.width[n] - 1) : ins' = [ins EXCEPT ![n] = v]
  /\ outs' = Outputs(program, ins', regs)
  /\ UNCHANGED <<program, regs>>

ClockEdge ==
  /\ regs' = NextRegisters(program, ins, regs)
  /\ outs' = Outputs(program, ins, regs')
  /\ UNCHANGED <<program, ins>>

MeaningSpec == MeaningInit /\ [][Take \/ SetInput \/ ClockEdge]_meaningVars

=============================================================================
