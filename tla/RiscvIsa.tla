------------------------------ MODULE RiscvIsa ------------------------------
(***************************************************************************)
(* The arithmetic and the instruction fields of the RV32I emulator         *)
(* (src/riscv/riscv_cpu.cpp) at their real width.  A 32-bit value is the   *)
(* set of its bits that are 1, so that TLC's integers never carry one.     *)
(***************************************************************************)
EXTENDS Integers, FiniteSetsExt

Places == 0..31
Register == SUBSET Places

ToSetOfBits(n) == { i \in 0..30 : (n \div 2^i) % 2 = 1 }
-----------------------------------------------------------------------------
(* uint32_t and int32_t *)

(* The carry into a place: below it, the last place where a and b agree    *)
(* decides, for the others propagate what comes in.                        *)
Carry(a, b, in, place) ==
  LET agree == { j \in 0 .. place - 1 : (j \in a) = (j \in b) }
  IN  IF agree = {} THEN in ELSE Max(agree) \in a

Xor(a, b) == (a \ b) \cup (b \ a)

(* The operands are bound as elements, so that TLC evaluates each once.    *)
SumOf(a, b, in) ==
  CHOOSE sum \in { Xor(Xor(x, y), { i \in Places : Carry(x, y, in, i) }) : x \in {a}, y \in {b} } :
    TRUE
Plus(a, b) == SumOf(a, b, FALSE)
Minus(a, b) == SumOf(a, Places \ b, TRUE)

Below(a, b) == \E i \in b \ a : \A j \in a \ b : j < i
SignedBelow(a, b) == Below(Xor(a, {31}), Xor(b, {31}))

ShiftLeft(a, n) == { i \in Places : i - n \in a }
ShiftRight(a, n) == { i \in Places : i + n \in a }
ShiftRightSigned(a, n) == ShiftRight(a, n) \cup (IF 31 \in a THEN 32 - n .. 31 ELSE {})

(* Mutant: the sign bit is taken one place too high.                       *)
SignExtendOffByOne(v, bits) == Minus(Xor(v, {bits}), {bits})

(* sign_extend(): flip the sign bit, then subtract it.                     *)
SignExtend(v, bits) == Minus(Xor(v, {bits - 1}), {bits - 1})

-----------------------------------------------------------------------------
(* Instruction fields *)

(* `len` bits of an instruction from place `from`, put at place `to`.      *)
Place(w, from, len, to) == { to + i : i \in { j \in 0 .. len - 1 : from + j \in w } }

(* The number in those bits, read from the highest down.                   *)
Field(w, from, len) ==
  LET read[k \in 0..len] ==
        IF k = 0 THEN 0 ELSE 2 * read[k - 1] + (IF from + len - k \in w THEN 1 ELSE 0)
  IN  read[len]

Opcode(w) == Field(w, 0, 7)
Rd(w) == Field(w, 7, 5)
Funct3(w) == Field(w, 12, 3)
Rs1(w) == Field(w, 15, 5)
Rs2(w) == Field(w, 20, 5)
Alternate(w) == Field(w, 25, 7) = \h20
CsrAddress(w) == Field(w, 20, 12)

ImmI(w) == SignExtend(Place(w, 20, 12, 0), 12)
ImmS(w) == SignExtend(Place(w, 7, 5, 0) \cup Place(w, 25, 7, 5), 12)
ImmB(w) == SignExtend(Place(w, 7, 1, 11) \cup Place(w, 8, 4, 1) \cup
                      Place(w, 25, 6, 5) \cup Place(w, 31, 1, 12), 13)
ImmU(w) == w \ 0..11
ImmJ(w) == SignExtend(Place(w, 21, 10, 1) \cup Place(w, 20, 1, 11) \cup
                      Place(w, 12, 8, 12) \cup Place(w, 31, 1, 20), 21)

-----------------------------------------------------------------------------
(* Operations, by funct3 *)

Flag(b) == IF b THEN {0} ELSE {}
ShiftAmount(b) == Field(b, 0, 5)

(* What register and immediate operations share.                           *)
Logic(f3, alternate, a, b) ==
  CASE f3 = 1 -> ShiftLeft(a, ShiftAmount(b))
    [] f3 = 2 -> Flag(SignedBelow(a, b))
    [] f3 = 3 -> Flag(Below(a, b))
    [] f3 = 4 -> Xor(a, b)
    [] f3 = 5 -> IF alternate THEN ShiftRightSigned(a, ShiftAmount(b))
                              ELSE ShiftRight(a, ShiftAmount(b))
    [] f3 = 6 -> a \cup b
    [] f3 = 7 -> a \cap b

RegisterResult(w, a, b) ==
  IF Funct3(w) = 0 THEN IF Alternate(w) THEN Minus(a, b) ELSE Plus(a, b)
  ELSE Logic(Funct3(w), Alternate(w), a, b)

ImmediateResult(w, a) ==
  IF Funct3(w) = 0 THEN Plus(a, ImmI(w)) ELSE Logic(Funct3(w), Alternate(w), a, ImmI(w))

(* Mutant: the unsigned comparison is signed.                              *)
TakenSigned(f3, a, b) ==
  \/ f3 = 0 /\ a = b
  \/ f3 = 1 /\ a # b
  \/ f3 \in {4, 6} /\ SignedBelow(a, b)
  \/ f3 \in {5, 7} /\ ~SignedBelow(a, b)

(* Whether a branch is taken; an unknown condition never is.               *)
BranchTaken(f3, a, b) ==
  \/ f3 = 0 /\ a = b
  \/ f3 = 1 /\ a # b
  \/ f3 = 4 /\ SignedBelow(a, b)
  \/ f3 = 5 /\ ~SignedBelow(a, b)
  \/ f3 = 6 /\ Below(a, b)
  \/ f3 = 7 /\ ~Below(a, b)

(* The value a CSR instruction writes; `operand` is a register or an       *)
(* immediate.                                                              *)
CsrResult(f3, old, operand) ==
  CASE f3 \in {1, 5} -> operand
    [] f3 \in {2, 6} -> old \cup operand
    [] f3 \in {3, 7} -> old \ operand
    [] OTHER -> {}

(* mstatus, mie, mscratch, mepc, mcause and mip; no other CSR exists.      *)
SupportedCsrs == {\h300, \h304, \h340, \h341, \h342, \h344}
=============================================================================
