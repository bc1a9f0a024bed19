------------------------------ MODULE RiscvSoc ------------------------------
(***************************************************************************)
(* The virtual system on a chip: the RV32I emulator (src/riscv/riscv_cpu,  *)
(* riscv_memory) with a VFPGA core behind its memory-mapped registers      *)
(* (riscv_soc_demo).  Loading the output register calls back into the      *)
(* fabric, which writes the two inputs and runs the core's combinational   *)
(* loop before the load completes.                                         *)
(*                                                                         *)
(* The program that owns the objects is a script of calls: it may reset    *)
(* the CPU, connect the fabric, load a program, run it, and read and write *)
(* the fabric's registers itself in between.                               *)
(***************************************************************************)
EXTENDS RiscvIsa, VFpgaFabric

CONSTANTS
  Scripts,  (* name -> [calls, ends]: what is called, what it should leave *)
  RamSize,  (* bytes of RAM; 64 * 1024 there                               *)
  Strays    (* words that may be found before RAM, see Words               *)

(* There are 32 of them.                                                   *)
ASSUME LanesAssumption == Lanes # {}
ASSUME StraysAssumption == Strays \subseteq Register
ASSUME RamSizeAssumption == RamSize \in 4 .. 2^17

(* A program fits where it is loaded, as each there does by far.           *)
ASSUME ScriptsAssumption ==
  \A name \in DOMAIN Scripts :
    LET calls == Scripts[name].calls IN
    /\ Len(calls) \in Nat
    /\ \A k \in 1..Len(calls) :
         /\ calls[k].call = "load" => Len(calls[k].words) \in 0 .. RamSize \div 4
         /\ calls[k].call = "run" => calls[k].n \in Nat

VARIABLES
  script,   (* the name of the script of this run                          *)
  made,     (* how many of its calls have been made                        *)
  left,     (* instructions left of run()                                  *)
  pc, regs, csrs,
  ram,      (* data_: address -> byte, for the bytes ever written          *)
  connected,(* the I/O handler is registered                               *)
  fabric,   (* SocFabric: a, b and truth_table                             *)
  stage,    (* where a read of the fabric's output is, "none" outside it   *)
  seen      (* what the owner last read from the output register           *)

(* VFpgaCore fabric.core                                                   *)
VARIABLES
  initialized, bufs, live, max, signals, luts, ffs, phase, idx, cycles, start, overrun

FabricSize == [signals |-> 16, luts |-> 4, ffs |-> 0]
Core == INSTANCE VFpgaCore WITH
  Sizes <- {FabricSize}, Configs <- {}, InputWords <- {}, MaxCycles <- 0,
  Debris <- {[n \in {} |-> Zero]}  \* the nets of the gate are in the core

coreVars ==
  <<initialized, bufs, live, max, signals, luts, ffs, phase, idx, cycles, start, overrun>>
cpuVars == <<pc, regs, csrs, ram>>
socVars == <<script, made, left, cpuVars, connected, fabric, stage, seen, coreVars>>

NetA == 10
NetB == 11
NetY == 12

(* Offsets of the registers from MMIO_BASE, \h10000000.                    *)
MmioBase == {28}
RegA == MmioBase
RegB == MmioBase \cup {2}
RegY == MmioBase \cup {3}
RegTT == MmioBase \cup {2, 3}

SocInit ==
  /\ script \in DOMAIN Scripts
  /\ made = 0
  /\ left = 0
  /\ pc = {} /\ regs = [r \in 0..31 |-> {}] /\ csrs = [c \in SupportedCsrs |-> {}]
  /\ ram = [a \in {} |-> {}]
  /\ connected = FALSE
  /\ fabric = [a |-> FALSE, b |-> FALSE, tt |-> {3, 7, 11, 15}]
  /\ stage = "none"
  /\ seen = {}
  /\ Core!Init

-----------------------------------------------------------------------------
(* The fabric behind the registers *)

(* Mutant: the second input of the gate is its own output.                 *)
GateMisplaced(tt) == [tt |-> tt, in |-> <<NetA, NetY, 0, 0>>, out |-> NetY]

Gate(tt) == [tt |-> tt, in |-> <<NetA, NetB, 0, 0>>, out |-> NetY]
GateConfig(tt) == [luts |-> <<Gate(tt)>>, ffs |-> <<>>, constants |-> [n \in {} |-> Zero]]

(* Mutant: the table keeps more than its 16 bits.                          *)
FabricWriteWide(addr, data) ==
  CASE addr = RegA -> fabric' = [fabric EXCEPT !.a = 0 \in data] /\ UNCHANGED coreVars
    [] addr = RegB -> fabric' = [fabric EXCEPT !.b = 0 \in data] /\ UNCHANGED coreVars
    [] addr = RegTT -> /\ fabric' = [fabric EXCEPT !.tt = data]
                       /\ Core!LoadConfig(GateConfig(fabric'.tt))
    [] OTHER -> UNCHANGED <<fabric, coreVars>>

(* soc_write(): a write of the whole register, whatever store made it.     *)
FabricWrite(addr, data) ==
  CASE addr = RegA -> fabric' = [fabric EXCEPT !.a = 0 \in data] /\ UNCHANGED coreVars
    [] addr = RegB -> fabric' = [fabric EXCEPT !.b = 0 \in data] /\ UNCHANGED coreVars
    [] addr = RegTT -> /\ fabric' = [fabric EXCEPT !.tt = data \cap 0..15]
                       /\ Core!LoadConfig(GateConfig(fabric'.tt))
    [] OTHER -> UNCHANGED <<fabric, coreVars>>

Driven(b) == IF b THEN AllOnes ELSE Zero

(* fabric_apply(), one call at a time.                                     *)
ApplyA ==
  /\ stage = "a"
  /\ Core!WriteInput(NetA, Driven(fabric.a))
  /\ stage' = "b"
  /\ UNCHANGED <<script, made, left, cpuVars, connected, fabric, seen>>

ApplyB ==
  /\ stage = "b"
  /\ Core!WriteInput(NetB, Driven(fabric.b))
  /\ stage' = "evaluate"
  /\ UNCHANGED <<script, made, left, cpuVars, connected, fabric, seen>>

ApplyEvaluate ==
  /\ stage = "evaluate"
  /\ Core!EvaluateCombinational
  /\ stage' = "loop"
  /\ UNCHANGED <<script, made, left, cpuVars, connected, fabric, seen>>

CoreRuns ==
  /\ stage = "loop"
  /\ Core!Compute
  /\ UNCHANGED <<script, made, left, cpuVars, connected, fabric, stage, seen>>

(* soc_read() of the output register returns.                              *)
FabricReady == stage = "loop" /\ phase = "idle"
Output == Flag(NetY \in DOMAIN signals /\ signals[NetY] # Zero)

-----------------------------------------------------------------------------
(* Memory *)

IsMmio(addr) == addr \ 0..13 = MmioBase
Location(addr) == Field(addr, 0, 18)
InRam(addr, n) == addr \subseteq 0..17 /\ Location(addr) + n <= RamSize
RamByte(a) == IF a \in DOMAIN ram THEN ram[a] ELSE {}

(* Reads of other registers than the output, and without a handler, are 0. *)
MmioRead(addr) == IF connected /\ addr = RegY THEN Output ELSE {}

ReadByte(addr) ==
  IF IsMmio(addr) THEN MmioRead(addr) \cap 0..7
  ELSE IF InRam(addr, 1) THEN RamByte(Location(addr)) ELSE {}

ReadHalf(addr) == ReadByte(addr) \cup { i + 8 : i \in ReadByte(Plus(addr, {0})) }

WordAt(a) == UNION { { i + 8 * k : i \in RamByte(a + k) } : k \in 0..3 }

ReadWord(addr) ==
  IF IsMmio(addr) THEN MmioRead(addr)
  ELSE IF InRam(addr, 4) THEN WordAt(Location(addr)) ELSE {}

(* The words at the last four addresses: addr + 4 wraps to a small number, *)
(* which passes the bounds check, and so does the pointer.  The first of   *)
(* their bytes lie before the buffer and are anything; the others, if any, *)
(* are the first of RAM.                                                   *)
Wraps(addr) == 2..31 \subseteq addr
First(addr) == IF Wraps(addr) THEN Field(addr, 0, 2) - 4 ELSE Location(addr)
Words(addr) ==
  IF Wraps(addr)
  THEN { Place(stray, 0, 0 - 8 * First(addr), 0) \cup WordAt(First(addr)) : stray \in Strays }
  ELSE {ReadWord(addr)}

(* A store is a set of writes of 1 or 4 bytes, each to RAM or to MMIO.     *)
(* A halfword is two writes of one byte.                                   *)
Write(addr, n, data) == [addr |-> addr, n |-> n, data |-> data]

StoreWrites(f3, addr, v) ==
  CASE f3 = 0 -> { Write(addr, 1, v \cap 0..7) }
    [] f3 = 1 -> { Write(addr, 1, v \cap 0..7),
                   Write(Plus(addr, {0}), 1, Place(v, 8, 8, 0)) }
    [] f3 = 2 -> { Write(addr, 4, v) }
    [] OTHER  -> {}

ToRam(w) == ~IsMmio(w.addr) /\ (InRam(w.addr, w.n) \/ (w.n = 4 /\ Wraps(w.addr)))

(* The handler gets the write and has a register there that takes it.      *)
ToFabric(w) == connected /\ w.addr \in {RegA, RegB, RegTT}

(* The bytes a write leaves in RAM.  Those of a word that lie before it are*)
(* lost to the machine, but for what a load finds there.                   *)
Stored(w) ==
  LET first == First(w.addr)
  IN  [x \in { y \in first .. first + w.n - 1 : y >= 0 } |-> Place(w.data, 8 * (x - first), 8, 0)]

RamAfter(writes) ==
  LET stored == { Stored(w) : w \in { u \in writes : ToRam(u) } }
      places == UNION { DOMAIN s : s \in stored }
  IN  [x \in DOMAIN ram \cup places |->
         IF x \in places THEN (CHOOSE s \in stored : x \in DOMAIN s)[x] ELSE ram[x]]

-----------------------------------------------------------------------------
(* Instructions.  Each is one step, but for loads that read the output of  *)
(* the fabric.                                                             *)

(* An instruction may be fetched and carried out.  No script executes the  *)
(* output register.                                                        *)
Fetches == left > 0 /\ stage = "none" /\ pc # RegY

Source1(inst) == regs[Rs1(inst)]
Source2(inst) == regs[Rs2(inst)]

(* Mutant: x0 is an ordinary register.                                     *)
WrittenAnywhere(rd, v) == [regs EXCEPT ![rd] = v]

(* x0 is set back to 0.                                                    *)
Written(rd, v) == [regs EXCEPT ![rd] = IF rd = 0 THEN {} ELSE v]

Retire(newRegs, newPc) ==
  /\ regs' = newRegs
  /\ pc' = newPc
  /\ left' = left - 1
  /\ UNCHANGED <<script, made, connected, seen>>

NextPc == Plus(pc, {2})

RegisterOp(inst) ==
  /\ Opcode(inst) = \h33
  /\ Retire(Written(Rd(inst), RegisterResult(inst, Source1(inst), Source2(inst))), NextPc)
  /\ UNCHANGED <<csrs, ram, fabric, stage, coreVars>>

(* addi x0, x0, 0, which the code tests for first, is no different.        *)
ImmediateOp(inst) ==
  /\ Opcode(inst) = \h13
  /\ Retire(Written(Rd(inst), ImmediateResult(inst, Source1(inst))), NextPc)
  /\ UNCHANGED <<csrs, ram, fabric, stage, coreVars>>

LoadAddress(inst) == Plus(Source1(inst), ImmI(inst))

(* The load reads the output register, in one of its bytes.                *)
ReadsOutput(inst) ==
  /\ connected
  /\ \/ Funct3(inst) \in {0, 1, 2, 4, 5} /\ LoadAddress(inst) = RegY
     \/ Funct3(inst) \in {1, 5} /\ Plus(LoadAddress(inst), {0}) = RegY

LoadResult(inst, word) ==
  CASE Funct3(inst) = 0 -> SignExtend(ReadByte(LoadAddress(inst)), 8)
    [] Funct3(inst) = 1 -> SignExtend(ReadHalf(LoadAddress(inst)), 16)
    [] Funct3(inst) = 2 -> word
    [] Funct3(inst) = 4 -> ReadByte(LoadAddress(inst))
    [] Funct3(inst) = 5 -> ReadHalf(LoadAddress(inst))
    [] OTHER -> regs[Rd(inst)]

Load(inst) ==
  /\ Opcode(inst) = \h03
  /\ ~ReadsOutput(inst)
  /\ \E word \in Words(LoadAddress(inst)) :
       Retire(Written(Rd(inst), LoadResult(inst, word)), NextPc)
  /\ UNCHANGED <<csrs, ram, fabric, stage, coreVars>>

(* The callback into the fabric begins, and the load completes after it.   *)
BeginLoad(inst) ==
  /\ Opcode(inst) = \h03
  /\ ReadsOutput(inst)
  /\ stage' = "a"
  /\ UNCHANGED <<script, made, left, cpuVars, connected, fabric, seen, coreVars>>

EndLoad(inst) ==
  /\ stage' = "none"
  /\ Retire(Written(Rd(inst), LoadResult(inst, Output)), NextPc)
  /\ UNCHANGED <<csrs, ram, fabric, coreVars>>

StoreAddress(inst) == Plus(Source1(inst), ImmS(inst))

Store(inst) ==
  /\ Opcode(inst) = \h23
  /\ \E writes \in {StoreWrites(Funct3(inst), StoreAddress(inst), Source2(inst))} :
       /\ ram' = RamAfter(writes)
       /\ \/ \E w \in writes : ToFabric(w) /\ FabricWrite(w.addr, w.data)
          \/ /\ \A w \in writes : ~ToFabric(w)
             /\ UNCHANGED <<fabric, coreVars>>
  /\ Retire(regs, NextPc)
  /\ UNCHANGED <<csrs, stage>>

Branch(inst) ==
  /\ Opcode(inst) = \h63
  /\ Retire(regs, Plus(pc, IF BranchTaken(Funct3(inst), Source1(inst), Source2(inst)) THEN ImmB(inst) ELSE {2}))
  /\ UNCHANGED <<csrs, ram, fabric, stage, coreVars>>

LoadUpper(inst) ==
  /\ Opcode(inst) = \h37
  /\ Retire(Written(Rd(inst), ImmU(inst)), NextPc)
  /\ UNCHANGED <<csrs, ram, fabric, stage, coreVars>>

AddUpper(inst) ==
  /\ Opcode(inst) = \h17
  /\ Retire(Written(Rd(inst), Plus(pc, ImmU(inst))), NextPc)
  /\ UNCHANGED <<csrs, ram, fabric, stage, coreVars>>

Jump(inst) ==
  /\ Opcode(inst) = \h6F
  /\ Retire(Written(Rd(inst), NextPc), Plus(pc, ImmJ(inst)))
  /\ UNCHANGED <<csrs, ram, fabric, stage, coreVars>>

(* The target is computed before the link register is written.             *)
JumpRegister(inst) ==
  /\ Opcode(inst) = \h67
  /\ Retire(Written(Rd(inst), NextPc), Plus(Source1(inst), ImmI(inst)) \ {0})
  /\ UNCHANGED <<csrs, ram, fabric, stage, coreVars>>

(* ecall and ebreak do nothing; a CSR that does not exist reads as 0.      *)
System(inst) ==
  /\ Opcode(inst) = \h73
  /\ LET csr     == CsrAddress(inst)
         old     == IF csr \in SupportedCsrs THEN csrs[csr] ELSE {}
         operand == IF Funct3(inst) \in 1..3 THEN Source1(inst) ELSE Place(inst, 15, 5, 0)
     IN  IF Funct3(inst) = 0
         THEN Retire(regs, NextPc) /\ UNCHANGED csrs
         ELSE /\ csrs' = [c \in SupportedCsrs |->
                            IF c = csr THEN CsrResult(Funct3(inst), old, operand) ELSE csrs[c]]
              /\ Retire(Written(Rd(inst), old), NextPc)
  /\ UNCHANGED <<ram, fabric, stage, coreVars>>

(* An unknown opcode is skipped.                                           *)
Opcodes == {\h33, \h13, \h03, \h23, \h63, \h37, \h17, \h6F, \h67, \h73}

UnknownOp(inst) ==
  /\ Opcode(inst) \notin Opcodes
  /\ Retire(regs, NextPc)
  /\ UNCHANGED <<csrs, ram, fabric, stage, coreVars>>

-----------------------------------------------------------------------------
(* The owner's calls *)

Calls == Scripts[script].calls
NextCall == Calls[made + 1]

Called(name) ==
  /\ left = 0 /\ stage = "none"
  /\ made < Len(Calls)
  /\ NextCall.call = name
  /\ made' = made + 1

(* core.init(16, 4, 0), which may find no memory.                          *)
InitFabric ==
  /\ Called("init")
  /\ \E got \in SUBSET Core!Needed(FabricSize) : Core!CoreInit(FabricSize, got)
  /\ UNCHANGED <<script, left, cpuVars, connected, fabric, stage, seen>>

(* reset() takes new RAM, all zero; what it had is not freed.              *)
ResetCpu ==
  /\ Called("reset")
  /\ pc' = {} /\ regs' = [r \in 0..31 |-> {}] /\ csrs' = [c \in SupportedCsrs |-> {}]
  /\ ram' = [x \in {} |-> {}]
  /\ UNCHANGED <<script, left, connected, fabric, stage, seen, coreVars>>

Connect ==
  /\ Called("connect")
  /\ connected' = TRUE
  /\ UNCHANGED <<script, left, cpuVars, fabric, stage, seen, coreVars>>

(* load_program() at address 0.                                            *)
LoadProgram ==
  /\ Called("load")
  /\ LET words == NextCall.words IN
       ram' = [x \in DOMAIN ram \cup 0 .. 4 * Len(words) - 1 |->
                 IF x < 4 * Len(words) THEN Place(words[x \div 4 + 1], 8 * (x % 4), 8, 0)
                 ELSE ram[x]]
  /\ UNCHANGED <<script, left, pc, regs, csrs, connected, fabric, stage, seen, coreVars>>

Run ==
  /\ Called("run")
  /\ left' = NextCall.n
  /\ UNCHANGED <<script, cpuVars, connected, fabric, stage, seen, coreVars>>

OwnerWrites ==
  /\ Called("write")
  /\ FabricWrite(NextCall.addr, NextCall.data)
  /\ UNCHANGED <<script, left, cpuVars, connected, stage, seen>>

OwnerReads ==
  /\ Called("read")
  /\ stage' = "a"
  /\ UNCHANGED <<script, left, cpuVars, connected, fabric, seen, coreVars>>

OwnerHasRead ==
  /\ left = 0
  /\ FabricReady
  /\ stage' = "none"
  /\ seen' = Output
  /\ UNCHANGED <<script, made, left, cpuVars, connected, fabric, coreVars>>

Execute(inst) ==
  \/ RegisterOp(inst)
  \/ ImmediateOp(inst)
  \/ Load(inst)
  \/ BeginLoad(inst)
  \/ Store(inst)
  \/ Branch(inst)
  \/ LoadUpper(inst)
  \/ AddUpper(inst)
  \/ Jump(inst)
  \/ JumpRegister(inst)
  \/ System(inst)
  \/ UnknownOp(inst)

(* step()                                                                  *)
Instruction == Fetches /\ \E inst \in Words(pc) : Execute(inst)
LoadReturns == left > 0 /\ FabricReady /\ \E inst \in {ReadWord(pc)} : EndLoad(inst)

SocNext ==
  \/ Instruction
  \/ LoadReturns
  \/ ApplyA
  \/ ApplyB
  \/ ApplyEvaluate
  \/ CoreRuns
  \/ InitFabric
  \/ ResetCpu
  \/ Connect
  \/ LoadProgram
  \/ Run
  \/ OwnerWrites
  \/ OwnerReads
  \/ OwnerHasRead

(* One thread, and no call blocks.                                         *)
SocSpec == SocInit /\ [][SocNext]_socVars /\ WF_socVars(SocNext)

-----------------------------------------------------------------------------
(* Properties *)

(* The types; x0 is 0 whatever instruction names it as its destination.    *)
SocTypeOK ==
  /\ pc \in Register
  /\ regs \in [0..31 -> Register] /\ regs[0] = {}
  /\ csrs \in [SupportedCsrs -> Register]
  /\ DOMAIN ram \subseteq 0 .. RamSize - 1
  /\ \A x \in DOMAIN ram : ram[x] \subseteq 0..7
  /\ fabric \in [a : BOOLEAN, b : BOOLEAN, tt : TruthTable]
  /\ stage \in {"none", "a", "b", "evaluate", "loop"}
  /\ left \in Nat

(* A read of the output register returns the truth table's entry for the   *)
(* inputs software has written, in whatever order inputs and tables were   *)
(* written, by stores of any width or by the owner, and although writing a *)
(* table clears every net of the core: the callback writes the inputs again*)
(* before it runs the core's loop.  It returns 0 as long as no table has   *)
(* been written, and of a core that has found no memory.                   *)
YIsLookup ==
  FabricReady =>
    (Output # {} <=> /\ initialized /\ luts # <<>>
                     /\ Bit(fabric.a) + 2 * Bit(fabric.b) \in fabric.tt)

(* The programs and demos of the repository leave the results they are     *)
(* checked against (isa_test_vectors.h, riscv_soc_demo.cpp), if the core   *)
(* has got its memory.                                                     *)
Finished == made = Len(Calls) /\ left = 0 /\ stage = "none"
EndsAs(ends) ==
  /\ \A r \in DOMAIN ends.regs : regs[r] = ends.regs[r]
  /\ \A x \in DOMAIN ends.ram : WordAt(x) = ends.ram[x]
  /\ seen \in ends.seen

ScriptsEndAsExpected ==
  Finished /\ (\A k \in 1..Len(Calls) : Calls[k].call = "init" => initialized)
    => EndsAs(Scripts[script].ends)

(* Every script ends: run(n) comes back after its n instructions, also when*)
(* they call into the fabric.                                              *)
ScriptEnds == <>Finished
=============================================================================
