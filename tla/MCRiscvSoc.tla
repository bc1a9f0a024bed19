---------------------------- MODULE MCRiscvSoc ----------------------------
(* Model checking of RiscvSoc: the programs of the repository, and every   *)
(* short sequence of accesses to the registers of the fabric.              *)
EXTENDS RiscvSoc, TLC

W(hi, lo) == { i + 16 : i \in ToSetOfBits(hi) } \cup ToSetOfBits(lo)

\* isa_test_vectors.h
IsaProgram ==
  << W(\h00C0, \h0093), W(\h00A0, \h0113), W(\hFFF0, \h0193), W(\h8000, \h0237),
     W(\h0000, \h12B7), W(\h0000, \h1337), W(\h2003, \h0313), W(\h0020, \h83B3),
     W(\h0073, \h2023), W(\h4020, \h83B3), W(\h0073, \h2223), W(\h0020, \h93B3),
     W(\h0073, \h2423), W(\h0011, \hA3B3), W(\h0073, \h2623), W(\h0030, \hB3B3),
     W(\h0073, \h2823), W(\h0020, \hC3B3), W(\h0073, \h2A23), W(\h0021, \hD3B3),
     W(\h0073, \h2C23), W(\h4022, \h53B3), W(\h0073, \h2E23), W(\h0020, \hE3B3),
     W(\h0273, \h2023), W(\h0020, \hF3B3), W(\h0273, \h2223), W(\h0050, \h8393),
     W(\h0273, \h2423), W(\h0030, \h9393), W(\h0273, \h2623), W(\h0140, \hA393),
     W(\h0273, \h2823), W(\h0141, \hB393), W(\h0273, \h2A23), W(\h0FF0, \hC393),
     W(\h0273, \h2C23), W(\h0041, \hD393), W(\h0273, \h2E23), W(\h4041, \hD393),
     W(\h0473, \h2023), W(\h0FF0, \hE393), W(\h0473, \h2223), W(\h00F0, \hF393),
     W(\h0473, \h2423), W(\h0DD0, \h0393), W(\h0072, \h8023), W(\h0CC0, \h0393),
     W(\h0072, \h80A3), W(\h0BB0, \h0393), W(\h0072, \h8123), W(\h0AA0, \h0393),
     W(\h0072, \h81A3), W(\h0002, \h8383), W(\h0473, \h2623), W(\h0002, \hC383),
     W(\h0473, \h2823), W(\h0022, \h9383), W(\h0473, \h2A23), W(\h0022, \hD383),
     W(\h0473, \h2C23), W(\h0002, \hA383), W(\h0473, \h2E23), W(\h0000, \h13B7),
     W(\h2343, \h8393), W(\h0072, \h9823), W(\h0102, \h9383), W(\h0673, \h2023),
     W(\h0000, \h0393), W(\h0673, \h2223), W(\h0010, \h8463), W(\h0630, \h0393),
     W(\h0673, \h2223), W(\h0000, \h0393), W(\h0673, \h2423), W(\h0020, \h9463),
     W(\h0630, \h0393), W(\h0673, \h2423), W(\h0000, \h0393), W(\h0673, \h2623),
     W(\h0011, \hC463), W(\h0630, \h0393), W(\h0673, \h2623), W(\h0000, \h0393),
     W(\h0673, \h2823), W(\h0030, \hD463), W(\h0630, \h0393), W(\h0673, \h2823),
     W(\h0000, \h0393), W(\h0673, \h2A23), W(\h0030, \hE463), W(\h0630, \h0393),
     W(\h0673, \h2A23), W(\h0000, \h0393), W(\h0673, \h2C23), W(\h0011, \hF463),
     W(\h0630, \h0393), W(\h0673, \h2C23), W(\h0010, \h9463), W(\h04D0, \h0393),
     W(\h0673, \h2E23), W(\h0080, \h03EF), W(\h0630, \h0393), W(\h0873, \h2023),
     W(\h1A80, \h03E7), W(\h0630, \h0393), W(\h0873, \h2223), W(\h0000, \h0397),
     W(\h0873, \h2423), W(\h1234, \h53B7), W(\h0873, \h2623) >>
IsaExpected ==
  << W(\h0000, \h0016), W(\h0000, \h0002), W(\h0000, \h3000), W(\h0000, \h0001),
     W(\h0000, \h0001), W(\h0000, \h0006), W(\h003F, \hFFFF), W(\hFFE0, \h0000),
     W(\h0000, \h000E), W(\h0000, \h0008), W(\h0000, \h0011), W(\h0000, \h0060),
     W(\h0000, \h0001), W(\h0000, \h0000), W(\h0000, \h00F3), W(\h0FFF, \hFFFF),
     W(\hFFFF, \hFFFF), W(\h0000, \h00FF), W(\h0000, \h000C), W(\hFFFF, \hFFDD),
     W(\h0000, \h00DD), W(\hFFFF, \hAABB), W(\h0000, \hAABB), W(\hAABB, \hCCDD),
     W(\h0000, \h1234), W(\h0000, \h0000), W(\h0000, \h0000), W(\h0000, \h0000),
     W(\h0000, \h0000), W(\h0000, \h0000), W(\h0000, \h0000), W(\h0000, \h004D),
     W(\h0000, \h0198), W(\h0000, \h01A4), W(\h0000, \h01AC), W(\h1234, \h5000) >>

\* run_demo_riscv(): the sum of 1 to 10
SumProgram ==
  << W(\h0000, \h0513), W(\h0010, \h0593), W(\h00A0, \h0613), W(\h00B5, \h0533),
     W(\h0015, \h8593), W(\hFEB6, \h5CE3), W(\h0000, \h0013) >>

\* run_soc_demo()
DemoProgram ==
  << W(\h1000, \h02B7), W(\h0010, \h0313), W(\h0062, \hA023), W(\h0062, \hA223),
     W(\h0082, \hA383), W(\h0002, \hA023), W(\h0082, \hA403), W(\h0000, \h0013) >>

\* CSRs, x0 as a destination, ecall, unknown opcodes and widths, MMIO without
\* a handler, and addresses that are neither RAM nor MMIO.
OddProgram ==
  << W(\h1000, \h02B7), W(\h0050, \h0313), W(\h3403, \h1073), W(\h3401, \hE473),
     W(\h3400, \hF4F3), W(\h3413, \h2573), W(\h3403, \h35F3), W(\h1233, \h1673),
     W(\h3044, \hD073), W(\h3040, \h46F3), W(\h0000, \h0073), W(\h1234, \h5037),
     W(\hFFF0, \h0713), W(\h0062, \hA023), W(\h0002, \hA783), W(\hFE60, \h2C23),
     W(\hFF80, \h2803), W(\h0067, \h0023), W(\h0007, \h0883), W(\h0003, \h3303),
     W(\h0060, \h3023), W(\h0000, \h006B) >>

\* Two words stored over the end of the address space, the first of which
\* has two bytes that reach RAM, and one loaded from there.
WrapProgram ==
  << W(\hFFE0, \h0313), W(\h1122, \h33B7), W(\h3443, \h8393), W(\h0073, \h2023),
     W(\h0000, \h1403), W(\h0003, \h2483), W(\h0104, \hD493), W(\hFE73, \h2F23),
     W(\h0000, \h1503) >>

\* A = B = 1, then the table 16#7F8# by a halfword at its register, and by
\* one that begins a byte before it.
HalfProgram ==
  << W(\h1000, \h02B7), W(\h0010, \h0313), W(\h0062, \hA023), W(\h0062, \hA223),
     W(\h0082, \hA403), W(\h7F80, \h0393), W(\h0072, \h9623), W(\h0082, \hA483),
     W(\h0072, \h95A3), W(\h0082, \hA503) >>

\* x5 = the registers, x6 = 1, x7 = a table, then two of these:
\*   sw   x6, 0(x5)   A = 1
\*   sw   x0, 0(x5)   A = 0
\*   sh   x6, 4(x5)   B = 1
\*   sb   x7, 4(x5)   B = 0
\*   sw   x7, 12(x5)  the table
\*   sh   x7, 12(x5)  its low byte only
\*   sb   x6, 13(x5)  no register there
\*   sh   x6, 11(x5)  clears the table
\*   lw   x8, 8(x5)   Y
\*   lh   x8, 7(x5)   Y in the high byte
\*   lbu  x0, 8(x5)   Y, to x0
\*   sw   x6, 8(x5)   Y is not writable
\*   sw   x5, 12(x5)  wider than a table
Setup ==
  << W(\h1000, \h02B7), W(\h0010, \h0313), W(\h3060, \h0393) >>
Accesses ==
  << W(\h0062, \hA023), W(\h0002, \hA023), W(\h0062, \h9223), W(\h0072, \h8223),
     W(\h0072, \hA623), W(\h0072, \h9623), W(\h0062, \h86A3), W(\h0062, \h95A3),
     W(\h0082, \hA403), W(\h0072, \h9403), W(\h0082, \hC003), W(\h0062, \hA423),
     W(\h0052, \hA623) >>

init == [call |-> "init"]
reset == [call |-> "reset"]
connect == [call |-> "connect"]
load(words) == [call |-> "load", words |-> words]
run(n) == [call |-> "run", n |-> n]
write(reg, value) == [call |-> "write", addr |-> reg, data |-> ToSetOfBits(value)]
read == [call |-> "read"]

nothing == [n \in {} |-> {}]
any == SUBSET {0}
ends(r, m, y) == [regs |-> r, ram |-> m, seen |-> y]
goes(calls, end) == [calls |-> calls, ends |-> end]

Programs ==
  << goes(<<reset, load(IsaProgram), run(103)>>,
          ends(nothing, [x \in { \h1200 + 4 * k : k \in 0..35 } |-> IsaExpected[(x - \h1200) \div 4 + 1]], any)),
     goes(<<reset, load(SumProgram), run(35)>>, ends(10 :> ToSetOfBits(55), nothing, any)),
     goes(<<reset, load(OddProgram), run(24), reset, load(<<>>), run(2)>>,
          ends(13 :> {}, 0 :> {}, any)),
     goes(<<reset, load(WrapProgram), run(9)>>,
          ends([r \in 8..10 |-> ToSetOfBits(\h1122)], nothing, any)),
     goes(<<init, write(RegTT, \h8888), reset, connect, load(DemoProgram), run(8),
            write(RegTT, \hEEEE), write(RegA, 0), write(RegB, 1), read>>,
          ends((7 :> {0}) @@ (8 :> {}), nothing, {{0}})),
     \* without a handler, then with one that is there before the reset
     goes(<<init, write(RegTT, \h8888), reset, load(DemoProgram), run(8), connect, read, reset,
            load(DemoProgram), run(8)>>,
          ends((7 :> {0}) @@ (8 :> {}), nothing, any)),
     \* the table goes with the core
     goes(<<init, write(RegTT, \h8888), write(RegA, 1), write(RegB, 1), read, init, read>>,
          ends(nothing, nothing, {{}})),
     goes(<<init, write(RegTT, \h8888), connect, reset, load(HalfProgram), run(10)>>,
          ends((8 :> {0}) @@ (9 :> {0}) @@ (10 :> {}), nothing, any)) >>

Access(p) ==
  goes(<<init, write(RegTT, \h8888), reset, connect, load(Setup \o p), run(3 + Len(p)), read>>,
       ends(nothing, nothing, any))

\* A script is named by the numbers of a program or of two accesses.
MCScripts ==
  [name \in { <<k>> : k \in 1..Len(Programs) } \cup [1..2 -> 1..Len(Accesses)] |->
     IF Len(name) = 1 THEN Programs[name[1]]
     ELSE Access([k \in 1..2 |-> Accesses[name[k]]])]

MCStrays == {{}, Places}
MCLanes == {0, 31}
=============================================================================
