---------------------------- MODULE CommandLine ----------------------------
(***************************************************************************)
(* The command line tool (tools/cli/main.cpp) with the executor it drives, *)
(* the waveform dump (waveform/vcd) and the exit code.  The physical       *)
(* commands are in PhysicalDesign.                                         *)
(*                                                                         *)
(* What the compiler and the parser of testbenches make of the texts are   *)
(* constants here; module Toolchain says what they are.                    *)
(*                                                                         *)
(* A command line is a record with the files it names as sequences of      *)
(* tokens and what it meets outside:                                       *)
(*   command, design, testbench ("auto", "file" or "missing"), tokens,     *)
(*   cycles, wave, open, and                                               *)
(*   readable  the design can be read,  writable  the dump can be written, *)
(*   viewer    what open_wave() returns: 0, 5 without a viewer, or another.*)
(* Its other fields say what the texts were written from, for properties.  *)
(***************************************************************************)
EXTENDS TbExecutor

CONSTANTS
  CommandLines,
  Loaded,       (* design text -> what load_design() makes of it: its job, *)
                (* and the names of its inputs and outputs                 *)
  Testbenches,  (* testbench text -> [ok, cmds] of parse_testbench()       *)
  Statements,   (* every command that may be left to do, also of repeats   *)
  FarBits       (* the bits of a uint32_t that a shift by so many reaches; *)
                (* from 32 on that is up to the compiler and the processor *)

-----------------------------------------------------------------------------
(* auto_testbench() of a loaded design *)

ClockNames == {"clock", "clk"}
ResetNames == {"reset", "rst"}

(* find_input(): the first input with one of two names, if there is one.   *)
InputsNamed(d, names) == { i \in 1..Len(d.inputs) : d.inputs[i] \in names }
FindInput(d, names) == d.inputs[First(InputsNamed(d, names))]

(* Mutant: the reset stays active.                                         *)
ResetKept(name) ==
  << [type |-> "RESET", name |-> name], [type |-> "DRIVE", name |-> name, value |-> 1],
     [type |-> "WAIT_NS", value |-> 20] >>

ResetPulse(name) ==
  << [type |-> "RESET", name |-> name], [type |-> "DRIVE", name |-> name, value |-> 1],
     [type |-> "WAIT_NS", value |-> 20], [type |-> "DRIVE", name |-> name, value |-> 0] >>

ClockOf(name) == [type |-> "CLOCK", name |-> name, period |-> 10, duty |-> 50, init |-> 0]
EdgeOf(name) == [type |-> "WAIT_EDGE", name |-> name, rising |-> TRUE]
EdgesOf(name, k) == [type |-> "REPEAT", value |-> k, block |-> <<EdgeOf(name)>>]

(* Everything observable is traced, from the start.                        *)
TracesOf(d) ==
  LET ios == d.inputs \o d.outputs IN [i \in 1..Len(ios) |-> [type |-> "TRACE", name |-> ios[i]]]

CyclesAsked(n) == IF n > 0 THEN n ELSE 10
IsClocked(d) == d.job.design.ffs # <<>> /\ InputsNamed(d, ClockNames) # {}
HasReset(d) == InputsNamed(d, ResetNames) # {}

(* A design with flip-flops and a clock gets a reset and some cycles.  Any *)
(* other would get all values of its inputs that have no bit nets, but     *)
(* every declared input has them: it gets no input at all.                 *)
CyclesOf(d, n) ==
  LET clk == FindInput(d, ClockNames) IN
  <<ClockOf(clk)>> \o (IF HasReset(d) THEN ResetPulse(FindInput(d, ResetNames)) ELSE <<>>)
  \o <<EdgesOf(clk, CyclesAsked(n))>>
AutoTestbench(d, n) == TracesOf(d) \o (IF IsClocked(d) THEN CyclesOf(d, n) ELSE <<>>)

-----------------------------------------------------------------------------
ASSUME FarBitsAssumption == FarBits \in [32..63 -> SUBSET (0..31)]
LinesWith(testbench) == { line \in CommandLines : line.testbench = testbench }
ASSUME LinesAssumption ==
  /\ { line.design : line \in CommandLines } \subseteq DOMAIN Loaded
  /\ { line.tokens : line \in LinesWith("file") } \subseteq DOMAIN Testbenches
  /\ { line.cycles : line \in LinesWith("auto") } \subseteq Int
ASSUME JobsAssumption ==
  \A text \in DOMAIN Loaded :
    /\ IsJob(Loaded[text].job)
    /\ {Loaded[text].inputs, Loaded[text].outputs} \subseteq Seq(STRING)
ASSUME StatementsAssumption ==
  /\ \A c \in Statements :
       /\ IsCommand(c)
       /\ c.type = "REPEAT" =>
            /\ c.block \in Seq(Statements)
            /\ c.value > 0 => [c EXCEPT !.value = @ - 1] \in Statements
  /\ \A text \in DOMAIN Testbenches :
       Testbenches[text].ok => Testbenches[text].cmds \in Seq(Statements)
  /\ \A line \in LinesWith("auto") :
       AutoTestbench(Loaded[line.design], line.cycles) \in Seq(Statements)

VARIABLES
  argv,   (* the command line                                              *)
  stage,  (* how far it is                                                 *)
  exit,   (* the exit code                                                 *)
  dump    (* the value changes of the dump; none before it is written      *)

toolVars == <<argv, stage, exit, dump, tbVars>>

ToolInit ==
  /\ argv \in CommandLines
  /\ stage = "start"
  /\ exit = 0
  /\ dump = <<>>
  /\ TbInit

Exit(code) == stage' = "done" /\ exit' = code

-----------------------------------------------------------------------------
(* Before the simulation *)

Usage ==
  /\ stage = "start" /\ argv.command = "other"
  /\ Exit(2)
  /\ UNCHANGED <<argv, dump, tbVars>>

ViewWave ==
  /\ stage = "start" /\ argv.command = "wave"
  /\ Exit(argv.viewer)
  /\ UNCHANGED <<argv, dump, tbVars>>

CannotReadDesign ==
  /\ stage = "start" /\ argv.command \in {"compile", "signals", "sim", "verify"}
  /\ ~argv.readable
  /\ Exit(2)
  /\ UNCHANGED <<argv, dump, tbVars>>

LoadDesign ==
  /\ stage = "start" /\ argv.command \in {"compile", "signals", "sim", "verify"}
  /\ argv.readable
  /\ stage' = "loaded"
  /\ LoadJob(Loaded[argv.design].job)
  /\ UNCHANGED <<argv, exit, dump>>

(* cmd_compile() and cmd_signals(): only a report; that its file cannot be *)
(* written is not an error.                                                *)
Report ==
  /\ stage = "loaded" /\ argv.command \in {"compile", "signals"}
  /\ Exit(0)
  /\ UNCHANGED <<argv, dump, tbVars>>

Simulates == stage = "loaded" /\ argv.command \in {"sim", "verify"}

RefuseTestbench ==
  /\ Simulates
  /\ argv.testbench = "missing" \/ (argv.testbench = "file" /\ ~Testbenches[argv.tokens].ok)
  /\ Exit(3)
  /\ UNCHANGED <<argv, dump, tbVars>>

RunFile ==
  /\ Simulates /\ argv.testbench = "file"
  /\ Testbenches[argv.tokens].ok
  /\ RunTestbench(Testbenches[argv.tokens].cmds)
  /\ stage' = "running"
  /\ UNCHANGED <<argv, exit, dump>>

RunAuto ==
  /\ Simulates /\ argv.testbench = "auto"
  /\ RunTestbench(AutoTestbench(Loaded[argv.design], argv.cycles))
  /\ stage' = "running"
  /\ UNCHANGED <<argv, exit, dump>>

-----------------------------------------------------------------------------
(* The dump *)

(* vcd_signals(): the variable a net belongs to, and its bit in a bus.     *)
IsBit(net) == \E n \in DOMAIN job.ports : net \in ToSet(Bits(n))
VarOf(net) == CHOOSE n \in DOMAIN job.ports : net \in Whole(n) \cup ToSet(Bits(n))
BitOf(net) == CHOOSE b \in 0..Len(Bits(VarOf(net))) - 1 : Bits(VarOf(net))[b + 1] = net

(* A bus is kept in a uint32_t, however wide it is: the bits of it that    *)
(* 1U << b sets, and bv >> b brings to the front.                          *)
Reached(b) == IF b < 32 THEN {b} ELSE FarBits[b]

(* The bits written for it, as many as the variable is declared with.      *)
Shown(bus, var) == { b \in 0 .. Len(Bits(var)) - 1 : Reached(b) \cap bus # {} }

(* Mutant: a bus starts from 0 at each change of a bit.                    *)
BusAfterAlone(buses, s) == IF 0 \in s.value THEN Reached(BitOf(s.net)) ELSE {}

(* The value of a bus after the sample of one of its bits.                 *)
BusAfter(buses, s) ==
  LET old == IF VarOf(s.net) \in DOMAIN buses THEN buses[VarOf(s.net)] ELSE {} IN
  IF 0 \in s.value THEN old \cup Reached(BitOf(s.net)) ELSE old \ Reached(BitOf(s.net))

(* write_vcd(): a change per sample, of a bus only when it has changed.  d *)
(* is what is written so far, with the last values of the buses in it.     *)
AfterSample(d, s) ==
  LET var == VarOf(s.net)
      bus == BusAfter(d.buses, s)
      change(v) == Append(d.changes, [t |-> s.t, var |-> var, value |-> v])
  IN  IF ~IsBit(s.net) THEN [d EXCEPT !.changes = change(IF 0 \in s.value THEN {0} ELSE {})]
      ELSE IF var \in DOMAIN d.buses /\ d.buses[var] = bus THEN d
      ELSE [changes |-> change(Shown(bus, var)),
            buses   |-> [v \in DOMAIN d.buses \cup {var} |-> IF v = var THEN bus ELSE d.buses[v]]]

Changes ==
  LET after[k \in 0 .. Len(samples)] ==
        IF k = 0 THEN [changes |-> <<>>, buses |-> [v \in {} |-> {}]]
        ELSE CHOOSE r \in { AfterSample(d, samples[k]) : d \in {after[k - 1]} } : TRUE
  IN  after[Len(samples)].changes

TestbenchDone == stage = "running" /\ todo = <<>> /\ wait = NoWait
Dumps == argv.wave \/ argv.open

(* A dump that cannot be written is a failed check.                        *)
WriteDump ==
  /\ TestbenchDone /\ Dumps
  /\ stage' = "dumped"
  /\ IF argv.writable THEN dump' = Changes /\ UNCHANGED result
     ELSE Fail /\ UNCHANGED dump
  /\ UNCHANGED <<argv, exit, job, todo, wait, values, time, clocks, tracer, cycles, late>>

(* Mutant: the verdict is lost when there is no viewer.                    *)
ExitCodeOfViewer ==
  IF argv.open THEN IF argv.viewer = 5 THEN 0 ELSE argv.viewer ELSE Bit(result.failed > 0)

(* Without a viewer the verdict stands; a viewer that fails hides it.      *)
ExitCode ==
  IF argv.open /\ argv.viewer \notin {0, 5} THEN 4 ELSE Bit(result.failed > 0)

Finish ==
  /\ stage = "dumped" \/ (TestbenchDone /\ ~Dumps)
  /\ Exit(ExitCode)
  /\ UNCHANGED <<argv, dump, tbVars>>

Execute == stage = "running" /\ TbNext /\ UNCHANGED <<argv, stage, exit, dump>>

ToolNext ==
  \/ Usage
  \/ ViewWave
  \/ CannotReadDesign
  \/ LoadDesign
  \/ Report
  \/ RefuseTestbench
  \/ RunFile
  \/ RunAuto
  \/ Execute
  \/ WriteDump
  \/ Finish

(* One thread runs the command to its end.                                 *)
ToolSpec == ToolInit /\ [][ToolNext]_toolVars /\ WF_toolVars(ToolNext)

-----------------------------------------------------------------------------
(* Properties *)

ToolTypeOK ==
  /\ stage \in {"start", "loaded", "running", "dumped", "done"}
  /\ exit \in 0..4 \cup {argv.viewer}
  /\ TbTypeOK

(* A command ends, also one whose testbench waits for an edge that never   *)
(* comes.                                                                  *)
CommandEnds == <>(stage = "done")

(* Exit code 0 of verify and sim means what scripts take it for: no check  *)
(* failed, no name was unknown, no edge was missed, and the dump that was  *)
(* asked for has been written, whatever the viewer did.                    *)
ZeroMeansPassed ==
  stage = "done" /\ argv.command \in {"sim", "verify"} /\ exit = 0 =>
    /\ result.failed = 0
    /\ todo = <<>> /\ wait = NoWait
    /\ Dumps => argv.writable /\ dump = Changes

(* A testbench file either runs as the commands it was written from or,    *)
(* with any one token missing, is refused with exit code 3.                *)
TestbenchMeansItsText ==
  [][ Simulates /\ argv.testbench = "file" =>
        IF argv.cut THEN stage' = "done" /\ exit' = 3
        ELSE stage' = "running" /\ todo' = argv.commands ]_toolVars

(* The testbench made for a clocked design gives it exactly the cycles     *)
(* asked for, after two with the reset on and none lost around the change, *)
(* provided nothing in the design drives its clock or its reset.           *)
Undriven(name) == DrivenBy(name) \cap (LutOutputs(job.design.luts) \cup FfOutputs(job.design.ffs)) = {}
AutoRunsTheCycles ==
  LET d   == Loaded[argv.design]
      clk == FindInput(d, ClockNames)
      rst == FindInput(d, ResetNames)
  IN  /\ stage = "done" /\ argv.testbench = "auto" /\ argv.command \in {"sim", "verify"} /\ clocks # <<>>
      /\ Undriven(clk) /\ (HasReset(d) => Undriven(rst))
      => /\ cycles = CyclesAsked(argv.cycles) + (IF HasReset(d) THEN 2 ELSE 0)
         /\ HasReset(d) => ReadValue(rst) = 0

(* A waveform viewer shows at every time what the trace has at that time:  *)
(* the last change of a variable is the value its nets had, unless it is a *)
(* bus of more bits than the dump keeps.                                   *)
LastSample(net, t) ==
  CHOOSE i \in 1..Len(samples) :
    /\ samples[i].net = net /\ samples[i].t <= t
    /\ \A j \in i + 1 .. Len(samples) : samples[j].net = net => samples[j].t > t

Showing(net, t) ==
  LET name == VarOf(net) IN
  IF IsBit(net)
  THEN { b \in 0 .. Len(Bits(name)) - 1 : 0 \in samples[LastSample(Bits(name)[b + 1], t)].value }
  ELSE IF 0 \in samples[LastSample(net, t)].value THEN {0} ELSE {}

WaveShowsTheTrace ==
  stage = "dumped" /\ argv.writable /\ ~late =>
    \A k \in 1..Len(samples) :
      LET var == VarOf(samples[k].net)
          t   == samples[k].t
      IN  Len(Bits(var)) <= 32 =>
          \E c \in 1..Len(dump) :
            /\ dump[c].var = var /\ dump[c].t <= t
            /\ \A later \in c + 1 .. Len(dump) : dump[later].var = var => dump[later].t > t
            /\ dump[c].value = Showing(samples[k].net, t)
=============================================================================
