----------------------------- MODULE Toolchain -----------------------------
(***************************************************************************)
(* Everything a design and a testbench pass on the way from their texts to *)
(* the exit code: both parsers, the netlist builder and the mapper, in     *)
(* front of the command line tool of CommandLine.                          *)
(***************************************************************************)
EXTENDS CommandLine, TbParser, VerilogEmitter

(* Every name the netlist has, with its whole net and its bit nets.        *)
PortsOf(nl) ==
  [name \in { nl.nets[i][1] : i \in { j \in 1..Len(nl.nets) : Len(nl.nets[j]) = 1 } } |->
     [whole |-> {NetId(nl, <<name>>)},
      bits  |-> [b \in 1..Width(nl, name) |-> NetId(nl, <<name, b - 1>>)]]]

(* load_design(); no text of a design fails to compile.                    *)
Load(text) ==
  CHOOSE d \in { [ast |-> ast, inputs |-> NamesOf(ast, "input"), outputs |-> NamesOf(ast, "output"),
                  job |-> [design |-> MapToLuts(nl), ports |-> PortsOf(nl)]]
                 : ast \in {Parse(text)}, nl \in {Build(Parse(text))} } : TRUE

(* It is a function of the text, and TLC computes it once for each.        *)
ASSUME LoadedAssumption == Loaded = [text \in DOMAIN Loaded |-> Load(text)]

(* parse_testbench() of every text there is.                               *)
ASSUME TestbenchesAssumption == Testbenches = [text \in DOMAIN Testbenches |-> ParseTestbench(text)]

-----------------------------------------------------------------------------
(* Properties *)

(* The testbenches the repository ships report no failed check.            *)
ShippedTestbenchesPass == argv.source = "tutorial" => result.failed = 0

(* The Verilog emitted for a design reads back as the same design: nothing *)
(* is lost, moved into another branch or given another operand, unless a   *)
(* condition has two operands, which the emitter is known not to keep.     *)
EmittedVerilogReadsBack ==
  stage = "loaded" =>
    LET ast == Loaded[argv.design].ast IN
    (\A i \in 1..Len(ast) : SimpleConditions(ast[i])) => Loaded[Emitted(ast)].ast = ast

(* HDL_GUIDE.md, number literals: "8'hFF       // hex".  A testbench that   *)
(* expects what the guide says of a design reports no failed check.        *)
GuideDesignsBehave == argv.source = "guide" => result.failed = 0

(* The value of a name as a testbench reads it.                            *)
Read(names) == [n \in names |-> ToWord(ReadValue(n))]

Text == INSTANCE HdlPrograms
Said == { c.says : c \in CommandLines }
says == IF job = NoJob THEN Text!Nothing ELSE argv.says

Meaning == INSTANCE HdlMeaning WITH
  Programs <- Said, program <- says,
  ins <- Read(says.inputs), regs <- Read(says.registers), outs <- Read(says.outputs)

(* What runs is what the text says: through lexical tokens, syntax tree,   *)
(* netlist, lookup tables and the evaluations of the executor, inputs,     *)
(* registers and outputs change as the assigns and always blocks say, and  *)
(* registers only at rising edges of the first clock.                      *)
ImplementsText == Meaning!MeaningSpec
=============================================================================
