---------------------------- MODULE MCToolchain ----------------------------
(* Model checking of Toolchain: the shipped tutorials, every short program *)
(* of a grammar, every short testbench over an alphabet of commands, and   *)
(* what goes wrong around them.                                            *)
EXTENDS Toolchain, MCTutorials, TLC

MCDurations == {"0ns", "1ns", "3ns", "4ns", "6ns", "7ns", "10ns", "20ns"}
MCDecimal ==
  [t \in {"0", "1", "2", "3", "30", "32", "50", "100"} \cup MCDurations |->
     CASE t \in {"0", "0ns"} -> 0 [] t \in {"1", "1ns"} -> 1 [] t = "2" -> 2
       [] t \in {"3", "3ns"} -> 3 [] t = "4ns" -> 4 [] t = "6ns" -> 6 [] t = "7ns" -> 7
       [] t = "10ns" -> 10 [] t = "20ns" -> 20 [] t = "30" -> 30 [] t = "32" -> 32 [] t = "50" -> 50 [] t = "100" -> 100]

\* Commands and their texts
clock(n, p, d, i) == [type |-> "CLOCK", name |-> n, period |-> p, duty |-> d, init |-> i]
drive(n, v) == [type |-> "DRIVE", name |-> n, value |-> v]
waitNs(v) == [type |-> "WAIT_NS", value |-> v]
rising(n) == [type |-> "WAIT_EDGE", name |-> n, rising |-> TRUE]
falling(n) == [type |-> "WAIT_EDGE", name |-> n, rising |-> FALSE]
repeat(v, b) == [type |-> "REPEAT", value |-> v, block |-> b]
check(n, o, v) == [type |-> "ASSERT", name |-> n, op |-> o, value |-> v]
trace(n) == [type |-> "TRACE", name |-> n]
reset(n) == [type |-> "RESET", name |-> n]
timescale == [type |-> "TIMESCALE"]
stop == [type |-> "STOP"]

num(v) == CHOOSE t \in DOMAIN MCDecimal \ MCDurations : MCDecimal[t] = v
ns(v) == CHOOSE t \in MCDurations : MCDecimal[t] = v

RECURSIVE CommandsText(_)
CommandsText(cs) ==
  FlattenSeq([i \in 1..Len(cs) |->
    LET c == cs[i] IN
    CASE c.type = "CLOCK" -> <<"clock", c.name, "period", "=", ns(c.period), "duty", "=", num(c.duty),
                               "init", "=", num(c.init), ";">>
      [] c.type = "DRIVE" -> <<"drive", c.name, "=", num(c.value), ";">>
      [] c.type = "WAIT_NS" -> <<"wait", ns(c.value), ";">>
      [] c.type = "WAIT_EDGE" -> <<"wait", IF c.rising THEN "rising_edge" ELSE "falling_edge",
                                   "(", c.name, ")", ";">>
      [] c.type = "REPEAT" -> <<"repeat", num(c.value), "{">> \o CommandsText(c.block) \o <<"}">>
      [] c.type = "ASSERT" -> <<"assert", c.name, c.op, num(c.value), ";">>
      [] c.type = "TRACE" -> <<"trace", c.name, ";">>
      [] c.type = "RESET" -> <<"reset", c.name, "active_high", ";">>
      [] c.type = "TIMESCALE" -> <<"timescale", "1ns", ";">>
      [] c.type = "STOP" -> <<"stop", ";">>])
TbText(cs) == <<"testbench", "tb", "{">> \o CommandsText(cs) \o <<"}">>

\* Command lines
Line == [command |-> "verify", design |-> <<>>, testbench |-> "auto", tokens |-> <<>>, cycles |-> 3,
         wave |-> FALSE, open |-> FALSE, readable |-> TRUE, writable |-> TRUE, viewer |-> 0,
         commands |-> <<>>, cut |-> FALSE, source |-> "none", says |-> Text!Nothing]
With(design, cs) == [Line EXCEPT !.design = design, !.testbench = "file",
                                 !.tokens = TbText(cs), !.commands = cs]

-----------------------------------------------------------------------------
\* A register that toggles while go is 1, a clock net a gate holds at 0, a bus.
Toggler ==
  << "module", "t", ";", "input", "clk", ";", "input", "go", ";", "input", "[", "1", ":", "0", "]", "aux", ";",
     "output", "held", ";", "register", "q", ";", "assign", "held", "=", "go", "^", "go", ";",
     "always", "@", "(", "posedge", "clk", ")", "begin", "if", "(", "go", ")", "q", "<=", "!", "q", ";", "end",
     "endmodule" >>
\* The same register written directly: its gate drives the net of the register.
SharedToggler ==
  << "module", "t", ";", "input", "clk", ";", "input", "go", ";", "register", "q", ";",
     "always", "@", "(", "posedge", "clk", ")", "begin", "q", "<=", "q", "^", "go", ";", "end", "endmodule" >>

Alphabet ==
  { clock("clk", 10, 50, 0), clock("clk", 0, 100, 1), clock("q", 4, 50, 1),
    clock("held", 6, 30, 0), drive("go", 1), drive("clk", 1), drive("aux", 3),
    waitNs(7), rising("clk"), falling("clk"), rising("held"), trace("q"), trace("clk"),
    repeat(2, <<rising("clk"), waitNs(3)>>), stop }
\* What a longer testbench begins with.
Firsts == { c \in Alphabet : c.type \in {"CLOCK", "WAIT_NS"} } \cup {drive("go", 1)}
ShortTbs ==
  UNION { [1..n -> Alphabet] : n \in 1..2 } \cup { <<a, b, c>> : a \in Firsts, b, c \in Alphabet }
RepeatTbs ==
  { <<drive("go", 1), trace("q"), a, b, repeat(3, <<c>>)>> : a \in Firsts, b, c \in Alphabet \ {stop} }
\* Failing checks, every comparison, unknown names and a repeat of nothing.
Odds ==
  << timescale, check("q", "!=", 0), check("q", "<", 1), check("q", ">", 0), check("q", "<=", 0),
     check("aux", ">=", 0), check("nobody", "==", 0), trace("nobody"), reset("aux"), clock("nobody", 4, 50, 0),
     repeat(0, <<stop>>), rising("q"), trace("aux"), stop, trace("q") >>
Traced ==
  << trace("aux"), trace("q"), clock("clk", 10, 50, 0), drive("aux", 1), drive("go", 1), rising("clk"),
     drive("aux", 2), drive("aux", 3), waitNs(7), drive("aux", 0), falling("clk"), check("q", "==", 1) >>

\* A bus of one bit more than the dump keeps of it.
Wide ==
  << "module", "w", ";", "input", "[", "32", ":", "0", "]", "a", ";", "output", "y", ";", "assign", "y", "=", "1", ";",
     "endmodule" >>
WideLines == { [With(Wide, <<trace("a"), drive("a", 3), waitNs(1), drive("a", 0)>>) EXCEPT !.wave = TRUE] }

ShortLines == { With(Toggler, cs) : cs \in ShortTbs \cup RepeatTbs }
CutLines ==
  LET cut(line, k) == [line EXCEPT !.cut = TRUE, !.tokens = RemoveAt(line.tokens, k)]
      lines == { With(Toggler, <<c, reset("go"), check("q", "==", 0)>>) : c \in Alphabet }
  IN  UNION { { cut(l, k) : k \in 1..Len(l.tokens) } : l \in lines }
OddLines ==
  { [With(Toggler, cs) EXCEPT !.wave = w, !.open = o, !.writable = s, !.viewer = v, !.command = c]
    : cs \in {Odds, Traced}, w, o, s \in BOOLEAN, v \in {0, 1, 5}, c \in {"sim", "verify"} }
OtherLines ==
  { [Line EXCEPT !.command = c, !.design = Toggler, !.readable = r, !.testbench = t, !.viewer = 5]
    : c \in {"compile", "signals", "wave", "other", "verify"}, r \in BOOLEAN, t \in {"missing", "auto"} }
TutorialLines ==
  { [Line EXCEPT !.design = t[1], !.testbench = "file", !.tokens = t[2], !.source = "tutorial", !.wave = w,
                 !.commands = ParseTestbench(t[2]).cmds] : t \in Tutorials, w \in BOOLEAN }
AutoLines ==
  { [Line EXCEPT !.design = t[1], !.cycles = c, !.wave = TRUE] : t \in Tutorials, c \in {0, 1, 3} }

-----------------------------------------------------------------------------
\* Programs: two inputs, a wire between two assigns, a register of one or two bits.
e1(a) == [op |-> "", args |-> <<a>>]
e2(a, o, b) == [op |-> o, args |-> <<a, b>>]
Conds == { e1("en"), [op |-> "!", args |-> <<"en">>], e2("en", "==", "1"), e2("en", "!=", "1"), e2("en", "&", "go") }
Values == { e1("a"), e1("2"), e2("r", "+", "1"), e2("t", "^", "r") }
Chains ==
  { [arms |-> <<[cond |-> c, value |-> v]>>, default |-> d] : c \in Conds, v \in Values, d \in {<<>>, <<e1("t")>>} }
  \cup { [arms |-> <<[cond |-> e1("en"), value |-> v], [cond |-> c, value |-> e2("r", "|", "a")]>>, default |-> d]
         : c \in {e1("go"), e2("go", "==", "0")}, v \in Values, d \in {<<>>, <<e2("a", "+", "r")>>} }
Prog(w, op, chain) ==
  [inputs |-> {"a", "en", "go"}, outputs |-> {"y"}, wires |-> {"t"}, registers |-> {"r"},
   width |-> [n \in {"a", "y", "t", "r", "en", "go"} |-> IF n \in {"en", "go"} THEN 1 ELSE w],
   assigns |-> <<[to |-> "t", e |-> e2("a", op, "r")], [to |-> "y", e |-> e2("t", "+", "a")]>>,
   nexts |-> [n \in {"r"} |-> chain]]
ProgramsOf(w) ==
  { Prog(w, "&", c) : c \in Chains }
  \cup { Prog(w, op, CHOOSE c \in Chains : Len(c.arms) = 2) : op \in {"|", "^", "+"} }

Steps == << <<1, 1, 0>>, <<2, 0, 1>>, <<3, 1, 1>>, <<1, 0, 0>>, <<2, 1, 0>>, <<0, 1, 1>>, <<3, 0, 1>> >>
StepTb(order) ==
  <<clock("clk", 4, 50, 0)>> \o
  FlattenSeq([i \in 1..Len(order) |->
    <<drive("a", Steps[order[i]][1]), drive("en", Steps[order[i]][2]), drive("go", Steps[order[i]][3]),
      rising("clk")>>])
ProgramLines ==
  UNION { { [With(Text!TextOf(p), StepTb(order)) EXCEPT !.says = p]
            : p \in ProgramsOf(w), order \in {<<1, 2, 3, 4, 5, 6, 7>>, <<6, 3, 5, 2, 7, 1, 4>>} } : w \in {1, 2} }

MCCommandLines ==
  ShortLines \cup CutLines \cup OddLines \cup WideLines \cup OtherLines \cup TutorialLines \cup AutoLines \cup ProgramLines
SharedLines == { With(SharedToggler, <<clock("clk", 10, 50, 0), drive("go", 1), rising("clk")>>) }

\* assign y = a & 8'hFF, whose literal the lexer hands on as FF, a hex number.
HexMask ==
  << "module", "t", ";", "input", "[", "1", ":", "0", "]", "a", ";", "output", "[", "1", ":", "0", "]", "y", ";",
     "assign", "y", "=", "a", "&", "FF", ";", "endmodule" >>
GuideLines == { [With(HexMask, <<drive("a", 3), check("y", "==", 3)>>) EXCEPT !.source = "guide"] }

\* Every design there is and what the emitter makes of it.
LoadedDesigns ==
  LET designs == { line.design : line \in MCCommandLines \cup SharedLines \cup GuideLines }
  IN  [text \in designs |-> Load(text)]
      @@ [text \in { Emitted(Parse(d)) : d \in designs \ {<<>>} } |-> Load(text)]
\* TLC evaluates LoadedDesigns once, and this in no time.
MCLoaded == LET loaded == LoadedDesigns IN loaded

\* What the parser gives, and all commands of the texts and of the automatic testbench.
EveryLine(t) == { c \in MCCommandLines \cup SharedLines \cup GuideLines : c.testbench = t }
ParsedTestbenches == [text \in { c.tokens : c \in EveryLine("file") } |-> ParseTestbench(text)]
MCTestbenches == LET parsed == ParsedTestbenches IN parsed
RECURSIVE StatementsOf(_)
StatementsOf(cs) ==
  UNION { IF c.type # "REPEAT" THEN {c}
          ELSE { [c EXCEPT !.value = v] : v \in 0 .. c.value } \cup StatementsOf(c.block) : c \in ToSet(cs) }
AllStatements ==
  LET autos == { c \in AutoLines \cup OtherLines : c.testbench = "auto" }
      texts == { c.commands : c \in EveryLine("file") }
               \cup { ParseTestbench(c.tokens).cmds : c \in CutLines }
               \cup { AutoTestbench(Load(c.design), c.cycles) : c \in autos }
  IN  { s : s \in UNION { StatementsOf(cs) : cs \in texts } }
MCStatements == LET all == AllStatements IN all

MCIndexOf == [w \in {2, 3, 4, 33} |-> CASE w = 2 -> "1" [] w = 3 -> "2" [] w = 4 -> "3" [] w = 33 -> "32"]
\* What x86 makes of a shift by 32 or more.
MCFarBits == [b \in 32..63 |-> {b % 32}]
MCLanes == {0, 1}
=============================================================================
