-------------------------- MODULE MCPhysicalDesign -------------------------
(* Model checking of PhysicalDesign: the tutorials and designs that are    *)
(* hard on a part of it, through the parser and the netlist builder, with  *)
(* every algorithm and several seeds.                                      *)
EXTENDS PhysicalDesign, HdlNetlist, MCTutorials

MCLanes == {0}
MCDecimal == [t \in {"0", "1", "2", "3"} |-> CASE t = "0" -> 0 [] t = "1" -> 1 [] t = "2" -> 2 [] t = "3" -> 3]

Decl(kind, names) ==
  LET after[k \in 0..Len(names)] == IF k = 0 THEN <<>> ELSE after[k - 1] \o <<kind, names[k], ";">> IN after[Len(names)]
Text(body) == <<"module", "t", ";", "input", "clk", ";">> \o body \o <<"endmodule">>
Always(body) == <<"always", "@", "(", "posedge", "clk", ")", "begin">> \o body \o <<"end">>

\* Four gates, each before the one it reads: a pass of the estimate moves one.
Backwards ==
  Text(Decl("input", <<"a", "b">>) \o Decl("output", <<"w", "x", "y", "z">>)
       \o <<"assign", "w", "=", "x", "&", "a", ";", "assign", "x", "=", "y", "^", "a", ";",
            "assign", "y", "=", "z", "|", "b", ";", "assign", "z", "=", "a", "&", "b", ";">>)

\* A register whose gate drives its own net, and a bus through a wire.
Loops ==
  Text(<<"input", "[", "1", ":", "0", "]", "a", ";", "output", "[", "1", ":", "0", "]", "y", ";",
         "wire", "[", "1", ":", "0", "]", "v", ";">> \o Decl("register", <<"q">>)
       \o <<"assign", "v", "=", "a", "^", "y", ";", "assign", "y", "=", "v", "|", "a", ";">>
       \o Always(<<"q", "<=", "!", "q", ";">>))

\* Two gates that read each other.
Latch ==
  Text(Decl("input", <<"s", "r">>) \o Decl("output", <<"p", "q">>)
       \o <<"assign", "p", "=", "s", "|", "q", ";", "assign", "q", "=", "r", "&", "p", ";">>)

\* Five registers, wide cells that leave no room for the last at full utilization.
Bank ==
  Text(Decl("input", <<"a", "b">>) \o Decl("register", <<"r", "s", "t", "u">>)
       \o Always(<<"if", "(", "a", ")", "r", "<=", "s", ";", "if", "(", "a", ")", "s", "<=", "t", ";",
                   "if", "(", "b", ")", "t", "<=", "u", ";", "if", "(", "b", ")", "u", "<=", "r", ";">>))

\* An addition of three operands, which has no cell.
ThreeOperands ==
  Text(Decl("input", <<"a", "b">>) \o Decl("register", <<"r">>)
       \o Always(<<"if", "(", "a", ")", "r", "<=", "b", ";", "else", "{", "a", ",", "b", ",", "r", "}", "<=",
                   "a", "+", "b", ";">>))

Texts == { t[1] : t \in Tutorials } \cup {Backwards, Loops, Latch, Bank, ThreeOperands, Text(<<>>)}
Netlists == [text \in Texts |-> CHOOSE n \in { Build(Parse(t)) : t \in {text} } : TRUE]
Small == { text \in Texts : Len(Netlists[text].comps) <= 13 }

ClosedFile == [kind |-> "layout", version |-> 1, cells |-> Empty, wires |-> Empty, crit |-> 0]
Line == [command |-> "build", target |-> "asic", netlist |-> [nets |-> <<>>, comps |-> <<>>],
         algorithm |-> "greedy_wirelength", seed |-> 1, utilization |-> 60,
         readable |-> TRUE, writable |-> TRUE, layout |-> NoFile]
For(texts, line) == { [line EXCEPT !.netlist = Netlists[t]] : t \in texts }

Algorithms == {"greedy_wirelength", "row_pack", "random_seeded"}
BuildLines ==
  UNION { For(Small, [Line EXCEPT !.algorithm = a, !.seed = s, !.utilization = u])
          : a \in Algorithms, s \in 1..6, u \in {60, 95} }
  \cup For(Texts, [Line EXCEPT !.seed = 42])
OtherLines ==
  UNION { For({Backwards, Bank, ThreeOperands, Text(<<>>)},
              [Line EXCEPT !.command = c, !.target = t, !.readable = r, !.writable = w, !.utilization = 0])
          : c \in {"map", "synth", "floorplan", "place", "route", "timing", "congestion", "layout", "report", "build"},
            t \in {"asic", "vfpga"}, r, w \in BOOLEAN }
  \cup { [Line EXCEPT !.command = "route", !.netlist = Netlists[Bank], !.algorithm = "random_seeded",
                      !.seed = s, !.utilization = 100] : s \in 1..20 }
  \cup { [Line EXCEPT !.command = "open", !.readable = r, !.layout = f]
         : r \in BOOLEAN, f \in {NoFile, [kind |-> "other"], ClosedFile, [ClosedFile EXCEPT !.version = 2]} }

\* TLC evaluates AllLines once, and MCPhysicalLines in no time.
AllLines == BuildLines \cup OtherLines
MCPhysicalLines == LET lines == AllLines IN lines
=============================================================================
