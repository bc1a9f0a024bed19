------------------------------ MODULE MCBoard -------------------------------
(* Model checking of Board: the shipped design and demos, and designs with *)
(* whole groups, custom vectors, registers, and each reason not to run.    *)
EXTENDS Firmware, TLC

P == INSTANCE HdlPrograms
MCDecimal == [t \in {"0", "1", "7", "255"} |-> CASE t = "0" -> 0 [] t = "1" -> 1 [] t = "7" -> 7 [] t = "255" -> 255]
MCLanes == {0, 1}

E(op, args) == [op |-> op, args |-> args]
Arm(c, e) == [cond |-> E("", <<c>>), value |-> e]
Let(to, e) == [to |-> to, e |-> e]
Program(ins, outs, regs, assigns, nexts) ==
  [P!Nothing EXCEPT !.inputs = ins, !.outputs = outs, !.registers = regs, !.assigns = assigns, !.nexts = nexts,
                    !.width = [n \in ins \cup outs \cup regs |-> 1]]
None == [n \in {} |-> <<>>]
Design(p) == [text |-> P!TextOf(p), says |-> p, cycles |-> 4, tests |-> <<>>]

Gate == Program({"a", "b"}, {"y"}, {}, <<Let("y", E("&", <<"a", "b">>))>>, None)
GateText ==
  <<"module", "my_and", ";", "input", "a", ";", "input", "b", ";", "output", "y", ";",
    "assign", "y", "=", "a", "&", "b", ";", "endmodule">>
Shipped == [Design(Gate) EXCEPT !.text = GateText]

\* Five gates side by side, a chain of them, and one of inputs that are not net 0.
Group ==
  Program({"a", "b"}, {"v", "w", "x", "y", "z"}, {},
          <<Let("v", E("^", <<"a", "b">>)), Let("w", E("!", <<"a">>)), Let("x", E("", <<"b">>)),
            Let("y", E("^", <<"b", "a">>)), Let("z", E("^", <<"v", "w">>))>>, None)
Chain ==
  Program({"a", "b"}, {"w", "x", "y", "z"}, {},
          <<Let("w", E("^", <<"a", "b">>)), Let("x", E("^", <<"w", "b">>)), Let("y", E("!", <<"x">>)),
            Let("z", E("^", <<"y", "a">>))>>, None)
Second == Program({"a", "b"}, {"y"}, {}, <<Let("y", E("&", <<"a", "b">>))>>, None)
Tested == [Design(Chain) EXCEPT !.text = P!TextOf(Gate), !.says = Gate, !.tests = <<<<0, 1, 1>>, <<1, 1>>, <<1, 0, 0, 1>>>>]
TestedXor == LET p == Program({"a", "b"}, {"y"}, {}, <<Let("y", E("^", <<"a", "b">>))>>, None) IN
             [Design(p) EXCEPT !.tests = <<<<0, 1, 1>>, <<1, 0>>, <<1, 1, 0, 1>>>>]

\* The values of a vector are those of the ports as they are declared.
Unsorted ==
  LET p == Program({"a", "b"}, {"n", "y"}, {}, <<Let("n", E("!", <<"a">>)), Let("y", E("&", <<"b", "n">>))>>, None) IN
  [Design(p) EXCEPT !.tests = <<<<0, 1>>, <<1, 0>>, <<1, 1>>>>,
     !.text = <<"module", "unsorted", ";", "input", "b", ";", "input", "a", ";", "output", "n", ";", "output", "y", ";",
                "assign", "n", "=", "!", "a", ";", "assign", "y", "=", "b", "&", "n", ";", "endmodule">>]

Toggle ==
  Program({"rst"}, {"y"}, {"q"}, <<Let("y", E("", <<"q">>))>>,
          [n \in {"q"} |-> [arms |-> <<Arm("rst", E("", <<"0">>))>>, default |-> <<E("!", <<"q">>)>>]])
Ring ==
  Program({"rst"}, {"x", "y"}, {"q", "r"}, <<Let("x", E("^", <<"q", "r">>)), Let("y", E("!", <<"r">>))>>,
          [n \in {"q", "r"} |->
             [arms |-> <<Arm("rst", E("", <<"0">>))>>,
              default |-> <<IF n = "q" THEN E("!", <<"r">>) ELSE E("", <<"q">>)>>]])
NoReset == Program({"en"}, {"y"}, {"q"}, <<Let("y", E("", <<"q">>))>>,
                   [n \in {"q"} |-> [arms |-> <<Arm("en", E("!", <<"q">>))>>, default |-> <<>>]])
Inputs(names) == FlattenSeq([i \in 1..Len(names) |-> <<"input", names[i], ";">>])
Nine ==
  [Shipped EXCEPT !.text = <<"module", "m", ";">> \o Inputs(<<"a", "b", "c", "d", "e", "f", "g", "h", "i">>)
                             \o <<"output", "y", ";", "assign", "y", "=", "a", "&", "b", ";", "endmodule">>]
NoInput == [Shipped EXCEPT !.text = <<"module", "m", ";", "output", "y", ";", "assign", "y", "=", "1", ";", "endmodule">>]

Demo(text) == [Shipped EXCEPT !.text = text, !.says = P!Nothing]
Clocked(name, out, reg, value, next) ==
  <<"module", name, ";", "input", "clock", ";", "input", "reset", ";", "output", "[", "7", ":", "0", "]", out, ";",
    "register", "[", "7", ":", "0", "]", reg, ";", "always", "@", "(", "posedge", "clock", ")", "begin",
    "if", "(", "reset", ")", reg, "<=", value, ";", "else", reg, "<=", reg, next, "1", ";", "end",
    "assign", out, "=", reg, ";", "endmodule">>
Blinker ==
  <<"module", "blinker", ";", "input", "clock", ";", "output", "led", ";", "register", "q", ";",
    "always", "@", "(", "posedge", "clock", ")", "begin", "q", "<=", "q", "^", "1", ";", "end",
    "assign", "led", "=", "q", ";", "endmodule">>
\* The counter and a gate: more nets than the core has.
Large ==
  LET counter == Clocked("large", "count", "count_reg", "0", "+") IN
  [Demo(<<"module", "large", ";", "input", "a", ";", "input", "b", ";", "output", "y", ";">> \o SubSeq(counter, 4, Len(counter) - 1)
          \o <<"assign", "y", "=", "a", "&", "b", ";", "endmodule">>) EXCEPT !.cycles = 2]

AllUserDesigns ==
  {Shipped, Tested, TestedXor, Unsorted, NoInput, Nine, Large} \cup { Design(p) : p \in {Group, Chain, Second, Toggle, Ring, NoReset} }
MCUserDesigns == LET designs == AllUserDesigns IN designs

AllDemos ==
  "and_gate" :> Shipped @@ "counter" :> Demo(Clocked("counter", "count", "count_reg", "0", "+"))
  @@ "lfsr" :> Demo(Clocked("lfsr", "state", "lfsr_reg", "255", "^")) @@ "blinker" :> Demo(Blinker)
MCDemos == LET demos == AllDemos IN demos

\* TLC compiles each text once, and evaluates MCCompiled in no time.
AllCompiled ==
  [text \in { d.text : d \in MCUserDesigns } |-> Compile(text)]
  @@ [text \in { MCDemos[f].text : f \in DOMAIN MCDemos } |-> Compile(text)]
MCCompiled == LET compiled == AllCompiled IN compiled

\* The memory past signals_ reads 0 and the tables survive, or all of it is 1.
MCDebris == { [n \in {} |-> Zero], [n \in {0, 1, 60, 62} |-> AllOnes] }
MCCoreSize == [signals |-> 60, luts |-> 80, ffs |-> 10]
\* An output, an input, one that does not exist; the LED, a free pin, one of the flash.
MCVios == {0, 1, 256}
MCGpios == {4, 5, 27}
=============================================================================
