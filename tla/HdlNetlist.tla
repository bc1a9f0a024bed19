----------------------------- MODULE HdlNetlist ----------------------------
(***************************************************************************)
(* From the nodes of the parser to the configuration of the fabric: the    *)
(* netlist builder (src/hdl/netlist.cpp) and the mapper (mapper.cpp).      *)
(*                                                                         *)
(* A net is named by a tuple: <<name>> is the net of a whole name, <<name, *)
(* b>> the net of its bit b, other tuples nets the builder made.  Every    *)
(* declared name has a whole net and its bit nets, also when it is one bit *)
(* wide, and which of them a statement means depends on the statement.     *)
(*                                                                         *)
(* A netlist is its nets, in order of their ids, and its components, in    *)
(* order.  A component is a LUT with the name of its function, or a        *)
(* flip-flop, "DFF".  Ids stay far below the 32768 resolve() can return.   *)
(***************************************************************************)
EXTENDS HdlParser, VFpgaFabric, SequencesExt

Gnd == <<"GND">>

HasNet(nl, net) == \E i \in 1..Len(nl.nets) : nl.nets[i] = net
NetId(nl, net) == (CHOOSE i \in 1..Len(nl.nets) : nl.nets[i] = net) - 1

(* ensure_net(), of several nets.                                          *)
Ensure(nl, nets) ==
  FoldLeft(LAMBDA l, n : IF HasNet(l, n) THEN l ELSE [l EXCEPT !.nets = Append(@, n)], nl, nets)

AddComp(nl, op, in, out) ==
  [nl EXCEPT !.comps = Append(@, [op |-> op, in |-> in, out |-> out])]

(* bus_width(): the bit nets there are.                                    *)
Width(nl, name) == CHOOSE w \in 0 .. Len(nl.nets) :
  ~HasNet(nl, <<name, w>>) /\ \A b \in 0 .. w - 1 : HasNet(nl, <<name, b>>)

WholeNets(names) == [i \in 1..Len(names) |-> <<names[i]>>]
BitNets(name, width) == [b \in 1..width |-> <<name, b - 1>>]

(* Mutant: a literal is the same constant at every bit.                    *)
OperandLiteral(nl, name, b) ==
  IF HasNet(nl, <<name, b>>) THEN <<name, b>> ELSE <<name>>

(* operand_bit(): the bit net if there is one, the constant of that bit of *)
(* a decimal literal, else the whole net.                                  *)
Operand(nl, name, b) ==
  IF HasNet(nl, <<name, b>>) THEN <<name, b>>
  ELSE IF IsNumber(name) THEN IF (Value(name) \div 2^b) % 2 = 1 THEN <<"1">> ELSE <<"0">>
  ELSE <<name>>

(* A LUT over the nets `in`, or over a constant net when there are none.   *)
Lut(nl, op, in, out, const) ==
  LET nets == IF in = <<>> THEN <<const>> ELSE in IN
  AddComp(Ensure(nl, nets), IF op = "" THEN "PASS" ELSE op, nets, out)

(* add_bit(): the sum and the carry LUT of one stage of an adder.          *)
AddBit(nl, a, b, carry, sum, next) ==
  AddComp(Ensure(AddComp(nl, "XOR3", <<a, b, carry>>, sum), <<next>>), "MAJ3", <<a, b, carry>>, next)

(* Mutant: every stage of an adder starts without a carry.                 *)
CarryNone(tag, b) == Gnd

(* The carry into bit b of an adder, b counting from 1.                    *)
CarryIn(tag, b) == IF b = 1 THEN Gnd ELSE tag \o <<"c", b - 2>>

(* An operation on a bus, bit by bit: "+" as a ripple-carry chain that     *)
(* starts at GND, anything else as a LUT per bit.  With ffs each bit also  *)
(* gets a flip-flop whose D and Q are the net the LUT drives.              *)
Expand(nl, op, children, outs, tag, const, ffs) ==
  LET bit(l, b) ==
        LET out == outs[b]
            in  == [i \in 1..Len(children) |-> Operand(l, children[i], b - 1)]
            lut == IF op = "+" /\ Len(children) >= 2
                   THEN AddBit(Ensure(l, <<out>> \o in), in[1], in[2], CarryIn(tag, b), out, tag \o <<"c", b - 1>>)
                   ELSE Lut(Ensure(l, <<out>>), op, in, out, const)
        IN  IF ffs THEN AddComp(lut, "DFF", <<out>>, out) ELSE lut
  IN  FoldLeft(bit, Ensure(nl, <<Gnd>>), [b \in 1..Len(outs) |-> b])

(* Wider than one bit and an operation that works bit by bit; everything   *)
(* else is one LUT on the whole nets.                                      *)
Bitwise(nl, node) == Width(nl, node.name) > 1 /\ node.op \in {"", "&", "|", "^", "+"}

-----------------------------------------------------------------------------
(* Statements *)

Declare(nl, node) == Ensure(nl, <<<<node.name>>>> \o BitNets(node.name, node.width))

AssignNets(nl, node) ==
  LET l == Ensure(nl, <<<<node.name>>>>) IN
  IF node.children = <<>> THEN l
  ELSE IF Bitwise(l, node)
  THEN Expand(l, node.op, node.children, BitNets(node.name, Width(l, node.name)),
              <<"_add", node.name>>, <<>>, FALSE)
  ELSE Lut(l, node.op, WholeNets(node.children), <<node.name>>, <<>>)

(* reg <= expression, outside of an if.                                    *)
RegisterNets(nl, node) ==
  IF ~HasNet(nl, <<node.name>>) THEN nl
  ELSE IF Bitwise(nl, node)
  THEN Expand(nl, node.op, node.children, BitNets(node.name, Width(nl, node.name)),
              <<"_dadd", node.name>>, <<"_const", node.name>>, TRUE)
  ELSE AddComp(Lut(nl, node.op, WholeNets(node.children), <<node.name>>, <<"_const", node.name>>),
               "DFF", <<<<node.name>>>>, <<node.name>>)

(* A comparison of a condition with a literal only looks at one bit.       *)
ConditionOp(n) ==
  IF n.op \notin {"==", "!="} \/ ~IsNumber(n.children[2]) THEN n.op
  ELSE IF Value(n.children[2]) = (IF n.op = "==" THEN 0 ELSE 1) THEN "!" ELSE "PASS"

(* tree(): the multiplexers of an if for one register; nl and the nets     *)
(* that carry the result.  hold are the nets of the register itself.       *)
RECURSIVE IfTree(_, _, _, _)
IfTree(nl, node, reg, hold) ==
  LET cond   == <<"_cond", Len(nl.comps)>>
      l1     == Lut(Ensure(nl, <<cond>>), ConditionOp(node), WholeNets(node.children), cond, <<>>)
      picks(b) == IF b.type # "begin" THEN <<b>>
                  ELSE SelectSeq(b.sub, LAMBDA s : s.type = "if" \/ (s.type = "<=" /\ s.name = reg))
      value(l, s) ==
        LET tag  == <<"_tv", reg, Len(l.comps)>>
            outs == IF Len(hold) = 1 THEN <<tag>>
                    ELSE [b \in 1..Len(hold) |-> tag \o <<"v", b - 1>>]
        IN  [nets |-> outs,
             nl   |-> IF Len(hold) = 1
                      THEN Lut(Ensure(l, outs), s.op, WholeNets(s.children), tag, <<"_tv_const", s.name>>)
                      ELSE Expand(l, s.op, s.children, outs, tag, tag \o <<"k", 0>>, FALSE)]
      branch(l, i) ==
        LET p == IF i > Len(node.sub) THEN <<>> ELSE picks(node.sub[i]) IN
        IF p = <<>> THEN [nl |-> l, nets |-> hold]
        ELSE IF p[1].type = "if" THEN IfTree(l, p[1], reg, hold) ELSE value(l, p[1])
      then   == branch(l1, 1)
      else   == branch(then.nl, 2)
      first  == Len(else.nl.comps)
      muxes  == [b \in 1..Len(hold) |-> <<"_mux", first + b - 1>>]
      mux(l, b) == AddComp(l, "MUX", <<else.nets[b], then.nets[b], cond, Gnd>>, muxes[b])
  IN  [nl |-> FoldLeft(mux, Ensure(else.nl, muxes), [b \in 1..Len(hold) |-> b]), nets |-> muxes]

(* The register an if is about: the first its then branch assigns.         *)
TargetOf(node) ==
  LET b == node.sub[1]
      s == IF b.type = "begin" THEN SelectSeq(b.sub, LAMBDA x : x.type = "<=") ELSE <<b>>
  IN  IF s = <<>> THEN "" ELSE s[1].name

(* build_if_chain(): the multiplexers, and a flip-flop per bit.            *)
IfNets(nl, node) ==
  LET reg  == TargetOf(node)
      w    == Width(nl, reg)
      hold == IF w <= 1 THEN <<<<reg>>>> ELSE BitNets(reg, w)
      tree == IfTree(Ensure(nl, (IF w <= 1 THEN hold ELSE <<>>) \o <<Gnd>>), node, reg, hold)
  IN  IF reg = "" THEN nl
      ELSE FoldLeft(LAMBDA l, b : AddComp(l, "DFF", <<tree.nets[b]>>, hold[b]),
                    tree.nl, [b \in 1..Len(hold) |-> b])

StatementNets(nl, s) == IF s.type = "if" THEN IfNets(nl, s) ELSE RegisterNets(nl, s)

(* A wire's bit nets are given to themselves.                              *)
WireNets(nl, node) ==
  FoldLeft(LAMBDA l, net : Lut(l, "PASS", <<net>>, net, <<>>), nl, BitNets(node.name, node.width))

(* build_from_ast(): declarations, assigns, always blocks, wires.          *)
Build(ast) ==
  LET of(types) == SelectSeq(ast, LAMBDA n : n.type \in types)
      decls  == of({"input", "output"}) \o of({"wire"}) \o of({"register"})
      always == FlattenSeq([i \in 1..Len(of({"always"})) |-> of({"always"})[i].sub])
      l1 == FoldLeft(Declare, [nets |-> <<>>, comps |-> <<>>], decls)
      l2 == FoldLeft(AssignNets, l1, of({"assign"}))
      l3 == FoldLeft(StatementNets, l2, always)
  IN  FoldLeft(WireNets, l3, of({"wire"}))

(* input_names() and output_names(): the ports in order of declaration.    *)
NamesOf(ast, type) ==
  LET nodes == SelectSeq(ast, LAMBDA n : n.type = type) IN [i \in 1..Len(nodes) |-> nodes[i].name]

-----------------------------------------------------------------------------
(* The mapper *)

(* truth_table_for_op(), as sets of indices; unknown ones are AND.         *)
TableOf(op) ==
  LET a(i) == i % 2  b(i) == (i \div 2) % 2  c(i) == (i \div 4) % 2  S == 0..15 IN
  CASE op = "|"            -> S \ {0}
    [] op \in {"^", "+"}   -> { i \in S : a(i) # b(i) }
    [] op = "PASS"         -> { i \in S : a(i) = 1 }
    [] op = "!"            -> { i \in S : a(i) = 0 }
    [] op = "!="           -> S \ {15}
    [] op = "MUX"          -> { i \in 0..7 : (IF c(i) = 0 THEN a(i) ELSE b(i)) = 1 }
    [] op = "XOR3"         -> { i \in S : (a(i) + b(i) + c(i)) % 2 = 1 }
    [] op = "MAJ3"         -> { i \in S : a(i) + b(i) + c(i) >= 2 }
    [] OTHER               -> {15}

(* map_to_luts(): the tables, and every net whose name is a number is that *)
(* constant.                                                               *)
MapToLuts(nl) ==
  LET id(net) == NetId(nl, net)
      luts == SelectSeq(nl.comps, LAMBDA c : c.op # "DFF")
      ffs  == SelectSeq(nl.comps, LAMBDA c : c.op = "DFF")
      consts == { i \in 1..Len(nl.nets) : Len(nl.nets[i]) = 1 /\ IsNumber(nl.nets[i][1]) }
  IN  [luts |-> [k \in 1..Len(luts) |->
                   [tt |-> TableOf(luts[k].op), out |-> id(luts[k].out),
                    in |-> [i \in 1..Len(luts[k].in) |-> id(luts[k].in[i])]]],
       ffs  |-> [k \in 1..Len(ffs) |-> [d |-> id(ffs[k].in[1]), q |-> id(ffs[k].out)]],
       constants |-> [n \in { i - 1 : i \in consts } |->
                        { l \in Lanes : (Value(nl.nets[n + 1][1]) \div 2^l) % 2 = 1 }],
       total_nets |-> Len(nl.nets)]
=============================================================================
