---------------------------- MODULE HdlPrograms ----------------------------
(***************************************************************************)
(* Programs of the HDL by what they mean, and the text of a program.       *)
(*                                                                         *)
(* A value is the set of its bits that are 1.  A program has               *)
(*   inputs, outputs, wires, registers : sets of names,                    *)
(*   width : name -> number of bits,                                       *)
(*   assigns : a sequence of [to, e], a name used after its assign,        *)
(*   nexts : register -> [arms, default], the if / else chain of its next  *)
(*     value; without a default it keeps its value.                        *)
(* An expression e is [op, args], an argument a name or a number token.    *)
(***************************************************************************)
EXTENDS Integers, SequencesExt

CONSTANT Decimal  (* the value of a number token                           *)

Nothing ==
  [inputs |-> {}, outputs |-> {}, wires |-> {}, registers |-> {}, width |-> [n \in {} |-> 1],
   assigns |-> <<>>, nexts |-> [n \in {} |-> <<>>]]

Number(bits) == FoldSet(LAMBDA b, sum : sum + 2^b, 0, bits)
BitsOf(n, width) == { b \in 0 .. width - 1 : (n \div 2^b) % 2 = 1 }

(* The value of an expression of some width, given the values of names.    *)
ValueOf(env, e, width) ==
  LET arg(i) == IF e.args[i] \in DOMAIN Decimal THEN BitsOf(Decimal[e.args[i]], width)
                ELSE env[e.args[i]]
      x == arg(1)
      y == arg(2)
  IN  CASE e.op = ""   -> x
        [] e.op = "!"  -> (0 .. width - 1) \ x
        [] e.op = "&"  -> x \cap y
        [] e.op = "|"  -> x \cup y
        [] e.op = "^"  -> (x \ y) \cup (y \ x)
        [] e.op = "+"  -> BitsOf(Number(x) + Number(y), width)
        [] e.op = "==" -> IF x = y THEN {0} ELSE {}
        [] e.op = "!=" -> IF x # y THEN {0} ELSE {}

(* The values of all names, from those of the inputs and the registers.    *)
Environment(p, i, r) ==
  LET given == [n \in p.inputs \cup p.registers \cup p.wires \cup p.outputs |->
                  IF n \in p.inputs THEN i[n] ELSE IF n \in p.registers THEN r[n] ELSE {}]
  IN  FoldLeft(LAMBDA env, a : [env EXCEPT ![a.to] = ValueOf(env, a.e, p.width[a.to])], given, p.assigns)

Outputs(p, i, r) == LET env == Environment(p, i, r) IN [n \in p.outputs |-> env[n]]

NextValue(env, n, width, chain) ==
  LET true == { k \in 1..Len(chain.arms) : ValueOf(env, chain.arms[k].cond, 1) # {} }
      first == CHOOSE k \in true : \A j \in true : k <= j
  IN  IF true # {} THEN ValueOf(env, chain.arms[first].value, width)
      ELSE IF chain.default # <<>> THEN ValueOf(env, chain.default[1], width)
      ELSE env[n]

NextRegisters(p, i, r) ==
  LET env == Environment(p, i, r) IN
  [n \in p.registers |-> NextValue(env, n, p.width[n], p.nexts[n])]

-----------------------------------------------------------------------------
(* The text of a program, as tokens *)

ExprText(e) ==
  CASE Len(e.args) = 2 -> <<e.args[1], e.op, e.args[2]>>
    [] e.op = "!" -> <<"!", e.args[1]>>
    [] OTHER -> e.args

DeclText(p, kind, names) ==
  FlattenSeq([i \in 1..Cardinality(names) |->
    LET n == SetToSeq(names)[i]
        w == CHOOSE t \in DOMAIN Decimal : Decimal[t] = p.width[n] - 1
    IN  IF p.width[n] = 1 THEN <<kind, n, ";">> ELSE <<kind, "[", w, ":", "0", "]", n, ";">>])

RECURSIVE ChainText(_, _, _)
ChainText(n, arms, default) ==
  LET set(e) == <<n, "<=">> \o ExprText(e) \o <<";">> IN
  <<"if", "(">> \o ExprText(arms[1].cond) \o <<")">> \o set(arms[1].value)
  \o (IF Len(arms) > 1 THEN <<"else", "begin">> \o ChainText(n, Tail(arms), default) \o <<"end">>
      ELSE IF default # <<>> THEN <<"else">> \o set(default[1])
      ELSE <<>>)

TextOf(p) ==
  <<"module", "design", ";", "input", "clk", ";">>
  \o DeclText(p, "input", p.inputs) \o DeclText(p, "output", p.outputs)
  \o DeclText(p, "wire", p.wires) \o DeclText(p, "register", p.registers)
  \o FlattenSeq([i \in 1..Len(p.assigns) |->
       <<"assign", p.assigns[i].to, "=">> \o ExprText(p.assigns[i].e) \o <<";">>])
  \o FlattenSeq([i \in 1..Cardinality(p.registers) |->
       LET n == SetToSeq(p.registers)[i] IN
       <<"always", "@", "(", "posedge", "clk", ")", "begin">>
       \o ChainText(n, p.nexts[n].arms, p.nexts[n].default) \o <<"end">>])
  \o <<"endmodule">>
=============================================================================
