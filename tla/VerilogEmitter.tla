--------------------------- MODULE VerilogEmitter --------------------------
(***************************************************************************)
(* The Verilog emitter (src/hdl/verilog_emit.cpp): the nodes of a design   *)
(* written out again, as tokens of behavioral Verilog.  Comments and       *)
(* layout are left out; of a range only the width is known here, so a      *)
(* range of one bit is written as none.                                    *)
(***************************************************************************)
EXTENDS HdlParser, SequencesExt

CONSTANT IndexOf  (* the number token of a width's highest index           *)

Range1(n) == IF n.width > 1 THEN <<"[", IndexOf[n.width], ":", "0", "]">> ELSE <<>>

Unary(n) == <<"(", "~", n.children[1], ")">>

Rhs(n) ==
  IF n.op = "!" /\ n.children # <<>> THEN Unary(n)
  ELSE IF n.op # "" /\ Len(n.children) >= 2 THEN <<"(", n.children[1], n.op, n.children[2], ")">>
  ELSE IF n.children # <<>> THEN <<n.children[1]>>
  ELSE <<"0">>

(* A condition of two operands becomes the constant 1, with a warning.     *)
Condition(n) ==
  IF n.op = "!" /\ n.children # <<>> THEN Unary(n)
  ELSE IF n.op # "" THEN <<"1">>
  ELSE IF n.children # <<>> THEN <<n.children[1]>>
  ELSE <<"0">>

(* Mutant: begin and end are taken for layout.                             *)
BlockWithoutBegin(body) == body

Bracketed(body) == <<"begin">> \o body \o <<"end">>

RECURSIVE EmitStatement(_)
EmitStatement(n) ==
  LET body == FlattenSeq([i \in 1..Len(n.sub) |-> EmitStatement(n.sub[i])]) IN
  CASE n.type = "assign" -> <<"assign", n.name, "=">> \o Rhs(n) \o <<";">>
    [] n.type = "<="     -> <<n.name, "<=">> \o Rhs(n) \o <<";">>
    [] n.type = "if"     -> <<"if", "(">> \o Condition(n) \o <<")">> \o EmitStatement(n.sub[1])
                            \o (IF Len(n.sub) > 1 THEN <<"else">> \o EmitStatement(n.sub[2]) ELSE <<>>)
    [] n.type = "begin"  -> Bracketed(body)
    [] n.type = "always" -> <<"always", "@", "(", "posedge", n.name, ")">> \o Bracketed(body)
    [] OTHER             -> <<>>

Emit(module, ast) ==
  LET ports == SelectSeq(ast, LAMBDA n : n.type \in {"input", "output"})
      item(n) == CASE n.type \in {"input", "output", "wire"} -> <<n.type>> \o Range1(n) \o <<n.name, ";">>
                   [] n.type = "register" -> <<"reg">> \o Range1(n) \o <<n.name, ";">>
                   [] OTHER -> EmitStatement(n)
  IN  <<"module", module, "(">>
      \o FlattenSeq([i \in 1..Len(ports) |-> IF i = 1 THEN <<ports[i].name>> ELSE <<",", ports[i].name>>])
      \o <<")", ";">> \o FlattenSeq([i \in 1..Len(ast) |-> item(ast[i])]) \o <<"endmodule">>

-----------------------------------------------------------------------------
(* For properties: the emitted text with the words of the HDL for those of *)
(* Verilog, and the designs whose conditions the emitter keeps.            *)
AsHdl(ts) ==
  [i \in 1..Len(ts) |-> CASE ts[i] = "reg" -> "register" [] ts[i] = "~" -> "!" [] OTHER -> ts[i]]
Emitted(ast) == AsHdl(Emit(ast[1].name, ast))

RECURSIVE SimpleConditions(_)
SimpleConditions(n) ==
  /\ n.type = "if" => n.op \in {"", "!"}
  /\ \A i \in 1..Len(n.sub) : SimpleConditions(n.sub[i])
=============================================================================
