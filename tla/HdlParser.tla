----------------------------- MODULE HdlParser -----------------------------
(***************************************************************************)
(* The HDL parser (src/hdl/parser.cpp): recursive descent over the tokens  *)
(* of a design, giving the list of its declarations, assigns and always    *)
(* blocks.  It never rejects a text: expect() reports a missing token and  *)
(* goes on, and what starts no statement is skipped.                       *)
(*                                                                         *)
(* A token is its text, so keywords and symbols are themselves; the token  *)
(* at the end of the file has the empty text, as it has there.             *)
(***************************************************************************)
EXTENDS Integers, Sequences

CONSTANT Decimal  (* the value of a number token: strtol() of its digits   *)

Keywords == {"module", "input", "output", "wire", "assign", "register", "clock",
             "always", "posedge", "begin", "end", "endmodule", "else", "if"}
BinaryOps == {"&", "|", "^", "+", "==", "!="}
Symbols == BinaryOps \cup {"!", "=", "<=", "(", ")", "[", "]", "{", "}", ";", ",", ":", "@", "/"}
Eof == ""

At(ts, p) == IF p <= Len(ts) THEN ts[p] ELSE Eof
IsNumber(t) == t \in DOMAIN Decimal
IsIdent(t) == t \notin Keywords \cup Symbols \cup DOMAIN Decimal \cup {Eof}
Value(t) == IF IsNumber(t) THEN Decimal[t] ELSE 0

(* match() and expect(): past the token if it is there.                    *)
Skip(ts, p, t) == IF At(ts, p) = t THEN p + 1 ELSE p

(* An AstNode.  The indices of a selection are left out: what is built     *)
(* from an expression uses its names only.                                 *)
Blank == [type |-> "", name |-> "", op |-> "", children |-> <<>>, width |-> 1, sub |-> <<>>]

(* What a production returns: its node and the token after it.             *)
Parsed(n, p) == [node |-> n, at |-> p]

Named(t) == [Blank EXCEPT !.name = t]

(* input, output, wire and register: one name, with a width.               *)
ParseDecl(ts, p) ==
  LET ranged == At(ts, p + 1) = "["
      lsb    == Skip(ts, p + 3, ":")
      name   == IF ranged THEN Skip(ts, lsb + 1, "]") ELSE p + 1
  IN  Parsed([Named(At(ts, name)) EXCEPT
                !.type = ts[p],
                !.width = IF ranged THEN Value(At(ts, p + 2)) - Value(At(ts, lsb)) + 1 ELSE 1],
             Skip(ts, name + 1, ";"))

ParseModule(ts, p) ==
  Parsed([Named(At(ts, p + 1)) EXCEPT !.type = "module"], Skip(ts, p + 2, ";"))

-----------------------------------------------------------------------------
(* Expressions *)

(* The index or range after a name.                                        *)
ParseSelect(ts, p) ==
  IF At(ts, p) # "[" THEN p
  ELSE IF ~IsNumber(At(ts, p + 1)) THEN Skip(ts, p + 1, "]")
  ELSE IF At(ts, p + 2) = ":" THEN Skip(ts, p + 4, "]")
  ELSE Skip(ts, p + 2, "]")

RECURSIVE ParseConcat(_, _, _), ParsePrimary(_, _), ParseOperators(_, _)

ParseConcat(ts, p, names) ==
  IF At(ts, p) \in {"}", Eof}
  THEN Parsed([Blank EXCEPT !.children = names], Skip(ts, p, "}"))
  ELSE ParseConcat(ts, Skip(ts, p + 1, ","), Append(names, At(ts, p)))

ParseUnary(ts, p) ==
  IF At(ts, p) # "!" THEN ParsePrimary(ts, p)
  ELSE LET e == ParsePrimary(ts, p + 1) IN
       Parsed([Blank EXCEPT !.type = "not", !.op = "!", !.children = <<e.node.name>>], e.at)

(* An operator keeps the names of its operands, and a chain of operators   *)
(* only the last one: a node of an operator has no name.                   *)
ParseOperators(ts, left) ==
  IF At(ts, left.at) \notin BinaryOps THEN left
  ELSE LET right == ParseUnary(ts, left.at + 1) IN
       ParseOperators(ts,
         Parsed([Blank EXCEPT !.type = "binary", !.op = At(ts, left.at),
                              !.children = <<left.node.name, right.node.name>>], right.at))

ParseExpr(ts, p) == ParseOperators(ts, ParseUnary(ts, p))

(* Anything else than a brace or a parenthesis is taken for a name.        *)
ParsePrimary(ts, p) ==
  LET t == At(ts, p) IN
  IF t = "{" THEN ParseConcat(ts, p + 1, <<>>)
  ELSE IF t = "(" THEN LET e == ParseExpr(ts, p + 1) IN Parsed(e.node, Skip(ts, e.at, ")"))
  ELSE Parsed(Named(t), IF IsIdent(t) THEN ParseSelect(ts, p + 1) ELSE p + 1)

(* The operands of an assignment: those of the operator, or the one name.  *)
Operands(e) ==
  IF e.children # <<>> THEN e.children ELSE IF e.name # "" THEN <<e.name>> ELSE <<>>

-----------------------------------------------------------------------------
(* Statements *)

ParseAssign(ts, p) ==
  LET target == ParsePrimary(ts, p)
      e      == ParseExpr(ts, Skip(ts, target.at, "="))
  IN  Parsed([Named(target.node.name) EXCEPT !.type = "assign", !.op = e.node.op,
                                             !.children = Operands(e.node)],
             Skip(ts, e.at, ";"))

(* target <= expression: whatever stands where <= belongs is passed over.  *)
ParseAssignLe(ts, p) ==
  LET target == ParsePrimary(ts, p)
      e      == ParseExpr(ts, target.at + 1)
  IN  Parsed([Named(target.node.name) EXCEPT
                !.type = "<=", !.op = e.node.op,
                !.children = IF target.node.children # <<>> THEN target.node.children
                             ELSE Operands(e.node)],
             Skip(ts, e.at, ";"))

RECURSIVE ParseIf(_, _), ParseBlock(_, _, _)

(* Statements up to the end of a block.                                    *)
ParseBlock(ts, p, stmts) ==
  LET t == At(ts, p)
      then(s) == ParseBlock(ts, s.at, Append(stmts, s.node))
  IN  IF t \in {"end", Eof} THEN Parsed([Blank EXCEPT !.type = "begin", !.sub = stmts], Skip(ts, p, "end"))
      ELSE IF t = "if" THEN then(ParseIf(ts, p))
      ELSE IF IsIdent(t) \/ t = "[" THEN then(ParseAssignLe(ts, p))
      ELSE ParseBlock(ts, p + 1, stmts)

ParseBranch(ts, p) ==
  IF At(ts, p) = "begin" THEN ParseBlock(ts, p + 1, <<>>) ELSE ParseAssignLe(ts, p)

(* A branch without begin is a single assignment, whatever follows.        *)
ParseIf(ts, p) ==
  LET cond == ParseExpr(ts, Skip(ts, p + 1, "("))
      tb   == ParseBranch(ts, Skip(ts, cond.at, ")"))
      eb   == ParseBranch(ts, tb.at + 1)
      node == [Blank EXCEPT !.type = "if", !.op = cond.node.op,
                 !.children = IF cond.node.op = "" THEN <<cond.node.name>> ELSE cond.node.children]
  IN  IF At(ts, tb.at) = "else" THEN Parsed([node EXCEPT !.sub = <<tb.node, eb.node>>], eb.at)
      ELSE Parsed([node EXCEPT !.sub = <<tb.node>>], tb.at)

ParseAlways(ts, p) ==
  LET clock == Skip(ts, Skip(ts, Skip(ts, p + 1, "@"), "("), "posedge")
      block == ParseBlock(ts, Skip(ts, Skip(ts, clock + 1, ")"), "begin"), <<>>)
  IN  Parsed([block.node EXCEPT !.type = "always", !.name = At(ts, clock)], block.at)

(* parse(): the nodes of the whole text from token p on.                   *)
RECURSIVE ParseFrom(_, _, _)
ParseFrom(ts, p, ast) ==
  LET t == At(ts, p)
      then(n) == ParseFrom(ts, n.at, Append(ast, n.node))
  IN  IF p > Len(ts) THEN ast
      ELSE IF t = "module" THEN then(ParseModule(ts, p))
      ELSE IF t \in {"input", "output", "wire", "register"} THEN then(ParseDecl(ts, p))
      ELSE IF t = "assign" THEN then(ParseAssign(ts, p + 1))
      ELSE IF t = "always" THEN then(ParseAlways(ts, p))
      ELSE ParseFrom(ts, p + 1, ast)

Parse(ts) == ParseFrom(ts, 1, <<>>)
=============================================================================
