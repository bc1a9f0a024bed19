------------------------------ MODULE TbParser -----------------------------
(***************************************************************************)
(* The parser of testbenches (host_test/testbench/tb.cpp).  Unlike the HDL *)
(* parser it stops at the first thing that is not as it should be.         *)
(*                                                                         *)
(* Tokens are their texts, as in HdlParser; a duration such as 20ns is a   *)
(* number token.  Here every word is a name, the keywords of the HDL too.  *)
(***************************************************************************)
EXTENDS HdlNetlist

CONSTANT Durations  (* the number tokens that end in ns                    *)

Comparisons == {"==", "!=", "<", ">", "<=", ">="}
Levels == {"active_high", "active_low"}
IsWord(t) == ~IsNumber(t) /\ t \notin Comparisons \cup {"=", "{", "}", "(", ")", ";", ",", "!", Eof}

(* A token of a kind; any other kind is the token itself.                  *)
Is(t, kind) ==
  CASE kind = "word"       -> IsWord(t)
    [] kind = "number"     -> IsNumber(t)
    [] kind = "duration"   -> t \in Durations
    [] kind = "level"      -> t \in Levels
    [] kind = "comparison" -> t \in Comparisons
    [] OTHER               -> t = kind

(* The tokens from p on are of these kinds: the checks of a statement.     *)
Fits(ts, p, shape) == \A i \in 1..Len(shape) : Is(At(ts, p + i - 1), shape[i])

(* Mutant: a block may be left open.                                       *)
ClosesOrEnds(t) == t \in {"}", Eof}

Closes(t) == t = "}"

(* What a production returns: the commands, the token after them, and      *)
(* whether it succeeded.                                                   *)
Commands(cs, p) == [ok |-> TRUE, cmds |-> cs, at |-> p]
Refused == [ok |-> FALSE, cmds |-> <<>>, at |-> 0]

(* The attributes of a clock, in any order, up to the semicolon.           *)
Attributes == [period |-> "duration", duty |-> "number", init |-> "number"]

RECURSIVE ParseClock(_, _, _)
ParseClock(ts, p, c) ==
  IF ~IsWord(At(ts, p)) THEN IF Fits(ts, p, <<";">>) THEN Commands(<<c>>, p + 1) ELSE Refused
  ELSE IF At(ts, p) \notin DOMAIN Attributes \/ ~Fits(ts, p + 1, <<"=", Attributes[At(ts, p)]>>)
  THEN Refused
  ELSE LET v == Value(At(ts, p + 2)) IN
       ParseClock(ts, p + 3,
         [c EXCEPT ![At(ts, p)] = IF At(ts, p) = "init" /\ v # 0 THEN 1 ELSE v])

(* Every other command: the kinds of its tokens and what they mean.        *)
ParseSimple(ts, p) ==
  LET name == At(ts, p + 1)
      edge == IF name \in {"rising_edge", "falling_edge"} THEN name ELSE "edge"
      then(shape, c) == IF Fits(ts, p + 1, shape) THEN Commands(<<c>>, p + 1 + Len(shape)) ELSE Refused
  IN  CASE ts[p] = "timescale" -> then(<<"duration", ";">>, [type |-> "TIMESCALE"])
        [] ts[p] = "reset" -> then(<<"word", "level", ";">>, [type |-> "RESET", name |-> name])
        [] ts[p] = "trace" -> then(<<"word", ";">>, [type |-> "TRACE", name |-> name])
        [] ts[p] = "stop"  -> then(<<";">>, [type |-> "STOP"])
        [] ts[p] = "drive" -> then(<<"word", "=", "number", ";">>,
             [type |-> "DRIVE", name |-> name, value |-> Value(At(ts, p + 3))])
        [] ts[p] = "assert" -> then(<<"word", "comparison", "number", ";">>,
             [type |-> "ASSERT", name |-> name, op |-> At(ts, p + 2), value |-> Value(At(ts, p + 3))])
        [] ts[p] = "wait" /\ edge = name -> then(<<edge, "(", "word", ")", ";">>,
             [type |-> "WAIT_EDGE", name |-> At(ts, p + 3), rising |-> edge = "rising_edge"])
        [] ts[p] = "wait" /\ edge # name -> then(<<"duration", ";">>,
             [type |-> "WAIT_NS", value |-> Value(name)])
        [] OTHER -> Refused

(* Commands up to the brace that closes their block; after the brace of a  *)
(* repeat there is no semicolon.                                           *)
RECURSIVE ParseCommands(_, _, _)
ParseCommands(ts, p, cs) ==
  LET then(r) == IF r.ok THEN ParseCommands(ts, r.at, cs \o r.cmds) ELSE Refused
      block   == ParseCommands(ts, p + 3, <<>>)
      clock   == [type |-> "CLOCK", name |-> At(ts, p + 1), period |-> 10, duty |-> 50, init |-> 0]
  IN  IF Closes(At(ts, p)) THEN Commands(cs, p + 1)
      ELSE IF ~IsWord(At(ts, p)) THEN Refused
      ELSE IF ts[p] = "repeat"
      THEN then(IF ~Fits(ts, p + 1, <<"number", "{">>) \/ ~block.ok THEN Refused
                ELSE Commands(<<[type |-> "REPEAT", value |-> Value(At(ts, p + 1)), block |-> block.cmds]>>,
                              block.at))
      ELSE IF ts[p] = "clock" THEN then(IF IsWord(At(ts, p + 1)) THEN ParseClock(ts, p + 2, clock) ELSE Refused)
      ELSE then(ParseSimple(ts, p))

(* parse_testbench(): what follows the closing brace is not looked at.     *)
ParseTestbench(ts) ==
  IF Fits(ts, 1, <<"testbench", "word", "{">>) THEN ParseCommands(ts, 4, <<>>) ELSE Refused
=============================================================================
