------------------------------ MODULE Firmware ------------------------------
(***************************************************************************)
(* Everything a design passes on the way from its text to the LED and the  *)
(* log: the lexer, the parser, the netlist builder and the mapper, in front*)
(* of the board of Board.                                                  *)
(***************************************************************************)
EXTENDS Board, HdlNetlist

(* tokenize() to map_to_luts(); ins and outs are the net ids of the ports. *)
Compile(text) ==
  LET ast == Parse(text)
      nl  == Build(ast)
      ids(type) == LET names == NamesOf(ast, type) IN
                   [i \in 1..Len(names) |-> [name |-> names[i], id |-> NetId(nl, <<names[i]>>)]]
  IN  [nets |-> nl.nets, cfg |-> MapToLuts(nl), ins |-> ids("input"), outs |-> ids("output")]

(* Compiling is a function of the text and is done once for each.          *)
ASSUME CompiledAssumption == Compiled = [text \in Texts |-> Compile(text)]

-----------------------------------------------------------------------------
(* Properties *)

Text == INSTANCE HdlPrograms
OneBit(p) == p # Text!Nothing /\ \A n \in DOMAIN p.width : p.width[n] = 1

(* A LUT's inputs it does not have make no difference, although the core   *)
(* reads net 0 for them: its table ignores them, or net 0 is one it has.   *)
IndexOn(in, on) == Bit(in[1] \in on) + 2 * Bit(in[2] \in on) + 4 * Bit(in[3] \in on) + 8 * Bit(in[4] \in on)
Completed(lut) ==
  \A on \in SUBSET ({ lut.in[i] : i \in 1..Len(lut.in) } \cup {0}) :
    LET padded(net) == [k \in 1..4 |-> IF k <= Len(lut.in) THEN lut.in[k] ELSE net] IN
    IndexOn(padded(0), on) \in lut.tt <=> IndexOn(padded(lut.in[1]), on) \in lut.tt

(* The passes after which a table in source order is settled: one more for *)
(* each LUT that reads another of its group of four.                       *)
PassesNeeded(table) ==
  LET n == Len(table)
      needs[k \in 0..n] ==
        IF k = 0 THEN 1
        ELSE LET waits == { needs[j] + Bit(SameBatch(4, n, j, k)) :
                            j \in { i \in 1..k - 1 : table[i].out \in Reads(table[k]) } }
             IN  CHOOSE m \in waits \cup {1} : \A w \in waits : w <= m
  IN  CHOOSE m \in { needs[k] : k \in 0..n } : \A k \in 0..n : needs[k] <= m

(* A combinational design gets one pass per vector; a clocked one two from *)
(* one edge to the next.                                                   *)
Reliable ==
  /\ initialized /\ Core!FitsSignals /\ OneBit(made.design.says)
  /\ \A k \in 1..Len(made.cfg.luts) : Completed(made.cfg.luts[k])
  /\ OrderedLuts(1, luts)
  /\ PassesNeeded(luts) <= IF ffs = <<>> THEN 1 ELSE 2

=============================================================================
