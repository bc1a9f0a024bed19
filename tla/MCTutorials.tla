---------------------------- MODULE MCTutorials ----------------------------
(* The designs and testbenches of examples/tutorial, as the two lexers     *)
(* give them.                                                              *)

\* tutorial/01_and_gate
AndGate ==
  << "module", "and_gate", ";", "input", "a", ";", "input", "b", ";", "output", "y", ";", "assign", "y", "=", "a",
     "&", "b", ";", "endmodule" >>

AndGateTb ==
  << "testbench", "and_tb", "{", "trace", "a", ";", "trace", "b", ";", "trace", "y", ";", "drive", "a", "=", "0",
     ";", "drive", "b", "=", "0", ";", "assert", "y", "==", "0", ";", "drive", "a", "=", "0", ";", "drive", "b",
     "=", "1", ";", "assert", "y", "==", "0", ";", "drive", "a", "=", "1", ";", "drive", "b", "=", "0", ";",
     "assert", "y", "==", "0", ";", "drive", "a", "=", "1", ";", "drive", "b", "=", "1", ";", "assert", "y", "==",
     "1", ";", "}" >>

\* tutorial/02_mux
Mux ==
  << "module", "mux2", ";", "input", "clock", ";", "input", "sel", ";", "input", "a", ";", "input", "b", ";",
     "output", "y", ";", "register", "y_reg", ";", "always", "@", "(", "posedge", "clock", ")", "begin", "if", "(",
     "sel", ")", "y_reg", "<=", "a", ";", "else", "y_reg", "<=", "b", ";", "end", "assign", "y", "=", "y_reg", ";",
     "endmodule" >>

MuxTb ==
  << "testbench", "mux_tb", "{", "timescale", "1ns", ";", "clock", "clock", "period", "=", "10ns", ";", "trace",
     "clock", ";", "trace", "sel", ";", "trace", "a", ";", "trace", "b", ";", "trace", "y", ";", "drive", "sel",
     "=", "0", ";", "drive", "a", "=", "0", ";", "drive", "b", "=", "1", ";", "wait", "rising_edge", "(", "clock",
     ")", ";", "assert", "y", "==", "1", ";", "drive", "sel", "=", "1", ";", "wait", "rising_edge", "(", "clock",
     ")", ";", "assert", "y", "==", "0", ";", "drive", "a", "=", "1", ";", "wait", "rising_edge", "(", "clock",
     ")", ";", "assert", "y", "==", "1", ";", "}" >>

\* tutorial/03_half_adder
HalfAdder ==
  << "module", "half_adder", ";", "input", "a", ";", "input", "b", ";", "output", "s", ";", "output", "c", ";",
     "assign", "s", "=", "a", "^", "b", ";", "assign", "c", "=", "a", "&", "b", ";", "endmodule" >>

HalfAdderTb ==
  << "testbench", "half_adder_tb", "{", "trace", "a", ";", "trace", "b", ";", "trace", "s", ";", "trace", "c", ";",
     "drive", "a", "=", "0", ";", "drive", "b", "=", "0", ";", "assert", "s", "==", "0", ";", "assert", "c", "==",
     "0", ";", "drive", "a", "=", "0", ";", "drive", "b", "=", "1", ";", "assert", "s", "==", "1", ";", "assert",
     "c", "==", "0", ";", "drive", "a", "=", "1", ";", "drive", "b", "=", "0", ";", "assert", "s", "==", "1", ";",
     "assert", "c", "==", "0", ";", "drive", "a", "=", "1", ";", "drive", "b", "=", "1", ";", "assert", "s", "==",
     "0", ";", "assert", "c", "==", "1", ";", "}" >>

\* tutorial/04_full_adder
FullAdder ==
  << "module", "full_adder", ";", "input", "a", ";", "input", "b", ";", "input", "cin", ";", "output", "s", ";",
     "output", "cout", ";", "wire", "ab", ";", "wire", "t1", ";", "wire", "t2", ";", "assign", "ab", "=", "a", "^",
     "b", ";", "assign", "s", "=", "ab", "^", "cin", ";", "assign", "t1", "=", "a", "&", "b", ";", "assign", "t2",
     "=", "cin", "&", "ab", ";", "assign", "cout", "=", "t1", "|", "t2", ";", "endmodule" >>

FullAdderTb ==
  << "testbench", "full_adder_tb", "{", "trace", "a", ";", "trace", "b", ";", "trace", "cin", ";", "trace", "s",
     ";", "trace", "cout", ";", "drive", "a", "=", "0", ";", "drive", "b", "=", "0", ";", "drive", "cin", "=", "0",
     ";", "assert", "s", "==", "0", ";", "assert", "cout", "==", "0", ";", "drive", "a", "=", "1", ";", "drive",
     "b", "=", "0", ";", "drive", "cin", "=", "0", ";", "assert", "s", "==", "1", ";", "assert", "cout", "==", "0",
     ";", "drive", "a", "=", "1", ";", "drive", "b", "=", "1", ";", "drive", "cin", "=", "0", ";", "assert", "s",
     "==", "0", ";", "assert", "cout", "==", "1", ";", "drive", "a", "=", "1", ";", "drive", "b", "=", "1", ";",
     "drive", "cin", "=", "1", ";", "assert", "s", "==", "1", ";", "assert", "cout", "==", "1", ";", "}" >>

\* tutorial/05_register
Register ==
  << "module", "dreg", ";", "input", "clock", ";", "input", "d", ";", "output", "q", ";", "register", "q_reg", ";",
     "always", "@", "(", "posedge", "clock", ")", "begin", "q_reg", "<=", "d", ";", "end", "assign", "q", "=",
     "q_reg", ";", "endmodule" >>

RegisterTb ==
  << "testbench", "dreg_tb", "{", "timescale", "1ns", ";", "clock", "clock", "period", "=", "10ns", ";", "trace",
     "clock", ";", "trace", "d", ";", "trace", "q", ";", "drive", "d", "=", "1", ";", "wait", "rising_edge", "(",
     "clock", ")", ";", "assert", "q", "==", "1", ";", "drive", "d", "=", "0", ";", "wait", "rising_edge", "(",
     "clock", ")", ";", "assert", "q", "==", "0", ";", "}" >>

\* tutorial/06_counter
Counter ==
  << "module", "counter4", ";", "input", "clock", ";", "input", "reset", ";", "output", "[", "3", ":", "0", "]",
     "count", ";", "register", "[", "3", ":", "0", "]", "count_reg", ";", "always", "@", "(", "posedge", "clock",
     ")", "begin", "if", "(", "reset", ")", "count_reg", "<=", "0", ";", "else", "count_reg", "<=", "count_reg",
     "+", "1", ";", "end", "assign", "count", "=", "count_reg", ";", "endmodule" >>

CounterTb ==
  << "testbench", "counter_tb", "{", "timescale", "1ns", ";", "clock", "clock", "period", "=", "10ns", ";",
     "reset", "reset", "active_high", ";", "trace", "clock", ";", "trace", "reset", ";", "trace", "count", ";",
     "drive", "reset", "=", "1", ";", "wait", "20ns", ";", "drive", "reset", "=", "0", ";", "wait", "rising_edge",
     "(", "clock", ")", ";", "assert", "count", "==", "1", ";", "wait", "rising_edge", "(", "clock", ")", ";",
     "assert", "count", "==", "2", ";", "wait", "rising_edge", "(", "clock", ")", ";", "assert", "count", "==",
     "3", ";", "}" >>

\* tutorial/07_shift_register
ShiftRegister ==
  << "module", "shift2", ";", "input", "clock", ";", "input", "en", ";", "input", "din", ";", "output", "q", ";",
     "register", "s0", ";", "register", "s1", ";", "always", "@", "(", "posedge", "clock", ")", "begin", "if", "(",
     "en", ")", "s0", "<=", "din", ";", "else", "s0", "<=", "s0", ";", "end", "always", "@", "(", "posedge",
     "clock", ")", "begin", "if", "(", "en", ")", "s1", "<=", "s0", ";", "else", "s1", "<=", "s0", ";", "end",
     "assign", "q", "=", "s1", ";", "endmodule" >>

ShiftRegisterTb ==
  << "testbench", "shift_tb", "{", "timescale", "1ns", ";", "clock", "clock", "period", "=", "10ns", ";", "trace",
     "clock", ";", "trace", "din", ";", "trace", "q", ";", "drive", "en", "=", "1", ";", "drive", "din", "=", "1",
     ";", "wait", "rising_edge", "(", "clock", ")", ";", "assert", "q", "==", "0", ";", "drive", "din", "=", "0",
     ";", "wait", "rising_edge", "(", "clock", ")", ";", "assert", "q", "==", "1", ";", "wait", "rising_edge", "(",
     "clock", ")", ";", "assert", "q", "==", "0", ";", "}" >>

\* tutorial/08_fsm
Fsm ==
  << "module", "toggle_fsm", ";", "input", "clock", ";", "input", "reset", ";", "input", "go", ";", "output",
     "out", ";", "register", "state", ";", "always", "@", "(", "posedge", "clock", ")", "begin", "if", "(",
     "reset", ")", "state", "<=", "0", ";", "else", "state", "<=", "state", "^", "go", ";", "end", "assign", "out",
     "=", "state", ";", "endmodule" >>

FsmTb ==
  << "testbench", "fsm_tb", "{", "timescale", "1ns", ";", "clock", "clock", "period", "=", "10ns", ";", "reset",
     "reset", "active_high", ";", "trace", "clock", ";", "trace", "reset", ";", "trace", "go", ";", "trace", "out",
     ";", "drive", "reset", "=", "1", ";", "drive", "go", "=", "0", ";", "wait", "20ns", ";", "drive", "reset",
     "=", "0", ";", "wait", "rising_edge", "(", "clock", ")", ";", "assert", "out", "==", "0", ";", "drive", "go",
     "=", "1", ";", "wait", "rising_edge", "(", "clock", ")", ";", "assert", "out", "==", "1", ";", "wait",
     "rising_edge", "(", "clock", ")", ";", "assert", "out", "==", "0", ";", "}" >>

Tutorials ==
  { <<AndGate, AndGateTb>>, <<Mux, MuxTb>>, <<HalfAdder, HalfAdderTb>>,
    <<FullAdder, FullAdderTb>>, <<Register, RegisterTb>>, <<Counter, CounterTb>>,
    <<ShiftRegister, ShiftRegisterTb>>, <<Fsm, FsmTb>> }
============================================================================
