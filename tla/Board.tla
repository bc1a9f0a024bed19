------------------------------- MODULE Board --------------------------------
(***************************************************************************)
(* What the firmware does on the board: app_main (src/main.cpp) compiles   *)
(* and runs the user's design, then the demos (src/demo_run.cpp) do so with*)
(* three of their own and let a fourth drive the LED through the bridge.   *)
(*                                                                         *)
(* Each of these functions makes a core, and what it does with it depends  *)
(* on the compiled design alone, so a function is the list of the calls it *)
(* makes.  The calls are made one by one; those into the core run its      *)
(* loops to the end.  When start-up is over the bridge is left with its    *)
(* pins: from then on an application may call it, in any order.            *)
(*                                                                         *)
(* A design has text (its tokens), says (what it means, see HdlPrograms),  *)
(* cycles and tests (USER_CYCLES and USER_TEST_INPUTS).                    *)
(***************************************************************************)
EXTENDS VFpgaFabric, SequencesExt, GpioBridge

CONSTANTS
  UserDesigns,  (* the designs a user may have put in user_design.h        *)
  Demos,        (* and_gate, counter, lfsr and blinker                     *)
  CoreSize,     (* the capacities of init(), 4096 of each there            *)
  Compiled,     (* text -> what it compiles to                             *)
  Debris        (* what a design larger than the core finds past its nets  *)

(* Lane 0 is reported; the firmware itself uses two pins.                  *)
LedPin == 5
ASSUME LanesAssumption == 0 \in Lanes
ASSUME PinsAssumption == {4, LedPin} \subseteq Gpios
ASSUME CoreSizeAssumption == CoreSize \in [signals : Nat \ {0}, luts : Nat \ {0}, ffs : Nat]

VARIABLES
  job,    (* how many of the functions have begun                          *)
  made,   (* the design the running function has compiled                  *)
  todo,   (* the calls it has yet to make                                  *)
  report, (* what it has logged last                                       *)
  before, (* history: lane 0 of the nets at the report before              *)
  blinks  (* history: how often the LED has been committed                 *)

(* VFpgaCore core                                                          *)
VARIABLES
  initialized, bufs, live, max, signals, luts, ffs, phase, idx, cycles, start, overrun

(* What the functions write to input nets: all lanes off or on, or lane 0. *)
One == {0}
Levels == {Zero, AllOnes, One}

(* The designs the functions load.                                         *)
Texts == { d.text : d \in UserDesigns } \cup { Demos[f].text : f \in DOMAIN Demos }
Designs == { Compiled[text].cfg : text \in Texts }
ASSUME DesignsAssumption ==
  /\ \A text \in Texts :
       IsConfig(Compiled[text].cfg) /\ Compiled[text].ins \in Seq([name : STRING, id : Net])
  /\ \A d \in UserDesigns : d.cycles \in Nat /\ d.tests \in Seq(Seq({0, 1}))
  /\ {"and_gate", "counter", "lfsr", "blinker"} \subseteq DOMAIN Demos
ASSUME BoardDebrisAssumption ==
  /\ Debris # {}
  /\ \A debris \in Debris : \A n \in DOMAIN debris : debris[n] \in Word

Core == INSTANCE VFpgaCore WITH
  Sizes <- {CoreSize}, Configs <- Designs, InputWords <- Levels, MaxCycles <- 0
coreVars ==
  <<initialized, bufs, live, max, signals, luts, ffs, phase, idx, cycles, start, overrun>>
boardVars == <<job, made, todo, report, before, blinks, bridgeVars, coreVars>>

NoReport == [vector |-> <<>>, outs |-> [n \in {} |-> FALSE]]
NoDesign == [text |-> <<>>]

BoardInit ==
  /\ job = 0 /\ made = NoDesign /\ todo = <<>>
  /\ report = NoReport /\ before = <<>> /\ blinks = 0
  /\ BridgeInit
  /\ Core!Init

-----------------------------------------------------------------------------
(* Compiled designs *)

Compilation(d) ==
  LET c == Compiled[d.text] IN
  [design |-> d, nets |-> c.nets, cfg |-> c.cfg, ins |-> c.ins, outs |-> c.outs]

(* get_net_id() of a whole net.                                            *)
NetNamed(c, name) == (CHOOSE i \in 1..Len(c.nets) : c.nets[i] = <<name>>) - 1

-----------------------------------------------------------------------------
(* The functions as lists of calls *)

Evaluate1 == [call |-> "evaluate"]
Clock1 == [call |-> "clock"]
Write(id, word) == [call |-> "write", id |-> id, word |-> word]
Writes(c, vector) ==
  [i \in 1..Len(vector) |-> Write(c.ins[i].id, IF vector[i] = 1 THEN AllOnes ELSE Zero)]


(* One vector of a combinational design.                                   *)
Try(c, vector) == Writes(c, vector) \o <<Evaluate1, [call |-> "report", vector |-> vector]>>

(* All values of the inputs, the first changing fastest.                   *)
Vectors(n) == [k \in 1 .. 2^n |-> [i \in 1..n |-> ((k - 1) \div 2^(i - 1)) % 2]]
Cut(vector, n) == SubSeq(vector, 1, IF Len(vector) < n THEN Len(vector) ELSE n)

Combinational(c) ==
  LET n     == Len(c.ins)
      tests == c.design.tests
      tried == IF tests # <<>> THEN [t \in 1..Len(tests) |-> Cut(tests[t], n)]
               ELSE IF n \in 1..8 THEN Vectors(n) ELSE <<>>
  IN  FlattenSeq([t \in 1..Len(tried) |-> Try(c, tried[t])])

(* A reset over one edge, and cycles that are reported after their edge.   *)
Sequential(clk, rst, n) ==
  <<Write(rst, One), Write(clk, Zero), Evaluate1, Clock1, Write(rst, Zero)>>
  \o FlattenSeq([k \in 1..n |->
       <<Write(clk, One), Evaluate1, Clock1, [call |-> "report", vector |-> <<>>],
         Write(clk, Zero), Evaluate1>>])

(* The inputs with one of two names; the last one is taken.                *)
PortsNamed(c, names) == { i \in 1..Len(c.ins) : c.ins[i].name \in names }
LastOf(c, ports) == c.ins[CHOOSE i \in ports : \A j \in ports : j <= i].id

UserCalls(c) ==
  LET clks == PortsNamed(c, {"clock", "clk"})
      rsts == PortsNamed(c, {"reset", "rst"})
  IN  IF c.cfg.ffs = <<>> THEN Combinational(c)
      ELSE IF clks = {} \/ rsts = {} THEN <<>>
      ELSE Sequential(LastOf(c, clks), LastOf(c, rsts), c.design.cycles)

GateCalls(c) ==
  LET a == NetNamed(c, "a")  b == NetNamed(c, "b")  report1 == [call |-> "report", vector |-> <<>>] IN
  <<Write(a, AllOnes), Write(b, AllOnes), Evaluate1, report1, Write(a, AllOnes), Write(b, Zero), Evaluate1, report1>>

CounterCalls(c, n) == Sequential(NetNamed(c, "clock"), NetNamed(c, "reset"), n)

(* Mutant: the design is evaluated once more, after the edge.              *)
BlinkTwice(c) ==
  <<Evaluate1, Clock1, Evaluate1, [call |-> "set", vio |-> 0, id |-> NetNamed(c, "led")], [call |-> "commit"]>>

Blink(c) ==
  <<Evaluate1, Clock1, [call |-> "set", vio |-> 0, id |-> NetNamed(c, "led")], [call |-> "commit"]>>

(* init() and load_config() come first, the destructor last.               *)
Session(calls) == <<[call |-> "init"], [call |-> "load"]>> \o calls \o <<[call |-> "destroy"]>>

SelfTests ==
  <<[call |-> "pin", gpio |-> 4, mode |-> "input", level |-> 0],
    [call |-> "pin", gpio |-> LedPin, mode |-> "output", level |-> 1],
    [call |-> "pin", gpio |-> LedPin, mode |-> "output", level |-> 0]>>
Prepare == <<[call |-> "table"], [call |-> "begin"]>>

(* What app_main() does, in order, and after the user's design what        *)
(* run_all_demos() does, which does not return.                            *)
Functions == <<"main", "user", "demos", "and_gate", "counter", "lfsr", "blinker">>
Preparing == {"main", "demos"}
CallsOf(function, c) ==
  CASE function = "user"     -> Session(UserCalls(c))
    [] function = "and_gate" -> Session(GateCalls(c))
    [] function = "counter"  -> Session(CounterCalls(c, 10))
    [] function = "lfsr"     -> Session(CounterCalls(c, 5))
    [] function = "blinker"  -> <<[call |-> "map", vio |-> 0, gpio |-> LedPin]>>
                                \o Session(FlattenSeq([k \in 1..8 |-> Blink(c)]))

-----------------------------------------------------------------------------
(* Steps *)

Idle == todo = <<>> /\ phase = "idle"
More == Idle /\ job < Len(Functions)
Begins(calls) ==
  /\ job' = job + 1
  /\ todo' = calls
  /\ report' = NoReport /\ before' = <<>>
  /\ UNCHANGED <<blinks, bridgeVars, coreVars>>

BeginFunction ==
  /\ More /\ Functions[job + 1] \notin Preparing
  /\ \E d \in IF Functions[job + 1] = "user" THEN UserDesigns ELSE {Demos[Functions[job + 1]]} :
       LET c == Compilation(d) IN
       made' = c /\ Begins(CallsOf(Functions[job + 1], c))

(* The table and a bridge; the demos always test, app_main() when          *)
(* RUN_SELF_TESTS is set.                                                  *)
BeginBoard ==
  /\ More /\ Functions[job + 1] \in Preparing
  /\ made' = NoDesign
  /\ \/ Begins(Prepare \o SelfTests)
     \/ Functions[job + 1] = "main" /\ Begins(Prepare)

Calls(name) == todo # <<>> /\ Head(todo).call = name /\ phase = "idle" /\ todo' = Tail(todo)
This == Head(todo)
OnCore == UNCHANGED <<job, made, report, before, blinks, bridgeVars>>
OnBridge == UNCHANGED <<job, made, report, before, coreVars>>

(* Allocations succeed or fail.                                            *)
InitCore ==
  /\ Calls("init") /\ OnCore
  /\ \E got \in {{}, Core!Needed(CoreSize)} : Core!CoreInit(CoreSize, got)
(* No size is compared: the core is what init() makes by default.          *)
LoadDesign == Calls("load") /\ OnCore /\ Core!LoadConfig(made.cfg)
WriteNet == Calls("write") /\ OnCore /\ Core!WriteInput(This.id, This.word)
EvaluateDesign == Calls("evaluate") /\ OnCore /\ Core!EvaluateCombinational
ClockDesign == Calls("clock") /\ OnCore /\ Core!Clock
CoreRuns == Core!Compute /\ OnCore /\ UNCHANGED todo
DestroyCore ==
  /\ Calls("destroy")
  /\ Core!Destroy
  /\ made' = NoDesign /\ report' = NoReport /\ before' = <<>>
  /\ UNCHANGED <<job, blinks, bridgeVars>>

Signal(id) == IF id \in DOMAIN signals THEN signals[id] ELSE Zero
Lane0 == [n \in DOMAIN signals |-> 0 \in signals[n]]

(* The outputs in lane 0; of a clocked design the log has the other lanes  *)
(* as well, where inputs stay 0.                                           *)
ReportOutputs ==
  /\ Calls("report")
  /\ report' = [vector |-> This.vector,
                outs |-> [n \in { made.outs[i].name : i \in 1..Len(made.outs) } |->
                            0 \in Signal(NetNamed(made, n))]]
  /\ before' = Lane0
  /\ UNCHANGED <<job, made, blinks, bridgeVars, coreVars>>

LoadTable == Calls("table") /\ LoadDefault /\ blinks' = blinks /\ OnBridge
BeginBridge == Calls("begin") /\ Begin /\ blinks' = blinks /\ OnBridge
TestPin == Calls("pin") /\ SetPin(This.gpio, This.mode, This.level) /\ blinks' = blinks /\ OnBridge

(* The demo ends here when the pin is not safe.                            *)
MapLed ==
  /\ todo # <<>> /\ This.call = "map" /\ phase = "idle"
  /\ todo' = IF Valid(This.vio, This.gpio) THEN Tail(todo) ELSE <<>>
  /\ Map(This.vio, This.gpio, FALSE)
  /\ blinks' = blinks /\ OnBridge
SetLed ==
  /\ Calls("set")
  /\ SetOutputValue(This.vio, Bit(Signal(This.id) # Zero))
  /\ blinks' = blinks /\ OnBridge
CommitLed == Calls("commit") /\ CommitOutputs /\ blinks' = blinks + 1 /\ OnBridge

(* An application of the bridge.                                           *)
Apply(operation) == Idle /\ ~More /\ operation /\ UNCHANGED <<todo, blinks>> /\ OnBridge
Application ==
  \/ \E v \in Vios, g \in Gpios, input \in BOOLEAN : Apply(Map(v, g, input))
  \/ \E v \in Vios : Apply(Unmap(v))
  \/ \E v \in Vios, value \in {0, 1} : Apply(SetOutputValue(v, value))
  \/ Apply(SampleInputs)
  \/ Apply(CommitOutputs)
  \/ \E g \in Gpios : Apply(WorldChanges(g))

BoardNext ==
  \/ BeginFunction \/ BeginBoard
  \/ InitCore \/ LoadDesign \/ WriteNet \/ EvaluateDesign \/ ClockDesign \/ CoreRuns \/ DestroyCore
  \/ ReportOutputs
  \/ LoadTable \/ BeginBridge \/ TestPin \/ MapLed \/ SetLed \/ CommitLed
  \/ Application

BoardSpec == BoardInit /\ [][BoardNext]_boardVars

-----------------------------------------------------------------------------
(* Properties *)

(* The LED changes at every blink, and no other pin does, although its     *)
(* register is driven by a LUT as well and so advances at each evaluation. *)
LedBlinks ==
  [][ CommitLed /\ initialized /\ blinks > 0 =>
        \A g \in Gpios :
          pins'[g] = IF g = LedPin THEN [mode |-> "output", level |-> 1 - pins[g].level]
                     ELSE pins[g] ]_boardVars

(* README.md of this demo: "Blink 1: led=1 -> GPIO5", "Blink 2: led=0 ->   *)
(* GPIO5".                                                                 *)
Blinking == job > 0 /\ Functions[job] = "blinker" /\ todo # <<>> /\ blinks > 0
LedBlinksAsDocumented == Blinking /\ initialized => pins[LedPin].level = blinks % 2
=============================================================================
