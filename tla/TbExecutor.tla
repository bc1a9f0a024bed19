----------------------------- MODULE TbExecutor ----------------------------
(***************************************************************************)
(* The testbench executor (host_test/testbench/tb_exec) with the tracer it *)
(* feeds (host_test/simulator/trace.h): it carries out the commands of a   *)
(* testbench on a simulator, generates the declared clocks in simulated    *)
(* time and gives the design one cycle per rising edge of the first clock. *)
(*                                                                         *)
(* A command is one action, but for waits: those pass through the clock    *)
(* toggles of advance_to() one at a time.  Values of ports are numbers,    *)
(* values of nets are words.                                               *)
(***************************************************************************)
EXTENDS VFpgaFabric, SequencesExt

CONSTANT EdgeCap  (* toggles a wait for an edge gives up after; 1000000 there *)

ASSUME EdgeCapAssumption == EdgeCap \in Nat /\ EdgeCap > 1
ASSUME LanesAssumption == Lanes \subseteq Nat /\ 0 \in Lanes

VARIABLES
  job,       (* the loaded design, with its port names                     *)
  todo,      (* commands left, blocks of running repeats unrolled          *)
  wait,      (* the wait in progress                                       *)
  values,    (* net values of the simulator                                *)
  time,      (* its time_ns_                                               *)
  clocks,    (* clocks_, in order of declaration; the first is primary     *)
  watched,   (* the tracer's nets_                                         *)
  last,      (* its last_: net -> word, for the nets with has_last_        *)
  samples,   (* its samples_                                               *)
  result,    (* ExecResult: passed, failed                                 *)
  cycles,    (* history: design cycles given                               *)
  late       (* history: a clock was declared after time 0                 *)

tracer == <<watched, last, samples>>
tbVars == <<job, todo, wait, values, time, clocks, watched, last, samples,
            result, cycles, late>>

(* A command of a testbench, as tb.h has it.  A duty above 100 wraps around *)
(* in the unsigned times of a clock and is not modelled.                   *)
IsCommand(c) ==
  /\ c.type = "WAIT_NS" => c.value \in Nat
  /\ c.type = "CLOCK" => c.period \in Nat /\ c.duty \in 0..100 /\ c.init \in {0, 1}
  /\ c.type = "WAIT_EDGE" => c.rising \in BOOLEAN
  /\ c.type = "REPEAT" => c.value \in Nat

(* A design with its port names, as the netlist and the mapper make it: a  *)
(* net is the whole of one name, or one bit of one.  Names of more than 64 *)
(* bits, of which bus_nets() leaves some out, are not modelled.            *)
NetsOf(j) == 0 .. j.design.total_nets - 1
PortNets(port) == port.whole \cup ToSet(port.bits)
IsJob(j) ==
  /\ IsConfig(j.design) /\ j.design.total_nets \in Nat
  /\ \A k \in 1..Len(j.design.ffs) : {j.design.ffs[k].d, j.design.ffs[k].q} \subseteq NetsOf(j)
  /\ \A name \in DOMAIN j.ports :
       /\ j.ports[name].whole \subseteq NetsOf(j)
       /\ j.ports[name].bits \in Seq(NetsOf(j)) /\ Len(j.ports[name].bits) <= 64
       /\ IsInjective(j.ports[name].bits)
       /\ j.ports[name].whole \cap ToSet(j.ports[name].bits) = {}
       /\ \A other \in DOMAIN j.ports \ {name} : PortNets(j.ports[name]) \cap PortNets(j.ports[other]) = {}

NoWait == [kind |-> "none"]
(* n >> k, and a number as a word.                                         *)
ShiftRight(n, k) ==
  LET shifted[i \in 0..k] == IF i = 0 THEN n ELSE shifted[i - 1] \div 2
  IN  shifted[k]
ToWord(n) == { l \in Lanes : ShiftRight(n, l) % 2 = 1 }
LevelWord(b) == ToWord(Bit(b))

(* Nothing is loaded: a configuration without nets.                        *)
NoDesign == [luts |-> <<>>, ffs |-> <<>>, constants |-> [n \in {} |-> Zero], total_nets |-> 0]
NoJob == [design |-> NoDesign, ports |-> [n \in {} |-> 0]]

TbInit ==
  /\ job = NoJob
  /\ todo = <<>>
  /\ wait = NoWait
  /\ values = InitialValues(NoDesign)
  /\ time = 0
  /\ clocks = <<>>
  /\ watched = <<>> /\ last = [n \in {} |-> Zero] /\ samples = <<>>
  /\ result = [passed |-> 0, failed |-> 0]
  /\ cycles = 0 /\ late = FALSE

(* Simulator::load() of a design, and run() of a testbench on it.  The     *)
(* program makes one executor, one tracer and one run.                     *)
LoadJob(j) ==
  /\ job' = j
  /\ values' = InitialValues(j.design)
  /\ UNCHANGED <<todo, wait, time, clocks, tracer, result, cycles, late>>

RunTestbench(commands) ==
  /\ todo' = commands
  /\ UNCHANGED <<job, wait, values, time, clocks, tracer, result, cycles, late>>

-----------------------------------------------------------------------------
(* Names, evaluation, tracing *)

(* A name may have a whole net, bit nets, or both; unknown names neither.  *)
Whole(name) == IF name \in DOMAIN job.ports THEN job.ports[name].whole ELSE {}
Bits(name) == IF name \in DOMAIN job.ports THEN job.ports[name].bits ELSE <<>>
Known(name) == Whole(name) # {} \/ Bits(name) # <<>>
NetOf(name) == CHOOSE n \in Whole(name) : TRUE

(* read_value(): the bus assembled from the first 32 bit nets unless it is *)
(* 0, else the low lane of the whole net.                                  *)
BusValue(name) ==
  LET len == IF Len(Bits(name)) < 32 THEN Len(Bits(name)) ELSE 32
      sum[i \in 0..len] ==
        IF i = 0 THEN 0
        ELSE sum[i - 1] + (IF values[Bits(name)[i]] # Zero THEN 2^(i - 1) ELSE 0)
  IN  sum[len]

ReadValue(name) ==
  IF BusValue(name) # 0 \/ Whole(name) = {} THEN BusValue(name)
  ELSE Bit(0 \in values[NetOf(name)])

Holds(op, actual, expected) ==
  \/ op = "==" /\ actual = expected
  \/ op = "!=" /\ actual # expected
  \/ op = "<"  /\ actual < expected
  \/ op = ">"  /\ actual > expected
  \/ op = "<=" /\ actual <= expected
  \/ op = ">=" /\ actual >= expected

(* Nets written by write_value(): the whole net gets the value, each bit   *)
(* net its bit of it.                                                      *)
Written(name, v) ==
  [n \in DOMAIN values |->
     IF \E i \in 1..Len(Bits(name)) : Bits(name)[i] = n
     THEN LevelWord(\E i \in 1..Len(Bits(name)) : Bits(name)[i] = n /\ ShiftRight(v, i - 1) % 2 = 1)
     ELSE IF n \in Whole(name) THEN ToWord(v) ELSE values[n]]

(* The elements of a sequence that are in a set, as a recursion that can be*)
(* unfolded in a proof.                                                    *)
Those(s, S) ==
  LET those[i \in 0 .. Len(s)] ==
        IF i = 0 THEN <<>> ELSE IF s[i] \in S THEN Append(those[i - 1], s[i]) ELSE those[i - 1]
  IN  those[Len(s)]

(* Watched nets whose value is new, and a sample of each of some nets.     *)
Changed(v, nets) == Those(nets, { n \in ToSet(nets) : n \notin DOMAIN last \/ last[n] # v[n] })
Sampled(t, v, nets) == [i \in 1..Len(nets) |-> [t |-> t, net |-> nets[i], value |-> v[nets[i]]]]

(* Mutant: a change is not remembered as the last value.                   *)
RecordForgetful(t, v, nets) ==
  /\ samples' = samples \o Sampled(t, v, Changed(v, nets))
  /\ last' = [n \in ToSet(nets) |-> IF n \in DOMAIN last THEN last[n] ELSE v[n]]

(* Tracer::record(): a sample of every watched net that has changed.       *)
Record(t, v, nets) ==
  /\ samples' = samples \o Sampled(t, v, Changed(v, nets))
  /\ last' = [n \in ToSet(nets) |-> v[n]]

(* Mutant: step() instead of eval_combinational().                         *)
SettleWithStep(v, t) ==
  /\ values' = EdgeValues(job.design, PassValues(job.design, v))
  /\ Record(t, values', watched)
  /\ UNCHANGED watched

(* What most commands end with: a pass over new values v, recorded.        *)
Settle(v, t) ==
  /\ values' = PassValues(job.design, v)
  /\ Record(t, values', watched)
  /\ UNCHANGED watched

-----------------------------------------------------------------------------
(* Commands *)

(* The next command; nothing is left to do after a STOP.                   *)
Command(type) ==
  /\ wait = NoWait
  /\ todo # <<>>
  /\ Head(todo).type = type

Fail == result' = [result EXCEPT !.failed = @ + 1]
Pass == result' = [result EXCEPT !.passed = @ + 1]

(* A signal name that does not resolve is one failed check.                *)
Unknown ==
  /\ wait = NoWait
  /\ todo # <<>>
  /\ \/ Head(todo).type \in {"DRIVE", "ASSERT", "TRACE"} /\ ~Known(Head(todo).name)
     \/ Head(todo).type \in {"CLOCK", "RESET", "WAIT_EDGE"} /\ Whole(Head(todo).name) = {}
  /\ Fail
  /\ todo' = Tail(todo)
  /\ UNCHANGED <<job, wait, values, time, clocks, tracer, cycles, late>>

(* timescale and reset declare nothing the executor acts on.               *)
Ignored ==
  /\ \/ Command("TIMESCALE")
     \/ Command("RESET") /\ Whole(Head(todo).name) # {}
  /\ todo' = Tail(todo)
  /\ UNCHANGED <<job, wait, values, time, clocks, tracer, result, cycles, late>>

(* Mutant: an empty half of a period is kept.                              *)
EmptyHalfKept(n) == n

(* Times of a clock from its period and duty; neither half is ever empty.  *)
AtLeastOne(n) == IF n = 0 THEN 1 ELSE n

NewClock(c) ==
  LET period == IF c.period = 0 THEN 10 ELSE c.period
      low    == (period * (100 - c.duty)) \div 100
      high   == period - low
  IN  [net    |-> NetOf(c.name),
       low    |-> AtLeastOne(low),
       high   |-> AtLeastOne(high),
       level  |-> c.init,
       toggle |-> IF c.init = 1 THEN AtLeastOne(high) ELSE AtLeastOne(low),
       init   |-> c.init]

(* The first toggle is counted from time 0, not from now.                  *)
DeclareClock ==
  /\ Command("CLOCK")
  /\ Whole(Head(todo).name) # {}
  /\ LET clock == NewClock(Head(todo)) IN
       /\ clocks' = Append(clocks, clock)
       /\ Settle([values EXCEPT ![clock.net] = LevelWord(clock.level = 1)], time)
  /\ late' = (late \/ time > 0)
  /\ todo' = Tail(todo)
  /\ UNCHANGED <<job, wait, time, result, cycles>>

Drive ==
  /\ Command("DRIVE")
  /\ Known(Head(todo).name)
  /\ Settle(Written(Head(todo).name, Head(todo).value), time)
  /\ todo' = Tail(todo)
  /\ UNCHANGED <<job, wait, time, clocks, result, cycles, late>>

CheckAssertion ==
  /\ Command("ASSERT")
  /\ Known(Head(todo).name)
  /\ IF Holds(Head(todo).op, ReadValue(Head(todo).name), Head(todo).value) THEN Pass ELSE Fail
  /\ todo' = Tail(todo)
  /\ UNCHANGED <<job, wait, values, time, clocks, tracer, cycles, late>>

(* A bus is traced by its bit nets, a single bit by its whole net.         *)
TracedByBits(name) == Len(Bits(name)) > 1 \/ Whole(name) = {}
TraceNets(name) == IF TracedByBits(name) THEN Bits(name) ELSE <<NetOf(name)>>

Trace ==
  /\ Command("TRACE")
  /\ Known(Head(todo).name)
  /\ LET nets == TraceNets(Head(todo).name) IN
       watched' = watched \o Those(nets, ToSet(nets) \ ToSet(watched))
  /\ Record(time, values, watched')
  /\ todo' = Tail(todo)
  /\ UNCHANGED <<job, wait, values, time, clocks, result, cycles, late>>

Repeat ==
  /\ Command("REPEAT")
  /\ LET c == Head(todo) IN
       todo' = IF c.value = 0 THEN Tail(todo)
               ELSE c.block \o <<[c EXCEPT !.value = @ - 1]>> \o Tail(todo)
  /\ UNCHANGED <<job, wait, values, time, clocks, tracer, result, cycles, late>>

Stop ==
  /\ Command("STOP")
  /\ todo' = <<>>
  /\ UNCHANGED <<job, wait, values, time, clocks, tracer, result, cycles, late>>

WaitNs ==
  /\ Command("WAIT_NS")
  /\ wait' = [kind |-> "ns", target |-> time + Head(todo).value]
  /\ todo' = Tail(todo)
  /\ UNCHANGED <<job, values, time, clocks, tracer, result, cycles, late>>

(* The toggles of the clocks on a net, and the first of some toggles.      *)
TogglesOn(net) == { clocks[i].toggle : i \in { j \in 1..Len(clocks) : clocks[j].net = net } }
First(times) == CHOOSE t \in times : \A u \in times : t <= u

(* Mutant: a wait for an edge waits until its net has a clock.             *)
WaitEdgeOfAClock ==
  /\ Command("WAIT_EDGE")
  /\ Whole(Head(todo).name) # {}
  /\ LET net == NetOf(Head(todo).name) IN
       /\ TogglesOn(net) # {}
       /\ wait' = [kind |-> "edge", target |-> First(TogglesOn(net)), net |-> net,
                   rising |-> Head(todo).rising, before |-> values[net] # Zero,
                   tries |-> 1]
  /\ todo' = Tail(todo)
  /\ UNCHANGED <<job, values, time, clocks, tracer, result, cycles, late>>

(* A wait for an edge of a net without a clock fails at once.              *)
WaitEdge ==
  /\ Command("WAIT_EDGE")
  /\ Whole(Head(todo).name) # {}
  /\ LET net == NetOf(Head(todo).name) IN
       IF TogglesOn(net) = {} THEN Fail /\ UNCHANGED wait
       ELSE /\ wait' = [kind |-> "edge", target |-> First(TogglesOn(net)), net |-> net,
                        rising |-> Head(todo).rising, before |-> values[net] # Zero,
                        tries |-> 1]
            /\ UNCHANGED result
  /\ todo' = Tail(todo)
  /\ UNCHANGED <<job, values, time, clocks, tracer, cycles, late>>

-----------------------------------------------------------------------------
(* advance_to() *)

(* Mutant: the toggle of the first clock instead of the earliest.          *)
NextToggleOfFirst == clocks[1].toggle

NextToggle == First({ clocks[i].toggle : i \in 1..Len(clocks) })
TogglePending == clocks # <<>> /\ NextToggle <= wait.target

ClocksAfter(t) ==
  [i \in 1..Len(clocks) |->
     IF clocks[i].toggle # t THEN clocks[i]
     ELSE [clocks[i] EXCEPT !.level = 1 - @,
                            !.toggle = @ + (IF clocks[i].level = 0 THEN clocks[i].high
                                                                   ELSE clocks[i].low)]]

(* Net values once the clocks that toggle at t have written theirs; where  *)
(* two drive a net, the later one wins.                                    *)
ClockWrites(t) ==
  LET after == ClocksAfter(t)
      write[i \in 0 .. Len(clocks)] ==
        IF i = 0 THEN values
        ELSE IF clocks[i].toggle # t THEN write[i - 1]
        ELSE [write[i - 1] EXCEPT ![clocks[i].net] = LevelWord(after[i].level = 1)]
  IN  write[Len(clocks)]

(* Mutant: any toggle of the primary clock is a cycle.                     *)
PrimaryRoseOrFell(t) == clocks[1].toggle = t

PrimaryRose(t) ==
  /\ ClocksAfter(t)[1].level = 1
  /\ ClocksAfter(t)[1].toggle - ClocksAfter(t)[1].high = t

(* One round of the loop: the clocks that toggle next, a pass, and on a    *)
(* rising edge of the primary clock a design cycle and another pass.       *)
Toggle ==
  /\ wait # NoWait
  /\ TogglePending
  /\ LET t       == NextToggle
         settled == PassValues(job.design, ClockWrites(t))
         cycled  == PassValues(job.design,
                      EdgeValues(job.design, PassValues(job.design, settled)))
         first   == Sampled(t, settled, Changed(settled, watched))
         second  == Sampled(t, cycled, Those(watched, { n \in ToSet(watched) : settled[n] # cycled[n] }))
     IN  /\ time' = t
         /\ clocks' = ClocksAfter(t)
         /\ IF PrimaryRose(t)
            THEN /\ values' = cycled
                 /\ samples' = samples \o first \o second
                 /\ cycles' = cycles + 1
            ELSE /\ values' = settled
                 /\ samples' = samples \o first
                 /\ UNCHANGED cycles
         /\ last' = [n \in ToSet(watched) |-> values'[n]]
  /\ UNCHANGED <<job, todo, wait, watched, result, late>>

EdgeOccurred(v) ==
  IF wait.rising THEN ~wait.before /\ v[wait.net] # Zero
                 ELSE wait.before /\ v[wait.net] = Zero

TriesAfter == wait.tries + 1

(* advance_to() returns; a wait for an edge that did not occur goes on to  *)
(* the next toggle of its net, or fails.                                   *)
AdvanceReturns ==
  /\ wait # NoWait
  /\ ~TogglePending
  /\ time' = wait.target
  /\ Settle(values, time')
  /\ IF wait.kind = "ns" \/ EdgeOccurred(values')
     THEN wait' = NoWait /\ UNCHANGED result
     ELSE IF wait.tries = EdgeCap THEN wait' = NoWait /\ Fail
     ELSE /\ wait' = [wait EXCEPT !.target = First(TogglesOn(wait.net)),
                                  !.before = values'[wait.net] # Zero,
                                  !.tries = TriesAfter]
          /\ UNCHANGED result
  /\ UNCHANGED <<job, todo, clocks, cycles, late>>

TbNext ==
  \/ Unknown
  \/ Ignored
  \/ DeclareClock
  \/ Drive
  \/ CheckAssertion
  \/ Trace
  \/ Repeat
  \/ Stop
  \/ WaitNs
  \/ WaitEdge
  \/ Toggle
  \/ AdvanceReturns

-----------------------------------------------------------------------------
(* Properties *)

TbTypeOK ==
  /\ wait # NoWait => wait.kind \in {"ns", "edge"} /\ wait.target \in Nat
  /\ values \in [0 .. job.design.total_nets - 1 -> Word]
  /\ time \in Nat
  /\ \A i \in 1..Len(clocks) : /\ clocks[i].level \in {0, 1}
                              /\ clocks[i].low > 0 /\ clocks[i].high > 0
  /\ ToSet(watched) \subseteq DOMAIN values
  /\ DOMAIN last = ToSet(watched)
  /\ result \in [passed : Nat, failed : Nat]

(* Simulated time never goes back, however the toggles of several clocks   *)
(* interleave with the commands, unless a clock was declared late:         *)
(* sim_.advance() adds an unsigned difference that would wrap around.      *)
TimeNeverGoesBack == [][ ~late' => time' >= time ]_tbVars

(* The rising edges of a clock in the simulated time up to t.              *)
Rises(clock, t) ==
  LET first == clock.low + (IF clock.init = 1 THEN clock.high ELSE 0)
  IN  IF t < first THEN 0 ELSE (t - first) \div (clock.low + clock.high) + 1

(* The design gets one cycle per rising edge of the first declared clock   *)
(* in the time that has passed, none lost or given twice between commands, *)
(* waits and the toggles of other clocks.                                  *)
CyclesFollowTheClock ==
  clocks # <<>> /\ ~late => cycles = Rises(clocks[1], time)

(* Between commands the trace is complete and has only changes: replaying  *)
(* the samples of a watched net ends at its present value, and no two      *)
(* samples of it in a row are equal.                                       *)
TraceFollowsTheNets ==
  LET between(i, j) == { k \in i + 1 .. j - 1 : samples[k].net = samples[i].net } IN
  /\ \A n \in ToSet(watched) :
       \E i \in 1..Len(samples) :
         samples[i].net = n /\ samples[i].value = values[n] /\ between(i, Len(samples) + 1) = {}
  /\ \A j \in 1..Len(samples) : \A i \in 1 .. j - 1 :
       samples[i].net = samples[j].net /\ samples[i].value = samples[j].value => between(i, j) # {}

(* Nets something other than a clock edge may change.                      *)
ClockNets == { clocks[i].net : i \in 1..Len(clocks) }
DrivenBy(name) == Whole(name) \cup ToSet(Bits(name))

(* A register whose net no LUT drives changes only in a round in which the *)
(* design gets its cycle, although the executor evaluates the design after *)
(* every command, every toggle of every clock and twice around an edge.    *)
RegistersAreEdgeTriggered ==
  [][ \A k \in 1..Len(job.design.ffs) :
        LET q == job.design.ffs[k].q IN
        q \notin LutOutputs(job.design.luts) \cup ClockNets' /\ values'[q] # values[q] =>
          \/ cycles' = cycles + 1
          \/ Head(todo).type = "DRIVE" /\ q \in DrivenBy(Head(todo).name) ]_tbVars

(* SIMULATOR.md: "Each rising edge of the first declared clock is one      *)
(* design cycle."  Of every register, also those whose net a LUT drives.   *)
OneDesignCyclePerRisingEdge ==
  [][ \A k \in 1..Len(job.design.ffs) :
        values'[job.design.ffs[k].q] # values[job.design.ffs[k].q] =>
          cycles' = cycles + 1 ]_tbVars
=============================================================================
