--------------------------- MODULE PhysicalDesign --------------------------
(***************************************************************************)
(* The physical commands of the tool (cmd_physical in tools/cli/main.cpp)  *)
(* and the engine they drive (host_test/physical/physical_design.cpp): a   *)
(* netlist becomes standard cells, the cells get places in rows, the pins  *)
(* get wires on two metal layers, and the longest path is estimated.       *)
(*                                                                         *)
(* The loops of the placement and of the timing estimate are steps; wires  *)
(* are one step, since no connection looks at another.  A point is a record*)
(* of x and y, a cell is known by its index and a net by its name.         *)
(*                                                                         *)
(* A command line is a record: command, target, netlist (its nets in order *)
(* of their ids and its components), algorithm, seed, utilization (in      *)
(* percent), readable (the file it names), layout (what a file that is     *)
(* opened holds) and writable (the file to write).                         *)
(***************************************************************************)
EXTENDS Sums, FiniteSets

CONSTANT PhysicalLines

(* The netlist builder gives every component an input.                     *)
ASSUME LinesAssumption ==
  \A line \in PhysicalLines :
    /\ line.seed \in Nat /\ line.seed < 65536
    /\ Len(line.netlist.comps) \in Nat
    /\ \A k \in 1..Len(line.netlist.comps) : Len(line.netlist.comps[k].in) \in Nat \ {0}

(* The cells that can be placed; every one is a row high.                  *)
CellTypes == {"INV", "BUF", "AND2", "OR2", "XOR2", "MUX2", "XOR3", "MAJ3", "DFF"}
CellWidth(cell) ==
  CASE cell \in {"INV", "BUF"}          -> 10
    [] cell \in {"AND2", "OR2", "XOR2"} -> 20
    [] OTHER                            -> 30
Delay(cell) ==
  CASE cell = "INV"  -> 40 [] cell = "BUF"  -> 45 [] cell \in {"AND2", "OR2"} -> 60
    [] cell = "XOR2" -> 70 [] cell = "MUX2" -> 80 [] OTHER -> 90
RowH == 30
Margin == 40

(* map_op()                                                                *)
CellFor(op) ==
  CASE op \in {"&", "=="}      -> "AND2"
    [] op = "|"                -> "OR2"
    [] op \in {"^", "+", "!="} -> "XOR2"
    [] op = "!"                -> "INV"
    [] op = "PASS"             -> "BUF"
    [] op = "MUX"              -> "MUX2"
    [] OTHER                   -> op
MappedOps == {"&", "==", "|", "^", "+", "!=", "!", "PASS", "MUX", "XOR3", "MAJ3", "DFF"}

(* build_ir(): it gives up at an operator without a cell, or one that would*)
(* need several.                                                           *)
Mappable(comp) ==
  comp.op \in MappedOps /\ ~(comp.op \in {"+", "==", "!="} /\ Len(comp.in) > 2)
Instances(netlist) ==
  [i \in 1..Len(netlist.comps) |->
     [cell |-> CellFor(netlist.comps[i].op), in |-> netlist.comps[i].in, out |-> netlist.comps[i].out]]

VARIABLES
  argv,    (* the command line                                             *)
  stage,   (* where the command is                                         *)
  exit,    (* its exit code                                                *)
  insts,   (* ir.insts                                                     *)
  i,       (* index of the loop that is running                            *)
  area,    (* cell_area                                                    *)
  side,    (* fp.core_w and fp.core_h: the aspect is always 1              *)
  rand,    (* state of the random numbers, as two halves of 16 bits        *)
  order,   (* order                                                        *)
  rowX,    (* row_x: where the next cell of a row would stand              *)
  cells,   (* fp.insts: the placed cells and their lower left corners      *)
  wires,   (* rr.segs: the segments of every pin that has some             *)
  unrouted,(* rr.unrouted                                                  *)
  arrival, (* arr: the estimated arrival of nets                           *)
  how,     (* how: the input a net's arrival comes from                    *)
  file     (* the layout file: its name of the design, wires and timing    *)

placeVars == <<insts, i, area, side, rand, order, rowX, cells>>
resultVars == <<wires, unrouted, arrival, how>>
physVars == <<argv, stage, exit, file, placeVars, resultVars>>

Empty == [x \in {} |-> 0]
NoFile == [kind |-> "none"]

PhysInit ==
  /\ argv \in PhysicalLines
  /\ stage = "start" /\ exit = 0
  /\ insts = <<>> /\ i = 0 /\ area = 0 /\ side = 0 /\ rand = <<0, 0>>
  /\ order = <<>> /\ rowX = Empty /\ cells = Empty
  /\ wires = Empty /\ unrouted = 0 /\ arrival = Empty /\ how = Empty
  /\ file = argv.layout

Exit(code) ==
  /\ stage' = "done" /\ exit' = code
  /\ UNCHANGED <<argv, file, placeVars, resultVars>>
Goto(s) == stage' = s /\ UNCHANGED <<argv, exit, file>>

-----------------------------------------------------------------------------
(* Before the placement *)

OpenLayout ==
  /\ stage = "start" /\ argv.command = "open"
  /\ Exit(CASE ~argv.readable \/ file = NoFile -> 2
            [] file.kind # "layout" \/ file.version # 1 -> 4
            [] OTHER -> 0)

(* Commands about a design: it is read and compiled.                       *)
OfDesign == stage = "start" /\ argv.command # "open"

CannotReadDesign == OfDesign /\ ~argv.readable /\ Exit(2)

CompileOnly == OfDesign /\ argv.readable /\ argv.command = "map" /\ argv.target = "vfpga" /\ Exit(0)

ForAsic == OfDesign /\ argv.readable /\ ~(argv.command = "map" /\ argv.target = "vfpga")
HasCells == \A k \in 1..Len(argv.netlist.comps) : Mappable(argv.netlist.comps[k])

RefuseMapping == ForAsic /\ ~HasCells /\ Exit(4)
ReportMapping == ForAsic /\ HasCells /\ argv.command \in {"map", "synth"} /\ Exit(0)
NothingToPlace ==
  ForAsic /\ HasCells /\ argv.command \notin {"map", "synth"} /\ argv.netlist.comps = <<>> /\ Exit(4)

BeginPlacement ==
  /\ ForAsic /\ HasCells /\ argv.command \notin {"map", "synth"} /\ argv.netlist.comps # <<>>
  /\ insts' = Instances(argv.netlist)
  /\ Goto("measure")
  /\ UNCHANGED <<i, area, side, rand, order, rowX, cells, resultVars>>

-----------------------------------------------------------------------------
(* floorplan_place() *)

Count == Len(insts)

MeasureCell ==
  /\ stage = "measure" /\ i < Count
  /\ area' = area + CellWidth(insts[i + 1].cell) * RowH
  /\ i' = i + 1
  /\ UNCHANGED <<argv, stage, exit, file, insts, side, rand, order, rowX, cells, resultVars>>

(* The side of the square that has the area at the utilization.            *)
Utilization == IF argv.utilization \in 1..100 THEN argv.utilization ELSE 60
CoreSide == CHOOSE n \in 60 .. 60 + 100 * area :
  /\ n * n * Utilization >= area * 100
  /\ \A m \in 60 .. n - 1 : m * m * Utilization < area * 100
RowsOf(s) == 0 .. (s \div RowH) - 1

(* a * b + c modulo 2^32, of halves.                                       *)
MulAdd(a, b, c) ==
  LET low == a[2] * b[2] + c[2] IN
  <<(((a[1] * b[2]) % 65536) + ((a[2] * b[1]) % 65536) + (low \div 65536) + c[1]) % 65536, low % 65536>>
Next32(r) == MulAdd(r, <<25, 26125>>, <<15470, 62303>>)  (* lcg_next()     *)
Modulo(r, n) == ((r[1] % n) * (65536 % n) + r[2]) % n

Floorplan ==
  /\ stage = "measure" /\ ~(i < Count)
  /\ side' = CoreSide
  /\ rand' = MulAdd(<<0, argv.seed>>, <<40503, 31153>>, <<0, 1>>)
  /\ order' = [k \in 1..Count |-> k]
  /\ rowX' = [r \in RowsOf(side') |-> Margin]
  /\ i' = Count
  /\ Goto("shuffle")
  /\ UNCHANGED <<insts, area, cells, resultVars>>

Shuffle ==
  /\ stage = "shuffle" /\ i > 1
  /\ rand' = Next32(rand)
  /\ LET j == Modulo(rand', i) + 1 IN
     order' = [order EXCEPT ![i] = order[j], ![j] = order[i]]
  /\ i' = i - 1
  /\ UNCHANGED <<argv, stage, exit, file, insts, area, side, rowX, cells, resultVars>>

Shuffled ==
  /\ stage = "shuffle" /\ ~(i > 1)
  /\ i' = 0
  /\ Goto("place")
  /\ UNCHANGED <<insts, area, side, rand, order, rowX, cells, resultVars>>

Sequential(c) == insts[c].cell = "DFF"
Placed == DOMAIN cells

(* Mutant: the cells that are not flip-flops are left out.                 *)
TurnOfFlipFlops(k) == order[k] \notin Placed /\ Sequential(order[k])

(* The cell whose turn it is: in the shuffled order, but flip-flops first  *)
(* unless the placement is to be random.                                   *)
Turn(k) ==
  /\ order[k] \notin Placed
  /\ \A l \in 1..Count :
       order[l] \notin Placed =>
         IF argv.algorithm = "random_seeded" \/ Sequential(order[l]) = Sequential(order[k])
         THEN k <= l ELSE Sequential(order[k])

Apart(a, b) == IF a < b THEN b - a ELSE a - b
Manhattan(p, q) == Apart(p.x, q.x) + Apart(p.y, q.y)
CornerOf(r) == [x |-> rowX[r], y |-> Margin + r * RowH]
Middle(c, corner) == [x |-> corner.x + CellWidth(insts[c].cell) \div 2, y |-> corner.y + RowH \div 2]
Center(c) == Middle(c, cells[c])

(* The cell that drives a net: the last of them.                           *)
Drivers(net) == { c \in 1..Count : insts[c].out = net }
DriverOf(net) == CHOOSE c \in Drivers(net) : \A d \in Drivers(net) : d <= c

(* The wire lengths to the placed drivers of its inputs, and to every input*)
(* its output is connected to in a placed cell.                            *)
WireCost(c, at) ==
  LET inputs == insts[c].in
      from(net) == IF Drivers(net) # {} /\ DriverOf(net) \in Placed
                   THEN Manhattan(at, Center(DriverOf(net))) ELSE 0
      to(d) == IF d \notin Placed THEN 0
               ELSE Manhattan(at, Center(d))
                    * Cardinality({ p \in 1..Len(insts[d].in) : insts[d].in[p] = insts[c].out })
  IN  Total([p \in 1..Len(inputs) |-> from(inputs[p])]) + Total([d \in 1..Count |-> to(d)])

HasRoom(c, r) == rowX[r] + CellWidth(insts[c].cell) <= Margin + side

(* Mutant: a row is taken whether or not it has room.                      *)
CandidatesAnyRow(c) == DOMAIN rowX

(* The rows with room for a cell; when there is none, all of them.         *)
Candidates(c) ==
  LET roomy == { r \in DOMAIN rowX : HasRoom(c, r) } IN IF roomy = {} THEN DOMAIN rowX ELSE roomy

(* row_pack and random_seeded deal the cells out; greedy_wirelength takes  *)
(* the first of the cheapest rows.                                         *)
TakesRow(c, r) ==
  IF argv.algorithm \in {"row_pack", "random_seeded"} THEN r = i % Cardinality(DOMAIN rowX)
  ELSE /\ r \in Candidates(c)
       /\ LET cost == [q \in Candidates(c) |-> WireCost(c, Middle(c, CornerOf(q)))] IN
          \A q \in Candidates(c) : IF q < r THEN cost[q] > cost[r] ELSE cost[q] >= cost[r]

(* Mutant: the cursor of a row stops at the edge of the core.              *)
CursorInsideCore(r, w) == IF rowX[r] + w <= Margin + side THEN rowX[r] + w ELSE rowX[r]

(* Where a row goes on after a cell at its cursor.                         *)
Cursor(r, w) == rowX[r] + w

PutCell(c, r) ==
  /\ cells' = [d \in Placed \cup {c} |-> IF d = c THEN CornerOf(r) ELSE cells[d]]
  /\ rowX' = [rowX EXCEPT ![r] = Cursor(r, CellWidth(insts[c].cell))]

Place ==
  /\ stage = "place" /\ i < Count
  /\ \E k \in 1..Count, r \in DOMAIN rowX :
       Turn(k) /\ TakesRow(order[k], r) /\ PutCell(order[k], r)
  /\ i' = i + 1
  /\ UNCHANGED <<argv, stage, exit, file, insts, area, side, rand, order, resultVars>>

PlacementDone == stage = "place" /\ ~(i < Count)
ReportPlacement == PlacementDone /\ argv.command \in {"floorplan", "place"} /\ Exit(0)

-----------------------------------------------------------------------------
(* route() *)

(* Where the cell that drives a net is; nets without one get no wires.     *)
PinsOf(c) == { <<c, p>> : p \in 1..Len(insts[c].in) }
NetAt(pin) == insts[pin[1]].in[pin[2]]
(* The pins that are connected to a cell, unless it is the cell itself.    *)
Connections ==
  { pin \in UNION { PinsOf(c) : c \in 1..Count } :
      Drivers(NetAt(pin)) # {} /\ NetAt(pin) # insts[pin[1]].out }
From(pin) == Center(DriverOf(NetAt(pin)))
To(pin) == Center(DriverOf(insts[pin[1]].out))

Inside(p) ==
  /\ p.x >= Margin /\ p.x <= Margin + side
  /\ p.y >= Margin /\ p.y <= Margin + side

(* An L: along the row on metal 1, up or down on metal 2, a via between.   *)
Segment(layer, a, b) == [layer |-> layer, a |-> a, b |-> b]
Corner(pin) == [x |-> To(pin).x, y |-> From(pin).y]
Bent(pin) ==
  (IF From(pin) # Corner(pin) THEN <<Segment(1, From(pin), Corner(pin))>> ELSE <<>>)
  \o (IF Corner(pin) # To(pin) THEN <<Segment(2, Corner(pin), To(pin))>> ELSE <<>>)

(* Both ends and the corner are in the core.  The search over the routing  *)
(* tiles finds a way then: it meets no obstacle, blocked is never read.    *)
Routable(pin) == Inside(From(pin)) /\ Inside(To(pin)) /\ Inside(Corner(pin))

Route ==
  /\ PlacementDone /\ argv.command \notin {"floorplan", "place"}
  /\ wires' = [pin \in { p \in Connections : Routable(p) } |-> Bent(pin)]
  /\ unrouted' = Cardinality({ p \in Connections : ~Routable(p) })
  /\ arrival' = [net \in { insts[c].out : c \in { d \in 1..Count : Sequential(d) } } |-> 0]
  /\ i' = 0
  /\ Goto("time")
  /\ UNCHANGED <<insts, area, side, rand, order, rowX, cells, how>>

-----------------------------------------------------------------------------
(* estimate_timing() *)

With(f, x, v) == [y \in DOMAIN f \cup {x} |-> IF y = x THEN v ELSE f[y]]
Known(net, arr) == IF net \in DOMAIN arr THEN arr[net] ELSE 0

(* The arrival at a pin: that of its net and twice the length of the way.  *)
PinArrival(pin, arr) ==
  Known(NetAt(pin), arr) + IF Drivers(NetAt(pin)) = {} THEN 0 ELSE 2 * Manhattan(From(pin), To(pin))

(* A cell: the latest of its inputs, the first of them, and its delay.     *)
RelaxCell(c, t) ==
  LET pins == 1..Len(insts[c].in)
      at   == CHOOSE f \in { [p \in pins |-> PinArrival(<<c, p>>, t.arr)] } : TRUE
      last == CHOOSE p \in pins : \A q \in pins : at[q] <= at[p] /\ (at[q] = at[p] => p <= q)
      new  == at[last] + Delay(insts[c].cell)
      net  == insts[c].out
  IN  IF Sequential(c) \/ (net \in DOMAIN t.arr /\ new <= t.arr[net]) THEN t
      ELSE [arr |-> With(t.arr, net, new), how |-> With(t.how, net, insts[c].in[last])]

RelaxAll ==
  LET after[c \in 0..Count] ==
        IF c = 0 THEN [arr |-> arrival, how |-> how]
        ELSE CHOOSE t \in { RelaxCell(c, s) : s \in {after[c - 1]} } : TRUE
  IN  after[Count]

(* Mutant: one pass, as if the cells came in the order of their paths.     *)
PassesOnlyOne == 1

Passes == Count + 1

(* A pass over the cells: i counts those that changed something, and one   *)
(* that does not ends the loop.                                            *)
Relax ==
  /\ stage = "time" /\ i < Passes
  /\ \E t \in {RelaxAll} : arrival' = t.arr /\ how' = t.how
  /\ IF arrival' = arrival THEN stage' = "timed" ELSE stage' = stage
  /\ i' = i + 1
  /\ UNCHANGED <<argv, exit, file, insts, area, side, rand, order, rowX, cells, wires, unrouted>>

RelaxStops ==
  /\ stage = "time" /\ ~(i < Passes)
  /\ Goto("timed")
  /\ UNCHANGED <<placeVars, resultVars>>

(* The ends of paths: inputs of flip-flops, and nets nothing reads.        *)
Readers(net) == { c \in 1..Count : \E p \in 1..Len(insts[c].in) : insts[c].in[p] = net }
Endpoints ==
  { net \in DOMAIN arrival : Readers(net) = {} \/ \E c \in Readers(net) : Sequential(c) }
Critical == CHOOSE net \in Endpoints : \A other \in Endpoints : arrival[other] <= arrival[net]
CritPs == IF Endpoints = {} THEN 0 ELSE arrival[Critical]

-----------------------------------------------------------------------------
(* After the estimate *)

Reports == {"route", "timing", "congestion", "report"}
Timed == stage = "timed"

ReportDesign ==
  /\ Timed /\ argv.command \in Reports
  /\ Exit(IF argv.command = "route" /\ unrouted # 0 THEN 4 ELSE 0)

CannotWriteLayout == Timed /\ argv.command \notin Reports /\ ~argv.writable /\ Exit(4)

(* Mutant: the exit code of build is that of layout.                       *)
LayoutCodeAlways0 == 0

LayoutCode == IF unrouted # 0 /\ argv.command = "build" THEN 4 ELSE 0

WriteLayout ==
  /\ Timed /\ argv.command \notin Reports /\ argv.writable
  /\ file' = [kind |-> "layout", version |-> 1, cells |-> cells, wires |-> wires, crit |-> CritPs]
  /\ stage' = "done" /\ exit' = LayoutCode
  /\ UNCHANGED <<argv, placeVars, resultVars>>

PhysNext ==
  \/ OpenLayout \/ CannotReadDesign \/ CompileOnly
  \/ RefuseMapping \/ ReportMapping \/ NothingToPlace
  \/ BeginPlacement \/ MeasureCell \/ Floorplan \/ Shuffle \/ Shuffled
  \/ Place \/ ReportPlacement \/ Route \/ Relax \/ RelaxStops
  \/ ReportDesign \/ CannotWriteLayout \/ WriteLayout

PhysSpec == PhysInit /\ [][PhysNext]_physVars /\ WF_physVars(PhysNext)

-----------------------------------------------------------------------------
(* Properties *)

(* No two cells overlap, whether or not rows run over the edge of the core,*)
(* in whatever order cells come, with every algorithm, seed and            *)
(* utilization; and every cell has a place before one is looked up for the *)
(* wires.                                                                  *)
Overlap(c, d) ==
  /\ cells[c].x < cells[d].x + CellWidth(insts[d].cell)
  /\ cells[d].x < cells[c].x + CellWidth(insts[c].cell)
  /\ cells[c].y < cells[d].y + RowH
  /\ cells[d].y < cells[c].y + RowH
CellsNeverOverlap == \A c, d \in Placed : c # d => ~Overlap(c, d)
EveryCellPlaced == PlacementDone \/ stage \in {"time", "timed"} => Placed = 1..Count
PlacementIsLegal == CellsNeverOverlap /\ EveryCellPlaced

(* greedy_wirelength keeps a design inside the core, in whatever order its *)
(* cells come, when they leave less than a cell's width free in each row.  *)
InCore(c) == cells[c].x + CellWidth(insts[c].cell) <= Margin + side /\ cells[c].y + RowH <= Margin + side
GreedyFits ==
  PlacementDone
  /\ argv.algorithm = "greedy_wirelength"
  /\ Total([c \in 1..Count |-> CellWidth(insts[c].cell)]) < Cardinality(DOMAIN rowX) * (side - 29) + 30
    => \A c \in Placed : InCore(c)

(* Segments that lead from one point to another inside of the core, metal 1*)
(* along the rows and metal 2 across them.                                 *)
Leads(path, a, b) ==
  IF path = <<>> THEN a = b
  ELSE /\ path[1].a = a /\ path[Len(path)].b = b
       /\ \A k \in 1..Len(path) - 1 : path[k].b = path[k + 1].a
       /\ \A k \in 1..Len(path) :
            /\ Inside(path[k].a) /\ Inside(path[k].b)
            /\ IF path[k].layer = 1 THEN path[k].a.y = path[k].b.y ELSE path[k].a.x = path[k].b.x

(* A cell of its own for every net.  It is not so for registers that are   *)
(* assigned directly (a LUT and a flip-flop drive them) and for wires.     *)
OneDriverPerNet == \A c, d \in 1..Count : insts[c].out = insts[d].out => c = d

(* `vfpga build` with exit code 0 leaves a layout in which every pin whose *)
(* net a cell drives is connected to that cell, also when the placement    *)
(* ran out of the core.                                                    *)
BuildMeansConnected ==
  stage = "done" /\ argv.command = "build" /\ exit = 0 /\ OneDriverPerNet =>
    \A c \in 1..Count, d \in 1..Count : \A p \in 1..Len(insts[c].in) :
      insts[c].in[p] = insts[d].out /\ c # d =>
        <<c, p>> \in DOMAIN file.wires /\ Leads(file.wires[<<c, p>>], Center(d), Center(c))

(* Cells without a path back to themselves, by taking away those whose     *)
(* drivers are gone.                                                       *)
Gone ==
  LET feeds(c) == { d \in 1..Count : ~Sequential(d) /\ \E p \in 1..Len(insts[c].in) : insts[c].in[p] = insts[d].out }
      after[k \in 0..Count] ==
        IF k = 0 THEN {}
        ELSE CHOOSE s \in { g \cup { c \in 1..Count : Sequential(c) \/ feeds(c) \subseteq g } : g \in {after[k - 1]} } : TRUE
  IN  after[Count]
LoopFree == Gone = 1..Count

(* What the bounded passes in the order of the netlist compute is the      *)
(* longest path, whatever that order: each cell is as late as its latest   *)
(* input makes it, and following the causes from the critical net accounts *)
(* for the whole estimate.                                                 *)
TimingIsLongestPath ==
  Timed /\ OneDriverPerNet /\ LoopFree =>
    /\ \A c \in 1..Count :
         ~Sequential(c) =>
           LET at == { PinArrival(<<c, p>>, arrival) : p \in 1..Len(insts[c].in) } IN
           /\ arrival[insts[c].out] - Delay(insts[c].cell) \in at
           /\ \A t \in at : t <= arrival[insts[c].out] - Delay(insts[c].cell)
    /\ \A net \in DOMAIN how :
         LET c == DriverOf(net)
             p == CHOOSE p \in 1..Len(insts[c].in) : insts[c].in[p] = how[net]
         IN  arrival[net] = PinArrival(<<c, p>>, arrival) + Delay(insts[c].cell)

(* Every command ends, also for designs with loops.                        *)
PhysicalEnds == <>(stage = "done")
=============================================================================
