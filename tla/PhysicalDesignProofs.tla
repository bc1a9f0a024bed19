------------------------ MODULE PhysicalDesignProofs ------------------------
(***************************************************************************)
(* Proofs about PhysicalDesign, for every netlist, algorithm, seed and     *)
(* utilization: the placement is legal as far as overlaps go, also when    *)
(* rows run over the edge of the core; the greedy one stays inside; what is*)
(* connected is what the netlist connects; and the bounded passes of the   *)
(* timing estimate end with the longest path.                              *)
(*                                                                         *)
(* Placement: what is placed in a row lies to the left of its cursor, and  *)
(* rows are disjoint strips, so a cell that is put at the cursor of a row  *)
(* meets no other.  Nothing else about the order of the cells or the choice*)
(* of the row is needed.                                                   *)
(*                                                                         *)
(* Timing: a cell is settled when its net is at least as late as each of   *)
(* its inputs makes it.  Every pass settles the cells all of whose drivers *)
(* were settled before it, and leaves the settled ones as they are; so in a*)
(* netlist without loops as many passes as there are cells settle them all,*)
(* and a pass that changes nothing shows that all are settled.  That no net*)
(* is later than its inputs make it holds after every cell.                *)
(***************************************************************************)
EXTENDS PhysicalDesign, DataLemmas, FiniteSetTheorems, TLAPS

(* Rows have integer numbers and cursors.                                  *)
RowsOK == DOMAIN rowX \subseteq Int /\ rowX \in [DOMAIN rowX -> Int]

(* Nothing is placed before the placement begins.                          *)
NothingEarly == stage \in {"start", "measure", "shuffle"} => Placed = {}

(* A cell stands in a row, to the left of its cursor.                      *)
LeftOfCursor(c) ==
  \E r \in DOMAIN rowX :
    /\ cells[c].x \in Int /\ cells[c].y = Margin + r * RowH
    /\ cells[c].x + CellWidth(insts[c].cell) <= rowX[r]
BehindCursors == \A c \in Placed : LeftOfCursor(c)

PlacementInv == RowsOK /\ NothingEarly /\ BehindCursors /\ CellsNeverOverlap

(* Every cell is 10, 20 or 30 wide, whatever its type.                     *)
LEMMA Widths == ASSUME NEW cell PROVE CellWidth(cell) \in Nat /\ CellWidth(cell) > 0
<1>1. CellWidth(cell) = 10 \/ CellWidth(cell) = 20 \/ CellWidth(cell) = 30
  BY Zenon DEF CellWidth
<1>2. QED
  BY <1>1

(* The rows of a floorplan are numbered by integers.                       *)
LEMMA RowNumbers == \A s : RowsOf(s) \subseteq Int
BY DEF RowsOf

(* Nothing is placed, and no row is open, when a command starts.           *)
LEMMA PlacementInit == PhysInit => PlacementInv
BY DEF PhysInit, PlacementInv, RowsOK, NothingEarly, BehindCursors, CellsNeverOverlap, Placed, Empty

(* The step of the placement: the new cell stands where the cursor was,    *)
(* and in its row all others are to the left of that.                      *)
LEMMA PutCellKeeps ==
  ASSUME PlacementInv, NEW c, NEW r \in DOMAIN rowX, c \notin Placed, PutCell(c, r),
         insts' = insts, stage' = stage, stage = "place"
  PROVE  PlacementInv'
<1> DEFINE w == CellWidth(insts[c].cell)
<1>1. w \in Nat /\ w > 0
  BY Widths
<1>2. Placed' = Placed \cup {c} /\ cells'[c] = [x |-> rowX[r], y |-> Margin + r * RowH]
  BY DEF PutCell, Placed, CornerOf
<1>3. \A d \in Placed : cells'[d] = cells[d] /\ d # c
  BY DEF PutCell, Placed
<1>4. r \in Int /\ rowX[r] \in Int /\ DOMAIN rowX' = DOMAIN rowX /\ rowX'[r] = rowX[r] + w
  BY DEF PlacementInv, RowsOK, PutCell, Cursor
<1>5. \A q \in DOMAIN rowX : rowX'[q] \in Int /\ rowX[q] \in Int /\ rowX'[q] >= rowX[q]
  BY <1>1, <1>4 DEF PlacementInv, RowsOK, PutCell, Cursor
<1>6. RowsOK'
  <2>1. rowX' = [q \in DOMAIN rowX |-> rowX'[q]]
    BY DEF PlacementInv, RowsOK, PutCell
  <2>2. QED
    BY <2>1, <1>4, <1>5 DEF PlacementInv, RowsOK
<1>7. NothingEarly'
  BY DEF NothingEarly
<1>8. ASSUME NEW d \in Placed'
      PROVE  LeftOfCursor(d)'
  <2>1. CASE d = c
    <3>1. cells'[c].x = rowX[r] /\ cells'[c].y = Margin + r * RowH /\ insts'[c] = insts[c]
      BY <1>2
    <3>2. r \in DOMAIN rowX' /\ cells'[c].x \in Int /\ cells'[c].x + w <= rowX'[r]
      BY <3>1, <1>1, <1>4
    <3>3. QED
      BY <2>1, <3>1, <3>2 DEF LeftOfCursor
  <2>2. CASE d \in Placed
    <3>1. PICK q \in DOMAIN rowX :
            /\ cells[d].x \in Int /\ cells[d].y = Margin + q * RowH
            /\ cells[d].x + CellWidth(insts[d].cell) <= rowX[q]
      BY <2>2 DEF PlacementInv, BehindCursors, LeftOfCursor
    <3>2. cells[d].x + CellWidth(insts[d].cell) <= rowX'[q]
      BY <3>1, <1>5, Widths
    <3>3. cells'[d] = cells[d] /\ insts'[d] = insts[d] /\ q \in DOMAIN rowX'
      BY <2>2, <1>3, <1>4
    <3>4. QED
      BY <3>1, <3>2, <3>3 DEF LeftOfCursor
  <2>3. QED
    BY <1>2, <2>1, <2>2
<1>9. ASSUME NEW d \in Placed
      PROVE  ~Overlap(c, d)' /\ ~Overlap(d, c)'
  <2>1. PICK q \in DOMAIN rowX :
          /\ cells[d].x \in Int /\ cells[d].y = Margin + q * RowH
          /\ cells[d].x + CellWidth(insts[d].cell) <= rowX[q]
    BY DEF PlacementInv, BehindCursors, LeftOfCursor
  <2>2. cells'[d] = cells[d] /\ insts'[d] = insts[d] /\ q \in Int
    BY <1>3 DEF PlacementInv, RowsOK
  <2>3. CASE q = r
    <3>1. cells'[c].x >= cells'[d].x + CellWidth(insts[d].cell)
      BY <1>2, <1>4, <2>1, <2>2, <2>3
    <3>2. cells'[c].x \in Int /\ cells'[d].x + CellWidth(insts[d].cell) \in Int
      BY <1>2, <1>4, <2>1, <2>2, Widths
    <3>3. QED
      BY <3>1, <3>2, <2>2 DEF Overlap
  <2>4. CASE q # r
    <3>1. cells'[c].y = Margin + r * RowH /\ cells'[d].y = Margin + q * RowH
      BY <1>2, <2>1, <2>2
    <3>2. cells'[c].y >= cells'[d].y + RowH \/ cells'[d].y >= cells'[c].y + RowH
      BY <3>1, <2>2, <2>4, <1>4 DEF Margin, RowH
    <3>3. cells'[c].y \in Int /\ cells'[d].y \in Int /\ RowH \in Int
      BY <3>1, <2>2, <1>4 DEF Margin, RowH
    <3>4. QED
      BY <3>2, <3>3 DEF Overlap
  <2>5. QED
    BY <2>3, <2>4
<1>10. ASSUME NEW d \in Placed, NEW e \in Placed, d # e
       PROVE  ~Overlap(d, e)'
  BY <1>10, <1>3 DEF PlacementInv, CellsNeverOverlap, Overlap
<1>11. CellsNeverOverlap'
  BY <1>2, <1>9, <1>10 DEF CellsNeverOverlap
<1>12. QED
  BY <1>6, <1>7, <1>8, <1>11 DEF PlacementInv, BehindCursors

(* No other step touches what is placed; the floorplan opens empty rows.   *)
LEMMA PlacementNext == PlacementInv /\ [PhysNext]_physVars => PlacementInv'
<1> SUFFICES ASSUME PlacementInv, [PhysNext]_physVars
             PROVE  PlacementInv'
  OBVIOUS
<1> USE DEF PlacementInv
<1>1. ASSUME UNCHANGED <<insts, rowX, cells>>, stage' = stage \/ stage' \notin {"start", "measure", "shuffle"}
      PROVE  PlacementInv'
  BY <1>1 DEF RowsOK, NothingEarly, BehindCursors, LeftOfCursor, CellsNeverOverlap, Overlap, Placed
<1>2. ASSUME NEW code, Exit(code)
      PROVE  PlacementInv'
  BY <1>1, <1>2 DEF Exit, placeVars
<1>3. CASE OpenLayout \/ CannotReadDesign \/ CompileOnly
  BY <1>2, <1>3 DEF OpenLayout, CannotReadDesign, CompileOnly
<1>4. CASE RefuseMapping \/ ReportMapping \/ NothingToPlace
  BY <1>2, <1>4 DEF RefuseMapping, ReportMapping, NothingToPlace
<1>5. CASE ReportPlacement \/ ReportDesign \/ CannotWriteLayout
  BY <1>2, <1>5 DEF ReportPlacement, ReportDesign, CannotWriteLayout
<1>6. ASSUME stage \in {"start", "measure", "shuffle"}, UNCHANGED cells, RowsOK'
      PROVE  PlacementInv'
  BY <1>6 DEF NothingEarly, BehindCursors, CellsNeverOverlap, Placed
<1>7. CASE BeginPlacement
  BY <1>6, <1>7 DEF BeginPlacement, ForAsic, OfDesign, RowsOK
<1>8. CASE MeasureCell
  BY <1>6, <1>8 DEF MeasureCell, RowsOK
<1>9. CASE Floorplan
  <2>1. RowsOK'
    BY <1>9, RowNumbers DEF Floorplan, RowsOK, Margin
  <2>2. QED
    BY <1>6, <1>9, <2>1 DEF Floorplan
<1>10. CASE Shuffle \/ Shuffled
  BY <1>6, <1>10 DEF Shuffle, Shuffled, RowsOK
<1>11. CASE Place
  <2>1. PICK k \in 1..Count, r \in DOMAIN rowX : Turn(k) /\ PutCell(order[k], r)
    BY <1>11 DEF Place
  <2>2. order[k] \notin Placed
    BY <2>1 DEF Turn
  <2>3. QED
    BY <1>11, <2>1, <2>2, PutCellKeeps DEF Place
<1>12. CASE Route
  BY <1>1, <1>12 DEF Route, Goto
<1>13. CASE Relax \/ RelaxStops
  BY <1>1, <1>13 DEF Relax, RelaxStops, Goto, placeVars
<1>14. CASE WriteLayout
  BY <1>1, <1>14 DEF WriteLayout, placeVars
<1>15. CASE UNCHANGED physVars
  BY <1>1, <1>15 DEF physVars, placeVars
<1>16. QED
  BY <1>3, <1>4, <1>5, <1>7, <1>8, <1>9, <1>10, <1>11, <1>12, <1>13, <1>14, <1>15 DEF PhysNext

-----------------------------------------------------------------------------
(* That every cell gets a place: each turn puts down one that has none, so *)
(* after as many turns as there are cells none is left.                    *)

(* The shuffled order names cells, whatever the random numbers are.        *)
OrderOK ==
  /\ Count \in Nat /\ i \in Int /\ rand \in Int \X Int
  /\ stage \in {"shuffle", "place"} => order \in [1..Count -> 1..Count]
  /\ stage = "shuffle" => i <= Count

(* As many cells are placed as turns are over, and in the end all.         *)
OneCellPerTurn ==
  /\ Placed \subseteq 1..Count /\ IsFiniteSet(Placed)
  /\ stage = "place" => i = Cardinality(Placed)
  /\ stage \in {"time", "timed"} => Placed = 1..Count

CountingInv == argv \in PhysicalLines /\ NothingEarly /\ OrderOK /\ OneCellPerTurn

(* A random number modulo n is below n.                                    *)
LEMMA ModuloBelow ==
  ASSUME NEW q \in Int \X Int, NEW n \in Nat, n > 0
  PROVE  Modulo(q, n) \in 0 .. n - 1
<1> DEFINE z == ((q[1] % n) * (65536 % n) + q[2])
<1>1. q[1] % n \in Int /\ 65536 % n \in Int
  OBVIOUS
<1>2. z \in Int
  BY <1>1
<1>3. z % n \in 0 .. n - 1
  BY <1>2
<1>4. QED
  BY <1>3 DEF Modulo

(* The random numbers stay pairs of integers.                              *)
LEMMA MulAddIntegers ==
  ASSUME NEW a \in Int \X Int, NEW b \in Int \X Int, NEW c \in Int \X Int
  PROVE  MulAdd(a, b, c) \in Int \X Int
<1>1. a[1] * b[2] \in Int /\ a[2] * b[1] \in Int /\ a[2] * b[2] + c[2] \in Int
  OBVIOUS
<1> DEFINE low == a[2] * b[2] + c[2]
           high == ((a[1] * b[2]) % 65536) + ((a[2] * b[1]) % 65536) + (low \div 65536) + c[1]
<1>2. (a[1] * b[2]) % 65536 \in Int /\ (a[2] * b[1]) % 65536 \in Int
  BY <1>1
<1> HIDE DEF low
<1>3. low \in Int
  BY <1>1 DEF low
<1>4. low \div 65536 \in Int /\ low % 65536 \in Int
  BY <1>3
<1>5. high \in Int
  BY <1>2, <1>4
<1> HIDE DEF high
<1>6. high % 65536 \in Int
  BY <1>5
<1>7. MulAdd(a, b, c) = <<high % 65536, low % 65536>>
  BY DEF MulAdd, low, high
<1>8. QED
  BY <1>4, <1>6, <1>7

(* What is known of a command line.                                        *)
LEMMA Lines ==
  ASSUME NEW line \in PhysicalLines
  PROVE  line.seed \in Int /\ Len(line.netlist.comps) \in Nat
BY LinesAssumption

LEMMA CountingInit == PhysInit => CountingInv
<1> SUFFICES ASSUME PhysInit
             PROVE  CountingInv
  OBVIOUS
<1>1. Placed = {} /\ IsFiniteSet(Placed)
  BY FS_EmptySet DEF PhysInit, Placed, Empty
<1>2. QED
  BY <1>1 DEF PhysInit, CountingInv, NothingEarly, OrderOK, OneCellPerTurn, Count

(* As many placed cells as there are cells are all of them.                *)
LEMMA AllPlaced ==
  ASSUME OrderOK, OneCellPerTurn, PlacementDone
  PROVE  Placed = 1..Count
<1>1. IsFiniteSet(1..Count) /\ Cardinality(1..Count) = Count
  BY FS_Interval DEF OrderOK
<1>2. Cardinality(Placed) <= Count /\ Cardinality(Placed) \in Nat
  BY <1>1, FS_Subset, FS_CardinalityType DEF OneCellPerTurn
<1>3. Cardinality(Placed) = Count
  BY <1>2 DEF OneCellPerTurn, PlacementDone, OrderOK
<1>4. QED
  BY <1>1, <1>3, FS_Subset DEF OneCellPerTurn

LEMMA ShuffleKeeps ==
  ASSUME CountingInv, Shuffle
  PROVE  CountingInv'
<1>1. rand' \in Int \X Int
  <2>1. rand \in Int \X Int /\ <<25, 26125>> \in Int \X Int /\ <<15470, 62303>> \in Int \X Int
    BY DEF CountingInv, OrderOK
  <2>2. Next32(rand) \in Int \X Int
    BY <2>1, MulAddIntegers DEF Next32
  <2>3. QED
    BY <2>2 DEF Shuffle
<1>2. i \in 1..Count /\ i \in Nat
  BY DEF Shuffle, CountingInv, OrderOK
<1>3. Modulo(rand', i) + 1 \in 1..Count
  BY <1>1, <1>2, ModuloBelow, SMTT(30) DEF CountingInv, OrderOK
<1>4. order' \in [1..Count -> 1..Count]
  BY <1>2, <1>3 DEF Shuffle, CountingInv, OrderOK
<1>5. Count' = Count /\ Placed' = Placed
  BY DEF Shuffle, Count, Placed
<1>6. OrderOK'
  <2>1. i' \in Int /\ i' <= Count' /\ stage' = "shuffle"
    BY <1>2, <1>5 DEF Shuffle, CountingInv, OrderOK
  <2>2. QED
    BY <1>1, <1>4, <1>5, <2>1 DEF CountingInv, OrderOK
<1>7. NothingEarly' /\ OneCellPerTurn'
  BY <1>5 DEF Shuffle, CountingInv, NothingEarly, OneCellPerTurn
<1>8. QED
  BY <1>6, <1>7 DEF Shuffle, CountingInv

LEMMA PlaceKeeps ==
  ASSUME CountingInv, Place
  PROVE  CountingInv'
<1>1. PICK k \in 1..Count, r \in DOMAIN rowX : Turn(k) /\ PutCell(order[k], r)
  BY DEF Place
<1>2. order[k] \in 1..Count /\ order[k] \notin Placed
  BY <1>1 DEF Place, Turn, CountingInv, OrderOK
<1>3. Placed' = Placed \cup {order[k]}
  BY <1>1 DEF PutCell, Placed
<1>4. IsFiniteSet(Placed') /\ Cardinality(Placed') = Cardinality(Placed) + 1
  BY <1>2, <1>3, FS_AddElement DEF CountingInv, OneCellPerTurn
<1>5. Count' = Count
  BY DEF Place, Count
<1>6. QED
  <2>1. argv' \in PhysicalLines /\ NothingEarly'
    BY DEF Place, CountingInv, NothingEarly
  <2>2. OrderOK'
    <3>1. i' \in Int /\ UNCHANGED <<stage, rand, order>> /\ stage = "place"
      BY DEF Place, CountingInv, OrderOK
    <3>2. Count' \in Nat /\ rand' \in Int \X Int /\ order' \in [1..Count' -> 1..Count']
      BY <3>1, <1>5 DEF CountingInv, OrderOK
    <3>3. QED
      BY <3>1, <3>2 DEF OrderOK
  <2>3. i' = Cardinality(Placed') /\ Placed' \subseteq 1..Count'
    BY <1>2, <1>3, <1>4, <1>5 DEF Place, CountingInv, OneCellPerTurn
  <2>4. OneCellPerTurn'
    BY <1>4, <2>3 DEF Place, OneCellPerTurn
  <2>5. QED
    BY <2>1, <2>2, <2>4 DEF CountingInv

LEMMA CountingNext == CountingInv /\ [PhysNext]_physVars => CountingInv'
<1> SUFFICES ASSUME CountingInv, [PhysNext]_physVars
             PROVE  CountingInv'
  OBVIOUS
<1>1. ASSUME UNCHANGED <<argv, insts, i, rand, order, cells>>, stage' \in {stage, "done"}
      PROVE  CountingInv'
  BY <1>1 DEF CountingInv, NothingEarly, OrderOK, OneCellPerTurn, Count, Placed
<1>2. ASSUME NEW code, Exit(code)
      PROVE  CountingInv'
  BY <1>1, <1>2 DEF Exit, placeVars
<1>3. CASE OpenLayout \/ CannotReadDesign \/ CompileOnly
  BY <1>2, <1>3 DEF OpenLayout, CannotReadDesign, CompileOnly
<1>4. CASE RefuseMapping \/ ReportMapping \/ NothingToPlace
  BY <1>2, <1>4 DEF RefuseMapping, ReportMapping, NothingToPlace
<1>5. CASE ReportPlacement \/ ReportDesign \/ CannotWriteLayout
  BY <1>2, <1>5 DEF ReportPlacement, ReportDesign, CannotWriteLayout
<1>6. CASE BeginPlacement
  <2>1. Count' = Len(argv.netlist.comps) /\ Count' \in Nat
    <3>1. Len(argv.netlist.comps) \in Nat
      BY Lines DEF CountingInv
    <3>2. insts' = Instances(argv.netlist)
      BY <1>6 DEF BeginPlacement
    <3>3. Len(Instances(argv.netlist)) = Len(argv.netlist.comps)
      BY <3>1 DEF Instances
    <3>4. QED
      BY <3>1, <3>2, <3>3 DEF Count
  <2>2. Placed = {} /\ Placed' = {}
    BY <1>6 DEF BeginPlacement, ForAsic, OfDesign, CountingInv, NothingEarly, Placed
  <2>3. QED
    BY <1>6, <2>1, <2>2, FS_EmptySet
    DEF BeginPlacement, Goto, CountingInv, NothingEarly, OrderOK, OneCellPerTurn
<1>7. CASE MeasureCell
  BY <1>7 DEF MeasureCell, CountingInv, NothingEarly, OrderOK, OneCellPerTurn, Count, Placed
<1>8. CASE Floorplan
  <2>1. rand' \in Int \X Int
    <3>1. <<0, argv.seed>> \in Int \X Int /\ <<40503, 31153>> \in Int \X Int /\ <<0, 1>> \in Int \X Int
      BY Lines DEF CountingInv
    <3>2. MulAdd(<<0, argv.seed>>, <<40503, 31153>>, <<0, 1>>) \in Int \X Int
      BY <3>1, MulAddIntegers
    <3>3. QED
      BY <1>8, <3>2 DEF Floorplan
  <2>2. Count' = Count /\ Placed' = Placed /\ order' \in [1..Count -> 1..Count]
    BY <1>8 DEF Floorplan, Count, Placed
  <2>3. QED
    BY <1>8, <2>1, <2>2 DEF Floorplan, Goto, CountingInv, NothingEarly, OrderOK, OneCellPerTurn
<1>9. CASE Shuffle
  BY <1>9, ShuffleKeeps
<1>10. CASE Shuffled
  <2>1. Count' = Count /\ Placed' = {} /\ Placed = {}
    BY <1>10 DEF Shuffled, Count, Placed, CountingInv, NothingEarly
  <2>2. QED
    BY <1>10, <2>1, FS_EmptySet DEF Shuffled, Goto, CountingInv, NothingEarly, OrderOK, OneCellPerTurn
<1>11. CASE Place
  BY <1>11, PlaceKeeps
<1>12. CASE Route
  <2>1. Placed = 1..Count
    BY <1>12, AllPlaced DEF Route, CountingInv
  <2>2. Count' = Count /\ Placed' = Placed
    BY <1>12 DEF Route, Count, Placed
  <2>3. QED
    BY <1>12, <2>1, <2>2 DEF Route, Goto, CountingInv, NothingEarly, OrderOK, OneCellPerTurn
<1>13. CASE Relax \/ RelaxStops
  <2>1. stage = "time" /\ stage' \in {"time", "timed"} /\ i' \in Int
    BY <1>13 DEF Relax, RelaxStops, Goto, placeVars, CountingInv, OrderOK
  <2>2. Count' = Count /\ Placed' = Placed /\ UNCHANGED <<argv, rand>>
    BY <1>13 DEF Relax, RelaxStops, Goto, placeVars, Count, Placed
  <2>3. QED
    BY <2>1, <2>2 DEF CountingInv, NothingEarly, OrderOK, OneCellPerTurn
<1>14. CASE WriteLayout
  BY <1>1, <1>14 DEF WriteLayout, placeVars
<1>15. CASE UNCHANGED physVars
  BY <1>1, <1>15 DEF physVars, placeVars
<1>16. QED
  BY <1>3, <1>4, <1>5, <1>6, <1>7, <1>8, <1>9, <1>10, <1>11, <1>12, <1>13, <1>14, <1>15 DEF PhysNext

-----------------------------------------------------------------------------
(* The cells of every placement are apart, at each step of it, with every  *)
(* algorithm and whether or not the rows stay inside of the core; and when *)
(* wires are laid and timed every cell has its place, which route() reads  *)
(* without asking.                                                         *)
THEOREM PlacementLegal == PhysSpec => []PlacementIsLegal
<1>1. PlacementInv /\ CountingInv => PlacementIsLegal
  <2>1. ASSUME CountingInv
        PROVE  EveryCellPlaced
    BY <2>1, AllPlaced DEF CountingInv, EveryCellPlaced, OneCellPerTurn
  <2>2. QED
    BY <2>1 DEF PlacementInv, PlacementIsLegal
<1>2. QED
  BY PlacementInit, PlacementNext, CountingInit, CountingNext, <1>1, PTL DEF PhysSpec
-----------------------------------------------------------------------------
(* That a build with exit code 0 leaves every connection in its layout: no *)
(* connection was left out, and an L leads from one cell to the other.     *)

(* What route() leaves.                                                    *)
WiresLaid ==
  /\ wires = [pin \in { p \in Connections : Routable(p) } |-> Bent(pin)]
  /\ unrouted = Cardinality({ p \in Connections : ~Routable(p) })

(* Every cell has inputs.                                                  *)
InputsOK == \A c \in 1..Count : Len(insts[c].in) \in Nat \ {0}

WiresInv ==
  /\ InputsOK
  /\ stage \in {"time", "timed"} => WiresLaid
  /\ stage = "done" /\ argv.command = "build" /\ exit = 0 =>
       WiresLaid /\ unrouted = 0 /\ file.wires = wires

(* The inputs of a cell are finitely many, and so are all of them.         *)
LEMMA FinitePins ==
  ASSUME NEW c, Len(insts[c].in) \in Nat
  PROVE  IsFiniteSet(PinsOf(c))
<1> DEFINE n == Len(insts[c].in)
           f == [p \in 1..n |-> <<c, p>>]
<1>1. IsFiniteSet(1..n)
  BY FS_Interval
<1>2. PinsOf(c) = { <<c, p>> : p \in 1..n }
  BY DEF PinsOf
<1> HIDE DEF n
<1>3. f \in [1..n -> PinsOf(c)] /\ \A pin \in PinsOf(c) : \E p \in 1..n : f[p] = pin
  BY <1>2
<1>4. f \in Surjection(1..n, PinsOf(c))
  BY <1>3 DEF Surjection
<1> QED
  BY <1>1, <1>4, FS_Surjection

LEMMA FiniteConnections ==
  ASSUME Count \in Nat, InputsOK
  PROVE  IsFiniteSet(Connections)
<1> DEFINE Pins(k) == UNION { PinsOf(c) : c \in 1..k }
           U == { k \in 0..Count : IsFiniteSet(Pins(k)) }
<1>1. 0 \in U
  <2>1. Pins(0) = {}
    OBVIOUS
  <2> QED
    BY <2>1, FS_EmptySet
<1>2. \A k \in 0 .. Count - 1 : k \in U => k + 1 \in U
  <2> SUFFICES ASSUME NEW k \in 0 .. Count - 1, k \in U PROVE k + 1 \in U
    OBVIOUS
  <2>1. k + 1 \in 1..Count /\ 1 .. k + 1 = (1..k) \cup {k + 1}
    OBVIOUS
  <2>2. Pins(k + 1) = Pins(k) \cup PinsOf(k + 1)
    BY <2>1
  <2>3. IsFiniteSet(PinsOf(k + 1))
    BY <2>1, FinitePins DEF InputsOK
  <2>4. IsFiniteSet(Pins(k))
    OBVIOUS
  <2> HIDE DEF Pins
  <2>5. IsFiniteSet(Pins(k) \cup PinsOf(k + 1))
    BY <2>3, <2>4, FS_Union
  <2> QED
    BY <2>1, <2>2, <2>5
<1>3. 0..Count \subseteq U
  <2> HIDE DEF U
  <2> QED
    BY <1>1, <1>2, IntervalBySets
<1>4. IsFiniteSet(Pins(Count))
  BY <1>3
<1>5. Connections \subseteq Pins(Count)
  BY DEF Connections
<1> QED
  BY <1>4, <1>5, FS_Subset

LEMMA Pair == ASSUME NEW x, NEW y PROVE <<x>> \o <<y>> = <<x, y>>
<1> DEFINE T == {x, y}
<1>1. <<x>> \in Seq(T) /\ <<y>> \in Seq(T) /\ <<x, y>> \in Seq(T)
  OBVIOUS
<1>2. Len(<<x>>) = 1 /\ Len(<<y>>) = 1 /\ Len(<<x, y>>) = 2
  OBVIOUS
<1> HIDE DEF T
<1>3. /\ <<x>> \o <<y>> \in Seq(T) /\ Len(<<x>> \o <<y>>) = 2
      /\ (<<x>> \o <<y>>)[1] = x /\ (<<x>> \o <<y>>)[2] = y
  BY <1>1, <1>2, ConcatProperties
<1> DEFINE s == <<x>> \o <<y>>
           t == <<x, y>>
<1>4. t[1] = x /\ t[2] = y /\ t \in Seq(T) /\ Len(t) = 2
  BY <1>1, <1>2
<1>5. s \in Seq(T) /\ Len(s) = 2 /\ s[1] = x /\ s[2] = y
  BY <1>3
<1> HIDE DEF s, t
<1>6. \A m \in 1..Len(s) : s[m] = t[m]
  BY <1>4, <1>5
<1>7. s = t
  BY <1>4, <1>5, <1>6, SeqEqual
<1> QED
  BY <1>7 DEF s, t

(* An L leads from one of its ends to the other.                           *)
LEMMA LLeads ==
  ASSUME NEW pin, Routable(pin)
  PROVE  Leads(Bent(pin), From(pin), To(pin))
<1> DEFINE f == From(pin)
           t == To(pin)
           k == Corner(pin)
           along == Segment(1, f, k)
           across == Segment(2, k, t)
<1>1. Inside(f) /\ Inside(k) /\ Inside(t)
  BY DEF Routable
<1>2. k.y = f.y /\ k.x = t.x
  BY DEF Corner
<1>3. Bent(pin) = (IF f # k THEN <<along>> ELSE <<>>) \o (IF k # t THEN <<across>> ELSE <<>>)
  BY DEF Bent
<1>4. along.layer = 1 /\ along.a = f /\ along.b = k /\ across.layer = 2 /\ across.a = k /\ across.b = t
  BY DEF Segment
<1> HIDE DEF f, t, k, along, across
<1>5. CASE f = k /\ k = t
  <2>1. Bent(pin) = <<>>
    BY <1>3, <1>5
  <2> QED
    BY <2>1, <1>5 DEF Leads, f, t
<1>6. CASE f # k /\ k = t
  <2>1. Bent(pin) = <<along>>
    BY <1>3, <1>6
  <2>2. Leads(<<along>>, f, t)
    BY <1>1, <1>2, <1>4, <1>6 DEF Leads
  <2> QED
    BY <2>1, <2>2 DEF f, t
<1>7. CASE f = k /\ k # t
  <2>1. Bent(pin) = <<across>>
    BY <1>3, <1>7
  <2>2. Leads(<<across>>, f, t)
    BY <1>1, <1>2, <1>4, <1>7 DEF Leads
  <2> QED
    BY <2>1, <2>2 DEF f, t
<1>8. CASE f # k /\ k # t
  <2>1. Bent(pin) = <<along, across>>
    BY <1>3, <1>8, Pair, Zenon
  <2>2. Leads(<<along, across>>, f, t)
    BY <1>1, <1>2, <1>4 DEF Leads
  <2> QED
    BY <2>1, <2>2 DEF f, t
<1> QED
  BY <1>5, <1>6, <1>7, <1>8

LEMMA WiresInit == PhysInit => WiresInv
BY DEF PhysInit, WiresInv, InputsOK, Count

(* What wires depend on.                                                   *)
LEMMA SameWires ==
  ASSUME UNCHANGED <<insts, side, cells>>,
         wires' = [pin \in { p \in Connections : Routable(p) } |-> Bent(pin)],
         unrouted' = Cardinality({ p \in Connections : ~Routable(p) })
  PROVE  WiresLaid'
<1>1. \A net : Drivers(net)' = Drivers(net)
  BY DEF Drivers, Count
<1>2. \A net : DriverOf(net)' = DriverOf(net)
  BY <1>1 DEF DriverOf
<1>3. \A c : Center(c)' = Center(c)
  BY DEF Center, Middle
<1>4. \A pin : From(pin)' = From(pin) /\ To(pin)' = To(pin)
  BY <1>2, <1>3, Zenon DEF From, To, NetAt
<1>5. \A pin : Corner(pin)' = Corner(pin)
  BY <1>4, Zenon DEF Corner
<1>6. \A p : Inside(p)' <=> Inside(p)
  BY DEF Inside
<1>7. \A pin : Routable(pin)' <=> Routable(pin)
  BY <1>4, <1>5, <1>6, Zenon DEF Routable
<1>8. \A pin : Bent(pin)' = Bent(pin)
  BY <1>4, <1>5, Zenon DEF Bent
<1>9. Connections' = Connections
  <2>1. insts' = insts /\ Count' = Count
    BY DEF Count
  <2>2. \A c : PinsOf(c)' = PinsOf(c)
    BY <2>1 DEF PinsOf
  <2>3. \A pin : NetAt(pin)' = NetAt(pin)
    BY <2>1 DEF NetAt
  <2> QED
    BY <1>1, <2>1, <2>2, <2>3, Zenon DEF Connections
<1>10. { p \in Connections : ~Routable(p) }' = { p \in Connections : ~Routable(p) }
  BY <1>7, <1>9
<1>11. { p \in Connections : Routable(p) }' = { p \in Connections : Routable(p) }
  BY <1>7, <1>9
<1>12. wires' = [pin \in { p \in Connections : Routable(p) }' |-> Bent(pin)']
  BY <1>8, <1>11
<1> QED
  BY <1>10, <1>12 DEF WiresLaid

LEMMA WiresNext == CountingInv /\ WiresInv /\ [PhysNext]_physVars => WiresInv'
<1> SUFFICES ASSUME CountingInv, WiresInv, [PhysNext]_physVars
             PROVE  WiresInv'
  OBVIOUS
<1>1. ASSUME insts' = insts, stage' \notin {"time", "timed", "done"}
      PROVE  WiresInv'
  BY <1>1 DEF WiresInv, InputsOK, Count
<1>2. ASSUME NEW code, Exit(code), argv.command # "build" \/ code # 0
      PROVE  WiresInv'
  BY <1>2 DEF WiresInv, InputsOK, Count, Exit, placeVars
<1>3. CASE OpenLayout
  BY <1>2, <1>3 DEF OpenLayout
<1>4. CASE CannotReadDesign \/ CompileOnly
  BY <1>2, <1>4 DEF CannotReadDesign, CompileOnly
<1>5. CASE RefuseMapping \/ ReportMapping \/ NothingToPlace
  BY <1>2, <1>5 DEF RefuseMapping, ReportMapping, NothingToPlace
<1>6. CASE ReportPlacement
  BY <1>2, <1>6 DEF ReportPlacement
<1>7. CASE ReportDesign
  <2>1. argv.command # "build"
    BY <1>7 DEF ReportDesign, Reports
  <2> QED
    BY <1>2, <1>7, <2>1 DEF ReportDesign
<1>8. CASE CannotWriteLayout
  BY <1>2, <1>8 DEF CannotWriteLayout
<1>9. CASE BeginPlacement
  <2>1. insts' = Instances(argv.netlist) /\ stage' = "measure"
    BY <1>9 DEF BeginPlacement, Goto
  <2>2. Len(argv.netlist.comps) \in Nat
    BY Lines DEF CountingInv
  <2>3. \A k \in 1..Len(argv.netlist.comps) : Len(argv.netlist.comps[k].in) \in Nat \ {0}
    BY LinesAssumption DEF CountingInv
  <2>4. Count' = Len(argv.netlist.comps)
    BY <2>1, <2>2 DEF Instances, Count
  <2>5. \A c \in 1..Count' : insts'[c].in = argv.netlist.comps[c].in
    BY <2>1, <2>4 DEF Instances
  <2> QED
    BY <2>1, <2>3, <2>4, <2>5 DEF WiresInv, InputsOK
<1>10. CASE MeasureCell \/ Floorplan
  BY <1>1, <1>10 DEF MeasureCell, Floorplan, Goto
<1>11. CASE Shuffle \/ Shuffled \/ Place
  BY <1>1, <1>11 DEF Shuffle, Shuffled, Place, Goto
<1>12. CASE Route
  <2>1. UNCHANGED <<argv, insts, side, cells>> /\ stage' = "time"
    BY <1>12 DEF Route, Goto
  <2>2. wires' = [pin \in { p \in Connections : Routable(p) } |-> Bent(pin)]
        /\ unrouted' = Cardinality({ p \in Connections : ~Routable(p) })
    BY <1>12 DEF Route
  <2>3. WiresLaid'
    BY <2>1, <2>2, SameWires
  <2> QED
    BY <2>1, <2>3 DEF WiresInv, InputsOK, Count
<1>13. CASE Relax \/ RelaxStops
  <2>1. UNCHANGED <<argv, insts, side, cells, wires, unrouted>> /\ stage = "time" /\ stage' \in {"time", "timed"}
    BY <1>13 DEF Relax, RelaxStops, Goto, placeVars, resultVars
  <2>2. WiresLaid'
    BY <2>1, SameWires DEF WiresInv, WiresLaid
  <2> QED
    BY <2>1, <2>2 DEF WiresInv, InputsOK, Count
<1>14. CASE WriteLayout
  <2>1. UNCHANGED <<argv, insts, side, cells, wires, unrouted>> /\ stage = "timed"
    BY <1>14 DEF WriteLayout, Timed, placeVars, resultVars
  <2>2. WiresLaid' /\ stage' = "done"
    BY <1>14, <2>1, SameWires DEF WiresInv, WiresLaid, WriteLayout
  <2>3. file'.wires = wires
    BY <1>14 DEF WriteLayout
  <2>4. argv.command = "build" /\ exit' = 0 => unrouted = 0
    BY <1>14 DEF WriteLayout, LayoutCode
  <2> QED
    BY <2>1, <2>2, <2>3, <2>4 DEF WiresInv, InputsOK, Count
<1>15. CASE UNCHANGED physVars
  <2>1. UNCHANGED <<argv, stage, exit, file, insts, side, cells, wires, unrouted>>
    BY <1>15 DEF physVars, placeVars, resultVars
  <2>2. WiresLaid => WiresLaid'
    BY <2>1, SameWires DEF WiresLaid
  <2> QED
    BY <2>1, <2>2 DEF WiresInv, InputsOK, Count
<1> QED
  BY <1>3, <1>4, <1>5, <1>6, <1>7, <1>8, <1>9, <1>10, <1>11, <1>12, <1>13, <1>14, <1>15 DEF PhysNext

(* With one driver for every net, that driver is the cell whose output the *)
(* net is.                                                                 *)
LEMMA OneDriver ==
  ASSUME OneDriverPerNet, NEW d \in 1..Count
  PROVE  Drivers(insts[d].out) = {d} /\ DriverOf(insts[d].out) = d
<1>1. Drivers(insts[d].out) = {d}
  BY DEF Drivers, OneDriverPerNet
<1>2. d \in Int
  OBVIOUS
<1>3. (CHOOSE c \in {d} : \A e \in {d} : e <= c) = d
  BY <1>2
<1> QED
  BY <1>1, <1>3 DEF DriverOf

(* `vfpga build` with exit code 0 leaves a layout in which every pin whose *)
(* net a cell drives is connected to it, for every netlist, algorithm,     *)
(* seed and utilization.                                                   *)
THEOREM BuildConnects == PhysSpec => []BuildMeansConnected
<1>1. CountingInv /\ WiresInv => BuildMeansConnected
  <2> SUFFICES ASSUME CountingInv, WiresInv, stage = "done", argv.command = "build", exit = 0, OneDriverPerNet,
                      NEW c \in 1..Count, NEW d \in 1..Count, NEW p \in 1..Len(insts[c].in),
                      insts[c].in[p] = insts[d].out, c # d
               PROVE  /\ <<c, p>> \in DOMAIN file.wires
                      /\ Leads(file.wires[<<c, p>>], Center(d), Center(c))
    BY DEF BuildMeansConnected
  <2> DEFINE pin == <<c, p>>
  <2>1. WiresLaid /\ unrouted = 0 /\ file.wires = wires
    BY DEF WiresInv
  <2>2. NetAt(pin) = insts[d].out /\ pin[1] = c
    BY DEF NetAt
  <2>3. Drivers(NetAt(pin)) = {d} /\ From(pin) = Center(d)
    BY <2>2, OneDriver DEF From
  <2>4. To(pin) = Center(c)
    BY <2>2, OneDriver DEF To
  <2>5. NetAt(pin) # insts[pin[1]].out
    BY <2>2 DEF OneDriverPerNet
  <2>6. pin \in PinsOf(c)
    BY DEF PinsOf
  <2>7. pin \in Connections
    <3>1. pin \in UNION { PinsOf(e) : e \in 1..Count }
      BY <2>6
    <3> HIDE DEF pin
    <3> QED
      BY <2>3, <2>5, <3>1 DEF Connections
  <2> HIDE DEF pin
  <2>8. { q \in Connections : ~Routable(q) } = {}
    <3>1. IsFiniteSet(Connections)
      BY FiniteConnections DEF CountingInv, OrderOK, WiresInv
    <3>2. IsFiniteSet({ q \in Connections : ~Routable(q) })
      BY <3>1, FS_Subset
    <3> QED
      BY <2>1, <3>2, FS_EmptySet DEF WiresLaid
  <2>9. Routable(pin) /\ pin \in DOMAIN wires /\ wires[pin] = Bent(pin)
    BY <2>1, <2>7, <2>8 DEF WiresLaid
  <2>10. Leads(Bent(pin), From(pin), To(pin))
    BY <2>9, LLeads
  <2> QED
    BY <2>1, <2>3, <2>4, <2>9, <2>10 DEF pin
<1> QED
  BY <1>1, CountingInit, CountingNext, WiresInit, WiresNext, PTL DEF PhysSpec
-----------------------------------------------------------------------------
(* That greedy_wirelength stays inside of the core: what rows hold is what *)
(* is placed, so when a cell finds no row with room, the cells together are*)
(* wider than the condition allows.                                        *)

Width(c) == CellWidth(insts[c].cell)
Widest == [c \in 1..Count |-> Width(c)]
PlacedWidths == [c \in 1..Count |-> IF c \in Placed THEN Width(c) ELSE 0]
Rows == side \div RowH
Filled == [k \in 1..Rows |-> rowX[k - 1] - Margin]

(* The condition of GreedyFits.                                            *)
LeavesRoom ==
  argv.algorithm = "greedy_wirelength" /\ Total(Widest) < Cardinality(DOMAIN rowX) * (side - 29) + 30

FillingInv ==
  /\ area \in Nat
  /\ stage \in {"shuffle", "place"} =>
       /\ side \in Nat /\ side >= 60
       /\ rowX \in [RowsOf(side) -> Int]
       /\ Total(Filled) = Total(PlacedWidths)
       /\ LeavesRoom => \A c \in Placed : InCore(c)

LEMMA WidthValues == ASSUME NEW cell PROVE CellWidth(cell) \in {10, 20, 30}
<1>1. CellWidth(cell) = 10 \/ CellWidth(cell) = 20 \/ CellWidth(cell) = 30
  BY Zenon DEF CellWidth
<1> QED
  BY <1>1

(* A square root exists, with what it takes at the utilization.            *)
LEMMA SideExists ==
  ASSUME area \in Nat
  PROVE  CoreSide \in Nat /\ CoreSide >= 60
<1> DEFINE u == Utilization
           top == 60 + 100 * area
           S == { n \in 60..top : n * n * u >= area * 100 }
<1>1. u \in Nat /\ u >= 1
  BY DEF Utilization
<1> HIDE DEF u
<1>2. top \in Nat /\ top >= 60 /\ top >= area * 100
  OBVIOUS
<1>3. \A n \in Nat : n * n * u \in Nat
  BY <1>1
<1>4. top * top * u >= area * 100
  <2> HIDE DEF top
  <2>1. top * top >= top /\ top * top \in Nat
    BY <1>2
  <2>2. \A m \in Nat : m * u >= m
    BY <1>1
  <2>3. top * top * u >= top * top
    BY <2>1, <2>2
  <2> QED
    BY <1>2, <1>3, <2>1, <2>3
<1>5. S \subseteq Nat /\ S # {}
  <2>1. top \in 60..top
    BY <1>2
  <2> HIDE DEF top
  <2> QED
    BY <1>4, <2>1
<1>6. PICK n \in S : \A m \in S : n <= m
  BY <1>5, LeastNumber
<1>7. n \in 60..top /\ n * n * u >= area * 100
  BY <1>6
<1>8. ASSUME NEW m \in 60 .. n - 1 PROVE m * m * u < area * 100
  <2>1. m \in 60..top /\ ~(n <= m) /\ m \in Nat
    BY <1>7
  <2>2. m \notin S
    BY <1>6, <2>1
  <2>3. m * m * u \in Nat
    BY <1>3, <2>1
  <2> HIDE DEF top
  <2>4. ~(m * m * u >= area * 100)
    BY <2>1, <2>2
  <2>5. area * 100 \in Nat
    OBVIOUS
  <2> QED
    BY <2>3, <2>4, <2>5
<1>9. \E q \in 60..top : q * q * u >= area * 100 /\ \A m \in 60 .. q - 1 : m * m * u < area * 100
  BY <1>7, <1>8
<1>10. CoreSide \in 60..top
  BY <1>9 DEF CoreSide, u, top
<1> QED
  BY <1>2, <1>10

LEMMA RowCount == ASSUME NEW s \in Nat PROVE s \div RowH \in Nat
BY DEF RowH

(* Widths are numbers.                                                     *)
LEMMA WidthTypes ==
  ASSUME Count \in Nat
  PROVE  Widest \in [1..Count -> Int] /\ PlacedWidths \in [1..Count -> Int]
<1>1. \A c : Width(c) \in Int
  BY Widths DEF Width
<1> QED
  BY <1>1 DEF Widest, PlacedWidths

LEMMA FilledType ==
  ASSUME side \in Nat, rowX \in [RowsOf(side) -> Int]
  PROVE  Rows \in Nat /\ Filled \in [1..Rows -> Int]
<1>1. Rows \in Nat
  BY DEF Rows, RowH
<1>2. ASSUME NEW k \in 1..Rows PROVE rowX[k - 1] - Margin \in Int
  <2>1. k - 1 \in RowsOf(side)
    BY <1>1 DEF RowsOf, Rows
  <2> QED
    BY <2>1 DEF Margin
<1> QED
  BY <1>1, <1>2 DEF Filled

(* When there is room, in the sense of GreedyFits, every cell finds a row. *)
LEMMA FindsARow ==
  ASSUME side \in Nat, side >= 60, rowX \in [RowsOf(side) -> Int], Count \in Nat,
         Total(Filled) = Total(PlacedWidths), LeavesRoom,
         NEW c \in 1..Count, c \notin Placed
  PROVE  \E r \in DOMAIN rowX : HasRoom(c, r)
<1> SUFFICES ASSUME \A r \in DOMAIN rowX : ~HasRoom(c, r)
             PROVE  FALSE
  OBVIOUS
<1> DEFINE w == Width(c)
           full == [k \in 1..Rows |-> side - w + 1]
           then == [d \in 1..Count |-> IF d = c \/ d \in Placed THEN Width(d) ELSE 0]
<1>1. w \in {10, 20, 30}
  BY WidthValues DEF Width
<1>2. Rows \in Nat /\ Filled \in [1..Rows -> Int] /\ Rows >= 1
  BY FilledType DEF Rows, RowH
<1>3. Cardinality(DOMAIN rowX) = Rows
  <2>1. DOMAIN rowX = 0 .. Rows - 1
    BY DEF RowsOf, Rows
  <2>2. 0 \in Int /\ Rows - 1 \in Int /\ ~(0 > Rows - 1) /\ Rows - 1 - 0 + 1 = Rows
    BY <1>2
  <2>3. Cardinality(0 .. Rows - 1) = IF 0 > Rows - 1 THEN 0 ELSE Rows - 1 - 0 + 1
    BY <2>2, FS_Interval
  <2> QED
    BY <2>1, <2>2, <2>3
<1>4. \A k \in 1..Rows : side - w + 1 <= Filled[k]
  <2> SUFFICES ASSUME NEW k \in 1..Rows PROVE side - w + 1 <= Filled[k]
    OBVIOUS
  <2>1. k - 1 \in DOMAIN rowX /\ rowX[k - 1] \in Int
    BY <1>2 DEF RowsOf, Rows
  <2>2. ~(rowX[k - 1] + w <= Margin + side)
    BY <2>1 DEF HasRoom, Width
  <2>3. Filled[k] = rowX[k - 1] - Margin
    BY DEF Filled
  <2> HIDE DEF w
  <2> QED
    BY <1>1, <2>1, <2>2, <2>3 DEF Margin
<1>5. Rows * (side - w + 1) <= Total(Filled)
  <2>1. full \in [1..Rows -> Int] /\ \A k \in 1..Rows : full[k] <= Filled[k]
    BY <1>1, <1>4
  <2>2. Total(full) = Rows * (side - w + 1)
    <3>1. side - w + 1 \in Int /\ \A k \in 1..Rows : full[k] = side - w + 1
      BY <1>1
    <3> HIDE DEF w, full
    <3> QED
      BY <1>2, <2>1, <3>1, TotalOfEqual
  <2> HIDE DEF full
  <2>3. Total(full) <= Total(Filled)
    BY <1>2, <2>1, TotalMonotone
  <2> QED
    BY <2>2, <2>3
<1>6. \A d : Width(d) \in Int /\ Width(d) >= 0
  BY Widths DEF Width
<1>7. then \in [1..Count -> Int] /\ then[c] = w /\ PlacedWidths[c] = 0
  BY <1>6 DEF PlacedWidths
<1>8. /\ \A d \in 1..Count : d # c => then[d] = PlacedWidths[d]
      /\ \A d \in 1..Count : then[d] <= Widest[d]
  BY <1>6 DEF PlacedWidths, Widest
<1>9. Widest \in [1..Count -> Int] /\ PlacedWidths \in [1..Count -> Int]
  BY WidthTypes
<1> HIDE DEF then
<1>10. Total(then) = Total(PlacedWidths) - PlacedWidths[c] + then[c]
  BY <1>7, <1>8, <1>9, TotalChange, ZenonT(30)
<1>11. Total(then) <= Total(Widest)
  BY <1>7, <1>8, <1>9, TotalMonotone
<1>12. Total(PlacedWidths) \in Int /\ Total(Widest) \in Int
  BY <1>9, TotalInt
<1> HIDE DEF w
<1>13. Rows * (side - w + 1) + w <= Total(Widest)
  <2>1. Rows * (side - w + 1) \in Int /\ w \in Int
    BY <1>1, <1>2
  <2> QED
    BY <1>5, <1>7, <1>10, <1>11, <1>12, <2>1
<1>14. Total(Widest) < Rows * (side - 29) + 30
  BY <1>3 DEF LeavesRoom
<1>15. Rows * side \in Int
  BY <1>2
<1>16. Rows * (side - 29) = Rows * side - 29 * Rows
  BY <1>2
<1>17. CASE w = 10
  <2>1. Rows * (side - w + 1) = Rows * side - 9 * Rows
    BY <1>2, <1>17
  <2> QED
    BY <1>2, <1>12, <1>13, <1>14, <1>15, <1>16, <1>17, <2>1
<1>18. CASE w = 20
  <2>1. Rows * (side - w + 1) = Rows * side - 19 * Rows
    BY <1>2, <1>18
  <2> QED
    BY <1>2, <1>12, <1>13, <1>14, <1>15, <1>16, <1>18, <2>1
<1>19. CASE w = 30
  <2>1. Rows * (side - w + 1) = Rows * side - 29 * Rows
    BY <1>2, <1>19
  <2> QED
    BY <1>2, <1>12, <1>13, <1>14, <1>15, <1>16, <1>19, <2>1
<1> QED
  BY <1>1, <1>17, <1>18, <1>19
LEMMA FillingInit == PhysInit => FillingInv
BY DEF PhysInit, FillingInv

(* A floorplan has empty rows and nothing placed.                          *)
LEMMA FloorplanFills ==
  ASSUME CountingInv, FillingInv, Floorplan
  PROVE  FillingInv'
<1>1. side' = CoreSide /\ area' = area /\ stage = "measure" /\ stage' = "shuffle" /\ insts' = insts /\ cells' = cells
  BY DEF Floorplan, Goto
<1>2. side' \in Nat /\ side' >= 60
  BY <1>1, SideExists DEF FillingInv
<1>3. rowX' = [r \in RowsOf(side') |-> Margin]
  BY DEF Floorplan
<1>4. rowX' \in [RowsOf(side') -> Int]
  BY <1>3 DEF Margin
<1>5. Placed' = {}
  BY <1>1 DEF CountingInv, NothingEarly, Placed
<1>6. Count' \in Nat
  BY <1>1 DEF CountingInv, OrderOK, Count
<1>7. Total(Filled') = 0
  <2> DEFINE n == side' \div RowH
             s == [k \in 1..n |-> rowX'[k - 1] - Margin]
  <2>1. n \in Nat
    BY <1>2, RowCount
  <2>2. ASSUME NEW k \in 1..n PROVE rowX'[k - 1] - Margin = 0
    <3>1. k - 1 \in RowsOf(side')
      BY <2>1 DEF RowsOf
    <3> QED
      BY <1>3, <3>1 DEF Margin
  <2>3. Filled' = s
    BY DEF Filled, Rows
  <2>4. s \in [1..n -> Int] /\ \A k \in 1..n : s[k] = 0
    BY <2>2
  <2> HIDE DEF n, s
  <2>5. Total(s) = n * 0
    BY <2>1, <2>4, TotalOfEqual
  <2> QED
    BY <2>1, <2>3, <2>5
<1>8. Total(PlacedWidths') = 0
  <2> DEFINE n == Count'
             s == PlacedWidths'
  <2>1. s \in [1..n -> Int] /\ \A c \in 1..n : s[c] = 0
    BY <1>5 DEF PlacedWidths
  <2> HIDE DEF n, s
  <2>2. Total(s) = n * 0
    <3>1. n \in Nat
      BY <1>6 DEF n
    <3> QED
      BY <2>1, <3>1, TotalOfEqual
  <2>3. n * 0 = 0
    <3>1. \A m \in Nat : m * 0 = 0
      OBVIOUS
    <3> QED
      BY <1>6, <3>1, Zenon DEF n
  <2> QED
    BY <2>2, <2>3 DEF s
<1> QED
  BY <1>1, <1>2, <1>4, <1>5, <1>7, <1>8 DEF FillingInv

LEMMA PlaceFills ==
  ASSUME CountingInv, FillingInv, Place
  PROVE  FillingInv'
<1>a. PICK k \in 1..Count, r \in DOMAIN rowX :
        Turn(k) /\ TakesRow(order[k], r) /\ PutCell(order[k], r)
  BY DEF Place
<1>b. PICK c : c = order[k]
  OBVIOUS
<1>1. TakesRow(c, r) /\ PutCell(c, r)
  BY <1>a, <1>b
<1> DEFINE w == Width(c)
<1>2. /\ stage = "place" /\ stage' = "place"
      /\ UNCHANGED <<argv, insts, area, side>>
  BY DEF Place
<1>3. c \in 1..Count /\ c \notin Placed /\ Count \in Nat
  BY <1>a, <1>b, <1>2 DEF Turn, CountingInv, OrderOK
<1>4. /\ side \in Nat /\ side >= 60
      /\ rowX \in [RowsOf(side) -> Int]
      /\ Total(Filled) = Total(PlacedWidths)
      /\ LeavesRoom => \A d \in Placed : InCore(d)
      /\ area \in Nat
  BY <1>2 DEF FillingInv
<1>5. Placed' = Placed \cup {c} /\ cells'[c] = CornerOf(r) /\ \A d \in Placed : cells'[d] = cells[d]
  BY <1>1, <1>3 DEF PutCell, Placed
<1>6. rowX' = [rowX EXCEPT ![r] = rowX[r] + w]
  BY <1>1 DEF PutCell, Cursor, Width
<1>7. w \in Int /\ w >= 0
  BY Widths DEF Width
<1>8. \A d : Width(d)' = Width(d)
  BY <1>2 DEF Width
<1> HIDE DEF w
<1>9. rowX' \in [RowsOf(side) -> Int] /\ RowsOf(side') = RowsOf(side) /\ rowX[r] \in Int /\ r \in RowsOf(side)
  BY <1>1, <1>2, <1>4, <1>6, <1>7
<1>10. Rows' = Rows /\ Rows \in Nat /\ Filled \in [1..Rows -> Int] /\ Filled' \in [1..Rows -> Int]
  <2>1. Rows' = Rows /\ Rows \in Nat /\ Filled \in [1..Rows -> Int]
    BY <1>2, <1>4, FilledType DEF Rows
  <2>2. ASSUME NEW m \in 1..Rows PROVE rowX'[m - 1] - Margin \in Int
    <3>1. m - 1 \in RowsOf(side)
      BY <2>1 DEF RowsOf, Rows
    <3> QED
      BY <3>1, <1>9 DEF Margin
  <2> QED
    BY <2>1, <2>2 DEF Filled
<1>11. r + 1 \in 1..Rows /\ (r + 1) - 1 = r
  BY <1>9, <1>10 DEF RowsOf, Rows
<1>12. Filled[r + 1] = rowX[r] - Margin /\ Filled'[r + 1] = rowX[r] + w - Margin
  <2>1. rowX'[r] = rowX[r] + w
    BY <1>4, <1>6, <1>9
  <2>2. PICK q \in 1..Rows : q = r + 1 /\ q - 1 = r
    BY <1>11
  <2>3. Filled[q] = rowX[q - 1] - Margin /\ Filled'[q] = rowX'[q - 1] - Margin
    BY <1>10 DEF Filled
  <2>4. Filled[q] = rowX[r] - Margin /\ Filled'[q] = rowX'[r] - Margin
    BY <2>2, <2>3, Zenon
  <2>5. Filled[r + 1] = rowX[r] - Margin
    BY <2>2, <2>4, Zenon
  <2>6. Filled'[r + 1] = rowX'[r] - Margin
    BY <2>2, <2>4, Zenon
  <2>7. rowX'[r] - Margin = rowX[r] + w - Margin
    BY <1>7, <1>9, <2>1 DEF Margin
  <2> QED
    BY <2>5, <2>6, <2>7, Zenon
<1>13. \A m \in 1..Rows : m # r + 1 => Filled'[m] = Filled[m]
  <2> SUFFICES ASSUME NEW m \in 1..Rows, m # r + 1 PROVE Filled'[m] = Filled[m]
    OBVIOUS
  <2>1. m - 1 # r /\ m - 1 \in RowsOf(side)
    BY <1>9, <1>10 DEF RowsOf, Rows
  <2>2. rowX'[m - 1] = rowX[m - 1]
    BY <1>4, <1>6, <2>1
  <2> QED
    BY <1>10, <2>2 DEF Filled
<1>14. Total(Filled') = Total(Filled) + w
  <2>1. Total(Filled') = Total(Filled) - Filled[r + 1] + Filled'[r + 1]
    BY <1>10, <1>11, <1>13, TotalChange
  <2>2. Total(Filled) \in Int
    BY <1>10, TotalInt
  <2> QED
    BY <1>7, <1>9, <1>12, <2>1, <2>2 DEF Margin
<1>15. Count' = Count
  BY <1>2 DEF Count
<1>16. /\ PlacedWidths \in [1..Count -> Int] /\ PlacedWidths' \in [1..Count -> Int]
       /\ PlacedWidths[c] = 0 /\ PlacedWidths'[c] = w
       /\ \A d \in 1..Count : d # c => PlacedWidths'[d] = PlacedWidths[d]
  <2>1. \A d : Width(d) \in Int
    BY Widths DEF Width
  <2> QED
    BY <1>3, <1>5, <1>8, <1>15, <2>1 DEF PlacedWidths, w
<1>17. Total(PlacedWidths') = Total(PlacedWidths) + w
  <2>1. Total(PlacedWidths') = Total(PlacedWidths) - PlacedWidths[c] + PlacedWidths'[c]
    <3> DEFINE s == PlacedWidths
               t == PlacedWidths'
    <3>1. s \in [1..Count -> Int] /\ t \in [1..Count -> Int] /\ \A d \in 1..Count : d # c => t[d] = s[d]
      BY <1>16
    <3> HIDE DEF s, t
    <3>2. Total(t) = Total(s) - s[c] + t[c]
      BY <1>3, <3>1, TotalChange
    <3> QED
      BY <3>2 DEF s, t
  <2>2. Total(PlacedWidths) \in Int
    BY <1>3, <1>16, TotalInt
  <2> QED
    BY <1>7, <1>16, <2>1, <2>2
<1>18. ASSUME LeavesRoom' PROVE \A d \in Placed' : InCore(d)'
  <2>1. DOMAIN rowX' = DOMAIN rowX
    BY <1>6
  <2>2. Widest' = Widest
    BY <1>8, <1>15 DEF Widest
  <2>3. LeavesRoom
    BY <1>2, <1>18, <2>1, <2>2 DEF LeavesRoom
  <2>4. \A d \in Placed : InCore(d)'
    BY <1>2, <1>4, <1>5, <2>3 DEF InCore
  <2>5. HasRoom(c, r)
    <3>1. PICK q \in DOMAIN rowX : HasRoom(c, q)
      BY <1>3, <1>4, <2>3, FindsARow
    <3>2. r \in Candidates(c)
      BY <1>1, <2>3 DEF TakesRow, LeavesRoom
    <3> QED
      BY <3>1, <3>2 DEF Candidates
  <2>6. InCore(c)'
    <3>1. cells'[c].x = rowX[r] /\ cells'[c].y = Margin + r * RowH
      BY <1>5 DEF CornerOf
    <3>2. rowX[r] + w <= Margin + side
      BY <2>5 DEF HasRoom, w, Width
    <3>3. CellWidth(insts'[c].cell) = w
      BY <1>2 DEF w, Width
    <3>4. r * 30 + 30 <= side
      BY <1>4, <1>9 DEF RowsOf, RowH
    <3>5. Margin + r * RowH + RowH <= Margin + side
      BY <1>4, <1>9, <3>4 DEF RowsOf, Margin, RowH
    <3>6. cells'[c].x + CellWidth(insts'[c].cell) <= Margin + side
      BY <3>1, <3>2, <3>3
    <3>7. cells'[c].y + RowH <= Margin + side
      BY <3>1, <3>5
    <3> QED
      BY <1>2, <3>6, <3>7 DEF InCore
  <2>7. ASSUME NEW d \in Placed' PROVE InCore(d)'
    <3>1. d \in Placed \/ d = c
      BY <1>5
    <3>2. CASE d \in Placed
      BY <2>4, <3>2
    <3>3. CASE d = c
      BY <2>6, <3>3 DEF InCore
    <3> QED
      BY <3>1, <3>2, <3>3
  <2> QED
    BY <2>7
<1> QED
  BY <1>2, <1>4, <1>9, <1>14, <1>17, <1>18 DEF FillingInv

LEMMA FillingNext == CountingInv /\ FillingInv /\ [PhysNext]_physVars => FillingInv'
<1> SUFFICES ASSUME CountingInv, FillingInv, [PhysNext]_physVars
             PROVE  FillingInv'
  OBVIOUS
<1>1. ASSUME area' \in Nat, stage' \notin {"shuffle", "place"}
      PROVE  FillingInv'
  BY <1>1 DEF FillingInv
<1>2. ASSUME UNCHANGED <<argv, insts, area, side, rowX, cells>>, stage \in {"shuffle", "place"} \/ stage' = stage
      PROVE  FillingInv'
  <2>1. UNCHANGED <<Filled, PlacedWidths, LeavesRoom, Placed>> /\ \A d : InCore(d)' = InCore(d)
    BY <1>2 DEF Filled, Rows, PlacedWidths, Placed, Count, Width, LeavesRoom, Widest, InCore
  <2> QED
    BY <1>2, <2>1 DEF FillingInv
<1>3. ASSUME NEW code, Exit(code)
      PROVE  FillingInv'
  BY <1>1, <1>3 DEF Exit, placeVars, FillingInv
<1>4. CASE OpenLayout \/ CannotReadDesign \/ CompileOnly
  BY <1>3, <1>4 DEF OpenLayout, CannotReadDesign, CompileOnly
<1>5. CASE RefuseMapping \/ ReportMapping \/ NothingToPlace
  BY <1>3, <1>5 DEF RefuseMapping, ReportMapping, NothingToPlace
<1>6. CASE ReportPlacement \/ ReportDesign \/ CannotWriteLayout
  BY <1>3, <1>6 DEF ReportPlacement, ReportDesign, CannotWriteLayout
<1>7. CASE BeginPlacement
  BY <1>1, <1>7 DEF BeginPlacement, Goto, FillingInv
<1>8. CASE MeasureCell
  <2>1. area' \in Nat
    BY <1>8, Widths DEF MeasureCell, FillingInv, RowH
  <2> QED
    BY <1>1, <1>8, <2>1 DEF MeasureCell
<1>9. CASE Floorplan
  BY <1>9, FloorplanFills
<1>10. CASE Shuffle \/ Shuffled
  <2>1. UNCHANGED <<argv, insts, area, side, rowX, cells>> /\ stage = "shuffle"
    BY <1>10 DEF Shuffle, Shuffled, Goto
  <2> QED
    BY <1>2, <2>1
<1>11. CASE Place
  BY <1>11, PlaceFills
<1>12. CASE Route
  BY <1>1, <1>12 DEF Route, Goto, FillingInv
<1>13. CASE Relax \/ RelaxStops
  <2>1. area' = area /\ stage' \in {"time", "timed"}
    BY <1>13 DEF Relax, RelaxStops, Goto, placeVars
  <2> QED
    BY <1>1, <2>1 DEF FillingInv
<1>14. CASE WriteLayout
  BY <1>1, <1>14 DEF WriteLayout, placeVars, FillingInv
<1>15. CASE UNCHANGED physVars
  BY <1>2, <1>15 DEF physVars, placeVars
<1> QED
  BY <1>4, <1>5, <1>6, <1>7, <1>8, <1>9, <1>10, <1>11, <1>12, <1>13, <1>14, <1>15 DEF PhysNext

(* greedy_wirelength keeps a design inside of the core when its cells leave*)
(* less than a cell's width free in each row, for every netlist, seed and  *)
(* utilization, in whatever order the cells come.                          *)
THEOREM GreedyStaysInside == PhysSpec => []GreedyFits
<1>1. FillingInv => GreedyFits
  <2> SUFFICES ASSUME FillingInv, PlacementDone, argv.algorithm = "greedy_wirelength",
                      Total([c \in 1..Count |-> CellWidth(insts[c].cell)]) < Cardinality(DOMAIN rowX) * (side - 29) + 30
               PROVE  \A c \in Placed : InCore(c)
    BY DEF GreedyFits
  <2>1. LeavesRoom
    BY DEF LeavesRoom, Widest, Width
  <2> QED
    BY <2>1 DEF FillingInv, PlacementDone
<1> QED
  BY <1>1, CountingInit, CountingNext, FillingInit, FillingNext, PTL DEF PhysSpec

-----------------------------------------------------------------------------
(* The timing estimate: cells, pins and what the estimate can hold *)

Ins(c) == 1..Len(insts[c].in)
In(c, p) == insts[c].in[p]
Out(c) == insts[c].out

(* The time a signal takes over the way to a pin, and through its cell.    *)
Way(pin) == IF Drivers(NetAt(pin)) = {} THEN 0 ELSE 2 * Manhattan(From(pin), To(pin))
Lag(c, p) == Way(<<c, p>>) + Delay(insts[c].cell)

(* When input p of cell c lets its output settle.                          *)
Late(c, p, arr) == Known(In(c, p), arr) + Lag(c, p)

WaysOK == \A c \in 1..Count : \A p \in Ins(c) : Way(<<c, p>>) \in Nat
Netlist == Count \in Nat /\ InputsOK /\ WaysOK

(* What the estimate can hold.                                             *)
Outs == { Out(c) : c \in 1..Count }
Inputs == UNION { { In(c, p) : p \in Ins(c) } : c \in 1..Count }
Arrivals == UNION { [D -> Nat] : D \in SUBSET Outs }
Causes == UNION { [D -> Inputs] : D \in SUBSET Outs }
Estimates == [arr : Arrivals, how : Causes]

(* The net of a cell is at least as late as each of its inputs makes it.   *)
UpToDate(c, arr) ==
  Sequential(c) \/ (Out(c) \in DOMAIN arr /\ \A p \in Ins(c) : Late(c, p, arr) <= arr[Out(c)])

(* Cell c has made its net later: as late as its latest input makes it.    *)
Raised(c, t, u) ==
  /\ ~Sequential(c)
  /\ DOMAIN u.arr = DOMAIN t.arr \cup {Out(c)}
  /\ DOMAIN u.how = DOMAIN t.how \cup {Out(c)}
  /\ \A net \in DOMAIN t.arr : net # Out(c) => u.arr[net] = t.arr[net]
  /\ \A net \in DOMAIN t.how : net # Out(c) => u.how[net] = t.how[net]
  /\ \A p \in Ins(c) : Late(c, p, t.arr) <= u.arr[Out(c)]
  /\ \E p \in Ins(c) : u.how[Out(c)] = In(c, p) /\ u.arr[Out(c)] = Late(c, p, t.arr)
  /\ Out(c) \in DOMAIN t.arr => t.arr[Out(c)] < u.arr[Out(c)]

LEMMA Delays == ASSUME NEW cell PROVE Delay(cell) \in Nat
<1>1. Delay(cell) \in {40, 45, 60, 70, 80, 90}
  BY ZenonT(30) DEF Delay
<1> QED
  BY <1>1

(* What an estimate is made of.                                            *)
LEMMA Parts ==
  ASSUME NEW t \in Estimates
  PROVE  /\ t = [arr |-> t.arr, how |-> t.how]
         /\ DOMAIN t.arr \subseteq Outs /\ \A net \in DOMAIN t.arr : t.arr[net] \in Nat
         /\ DOMAIN t.how \subseteq Outs /\ \A net \in DOMAIN t.how : t.how[net] \in Inputs
         /\ t.arr \in Arrivals /\ t.how \in Causes
<1>1. t = [arr |-> t.arr, how |-> t.how] /\ t.arr \in Arrivals /\ t.how \in Causes
  BY DEF Estimates
<1>2. PICK D \in SUBSET Outs : t.arr \in [D -> Nat]
  BY <1>1 DEF Arrivals
<1>3. PICK E \in SUBSET Outs : t.how \in [E -> Inputs]
  BY <1>1 DEF Causes
<1> QED
  BY <1>1, <1>2, <1>3

LEMMA KnownNat ==
  ASSUME NEW t \in Estimates, NEW net
  PROVE  Known(net, t.arr) \in Nat
BY Parts DEF Known

(* A cell's step: it chooses the first of its latest inputs.               *)
LEMMA RelaxedTo ==
  ASSUME NEW t \in Estimates, NEW c \in 1..Count, Netlist
  PROVE  \E p \in Ins(c) :
           /\ \A q \in Ins(c) : Late(c, q, t.arr) \in Nat /\ Late(c, q, t.arr) <= Late(c, p, t.arr)
           /\ RelaxCell(c, t) =
                IF Sequential(c) \/ (Out(c) \in DOMAIN t.arr /\ Late(c, p, t.arr) <= t.arr[Out(c)]) THEN t
                ELSE [arr |-> With(t.arr, Out(c), Late(c, p, t.arr)), how |-> With(t.how, Out(c), In(c, p))]
<1> DEFINE d == Delay(insts[c].cell)
           f == [p \in Ins(c) |-> PinArrival(<<c, p>>, t.arr)]
           Best(p) == \A q \in Ins(c) : f[q] <= f[p] /\ (f[q] = f[p] => p <= q)
           last == CHOOSE p \in Ins(c) : Best(p)
           n == Len(insts[c].in)
<1>1. d \in Nat
  BY Delays
<1>2. n \in Nat /\ n > 0
  BY DEF Netlist, InputsOK
<1>3. ASSUME NEW p \in Ins(c)
      PROVE  f[p] \in Nat /\ Late(c, p, t.arr) = f[p] + d /\ Late(c, p, t.arr) \in Nat
  <2>1. PinArrival(<<c, p>>, t.arr) = Known(In(c, p), t.arr) + Way(<<c, p>>)
    BY DEF PinArrival, In, Way, NetAt
  <2>2. Known(In(c, p), t.arr) \in Nat
    BY KnownNat
  <2>3. Way(<<c, p>>) \in Nat
    BY DEF Netlist, WaysOK
  <2>4. f[p] = Known(In(c, p), t.arr) + Way(<<c, p>>)
    BY <2>1
  <2>5. Late(c, p, t.arr) = Known(In(c, p), t.arr) + (Way(<<c, p>>) + d)
    BY DEF Late, Lag
  <2> HIDE DEF f, d
  <2> QED
    BY <1>1, <2>2, <2>3, <2>4, <2>5
<1>4. last \in Ins(c) /\ Best(last)
  <2>1. f \in [1..n -> Int]
    <3>1. \A p \in Ins(c) : PinArrival(<<c, p>>, t.arr) \in Int
      BY <1>3
    <3> QED
      BY <3>1 DEF Ins
  <2> HIDE DEF f
  <2>2. \E p \in 1..n : \A q \in 1..n : f[q] <= f[p] /\ (f[q] = f[p] => p <= q)
    <3> HIDE DEF n
    <3> QED
      BY <1>2, <2>1, FirstGreatest
  <2>3. \E p \in Ins(c) : Best(p)
    BY <2>2 DEF Ins
  <2> HIDE DEF Best
  <2> QED
    BY <2>3, Zenon
<1>5. RelaxCell(c, t) =
        IF Sequential(c) \/ (Out(c) \in DOMAIN t.arr /\ f[last] + d <= t.arr[Out(c)]) THEN t
        ELSE [arr |-> With(t.arr, Out(c), f[last] + d), how |-> With(t.how, Out(c), In(c, last))]
  <2> DEFINE Result(g) ==
        LET latest == CHOOSE p \in Ins(c) : \A q \in Ins(c) : g[q] <= g[p] /\ (g[q] = g[p] => p <= q)
            new == g[latest] + d
        IN  IF Sequential(c) \/ (Out(c) \in DOMAIN t.arr /\ new <= t.arr[Out(c)]) THEN t
            ELSE [arr |-> With(t.arr, Out(c), new), how |-> With(t.how, Out(c), In(c, latest))]
  <2>1. (CHOOSE g \in {f} : TRUE) = f
    <3> HIDE DEF f
    <3> QED
      OBVIOUS
  <2>2. RelaxCell(c, t) = Result(CHOOSE g \in {f} : TRUE)
    BY Zenon DEF RelaxCell, Ins, In, Out
  <2>3. RelaxCell(c, t) = Result(f)
    <3> HIDE DEF f, Result
    <3> QED
      BY <2>1, <2>2, Zenon
  <2> QED
    BY <2>3, Zenon
<1>6. Late(c, last, t.arr) = f[last] + d
  BY <1>3, <1>4
<1>7. \A q \in Ins(c) : Late(c, q, t.arr) \in Nat /\ Late(c, q, t.arr) <= Late(c, last, t.arr)
  <2> SUFFICES ASSUME NEW q \in Ins(c)
               PROVE  Late(c, q, t.arr) \in Nat /\ Late(c, q, t.arr) <= Late(c, last, t.arr)
    OBVIOUS
  <2>1. f[q] <= f[last]
    BY <1>4
  <2>2. f[q] \in Nat /\ Late(c, q, t.arr) = f[q] + d /\ f[last] \in Nat /\ Late(c, q, t.arr) \in Nat
    BY <1>3, <1>4
  <2> HIDE DEF f, d, last
  <2> QED
    BY <1>1, <1>6, <2>1, <2>2
<1> HIDE DEF f, d, last
<1> QED
  BY <1>4, <1>5, <1>6, <1>7

(* It changes nothing if the cell is settled, and else makes its net later.*)
LEMMA Relaxed ==
  ASSUME NEW t \in Estimates, NEW c \in 1..Count, Netlist
  PROVE  /\ RelaxCell(c, t) \in Estimates
         /\ (RelaxCell(c, t) = t /\ UpToDate(c, t.arr)) \/ Raised(c, t, RelaxCell(c, t))
<1>1. PICK p \in Ins(c) :
           /\ \A q \in Ins(c) : Late(c, q, t.arr) \in Nat /\ Late(c, q, t.arr) <= Late(c, p, t.arr)
           /\ RelaxCell(c, t) =
                IF Sequential(c) \/ (Out(c) \in DOMAIN t.arr /\ Late(c, p, t.arr) <= t.arr[Out(c)]) THEN t
                ELSE [arr |-> With(t.arr, Out(c), Late(c, p, t.arr)), how |-> With(t.how, Out(c), In(c, p))]
  BY RelaxedTo, Zenon
<1> DEFINE new == Late(c, p, t.arr)
           keep == Sequential(c) \/ (Out(c) \in DOMAIN t.arr /\ new <= t.arr[Out(c)])
<1>2. new \in Nat /\ \A q \in Ins(c) : Late(c, q, t.arr) \in Nat /\ Late(c, q, t.arr) <= new
  BY <1>1
<1>3. Out(c) \in DOMAIN t.arr => t.arr[Out(c)] \in Nat
  BY Parts
<1>4. CASE keep
  <2>1. RelaxCell(c, t) = t
    BY <1>1, <1>4, Zenon
  <2>2. UpToDate(c, t.arr)
    <3> HIDE DEF new
    <3> QED
      BY <1>2, <1>3, <1>4 DEF UpToDate
  <2> QED
    BY <2>1, <2>2
<1>5. CASE ~keep
  <2> DEFINE arr == With(t.arr, Out(c), new)
             why == With(t.how, Out(c), In(c, p))
             u == [arr |-> arr, how |-> why]
  <2>1. RelaxCell(c, t) = u
    BY <1>1, <1>5, Zenon
  <2>2. Out(c) \in Outs /\ In(c, p) \in Inputs
    <3>1. In(c, p) \in { In(c, q) : q \in Ins(c) }
      BY <1>1
    <3> QED
      BY <3>1 DEF Outs, Inputs
  <2>3. DOMAIN arr = DOMAIN t.arr \cup {Out(c)} /\ DOMAIN why = DOMAIN t.how \cup {Out(c)}
    BY DEF With
  <2>4. /\ arr[Out(c)] = new /\ why[Out(c)] = In(c, p)
        /\ \A net \in DOMAIN t.arr : net # Out(c) => arr[net] = t.arr[net]
        /\ \A net \in DOMAIN t.how : net # Out(c) => why[net] = t.how[net]
    BY DEF With
  <2>5. arr \in Arrivals
    <3> HIDE DEF new
    <3>1. DOMAIN arr \in SUBSET Outs
      BY <2>2, <2>3, Parts
    <3>2. arr = [y \in DOMAIN arr |-> arr[y]]
      BY DEF With
    <3>3. \A y \in DOMAIN arr : arr[y] \in Nat
      BY <2>3, <2>4, <1>2, Parts
    <3> HIDE DEF arr
    <3>4. arr \in [DOMAIN arr -> Nat]
      BY <3>2, <3>3
    <3> QED
      BY <3>1, <3>4 DEF Arrivals
  <2>6. why \in Causes
    <3>1. DOMAIN why \in SUBSET Outs
      BY <2>2, <2>3, Parts
    <3>2. why = [y \in DOMAIN why |-> why[y]]
      BY DEF With
    <3>3. \A y \in DOMAIN why : why[y] \in Inputs
      BY <2>3, <2>4, <2>2, Parts
    <3> HIDE DEF why
    <3>4. why \in [DOMAIN why -> Inputs]
      BY <3>2, <3>3
    <3> QED
      BY <3>1, <3>4 DEF Causes
  <2> HIDE DEF arr, why
  <2>7. u \in Estimates
    BY <2>5, <2>6 DEF Estimates
  <2>8. Out(c) \in DOMAIN t.arr => t.arr[Out(c)] < new
    <3> HIDE DEF new
    <3> QED
      BY <1>2, <1>3, <1>5
  <2>9. u.arr = arr /\ u.how = why
    OBVIOUS
  <2> HIDE DEF u, keep
  <2>10. Raised(c, t, u)
    <3>1. ~Sequential(c)
      BY <1>5 DEF keep
    <3> QED
      BY <3>1, <1>1, <1>2, <2>3, <2>4, <2>8, <2>9 DEF Raised
  <2> QED
    BY <2>1, <2>7, <2>10
<1> QED
  BY <1>4, <1>5

-----------------------------------------------------------------------------
(* No net is later than its inputs make it: the input that how names       *)
(* accounts for it.                                                        *)
Caused(c, t) ==
  ~Sequential(c) /\ Out(c) \in DOMAIN t.arr =>
    Out(c) \in DOMAIN t.how /\ \E p \in Ins(c) : t.how[Out(c)] = In(c, p) /\ t.arr[Out(c)] <= Late(c, p, t.arr)
CausesNamed(t) ==
  \A net \in DOMAIN t.how : \E c \in 1..Count : ~Sequential(c) /\ net = Out(c) /\ net \in DOMAIN t.arr
Accounted(t) == CausesNamed(t) /\ \A c \in 1..Count : Caused(c, t)

Grows(a, b) == \A net \in DOMAIN a : net \in DOMAIN b /\ a[net] <= b[net]

LEMMA StepGrows ==
  ASSUME NEW t \in Estimates, NEW c \in 1..Count, Netlist
  PROVE  Grows(t.arr, RelaxCell(c, t).arr)
<1> DEFINE u == RelaxCell(c, t)
<1>1. u \in Estimates /\ ((u = t /\ UpToDate(c, t.arr)) \/ Raised(c, t, u))
  BY Relaxed
<1> HIDE DEF u
<1>2. \A net \in DOMAIN t.arr : t.arr[net] \in Nat
  BY Parts
<1>3. \A net \in DOMAIN u.arr : u.arr[net] \in Nat
  BY <1>1, Parts
<1>4. ASSUME u = t PROVE Grows(t.arr, u.arr)
  BY <1>2, <1>4 DEF Grows
<1>5. ASSUME Raised(c, t, u) PROVE Grows(t.arr, u.arr)
  <2> SUFFICES ASSUME NEW net \in DOMAIN t.arr PROVE net \in DOMAIN u.arr /\ t.arr[net] <= u.arr[net]
    BY DEF Grows
  <2>1. net \in DOMAIN u.arr
    BY <1>5 DEF Raised
  <2>2. CASE net = Out(c)
    BY <1>2, <1>3, <1>5, <2>1, <2>2 DEF Raised
  <2>3. CASE net # Out(c)
    BY <1>2, <1>5, <2>3 DEF Raised
  <2> QED
    BY <2>1, <2>2, <2>3
<1> QED
  BY <1>1, <1>4, <1>5 DEF u

LEMMA LateGrows ==
  ASSUME NEW t \in Estimates, NEW u \in Estimates, Grows(t.arr, u.arr), Netlist,
         NEW c \in 1..Count, NEW p \in Ins(c)
  PROVE  /\ Late(c, p, t.arr) <= Late(c, p, u.arr)
         /\ Late(c, p, t.arr) \in Nat /\ Late(c, p, u.arr) \in Nat
<1> DEFINE k == Known(In(c, p), t.arr)
           l == Known(In(c, p), u.arr)
           g == Lag(c, p)
<1>1. k \in Nat /\ l \in Nat
  BY KnownNat
<1>2. k <= l
  <2>1. CASE In(c, p) \in DOMAIN t.arr
    BY <2>1 DEF Known, Grows
  <2>2. CASE In(c, p) \notin DOMAIN t.arr
    <3>1. k = 0
      BY <2>2 DEF Known
    <3> HIDE DEF l
    <3> QED
      BY <1>1, <3>1
  <2> QED
    BY <2>1, <2>2
<1>3. g \in Nat
  <2>1. Way(<<c, p>>) \in Nat /\ Delay(insts[c].cell) \in Nat
    BY Delays DEF Netlist, WaysOK
  <2> QED
    BY <2>1 DEF Lag
<1>4. Late(c, p, t.arr) = k + g /\ Late(c, p, u.arr) = l + g
  BY DEF Late
<1> HIDE DEF k, l, g
<1> QED
  BY <1>1, <1>2, <1>3, <1>4

LEMMA StepAccounts ==
  ASSUME NEW t \in Estimates, NEW c \in 1..Count, Netlist, OneDriverPerNet, Accounted(t)
  PROVE  Accounted(RelaxCell(c, t))
<1> DEFINE u == RelaxCell(c, t)
<1>1. u \in Estimates /\ ((u = t /\ UpToDate(c, t.arr)) \/ Raised(c, t, u)) /\ Grows(t.arr, u.arr)
  BY Relaxed, StepGrows
<1> HIDE DEF u
<1>2. ASSUME Raised(c, t, u) PROVE Accounted(u)
  <2>1. CausesNamed(u)
    <3> SUFFICES ASSUME NEW net \in DOMAIN u.how
                 PROVE  \E d \in 1..Count : ~Sequential(d) /\ net = Out(d) /\ net \in DOMAIN u.arr
      BY DEF CausesNamed
    <3>1. CASE net = Out(c)
      BY <1>2, <3>1 DEF Raised
    <3>2. CASE net # Out(c)
      BY <1>2, <3>2 DEF Raised, Accounted, CausesNamed
    <3> QED
      BY <3>1, <3>2
  <2>2. ASSUME NEW d \in 1..Count, ~Sequential(d), Out(d) \in DOMAIN u.arr
        PROVE  /\ Out(d) \in DOMAIN u.how
               /\ \E p \in Ins(d) : u.how[Out(d)] = In(d, p) /\ u.arr[Out(d)] <= Late(d, p, u.arr)
    <3>1. CASE d = c
      <4>1. PICK p \in Ins(c) : u.how[Out(c)] = In(c, p) /\ u.arr[Out(c)] = Late(c, p, t.arr)
        BY <1>2 DEF Raised
      <4>2. Late(c, p, t.arr) <= Late(c, p, u.arr)
        BY <1>1, LateGrows
      <4> QED
        BY <1>2, <3>1, <4>1, <4>2 DEF Raised
    <3>2. CASE d # c
      <4>1. Out(d) # Out(c)
        BY <3>2 DEF OneDriverPerNet, Out
      <4>2. Out(d) \in DOMAIN t.arr /\ u.arr[Out(d)] = t.arr[Out(d)]
        BY <1>2, <2>2, <4>1 DEF Raised
      <4>3. PICK p \in Ins(d) : t.how[Out(d)] = In(d, p) /\ t.arr[Out(d)] <= Late(d, p, t.arr)
        BY <2>2, <4>2 DEF Accounted, Caused
      <4>4. /\ Late(d, p, t.arr) <= Late(d, p, u.arr)
            /\ Late(d, p, t.arr) \in Nat /\ Late(d, p, u.arr) \in Nat
        BY <1>1, LateGrows
      <4>5. Out(d) \in DOMAIN u.how /\ u.how[Out(d)] = t.how[Out(d)]
        <5>1. Out(d) \in DOMAIN t.how
          BY <2>2, <4>2 DEF Accounted, Caused
        <5> QED
          BY <1>2, <4>1, <5>1 DEF Raised
      <4>6. t.arr[Out(d)] \in Nat
        BY <4>2, Parts
      <4> QED
        BY <4>2, <4>3, <4>4, <4>5, <4>6
    <3> QED
      BY <3>1, <3>2
  <2> QED
    BY <2>1, <2>2 DEF Accounted, Caused
<1> QED
  BY <1>1, <1>2 DEF u

-----------------------------------------------------------------------------
(* Settling *)

(* The cells without a clock that drive an input of a cell.                *)
Feeds(c) == { d \in 1..Count : ~Sequential(d) /\ \E p \in Ins(c) : In(c, p) = Out(d) }

(* A step settles its cell, and keeps settled cells so, when all that drive*)
(* the cell were settled.                                                  *)
LEMMA StepSettles ==
  ASSUME NEW t \in Estimates, NEW d \in 1..Count, Netlist, OneDriverPerNet,
         NEW L, \A e \in L : UpToDate(e, t.arr),
         NEW c \in 1..Count, Feeds(c) \subseteq L, UpToDate(c, t.arr) \/ c = d
  PROVE  UpToDate(c, RelaxCell(d, t).arr)
<1> DEFINE u == RelaxCell(d, t)
<1>1. u \in Estimates /\ ((u = t /\ UpToDate(d, t.arr)) \/ Raised(d, t, u))
  BY Relaxed
<1> HIDE DEF u
<1>2. ASSUME u = t, UpToDate(d, t.arr) PROVE UpToDate(c, u.arr)
  BY <1>2
<1>3. ASSUME Raised(d, t, u) PROVE UpToDate(c, u.arr)
  <2>1. ~UpToDate(d, t.arr)
    <3>1. ~Sequential(d)
      BY <1>3 DEF Raised
    <3>2. CASE Out(d) \notin DOMAIN t.arr
      BY <3>1, <3>2 DEF UpToDate
    <3>3. CASE Out(d) \in DOMAIN t.arr
      <4>1. PICK p \in Ins(d) : u.arr[Out(d)] = Late(d, p, t.arr)
        BY <1>3 DEF Raised
      <4>2. t.arr[Out(d)] < Late(d, p, t.arr)
        BY <1>3, <3>3, <4>1 DEF Raised
      <4>3. t.arr[Out(d)] \in Nat /\ u.arr[Out(d)] \in Nat
        BY <1>1, <1>3, <3>3, Parts DEF Raised
      <4>4. ~(Late(d, p, t.arr) <= t.arr[Out(d)])
        BY <4>1, <4>2, <4>3
      <4> QED
        BY <3>1, <4>4 DEF UpToDate
    <3> QED
      BY <3>2, <3>3
  <2>2. d \notin Feeds(c)
    BY <2>1
  <2>3. ASSUME NEW p \in Ins(c) PROVE Late(c, p, u.arr) = Late(c, p, t.arr)
    <3>1. In(c, p) # Out(d)
      BY <1>3, <2>2 DEF Feeds, Raised
    <3>2. In(c, p) \in DOMAIN u.arr <=> In(c, p) \in DOMAIN t.arr
      BY <1>3, <3>1 DEF Raised
    <3>3. In(c, p) \in DOMAIN t.arr => u.arr[In(c, p)] = t.arr[In(c, p)]
      BY <1>3, <3>1 DEF Raised
    <3>4. Known(In(c, p), u.arr) = Known(In(c, p), t.arr)
      BY <3>2, <3>3 DEF Known
    <3> QED
      BY <3>4 DEF Late
  <2>4. CASE c = d
    BY <1>3, <2>3, <2>4 DEF UpToDate, Raised
  <2>5. CASE c # d
    <3>1. Out(c) # Out(d)
      BY <2>5 DEF OneDriverPerNet, Out
    <3>2. UpToDate(c, t.arr)
      BY <2>5
    <3>3. Out(c) \in DOMAIN t.arr => Out(c) \in DOMAIN u.arr /\ u.arr[Out(c)] = t.arr[Out(c)]
      BY <1>3, <3>1 DEF Raised
    <3> QED
      BY <2>3, <3>2, <3>3 DEF UpToDate
  <2> QED
    BY <2>4, <2>5
<1> QED
  BY <1>1, <1>2, <1>3 DEF u

(* A pass: one step for each cell, in the order of the netlist.            *)
Pass(f, t) ==
  /\ f \in [0..Count -> Estimates] /\ f[0] = t
  /\ \A k \in 1..Count : f[k] = RelaxCell(k, f[k - 1])

LEMMA RelaxationUnfolds ==
  ASSUME Netlist, [arr |-> arrival, how |-> how] \in Estimates
  PROVE  \E f : Pass(f, [arr |-> arrival, how |-> how]) /\ RelaxAll = f[Count]
<1> DEFINE v == [arr |-> arrival, how |-> how]
           steps == [k \in 1..Count |-> [x \in Estimates |-> RelaxCell(k, x)]]
           F(f) == f = [c \in 0..Count |-> IF c = 0 THEN v
                                          ELSE CHOOSE t \in { RelaxCell(c, s) : s \in {f[c - 1]} } : TRUE]
           pass == CHOOSE f : F(f)
<1>1. \A k, x : (CHOOSE t \in { RelaxCell(k, s) : s \in {x} } : TRUE) = RelaxCell(k, x)
  BY Zenon
<1>2. steps \in [1..Count -> [Estimates -> Estimates]]
  <2>1. ASSUME NEW k \in 1..Count PROVE [x \in Estimates |-> RelaxCell(k, x)] \in [Estimates -> Estimates]
    <3>1. \A x \in Estimates : RelaxCell(k, x) \in Estimates
      BY Relaxed
    <3> QED
      BY <3>1
  <2> QED
    BY <2>1
<1>3. \A k \in 1..Count, x \in Estimates : steps[k][x] = RelaxCell(k, x)
  OBVIOUS
<1>4. PICK g \in [0..Count -> Estimates] : Recursive(g, Count, v, steps)
  <2> HIDE DEF steps, v
  <2>1. Count \in Nat /\ v \in Estimates
    BY DEF Netlist, v
  <2> QED
    BY <1>2, <2>1, RecursionExists, Zenon
<1> HIDE DEF steps, v
<1>5. F(g)
  <2>1. ASSUME NEW k \in 0..Count
        PROVE  g[k] = IF k = 0 THEN v ELSE CHOOSE t \in { RelaxCell(k, s) : s \in {g[k - 1]} } : TRUE
    <3>1. g[k] = IF k = 0 THEN v ELSE steps[k][g[k - 1]]
      BY <1>4 DEF Recursive
    <3>2. CASE k # 0
      <4>1. k \in 1..Count /\ g[k - 1] \in Estimates
        BY <3>2 DEF Netlist
      <4>2. g[k] = RelaxCell(k, g[k - 1])
        BY <1>3, <3>1, <3>2, <4>1
      <4> QED
        BY <1>1, <3>2, <4>2, Zenon
    <3> QED
      BY <3>1, <3>2
  <2> QED
    BY <2>1
<1>6. F(pass)
  BY <1>5, Zenon
<1> HIDE DEF pass
<1>7. pass[0] = v /\ \A k \in 1..Count : pass[k] = RelaxCell(k, pass[k - 1])
  <2>1. \A k \in 0..Count : pass[k] = IF k = 0 THEN v ELSE CHOOSE t \in { RelaxCell(k, s) : s \in {pass[k - 1]} } : TRUE
    BY <1>6, Zenon
  <2>2. 0 \in 0..Count /\ \A k \in 1..Count : k \in 0..Count /\ k # 0
    BY DEF Netlist
  <2>3. pass[0] = v
    BY <2>1, <2>2, Zenon
  <2>4. ASSUME NEW k \in 1..Count PROVE pass[k] = RelaxCell(k, pass[k - 1])
    BY <1>1, <2>1, <2>2, Zenon
  <2> QED
    BY <2>3, <2>4
<1>8. \A k \in 0..Count : pass[k] \in Estimates
  <2> DEFINE U == { k \in 0..Count : pass[k] \in Estimates }
  <2>1. 0 \in U
    BY <1>7 DEF Netlist, v
  <2>2. \A k \in 0 .. Count - 1 : k \in U => k + 1 \in U
    <3> SUFFICES ASSUME NEW k \in 0 .. Count - 1, pass[k] \in Estimates PROVE k + 1 \in U
      OBVIOUS
    <3>1. k + 1 \in 1..Count /\ k + 1 \in 0..Count /\ (k + 1) - 1 = k
      BY DEF Netlist
    <3>2. pass[k + 1] = RelaxCell(k + 1, pass[k])
      BY <1>7, <3>1
    <3>3. RelaxCell(k + 1, pass[k]) \in Estimates
      BY <3>1, Relaxed
    <3> QED
      BY <3>1, <3>2, <3>3
  <2> HIDE DEF U
  <2>3. 0..Count \subseteq U
    BY <2>1, <2>2, IntervalBySets DEF Netlist
  <2> QED
    BY <2>3 DEF U
<1>9. Pass(pass, v)
  <2>1. pass \in [0..Count -> Estimates]
    BY <1>6, <1>8
  <2> QED
    BY <1>7, <2>1 DEF Pass
<1>10. RelaxAll = pass[Count]
  BY Zenon DEF RelaxAll, pass, v
<1> QED
  BY <1>9, <1>10 DEF v

(* What a pass does, step after step.                                      *)
LEMMA PassAccounts ==
  ASSUME NEW f, NEW t \in Estimates, Pass(f, t), Netlist, OneDriverPerNet, Accounted(t)
  PROVE  f[Count] \in Estimates /\ Accounted(f[Count])
<1> DEFINE U == { k \in 0..Count : Accounted(f[k]) }
<1>1. 0 \in U
  BY DEF Pass, Netlist
<1>2. \A k \in 0 .. Count - 1 : k \in U => k + 1 \in U
  <2> SUFFICES ASSUME NEW k \in 0 .. Count - 1, Accounted(f[k]) PROVE k + 1 \in U
    OBVIOUS
  <2>1. k + 1 \in 1..Count /\ k + 1 \in 0..Count /\ (k + 1) - 1 = k /\ k \in 0..Count
    BY DEF Netlist
  <2>2. f[k + 1] = RelaxCell(k + 1, f[k]) /\ f[k] \in Estimates
    BY <2>1 DEF Pass
  <2>3. Accounted(RelaxCell(k + 1, f[k]))
    BY <2>1, <2>2, StepAccounts
  <2> QED
    BY <2>1, <2>2, <2>3
<1> HIDE DEF U
<1>3. 0..Count \subseteq U
  BY <1>1, <1>2, IntervalBySets DEF Netlist
<1>4. Count \in 0..Count
  BY DEF Netlist
<1> QED
  BY <1>3, <1>4 DEF U, Pass

LEMMA GrowsTransitive ==
  ASSUME NEW s \in Estimates, NEW t \in Estimates, NEW u \in Estimates,
         Grows(s.arr, t.arr), Grows(t.arr, u.arr)
  PROVE  Grows(s.arr, u.arr)
<1> SUFFICES ASSUME NEW net \in DOMAIN s.arr PROVE net \in DOMAIN u.arr /\ s.arr[net] <= u.arr[net]
  BY DEF Grows
<1>1. net \in DOMAIN t.arr /\ s.arr[net] <= t.arr[net]
  BY DEF Grows
<1>2. net \in DOMAIN u.arr /\ t.arr[net] <= u.arr[net]
  BY <1>1 DEF Grows
<1>3. s.arr[net] \in Nat /\ t.arr[net] \in Nat /\ u.arr[net] \in Nat
  BY <1>1, <1>2, Parts
<1> QED
  BY <1>1, <1>2, <1>3

LEMMA PassGrows ==
  ASSUME NEW f, NEW t \in Estimates, Pass(f, t), Netlist
  PROVE  \A k \in 0..Count : \A j \in 0..k : Grows(f[j].arr, f[k].arr)
<1> DEFINE U == { k \in 0..Count : \A j \in 0..k : Grows(f[j].arr, f[k].arr) }
<1>1. \A k \in 0..Count : f[k] \in Estimates /\ Grows(f[k].arr, f[k].arr)
  <2> SUFFICES ASSUME NEW k \in 0..Count PROVE f[k] \in Estimates /\ Grows(f[k].arr, f[k].arr)
    OBVIOUS
  <2>1. f[k] \in Estimates
    BY DEF Pass
  <2>2. \A net \in DOMAIN f[k].arr : f[k].arr[net] \in Nat
    BY <2>1, Parts
  <2> QED
    BY <2>1, <2>2 DEF Grows
<1>2. 0 \in U
  <2>1. \A j \in 0..0 : j = 0
    OBVIOUS
  <2>2. 0 \in 0..Count
    BY DEF Netlist
  <2> QED
    BY <1>1, <2>1, <2>2
<1>3. \A k \in 0 .. Count - 1 : k \in U => k + 1 \in U
  <2> SUFFICES ASSUME NEW k \in 0 .. Count - 1, \A j \in 0..k : Grows(f[j].arr, f[k].arr),
                      NEW j \in 0 .. k + 1
               PROVE  Grows(f[j].arr, f[k + 1].arr)
    BY DEF Netlist
  <2>1. /\ k + 1 \in 1..Count /\ k + 1 \in 0..Count /\ (k + 1) - 1 = k /\ k \in 0..Count
        /\ j \in 0..Count /\ (j = k + 1 \/ j \in 0..k)
    BY DEF Netlist
  <2>2. f[k + 1] = RelaxCell(k + 1, f[k])
    BY <2>1 DEF Pass
  <2>3. f[j] \in Estimates /\ f[k] \in Estimates /\ f[k + 1] \in Estimates
    BY <1>1, <2>1
  <2>4. Grows(f[k].arr, f[k + 1].arr)
    BY <2>1, <2>2, <2>3, StepGrows
  <2>5. CASE j = k + 1
    BY <1>1, <2>1, <2>5
  <2>6. CASE j \in 0..k
    BY <2>3, <2>4, <2>6, GrowsTransitive
  <2> QED
    BY <2>1, <2>5, <2>6
<1> HIDE DEF U
<1>4. 0..Count \subseteq U
  BY <1>2, <1>3, IntervalBySets DEF Netlist
<1> QED
  BY <1>4 DEF U

(* If a pass changes no arrival, all cells are settled.                    *)
LEMMA PassUnchanged ==
  ASSUME NEW f, NEW t \in Estimates, Pass(f, t), Netlist, f[Count].arr = t.arr
  PROVE  \A c \in 1..Count : UpToDate(c, t.arr)
<1>1. ASSUME NEW k \in 0..Count PROVE f[k].arr = t.arr /\ f[k] \in Estimates
  <2>1. 0 \in 0..k /\ k \in 0..Count /\ Count \in 0..Count
    BY DEF Netlist
  <2>2. f[0] = t /\ f[k] \in Estimates
    BY <2>1 DEF Pass
  <2>3. Grows(t.arr, f[k].arr) /\ Grows(f[k].arr, t.arr)
    BY <2>1, <2>2, PassGrows
  <2> DEFINE a == t.arr
             b == f[k].arr
  <2>4. a \in Arrivals /\ b \in Arrivals
    BY <2>2, Parts
  <2>5. (\A net \in DOMAIN a : a[net] \in Nat) /\ (\A net \in DOMAIN b : b[net] \in Nat)
    BY <2>2, Parts
  <2>6. Grows(a, b) /\ Grows(b, a)
    BY <2>3
  <2> HIDE DEF a, b
  <2>7. DOMAIN a = DOMAIN b /\ \A net \in DOMAIN a : a[net] = b[net]
    BY <2>5, <2>6 DEF Grows
  <2>8. PICK D \in SUBSET Outs : a \in [D -> Nat]
    BY <2>4 DEF Arrivals
  <2>9. PICK E \in SUBSET Outs : b \in [E -> Nat]
    BY <2>4 DEF Arrivals
  <2>10. E = D
    BY <2>7, <2>8, <2>9
  <2>11. b \in [D -> Nat] /\ \A net \in D : a[net] = b[net]
    BY <2>7, <2>8, <2>9, <2>10
  <2>12. a = b
    BY <2>8, <2>11
  <2> QED
    BY <2>2, <2>12 DEF a, b
<1> SUFFICES ASSUME NEW c \in 1..Count PROVE UpToDate(c, t.arr)
  OBVIOUS
<1>2. c - 1 \in 0..Count /\ c \in 0..Count
  BY DEF Netlist
<1> DEFINE s == f[c - 1]
           u == f[c]
<1>3. s \in Estimates /\ s.arr = t.arr /\ u.arr = t.arr /\ u = RelaxCell(c, s)
  BY <1>1, <1>2 DEF Pass
<1> HIDE DEF s, u
<1>4. (u = s /\ UpToDate(c, s.arr)) \/ Raised(c, s, u)
  BY <1>3, Relaxed
<1>5. ~Raised(c, s, u)
  <2> SUFFICES ASSUME Raised(c, s, u) PROVE FALSE
    OBVIOUS
  <2>1. Out(c) \in DOMAIN t.arr
    BY <1>3 DEF Raised
  <2>2. t.arr[Out(c)] < t.arr[Out(c)]
    BY <1>3, <2>1 DEF Raised
  <2>3. t.arr[Out(c)] \in Nat
    BY <2>1, Parts
  <2> QED
    BY <2>2, <2>3
<1> QED
  BY <1>3, <1>4, <1>5

(* A pass keeps settled cells so, and settles those that they drive.       *)
LEMMA PassSettles ==
  ASSUME NEW f, NEW t \in Estimates, Pass(f, t), Netlist, OneDriverPerNet,
         NEW L \in SUBSET (1..Count), \A c \in L : Sequential(c) \/ Feeds(c) \subseteq L,
         \A c \in L : UpToDate(c, t.arr),
         NEW c \in 1..Count, Sequential(c) \/ Feeds(c) \subseteq L
  PROVE  UpToDate(c, f[Count].arr)
<1> DEFINE Good(k) == \A e \in 1..Count :
                        (e \in L \/ e <= k) /\ Feeds(e) \subseteq L => UpToDate(e, f[k].arr)
           U == { k \in 0..Count : Good(k) }
<1>1. 0 \in U
  <2>1. \A e \in 1..Count : ~(e <= 0)
    BY DEF Netlist
  <2> QED
    BY <2>1 DEF Pass, Netlist
<1>2. \A k \in 0 .. Count - 1 : k \in U => k + 1 \in U
  <2> SUFFICES ASSUME NEW k \in 0 .. Count - 1, Good(k),
                      NEW e \in 1..Count, e \in L \/ e <= k + 1, Feeds(e) \subseteq L
               PROVE  UpToDate(e, f[k + 1].arr)
    BY DEF Netlist
  <2>1. /\ k + 1 \in 1..Count /\ (k + 1) - 1 = k /\ k \in 0..Count
        /\ (e <= k + 1 => e <= k \/ e = k + 1)
    BY DEF Netlist
  <2>2. f[k + 1] = RelaxCell(k + 1, f[k]) /\ f[k] \in Estimates
    BY <2>1 DEF Pass
  <2>3. \A d \in L : UpToDate(d, f[k].arr)
    BY DEF UpToDate
  <2>4. UpToDate(e, f[k].arr) \/ e = k + 1
    BY <2>1
  <2> HIDE DEF Good
  <2>5. UpToDate(e, RelaxCell(k + 1, f[k]).arr)
    BY <2>1, <2>2, <2>3, <2>4, StepSettles
  <2> QED
    BY <2>2, <2>5
<1> HIDE DEF U
<1>3. 0..Count \subseteq U
  BY <1>1, <1>2, IntervalBySets DEF Netlist
<1>4. Count \in 0..Count /\ c <= Count
  BY DEF Netlist
<1>5. Good(Count)
  BY <1>3, <1>4 DEF U
<1>6. CASE Sequential(c)
  BY <1>6 DEF UpToDate
<1>7. CASE Feeds(c) \subseteq L
  BY <1>4, <1>5, <1>7
<1> QED
  BY <1>6, <1>7

-----------------------------------------------------------------------------
(* The cells that a number of passes settles: those whose drivers the      *)
(* passes before have settled.                                             *)
Levels(L) ==
  /\ L[0] = {}
  /\ \A k \in 1..Count : L[k] = L[k - 1] \cup { c \in 1..Count : Sequential(c) \/ Feeds(c) \subseteq L[k - 1] }

LEMMA LevelsClosed ==
  ASSUME Count \in Nat, NEW L, Levels(L)
  PROVE  \A k \in 0..Count :
           L[k] \in SUBSET (1..Count) /\ \A c \in L[k] : Sequential(c) \/ Feeds(c) \subseteq L[k]
<1> DEFINE Closed(S) == S \in SUBSET (1..Count) /\ \A c \in S : Sequential(c) \/ Feeds(c) \subseteq S
           U == { k \in 0..Count : Closed(L[k]) }
<1>1. 0 \in U
  BY DEF Levels
<1>2. \A k \in 0 .. Count - 1 : k \in U => k + 1 \in U
  <2> SUFFICES ASSUME NEW k \in 0 .. Count - 1, Closed(L[k]) PROVE k + 1 \in U
    OBVIOUS
  <2>1. k + 1 \in 1..Count /\ k + 1 \in 0..Count /\ (k + 1) - 1 = k
    OBVIOUS
  <2>2. L[k + 1] = L[k] \cup { c \in 1..Count : Sequential(c) \/ Feeds(c) \subseteq L[k] }
    BY <2>1 DEF Levels
  <2>3. Closed(L[k + 1])
    BY <2>2
  <2> QED
    BY <2>1, <2>3
<1> HIDE DEF U
<1>3. 0..Count \subseteq U
  BY <1>1, <1>2, IntervalBySets
<1> QED
  BY <1>3 DEF U

(* The model takes the cells of a design away in these levels.             *)
LEMMA GoneUnfolds ==
  ASSUME Count \in Nat
  PROVE  \E L : Levels(L) /\ Gone = L[Count]
<1> DEFINE feeds(c) == { d \in 1..Count : ~Sequential(d) /\ \E p \in 1..Len(insts[c].in) : insts[c].in[p] = insts[d].out }
           Add(g) == g \cup { c \in 1..Count : Sequential(c) \/ feeds(c) \subseteq g }
           T == SUBSET (1..Count)
           steps == [k \in 1..Count |-> [g \in T |-> Add(g)]]
           F(f) == f = [k \in 0..Count |-> IF k = 0 THEN {} ELSE CHOOSE s \in { Add(g) : g \in {f[k - 1]} } : TRUE]
           levels == CHOOSE f : F(f)
<1>1. \A x : (CHOOSE s \in { Add(g) : g \in {x} } : TRUE) = Add(x)
  <2> HIDE DEF Add
  <2> QED
    BY Zenon
<1>2. \A g : Add(g) = g \cup { c \in 1..Count : Sequential(c) \/ Feeds(c) \subseteq g }
  BY Zenon DEF Feeds, In, Ins, Out
<1>3. Gone = levels[Count]
  BY Zenon DEF Gone
<1>4. steps \in [1..Count -> [T -> T]]
  <2>1. \A g \in T : Add(g) \in T
    OBVIOUS
  <2> HIDE DEF Add, T
  <2>2. [g \in T |-> Add(g)] \in [T -> T]
    BY <2>1
  <2> QED
    BY <2>2
<1> HIDE DEF Add
<1>5. \A k \in 1..Count, x \in T : steps[k][x] = Add(x)
  OBVIOUS
<1>6. {} \in T
  OBVIOUS
<1> HIDE DEF T, steps
<1>7. PICK g \in [0..Count -> T] : Recursive(g, Count, {}, steps)
  BY <1>4, <1>6, RecursionExists, Zenon
<1>8. F(g)
  <2>1. ASSUME NEW k \in 0..Count
        PROVE  g[k] = IF k = 0 THEN {} ELSE CHOOSE s \in { Add(x) : x \in {g[k - 1]} } : TRUE
    <3>1. g[k] = IF k = 0 THEN {} ELSE steps[k][g[k - 1]]
      BY <1>7 DEF Recursive
    <3>2. CASE k # 0
      <4>1. k \in 1..Count /\ g[k - 1] \in T
        BY <3>2
      <4>2. g[k] = Add(g[k - 1])
        BY <1>5, <3>1, <3>2, <4>1
      <4> QED
        BY <1>1, <3>2, <4>2, Zenon
    <3> QED
      BY <3>1, <3>2
  <2> QED
    BY <2>1
<1>9. F(levels)
  BY <1>8, Zenon
<1> HIDE DEF levels
<1>10. Levels(levels)
  <2>1. \A k \in 0..Count : levels[k] = IF k = 0 THEN {} ELSE CHOOSE s \in { Add(x) : x \in {levels[k - 1]} } : TRUE
    BY <1>9, Zenon
  <2>2. 0 \in 0..Count /\ \A k \in 1..Count : k \in 0..Count /\ k # 0
    OBVIOUS
  <2>3. levels[0] = {}
    BY <2>1, <2>2, Zenon
  <2>4. ASSUME NEW k \in 1..Count PROVE levels[k] = Add(levels[k - 1])
    BY <1>1, <2>1, <2>2, Zenon
  <2> QED
    BY <1>2, <2>3, <2>4 DEF Levels
<1> QED
  BY <1>3, <1>10

-----------------------------------------------------------------------------
(* The estimate after i passes.                                            *)
Settling ==
  \A L : Levels(L) => \A k \in 0..Count : k <= i => \A c \in L[k] : UpToDate(c, arrival)

(* The passes have ended.                                                  *)
AllSettled ==
  \/ \A c \in 1..Count : UpToDate(c, arrival)
  \/ \A L : Levels(L) => \A c \in L[Count] : UpToDate(c, arrival)

Estimate == [arr |-> arrival, how |-> how]

TimingInv ==
  /\ stage \in {"start", "measure", "shuffle", "place"} => how = Empty
  /\ stage \in {"time", "timed"} /\ OneDriverPerNet =>
       /\ Estimate \in Estimates /\ Accounted(Estimate)
       /\ stage = "time" => Settling
       /\ stage = "timed" => AllSettled

(* With every cell in its place, and one driver for every net, the lengths *)
(* of all ways are known.                                                  *)
LEMMA WaysKnown ==
  ASSUME PlacementInv, CountingInv, OneDriverPerNet, Placed = 1..Count
  PROVE  WaysOK
<1> SUFFICES ASSUME NEW c \in 1..Count, NEW p \in Ins(c) PROVE Way(<<c, p>>) \in Nat
  BY DEF WaysOK
<1>1. ASSUME NEW d \in 1..Count PROVE Center(d).x \in Int /\ Center(d).y \in Int
  <2>1. d \in Placed
    OBVIOUS
  <2>2. PICK r \in DOMAIN rowX : cells[d].x \in Int /\ cells[d].y = Margin + r * RowH
    BY <2>1 DEF PlacementInv, BehindCursors, LeftOfCursor
  <2>3. r \in Int /\ Margin \in Int /\ RowH \in Int
    BY DEF PlacementInv, RowsOK, Margin, RowH
  <2>4. cells[d].y \in Int
    BY <2>2, <2>3
  <2>5. CellWidth(insts[d].cell) \div 2 \in Int /\ RowH \div 2 \in Int
    BY Widths, <2>3 DEF RowH
  <2>6. Center(d) = [x |-> cells[d].x + CellWidth(insts[d].cell) \div 2, y |-> cells[d].y + RowH \div 2]
    BY DEF Center, Middle
  <2> QED
    BY <2>2, <2>4, <2>5, <2>6
<1>2. ASSUME NEW a, NEW b, a.x \in Int, a.y \in Int, b.x \in Int, b.y \in Int
      PROVE  2 * Manhattan(a, b) \in Nat
  <2>1. \A m, n \in Int : Apart(m, n) \in Nat
    BY DEF Apart
  <2>2. Apart(a.x, b.x) \in Nat /\ Apart(a.y, b.y) \in Nat
    BY <1>2, <2>1
  <2> QED
    BY <2>2 DEF Manhattan
<1> DEFINE pin == <<c, p>>
<1>3. To(pin) = Center(c)
  BY OneDriver DEF To
<1>4. CASE Drivers(NetAt(pin)) # {}
  <2>1. PICK d \in 1..Count : insts[d].out = NetAt(pin)
    BY <1>4 DEF Drivers
  <2>2. From(pin) = Center(d)
    BY <2>1, OneDriver DEF From
  <2>3. 2 * Manhattan(From(pin), To(pin)) \in Nat
    BY <1>1, <1>2, <1>3, <2>2
  <2> HIDE DEF pin
  <2> QED
    BY <1>4, <2>3 DEF Way, pin
<1>5. CASE Drivers(NetAt(pin)) = {}
  BY <1>5 DEF Way
<1> QED
  BY <1>4, <1>5

(* What the estimate depends on.                                           *)
LEMMA SameNets ==
  ASSUME UNCHANGED <<insts, cells>>
  PROVE  /\ \A c, arr : UpToDate(c, arr)' <=> UpToDate(c, arr)
         /\ \A t : Accounted(t)' <=> Accounted(t)
         /\ \A L : Levels(L)' <=> Levels(L)
         /\ Estimates' = Estimates /\ Count' = Count
         /\ OneDriverPerNet' <=> OneDriverPerNet
<1>1. \A net : Drivers(net)' = Drivers(net)
  BY DEF Drivers, Count
<1>2. \A net : DriverOf(net)' = DriverOf(net)
  BY <1>1 DEF DriverOf
<1>3. \A c : Center(c)' = Center(c)
  BY DEF Center, Middle
<1>4. \A pin : From(pin)' = From(pin) /\ To(pin)' = To(pin)
  BY <1>2, <1>3, Zenon DEF From, To, NetAt
<1>5. \A pin : NetAt(pin)' = NetAt(pin)
  BY DEF NetAt
<1>6. \A pin : Way(pin)' = Way(pin)
  BY <1>1, <1>4, <1>5, Zenon DEF Way
<1>7. \A c, p, arr : Late(c, p, arr)' = Late(c, p, arr)
  BY <1>6, Zenon DEF Late, Lag, In
<1>8. /\ \A c : Out(c)' = Out(c) /\ Ins(c)' = Ins(c) /\ (Sequential(c)' <=> Sequential(c))
      /\ \A c, p : In(c, p)' = In(c, p)
      /\ Count' = Count
  BY DEF Out, Ins, Sequential, In, Count
<1>9. \A c, arr : UpToDate(c, arr)' <=> UpToDate(c, arr)
  BY <1>7, <1>8, Zenon DEF UpToDate
<1>10. \A t : Accounted(t)' <=> Accounted(t)
  <2>1. \A c, t : Caused(c, t)' <=> Caused(c, t)
    BY <1>7, <1>8 DEF Caused
  <2>2. \A t : CausesNamed(t)' <=> CausesNamed(t)
    BY <1>8 DEF CausesNamed
  <2> QED
    BY <1>8, <2>1, <2>2 DEF Accounted
<1>11. \A c : Feeds(c)' = Feeds(c)
  BY <1>8 DEF Feeds
<1>12. \A L : Levels(L)' <=> Levels(L)
  BY <1>8, <1>11 DEF Levels
<1>13. Estimates' = Estimates
  <2>1. Outs' = Outs /\ Inputs' = Inputs
    BY <1>8 DEF Outs, Inputs
  <2> QED
    BY <2>1 DEF Estimates, Arrivals, Causes
<1>14. OneDriverPerNet' <=> OneDriverPerNet
  BY <1>8 DEF OneDriverPerNet
<1> QED
  BY <1>8, <1>9, <1>10, <1>12, <1>13, <1>14

LEMMA TimingInit == PhysInit => TimingInv
BY DEF PhysInit, TimingInv

(* The estimate begins with the outputs of the flip-flops.                 *)
LEMMA TimingBegins ==
  ASSUME CountingInv, TimingInv, Route
  PROVE  TimingInv'
<1>1. UNCHANGED <<insts, cells>> /\ how' = Empty /\ i' = 0 /\ stage' = "time"
  BY DEF Route, Goto, PlacementDone, TimingInv
<1>2. arrival' = [net \in { insts[c].out : c \in { d \in 1..Count : Sequential(d) } } |-> 0]
  BY DEF Route
<1> DEFINE clocked == { insts[c].out : c \in { d \in 1..Count : Sequential(d) } }
           t == Estimate'
<1>3. arrival' \in [clocked -> Nat] /\ clocked \in SUBSET Outs
  BY <1>2 DEF Outs, Out
<1>4. t \in Estimates
  <2>1. arrival' \in Arrivals
    BY <1>3 DEF Arrivals
  <2>2. Empty \in [{} -> Inputs] /\ {} \in SUBSET Outs
    BY DEF Empty
  <2>3. Empty \in Causes
    <3> HIDE DEF Empty
    <3> QED
      BY <2>2 DEF Causes
  <2> QED
    BY <1>1, <2>1, <2>3 DEF Estimate, Estimates
<1>5. ASSUME OneDriverPerNet PROVE Accounted(t)
  <2>1. t.arr = arrival' /\ t.how = Empty
    BY <1>1 DEF Estimate
  <2>2. DOMAIN t.how = {}
    BY <2>1 DEF Empty
  <2>3. ASSUME NEW c \in 1..Count, Out(c) \in DOMAIN t.arr PROVE Sequential(c)
    BY <1>2, <1>5, <2>1, <2>3 DEF OneDriverPerNet, Out
  <2> HIDE DEF t
  <2> QED
    BY <2>2, <2>3 DEF Accounted, CausesNamed, Caused
<1>6. Settling'
  <2> SUFFICES ASSUME NEW L, Levels(L)', NEW k \in (0..Count)', k <= i', NEW c \in L[k]
               PROVE  UpToDate(c, arrival)'
    BY DEF Settling
  <2>1. k = 0
    BY <1>1, SameNets DEF CountingInv, OrderOK
  <2>2. L[0] = {}
    BY <1>1, SameNets DEF Levels
  <2> QED
    BY <2>1, <2>2
<1>7. OneDriverPerNet' => Accounted(Estimate)'
  BY <1>1, <1>5, SameNets
<1>8. (Estimate \in Estimates)'
  BY <1>1, <1>4, SameNets
<1> QED
  BY <1>1, <1>6, <1>7, <1>8 DEF TimingInv

(* A pass settles one more level.                                          *)
LEMMA TimingPasses ==
  ASSUME PlacementInv, CountingInv, WiresInv, TimingInv, Relax
  PROVE  TimingInv'
<1>1. /\ UNCHANGED <<insts, cells>> /\ stage = "time" /\ i' = i + 1
      /\ arrival' = RelaxAll.arr /\ how' = RelaxAll.how
      /\ IF arrival' = arrival THEN stage' = "timed" ELSE stage' = "time"
  BY DEF Relax
<1> SUFFICES ASSUME OneDriverPerNet
             PROVE  /\ (Estimate \in Estimates)' /\ Accounted(Estimate)'
                    /\ (stage = "time")' => Settling'
                    /\ (stage = "timed")' => AllSettled'
  BY <1>1, SameNets DEF TimingInv
<1>2. Estimate \in Estimates /\ Accounted(Estimate) /\ Settling
  BY <1>1 DEF TimingInv
<1>3. Count \in Nat /\ i \in Int
  BY DEF CountingInv, OrderOK
<1>4. Netlist
  <2>1. WaysOK
    BY <1>1, WaysKnown DEF CountingInv, OneCellPerTurn
  <2> QED
    BY <1>3, <2>1 DEF Netlist, WiresInv
<1>5. PICK f : Pass(f, Estimate) /\ RelaxAll = f[Count]
  BY <1>2, <1>4, RelaxationUnfolds DEF Estimate
<1> DEFINE t == Estimate
           u == f[Count]
<1>6. u \in Estimates /\ Accounted(u)
  BY <1>2, <1>4, <1>5, PassAccounts
<1>7. Estimate' = u /\ arrival' = u.arr /\ arrival = t.arr
  <2>1. u = [arr |-> u.arr, how |-> u.how]
    BY <1>6, Parts
  <2> HIDE DEF u
  <2> QED
    BY <1>1, <1>5, <2>1 DEF Estimate, u
<1> HIDE DEF t, u
<1>8. (Estimate \in Estimates)' /\ Accounted(Estimate)'
  BY <1>1, <1>6, <1>7, SameNets
<1>9. Settling'
  <2> SUFFICES ASSUME NEW L, Levels(L)', NEW k \in (0..Count)', k <= i', NEW c \in L[k]
               PROVE  UpToDate(c, arrival)'
    BY DEF Settling
  <2>1. Levels(L) /\ k \in 0..Count
    BY <1>1, SameNets
  <2>2. k # 0
    BY <2>1 DEF Levels
  <2>3. k \in 1..Count /\ k - 1 \in 0..Count /\ k - 1 <= i
    BY <1>1, <1>3, <2>1, <2>2
  <2>4. \A d \in L[k - 1] : UpToDate(d, t.arr)
    BY <1>2, <1>7, <2>1, <2>3 DEF Settling
  <2>5. L[k - 1] \in SUBSET (1..Count) /\ \A d \in L[k - 1] : Sequential(d) \/ Feeds(d) \subseteq L[k - 1]
    BY <1>3, <2>1, <2>3, LevelsClosed
  <2>6. c \in 1..Count /\ (Sequential(c) \/ Feeds(c) \subseteq L[k - 1])
    BY <2>1, <2>3, <2>5 DEF Levels
  <2>7. t \in Estimates /\ Pass(f, t)
    BY <1>2, <1>5 DEF t
  <2>8. UpToDate(c, f[Count].arr)
    BY <1>4, <2>4, <2>5, <2>6, <2>7, PassSettles
  <2> QED
    BY <1>1, <1>7, <2>8, SameNets DEF u
<1>10. ASSUME arrival' = arrival PROVE AllSettled'
  <2>1. t \in Estimates /\ Pass(f, t) /\ f[Count].arr = t.arr
    BY <1>2, <1>5, <1>7, <1>10 DEF t, u
  <2>2. \A c \in 1..Count : UpToDate(c, t.arr)
    BY <1>4, <2>1, PassUnchanged
  <2>3. \A c \in (1..Count)' : UpToDate(c, arrival)'
    BY <1>1, <1>7, <1>10, <2>2, SameNets
  <2> QED
    BY <2>3 DEF AllSettled
<1> QED
  BY <1>1, <1>8, <1>9, <1>10

LEMMA TimingNext ==
  PlacementInv /\ CountingInv /\ WiresInv /\ TimingInv /\ [PhysNext]_physVars => TimingInv'
<1> SUFFICES ASSUME PlacementInv, CountingInv, WiresInv, TimingInv, [PhysNext]_physVars
             PROVE  TimingInv'
  OBVIOUS
<1>1. ASSUME stage' = "done" PROVE TimingInv'
  BY <1>1 DEF TimingInv
<1>2. ASSUME stage \in {"start", "measure", "shuffle", "place"}, how' = how,
             stage' \in {"start", "measure", "shuffle", "place"}
      PROVE  TimingInv'
  BY <1>2 DEF TimingInv
<1>3. CASE OpenLayout \/ CannotReadDesign \/ CompileOnly \/ RefuseMapping \/ ReportMapping \/ NothingToPlace
  BY <1>1, <1>3 DEF OpenLayout, CannotReadDesign, CompileOnly, RefuseMapping, ReportMapping, NothingToPlace, Exit
<1>4. CASE ReportPlacement \/ ReportDesign \/ CannotWriteLayout
  BY <1>1, <1>4 DEF ReportPlacement, ReportDesign, CannotWriteLayout, Exit
<1>5. CASE WriteLayout
  BY <1>1, <1>5 DEF WriteLayout
<1>6. CASE BeginPlacement
  BY <1>2, <1>6 DEF BeginPlacement, ForAsic, OfDesign, Goto, resultVars
<1>7. CASE MeasureCell \/ Floorplan
  BY <1>2, <1>7 DEF MeasureCell, Floorplan, Goto, resultVars
<1>8. CASE Shuffle \/ Shuffled
  BY <1>2, <1>8 DEF Shuffle, Shuffled, Goto, resultVars
<1>9. CASE Place
  BY <1>2, <1>9 DEF Place, resultVars
<1>10. CASE Route
  BY <1>10, TimingBegins
<1>11. CASE Relax
  BY <1>11, TimingPasses
<1>12. CASE RelaxStops
  <2>1. /\ UNCHANGED <<insts, cells, arrival, how>> /\ stage = "time" /\ stage' = "timed" /\ ~(i < Count + 1)
    BY <1>12 DEF RelaxStops, Goto, placeVars, resultVars, Passes
  <2>2. Count \in 0..Count /\ Count <= i
    BY <2>1 DEF CountingInv, OrderOK
  <2>3. ASSUME OneDriverPerNet PROVE AllSettled'
    <3>1. Settling
      BY <2>1, <2>3 DEF TimingInv
    <3>2. ASSUME NEW L, Levels(L), NEW c \in L[Count] PROVE UpToDate(c, arrival)
      BY <2>2, <3>1, <3>2 DEF Settling
    <3>3. ASSUME NEW L, Levels(L)', NEW c \in L[Count'] PROVE UpToDate(c, arrival)'
      BY <2>1, <3>2, <3>3, SameNets
    <3> QED
      BY <3>3 DEF AllSettled
  <2>4. Estimate' = Estimate
    BY <2>1 DEF Estimate
  <2> QED
    BY <2>1, <2>3, <2>4, SameNets DEF TimingInv
<1>13. CASE UNCHANGED physVars
  <2>1. UNCHANGED <<insts, cells, arrival, how, stage, i>>
    BY <1>13 DEF physVars, placeVars, resultVars
  <2>2. Estimate' = Estimate
    BY <2>1 DEF Estimate
  <2>3. Settling => Settling'
    BY <2>1, SameNets DEF Settling
  <2>4. AllSettled => AllSettled'
    BY <2>1, SameNets DEF AllSettled
  <2> QED
    BY <2>1, <2>2, <2>3, <2>4, SameNets DEF TimingInv
<1> QED
  BY <1>3, <1>4, <1>5, <1>6, <1>7, <1>8, <1>9, <1>10, <1>11, <1>12, <1>13 DEF PhysNext

(* The wait of a pin depends on its net alone.                             *)
LEMMA SameInput ==
  ASSUME NEW c, NEW p, NEW q, In(c, p) = In(c, q), NEW arr
  PROVE  PinArrival(<<c, p>>, arr) = PinArrival(<<c, q>>, arr)
<1>1. NetAt(<<c, p>>) = NetAt(<<c, q>>)
  BY DEF NetAt, In
<1>2. From(<<c, p>>) = From(<<c, q>>) /\ To(<<c, p>>) = To(<<c, q>>)
  BY <1>1, Zenon DEF From, To
<1> QED
  BY <1>1, <1>2, Zenon DEF PinArrival

(* What the bounded passes in the order of the netlist compute is the      *)
(* longest path, for every netlist without loops and every placement.      *)
THEOREM EstimateIsExact == PhysSpec => []TimingIsLongestPath
<1>1. PlacementInv /\ CountingInv /\ WiresInv /\ TimingInv => TimingIsLongestPath
  <2> SUFFICES ASSUME PlacementInv, CountingInv, WiresInv, TimingInv, stage = "timed", OneDriverPerNet, LoopFree
               PROVE  TimingIsLongestPath
    BY DEF TimingIsLongestPath, Timed
  <2>1. Estimate \in Estimates /\ Accounted(Estimate) /\ AllSettled /\ Count \in Nat
    BY DEF TimingInv, CountingInv, OrderOK
  <2>2. Netlist
    BY <2>1, WaysKnown DEF CountingInv, OneCellPerTurn, Netlist, WiresInv
  <2>3. \A c \in 1..Count : UpToDate(c, arrival)
    <3>1. PICK L : Levels(L) /\ Gone = L[Count]
      BY <2>1, GoneUnfolds
    <3> QED
      BY <2>1, <3>1 DEF AllSettled, LoopFree
  <2>4. Estimate.arr = arrival /\ Estimate.how = how
    BY DEF Estimate
  <2>5. \A net \in DOMAIN arrival : arrival[net] \in Nat
    BY <2>1, <2>4, Parts
  <2>6. ASSUME NEW c \in 1..Count, NEW p \in Ins(c)
        PROVE  /\ Late(c, p, arrival) = PinArrival(<<c, p>>, arrival) + Delay(insts[c].cell)
               /\ PinArrival(<<c, p>>, arrival) \in Nat
    <3>1. PinArrival(<<c, p>>, arrival) = Known(In(c, p), arrival) + Way(<<c, p>>)
      BY DEF PinArrival, In, Way, NetAt
    <3>2. Known(In(c, p), arrival) \in Nat
      BY <2>1, <2>4, KnownNat
    <3>3. Way(<<c, p>>) \in Nat /\ Delay(insts[c].cell) \in Nat
      BY <2>2, Delays DEF Netlist, WaysOK
    <3>4. Late(c, p, arrival) = Known(In(c, p), arrival) + (Way(<<c, p>>) + Delay(insts[c].cell))
      BY DEF Late, Lag
    <3> QED
      BY <3>1, <3>2, <3>3, <3>4
  <2>7. ASSUME NEW c \in 1..Count, ~Sequential(c)
        PROVE  /\ Out(c) \in DOMAIN arrival
               /\ \A p \in Ins(c) : Late(c, p, arrival) <= arrival[Out(c)]
               /\ \E p \in Ins(c) : how[Out(c)] = In(c, p) /\ arrival[Out(c)] <= Late(c, p, arrival)
    BY <2>1, <2>3, <2>4, <2>7 DEF UpToDate, Accounted, Caused
  <2>8. ASSUME NEW c \in 1..Count, ~Sequential(c)
        PROVE  \E p \in Ins(c) : /\ how[Out(c)] = In(c, p)
                                /\ arrival[Out(c)] = PinArrival(<<c, p>>, arrival) + Delay(insts[c].cell)
    <3>1. PICK p \in Ins(c) : how[Out(c)] = In(c, p) /\ arrival[Out(c)] <= Late(c, p, arrival)
      BY <2>7, <2>8
    <3>2. Late(c, p, arrival) <= arrival[Out(c)] /\ arrival[Out(c)] \in Nat
      BY <2>5, <2>7, <2>8
    <3>3. /\ Late(c, p, arrival) = PinArrival(<<c, p>>, arrival) + Delay(insts[c].cell)
          /\ PinArrival(<<c, p>>, arrival) \in Nat /\ Delay(insts[c].cell) \in Nat
      BY <2>6, Delays
    <3> QED
      BY <3>1, <3>2, <3>3
  <2>9. ASSUME NEW c \in 1..Count, ~Sequential(c)
        PROVE  LET at == { PinArrival(<<c, p>>, arrival) : p \in 1..Len(insts[c].in) } IN
               /\ arrival[insts[c].out] - Delay(insts[c].cell) \in at
               /\ \A t \in at : t <= arrival[insts[c].out] - Delay(insts[c].cell)
    <3> DEFINE a == arrival[Out(c)]
               d == Delay(insts[c].cell)
    <3>1. PICK p \in Ins(c) : a = PinArrival(<<c, p>>, arrival) + d
      BY <2>8, <2>9
    <3>2. \A q \in Ins(c) : /\ PinArrival(<<c, q>>, arrival) \in Nat
                            /\ PinArrival(<<c, q>>, arrival) + d <= a
      BY <2>6, <2>7, <2>9
    <3>3. d \in Nat /\ a \in Nat
      BY <2>5, <2>7, <2>9, Delays
    <3> HIDE DEF a, d
    <3>4. a - d = PinArrival(<<c, p>>, arrival)
      BY <3>1, <3>2, <3>3
    <3>5. \A q \in Ins(c) : PinArrival(<<c, q>>, arrival) <= a - d
      BY <3>2, <3>3
    <3> QED
      BY <3>1, <3>4, <3>5 DEF a, d, Out, Ins
  <2>10. ASSUME NEW net \in DOMAIN how
         PROVE  LET c == DriverOf(net)
                    p == CHOOSE p \in 1..Len(insts[c].in) : insts[c].in[p] = how[net]
                IN  arrival[net] = PinArrival(<<c, p>>, arrival) + Delay(insts[c].cell)
    <3>1. PICK c \in 1..Count : ~Sequential(c) /\ net = Out(c)
      BY <2>1, <2>4 DEF Accounted, CausesNamed
    <3>2. DriverOf(net) = c
      BY <3>1, OneDriver DEF Out
    <3>3. PICK p \in Ins(c) : how[net] = In(c, p) /\ arrival[net] = PinArrival(<<c, p>>, arrival) + Delay(insts[c].cell)
      BY <2>8, <3>1
    <3> DEFINE q == CHOOSE x \in 1..Len(insts[c].in) : insts[c].in[x] = how[net]
    <3>4. In(c, q) = how[net]
      BY <3>3, Zenon DEF In, Ins
    <3> HIDE DEF q
    <3>5. PinArrival(<<c, q>>, arrival) = PinArrival(<<c, p>>, arrival)
      BY <3>3, <3>4, SameInput
    <3> QED
      BY <3>2, <3>3, <3>5, Zenon DEF q
  <2> QED
    BY <2>9, <2>10 DEF TimingIsLongestPath
<1> QED
  BY <1>1, PlacementInit, PlacementNext, CountingInit, CountingNext, WiresInit, WiresNext,
     TimingInit, TimingNext, PTL DEF PhysSpec
=============================================================================
