SPECIFICATION PhysSpec
CONSTANTS
  Lanes <- MCLanes
  Decimal <- MCDecimal
  PhysicalLines <- MCPhysicalLines
CHECK_DEADLOCK FALSE
INVARIANTS
  PlacementIsLegal
  GreedyFits
  BuildMeansConnected
  TimingIsLongestPath
PROPERTIES
  PhysicalEnds
