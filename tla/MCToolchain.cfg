SPECIFICATION ToolSpec
CONSTANTS
  Lanes <- MCLanes
  Decimal <- MCDecimal
  Durations <- MCDurations
  CommandLines <- MCCommandLines
  IndexOf <- MCIndexOf
  Loaded <- MCLoaded
  Testbenches <- MCTestbenches
  Statements <- MCStatements
  FarBits <- MCFarBits
  EdgeCap = 4
CHECK_DEADLOCK FALSE
INVARIANTS
  ToolTypeOK
  CyclesFollowTheClock
  TraceFollowsTheNets
  ShippedTestbenchesPass
  ZeroMeansPassed
  AutoRunsTheCycles
  WaveShowsTheTrace
  EmittedVerilogReadsBack
PROPERTIES
  TimeNeverGoesBack
  RegistersAreEdgeTriggered
  TestbenchMeansItsText
  ImplementsText
  CommandEnds
