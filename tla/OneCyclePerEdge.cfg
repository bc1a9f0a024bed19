SPECIFICATION ToolSpec
CONSTANTS
  Lanes <- MCLanes
  Decimal <- MCDecimal
  Durations <- MCDurations
  CommandLines <- SharedLines
  IndexOf <- MCIndexOf
  Loaded <- MCLoaded
  Testbenches <- MCTestbenches
  Statements <- MCStatements
  FarBits <- MCFarBits
  EdgeCap = 4
CHECK_DEADLOCK FALSE
PROPERTIES
  OneDesignCyclePerRisingEdge
