SPECIFICATION BoardSpec
CONSTANTS
  Lanes <- MCLanes
  Decimal <- MCDecimal
  UserDesigns <- MCUserDesigns
  Demos <- MCDemos
  CoreSize <- MCCoreSize
  Compiled <- MCCompiled
  Debris <- MCDebris
  Vios <- MCVios
  Gpios <- MCGpios
INVARIANTS
  PinsFollowMappings
PROPERTIES
  
  LedBlinks
