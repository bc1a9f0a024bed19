SPECIFICATION FairSpec
CONSTANTS
  Lanes <- MCLanes
  Sizes <- MCSizes
  Configs <- MCConfigs
  InputWords <- MCInputWords
  MaxCycles = 2
  Debris <- MCDebris
INVARIANTS
  TypeOK
  NoLeak
  InertWithoutBuffers
  AccessesInBounds
PROPERTIES
  PassSettles
  EdgeIsSimultaneous
  ImplementsCircuit
  LoopsTerminate
