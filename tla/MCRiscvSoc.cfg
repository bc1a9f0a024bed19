SPECIFICATION SocSpec
CONSTANTS
  Lanes <- MCLanes
  Scripts <- MCScripts
  RamSize = 65536
  Strays <- MCStrays
CHECK_DEADLOCK FALSE
INVARIANTS
  SocTypeOK
  YIsLookup
  ScriptsEndAsExpected
PROPERTIES
  ScriptEnds
