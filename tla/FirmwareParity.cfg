SPECIFICATION ParitySpec
CONSTANTS
  Lanes <- MCLanes
  Configs <- MCConfigs
  InputWords <- MCInputWords
  Durations <- MCDurations
  MaxTime = 5
  Size <- MCSize
  Debris <- MCDebris
INVARIANTS
  FirmwareParity
