SPECIFICATION ConfigSpec
CONSTANTS
  Payloads <- MCPayloads
  Paddings <- MCPaddings
  RotBytes <- MCRotBytes
  Cuts <- MCCuts
  MaxSaves = 3
INVARIANTS
  LoadsTheLastSave
  LoadableSums
