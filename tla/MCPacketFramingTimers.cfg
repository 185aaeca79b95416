SPECIFICATION Spec
CONSTANTS
  Base = 2
  VarIntBytes = 3
  MaximumLength = 6
  NoCompression = NoCompression
  Thresholds = {NoCompression}
  Payloads <- MCPayloads
  MaxFrames = 2
INVARIANT SlowPacketsAreRead
