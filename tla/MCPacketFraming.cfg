SPECIFICATION FairSpec
CONSTANTS
  Base = 2
  VarIntBytes = 3
  MaximumLength = 7
  NoCompression = NoCompression
  Thresholds = {2, NoCompression}
  Payloads <- MCPayloads
  MaxFrames = 3
INVARIANTS
  NothingLost
  PacketsInOrder
PROPERTY EveryPacketIsRead
