SPECIFICATION FairSpec
CONSTANTS
  Upstreams <- MCUpstreams
  Fml2Steps <- MCFml2Steps
  Fml3Steps <- MCFml3Steps
  MaxCrashes = 1
INVARIANTS
  TypeOK
  RecordedIsFaithful
  HandshakeIsRecorded
PROPERTIES
  ImplementsSnapshotFile
  StartsServing
CHECK_DEADLOCK FALSE
