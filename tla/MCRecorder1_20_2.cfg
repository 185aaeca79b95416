SPECIFICATION Spec
CONSTANTS
  Upstreams <- OldUpstreams
  Fml2Steps <- MCFml2Steps
  Fml3Steps <- MCFml3Steps
  MaxCrashes = 0
INVARIANT HandshakeIsRecorded
CHECK_DEADLOCK FALSE
