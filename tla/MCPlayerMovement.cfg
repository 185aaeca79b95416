SPECIFICATION Spec
CONSTANTS
  SpawnY = 2
  MinY <- MCMinY
  LowestY <- MCLowestY
  FallSpeed = 2
  TopSpeed = 2
  Habits <- AllHabits
  MaxInFlight = 2
INVARIANTS
  FallenAreTeleported
  OneTeleportPerFall
  AllowedAgrees
