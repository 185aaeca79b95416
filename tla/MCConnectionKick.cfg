SPECIFICATION Spec
CONSTANTS
  Clients = {c1}
  Configs <- AllConfigs
  Greetings <- AllGreetings
  VelocityIds <- MCVelocityIds
  MaxInputs = 1
  MaxTicks = 1
INVARIANT KickIsTold
