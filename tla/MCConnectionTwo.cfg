SPECIFICATION Spec
CONSTANTS
  Clients = {c1, c2}
  Configs <- FewConfigs
  Greetings <- FewGreetings
  VelocityIds <- MCVelocityIds
  MaxInputs = 1
  MaxTicks = 1
SYMMETRY Symmetry
INVARIANT OnlineCountExact
PROPERTY ImplementsRoster
