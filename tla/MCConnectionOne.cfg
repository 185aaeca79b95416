SPECIFICATION FairSpec
CONSTANTS
  Clients = {c1}
  Configs <- AllConfigs
  Greetings <- AllGreetings
  VelocityIds <- MCVelocityIds
  MaxInputs = 1
  MaxTicks = 2
INVARIANTS
  TypeOK
  ServerNeverConfused
  ClientNeverConfused
  ReplayBeforeSuccess
  KickedNeverAdmitted
  ModernIdentity
  IdentityAgreed
  PlayersKeptAlive
  JoinedAreCounted
PROPERTIES
  IdentityNeverChanges
  DepartedAreForgotten
  LoginCompletes
