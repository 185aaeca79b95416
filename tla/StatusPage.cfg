SPECIFICATION PageSpec
CONSTANTS
  Pings = {p1, p2}
  Fallbacks = {0, 9}
  MaxVersion = 2
  MaxLookups = 2
  Clients = {c1}
  ShowCount = {TRUE, FALSE}
INVARIANTS
  FallbackChain
  CountWasTrue
PROPERTY LookupsReturn
