SPECIFICATION FairSpec
CONSTANTS
  Tickers = {t1, t2}
  Setters = {s1, s2}
INVARIANTS
  NoLostWakeup
  LockedWhileWaiting
PROPERTIES
  TickIsDelivered
  SettersAreServed
