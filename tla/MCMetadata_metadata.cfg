SPECIFICATION MCSpec
CONSTANTS
  Self = self
  a = a
  b = b
  c = c
  Others = {a, b, c}
  Neighbours = {a, b}
  Incoming <- MCIncoming
  PurgeTime = 0
  MaxClock = 2
  MaxChanges = 2
  NotYet = NotYet
  Peers = {a, b}
  Destination = c
  Scale = 2
  PInit = 1
  Beta = 2
  Gamma = 1
  Summaries = {0, 2}
  Runs = {r1, r2}
  NoBundle = NoBundle
INVARIANTS FreshTable ProphetSentIsTrue
PROPERTY Announced
CHECK_DEADLOCK FALSE
