SPECIFICATION MCSpec
CONSTANTS
  Parts = {"rest"}
  n1 = n1
  n2 = n2
  b1 = b1
  b2 = b2
  b3 = b3
  e1 = e1
  MBundles = {b1, b2}
  MaxStarts = 2
  MaxTicks = 1
  Nobody = Nobody
  MaxDials = 2
  MaxTries = 3
  BNodes = {n1, n2}
  BBundles = {b1, b2, b3}
  Source <- MCSource
  Size <- MCSize
  FirstTids <- MCFirstTids
  TidMod = 2
  SeqNoMod = 2
  OutCap = 2
  FailCap = 2
  Closing = {n2}
  MaxLost = 1
  None = None
  Pings = {ping}
  Webs = {web}
  MaxDeliver <- MCMaxDeliver
  MaxSubmit = 1
  Uuids = {u1, u2}
  Endpoints = {e1, e2}
  RBundles = {b1, b2}
  Requests = {r1, r2}
  To <- MCTo
  MaxBuild = 1
  UserFiles = {f1, f2}
  Incoming = {b1, b2}
  Attempts = 2
  Nothing = Nothing
  Bundle = {x1, x2, x3}
  Window = 1
  Late = FALSE
  MaxTime = 3
INVARIANT EveryClientGetsIt
CHECK_DEADLOCK FALSE
