SPECIFICATION Spec
CONSTANTS
  Nodes = {s, n1, n2}
  Source = s
  Destination = d
  L = 4
  Sensors = {n2}
  MaxFail = 2
  NoData = NoData
INVARIANT CopiesReturn
PROPERTY KeepsBudget
CHECK_DEADLOCK FALSE
