SPECIFICATION FairSpec
CONSTANTS
    c1 = c1
    c2 = c2
    a1 = a1
    a2 = a2
    Conv = {c1, c2}
    Address = {a1, a2}
    Layouts <- Pairs
    Permanent = {c1}
    queueTtl = 1
    InCap = 1
    CanClose = TRUE
    MaxStatus <- Statuses
INVARIANTS NotOpenedTwice Supervised NoPanic
PROPERTIES InOrder Settles StatusReaches
CHECK_DEADLOCK FALSE
