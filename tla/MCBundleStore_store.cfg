SPECIFICATION FairSpec
CONSTANTS
    b1 = b1
    r1 = r1
    c1 = c1
    u1 = u1
    Bundle = {b1}
    Total = 3
    Pieces <- WithWhole
    Pushers = {r1}
    Cleaners = {c1}
    Updaters = {u1}
    MaxCrash = 1
INVARIANTS FilesMatchIndex PushedIsStored
PROPERTIES ExpiredGoes
CHECK_DEADLOCK FALSE
