SPECIFICATION FairSpec
CONSTANTS
    x1 = x1
    x2 = x2
    Bundle = {x1, x2}
    Loads <- OddLoads
    Mtu = 2
    ExchangeCap = 1
    WireCap = 1
INVARIANTS SentIsReceived Intact
PROPERTIES SendReturns Arrives
CHECK_DEADLOCK FALSE
