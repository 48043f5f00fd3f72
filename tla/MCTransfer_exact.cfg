SPECIFICATION Spec
CONSTANTS
    x1 = x1
    x2 = x2
    Bundle = {x1}
    Loads <- EvenLoad
    Mtu = 2
    ExchangeCap = 1
    WireCap = 1
INVARIANTS SentIsReceived
CHECK_DEADLOCK FALSE
