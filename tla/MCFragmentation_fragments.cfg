SPECIFICATION Spec
CONSTANTS
    Cases <- AllCases
    Primary = 4
    ExtAll = 3
    ExtRepl = 1
    PayHead = 2
    Mixed <- FewCases
INVARIANTS FragmentsFit FragmentsTile RoundTrip ReassembledIsPayload
CHECK_DEADLOCK FALSE
