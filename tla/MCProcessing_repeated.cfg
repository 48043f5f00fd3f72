SPECIFICATION SerialSpec
CONSTANTS
    relay = relay
    past = past
    local = local
    own = own
    far = far
    direct = direct
    report = report
    mine = mine
    drop = drop
    alien = alien
    broken = broken
    p1 = p1
    p2 = p2
    Header <- MCHeader
    Bundle = {relay}
    Mixes <- Mixed
    Bound <- RepeatedBound
    Peer = {p1}
    Links = {p1}
    Handlers = {h1}
    Senders = {a1}
    Workers = {c1}
    InspectAll = TRUE
INVARIANT DispatchPendingIsPending
