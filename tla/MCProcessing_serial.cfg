SPECIFICATION FairSerialSpec
CONSTANTS
    relay = relay
    past = past
    local = local
    own = own
    far = far
    direct = direct
    report = report
    mine = mine
    drop = drop
    alien = alien
    broken = broken
    p1 = p1
    p2 = p2
    Header <- MCHeader
    Bundle = {relay, direct, drop, alien, broken}
    Mixes <- Mixed
    Bound <- SerialBound
    Peer = {p1, p2}
    Links = {p1, p2}
    Handlers = {h1}
    Senders = {a1}
    Workers = {c1}
    InspectAll = TRUE
INVARIANTS NoResend SentIsTrue SettledIsGone
PROPERTIES EventuallySent
