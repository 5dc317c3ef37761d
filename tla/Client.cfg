\* Each part in turn.  Nobody has to play on: the world may stop.
SPECIFICATION ClientSpec
CONSTANTS
    Tabs = {t1, t2, t3}
    SeatLinks = {t3}
    Sockets = {s1, s2, s3}
    MaxTokens = 2
    None = None
    Ghost = Ghost
    PlayerCount = 2
    Calls = {c1, c2}
    Greeters = {h1, h2}
    MaxBoard = 2
    Links = {l1, l2}
    Conns = {n1, n2}
    Guests = {g1, g2}
    MaxTables = 2
    MaxGuests = 2
    MaxFlight = 2
    NoOne = NoOne
    l1 = l1  l2 = l2  n1 = n1  n2 = n2  g1 = g1  g2 = g2  h1 = h1  h2 = h2
    t1 = t1  t2 = t2  t3 = t3
INVARIANTS
    ClientTypesOK
    OneChain
    QuietChangeHeals
    NoCrossTalk
    EndsAgree
PROPERTIES
    LastWordIsFinal
    SeatSettles
    ComesBack
CHECK_DEADLOCK FALSE
