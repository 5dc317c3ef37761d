\* Each part in turn.  Nobody has to play on: the world may stop.
SPECIFICATION ServerSpec
CONSTANTS
    Threads = {t1, t2}
    Instances = {i1}
    On <- OneProcess
    Entries = {e1, e2, e3}
    GameLen = 2
    RoundLen = 2
    SnapshotEvery = 2
    RoundGap = 1
    MaxVersion = 2
    Transactional = TRUE
    MayFail = FALSE
    MayLoseReply = FALSE
    None = None
    Bots = {b1, b2}
    People = {p1}
    Loops = {l1, l2}
    MaxSteps = 3
    MaxStall = 1
    NoSeat = NoSeat
    s1 = s1  s2 = s2  s3 = s3
    Seats = {s1, s2, s3}
    TableOf <- Tables
    Peopled = {1}
    Top = 1
    Weight <- Weights
    FullCores = 4
    NoPlayer = NoPlayer
    Players = {h, q}
    Host = h
INVARIANTS
    ServerTypesOK
    OneLoop
    LeasesFit
    OutboxKeepsFaith
PROPERTIES
    EveryCallReturns
    BotTurnEnds
    TurnKeepsItsBot
    SavedGamesArriveIfSound
CHECK_DEADLOCK FALSE
