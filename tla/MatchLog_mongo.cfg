\* Mongo shared by two instances: CommitSnapshot and a delete are steps, and a
\* write may land although its answer is lost.
SPECIFICATION Spec
CONSTANTS
    Threads = {t1, t2}
    Instances = {i1, i2}
    On <- EachItsOwn
    Entries = {e1, e2}
    GameLen = 2
    RoundLen = 2
    SnapshotEvery = 2
    RoundGap = 1
    MaxVersion = 3
    Transactional = FALSE
    MayFail = FALSE
    MayLoseReply = TRUE
    None = None
SYMMETRY Symmetry
INVARIANTS
    HeldBoardsArePlayed
    SnapshotsAreExact
    LogHasNoGap
    AckedMovesAreStored
    RecordedOnce
PROPERTIES
    CompletedIsFinal
