\* kdb: one process, CommitSnapshot a transaction, a write lands or fails.
SPECIFICATION Spec
CONSTANTS
    Threads = {t1, t2}
    Instances = {i1}
    On <- OneProcess
    Entries = {e1, e2, e3}
    GameLen = 4
    RoundLen = 3
    SnapshotEvery = 2
    RoundGap = 1
    MaxVersion = 5
    Transactional = TRUE
    MayFail = TRUE
    MayLoseReply = FALSE
    None = None
SYMMETRY Symmetry
INVARIANTS
    TypeOK
    LockedIsCurrent
    RebuildIsBounded
    FinishedIsCompleted
    OneDeal
    DeletedLeavesNothing
PROPERTIES
    MovesOnlyInPlay
    ImplementsLedger
