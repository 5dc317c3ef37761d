\* One Mongo process whose commit of the last move fails between two steps.
SPECIFICATION Spec
CONSTANTS
    Threads = {t1, t2}
    Instances = {i1}
    On <- OneProcess
    Entries = {e1, e2, e3}
    GameLen = 2
    RoundLen = 2
    SnapshotEvery = 2
    RoundGap = 1
    MaxVersion = 3
    Transactional = FALSE
    MayFail = TRUE
    MayLoseReply = FALSE
    None = None
SYMMETRY Symmetry
INVARIANTS
    FinishedIsCompleted
