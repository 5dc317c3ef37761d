\* A socket each: what happens in the end.
SPECIFICATION FairSpec
CONSTANTS
    s1 = s1
    s2 = s2
    s3 = s3
    Seats = {1, 2}
    Host = 2
    Sockets = {s1, s2}
    Of <- OneSocketEach
    NoSocket = NoSocket
    MayFail = {FALSE}
INVARIANTS
    PausedPlayerIsAway
PROPERTIES
    NothingIsLeaked
    ReturnResumes
    WaitInPlayEnds
    ImplementsTable
