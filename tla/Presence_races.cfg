\* A spare socket for seat 1: every order of returns, drops and displacements;
\* and with a socket each, a store that may refuse any write.
SPECIFICATION Spec
CONSTANTS
    s1 = s1
    s2 = s2
    s3 = s3
    Seats = {1, 2}
    Host = 2
    Sockets = {s1, s2, s3}
    Of <- SocketToSpare
    NoSocket = NoSocket
    MayFail = {TRUE, FALSE}
CONSTRAINTS
    SpareOnlyIfSound
    KeptOneAtATime
VIEW ApartFromLost
INVARIANTS
    TypeOK
    PresentPlayThemselves
    PausedForAwaited
PROPERTIES
    NoStolenTurn
    MovedIsNotSwept
