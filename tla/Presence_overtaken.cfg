\* A new socket overtakes the old one's pause.
SPECIFICATION Spec
CONSTANTS
    s1 = s1
    s2 = s2
    s3 = s3
    Seats = {1, 2}
    Host = 2
    Sockets = {s1, s2, s3}
    Of <- SocketToSpare
    NoSocket = NoSocket
    MayFail = {FALSE}
INVARIANT PausedPlayerIsAway
