\* A cloud that stops, or fails, between the row and its moves.
SPECIFICATION SavesFairSpec
CONSTANTS
    Players = {h}
    Host = h
PROPERTY SavedGamesArrive
CHECK_DEADLOCK FALSE
