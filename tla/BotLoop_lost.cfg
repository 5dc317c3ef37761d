\* A move lands while the loop is ending.
SPECIFICATION StaySpec
CONSTANTS
    Bots = {b1, b2}
    People = {p1}
    Loops = {l1, l2}
    MaxSteps = 4
    MaxStall = 2
    NoSeat = NoSeat
CHECK_DEADLOCK FALSE
PROPERTY BotTurnEnds
