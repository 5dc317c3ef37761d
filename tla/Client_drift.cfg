\* One player, connected; two calls change the match and tell of it.
SPECIFICATION MatchFanoutSpec
CONSTANTS
    PlayerCount = 1
    Calls = {c1, c2}
    Greeters = {h1}
    MaxBoard = 2
INVARIANT ShownIsCurrent
CHECK_DEADLOCK FALSE
