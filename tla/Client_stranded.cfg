\* One guest, and a phone that dials again before its old connection is missed.
SPECIFICATION RelaySpec
CONSTANTS
    Links = {l1}
    Conns = {n1, n2}
    Guests = {g1}
    MaxTables = 1
    MaxGuests = 1
    MaxFlight = 2
    NoOne = NoOne
INVARIANT GuestsGoWithTheirPhone
CHECK_DEADLOCK FALSE
