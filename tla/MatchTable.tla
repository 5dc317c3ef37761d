----------------------------- MODULE MatchTable -----------------------------
(***************************************************************************)
(* What the runtime promises those at a table, with nothing of sockets,    *)
(* timers and sweeps: a seat is played by its player, while they are       *)
(* there, or by a bot, once it has been put in for them; the table is only *)
(* paused for a player it waits for who is away, and goes on when that     *)
(* player returns or a bot has their seat.                                 *)
(***************************************************************************)

CONSTANTS
    Seats,   \* the seats people hold
    NoOne

VARIABLES
    status,  \* where the match stands
    waiting, \* whom it is paused for
    awaited, \* the seats the board is waiting for
    standIn, \* the seats that have a bot
    present  \* the players at the table

table == <<status, waiting, awaited, standIn, present>>

Init ==
    /\ status = "active" /\ waiting = NoOne
    /\ awaited \in SUBSET Seats \ {{}}
    /\ standIn = {} /\ present = {}

Live == status \in {"active", "suspended"}

TakenUp == status' = "active" /\ waiting' = NoOne

\* A player sits down at their own seat, and a pause for them is over.
Return(p) ==
    /\ p \notin standIn
    /\ present' = present \cup {p}
    /\ IF status = "suspended" /\ waiting = p THEN TakenUp ELSE UNCHANGED <<status, waiting>>
    /\ UNCHANGED <<awaited, standIn>>

\* Players leave; that alone changes nothing.
Leave(ps) ==
    /\ present' = present \ ps
    /\ UNCHANGED <<status, waiting, awaited, standIn>>

\* A seat is moved for: its player is there or a bot has it.
Move(p) ==
    /\ status = "active" /\ p \in awaited /\ p \in present \cup standIn
    /\ \/ awaited' \in SUBSET Seats \ {{}} /\ UNCHANGED status
       \/ status' = "completed" /\ UNCHANGED awaited
    /\ UNCHANGED <<waiting, standIn, present>>

\* The table waits for a player who is away; a bot may leave the seat for it.
Pause(p) ==
    /\ status = "active" /\ p \in awaited /\ p \notin present
    /\ status' = "suspended" /\ waiting' = p
    /\ standIn' \in {standIn, standIn \ {p}}
    /\ UNCHANGED <<awaited, present>>

\* Bots are put in for players who are away; a pause for one of them is over, and
\* one for a player who had a bot already may be.
PutIn(ps) ==
    /\ Live /\ ps \cap present = {}
    /\ standIn' = standIn \cup ps
    /\ \/ status = "suspended" /\ waiting \in standIn' /\ TakenUp
       \/ ~(status = "suspended" /\ waiting \in ps) /\ UNCHANGED <<status, waiting>>
    /\ UNCHANGED <<awaited, present>>

\* A bot leaves its seat to the player.
GiveBack(p) ==
    /\ standIn' = standIn \ {p}
    /\ UNCHANGED <<status, waiting, awaited, present>>

\* The table is swept up, and brought back; the board may move on with that.
Abandon ==
    /\ Live /\ status' = "abandoned"
    /\ UNCHANGED <<waiting, awaited, standIn, present>>

BringBack ==
    /\ status = "abandoned" /\ TakenUp
    /\ awaited' \in SUBSET Seats \ {{}}
    /\ UNCHANGED <<standIn, present>>

Next ==
    \/ \E p \in Seats : Return(p) \/ Move(p) \/ Pause(p) \/ GiveBack(p)
    \/ \E ps \in SUBSET Seats : Leave(ps) \/ PutIn(ps)
    \/ Abandon \/ BringBack

Spec == Init /\ [][Next]_table
=============================================================================
