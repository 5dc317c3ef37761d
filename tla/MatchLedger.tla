----------------------------- MODULE MatchLedger -----------------------------
(***************************************************************************)
(* What the runtime promises of a match, with nothing of how it is kept: a *)
(* list of accepted moves that only grows, and only while the match is in  *)
(* play; a status; and an end that comes with the last move and with no    *)
(* other.                                                                  *)
(***************************************************************************)
EXTENDS Naturals, Sequences

CONSTANTS
    Players,   \* whoever may move
    GameLen    \* moves a game takes

VARIABLES
    ledger,    \* the accepted moves, oldest first
    status     \* where the match stands

Init == ledger = <<>> /\ status = "lobby"

\* The host starts the match.
Start == status = "lobby" /\ status' = "active" /\ UNCHANGED ledger

\* A move is accepted; the last one completes the match.
Accept(p) ==
    /\ status = "active" /\ Len(ledger) < GameLen
    /\ ledger' = Append(ledger, p)
    /\ status' = IF Len(ledger') = GameLen THEN "completed" ELSE "active"

\* The table is paused, taken up again, or swept; none of it touches a move.
Pause   == status = "active" /\ status' = "suspended" /\ UNCHANGED ledger
Resume  == status \in {"suspended", "abandoned"} /\ status' = "active" /\ UNCHANGED ledger
Abandon == status \in {"active", "suspended"} /\ status' = "abandoned" /\ UNCHANGED ledger

\* The match is deleted, moves and all.
Delete == status # "gone" /\ status' = "gone" /\ ledger' = <<>>

Next == Start \/ (\E p \in Players : Accept(p)) \/ Pause \/ Resume \/ Abandon \/ Delete

Spec == Init /\ [][Next]_<<ledger, status>>
=============================================================================
