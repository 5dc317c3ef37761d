------------------------------ MODULE Governor ------------------------------
(***************************************************************************)
(* Which class of bot plays each seat: the leases that keep the bots' CPU  *)
(* to a share of the machine, and the tracker that keeps a turn to the bot *)
(* that began it (src/server/internal: botgov/governor.go, and the turns   *)
(* of match/governor.go with their callers in bots.go and manager.go).     *)
(*                                                                         *)
(* A class is a number: what a seat falls back to is the one below.  Its   *)
(* weight is the share of a core it keeps busy, as a whole number.  The    *)
(* mutex of the governor and that of the tracker make each call a step;    *)
(* noteMove's two calls are one, as are the two sweeps of a tick.  Of when *)
(* the leases were granted, only which was before which matters; of round  *)
(* numbers, only whether they have risen since the seat was last decided.  *)
(*                                                                         *)
(* Not here: how a class's cost is measured, hints, counts, and what a     *)
(* stand-in's end makes the tracker forget.                                *)
(***************************************************************************)
EXTENDS Integers, FiniteSetsExt

CONSTANTS
    Seats,       \* the bots' seats
    TableOf,     \* the table of each
    Peopled,     \* the tables a person sits at
    Top,         \* the dearest class
    Weight,      \* of each class; that of class 0 is nothing
    FullCores,   \* what the leases may add up to while all is well
    NoPlayer

Classes == 0..Top
Matches == {TableOf[s] : s \in Seats}

ASSUME GovernorAssumption ==
    /\ IsFiniteSet(Seats) /\ NoPlayer \notin Seats /\ Top \in Nat /\ FullCores \in Nat
    /\ Weight \in [Classes -> Nat] /\ Weight[0] = 0
    /\ Peopled \subseteq Matches

VARIABLES
    mode,       \* Governor: "off", "observe", "enforce"
    level,      \* the resource monitor's, as last told
    used,       \* the cores leased
    lease,      \* each seat the governor knows
    granted,    \* grantedAt: the pairs of leased seats whose first was granted first
    lastMover,  \* Governor.moved: who made each match's last move
    turnMover,  \* turnTracker.moved: the same
    turnBot,    \* turnTracker.bots: the class each seat began its turn with, and
                \* the one it asked for
    asks,       \* what each match's seats ask for; the operator may change it
    picked,     \* the bot loop of each match: the seat and class about to move
    began,      \* history: the class that made the first move of the turn the
                \* match's last mover is in
    upper       \* has a round ended since the seat was decided

governorVars == <<mode, level, used, lease, granted, lastMover, turnMover, turnBot, asks, picked, began, upper>>

Unknown == [known |-> FALSE, want |-> 0, plays |-> 0, leased |-> FALSE, revoked |-> FALSE, weight |-> 0, decided |-> FALSE]
NoBot == [known |-> FALSE, class |-> 0, want |-> 0]
Forgotten == -1
NoPick == [seat |-> NoPlayer, class |-> 0]

GovernorInit ==
    /\ mode \in {"off", "observe", "enforce"} /\ level = "green" /\ used = 0
    /\ lease = [s \in Seats |-> Unknown] /\ granted = {}
    /\ lastMover = [m \in Matches |-> NoPlayer] /\ turnMover = [m \in Matches |-> NoPlayer]
    /\ turnBot = [s \in Seats |-> NoBot]
    /\ asks = [m \in Matches |-> Top]
    /\ picked = [m \in Matches |-> NoPick] /\ began = [m \in Matches |-> 0]
    /\ upper = [s \in Seats |-> FALSE]

\* capacityLocked.
Capacity(lev) == CASE lev = "green" -> FullCores [] lev = "amber" -> FullCores \div 2 [] OTHER -> 0

\* The first class at or below c that needs no lease.
Cheapest(c) == Max({d \in 0..c : Weight[d] = 0})

Leased == {s \in Seats : lease[s].leased}

\* The grants, once some seats' are gone, ...
Without(some) == {p \in granted : p[1] \notin some /\ p[2] \notin some}

\* ... and once a seat's is the latest.
GrantedLast(s) == Without({s}) \cup ((Leased \ {s}) \X {s})

-----------------------------------------------------------------------------
(* A bot's move *)

\* There is room for one more lease.
Fits(w) == used + w <= Capacity(level)

\* turnStartLocked, for a seat as the governor has it now, with what is leased
\* apart from it.
TurnStart(s, seat) ==
    LET w == Weight[seat.want]
        kept(r, u, order) ==
            /\ lease' = [lease EXCEPT ![s] = [r EXCEPT !.decided = TRUE]]
            /\ used' = u /\ granted' = order
        cheap == [seat EXCEPT !.plays = Cheapest(seat.want), !.leased = FALSE, !.revoked = FALSE, !.weight = 0]
    IN
    \/ w = 0 /\ kept([seat EXCEPT !.plays = seat.want], used, granted)
    \/ w > 0 /\ seat.leased /\ seat.revoked /\ kept(cheap, used - seat.weight, Without({s}))
    \/ w > 0 /\ seat.leased /\ ~seat.revoked /\ kept(seat, used, granted)
    \/ /\ w > 0 /\ ~seat.leased /\ (~seat.decided \/ upper[s])
       /\ IF Fits(w)
            THEN kept([seat EXCEPT !.leased = TRUE, !.weight = w, !.plays = seat.want], used + w, GrantedLast(s))
            ELSE kept(cheap, used, granted)
    \/ w > 0 /\ ~seat.leased /\ seat.decided /\ ~upper[s] /\ kept(seat, used, granted)

\* Decide, for a seat that asks for want.  A seat that asks for something else
\* than before returns its lease and is a new one.
Decide(s, want) ==
    LET known == lease[s].known /\ lease[s].want = want
        midTurn == known /\ lease[s].decided /\ lastMover[TableOf[s]] = s
    IN
    IF midTurn THEN UNCHANGED <<used, lease, granted, upper>>
    ELSE /\ upper' = [upper EXCEPT ![s] = FALSE]
         /\ IF known THEN TurnStart(s, lease[s])
            ELSE \* With its lease returned, a new seat's first turn.
              LET u == used - lease[s].weight
                  w == Weight[want]
                  seat == [Unknown EXCEPT !.known = TRUE, !.want = want, !.decided = TRUE]
              IN
              IF w > 0 /\ Fits(w - lease[s].weight)
                THEN /\ lease' = [lease EXCEPT ![s] = [seat EXCEPT !.plays = want, !.leased = TRUE, !.weight = w]]
                     /\ used' = u + w /\ granted' = GrantedLast(s)
                ELSE /\ lease' = [lease EXCEPT ![s] = [seat EXCEPT !.plays = IF w = 0 THEN want ELSE Cheapest(want)]]
                     /\ used' = u /\ granted' = Without({s})

\* A mistake for the checks: the bot is asked for anew at every move.
NeverMidTurn(s) == FALSE

\* midTurn: the seat made its match's last move, with a bot that is remembered.
MidTurn(s) == turnMover[TableOf[s]] = s /\ turnBot[s].known

\* seatBot: the bot that is to make the seat's next move.
SeatBot(s) ==
    LET m == TableOf[s]
        want == IF MidTurn(s) THEN turnBot[s].want ELSE asks[m]
        class == IF MidTurn(s) THEN turnBot[s].class
                 ELSE IF mode = "enforce" THEN lease'[s].plays ELSE want
    IN
    /\ picked[m] = NoPick
    /\ IF mode = "off" THEN UNCHANGED <<used, lease, granted, upper>> ELSE Decide(s, want)
    /\ turnBot' = [turnBot EXCEPT ![s] = [known |-> TRUE, class |-> class, want |-> want]]
    /\ picked' = [picked EXCEPT ![m] = [seat |-> s, class |-> class]]
    /\ UNCHANGED <<mode, level, lastMover, turnMover, asks, began>>

\* noteMove.
NoteMove(m, player) ==
    /\ turnMover' = [turnMover EXCEPT ![m] = player]
    /\ lastMover' = IF mode = "off" THEN lastMover ELSE [lastMover EXCEPT ![m] = player]

\* The bot's move is accepted; it may end a round.
BotMoves(m) ==
    LET s == picked[m].seat IN
    /\ s # NoPlayer
    /\ NoteMove(m, s)
    /\ began' = IF turnMover[m] = s THEN began ELSE [began EXCEPT ![m] = picked[m].class]
    /\ picked' = [picked EXCEPT ![m] = NoPick]
    /\ \/ UNCHANGED upper
       \/ upper' = [t \in Seats |-> upper[t] \/ TableOf[t] = m]
    /\ UNCHANGED <<mode, level, used, lease, granted, turnBot, asks>>

\* The move is refused: its turn is over before it began, or it was taken away.
BotRefused(m) ==
    /\ picked[m] # NoPick /\ picked' = [picked EXCEPT ![m] = NoPick]
    /\ UNCHANGED <<mode, level, used, lease, granted, lastMover, turnMover, turnBot, asks, began, upper>>

\* A person moves.
PersonMoves(m) ==
    /\ m \in Peopled
    /\ NoteMove(m, NoPlayer)
    /\ \/ UNCHANGED upper
       \/ upper' = [t \in Seats |-> upper[t] \/ TableOf[t] = m]
    /\ UNCHANGED <<mode, level, used, lease, granted, turnBot, asks, picked, began>>

-----------------------------------------------------------------------------
(* What changes it from outside *)

Standing(l) == {s \in Seats : l[s].leased /\ ~l[s].revoked}
WeightOf(l, some) == FoldSet(LAMBDA s, n : n + l[s].weight, 0, some)

\* The order of revocation: tables without people first, newest grants first.
RevokedBefore(s, t) ==
    IF (TableOf[s] \in Peopled) # (TableOf[t] \in Peopled)
      THEN TableOf[t] \in Peopled ELSE <<t, s>> \in granted

\* A mistake for the checks: revoking stops one lease too soon.
MostOf(before, cap) == WeightOf(lease, before) <= cap + Weight[Top]

\* The leases before a seat's, with its own, already fit: it keeps its own.
EnoughOf(before, cap) == WeightOf(lease, before) <= cap

\* SetLevel and revokeOverLocked.
SetLevel(lev) ==
    LET kept(s) == {t \in Standing(lease) : t = s \/ RevokedBefore(s, t)} IN
    /\ level' = lev /\ lev # level
    /\ lease' = [s \in Seats |->
                   IF s \in Standing(lease) /\ ~EnoughOf(kept(s), Capacity(lev))
                     THEN [lease[s] EXCEPT !.revoked = TRUE] ELSE lease[s]]
    /\ UNCHANGED <<mode, used, granted, lastMover, turnMover, turnBot, asks, picked, began, upper>>

\* SetMode: every seat starts afresh.
SetMode(to) ==
    /\ to # mode /\ mode' = to
    /\ lease' = [s \in Seats |-> Unknown] /\ used' = 0 /\ granted' = {}
    /\ lastMover' = [m \in Matches |-> NoPlayer] /\ upper' = [s \in Seats |-> FALSE]
    /\ UNCHANGED <<level, turnMover, turnBot, asks, picked, began>>

\* The operator's switch: the seats of a game ask for another class.
Switch(m, c) ==
    /\ c # asks[m] /\ asks' = [asks EXCEPT ![m] = c]
    /\ UNCHANGED <<mode, level, used, lease, granted, lastMover, turnMover, turnBot, picked, began, upper>>

Returned(some) ==
    /\ lease' = [s \in Seats |-> IF s \in some THEN Unknown ELSE lease[s]]
    /\ used' = used - WeightOf(lease, some)
    /\ granted' = Without(some)
    /\ upper' = [s \in Seats |-> s \notin some /\ upper[s]]

\* matchStopped: the loop has found the match not in play, or a move has ended
\* it and one under way is refused.  The tracker forgets, and ReleaseMatch.
MatchStopped(m) ==
    LET here == {s \in Seats : TableOf[s] = m} IN
    /\ Returned(here)
    /\ lastMover' = [lastMover EXCEPT ![m] = NoPlayer] /\ turnMover' = [turnMover EXCEPT ![m] = NoPlayer]
    /\ turnBot' = [s \in Seats |-> IF s \in here THEN NoBot ELSE turnBot[s]]
    /\ picked' = [picked EXCEPT ![m] = NoPick]
    /\ UNCHANGED <<mode, level, asks, began>>

\* Sweep: seats nobody has asked for in a while.  The tracker waits longer.
SweepSeats(some, longer) ==
    LET left(m) == \E s \in Seats \ some : TableOf[s] = m /\ lease[s].known
        bots == IF longer THEN some ELSE {}
        tracked(m) == \E s \in Seats \ bots : TableOf[s] = m /\ turnBot[s].known
    IN
    /\ some # {} /\ \A s \in some : lease[s].known \/ turnBot[s].known
    /\ \A s \in some : picked[TableOf[s]].seat # s
    /\ Returned(some)
    /\ lastMover' = [m \in Matches |-> IF left(m) THEN lastMover[m] ELSE NoPlayer]
    /\ turnBot' = [s \in Seats |-> IF s \in bots THEN NoBot ELSE turnBot[s]]
    /\ turnMover' = [m \in Matches |-> IF tracked(m) THEN turnMover[m] ELSE NoPlayer]
    /\ began' = [m \in Matches |-> IF turnMover[m] \in bots THEN Forgotten ELSE began[m]]
    /\ UNCHANGED <<mode, level, asks, picked>>

GovernorNext ==
    \/ \E s \in Seats : SeatBot(s)
    \/ \E m \in Matches :
          \/ BotMoves(m) \/ BotRefused(m) \/ PersonMoves(m) \/ MatchStopped(m)
          \/ \E c \in Classes : Switch(m, c)
    \/ \E lev \in {"green", "amber", "red"} : SetLevel(lev)
    \/ \E to \in {"off", "observe", "enforce"} : SetMode(to)
    \/ \E some \in SUBSET Seats, longer \in BOOLEAN : SweepSeats(some, longer)

GovernorSpec == GovernorInit /\ [][GovernorNext]_governorVars

-----------------------------------------------------------------------------
(* Properties *)

GovernorTypeOK ==
    /\ mode \in {"off", "observe", "enforce"} /\ level \in {"green", "amber", "red"} /\ used \in Nat
    /\ lease \in [Seats -> [known : BOOLEAN, want : Classes, plays : Classes, leased : BOOLEAN, revoked : BOOLEAN,
                            weight : Nat, decided : BOOLEAN]]
    /\ granted \subseteq Seats \X Seats
    /\ lastMover \in [Matches -> Seats \cup {NoPlayer}] /\ turnMover \in [Matches -> Seats \cup {NoPlayer}]
    /\ turnBot \in [Seats -> [known : BOOLEAN, class : Classes, want : Classes]]
    /\ asks \in [Matches -> Classes] /\ upper \in [Seats -> BOOLEAN]
    /\ picked \in [Matches -> [seat : Seats \cup {NoPlayer}, class : Classes]] /\ began \in [Matches -> Classes \cup {Forgotten}]

\* Whatever levels, modes, switches, stops and sweeps come between a bot's
\* moves, the cores accounted for are those leased, and the leases that are
\* not to be given up fit what the level allows.
LeasesFit ==
    /\ used = WeightOf(lease, Leased)
    /\ WeightOf(lease, Standing(lease)) <= Capacity(level)

\* A turn is never finished by a bot that did not begin it, whatever is decided,
\* revoked or switched on the way.  (A turn that is under way when the match
\* stops, or unheard of for as long as the tracker remembers, is begun anew.)
TurnKeepsItsBot ==
    [][\A m \in Matches : LET s == picked[m].seat IN
         BotMoves(m) /\ turnMover[m] = s => began[m] \in {Forgotten, picked[m].class}]_governorVars

=============================================================================
