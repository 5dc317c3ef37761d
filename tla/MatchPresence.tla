--------------------------- MODULE MatchPresence ---------------------------
(***************************************************************************)
(* Who is at the table, and what the runtime does about who is not: the    *)
(* pause when the awaited player drops, the stand-in bot once the wait is  *)
(* over, the return, the reaper, and the host's way back from it           *)
(* (src/server/internal/match: presence.go, standin.go, agents.go,         *)
(* reaper.go, handlers.go handleWS; src/server/internal/ws/registry.go).   *)
(*                                                                         *)
(* One started match of a game that pauses (not drop-in, more than one     *)
(* seat, stand-ins offered), in one process.  What a call does under the   *)
(* match lock is one step: a socket that opens or closes meanwhile is the  *)
(* same as one that does so just before or after, since what it leads to   *)
(* needs the lock too.  What is done without the lock is a step of its own.*)
(* MatchLog has the lock, the store and the versions; here a write lands   *)
(* or, when the store is faulty, does not.                                 *)
(*                                                                         *)
(* Time is a choice: a wait is over, a deadline passed or a table quiet    *)
(* whenever that may have come about.  The board is the set of seats the   *)
(* game is waiting for; a move makes it any set.                           *)
(***************************************************************************)
EXTENDS Integers, FiniteSets

CONSTANTS
    Seats,    \* the seats people hold, numbered in the order a module asks
    Host,     \* the seat that hosts the table
    Sockets,  \* sockets that may be open at once, with the handler of each
    Of,       \* Of[s]: the seat socket s belongs to
    NoSocket,
    MayFail   \* may a store call fail without effect: in no run, in some, in all

ASSUME SeatsAssumption ==
    /\ Seats \subseteq Nat \ {0} /\ Host \in Seats
    /\ Of \in [Sockets -> Seats] /\ NoSocket \notin Sockets /\ MayFail \subseteq BOOLEAN

VARIABLES
    match,     \* the envelope: status, the player it is suspended for, and the
               \* seats that have a stand-in
    awaited,   \* the seats the board is waiting for
    here,      \* ConnRegistry: the socket registered for each seat
    handler,   \* where the handler of each socket is
    held,      \* standInHeld: the seats the host keeps for their players
    timers,    \* standInTimers: the seats with a check pending
    bots,      \* the bot loop, and the stand-in seat it is thinking for; history:
               \* has it ended, or will, without the look at the board it owed
    sweep,     \* where the reaper is with this match
    moved,     \* history: a move was made since the reaper read the match
    faulty     \* may a store call fail (fixed in each run)

vars == <<match, awaited, here, handler, held, timers, bots, sweep, moved, faulty>>
sockets == <<here, handler>>

NoOne == 0

Init ==
    /\ match = [status |-> "active", waiting |-> NoOne, standIn |-> {}]
    /\ awaited \in SUBSET Seats \ {{}}
    /\ here = [p \in Seats |-> NoSocket]
    /\ handler = [s \in Sockets |-> "closed"]
    /\ held = {} /\ timers = {}
    /\ bots = [at |-> "reading", seat |-> NoOne, lost |-> FALSE]  \* StartMatch ends by waking it
    /\ sweep = "idle" /\ moved = FALSE
    /\ faulty \in MayFail

-----------------------------------------------------------------------------
(* What a decision is made from *)

\* seatHere.
Here(p) == here[p] # NoSocket

\* someoneElseHere: a person playing their own seat.
SomeoneElseHere(p) == \E q \in Seats \ {p} : q \notin match.standIn /\ Here(q)

\* standInPlaying.
StandInPlaying(p) == p \in match.standIn /\ ~Here(p) /\ SomeoneElseHere(p)

\* standInDue, leaving out when: an away person's seat a stand-in can take.
MayStandIn(p) ==
    /\ match.status \in {"active", "suspended"}
    /\ p \notin match.standIn /\ p \notin held /\ ~Here(p)

\* attended: anybody at all.
Attended == \E p \in Seats : Here(p)

\* resumeHost: the host brings a table back while they hold their own seat.
MayResumeTable(p) ==
    /\ Host \notin match.standIn => p = Host
    /\ \A q \in Seats \ {p} : q \in match.standIn \/ Here(q)

\* A mistake for the checks: whoever drops pauses the table.
PausesWhoever(p) == match.status = "active"

\* suspendLocked: the table waits for p, and can.
MayPauseFor(p) == match.status = "active" /\ p \in awaited

PausedFor(p) == match.status = "suspended" /\ match.waiting = p

\* A mistake for the checks: only the seat waited for alone brings the table back.
ResumesAlone(p) == PausedFor(p) /\ awaited = {p}

\* ResumeIfReturning: the table is in play again with p.
ResumesFor(p) == PausedFor(p)

-----------------------------------------------------------------------------
(* What a write does *)

\* A write moves the version on.  A sweep that has read the match will find it
\* changed and leave it, whatever else it does, so it is over.
Save(next) ==
    \/ match' = next /\ sweep' = "idle"
    \/ faulty /\ UNCHANGED <<match, sweep>>

NoSave == UNCHANGED <<match, sweep>>

Paused(p) == [match EXCEPT !.status = "suspended", !.waiting = p]

\* A mistake for the checks: the pause is not forgotten.
PauseKept(m) == [m EXCEPT !.status = "active"]

\* unsuspended.
Unsuspended(m) == [m EXCEPT !.status = "active", !.waiting = NoOne]

\* withStandIn: stand-ins for the seats ps.  (Each is also noted in StoodIn, for
\* the result; nothing here reads that.)
WithStandIn(ps) == [match EXCEPT !.standIn = @ \cup ps]

WithoutStandIn(p) == [match EXCEPT !.standIn = @ \ {p}]

\* RunBotsIfNeeded: one loop, and nothing is done while one runs, not even if it
\* has made up its mind to end.
WakeBots == bots' = IF bots.at = "off" THEN [at |-> "reading", seat |-> NoOne, lost |-> FALSE]
                    ELSE [bots EXCEPT !.lost = @ \/ bots.at = "ending"]

\* Where the loop is, when it has no seat in mind.
BotsAt(where, lost) == bots' = [at |-> where, seat |-> NoOne, lost |-> lost]

\* A mistake for the checks: a move after a quiet spell is not written to the
\* envelope.
NoTouch == NoSave

\* The envelope is touched by a move made after a quiet spell, and the reaper
\* reads an active match only after one.
Touch == Save(match)

\* applyLocked: the module takes a move of a seat it waits for.
Play(p) ==
    /\ match.status = "active" /\ p \in awaited
    /\ \/ awaited' \in SUBSET Seats \ {{}} /\ Touch
       \/ UNCHANGED awaited /\ match' = [match EXCEPT !.status = "completed"] /\ sweep' = "idle"
    /\ moved' = (sweep' # "idle")

-----------------------------------------------------------------------------
(* A socket's handler *)

HandlerAt(s, where) == handler' = [handler EXCEPT ![s] = where]

\* Add: the socket is the seat's now, and the one it displaces no longer is.
Connect(s) ==
    /\ handler[s] = "closed"
    /\ here' = [here EXCEPT ![Of[s]] = s]
    /\ HandlerAt(s, "arriving")
    /\ UNCHANGED <<match, awaited, held, timers, bots, sweep, moved>>

\* A mistake for the checks: only a table in play gives the seat back.
EndsInPlay(p) == IF match.status = "active" THEN Save(WithoutStandIn(p)) ELSE NoSave

\* endStandIn's write.
EndsStandIn(p) == IF p \in match.standIn THEN Save(WithoutStandIn(p)) ELSE NoSave

\* ResumeIfReturning begins: the seat is the player's again, ...
EndStandIn(s) ==
    /\ handler[s] = "arriving"
    /\ held' = held \ {Of[s]}
    /\ EndsStandIn(Of[s])
    /\ HandlerAt(s, "returning")
    /\ UNCHANGED <<awaited, here, timers, bots, moved>>

\* ... and a pause for this player is over.
ResumeIfReturning(s) ==
    LET resumed == Unsuspended(match) IN
    /\ handler[s] = "returning"
    /\ IF ResumesFor(Of[s])
         THEN Save(resumed) /\ IF match' = resumed THEN WakeBots ELSE UNCHANGED bots
         ELSE NoSave /\ UNCHANGED bots
    /\ HandlerAt(s, "greeting")
    /\ UNCHANGED <<awaited, here, held, timers, moved>>

\* The player is sent the board, and the bots are woken if it is in play.
Greet(s) ==
    /\ handler[s] = "greeting"
    /\ IF match.status = "active" THEN WakeBots ELSE UNCHANGED bots
    /\ HandlerAt(s, "serving")
    /\ UNCHANGED <<match, awaited, here, held, timers, sweep, moved>>

\* RemoveIfCurrent: the connection of a seat goes, and its player with it ...
Drop(s) ==
    /\ handler[s] = "serving" /\ here[Of[s]] = s
    /\ here' = [here EXCEPT ![Of[s]] = NoSocket]
    /\ HandlerAt(s, "leaving")
    /\ UNCHANGED <<match, awaited, held, timers, bots, sweep, moved>>

\* ... but not with a socket that was displaced, and is closed for it.
Displaced(s) ==
    /\ handler[s] = "serving" /\ here[Of[s]] # s
    /\ HandlerAt(s, "closed")
    /\ UNCHANGED <<match, awaited, here, held, timers, bots, sweep, moved>>

\* SuspendOnDisconnect.
SuspendOnDisconnect(s) ==
    LET p == Of[s] IN
    /\ handler[s] = "leaving"
    /\ IF MayPauseFor(p)
         THEN /\ Save(Paused(p))
              /\ timers' = IF match' = Paused(p) THEN timers \cup {p} ELSE timers
         ELSE NoSave /\ UNCHANGED timers
    /\ HandlerAt(s, "closed")
    /\ UNCHANGED <<awaited, here, held, bots, moved>>

\* The player moves; a displaced socket may still have a move in hand.
Move(s) ==
    /\ handler[s] = "serving"
    /\ Play(Of[s]) /\ WakeBots
    /\ UNCHANGED <<sockets, held, timers>>

-----------------------------------------------------------------------------
(* Stand-ins *)

\* A stand-in's check comes round: one for every awaited seat that can have one
\* and whose wait is over, as long as there is somebody to play for, and
\* another check for those whose wait is not.
CheckStandIns(p, over) ==
    LET can  == {q \in awaited : MayStandIn(q)}
        take == {q \in can \cap over : SomeoneElseHere(q)}
        next == WithStandIn(take)
        saved == IF next.status = "suspended" /\ next.waiting \in next.standIn
                   THEN Unsuspended(next) ELSE next
    IN
    /\ p \in timers
    /\ timers' = (timers \ {p}) \cup (can \ over)
    /\ IF take # {}
         THEN Save(saved) /\ IF match' = saved THEN WakeBots ELSE UNCHANGED bots
         ELSE NoSave /\ UNCHANGED bots
    /\ UNCHANGED <<awaited, sockets, held, moved>>

\* SetStandIn, on: the host puts a bot in for an away player.
StandInOn(p) ==
    LET next == WithStandIn({p})
        saved == IF PausedFor(p) THEN Unsuspended(next) ELSE next
    IN
    /\ match.status \in {"active", "suspended"} /\ ~Here(p)
    /\ held' = held \ {p}
    /\ Save(saved)
    /\ IF match' = saved THEN WakeBots ELSE UNCHANGED bots
    /\ UNCHANGED <<awaited, sockets, timers, moved>>

\* ... and off: the seat is kept for its player, and the table pauses if it is
\* that player it waits for.
StandInOff(p) ==
    LET next == WithoutStandIn(p) IN
    /\ match.status \in {"active", "suspended"}
    /\ held' = held \cup {p}
    /\ IF p \notin match.standIn THEN NoSave
       ELSE IF ~Here(p) /\ MayPauseFor(p)
         THEN \/ Save([next EXCEPT !.status = "suspended", !.waiting = p])
              \/ faulty /\ Save(next)
         ELSE Save(next)
    /\ UNCHANGED <<awaited, sockets, timers, bots, moved>>

-----------------------------------------------------------------------------
(* The bot loop, as far as it plays for people *)

\* A mistake for the checks: nothing is scheduled for a seat found away.
NeverLookedAt(p) == FALSE

\* drivenSeat found p away, but not for long enough yet.
LookedAtAgain(p) == MayStandIn(p)

\* A turn of the loop begins: the first awaited seat the server plays, and a
\* check for the away seats before it.  With none, the loop makes up its mind to
\* end.
BotRead ==
    LET driven == {p \in awaited : StandInPlaying(p)}
        first  == CHOOSE p \in driven : \A q \in driven : p <= q
        before == {p \in awaited : driven = {} \/ p < first}
    IN
    /\ bots.at = "reading"
    /\ IF match.status # "active"
         THEN BotsAt("ending", FALSE) /\ UNCHANGED timers
         ELSE /\ timers' = timers \cup {p \in before : LookedAtAgain(p)}
              /\ IF driven = {} THEN BotsAt("ending", FALSE)
                 ELSE bots' = [at |-> "thinking", seat |-> first, lost |-> FALSE]
    /\ UNCHANGED <<match, awaited, sockets, held, sweep, moved>>

\* The loop gives up: the seat has had too many goes, or has no move the game
\* takes; or the match cannot be read.
BotGivesUp ==
    /\ bots.at = "thinking" \/ (faulty /\ bots.at = "reading")
    /\ BotsAt("ending", TRUE)
    /\ UNCHANGED <<match, awaited, sockets, held, timers, sweep, moved>>

\* The deferred clean-up, some time after; only now can the loop be woken.
BotEnds ==
    /\ bots.at = "ending" /\ BotsAt("off", bots.lost)
    /\ UNCHANGED <<match, awaited, sockets, held, timers, sweep, moved>>

\* The next turn, unless the loop is out of steps.
LoopsOn == BotsAt("reading", FALSE) \/ BotsAt("ending", TRUE)

\* A mistake for the checks: the stand-in is not asked about again.
StandsInYet(p) == TRUE

\* handleAction's standIn: the seat is still a stand-in's.
StillStandsIn(p) == p \in match.standIn

StandInMoves(p) ==
    /\ bots.at = "thinking" /\ bots.seat = p
    /\ StillStandsIn(p) /\ Play(p)
    /\ LoopsOn
    /\ UNCHANGED <<sockets, held, timers>>

\* The stand-in's move is refused: the loop goes on when the seat went back,
\* and ends when the game took no move at all.
StandInRefused ==
    LET p == bots.seat IN
    /\ bots.at = "thinking"
    /\ ~(StillStandsIn(p) /\ match.status = "active" /\ p \in awaited)
    /\ IF StillStandsIn(p) THEN BotsAt("ending", TRUE) ELSE LoopsOn
    /\ UNCHANGED <<match, awaited, sockets, held, timers, sweep, moved>>

-----------------------------------------------------------------------------
(* The reaper *)

\* A mistake for the checks: only suspended tables are looked for.
OnlySuspended == match.status = "suspended"

\* FindAbandonable and FindStranded, the time having come.
Sweepable == match.status \in {"suspended", "active"}

SweepReads ==
    /\ sweep = "idle" /\ Sweepable
    /\ sweep' = "read" /\ moved' = FALSE
    /\ UNCHANGED <<match, awaited, sockets, held, timers, bots>>

\* A table with somebody at it is left for a later tick.
SweepLooks ==
    /\ sweep = "read"
    /\ sweep' = IF Attended THEN "idle" ELSE "empty"
    /\ moved' = IF Attended THEN FALSE ELSE moved
    /\ UNCHANGED <<match, awaited, sockets, held, timers, bots>>

\* abandon: under the lock, and only the match the sweep read.
Abandon ==
    /\ sweep = "empty"
    /\ \/ match' = [match EXCEPT !.status = "abandoned"]
       \/ faulty /\ UNCHANGED match
    /\ sweep' = "idle" /\ moved' = FALSE
    /\ UNCHANGED <<awaited, sockets, held, timers, bots>>

\* ResumeAbandoned.  If the table was swept between rounds it readies everyone
\* as well, and the board moves on (one step here; each is a move of its own,
\* after the resume).
ResumeAbandoned(p) ==
    LET resumed == Unsuspended(match) IN
    /\ match.status = "abandoned" /\ MayResumeTable(p)
    /\ Save(resumed)
    /\ IF match' = resumed THEN WakeBots /\ awaited' \in SUBSET Seats \ {{}}
                           ELSE UNCHANGED <<bots, awaited>>
    /\ UNCHANGED <<sockets, held, timers, moved>>

\* The process dies and starts again.  The match is as it was stored; nothing
\* that was only in memory is.
Crash ==
    /\ here' = [p \in Seats |-> NoSocket]
    /\ handler' = [s \in Sockets |-> "closed"]
    /\ held' = {} /\ timers' = {} /\ BotsAt("off", FALSE)
    /\ sweep' = "idle" /\ moved' = FALSE
    /\ UNCHANGED <<match, awaited>>

-----------------------------------------------------------------------------
HandlerStep(s) ==
    EndStandIn(s) \/ ResumeIfReturning(s) \/ Greet(s) \/ Displaced(s) \/ SuspendOnDisconnect(s)

BotStep == BotRead \/ BotGivesUp \/ BotEnds \/ StandInRefused \/ \E p \in Seats : StandInMoves(p)

SweepStep == SweepLooks \/ Abandon

MatchStep ==
    \/ \E s \in Sockets : Connect(s) \/ HandlerStep(s) \/ Drop(s) \/ Move(s)
    \/ \E p \in Seats : StandInOn(p) \/ StandInOff(p) \/ ResumeAbandoned(p)
    \/ \E p \in Seats, over \in SUBSET awaited : CheckStandIns(p, over)
    \/ BotStep \/ SweepReads \/ SweepStep \/ Crash

Next == MatchStep /\ UNCHANGED faulty

Spec == Init /\ [][Next]_vars

\* Goroutines run on, a wait is over some day, and the reaper's next tick comes
\* to a table that is left alone.  No loop takes more than botMaxSteps turns.
\* Nobody has to connect, to move or to decide.
Fairness ==
    /\ \A s \in Sockets : WF_vars(HandlerStep(s) /\ UNCHANGED faulty)
    /\ \A p \in Seats : WF_vars(/\ \E over \in SUBSET awaited : (p \in awaited => p \in over) /\ CheckStandIns(p, over)
                                /\ UNCHANGED faulty)
    /\ WF_vars(BotStep /\ UNCHANGED faulty) /\ WF_vars(SweepStep /\ UNCHANGED faulty)
    /\ WF_vars(SweepReads /\ ~Attended /\ UNCHANGED faulty)
    /\ []<>(bots.at = "off")

FairSpec == Spec /\ Fairness

-----------------------------------------------------------------------------
(* Properties *)

TypeOK ==
    /\ match \in [status : {"active", "completed"}, waiting : {NoOne}, standIn : SUBSET Seats]
                \cup [status : {"suspended"}, waiting : Seats, standIn : SUBSET Seats]
                \cup [status : {"abandoned"}, waiting : Seats \cup {NoOne}, standIn : SUBSET Seats]
    /\ awaited \in SUBSET Seats
    /\ here \in [Seats -> Sockets \cup {NoSocket}] /\ \A p \in Seats : Here(p) => Of[here[p]] = p
    /\ handler \in [Sockets -> {"closed", "arriving", "returning", "greeting", "serving", "leaving"}]
    /\ held \subseteq Seats /\ timers \subseteq Seats
    /\ bots \in [at : {"off", "reading", "ending"}, seat : {NoOne}, lost : BOOLEAN]
               \cup [at : {"thinking"}, seat : Seats, lost : {FALSE}]
    /\ sweep \in {"idle", "read", "empty"}
    /\ moved \in BOOLEAN /\ faulty \in MayFail

\* The player of p is at the table, and their arrival has been dealt with.
Serving(p) == \E s \in Sockets : here[p] = s /\ handler[s] = "serving"

\* A player at the table plays their own seat: no order of drops, returns,
\* timers and the host's presses leaves a bot in it.  (A return the store does
\* not take can.)
PresentPlayThemselves == \A p \in Seats : Serving(p) /\ ~faulty => p \notin match.standIn

\* A table is only ever paused for a player it is waiting for.
PausedForAwaited == match.status = "suspended" => match.waiting \in awaited

\* A table is not paused for a player who is at it.
PausedPlayerIsAway == \A p \in Seats : Serving(p) => ~PausedFor(p)

\* No move is a stand-in's once its player is back, if the store took the return.
NoStolenTurn == [][\A p \in Seats : ~faulty /\ Serving(p) => ~StandInMoves(p)]_vars

\* A table somebody moved at since the reaper read it is not swept up, unless
\* the store did not take the touch.
MovedIsNotSwept == [][~faulty /\ moved /\ Abandon => match'.status = match.status]_vars

\* The players at the table: those whose return is written.
Present == {p \in Seats : \E s \in Sockets : here[p] = s /\ handler[s] \in {"greeting", "serving"}}

\* What those at the table see of it all is a table that plays by MatchTable: if
\* the store takes every write and no socket overtakes its player's last one.
Table == INSTANCE MatchTable WITH status <- match.status, waiting <- match.waiting,
                                  standIn <- match.standIn, present <- Present
ImplementsTable == Table!Spec

\* The process keeps running and the host keeps their hands off.
LeftAlone == <>[][~Crash /\ \A p \in Seats : ~StandInOn(p) /\ ~StandInOff(p)]_vars

\* A table everybody leaves for good does not stay live for ever.
NothingIsLeaked ==
    <>[](~Attended) /\ LeftAlone => <>(match.status \in {"abandoned", "completed"})

\* A table paused for a player who then stays is taken up again.
PausedForPresent == match.status = "suspended" /\ Here(match.waiting)
ReturnResumes == PausedForPresent ~> ~PausedForPresent

\* The table, in play, is stuck on p: it waits for them, they are away, nobody
\* keeps the seat for them, and somebody else sits there.
StuckOn(p) ==
    /\ match.status = "active" /\ p \in awaited /\ MayStandIn(p)
    /\ \E q \in Seats \ {p} : q \notin match.standIn /\ Serving(q)

\* A table in play does not wait for ever for a player who is away while
\* another sits there, as long as no wake-up of the bot loop is lost.  (One is
\* lost between the loop's return and its deferred clean-up, or when it stops
\* at its limits; the table then waits until somebody moves or arrives.)
WaitInPlayEnds ==
    \A p \in Seats : StuckOn(p) /\ ~bots.lost ~> ~StuckOn(p) \/ bots.lost

=============================================================================
