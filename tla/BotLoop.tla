------------------------------ MODULE BotLoop ------------------------------
(***************************************************************************)
(* What drives the bots of one match: the loop that plays them, the flag   *)
(* that keeps it to one, the calls that wake it, and the handover that     *)
(* stops it (src/server/internal/match: bots.go, handover.go, and the end  *)
(* of manager.go handleAction).                                            *)
(*                                                                         *)
(* The board is the set of seats the game waits for; none once the match   *)
(* is no longer in play.  The module's own bot always has a move the       *)
(* module takes while its seat is waited for.                              *)
(* Seats a bot plays for a person are MatchPresence's.                     *)
(***************************************************************************)
EXTENDS Naturals, FiniteSets

CONSTANTS
    Bots, People,  \* the seats
    Loops,         \* loop goroutines that may be alive at once
    MaxSteps,      \* bots.go botMaxSteps
    MaxStall,      \* bots.go botMaxStall
    NoSeat

ASSUME LoopAssumption ==
    /\ Bots \cap People = {} /\ NoSeat \notin Bots
    /\ MaxSteps \in Nat \ {0} /\ MaxStall \in Nat

VARIABLES
    awaited,   \* the seats the board waits for
    running,   \* botRunning
    stopping,  \* botStopping
    loop,      \* each loop: where it is, who it plays, and its counts
    caller,    \* where each person's call is
    home,      \* where the match is: played here, being put down, elsewhere
    beat       \* history: flips with every move a bot makes

vars == <<awaited, running, stopping, loop, caller, home, beat>>

NoLoop  == [at |-> "none", actor |-> NoSeat, last |-> NoSeat, stall |-> 0, step |-> 0]
NewLoop == [NoLoop EXCEPT !.at = "top"]

Boards == SUBSET (Bots \cup People)

Init ==
    /\ awaited \in Boards \ {{}}
    /\ running = FALSE /\ stopping = FALSE
    /\ loop = [l \in Loops |-> NoLoop]
    /\ caller = [p \in People |-> "waking"]  \* Start has dealt and wakes the bots
    /\ home = "here" /\ beat = FALSE

\* The boards a move of seat x leads to: its turn goes on, the match is over, the
\* others asked along with x are still to answer, or it was the last of them and
\* the game asks whom it likes.
After(x) ==
    {awaited, {}} \cup (IF awaited = {x} THEN Boards ELSE {awaited \ {x}})

-----------------------------------------------------------------------------
(* Waking the loop *)

\* RunBotsIfNeeded.
RunBots ==
    IF running
      THEN UNCHANGED <<running, loop>>
      ELSE \E l \in Loops :
             /\ loop[l].at = "none"
             /\ loop' = [loop EXCEPT ![l] = NewLoop]
             /\ running' = TRUE

\* A write of this node lands as long as the match is not another's.
MayWrite == home # "elsewhere"

\* A person's move, ...
Move(p) ==
    /\ caller[p] = "idle" /\ p \in awaited /\ MayWrite
    /\ awaited' \in After(p)
    /\ caller' = [caller EXCEPT ![p] = "waking"]
    /\ UNCHANGED <<running, stopping, loop, home, beat>>

\* ... or a person opening a match in play, ...
Arrive(p) ==
    /\ caller[p] = "idle" /\ awaited # {}
    /\ caller' = [caller EXCEPT ![p] = "waking"]
    /\ UNCHANGED <<awaited, running, stopping, loop, home, beat>>

\* ... wakes the bots once it has let go of the match.
Wake(p) ==
    /\ caller[p] = "waking"
    /\ RunBots
    /\ caller' = [caller EXCEPT ![p] = "idle"]
    /\ UNCHANGED <<awaited, stopping, home, beat>>

-----------------------------------------------------------------------------
(* The loop *)

To(l, where) == loop' = [loop EXCEPT ![l].at = where]

\* A mistake for the checks: nothing bounds a chain of moves.
NeverOutOfSteps(l) == FALSE

\* The loop has made all the moves it may.
OutOfSteps(l) == loop[l].step = MaxSteps

\* The turn boundary: botsStopping is asked, and forgets that it was.
HeedStop(l) ==
    /\ loop[l].at = "top" /\ ~OutOfSteps(l) /\ stopping
    /\ stopping' = FALSE
    /\ To(l, "ending")
    /\ UNCHANGED <<awaited, running, caller, home, beat>>

\* Not asked to stop, or past asking: then the mark stays, for the next loop.
GoOn(l) ==
    /\ loop[l].at = "top"
    /\ \/ ~OutOfSteps(l) /\ ~stopping /\ To(l, "read")
       \/ OutOfSteps(l) /\ To(l, "ending")
    /\ UNCHANGED <<awaited, running, stopping, caller, home, beat>>

\* A mistake for the checks: a bot behind a person is not seen.
DrivenAlone(b) == awaited = {b}

\* drivenSeat: a bot among the seats waited for.
Driven(b) == b \in awaited

\* The board is read, and a bot chosen that has not had too many goes in a row.
Read(l) ==
    /\ loop[l].at = "read"
    /\ \/ \E b \in Bots :
            LET stall == IF b = loop[l].last THEN loop[l].stall + 1 ELSE 0 IN
            /\ Driven(b)
            /\ IF stall > MaxStall
                 THEN To(l, "ending")
                 ELSE loop' = [loop EXCEPT ![l] = [@ EXCEPT !.at = "thinking", !.actor = b,
                                                           !.last = b, !.stall = stall]]
       \/ (\A b \in Bots : ~Driven(b)) /\ To(l, "ending")
    /\ UNCHANGED <<awaited, running, stopping, caller, home, beat>>

\* The bot's move goes the way a person's does, and is refused the same way.
Act(l) ==
    /\ loop[l].at = "thinking"
    /\ IF loop[l].actor \in awaited /\ MayWrite
         THEN /\ awaited' \in After(loop[l].actor) /\ beat' = ~beat
              /\ loop' = [loop EXCEPT ![l].at = "top", ![l].actor = NoSeat, ![l].step = @ + 1]
         ELSE UNCHANGED <<awaited, beat>> /\ To(l, "ending")
    /\ UNCHANGED <<running, stopping, caller, home>>

\* A mistake for the checks: the loop ends and leaves the flag.
FlagLeft(l) ==
    /\ loop[l].at = "ending"
    /\ loop' = [loop EXCEPT ![l] = NoLoop]
    /\ UNCHANGED <<running, awaited, stopping, caller, home, beat>>

\* The deferred clean-up, some time after the loop made up its mind.
End(l) ==
    /\ loop[l].at = "ending"
    /\ loop' = [loop EXCEPT ![l] = NoLoop]
    /\ running' = FALSE
    /\ UNCHANGED <<awaited, stopping, caller, home, beat>>

-----------------------------------------------------------------------------
(* The match changing hands *)

\* Release begins: a loop that is running is asked to stop.
Release ==
    /\ home = "here"
    /\ home' = "putting down"
    /\ stopping' = (stopping \/ running)
    /\ UNCHANGED <<awaited, running, loop, caller, beat>>

\* The loop is gone, and so is the entry: Release returns, ...
Released ==
    /\ home = "putting down" /\ ~running
    /\ home' = "released"
    /\ UNCHANGED <<awaited, running, stopping, loop, caller, beat>>

\* ... or it has waited for too long, and the match stays.
ReleaseTimesOut ==
    /\ home = "putting down" /\ running
    /\ home' = "here"
    /\ UNCHANGED <<awaited, running, stopping, loop, caller, beat>>

\* The home moves, and the store here refuses what is written to the match.
HandOver ==
    /\ home = "released" /\ home' = "elsewhere"
    /\ UNCHANGED <<awaited, running, stopping, loop, caller, beat>>

\* The other node plays.
PlayedElsewhere ==
    /\ home = "elsewhere" /\ awaited # {} /\ awaited' \in Boards
    /\ UNCHANGED <<running, stopping, loop, caller, home, beat>>

\* The match comes back: Adopt loads it and wakes the bots.
Adopt ==
    /\ home = "elsewhere" /\ home' = "here"
    /\ RunBots
    /\ UNCHANGED <<awaited, stopping, caller, beat>>

-----------------------------------------------------------------------------
LoopStep(l) == HeedStop(l) \/ GoOn(l) \/ Read(l) \/ Act(l) \/ End(l)

\* One node has the match all along.
StayNext ==
    \/ \E p \in People : Move(p) \/ Arrive(p) \/ Wake(p)
    \/ \E l \in Loops : LoopStep(l)

Next == StayNext \/ Release \/ Released \/ ReleaseTimesOut \/ HandOver \/ PlayedElsewhere \/ Adopt

Spec == Init /\ [][Next]_vars

\* Goroutines run on.
Fairness == (\A l \in Loops : WF_vars(LoopStep(l))) /\ (\A p \in People : WF_vars(Wake(p)))

StaySpec == Init /\ [][StayNext]_vars /\ Fairness

\* As well, somebody always opens the table again.
VisitedSpec == Spec /\ Fairness /\ \A p \in People : WF_vars(Arrive(p))

-----------------------------------------------------------------------------
(* Properties *)

TypeOK ==
    /\ awaited \in Boards /\ running \in BOOLEAN /\ stopping \in BOOLEAN
    /\ loop \in [Loops -> [at : {"none", "top", "read", "thinking", "ending"},
                           actor : Bots \cup {NoSeat}, last : Bots \cup {NoSeat},
                           stall : 0..MaxStall, step : 0..MaxSteps]]
    /\ caller \in [People -> {"idle", "waking"}]
    /\ home \in {"here", "putting down", "released", "elsewhere"}
    /\ beat \in BOOLEAN

Alive(l) == loop[l].at # "none"

\* Whoever wakes the bots and whenever the loop ends, there is never a second
\* loop, and the flag is up exactly while there is one: Idle and Release may go
\* by it.
OneLoop ==
    /\ \A k, l \in Loops : Alive(k) /\ Alive(l) => k = l
    /\ running <=> \E l \in Loops : Alive(l)

BotTurn == home = "here" /\ awaited \cap Bots # {}

\* A table that waits for a bot is not left waiting.
BotTurnEnds == \A b \in BOOLEAN : BotTurn /\ beat = b ~> ~BotTurn \/ beat # b

=============================================================================
