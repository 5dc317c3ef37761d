-------------------------- MODULE MatchPresenceProofs --------------------------
(***************************************************************************)
(* MatchPresence for any seats, any sockets and a store that may fail.     *)
(* At the end, with a store that takes every write and a socket for each   *)
(* player: what those at the table see of it is MatchTable.                *)
(***************************************************************************)
EXTENDS MatchPresence, WellFoundedInduction, TLAPS

-----------------------------------------------------------------------------
(* The envelope *)

Matches == [status : {"active", "completed"}, waiting : {NoOne}, standIn : SUBSET Seats]
           \cup [status : {"suspended"}, waiting : Seats, standIn : SUBSET Seats]
           \cup [status : {"abandoned"}, waiting : Seats \cup {NoOne}, standIn : SUBSET Seats]

\* Bots may come and go at seats without the table changing otherwise.
LEMMA SeatingIsMatch ==
    ASSUME NEW m \in Matches, NEW ps \in SUBSET Seats
    PROVE  LET n == [m EXCEPT !.standIn = ps] IN
           n \in Matches /\ n.status = m.status /\ n.waiting = m.waiting /\ n.standIn = ps
BY DEF Matches

\* The table may be paused for somebody, ...
LEMMA PauseIsMatch ==
    ASSUME NEW m \in Matches, NEW p \in Seats
    PROVE  LET n == [m EXCEPT !.status = "suspended", !.waiting = p] IN
           n \in Matches /\ n.status = "suspended" /\ n.waiting = p /\ n.standIn = m.standIn
BY DEF Matches

\* ... and brought back.
LEMMA UnsuspendedIsMatch ==
    ASSUME NEW m \in Matches
    PROVE  /\ Unsuspended(m) \in Matches /\ Unsuspended(m).status = "active"
           /\ Unsuspended(m).waiting = NoOne /\ Unsuspended(m).standIn = m.standIn
BY DEF Matches, Unsuspended

\* A set of seats has a first one.
LEMMA FirstSeat ==
    ASSUME NEW ps \in SUBSET Seats, ps # {}
    PROVE  (CHOOSE p \in ps : \A q \in ps : p <= q) \in ps
<1>1. IsWellFoundedOn(OpToRel(<, Nat), Nat)
  BY NatLessThanWellFounded
<1>2. ps \subseteq Nat
  BY SeatsAssumption
<1>3. PICK x \in ps : \A y \in ps : ~(<<y, x>> \in OpToRel(<, Nat))
  BY <1>1, <1>2, WFMin
<1>4. \A y \in ps : ~(y < x)
  BY <1>2, <1>3 DEF OpToRel
<1>5. \A y \in ps : x <= y
  BY <1>2, <1>4
<1> QED BY <1>5

-----------------------------------------------------------------------------
(* What is true of the table, and of the players at it *)

TableInv == TypeOK /\ PausedForAwaited

BotLoops == [at : {"off", "reading", "ending"}, seat : {NoOne}, lost : BOOLEAN]
            \cup [at : {"thinking"}, seat : Seats, lost : {FALSE}]

LEMMA EnvelopeIsMatch == TypeOK <=> TypeOK /\ match \in Matches
BY DEF TypeOK, Matches

LEMMA BotsAreLoops == TypeOK => bots \in BotLoops
BY DEF TypeOK, BotLoops

\* A write that lands leaves what was written, and one that does not nothing.
LEMMA SaveWrites ==
    ASSUME NEW next, Save(next)
    PROVE  match' \in {match, next} /\ sweep' \in {"idle", sweep}
BY DEF Save

\* The table stays in type and paused for an awaited seat when what a step leaves
\* in the envelope and on the board is so.
LEMMA TableKeeps ==
    ASSUME TableInv, UNCHANGED faulty,
           match' \in Matches, awaited' \in SUBSET Seats,
           match'.status = "suspended" => match'.waiting \in awaited',
           here' \in [Seats -> Sockets \cup {NoSocket}], \A p \in Seats : here'[p] # NoSocket => Of[here'[p]] = p,
           handler' \in [Sockets -> {"closed", "arriving", "returning", "greeting", "serving", "leaving"}],
           held' \subseteq Seats, timers' \subseteq Seats,
           bots' \in BotLoops,
           sweep' \in {"idle", "read", "empty"}, moved' \in BOOLEAN
    PROVE  TableInv'
BY DEF TableInv, TypeOK, PausedForAwaited, Matches, BotLoops, Here

\* The bots are woken, or not.
LEMMA WokenIsBots ==
    ASSUME TypeOK, WakeBots \/ UNCHANGED bots
    PROVE  bots' \in BotLoops
<1>1. bots \in BotLoops
  BY BotsAreLoops
<1>2. CASE WakeBots /\ bots.at = "off"
  BY <1>2 DEF WakeBots, BotLoops
<1>3. CASE WakeBots /\ bots.at # "off"
  <2>1. bots.lost \in BOOLEAN /\ bots' = [bots EXCEPT !.lost = @ \/ bots.at = "ending"]
    BY <1>1, <1>3 DEF WakeBots, BotLoops
  <2>2. CASE bots.at = "ending"
    BY <1>1, <2>1, <2>2 DEF BotLoops
  <2>3. CASE bots.at # "ending"
    BY <1>1, <2>1, <2>3 DEF BotLoops
  <2> QED BY <2>2, <2>3
<1> QED BY <1>1, <1>2, <1>3

\* A loop that has nothing in mind is of its type.
LEMMA IdleIsBots ==
    ASSUME NEW where \in {"off", "reading", "ending"}, NEW lost \in BOOLEAN, BotsAt(where, lost)
    PROVE  bots' \in BotLoops
BY DEF BotsAt, BotLoops

LEMMA LoopsOnIsBots ==
    ASSUME LoopsOn
    PROVE  bots' \in BotLoops
BY IdleIsBots DEF LoopsOn

\* A move leaves a match, and a table that is not paused.
LEMMA PlayIsMatch ==
    ASSUME TableInv, NEW p \in Seats, Play(p)
    PROVE  /\ match' \in Matches /\ awaited' \in SUBSET Seats
           /\ match'.status # "suspended" /\ match'.standIn = match.standIn
           /\ sweep' \in {"idle", sweep} /\ moved' \in BOOLEAN
           /\ ~faulty => ~moved'
<1>1. match \in Matches /\ match.status = "active"
  BY EnvelopeIsMatch DEF TableInv, Play
<1>2. CASE awaited' \in SUBSET Seats \ {{}} /\ Touch
  BY <1>1, <1>2 DEF Touch, Save, Play
<1>3. CASE UNCHANGED awaited /\ match' = [match EXCEPT !.status = "completed"] /\ sweep' = "idle"
  <2>1. match' \in Matches /\ match'.status = "completed" /\ match'.standIn = match.standIn
    BY <1>1, <1>3 DEF Matches
  <2> QED BY <1>3, <2>1 DEF Play, TableInv, TypeOK
<1> QED BY <1>2, <1>3 DEF Play

\* A pause is the one there was.
SamePause == match'.status = "suspended" => match.status = "suspended" /\ match'.waiting = match.waiting

\* Bots only come to seats whose players are away.
BotsOnlyForAway == \A p \in Seats : p \in match'.standIn => p \in match.standIn \/ ~Here(p)

\* A stand-in's check puts bots in for absent players, and may bring the table back.
LEMMA CheckWrites ==
    ASSUME TableInv, NEW p \in Seats, NEW over \in SUBSET awaited, CheckStandIns(p, over)
    PROVE  match' \in Matches /\ SamePause /\ BotsOnlyForAway
<1> DEFINE can  == {q \in awaited : MayStandIn(q)}
           take == {q \in can \cap over : SomeoneElseHere(q)}
           next == WithStandIn(take)
<1>1. match \in Matches /\ take \in SUBSET Seats /\ \A q \in take : ~Here(q)
  BY EnvelopeIsMatch DEF TableInv, TypeOK, MayStandIn
<1>2. match' \in {match, next, Unsuspended(next)}
  BY DEF CheckStandIns, Save, NoSave
<1> HIDE DEF take
<1>3. next \in Matches /\ next.status = match.status /\ next.waiting = match.waiting
      /\ next.standIn = match.standIn \cup take
  <2>1. match.standIn \cup take \in SUBSET Seats
    BY <1>1 DEF Matches
  <2> QED BY <1>1, <2>1, SeatingIsMatch DEF WithStandIn
<1> HIDE DEF next
<1> QED BY <1>1, <1>2, <1>3, UnsuspendedIsMatch DEF SamePause, BotsOnlyForAway

\* So does the host, ...
LEMMA OnWrites ==
    ASSUME TableInv, NEW p \in Seats, StandInOn(p)
    PROVE  match' \in Matches /\ SamePause /\ BotsOnlyForAway
<1> DEFINE next == WithStandIn({p})
<1>1. match \in Matches /\ ~Here(p)
  BY EnvelopeIsMatch DEF TableInv, StandInOn
<1>2. match' \in {match, next, Unsuspended(next)}
  BY DEF StandInOn, Save
<1>3. next \in Matches /\ next.status = match.status /\ next.waiting = match.waiting
      /\ next.standIn = match.standIn \cup {p}
  <2>1. match.standIn \cup {p} \in SUBSET Seats
    BY <1>1 DEF Matches
  <2> QED BY <1>1, <2>1, SeatingIsMatch DEF WithStandIn
<1> HIDE DEF next
<1> QED BY <1>1, <1>2, <1>3, UnsuspendedIsMatch DEF SamePause, BotsOnlyForAway

\* ... who may also take one away, and pause for the player who is absent then.
LEMMA OffWrites ==
    ASSUME TableInv, NEW p \in Seats, StandInOff(p)
    PROVE  /\ match' \in Matches /\ BotsOnlyForAway
           /\ \/ SamePause
              \/ match'.waiting = p /\ p \in awaited /\ ~Here(p)
<1> DEFINE next == WithoutStandIn(p)
           paused == [next EXCEPT !.status = "suspended", !.waiting = p]
<1>1. match \in Matches
  BY EnvelopeIsMatch DEF TableInv
<1>2. match' \in {match, next} \/ (match' = paused /\ p \in awaited /\ ~Here(p))
  BY DEF StandInOff, Save, NoSave, MayPauseFor
<1>3. next \in Matches /\ next.status = match.status /\ next.waiting = match.waiting
      /\ next.standIn = match.standIn \ {p}
  <2>1. match.standIn \ {p} \in SUBSET Seats
    BY <1>1 DEF Matches
  <2> QED BY <1>1, <2>1, SeatingIsMatch DEF WithoutStandIn
<1> HIDE DEF next
<1>4. paused \in Matches /\ paused.waiting = p /\ paused.standIn = next.standIn
  BY <1>3, PauseIsMatch
<1> HIDE DEF paused
<1> QED BY <1>1, <1>2, <1>3, <1>4 DEF SamePause, BotsOnlyForAway

\* An abandoned table is brought back as it was, in play.
LEMMA ResumeWrites ==
    ASSUME TableInv, NEW p \in Seats, ResumeAbandoned(p)
    PROVE  match' \in Matches /\ SamePause /\ match'.standIn = match.standIn
<1>1. match \in Matches /\ match' \in {match, Unsuspended(match)}
  BY EnvelopeIsMatch DEF TableInv, ResumeAbandoned, Save
<1> QED BY <1>1, UnsuspendedIsMatch DEF SamePause

-----------------------------------------------------------------------------
LEMMA InitTable == Init => TableInv
<1> SUFFICES ASSUME Init PROVE TableInv
  OBVIOUS
<1>1. match \in [status : {"active", "completed"}, waiting : {NoOne}, standIn : SUBSET Seats]
  BY DEF Init
<1>2. bots \in [at : {"off", "reading", "ending"}, seat : {NoOne}, lost : BOOLEAN]
  BY DEF Init
<1> QED BY <1>1, <1>2 DEF Init, TableInv, TypeOK, PausedForAwaited, Here

\* The handler of one socket, from its opening to its end.
LEMMA HandlerKeepsTable ==
    ASSUME TableInv, UNCHANGED faulty, NEW s \in Sockets,
           Connect(s) \/ HandlerStep(s) \/ Drop(s) \/ Move(s)
    PROVE  TableInv'
<1> USE EnvelopeIsMatch
<1>0. Of[s] \in Seats /\ match \in Matches /\ bots \in BotLoops
  BY SeatsAssumption, BotsAreLoops DEF TableInv
<1>1. CASE Connect(s)
  BY <1>0, <1>1, TableKeeps DEF Connect, HandlerAt, TableInv, TypeOK, PausedForAwaited, Here
<1>2. CASE EndStandIn(s)
  <2> DEFINE n == WithoutStandIn(Of[s])
  <2>1. n \in Matches /\ n.status = match.status /\ n.waiting = match.waiting
    BY <1>0, SeatingIsMatch DEF WithoutStandIn, Matches
  <2>2. match' \in {match, n} /\ sweep' \in {"idle", sweep}
    BY <1>2 DEF EndStandIn, EndsStandIn, Save, NoSave
  <2> HIDE DEF n
  <2> QED BY <1>0, <1>2, <2>1, <2>2, TableKeeps DEF EndStandIn, HandlerAt, TableInv, TypeOK, PausedForAwaited, Here
<1>3. CASE ResumeIfReturning(s)
  <2>1. match' \in {match, Unsuspended(match)} /\ sweep' \in {"idle", sweep}
    BY <1>3 DEF ResumeIfReturning, Save, NoSave
  <2>2. WakeBots \/ UNCHANGED bots
    BY <1>3 DEF ResumeIfReturning
  <2>3. match' \in Matches /\ (match'.status = "suspended" => match' = match)
    BY <1>0, <2>1, UnsuspendedIsMatch
  <2> QED BY <1>3, <2>1, <2>2, <2>3, WokenIsBots, TableKeeps
          DEF ResumeIfReturning, HandlerAt, TableInv, TypeOK, PausedForAwaited, Here
<1>4. CASE Greet(s)
  <2>1. WakeBots \/ UNCHANGED bots
    BY <1>4 DEF Greet
  <2> QED BY <1>0, <1>4, <2>1, WokenIsBots, TableKeeps DEF Greet, HandlerAt, TableInv, TypeOK, PausedForAwaited, Here
<1>5. CASE Displaced(s)
  BY <1>0, <1>5, TableKeeps DEF Displaced, HandlerAt, TableInv, TypeOK, PausedForAwaited, Here
<1>6. CASE SuspendOnDisconnect(s)
  <2>1. MayPauseFor(Of[s]) => Of[s] \in awaited
    BY DEF MayPauseFor
  <2>2. /\ match' = match \/ (match' = Paused(Of[s]) /\ MayPauseFor(Of[s]))
        /\ sweep' \in {"idle", sweep} /\ timers' \subseteq timers \cup {Of[s]}
    BY <1>6 DEF SuspendOnDisconnect, Save, NoSave
  <2>3. Paused(Of[s]) \in Matches /\ Paused(Of[s]).waiting = Of[s]
    BY <1>0, PauseIsMatch DEF Paused
  <2> QED BY <1>0, <1>6, <2>1, <2>2, <2>3, TableKeeps
          DEF SuspendOnDisconnect, HandlerAt, TableInv, TypeOK, PausedForAwaited, Here
<1>7. CASE Drop(s)
  BY <1>0, <1>7, TableKeeps DEF Drop, HandlerAt, TableInv, TypeOK, PausedForAwaited, Here
<1>8. CASE Move(s)
  <2>1. Play(Of[s]) /\ WakeBots
    BY <1>8 DEF Move
  <2> QED BY <1>0, <1>8, <2>1, PlayIsMatch, WokenIsBots, TableKeeps
          DEF Move, sockets, TableInv, TypeOK, Here
<1> QED BY <1>1, <1>2, <1>3, <1>4, <1>5, <1>6, <1>7, <1>8 DEF HandlerStep

\* A stand-in's check, and what the host may press.
LEMMA SeatingKeepsTable ==
    ASSUME TableInv, UNCHANGED faulty, NEW p \in Seats,
           StandInOn(p) \/ StandInOff(p) \/ ResumeAbandoned(p) \/ \E over \in SUBSET awaited : CheckStandIns(p, over)
    PROVE  TableInv'
<1>1. CASE StandInOn(p)
  <2>1. /\ sweep' \in {"idle", sweep} /\ held' = held \ {p}
        /\ WakeBots \/ UNCHANGED bots
        /\ UNCHANGED <<awaited, here, handler, timers, moved>>
    BY <1>1 DEF StandInOn, Save, sockets
  <2> QED BY <1>1, <2>1, OnWrites, WokenIsBots, TableKeeps DEF SamePause, TableInv, TypeOK, PausedForAwaited, Here
<1>2. CASE StandInOff(p)
  <2>1. /\ sweep' \in {"idle", sweep} /\ held' = held \cup {p}
        /\ UNCHANGED <<awaited, here, handler, timers, bots, moved>>
    BY <1>2 DEF StandInOff, Save, NoSave, sockets
  <2> QED BY <1>2, <2>1, OffWrites, BotsAreLoops, TableKeeps DEF SamePause, TableInv, TypeOK, PausedForAwaited, Here
<1>3. CASE ResumeAbandoned(p)
  <2>1. /\ sweep' \in {"idle", sweep}
        /\ WakeBots \/ UNCHANGED bots
        /\ awaited' \in SUBSET Seats /\ match.status = "abandoned"
        /\ UNCHANGED <<here, handler, held, timers, moved>>
    BY <1>3 DEF ResumeAbandoned, Save, sockets, TableInv, TypeOK
  <2> QED BY <1>3, <2>1, ResumeWrites, WokenIsBots, TableKeeps DEF SamePause, TableInv, TypeOK, Here
<1>4. ASSUME NEW over \in SUBSET awaited, CheckStandIns(p, over) PROVE TableInv'
  <2>1. /\ sweep' \in {"idle", sweep}
        /\ timers' \subseteq timers \cup {q \in awaited : MayStandIn(q)}
        /\ WakeBots \/ UNCHANGED bots
        /\ UNCHANGED <<awaited, here, handler, held, moved>>
    BY <1>4 DEF CheckStandIns, Save, NoSave, sockets
  <2>2. timers' \subseteq Seats
    BY <2>1 DEF TableInv, TypeOK
  <2> QED BY <1>4, <2>1, <2>2, CheckWrites, WokenIsBots, TableKeeps
          DEF SamePause, TableInv, TypeOK, PausedForAwaited, Here
<1> QED BY <1>1, <1>2, <1>3, <1>4

\* The bot loop.
LEMMA BotKeepsTable ==
    ASSUME TableInv, UNCHANGED faulty, BotStep
    PROVE  TableInv'
<1>0. match \in Matches
  BY EnvelopeIsMatch DEF TableInv
<1>1. CASE BotRead
  <2> DEFINE driven == {p \in awaited : StandInPlaying(p)}
             first  == CHOOSE p \in driven : \A q \in driven : p <= q
             before == {p \in awaited : driven = {} \/ p < first}
  <2>1. driven \in SUBSET Seats
    BY DEF TableInv, TypeOK
  <2>2. driven # {} => first \in Seats
    <3> HIDE DEF driven
    <3> QED BY <2>1, FirstSeat
  <2>3. timers' = timers \/ timers' = timers \cup {p \in before : LookedAtAgain(p)}
    BY <1>1 DEF BotRead
  <2>4. timers' \subseteq Seats
    BY <2>3 DEF TableInv, TypeOK
  <2>5. BotsAt("ending", FALSE)
        \/ (driven # {} /\ bots' = [at |-> "thinking", seat |-> first, lost |-> FALSE])
    BY <1>1 DEF BotRead
  <2> HIDE DEF driven, first
  <2>6. bots' \in BotLoops
    <3>1. CASE BotsAt("ending", FALSE)
      BY <3>1, IdleIsBots
    <3>2. CASE driven # {} /\ bots' = [at |-> "thinking", seat |-> first, lost |-> FALSE]
      BY <2>2, <3>2 DEF BotLoops
    <3> QED BY <2>5, <3>1, <3>2
  <2>7. UNCHANGED <<match, awaited, sockets, held, sweep, moved>>
    BY <1>1 DEF BotRead
  <2> QED BY <1>0, <2>4, <2>6, <2>7, TableKeeps DEF sockets, TableInv, TypeOK, PausedForAwaited, Here
<1>2. CASE BotGivesUp \/ BotEnds \/ StandInRefused
  <2>1. bots' \in BotLoops
    <3>1. BotEnds => bots.lost \in BOOLEAN
      BY DEF BotEnds, TableInv, TypeOK
    <3> QED BY <1>2, <3>1, IdleIsBots, LoopsOnIsBots DEF BotGivesUp, BotEnds, StandInRefused
  <2>2. UNCHANGED <<match, awaited, sockets, held, timers, sweep, moved>>
    BY <1>2 DEF BotGivesUp, BotEnds, StandInRefused
  <2> QED BY <1>0, <2>1, <2>2, TableKeeps DEF sockets, TableInv, TypeOK, PausedForAwaited, Here
<1>3. ASSUME NEW p \in Seats, StandInMoves(p) PROVE TableInv'
  <2>1. Play(p) /\ LoopsOn /\ UNCHANGED <<sockets, held, timers>>
    BY <1>3 DEF StandInMoves
  <2> QED BY <2>1, PlayIsMatch, LoopsOnIsBots, TableKeeps DEF sockets, TableInv, TypeOK, Here
<1> QED BY <1>1, <1>2, <1>3 DEF BotStep

\* The reaper, and a process that dies.
LEMMA SweepKeepsTable ==
    ASSUME TableInv, UNCHANGED faulty, SweepReads \/ SweepStep \/ Crash
    PROVE  TableInv'
<1>0. match \in Matches
  BY EnvelopeIsMatch DEF TableInv
<1>1. CASE SweepReads
  BY <1>0, <1>1, TableKeeps DEF SweepReads, sockets, TableInv, TypeOK, PausedForAwaited, Here
<1>2. CASE SweepLooks
  BY <1>0, <1>2, TableKeeps DEF SweepLooks, sockets, TableInv, TypeOK, PausedForAwaited, Here
<1>3. CASE Abandon
  <2>1. [match EXCEPT !.status = "abandoned"] \in Matches
    BY <1>0 DEF Matches
  <2>2. [match EXCEPT !.status = "abandoned"].status = "abandoned"
    BY <1>0 DEF Matches
  <2> QED BY <1>0, <1>3, <2>1, <2>2, TableKeeps DEF Abandon, sockets, TableInv, TypeOK, PausedForAwaited, Here
<1>4. CASE Crash
  BY <1>0, <1>4, IdleIsBots, TableKeeps DEF Crash, TableInv, TypeOK, PausedForAwaited, Here
<1> QED BY <1>1, <1>2, <1>3, <1>4 DEF SweepStep

LEMMA StepKeepsTable == TableInv /\ [Next]_vars => TableInv'
<1> SUFFICES ASSUME TableInv, [Next]_vars PROVE TableInv'
  OBVIOUS
<1>1. CASE UNCHANGED vars
  BY <1>1 DEF vars, TableInv, TypeOK, PausedForAwaited, Here
<1>2. CASE MatchStep /\ UNCHANGED faulty
  BY <1>2, HandlerKeepsTable, SeatingKeepsTable, BotKeepsTable, SweepKeepsTable DEF MatchStep
<1> QED BY <1>1, <1>2 DEF Next

LEMMA TableInvHolds == Spec => []TableInv
BY InitTable, StepKeepsTable, PTL DEF Spec

\* Every state is of its type, whatever the sockets, the host, the bots and the
\* reaper do (MatchPresence!TypeOK).
THEOREM PresenceTypesHold == Spec => []TypeOK
BY TableInvHolds, PTL DEF TableInv

\* A table is only ever paused for a player it is waiting for: what suspendLocked
\* saw under the lock is so until the table is taken up again.
THEOREM PausedForAwaitedHolds == Spec => []PausedForAwaited
BY TableInvHolds, PTL DEF TableInv

-----------------------------------------------------------------------------
(* A player who is back plays for themselves *)

\* With a store that takes every write, a seat whose socket has been returned to
\* has no bot in it; nor has a table been moved at since the reaper read it.
Returned == ~faulty =>
    /\ \A p \in Seats : Here(p) /\ handler[here[p]] # "arriving" => p \notin match.standIn
    /\ ~moved

SeatInv == TableInv /\ Returned

LEMMA InitReturned == Init => Returned
BY DEF Init, Returned, Here

\* A step that takes no seat for a bot but an absent player's, and leaves the
\* sockets alone, leaves the returned as they are.
LEMMA ReturnedKept ==
    ASSUME Returned, UNCHANGED <<here, handler, faulty>>, ~faulty => ~moved',
           BotsOnlyForAway
    PROVE  Returned'
BY DEF BotsOnlyForAway, Returned, Here

LEMMA HandlerKeepsReturned ==
    ASSUME SeatInv, UNCHANGED faulty, NEW s \in Sockets,
           Connect(s) \/ HandlerStep(s) \/ Drop(s) \/ Move(s)
    PROVE  Returned'
<1> SUFFICES ASSUME ~faulty PROVE Returned'
  BY DEF Returned
<1> USE EnvelopeIsMatch
<1>0. Of[s] \in Seats /\ match \in Matches /\ ~moved
  BY SeatsAssumption DEF SeatInv, TableInv, Returned
<1>a. \A p \in Seats : Here(p) => here[p] \in Sockets /\ Of[here[p]] = p
  BY DEF SeatInv, TableInv, TypeOK, Here
<1>b. \A p \in Seats : Here(p) /\ handler[here[p]] # "arriving" => p \notin match.standIn
  BY DEF SeatInv, Returned
<1>c. handler \in [Sockets -> {"closed", "arriving", "returning", "greeting", "serving", "leaving"}]
  BY DEF SeatInv, TableInv, TypeOK
<1>1. CASE Connect(s)
  <2>1. here'[Of[s]] = s /\ \A p \in Seats \ {Of[s]} : here'[p] = here[p] /\ Here(p)' = Here(p)
    BY <1>0, <1>1 DEF Connect, Here, SeatInv, TableInv, TypeOK
  <2>2. handler'[s] = "arriving" /\ \A t \in Sockets \ {s} : handler'[t] = handler[t]
    BY <1>1, <1>c DEF Connect, HandlerAt
  <2>3. ASSUME NEW p \in Seats, Here(p)', handler'[here'[p]] # "arriving" PROVE p \notin match.standIn
    BY <1>a, <1>b, <2>1, <2>2, <2>3
  <2> QED BY <1>0, <1>1, <2>3 DEF Connect, Returned
<1>2. CASE EndStandIn(s)
  <2>1. match'.standIn = match.standIn \ {Of[s]}
    <3>1. CASE Of[s] \in match.standIn
      BY <1>0, <1>2, <3>1 DEF EndStandIn, EndsStandIn, Save, WithoutStandIn, Matches
    <3>2. CASE Of[s] \notin match.standIn
      BY <1>0, <1>2, <3>2 DEF EndStandIn, EndsStandIn, NoSave
    <3> QED BY <3>1, <3>2
  <2>2. UNCHANGED <<here, moved>> /\ \A t \in Sockets \ {s} : handler'[t] = handler[t]
    BY <1>2, <1>c DEF EndStandIn, HandlerAt
  <2>3. ASSUME NEW p \in Seats, Here(p), handler'[here[p]] # "arriving" PROVE p \notin match'.standIn
    BY <1>a, <1>b, <2>1, <2>2, <2>3
  <2> QED BY <1>0, <2>2, <2>3 DEF Returned, Here
<1>3. ASSUME handler' = [handler EXCEPT ![s] = handler'[s]], handler'[s] # "arriving" => handler[s] # "arriving",
             match'.standIn = match.standIn, UNCHANGED <<here, moved>>
      PROVE  Returned'
  <2>1. ASSUME NEW p \in Seats, Here(p), handler'[here[p]] # "arriving" PROVE handler[here[p]] # "arriving"
    BY <1>3, <1>a, <1>c, <2>1
  <2> QED BY <1>0, <1>3, <1>b, <2>1 DEF Returned, Here
<1>4. CASE ResumeIfReturning(s)
  <2>1. match'.standIn = match.standIn
    BY <1>0, <1>4, UnsuspendedIsMatch DEF ResumeIfReturning, Save, NoSave
  <2> QED BY <1>3, <1>4, <1>c, <2>1 DEF ResumeIfReturning, HandlerAt
<1>5. CASE Greet(s) \/ Displaced(s)
  BY <1>3, <1>5, <1>c DEF Greet, Displaced, HandlerAt
<1>6. CASE SuspendOnDisconnect(s)
  <2>1. match'.standIn = match.standIn
    <3>1. match' \in {match, Paused(Of[s])}
      BY <1>6 DEF SuspendOnDisconnect, Save, NoSave
    <3>2. Paused(Of[s]).standIn = match.standIn
      BY <1>0, PauseIsMatch DEF Paused
    <3> QED BY <3>1, <3>2
  <2> QED BY <1>3, <1>6, <1>c, <2>1 DEF SuspendOnDisconnect, HandlerAt
<1>7. CASE Drop(s)
  <2>1. \A p \in Seats : Here(p)' => here'[p] = here[p] /\ Here(p)
    BY <1>7 DEF Drop, Here
  <2>2. \A t \in Sockets : handler[t] = "arriving" => handler'[t] = handler[t]
    BY <1>7, <1>c DEF Drop, HandlerAt
  <2>3. UNCHANGED <<match, moved>>
    BY <1>7 DEF Drop
  <2>4. ASSUME NEW p \in Seats, Here(p)', handler'[here'[p]] # "arriving" PROVE p \notin match'.standIn
    BY <1>a, <1>b, <2>1, <2>2, <2>3, <2>4
  <2> QED BY <1>0, <2>3, <2>4 DEF Returned
<1>8. CASE Move(s)
  <2>1. Play(Of[s]) /\ UNCHANGED <<here, handler>>
    BY <1>8 DEF Move, sockets
  <2> QED BY <1>0, <2>1, PlayIsMatch, ReturnedKept DEF SeatInv, BotsOnlyForAway
<1> QED BY <1>1, <1>2, <1>4, <1>5, <1>6, <1>7, <1>8 DEF HandlerStep

LEMMA StepKeepsReturned == SeatInv /\ [Next]_vars => Returned'
<1> SUFFICES ASSUME SeatInv, [Next]_vars PROVE Returned'
  OBVIOUS
<1> USE EnvelopeIsMatch
<1>0. match \in Matches /\ (~faulty => ~moved) /\ TableInv
  BY DEF SeatInv, TableInv, Returned
<1>1. CASE UNCHANGED vars
  BY <1>1 DEF vars, SeatInv, Returned, Here
<1> SUFFICES ASSUME MatchStep, UNCHANGED faulty PROVE Returned'
  BY <1>1 DEF Next
<1>2. ASSUME NEW s \in Sockets, Connect(s) \/ HandlerStep(s) \/ Drop(s) \/ Move(s) PROVE Returned'
  BY <1>2, HandlerKeepsReturned
<1>3. ASSUME UNCHANGED <<here, handler>>, ~faulty => ~moved', BotsOnlyForAway
      PROVE  Returned'
  BY <1>3, ReturnedKept DEF SeatInv
<1>4. ASSUME NEW p \in Seats, StandInOn(p) PROVE Returned'
  BY <1>0, <1>3, <1>4, OnWrites DEF StandInOn, sockets, BotsOnlyForAway
<1>5. ASSUME NEW p \in Seats, StandInOff(p) PROVE Returned'
  BY <1>0, <1>3, <1>5, OffWrites DEF StandInOff, sockets, BotsOnlyForAway
<1>6. ASSUME NEW p \in Seats, ResumeAbandoned(p) PROVE Returned'
  BY <1>0, <1>3, <1>6, ResumeWrites DEF ResumeAbandoned, sockets, BotsOnlyForAway
<1>7. ASSUME NEW p \in Seats, NEW over \in SUBSET awaited, CheckStandIns(p, over) PROVE Returned'
  BY <1>0, <1>3, <1>7, CheckWrites DEF CheckStandIns, sockets, BotsOnlyForAway
<1>8. CASE BotStep
  <2>1. CASE BotRead \/ BotGivesUp \/ BotEnds \/ StandInRefused
    BY <1>0, <1>3, <2>1 DEF BotRead, BotGivesUp, BotEnds, StandInRefused, sockets, BotsOnlyForAway
  <2>2. ASSUME NEW p \in Seats, StandInMoves(p) PROVE Returned'
    <3>1. Play(p) /\ UNCHANGED <<here, handler>>
      BY <2>2 DEF StandInMoves, sockets
    <3> QED BY <1>0, <1>3, <3>1, PlayIsMatch DEF BotsOnlyForAway
  <2> QED BY <1>8, <2>1, <2>2 DEF BotStep
<1>9. CASE SweepReads \/ SweepLooks
  BY <1>0, <1>3, <1>9 DEF SweepReads, SweepLooks, sockets, BotsOnlyForAway
<1>10. CASE Abandon
  <2>1. match'.standIn = match.standIn
    BY <1>0, <1>10 DEF Abandon, Matches
  <2> QED BY <1>3, <1>10, <2>1 DEF Abandon, sockets, BotsOnlyForAway
<1>11. CASE Crash
  BY <1>11 DEF Crash, Returned, Here
<1> QED BY <1>2, <1>4, <1>5, <1>6, <1>7, <1>8, <1>9, <1>10, <1>11 DEF MatchStep, SweepStep

LEMMA SeatInvHolds == Spec => []SeatInv
<1>1. Init => SeatInv
  BY InitTable, InitReturned DEF SeatInv
<1>2. SeatInv /\ [Next]_vars => SeatInv'
  BY StepKeepsTable, StepKeepsReturned DEF SeatInv
<1> QED BY <1>1, <1>2, PTL DEF Spec

\* A serving player has been returned to.
LEMMA ServingIsReturned ==
    ASSUME SeatInv, ~faulty
    PROVE  \A p \in Seats : Serving(p) => p \notin match.standIn
<1> SUFFICES ASSUME NEW p \in Seats, NEW s \in Sockets, here[p] = s, handler[s] = "serving"
             PROVE  p \notin match.standIn
  BY DEF Serving
<1>1. Here(p)
  BY SeatsAssumption DEF Here
<1> QED BY <1>1 DEF SeatInv, Returned

\* No order of drops, returns, timers and the host's presses leaves a bot in the
\* seat of a player who is back, if the store took the return.
THEOREM PresentPlayThemselvesHolds == Spec => []PresentPlayThemselves
<1>1. SeatInv => PresentPlayThemselves
  BY ServingIsReturned DEF PresentPlayThemselves
<1> QED BY <1>1, SeatInvHolds, PTL

\* Nor does a stand-in that was thinking meanwhile move for them: handleAction
\* asks again under the lock.
THEOREM NoStolenTurnHolds == Spec => NoStolenTurn
<1>1. SeatInv /\ [Next]_vars => [\A p \in Seats : ~faulty /\ Serving(p) => ~StandInMoves(p)]_vars
  BY ServingIsReturned DEF StandInMoves, StillStandsIn
<1> QED BY <1>1, SeatInvHolds, PTL DEF Spec, NoStolenTurn

\* The reaper does not sweep up a table somebody moved at since it read it: every
\* move that lands moves the version on.
THEOREM MovedIsNotSweptHolds == Spec => MovedIsNotSwept
<1>1. SeatInv /\ [Next]_vars => [Abandon /\ moved /\ ~faulty => match'.status = match.status]_vars
  BY DEF SeatInv, Returned
<1> QED BY <1>1, SeatInvHolds, PTL DEF Spec, MovedIsNotSwept

-----------------------------------------------------------------------------
(* A player who is back is not waited for, if nothing overtakes their return *)

\* No second socket of a player opens before the first is done with.
SocketPerSeat == \A s, t \in Sockets : Of[s] = Of[t] => s = t

\* Every socket that is served is its seat's, and the table is not paused for a
\* player whose return has been dealt with.
Away ==
    /\ ~faulty
    /\ \A s \in Sockets : handler[s] \in {"arriving", "returning", "greeting", "serving"} => here[Of[s]] = s
    /\ \A s \in Sockets : handler[s] \in {"greeting", "serving"} => ~PausedFor(Of[s])

\* A step that leaves the sockets alone and pauses for nobody but an absent player.
LEMMA AwayKept ==
    ASSUME TableInv, Away, UNCHANGED <<here, handler, faulty>>,
           SamePause \/ \E p \in Seats : match'.waiting = p /\ ~Here(p)
    PROVE  Away'
<1>1. ASSUME NEW s \in Sockets, handler[s] \in {"greeting", "serving"} PROVE Here(Of[s]) /\ ~PausedFor(Of[s])
  BY <1>1, SeatsAssumption DEF Away, Here
<1>2. ASSUME NEW s \in Sockets, handler[s] \in {"greeting", "serving"} PROVE ~PausedFor(Of[s])'
  BY <1>1, <1>2 DEF SamePause, PausedFor
<1> QED BY <1>2 DEF Away

LEMMA HandlerKeepsAway ==
    ASSUME SocketPerSeat, TableInv, Away, UNCHANGED faulty, NEW s \in Sockets,
           Connect(s) \/ HandlerStep(s) \/ Drop(s) \/ Move(s)
    PROVE  Away'
<1> USE EnvelopeIsMatch
<1>0. /\ Of[s] \in Seats /\ match \in Matches /\ ~faulty
      /\ here \in [Seats -> Sockets \cup {NoSocket}]
      /\ handler \in [Sockets -> {"closed", "arriving", "returning", "greeting", "serving", "leaving"}]
  BY SeatsAssumption DEF TableInv, TypeOK, Away
<1>1. \A t \in Sockets \ {s} : Of[t] # Of[s]
  BY DEF SocketPerSeat
<1>2. ASSUME \A t \in Sockets \ {s} : handler'[t] = handler[t] /\ here'[Of[t]] = here[Of[t]],
             handler'[s] \in {"arriving", "returning", "greeting", "serving"} => here'[Of[s]] = s,
             handler'[s] \in {"greeting", "serving"} => ~PausedFor(Of[s])',
             SamePause \/ match'.waiting = Of[s]
      PROVE  Away'
  <2>1. ASSUME NEW t \in Sockets, handler'[t] \in {"greeting", "serving"} PROVE ~PausedFor(Of[t])'
    <3>1. CASE t = s
      BY <1>2, <2>1, <3>1
    <3>2. CASE t # s
      <4>1. ~PausedFor(Of[t]) /\ Of[t] # Of[s]
        BY <1>1, <1>2, <2>1, <3>2 DEF Away
      <4> QED BY <1>2, <4>1 DEF SamePause, PausedFor
    <3> QED BY <3>1, <3>2
  <2> QED BY <1>2, <2>1 DEF Away
<1>3. CASE Connect(s)
  <2>1. here'[Of[s]] = s /\ handler'[s] = "arriving" /\ SamePause
    BY <1>0, <1>3 DEF Connect, HandlerAt, SamePause
  <2>2. \A t \in Sockets \ {s} : handler'[t] = handler[t] /\ here'[Of[t]] = here[Of[t]]
    BY <1>0, <1>1, <1>3 DEF Connect, HandlerAt
  <2> QED BY <1>2, <2>1, <2>2
<1>4. CASE EndStandIn(s)
  <2>1. handler'[s] = "returning" /\ here' = here /\ here[Of[s]] = s
        /\ \A t \in Sockets \ {s} : handler'[t] = handler[t]
    BY <1>0, <1>4 DEF EndStandIn, HandlerAt, Away
  <2>2. SamePause
    <3>1. match' \in {match, WithoutStandIn(Of[s])}
      BY <1>4 DEF EndStandIn, EndsStandIn, Save, NoSave
    <3> QED BY <1>0, <3>1 DEF WithoutStandIn, SamePause, Matches
  <2> QED BY <1>2, <2>1, <2>2
<1>5. CASE ResumeIfReturning(s)
  <2>1. handler'[s] = "greeting" /\ here' = here /\ here[Of[s]] = s
        /\ \A t \in Sockets \ {s} : handler'[t] = handler[t]
    BY <1>0, <1>5 DEF ResumeIfReturning, HandlerAt, Away
  <2>2. match' = IF PausedFor(Of[s]) THEN Unsuspended(match) ELSE match
    BY <1>0, <1>5 DEF ResumeIfReturning, ResumesFor, Save, NoSave
  <2>3. SamePause /\ ~PausedFor(Of[s])'
    BY <1>0, <2>2, UnsuspendedIsMatch DEF SamePause, PausedFor
  <2> QED BY <1>2, <2>1, <2>3
<1>6. CASE Greet(s)
  <2>1. handler'[s] = "serving" /\ here' = here /\ here[Of[s]] = s /\ match' = match /\ ~PausedFor(Of[s])
        /\ \A t \in Sockets \ {s} : handler'[t] = handler[t]
    BY <1>0, <1>6 DEF Greet, HandlerAt, Away
  <2> QED BY <1>2, <2>1 DEF SamePause, PausedFor
<1>7. CASE Displaced(s) \/ Drop(s)
  <2>1. handler'[s] \in {"closed", "leaving"} /\ match' = match
    BY <1>0, <1>7 DEF Displaced, Drop, HandlerAt
  <2>2. \A t \in Sockets \ {s} : handler'[t] = handler[t] /\ here'[Of[t]] = here[Of[t]]
    <3>1. CASE Displaced(s)
      BY <1>0, <3>1 DEF Displaced, HandlerAt
    <3>2. CASE Drop(s)
      BY <1>0, <1>1, <3>2, SeatsAssumption DEF Drop, HandlerAt
    <3> QED BY <1>7, <3>1, <3>2
  <2> QED BY <1>2, <2>1, <2>2 DEF SamePause
<1>8. CASE SuspendOnDisconnect(s)
  <2>1. handler'[s] = "closed" /\ here' = here
        /\ \A t \in Sockets \ {s} : handler'[t] = handler[t]
    BY <1>0, <1>8 DEF SuspendOnDisconnect, HandlerAt
  <2>2. match' \in {match, Paused(Of[s])}
    BY <1>8 DEF SuspendOnDisconnect, Save, NoSave
  <2>3. Paused(Of[s]).waiting = Of[s]
    BY <1>0, PauseIsMatch DEF Paused
  <2> QED BY <1>2, <2>1, <2>2, <2>3 DEF SamePause
<1>9. CASE Move(s)
  <2>1. Play(Of[s]) /\ UNCHANGED <<here, handler>>
    BY <1>9 DEF Move, sockets
  <2>2. SamePause
    BY <1>0, <2>1, PlayIsMatch DEF SamePause
  <2> QED BY <2>1, <2>2, AwayKept
<1> QED BY <1>3, <1>4, <1>5, <1>6, <1>7, <1>8, <1>9 DEF HandlerStep

LEMMA StepKeepsAway ==
    ASSUME SocketPerSeat, TableInv, Away, [Next]_vars
    PROVE  Away'
<1>0. match \in Matches
  BY EnvelopeIsMatch DEF TableInv
<1>1. CASE UNCHANGED vars
  BY <1>1 DEF vars, Away, PausedFor
<1> SUFFICES ASSUME MatchStep, UNCHANGED faulty PROVE Away'
  BY <1>1 DEF Next
<1>2. ASSUME NEW s \in Sockets, Connect(s) \/ HandlerStep(s) \/ Drop(s) \/ Move(s) PROVE Away'
  BY <1>2, HandlerKeepsAway
<1>3. ASSUME NEW p \in Seats, StandInOn(p) PROVE Away'
  BY <1>3, OnWrites, AwayKept DEF StandInOn, sockets
<1>4. ASSUME NEW p \in Seats, StandInOff(p) PROVE Away'
  BY <1>4, OffWrites, AwayKept DEF StandInOff, sockets
<1>5. ASSUME NEW p \in Seats, ResumeAbandoned(p) PROVE Away'
  BY <1>5, ResumeWrites, AwayKept DEF ResumeAbandoned, sockets
<1>6. ASSUME NEW p \in Seats, NEW over \in SUBSET awaited, CheckStandIns(p, over) PROVE Away'
  BY <1>6, CheckWrites, AwayKept DEF CheckStandIns, sockets
<1>7. CASE BotRead \/ BotGivesUp \/ BotEnds \/ StandInRefused \/ SweepReads \/ SweepLooks
  BY <1>7, AwayKept DEF BotRead, BotGivesUp, BotEnds, StandInRefused, SweepReads, SweepLooks, sockets, SamePause
<1>8. ASSUME NEW p \in Seats, StandInMoves(p) PROVE Away'
  <2>1. Play(p) /\ UNCHANGED <<here, handler>>
    BY <1>8 DEF StandInMoves, sockets
  <2> QED BY <2>1, PlayIsMatch, AwayKept DEF SamePause
<1>9. CASE Abandon
  <2>1. SamePause
    BY <1>0, <1>9 DEF Abandon, SamePause, Matches
  <2> QED BY <1>9, <2>1, AwayKept DEF Abandon, sockets
<1>10. CASE Crash
  BY <1>10 DEF Crash, Away
<1> QED BY <1>2, <1>3, <1>4, <1>5, <1>6, <1>7, <1>8, <1>9, <1>10 DEF MatchStep, BotStep, SweepStep

\* If a player's socket only opens once the last is done with, and the store takes
\* every write, a table is not paused for a player who is at it.  (A socket that
\* overtakes the last one's SuspendOnDisconnect is what breaks it.)
THEOREM PausedPlayerIsAwayHolds ==
    ASSUME SocketPerSeat, MayFail = {FALSE}
    PROVE  Spec => []PausedPlayerIsAway
<1>1. Init => TableInv /\ Away
  <2> SUFFICES ASSUME Init PROVE TableInv /\ Away
    OBVIOUS
  <2> QED BY InitTable DEF Init, Away
<1>2. (TableInv /\ Away) /\ [Next]_vars => (TableInv /\ Away)'
  BY StepKeepsTable, StepKeepsAway
<1>3. TableInv /\ Away => PausedPlayerIsAway
  <2> SUFFICES ASSUME Away, NEW p \in Seats, NEW s \in Sockets, here[p] = s, handler[s] = "serving", TableInv
               PROVE  ~PausedFor(p)
    BY DEF PausedPlayerIsAway, Serving
  <2>1. Of[s] = p
    BY SeatsAssumption DEF TableInv, TypeOK, Here
  <2> QED BY <2>1 DEF Away
<1> QED BY <1>1, <1>2, <1>3, PTL DEF Spec

-----------------------------------------------------------------------------
(* What those at the table see is MatchTable *)

Sitting == {"greeting", "serving"}

\* A table the reaper has its eye on is live.
Swept == sweep # "idle" => match.status \in {"active", "suspended"}

SeenInv == SeatInv /\ Away /\ Swept

TableStep == [Table!Next]_Table!table

\* A write that lands ends the sweep, and nothing else takes a live table away.
LEMMA StepKeepsSwept == ASSUME SeatInv, Away, Swept, [Next]_vars PROVE Swept'
<1> USE EnvelopeIsMatch
<1>0. match \in Matches /\ ~faulty
  BY DEF SeatInv, TableInv, Away
<1>1. CASE UNCHANGED vars
  BY <1>1 DEF vars, Swept
<1> SUFFICES ASSUME MatchStep PROVE Swept'
  BY <1>1 DEF Next
<1>2. ASSUME UNCHANGED <<match, sweep>> \/ sweep' = "idle" PROVE Swept'
  BY <1>2 DEF Swept
<1>3. ASSUME NEW next, Save(next) PROVE sweep' = "idle"
  BY <1>0, <1>3 DEF Save
<1>4. ASSUME NEW p, Play(p) PROVE sweep' = "idle"
  BY <1>3, <1>4 DEF Play, Touch
<1>5. ASSUME NEW s \in Sockets, Connect(s) \/ HandlerStep(s) \/ Drop(s) \/ Move(s) PROVE Swept'
  <2>1. CASE Connect(s) \/ Greet(s) \/ Displaced(s) \/ Drop(s)
    BY <1>2, <2>1 DEF Connect, Greet, Displaced, Drop
  <2>2. CASE EndStandIn(s) \/ ResumeIfReturning(s) \/ SuspendOnDisconnect(s)
    BY <1>2, <1>3, <2>2 DEF EndStandIn, EndsStandIn, ResumeIfReturning, SuspendOnDisconnect, NoSave
  <2>3. CASE Move(s)
    BY <1>2, <1>4, <2>3 DEF Move
  <2> QED BY <1>5, <2>1, <2>2, <2>3 DEF HandlerStep
<1>6. ASSUME NEW p \in Seats, StandInOn(p) \/ StandInOff(p) \/ ResumeAbandoned(p) PROVE Swept'
  BY <1>2, <1>3, <1>6 DEF StandInOn, StandInOff, ResumeAbandoned, NoSave
<1>7. ASSUME NEW p \in Seats, NEW over \in SUBSET awaited, CheckStandIns(p, over) PROVE Swept'
  BY <1>2, <1>3, <1>7 DEF CheckStandIns, NoSave
<1>8. CASE BotStep
  BY <1>2, <1>4, <1>8 DEF BotStep, BotRead, BotGivesUp, BotEnds, StandInRefused, StandInMoves
<1>9. CASE SweepReads \/ SweepStep \/ Crash
  BY <1>9 DEF SweepReads, Sweepable, SweepStep, SweepLooks, Abandon, Crash, Swept
<1> QED BY <1>5, <1>6, <1>7, <1>8, <1>9 DEF MatchStep

\* Who is at the table, when every socket that is served is its seat's.
PresentSit == \A p \in Seats : p \in Present <=> \E s \in Sockets : Of[s] = p /\ handler[s] \in Sitting

LEMMA PresentIs == TableInv /\ Away => PresentSit
<1> SUFFICES ASSUME TableInv, Away, NEW p \in Seats
             PROVE  p \in Present <=> \E s \in Sockets : Of[s] = p /\ handler[s] \in Sitting
  BY DEF PresentSit
<1>1. \A s \in Sockets : here[p] = s => Of[s] = p
  BY SeatsAssumption DEF TableInv, TypeOK, Here
<1>2. \A s \in Sockets : handler[s] \in Sitting => here[Of[s]] = s
  BY DEF Away, Sitting
<1> QED BY <1>1, <1>2 DEF Present, Sitting

\* Nobody at the table has a bot in their seat.
LEMMA PresentAreThere ==
    ASSUME SeatInv, Away
    PROVE  \A p \in Present : p \in Seats /\ Here(p) /\ p \notin match.standIn
<1> SUFFICES ASSUME NEW p \in Seats, NEW s \in Sockets, here[p] = s, handler[s] \in Sitting
             PROVE  Here(p) /\ p \notin match.standIn
  BY DEF Present, Sitting
<1>1. Here(p)
  BY SeatsAssumption DEF Here
<1> QED BY <1>1 DEF SeatInv, Returned, Away, Sitting

LEMMA SamePresent == ASSUME UNCHANGED <<here, handler>> PROVE Present' = Present
BY DEF Present

\* A step that writes nothing and seats nobody is none of the table's.
LEMMA NotSeen == ASSUME UNCHANGED <<match, awaited>>, Present' = Present PROVE TableStep
BY DEF TableStep, Table!table

\* A move is one of a player at the table or of a bot in their seat.
LEMMA PlayIsSeen ==
    ASSUME SeatInv, ~faulty, NEW p \in Seats, Play(p), p \in Present \cup match.standIn, UNCHANGED <<here, handler>>
    PROVE  TableStep
<1>1. match \in Matches
  BY EnvelopeIsMatch DEF SeatInv, TableInv
<1>2. Table!Move(p)
  <2>1. CASE awaited' \in SUBSET Seats \ {{}} /\ Touch
    <3>1. match' = match
      BY <2>1 DEF Touch, Save
    <3> QED BY <2>1, <3>1, SamePresent DEF Play, Table!Move
  <2>2. CASE UNCHANGED awaited /\ match' = [match EXCEPT !.status = "completed"]
    <3>1. match'.status = "completed" /\ match'.waiting = match.waiting /\ match'.standIn = match.standIn
      BY <1>1, <2>2 DEF Matches
    <3> QED BY <2>2, <3>1, SamePresent DEF Play, Table!Move
  <2> QED BY <2>1, <2>2 DEF Play
<1> QED BY <1>2 DEF TableStep, Table!Next

-----------------------------------------------------------------------------
LEMMA HandlerIsSeen ==
    ASSUME SocketPerSeat, SeatInv, Away, Away', TableInv', UNCHANGED faulty, NEW s \in Sockets,
           Connect(s) \/ HandlerStep(s) \/ Drop(s) \/ Move(s)
    PROVE  TableStep
<1> USE EnvelopeIsMatch
<1>0. /\ TableInv /\ Of[s] \in Seats /\ match \in Matches /\ ~faulty /\ awaited \subseteq Seats
      /\ handler \in [Sockets -> {"closed", "arriving", "returning", "greeting", "serving", "leaving"}]
  BY SeatsAssumption DEF SeatInv, TableInv, TypeOK, Away
<1>1. /\ \A p \in Seats : p \in Present <=> \E t \in Sockets : Of[t] = p /\ handler[t] \in Sitting
      /\ \A p \in Seats : p \in Present' <=> \E t \in Sockets : Of[t] = p /\ handler'[t] \in Sitting
  <2>1. PresentSit
    BY <1>0, PresentIs
  <2>2. PresentSit'
    BY PresentIs, PTL
  <2> QED BY <2>1, <2>2 DEF PresentSit
<1>2. Present \subseteq Seats /\ Present' \subseteq Seats
  BY DEF Present
<1>3. \A t \in Sockets \ {s} : Of[t] # Of[s]
  BY DEF SocketPerSeat
<1>4. ASSUME handler' = [handler EXCEPT ![s] = handler'[s]], (handler[s] \in Sitting) = (handler'[s] \in Sitting)
      PROVE  Present' = Present
  <2>1. \A t \in Sockets : handler'[t] \in Sitting <=> handler[t] \in Sitting
    BY <1>0, <1>4
  <2> QED BY <1>1, <1>2, <2>1
<1>5. CASE Connect(s) \/ Greet(s)
  <2>1. handler' = [handler EXCEPT ![s] = handler'[s]] /\ (handler[s] \in Sitting) = (handler'[s] \in Sitting)
    BY <1>0, <1>5 DEF Connect, Greet, HandlerAt, Sitting
  <2> QED BY <1>4, <1>5, <2>1, NotSeen DEF Connect, Greet
<1>6. CASE EndStandIn(s)
  <2>1. Present' = Present
    BY <1>0, <1>4, <1>6 DEF EndStandIn, HandlerAt, Sitting
  <2>2. CASE Of[s] \in match.standIn
    <3>1. match' = WithoutStandIn(Of[s])
      BY <1>0, <1>6, <2>2 DEF EndStandIn, EndsStandIn, Save
    <3>2. match'.standIn = match.standIn \ {Of[s]} /\ match'.status = match.status /\ match'.waiting = match.waiting
      BY <1>0, <3>1 DEF WithoutStandIn, Matches
    <3>3. Table!GiveBack(Of[s])
      BY <1>6, <2>1, <3>2 DEF EndStandIn, Table!GiveBack
    <3> QED BY <1>0, <3>3 DEF TableStep, Table!Next
  <2>3. CASE Of[s] \notin match.standIn
    BY <1>6, <2>1, <2>3, NotSeen DEF EndStandIn, EndsStandIn, NoSave
  <2> QED BY <2>2, <2>3
<1>7. CASE ResumeIfReturning(s)
  <2>1. handler' = [handler EXCEPT ![s] = "greeting"] /\ handler[s] = "returning" /\ here' = here /\ awaited' = awaited
    BY <1>7 DEF ResumeIfReturning, HandlerAt
  <2>2. Present' = Present \cup {Of[s]}
    <3>1. \A t \in Sockets : handler'[t] \in Sitting <=> handler[t] \in Sitting \/ t = s
      BY <1>0, <2>1 DEF Sitting
    <3> QED BY <1>0, <1>1, <1>2, <3>1
  <2>3. Of[s] \notin match.standIn
    <3>1. here[Of[s]] = s
      BY <2>1 DEF Away
    <3>2. Here(Of[s])
      BY <3>1, SeatsAssumption DEF Here
    <3> QED BY <1>0, <2>1, <3>1, <3>2 DEF SeatInv, Returned
  <2>4. match' = IF PausedFor(Of[s]) THEN Unsuspended(match) ELSE match
    BY <1>0, <1>7 DEF ResumeIfReturning, ResumesFor, Save, NoSave
  <2>5. Table!Return(Of[s])
    <3>1. CASE PausedFor(Of[s])
      <4>1. match'.status = "active" /\ match'.waiting = NoOne /\ match'.standIn = match.standIn
        BY <1>0, <2>4, <3>1, UnsuspendedIsMatch
      <4> QED BY <2>1, <2>2, <2>3, <3>1, <4>1 DEF Table!Return, Table!TakenUp, PausedFor
    <3>2. CASE ~PausedFor(Of[s])
      BY <2>1, <2>2, <2>3, <2>4, <3>2 DEF Table!Return, Table!TakenUp, PausedFor
    <3> QED BY <3>1, <3>2
  <2> QED BY <1>0, <2>5 DEF TableStep, Table!Next
<1>8. CASE Displaced(s)
  BY <1>8 DEF Displaced, Away
<1>9. CASE Drop(s)
  <2>1. handler' = [handler EXCEPT ![s] = "leaving"] /\ UNCHANGED <<match, awaited>>
    BY <1>9 DEF Drop, HandlerAt
  <2>2. Present' = Present \ {Of[s]}
    <3>1. \A t \in Sockets : handler'[t] \in Sitting <=> handler[t] \in Sitting /\ t # s
      BY <1>0, <2>1 DEF Sitting
    <3> QED BY <1>0, <1>1, <1>2, <1>3, <3>1
  <2>3. Table!Leave({Of[s]})
    BY <2>1, <2>2 DEF Table!Leave
  <2> QED BY <1>0, <2>3 DEF TableStep, Table!Next
<1>10. CASE SuspendOnDisconnect(s)
  <2>1. Present' = Present
    BY <1>0, <1>4, <1>10 DEF SuspendOnDisconnect, HandlerAt, Sitting
  <2>2. CASE MayPauseFor(Of[s])
    <3>1. match' = Paused(Of[s]) /\ awaited' = awaited /\ handler[s] = "leaving"
      BY <1>0, <1>10, <2>2 DEF SuspendOnDisconnect, Save
    <3>2. match'.status = "suspended" /\ match'.waiting = Of[s] /\ match'.standIn = match.standIn
      BY <1>0, <3>1, PauseIsMatch DEF Paused
    <3>3. Of[s] \notin Present
      <4>1. \A t \in Sockets : Of[t] = Of[s] => handler[t] \notin Sitting
        BY <1>3, <3>1 DEF Sitting
      <4> QED BY <1>0, <1>1, <4>1
    <3>4. Table!Pause(Of[s])
      BY <2>1, <2>2, <3>1, <3>2, <3>3 DEF Table!Pause, MayPauseFor
    <3> QED BY <1>0, <3>4 DEF TableStep, Table!Next
  <2>3. CASE ~MayPauseFor(Of[s])
    BY <1>10, <2>1, <2>3, NotSeen DEF SuspendOnDisconnect, NoSave
  <2> QED BY <2>2, <2>3
<1>11. CASE Move(s)
  <2>1. Play(Of[s]) /\ UNCHANGED <<here, handler>>
    BY <1>11 DEF Move, sockets
  <2>2. Of[s] \in Present
    BY <1>0, <1>1, <1>11 DEF Move, Sitting
  <2> QED BY <1>0, <2>1, <2>2, PlayIsSeen
<1> QED BY <1>5, <1>6, <1>7, <1>8, <1>9, <1>10, <1>11 DEF HandlerStep

\* Bots put in for absent players, with the pause for one of them over.
LEMMA PutInIsSeen ==
    ASSUME SeatInv, Away, NEW ps \in SUBSET Seats, \A q \in ps : ~Here(q),
           match.status \in {"active", "suspended"}, UNCHANGED <<awaited, here, handler>>,
           \/ match' = WithStandIn(ps) /\ ~(match.status = "suspended" /\ match.waiting \in ps)
           \/ /\ match' = Unsuspended(WithStandIn(ps))
              /\ match.status = "suspended" /\ match.waiting \in match.standIn \cup ps
    PROVE  TableStep
<1>1. match \in Matches
  BY EnvelopeIsMatch DEF SeatInv, TableInv
<1>2. /\ WithStandIn(ps) \in Matches /\ WithStandIn(ps).status = match.status
      /\ WithStandIn(ps).waiting = match.waiting /\ WithStandIn(ps).standIn = match.standIn \cup ps
  <2>1. match.standIn \cup ps \in SUBSET Seats
    BY <1>1 DEF Matches
  <2> QED BY <1>1, <2>1, SeatingIsMatch DEF WithStandIn
<1>3. ps \cap Present = {}
  BY PresentAreThere
<1>4. Table!PutIn(ps)
  <2>1. CASE match' = WithStandIn(ps) /\ ~(match.status = "suspended" /\ match.waiting \in ps)
    BY <1>2, <1>3, <2>1, SamePresent DEF Table!PutIn, Table!Live
  <2>2. CASE /\ match' = Unsuspended(WithStandIn(ps))
             /\ match.status = "suspended" /\ match.waiting \in match.standIn \cup ps
    <3>1. match'.status = "active" /\ match'.waiting = NoOne /\ match'.standIn = match.standIn \cup ps
      BY <1>2, <2>2, UnsuspendedIsMatch
    <3> QED BY <1>3, <2>2, <3>1, SamePresent DEF Table!PutIn, Table!Live, Table!TakenUp
  <2> QED BY <2>1, <2>2
<1> QED BY <1>4 DEF TableStep, Table!Next

LEMMA SeatingIsSeen ==
    ASSUME SeatInv, Away, UNCHANGED faulty, NEW p \in Seats,
           \/ StandInOn(p) \/ StandInOff(p) \/ ResumeAbandoned(p)
           \/ \E over \in SUBSET awaited : CheckStandIns(p, over)
    PROVE  TableStep
<1> USE EnvelopeIsMatch
<1>0. match \in Matches /\ ~faulty /\ awaited \subseteq Seats
  BY DEF SeatInv, TableInv, TypeOK, Away
<1>1. ASSUME NEW next, Save(next) PROVE match' = next
  BY <1>0, <1>1 DEF Save
<1>2. CASE StandInOn(p)
  <2>1. match' = IF PausedFor(p) THEN Unsuspended(WithStandIn({p})) ELSE WithStandIn({p})
    BY <1>1, <1>2 DEF StandInOn
  <2>2. /\ match.status \in {"active", "suspended"} /\ ~Here(p)
        /\ UNCHANGED <<awaited, here, handler>>
    BY <1>2 DEF StandInOn, sockets
  <2> QED BY <2>1, <2>2, PutInIsSeen DEF PausedFor
<1>3. CASE StandInOff(p)
  <2> DEFINE next == WithoutStandIn(p)
  <2>1. UNCHANGED <<awaited, here, handler>> /\ Present' = Present
    BY <1>3, SamePresent DEF StandInOff, sockets
  <2>2. next \in Matches /\ next.status = match.status /\ next.waiting = match.waiting
        /\ next.standIn = match.standIn \ {p}
    <3>1. match.standIn \ {p} \in SUBSET Seats
      BY <1>0 DEF Matches
    <3> QED BY <1>0, <3>1, SeatingIsMatch DEF WithoutStandIn
  <2>3. CASE p \notin match.standIn
    BY <1>3, <2>1, <2>3, NotSeen DEF StandInOff, NoSave
  <2>4. CASE p \in match.standIn /\ ~Here(p) /\ MayPauseFor(p)
    <3>1. match' = [next EXCEPT !.status = "suspended", !.waiting = p]
      BY <1>0, <1>1, <1>3, <2>4 DEF StandInOff
    <3> HIDE DEF next
    <3>2. match'.status = "suspended" /\ match'.waiting = p /\ match'.standIn = match.standIn \ {p}
      BY <2>2, <3>1, PauseIsMatch
    <3>3. p \notin Present
      BY <2>4, PresentAreThere
    <3>4. Table!Pause(p)
      BY <2>1, <2>4, <3>2, <3>3 DEF Table!Pause, MayPauseFor
    <3> QED BY <3>4 DEF TableStep, Table!Next
  <2>5. CASE p \in match.standIn /\ ~(~Here(p) /\ MayPauseFor(p))
    <3>1. match' = next
      BY <1>1, <1>3, <2>5 DEF StandInOff
    <3>2. Table!GiveBack(p)
      BY <2>1, <2>2, <3>1 DEF Table!GiveBack
    <3> QED BY <3>2 DEF TableStep, Table!Next
  <2> QED BY <2>3, <2>4, <2>5
<1>4. CASE ResumeAbandoned(p)
  <2>1. match' = Unsuspended(match) /\ match.status = "abandoned" /\ UNCHANGED <<here, handler>>
    BY <1>1, <1>4 DEF ResumeAbandoned, sockets
  <2>2. awaited' \in SUBSET Seats \ {{}}
    BY <1>4, <2>1 DEF ResumeAbandoned
  <2>3. Table!BringBack
    BY <1>0, <2>1, <2>2, UnsuspendedIsMatch, SamePresent DEF Table!BringBack, Table!TakenUp
  <2> QED BY <2>3 DEF TableStep, Table!Next
<1>5. ASSUME NEW over \in SUBSET awaited, CheckStandIns(p, over) PROVE TableStep
  <2> DEFINE can  == {q \in awaited : MayStandIn(q)}
             take == {q \in can \cap over : SomeoneElseHere(q)}
             next == WithStandIn(take)
  <2>1. UNCHANGED <<awaited, here, handler>>
    BY <1>5 DEF CheckStandIns, sockets
  <2>2. take \in SUBSET Seats /\ \A q \in take : ~Here(q) /\ match.status \in {"active", "suspended"}
    BY <1>0 DEF MayStandIn
  <2>3. /\ next.status = match.status /\ next.waiting = match.waiting /\ next.standIn = match.standIn \cup take
    <3>1. match.standIn \cup take \in SUBSET Seats
      BY <1>0 DEF Matches
    <3> HIDE DEF take
    <3> QED BY <1>0, <3>1, SeatingIsMatch DEF WithStandIn
  <2>4. CASE take = {}
    BY <1>5, <2>1, <2>4, SamePresent, NotSeen DEF CheckStandIns, NoSave
  <2>5. CASE take # {}
    <3>1. match' = IF next.status = "suspended" /\ next.waiting \in next.standIn THEN Unsuspended(next) ELSE next
      BY <1>1, <1>5, <2>5 DEF CheckStandIns
    <3>2. match.status \in {"active", "suspended"}
      BY <2>2, <2>5
    <3> HIDE DEF take
    <3> QED BY <2>1, <2>2, <2>3, <3>1, <3>2, PutInIsSeen
  <2> QED BY <2>4, <2>5
<1> QED BY <1>2, <1>3, <1>4, <1>5

\* Every step is one of the table's, or none.
LEMMA StepIsSeen == ASSUME SocketPerSeat, SeenInv, SeenInv', [Next]_vars PROVE TableStep
<1> USE EnvelopeIsMatch
<1>0. SeatInv /\ TableInv /\ Away /\ TableInv' /\ Away' /\ ~faulty /\ match \in Matches
  BY DEF SeenInv, SeatInv, TableInv, Away
<1>1. CASE UNCHANGED vars
  BY <1>1, SamePresent, NotSeen DEF vars
<1> SUFFICES ASSUME MatchStep, UNCHANGED faulty PROVE TableStep
  BY <1>1 DEF Next
<1>2. ASSUME NEW s \in Sockets, Connect(s) \/ HandlerStep(s) \/ Drop(s) \/ Move(s) PROVE TableStep
  BY <1>0, <1>2, HandlerIsSeen
<1>3. ASSUME NEW p \in Seats,
             \/ StandInOn(p) \/ StandInOff(p) \/ ResumeAbandoned(p)
             \/ \E over \in SUBSET awaited : CheckStandIns(p, over)
      PROVE  TableStep
  BY <1>0, <1>3, SeatingIsSeen
<1>4. CASE BotRead \/ BotGivesUp \/ BotEnds \/ StandInRefused \/ SweepReads \/ SweepLooks
  BY <1>4, SamePresent, NotSeen DEF BotRead, BotGivesUp, BotEnds, StandInRefused, SweepReads, SweepLooks, sockets
<1>5. ASSUME NEW p \in Seats, StandInMoves(p) PROVE TableStep
  BY <1>0, <1>5, PlayIsSeen DEF StandInMoves, StillStandsIn, sockets
<1>6. CASE Abandon
  <2>1. match' = [match EXCEPT !.status = "abandoned"] /\ UNCHANGED <<awaited, here, handler>>
    BY <1>0, <1>6 DEF Abandon, sockets
  <2>2. match.status \in {"active", "suspended"}
    BY <1>6 DEF Abandon, SeenInv, Swept
  <2>3. match'.status = "abandoned" /\ match'.waiting = match.waiting /\ match'.standIn = match.standIn
    BY <1>0, <2>1 DEF Matches
  <2>4. Table!Abandon
    BY <2>1, <2>2, <2>3, SamePresent DEF Table!Abandon, Table!Live
  <2> QED BY <2>4 DEF TableStep, Table!Next
<1>7. CASE Crash
  <2>1. Present' = {}
    BY <1>7 DEF Crash, Present
  <2>2. Present \in SUBSET Seats
    BY DEF Present
  <2>3. Table!Leave(Present)
    BY <1>7, <2>1 DEF Crash, Table!Leave
  <2> QED BY <2>2, <2>3 DEF TableStep, Table!Next
<1> QED BY <1>2, <1>3, <1>4, <1>5, <1>6, <1>7 DEF MatchStep, BotStep, SweepStep

\* With a store that takes every write and a socket for each player that only
\* opens once the last is done with, sockets, timers, the host, the reaper and
\* crashes do nothing to those at a table that MatchTable does not.
THEOREM TableHolds ==
    ASSUME SocketPerSeat, MayFail = {FALSE}
    PROVE  Spec => ImplementsTable
<1>1. Init => SeenInv /\ Table!Init
  <2> SUFFICES ASSUME Init PROVE SeenInv /\ Table!Init
    OBVIOUS
  <2>1. SeatInv /\ Away /\ Swept
    BY InitTable, InitReturned DEF Init, SeatInv, Away, Swept
  <2>2. Present = {}
    BY DEF Init, Present
  <2> QED BY <2>1, <2>2 DEF Init, SeenInv, Table!Init
<1>2. SeenInv /\ [Next]_vars => SeenInv'
  <2> SUFFICES ASSUME SeenInv, [Next]_vars PROVE SeenInv'
    OBVIOUS
  <2>1. TableInv /\ SeatInv /\ Away /\ Swept
    BY DEF SeenInv, SeatInv
  <2>2. SeatInv'
    BY <2>1, StepKeepsTable, StepKeepsReturned DEF SeatInv
  <2> QED BY <2>1, <2>2, StepKeepsAway, StepKeepsSwept DEF SeenInv
<1>3. SeenInv /\ SeenInv' /\ [Next]_vars => [Table!Next]_Table!table
  BY StepIsSeen DEF TableStep
<1> QED BY <1>1, <1>2, <1>3, PTL DEF Spec, ImplementsTable, Table!Spec
=============================================================================
