---------------------------- MODULE ServerProofs ----------------------------
(***************************************************************************)
(* The parts of a server that share no variable, each for any constants:   *)
(*                                                                         *)
(*   - BotLoop: its types, and that a match never has two loops and its    *)
(*     flag says whether it has one;                                       *)
(*   - Governor: its types, that a turn is finished by the bot that began  *)
(*     it, and that the leases fit what the level allows;                  *)
(*   - LocalSaves: its types, and that nobody is named on the way to the   *)
(*     cloud, or in its result, who has not agreed.                        *)
(*                                                                         *)
(* At the end, the same of the parts in one behaviour, as MCServer runs    *)
(* them.                                                                   *)
(***************************************************************************)
EXTENDS MCServer, TLAPS, FiniteSetTheorems, WellFoundedInduction

-----------------------------------------------------------------------------
(* The bot loop *)

\* What a loop may hold.
LoopState ==
    [at : {"none", "top", "read", "thinking", "ending"},
     actor : Bots \cup {NoSeat}, last : Bots \cup {NoSeat},
     stall : 0..MaxStall, step : 0..MaxSteps]

\* A loop that has passed its turn boundary has a step left to count.
StepsLeft == \A l \in Loops : loop[l].at \in {"read", "thinking"} => loop[l].step < MaxSteps

LoopInv == TypeOK /\ StepsLeft /\ OneLoop

LEMMA LoopTypes ==
    /\ NoLoop \in LoopState /\ NewLoop \in LoopState
    /\ NoLoop.at = "none" /\ NewLoop.at = "top"
BY LoopAssumption DEF NoLoop, NewLoop, LoopState

\* Every board a move may lead to is a board.
LEMMA AfterIsBoards == ASSUME TypeOK, NEW x PROVE After(x) \subseteq Boards
BY DEF TypeOK, After, Boards

\* Waking the bots keeps the loops as they should be: it starts one only while
\* the flag is down, and puts the flag up.
LEMMA RunBotsKeeps ==
    ASSUME LoopInv, RunBots
    PROVE  /\ running' \in BOOLEAN /\ loop' \in [Loops -> LoopState]
           /\ StepsLeft' /\ OneLoop'
<1>1. CASE UNCHANGED <<running, loop>>
  BY <1>1 DEF LoopInv, TypeOK, StepsLeft, OneLoop, Alive, LoopState
<1>2. CASE ~running /\ \E l \in Loops : /\ loop[l].at = "none"
                                        /\ loop' = [loop EXCEPT ![l] = NewLoop]
                                        /\ running' = TRUE
  <2>1. PICK l \in Loops : /\ loop[l].at = "none"
                           /\ loop' = [loop EXCEPT ![l] = NewLoop]
                           /\ running' = TRUE
    BY <1>2
  <2>2. loop \in [Loops -> LoopState]
    BY DEF LoopInv, TypeOK, LoopState
  <2>3. /\ loop' \in [Loops -> LoopState] /\ loop'[l] = NewLoop
        /\ \A k \in Loops \ {l} : loop'[k] = loop[k]
    BY <2>1, <2>2, LoopTypes
  <2>4. \A k \in Loops \ {l} : loop'[k].at = "none"
    BY <1>2, <2>3 DEF LoopInv, OneLoop, Alive
  <2>5. \A k \in Loops : loop'[k].at # "none" <=> k = l
    BY <2>3, <2>4, LoopTypes
  <2>6. OneLoop'
    BY <2>1, <2>5 DEF OneLoop, Alive
  <2>7. StepsLeft'
    BY <2>3, <2>4, LoopTypes DEF StepsLeft
  <2> QED BY <2>1, <2>3, <2>6, <2>7
<1> QED BY <1>1, <1>2 DEF RunBots, LoopInv, TypeOK

\* A loop that moves on without ending or starting leaves the flag right.
LEMMA LoopGoesOn ==
    ASSUME LoopInv, NEW l \in Loops, NEW s \in LoopState,
           loop[l].at # "none", s.at # "none",
           s.at \in {"read", "thinking"} => s.step < MaxSteps,
           loop' = [loop EXCEPT ![l] = s], UNCHANGED running
    PROVE  loop' \in [Loops -> LoopState] /\ StepsLeft' /\ OneLoop'
<1>1. loop \in [Loops -> LoopState]
  BY DEF LoopInv, TypeOK, LoopState
<1>2. /\ loop' \in [Loops -> LoopState] /\ loop'[l] = s
      /\ \A k \in Loops \ {l} : loop'[k] = loop[k]
  BY <1>1
<1>3. StepsLeft'
  BY <1>2 DEF LoopInv, StepsLeft
<1>4. \A k \in Loops : loop'[k].at # "none" <=> loop[k].at # "none"
  BY <1>2
<1>5. OneLoop'
  BY <1>4 DEF LoopInv, OneLoop, Alive
<1> QED BY <1>2, <1>3, <1>5

LEMMA InitLoop == Init => LoopInv
<1> SUFFICES ASSUME Init PROVE LoopInv
  OBVIOUS
<1>1. loop \in [Loops -> LoopState] /\ \A l \in Loops : loop[l].at = "none"
  BY LoopTypes DEF Init
<1>2. TypeOK
  BY <1>1 DEF Init, TypeOK, LoopState, Boards
<1>3. StepsLeft /\ OneLoop
  BY <1>1 DEF Init, StepsLeft, OneLoop, Alive
<1> QED BY <1>2, <1>3 DEF LoopInv

\* Each step of a loop.
LEMMA LoopStepKeeps ==
    ASSUME LoopInv, NEW l \in Loops, LoopStep(l)
    PROVE  LoopInv'
<1> DEFINE x == loop[l]
<1>0. loop \in [Loops -> LoopState] /\ x \in LoopState
  BY DEF LoopInv, TypeOK, LoopState
<1>a. x.stall \in 0..MaxStall /\ x.step \in 0..MaxSteps
  BY <1>0 DEF LoopState
<1>1. CASE HeedStop(l)
  <2> DEFINE s == [x EXCEPT !.at = "ending"]
  <2>1. s \in LoopState /\ s.at = "ending"
    BY <1>0 DEF LoopState
  <2>2. loop' = [loop EXCEPT ![l] = s]
    BY <1>1 DEF HeedStop, To
  <2>3. loop' \in [Loops -> LoopState] /\ StepsLeft' /\ OneLoop'
    BY <1>1, <2>1, <2>2, LoopGoesOn DEF HeedStop
  <2> QED BY <1>1, <2>3 DEF HeedStop, LoopInv, TypeOK, LoopState
<1>2. CASE GoOn(l)
  <2> DEFINE where == IF x.step < MaxSteps THEN "read" ELSE "ending"
             s == [x EXCEPT !.at = where]
  <2>1. s \in LoopState /\ s.at = where /\ s.step = x.step
    BY <1>0 DEF LoopState
  <2>a. IF OutOfSteps(l) THEN To(l, "ending") ELSE To(l, "read")
    BY <1>2 DEF GoOn
  <2>b. x.step < MaxSteps <=> ~OutOfSteps(l)
    BY <1>a, LoopAssumption DEF OutOfSteps
  <2>2. loop' = [loop EXCEPT ![l] = s]
    BY <2>a, <2>b DEF To
  <2>3. s.at # "none" /\ (s.at \in {"read", "thinking"} => s.step < MaxSteps)
    BY <2>1
  <2>4. x.at # "none" /\ UNCHANGED running
    BY <1>2 DEF GoOn
  <2> HIDE DEF s, where
  <2>5. loop' \in [Loops -> LoopState] /\ StepsLeft' /\ OneLoop'
    BY <2>1, <2>2, <2>3, <2>4, LoopGoesOn
  <2> QED BY <1>2, <2>5 DEF GoOn, LoopInv, TypeOK, LoopState
<1>3. CASE Read(l)
  <2>1. x.at = "read" /\ x.step < MaxSteps
    BY <1>3 DEF Read, LoopInv, StepsLeft
  <2>2. ASSUME NEW s \in LoopState, s.at \in {"thinking", "ending"}, s.step = x.step,
               loop' = [loop EXCEPT ![l] = s]
        PROVE  loop' \in [Loops -> LoopState] /\ StepsLeft' /\ OneLoop'
    BY <1>3, <2>1, <2>2, LoopGoesOn DEF Read
  <2>3. ASSUME To(l, "ending")
        PROVE  loop' \in [Loops -> LoopState] /\ StepsLeft' /\ OneLoop'
    <3> DEFINE s == [x EXCEPT !.at = "ending"]
    <3>1. s \in LoopState /\ s.at = "ending" /\ s.step = x.step
      BY <1>0 DEF LoopState
    <3>2. loop' = [loop EXCEPT ![l] = s]
      BY <2>3 DEF To
    <3> HIDE DEF s
    <3> QED BY <2>2, <3>1, <3>2
  <2>4. ASSUME NEW b \in Bots, NEW stall \in 0..MaxStall,
               loop' = [loop EXCEPT ![l] = [@ EXCEPT !.at = "thinking", !.actor = b,
                                                     !.last = b, !.stall = stall]]
        PROVE  loop' \in [Loops -> LoopState] /\ StepsLeft' /\ OneLoop'
    <3> DEFINE s == [x EXCEPT !.at = "thinking", !.actor = b, !.last = b, !.stall = stall]
    <3>1. s \in LoopState /\ s.at = "thinking" /\ s.step = x.step
      BY <1>0 DEF LoopState
    <3>2. loop' = [loop EXCEPT ![l] = s]
      BY <2>4
    <3> HIDE DEF s
    <3> QED BY <2>2, <3>1, <3>2
  <2>5. ASSUME NEW b \in Bots, b = x.last, ~(x.stall + 1 > MaxStall)
        PROVE  x.stall + 1 \in 0..MaxStall
    BY <1>a, <2>5, LoopAssumption
  <2>6. 0 \in 0..MaxStall
    BY LoopAssumption
  <2>7. loop' \in [Loops -> LoopState] /\ StepsLeft' /\ OneLoop'
    <3>1. CASE (\A b \in Bots : ~Driven(b)) /\ To(l, "ending")
      BY <2>3, <3>1
    <3>2. ASSUME NEW b \in Bots,
                 LET stall == IF b = x.last THEN x.stall + 1 ELSE 0 IN
                 IF stall > MaxStall
                   THEN To(l, "ending")
                   ELSE loop' = [loop EXCEPT ![l] = [@ EXCEPT !.at = "thinking", !.actor = b,
                                                              !.last = b, !.stall = stall]]
          PROVE  loop' \in [Loops -> LoopState] /\ StepsLeft' /\ OneLoop'
      <4> DEFINE stall == IF b = x.last THEN x.stall + 1 ELSE 0
      <4>1. CASE stall > MaxStall
        BY <2>3, <3>2, <4>1
      <4>2. CASE ~(stall > MaxStall)
        <5>1. stall \in 0..MaxStall
          BY <2>5, <2>6, <4>2
        <5> QED BY <2>4, <3>2, <4>2, <5>1
      <4> QED BY <4>1, <4>2
    <3> QED BY <1>3, <3>1, <3>2 DEF Read
  <2> QED BY <1>3, <2>7 DEF Read, LoopInv, TypeOK, LoopState
<1>4. CASE Act(l)
  <2>1. x.at = "thinking" /\ x.step < MaxSteps
    BY <1>4 DEF Act, LoopInv, StepsLeft
  <2>2. CASE x.actor \in awaited /\ MayWrite
    <3> DEFINE s == [x EXCEPT !.at = "top", !.step = @ + 1, !.actor = NoSeat]
    <3>0. x.step + 1 \in 0..MaxSteps
      BY <1>a, <2>1, LoopAssumption
    <3>1. s \in LoopState /\ s.at = "top"
      BY <1>0, <3>0 DEF LoopState
    <3>2. loop' = [loop EXCEPT ![l] = s] /\ UNCHANGED running
      BY <1>4, <2>2 DEF Act
    <3> HIDE DEF s
    <3>3. loop' \in [Loops -> LoopState] /\ StepsLeft' /\ OneLoop'
      BY <2>1, <3>1, <3>2, LoopGoesOn
    <3>4. awaited' \in Boards /\ beat' \in BOOLEAN
      BY <1>4, <2>2, AfterIsBoards DEF Act, LoopInv
    <3> QED BY <1>4, <3>3, <3>4 DEF Act, LoopInv, TypeOK, LoopState
  <2>3. CASE ~(x.actor \in awaited /\ MayWrite)
    <3> DEFINE s == [x EXCEPT !.at = "ending"]
    <3>1. s \in LoopState /\ s.at = "ending"
      BY <1>0 DEF LoopState
    <3>2. loop' = [loop EXCEPT ![l] = s] /\ UNCHANGED <<running, awaited, beat>>
      BY <1>4, <2>3 DEF Act, To
    <3>3. loop' \in [Loops -> LoopState] /\ StepsLeft' /\ OneLoop'
      BY <2>1, <3>1, <3>2, LoopGoesOn
    <3> QED BY <1>4, <3>2, <3>3 DEF Act, LoopInv, TypeOK, LoopState
  <2> QED BY <2>2, <2>3
<1>5. CASE End(l)
  <2>1. /\ loop' \in [Loops -> LoopState] /\ loop'[l] = NoLoop
        /\ \A k \in Loops \ {l} : loop'[k] = loop[k]
    BY <1>0, <1>5, LoopTypes DEF End
  <2>2. \A k \in Loops \ {l} : loop[k].at = "none"
    BY <1>5 DEF End, LoopInv, OneLoop, Alive
  <2>3. \A k \in Loops : loop'[k].at = "none"
    BY <2>1, <2>2, LoopTypes
  <2>4. StepsLeft' /\ OneLoop'
    BY <1>5, <2>3 DEF End, StepsLeft, OneLoop, Alive
  <2> QED BY <1>5, <2>1, <2>4 DEF End, LoopInv, TypeOK, LoopState
<1> QED BY <1>1, <1>2, <1>3, <1>4, <1>5 DEF LoopStep

LEMMA LoopInvKept == LoopInv /\ [Next]_vars => LoopInv'
<1> SUFFICES ASSUME LoopInv, [Next]_vars PROVE LoopInv'
  OBVIOUS
<1>1. ASSUME UNCHANGED <<running, loop>>, awaited' \in Boards, stopping' \in BOOLEAN,
             caller' \in [People -> {"idle", "waking"}],
             home' \in {"here", "putting down", "released", "elsewhere"}, beat' \in BOOLEAN
      PROVE  LoopInv'
  BY <1>1 DEF LoopInv, TypeOK, StepsLeft, OneLoop, Alive
<1>2. ASSUME NEW p \in People, Move(p) PROVE LoopInv'
  <2>1. awaited' \in Boards
    BY <1>2, AfterIsBoards DEF Move, LoopInv
  <2> QED BY <1>1, <1>2, <2>1 DEF Move, LoopInv, TypeOK
<1>3. ASSUME NEW p \in People, Arrive(p) PROVE LoopInv'
  BY <1>1, <1>3 DEF Arrive, LoopInv, TypeOK
<1>4. ASSUME NEW p \in People, Wake(p) PROVE LoopInv'
  BY <1>4, RunBotsKeeps DEF Wake, LoopInv, TypeOK, LoopState
<1>5. ASSUME NEW l \in Loops, LoopStep(l) PROVE LoopInv'
  BY <1>5, LoopStepKeeps
<1>6. CASE Release
  BY <1>1, <1>6 DEF Release, LoopInv, TypeOK
<1>7. CASE Released
  BY <1>1, <1>7 DEF Released, LoopInv, TypeOK
<1>8. CASE ReleaseTimesOut
  BY <1>1, <1>8 DEF ReleaseTimesOut, LoopInv, TypeOK
<1>9. CASE HandOver
  BY <1>1, <1>9 DEF HandOver, LoopInv, TypeOK
<1>10. CASE PlayedElsewhere
  BY <1>1, <1>10 DEF PlayedElsewhere, LoopInv, TypeOK
<1>11. CASE Adopt
  BY <1>11, RunBotsKeeps DEF Adopt, LoopInv, TypeOK, LoopState
<1>12. CASE UNCHANGED vars
  BY <1>1, <1>12 DEF vars, LoopInv, TypeOK
<1> QED
  BY <1>2, <1>3, <1>4, <1>5, <1>6, <1>7, <1>8, <1>9, <1>10, <1>11, <1>12 DEF Next, StayNext

\* The types of the loop, the flags and the callers: a loop's counts stay within
\* botMaxSteps and botMaxStall.
THEOREM LoopTypesHold == Spec => []TypeOK
<1>1. LoopInv => TypeOK
  BY DEF LoopInv
<1> QED BY <1>1, InitLoop, LoopInvKept, PTL DEF Spec

\* One loop at most, and botRunning is set exactly while there is one, whoever
\* calls RunBotsIfNeeded and whenever botLoop's deferred clean-up comes.
THEOREM OneLoopHolds == Spec => []OneLoop
<1>1. LoopInv => OneLoop
  BY DEF LoopInv
<1> QED BY <1>1, InitLoop, LoopInvKept, PTL DEF Spec

-----------------------------------------------------------------------------
(* The governor's turns *)

\* What the turns are kept in has a place for every match and seat.
Places ==
    /\ DOMAIN turnMover = Matches /\ DOMAIN picked = Matches /\ DOMAIN began = Matches
    /\ DOMAIN turnBot = Seats

\* A bot about to move has the class the tracker has for its seat, ...
PickedAsTracked ==
    \A m \in Matches : picked[m] # NoPick =>
        /\ picked[m].seat \in Seats /\ TableOf[picked[m].seat] = m
        /\ turnBot[picked[m].seat].known /\ turnBot[picked[m].seat].class = picked[m].class

\* ... and so has the bot that began the turn the last mover is in, unless the
\* tracker has forgotten it since.
BegunAsTracked ==
    \A m \in Matches : turnMover[m] # NoPlayer /\ began[m] # Forgotten =>
        turnBot[turnMover[m]].known /\ turnBot[turnMover[m]].class = began[m]

\* A match's last mover sits at it.
MoversSit == \A m \in Matches : turnMover[m] = NoPlayer \/ (turnMover[m] \in Seats /\ TableOf[turnMover[m]] = m)

TurnInv == Places /\ PickedAsTracked /\ BegunAsTracked /\ MoversSit

-----------------------------------------------------------------------------
LEMMA InitTurn == GovernorInit => TurnInv
BY DEF GovernorInit, TurnInv, Places, PickedAsTracked, BegunAsTracked, MoversSit

LEMMA TableIsMatch == \A s \in Seats : TableOf[s] \in Matches
BY DEF Matches

\* A bot asked for in the middle of its turn is the one it had; at any other time
\* the seat is not the last mover, or its turn is forgotten.
LEMMA SeatBotKeeps ==
    ASSUME TurnInv, NEW s \in Seats, SeatBot(s)
    PROVE  TurnInv'
<1> DEFINE m == TableOf[s]
<1>1. m \in Matches
  BY TableIsMatch
<1>2. PICK bot : /\ turnBot' = [turnBot EXCEPT ![s] = bot]
                 /\ picked' = [picked EXCEPT ![m] = [seat |-> s, class |-> bot.class]]
                 /\ bot.known
                 /\ MidTurn(s) => bot.class = turnBot[s].class
  <2> DEFINE want == IF MidTurn(s) THEN turnBot[s].want ELSE asks[m]
             class == IF MidTurn(s) THEN turnBot[s].class
                      ELSE IF mode = "enforce" THEN lease'[s].plays ELSE want
  <2>1. /\ turnBot' = [turnBot EXCEPT ![s] = [known |-> TRUE, class |-> class, want |-> want]]
        /\ picked' = [picked EXCEPT ![m] = [seat |-> s, class |-> class]]
    BY DEF SeatBot
  <2>2. MidTurn(s) => class = turnBot[s].class
    OBVIOUS
  <2> HIDE DEF class, want
  <2> WITNESS [known |-> TRUE, class |-> class, want |-> want]
  <2> QED BY <2>1, <2>2
<1>3. UNCHANGED <<turnMover, began>>
  BY DEF SeatBot
<1>4. Places' /\ MoversSit'
  BY <1>2, <1>3 DEF TurnInv, Places, MoversSit
<1>5. turnBot'[s] = bot /\ \A t \in Seats \ {s} : turnBot'[t] = turnBot[t]
  BY <1>2 DEF TurnInv, Places
<1>6. PickedAsTracked'
  <2> SUFFICES ASSUME NEW n \in Matches, picked'[n] # NoPick
               PROVE  /\ picked'[n].seat \in Seats /\ TableOf[picked'[n].seat] = n
                      /\ turnBot'[picked'[n].seat].known /\ turnBot'[picked'[n].seat].class = picked'[n].class
    BY DEF PickedAsTracked
  <2>1. CASE n = m
    <3>1. picked'[n] = [seat |-> s, class |-> bot.class]
      BY <1>1, <1>2, <2>1 DEF TurnInv, Places
    <3> QED BY <1>2, <1>5, <2>1, <3>1
  <2>2. CASE n # m
    <3>1. picked'[n] = picked[n]
      BY <1>2, <2>2 DEF TurnInv, Places
    <3>2. picked[n].seat \in Seats \ {s}
      BY <2>2, <3>1 DEF TurnInv, PickedAsTracked
    <3> QED BY <1>5, <3>1, <3>2 DEF TurnInv, PickedAsTracked
  <2> QED BY <2>1, <2>2
<1>7. BegunAsTracked'
  <2> SUFFICES ASSUME NEW n \in Matches, turnMover[n] # NoPlayer, began[n] # Forgotten
               PROVE  turnBot'[turnMover[n]].known /\ turnBot'[turnMover[n]].class = began[n]
    BY <1>3 DEF BegunAsTracked
  <2>1. turnBot[turnMover[n]].known /\ turnBot[turnMover[n]].class = began[n]
        /\ turnMover[n] \in Seats /\ TableOf[turnMover[n]] = n
    BY DEF TurnInv, BegunAsTracked, MoversSit
  <2>2. CASE turnMover[n] = s
    BY <1>2, <1>5, <2>1, <2>2 DEF MidTurn
  <2>3. CASE turnMover[n] # s
    BY <1>5, <2>1, <2>3
  <2> QED BY <2>2, <2>3
<1> QED BY <1>4, <1>6, <1>7 DEF TurnInv

\* The bot's move makes its seat the last mover; if it was not, this bot began.
LEMMA BotMovesKeeps ==
    ASSUME TurnInv, NEW m \in Matches, BotMoves(m)
    PROVE  TurnInv'
<1> DEFINE s == picked[m].seat
<1>1. /\ turnMover' = [turnMover EXCEPT ![m] = s]
      /\ began' = IF turnMover[m] = s THEN began ELSE [began EXCEPT ![m] = picked[m].class]
      /\ picked' = [picked EXCEPT ![m] = NoPick] /\ s # NoPlayer /\ turnBot' = turnBot
  BY DEF BotMoves, NoteMove
<1>2. s \in Seats /\ TableOf[s] = m /\ turnBot[s].known /\ turnBot[s].class = picked[m].class
  BY <1>1 DEF NoPick, TurnInv, PickedAsTracked
<1>3. Places'
  BY <1>1 DEF TurnInv, Places
<1>4. /\ turnMover'[m] = s /\ picked'[m] = NoPick
      /\ began'[m] = IF turnMover[m] = s THEN began[m] ELSE picked[m].class
      /\ \A n \in Matches \ {m} : turnMover'[n] = turnMover[n] /\ picked'[n] = picked[n] /\ began'[n] = began[n]
  BY <1>1 DEF TurnInv, Places
<1> HIDE DEF s
<1>5. PickedAsTracked'
  BY <1>1, <1>4 DEF TurnInv, PickedAsTracked
<1>6. BegunAsTracked'
  BY <1>1, <1>2, <1>4 DEF TurnInv, BegunAsTracked
<1>7. MoversSit'
  BY <1>2, <1>4 DEF TurnInv, MoversSit
<1> QED BY <1>3, <1>5, <1>6, <1>7 DEF TurnInv

\* Seats that are swept lose their turns with their bots.
LEMMA SweepKeeps ==
    ASSUME TurnInv, NEW some \in SUBSET Seats, NEW longer \in BOOLEAN, SweepSeats(some, longer)
    PROVE  TurnInv'
<1> DEFINE bots == IF longer THEN some ELSE {}
<1>1. /\ turnBot' = [s \in Seats |-> IF s \in bots THEN NoBot ELSE turnBot[s]]
      /\ began' = [m \in Matches |-> IF turnMover[m] \in bots THEN Forgotten ELSE began[m]]
      /\ picked' = picked /\ \A s \in bots : picked[TableOf[s]].seat # s
  BY DEF SweepSeats
<1>2. DOMAIN turnMover' = Matches /\ \A m \in Matches : turnMover'[m] \in {turnMover[m], NoPlayer}
  BY DEF SweepSeats
<1> HIDE DEF bots
<1>3. Places' /\ MoversSit'
  BY <1>1, <1>2 DEF TurnInv, Places, MoversSit
<1>4. PickedAsTracked'
  BY <1>1 DEF TurnInv, PickedAsTracked
<1>5. BegunAsTracked'
  BY <1>1, <1>2 DEF TurnInv, BegunAsTracked, MoversSit
<1> QED BY <1>3, <1>4, <1>5 DEF TurnInv

\* A match that stops loses its turn, and the bot that was about to move.
LEMMA StoppedKeeps ==
    ASSUME TurnInv, NEW m \in Matches, MatchStopped(m)
    PROVE  TurnInv'
<1>1. /\ turnMover' = [turnMover EXCEPT ![m] = NoPlayer] /\ picked' = [picked EXCEPT ![m] = NoPick]
      /\ turnBot' = [s \in Seats |-> IF TableOf[s] = m THEN NoBot ELSE turnBot[s]] /\ began' = began
  BY DEF MatchStopped
<1>2. /\ turnMover'[m] = NoPlayer /\ picked'[m] = NoPick
      /\ \A n \in Matches \ {m} : turnMover'[n] = turnMover[n] /\ picked'[n] = picked[n]
  BY <1>1 DEF TurnInv, Places
<1>3. Places' /\ MoversSit'
  BY <1>1, <1>2 DEF TurnInv, Places, MoversSit
<1>4. PickedAsTracked'
  BY <1>1, <1>2 DEF TurnInv, PickedAsTracked
<1>5. BegunAsTracked'
  BY <1>1, <1>2 DEF TurnInv, BegunAsTracked, MoversSit
<1> QED BY <1>3, <1>4, <1>5 DEF TurnInv

LEMMA StepKeepsTurn == TurnInv /\ [GovernorNext]_governorVars => TurnInv'
<1> SUFFICES ASSUME TurnInv, [GovernorNext]_governorVars PROVE TurnInv'
  OBVIOUS
<1> USE DEF TurnInv, Places, PickedAsTracked, BegunAsTracked, MoversSit
<1>1. ASSUME UNCHANGED <<turnMover, picked, turnBot, began>> PROVE TurnInv'
  BY <1>1
<1>2. ASSUME NEW m \in Matches, BotRefused(m) PROVE TurnInv'
  BY <1>2 DEF BotRefused
<1>3. ASSUME NEW m \in Matches, PersonMoves(m) PROVE TurnInv'
  BY <1>3 DEF PersonMoves, NoteMove
<1> HIDE DEF TurnInv, Places, PickedAsTracked, BegunAsTracked, MoversSit
<1>4. ASSUME NEW m \in Matches, NEW c \in Classes, Switch(m, c) PROVE TurnInv'
  BY <1>1, <1>4 DEF Switch
<1>5. ASSUME NEW lev \in {"green", "amber", "red"}, SetLevel(lev) PROVE TurnInv'
  BY <1>1, <1>5 DEF SetLevel
<1>6. ASSUME NEW to \in {"off", "observe", "enforce"}, SetMode(to) PROVE TurnInv'
  BY <1>1, <1>6 DEF SetMode
<1>7. CASE UNCHANGED governorVars
  BY <1>1, <1>7 DEF governorVars
<1> QED BY <1>2, <1>3, <1>4, <1>5, <1>6, <1>7, SeatBotKeeps, BotMovesKeeps, SweepKeeps, StoppedKeeps DEF GovernorNext

\* A turn is never finished by a bot that did not begin it: seatBot asks the
\* tracker first, and only noteMove, a stop and a long sweep end a turn there.
THEOREM TurnKeepsItsBotHolds == GovernorSpec => TurnKeepsItsBot
<1>1. TurnInv => \A m \in Matches : picked[m].seat # NoPlayer /\ turnMover[m] = picked[m].seat
                    => began[m] \in {Forgotten, picked[m].class}
  BY DEF TurnInv, PickedAsTracked, BegunAsTracked, NoPick
<1>2. TurnInv /\ [GovernorNext]_governorVars =>
        [\A m \in Matches : LET s == picked[m].seat IN
           BotMoves(m) /\ turnMover[m] = s => began[m] \in {Forgotten, picked[m].class}]_governorVars
  BY <1>1 DEF BotMoves
<1> QED BY InitTurn, StepKeepsTurn, <1>2, PTL DEF GovernorSpec, TurnKeepsItsBot

-----------------------------------------------------------------------------
(* The weight of some leases: what FoldSet adds up, without regard to the order *)

\* Induction over the subsets of a finite set: a family of them that has every
\* one whose own proper subsets it has, has them all.
LEMMA SubsetInduction ==
    ASSUME NEW whole, IsFiniteSet(whole), NEW family,
           \A some \in SUBSET whole : (\A fewer \in SUBSET some : fewer # some => fewer \in family) => some \in family
    PROVE  SUBSET whole \subseteq family
<1> SUFFICES ASSUME (SUBSET whole) \ family # {} PROVE FALSE
  OBVIOUS
<1>1. IsWellFoundedOn(StrictSubsetOrdering(whole), FiniteSubsetsOf(whole))
  BY FS_StrictSubsetOrderingWellFounded
<1> DEFINE left == (SUBSET whole) \ family
<1>a. \A some \in SUBSET whole : IsFiniteSet(some)
  BY FS_Subset
<1>2. left \subseteq FiniteSubsetsOf(whole) /\ left # {}
  BY <1>a DEF FiniteSubsetsOf
<1> HIDE DEF left
<1>3. PICK some \in left : \A fewer \in left : ~(<<fewer, some>> \in StrictSubsetOrdering(whole))
  BY <1>1, <1>2, WFMin
<1> USE DEF left
<1>4. ASSUME NEW fewer \in SUBSET some, fewer # some PROVE fewer \in family
  <2>1. <<fewer, some>> \in StrictSubsetOrdering(whole)
    BY <1>4 DEF StrictSubsetOrdering
  <2> QED BY <1>3, <2>1
<1> QED BY <1>3, <1>4

\* What WeightOf works out: the weight of every subset of some seats.
Sums(l, some, g) ==
    g = [few \in SUBSET some |-> IF few = {} THEN 0
                                 ELSE g[few \ {CHOOSE s \in few : TRUE}] + l[CHOOSE s \in few : TRUE].weight]

LEMMA WeightOfIsSum ==
    ASSUME NEW l, NEW some
    PROVE  WeightOf(l, some) = (CHOOSE g : Sums(l, some, g))[some]
BY DEF WeightOf, FoldSet, MapThenFoldSet, Sums

LEMMA SumsStep ==
    ASSUME NEW l, NEW some, NEW g, Sums(l, some, g), NEW few \in SUBSET some
    PROVE  /\ few = {} => g[few] = 0
           /\ few # {} => g[few] = g[few \ {CHOOSE s \in few : TRUE}] + l[CHOOSE s \in few : TRUE].weight
BY DEF Sums

LEMMA SumsWhole ==
    ASSUME NEW l, NEW some, NEW g, Sums(l, some, g)
    PROVE  /\ some = {} => g[some] = 0
           /\ some # {} => g[some] = g[some \ {CHOOSE s \in some : TRUE}] + l[CHOOSE s \in some : TRUE].weight
<1>1. some \in SUBSET some
  OBVIOUS
<1> QED BY <1>1 DEF Sums

LEMMA SumsUnique ==
    ASSUME NEW l, NEW some, IsFiniteSet(some), NEW g, NEW h, Sums(l, some, g), Sums(l, some, h)
    PROVE  g = h
<1> DEFINE family == {few \in SUBSET some : g[few] = h[few]}
<1>1. ASSUME NEW few \in SUBSET some, \A fewer \in SUBSET few : fewer # few => fewer \in family
      PROVE  few \in family
  <2>1. CASE few = {}
    <3>1. g[few] = 0 /\ h[few] = 0
      BY <2>1, SumsStep
    <3> QED BY <3>1
  <2>2. CASE few # {}
    <3> DEFINE s == CHOOSE s \in few : TRUE
    <3>1. s \in few
      BY <2>2
    <3>2. few \ {s} \in family
      BY <1>1, <3>1
    <3>3. g[few] = g[few \ {s}] + l[s].weight /\ h[few] = h[few \ {s}] + l[s].weight
      BY <2>2, SumsStep
    <3> QED BY <3>2, <3>3
  <2> QED BY <2>1, <2>2
<1> HIDE DEF family
<1>2. SUBSET some \subseteq family
  BY <1>1, SubsetInduction
<1>3. \A few \in SUBSET some : g[few] = h[few]
  BY <1>2 DEF family
<1> QED BY <1>3 DEF Sums

\* The sums over a set hold those over its subsets.
LEMMA SumsWithin ==
    ASSUME NEW l, NEW some, IsFiniteSet(some), NEW g, Sums(l, some, g), NEW few \in SUBSET some
    PROVE  WeightOf(l, few) = g[few]
<1> DEFINE r == [fewer \in SUBSET few |-> g[fewer]]
<1>1. \A fewer \in SUBSET few : r[fewer] = IF fewer = {} THEN 0
        ELSE r[fewer \ {CHOOSE s \in fewer : TRUE}] + l[CHOOSE s \in fewer : TRUE].weight
  <2> TAKE fewer \in SUBSET few
  <2>1. fewer \in SUBSET some /\ r[fewer] = g[fewer]
    OBVIOUS
  <2>2. CASE fewer = {}
    BY <2>1, <2>2, SumsStep
  <2>3. CASE fewer # {}
    <3> DEFINE s == CHOOSE s \in fewer : TRUE
    <3>1. fewer \ {s} \in SUBSET few
      OBVIOUS
    <3>2. r[fewer \ {s}] = g[fewer \ {s}]
      BY <3>1
    <3>3. g[fewer] = g[fewer \ {s}] + l[s].weight
      BY <2>1, <2>3, SumsStep
    <3> QED BY <2>1, <2>3, <3>2, <3>3
  <2> QED BY <2>2, <2>3
<1>2. Sums(l, few, r)
  BY <1>1 DEF Sums
<1> HIDE DEF r
<1>3. IsFiniteSet(few)
  BY FS_Subset
<1>4. \A h : Sums(l, few, h) => h = r
  BY <1>2, <1>3, SumsUnique
<1>5. (CHOOSE h : Sums(l, few, h)) = r
  BY <1>2, <1>4
<1> QED BY <1>5, WeightOfIsSum DEF r

LEMMA SumsExist ==
    ASSUME NEW l, NEW whole, IsFiniteSet(whole)
    PROVE  \A some \in SUBSET whole : \E g : Sums(l, some, g)
<1> DEFINE family == {some \in SUBSET whole : \E g : Sums(l, some, g)}
<1>1. ASSUME NEW some \in SUBSET whole, \A fewer \in SUBSET some : fewer # some => fewer \in family
      PROVE  some \in family
  <2> DEFINE at(few) == IF few = {} THEN 0
                        ELSE WeightOf(l, few \ {CHOOSE s \in few : TRUE}) + l[CHOOSE s \in few : TRUE].weight
             g == [few \in SUBSET some |-> at(few)]
  <2>1. ASSUME NEW few \in SUBSET some, few # some PROVE WeightOf(l, few) = at(few)
    <3>1. PICK h : Sums(l, few, h)
      BY <1>1, <2>1
    <3>2. IsFiniteSet(few)
      BY FS_Subset
    <3>3. WeightOf(l, few) = h[few]
      BY <3>1, <3>2, SumsWithin
    <3>4. few # {} => WeightOf(l, few \ {CHOOSE s \in few : TRUE}) = h[few \ {CHOOSE s \in few : TRUE}]
      BY <3>1, <3>2, SumsWithin
    <3>5. /\ few = {} => h[few] = 0
          /\ few # {} => h[few] = h[few \ {CHOOSE s \in few : TRUE}] + l[CHOOSE s \in few : TRUE].weight
      BY <3>1, SumsWhole
    <3> QED BY <3>3, <3>4, <3>5
  <2>2. \A few \in SUBSET some : g[few] = IF few = {} THEN 0
          ELSE g[few \ {CHOOSE s \in few : TRUE}] + l[CHOOSE s \in few : TRUE].weight
    <3> TAKE few \in SUBSET some
    <3>1. CASE few = {}
      BY <3>1
    <3>2. CASE few # {}
      <4> DEFINE s == CHOOSE s \in few : TRUE
      <4>1. few \ {s} \in SUBSET some /\ few \ {s} # some
        BY <3>2
      <4>2. WeightOf(l, few \ {s}) = at(few \ {s})
        BY <2>1, <4>1
      <4>3. g[few \ {s}] = at(few \ {s})
        BY <4>1
      <4>4. g[few] = WeightOf(l, few \ {s}) + l[s].weight
        BY <3>2
      <4> QED BY <3>2, <4>2, <4>3, <4>4
    <3> QED BY <3>1, <3>2
  <2> HIDE DEF at
  <2>3. Sums(l, some, g)
    BY <2>2 DEF Sums
  <2> QED BY <2>3
<1> HIDE DEF family
<1>2. SUBSET whole \subseteq family
  BY <1>1, SubsetInduction
<1> QED BY <1>2 DEF family

\* The weight of some seats is that of all but a chosen one, and its own.
LEMMA WeightOfStep ==
    ASSUME NEW l, NEW some, IsFiniteSet(some)
    PROVE  /\ some = {} => WeightOf(l, some) = 0
           /\ some # {} => WeightOf(l, some) = WeightOf(l, some \ {CHOOSE s \in some : TRUE}) + l[CHOOSE s \in some : TRUE].weight
<1>1. PICK g : Sums(l, some, g)
  BY SumsExist
<1>2. WeightOf(l, some) = g[some]
  BY <1>1, SumsWithin
<1>3. WeightOf(l, some \ {CHOOSE s \in some : TRUE}) = g[some \ {CHOOSE s \in some : TRUE}]
  BY <1>1, SumsWithin
<1> QED BY <1>1, <1>2, <1>3, SumsStep

Weighs(l, some) == \A s \in some : l[s].weight \in Nat

LEMMA WeightOfNat ==
    ASSUME NEW l, NEW whole, IsFiniteSet(whole), Weighs(l, whole)
    PROVE  WeightOf(l, whole) \in Nat
<1> DEFINE family == {some \in SUBSET whole : WeightOf(l, some) \in Nat}
<1>1. ASSUME NEW some \in SUBSET whole, \A fewer \in SUBSET some : fewer # some => fewer \in family
      PROVE  some \in family
  <2>1. IsFiniteSet(some)
    BY FS_Subset
  <2>2. CASE some = {}
    <3>1. WeightOf(l, some) = 0
      BY <2>1, <2>2, WeightOfStep
    <3> QED BY <3>1
  <2>3. CASE some # {}
    <3> DEFINE s == CHOOSE s \in some : TRUE
    <3>1. s \in some
      BY <2>3
    <3>2. some \ {s} \in family
      BY <1>1, <3>1
    <3>3. WeightOf(l, some) = WeightOf(l, some \ {s}) + l[s].weight
      BY <2>1, <2>3, WeightOfStep
    <3>4. l[s].weight \in Nat
      BY <3>1 DEF Weighs
    <3> HIDE DEF s
    <3> QED BY <3>2, <3>3, <3>4
  <2> QED BY <2>2, <2>3
<1> HIDE DEF family
<1>2. SUBSET whole \subseteq family
  BY <1>1, SubsetInduction
<1> QED BY <1>2 DEF family

\* Leases that weigh the same add up to the same.
LEMMA WeightOfSame ==
    ASSUME NEW l, NEW k, NEW whole, IsFiniteSet(whole), \A s \in whole : l[s].weight = k[s].weight
    PROVE  WeightOf(l, whole) = WeightOf(k, whole)
<1> DEFINE family == {some \in SUBSET whole : WeightOf(l, some) = WeightOf(k, some)}
<1>1. ASSUME NEW some \in SUBSET whole, \A fewer \in SUBSET some : fewer # some => fewer \in family
      PROVE  some \in family
  <2>1. IsFiniteSet(some)
    BY FS_Subset
  <2>2. CASE some = {}
    <3>1. WeightOf(l, some) = 0 /\ WeightOf(k, some) = 0
      BY <2>1, <2>2, WeightOfStep
    <3> QED BY <3>1
  <2>3. CASE some # {}
    <3> DEFINE s == CHOOSE s \in some : TRUE
    <3>1. s \in some
      BY <2>3
    <3>2. some \ {s} \in family
      BY <1>1, <3>1
    <3>3. /\ WeightOf(l, some) = WeightOf(l, some \ {s}) + l[s].weight
          /\ WeightOf(k, some) = WeightOf(k, some \ {s}) + k[s].weight
      BY <2>1, <2>3, WeightOfStep
    <3> HIDE DEF s
    <3> QED BY <3>1, <3>2, <3>3
  <2> QED BY <2>2, <2>3
<1> HIDE DEF family
<1>2. SUBSET whole \subseteq family
  BY <1>1, SubsetInduction
<1> QED BY <1>2 DEF family

LEMMA WeightOfNothing ==
    ASSUME NEW l, NEW whole, IsFiniteSet(whole), \A s \in whole : l[s].weight = 0
    PROVE  WeightOf(l, whole) = 0
<1> DEFINE family == {some \in SUBSET whole : WeightOf(l, some) = 0}
<1>1. ASSUME NEW some \in SUBSET whole, \A fewer \in SUBSET some : fewer # some => fewer \in family
      PROVE  some \in family
  <2>1. IsFiniteSet(some)
    BY FS_Subset
  <2>2. CASE some = {}
    BY <2>1, <2>2, WeightOfStep
  <2>3. CASE some # {}
    <3> DEFINE s == CHOOSE s \in some : TRUE
    <3>1. s \in some /\ l[s].weight = 0
      BY <2>3
    <3>2. some \ {s} \in family
      BY <1>1, <3>1
    <3>3. WeightOf(l, some) = WeightOf(l, some \ {s}) + l[s].weight
      BY <2>1, <2>3, WeightOfStep
    <3> HIDE DEF s
    <3> QED BY <3>1, <3>2, <3>3
  <2> QED BY <2>2, <2>3
<1> HIDE DEF family
<1>2. SUBSET whole \subseteq family
  BY <1>1, SubsetInduction
<1> QED BY <1>2 DEF family

\* Whichever seat is taken away, the weight is that of the others and its own.
LEMMA WeightOfRemove ==
    ASSUME NEW l, NEW whole, IsFiniteSet(whole), Weighs(l, whole), NEW x \in whole
    PROVE  WeightOf(l, whole) = WeightOf(l, whole \ {x}) + l[x].weight
<1> DEFINE family == {some \in SUBSET whole :
                        \A y \in some : WeightOf(l, some) = WeightOf(l, some \ {y}) + l[y].weight}
<1>1. ASSUME NEW some \in SUBSET whole, \A fewer \in SUBSET some : fewer # some => fewer \in family
      PROVE  some \in family
  <2> SUFFICES ASSUME NEW y \in some PROVE WeightOf(l, some) = WeightOf(l, some \ {y}) + l[y].weight
    OBVIOUS
  <2> DEFINE s == CHOOSE s \in some : TRUE
  <2>1. IsFiniteSet(some) /\ s \in some
    BY FS_Subset
  <2>2. WeightOf(l, some) = WeightOf(l, some \ {s}) + l[s].weight
    BY <2>1, WeightOfStep
  <2> HIDE DEF s
  <2>3. CASE y = s
    BY <2>2, <2>3
  <2>4. CASE y # s
    <3>1. some \ {s} \in family /\ some \ {y} \in family
      BY <1>1, <2>1
    <3>2. /\ WeightOf(l, some \ {s}) = WeightOf(l, (some \ {s}) \ {y}) + l[y].weight
          /\ WeightOf(l, some \ {y}) = WeightOf(l, (some \ {y}) \ {s}) + l[s].weight
      BY <2>1, <2>4, <3>1
    <3>3. (some \ {s}) \ {y} = (some \ {y}) \ {s}
      OBVIOUS
    <3>4. WeightOf(l, (some \ {s}) \ {y}) \in Nat
      <4>1. IsFiniteSet((some \ {s}) \ {y}) /\ Weighs(l, (some \ {s}) \ {y})
        BY <2>1, FS_Subset DEF Weighs
      <4> QED BY <4>1, WeightOfNat
    <3>5. l[s].weight \in Nat /\ l[y].weight \in Nat
      BY <2>1 DEF Weighs
    <3>6. WeightOf(l, (some \ {y}) \ {s}) = WeightOf(l, (some \ {s}) \ {y})
      BY <3>3
    <3> HIDE DEF family
    <3> QED BY <2>2, <3>2, <3>4, <3>5, <3>6
  <2> QED BY <2>3, <2>4
<1> HIDE DEF family
<1>2. SUBSET whole \subseteq family
  BY <1>1, SubsetInduction
<1> QED BY <1>2 DEF family

\* The weight of a set is that of a part of it and of the rest.
LEMMA WeightOfSplit ==
    ASSUME NEW l, NEW whole, IsFiniteSet(whole), Weighs(l, whole), NEW few \in SUBSET whole
    PROVE  WeightOf(l, whole) = WeightOf(l, few) + WeightOf(l, whole \ few)
<1> DEFINE family == {some \in SUBSET whole :
                        WeightOf(l, some) = WeightOf(l, some \cap few) + WeightOf(l, some \ few)}
<1>1. ASSUME NEW some \in SUBSET whole, \A fewer \in SUBSET some : fewer # some => fewer \in family
      PROVE  some \in family
  <2>1. \A those \in SUBSET some : IsFiniteSet(those) /\ Weighs(l, those) /\ WeightOf(l, those) \in Nat
    <3> TAKE those \in SUBSET some
    <3>1. IsFiniteSet(those) /\ Weighs(l, those)
      BY FS_Subset DEF Weighs
    <3> QED BY <3>1, WeightOfNat
  <2>2. CASE some = {}
    <3>1. some \cap few = some /\ some \ few = some /\ WeightOf(l, some) = 0
      BY <2>1, <2>2, WeightOfStep
    <3> QED BY <3>1
  <2>3. CASE some # {}
    <3>1. PICK s \in some : TRUE
      BY <2>3
    <3> DEFINE rest == some \ {s}
    <3>2. rest \in family
      BY <1>1
    <3>3. WeightOf(l, rest) = WeightOf(l, rest \cap few) + WeightOf(l, rest \ few)
      BY <3>2
    <3>4. WeightOf(l, some) = WeightOf(l, rest) + l[s].weight /\ l[s].weight \in Nat
      BY <2>1, WeightOfRemove DEF Weighs
    <3>5. WeightOf(l, rest \cap few) \in Nat /\ WeightOf(l, rest \ few) \in Nat
      BY <2>1
    <3>6. CASE s \in few
      <4>1. /\ rest \ few = some \ few /\ rest \cap few = (some \cap few) \ {s} /\ s \in some \cap few
        BY <3>6
      <4>2. WeightOf(l, some \cap few) = WeightOf(l, (some \cap few) \ {s}) + l[s].weight
        BY <2>1, <4>1, WeightOfRemove
      <4>3. WeightOf(l, rest \ few) = WeightOf(l, some \ few)
            /\ WeightOf(l, rest \cap few) = WeightOf(l, (some \cap few) \ {s})
        BY <4>1
      <4>4. WeightOf(l, some) = WeightOf(l, some \cap few) + WeightOf(l, some \ few)
        <5> HIDE DEF rest, family
        <5> QED BY <3>3, <3>4, <3>5, <4>2, <4>3
      <4> QED BY <4>4
    <3>7. CASE s \notin few
      <4>1. /\ rest \cap few = some \cap few /\ rest \ few = (some \ few) \ {s} /\ s \in some \ few
        BY <3>7
      <4>2. WeightOf(l, some \ few) = WeightOf(l, (some \ few) \ {s}) + l[s].weight
        BY <2>1, <4>1, WeightOfRemove
      <4>3. WeightOf(l, rest \cap few) = WeightOf(l, some \cap few)
            /\ WeightOf(l, rest \ few) = WeightOf(l, (some \ few) \ {s})
        BY <4>1
      <4>4. WeightOf(l, some) = WeightOf(l, some \cap few) + WeightOf(l, some \ few)
        <5> HIDE DEF rest, family
        <5> QED BY <3>3, <3>4, <3>5, <4>2, <4>3
      <4> QED BY <4>4
    <3> QED BY <3>6, <3>7
  <2> QED BY <2>2, <2>3
<1> HIDE DEF family
<1>2. SUBSET whole \subseteq family
  BY <1>1, SubsetInduction
<1>3. whole \cap few = few
  OBVIOUS
<1>4. WeightOf(l, whole) = WeightOf(l, whole \cap few) + WeightOf(l, whole \ few)
  BY <1>2 DEF family
<1> QED BY <1>3, <1>4

\* A part of some seats weighs no more than all of them.
LEMMA WeightOfPart ==
    ASSUME NEW l, NEW whole, IsFiniteSet(whole), Weighs(l, whole), NEW few \in SUBSET whole
    PROVE  WeightOf(l, few) \in Nat /\ WeightOf(l, whole) \in Nat /\ WeightOf(l, few) <= WeightOf(l, whole)
<1>1. /\ IsFiniteSet(few) /\ Weighs(l, few)
      /\ IsFiniteSet(whole \ few) /\ Weighs(l, whole \ few)
  BY FS_Subset DEF Weighs
<1>2. WeightOf(l, few) \in Nat /\ WeightOf(l, whole \ few) \in Nat /\ WeightOf(l, whole) \in Nat
  BY <1>1, WeightOfNat
<1>3. WeightOf(l, whole) = WeightOf(l, few) + WeightOf(l, whole \ few)
  BY WeightOfSplit
<1> QED BY <1>2, <1>3

-----------------------------------------------------------------------------
\* A class falls back to a class.
LEMMA CheapestIsClass == ASSUME NEW c \in Classes PROVE Cheapest(c) \in Classes
<1> DEFINE free == {d \in 0..c : Weight[d] = 0}
           family == {some \in SUBSET free : some # {} => \E x \in some : \A y \in some : x >= y}
<1>0. c \in Nat /\ c <= Top /\ 0..c \subseteq Classes /\ Top \in Nat
  BY GovernorAssumption DEF Classes
<1>1. IsFiniteSet(free)
  <2>1. IsFiniteSet(0..c)
    BY <1>0, FS_Interval
  <2> QED BY <2>1, FS_Subset
<1>2. ASSUME NEW some \in SUBSET free, \A fewer \in SUBSET some : fewer # some => fewer \in family
      PROVE  some \in family
  <2> SUFFICES ASSUME some # {} PROVE \E x \in some : \A y \in some : x >= y
    OBVIOUS
  <2>0. some \subseteq Nat
    BY <1>0
  <2>1. PICK x \in some : TRUE
    OBVIOUS
  <2>2. CASE some \ {x} = {}
    BY <2>0, <2>1, <2>2
  <2>3. CASE some \ {x} # {}
    <3>1. some \ {x} \in family
      BY <1>2, <2>1
    <3>2. PICK z \in some \ {x} : \A y \in some \ {x} : z >= y
      BY <2>3, <3>1
    <3>3. CASE z >= x
      BY <3>2, <3>3
    <3>4. CASE ~(z >= x)
      BY <2>0, <2>1, <3>2, <3>4
    <3> QED BY <3>3, <3>4
  <2> QED BY <2>2, <2>3
<1> HIDE DEF family, free
<1>3. SUBSET free \subseteq family
  BY <1>1, <1>2, SubsetInduction
<1>4. 0 \in free
  BY <1>0, GovernorAssumption DEF free
<1>5. \E x \in free : \A y \in free : x >= y
  BY <1>3, <1>4 DEF family
<1>6. Cheapest(c) = CHOOSE x \in free : \A y \in free : x >= y
  BY DEF Cheapest, Max, free
<1>7. Cheapest(c) \in free
  BY <1>5, <1>6
<1> QED BY <1>0, <1>7 DEF free

-----------------------------------------------------------------------------
(* The leases *)

LeaseRecord == [known : BOOLEAN, want : Classes, plays : Classes, leased : BOOLEAN, revoked : BOOLEAN, weight : Nat,
                decided : BOOLEAN]

Levels == {"green", "amber", "red"}

\* A seat without a lease takes nothing up.
Weightless == \A s \in Seats : ~lease[s].leased => lease[s].weight = 0

\* The grants of the leased seats, and of no other, came one after the other.
GrantsOrdered ==
    /\ granted \subseteq Leased \X Leased
    /\ \A s, t \in Leased : s # t => <<s, t>> \in granted \/ <<t, s>> \in granted
    /\ \A s, t, u \in Leased : <<s, t>> \in granted /\ <<t, u>> \in granted => <<s, u>> \in granted

LeasesInv == lease \in [Seats -> LeaseRecord] /\ level \in Levels /\ Weightless /\ GrantsOrdered /\ LeasesFit

LEMMA SeatsWeigh ==
    ASSUME NEW l \in [Seats -> LeaseRecord]
    PROVE  \A some \in SUBSET Seats : IsFiniteSet(some) /\ Weighs(l, some) /\ WeightOf(l, some) \in Nat
<1> TAKE some \in SUBSET Seats
<1>1. IsFiniteSet(some)
  BY GovernorAssumption, FS_Subset
<1>2. Weighs(l, some)
  BY DEF Weighs, LeaseRecord
<1> QED BY <1>1, <1>2, WeightOfNat

LEMMA CapacityIsNat == ASSUME NEW lev \in Levels PROVE Capacity(lev) \in Nat
<1>1. FullCores \in Nat /\ FullCores \div 2 \in Nat
  BY GovernorAssumption
<1> QED BY <1>1 DEF Capacity, Levels

LEMMA LeaseFields ==
    ASSUME LeasesInv
    PROVE  /\ \A s \in Seats : lease[s] \in LeaseRecord
           /\ Leased \subseteq Seats /\ Standing(lease) \subseteq Leased
           /\ used \in Nat /\ used = WeightOf(lease, Leased)
<1>1. Leased \subseteq Seats /\ Standing(lease) \subseteq Leased
  BY DEF Leased, Standing
<1>2. WeightOf(lease, Leased) \in Nat
  BY <1>1, SeatsWeigh DEF LeasesInv
<1> QED BY <1>1, <1>2 DEF LeasesInv, LeasesFit

LEMMA NoLeases ==
    ASSUME lease' = [s \in Seats |-> Unknown], used' = 0, granted' = {}, level' \in Levels
    PROVE  LeasesInv'
<1>1. Unknown \in LeaseRecord /\ ~Unknown.leased /\ Unknown.weight = 0
  <2>1. 0 \in Classes
    BY GovernorAssumption DEF Classes
  <2> QED BY <2>1 DEF Unknown, LeaseRecord
<1>2. lease' \in [Seats -> LeaseRecord] /\ Weightless' /\ Leased' = {} /\ Standing(lease') = {}
  BY <1>1 DEF Weightless, Leased, Standing
<1>3. WeightOf(lease', {}) = 0
  BY FS_EmptySet, WeightOfStep
<1>4. Capacity(level') \in Nat
  BY CapacityIsNat
<1>5. LeasesFit'
  BY <1>2, <1>3, <1>4 DEF LeasesFit
<1>6. GrantsOrdered'
  BY <1>2 DEF GrantsOrdered
<1> QED BY <1>2, <1>5, <1>6 DEF LeasesInv

\* A seat's fields may change if its lease does not.
LEMMA LeaseKept ==
    ASSUME LeasesInv, NEW s \in Seats, NEW r \in LeaseRecord,
           r.leased = lease[s].leased, r.weight = lease[s].weight, r.leased => r.revoked = lease[s].revoked,
           lease' = [lease EXCEPT ![s] = r], UNCHANGED <<used, granted, level>>
    PROVE  LeasesInv'
<1>1. /\ lease' \in [Seats -> LeaseRecord] /\ lease'[s] = r
      /\ \A t \in Seats \ {s} : lease'[t] = lease[t]
  BY DEF LeasesInv
<1>2. Leased' = Leased /\ Standing(lease') = Standing(lease) /\ Weightless'
  BY <1>1 DEF LeasesInv, Leased, Standing, Weightless
<1>3. \A t \in Seats : lease'[t].weight = lease[t].weight
  BY <1>1
<1>4. \A some \in SUBSET Seats : WeightOf(lease', some) = WeightOf(lease, some)
  BY <1>1, <1>3, SeatsWeigh, WeightOfSame
<1>5. LeasesFit'
  BY <1>2, <1>4, LeaseFields DEF LeasesInv, LeasesFit
<1>6. GrantsOrdered'
  BY <1>2 DEF LeasesInv, GrantsOrdered
<1> QED BY <1>1, <1>2, <1>5, <1>6 DEF LeasesInv

\* Seats that give up their leases take their weights with them.
LEMMA LeasesReturned ==
    ASSUME LeasesInv, NEW some \in SUBSET Seats, lease' \in [Seats -> LeaseRecord],
           \A s \in some : ~lease'[s].leased /\ lease'[s].weight = 0,
           \A s \in Seats \ some : lease'[s] = lease[s],
           used' = used - WeightOf(lease, some), granted' = Without(some), level' = level
    PROVE  LeasesInv'
<1>1. Weightless'
  BY DEF LeasesInv, Weightless
<1>2. Leased' = Leased \ some /\ Standing(lease') = Standing(lease) \ some
  BY DEF Leased, Standing
<1>3. \A few \in SUBSET (Seats \ some) : WeightOf(lease', few) = WeightOf(lease, few)
  <2> TAKE few \in SUBSET (Seats \ some)
  <2>1. IsFiniteSet(few)
    BY SeatsWeigh
  <2> QED BY <2>1, WeightOfSame
<1>4. WeightOf(lease, some) = WeightOf(lease, Leased \cap some)
  <2>1. \A few \in SUBSET (Seats \ Leased) : WeightOf(lease, few) = 0
    <3> TAKE few \in SUBSET (Seats \ Leased)
    <3>1. IsFiniteSet(few)
      BY SeatsWeigh DEF LeasesInv
    <3>2. \A s \in few : lease[s].weight = 0
      BY DEF LeasesInv, Weightless, Leased
    <3> QED BY <3>1, <3>2, WeightOfNothing
  <2>2. WeightOf(lease, some) = WeightOf(lease, Leased \cap some) + WeightOf(lease, some \ (Leased \cap some))
    BY SeatsWeigh, WeightOfSplit DEF LeasesInv
  <2>3. WeightOf(lease, some \ (Leased \cap some)) = 0
    BY <2>1
  <2>4. WeightOf(lease, Leased \cap some) \in Nat
    BY SeatsWeigh DEF LeasesInv
  <2> QED BY <2>2, <2>3, <2>4
<1>5. WeightOf(lease, Leased) = WeightOf(lease, Leased \cap some) + WeightOf(lease, Leased \ some)
  <2>1. Leased \ (Leased \cap some) = Leased \ some /\ Leased \cap some \in SUBSET Leased
    OBVIOUS
  <2>2. IsFiniteSet(Leased) /\ Weighs(lease, Leased)
    BY LeaseFields, SeatsWeigh DEF LeasesInv
  <2>3. WeightOf(lease, Leased) = WeightOf(lease, Leased \cap some) + WeightOf(lease, Leased \ (Leased \cap some))
    BY <2>1, <2>2, WeightOfSplit
  <2> QED BY <2>1, <2>3
<1>6. WeightOf(lease, Leased \cap some) \in Nat /\ WeightOf(lease, Leased \ some) \in Nat
  BY LeaseFields, SeatsWeigh DEF LeasesInv
<1>7. used' = WeightOf(lease', Leased')
  BY <1>2, <1>3, <1>4, <1>5, <1>6, LeaseFields
<1>8. WeightOf(lease', Standing(lease')) <= Capacity(level')
  <2>1. WeightOf(lease', Standing(lease')) = WeightOf(lease, Standing(lease) \ some)
    BY <1>2, <1>3, LeaseFields
  <2>2. /\ WeightOf(lease, Standing(lease) \ some) <= WeightOf(lease, Standing(lease))
        /\ WeightOf(lease, Standing(lease) \ some) \in Nat /\ WeightOf(lease, Standing(lease)) \in Nat
    BY LeaseFields, SeatsWeigh, WeightOfPart DEF LeasesInv
  <2>3. WeightOf(lease, Standing(lease)) <= Capacity(level) /\ Capacity(level) \in Nat
    BY CapacityIsNat DEF LeasesInv, LeasesFit
  <2> QED BY <2>1, <2>2, <2>3
<1>9. GrantsOrdered'
  BY <1>2 DEF LeasesInv, GrantsOrdered, Without
<1> QED BY <1>1, <1>7, <1>8, <1>9 DEF LeasesInv, LeasesFit

LEMMA OthersWeighTheSame ==
    ASSUME lease \in [Seats -> LeaseRecord], NEW s \in Seats, NEW r, lease' = [lease EXCEPT ![s] = r]
    PROVE  \A few \in SUBSET (Seats \ {s}) : WeightOf(lease', few) = WeightOf(lease, few)
<1> TAKE few \in SUBSET (Seats \ {s})
<1>1. IsFiniteSet(few)
  BY SeatsWeigh
<1>2. \A t \in few : lease'[t].weight = lease[t].weight
  OBVIOUS
<1> QED BY <1>1, <1>2, WeightOfSame

\* A lease that fits is the latest.
LEMMA LeaseGranted ==
    ASSUME LeasesInv, NEW s \in Seats, NEW r \in LeaseRecord, r.leased,
           lease' = [lease EXCEPT ![s] = r], used' = (used - lease[s].weight) + r.weight,
           used' <= Capacity(level), granted' = GrantedLast(s), level' = level
    PROVE  LeasesInv'
<1> DEFINE rest == Leased \ {s}
<1>1. /\ lease' \in [Seats -> LeaseRecord] /\ lease'[s] = r
      /\ \A t \in Seats \ {s} : lease'[t] = lease[t]
  BY DEF LeasesInv
<1>2. Weightless'
  BY <1>1 DEF LeasesInv, Weightless
<1>3. Leased' = rest \cup {s} /\ Standing(lease') \subseteq Leased'
  BY <1>1 DEF Leased, Standing
<1>4. /\ rest \in SUBSET Seats /\ IsFiniteSet(rest) /\ WeightOf(lease, rest) \in Nat
      /\ IsFiniteSet(Leased) /\ Weighs(lease, Leased)
  BY LeaseFields, SeatsWeigh DEF LeasesInv
<1>5. WeightOf(lease', rest) = WeightOf(lease, rest)
  <2>1. \A few \in SUBSET (Seats \ {s}) : WeightOf(lease', few) = WeightOf(lease, few)
    BY OthersWeighTheSame DEF LeasesInv
  <2> QED BY <1>4, <2>1
<1>6. WeightOf(lease', Leased') = WeightOf(lease, rest) + r.weight
  <2>1. IsFiniteSet(Leased') /\ Weighs(lease', Leased') /\ s \in Leased' /\ Leased' \ {s} = rest
    BY <1>1, <1>3, <1>4, SeatsWeigh
  <2>2. WeightOf(lease', Leased') = WeightOf(lease', Leased' \ {s}) + lease'[s].weight
    BY <2>1, WeightOfRemove
  <2> QED BY <1>1, <1>5, <2>1, <2>2
<1>7. used = WeightOf(lease, rest) + lease[s].weight
  <2>1. CASE s \in Leased
    BY <1>4, <2>1, LeaseFields, WeightOfRemove
  <2>2. CASE s \notin Leased
    <3>1. rest = Leased /\ lease[s].weight = 0
      BY <2>2 DEF LeasesInv, Weightless, Leased
    <3> HIDE DEF rest
    <3> QED BY <1>4, <3>1, LeaseFields
  <2> QED BY <2>1, <2>2
<1>8. lease[s].weight \in Nat /\ r.weight \in Nat
  BY LeaseFields DEF LeaseRecord
<1>9. used' = WeightOf(lease', Leased') /\ used' \in Nat
  <2> HIDE DEF rest
  <2> QED BY <1>4, <1>6, <1>7, <1>8
<1>10. WeightOf(lease', Standing(lease')) <= Capacity(level')
  <2>1. IsFiniteSet(Leased') /\ Weighs(lease', Leased')
    BY <1>1, <1>3, <1>4, SeatsWeigh
  <2>2. /\ WeightOf(lease', Standing(lease')) \in Nat
        /\ WeightOf(lease', Standing(lease')) <= WeightOf(lease', Leased')
    BY <1>3, <2>1, WeightOfPart
  <2>3. Capacity(level) \in Nat
    BY CapacityIsNat DEF LeasesInv
  <2> QED BY <1>9, <2>2, <2>3
<1>11. GrantsOrdered'
  BY <1>3 DEF LeasesInv, GrantsOrdered, GrantedLast, Without
<1> QED BY <1>1, <1>2, <1>9, <1>10, <1>11 DEF LeasesInv, LeasesFit

\* Some leased seats have one that is revoked before every other.
LEMMA OneIsFirst ==
    ASSUME LeasesInv, NEW those \in SUBSET Leased, those # {}
    PROVE  \E s \in those : \A t \in those : t = s \/ RevokedBefore(s, t)
<1> DEFINE family == {some \in SUBSET Leased : some # {} =>
                        \E s \in some : \A t \in some : t = s \/ RevokedBefore(s, t)}
<1>1. \A s, t \in Leased : s = t \/ RevokedBefore(s, t) \/ RevokedBefore(t, s)
  <2> TAKE s, t \in Leased
  <2>1. s = t \/ <<s, t>> \in granted \/ <<t, s>> \in granted
    BY DEF LeasesInv, GrantsOrdered
  <2>2. CASE TableOf[s] \in Peopled /\ TableOf[t] \in Peopled
    BY <2>1, <2>2 DEF RevokedBefore
  <2>3. CASE TableOf[s] \notin Peopled /\ TableOf[t] \notin Peopled
    BY <2>1, <2>3 DEF RevokedBefore
  <2>4. CASE TableOf[s] \in Peopled /\ TableOf[t] \notin Peopled
    BY <2>4 DEF RevokedBefore
  <2>5. CASE TableOf[s] \notin Peopled /\ TableOf[t] \in Peopled
    BY <2>5 DEF RevokedBefore
  <2> QED BY <2>2, <2>3, <2>4, <2>5
<1>2. \A s, t, u \in Leased : RevokedBefore(s, t) /\ RevokedBefore(t, u) => RevokedBefore(s, u)
  BY DEF LeasesInv, GrantsOrdered, RevokedBefore
<1>3. ASSUME NEW some \in SUBSET Leased, \A fewer \in SUBSET some : fewer # some => fewer \in family
      PROVE  some \in family
  <2> SUFFICES ASSUME some # {} PROVE \E s \in some : \A t \in some : t = s \/ RevokedBefore(s, t)
    OBVIOUS
  <2>1. PICK x \in some : TRUE
    OBVIOUS
  <2>2. CASE some \ {x} = {}
    BY <2>1, <2>2
  <2>3. CASE some \ {x} # {}
    <3>1. some \ {x} \in family
      BY <1>3, <2>1
    <3>2. PICK s \in some \ {x} : \A t \in some \ {x} : t = s \/ RevokedBefore(s, t)
      BY <2>3, <3>1
    <3>3. CASE RevokedBefore(s, x)
      BY <3>2, <3>3
    <3>4. CASE RevokedBefore(x, s)
      <4>1. \A t \in some : t = x \/ RevokedBefore(x, t)
        BY <1>2, <2>1, <3>2, <3>4
      <4> QED BY <2>1, <4>1
    <3> QED BY <1>1, <2>1, <3>2, <3>3, <3>4
  <2> QED BY <2>2, <2>3
<1> HIDE DEF family
<1>4. IsFiniteSet(Leased)
  BY LeaseFields, SeatsWeigh DEF LeasesInv
<1>5. SUBSET Leased \subseteq family
  BY <1>3, <1>4, SubsetInduction
<1> QED BY <1>5 DEF family

\* What a level leaves standing fits it: the seat revoked first among them was
\* kept with all of the others.
LEMMA SetLevelKeeps ==
    ASSUME LeasesInv, NEW lev \in Levels, SetLevel(lev)
    PROVE  LeasesInv'
<1> DEFINE kept(s) == {t \in Standing(lease) : t = s \/ RevokedBefore(s, t)}
           enough(s) == EnoughOf(kept(s), Capacity(lev))
<1>1. /\ lease' = [s \in Seats |-> IF s \in Standing(lease) /\ ~enough(s)
                                     THEN [lease[s] EXCEPT !.revoked = TRUE] ELSE lease[s]]
      /\ level' = lev /\ used' = used /\ granted' = granted
  BY DEF SetLevel
<1>2. \A s \in Seats : /\ lease'[s] \in LeaseRecord /\ lease'[s].leased = lease[s].leased
                       /\ lease'[s].weight = lease[s].weight
                       /\ lease'[s].revoked = (lease[s].revoked \/ (s \in Standing(lease) /\ ~enough(s)))
  <2> TAKE s \in Seats
  <2>1. lease[s] \in LeaseRecord
    BY LeaseFields
  <2> DEFINE r == [lease[s] EXCEPT !.revoked = TRUE]
  <2>2. r \in LeaseRecord /\ r.leased = lease[s].leased /\ r.weight = lease[s].weight /\ r.revoked = TRUE
    BY <2>1 DEF LeaseRecord
  <2>3. lease[s].revoked \in BOOLEAN
    BY <2>1 DEF LeaseRecord
  <2>4. lease'[s] = IF s \in Standing(lease) /\ ~enough(s) THEN r ELSE lease[s]
    BY <1>1
  <2> HIDE DEF r, enough
  <2> QED BY <2>1, <2>2, <2>3, <2>4
<1>3. lease' \in [Seats -> LeaseRecord]
  BY <1>1, <1>2
<1>4. Leased' = Leased /\ Standing(lease') = {s \in Standing(lease) : enough(s)}
  BY <1>2 DEF Leased, Standing
<1>5. Weightless' /\ GrantsOrdered'
  BY <1>1, <1>2, <1>4 DEF LeasesInv, Weightless, GrantsOrdered
<1>6. \A some \in SUBSET Seats : WeightOf(lease', some) = WeightOf(lease, some)
  BY <1>2, <1>3, SeatsWeigh, WeightOfSame
<1>7. used' = WeightOf(lease', Leased')
  BY <1>1, <1>4, <1>6, LeaseFields
<1>8. WeightOf(lease', Standing(lease')) <= Capacity(level')
  <2> DEFINE those == Standing(lease')
  <2>1. those \subseteq Standing(lease) /\ those \subseteq Leased /\ those \subseteq Seats
    BY <1>4, LeaseFields
  <2>2. CASE those = {}
    <3>1. WeightOf(lease', those) = 0
      BY <2>2, FS_EmptySet, WeightOfStep
    <3>2. Capacity(lev) \in Nat
      BY CapacityIsNat
    <3> QED BY <1>1, <3>1, <3>2
  <2>3. CASE those # {}
    <3>1. PICK s \in those : \A t \in those : t = s \/ RevokedBefore(s, t)
      BY <2>1, <2>3, OneIsFirst
    <3>2. those \subseteq kept(s) /\ kept(s) \subseteq Seats
      BY <2>1, <3>1, LeaseFields
    <3>3. WeightOf(lease, kept(s)) <= Capacity(lev)
      BY <1>4, <3>1 DEF EnoughOf
    <3> HIDE DEF kept, those
    <3>4. IsFiniteSet(kept(s)) /\ Weighs(lease, kept(s))
      BY <3>2, SeatsWeigh DEF LeasesInv
    <3>5. /\ WeightOf(lease, those) <= WeightOf(lease, kept(s))
          /\ WeightOf(lease, those) \in Nat /\ WeightOf(lease, kept(s)) \in Nat
      BY <3>2, <3>4, WeightOfPart
    <3>6. WeightOf(lease', those) = WeightOf(lease, those)
      BY <1>6, <2>1
    <3>7. Capacity(lev) \in Nat
      BY CapacityIsNat
    <3>8. WeightOf(lease', those) <= Capacity(level')
      BY <1>1, <3>3, <3>5, <3>6, <3>7
    <3> QED BY <3>8 DEF those
  <2> QED BY <2>2, <2>3
<1> QED BY <1>1, <1>3, <1>5, <1>7, <1>8 DEF LeasesInv, LeasesFit

LEMMA LeasesUnchanged == LeasesInv /\ UNCHANGED <<lease, used, granted, level>> => LeasesInv'
BY DEF LeasesInv, Weightless, GrantsOrdered, LeasesFit, Leased, Standing

LEMMA WeightOfOne ==
    ASSUME NEW l \in [Seats -> LeaseRecord], NEW s \in Seats
    PROVE  WeightOf(l, {s}) = l[s].weight
<1>1. IsFiniteSet({s}) /\ Weighs(l, {s}) /\ s \in {s} /\ {s} \ {s} = {}
  BY SeatsWeigh
<1>2. WeightOf(l, {s}) = WeightOf(l, {s} \ {s}) + l[s].weight
  BY <1>1, WeightOfRemove
<1>3. WeightOf(l, {s} \ {s}) = 0
  BY <1>1, FS_EmptySet, WeightOfStep
<1>4. l[s].weight \in Nat
  BY DEF LeaseRecord
<1> QED BY <1>2, <1>3, <1>4

\* The seat's lease is returned with a decision.
LEMMA OneReturned ==
    ASSUME LeasesInv, NEW s \in Seats, NEW r \in LeaseRecord, ~r.leased, r.weight = 0,
           lease' = [lease EXCEPT ![s] = r], used' = used - lease[s].weight, granted' = Without({s}), level' = level
    PROVE  LeasesInv'
<1>1. /\ lease' \in [Seats -> LeaseRecord] /\ \A t \in {s} : ~lease'[t].leased /\ lease'[t].weight = 0
      /\ \A t \in Seats \ {s} : lease'[t] = lease[t] /\ {s} \in SUBSET Seats
  BY DEF LeasesInv
<1>2. WeightOf(lease, {s}) = lease[s].weight
  BY WeightOfOne DEF LeasesInv
<1>3. {s} \in SUBSET Seats
  OBVIOUS
<1> QED BY <1>1, <1>2, <1>3, LeasesReturned

\* turnStartLocked: in each case the lease is kept, returned or granted.
LEMMA TurnStartKeeps ==
    ASSUME LeasesInv, NEW s \in Seats, TurnStart(s, lease[s]), level' = level
    PROVE  LeasesInv'
<1> DEFINE seat == lease[s]
           w == Weight[seat.want]
           cheap == [seat EXCEPT !.plays = Cheapest(seat.want), !.leased = FALSE, !.revoked = FALSE, !.weight = 0]
<1>1. seat \in LeaseRecord /\ seat.want \in Classes /\ w \in Nat /\ seat.leased \in BOOLEAN
  <2>1. seat \in LeaseRecord
    BY LeaseFields
  <2>2. seat.want \in Classes /\ seat.leased \in BOOLEAN
    BY <2>1 DEF LeaseRecord
  <2> QED BY <2>1, <2>2, GovernorAssumption
<1>2. ASSUME NEW q \in LeaseRecord
      PROVE  /\ [q EXCEPT !.decided = TRUE] \in LeaseRecord
             /\ [q EXCEPT !.decided = TRUE].leased = q.leased /\ [q EXCEPT !.decided = TRUE].weight = q.weight
             /\ [q EXCEPT !.decided = TRUE].revoked = q.revoked
  BY DEF LeaseRecord
<1>3. ASSUME NEW q \in LeaseRecord, q.leased = seat.leased, q.weight = seat.weight, q.leased => q.revoked = seat.revoked,
             lease' = [lease EXCEPT ![s] = [q EXCEPT !.decided = TRUE]], used' = used, granted' = granted
      PROVE  LeasesInv'
  <2> DEFINE r == [q EXCEPT !.decided = TRUE]
  <2>1. r \in LeaseRecord /\ r.leased = seat.leased /\ r.weight = seat.weight /\ (r.leased => r.revoked = seat.revoked)
    BY <1>2, <1>3
  <2>2. lease' = [lease EXCEPT ![s] = r]
    BY <1>3
  <2> HIDE DEF r
  <2> QED BY <1>3, <2>1, <2>2, LeaseKept
<1>4. /\ cheap \in LeaseRecord /\ cheap.leased = FALSE /\ cheap.weight = 0
  <2>1. Cheapest(seat.want) \in Classes
    BY <1>1, CheapestIsClass
  <2> QED BY <1>1, <2>1 DEF LeaseRecord
<1>5. CASE w = 0 /\ lease' = [lease EXCEPT ![s] = [[seat EXCEPT !.plays = seat.want] EXCEPT !.decided = TRUE]]
           /\ used' = used /\ granted' = granted
  <2> DEFINE q == [seat EXCEPT !.plays = seat.want]
  <2>1. q \in LeaseRecord /\ q.leased = seat.leased /\ q.weight = seat.weight /\ q.revoked = seat.revoked
    BY <1>1 DEF LeaseRecord
  <2>2. lease' = [lease EXCEPT ![s] = [q EXCEPT !.decided = TRUE]]
    BY <1>5
  <2> HIDE DEF q
  <2> QED BY <1>3, <1>5, <2>1, <2>2
<1>6. CASE lease' = [lease EXCEPT ![s] = [cheap EXCEPT !.decided = TRUE]]
           /\ used' = used - seat.weight /\ granted' = Without({s})
  <2> DEFINE r == [cheap EXCEPT !.decided = TRUE]
  <2>1. r \in LeaseRecord /\ ~r.leased /\ r.weight = 0
    <3> HIDE DEF cheap
    <3> QED BY <1>2, <1>4
  <2>2. lease' = [lease EXCEPT ![s] = r]
    BY <1>6
  <2> HIDE DEF r
  <2> QED BY <1>6, <2>1, <2>2, OneReturned
<1>7. CASE lease' = [lease EXCEPT ![s] = [seat EXCEPT !.decided = TRUE]] /\ used' = used /\ granted' = granted
  BY <1>1, <1>3, <1>7
<1>8. CASE w > 0 /\ ~seat.leased /\ Fits(w)
           /\ lease' = [lease EXCEPT ![s] = [[seat EXCEPT !.leased = TRUE, !.weight = w, !.plays = seat.want]
                                               EXCEPT !.decided = TRUE]]
           /\ used' = used + w /\ granted' = GrantedLast(s)
  <2> DEFINE q == [seat EXCEPT !.leased = TRUE, !.weight = w, !.plays = seat.want]
             r == [q EXCEPT !.decided = TRUE]
  <2>1. q \in LeaseRecord /\ q.leased = TRUE /\ q.weight = w
    BY <1>1 DEF LeaseRecord
  <2>2. r \in LeaseRecord /\ r.leased /\ r.weight = w
    <3> HIDE DEF q
    <3> QED BY <1>2, <2>1
  <2>3. lease' = [lease EXCEPT ![s] = r]
    BY <1>8
  <2>4. lease[s].weight = 0
    BY <1>8 DEF LeasesInv, Weightless
  <2> HIDE DEF r, w
  <2>5. used' = (used - lease[s].weight) + r.weight /\ used' <= Capacity(level)
    BY <1>1, <1>8, <2>2, <2>4, LeaseFields DEF Fits
  <2> QED BY <1>8, <2>2, <2>3, <2>5, LeaseGranted
<1>9. CASE ~seat.leased /\ lease' = [lease EXCEPT ![s] = [cheap EXCEPT !.decided = TRUE]]
           /\ used' = used /\ granted' = granted
  <2>1. seat.weight = 0 /\ seat.leased = FALSE
    BY <1>1, <1>9 DEF LeasesInv, Weightless
  <2> HIDE DEF cheap
  <2> QED BY <1>3, <1>4, <1>9, <2>1
<1> HIDE DEF seat, w, cheap
<1> QED BY <1>5, <1>6, <1>7, <1>8, <1>9 DEF TurnStart, seat, w, cheap

LEMMA DecideKeeps ==
    ASSUME LeasesInv, NEW s \in Seats, NEW want \in Classes, upper \in [Seats -> BOOLEAN], Decide(s, want), level' = level
    PROVE  LeasesInv' /\ upper' \in [Seats -> BOOLEAN]
<1> DEFINE known == lease[s].known /\ lease[s].want = want
           w == Weight[want]
           seat == [Unknown EXCEPT !.known = TRUE, !.want = want, !.decided = TRUE]
<1>1. upper' \in [Seats -> BOOLEAN]
  BY DEF Decide
<1>2. CASE UNCHANGED <<used, lease, granted, upper>>
  BY <1>1, <1>2, LeasesUnchanged
<1>3. CASE TurnStart(s, lease[s])
  BY <1>1, <1>3, TurnStartKeeps
<1>4. w \in Nat /\ 0 \in Classes
  BY GovernorAssumption DEF Classes
<1>5. CASE w > 0 /\ Fits(w - lease[s].weight)
           /\ lease' = [lease EXCEPT ![s] = [seat EXCEPT !.plays = want, !.leased = TRUE, !.weight = w]]
           /\ used' = (used - lease[s].weight) + w /\ granted' = GrantedLast(s)
  <2> DEFINE r == [seat EXCEPT !.plays = want, !.leased = TRUE, !.weight = w]
  <2>1. r \in LeaseRecord /\ r.leased /\ r.weight = w
    BY <1>4 DEF LeaseRecord, Unknown
  <2>2. lease' = [lease EXCEPT ![s] = r]
    BY <1>5
  <2> HIDE DEF r, seat, w
  <2>3. lease[s].weight \in Nat
    BY LeaseFields DEF LeaseRecord
  <2>4. used' <= Capacity(level) /\ used' = (used - lease[s].weight) + r.weight
    BY <1>4, <1>5, <2>1, <2>3, LeaseFields, CapacityIsNat DEF Fits, LeasesInv
  <2> QED BY <1>1, <1>5, <2>1, <2>2, <2>4, LeaseGranted
<1>6. CASE lease' = [lease EXCEPT ![s] = [seat EXCEPT !.plays = IF w = 0 THEN want ELSE Cheapest(want)]]
           /\ used' = used - lease[s].weight /\ granted' = Without({s})
  <2> DEFINE plays == IF w = 0 THEN want ELSE Cheapest(want)
             r == [seat EXCEPT !.plays = plays]
  <2>1. plays \in Classes
    BY CheapestIsClass
  <2>2. lease' = [lease EXCEPT ![s] = r]
    BY <1>6
  <2> HIDE DEF plays
  <2>3. r \in LeaseRecord /\ ~r.leased /\ r.weight = 0
    BY <1>4, <2>1 DEF LeaseRecord, Unknown
  <2> HIDE DEF r
  <2> QED BY <1>1, <1>6, <2>2, <2>3, OneReturned
<1>7. \/ UNCHANGED <<used, lease, granted, upper>>
      \/ TurnStart(s, lease[s])
      \/ /\ w > 0 /\ Fits(w - lease[s].weight)
         /\ lease' = [lease EXCEPT ![s] = [seat EXCEPT !.plays = want, !.leased = TRUE, !.weight = w]]
         /\ used' = (used - lease[s].weight) + w /\ granted' = GrantedLast(s)
      \/ /\ lease' = [lease EXCEPT ![s] = [seat EXCEPT !.plays = IF w = 0 THEN want ELSE Cheapest(want)]]
         /\ used' = used - lease[s].weight /\ granted' = Without({s})
  BY DEF Decide
<1> HIDE DEF known, w, seat
<1> QED BY <1>1, <1>2, <1>3, <1>5, <1>6, <1>7

-----------------------------------------------------------------------------
Movers == [Matches -> Seats \cup {NoPlayer}]
Picks == [seat : Seats \cup {NoPlayer}, class : Classes]
SeatBots == [known : BOOLEAN, class : Classes, want : Classes]

\* What the governor and the tracker keep apart from the leases.
TurnsTyped ==
    /\ mode \in {"off", "observe", "enforce"}
    /\ lastMover \in Movers /\ turnMover \in Movers
    /\ turnBot \in [Seats -> SeatBots]
    /\ asks \in [Matches -> Classes] /\ upper \in [Seats -> BOOLEAN]
    /\ picked \in [Matches -> Picks] /\ began \in [Matches -> Classes \cup {Forgotten}]

GovernorInv == LeasesInv /\ TurnsTyped

LEMMA GovernorTyped == GovernorInv => GovernorTypeOK
BY LeaseFields DEF GovernorInv, LeasesInv, GrantsOrdered, TurnsTyped, GovernorTypeOK, LeaseRecord, Levels, Movers,
                   Picks, SeatBots

LEMMA NothingTyped == /\ NoBot \in SeatBots /\ NoPick \in Picks /\ NoPick.seat = NoPlayer
                      /\ 0 \in Classes /\ Top \in Classes
<1>1. 0 \in Classes /\ Top \in Classes
  BY GovernorAssumption DEF Classes
<1> QED BY <1>1 DEF NoBot, SeatBots, NoPick, Picks

LEMMA InitGovernor == GovernorInit => GovernorInv
<1> SUFFICES ASSUME GovernorInit PROVE GovernorInv
  OBVIOUS
<1>1. Unknown \in LeaseRecord /\ ~Unknown.leased /\ Unknown.weight = 0
  BY NothingTyped DEF Unknown, LeaseRecord
<1>2. lease \in [Seats -> LeaseRecord] /\ Weightless /\ Leased = {} /\ Standing(lease) = {} /\ level \in Levels
  BY <1>1 DEF GovernorInit, Weightless, Leased, Standing, Levels
<1>3. WeightOf(lease, {}) = 0
  BY FS_EmptySet, WeightOfStep
<1>4. Capacity(level) \in Nat
  BY <1>2, CapacityIsNat
<1>5. LeasesFit
  BY <1>2, <1>3, <1>4 DEF LeasesFit, GovernorInit
<1>6. GrantsOrdered
  BY <1>2 DEF GrantsOrdered, GovernorInit
<1>7. TurnsTyped
  BY NothingTyped DEF GovernorInit, TurnsTyped, Movers
<1> QED BY <1>2, <1>5, <1>6, <1>7 DEF GovernorInv, LeasesInv

LEMMA SeatBotTyped ==
    ASSUME GovernorInv, NEW s \in Seats, SeatBot(s)
    PROVE  GovernorInv'
<1> DEFINE m == TableOf[s]
           want == IF MidTurn(s) THEN turnBot[s].want ELSE asks[m]
           class == IF MidTurn(s) THEN turnBot[s].class
                    ELSE IF mode = "enforce" THEN lease'[s].plays ELSE want
<1>1. m \in Matches
  BY DEF Matches
<1>2. turnBot[s].want \in Classes /\ turnBot[s].class \in Classes /\ asks[m] \in Classes
  BY <1>1 DEF GovernorInv, TurnsTyped, SeatBots
<1>3. want \in Classes
  BY <1>2
<1>4. /\ IF mode = "off" THEN UNCHANGED <<used, lease, granted, upper>> ELSE Decide(s, want)
      /\ turnBot' = [turnBot EXCEPT ![s] = [known |-> TRUE, class |-> class, want |-> want]]
      /\ picked' = [picked EXCEPT ![m] = [seat |-> s, class |-> class]]
      /\ UNCHANGED <<mode, level, lastMover, turnMover, asks, began>>
  BY DEF SeatBot
<1>5. LeasesInv' /\ upper' \in [Seats -> BOOLEAN]
  <2> HIDE DEF want
  <2> QED BY <1>3, <1>4, DecideKeeps, LeasesUnchanged DEF GovernorInv, TurnsTyped
<1>6. lease'[s].plays \in Classes
  BY <1>5 DEF LeasesInv, LeaseRecord
<1>7. class \in Classes
  BY <1>2, <1>3, <1>6
<1> HIDE DEF class, want
<1>8. [known |-> TRUE, class |-> class, want |-> want] \in SeatBots /\ [seat |-> s, class |-> class] \in Picks
  BY <1>3, <1>7 DEF SeatBots, Picks
<1> QED BY <1>4, <1>5, <1>8 DEF GovernorInv, TurnsTyped

LEMMA BotMovesTyped ==
    ASSUME GovernorInv, NEW m \in Matches, BotMoves(m)
    PROVE  GovernorInv'
<1>1. picked[m] \in Picks /\ picked[m].seat # NoPlayer
  BY DEF GovernorInv, TurnsTyped, BotMoves
<1>2. picked[m].seat \in Seats /\ picked[m].class \in Classes
  BY <1>1 DEF Picks
<1>3. /\ turnMover' = [turnMover EXCEPT ![m] = picked[m].seat]
      /\ lastMover' = IF mode = "off" THEN lastMover ELSE [lastMover EXCEPT ![m] = picked[m].seat]
      /\ began' = IF turnMover[m] = picked[m].seat THEN began ELSE [began EXCEPT ![m] = picked[m].class]
      /\ picked' = [picked EXCEPT ![m] = NoPick]
      /\ UNCHANGED <<mode, level, used, lease, granted, turnBot, asks>>
  BY DEF BotMoves, NoteMove
<1>4. upper' \in [Seats -> BOOLEAN]
  BY DEF BotMoves, GovernorInv, TurnsTyped
<1>5. turnMover' \in Movers /\ lastMover' \in Movers
  BY <1>2, <1>3 DEF GovernorInv, TurnsTyped, Movers
<1>6. began' \in [Matches -> Classes \cup {Forgotten}]
  BY <1>2, <1>3 DEF GovernorInv, TurnsTyped
<1> QED BY <1>3, <1>4, <1>5, <1>6, LeasesUnchanged, NothingTyped DEF GovernorInv, TurnsTyped

LEMMA ReturnedKeeps ==
    ASSUME GovernorInv, NEW some \in SUBSET Seats, Returned(some), level' = level
    PROVE  LeasesInv' /\ upper' \in [Seats -> BOOLEAN]
<1>1. Unknown \in LeaseRecord /\ ~Unknown.leased /\ Unknown.weight = 0
  BY NothingTyped DEF Unknown, LeaseRecord
<1>2. lease' = [s \in Seats |-> IF s \in some THEN Unknown ELSE lease[s]]
  BY DEF Returned
<1>3. lease' \in [Seats -> LeaseRecord]
  BY <1>1, <1>2, LeaseFields DEF GovernorInv
<1>4. (\A s \in some : ~lease'[s].leased /\ lease'[s].weight = 0) /\ \A s \in Seats \ some : lease'[s] = lease[s]
  BY <1>1, <1>2
<1>5. used' = used - WeightOf(lease, some) /\ granted' = Without(some)
  BY DEF Returned
<1>6. LeasesInv'
  BY <1>3, <1>4, <1>5, LeasesReturned DEF GovernorInv
<1>7. upper' \in [Seats -> BOOLEAN]
  BY DEF Returned, GovernorInv, TurnsTyped
<1> QED BY <1>6, <1>7

LEMMA StepKeepsGovernor == GovernorInv /\ [GovernorNext]_governorVars => GovernorInv'
<1> SUFFICES ASSUME GovernorInv, [GovernorNext]_governorVars PROVE GovernorInv'
  OBVIOUS
<1>1. ASSUME NEW m \in Matches, BotRefused(m) PROVE GovernorInv'
  BY <1>1, LeasesUnchanged, NothingTyped DEF BotRefused, GovernorInv, TurnsTyped
<1>2. ASSUME NEW m \in Matches, PersonMoves(m) PROVE GovernorInv'
  <2>1. lastMover' \in Movers /\ turnMover' \in Movers
    BY <1>2 DEF PersonMoves, NoteMove, GovernorInv, TurnsTyped, Movers
  <2>2. upper' \in [Seats -> BOOLEAN]
    BY <1>2 DEF PersonMoves, GovernorInv, TurnsTyped
  <2> QED BY <1>2, <2>1, <2>2, LeasesUnchanged DEF PersonMoves, GovernorInv, TurnsTyped
<1>3. ASSUME NEW m \in Matches, MatchStopped(m) PROVE GovernorInv'
  <2> DEFINE here == {s \in Seats : TableOf[s] = m}
  <2>1. Returned(here) /\ level' = level
    BY <1>3 DEF MatchStopped
  <2>2. LeasesInv' /\ upper' \in [Seats -> BOOLEAN]
    <3>1. here \in SUBSET Seats
      OBVIOUS
    <3> HIDE DEF here
    <3> QED BY <2>1, <3>1, ReturnedKeeps
  <2>3. lastMover' \in Movers /\ turnMover' \in Movers
    BY <1>3 DEF MatchStopped, GovernorInv, TurnsTyped, Movers
  <2>4. turnBot' \in [Seats -> SeatBots]
    BY <1>3, NothingTyped DEF MatchStopped, GovernorInv, TurnsTyped
  <2> QED BY <1>3, <2>2, <2>3, <2>4, NothingTyped DEF MatchStopped, GovernorInv, TurnsTyped
<1>4. ASSUME NEW m \in Matches, NEW c \in Classes, Switch(m, c) PROVE GovernorInv'
  BY <1>4, LeasesUnchanged DEF Switch, GovernorInv, TurnsTyped
<1>5. ASSUME NEW lev \in Levels, SetLevel(lev) PROVE GovernorInv'
  BY <1>5, SetLevelKeeps DEF SetLevel, GovernorInv, TurnsTyped
<1>6. ASSUME NEW to \in {"off", "observe", "enforce"}, SetMode(to) PROVE GovernorInv'
  <2>1. LeasesInv'
    BY <1>6, NoLeases DEF SetMode, GovernorInv, LeasesInv
  <2> QED BY <1>6, <2>1 DEF SetMode, GovernorInv, TurnsTyped, Movers
<1>7. ASSUME NEW some \in SUBSET Seats, NEW longer \in BOOLEAN, SweepSeats(some, longer) PROVE GovernorInv'
  <2>1. Returned(some) /\ UNCHANGED <<mode, level, asks, picked>>
    BY <1>7 DEF SweepSeats
  <2>2. lastMover' \in Movers /\ turnMover' \in Movers
    BY <1>7 DEF SweepSeats, GovernorInv, TurnsTyped, Movers
  <2>3. turnBot' \in [Seats -> SeatBots]
    BY <1>7, NothingTyped DEF SweepSeats, GovernorInv, TurnsTyped
  <2>4. began' \in [Matches -> Classes \cup {Forgotten}]
    BY <1>7 DEF SweepSeats, GovernorInv, TurnsTyped
  <2> QED BY <2>1, <2>2, <2>3, <2>4, ReturnedKeeps DEF GovernorInv, TurnsTyped
<1>8. CASE UNCHANGED governorVars
  BY <1>8, LeasesUnchanged DEF governorVars, GovernorInv, TurnsTyped
<1> QED BY <1>1, <1>2, <1>3, <1>4, <1>5, <1>6, <1>7, <1>8, SeatBotTyped, BotMovesTyped DEF GovernorNext, Levels

\* Whatever comes in whatever order, the cores accounted for are those leased,
\* and what is leased and not to be given up fits the level: turnStartLocked
\* grants only what fits, and revokeOverLocked leaves standing only what does.
THEOREM LeasesFitHolds == GovernorSpec => []LeasesFit
<1>1. GovernorInv => LeasesFit
  BY DEF GovernorInv, LeasesInv
<1> QED BY <1>1, InitGovernor, StepKeepsGovernor, PTL DEF GovernorSpec

\* The types of the governor and the tracker; the cores in use are a number.
THEOREM GovernorTypesHold == GovernorSpec => []GovernorTypeOK
BY GovernorTyped, InitGovernor, StepKeepsGovernor, PTL DEF GovernorSpec

-----------------------------------------------------------------------------
(* Finished matches on their way to the cloud *)

Records == [state : {"none", "pending", "saved", "uploaded", "discarded"}, answer : [Players -> Answers],
            waited : BOOLEAN]

\* Every set of names there is, wherever it has got to, is of people who agreed.
NamesAgreed ==
    \A names \in outbox \cup arrived \cup importing.bundle \cup recording \cup result : names \subseteq agreed

\* So is who a record would name, the phone's or the one Reconcile has listed.
RecordsAgreed == Named(save) \subseteq agreed /\ Named(listed) \subseteq agreed

\* What is listed was saved, and nothing is before there is a record.
ListedWasSaved ==
    /\ listed = NoRecord \/ listed.state = "saved"
    /\ unkept => save.state = "none" /\ listed = NoRecord

\* What is in the outbox waits, where every drop has worked and nothing was
\* overtaken.
WaitsSaved == ~overtaken /\ ~undropped /\ outbox # Nobody => save.state = "saved"

\* The result names the host.
HostHasResult == \E names \in result : Host \in names

\* The host's history is of a result that names them, and the phone believes
\* nothing else: what it calls uploaded has been recorded.
UploadedIsRecorded == (history \/ save.state = "uploaded" => HostHasResult) /\ (confirmed => history)

SavesInv ==
    SavesTypeOK /\ NamesAgreed /\ RecordsAgreed /\ ListedWasSaved /\ WaitsSaved /\ UploadedIsRecorded

-----------------------------------------------------------------------------
\* What a record names is a set of people, and at most one bundle.
LEMMA NamedIsBundle == ASSUME NEW rec PROVE Named(rec) \subseteq Players /\ {Named(rec)} \in Bundles
BY DEF Named, Bundles

LEMMA NobodyIsBundle == Nobody \in Bundles
BY DEF Nobody, Bundles

LEMMA NoRecordIsRecord == NoRecord \in Records /\ NoRecord.state = "none" /\ Named(NoRecord) = {}
<1>1. NoRecord \in Records /\ NoRecord.state = "none"
  BY DEF NoRecord, Records, Answers
<1>2. \A p \in Players : NoRecord.answer[p] = "none"
  BY DEF NoRecord
<1> QED BY <1>1, <1>2 DEF Named

\* An answer changes what a record names by the one who gave it.
LEMMA Answered ==
    ASSUME NEW rec \in Records, NEW p \in Players, NEW a \in {"yes", "no"}, NEW r \in Records,
           r.answer = [rec.answer EXCEPT ![p] = a]
    PROVE  Named(r) \subseteq Named(rec) \cup (IF a = "yes" THEN {p} ELSE {})
<1>1. rec.answer \in [Players -> Answers]
  BY DEF Records
<1>2. \A q \in Players : r.answer[q] = IF q = p THEN a ELSE rec.answer[q]
  BY <1>1
<1> QED BY <1>2 DEF Named

-----------------------------------------------------------------------------
LEMMA InitSaves == SavesInit => SavesInv
<1> SUFFICES ASSUME SavesInit PROVE SavesInv
  OBVIOUS
<1>1. NoImport.bundle = Nobody /\ NoImport \in [at : {"idle", "read", "inserted"}, bundle : Bundles]
  BY NobodyIsBundle DEF NoImport
<1>2. SavesTypeOK
  BY <1>1, NobodyIsBundle, NoRecordIsRecord DEF SavesInit, SavesTypeOK, NoRecord, Records
<1>3. NamesAgreed
  BY <1>1 DEF SavesInit, NamesAgreed, Nobody
<1>4. RecordsAgreed /\ ListedWasSaved /\ WaitsSaved /\ UploadedIsRecorded
  BY NoRecordIsRecord DEF SavesInit, RecordsAgreed, ListedWasSaved, WaitsSaved, UploadedIsRecorded
<1> QED BY <1>2, <1>3, <1>4 DEF SavesInv

\* Handing leaves a bundle of the record's names, or the outbox as it was.
LEMMA HandKeeps ==
    ASSUME NEW rec, Hand(rec)
    PROVE  outbox' \in {outbox, {Named(rec)}}
BY DEF Hand

\* A drop leaves nothing, or the outbox as it was, and is remembered to have failed.
LEMMA DropKeeps ==
    ASSUME undropped \in BOOLEAN, DropBundle
    PROVE  /\ outbox' = Nobody \/ (outbox' = outbox /\ undropped')
           /\ undropped' \in BOOLEAN /\ (undropped => undropped')
<1>1. CASE outbox' = Nobody /\ UNCHANGED undropped
  BY <1>1
<1>2. CASE UNCHANGED outbox /\ undropped' = TRUE
  BY <1>2
<1> QED BY <1>1, <1>2 DEF DropBundle

\* The host saves.
LEMMA SaveKeeps == ASSUME SavesInv, Save PROVE SavesInv'
<1> DEFINE rec == [save EXCEPT !.state = "saved", !.answer[Host] = "yes"]
<1>0. save \in Records /\ Host \in Players
  BY LocalSavesAssumption DEF SavesInv, SavesTypeOK, Records
<1>1. rec \in Records /\ rec.state = "saved" /\ rec.answer = [save.answer EXCEPT ![Host] = "yes"]
  BY <1>0 DEF Records, Answers
<1>2. save' = rec /\ agreed' = agreed \cup {Host}
  BY DEF Save
<1> HIDE DEF rec
<1>3a. Named(rec) \subseteq Named(save) \cup {Host}
  BY <1>0, <1>1, Answered
<1>3. Named(rec) \subseteq agreed'
  BY <1>2, <1>3a DEF SavesInv, RecordsAgreed
<1> USE DEF rec
<1>4. outbox' \in {outbox, {Named(rec)}}
  BY HandKeeps DEF Save
<1>5. UNCHANGED <<unkept, playable, listed, overtaken, undropped, arrived, confirmed, faulty, Cloud>>
  BY DEF Save
<1>6. ~unkept
  BY DEF Save, SavesInv, ListedWasSaved
<1> HIDE DEF rec
<1>7. SavesTypeOK'
  BY <1>0, <1>1, <1>2, <1>4, <1>5, NamedIsBundle DEF SavesInv, SavesTypeOK, Records, Cloud
<1>8. NamesAgreed'
  BY <1>2, <1>3, <1>4, <1>5 DEF SavesInv, NamesAgreed, Cloud
<1>9. RecordsAgreed'
  BY <1>2, <1>3, <1>5 DEF SavesInv, RecordsAgreed, Named
<1>10. ListedWasSaved' /\ WaitsSaved'
  BY <1>1, <1>2, <1>5, <1>6 DEF SavesInv, ListedWasSaved, WaitsSaved
<1>11. UploadedIsRecorded'
  BY <1>1, <1>2, <1>5 DEF SavesInv, UploadedIsRecorded, HostHasResult, Cloud
<1> QED BY <1>7, <1>8, <1>9, <1>10, <1>11 DEF SavesInv

\* A player answers.
LEMMA ConsentKeeps ==
    ASSUME SavesInv, NEW p \in Players, NEW a \in {"yes", "no"}, Consent(p, a) PROVE SavesInv'
<1> DEFINE rec == [save EXCEPT !.answer[p] = a]
<1>0. save \in Records
  BY DEF SavesInv, SavesTypeOK, Records
<1>1. rec \in Records /\ rec.state = save.state /\ rec.answer = [save.answer EXCEPT ![p] = a]
  BY <1>0 DEF Records, Answers
<1>2. save' = rec /\ agreed' = (IF a = "yes" THEN agreed \cup {p} ELSE agreed)
  BY DEF Consent
<1> HIDE DEF rec
<1>3a. Named(rec) \subseteq Named(save) \cup (IF a = "yes" THEN {p} ELSE {})
  BY <1>0, <1>1, Answered
<1>3. Named(rec) \subseteq agreed' /\ agreed \subseteq agreed' /\ agreed' \subseteq Players
  BY <1>2, <1>3a DEF SavesInv, RecordsAgreed, SavesTypeOK
<1> USE DEF rec
<1>4. \/ outbox' = outbox
      \/ outbox' = {Named(rec)} /\ rec.state = "saved"
  BY HandKeeps DEF Consent
<1>5. UNCHANGED <<unkept, playable, listed, overtaken, undropped, arrived, confirmed, faulty, Cloud>>
  BY DEF Consent
<1>6. ~unkept
  BY DEF Consent, Exists, SavesInv, ListedWasSaved
<1> HIDE DEF rec
<1>7. SavesTypeOK'
  BY <1>0, <1>1, <1>2, <1>3, <1>4, <1>5, NamedIsBundle DEF SavesInv, SavesTypeOK, Records, Cloud
<1>8. NamesAgreed'
  BY <1>3, <1>4, <1>5 DEF SavesInv, NamesAgreed, Cloud
<1>9. RecordsAgreed'
  BY <1>2, <1>3, <1>5 DEF SavesInv, RecordsAgreed, Named
<1>10. ListedWasSaved' /\ WaitsSaved'
  BY <1>1, <1>2, <1>4, <1>5, <1>6 DEF SavesInv, ListedWasSaved, WaitsSaved
<1>11. UploadedIsRecorded'
  BY <1>1, <1>2, <1>5 DEF SavesInv, UploadedIsRecorded, HostHasResult, Cloud
<1> QED BY <1>7, <1>8, <1>9, <1>10, <1>11 DEF SavesInv

\* The rest of what the phone does to its record.
LEMMA PhoneKeeps ==
    ASSUME SavesInv, Remember \/ GraceEnds \/ Discard \/ ReconcileLists \/ PhoneRetires \/ PhoneStops
    PROVE  SavesInv'
<1>0. save \in Records /\ listed \in Records
  BY DEF SavesInv, SavesTypeOK, Records
<1>1. save' \in Records /\ save'.answer = save.answer
  <2>1. CASE Remember
    BY <1>0, <2>1 DEF Remember, Records
  <2>2. CASE GraceEnds
    BY <1>0, <2>2 DEF GraceEnds, Records
  <2>3. CASE Discard
    BY <1>0, <2>3 DEF Discard, Records
  <2>4. CASE ReconcileLists \/ PhoneRetires \/ PhoneStops
    BY <1>0, <2>4 DEF ReconcileLists, PhoneRetires, PhoneStops
  <2> QED BY <2>1, <2>2, <2>3, <2>4
<1>a. undropped' \in BOOLEAN /\ (undropped => undropped') /\ outbox' \in {outbox, Nobody}
  <2>0. undropped \in BOOLEAN
    BY DEF SavesInv, SavesTypeOK
  <2>1. CASE Discard
    BY <2>0, <2>1, DropKeeps DEF Discard
  <2>2. CASE Remember \/ GraceEnds \/ ReconcileLists \/ PhoneRetires \/ PhoneStops
    BY <2>0, <2>2 DEF Remember, GraceEnds, ReconcileLists, PhoneRetires, PhoneStops
  <2> QED BY <2>1, <2>2
<1>2. /\ UNCHANGED <<agreed, arrived, overtaken, confirmed, faulty, Cloud>>
      /\ outbox' \in {outbox, Nobody}
      /\ undropped' \in BOOLEAN /\ (undropped => undropped')
      /\ unkept' \in BOOLEAN /\ playable' \in BOOLEAN
      /\ \/ listed' \in {listed, NoRecord}
         \/ listed' = save /\ save.state = "saved"
  BY <1>a DEF SavesInv, SavesTypeOK, Remember, GraceEnds, Discard, ReconcileLists, PhoneRetires, PhoneStops
<1>3. SavesTypeOK'
  BY <1>0, <1>1, <1>2, NobodyIsBundle, NoRecordIsRecord DEF SavesInv, SavesTypeOK, Records, ListedWasSaved, Cloud
<1>4. NamesAgreed'
  BY <1>2 DEF SavesInv, NamesAgreed, Nobody, Cloud
<1>5. RecordsAgreed'
  BY <1>1, <1>2, NoRecordIsRecord DEF SavesInv, RecordsAgreed, Named
<1>6. ListedWasSaved'
  <2>1. CASE Remember
    BY <2>1, <1>0 DEF Remember, SavesInv, ListedWasSaved
  <2>2. CASE GraceEnds
    BY <2>2, <1>0 DEF GraceEnds, SavesInv, ListedWasSaved
  <2>3. CASE Discard
    BY <2>3, <1>0 DEF Discard, Exists, SavesInv, ListedWasSaved
  <2>4. CASE ReconcileLists \/ PhoneRetires \/ PhoneStops
    BY <1>0, <2>4 DEF ReconcileLists, PhoneRetires, PhoneStops, SavesInv, ListedWasSaved
  <2> QED BY <2>1, <2>2, <2>3, <2>4
<1>7. WaitsSaved'
  <2>1. CASE Remember
    BY <2>1, <1>0 DEF Remember, SavesInv, ListedWasSaved, WaitsSaved
  <2>2. CASE GraceEnds
    <3>1. save'.state = save.state
      BY <2>2, <1>0 DEF GraceEnds, Records
    <3> QED BY <2>2, <3>1 DEF GraceEnds, SavesInv, WaitsSaved
  <2>3. CASE Discard
    <3>1. outbox' = Nobody \/ undropped' \/ (save.state # "saved" /\ UNCHANGED <<outbox, undropped>>)
      BY <2>3, DropKeeps DEF Discard, SavesInv, SavesTypeOK
    <3> QED BY <2>3, <1>2, <3>1 DEF SavesInv, WaitsSaved
  <2>4. CASE ReconcileLists \/ PhoneRetires \/ PhoneStops
    BY <1>0, <2>4 DEF ReconcileLists, PhoneRetires, PhoneStops, SavesInv, WaitsSaved
  <2> QED BY <2>1, <2>2, <2>3, <2>4
<1>8. UploadedIsRecorded'
  <2>1. save'.state = "uploaded" => save.state = "uploaded"
    BY <1>0 DEF Remember, GraceEnds, Discard, ReconcileLists, PhoneRetires, PhoneStops, Records
  <2> QED BY <1>2, <2>1 DEF SavesInv, UploadedIsRecorded, HostHasResult, Cloud
<1> QED BY <1>3, <1>4, <1>5, <1>6, <1>7, <1>8 DEF SavesInv

\* Reconcile settles a record that may have changed since it was listed.
LEMMA SettlesKeeps == ASSUME SavesInv, ReconcileSettles PROVE SavesInv'
<1>0. save \in Records /\ listed \in Records /\ listed.state = "saved" /\ ~unkept
  BY DEF SavesInv, SavesTypeOK, Records, ListedWasSaved, ReconcileSettles
<1> DEFINE up == [listed EXCEPT !.state = "uploaded"]
           gone == [save EXCEPT !.state = "discarded"]
<1>1. /\ up \in Records /\ gone \in Records
      /\ up.answer = listed.answer /\ gone.answer = save.answer /\ gone.state = "discarded"
  BY <1>0 DEF Records
<1>2. \/ (outbox' = Nobody \/ (outbox' = outbox /\ undropped')) /\ save' \in {save, up} /\ confirmed
      \/ outbox' \in {outbox, {Named(listed)}} /\ save' = save
      \/ outbox' = outbox /\ outbox = Nobody /\ save' = gone
  <2>1. CASE confirmed
    <3>1. DropBundle /\ save' \in {save, up}
      BY <2>1 DEF ReconcileSettles
    <3>2. undropped \in BOOLEAN
      BY DEF SavesInv, SavesTypeOK
    <3>3. outbox' = Nobody \/ (outbox' = outbox /\ undropped')
      BY <3>1, <3>2, DropKeeps
    <3> HIDE DEF up, gone
    <3> QED BY <2>1, <3>1, <3>3
  <2>2. CASE ~confirmed
    BY <2>2, HandKeeps DEF ReconcileSettles, Missing
  <2> QED BY <2>1, <2>2
<1>3. /\ UNCHANGED <<unkept, playable, agreed, arrived, confirmed, faulty, Cloud>>
      /\ listed' = NoRecord /\ overtaken' \in BOOLEAN
      /\ undropped' \in BOOLEAN /\ (undropped => undropped')
      /\ ~overtaken' => ~overtaken /\ [listed EXCEPT !.waited = save.waited] = save
  <2>1. undropped' \in BOOLEAN /\ (undropped => undropped')
    BY DropKeeps DEF ReconcileSettles, SavesInv, SavesTypeOK
  <2> QED BY <2>1 DEF ReconcileSettles, SavesInv, SavesTypeOK
<1>4. [listed EXCEPT !.waited = save.waited].state = "saved"
  BY <1>0 DEF Records
<1> HIDE DEF up, gone
<1>5. SavesTypeOK'
  BY <1>0, <1>1, <1>2, <1>3, NobodyIsBundle, NamedIsBundle, NoRecordIsRecord
     DEF SavesInv, SavesTypeOK, Records, Cloud
<1>6. NamesAgreed'
  BY <1>2, <1>3 DEF SavesInv, NamesAgreed, RecordsAgreed, Nobody, Cloud
<1>7. RecordsAgreed'
  <2>1. Named(save') \subseteq agreed
    BY <1>1, <1>2 DEF SavesInv, RecordsAgreed, Named
  <2> QED BY <2>1, <1>3, NoRecordIsRecord DEF RecordsAgreed, Named
<1>8. ListedWasSaved'
  BY <1>0, <1>3 DEF ListedWasSaved
<1>9. WaitsSaved'
  BY <1>2, <1>3, <1>4 DEF WaitsSaved
<1>10. UploadedIsRecorded'
  BY <1>1, <1>2, <1>3 DEF SavesInv, UploadedIsRecorded, HostHasResult, Cloud
<1> QED BY <1>5, <1>6, <1>7, <1>8, <1>9, <1>10 DEF SavesInv

\* Replication and the cloud pass on the bundles there are.
LEMMA CloudKeeps ==
    ASSUME SavesInv,
           Push \/ Pull \/ PassReads \/ Import \/ CommitImport \/ RecordResult \/ CloudRetires \/ CloudStops
    PROVE  SavesInv'
<1> DEFINE there == {outbox, arrived, importing.bundle, recording, result, Nobody}
           Imports == [at : {"idle", "read", "inserted"}, bundle : there]
<1>1. UNCHANGED <<Phone, faulty>>
  BY DEF Push, Pull, PassReads, Import, CommitImport, RecordResult, CloudRetires, CloudStops
<1>2. NoImport \in Imports /\ importing \in Imports
  BY DEF NoImport, SavesInv, SavesTypeOK
<1>3. importing' \in Imports /\ {arrived', recording', result'} \subseteq there
  <2>1. CASE Push \/ Pull
    BY <1>2, <2>1 DEF Push, Pull, Cloud, Phone
  <2>2. CASE PassReads
    BY <2>2 DEF PassReads
  <2>3. CASE Import
    BY <1>2, <2>3 DEF Import
  <2>4. CASE CommitImport
    BY <1>2, <2>4 DEF CommitImport
  <2>5. CASE RecordResult
    BY <1>2, <2>5 DEF RecordResult
  <2>6. CASE CloudRetires \/ CloudStops
    BY <1>2, <2>6 DEF CloudRetires, CloudStops
  <2> QED BY <2>1, <2>2, <2>3, <2>4, <2>5, <2>6
<1>4. row' \in {"none", "inserted", "committed"} /\ history' \in BOOLEAN /\ confirmed' \in BOOLEAN
  BY DEF SavesInv, SavesTypeOK, Push, Pull, PassReads, Import, CommitImport, RecordResult, CloudRetires, CloudStops,
         Cloud
<1>5. there \subseteq Bundles /\ \A bundle \in there : \A names \in bundle : names \subseteq agreed
  BY NobodyIsBundle DEF SavesInv, SavesTypeOK, NamesAgreed, Nobody
<1>6. importing'.bundle \in there
  BY <1>3
<1> HIDE DEF there
<1>7. SavesTypeOK'
  BY <1>1, <1>3, <1>4, <1>5 DEF SavesInv, SavesTypeOK, Phone
<1>8. NamesAgreed'
  BY <1>1, <1>3, <1>5, <1>6 DEF SavesInv, NamesAgreed, Phone
<1>9. RecordsAgreed' /\ ListedWasSaved' /\ WaitsSaved'
  BY <1>1 DEF SavesInv, RecordsAgreed, ListedWasSaved, WaitsSaved, Named, Phone
<1>10. UploadedIsRecorded'
  <2>1. UNCHANGED result \/ result = Nobody
    BY DEF Push, Pull, PassReads, Import, CommitImport, RecordResult, CloudRetires, CloudStops, Cloud
  <2>2. result = Nobody => ~history /\ ~confirmed /\ save.state # "uploaded"
    BY DEF SavesInv, UploadedIsRecorded, HostHasResult, Nobody
  <2>3. history' => (history /\ UNCHANGED result) \/ HostHasResult'
    BY DEF Push, Pull, PassReads, Import, CommitImport, RecordResult, CloudRetires, CloudStops, Cloud, HostHasResult
  <2>4. history => history' \/ result = Nobody
    BY DEF Push, Pull, PassReads, Import, CommitImport, RecordResult, CloudRetires, CloudStops, Cloud
  <2>5. confirmed' => confirmed \/ (history /\ UNCHANGED history)
    BY DEF Push, Pull, PassReads, Import, CommitImport, RecordResult, CloudRetires, CloudStops, Cloud
  <2> QED BY <1>1, <2>1, <2>2, <2>3, <2>4, <2>5 DEF SavesInv, UploadedIsRecorded, HostHasResult, Phone
<1> QED BY <1>7, <1>8, <1>9, <1>10 DEF SavesInv

LEMMA SavesInvKept == SavesInv /\ [SavesNext]_savesVars => SavesInv'
<1> SUFFICES ASSUME SavesInv, [SavesNext]_savesVars PROVE SavesInv'
  OBVIOUS
<1>1. CASE Save
  BY <1>1, SaveKeeps
<1>2. CASE \E p \in Players, answer \in {"yes", "no"} : Consent(p, answer)
  BY <1>2, ConsentKeeps
<1>3. CASE Remember \/ GraceEnds \/ Discard \/ ReconcileLists \/ PhoneRetires \/ PhoneStops
  BY <1>3, PhoneKeeps
<1>4. CASE ReconcileSettles
  BY <1>4, SettlesKeeps
<1>5. CASE Push \/ Pull \/ ImporterRuns \/ RecordResult \/ CloudRetires \/ CloudStops
  BY <1>5, CloudKeeps DEF ImporterRuns
<1>6. CASE UNCHANGED savesVars
  BY <1>6 DEF savesVars, SavesInv, SavesTypeOK, NamesAgreed, RecordsAgreed, ListedWasSaved, WaitsSaved, Named,
              UploadedIsRecorded, HostHasResult
<1> QED BY <1>1, <1>2, <1>3, <1>4, <1>5, <1>6 DEF SavesNext

\* Every variable of the phone and of the cloud keeps its type: a bundle, on
\* its way or imported, is at most one set of the match's people.
THEOREM SavesTypesHold == SavesSpec => []SavesTypeOK
<1>1. SavesInv => SavesTypeOK
  BY DEF SavesInv
<1> QED BY <1>1, InitSaves, SavesInvKept, PTL DEF SavesSpec

\* Nobody is named on the way to the cloud, or in its result, who has not said
\* yes, and what the phone calls uploaded is recorded with its host in it,
\* whatever fails; a game waits in the outbox only while its host keeps it saved,
\* unless a drop has failed or Reconcile has acted on a record that changed under
\* it.
THEOREM OutboxKeepsFaithHolds == SavesSpec => []OutboxKeepsFaith
<1>1. SavesInv => OutboxKeepsFaith
  BY DEF SavesInv, NamesAgreed, WaitsSaved, UploadedIsRecorded, HostHasResult, OutboxKeepsFaith
<1> QED BY <1>1, InitSaves, SavesInvKept, PTL DEF SavesSpec

-----------------------------------------------------------------------------
(* The parts in one behaviour *)

ServerInv == LoopInv /\ GovernorInv /\ TurnInv /\ SavesInv

LEMMA NoTableIsIdle == NoTable => LoopInv
<1> SUFFICES ASSUME NoTable PROVE LoopInv
  OBVIOUS
<1>1. loop \in [Loops -> LoopState] /\ \A l \in Loops : loop[l].at = "none"
  BY LoopTypes DEF NoTable
<1>2. TypeOK
  BY <1>1 DEF NoTable, TypeOK, LoopState, Boards
<1>3. StepsLeft /\ OneLoop
  BY <1>1 DEF NoTable, StepsLeft, OneLoop, Alive
<1> QED BY <1>2, <1>3 DEF LoopInv

LEMMA InitServer == ServerInit => ServerInv
BY NoTableIsIdle, InitLoop, InitGovernor, InitTurn, InitSaves DEF ServerInit, ServerInv

\* A step of the server is one of a part, and nothing to the others.
LEMMA ServerStep ==
    ServerNext => [Next]_vars /\ [GovernorNext]_governorVars /\ [SavesNext]_savesVars
BY DEF ServerNext, LogPart, BotsPart, GovernorPart, SavesPart

LEMMA ServerInvKept ==
    ServerInv /\ [ServerNext]_<<logVars, vars, governorVars, savesVars, part>> => ServerInv'
<1>1. CASE ServerNext
  BY <1>1, ServerStep, LoopInvKept, StepKeepsGovernor, StepKeepsTurn, SavesInvKept DEF ServerInv
<1>2. CASE UNCHANGED <<logVars, vars, governorVars, savesVars, part>>
  BY <1>2, LoopInvKept, StepKeepsGovernor, StepKeepsTurn, SavesInvKept DEF ServerInv
<1> QED BY <1>1, <1>2

\* What the parts promise one by one holds of them together.
THEOREM ServerTypesHold == ServerSpec => [](ServerTypesOK /\ OneLoop /\ LeasesFit /\ OutboxKeepsFaith)
<1>1. LoopInv => TypeOK /\ OneLoop
  BY DEF LoopInv
<1>2. GovernorInv => GovernorTypeOK /\ LeasesFit
  BY GovernorTyped DEF GovernorInv, LeasesInv
<1>3. SavesInv => SavesTypeOK /\ OutboxKeepsFaith
  BY DEF SavesInv, NamesAgreed, WaitsSaved, UploadedIsRecorded, HostHasResult, OutboxKeepsFaith
<1>4. ServerInv => ServerTypesOK /\ OneLoop /\ LeasesFit /\ OutboxKeepsFaith
  BY <1>1, <1>2, <1>3 DEF ServerInv, ServerTypesOK
<1> QED BY <1>4, InitServer, ServerInvKept, PTL DEF ServerSpec

=============================================================================
