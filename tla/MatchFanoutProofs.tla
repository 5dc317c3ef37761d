------------------------- MODULE MatchFanoutProofs -------------------------
(***************************************************************************)
(* Proof that a change told by itself sets a screen right.  The reason: as *)
(* long as a player is apart, everything on its way to them tells of the   *)
(* board as it is, and there is something on its way until they show it.   *)
(***************************************************************************)
EXTENDS MatchFanout, TLAPS

\* The last frame on the way to the player is the board as it is, or there is
\* none and it is shown.
EndsRight(p) ==
    IF frames[p] = <<>> THEN shown[p] = board ELSE frames[p][Len(frames[p])] = board

\* A call that has yet to tell the player.
ToldOf(p) == \E c \in Calls : call[c].at = "telling" /\ call[c].next <= p

\* What holds of a player who is apart.
ApartOK(p) ==
    /\ Telling => ~Greeting(p)
    /\ \A c \in Calls : call[c].at = "telling" => call[c].board = board
    /\ \A h \in Greeters : greeter[h].at = "read" /\ greeter[h].player = p => greeter[h].board = board
    /\ open[p] => ToldOf(p) \/ Greeting(p) \/ EndsRight(p)

Apartness == \A p \in Players : apart[p] => ApartOK(p)

FanoutInv == MatchFanoutTypeOK /\ Apartness

-----------------------------------------------------------------------------
(* Frames *)

LEMMA Appended == ASSUME NEW s \in Seq(Boards), NEW b \in Boards
                  PROVE  Append(s, b) \in Seq(Boards) /\ Append(s, b) # <<>> /\ Append(s, b)[Len(Append(s, b))] = b
    OBVIOUS

LEMMA Consumed == ASSUME NEW s \in Seq(Boards), s # <<>>
                  PROVE  /\ Head(s) \in Boards /\ Tail(s) \in Seq(Boards)
                         /\ Tail(s) = <<>> => s[Len(s)] = Head(s)
                         /\ Tail(s) # <<>> => Tail(s)[Len(Tail(s))] = s[Len(s)]
<1>1. Head(s) = s[1] /\ Head(s) \in Boards /\ Tail(s) \in Seq(Boards) /\ Len(s) \in Nat \ {0}
    OBVIOUS
<1>2. Len(Tail(s)) = Len(s) - 1 /\ \A i \in 1..(Len(s) - 1) : Tail(s)[i] = s[i + 1]
    OBVIOUS
<1>3. Tail(s) = <<>> => Len(s) = 1
    BY <1>1, <1>2
<1>4. Tail(s) # <<>> => Len(s) - 1 \in 1..(Len(s) - 1)
    BY <1>1, <1>2
<1>5. Tail(s) # <<>> => Tail(s)[Len(s) - 1] = s[(Len(s) - 1) + 1]
    BY <1>2, <1>4
<1> QED
    BY <1>1, <1>2, <1>3, <1>5

-----------------------------------------------------------------------------
(* The initial state *)

LEMMA InitInv == MatchFanoutInit => FanoutInv
<1> SUFFICES ASSUME MatchFanoutInit PROVE FanoutInv
    OBVIOUS
<1>1. MatchFanoutTypeOK
    BY MatchFanoutAssumption DEF MatchFanoutInit, MatchFanoutTypeOK, IdleCall, IdleGreeter, Boards, Players, Nothing
<1>2. Apartness
    BY DEF MatchFanoutInit, Apartness, ApartOK, Telling, Greeting, IdleCall, IdleGreeter
<1> QED
    BY <1>1, <1>2 DEF FanoutInv

-----------------------------------------------------------------------------
(* One lemma for each step *)

\* A change leaves apart those whom nothing else tells of a board.
LEMMA ChangeKeeps == ASSUME FanoutInv, NEW c \in Calls, Change(c) PROVE FanoutInv'
<1> USE DEF FanoutInv
<1>1. MatchFanoutTypeOK'
    BY MatchFanoutAssumption DEF MatchFanoutTypeOK, Change, Sent, Boards, Players
<1>2. ASSUME NEW p \in Players, apart'[p] PROVE ApartOK(p)'
    <2>1. ~Telling /\ ~Greeting(p)
        BY <1>2 DEF Change
    <2>2. call'[c] = [at |-> "telling", board |-> board', next |-> 1]
        BY DEF Change, Sent, MatchFanoutTypeOK
    <2>3. \A k \in Calls : call'[k].at = "telling" => k = c
        BY <2>1 DEF Telling, Change, MatchFanoutTypeOK
    <2>4. \A h \in Greeters : greeter'[h].player = p => greeter'[h].at = "idle"
        BY <2>1 DEF Greeting, Change
    <2>5. ToldOf(p)'
        BY <2>2 DEF ToldOf, Players
    <2> QED
        BY <2>2, <2>3, <2>4, <2>5 DEF ApartOK, Greeting
<1> QED
    BY <1>1, <1>2 DEF Apartness

\* Who is told has the board last; who comes later is still to be told.
LEMMA TellKeeps == ASSUME FanoutInv, NEW c \in Calls, Tell(c) PROVE FanoutInv'
<1> USE DEF FanoutInv
<1> DEFINE q == call[c].next
<1>0. /\ q \in Players /\ call[c].board \in Boards /\ call[c].at = "telling"
      /\ call' = [call EXCEPT ![c] = IF LastOf(q) THEN IdleCall ELSE [@ EXCEPT !.next = q + 1]]
      /\ frames' = FramesWith(q, call[c].board)
      /\ UNCHANGED <<board, greeter, open, shown, apart>>
    BY DEF Tell, MatchFanoutTypeOK
<1>1. MatchFanoutTypeOK'
    <2>1. call' \in [Calls -> [at : {"idle", "telling"}, board : Boards, next : Players]]
        <3>1. IdleCall \in [at : {"idle", "telling"}, board : Boards, next : Players]
            BY MatchFanoutAssumption DEF IdleCall, Boards, Players
        <3>2. ~LastOf(q) => [call[c] EXCEPT !.next = q + 1] \in [at : {"idle", "telling"}, board : Boards, next : Players]
            BY DEF LastOf, MatchFanoutTypeOK
        <3> QED
            BY <1>0, <3>1, <3>2 DEF MatchFanoutTypeOK
    <2>2. frames' \in [Players -> Seq(Boards)]
        BY <1>0, Appended DEF FramesWith, MatchFanoutTypeOK
    <2> QED
        BY <1>0, <2>1, <2>2 DEF MatchFanoutTypeOK
<1>2. ASSUME NEW p \in Players, apart'[p] PROVE ApartOK(p)'
    <2>0. ApartOK(p)
        BY <1>0, <1>2 DEF Apartness
    <2>1. /\ call[c].board = board
          /\ \A k \in Calls : call'[k].at = "telling" => call[k].at = "telling" /\ call'[k].board = call[k].board
        BY <1>0, <2>0 DEF ApartOK, IdleCall, MatchFanoutTypeOK
    <2>2. (Telling' => Telling) /\ (Greeting(p)' <=> Greeting(p))
        BY <1>0, <2>1 DEF Telling, Greeting
    <2>3. ASSUME open'[p] PROVE (ToldOf(p) \/ Greeting(p) \/ EndsRight(p))'
        <3>1. CASE p = q
            <4>1. frames'[p] = Append(frames[p], board)
                BY <1>0, <2>1, <2>3, <3>1 DEF FramesWith, MatchFanoutTypeOK
            <4>2. EndsRight(p)'
                BY <1>0, <2>1, <4>1, Appended DEF EndsRight, MatchFanoutTypeOK
            <4> QED
                BY <4>2
        <3>2. CASE p > q
            <4>1. ~LastOf(q) /\ q + 1 <= p
                BY <1>0, <3>2, MatchFanoutAssumption DEF LastOf, Players
            <4>2. call'[c].at = "telling" /\ call'[c].next = q + 1
                BY <1>0, <4>1 DEF MatchFanoutTypeOK
            <4> QED
                BY <4>1, <4>2 DEF ToldOf
        <3>3. CASE p < q
            <4>1. frames'[p] = frames[p]
                BY <1>0, <3>3 DEF FramesWith, MatchFanoutTypeOK, Players
            <4>2. ToldOf(p) => ToldOf(p)'
                <5>1. ASSUME NEW k \in Calls, call[k].at = "telling", call[k].next <= p PROVE k # c
                    BY <3>3, <5>1, <1>0 DEF Players
                <5> QED
                    BY <1>0, <5>1 DEF ToldOf, MatchFanoutTypeOK
            <4>3. EndsRight(p) => EndsRight(p)'
                BY <1>0, <4>1 DEF EndsRight
            <4> QED
                BY <1>0, <2>0, <2>2, <2>3, <4>2, <4>3 DEF ApartOK
        <3> QED
            BY <1>0, <3>1, <3>2, <3>3 DEF Players
    <2>4. \A k \in Calls : call'[k].at = "telling" => call'[k].board = board'
        BY <1>0, <2>0, <2>1 DEF ApartOK
    <2>5. \A h \in Greeters : greeter'[h].at = "read" /\ greeter'[h].player = p => greeter'[h].board = board'
        BY <1>0, <2>0 DEF ApartOK
    <2> QED
        BY <2>0, <2>2, <2>3, <2>4, <2>5 DEF ApartOK
<1> QED
    BY <1>1, <1>2 DEF Apartness

\* A new socket is to be greeted.
LEMMA ConnectKeeps == ASSUME FanoutInv, NEW h \in Greeters, NEW q \in Players, Connect(h, q) PROVE FanoutInv'
<1> USE DEF FanoutInv
<1>1. MatchFanoutTypeOK'
    <2>1. 0 \in Boards /\ (~Telling /\ ~Greeting(q)) \in BOOLEAN
        BY MatchFanoutAssumption DEF Boards
    <2>2. greeter' \in [Greeters -> [at : {"idle", "registered", "read"}, player : Players, board : Boards]]
        BY <2>1 DEF MatchFanoutTypeOK, Connect
    <2> QED
        BY <2>1, <2>2 DEF MatchFanoutTypeOK, Connect
<1>2. ASSUME NEW p \in Players, apart'[p] PROVE ApartOK(p)'
    <2>0. /\ greeter[h].at = "idle" /\ greeter'[h] = [at |-> "registered", player |-> q, board |-> 0]
          /\ \A k \in Greeters \ {h} : greeter'[k] = greeter[k]
          /\ UNCHANGED <<board, call, shown>>
        BY DEF Connect, MatchFanoutTypeOK
    <2>1. CASE p = q
        <3>1. ~Telling /\ ~Greeting(p)
            BY <1>2, <2>1 DEF Connect, MatchFanoutTypeOK
        <3>2. ~Telling' /\ \A c \in Calls : call'[c].at # "telling"
            BY <2>0, <3>1 DEF Telling
        <3>3. Greeting(p)'
            BY <2>0, <2>1 DEF Greeting
        <3>4. \A k \in Greeters : greeter'[k].player = p => greeter'[k].at # "read"
            BY <2>0, <3>1 DEF Greeting
        <3> QED
            BY <3>2, <3>3, <3>4 DEF ApartOK
    <2>2. CASE p # q
        <3>1. apart[p] /\ open'[p] = open[p] /\ frames'[p] = frames[p]
            BY <1>2, <2>2 DEF Connect, MatchFanoutTypeOK
        <3>2. ApartOK(p)
            BY <3>1 DEF Apartness
        <3>3. (Greeting(p)' <=> Greeting(p)) /\ (Telling' <=> Telling) /\ (ToldOf(p)' <=> ToldOf(p))
            BY <2>0, <2>2 DEF Greeting, Telling, ToldOf
        <3>4. EndsRight(p)' <=> EndsRight(p)
            BY <2>0, <3>1 DEF EndsRight
        <3>5. \A k \in Greeters : greeter'[k].at = "read" => greeter'[k] = greeter[k]
            BY <2>0
        <3> QED
            BY <2>0, <3>1, <3>2, <3>3, <3>4, <3>5 DEF ApartOK
    <2> QED
        BY <2>1, <2>2
<1> QED
    BY <1>1, <1>2 DEF Apartness

\* What is read is the board as it is.
LEMMA ReadKeeps == ASSUME FanoutInv, NEW h \in Greeters, ReadCurrent(h) PROVE FanoutInv'
<1> USE DEF FanoutInv
<1>0. /\ greeter[h].at = "registered" /\ greeter'[h].at = "read" /\ greeter'[h].board = board
      /\ greeter'[h].player = greeter[h].player
      /\ \A k \in Greeters \ {h} : greeter'[k] = greeter[k]
      /\ UNCHANGED <<board, call, frames, open, shown, apart>>
    BY DEF ReadCurrent, MatchFanoutTypeOK
<1>1. MatchFanoutTypeOK'
    BY DEF MatchFanoutTypeOK, ReadCurrent
<1>2. ASSUME NEW p \in Players, apart'[p] PROVE ApartOK(p)'
    <2>1. ApartOK(p)
        BY <1>0, <1>2 DEF Apartness
    <2>2. (Greeting(p)' <=> Greeting(p)) /\ (Telling' <=> Telling) /\ (ToldOf(p)' <=> ToldOf(p))
        BY <1>0 DEF Greeting, Telling, ToldOf
    <2>3. EndsRight(p)' <=> EndsRight(p)
        BY <1>0 DEF EndsRight
    <2> QED
        BY <1>0, <2>1, <2>2, <2>3 DEF ApartOK
<1> QED
    BY <1>1, <1>2 DEF Apartness

\* Who is greeted has the board last.
LEMMA GreetKeeps == ASSUME FanoutInv, NEW h \in Greeters, Greet(h) PROVE FanoutInv'
<1> USE DEF FanoutInv
<1> DEFINE q == greeter[h].player
<1>0. /\ q \in Players /\ greeter[h].board \in Boards /\ greeter[h].at = "read"
      /\ greeter'[h] = IdleGreeter /\ \A k \in Greeters \ {h} : greeter'[k] = greeter[k]
      /\ frames' = FramesWith(q, greeter[h].board)
      /\ UNCHANGED <<board, call, open, shown, apart>>
    BY DEF Greet, Greets, MatchFanoutTypeOK
<1>1. MatchFanoutTypeOK'
    <2>1. frames' \in [Players -> Seq(Boards)]
        BY <1>0, Appended DEF FramesWith, MatchFanoutTypeOK
    <2>2. IdleGreeter \in [at : {"idle", "registered", "read"}, player : Players, board : Boards]
        BY MatchFanoutAssumption DEF IdleGreeter, Boards, Players
    <2> QED
        BY <2>1, <2>2 DEF MatchFanoutTypeOK, Greet
<1>2. ASSUME NEW p \in Players, apart'[p] PROVE ApartOK(p)'
    <2>1. ApartOK(p)
        BY <1>0, <1>2 DEF Apartness
    <2>2. (Greeting(p)' => Greeting(p)) /\ (Telling' <=> Telling) /\ (ToldOf(p)' <=> ToldOf(p))
        BY <1>0 DEF Greeting, Telling, ToldOf, IdleGreeter
    <2>3. ASSUME open'[p] PROVE (ToldOf(p) \/ Greeting(p) \/ EndsRight(p))'
        <3>1. CASE p = q
            <4>1. greeter[h].board = board
                BY <1>0, <2>1, <3>1 DEF ApartOK
            <4>2. frames'[p] = Append(frames[p], board)
                BY <1>0, <2>3, <3>1, <4>1 DEF FramesWith, MatchFanoutTypeOK
            <4>3. EndsRight(p)'
                BY <1>0, <4>1, <4>2, Appended DEF EndsRight, MatchFanoutTypeOK
            <4> QED
                BY <4>3
        <3>2. CASE p # q
            <4>1. Greeting(p) => Greeting(p)'
                BY <1>0, <3>2 DEF Greeting
            <4>2. EndsRight(p) => EndsRight(p)'
                BY <1>0, <3>2 DEF EndsRight, FramesWith, MatchFanoutTypeOK
            <4> QED
                BY <1>0, <2>1, <2>2, <2>3, <4>1, <4>2 DEF ApartOK
        <3> QED
            BY <3>1, <3>2
    <2>4. \A k \in Greeters : greeter'[k].at = "read" => greeter'[k] = greeter[k]
        BY <1>0 DEF IdleGreeter
    <2> QED
        BY <1>0, <2>1, <2>2, <2>3, <2>4 DEF ApartOK
<1> QED
    BY <1>1, <1>2 DEF Apartness

\* What is shown last was last on the way.
LEMMA ShowKeeps == ASSUME FanoutInv, NEW q \in Players, Show(q) PROVE FanoutInv'
<1> USE DEF FanoutInv
<1>0. /\ frames[q] \in Seq(Boards) /\ frames[q] # <<>>
      /\ shown' = [shown EXCEPT ![q] = Head(frames[q])] /\ frames' = [frames EXCEPT ![q] = Tail(frames[q])]
      /\ UNCHANGED <<board, call, greeter, open, apart>>
    BY DEF Show, MatchFanoutTypeOK
<1>1. MatchFanoutTypeOK'
    BY <1>0, Consumed DEF MatchFanoutTypeOK
<1>2. ASSUME NEW p \in Players, apart'[p] PROVE ApartOK(p)'
    <2>1. ApartOK(p)
        BY <1>0, <1>2 DEF Apartness
    <2>2. (Greeting(p)' <=> Greeting(p)) /\ (Telling' <=> Telling) /\ (ToldOf(p)' <=> ToldOf(p))
        BY <1>0 DEF Greeting, Telling, ToldOf
    <2>3. EndsRight(p) => EndsRight(p)'
        <3>1. CASE p = q
            BY <1>0, <3>1, Consumed DEF EndsRight, MatchFanoutTypeOK
        <3>2. CASE p # q
            BY <1>0, <3>2 DEF EndsRight, MatchFanoutTypeOK
        <3> QED
            BY <3>1, <3>2
    <2> QED
        BY <1>0, <2>1, <2>2, <2>3 DEF ApartOK
<1> QED
    BY <1>1, <1>2 DEF Apartness

LEMMA DisconnectKeeps == ASSUME FanoutInv, NEW q \in Players, Disconnect(q) PROVE FanoutInv'
<1> USE DEF FanoutInv
<1>0. /\ open' = [open EXCEPT ![q] = FALSE] /\ frames' = [frames EXCEPT ![q] = <<>>]
      /\ UNCHANGED <<board, call, greeter, shown, apart>>
    BY DEF Disconnect
<1>1. MatchFanoutTypeOK'
    BY <1>0 DEF MatchFanoutTypeOK
<1>2. ASSUME NEW p \in Players, apart'[p] PROVE ApartOK(p)'
    <2>1. ApartOK(p)
        BY <1>0, <1>2 DEF Apartness
    <2>2. (Greeting(p)' <=> Greeting(p)) /\ (Telling' <=> Telling) /\ (ToldOf(p)' <=> ToldOf(p))
        BY <1>0 DEF Greeting, Telling, ToldOf
    <2>3. open'[p] => open[p] /\ (EndsRight(p) => EndsRight(p)')
        BY <1>0 DEF EndsRight, MatchFanoutTypeOK
    <2> QED
        BY <1>0, <2>1, <2>2, <2>3 DEF ApartOK
<1> QED
    BY <1>1, <1>2 DEF Apartness

-----------------------------------------------------------------------------
(* Theorems *)

LEMMA NextInv == FanoutInv /\ [MatchFanoutNext]_fanoutVars => FanoutInv'
<1> SUFFICES ASSUME FanoutInv, [MatchFanoutNext]_fanoutVars PROVE FanoutInv'
    OBVIOUS
<1>1. CASE UNCHANGED fanoutVars
    <2>1. MatchFanoutTypeOK' /\ (Apartness' <=> Apartness)
        BY <1>1 DEF FanoutInv, fanoutVars, MatchFanoutTypeOK, Apartness, ApartOK, Telling, Greeting, ToldOf, EndsRight
    <2> QED
        BY <2>1 DEF FanoutInv
<1> QED
    BY <1>1, ChangeKeeps, TellKeeps, ConnectKeeps, ReadKeeps, GreetKeeps, ShowKeeps, DisconnectKeeps
    DEF MatchFanoutNext, FanoutStep

LEMMA InvHolds == MatchFanoutSpec => []FanoutInv
    BY InitInv, NextInv, PTL DEF MatchFanoutSpec

\* Every call, greeting, frame and screen holds a board of the match or nothing,
\* and no broadcast goes on past the last player.
THEOREM FanoutTypesHold == MatchFanoutSpec => []MatchFanoutTypeOK
    BY InvHolds, PTL DEF FanoutInv

\* A change, or an arrival, that is told with nothing else in hand leaves a
\* connected screen right, for any number of players, calls and sockets.
THEOREM QuietChangeHealsHolds == MatchFanoutSpec => []QuietChangeHeals
<1>1. FanoutInv => QuietChangeHeals
    BY DEF FanoutInv, Apartness, ApartOK, QuietChangeHeals, Settled, Telling, ToldOf, EndsRight
<1> QED
    BY <1>1, InvHolds, PTL
=============================================================================
