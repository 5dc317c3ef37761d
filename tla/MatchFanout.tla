---------------------------- MODULE MatchFanout ----------------------------
(***************************************************************************)
(* How a board gets from the runtime to the screens: the broadcast after a *)
(* change, the greeting of a new socket, the registry of sockets, and the  *)
(* client that shows what comes (src/server/internal: match/manager.go,    *)
(* match/handlers.go handleWS, ws/hub.go, ws/registry.go;                  *)
(* src/client-react-native/src/hooks/useMatchSocket.ts onmessage).         *)
(*                                                                         *)
(* One instance, one match.  A board is the number of changes it has had.  *)
(* What changes it holds the match lock, and lets go of it before it tells *)
(* anybody: the frames are made and written without it, one player at a    *)
(* time.  A frame names the player, not the socket; a socket carries its   *)
(* frames in order, and takes them with it when it goes.                   *)
(***************************************************************************)
EXTENDS Integers, Sequences

CONSTANTS
    PlayerCount,
    Calls,       \* calls that change the match and broadcast it
    Greeters,    \* handlers of sockets that have just been opened
    MaxBoard     \* bound: changes made

ASSUME MatchFanoutAssumption ==
    PlayerCount \in Nat \ {0} /\ MaxBoard \in Nat \ {0}

\* In the order of the match's players.
Players == 1..PlayerCount

VARIABLES
    board,   \* the match, as it is under the lock
    call,    \* each call: the board it tells of, and the player it tells next
    greeter, \* each handler: the player, and the board it has read for them
    frames,  \* the frames on the way to each player
    open,    \* is a socket registered for the player
    shown,   \* what the player's screen shows
    apart    \* history: the last change was told to the player with nothing
             \* else in hand that tells them of a board

fanoutVars == <<board, call, greeter, frames, open, shown, apart>>

Nothing == -1
Boards == 0..MaxBoard
IdleCall == [at |-> "idle", board |-> 0, next |-> 1]
IdleGreeter == [at |-> "idle", player |-> 1, board |-> 0]

MatchFanoutInit ==
    /\ board = 0
    /\ call = [c \in Calls |-> IdleCall]
    /\ greeter = [h \in Greeters |-> IdleGreeter]
    /\ frames = [p \in Players |-> <<>>] /\ open = [p \in Players |-> FALSE]
    /\ shown = [p \in Players |-> Nothing] /\ apart = [p \in Players |-> TRUE]

Telling == \E c \in Calls : call[c].at = "telling"
Greeting(p) == \E h \in Greeters : greeter[h].at # "idle" /\ greeter[h].player = p

-----------------------------------------------------------------------------
\* ConnRegistry.WriteJSON: to the socket the player has now, if any.
FramesWith(p, b) == IF open[p] THEN [frames EXCEPT ![p] = Append(@, b)] ELSE frames

\* The match applyLocked returns is the one that is sent.
Sent(b) == b

\* A call changes the match under its lock, and lets go of it.
Change(c) ==
    /\ call[c].at = "idle" /\ board < MaxBoard
    /\ board' = board + 1
    /\ call' = [call EXCEPT ![c] = [at |-> "telling", board |-> Sent(board + 1), next |-> 1]]
    /\ apart' = [p \in Players |-> ~Telling /\ ~Greeting(p)]
    /\ UNCHANGED <<greeter, frames, open, shown>>

\* A mistake for the checks: the loop goes on past the last player.
PastTheLast(n) == n \notin Players

\* BroadcastGameState has written to everybody.
LastOf(n) == n + 1 \notin Players

\* broadcastWith: the next player's frame is written.
Tell(c) ==
    LET p == call[c].next IN
    /\ call[c].at = "telling"
    /\ frames' = FramesWith(p, call[c].board)
    /\ call' = [call EXCEPT ![c] = IF LastOf(p) THEN IdleCall ELSE [@ EXCEPT !.next = p + 1]]
    /\ UNCHANGED <<board, greeter, open, shown, apart>>

\* A new socket of a player is registered, in place of one they may have; the
\* frames on the way to that one are lost with it.
Connect(h, p) ==
    /\ greeter[h].at = "idle"
    /\ open' = [open EXCEPT ![p] = TRUE] /\ frames' = [frames EXCEPT ![p] = <<>>]
    /\ greeter' = [greeter EXCEPT ![h] = [at |-> "registered", player |-> p, board |-> 0]]
    /\ apart' = [apart EXCEPT ![p] = ~Telling /\ ~Greeting(p)]
    /\ UNCHANGED <<board, call, shown>>

\* Current: the match is read.
ReadCurrent(h) ==
    /\ greeter[h].at = "registered"
    /\ greeter' = [greeter EXCEPT ![h].at = "read", ![h].board = board]
    /\ UNCHANGED <<board, call, frames, open, shown, apart>>

\* A mistake for the checks: a socket is greeted only if no other is being.
GreetsAlone(h) == \A k \in Greeters \ {h} : greeter[k].player # greeter[h].player

\* Every socket is greeted.
Greets(h) == TRUE

\* WriteDirect: to the player's socket, which may be a newer one by now.
Greet(h) ==
    /\ greeter[h].at = "read"
    /\ frames' = IF Greets(h) THEN FramesWith(greeter[h].player, greeter[h].board) ELSE frames
    /\ greeter' = [greeter EXCEPT ![h] = IdleGreeter]
    /\ UNCHANGED <<board, call, open, shown, apart>>

\* onmessage: the frame that comes is the board that is shown.
Show(p) ==
    /\ frames[p] # <<>>
    /\ shown' = [shown EXCEPT ![p] = Head(frames[p])]
    /\ frames' = [frames EXCEPT ![p] = Tail(@)]
    /\ UNCHANGED <<board, call, greeter, open, apart>>

\* The socket goes; the board stays on the screen.
Disconnect(p) ==
    /\ open[p]
    /\ open' = [open EXCEPT ![p] = FALSE] /\ frames' = [frames EXCEPT ![p] = <<>>]
    /\ UNCHANGED <<board, call, greeter, shown, apart>>

FanoutStep ==
    \/ \E c \in Calls : Tell(c)
    \/ \E h \in Greeters : ReadCurrent(h) \/ Greet(h)
    \/ \E p \in Players : Show(p)

MatchFanoutNext ==
    \/ \E c \in Calls : Change(c)
    \/ \E h \in Greeters, p \in Players : Connect(h, p)
    \/ \E p \in Players : Disconnect(p)
    \/ FanoutStep

MatchFanoutSpec == MatchFanoutInit /\ [][MatchFanoutNext]_fanoutVars

-----------------------------------------------------------------------------
(* Properties *)

MatchFanoutTypeOK ==
    /\ board \in Boards
    /\ call \in [Calls -> [at : {"idle", "telling"}, board : Boards, next : Players]]
    /\ greeter \in [Greeters -> [at : {"idle", "registered", "read"}, player : Players, board : Boards]]
    /\ frames \in [Players -> Seq(Boards)] /\ open \in [Players -> BOOLEAN]
    /\ shown \in [Players -> Boards \cup {Nothing}] /\ apart \in [Players -> BOOLEAN]

\* Nothing is in hand that would still change what the player's screen shows.
Settled(p) == open[p] /\ frames[p] = <<>> /\ ~Telling /\ ~Greeting(p)

\* A change, or an arrival, that is told with nothing else in hand leaves the
\* screen right, whatever disorder there was before it.
QuietChangeHeals == \A p \in Players : Settled(p) /\ apart[p] => shown[p] = board

\* The board on a connected screen does not drift from the match's.
ShownIsCurrent == \A p \in Players : Settled(p) => shown[p] = board

=============================================================================
