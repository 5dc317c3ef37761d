---------------------------- MODULE MatchSocket ----------------------------
(***************************************************************************)
(* The client's socket to a match, and the seat it competes for            *)
(* (src/client-react-native/src: hooks/useMatchSocket.ts, the tokens of    *)
(* api/client.ts; app/match/[matchId].tsx makes the address).              *)
(*                                                                         *)
(* Each tab is a screen of the same player at the same table.  A run of    *)
(* its effect opens one socket, and the socket's onclose decides what      *)
(* comes next: nothing, a renewed token, or a probe and a timer.  What it  *)
(* awaits may be answered after the app came to the foreground, or after   *)
(* the run was torn down.  The server gives the seat to the newest socket, *)
(* as ConnRegistry does, and refuses a token that has run out, or an       *)
(* arrival while it is full.                                               *)
(*                                                                         *)
(* Not here: how long a wait is (the attempt count), what a frame says.    *)
(* The upgrade and onopen are one step: what the server sends next comes   *)
(* after it.  Tokens are numbered in the order they are issued.            *)
(***************************************************************************)
EXTENDS Integers, FiniteSets

CONSTANTS
    Tabs,
    SeatLinks,  \* the tabs that hold a seat link's token: nothing to renew it with
    Sockets,    \* sockets in use at once, with what their onclose has left to do
    MaxTokens,  \* bound: tokens issued to a tab
    None, Ghost \* no socket; one the server has not noticed is gone

ASSUME MatchSocketAssumption ==
    /\ SeatLinks \subseteq Tabs /\ MaxTokens \in Nat \ {0}
    /\ None \notin Sockets /\ Ghost \notin Sockets \cup {None}

VARIABLES
    server,     \* is it up, has it room
    holder,     \* ConnRegistry: the socket that has the seat
    auth,       \* each tab's client: its access token, the last one to have run
                \* out, and whether it is signed in
    run,        \* the run of each tab's effect: the token of the address it was
                \* started for, the token it uses now, and its local variables
    sock,       \* each socket, and how far its onclose is; the token it was opened
                \* with and why it ended, for as long as they matter
    connected,  \* what each screen shows
    displaced

socketVars == <<server, holder, auth, run, sock, connected, displaced>>

Off == [on |-> FALSE, for |-> 0, url |-> 0, renewed |-> FALSE, terminal |-> FALSE, socket |-> None, timer |-> None]
Closed == [at |-> "closed", tab |-> None, token |-> 0, why |-> "none", torn |-> FALSE]

MatchSocketInit ==
    /\ server = [up |-> TRUE, full |-> FALSE] /\ holder = None
    /\ auth \in [Tabs -> [token : 1..MaxTokens, dead : {0}, signedIn : {TRUE}]]
    /\ run = [t \in Tabs |-> Off]
    /\ sock = [s \in Sockets |-> Closed]
    /\ connected = [t \in Tabs |-> FALSE] /\ displaced = [t \in Tabs |-> FALSE]

-----------------------------------------------------------------------------
(* The run of an effect *)

Current(s) == run[sock[s].tab].socket = s /\ ~sock[s].torn

\* open(): the run's own socket is a fresh one, at the address the run has.
Opens(t, r, sockets) ==
    \E n \in Sockets :
        /\ sockets[n] = Closed /\ n # r.socket /\ \A u \in Tabs \ {t} : run[u].socket # n
        /\ run' = [run EXCEPT ![t] = [r EXCEPT !.socket = n]]
        /\ sock' = [s \in Sockets |->
                      IF s = n THEN [Closed EXCEPT !.at = "connecting", !.tab = t, !.token = r.url]
                      ELSE IF s = r.socket /\ sockets[s].at = "closed" THEN Closed
                      ELSE sockets[s]]

\* The cleanup: what the run's onclose still awaits will find it torn, its
\* socket is closed and its timer cleared.
TornDown(t) == [s \in Sockets |->
    IF sock[s].tab # t THEN sock[s]
    ELSE IF \/ sock[s].at \in {"renewing", "probing"}
            \/ sock[s].at = "waiting" /\ run[t].timer # s
      THEN [sock[s] EXCEPT !.torn = TRUE]
    ELSE Closed]

\* The server sees a socket go, or keeps it until it notices.
LetsGo(t) ==
    IF holder \in Sockets /\ sock[holder].tab = t
      THEN holder' \in {None, Ghost} ELSE UNCHANGED holder

\* The effect runs: the screen opens, or the address or the claim has changed.
Starts(t) == Opens(t, [Off EXCEPT !.on = TRUE, !.for = auth[t].token, !.url = auth[t].token],
                   TornDown(t))

Enter(t) ==
    /\ ~run[t].on /\ auth[t].signedIn
    /\ Starts(t)
    /\ displaced' = [displaced EXCEPT ![t] = FALSE]
    /\ UNCHANGED <<server, holder, auth, connected>>

\* The screen closes, or the player is signed out and the address is null.
Leave(t) ==
    /\ run[t].on
    /\ run' = [run EXCEPT ![t] = Off] /\ sock' = TornDown(t) /\ LetsGo(t)
    /\ connected' = [connected EXCEPT ![t] = FALSE]
    /\ UNCHANGED <<server, auth, displaced>>

SignedOut(t) == ~auth[t].signedIn /\ Leave(t)

\* The address the effect depends on is made anew from the token the client
\* holds now, one that this run renewed itself included.
Rerun(t) ==
    /\ run[t].on /\ auth[t].signedIn /\ auth[t].token # run[t].for
    /\ Starts(t) /\ LetsGo(t)
    /\ connected' = [connected EXCEPT ![t] = FALSE]
    /\ displaced' = [displaced EXCEPT ![t] = FALSE]
    /\ UNCHANGED <<server, auth>>

\* The player takes the seat back.
Reclaim(t) ==
    /\ run[t].on /\ displaced[t]
    /\ Starts(t) /\ LetsGo(t)
    /\ connected' = [connected EXCEPT ![t] = FALSE]
    /\ displaced' = [displaced EXCEPT ![t] = FALSE]
    /\ UNCHANGED <<server, auth>>

\* A mistake for the checks: a refusal that is final is tried again.
ReopensAnyway(t) == sock[run[t].socket].at \notin {"connecting", "open", "ending"}

\* The run may go on, and its socket is closed.
MayReopen(t) == ~run[t].terminal /\ sock[run[t].socket].at \notin {"connecting", "open", "ending"}

\* Bound: a socket is left for the effect.
SocketToSpare == Cardinality({s \in Sockets : sock[s] = Closed /\ \A u \in Tabs : run[u].socket # s}) > 1

\* Back in the foreground, the client does not wait for the timer.
Foreground(t) ==
    /\ run[t].on /\ MayReopen(t) /\ SocketToSpare
    /\ Opens(t, [run[t] EXCEPT !.timer = None],
             [s \in Sockets |-> IF s = run[t].timer /\ sock[s].at = "waiting" /\ sock[s].tab = t
                                  THEN [Closed EXCEPT !.tab = t] ELSE sock[s]])
    /\ UNCHANGED <<server, holder, auth, connected, displaced>>

-----------------------------------------------------------------------------
(* What becomes of a socket *)

SockAt(s, where) == [sock EXCEPT ![s] = [@ EXCEPT !.at = where, !.why = "none", !.token = 0]]
Ends(s, why) == [sock EXCEPT ![s].at = "ending", ![s].why = why]
Lost(s) == Ends(s, IF sock[s].at = "open" THEN "lost" ELSE "refused")

Admits(s) ==
    /\ server.up /\ sock[s].token > auth[sock[s].tab].dead
    /\ server.full => holder # None

\* The upgrade is let through; whoever had the seat is told so and closed.
Accept(s) ==
    LET t == sock[s].tab IN
    /\ sock[s].at = "connecting" /\ Admits(s)
    /\ holder' = s
    /\ sock' = [q \in Sockets |->
                  IF q = s THEN [sock[s] EXCEPT !.at = "open", !.token = 0]
                  ELSE IF q = holder THEN [sock[q] EXCEPT !.at = "ending", !.why = "displaced"]
                  ELSE sock[q]]
    /\ run' = [run EXCEPT ![t].renewed = FALSE]
    /\ connected' = [connected EXCEPT ![t] = TRUE]
    /\ UNCHANGED <<server, auth, displaced>>

Refuse(s) ==
    /\ sock[s].at = "connecting" /\ ~Admits(s)
    /\ sock' = Ends(s, "refused")
    /\ UNCHANGED <<server, holder, auth, run, connected, displaced>>

\* A socket that is refused and one that never gets through look the same.
NetworkDrop(s) ==
    /\ sock[s].at \in {"connecting", "open"}
    /\ sock' = Lost(s)
    /\ IF holder = s THEN holder' \in {None, Ghost} ELSE UNCHANGED holder
    /\ UNCHANGED <<server, auth, run, connected, displaced>>

\* The table is gone: the last frame says so, and the server hangs up.
TableGone(s) ==
    /\ sock[s].at = "open"
    /\ run' = [run EXCEPT ![sock[s].tab].terminal = TRUE]
    /\ sock' = Ends(s, "lost") /\ holder' = None
    /\ UNCHANGED <<server, auth, connected, displaced>>

\* A mistake for the checks: a displaced socket reconnects like any other.
NeverFinal(why) == FALSE

\* The server closed the socket for a newer one.
IsFinal(why) == why = "displaced"

\* onclose, up to what it awaits first.
OnClose(s) ==
    LET t == sock[s].tab
        terminal == run[t].terminal \/ IsFinal(sock[s].why)
    IN
    /\ sock[s].at = "ending"
    /\ run' = [run EXCEPT ![t].terminal = terminal]
    /\ connected' = [connected EXCEPT ![t] = FALSE]
    /\ displaced' = [displaced EXCEPT ![t] = @ \/ IsFinal(sock[s].why)]
    /\ sock' = IF terminal THEN [sock EXCEPT ![s] = [Closed EXCEPT !.tab = t]]
               ELSE IF sock[s].why = "lost" \/ run[t].renewed THEN SockAt(s, "probing")
               ELSE [sock EXCEPT ![s].at = "renewing", ![s].why = "none"]
    /\ UNCHANGED <<server, holder, auth>>

\* renewToken is answered.  It asks the server only if nobody has renewed the
\* token since the socket was opened, and every caller shares one request.
RenewAnswers(s) ==
    LET t == sock[s].tab
        fresh == auth[t].token # sock[s].token
        renewed(token) ==
            IF sock[s].torn THEN UNCHANGED run /\ sock' = [sock EXCEPT ![s] = Closed]
            ELSE LET r == [run[t] EXCEPT !.renewed = TRUE, !.url = token] IN
                 IF Current(s)
                   THEN Opens(t, r, [sock EXCEPT ![s] = [Closed EXCEPT !.tab = t]])
                   ELSE run' = [run EXCEPT ![t] = r] /\ sock' = [sock EXCEPT ![s] = Closed]
    IN
    /\ sock[s].at = "renewing"
    /\ \/ /\ fresh /\ auth[t].signedIn
          /\ renewed(auth[t].token) /\ UNCHANGED auth
       \/ /\ ~fresh /\ auth[t].signedIn /\ server.up
          /\ t \notin SeatLinks /\ auth[t].token < MaxTokens
          /\ auth' = [auth EXCEPT ![t].token = @ + 1]
          /\ renewed(auth[t].token + 1)
       \/ /\ ~fresh /\ (server.up \/ t \in SeatLinks \/ ~auth[t].signedIn)
          /\ auth' = [auth EXCEPT ![t].signedIn = FALSE]
          /\ run' = IF sock[s].torn THEN run ELSE [run EXCEPT ![t].terminal = TRUE]
          /\ sock' = [sock EXCEPT ![s] = IF Current(s) THEN [Closed EXCEPT !.tab = t] ELSE Closed]
       \/ /\ ~fresh /\ t \notin SeatLinks /\ auth[t].signedIn
          /\ ~server.up \/ auth[t].token = MaxTokens
          /\ sock' = IF Current(s) /\ ~run[t].terminal THEN SockAt(s, "probing")
                     ELSE [sock EXCEPT ![s] = IF Current(s) THEN [Closed EXCEPT !.tab = t] ELSE Closed]
          /\ UNCHANGED <<auth, run>>
    /\ UNCHANGED <<server, holder, connected, displaced>>

\* A mistake for the checks: the answer books a timer whatever has happened since.
BooksAnyway(s) == ~sock[s].torn

\* A mistake for the checks: no timer is booked where one was before.
BooksOnce(s) == Current(s) /\ run[sock[s].tab].timer = None

\* The probe's answer still finds the socket the run's own.
StillCurrent(s) == Current(s)

\* The probe is answered, or fails; the next attempt is booked.
ProbeAnswers(s) ==
    LET t == sock[s].tab IN
    /\ sock[s].at = "probing"
    /\ IF StillCurrent(s)
         THEN /\ run' = [run EXCEPT ![t].timer = s]
              /\ sock' = SockAt(s, "waiting")
         ELSE /\ sock' = [sock EXCEPT ![s] = Closed] /\ UNCHANGED run
    /\ UNCHANGED <<server, holder, auth, connected, displaced>>

TimerFires(s) ==
    LET t == sock[s].tab IN
    /\ sock[s].at = "waiting"
    /\ IF sock[s].torn THEN sock' = [sock EXCEPT ![s] = Closed] /\ UNCHANGED run
       ELSE Opens(t, run[t], [sock EXCEPT ![s] = IF Current(s) THEN [Closed EXCEPT !.tab = t] ELSE Closed])
    /\ UNCHANGED <<server, holder, auth, connected, displaced>>

-----------------------------------------------------------------------------
(* The world around *)

\* The access token runs out.
Expire(t) ==
    /\ auth[t].token < MaxTokens /\ auth[t].dead < auth[t].token
    /\ auth' = [auth EXCEPT ![t].dead = auth[t].token]
    /\ UNCHANGED <<server, holder, run, sock, connected, displaced>>

\* Another call of the tab's client is refused for it, and renews it.
RefreshedElsewhere(t) ==
    /\ auth[t].signedIn /\ server.up /\ t \notin SeatLinks
    /\ auth[t].dead = auth[t].token /\ auth[t].token < MaxTokens
    /\ auth' = [auth EXCEPT ![t].token = @ + 1]
    /\ UNCHANGED <<server, holder, run, sock, connected, displaced>>

\* The server goes down, with every socket it has, and comes back.
ServerDown ==
    /\ server.up /\ server' = [up |-> FALSE, full |-> FALSE] /\ holder' = None
    /\ sock' = [s \in Sockets |-> IF sock[s].at = "open" THEN [sock[s] EXCEPT !.at = "ending", !.why = "lost"]
                                  ELSE sock[s]]
    /\ UNCHANGED <<auth, run, connected, displaced>>

ServerUp ==
    /\ ~server.up /\ server' = [server EXCEPT !.up = TRUE]
    /\ UNCHANGED <<holder, auth, run, sock, connected, displaced>>

Fills ==
    /\ server.up /\ server' = [server EXCEPT !.full = ~@]
    /\ UNCHANGED <<holder, auth, run, sock, connected, displaced>>

Notices ==
    /\ holder = Ghost /\ holder' = None
    /\ UNCHANGED <<server, auth, run, sock, connected, displaced>>

SocketStep(s) ==
    Accept(s) \/ Refuse(s) \/ OnClose(s) \/ RenewAnswers(s) \/ ProbeAnswers(s) \/ TimerFires(s)

Person(t) == Enter(t) \/ Leave(t) \/ Reclaim(t) \/ Foreground(t)

MatchSocketNext ==
    \/ \E s \in Sockets : SocketStep(s) \/ NetworkDrop(s) \/ TableGone(s)
    \/ \E t \in Tabs : Person(t) \/ Rerun(t) \/ SignedOut(t) \/ Expire(t) \/ RefreshedElsewhere(t)
    \/ ServerDown \/ ServerUp \/ Fills \/ Notices

MatchSocketSpec == MatchSocketInit /\ [][MatchSocketNext]_socketVars

\* Events are delivered, requests answered or timed out, timers fire and React
\* runs effects.  Nobody has to do anything, and the server need not come back.
MatchSocketFairness ==
    /\ \A s \in Sockets : WF_socketVars(SocketStep(s))
    /\ \A t \in Tabs : WF_socketVars(Rerun(t)) /\ WF_socketVars(SignedOut(t))

MatchSocketFairSpec == MatchSocketSpec /\ MatchSocketFairness

-----------------------------------------------------------------------------
(* Properties *)

MatchSocketTypeOK ==
    /\ server \in [up : BOOLEAN, full : BOOLEAN] /\ holder \in Sockets \cup {None, Ghost}
    /\ auth \in [Tabs -> [token : 1..MaxTokens, dead : 0..MaxTokens, signedIn : BOOLEAN]]
    /\ run \in [Tabs -> [on : BOOLEAN, for : 0..MaxTokens, url : 0..MaxTokens, renewed : BOOLEAN, terminal : BOOLEAN,
                         socket : Sockets \cup {None}, timer : Sockets \cup {None}]]
    /\ \A s \in Sockets :
          \/ sock[s].at = "closed" /\ sock[s].token = 0
          \/ /\ sock[s].at \in {"connecting", "open", "ending", "renewing", "probing", "waiting"}
             /\ sock[s].tab \in Tabs /\ sock[s].token \in 0..MaxTokens
    /\ connected \in [Tabs -> BOOLEAN] /\ displaced \in [Tabs -> BOOLEAN]

\* A tab never has two chains of reconnection side by side: of its sockets,
\* one at most is live or about to open another, whatever was awaited when the
\* app came to the foreground or the run was torn down.
OneChain ==
    \A t \in Tabs :
        Cardinality({s \in Sockets :
            /\ sock[s].tab = t
            /\ sock[s].at \in {"connecting", "open", "ending", "waiting"}
            /\ ~sock[s].torn}) <= 1

\* After the last word (the table is gone, the seat is taken over) a run opens
\* no other socket, whatever it still had under way.  (The end of the session is
\* left out: it ends the run as well.)
LastWordIsFinal ==
    [][\A t \in Tabs : run[t].terminal /\ run'[t].terminal /\ auth[t].signedIn => run'[t].socket = run[t].socket]_socketVars

\* Two tabs of one player do not take the seat from each other for ever: once
\* people leave them alone and connections last, the seat settles.
SeatSettles ==
    <>[][\A t \in Tabs : ~Person(t) /\ ~Expire(t)]_socketVars
        /\ <>[][~ServerDown /\ ~Fills /\ \A s \in Sockets : ~NetworkDrop(s)]_socketVars
      => <>[][holder' = holder]_socketVars

\* A screen that stays open gets back to its table once there is a server with
\* room to get back to, through dropped connections, restarts, tokens that run
\* out, trips to the background and a server that was full, unless it has had
\* the last word.
ComesBack ==
    \A t \in Tabs :
        <>[](server.up /\ ~server.full /\ run[t].on /\ ~run[t].terminal)
            /\ <>[][\A s \in Sockets : ~NetworkDrop(s)]_socketVars
          => <>[](connected[t])

=============================================================================
