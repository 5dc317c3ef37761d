--------------------------- MODULE MatchSocketProofs ---------------------------
(***************************************************************************)
(* MatchSocket's chains of reconnection, for any tabs, sockets and tokens. *)
(***************************************************************************)
EXTENDS MatchSocket, FiniteSetTheorems, TLAPS

-----------------------------------------------------------------------------
(* The invariant *)

Server == [up : BOOLEAN, full : BOOLEAN]
Auth == [token : 1..MaxTokens, dead : 0..MaxTokens, signedIn : BOOLEAN]
Run == [on : BOOLEAN, for : 0..MaxTokens, url : 0..MaxTokens, renewed : BOOLEAN, terminal : BOOLEAN,
        socket : Sockets \cup {None}, timer : Sockets \cup {None}]

Live == {"connecting", "open", "ending", "waiting"}
Awaiting == {"renewing", "probing", "waiting"}
Whys == {"none", "displaced", "lost", "refused"}

SockRecord == [at : {"closed"} \cup Live \cup Awaiting, tab : Tabs \cup {None}, token : 0..MaxTokens,
               why : Whys, torn : BOOLEAN]

\* A socket is closed, with a tab or none, or a tab's; only what awaits is torn.
Sock == {q \in SockRecord :
           /\ q.at = "closed" => q.token = 0
           /\ q.at # "closed" => q.tab \in Tabs
           /\ q.torn => q.at \in Awaiting}

Records ==
    /\ server \in Server /\ holder \in Sockets \cup {None, Ghost}
    /\ auth \in [Tabs -> Auth] /\ run \in [Tabs -> Run] /\ sock \in [Sockets -> Sock]
    /\ connected \in [Tabs -> BOOLEAN] /\ displaced \in [Tabs -> BOOLEAN]

\* A live socket that is not torn is its run's own, and the timer it waits for its
\* run's timer.
LiveIsOwn ==
    \A s \in Sockets : sock[s].at \in Live /\ ~sock[s].torn =>
        /\ run[sock[s].tab].socket = s
        /\ sock[s].at = "waiting" => run[sock[s].tab].timer = s

HolderIsOpen == holder \in Sockets => sock[holder].at = "open"

OffHasNone == \A t \in Tabs : ~run[t].on => run[t].socket = None

\* Once a run has had the last word its own socket is on its way out, if anything.
TerminalEnds ==
    \A t \in Tabs : run[t].terminal /\ auth[t].signedIn =>
        \A s \in Sockets : run[t].socket = s /\ sock[s].tab = t => sock[s].at \in {"ending", "closed"}

ChainInv == Records /\ LiveIsOwn /\ HolderIsOpen /\ OffHasNone /\ TerminalEnds

-----------------------------------------------------------------------------
(* What a step does, at large *)

LEMMA ClosedIsSock ==
    /\ Closed \in Sock
    /\ \A t \in Tabs : [Closed EXCEPT !.tab = t] \in Sock /\ [Closed EXCEPT !.tab = t].at = "closed"
<1>1. Closed \in SockRecord /\ Closed.at = "closed" /\ Closed.token = 0 /\ ~Closed.torn
  BY MatchSocketAssumption DEF Closed, SockRecord, Whys
<1>2. ASSUME NEW t \in Tabs
      PROVE  /\ [Closed EXCEPT !.tab = t] \in SockRecord /\ [Closed EXCEPT !.tab = t].at = "closed"
             /\ [Closed EXCEPT !.tab = t].token = 0 /\ ~[Closed EXCEPT !.tab = t].torn
  BY <1>1 DEF SockRecord
<1> QED BY <1>1, <1>2 DEF Sock

LEMMA OffIsRun == Off \in Run /\ Off.on = FALSE /\ Off.socket = None /\ Off.terminal = FALSE
BY MatchSocketAssumption DEF Off, Run

LEMMA InitChain == MatchSocketInit => ChainInv
<1> SUFFICES ASSUME MatchSocketInit PROVE ChainInv
  OBVIOUS
<1>1. Records
  <2>1. auth \in [Tabs -> Auth]
    <3>1. 0 \in 0..MaxTokens
      BY MatchSocketAssumption
    <3>2. ASSUME NEW a \in [token : 1..MaxTokens, dead : {0}, signedIn : {TRUE}] PROVE a \in Auth
      BY <3>1, <3>2 DEF Auth
    <3> QED BY <3>2 DEF MatchSocketInit
  <2> QED BY <2>1, ClosedIsSock, OffIsRun DEF MatchSocketInit, Records, Server
<1>2. LiveIsOwn /\ HolderIsOpen
  BY MatchSocketAssumption DEF MatchSocketInit, LiveIsOwn, HolderIsOpen, Closed, Live
<1>3. OffHasNone /\ TerminalEnds
  BY OffIsRun DEF MatchSocketInit, OffHasNone, TerminalEnds
<1> QED BY <1>1, <1>2, <1>3 DEF ChainInv

\* Nobody signs in again.
SignsNobodyIn == auth' \in [Tabs -> Auth] /\ \A t \in Tabs : auth'[t].signedIn => auth[t].signedIn

Screens == server' \in Server /\ connected' \in [Tabs -> BOOLEAN] /\ displaced' \in [Tabs -> BOOLEAN]

\* One socket moves on, and its tab's run with it.
LEMMA OneMovesOn ==
    ASSUME ChainInv, SignsNobodyIn, Screens,
           NEW s \in Sockets, NEW t \in Tabs, sock[s].tab = t,
           NEW q \in Sock, NEW r \in Run,
           sock' = [sock EXCEPT ![s] = q], run' = [run EXCEPT ![t] = r],
           q.tab = t \/ q.at = "closed",
           r.on = run[t].on, r.socket = run[t].socket,
           r.timer = run[t].timer \/ run[t].socket = s,
           q.at \in Live /\ ~q.torn => r.socket = s /\ (q.at = "waiting" => r.timer = s),
           r.terminal /\ auth'[t].signedIn =>
               \/ run[t].terminal /\ q.at \in {"ending", "closed"}
               \/ run[t].terminal /\ r.socket # s
               \/ r.socket = s /\ q.at \in {"ending", "closed"},
           holder' \in Sockets \cup {None, Ghost},
           holder' \in Sockets => holder' = holder /\ holder' # s
    PROVE  ChainInv'
<1>1. /\ sock'[s] = q /\ run'[t] = r
      /\ \A o \in Sockets \ {s} : sock'[o] = sock[o]
      /\ \A u \in Tabs \ {t} : run'[u] = run[u]
  BY DEF ChainInv, Records
<1>2. Records'
  BY DEF ChainInv, Records, SignsNobodyIn, Screens
<1>3. LiveIsOwn'
  <2> SUFFICES ASSUME NEW o \in Sockets, sock'[o].at \in Live, ~sock'[o].torn
               PROVE  /\ run'[sock'[o].tab].socket = o
                      /\ sock'[o].at = "waiting" => run'[sock'[o].tab].timer = o
    BY DEF LiveIsOwn
  <2>1. CASE o = s
    BY <1>1, <2>1 DEF Live
  <2>2. CASE o # s
    <3>1. /\ sock'[o] = sock[o] /\ run[sock[o].tab].socket = o
          /\ sock[o].at = "waiting" => run[sock[o].tab].timer = o
      BY <1>1, <2>2 DEF ChainInv, LiveIsOwn
    <3>2. sock[o].tab \in Tabs
      BY <3>1 DEF ChainInv, Records, Sock, SockRecord, Live
    <3>3. CASE sock[o].tab = t
      BY <1>1, <2>2, <3>1, <3>3
    <3>4. CASE sock[o].tab # t
      BY <1>1, <3>1, <3>2, <3>4
    <3> QED BY <3>3, <3>4
  <2> QED BY <2>1, <2>2
<1>4. HolderIsOpen'
  BY <1>1 DEF ChainInv, HolderIsOpen
<1>5. OffHasNone'
  BY <1>1 DEF ChainInv, OffHasNone
<1>6. TerminalEnds'
  <2> SUFFICES ASSUME NEW u \in Tabs, run'[u].terminal, auth'[u].signedIn,
                      NEW o \in Sockets, run'[u].socket = o, sock'[o].tab = u
               PROVE  sock'[o].at \in {"ending", "closed"}
    BY DEF TerminalEnds
  <2>1. auth[u].signedIn
    BY DEF SignsNobodyIn
  <2>2. CASE u = t /\ o = s
    BY <1>1, <2>2
  <2>3. CASE u = t /\ o # s
    BY <1>1, <2>1, <2>3 DEF ChainInv, TerminalEnds
  <2>4. CASE u # t /\ o = s
    BY <1>1, <2>4
  <2>5. CASE u # t /\ o # s
    BY <1>1, <2>1, <2>5 DEF ChainInv, TerminalEnds
  <2> QED BY <2>2, <2>3, <2>4, <2>5
<1> QED BY <1>2, <1>3, <1>4, <1>5, <1>6 DEF ChainInv

\* What is left of a tab's sockets when it opens one: none is live.
Cleared(t, sockets) ==
    /\ sockets \in [Sockets -> Sock]
    /\ \A s \in Sockets :
         IF sock[s].tab = t THEN /\ sockets[s].tab = t \/ sockets[s].at = "closed"
                                 /\ sockets[s].at \in Live => sockets[s].torn
                            ELSE sockets[s] = sock[s]

\* The run of a tab without a live socket opens one.
LEMMA OneOpens ==
    ASSUME ChainInv, SignsNobodyIn, Screens,
           NEW t \in Tabs, NEW r \in Run, NEW sockets, Cleared(t, sockets), Opens(t, r, sockets),
           r.on, ~(r.terminal /\ auth'[t].signedIn),
           holder' \in Sockets \cup {None, Ghost},
           holder' \in Sockets => holder' = holder /\ sock[holder].tab # t
    PROVE  ChainInv'
<1>1. PICK n \in Sockets :
        /\ sockets[n] = Closed /\ n # r.socket /\ \A u \in Tabs \ {t} : run[u].socket # n
        /\ run' = [run EXCEPT ![t] = [r EXCEPT !.socket = n]]
        /\ sock' = [s \in Sockets |->
                      IF s = n THEN [Closed EXCEPT !.at = "connecting", !.tab = t, !.token = r.url]
                      ELSE IF s = r.socket /\ sockets[s].at = "closed" THEN Closed
                      ELSE sockets[s]]
  BY DEF Opens
<1> DEFINE q == [Closed EXCEPT !.at = "connecting", !.tab = t, !.token = r.url]
<1>2. q \in Sock /\ q.at = "connecting" /\ q.tab = t
  BY DEF Closed, Sock, SockRecord, Run, Live, Awaiting, Whys
<1>3. [r EXCEPT !.socket = n] \in Run
  BY DEF Run
<1>4. /\ sock'[n] = q
      /\ \A o \in Sockets \ {n} : sock'[o] = sockets[o] \/ (sock'[o] = Closed /\ sockets[o].at = "closed")
  BY <1>1
<1>5. /\ run'[t].socket = n /\ run'[t].terminal = r.terminal /\ run'[t].on
      /\ \A u \in Tabs \ {t} : run'[u] = run[u]
  BY <1>1 DEF ChainInv, Records, Run
<1> HIDE DEF q
<1>6. Records'
  <2>1. run' \in [Tabs -> Run]
    BY <1>1, <1>3 DEF ChainInv, Records
  <2>2. sock' \in [Sockets -> Sock]
    <3>1. \A o \in Sockets : sock'[o] \in Sock
      BY <1>2, <1>4, ClosedIsSock DEF Cleared
    <3> QED BY <1>1, <3>1
  <2> QED BY <2>1, <2>2 DEF ChainInv, Records, SignsNobodyIn, Screens
<1>7. Closed.at = "closed" /\ Closed.tab = None /\ None \notin Sockets
  BY MatchSocketAssumption DEF Closed
<1>8. \A o \in Sockets \ {n} : sock'[o].at # "closed" => sock'[o] = sockets[o]
  BY <1>4, <1>7
<1>9. LiveIsOwn'
  <2> SUFFICES ASSUME NEW o \in Sockets, sock'[o].at \in Live, ~sock'[o].torn
               PROVE  /\ run'[sock'[o].tab].socket = o
                      /\ sock'[o].at = "waiting" => run'[sock'[o].tab].timer = o
    BY DEF LiveIsOwn
  <2>1. CASE o = n
    BY <1>2, <1>4, <1>5, <2>1
  <2>2. CASE o # n
    <3>1. sock'[o] = sockets[o] /\ sock[o].tab # t /\ sockets[o] = sock[o]
      BY <1>8, <2>2 DEF Cleared, Live
    <3>2. sock[o].tab \in Tabs \ {t}
      BY <3>1 DEF ChainInv, Records, Sock, SockRecord, Live
    <3> QED BY <1>5, <3>1, <3>2 DEF ChainInv, LiveIsOwn
  <2> QED BY <2>1, <2>2
<1>10. HolderIsOpen'
  <2> SUFFICES ASSUME holder' \in Sockets PROVE sock'[holder'].at = "open"
    BY DEF HolderIsOpen
  <2>1. sockets[holder] = sock[holder] /\ sock[holder].at = "open" /\ holder' = holder
    BY DEF ChainInv, HolderIsOpen, Cleared
  <2> QED BY <1>1, <1>4, <1>7, <2>1
<1>11. OffHasNone'
  BY <1>5 DEF ChainInv, OffHasNone
<1>12. TerminalEnds'
  <2> SUFFICES ASSUME NEW u \in Tabs, run'[u].terminal, auth'[u].signedIn,
                      NEW o \in Sockets, run'[u].socket = o, sock'[o].tab = u, sock'[o].at # "closed"
               PROVE  sock'[o].at \in {"ending", "closed"}
    BY DEF TerminalEnds
  <2>1. u # t /\ run[u].socket = o /\ run[u].terminal /\ auth[u].signedIn
    BY <1>5 DEF SignsNobodyIn
  <2>2. o # n
    BY <1>1, <2>1
  <2>3. sock'[o] = sockets[o] /\ sock[o].tab # t /\ sockets[o] = sock[o]
    BY <1>8, <2>1, <2>2 DEF Cleared
  <2> QED BY <2>1, <2>3 DEF ChainInv, TerminalEnds
<1> QED BY <1>6, <1>9, <1>10, <1>11, <1>12 DEF ChainInv

\* The cleanup leaves a tab nothing that is live.
LEMMA TearingClears == ASSUME ChainInv, NEW t \in Tabs PROVE Cleared(t, TornDown(t))
<1>1. ASSUME NEW s \in Sockets, sock[s].tab = t
      PROVE  LET q == TornDown(t)[s] IN
             q \in Sock /\ (q.tab = t \/ q.at = "closed") /\ (q.at \in Live => q.torn)
  <2> DEFINE torn == [sock[s] EXCEPT !.torn = TRUE]
  <2>1. sock[s] \in Sock
    BY DEF ChainInv, Records
  <2>2. torn.at = sock[s].at /\ torn.tab = sock[s].tab /\ torn.token = sock[s].token /\ torn.torn /\ torn \in SockRecord
    BY <2>1 DEF Sock, SockRecord
  <2>3. TornDown(t)[s] = Closed \/ (TornDown(t)[s] = torn /\ sock[s].at \in Awaiting)
    BY <1>1 DEF TornDown, Awaiting
  <2> HIDE DEF torn
  <2>4. Closed \in Sock /\ Closed.at = "closed" /\ "closed" \notin Live
    BY ClosedIsSock DEF Closed, Live
  <2>5. CASE TornDown(t)[s] = Closed
    BY <2>4, <2>5
  <2>6. CASE TornDown(t)[s] = torn /\ sock[s].at \in Awaiting
    BY <1>1, <2>1, <2>2, <2>6 DEF Sock
  <2> QED BY <2>3, <2>5, <2>6
<1>2. ASSUME NEW s \in Sockets, sock[s].tab # t PROVE TornDown(t)[s] = sock[s] /\ sock[s] \in Sock
  BY <1>2 DEF TornDown, ChainInv, Records
<1>3. TornDown(t) \in [Sockets -> Sock]
  <2>1. \A s \in Sockets : TornDown(t)[s] \in Sock
    BY <1>1, <1>2
  <2> QED BY <2>1 DEF TornDown
<1> QED BY <1>1, <1>2, <1>3 DEF Cleared

\* The holder's socket is its run's own.
LEMMA HolderIsOwn ==
    ASSUME ChainInv, holder \in Sockets
    PROVE  sock[holder].tab \in Tabs /\ run[sock[holder].tab].socket = holder /\ run[sock[holder].tab].on
<1>1. sock[holder].at = "open" /\ sock[holder] \in Sock
  BY DEF ChainInv, HolderIsOpen, Records
<1>2. sock[holder].tab \in Tabs /\ ~sock[holder].torn
  BY <1>1 DEF Sock, SockRecord, Awaiting
<1> QED BY <1>1, <1>2, MatchSocketAssumption DEF ChainInv, LiveIsOwn, OffHasNone, Live

\* Torn down, the tab is not the holder's any more, or never was.
LEMMA LetGo ==
    ASSUME ChainInv, NEW t \in Tabs, LetsGo(t) \/ (~run[t].on /\ holder' = holder)
    PROVE  /\ holder' \in Sockets \cup {None, Ghost}
           /\ holder' \in Sockets => holder' = holder /\ sock[holder].tab # t
BY HolderIsOwn, MatchSocketAssumption DEF LetsGo, ChainInv, Records

LEMMA SameAuth == ASSUME ChainInv, auth' = auth PROVE SignsNobodyIn
BY DEF SignsNobodyIn, ChainInv, Records

-----------------------------------------------------------------------------
(* The person, and the effect *)

\* An effect that starts, with what was there before torn down.
LEMMA StartsKeeps ==
    ASSUME ChainInv, Screens, auth' = auth, NEW t \in Tabs, Starts(t),
           LetsGo(t) \/ (~run[t].on /\ holder' = holder)
    PROVE  ChainInv'
<1> DEFINE r == [Off EXCEPT !.on = TRUE, !.for = auth[t].token, !.url = auth[t].token]
<1>1. auth[t].token \in 0..MaxTokens
  BY MatchSocketAssumption DEF ChainInv, Records, Auth
<1>2. r \in Run /\ r.on /\ ~r.terminal
  BY <1>1, OffIsRun DEF Run
<1>3. Opens(t, r, TornDown(t))
  BY DEF Starts
<1> HIDE DEF r
<1> QED BY <1>2, <1>3, TearingClears, LetGo, SameAuth, OneOpens

\* The screen closes.
LEMMA LeaveKeeps ==
    ASSUME ChainInv, NEW t \in Tabs, Leave(t)
    PROVE  ChainInv'
<1>1. /\ run' = [run EXCEPT ![t] = Off] /\ sock' = TornDown(t) /\ LetsGo(t)
      /\ auth' = auth /\ server' = server /\ displaced' = displaced
      /\ connected' = [connected EXCEPT ![t] = FALSE]
  BY DEF Leave
<1>2. run'[t] = Off /\ \A u \in Tabs \ {t} : run'[u] = run[u]
  BY <1>1 DEF ChainInv, Records
<1>3. Cleared(t, sock')
  BY <1>1, TearingClears
<1>4. Records'
  BY <1>1, <1>3, LetGo, OffIsRun DEF ChainInv, Records, Cleared
<1>5. LiveIsOwn'
  <2> SUFFICES ASSUME NEW o \in Sockets, sock'[o].at \in Live, ~sock'[o].torn
               PROVE  /\ run'[sock'[o].tab].socket = o
                      /\ sock'[o].at = "waiting" => run'[sock'[o].tab].timer = o
    BY DEF LiveIsOwn
  <2>1. sock[o].tab # t /\ sock'[o] = sock[o]
    BY <1>3 DEF Cleared
  <2>2. sock[o].tab \in Tabs \ {t}
    BY <2>1 DEF ChainInv, Records, Sock, SockRecord, Live
  <2> QED BY <1>2, <2>1, <2>2 DEF ChainInv, LiveIsOwn
<1>6. HolderIsOpen'
  BY <1>1, <1>3, LetGo DEF ChainInv, HolderIsOpen, Cleared
<1>7. OffHasNone'
  BY <1>2, OffIsRun DEF ChainInv, OffHasNone
<1>8. TerminalEnds'
  BY <1>1, <1>2, <1>3, OffIsRun DEF ChainInv, TerminalEnds, Cleared
<1> QED BY <1>4, <1>5, <1>6, <1>7, <1>8 DEF ChainInv

\* In the foreground again: what waits for the timer goes, and there is nothing else.
LEMMA ForegroundKeeps ==
    ASSUME ChainInv, NEW t \in Tabs, Foreground(t)
    PROVE  ChainInv'
<1> DEFINE sockets == [s \in Sockets |-> IF s = run[t].timer /\ sock[s].at = "waiting" /\ sock[s].tab = t
                                            THEN [Closed EXCEPT !.tab = t] ELSE sock[s]]
           r == [run[t] EXCEPT !.timer = None]
<1>1. /\ Opens(t, r, sockets) /\ run[t].on /\ ~run[t].terminal
      /\ sock[run[t].socket].at \notin {"connecting", "open", "ending"}
      /\ UNCHANGED <<server, holder, auth, connected, displaced>>
  BY DEF Foreground, MayReopen
<1>2. r \in Run /\ r.on /\ ~r.terminal
  BY <1>1 DEF ChainInv, Records, Run
<1>3. Cleared(t, sockets)
  <2>1. ASSUME NEW s \in Sockets, sock[s].tab = t
        PROVE  /\ sockets[s] \in Sock /\ (sockets[s].tab = t \/ sockets[s].at = "closed")
               /\ sockets[s].at \in Live => sockets[s].torn
    <3>1. sock[s] \in Sock /\ "closed" \notin Live
      BY DEF ChainInv, Records, Live
    <3>2. CASE sock[s].at \in Live /\ ~sock[s].torn
      <4>1. run[t].socket = s /\ (sock[s].at = "waiting" => run[t].timer = s)
        BY <2>1, <3>2 DEF ChainInv, LiveIsOwn
      <4>2. sockets[s] = [Closed EXCEPT !.tab = t]
        BY <1>1, <2>1, <3>2, <4>1 DEF Live
      <4> QED BY <3>1, <4>2, ClosedIsSock
    <3>3. CASE ~(sock[s].at \in Live /\ ~sock[s].torn)
      BY <2>1, <3>1, <3>3, ClosedIsSock
    <3> QED BY <3>2, <3>3
  <2>2. ASSUME NEW s \in Sockets, sock[s].tab # t PROVE sockets[s] = sock[s] /\ sock[s] \in Sock
    BY <2>2 DEF ChainInv, Records
  <2>3. sockets \in [Sockets -> Sock]
    <3>1. \A s \in Sockets : sockets[s] \in Sock
      BY <2>1, <2>2
    <3> QED BY <3>1
  <2> HIDE DEF sockets
  <2> QED BY <2>1, <2>2, <2>3 DEF Cleared
<1>4. Screens
  BY <1>1 DEF Screens, ChainInv, Records
<1>5. holder \in Sockets => sock[holder].tab # t
  <2>1. holder \in Sockets => sock[holder].at = "open" /\ run[sock[holder].tab].socket = holder
    BY HolderIsOwn DEF ChainInv, HolderIsOpen
  <2> QED BY <1>1, <2>1
<1>6. holder \in Sockets \cup {None, Ghost}
  BY DEF ChainInv, Records
<1> HIDE DEF sockets, r
<1> QED BY <1>1, <1>2, <1>3, <1>4, <1>5, <1>6, SameAuth, OneOpens

LEMMA PersonKeeps ==
    ASSUME ChainInv, NEW t \in Tabs, Person(t) \/ Rerun(t) \/ SignedOut(t)
    PROVE  ChainInv'
<1>1. CASE Enter(t)
  <2>1. Screens
    BY <1>1 DEF Enter, Screens, ChainInv, Records
  <2> QED BY <1>1, <2>1, StartsKeeps DEF Enter
<1>2. CASE Reclaim(t) \/ Rerun(t)
  <2>1. Screens
    BY <1>2 DEF Reclaim, Rerun, Screens, ChainInv, Records
  <2> QED BY <1>2, <2>1, StartsKeeps DEF Reclaim, Rerun
<1>3. CASE Leave(t) \/ SignedOut(t)
  BY <1>3, LeaveKeeps DEF SignedOut
<1>4. CASE Foreground(t)
  BY <1>4, ForegroundKeeps
<1> QED BY <1>1, <1>2, <1>3, <1>4 DEF Person

-----------------------------------------------------------------------------
(* A socket *)

\* A socket that ends, waits or awaits is still its tab's.
LEMMA MovedIsSock ==
    ASSUME NEW q \in Sock, q.tab \in Tabs, ~q.torn, NEW at \in Live \cup Awaiting, NEW why \in Whys, NEW token \in {0, q.token}
    PROVE  LET n == [q EXCEPT !.at = at, !.why = why, !.token = token] IN
           n \in Sock /\ n.at = at /\ n.tab = q.tab /\ ~n.torn
<1> DEFINE n == [q EXCEPT !.at = at, !.why = why, !.token = token]
<1>1. q \in SockRecord /\ token \in 0..MaxTokens
  BY MatchSocketAssumption DEF Sock, SockRecord
<1>2. n \in SockRecord /\ n.at = at /\ n.tab = q.tab /\ n.torn = q.torn
  BY <1>1 DEF SockRecord
<1> HIDE DEF n
<1>3. at # "closed"
  BY DEF Live, Awaiting
<1>4. n \in Sock
  BY <1>2, <1>3 DEF Sock
<1> QED BY <1>2, <1>4 DEF n

\* So it is when a move leaves its token alone, ...
Moved(s, at, why) == [sock EXCEPT ![s].at = at, ![s].why = why]

LEMMA EndedIsSock ==
    ASSUME ChainInv, NEW s \in Sockets, sock[s].at \notin {"closed"} \cup Awaiting,
           NEW at \in Live \cup Awaiting, NEW why \in Whys
    PROVE  \E q \in Sock : /\ q.at = at /\ q.tab = sock[s].tab /\ ~q.torn
                          /\ Moved(s, at, why) = [sock EXCEPT ![s] = q]
<1>1. sock \in [Sockets -> Sock] /\ sock[s] \in Sock
  BY DEF ChainInv, Records
<1>2. sock[s].tab \in Tabs /\ ~sock[s].torn
  BY <1>1 DEF Sock
<1> DEFINE q == [sock[s] EXCEPT !.at = at, !.why = why, !.token = sock[s].token]
<1>3. q \in Sock /\ q.at = at /\ q.tab = sock[s].tab /\ ~q.torn
  BY <1>1, <1>2, MovedIsSock
<1>4. [sock[s] EXCEPT !.at = at, !.why = why] = q
  BY <1>1 DEF Sock, SockRecord
<1>5. Moved(s, at, why) = [sock EXCEPT ![s] = [sock[s] EXCEPT !.at = at, !.why = why]]
  BY <1>1 DEF Moved
<1> HIDE DEF q
<1> QED BY <1>3, <1>4, <1>5

\* ... and when it does not.
LEMMA SockAtIsSock ==
    ASSUME ChainInv, NEW s \in Sockets, sock[s].at # "closed", ~sock[s].torn, NEW at \in Live \cup Awaiting
    PROVE  \E q \in Sock : /\ q.at = at /\ q.tab = sock[s].tab /\ ~q.torn
                          /\ SockAt(s, at) = [sock EXCEPT ![s] = q]
<1>1. sock \in [Sockets -> Sock] /\ sock[s] \in Sock
  BY DEF ChainInv, Records
<1>2. sock[s].tab \in Tabs
  BY <1>1 DEF Sock
<1> DEFINE q == [sock[s] EXCEPT !.at = at, !.why = "none", !.token = 0]
<1>3. q \in Sock /\ q.at = at /\ q.tab = sock[s].tab /\ ~q.torn
  BY <1>1, <1>2, MovedIsSock DEF Whys
<1>4. SockAt(s, at) = [sock EXCEPT ![s] = q]
  BY <1>1 DEF SockAt
<1> HIDE DEF q
<1> QED BY <1>3, <1>4

\* A socket in use is some tab's, and its run is a run.
LEMMA UsedIsTabs ==
    ASSUME ChainInv, NEW s \in Sockets, sock[s].at # "closed"
    PROVE  /\ sock[s] \in Sock /\ sock[s].tab \in Tabs /\ run[sock[s].tab] \in Run
           /\ run' = run => run' = [run EXCEPT ![sock[s].tab] = run[sock[s].tab]]
BY DEF ChainInv, Records, Sock

\* A socket that is dropped, refused, or whose table is gone.
LEMMA DropKeeps ==
    ASSUME ChainInv, NEW s \in Sockets, Refuse(s) \/ NetworkDrop(s) \/ TableGone(s)
    PROVE  ChainInv'
<1> DEFINE t == sock[s].tab
<1>1. sock[s].at \in {"connecting", "open"}
  BY DEF Refuse, NetworkDrop, TableGone
<1>2. t \in Tabs /\ sock[s] \in Sock /\ run[t] \in Run /\ run[t].socket = s
  BY <1>1, UsedIsTabs DEF ChainInv, LiveIsOwn, Sock, Awaiting, Live
<1>3. PICK why \in Whys : sock' = Ends(s, why)
  BY DEF Refuse, NetworkDrop, TableGone, Lost, Whys
<1>4. PICK q \in Sock : q.at = "ending" /\ q.tab = t /\ ~q.torn /\ sock' = [sock EXCEPT ![s] = q]
  <2>1. "ending" \in Live \cup Awaiting /\ sock[s].at \notin {"closed"} \cup Awaiting
    BY <1>1 DEF Live, Awaiting
  <2>2. sock' = Moved(s, "ending", why)
    BY <1>3 DEF Ends, Moved
  <2> QED BY <2>1, <2>2, EndedIsSock
<1>5. PICK r \in Run : /\ run' = [run EXCEPT ![t] = r]
                       /\ r.on = run[t].on /\ r.socket = run[t].socket /\ r.timer = run[t].timer
  <2>1. CASE run' = run
    BY <1>1, <1>2, <2>1, UsedIsTabs
  <2>2. CASE run' = [run EXCEPT ![t].terminal = TRUE]
    <3> DEFINE r == [run[t] EXCEPT !.terminal = TRUE]
    <3>1. r \in Run /\ r.on = run[t].on /\ r.socket = run[t].socket /\ r.timer = run[t].timer
      BY <1>2 DEF Run
    <3>2. run' = [run EXCEPT ![t] = r]
      BY <2>2
    <3> HIDE DEF r
    <3> QED BY <3>1, <3>2
  <2> QED BY <2>1, <2>2 DEF Refuse, NetworkDrop, TableGone
<1>6. SignsNobodyIn /\ Screens
  BY SameAuth DEF Refuse, NetworkDrop, TableGone, Screens, ChainInv, Records
<1>7. /\ holder' \in Sockets \cup {None, Ghost}
      /\ holder' \in Sockets => holder' = holder /\ holder' # s
  <2>1. holder = s => sock[s].at = "open"
    BY DEF ChainInv, HolderIsOpen
  <2>2. CASE Refuse(s)
    BY <2>1, <2>2 DEF Refuse, ChainInv, Records
  <2>3. CASE NetworkDrop(s)
    BY <2>3, MatchSocketAssumption DEF NetworkDrop, ChainInv, Records
  <2>4. CASE TableGone(s)
    BY <2>4, MatchSocketAssumption DEF TableGone
  <2> QED BY <2>2, <2>3, <2>4
<1> HIDE DEF t
<1> QED BY <1>2, <1>4, <1>5, <1>6, <1>7, OneMovesOn DEF t

\* onclose begins.
LEMMA OnCloseKeeps ==
    ASSUME ChainInv, NEW s \in Sockets, OnClose(s)
    PROVE  ChainInv'
<1> DEFINE t == sock[s].tab
           terminal == run[t].terminal \/ IsFinal(sock[s].why)
           r == [run[t] EXCEPT !.terminal = terminal]
<1>1. sock[s].at = "ending"
  BY DEF OnClose
<1>2. t \in Tabs /\ sock[s] \in Sock /\ run[t] \in Run /\ run[t].socket = s /\ ~sock[s].torn
  BY <1>1, UsedIsTabs DEF ChainInv, LiveIsOwn, Sock, Awaiting, Live
<1>3. terminal \in BOOLEAN /\ r \in Run
  BY <1>2 DEF Run, IsFinal
<1>4. /\ r.on = run[t].on /\ r.socket = run[t].socket /\ r.timer = run[t].timer /\ r.terminal = terminal
      /\ run' = [run EXCEPT ![t] = r]
  BY <1>2 DEF OnClose, Run
<1>5. PICK q \in Sock : /\ sock' = [sock EXCEPT ![s] = q] /\ (q.tab = t \/ q.at = "closed")
                        /\ q.at \in {"closed", "probing", "renewing"} /\ (terminal => q.at = "closed")
  <2>1. CASE terminal
    BY <1>2, <2>1, ClosedIsSock DEF OnClose
  <2>2. CASE ~terminal /\ sock' = SockAt(s, "probing")
    BY <1>1, <1>2, <2>2, SockAtIsSock DEF Awaiting
  <2>3. CASE ~terminal /\ sock' = [sock EXCEPT ![s].at = "renewing", ![s].why = "none"]
    <3>1. sock' = Moved(s, "renewing", "none")
      BY <2>3 DEF Moved
    <3>2. "renewing" \in Live \cup Awaiting /\ "none" \in Whys /\ sock[s].at \notin {"closed"} \cup Awaiting
      BY <1>1 DEF Awaiting, Whys
    <3>3. PICK q \in Sock : q.at = "renewing" /\ q.tab = t /\ sock' = [sock EXCEPT ![s] = q]
      BY <3>1, <3>2, EndedIsSock
    <3> HIDE DEF terminal
    <3> QED BY <2>3, <3>3
  <2> QED BY <2>1, <2>2, <2>3 DEF OnClose
<1>6. SignsNobodyIn /\ Screens
  <2>1. auth' = auth /\ server' = server
    BY DEF OnClose
  <2>2. connected' \in [Tabs -> BOOLEAN]
    BY DEF OnClose, ChainInv, Records
  <2>3. displaced' = [displaced EXCEPT ![t] = displaced[t] \/ IsFinal(sock[s].why)] /\ displaced \in [Tabs -> BOOLEAN]
    BY DEF OnClose, ChainInv, Records
  <2>4. (displaced[t] \/ IsFinal(sock[s].why)) \in BOOLEAN
    BY DEF IsFinal
  <2>5. displaced' \in [Tabs -> BOOLEAN]
    BY <2>3, <2>4
  <2> QED BY <2>1, <2>2, <2>5, SameAuth DEF Screens, ChainInv, Records
<1>7. holder' = holder /\ holder # s /\ holder \in Sockets \cup {None, Ghost}
  BY <1>1 DEF OnClose, ChainInv, HolderIsOpen, Records
<1>8. q.at \notin Live
  BY <1>5 DEF Live
<1> HIDE DEF t, r, terminal
<1> QED BY <1>2, <1>3, <1>4, <1>5, <1>6, <1>7, <1>8, OneMovesOn DEF t

\* The probe is answered.
LEMMA ProbeKeeps ==
    ASSUME ChainInv, NEW s \in Sockets, ProbeAnswers(s)
    PROVE  ChainInv'
<1> DEFINE t == sock[s].tab
           r == IF Current(s) THEN [run[t] EXCEPT !.timer = s] ELSE run[t]
<1>1. sock[s].at = "probing" /\ UNCHANGED <<server, holder, auth, connected, displaced>>
  BY DEF ProbeAnswers
<1>2. t \in Tabs /\ sock[s] \in Sock /\ run[t] \in Run
  BY <1>1, UsedIsTabs
<1>3. /\ r \in Run /\ run' = [run EXCEPT ![t] = r]
      /\ r.on = run[t].on /\ r.socket = run[t].socket /\ r.terminal = run[t].terminal
      /\ r.timer = run[t].timer \/ (run[t].socket = s /\ r.timer = s)
      /\ Current(s) => run[t].socket = s /\ r.timer = s
  <2>1. CASE Current(s)
    <3>1. run' = [run EXCEPT ![t].timer = s]
      BY <2>1 DEF ProbeAnswers, StillCurrent
    <3> QED BY <1>2, <2>1, <3>1 DEF Run, Current
  <2>2. CASE ~Current(s)
    <3>1. run' = run
      BY <2>2 DEF ProbeAnswers, StillCurrent
    <3> QED BY <1>1, <1>2, <2>2, <3>1, UsedIsTabs
  <2> QED BY <2>1, <2>2
<1> HIDE DEF r
<1>4. PICK q \in Sock : /\ sock' = [sock EXCEPT ![s] = q] /\ (q.tab = t \/ q.at = "closed")
                        /\ q.at = "closed" \/ Current(s)
  <2>1. CASE Current(s)
    <3>1. sock' = SockAt(s, "waiting") /\ ~sock[s].torn
      BY <2>1 DEF ProbeAnswers, StillCurrent, Current
    <3>2. PICK q \in Sock : q.tab = t /\ sock' = [sock EXCEPT ![s] = q]
      BY <1>1, <3>1, SockAtIsSock DEF Awaiting
    <3> QED BY <2>1, <3>2
  <2>2. CASE ~Current(s)
    <3>1. sock' = [sock EXCEPT ![s] = Closed] /\ Closed \in Sock /\ Closed.at = "closed"
      BY <2>2, ClosedIsSock DEF ProbeAnswers, StillCurrent, Closed
    <3> QED BY <3>1
  <2> QED BY <2>1, <2>2
<1>5. Current(s) => ~(run[t].terminal /\ auth[t].signedIn)
  BY <1>1, <1>2 DEF Current, ChainInv, TerminalEnds
<1>6. SignsNobodyIn /\ Screens
  BY <1>1, SameAuth DEF Screens, ChainInv, Records
<1>7. holder' = holder /\ holder # s /\ holder \in Sockets \cup {None, Ghost}
  BY <1>1 DEF ChainInv, HolderIsOpen, Records
<1>8. "closed" \notin Live /\ auth' = auth
  BY <1>1 DEF Live
<1> HIDE DEF t
<1> QED BY <1>2, <1>3, <1>4, <1>5, <1>6, <1>7, <1>8, OneMovesOn DEF t

\* The run opens another socket when its own has come to the end of its onclose.
LEMMA NextOpens ==
    ASSUME ChainInv, SignsNobodyIn, Screens, NEW s \in Sockets, Current(s), sock[s].at \in Awaiting,
           auth'[sock[s].tab].signedIn => auth[sock[s].tab].signedIn,
           NEW r \in Run, r.terminal = run[sock[s].tab].terminal,
           r.on = run[sock[s].tab].on,
           Opens(sock[s].tab, r, [sock EXCEPT ![s] = [Closed EXCEPT !.tab = sock[s].tab]]),
           holder' = holder
    PROVE  ChainInv'
<1> DEFINE t == sock[s].tab
           sockets == [sock EXCEPT ![s] = [Closed EXCEPT !.tab = t]]
<1>1. sock \in [Sockets -> Sock] /\ run[t].socket = s /\ sock[s].at # "closed" /\ t \in Tabs
  BY DEF ChainInv, Records, Current, Awaiting, Sock
<1>2. r.on
  BY <1>1, MatchSocketAssumption DEF ChainInv, OffHasNone
<1>3. /\ sockets \in [Sockets -> Sock]
      /\ sockets[s].at = "closed" /\ \A o \in Sockets \ {s} : sockets[o] = sock[o]
  BY <1>1, ClosedIsSock
<1>4. \A o \in Sockets \ {s} : sock[o].tab = t /\ sock[o].at \in Live => sock[o].torn
  BY <1>1 DEF ChainInv, LiveIsOwn
<1>5. Opens(t, r, sockets)
  OBVIOUS
<1> HIDE DEF sockets
<1>6. Cleared(t, sockets)
  BY <1>1, <1>3, <1>4 DEF Cleared, Live
<1>7. ~(r.terminal /\ auth'[t].signedIn)
  BY <1>1 DEF ChainInv, TerminalEnds, Awaiting
<1>8. holder \in Sockets \cup {None, Ghost} /\ (holder \in Sockets => sock[holder].tab # t)
  BY <1>1, HolderIsOwn DEF ChainInv, Records, HolderIsOpen, Awaiting
<1> HIDE DEF t
<1> QED BY <1>1, <1>2, <1>5, <1>6, <1>7, <1>8, OneOpens

\* A socket whose onclose comes to its end and leads to nothing.
LEMMA NothingOpens ==
    ASSUME ChainInv, SignsNobodyIn, Screens, NEW s \in Sockets, sock[s].at \in Awaiting,
           NEW r \in Run, run' = [run EXCEPT ![sock[s].tab] = r],
           r.on = run[sock[s].tab].on, r.socket = run[sock[s].tab].socket, r.timer = run[sock[s].tab].timer,
           r.terminal /\ auth'[sock[s].tab].signedIn => run[sock[s].tab].terminal,
           sock' \in {[sock EXCEPT ![s] = Closed], [sock EXCEPT ![s] = [Closed EXCEPT !.tab = sock[s].tab]]},
           holder' = holder
    PROVE  ChainInv'
<1>1. sock[s].at # "closed" /\ sock[s].at # "open"
  BY DEF Awaiting
<1>2. sock[s].tab \in Tabs
  BY <1>1, UsedIsTabs
<1>3. PICK q \in Sock : q.at = "closed" /\ sock' = [sock EXCEPT ![s] = q]
  <2>1. Closed \in Sock /\ Closed.at = "closed"
    BY ClosedIsSock DEF Closed
  <2> QED BY <1>2, <2>1, ClosedIsSock
<1>4. holder # s /\ holder \in Sockets \cup {None, Ghost}
  BY <1>1 DEF ChainInv, HolderIsOpen, Records
<1>5. "closed" \notin Live
  BY DEF Live
<1> QED BY <1>2, <1>3, <1>4, <1>5, OneMovesOn

\* The timer fires.
LEMMA TimerKeeps ==
    ASSUME ChainInv, NEW s \in Sockets, TimerFires(s)
    PROVE  ChainInv'
<1>1. sock[s].at = "waiting" /\ UNCHANGED <<server, holder, auth, connected, displaced>>
  BY DEF TimerFires
<1>2. sock[s].tab \in Tabs /\ run[sock[s].tab] \in Run /\ sock[s].at \in Awaiting
  BY <1>1, UsedIsTabs DEF Awaiting
<1>3. SignsNobodyIn /\ Screens
  BY <1>1, SameAuth DEF Screens, ChainInv, Records
<1>4. CASE sock[s].torn
  <2>1. sock' = [sock EXCEPT ![s] = Closed] /\ run' = [run EXCEPT ![sock[s].tab] = run[sock[s].tab]]
    BY <1>1, <1>4, UsedIsTabs DEF TimerFires
  <2> QED BY <1>1, <1>2, <1>3, <2>1, NothingOpens
<1>5. CASE ~sock[s].torn
  <2>1. Current(s)
    BY <1>1, <1>5 DEF ChainInv, LiveIsOwn, Live, Current
  <2>2. Opens(sock[s].tab, run[sock[s].tab], [sock EXCEPT ![s] = [Closed EXCEPT !.tab = sock[s].tab]])
    BY <1>5, <2>1 DEF TimerFires
  <2> QED BY <1>1, <1>2, <1>3, <2>1, <2>2, NextOpens
<1> QED BY <1>4, <1>5

\* The renewal gives a token: the run goes on with it, unless it is torn down.
LEMMA RenewedKeeps ==
    ASSUME ChainInv, SignsNobodyIn, Screens, NEW s \in Sockets, sock[s].at = "renewing", holder' = holder,
           NEW token \in 0..MaxTokens,
           IF sock[s].torn THEN UNCHANGED run /\ sock' = [sock EXCEPT ![s] = Closed]
           ELSE LET r == [run[sock[s].tab] EXCEPT !.renewed = TRUE, !.url = token] IN
                IF Current(s)
                  THEN Opens(sock[s].tab, r, [sock EXCEPT ![s] = [Closed EXCEPT !.tab = sock[s].tab]])
                  ELSE run' = [run EXCEPT ![sock[s].tab] = r] /\ sock' = [sock EXCEPT ![s] = Closed]
    PROVE  ChainInv'
<1> DEFINE r == [run[sock[s].tab] EXCEPT !.renewed = TRUE, !.url = token]
<1>1. sock[s].tab \in Tabs /\ run[sock[s].tab] \in Run /\ sock[s].at \in Awaiting /\ sock[s].at # "closed"
  BY UsedIsTabs DEF Awaiting
<1>2. /\ r \in Run /\ r.on = run[sock[s].tab].on /\ r.socket = run[sock[s].tab].socket
      /\ r.timer = run[sock[s].tab].timer /\ r.terminal = run[sock[s].tab].terminal
  BY <1>1 DEF Run
<1>3. CASE sock[s].torn
  <2>1. sock' = [sock EXCEPT ![s] = Closed] /\ run' = [run EXCEPT ![sock[s].tab] = run[sock[s].tab]]
    BY <1>1, <1>3, UsedIsTabs
  <2> QED BY <1>1, <2>1, NothingOpens
<1>4. CASE ~sock[s].torn /\ Current(s)
  <2>1. Opens(sock[s].tab, r, [sock EXCEPT ![s] = [Closed EXCEPT !.tab = sock[s].tab]])
    BY <1>4
  <2>2. auth'[sock[s].tab].signedIn => auth[sock[s].tab].signedIn
    BY <1>1 DEF SignsNobodyIn
  <2> HIDE DEF r
  <2> QED BY <1>1, <1>2, <1>4, <2>1, <2>2, NextOpens
<1>5. CASE ~sock[s].torn /\ ~Current(s)
  <2>1. sock' = [sock EXCEPT ![s] = Closed] /\ run' = [run EXCEPT ![sock[s].tab] = r]
    BY <1>5
  <2> HIDE DEF r
  <2> QED BY <1>1, <1>2, <2>1, NothingOpens
<1> QED BY <1>3, <1>4, <1>5

\* renewToken is answered.
LEMMA RenewKeeps ==
    ASSUME ChainInv, NEW s \in Sockets, RenewAnswers(s)
    PROVE  ChainInv'
<1> DEFINE t == sock[s].tab
           fresh == auth[t].token # sock[s].token
           renewed(token) ==
            IF sock[s].torn THEN UNCHANGED run /\ sock' = [sock EXCEPT ![s] = Closed]
            ELSE LET r == [run[t] EXCEPT !.renewed = TRUE, !.url = token] IN
                 IF Current(s)
                   THEN Opens(t, r, [sock EXCEPT ![s] = [Closed EXCEPT !.tab = t]])
                   ELSE run' = [run EXCEPT ![t] = r] /\ sock' = [sock EXCEPT ![s] = Closed]
<1>1. sock[s].at = "renewing" /\ UNCHANGED <<server, holder, connected, displaced>>
  BY DEF RenewAnswers
<1>2. /\ t \in Tabs /\ sock[s] \in Sock /\ run[t] \in Run /\ auth[t] \in Auth /\ auth \in [Tabs -> Auth]
      /\ sock[s].at \in Awaiting /\ sock[s].at # "closed"
  BY <1>1, UsedIsTabs DEF ChainInv, Records, Awaiting
<1>3. Screens
  BY <1>1 DEF Screens, ChainInv, Records
<1>4. CASE renewed(auth[t].token) /\ UNCHANGED auth
  <2>1. SignsNobodyIn /\ auth[t].token \in 0..MaxTokens
    BY <1>2, <1>4, SameAuth, MatchSocketAssumption DEF Auth
  <2> QED BY <1>1, <1>3, <1>4, <2>1, RenewedKeeps
<1>5. CASE auth[t].token < MaxTokens /\ auth' = [auth EXCEPT ![t].token = @ + 1] /\ renewed(auth[t].token + 1)
  <2> DEFINE a == [auth[t] EXCEPT !.token = auth[t].token + 1]
  <2>1. auth[t].token + 1 \in 1..MaxTokens /\ auth[t].token + 1 \in 0..MaxTokens
    BY <1>2, <1>5, MatchSocketAssumption DEF Auth
  <2>2. a \in Auth /\ a.signedIn = auth[t].signedIn /\ auth' = [auth EXCEPT ![t] = a]
    BY <1>2, <1>5, <2>1 DEF Auth
  <2> HIDE DEF a
  <2>3. SignsNobodyIn
    BY <1>2, <2>2 DEF SignsNobodyIn
  <2> QED BY <1>1, <1>3, <1>5, <2>1, <2>3, RenewedKeeps
<1>6. CASE /\ auth' = [auth EXCEPT ![t].signedIn = FALSE]
           /\ run' = IF sock[s].torn THEN run ELSE [run EXCEPT ![t].terminal = TRUE]
           /\ sock' = [sock EXCEPT ![s] = IF Current(s) THEN [Closed EXCEPT !.tab = t] ELSE Closed]
  <2> DEFINE a == [auth[t] EXCEPT !.signedIn = FALSE]
             r == IF sock[s].torn THEN run[t] ELSE [run[t] EXCEPT !.terminal = TRUE]
  <2>1. a \in Auth /\ ~a.signedIn /\ auth' = [auth EXCEPT ![t] = a]
    BY <1>2, <1>6 DEF Auth
  <2>2. r \in Run /\ r.on = run[t].on /\ r.socket = run[t].socket /\ r.timer = run[t].timer
    BY <1>2 DEF Run
  <2>3. run' = [run EXCEPT ![t] = r]
    BY <1>2, <1>6, UsedIsTabs
  <2> HIDE DEF a, r
  <2>4. SignsNobodyIn /\ ~auth'[t].signedIn
    BY <1>2, <2>1 DEF SignsNobodyIn
  <2>5. sock' \in {[sock EXCEPT ![s] = Closed], [sock EXCEPT ![s] = [Closed EXCEPT !.tab = t]]}
    BY <1>6
  <2> QED BY <1>1, <1>2, <1>3, <2>2, <2>3, <2>4, <2>5, NothingOpens
<1>7. CASE /\ sock' = IF Current(s) /\ ~run[t].terminal THEN SockAt(s, "probing")
                      ELSE [sock EXCEPT ![s] = IF Current(s) THEN [Closed EXCEPT !.tab = t] ELSE Closed]
           /\ UNCHANGED <<auth, run>>
  <2>1. SignsNobodyIn /\ run' = [run EXCEPT ![t] = run[t]]
    BY <1>2, <1>7, SameAuth, UsedIsTabs
  <2>2. CASE Current(s) /\ ~run[t].terminal
    <3>1. ~sock[s].torn /\ sock' = SockAt(s, "probing")
      BY <1>7, <2>2 DEF Current
    <3>2. PICK q \in Sock : q.at = "probing" /\ q.tab = t /\ sock' = [sock EXCEPT ![s] = q]
      BY <1>2, <3>1, SockAtIsSock DEF Awaiting
    <3>3. holder' = holder /\ holder # s /\ holder \in Sockets \cup {None, Ghost}
      BY <1>1 DEF ChainInv, HolderIsOpen, Records
    <3>4. "probing" \notin Live
      BY DEF Live
    <3> HIDE DEF t
    <3> QED BY <1>2, <1>3, <2>1, <2>2, <3>2, <3>3, <3>4, OneMovesOn DEF t
  <2>3. CASE ~(Current(s) /\ ~run[t].terminal)
    <3>1. sock' \in {[sock EXCEPT ![s] = Closed], [sock EXCEPT ![s] = [Closed EXCEPT !.tab = t]]}
      BY <1>7, <2>3
    <3> QED BY <1>1, <1>2, <1>3, <2>1, <3>1, NothingOpens
  <2> QED BY <2>2, <2>3
<1> QED BY <1>4, <1>5, <1>6, <1>7 DEF RenewAnswers

\* The upgrade is let through, and whoever had the seat is on the way out.
LEMMA AcceptKeeps ==
    ASSUME ChainInv, NEW s \in Sockets, Accept(s)
    PROVE  ChainInv'
<1> DEFINE t == sock[s].tab
           r == [run[t] EXCEPT !.renewed = FALSE]
           opened == [sock[s] EXCEPT !.at = "open", !.token = 0]
           ended(o) == [sock[o] EXCEPT !.at = "ending", !.why = "displaced"]
<1>1. /\ sock[s].at = "connecting" /\ holder' = s
      /\ sock' = [o \in Sockets |-> IF o = s THEN opened ELSE IF o = holder THEN ended(o) ELSE sock[o]]
      /\ UNCHANGED <<server, auth, displaced>>
      /\ connected' = [connected EXCEPT ![t] = TRUE]
      /\ run' = [run EXCEPT ![t].renewed = FALSE]
  BY DEF Accept
<1>2. t \in Tabs /\ sock[s] \in Sock /\ run[t] \in Run /\ sock \in [Sockets -> Sock] /\ ~sock[s].torn /\ run[t].socket = s
  BY <1>1, UsedIsTabs DEF ChainInv, Records, LiveIsOwn, Sock, Awaiting, Live
<1>3. r \in Run /\ run' = [run EXCEPT ![t] = r]
  BY <1>1, <1>2 DEF Run
<1>4. \A u \in Tabs : /\ run'[u].on = run[u].on /\ run'[u].socket = run[u].socket
                      /\ run'[u].timer = run[u].timer /\ run'[u].terminal = run[u].terminal
  BY <1>3 DEF ChainInv, Records, Run
<1>5. /\ opened \in Sock /\ opened.at = "open" /\ opened.tab = t
  <2>1. opened \in SockRecord /\ opened.at = "open" /\ opened.tab = t /\ opened.torn = sock[s].torn
    <3>1. sock[s] \in SockRecord /\ 0 \in 0..MaxTokens /\ "open" \in Live
      BY <1>2, MatchSocketAssumption DEF Sock, Live
    <3> QED BY <3>1 DEF SockRecord
  <2> HIDE DEF opened
  <2> QED BY <1>2, <2>1 DEF Sock
<1>6. ASSUME NEW o \in Sockets, o = holder
      PROVE  ended(o) \in Sock /\ ended(o).at = "ending" /\ ended(o).tab = sock[o].tab /\ sock[o].at = "open"
  <2>1. sock[o] \in Sock /\ sock[o].at = "open" /\ ~sock[o].torn /\ sock[o].tab \in Tabs
    BY <1>2, <1>6 DEF ChainInv, HolderIsOpen, Sock, Awaiting
  <2>2. ended(o) \in SockRecord /\ ended(o).at = "ending" /\ ended(o).tab = sock[o].tab /\ ended(o).torn = sock[o].torn
    BY <2>1 DEF Sock, SockRecord, Live, Whys
  <2> HIDE DEF ended
  <2> QED BY <2>1, <2>2 DEF Sock
<1> HIDE DEF r, opened, ended
<1>7. \A o \in Sockets : /\ sock'[o] \in Sock
                         /\ sock'[o] = sock[o] \/ (sock'[o].at \in {"open", "ending"} /\ sock[o].at \in {"connecting", "open"})
                         /\ sock'[o].tab = sock[o].tab
  BY <1>1, <1>2, <1>5, <1>6
<1>8. Records'
  <2>1. sock' \in [Sockets -> Sock]
    BY <1>1, <1>7
  <2> QED BY <1>1, <1>3, <2>1 DEF ChainInv, Records
<1>9. LiveIsOwn'
  <2> SUFFICES ASSUME NEW o \in Sockets, sock'[o].at \in Live, ~sock'[o].torn
               PROVE  /\ run'[sock'[o].tab].socket = o
                      /\ sock'[o].at = "waiting" => run'[sock'[o].tab].timer = o
    BY DEF LiveIsOwn
  <2>1. sock[o].at \in Live /\ ~sock[o].torn /\ sock[o].tab \in Tabs
    BY <1>2, <1>7 DEF Live, Sock, Awaiting
  <2> QED BY <1>4, <1>7, <2>1 DEF ChainInv, LiveIsOwn
<1>10. HolderIsOpen'
  BY <1>1, <1>5 DEF HolderIsOpen
<1>11. OffHasNone'
  BY <1>4 DEF ChainInv, OffHasNone
<1>12. TerminalEnds'
  BY <1>1, <1>4, <1>7 DEF ChainInv, TerminalEnds
<1> QED BY <1>8, <1>9, <1>10, <1>11, <1>12 DEF ChainInv

-----------------------------------------------------------------------------
(* The world around *)

\* Nothing a socket or a run has changes.
LEMMA AroundKeeps ==
    ASSUME ChainInv, SignsNobodyIn, Screens, UNCHANGED <<run, sock>>, holder' \in {holder, None, Ghost}
    PROVE  ChainInv'
<1>1. Records' /\ LiveIsOwn' /\ OffHasNone'
  BY DEF ChainInv, Records, LiveIsOwn, OffHasNone, SignsNobodyIn, Screens
<1>2. HolderIsOpen'
  BY MatchSocketAssumption DEF ChainInv, HolderIsOpen
<1>3. TerminalEnds'
  BY DEF ChainInv, TerminalEnds, SignsNobodyIn
<1> QED BY <1>1, <1>2, <1>3 DEF ChainInv

LEMMA TokensKeep ==
    ASSUME ChainInv, NEW t \in Tabs, Expire(t) \/ RefreshedElsewhere(t)
    PROVE  ChainInv'
<1>1. auth \in [Tabs -> Auth] /\ auth[t] \in Auth /\ UNCHANGED <<server, holder, run, sock, connected, displaced>>
  BY DEF ChainInv, Records, Expire, RefreshedElsewhere
<1>2. PICK a \in Auth : auth' = [auth EXCEPT ![t] = a] /\ a.signedIn = auth[t].signedIn
  <2>1. CASE Expire(t)
    <3> DEFINE a == [auth[t] EXCEPT !.dead = auth[t].token]
    <3>1. auth[t].token \in 0..MaxTokens
      BY <1>1, MatchSocketAssumption DEF Auth
    <3>2. a \in Auth /\ a.signedIn = auth[t].signedIn /\ auth' = [auth EXCEPT ![t] = a]
      BY <1>1, <2>1, <3>1 DEF Expire, Auth
    <3> HIDE DEF a
    <3> QED BY <3>2
  <2>2. CASE RefreshedElsewhere(t)
    <3> DEFINE a == [auth[t] EXCEPT !.token = auth[t].token + 1]
    <3>1. auth[t].token + 1 \in 1..MaxTokens
      BY <1>1, <2>2, MatchSocketAssumption DEF RefreshedElsewhere, Auth
    <3>2. a \in Auth /\ a.signedIn = auth[t].signedIn /\ auth' = [auth EXCEPT ![t] = a]
      BY <1>1, <2>2, <3>1 DEF RefreshedElsewhere, Auth
    <3> HIDE DEF a
    <3> QED BY <3>2
  <2> QED BY <2>1, <2>2
<1>3. SignsNobodyIn /\ Screens
  BY <1>1, <1>2 DEF SignsNobodyIn, Screens, ChainInv, Records
<1> QED BY <1>1, <1>3, AroundKeeps

\* The server goes down, and every open socket with it.
LEMMA DownKeeps == ASSUME ChainInv, ServerDown PROVE ChainInv'
<1> DEFINE ended(o) == [sock[o] EXCEPT !.at = "ending", !.why = "lost"]
<1>1. /\ server' = [up |-> FALSE, full |-> FALSE] /\ holder' = None
      /\ sock' = [o \in Sockets |-> IF sock[o].at = "open" THEN ended(o) ELSE sock[o]]
      /\ UNCHANGED <<auth, run, connected, displaced>>
  BY DEF ServerDown
<1>2. ASSUME NEW o \in Sockets, sock[o].at = "open"
      PROVE  ended(o) \in Sock /\ ended(o).at = "ending" /\ ended(o).tab = sock[o].tab /\ ~sock[o].torn
  <2>1. sock[o] \in Sock /\ ~sock[o].torn /\ sock[o].tab \in Tabs
    BY <1>2 DEF ChainInv, Records, Sock, Awaiting
  <2>2. ended(o) \in SockRecord /\ ended(o).at = "ending" /\ ended(o).tab = sock[o].tab /\ ended(o).torn = sock[o].torn
    BY <2>1 DEF Sock, SockRecord, Live, Whys
  <2> HIDE DEF ended
  <2> QED BY <2>1, <2>2 DEF Sock
<1> HIDE DEF ended
<1>3. \A o \in Sockets : /\ sock'[o] \in Sock
                         /\ sock'[o] = sock[o] \/ (sock'[o].at = "ending" /\ sock[o].at = "open" /\ ~sock[o].torn)
                         /\ sock'[o].tab = sock[o].tab
  BY <1>1, <1>2 DEF ChainInv, Records
<1>4. Records'
  <2>1. sock' \in [Sockets -> Sock]
    BY <1>1, <1>3
  <2> QED BY <1>1, <2>1 DEF ChainInv, Records, Server
<1>5. LiveIsOwn'
  BY <1>1, <1>3 DEF ChainInv, LiveIsOwn, Live
<1>6. HolderIsOpen' /\ OffHasNone'
  BY <1>1, MatchSocketAssumption DEF ChainInv, HolderIsOpen, OffHasNone
<1>7. TerminalEnds'
  BY <1>1, <1>3 DEF ChainInv, TerminalEnds
<1> QED BY <1>4, <1>5, <1>6, <1>7 DEF ChainInv

LEMMA StepKeepsChain == ChainInv /\ [MatchSocketNext]_socketVars => ChainInv'
<1> SUFFICES ASSUME ChainInv, [MatchSocketNext]_socketVars PROVE ChainInv'
  OBVIOUS
<1>1. CASE UNCHANGED socketVars
  BY <1>1, SameAuth, AroundKeeps DEF socketVars, Screens, ChainInv, Records
<1>2. ASSUME NEW s \in Sockets, SocketStep(s) \/ NetworkDrop(s) \/ TableGone(s) PROVE ChainInv'
  BY <1>2, AcceptKeeps, DropKeeps, OnCloseKeeps, RenewKeeps, ProbeKeeps, TimerKeeps DEF SocketStep
<1>3. ASSUME NEW t \in Tabs, Person(t) \/ Rerun(t) \/ SignedOut(t) \/ Expire(t) \/ RefreshedElsewhere(t)
      PROVE  ChainInv'
  BY <1>3, PersonKeeps, TokensKeep
<1>4. CASE ServerUp \/ Fills \/ Notices
  <2>1. auth' = auth /\ UNCHANGED <<run, sock>> /\ holder' \in {holder, None, Ghost}
    BY <1>4 DEF ServerUp, Fills, Notices
  <2>2. server' \in Server
    BY <1>4 DEF ServerUp, Fills, Notices, Server, ChainInv, Records
  <2>3. Screens
    BY <1>4, <2>2 DEF ServerUp, Fills, Notices, Screens, ChainInv, Records
  <2> QED BY <2>1, <2>3, SameAuth, AroundKeeps
<1> QED BY <1>1, <1>2, <1>3, <1>4, DownKeeps DEF MatchSocketNext

LEMMA ChainInvHolds == MatchSocketSpec => []ChainInv
BY InitChain, StepKeepsChain, PTL DEF MatchSocketSpec

-----------------------------------------------------------------------------
\* Every state is of its type, whatever sockets, tokens, tabs and the server do
\* (MatchSocket!MatchSocketTypeOK).
THEOREM MatchSocketTypesHold == MatchSocketSpec => []MatchSocketTypeOK
<1>1. ChainInv => MatchSocketTypeOK
  <2> SUFFICES ASSUME ChainInv PROVE MatchSocketTypeOK
    OBVIOUS
  <2>1. ASSUME NEW s \in Sockets
        PROVE  \/ sock[s].at = "closed" /\ sock[s].token = 0
               \/ /\ sock[s].at \in {"connecting", "open", "ending", "renewing", "probing", "waiting"}
                  /\ sock[s].tab \in Tabs /\ sock[s].token \in 0..MaxTokens
    BY DEF ChainInv, Records, Sock, SockRecord, Live, Awaiting
  <2>2. server \in [up : BOOLEAN, full : BOOLEAN] /\ auth \in [Tabs -> Auth] /\ run \in [Tabs -> Run]
        /\ holder \in Sockets \cup {None, Ghost} /\ connected \in [Tabs -> BOOLEAN] /\ displaced \in [Tabs -> BOOLEAN]
    BY DEF ChainInv, Records, Server
  <2> QED BY <2>1, <2>2 DEF MatchSocketTypeOK, Auth, Run
<1> QED BY <1>1, ChainInvHolds, PTL

\* A tab never has two chains of reconnection side by side: whatever was awaited
\* when the app came to the foreground or the run was torn down finds that its
\* socket is not the run's own any more.
THEOREM OneChainHolds == MatchSocketSpec => []OneChain
<1>1. ChainInv => OneChain
  <2> SUFFICES ASSUME ChainInv, NEW t \in Tabs
               PROVE  Cardinality({s \in Sockets : /\ sock[s].tab = t
                                                   /\ sock[s].at \in {"connecting", "open", "ending", "waiting"}
                                                   /\ ~sock[s].torn}) <= 1
    BY DEF OneChain
  <2> DEFINE chain == {s \in Sockets : /\ sock[s].tab = t
                                       /\ sock[s].at \in {"connecting", "open", "ending", "waiting"}
                                       /\ ~sock[s].torn}
  <2>1. chain \subseteq {run[t].socket}
    BY DEF ChainInv, LiveIsOwn, Live
  <2> HIDE DEF chain
  <2>2. IsFiniteSet({run[t].socket}) /\ Cardinality({run[t].socket}) = 1
    BY FS_Singleton
  <2>3. Cardinality(chain) <= Cardinality({run[t].socket})
    BY <2>1, <2>2, FS_Subset
  <2>4. Cardinality(chain) <= 1
    BY <2>2, <2>3
  <2> QED BY <2>4 DEF chain
<1> QED BY <1>1, ChainInvHolds, PTL

\* A step that ends the session, keeps the run's own socket, or starts a run that
\* has had no last word.
LastWordKept(t) == run[t].terminal /\ run'[t].terminal /\ auth[t].signedIn => run'[t].socket = run[t].socket

\* Only a run that may go on opens a socket: what would open one is not on its way
\* out, and the own socket of a run that has had the last word is.
LEMMA OpensAfterNoLastWord ==
    ASSUME ChainInv, NEW t \in Tabs, auth[t].signedIn, run[t].terminal, NEW s \in Sockets, Current(s)
    PROVE  sock[s].tab = t => sock[s].at \notin Awaiting
BY DEF ChainInv, TerminalEnds, Current, Awaiting

\* Other tabs' runs are left alone.
LEMMA OpensForOne ==
    ASSUME ChainInv, NEW t \in Tabs, NEW r \in Run, NEW sockets, Opens(t, r, sockets)
    PROVE  run'[t].terminal = r.terminal /\ \A u \in Tabs \ {t} : run'[u] = run[u]
<1>1. PICK n \in Sockets : run' = [run EXCEPT ![t] = [r EXCEPT !.socket = n]]
  BY DEF Opens
<1> QED BY <1>1 DEF ChainInv, Records, Run

LEMMA StartsAnew ==
    ASSUME ChainInv, NEW t \in Tabs, NEW u \in Tabs, Starts(u)
    PROVE  LastWordKept(t)
<1> DEFINE r == [Off EXCEPT !.on = TRUE, !.for = auth[u].token, !.url = auth[u].token]
<1>1. auth[u].token \in 0..MaxTokens
  BY MatchSocketAssumption DEF ChainInv, Records, Auth
<1>2. r \in Run /\ ~r.terminal
  BY <1>1, OffIsRun DEF Run
<1>3. Opens(u, r, TornDown(u))
  BY DEF Starts
<1> HIDE DEF r
<1>4. ~run'[u].terminal /\ \A v \in Tabs \ {u} : run'[v] = run[v]
  BY <1>2, <1>3, OpensForOne
<1> QED BY <1>4 DEF LastWordKept

LEMMA SocketKeepsLastWord ==
    ASSUME ChainInv, NEW t \in Tabs, NEW s \in Sockets, SocketStep(s) \/ NetworkDrop(s) \/ TableGone(s)
    PROVE  LastWordKept(t)
<1> DEFINE o == sock[s].tab
<1>1. run \in [Tabs -> Run] /\ sock[s].at # "closed"
  BY DEF ChainInv, Records, SocketStep, Accept, Refuse, OnClose, RenewAnswers, ProbeAnswers, TimerFires, NetworkDrop, TableGone
<1>2. o \in Tabs /\ run[o] \in Run
  BY <1>1, UsedIsTabs
<1>3. ASSUME \A u \in Tabs : run'[u].socket = run[u].socket PROVE LastWordKept(t)
  BY <1>3 DEF LastWordKept
<1>4. ASSUME NEW r \in Run, r.terminal = run[o].terminal, Current(s), sock[s].at \in Awaiting,
             Opens(o, r, [sock EXCEPT ![s] = [Closed EXCEPT !.tab = o]])
      PROVE  LastWordKept(t)
  <2>1. CASE t = o
    BY <1>4, <2>1, OpensAfterNoLastWord DEF LastWordKept
  <2>2. CASE t # o
    <3>1. run'[t] = run[t]
      BY <1>2, <1>4, <2>2, OpensForOne
    <3> QED BY <3>1 DEF LastWordKept
  <2> QED BY <2>1, <2>2
<1>5. CASE Accept(s)
  <2>1. run' = [run EXCEPT ![o].renewed = FALSE]
    BY <1>5 DEF Accept
  <2> QED BY <1>1, <1>3, <2>1 DEF Run
<1>6. CASE Refuse(s) \/ NetworkDrop(s)
  BY <1>3, <1>6 DEF Refuse, NetworkDrop
<1>7. CASE TableGone(s)
  <2>1. run' = [run EXCEPT ![o].terminal = TRUE]
    BY <1>7 DEF TableGone
  <2> QED BY <1>1, <1>3, <2>1 DEF Run
<1>8. CASE OnClose(s)
  <2>1. PICK terminal : run' = [run EXCEPT ![o].terminal = terminal]
    BY <1>8 DEF OnClose
  <2> QED BY <1>1, <1>3, <2>1 DEF Run
<1>9. CASE ProbeAnswers(s)
  <2>1. run' = [run EXCEPT ![o].timer = s] \/ run' = run
    BY <1>9 DEF ProbeAnswers
  <2> QED BY <1>1, <1>3, <2>1 DEF Run
<1>10. CASE TimerFires(s)
  <2>1. CASE sock[s].torn
    BY <1>3, <1>10, <2>1 DEF TimerFires
  <2>2. CASE ~sock[s].torn
    <3>1. sock[s].at = "waiting"
      BY <1>10 DEF TimerFires
    <3>2. Current(s)
      BY <2>2, <3>1 DEF ChainInv, LiveIsOwn, Live, Current
    <3>3. Opens(o, run[o], [sock EXCEPT ![s] = [Closed EXCEPT !.tab = o]])
      BY <1>10, <2>2, <3>2 DEF TimerFires
    <3> QED BY <1>2, <1>4, <3>1, <3>2, <3>3 DEF Awaiting
  <2> QED BY <2>1, <2>2
<1>11. CASE RenewAnswers(s)
  <2>1. sock[s].at \in Awaiting
    BY <1>11 DEF RenewAnswers, Awaiting
  <2>2. ASSUME NEW token \in 0..MaxTokens,
               Current(s), Opens(o, [run[o] EXCEPT !.renewed = TRUE, !.url = token], [sock EXCEPT ![s] = [Closed EXCEPT !.tab = o]])
        PROVE  LastWordKept(t)
    <3> DEFINE r == [run[o] EXCEPT !.renewed = TRUE, !.url = token]
    <3>1. r \in Run /\ r.terminal = run[o].terminal
      BY <1>2 DEF Run
    <3>2. Opens(o, r, [sock EXCEPT ![s] = [Closed EXCEPT !.tab = o]])
      BY <2>2
    <3> HIDE DEF r
    <3> QED BY <1>4, <2>1, <2>2, <3>1, <3>2
  <2>3. ASSUME NEW token, run' = [run EXCEPT ![o] = [run[o] EXCEPT !.renewed = TRUE, !.url = token]]
        PROVE  LastWordKept(t)
    <3>1. [run[o] EXCEPT !.renewed = TRUE, !.url = token].socket = run[o].socket
      BY <1>2 DEF Run
    <3>2. \A u \in Tabs : run'[u].socket = run[u].socket
      BY <1>1, <2>3, <3>1
    <3> QED BY <1>3, <3>2
  <2>4. CASE run' = run \/ run' = [run EXCEPT ![o].terminal = TRUE]
    BY <1>1, <1>3, <2>4 DEF Run
  <2>5. auth[o].token \in 0..MaxTokens /\ (auth[o].token < MaxTokens => auth[o].token + 1 \in 0..MaxTokens)
    BY <1>2, MatchSocketAssumption DEF ChainInv, Records, Auth
  <2>6. \/ run' = run \/ run' = [run EXCEPT ![o].terminal = TRUE]
        \/ \E token \in 0..MaxTokens :
             \/ Current(s) /\ Opens(o, [run[o] EXCEPT !.renewed = TRUE, !.url = token], [sock EXCEPT ![s] = [Closed EXCEPT !.tab = o]])
             \/ run' = [run EXCEPT ![o] = [run[o] EXCEPT !.renewed = TRUE, !.url = token]]
    BY <1>11, <2>5 DEF RenewAnswers
  <2> QED BY <2>2, <2>3, <2>4, <2>6
<1> QED BY <1>5, <1>6, <1>7, <1>8, <1>9, <1>10, <1>11 DEF SocketStep

\* After the last word a run opens no other socket, whatever it still had under way.
THEOREM LastWordIsFinalHolds == MatchSocketSpec => LastWordIsFinal
<1>1. ChainInv /\ [MatchSocketNext]_socketVars => [\A t \in Tabs : LastWordKept(t)]_socketVars
  <2> SUFFICES ASSUME ChainInv, MatchSocketNext, NEW t \in Tabs PROVE LastWordKept(t)
    OBVIOUS
  <2>1. CASE run' = run
    BY <2>1 DEF LastWordKept
  <2>2. ASSUME NEW s \in Sockets, SocketStep(s) \/ NetworkDrop(s) \/ TableGone(s) PROVE LastWordKept(t)
    BY <2>2, SocketKeepsLastWord
  <2>3. ASSUME NEW u \in Tabs, Enter(u) \/ Reclaim(u) \/ Rerun(u) PROVE LastWordKept(t)
    BY <2>3, StartsAnew DEF Enter, Reclaim, Rerun
  <2>4. ASSUME NEW u \in Tabs, Leave(u) PROVE LastWordKept(t)
    <3>1. run' = [run EXCEPT ![u] = Off]
      BY <2>4 DEF Leave
    <3> QED BY <3>1, OffIsRun DEF LastWordKept, ChainInv, Records
  <2>5. ASSUME NEW u \in Tabs, Foreground(u) PROVE LastWordKept(t)
    <3>1. PICK sockets : Opens(u, [run[u] EXCEPT !.timer = None], sockets)
      BY <2>5 DEF Foreground
    <3> DEFINE r == [run[u] EXCEPT !.timer = None]
    <3>2. r \in Run /\ r.terminal = run[u].terminal /\ ~run[u].terminal
      BY <2>5 DEF ChainInv, Records, Run, Foreground, MayReopen
    <3>3. Opens(u, r, sockets)
      BY <3>1
    <3> HIDE DEF r
    <3>4. ~run'[u].terminal /\ \A v \in Tabs \ {u} : run'[v] = run[v]
      BY <3>2, <3>3, OpensForOne
    <3> QED BY <3>4 DEF LastWordKept
  <2>6. ASSUME NEW u \in Tabs, Expire(u) \/ RefreshedElsewhere(u) PROVE LastWordKept(t)
    BY <2>1, <2>6 DEF Expire, RefreshedElsewhere
  <2>7. CASE ServerDown \/ ServerUp \/ Fills \/ Notices
    BY <2>1, <2>7 DEF ServerDown, ServerUp, Fills, Notices
  <2> QED BY <2>2, <2>3, <2>4, <2>5, <2>6, <2>7 DEF MatchSocketNext, Person, SignedOut
<1>2. [\A t \in Tabs : LastWordKept(t)]_socketVars
        => [\A t \in Tabs : run[t].terminal /\ run'[t].terminal /\ auth[t].signedIn
                             => run'[t].socket = run[t].socket]_socketVars
  BY DEF LastWordKept
<1> QED BY <1>1, <1>2, ChainInvHolds, PTL DEF MatchSocketSpec, LastWordIsFinal
=============================================================================
