------------------------------- MODULE Relay -------------------------------
(***************************************************************************)
(* A table on a phone, opened to the internet: the phone's link, the hub   *)
(* that pairs it with guests, and the guests' sockets                      *)
(* (src/server/internal/relay: relay.go, handlers.go;                      *)
(* src/server/mobile/zolikcore/relay.go).                                  *)
(*                                                                         *)
(* One phone.  A link is one opening of its door, from OpenRelay to        *)
(* CloseRelay; it has one session at a time, each on a connection of its   *)
(* own.  A connection carries what is written to it in order, each way; a  *)
(* cut loses what is under way, and each end finds out by itself.  What a  *)
(* call does under the table's lock is one step.  A code is the number of  *)
(* the table it was made for.                                              *)
(*                                                                         *)
(* Not here: what the sealed messages say (BleTunnel), how fast a guest    *)
(* may send, backoff.  Tables, links, connections and guests' sockets are  *)
(* used once each, which bounds the model.                                 *)
(***************************************************************************)
EXTENDS Integers, Sequences, FiniteSets

CONSTANTS
    Links,      \* openings of the phone's door
    Conns,      \* connections it makes
    Guests,     \* sockets of guests
    MaxTables,  \* bound: tables made
    MaxGuests,  \* guests a table takes
    MaxFlight,  \* bound: messages under way on a connection, each way
    NoOne

ASSUME RelayAssumption ==
    /\ MaxTables \in Nat \ {0} /\ MaxGuests \in Nat \ {0} /\ MaxFlight \in Nat \ {0}
    /\ NoOne \notin Links \cup Conns \cup Guests
    /\ IsFiniteSet(Guests)

VARIABLES
    door,     \* Host.relay: the phone's link, if its door is open
    link,     \* relayLink: not stopped, its code, the connection of the session
              \* that runs, the one that is online, and the tunnels by number
    wire,     \* each connection: "up", "hung" up by the phone, or "cut"
    down, up, \* what is under way to the phone, and from it
    handler,  \* Handlers.host of each connection: where it is, the code asked for,
              \* its table, and the connection it takes for its own
    table,    \* each table: its code, its host, the last number given
    hub,      \* byCode and byNode: the phone's table
    seat,     \* each guest's socket: its table, number, and the connection the
              \* phone was told of it on
    heard     \* history: whose tunnel each guest has heard from

relayVars == <<door, link, wire, down, up, handler, table, hub, seat, heard>>

Tables == 1..MaxTables
NoTable == 0
NoCode == 0

Msg(kind, id, g) == [kind |-> kind, id |-> id, guest |-> g]
Plain(kind) == Msg(kind, 0, NoOne)

Outside == [at |-> "out", table |-> NoTable, id |-> 0, via |-> NoOne]

RelayInit ==
    /\ door = NoOne
    /\ link = [l \in Links |-> [on |-> FALSE, code |-> NoCode, session |-> NoOne, ws |-> NoOne, tunnels |-> {}]]
    /\ wire = [c \in Conns |-> "none"]
    /\ down = [c \in Conns |-> <<>>] /\ up = [c \in Conns |-> <<>>]
    /\ handler = [c \in Conns |-> [at |-> "none", want |-> NoCode, table |-> NoTable, as |-> NoOne]]
    /\ table = [t \in Tables |-> [code |-> NoCode, host |-> NoOne, next |-> 0]]
    /\ hub = NoTable
    /\ seat = [g \in Guests |-> Outside] /\ heard = [g \in Guests |-> {}]

GuestsOf(t) == {g \in Guests : seat[g].at = "in" /\ seat[g].table = t}

\* Bound: there is room on the wires.
Room == \A c \in Conns : Len(down[c]) < MaxFlight /\ Len(up[c]) < MaxFlight

\* What is written to a connection that is gone is lost.
DownWith(c, msg) == IF c # NoOne /\ wire[c] = "up" THEN [down EXCEPT ![c] = Append(@, msg)] ELSE down
UpWith(c, msg) == IF wire[c] = "up" THEN [up EXCEPT ![c] = Append(@, msg)] ELSE up

-----------------------------------------------------------------------------
(* The phone *)

OpenRelay(l) ==
    /\ door = NoOne /\ ~link[l].on /\ link[l].code = NoCode /\ link[l].session = NoOne
    /\ door' = l /\ link' = [link EXCEPT ![l].on = TRUE]
    /\ UNCHANGED <<wire, down, up, handler, table, hub, seat, heard>>

\* session: the phone dials, and the upgrade is let through.
Dial(l, c) ==
    /\ link[l].on /\ link[l].session = NoOne /\ wire[c] = "none"
    /\ link' = [link EXCEPT ![l].session = c]
    /\ wire' = [wire EXCEPT ![c] = "up"]
    /\ handler' = [handler EXCEPT ![c].at = "upgraded", ![c].want = link[l].code]
    /\ UNCHANGED <<door, down, up, table, hub, seat, heard>>

\* run, once a session is over: the tunnels are closed, unless the door is shut.
\* (Each tells the relay, if it can; it cannot.)
SessionOver(k) == [k EXCEPT !.session = NoOne, !.ws = NoOne, !.tunnels = IF k.on THEN {} ELSE @]

\* The connection is found dead.
PhoneSees(l) ==
    /\ link[l].session # NoOne /\ wire[link[l].session] # "up"
    /\ link' = [link EXCEPT ![l] = SessionOver(@)]
    /\ UNCHANGED <<door, wire, down, up, handler, table, hub, seat, heard>>

\* The code does not come in time, or something else comes before it.
GivesUp(l) ==
    LET c == link[l].session IN
    /\ c # NoOne /\ link[l].ws = NoOne /\ wire[c] = "up"
    /\ down[c] # <<>> => Head(down[c]).kind # "code"
    /\ link' = [link EXCEPT ![l] = SessionOver(@)]
    /\ wire' = [wire EXCEPT ![c] = "hung"] /\ down' = [down EXCEPT ![c] = <<>>]
    /\ UNCHANGED <<door, up, handler, table, hub, seat, heard>>

\* What a message does to the link.
AfterMessage(k, c, msg) ==
    CASE msg.kind = "code"  -> [k EXCEPT !.ws = c, !.code = msg.id]
      [] msg.kind = "open"  -> [k EXCEPT !.tunnels = {u \in @ : u.id # msg.id} \cup {[id |-> msg.id, guest |-> msg.guest]}]
      [] msg.kind = "close" -> [k EXCEPT !.tunnels = {u \in @ : u.id # msg.id}]
      [] OTHER -> k

\* The session's loop reads a message.  One for a tunnel may be answered, to the
\* number the tunnel has; one for no tunnel is dropped.
PhoneReads(l) ==
    LET c == link[l].session
        msg == Head(down[c])
        tunnels == {u \in link[l].tunnels : msg.kind = "frame" /\ u.id = msg.id}
    IN
    /\ c # NoOne /\ wire[c] = "up" /\ down[c] # <<>>
    /\ link[l].ws = NoOne => msg.kind = "code"
    /\ link' = [link EXCEPT ![l] = AfterMessage(@, c, msg)]
    /\ down' = [down EXCEPT ![c] = Tail(@)]
    /\ up' = IF tunnels = {} THEN up
             ELSE LET u == CHOOSE u \in tunnels : TRUE IN UpWith(c, Msg("frame", u.id, u.guest))
    /\ UNCHANGED <<door, wire, handler, table, hub, seat, heard>>

\* A tunnel ends on this side, and TunnelClosed hangs up its guest.
TunnelEnds(l, u) ==
    /\ u \in link[l].tunnels /\ link[l].ws # NoOne
    /\ link' = [link EXCEPT ![l].tunnels = @ \ {u}]
    /\ up' = UpWith(link[l].ws, Msg("close", u.id, NoOne))
    /\ UNCHANGED <<door, wire, down, handler, table, hub, seat, heard>>

\* The door is shut.  A session that is not online yet is not looked for.
CloseRelay ==
    LET c == link[door].ws IN
    /\ door # NoOne /\ door' = NoOne
    /\ link' = [link EXCEPT ![door].on = FALSE, ![door].tunnels = {}]
    /\ IF c = NoOne THEN UNCHANGED <<wire, up, down>>
       ELSE /\ up' = UpWith(c, Plain("end"))
            /\ wire' = [wire EXCEPT ![c] = IF @ = "up" THEN "hung" ELSE @]
            /\ down' = [down EXCEPT ![c] = <<>>]
    /\ UNCHANGED <<handler, table, hub, seat, heard>>

\* The network loses the connection, with what is under way.
Cut(c) ==
    /\ wire[c] = "up" /\ wire' = [wire EXCEPT ![c] = "cut"]
    /\ down' = [down EXCEPT ![c] = <<>>] /\ up' = [up EXCEPT ![c] = <<>>]
    /\ UNCHANGED <<door, link, handler, table, hub, seat, heard>>

-----------------------------------------------------------------------------
(* The relay's end of a phone's connection *)

\* A mistake for the checks: numbers begin again with each connection.
Renumbered(t, c) == [table[t] EXCEPT !.host = c, !.next = 0]

\* The connection is the table's host.
HostedBy(t, c) == [table[t] EXCEPT !.host = c]

\* The handler is of the table from now on.
Serves(c, t) == handler' = [handler EXCEPT ![c].at = "attached", ![c].table = t]

\* The connection takes the place of the one the phone's table has, if any,
\* which is closed.
TakesOver(c) ==
    LET old == table[hub].host IN
    /\ hub # NoTable /\ UNCHANGED hub
    /\ table' = [table EXCEPT ![hub] = HostedBy(hub, c)]
    /\ IF old = NoOne THEN UNCHANGED <<wire, down>>
       ELSE /\ wire' = [wire EXCEPT ![old] = IF @ = "up" THEN "cut" ELSE @]
            /\ down' = [down EXCEPT ![old] = <<>>]
    /\ Serves(c, hub)

\* A table is made, under the code the phone asks for if it has one.
NewTable(c, t) ==
    /\ hub # NoTable => table[hub].host = NoOne
    /\ table[t].code = NoCode /\ \A s \in Tables : s < t => table[s].code # NoCode
    /\ hub' = t
    /\ table' = [table EXCEPT ![t] = [code |-> IF handler[c].want = NoCode THEN t ELSE handler[c].want,
                                      host |-> c, next |-> 0]]
    /\ Serves(c, t) /\ UNCHANGED <<wire, down>>

\* attachHost: the phone's table, unless it has been away too long (swept), or
\* a new one.
Attach(c) ==
    /\ handler[c].at = "upgraded"
    /\ TakesOver(c) \/ \E t \in Tables : NewTable(c, t)
    /\ UNCHANGED <<door, link, up, seat, heard>>

\* The handler reads back which connection it serves, and sends it the code.
\* With none there, it dies of it.
Named(c) ==
    LET t == handler[c].table  h == table[t].host IN
    /\ handler[c].at = "attached" /\ Room
    /\ handler' = [handler EXCEPT ![c].at = IF h = NoOne THEN "dead" ELSE "serving", ![c].as = h]
    /\ down' = DownWith(h, Msg("code", table[t].code, NoOne))
    /\ UNCHANGED <<door, link, wire, up, table, hub, seat, heard>>

\* hostGone: the connection is still the table's host.
IsHost(t, c) == table[t].host = c

\* hostGone, under the table's lock: every guest is let go.
HostGone(c, ended) ==
    LET t == handler[c].table IN
    /\ IF IsHost(t, handler[c].as)
         THEN /\ table' = [table EXCEPT ![t].host = NoOne]
              /\ seat' = [g \in Guests |-> IF g \in GuestsOf(t) THEN [seat[g] EXCEPT !.at = "closed"] ELSE seat[g]]
              /\ handler' = [handler EXCEPT ![c].at = IF ended THEN "ending" ELSE "over"]
         ELSE /\ handler' = [handler EXCEPT ![c].at = "over"]
              /\ UNCHANGED <<table, seat>>
    /\ UNCHANGED <<door, link, wire, hub>>

\* The read fails: what the phone sent before it hung up has been read.
HandlerEnds(c) ==
    /\ handler[c].at = "serving" /\ wire[c] # "up" /\ up[c] = <<>>
    /\ HostGone(c, FALSE)
    /\ UNCHANGED <<down, up, heard>>

\* The phone says the door is shut.
HandlerHearsEnd(c) ==
    /\ handler[c].at = "serving" /\ up[c] # <<>> /\ Head(up[c]).kind = "end"
    /\ up' = [up EXCEPT ![c] = Tail(@)]
    /\ HostGone(c, TRUE)
    /\ UNCHANGED <<down, heard>>

\* hostGone, under the hub's lock, the guests' sockets having been closed.
Forget(c) ==
    /\ handler[c].at = "ending"
    /\ hub' = IF hub = handler[c].table THEN NoTable ELSE hub
    /\ handler' = [handler EXCEPT ![c].at = "over"]
    /\ UNCHANGED <<door, link, wire, down, up, table, seat, heard>>

\* fromHost and hangUp: a message of the phone for one of its table's guests.
Carry(c) ==
    LET msg == Head(up[c])
        to == {g \in GuestsOf(handler[c].table) : seat[g].id = msg.id}
    IN
    /\ handler[c].at = "serving" /\ up[c] # <<>> /\ msg.kind # "end"
    /\ up' = [up EXCEPT ![c] = Tail(@)]
    /\ heard' = [g \in Guests |-> IF g \in to /\ msg.kind = "frame" THEN heard[g] \cup {msg.guest} ELSE heard[g]]
    /\ seat' = [g \in Guests |-> IF g \in to /\ msg.kind = "close" THEN [seat[g] EXCEPT !.at = "closed"] ELSE seat[g]]
    /\ UNCHANGED <<door, link, wire, down, handler, table, hub>>

-----------------------------------------------------------------------------
(* Guests *)

\* addGuest.  (The code is looked up before the table is locked; one that is
\* forgotten in between has no host.)
Join(g) ==
    LET t == hub  id == table[t].next + 1 IN
    /\ seat[g].at = "out" /\ Room
    /\ t # NoTable /\ table[t].host # NoOne /\ Cardinality(GuestsOf(t)) < MaxGuests
    /\ seat' = [seat EXCEPT ![g] = [at |-> "in", table |-> t, id |-> id, via |-> table[t].host]]
    /\ table' = [table EXCEPT ![t].next = id]
    /\ down' = DownWith(table[t].host, Msg("open", id, g))
    /\ UNCHANGED <<door, link, wire, up, handler, hub, heard>>

\* A mistake for the checks: the phone is not told.
LeavesQuietly(g) == down

\* dropGuest tells the phone that has the table now.
LeaveIsTold(g) == DownWith(table[seat[g].table].host, Msg("close", seat[g].id, NoOne))

\* dropGuest.
GuestLeaves(g) ==
    /\ seat[g].at = "in" /\ Room
    /\ seat' = [seat EXCEPT ![g].at = "closed"]
    /\ down' = LeaveIsTold(g)
    /\ UNCHANGED <<door, link, wire, up, handler, table, hub, heard>>

\* fromGuest: to the phone that has the table now.  (With none, the guest's
\* handler leaves.)
GuestSends(g) ==
    LET h == table[seat[g].table].host IN
    /\ seat[g].at = "in" /\ Room
    /\ IF h = NoOne THEN seat' = [seat EXCEPT ![g].at = "closed"] /\ UNCHANGED down
       ELSE down' = DownWith(h, Msg("frame", seat[g].id, g)) /\ UNCHANGED seat
    /\ UNCHANGED <<door, link, wire, up, handler, table, hub, heard>>

-----------------------------------------------------------------------------
RelayNext ==
    \/ \E l \in Links :
          \/ OpenRelay(l) \/ PhoneSees(l) \/ GivesUp(l) \/ PhoneReads(l)
          \/ \E c \in Conns : Dial(l, c)
          \/ \E u \in link[l].tunnels : TunnelEnds(l, u)
    \/ CloseRelay
    \/ \E c \in Conns :
          Cut(c) \/ Attach(c) \/ Named(c) \/ HandlerEnds(c) \/ HandlerHearsEnd(c) \/ Forget(c) \/ Carry(c)
    \/ \E g \in Guests : Join(g) \/ GuestLeaves(g) \/ GuestSends(g)

RelaySpec == RelayInit /\ [][RelayNext]_relayVars

-----------------------------------------------------------------------------
(* Properties *)

RelayTypeOK ==
    /\ door \in Links \cup {NoOne}
    /\ \A l \in Links :
          /\ link[l].session \in Conns \cup {NoOne} /\ link[l].ws \in {NoOne, link[l].session}
          /\ link[l].code \in Tables \cup {NoCode} /\ link[l].on \in BOOLEAN
          /\ \A u \in link[l].tunnels : u.id \in 1..Cardinality(Guests) /\ u.guest \in Guests
    /\ wire \in [Conns -> {"none", "up", "hung", "cut"}]
    /\ handler \in [Conns -> [at : {"none", "upgraded", "attached", "serving", "ending", "over", "dead"},
                              want : Tables \cup {NoCode}, table : Tables \cup {NoTable}, as : Conns \cup {NoOne}]]
    /\ table \in [Tables -> [code : Tables \cup {NoCode}, host : Conns \cup {NoOne}, next : 0..Cardinality(Guests)]]
    /\ hub \in Tables \cup {NoTable}
    /\ seat \in [Guests -> [at : {"out", "in", "closed"}, table : Tables \cup {NoTable},
                            id : 0..Cardinality(Guests), via : Conns \cup {NoOne}]]

\* A guest never hears from a tunnel that is not their own, whatever connections
\* take one another's place: what the phone sends to a number reaches the
\* socket the tunnel was opened for.
NoCrossTalk == \A g \in Guests : heard[g] \subseteq {g}

\* The phone and the relay agree on who is there: once what is under way has
\* arrived, a connection that is the table's host, and online at the phone, has a
\* tunnel for each guest announced on it who is still there, and for no other.
EndsAgree ==
    \A t \in Tables, l \in Links :
        LET c == link[l].ws IN
        c # NoOne /\ table[t].host = c /\ wire[c] = "up" /\ down[c] = <<>> /\ up[c] = <<>>
          => link[l].tunnels = {[id |-> seat[g].id, guest |-> g] : g \in {k \in GuestsOf(t) : seat[k].via = c}}

\* A guest's socket goes with the phone's connection it came in on.
GuestsGoWithTheirPhone ==
    \A g \in Guests : seat[g].at = "in" => handler[seat[g].via].at # "over"

=============================================================================
