----------------------------- MODULE RelayProofs -----------------------------
(***************************************************************************)
(* Proofs that a guest of a relayed table hears from their own tunnel      *)
(* only, and that the phone and the relay agree on who is there.           *)
(*                                                                         *)
(* The reason for the first is in the numbers: a table gives each guest a  *)
(* number it has never given, keeps the count through every change of its  *)
(* phone's connection, and a connection is of one table for good.  So      *)
(* whatever is on a wire, or kept by the phone for the connection of its   *)
(* session, says of a number what the connection's table says of it; and a *)
(* link that is between two sessions keeps nothing.                        *)
(*                                                                         *)
(* The second follows a guest from being announced on a connection to      *)
(* being gone on both sides of it, and needs that a connection carries     *)
(* things in order: nothing about a number is ahead of its announcement.   *)
(***************************************************************************)
EXTENDS Relay, FiniteSetTheorems, TLAPS

Kinds == {"code", "open", "close", "frame", "end"}
Messages == [kind : Kinds, id : Nat, guest : Guests \cup {NoOne}]
TunnelSets == SUBSET [id : Nat, guest : Guests \cup {NoOne}]
LinkStates == [on : BOOLEAN, code : Nat, session : Conns \cup {NoOne}, ws : Conns \cup {NoOne},
               tunnels : TunnelSets]
HandlerStates == [at : {"none", "upgraded", "attached", "serving", "ending", "over", "dead"},
                  want : Nat, table : Tables \cup {NoTable}, as : Conns \cup {NoOne}]
TableStates == [code : Nat, host : Conns \cup {NoOne}, next : Nat]
SeatStates == [at : {"out", "in", "closed"}, table : Tables \cup {NoTable}, id : Nat, via : Conns \cup {NoOne}]

\* The types, without the bounds that the number of guests sets.
Types ==
    /\ door \in Links \cup {NoOne}
    /\ link \in [Links -> LinkStates]
    /\ wire \in [Conns -> {"none", "up", "hung", "cut"}]
    /\ down \in [Conns -> Seq(Messages)] /\ up \in [Conns -> Seq(Messages)]
    /\ handler \in [Conns -> HandlerStates]
    /\ table \in [Tables -> TableStates]
    /\ hub \in Tables \cup {NoTable}
    /\ seat \in [Guests -> SeatStates]
    /\ heard \in [Guests -> SUBSET (Guests \cup {NoOne})]

\* The number is the guest's at the table.
Right(t, id, g) == g \in Guests /\ seat[g].at # "out" /\ seat[g].table = t /\ seat[g].id = id

\* A table's numbers are counted, and given once.
Numbers ==
    /\ \A g \in Guests : seat[g].at # "out" =>
          seat[g].table \in Tables /\ seat[g].id <= table[seat[g].table].next /\ table[seat[g].table].code # NoCode
    /\ \A g, k \in Guests :
          seat[g].at # "out" /\ seat[k].at # "out" /\ seat[g].table = seat[k].table /\ seat[g].id = seat[k].id => g = k

\* A host's handler is of the table it hosts; a table in use has a code.
Hosts ==
    /\ \A t \in Tables : table[t].host # NoOne => handler[table[t].host].table = t /\ table[t].code # NoCode
    /\ hub # NoTable => table[hub].code # NoCode
    /\ \A c \in Conns : handler[c].at \in {"none", "upgraded"} <=> handler[c].table = NoTable
    /\ \A c \in Conns : wire[c] = "none" => handler[c].at = "none"

\* What is in a sequence.
Under(s) == {s[i] : i \in 1..Len(s)}

\* What may be on its way to the phone on a connection, and from it.
MayGoDown(c, msg) ==
    /\ msg.kind = "open" => Right(handler[c].table, msg.id, msg.guest)
    /\ msg.kind = "code" => msg.id # NoCode
MayGoUp(c, msg) == msg.kind = "frame" => Right(handler[c].table, msg.id, msg.guest)

Wires ==
    /\ \A c \in Conns : \A msg \in Under(down[c]) : MayGoDown(c, msg)
    /\ \A c \in Conns : \A msg \in Under(up[c]) : MayGoUp(c, msg)

\* What a link keeps.
Fits(k) ==
    /\ k.on /\ k.session = NoOne => k.tunnels = {}
    /\ k.ws # NoOne \/ k.tunnels # {} => k.code # NoCode
    /\ k.session # NoOne => \A u \in k.tunnels : Right(handler[k.session].table, u.id, u.guest)

LinksOK == \A l \in Links : Fits(link[l])

RelayInv == Types /\ Numbers /\ Hosts /\ Wires /\ LinksOK /\ NoCrossTalk

-----------------------------------------------------------------------------
(* Numbers and sequences *)

LEMMA TableNumbers == Tables \subseteq Nat /\ 0 \notin Tables /\ NoTable = 0 /\ NoCode = 0
    BY RelayAssumption DEF Tables, NoTable, NoCode

LEMMA UnderAppend == ASSUME NEW s \in Seq(Messages), NEW m \in Messages
                     PROVE  Append(s, m) \in Seq(Messages) /\ Under(Append(s, m)) \subseteq Under(s) \cup {m}
<1>1. Len(Append(s, m)) = Len(s) + 1 /\ \A i \in 1..Len(s) : Append(s, m)[i] = s[i]
    OBVIOUS
<1>2. Append(s, m)[Len(s) + 1] = m
    OBVIOUS
<1>3. \A i \in 1..(Len(s) + 1) : i \in 1..Len(s) \/ i = Len(s) + 1
    OBVIOUS
<1> QED
    BY <1>1, <1>2, <1>3 DEF Under

LEMMA UnderHead == ASSUME NEW s \in Seq(Messages), s # <<>>
                   PROVE  /\ Head(s) \in Messages /\ Head(s) \in Under(s)
                          /\ Tail(s) \in Seq(Messages) /\ Under(Tail(s)) \subseteq Under(s)
<1>1. Head(s) = s[1] /\ Head(s) \in Messages /\ Tail(s) \in Seq(Messages) /\ 1 \in 1..Len(s)
    OBVIOUS
<1>2. Len(Tail(s)) = Len(s) - 1 /\ \A i \in 1..(Len(s) - 1) : Tail(s)[i] = s[i + 1] /\ i + 1 \in 1..Len(s)
    OBVIOUS
<1> QED
    BY <1>1, <1>2 DEF Under

LEMMA UnderNone == Under(<<>>) = {} /\ <<>> \in Seq(Messages)
    BY DEF Under

LEMMA MsgIsMessage == ASSUME NEW k \in Kinds, NEW n \in Nat, NEW g \in Guests \cup {NoOne}
                      PROVE  Msg(k, n, g) \in Messages /\ Msg(k, n, g).kind = k /\ Msg(k, n, g).id = n /\ Msg(k, n, g).guest = g
    BY DEF Msg, Messages

\* What is written to a connection is behind what was on its way, or lost.
LEMMA DownWritten == ASSUME Types, NEW c, NEW m \in Messages
                     PROVE  /\ DownWith(c, m) \in [Conns -> Seq(Messages)]
                            /\ \A k \in Conns : \A x \in Under(DownWith(c, m)[k]) : x \in Under(down[k]) \/ (k = c /\ x = m)
<1>1. CASE c \in Conns
    <2>1. down[c] \in Seq(Messages)
        BY <1>1 DEF Types
    <2> QED
        BY <1>1, <2>1, UnderAppend DEF DownWith, Types
<1>2. CASE c \notin Conns
    BY <1>2 DEF DownWith, Types
<1> QED
    BY <1>1, <1>2

LEMMA UpWritten == ASSUME Types, NEW c, NEW m \in Messages
                   PROVE  /\ UpWith(c, m) \in [Conns -> Seq(Messages)]
                          /\ \A k \in Conns : \A x \in Under(UpWith(c, m)[k]) : x \in Under(up[k]) \/ (k = c /\ x = m)
<1>1. CASE c \in Conns
    <2>1. up[c] \in Seq(Messages)
        BY <1>1 DEF Types
    <2> QED
        BY <1>1, <2>1, UnderAppend DEF UpWith, Types
<1>2. CASE c \notin Conns
    BY <1>2 DEF UpWith, Types
<1> QED
    BY <1>1, <1>2

-----------------------------------------------------------------------------
(* What steps have in common *)

\* No seat is given up or given another number, and no handler another table.
Kept ==
    /\ \A g \in Guests : seat[g].at # "out" =>
          seat'[g].at # "out" /\ seat'[g].table = seat[g].table /\ seat'[g].id = seat[g].id
    /\ \A c \in Conns : handler[c].table # NoTable => handler'[c].table = handler[c].table

\* No number is a guest's at no table.
LEMMA NowhereIsNobody == ASSUME RelayInv, NEW n, NEW g PROVE ~Right(NoTable, n, g)
    BY TableNumbers DEF RelayInv, Numbers, Right

\* What is right of a connection's table stays right of it.
LEMMA StaysRight == ASSUME RelayInv, Kept, NEW c \in Conns, NEW n, NEW g, Right(handler[c].table, n, g)
                    PROVE  Right(handler[c].table, n, g)' /\ handler'[c].table = handler[c].table
<1>1. handler[c].table # NoTable
    BY NowhereIsNobody
<1> QED
    BY <1>1 DEF Right, Kept

\* So the wires are right if what is new on them is.
LEMMA WiresKeep ==
    ASSUME RelayInv, Kept,
           \A c \in Conns : \A msg \in Under(down'[c]) : msg \in Under(down[c]) \/ MayGoDown(c, msg)',
           \A c \in Conns : \A msg \in Under(up'[c]) : msg \in Under(up[c]) \/ MayGoUp(c, msg)'
    PROVE  Wires'
<1>1. ASSUME NEW c \in Conns, NEW msg \in Under(down'[c]) PROVE MayGoDown(c, msg)'
    <2>1. MayGoDown(c, msg) => MayGoDown(c, msg)'
        BY StaysRight DEF MayGoDown
    <2> QED
        BY <2>1 DEF RelayInv, Wires
<1>2. ASSUME NEW c \in Conns, NEW msg \in Under(up'[c]) PROVE MayGoUp(c, msg)'
    <2>1. MayGoUp(c, msg) => MayGoUp(c, msg)'
        BY StaysRight DEF MayGoUp
    <2> QED
        BY <2>1 DEF RelayInv, Wires
<1> QED
    BY <1>1, <1>2 DEF Wires

\* A link in order stays in order.
LEMMA FitsStill == ASSUME RelayInv, Kept, NEW k \in LinkStates, Fits(k) PROVE Fits(k)'
<1>1. k.session \in Conns \cup {NoOne}
    BY DEF LinkStates
<1> QED
    BY <1>1, StaysRight DEF Fits

LEMMA LinksKeep == ASSUME RelayInv, Kept, link' = link PROVE LinksOK'
<1>1. \A l \in Links : Fits(link[l])'
    BY FitsStill DEF RelayInv, LinksOK, Types
<1> QED
    BY <1>1 DEF LinksOK

\* A change of one link, of one handler.
LEMMA LinkChanged == ASSUME Types, NEW l \in Links, NEW k \in LinkStates, link' = [link EXCEPT ![l] = k]
                     PROVE  /\ link' \in [Links -> LinkStates] /\ link'[l] = k
                            /\ \A m \in Links \ {l} : link'[m] = link[m]
    BY DEF Types

LEMMA LinkUpdates ==
    ASSUME NEW k \in LinkStates
    PROVE  /\ [k EXCEPT !.on = TRUE] \in LinkStates
           /\ \A c \in Conns : [k EXCEPT !.session = c] \in LinkStates
           /\ \A T \in TunnelSets : /\ [k EXCEPT !.tunnels = T] \in LinkStates
                                    /\ [k EXCEPT !.on = FALSE, !.tunnels = T] \in LinkStates
                                    /\ [k EXCEPT !.session = NoOne, !.ws = NoOne, !.tunnels = T] \in LinkStates
    BY DEF LinkStates

LEMMA HandlerChanged == ASSUME Types, NEW c \in Conns, NEW h \in HandlerStates, handler' = [handler EXCEPT ![c] = h]
                        PROVE  /\ handler' \in [Conns -> HandlerStates] /\ handler'[c] = h
                               /\ \A k \in Conns \ {c} : handler'[k] = handler[k]
    BY DEF Types

-----------------------------------------------------------------------------
(* The initial state *)

LEMMA RelayInitInv == RelayInit => RelayInv
<1> SUFFICES ASSUME RelayInit PROVE RelayInv
    OBVIOUS
<1>1. Types
    BY UnderNone DEF RelayInit, Types, LinkStates, TunnelSets, HandlerStates, TableStates, SeatStates, Outside, NoTable, NoCode
<1>2. Numbers /\ Hosts
    BY DEF RelayInit, Numbers, Hosts, Outside
<1>3. Wires
    BY UnderNone DEF RelayInit, Wires
<1>4. LinksOK /\ NoCrossTalk
    BY DEF RelayInit, LinksOK, Fits, NoCrossTalk
<1> QED
    BY <1>1, <1>2, <1>3, <1>4 DEF RelayInv

-----------------------------------------------------------------------------
(* The phone's steps *)

\* The wires, when they are only read, cut, or written what is right.
WiresFrom ==
    /\ wire' \in [Conns -> {"none", "up", "hung", "cut"}]
    /\ down' \in [Conns -> Seq(Messages)] /\ up' \in [Conns -> Seq(Messages)]
    /\ \A c \in Conns : wire'[c] = "none" => wire[c] = "none"
    /\ \A c \in Conns : \A msg \in Under(down'[c]) : msg \in Under(down[c]) \/ MayGoDown(c, msg)'
    /\ \A c \in Conns : \A msg \in Under(up'[c]) : msg \in Under(up[c]) \/ MayGoUp(c, msg)'

\* A step that changes one link, and no table or seat.
LEMMA LinkStep ==
    ASSUME RelayInv, Kept, Types', NEW l \in Links, NEW k \in LinkStates, Fits(k), link' = [link EXCEPT ![l] = k],
           WiresFrom, Hosts', UNCHANGED <<table, seat, heard>>
    PROVE  RelayInv'
<1>1. Wires'
    BY WiresKeep DEF WiresFrom
<1>2. Numbers' /\ NoCrossTalk'
    BY DEF RelayInv, Numbers, NoCrossTalk
<1>3. ASSUME NEW m \in Links PROVE Fits(link[m])'
    <2>1. link'[m] = IF m = l THEN k ELSE link[m]
        BY <1>3 DEF RelayInv, Types
    <2>2. link[m] \in LinkStates /\ Fits(link[m])
        BY <1>3 DEF RelayInv, Types, LinksOK
    <2>3. Fits(k)'
        BY FitsStill
    <2>4. k.session \in Conns \cup {NoOne} /\ link[m].session \in Conns \cup {NoOne}
        BY <2>2 DEF LinkStates
    <2> QED
        BY <2>1, <2>2, <2>3, <2>4, StaysRight DEF Fits
<1> QED
    BY <1>1, <1>2, <1>3 DEF RelayInv, LinksOK

\* One that leaves the relay's end alone.
LEMMA PhoneStep ==
    ASSUME RelayInv, NEW l \in Links, NEW k \in LinkStates, Fits(k), link' = [link EXCEPT ![l] = k],
           door' \in Links \cup {NoOne}, WiresFrom, UNCHANGED <<handler, table, hub, seat, heard>>
    PROVE  RelayInv'
<1>1. Kept
    BY DEF Kept
<1>2. Types'
    BY LinkChanged DEF RelayInv, Types, WiresFrom
<1>3. Hosts'
    BY DEF RelayInv, Hosts, WiresFrom
<1> QED
    BY <1>1, <1>2, <1>3, LinkStep

LEMMA SameWires == ASSUME RelayInv, UNCHANGED <<wire, down, up>> PROVE WiresFrom
    BY DEF RelayInv, Types, WiresFrom

\* A link that has never been online keeps no tunnels.
LEMMA OpenKeeps == ASSUME RelayInv, NEW l \in Links, OpenRelay(l) PROVE RelayInv'
<1> DEFINE k == [link[l] EXCEPT !.on = TRUE]
<1>1. link[l] \in LinkStates /\ Fits(link[l]) /\ link' = [link EXCEPT ![l] = k]
    BY DEF RelayInv, Types, LinksOK, OpenRelay
<1>2. k \in LinkStates
    BY <1>1, LinkUpdates
<1>3. link[l].code = NoCode /\ link[l].session = NoOne
    BY DEF OpenRelay
<1>4. Fits(k)
    BY <1>1, <1>3 DEF Fits, LinkStates
<1> QED
    BY <1>1, <1>2, <1>4, PhoneStep, SameWires DEF OpenRelay

\* An end of a session leaves nothing, or nothing that is looked at.
LEMMA OverFits == ASSUME RelayInv, NEW l \in Links
                  PROVE  SessionOver(link[l]) \in LinkStates /\ Fits(SessionOver(link[l]))
<1>1. link[l] \in LinkStates /\ Fits(link[l]) /\ {} \in TunnelSets
    BY DEF RelayInv, Types, LinksOK, TunnelSets
<1>2. SessionOver(link[l]) = [link[l] EXCEPT !.session = NoOne, !.ws = NoOne, !.tunnels = IF link[l].on THEN {} ELSE link[l].tunnels]
    BY DEF SessionOver
<1>3. (IF link[l].on THEN {} ELSE link[l].tunnels) \in TunnelSets
    BY <1>1 DEF LinkStates
<1>4. SessionOver(link[l]) \in LinkStates
    BY <1>1, <1>2, <1>3, LinkUpdates
<1>5. Fits(SessionOver(link[l]))
    BY <1>1, <1>2 DEF Fits, LinkStates
<1> QED
    BY <1>4, <1>5

LEMMA SeesKeeps == ASSUME RelayInv, NEW l \in Links, PhoneSees(l) PROVE RelayInv'
<1>1. link' = [link EXCEPT ![l] = SessionOver(link[l])]
    BY DEF PhoneSees
<1> QED
    BY <1>1, OverFits, PhoneStep, SameWires DEF PhoneSees, RelayInv, Types

LEMMA GivesUpKeeps == ASSUME RelayInv, NEW l \in Links, GivesUp(l) PROVE RelayInv'
<1> DEFINE c == link[l].session
<1>1. link' = [link EXCEPT ![l] = SessionOver(link[l])] /\ c \in Conns
    BY DEF GivesUp, RelayInv, Types, LinkStates
<1>2. WiresFrom
    BY <1>1, UnderNone DEF GivesUp, WiresFrom, RelayInv, Types
<1> QED
    BY <1>1, <1>2, OverFits, PhoneStep DEF GivesUp, RelayInv, Types

LEMMA CloseKeeps == ASSUME RelayInv, CloseRelay PROVE RelayInv'
<1> DEFINE c == link[door].ws
<1> DEFINE k == [link[door] EXCEPT !.on = FALSE, !.tunnels = {}]
<1>1. door \in Links /\ link[door] \in LinkStates /\ Fits(link[door]) /\ {} \in TunnelSets
    BY DEF CloseRelay, RelayInv, Types, LinksOK, TunnelSets
<1>2. link' = [link EXCEPT ![door] = k] /\ k \in LinkStates
    BY <1>1, LinkUpdates DEF CloseRelay
<1>3. Fits(k)
    BY <1>1 DEF Fits, LinkStates
<1>4. WiresFrom
    <2>1. CASE c = NoOne
        BY <2>1, SameWires DEF CloseRelay
    <2>2. CASE c # NoOne
        <3>1. Plain("end") \in Messages /\ Plain("end").kind = "end"
            BY MsgIsMessage DEF Plain, Kinds
        <3>2. c \in Conns
            BY <1>1, <2>2 DEF LinkStates
        <3>3. up' = UpWith(c, Plain("end"))
            BY <2>2 DEF CloseRelay
        <3>4. /\ up' \in [Conns -> Seq(Messages)]
              /\ \A e \in Conns : \A msg \in Under(up'[e]) : msg \in Under(up[e]) \/ MayGoUp(e, msg)'
            <4>1. /\ UpWith(c, Plain("end")) \in [Conns -> Seq(Messages)]
                  /\ \A e \in Conns : \A x \in Under(UpWith(c, Plain("end"))[e]) : x \in Under(up[e]) \/ x = Plain("end")
                BY <3>1, UpWritten DEF RelayInv
            <4>2. \A e \in Conns : MayGoUp(e, Plain("end"))'
                BY <3>1 DEF MayGoUp
            <4> QED
                BY <3>3, <4>1, <4>2
        <3>5. wire' = [wire EXCEPT ![c] = IF wire[c] = "up" THEN "hung" ELSE wire[c]] /\ down' = [down EXCEPT ![c] = <<>>]
            BY <2>2 DEF CloseRelay
        <3> QED
            BY <3>2, <3>4, <3>5, UnderNone DEF WiresFrom, RelayInv, Types
    <2> QED
        BY <2>1, <2>2
<1> QED
    BY <1>1, <1>2, <1>3, <1>4, PhoneStep DEF CloseRelay

\* A connection that has not been dialled is at no table, and nothing is kept
\* for it.
LEMMA DialKeeps == ASSUME RelayInv, NEW l \in Links, NEW c \in Conns, Dial(l, c) PROVE RelayInv'
<1> DEFINE k == [link[l] EXCEPT !.session = c]
<1> DEFINE h == [handler[c] EXCEPT !.at = "upgraded", !.want = link[l].code]
<1>1. /\ link[l].on /\ link[l].session = NoOne /\ wire[c] = "none"
      /\ link' = [link EXCEPT ![l] = k] /\ wire' = [wire EXCEPT ![c] = "up"]
      /\ handler' = [handler EXCEPT ![c] = h]
      /\ UNCHANGED <<door, down, up, table, hub, seat, heard>>
    BY DEF Dial
<1>2. link[l] \in LinkStates /\ Fits(link[l]) /\ handler[c] \in HandlerStates
    BY DEF RelayInv, Types, LinksOK
<1>3. k \in LinkStates
    BY <1>2, LinkUpdates
<1>4. Fits(k)
    BY <1>1, <1>2 DEF Fits, LinkStates
<1>5. h \in HandlerStates /\ h.at = "upgraded" /\ h.table = handler[c].table
    BY <1>2 DEF HandlerStates, LinkStates
<1>6. /\ handler' \in [Conns -> HandlerStates] /\ handler'[c] = h
      /\ \A d \in Conns \ {c} : handler'[d] = handler[d]
    BY <1>1, <1>5, HandlerChanged DEF RelayInv
<1>7. Types'
    BY <1>1, <1>3, <1>6, LinkChanged DEF RelayInv, Types
<1>8. Kept
    BY <1>1, <1>5, <1>6 DEF Kept
<1>9. handler[c].table = NoTable
    BY <1>1 DEF RelayInv, Hosts
<1>10. wire' \in [Conns -> {"none", "up", "hung", "cut"}] /\ \A d \in Conns : wire'[d] = "none" => wire[d] = "none" /\ d # c
    BY <1>1 DEF RelayInv, Types
<1>11. Hosts'
    BY <1>1, <1>5, <1>6, <1>9, <1>10 DEF RelayInv, Types, TableStates, Hosts
<1>12. WiresFrom
    BY <1>1, <1>10 DEF WiresFrom, RelayInv, Types
<1> QED
    BY <1>1, <1>3, <1>4, <1>7, <1>8, <1>11, <1>12, LinkStep

\* What is told on a connection is right of its table, and so is what the phone
\* then keeps.
LEMMA AfterFits ==
    ASSUME RelayInv, NEW l \in Links, NEW c \in Conns, NEW msg \in Messages,
           link[l].session = c, MayGoDown(c, msg), link[l].ws = NoOne => msg.kind = "code"
    PROVE  AfterMessage(link[l], c, msg) \in LinkStates /\ Fits(AfterMessage(link[l], c, msg))
<1> DEFINE rest == {u \in link[l].tunnels : u.id # msg.id}
<1> DEFINE tunnel == [id |-> msg.id, guest |-> msg.guest]
<1>1. link[l] \in LinkStates /\ Fits(link[l])
    BY DEF RelayInv, Types, LinksOK
<1>2. rest \in TunnelSets /\ rest \cup {tunnel} \in TunnelSets
    BY <1>1 DEF LinkStates, TunnelSets, Messages
<1>3. msg.id \in Nat
    BY DEF Messages
<1>4. CASE msg.kind = "code"
    <2>1. AfterMessage(link[l], c, msg) = [link[l] EXCEPT !.ws = c, !.code = msg.id]
        BY <1>4 DEF AfterMessage
    <2>2. AfterMessage(link[l], c, msg) \in LinkStates
        BY <1>1, <1>3, <2>1 DEF LinkStates
    <2>3. msg.id # NoCode
        BY <1>4 DEF MayGoDown
    <2>4. /\ AfterMessage(link[l], c, msg).tunnels = link[l].tunnels /\ AfterMessage(link[l], c, msg).on = link[l].on
          /\ AfterMessage(link[l], c, msg).session = c /\ AfterMessage(link[l], c, msg).code = msg.id
        BY <1>1, <2>1 DEF LinkStates
    <2>5. c # NoOne
        BY RelayAssumption
    <2>6. \A u \in link[l].tunnels : Right(handler[c].table, u.id, u.guest)
        BY <1>1, <2>5 DEF Fits
    <2> QED
        BY <2>2, <2>3, <2>4, <2>5, <2>6 DEF Fits
<1>5. CASE msg.kind = "open"
    <2>1. AfterMessage(link[l], c, msg) = [link[l] EXCEPT !.tunnels = rest \cup {tunnel}]
        BY <1>5 DEF AfterMessage
    <2>2. AfterMessage(link[l], c, msg) \in LinkStates
        BY <1>1, <1>2, <2>1, LinkUpdates
    <2>3. Right(handler[c].table, tunnel.id, tunnel.guest) /\ link[l].ws # NoOne
        BY <1>5 DEF MayGoDown
    <2>4. \A u \in rest \cup {tunnel} : Right(handler[c].table, u.id, u.guest)
        BY <1>1, <2>3, RelayAssumption DEF Fits
    <2>5. link[l].code # NoCode
        BY <1>1, <2>3 DEF Fits
    <2>6. /\ AfterMessage(link[l], c, msg).tunnels = rest \cup {tunnel}
          /\ AfterMessage(link[l], c, msg).session = c /\ AfterMessage(link[l], c, msg).code = link[l].code
        BY <1>1, <2>1 DEF LinkStates
    <2>7. c # NoOne
        BY RelayAssumption
    <2> QED
        BY <2>2, <2>4, <2>5, <2>6, <2>7 DEF Fits
<1>6. CASE msg.kind = "close"
    <2>1. AfterMessage(link[l], c, msg) = [link[l] EXCEPT !.tunnels = rest]
        BY <1>6 DEF AfterMessage
    <2>2. AfterMessage(link[l], c, msg) \in LinkStates
        BY <1>1, <1>2, <2>1, LinkUpdates
    <2> QED
        BY <1>1, <2>1, <2>2 DEF Fits, LinkStates
<1>7. CASE msg.kind \notin {"code", "open", "close"}
    BY <1>1, <1>7 DEF AfterMessage
<1> QED
    BY <1>4, <1>5, <1>6, <1>7

LEMMA ReadsKeeps == ASSUME RelayInv, NEW l \in Links, PhoneReads(l) PROVE RelayInv'
<1>a. link[l] \in LinkStates /\ link[l].session \in Conns
    BY DEF PhoneReads, RelayInv, Types, LinkStates
<1>b. PICK c \in Conns : c = link[l].session
    BY <1>a
<1>c. PICK msg : msg = Head(down[c])
    OBVIOUS
<1>1. /\ wire[c] = "up" /\ down[c] # <<>> /\ down[c] \in Seq(Messages)
      /\ link[l].ws = NoOne => msg.kind = "code"
      /\ link' = [link EXCEPT ![l] = AfterMessage(link[l], c, msg)]
      /\ down' = [down EXCEPT ![c] = Tail(down[c])]
      /\ UNCHANGED <<door, wire, handler, table, hub, seat, heard>>
    BY <1>b, <1>c DEF PhoneReads, RelayInv, Types
<1>2. msg \in Messages /\ MayGoDown(c, msg) /\ Tail(down[c]) \in Seq(Messages) /\ Under(Tail(down[c])) \subseteq Under(down[c])
    BY <1>c, <1>1, UnderHead DEF RelayInv, Wires
<1>3. /\ up' \in [Conns -> Seq(Messages)]
      /\ \A e \in Conns : \A x \in Under(up'[e]) : x \in Under(up[e]) \/ MayGoUp(e, x)'
    <2>1. CASE up' = up
        BY <2>1 DEF RelayInv, Types
    <2>2. CASE up' # up
        <3>1. PICK u \in link[l].tunnels : up' = UpWith(c, Msg("frame", u.id, u.guest))
            BY <1>b, <2>2 DEF PhoneReads
        <3>2. u.id \in Nat /\ u.guest \in Guests \cup {NoOne}
            BY <1>a, <3>1 DEF LinkStates, TunnelSets
        <3>3. Right(handler[c].table, u.id, u.guest)
            BY <1>b, <3>1, RelayAssumption DEF RelayInv, LinksOK, Fits
        <3>4. PICK m : m = Msg("frame", u.id, u.guest)
            OBVIOUS
        <3>5. m \in Messages /\ m.id = u.id /\ m.guest = u.guest
            BY <3>2, <3>4, MsgIsMessage DEF Kinds
        <3>6. MayGoUp(c, m)'
            BY <1>1, <3>3, <3>5 DEF MayGoUp, Right
        <3> QED
            <4>1. /\ UpWith(c, m) \in [Conns -> Seq(Messages)]
                  /\ \A e \in Conns : \A x \in Under(UpWith(c, m)[e]) : x \in Under(up[e]) \/ (e = c /\ x = m)
                BY <3>5, UpWritten DEF RelayInv
            <4> QED
                BY <3>1, <3>4, <3>6, <4>1
    <2> QED
        BY <2>1, <2>2
<1>4. WiresFrom
    BY <1>1, <1>2, <1>3 DEF WiresFrom, RelayInv, Types
<1>5. AfterMessage(link[l], c, msg) \in LinkStates /\ Fits(AfterMessage(link[l], c, msg))
    BY <1>b, <1>1, <1>2, AfterFits
<1> QED
    BY <1>1, <1>4, <1>5, PhoneStep DEF RelayInv, Types

LEMMA TunnelKeeps == ASSUME RelayInv, NEW l \in Links, NEW u \in link[l].tunnels, TunnelEnds(l, u) PROVE RelayInv'
<1> DEFINE k == [link[l] EXCEPT !.tunnels = link[l].tunnels \ {u}]
<1>b. PICK c : c = link[l].ws
    OBVIOUS
<1>a. PICK msg : msg = Msg("close", u.id, NoOne)
    OBVIOUS
<1>1. /\ link' = [link EXCEPT ![l] = k] /\ up' = UpWith(c, msg)
      /\ UNCHANGED <<door, wire, down, handler, table, hub, seat, heard>>
    BY <1>a, <1>b DEF TunnelEnds
<1>2. link[l] \in LinkStates /\ Fits(link[l]) /\ link[l].tunnels \ {u} \in TunnelSets /\ u.id \in Nat
    BY DEF RelayInv, Types, LinksOK, LinkStates, TunnelSets
<1>3. k \in LinkStates
    BY <1>2, LinkUpdates
<1>4. Fits(k)
    BY <1>2 DEF Fits, LinkStates
<1>5. msg \in Messages /\ msg.kind = "close"
    BY <1>a, <1>2, MsgIsMessage DEF Kinds
<1>6. \A e \in Conns : MayGoUp(e, msg)'
    BY <1>5 DEF MayGoUp
<1>7. /\ up' \in [Conns -> Seq(Messages)]
      /\ \A e \in Conns : \A x \in Under(up'[e]) : x \in Under(up[e]) \/ MayGoUp(e, x)'
    <2>1. /\ UpWith(c, msg) \in [Conns -> Seq(Messages)]
          /\ \A e \in Conns : \A x \in Under(UpWith(c, msg)[e]) : x \in Under(up[e]) \/ x = msg
        BY <1>5, UpWritten DEF RelayInv
    <2> QED
        BY <1>1, <1>6, <2>1
<1>8. WiresFrom
    BY <1>1, <1>7 DEF WiresFrom, RelayInv, Types
<1> QED
    BY <1>1, <1>3, <1>4, <1>8, PhoneStep DEF RelayInv, Types

-----------------------------------------------------------------------------
(* The steps of the relay, of guests and of the network *)

\* A step that changes no link.
LEMMA RelayStep ==
    ASSUME RelayInv, Kept, Types', link' = link, WiresFrom, Numbers', Hosts', NoCrossTalk'
    PROVE  RelayInv'
    BY WiresKeep, LinksKeep DEF RelayInv, WiresFrom

LEMMA CutKeeps == ASSUME RelayInv, NEW c \in Conns, Cut(c) PROVE RelayInv'
<1>1. WiresFrom
    BY UnderNone DEF Cut, WiresFrom, RelayInv, Types
<1>2. Kept /\ Types'
    BY <1>1 DEF Cut, Kept, WiresFrom, RelayInv, Types
<1>3. Numbers' /\ Hosts' /\ NoCrossTalk'
    BY <1>1 DEF Cut, WiresFrom, RelayInv, Numbers, Hosts, NoCrossTalk
<1> QED
    BY <1>1, <1>2, <1>3, RelayStep DEF Cut

\* A connection is given its table once.
LEMMA AttachKeeps == ASSUME RelayInv, NEW c \in Conns, Attach(c) PROVE RelayInv'
<1>1. /\ handler[c].at = "upgraded" /\ handler[c].table = NoTable /\ handler[c] \in HandlerStates
      /\ UNCHANGED <<door, link, up, seat, heard>>
    BY DEF Attach, RelayInv, Hosts, Types
<1>2. ASSUME NEW t \in Tables, hub' = t, Serves(c, t), table' \in [Tables -> TableStates], WiresFrom,
             table'[t].host = c, table'[t].code # NoCode,
             \A s \in Tables \ {t} : table'[s] = table[s],
             table'[t].next = table[t].next \/ table[t].code = NoCode
      PROVE  RelayInv'
    <2>1. PICK h : h = [handler[c] EXCEPT !.at = "attached", !.table = t]
        OBVIOUS
    <2>2. h \in HandlerStates /\ h.table = t /\ h.at = "attached"
        BY <1>1, <2>1 DEF HandlerStates
    <2>3. /\ handler' \in [Conns -> HandlerStates] /\ handler'[c] = h
          /\ \A d \in Conns \ {c} : handler'[d] = handler[d]
        <3>1. handler' = [handler EXCEPT ![c] = h]
            BY <1>2, <2>1 DEF Serves, RelayInv, Types
        <3> QED
            BY <2>2, <3>1, HandlerChanged DEF RelayInv
    <2>4. Kept
        BY <1>1, <2>2, <2>3 DEF Kept
    <2>5. Types'
        BY <1>1, <1>2, <2>3 DEF RelayInv, Types, WiresFrom
    <2>6. Numbers'
        <3>1. \A g \in Guests : seat[g].at # "out" =>
                 seat[g].table \in Tables /\ seat[g].id <= table'[seat[g].table].next /\ table'[seat[g].table].code # NoCode
            BY <1>2 DEF RelayInv, Numbers
        <3> QED
            BY <1>1, <3>1 DEF RelayInv, Numbers
    <2>7. Hosts'
        <3>1. wire'[c] # "none" /\ t # NoTable
            BY <1>1, <1>2, TableNumbers DEF RelayInv, Hosts, WiresFrom
        <3>2. ASSUME NEW s \in Tables, table'[s].host # NoOne
              PROVE  handler'[table'[s].host].table = s /\ table'[s].code # NoCode
            <4>1. CASE s = t
                BY <1>2, <2>2, <2>3, <4>1
            <4>2. CASE s # t
                <5>1. /\ table'[s] = table[s] /\ table[s].host \in Conns
                      /\ handler[table[s].host].table = s /\ table[s].code # NoCode
                    BY <1>2, <3>2, <4>2 DEF RelayInv, Hosts, Types, TableStates
                <5>2. table[s].host # c
                    BY <1>1, <5>1, TableNumbers
                <5> QED
                    BY <2>3, <5>1, <5>2
            <4> QED
                BY <4>1, <4>2
        <3>3. \A d \in Conns : handler'[d].at \in {"none", "upgraded"} <=> handler'[d].table = NoTable
            <4>1. handler'[c].at = "attached" /\ handler'[c].table # NoTable
                BY <2>2, <2>3, <3>1
            <4>2. \A d \in Conns \ {c} : handler'[d] = handler[d]
                BY <2>3
            <4> QED
                BY <4>1, <4>2 DEF RelayInv, Hosts
        <3>4. \A d \in Conns : wire'[d] = "none" => handler'[d].at = "none"
            <4>1. \A d \in Conns : wire'[d] = "none" => d # c /\ handler[d].at = "none"
                BY <1>2, <3>1 DEF RelayInv, Hosts, WiresFrom
            <4> QED
                BY <2>3, <4>1
        <3> QED
            BY <1>2, <3>2, <3>3, <3>4 DEF Hosts
    <2>8. NoCrossTalk'
        BY <1>1 DEF RelayInv, NoCrossTalk
    <2> QED
        BY <1>1, <1>2, <2>4, <2>5, <2>6, <2>7, <2>8, RelayStep
<1>3. CASE TakesOver(c)
    <2>1. hub \in Tables /\ hub' = hub /\ table[hub] \in TableStates
        BY <1>3 DEF TakesOver, RelayInv, Types
    <2>2. table' = [table EXCEPT ![hub] = [table[hub] EXCEPT !.host = c]]
        BY <1>3 DEF TakesOver, HostedBy
    <2>3. /\ table' \in [Tables -> TableStates] /\ table'[hub].host = c /\ table'[hub].code = table[hub].code
          /\ table'[hub].next = table[hub].next /\ \A s \in Tables \ {hub} : table'[s] = table[s]
        BY <2>1, <2>2 DEF TableStates, RelayInv, Types
    <2>4. WiresFrom
        BY <1>1, <1>3, UnderNone DEF TakesOver, WiresFrom, RelayInv, Types
    <2>5. table[hub].code # NoCode
        BY <1>3 DEF TakesOver, RelayInv, Hosts
    <2> QED
        BY <1>2, <1>3, <2>1, <2>3, <2>4, <2>5 DEF TakesOver
<1>4. ASSUME NEW t \in Tables, NewTable(c, t) PROVE RelayInv'
    <2>1. PICK new : new = [code |-> IF handler[c].want = NoCode THEN t ELSE handler[c].want, host |-> c, next |-> 0]
        OBVIOUS
    <2>2. new \in TableStates /\ new.host = c /\ new.code # NoCode
        BY <1>1, <2>1, TableNumbers DEF TableStates, HandlerStates
    <2>3. table' = [table EXCEPT ![t] = new] /\ table[t].code = NoCode
        BY <1>4, <2>1 DEF NewTable
    <2>4. table' \in [Tables -> TableStates] /\ table'[t] = new /\ \A s \in Tables \ {t} : table'[s] = table[s]
        BY <2>2, <2>3 DEF RelayInv, Types
    <2>5. WiresFrom
        BY <1>1, <1>4, SameWires DEF NewTable
    <2> QED
        BY <1>2, <1>4, <2>2, <2>3, <2>4, <2>5 DEF NewTable
<1> QED
    BY <1>3, <1>4 DEF Attach

\* A table with a host has a code to send.
LEMMA NamedKeeps == ASSUME RelayInv, NEW c \in Conns, Named(c) PROVE RelayInv'
<1>a. PICK t : t = handler[c].table
    OBVIOUS
<1>b. PICK h : h = table[t].host
    OBVIOUS
<1>c. PICK msg : msg = Msg("code", table[t].code, NoOne)
    OBVIOUS
<1>d. PICK s : s = [handler[c] EXCEPT !.at = IF h = NoOne THEN "dead" ELSE "serving", !.as = h]
    OBVIOUS
<1>1. /\ handler[c].at = "attached" /\ down' = DownWith(h, msg) /\ handler' = [handler EXCEPT ![c] = s]
      /\ UNCHANGED <<door, link, wire, up, table, hub, seat, heard>>
    BY <1>a, <1>b, <1>c, <1>d DEF Named
<1>2. handler[c] \in HandlerStates /\ t \in Tables
    BY <1>1, <1>a DEF RelayInv, Types, HandlerStates, Hosts
<1>3. h \in Conns \cup {NoOne} /\ table[t].code \in Nat /\ (h # NoOne => table[t].code # NoCode)
    BY <1>2, <1>b DEF RelayInv, Types, TableStates, Hosts
<1>4. msg \in Messages /\ msg.kind = "code" /\ msg.id = table[t].code
    BY <1>c, <1>3, MsgIsMessage DEF Kinds
<1>5. s \in HandlerStates /\ s.table = t /\ s.at \in {"dead", "serving"}
    BY <1>2, <1>3, <1>a, <1>d DEF HandlerStates
<1>6. /\ handler' \in [Conns -> HandlerStates] /\ handler'[c] = s
      /\ \A d \in Conns \ {c} : handler'[d] = handler[d]
    BY <1>1, <1>5, HandlerChanged DEF RelayInv
<1>7. Kept
    BY <1>1, <1>5, <1>6, <1>a DEF Kept
<1>8. WiresFrom
    <2>1. /\ DownWith(h, msg) \in [Conns -> Seq(Messages)]
          /\ \A e \in Conns : \A x \in Under(DownWith(h, msg)[e]) : x \in Under(down[e]) \/ (e = h /\ x = msg)
        BY <1>4, DownWritten DEF RelayInv
    <2>2. \A e \in Conns : e = h => MayGoDown(e, msg)'
        BY <1>3, <1>4, RelayAssumption DEF MayGoDown
    <2> QED
        BY <1>1, <2>1, <2>2 DEF WiresFrom, RelayInv, Types
<1>9. Types'
    BY <1>1, <1>6, <1>8 DEF RelayInv, Types, WiresFrom
<1>10. Numbers' /\ NoCrossTalk'
    BY <1>1 DEF RelayInv, Numbers, NoCrossTalk
<1>11. Hosts'
    <2>1. \A d \in Conns : handler'[d].table = handler[d].table
        BY <1>5, <1>6, <1>a
    <2>2. \A d \in Conns : d # c => handler'[d].at = handler[d].at
        BY <1>6
    <2>3. \A e \in Tables : table[e].host \in Conns \cup {NoOne}
        BY DEF RelayInv, Types, TableStates
    <2>4. t # NoTable /\ wire[c] # "none"
        BY <1>1, <1>2, TableNumbers DEF RelayInv, Hosts
    <2> QED
        BY <1>1, <1>5, <1>6, <2>1, <2>2, <2>3, <2>4 DEF RelayInv, Hosts
<1> QED
    BY <1>1, <1>7, <1>8, <1>9, <1>10, <1>11, RelayStep

\* Whoever is let go keeps their number.
LEMMA GoneKeeps ==
    ASSUME RelayInv, NEW c \in Conns, NEW ended \in BOOLEAN, handler[c].at = "serving", HostGone(c, ended),
           WiresFrom, UNCHANGED heard
    PROVE  RelayInv'
<1>a. PICK t : t = handler[c].table
    OBVIOUS
<1>1. handler[c] \in HandlerStates /\ t \in Tables /\ wire[c] # "none" /\ UNCHANGED <<door, link, wire, hub>>
    BY <1>a DEF RelayInv, Types, HandlerStates, Hosts, HostGone
<1>2. PICK at \in {"ending", "over"} : handler' = [handler EXCEPT ![c].at = at]
    BY DEF HostGone
<1>3. PICK s : s = [handler[c] EXCEPT !.at = at]
    OBVIOUS
<1>4. s \in HandlerStates /\ s.table = t /\ s.at \in {"ending", "over"}
    BY <1>1, <1>2, <1>3, <1>a DEF HandlerStates
<1>5. /\ handler' \in [Conns -> HandlerStates] /\ handler'[c] = s
      /\ \A d \in Conns \ {c} : handler'[d] = handler[d]
    <2>1. handler' = [handler EXCEPT ![c] = s]
        BY <1>2, <1>3
    <2> QED
        BY <2>1, <1>4, HandlerChanged DEF RelayInv
<1>6. /\ table' \in [Tables -> TableStates]
      /\ \A e \in Tables : /\ table'[e].code = table[e].code /\ table'[e].next = table[e].next
                           /\ table'[e].host \in {table[e].host, NoOne}
    <2>1. table' = table \/ table' = [table EXCEPT ![t].host = NoOne]
        BY <1>a DEF HostGone
    <2>2. table \in [Tables -> TableStates]
        BY DEF RelayInv, Types
    <2> QED
        BY <1>1, <2>1, <2>2 DEF TableStates
<1>7. /\ seat' \in [Guests -> SeatStates]
      /\ \A g \in Guests : /\ seat'[g].table = seat[g].table /\ seat'[g].id = seat[g].id
                           /\ seat'[g].at = "out" <=> seat[g].at = "out"
    <2>1. \/ seat' = seat
          \/ seat' = [g \in Guests |-> IF g \in GuestsOf(t) THEN [seat[g] EXCEPT !.at = "closed"] ELSE seat[g]]
        BY <1>a DEF HostGone
    <2>2. seat \in [Guests -> SeatStates]
        BY DEF RelayInv, Types
    <2> QED
        BY <2>1, <2>2 DEF SeatStates, GuestsOf
<1>8. Kept
    BY <1>4, <1>5, <1>7, <1>a DEF Kept
<1>9. Types'
    BY <1>1, <1>5, <1>6, <1>7 DEF RelayInv, Types, WiresFrom
<1>10. Numbers'
    <2>1. \A g \in Guests : seat[g].at # "out" =>
             seat[g].table \in Tables /\ seat[g].id <= table'[seat[g].table].next /\ table'[seat[g].table].code # NoCode
        BY <1>6 DEF RelayInv, Numbers
    <2> QED
        BY <1>7, <2>1 DEF RelayInv, Numbers
<1>11. Hosts'
    <2>1. \A d \in Conns : handler'[d].table = handler[d].table
        BY <1>4, <1>5, <1>a
    <2>2. \A d \in Conns : d # c => handler'[d].at = handler[d].at
        BY <1>5
    <2>3. \A e \in Tables : table[e].host \in Conns \cup {NoOne}
        BY DEF RelayInv, Types, TableStates
    <2>4. t # NoTable /\ hub \in Tables \cup {NoTable}
        BY <1>1, TableNumbers DEF RelayInv, Types
    <2> QED
        BY <1>1, <1>4, <1>5, <1>6, <2>1, <2>2, <2>3, <2>4 DEF RelayInv, Hosts
<1>12. NoCrossTalk'
    BY DEF RelayInv, NoCrossTalk
<1> QED
    BY <1>1, <1>8, <1>9, <1>10, <1>11, <1>12, RelayStep

LEMMA EndsKeeps == ASSUME RelayInv, NEW c \in Conns, HandlerEnds(c) PROVE RelayInv'
<1>1. WiresFrom
    BY SameWires DEF HandlerEnds, HostGone
<1> QED
    BY <1>1, GoneKeeps DEF HandlerEnds

LEMMA HearsKeeps == ASSUME RelayInv, NEW c \in Conns, HandlerHearsEnd(c) PROVE RelayInv'
<1>1. up[c] \in Seq(Messages) /\ up[c] # <<>> /\ up' = [up EXCEPT ![c] = Tail(up[c])] /\ UNCHANGED <<wire, down>>
    BY DEF HandlerHearsEnd, HostGone, RelayInv, Types
<1>2. WiresFrom
    BY <1>1, UnderHead DEF WiresFrom, RelayInv, Types
<1> QED
    BY <1>2, GoneKeeps DEF HandlerHearsEnd

LEMMA ForgetKeeps == ASSUME RelayInv, NEW c \in Conns, Forget(c) PROVE RelayInv'
<1>1. /\ handler[c].at = "ending" /\ handler' = [handler EXCEPT ![c] = [handler[c] EXCEPT !.at = "over"]]
      /\ hub' \in {hub, NoTable} /\ UNCHANGED <<door, link, wire, down, up, table, seat, heard>>
    BY DEF Forget
<1>2. PICK s : s = [handler[c] EXCEPT !.at = "over"]
    OBVIOUS
<1>3. s \in HandlerStates /\ s.table = handler[c].table /\ s.at = "over"
    BY <1>2 DEF HandlerStates, RelayInv, Types
<1>4. /\ handler' \in [Conns -> HandlerStates] /\ handler'[c] = s
      /\ \A d \in Conns \ {c} : handler'[d] = handler[d]
    BY <1>1, <1>2, <1>3, HandlerChanged DEF RelayInv
<1>5. WiresFrom
    BY <1>1, SameWires
<1>6. Kept
    BY <1>1, <1>3, <1>4 DEF Kept
<1>7. Types'
    BY <1>1, <1>4 DEF RelayInv, Types
<1>8. Numbers' /\ NoCrossTalk'
    BY <1>1 DEF RelayInv, Numbers, NoCrossTalk
<1>9. Hosts'
    <2>1. \A d \in Conns : handler'[d].table = handler[d].table
        BY <1>3, <1>4
    <2>2. \A d \in Conns : d # c => handler'[d].at = handler[d].at
        BY <1>4
    <2>3. \A e \in Tables : table[e].host \in Conns \cup {NoOne}
        BY DEF RelayInv, Types, TableStates
    <2> QED
        BY <1>1, <1>3, <1>4, <2>1, <2>2, <2>3 DEF RelayInv, Hosts
<1> QED
    BY <1>1, <1>5, <1>6, <1>7, <1>8, <1>9, RelayStep

\* A frame's number is one guest's at the table, and the frame is theirs.
LEMMA CarryKeeps == ASSUME RelayInv, NEW c \in Conns, Carry(c) PROVE RelayInv'
<1>a. PICK t : t = handler[c].table
    OBVIOUS
<1>b. PICK msg : msg = Head(up[c])
    OBVIOUS
<1>c. PICK to : to = {g \in GuestsOf(t) : seat[g].id = msg.id}
    OBVIOUS
<1>1. /\ up[c] \in Seq(Messages) /\ up[c] # <<>> /\ up' = [up EXCEPT ![c] = Tail(up[c])]
      /\ heard' = [g \in Guests |-> IF g \in to /\ msg.kind = "frame" THEN heard[g] \cup {msg.guest} ELSE heard[g]]
      /\ seat' = [g \in Guests |-> IF g \in to /\ msg.kind = "close" THEN [seat[g] EXCEPT !.at = "closed"] ELSE seat[g]]
      /\ UNCHANGED <<door, link, wire, down, handler, table, hub>>
    BY <1>a, <1>b, <1>c DEF Carry, RelayInv, Types
<1>2. msg \in Messages /\ MayGoUp(c, msg)
    BY <1>b, <1>1, UnderHead DEF RelayInv, Wires
<1>3. WiresFrom
    BY <1>1, UnderHead DEF WiresFrom, RelayInv, Types
<1>4. /\ seat' \in [Guests -> SeatStates]
      /\ \A g \in Guests : /\ seat'[g].table = seat[g].table /\ seat'[g].id = seat[g].id
                           /\ seat'[g].at = "out" <=> seat[g].at = "out"
    <2>1. seat \in [Guests -> SeatStates]
        BY DEF RelayInv, Types
    <2> QED
        BY <1>1, <1>c, <2>1 DEF SeatStates, GuestsOf
<1>5. ASSUME NEW g \in to, msg.kind = "frame" PROVE msg.guest = g
    <2>1. g \in Guests /\ Right(t, msg.id, g)
        BY <1>c, <1>5 DEF GuestsOf, Right
    <2>2. Right(t, msg.id, msg.guest)
        BY <1>2, <1>5, <1>a DEF MayGoUp
    <2> QED
        BY <2>1, <2>2 DEF Right, RelayInv, Numbers
<1>6. NoCrossTalk' /\ heard' \in [Guests -> SUBSET (Guests \cup {NoOne})]
    BY <1>1, <1>2, <1>5 DEF RelayInv, Types, NoCrossTalk, Messages
<1>7. Kept
    BY <1>1, <1>4 DEF Kept
<1>8. Types'
    BY <1>1, <1>3, <1>4, <1>6 DEF RelayInv, Types, WiresFrom
<1>9. Numbers' /\ Hosts'
    BY <1>1, <1>4 DEF RelayInv, Numbers, Hosts
<1> QED
    BY <1>1, <1>3, <1>6, <1>7, <1>8, <1>9, RelayStep

-----------------------------------------------------------------------------
(* Guests' steps *)

\* A guest gets a number that has not been given.
LEMMA JoinKeeps == ASSUME RelayInv, NEW g \in Guests, Join(g) PROVE RelayInv'
<1>a. PICK t : t = hub
    OBVIOUS
<1>b. PICK h : h = table[t].host
    OBVIOUS
<1>c. PICK id : id = table[t].next + 1
    OBVIOUS
<1>d. PICK msg : msg = Msg("open", id, g)
    OBVIOUS
<1>e. PICK s : s = [at |-> "in", table |-> t, id |-> id, via |-> h]
    OBVIOUS
<1>f. PICK n : n = [table[t] EXCEPT !.next = id]
    OBVIOUS
<1>1. /\ seat[g].at = "out" /\ t # NoTable /\ h # NoOne /\ seat' = [seat EXCEPT ![g] = s]
      /\ table' = [table EXCEPT ![t] = n] /\ down' = DownWith(h, msg)
      /\ UNCHANGED <<door, link, wire, up, handler, hub, heard>>
    BY <1>a, <1>b, <1>c, <1>d, <1>e, <1>f DEF Join
<1>2. t \in Tables /\ table[t] \in TableStates /\ h \in Conns /\ id \in Nat /\ table[t].code # NoCode
      /\ handler[h].table = t
    BY <1>1, <1>a, <1>b, <1>c DEF RelayInv, Types, TableStates, Hosts
<1>3. s \in SeatStates /\ s.at = "in" /\ s.table = t /\ s.id = id
    BY <1>2, <1>e DEF SeatStates
<1>4. n \in TableStates /\ n.code = table[t].code /\ n.host = h /\ n.next = id
    BY <1>2, <1>b, <1>f DEF TableStates
<1>5. /\ seat' \in [Guests -> SeatStates] /\ seat'[g] = s
      /\ \A k \in Guests \ {g} : seat'[k] = seat[k]
    BY <1>1, <1>3 DEF RelayInv, Types
<1>6. /\ table' \in [Tables -> TableStates] /\ table'[t] = n
      /\ \A e \in Tables \ {t} : table'[e] = table[e]
    BY <1>1, <1>2, <1>4 DEF RelayInv, Types
<1>7. Kept
    BY <1>1, <1>5 DEF Kept
<1>8. msg \in Messages /\ msg.kind = "open" /\ msg.id = id /\ msg.guest = g
    BY <1>2, <1>d, MsgIsMessage DEF Kinds
<1>9. WiresFrom
    <2>1. /\ DownWith(h, msg) \in [Conns -> Seq(Messages)]
          /\ \A e \in Conns : \A x \in Under(DownWith(h, msg)[e]) : x \in Under(down[e]) \/ (e = h /\ x = msg)
        BY <1>8, DownWritten DEF RelayInv
    <2>2. MayGoDown(h, msg)'
        BY <1>1, <1>2, <1>3, <1>5, <1>8 DEF MayGoDown, Right
    <2> QED
        BY <1>1, <2>1, <2>2 DEF WiresFrom, RelayInv, Types
<1>10. Types'
    BY <1>1, <1>5, <1>6, <1>9 DEF RelayInv, Types, WiresFrom
<1>11. Numbers'
    <2>1. \A k \in Guests \ {g} : seat[k].at # "out" /\ seat[k].table = t => seat[k].id < id
        BY <1>2, <1>c DEF RelayInv, Numbers, Types, SeatStates, TableStates
    <2>2. \A k \in Guests : seat'[k].at # "out" =>
             /\ seat'[k].table \in Tables /\ seat'[k].id <= table'[seat'[k].table].next
             /\ table'[seat'[k].table].code # NoCode
        <3>1. ASSUME NEW k \in Guests, k # g, seat[k].at # "out"
              PROVE  /\ seat[k].table \in Tables /\ seat[k].id <= table'[seat[k].table].next
                     /\ table'[seat[k].table].code # NoCode
            <4>1. /\ seat[k].table \in Tables /\ seat[k].id <= table[seat[k].table].next
                  /\ table[seat[k].table].code # NoCode /\ seat[k].id \in Nat
                BY <3>1 DEF RelayInv, Numbers, Types, SeatStates
            <4> QED
                BY <1>2, <1>4, <1>6, <2>1, <3>1, <4>1
        <3> QED
            BY <1>2, <1>3, <1>4, <1>5, <1>6, <3>1
    <2>3. \A k, m \in Guests :
             seat'[k].at # "out" /\ seat'[m].at # "out" /\ seat'[k].table = seat'[m].table /\ seat'[k].id = seat'[m].id => k = m
        <3>1. \A k \in Guests \ {g} : ~(seat[k].at # "out" /\ seat[k].table = t /\ seat[k].id = id)
            BY <1>2, <2>1 DEF RelayInv, Types, SeatStates
        <3> QED
            BY <1>3, <1>5, <3>1 DEF RelayInv, Numbers
    <2> QED
        BY <2>2, <2>3 DEF Numbers
<1>12. Hosts'
    <2>1. \A e \in Tables : table'[e].host = table[e].host /\ table'[e].code = table[e].code
        BY <1>4, <1>6, <1>b
    <2>2. hub \in Tables
        BY <1>2, <1>a
    <2> QED
        BY <1>1, <2>1, <2>2 DEF RelayInv, Hosts
<1>13. NoCrossTalk'
    BY <1>1 DEF RelayInv, NoCrossTalk
<1> QED
    BY <1>1, <1>7, <1>9, <1>10, <1>11, <1>12, <1>13, RelayStep

\* A guest who leaves, sends, or is turned away keeps their number; what is
\* written for them opens no tunnel and gives no code.
LEMMA GuestKeeps ==
    ASSUME RelayInv, NEW g \in Guests, seat[g].at = "in",
           seat' = seat \/ seat' = [seat EXCEPT ![g].at = "closed"],
           NEW h, NEW msg \in Messages, msg.kind \in {"close", "frame"}, down' = down \/ down' = DownWith(h, msg),
           UNCHANGED <<door, link, wire, up, handler, table, hub, heard>>
    PROVE  RelayInv'
<1>1. /\ seat' \in [Guests -> SeatStates]
      /\ \A k \in Guests : /\ seat'[k].table = seat[k].table /\ seat'[k].id = seat[k].id
                           /\ seat'[k].at = "out" <=> seat[k].at = "out"
    <2>1. seat \in [Guests -> SeatStates]
        BY DEF RelayInv, Types
    <2> QED
        BY <2>1 DEF SeatStates
<1>2. WiresFrom
    <2>1. /\ DownWith(h, msg) \in [Conns -> Seq(Messages)]
          /\ \A e \in Conns : \A x \in Under(DownWith(h, msg)[e]) : x \in Under(down[e]) \/ (e = h /\ x = msg)
        BY DownWritten DEF RelayInv
    <2>2. \A e \in Conns : MayGoDown(e, msg)'
        BY DEF MayGoDown
    <2> QED
        BY <2>1, <2>2 DEF WiresFrom, RelayInv, Types
<1>3. Kept
    BY <1>1 DEF Kept
<1>4. Types'
    BY <1>1, <1>2 DEF RelayInv, Types, WiresFrom
<1>5. Numbers' /\ Hosts' /\ NoCrossTalk'
    BY <1>1 DEF RelayInv, Numbers, Hosts, NoCrossTalk
<1> QED
    BY <1>2, <1>3, <1>4, <1>5, RelayStep

LEMMA LeavesKeeps == ASSUME RelayInv, NEW g \in Guests, GuestLeaves(g) PROVE RelayInv'
<1>1. PICK msg : msg = Msg("close", seat[g].id, NoOne)
    OBVIOUS
<1>2. PICK h : h = table[seat[g].table].host
    OBVIOUS
<1>3. msg \in Messages /\ msg.kind = "close"
    BY <1>1, MsgIsMessage DEF Kinds, RelayInv, Types, SeatStates
<1>4. down' = DownWith(h, msg)
    BY <1>1, <1>2 DEF GuestLeaves, LeaveIsTold
<1> QED
    BY <1>3, <1>4, GuestKeeps DEF GuestLeaves

LEMMA SendsKeeps == ASSUME RelayInv, NEW g \in Guests, GuestSends(g) PROVE RelayInv'
<1>1. PICK msg : msg = Msg("frame", seat[g].id, g)
    OBVIOUS
<1>2. PICK h : h = table[seat[g].table].host
    OBVIOUS
<1>3. msg \in Messages /\ msg.kind = "frame"
    BY <1>1, MsgIsMessage DEF Kinds, RelayInv, Types, SeatStates
<1>4. down' = down \/ down' = DownWith(h, msg)
    BY <1>1, <1>2 DEF GuestSends
<1>5. seat' = seat \/ seat' = [seat EXCEPT ![g].at = "closed"]
    BY DEF GuestSends
<1> QED
    BY <1>3, <1>4, <1>5, GuestKeeps DEF GuestSends

-----------------------------------------------------------------------------
(* The theorem *)

LEMMA RelayNextInv == RelayInv /\ [RelayNext]_relayVars => RelayInv'
<1> SUFFICES ASSUME RelayInv, [RelayNext]_relayVars PROVE RelayInv'
    OBVIOUS
<1>1. CASE UNCHANGED relayVars
    <2>1. Types' /\ Numbers' /\ Hosts' /\ NoCrossTalk' /\ Kept
        BY <1>1 DEF relayVars, RelayInv, Types, Numbers, Hosts, NoCrossTalk, Kept
    <2>2. WiresFrom /\ link' = link
        BY <1>1, SameWires DEF relayVars
    <2> QED
        BY <2>1, <2>2, RelayStep
<1>2. CASE \E l \in Links : \/ OpenRelay(l) \/ PhoneSees(l) \/ GivesUp(l) \/ PhoneReads(l)
                            \/ \E c \in Conns : Dial(l, c)
                            \/ \E u \in link[l].tunnels : TunnelEnds(l, u)
    BY <1>2, OpenKeeps, SeesKeeps, GivesUpKeeps, ReadsKeeps, DialKeeps, TunnelKeeps
<1>3. CASE CloseRelay
    BY <1>3, CloseKeeps
<1>4. CASE \E c \in Conns :
             Cut(c) \/ Attach(c) \/ Named(c) \/ HandlerEnds(c) \/ HandlerHearsEnd(c) \/ Forget(c) \/ Carry(c)
    BY <1>4, CutKeeps, AttachKeeps, NamedKeeps, EndsKeeps, HearsKeeps, ForgetKeeps, CarryKeeps
<1>5. CASE \E g \in Guests : Join(g) \/ GuestLeaves(g) \/ GuestSends(g)
    BY <1>5, JoinKeeps, LeavesKeeps, SendsKeeps
<1> QED
    BY <1>1, <1>2, <1>3, <1>4, <1>5 DEF RelayNext

\* A guest of a relayed table hears from their own tunnel only, for any number of
\* links, connections, tables and guests, whatever is cut, replaced and hung up.
THEOREM NoCrossTalkHolds == RelaySpec => []NoCrossTalk
<1>1. RelaySpec => []RelayInv
    BY RelayInitInv, RelayNextInv, PTL DEF RelaySpec
<1> QED
    BY <1>1, PTL DEF RelayInv

-----------------------------------------------------------------------------
(* Who is there                                                            *)
(*                                                                         *)
(* A guest a phone was told of is at one of four stages: announced and not *)
(* read, at the phone as a tunnel, hung up by the phone and not read, or   *)
(* gone on both sides; never at two of the first three.  And while the     *)
(* connection is the table's host and lives, a guest who is still there is *)
(* at one of the first three, and one who is not, and whom the phone has   *)
(* or will have, has their hanging up on its way.                          *)

\* What is on a wire about guests' coming and going.
About(q) == {m \in Under(q) : m.kind \in {"open", "close"}}

\* On one connection nobody is announced behind what is about the same number.
Ordered(q) ==
    \A i, j \in 1..Len(q) : i < j /\ q[i].kind \in {"open", "close"} /\ q[j].kind = "open" => q[i].id # q[j].id

\* The stages.
Announced(g, c) == Msg("open", seat[g].id, g) \in About(down[c])
Told(g, l) == [id |-> seat[g].id, guest |-> g] \in link[l].tunnels
HungUp(g, c) == Msg("close", seat[g].id, NoOne) \in About(up[c])
Going(g, c) == Msg("close", seat[g].id, NoOne) \in About(down[c])

Apart(g, l, c) ==
    /\ ~(Announced(g, c) /\ Told(g, l)) /\ ~(Announced(g, c) /\ HungUp(g, c)) /\ ~(Told(g, l) /\ HungUp(g, c))

\* The connection has the guest's table, and lives.
Serving(g, c) == table[seat[g].table].host = c /\ wire[c] = "up"

Known(g, l, c) ==
    Serving(g, c) =>
        /\ seat[g].at = "in" => Announced(g, c) \/ Told(g, l) \/ HungUp(g, c)
        /\ seat[g].at = "closed" /\ (Announced(g, c) \/ Told(g, l)) => Going(g, c)

\* The link's session is on the connection the guest came in on.
Meets(g, l, c) == link[l].session = c /\ seat[g].at # "out" /\ seat[g].via = c

Stage(g, l, c) == Meets(g, l, c) => Apart(g, l, c) /\ Known(g, l, c)

Stages == \A g \in Guests, l \in Links, c \in Conns : Stage(g, l, c)

\* A guest is announced on a connection of their table.
Vias == \A g \in Guests : seat[g].at # "out" => seat[g].via \in Conns /\ handler[seat[g].via].table = seat[g].table

\* A session is of one link, on a connection it has dialled; it has no tunnels
\* before it is online.
SessionFits(k) ==
    /\ k.session # NoOne => wire[k.session] # "none"
    /\ k.ws \in {NoOne, k.session}
    /\ k.session # NoOne /\ k.ws = NoOne => k.tunnels = {}

Sessions ==
    /\ \A l \in Links : SessionFits(link[l])
    /\ \A l, m \in Links : link[l].session # NoOne /\ link[l].session = link[m].session => l = m

\* What is under way about guests is of those the connection was told of, and
\* whoever is said to be gone is gone.
MayTell(c, msg) ==
    \/ msg = Msg("open", msg.id, msg.guest) /\ msg.guest \in Guests /\ seat[msg.guest].via = c
    \/ /\ msg = Msg("close", msg.id, NoOne)
       /\ \E g \in Guests : Right(handler[c].table, msg.id, g) /\ seat[g].at = "closed"

MayHangUp(c, msg) ==
    /\ msg = Msg("close", msg.id, NoOne)
    /\ \E g \in Guests : Right(handler[c].table, msg.id, g) /\ seat[g].via = c

News ==
    /\ \A c \in Conns : \A msg \in About(down[c]) : MayTell(c, msg)
    /\ \A c \in Conns : \A msg \in About(up[c]) : MayHangUp(c, msg)

\* So are the tunnels.
Tunnels == \A l \in Links : link[l].session # NoOne => \A u \in link[l].tunnels : seat[u.guest].via = link[l].session

Orders == \A c \in Conns : Ordered(down[c])

AgreeInv == Vias /\ Sessions /\ News /\ Tunnels /\ Orders /\ Stages

-----------------------------------------------------------------------------
(* What is read, and what is written *)

LEMMA AboutAppend == ASSUME NEW s \in Seq(Messages), NEW m \in Messages
                     PROVE  About(Append(s, m)) = IF m.kind \in {"open", "close"} THEN About(s) \cup {m} ELSE About(s)
<1>1. Len(Append(s, m)) = Len(s) + 1 /\ \A i \in 1..Len(s) : Append(s, m)[i] = s[i]
    OBVIOUS
<1>2. Append(s, m)[Len(s) + 1] = m
    OBVIOUS
<1>3. \A i : i \in 1..(Len(s) + 1) <=> i \in 1..Len(s) \/ i = Len(s) + 1
    OBVIOUS
<1>4. Under(Append(s, m)) = Under(s) \cup {m}
    BY <1>1, <1>2, <1>3 DEF Under
<1> QED
    BY <1>4 DEF About

LEMMA AboutHead == ASSUME NEW s \in Seq(Messages), s # <<>>
                   PROVE  About(s) = IF Head(s).kind \in {"open", "close"} THEN About(Tail(s)) \cup {Head(s)} ELSE About(Tail(s))
<1>1. Head(s) = s[1] /\ Len(Tail(s)) = Len(s) - 1 /\ Len(s) \in Nat \ {0}
    OBVIOUS
<1>2. \A i \in 1..(Len(s) - 1) : Tail(s)[i] = s[i + 1]
    OBVIOUS
<1>3. ASSUME NEW m PROVE m \in Under(s) <=> m = Head(s) \/ m \in Under(Tail(s))
    <2>1. ASSUME m \in Under(s) PROVE m = Head(s) \/ m \in Under(Tail(s))
        <3>1. PICK i \in 1..Len(s) : m = s[i]
            BY <2>1 DEF Under
        <3>2. CASE i = 1
            BY <1>1, <3>1, <3>2
        <3>3. CASE i # 1
            <4>1. i - 1 \in 1..Len(Tail(s)) /\ Tail(s)[i - 1] = s[i]
                BY <1>1, <1>2, <3>1, <3>3
            <4> QED
                BY <3>1, <4>1 DEF Under
        <3> QED
            BY <3>2, <3>3
    <2>2. ASSUME m = Head(s) \/ m \in Under(Tail(s)) PROVE m \in Under(s)
        BY <2>2, UnderHead
    <2> QED
        BY <2>1, <2>2
<1> QED
    BY <1>3 DEF About

LEMMA AboutNone == About(<<>>) = {} /\ Ordered(<<>>)
    BY UnderNone DEF About, Ordered

\* What is behind the first message is in order, and announces nobody of the
\* number it is about.
LEMMA OrderedTail == ASSUME NEW s \in Seq(Messages), s # <<>>, Ordered(s)
                     PROVE  /\ Ordered(Tail(s))
                            /\ Head(s).kind \in {"open", "close"} => \A m \in About(Tail(s)) : m.kind = "open" => m.id # Head(s).id
<1>1. Head(s) = s[1] /\ Len(Tail(s)) = Len(s) - 1 /\ Len(s) \in Nat \ {0}
    OBVIOUS
<1>2. \A i \in 1..(Len(s) - 1) : Tail(s)[i] = s[i + 1]
    OBVIOUS
<1>3. ASSUME NEW i \in 1..Len(Tail(s)), NEW j \in 1..Len(Tail(s)), i < j,
             Tail(s)[i].kind \in {"open", "close"}, Tail(s)[j].kind = "open"
      PROVE  Tail(s)[i].id # Tail(s)[j].id
    <2>1. i + 1 \in 1..Len(s) /\ j + 1 \in 1..Len(s) /\ i + 1 < j + 1 /\ Tail(s)[i] = s[i + 1] /\ Tail(s)[j] = s[j + 1]
        BY <1>1, <1>2, <1>3
    <2> QED
        BY <1>3, <2>1 DEF Ordered
<1>4. ASSUME Head(s).kind \in {"open", "close"}, NEW m \in About(Tail(s)), m.kind = "open" PROVE m.id # Head(s).id
    <2>1. PICK j \in 1..Len(Tail(s)) : m = Tail(s)[j]
        BY <1>4 DEF About, Under
    <2>2. j + 1 \in 1..Len(s) /\ 1 \in 1..Len(s) /\ 1 < j + 1 /\ m = s[j + 1]
        BY <1>1, <1>2, <2>1
    <2> QED
        BY <1>1, <1>4, <2>2 DEF Ordered
<1> QED
    BY <1>3, <1>4 DEF Ordered

LEMMA OrderedAppend == ASSUME NEW s \in Seq(Messages), NEW m \in Messages, Ordered(s),
                              m.kind = "open" => \A x \in About(s) : x.id # m.id
                       PROVE  Ordered(Append(s, m))
<1>1. Len(Append(s, m)) = Len(s) + 1 /\ \A i \in 1..Len(s) : Append(s, m)[i] = s[i]
    OBVIOUS
<1>2. Append(s, m)[Len(s) + 1] = m
    OBVIOUS
<1>3. ASSUME NEW i \in 1..(Len(s) + 1), NEW j \in 1..(Len(s) + 1), i < j,
             Append(s, m)[i].kind \in {"open", "close"}, Append(s, m)[j].kind = "open"
      PROVE  Append(s, m)[i].id # Append(s, m)[j].id
    <2>1. i \in 1..Len(s) /\ Append(s, m)[i] = s[i]
        BY <1>1, <1>3
    <2>2. CASE j \in 1..Len(s)
        BY <1>1, <1>3, <2>1, <2>2 DEF Ordered
    <2>3. CASE j = Len(s) + 1
        <3>1. s[i] \in About(s)
            BY <1>3, <2>1 DEF About, Under
        <3> QED
            BY <1>2, <1>3, <2>1, <2>3, <3>1
    <2> QED
        BY <1>3, <2>2, <2>3
<1> QED
    BY <1>1, <1>3 DEF Ordered

\* What a message leaves under way about guests.
LEMMA DownTold ==
    ASSUME RelayInv, Orders, NEW c \in Conns \cup {NoOne}, NEW m \in Messages,
           m.kind = "open" => c \in Conns /\ \A x \in About(down[c]) : x.id # m.id
    PROVE  /\ \A k \in Conns : About(DownWith(c, m)[k]) = IF k = c /\ wire[c] = "up" /\ m.kind \in {"open", "close"}
                                                           THEN About(down[k]) \cup {m} ELSE About(down[k])
           /\ \A k \in Conns : Ordered(DownWith(c, m)[k])
<1>1. CASE c # NoOne /\ wire[c] = "up"
    <2>1. c \in Conns /\ down[c] \in Seq(Messages) /\ Ordered(down[c]) /\ DownWith(c, m) = [down EXCEPT ![c] = Append(down[c], m)]
        BY <1>1 DEF DownWith, RelayInv, Types, Orders
    <2>2. /\ DownWith(c, m)[c] = Append(down[c], m) /\ \A k \in Conns \ {c} : DownWith(c, m)[k] = down[k]
        BY <2>1 DEF RelayInv, Types
    <2>3. About(Append(down[c], m)) = IF m.kind \in {"open", "close"} THEN About(down[c]) \cup {m} ELSE About(down[c])
        BY <2>1, AboutAppend
    <2>4. Ordered(Append(down[c], m))
        BY <2>1, OrderedAppend
    <2> QED
        BY <1>1, <2>2, <2>3, <2>4 DEF Orders
<1>2. CASE ~(c # NoOne /\ wire[c] = "up")
    <2>1. DownWith(c, m) = down
        BY <1>2 DEF DownWith
    <2>2. \A k \in Conns : ~(k = c /\ wire[c] = "up")
        BY <1>2, RelayAssumption
    <2> QED
        BY <2>1, <2>2 DEF Orders
<1> QED
    BY <1>1, <1>2

LEMMA UpTold ==
    ASSUME RelayInv, NEW c \in Conns, NEW m \in Messages
    PROVE  \A k \in Conns : About(UpWith(c, m)[k]) = IF k = c /\ wire[c] = "up" /\ m.kind \in {"open", "close"}
                                                     THEN About(up[k]) \cup {m} ELSE About(up[k])
<1>1. CASE wire[c] = "up"
    <2>1. up[c] \in Seq(Messages) /\ UpWith(c, m) = [up EXCEPT ![c] = Append(up[c], m)]
        BY <1>1 DEF UpWith, RelayInv, Types
    <2>2. /\ UpWith(c, m)[c] = Append(up[c], m) /\ \A k \in Conns \ {c} : UpWith(c, m)[k] = up[k]
        BY <2>1 DEF RelayInv, Types
    <2>3. About(Append(up[c], m)) = IF m.kind \in {"open", "close"} THEN About(up[c]) \cup {m} ELSE About(up[c])
        BY <2>1, AboutAppend
    <2> QED
        BY <1>1, <2>2, <2>3
<1>2. CASE wire[c] # "up"
    BY <1>2 DEF UpWith
<1> QED
    BY <1>1, <1>2

-----------------------------------------------------------------------------
(* What the steps keep of it *)

\* Whoever has come in stays with the connection they came in on, and whoever
\* is gone stays gone.
Stays == \A g \in Guests : seat[g].at # "out" => seat'[g].via = seat[g].via /\ (seat[g].at = "closed" => seat'[g].at = "closed")

NobodyComes == \A g \in Guests : seat[g].at = "out" => seat'[g].at = "out"

\* What a step tells on the wires is true.
NewsFrom ==
    /\ \A c \in Conns : \A msg \in About(down'[c]) : msg \in About(down[c]) \/ MayTell(c, msg)'
    /\ \A c \in Conns : \A msg \in About(up'[c]) : msg \in About(up[c]) \/ MayHangUp(c, msg)'

LEMMA NewsKeep == ASSUME RelayInv, AgreeInv, Kept, Stays, NewsFrom PROVE News'
<1>1. ASSUME NEW c \in Conns, NEW msg \in About(down[c]) PROVE MayTell(c, msg)'
    <2>1. MayTell(c, msg) /\ MayGoDown(c, msg)
        BY <1>1 DEF AgreeInv, News, RelayInv, Wires, About
    <2>2. CASE msg = Msg("open", msg.id, msg.guest) /\ msg.guest \in Guests /\ seat[msg.guest].via = c
        <3>1. msg.kind = "open"
            BY <2>2 DEF Msg
        <3>2. seat[msg.guest].at # "out"
            BY <2>1, <3>1 DEF MayGoDown, Right
        <3>3. seat'[msg.guest].via = c
            BY <2>2, <3>2 DEF Stays
        <3> QED
            BY <2>2, <3>3 DEF MayTell
    <2>3. CASE /\ msg = Msg("close", msg.id, NoOne)
               /\ \E g \in Guests : Right(handler[c].table, msg.id, g) /\ seat[g].at = "closed"
        <3>1. PICK g \in Guests : Right(handler[c].table, msg.id, g) /\ seat[g].at = "closed"
            BY <2>3
        <3>2. Right(handler[c].table, msg.id, g)'
            BY <3>1, StaysRight
        <3>3. seat'[g].at = "closed"
            BY <3>1 DEF Stays
        <3> QED
            BY <2>3, <3>2, <3>3 DEF MayTell
    <2> QED
        BY <2>1, <2>2, <2>3 DEF MayTell
<1>2. ASSUME NEW c \in Conns, NEW msg \in About(up[c]) PROVE MayHangUp(c, msg)'
    <2>1. MayHangUp(c, msg)
        BY <1>2 DEF AgreeInv, News
    <2>2. PICK g \in Guests : Right(handler[c].table, msg.id, g) /\ seat[g].via = c
        BY <2>1 DEF MayHangUp
    <2>3. Right(handler[c].table, msg.id, g)'
        BY <2>2, StaysRight
    <2>4. seat'[g].via = c
        BY <2>2 DEF Stays, Right
    <2> QED
        BY <2>1, <2>3, <2>4 DEF MayHangUp
<1> QED
    BY <1>1, <1>2 DEF NewsFrom, News

LEMMA ViasKeep == ASSUME RelayInv, AgreeInv, Kept, Stays, NobodyComes PROVE Vias'
<1>1. ASSUME NEW g \in Guests, seat'[g].at # "out"
      PROVE  seat'[g].via \in Conns /\ handler'[seat'[g].via].table = seat'[g].table
    <2>1. seat[g].at # "out"
        BY <1>1 DEF NobodyComes
    <2>2. seat[g].via \in Conns /\ handler[seat[g].via].table = seat[g].table /\ seat[g].table # NoTable
        BY <2>1, TableNumbers DEF AgreeInv, Vias, RelayInv, Numbers
    <2>3. seat'[g].via = seat[g].via /\ seat'[g].table = seat[g].table
        BY <2>1 DEF Kept, Stays
    <2> QED
        BY <2>2, <2>3 DEF Kept
<1> QED
    BY <1>1 DEF Vias

LEMMA TunnelsKeep ==
    ASSUME RelayInv, AgreeInv, Stays,
           \A l \in Links : link'[l].session # NoOne => \A u \in link'[l].tunnels :
               (link[l].session = link'[l].session /\ u \in link[l].tunnels) \/ seat'[u.guest].via = link'[l].session
    PROVE  Tunnels'
<1>1. ASSUME NEW l \in Links, link[l].session # NoOne, NEW u \in link[l].tunnels PROVE seat'[u.guest].via = link[l].session
    <2>1. u.guest \in Guests /\ seat[u.guest].at # "out" /\ seat[u.guest].via = link[l].session
        BY <1>1 DEF AgreeInv, Tunnels, RelayInv, LinksOK, Fits, Right
    <2> QED
        BY <2>1 DEF Stays
<1> QED
    BY <1>1 DEF Tunnels

\* A session that goes on, or ends.
LEMMA SessionsKeep ==
    ASSUME AgreeInv, \A l \in Links : link'[l].session \in {link[l].session, NoOne} /\ SessionFits(link[l])'
    PROVE  Sessions'
<1>1. \A l \in Links : SessionFits(link[l])' /\ (link'[l].session # NoOne => link'[l].session = link[l].session)
    OBVIOUS
<1>2. \A l, m \in Links : link'[l].session # NoOne /\ link'[l].session = link'[m].session => l = m
    BY <1>1 DEF AgreeInv, Sessions
<1> QED
    BY <1>1, <1>2 DEF Sessions

LEMMA SameSessions ==
    ASSUME AgreeInv, link' = link, \A c \in Conns : wire'[c] = "none" => wire[c] = "none", RelayInv
    PROVE  Sessions' /\ \A l \in Links : link'[l].session \in {link[l].session, NoOne} /\ SessionFits(link[l])'
<1>1. \A l \in Links : link[l].session \in Conns \cup {NoOne}
    BY DEF RelayInv, Types, LinkStates
<1>2. \A l \in Links : SessionFits(link[l])'
    BY <1>1 DEF AgreeInv, Sessions, SessionFits
<1> QED
    BY <1>2, SessionsKeep

\* A stage stays as it is when nothing more is announced, told or hung up, and,
\* as long as the connection serves, nothing of it is lost.
LEMMA StageKeeps ==
    ASSUME Kept, Stays, NEW g \in Guests, NEW l \in Links, NEW c \in Conns, Stage(g, l, c),
           seat[g].at = "out" => seat'[g].at = "out",
           Meets(g, l, c)' =>
               /\ link[l].session = c
               /\ Announced(g, c)' => Announced(g, c)
               /\ Told(g, l)' => Told(g, l)
               /\ HungUp(g, c)' => HungUp(g, c)
               /\ Serving(g, c)' =>
                     /\ Serving(g, c) /\ seat'[g].at = seat[g].at
                     /\ Announced(g, c) => Announced(g, c)'
                     /\ Told(g, l) => Told(g, l)'
                     /\ HungUp(g, c) => HungUp(g, c)'
                     /\ Going(g, c) => Going(g, c)'
    PROVE  Stage(g, l, c)'
<1> SUFFICES ASSUME Meets(g, l, c)' PROVE Apart(g, l, c)' /\ Known(g, l, c)'
    BY DEF Stage
<1>1. seat[g].at # "out" /\ seat'[g].via = seat[g].via
    BY DEF Meets, Stays
<1>2. Meets(g, l, c)
    BY <1>1 DEF Meets
<1>3. Apart(g, l, c) /\ Known(g, l, c)
    BY <1>2 DEF Stage
<1>4. Apart(g, l, c)'
    BY <1>3 DEF Apart
<1>5. Known(g, l, c)'
    BY <1>3 DEF Known
<1> QED
    BY <1>4, <1>5

\* One that no seat, table or handler has a part in, and in which the link and
\* the connection are as they were.
Untouched(l, c) ==
    /\ link'[l].session = link[l].session /\ link'[l].tunnels = link[l].tunnels
    /\ About(down'[c]) = About(down[c]) /\ About(up'[c]) = About(up[c]) /\ wire'[c] = wire[c]

LEMMA UntouchedStage ==
    ASSUME NEW g \in Guests, NEW l \in Links, NEW c \in Conns, Stage(g, l, c), seat'[g] = seat[g],
           link'[l].session = c => Untouched(l, c), seat[g].at # "out" => table'[seat[g].table].host = table[seat[g].table].host
    PROVE  Stage(g, l, c)'
<1> SUFFICES ASSUME Meets(g, l, c)' PROVE Apart(g, l, c)' /\ Known(g, l, c)'
    BY DEF Stage
<1>1. Untouched(l, c) /\ seat[g].at # "out" /\ table'[seat[g].table].host = table[seat[g].table].host
    BY DEF Meets
<1>2. Meets(g, l, c)
    BY <1>1 DEF Meets, Untouched
<1>3. Apart(g, l, c) /\ Known(g, l, c)
    BY <1>2 DEF Stage
<1>4. /\ Announced(g, c)' = Announced(g, c) /\ Told(g, l)' = Told(g, l) /\ HungUp(g, c)' = HungUp(g, c)
      /\ Going(g, c)' = Going(g, c) /\ Serving(g, c)' = Serving(g, c)
    BY <1>1 DEF Untouched, Announced, Told, HungUp, Going, Serving
<1> QED
    BY <1>3, <1>4 DEF Apart, Known

-----------------------------------------------------------------------------
(* The phone's steps *)

LEMMA InitAgrees == RelayInit => AgreeInv
<1> SUFFICES ASSUME RelayInit PROVE AgreeInv
    OBVIOUS
<1>1. \A g \in Guests : seat[g].at = "out"
    BY DEF RelayInit, Outside
<1>2. \A l \in Links : link[l].session = NoOne /\ link[l].ws = NoOne
    BY DEF RelayInit
<1>3. \A c \in Conns : down[c] = <<>> /\ up[c] = <<>>
    BY DEF RelayInit
<1>4. Vias
    BY <1>1 DEF Vias
<1>5. Sessions /\ Tunnels
    BY <1>2 DEF Sessions, SessionFits, Tunnels
<1>6. News /\ Orders
    BY <1>3, AboutNone DEF News, Orders
<1>7. Stages
    BY <1>1 DEF Stages, Stage, Meets
<1> QED
    BY <1>4, <1>5, <1>6, <1>7 DEF AgreeInv

\* A session of one link goes on, or ends.
LEMMA PhoneSessions ==
    ASSUME RelayInv, AgreeInv, NEW l \in Links, NEW k \in LinkStates, link' = [link EXCEPT ![l] = k],
           k.session \in {link[l].session, NoOne}, SessionFits(k)',
           \A c \in Conns : wire'[c] = "none" => wire[c] = "none"
    PROVE  Sessions'
<1>1. link'[l] = k /\ \A m \in Links \ {l} : link'[m] = link[m]
    BY LinkChanged DEF RelayInv
<1>2. \A m \in Links : link[m].session \in Conns \cup {NoOne}
    BY DEF RelayInv, Types, LinkStates
<1>3. \A m \in Links \ {l} : SessionFits(link[m])'
    BY <1>1, <1>2 DEF AgreeInv, Sessions, SessionFits
<1>4. SessionFits(link[l])'
    BY <1>1 DEF SessionFits
<1> QED
    BY <1>1, <1>3, <1>4, SessionsKeep

\* A step of one link's, that leaves the relay's tables and seats alone.
LEMMA PhoneAgrees ==
    ASSUME RelayInv, AgreeInv, Kept, UNCHANGED <<table, seat>>,
           NEW l \in Links, NEW k \in LinkStates, link' = [link EXCEPT ![l] = k], Sessions',
           k.session # NoOne => \A u \in k.tunnels :
               (k.session = link[l].session /\ u \in link[l].tunnels) \/ seat[u.guest].via = k.session,
           NewsFrom, Orders',
           \A m \in Links \ {l}, c \in Conns : link[m].session = c => Untouched(m, c),
           \A g \in Guests, c \in Conns : Stage(g, l, c)'
    PROVE  AgreeInv'
<1>1. Stays /\ NobodyComes
    BY DEF Stays, NobodyComes
<1>2. link' \in [Links -> LinkStates] /\ link'[l] = k /\ \A m \in Links \ {l} : link'[m] = link[m]
    BY LinkChanged DEF RelayInv
<1>3. News' /\ Vias'
    BY <1>1, NewsKeep, ViasKeep
<1>4. Tunnels'
    BY <1>1, <1>2, TunnelsKeep
<1>8. ASSUME NEW g \in Guests, NEW m \in Links \ {l}, NEW c \in Conns PROVE Stage(g, m, c)'
    <2>1. Stage(g, m, c) /\ link'[m] = link[m]
        BY <1>2 DEF AgreeInv, Stages
    <2> QED
        BY <2>1, UntouchedStage
<1>9. Stages'
    BY <1>8 DEF Stages
<1> QED
    BY <1>3, <1>4, <1>9 DEF AgreeInv

\* Nothing new is under way.
LEMMA NoNews == ASSUME \A c \in Conns : About(down'[c]) \subseteq About(down[c]) /\ About(up'[c]) \subseteq About(up[c])
                PROVE  NewsFrom
    BY DEF NewsFrom

LEMMA OpenAgrees == ASSUME RelayInv, AgreeInv, NEW l \in Links, OpenRelay(l) PROVE AgreeInv'
<1>1. PICK k : k = [link[l] EXCEPT !.on = TRUE]
    OBVIOUS
<1>2. link[l] \in LinkStates /\ link' = [link EXCEPT ![l] = k] /\ UNCHANGED <<wire, down, up, handler, table, hub, seat>>
    BY <1>1 DEF RelayInv, Types, OpenRelay
<1>a. k \in LinkStates
    <2>1. link[l] \in LinkStates
        BY <1>2
    <2> QED
        BY <1>1, <2>1 DEF LinkStates
<1>3. k \in LinkStates /\ k.session = link[l].session /\ k.ws = link[l].ws /\ k.tunnels = link[l].tunnels
    BY <1>1, <1>2, <1>a DEF LinkStates
<1>4. SessionFits(k)'
    BY <1>2, <1>3 DEF AgreeInv, Sessions, SessionFits
<1>5. NewsFrom /\ Orders'
    BY <1>2, NoNews DEF AgreeInv, Orders
<1>6. link'[l] = k
    BY <1>2, <1>3, LinkChanged DEF RelayInv
<1>7. \A m \in Links \ {l}, c \in Conns : Untouched(m, c)
    BY <1>2 DEF Untouched, RelayInv, Types
<1>8. ASSUME NEW g \in Guests, NEW c \in Conns PROVE Stage(g, l, c)'
    <2>1. Untouched(l, c)
        BY <1>2, <1>3, <1>6 DEF Untouched
    <2> QED
        BY <1>2, <2>1, UntouchedStage DEF AgreeInv, Stages
<1>9. Kept /\ Sessions'
    BY <1>2, <1>3, <1>4, PhoneSessions DEF Kept
<1> QED
    BY <1>2, <1>3, <1>5, <1>7, <1>8, <1>9, PhoneAgrees

\* A link without a session is at no stage.
LEMMA OverStage == ASSUME NEW g \in Guests, NEW l \in Links, NEW c \in Conns, link'[l].session # c PROVE Stage(g, l, c)'
    BY DEF Stage, Meets

LEMMA OverIs == ASSUME NEW k \in LinkStates
                PROVE  SessionOver(k).session = NoOne /\ SessionOver(k).ws = NoOne
    BY DEF SessionOver, LinkStates

\* A session ends, and takes no other with it.
LEMMA OverAgrees ==
    ASSUME RelayInv, AgreeInv, UNCHANGED <<handler, table, hub, seat, up>>, NEW l \in Links,
           NEW d \in Conns, link[l].session = d, link' = [link EXCEPT ![l] = SessionOver(link[l])],
           \A c \in Conns : wire'[c] = "none" => wire[c] = "none",
           \A c \in Conns \ {d} : down'[c] = down[c] /\ wire'[c] = wire[c],
           down'[d] \in {down[d], <<>>}
    PROVE  AgreeInv'
<1>1. PICK k : k = SessionOver(link[l])
    OBVIOUS
<1>2. link[l] \in LinkStates /\ d # NoOne
    BY RelayAssumption DEF RelayInv, Types
<1>3. k \in LinkStates /\ k.session = NoOne /\ k.ws = NoOne
    BY <1>1, <1>2, OverFits, OverIs
<1>4. SessionFits(k)'
    BY <1>3 DEF SessionFits
<1>5. NewsFrom /\ Orders'
    BY AboutNone, NoNews DEF AgreeInv, Orders
<1>6. link'[l] = k
    BY <1>1, <1>3, LinkChanged DEF RelayInv
<1>7. ASSUME NEW m \in Links \ {l}, NEW c \in Conns, link[m].session = c PROVE Untouched(m, c)
    <2>1. c # d
        BY <1>2, <1>7 DEF AgreeInv, Sessions
    <2> QED
        BY <2>1 DEF Untouched, RelayInv, Types
<1>8. \A g \in Guests, c \in Conns : Stage(g, l, c)'
    BY <1>3, <1>6, OverStage, RelayAssumption
<1>9. Kept /\ Sessions'
    BY <1>1, <1>3, <1>4, PhoneSessions DEF Kept
<1> QED
    BY <1>1, <1>3, <1>5, <1>7, <1>8, <1>9, PhoneAgrees

LEMMA SeesAgrees == ASSUME RelayInv, AgreeInv, NEW l \in Links, PhoneSees(l) PROVE AgreeInv'
<1>1. link[l].session \in Conns
    BY DEF PhoneSees, RelayInv, Types, LinkStates
<1>2. link' = [link EXCEPT ![l] = SessionOver(link[l])] /\ UNCHANGED <<wire, down, up, handler, table, hub, seat>>
    BY DEF PhoneSees
<1> QED
    BY <1>1, <1>2, OverAgrees

LEMMA GivesUpAgrees == ASSUME RelayInv, AgreeInv, NEW l \in Links, GivesUp(l) PROVE AgreeInv'
<1>1. PICK d : d = link[l].session
    OBVIOUS
<1>2. d \in Conns
    BY <1>1 DEF GivesUp, RelayInv, Types, LinkStates
<1>3. /\ link' = [link EXCEPT ![l] = SessionOver(link[l])]
      /\ wire' = [wire EXCEPT ![d] = "hung"] /\ down' = [down EXCEPT ![d] = <<>>]
      /\ UNCHANGED <<up, handler, table, hub, seat>>
    BY <1>1 DEF GivesUp
<1>4. /\ \A c \in Conns : wire'[c] = "none" => wire[c] = "none"
      /\ \A c \in Conns \ {d} : down'[c] = down[c] /\ wire'[c] = wire[c]
      /\ down'[d] = <<>>
    BY <1>2, <1>3 DEF RelayInv, Types
<1> QED
    BY <1>1, <1>2, <1>3, <1>4, OverAgrees

\* A shut door leaves nothing to agree about.
LEMMA CloseAgrees == ASSUME RelayInv, AgreeInv, CloseRelay PROVE AgreeInv'
<1>1. PICK l \in Links : l = door
    BY DEF CloseRelay, RelayInv, Types
<1>2. PICK k : k = [link[l] EXCEPT !.on = FALSE, !.tunnels = {}]
    OBVIOUS
<1>3. PICK d : d = link[l].ws
    OBVIOUS
<1>4. link[l] \in LinkStates
    BY DEF RelayInv, Types
<1>5. /\ k \in LinkStates /\ k.session = link[l].session /\ k.ws = link[l].ws /\ k.tunnels = {}
    BY <1>2, <1>4 DEF LinkStates, TunnelSets
<1>6. /\ link' = [link EXCEPT ![l] = k] /\ UNCHANGED <<handler, table, hub, seat>>
      /\ IF d = NoOne THEN UNCHANGED <<wire, up, down>>
         ELSE /\ up' = UpWith(d, Plain("end"))
              /\ wire' = [wire EXCEPT ![d] = IF wire[d] = "up" THEN "hung" ELSE wire[d]]
              /\ down' = [down EXCEPT ![d] = <<>>]
    BY <1>1, <1>2, <1>3 DEF CloseRelay
<1>7. link'[l] = k /\ \A m \in Links \ {l} : link'[m] = link[m]
    BY <1>5, <1>6, LinkChanged DEF RelayInv
<1>8. d = NoOne \/ (d \in Conns /\ d = link[l].session)
    BY <1>3, <1>4 DEF AgreeInv, Sessions, SessionFits, LinkStates
<1>9. /\ \A c \in Conns : /\ wire'[c] = "none" => wire[c] = "none"
                          /\ About(up'[c]) = About(up[c])
                          /\ c # d => down'[c] = down[c] /\ wire'[c] = wire[c]
      /\ d # NoOne => down'[d] = <<>> /\ wire'[d] # "up"
    <2>1. CASE d = NoOne
        BY <1>6, <2>1
    <2>2. CASE d # NoOne
        <3>1. PICK msg : msg = Plain("end")
            OBVIOUS
        <3>2. msg \in Messages /\ msg.kind = "end"
            BY <3>1, MsgIsMessage DEF Plain, Kinds
        <3>3. up' = UpWith(d, msg) /\ d \in Conns
            BY <1>6, <1>8, <2>2, <3>1
        <3>4. \A c \in Conns : About(up'[c]) = About(up[c])
            BY <3>2, <3>3, UpTold
        <3> QED
            BY <1>6, <1>8, <2>2, <3>4 DEF RelayInv, Types
    <2> QED
        BY <2>1, <2>2
<1>10. SessionFits(k)'
    BY <1>4, <1>5, <1>9 DEF AgreeInv, Sessions, SessionFits, LinkStates
<1>11. Kept /\ Sessions'
    BY <1>5, <1>6, <1>9, <1>10, PhoneSessions DEF Kept
<1>12. NewsFrom /\ Orders'
    <2>1. \A c \in Conns : down'[c] \in {down[c], <<>>}
        BY <1>9, RelayAssumption
    <2> QED
        BY <1>9, <2>1, AboutNone, NoNews DEF AgreeInv, Orders
<1>13. ASSUME NEW m \in Links \ {l}, NEW c \in Conns, link[m].session = c PROVE Untouched(m, c)
    <2>1. c # d
        BY <1>8, <1>13, RelayAssumption DEF AgreeInv, Sessions
    <2> QED
        BY <1>7, <1>9, <2>1 DEF Untouched
<1>14. ASSUME NEW g \in Guests, NEW c \in Conns PROVE Stage(g, l, c)'
    <2> SUFFICES ASSUME Meets(g, l, c)' PROVE Apart(g, l, c)' /\ Known(g, l, c)'
        BY DEF Stage
    <2>1. link[l].session = c
        BY <1>5, <1>7 DEF Meets
    <2>2. CASE d = NoOne
        <3>1. Untouched(l, c)
            BY <1>3, <1>5, <1>6, <1>7, <2>1, <2>2, RelayAssumption DEF Untouched, AgreeInv, Sessions, SessionFits
        <3>2. Stage(g, l, c)'
            BY <1>6, <3>1, UntouchedStage DEF AgreeInv, Stages
        <3> QED
            BY <3>2 DEF Stage
    <2>3. CASE d # NoOne
        <3>1. About(down'[c]) = {} /\ wire'[c] # "up"
            BY <1>8, <1>9, <2>1, <2>3, AboutNone
        <3>2. ~Announced(g, c)' /\ ~Told(g, l)' /\ ~Serving(g, c)'
            BY <1>5, <1>7, <3>1 DEF Announced, Told, Serving
        <3> QED
            BY <3>2 DEF Apart, Known
    <2> QED
        BY <2>2, <2>3
<1> QED
    BY <1>5, <1>6, <1>11, <1>12, <1>13, <1>14, PhoneAgrees

\* A connection nobody has dialled is nobody's.
LEMMA DialAgrees == ASSUME RelayInv, AgreeInv, NEW l \in Links, NEW d \in Conns, Dial(l, d) PROVE AgreeInv'
<1>1. PICK k : k = [link[l] EXCEPT !.session = d]
    OBVIOUS
<1>2. PICK h : h = [handler[d] EXCEPT !.at = "upgraded", !.want = link[l].code]
    OBVIOUS
<1>3. /\ link[l].on /\ link[l].session = NoOne /\ wire[d] = "none"
      /\ link' = [link EXCEPT ![l] = k] /\ wire' = [wire EXCEPT ![d] = "up"]
      /\ handler' = [handler EXCEPT ![d] = h]
      /\ UNCHANGED <<down, up, table, hub, seat>>
    BY <1>1, <1>2 DEF Dial
<1>4. link[l] \in LinkStates /\ Fits(link[l]) /\ handler[d] \in HandlerStates /\ d # NoOne
    BY RelayAssumption DEF RelayInv, Types, LinksOK
<1>5. link[l].tunnels = {} /\ link[l].ws = NoOne
    BY <1>3, <1>4 DEF Fits, AgreeInv, Sessions, SessionFits
<1>6. k \in LinkStates /\ k.session = d /\ k.ws = NoOne /\ k.tunnels = {}
    BY <1>1, <1>4, <1>5 DEF LinkStates
<1>7. link'[l] = k /\ \A m \in Links \ {l} : link'[m] = link[m]
    BY <1>3, <1>6, LinkChanged DEF RelayInv
<1>8. /\ wire'[d] = "up" /\ \A c \in Conns \ {d} : wire'[c] = wire[c] /\ handler'[c] = handler[c]
      /\ handler'[d].table = handler[d].table
    BY <1>2, <1>3, <1>4 DEF RelayInv, Types, HandlerStates
<1>9. Kept
    BY <1>3, <1>8 DEF Kept
<1>10. \A m \in Links : link[m].session # d
    BY <1>3, <1>4 DEF AgreeInv, Sessions, SessionFits
<1>11. Sessions'
    <2>1. ASSUME NEW m \in Links PROVE SessionFits(link[m])'
        <3>1. CASE m = l
            BY <1>6, <1>7, <1>8, <3>1 DEF SessionFits
        <3>2. CASE m # l
            <4>1. link'[m] = link[m] /\ SessionFits(link[m]) /\ link[m].session \in Conns \cup {NoOne}
                BY <1>7, <3>2 DEF AgreeInv, Sessions, RelayInv, Types, LinkStates
            <4> QED
                BY <1>8, <1>10, <4>1 DEF SessionFits
        <3> QED
            BY <3>1, <3>2
    <2>2. \A m, n \in Links : link'[m].session # NoOne /\ link'[m].session = link'[n].session => m = n
        BY <1>6, <1>7, <1>10 DEF AgreeInv, Sessions
    <2> QED
        BY <2>1, <2>2 DEF Sessions
<1>12. NewsFrom /\ Orders'
    BY <1>3, NoNews DEF AgreeInv, Orders
<1>13. ASSUME NEW m \in Links \ {l}, NEW c \in Conns, link[m].session = c PROVE Untouched(m, c)
    BY <1>3, <1>7, <1>8, <1>10, <1>13 DEF Untouched
<1>14. ASSUME NEW g \in Guests, NEW c \in Conns PROVE Stage(g, l, c)'
    <2> SUFFICES ASSUME Meets(g, l, c)' PROVE FALSE
        BY DEF Stage
    <2>1. c = d /\ seat[g].at # "out" /\ seat[g].via = d
        BY <1>3, <1>6, <1>7 DEF Meets
    <2>2. handler[d].table = NoTable
        BY <1>3 DEF RelayInv, Hosts
    <2> QED
        BY <2>1, <2>2, TableNumbers DEF AgreeInv, Vias, RelayInv, Numbers
<1> QED
    BY <1>3, <1>6, <1>9, <1>11, <1>12, <1>13, <1>14, PhoneAgrees

\* What a message leaves at the phone.
LEMMA AfterIs ==
    ASSUME NEW k \in LinkStates, NEW c \in Conns, k.session = c, NEW msg \in Messages
    PROVE  /\ AfterMessage(k, c, msg).session = c
           /\ AfterMessage(k, c, msg).ws = IF msg.kind = "code" THEN c ELSE k.ws
           /\ AfterMessage(k, c, msg).tunnels =
                 CASE msg.kind = "open"  -> {u \in k.tunnels : u.id # msg.id} \cup {[id |-> msg.id, guest |-> msg.guest]}
                   [] msg.kind = "close" -> {u \in k.tunnels : u.id # msg.id}
                   [] OTHER -> k.tunnels
<1>1. CASE msg.kind = "code"
    BY <1>1 DEF AfterMessage, LinkStates
<1>2. CASE msg.kind = "open"
    BY <1>2 DEF AfterMessage, LinkStates
<1>3. CASE msg.kind = "close"
    BY <1>3 DEF AfterMessage, LinkStates
<1>4. CASE msg.kind \notin {"code", "open", "close"}
    BY <1>4 DEF AfterMessage, LinkStates
<1> QED
    BY <1>1, <1>2, <1>3, <1>4

\* One number is one guest's.
LEMMA OneNumber == ASSUME RelayInv, NEW t, NEW n, NEW g, NEW k, Right(t, n, g), Right(t, n, k) PROVE g = k
    BY DEF RelayInv, Numbers, Right

\* A guest on their connection has the number they have at its table.
LEMMA OnTheirTable == ASSUME AgreeInv, NEW g \in Guests, NEW c \in Conns, seat[g].at # "out", seat[g].via = c
                      PROVE  Right(handler[c].table, seat[g].id, g)
    BY DEF AgreeInv, Vias, Right

\* A message is read: an announcement becomes a tunnel, a hanging up ends one.
LEMMA ReadsAgrees == ASSUME RelayInv, AgreeInv, NEW l \in Links, PhoneReads(l) PROVE AgreeInv'
<1>1. PICK d : d = link[l].session
    OBVIOUS
<1>2. PICK msg : msg = Head(down[d])
    OBVIOUS
<1>3. PICK k : k = AfterMessage(link[l], d, msg)
    OBVIOUS
<1>4. link[l] \in LinkStates /\ d \in Conns /\ d # NoOne
    BY <1>1 DEF PhoneReads, RelayInv, Types, LinkStates
<1>5. /\ wire[d] = "up" /\ down[d] # <<>> /\ down[d] \in Seq(Messages)
      /\ link[l].ws = NoOne => msg.kind = "code"
      /\ link' = [link EXCEPT ![l] = k]
      /\ down' = [down EXCEPT ![d] = Tail(down[d])]
      /\ UNCHANGED <<wire, handler, table, hub, seat>>
    <2>1. /\ wire[d] = "up" /\ down[d] # <<>> /\ (link[l].ws = NoOne => msg.kind = "code")
          /\ down' = [down EXCEPT ![d] = Tail(down[d])] /\ UNCHANGED <<wire, handler, table, hub, seat>>
        BY <1>1, <1>2 DEF PhoneReads
    <2>2. link' = [link EXCEPT ![l] = k]
        BY <1>1, <1>2, <1>3 DEF PhoneReads
    <2>3. down[d] \in Seq(Messages)
        BY <1>4 DEF RelayInv, Types
    <2> QED
        BY <2>1, <2>2, <2>3
<1>6. msg \in Messages /\ MayGoDown(d, msg) /\ msg \in Under(down[d])
    BY <1>2, <1>4, <1>5, UnderHead DEF RelayInv, Wires
<1>7. k \in LinkStates
    BY <1>1, <1>3, <1>4, <1>5, <1>6, AfterFits
<1>8. /\ k.session = d /\ k.ws = IF msg.kind = "code" THEN d ELSE link[l].ws
      /\ k.tunnels = CASE msg.kind = "open"  -> {u \in link[l].tunnels : u.id # msg.id} \cup {[id |-> msg.id, guest |-> msg.guest]}
                       [] msg.kind = "close" -> {u \in link[l].tunnels : u.id # msg.id}
                       [] OTHER -> link[l].tunnels
    BY <1>1, <1>3, <1>4, <1>6, AfterIs
<1>9. link'[l] = k /\ \A m \in Links \ {l} : link'[m] = link[m]
    BY <1>5, <1>7, LinkChanged DEF RelayInv
<1>10. /\ down'[d] = Tail(down[d]) /\ \A c \in Conns \ {d} : down'[c] = down[c]
    BY <1>4, <1>5 DEF RelayInv, Types
<1>11. About(down[d]) = IF msg.kind \in {"open", "close"} THEN About(down'[d]) \cup {msg} ELSE About(down'[d])
    BY <1>2, <1>5, <1>10, AboutHead
<1>12. Ordered(down'[d]) /\ (msg.kind \in {"open", "close"} => \A m \in About(down'[d]) : m.kind = "open" => m.id # msg.id)
    BY <1>2, <1>4, <1>5, <1>10, OrderedTail DEF AgreeInv, Orders
<1>13. \A c \in Conns : About(up'[c]) = About(up[c])
    <2>1. CASE up' = up
        BY <2>1
    <2>2. CASE up' # up
        <3>1. PICK u \in link[l].tunnels : up' = UpWith(d, Msg("frame", u.id, u.guest))
            <4>1. PICK T : T = {u \in link[l].tunnels : msg.kind = "frame" /\ u.id = msg.id}
                OBVIOUS
            <4>2. up' = IF T = {} THEN up ELSE UpWith(d, Msg("frame", (CHOOSE u \in T : TRUE).id, (CHOOSE u \in T : TRUE).guest))
                BY <1>1, <1>2, <4>1 DEF PhoneReads
            <4>3. PICK u : u = CHOOSE w \in T : TRUE
                OBVIOUS
            <4>4. T # {} => u \in T
                BY <4>3
            <4>5. u \in link[l].tunnels /\ up' = UpWith(d, Msg("frame", u.id, u.guest))
                BY <2>2, <4>1, <4>2, <4>3, <4>4
            <4> QED
                BY <4>5
        <3>2. u.id \in Nat /\ u.guest \in Guests \cup {NoOne}
            BY <1>4, <3>1 DEF LinkStates, TunnelSets
        <3>3. PICK m : m = Msg("frame", u.id, u.guest)
            OBVIOUS
        <3>4. m \in Messages /\ m.kind = "frame"
            BY <3>2, <3>3, MsgIsMessage DEF Kinds
        <3> QED
            BY <1>4, <3>1, <3>3, <3>4, UpTold
    <2> QED
        BY <2>1, <2>2
<1>14. msg.kind \in {"open", "close"} => MayTell(d, msg)
    BY <1>4, <1>11 DEF AgreeInv, News
<1>15. Kept /\ Sessions'
    <2>1. SessionFits(k)'
        <3>1. SessionFits(link[l])
            BY DEF AgreeInv, Sessions
        <3> QED
            BY <1>1, <1>4, <1>5, <1>8, <3>1 DEF SessionFits
    <2> QED
        BY <1>1, <1>5, <1>7, <1>8, <2>1, PhoneSessions DEF Kept
<1>16. NewsFrom /\ Orders'
    <2>1. \A c \in Conns : About(down'[c]) \subseteq About(down[c])
        BY <1>10, <1>11
    <2> QED
        BY <1>10, <1>12, <1>13, <2>1, NoNews DEF AgreeInv, Orders
<1>17. ASSUME NEW u \in k.tunnels PROVE u \in link[l].tunnels \/ seat[u.guest].via = d
    <2>1. CASE msg.kind = "open" /\ u = [id |-> msg.id, guest |-> msg.guest]
        <3>1. seat[msg.guest].via = d
            BY <1>14, <2>1 DEF MayTell, Msg
        <3> QED
            BY <2>1, <3>1
    <2>2. CASE ~(msg.kind = "open" /\ u = [id |-> msg.id, guest |-> msg.guest])
        BY <1>8, <1>17, <2>2
    <2> QED
        BY <2>1, <2>2
<1>18. ASSUME NEW m \in Links \ {l}, NEW c \in Conns, link[m].session = c PROVE Untouched(m, c)
    <2>1. c # d
        BY <1>1, <1>4, <1>18 DEF AgreeInv, Sessions
    <2> QED
        BY <1>5, <1>9, <1>10, <1>13, <2>1 DEF Untouched
<1>19. ASSUME NEW g \in Guests, NEW c \in Conns PROVE Stage(g, l, c)'
    <2> SUFFICES ASSUME Meets(g, l, c)' PROVE Apart(g, l, c)' /\ Known(g, l, c)'
        BY DEF Stage
    <2>1. c = d /\ seat[g].at # "out" /\ seat[g].via = d
        BY <1>5, <1>8, <1>9 DEF Meets
    <2>2. Apart(g, l, d) /\ Known(g, l, d)
        BY <1>1, <1>4, <2>1 DEF AgreeInv, Stages, Stage, Meets
    <2>3. PICK n : n = seat[g].id
        OBVIOUS
    <2>4. Right(handler[d].table, n, g)
        BY <1>4, <2>1, <2>3, OnTheirTable
    <2>5. HungUp(g, d)' = HungUp(g, d) /\ Serving(g, d)' = Serving(g, d) /\ seat' = seat
        BY <1>4, <1>5, <1>13 DEF HungUp, Serving
    <2>6. Told(g, l)' <=> [id |-> n, guest |-> g] \in k.tunnels
        BY <1>5, <1>9, <2>3 DEF Told
    <2>7. Told(g, l) <=> [id |-> n, guest |-> g] \in link[l].tunnels
        BY <2>3 DEF Told
    <2>8. CASE msg.kind = "open" /\ msg.id = n
        <3>1. Right(handler[d].table, n, msg.guest)
            BY <1>6, <2>8 DEF MayGoDown
        <3>2. msg.guest = g /\ msg = Msg("open", n, g)
            <4>1. msg.guest = g
                BY <2>4, <3>1, OneNumber
            <4>2. msg = Msg("open", msg.id, msg.guest)
                BY <1>14, <2>8 DEF MayTell, Msg
            <4> QED
                BY <2>8, <4>1, <4>2
        <3>3. Announced(g, d)
            BY <1>11, <2>3, <2>8, <3>2 DEF Announced
        <3>4. ~Announced(g, d)'
            BY <1>5, <1>12, <2>3, <2>8 DEF Announced, Msg
        <3>5. Told(g, l)'
            BY <1>8, <2>6, <2>8, <3>2
        <3>6. Going(g, d) => Going(g, d)'
            BY <1>5, <1>11, <2>8 DEF Going, Msg
        <3> QED
            BY <2>1, <2>2, <2>5, <3>3, <3>4, <3>5, <3>6 DEF Apart, Known
    <2>9. CASE msg.kind = "close" /\ msg.id = n
        <3>1. seat[g].at = "closed"
            <4>1. PICK e \in Guests : Right(handler[d].table, msg.id, e) /\ seat[e].at = "closed"
                BY <1>14, <2>9 DEF MayTell, Msg
            <4> QED
                BY <2>4, <2>9, <4>1, OneNumber
        <3>2. ~Announced(g, d)'
            BY <1>5, <1>12, <2>3, <2>9 DEF Announced, Msg
        <3>3. ~Told(g, l)'
            BY <1>8, <2>6, <2>9
        <3> QED
            BY <2>1, <2>5, <3>1, <3>2, <3>3 DEF Apart, Known
    <2>10. CASE ~(msg.kind \in {"open", "close"} /\ msg.id = n)
        <3>1. Announced(g, d)' = Announced(g, d) /\ Going(g, d)' = Going(g, d)
            BY <1>5, <1>11, <2>3, <2>10 DEF Announced, Going, Msg
        <3>2. Told(g, l)' <=> Told(g, l)
            <4>1. CASE msg.kind \in {"open", "close"}
                <5>1. msg.id # n
                    BY <2>10, <4>1
                <5>2. [id |-> n, guest |-> g] \in k.tunnels <=> [id |-> n, guest |-> g] \in link[l].tunnels
                    BY <1>8, <4>1, <5>1
                <5> QED
                    BY <2>6, <2>7, <5>2
            <4>2. CASE msg.kind \notin {"open", "close"}
                BY <1>8, <2>6, <2>7, <4>2
            <4> QED
                BY <4>1, <4>2
        <3> QED
            BY <2>1, <2>2, <2>5, <3>1, <3>2 DEF Apart, Known
    <2> QED
        BY <2>8, <2>9, <2>10
<1> QED
    BY <1>1, <1>4, <1>5, <1>7, <1>8, <1>9, <1>15, <1>16, <1>17, <1>18, <1>19, PhoneAgrees

\* A tunnel ends, and its guest's hanging up is on its way.
LEMMA TunnelAgrees == ASSUME RelayInv, AgreeInv, NEW l \in Links, NEW u \in link[l].tunnels, TunnelEnds(l, u) PROVE AgreeInv'
<1>1. PICK d : d = link[l].ws
    OBVIOUS
<1>2. PICK k : k = [link[l] EXCEPT !.tunnels = link[l].tunnels \ {u}]
    OBVIOUS
<1>3. PICK msg : msg = Msg("close", u.id, NoOne)
    OBVIOUS
<1>4. link[l] \in LinkStates /\ Fits(link[l]) /\ SessionFits(link[l])
    BY DEF RelayInv, Types, LinksOK, AgreeInv, Sessions
<1>5. /\ d # NoOne /\ link' = [link EXCEPT ![l] = k] /\ up' = UpWith(d, msg)
      /\ UNCHANGED <<wire, down, handler, table, hub, seat>>
    BY <1>1, <1>2, <1>3 DEF TunnelEnds
<1>6. d \in Conns /\ d = link[l].session
    BY <1>1, <1>4, <1>5 DEF SessionFits, LinkStates
<1>7. k \in LinkStates /\ k.session = d /\ k.ws = d /\ k.tunnels = link[l].tunnels \ {u}
    BY <1>1, <1>2, <1>4, <1>6 DEF LinkStates, TunnelSets
<1>8. link'[l] = k /\ \A m \in Links \ {l} : link'[m] = link[m]
    BY <1>5, <1>7, LinkChanged DEF RelayInv
<1>9. u.id \in Nat /\ Right(handler[d].table, u.id, u.guest) /\ seat[u.guest].via = d /\ u = [id |-> u.id, guest |-> u.guest]
    BY <1>4, <1>5, <1>6 DEF Fits, LinkStates, TunnelSets, AgreeInv, Tunnels
<1>10. msg \in Messages /\ msg.kind = "close" /\ msg.id = u.id
    BY <1>3, <1>9, MsgIsMessage DEF Kinds
<1>11. \A c \in Conns : About(up'[c]) = IF c = d /\ wire[d] = "up" THEN About(up[c]) \cup {msg} ELSE About(up[c])
    BY <1>5, <1>6, <1>10, UpTold
<1>12. Kept /\ Sessions'
    <2>1. SessionFits(k)'
        BY <1>4, <1>5, <1>6, <1>7 DEF SessionFits
    <2> QED
        BY <1>5, <1>6, <1>7, <2>1, PhoneSessions DEF Kept
<1>13. NewsFrom /\ Orders'
    <2>1. MayHangUp(d, msg)'
        <3>1. u.guest \in Guests /\ Right(handler[d].table, u.id, u.guest)'
            BY <1>5, <1>9 DEF Right
        <3> QED
            BY <1>3, <1>5, <1>9, <1>10, <3>1 DEF MayHangUp
    <2>2. NewsFrom
        BY <1>5, <1>11, <2>1 DEF NewsFrom
    <2> QED
        BY <1>5, <2>2 DEF AgreeInv, Orders
<1>14. ASSUME NEW m \in Links \ {l}, NEW c \in Conns, link[m].session = c PROVE Untouched(m, c)
    <2>1. c # d
        BY <1>5, <1>6, <1>14 DEF AgreeInv, Sessions
    <2> QED
        BY <1>5, <1>8, <1>11, <2>1 DEF Untouched
<1>15. ASSUME NEW g \in Guests, NEW c \in Conns PROVE Stage(g, l, c)'
    <2> SUFFICES ASSUME Meets(g, l, c)' PROVE Apart(g, l, c)' /\ Known(g, l, c)'
        BY DEF Stage
    <2>1. c = d /\ seat[g].at # "out" /\ seat[g].via = d
        BY <1>5, <1>7, <1>8 DEF Meets
    <2>2. Apart(g, l, d) /\ Known(g, l, d)
        BY <1>6, <2>1 DEF AgreeInv, Stages, Stage, Meets
    <2>3. Right(handler[d].table, seat[g].id, g)
        BY <1>6, <2>1, OnTheirTable
    <2>4. Announced(g, d)' = Announced(g, d) /\ Going(g, d)' = Going(g, d) /\ Serving(g, d)' = Serving(g, d)
        BY <1>5, <1>6 DEF Announced, Going, Serving
    <2>5. CASE u.guest = g
        <3>1. u.id = seat[g].id
            BY <1>9, <2>5 DEF Right
        <3>2. Told(g, l) /\ ~Told(g, l)'
            BY <1>5, <1>7, <1>8, <1>9, <2>5, <3>1 DEF Told
        <3>3. Serving(g, d) => HungUp(g, d)'
            BY <1>3, <1>5, <1>6, <1>11, <3>1 DEF HungUp, Serving
        <3> QED
            BY <1>5, <2>1, <2>2, <2>4, <3>2, <3>3 DEF Apart, Known
    <2>6. CASE u.guest # g
        <3>1. u.id # seat[g].id
            BY <1>9, <2>3, <2>6, OneNumber
        <3>2. Told(g, l)' = Told(g, l)
            BY <1>5, <1>7, <1>8, <2>6 DEF Told
        <3>3. HungUp(g, d)' <=> HungUp(g, d)
            <4>1. Msg("close", seat[g].id, NoOne) # msg
                BY <1>3, <3>1 DEF Msg
            <4>2. Msg("close", seat[g].id, NoOne) \in About(up'[d]) <=> Msg("close", seat[g].id, NoOne) \in About(up[d])
                BY <1>6, <1>11, <4>1
            <4> QED
                BY <1>5, <4>2 DEF HungUp
        <3> QED
            BY <1>5, <2>1, <2>2, <2>4, <3>2, <3>3 DEF Apart, Known
    <2> QED
        BY <2>5, <2>6
<1> QED
    BY <1>5, <1>6, <1>7, <1>12, <1>13, <1>14, <1>15, PhoneAgrees

-----------------------------------------------------------------------------
(* The relay's steps, and the network's *)

\* A step that changes no link, and in which nobody comes.
LEMMA RelayAgrees ==
    ASSUME RelayInv, AgreeInv, Kept, Stays, NobodyComes, link' = link,
           \A c \in Conns : wire'[c] = "none" => wire[c] = "none", NewsFrom, Orders',
           \A g \in Guests, l \in Links, c \in Conns : Stage(g, l, c)'
    PROVE  AgreeInv'
<1>1. News' /\ Vias'
    BY NewsKeep, ViasKeep
<1>2. Tunnels'
    BY TunnelsKeep
<1>3. Sessions'
    BY SameSessions
<1>4. Stages'
    BY DEF Stages
<1> QED
    BY <1>1, <1>2, <1>3, <1>4 DEF AgreeInv

\* One that changes no seat either, and leaves every connection that serves as
\* it was.
LEMMA SeatsStay ==
    ASSUME RelayInv, AgreeInv, Kept, link' = link, seat' = seat,
           \A c \in Conns : /\ wire'[c] = "none" => wire[c] = "none"
                            /\ Ordered(down'[c])
                            /\ About(down'[c]) \subseteq About(down[c]) /\ About(up'[c]) \subseteq About(up[c])
                            /\ wire'[c] = "up" => /\ wire[c] = "up" \/ handler[c].table = NoTable
                                                  /\ About(down[c]) \subseteq About(down'[c])
                                                  /\ About(up[c]) \subseteq About(up'[c]),
           \A t \in Tables : table'[t].host \in {table[t].host, NoOne} \/ handler[table'[t].host].table = NoTable
    PROVE  AgreeInv'
<1>1. Stays /\ NobodyComes
    BY DEF Stays, NobodyComes
<1>2. NewsFrom /\ Orders'
    BY NoNews DEF Orders
<1>3. ASSUME NEW g \in Guests, NEW l \in Links, NEW c \in Conns PROVE Stage(g, l, c)'
    <2>1. ASSUME Meets(g, l, c)'
          PROVE  /\ link[l].session = c
                 /\ Announced(g, c)' => Announced(g, c)
                 /\ Told(g, l)' => Told(g, l)
                 /\ HungUp(g, c)' => HungUp(g, c)
                 /\ Serving(g, c)' =>
                     /\ Serving(g, c) /\ seat'[g].at = seat[g].at
                     /\ Announced(g, c) => Announced(g, c)'
                     /\ Told(g, l) => Told(g, l)'
                     /\ HungUp(g, c) => HungUp(g, c)'
                     /\ Going(g, c) => Going(g, c)'
        <3>1. link[l].session = c /\ seat[g].at # "out" /\ seat[g].via = c
            BY <2>1 DEF Meets
        <3>2. seat[g].table \in Tables /\ handler[c].table = seat[g].table /\ handler[c].table # NoTable
            BY <3>1, TableNumbers DEF AgreeInv, Vias, RelayInv, Numbers
        <3>3. Told(g, l)' <=> Told(g, l)
            BY DEF Told
        <3>4. (Announced(g, c)' => Announced(g, c)) /\ (HungUp(g, c)' => HungUp(g, c))
            BY DEF Announced, HungUp
        <3>5. Serving(g, c)' => Serving(g, c)
            BY <3>2, RelayAssumption DEF Serving
        <3>6. Serving(g, c)' => /\ Announced(g, c) => Announced(g, c)'
                                /\ HungUp(g, c) => HungUp(g, c)'
                                /\ Going(g, c) => Going(g, c)'
            BY DEF Serving, Announced, HungUp, Going
        <3> QED
            BY <3>1, <3>3, <3>4, <3>5, <3>6
    <2>2. Stage(g, l, c)
        BY DEF AgreeInv, Stages
    <2> QED
        BY <1>1, <2>1, <2>2, StageKeeps DEF NobodyComes
<1> QED
    BY <1>1, <1>2, <1>3, RelayAgrees

LEMMA CutAgrees == ASSUME RelayInv, AgreeInv, NEW d \in Conns, Cut(d) PROVE AgreeInv'
<1>1. /\ wire' = [wire EXCEPT ![d] = "cut"] /\ down' = [down EXCEPT ![d] = <<>>] /\ up' = [up EXCEPT ![d] = <<>>]
      /\ UNCHANGED <<link, handler, table, seat>>
    BY DEF Cut
<1>2. /\ wire'[d] = "cut" /\ down'[d] = <<>> /\ up'[d] = <<>>
      /\ \A c \in Conns \ {d} : wire'[c] = wire[c] /\ down'[c] = down[c] /\ up'[c] = up[c]
    BY <1>1 DEF RelayInv, Types
<1>3. Kept
    BY <1>1 DEF Kept
<1>4. ASSUME NEW c \in Conns
      PROVE  /\ wire'[c] = "none" => wire[c] = "none"
             /\ Ordered(down'[c])
             /\ About(down'[c]) \subseteq About(down[c]) /\ About(up'[c]) \subseteq About(up[c])
             /\ wire'[c] = "up" => /\ wire[c] = "up"
                                   /\ About(down[c]) \subseteq About(down'[c])
                                   /\ About(up[c]) \subseteq About(up'[c])
    BY <1>2, AboutNone DEF AgreeInv, Orders
<1> QED
    BY <1>1, <1>3, <1>4, SeatsStay

\* A connection that becomes the host is nobody's yet; the one whose place it
\* takes serves no longer.
LEMMA AttachAgrees == ASSUME RelayInv, AgreeInv, NEW d \in Conns, Attach(d) PROVE AgreeInv'
<1>1. handler[d].at = "upgraded" /\ handler[d].table = NoTable /\ UNCHANGED <<link, up, seat>>
    BY DEF Attach, RelayInv, Hosts
<1>2. Kept
    <2>1. \A c \in Conns \ {d} : handler'[c] = handler[c]
        BY DEF Attach, TakesOver, NewTable, Serves, RelayInv, Types
    <2> QED
        BY <1>1, <2>1 DEF Kept
<1>3. CASE TakesOver(d)
    <2>1. PICK old : old = table[hub].host
        OBVIOUS
    <2>2. hub \in Tables /\ old \in Conns \cup {NoOne}
        BY <1>3, <2>1 DEF TakesOver, RelayInv, Types, TableStates
    <2>3. /\ table' = [table EXCEPT ![hub] = [table[hub] EXCEPT !.host = d]]
          /\ IF old = NoOne THEN UNCHANGED <<wire, down>>
             ELSE /\ wire' = [wire EXCEPT ![old] = IF wire[old] = "up" THEN "cut" ELSE wire[old]]
                  /\ down' = [down EXCEPT ![old] = <<>>]
        BY <1>3, <2>1 DEF TakesOver, HostedBy
    <2>4. table'[hub].host = d /\ \A t \in Tables \ {hub} : table'[t] = table[t]
        BY <2>2, <2>3 DEF RelayInv, Types, TableStates
    <2>5. /\ \A c \in Conns \ {old} : wire'[c] = wire[c] /\ down'[c] = down[c]
          /\ old # NoOne => wire'[old] # "up" /\ down'[old] = <<>> /\ (wire'[old] = "none" => wire[old] = "none")
        <3>1. CASE old = NoOne
            BY <2>3, <3>1
        <3>2. CASE old # NoOne
            BY <2>2, <2>3, <3>2 DEF RelayInv, Types
        <3> QED
            BY <3>1, <3>2
    <2>6. ASSUME NEW c \in Conns
          PROVE  /\ wire'[c] = "none" => wire[c] = "none"
                 /\ Ordered(down'[c])
                 /\ About(down'[c]) \subseteq About(down[c]) /\ About(up'[c]) \subseteq About(up[c])
                 /\ wire'[c] = "up" => /\ wire[c] = "up"
                                       /\ About(down[c]) \subseteq About(down'[c])
                                       /\ About(up[c]) \subseteq About(up'[c])
        BY <1>1, <2>5, AboutNone, RelayAssumption DEF AgreeInv, Orders
    <2> QED
        BY <1>1, <1>2, <2>4, <2>6, SeatsStay
<1>4. ASSUME NEW t \in Tables, NewTable(d, t) PROVE AgreeInv'
    <2>1. UNCHANGED <<wire, down>>
        BY <1>4 DEF NewTable
    <2>2. table'[t].host = d /\ \A s \in Tables \ {t} : table'[s] = table[s]
        BY <1>4 DEF NewTable, RelayInv, Types
    <2>3. \A c \in Conns : Ordered(down'[c])
        BY <2>1 DEF AgreeInv, Orders
    <2> QED
        BY <1>1, <1>2, <2>1, <2>2, <2>3, SeatsStay
<1> QED
    BY <1>3, <1>4 DEF Attach

LEMMA NamedAgrees == ASSUME RelayInv, AgreeInv, NEW d \in Conns, Named(d) PROVE AgreeInv'
<1>1. PICK t : t = handler[d].table
    OBVIOUS
<1>2. PICK h : h = table[t].host
    OBVIOUS
<1>3. PICK msg : msg = Msg("code", table[t].code, NoOne)
    OBVIOUS
<1>4. handler[d].at = "attached" /\ down' = DownWith(h, msg) /\ UNCHANGED <<link, wire, up, table, seat>>
    BY <1>1, <1>2, <1>3 DEF Named
<1>5. Kept
    BY DEF Named, Kept, RelayInv, Types, HandlerStates
<1>6. t \in Tables
    BY <1>1, <1>4 DEF RelayInv, Types, HandlerStates, Hosts
<1>7. h \in Conns \cup {NoOne} /\ table[t].code \in Nat
    BY <1>2, <1>6 DEF RelayInv, Types, TableStates
<1>8. msg \in Messages /\ msg.kind = "code"
    BY <1>3, <1>7, MsgIsMessage DEF Kinds
<1>9. \A c \in Conns : About(down'[c]) = About(down[c]) /\ Ordered(down'[c])
    BY <1>4, <1>7, <1>8, DownTold DEF AgreeInv
<1> QED
    BY <1>4, <1>5, <1>9, SeatsStay

LEMMA ForgetAgrees == ASSUME RelayInv, AgreeInv, NEW d \in Conns, Forget(d) PROVE AgreeInv'
<1>1. UNCHANGED <<link, wire, down, up, table, seat>>
    BY DEF Forget
<1>2. Kept
    BY DEF Forget, Kept, RelayInv, Types, HandlerStates
<1>3. \A c \in Conns : Ordered(down'[c])
    BY <1>1 DEF AgreeInv, Orders
<1> QED
    BY <1>1, <1>2, <1>3, SeatsStay

\* When the connection of a table goes, its guests go, and it serves nobody.
LEMMA GoneAgrees ==
    ASSUME RelayInv, AgreeInv, NEW d \in Conns, NEW ended \in BOOLEAN, handler[d].at = "serving", HostGone(d, ended),
           UNCHANGED down, \A c \in Conns : About(up'[c]) = About(up[c])
    PROVE  AgreeInv'
<1>1. PICK t : t = handler[d].table
    OBVIOUS
<1>2. t \in Tables /\ UNCHANGED <<link, wire>>
    BY <1>1 DEF RelayInv, Types, HandlerStates, Hosts, HostGone
<1>3. Kept
    <2>1. \A c \in Conns : handler'[c].table = handler[c].table
        <3>1. PICK at \in {"ending", "over"} : handler' = [handler EXCEPT ![d].at = at]
            BY DEF HostGone
        <3> QED
            BY <3>1 DEF RelayInv, Types, HandlerStates
    <2>2. \/ seat' = seat
          \/ seat' = [g \in Guests |-> IF g \in GuestsOf(t) THEN [seat[g] EXCEPT !.at = "closed"] ELSE seat[g]]
        BY <1>1 DEF HostGone
    <2>3. seat \in [Guests -> SeatStates]
        BY DEF RelayInv, Types
    <2>4. \A g \in Guests : seat'[g].table = seat[g].table /\ seat'[g].id = seat[g].id /\ (seat'[g].at = "out" <=> seat[g].at = "out")
        BY <2>2, <2>3 DEF SeatStates, GuestsOf
    <2> QED
        BY <2>1, <2>4 DEF Kept
<1>4. \/ UNCHANGED <<table, seat>>
      \/ /\ table' = [table EXCEPT ![t].host = NoOne]
         /\ seat' = [g \in Guests |-> IF g \in GuestsOf(t) THEN [seat[g] EXCEPT !.at = "closed"] ELSE seat[g]]
    BY <1>1 DEF HostGone
<1>5. CASE UNCHANGED <<table, seat>>
    <2>1. \A c \in Conns : Ordered(down'[c])
        BY DEF AgreeInv, Orders
    <2> QED
        BY <1>2, <1>3, <1>5, <2>1, SeatsStay
<1>6. CASE /\ table' = [table EXCEPT ![t].host = NoOne]
           /\ seat' = [g \in Guests |-> IF g \in GuestsOf(t) THEN [seat[g] EXCEPT !.at = "closed"] ELSE seat[g]]
    <2>1. \A g \in Guests : seat[g] \in SeatStates
        BY DEF RelayInv, Types
    <2>2. \A g \in Guests : /\ seat'[g].via = seat[g].via /\ seat'[g].id = seat[g].id /\ seat'[g].table = seat[g].table
                            /\ seat'[g].at = seat[g].at \/ (seat[g].table = t /\ seat[g].at = "in" /\ seat'[g].at = "closed")
        BY <1>6, <2>1 DEF SeatStates, GuestsOf
    <2>3. Stays /\ NobodyComes
        BY <2>2 DEF Stays, NobodyComes
    <2>4. table'[t].host = NoOne /\ \A s \in Tables \ {t} : table'[s] = table[s]
        BY <1>2, <1>6 DEF RelayInv, Types, TableStates
    <2>5. NewsFrom /\ Orders'
        BY NoNews DEF AgreeInv, Orders
    <2>6. ASSUME NEW g \in Guests, NEW l \in Links, NEW c \in Conns PROVE Stage(g, l, c)'
        <3>1. ASSUME Meets(g, l, c)'
              PROVE  /\ link[l].session = c
                     /\ Announced(g, c)' => Announced(g, c)
                     /\ Told(g, l)' => Told(g, l)
                     /\ HungUp(g, c)' => HungUp(g, c)
                     /\ Serving(g, c)' =>
                         /\ Serving(g, c) /\ seat'[g].at = seat[g].at
                         /\ Announced(g, c) => Announced(g, c)'
                         /\ Told(g, l) => Told(g, l)'
                         /\ HungUp(g, c) => HungUp(g, c)'
                         /\ Going(g, c) => Going(g, c)'
            <4>1. /\ Announced(g, c)' <=> Announced(g, c)
                  /\ Told(g, l)' <=> Told(g, l)
                  /\ HungUp(g, c)' <=> HungUp(g, c)
                  /\ Going(g, c)' <=> Going(g, c)
                BY <1>2, <2>2 DEF Announced, Told, HungUp, Going
            <4>2. seat[g].table \in Tables
                BY <2>2, <3>1 DEF Meets, RelayInv, Numbers
            <4>3. Serving(g, c)' => Serving(g, c) /\ seat'[g].at = seat[g].at
                BY <1>2, <2>2, <2>4, <4>2, RelayAssumption DEF Serving
            <4> QED
                BY <1>2, <3>1, <4>1, <4>3 DEF Meets
        <3>2. Stage(g, l, c)
            BY DEF AgreeInv, Stages
        <3> QED
            BY <1>3, <2>3, <3>1, <3>2, StageKeeps DEF NobodyComes
    <2> QED
        BY <1>2, <1>3, <2>3, <2>5, <2>6, RelayAgrees
<1> QED
    BY <1>4, <1>5, <1>6

LEMMA EndsAgrees == ASSUME RelayInv, AgreeInv, NEW d \in Conns, HandlerEnds(d) PROVE AgreeInv'
<1>1. handler[d].at = "serving" /\ HostGone(d, FALSE) /\ UNCHANGED <<down, up>>
    BY DEF HandlerEnds
<1> QED
    BY <1>1, GoneAgrees

LEMMA HearsAgrees == ASSUME RelayInv, AgreeInv, NEW d \in Conns, HandlerHearsEnd(d) PROVE AgreeInv'
<1>1. /\ handler[d].at = "serving" /\ HostGone(d, TRUE) /\ UNCHANGED down
      /\ up[d] # <<>> /\ Head(up[d]).kind = "end" /\ up' = [up EXCEPT ![d] = Tail(up[d])] /\ up[d] \in Seq(Messages)
    BY DEF HandlerHearsEnd, RelayInv, Types
<1>2. About(Tail(up[d])) = About(up[d])
    BY <1>1, AboutHead
<1>3. \A c \in Conns : About(up'[c]) = About(up[c])
    BY <1>1, <1>2 DEF RelayInv, Types
<1> QED
    BY <1>1, <1>3, GoneAgrees

\* A guest the phone hangs up is gone on both sides.
LEMMA CarryAgrees == ASSUME RelayInv, AgreeInv, NEW d \in Conns, Carry(d) PROVE AgreeInv'
<1>1. PICK t : t = handler[d].table
    OBVIOUS
<1>2. PICK msg : msg = Head(up[d])
    OBVIOUS
<1>3. PICK to : to = {g \in GuestsOf(t) : seat[g].id = msg.id}
    OBVIOUS
<1>4. /\ up[d] \in Seq(Messages) /\ up[d] # <<>> /\ up' = [up EXCEPT ![d] = Tail(up[d])]
      /\ seat' = [g \in Guests |-> IF g \in to /\ msg.kind = "close" THEN [seat[g] EXCEPT !.at = "closed"] ELSE seat[g]]
      /\ UNCHANGED <<link, wire, down, handler, table>>
    BY <1>1, <1>2, <1>3 DEF Carry, RelayInv, Types
<1>5. /\ up'[d] = Tail(up[d]) /\ \A c \in Conns \ {d} : up'[c] = up[c]
    BY <1>4 DEF RelayInv, Types
<1>6. About(up[d]) = IF msg.kind \in {"open", "close"} THEN About(up'[d]) \cup {msg} ELSE About(up'[d])
    BY <1>2, <1>4, <1>5, AboutHead
<1>7. \A g \in Guests : seat[g] \in SeatStates
    BY DEF RelayInv, Types
<1>8. \A g \in Guests : /\ seat'[g].via = seat[g].via /\ seat'[g].id = seat[g].id /\ seat'[g].table = seat[g].table
                        /\ \/ seat'[g].at = seat[g].at
                           \/ /\ msg.kind = "close" /\ Right(t, msg.id, g)
                              /\ seat[g].at = "in" /\ seat'[g].at = "closed"
    BY <1>3, <1>4, <1>7 DEF SeatStates, GuestsOf, Right
<1>9. Kept /\ Stays /\ NobodyComes
    BY <1>4, <1>8 DEF Kept, Stays, NobodyComes
<1>10. NewsFrom /\ Orders'
    BY <1>4, <1>5, <1>6, NoNews DEF AgreeInv, Orders
<1>11. msg.kind \in {"open", "close"} => /\ msg = Msg("close", msg.id, NoOne)
                                         /\ \E g \in Guests : Right(t, msg.id, g) /\ seat[g].via = d
    BY <1>1, <1>6 DEF AgreeInv, News, MayHangUp
<1>12. ASSUME NEW g \in Guests, NEW l \in Links, NEW c \in Conns PROVE Stage(g, l, c)'
    <2>1. Stage(g, l, c)
        BY DEF AgreeInv, Stages
    <2>2. /\ Announced(g, c)' <=> Announced(g, c)
          /\ Told(g, l)' <=> Told(g, l)
          /\ Going(g, c)' <=> Going(g, c)
          /\ Serving(g, c)' <=> Serving(g, c)
        BY <1>4, <1>8 DEF Announced, Told, Going, Serving
    <2>3. HungUp(g, c)' => HungUp(g, c)
        BY <1>5, <1>6, <1>8 DEF HungUp
    <2>4. CASE c = d /\ msg.kind = "close" /\ seat[g].id = msg.id
        <3> SUFFICES ASSUME Meets(g, l, c)' PROVE Apart(g, l, c)' /\ Known(g, l, c)'
            BY DEF Stage
        <3>1. Meets(g, l, c)
            BY <1>4, <1>8 DEF Meets
        <3>2. HungUp(g, c)
            BY <1>6, <1>11, <2>4 DEF HungUp
        <3>3. Apart(g, l, c)
            BY <2>1, <3>1 DEF Stage
        <3>4. Right(t, msg.id, g)
            BY <1>1, <2>4, <3>1, OnTheirTable DEF Meets
        <3>5. seat'[g].at = "closed"
            <4>1. seat[g].at \in {"in", "closed"}
                BY <1>7, <3>4 DEF Right, SeatStates
            <4>2. seat[g].at = "in" => g \in to
                BY <1>3, <3>4 DEF Right, GuestsOf
            <4> QED
                BY <1>4, <1>8, <2>4, <4>1, <4>2
        <3> QED
            BY <2>2, <2>3, <3>2, <3>3, <3>5 DEF Apart, Known
    <2>5. CASE ~(c = d /\ msg.kind = "close" /\ seat[g].id = msg.id)
        <3>1. HungUp(g, c) => HungUp(g, c)'
            <4>1. CASE c = d
                <5>1. msg.kind \in {"open", "close"} => Msg("close", seat[g].id, NoOne) # msg
                    BY <1>11, <2>5, <4>1 DEF Msg
                <5> QED
                    BY <1>6, <1>8, <4>1, <5>1 DEF HungUp
            <4>2. CASE c # d
                BY <1>5, <1>8, <4>2 DEF HungUp
            <4> QED
                BY <4>1, <4>2
        <3>2. ASSUME Meets(g, l, c)' PROVE seat'[g].at = seat[g].at
            <4> SUFFICES ASSUME seat'[g].at # seat[g].at PROVE FALSE
                OBVIOUS
            <4>1. msg.kind = "close" /\ Right(t, msg.id, g)
                BY <1>8
            <4>2. PICK e \in Guests : Right(t, msg.id, e) /\ seat[e].via = d
                BY <1>11, <4>1
            <4>3. e = g
                BY <4>1, <4>2, OneNumber
            <4> QED
                BY <1>8, <2>5, <3>2, <4>1, <4>2, <4>3 DEF Meets, Right
        <3>3. Meets(g, l, c)' =>
                 /\ link[l].session = c
                 /\ Announced(g, c)' => Announced(g, c)
                 /\ Told(g, l)' => Told(g, l)
                 /\ HungUp(g, c)' => HungUp(g, c)
                 /\ Serving(g, c)' =>
                     /\ Serving(g, c) /\ seat'[g].at = seat[g].at
                     /\ Announced(g, c) => Announced(g, c)'
                     /\ Told(g, l) => Told(g, l)'
                     /\ HungUp(g, c) => HungUp(g, c)'
                     /\ Going(g, c) => Going(g, c)'
            BY <1>4, <2>2, <2>3, <3>1, <3>2 DEF Meets
        <3> QED
            BY <1>9, <2>1, <3>3, StageKeeps DEF NobodyComes
    <2> QED
        BY <2>4, <2>5
<1> QED
    BY <1>4, <1>9, <1>10, <1>12, RelayAgrees

-----------------------------------------------------------------------------
(* Guests' steps *)

\* A guest who comes in is announced, under a number nothing has been about.
LEMMA JoinAgrees == ASSUME RelayInv, AgreeInv, NEW g \in Guests, Join(g) PROVE AgreeInv'
<1>1. PICK t : t = hub
    OBVIOUS
<1>2. PICK h : h = table[t].host
    OBVIOUS
<1>3. PICK id : id = table[t].next + 1
    OBVIOUS
<1>4. PICK msg : msg = Msg("open", id, g)
    OBVIOUS
<1>5. PICK s : s = [at |-> "in", table |-> t, id |-> id, via |-> h]
    OBVIOUS
<1>6. /\ seat[g].at = "out" /\ t # NoTable /\ h # NoOne /\ seat' = [seat EXCEPT ![g] = s]
      /\ table' = [table EXCEPT ![t].next = id] /\ down' = DownWith(h, msg)
      /\ UNCHANGED <<link, wire, up, handler>>
    BY <1>1, <1>2, <1>3, <1>4, <1>5 DEF Join
<1>7. t \in Tables /\ table[t] \in TableStates /\ h \in Conns /\ id \in Nat /\ handler[h].table = t
    BY <1>6, <1>1, <1>2, <1>3 DEF RelayInv, Types, TableStates, Hosts
<1>8. s.at = "in" /\ s.table = t /\ s.id = id /\ s.via = h
    BY <1>5
<1>9. seat'[g] = s /\ \A k \in Guests \ {g} : seat'[k] = seat[k]
    BY <1>6 DEF RelayInv, Types
<1>10. \A e \in Tables : table'[e].host = table[e].host
    BY <1>6, <1>7 DEF RelayInv, Types, TableStates
<1>11. msg \in Messages /\ msg.kind = "open" /\ msg.id = id /\ msg.guest = g
    BY <1>7, <1>4, MsgIsMessage DEF Kinds
\* Nothing is about the number yet.
<1>12. \A k : ~Right(t, id, k)
    <2>1. \A k \in Guests : seat[k].at # "out" /\ seat[k].table = t => seat[k].id < id
        BY <1>7, <1>3 DEF RelayInv, Numbers, Types, SeatStates, TableStates
    <2> QED
        BY <1>7, <2>1 DEF Right
<1>13. \A x \in About(down[h]) : x.id # id
    <2> SUFFICES ASSUME NEW x \in About(down[h]), x.id = id PROVE FALSE
        OBVIOUS
    <2>1. MayTell(h, x) /\ MayGoDown(h, x) /\ x.kind \in {"open", "close"}
        BY <1>7 DEF AgreeInv, News, RelayInv, Wires, About
    <2>2. CASE x.kind = "open"
        BY <1>7, <1>12, <2>1, <2>2 DEF MayGoDown
    <2>3. CASE x.kind = "close"
        BY <1>7, <1>12, <2>1, <2>3 DEF MayTell, Msg
    <2> QED
        BY <2>1, <2>2, <2>3
<1>14. \A x \in About(up[h]) : x.id # id
    BY <1>7, <1>12 DEF AgreeInv, News, MayHangUp
<1>15. /\ \A c \in Conns : About(down'[c]) = IF c = h /\ wire[h] = "up" THEN About(down[c]) \cup {msg} ELSE About(down[c])
       /\ \A c \in Conns : Ordered(down'[c])
    BY <1>6, <1>7, <1>11, <1>13, DownTold DEF AgreeInv
<1>16. Kept /\ Stays
    BY <1>6, <1>9 DEF Kept, Stays
<1>17. News'
    <2>1. MayTell(h, msg)'
        BY <1>4, <1>8, <1>9, <1>11 DEF MayTell
    <2>2. NewsFrom
        BY <1>6, <1>15, <2>1 DEF NewsFrom
    <2> QED
        BY <1>16, <2>2, NewsKeep
<1>18. Vias'
    BY <1>6, <1>7, <1>8, <1>9 DEF AgreeInv, Vias
<1>19. Tunnels'
    BY <1>6, <1>16, TunnelsKeep
<1>20. Sessions'
    BY <1>6, SameSessions
<1>21. ASSUME NEW k \in Guests, NEW l \in Links, NEW c \in Conns, k # g PROVE Stage(k, l, c)'
    <2>1. Stage(k, l, c) /\ seat'[k] = seat[k]
        BY <1>9, <1>21 DEF AgreeInv, Stages
    <2>2. Msg("open", seat[k].id, k) # msg /\ Msg("close", seat[k].id, NoOne) # msg
        BY <1>4, <1>21 DEF Msg
    <2>3. /\ Announced(k, c)' <=> Announced(k, c)
          /\ Told(k, l)' <=> Told(k, l)
          /\ HungUp(k, c)' <=> HungUp(k, c)
          /\ Going(k, c)' <=> Going(k, c)
        BY <1>6, <1>15, <2>1, <2>2 DEF Announced, Told, HungUp, Going
    <2>4. Meets(k, l, c)' => link[l].session = c /\ (Serving(k, c)' => Serving(k, c) /\ seat'[k].at = seat[k].at)
        BY <1>6, <1>10, <2>1 DEF Meets, Serving, RelayInv, Numbers
    <2> QED
        BY <1>16, <2>1, <2>3, <2>4, StageKeeps
<1>22. ASSUME NEW l \in Links, NEW c \in Conns PROVE Stage(g, l, c)'
    <2> SUFFICES ASSUME Meets(g, l, c)' PROVE Apart(g, l, c)' /\ Known(g, l, c)'
        BY DEF Stage
    <2>1. c = h /\ link[l].session = h
        BY <1>6, <1>8, <1>9 DEF Meets
    <2>2. ~Told(g, l)'
        <3> SUFFICES ASSUME [id |-> id, guest |-> g] \in link[l].tunnels PROVE FALSE
            BY <1>6, <1>8, <1>9 DEF Told
        <3>1. Fits(link[l])
            BY DEF RelayInv, LinksOK
        <3>2. Right(handler[h].table, id, g)
            BY <1>6, <2>1, <3>1 DEF Fits
        <3> QED
            BY <1>7, <1>12, <3>2
    <2>3. ~HungUp(g, c)'
        BY <1>6, <1>8, <1>9, <1>14, <2>1 DEF HungUp, Msg
    <2>4. Serving(g, c)' => Announced(g, c)'
        BY <1>4, <1>6, <1>8, <1>9, <1>15, <2>1 DEF Serving, Announced
    <2> QED
        BY <1>8, <1>9, <2>2, <2>3, <2>4 DEF Apart, Known
<1>23. Stages'
    BY <1>21, <1>22 DEF Stages
<1> QED
    BY <1>15, <1>17, <1>18, <1>19, <1>20, <1>23 DEF AgreeInv, Orders

\* A guest who leaves is said to be gone, to the phone that has the table.
LEMMA LeavesAgrees == ASSUME RelayInv, AgreeInv, NEW g \in Guests, GuestLeaves(g) PROVE AgreeInv'
<1>1. PICK t : t = seat[g].table
    OBVIOUS
<1>2. PICK h : h = table[t].host
    OBVIOUS
<1>3. PICK msg : msg = Msg("close", seat[g].id, NoOne)
    OBVIOUS
<1>4. /\ seat[g].at = "in" /\ seat' = [seat EXCEPT ![g].at = "closed"] /\ down' = DownWith(h, msg)
      /\ UNCHANGED <<link, wire, up, handler, table>>
    BY <1>1, <1>2, <1>3 DEF GuestLeaves, LeaveIsTold
<1>5. seat[g] \in SeatStates /\ t \in Tables
    BY <1>1, <1>4 DEF RelayInv, Types, Numbers
<1>6. h \in Conns \cup {NoOne} /\ (h # NoOne => handler[h].table = t)
    BY <1>2, <1>5 DEF RelayInv, Types, TableStates, Hosts
<1>7. msg \in Messages /\ msg.kind = "close" /\ msg.id = seat[g].id /\ msg.guest = NoOne
    BY <1>3, <1>5, MsgIsMessage DEF SeatStates, Kinds
<1>8. /\ \A c \in Conns : About(down'[c]) = IF c = h /\ wire[h] = "up" THEN About(down[c]) \cup {msg} ELSE About(down[c])
      /\ \A c \in Conns : Ordered(down'[c])
    BY <1>4, <1>6, <1>7, DownTold DEF AgreeInv
<1>9. /\ seat'[g].at = "closed" /\ seat'[g].via = seat[g].via /\ seat'[g].id = seat[g].id /\ seat'[g].table = seat[g].table
      /\ \A k \in Guests \ {g} : seat'[k] = seat[k]
    BY <1>4, <1>5 DEF RelayInv, Types, SeatStates
<1>10. Kept /\ Stays /\ NobodyComes
    BY <1>4, <1>9 DEF Kept, Stays, NobodyComes
<1>11. NewsFrom
    <2>1. h # NoOne => MayTell(h, msg)'
        <3>1. h # NoOne => Right(handler[h].table, msg.id, g)'
            BY <1>1, <1>4, <1>6, <1>7, <1>9 DEF Right
        <3> QED
            BY <1>3, <1>7, <1>9, <3>1 DEF MayTell
    <2>2. NoOne \notin Conns
        BY RelayAssumption
    <2> QED
        BY <1>4, <1>8, <2>1, <2>2 DEF NewsFrom
<1>12. ASSUME NEW k \in Guests, NEW l \in Links, NEW c \in Conns PROVE Stage(k, l, c)'
    <2>1. Stage(k, l, c)
        BY DEF AgreeInv, Stages
    <2>2. seat'[k].id = seat[k].id /\ seat'[k].via = seat[k].via /\ seat'[k].table = seat[k].table
          /\ (k # g => seat'[k].at = seat[k].at)
        BY <1>9
    <2>3. Msg("open", seat[k].id, k) # msg
        BY <1>3 DEF Msg
    <2>4. /\ Announced(k, c)' <=> Announced(k, c)
          /\ Told(k, l)' <=> Told(k, l)
          /\ HungUp(k, c)' <=> HungUp(k, c)
          /\ Going(k, c) => Going(k, c)'
          /\ Serving(k, c)' <=> Serving(k, c)
        BY <1>4, <1>8, <2>2, <2>3 DEF Announced, Told, HungUp, Going, Serving
    <2>5. CASE k # g
        BY <1>4, <1>10, <2>1, <2>2, <2>4, <2>5, StageKeeps DEF Meets, NobodyComes
    <2>6. CASE k = g
        <3> SUFFICES ASSUME Meets(k, l, c)' PROVE Apart(k, l, c)' /\ Known(k, l, c)'
            BY DEF Stage
        <3>1. Meets(k, l, c)
            BY <1>4, <1>9, <2>6 DEF Meets
        <3>2. Apart(k, l, c)
            BY <2>1, <3>1 DEF Stage
        <3>3. Serving(k, c)' => Going(k, c)'
            <4>1. Serving(k, c)' => c = h /\ wire[h] = "up"
                BY <1>1, <1>2, <1>4, <1>9, <2>6 DEF Serving
            <4>2. c = h /\ wire[h] = "up" => msg \in About(down'[c])
                BY <1>8
            <4>3. Going(k, c)' <=> msg \in About(down'[c])
                BY <1>3, <1>9, <2>6 DEF Going
            <4> QED
                BY <4>1, <4>2, <4>3
        <3> QED
            BY <1>9, <2>4, <2>6, <3>2, <3>3 DEF Apart, Known
    <2> QED
        BY <2>5, <2>6
<1> QED
    BY <1>4, <1>8, <1>10, <1>11, <1>12, RelayAgrees DEF Orders

\* A guest who sends to a table without a phone is gone, and no connection
\* serves them.
LEMMA SendsAgrees == ASSUME RelayInv, AgreeInv, NEW g \in Guests, GuestSends(g) PROVE AgreeInv'
<1>1. PICK t : t = seat[g].table
    OBVIOUS
<1>2. PICK h : h = table[t].host
    OBVIOUS
<1>3. PICK msg : msg = Msg("frame", seat[g].id, g)
    OBVIOUS
<1>4. /\ seat[g].at = "in" /\ UNCHANGED <<link, wire, up, handler, table>>
      /\ IF h = NoOne THEN seat' = [seat EXCEPT ![g].at = "closed"] /\ UNCHANGED down
         ELSE down' = DownWith(h, msg) /\ UNCHANGED seat
    BY <1>1, <1>2, <1>3 DEF GuestSends
<1>5. seat[g] \in SeatStates /\ t \in Tables
    BY <1>1, <1>4 DEF RelayInv, Types, Numbers
<1>6. h \in Conns \cup {NoOne}
    BY <1>2, <1>5 DEF RelayInv, Types, TableStates
<1>7. msg \in Messages /\ msg.kind = "frame"
    BY <1>3, <1>5, MsgIsMessage DEF SeatStates, Kinds
<1>8. \A c \in Conns : About(down'[c]) = About(down[c]) /\ Ordered(down'[c])
    <2>1. CASE h = NoOne
        BY <1>4, <2>1 DEF AgreeInv, Orders
    <2>2. CASE h # NoOne
        <3>1. Orders /\ down' = DownWith(h, msg) /\ h \in Conns \cup {NoOne}
            BY <1>4, <1>6, <2>2 DEF AgreeInv
        <3>2. \A c \in Conns : About(DownWith(h, msg)[c]) = About(down[c]) /\ Ordered(DownWith(h, msg)[c])
            BY <1>7, <3>1, DownTold
        <3> QED
            BY <3>1, <3>2
    <2> QED
        BY <2>1, <2>2
<1>9. CASE h # NoOne
    <2>1. Kept
        BY <1>4, <1>9 DEF Kept
    <2> QED
        BY <1>4, <1>8, <1>9, <2>1, SeatsStay
<1>10. CASE h = NoOne
    <2>1. /\ seat'[g].at = "closed" /\ seat'[g].via = seat[g].via /\ seat'[g].id = seat[g].id /\ seat'[g].table = seat[g].table
          /\ \A k \in Guests \ {g} : seat'[k] = seat[k]
        BY <1>4, <1>5, <1>10 DEF RelayInv, Types, SeatStates
    <2>2. Kept /\ Stays /\ NobodyComes
        BY <1>4, <2>1 DEF Kept, Stays, NobodyComes
    <2>3. NewsFrom
        BY <1>4, <1>8, NoNews
    <2>4. ASSUME NEW k \in Guests, NEW l \in Links, NEW c \in Conns PROVE Stage(k, l, c)'
        <3>1. Stage(k, l, c)
            BY DEF AgreeInv, Stages
        <3>2. seat'[k].id = seat[k].id /\ seat'[k].table = seat[k].table /\ (k # g => seat'[k].at = seat[k].at)
            BY <2>1
        <3>3. /\ Announced(k, c)' <=> Announced(k, c)
              /\ Told(k, l)' <=> Told(k, l)
              /\ HungUp(k, c)' <=> HungUp(k, c)
              /\ Going(k, c)' <=> Going(k, c)
              /\ Serving(k, c)' <=> Serving(k, c)
            BY <1>4, <1>8, <3>2 DEF Announced, Told, HungUp, Going, Serving
        <3>4. k = g => ~Serving(k, c)
            BY <1>1, <1>2, <1>10, RelayAssumption DEF Serving
        <3> QED
            BY <1>4, <2>2, <3>1, <3>2, <3>3, <3>4, StageKeeps DEF Meets, NobodyComes
    <2> QED
        BY <1>4, <1>8, <2>2, <2>3, <2>4, RelayAgrees DEF Orders
<1> QED
    BY <1>9, <1>10

-----------------------------------------------------------------------------
(* The theorem *)

LEMMA NextAgrees == RelayInv /\ AgreeInv /\ [RelayNext]_relayVars => AgreeInv'
<1> SUFFICES ASSUME RelayInv, AgreeInv, [RelayNext]_relayVars PROVE AgreeInv'
    OBVIOUS
<1>1. CASE UNCHANGED relayVars
    <2>1. UNCHANGED <<link, wire, down, up, handler, table, seat>>
        BY <1>1 DEF relayVars
    <2>2. Kept /\ \A c \in Conns : Ordered(down'[c])
        BY <2>1 DEF Kept, AgreeInv, Orders
    <2> QED
        BY <2>1, <2>2, SeatsStay
<1>2. CASE \E l \in Links : \/ OpenRelay(l) \/ PhoneSees(l) \/ GivesUp(l) \/ PhoneReads(l)
                            \/ \E c \in Conns : Dial(l, c)
                            \/ \E u \in link[l].tunnels : TunnelEnds(l, u)
    BY <1>2, OpenAgrees, SeesAgrees, GivesUpAgrees, ReadsAgrees, DialAgrees, TunnelAgrees
<1>3. CASE CloseRelay
    BY <1>3, CloseAgrees
<1>4. CASE \E c \in Conns :
             Cut(c) \/ Attach(c) \/ Named(c) \/ HandlerEnds(c) \/ HandlerHearsEnd(c) \/ Forget(c) \/ Carry(c)
    BY <1>4, CutAgrees, AttachAgrees, NamedAgrees, EndsAgrees, HearsAgrees, ForgetAgrees, CarryAgrees
<1>5. CASE \E g \in Guests : Join(g) \/ GuestLeaves(g) \/ GuestSends(g)
    BY <1>5, JoinAgrees, LeavesAgrees, SendsAgrees
<1> QED
    BY <1>1, <1>2, <1>3, <1>4, <1>5 DEF RelayNext

LEMMA AgreeInvAgrees == RelayInv /\ AgreeInv => EndsAgree
<1> SUFFICES ASSUME RelayInv, AgreeInv, NEW t \in Tables, NEW l \in Links, NEW c, c = link[l].ws,
                    c # NoOne, table[t].host = c, wire[c] = "up", down[c] = <<>>, up[c] = <<>>
             PROVE  link[l].tunnels = {[id |-> seat[g].id, guest |-> g] : g \in {k \in GuestsOf(t) : seat[k].via = c}}
    BY DEF EndsAgree
<1>1. link[l] \in LinkStates /\ Fits(link[l]) /\ SessionFits(link[l])
    BY DEF RelayInv, Types, LinksOK, AgreeInv, Sessions
<1>2. c \in Conns /\ link[l].session = c /\ handler[c].table = t
    BY <1>1 DEF SessionFits, LinkStates, RelayInv, Hosts
<1>3. About(down[c]) = {} /\ About(up[c]) = {}
    BY AboutNone
<1>4. \A g \in Guests : ~Announced(g, c) /\ ~HungUp(g, c) /\ ~Going(g, c)
    BY <1>3 DEF Announced, HungUp, Going
<1>5. ASSUME NEW g \in Guests, seat[g].at # "out", seat[g].via = c
      PROVE  /\ seat[g].table = t /\ (seat[g].at = "in" <=> Told(g, l))
    <2>1. Stage(g, l, c) /\ Meets(g, l, c)
        BY <1>2, <1>5 DEF AgreeInv, Stages, Meets
    <2>2. seat[g].table = t
        BY <1>2, <1>5 DEF AgreeInv, Vias
    <2>3. Known(g, l, c) /\ Serving(g, c)
        BY <2>1, <2>2 DEF Stage, Serving
    <2>4. seat[g].at \in {"in", "closed"}
        BY <1>5 DEF RelayInv, Types, SeatStates
    <2> QED
        BY <1>4, <2>2, <2>3, <2>4 DEF Known
<1>6. ASSUME NEW u \in link[l].tunnels
      PROVE  \E g \in GuestsOf(t) : seat[g].via = c /\ u = [id |-> seat[g].id, guest |-> g]
    <2>1. u = [id |-> u.id, guest |-> u.guest] /\ Right(t, u.id, u.guest) /\ seat[u.guest].via = c
        BY <1>1, <1>2 DEF Fits, LinkStates, TunnelSets, AgreeInv, Tunnels
    <2>2. u.guest \in Guests /\ seat[u.guest].at # "out" /\ u = [id |-> seat[u.guest].id, guest |-> u.guest]
        BY <2>1 DEF Right
    <2>3. Told(u.guest, l)
        BY <2>2 DEF Told
    <2>4. u.guest \in GuestsOf(t)
        BY <1>5, <2>1, <2>2, <2>3 DEF GuestsOf
    <2> QED
        BY <2>1, <2>2, <2>4
<1>7. ASSUME NEW g \in GuestsOf(t), seat[g].via = c PROVE [id |-> seat[g].id, guest |-> g] \in link[l].tunnels
    <2>1. g \in Guests /\ seat[g].at = "in"
        BY DEF GuestsOf
    <2> QED
        BY <1>5, <1>7, <2>1 DEF Told
<1> QED
    BY <1>6, <1>7

\* The phone and the relay agree on who is there, for any number of links,
\* connections, tables and guests: once what is under way has arrived, a
\* connection that serves a table and is online at the phone has the tunnels of
\* the guests announced on it who are still there.
THEOREM EndsAgreeHolds == RelaySpec => []EndsAgree
<1>1. RelayInit => RelayInv /\ AgreeInv
    BY RelayInitInv, InitAgrees
<1>2. RelayInv /\ AgreeInv /\ [RelayNext]_relayVars => (RelayInv /\ AgreeInv)'
    BY RelayNextInv, NextAgrees
<1> QED
    BY <1>1, <1>2, AgreeInvAgrees, PTL DEF RelaySpec

-----------------------------------------------------------------------------
(* Numbers are bounded by the guests there are, and codes are of tables    *)

Codes == Tables \cup {NoCode}

\* Those who have come to a table.
Come(t) == {g \in Guests : seat[g].at # "out" /\ seat[g].table = t}

\* A table has given no more numbers than guests have come to it.
Counted ==
    /\ \A t \in Tables : table[t].next <= Cardinality(Come(t))
    /\ \A g \in Guests : IF seat[g].at = "out" THEN seat[g].id = 0 ELSE seat[g].id >= 1

\* A tunnel is a guest's who has come, and has their number.
Held == \A l \in Links : \A u \in link[l].tunnels : u.guest \in Guests /\ seat[u.guest].at # "out" /\ u.id = seat[u.guest].id

Coded ==
    /\ \A l \in Links : link[l].code \in Codes
    /\ \A c \in Conns : handler[c].want \in Codes
    /\ \A t \in Tables : table[t].code \in Codes
    /\ \A c \in Conns : \A msg \in Under(down[c]) : msg.kind = "code" => msg.id \in Codes

\* Nobody comes, and no table gives a number.
NobodyNumbered ==
    /\ \A g \in Guests : /\ seat'[g].table = seat[g].table /\ seat'[g].id = seat[g].id
                         /\ seat'[g].at = "out" <=> seat[g].at = "out"
    /\ \A t \in Tables : table'[t].next \in {table[t].next, 0}

LEMMA NumbersCome == ASSUME RelayInv, RelayNext PROVE NobodyNumbered \/ \E g \in Guests : Join(g)
<1>0. \A g \in Guests : seat[g] \in SeatStates
    BY DEF RelayInv, Types
<1>1. ASSUME UNCHANGED <<table, seat>> PROVE NobodyNumbered
    BY <1>1 DEF NobodyNumbered
<1>2. CASE \E l \in Links : \/ OpenRelay(l) \/ PhoneSees(l) \/ GivesUp(l) \/ PhoneReads(l)
                            \/ \E c \in Conns : Dial(l, c)
                            \/ \E u \in link[l].tunnels : TunnelEnds(l, u)
    <2>1. ASSUME NEW l \in Links, OpenRelay(l) \/ PhoneSees(l) \/ GivesUp(l) PROVE UNCHANGED <<table, seat>>
        BY <2>1 DEF OpenRelay, PhoneSees, GivesUp
    <2>2. ASSUME NEW l \in Links, PhoneReads(l) PROVE UNCHANGED <<table, seat>>
        BY <2>2 DEF PhoneReads
    <2>3. ASSUME NEW l \in Links, NEW c \in Conns, Dial(l, c) PROVE UNCHANGED <<table, seat>>
        BY <2>3 DEF Dial
    <2>4. ASSUME NEW l \in Links, NEW u \in link[l].tunnels, TunnelEnds(l, u) PROVE UNCHANGED <<table, seat>>
        BY <2>4 DEF TunnelEnds
    <2> QED
        BY <1>1, <1>2, <2>1, <2>2, <2>3, <2>4
<1>3. CASE CloseRelay
    BY <1>1, <1>3 DEF CloseRelay
<1>4. ASSUME NEW c \in Conns, Cut(c) \/ Named(c) \/ Forget(c) PROVE NobodyNumbered
    BY <1>1, <1>4 DEF Cut, Named, Forget
<1>5. ASSUME NEW c \in Conns, Attach(c) PROVE NobodyNumbered
    <2>1. seat' = seat
        BY <1>5 DEF Attach
    <2>2. \A t \in Tables : table'[t].next \in {table[t].next, 0}
        <3>1. table \in [Tables -> TableStates]
            BY DEF RelayInv, Types
        <3>2. CASE TakesOver(c)
            <4>1. table' = [table EXCEPT ![hub] = [table[hub] EXCEPT !.host = c]] /\ hub \in Tables
                BY <3>2 DEF TakesOver, HostedBy, RelayInv, Types
            <4> QED
                BY <3>1, <4>1 DEF TableStates
        <3>3. ASSUME NEW t \in Tables, NewTable(c, t) PROVE \A s \in Tables : table'[s].next \in {table[s].next, 0}
            BY <3>1, <3>3 DEF NewTable
        <3> QED
            BY <1>5, <3>2, <3>3 DEF Attach
    <2> QED
        BY <2>1, <2>2 DEF NobodyNumbered
<1>6. ASSUME NEW c \in Conns, NEW ended \in BOOLEAN, HostGone(c, ended) PROVE NobodyNumbered
    <2>1. PICK t : t = handler[c].table
        OBVIOUS
    <2>2. \/ UNCHANGED <<table, seat>>
          \/ /\ table' = [table EXCEPT ![t].host = NoOne]
             /\ seat' = [g \in Guests |-> IF g \in GuestsOf(t) THEN [seat[g] EXCEPT !.at = "closed"] ELSE seat[g]]
        BY <1>6, <2>1 DEF HostGone
    <2>3. CASE /\ table' = [table EXCEPT ![t].host = NoOne]
               /\ seat' = [g \in Guests |-> IF g \in GuestsOf(t) THEN [seat[g] EXCEPT !.at = "closed"] ELSE seat[g]]
        <3>1. \A s \in Tables : table'[s].next = table[s].next
            BY <2>3 DEF RelayInv, Types, TableStates
        <3>2. \A g \in Guests : /\ seat'[g].table = seat[g].table /\ seat'[g].id = seat[g].id
                                /\ seat'[g].at = "out" <=> seat[g].at = "out"
            BY <1>0, <2>3 DEF SeatStates, GuestsOf
        <3> QED
            BY <3>1, <3>2 DEF NobodyNumbered
    <2> QED
        BY <1>1, <2>2, <2>3
<1>7. ASSUME NEW c \in Conns, HandlerEnds(c) \/ HandlerHearsEnd(c) PROVE NobodyNumbered
    BY <1>6, <1>7 DEF HandlerEnds, HandlerHearsEnd
<1>8. ASSUME NEW c \in Conns, Carry(c) PROVE NobodyNumbered
    <2>a. PICK msg : msg = Head(up[c])
        OBVIOUS
    <2>b. PICK to : to = {g \in GuestsOf(handler[c].table) : seat[g].id = msg.id}
        OBVIOUS
    <2>1. /\ to \subseteq GuestsOf(handler[c].table) /\ table' = table
          /\ seat' = [g \in Guests |-> IF g \in to /\ msg.kind = "close" THEN [seat[g] EXCEPT !.at = "closed"] ELSE seat[g]]
        BY <1>8, <2>a, <2>b DEF Carry
    <2>2. \A g \in Guests : /\ seat'[g].table = seat[g].table /\ seat'[g].id = seat[g].id
                            /\ seat'[g].at = "out" <=> seat[g].at = "out"
        BY <1>0, <2>1 DEF SeatStates, GuestsOf
    <2> QED
        BY <2>1, <2>2 DEF NobodyNumbered
<1>9. ASSUME NEW g \in Guests, GuestLeaves(g) \/ GuestSends(g) PROVE NobodyNumbered
    <2>1. table' = table /\ seat[g].at = "in" /\ (seat' = seat \/ seat' = [seat EXCEPT ![g].at = "closed"])
        BY <1>9 DEF GuestLeaves, GuestSends
    <2>2. seat \in [Guests -> SeatStates]
        BY DEF RelayInv, Types
    <2>3. \A k \in Guests : /\ seat'[k].table = seat[k].table /\ seat'[k].id = seat[k].id
                            /\ seat'[k].at = "out" <=> seat[k].at = "out"
        BY <2>1, <2>2 DEF SeatStates
    <2> QED
        BY <2>1, <2>3 DEF NobodyNumbered
<1> QED
    BY <1>2, <1>3, <1>4, <1>5, <1>7, <1>8, <1>9 DEF RelayNext

LEMMA CountedKept == ASSUME RelayInv, Counted, RelayNext PROVE Counted'
<1>1. CASE NobodyNumbered
    <2>1. ASSUME NEW t \in Tables PROVE table'[t].next <= Cardinality(Come(t)')
        <3>1. Come(t)' = Come(t)
            BY <1>1 DEF NobodyNumbered, Come
        <3>2. Cardinality(Come(t)) \in Nat /\ table[t].next \in Nat
            <4>1. Come(t) \subseteq Guests
                BY DEF Come
            <4>2. IsFiniteSet(Come(t))
                BY <4>1, FS_Subset, RelayAssumption
            <4> QED
                BY <4>2, FS_CardinalityType DEF RelayInv, Types, TableStates
        <3> QED
            BY <1>1, <3>1, <3>2 DEF NobodyNumbered, Counted
    <2>2. \A g \in Guests : IF seat'[g].at = "out" THEN seat'[g].id = 0 ELSE seat'[g].id >= 1
        BY <1>1 DEF NobodyNumbered, Counted
    <2> QED
        BY <2>1, <2>2 DEF Counted
<1>2. ASSUME NEW g \in Guests, Join(g) PROVE Counted'
    <2>1. PICK t : t = hub
        OBVIOUS
    <2>2. PICK id : id = table[t].next + 1
        OBVIOUS
    <2>3. PICK s : s = [at |-> "in", table |-> t, id |-> id, via |-> table[t].host]
        OBVIOUS
    <2>4. /\ t \in Tables /\ seat[g].at = "out" /\ table' = [table EXCEPT ![t].next = id] /\ seat' = [seat EXCEPT ![g] = s]
        BY <1>2, <2>1, <2>2, <2>3 DEF Join, RelayInv, Types
    <2>5. seat'[g] = s /\ \A k \in Guests \ {g} : seat'[k] = seat[k]
        BY <2>4 DEF RelayInv, Types
    <2>6. table'[t].next = id /\ table[t].next \in Nat /\ \A e \in Tables \ {t} : table'[e] = table[e]
        BY <2>4 DEF RelayInv, Types, TableStates
    <2>7. s.at = "in" /\ s.table = t /\ s.id = id
        BY <2>3
    <2>8. Come(t)' = Come(t) \cup {g} /\ g \notin Come(t) /\ \A e \in Tables \ {t} : Come(e)' = Come(e)
        BY <2>4, <2>5, <2>7 DEF Come
    <2>9. IsFiniteSet(Come(t))
        <3>1. Come(t) \subseteq Guests
            BY DEF Come
        <3> QED
            BY <3>1, FS_Subset, RelayAssumption
    <2>10. Cardinality(Come(t)') = Cardinality(Come(t)) + 1 /\ Cardinality(Come(t)) \in Nat
        BY <2>8, <2>9, FS_AddElement, FS_CardinalityType
    <2>11. table[t].next <= Cardinality(Come(t))
        BY <2>4 DEF Counted
    <2>12. table'[t].next <= Cardinality(Come(t)')
        BY <2>2, <2>6, <2>10, <2>11
    <2>13. \A e \in Tables : table'[e].next <= Cardinality(Come(e)')
        BY <2>6, <2>8, <2>12 DEF Counted
    <2>14. \A k \in Guests : IF seat'[k].at = "out" THEN seat'[k].id = 0 ELSE seat'[k].id >= 1
        BY <2>2, <2>5, <2>6, <2>7 DEF Counted
    <2> QED
        BY <2>13, <2>14 DEF Counted
<1> QED
    BY <1>1, <1>2, NumbersCome

LEMMA AfterHolds ==
    ASSUME NEW k \in LinkStates, NEW c \in Conns, k.session = c, NEW msg \in Messages
    PROVE  \A u \in AfterMessage(k, c, msg).tunnels : u \in k.tunnels \/ (msg.kind = "open" /\ u = [id |-> msg.id, guest |-> msg.guest])
<1> DEFINE rest == {u \in k.tunnels : u.id # msg.id}
<1> DEFINE tunnel == [id |-> msg.id, guest |-> msg.guest]
<1>1. AfterMessage(k, c, msg).tunnels = CASE msg.kind = "open" -> rest \cup {tunnel} [] msg.kind = "close" -> rest [] OTHER -> k.tunnels
    BY AfterIs
<1>2. rest \subseteq k.tunnels
    OBVIOUS
<1> QED
    BY <1>1, <1>2

\* A tunnel is one there was, or is opened for a guest who has come.
LEMMA HeldKept == ASSUME RelayInv, RelayInv', AgreeInv, Held, RelayNext PROVE Held'
<1>1. ASSUME NEW l \in Links, NEW u \in link'[l].tunnels PROVE u \in link[l].tunnels \/ \E t : Right(t, u.id, u.guest)
    <2>1. CASE link' = link
        BY <1>1, <2>1
    <2>2. ASSUME NEW m \in Links, NEW k, link' = [link EXCEPT ![m] = k], k.tunnels \subseteq link[m].tunnels
          PROVE  u \in link[l].tunnels
        BY <1>1, <2>2 DEF RelayInv, Types
    <2>3. ASSUME NEW m \in Links, OpenRelay(m) PROVE u \in link[l].tunnels
        <3>1. PICK k : k = [link[m] EXCEPT !.on = TRUE]
            OBVIOUS
        <3>2. link' = [link EXCEPT ![m] = k] /\ link[m] \in LinkStates
            BY <2>3, <3>1 DEF OpenRelay, RelayInv, Types
        <3>3. k.tunnels = link[m].tunnels
            BY <3>1, <3>2 DEF LinkStates
        <3> QED
            BY <2>2, <3>2, <3>3
    <2>4. ASSUME NEW m \in Links, PhoneSees(m) \/ GivesUp(m) PROVE u \in link[l].tunnels
        <3>1. PICK k : k = SessionOver(link[m])
            OBVIOUS
        <3>2. link' = [link EXCEPT ![m] = k] /\ link[m] \in LinkStates
            BY <2>4, <3>1 DEF PhoneSees, GivesUp, RelayInv, Types
        <3>3. k.tunnels \subseteq link[m].tunnels
            BY <3>1, <3>2 DEF SessionOver, LinkStates
        <3> QED
            BY <2>2, <3>2, <3>3
    <2>5. ASSUME NEW m \in Links, NEW c \in Conns, Dial(m, c) PROVE u \in link[l].tunnels
        <3>1. PICK k : k = [link[m] EXCEPT !.session = c]
            OBVIOUS
        <3>2. link' = [link EXCEPT ![m] = k] /\ link[m] \in LinkStates
            BY <2>5, <3>1 DEF Dial, RelayInv, Types
        <3>3. k.tunnels = link[m].tunnels
            BY <3>1, <3>2 DEF LinkStates
        <3> QED
            BY <2>2, <3>2, <3>3
    <2>6. ASSUME NEW m \in Links, NEW w \in link[m].tunnels, TunnelEnds(m, w) PROVE u \in link[l].tunnels
        <3>1. PICK k : k = [link[m] EXCEPT !.tunnels = link[m].tunnels \ {w}]
            OBVIOUS
        <3>2. link' = [link EXCEPT ![m] = k] /\ link[m] \in LinkStates
            BY <2>6, <3>1 DEF TunnelEnds, RelayInv, Types
        <3>3. k.tunnels \subseteq link[m].tunnels
            BY <3>1, <3>2 DEF LinkStates
        <3> QED
            BY <2>2, <3>2, <3>3
    <2>7. ASSUME CloseRelay PROVE u \in link[l].tunnels
        <3>1. PICK k : k = [link[door] EXCEPT !.on = FALSE, !.tunnels = {}]
            OBVIOUS
        <3>2. link' = [link EXCEPT ![door] = k] /\ door \in Links /\ link[door] \in LinkStates
            BY <2>7, <3>1 DEF CloseRelay, RelayInv, Types
        <3>3. k.tunnels \subseteq link[door].tunnels
            BY <3>1, <3>2 DEF LinkStates
        <3> QED
            BY <2>2, <3>2, <3>3
    <2>8. ASSUME NEW m \in Links, PhoneReads(m) PROVE u \in link[l].tunnels \/ \E t : Right(t, u.id, u.guest)
        <3>1. PICK c : c = link[m].session
            OBVIOUS
        <3>2. PICK msg : msg = Head(down[c])
            OBVIOUS
        <3>3. PICK k : k = AfterMessage(link[m], c, msg)
            OBVIOUS
        <3>4. c \in Conns /\ link[m] \in LinkStates /\ link' = [link EXCEPT ![m] = k]
            <4>a. c # NoOne
                BY <2>8, <3>1 DEF PhoneReads
            <4>1. c # NoOne /\ link[m] \in LinkStates
                BY <4>a DEF RelayInv, Types
            <4>2. c \in Conns
                BY <3>1, <4>1 DEF LinkStates
            <4>3. link' = [link EXCEPT ![m] = k]
                BY <2>8, <3>1, <3>2, <3>3 DEF PhoneReads
            <4> QED
                BY <4>1, <4>2, <4>3
        <3>5. down[c] \in Seq(Messages) /\ down[c] # <<>>
            <4>1. down[c] # <<>>
                BY <2>8, <3>1 DEF PhoneReads
            <4> QED
                BY <3>4, <4>1 DEF RelayInv, Types
        <3>6. msg \in Messages /\ MayGoDown(c, msg)
            BY <3>2, <3>4, <3>5, UnderHead DEF RelayInv, Wires
        <3>7. \A w \in k.tunnels : w \in link[m].tunnels \/ (msg.kind = "open" /\ w = [id |-> msg.id, guest |-> msg.guest])
            <4>1. link[m].session = c /\ link[m] \in LinkStates /\ c \in Conns /\ msg \in Messages
                BY <3>1, <3>4, <3>6
            <4> QED
                BY <3>3, <4>1, AfterHolds
        <3>8. ASSUME NEW w \in k.tunnels PROVE w \in link[m].tunnels \/ \E t : Right(t, w.id, w.guest)
            <4>1. CASE msg.kind = "open" /\ w = [id |-> msg.id, guest |-> msg.guest]
                <5>1. Right(handler[c].table, msg.id, msg.guest)
                    BY <3>6, <4>1 DEF MayGoDown
                <5> QED
                    BY <4>1, <5>1
            <4>2. CASE ~(msg.kind = "open" /\ w = [id |-> msg.id, guest |-> msg.guest])
                BY <3>7, <3>8, <4>2
            <4> QED
                BY <4>1, <4>2
        <3> QED
            BY <1>1, <3>4, <3>8 DEF RelayInv, Types
    <2>9. ASSUME NEW c \in Conns, Cut(c) \/ Attach(c) \/ Named(c) \/ HandlerEnds(c) \/ HandlerHearsEnd(c) \/ Forget(c) \/ Carry(c)
          PROVE  link' = link
        BY <2>9 DEF Cut, Attach, Named, HandlerEnds, HandlerHearsEnd, HostGone, Forget, Carry
    <2>10. ASSUME NEW g \in Guests, Join(g) \/ GuestLeaves(g) \/ GuestSends(g) PROVE link' = link
        BY <2>10 DEF Join, GuestLeaves, GuestSends
    <2> QED
        BY <2>1, <2>3, <2>4, <2>5, <2>6, <2>7, <2>8, <2>9, <2>10 DEF RelayNext
<1>2. \A g \in Guests : seat[g].at # "out" => seat'[g].at # "out" /\ seat'[g].id = seat[g].id
    <2>1. CASE NobodyNumbered
        BY <2>1 DEF NobodyNumbered
    <2>2. ASSUME NEW g \in Guests, Join(g) PROVE \A k \in Guests : seat[k].at # "out" => seat'[k] = seat[k]
        BY <2>2 DEF Join, RelayInv, Types
    <2> QED
        BY <2>1, <2>2, NumbersCome
<1>3. ASSUME NEW l \in Links, NEW u \in link'[l].tunnels PROVE u.guest \in Guests /\ seat[u.guest].at # "out" /\ u.id = seat[u.guest].id
    BY <1>1, <1>3 DEF Held, Right
<1> QED
    BY <1>2, <1>3 DEF Held

\* A code is of the table it was made for, or the one that was asked for, which
\* was such a code.
LEMMA CodedKept == ASSUME RelayInv, Coded, RelayNext PROVE Coded'
<1>1. ASSUME UNCHANGED <<handler, table>>, \A l \in Links : link'[l].code = link[l].code,
             \A c \in Conns : \A msg \in Under(down'[c]) : msg \in Under(down[c]) \/ msg.kind # "code"
      PROVE  Coded'
    BY <1>1 DEF Coded
<1>2. \A l \in Links : link[l] \in LinkStates
    BY DEF RelayInv, Types
<1>3. ASSUME NEW l \in Links, OpenRelay(l) \/ PhoneSees(l) PROVE Coded'
    <2>1. \A m \in Links : link'[m].code = link[m].code
        <3>1. CASE OpenRelay(l)
            BY <1>2, <3>1 DEF OpenRelay, LinkStates, RelayInv, Types
        <3>2. CASE PhoneSees(l)
            BY <1>2, <3>2 DEF PhoneSees, SessionOver, LinkStates, RelayInv, Types
        <3> QED
            BY <1>3, <3>1, <3>2
    <2> QED
        BY <1>1, <1>3, <2>1 DEF OpenRelay, PhoneSees
<1>4. ASSUME NEW l \in Links, GivesUp(l) PROVE Coded'
    <2>1. \A m \in Links : link'[m].code = link[m].code
        BY <1>2, <1>4 DEF GivesUp, SessionOver, LinkStates, RelayInv, Types
    <2>2. PICK d : d = link[l].session
        OBVIOUS
    <2>3. down' = [down EXCEPT ![d] = <<>>] /\ UNCHANGED <<handler, table>>
        BY <1>4, <2>2 DEF GivesUp
    <2>4. \A c \in Conns : down'[c] \in {down[c], <<>>}
        BY <2>3 DEF RelayInv, Types
    <2> QED
        BY <1>1, <2>1, <2>3, <2>4, UnderNone
<1>5. ASSUME NEW l \in Links, NEW d \in Conns, Dial(l, d) PROVE Coded'
    <2>1. \A m \in Links : link'[m].code = link[m].code
        BY <1>2, <1>5 DEF Dial, LinkStates, RelayInv, Types
    <2>2. \A c \in Conns : handler'[c].want \in {handler[c].want, link[l].code}
        BY <1>5 DEF Dial, HandlerStates, RelayInv, Types
    <2>3. UNCHANGED <<down, table>>
        BY <1>5 DEF Dial
    <2> QED
        BY <2>1, <2>2, <2>3 DEF Coded
<1>6. ASSUME NEW l \in Links, PhoneReads(l) PROVE Coded'
    <2>1. PICK d : d = link[l].session
        OBVIOUS
    <2>2. PICK msg : msg = Head(down[d])
        OBVIOUS
    <2>3. PICK k : k = AfterMessage(link[l], d, msg)
        OBVIOUS
    <2>4. d # NoOne /\ down[d] # <<>> /\ down' = [down EXCEPT ![d] = Tail(down[d])] /\ UNCHANGED <<handler, table>>
        BY <1>6, <2>1 DEF PhoneReads
    <2>5. link' = [link EXCEPT ![l] = k]
        BY <1>6, <2>1, <2>2, <2>3 DEF PhoneReads
    <2>6. d \in Conns /\ down[d] \in Seq(Messages)
        BY <1>2, <2>1, <2>4 DEF LinkStates, RelayInv, Types
    <2>7. msg \in Under(down[d]) /\ Under(Tail(down[d])) \subseteq Under(down[d])
        BY <2>2, <2>4, <2>6, UnderHead
    <2>8. \A c \in Conns : Under(down'[c]) \subseteq Under(down[c])
        BY <2>4, <2>6, <2>7 DEF RelayInv, Types
    <2>9. k.code = link[l].code \/ (msg.kind = "code" /\ k.code = msg.id)
        <3>1. link[l] \in LinkStates
            BY <1>2
        <3> QED
            BY <2>3, <3>1 DEF AfterMessage, LinkStates
    <2>10. k.code \in Codes
        BY <2>6, <2>7, <2>9 DEF Coded
    <2>11. \A m \in Links : link'[m].code \in Codes
        BY <2>5, <2>10 DEF Coded, RelayInv, Types
    <2> QED
        BY <2>4, <2>8, <2>11 DEF Coded
<1>7. ASSUME NEW l \in Links, NEW u \in link[l].tunnels, TunnelEnds(l, u) PROVE Coded'
    <2>1. \A m \in Links : link'[m].code = link[m].code
        BY <1>2, <1>7 DEF TunnelEnds, LinkStates, RelayInv, Types
    <2> QED
        BY <1>1, <1>7, <2>1 DEF TunnelEnds
<1>8. ASSUME CloseRelay PROVE Coded'
    <2>1. \A m \in Links : link'[m].code = link[m].code
        BY <1>2, <1>8 DEF CloseRelay, LinkStates, RelayInv, Types
    <2>2. PICK d : d = link[door].ws
        OBVIOUS
    <2>3. (down' = down \/ down' = [down EXCEPT ![d] = <<>>]) /\ UNCHANGED <<handler, table>>
        BY <1>8, <2>2 DEF CloseRelay
    <2>4. \A c \in Conns : down'[c] \in {down[c], <<>>}
        BY <2>3 DEF RelayInv, Types
    <2> QED
        BY <1>1, <2>1, <2>3, <2>4, UnderNone
<1>9. ASSUME NEW d \in Conns, Cut(d) PROVE Coded'
    <2>1. \A c \in Conns : down'[c] \in {down[c], <<>>}
        BY <1>9 DEF Cut, RelayInv, Types
    <2> QED
        BY <1>1, <1>9, <2>1, UnderNone DEF Cut
<1>10. ASSUME NEW d \in Conns, Attach(d) PROVE Coded'
    <2>1. link' = link
        BY <1>10 DEF Attach
    <2>2. \A c \in Conns : handler'[c].want = handler[c].want
        <3>1. PICK t : handler' = [handler EXCEPT ![d].at = "attached", ![d].table = t]
            BY <1>10 DEF Attach, TakesOver, NewTable, Serves
        <3> QED
            BY <3>1 DEF HandlerStates, RelayInv, Types
    <2>3. table \in [Tables -> TableStates] /\ handler[d].want \in Codes
        BY DEF RelayInv, Types, Coded
    <2>4. CASE TakesOver(d)
        <3>1. PICK old : old = table[hub].host
            OBVIOUS
        <3>2. (down' = down \/ down' = [down EXCEPT ![old] = <<>>]) /\ table' = [table EXCEPT ![hub] = [table[hub] EXCEPT !.host = d]]
            BY <2>4, <3>1 DEF TakesOver, HostedBy
        <3>3. \A c \in Conns : down'[c] \in {down[c], <<>>}
            BY <3>2 DEF RelayInv, Types
        <3>4. \A t \in Tables : table'[t].code = table[t].code
            BY <2>3, <3>2 DEF TableStates
        <3> QED
            BY <2>1, <2>2, <3>3, <3>4, UnderNone DEF Coded
    <2>5. ASSUME NEW t \in Tables, NewTable(d, t) PROVE Coded'
        <3>1. down' = down
            BY <2>5 DEF NewTable
        <3>2. \A s \in Tables : table'[s].code \in {table[s].code, t, handler[d].want}
            BY <2>3, <2>5 DEF NewTable
        <3> QED
            BY <2>1, <2>2, <2>3, <3>1, <3>2 DEF Coded, Codes
    <2> QED
        BY <1>10, <2>4, <2>5 DEF Attach
<1>11. ASSUME NEW d \in Conns, Named(d) PROVE Coded'
    <2>1. PICK t : t = handler[d].table
        OBVIOUS
    <2>2. PICK h : h = table[t].host
        OBVIOUS
    <2>3. PICK msg : msg = Msg("code", table[t].code, NoOne)
        OBVIOUS
    <2>4. handler[d].at = "attached" /\ down' = DownWith(h, msg) /\ UNCHANGED <<link, table>>
        BY <1>11, <2>1, <2>2, <2>3 DEF Named
    <2>5. t \in Tables
        BY <2>1, <2>4 DEF RelayInv, Types, HandlerStates, Hosts
    <2>6. table[t].code \in Nat /\ table[t].code \in Codes
        BY <2>5 DEF RelayInv, Types, TableStates, Coded
    <2>7. msg \in Messages /\ msg.id = table[t].code
        BY <2>3, <2>6, MsgIsMessage DEF Kinds
    <2>8. \A c \in Conns : \A x \in Under(down'[c]) : x \in Under(down[c]) \/ x = msg
        BY <2>4, <2>7, DownWritten DEF RelayInv
    <2>9. \A c \in Conns : handler'[c].want = handler[c].want
        BY <1>11 DEF Named, HandlerStates, RelayInv, Types
    <2> QED
        BY <2>4, <2>6, <2>7, <2>8, <2>9 DEF Coded
<1>12. ASSUME NEW d \in Conns, NEW ended \in BOOLEAN, HostGone(d, ended), UNCHANGED down PROVE Coded'
    <2>1. PICK at : handler' = [handler EXCEPT ![d].at = at]
        BY <1>12 DEF HostGone
    <2>2. \A c \in Conns : handler'[c].want = handler[c].want
        BY <2>1 DEF HandlerStates, RelayInv, Types
    <2>3. PICK t : t = handler[d].table
        OBVIOUS
    <2>4. (table' = table \/ table' = [table EXCEPT ![t].host = NoOne]) /\ link' = link
        BY <1>12, <2>3 DEF HostGone
    <2>5. \A s \in Tables : table'[s].code = table[s].code
        <3>1. table \in [Tables -> TableStates]
            BY DEF RelayInv, Types
        <3>2. CASE table' = [table EXCEPT ![t].host = NoOne]
            BY <3>1, <3>2 DEF TableStates
        <3> QED
            BY <2>4, <3>2
    <2> QED
        BY <1>12, <2>2, <2>4, <2>5 DEF Coded
<1>13. ASSUME NEW d \in Conns, HandlerEnds(d) \/ HandlerHearsEnd(d) PROVE Coded'
    BY <1>12, <1>13 DEF HandlerEnds, HandlerHearsEnd
<1>14. ASSUME NEW d \in Conns, Forget(d) PROVE Coded'
    <2>1. \A c \in Conns : handler'[c].want = handler[c].want
        BY <1>14 DEF Forget, HandlerStates, RelayInv, Types
    <2> QED
        BY <1>14, <2>1 DEF Forget, Coded
<1>15. ASSUME NEW d \in Conns, Carry(d) PROVE Coded'
    BY <1>1, <1>15 DEF Carry
<1>16. ASSUME NEW h, NEW msg \in Messages, msg.kind # "code", down' = DownWith(h, msg), UNCHANGED <<link, handler>>,
              \A t \in Tables : table'[t].code = table[t].code
       PROVE  Coded'
    <2>1. \A c \in Conns : \A x \in Under(down'[c]) : x \in Under(down[c]) \/ x = msg
        BY <1>16, DownWritten DEF RelayInv
    <2> QED
        BY <1>16, <2>1 DEF Coded
<1>17. ASSUME NEW g \in Guests, Join(g) PROVE Coded'
    <2>1. PICK msg : msg = Msg("open", table[hub].next + 1, g)
        OBVIOUS
    <2>2. PICK h : h = table[hub].host
        OBVIOUS
    <2>3. hub \in Tables /\ down' = DownWith(h, msg) /\ table' = [table EXCEPT ![hub].next = table[hub].next + 1]
          /\ UNCHANGED <<link, handler>>
        BY <1>17, <2>1, <2>2 DEF Join, RelayInv, Types
    <2>4. table[hub].next + 1 \in Nat
        BY <2>3 DEF RelayInv, Types, TableStates
    <2>5. msg \in Messages /\ msg.kind = "open"
        BY <2>1, <2>4, MsgIsMessage DEF Kinds
    <2>6. \A t \in Tables : table'[t].code = table[t].code
        BY <2>3 DEF RelayInv, Types, TableStates
    <2> QED
        BY <1>16, <2>3, <2>5, <2>6
<1>18. ASSUME NEW g \in Guests, GuestLeaves(g) PROVE Coded'
    <2>1. PICK msg : msg = Msg("close", seat[g].id, NoOne)
        OBVIOUS
    <2>2. PICK h : h = table[seat[g].table].host
        OBVIOUS
    <2>3. msg \in Messages /\ msg.kind = "close"
        BY <2>1, MsgIsMessage DEF Kinds, RelayInv, Types, SeatStates
    <2>4. down' = DownWith(h, msg) /\ UNCHANGED <<link, handler, table>>
        BY <1>18, <2>1, <2>2 DEF GuestLeaves, LeaveIsTold
    <2> QED
        BY <1>16, <2>3, <2>4
<1>19. ASSUME NEW g \in Guests, GuestSends(g) PROVE Coded'
    <2>1. PICK msg : msg = Msg("frame", seat[g].id, g)
        OBVIOUS
    <2>2. PICK h : h = table[seat[g].table].host
        OBVIOUS
    <2>3. msg \in Messages /\ msg.kind = "frame"
        BY <2>1, MsgIsMessage DEF Kinds, RelayInv, Types, SeatStates
    <2>4. (down' = down \/ down' = DownWith(h, msg)) /\ UNCHANGED <<link, handler, table>>
        BY <1>19, <2>1, <2>2 DEF GuestSends
    <2> QED
        BY <1>1, <1>16, <2>3, <2>4
<1> QED
    BY <1>3, <1>4, <1>5, <1>6, <1>7, <1>8, <1>9, <1>10, <1>11, <1>13, <1>14, <1>15, <1>17, <1>18, <1>19 DEF RelayNext

LEMMA RelayTypesFrom == ASSUME RelayInv, AgreeInv, Counted, Held, Coded PROVE RelayTypeOK
<1>1. \A g \in Guests : seat[g].at # "out" => seat[g].id \in 1..Cardinality(Guests)
    <2> SUFFICES ASSUME NEW g \in Guests, seat[g].at # "out" PROVE seat[g].id \in 1..Cardinality(Guests)
        OBVIOUS
    <2>1. PICK t \in Tables : t = seat[g].table
        BY DEF RelayInv, Numbers
    <2>2. seat[g].id <= table[t].next /\ seat[g].id >= 1 /\ table[t].next <= Cardinality(Come(t)) /\ seat[g].id \in Nat /\ table[t].next \in Nat
        BY <2>1 DEF RelayInv, Numbers, Counted, Types, SeatStates, TableStates
    <2>3. IsFiniteSet(Come(t)) /\ Cardinality(Come(t)) <= Cardinality(Guests)
        BY FS_Subset, RelayAssumption DEF Come
    <2>4. Cardinality(Come(t)) \in Nat /\ Cardinality(Guests) \in Nat
        BY <2>3, FS_CardinalityType, RelayAssumption
    <2> QED
        BY <2>2, <2>3, <2>4
<1>2. \A t \in Tables : table[t].next \in 0..Cardinality(Guests)
    <2> SUFFICES ASSUME NEW t \in Tables PROVE table[t].next \in 0..Cardinality(Guests)
        OBVIOUS
    <2>1. IsFiniteSet(Come(t)) /\ Cardinality(Come(t)) <= Cardinality(Guests)
        BY FS_Subset, RelayAssumption DEF Come
    <2>2. Cardinality(Come(t)) \in Nat /\ Cardinality(Guests) \in Nat
        BY <2>1, FS_CardinalityType, RelayAssumption
    <2> QED
        BY <2>1, <2>2 DEF RelayInv, Types, TableStates, Counted
<1>3. \A g \in Guests : seat[g].id \in 0..Cardinality(Guests)
    <2>1. Cardinality(Guests) \in Nat
        BY FS_CardinalityType, RelayAssumption
    <2> QED
        BY <1>1, <2>1 DEF Counted
<1>4. \A l \in Links :
          /\ link[l].session \in Conns \cup {NoOne} /\ link[l].ws \in {NoOne, link[l].session}
          /\ link[l].code \in Tables \cup {NoCode} /\ link[l].on \in BOOLEAN
          /\ \A u \in link[l].tunnels : u.id \in 1..Cardinality(Guests) /\ u.guest \in Guests
    BY <1>1 DEF RelayInv, Types, LinkStates, AgreeInv, Sessions, SessionFits, Coded, Codes, Held
<1>5. handler \in [Conns -> [at : {"none", "upgraded", "attached", "serving", "ending", "over", "dead"},
                             want : Tables \cup {NoCode}, table : Tables \cup {NoTable}, as : Conns \cup {NoOne}]]
    BY DEF RelayInv, Types, HandlerStates, Coded, Codes
<1>6. table \in [Tables -> [code : Tables \cup {NoCode}, host : Conns \cup {NoOne}, next : 0..Cardinality(Guests)]]
    BY <1>2 DEF RelayInv, Types, TableStates, Coded, Codes
<1>7. seat \in [Guests -> [at : {"out", "in", "closed"}, table : Tables \cup {NoTable},
                           id : 0..Cardinality(Guests), via : Conns \cup {NoOne}]]
    BY <1>3 DEF RelayInv, Types, SeatStates
<1> QED
    BY <1>4, <1>5, <1>6, <1>7 DEF RelayTypeOK, RelayInv, Types

\* The types of the relay's state hold, with the bounds on numbers and codes.
THEOREM RelayTypesHold == RelaySpec => []RelayTypeOK
<1>1. RelayInit => RelayInv /\ AgreeInv /\ Counted /\ Held /\ Coded
    <2> SUFFICES ASSUME RelayInit PROVE Counted /\ Held /\ Coded
        BY RelayInitInv, InitAgrees
    <2>1. Counted
        <3>1. \A t \in Tables : Come(t) = {} /\ table[t].next = 0
            BY DEF RelayInit, Come, Outside
        <3>2. \A g \in Guests : seat[g].at = "out" /\ seat[g].id = 0
            BY DEF RelayInit, Outside
        <3> QED
            <4>1. \A t \in Tables : table[t].next <= Cardinality(Come(t))
                <5>1. Cardinality({}) = 0 /\ 0 <= 0
                    BY FS_EmptySet
                <5> QED
                    BY <3>1, <5>1
            <4>2. \A g \in Guests : IF seat[g].at = "out" THEN seat[g].id = 0 ELSE seat[g].id >= 1
                BY <3>2
            <4> QED
                BY <4>1, <4>2 DEF Counted
    <2>2. Held /\ Coded
        BY UnderNone DEF RelayInit, Held, Coded, Codes
    <2> QED
        BY <2>1, <2>2
<1>2. /\ RelayInv /\ AgreeInv /\ Counted /\ Held /\ Coded /\ [RelayNext]_relayVars
      => (RelayInv /\ AgreeInv /\ Counted /\ Held /\ Coded)'
    <2> SUFFICES ASSUME RelayInv, AgreeInv, Counted, Held, Coded, [RelayNext]_relayVars
                 PROVE  (RelayInv /\ AgreeInv /\ Counted /\ Held /\ Coded)'
        OBVIOUS
    <2>1. RelayInv' /\ AgreeInv'
        BY RelayNextInv, NextAgrees
    <2>2. CASE RelayNext
        BY <2>1, <2>2, CountedKept, HeldKept, CodedKept
    <2>3. CASE UNCHANGED relayVars
        <3>1. UNCHANGED <<link, down, handler, table, seat>>
            BY <2>3 DEF relayVars
        <3> QED
            BY <2>1, <3>1 DEF Counted, Come, Held, Coded
    <2> QED
        BY <2>2, <2>3
<1> QED
    BY <1>1, <1>2, RelayTypesFrom, PTL DEF RelaySpec

=============================================================================
