------------------------------ MODULE MCClient ------------------------------
(***************************************************************************)
(* What lies between a client and the match, in one run: the client's      *)
(* socket, the fan-out of boards, and the relay to a table on a phone.     *)
(* They share no variable.  Each behaviour is about one part, picked at    *)
(* the start; the others stay at their initial states.                     *)
(*                                                                         *)
(*   "tab", "link"  one tab, of an account or of a seat link, with every   *)
(*                  failure of the server and every token running out      *)
(*   "tabs"         two tabs of one player, the server up and tokens good  *)
(*   "players"      two players, one socket being greeted at a time        *)
(*   "sockets"      one player, two sockets being greeted                  *)
(*   "relay"        the phone and two guests; the second joins while one   *)
(*                  link of the phone is in use and the wires are short.   *)
(*                  Guests, links and connections are used once, and so    *)
(*                  in one order                                           *)
(***************************************************************************)
EXTENDS MatchSocket, MatchFanout, Relay

CONSTANTS l1, l2, n1, n2, g1, g2, t1, t2, t3, h1, h2

VARIABLE part

Parts == {"tab", "link", "tabs", "players", "sockets", "relay"}

TabsIn(p) ==
    CASE p = "tab" -> {t1} [] p = "link" -> {t3} [] p = "tabs" -> {t1, t2} [] OTHER -> {}

ClientInit ==
    /\ part \in Parts
    /\ MatchSocketInit /\ \A t \in Tabs : auth[t].token = IF part = "tabs" THEN MaxTokens ELSE 1
    /\ MatchFanoutInit
    /\ RelayInit

SocketPart ==
    /\ TabsIn(part) # {}
    /\ MatchSocketNext
    /\ \A t \in Tabs \ TabsIn(part) : ~run'[t].on /\ auth'[t] = auth[t]
    /\ part = "tabs" => server' = server /\ auth' = auth
    /\ UNCHANGED <<fanoutVars, relayVars, part>>

FanoutPart ==
    /\ part \in {"players", "sockets"}
    /\ MatchFanoutNext
    /\ part = "players" => greeter'[h2] = IdleGreeter
    /\ part = "sockets" => ~open'[2]
    /\ UNCHANGED <<socketVars, relayVars, part>>

SecondGuest == seat[g2].at # "out"
SecondLink == link[l2].on \/ link[l2].session # NoOne \/ link[l2].code # NoCode

RelayPart ==
    /\ part = "relay"
    /\ RelayNext
    /\ seat'[g2].at # "out" => seat[g1].at # "out"
    /\ wire'[n2] # "none" => wire[n1] # "none"
    /\ link'[l2].on => link[l1].code # NoCode \/ link[l1].session # NoOne \/ link[l2].on
    /\ SecondLink' => ~SecondGuest'
    /\ SecondLink' \/ SecondGuest' => \A c \in Conns : Len(down'[c]) + Len(up'[c]) <= 1
    /\ UNCHANGED <<socketVars, fanoutVars, part>>

ClientNext == SocketPart \/ FanoutPart \/ RelayPart

\* The fairness is that of the client's socket, and asks nothing of a behaviour
\* about another part.
ClientSpec ==
    ClientInit /\ [][ClientNext]_<<socketVars, fanoutVars, relayVars, part>> /\ MatchSocketFairness

\* The types of the three parts.
ClientTypesOK == MatchSocketTypeOK /\ MatchFanoutTypeOK /\ RelayTypeOK

=============================================================================
