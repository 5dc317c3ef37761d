--------------------------- MODULE MCMatchPresence ---------------------------
(***************************************************************************)
(* Two people.  With a socket each, a player comes back only after the last *)
(* handler is done with them; with two, a new socket overtakes it.          *)
(***************************************************************************)
EXTENDS MatchPresence, TLC

CONSTANTS s1, s2, s3

OneSocketEach == (s1 :> 1) @@ (s2 :> 2)
SocketToSpare == (s1 :> 1) @@ (s2 :> 2) @@ (s3 :> 1)

\* The spare socket is used, or the store is faulty.
SpareOnlyIfSound == faulty => handler[s3] = "closed"

\* The host keeps one seat at a time for its player.
KeptOneAtATime == Cardinality(held) <= 1

\* Whether a wake-up was lost is history, which decides no step: to the safety
\* properties, states that differ in it alone are one.
ApartFromLost == <<match, awaited, here, handler, held, timers, bots.at, bots.seat, sweep, moved, faulty>>
=============================================================================
