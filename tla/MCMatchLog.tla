----------------------------- MODULE MCMatchLog -----------------------------
(***************************************************************************)
(* Values for TLC.  Games of GameLen moves in rounds of RoundLen, snapshots *)
(* due every SnapshotEvery moves or at a round RoundGap after the last one: *)
(* each way a snapshot falls due happens before the game ends.              *)
(***************************************************************************)
EXTENDS MatchLog

\* Every goroutine in the first process.
OneProcess == [t \in Threads |-> CHOOSE i \in Instances : TRUE]

\* Goroutines spread over as many processes as there are.
EachItsOwn == CHOOSE f \in [Threads -> Instances] : \A i \in Instances : \E t \in Threads : f[t] = i

\* Entries are interchangeable, and so are goroutines along with the
\* processes they run in.
Symmetry ==
    Permutations(Entries)
        \cup {f \in Permutations(Threads \cup Instances) :
                \A t \in Threads : f[t] \in Threads /\ On[f[t]] = f[On[t]]}
=============================================================================
