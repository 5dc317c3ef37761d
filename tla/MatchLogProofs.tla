--------------------------- MODULE MatchLogProofs ---------------------------
(***************************************************************************)
(* For any goroutines, processes and backend, whatever fails, crashes or    *)
(* is evicted: the types of MatchLog, and that the log, the snapshots, the  *)
(* entries in memory and what players were told agree.                     *)
(*                                                                         *)
(* The invariant has two halves.  Control says who has which entry: a lock *)
(* keeps its entry to one thread, no two processes share one, and a thread *)
(* in the middle of a write is still where the write left it.  Data says   *)
(* that until the match is deleted every board, in memory or stored, is a  *)
(* replay of the log, every snapshot listed is stored, and what a thread   *)
(* has stored or is about to report is there.  Control holds on its own;   *)
(* Data holds because of it.                                               *)
(*                                                                         *)
(* Beside it there is an invariant about versions: a write that passes the *)
(* version check starts from the envelope of now, so a completed match     *)
(* stays completed and is recorded once.                                   *)
(***************************************************************************)
EXTENDS MatchLog, TLAPS, SequenceTheorems

-----------------------------------------------------------------------------
(* Where the threads are and what they hold *)

\* Where a thread has the lock of its entry.
Holding == {"recheck_moves", "recheck_env", "load", "rebuild", "locked",
            "commit_snap", "commit_env", "touch", "delete_log"}

\* The parts of TypeOK: what the process holds, and what the store does.
MemoryOK ==
    /\ table \in [Instances -> Entries \cup {None}]
    /\ entry \in [Entries -> Entry]
    /\ pc \in [Threads -> PC]
    /\ seen \in [Threads -> Nat]
    /\ ent \in [Threads -> Entries \cup {None}]
    /\ reply \in [Threads -> 0..GameLen]

MovesOK ==
    /\ moves = [s \in DOMAIN moves |-> moves[s]] /\ DOMAIN moves \subseteq 1..GameLen
    /\ \A s \in DOMAIN moves : moves[s] \in Threads

BoardsOK ==
    /\ boards = [s \in DOMAIN boards |-> boards[s]] /\ DOMAIN boards \subseteq 0..GameLen
    /\ \A s \in DOMAIN boards : boards[s] \in Board /\ Len(boards[s].played) = s

StoreOK == env \in Envelope \cup {Gone} /\ MovesOK /\ BoardsOK

HistoryOK ==
    /\ acked = [s \in DOMAIN acked |-> acked[s]] /\ DOMAIN acked \subseteq 1..GameLen
    /\ \A s \in DOMAIN acked : acked[s] \in Threads
    /\ recorded \in Nat

EntriesKnown ==
    \A t \in Threads : pc[t] \in Holding \cup {"acquire"} => ent[t] \in Entries

\* A thread past lockMatch has the lock of its entry.
LocksHeld == \A t \in Threads : pc[t] \in Holding => entry[ent[t]].lock = t

\* No entry is shared by two processes.
Apart ==
    /\ \A t, u \in Threads : ent[t] \in Entries /\ ent[t] = ent[u] => On[t] = On[u]
    /\ \A i \in Instances, t \in Threads : ent[t] \in Entries /\ table[i] = ent[t] => On[t] = i
    /\ \A i, j \in Instances : table[i] \in Entries /\ table[i] = table[j] => i = j

\* No board is longer than a game.
BoardsFit == \A e \in Entries : Len(entry[e].board.played) <= GameLen

\* What a thread relies on from one step of a write to the next.
Stage(t) ==
    /\ pc[t] = "touch" => E(t).env.status = "active"
    /\ pc[t] = "commit_snap" => E(t).env.status = "active"
    /\ pc[t] = "commit_env" => E(t).env.status \in {"lobby", "active"}
    /\ pc[t] \in {"commit_snap", "commit_env"} => StoredAt(t) <= GameLen
    /\ pc[t] = "answer" => reply[t] # 0
    /\ pc[t] \in {"delete_log", "retire_log"} => env = Gone

Owned == MemoryOK /\ EntriesKnown /\ LocksHeld /\ Apart /\ BoardsFit

Control == Owned /\ StoreOK /\ HistoryOK /\ \A t \in Threads : Stage(t)

\* A step leaves the threads other than movers where they are, with the entries
\* they have locked.
Frame(movers) ==
    \A u \in Threads \ movers :
        /\ pc'[u] = pc[u] /\ reply'[u] = reply[u]
        /\ pc[u] \in Holding => ent'[u] = ent[u] /\ E(u)' = E(u)

\* Thread t changes no entry but its own, whose board and envelope are then
\* those of rec, or none at all.
Holds(t, rec) ==
    /\ \A e \in Entries \ {ent[t]} : entry'[e] = entry[e]
    /\ entry'[ent[t]].board \in {rec.board, NoBoard}
    /\ entry'[ent[t]].env \in {rec.env, Gone}

-----------------------------------------------------------------------------
(* What the entries and the store say of each other *)

PlayedIn(b, m) == \A i \in DOMAIN b.played : i \in DOMAIN m /\ m[i] = b.played[i]

ListedIn(x, bs) == \A i \in DOMAIN x.snaps : x.snaps[i] \in DOMAIN bs

\* The log has no gap, each snapshot is a replay of it, and the ones the
\* envelope lists are stored.
StoreData ==
    /\ \A s \in DOMAIN moves : 1..s \subseteq DOMAIN moves
    /\ \A s \in DOMAIN boards : PlayedIn(boards[s], moves)
    /\ ListedIn(env, boards)

\* What a thread has stored on the way to a commit, and what it is about to
\* report, is there.
Backed(t) ==
    /\ pc[t] \in {"commit_snap", "commit_env"} /\ E(t).env.status # "lobby" =>
            StoredAt(t) \in DOMAIN moves /\ moves[StoredAt(t)] = t
    /\ pc[t] = "commit_env" => StoredAt(t) \in DOMAIN boards
    /\ reply[t] # 0 => reply[t] \in DOMAIN moves /\ moves[reply[t]] = t

Agrees ==
    /\ \A e \in Entries : PlayedIn(entry[e].board, moves) /\ ListedIn(entry[e].env, boards)
    /\ StoreData
    /\ \A t \in Threads : Backed(t)
    /\ \A s \in DOMAIN acked : s \in DOMAIN moves /\ moves[s] = acked[s]

\* All of it holds until the match is deleted.
Data == env # Gone => Agrees

\* A step that only adds to the log.
Grows ==
    /\ \A s \in DOMAIN moves : s \in DOMAIN moves' /\ moves'[s] = moves[s]
    /\ DOMAIN boards \subseteq DOMAIN boards'

-----------------------------------------------------------------------------
(* Operators *)

\* A new entry has no lock, the empty board and no envelope.
LEMMA EmptyTypes ==
    /\ NoBoard \in Board /\ Len(NoBoard.played) = 0 /\ DOMAIN NoBoard.played = {}
    /\ NewEntry \in Entry /\ NewEntry.board = NoBoard /\ NewEntry.env = Gone
    /\ NewEntry.lock = None
    /\ Gone.snaps = <<>> /\ Gone.status = "gone" /\ Gone.version = 0 /\ Gone.seats = 0
<1>1. <<>> \in Seq(Threads) /\ Len(<<>>) = 0 /\ DOMAIN <<>> = {}
  OBVIOUS
<1> QED BY <1>1 DEF NoBoard, NewEntry, Gone, Board, Entry

\* The fields of an envelope, a deleted match's included.
LEMMA EnvelopeFields ==
    ASSUME NEW x \in Envelope \cup {Gone}
    PROVE  x.version \in Nat /\ x.seats \in Nat /\ x.snaps \in Seq(Nat)
<1>1. <<>> \in Seq(Nat)
  OBVIOUS
<1>2. CASE x \in Envelope
  BY <1>2 DEF Envelope
<1>3. CASE x = Gone
  BY <1>1, <1>3 DEF Gone
<1> QED BY <1>2, <1>3

\* Listing a snapshot adds that one only, and the newest one listed is in the list.
LEMMA ListsTyped ==
    ASSUME NEW snaps \in Seq(Nat), NEW seq \in Nat
    PROVE  /\ WithSnapshot(snaps, seq) \in Seq(Nat)
           /\ \A i \in DOMAIN WithSnapshot(snaps, seq) :
                 \/ WithSnapshot(snaps, seq)[i] = seq
                 \/ \E j \in DOMAIN snaps : WithSnapshot(snaps, seq)[i] = snaps[j]
           /\ LatestSnapshot(snaps) \in Nat
           /\ snaps # <<>> => \E j \in DOMAIN snaps : LatestSnapshot(snaps) = snaps[j]
<1>1. /\ Append(snaps, seq) \in Seq(Nat) /\ Len(Append(snaps, seq)) = Len(snaps) + 1
      /\ \A i \in 1..Len(snaps) : Append(snaps, seq)[i] = snaps[i]
      /\ Append(snaps, seq)[Len(snaps) + 1] = seq
  BY AppendProperties
<1>2. DOMAIN snaps = 1..Len(snaps) /\ Len(snaps) \in Nat
  BY LenProperties
<1>3. DOMAIN Append(snaps, seq) = 1..(Len(snaps) + 1)
  BY <1>1, LenProperties
<1>4. snaps # <<>> => Len(snaps) \in 1..Len(snaps) /\ snaps[Len(snaps)] \in Nat
  BY EmptySeq, ElementOfSeq, <1>2
<1>5. \A i \in 1..(Len(snaps) + 1) : i \in 1..Len(snaps) \/ i = Len(snaps) + 1
  BY <1>2
<1> QED BY <1>1, <1>2, <1>3, <1>4, <1>5 DEF WithSnapshot, LatestSnapshot

\* The envelope a commit writes.
LEMMA NextEnvelopeTyped ==
    ASSUME NEW t \in Threads, E(t).env \in Envelope \cup {Gone}, StoredAt(t) \in Nat
    PROVE  NextEnv(t) \in Envelope
<1>1. /\ E(t).env.version \in Nat /\ E(t).env.seats \in Nat
      /\ E(t).env.snaps \in Seq(Nat)
  BY EnvelopeFields
<1>2. WithSnapshot(E(t).env.snaps, StoredAt(t)) \in Seq(Nat)
  BY <1>1, ListsTyped
<1>3. E(t).env.version + 1 \in Nat
  BY <1>1
<1>4. (IF Finished(NextBoard(t)) THEN "completed" ELSE "active") \in Status
  BY DEF Status
<1> QED BY <1>1, <1>2, <1>3, <1>4 DEF NextEnv, Envelope

\* The board and the envelope a thread is about to store.
LEMMA NextTypes ==
    ASSUME MemoryOK, NEW t \in Threads, ent[t] \in Entries
    PROVE  /\ E(t) \in Entry /\ E(t).board \in Board /\ E(t).env \in Envelope \cup {Gone}
           /\ NextBoard(t) \in Board /\ StoredAt(t) \in Nat /\ NextEnv(t) \in Envelope
           /\ Len(E(t).board.played) \in Nat /\ NextSeq(t) = Len(E(t).board.played) + 1
           /\ E(t).env.status = "lobby" => StoredAt(t) = 0 /\ NextBoard(t).played = <<>>
           /\ E(t).env.status # "lobby" =>
                /\ StoredAt(t) = NextSeq(t)
                /\ NextBoard(t).played = Append(E(t).board.played, t)
<1> DEFINE b == E(t).board
           x == E(t).env
<1>1. E(t) \in Entry /\ b \in Board /\ x \in Envelope \cup {Gone}
  BY DEF MemoryOK, E, Entry
<1>2. b.played \in Seq(Threads) /\ x.seats \in Nat /\ x.version \in Nat /\ x.snaps \in Seq(Nat)
  BY <1>1, EnvelopeFields DEF Board
<1>3. Len(b.played) \in Nat /\ Append(b.played, t) \in Seq(Threads)
      /\ Len(Append(b.played, t)) = Len(b.played) + 1
  BY <1>2, AppendProperties, LenProperties
<1>4. NextSeq(t) = Len(b.played) + 1
  BY DEF NextSeq
<1>5. CASE x.status = "lobby"
  <2>1. NextBoard(t) \in Board /\ NextBoard(t).played = <<>>
    BY <1>2, <1>5, EmptySeq DEF NextBoard, Board
  <2>2. StoredAt(t) = 0
    BY <2>1 DEF StoredAt
  <2>3. StoredAt(t) \in Nat
    BY <1>3, <1>4, <2>2
  <2>4. NextEnv(t) \in Envelope
    BY <1>1, <2>3, NextEnvelopeTyped
  <2> QED BY <1>1, <1>3, <1>4, <1>5, <2>1, <2>2, <2>3, <2>4
<1>6. CASE x.status # "lobby"
  <2>1. NextBoard(t) \in Board /\ NextBoard(t).played = Append(b.played, t)
    BY <1>1, <1>3, <1>6 DEF NextBoard, Board
  <2>2. StoredAt(t) = NextSeq(t) /\ StoredAt(t) \in Nat
    BY <2>1, <1>3, <1>4 DEF StoredAt
  <2>3. StoredAt(t) \in Nat
    BY <1>3, <1>4, <2>2
  <2>4. NextEnv(t) \in Envelope
    BY <1>1, <2>3, NextEnvelopeTyped
  <2> QED BY <1>1, <1>3, <1>4, <1>6, <2>1, <2>2, <2>3, <2>4
<1> QED BY <1>5, <1>6

\* A move that may be applied leaves a board no longer than a game.
LEMMA MoveFits ==
    ASSUME Control, NEW t \in Threads, ent[t] \in Entries, MayApply(t)
    PROVE  E(t).env.status = "active" /\ StoredAt(t) = NextSeq(t) /\ NextSeq(t) \in 1..GameLen
<1>1. Len(E(t).board.played) \in Nat /\ NextSeq(t) = Len(E(t).board.played) + 1
      /\ (E(t).env.status # "lobby" => StoredAt(t) = NextSeq(t))
  BY NextTypes DEF Control, Owned
<1>2. Len(E(t).board.played) <= GameLen /\ Len(E(t).board.played) # GameLen
      /\ E(t).env.status = "active"
  BY DEF Control, Owned, BoardsFit, MayApply, Finished, E
<1>3. NextSeq(t) \in 1..GameLen
  BY <1>1, <1>2, ParametersAssumption
<1> QED BY <1>1, <1>2, <1>3

\* One more move leaves the log what it is.
LEMMA PutMove ==
    ASSUME MovesOK, NEW s \in 1..GameLen, NEW t \in Threads, moves' = Put(moves, s, t)
    PROVE  MovesOK'
BY DEF MovesOK, Put

\* One more snapshot leaves the snapshots what they are.
LEMMA PutBoard ==
    ASSUME BoardsOK, NEW s \in 0..GameLen, NEW b \in Board, Len(b.played) = s,
           boards' = Put(boards, s, b)
    PROVE  BoardsOK'
BY DEF BoardsOK, Put

-----------------------------------------------------------------------------
(* A step of a thread in its own entry *)

\* A thread that holds a lock, or takes one nobody holds, changes its own entry: no
\* other thread has that one locked, and no process comes to share one.
LEMMA OwnStep ==
    ASSUME Owned, NEW t \in Threads, NEW x \in Entry, NEW p \in PC, NEW r \in 0..GameLen,
           ent[t] \in Entries, entry[ent[t]].lock \in {None, t},
           table' = table \/ table' = [table EXCEPT ![On[t]] = None],
           entry' = [entry EXCEPT ![ent[t]] = x],
           pc' = [pc EXCEPT ![t] = p],
           ent' = ent \/ ent' = [ent EXCEPT ![t] = None],
           seen' = seen,
           reply' = [reply EXCEPT ![t] = r],
           Len(x.board.played) <= GameLen,
           p # "acquire",
           p \in Holding => ent' = ent /\ x.lock = t
    PROVE  Owned' /\ Frame({t})
<1>1. MemoryOK /\ EntriesKnown /\ LocksHeld /\ Apart /\ BoardsFit
  BY DEF Owned
<1>2. On[t] \in Instances
  BY ParametersAssumption
<1>3. /\ \A i \in Instances : table'[i] \in {table[i], None}
      /\ \A u \in Threads : ent'[u] \in {ent[u], None} /\ (u # t => ent'[u] = ent[u])
      /\ \A u \in Threads : u # t => pc'[u] = pc[u] /\ reply'[u] = reply[u]
      /\ pc'[t] = p
      /\ entry'[ent[t]] = x
      /\ \A e \in Entries : e # ent[t] => entry'[e] = entry[e]
  BY <1>1, <1>2 DEF MemoryOK
<1>4. MemoryOK'
  BY <1>1, <1>2 DEF MemoryOK
<1>5. \A u \in Threads \ {t} : pc[u] \in Holding => ent[u] \in Entries /\ ent[u] # ent[t]
  BY <1>1, ParametersAssumption DEF EntriesKnown, LocksHeld
<1>6. EntriesKnown'
  BY <1>1, <1>3 DEF EntriesKnown
<1>7. LocksHeld'
  BY <1>1, <1>3, <1>5 DEF LocksHeld
<1>8. Apart'
  <2>1. \A u \in Threads : ent'[u] \in Entries => ent'[u] = ent[u]
    BY <1>3, ParametersAssumption
  <2>2. \A i \in Instances : table'[i] \in Entries => table'[i] = table[i]
    BY <1>3, ParametersAssumption
  <2> QED BY <1>1, <2>1, <2>2 DEF Apart
<1>9. BoardsFit'
  BY <1>1, <1>3 DEF BoardsFit
<1>10. Frame({t})
  BY <1>3, <1>5 DEF Frame, E
<1> QED BY <1>4, <1>6, <1>7, <1>8, <1>9, <1>10 DEF Owned

\* ... and lets go of the lock,
LEMMA UnlockOwns ==
    ASSUME Owned, NEW t \in Threads, pc[t] \in Holding,
           NEW rec \in Entry, Len(rec.board.played) <= GameLen,
           NEW r \in 0..GameLen,
           table' = table \/ table' = [table EXCEPT ![On[t]] = None],
           Unlock(t, rec, r)
    PROVE  /\ Owned' /\ Frame({t}) /\ Holds(t, rec)
           /\ pc'[t] = (IF r = 0 THEN "idle" ELSE "answer") /\ reply'[t] = r
<1> DEFINE freed == [rec EXCEPT !.lock = None]
           x == IF table'[On[t]] = ent[t] THEN freed ELSE NewEntry
           p == IF r = 0 THEN "idle" ELSE "answer"
<1>1. ent[t] \in Entries /\ entry[ent[t]].lock \in {None, t}
  BY DEF Owned, EntriesKnown, LocksHeld
<1>2. freed \in Entry /\ freed.board = rec.board /\ freed.env = rec.env
  BY DEF Entry
<1>3. /\ x \in Entry /\ x.board \in {rec.board, NoBoard} /\ x.env \in {rec.env, Gone}
      /\ Len(x.board.played) <= GameLen
  BY <1>2, EmptyTypes, ParametersAssumption
<1>4. p \in PC /\ p # "acquire" /\ p \notin Holding
  BY DEF PC, Holding
<1>5. /\ entry' = [entry EXCEPT ![ent[t]] = x] /\ pc' = [pc EXCEPT ![t] = p]
      /\ ent' = [ent EXCEPT ![t] = None] /\ seen' = seen
      /\ reply' = [reply EXCEPT ![t] = r]
  BY DEF Unlock, Goto
<1>6. pc'[t] = p /\ reply'[t] = r /\ entry'[ent[t]] = x
      /\ \A e \in Entries \ {ent[t]} : entry'[e] = entry[e]
  BY <1>1, <1>5 DEF Owned, MemoryOK
<1>7. Holds(t, rec)
  BY <1>3, <1>6 DEF Holds
<1> HIDE DEF x, p
<1>8. Owned' /\ Frame({t})
  BY <1>1, <1>3, <1>4, <1>5, OwnStep
<1> QED BY <1>6, <1>7, <1>8 DEF p

\* ... or keeps it.
LEMMA HoldOwns ==
    ASSUME Owned, NEW t \in Threads, ent[t] \in Entries, entry[ent[t]].lock \in {None, t},
           NEW rec \in Entry, Len(rec.board.played) <= GameLen, rec.lock = t,
           NEW p \in Holding, NEW r \in 0..GameLen,
           entry' = [entry EXCEPT ![ent[t]] = rec], Goto(t, p),
           reply' = [reply EXCEPT ![t] = r], UNCHANGED <<table, ent, seen>>
    PROVE  /\ Owned' /\ Frame({t}) /\ Holds(t, rec)
           /\ pc'[t] = p /\ reply'[t] = r /\ E(t)' = rec
<1>1. p \in PC /\ p # "acquire"
  BY DEF PC, Holding
<1>2. Owned' /\ Frame({t})
  BY <1>1, OwnStep DEF Goto
<1>3. Holds(t, rec) /\ pc'[t] = p /\ reply'[t] = r /\ E(t)' = rec
  BY DEF Owned, MemoryOK, Goto, Holds, E
<1> QED BY <1>2, <1>3

\* A thread's stage outlasts a step it does not make that does not bring a
\* deleted match back.
LEMMA StagesKept ==
    ASSUME Control, NEW movers, Frame(movers), \A u \in movers : Stage(u)',
           env = Gone => env' = Gone
    PROVE  \A u \in Threads : Stage(u)'
<1> SUFFICES ASSUME NEW u \in Threads \ movers PROVE Stage(u)'
  OBVIOUS
<1>1. Stage(u) /\ pc'[u] = pc[u] /\ reply'[u] = reply[u]
  BY DEF Control, Frame
<1>2. CASE pc[u] \in Holding
  <2>1. E(u)' = E(u)
    BY <1>2 DEF Frame
  <2>2. StoredAt(u)' = StoredAt(u)
    BY <2>1 DEF StoredAt, NextBoard
  <2> QED BY <1>1, <2>1, <2>2 DEF Stage
<1>3. CASE pc[u] \notin Holding
  BY <1>1, <1>3 DEF Stage, Holding
<1> QED BY <1>2, <1>3

\* What a thread may leave in its entry.
EntryFits(rec) == rec \in Entry /\ Len(rec.board.played) <= GameLen

\* The control invariant, when a thread lets go of the lock,
LEMMA UnlockKeeps ==
    ASSUME Control, NEW t \in Threads, pc[t] \in Holding,
           NEW rec, EntryFits(rec), NEW r \in 0..GameLen,
           table' = table \/ table' = [table EXCEPT ![On[t]] = None],
           Unlock(t, rec, r), StoreOK', UNCHANGED history, env = Gone => env' = Gone
    PROVE  /\ Control' /\ Frame({t}) /\ Holds(t, rec)
           /\ pc'[t] = (IF r = 0 THEN "idle" ELSE "answer") /\ reply'[t] = r
<1>1. /\ Owned' /\ Frame({t}) /\ Holds(t, rec)
      /\ pc'[t] = (IF r = 0 THEN "idle" ELSE "answer") /\ reply'[t] = r
  BY UnlockOwns DEF Control, EntryFits
<1>2. Stage(t)'
  BY <1>1 DEF Stage
<1>3. \A u \in Threads : Stage(u)'
  BY <1>1, <1>2, StagesKept
<1>4. HistoryOK'
  BY DEF history, Control, HistoryOK
<1> QED BY <1>1, <1>3, <1>4 DEF Control

\* ... and when it stays in the call.
LEMMA Advances ==
    ASSUME Control, NEW t \in Threads, Owned', Frame({t}), Stage(t)',
           StoreOK', UNCHANGED history, env = Gone => env' = Gone
    PROVE  Control'
<1>1. \A u \in Threads : Stage(u)'
  BY StagesKept
<1>2. HistoryOK'
  BY DEF history, Control, HistoryOK
<1> QED BY <1>1, <1>2 DEF Control

\* The entry of a thread, and what the calls leave in it.
LEMMA OwnEntry ==
    ASSUME Control, NEW t \in Threads, pc[t] \in Holding
    PROVE  /\ ent[t] \in Entries /\ E(t) = entry[ent[t]] /\ E(t).lock = t
           /\ EntryFits(E(t))
           /\ EntryFits(Behind(t)) /\ Behind(t).board = E(t).board /\ Behind(t).env = E(t).env
           /\ Behind(t).lock = t /\ Behind(t).loaded = FALSE
           /\ \A r \in {0, reply[t]} : r \in 0..GameLen
           /\ reply = [reply EXCEPT ![t] = reply[t]]
           /\ entry = [entry EXCEPT ![ent[t]] = E(t)]
<1>1. 0 \in 0..GameLen
  BY ParametersAssumption
<1>2. reply[t] \in 0..GameLen
  BY DEF Control, Owned, MemoryOK
<1>3. \A r \in {0, reply[t]} : r \in 0..GameLen
  BY <1>1, <1>2
<1> QED BY <1>3 DEF Control, Owned, MemoryOK, EntriesKnown, LocksHeld, BoardsFit, EntryFits,
                    Behind, E, Entry

\* What a write that landed leaves.
LEMMA WrittenEntry ==
    ASSUME Control, NEW t \in Threads, pc[t] \in Holding, StoredAt(t) <= GameLen
    PROVE  /\ EntryFits(Played(t)) /\ Played(t).board = NextBoard(t)
           /\ Played(t).env = E(t).env /\ Played(t).lock = t
           /\ EntryFits(Committed(t)) /\ Committed(t).board = NextBoard(t)
           /\ Committed(t).env = NextEnv(t) /\ Reported(t) \in 0..GameLen
<1>1. E(t) \in Entry /\ E(t).lock = t /\ ent[t] \in Entries
  BY OwnEntry DEF EntryFits
<1>2. NextBoard(t) \in Board /\ NextEnv(t) \in Envelope /\ StoredAt(t) \in Nat
  BY <1>1, NextTypes DEF Control, Owned
<1>3. Len(NextBoard(t).played) <= GameLen
  BY DEF StoredAt
<1>4. Reported(t) \in 0..GameLen
  BY <1>2, ParametersAssumption DEF Reported
<1> QED BY <1>1, <1>2, <1>3, <1>4 DEF EntryFits, Played, Committed, Entry

\* What the log and the snapshots bear out, they still do when they have grown.
LEMMA StaysPlayed ==
    ASSUME Grows
    PROVE  /\ \A b : PlayedIn(b, moves) => PlayedIn(b, moves')
           /\ \A x : ListedIn(x, boards) => ListedIn(x, boards')
BY DEF Grows, PlayedIn, ListedIn

\* An empty board and a deleted match ask nothing of the store.
LEMMA EmptyData ==
    /\ \A m : PlayedIn(NoBoard, m)
    /\ \A bs : ListedIn(Gone, bs)
<1>1. DOMAIN NoBoard.played = {} /\ DOMAIN Gone.snaps = {}
  BY DEF NoBoard, Gone
<1> QED BY <1>1 DEF PlayedIn, ListedIn

\* A thread that does not move is backed by a log that only grows.
LEMMA BackedKept ==
    ASSUME Control, Grows, NEW u \in Threads, Backed(u),
           pc'[u] = pc[u], reply'[u] = reply[u], pc[u] \in Holding => E(u)' = E(u)
    PROVE  Backed(u)'
<1>1. CASE pc[u] \in Holding
  <2>1. E(u)' = E(u)
    BY <1>1
  <2>2. StoredAt(u)' = StoredAt(u)
    BY <2>1 DEF StoredAt, NextBoard
  <2> QED BY <2>1, <2>2 DEF Backed, Grows
<1>2. CASE pc[u] \notin Holding
  BY <1>2 DEF Backed, Grows, Holding
<1> QED BY <1>1, <1>2

\* What is to be shown of a step: that the log only grows, and that the store, the
\* entries, the threads that move and the answers agree with it.
LEMMA DataKept ==
    ASSUME Control, Data, env = Gone => env' = Gone, NEW movers, Frame(movers),
           env' # Gone =>
              /\ Grows /\ StoreData'
              /\ \A e \in Entries : /\ PlayedIn(entry'[e].board, moves')
                                    /\ ListedIn(entry'[e].env, boards')
              /\ \A u \in movers : Backed(u)'
              /\ \A s \in DOMAIN acked' : s \in DOMAIN moves' /\ moves'[s] = acked'[s]
    PROVE  Data'
<1> SUFFICES ASSUME env' # Gone PROVE Agrees'
  BY DEF Data
<1>1. Agrees
  BY DEF Data
<1>2. \A u \in Threads \ movers : Backed(u)'
  BY <1>1, BackedKept DEF Frame, Agrees
<1>3. \A u \in Threads : Backed(u)'
  BY <1>2
<1> QED BY <1>3 DEF Agrees

\* A step of a thread in its own entry.
LEMMA OwnData ==
    ASSUME Control, Data, env = Gone => env' = Gone, NEW t \in Threads, Frame({t}),
           NEW rec, Holds(t, rec), UNCHANGED history,
           env' # Gone =>
              /\ Grows /\ StoreData'
              /\ PlayedIn(rec.board, moves') /\ ListedIn(rec.env, boards')
              /\ Backed(t)'
    PROVE  Data'
<1> SUFFICES ASSUME env' # Gone
             PROVE  /\ \A e \in Entries : /\ PlayedIn(entry'[e].board, moves')
                                          /\ ListedIn(entry'[e].env, boards')
                    /\ \A s \in DOMAIN acked' : s \in DOMAIN moves' /\ moves'[s] = acked'[s]
  BY DataKept
<1>1. Agrees /\ Grows
  BY DEF Data
<1>2. ASSUME NEW e \in Entries
      PROVE  PlayedIn(entry'[e].board, moves') /\ ListedIn(entry'[e].env, boards')
  <2>1. CASE e = ent[t]
    BY <2>1, EmptyData DEF Holds
  <2>2. CASE e # ent[t]
    BY <1>1, <2>2, StaysPlayed DEF Holds, Agrees
  <2> QED BY <2>1, <2>2
<1>3. \A s \in DOMAIN acked' : s \in DOMAIN moves' /\ moves'[s] = acked'[s]
  BY <1>1 DEF Agrees, Grows, history
<1> QED BY <1>2, <1>3

\* A call that is over: what it leaves in its entry and what it reports.
LEMMA Finishes ==
    ASSUME Control, NEW t \in Threads, pc[t] \in Holding,
           NEW rec, EntryFits(rec), NEW r \in 0..GameLen,
           table' = table \/ table' = [table EXCEPT ![On[t]] = None],
           Unlock(t, rec, r), StoreOK', UNCHANGED history, env = Gone => env' = Gone,
           Data /\ env' # Gone =>
              /\ Grows /\ StoreData'
              /\ PlayedIn(rec.board, moves') /\ ListedIn(rec.env, boards')
              /\ r # 0 => r \in DOMAIN moves' /\ moves'[r] = t
    PROVE  Control' /\ (Data => Data')
<1>1. /\ Control' /\ Frame({t}) /\ Holds(t, rec)
      /\ pc'[t] = (IF r = 0 THEN "idle" ELSE "answer") /\ reply'[t] = r
  BY UnlockKeeps
<1>2. ASSUME Data PROVE Data'
  <2>1. pc'[t] \notin {"commit_snap", "commit_env"}
    BY <1>1
  <2>2. env' # Gone => Backed(t)'
    BY <1>1, <1>2, <2>1 DEF Backed
  <2> QED BY <1>1, <1>2, <2>2, OwnData
<1> QED BY <1>1, <1>2

\* What a thread with the lock knows of its entry.
LEMMA OwnAgrees ==
    ASSUME Control, Data, env # Gone, NEW t \in Threads, pc[t] \in Holding
    PROVE  /\ PlayedIn(E(t).board, moves) /\ ListedIn(E(t).env, boards)
           /\ StoreData /\ Backed(t)
BY OwnEntry DEF Data, Agrees

\* A call that is over without having changed the store.
LEMMA FinishesIdly ==
    ASSUME Control, NEW t \in Threads, pc[t] \in Holding, NEW r \in {0, reply[t]},
           table' = table \/ table' = [table EXCEPT ![On[t]] = None],
           Unlock(t, E(t), r) \/ Unlock(t, Behind(t), r), UNCHANGED store, UNCHANGED history
    PROVE  Control' /\ (Data => Data')
<1>1. StoreOK' /\ env' = env /\ moves' = moves /\ boards' = boards
  BY DEF store, Control, StoreOK, MovesOK, BoardsOK
<1>2. PICK rec \in {E(t), Behind(t)} : Unlock(t, rec, r)
  OBVIOUS
<1>3. EntryFits(rec) /\ rec.board = E(t).board /\ rec.env = E(t).env /\ r \in 0..GameLen
  BY OwnEntry
<1>4. ASSUME Data, env' # Gone
      PROVE  /\ Grows /\ StoreData'
             /\ PlayedIn(rec.board, moves') /\ ListedIn(rec.env, boards')
             /\ r # 0 => r \in DOMAIN moves' /\ moves'[r] = t
  <2>1. PlayedIn(E(t).board, moves) /\ ListedIn(E(t).env, boards) /\ StoreData /\ Backed(t)
    BY <1>1, <1>4, OwnAgrees
  <2> QED BY <1>1, <1>3, <2>1 DEF Grows, StoreData, Backed
<1> QED BY <1>1, <1>2, <1>3, <1>4, Finishes

\* UpdateWithVersion, however it ends.
LEMMA WriteEnvelopeKeeps ==
    ASSUME Control, NEW t \in Threads, pc[t] \in Holding,
           NEW next \in Envelope, NEW rec, EntryFits(rec),
           NEW ok \in 0..GameLen, NEW failed \in {0, reply[t]},
           WriteEnvelope(t, next, rec, ok, failed),
           Data /\ env # Gone =>
              /\ ListedIn(next, boards) /\ PlayedIn(rec.board, moves) /\ ListedIn(rec.env, boards)
              /\ ok # 0 => ok \in DOMAIN moves /\ moves[ok] = t
    PROVE  Control' /\ (Data => Data')
<1>1. /\ moves' = moves /\ boards' = boards /\ UNCHANGED history /\ table' = table
      /\ failed \in 0..GameLen
  BY OwnEntry DEF WriteEnvelope
<1>2. CASE UNCHANGED env /\ (Unlock(t, E(t), failed) \/ Unlock(t, Behind(t), failed))
  BY <1>1, <1>2, FinishesIdly DEF store
<1>3. ASSUME VersionIs(E(t).env.version), env' = next,
             Unlock(t, rec, ok) \/ Unlock(t, E(t), failed)
      PROVE  Control' /\ (Data => Data')
  <2>1. env # Gone /\ StoreOK'
    BY <1>1, <1>3 DEF VersionIs, Control, StoreOK, MovesOK, BoardsOK
  <2>2. Grows
    BY <1>1 DEF Grows
  <2>3. ASSUME Data
        PROVE  /\ PlayedIn(E(t).board, moves') /\ ListedIn(E(t).env, boards') /\ StoreData'
               /\ failed # 0 => failed \in DOMAIN moves' /\ moves'[failed] = t
    <3>1. PlayedIn(E(t).board, moves) /\ ListedIn(E(t).env, boards) /\ StoreData /\ Backed(t)
      BY <2>1, <2>3, OwnAgrees
    <3> QED BY <1>1, <1>3, <2>1, <2>3, <3>1 DEF StoreData, Backed
  <2>4. CASE Unlock(t, rec, ok)
    BY <1>1, <2>1, <2>2, <2>3, <2>4, Finishes
  <2>5. CASE Unlock(t, E(t), failed)
    BY <1>1, <2>1, <2>2, <2>3, <2>5, OwnEntry, Finishes
  <2> QED BY <1>3, <2>4, <2>5
<1>4. \/ UNCHANGED env /\ (Unlock(t, E(t), failed) \/ Unlock(t, Behind(t), failed))
      \/ /\ VersionIs(E(t).env.version) /\ env' = next
         /\ Unlock(t, rec, ok) \/ Unlock(t, E(t), failed)
  BY DEF WriteEnvelope
<1> QED BY <1>2, <1>3, <1>4

-----------------------------------------------------------------------------
(* Steps outside the lock *)

\* An entry is as it was, or new.
Emptied == \A e \in Entries : entry'[e] = entry[e] \/ entry'[e] = NewEntry

\* A step of a thread without a lock, that leaves the memory alone or forgets an
\* entry.
LEMMA OutsideOwns ==
    ASSUME Owned, NEW t \in Threads, NEW p \in PC, p \notin Holding \cup {"acquire"},
           pc' = [pc EXCEPT ![t] = p], ent' = ent,
           NEW v \in Nat, seen' = seen \/ seen' = [seen EXCEPT ![t] = v],
           reply' = reply \/ reply' = [reply EXCEPT ![t] = 0],
           UNCHANGED memory \/ \E i \in Instances : Forget(i)
    PROVE  Owned' /\ Frame({t}) /\ Emptied /\ pc'[t] = p
<1>1. MemoryOK /\ EntriesKnown /\ LocksHeld /\ Apart /\ BoardsFit
  BY DEF Owned
<1>2. /\ pc'[t] = p
      /\ \A u \in Threads : u # t => pc'[u] = pc[u] /\ reply'[u] = reply[u]
  BY <1>1 DEF MemoryOK
<1>3. /\ table' \in [Instances -> Entries \cup {None}]
      /\ \A i \in Instances : table'[i] \in {table[i], None}
      /\ entry' \in [Entries -> Entry]
      /\ \A e \in Entries : \/ entry'[e] = entry[e]
                            \/ entry[e].lock = None /\ entry'[e] = NewEntry
  <2>1. CASE UNCHANGED memory
    BY <1>1, <2>1 DEF MemoryOK, memory
  <2>2. ASSUME NEW i \in Instances, Forget(i)
        PROVE  /\ table' = [table EXCEPT ![i] = None] /\ entry' \in [Entries -> Entry]
               /\ \A e \in Entries : \/ entry'[e] = entry[e]
                                     \/ entry[e].lock = None /\ entry'[e] = NewEntry
    BY <1>1, <2>2, EmptyTypes DEF MemoryOK, Forget
  <2> QED BY <1>1, <2>1, <2>2 DEF MemoryOK
<1>4. MemoryOK'
  BY <1>1, <1>3, ParametersAssumption DEF MemoryOK
<1>5. \A u \in Threads : pc[u] \in Holding => entry'[ent[u]] = entry[ent[u]]
  BY <1>1, <1>3, ParametersAssumption DEF EntriesKnown, LocksHeld
<1>6. EntriesKnown' /\ LocksHeld'
  BY <1>1, <1>2, <1>5 DEF EntriesKnown, LocksHeld
<1>7. Apart'
  BY <1>1, <1>3, ParametersAssumption DEF Apart
<1>8. BoardsFit' /\ Emptied
  BY <1>1, <1>3, EmptyTypes, ParametersAssumption DEF BoardsFit, Emptied
<1>9. Frame({t})
  BY <1>2, <1>5 DEF Frame, E
<1> QED BY <1>2, <1>4, <1>6, <1>7, <1>8, <1>9 DEF Owned

\* ... and the control invariant with it.
LEMMA OutsideKeeps ==
    ASSUME Control, NEW t \in Threads, NEW p \in PC, p \notin Holding \cup {"acquire", "answer"},
           pc' = [pc EXCEPT ![t] = p], ent' = ent,
           NEW v \in Nat, seen' = seen \/ seen' = [seen EXCEPT ![t] = v],
           reply' = reply \/ reply' = [reply EXCEPT ![t] = 0],
           UNCHANGED memory \/ \E i \in Instances : Forget(i),
           p # "retire_log" \/ env' = Gone,
           StoreOK', HistoryOK', env = Gone => env' = Gone
    PROVE  Control' /\ Frame({t}) /\ Emptied /\ pc'[t] = p
<1>1. Owned' /\ Frame({t}) /\ Emptied /\ pc'[t] = p
  BY OutsideOwns DEF Control
<1>2. Stage(t)'
  BY <1>1 DEF Stage, Holding
<1>3. \A u \in Threads : Stage(u)'
  BY <1>1, <1>2, StagesKept
<1> QED BY <1>1, <1>3 DEF Control

\* Looking the entry up, made if there is none.
LEMMA LookupKeeps ==
    ASSUME Control, NEW t \in Threads, pc[t] \notin Holding, Lookup(t),
           pc' = [pc EXCEPT ![t] = "acquire"], UNCHANGED <<store, seen, reply, history>>
    PROVE  Control' /\ Frame({t}) /\ Emptied /\ pc'[t] = "acquire"
<1>1. MemoryOK /\ EntriesKnown /\ LocksHeld /\ Apart /\ BoardsFit
  BY DEF Control, Owned
<1>2. On[t] \in Instances /\ "acquire" \in PC /\ "acquire" \notin Holding
  BY ParametersAssumption DEF PC, Holding
<1>3. pc'[t] = "acquire" /\ \A u \in Threads : u # t => pc'[u] = pc[u]
  BY <1>1 DEF MemoryOK
<1>4. Owned' /\ Frame({t}) /\ Emptied
  <2>1. CASE table[On[t]] # None
    <3>1. /\ ent' = [ent EXCEPT ![t] = table[On[t]]] /\ UNCHANGED memory
          /\ table[On[t]] \in Entries
      BY <1>1, <1>2, <2>1 DEF Lookup, MemoryOK
    <3>2. MemoryOK' /\ BoardsFit' /\ Emptied
      BY <1>1, <1>2, <3>1 DEF MemoryOK, memory, BoardsFit, Emptied
    <3>3. ent'[t] = table[On[t]] /\ \A u \in Threads : u # t => ent'[u] = ent[u]
      BY <1>1, <3>1 DEF MemoryOK
    <3>4. EntriesKnown' /\ LocksHeld' /\ Frame({t})
      BY <1>1, <1>2, <1>3, <3>1, <3>3 DEF EntriesKnown, LocksHeld, memory, Frame, E
    <3>5. Apart'
      BY <1>1, <1>2, <3>1, <3>3 DEF Apart, memory
    <3> QED BY <3>2, <3>4, <3>5 DEF Owned
  <2>2. CASE table[On[t]] = None
    <3>1. PICK e \in Entries :
            /\ \A j \in Instances : table[j] # e
            /\ \A u \in Threads : ent[u] # e
            /\ table' = [table EXCEPT ![On[t]] = e]
            /\ entry' = [entry EXCEPT ![e] = NewEntry]
            /\ ent' = [ent EXCEPT ![t] = e]
      BY <2>2 DEF Lookup
    <3>2. /\ ent'[t] = e /\ \A u \in Threads : u # t => ent'[u] = ent[u]
          /\ table'[On[t]] = e /\ \A j \in Instances : j # On[t] => table'[j] = table[j]
          /\ entry'[e] = NewEntry /\ \A f \in Entries : f # e => entry'[f] = entry[f]
      BY <1>1, <1>2, <3>1 DEF MemoryOK
    <3>3. MemoryOK'
      BY <1>1, <1>2, <3>1, EmptyTypes DEF MemoryOK
    <3>4. BoardsFit' /\ Emptied
      BY <1>1, <3>2, EmptyTypes, ParametersAssumption DEF BoardsFit, Emptied
    <3>5. EntriesKnown' /\ LocksHeld' /\ Frame({t})
      BY <1>1, <1>2, <1>3, <3>1, <3>2 DEF EntriesKnown, LocksHeld, Frame, E
    <3>6. Apart'
      BY <1>1, <1>2, <3>1, <3>2 DEF Apart
    <3> QED BY <3>3, <3>4, <3>5, <3>6 DEF Owned
  <2> QED BY <2>1, <2>2
<1>5. Stage(t)'
  BY <1>3 DEF Stage
<1>6. \A u \in Threads : Stage(u)'
  BY <1>4, <1>5, StagesKept DEF store
<1>7. StoreOK' /\ HistoryOK'
  BY DEF store, history, Control, StoreOK, MovesOK, BoardsOK, HistoryOK
<1> QED BY <1>3, <1>4, <1>6, <1>7 DEF Control

\* An eviction touches no locked entry.
LEMMA EvictIdleKeeps ==
    ASSUME Control, NEW i \in Instances, EvictIdle(i)
    PROVE  Control' /\ Frame({}) /\ Emptied
<1>1. MemoryOK /\ EntriesKnown /\ LocksHeld /\ Apart /\ BoardsFit
  BY DEF Control, Owned
<1>2. table[i] \in Entries /\ entry[table[i]].lock = None
  BY <1>1 DEF EvictIdle, MemoryOK
<1>3. /\ \A j \in Instances : table'[j] \in {table[j], None}
      /\ \A e \in Entries : entry'[e] = IF e = table[i] THEN NewEntry ELSE entry[e]
      /\ pc' = pc /\ ent' = ent /\ reply' = reply
  BY <1>1, <1>2 DEF EvictIdle, MemoryOK, thread
<1>4. MemoryOK'
  BY <1>1, <1>2, EmptyTypes DEF EvictIdle, MemoryOK, thread
<1>5. \A u \in Threads : pc[u] \in Holding => entry'[ent[u]] = entry[ent[u]]
  BY <1>1, <1>2, <1>3, ParametersAssumption DEF EntriesKnown, LocksHeld
<1>6. EntriesKnown' /\ LocksHeld' /\ Frame({})
  BY <1>1, <1>3, <1>5 DEF EntriesKnown, LocksHeld, Frame, E
<1>7. Apart'
  BY <1>1, <1>3, ParametersAssumption DEF Apart
<1>8. BoardsFit' /\ Emptied
  BY <1>1, <1>3, EmptyTypes, ParametersAssumption DEF BoardsFit, Emptied
<1>9. StoreOK' /\ HistoryOK' /\ env' = env
  BY DEF EvictIdle, store, history, Control, StoreOK, MovesOK, BoardsOK, HistoryOK
<1>10. \A u \in Threads : Stage(u)'
  BY <1>6, <1>9, StagesKept
<1> QED BY <1>4, <1>6, <1>7, <1>8, <1>9, <1>10 DEF Control, Owned

\* A crash takes the entries of its own process only.
LEMMA CrashKeeps ==
    ASSUME Control, NEW i \in Instances, Crash(i)
    PROVE  /\ Control' /\ Frame({t \in Threads : On[t] = i}) /\ Emptied
           /\ \A t \in Threads : On[t] = i => pc'[t] = "idle" /\ reply'[t] = 0
<1> DEFINE mine == {t \in Threads : On[t] = i}
           its == {ent[t] : t \in mine} \cup {table[i]}
<1>1. MemoryOK /\ EntriesKnown /\ LocksHeld /\ Apart /\ BoardsFit
  BY DEF Control, Owned
<1>2. /\ table' = [table EXCEPT ![i] = None]
      /\ entry' = [e \in Entries |-> IF e \in its THEN NewEntry ELSE entry[e]]
      /\ pc' = [t \in Threads |-> IF t \in mine THEN "idle" ELSE pc[t]]
      /\ seen' = [t \in Threads |-> IF t \in mine THEN 0 ELSE seen[t]]
      /\ ent' = [t \in Threads |-> IF t \in mine THEN None ELSE ent[t]]
      /\ reply' = [t \in Threads |-> IF t \in mine THEN 0 ELSE reply[t]]
  BY DEF Crash
<1>3. \A u \in Threads : pc[u] \in Holding /\ u \notin mine => ent[u] \in Entries /\ ent[u] \notin its
  BY <1>1 DEF EntriesKnown, Apart
<1> HIDE DEF its
<1>4. /\ \A j \in Instances : table'[j] \in {table[j], None}
      /\ \A u \in Threads : ent'[u] \in {ent[u], None}
      /\ \A e \in Entries : entry'[e] = entry[e] \/ entry'[e] = NewEntry
  BY <1>1, <1>2 DEF MemoryOK
<1>5. MemoryOK'
  <2>1. "idle" \in PC /\ 0 \in 0..GameLen /\ 0 \in Nat
    BY ParametersAssumption DEF PC
  <2> QED BY <1>1, <1>2, <2>1, EmptyTypes DEF MemoryOK
<1>6. /\ \A u \in Threads : u \notin mine => pc'[u] = pc[u] /\ ent'[u] = ent[u] /\ reply'[u] = reply[u]
      /\ \A u \in mine : pc'[u] = "idle" /\ reply'[u] = 0
      /\ \A u \in Threads : pc[u] \in Holding /\ u \notin mine => entry'[ent[u]] = entry[ent[u]]
  BY <1>2, <1>3
<1> HIDE DEF mine
<1>7. EntriesKnown' /\ LocksHeld' /\ Frame(mine)
  BY <1>1, <1>6 DEF EntriesKnown, LocksHeld, Frame, E, Holding, mine
<1>8. Apart'
  BY <1>1, <1>4, ParametersAssumption DEF Apart
<1>9. BoardsFit' /\ Emptied
  BY <1>1, <1>4, EmptyTypes, ParametersAssumption DEF BoardsFit, Emptied
<1>10. StoreOK' /\ HistoryOK' /\ env' = env
  BY DEF Crash, store, history, Control, StoreOK, MovesOK, BoardsOK, HistoryOK
<1>11. \A u \in mine : Stage(u)'
  BY <1>6 DEF Stage
<1>12. \A u \in Threads : Stage(u)'
  BY <1>7, <1>10, <1>11, StagesKept
<1> QED BY <1>5, <1>6, <1>7, <1>8, <1>9, <1>10, <1>12 DEF Control, Owned, mine

-----------------------------------------------------------------------------
(* Each step of a thread *)

\* The moves and boards a delete on kdb leaves.
LEMMA DropCountedKeeps ==
    ASSUME StoreOK, DropCounted
    PROVE  StoreOK' /\ env' = Gone
<1>1. /\ DOMAIN moves' \subseteq DOMAIN moves /\ \A s \in DOMAIN moves' : moves'[s] = moves[s]
      /\ moves' = [s \in DOMAIN moves' |-> moves'[s]]
  BY DEF DropCounted
<1>2. /\ DOMAIN boards' \subseteq DOMAIN boards /\ \A s \in DOMAIN boards' : boards'[s] = boards[s]
      /\ boards' = [s \in DOMAIN boards' |-> boards'[s]]
  BY DEF DropCounted
<1>3. env' = Gone
  BY DEF DropCounted
<1> QED BY <1>1, <1>2, <1>3 DEF StoreOK, MovesOK, BoardsOK

\* The store with the log deleted.
LEMMA EmptyStore ==
    ASSUME moves' = <<>>, boards' = <<>>, env' \in Envelope \cup {Gone}
    PROVE  StoreOK'
<1>1. DOMAIN moves' = {} /\ DOMAIN boards' = {}
  OBVIOUS
<1>2. moves' = [s \in DOMAIN moves' |-> moves'[s]]
  OBVIOUS
<1>3. boards' = [s \in DOMAIN boards' |-> boards'[s]]
  OBVIOUS
<1> QED BY <1>1, <1>2, <1>3 DEF StoreOK, MovesOK, BoardsOK

\* The board that is rebuilt is a replay of the stored moves.
LEMMA ReplayedTypes ==
    ASSUME MovesOK, NEW b \in Board, NEW h \in 0..GameLen,
           Len(b.played) <= h, \A i \in (Len(b.played) + 1)..h : i \in DOMAIN moves
    PROVE  /\ Replayed(b, h) \in Board /\ Len(Replayed(b, h).played) = h
           /\ DOMAIN Replayed(b, h).played = 1..h
           /\ \A i \in 1..h : Replayed(b, h).played[i] =
                               IF i <= Len(b.played) THEN b.played[i] ELSE moves[i]
<1> DEFINE f == [i \in 1..h |-> IF i <= Len(b.played) THEN b.played[i] ELSE moves[i]]
<1>1. b.played \in Seq(Threads) /\ h \in Nat
  BY ParametersAssumption DEF Board
<1>2. Len(b.played) \in Nat /\ \A i \in 1..Len(b.played) : b.played[i] \in Threads
  BY <1>1, LenProperties, ElementOfSeq
<1>3. \A i \in 1..h : (IF i <= Len(b.played) THEN b.played[i] ELSE moves[i]) \in Threads
  BY <1>1, <1>2 DEF MovesOK
<1>4. f \in [1..h -> Threads]
  BY <1>3
<1>5. f \in Seq(Threads)
  BY <1>1, <1>4, SeqDef
<1>6. Len(f) = h /\ DOMAIN f = 1..h
  BY <1>1, <1>5, LenProperties
<1>7. Replayed(b, h) = [b EXCEPT !.played = f]
  BY DEF Replayed
<1>8. Replayed(b, h).played = f /\ Replayed(b, h) \in Board
  BY <1>5, <1>7 DEF Board
<1> QED BY <1>6, <1>8

\* The store left alone.
LEMMA SameStore ==
    ASSUME Control, UNCHANGED store PROVE StoreOK' /\ env' = env
BY DEF store, Control, StoreOK, MovesOK, BoardsOK

\* A step under the lock that leaves the store alone.
LEMMA MoveOnKeeps ==
    ASSUME Control, NEW t \in Threads, ent[t] \in Entries, entry[ent[t]].lock \in {None, t},
           NEW rec, EntryFits(rec), rec.lock = t,
           NEW p \in {"recheck_moves", "recheck_env", "load", "rebuild", "locked"},
           entry' = [entry EXCEPT ![ent[t]] = rec], Goto(t, p),
           UNCHANGED <<store, table, ent, seen, reply, history>>
    PROVE  Control' /\ Frame({t}) /\ Holds(t, rec) /\ pc'[t] = p /\ reply' = reply
<1>1. reply[t] \in 0..GameLen /\ reply' = [reply EXCEPT ![t] = reply[t]]
  BY DEF Control, Owned, MemoryOK
<1>2. StoreOK' /\ env' = env
  BY SameStore
<1>3. /\ p \in Holding
      /\ p \notin {"touch", "commit_snap", "commit_env", "delete_log", "answer", "retire_log"}
  BY DEF Holding
<1>4. UNCHANGED history /\ UNCHANGED <<table, ent, seen>> /\ reply' = reply
  OBVIOUS
<1>5. Owned' /\ Frame({t}) /\ Holds(t, rec) /\ pc'[t] = p
  BY <1>1, <1>3, <1>4, HoldOwns DEF Control, EntryFits
<1>6. Stage(t)'
  BY <1>3, <1>5 DEF Stage
<1>7. \A u \in Threads : Stage(u)'
  BY <1>2, <1>5, <1>6, StagesKept
<1>8. HistoryOK'
  BY <1>4 DEF history, Control, HistoryOK
<1> QED BY <1>2, <1>4, <1>5, <1>7, <1>8 DEF Control

\* ... and what it keeps in its entry agrees with the store.
LEMMA MovesOn ==
    ASSUME Control, NEW t \in Threads, ent[t] \in Entries, entry[ent[t]].lock \in {None, t},
           NEW rec, EntryFits(rec), rec.lock = t,
           NEW p \in {"recheck_moves", "recheck_env", "load", "rebuild", "locked"},
           entry' = [entry EXCEPT ![ent[t]] = rec], Goto(t, p),
           UNCHANGED <<store, table, ent, seen, reply, history>>,
           Data /\ env # Gone => PlayedIn(rec.board, moves) /\ ListedIn(rec.env, boards)
    PROVE  Control' /\ (Data => Data')
<1>1. Control' /\ Frame({t}) /\ Holds(t, rec) /\ pc'[t] = p /\ reply' = reply
  BY MoveOnKeeps
<1>2. env' = env /\ moves' = moves /\ boards' = boards /\ UNCHANGED history
  BY DEF store
<1>3. ASSUME Data, env # Gone PROVE Grows /\ StoreData' /\ Backed(t)'
  <2>1. p \notin {"commit_snap", "commit_env"}
    OBVIOUS
  <2>2. Backed(t)'
    BY <1>1, <1>2, <1>3, <2>1 DEF Data, Agrees, Backed
  <2>3. Grows /\ StoreData'
    BY <1>2, <1>3 DEF Data, Agrees, Grows, StoreData
  <2> QED BY <2>2, <2>3
<1>4. ASSUME Data PROVE Data'
  BY <1>1, <1>2, <1>3, <1>4, OwnData
<1> QED BY <1>1, <1>4

\* A step that leaves the store alone and an entry as it was or new.
LEMMA EmptiedData ==
    ASSUME Control, NEW t \in Threads, Control', Frame({t}), Emptied,
           UNCHANGED <<store, history>>, reply' = reply,
           pc'[t] \notin {"commit_snap", "commit_env"}
    PROVE  Control' /\ (Data => Data')
<1> SUFFICES ASSUME Data, env # Gone
             PROVE  /\ Grows /\ StoreData'
                    /\ \A e \in Entries : /\ PlayedIn(entry'[e].board, moves')
                                          /\ ListedIn(entry'[e].env, boards')
                    /\ Backed(t)'
                    /\ \A s \in DOMAIN acked' : s \in DOMAIN moves' /\ moves'[s] = acked'[s]
  BY DataKept DEF store
<1>1. env' = env /\ moves' = moves /\ boards' = boards /\ acked' = acked
  BY DEF store, history
<1>2. Agrees
  BY DEF Data
<1>3. Backed(t)'
  BY <1>1, <1>2 DEF Agrees, Backed
<1>4. Grows /\ StoreData'
  BY <1>1, <1>2 DEF Agrees, Grows, StoreData
<1>5. \A e \in Entries : PlayedIn(entry'[e].board, moves') /\ ListedIn(entry'[e].env, boards')
  BY <1>1, <1>2, EmptyTypes, EmptyData DEF Emptied, Agrees
<1> QED BY <1>1, <1>2, <1>3, <1>4, <1>5 DEF Agrees

\* Taking the lock nobody holds.
LEMMA AcquireKeeps ==
    ASSUME Control, NEW t \in Threads, Acquire(t)
    PROVE  Control' /\ (Data => Data')
<1> DEFINE e == ent[t]
           rec == [entry[e] EXCEPT !.lock = t]
           p == IF rec.loaded /\ RedisEnabled THEN "recheck_moves"
                ELSE IF ~rec.loaded \/ rec.broken THEN "load" ELSE "locked"
<1>1. e \in Entries /\ entry[e].lock = None
  BY DEF Acquire, Control, Owned, EntriesKnown
<1>2. entry[e] \in Entry /\ Len(entry[e].board.played) <= GameLen
  BY <1>1 DEF Control, Owned, MemoryOK, BoardsFit
<1>3. EntryFits(rec) /\ rec.lock = t /\ rec.board = entry[e].board /\ rec.env = entry[e].env
  BY <1>2 DEF EntryFits, Entry
<1>4. p \in {"recheck_moves", "load", "locked"}
  OBVIOUS
<1>5. /\ entry' = [entry EXCEPT ![e] = rec] /\ Goto(t, p)
      /\ UNCHANGED <<store, table, ent, seen, reply, history>>
  BY DEF Acquire
<1>6. Data /\ env # Gone => PlayedIn(rec.board, moves) /\ ListedIn(rec.env, boards)
  BY <1>1, <1>3 DEF Data, Agrees
<1> HIDE DEF p, rec
<1> QED BY <1>1, <1>3, <1>4, <1>5, <1>6, MovesOn

\* Looking up again an entry that was dropped meanwhile.
LEMMA RelookupKeeps ==
    ASSUME Control, NEW t \in Threads, Relookup(t)
    PROVE  Control' /\ (Data => Data')
<1>1. pc' = [pc EXCEPT ![t] = "acquire"] /\ pc[t] \notin Holding
  BY DEF Relookup, Control, Owned, MemoryOK, Holding
<1>2. Control' /\ Frame({t}) /\ Emptied /\ pc'[t] = "acquire"
  BY <1>1, LookupKeeps DEF Relookup
<1>3. UNCHANGED <<store, history>> /\ reply' = reply
  BY DEF Relookup
<1> QED BY <1>2, <1>3, EmptiedData

\* A call that arrives.
LEMMA BeginKeeps ==
    ASSUME Control, NEW t \in Threads, Begin(t)
    PROVE  Control' /\ (Data => Data')
<1>1. Control' /\ Frame({t}) /\ Emptied /\ pc'[t] = "acquire"
  BY LookupKeeps DEF Begin, Goto, Holding
<1>2. UNCHANGED <<store, history>> /\ reply' = reply
  BY DEF Begin
<1> QED BY <1>1, <1>2, EmptiedData

\* Rechecking a held match against the store.
LEMMA RecheckKeeps ==
    ASSUME Control, NEW t \in Threads, RecheckMoves(t) \/ RecheckEnvelope(t)
    PROVE  Control' /\ (Data => Data')
<1>1. pc[t] \in Holding
  BY DEF RecheckMoves, RecheckEnvelope, Holding
<1>2. /\ UNCHANGED <<store, table, ent, seen, reply, history>>
      /\ \/ entry' = [entry EXCEPT ![ent[t]] = Behind(t)] /\ Goto(t, "load")
         \/ UNCHANGED entry /\ \E p \in {"load", "recheck_env", "locked"} : Goto(t, p)
  BY DEF RecheckMoves, RecheckEnvelope, Behind, E
<1>3. PICK rec \in {E(t), Behind(t)}, p \in {"load", "recheck_env", "locked"} :
         entry' = [entry EXCEPT ![ent[t]] = rec] /\ Goto(t, p)
  BY <1>1, <1>2, OwnEntry
<1>4. EntryFits(rec) /\ rec.lock = t /\ rec.board = E(t).board /\ rec.env = E(t).env
  BY <1>1, OwnEntry
<1>5. ent[t] \in Entries /\ entry[ent[t]].lock = t
  BY <1>1, OwnEntry
<1>6. Data /\ env # Gone => PlayedIn(rec.board, moves) /\ ListedIn(rec.env, boards)
  BY <1>1, <1>4, OwnAgrees
<1> QED BY <1>2, <1>3, <1>4, <1>5, <1>6, MovesOn

\* Filling an entry from the envelope.
LEMMA LoadEnvelopeKeeps ==
    ASSUME Control, NEW t \in Threads, LoadEnvelope(t)
    PROVE  Control' /\ (Data => Data')
<1>1. /\ pc[t] \in Holding /\ UNCHANGED store /\ UNCHANGED history
      /\ 0 \in 0..GameLen /\ 0 \in {0, reply[t]}
  BY ParametersAssumption DEF LoadEnvelope, Holding
<1>2. CASE env = Gone /\ table' = [table EXCEPT ![On[t]] = None] /\ Unlock(t, NewEntry, 0)
  <2>1. EntryFits(NewEntry)
    BY EmptyTypes, ParametersAssumption DEF EntryFits
  <2>2. StoreOK' /\ env' = env
    BY <1>1, SameStore
  <2>3. env' = Gone
    BY <1>2, <2>2
  <2> QED BY <1>1, <1>2, <2>1, <2>2, <2>3, Finishes
<1>3. CASE UNCHANGED table /\ Unlock(t, Behind(t), 0)
  BY <1>1, <1>3, FinishesIdly
<1>4. ASSUME /\ env # Gone
             /\ entry' = [entry EXCEPT ![ent[t]] = [@ EXCEPT !.loaded = TRUE, !.broken = FALSE,
                                                              !.env = env, !.board = NoBoard]]
             /\ Goto(t, IF env.status = "lobby" THEN "locked" ELSE "rebuild")
             /\ UNCHANGED <<table, ent, seen, reply>>
      PROVE  Control' /\ (Data => Data')
  <2> DEFINE rec == [entry[ent[t]] EXCEPT !.loaded = TRUE, !.broken = FALSE,
                                          !.env = env, !.board = NoBoard]
             p == IF env.status = "lobby" THEN "locked" ELSE "rebuild"
  <2>1. ent[t] \in Entries /\ entry[ent[t]] \in Entry /\ entry[ent[t]].lock = t
    BY <1>1, OwnEntry DEF EntryFits
  <2>2. env \in Envelope \cup {Gone} /\ NoBoard \in Board
    BY EmptyTypes DEF Control, StoreOK
  <2>3. rec \in Entry /\ rec.lock = t /\ rec.env = env /\ rec.board = NoBoard
    BY <2>1, <2>2 DEF Entry
  <2>4. entry' = [entry EXCEPT ![ent[t]] = rec] /\ Goto(t, p) /\ p \in {"locked", "rebuild"}
    BY <1>4
  <2> HIDE DEF rec, p
  <2>5. EntryFits(rec)
    BY <2>3, EmptyTypes, ParametersAssumption DEF EntryFits
  <2>6. UNCHANGED <<store, table, ent, seen, reply, history>>
    BY <1>1, <1>4
  <2>7. Data /\ env # Gone => PlayedIn(rec.board, moves) /\ ListedIn(rec.env, boards)
    BY <2>3, EmptyData DEF Data, Agrees, StoreData
  <2> QED BY <2>1, <2>3, <2>4, <2>5, <2>6, <2>7, MovesOn
<1> QED BY <1>2, <1>3, <1>4 DEF LoadEnvelope

\* Rebuilding the board: from a stored snapshot, itself a replay, with the moves after it.
LEMMA RebuildKeeps ==
    ASSUME Control, NEW t \in Threads, Rebuild(t)
    PROVE  Control' /\ (Data => Data')
<1> DEFINE e == ent[t]
           from == LatestSnapshot(entry[e].env.snaps)
           listed == entry[e].env.snaps # <<>>
           start == IF listed THEN boards[from] ELSE [deal |-> entry[e].env.seats, played |-> <<>>]
<1>1. pc[t] \in Holding
  BY DEF Rebuild, Holding
<1>2. /\ e \in Entries /\ entry[e].lock = t /\ entry[e] \in Entry
      /\ Len(entry[e].board.played) <= GameLen /\ E(t) = entry[e]
  BY <1>1, OwnEntry DEF EntryFits
<1>3. Goto(t, "locked") /\ UNCHANGED <<store, table, ent, seen, reply, history>>
  BY DEF Rebuild
<1>4. Data /\ env # Gone => PlayedIn(entry[e].board, moves) /\ ListedIn(entry[e].env, boards)
  BY <1>2 DEF Data, Agrees
<1>5. CASE entry' = [entry EXCEPT ![e].broken = TRUE]
  <2> DEFINE rec == [entry[e] EXCEPT !.broken = TRUE]
  <2>1. /\ EntryFits(rec) /\ rec.lock = t /\ rec.board = entry[e].board
        /\ rec.env = entry[e].env
    BY <1>2 DEF EntryFits, Entry
  <2>2. entry' = [entry EXCEPT ![e] = rec]
    BY <1>5
  <2> HIDE DEF rec
  <2> QED BY <1>2, <1>3, <1>4, <2>1, <2>2, MovesOn
<1>6. ASSUME listed => from \in DOMAIN boards, NEW h \in from..GameLen, RunsTo(from, h),
             entry' = [entry EXCEPT ![e].board = Replayed(start, h)]
      PROVE  Control' /\ (Data => Data')
  <2> DEFINE rec == [entry[e] EXCEPT !.board = Replayed(start, h)]
  <2>1. entry[e].env.snaps \in Seq(Nat) /\ entry[e].env.seats \in Nat
    BY <1>2, EnvelopeFields DEF Entry
  <2>2. from \in Nat /\ h \in 0..GameLen
    BY <1>6, <2>1, ListsTyped, ParametersAssumption
  <2>3. start \in Board /\ Len(start.played) = from /\ (~listed => DOMAIN start.played = {})
    <3>1. CASE listed
      BY <1>6, <3>1 DEF Control, StoreOK, BoardsOK
    <3>2. CASE ~listed
      <4>1. <<>> \in Seq(Threads) /\ Len(<<>>) = 0 /\ DOMAIN <<>> = {}
        OBVIOUS
      <4> QED BY <2>1, <3>2, <4>1 DEF Board, LatestSnapshot
    <3> QED BY <3>1, <3>2
  <2>4. h >= from /\ \A i \in (from + 1)..h : i \in DOMAIN moves
    BY <1>6 DEF RunsTo
  <2>5. Data /\ env # Gone => PlayedIn(start, moves)
    <3>1. CASE listed
      BY <1>6, <3>1 DEF Data, Agrees, StoreData
    <3>2. CASE ~listed
      BY <2>3, <3>2 DEF PlayedIn
    <3> QED BY <3>1, <3>2
  <2>6. DOMAIN start.played = 1..from
    BY <2>3, LenProperties DEF Board
  <2> HIDE DEF start, from, listed
  <2>7. /\ Replayed(start, h) \in Board /\ Len(Replayed(start, h).played) = h
        /\ DOMAIN Replayed(start, h).played = 1..h
        /\ \A i \in 1..h : Replayed(start, h).played[i] =
                            IF i <= from THEN start.played[i] ELSE moves[i]
    BY <2>2, <2>3, <2>4, ReplayedTypes DEF Control, StoreOK
  <2>8. Data /\ env # Gone => PlayedIn(Replayed(start, h), moves)
    BY <2>2, <2>4, <2>5, <2>6, <2>7 DEF PlayedIn
  <2>9. /\ EntryFits(rec) /\ rec.lock = t /\ rec.board = Replayed(start, h)
        /\ rec.env = entry[e].env
    BY <1>2, <2>2, <2>7 DEF EntryFits, Entry
  <2>10. entry' = [entry EXCEPT ![e] = rec]
    BY <1>6
  <2> HIDE DEF rec
  <2> QED BY <1>2, <1>3, <1>4, <2>8, <2>9, <2>10, MovesOn
<1> QED BY <1>5, <1>6 DEF Rebuild

\* A call that changes nothing.
LEMMA LeaveUnchangedKeeps ==
    ASSUME Control, NEW t \in Threads, LeaveUnchanged(t)
    PROVE  Control' /\ (Data => Data')
<1>1. pc[t] \in Holding /\ UNCHANGED store /\ UNCHANGED history /\ table' = table
  BY DEF LeaveUnchanged, Holding
<1> QED BY <1>1, FinishesIdly DEF LeaveUnchanged

\* One more move, of the next number, on the log.
LEMMA MoveLogged ==
    ASSUME Control, NEW t \in Threads, pc[t] \in Holding, MayApply(t),
           ~Stored(NextSeq(t)), moves' = Put(moves, NextSeq(t), t)
    PROVE  /\ MovesOK' /\ NextSeq(t) \in 1..GameLen /\ StoredAt(t) = NextSeq(t)
           /\ E(t).env.status = "active"
           /\ \A s \in DOMAIN moves : s \in DOMAIN moves' /\ moves'[s] = moves[s]
           /\ NextSeq(t) \in DOMAIN moves' /\ moves'[NextSeq(t)] = t
           /\ PlayedIn(E(t).board, moves) => PlayedIn(NextBoard(t), moves')
           /\ StoreData /\ PlayedIn(E(t).board, moves) =>
                 \A s \in DOMAIN moves' : 1..s \subseteq DOMAIN moves'
<1> DEFINE n == NextSeq(t)
           b == E(t).board
<1>1. ent[t] \in Entries
  BY OwnEntry
<1>2. E(t).env.status = "active" /\ StoredAt(t) = n /\ n \in 1..GameLen
  BY <1>1, MoveFits
<1>3. MovesOK'
  BY <1>2, PutMove DEF Control, StoreOK
<1>4. /\ DOMAIN moves' = DOMAIN moves \cup {n} /\ n \notin DOMAIN moves
      /\ moves'[n] = t /\ \A s \in DOMAIN moves : moves'[s] = moves[s]
  BY DEF Put, Stored
<1>5. b.played \in Seq(Threads) /\ n = Len(b.played) + 1 /\ NextBoard(t).played = Append(b.played, t)
  BY <1>1, <1>2, NextTypes DEF Control, Owned, Board
<1>6. /\ DOMAIN b.played = 1..(n - 1) /\ DOMAIN NextBoard(t).played = 1..n
      /\ NextBoard(t).played[n] = t
      /\ \A i \in 1..(n - 1) : NextBoard(t).played[i] = b.played[i]
  <2>1. /\ Append(b.played, t) \in Seq(Threads) /\ Len(Append(b.played, t)) = Len(b.played) + 1
        /\ \A i \in 1..Len(b.played) : Append(b.played, t)[i] = b.played[i]
        /\ Append(b.played, t)[Len(b.played) + 1] = t
    BY <1>5, AppendProperties
  <2>2. Len(b.played) = n - 1 /\ DOMAIN b.played = 1..Len(b.played)
    BY <1>2, <1>5, LenProperties
  <2>3. DOMAIN Append(b.played, t) = 1..n
    BY <1>5, <2>1, LenProperties
  <2> QED BY <1>5, <2>1, <2>2, <2>3
<1> HIDE DEF n, b
<1>7. \A i \in 1..n : i \in 1..(n - 1) \/ i = n
  BY <1>2
<1>8. PlayedIn(b, moves) => PlayedIn(NextBoard(t), moves')
  BY <1>4, <1>6, <1>7 DEF PlayedIn
<1>9. StoreData /\ PlayedIn(b, moves) => \A s \in DOMAIN moves' : 1..s \subseteq DOMAIN moves'
  BY <1>4, <1>6, <1>7 DEF PlayedIn, StoreData
<1> QED BY <1>2, <1>3, <1>4, <1>8, <1>9 DEF n, b

\* The log with the move on it is as good as it was.
LEMMA MoveAlone ==
    ASSUME Control, NEW t \in Threads, pc[t] \in Holding, MayApply(t),
           ~Stored(NextSeq(t)), moves' = Put(moves, NextSeq(t), t),
           env' = env, boards' = boards
    PROVE  /\ StoreOK' /\ Grows
           /\ Data /\ env' # Gone =>
                /\ StoreData' /\ PlayedIn(E(t).board, moves') /\ PlayedIn(NextBoard(t), moves')
                /\ ListedIn(E(t).env, boards')
<1>1. StoreOK'
  BY MoveLogged DEF Control, StoreOK, BoardsOK
<1>2. Grows
  BY MoveLogged DEF Grows
<1>3. ASSUME Data, env' # Gone
      PROVE  /\ StoreData' /\ PlayedIn(E(t).board, moves') /\ PlayedIn(NextBoard(t), moves')
             /\ ListedIn(E(t).env, boards')
  <2>1. PlayedIn(E(t).board, moves) /\ ListedIn(E(t).env, boards) /\ StoreData
    BY <1>3, OwnAgrees
  <2>2. PlayedIn(E(t).board, moves') /\ ListedIn(E(t).env, boards')
    BY <1>2, <2>1, StaysPlayed
  <2>3. PlayedIn(NextBoard(t), moves') /\ \A s \in DOMAIN moves' : 1..s \subseteq DOMAIN moves'
    BY <2>1, MoveLogged
  <2>4. \A s \in DOMAIN boards' : PlayedIn(boards'[s], moves')
    BY <1>2, <2>1, StaysPlayed DEF StoreData
  <2>5. StoreData'
    BY <2>1, <2>3, <2>4 DEF StoreData
  <2> QED BY <2>2, <2>3, <2>5
<1> QED BY <1>1, <1>2, <1>3

\* The ordinary move.
LEMMA AppendMoveKeeps ==
    ASSUME Control, NEW t \in Threads, AppendMove(t)
    PROVE  Control' /\ (Data => Data')
<1> DEFINE seq == NextSeq(t)
<1>1. /\ pc[t] \in Holding /\ MayApply(t) /\ env' = env /\ boards' = boards /\ UNCHANGED history
      /\ table' = table
  BY DEF AppendMove, Holding
<1>2. CASE UNCHANGED moves /\ (Unlock(t, E(t), 0) \/ Unlock(t, Behind(t), 0))
  BY <1>1, <1>2, FinishesIdly DEF store
<1>3. ASSUME ~Stored(seq), moves' = Put(moves, seq, t),
             \/ Unlock(t, Played(t), seq)
             \/ /\ entry' = [entry EXCEPT ![ent[t]] = Played(t)]
                /\ reply' = [reply EXCEPT ![t] = seq]
                /\ Goto(t, "touch") /\ UNCHANGED <<ent, seen>>
             \/ Unlock(t, E(t), 0)
      PROVE  Control' /\ (Data => Data')
  <2>1. /\ seq \in 1..GameLen /\ StoredAt(t) = seq /\ E(t).env.status = "active"
        /\ seq \in DOMAIN moves' /\ moves'[seq] = t
    BY <1>1, <1>3, MoveLogged
  <2>2. /\ StoreOK' /\ Grows
        /\ Data /\ env' # Gone =>
              /\ StoreData' /\ PlayedIn(E(t).board, moves') /\ PlayedIn(NextBoard(t), moves')
              /\ ListedIn(E(t).env, boards')
    BY <1>1, <1>3, MoveAlone
  <2>3. seq \in 0..GameLen /\ seq # 0 /\ StoredAt(t) <= GameLen /\ 0 \in 0..GameLen
    BY <2>1, ParametersAssumption
  <2>4. /\ EntryFits(Played(t)) /\ Played(t).board = NextBoard(t) /\ Played(t).env = E(t).env
        /\ Played(t).lock = t
    BY <1>1, <2>3, WrittenEntry
  <2> HIDE DEF seq
  <2>5. CASE Unlock(t, Played(t), seq)
    BY <1>1, <2>1, <2>2, <2>3, <2>4, <2>5, Finishes
  <2>6. CASE Unlock(t, E(t), 0)
    BY <1>1, <2>2, <2>3, <2>6, OwnEntry, Finishes
  <2>7. CASE /\ entry' = [entry EXCEPT ![ent[t]] = Played(t)]
             /\ reply' = [reply EXCEPT ![t] = seq]
             /\ Goto(t, "touch") /\ UNCHANGED <<ent, seen>>
    <3>1. ent[t] \in Entries /\ entry[ent[t]].lock = t /\ "touch" \in Holding
      BY <1>1, OwnEntry DEF Holding
    <3>2. /\ Control' /\ Frame({t}) /\ Holds(t, Played(t))
          /\ pc'[t] = "touch" /\ reply'[t] = seq
      <4>1. /\ Owned' /\ Frame({t}) /\ Holds(t, Played(t))
            /\ pc'[t] = "touch" /\ reply'[t] = seq /\ E(t)' = Played(t)
        BY <1>1, <2>3, <2>4, <2>7, <3>1, HoldOwns DEF Control, EntryFits
      <4>2. Stage(t)'
        BY <2>1, <2>4, <4>1 DEF Stage
      <4> QED BY <1>1, <2>2, <4>1, <4>2, Advances
    <3>3. Backed(t)'
      BY <2>1, <3>2 DEF Backed
    <3>4. Data => Data'
      BY <1>1, <2>2, <2>4, <3>2, <3>3, OwnData
    <3> QED BY <3>2, <3>4
  <2> QED BY <1>3, <2>5, <2>6, <2>7
<1> QED BY <1>2, <1>3 DEF AppendMove

\* Listing the snapshot of the board a thread has just stored.
LEMMA NextListed ==
    ASSUME Control, NEW t \in Threads, pc[t] \in Holding, NEW bs,
           StoredAt(t) \in DOMAIN bs, ListedIn(E(t).env, bs)
    PROVE  ListedIn(NextEnv(t), bs)
<1> DEFINE old == E(t).env.snaps
           seq == StoredAt(t)
<1>1. old \in Seq(Nat) /\ seq \in Nat
  <2>1. E(t).env \in Envelope \cup {Gone} /\ seq \in Nat
    BY OwnEntry, NextTypes DEF Control, Owned
  <2> QED BY <2>1, EnvelopeFields
<1>2. \A i \in DOMAIN WithSnapshot(old, seq) :
         \/ WithSnapshot(old, seq)[i] = seq
         \/ \E j \in DOMAIN old : WithSnapshot(old, seq)[i] = old[j]
  BY <1>1, ListsTyped
<1>3. NextEnv(t).snaps = WithSnapshot(old, seq)
  BY DEF NextEnv
<1> QED BY <1>2, <1>3 DEF ListedIn

\* The board a thread has made, stored as a snapshot.
LEMMA BoardStored ==
    ASSUME Control, NEW t \in Threads, pc[t] \in Holding, StoredAt(t) <= GameLen,
           boards' = Put(boards, StoredAt(t), NextBoard(t))
    PROVE  /\ BoardsOK' /\ DOMAIN boards \subseteq DOMAIN boards'
           /\ StoredAt(t) \in DOMAIN boards'
           /\ \A s \in DOMAIN boards' : \/ boards'[s] = NextBoard(t)
                                        \/ s \in DOMAIN boards /\ boards'[s] = boards[s]
           /\ \A x : ListedIn(x, boards) => ListedIn(x, boards')
<1>1. StoredAt(t) \in Nat /\ NextBoard(t) \in Board /\ Len(NextBoard(t).played) = StoredAt(t)
  BY OwnEntry, NextTypes DEF Control, Owned, StoredAt
<1>2. StoredAt(t) \in 0..GameLen
  BY <1>1, ParametersAssumption
<1>3. BoardsOK'
  BY <1>1, <1>2, PutBoard DEF Control, StoreOK
<1> QED BY <1>3 DEF Put, ListedIn

\* A board with no move on it is a replay of any log.
LEMMA StartPlayed ==
    ASSUME Control, NEW t \in Threads, pc[t] \in Holding, E(t).env.status = "lobby"
    PROVE  StoredAt(t) = 0 /\ StoredAt(t) <= GameLen /\ \A m : PlayedIn(NextBoard(t), m)
<1>1. StoredAt(t) = 0 /\ NextBoard(t).played = <<>>
  BY OwnEntry, NextTypes DEF Control, Owned
<1>2. DOMAIN NextBoard(t).played = {}
  BY <1>1
<1> QED BY <1>1, <1>2, ParametersAssumption DEF PlayedIn

\* The one transaction of kdb.
LEMMA CommitSnapshotKeeps ==
    ASSUME Control, NEW t \in Threads, CommitSnapshot(t)
    PROVE  Control' /\ (Data => Data')
<1> DEFINE starts == E(t).env.status = "lobby"
<1>1. /\ pc[t] \in Holding /\ UNCHANGED history /\ table' = table
      /\ starts \/ MayApply(t)
  BY DEF CommitSnapshot, Holding
<1>2. CASE UNCHANGED store /\ (Unlock(t, E(t), 0) \/ Unlock(t, Behind(t), 0))
  BY <1>1, <1>2, FinishesIdly
<1>3. ASSUME VersionIs(E(t).env.version), starts \/ ~Stored(StoredAt(t)),
             moves' = IF starts THEN moves ELSE Put(moves, StoredAt(t), t),
             boards' = Put(boards, StoredAt(t), NextBoard(t)), env' = NextEnv(t),
             Unlock(t, Committed(t), Reported(t)) \/ Unlock(t, E(t), 0)
      PROVE  Control' /\ (Data => Data')
  <2>1. /\ StoredAt(t) <= GameLen /\ MovesOK'
        /\ \A s \in DOMAIN moves : s \in DOMAIN moves' /\ moves'[s] = moves[s]
        /\ Reported(t) # 0 => Reported(t) \in DOMAIN moves' /\ moves'[Reported(t)] = t
        /\ PlayedIn(E(t).board, moves) => PlayedIn(NextBoard(t), moves')
        /\ StoreData /\ PlayedIn(E(t).board, moves) =>
              \A s \in DOMAIN moves' : 1..s \subseteq DOMAIN moves'
    <3>1. CASE starts
      <4>1. StoredAt(t) <= GameLen /\ Reported(t) = 0 /\ moves' = moves /\ PlayedIn(NextBoard(t), moves')
        BY <1>1, <1>3, <3>1, StartPlayed DEF Reported
      <4> QED BY <4>1 DEF Control, StoreOK, MovesOK, StoreData
    <3>2. CASE ~starts
      <4>1. /\ MayApply(t) /\ StoredAt(t) = NextSeq(t) /\ NextSeq(t) \in 1..GameLen
            /\ Reported(t) = NextSeq(t)
        BY <1>1, <3>2, OwnEntry, MoveFits DEF Reported
      <4>2. ~Stored(NextSeq(t)) /\ moves' = Put(moves, NextSeq(t), t)
        BY <1>3, <3>2, <4>1
      <4>3. StoredAt(t) <= GameLen
        BY <4>1, ParametersAssumption
      <4> QED BY <1>1, <4>1, <4>2, <4>3, MoveLogged
    <3> QED BY <3>1, <3>2
  <2>2. /\ BoardsOK' /\ DOMAIN boards \subseteq DOMAIN boards'
        /\ StoredAt(t) \in DOMAIN boards'
        /\ \A s \in DOMAIN boards' : \/ boards'[s] = NextBoard(t)
                                     \/ s \in DOMAIN boards /\ boards'[s] = boards[s]
        /\ \A x : ListedIn(x, boards) => ListedIn(x, boards')
    BY <1>1, <1>3, <2>1, BoardStored
  <2>3. NextEnv(t) \in Envelope /\ env # Gone
    BY <1>1, <1>3, OwnEntry, NextTypes DEF Control, Owned, VersionIs
  <2>4. StoreOK' /\ Grows
    BY <1>3, <2>1, <2>2, <2>3 DEF StoreOK, Grows
  <2>5. ASSUME Data
        PROVE  /\ StoreData' /\ PlayedIn(E(t).board, moves') /\ PlayedIn(NextBoard(t), moves')
               /\ ListedIn(E(t).env, boards') /\ ListedIn(NextEnv(t), boards')
    <3>1. PlayedIn(E(t).board, moves) /\ ListedIn(E(t).env, boards) /\ StoreData
      BY <1>1, <2>3, <2>5, OwnAgrees
    <3>2. /\ PlayedIn(E(t).board, moves') /\ PlayedIn(NextBoard(t), moves')
          /\ ListedIn(E(t).env, boards')
      BY <2>1, <2>4, <3>1, StaysPlayed
    <3>3. ListedIn(NextEnv(t), boards')
      BY <1>1, <2>2, <3>2, NextListed
    <3>4. \A s \in DOMAIN boards' : PlayedIn(boards'[s], moves')
      BY <2>2, <2>4, <3>1, <3>2, StaysPlayed DEF StoreData
    <3>5. StoreData'
      BY <1>3, <2>1, <3>1, <3>3, <3>4 DEF StoreData
    <3> QED BY <3>2, <3>3, <3>5
  <2>6. /\ EntryFits(Committed(t)) /\ Committed(t).board = NextBoard(t)
        /\ Committed(t).env = NextEnv(t) /\ Reported(t) \in 0..GameLen
    BY <1>1, <2>1, WrittenEntry
  <2>7. CASE Unlock(t, Committed(t), Reported(t))
    BY <1>1, <2>1, <2>3, <2>4, <2>5, <2>6, <2>7, Finishes
  <2>8. CASE Unlock(t, E(t), 0)
    <3>1. EntryFits(E(t)) /\ 0 \in 0..GameLen
      BY <1>1, OwnEntry
    <3> QED BY <1>1, <2>3, <2>4, <2>5, <2>8, <3>1, Finishes
  <2> QED BY <1>3, <2>7, <2>8
<1> QED BY <1>2, <1>3 DEF CommitSnapshot

\* A thread goes on under its lock with its entry as it was.
LEMMA GoesOn ==
    ASSUME Control, NEW t \in Threads, pc[t] \in Holding, NEW p \in Holding, Goto(t, p),
           UNCHANGED <<table, entry, ent, seen, reply>>
    PROVE  /\ Owned' /\ Frame({t}) /\ Holds(t, E(t)) /\ pc'[t] = p /\ E(t)' = E(t)
           /\ StoredAt(t)' = StoredAt(t) /\ reply'[t] = reply[t]
<1>1. /\ ent[t] \in Entries /\ entry[ent[t]].lock \in {None, t}
      /\ E(t) \in Entry /\ Len(E(t).board.played) <= GameLen /\ E(t).lock = t
      /\ entry = [entry EXCEPT ![ent[t]] = E(t)]
      /\ reply = [reply EXCEPT ![t] = reply[t]] /\ reply[t] \in 0..GameLen
  BY OwnEntry DEF EntryFits
<1>2. /\ entry' = [entry EXCEPT ![ent[t]] = E(t)] /\ reply' = [reply EXCEPT ![t] = reply[t]]
      /\ UNCHANGED <<table, ent, seen>>
  BY <1>1
<1>3. Owned
  BY DEF Control
<1>4. /\ Owned' /\ Frame({t}) /\ Holds(t, E(t)) /\ pc'[t] = p /\ E(t)' = E(t)
  BY <1>1, <1>2, <1>3, HoldOwns
<1>5. StoredAt(t)' = StoredAt(t)
  BY <1>4 DEF StoredAt, NextBoard
<1> QED BY <1>4, <1>5

\* On Mongo, the move on its own.
LEMMA CommitMoveKeeps ==
    ASSUME Control, NEW t \in Threads, CommitMove(t)
    PROVE  Control' /\ (Data => Data')
<1> DEFINE seq == NextSeq(t)
<1>1. /\ pc[t] \in Holding /\ MayApply(t) /\ env' = env /\ boards' = boards /\ UNCHANGED history
      /\ table' = table
  BY DEF CommitMove, Holding
<1>2. CASE UNCHANGED moves /\ (Unlock(t, E(t), 0) \/ Unlock(t, Behind(t), 0))
  BY <1>1, <1>2, FinishesIdly DEF store
<1>3. ASSUME ~Stored(seq), moves' = Put(moves, seq, t),
             \/ Goto(t, "commit_snap") /\ UNCHANGED <<entry, ent, seen, reply>>
             \/ Unlock(t, E(t), 0)
      PROVE  Control' /\ (Data => Data')
  <2>1. /\ seq \in 1..GameLen /\ StoredAt(t) = seq /\ E(t).env.status = "active"
        /\ seq \in DOMAIN moves' /\ moves'[seq] = t
    BY <1>1, <1>3, MoveLogged
  <2>2. /\ StoreOK' /\ Grows
        /\ Data /\ env' # Gone =>
              /\ StoreData' /\ PlayedIn(E(t).board, moves') /\ ListedIn(E(t).env, boards')
    BY <1>1, <1>3, MoveAlone
  <2>3. CASE Unlock(t, E(t), 0)
    <3>1. EntryFits(E(t)) /\ 0 \in 0..GameLen
      BY <1>1, OwnEntry
    <3> QED BY <1>1, <2>2, <2>3, <3>1, Finishes
  <2>4. CASE Goto(t, "commit_snap") /\ UNCHANGED <<entry, ent, seen, reply>>
    <3>1. UNCHANGED <<table, entry, ent, seen, reply>>
      BY <1>1, <2>4
    <3>2. /\ Owned' /\ Frame({t}) /\ Holds(t, E(t)) /\ pc'[t] = "commit_snap" /\ E(t)' = E(t)
          /\ StoredAt(t)' = StoredAt(t) /\ reply'[t] = reply[t]
      BY <1>1, <2>4, <3>1, GoesOn DEF Holding
    <3>3. StoredAt(t)' = seq /\ seq <= GameLen
      BY <2>1, <3>2, ParametersAssumption
    <3>4. Stage(t)'
      BY <2>1, <3>2, <3>3 DEF Stage
    <3>5. Control'
      BY <1>1, <2>2, <3>2, <3>4, Advances
    <3>6. ASSUME Data PROVE Data'
      <4>1. env' # Gone => Backed(t)'
        <5>1. SUFFICES ASSUME env # Gone PROVE Backed(t)'
          BY <1>1
        <5>2. reply[t] # 0 => reply[t] \in DOMAIN moves /\ moves[reply[t]] = t
          BY <1>1, <3>6, <5>1, OwnAgrees DEF Backed
        <5> QED BY <2>1, <2>2, <2>4, <3>2, <3>3, <5>2 DEF Backed, Grows
      <4> QED BY <1>1, <2>2, <3>2, <3>6, <4>1, OwnData
    <3> QED BY <3>5, <3>6
  <2> QED BY <1>3, <2>3, <2>4
<1> QED BY <1>2, <1>3 DEF CommitMove

\* The board a thread has made is a replay once its move is stored.
LEMMA MovePlayed ==
    ASSUME Control, NEW t \in Threads, pc[t] \in Holding, E(t).env.status # "lobby",
           PlayedIn(E(t).board, moves), StoredAt(t) \in DOMAIN moves, moves[StoredAt(t)] = t
    PROVE  PlayedIn(NextBoard(t), moves)
<1> DEFINE b == E(t).board
           n == NextSeq(t)
<1>1. /\ b.played \in Seq(Threads) /\ n = Len(b.played) + 1 /\ StoredAt(t) = n
      /\ NextBoard(t).played = Append(b.played, t)
  BY OwnEntry, NextTypes DEF Control, Owned, Board
<1>2. /\ Append(b.played, t) \in Seq(Threads) /\ Len(Append(b.played, t)) = n
      /\ \A i \in 1..Len(b.played) : Append(b.played, t)[i] = b.played[i]
      /\ Append(b.played, t)[n] = t
  BY <1>1, AppendProperties
<1>3. DOMAIN b.played = 1..Len(b.played) /\ Len(b.played) \in Nat
  BY <1>1, LenProperties
<1>4. DOMAIN Append(b.played, t) = 1..n
  BY <1>2, LenProperties
<1>5. \A i \in 1..n : i \in 1..Len(b.played) \/ i = n
  BY <1>1, <1>3
<1> HIDE DEF n, b
<1>6. PlayedIn(b, moves) /\ n \in DOMAIN moves /\ moves[n] = t
  BY <1>1 DEF b
<1> QED BY <1>1, <1>2, <1>3, <1>4, <1>5, <1>6 DEF PlayedIn

\* The snapshot on its own, after the move or for a start.
LEMMA CommitBoardKeeps ==
    ASSUME Control, NEW t \in Threads, CommitBoard(t)
    PROVE  Control' /\ (Data => Data')
<1>1. /\ pc[t] \in Holding /\ env' = env /\ moves' = moves /\ UNCHANGED history
      /\ table' = table
      /\ pc[t] = "commit_snap" \/ E(t).env.status = "lobby"
  BY DEF CommitBoard, Holding
<1>2. CASE UNCHANGED boards /\ Unlock(t, E(t), 0)
  BY <1>1, <1>2, FinishesIdly DEF store
<1>3. ASSUME boards' = Put(boards, StoredAt(t), NextBoard(t)),
             \/ Goto(t, "commit_env") /\ UNCHANGED <<entry, ent, seen, reply>>
             \/ Unlock(t, E(t), 0)
      PROVE  Control' /\ (Data => Data')
  <2>1. StoredAt(t) <= GameLen
    BY <1>1, StartPlayed DEF Control, Stage
  <2>2. /\ BoardsOK' /\ DOMAIN boards \subseteq DOMAIN boards'
        /\ StoredAt(t) \in DOMAIN boards'
        /\ \A s \in DOMAIN boards' : \/ boards'[s] = NextBoard(t)
                                     \/ s \in DOMAIN boards /\ boards'[s] = boards[s]
        /\ \A x : ListedIn(x, boards) => ListedIn(x, boards')
    BY <1>1, <1>3, <2>1, BoardStored
  <2>3. StoreOK' /\ Grows
    BY <1>1, <2>2 DEF Control, StoreOK, MovesOK, Grows
  <2>4. ASSUME Data, env # Gone
        PROVE  /\ PlayedIn(E(t).board, moves') /\ ListedIn(E(t).env, boards') /\ StoreData'
               /\ E(t).env.status # "lobby" => StoredAt(t) \in DOMAIN moves /\ moves[StoredAt(t)] = t
               /\ reply[t] # 0 => reply[t] \in DOMAIN moves /\ moves[reply[t]] = t
    <3>1. PlayedIn(E(t).board, moves) /\ ListedIn(E(t).env, boards) /\ StoreData /\ Backed(t)
      BY <1>1, <2>4, OwnAgrees
    <3>2. PlayedIn(NextBoard(t), moves)
      <4>1. CASE E(t).env.status = "lobby"
        BY <1>1, <4>1, StartPlayed
      <4>2. CASE E(t).env.status # "lobby"
        BY <1>1, <3>1, <4>2, MovePlayed DEF Backed
      <4> QED BY <4>1, <4>2
    <3>3. StoreData'
      BY <1>1, <2>2, <3>1, <3>2 DEF StoreData
    <3> QED BY <1>1, <2>2, <3>1, <3>3 DEF Backed
  <2>5. CASE Unlock(t, E(t), 0)
    <3>1. EntryFits(E(t)) /\ 0 \in 0..GameLen
      BY <1>1, OwnEntry
    <3> QED BY <1>1, <2>3, <2>4, <2>5, <3>1, Finishes
  <2>6. CASE Goto(t, "commit_env") /\ UNCHANGED <<entry, ent, seen, reply>>
    <3>1. UNCHANGED <<table, entry, ent, seen, reply>>
      BY <1>1, <2>6
    <3>2. /\ Owned' /\ Frame({t}) /\ Holds(t, E(t)) /\ pc'[t] = "commit_env" /\ E(t)' = E(t)
          /\ StoredAt(t)' = StoredAt(t) /\ reply'[t] = reply[t]
      BY <1>1, <2>6, <3>1, GoesOn DEF Holding
    <3>3. Stage(t)'
      <4>1. E(t).env.status \in {"lobby", "active"}
        BY <1>1 DEF Control, Stage
      <4> QED BY <2>1, <3>2, <4>1 DEF Stage
    <3>4. Control'
      BY <1>1, <2>3, <3>2, <3>3, Advances
    <3>5. ASSUME Data PROVE Data'
      <4>1. env' # Gone => Backed(t)'
        BY <1>1, <2>2, <2>4, <3>2, <3>5 DEF Backed
      <4> QED BY <1>1, <2>3, <2>4, <3>2, <3>5, <4>1, OwnData
    <3> QED BY <3>4, <3>5
  <2> QED BY <1>3, <2>5, <2>6
<1> QED BY <1>2, <1>3 DEF CommitBoard

\* The envelope on its own: the snapshot it lists is stored already.
LEMMA CommitEnvelopeKeeps ==
    ASSUME Control, NEW t \in Threads, CommitEnvelope(t)
    PROVE  Control' /\ (Data => Data')
<1>1. pc[t] \in Holding /\ pc[t] = "commit_env"
  BY DEF CommitEnvelope, Holding
<1>2. StoredAt(t) <= GameLen
  BY <1>1 DEF Control, Stage
<1>3. /\ EntryFits(Committed(t)) /\ Committed(t).board = NextBoard(t)
      /\ Committed(t).env = NextEnv(t) /\ Reported(t) \in 0..GameLen
  BY <1>1, <1>2, WrittenEntry
<1>4. NextEnv(t) \in Envelope /\ WriteEnvelope(t, NextEnv(t), Committed(t), Reported(t), 0)
  BY <1>1, OwnEntry, NextTypes DEF Control, Owned, CommitEnvelope
<1>5. ASSUME Data, env # Gone
      PROVE  /\ ListedIn(NextEnv(t), boards) /\ PlayedIn(NextBoard(t), moves)
             /\ Reported(t) # 0 => Reported(t) \in DOMAIN moves /\ moves[Reported(t)] = t
  <2>1. PlayedIn(E(t).board, moves) /\ ListedIn(E(t).env, boards) /\ Backed(t)
    BY <1>1, <1>5, OwnAgrees
  <2>2. ListedIn(NextEnv(t), boards)
    BY <1>1, <2>1, NextListed DEF Backed
  <2>3. CASE E(t).env.status = "lobby"
    BY <1>1, <2>2, <2>3, StartPlayed DEF Reported
  <2>4. CASE E(t).env.status # "lobby"
    BY <1>1, <2>1, <2>2, <2>4, MovePlayed DEF Reported, Backed
  <2> QED BY <2>3, <2>4
<1> QED BY <1>1, <1>3, <1>4, <1>5, WriteEnvelopeKeeps

\* An edit lists the snapshots that were listed.
LEMMA BumpedTypes ==
    ASSUME NEW x \in Envelope \cup {Gone}, NEW status \in Status, x # Gone
    PROVE  Bumped(x, status) \in Envelope /\ Bumped(x, status).snaps = x.snaps
<1>1. x \in Envelope
  OBVIOUS
<1>2. x.version + 1 \in Nat /\ x.seats \in Nat /\ x.seats + 1 \in Nat
  BY <1>1 DEF Envelope
<1> QED BY <1>1, <1>2 DEF Bumped, Envelope

\* An edit of the envelope that the thread holds.
LEMMA EditKeeps ==
    ASSUME Control, NEW t \in Threads, pc[t] \in Holding, E(t).env # Gone,
           NEW status \in Status, NEW r \in {0, reply[t]},
           WriteEnvelope(t, Bumped(E(t).env, status),
                         [E(t) EXCEPT !.env = Bumped(E(t).env, status)], r, r)
    PROVE  Control' /\ (Data => Data')
<1> DEFINE next == Bumped(E(t).env, status)
           rec == [E(t) EXCEPT !.env = next]
<1>1. E(t) \in Entry /\ Len(E(t).board.played) <= GameLen /\ r \in 0..GameLen
  BY OwnEntry DEF EntryFits
<1>2. E(t).env \in Envelope \cup {Gone}
  BY <1>1 DEF Entry
<1>3. next \in Envelope /\ next.snaps = E(t).env.snaps
  BY <1>2, BumpedTypes
<1> HIDE DEF next
<1>4. EntryFits(rec) /\ rec.board = E(t).board /\ rec.env = next
  BY <1>1, <1>3 DEF EntryFits, Entry
<1>5. WriteEnvelope(t, next, rec, r, r)
  BY DEF next
<1>6. ASSUME Data, env # Gone
      PROVE  /\ ListedIn(next, boards) /\ PlayedIn(rec.board, moves) /\ ListedIn(rec.env, boards)
             /\ r # 0 => r \in DOMAIN moves /\ moves[r] = t
  <2>1. PlayedIn(E(t).board, moves) /\ ListedIn(E(t).env, boards) /\ Backed(t)
    BY <1>6, OwnAgrees
  <2> QED BY <1>3, <1>4, <2>1 DEF ListedIn, Backed
<1> HIDE DEF rec
<1> QED BY <1>1, <1>3, <1>4, <1>5, <1>6, WriteEnvelopeKeeps

\* saveLocked.
LEMMA SaveLockedKeeps ==
    ASSUME Control, NEW t \in Threads, SaveLocked(t)
    PROVE  Control' /\ (Data => Data')
<1>1. pc[t] \in Holding
  BY DEF SaveLocked, Holding
<1>2. PICK status \in Status :
         /\ <<E(t).env.status, status>> \in Edits
         /\ WriteEnvelope(t, Bumped(E(t).env, status), [E(t) EXCEPT !.env = Bumped(E(t).env, status)], 0, 0)
  BY DEF SaveLocked
<1>3. E(t).env # Gone
  BY <1>2, EmptyTypes DEF Edits, Status
<1> QED BY <1>1, <1>2, <1>3, EditKeeps, OwnEntry

\* The touch after a move.
LEMMA TouchKeeps ==
    ASSUME Control, NEW t \in Threads, Touch(t)
    PROVE  Control' /\ (Data => Data')
<1>1. pc[t] \in Holding /\ pc[t] = "touch"
  BY DEF Touch, Holding
<1>2. E(t).env.status = "active"
  BY <1>1 DEF Control, Stage
<1>3. E(t).env # Gone /\ E(t).env.status \in Status
  BY <1>2, EmptyTypes DEF Status
<1>4. WriteEnvelope(t, Bumped(E(t).env, E(t).env.status),
                    [E(t) EXCEPT !.env = Bumped(E(t).env, E(t).env.status)], reply[t], reply[t])
  BY DEF Touch
<1> QED BY <1>1, <1>3, <1>4, EditKeeps

\* The player hears of a move that is in the log.
LEMMA AnswerKeeps ==
    ASSUME Control, NEW t \in Threads, Answer(t)
    PROVE  Control' /\ (Data => Data')
<1>1. /\ pc[t] = "answer" /\ reply[t] \in 0..GameLen /\ reply[t] # 0
      /\ pc' = [pc EXCEPT ![t] = "idle"] /\ reply' = [reply EXCEPT ![t] = 0]
      /\ UNCHANGED <<store, memory, ent, seen>>
      /\ acked' = Put(acked, reply[t], t)
      /\ recorded' = IF reply[t] = GameLen THEN recorded + 1 ELSE recorded
  BY DEF Answer, Goto, Control, Owned, MemoryOK, Stage
<1>2. reply[t] \in 1..GameLen
  BY <1>1, ParametersAssumption
<1>3. /\ DOMAIN acked' = DOMAIN acked \cup {reply[t]} /\ acked'[reply[t]] = t
      /\ \A s \in DOMAIN acked' : s # reply[t] => acked'[s] = acked[s]
      /\ acked' = [s \in DOMAIN acked' |-> acked'[s]]
  BY <1>1 DEF Put
<1>4. recorded' \in Nat
  BY <1>1 DEF Control, HistoryOK
<1>5. HistoryOK'
  BY <1>2, <1>3, <1>4 DEF Control, HistoryOK
<1>6. StoreOK' /\ env' = env
  BY <1>1, SameStore
<1>7. "idle" \in PC /\ "idle" \notin Holding \cup {"acquire", "answer"} /\ "idle" # "retire_log"
  BY DEF PC, Holding
<1>8. Control' /\ Frame({t}) /\ Emptied /\ pc'[t] = "idle"
  BY <1>1, <1>5, <1>6, <1>7, OutsideKeeps
<1>9. ASSUME Data, env' # Gone
      PROVE  /\ Grows /\ StoreData'
             /\ \A e \in Entries : /\ PlayedIn(entry'[e].board, moves')
                                   /\ ListedIn(entry'[e].env, boards')
             /\ Backed(t)'
             /\ \A s \in DOMAIN acked' : s \in DOMAIN moves' /\ moves'[s] = acked'[s]
  <2>1. Agrees /\ moves' = moves /\ boards' = boards
    BY <1>1, <1>6, <1>9 DEF Data, store
  <2>2. Grows /\ StoreData'
    BY <1>6, <2>1 DEF Agrees, Grows, StoreData
  <2>3. \A e \in Entries : PlayedIn(entry'[e].board, moves') /\ ListedIn(entry'[e].env, boards')
    BY <1>8, <2>1, EmptyTypes, EmptyData DEF Emptied, Agrees
  <2>4. reply'[t] = 0
    BY <1>1 DEF Control, Owned, MemoryOK
  <2>5. Backed(t)'
    BY <1>8, <2>4 DEF Backed
  <2>6. \A s \in DOMAIN acked' : s \in DOMAIN moves' /\ moves'[s] = acked'[s]
    BY <1>1, <1>3, <2>1 DEF Agrees, Backed
  <2> QED BY <2>2, <2>3, <2>5, <2>6
<1>10. ASSUME Data PROVE Data'
  BY <1>6, <1>8, <1>9, <1>10, DataKept
<1> QED BY <1>8, <1>10

\* The sweep reads.
LEMMA ScanRetiredKeeps ==
    ASSUME Control, NEW t \in Threads, ScanRetired(t)
    PROVE  Control' /\ (Data => Data')
<1>1. /\ pc' = [pc EXCEPT ![t] = "retire"] /\ ent' = ent /\ reply' = reply
      /\ seen' = [seen EXCEPT ![t] = env.version]
      /\ UNCHANGED store /\ UNCHANGED history /\ UNCHANGED memory
  BY DEF ScanRetired, Goto
<1>2. env.version \in Nat
  BY EnvelopeFields DEF Control, StoreOK
<1>3. StoreOK' /\ env' = env /\ HistoryOK'
  BY <1>1, SameStore DEF history, Control, HistoryOK
<1>4. "retire" \in PC /\ "retire" \notin Holding \cup {"acquire", "answer"} /\ "retire" # "retire_log"
  BY DEF PC, Holding
<1>5. Control' /\ Frame({t}) /\ Emptied /\ pc'[t] = "retire"
  BY <1>1, <1>2, <1>3, <1>4, OutsideKeeps
<1> QED BY <1>1, <1>5, EmptiedData

\* A host's delete: the match is gone, with its log or ahead of it.
LEMMA DeleteAsHostKeeps ==
    ASSUME Control, NEW t \in Threads, DeleteAsHost(t)
    PROVE  Control' /\ (Data => Data')
<1>1. pc[t] \in Holding /\ UNCHANGED history
  BY DEF DeleteAsHost, Holding
<1>2. CASE UNCHANGED <<store, table>> /\ Unlock(t, Behind(t), 0)
  BY <1>1, <1>2, FinishesIdly
<1>3. CASE /\ DropCounted
           /\ table' = [table EXCEPT ![On[t]] = None]
           /\ Unlock(t, Behind(t), 0)
  <2>1. StoreOK' /\ env' = Gone
    BY <1>3, DropCountedKeeps DEF Control
  <2>2. EntryFits(Behind(t)) /\ 0 \in 0..GameLen
    BY <1>1, OwnEntry
  <2> QED BY <1>1, <1>3, <2>1, <2>2, Finishes
<1>4. CASE /\ DropRow /\ Goto(t, "delete_log")
           /\ UNCHANGED <<table, entry, ent, seen, reply>>
  <2>1. StoreOK' /\ env' = Gone
    BY <1>4 DEF DropRow, Control, StoreOK, MovesOK, BoardsOK
  <2>2. Owned' /\ Frame({t}) /\ pc'[t] = "delete_log"
    BY <1>1, <1>4, GoesOn DEF Holding
  <2>3. Stage(t)'
    BY <2>1, <2>2 DEF Stage
  <2>4. Control'
    BY <1>1, <2>1, <2>2, <2>3, Advances
  <2> QED BY <2>1, <2>4 DEF Data
<1> QED BY <1>2, <1>3, <1>4 DEF DeleteAsHost

\* The log deleted after its row.
LEMMA DeleteLogKeeps ==
    ASSUME Control, NEW t \in Threads, DeleteLog(t)
    PROVE  Control' /\ (Data => Data')
<1>1. /\ pc[t] \in Holding /\ UNCHANGED history /\ env = Gone /\ Unlock(t, Behind(t), 0)
  BY DEF DeleteLog, Holding, Control, Stage
<1>2. CASE UNCHANGED <<store, table>>
  BY <1>1, <1>2, FinishesIdly
<1>3. CASE /\ moves' = <<>> /\ boards' = <<>> /\ UNCHANGED env
           /\ table' = [table EXCEPT ![On[t]] = None]
  <2>1. StoreOK' /\ env' = Gone
    BY <1>1, <1>3, EmptyStore
  <2>2. EntryFits(Behind(t)) /\ 0 \in 0..GameLen
    BY <1>1, OwnEntry
  <2> QED BY <1>1, <1>3, <2>1, <2>2, Finishes
<1> QED BY <1>2, <1>3 DEF DeleteLog

\* The sweep deletes.
LEMMA RetireKeeps ==
    ASSUME Control, NEW t \in Threads, RetireMatch(t) \/ RetireLog(t)
    PROVE  Control' /\ (Data => Data')
<1>1. On[t] \in Instances /\ 0 \in Nat /\ (pc[t] = "retire_log" => env = Gone)
  BY ParametersAssumption DEF Control, Stage
<1>2. /\ UNCHANGED history /\ ent' = ent /\ reply' = reply /\ HistoryOK'
      /\ seen' = seen \/ seen' = [seen EXCEPT ![t] = 0]
      /\ UNCHANGED memory \/ \E i \in Instances : Forget(i)
  BY <1>1 DEF RetireMatch, RetireLog, EndRetire, Forget, history, Control, HistoryOK
<1>3. PICK p \in {"idle", "retire_log"} : pc' = [pc EXCEPT ![t] = p] /\ (p = "retire_log" => env' = Gone)
  BY DEF RetireMatch, RetireLog, EndRetire, Goto, DropRow
<1>4. p \in PC /\ p \notin Holding \cup {"acquire", "answer"} /\ p \notin {"commit_snap", "commit_env"}
  BY DEF PC, Holding
<1>5. \/ UNCHANGED store
      \/ DropCounted
      \/ DropRow
      \/ moves' = <<>> /\ boards' = <<>> /\ env' = env /\ env = Gone
  BY <1>1 DEF RetireMatch, RetireLog
<1>6. StoreOK' /\ (env' = Gone \/ UNCHANGED store)
  <2>1. CASE UNCHANGED store
    BY <2>1, SameStore
  <2>2. CASE DropCounted
    BY <2>2, DropCountedKeeps DEF Control
  <2>3. CASE DropRow
    BY <2>3 DEF DropRow, Control, StoreOK, MovesOK, BoardsOK
  <2>4. CASE moves' = <<>> /\ boards' = <<>> /\ env' = env /\ env = Gone
    BY <2>4, EmptyStore
  <2> QED BY <1>5, <2>1, <2>2, <2>3, <2>4
<1>7. env = Gone => env' = Gone
  BY <1>6 DEF store
<1>8. Control' /\ Frame({t}) /\ Emptied /\ pc'[t] = p
  BY <1>1, <1>2, <1>3, <1>4, <1>6, <1>7, OutsideKeeps
<1>9. CASE env' = Gone
  BY <1>8, <1>9 DEF Data
<1>10. CASE UNCHANGED store
  BY <1>2, <1>4, <1>8, <1>10, EmptiedData
<1> QED BY <1>6, <1>9, <1>10

\* Each step of each thread.
LEMMA StepKeeps ==
    ASSUME Control, NEW t \in Threads, Step(t) \/ ScanRetired(t) \/ Begin(t)
    PROVE  Control' /\ (Data => Data')
BY AcquireKeeps, RelookupKeeps, RecheckKeeps, LoadEnvelopeKeeps, RebuildKeeps,
   LeaveUnchangedKeeps, AppendMoveKeeps, CommitSnapshotKeeps, CommitMoveKeeps,
   CommitBoardKeeps, CommitEnvelopeKeeps, SaveLockedKeeps, TouchKeeps, AnswerKeeps,
   DeleteAsHostKeeps, DeleteLogKeeps, RetireKeeps, ScanRetiredKeeps, BeginKeeps DEF Step

-----------------------------------------------------------------------------
(* The invariant *)

\* Memory lost, by an eviction or a crash, takes nothing from what is left.
LEMMA LostData ==
    ASSUME Control, Data, NEW movers, Frame(movers), Emptied,
           UNCHANGED store, UNCHANGED history,
           \A u \in movers : pc'[u] = "idle" /\ reply'[u] = 0
    PROVE  Data'
<1>1. env' = env /\ moves' = moves /\ boards' = boards /\ acked' = acked
  BY DEF store, history
<1>2. ASSUME env # Gone
      PROVE  /\ Grows /\ StoreData'
             /\ \A e \in Entries : /\ PlayedIn(entry'[e].board, moves')
                                   /\ ListedIn(entry'[e].env, boards')
             /\ \A u \in movers : Backed(u)'
             /\ \A s \in DOMAIN acked' : s \in DOMAIN moves' /\ moves'[s] = acked'[s]
  <2>1. Agrees
    BY <1>2 DEF Data
  <2>2. Grows /\ StoreData'
    BY <1>1, <2>1 DEF Agrees, Grows, StoreData
  <2>3. \A e \in Entries : PlayedIn(entry'[e].board, moves') /\ ListedIn(entry'[e].env, boards')
    BY <1>1, <2>1, EmptyTypes, EmptyData DEF Emptied, Agrees
  <2>4. \A u \in movers : Backed(u)'
    BY DEF Backed
  <2> QED BY <1>1, <2>1, <2>2, <2>3, <2>4 DEF Agrees
<1> QED BY <1>1, <1>2, DataKept

\* A stuttering step.
LEMMA StutterHolds ==
    ASSUME Control, Data, UNCHANGED vars
    PROVE  Control' /\ Data'
<1>1. Control'
  <2>1. Owned'
    BY DEF vars, Control, Owned, MemoryOK, EntriesKnown, LocksHeld, Apart, BoardsFit
  <2>2. StoreOK' /\ HistoryOK'
    BY DEF vars, Control, StoreOK, MovesOK, BoardsOK, HistoryOK
  <2>3. \A t \in Threads : E(t)' = E(t) /\ StoredAt(t)' = StoredAt(t)
    BY DEF vars, E, StoredAt, NextBoard
  <2>4. \A t \in Threads : Stage(t)'
    BY <2>3 DEF vars, Control, Stage
  <2> QED BY <2>1, <2>2, <2>4 DEF Control
<1>2. Data'
  <2>1. Frame({}) /\ Emptied /\ UNCHANGED store /\ UNCHANGED history
    BY DEF vars, Frame, Emptied, E, store, history
  <2> QED BY <2>1, LostData
<1> QED BY <1>1, <1>2

\* The initial state.
LEMMA InitHolds == Init => Control /\ Data
<1> SUFFICES ASSUME Init PROVE Control /\ Data
  OBVIOUS
<1>1. 0 \in 0..GameLen /\ 0 \in Nat /\ GameLen >= 0
  BY ParametersAssumption
<1>2. DOMAIN <<>> = {} /\ <<>> = [s \in DOMAIN <<>> |-> <<>>[s]] /\ <<>> \in Seq(Nat)
  OBVIOUS
<1>3. /\ DOMAIN moves = {} /\ moves = [s \in DOMAIN moves |-> moves[s]]
      /\ DOMAIN boards = {} /\ boards = [s \in DOMAIN boards |-> boards[s]]
      /\ DOMAIN acked = {} /\ acked = [s \in DOMAIN acked |-> acked[s]]
      /\ env \in Envelope /\ DOMAIN env.snaps = {}
  BY <1>2 DEF Init, Envelope, Status
<1>4. \A t \in Threads : pc[t] = "idle" /\ ent[t] = None /\ reply[t] = 0
  BY DEF Init
<1>5. \A e \in Entries : entry[e] = NewEntry
  BY DEF Init
<1>6. MemoryOK
  BY <1>1, EmptyTypes DEF Init, MemoryOK, PC
<1>7. Owned
  <2>1. EntriesKnown /\ LocksHeld
    BY <1>4 DEF EntriesKnown, LocksHeld, Holding
  <2>2. Apart
    BY <1>4, ParametersAssumption DEF Apart, Init
  <2>3. BoardsFit
    BY <1>1, <1>5, EmptyTypes DEF BoardsFit
  <2> QED BY <1>6, <2>1, <2>2, <2>3 DEF Owned
<1>8. StoreOK /\ HistoryOK
  BY <1>1, <1>3 DEF StoreOK, HistoryOK, MovesOK, BoardsOK, Init
<1>9. \A t \in Threads : Stage(t)
  BY <1>4 DEF Stage
<1>10. Agrees
  BY <1>3, <1>4, <1>5, EmptyTypes, EmptyData DEF Agrees, StoreData, ListedIn, Backed
<1> QED BY <1>7, <1>8, <1>9, <1>10 DEF Control, Data

\* Every step.
LEMMA NextHolds == Control /\ Data /\ [Next]_vars => (Control /\ Data)'
<1> SUFFICES ASSUME Control, Data, [Next]_vars PROVE Control' /\ Data'
  OBVIOUS
<1>1. ASSUME NEW t \in Threads, Step(t) \/ ScanRetired(t) \/ Begin(t) PROVE Control' /\ Data'
  BY <1>1, StepKeeps
<1>2. ASSUME NEW i \in Instances, EvictIdle(i) PROVE Control' /\ Data'
  <2>1. Control' /\ Frame({}) /\ Emptied
    BY <1>2, EvictIdleKeeps
  <2>2. UNCHANGED store /\ UNCHANGED history
    BY <1>2 DEF EvictIdle
  <2> QED BY <2>1, <2>2, LostData
<1>3. ASSUME NEW i \in Instances, Crash(i) PROVE Control' /\ Data'
  <2>1. /\ Control' /\ Frame({t \in Threads : On[t] = i}) /\ Emptied
        /\ \A t \in {t \in Threads : On[t] = i} : pc'[t] = "idle" /\ reply'[t] = 0
    BY <1>3, CrashKeeps
  <2>2. UNCHANGED store /\ UNCHANGED history
    BY <1>3 DEF Crash
  <2> QED BY <2>1, <2>2, LostData
<1>4. CASE UNCHANGED vars
  BY <1>4, StutterHolds
<1> QED BY <1>1, <1>2, <1>3, <1>4 DEF Next

\* The inductive invariant.
LEMMA InvariantHolds == Spec => [](Control /\ Data)
BY InitHolds, NextHolds, PTL DEF Spec

\* The control invariant has the types in it.
LEMMA TypesOfControl == Control => TypeOK
BY DEF Control, Owned, MemoryOK, StoreOK, MovesOK, BoardsOK, HistoryOK, TypeOK

\* The types of the record, the log, the entries and the threads, for any
\* number of goroutines and processes and either backend: no move is numbered
\* past the end of the game.
THEOREM TypesHold == Spec => []TypeOK
BY InvariantHolds, TypesOfControl, PTL

\* No process ever holds a board with a move on it that is not in the log
\* (applyLocked adopts a board after the store has taken its move, and
\* liveMatches.rebuild replays stored moves).
THEOREM HeldBoardsHold == Spec => []HeldBoardsArePlayed
<1>1. Data => HeldBoardsArePlayed
  BY DEF Data, Agrees, PlayedIn, HeldBoardsArePlayed, IsPlayed
<1> QED BY <1>1, InvariantHolds, PTL

\* Every snapshot the envelope lists is stored and is the board its number of
\* moves leads to, even where CommitSnapshot is three writes.
THEOREM SnapshotsHold == Spec => []SnapshotsAreExact
<1>1. Control /\ Data => SnapshotsAreExact
  BY DEF Control, StoreOK, BoardsOK, Data, Agrees, StoreData, ListedIn, PlayedIn,
         SnapshotsAreExact, IsPlayed
<1> QED BY <1>1, InvariantHolds, PTL

\* The log has no gap: Append's unique key gives each number to one move, and
\* the number comes from a board that is a replay.
THEOREM NoGap == Spec => []LogHasNoGap
<1>1. Data => LogHasNoGap
  BY DEF Data, Agrees, StoreData, LogHasNoGap
<1> QED BY <1>1, InvariantHolds, PTL

\* A move a player was told was accepted is in the log, whatever failed,
\* crashed, was evicted or answered an error after taking effect.
THEOREM AckedMovesHold == Spec => []AckedMovesAreStored
<1>1. Data => AckedMovesAreStored
  BY DEF Data, Agrees, AckedMovesAreStored
<1> QED BY <1>1, InvariantHolds, PTL

-----------------------------------------------------------------------------
(* Versions *)

(***************************************************************************)
(* A version stands for one envelope: what an entry holds at the stored    *)
(* version is the stored envelope.  So a write that passes the version     *)
(* check starts from the envelope of now, whatever it was before, and a    *)
(* match that is completed stays so and is recorded once.                  *)
(***************************************************************************)
Versioned ==
    env # Gone =>
        /\ env.version > 0
        /\ \A e \in Entries : entry[e].env # Gone =>
              /\ entry[e].env.version <= env.version
              /\ entry[e].env.version = env.version => entry[e].env = env

\* Nobody is about to report the last move of a match that is not over, nor
\* two of one that is, nor any of one that has been recorded.
Once ==
    /\ recorded \in {0, 1}
    /\ recorded = 1 => \A t \in Threads : reply[t] # GameLen
    /\ \A t, u \in Threads : reply[t] = GameLen /\ reply[u] = GameLen => t = u
    /\ recorded = 1 \/ (\E t \in Threads : reply[t] = GameLen) => env.status \in {"completed", "gone"}

\* Thread t writes the envelope on the version it holds, and leaves a match that is
\* over as it is.
Writes(t) ==
    /\ ent[t] \in Entries
    /\ VersionIs(E(t).env.version)
    /\ E(t).env.status = "completed" => env'.status = "completed"
    /\ env' \in Envelope /\ env'.version = E(t).env.version + 1

\* With it the match is over.
Completes(t) == E(t).env.status # "completed" /\ env'.status = "completed"

\* What a step of thread t may do to the envelopes and the replies: an entry
\* holds what it held, nothing, or what is stored now; and only a write that
\* completes the match comes to report its last move.
Effect(t) ==
    /\ \A e \in Entries : entry'[e].env \in {entry[e].env, Gone, env'}
    /\ \A u \in Threads \ {t} : reply'[u] \in {reply[u], 0}
    /\ \/ env' \in {env, Gone} /\ (reply'[t] = GameLen => reply[t] = GameLen)
       \/ Writes(t) /\ (reply'[t] = GameLen => reply[t] = GameLen \/ Completes(t))
    /\ recorded' = recorded

\* An entry's envelope, version 0 when there is none.
LEMMA EntryEnvelopes ==
    ASSUME Control, NEW e \in Entries
    PROVE  /\ entry[e].env \in Envelope \cup {Gone} /\ entry[e].env.version \in Nat
           /\ entry[e].env = Gone => entry[e].env.version = 0
<1>1. entry[e].env \in Envelope \cup {Gone}
  BY DEF Control, Owned, MemoryOK, Entry
<1> QED BY <1>1, EnvelopeFields, EmptyTypes

\* The stored envelope.
LEMMA StoredEnvelope ==
    ASSUME Control
    PROVE  /\ env \in Envelope \cup {Gone} /\ env.version \in Nat
           /\ env # Gone => env.status \in Status /\ env.status # "gone"
           /\ env = Gone => env.status = "gone"
<1>1. env \in Envelope \cup {Gone}
  BY DEF Control, StoreOK
<1> QED BY <1>1, EnvelopeFields, EmptyTypes DEF Envelope, Status

\* A write finds the envelope its thread holds.
LEMMA WritesCurrent ==
    ASSUME Control, Versioned, NEW t \in Threads, ent[t] \in Entries, VersionIs(E(t).env.version)
    PROVE  env # Gone /\ E(t).env = env
<1>1. env # Gone /\ env.version = E(t).env.version
  BY DEF VersionIs
<1>2. E(t).env = entry[ent[t]].env
  BY DEF E
<1>3. E(t).env # Gone
  BY <1>1, <1>2, EntryEnvelopes DEF Versioned
<1> QED BY <1>1, <1>2, <1>3 DEF Versioned

\* A version still stands for one envelope after such a step,
LEMMA VersionedKept ==
    ASSUME Control, Versioned, NEW t \in Threads, Effect(t)
    PROVE  Versioned'
<1> SUFFICES ASSUME env' # Gone PROVE Versioned'
  BY DEF Versioned
<1>1. CASE env' = env
  <2>1. ASSUME NEW e \in Entries, entry'[e].env # Gone
        PROVE  /\ entry'[e].env.version <= env'.version
               /\ entry'[e].env.version = env'.version => entry'[e].env = env'
    <3>1. CASE entry'[e].env = env
      BY <1>1, <3>1, StoredEnvelope
    <3>2. CASE entry'[e].env = entry[e].env
      BY <1>1, <2>1, <3>2 DEF Versioned
    <3> QED BY <1>1, <2>1, <3>1, <3>2 DEF Effect
  <2> QED BY <1>1, <2>1 DEF Versioned
<1>2. CASE Writes(t)
  <2>1. env # Gone /\ E(t).env = env
    BY <1>2, WritesCurrent DEF Writes
  <2>2. env'.version = env.version + 1 /\ env.version \in Nat /\ env.version > 0
    BY <1>2, <2>1, StoredEnvelope DEF Writes, Versioned
  <2>3. ASSUME NEW e \in Entries, entry'[e].env # Gone
        PROVE  /\ entry'[e].env.version <= env'.version
               /\ entry'[e].env.version = env'.version => entry'[e].env = env'
    <3>1. CASE entry'[e].env = env'
      BY <2>2, <3>1
    <3>2. CASE entry'[e].env = entry[e].env
      <4>1. entry[e].env.version <= env.version /\ entry[e].env.version \in Nat
        BY <2>1, <2>3, <3>2, EntryEnvelopes DEF Versioned
      <4> QED BY <2>2, <3>2, <4>1
    <3> QED BY <2>3, <3>1, <3>2 DEF Effect
  <2> QED BY <2>2, <2>3 DEF Versioned
<1> QED BY <1>1, <1>2 DEF Effect

\* ... the last move is still reported once,
LEMMA OnceKept ==
    ASSUME Control, Versioned, Once, NEW t \in Threads, Effect(t)
    PROVE  Once'
<1>1. \A u \in Threads \ {t} : reply'[u] = GameLen => reply[u] = GameLen
  BY ParametersAssumption DEF Effect
<1>2. CASE env' \in {env, Gone} /\ (reply'[t] = GameLen => reply[t] = GameLen)
  <2>1. \A u \in Threads : reply'[u] = GameLen => reply[u] = GameLen
    BY <1>1, <1>2
  <2>2. env.status \in {"completed", "gone"} => env'.status \in {"completed", "gone"}
    BY <1>2, EmptyTypes
  <2>3. recorded' = recorded
    BY DEF Effect
  <2> QED BY <2>1, <2>2, <2>3 DEF Once
<1>3. CASE /\ Writes(t)
           /\ reply'[t] = GameLen => reply[t] = GameLen \/ Completes(t)
  <2>1. env # Gone /\ E(t).env = env
    BY <1>3, WritesCurrent DEF Writes
  <2>2. CASE env.status = "completed"
    <3>1. env'.status = "completed" /\ \A u \in Threads : reply'[u] = GameLen => reply[u] = GameLen
      BY <1>1, <1>3, <2>1, <2>2 DEF Writes, Completes
    <3> QED BY <3>1 DEF Effect, Once
  <2>3. CASE env.status # "completed"
    <3>1. recorded = 0 /\ \A u \in Threads : reply[u] # GameLen
      BY <2>1, <2>3, StoredEnvelope DEF Once
    <3>2. recorded' = 0 /\ \A u \in Threads : reply'[u] = GameLen => u = t /\ env'.status = "completed"
      BY <1>1, <1>3, <3>1 DEF Effect, Completes
    <3> QED BY <3>2 DEF Once
  <2> QED BY <2>2, <2>3
<1> QED BY <1>2, <1>3 DEF Effect

\* A step that takes back neither a completed match nor a deleted one.
Final ==
    /\ env.status = "completed" => env'.status \in {"completed", "gone"}
    /\ env = Gone => env' = Gone

\* ... and a completed match stays completed.
LEMMA FinalKept ==
    ASSUME Control, Versioned, NEW t \in Threads, Effect(t)
    PROVE  Final
<1>1. CASE env' \in {env, Gone}
  BY <1>1, EmptyTypes DEF Final
<1>2. CASE Writes(t)
  <2>1. env # Gone /\ E(t).env = env
    BY <1>2, WritesCurrent DEF Writes
  <2> QED BY <1>2, <2>1 DEF Writes, Final
<1> QED BY <1>1, <1>2 DEF Effect

\* A step of a thread in its own entry, by what it leaves there and reports.
LEMMA OwnEffect ==
    ASSUME Control, NEW t \in Threads, ent[t] \in Entries,
           NEW x \in Entry, x.env \in {E(t).env, Gone, env'}, entry' = [entry EXCEPT ![ent[t]] = x],
           NEW r \in 0..GameLen, reply' = [reply EXCEPT ![t] = r], recorded' = recorded,
           \/ env' \in {env, Gone} /\ (r = GameLen => reply[t] = GameLen)
           \/ Writes(t) /\ (r = GameLen => reply[t] = GameLen \/ Completes(t))
    PROVE  Effect(t)
<1>1. reply'[t] = r /\ \A u \in Threads \ {t} : reply'[u] = reply[u]
  BY DEF Control, Owned, MemoryOK
<1>2. \A e \in Entries : entry'[e].env \in {entry[e].env, Gone, env'}
  BY DEF Control, Owned, MemoryOK, E
<1> QED BY <1>1, <1>2 DEF Effect

\* ... in particular one that lets go of the lock.
LEMMA UnlockEffect ==
    ASSUME Control, NEW t \in Threads, pc[t] \in Holding, NEW rec, EntryFits(rec), NEW r \in 0..GameLen,
           Unlock(t, rec, r), rec.env \in {E(t).env, Gone, env'}, recorded' = recorded,
           \/ env' \in {env, Gone} /\ (r = GameLen => reply[t] = GameLen)
           \/ Writes(t) /\ (r = GameLen => reply[t] = GameLen \/ Completes(t))
    PROVE  Effect(t)
<1> DEFINE x == IF table'[On[t]] = ent[t] THEN [rec EXCEPT !.lock = None] ELSE NewEntry
<1>1. ent[t] \in Entries
  BY OwnEntry
<1>2. [rec EXCEPT !.lock = None] \in Entry /\ [rec EXCEPT !.lock = None].env = rec.env
  BY DEF EntryFits, Entry
<1>3. x \in Entry /\ x.env \in {rec.env, Gone}
  BY <1>2, EmptyTypes
<1>4. entry' = [entry EXCEPT ![ent[t]] = x] /\ reply' = [reply EXCEPT ![t] = r]
  BY DEF Unlock
<1> HIDE DEF x
<1>5. x \in Entry /\ x.env \in {E(t).env, Gone, env'}
  BY <1>3
<1> QED BY <1>1, <1>4, <1>5, OwnEffect

\* A call that is over without having changed the envelope.
LEMMA IdleEffect ==
    ASSUME Control, NEW t \in Threads, pc[t] \in Holding, NEW r \in {0, reply[t]},
           Unlock(t, E(t), r) \/ Unlock(t, Behind(t), r), env' = env, recorded' = recorded
    PROVE  Effect(t)
<1>1. PICK rec \in {E(t), Behind(t)} : Unlock(t, rec, r)
  OBVIOUS
<1>2. EntryFits(rec) /\ rec.env = E(t).env /\ r \in 0..GameLen
  BY OwnEntry
<1>3. r = GameLen => reply[t] = GameLen
  BY ParametersAssumption
<1> QED BY <1>1, <1>2, <1>3, UnlockEffect

\* A step of a thread that leaves the envelope, and each entry as it was or new.
LEMMA OutsideEffect ==
    ASSUME NEW t \in Threads, Emptied, env' \in {env, Gone}, recorded' = recorded,
           \A u \in Threads : reply'[u] \in {reply[u], 0}
    PROVE  Effect(t)
<1>1. \A e \in Entries : entry'[e].env \in {entry[e].env, Gone, env'}
  BY EmptyTypes DEF Emptied
<1>2. reply'[t] = GameLen => reply[t] = GameLen
  BY ParametersAssumption
<1> QED BY <1>1, <1>2 DEF Effect

\* Taking the lock, and rechecking and filling the entry.
LEMMA FillEffect ==
    ASSUME Control, NEW t \in Threads,
           Acquire(t) \/ RecheckMoves(t) \/ RecheckEnvelope(t) \/ LoadEnvelope(t) \/ Rebuild(t)
    PROVE  Effect(t)
<1>1. ent[t] \in Entries /\ env' = env /\ recorded' = recorded
  BY DEF Acquire, RecheckMoves, RecheckEnvelope, LoadEnvelope, Rebuild, store, history,
         Control, Owned, EntriesKnown, Holding
<1>2. /\ E(t) = entry[ent[t]] /\ entry[ent[t]] \in Entry /\ entry = [entry EXCEPT ![ent[t]] = E(t)]
      /\ reply = [reply EXCEPT ![t] = reply[t]] /\ reply[t] \in 0..GameLen /\ env \in Envelope \cup {Gone}
  BY <1>1 DEF Control, Owned, MemoryOK, StoreOK, E
<1>3. ASSUME NEW x \in Entry, x.env \in {E(t).env, env}, entry' = [entry EXCEPT ![ent[t]] = x], reply' = reply
      PROVE  Effect(t)
  BY <1>1, <1>2, <1>3, OwnEffect
<1>4. CASE Acquire(t)
  <2>1. [E(t) EXCEPT !.lock = t] \in Entry /\ [E(t) EXCEPT !.lock = t].env = E(t).env
    BY <1>2 DEF Entry
  <2>2. entry' = [entry EXCEPT ![ent[t]] = [E(t) EXCEPT !.lock = t]] /\ reply' = reply
    BY <1>2, <1>4 DEF Acquire
  <2> QED BY <1>3, <2>1, <2>2
<1>5. CASE RecheckMoves(t) \/ RecheckEnvelope(t)
  <2>1. [E(t) EXCEPT !.loaded = FALSE] \in Entry /\ [E(t) EXCEPT !.loaded = FALSE].env = E(t).env
    BY <1>2 DEF Entry
  <2>2. /\ \/ entry' = [entry EXCEPT ![ent[t]] = [E(t) EXCEPT !.loaded = FALSE]]
           \/ entry' = entry
        /\ reply' = reply
    BY <1>2, <1>5 DEF RecheckMoves, RecheckEnvelope
  <2>3. CASE entry' = entry
    <3>1. entry' = [entry EXCEPT ![ent[t]] = E(t)] /\ E(t) \in Entry
      BY <1>2, <2>3
    <3> QED BY <1>3, <2>2, <3>1
  <2>4. CASE entry' = [entry EXCEPT ![ent[t]] = [E(t) EXCEPT !.loaded = FALSE]]
    BY <1>3, <2>1, <2>2, <2>4
  <2> QED BY <2>2, <2>3, <2>4
<1>6. CASE LoadEnvelope(t)
  <2>1. pc[t] \in Holding
    BY <1>6 DEF LoadEnvelope, Holding
  <2>2. CASE Unlock(t, NewEntry, 0)
    <3>1. EntryFits(NewEntry) /\ NewEntry.env = Gone /\ 0 # GameLen /\ 0 \in 0..GameLen
      BY EmptyTypes, ParametersAssumption DEF EntryFits
    <3> QED BY <1>1, <2>1, <2>2, <3>1, UnlockEffect
  <2>3. CASE Unlock(t, Behind(t), 0)
    BY <1>1, <2>1, <2>3, IdleEffect
  <2>4. CASE /\ entry' = [entry EXCEPT ![ent[t]] = [@ EXCEPT !.loaded = TRUE, !.broken = FALSE,
                                                     !.env = env, !.board = NoBoard]]
             /\ reply' = reply
    <3> DEFINE rec == [entry[ent[t]] EXCEPT !.loaded = TRUE, !.broken = FALSE,
                                            !.env = env, !.board = NoBoard]
    <3>1. NoBoard \in Board
      BY EmptyTypes
    <3>2. rec \in Entry /\ rec.env = env /\ entry' = [entry EXCEPT ![ent[t]] = rec]
      BY <1>2, <2>4, <3>1 DEF Entry
    <3> HIDE DEF rec
    <3> QED BY <1>3, <2>4, <3>2
  <2> QED BY <1>6, <2>2, <2>3, <2>4 DEF LoadEnvelope
<1>7. CASE Rebuild(t)
  <2>1. Control'
    BY <1>7, RebuildKeeps
  <2>2. entry'[ent[t]] \in Entry
    BY <1>1, <2>1 DEF Control, Owned, MemoryOK
  <2>3. /\ entry'[ent[t]].env = E(t).env /\ reply' = reply
        /\ \A e \in Entries : e # ent[t] => entry'[e] = entry[e]
    BY <1>1, <1>2, <1>7 DEF Rebuild, Entry, Control, Owned, MemoryOK
  <2> QED BY <1>1, <1>2, <2>3 DEF Effect
<1> QED BY <1>4, <1>5, <1>6, <1>7

\* The moves and the snapshot on their own leave the envelope; the last move
\* never goes to the store without it.
LEMMA MoveEffect ==
    ASSUME Control, NEW t \in Threads,
           LeaveUnchanged(t) \/ AppendMove(t) \/ CommitMove(t) \/ CommitBoard(t)
    PROVE  Effect(t)
<1>1. pc[t] \in Holding /\ env' = env /\ recorded' = recorded
  BY DEF LeaveUnchanged, AppendMove, CommitMove, CommitBoard, store, history, Holding
<1>2. /\ ent[t] \in Entries /\ entry = [entry EXCEPT ![ent[t]] = E(t)] /\ E(t) \in Entry
      /\ reply = [reply EXCEPT ![t] = reply[t]] /\ reply[t] \in 0..GameLen
  BY <1>1, OwnEntry DEF EntryFits
<1>3. CASE Unlock(t, E(t), 0) \/ Unlock(t, Behind(t), 0)
  BY <1>1, <1>3, IdleEffect
<1>4. CASE UNCHANGED <<entry, reply>>
  <2>1. entry' = [entry EXCEPT ![ent[t]] = E(t)] /\ reply' = [reply EXCEPT ![t] = reply[t]]
    BY <1>2, <1>4
  <2> QED BY <1>1, <1>2, <2>1, OwnEffect
<1>5. CASE /\ AppendMove(t)
           /\ \/ Unlock(t, Played(t), NextSeq(t))
              \/ /\ entry' = [entry EXCEPT ![ent[t]] = Played(t)]
                 /\ reply' = [reply EXCEPT ![t] = NextSeq(t)]
  <2>1. /\ MayApply(t) /\ ~Finished(NextBoard(t))
    BY <1>5 DEF AppendMove, NeedsCommit
  <2>2. StoredAt(t) = NextSeq(t) /\ NextSeq(t) \in 1..GameLen
    BY <1>2, <2>1, MoveFits
  <2>3. NextSeq(t) # GameLen /\ StoredAt(t) <= GameLen /\ NextSeq(t) \in 0..GameLen
    BY <2>1, <2>2, ParametersAssumption DEF Finished, StoredAt
  <2>4. EntryFits(Played(t)) /\ Played(t).env = E(t).env /\ Played(t) \in Entry
    BY <1>1, <2>3, WrittenEntry DEF EntryFits
  <2>5. CASE Unlock(t, Played(t), NextSeq(t))
    BY <1>1, <2>3, <2>4, <2>5, UnlockEffect
  <2>6. CASE /\ entry' = [entry EXCEPT ![ent[t]] = Played(t)]
             /\ reply' = [reply EXCEPT ![t] = NextSeq(t)]
    BY <1>1, <1>2, <2>3, <2>4, <2>6, OwnEffect
  <2> QED BY <1>5, <2>5, <2>6
<1> QED BY <1>3, <1>4, <1>5 DEF LeaveUnchanged, AppendMove, CommitMove, CommitBoard

\* A commit writes the envelope of a board in play, or of a start; with the last
\* move it completes the match.
LEMMA CommitWrites ==
    ASSUME Control, NEW t \in Threads, pc[t] \in Holding, StoredAt(t) <= GameLen,
           E(t).env.status \in {"lobby", "active"}, VersionIs(E(t).env.version), env' = NextEnv(t)
    PROVE  /\ Writes(t) /\ EntryFits(Committed(t)) /\ Committed(t).env = env'
           /\ Reported(t) \in 0..GameLen
           /\ Reported(t) = GameLen => Completes(t)
<1>1. ent[t] \in Entries /\ NextEnv(t) \in Envelope
  BY OwnEntry, NextTypes DEF Control, Owned
<1>2. NextEnv(t).version = E(t).env.version + 1
  BY DEF NextEnv
<1>3. Writes(t)
  BY <1>1, <1>2 DEF Writes
<1>4. Reported(t) = GameLen => Completes(t)
  BY ParametersAssumption DEF Reported, StoredAt, NextEnv, Finished, Completes
<1> QED BY <1>3, <1>4, WrittenEntry

\* kdb's transaction.
LEMMA CommitSnapshotEffect ==
    ASSUME Control, NEW t \in Threads, CommitSnapshot(t)
    PROVE  Effect(t)
<1>1. /\ pc[t] \in Holding /\ recorded' = recorded
      /\ E(t).env.status = "lobby" \/ MayApply(t)
  BY DEF CommitSnapshot, history, Holding
<1>2. CASE env' = env /\ (Unlock(t, E(t), 0) \/ Unlock(t, Behind(t), 0))
  BY <1>1, <1>2, IdleEffect
<1>3. ASSUME VersionIs(E(t).env.version), env' = NextEnv(t),
             Unlock(t, Committed(t), Reported(t)) \/ Unlock(t, E(t), 0)
      PROVE  Effect(t)
  <2>1. StoredAt(t) <= GameLen /\ E(t).env.status \in {"lobby", "active"}
    <3>1. CASE E(t).env.status = "lobby"
      BY <1>1, <3>1, StartPlayed
    <3>2. CASE MayApply(t)
      <4>1. E(t).env.status = "active" /\ StoredAt(t) \in 1..GameLen
        BY <1>1, <3>2, OwnEntry, MoveFits
      <4> QED BY <4>1, ParametersAssumption
    <3> QED BY <1>1, <3>1, <3>2
  <2>2. /\ Writes(t) /\ EntryFits(Committed(t)) /\ Committed(t).env = env'
        /\ Reported(t) \in 0..GameLen
        /\ Reported(t) = GameLen => Completes(t)
    BY <1>1, <1>3, <2>1, CommitWrites
  <2>3. CASE Unlock(t, Committed(t), Reported(t))
    BY <1>1, <2>2, <2>3, UnlockEffect
  <2>4. CASE Unlock(t, E(t), 0)
    <3>1. EntryFits(E(t)) /\ 0 # GameLen /\ 0 \in 0..GameLen
      BY <1>1, OwnEntry, ParametersAssumption
    <3> QED BY <1>1, <2>2, <2>4, <3>1, UnlockEffect
  <2> QED BY <1>3, <2>3, <2>4
<1> QED BY <1>2, <1>3 DEF CommitSnapshot, store

\* UpdateWithVersion.
LEMMA WriteEnvelopeEffect ==
    ASSUME Control, NEW t \in Threads, pc[t] \in Holding,
           NEW next, NEW rec, EntryFits(rec), rec.env = next, NEW ok \in 0..GameLen, NEW failed \in {0, reply[t]},
           WriteEnvelope(t, next, rec, ok, failed),
           VersionIs(E(t).env.version) /\ env' = next => Writes(t),
           ok = GameLen =>
               reply[t] = GameLen \/ (E(t).env.status # "completed" /\ next.status = "completed")
    PROVE  Effect(t)
<1>1. recorded' = recorded
  BY DEF WriteEnvelope, history
<1>2. CASE env' = env /\ (Unlock(t, E(t), failed) \/ Unlock(t, Behind(t), failed))
  BY <1>1, <1>2, IdleEffect
<1>3. ASSUME VersionIs(E(t).env.version), env' = next,
             Unlock(t, rec, ok) \/ Unlock(t, E(t), failed)
      PROVE  Effect(t)
  <2>1. failed \in 0..GameLen /\ (failed = GameLen => reply[t] = GameLen)
    BY OwnEntry, ParametersAssumption
  <2>2. CASE Unlock(t, rec, ok)
    <3>1. ok = GameLen => reply[t] = GameLen \/ Completes(t)
      BY <1>3 DEF Completes
    <3> QED BY <1>1, <1>3, <2>2, <3>1, UnlockEffect
  <2>3. CASE Unlock(t, E(t), failed)
    <3>1. EntryFits(E(t))
      BY OwnEntry
    <3> QED BY <1>1, <1>3, <2>1, <2>3, <3>1, UnlockEffect
  <2> QED BY <1>3, <2>2, <2>3
<1> QED BY <1>2, <1>3 DEF WriteEnvelope

\* The envelope of a commit on its own.
LEMMA CommitEnvelopeEffect ==
    ASSUME Control, NEW t \in Threads, CommitEnvelope(t)
    PROVE  Effect(t)
<1>1. /\ pc[t] \in Holding /\ StoredAt(t) <= GameLen
      /\ E(t).env.status \in {"lobby", "active"}
  BY DEF CommitEnvelope, Holding, Control, Stage
<1>2. WriteEnvelope(t, NextEnv(t), Committed(t), Reported(t), 0)
  BY DEF CommitEnvelope
<1>3. EntryFits(Committed(t)) /\ Committed(t).env = NextEnv(t) /\ Reported(t) \in 0..GameLen
  BY <1>1, WrittenEntry
<1>4. VersionIs(E(t).env.version) /\ env' = NextEnv(t) => Writes(t)
  BY <1>1, CommitWrites
<1>5. Reported(t) = GameLen => E(t).env.status # "completed" /\ NextEnv(t).status = "completed"
  BY <1>1, ParametersAssumption DEF Reported, StoredAt, NextEnv, Finished
<1> QED BY <1>1, <1>2, <1>3, <1>4, <1>5, WriteEnvelopeEffect

\* An edit of the envelope, that leaves a match that is over as it is.
LEMMA EditEffect ==
    ASSUME Control, NEW t \in Threads, pc[t] \in Holding, E(t).env # Gone,
           NEW status \in Status, E(t).env.status = "completed" => status = "completed", NEW r \in {0, reply[t]},
           WriteEnvelope(t, Bumped(E(t).env, status),
                         [E(t) EXCEPT !.env = Bumped(E(t).env, status)], r, r)
    PROVE  Effect(t)
<1> DEFINE next == Bumped(E(t).env, status)
           rec == [E(t) EXCEPT !.env = next]
<1>1. E(t) \in Entry /\ Len(E(t).board.played) <= GameLen /\ ent[t] \in Entries
  BY OwnEntry DEF EntryFits
<1>2. E(t).env \in Envelope \cup {Gone}
  BY <1>1 DEF Entry
<1>3. next \in Envelope
  BY <1>2, BumpedTypes
<1>4. next.version = E(t).env.version + 1
  <2>1. E(t).env \in Envelope
    BY <1>2
  <2> QED BY <2>1 DEF Bumped, Envelope
<1> HIDE DEF next
<1>5. EntryFits(rec) /\ rec.env = next
  BY <1>1, <1>3 DEF EntryFits, Entry
<1>6. VersionIs(E(t).env.version) /\ env' = next => Writes(t)
  <2>1. next.status = status
    <3>1. E(t).env \in Envelope
      BY <1>2
    <3> QED BY <3>1 DEF next, Bumped, Envelope
  <2> QED BY <1>1, <1>3, <1>4, <2>1 DEF Writes
<1>7. WriteEnvelope(t, next, rec, r, r) /\ (r = GameLen => reply[t] = GameLen) /\ r \in 0..GameLen
  BY OwnEntry, ParametersAssumption DEF next
<1> HIDE DEF rec
<1> QED BY <1>5, <1>6, <1>7, WriteEnvelopeEffect

\* saveLocked, and the touch after a move.
LEMMA SaveEffect ==
    ASSUME Control, NEW t \in Threads, SaveLocked(t) \/ Touch(t)
    PROVE  Effect(t)
<1>1. pc[t] \in Holding
  BY DEF SaveLocked, Touch, Holding
<1>2. CASE SaveLocked(t)
  <2>1. PICK status \in Status :
           /\ <<E(t).env.status, status>> \in Edits
           /\ WriteEnvelope(t, Bumped(E(t).env, status), [E(t) EXCEPT !.env = Bumped(E(t).env, status)], 0, 0)
    BY <1>2 DEF SaveLocked
  <2>2. E(t).env # Gone /\ (E(t).env.status = "completed" => status = "completed")
    BY <2>1, EmptyTypes DEF Edits, Status
  <2> QED BY <1>1, <2>1, <2>2, EditEffect
<1>3. CASE Touch(t)
  <2>1. E(t).env.status = "active"
    BY <1>3 DEF Touch, Control, Stage
  <2>2. E(t).env # Gone /\ E(t).env.status \in Status /\ E(t).env.status # "completed"
    BY <2>1, EmptyTypes DEF Status
  <2>3. WriteEnvelope(t, Bumped(E(t).env, E(t).env.status),
                      [E(t) EXCEPT !.env = Bumped(E(t).env, E(t).env.status)], reply[t], reply[t])
    BY <1>3 DEF Touch
  <2> QED BY <1>1, <2>2, <2>3, EditEffect
<1> QED BY <1>2, <1>3

\* A delete, by a host or by the sweep.
LEMMA DeleteEffect ==
    ASSUME Control, NEW t \in Threads, DeleteAsHost(t) \/ DeleteLog(t) \/ RetireMatch(t) \/ RetireLog(t)
    PROVE  Effect(t)
<1>1. env' \in {env, Gone} /\ recorded' = recorded
  BY DEF DeleteAsHost, DeleteLog, RetireMatch, RetireLog, DropCounted, DropRow, store, history
<1>2. CASE DeleteAsHost(t) \/ DeleteLog(t)
  <2>1. pc[t] \in Holding
    BY <1>2 DEF DeleteAsHost, DeleteLog, Holding
  <2>2. /\ EntryFits(Behind(t)) /\ Behind(t).env = E(t).env /\ 0 # GameLen /\ 0 \in 0..GameLen
        /\ ent[t] \in Entries /\ entry = [entry EXCEPT ![ent[t]] = E(t)] /\ E(t) \in Entry
        /\ reply = [reply EXCEPT ![t] = reply[t]] /\ reply[t] \in 0..GameLen
    BY <2>1, OwnEntry, ParametersAssumption DEF EntryFits
  <2>3. CASE Unlock(t, Behind(t), 0)
    BY <1>1, <2>1, <2>2, <2>3, UnlockEffect
  <2>4. CASE UNCHANGED <<entry, reply>>
    <3>1. entry' = [entry EXCEPT ![ent[t]] = E(t)] /\ reply' = [reply EXCEPT ![t] = reply[t]]
      BY <2>2, <2>4
    <3> QED BY <1>1, <2>2, <3>1, OwnEffect
  <2> QED BY <1>2, <2>3, <2>4 DEF DeleteAsHost, DeleteLog
<1>3. CASE RetireMatch(t) \/ RetireLog(t)
  <2>1. Emptied /\ reply' = reply
    <3>1. CASE UNCHANGED memory
      BY <1>3, <3>1 DEF memory, Emptied, RetireMatch, RetireLog
    <3>2. CASE Forget(On[t])
      BY <1>3, <3>2 DEF Forget, Emptied, RetireMatch, RetireLog
    <3> QED BY <1>3, <3>1, <3>2 DEF RetireMatch, RetireLog
  <2> QED BY <1>1, <2>1, OutsideEffect
<1> QED BY <1>2, <1>3

\* A call that arrives or looks again, and the sweep's look.
LEMMA LookEffect ==
    ASSUME Control, NEW t \in Threads, Begin(t) \/ Relookup(t) \/ ScanRetired(t)
    PROVE  Effect(t)
<1>1. env' = env /\ recorded' = recorded /\ reply' = reply
  BY DEF Begin, Relookup, ScanRetired, store, history
<1>2. Emptied
  <2>1. CASE Begin(t) \/ Relookup(t)
    BY <2>1 DEF Begin, Relookup, Lookup, memory, Emptied, Control, Owned, MemoryOK
  <2>2. CASE ScanRetired(t)
    BY <2>2 DEF ScanRetired, memory, Emptied
  <2> QED BY <2>1, <2>2
<1> QED BY <1>1, <1>2, OutsideEffect

\* Each step of each thread but its answer.
LEMMA StepEffect ==
    ASSUME Control, NEW t \in Threads, Step(t) \/ ScanRetired(t) \/ Begin(t), ~Answer(t)
    PROVE  Effect(t)
BY FillEffect, MoveEffect, CommitSnapshotEffect, CommitEnvelopeEffect, SaveEffect,
   DeleteEffect, LookEffect DEF Step

\* Memory lost leaves the store, and no reply but the ones that were due.
LEMMA LostEffect ==
    ASSUME Control, NEW i \in Instances, EvictIdle(i) \/ Crash(i)
    PROVE  /\ env' = env /\ recorded' = recorded /\ Emptied
           /\ \A t \in Threads : reply'[t] \in {reply[t], 0}
BY DEF EvictIdle, Crash, store, history, thread, Emptied, Control, Owned, MemoryOK

\* Versions, and the recorder.
VersionsHold == Versioned /\ Once

\* Both at the start,
LEMMA VersionsInit == Init => VersionsHold
<1> SUFFICES ASSUME Init PROVE VersionsHold
  OBVIOUS
<1>1. env.version = 1 /\ \A e \in Entries : entry[e].env = Gone
  BY EmptyTypes DEF Init
<1>2. recorded = 0 /\ \A t \in Threads : reply[t] # GameLen
  BY ParametersAssumption DEF Init
<1> QED BY <1>1, <1>2 DEF VersionsHold, Versioned, Once

\* ... and after each step, that does not take a completed match back either.
LEMMA VersionsNext ==
    ASSUME Control, VersionsHold, [Next]_vars
    PROVE  VersionsHold' /\ Final
<1>1. Versioned /\ Once
  BY DEF VersionsHold
<1>2. ASSUME NEW t \in Threads, Effect(t) PROVE VersionsHold' /\ Final
  BY <1>1, <1>2, VersionedKept, OnceKept, FinalKept DEF VersionsHold
<1>3. ASSUME NEW t \in Threads, Answer(t) PROVE VersionsHold' /\ Final
  <2>1. /\ env' = env /\ entry' = entry /\ reply'[t] = 0
        /\ \A u \in Threads \ {t} : reply'[u] = reply[u]
        /\ recorded' = IF reply[t] = GameLen THEN recorded + 1 ELSE recorded
    BY <1>3 DEF Answer, store, memory, Control, Owned, MemoryOK
  <2>2. Versioned'
    BY <1>1, <2>1 DEF Versioned
  <2>3. 0 # GameLen
    BY ParametersAssumption
  <2>4. CASE reply[t] = GameLen
    <3>1. recorded = 0 /\ recorded' = 1 /\ env.status \in {"completed", "gone"}
      BY <1>1, <2>1, <2>4 DEF Once
    <3>2. \A u \in Threads : reply'[u] # GameLen
      BY <1>1, <2>1, <2>3, <2>4 DEF Once
    <3> QED BY <2>1, <2>2, <3>1, <3>2 DEF VersionsHold, Once, Final
  <2>5. CASE reply[t] # GameLen
    <3>1. recorded' = recorded /\ \A u \in Threads : reply'[u] = GameLen => reply[u] = GameLen
      BY <2>1, <2>3, <2>5
    <3> QED BY <1>1, <2>1, <2>2, <3>1 DEF VersionsHold, Once, Final
  <2> QED BY <2>4, <2>5
<1>4. ASSUME env' = env, recorded' = recorded, Emptied, \A t \in Threads : reply'[t] \in {reply[t], 0}
      PROVE  VersionsHold' /\ Final
  <2>1. Versioned'
    BY <1>1, <1>4, EmptyTypes DEF Versioned, Emptied
  <2>2. \A u \in Threads : reply'[u] = GameLen => reply[u] = GameLen
    BY <1>4, ParametersAssumption
  <2> QED BY <1>1, <1>4, <2>1, <2>2 DEF VersionsHold, Once, Final
<1>5. CASE UNCHANGED vars
  <2>1. env' = env /\ recorded' = recorded /\ Emptied /\ reply' = reply
    BY <1>5 DEF vars, Emptied
  <2> QED BY <1>4, <2>1
<1>6. ASSUME NEW t \in Threads, Step(t) \/ ScanRetired(t) \/ Begin(t) PROVE VersionsHold' /\ Final
  BY <1>2, <1>3, <1>6, StepEffect
<1>7. ASSUME NEW i \in Instances, EvictIdle(i) PROVE VersionsHold' /\ Final
  BY <1>4, <1>7, LostEffect
<1>8. ASSUME NEW i \in Instances, Crash(i) PROVE VersionsHold' /\ Final
  BY <1>4, <1>8, LostEffect
<1> QED BY <1>5, <1>6, <1>7, <1>8 DEF Next

\* The two together are inductive.
LEMMA VersionsAlways == Spec => [](Control /\ Data /\ VersionsHold)
<1>1. Control /\ VersionsHold /\ [Next]_vars => VersionsHold'
  BY VersionsNext
<1> QED BY <1>1, InvariantHolds, VersionsInit, PTL DEF Spec

\* The recorder hears of a match at most once, and only of a finished one: the
\* move that ends it is reported by the one write of the envelope that completes
\* it (handleAction records after the unlock, from what it has just written).
THEOREM RecordedOnceHolds == Spec => []RecordedOnce
<1>1. VersionsHold => RecordedOnce
  BY DEF VersionsHold, Once, RecordedOnce
<1> QED BY <1>1, VersionsAlways, PTL

\* A completed match never becomes anything else, and a deleted one stays
\* deleted, whoever writes late: every write of the envelope is under the version
\* check, and starts from a match that is not over.
THEOREM CompletedStays == Spec => CompletedIsFinal
<1>1. Control /\ VersionsHold /\ [Next]_vars =>
        [/\ env.status = "completed" => env'.status \in {"completed", "gone"}
         /\ env = Gone => env' = Gone]_vars
  BY VersionsNext DEF Final
<1> QED BY <1>1, VersionsAlways, PTL DEF Spec, CompletedIsFinal

=============================================================================
