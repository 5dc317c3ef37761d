------------------------------ MODULE MatchLog ------------------------------
(***************************************************************************)
(* How one match is kept: the record the store holds, the move log and the *)
(* snapshots beside it, and the copy each server process holds in memory   *)
(* (src/server/internal/match: live.go, manager.go, repository.go,         *)
(* repository_kdb.go).                                                     *)
(*                                                                         *)
(* One match, because nothing here relates two.  A board is a deal and the *)
(* moves played on it: Apply is deterministic, so that is all a board is.  *)
(* The deal is named by the number of seats it was made for, a move by the *)
(* goroutine that plays it.  A match ends when GameLen moves are played    *)
(* and closes a round every RoundLen moves.                                *)
(*                                                                         *)
(* A thread is a goroutine with a call in hand.  It looks the entry up,    *)
(* takes its lock, fills it from the store if need be, writes the store    *)
(* and answers.  A write of the store and the change of the locked entry   *)
(* that goes with its answer are one step: nobody else sees the entry      *)
(* before the unlock.  Two backends: kdb, embedded in the one process that *)
(* uses it, and Mongo, which several instances may share.                  *)
(***************************************************************************)
EXTENDS Integers, Sequences, TLC

CONSTANTS
    Threads,        \* goroutines that may call the runtime
    Instances,      \* server processes; more than one means Redis fan-out
    On,             \* On[t]: the instance goroutine t runs in
    Entries,        \* live entries that can be in memory at once
    GameLen,        \* moves a game takes
    RoundLen,       \* moves a round takes
    SnapshotEvery,  \* manager.go snapshotEvery
    RoundGap,       \* manager.go snapshotRoundGap
    MaxVersion,     \* bound: no edit is begun past this version, but one of a match that is over
    Transactional,  \* TRUE: kdb.  FALSE: Mongo, where CommitSnapshot is steps
    MayFail,        \* a store call may fail without effect
    MayLoseReply,   \* a store call may take effect and still answer an error
    None

ASSUME ParametersAssumption ==
    /\ On \in [Threads -> Instances]
    /\ GameLen \in Nat \ {0} /\ RoundLen \in Nat \ {0}
    /\ SnapshotEvery \in Nat \ {0} /\ RoundGap \in Nat /\ MaxVersion \in Nat
    /\ Transactional \in BOOLEAN /\ MayFail \in BOOLEAN /\ MayLoseReply \in BOOLEAN
    /\ None \notin Threads /\ None \notin Entries

VARIABLES
    env,      \* the stored envelope
    moves,    \* the stored moves, by sequence number
    boards,   \* the stored snapshots, by sequence number
    table,    \* table[i]: the entry instance i holds for the match
    entry,    \* the entries
    pc,       \* where each thread is
    ent,      \* the entry a thread is waiting for or has locked
    seen,     \* the version a retiring thread scanned
    reply,    \* the move a thread is about to report as played, 0 if none
    acked,    \* history: the moves players were told were accepted
    recorded  \* history: how often the match went to the recorder

store  == <<env, moves, boards>>
memory == <<table, entry>>
thread == <<pc, ent, seen, reply>>
history == <<acked, recorded>>
vars == <<env, moves, boards, table, entry, pc, ent, seen, reply, acked, recorded>>

-----------------------------------------------------------------------------
(* Types and empty values *)

Status   == {"lobby", "active", "suspended", "abandoned", "completed"}
Board    == [deal: Nat, played: Seq(Threads)]
NoBoard  == [deal |-> 0, played |-> <<>>]
Envelope == [status: Status, version: Nat, seats: Nat, snaps: Seq(Nat)]
Gone     == [status |-> "gone", version |-> 0, seats |-> 0, snaps |-> <<>>]

Entry    == [lock: Threads \cup {None}, loaded: BOOLEAN, broken: BOOLEAN,
             env: Envelope \cup {Gone}, board: Board]
NewEntry == [lock |-> None, loaded |-> FALSE, broken |-> FALSE,
             env |-> Gone, board |-> NoBoard]

PC == {"idle", "acquire", "recheck_moves", "recheck_env", "load", "rebuild",
       "locked", "commit_snap", "commit_env", "touch", "delete_log", "retire",
       "retire_log", "answer"}

-----------------------------------------------------------------------------
(* Helpers *)

Put(f, k, v) == [x \in DOMAIN f \cup {k} |-> IF x = k THEN v ELSE f[x]]

\* A board whose game is over, as the module's Finished says.
Finished(b) == Len(b.played) = GameLen

\* The newest snapshot an envelope lists, 0 (the deal) if it lists none.
LatestSnapshot(snaps) == IF snaps = <<>> THEN 0 ELSE snaps[Len(snaps)]

\* A mistake for the checks: the list keeps the newest only.
OnlyNewest(snaps, seq) == <<seq>>

\* List seq as the newest snapshot, once.
WithSnapshot(snaps, seq) ==
    IF snaps # <<>> /\ snaps[Len(snaps)] = seq THEN snaps ELSE Append(snaps, seq)

\* A mistake for the checks: due one move late.
DueLate(seq, last, closedRound) == seq - last > SnapshotEvery

\* Is the board after move seq stored, the newest snapshot being at last?
SnapshotDue(seq, last, closedRound) ==
    \/ seq - last >= SnapshotEvery
    \/ closedRound /\ seq - last >= RoundGap

\* The stored moves run from from+1 to h without a gap, and stop there.
RunsTo(from, h) ==
    /\ h >= from
    /\ (from + 1)..h \subseteq DOMAIN moves
    /\ h + 1 \notin DOMAIN moves

\* The board b played on to move h.
Replayed(b, h) ==
    [b EXCEPT !.played = [i \in 1..h |-> IF i <= Len(b.played) THEN b.played[i] ELSE moves[i]]]

\* Two mistakes for the checks: a write that does not look at the version, and
\* an insert that does not look for its key.
AnyVersion(v) == env # Gone
NeverStored(seq) == FALSE

\* The unique key of a move.
Stored(seq) == seq \in DOMAIN moves

\* The version check of UpdateWithVersion, CommitSnapshot and
\* DeleteIfUnchanged; a missing match is a conflict too.
VersionIs(v) == env # Gone /\ env.version = v

\* Is this process one of several?
RedisEnabled == \E i, j \in Instances : i # j

E(t) == entry[ent[t]]

\* A mistake for the checks: a number is skipped.
SkipSeq(t) == Len(E(t).board.played) + 2

\* The number of the move thread t is about to store.
NextSeq(t) == Len(E(t).board.played) + 1

\* The board and the envelope thread t is about to store: those of a start, in
\* the lobby, or those of its move.
NextBoard(t) ==
    IF E(t).env.status = "lobby" THEN [deal |-> E(t).env.seats, played |-> <<>>]
                                 ELSE [E(t).board EXCEPT !.played = Append(@, t)]

\* The number of moves on that board.
StoredAt(t) == Len(NextBoard(t).played)

\* A mistake for the checks: the envelope of the last move stays active.
StaysActive(t) ==
    [status |-> "active", version |-> E(t).env.version + 1, seats |-> E(t).env.seats,
     snaps |-> WithSnapshot(E(t).env.snaps, StoredAt(t))]

NextEnv(t) ==
    [status  |-> IF Finished(NextBoard(t)) THEN "completed" ELSE "active",
     version |-> E(t).env.version + 1,
     seats   |-> E(t).env.seats,
     snaps   |-> WithSnapshot(E(t).env.snaps, StoredAt(t))]

\* A mistake for the checks: the last move goes to the store as any other.
CommitWhenDue(t) ==
    SnapshotDue(StoredAt(t), LatestSnapshot(E(t).env.snaps), StoredAt(t) % RoundLen = 0)

\* Does the action thread t is playing go to the store with a snapshot?
NeedsCommit(t) ==
    \/ Finished(NextBoard(t))
    \/ SnapshotDue(StoredAt(t), LatestSnapshot(E(t).env.snaps), StoredAt(t) % RoundLen = 0)

\* A mistake for the checks: the status is not looked at.
ApplyInAnyStatus(t) ==
    E(t).env.status # "lobby" /\ ~E(t).broken /\ ~Finished(E(t).board)

\* An action is applied to a board in play that could be rebuilt; a module
\* refuses every move on a finished one.
MayApply(t) ==
    /\ E(t).env.status = "active"
    /\ ~E(t).broken
    /\ ~Finished(E(t).board)

\* The envelope writes of the runtime, by the status they leave and the one they
\* write: a seat taken, a seat handed to a stand-in or back, a rematch offered or
\* forgotten; a suspend, a resume, the reaper, and a host's resume.
Edits == {<<status, status>> : status \in Status \ {"gone"}} \cup
         {<<"active", "suspended">>, <<"suspended", "active">>,
          <<"active", "abandoned">>, <<"suspended", "abandoned">>,
          <<"abandoned", "active">>}

-----------------------------------------------------------------------------
Init ==
    /\ env = [status |-> "lobby", version |-> 1, seats |-> 1, snaps |-> <<>>]
    /\ moves = <<>> /\ boards = <<>>
    /\ table = [i \in Instances |-> None]
    /\ entry = [e \in Entries |-> NewEntry]
    /\ pc = [t \in Threads |-> "idle"]
    /\ ent = [t \in Threads |-> None]
    /\ seen = [t \in Threads |-> 0]
    /\ reply = [t \in Threads |-> 0]
    /\ acked = <<>> /\ recorded = 0

-----------------------------------------------------------------------------
(* Taking the lock *)

Goto(t, where) == pc' = [pc EXCEPT ![t] = where]

\* liveMatches.entry: the entry the table holds, made if there is none.
Lookup(t) ==
    LET i == On[t] IN
    IF table[i] # None
      THEN ent' = [ent EXCEPT ![t] = table[i]] /\ UNCHANGED memory
      ELSE \E e \in Entries :
             /\ \A j \in Instances : table[j] # e
             /\ \A u \in Threads : ent[u] # e
             /\ table' = [table EXCEPT ![i] = e]
             /\ entry' = [entry EXCEPT ![e] = NewEntry]
             /\ ent' = [ent EXCEPT ![t] = e]

\* A call arrives.  What it is for is settled once it has the lock: nothing it
\* does before depends on it.
Begin(t) ==
    /\ pc[t] = "idle"
    /\ Lookup(t) /\ Goto(t, "acquire")
    /\ UNCHANGED <<store, seen, reply, history>>

\* lockMatch took the lock of the entry the table still holds.
Acquire(t) ==
    LET e == ent[t]
        locked == [entry[e] EXCEPT !.lock = t]
    IN
    /\ pc[t] = "acquire" /\ table[On[t]] = e /\ entry[e].lock = None
    /\ entry' = [entry EXCEPT ![e] = locked]
    /\ Goto(t, IF locked.loaded /\ RedisEnabled THEN "recheck_moves"
               ELSE IF ~locked.loaded \/ locked.broken THEN "load" ELSE "locked")
    /\ UNCHANGED <<store, table, ent, seen, reply, history>>

\* lockMatch found the entry dropped between the lookup and the lock.
Relookup(t) ==
    /\ pc[t] = "acquire" /\ table[On[t]] # ent[t] /\ entry[ent[t]].lock = None
    /\ Lookup(t)
    /\ UNCHANGED <<store, pc, seen, reply, history>>

\* With Redis, a held match is checked against the store: is the next move
\* already there, written by another instance?
RecheckMoves(t) ==
    LET e == ent[t]
        stale == Stored(NextSeq(t))
    IN
    /\ pc[t] = "recheck_moves"
    /\ \/ /\ (stale \/ MayFail)
          /\ entry' = [entry EXCEPT ![e].loaded = FALSE] /\ Goto(t, "load")
       \/ ~stale /\ Goto(t, "recheck_env") /\ UNCHANGED entry
    /\ UNCHANGED <<store, table, ent, seen, reply, history>>

\* ... and is the envelope the one this entry holds?
RecheckEnvelope(t) ==
    LET e == ent[t]
        stale == ~VersionIs(entry[e].env.version)
    IN
    /\ pc[t] = "recheck_env"
    /\ \/ /\ (stale \/ MayFail)
          /\ entry' = [entry EXCEPT ![e].loaded = FALSE] /\ Goto(t, "load")
       \/ /\ ~stale /\ UNCHANGED entry
          /\ Goto(t, IF entry[e].broken THEN "load" ELSE "locked")
    /\ UNCHANGED <<store, table, ent, seen, reply, history>>

-----------------------------------------------------------------------------
(* Letting it go *)

\* A mistake for the checks: a refusal returns without unlocking.
KeepLock(t, rec, r) ==
    LET e == ent[t] IN
    /\ entry' = [entry EXCEPT ![e] =
                   IF table'[On[t]] # e THEN NewEntry
                   ELSE IF r = 0 THEN rec ELSE [rec EXCEPT !.lock = None]]
    /\ ent' = [ent EXCEPT ![t] = None]
    /\ reply' = [reply EXCEPT ![t] = r]
    /\ Goto(t, IF r = 0 THEN "idle" ELSE "answer")
    /\ UNCHANGED seen

\* The thread leaves the lock with rec in the entry, and r as the move it is
\* about to report.  An entry the table no longer holds is garbage.
Unlock(t, rec, r) ==
    LET e == ent[t] IN
    /\ entry' = [entry EXCEPT ![e] = IF table'[On[t]] = e THEN [rec EXCEPT !.lock = None]
                                                         ELSE NewEntry]
    /\ ent' = [ent EXCEPT ![t] = None]
    /\ reply' = [reply EXCEPT ![t] = r]
    /\ Goto(t, IF r = 0 THEN "idle" ELSE "answer")
    /\ UNCHANGED seen

\* A mistake for the checks: the board is adopted before the store has agreed.
AdoptedEarly(t) == [E(t) EXCEPT !.board = NextBoard(t)]

\* The entry as a write that found the store ahead leaves it.
Behind(t) == [E(t) EXCEPT !.loaded = FALSE]

\* handleAction after the unlock: the player hears, and a match this move
\* finished goes to the recorder.
Answer(t) ==
    /\ pc[t] = "answer"
    /\ acked' = Put(acked, reply[t], t)
    /\ recorded' = IF reply[t] = GameLen THEN recorded + 1 ELSE recorded
    /\ Goto(t, "idle")
    /\ reply' = [reply EXCEPT ![t] = 0]
    /\ UNCHANGED <<store, memory, ent, seen>>

-----------------------------------------------------------------------------
(* Filling an entry from the store *)

LoadEnvelope(t) ==
    LET e == ent[t] IN
    /\ pc[t] = "load"
    /\ \/ \* MATCH_NOT_FOUND, and the entry is forgotten
          /\ env = Gone
          /\ table' = [table EXCEPT ![On[t]] = None]
          /\ Unlock(t, NewEntry, 0)
       \/ /\ MayFail /\ UNCHANGED table
          /\ Unlock(t, Behind(t), 0)
       \/ /\ env # Gone
          /\ entry' = [entry EXCEPT ![e] = [@ EXCEPT !.loaded = TRUE, !.broken = FALSE,
                                                     !.env = env, !.board = NoBoard]]
          /\ Goto(t, IF env.status = "lobby" THEN "locked" ELSE "rebuild")
          /\ UNCHANGED <<table, ent, seen, reply>>
    /\ UNCHANGED <<store, history>>

\* The newest snapshot the envelope lists with the moves after it, up to the
\* first gap.  A board that cannot be read leaves the envelope held.
Rebuild(t) ==
    LET e == ent[t]
        from == LatestSnapshot(entry[e].env.snaps)
        listed == entry[e].env.snaps # <<>>
        start == IF listed THEN boards[from] ELSE [deal |-> entry[e].env.seats, played |-> <<>>]
    IN
    /\ pc[t] = "rebuild"
    /\ \/ /\ MayFail \/ (listed /\ from \notin DOMAIN boards)
          /\ entry' = [entry EXCEPT ![e].broken = TRUE]
       \/ /\ listed => from \in DOMAIN boards
          /\ \E h \in from..GameLen :
                /\ RunsTo(from, h)
                /\ entry' = [entry EXCEPT ![e].board = Replayed(start, h)]
    /\ Goto(t, "locked")
    /\ UNCHANGED <<store, table, ent, seen, reply, history>>

-----------------------------------------------------------------------------
(* What a call does under the lock *)

\* A call that only looks, or that the match as held or the module refuses.
LeaveUnchanged(t) ==
    /\ pc[t] = "locked"
    /\ UNCHANGED table
    /\ Unlock(t, E(t), 0)
    /\ UNCHANGED <<store, history>>

\* A mistake for the checks: a stored move is not adopted.
NotAdopted(t) == E(t)

\* The entry once the write thread t made has landed.
Played(t)    == [E(t) EXCEPT !.board = NextBoard(t)]
Committed(t) == [E(t) EXCEPT !.board = NextBoard(t), !.env = NextEnv(t)]

\* A mistake for the checks: the number of the move after.
ReportedNext(t) == IF E(t).env.status = "lobby" THEN 0 ELSE StoredAt(t) + 1

\* The move an answer reports: none for a start.
Reported(t) == IF E(t).env.status = "lobby" THEN 0 ELSE StoredAt(t)

\* applyLocked, the ordinary move: one insert, refused if a move of its number
\* is stored.  The envelope is touched now and then, under the same lock.
AppendMove(t) ==
    LET seq == NextSeq(t) IN
    /\ pc[t] = "locked" /\ MayApply(t) /\ ~NeedsCommit(t)
    /\ \/ /\ ~Stored(seq)
          /\ moves' = Put(moves, seq, t)
          /\ UNCHANGED table
          /\ \/ Unlock(t, Played(t), seq)
             \/ /\ E(t).env.version < MaxVersion
                /\ entry' = [entry EXCEPT ![ent[t]] = Played(t)]
                /\ reply' = [reply EXCEPT ![t] = seq]
                /\ Goto(t, "touch") /\ UNCHANGED <<ent, seen>>
             \/ MayLoseReply /\ Unlock(t, E(t), 0)
       \/ Stored(seq) /\ UNCHANGED <<moves, table>> /\ Unlock(t, Behind(t), 0)
       \/ MayFail /\ UNCHANGED <<moves, table>> /\ Unlock(t, E(t), 0)
    /\ UNCHANGED <<env, boards, history>>

\* CommitSnapshot on kdb: the move, the snapshot and the envelope, or nothing.
CommitSnapshot(t) ==
    LET starts == E(t).env.status = "lobby"
        fresh == starts \/ ~Stored(StoredAt(t))
    IN
    /\ Transactional
    /\ pc[t] = "locked" /\ (starts \/ (MayApply(t) /\ NeedsCommit(t)))
    /\ UNCHANGED table
    /\ \/ /\ VersionIs(E(t).env.version) /\ fresh
          /\ moves' = IF starts THEN moves ELSE Put(moves, StoredAt(t), t)
          /\ boards' = Put(boards, StoredAt(t), NextBoard(t))
          /\ env' = NextEnv(t)
          /\ \/ Unlock(t, Committed(t), Reported(t))
             \/ MayLoseReply /\ Unlock(t, E(t), 0)
       \/ ~(VersionIs(E(t).env.version) /\ fresh)
          /\ UNCHANGED store /\ Unlock(t, Behind(t), 0)
       \/ MayFail /\ UNCHANGED store /\ Unlock(t, E(t), 0)
    /\ UNCHANGED history

\* CommitSnapshot on Mongo, first step: the move.
CommitMove(t) ==
    LET seq == NextSeq(t) IN
    /\ ~Transactional
    /\ pc[t] = "locked" /\ MayApply(t) /\ NeedsCommit(t)
    /\ UNCHANGED table
    /\ \/ /\ ~Stored(seq)
          /\ moves' = Put(moves, seq, t)
          /\ \/ Goto(t, "commit_snap") /\ UNCHANGED <<entry, ent, seen, reply>>
             \/ MayLoseReply /\ Unlock(t, E(t), 0)
       \/ Stored(seq) /\ UNCHANGED moves /\ Unlock(t, Behind(t), 0)
       \/ MayFail /\ UNCHANGED moves /\ Unlock(t, E(t), 0)
    /\ UNCHANGED <<env, boards, history>>

\* Second step: the snapshot, replacing one of the same number.  A start has
\* no move to store and begins here.
CommitBoard(t) ==
    /\ ~Transactional
    /\ pc[t] = "commit_snap" \/ (pc[t] = "locked" /\ E(t).env.status = "lobby")
    /\ UNCHANGED table
    /\ \/ /\ boards' = Put(boards, StoredAt(t), NextBoard(t))
          /\ \/ Goto(t, "commit_env") /\ UNCHANGED <<entry, ent, seen, reply>>
             \/ MayLoseReply /\ Unlock(t, E(t), 0)
       \/ MayFail /\ UNCHANGED boards /\ Unlock(t, E(t), 0)
    /\ UNCHANGED <<env, moves, history>>

\* UpdateWithVersion: the envelope under the version check.  The entry is left
\* as rec and ok is reported if it landed, otherwise failed is.
WriteEnvelope(t, next, rec, ok, failed) ==
    /\ UNCHANGED table
    /\ \/ /\ VersionIs(E(t).env.version)
          /\ env' = next
          /\ Unlock(t, rec, ok) \/ (MayLoseReply /\ Unlock(t, E(t), failed))
       \/ /\ ~VersionIs(E(t).env.version)
          /\ UNCHANGED env /\ Unlock(t, Behind(t), failed)
       \/ MayFail /\ UNCHANGED env /\ Unlock(t, E(t), failed)
    /\ UNCHANGED <<moves, boards, history>>

\* Third step: the envelope, under the version check.
CommitEnvelope(t) ==
    /\ pc[t] = "commit_env"
    /\ WriteEnvelope(t, NextEnv(t), Committed(t), Reported(t), 0)

\* A mistake for the checks: a seat is taken after the deal.
SeatAnytime(e, status) == [e EXCEPT !.status = status, !.version = @ + 1, !.seats = @ + 1]

\* An envelope as an edit leaves it; in the lobby, with one seat more.
Bumped(e, status) ==
    [e EXCEPT !.status = status, !.version = @ + 1,
              !.seats = IF e.status = "lobby" THEN @ + 1 ELSE @]

\* The bound on edits; a match that is over has room for one.
EditsLeft(e) == e.version < IF e.status = "completed" THEN MaxVersion + 2 ELSE MaxVersion

\* saveLocked: the envelope alone.
SaveLocked(t) ==
    /\ pc[t] = "locked" /\ EditsLeft(E(t).env)
    /\ \E status \in Status :
          LET next == Bumped(E(t).env, status) IN
          /\ <<E(t).env.status, status>> \in Edits
          /\ WriteEnvelope(t, next, [E(t) EXCEPT !.env = next], 0, 0)

\* The touch after a move, best effort: the move is reported whatever it answers.
Touch(t) ==
    LET next == Bumped(E(t).env, E(t).env.status) IN
    /\ pc[t] = "touch"
    /\ WriteEnvelope(t, next, [E(t) EXCEPT !.env = next], reply[t], reply[t])

-----------------------------------------------------------------------------
(* Deleting a match *)

\* kdb's DeleteIfUnchanged: the moves counted on from the newest snapshot,
\* the snapshots the envelope lists, and the envelope.
DropCounted ==
    /\ \E h \in LatestSnapshot(env.snaps)..GameLen :
          /\ RunsTo(LatestSnapshot(env.snaps), h)
          /\ moves' = [s \in DOMAIN moves \ (1..h) |-> moves[s]]
    /\ boards' = [s \in DOMAIN boards \ {env.snaps[i] : i \in DOMAIN env.snaps} |-> boards[s]]
    /\ env' = Gone

\* Mongo's: the row now, the log in a step of its own.
DropRow == env' = Gone /\ UNCHANGED <<moves, boards>>

\* DeleteAsHost: in any status, under the lock and the version held.
DeleteAsHost(t) ==
    /\ pc[t] = "locked"
    /\ \/ /\ VersionIs(E(t).env.version)
          /\ IF Transactional
               THEN /\ DropCounted
                    /\ table' = [table EXCEPT ![On[t]] = None]
                    /\ Unlock(t, Behind(t), 0)
               ELSE /\ DropRow
                    /\ Goto(t, "delete_log")
                    /\ UNCHANGED <<table, entry, ent, seen, reply>>
       \/ /\ ~VersionIs(E(t).env.version) \/ MayFail
          /\ UNCHANGED <<store, table>> /\ Unlock(t, Behind(t), 0)
    /\ UNCHANGED history

\* ... and the log after the row.
DeleteLog(t) ==
    /\ pc[t] = "delete_log"
    /\ \/ /\ moves' = <<>> /\ boards' = <<>> /\ UNCHANGED env
          /\ table' = [table EXCEPT ![On[t]] = None]
       \/ MayFail /\ UNCHANGED <<store, table>>
    /\ Unlock(t, Behind(t), 0)
    /\ UNCHANGED history

\* SweepRetired reads a match that has reached a status it cannot leave on its
\* own, or a lobby nobody started, ...
ScanRetired(t) ==
    /\ pc[t] = "idle"
    /\ env.status \in {"lobby", "completed", "abandoned"}
    /\ seen' = [seen EXCEPT ![t] = env.version]
    /\ Goto(t, "retire")
    /\ UNCHANGED <<store, memory, ent, reply, history>>

\* liveMatches.forget, whoever has the entry locked.
Forget(i) ==
    /\ table' = [table EXCEPT ![i] = None]
    /\ entry' = [e \in Entries |->
                   IF e = table[i] /\ entry[e].lock = None THEN NewEntry ELSE entry[e]]

EndRetire(t) ==
    /\ seen' = [seen EXCEPT ![t] = 0] /\ Goto(t, "idle")

\* ... deletes it if it is still at the version it read, and forgets the entry
\* without its lock.
RetireMatch(t) ==
    /\ pc[t] = "retire"
    /\ \/ /\ VersionIs(seen[t])
          /\ IF Transactional
               THEN DropCounted /\ Forget(On[t]) /\ EndRetire(t)
               ELSE DropRow /\ UNCHANGED <<memory, seen>> /\ Goto(t, "retire_log")
       \/ /\ ~VersionIs(seen[t]) \/ MayFail
          /\ UNCHANGED <<store, memory>> /\ EndRetire(t)
    /\ UNCHANGED <<ent, reply, history>>

RetireLog(t) ==
    /\ pc[t] = "retire_log"
    /\ \/ moves' = <<>> /\ boards' = <<>> /\ UNCHANGED env /\ Forget(On[t])
       \/ MayFail /\ UNCHANGED <<store, memory>>
    /\ EndRetire(t)
    /\ UNCHANGED <<ent, reply, history>>

-----------------------------------------------------------------------------
(* Memory going away *)

\* evictIdle: an entry nobody has locked leaves the table, whoever is about to
\* lock it.
EvictIdle(i) ==
    LET e == table[i] IN
    /\ e # None /\ entry[e].lock = None
    /\ table' = [table EXCEPT ![i] = None]
    /\ entry' = [entry EXCEPT ![e] = NewEntry]
    /\ UNCHANGED <<store, thread, history>>

\* The process dies and starts again with nothing in memory.
Crash(i) ==
    LET mine == {t \in Threads : On[t] = i}
        its == {ent[t] : t \in mine} \cup {table[i]}
    IN
    /\ table' = [table EXCEPT ![i] = None]
    /\ entry' = [e \in Entries |-> IF e \in its THEN NewEntry ELSE entry[e]]
    /\ pc' = [t \in Threads |-> IF t \in mine THEN "idle" ELSE pc[t]]
    /\ seen' = [t \in Threads |-> IF t \in mine THEN 0 ELSE seen[t]]
    /\ ent' = [t \in Threads |-> IF t \in mine THEN None ELSE ent[t]]
    /\ reply' = [t \in Threads |-> IF t \in mine THEN 0 ELSE reply[t]]
    /\ UNCHANGED <<store, history>>

-----------------------------------------------------------------------------
Step(t) ==
    \/ Acquire(t) \/ Relookup(t) \/ RecheckMoves(t) \/ RecheckEnvelope(t)
    \/ LoadEnvelope(t) \/ Rebuild(t) \/ LeaveUnchanged(t)
    \/ AppendMove(t) \/ CommitSnapshot(t)
    \/ CommitMove(t) \/ CommitBoard(t) \/ CommitEnvelope(t)
    \/ SaveLocked(t) \/ Touch(t) \/ Answer(t)
    \/ DeleteAsHost(t) \/ DeleteLog(t) \/ RetireMatch(t) \/ RetireLog(t)

Next ==
    \/ \E t \in Threads : Step(t) \/ ScanRetired(t) \/ Begin(t)
    \/ \E i \in Instances : EvictIdle(i) \/ Crash(i)

Spec == Init /\ [][Next]_vars

\* A goroutine keeps running, and a mutex nobody holds is not denied for ever
\* to one that waits for it (sync.Mutex hands over after a millisecond).
Fairness == \A t \in Threads : WF_vars(Step(t)) /\ SF_vars(Acquire(t))
FairSpec == Spec /\ Fairness

-----------------------------------------------------------------------------
(* Properties *)

IsPlayed(b) == \A i \in DOMAIN b.played : i \in DOMAIN moves /\ moves[i] = b.played[i]

TypeOK ==
    /\ env \in Envelope \cup {Gone}
    /\ moves = [s \in DOMAIN moves |-> moves[s]] /\ DOMAIN moves \subseteq 1..GameLen
    /\ \A s \in DOMAIN moves : moves[s] \in Threads
    /\ boards = [s \in DOMAIN boards |-> boards[s]] /\ DOMAIN boards \subseteq 0..GameLen
    /\ \A s \in DOMAIN boards : boards[s] \in Board
    /\ table \in [Instances -> Entries \cup {None}]
    /\ entry \in [Entries -> Entry]
    /\ pc \in [Threads -> PC]
    /\ seen \in [Threads -> Nat]
    /\ ent \in [Threads -> Entries \cup {None}]
    /\ reply \in [Threads -> 0..GameLen]
    /\ acked = [s \in DOMAIN acked |-> acked[s]] /\ DOMAIN acked \subseteq 1..GameLen
    /\ \A s \in DOMAIN acked : acked[s] \in Threads
    /\ recorded \in Nat

\* Every board a process holds is a replay of stored moves: whatever fails,
\* crashes or is evicted, nobody is ever shown a move that is not in the log.
HeldBoardsArePlayed == env # Gone => \A e \in Entries : IsPlayed(entry[e].board)

\* Every snapshot the envelope lists is stored and is exactly the board its
\* number of moves leads to, so a rebuild may start from any of them.
SnapshotsAreExact ==
    env # Gone => \A i \in DOMAIN env.snaps :
        LET s == env.snaps[i] IN
        s \in DOMAIN boards /\ Len(boards[s].played) = s /\ IsPlayed(boards[s])

\* A started match is played on the one deal that was made for its seats.
OneDeal ==
    env.status \notin {"lobby", "gone"} =>
        \A i \in DOMAIN env.snaps : boards[env.snaps[i]].deal = env.seats

\* The log has no gap: a rebuild stops at the first one, and kdb's delete
\* counts on from the newest snapshot.
LogHasNoGap == env # Gone => \A s \in DOMAIN moves : 1..s \subseteq DOMAIN moves

\* A move a player was told was accepted is in the log, and stays what it was.
AckedMovesAreStored ==
    env # Gone => \A s \in DOMAIN acked : s \in DOMAIN moves /\ moves[s] = acked[s]

\* Under the lock a call sees the match as the store has it: the envelope of
\* now and every move there is.
LockedIsCurrent ==
    \A t \in Threads : pc[t] = "locked" /\ env # Gone =>
        /\ E(t).env = env
        /\ ~E(t).broken => DOMAIN E(t).board.played = DOMAIN moves

\* A rebuild never applies snapshotEvery moves or more.
RebuildIsBounded ==
    env # Gone => \A s \in DOMAIN moves : s - LatestSnapshot(env.snaps) < SnapshotEvery

\* A game whose last move is stored is completed, once the call that stored it
\* is over.
FinishedIsCompleted ==
    GameLen \in DOMAIN moves /\ (\A t \in Threads : pc[t] \notin {"commit_snap", "commit_env"})
        => env.status \in {"completed", "gone"}

\* The recorder hears of a match at most once, and only of a finished one.
RecordedOnce == recorded <= 1 /\ (recorded = 1 => env.status \in {"completed", "gone"})

\* A deleted match leaves nothing behind in kdb.
DeletedLeavesNothing == env = Gone => DOMAIN moves = {} /\ DOMAIN boards = {}

\* A move is stored only into a match that is in play.
MovesOnlyInPlay == [][DOMAIN moves' \subseteq DOMAIN moves \/ env.status = "active"]_vars

\* A completed match never becomes anything else, and a deleted one stays deleted.
CompletedIsFinal ==
    [][/\ env.status = "completed" => env'.status \in {"completed", "gone"}
       /\ env = Gone => env' = Gone]_vars

\* The stored moves and the stored status are a ledger: whatever goroutines,
\* failures, evictions and crashes there are, one move at a time is accepted, only
\* in play, and the last one completes the match.
Ledger == INSTANCE MatchLedger WITH Players <- Threads, ledger <- moves, status <- env.status
ImplementsLedger == Ledger!Spec

\* Every call on a match that is not deleted is answered.  (Calls that keep
\* arriving for a deleted one each make an entry and forget it, and may starve
\* one that keeps finding the entry gone.)
EveryCallReturns ==
    \A t \in Threads : pc[t] # "idle" /\ env # Gone ~> pc[t] = "idle" \/ env = Gone

=============================================================================
