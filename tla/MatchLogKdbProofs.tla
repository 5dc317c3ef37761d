------------------------- MODULE MatchLogKdbProofs -------------------------
(***************************************************************************)
(* The match log on kdb, embedded in the one process that uses it.  There  *)
(* the entry in memory and the store move together, and more holds than on *)
(* a shared store: a call under the lock sees the match as it is, no board *)
(* is far from its snapshot, a delete leaves nothing behind, and the       *)
(* stored moves and status are the ledger MatchLedger describes.           *)
(*                                                                         *)
(* One process has one entry in the table, so one thread has the lock of   *)
(* the match.  Until the match is deleted every loaded entry is the one in *)
(* the table and mirrors the store (Live); after that nothing is stored    *)
(* and no entry in memory can be played on (Deleted).                      *)
(***************************************************************************)
EXTENDS MatchLogProofs

\* kdb, in one process: CommitSnapshot is a transaction, and no answer of the
\* store is lost on the way to its caller.
Embedded == Transactional /\ ~MayLoseReply /\ \A i, j \in Instances : i = j

-----------------------------------------------------------------------------
(* The entry and the store together *)

\* Nothing is rechecked and nothing is half written, and a thread that may use
\* the entry has it loaded.
AtOnce(t) ==
    /\ pc[t] \notin {"recheck_moves", "recheck_env", "commit_snap", "commit_env",
                     "delete_log", "retire_log"}
    /\ pc[t] \in {"rebuild", "locked", "touch"} => E(t).loaded

\* The board b has every move of m and is of the deal that x says.
Follows(b, m, x) ==
    /\ DOMAIN b.played = DOMAIN m
    /\ x.status # "lobby" => b.deal = x.seats

Rebuilding(e) == \E t \in Threads : pc[t] = "rebuild" /\ ent[t] = e

\* A loaded entry has the envelope of the store, and the board unless that is
\* being rebuilt or could not be.
Mirrored(e) ==
    entry[e].loaded =>
        /\ entry[e].env = env
        /\ Rebuilding(e) \/ entry[e].broken \/ Follows(entry[e].board, moves, env)

\* What is loaded or locked is in the table.
InTable ==
    /\ \A t \in Threads : pc[t] \in Holding => table[On[t]] = ent[t]
    /\ \A e \in Entries : entry[e].loaded => \E i \in Instances : table[i] = e

\* A thread that is about to retire the match read a version at which it may go.
Scanned(t) ==
    pc[t] = "retire" =>
        /\ seen[t] <= env.version
        /\ seen[t] = env.version => env.status \in {"lobby", "completed", "abandoned"}

\* A match in the lobby has nothing stored.
LobbyIsEmpty == env.status = "lobby" => DOMAIN moves = {} /\ DOMAIN boards = {} /\ env.snaps = <<>>

\* Every stored snapshot is listed, and is of the one deal.
BoardsAreListed == \A s \in DOMAIN boards : \E i \in DOMAIN env.snaps : env.snaps[i] = s

DealIsOne == env.status # "lobby" => \A i \in DOMAIN env.snaps : boards[env.snaps[i]].deal = env.seats

\* The last move completes the match.
EndsCompleted == GameLen \in DOMAIN moves => env.status = "completed"

SnapshotIsNear == \A s \in DOMAIN moves : s - LatestSnapshot(env.snaps) < SnapshotEvery

Sound == LobbyIsEmpty /\ BoardsAreListed /\ DealIsOne /\ EndsCompleted /\ SnapshotIsNear

Live ==
    /\ InTable
    /\ \A e \in Entries : Mirrored(e)
    /\ \A t \in Threads : Scanned(t)
    /\ Sound

Deleted ==
    /\ DOMAIN moves = {} /\ DOMAIN boards = {}
    /\ \A e \in Entries : entry[e].loaded => entry[e].env.status # "active"

Sync ==
    /\ \A t \in Threads : AtOnce(t)
    /\ env # Gone => Live
    /\ env = Gone => Deleted

\* A step of the ledger, or none.
LedgerStep == [Ledger!Next]_<<moves, env.status>>

-----------------------------------------------------------------------------
(* What is kept *)

\* A thread that does not move is where it was.
LEMMA AtOnceKept ==
    ASSUME Sync, NEW movers, Frame(movers), \A u \in movers : AtOnce(u)'
    PROVE  \A u \in Threads : AtOnce(u)'
<1> SUFFICES ASSUME NEW u \in Threads \ movers PROVE AtOnce(u)'
  OBVIOUS
<1>1. AtOnce(u) /\ pc'[u] = pc[u] /\ (pc[u] \in Holding => E(u)' = E(u))
  BY DEF Sync, Frame
<1> QED BY <1>1 DEF AtOnce, Holding

\* In one process, the thread that has the lock of the entry in the table, or
\* finds it free, is the only one to have a lock, and no other entry is loaded.
LEMMA Alone ==
    ASSUME Embedded, Control, Live, NEW t \in Threads,
           ent[t] \in Entries, table[On[t]] = ent[t], entry[ent[t]].lock \in {None, t}
    PROVE  /\ \A u \in Threads \ {t} : pc[u] \notin Holding
           /\ \A e \in Entries \ {ent[t]} : ~entry[e].loaded
<1>1. \A u \in Threads : On[u] \in Instances
  BY ParametersAssumption
<1>2. ASSUME NEW u \in Threads \ {t}, pc[u] \in Holding PROVE FALSE
  <2>1. table[On[u]] = ent[u] /\ On[u] = On[t]
    BY <1>1, <1>2 DEF Live, InTable, Embedded
  <2>2. ent[u] = ent[t] /\ entry[ent[u]].lock = u
    BY <1>2, <2>1 DEF Control, Owned, LocksHeld
  <2> QED BY <2>2, ParametersAssumption
<1>3. ASSUME NEW e \in Entries \ {ent[t]}, entry[e].loaded PROVE FALSE
  <2>1. PICK i \in Instances : table[i] = e
    BY <1>3 DEF Live, InTable
  <2>2. i = On[t]
    BY <1>1 DEF Embedded
  <2> QED BY <2>1, <2>2
<1> QED BY <1>2, <1>3

\* A thread that has a lock has the one of the entry in the table.
LEMMA HolderAlone ==
    ASSUME Embedded, Control, Live, NEW t \in Threads, pc[t] \in Holding
    PROVE  /\ ent[t] \in Entries /\ table[On[t]] = ent[t] /\ entry[ent[t]].lock = t
           /\ \A u \in Threads \ {t} : pc[u] \notin Holding
           /\ \A e \in Entries \ {ent[t]} : ~entry[e].loaded
<1>1. ent[t] \in Entries /\ table[On[t]] = ent[t] /\ entry[ent[t]].lock = t
  BY DEF Control, Owned, EntriesKnown, LocksHeld, Live, InTable
<1> QED BY <1>1, Alone

\* A match keeps to be scanned while its version only grows.
LEMMA ScannedKept ==
    ASSUME Control, Control', env # Gone, env' # Gone, env' = env \/ env'.version = env.version + 1,
           NEW u \in Threads, Scanned(u), pc'[u] = "retire" => pc[u] = "retire" /\ seen'[u] = seen[u]
    PROVE  Scanned(u)'
<1>1. env.version \in Nat /\ env'.version \in Nat /\ seen[u] \in Nat
  BY EnvelopeFields DEF Control, StoreOK, Owned, MemoryOK
<1> QED BY <1>1 DEF Scanned

\* A step of the only thread with a lock, in its own entry.
LEMMA OwnSync ==
    ASSUME Embedded, Control, Control', Sync, env # Gone, env' # Gone,
           env' = env \/ env'.version = env.version + 1,
           NEW t \in Threads, NEW e \in Entries, ent[t] = e, table[On[t]] = e,
           entry[e].lock \in {None, t},
           table' = table, seen' = seen, Frame({t}),
           \A f \in Entries \ {e} : entry'[f] = entry[f],
           pc'[t] # "retire", pc'[t] \in Holding => ent'[t] = e,
           AtOnce(t)', Mirrored(e)', Sound'
    PROVE  Sync'
<1>1. Live
  BY DEF Sync
<1>2. /\ \A u \in Threads \ {t} : pc[u] \notin Holding
      /\ \A f \in Entries \ {e} : ~entry[f].loaded
  BY <1>1, Alone
<1>3. \A u \in Threads : AtOnce(u)'
  BY AtOnceKept
<1>4. \A u \in Threads \ {t} : pc'[u] = pc[u]
  BY DEF Frame
<1>5. InTable'
  <2>1. \A u \in Threads : pc'[u] \in Holding => table'[On[u]] = ent'[u]
    BY <1>2, <1>4
  <2>2. \A f \in Entries : entry'[f].loaded => \E i \in Instances : table'[i] = f
    BY <1>2, ParametersAssumption
  <2> QED BY <2>1, <2>2 DEF InTable
<1>6. \A f \in Entries : Mirrored(f)'
  BY <1>2 DEF Mirrored
<1>7. ASSUME NEW u \in Threads PROVE Scanned(u)'
  <2>1. Scanned(u) /\ (pc'[u] = "retire" => pc[u] = "retire" /\ seen'[u] = seen[u])
    BY <1>1, <1>4 DEF Live
  <2> QED BY <2>1, ScannedKept
<1>8. Live'
  BY <1>5, <1>6, <1>7 DEF Live
<1> QED BY <1>3, <1>8 DEF Sync

\* ... after which it lets go,
LEMMA UnlockSync ==
    ASSUME Embedded, Control, Control', Sync, env # Gone, env' # Gone,
           env' = env \/ env'.version = env.version + 1,
           NEW t \in Threads, pc[t] \in Holding, NEW rec \in Entry, EntryFits(rec), NEW r \in 0..GameLen,
           table' = table, Unlock(t, rec, r),
           rec.loaded => rec.env = env' /\ (rec.broken \/ Follows(rec.board, moves', env')),
           Sound'
    PROVE  Sync'
<1> DEFINE e == ent[t]
<1>1. Live
  BY DEF Sync
<1>2. /\ e \in Entries /\ table[On[t]] = e /\ entry[e].lock = t
  BY <1>1, HolderAlone
<1>3. /\ Frame({t}) /\ Holds(t, rec)
      /\ pc'[t] = (IF r = 0 THEN "idle" ELSE "answer")
  BY UnlockOwns DEF Control, EntryFits
<1>4. /\ entry'[e] = [rec EXCEPT !.lock = None]
      /\ \A f \in Entries \ {e} : entry'[f] = entry[f]
  BY <1>2, <1>3 DEF Unlock, Control, Owned, MemoryOK, Holds
<1>5. /\ entry'[e].loaded = rec.loaded /\ entry'[e].broken = rec.broken
      /\ entry'[e].env = rec.env /\ entry'[e].board = rec.board
  BY <1>4 DEF Entry
<1>6. AtOnce(t)'
  BY <1>3 DEF AtOnce
<1>7. pc'[t] # "retire" /\ pc'[t] \notin Holding /\ seen' = seen
  BY <1>3 DEF Unlock, Holding
<1>8. PICK f \in Entries : f = e
  BY <1>2
<1>9. Mirrored(f)'
  BY <1>5, <1>8 DEF Mirrored
<1> QED BY <1>2, <1>3, <1>4, <1>6, <1>7, <1>8, <1>9, OwnSync

\* ... or stays in the call.
LEMMA HoldSync ==
    ASSUME Embedded, Control, Control', Sync, env # Gone, env' = env,
           NEW t \in Threads, ent[t] \in Entries, table[On[t]] = ent[t], entry[ent[t]].lock \in {None, t},
           NEW rec \in Entry, EntryFits(rec), rec.lock = t,
           NEW p \in {"load", "rebuild", "locked", "touch"}, NEW r \in 0..GameLen,
           entry' = [entry EXCEPT ![ent[t]] = rec], Goto(t, p),
           reply' = [reply EXCEPT ![t] = r], UNCHANGED <<table, ent, seen>>,
           p # "load" => rec.loaded,
           rec.loaded => /\ rec.env = env
                         /\ p = "rebuild" \/ rec.broken \/ Follows(rec.board, moves', env),
           Sound'
    PROVE  Sync'
<1>1. p \in Holding
  BY DEF Holding
<1>2. Frame({t}) /\ Holds(t, rec) /\ pc'[t] = p /\ E(t)' = rec
  <2>1. Owned /\ Len(rec.board.played) <= GameLen
    BY DEF Control, EntryFits
  <2>2. UNCHANGED <<table, ent, seen>>
    OBVIOUS
  <2> QED BY <1>1, <2>1, <2>2, HoldOwns
<1>3. PICK e \in Entries : e = ent[t]
  OBVIOUS
<1>4. /\ entry'[e] = rec /\ ent'[t] = e /\ table' = table /\ seen' = seen
      /\ \A f \in Entries \ {e} : entry'[f] = entry[f]
  BY <1>2, <1>3 DEF Control, Owned, MemoryOK, Holds
<1>5. AtOnce(t)'
  BY <1>2 DEF AtOnce
<1>6. Mirrored(e)'
  BY <1>2, <1>4 DEF Mirrored, Rebuilding
<1>7. pc'[t] # "retire" /\ pc'[t] \in Holding
  BY <1>1, <1>2
<1> QED BY <1>2, <1>3, <1>4, <1>5, <1>6, <1>7, OwnSync

\* Once the match is deleted nothing is stored and nothing can be.
LEMMA DeletedSync ==
    ASSUME Sync, env = Gone, UNCHANGED store, NEW movers, Frame(movers),
           \A u \in movers : AtOnce(u)',
           \A e \in Entries : entry'[e].loaded => entry[e].loaded /\ entry'[e].env = entry[e].env
    PROVE  Sync'
<1>1. \A u \in Threads : AtOnce(u)'
  BY AtOnceKept
<1>2. Deleted'
  BY DEF Sync, Deleted, store
<1> QED BY <1>1, <1>2 DEF Sync, store

\* The store left alone stays sound and is no step of the ledger.
LEMMA SameSound ==
    ASSUME UNCHANGED store
    PROVE  LedgerStep /\ (Sound => Sound') /\ (Deleted => DOMAIN moves' = {} /\ DOMAIN boards' = {})
BY DEF store, LedgerStep, Sound, LobbyIsEmpty, BoardsAreListed, DealIsOne, EndsCompleted,
       SnapshotIsNear, Deleted

\* A call that is over without having changed the store.
LEMMA IdleSync ==
    ASSUME Embedded, Control, Control', Sync, NEW t \in Threads,
           pc[t] \in Holding, pc[t] # "rebuild", NEW r \in {0, reply[t]},
           table' = table, UNCHANGED store,
           Unlock(t, E(t), r) \/ Unlock(t, Behind(t), r)
    PROVE  Sync' /\ LedgerStep
<1>1. PICK rec \in {E(t), Behind(t)} : Unlock(t, rec, r)
  OBVIOUS
<1>2. /\ ent[t] \in Entries /\ rec \in Entry /\ EntryFits(rec) /\ r \in 0..GameLen
      /\ rec.board = E(t).board /\ rec.env = E(t).env /\ E(t) = entry[ent[t]]
      /\ rec.broken = E(t).broken /\ (rec.loaded => E(t).loaded)
  BY OwnEntry DEF EntryFits, Behind, Entry
<1>3. CASE env # Gone
  <2>1. Live
    BY <1>3 DEF Sync
  <2>2. ~Rebuilding(ent[t])
    BY <2>1, HolderAlone DEF Rebuilding, Holding
  <2>3. Mirrored(ent[t])
    BY <1>2, <2>1 DEF Live
  <2>4. rec.loaded => rec.env = env /\ (rec.broken \/ Follows(rec.board, moves, env))
    BY <1>2, <2>2, <2>3 DEF Mirrored
  <2>5. Sound' /\ env' = env /\ moves' = moves
    BY <2>1, SameSound DEF Live, store
  <2>6. Sync'
    BY <1>1, <1>2, <1>3, <2>4, <2>5, UnlockSync
  <2> QED BY <2>6, SameSound
<1>4. CASE env = Gone
  <2>1. /\ Frame({t}) /\ Holds(t, rec) /\ pc'[t] = (IF r = 0 THEN "idle" ELSE "answer")
    BY <1>1, <1>2, UnlockOwns DEF Control, EntryFits
  <2>2. AtOnce(t)'
    BY <2>1 DEF AtOnce
  <2>3. entry'[ent[t]] \in {NewEntry, [rec EXCEPT !.lock = None]}
    BY <1>1, <1>2 DEF Unlock, Control, Owned, MemoryOK
  <2>4. entry'[ent[t]].loaded => rec.loaded /\ entry'[ent[t]].env = rec.env
    BY <1>2, <2>3 DEF NewEntry, Entry
  <2>5. \A e \in Entries : entry'[e].loaded => entry[e].loaded /\ entry'[e].env = entry[e].env
    BY <1>2, <2>1, <2>4 DEF Holds
  <2>6. Sync'
    BY <1>4, <2>1, <2>2, <2>5, DeletedSync
  <2> QED BY <2>6, SameSound
<1> QED BY <1>3, <1>4

\* A step that leaves the store and every lock alone.
LEMMA OutsideSync ==
    ASSUME Embedded, Control, Control', Sync, UNCHANGED store,
           NEW movers, Frame(movers), Emptied,
           \A u \in movers : pc'[u] \notin Holding \cup {"retire_log"} /\ (env # Gone => Scanned(u)'),
           \A u \in Threads \ movers : seen'[u] = seen[u],
           env # Gone =>
              /\ \A u \in Threads \ movers : pc[u] \in Holding => table'[On[u]] = ent[u]
              /\ \A e \in Entries : entry[e].loaded =>
                    \/ entry'[e] = NewEntry
                    \/ /\ \E i \in Instances : table'[i] = e
                       /\ \A u \in movers : pc[u] # "rebuild"
    PROVE  Sync' /\ LedgerStep
<1>1. /\ \A u \in movers : AtOnce(u)'
      /\ \A e \in Entries : entry'[e].loaded => entry'[e] = entry[e] /\ entry'[e] # NewEntry
  BY DEF AtOnce, Holding, Emptied, NewEntry
<1>2. CASE env = Gone
  BY <1>1, <1>2, DeletedSync, SameSound
<1>3. CASE env # Gone
  <2>1. Live /\ env' = env /\ moves' = moves
    BY <1>3 DEF Sync, store
  <2>2. \A u \in Threads \ movers : pc'[u] = pc[u] /\ (pc[u] \in Holding => ent'[u] = ent[u])
    BY DEF Frame
  <2>3. \A u \in Threads : AtOnce(u)'
    BY <1>1, AtOnceKept
  <2>4. InTable'
    BY <1>1, <1>3, <2>1, <2>2 DEF InTable
  <2>5. ASSUME NEW e \in Entries PROVE Mirrored(e)'
    <3> SUFFICES ASSUME entry'[e].loaded
                 PROVE  /\ entry'[e].env = env
                        /\ Rebuilding(e)' \/ entry'[e].broken \/ Follows(entry'[e].board, moves, env)
      BY <2>1 DEF Mirrored
    <3>1. entry'[e] = entry[e] /\ entry[e].loaded /\ \A u \in movers : pc[u] # "rebuild"
      BY <1>1, <1>3
    <3>2. Rebuilding(e) => Rebuilding(e)'
      BY <2>2, <3>1 DEF Rebuilding, Holding
    <3>3. Mirrored(e)
      BY <2>1 DEF Live
    <3> QED BY <3>1, <3>2, <3>3 DEF Mirrored
  <2>6. ASSUME NEW u \in Threads PROVE Scanned(u)'
    BY <1>3, <2>1, <2>2 DEF Live, Scanned
  <2>7. Sound'
    BY <2>1, SameSound DEF Live
  <2>8. Live'
    BY <2>4, <2>5, <2>6, <2>7 DEF Live
  <2> QED BY <1>3, <2>1, <2>3, <2>8, SameSound DEF Sync
<1> QED BY <1>2, <1>3

-----------------------------------------------------------------------------
(* Steps that leave the store alone *)

\* Looking the entry up: it is the one in the table, or there is none in memory.
LEMMA LookupSync ==
    ASSUME Embedded, Control, Control', Sync, NEW t \in Threads, pc[t] \notin Holding, Lookup(t),
           pc' = [pc EXCEPT ![t] = "acquire"], UNCHANGED <<store, seen, reply, history>>
    PROVE  Sync' /\ LedgerStep
<1>1. Frame({t}) /\ Emptied /\ pc'[t] = "acquire"
  BY LookupKeeps
<1>2. Scanned(t)' /\ pc'[t] \notin Holding \cup {"retire_log"} /\ pc[t] # "rebuild"
  BY <1>1 DEF Scanned, Holding
<1>3. ASSUME env # Gone
      PROVE  /\ \A u \in Threads \ {t} : pc[u] \in Holding => table'[On[u]] = ent[u]
             /\ \A e \in Entries : entry[e].loaded => \E i \in Instances : table'[i] = e
  <2>1. Live /\ InTable
    BY <1>3 DEF Sync, Live
  <2>2. CASE table[On[t]] # None
    BY <2>1, <2>2 DEF Lookup, InTable, memory
  <2>3. CASE table[On[t]] = None
    <3>1. \A i \in Instances : table[i] = None
      BY <2>3, ParametersAssumption DEF Embedded
    <3>2. \A u \in Threads : pc[u] \notin Holding
      BY <2>1, <3>1, ParametersAssumption DEF InTable, Control, Owned, EntriesKnown
    <3>3. \A e \in Entries : ~entry[e].loaded
      BY <2>1, <3>1, ParametersAssumption DEF InTable
    <3> QED BY <3>2, <3>3
  <2> QED BY <2>2, <2>3
<1> QED BY <1>1, <1>2, <1>3, OutsideSync

\* A call that arrives, or finds its entry dropped.
LEMMA BeginSync ==
    ASSUME Embedded, Control, Control', Sync, NEW t \in Threads, Begin(t) \/ Relookup(t)
    PROVE  Sync' /\ LedgerStep
<1>1. CASE Begin(t)
  BY <1>1, LookupSync DEF Begin, Goto, Holding
<1>2. CASE Relookup(t)
  <2>1. pc' = [pc EXCEPT ![t] = "acquire"] /\ pc[t] \notin Holding
    BY <1>2 DEF Relookup, Control, Owned, MemoryOK, Holding
  <2> QED BY <1>2, <2>1, LookupSync DEF Relookup
<1> QED BY <1>1, <1>2

\* An eviction finds the entry unlocked, so nobody has a lock.
LEMMA EvictIdleSync ==
    ASSUME Embedded, Control, Control', Sync, NEW i \in Instances, EvictIdle(i)
    PROVE  Sync' /\ LedgerStep
<1>1. Frame({}) /\ Emptied
  BY EvictIdleKeeps
<1>2. /\ table[i] \in Entries /\ entry[table[i]].lock = None
      /\ entry' = [entry EXCEPT ![table[i]] = NewEntry]
      /\ UNCHANGED <<store, thread>>
  BY DEF EvictIdle, Control, Owned, MemoryOK
<1>3. ASSUME env # Gone
      PROVE  /\ \A u \in Threads : pc[u] \notin Holding
             /\ \A e \in Entries : entry[e].loaded => entry'[e] = NewEntry
  <2>1. InTable
    BY <1>3 DEF Sync, Live
  <2>2. \A u \in Threads : pc[u] \in Holding => ent[u] = table[i] /\ entry[ent[u]].lock = u
    BY <2>1, ParametersAssumption DEF InTable, Embedded, Control, Owned, LocksHeld
  <2>3. \A e \in Entries : entry[e].loaded => e = table[i]
    BY <2>1 DEF InTable, Embedded
  <2> QED BY <1>2, <2>2, <2>3, ParametersAssumption DEF Control, Owned, MemoryOK
<1>4. \A u \in Threads : seen'[u] = seen[u]
  BY <1>2 DEF thread
<1> QED BY <1>1, <1>2, <1>3, <1>4, OutsideSync

\* A crash takes every entry that is loaded.
LEMMA CrashSync ==
    ASSUME Embedded, Control, Control', Sync, NEW i \in Instances, Crash(i)
    PROVE  Sync' /\ LedgerStep
<1>1. Threads = {t \in Threads : On[t] = i}
  BY ParametersAssumption DEF Embedded
<1>2. Frame(Threads) /\ Emptied /\ \A t \in Threads : pc'[t] = "idle"
  BY <1>1, CrashKeeps
<1>3. \A u \in Threads : pc'[u] \notin Holding \cup {"retire_log"} /\ Scanned(u)'
  BY <1>2 DEF Scanned, Holding
<1>4. \A e \in Entries : e = table[i] => entry'[e] = NewEntry
  BY DEF Crash
<1>5. ASSUME env # Gone PROVE \A e \in Entries : entry[e].loaded => entry'[e] = NewEntry
  BY <1>4, <1>5 DEF Sync, Live, InTable, Embedded
<1>6. UNCHANGED store
  BY DEF Crash
<1> QED BY <1>2, <1>3, <1>5, <1>6, OutsideSync

\* A step of a thread outside the lock that leaves the entries alone.
LEMMA AwaySync ==
    ASSUME Embedded, Control, Control', Sync, NEW t \in Threads, pc[t] \notin Holding,
           NEW p \in {"idle", "retire"}, pc' = [pc EXCEPT ![t] = p], ent' = ent,
           NEW v \in Nat, seen' = seen \/ seen' = [seen EXCEPT ![t] = v],
           reply' = reply \/ reply' = [reply EXCEPT ![t] = 0],
           UNCHANGED <<store, memory>>,
           p = "retire" => seen'[t] = env.version /\ env.status \in {"lobby", "completed", "abandoned"}
    PROVE  Sync' /\ LedgerStep
<1>1. p \in PC /\ p \notin Holding \cup {"acquire"}
  BY DEF PC, Holding
<1>2. Frame({t}) /\ Emptied /\ pc'[t] = p
  BY <1>1, OutsideOwns DEF Control
<1>3. env' = env /\ table' = table /\ entry' = entry
  BY DEF store, memory
<1>4. Scanned(t)' /\ pc'[t] \notin Holding \cup {"retire_log"}
  <2>1. env.version \in Nat
    BY EnvelopeFields DEF Control, StoreOK
  <2> QED BY <1>1, <1>2, <1>3, <2>1 DEF Scanned
<1>5. \A u \in Threads \ {t} : seen'[u] = seen[u]
  BY DEF Control, Owned, MemoryOK
<1>6. ASSUME env # Gone
      PROVE  /\ \A u \in Threads : pc[u] \in Holding => table'[On[u]] = ent[u]
             /\ \A e \in Entries : entry[e].loaded => \E i \in Instances : table'[i] = e
  BY <1>3, <1>6 DEF Sync, Live, InTable
<1>7. pc[t] # "rebuild" /\ UNCHANGED store
  BY DEF Holding
<1> QED BY <1>2, <1>4, <1>5, <1>6, <1>7, OutsideSync

\* A match that has come to rest is scanned; a player hears.
LEMMA ScanSync ==
    ASSUME Embedded, Control, Control', Sync, NEW t \in Threads, ScanRetired(t) \/ Answer(t)
    PROVE  Sync' /\ LedgerStep
<1>1. CASE ScanRetired(t)
  <2>1. env.version \in Nat
    BY EnvelopeFields DEF Control, StoreOK
  <2>2. /\ pc' = [pc EXCEPT ![t] = "retire"] /\ seen' = [seen EXCEPT ![t] = env.version]
        /\ ent' = ent /\ reply' = reply /\ pc[t] \notin Holding /\ UNCHANGED <<store, memory>>
        /\ env.status \in {"lobby", "completed", "abandoned"}
    BY <1>1 DEF ScanRetired, Goto, Holding
  <2>3. seen'[t] = env.version
    BY <2>1, <2>2 DEF Control, Owned, MemoryOK
  <2> QED BY <2>1, <2>2, <2>3, AwaySync
<1>2. CASE Answer(t)
  <2>1. /\ pc' = [pc EXCEPT ![t] = "idle"] /\ seen' = seen /\ 0 \in Nat
        /\ ent' = ent /\ reply' = [reply EXCEPT ![t] = 0]
        /\ pc[t] \notin Holding /\ UNCHANGED <<store, memory>>
    BY <1>2 DEF Answer, Goto, Holding
  <2> QED BY <2>1, AwaySync
<1> QED BY <1>1, <1>2

\* A step under the lock, or taking it, that leaves the store alone.
LEMMA MoveOnSync ==
    ASSUME Embedded, Control, Control', Sync, NEW t \in Threads,
           ent[t] \in Entries, entry[ent[t]].lock \in {None, t},
           env # Gone => table[On[t]] = ent[t],
           NEW rec \in Entry, EntryFits(rec), rec.lock = t,
           NEW p \in {"load", "rebuild", "locked"},
           entry' = [entry EXCEPT ![ent[t]] = rec], Goto(t, p),
           UNCHANGED <<store, table, ent, seen, reply, history>>,
           p # "load" => rec.loaded,
           Live /\ env # Gone /\ rec.loaded =>
              /\ rec.env = env
              /\ p = "rebuild" \/ rec.broken \/ Follows(rec.board, moves, env),
           env = Gone /\ rec.loaded =>
              entry[ent[t]].loaded /\ rec.env = entry[ent[t]].env
    PROVE  Sync' /\ LedgerStep
<1>1. env' = env /\ moves' = moves /\ UNCHANGED store /\ UNCHANGED <<table, ent, seen>>
  BY DEF store
<1>2. reply[t] \in 0..GameLen /\ reply' = [reply EXCEPT ![t] = reply[t]]
  BY DEF Control, Owned, MemoryOK
<1>3. CASE env # Gone
  <2>1. Live /\ Sound'
    BY <1>1, <1>3, SameSound DEF Sync, Live
  <2>2. rec.loaded => /\ rec.env = env
                      /\ p = "rebuild" \/ rec.broken \/ Follows(rec.board, moves', env)
    BY <1>1, <1>3, <2>1
  <2>3. table[On[t]] = ent[t] /\ p \in {"load", "rebuild", "locked", "touch"}
    BY <1>3
  <2>4. Sync'
    BY <1>1, <1>2, <1>3, <2>1, <2>2, <2>3, HoldSync
  <2> QED BY <1>1, <2>4, SameSound
<1>4. CASE env = Gone
  <2>1. Frame({t}) /\ Holds(t, rec) /\ pc'[t] = p
    BY MoveOnKeeps
  <2>2. ent'[t] = ent[t] /\ entry'[ent[t]] = rec /\ E(t)' = rec
    BY <1>1 DEF Control, Owned, MemoryOK, E
  <2>3. AtOnce(t)'
    BY <2>1, <2>2 DEF AtOnce
  <2>4. \A e \in Entries : entry'[e].loaded => entry[e].loaded /\ entry'[e].env = entry[e].env
    BY <1>4, <2>1, <2>2 DEF Holds
  <2>5. Sync'
    BY <1>1, <1>4, <2>1, <2>3, <2>4, DeletedSync
  <2> QED BY <1>1, <2>5, SameSound
<1> QED BY <1>3, <1>4

\* The lock is taken on an entry that mirrors the store, or is to be filled.
LEMMA AcquireSync ==
    ASSUME Embedded, Control, Control', Sync, NEW t \in Threads, Acquire(t)
    PROVE  Sync' /\ LedgerStep
<1> DEFINE e == ent[t]
           rec == [entry[e] EXCEPT !.lock = t]
           p == IF ~rec.loaded \/ rec.broken THEN "load" ELSE "locked"
<1>1. e \in Entries /\ entry[e].lock = None /\ table[On[t]] = e
  BY DEF Acquire, Control, Owned, EntriesKnown
<1>2. entry[e] \in Entry /\ Len(entry[e].board.played) <= GameLen
  BY <1>1 DEF Control, Owned, MemoryOK, BoardsFit
<1>3. /\ rec \in Entry /\ EntryFits(rec) /\ rec.lock = t
      /\ rec.board = entry[e].board /\ rec.env = entry[e].env
      /\ rec.loaded = entry[e].loaded /\ rec.broken = entry[e].broken
  BY <1>2 DEF EntryFits, Entry
<1>4. /\ entry' = [entry EXCEPT ![e] = rec] /\ Goto(t, p)
      /\ UNCHANGED <<store, table, ent, seen, reply, history>>
  BY DEF Acquire, RedisEnabled, Embedded
<1>5. p \in {"load", "rebuild", "locked"} /\ (p # "load" => rec.loaded)
  OBVIOUS
<1> HIDE DEF p, rec
<1>6. ASSUME Live, env # Gone, rec.loaded
      PROVE  rec.env = env /\ (rec.broken \/ Follows(rec.board, moves, env))
  <2>1. ~Rebuilding(e)
    BY <1>1, <1>6, Alone DEF Rebuilding, Holding, Acquire
  <2>2. Mirrored(e)
    BY <1>1, <1>6 DEF Live
  <2> QED BY <1>3, <1>6, <2>1, <2>2 DEF Mirrored
<1> QED BY <1>1, <1>3, <1>4, <1>5, <1>6, MoveOnSync

\* The envelope is read; a match in the lobby has no board to rebuild.
LEMMA LoadSync ==
    ASSUME Embedded, Control, Control', Sync, NEW t \in Threads, LoadEnvelope(t)
    PROVE  Sync' /\ LedgerStep
<1>1. /\ pc[t] \in Holding /\ pc[t] # "rebuild" /\ UNCHANGED store /\ UNCHANGED history
      /\ 0 \in {0, reply[t]} /\ 0 \in 0..GameLen
  BY ParametersAssumption DEF LoadEnvelope, Holding
<1>2. CASE env = Gone /\ table' = [table EXCEPT ![On[t]] = None] /\ Unlock(t, NewEntry, 0)
  <2>1. NewEntry \in Entry /\ Len(NewEntry.board.played) <= GameLen
    BY EmptyTypes, ParametersAssumption
  <2>2. /\ Frame({t}) /\ Holds(t, NewEntry) /\ pc'[t] = "idle"
    BY <1>1, <1>2, <2>1, UnlockOwns DEF Control
  <2>3. AtOnce(t)'
    BY <2>2 DEF AtOnce
  <2>4. entry'[ent[t]] \in {NewEntry, [NewEntry EXCEPT !.lock = None]} /\ ent[t] \in Entries
    BY <1>1, <1>2, OwnEntry DEF Unlock, Control, Owned, MemoryOK
  <2>5. ~entry'[ent[t]].loaded
    BY <2>4 DEF NewEntry
  <2>6. \A e \in Entries : entry'[e].loaded => entry[e].loaded /\ entry'[e].env = entry[e].env
    BY <2>2, <2>5 DEF Holds
  <2> QED BY <1>1, <1>2, <2>2, <2>3, <2>6, DeletedSync, SameSound
<1>3. CASE UNCHANGED table /\ Unlock(t, Behind(t), 0)
  BY <1>1, <1>3, IdleSync
<1>4. ASSUME /\ env # Gone
             /\ entry' = [entry EXCEPT ![ent[t]] = [@ EXCEPT !.loaded = TRUE, !.broken = FALSE,
                                                              !.env = env, !.board = NoBoard]]
             /\ Goto(t, IF env.status = "lobby" THEN "locked" ELSE "rebuild")
             /\ UNCHANGED <<table, ent, seen, reply>>
      PROVE  Sync' /\ LedgerStep
  <2> DEFINE rec == [entry[ent[t]] EXCEPT !.loaded = TRUE, !.broken = FALSE,
                                          !.env = env, !.board = NoBoard]
             p == IF env.status = "lobby" THEN "locked" ELSE "rebuild"
  <2>1. ent[t] \in Entries /\ entry[ent[t]] \in Entry /\ entry[ent[t]].lock = t
    BY <1>1, OwnEntry DEF EntryFits
  <2>2. env \in Envelope \cup {Gone} /\ NoBoard \in Board
    BY EmptyTypes DEF Control, StoreOK
  <2>3. /\ rec \in Entry /\ rec.lock = t /\ rec.env = env /\ rec.board = NoBoard
        /\ rec.loaded
    BY <2>1, <2>2 DEF Entry
  <2>4. /\ entry' = [entry EXCEPT ![ent[t]] = rec] /\ Goto(t, p)
        /\ p \in {"load", "rebuild", "locked"} /\ p # "load"
        /\ p = "rebuild" \/ env.status = "lobby"
    BY <1>4
  <2> HIDE DEF rec, p
  <2>5. EntryFits(rec)
    BY <2>3, EmptyTypes, ParametersAssumption DEF EntryFits
  <2>6. UNCHANGED <<store, table, ent, seen, reply, history>>
    BY <1>1, <1>4
  <2>7. ASSUME Live, env.status = "lobby" PROVE Follows(rec.board, moves, env)
    BY <2>3, <2>7, EmptyTypes DEF Live, Sound, LobbyIsEmpty, Follows
  <2>8. table[On[t]] = ent[t]
    BY <1>1, <1>4 DEF Sync, Live, InTable
  <2> QED BY <1>4, <2>1, <2>3, <2>4, <2>5, <2>6, <2>7, <2>8, MoveOnSync
<1> QED BY <1>2, <1>3, <1>4 DEF LoadEnvelope

\* What a rebuild that succeeds starts from.
LEMMA StartOfRebuild ==
    ASSUME Control, NEW x \in Envelope \cup {Gone}, NEW from, from = LatestSnapshot(x.snaps),
           NEW start, start = IF x.snaps # <<>> THEN boards[from]
                              ELSE [deal |-> x.seats, played |-> <<>>],
           x.snaps # <<>> => from \in DOMAIN boards
    PROVE  /\ from \in Nat /\ start \in Board /\ Len(start.played) = from
           /\ DOMAIN start.played = 1..from
           /\ Data /\ env # Gone => PlayedIn(start, moves)
<1>1. x.snaps \in Seq(Nat) /\ x.seats \in Nat
  BY EnvelopeFields
<1>2. from \in Nat
  BY <1>1, ListsTyped
<1>3. CASE x.snaps # <<>>
  <2>1. start \in Board /\ Len(start.played) = from
    BY <1>3 DEF Control, StoreOK, BoardsOK
  <2>2. DOMAIN start.played = 1..from
    BY <2>1, LenProperties DEF Board
  <2>3. Data /\ env # Gone => PlayedIn(start, moves)
    BY <1>3 DEF Data, Agrees, StoreData
  <2> QED BY <1>2, <2>1, <2>2, <2>3
<1>4. CASE x.snaps = <<>>
  <2>1. <<>> \in Seq(Threads) /\ Len(<<>>) = 0 /\ DOMAIN <<>> = {}
    OBVIOUS
  <2>2. start = [deal |-> x.seats, played |-> <<>>] /\ from = 0
    BY <1>4 DEF LatestSnapshot
  <2>3. start \in Board
    <3>1. ASSUME NEW q \in Seq(Threads), NEW n \in Nat PROVE [deal |-> n, played |-> q] \in Board
      BY DEF Board
    <3> QED BY <1>1, <2>1, <2>2, <3>1
  <2>4. Len(start.played) = from /\ DOMAIN start.played = {}
    BY <2>1, <2>2
  <2>5. 1..from = {}
    BY <2>2
  <2>6. PlayedIn(start, moves)
    BY <2>4 DEF PlayedIn
  <2> QED BY <1>2, <2>3, <2>4, <2>5, <2>6
<1> QED BY <1>3, <1>4

\* Without a gap in the log, what runs to h from a stored snapshot is all of it.
LEMMA RunsToTheEnd ==
    ASSUME Control, Data, env # Gone, NEW from \in Nat, NEW h \in Nat, RunsTo(from, h),
           \A s \in 1..from : s \in DOMAIN moves
    PROVE  DOMAIN moves = 1..h
<1>1. ASSUME NEW s \in 1..h PROVE s \in DOMAIN moves
  BY <1>1 DEF RunsTo
<1>2. ASSUME NEW s \in DOMAIN moves PROVE s \in 1..h
  <2>1. s \in Nat /\ s >= 1 /\ 1..s \subseteq DOMAIN moves
    BY ParametersAssumption DEF Control, StoreOK, MovesOK, Data, Agrees, StoreData
  <2>2. ~ h + 1 <= s
    BY <2>1 DEF RunsTo
  <2> QED BY <2>1, <2>2
<1> QED BY <1>1, <1>2

\* A rebuild ends with every stored move, on the one deal.
LEMMA RebuildSync ==
    ASSUME Embedded, Control, Control', Data, Sync, NEW t \in Threads, Rebuild(t)
    PROVE  Sync' /\ LedgerStep
<1> DEFINE e == ent[t]
           from == LatestSnapshot(entry[e].env.snaps)
           listed == entry[e].env.snaps # <<>>
           start == IF listed THEN boards[from] ELSE [deal |-> entry[e].env.seats, played |-> <<>>]
<1>1. pc[t] \in Holding
  BY DEF Rebuild, Holding
<1>2. /\ e \in Entries /\ entry[e].lock = t /\ entry[e] \in Entry
      /\ Len(entry[e].board.played) <= GameLen /\ E(t) = entry[e] /\ E(t).loaded
  <2>1. E(t).loaded
    BY DEF Sync, AtOnce, Rebuild
  <2> QED BY <1>1, <2>1, OwnEntry DEF EntryFits
<1>3. Goto(t, "locked") /\ UNCHANGED <<store, table, ent, seen, reply, history>>
  BY DEF Rebuild
<1>4. env # Gone => table[On[t]] = e
  BY <1>1 DEF Sync, Live, InTable
<1>5. Live => entry[e].env = env
  BY <1>2 DEF Live, Mirrored
<1>6. CASE entry' = [entry EXCEPT ![e].broken = TRUE]
  <2> DEFINE rec == [entry[e] EXCEPT !.broken = TRUE]
  <2>1. /\ EntryFits(rec) /\ rec \in Entry /\ rec.lock = t /\ rec.broken
        /\ rec.env = entry[e].env /\ rec.loaded
    BY <1>2 DEF EntryFits, Entry
  <2>2. entry' = [entry EXCEPT ![e] = rec]
    BY <1>6
  <2> HIDE DEF rec
  <2> QED BY <1>2, <1>3, <1>4, <1>5, <2>1, <2>2, MoveOnSync
<1>7. ASSUME listed => from \in DOMAIN boards, NEW h \in from..GameLen, RunsTo(from, h),
             entry' = [entry EXCEPT ![e].board = Replayed(start, h)]
      PROVE  Sync' /\ LedgerStep
  <2> DEFINE rec == [entry[e] EXCEPT !.board = Replayed(start, h)]
  <2>1. entry[e].env \in Envelope \cup {Gone}
    BY <1>2 DEF Entry
  <2>2. /\ from \in Nat /\ start \in Board /\ Len(start.played) = from
        /\ DOMAIN start.played = 1..from /\ (Data /\ env # Gone => PlayedIn(start, moves))
    BY <1>7, <2>1, StartOfRebuild
  <2>3. h \in 0..GameLen /\ \A i \in (from + 1)..h : i \in DOMAIN moves
    BY <1>7, <2>2, ParametersAssumption DEF RunsTo
  <2>4. Live /\ env.status # "lobby" /\ env # Gone => start.deal = env.seats
    <3>1. CASE listed
      <4>1. \E j \in DOMAIN entry[e].env.snaps : from = entry[e].env.snaps[j]
        BY <2>1, <3>1, EnvelopeFields, ListsTyped
      <4> QED BY <1>5, <3>1, <4>1 DEF Live, Sound, DealIsOne
    <3>2. CASE ~listed
      BY <1>5, <3>2
    <3> QED BY <3>1, <3>2
  <2>5. /\ Replayed(start, h) \in Board /\ Len(Replayed(start, h).played) = h
        /\ DOMAIN Replayed(start, h).played = 1..h
    BY <2>2, <2>3, ReplayedTypes DEF Control, StoreOK
  <2>6. Replayed(start, h).deal = start.deal
    BY <2>2 DEF Replayed, Board
  <2>7. env # Gone => DOMAIN moves = 1..h
    <3>1. h \in Nat
      BY <2>3
    <3>2. env # Gone => \A s \in 1..from : s \in DOMAIN moves
      BY <2>2 DEF PlayedIn
    <3> QED BY <1>7, <2>2, <3>1, <3>2, RunsToTheEnd
  <2>8. Live /\ env # Gone => Follows(Replayed(start, h), moves, env)
    BY <2>4, <2>5, <2>6, <2>7 DEF Follows
  <2> HIDE DEF start, from, listed
  <2>9. /\ EntryFits(rec) /\ rec \in Entry /\ rec.lock = t /\ rec.board = Replayed(start, h)
        /\ rec.env = entry[e].env /\ rec.loaded
    BY <1>2, <2>3, <2>5 DEF EntryFits, Entry
  <2>10. entry' = [entry EXCEPT ![e] = rec]
    BY <1>7
  <2> HIDE DEF rec
  <2> QED BY <1>2, <1>3, <1>4, <1>5, <2>8, <2>9, <2>10, MoveOnSync
<1> QED BY <1>6, <1>7 DEF Rebuild

\* A call that changes nothing.
LEMMA LeaveSync ==
    ASSUME Embedded, Control, Control', Sync, NEW t \in Threads, LeaveUnchanged(t)
    PROVE  Sync' /\ LedgerStep
<1>1. /\ pc[t] \in Holding /\ pc[t] # "rebuild" /\ UNCHANGED store /\ table' = table
      /\ 0 \in {0, reply[t]} /\ Unlock(t, E(t), 0)
  BY DEF LeaveUnchanged, Holding
<1> QED BY <1>1, IdleSync

-----------------------------------------------------------------------------
(* Steps that write the store *)

\* What a thread with the lock and the entry sees is the match as it is.
LEMMA SeesTheMatch ==
    ASSUME Embedded, Control, Sync, env # Gone, NEW t \in Threads, pc[t] \in {"locked", "touch"}
    PROVE  /\ E(t).loaded /\ E(t).env = env
           /\ E(t).broken \/ Follows(E(t).board, moves, env)
<1>1. Live /\ pc[t] \in Holding /\ E(t).loaded
  BY DEF Sync, AtOnce, Holding
<1>2. ent[t] \in Entries /\ ~Rebuilding(ent[t])
  BY <1>1, HolderAlone DEF Rebuilding, Holding
<1>3. Mirrored(ent[t])
  BY <1>1, <1>2 DEF Live
<1> QED BY <1>1, <1>2, <1>3 DEF Mirrored, E

\* Once the match is deleted, no thread has it in play.
LEMMA NotInPlay ==
    ASSUME Control, Sync, env = Gone, NEW t \in Threads, pc[t] \in {"locked", "touch"}
    PROVE  E(t).env.status # "active" /\ ~VersionIs(E(t).env.version)
<1>1. E(t).loaded /\ pc[t] \in Holding
  BY DEF Sync, AtOnce, Holding
<1>2. ent[t] \in Entries
  BY <1>1, OwnEntry
<1> QED BY <1>1, <1>2 DEF Sync, Deleted, E, VersionIs

\* The board with one move more.
LEMMA NextBoardIs ==
    ASSUME Control, NEW t \in Threads, ent[t] \in Entries, E(t).env.status # "lobby"
    PROVE  /\ NextSeq(t) \in Nat /\ NextSeq(t) > 0
           /\ DOMAIN E(t).board.played = 1..(NextSeq(t) - 1)
           /\ DOMAIN NextBoard(t).played = 1..NextSeq(t)
           /\ Len(NextBoard(t).played) = NextSeq(t)
           /\ NextBoard(t).deal = E(t).board.deal
<1>1. /\ E(t).board \in Board /\ Len(E(t).board.played) \in Nat
      /\ NextSeq(t) = Len(E(t).board.played) + 1 /\ NextBoard(t) \in Board
      /\ NextBoard(t).played = Append(E(t).board.played, t)
  BY NextTypes DEF Control, Owned
<1>2. DOMAIN E(t).board.played = 1..Len(E(t).board.played)
  BY <1>1, LenProperties DEF Board
<1>3. Len(NextBoard(t).played) = NextSeq(t)
  BY <1>1, AppendProperties DEF Board
<1>4. DOMAIN NextBoard(t).played = 1..NextSeq(t)
  BY <1>1, <1>3, LenProperties DEF Board
<1>5. NextBoard(t).deal = E(t).board.deal
  BY <1>1 DEF NextBoard, Board
<1> QED BY <1>1, <1>2, <1>3, <1>4, <1>5

\* A move stored after the last one is accepted.
LEMMA AcceptStep ==
    ASSUME Control, NEW t \in Threads, NEW n \in 1..GameLen, DOMAIN moves = 1..(n - 1),
           env.status = "active", moves' = Put(moves, n, t),
           env'.status = IF n = GameLen THEN "completed" ELSE "active"
    PROVE  LedgerStep
<1>1. n \in Nat /\ n - 1 \in Nat /\ GameLen \in Nat
  BY ParametersAssumption
<1>2. moves = [s \in 1..(n - 1) |-> moves[s]] /\ \A s \in 1..(n - 1) : moves[s] \in Threads
  BY DEF Control, StoreOK, MovesOK
<1>3. moves \in [1..(n - 1) -> Threads]
  BY <1>2
<1>4. moves \in Seq(Threads)
  BY <1>1, <1>3, SeqDef
<1>5. Len(moves) = n - 1
  BY <1>1, <1>4, LenProperties
<1>6. /\ Append(moves, t) \in Seq(Threads) /\ Len(Append(moves, t)) = n
      /\ \A i \in 1..(n - 1) : Append(moves, t)[i] = moves[i]
      /\ Append(moves, t)[n] = t
  <2>1. /\ Append(moves, t) \in Seq(Threads) /\ Len(Append(moves, t)) = Len(moves) + 1
        /\ \A i \in 1..Len(moves) : Append(moves, t)[i] = moves[i]
        /\ Append(moves, t)[Len(moves) + 1] = t
    BY <1>4, AppendProperties
  <2>2. Len(moves) + 1 = n
    BY <1>1, <1>5
  <2> QED BY <1>5, <2>1, <2>2
<1>7. DOMAIN moves \cup {n} = 1..n
  BY <1>1
<1>8. Put(moves, n, t) \in [1..n -> Threads] /\ \A i \in 1..n : Put(moves, n, t)[i] = IF i = n THEN t ELSE moves[i]
  BY <1>1, <1>2, <1>7 DEF Put
<1>9. Put(moves, n, t) \in Seq(Threads)
  BY <1>1, <1>8, SeqDef
<1>10. Len(Put(moves, n, t)) = n
  BY <1>1, <1>8, <1>9, LenProperties
<1>11. \A i \in 1..n : Put(moves, n, t)[i] = Append(moves, t)[i]
  BY <1>1, <1>6, <1>8
<1>12. moves' = Append(moves, t)
  BY <1>6, <1>9, <1>10, <1>11, SeqEqual
<1>13. Ledger!Accept(t)
  BY <1>1, <1>5, <1>6, <1>12 DEF Ledger!Accept
<1> QED BY <1>13 DEF LedgerStep, Ledger!Next

\* The ordinary move, stored next to the envelope.
LEMMA AppendMoveSync ==
    ASSUME Embedded, Control, Control', Sync, NEW t \in Threads, AppendMove(t)
    PROVE  Sync' /\ LedgerStep
<1> DEFINE n == NextSeq(t)
<1>1. /\ pc[t] = "locked" /\ pc[t] \in Holding /\ pc[t] # "rebuild" /\ MayApply(t) /\ ~NeedsCommit(t)
      /\ env' = env /\ boards' = boards /\ table' = table /\ 0 \in {0, reply[t]}
  BY DEF AppendMove, Holding
<1>2. env # Gone
  BY <1>1, NotInPlay DEF MayApply
<1>3. Live
  BY <1>2 DEF Sync
<1>4. /\ E(t).loaded /\ E(t).env = env /\ Follows(E(t).board, moves, env)
      /\ env.status = "active"
  BY <1>1, <1>2, SeesTheMatch DEF MayApply
<1>5. ent[t] \in Entries /\ table[On[t]] = ent[t] /\ entry[ent[t]].lock = t
  BY <1>1, <1>3, HolderAlone
<1>6. n \in 1..GameLen /\ StoredAt(t) = n
  BY <1>1, <1>5, MoveFits
<1>7. /\ DOMAIN E(t).board.played = 1..(n - 1) /\ DOMAIN NextBoard(t).played = 1..n
      /\ Len(NextBoard(t).played) = n /\ NextBoard(t).deal = E(t).board.deal
  BY <1>4, <1>5, NextBoardIs
<1>8. DOMAIN moves = 1..(n - 1) /\ ~Stored(n)
  BY <1>4, <1>6, <1>7 DEF Follows, Stored
<1>9. CASE UNCHANGED moves /\ Unlock(t, E(t), 0)
  BY <1>1, <1>9, IdleSync DEF store
<1>10. ASSUME moves' = Put(moves, n, t),
              \/ Unlock(t, Played(t), n)
              \/ /\ entry' = [entry EXCEPT ![ent[t]] = Played(t)]
                 /\ reply' = [reply EXCEPT ![t] = n]
                 /\ Goto(t, "touch") /\ UNCHANGED <<ent, seen>>
       PROVE  Sync' /\ LedgerStep
  <2>1. n # GameLen /\ n - LatestSnapshot(env.snaps) < SnapshotEvery
    <3>1. LatestSnapshot(env.snaps) \in Nat /\ n \in Nat /\ SnapshotEvery \in Nat
      BY <1>6, ListsTyped, EnvelopeFields, ParametersAssumption DEF Control, StoreOK
    <3> QED BY <1>1, <1>4, <1>6, <1>7, <3>1 DEF NeedsCommit, Finished, SnapshotDue
  <2>2. LedgerStep
    BY <1>1, <1>4, <1>6, <1>8, <1>10, <2>1, AcceptStep
  <2>3. DOMAIN moves' = DOMAIN moves \cup {n} /\ DOMAIN moves' = 1..n
    BY <1>6, <1>8, <1>10 DEF Put
  <2>4. Follows(NextBoard(t), moves', env)
    BY <1>4, <1>7, <2>3 DEF Follows
  <2>5. Sound'
    BY <1>1, <1>3, <1>4, <2>1, <2>3
       DEF Live, Sound, LobbyIsEmpty, BoardsAreListed, DealIsOne, EndsCompleted, SnapshotIsNear
  <2>6. /\ EntryFits(Played(t)) /\ Played(t).board = NextBoard(t) /\ Played(t).env = E(t).env
        /\ Played(t).lock = t
    BY <1>1, <1>6, ParametersAssumption, WrittenEntry
  <2>7. Played(t) \in Entry /\ Played(t).loaded
    BY <1>1, <1>4, <2>6, OwnEntry DEF EntryFits, Played, Entry
  <2>8. n \in 0..GameLen
    BY <1>6
  <2> HIDE DEF n
  <2>9. CASE Unlock(t, Played(t), n)
    BY <1>1, <1>2, <1>4, <2>2, <2>4, <2>5, <2>6, <2>7, <2>8, <2>9, UnlockSync
  <2>10. CASE /\ entry' = [entry EXCEPT ![ent[t]] = Played(t)]
              /\ reply' = [reply EXCEPT ![t] = n]
              /\ Goto(t, "touch") /\ UNCHANGED <<ent, seen>>
    <3>1. UNCHANGED <<table, ent, seen>> /\ "touch" \in {"load", "rebuild", "locked", "touch"}
      BY <1>1, <2>10
    <3>2. Played(t).loaded => /\ Played(t).env = env
                              /\ "touch" = "rebuild" \/ Played(t).broken \/ Follows(Played(t).board, moves', env)
      BY <1>4, <2>4, <2>6
    <3> QED BY <1>1, <1>2, <1>5, <2>2, <2>5, <2>6, <2>7, <2>8, <2>10, <3>1, <3>2, HoldSync
  <2> QED BY <1>10, <2>9, <2>10
<1>11. ~MayLoseReply
  BY DEF Embedded
<1> QED BY <1>8, <1>9, <1>10, <1>11 DEF AppendMove

\* The envelope a commit writes lists the new snapshot as the newest.
LEMMA NextSnapshots ==
    ASSUME Control, NEW t \in Threads, ent[t] \in Entries
    PROVE  /\ LatestSnapshot(NextEnv(t).snaps) = StoredAt(t)
           /\ \A i \in DOMAIN E(t).env.snaps :
                 \E j \in DOMAIN NextEnv(t).snaps : NextEnv(t).snaps[j] = E(t).env.snaps[i]
           /\ \E j \in DOMAIN NextEnv(t).snaps : NextEnv(t).snaps[j] = StoredAt(t)
           /\ \A j \in DOMAIN NextEnv(t).snaps :
                 \/ NextEnv(t).snaps[j] = StoredAt(t)
                 \/ \E i \in DOMAIN E(t).env.snaps : NextEnv(t).snaps[j] = E(t).env.snaps[i]
<1> DEFINE old == E(t).env.snaps
           seq == StoredAt(t)
           new == NextEnv(t).snaps
<1>1. old \in Seq(Nat) /\ seq \in Nat
  BY NextTypes, EnvelopeFields DEF Control, Owned
<1>2. new = WithSnapshot(old, seq)
  BY DEF NextEnv
<1> HIDE DEF new, old, seq
<1>3. CASE old # <<>> /\ old[Len(old)] = seq
  <2>1. new = old
    BY <1>2, <1>3 DEF WithSnapshot
  <2>2. Len(old) \in DOMAIN old
    BY <1>1, <1>3, LenProperties, EmptySeq
  <2>3. LatestSnapshot(new) = seq
    BY <1>3, <2>1 DEF LatestSnapshot
  <2> QED BY <1>3, <2>1, <2>2, <2>3 DEF new, old, seq
<1>4. CASE ~(old # <<>> /\ old[Len(old)] = seq)
  <2>1. new = Append(old, seq)
    BY <1>2, <1>4 DEF WithSnapshot
  <2>2. /\ new \in Seq(Nat) /\ Len(new) = Len(old) + 1 /\ Len(old) \in Nat
        /\ \A i \in 1..Len(old) : new[i] = old[i]
        /\ new[Len(old) + 1] = seq
    BY <1>1, <2>1, AppendProperties, LenProperties
  <2>3. DOMAIN new = 1..(Len(old) + 1) /\ DOMAIN old = 1..Len(old)
    BY <1>1, <2>2, LenProperties
  <2>4. new # <<>>
    BY <2>2
  <2>5. LatestSnapshot(new) = seq
    BY <2>2, <2>4 DEF LatestSnapshot
  <2>6. \A i \in DOMAIN old : i \in DOMAIN new /\ new[i] = old[i]
    BY <2>2, <2>3
  <2>7. Len(old) + 1 \in DOMAIN new
    BY <2>2, <2>3
  <2>8. \A j \in DOMAIN new : new[j] = seq \/ j \in DOMAIN old
    BY <2>2, <2>3
  <2> QED BY <2>2, <2>5, <2>6, <2>7, <2>8 DEF new, old, seq
<1> QED BY <1>3, <1>4

\* What a commit writes on kdb: the board of a start, or of one move more.
LEMMA CommitWritesSync ==
    ASSUME Embedded, Control, Data, Sync, env # Gone, NEW t \in Threads, pc[t] = "locked",
           E(t).env.status = "lobby" \/ (MayApply(t) /\ NeedsCommit(t)),
           moves' = IF E(t).env.status = "lobby" THEN moves ELSE Put(moves, StoredAt(t), t),
           boards' = Put(boards, StoredAt(t), NextBoard(t)), env' = NextEnv(t)
    PROVE  /\ LedgerStep /\ Sound' /\ Follows(NextBoard(t), moves', env')
           /\ env'.version = env.version + 1 /\ env' # Gone
           /\ StoredAt(t) <= GameLen
<1> DEFINE n == StoredAt(t)
<1>1. pc[t] \in Holding /\ Live
  BY DEF Holding, Sync
<1>2. /\ E(t).env = env /\ (E(t).broken \/ Follows(E(t).board, moves, env))
  BY SeesTheMatch
<1>3. ent[t] \in Entries
  BY <1>1, HolderAlone
<1>4. NextEnv(t) \in Envelope /\ NextBoard(t) \in Board /\ n \in Nat
  BY <1>3, NextTypes DEF Control, Owned
<1>5. /\ env'.status = (IF Finished(NextBoard(t)) THEN "completed" ELSE "active")
      /\ env'.version = env.version + 1 /\ env'.seats = env.seats /\ env' # Gone
  BY <1>2, <1>4, EmptyTypes DEF NextEnv, Envelope, Status
<1>6. /\ LatestSnapshot(env'.snaps) = n
      /\ \A i \in DOMAIN env.snaps : \E j \in DOMAIN env'.snaps : env'.snaps[j] = env.snaps[i]
      /\ \E j \in DOMAIN env'.snaps : env'.snaps[j] = n
      /\ \A j \in DOMAIN env'.snaps : \/ env'.snaps[j] = n
                                      \/ \E i \in DOMAIN env.snaps : env'.snaps[j] = env.snaps[i]
  BY <1>2, <1>3, NextSnapshots
<1>7. /\ DOMAIN boards' = DOMAIN boards \cup {n} /\ boards'[n] = NextBoard(t)
      /\ \A s \in DOMAIN boards : s # n => boards'[s] = boards[s]
  BY DEF Put
<1> HIDE DEF n
<1>8. BoardsAreListed'
  BY <1>1, <1>6, <1>7 DEF Live, Sound, BoardsAreListed
<1>9. CASE E(t).env.status = "lobby"
  <2>1. /\ n = 0 /\ NextBoard(t).played = <<>> /\ NextBoard(t).deal = env.seats
        /\ moves' = moves /\ DOMAIN moves = {} /\ env.snaps = <<>>
    BY <1>1, <1>2, <1>3, <1>9, NextTypes DEF n, NextBoard, Control, Owned, Live, Sound, LobbyIsEmpty
  <2>2. Len(NextBoard(t).played) = 0 /\ DOMAIN NextBoard(t).played = {} /\ DOMAIN env.snaps = {}
    BY <2>1
  <2>3. env'.status = "active"
    BY <1>5, <2>2, ParametersAssumption DEF Finished
  <2>4. Ledger!Start
    BY <1>2, <1>9, <2>1, <2>3 DEF Ledger!Start
  <2>5. LedgerStep
    BY <2>4 DEF LedgerStep, Ledger!Next
  <2>6. Follows(NextBoard(t), moves', env')
    BY <1>5, <2>1, <2>2 DEF Follows
  <2>7. DealIsOne'
    BY <1>5, <1>6, <1>7, <2>1, <2>2 DEF DealIsOne
  <2>8. LobbyIsEmpty' /\ EndsCompleted' /\ SnapshotIsNear'
    BY <2>1, <2>3 DEF LobbyIsEmpty, EndsCompleted, SnapshotIsNear
  <2>9. n <= GameLen
    BY <2>1, ParametersAssumption
  <2> QED BY <1>5, <1>8, <2>5, <2>6, <2>7, <2>8, <2>9 DEF Sound, n
<1>10. CASE E(t).env.status # "lobby"
  <2>1. MayApply(t) /\ env.status = "active" /\ Follows(E(t).board, moves, env)
    BY <1>2, <1>10 DEF MayApply
  <2>2. n = NextSeq(t) /\ n \in 1..GameLen
    BY <1>3, <2>1, MoveFits DEF n
  <2>3. /\ DOMAIN E(t).board.played = 1..(n - 1) /\ DOMAIN NextBoard(t).played = 1..n
        /\ Len(NextBoard(t).played) = n /\ NextBoard(t).deal = E(t).board.deal
    BY <1>3, <1>10, <2>2, NextBoardIs
  <2>4. DOMAIN moves = 1..(n - 1) /\ moves' = Put(moves, n, t)
    BY <1>10, <2>1, <2>3 DEF Follows, n
  <2>5. env'.status = IF n = GameLen THEN "completed" ELSE "active"
    BY <1>5, <2>3 DEF Finished
  <2>6. LedgerStep
    BY <2>1, <2>2, <2>4, <2>5, AcceptStep
  <2>7. DOMAIN moves' = 1..n
    <3>1. DOMAIN moves' = DOMAIN moves \cup {n}
      BY <2>4 DEF Put
    <3>2. n \in Nat /\ n >= 1 /\ (1..(n - 1)) \cup {n} = 1..n
      BY <2>2, ParametersAssumption
    <3> QED BY <2>4, <3>1, <3>2
  <2>8. NextBoard(t).deal = env.seats
    BY <2>1, <2>3 DEF Follows
  <2>9. Follows(NextBoard(t), moves', env')
    BY <1>5, <2>3, <2>7, <2>8 DEF Follows
  <2>10. DealIsOne'
    <3>1. \A i \in DOMAIN env.snaps :
             env.snaps[i] \in DOMAIN boards /\ boards[env.snaps[i]].deal = env.seats
      BY <1>1, <2>1 DEF Live, Sound, DealIsOne, Data, Agrees, StoreData, ListedIn
    <3>2. \A i \in DOMAIN env.snaps : boards'[env.snaps[i]].deal = env.seats
      BY <1>7, <2>8, <3>1
    <3> QED BY <1>5, <1>6, <1>7, <2>8, <3>2 DEF DealIsOne
  <2>11. LobbyIsEmpty'
    BY <2>5 DEF LobbyIsEmpty
  <2>12. EndsCompleted'
    BY <1>1, <2>1, <2>2, <2>4, <2>5, <2>7 DEF Live, Sound, EndsCompleted
  <2>13. SnapshotIsNear'
    BY <1>6, <2>2, <2>7, ParametersAssumption DEF SnapshotIsNear
  <2>14. n <= GameLen
    BY <2>2, ParametersAssumption
  <2> QED BY <1>5, <1>8, <2>6, <2>9, <2>10, <2>11, <2>12, <2>13, <2>14 DEF Sound, n
<1> QED BY <1>9, <1>10

\* The one transaction of kdb.
LEMMA CommitSnapshotSync ==
    ASSUME Embedded, Control, Control', Data, Sync, NEW t \in Threads, CommitSnapshot(t)
    PROVE  Sync' /\ LedgerStep
<1>1. /\ pc[t] = "locked" /\ pc[t] \in Holding /\ pc[t] # "rebuild" /\ table' = table
      /\ E(t).env.status = "lobby" \/ (MayApply(t) /\ NeedsCommit(t))
      /\ 0 \in {0, reply[t]}
  BY DEF CommitSnapshot, Holding
<1>2. CASE UNCHANGED store /\ (Unlock(t, E(t), 0) \/ Unlock(t, Behind(t), 0))
  BY <1>1, <1>2, IdleSync
<1>3. ASSUME VersionIs(E(t).env.version),
             moves' = IF E(t).env.status = "lobby" THEN moves ELSE Put(moves, StoredAt(t), t),
             boards' = Put(boards, StoredAt(t), NextBoard(t)), env' = NextEnv(t),
             Unlock(t, Committed(t), Reported(t))
      PROVE  Sync' /\ LedgerStep
  <2>1. env # Gone
    BY <1>3 DEF VersionIs
  <2>2. /\ LedgerStep /\ Sound' /\ Follows(NextBoard(t), moves', env')
        /\ env'.version = env.version + 1 /\ env' # Gone /\ StoredAt(t) <= GameLen
    BY <1>1, <1>3, <2>1, CommitWritesSync
  <2>3. /\ EntryFits(Committed(t)) /\ Committed(t).board = NextBoard(t)
        /\ Committed(t).env = NextEnv(t) /\ Reported(t) \in 0..GameLen
    BY <1>1, <2>2, WrittenEntry
  <2>4. Committed(t) \in Entry
    BY <2>3 DEF EntryFits
  <2>5. Sync'
    BY <1>1, <1>3, <2>1, <2>2, <2>3, <2>4, UnlockSync
  <2> QED BY <2>2, <2>5
<1> QED BY <1>2, <1>3 DEF CommitSnapshot, Embedded

\* An edit of the envelope leaves the log sound, and is a step of the ledger or none.
LEMMA EditSound ==
    ASSUME Control, Live, env # Gone, NEW status \in Status, <<env.status, status>> \in Edits,
           env' = Bumped(env, status), moves' = moves, boards' = boards
    PROVE  /\ Sound' /\ LedgerStep /\ env' # Gone /\ env'.version = env.version + 1
           /\ \A b : Follows(b, moves, env) => Follows(b, moves', env')
<1>1. /\ env' \in Envelope /\ env'.snaps = env.snaps
  BY BumpedTypes DEF Control, StoreOK
<1>2. env \in Envelope
  BY DEF Control, StoreOK
<1>3. /\ env'.status = status /\ env'.version = env.version + 1
      /\ env.status # "lobby" => env'.seats = env.seats
      /\ env' # Gone
  BY <1>1, <1>2, EmptyTypes DEF Bumped, Envelope, Status
<1>4. (status = "lobby" <=> env.status = "lobby") /\ (env.status = "completed" => status = "completed")
  BY DEF Edits, Status
<1>5. Sound'
  BY <1>1, <1>3, <1>4
     DEF Live, Sound, LobbyIsEmpty, BoardsAreListed, DealIsOne, EndsCompleted, SnapshotIsNear
<1>6. \A b : Follows(b, moves, env) => Follows(b, moves', env')
  BY <1>3, <1>4 DEF Follows
<1>7. LedgerStep
  <2>1. \/ env'.status = env.status
        \/ Ledger!Pause \/ Ledger!Resume \/ Ledger!Abandon
    BY <1>3 DEF Edits, Ledger!Pause, Ledger!Resume, Ledger!Abandon
  <2> QED BY <2>1 DEF LedgerStep, Ledger!Next
<1> QED BY <1>3, <1>5, <1>6, <1>7

\* An edit under the lock.
LEMMA WriteEnvelopeSync ==
    ASSUME Embedded, Control, Control', Sync, NEW t \in Threads, pc[t] \in {"locked", "touch"},
           NEW status \in Status, <<E(t).env.status, status>> \in Edits,
           NEW r \in {0, reply[t]},
           WriteEnvelope(t, Bumped(E(t).env, status),
                         [E(t) EXCEPT !.env = Bumped(E(t).env, status)], r, r)
    PROVE  Sync' /\ LedgerStep
<1>1. pc[t] \in Holding /\ pc[t] # "rebuild" /\ table' = table /\ moves' = moves /\ boards' = boards
  BY DEF Holding, WriteEnvelope
<1>2. CASE UNCHANGED env /\ (Unlock(t, E(t), r) \/ Unlock(t, Behind(t), r))
  BY <1>1, <1>2, IdleSync DEF store
<1>3. ASSUME VersionIs(E(t).env.version), env' = Bumped(E(t).env, status),
             Unlock(t, [E(t) EXCEPT !.env = Bumped(E(t).env, status)], r)
      PROVE  Sync' /\ LedgerStep
  <2> DEFINE rec == [E(t) EXCEPT !.env = Bumped(E(t).env, status)]
  <2>1. env # Gone /\ Live
    BY <1>3 DEF VersionIs, Sync
  <2>2. /\ E(t).env = env /\ (E(t).broken \/ Follows(E(t).board, moves, env))
    BY <2>1, SeesTheMatch
  <2>3. /\ Sound' /\ LedgerStep /\ env' # Gone /\ env'.version = env.version + 1
        /\ \A b : Follows(b, moves, env) => Follows(b, moves', env')
    BY <1>1, <1>3, <2>1, <2>2, EditSound
  <2>4. E(t) \in Entry /\ EntryFits(E(t)) /\ r \in 0..GameLen
    BY <1>1, OwnEntry DEF EntryFits
  <2>5. Bumped(E(t).env, status) \in Envelope
    BY <2>1, <2>2, BumpedTypes DEF Control, StoreOK
  <2>6. /\ rec \in Entry /\ EntryFits(rec) /\ rec.board = E(t).board /\ rec.broken = E(t).broken
        /\ rec.env = env'
    BY <1>3, <2>4, <2>5 DEF Entry, EntryFits
  <2>7. Unlock(t, rec, r)
    BY <1>3
  <2> HIDE DEF rec
  <2>8. rec.broken \/ Follows(rec.board, moves', env')
    BY <2>2, <2>3, <2>6
  <2>9. Sync'
    BY <1>1, <2>1, <2>3, <2>4, <2>6, <2>7, <2>8, UnlockSync
  <2> QED BY <2>3, <2>9
<1> QED BY <1>2, <1>3 DEF WriteEnvelope, Embedded

\* The saves, and the touch after a move.
LEMMA EditSync ==
    ASSUME Embedded, Control, Control', Sync, NEW t \in Threads, SaveLocked(t) \/ Touch(t)
    PROVE  Sync' /\ LedgerStep
<1>1. CASE SaveLocked(t)
  <2>1. PICK status \in Status :
           /\ <<E(t).env.status, status>> \in Edits
           /\ WriteEnvelope(t, Bumped(E(t).env, status), [E(t) EXCEPT !.env = Bumped(E(t).env, status)], 0, 0)
    BY <1>1 DEF SaveLocked
  <2>2. pc[t] \in {"locked", "touch"} /\ 0 \in {0, reply[t]}
    BY <1>1 DEF SaveLocked
  <2> QED BY <2>1, <2>2, WriteEnvelopeSync
<1>2. CASE Touch(t)
  <2>1. E(t).env.status = "active" /\ pc[t] \in {"locked", "touch"} /\ reply[t] \in {0, reply[t]}
    BY <1>2 DEF Control, Stage, Touch
  <2>2. "active" \in Status /\ <<"active", "active">> \in Edits
    BY DEF Status, Edits
  <2>3. WriteEnvelope(t, Bumped(E(t).env, "active"),
                      [E(t) EXCEPT !.env = Bumped(E(t).env, "active")], reply[t], reply[t])
    BY <1>2, <2>1 DEF Touch
  <2> QED BY <2>1, <2>2, <2>3, WriteEnvelopeSync
<1> QED BY <1>1, <1>2

-----------------------------------------------------------------------------
(* Deleting the match *)

\* What kdb counts on from the newest snapshot is the whole log, and what the
\* envelope lists is every snapshot.
LEMMA DropsAll ==
    ASSUME Control, Data, Live, env # Gone, DropCounted
    PROVE  /\ env' = Gone /\ DOMAIN moves' = {} /\ DOMAIN boards' = {} /\ LedgerStep
<1>1. env \in Envelope /\ LatestSnapshot(env.snaps) \in Nat
  BY EnvelopeFields, ListsTyped DEF Control, StoreOK
<1>2. PICK h \in LatestSnapshot(env.snaps)..GameLen :
        /\ RunsTo(LatestSnapshot(env.snaps), h)
        /\ moves' = [s \in DOMAIN moves \ (1..h) |-> moves[s]]
  BY DEF DropCounted
<1>3. h \in Nat /\ h + 1 \notin DOMAIN moves
  BY <1>1, <1>2, ParametersAssumption DEF RunsTo
<1>4. ASSUME NEW s \in DOMAIN moves PROVE s \in 1..h
  <2>1. s \in Nat /\ s >= 1 /\ 1..s \subseteq DOMAIN moves
    BY ParametersAssumption DEF Control, StoreOK, MovesOK, Data, Agrees, StoreData
  <2>2. ~ h + 1 <= s
    BY <1>3, <2>1
  <2> QED BY <1>3, <2>1, <2>2
<1>5. moves' = [s \in {} |-> moves[s]]
  <2>1. DOMAIN moves \ (1..h) = {}
    BY <1>4
  <2> QED BY <1>2, <2>1
<1>6. moves' = <<>>
  <2>1. moves' \in [1..0 -> Threads]
    BY <1>5
  <2>2. moves' \in Seq(Threads)
    BY <2>1, SeqDef
  <2>3. Len(moves') = 0
    BY <2>1, <2>2, LenProperties
  <2> QED BY <2>2, <2>3, EmptySeq
<1>7. DOMAIN boards' = {}
  <2>1. boards' = [s \in DOMAIN boards \ {env.snaps[i] : i \in DOMAIN env.snaps} |-> boards[s]]
    BY DEF DropCounted
  <2>2. DOMAIN boards \ {env.snaps[i] : i \in DOMAIN env.snaps} = {}
    BY DEF Live, Sound, BoardsAreListed
  <2> QED BY <2>1, <2>2
<1>8. env' = Gone /\ env'.status = "gone" /\ env.status # "gone"
  BY <1>1, EmptyTypes DEF DropCounted, Envelope, Status
<1>9. Ledger!Delete
  BY <1>6, <1>8 DEF Ledger!Delete
<1> QED BY <1>5, <1>7, <1>8, <1>9 DEF LedgerStep, Ledger!Next

\* The host deletes the match; its entry is gone with it.
LEMMA DeleteAsHostSync ==
    ASSUME Embedded, Control, Control', Data, Sync, NEW t \in Threads, DeleteAsHost(t)
    PROVE  Sync' /\ LedgerStep
<1>1. pc[t] \in Holding /\ pc[t] # "rebuild" /\ 0 \in {0, reply[t]} /\ Transactional
  BY DEF DeleteAsHost, Holding, Embedded
<1>2. CASE UNCHANGED <<store, table>> /\ Unlock(t, Behind(t), 0)
  BY <1>1, <1>2, IdleSync
<1>3. ASSUME VersionIs(E(t).env.version), DropCounted,
             table' = [table EXCEPT ![On[t]] = None], Unlock(t, Behind(t), 0)
      PROVE  Sync' /\ LedgerStep
  <2>1. env # Gone /\ Live
    BY <1>3 DEF VersionIs, Sync
  <2>2. env' = Gone /\ DOMAIN moves' = {} /\ DOMAIN boards' = {} /\ LedgerStep
    BY <1>3, <2>1, DropsAll
  <2>3. ent[t] \in Entries /\ \A e \in Entries \ {ent[t]} : ~entry[e].loaded
    BY <1>1, <2>1, HolderAlone
  <2>4. EntryFits(Behind(t)) /\ 0 \in 0..GameLen
    BY <1>1, OwnEntry
  <2>5. Frame({t}) /\ Holds(t, Behind(t)) /\ pc'[t] = "idle"
    BY <1>1, <1>3, <2>4, UnlockOwns DEF Control, EntryFits
  <2>6. table'[On[t]] # ent[t]
    BY <1>3, <2>3, ParametersAssumption DEF Control, Owned, MemoryOK
  <2>7. entry'[ent[t]] = NewEntry
    BY <1>3, <2>3, <2>6 DEF Unlock, Control, Owned, MemoryOK
  <2>8. \A e \in Entries : ~entry'[e].loaded
    BY <2>3, <2>5, <2>7 DEF Holds, NewEntry
  <2>9. AtOnce(t)'
    BY <2>5 DEF AtOnce
  <2>10. \A u \in Threads : AtOnce(u)'
    BY <2>5, <2>9, AtOnceKept
  <2> QED BY <2>2, <2>8, <2>10 DEF Sync, Deleted
<1> QED BY <1>1, <1>2, <1>3 DEF DeleteAsHost

\* The sweep deletes a match that nobody may play on, whoever has it locked.
LEMMA RetireSync ==
    ASSUME Embedded, Control, Control', Data, Sync, NEW t \in Threads, RetireMatch(t)
    PROVE  Sync' /\ LedgerStep
<1>1. /\ pc[t] = "retire" /\ pc[t] \notin Holding /\ Transactional /\ On[t] \in Instances
      /\ ent' = ent /\ reply' = reply /\ 0 \in Nat
  BY ParametersAssumption DEF RetireMatch, Holding, Embedded
<1>2. CASE UNCHANGED <<store, memory>> /\ EndRetire(t)
  <2>1. pc' = [pc EXCEPT ![t] = "idle"] /\ seen' = [seen EXCEPT ![t] = 0]
    BY <1>2 DEF EndRetire, Goto
  <2>2. "idle" \in {"idle", "retire"} /\ "idle" # "retire"
    OBVIOUS
  <2> QED BY <1>1, <1>2, <2>1, <2>2, AwaySync
<1>3. ASSUME VersionIs(seen[t]), DropCounted, Forget(On[t]), EndRetire(t)
      PROVE  Sync' /\ LedgerStep
  <2>1. env # Gone /\ Live /\ env.version = seen[t]
    BY <1>3 DEF VersionIs, Sync
  <2>2. env' = Gone /\ DOMAIN moves' = {} /\ DOMAIN boards' = {} /\ LedgerStep
    BY <1>3, <2>1, DropsAll
  <2>3. env.status # "active"
    BY <1>1, <2>1 DEF Live, Scanned
  <2>4. /\ pc' = [pc EXCEPT ![t] = "idle"] /\ seen' = [seen EXCEPT ![t] = 0]
        /\ \E i \in Instances : Forget(i)
    BY <1>1, <1>3 DEF EndRetire, Goto
  <2>5. "idle" \in PC /\ "idle" \notin Holding \cup {"acquire"}
    BY DEF PC, Holding
  <2>6. Frame({t}) /\ Emptied /\ pc'[t] = "idle"
    BY <1>1, <2>4, <2>5, OutsideOwns DEF Control
  <2>7. AtOnce(t)'
    BY <2>6 DEF AtOnce
  <2>8. \A u \in Threads : AtOnce(u)'
    BY <2>6, <2>7, AtOnceKept
  <2>9. \A e \in Entries : entry'[e].loaded => entry'[e].env.status # "active"
    BY <2>1, <2>3, <2>6 DEF Emptied, NewEntry, Live, Mirrored
  <2> QED BY <2>2, <2>8, <2>9 DEF Sync, Deleted
<1> QED BY <1>1, <1>2, <1>3 DEF RetireMatch

-----------------------------------------------------------------------------
(* The invariant *)

\* The steps of a shared or a Mongo store are never taken.
LEMMA NeverTaken ==
    ASSUME Embedded, Sync, NEW t \in Threads
    PROVE  /\ ~RecheckMoves(t) /\ ~RecheckEnvelope(t) /\ ~CommitMove(t) /\ ~CommitBoard(t)
           /\ ~CommitEnvelope(t) /\ ~DeleteLog(t) /\ ~RetireLog(t)
<1>1. AtOnce(t) /\ Transactional
  BY DEF Sync, Embedded
<1> QED BY <1>1 DEF AtOnce, RecheckMoves, RecheckEnvelope, CommitMove, CommitBoard, CommitEnvelope,
               DeleteLog, RetireLog

LEMMA SyncInit ==
    ASSUME Init PROVE Sync
<1>1. env # Gone /\ env.status = "lobby" /\ env.snaps = <<>> /\ DOMAIN moves = {} /\ DOMAIN boards = {}
  BY EmptyTypes DEF Init
<1>2. DOMAIN env.snaps = {}
  BY <1>1
<1>3. \A t \in Threads : pc[t] = "idle"
  BY DEF Init
<1>4. \A e \in Entries : ~entry[e].loaded
  BY DEF Init, NewEntry
<1>5. Sound
  BY <1>1, <1>2 DEF Sound, LobbyIsEmpty, BoardsAreListed, DealIsOne, EndsCompleted, SnapshotIsNear
<1>6. Live
  BY <1>3, <1>4, <1>5 DEF Live, InTable, Mirrored, Scanned, Holding
<1>7. \A t \in Threads : AtOnce(t)
  BY <1>3 DEF AtOnce
<1> QED BY <1>1, <1>6, <1>7 DEF Sync

\* Each step keeps the entry and the store together, and is one of the ledger or none.
LEMMA SyncNext ==
    ASSUME Embedded, Control, Control', Data, Sync, [Next]_vars
    PROVE  Sync' /\ LedgerStep
<1>1. ASSUME NEW t \in Threads, Step(t) \/ ScanRetired(t) \/ Begin(t)
      PROVE  Sync' /\ LedgerStep
  <2>1. \/ Acquire(t) \/ Relookup(t) \/ LoadEnvelope(t) \/ Rebuild(t) \/ LeaveUnchanged(t)
        \/ AppendMove(t) \/ CommitSnapshot(t) \/ SaveLocked(t) \/ Touch(t) \/ Answer(t)
        \/ DeleteAsHost(t) \/ RetireMatch(t) \/ ScanRetired(t) \/ Begin(t)
    BY <1>1, NeverTaken DEF Step
  <2> QED BY <2>1, AcquireSync, BeginSync, LoadSync, RebuildSync, LeaveSync, AppendMoveSync,
             CommitSnapshotSync, EditSync, ScanSync, DeleteAsHostSync, RetireSync
<1>2. ASSUME NEW i \in Instances, EvictIdle(i) \/ Crash(i)
      PROVE  Sync' /\ LedgerStep
  BY <1>2, EvictIdleSync, CrashSync
<1>3. CASE UNCHANGED vars
  <2>1. UNCHANGED store /\ table' = table /\ entry' = entry /\ pc' = pc /\ ent' = ent /\ seen' = seen
        /\ reply' = reply
    BY <1>3 DEF vars, store
  <2>2. Frame({}) /\ Emptied
    BY <2>1 DEF Frame, Emptied, E
  <2>3. env # Gone =>
           /\ \A u \in Threads : pc[u] \in Holding => table'[On[u]] = ent[u]
           /\ \A e \in Entries : entry[e].loaded => \E i \in Instances : table'[i] = e
    BY <2>1 DEF Sync, Live, InTable
  <2> QED BY <2>1, <2>2, <2>3, OutsideSync
<1> QED BY <1>1, <1>2, <1>3 DEF Next

\* On kdb the entry and the store stay together, along with all that holds on any store.
LEMMA SyncHolds == ASSUME Embedded PROVE Spec => [](Control /\ Data /\ Sync)
<1>1. Init => Control /\ Data /\ Sync
  BY InitHolds, SyncInit
<1>2. Control /\ Data /\ Sync /\ [Next]_vars => (Control /\ Data /\ Sync)'
  BY NextHolds, SyncNext
<1> QED BY <1>1, <1>2, PTL DEF Spec

\* Under the lock a call sees the match as the store has it (live.go lockMatch and
\* rebuild; every write of the store is adopted before the unlock or drops the entry).
THEOREM LockedHolds == ASSUME Embedded PROVE Spec => []LockedIsCurrent
<1>1. Control /\ Sync => LockedIsCurrent
  BY SeesTheMatch DEF LockedIsCurrent, Follows
<1> QED BY <1>1, SyncHolds, PTL

\* A rebuild never applies snapshotEvery moves or more: the write that would leave
\* as many after the newest snapshot stores one with it (manager.go applyLocked).
THEOREM RebuildsAreBounded == ASSUME Embedded PROVE Spec => []RebuildIsBounded
<1>1. Sync => RebuildIsBounded
  BY DEF Sync, Live, Sound, SnapshotIsNear, RebuildIsBounded
<1> QED BY <1>1, SyncHolds, PTL

\* A game whose last move is stored is completed: the move and the status go to
\* kdb in one transaction (repository_kdb.go CommitSnapshot).
THEOREM FinishedHolds == ASSUME Embedded PROVE Spec => []FinishedIsCompleted
<1>1. Sync => FinishedIsCompleted
  BY EmptyTypes DEF Sync, Live, Sound, EndsCompleted, Deleted, FinishedIsCompleted
<1> QED BY <1>1, SyncHolds, PTL

\* A started match is played on the one deal that was made for its seats, from
\* whichever snapshot it is rebuilt.
THEOREM OneDealHolds == ASSUME Embedded PROVE Spec => []OneDeal
<1>1. Sync => OneDeal
  BY EmptyTypes DEF Sync, Live, Sound, DealIsOne, OneDeal
<1> QED BY <1>1, SyncHolds, PTL

\* A deleted match leaves no move and no snapshot behind, although kdb counts the
\* moves on from the newest snapshot and drops the snapshots by the envelope's list.
THEOREM DeletedHolds == ASSUME Embedded PROVE Spec => []DeletedLeavesNothing
<1>1. Sync => DeletedLeavesNothing
  BY DEF Sync, Deleted, DeletedLeavesNothing
<1> QED BY <1>1, SyncHolds, PTL

\* A move is stored only into a match that is in play, although Append looks at
\* nothing but the key of the move.
THEOREM MovesHold == ASSUME Embedded PROVE Spec => MovesOnlyInPlay
<1>1. Control /\ Control' /\ Data /\ Sync /\ [Next]_vars =>
         [DOMAIN moves' \subseteq DOMAIN moves \/ env.status = "active"]_vars
  <2>1. ASSUME LedgerStep PROVE DOMAIN moves' \subseteq DOMAIN moves \/ env.status = "active"
    <3>1. \/ moves' = moves \/ moves' = <<>> \/ env.status = "active"
      BY <2>1 DEF LedgerStep, Ledger!Next, Ledger!Start, Ledger!Accept, Ledger!Pause, Ledger!Resume,
                  Ledger!Abandon, Ledger!Delete
    <3>2. DOMAIN <<>> = {}
      OBVIOUS
    <3> QED BY <3>1, <3>2
  <2> QED BY <2>1, SyncNext
<1> QED BY <1>1, SyncHolds, PTL DEF Spec, MovesOnlyInPlay

\* The stored moves and the stored status implement MatchLedger, whatever
\* goroutines, failures, evictions and crashes there are.
THEOREM LedgerHolds == ASSUME Embedded PROVE Spec => ImplementsLedger
<1>1. Init => Ledger!Init
  BY DEF Init, Ledger!Init
<1>2. Control /\ Control' /\ Data /\ Sync /\ [Next]_vars => [Ledger!Next]_<<moves, env.status>>
  BY SyncNext DEF LedgerStep
<1> QED BY <1>1, <1>2, SyncHolds, PTL DEF Spec, ImplementsLedger, Ledger!Spec
=============================================================================
