# Specifications of the Zolik match runtime

Zolik is a server for card and tile games, with clients in a browser, on phones
and in a terminal. Every game is a *module*, a sequential machine whose `Apply`
is deterministic, and one runtime, `server/internal/match`, plays all of them.
The rules of a game are plain functions, and tested as such. What is hard to
test is what surrounds them: goroutines that contend for one match, a store that
fails between two writes, processes that die, players who come and go, bots that
nobody but a flag keeps going, sockets that reconnect, phones that host tables
for the internet and hand in results later. That is what is specified here.

Paths below are relative to `server/internal/` unless they begin with another
directory.

## The system

| component | state it keeps | operations | talks to |
|---|---|---|---|
| match log and store (`match/live.go`, `repository*.go`, `movelog.go`, `retention.go`) | one envelope, a move log and snapshots per match in MongoDB or kdb; a table of entries (lock, envelope, board) in each process | lock and load, append a move, commit a snapshot, write the envelope, delete, evict | every other part of the runtime calls it |
| runtime (`match/manager.go`) | none of its own besides flags | create, join, seat, start, act | module, log, bots, recorder, sockets |
| presence (`match/presence.go`, `standin.go`, `reaper.go`, `agents.go`, `ws/registry.go`) | registry of sockets, away clocks, timers, seats held by the host; pause and stand-ins in the envelope | arrive, drop, pause, resume, stand in, sweep, take a swept table up again | sockets call it, it calls the log and the bots |
| fan-out (`ws/hub.go`, `ws/registry.go`, `match/handlers.go`) | one socket per player | broadcast, greet, write | runtime, clients |
| client's socket (`client-react-native/src/hooks/useMatchSocket.ts`) | one chain of reconnection per tab, tokens, the board shown | open, renew, probe, wait, give up | handlers, fan-out |
| bots (`match/bots.go`) | `botRunning`, `botStopping`, one goroutine per match | wake, move, stop | log, governor |
| governor, capacity (`botgov`, `match/governor.go`, `capacity`) | leases of bot compute, who began which turn; a load level | decide, revoke, sweep; step | bots |
| match home (`match/handover.go`, `sync/handover.go`, `sync/node.go`) | which node writes a match | release, hand over, adopt, reclaim | bots, log, peers |
| saved games (`match/localsaves.go`, `match/offline.go`, `sync/outbox.go`, `stats/recorder.go`) | the host's record and answers, the outbox, the imported row, the result | save, consent, discard, reconcile; import, record | phone and cloud, by replication |
| relay (`relay`, `server/mobile/zolikcore/relay.go`) | tables of phones that host, and their guests | attach, open, close, carry | sockets |
| conflict authority (`sync/authority.go`) | queue of conflicts | settle | peers |
| admission (`admission`) | count of live connections | admit, release | HTTP |
| lobby and rematch (`match/rematch.go`, `seatlink.go`, `open.go`, `lobby`) | seats, reservations, waiting players | join, invite, reserve, rematch | runtime |
| notifications, score pad, statistics, accounts, replica | documents | edit, fold, send | store |
| games, AI, other clients, tools | | | |

### What is hard

* **Concurrency.** A match is an in-memory entry with a lock, and everything that
  changes it takes the lock. But what leads to a change is often decided without
  it: whether the room is empty, whether the bot loop runs, who the socket
  belongs to; and what follows from it is told without it.
* **Failure.** A snapshot commit is one transaction on kdb and three writes on
  MongoDB. A write may land and still be answered with an error. A process may
  die anywhere, and forgets timers, flags, sockets and boards.
* **Ordering.** A player's new socket arrives before the old one is known to be
  dead; a phone's new connection likewise. A timer, the host and the player all
  act on the same seat. Two broadcasts overtake one another.
* **Time.** Waits, sweeps, deadlines; each may come due at any moment relative to
  what it is about.

PROJECT.json lists the hazards one by one, each at its line.

## The modules

| module | models |
|---|---|
| `MatchLedger` | what the runtime promises of a match: an abstract ledger of moves and a status |
| `MatchLog` | how it keeps it: store, entries, locks, commits, deletes, crashes; implements `MatchLedger` |
| `MatchTable` | what the runtime promises those at a table: who may move, whom a pause is for, when it ends |
| `MatchPresence` | sockets, the pause, stand-ins, the reaper, the host; implements `MatchTable` |
| `BotLoop` | the loop that plays the bots of a match, its flag, and a match changing hands |
| `Governor` | the leases that limit what the bots compute, and the tracker that keeps a turn to the bot that began it |
| `MatchFanout` | how a board gets to the screens once the lock is let go of |
| `MatchSocket` | how a client keeps its socket to a match: onclose, renewal, probes, the background, several tabs |
| `Relay` | a phone's table on the internet: the phone's link, the hub, the guests |
| `LocalSaves` | a finished match on its way from a phone to the cloud's results |
| `MCMatchLog`, `MCMatchPresence` | values for TLC |
| `MCClient`, `MCServer` | the smaller modules side by side, each behaviour about one of them |
| `MatchLogProofs`, `MatchPresenceProofs`, `MatchSocketProofs`, `MatchFanoutProofs`, `RelayProofs` | theorems about the module of that name |
| `MatchLogKdbProofs` | theorems about `MatchLog` on kdb embedded in one process, its refinement of `MatchLedger` among them |
| `ServerProofs` | theorems about `BotLoop`, `Governor` and `LocalSaves`, and of the three side by side in `MCServer` |
| `ClientProofs` | what the parts of `MCClient` promise, promised by the whole |

An operator whose comment begins *A mistake for the checks* is not part of a
model: it is a definition as a plausible bug would leave it. Putting it in place
of the one that follows it must make a property fail, which is how each property
is known to say something about the code.

How they meet: `MatchLog` is what every call on a match does under its lock and in
the store; the other server modules take "under the lock" for one step, which
is what `MatchLog` shows it to be. `BotLoop` decides that a bot moves, `Governor` which
class it is, `MatchPresence` whose seat it may move. `MatchFanout` begins where a call has
let go of the lock. `MatchSocket` is the other end of `MatchPresence`'s sockets. `LocalSaves`
begins where `MatchLog` has recorded a match.

### MatchLog

A board is the deal and the moves played on it, since `Apply` is deterministic;
the deal is named by the number of seats it was made for, a move by the
goroutine that plays it. The store is `env`, `moves` and `boards`; a process is
its `table` and the entries it points to, with their locks. A thread is a
goroutine with one call in hand, at `pc`. Taking the lock is `Begin`, `Acquire`
and `Relookup` (the loop in `lockMatch`); with several instances
`RecheckMoves` and `RecheckEnvelope` ask the store whether the entry is stale;
`LoadEnvelope` and `Rebuild` fill it. Under the lock a call appends a move,
commits a snapshot (`CommitSnapshot` on kdb; `CommitMove`, `CommitBoard` and
`CommitEnvelope` on MongoDB), writes the envelope, deletes the match, or does
nothing. Every store call can fail without effect (`MayFail`), and can land
and be answered with an error (`MayLoseReply`). A store write and the change of
the locked entry that goes with its answer are one step, because nobody sees an
entry while it is locked. `Edits` are the envelope writes besides moves; most leave the status
as it was (a seat taken, a stand-in's comings and goings, a rematch written on a match that is over) and
only bring the version forward, which is what they do to everybody else.

### MatchPresence

One started match of a game that pauses. `handler[s]` follows the handler of a
socket through `handleWS`: registered, stand-in ended, pause ended, greeted,
serving, and on its way out through `RemoveIfCurrent` and
`SuspendOnDisconnect`, which are two steps. What is done under the match lock is
one step. Time is nondeterminism: a wait can be over, a table quiet and a
deadline passed whenever that may have come about. A write of the envelope ends
a sweep that has read the match before, because the reaper writes with the
version it read and takes the same lock.

`SweepReads` is the query of both sweeps, `SweepLooks` their look at the room and
`Abandon` the write.

The bot loop is here as far as it looks after people's seats: `BotRead` is a turn (the first
awaited seat the server plays, a check booked for the away seats before it), `StandInMoves` and
`StandInRefused` what becomes of it, `BotGivesUp` its limit for one seat and its other reasons to stop in
the middle, `LoopsOn` its limit of turns. It ends as in `BotLoop`, in two steps: it makes up its mind
(`ending`) and clears its flag later (`BotEnds`), and a wake-up in between starts nothing (`WakeBots`).
`bots.lost` is history: such a wake-up came, or the loop stopped at a limit with a look at the board still
owed. `ResumeAbandoned` readies everybody in one step, where the code makes a move for each after the
resume.

### BotLoop

Each loop goes round `top` (the turn boundary, where a stop request is heeded; at its last step it does not ask, and the mark stays for the next loop),
`read`, `thinking`, and leaves through `ending`, the time between its return and
its deferred clean-up. Calls of people wake it; `Release`, `Released`,
`ReleaseTimesOut`, `HandOver` and `Adopt` are the handover. It is assumed, as
the module contract has it, that a bot that is waited for has a move the module
takes, and the choice among moves is left out. Seats that bots play for people
are in `MatchPresence`.

### Governor

A class is a number, its weight the share of a core it keeps busy; a seat falls
back to the dearest class below that needs no lease. `SeatBot` is a bot loop asking who is to
move (`Decide` and the tracker together), `BotMoves`, `BotRefused` and `PersonMoves` are what
becomes of the move (`noteMove`), `SetLevel` revokes down to what the level allows, and
`SetMode`, `Switch`, `MatchStopped` and `SweepSeats` are what comes from outside. `began` is a
history variable: the class that made the first move of the turn under way.

### MatchFanout

A board is the number of changes it has had. A call that has changed the match
(`Change`) holds the board it is to tell of and writes it to one player at a time (`Tell`); a
new socket is registered (`Connect`), its match read (`ReadCurrent`) and sent (`Greet`), to whichever
socket the player has by then. `frames[p]` is what is on its way, and goes with
the socket. `apart[p]` is history: nothing else was in hand when the last change,
or arrival, was begun.

### MatchSocket

One player with several tabs at one table. `run[t]` is the run of a tab's effect with its
local variables, `sock[s]` a socket and how far its `onclose` has come: `ending`, `renewing`
(a token is being fetched), `probing`, `waiting` for the timer. A run that is torn down
leaves behind closures that still await something, and `torn` tells them
so. The server admits by token and by room, and gives the seat to the newest
socket; it may keep a ghost of one that is gone.

### Relay

A link is one opening of the phone's door, a connection one dial. `down[c]` and `up[c]`
are what is under way on it, `handler[c]` the relay's handler, which reads back its own
connection from the table after attaching (`Named`). `TakesOver` is a
phone that is back before the relay has missed it, `HostGone` its guests being let go, `Forget` the
second half of `hostGone`, under another lock. `heard` is history: whose tunnel a guest
has heard from.

### LocalSaves

A bundle is the set of people it names. On the phone: `Save`, `Consent`, `Discard` and
`Reconcile`, the last in two steps, since it lists the records before it takes the lock. The
outbox is replicated (`Push`) and so is the history that comes back (`Pull`). In the cloud: `PassReads`,
`Import` (the row), `CommitImport` (the moves) and `RecordResult`. `faulty` says whether
the cloud's writes may fail and the cloud stop. On the phone a hand may fail and is tried again, and a drop
(`DropBundle`) may fail without anybody asking: `Discard` forgets the game and `Reconcile` calls it uploaded
all the same, with the bundle left behind. `agreed`, `overtaken` and `undropped` are history: who has said
yes, whether `Reconcile` has acted on a record that had changed, whether a drop has failed.

## What the runs show

| run | question | bounds | verdict |
|---|---|---|---|
| `log_kdb` | does the runtime on kdb implement the ledger, whatever fails | 2 goroutines, games of 4 moves | holds |
| `log_mongo` | can two instances on one MongoDB, with commits in steps and answers lost, corrupt the log | 1 goroutine in each of 2 instances, games of 2 | holds |
| `log_mongo_failure` | is a finished match completed when a MongoDB commit fails half-way | one instance | **violated** |
| `presence_races` | can a bot play a present player's seat; can a table that is played at be swept; is a table paused only for a player it waits for | 2 players, 3 sockets; 2 with a failing store; one seat kept at a time | holds |
| `presence_live` | does every pause, return and absence come to an end, if no wake-up of the bot loop is lost; is the table one that `MatchTable` describes | 2 players, 2 sockets | holds |
| `presence_overtaken` | is a table never paused for a player who is there | 3 sockets | **violated** |
| `server` | is every call answered; is there one bot loop, and does a bot that is waited for move; do leases fit, and does a turn keep its bot; is nobody named who has not agreed, nothing called uploaded that is not in the results, and does a saved game arrive | see below | holds |
| `bots_lost` | does a bot that is waited for move, if nobody opens the table again | 2 bots, 1 person | **violated** |
| `saves_lost` | does a saved game arrive, on a cloud that fails or stops between two writes | the host alone | **violated** |
| `client` | does a tab keep one chain of reconnection, settle and come back; does a change told alone set the screens right; do relay and phone agree, and does a guest hear only from their own tunnel | see below | holds |
| `view_drift` | does a screen never drift from the match | 1 player, 2 calls | **violated** |
| `relay_stranded` | does a guest's socket go with the phone's connection | 1 guest, 2 connections | **violated** |

The violated ones state what a comment in the code says; PROJECT.json quotes it
under `findings` and says what goes wrong. Each has a short counterexample:

* `log_mongo_failure`: the last move is stored, the writes after it fail, and
  nothing completes a match whose board is finished (`match/repository.go:303`).
* `presence_overtaken`: the return is looked at before the pause it should take
  back is written (`match/presence.go:74`).
* `bots_lost`: a move lands between the loop's last look and its flag coming down
  (`match/bots.go:138`). The same loop books the stand-ins, so a table can wait for an absent player in the
  same way: `WaitInPlayEnds` excepts a lost wake-up, and is false without the exception.
* `view_drift`: two broadcasts write in the other order than their changes
  (`match/manager.go:760`).
* `relay_stranded`: the handler of the connection that was replaced returns early, and
  nobody hangs up on its guests (`relay/relay.go:227`).
* `saves_lost`: one failure is enough, because the row that stands for "already imported" is the first of three
  writes (`match/offline.go:205`).

`server` and `client` hold several small models. The parts share no variable; `part` picks one at
the start and the others stand still, so each behaviour is a behaviour of one
part and the number of states is a sum, not a product. `MCServer` and `MCClient` say in their headers
which instance each part is, and which of their behaviours are left out to keep it
small. `log` in `server` is a smaller `MatchLog` than `log_kdb`, for liveness.

### Observations

Behaviour found while modelling that contradicts nothing the code says of
itself strongly enough to be a finding:

* `Governor.SetMode` and `Sweep` forget who made the last move, so a seat's class may go up in
  the middle of a turn as far as the governor is concerned; the tracker in `match/governor.go`
  holds the turn to its bot all the same, until the seat is unheard of for
  as long as it remembers. `TurnKeepsItsBot` says so (`Forgotten`).
* `LocalSaves.Reconcile` lists before it locks, so a `Discard` or a `Consent` between the two is
  overridden by the record it listed (`overtaken` in `OutboxKeepsFaith`).
* A bundle that `Outbox.Drop` could not remove stays in the outbox for good: `Discard` ignores the error and deletes
  the record (`match/localsaves.go:325-328`), `Reconcile` logs it and calls the game uploaded (`:384-390`), and
  neither comes back to it. A game its host has discarded can still be replicated then (`undropped` in `OutboxKeepsFaith`).
* `drivenSeat` does not get to an absent seat as long as a bot, or a stand-in's seat in front of it, is waited for
  as well (`match/agents.go:143-154`). Stand-ins that take turns can go on like that; what ends it is `botMaxSteps`.
* `match/offline.go:56-58` speaks of a retry of `HandUp` that nothing performs; in a saved game `Reconcile` is the
  retry. `Kick` of the importer is never called: it runs by its ticker.
* The reaper looks at the room and writes later (`match/reaper.go:116-118`); the write carries
  the version it read, which saves tables that were played at (`MovedIsNotSwept`)
  and not those that were only sat down at.
* A relay handler whose table has lost its host before it reads it back has a nil
  connection (`relay/handlers.go:87`): `Named` ends at `dead`.

### Bounds, and why they are enough

* *Two goroutines.* Everything a call relies on is either under its lock or in
  the store; a race has one that decides and one that interferes. The third
  entry in memory lets an entry be evicted while both still know of an older one.
* *Games of four moves, rounds of three, a snapshot every two and at a round one
  after the last:* a snapshot falls due by count, by round and by the end of the
  game, and there are moves after the newest snapshot to rebuild. With two
  instances games have two moves, which leaves one ordinary move and one commit.
* *MaxVersion* bounds the edits begun, so that pausing and resuming does not run for ever, and leaves
  room for one of a match that is over; moves are bounded by the length of the game.
* *Two players* are one who is waited for and one who waits; a third would be
  another of either kind. *Three sockets* give one player a second, which is what
  overtaking and displacing need. Liveness is checked with one socket each. `presence_races` lets the host
  keep one seat at a time from stand-ins (`KeptOneAtATime`), and does not tell apart states that differ in the history of
  lost wake-ups alone (`ApartFromLost`), which only `WaitInPlayEnds` reads.
* *Three steps and one stall* in `BotLoop` let the loop end for each of its
  reasons: nobody to play, too many goes of one seat, no steps left, a stop, a
  refusal. Room for a second loop lets `OneLoop` fail.
* *Two classes and three seats* in `Governor`: full capacity takes both bots of the
  first table, half of it takes one, none of it none; the seat at another table, without people, is
  there for the order of revocation. `table` leaves out level red, `tables` changes
  of mode and of class, and their other instance has it. In `table` the operator makes those between two moves,
  never while a bot thinks; the level, the sweeps and a match's end do come then, and the
  theorems about `Governor` have no such restriction.
* *Two tabs, two tokens, three sockets* in `MatchSocket`: a tab may have a socket that is
  ending and two that are asked for; a token runs out once and is renewed once. A tab
  whose token is a seat link's cannot renew it.
* *Two boards, two calls, two handlers* in `MatchFanout` are what it takes for one frame to overtake
  another. *Two links, connections, guests and tables* in `Relay`: each is used once,
  and a second of each is what can be confused with the first; a third would
  replace the second as the second does the first. Wires hold two messages.
* *The host and one player* in `LocalSaves`: each answer, in each order with saving, handing,
  importing and forgetting. `server` has two instances. On a faulty cloud answers come before saving, drops
  may fail, a discard stops half-way only while none has, and the phone keeps the match. On a sound one
  answers stop once the result is known, the host does not say no, drops work, an import's last moments pass without
  the phone (they share nothing), and the sweeps of months do not fall between two steps of a
  moment. `saves_lost` has none of these restrictions, and the theorem has none.

### Fairness

Goroutines run on: weak fairness for each handler, loop and call. A mutex is not
denied for ever (`sync.Mutex` hands over after a millisecond): strong fairness
for `Acquire`. Timers fire and the reaper's ticker comes round:
weak fairness for a stand-in's check that finds the wait over, and for a sweep of
a table nobody is at. A bot loop takes at most `botMaxSteps` turns, so there is none over and over again
(`[]<>` of `off`); a stand-in's moves could otherwise keep one loop going for ever. No fairness is assumed of people: nobody has to connect, to
move or to decide, except in the bots' part of `server`, where somebody always opens the
table again, because `BotTurnEnds` is false without it (`bots_lost`).

`WaitInPlayEnds` is about a table whose bot loop has lost no wake-up since its last look: the loop is woken by
moves and arrivals, which nobody has to make, so after a lost one nothing looks at the table again.
`NothingIsLeaked` is about tables left alone: it assumes that from some moment
on the process does not crash and the host does not press anything.
`EveryCallReturns` is about a match that is not deleted.

A client's promises are answered and its timers fire: weak fairness for each
step of a socket's `onclose`. `ComesBack` assumes in its own text that the server is up,
has room and accepts the token for good. In `LocalSaves` the tickers of `Reconcile` and of the importer come round and the phone
is online now and then (weak fairness), and a hand that is tried again and again succeeds in the
end (strong fairness, for the step of `Reconcile` that changes the outbox): its failures are writes of a
local store. `SavedGamesArrive` assumes in its own text (`InTheEnd`) that the cloud fails, and the host asks to
forget the game, only for a while.

## What is proved

TLAPS checks the following for every value of the constants that satisfies the
module's assumption.

* `MatchLogProofs`: `TypesHold` (`TypeOK`), `HeldBoardsHold` (`HeldBoardsArePlayed`),
  `SnapshotsHold` (`SnapshotsAreExact`), `NoGap` (`LogHasNoGap`) and `AckedMovesHold`
  (`AckedMovesAreStored`), each as `Spec => []P`: for any number of goroutines,
  processes and entries, any length of game and both backends, with failures,
  lost answers and crashes. They rest on one inductive invariant in two halves.
  `Control` says who has which entry: `EntriesKnown`, `LocksHeld` (a thread past
  `lockMatch` has the lock), `Apart` (no entry is shared by two processes, which a
  crash needs), `BoardsFit` and, for each thread, `Stage`, what one step of a write leaves
  for the next. `Data` says that until the match is deleted the store, the entries
  and the answers agree (`Agrees`): every board, held or stored, is a replay of the
  log; every snapshot that any envelope lists is stored; and each thread is `Backed`,
  that is, the move it has stored on the way to a commit, the snapshot after it, and
  the move it is about to report are there. None of the five holds by itself: that
  a listed snapshot is exact after `CommitBoard` needs the move that `CommitMove`
  stored, and that needs the lock which kept the board it was numbered by. `Frame`
  carries the argument: a step of one thread leaves the other threads and the
  entries they have locked as they were, so each action is looked at once, for the
  thread that takes it (`UnlockKeeps`, `Finishes`, `MovesOn`, `GoesOn`). What `Data`
  says it says of a match that is not deleted: MongoDB deletes the row before the log.
  `RecordedOnceHolds` (`RecordedOnce`) and `CompletedStays` (`CompletedIsFinal`) have an
  invariant of their own, about versions: an entry at the stored version holds the stored envelope
  (`Versioned`), so a write that passes the check starts from the envelope of now and cannot take
  `completed` back; and at most one thread is about to report the last move, none once it has been recorded
  (`Once`). What a step may do to envelopes and replies is said once, in `Effect`.
* `MatchLogKdbProofs`, under `Embedded`, which is what kdb inside one process gives:
  `CommitSnapshot` is one transaction, no answer of the store is lost on the way to its caller
  (there is no wire), and all goroutines share one table of entries. `LockedHolds` (`LockedIsCurrent`),
  `RebuildsAreBounded` (`RebuildIsBounded`), `FinishedHolds` (`FinishedIsCompleted`), `OneDealHolds` (`OneDeal`),
  `DeletedHolds` (`DeletedLeavesNothing`), `MovesHold` (`MovesOnlyInPlay`) and `LedgerHolds`
  (`ImplementsLedger`), for any number of goroutines and entries, any length of game and
  interval of snapshots, with failing writes, evictions and crashes. On top of `Control` and `Data` comes
  `Sync`: nothing is ever half written (`AtOnce`); as long as the match is there, what is
  loaded is the entry in the table and mirrors the store unless its board is being rebuilt or could not be
  (`Live`); and once it is deleted nothing is stored and nothing in memory can be played on
  (`Deleted`). `Alone` is why one process matters: the thread that has the lock of the
  entry in the table is the only one with a lock. A write then starts
  from what is stored, which is what makes each step of the model one of the ledger's or
  none (`LedgerStep`). On a MongoDB that two processes share, a commit is three writes
  and the version check comes after the move: none of the seven holds there (with the constants of
  `log_mongo`, TLC finds each of them violated), and what does hold are the theorems of `MatchLogProofs`.
* `MatchFanoutProofs`: `FanoutTypesHold` and `QuietChangeHealsHolds` (`QuietChangeHeals`), for any number of
  players, calls and sockets. The property speaks of a moment when nothing is in
  hand; `Apartness` says what leads there: of a player who is apart, no call tells
  anything but the board as it is, no greeting has read anything else, the two do
  not happen at once, and as long as the screen is not right, a call has yet to reach the player, or a greeting is
  due, or the last frame on its way is right.
* `RelayProofs`: `NoCrossTalkHolds` (`NoCrossTalk`), for any number of links, connections, tables and
  guests. The invariant is about numbers: a table gives each once (`Numbers`), a handler is of one table for
  good and a table's host is a connection of that table (`Hosts`), so every message on a
  wire and every tunnel of a session that runs names the guest whom the number stands for at the
  connection's table (`Wires`, `LinksOK`). That a link between sessions keeps no tunnel is what makes it
  safe to dial again; that a table which is made anew has no guests is what makes it safe to count from nothing. `Kept`
  carries the argument through the seventeen actions: no step takes a number back.
  `EndsAgreeHolds` (`EndsAgree`) follows each guest along a connection. A guest who came in on the connection of the phone's session is announced on the wire, or told to the phone, or hung
  up by the phone, and never two of these (`Apart`). As long as the connection is served, a guest who is in is
  one of the three, and one who has closed and is still announced or told has their end under way
  (`Known`). This needs that a connection carries things in
  order (`Orders`: nothing about a number is ahead of its announcement), and that news and tunnels are of
  guests of that connection (`News`, `Tunnels`). With empty wires only the second stage is left, which
  is the property. `RelayTypesHold` (`RelayTypeOK`) bounds the numbers by counting: a table has given as
  many as guests have come to it (`Counted`).
* `MatchPresenceProofs`: `PresenceTypesHold` (`TypeOK`), `PausedForAwaitedHolds` (`PausedForAwaited`),
  `PresentPlayThemselvesHolds` (`PresentPlayThemselves`), `NoStolenTurnHolds` (`NoStolenTurn`),
  `MovedIsNotSweptHolds` (`MovedIsNotSwept`) and `PausedPlayerIsAwayHolds` (`PausedPlayerIsAway`), for any seats and
  sockets. What an action writes is said once (`CheckWrites`, `OnWrites`, `OffWrites`, `ResumeWrites`): a
  pause is the one there was or for an absent player, and bots come only to absent players'
  seats. That no bot is left in a present player's seat then needs to begin where the return was
  written, not where it was dealt with (`Returned`): a socket that is past `arriving`. `PausedPlayerIsAwayHolds`
  has two assumptions, that no two sockets are one player's and that the store takes every write. The run
  `presence_overtaken` is what happens without the first. Under the same two assumptions `TableHolds` (`ImplementsTable`) is the
  refinement of `MatchTable`. Its `present` are the players whose return has been written (`Present`), so the two writes
  of a return are one step of the table: the stand-in's end comes first and is a `GiveBack`, and the pause's
  end is the `Return`. What it needs beyond `Returned` and `Away` is that a table the reaper has its eye on is
  live (`Swept`), since every write that lands ends the sweep. Which steps are seen, and as
  what, is `HandlerIsSeen` for the sockets, `SeatingIsSeen` for stand-ins and the host, and `StepIsSeen` for the rest. `MatchTable`
  lets a pause be for a player whose seat has a bot, because `suspendLocked` does not look at stand-ins.
* `MatchSocketProofs`: `MatchSocketTypesHold` (`MatchSocketTypeOK`), `OneChainHolds` (`OneChain`) and
  `LastWordIsFinalHolds` (`LastWordIsFinal`), for any tabs, sockets and tokens. The invariant is that a live socket
  nobody has torn down is its run's own (`LiveIsOwn`), which is the comparison `useMatchSocket` makes after
  each await; that the holder of the seat is open, so that displacing it starts no second
  chain (`HolderIsOpen`); and that the own socket of a run that has had the last word is on its way
  out (`TerminalEnds`). A step either moves one socket on (`OneMovesOn`) or opens one for a tab that
  has none that is live (`OneOpens`).
* `ServerProofs`, about the bot loop: `LoopTypesHold` (`TypeOK`) and `OneLoopHolds` (`OneLoop`), for any
  number of callers and loops. `TypeOK` is not inductive: that the step count stays in
  range needs to know that a loop past its turn boundary has a step left, so the
  invariant is `LoopInv == TypeOK /\ StepsLeft /\ OneLoop`. `RunBotsKeeps` is the heart
  of it: a loop is started only while the flag is down, when `OneLoop` says there is
  none.

  About the governor, for any seats, tables, classes and weights: `TurnKeepsItsBotHolds` (`TurnKeepsItsBot`). A
  bot about to move has the class the tracker has for its seat (`PickedAsTracked`), and so has the
  bot that began the turn, unless it has been forgotten (`BegunAsTracked`): the leases do not come
  into it. `GovernorTypesHold` (`GovernorTypeOK`) and `LeasesFitHolds` (`LeasesFit`) are about the leases. What they
  add up to is a fold over a set, and the lemmas on `WeightOf` (a sum does not depend on the order, a seat more
  adds its weight, fewer seats weigh no more) come from the well-foundedness of the finite sets.
  The invariant adds that a seat without a lease weighs nothing (`Weightless`) and that
  the grants are in a strict order (`GrantsOrdered`): there is always one lease to revoke
  next (`OneIsFirst`), and `SetLevel` goes on until the rest fits.

  About the outbox, for any set of players: `SavesTypesHold` (`SavesTypeOK`) and `OutboxKeepsFaithHolds`
  (`OutboxKeepsFaith`). The invariant adds to the property that everyone whom the phone's record, or the
  record as `Reconcile` has listed it, would name has agreed (`RecordsAgreed`), and that what is listed was saved
  (`ListedWasSaved`): without these nothing says what a step of `Reconcile` may hand. That a game called
  uploaded is recorded with its host goes back along the history: the phone believes it only once it has come down, and
  it is written only with a result that names the host (`UploadedIsRecorded`). That what is
  waiting is saved holds only as long as no drop has failed and nothing has been overtaken
  (`WaitsSaved`), which is the condition the property states.

  `ServerTypesHold` (`ServerTypesOK`) puts the three in one behaviour.
* `ClientProofs`: the client's socket, the fan-out and the relay share no variable, so a behaviour of
  the whole is one of each (`PartsAreThemselves`), and what is proved of the parts
  holds of the whole (`ClientTypesHold`, `ClientKeepsItsWord`).

The assumptions are those the modules name, and they say little: sets of threads, seats and players that are what
they are called, numbers that are natural, `None`-like values outside the sets they stand apart from.
Three say more. Seats and guests are finite sets, because cores and guests are counted;
`Embedded` is described above; and `PausedPlayerIsAwayHolds` and `TableHolds` have the two assumptions given there. TLC evaluates the
assumptions of the modules with the values of each run.

Every invariant and every action property that a run checks is a theorem. Only model-checked is liveness, of
which TLAPS proves none under fairness: `EveryCallReturns`, `BotTurnEnds`, `WaitInPlayEnds`, `ReturnResumes`,
`NothingIsLeaked`, `SeatSettles`, `ComesBack` and `SavedGamesArriveIfSound`.

## What is not modelled

* Which move a bot makes, what a game's rules say, what a message looks like.
* Queries and indexes of the repositories: a lookup by join code is a lookup.
* Drop-in tables (`satOut`, `scheduleSitOut`), agents' polling presence, the clocks of
  `hostpause.go` and the cash-out of `leave.go`: the first needs the ages of clocks, which
  `MatchPresence` replaces by nondeterminism, the others are the drop-in tables' half of it.
* The match home beyond what a handover does to the bots: assignment and fence
  are those of an external database engine, and `TakeMatch`, `GiveMatch` and `ReclaimMatch` are called
  by tests only. The conflict authority likewise hands rules to that engine, which decides
  what meets what.
* Admission and the capacity monitor: a counter under a mutex and a hysteresis in one goroutine.
  `MatchSocket` has a server that may be full, `Governor` a level that may be anything.
* Lobby, rematch, seat links and invitations: checks and a write in one call under the match's lock.
* Offline passes, claims and signatures: who a name is credited to. A failed drop in `Discard`.
* Several phones at one relay, its rate limits and encryption. The Redis relay between instances.
* Accounts, notifications, score pad, statistics, device replica: I/O and folds over
  documents. User interfaces other than the match socket; tools and deployment.

## Plan

Done: `MatchLog` and `MatchLedger`, `MatchPresence` and `MatchTable`, `BotLoop`, `MatchSocket`, `MatchFanout`, `Relay`,
`Governor`, `LocalSaves`, and the proofs above. What would come next:

1. `MatchPresence` extended by drop-in tables, and with them the cash-out of `leave.go`, whose look at a seat
   without the lock is a hazard no property covers yet.
2. The clocks of `hostpause.go`, the other such hazard: it needs ages where `MatchPresence` has a choice.
3. An abstract specification of a result on its way (asked, agreed, named, recorded once) that `LocalSaves`
   implements, as `MatchTable` is for `MatchPresence`.
