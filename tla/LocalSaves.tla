----------------------------- MODULE LocalSaves -----------------------------
(***************************************************************************)
(* A finished match on its way from the phone that hosted it to the cloud: *)
(* the record that waits for its players' answers, the outbox, and the     *)
(* cloud's importer (src/server/internal: match/localsaves.go,             *)
(* sync/outbox.go, match/offline.go, stats/recorder.go; the namespaces the *)
(* two replicate are the database's).                                      *)
(*                                                                         *)
(* One match.  A bundle is the set of people it names.  The phone's record *)
(* is changed under the mutex of LocalSaves, except that Reconcile reads   *)
(* the list of records before it takes it.  The record and the outbox are  *)
(* written one after the other: a stop may come between, a hand may fail,  *)
(* and so may a drop, which nobody waits for: the record goes on without.  *)
(*                                                                         *)
(* Not here: offline passes and claims (who a name is credited to), the    *)
(* replay itself, bundles the cloud refuses.                               *)
(***************************************************************************)
EXTENDS Naturals, FiniteSets

CONSTANTS
    Players,  \* the people at the table
    Host

ASSUME LocalSavesAssumption == Host \in Players

VARIABLES
    unkept,    \* the phone: the goroutine of RecordMatchAsync is under way
    save,      \* its record of the match: state, answers, and whether the wait
               \* for them is over
    playable,  \* it still has the match itself
    listed,    \* Reconcile: the record as List read it, if one is under way
    outbox, arrived,  \* the bundle in the outbox, and in the cloud's copy of it
    importing, \* the cloud: the bundle in hand, and how far it is
    row,       \* its row of the match: "none", "inserted", "committed"
    recording, \* the goroutines that record a result, one at most under way
    result,    \* who the recorded result names
    history, confirmed,   \* is it in the host's history, there and on the phone
    faulty,    \* may the cloud's writes fail, or the cloud stop
    agreed,    \* history: who has ever said yes, ...
    overtaken, \* ... has Reconcile acted on a record that had changed, ...
    undropped  \* ... and has a drop failed

savesVars == <<unkept, save, playable, listed, outbox, arrived, importing, row, recording, result, history, confirmed,
               faulty, agreed, overtaken, undropped>>

Answers == {"none", "yes", "no"}

\* What a bundle or a result says of who played: at most one set of names.
Nobody == {}
Bundles == {{}} \cup {{names} : names \in SUBSET Players}
NoRecord == [state |-> "none", answer |-> [p \in Players |-> "none"], waited |-> FALSE]
NoImport == [at |-> "idle", bundle |-> Nobody]

SavesInit ==
    /\ unkept = TRUE /\ save = NoRecord /\ playable = TRUE /\ listed = NoRecord
    /\ outbox = Nobody /\ arrived = Nobody
    /\ importing = NoImport /\ row = "none" /\ recording = Nobody /\ result = Nobody
    /\ history = FALSE /\ confirmed = FALSE
    /\ faulty \in BOOLEAN /\ agreed = {} /\ overtaken = FALSE /\ undropped = FALSE

Phone == <<unkept, save, playable, listed, outbox, agreed, overtaken, undropped>>
Cloud == <<importing, row, recording, result, history>>

-----------------------------------------------------------------------------
(* The phone *)

Exists == save.state \in {"pending", "saved", "uploaded"}

\* remember, once.
Remember ==
    /\ unkept /\ unkept' = FALSE
    /\ save' = [save EXCEPT !.state = "pending"]
    /\ UNCHANGED <<playable, listed, outbox, agreed, overtaken, undropped, arrived, confirmed, faulty, Cloud>>

\* due: everybody has answered, or the wait is over.
Due(rec) == save.waited \/ \A p \in Players : rec.answer[p] # "none"

\* A mistake for the checks: who has not answered is named.
NamedUnlessNo(rec) == {p \in Players : rec.answer[p] # "no"}

\* applyConsent.
Named(rec) == {p \in Players : rec.answer[p] = "yes"}

\* hand: the bundle replaces the one in the outbox.  It may fail, and does if
\* the phone has not kept the match.
Hand(rec) == \/ playable /\ outbox' = {Named(rec)}
             \/ UNCHANGED outbox

\* The host says yes.
Save ==
    LET rec == [save EXCEPT !.state = "saved", !.answer[Host] = "yes"] IN
    /\ save.state \in {"pending", "saved"}
    /\ save' = rec /\ agreed' = agreed \cup {Host}
    /\ IF Due(rec) THEN Hand(rec) ELSE UNCHANGED outbox
    /\ UNCHANGED <<unkept, playable, listed, overtaken, undropped, arrived, confirmed, faulty, Cloud>>

\* AnswerGrace has passed since.
GraceEnds ==
    /\ save.state = "saved" /\ ~save.waited
    /\ save' = [save EXCEPT !.waited = TRUE]
    /\ UNCHANGED <<unkept, playable, listed, outbox, agreed, overtaken, undropped, arrived, confirmed, faulty, Cloud>>

\* A player answers for their own seat, the host too; the bundle is handed if
\* everybody has answered by now, and again if it had gone.
Consent(p, answer) ==
    LET rec == [save EXCEPT !.answer[p] = answer] IN
    /\ Exists
    /\ save' = rec /\ agreed' = IF answer = "yes" THEN agreed \cup {p} ELSE agreed
    /\ IF rec.state = "saved" /\ (Due(rec) \/ outbox # Nobody) THEN Hand(rec) ELSE UNCHANGED outbox
    /\ UNCHANGED <<unkept, playable, listed, overtaken, undropped, arrived, confirmed, faulty, Cloud>>

\* Outbox.Drop: the bundle is gone, or it could not be removed, and stays.
DropBundle ==
    \/ outbox' = Nobody /\ UNCHANGED undropped
    \/ outbox # Nobody /\ UNCHANGED outbox /\ undropped' = TRUE

\* The host forgets the game, whether or not its bundle could be dropped; a stop
\* may come before the record goes.
Discard ==
    /\ Exists
    /\ IF save.state = "saved" THEN DropBundle ELSE UNCHANGED <<outbox, undropped>>
    /\ save' \in {save, [save EXCEPT !.state = "discarded"]}
    /\ UNCHANGED <<unkept, playable, listed, agreed, overtaken, arrived, confirmed, faulty, Cloud>>

\* Reconcile, as far as List.
ReconcileLists ==
    /\ listed = NoRecord /\ save.state = "saved"
    /\ listed' = save
    /\ UNCHANGED <<unkept, save, playable, outbox, agreed, overtaken, undropped, arrived, confirmed, faulty, Cloud>>

\* A mistake for the checks: a bundle that is missing is not handed again.
NeverMissing == FALSE

\* There is no bundle in the outbox.
Missing == outbox = Nobody

\* Reconcile, on the record it listed.  What the cloud has is settled, whether or
\* not its bundle could be dropped.
ReconcileSettles ==
    /\ listed # NoRecord /\ listed' = NoRecord
    /\ overtaken' = (overtaken \/ [listed EXCEPT !.waited = save.waited] # save)
    /\ IF confirmed
         THEN DropBundle /\ save' \in {save, [listed EXCEPT !.state = "uploaded"]}
       ELSE IF Missing /\ Due(listed)
         THEN /\ \/ playable /\ Hand(listed) /\ UNCHANGED save
                 \/ ~playable /\ save' \in {save, [save EXCEPT !.state = "discarded"]} /\ UNCHANGED outbox
              /\ UNCHANGED undropped
       ELSE UNCHANGED <<outbox, save, undropped>>
    /\ UNCHANGED <<unkept, playable, agreed, arrived, confirmed, faulty, Cloud>>

\* SweepRetired, after a month, whatever the record says.
PhoneRetires ==
    /\ playable /\ playable' = FALSE
    /\ UNCHANGED <<unkept, save, listed, outbox, agreed, overtaken, undropped, arrived, confirmed, faulty, Cloud>>

PhoneStops ==
    /\ unkept' = FALSE /\ listed' = NoRecord
    /\ UNCHANGED <<save, playable, outbox, agreed, overtaken, undropped, arrived, confirmed, faulty, Cloud>>

-----------------------------------------------------------------------------
(* The cloud *)

\* The outbox is pushed; the history comes back.
Push ==
    /\ arrived # outbox /\ arrived' = outbox
    /\ UNCHANGED <<Phone, confirmed, faulty, Cloud>>

Pull ==
    /\ history /\ ~confirmed /\ confirmed' = TRUE
    /\ UNCHANGED <<Phone, arrived, faulty, Cloud>>

\* Pass reads the bundle.
PassReads ==
    /\ importing = NoImport /\ arrived # Nobody
    /\ importing' = [at |-> "read", bundle |-> arrived]
    /\ UNCHANGED <<Phone, arrived, confirmed, faulty, row, recording, result, history>>

\* The match is already here.
AlreadyHere == row # "none"

\* ImportBundle: replayed, and Inserted, unless the match is already here.
Import ==
    /\ importing.at = "read"
    /\ IF AlreadyHere THEN importing' = NoImport /\ UNCHANGED row
       ELSE \/ row' = "inserted" /\ importing' = [importing EXCEPT !.at = "inserted"]
            \/ faulty /\ importing' = NoImport /\ UNCHANGED row
    /\ UNCHANGED <<Phone, arrived, confirmed, faulty, recording, result, history>>

\* store commits the moves, and the result is recorded in the background.
CommitImport ==
    /\ importing.at = "inserted" /\ importing' = NoImport
    /\ \/ row' = "committed" /\ recording' = importing.bundle
       \/ faulty /\ UNCHANGED <<row, recording>>
    /\ UNCHANGED <<Phone, arrived, confirmed, faulty, result, history>>

\* InsertMatch, once for each match; the host's history, if they are named, is
\* written after it.
RecordResult ==
    /\ recording # Nobody /\ recording' = Nobody
    /\ \/ /\ result = Nobody /\ result' = recording
          /\ history' \in {\E names \in recording : Host \in names} \cup (IF faulty THEN {FALSE} ELSE {})
       \/ (faulty \/ result # Nobody) /\ UNCHANGED <<result, history>>
    /\ UNCHANGED <<Phone, arrived, confirmed, faulty, importing, row>>

\* SweepRetired, after three months; an import takes moments.
CloudRetires ==
    /\ row # "none" /\ importing.at # "inserted" /\ row' = "none"
    /\ UNCHANGED <<Phone, arrived, confirmed, faulty, importing, recording, result, history>>

CloudStops ==
    /\ faulty /\ importing' = NoImport /\ recording' = Nobody
    /\ UNCHANGED <<Phone, arrived, confirmed, faulty, row, result, history>>

-----------------------------------------------------------------------------
ImporterRuns == PassReads \/ Import \/ CommitImport

SavesNext ==
    \/ Remember \/ ReconcileLists \/ ReconcileSettles \/ ImporterRuns \/ RecordResult \/ Push \/ Pull
    \/ Save \/ GraceEnds \/ Discard \/ \E p \in Players, answer \in {"yes", "no"} : Consent(p, answer)
    \/ PhoneRetires \/ PhoneStops \/ CloudRetires \/ CloudStops

SavesSpec == SavesInit /\ [][SavesNext]_savesVars

\* Tickers tick, goroutines run on, the phone is online every now and then, and
\* a hand that is tried again and again succeeds.
SavesFairness ==
    /\ WF_savesVars(ReconcileLists) /\ WF_savesVars(ReconcileSettles)
    /\ SF_savesVars(ReconcileSettles /\ outbox' # outbox)
    /\ WF_savesVars(GraceEnds) /\ WF_savesVars(Push) /\ WF_savesVars(Pull)
    /\ WF_savesVars(ImporterRuns) /\ WF_savesVars(RecordResult)

SavesFairSpec == SavesSpec /\ SavesFairness

-----------------------------------------------------------------------------
(* Properties *)

SavesTypeOK ==
    /\ {unkept, playable, faulty, overtaken, undropped, history, confirmed} \subseteq BOOLEAN
    /\ agreed \subseteq Players
    /\ save \in [state : {"none", "pending", "saved", "uploaded", "discarded"}, answer : [Players -> Answers],
                 waited : BOOLEAN]
    /\ listed \in [state : {"none", "saved"}, answer : [Players -> Answers], waited : BOOLEAN]
    /\ {outbox, arrived, recording, result} \subseteq Bundles
    /\ importing \in [at : {"idle", "read", "inserted"}, bundle : Bundles] /\ row \in {"none", "inserted", "committed"}

\* Whatever answers, failed hands and drops, stops and sweeps come in whatever
\* order, a person is named on the way to the cloud and in its result only if they
\* said yes; and a game counts as uploaded only when the cloud has its result,
\* with the host in it.  A bundle waits in the outbox only while the host keeps
\* the game saved, as far as every drop has worked and Reconcile has acted on
\* records as they were.  (A drop that fails is not asked about, by Discard or by
\* Reconcile: the bundle stays, the record goes on, and nothing drops it later.)
OutboxKeepsFaith ==
    /\ \A names \in outbox \cup arrived \cup importing.bundle \cup recording \cup result : names \subseteq agreed
    /\ save.state = "uploaded" => \E names \in result : Host \in names
    /\ ~overtaken /\ ~undropped /\ outbox # Nobody => save.state = "saved"

\* The cloud drops what it has in hand.
CloudFails ==
    \/ importing.at = "read" /\ ~AlreadyHere /\ importing' = NoImport
    \/ importing.at = "inserted" /\ importing' = NoImport /\ row' # "committed"
    \/ recording # Nobody /\ recording' = Nobody /\ result' = Nobody

\* There is an end to the failures, and to the host asking to forget the game.
InTheEnd == <>[][~Discard /\ ~CloudFails]_savesVars

\* A game its host has saved is in the cloud's results sooner or later, if it is
\* not forgotten and the phone has it for long enough, even if the cloud fails
\* every now and then, for a while.
SavedGamesArrive ==
    InTheEnd => [](save.state = "saved" => <>(result # Nobody \/ save.state # "saved" \/ ~playable))

\* As long as the cloud neither stops nor fails at all.
SavedGamesArriveIfSound == ~faulty => SavedGamesArrive

=============================================================================
