------------------------------ MODULE MCServer ------------------------------
(***************************************************************************)
(* What goes on around the matches of a server, in one run.  The parts     *)
(* share no variable; each behaviour is about one, picked at the start,    *)
(* and the others stand still.                                             *)
(*                                                                         *)
(*   "log"     two goroutines and one match on kdb, with evictions,        *)
(*             deletes and crashes                                         *)
(*   "bots"    two bots, a person and room for a second loop should one    *)
(*             start, through moves, visits and handovers in every order   *)
(*   "table"   the governor and two bots' seats at a table with people,    *)
(*             in every mode, with room for both or for one; the operator  *)
(*             changes the mode and the class between two moves            *)
(*   "tables"  the governor and a seat at each of two tables, one without  *)
(*             people; enforced throughout, asking for the same class      *)
(*   "saves"   a finished match on its way to the cloud, with one player   *)
(*             to ask.  On a faulty cloud answers come before it is saved, *)
(*             drops fail, a discard stops half-way while none has failed, *)
(*             and the phone keeps the match; on a sound one answers come  *)
(*             before there is a result, the host does not say no, drops   *)
(*             work, the phone stands still for an import's last moments,  *)
(*             and the sweeps, of months, come between rounds of moments   *)
(*                                                                         *)
(* The tracker of turns forgets a bot when its match stops, and in "table" *)
(* also when it has been unheard of since a person moved.                  *)
(***************************************************************************)
EXTENDS BotLoop, Governor, LocalSaves

CONSTANTS
    Threads, Instances, On, Entries, GameLen, RoundLen, SnapshotEvery, RoundGap, MaxVersion,
    Transactional, MayFail, MayLoseReply, None,
    s1, s2, s3

VARIABLES part, env, moves, boards, table, entry, pc, ent, seen, reply, acked, recorded

Log == INSTANCE MatchLog
logVars == <<env, moves, boards, table, entry, pc, ent, seen, reply, acked, recorded>>

\* Values for the constants: the process the goroutines run in, the tables of
\* the seats, and what a class keeps busy.
OneProcess == [t \in Threads |-> CHOOSE i \in Instances : TRUE]
Tables == [s \in {s1, s2, s3} |-> IF s = s3 THEN 2 ELSE 1]
Weights == [c \in 0..1 |-> 2 * c]

Parts == {"log", "bots", "table", "tables", "saves"}

\* A table nobody is at.
NoTable ==
    /\ awaited = {} /\ running = FALSE /\ stopping = FALSE
    /\ loop = [l \in Loops |-> NoLoop] /\ caller = [p \in People |-> "idle"]
    /\ home = "here" /\ beat = FALSE

ServerInit ==
    /\ part \in Parts
    /\ Log!Init
    /\ IF part = "bots" THEN Init ELSE NoTable
    /\ GovernorInit /\ (part # "table" => mode = "enforce")
    /\ SavesInit /\ (part # "saves" => ~faulty)

LogPart == part = "log" /\ Log!Next /\ UNCHANGED <<vars, governorVars, savesVars, part>>

BotsPart == part = "bots" /\ Next /\ UNCHANGED <<logVars, governorVars, savesVars, part>>

GovernorPart ==
    /\ part \in {"table", "tables"}
    /\ GovernorNext
    /\ part = "table" => lease'[s3] = lease[s3] /\ turnBot'[s3] = turnBot[s3] /\ asks'[2] = asks[2] /\ level' # "red"
    /\ part = "tables" => lease'[s2] = lease[s2] /\ turnBot'[s2] = turnBot[s2] /\ mode' = mode /\ asks' = asks
    /\ part = "table" /\ picked[1] # NoPick => asks' = asks /\ mode' = mode
    /\ \A s \in Seats : turnBot[s].known /\ ~turnBot'[s].known => part = "table" /\ turnMover'[1] = NoPlayer
    /\ UNCHANGED <<logVars, vars, savesVars, part>>

SavesPart ==
    /\ part = "saves" /\ SavesNext
    /\ faulty /\ save.state \in {"saved", "uploaded", "discarded"} => save'.answer = save.answer
    /\ Discard => save'.state = "discarded" \/ (faulty /\ ~undropped')
    /\ ~faulty => save'.answer[Host] # "no" /\ ~undropped'
    /\ ~faulty /\ result # Nobody => \A p \in Players \ {Host} : save'.answer[p] = save.answer[p]
    /\ ~faulty /\ (importing.at = "inserted" \/ recording # Nobody) => UNCHANGED <<Phone, arrived>>
    /\ playable # playable' => ~faulty /\ listed = NoRecord
    /\ ~faulty /\ row # "none" /\ row' = "none" => importing = NoImport /\ result # Nobody /\ arrived = Nobody
    /\ UNCHANGED <<logVars, vars, governorVars, part>>

ServerNext == LogPart \/ BotsPart \/ GovernorPart \/ SavesPart

\* Each part's own fairness: MatchLog's, BotLoop's with a table that is always
\* opened again, and LocalSaves'.
LogFair == \A t \in Threads :
    WF_logVars(part = "log" /\ Log!Step(t)) /\ SF_logVars(part = "log" /\ Log!Acquire(t))
BotsFair ==
    /\ \A l \in Loops : WF_vars(part = "bots" /\ LoopStep(l))
    /\ \A p \in People : WF_vars(part = "bots" /\ Wake(p)) /\ WF_vars(part = "bots" /\ Arrive(p))
SavesFair ==
    /\ WF_savesVars(part = "saves" /\ ReconcileLists) /\ WF_savesVars(part = "saves" /\ ReconcileSettles)
    /\ SF_savesVars(part = "saves" /\ ReconcileSettles /\ outbox' # outbox)
    /\ WF_savesVars(part = "saves" /\ GraceEnds)
    /\ WF_savesVars(part = "saves" /\ Push) /\ WF_savesVars(part = "saves" /\ Pull)
    /\ WF_savesVars(part = "saves" /\ ImporterRuns) /\ WF_savesVars(part = "saves" /\ RecordResult)

ServerSpec ==
    /\ ServerInit /\ [][ServerNext]_<<logVars, vars, governorVars, savesVars, part>>
    /\ LogFair /\ BotsFair /\ SavesFair

\* The types of the parts.
ServerTypesOK == TypeOK /\ GovernorTypeOK /\ SavesTypeOK

\* Every call a goroutine makes to the match runtime is answered.
EveryCallReturns == Log!EveryCallReturns

=============================================================================
