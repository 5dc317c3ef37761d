---------------------------- MODULE ClientProofs ----------------------------
(***************************************************************************)
(* What the parts between a client and the match promise, they keep when   *)
(* they are put together.                                                  *)
(*                                                                         *)
(* The parts share no variable: a step of one is a step of its own         *)
(* specification and leaves the others where they are.  So a behaviour of  *)
(* the whole is a behaviour of each, and each theorem about a part is one  *)
(* about the whole.                                                        *)
(***************************************************************************)
EXTENDS MCClient, MatchSocketProofs, MatchFanoutProofs, RelayProofs

clientVars == <<socketVars, fanoutVars, relayVars, part>>

LEMMA PartsBegin == ClientInit => MatchSocketInit /\ MatchFanoutInit /\ RelayInit
    BY DEF ClientInit

LEMMA PartsStep == [ClientNext]_clientVars => [MatchSocketNext]_socketVars /\ [MatchFanoutNext]_fanoutVars /\ [RelayNext]_relayVars
<1>1. ASSUME SocketPart PROVE [MatchSocketNext]_socketVars /\ [MatchFanoutNext]_fanoutVars /\ [RelayNext]_relayVars
    BY <1>1 DEF SocketPart
<1>2. ASSUME FanoutPart PROVE [MatchSocketNext]_socketVars /\ [MatchFanoutNext]_fanoutVars /\ [RelayNext]_relayVars
    BY <1>2 DEF FanoutPart
<1>3. ASSUME RelayPart PROVE [MatchSocketNext]_socketVars /\ [MatchFanoutNext]_fanoutVars /\ [RelayNext]_relayVars
    BY <1>3 DEF RelayPart
<1>4. ASSUME UNCHANGED clientVars PROVE [MatchSocketNext]_socketVars /\ [MatchFanoutNext]_fanoutVars /\ [RelayNext]_relayVars
    BY <1>4 DEF clientVars
<1> QED
    BY <1>1, <1>2, <1>3, <1>4 DEF ClientNext

\* The client's socket, the fan-out of boards and the relay are each what they
\* are by themselves: none is given an initial state or a step that its own
\* specification does not have.
THEOREM PartsAreThemselves == ClientSpec => MatchSocketSpec /\ MatchFanoutSpec /\ RelaySpec
    BY PartsBegin, PartsStep, PTL DEF ClientSpec, MatchSocketSpec, MatchFanoutSpec, RelaySpec, clientVars

\* The types of the socket's, the fan-out's and the relay's state hold in the
\* whole.
THEOREM ClientTypesHold == ClientSpec => []ClientTypesOK
<1>1. MatchSocketTypeOK /\ MatchFanoutTypeOK /\ RelayTypeOK => ClientTypesOK
    BY DEF ClientTypesOK
<1> QED
    BY <1>1, PartsAreThemselves, MatchSocketTypesHold, FanoutTypesHold, RelayTypesHold, PTL

\* In the whole a tab has one chain of reconnection and its last word is final, a
\* change told alone mends the screen, a guest hears from their own tunnel only,
\* and the phone and the relay agree on who is there.
THEOREM ClientKeepsItsWord ==
    ClientSpec => [](OneChain /\ QuietChangeHeals /\ NoCrossTalk /\ EndsAgree) /\ LastWordIsFinal
    BY PartsAreThemselves, OneChainHolds, LastWordIsFinalHolds, QuietChangeHealsHolds, NoCrossTalkHolds, EndsAgreeHolds, PTL

=============================================================================
