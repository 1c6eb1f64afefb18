------------------------- MODULE PartitionAgentProofs -------------------------
(***************************************************************************)
(* The agent of partition.rs is the agent of PartitionGame: the hashes it  *)
(* acts on are those of its machine, whatever the emulator has answered in *)
(* between and however often the agent has been restarted.                 *)
(***************************************************************************)
EXTENDS PartitionAgent, PartitionGameProofs

\* A message that reports progress.
IsProgress(message) ==
  \E oneOf \in message.run_oneof : message.run_oneof = {oneOf} /\ oneOf.field = "progress"

\* The message with the hashes of the machine at some times.
TrueMessage(times) ==
  [run_oneof |->
     {[field |-> "result",
       content |-> [hashes |-> [i \in DOMAIN times |-> [data |-> Trace[times[i]]]]]]}]

TrueHashes == [i \in 0..Last |-> Trace[queryArray[i]]]

\* The inductive invariant: a request is kept under the key of its times, and an answer
\* to it is progress or the truth about the times of its key.
ArchiveInv ==
  /\ DOMAIN archive = Honest
  /\ DOMAIN asked = Honest
  /\ \A party \in Honest :
       /\ \A ask \in asked[party] :
            /\ ask.key = Emulator!build_session_run_key(MachineId, ask.request.final_cycles)
            /\ \A i \in DOMAIN ask.request.final_cycles : ask.request.final_cycles[i] \in Times
       /\ \A key \in DOMAIN archive[party] :
            \/ IsProgress(archive[party][key])
            \/ /\ archive[party][key] = TrueMessage(key.run)
               /\ \A i \in DOMAIN key.run : key.run[i] \in Times

USE PartitionAssumption, GameAssumption

\* The agent decodes what getState returns field by field.
LEMMA Decoded ==
  /\ PartitionCtx(GetState).challenger = challenger
  /\ PartitionCtx(GetState).claimer = claimer
  /\ PartitionCtx(GetState).query_array = queryArray
  /\ PartitionCtx(GetState).hash_array = [i \in 0..Last |-> timeHash[queryArray[i]]]
  /\ PartitionCtx(GetState).current_state = currentState
  /\ PartitionCtx(GetState).query_size = querySize
  /\ PartitionCtx(GetState).deadline = Deadline(StateDuration)
  BY DEF PartitionCtx, GetState

\* Two queries have the same key only if they are the same.
LEMMA KeyTellsTimes ==
  ASSUME NEW times
  PROVE  Emulator!build_session_run_key(MachineId, times).run = times
  BY DEF Emulator!build_session_run_key

\* The emulator's results arrive as the hashes they were sent as.
LEMMA ResultIsEncoded ==
  ASSUME NEW times
  PROVE  Emulator!RunResponseTo(
           [one_of |-> [variant |-> "RunResult",
                        content |-> [hashes |-> [i \in DOMAIN times |-> Trace[times[i]]]]]])
           = TrueMessage(times)
  BY DEF Emulator!RunResponseTo, Emulator!RunOneOfTo, Emulator!RunResultTo, Emulator!Map,
         Emulator!HashTo, Emulator!Some, TrueMessage

LEMMA ProgressIsEncoded ==
  ASSUME NEW content
  PROVE  IsProgress(Emulator!RunResponseTo(
           [one_of |-> [variant |-> "RunProgress", content |-> content]]))
  BY DEF Emulator!RunResponseTo, Emulator!RunOneOfTo, Emulator!Some, IsProgress

\* get_run_result takes nothing but such a message for an answer, and reads it back.
LEMMA ResultsAreTrue ==
  ASSUME NEW store, NEW times,
         \A key \in DOMAIN store : IsProgress(store[key]) \/ store[key] = TrueMessage(key.run),
         NEW result \in Emulator!RunResults(store, Emulator!build_session_run_key(MachineId, times))
  PROVE  result.hashes = [i \in DOMAIN times |-> Trace[times[i]]]
<1> DEFINE key == Emulator!build_session_run_key(MachineId, times)
<1> HIDE DEF key
<1>1. key.run = times
  BY KeyTellsTimes DEF key
<1>2. PICK m \in Emulator!Responses(store, key) :
        /\ Emulator!RunResponseFrom(m).one_of.variant = "RunResult"
        /\ result = Emulator!RunResponseFrom(m).one_of.content
  BY DEF Emulator!RunResults, key
<1>3. key \in DOMAIN store /\ m = store[key]
  BY <1>2 DEF Emulator!Responses
<1>4. ~ IsProgress(m)
  <2> SUFFICES ASSUME NEW oneOf, m.run_oneof = {oneOf}, oneOf.field = "progress"
               PROVE  FALSE
    BY DEF IsProgress
  <2>1. Emulator!Unwrap(m.run_oneof) = oneOf
    BY DEF Emulator!Unwrap
  <2>2. Emulator!RunResponseFrom(m).one_of.variant = "RunProgress"
    BY <2>1 DEF Emulator!RunResponseFrom, Emulator!RunOneOfFrom
  <2> QED BY <1>2, <2>2
<1>5. m = TrueMessage(times)
  BY <1>1, <1>3, <1>4
<1> DEFINE oneOf == [field |-> "result",
                     content |-> [hashes |-> [i \in DOMAIN times |-> [data |-> Trace[times[i]]]]]]
<1>6. Emulator!Unwrap(m.run_oneof) = oneOf
  BY <1>5 DEF Emulator!Unwrap, TrueMessage
<1>7. result = Emulator!RunResultFrom(oneOf.content)
  BY <1>2, <1>6 DEF Emulator!RunResponseFrom, Emulator!RunOneOfFrom
<1>8. result.hashes = [i \in DOMAIN times |-> Emulator!HashFrom([data |-> Trace[times[i]]])]
  BY <1>7 DEF Emulator!RunResultFrom, Emulator!Map
<1> QED BY <1>8 DEF Emulator!HashFrom

\* Requests and answers keep the archive true.
LEMMA AskedStep ==
  ASSUME IInv, instantiated, ArchiveInv, NEW party \in Honest, AgentAsks(party)
  PROVE  ArchiveInv'
<1> DEFINE ask == Request(PartitionCtx(GetState))
<1>1. /\ ask.key = Emulator!build_session_run_key(MachineId, ask.request.final_cycles)
      /\ ask.request.final_cycles = queryArray
  BY Decoded DEF Request, RunKey, Emulator!SessionRunRequest
<1>2. queryArray \in [0..Last -> Times]
  BY DEF IInv, TypeOK, Last
<1>3. \A i \in DOMAIN ask.request.final_cycles : ask.request.final_cycles[i] \in Times
  BY <1>1, <1>2
<1>4. archive' = archive /\ asked' = [asked EXCEPT ![party] = @ \union {ask}]
  BY DEF AgentAsks
<1> HIDE DEF ask
<1> QED BY <1>1, <1>3, <1>4
        DEF ArchiveInv, IsProgress, TrueMessage, Times, Emulator!build_session_run_key

LEMMA StoredStep ==
  ASSUME ArchiveInv, NEW party \in Honest, NEW ask \in asked[party], NEW oneOf,
         Store(party, ask, oneOf),
         LET message == Emulator!RunResponseTo([one_of |-> oneOf])
             times   == ask.request.final_cycles
         IN  IsProgress(message) \/ message = TrueMessage(times)
  PROVE  ArchiveInv'
<1> DEFINE message == Emulator!RunResponseTo([one_of |-> oneOf])
<1>1. /\ ask.key.run = ask.request.final_cycles
      /\ \A i \in DOMAIN ask.key.run : ask.key.run[i] \in Times
  BY KeyTellsTimes DEF ArchiveInv
<1>2. IsProgress(message) \/ message = TrueMessage(ask.key.run)
  BY <1>1
<1>3. /\ archive' = [archive EXCEPT ![party] = Emulator!Insert(archive[party], ask.key, message)]
      /\ asked' = [asked EXCEPT ![party] = asked[party] \ {ask}]
  BY DEF Store
<1> HIDE DEF message
<1>4. DOMAIN archive' = Honest /\ DOMAIN asked' = Honest
  BY <1>3 DEF ArchiveInv
<1>5. ASSUME NEW p \in Honest
      PROVE  /\ asked'[p] \subseteq asked[p]
             /\ \A key \in DOMAIN archive'[p] :
                   \/ key \in DOMAIN archive[p] /\ archive'[p][key] = archive[p][key]
                   \/ key = ask.key /\ archive'[p][key] = message
  BY <1>3 DEF ArchiveInv, Emulator!Insert
<1>6. ASSUME NEW p \in Honest, NEW key \in DOMAIN archive'[p]
      PROVE  \/ IsProgress(archive'[p][key])
             \/ /\ archive'[p][key] = TrueMessage(key.run)
                /\ \A i \in DOMAIN key.run : key.run[i] \in Times
  <2>1. CASE key \in DOMAIN archive[p] /\ archive'[p][key] = archive[p][key]
    BY <2>1 DEF ArchiveInv
  <2>2. CASE key = ask.key /\ archive'[p][key] = message
    BY <2>2, <1>1, <1>2
  <2> QED BY <1>5, <2>1, <2>2
<1>7. \A p \in Honest : \A a \in asked'[p] :
        /\ a.key = Emulator!build_session_run_key(MachineId, a.request.final_cycles)
        /\ \A i \in DOMAIN a.request.final_cycles : a.request.final_cycles[i] \in Times
  BY <1>5 DEF ArchiveInv
<1> QED BY <1>4, <1>6, <1>7
        DEF ArchiveInv, IsProgress, TrueMessage, Times, Emulator!build_session_run_key

-----------------------------------------------------------------------------
\* The hashes the agent acts on are the true ones.
LEMMA OwnHashesAreTrue ==
  ASSUME IInv, ArchiveInv, NEW party \in Honest,
         NEW result \in OwnHashes(PartitionCtx(GetState), party)
  PROVE  result.hashes = TrueHashes
<1>1. queryArray \in [0..Last -> Times]
  BY DEF IInv, TypeOK, Last
<1>2. result \in Emulator!RunResults(archive[party],
                     Emulator!build_session_run_key(MachineId, queryArray))
  BY Decoded DEF OwnHashes, RunKey
<1> DEFINE store == archive[party]
<1>3. \A key \in DOMAIN store : IsProgress(store[key]) \/ store[key] = TrueMessage(key.run)
  BY DEF ArchiveInv
<1>4. DOMAIN queryArray = 0..Last
  BY <1>1
<1>5. result \in Emulator!RunResults(store, Emulator!build_session_run_key(MachineId, queryArray))
  BY <1>2
<1> HIDE DEF store
<1>6. result.hashes = [i \in DOMAIN queryArray |-> Trace[queryArray[i]]]
  BY <1>3, <1>5, ResultsAreTrue
<1> QED BY <1>4, <1>6 DEF TrueHashes

\* From the true hashes the agent sends what PartitionGame says, in its turn ...
LEMMA AnswersAgree ==
  ASSUME IInv
  PROVE  AnswerWith(PartitionCtx(GetState), TrueHashes) = {Answer}
<1>1. querySize \in Nat /\ Last = querySize - 1
  BY DEF IInv, TypeOK, Last
<1>2. [i \in 0..(querySize - 1) |-> TrueHashes[i]] = [i \in 0..Last |-> Trace[queryArray[i]]]
  BY <1>1 DEF TrueHashes
<1> QED BY <1>2, Decoded DEF AnswerWith, Answer

LEMMA PursuitsAgree ==
  ASSUME IInv
  PROVE  PursueWith(PartitionCtx(GetState), TrueHashes)
           = {Pursue(FirstDisagreement(D)) : D \in {Disagreements} \ {{}}}
<1> DEFINE ctx == PartitionCtx(GetState)
           Denied == {i \in 0..(ctx.query_size - 2) : Denies(ctx, TrueHashes, i)}
<1>1. querySize \in Nat /\ Last = querySize - 1 /\ ctx.query_size = querySize
  BY Decoded DEF IInv, TypeOK, Last
<1>2. ASSUME NEW i \in 0..(Last - 1)
      PROVE  Denies(ctx, TrueHashes, i) <=> timeHash[queryArray[i + 1]] # Trace[queryArray[i + 1]]
  <2>1. i + 1 \in 0..Last
    BY <1>1
  <2>2. TrueHashes[i + 1] = Trace[queryArray[i + 1]]
    BY <2>1 DEF TrueHashes
  <2>3. ctx.hash_array[i + 1] = timeHash[queryArray[i + 1]]
    BY <2>1, Decoded
  <2> QED BY <2>2, <2>3 DEF Denies
<1>3. 0..(ctx.query_size - 2) = 0..(Last - 1)
  BY <1>1
<1> DEFINE Wrong(i) == timeHash[queryArray[i + 1]] # Trace[queryArray[i + 1]]
<1>4. Denied = Disagreements
  <2>1. Denied = {i \in 0..(Last - 1) : Denies(ctx, TrueHashes, i)}
    BY <1>3
  <2>2. {i \in 0..(Last - 1) : Denies(ctx, TrueHashes, i)} = {i \in 0..(Last - 1) : Wrong(i)}
    <3> HIDE DEF ctx
    <3> QED BY <1>2
  <2> QED BY <2>1, <2>2 DEF Disagreements
<1>5. \A i : PursuePiece(ctx, i) = Pursue(i)
  BY Decoded DEF PursuePiece, Pursue
<1>6. \A D : FirstDenied(D) = FirstDisagreement(D)
  BY DEF FirstDenied, FirstDisagreement
<1>7. PursueWith(ctx, TrueHashes) = {PursuePiece(ctx, FirstDenied(D)) : D \in {Denied} \ {{}}}
  BY DEF PursueWith
<1> HIDE DEF ctx, Denied
<1>8. {PursuePiece(ctx, FirstDenied(D)) : D \in {Denied} \ {{}}}
        = {Pursue(FirstDisagreement(D)) : D \in {Denied} \ {{}}}
  BY <1>5, <1>6
<1> QED BY <1>4, <1>7, <1>8 DEF ctx

\* ... and out of it.
LEMMA TransactionsAgree ==
  ASSUME IInv, PartiesInv, instantiated, ArchiveInv, NEW party \in Honest,
         ~ LacksHashes(PartitionCtx(GetState), party)
  PROVE  Transactions(PartitionCtx(GetState), party) = Reaction(party)
<1> DEFINE ctx == PartitionCtx(GetState)
<1>1. /\ ctx.challenger = Challenger /\ ctx.claimer = Claimer
      /\ ctx.current_state = currentState /\ ctx.deadline = Deadline(StateDuration)
  BY Decoded DEF PartiesInv
<1>2. currentState \in States
  BY DEF IInv, TypeOK
<1>3. Finished(ctx) <=> ~ Open
  BY <1>1, <1>2 DEF Finished, Open, States
<1>4. party \in {Challenger, Claimer}
  OBVIOUS
<1>5. Role(ctx, party) = IF party = Claimer THEN "Claimer" ELSE "Challenger"
  BY <1>1, <1>4 DEF Role
<1>6. ASSUME Open PROVE NeedsHashes(ctx, Role(ctx, party)) <=> ToMove(party)
  BY <1>1, <1>4, <1>5, <1>6 DEF NeedsHashes, ToMove
<1>7. \A result \in OwnHashes(ctx, party) : result.hashes = TrueHashes
  BY OwnHashesAreTrue
<1>8. ASSUME Open, ToMove(party) PROVE OwnHashes(ctx, party) # {}
  BY <1>3, <1>6, <1>8 DEF LacksHashes
<1>9. AnswerWith(ctx, TrueHashes) = {Answer}
  BY AnswersAgree
<1>10. PursueWith(ctx, TrueHashes) = {Pursue(FirstDisagreement(D)) : D \in {Disagreements} \ {{}}}
  BY PursuitsAgree
<1>11. WinOrIdle(ctx, party) = WinByDeadlineOrIdle(party)
  BY <1>1 DEF WinOrIdle, WinByDeadlineOrIdle, CurrentTime, Overdue
<1> HIDE DEF ctx
<1>12. CASE ~ Open
  BY <1>3, <1>12 DEF Transactions, Reaction, ctx
<1>13. CASE Open /\ ToMove(party)
  <2> DEFINE Sends(hashes) == IF Role(ctx, party) = "Claimer" THEN AnswerWith(ctx, hashes)
                                                             ELSE PursueWith(ctx, hashes)
  <2>1. Sends(TrueHashes) = Move(party)
    BY <1>5, <1>9, <1>10 DEF Move
  <2>2. Transactions(ctx, party) = UNION {Sends(result.hashes) : result \in OwnHashes(ctx, party)}
    <3>1. Role(ctx, party) # "none" /\ NeedsHashes(ctx, Role(ctx, party)) /\ ~ Finished(ctx)
      BY <1>3, <1>5, <1>6, <1>13
    <3> QED BY ONLY <3>1, Zenon DEF Transactions, Sends
  <2> HIDE DEF Sends
  <2>3. {Sends(result.hashes) : result \in OwnHashes(ctx, party)} = {Sends(TrueHashes)}
    BY <1>7, <1>8, <1>13
  <2>4. Transactions(ctx, party) = Move(party)
    BY <2>1, <2>2, <2>3
  <2> QED BY <1>13, <2>4 DEF Reaction, ctx
<1>14. CASE Open /\ ~ ToMove(party)
  <2>1. Role(ctx, party) # "none" /\ ~ NeedsHashes(ctx, Role(ctx, party)) /\ ~ Finished(ctx)
    BY <1>3, <1>5, <1>6, <1>14
  <2>2. Transactions(ctx, party) = WinOrIdle(ctx, party)
    BY <2>1 DEF Transactions
  <2> QED BY <1>11, <1>14, <2>2 DEF Reaction, ctx
<1> QED BY <1>12, <1>13, <1>14

-----------------------------------------------------------------------------
LEMMA AgentInitInv == AgentInit => GInv /\ ArchiveInv
<1> SUFFICES ASSUME AgentInit PROVE GInv /\ ArchiveInv
  OBVIOUS
<1>1. GInv
  BY GameInitIsGInv DEF AgentInit
<1>2. \A party \in Honest : DOMAIN archive[party] = {} /\ asked[party] = {}
  BY DEF AgentInit, Emulator!EmptyArchive
<1>3. DOMAIN archive = Honest /\ DOMAIN asked = Honest
  BY DEF AgentInit
<1> QED BY <1>1, <1>2, <1>3 DEF ArchiveInv

\* An agent that is restarted has nothing that could be wrong.
LEMMA RestartStep ==
  ASSUME ArchiveInv, NEW party \in Honest, Restart(party)
  PROVE  ArchiveInv'
<1>1. DOMAIN archive' = Honest /\ DOMAIN asked' = Honest
  BY DEF ArchiveInv, Restart
<1>2. \A p \in Honest \ {party} : archive'[p] = archive[p] /\ asked'[p] = asked[p]
  BY DEF ArchiveInv, Restart
<1>3. DOMAIN archive'[party] = {} /\ asked'[party] = {}
  BY DEF ArchiveInv, Restart, Emulator!EmptyArchive
<1>4. ASSUME NEW p \in Honest, p # party
      PROVE  /\ \A ask \in asked'[p] :
                  /\ ask.key = Emulator!build_session_run_key(MachineId, ask.request.final_cycles)
                  /\ \A i \in DOMAIN ask.request.final_cycles :
                       ask.request.final_cycles[i] \in Times
             /\ \A key \in DOMAIN archive'[p] :
                  \/ IsProgress(archive'[p][key])
                  \/ /\ archive'[p][key] = TrueMessage(key.run)
                     /\ \A i \in DOMAIN key.run : key.run[i] \in Times
  <2>1. archive'[p] = archive[p] /\ asked'[p] = asked[p]
    BY <1>2, <1>4
  <2> QED BY <2>1 DEF ArchiveInv
<1> QED BY <1>1, <1>3, <1>4
        DEF ArchiveInv, IsProgress, TrueMessage, Times, Emulator!build_session_run_key

LEMMA ArchiveStep ==
  ASSUME GInv, ArchiveInv, [AgentNext]_agentVars
  PROVE  ArchiveInv'
<1>1. CASE UNCHANGED <<archive, asked>>
  BY <1>1 DEF ArchiveInv, IsProgress, TrueMessage, Times, Emulator!build_session_run_key
<1>2. ASSUME NEW party \in Honest, AgentAsks(party)
      PROVE  ArchiveInv'
  BY <1>2, AskedStep DEF GInv, AgentAsks
<1>3. ASSUME NEW party \in Honest, EmulatorReports(party)
      PROVE  ArchiveInv'
  <2> DEFINE content == [progress |-> 0, application_progress |-> 0,
                         updated_at |-> 0, cycle |-> 0]
             oneOf == [variant |-> "RunProgress", content |-> content]
  <2>1. PICK ask \in asked[party] : Store(party, ask, oneOf)
    BY <1>3 DEF EmulatorReports
  <2>2. IsProgress(Emulator!RunResponseTo([one_of |-> oneOf]))
    BY ProgressIsEncoded
  <2> HIDE DEF oneOf
  <2> QED BY <2>1, <2>2, StoredStep
<1>4. ASSUME NEW party \in Honest, EmulatorFinishes(party)
      PROVE  ArchiveInv'
  <2> DEFINE oneOf(times) == [variant |-> "RunResult",
                              content |-> [hashes |-> [i \in DOMAIN times |-> Trace[times[i]]]]]
  <2>1. PICK ask \in asked[party] : Store(party, ask, oneOf(ask.request.final_cycles))
    BY <1>4 DEF EmulatorFinishes
  <2>2. Emulator!RunResponseTo([one_of |-> oneOf(ask.request.final_cycles)])
          = TrueMessage(ask.request.final_cycles)
    BY ResultIsEncoded
  <2> HIDE DEF oneOf
  <2> QED BY <2>1, <2>2, StoredStep
<1>5. ASSUME NEW party \in Honest, Restart(party)
      PROVE  ArchiveInv'
  BY <1>5, RestartStep
<1> QED BY <1>1, <1>2, <1>3, <1>4, <1>5 DEF AgentNext, ChainStep, AgentSends, agentVars

\* Every step of the detailed agent is one of the agent of PartitionGame, or is not
\* seen there.
LEMMA AgentStepIsGameStep ==
  ASSUME GInv, ArchiveInv, [AgentNext]_agentVars
  PROVE  [GameNext]_gameVars
<1>1. CASE UNCHANGED gameVars
  BY <1>1
<1>2. CASE ChainStep
  BY <1>2 DEF ChainStep, GameNext
<1>3. ASSUME NEW party \in Honest, AgentSends(party)
      PROVE  GameNext
  <2>1. /\ instantiated
        /\ ~ LacksHashes(PartitionCtx(GetState), party)
        /\ sent' = sent \union Transactions(PartitionCtx(GetState), party)
        /\ UNCHANGED vars
    BY <1>3 DEF AgentSends
  <2>2. Transactions(PartitionCtx(GetState), party) = Reaction(party)
    BY <2>1, TransactionsAgree DEF GInv
  <2>3. React(party)
    BY <2>1, <2>2 DEF React
  <2> QED BY <2>3 DEF GameNext
<1>4. ASSUME NEW party \in Honest,
             \/ AgentAsks(party) \/ EmulatorReports(party)
             \/ EmulatorFinishes(party) \/ Restart(party)
      PROVE  UNCHANGED gameVars
  BY <1>4 DEF AgentAsks, EmulatorReports, EmulatorFinishes, Store, Restart
<1>5. CASE UNCHANGED agentVars
  BY <1>5 DEF agentVars
<1> QED BY <1>1, <1>2, <1>3, <1>4, <1>5 DEF AgentNext

LEMMA AgentInvariance == AgentSafety => [](GInv /\ ArchiveInv)
<1>1. GInv /\ ArchiveInv /\ [AgentNext]_agentVars => GInv' /\ ArchiveInv'
  BY ArchiveStep, AgentStepIsGameStep, GInvStep
<1> QED BY <1>1, AgentInitInv, PTL DEF AgentSafety

-----------------------------------------------------------------------------
\* What the archive holds for the current query is readable and true, after any number
\* of restarts and of answers that arrive late (get_run_result of emulator_service.rs).
THEOREM ArchiveStaysTrue == AgentSafety => []ArchiveIsTrue
<1>1. ASSUME GInv, ArchiveInv
      PROVE  ArchiveIsTrue
  <2> SUFFICES ASSUME instantiated, NEW party \in Honest
               PROVE  LET ctx == PartitionCtx(GetState) IN
                      /\ \A response \in Emulator!Responses(archive[party], RunKey(ctx)) :
                           Emulator!ReadsRunResponse(response)
                      /\ \A result \in OwnHashes(ctx, party) : result.hashes = TrueHashes
    BY DEF ArchiveIsTrue, TrueHashes
  <2>1. ASSUME NEW key \in DOMAIN archive[party]
        PROVE  Emulator!ReadsRunResponse(archive[party][key])
    <3>1. CASE IsProgress(archive[party][key])
      BY <3>1 DEF IsProgress, Emulator!ReadsRunResponse
    <3>2. CASE /\ archive[party][key] = TrueMessage(key.run)
               /\ \A i \in DOMAIN key.run : key.run[i] \in Times
      <4>1. \A i \in DOMAIN key.run : Trace[key.run[i]] \in Hash
        BY <3>2
      <4> DEFINE hashes == [i \in DOMAIN key.run |-> [data |-> Trace[key.run[i]]]]
                 oneOf == [field |-> "result", content |-> [hashes |-> hashes]]
      <4>2. archive[party][key].run_oneof = {oneOf}
        BY <3>2 DEF TrueMessage
      <4>3. \A i \in DOMAIN oneOf.content.hashes :
              Emulator!ReadsHash(oneOf.content.hashes[i])
        BY <4>1 DEF Emulator!ReadsHash
      <4> HIDE DEF oneOf
      <4> QED BY <4>2, <4>3 DEF Emulator!ReadsRunResponse
    <3> QED BY <1>1, <2>1, <3>1, <3>2 DEF ArchiveInv
  <2>2. \A result \in OwnHashes(PartitionCtx(GetState), party) : result.hashes = TrueHashes
    BY <1>1, OwnHashesAreTrue DEF GInv
  <2> QED BY <2>1, <2>2 DEF Emulator!Responses
<1> QED BY <1>1, AgentInvariance, PTL

\* The agent of partition.rs implements that of PartitionGame: asking the emulator,
\* waiting for it and being restarted changes nothing of what reaches the contract.
THEOREM AgentImplementsGame == AgentSafety => ImplementsGame
<1>1. AgentInit => GameInit
  BY DEF AgentInit
<1>2. GInv /\ ArchiveInv /\ [AgentNext]_agentVars => [GameNext]_gameVars
  BY AgentStepIsGameStep
<1> QED BY <1>1, <1>2, AgentInvariance, PTL DEF AgentSafety, ImplementsGame, GameSafety

\* So the divergence that partition.rs ends a dispute with is a step that the claimer
\* got wrong, and no honest party loses by timeout.
THEOREM AgentKeepsPromises ==
  AgentSafety => [](DivergenceIsReal /\ HonestPartyIsNeverTimedOut)
  BY AgentImplementsGame, DivergencesAreReal, HonestPartyNotTimedOut, PTL DEF ImplementsGame
=============================================================================
