---------------------------- MODULE PartitionAgent ----------------------------
(***************************************************************************)
(* PartitionGame with the agent in the detail of Partition::react          *)
(* (compute/src/partition.rs): it decodes what getState returns, takes the *)
(* hashes from its archive, and when they are not there has them asked     *)
(* from the emulator, which may answer with its progress any number of     *)
(* times before it answers with a result. An agent may be restarted at any *)
(* time: it keeps nothing but the archive, which is lost.                  *)
(*                                                                         *)
(* The emulator and the dispatcher, which asks and stores the answers, are *)
(* external. The emulator is the party's own: it answers with one hash for *)
(* each cycle it was asked for, those of Trace.                            *)
(***************************************************************************)
EXTENDS PartitionGame, Sequences

CONSTANT MachineId \* the session of the machine in the emulator

VARIABLES archive, \* archive[party]: the answers an honest party has stored
          asked    \* asked[party]: the requests the emulator has yet to answer

agentVars == <<gameVars, archive, asked>>

Emulator == INSTANCE EmulatorService WITH H256 <- Hash, Bytes8 <- {}

-----------------------------------------------------------------------------
\* getState: the values in the order the contract returns them.
GetState ==
  <<challenger, claimer, queryArray,
    [i \in 0..Last |-> queryArray[i] \in timeSubmitted],
    [i \in 0..Last |-> timeHash[queryArray[i]]],
    currentState,
    <<finalTime, querySize, Deadline(StateDuration), divergenceTime>>>>

\* PartitionCtx from PartitionCtxParsed.
PartitionCtx(parsed) ==
  [challenger |-> parsed[1], claimer |-> parsed[2], query_array |-> parsed[3],
   submitted_array |-> parsed[4], hash_array |-> parsed[5], current_state |-> parsed[6],
   final_time |-> parsed[7][1], query_size |-> parsed[7][2], deadline |-> parsed[7][3],
   divergence_time |-> parsed[7][4]]

Finished(ctx) == ctx.current_state \in {"ChallengerWon", "ClaimerWon", "DivergenceFound"}

\* The role of the user, the claimer's first; an outsider has none.
Role(ctx, user) ==
  IF user = ctx.claimer THEN "Claimer"
  ELSE IF user = ctx.challenger THEN "Challenger"
  ELSE "none"

\* The state in which a role has hashes to compute.
NeedsHashes(ctx, role) ==
  \/ role = "Claimer" /\ ctx.current_state = "WaitingHashes"
  \/ role = "Challenger" /\ ctx.current_state = "WaitingQuery"

\* SystemTime::now() of the agent, whose clock is taken to be the chain's.
CurrentTime == TimeOfLastMove + sinceLastMove

\* Mutants of the operators below.
WinInOwnTurn(ctx, party) ==
  IF CurrentTime > ctx.deadline /\ NeedsHashes(ctx, Role(ctx, party))
  THEN {TimeoutTx(party)} ELSE {}
WinBeforeDeadline(ctx, party) ==
  IF CurrentTime < ctx.deadline THEN {TimeoutTx(party)} ELSE {}
ShiftedAnswer(ctx, hashes) ==
  {ReplyTx(ctx.query_array,
           [i \in 0..(ctx.query_size - 1) |-> hashes[IF i = 0 THEN 0 ELSE i - 1]])}
LastDenied(pieces) == CHOOSE i \in pieces : \A j \in pieces : j <= i
QueryAnyPiece(ctx, i) == QueryTx(i, ctx.query_array[i], ctx.query_array[i + 1])
DivergesAtRightEnd(ctx, i) ==
  IF ctx.query_array[i + 1] - ctx.query_array[i] > 1
  THEN QueryTx(i, ctx.query_array[i], ctx.query_array[i + 1])
  ELSE DivergenceTx(ctx.query_array[i + 1])

\* win_by_deadline_or_idle, with the deadline that getState returned.
WinOrIdle(ctx, party) == IF CurrentTime > ctx.deadline THEN {TimeoutTx(party)} ELSE {}

\* The claimer: a hash for each time of the query.
AnswerWith(ctx, hashes) ==
  {ReplyTx(ctx.query_array, [i \in 0..(ctx.query_size - 1) |-> hashes[i]])}

\* The challenger compares the hash at the right end of a piece with its own.
Denies(ctx, hashes, i) == hashes[i + 1] # ctx.hash_array[i + 1]

FirstDenied(pieces) == CHOOSE i \in pieces : \A j \in pieces : i <= j

\* Do we need another partition?
PursuePiece(ctx, i) ==
  IF ctx.query_array[i + 1] - ctx.query_array[i] > 1
  THEN QueryTx(i, ctx.query_array[i], ctx.query_array[i + 1])
  ELSE DivergenceTx(ctx.query_array[i])

\* The challenger: the first piece it denies. No disagreement is an error.
PursueWith(ctx, hashes) ==
  {PursuePiece(ctx, FirstDenied(pieces)) :
     pieces \in {{i \in 0..(ctx.query_size - 2) : Denies(ctx, hashes, i)}} \ {{}}}

-----------------------------------------------------------------------------
RunKey(ctx) == Emulator!build_session_run_key(MachineId, ctx.query_array)
Request(ctx) ==
  [key |-> RunKey(ctx), request |-> Emulator!SessionRunRequest(MachineId, ctx.query_array)]

\* The hashes of the agent's own machine, when the archive has them.
OwnHashes(ctx, party) == Emulator!RunResults(archive[party], RunKey(ctx))

\* The transactions react sends: from the hashes in its turn, from the clock in the other's.
Transactions(ctx, party) ==
  LET role == Role(ctx, party) IN
  IF Finished(ctx) \/ role = "none" THEN {}
  ELSE IF NeedsHashes(ctx, role)
  THEN UNION {IF role = "Claimer" THEN AnswerWith(ctx, result.hashes)
                                  ELSE PursueWith(ctx, result.hashes)
                : result \in OwnHashes(ctx, party)}
  ELSE WinOrIdle(ctx, party)

\* get_run_result fails: no answer yet, or one that reports progress.
LacksHashes(ctx, party) ==
  ~ Finished(ctx) /\ NeedsHashes(ctx, Role(ctx, party)) /\ OwnHashes(ctx, party) = {}

AgentSends(party) ==
  /\ instantiated
  /\ LET ctx == PartitionCtx(GetState) IN
     /\ ~ LacksHashes(ctx, party)
     /\ sent' = sent \union Transactions(ctx, party)
  /\ UNCHANGED <<vars, archive, asked>>

AgentAsks(party) ==
  /\ instantiated
  /\ LET ctx == PartitionCtx(GetState) IN
     /\ LacksHashes(ctx, party)
     /\ asked' = [asked EXCEPT ![party] = @ \union {Request(ctx)}]
  /\ UNCHANGED <<gameVars, archive>>

\* The dispatcher stores an answer under the key of its request.
Store(party, ask, oneOf) ==
  /\ archive' = [archive EXCEPT
       ![party] = Emulator!Insert(@, ask.key, Emulator!RunResponseTo([one_of |-> oneOf]))]
  /\ asked' = [asked EXCEPT ![party] = @ \ {ask}]
  /\ UNCHANGED gameVars

\* The machine is still running: how far it has come does not matter to the agent.
EmulatorReports(party) ==
  \E ask \in asked[party] :
    Store(party, ask, [variant |-> "RunProgress",
                       content |-> [progress |-> 0, application_progress |-> 0,
                                    updated_at |-> 0, cycle |-> 0]])

EmulatorFinishes(party) ==
  \E ask \in asked[party] :
    LET times == ask.request.final_cycles IN
    Store(party, ask, [variant |-> "RunResult",
                       content |-> [hashes |-> [i \in DOMAIN times |-> Trace[times[i]]]]])

Restart(party) ==
  /\ archive' = [archive EXCEPT ![party] = Emulator!EmptyArchive]
  /\ asked' = [asked EXCEPT ![party] = {}]
  /\ UNCHANGED gameVars

-----------------------------------------------------------------------------
AgentInit ==
  /\ GameInit
  /\ archive = [party \in Honest |-> Emulator!EmptyArchive]
  /\ asked = [party \in Honest |-> {}]

ChainStep ==
  /\ \/ \E claimerFinalHash \in Hash, final \in FinalTimes, size \in QuerySizes,
           duration \in RoundDurations :
          Dispute(claimerFinalHash, final, size, duration)
     \/ \E tx \in sent : Land(tx)
     \/ \E sender \in Users \ Honest : Adversary(sender)
     \/ Wait
  /\ UNCHANGED <<archive, asked>>

AgentNext ==
  \/ ChainStep
  \/ \E party \in Honest : \/ AgentSends(party)
                           \/ AgentAsks(party)
                           \/ EmulatorReports(party)
                           \/ EmulatorFinishes(party)
                           \/ Restart(party)

\* The dispatcher keeps calling react and the chain executes what it sends. A request
\* that is made again and again is answered with a result in the end, and an agent that
\* is restarted again and again finds the time to send in the end.
AgentFairness ==
  /\ WF_agentVars(Wait /\ UNCHANGED <<archive, asked>>)
  /\ WF_agentVars((\E tx \in sent : Land(tx)) /\ UNCHANGED <<archive, asked>>)
  /\ \A party \in Honest :
       /\ SF_agentVars(AgentSends(party))
       /\ WF_agentVars(AgentAsks(party))
       /\ SF_agentVars(EmulatorFinishes(party))

AgentSafety == AgentInit /\ [][AgentNext]_agentVars
AgentSpec   == AgentSafety /\ AgentFairness

-----------------------------------------------------------------------------
\* What the archive holds under the key of the current query is readable, has a hash
\* for each of its times and is what the machine of the party computes: an answer that
\* arrives late, or is left from another query, is never taken for it.
ArchiveIsTrue ==
  instantiated =>
    \A party \in Honest :
      LET ctx == PartitionCtx(GetState) IN
      /\ \A response \in Emulator!Responses(archive[party], RunKey(ctx)) :
           Emulator!ReadsRunResponse(response)
      /\ \A result \in OwnHashes(ctx, party) :
           result.hashes = [i \in 0..Last |-> Trace[queryArray[i]]]

\* The agent behaves like the one of PartitionGame, which asks no emulator and is never
\* restarted: what is proved of the latter holds of partition.rs.
ImplementsGame == GameSafety
=============================================================================
