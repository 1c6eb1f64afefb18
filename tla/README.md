# A TLA+ model of the Cartesi arbitration library

This directory specifies the arbitration protocol of this repository: the
contracts that settle a dispute about the result of a computation on chain
(`src/contracts`) and the agents that play it off chain (`src/compute/src`). It
is model-checked with TLC; every safety property that a run finds to
hold is proved with TLAPS.

## The system

Two parties, a **challenger** and a **claimer**, agree on the initial hash of a
machine and on a number of cycles, `finalTime`. The claimer states the hash
after `finalTime` cycles. If the challenger disagrees, the dispute is narrowed
down to one cycle and that cycle is executed on chain.

| Component | State it keeps | Operations | What makes it correct |
|---|---|---|---|
| `ComputeInstantiator` | parties, claim, state, time of the last move, index of the verification game | `instantiate`, `submitClaim`, `confirm`, `challenge`, `winByVG`, `claimVictoryByTime` | one final result; a wrong claim is not agreed upon; an honest claimer prevails; it ends |
| `VGInstantiator` | state, divergence and its two hashes, indices of a partition and a memory manager | `instantiate`, `winByPartitionTimeout`, `startMachineRunChallenge`, `settleVerificationGame`, `claimVictoryByTime` | judges two hashes the claimer signed; the party that is right does not lose; it ends with one winner |
| `PartitionInstantiator` | signed hashes by time, the points of the current query, round, state | `instantiate`, `replyQuery`, `makeQuery`, `claimVictoryByTime`, `presentDivergence`, `slice` | signed hashes are final; queries narrow; the divergence found is one; it ends |
| `MMInstantiator` | log of proved accesses, first and current root of the memory, phase | `instantiate`, `proveRead`, `proveWrite`, `finishProofPhase`, `finishReplayPhase` | the log explains the new root; it is frozen before it is judged |
| Agents (`compute.rs`, `vg.rs`, `partition.rs`, `mm.rs`) | none: they read an instance and send one transaction | `react`, `win_by_deadline_or_idle` | always have a right move; a restart or a lost transaction does no harm, in the partition a late or repeated one neither |
| Emulator service, archive keys (`emulator_service.rs`, `lib.rs`) | an archive of answers | conversions, keys, `get_run_result` | an answer is never taken for that of another request |
| `InstantiatorImpl`, `Decorated`, `Merkle`, the machine's `step`, the dispatcher | in other repositories | | modelled from their use |

A compute instance creates a verification game (`challenge`), which creates a
partition (`instantiate`) and later a memory manager (`startMachineRunChallenge`);
each parent reads its children's states and results when somebody calls it.
Nothing is pushed. Time matters: each state has a deadline, after which the party
that was not awaited may claim victory.

What is hard: anybody sends any transaction in any order; a party may stop at any
time; an agent's transaction can be executed much later than the state it was
computed from and more than once, since the dispatcher reacts again to a state it
has seen; the emulator answers late, with its progress first, and an agent that is
restarted has lost the answers; deadlines are computed with wrapping arithmetic from a formula that
estimates the emulator's time; the parent copies results that the child may still
change. The list, at its lines, is in `PROJECT.json` under `hazards`.

## Modules

| Module | Models | Uses |
|---|---|---|
| `Slicing` | `PartitionInstantiator.slice` | |
| `Durations` | the durations of the states, in uint256 arithmetic | |
| `Partition` | one instance of `PartitionInstantiator`: an action per transaction, and `Tick` | `Durations`, `Slicing` |
| `PartitionGame` | the instance with its agents as the protocol sees them, their transactions and everybody else | `Partition` |
| `Bisection` | abstract: a search for a divergence among claims that are never taken back | |
| `EmulatorService` | the messages and conversions of `emulator_service.rs`, the keys and `get_run_result` of `lib.rs` | |
| `PartitionAgent` | the same with `Partition::react` in detail: `getState`, archive, requests to the emulator, restarts | `PartitionGame`, `EmulatorService` |
| `MemoryManager` | one instance of `MMInstantiator` | |
| `ProofAgent` | the instance with `MM::react` in detail: the emulator's log, Merkle siblings, transactions lost, restarts | `MemoryManager`, `EmulatorService` |
| `VerificationGame` | `VGInstantiator`, its partition and memory manager, and the agents that play them, `VG::react` among them | `PartitionGame`, `MemoryManager` |
| `Contest` | abstract: what a compute instance relies on in a verification game | |
| `Compute` | `ComputeInstantiator` with the agents of `compute.rs` | `Contest`, `Durations` |
| `PartitionProofs`, `PartitionGameProofs`, `RefinementProofs`, `PartitionAgentProofs`, `MemoryManagerProofs`, `ProofAgentProofs`, `VerificationGameProofs`, `ComputeProofs` | the theorems | |
| `MC...` | constants for TLC | |

How the state corresponds to the code:

- Variables have the names of the contract's fields. `timeSubmitted` is the set of
  times marked, `timeHash` a function of time. `sinceLastMove` is
  `block.timestamp - timeOfLastMove`. A deadline is `timeOfLastMove` plus a duration
  modulo `WordSize`, like every sum of the contracts (`Deadline`, `Overdue`): with a
  duration close to 2^256 it has passed at once.
- A transaction is an action with its sender and arguments as parameters. A
  `require` that fails reverts everything, so each is a conjunct. Events and the
  nonces are left out: no transaction reads them.
- Instances do not share state, so each module has one. `instantiated` says that
  `currentIndex` has passed it (`onlyInstantiated`).
- `deactivate` clears `active`, which only the dispatcher reads.
- A hash is a model value in the partition. `Trace[t]` is the hash that an honest
  emulator has after `t` cycles. In the memory manager a root *is* the memory it
  commits to, or `Unknown`: the hash is taken to be free of collisions, and a
  Merkle proof of a value exists exactly when the memory has it.
- `machine.step` is external. `StepMatches` says what `settleVerificationGame`
  relies on: it reverts unless the log begins with the accesses the step makes,
  and otherwise exits with code 0 and their number.

Agents. In `PartitionGame` an honest party's `React` reads the instance and adds
the transaction of `Partition::react` to `sent`, from which nothing is ever
removed; `Land` executes any of them, at any later time, as often as it likes.
Everybody else (`Adversary`) sends anything. `Honest` names the parties that run
the agent: the runs take one at a time, the other being the worst opponent.

`PartitionAgent` puts the code of the agent in the place of `React`. `GetState`
lists what the contract returns, `PartitionCtx` takes it by position, and the
branches of `react` are operators of their own (`WinOrIdle`, `AnswerWith`,
`PursueWith`). Hashes come from the archive, under the key of the query; when
there are none `AgentAsks` has the emulator asked, which answers with its progress
(as good as no answer: `get_run_result` fails) or with the hashes, in the messages
of `EmulatorService`. `Restart` clears the archive and the requests at any time.
`ImplementsGame` says that all this is `PartitionGame`, so what is proved of
`PartitionGame` holds for the agent as it is written.

`ProofAgent` does the same for `MM::react`. The emulator's log carries a Merkle
proof for each access, its siblings from the root to the leaf, which the agent
reverses; `GetRoot` is the library's computation on a tree of `Depth` levels, with
a subtree for its hash. The transactions of the agent are executed in the order
they were sent, each at most once, and any of them may be lost. It reacts again when
its last one has been executed or lost (`OneAtATime`, see the assumptions below).

In `VerificationGame` the agent of the partition is that of `PartitionGame`, and
`HonestProof` is what `ProofAgent` comes to under `OneAtATime` (`ProvesInOrder`), each
proof executed once in the state it was made for. `VGReaction` and, in `Compute`, `Reaction` are the decisions of
`VG::react` and `Compute::react`, from `getState` to the name of a transaction or
of the agent that takes over; these transactions carry nothing that could be out
of date, so `VGAgent` and `AgentMove` execute them at once. In `Compute` the
variable `honest` is the party that runs the agent, chosen once and for all.

`EmulatorService` has an operator for each conversion, both ways. The code panics
on a message that lacks a field or has byte strings of another length; the
operators `Reads...` say when it does not, and `ArchiveIsTrue` that what the
agent's own emulator sends is readable. A key holds all that `format!` puts into
it: the session and the times, which `{:?}` writes without loss.

`Compute` and `VerificationGame` are joined through `Contest`: the runs of
`VerificationGame` check that the game implements it (`RefinesContest`), and
`Compute` uses its two actions and nothing else of the game, but for one fact
about an honest claimer (`GameEnds`), which is `HonestClaimerDoesNotLose` with
`RefinesContest`.

## Assumptions on time and fairness

- *Promptness.* `roundDuration` is "the max time an agent has to react and submit
  one simple transaction", and the duration of a state adds the emulator's time to
  it. So `Wait`, `WaitReplay` and `Compute!Wait` do not let the clock pass the
  deadline of an honest party that is awaited. In `Compute` this time is counted
  from the entry of the state (`sinceEntry`, which the contract does not keep).
  That the formula of the deadline covers the emulator's work is an assumption of
  the model; run `short_deadline` shows that it does not in general.
- *Fairness* is weak fairness of the clock, of what honest agents do, and of the
  chain executing something of what they have sent. Nothing is assumed of anybody
  else. In `PartitionAgent` and `ProofAgent` a restart may undo what an action
  needs, and a lost transaction what was sent, so weak fairness says nothing there:
  the emulator's results, sending, and execution have strong fairness. That is, a
  request made again and again gets its result, an agent restarted again and again
  finds the time to send, and not every copy of a transaction is lost. Restarts
  may still go on forever.
- *One proof at a time.* In the partition a transaction of an agent may be executed
  late and any number of times, and `PendingIsCurrent` says why that does no harm. A
  proof for the memory manager is not so robust: two reactions to the same
  `history_length` prove one access twice, a read is accepted twice, and the last access
  of the step is never proved. With `MaxInFlight` 2 TLC finds `LogIsComplete` violated.
  So `ProofAgent` and `HonestProof` assume of the dispatcher, which is in another
  repository, that it reacts to an instance again only when its last transaction has
  been executed or lost, and that each is executed at most once. `LogIsComplete`,
  `ProofsAreAccepted`, `ProvesInOrder` and `HonestChallengerHasEvidence` rest on it;
  nothing about the partition, an honest claimer or `Compute` does.
- *Deadlines that fit.* No contract refuses a `roundDuration` with which
  `timeOfLastMove + duration` overflows. `claimVictoryByTime` then succeeds as soon as it
  is called, and no promptness helps. `Partition` and `Compute` have this case, and their
  runs reach it; `HonestClaimerPrevails` promises nothing in it (`DeadlinesHold`).
  `PartitionGame` is about the other disputes (`DisputesFit`), and so are the modules
  that extend it. `TimeOfLastMove` is one constant, though the contracts set the variable
  at every move of a partition: the two differ only for durations that overflow at some
  moves of a dispute and not at others.
- The clock of an instance stops at `MaxElapsed`. In the runs with an honest party it is
  past every deadline that fits; in `partition` and `compute` it is past those of the
  short round durations, the long ones being there to overflow.

## What the runs check

| Run | Question | Bounds |
|---|---|---|
| `partition` | what the contract guarantees whoever calls it | 2 users, 2 hashes, final times up to 9, query sizes 2 to 5 and durations, of which some are refused and one overflows with 9 cycles; words of 16 values |
| `honest_challenger` | does the agent always have a right move, and do a slow emulator, restarts, late and repeated transactions do no harm | final times 1, 2, 6, 10; query sizes 3, 4, 5; an outsider |
| `honest_claimer` | the same for the claimer | the same |
| `memory_manager` | is the log one run of the memory whoever fills it, and does the agent get the whole log of a step accepted, in order and without a refusal | 4 words (2 levels), 2 values, a step of 3 accesses that reads back what it wrote, 1 transaction on its way |
| `vg_honest_challenger`, `vg_honest_claimer` | the whole game | one word of memory, a step that reads and writes it, final times 1, 2, 4, up to 3 accesses |
| `compute` | the whole instance, with either party honest | final times 0, 1, 8 and round durations 0 to 3, of which some make `challenge` revert, and two that overflow, in the duration or in the deadline |

The bounds reach what matters: both branches of `slice`, its padding and its
remainder, queries of three rounds and more, every deadline passed and not passed,
a query answered again in a later round, siblings of different levels. Final times
of 10 cycles with 3 points take four rounds; more cycles add rounds of the same
kind, and for those the theorems take over. The pairs of hashes suffice because the
code only compares a hash with another: right or wrong. `WordSize` stands for 2^256. In
`partition` it is 16: the divisor 4^2 wraps to 0, so that nobody can win by time in that
round, and a deadline overflows. In `compute` a deadline overflows with round duration
950, timestamp 100 and words of 1000 values, and 999 wraps the duration itself. In the
other runs nothing wraps (`DisputesFit`). `CHECK_DEADLOCK FALSE` is set as instances come to an end; termination
is stated by `DisputeEnds`, `ProofsEnd`, `InstanceEnds` and `RefinesContest`.

Five runs show a violation, each with its finding in `PROJECT.json`:

- `settlement`: `settleVerificationGame` calls `claimerWins` after
  `challengerWins`, so the claimer wins every settlement. `SettleVerificationGame`
  models this, and `HonestChallengerHasEvidence` shows that the condition it does
  not act upon is met.
- `timeout_win`: `presentDivergence` has no condition on the state and overwrites
  `ClaimerWon`. With an honest challenger it does no harm (`OutcomeIsFinal`), and
  an honest claimer still does not lose the game (`HonestClaimerDoesNotLose`).
- `late_claim`: `submitClaim` does not restart the deadline.
- `undisputable`: `instantiate` accepts arguments with which `challenge` reverts.
- `short_deadline`: after k answers the deadline pays for `finalTime`/`querySize`^k
  times `querySize - 1` cycles, while intervals shrink by `querySize - 1`: less than
  one run through the interval that the challenger has to check. The fixed terms hide
  this for short computations; the run makes an instruction take a second.

One more disagreement was met that no run shows: `src/README.md` says the claimer
sends the log of accesses and loses when it does not match, but
`startMachineRunChallenge` makes the challenger the provider.

## What is proved

For every value of the constants that satisfies the assumptions stated in the
modules, which TLC evaluates in every run:

1. `SliceProgress`: a slice keeps its end points, is ordered and makes progress.
2. All seven properties of run `partition`. The invariant is `IInv` of
   `PartitionProofs`: `TypeOK`, `QueryIsSigned`, `RoundsAreBounded`, and that an
   instance not yet created has its initial state. `EveryPieceCanBePursued` follows
   from `QueryIsSigned`; the action properties follow from the invariant before
   the step.
3. The safety properties of `honest_challenger` and `honest_claimer` that are about
   `PartitionGame`, from `GInv` of `PartitionGameProofs`. None is inductive alone. The right end of the
   interval stays wrong because signed hashes are never rewritten; a new interval is
   right on the left and wrong on the right because it is the *first* disagreement
   that is pursued; this has to hold of everything in `sent`, since any of it may be
   executed later; and that what is executed out of turn is refused needs that
   intervals only shrink (`PendingIsCurrent`). That no honest party is timed out
   needs `NotLate`: the clock has not passed the deadline while it is awaited.
4. `GameImplementsPartition`: every step of the game is a step of the contract, so
   what is proved of the contract holds in the game.
5. `PartitionImplementsBisection`: with an honest challenger the game implements
   `Bisection`, under the mapping `Search`.
6. `ArchiveStaysTrue` and `AgentImplementsGame`: the agent of `PartitionAgent` acts on
   true hashes only and implements that of `PartitionGame`, so what is proved of the
   game reaches partition.rs (`AgentKeepsPromises` says so of its outcome). The invariant is
   `ArchiveInv` with `GInv`: every request is kept under the key of its own times,
   and every stored answer is a progress report or the encoded hashes for the times
   of its key. It is needed because the archive keeps the answers to all earlier
   queries, and `ArchiveIsTrue` speaks of the current one only.

7. The memory manager: `MMTypeCorrect`, `HistoryExplainsHashes` and
   `FinishedProofsAreFrozen`, from `MMInv`, which adds that the log is empty before the
   instance exists and after the replay. That the log is a run of the memory is an
   induction over its length; `HistoryExplainsHash` says it by the latest write to each
   word, and one more access changes the latest write to one word only.
8. The agent of mm.rs. `MerkleProofs` justifies what `MemoryManager` says of proofs: for
   a tree of any depth, `getRoot` accepts some proof of a value exactly if the memory has
   the value, and the same proof gives the root after a write. `AgentImplementsMM` holds
   however many transactions are on their way (`SentInv`: each of them is the answer to
   some history), and `AgentProvesOnlyTheLog` says that all they can put into the log are
   accesses of the step. `LogsAreComplete`, `EveryProofIsAccepted` and
   `AgentProvesInOrder` assume `OneAtATime`, and `LogInv` says why they need it: the one
   transaction on its way answers the history it will be executed on, since nobody else
   moves it. `AgentProvesInOrder` is the step from this agent to `HonestProof` of the
   game, under that condition.
9. The verification game, from `VGInv`. `VGImplementsGame` and `VGImplementsMM`: its
   partition and its memory manager are used as their modules say, so what is proved of
   them holds in it. `ReplaysJudgeSignedHashes` needs that signed hashes are final, as
   the partition can be presented a divergence again after they were copied.
   `HonestChallengersHaveEvidence` and `NoEvidenceAgainstHonest` rest on
   `HonestReplayInv` (the history is the beginning of the step's log, and the divergence
   is one; one proof at a time comes in here) and on the step being deterministic: of a
   memory, the accesses of a log leave at most one other, so a log that begins with the
   step's, as `StepMatches` has it, leads to the true hash. `HonestClaimersDoNotLose` is inductive with `GInv`: an honest
   claimer is not late in the partition, and no other transaction lets the challenger win
   (see run `settlement`). `VGImplementsContest` is `RefinesContest` without fairness.
10. The compute instance: `GameDecidesInstance`, `HonestClaimerAlwaysPrevails` and
   `ResultsAreFinal`, from `CInv`. An honest claimer prevails because it is not late with
   its claim (`ClaimInTime`: while a claim is awaited, the clock and the time since the
   state was entered are the same, so promptness applies), its claim is true, and the
   game is not lost (`TruthStands`). The duration itself may wrap around, as promptness is
   measured by it. The sum with `timeOfLastMove` may not: the theorem is about instances
   with `DeadlinesHold`, settled by the arguments of `instantiate`.

`DisputesFit` of `PartitionGame` is used for `HonestPartyNotTimedOut` and what rests on
it (`FittingDeadline`: where the sum fits, a deadline has passed exactly when the duration
has). Two assumptions are arithmetic that the installed provers do not have:
`PowersAreNaturals` of `Partition`, used only for `HonestPartyNotTimedOut` and what rests
on it, and `PowersOfTwo` of `ProofAgent`, used for the Merkle trees. `VGAssumption` takes
from the machine that a step is a log of accesses which lead from one memory of `Trace`
to the next, and that the verification game is not a user.
Induction over numbers is stated for sets of them (`NumberInduction`, from the
well-foundedness of `<`), as the library's theorem cannot be instantiated.

Only model-checked: liveness (`DisputeEnds`, `InstanceEnds`, `ProofsEnd` and the fairness
part of `RefinesContest`), which is out of the provers' reach. Two joins between modules
are argued and not proved: that the agent of the partition in `VerificationGame` may be
replaced by that of `PartitionAgent`, as `AgentImplementsGame` is about a partition by
itself, and that of `ProofAgent` likewise; and that `Compute` may use `Contest` with
`HonestClaimerDoesNotLose` for the game.

## Not modelled

Parsing, logging, events and the read-only getters with `get_pretty_instance`;
deployment scripts and artifacts; the test contracts, whose setters put an instance
in states it cannot reach. Of the emulator service, the requests that no agent of
this repository makes (`NewSession`, `EndSession`, reading, writing and replacing
memory, `GetProof`): types and conversions without a user here; `src/emulator` only
generates the protocol's code. What happens after a panic in a conversion: the
emulator of the runs sends readable answers, with a hash for each cycle asked for.
Times and deadlines above 2^64, which the agents' `as_u64` refuses.
A clock of an agent that is not the chain's.
Snapshots of an instance and its sub-instances taken at different moments: the agents
of `VerificationGame` and `Compute` see all levels at once.
`getMaxInstanceDuration` of partition, verification game and compute decides no
transaction that can succeed. `exitCode` of the machine's step is not
distinguished from a revert.

## Plan

Done first, because everything rests on it: slicing, the partition, its agents and
the refinement of the search. Then the memory manager, the game and the compute
instance. Then the agents as they are written, with emulator, archive, restarts and
lost transactions, the proof that the partition's agent implements the game, and
the shortest of the deadlines. Then the theorems for every safety property of the runs.
Left, in this order:

1. Proofs: the joins named above, by stating the game over the detailed agents; the
   round trips of all messages of `EmulatorService`, of which the answer to a step is
   proved (`AccessIsReadBack`, `SiblingsAreReadBack`).
2. The other deadlines against the work they pay for: a replay has one round for all
   its accesses, and `log2OverTwo` is 0 for short computations. What a divisor of 0 means for
   an honest party, in a game with query sizes that reach it.
3. The worst-case durations of whole instances (`getMaxInstanceDuration`) against
   the time a game can take.
4. Several instances: the stale `partitionInstance` after `startMachineRunChallenge`;
   snapshots of two levels taken at different moments.
