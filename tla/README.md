# pNetwork v3: TLA+ models and proofs

A verification project for the pNetwork monorepo: the contracts of
`packages/ptokens-evm-contracts` and the off-chain programs around them. TLC
checks the models on small instances, TLAPS proves theorems about them for every
value of the constants. Paths below are relative to `src/`; unqualified line numbers
are those of `packages/ptokens-evm-contracts/contracts/core/PNetworkHub.sol`.

## 1. The system

pNetwork moves assets and messages between chains. A user asks for it on a hub
contract (`userSend`), which burns tokens and emits a `UserOperation`. Listeners of
the destination chain see it, a relayer *queues* the operation on the hub there with
a bond, and after a challenge period anyone can *execute* it. Guardians and sentinels
(the *actors*) run the same listener, and *cancel* a queued operation that matches no
`UserOperation` they saw: one objection delays it, two of different classes (guardian,
sentinel, governance) remove it. Challengers watch the actors' heartbeats and
*challenge* a silent one, who must *solve* the challenge on chain or be slashed. The
DAO lives on another chain and sends *governance messages*: the actors of an epoch,
slashes, resumes, cancellations. If a class has no active actor, or the epoch is about
to end, the hub is in *lockdown*.

### Inventory

| component | state | operations | hard behaviour | what makes it correct |
|---|---|---|---|---|
| `PNetworkHub.sol` queue | status, queue action, cancel actions per operation; length of the queue; ether | queue, cancel (guardian, sentinel, governance), execute | challenge period moves with the queue length; objections race executions; lockdown; unchecked counters; bonds | length exact, period ends in its epoch, every operation leaves once, bonds covered |
| `PNetworkHub.sol` challenges | challenges and status per epoch, pending id and status bits per actor, totals of inactive actors | start, solve, slash, claim | windows inside an epoch, epoch change, slashes by the DAO in between | one way out at any time, bond paid once, records agree, totals exact |
| `PNetworkHub.sol` governance messages | merkle root and totals of actors per epoch | actors, slash, resume, cancel | late, reordered, repeated for one epoch | lockdown if and only if a class has no active actor |
| `PNetworkHub.sol` execution and `userSend`; `PToken`, `PFactory`, `PRegistry` | balances of tokens, collateral | wrap, mint, burn, forward through the interim chain, fees, receiver callback | fees that do not fit, callback in the middle of the execution | value conserved across chains |
| `EpochsManager.sol` | none (clock) | `currentEpoch` | boundaries | |
| `GovernanceMessageEmitter.sol` | message nonce | propagate actors, slash, resume, cancel | called again in an epoch, filters by stake | one nonce per message, sets that match the stake |
| `GovernanceMessageVerifier.sol`, `GovernanceMessageHandler.sol` | processed ids, next nonce | verify and fan out to the hubs | strict order, replay, one message blocks the next | each message once, in order, to every hub |
| `Slasher.sol` | none | slash request from a hub | arrives in a later epoch, from several hubs | slash counted once |
| `ptokens-listener` | database of reports | listen, insert | late, repeated, lost logs | every event stored once |
| `ptokens-request-processor` | the same database; loops in several processes | propose, finalize, dismiss, solve | stale reads, whole-report writes, crash between transaction and write | proposes every valid operation, dismisses only invalid ones |
| `ptokens-state-reader` | actors and challenges in a database | challenge silent actors, slash, follow heartbeats | overlapping timers, local clock, heartbeat over challenge | a silent actor is challenged and slashed |
| `ptokens-state-emitter` | none | publish heartbeat | | |
| `ptokens-utils`, `ptokens-constants`, tasks, docker stages, apps | none | helpers, configuration, command line | | |

They interact by transactions (processor and reader to the hubs), events (hub to
listener), the database (listener, processor), Telepathy messages (emitter, verifier,
hubs) and IPFS pubsub (state emitter to state reader).

## 2. Plan

Order: the hub first, because everything else relies on it; then the programs that use
it, against the promises the hub is shown to keep; then the messages that drive it.

| module | models | composes | state |
|---|---|---|---|
| `EpochsAndPeriods` | epochs, challenge period, end-of-epoch windows | | done |
| `PNetworkHub` | queue, challenges, lockdown, governance messages of one hub | `EpochsAndPeriods` | done |
| `OptimisticQueue`, `ChallengeGame` | what the hub promises, abstractly | | done |
| `PNetworkHubProperties` | properties, fairness, refinement mappings | the above | done |
| `PNetworkHubProofs`, `HubChallengeProofs` | theorems about the hub | the above | eight theorems |
| `HubPromisesProofs` | the hub implements the abstract specifications, ether, progress | the above | eight theorems |
| `EventReports`, `Listener` | reports, their collection, one listener per chain | | done |
| `RequestProcessor` | what the loops of the processor share | `Listener`, `OptimisticQueue` as the hub | done |
| `Relayer` | proposing and finalizing | `RequestProcessor` | done |
| `RequestProcessorProofs`, `RelayerProofs` | theorems about the relayer, lemmas about every loop | `Relayer` | four theorems |
| `Guardian` | dismissing and answering challenges | `RequestProcessor`, `ChallengeGame` as the hub | done |
| `GuardianProofs` | theorems about the guardian | `Guardian`, `RequestProcessorProofs` | three theorems |
| `StateEmitter`, `StateReader`, `Challenger` | heartbeats, challenges and slashes | `ChallengeGame` as the hub | done |
| `ChallengerProofs` | theorems about the challenger | `Challenger` | four theorems |
| `MerkleTrees`, `GovernanceRelay` | emitter, operators' tasks, verifier, several hubs | | done |
| `GovernanceProofs` | theorems about the messages | `GovernanceRelay` | four theorems |

Left: in the models, token balances, fees and the receiver's callback inside an execution, and
the Slasher (section 6). What the prover cannot reach is listed at the end of section 5.

## 3. The modules

**EpochsAndPeriods** holds the arithmetic of time. Times are offsets from
`startFirstEpochTimestamp`. The literals `1 hours`, `5 days` and the epoch duration of
30 days are constants, so that TLC can use small numbers and the proofs cover all.
`TimingAssumption` is what a *deployed* hub satisfies: the constructor computes
`maxOperationsInQueue ** 2 * kChallengePeriod` in checked `uint16` (120-123) and
requires `challengeDuration <= maxChallengePeriodDuration` (140-146).

**PNetworkHub** has one action per entry point of the contract (and one per type of
governance message), each a whole transaction. A call that reverts is an action that
is not enabled; a receiver that refuses ether disables the whole action
(`SendEther`). Correspondence of the state:

| variable | contract |
|---|---|
| `now` | `block.timestamp` |
| `balance` | ether of the hub |
| `operationsStatus`, `relayerQueueAction`, `totalCancelActions`, `numberOfOperationsInQueue` | the mappings and the counter of the same name |
| `cancelActions` | which of `_operations{Governance,Guardian,Sentinel}CancelAction` are set |
| `epochsActors` | `_epochsActorsMerkleRoot` by the set it commits to, and `_epochsTotalNumberOfActors` by its cardinalities |
| `inactiveActors`, `challengedActors` | the two bits of `_epochsActorsStatus` |
| `totalInactive` | `_epochsTotalNumberOfInactiveActors` |
| `challenges`, `challengesStatus` | `_epochsChallenges`, `_epochsChallengesStatus`; a challenge id is its nonce, and `StatusInEpoch` keeps the lookup by epoch |
| `challengesNonce`, `pendingChallengeId` | the counter and mapping of the same name |

The mapping's order of evaluation is kept where it matters: the period is read after a
cancel action is recorded and before the total is incremented; the status of a
challenge is looked up in the current epoch by `solve` and `slash` and in its own by
`claim`; `claim` leaves the pending id. Counters the code increments in `unchecked`
blocks wrap around (`Uint16`).

The emitter stamps messages with its current epoch. They reach the hub in any order,
repeatedly, and at most `MessageLag` epochs late. `ActorSets` is what
`propagateActors` may commit to.

**OptimisticQueue** is the promise of the queue: an operation stays open to
objections for at least the base period, one objection in time delays it and a second
one removes it. **ChallengeGame** is the promise to the two sides of a challenge.
Neither knows of queue lengths, epochs' actors, pending ids, bits or ether.

**PNetworkHubProperties** states the properties and maps the hub to the two
abstract specifications; **MCPNetworkHub** gives TLC its constants.

**EventReports** is what listener and processor share. A log is a record; an operation is
its fields, of which `body` stands for all but origin and destination; the id of an
operation is the record with its origin filled in, in place of a hash. The key of a
report, `event_network_transaction`, has no index of the log, and the model keeps that.

**Listener** is one process per chain. `emitted` are the logs of mined blocks; `inbox` those
delivered to a listener that is up, each turned into a report by its own promise. An insertion that
fails (a key that is taken) ends the process and loses its inbox; a listener
that starts sees new blocks only. The operator's commands save one transaction's logs.

**RequestProcessor**, **Relayer** and **Guardian** are processes over that collection (`db`). A
loop is a record: the step it is `at`, the reports `todo` and `done` there, the report
and transaction it waits for, the proof it sends. Each step of a promise chain is one
action, and where the code handles reports concurrently (`Promise.all`) or in turn
(`mapAll`) the model takes them in any order, with the other processes in between. What
is written is the whole report that was read. A transaction that was broadcast is in
`mempool` and outlives its process; gas estimation finds the hub's errors at one time
(`QueueError`, `ExecuteError`, `CancelError`) and mining at another. An execution may also revert at
every attempt (`Unexecutable`: fees above the amount, no token), which the finalizer records as
`failed`. `Exit` is any
rejection nobody handles; no program but the listener has a handler for those, and the
containers start them again (`restart: unless-stopped` in the `docker-compose` files).

**StateEmitter**, **StateReader** and **Challenger** are the watchers. Heartbeats that overlap are in
`building`, then on a `topic` that loses and reorders them. The reader keeps a status per
actor and chain (`actorStatus`), the last block each reported (`syncState`), and the
status of `challenges`. A round of challenges takes the inactive actors in turn (`challengeRound`)
and challenges one on all the chains where it is inactive at once (`mapAll`): what it does on a chain
is a call of its own (`challenging`, by round and chain). A round of slashes works on all chains at once too,
and on each takes the challenges in turn (`slashing`). The read of a status, the broadcast, the
receipt and each write are actions of their own, with everything else in between. Three things are
merged: the estimation of gas with the broadcast that follows it, the comparison of times with the read of
the status after it, and the reads of all documents of one query. A timer starts a round whether
or not those before are over. A new process drops the actors, and works with those of the epoch it
started in until the next start. An epoch has one propagation here, at its beginning, while the code takes
`logs[0]`, the oldest event of the newest 10000 blocks that have any
(`get-actors-for-current-epoch.js:44`): with two propagations of one epoch it may work with the first.

These programs see the hub as an instance of `OptimisticQueue` or `ChallengeGame`: the
actions of others (users, relayers, objectors, challengers, the DAO) are the steps these
allow. That is what ties them to `PNetworkHub`, which implements both.

**GovernanceRelay** follows a message. A run of `propagate-actors` reads the epoch, then the
past propagations, then the registrations (`task`), broadcasts and is over; its transaction waits in
`propagations` while the operator may run the task again. `propagateActors` of the emitter can be called
by anybody with any guardians (`OtherLists`): the contract checks only that each sentinel
sent has a registration (kind 0x02 in its epoch) and that the sum of their amounts is the total, where a
sentinel that was sent twice counts twice. `blocks` holds the messages each transaction emitted; `headers` are the checkpoints;
`proofs` the transactions of `verify-message` not mined yet; `verified` what the verifier
took; `inFlight` the messages to hubs, by the verifier or by `handle-telepathy`; `known` what a hub
was last told of an epoch. **MerkleTrees** has the tree of the task and `checkMembership` of the
verifier; the hash of a node stands for what is below it.

Definitions named `Mut...` are plausible mistakes, each beside the definition it
spoils. They are no part of the specification: they show that a property notices.

## 4. The runs

| run | asks | expected |
|---|---|---|
| `hubQueue` | is the queue right, with cancellations, lockdown and two epochs? | pass |
| `hubChallenges` | are challenges, bonds and totals right when messages arrive in their epoch? | pass |
| `hubLateMessages` | which records stay right when messages come an epoch late? | pass |
| `hubQueueLiveness` | does every queued operation leave? | pass |
| `hubBondLiveness` | does every bond leave? | pass |
| `hubLockDownHour` | can one execute until one hour before the end of the epoch? | violated |
| `hubNewActorSet` | does lockdown survive a second actor set in one epoch? | violated |
| `hubLateSlash` | does a slash message cancel only pending challenges? | violated |
| `relayer` | do two loops over one collection keep it true, and settle every report? | pass |
| `guardian` | is fraud objected to and nothing else but what is unreported; are challenges answered? | pass |
| `challenger` | are records true, bonds tracked and silent actors slashed? | pass |
| `governanceRelay` | are messages verified in order and once, when is an epoch propagated twice, and do hubs know the sentinels? | pass |

Every property of a passing run is broken by the mutant that `PROJECT.json` names
for it.

### Bounds, and why they are enough

`MaxTime` covers the second epoch far enough for its actors to act (10 of epochs of
8, 9 of 5, 6 of 4), so that operations and challenges of epoch 0 are met by the
actors, lockdown and messages of epoch 1. `hubQueue` has three operations for a queue
of two, so the queue is full, empties and fills again, and its period takes both its
values; the base period is 1 and the longest one 4, and an extension (2) can end
before or after the lockdown window. One relayer suffices because relayers only
receive their lock back. `hubChallenges` has a guardian and two sentinels, so a
class can be partly inactive, and a second challenge can concern the same actor or
another one; `OneHour` is 2 there so that it is not confused with a challenge
duration of 1. Deadlock is checked everywhere, since messages can always arrive.
Operations (or sentinels) are interchangeable and the safety runs use that
symmetry; the liveness runs do not.

`hubQueue` and `hubQueueLiveness` have no challenges and `hubChallenges` and
`hubBondLiveness` no operations: the queue and the challenges share only inactive
actors, which messages change in `hubQueue` too, and the ether. `hubLateMessages` has
both.

`relayer` (559,000 states) has three operations in a queue of one, emitted by one transaction so that their reports
share a key: one as it should be, one without fee, and one whose execution always reverts
(`Unexecutable`), which only this relayer handles (`Contested`). The collection holds a report of one of them, so it
is the two loops, late copies and other users of the hub that meet here; several reports in one loop are in
`guardian`, and the theorems about the relayer are for any number of them.
One fault (`MaxFaults`) is enough for each program: a crash can hit any step, a log can
be repeated, a provider can fail, and what follows is judged to the end. `guardian`
(347,000 states) has a legitimate operation and one queued on the wrong chain, and
a challenge on each of two chains, one of which the process does not serve. The actors of two
epochs may be propagated, in time or not, so that the proof of the process can be outdated;
`MaxEmitted` bounds the other logs. Reports may come late,
or never, up to `LastArrival`; later ones would only add delay. That a guardian is slashed in the
epoch it dismisses in does not happen within `MaxTime`: the theorem covers that cause. `challenger`
(393,000 states) has an actor to challenge and one that is ignored and belongs to the first epoch only, so
that the actors and their proof go stale. Everything at once is too much, so a behaviour keeps to one of
three bounds (`ThreeBounds`): one challenge through the change of epoch; two challenges on one chain, so that an
actor is challenged again; three on two chains at the first instant, so that one round has
transactions on both and an exit hits them together. In the first two, two slashing rounds overlap until
the first fault; one round challenges at a time. `governanceRelay` (134,000 states)
has two blocks with up to two messages each, an operator who sends twice, others who send all sentinels,
too few or one of them twice, and by the second epoch a guardian that is replaced and a stake that is slashed below
the minimum; `MaxLeaves` checks every tree of up to five blocks, which are
padded to eight. Deadlock is not checked in these four: everything emitted can be settled,
and the operators' tasks need not be run again.

### Fairness

Weak fairness of the clock; of `ProtocolExecuteOperation`, because the finalizer of
`ptokens-request-processor` (`evm-process-final-txs.js`) retries in an infinite loop; of
`SlashByChallenge`, because the state reader calls its slashing loop every ten
seconds (`slash-inactive-actors.js:116`); of propagating the current epoch's actors and
of resuming slashed ones, which the DAO and the actors' owners do
(`propagate-actors.task.js`, `light-resume.task.js`); of claiming a bond, which the
challenger does by hand: no program of the repository calls
`claimLockedAmountStartChallenge`. Actors are assumed not to be slashed by the DAO
over and over for ever. Nobody is obliged to cancel, solve or queue. Since time is
bounded in the model, the liveness properties speak of operations and challenges
early enough for their deadlines to be within the bound.

Of the programs: the steps of a running process, and its start after an exit, since
containers are restarted; that a transaction that was broadcast is mined; that the clock
goes on and the one lockdown ends. The relayer's listeners are fair, the guardian's are
not, because `ObjectsToFraud` and `AnswersChallenges` begin with the report. The loops are faster than
epochs and challenge durations: time waits at the last instant of something a process can
still do in time (`Advance` in `Guardian` and `Challenger`), never longer. Of the
messages: checkpoints are submitted, the operator runs `verify-message` for every
transaction, and its transactions are mined.

### What the runs found

* **Lockdown and the hour** (`hubLockDownHour`). The comment at line 252 says
  executions are allowed "up to 1 hour earlier than the epoch's ending"; line 253
  stops them `maxChallengePeriodDuration` earlier, because queueing and executing
  share `isLockedDown`. An operation queued just before the window waits for the next
  epoch, and then needs its actors to be propagated.
* **Late slash** (`hubLateSlash`). `claimLockedAmountStartChallenge` leaves the pending
  id of the old epoch. A slash message of that epoch that arrives afterwards turns
  `PartiallyUnsolved` into `Cancelled` and pays the bond again, from the ether of
  others. It needs a message that crosses the end of its epoch.
* **Second actor set** (`hubNewActorSet`). `GOVERNANCE_MESSAGE_ACTORS` resets the totals of
  actors but not of inactive ones, which `_isActorsStatusValid` compares for equality.
  After two sentinels were slashed and one left the set, one registered sentinel
  compares unequal to two inactive ones, and the hub works without any active sentinel.

What the off-chain properties hold *in spite of*, each visible as a disjunct or a hypothesis of
a property:

* The second user operation of a transaction has the key of the first, so it gets no
  report: no relayer proposes it through that collection, and a guardian whose collection
  lacks it would dismiss it (`OnlyUnreportedAreDismissed`).
* An operation that meets a full queue when gas is estimated is `failed`, and one that is
  reverted when mined is `skipped`; neither is tried again. An operation that cannot be executed, its fees
  being above its amount, is `failed` by the finalizer while it keeps its slot in the queue
  (`GivesUpOnlyWithCause`).
* A guardian proves itself with the actors that were reported last, of whatever epoch: while
  its listener is behind those of a new epoch, the hub refuses its objection, and the request is
  `failed` for good (`ProofWasOutdatedSince` in `RecordsAreTrue`). The cause is an epoch
  whose actors it did not know; that the actors reported by now are valid ones does not exclude it.
* A challenge of another chain, or one that was answered just before a crash, is refused
  an answer in every round, and those reported after it are never answered
  (`IsBlocked` in `AnswersChallenges`); objections still go through.
* A heartbeat, also an old one, makes a challenged actor `Active` again, and only
  challenged ones are slashed: an actor that goes on sending heartbeats without answering
  is not slashed by this process, so `SilentActorsAreSlashed` is about silent ones.
* A process that stops between the transaction of a challenge and its insertion never
  learns of it (`IsLost`). An actor is challenged on all chains at once, so one exit of one round can lose a
  bond on each of them: `BondsAreTracked` bounds the lost ones of each chain by exits and rounds.
* `verify-message` proves the first message of a transaction only: a transaction that
  emits two stops the verifier for good (`IsUnprovable` in `MessagesAreVerified`).
* `propagate-actors` ends at its broadcast, so an operator who runs it again before the
  transaction is mined propagates the epoch again, as do runs that overlap. A run that is not forced does so
  only if it looked before the first propagation was mined, or in an earlier epoch (`RepeatsOnlyWhatItMissed`).
* Anybody may have the emitter send any guardians to the hubs, so nothing is said of them. Sentinels are
  protected by the sum alone: one that was sent twice can stand in for a missing one of equal
  stake, which `HubsKnowTheSentinels` excludes (`repeated`). What it says of such a list is that
  the sentinels in it may work. `propagate-actors` sends a sentinel twice when two of its registration logs
  cover the epoch; the sum then fails unless another one is missing.

## 5. The proofs

The theorems hold for every value of the constants that meets these assumptions. They
are named in the module that declares the constants, and TLC evaluates them on every run:

* `TimingAssumption` and `HubAssumption`: what the constructor guarantees, finitely many
  operations and actors, an address is a guardian or a sentinel but not both, the zero
  address is nobody. Nothing about message delay, actor sets or who calls what.
* `RelayAssumption`: the test hubs are hubs, the forced processes are processes; finitely many actors
  and registrations; stakes are naturals and the minimum is positive; bounds are naturals.
* `ListenerAssumption`, `ProcessorAssumption`, `RelayerAssumption`: a log is one of
  the events listened for, on a configured network, and has the arguments its event has;
  every loop serves a network; `Operations` has the operations of user logs for those; there
  is one proposing and one finalizing process, whose listeners are those of `UserOperation`;
  `Null` is no report, transaction or receipt.
* `GuardianAssumption`, with the first two of these: one process; an operation has its origin, and is queued
  once, by one log; an epoch is not empty; `Null` is no report or transaction.
* `ReaderAssumption`: challenges name a network, an actor and a nonce; finitely many
  challenges and rounds (a round is a pending call of a timer); durations are naturals; `Bounds` are
  of these networks, challenges and rounds.

Bounds such as `MaxTime`, `MaxChallenges` and `MaxFaults` are arbitrary naturals.

| theorem | property | argument |
|---|---|---|
| `TypeCorrectness`, `CancelsRemove` | `TypeOK`, `TwoCancelsRemove` | `TypeInv` |
| `QueueLengthExact` | `QueueLengthIsExact` | `QueueInv` |
| `PeriodsEndInEpoch` | `PeriodEndsInEpoch` | `PeriodInv`, `PeriodIsBounded` |
| `OneWayOutAlways` | `OneWayOut` | `TypeInv`, `EpochOfMonotone` |
| `SlashKeepsItsHour` | `SlashHasOneHour` | `HourInv` |
| `InactiveTotalsExact` | `InactiveTotalsAreExact` | `InactivityInv` |
| `RecordsAgree` | `PendingIdsAgree` | `RecordsInv` |
| `HubImplementsOptimisticQueue` (`HubPromisesProofs`) | `ImplementsOptimisticQueue` | `TypeInv`, a step of the queue for each action |
| `HubImplementsChallengeGame` * | `ImplementsChallengeGame` | `GameInv` |
| `OnlyPendingAreCancelled` * | `CancelsOnlyPendingChallenges` | `GameInv` |
| `EtherCoversDebts` * | `EtherCoversLocks` | `EtherInv` |
| `PromptMessagesKeepPromises` * | the three before | `RecordsInv` |
| `ProgressWithActiveActors`, `OneRootKeepsProgressSafe` * | `ProgressNeedsActiveActors` | `InactivityInv` |
| `RelayerTypes`, `WritesNeverGoBack` (`RelayerProofs`) | `TypeOK`, `ReportsMoveForward` | `RelayerInv` |
| `CollectionTellsTheTruth` | `CollectionFollowsHub` | `TrueInv` |
| `OnlyLostCausesAreGivenUp` | `GivesUpOnlyWithCause` | `CauseInv` |
| `GuardianTypes` (`GuardianProofs`) | `TypeOK` | `IInv` |
| `DismissalsAreOfUnreported` | `OnlyUnreportedAreDismissed` | `IInv`, `Unreported` |
| `GuardianRecordsAreTrue` | `RecordsAreTrue` | `IInv`, `KnownProof` |
| `ChallengerTypes` (`ChallengerProofs`) | `TypeOK` | `ReaderType` |
| `ChallengeRecordsFollow`, `ActorRecordsFollow` | `ChallengesFollowHub`, `ActorsFollowHub` | `FollowInv` |
| `BondsStayTracked` | `BondsAreTracked` | `BondsInv` |
| `VerificationOrder` (`GovernanceProofs`) | `VerifiedInOrder` | `Shape` |
| `OnlyMissedIsRepeated` | `RepeatsOnlyWhatItMissed` | `Shape`, `RunsLooked` |
| `SentinelsAreKnown` | `HubsKnowTheSentinels` | `EmittedActors` |
| `TypeCorrectness` (of the messages) | `TypeOK` | `Shape`, bounds of each variable |

The starred theorems have a hypothesis, because without it the property is false:
`hubLateSlash` and `hubNewActorSet` show how (section 4).

* `HubImplementsChallengeGame` and `OnlyPendingAreCancelled` need that no
  governance message cancels a challenge of an earlier epoch (`CancelsInTheirEpoch`).
  `PromptMessagesCancelInTheirEpoch` shows that messages that arrive in the epoch
  they were sent in (`MessageLag = 0`, as in `hubChallenges`) are enough. Late roots,
  resumes and slashes that find no challenge need not be excluded.
* `EtherCoversDebts` needs less: that cancelled challenges were pending.
* `ProgressWithActiveActors` needs that inactive actors are registered in the epoch
  (`InactiveAreRegistered`), of which one actor set for every epoch is an instance.

### The hub

`PNetworkHubProofs` begins with the lemmas about the arithmetic: when a wrapping counter is exact
(`Uint16Exact`, `QueueCounterExact`), that epochs follow the clock
(`EpochOfMonotone`), and that a challenge period is at most
`maxChallengePeriodDuration` as long as the queue is within its limit
(`PeriodIsBounded`). The invariants build on one another:

* `TypeInv` is `TypeOK` with two more conjuncts. `totalCancelActions` is a number of
  0..2 only because the second cancel action removes the operation
  (`TwoCancelsRemove`), and slashing or solving writes the status of an actor only
  because a challenge that is not `Null` names one (`ChallengesRecorded`).
* `QueueInv` adds that the length of the queue is exact and within
  `maxOperationsInQueue`. Exactness and bound need each other: the counter wraps, so
  it is exact only while it is bounded, and the limit holds only because the test in
  `protocolQueueOperation` compares the exact number.
* `PeriodInv` adds that a queued operation entered before the lockdown window of its
  epoch (`QueuedBeforeWindow`). With `PeriodIsBounded` the period of an operation nobody
  objects to then ends in the epoch, however long the queue becomes.
* `HourInv` adds to `TypeInv` that ids from the nonce on are unused (`FreshNonce`):
  starting a challenge must not overwrite a pending one.
* `InactivityInv` adds exactness of the totals. A total moves only with the bit of an
  actor, so it is a cardinality; it does not wrap since a class has at most `MaxUint16`
  actors, what a governance message can announce.
* `RecordsInv` adds `PendingIdsAgree` to `HourInv`. That a pending id may also name a
  `PartiallyUnsolved` challenge is what survives a claim, and what a slash message that
  comes after it meets.
* `GameInv` adds to `RecordsInv` that `PartiallyUnsolved` challenges, whose bond was claimed,
  are of earlier epochs (`ClaimedAreOld`). So a slash in the epoch of a challenge finds
  it only while it is pending, and each change of a status is a step of the game.
* `EtherInv` adds `EtherCoversLocks` to `GameInv`: the balance is the sum of what is owed, and each
  action moves both by the same lock (the cardinality of queued operations and of
  pending challenges changes by one).

Most proofs first reduce the thirteen actions to the few things they can do to the
records at hand (`StepKinds`, `ChallengeKinds`, `InactivityKinds`), and then treat those.

### The relayer

A loop writes back whole reports that it read several steps before, while the listeners,
the chain and the other loop go on. `StepKind` reduces the steps of all of them to nine
kinds: a loop collects, compares with the chain, sends, settles, writes or quits; a
transaction is mined; listeners listen; the chain moves.

* `RelayerInv`: types with what each step of a loop holds (`RoundOK`), and `CopiesHold`:
  while the proposer holds a report the collection has it as detected, while the finalizer
  holds one the collection has it as proposed with the same hash. So the loops never
  hold the same report, and a whole write takes nothing back.
* `TrueInv` adds that the copies in the loops and the receipts tell the truth, and that what
  is true of an operation stays true while the hub goes on (`TruthLasts`).
* `CauseInv`: without a fault every transaction is awaited by the loop that sent it
  (`AllAreAwaited`), what a transaction of ours queued is recorded or about to be
  (`OursAreRecorded`: it is in the receipt, in what is done, or in what is being
  written), an operation is cancelled only after an objection, and everything failed or
  skipped, in the collection, in a copy or by a receipt, has a cause that lasts (`GivenUpInv`).

`RequestProcessorProofs` has the lemmas about reports, their keys and the rounds of a loop;
they hold for any loop of the processor.

### The guardian

The process matches a request against the collection, then fetches its proof, estimates, sends,
waits and writes, while reports come in, others object and challenges end. So what it
acts on must be put in a form that stays true. `Progress` is what no step takes back: a report keeps
its identity (`SameReport`: all but its status and final hash) and the time it was witnessed, a
new one is witnessed now, objections only grow, and an operation or challenge that is over
stays as it ended. From it each part of the invariant `IInv` lasts (`StepsProgress`):

* `Unreported`: there is a report of the queueing, and every report of the user operation that the
  collection has, or will have, is no earlier. It holds when `isRequestInvalid` says so, and then
  of the request in the round, the transaction in the mempool (`MempoolOK`) and what
  was mined (`OursOK`).
* `KnownProof`: the proof is of actors that were the newest reported when the process
  fetched it: later reports were witnessed at that time or after. If the hub refuses it, its actors are of an older epoch
  (`ProofWasOutdatedSince`) or the guardian was slashed (`WasSlashedSince`). Both speak of what happened
  since the report and last; that the proof is not valid *now* would not.
* `HeldOK`, `RoundOK`: a copy in the round is a report of the collection in all but its status, and
  what its status says is true of the hub or about to be: the receipt of the
  transaction that the round waits for is true as well.

### The challenger

* `ReaderType`: the types of `TypeOK` with what each step of a round holds on a chain: a call works
  on its own chain, so calls of one round never meet.
* `FollowInv`: the records of challenges and actors are true, and so is what a round is
  about to record. A challenge that is over stays as it ended (`HubsGoOn`), so what an
  overlapping round read before it acts can be out of date but not become false.
* `BondsInv`, for every chain: a transaction of this run of the process is awaited by its call
  (`AwaitedAreWaitedFor`), and lost challenges of the chain, with the orphans an exit left in the
  mempool for it, number at most one for each round and fault (`FewAreLost`). An orphan that is
  mined turns into a lost challenge, and the count stays; an exit adds at most one for
  each round, what its call on that chain had under way (`ExitLosesOnePerRound`).

### The messages

For any hubs, processes, registrations and bounds (`GovernanceProofs`):

* `Shape` says that blocks, checkpoints and waiting proofs refer to what exists. Blocks
  only grow (`StepEmits`), so a proof built earlier still names the same message when it
  is mined; the verifier's test of the nonce then gives the order.
* `RunsLooked`: when a run looked, no message of the epoch it read was in the blocks until then; this
  holds of the process, of its transaction, and of the message that came of it. So what the run repeats is
  in a later block, or of a later epoch.
* `EmittedActors`: the sentinels of a message are among those that may work in the emitter's epoch, and all
  of them unless one was sent repeatedly. Amounts are sets of units here (`CumulativeAmount`), so that
  equal sums of lists without repetition are equal sets, and no sentinel with an amount is
  missing (`ValidAmountsCoverSentinels`).

### Only model-checked

Liveness (fairness is beyond the prover), `ActiveActorCanCancel` (ENABLED), and
`ProofsIdentifyBlocks`: the tree is built by recursion over its levels, and induction
over data is out of the prover's reach. Every other invariant and action property of the passing
runs is a theorem.

## 6. Not modelled, and why

* Inside an execution: fees, mint, burn, forward and the receiver's callback
  (`receiveUserData`, line 389). An operation for which they revert belongs to
  `Unexecutable`. Transactions are atomic here, so a callback that calls the hub again while
  the operation is still `Queued` is not followed. `protocolExecuteOperation` is
  payable; the finalizer sends no ether and the model sends none.
* `PToken`, `PFactory`, `PRegistry`, `PReceiver`: token accounting over OpenZeppelin contracts. `Slasher`:
  it forwards to the DAO's contracts, which are not in the repository; its effect, slash
  messages that come late, is in the hub model.
* In `GovernanceRelay` registrations and the stakes of an epoch do not change; the totals of the staking and
  lending contracts, which are not in the repository, are taken to be the sum over registered sentinels. Which
  actor a slash or resume names is left out, and their messages are
  not followed to the hubs (the hub model takes them in any order). A relay that fails is a
  message that is never delivered. `--dry` sends nothing and is left out.
* A hub counts a sentinel that was sent twice as two (`length`s in the message), and `PNetworkHub` here takes sets
  of actors: what the theorems about totals say is of messages without repetition.
* Signatures, receipts' Merkle Patricia proofs, RLP and hashes: a root is the set it
  commits to, a signature is the actor who made it, an id is what it is the hash of.
* The clock of the challenger is that of the chain, and the measured block time is the true one.
* Gas, logging, file access, keys, HTTP, configuration, `--dry-run`, and view functions without
  effect; deployment and maintenance tasks, which are one call each; docker stages and
  apps.
