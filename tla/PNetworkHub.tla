------------------------------ MODULE PNetworkHub ------------------------------
(***************************************************************************)
(* The PNetworkHub contract of one network: the optimistic queue of        *)
(* operations (queue, cancel, execute) and the challenges that keep the    *)
(* actors (guardians and sentinels) alive, together with the governance    *)
(* messages that arrive from the DAO.                                      *)
(*                                                                         *)
(* A definition named Mut... is not part of the specification: it is the   *)
(* definition below it with a plausible mistake, used to test that the     *)
(* properties notice.                                                      *)
(*                                                                         *)
(* Every action is one transaction that does not revert; a transaction     *)
(* that would revert is an action that is not enabled.  A transfer that    *)
(* its receiver refuses reverts the whole transaction.                     *)
(***************************************************************************)
EXTENDS EpochsAndPeriods, FiniteSets

CONSTANTS
    Operations,         \* operation ids
    Unexecutable,       \* operations whose execution reverts (fees above the amount, no pToken, ...)
    Guardians, Sentinels,
    Relayers,           \* accounts that queue operations
    Challengers,        \* accounts that start challenges
    AcceptsEther,       \* accounts whose code accepts plain ether
    ZeroAddress,
    IsInterimChain,     \* this hub is the one of the interim chain
    ActorSets,          \* the sets of actors a GOVERNANCE_MESSAGE_ACTORS may carry
    MessageLag,         \* how many epochs late a governance message may arrive
    LockedAmountChallengePeriod,
    LockedAmountStartChallenge,
    MaxChallenges,      \* bound on challengesNonce
    MaxTime             \* bound on block.timestamp

Actors == Guardians \cup Sentinels
ActorClasses == {"Guardian", "Sentinel"}
CancelClasses == ActorClasses \cup {"Governance"}
Epochs == 0..EpochOf(MaxTime)
ChallengeIds == 0..(MaxChallenges - 1)
None == -1                  \* bytes32(0) where a challenge id is expected

ActorsOfClass(class) == IF class = "Guardian" THEN Guardians ELSE Sentinels
ClassOf(actor) == IF actor \in Guardians THEN "Guardian" ELSE "Sentinel"

OperationStatuses == {"NotQueued", "Queued", "Executed", "Cancelled"}
ChallengeStatuses ==
    {"Null", "Pending", "Solved", "Unsolved", "PartiallyUnsolved", "Cancelled"}

(***************************************************************************)
(* An address is registered once, as a guardian or as a sentinel; totals   *)
(* of actors are uint16 in GOVERNANCE_MESSAGE_ACTORS.                      *)
(***************************************************************************)
ASSUME HubAssumption ==
    /\ IsFiniteSet(Operations)
    /\ Unexecutable \subseteq Operations
    /\ IsFiniteSet(Actors) /\ Cardinality(Actors) <= MaxUint16
    /\ Guardians \cap Sentinels = {}
    /\ ZeroAddress \notin Actors \cup Relayers \cup Challengers
    /\ IsInterimChain \in BOOLEAN
    /\ ActorSets \subseteq SUBSET Actors
    /\ MessageLag \in Nat
    /\ LockedAmountChallengePeriod \in Nat
    /\ LockedAmountStartChallenge \in Nat
    /\ MaxChallenges \in Nat
    /\ MaxTime \in Nat

VARIABLES
    now,                    \* block.timestamp
    balance,                \* ether held by the contract
    \* the queue
    operationsStatus,
    relayerQueueAction,     \* who queued an operation, and when
    cancelActions,          \* the classes with a recorded cancel action, per operation
    totalCancelActions,
    numberOfOperationsInQueue,
    \* the actors, per epoch
    epochsActors,           \* what actorsMerkleRoot commits to; {} is no root
    inactiveActors,         \* actors with STATUS_INACTIVE
    totalInactive,          \* _epochsTotalNumberOfInactiveActors
    \* the challenges
    challenges,
    challengesStatus,
    challengesNonce,
    challengedActors,       \* actors with STATUS_CHALLENGED, per epoch
    pendingChallengeId      \* per epoch and actor

queueVars == <<operationsStatus, relayerQueueAction, cancelActions,
               totalCancelActions, numberOfOperationsInQueue>>
inactivityVars == <<inactiveActors, totalInactive>>
challengeVars == <<challenges, challengesStatus, challengesNonce,
                   challengedActors, pendingChallengeId>>
vars == <<now, balance, queueVars, epochsActors, inactivityVars, challengeVars>>

NoAction == [actor |-> ZeroAddress, timestamp |-> 0]
NoChallenge == [actor |-> ZeroAddress, challenger |-> ZeroAddress, timestamp |-> 0]

-----------------------------------------------------------------------------
(***************************************************************************)
(* Views of the state.                                                     *)
(***************************************************************************)

CurrentEpoch == EpochOf(now)

TotalActors(epoch, class) == Cardinality(epochsActors[epoch] \cap ActorsOfClass(class))

\* _isActor: the proofs are against the root of the current epoch only.
IsActor(actor) == actor \in epochsActors[CurrentEpoch]

\* Mistake: a hub without actors of one class goes on, its other class being active.
MutIsActorsStatusValid ==
    /\ epochsActors[CurrentEpoch] # {}
    /\ \E class \in ActorClasses :
          totalInactive[CurrentEpoch][class] # TotalActors(CurrentEpoch, class)

IsActorsStatusValid ==
    /\ epochsActors[CurrentEpoch] # {}
    /\ \A class \in ActorClasses :
          totalInactive[CurrentEpoch][class] # TotalActors(CurrentEpoch, class)

IsLockedDown == ~IsActorsStatusValid \/ InLockDownWindow(now)

CurrentChallengePeriodDuration == ChallengePeriodDuration(numberOfOperationsInQueue)

(***************************************************************************)
(* _challengePeriodOf: the end moves with the length of the queue, and by  *)
(* five days for each class of actors whose cancel action is recorded once *)
(* the total of cancel actions is no longer zero.                          *)
(***************************************************************************)
Extension(classes) == FiveDays * Cardinality(classes \cap ActorClasses)

EndOfChallengePeriod(op, total, classes) ==
    relayerQueueAction[op].timestamp + CurrentChallengePeriodDuration
      + IF total = 0 THEN 0 ELSE Extension(classes)

\* Mistake: objections do not extend the period.
MutChallengePeriodTerminated(op) ==
    now >= relayerQueueAction[op].timestamp + CurrentChallengePeriodDuration

\* Mistake: an operation is tied to the epoch it was queued in, as a challenge is.
MutTerminatedInItsEpoch(op) ==
    /\ EpochOf(relayerQueueAction[op].timestamp) = CurrentEpoch
    /\ now >= EndOfChallengePeriod(op, totalCancelActions[op], cancelActions[op])

ChallengePeriodTerminated(op) ==
    now >= EndOfChallengePeriod(op, totalCancelActions[op], cancelActions[op])

\* getChallengeEpoch.
ChallengeEpoch(id) == EpochOf(challenges[id].timestamp)

\* The status a handler reads: the mapping is keyed by epoch, then by id.
StatusInEpoch(epoch, id) ==
    IF ChallengeEpoch(id) = epoch THEN challengesStatus[id] ELSE "Null"

\* Mistake: no limit but the end of the epoch.
MutSolveWindow(id) == ChallengeEpoch(id) = CurrentEpoch

SolveWindow(id) ==
    ChallengeEpoch(id) = CurrentEpoch /\ now <= challenges[id].timestamp + ChallengeDuration

\* Mistake: the last moment to solve is also the first to slash.
MutSlashWindow(id) ==
    ChallengeEpoch(id) = CurrentEpoch /\ now >= challenges[id].timestamp + ChallengeDuration

SlashWindow(id) ==
    ChallengeEpoch(id) = CurrentEpoch /\ now > challenges[id].timestamp + ChallengeDuration

\* Mistake: the status is looked up in the current epoch, like slashByChallenge does.
MutClaimWindow(id) ==
    ChallengeEpoch(id) = CurrentEpoch /\ now > challenges[id].timestamp + ChallengeDuration

ClaimWindow(id) == ChallengeEpoch(id) < CurrentEpoch

-----------------------------------------------------------------------------
(***************************************************************************)
(* Steps shared by several handlers.                                       *)
(***************************************************************************)

\* Utils.sendEther: a refusal, or too little ether, reverts the caller.
SendEther(to, amount) ==
    /\ to \in AcceptsEther \cup {ZeroAddress}
    /\ balance >= amount
    /\ balance' = balance - amount

\* Mistake: an inactive actor is counted again.
MutSetActorInactive(epoch, actor) ==
    /\ totalInactive' = [totalInactive EXCEPT ![epoch][ClassOf(actor)] = Uint16(@ + 1)]
    /\ inactiveActors' = [inactiveActors EXCEPT ![epoch] = @ \cup {actor}]

SetActorInactive(epoch, actor) ==
    IF actor \in inactiveActors[epoch]
    THEN UNCHANGED inactivityVars
    ELSE /\ totalInactive' = [totalInactive EXCEPT ![epoch][ClassOf(actor)] = Uint16(@ + 1)]
         /\ inactiveActors' = [inactiveActors EXCEPT ![epoch] = @ \cup {actor}]

\* Mistake: the bit of the current epoch is tested.
MutSetActorActive(epoch, actor) ==
    IF actor \in inactiveActors[CurrentEpoch]
    THEN /\ totalInactive' = [totalInactive EXCEPT ![epoch][ClassOf(actor)] = Uint16(@ - 1)]
         /\ inactiveActors' = [inactiveActors EXCEPT ![epoch] = @ \ {actor}]
    ELSE UNCHANGED inactivityVars

SetActorActive(epoch, actor) ==
    IF actor \in inactiveActors[epoch]
    THEN /\ totalInactive' = [totalInactive EXCEPT ![epoch][ClassOf(actor)] = Uint16(@ - 1)]
         /\ inactiveActors' = [inactiveActors EXCEPT ![epoch] = @ \ {actor}]
    ELSE UNCHANGED inactivityVars

\* Mistake: the pending id survives the challenge.
MutCloseChallenge(epoch, id, status) ==
    /\ challengesStatus' = [challengesStatus EXCEPT ![id] = status]
    /\ challengedActors' = [challengedActors EXCEPT ![epoch] = @ \ {challenges[id].actor}]
    /\ UNCHANGED <<pendingChallengeId, challenges, challengesNonce>>

\* The three writes of solving, slashing and cancelling a challenge.
CloseChallenge(epoch, id, status) ==
    /\ challengesStatus' = [challengesStatus EXCEPT ![id] = status]
    /\ challengedActors' = [challengedActors EXCEPT ![epoch] = @ \ {challenges[id].actor}]
    /\ pendingChallengeId' = [pendingChallengeId EXCEPT ![epoch][challenges[id].actor] = None]
    /\ UNCHANGED <<challenges, challengesNonce>>

-----------------------------------------------------------------------------
(***************************************************************************)
(* The queue.                                                              *)
(***************************************************************************)

\* Mistake: the end of the period is stored instead of its start.
MutQueueAction(relayer) ==
    [actor |-> relayer, timestamp |-> now + CurrentChallengePeriodDuration]

QueueAction(relayer) == [actor |-> relayer, timestamp |-> now]

ProtocolQueueOperation(op, relayer) ==
    /\ ~IsLockedDown
    /\ numberOfOperationsInQueue < MaxOperationsInQueue
    /\ operationsStatus[op] = "NotQueued"
    /\ relayerQueueAction' = [relayerQueueAction EXCEPT ![op] = QueueAction(relayer)]
    /\ operationsStatus' = [operationsStatus EXCEPT ![op] = "Queued"]
    /\ numberOfOperationsInQueue' = Uint16(numberOfOperationsInQueue + 1)
    /\ balance' = balance + LockedAmountChallengePeriod
    /\ UNCHANGED <<now, cancelActions, totalCancelActions, epochsActors,
                   inactivityVars, challengeVars>>

\* Mistake: a second class does not finalize by itself.
MutFinalizesCancel(op, class) ==
    now >= EndOfChallengePeriod(op, totalCancelActions[op], cancelActions[op] \cup {class})

(***************************************************************************)
(* The end of _protocolCancelOperation: the period is read after the       *)
(* action is recorded and before the total is incremented.                 *)
(***************************************************************************)
FinalizesCancel(op, class) ==
    \/ now >= EndOfChallengePeriod(op, totalCancelActions[op], cancelActions[op] \cup {class})
    \/ totalCancelActions[op] + 1 = 2

\* Mistake: the slot is not given back.
MutRemoveCancelledOperation(op) ==
    /\ operationsStatus' = [operationsStatus EXCEPT ![op] = "Cancelled"]
    /\ SendEther(ZeroAddress, LockedAmountChallengePeriod)
    /\ UNCHANGED numberOfOperationsInQueue

\* The lock of a cancelled operation goes to address zero (TODO in the code: the DAO).
RemoveCancelledOperation(op) ==
    /\ numberOfOperationsInQueue' = Uint16(numberOfOperationsInQueue - 1)
    /\ operationsStatus' = [operationsStatus EXCEPT ![op] = "Cancelled"]
    /\ SendEther(ZeroAddress, LockedAmountChallengePeriod)

CancelOperation(op, class) ==
    /\ operationsStatus[op] = "Queued"
    /\ class \notin cancelActions[op]
    /\ cancelActions' = [cancelActions EXCEPT ![op] = @ \cup {class}]
    /\ totalCancelActions' = [totalCancelActions EXCEPT ![op] = @ + 1]
    /\ IF FinalizesCancel(op, class)
       THEN RemoveCancelledOperation(op)
       ELSE UNCHANGED <<numberOfOperationsInQueue, operationsStatus, balance>>
    /\ UNCHANGED <<now, relayerQueueAction, epochsActors, inactivityVars, challengeVars>>

\* Mistake: the lockdown of the other entry points, which includes the end of the epoch.
MutMayCancel(actor) ==
    /\ ~IsLockedDown
    /\ IsActor(actor)
    /\ actor \notin inactiveActors[CurrentEpoch]

MayCancel(actor) ==
    /\ IsActorsStatusValid
    /\ IsActor(actor)
    /\ actor \notin inactiveActors[CurrentEpoch]

\* The signature of `actor` over the operation may be sent by anyone.
ProtocolCancelOperation(op, actor) ==
    /\ MayCancel(actor)
    /\ CancelOperation(op, ClassOf(actor))

\* Called by DandelionVoting on the interim chain; lockdown does not stop it.
ProtocolGovernanceCancelOperation(op) ==
    /\ IsInterimChain
    /\ CancelOperation(op, "Governance")

\* Mistake: the lock stays in the hub.
MutReleaseOperation(op) ==
    /\ operationsStatus' = [operationsStatus EXCEPT ![op] = "Executed"]
    /\ numberOfOperationsInQueue' = Uint16(numberOfOperationsInQueue - 1)
    /\ UNCHANGED balance

ReleaseOperation(op) ==
    /\ operationsStatus' = [operationsStatus EXCEPT ![op] = "Executed"]
    /\ SendEther(relayerQueueAction[op].actor, LockedAmountChallengePeriod)
    /\ numberOfOperationsInQueue' = Uint16(numberOfOperationsInQueue - 1)

(***************************************************************************)
(* The fees and the mint, burn or forward that an execution performs are   *)
(* outside this module; an operation for which they revert is in           *)
(* Unexecutable.  The handler is payable, but the finalizer sends no ether *)
(* with it.                                                                *)
(***************************************************************************)
ProtocolExecuteOperation(op) ==
    /\ ~IsLockedDown
    /\ operationsStatus[op] = "Queued"
    /\ ChallengePeriodTerminated(op)
    /\ op \notin Unexecutable
    /\ ReleaseOperation(op)
    /\ UNCHANGED <<now, relayerQueueAction, cancelActions, totalCancelActions,
                   epochsActors, inactivityVars, challengeVars>>

-----------------------------------------------------------------------------
(***************************************************************************)
(* The challenges.                                                         *)
(***************************************************************************)

\* Mistake: the wrong status bit is tested.
MutMayBeChallenged(actor) == actor \notin inactiveActors[CurrentEpoch]

\* Inactive actors may be challenged, actors with a running challenge may not.
MayBeChallenged(actor) == actor \notin challengedActors[CurrentEpoch]

StartChallenge(actor, challenger) ==
    /\ challengesNonce < MaxChallenges
    /\ ~NearToEpochEnd(now)
    /\ IsActor(actor)
    /\ MayBeChallenged(actor)
    /\ challenges' = [challenges EXCEPT ![challengesNonce] =
          [actor |-> actor, challenger |-> challenger, timestamp |-> now]]
    /\ challengesStatus' = [challengesStatus EXCEPT ![challengesNonce] = "Pending"]
    /\ challengedActors' = [challengedActors EXCEPT ![CurrentEpoch] = @ \cup {actor}]
    /\ pendingChallengeId' =
          [pendingChallengeId EXCEPT ![CurrentEpoch][actor] = challengesNonce]
    /\ challengesNonce' = challengesNonce + 1
    /\ balance' = balance + LockedAmountStartChallenge
    /\ UNCHANGED <<now, queueVars, epochsActors, inactivityVars>>

\* The challenged actor itself signs, and must be registered in the current epoch.
SolveChallenge(id) ==
    /\ StatusInEpoch(CurrentEpoch, id) = "Pending"
    /\ SolveWindow(id)
    /\ IsActor(challenges[id].actor)
    /\ SendEther(ZeroAddress, LockedAmountStartChallenge)
    /\ SetActorActive(CurrentEpoch, challenges[id].actor)
    /\ CloseChallenge(CurrentEpoch, id, "Solved")
    /\ UNCHANGED <<now, queueVars, epochsActors>>

(***************************************************************************)
(* On the interim chain the Slasher is called in the same transaction,     *)
(* elsewhere a UserOperation asks for it; both are outside this module.    *)
(***************************************************************************)
SlashByChallenge(id) ==
    /\ StatusInEpoch(CurrentEpoch, id) = "Pending"
    /\ SlashWindow(id)
    /\ SendEther(challenges[id].challenger, LockedAmountStartChallenge)
    /\ SetActorInactive(CurrentEpoch, challenges[id].actor)
    /\ CloseChallenge(CurrentEpoch, id, "Unsolved")
    /\ UNCHANGED <<now, queueVars, epochsActors>>

\* The pending id and the challenged bit of the old epoch stay as they are.
ClaimLockedAmountStartChallenge(id) ==
    /\ StatusInEpoch(ChallengeEpoch(id), id) = "Pending"
    /\ ClaimWindow(id)
    /\ challengesStatus' = [challengesStatus EXCEPT ![id] = "PartiallyUnsolved"]
    /\ SendEther(challenges[id].challenger, LockedAmountStartChallenge)
    /\ UNCHANGED <<now, queueVars, epochsActors, inactivityVars, challenges,
                   challengesNonce, challengedActors, pendingChallengeId>>

-----------------------------------------------------------------------------
(***************************************************************************)
(* Governance messages.  The emitter stamps a message with its current     *)
(* epoch; it reaches the hub in that epoch or up to MessageLag epochs      *)
(* later, in any order.                                                    *)
(***************************************************************************)

MessageEpochs == {e \in Epochs : e <= CurrentEpoch /\ CurrentEpoch <= e + MessageLag}

OnActors(epoch, actors) ==
    /\ epochsActors' = [epochsActors EXCEPT ![epoch] = actors]
    /\ UNCHANGED <<now, balance, queueVars, inactivityVars, challengeVars>>

\* Mistake: the challenge is closed in the current epoch, not in the message's.
MutMaybeCancelPendingChallenge(epoch, actor) ==
    LET id == pendingChallengeId[epoch][actor] IN
    IF id = None
    THEN UNCHANGED <<balance, challengeVars>>
    ELSE /\ CloseChallenge(CurrentEpoch, id, "Cancelled")
         /\ SendEther(challenges[id].challenger, LockedAmountStartChallenge)

MaybeCancelPendingChallenge(epoch, actor) ==
    LET id == pendingChallengeId[epoch][actor] IN
    IF id = None
    THEN UNCHANGED <<balance, challengeVars>>
    ELSE /\ CloseChallenge(epoch, id, "Cancelled")
         /\ SendEther(challenges[id].challenger, LockedAmountStartChallenge)

OnSlashActor(epoch, actor) ==
    /\ MaybeCancelPendingChallenge(epoch, actor)
    /\ SetActorInactive(epoch, actor)
    /\ UNCHANGED <<now, queueVars, epochsActors>>

OnResumeActor(epoch, actor) ==
    /\ SetActorActive(epoch, actor)
    /\ UNCHANGED <<now, balance, queueVars, epochsActors, challengeVars>>

OnGovernanceCancelOperation(op) == CancelOperation(op, "Governance")

-----------------------------------------------------------------------------

Tick ==
    /\ now < MaxTime
    /\ now' = now + 1
    /\ UNCHANGED <<balance, queueVars, epochsActors, inactivityVars, challengeVars>>

Init ==
    /\ now = 0
    /\ balance = 0
    /\ operationsStatus = [op \in Operations |-> "NotQueued"]
    /\ relayerQueueAction = [op \in Operations |-> NoAction]
    /\ cancelActions = [op \in Operations |-> {}]
    /\ totalCancelActions = [op \in Operations |-> 0]
    /\ numberOfOperationsInQueue = 0
    /\ epochsActors = [e \in Epochs |-> {}]
    /\ inactiveActors = [e \in Epochs |-> {}]
    /\ totalInactive = [e \in Epochs |-> [class \in ActorClasses |-> 0]]
    /\ challenges = [id \in ChallengeIds |-> NoChallenge]
    /\ challengesStatus = [id \in ChallengeIds |-> "Null"]
    /\ challengesNonce = 0
    /\ challengedActors = [e \in Epochs |-> {}]
    /\ pendingChallengeId = [e \in Epochs |-> [actor \in Actors |-> None]]

Next ==
    \/ Tick
    \/ \E op \in Operations, relayer \in Relayers : ProtocolQueueOperation(op, relayer)
    \/ \E op \in Operations, actor \in Actors : ProtocolCancelOperation(op, actor)
    \/ \E op \in Operations : ProtocolGovernanceCancelOperation(op)
    \/ \E op \in Operations : ProtocolExecuteOperation(op)
    \/ \E actor \in Actors, challenger \in Challengers : StartChallenge(actor, challenger)
    \/ \E id \in ChallengeIds : SolveChallenge(id)
    \/ \E id \in ChallengeIds : SlashByChallenge(id)
    \/ \E id \in ChallengeIds : ClaimLockedAmountStartChallenge(id)
    \/ \E epoch \in MessageEpochs, actors \in ActorSets : OnActors(epoch, actors)
    \/ \E epoch \in MessageEpochs, actor \in Actors : OnSlashActor(epoch, actor)
    \/ \E epoch \in MessageEpochs, actor \in Actors : OnResumeActor(epoch, actor)
    \/ \E op \in Operations : OnGovernanceCancelOperation(op)

Spec == Init /\ [][Next]_vars

===============================================================================
