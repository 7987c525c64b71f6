------------------------- MODULE PNetworkHubProperties -------------------------
(***************************************************************************)
(* What should be true of PNetworkHub: invariants, action properties, the  *)
(* abstract specifications it implements and the liveness it has when the  *)
(* off-chain programs keep running.                                        *)
(***************************************************************************)
EXTENDS PNetworkHub

QueuedOperations == {op \in Operations : operationsStatus[op] = "Queued"}
PendingChallenges == {id \in ChallengeIds : challengesStatus[id] = "Pending"}
QueueTime(op) == relayerQueueAction[op].timestamp

ActiveActors(class) ==
    (epochsActors[CurrentEpoch] \cap ActorsOfClass(class)) \ inactiveActors[CurrentEpoch]

-----------------------------------------------------------------------------
(* Invariants *)

TypeOK ==
    /\ now \in 0..MaxTime
    /\ balance \in Nat
    /\ operationsStatus \in [Operations -> OperationStatuses]
    /\ relayerQueueAction \in
          [Operations -> [actor : Relayers \cup {ZeroAddress}, timestamp : 0..MaxTime]]
    /\ cancelActions \in [Operations -> SUBSET CancelClasses]
    /\ totalCancelActions \in [Operations -> 0..3]
    /\ numberOfOperationsInQueue \in 0..MaxUint16
    /\ epochsActors \in [Epochs -> SUBSET Actors]
    /\ inactiveActors \in [Epochs -> SUBSET Actors]
    /\ totalInactive \in [Epochs -> [ActorClasses -> 0..MaxUint16]]
    /\ challenges \in
          [ChallengeIds -> [actor : Actors \cup {ZeroAddress},
                            challenger : Challengers \cup {ZeroAddress},
                            timestamp : 0..MaxTime]]
    /\ challengesStatus \in [ChallengeIds -> ChallengeStatuses]
    /\ challengesNonce \in 0..MaxChallenges
    /\ challengedActors \in [Epochs -> SUBSET Actors]
    /\ pendingChallengeId \in [Epochs -> [Actors -> ChallengeIds \cup {None}]]

(***************************************************************************)
(* The unchecked uint16 counter that every challenge period is computed    *)
(* from is the number of queued operations, and the queue never holds more *)
(* than maxOperationsInQueue: each of the three ways out of the queue      *)
(* gives its slot back once (_protocolCancelOperation,                     *)
(* _releaseOperationLockedAmountChallengePeriod).                          *)
(***************************************************************************)
QueueLengthIsExact ==
    /\ numberOfOperationsInQueue = Cardinality(QueuedOperations)
    /\ numberOfOperationsInQueue <= MaxOperationsInQueue

(***************************************************************************)
(* The ether of the hub is what it still owes: one lock for each queued    *)
(* operation, one bond for each pending challenge.  So no release, refund  *)
(* or claim can fail for lack of ether, and nothing is stuck.              *)
(***************************************************************************)
EtherCoversLocks ==
    balance = LockedAmountChallengePeriod * Cardinality(QueuedOperations)
                + LockedAmountStartChallenge * Cardinality(PendingChallenges)

(***************************************************************************)
(* The test == 2 of _protocolCancelOperation never sees the total jump     *)
(* over it: an operation still in the queue, or executed, had at most one  *)
(* cancel action, and a cancelled one had one (late) or two.               *)
(***************************************************************************)
TwoCancelsRemove ==
    \A op \in Operations :
       /\ totalCancelActions[op] = Cardinality(cancelActions[op])
       /\ operationsStatus[op] = "NotQueued" => totalCancelActions[op] = 0
       /\ operationsStatus[op] \in {"Queued", "Executed"} => totalCancelActions[op] <= 1
       /\ operationsStatus[op] = "Cancelled" => totalCancelActions[op] \in 1..2

(***************************************************************************)
(* Whatever is queued after it, an operation nobody objects to ends its    *)
(* challenge period in the epoch it was queued in, more than one hour      *)
(* before the end: the lockdown window is wide enough for the longest      *)
(* period the queue length can produce.                                    *)
(***************************************************************************)
PeriodEndsInEpoch ==
    \A op \in QueuedOperations :
       cancelActions[op] \cap ActorClasses = {} =>
          EndOfChallengePeriod(op, totalCancelActions[op], cancelActions[op])
             < EpochEnd(EpochOf(QueueTime(op))) - OneHour

(***************************************************************************)
(* An active, registered actor whose class has not objected yet can always *)
(* object to a queued operation, in the lockdown window and after the      *)
(* period too: no state of the hub makes protocolCancelOperation revert    *)
(* for it while the hub has active actors of both classes.                 *)
(***************************************************************************)
ActiveActorCanCancel ==
    \A op \in QueuedOperations, class \in ActorClasses :
       (IsActorsStatusValid /\ class \notin cancelActions[op]) =>
          \A actor \in ActiveActors(class) : ENABLED ProtocolCancelOperation(op, actor)

(***************************************************************************)
(* The three records of a running challenge agree, in every epoch: a       *)
(* pending id names a challenge against that actor in that epoch, whose    *)
(* bit is set and which is unresolved (pending, or claimed in a later      *)
(* epoch); and every pending challenge is the pending id of its actor, so  *)
(* an actor has at most one per epoch.                                     *)
(***************************************************************************)
PendingIdsAgree ==
    /\ \A e \in Epochs, actor \in Actors :
          LET id == pendingChallengeId[e][actor] IN
          /\ id # None <=> actor \in challengedActors[e]
          /\ id # None => /\ challenges[id].actor = actor
                          /\ ChallengeEpoch(id) = e
                          /\ challengesStatus[id] \in {"Pending", "PartiallyUnsolved"}
    /\ \A id \in PendingChallenges :
          pendingChallengeId[ChallengeEpoch(id)][challenges[id].actor] = id

(***************************************************************************)
(* The time to solve a challenge is over at least one hour before the      *)
(* epoch ends, so that a slash still has that hour in the epoch it counts  *)
(* for (comments of the constructor and of                                 *)
(* _checkNearEndOfEpochStartChallenge).                                    *)
(***************************************************************************)
SlashHasOneHour ==
    \A id \in PendingChallenges :
       challenges[id].timestamp + ChallengeDuration <= EpochEnd(ChallengeEpoch(id)) - OneHour

(***************************************************************************)
(* At every moment there is exactly one way a pending challenge can end by *)
(* a call of its two sides: the actor solves it, the challenger slashes,   *)
(* or (in a later epoch) takes the bond back.                              *)
(***************************************************************************)
OneWayOut ==
    \A id \in PendingChallenges :
       Cardinality({way \in {"solve", "slash", "claim"} :
          \/ way = "solve" /\ SolveWindow(id)
          \/ way = "slash" /\ SlashWindow(id)
          \/ way = "claim" /\ ClaimWindow(id)}) = 1

(***************************************************************************)
(* The unchecked counters lockdown is decided from are the numbers of      *)
(* inactive actors: slashing an inactive actor again, or resuming an       *)
(* active one, in whatever order challenges and messages come, does not    *)
(* count twice.                                                            *)
(***************************************************************************)
InactiveTotalsAreExact ==
    \A e \in Epochs, class \in ActorClasses :
       totalInactive[e][class] = Cardinality(inactiveActors[e] \cap ActorsOfClass(class))

-----------------------------------------------------------------------------
(* Action properties *)

(***************************************************************************)
(* Nothing enters the queue and nothing is executed unless a registered    *)
(* guardian and a registered sentinel of the current epoch are active.     *)
(***************************************************************************)
ProgressNeedsActiveActors ==
    [][(\E op \in Operations :
           \/ operationsStatus[op] # "Queued" /\ operationsStatus'[op] = "Queued"
           \/ operationsStatus[op] # "Executed" /\ operationsStatus'[op] = "Executed")
       => \A class \in ActorClasses : ActiveActors(class) # {}]_vars

(***************************************************************************)
(* A governance slash cancels a challenge "before the challenge is         *)
(* resolved" (comment of _onGovernanceMessage): only a pending one.        *)
(***************************************************************************)
CancelsOnlyPendingChallenges ==
    [][\A id \in ChallengeIds :
          (challengesStatus[id] # "Cancelled" /\ challengesStatus'[id] = "Cancelled")
             => challengesStatus[id] = "Pending"]_vars

(***************************************************************************)
(* isLockedDown lets executions through "up to 1 hour earlier than the     *)
(* epoch's ending" (its comment): an operation whose period is over is not *)
(* held back by lockdown before that hour, if actors are active.           *)
(***************************************************************************)
ExecutableUntilOneHourBeforeEnd ==
    \A op \in QueuedOperations :
       (IsActorsStatusValid /\ ChallengePeriodTerminated(op)
          /\ now < EpochEnd(CurrentEpoch) - OneHour) => ~IsLockedDown

-----------------------------------------------------------------------------
(***************************************************************************)
(* Liveness.  Fairness is what the off-chain programs and the DAO do in    *)
(* unending loops: the finalizer of the request processor retries every    *)
(* execution, the challenger of the state reader retries slashes, the DAO  *)
(* propagates the actors of each epoch and actors that were slashed        *)
(* resume.  A slash by a governance message is the DAO's decision: it is   *)
(* assumed only not to go on for ever.                                     *)
(***************************************************************************)
Fairness ==
    /\ WF_vars(Tick)
    /\ WF_vars(\E actors \in ActorSets : OnActors(CurrentEpoch, actors))
    /\ \A actor \in Actors : WF_vars(OnResumeActor(CurrentEpoch, actor))
    /\ \A op \in Operations : WF_vars(ProtocolExecuteOperation(op))
    /\ \A id \in ChallengeIds :
          /\ WF_vars(SlashByChallenge(id))
          /\ WF_vars(ClaimLockedAmountStartChallenge(id))
    /\ <>[][\A actor \in Actors : ~OnSlashActor(CurrentEpoch, actor)]_vars

FairSpec == Spec /\ Fairness

(***************************************************************************)
(* An operation that can execute, queued by a relayer that takes ether,    *)
(* leaves the queue: neither a longer queue, nor one objection, nor a      *)
(* lockdown, nor the end of an epoch leaves it there for ever.  Time is    *)
(* bounded in the model, so the operation must be queued early enough for  *)
(* its longest period to end.                                              *)
(***************************************************************************)
QueuedOperationsLeave ==
    \A op \in Operations \ Unexecutable :
       ( /\ op \in QueuedOperations
         /\ relayerQueueAction[op].actor \in AcceptsEther
         /\ QueueTime(op) + MaxChallengePeriodDuration + FiveDays <= MaxTime )
       ~> op \notin QueuedOperations

(***************************************************************************)
(* The bond of a challenger that takes ether is never "STUCK" (the case    *)
(* claimLockedAmountStartChallenge is documented for in IPNetworkHub):     *)
(* also when a challenge outlives its epoch, it is resolved or claimed.    *)
(***************************************************************************)
BondsLeave ==
    \A id \in ChallengeIds :
       ( /\ id \in PendingChallenges
         /\ challenges[id].challenger \in AcceptsEther
         /\ challenges[id].timestamp + ChallengeDuration < MaxTime )
       ~> id \notin PendingChallenges

-----------------------------------------------------------------------------
(* The abstract specifications *)

(***************************************************************************)
(* The hub implements the queue with a period that depends on its length,  *)
(* lockdown and registered actors: none of it ever shortens the base       *)
(* period or the delay a recorded objection buys.                          *)
(***************************************************************************)
Queue == INSTANCE OptimisticQueue WITH
            Classes <- CancelClasses,
            Delaying <- ActorClasses,
            Period <- BaseChallengePeriodDuration,
            Delay <- FiveDays,
            clock <- now,
            status <- operationsStatus,
            queuedAt <- [op \in Operations |-> QueueTime(op)],
            objections <- cancelActions

ImplementsOptimisticQueue == Queue!Spec

Stage(status) ==
    CASE status = "Null" -> "None"
      [] status = "Pending" -> "Open"
      [] status = "Solved" -> "Forfeited"
      [] status = "Unsolved" -> "Slashed"
      [] status = "Cancelled" -> "Superseded"
      [] status = "PartiallyUnsolved" -> "Reclaimed"

(***************************************************************************)
(* The hub implements the challenge game when governance messages arrive   *)
(* in their epoch: pending ids, bits and messages never move a bond twice  *)
(* or let an actor answer late.                                            *)
(***************************************************************************)
Game == INSTANCE ChallengeGame WITH
            Challenges <- ChallengeIds,
            Duration <- ChallengeDuration,
            EpochLength <- EpochDuration,
            clock <- now,
            stage <- [id \in ChallengeIds |-> Stage(challengesStatus[id])],
            openedAt <- [id \in ChallengeIds |-> challenges[id].timestamp]

ImplementsChallengeGame == Game!Spec

===============================================================================
