--------------------------- MODULE PNetworkHubProofs ---------------------------
(***************************************************************************)
(* Proofs about PNetworkHub, for any actors, operations, durations and     *)
(* order of calls and messages.                                            *)
(***************************************************************************)
EXTENDS PNetworkHubProperties, TLAPS, FiniteSetTheorems

-----------------------------------------------------------------------------
(* Epochs, periods and the counter: facts about the timing rules *)

(***************************************************************************)
(* A counter that wraps around is still a uint16 (unchecked arithmetic).   *)
(***************************************************************************)
LEMMA Uint16Type ==
    ASSUME NEW x \in Int
    PROVE  Uint16(x) \in 0..MaxUint16
BY DEF Uint16, MaxUint16

(***************************************************************************)
(* Below the limit, the wrapped counter is the counter.                    *)
(***************************************************************************)
LEMMA Uint16Exact ==
    ASSUME NEW x \in 0..MaxUint16
    PROVE  Uint16(x) = x
<1>1. x \in Nat /\ x < 65536
  BY DEF MaxUint16
<1>2. x % 65536 = x
  BY <1>1
<1> QED
  BY <1>2 DEF Uint16, MaxUint16

\* One unchecked ++ or -- of a uint16 counter leaves a uint16.
LEMMA Uint16Counter ==
    ASSUME NEW n \in 0..MaxUint16
    PROVE  Uint16(n + 1) \in 0..MaxUint16 /\ Uint16(n - 1) \in 0..MaxUint16
<1>1. n \in Int
  OBVIOUS
<1>2. n + 1 \in Int /\ n - 1 \in Int
  BY <1>1
<1> QED
  BY <1>2, Uint16Type

\* maxOperationsInQueue is a positive uint16.
LEMMA MaxOperationsType ==
    /\ MaxOperationsInQueue \in Nat \ {0}
    /\ MaxOperationsInQueue <= MaxUint16
    /\ MaxUint16 \in Nat
<1>1. MaxUint16 \in Nat
  BY DEF MaxUint16
<1> QED
  BY <1>1, TimingAssumption

(***************************************************************************)
(* The counter of a queue that respects maxOperationsInQueue never wraps.  *)
(***************************************************************************)
LEMMA QueueCounterExact ==
    /\ \A n \in Nat : n < MaxOperationsInQueue =>
          Uint16(n + 1) = n + 1 /\ n + 1 <= MaxOperationsInQueue
    /\ \A n \in Nat : n # 0 /\ n <= MaxOperationsInQueue =>
          Uint16(n - 1) = n - 1 /\ n - 1 <= MaxOperationsInQueue
<1>1. ASSUME NEW n \in Nat, n < MaxOperationsInQueue
      PROVE  Uint16(n + 1) = n + 1 /\ n + 1 <= MaxOperationsInQueue
  <2>1. n + 1 \in 0..MaxUint16 /\ n + 1 <= MaxOperationsInQueue
    BY <1>1, MaxOperationsType
  <2> QED
    BY <2>1, Uint16Exact
<1>2. ASSUME NEW n \in Nat, n # 0, n <= MaxOperationsInQueue
      PROVE  Uint16(n - 1) = n - 1 /\ n - 1 <= MaxOperationsInQueue
  <2>1. n - 1 \in 0..MaxUint16 /\ n - 1 <= MaxOperationsInQueue
    BY <1>2, MaxOperationsType
  <2> QED
    BY <2>1, Uint16Exact
<1> QED
  BY <1>1, <1>2

(***************************************************************************)
(* EpochsManager.currentEpoch never decreases with time.                   *)
(***************************************************************************)
LEMMA EpochOfMonotone ==
    ASSUME NEW t \in Nat, NEW u \in Nat, t <= u
    PROVE  /\ EpochOf(t) \in Nat
           /\ EpochOf(t) <= EpochOf(u)
<1>1. EpochDuration \in Nat /\ EpochDuration > 0
  BY TimingAssumption
<1>2. ASSUME NEW x \in Nat, NEW d \in Nat, d > 0
      PROVE  /\ x \div d \in Nat
             /\ d * (x \div d) <= x
             /\ x < d * (x \div d) + d
  BY <1>2, SMT
<1>3. ASSUME NEW a \in Nat, NEW b \in Nat, NEW d \in Nat, d > 0, d * a <= t, u < d * b + d
      PROVE  a <= b
  <2>1. SUFFICES ASSUME b + 1 <= a PROVE FALSE
    BY <1>3
  <2>2. d * (b + 1) <= d * a
    BY <1>3, <2>1
  <2>3. d * (b + 1) = d * b + d
    BY <1>3
  <2> QED
    BY <1>3, <2>2, <2>3
<1> QED
  BY <1>1, <1>2, <1>3 DEF EpochOf

(***************************************************************************)
(* No queue the hub accepts makes a challenge period longer than           *)
(* maxChallengePeriodDuration, which lockdown is computed with.            *)
(***************************************************************************)
LEMMA PeriodIsBounded ==
    ASSUME NEW n \in 0..MaxOperationsInQueue
    PROVE  /\ ChallengePeriodDuration(n) \in Int
           /\ ChallengePeriodDuration(n) <= MaxChallengePeriodDuration
<1>1. ASSUME NEW m \in Nat, NEW M \in Nat, NEW k \in Nat, m <= M
      PROVE  m * m * k <= M * M * k /\ m * m * k \in Nat
  <2>1. m * m <= M * M /\ m * m \in Nat /\ M * M \in Nat
    BY <1>1
  <2>2. ASSUME NEW a \in Nat, NEW b \in Nat, a <= b
        PROVE  a * k <= b * k /\ a * k \in Nat
    BY <2>2
  <2> QED
    BY <2>1, <2>2
<1>2. MaxOperationsInQueue \in Nat /\ KChallengePeriod \in Nat
  BY TimingAssumption DEF MaxUint16
<1>3. n * n * KChallengePeriod <= MaxOperationsInQueue * MaxOperationsInQueue * KChallengePeriod
  BY <1>1, <1>2
<1>4. KChallengePeriod <= MaxOperationsInQueue * MaxOperationsInQueue * KChallengePeriod
  <2>1. 1 * 1 * KChallengePeriod
          <= MaxOperationsInQueue * MaxOperationsInQueue * KChallengePeriod
    <3>1. 1 <= MaxOperationsInQueue
      BY TimingAssumption DEF MaxUint16
    <3> QED
      BY <1>1, <1>2, <3>1, 1 \in Nat
  <2>2. 1 * 1 * KChallengePeriod = KChallengePeriod
    BY <1>2
  <2> QED
    BY <2>1, <2>2
<1> QED
  BY <1>2, <1>3, <1>4, TimingAssumption DEF ChallengePeriodDuration, MaxChallengePeriodDuration

\* The durations of a hub are naturals, and the end of an epoch is a number.
LEMMA TimingTypes ==
    /\ BaseChallengePeriodDuration \in Nat
    /\ MaxChallengePeriodDuration \in Int
    /\ ChallengeDuration \in Nat
    /\ OneHour \in Nat
    /\ FiveDays \in Nat
    /\ EpochDuration \in Nat
    /\ \A t \in Nat : EpochEnd(EpochOf(t)) \in Int
<1>1. /\ BaseChallengePeriodDuration \in Nat
      /\ ChallengeDuration \in Nat
      /\ OneHour \in Nat
      /\ FiveDays \in Nat
      /\ EpochDuration \in Nat
  BY TimingAssumption
<1>2. MaxChallengePeriodDuration \in Int
  BY TimingAssumption, MaxOperationsType DEF MaxChallengePeriodDuration
<1>3. ASSUME NEW t \in Nat
      PROVE  EpochEnd(EpochOf(t)) \in Int
  <2>1. EpochOf(t) \in Nat
    BY EpochOfMonotone
  <2> QED
    BY <1>1, <2>1 DEF EpochEnd
<1> QED
  BY <1>1, <1>2, <1>3

\* The current epoch is one of the model's epochs while time is within its bound.
LEMMA CurrentEpochType ==
    ASSUME now \in 0..MaxTime
    PROVE  CurrentEpoch \in Epochs /\ CurrentEpoch \in Nat
<1>1. now \in Nat /\ MaxTime \in Nat /\ now <= MaxTime
  BY HubAssumption
<1>2. EpochOf(now) \in Nat /\ EpochOf(MaxTime) \in Nat /\ EpochOf(now) <= EpochOf(MaxTime)
  BY <1>1, EpochOfMonotone
<1> QED
  BY <1>2 DEF CurrentEpoch, Epochs

\* There are finitely many classes of actors and of cancel actions.
LEMMA ClassesFinite ==
    /\ IsFiniteSet(ActorClasses)
    /\ IsFiniteSet(CancelClasses)
<1>1. IsFiniteSet({"Guardian"})
  BY FS_Singleton
<1>2. IsFiniteSet({"Guardian"} \cup {"Sentinel"})
  BY <1>1, FS_AddElement
<1>3. ActorClasses = {"Guardian"} \cup {"Sentinel"}
  BY DEF ActorClasses
<1> QED
  BY <1>2, <1>3, FS_AddElement DEF CancelClasses

\* Every actor is registered as a guardian or as a sentinel.
LEMMA ClassOfType == \A actor : ClassOf(actor) \in ActorClasses
BY DEF ClassOf, ActorClasses

-----------------------------------------------------------------------------
(***************************************************************************)
(* Type correctness is not inductive by itself.  The total of cancel       *)
(* actions stays small because a second one removes the operation          *)
(* (TwoCancelsRemove), and an actor set inactive by a challenge is an      *)
(* actor because every challenge that was started, and only those have a   *)
(* pending id, names one.                                                  *)
(***************************************************************************)
ChallengesRecorded ==
    /\ \A id \in ChallengeIds :
          challengesStatus[id] # "Null" =>
             /\ challenges[id].actor \in Actors
             /\ challenges[id].timestamp <= now
    /\ \A e \in Epochs, actor \in Actors :
          pendingChallengeId[e][actor] # None =>
             challengesStatus[pendingChallengeId[e][actor]] # "Null"

TypeInv == TypeOK /\ TwoCancelsRemove /\ ChallengesRecorded

\* A freshly deployed hub satisfies the type invariant.
LEMMA TypeInit == Init => TypeInv
<1> SUFFICES ASSUME Init PROVE TypeInv
  OBVIOUS
<1>1. 0 \in 0..MaxTime /\ 0 \in 0..MaxUint16 /\ 0 \in 0..MaxChallenges
  BY HubAssumption DEF MaxUint16
<1>2. TypeOK
  BY <1>1 DEF Init, TypeOK, NoAction, NoChallenge, OperationStatuses, ChallengeStatuses
<1>3. TwoCancelsRemove
  BY FS_EmptySet DEF Init, TwoCancelsRemove
<1>4. ChallengesRecorded
  BY DEF Init, ChallengesRecorded
<1> QED
  BY <1>2, <1>3, <1>4 DEF TypeInv

\* A cancel action of any class, which may finalize, keeps it.
LEMMA CancelStep ==
    ASSUME TypeInv, NEW op \in Operations, NEW class \in CancelClasses,
           CancelOperation(op, class)
    PROVE  TypeInv'
<1> USE DEF TypeInv, TypeOK, CancelOperation
<1>1. cancelActions'[op] = cancelActions[op] \cup {class}
  OBVIOUS
<1>2. Cardinality(cancelActions'[op]) = Cardinality(cancelActions[op]) + 1
  <2>1. IsFiniteSet(cancelActions[op])
    BY ClassesFinite, FS_Subset
  <2> QED
    BY <1>1, <2>1, FS_AddElement
<1>3. totalCancelActions[op] \in 0..1
  BY DEF TwoCancelsRemove
<1>4. totalCancelActions'[op] = totalCancelActions[op] + 1
  OBVIOUS
<1>5. /\ operationsStatus' \in [Operations -> OperationStatuses]
      /\ numberOfOperationsInQueue' \in 0..MaxUint16
      /\ balance' \in Nat
  <2>1. CASE FinalizesCancel(op, class)
    <3>1. Uint16(numberOfOperationsInQueue - 1) \in 0..MaxUint16
      BY Uint16Counter
    <3>2. balance >= LockedAmountChallengePeriod => balance - LockedAmountChallengePeriod \in Nat
      BY HubAssumption
    <3> QED
      BY <2>1, <3>1, <3>2 DEF RemoveCancelledOperation, SendEther, OperationStatuses
  <2>2. CASE ~FinalizesCancel(op, class)
    BY <2>2
  <2> QED
    BY <2>1, <2>2
<1>6. /\ \A other \in Operations \ {op} :
            operationsStatus'[other] = operationsStatus[other]
      /\ FinalizesCancel(op, class) => operationsStatus'[op] = "Cancelled"
      /\ ~FinalizesCancel(op, class) => operationsStatus'[op] = "Queued"
  BY DEF RemoveCancelledOperation
<1>7. TwoCancelsRemove'
  <2> SUFFICES ASSUME NEW o \in Operations
               PROVE  (/\ totalCancelActions[o] = Cardinality(cancelActions[o])
                       /\ operationsStatus[o] = "NotQueued" => totalCancelActions[o] = 0
                       /\ operationsStatus[o] \in {"Queued", "Executed"}
                             => totalCancelActions[o] <= 1
                       /\ operationsStatus[o] = "Cancelled"
                             => totalCancelActions[o] \in 1..2)'
    BY DEF TwoCancelsRemove
  <2>1. CASE o = op
    <3>1. totalCancelActions'[op] = Cardinality(cancelActions'[op])
      BY <1>2, <1>4 DEF TwoCancelsRemove
    <3>2. ~FinalizesCancel(op, class) => totalCancelActions'[op] <= 1
      BY <1>3, <1>4 DEF FinalizesCancel
    <3> QED
      BY <2>1, <3>1, <3>2, <1>3, <1>4, <1>6
  <2>2. CASE o # op
    BY <2>2, <1>6 DEF TwoCancelsRemove
  <2> QED
    BY <2>1, <2>2
<1>8. /\ cancelActions' \in [Operations -> SUBSET CancelClasses]
      /\ totalCancelActions' \in [Operations -> 0..3]
  BY <1>3
<1>9. TypeOK'
  BY <1>5, <1>8 DEF inactivityVars, challengeVars
<1>10. ChallengesRecorded'
  BY DEF ChallengesRecorded, challengeVars
<1> QED
  BY <1>7, <1>9, <1>10

\* protocolQueueOperation keeps it.
LEMMA QueueStep ==
    ASSUME TypeInv, NEW op \in Operations, NEW relayer \in Relayers,
           ProtocolQueueOperation(op, relayer)
    PROVE  TypeInv'
<1> USE DEF TypeInv, ProtocolQueueOperation
<1>1. balance' \in Nat
  BY HubAssumption DEF TypeOK
<1>2. numberOfOperationsInQueue' \in 0..MaxUint16
  BY Uint16Counter DEF TypeOK
<1>3. QueueAction(relayer) \in [actor : Relayers \cup {ZeroAddress}, timestamp : 0..MaxTime]
  BY DEF QueueAction, TypeOK
<1>4. TypeOK'
  BY <1>1, <1>2, <1>3 DEF TypeOK, OperationStatuses, inactivityVars, challengeVars
<1>5. TwoCancelsRemove'
  BY DEF TwoCancelsRemove, TypeOK
<1>6. ChallengesRecorded'
  BY DEF ChallengesRecorded, challengeVars
<1> QED
  BY <1>4, <1>5, <1>6

\* protocolExecuteOperation keeps it.
LEMMA ExecuteStep ==
    ASSUME TypeInv, NEW op \in Operations, ProtocolExecuteOperation(op)
    PROVE  TypeInv'
<1> USE DEF TypeInv, ProtocolExecuteOperation, ReleaseOperation
<1>1. balance' \in Nat
  BY HubAssumption DEF TypeOK, SendEther
<1>2. numberOfOperationsInQueue' \in 0..MaxUint16
  BY Uint16Counter DEF TypeOK
<1>3. TypeOK'
  BY <1>1, <1>2 DEF TypeOK, OperationStatuses, inactivityVars, challengeVars
<1>4. TwoCancelsRemove'
  BY DEF TwoCancelsRemove, TypeOK
<1>5. ChallengesRecorded'
  BY DEF ChallengesRecorded, challengeVars
<1> QED
  BY <1>3, <1>4, <1>5

-----------------------------------------------------------------------------
(* The helpers of the challenges and of the governance messages *)

\* _setActorInactive keeps the types of the inactivity records.
LEMMA SetActorInactiveType ==
    ASSUME TypeOK, NEW epoch \in Epochs, NEW actor \in Actors,
           SetActorInactive(epoch, actor)
    PROVE  /\ inactiveActors' \in [Epochs -> SUBSET Actors]
           /\ totalInactive' \in [Epochs -> [ActorClasses -> 0..MaxUint16]]
<1> DEFINE n == totalInactive[epoch][ClassOf(actor)]
<1>1. n \in 0..MaxUint16
  BY ClassOfType DEF TypeOK
<1>2. Uint16(n + 1) \in 0..MaxUint16
  BY <1>1, Uint16Counter
<1>3. [totalInactive EXCEPT ![epoch][ClassOf(actor)] = Uint16(@ + 1)]
        \in [Epochs -> [ActorClasses -> 0..MaxUint16]]
  BY <1>2 DEF TypeOK
<1>4. CASE actor \in inactiveActors[epoch]
  BY <1>4 DEF SetActorInactive, inactivityVars, TypeOK
<1>5. CASE actor \notin inactiveActors[epoch]
  <2>1. /\ totalInactive' = [totalInactive EXCEPT ![epoch][ClassOf(actor)] = Uint16(@ + 1)]
        /\ inactiveActors' = [inactiveActors EXCEPT ![epoch] = @ \cup {actor}]
    BY <1>5 DEF SetActorInactive
  <2>2. inactiveActors' \in [Epochs -> SUBSET Actors]
    BY <2>1 DEF TypeOK
  <2> QED
    BY <1>3, <2>1, <2>2
<1> QED
  BY <1>4, <1>5

\* _setActorActive keeps the types of the inactivity records.
LEMMA SetActorActiveType ==
    ASSUME TypeOK, NEW epoch \in Epochs, NEW actor, SetActorActive(epoch, actor)
    PROVE  /\ inactiveActors' \in [Epochs -> SUBSET Actors]
           /\ totalInactive' \in [Epochs -> [ActorClasses -> 0..MaxUint16]]
<1> DEFINE n == totalInactive[epoch][ClassOf(actor)]
<1>1. n \in 0..MaxUint16
  BY ClassOfType DEF TypeOK
<1>2. Uint16(n - 1) \in 0..MaxUint16
  BY <1>1, Uint16Counter
<1>3. [totalInactive EXCEPT ![epoch][ClassOf(actor)] = Uint16(@ - 1)]
        \in [Epochs -> [ActorClasses -> 0..MaxUint16]]
  BY <1>2 DEF TypeOK
<1>4. CASE actor \notin inactiveActors[epoch]
  BY <1>4 DEF SetActorActive, inactivityVars, TypeOK
<1>5. CASE actor \in inactiveActors[epoch]
  <2>1. /\ totalInactive' = [totalInactive EXCEPT ![epoch][ClassOf(actor)] = Uint16(@ - 1)]
        /\ inactiveActors' = [inactiveActors EXCEPT ![epoch] = @ \ {actor}]
    BY <1>5 DEF SetActorActive
  <2>2. inactiveActors' \in [Epochs -> SUBSET Actors]
    BY <2>1 DEF TypeOK
  <2> QED
    BY <1>3, <2>1, <2>2
<1> QED
  BY <1>4, <1>5

\* Closing a challenge that was started keeps the types of the challenge records.
LEMMA CloseChallengeType ==
    ASSUME TypeOK, ChallengesRecorded, NEW epoch \in Epochs, NEW id \in ChallengeIds,
           NEW status \in ChallengeStatuses \ {"Null"}, challengesStatus[id] # "Null",
           CloseChallenge(epoch, id, status), now' = now
    PROVE  /\ challenges' = challenges /\ challengesNonce' = challengesNonce
           /\ challengesStatus' \in [ChallengeIds -> ChallengeStatuses]
           /\ challengedActors' \in [Epochs -> SUBSET Actors]
           /\ pendingChallengeId' \in [Epochs -> [Actors -> ChallengeIds \cup {None}]]
           /\ ChallengesRecorded'
<1> USE DEF CloseChallenge
<1>1. challengesStatus' \in [ChallengeIds -> ChallengeStatuses]
  BY DEF TypeOK
<1>2. challengedActors' \in [Epochs -> SUBSET Actors]
  BY DEF TypeOK
<1>3. pendingChallengeId' \in [Epochs -> [Actors -> ChallengeIds \cup {None}]]
  BY DEF TypeOK
<1>4. \A c \in ChallengeIds : challengesStatus'[c] # "Null" <=> challengesStatus[c] # "Null"
  BY DEF TypeOK
<1>5. ASSUME NEW e \in Epochs, NEW a \in Actors, pendingChallengeId'[e][a] # None
      PROVE  pendingChallengeId'[e][a] = pendingChallengeId[e][a]
  BY <1>5 DEF TypeOK
<1>6. ChallengesRecorded'
  BY <1>3, <1>4, <1>5 DEF ChallengesRecorded, TypeOK
<1> QED
  BY <1>1, <1>2, <1>3, <1>6

\* A transfer that does not revert leaves a natural balance.
LEMMA SendEtherType ==
    ASSUME TypeOK, NEW to, NEW amount \in Nat, SendEther(to, amount)
    PROVE  balance' \in Nat
BY DEF TypeOK, SendEther

\* The queue and the epochs' roots are all TwoCancelsRemove and TypeOK need besides.
LEMMA QueueUntouched ==
    ASSUME TypeInv, UNCHANGED queueVars
    PROVE  TwoCancelsRemove'
BY DEF TypeInv, TwoCancelsRemove, queueVars

\* startChallenge keeps the type invariant.
LEMMA StartChallengeStep ==
    ASSUME TypeInv, NEW actor \in Actors, NEW challenger \in Challengers,
           StartChallenge(actor, challenger)
    PROVE  TypeInv'
<1> USE DEF TypeInv, StartChallenge
<1>1. challengesNonce \in ChallengeIds /\ challengesNonce' \in 0..MaxChallenges
  BY HubAssumption DEF TypeOK, ChallengeIds
<1>2. balance' \in Nat
  BY HubAssumption DEF TypeOK
<1>3. CurrentEpoch \in Epochs
  BY CurrentEpochType DEF TypeOK
<1>4. challengedActors' \in [Epochs -> SUBSET Actors]
  BY DEF TypeOK
<1>5. pendingChallengeId' \in [Epochs -> [Actors -> ChallengeIds \cup {None}]]
  BY <1>1 DEF TypeOK
<1>6. challenges' \in [ChallengeIds -> [actor : Actors \cup {ZeroAddress},
                                       challenger : Challengers \cup {ZeroAddress},
                                       timestamp : 0..MaxTime]]
  BY <1>1 DEF TypeOK
<1>7. TypeOK'
  BY <1>1, <1>2, <1>4, <1>5, <1>6 DEF TypeOK, ChallengeStatuses, queueVars, inactivityVars
<1>8. \A id \in ChallengeIds :
         /\ challengesStatus'[id] =
              IF id = challengesNonce THEN "Pending" ELSE challengesStatus[id]
         /\ challenges'[id] =
              IF id = challengesNonce
              THEN [actor |-> actor, challenger |-> challenger, timestamp |-> now]
              ELSE challenges[id]
  BY DEF TypeOK
<1>9. ASSUME NEW id \in ChallengeIds, challengesStatus'[id] # "Null"
      PROVE  challenges'[id].actor \in Actors /\ challenges'[id].timestamp <= now'
  <2>1. CASE id = challengesNonce
    BY <1>8, <2>1 DEF TypeOK
  <2>2. CASE id # challengesNonce
    BY <1>8, <1>9, <2>2 DEF ChallengesRecorded
  <2> QED
    BY <2>1, <2>2
<1>10. ASSUME NEW e \in Epochs, NEW a \in Actors, pendingChallengeId'[e][a] # None
       PROVE  challengesStatus'[pendingChallengeId'[e][a]] # "Null"
  <2>1. \/ pendingChallengeId'[e][a] = challengesNonce
        \/ pendingChallengeId'[e][a] = pendingChallengeId[e][a]
    BY DEF TypeOK
  <2>2. pendingChallengeId'[e][a] \in ChallengeIds
    BY <1>5, <1>10
  <2> QED
    BY <1>8, <1>10, <2>1, <2>2 DEF ChallengesRecorded
<1>11. ChallengesRecorded'
  BY <1>9, <1>10 DEF ChallengesRecorded
<1> QED
  BY <1>7, <1>11, QueueUntouched

\* solveChallenge keeps it.
LEMMA SolveStep ==
    ASSUME TypeInv, NEW id \in ChallengeIds, SolveChallenge(id)
    PROVE  TypeInv'
<1> USE DEF TypeInv, SolveChallenge
<1>1. CurrentEpoch \in Epochs
  BY CurrentEpochType DEF TypeOK
<1>2. challengesStatus[id] # "Null"
  BY DEF StatusInEpoch
<1>3. balance' \in Nat
  BY SendEtherType, HubAssumption
<1>4. /\ inactiveActors' \in [Epochs -> SUBSET Actors]
      /\ totalInactive' \in [Epochs -> [ActorClasses -> 0..MaxUint16]]
  BY <1>1, SetActorActiveType
<1>5. /\ challenges' = challenges /\ challengesNonce' = challengesNonce
      /\ challengesStatus' \in [ChallengeIds -> ChallengeStatuses]
      /\ challengedActors' \in [Epochs -> SUBSET Actors]
      /\ pendingChallengeId' \in [Epochs -> [Actors -> ChallengeIds \cup {None}]]
      /\ ChallengesRecorded'
  <2>1. "Solved" \in ChallengeStatuses \ {"Null"}
    BY DEF ChallengeStatuses
  <2> QED
    BY <1>1, <1>2, <2>1, CloseChallengeType
<1>6. TypeOK'
  BY <1>3, <1>4, <1>5 DEF TypeOK, queueVars
<1> QED
  BY <1>5, <1>6, QueueUntouched

\* slashByChallenge keeps it.
LEMMA SlashStep ==
    ASSUME TypeInv, NEW id \in ChallengeIds, SlashByChallenge(id)
    PROVE  TypeInv'
<1> USE DEF TypeInv, SlashByChallenge
<1>1. CurrentEpoch \in Epochs
  BY CurrentEpochType DEF TypeOK
<1>2. challengesStatus[id] # "Null" /\ challenges[id].actor \in Actors
  BY DEF StatusInEpoch, ChallengesRecorded
<1>3. balance' \in Nat
  BY SendEtherType, HubAssumption
<1>4. /\ inactiveActors' \in [Epochs -> SUBSET Actors]
      /\ totalInactive' \in [Epochs -> [ActorClasses -> 0..MaxUint16]]
  BY <1>1, <1>2, SetActorInactiveType
<1>5. /\ challenges' = challenges /\ challengesNonce' = challengesNonce
      /\ challengesStatus' \in [ChallengeIds -> ChallengeStatuses]
      /\ challengedActors' \in [Epochs -> SUBSET Actors]
      /\ pendingChallengeId' \in [Epochs -> [Actors -> ChallengeIds \cup {None}]]
      /\ ChallengesRecorded'
  <2>1. "Unsolved" \in ChallengeStatuses \ {"Null"}
    BY DEF ChallengeStatuses
  <2> QED
    BY <1>1, <1>2, <2>1, CloseChallengeType
<1>6. TypeOK'
  BY <1>3, <1>4, <1>5 DEF TypeOK, queueVars
<1> QED
  BY <1>5, <1>6, QueueUntouched

\* claimLockedAmountStartChallenge keeps it.
LEMMA ClaimStep ==
    ASSUME TypeInv, NEW id \in ChallengeIds, ClaimLockedAmountStartChallenge(id)
    PROVE  TypeInv'
<1> USE DEF TypeInv, ClaimLockedAmountStartChallenge
<1>1. balance' \in Nat
  BY SendEtherType, HubAssumption
<1>2. challengesStatus' \in [ChallengeIds -> ChallengeStatuses]
  BY DEF TypeOK, ChallengeStatuses
<1>3. TypeOK'
  BY <1>1, <1>2 DEF TypeOK, queueVars, inactivityVars
<1>4. challengesStatus[id] # "Null"
  BY DEF StatusInEpoch
<1>5. ChallengesRecorded'
  BY <1>4 DEF ChallengesRecorded, TypeOK
<1> QED
  BY <1>3, <1>5, QueueUntouched

\* GOVERNANCE_MESSAGE_SLASH_ACTOR keeps it, with and without a pending challenge.
LEMMA OnSlashActorStep ==
    ASSUME TypeInv, NEW epoch \in Epochs, NEW actor \in Actors, OnSlashActor(epoch, actor)
    PROVE  TypeInv'
<1> USE DEF TypeInv, OnSlashActor
<1>1. /\ inactiveActors' \in [Epochs -> SUBSET Actors]
      /\ totalInactive' \in [Epochs -> [ActorClasses -> 0..MaxUint16]]
  BY SetActorInactiveType
<1> DEFINE id == pendingChallengeId[epoch][actor]
<1>2. CASE id = None
  <2>1. UNCHANGED <<balance, challengeVars>>
    BY <1>2 DEF MaybeCancelPendingChallenge
  <2>2. TypeOK' /\ ChallengesRecorded'
    BY <1>1, <2>1 DEF TypeOK, ChallengesRecorded, challengeVars, queueVars
  <2> QED
    BY <2>2, QueueUntouched
<1>3. CASE id # None
  <2>1. /\ CloseChallenge(epoch, id, "Cancelled")
        /\ SendEther(challenges[id].challenger, LockedAmountStartChallenge)
    BY <1>3 DEF MaybeCancelPendingChallenge
  <2>2. id \in ChallengeIds
    BY <1>3 DEF TypeOK
  <2>3. balance' \in Nat
    BY <2>1, SendEtherType, HubAssumption
  <2>4. challengesStatus[id] # "Null"
    BY <1>3 DEF ChallengesRecorded
  <2>5. /\ challenges' = challenges /\ challengesNonce' = challengesNonce
        /\ challengesStatus' \in [ChallengeIds -> ChallengeStatuses]
        /\ challengedActors' \in [Epochs -> SUBSET Actors]
        /\ pendingChallengeId' \in [Epochs -> [Actors -> ChallengeIds \cup {None}]]
        /\ ChallengesRecorded'
    <3>1. "Cancelled" \in ChallengeStatuses \ {"Null"}
      BY DEF ChallengeStatuses
    <3> QED
      BY <2>1, <2>2, <2>4, <3>1, CloseChallengeType
  <2>6. TypeOK'
    BY <1>1, <2>3, <2>5 DEF TypeOK, queueVars
  <2> QED
    BY <2>5, <2>6, QueueUntouched
<1> QED
  BY <1>2, <1>3

\* Every call, message and tick keeps the type invariant.
LEMMA TypeStep == TypeInv /\ [Next]_vars => TypeInv'
<1> SUFFICES ASSUME TypeInv, [Next]_vars PROVE TypeInv'
  OBVIOUS
<1>1. CASE UNCHANGED vars
  <2>1. TypeOK' /\ ChallengesRecorded'
    BY <1>1 DEF TypeInv, TypeOK, ChallengesRecorded, vars, queueVars, inactivityVars,
               challengeVars
  <2> QED
    BY <1>1, <2>1, QueueUntouched DEF TypeInv, vars
<1>2. CASE Tick
  <2>1. now' \in 0..MaxTime /\ now <= now'
    BY <1>2, HubAssumption DEF Tick, TypeInv, TypeOK
  <2>2. TypeOK'
    BY <1>2, <2>1 DEF Tick, TypeInv, TypeOK, queueVars, inactivityVars, challengeVars
  <2>3. ChallengesRecorded'
    BY <1>2, <2>1, HubAssumption
    DEF Tick, TypeInv, TypeOK, ChallengesRecorded, challengeVars
  <2> QED
    BY <1>2, <2>2, <2>3, QueueUntouched DEF Tick, TypeInv
<1>3. CASE \E op \in Operations, relayer \in Relayers : ProtocolQueueOperation(op, relayer)
  BY <1>3, QueueStep
<1>4. CASE \E op \in Operations, actor \in Actors : ProtocolCancelOperation(op, actor)
  BY <1>4, CancelStep, ClassOfType DEF ProtocolCancelOperation, CancelClasses
<1>5. CASE \E op \in Operations : ProtocolGovernanceCancelOperation(op)
  BY <1>5, CancelStep DEF ProtocolGovernanceCancelOperation, CancelClasses
<1>6. CASE \E op \in Operations : ProtocolExecuteOperation(op)
  BY <1>6, ExecuteStep
<1>7. CASE \E actor \in Actors, challenger \in Challengers : StartChallenge(actor, challenger)
  BY <1>7, StartChallengeStep
<1>8. CASE \E id \in ChallengeIds : SolveChallenge(id)
  BY <1>8, SolveStep
<1>9. CASE \E id \in ChallengeIds : SlashByChallenge(id)
  BY <1>9, SlashStep
<1>10. CASE \E id \in ChallengeIds : ClaimLockedAmountStartChallenge(id)
  BY <1>10, ClaimStep
<1>11. CASE \E epoch \in MessageEpochs, actors \in ActorSets : OnActors(epoch, actors)
  <2> PICK epoch \in Epochs, actors \in ActorSets : OnActors(epoch, actors)
    BY <1>11 DEF MessageEpochs
  <2>1. TypeOK' /\ ChallengesRecorded'
    BY HubAssumption DEF OnActors, TypeInv, TypeOK, ChallengesRecorded, queueVars,
                         inactivityVars, challengeVars
  <2> QED
    BY <2>1, QueueUntouched DEF OnActors, TypeInv
<1>12. CASE \E epoch \in MessageEpochs, actor \in Actors : OnSlashActor(epoch, actor)
  BY <1>12, OnSlashActorStep DEF MessageEpochs
<1>13. CASE \E epoch \in MessageEpochs, actor \in Actors : OnResumeActor(epoch, actor)
  <2> PICK epoch \in Epochs, actor \in Actors : OnResumeActor(epoch, actor)
    BY <1>13 DEF MessageEpochs
  <2>1. /\ inactiveActors' \in [Epochs -> SUBSET Actors]
        /\ totalInactive' \in [Epochs -> [ActorClasses -> 0..MaxUint16]]
    BY SetActorActiveType DEF OnResumeActor, TypeInv
  <2>2. TypeOK' /\ ChallengesRecorded'
    BY <2>1 DEF OnResumeActor, TypeInv, TypeOK, ChallengesRecorded, queueVars, challengeVars
  <2> QED
    BY <2>2, QueueUntouched DEF OnResumeActor, TypeInv
<1>14. CASE \E op \in Operations : OnGovernanceCancelOperation(op)
  BY <1>14, CancelStep DEF OnGovernanceCancelOperation, CancelClasses
<1> QED
  BY <1>1, <1>2, <1>3, <1>4, <1>5, <1>6, <1>7, <1>8, <1>9, <1>10, <1>11, <1>12, <1>13, <1>14
  DEF Next

\* The type invariant holds in every state.
LEMMA TypeInvariance == Spec => []TypeInv
BY TypeInit, TypeStep, PTL DEF Spec

(***************************************************************************)
(* Every variable of a hub keeps its type: the uint16 counters stay in     *)
(* range whatever the order of calls and messages.                         *)
(***************************************************************************)
THEOREM TypeCorrectness == Spec => []TypeOK
<1>1. TypeInv => TypeOK
  BY DEF TypeInv
<1> QED
  BY <1>1, TypeInvariance, PTL

(***************************************************************************)
(* The exact test == 2 of _protocolCancelOperation is safe: no operation   *)
(* collects a third cancel action, and a second one always removes it.     *)
(***************************************************************************)
THEOREM CancelsRemove == Spec => []TwoCancelsRemove
<1>1. TypeInv => TwoCancelsRemove
  BY DEF TypeInv
<1> QED
  BY <1>1, TypeInvariance, PTL

-----------------------------------------------------------------------------
(***************************************************************************)
(* The length of the queue.  The counter wraps around, so its exactness    *)
(* needs the bound maxOperationsInQueue that protocolQueueOperation        *)
(* enforces, and the bound needs the exactness: they are one invariant.    *)
(***************************************************************************)
QueueInv == TypeInv /\ QueueLengthIsExact

\* Only finitely many operations are queued.
LEMMA QueueIsFinite == IsFiniteSet(QueuedOperations)
BY HubAssumption, FS_Subset DEF QueuedOperations

\* The counter of queued operations is a natural.
LEMMA LengthType ==
    ASSUME TypeInv
    PROVE  numberOfOperationsInQueue \in Nat
BY DEF TypeInv, TypeOK

\* A call that queues one operation and counts it keeps the length exact.
LEMMA LengthWhenOneEnters ==
    ASSUME QueueInv, NEW op \in Operations, operationsStatus[op] # "Queued",
           operationsStatus' = [operationsStatus EXCEPT ![op] = "Queued"],
           numberOfOperationsInQueue < MaxOperationsInQueue,
           numberOfOperationsInQueue' = Uint16(numberOfOperationsInQueue + 1)
    PROVE  QueueLengthIsExact'
<1>1. QueuedOperations' = QueuedOperations \cup {op}
  BY DEF QueueInv, TypeInv, QueuedOperations, TypeOK
<1>2. Cardinality(QueuedOperations') = Cardinality(QueuedOperations) + 1
  <2>1. op \notin QueuedOperations
    BY DEF QueuedOperations
  <2> QED
    BY <1>1, <2>1, QueueIsFinite, FS_AddElement
<1>3. numberOfOperationsInQueue \in Nat
  BY LengthType DEF QueueInv
<1>4. /\ numberOfOperationsInQueue' = numberOfOperationsInQueue + 1
      /\ numberOfOperationsInQueue' <= MaxOperationsInQueue
  BY <1>3, QueueCounterExact
<1> QED
  BY <1>2, <1>4 DEF QueueInv, QueueLengthIsExact

\* A call that takes one operation out and counts it keeps the length exact.
LEMMA LengthWhenOneLeaves ==
    ASSUME QueueInv, NEW op \in Operations, NEW status \in OperationStatuses \ {"Queued"},
           operationsStatus[op] = "Queued",
           operationsStatus' = [operationsStatus EXCEPT ![op] = status],
           numberOfOperationsInQueue' = Uint16(numberOfOperationsInQueue - 1)
    PROVE  QueueLengthIsExact'
<1>1. QueuedOperations' = QueuedOperations \ {op}
  BY DEF QueueInv, TypeInv, QueuedOperations, TypeOK
<1>2. op \in QueuedOperations
  BY DEF QueuedOperations
<1>3. /\ Cardinality(QueuedOperations') = Cardinality(QueuedOperations) - 1
      /\ Cardinality(QueuedOperations') \in Nat
      /\ Cardinality(QueuedOperations) \in Nat
  <2>1. IsFiniteSet(QueuedOperations')
    BY <1>1, QueueIsFinite, FS_Subset
  <2> QED
    BY <1>1, <1>2, <2>1, QueueIsFinite, FS_RemoveElement, FS_CardinalityType
<1>4. /\ numberOfOperationsInQueue = Cardinality(QueuedOperations)
      /\ numberOfOperationsInQueue # 0
      /\ numberOfOperationsInQueue \in Nat
      /\ numberOfOperationsInQueue <= MaxOperationsInQueue
  BY <1>3 DEF QueueInv, QueueLengthIsExact
<1>5. /\ numberOfOperationsInQueue' = numberOfOperationsInQueue - 1
      /\ numberOfOperationsInQueue' <= MaxOperationsInQueue
  BY <1>4, QueueCounterExact
<1> QED
  BY <1>3, <1>4, <1>5 DEF QueueLengthIsExact

\* So does a call that changes neither statuses nor counter.
LEMMA LengthWhenUntouched ==
    ASSUME QueueInv, UNCHANGED <<operationsStatus, numberOfOperationsInQueue>>
    PROVE  QueueLengthIsExact'
<1>1. QueuedOperations' = QueuedOperations
  BY DEF QueuedOperations
<1> QED
  BY <1>1 DEF QueueInv, QueueLengthIsExact

\* A cancel action keeps the length exact, whether or not it finalizes.
LEMMA LengthWhenCancelled ==
    ASSUME QueueInv, NEW op \in Operations, NEW class, CancelOperation(op, class)
    PROVE  QueueLengthIsExact'
<1>1. CASE FinalizesCancel(op, class)
  BY <1>1, LengthWhenOneLeaves DEF CancelOperation, RemoveCancelledOperation, OperationStatuses
<1>2. CASE ~FinalizesCancel(op, class)
  BY <1>2, LengthWhenUntouched DEF CancelOperation
<1> QED
  BY <1>1, <1>2

\* What a step can do to the queue.
LEMMA StepKinds ==
    ASSUME [Next]_vars
    PROVE  \/ \E op \in Operations, relayer \in Relayers : ProtocolQueueOperation(op, relayer)
           \/ \E op \in Operations, class \in CancelClasses : CancelOperation(op, class)
           \/ \E op \in Operations : ProtocolExecuteOperation(op)
           \/ UNCHANGED queueVars
<1>1. ASSUME NEW op \in Operations, NEW actor \in Actors, ProtocolCancelOperation(op, actor)
      PROVE  \E class \in CancelClasses : CancelOperation(op, class)
  BY <1>1, ClassOfType DEF ProtocolCancelOperation, CancelClasses
<1>2. "Governance" \in CancelClasses
  BY DEF CancelClasses
<1>3. ASSUME NEW id, SolveChallenge(id) \/ SlashByChallenge(id)
                      \/ ClaimLockedAmountStartChallenge(id)
      PROVE  UNCHANGED queueVars
  BY <1>3 DEF SolveChallenge, SlashByChallenge, ClaimLockedAmountStartChallenge
<1>4. ASSUME NEW actor, NEW challenger, StartChallenge(actor, challenger)
      PROVE  UNCHANGED queueVars
  BY <1>4 DEF StartChallenge
<1>5. ASSUME NEW epoch, NEW x,
             OnActors(epoch, x) \/ OnSlashActor(epoch, x) \/ OnResumeActor(epoch, x)
      PROVE  UNCHANGED queueVars
  BY <1>5 DEF OnActors, OnSlashActor, OnResumeActor
<1>6. UNCHANGED vars \/ Tick => UNCHANGED queueVars
  BY DEF vars, Tick
<1> QED
  BY <1>1, <1>2, <1>3, <1>4, <1>5, <1>6
  DEF Next, ProtocolGovernanceCancelOperation, OnGovernanceCancelOperation

\* The queue of a new hub is empty.
LEMMA QueueInit == Init => QueueInv
<1> SUFFICES ASSUME Init PROVE QueueLengthIsExact
  BY TypeInit DEF QueueInv
<1>1. QueuedOperations = {}
  BY DEF Init, QueuedOperations
<1> QED
  BY <1>1, FS_EmptySet, TimingAssumption DEF Init, QueueLengthIsExact, MaxUint16

\* Every step keeps the length of the queue exact.
LEMMA QueueInvStep == QueueInv /\ [Next]_vars => QueueInv'
<1> SUFFICES ASSUME QueueInv, [Next]_vars PROVE QueueLengthIsExact'
  BY TypeStep DEF QueueInv
<1>1. CASE \E op \in Operations, relayer \in Relayers : ProtocolQueueOperation(op, relayer)
  <2> PICK op \in Operations, relayer \in Relayers : ProtocolQueueOperation(op, relayer)
    BY <1>1
  <2> QED
    BY LengthWhenOneEnters DEF ProtocolQueueOperation
<1>2. CASE \E op \in Operations, class \in CancelClasses : CancelOperation(op, class)
  BY <1>2, LengthWhenCancelled
<1>3. CASE \E op \in Operations : ProtocolExecuteOperation(op)
  <2> PICK op \in Operations : ProtocolExecuteOperation(op)
    BY <1>3
  <2> QED
    BY LengthWhenOneLeaves DEF ProtocolExecuteOperation, ReleaseOperation, OperationStatuses
<1>4. CASE UNCHANGED queueVars
  BY <1>4, LengthWhenUntouched DEF queueVars
<1> QED
  BY <1>1, <1>2, <1>3, <1>4, StepKinds

(***************************************************************************)
(* numberOfOperationsInQueue, the unchecked uint16 every challenge period  *)
(* is computed from, is the number of queued operations and at most        *)
(* maxOperationsInQueue, for any number of operations and actors.          *)
(***************************************************************************)
THEOREM QueueLengthExact == Spec => []QueueLengthIsExact
<1>1. QueueInv => QueueLengthIsExact
  BY DEF QueueInv
<1> QED
  BY <1>1, QueueInit, QueueInvStep, PTL DEF Spec

-----------------------------------------------------------------------------
(***************************************************************************)
(* The challenge period of an operation moves with the queue, so what is   *)
(* inductive is a fact about the operation alone: it was queued before the *)
(* lockdown window of its epoch, and that window has room for the longest  *)
(* period (PeriodIsBounded).                                               *)
(***************************************************************************)
QueuedBeforeWindow ==
    \A op \in QueuedOperations :
       QueueTime(op) + MaxChallengePeriodDuration
          < EpochEnd(EpochOf(QueueTime(op))) - OneHour

PeriodInv == QueueInv /\ QueuedBeforeWindow

\* Nothing is queued in a new hub.
LEMMA PeriodInit == Init => PeriodInv
BY QueueInit DEF PeriodInv, QueuedBeforeWindow, QueuedOperations, Init

\* Steps that queue nothing keep the time left for each queued operation.
LEMMA NobodyEnters ==
    ASSUME QueuedBeforeWindow, relayerQueueAction' = relayerQueueAction,
           QueuedOperations' \subseteq QueuedOperations
    PROVE  QueuedBeforeWindow'
BY DEF QueuedBeforeWindow, QueueTime

\* Every step does: isLockedDown guards the only way into the queue.
LEMMA PeriodStep == PeriodInv /\ [Next]_vars => PeriodInv'
<1> SUFFICES ASSUME PeriodInv, [Next]_vars PROVE QueuedBeforeWindow'
  BY QueueInvStep DEF PeriodInv
<1>0. TypeOK
  BY DEF PeriodInv, QueueInv, TypeInv
<1>1. CASE \E op \in Operations, relayer \in Relayers : ProtocolQueueOperation(op, relayer)
  <2> PICK op \in Operations, relayer \in Relayers : ProtocolQueueOperation(op, relayer)
    BY <1>1
  <2>1. now + MaxChallengePeriodDuration < EpochEnd(EpochOf(now)) - OneHour
    <3>1. now \in Nat
      BY <1>0, HubAssumption DEF TypeOK
    <3>2. ~ (now + MaxChallengePeriodDuration >= EpochEnd(EpochOf(now)) - OneHour)
      BY DEF ProtocolQueueOperation, IsLockedDown, InLockDownWindow
    <3> QED
      BY <3>1, <3>2, TimingTypes
  <2>2. QueueTime(op)' = now
    BY <1>0 DEF ProtocolQueueOperation, QueueAction, QueueTime, TypeOK
  <2>3. ASSUME NEW o \in QueuedOperations', o # op
        PROVE  o \in QueuedOperations /\ QueueTime(o)' = QueueTime(o)
    BY <1>0, <2>3 DEF ProtocolQueueOperation, QueuedOperations, QueueTime, TypeOK
  <2> QED
    BY <2>1, <2>2, <2>3 DEF PeriodInv, QueuedBeforeWindow
<1>2. CASE \E op \in Operations, class \in CancelClasses : CancelOperation(op, class)
  <2> PICK op \in Operations, class \in CancelClasses : CancelOperation(op, class)
    BY <1>2
  <2>1. QueuedOperations' \subseteq QueuedOperations
    BY <1>0 DEF CancelOperation, RemoveCancelledOperation, QueuedOperations, TypeOK
  <2> QED
    BY <2>1, NobodyEnters DEF CancelOperation, PeriodInv
<1>3. CASE \E op \in Operations : ProtocolExecuteOperation(op)
  <2> PICK op \in Operations : ProtocolExecuteOperation(op)
    BY <1>3
  <2>1. QueuedOperations' \subseteq QueuedOperations
    BY <1>0 DEF ProtocolExecuteOperation, ReleaseOperation, QueuedOperations, TypeOK
  <2> QED
    BY <2>1, NobodyEnters DEF ProtocolExecuteOperation, PeriodInv
<1>4. CASE UNCHANGED queueVars
  BY <1>4, NobodyEnters DEF queueVars, QueuedOperations, PeriodInv
<1> QED
  BY <1>1, <1>2, <1>3, <1>4, StepKinds

\* Enough time left for the longest period is enough for the current one.
LEMMA PeriodEnds == PeriodInv => PeriodEndsInEpoch
<1> SUFFICES ASSUME PeriodInv, NEW op \in QueuedOperations,
                    cancelActions[op] \cap ActorClasses = {}
             PROVE  EndOfChallengePeriod(op, totalCancelActions[op], cancelActions[op])
                       < EpochEnd(EpochOf(QueueTime(op))) - OneHour
  BY DEF PeriodEndsInEpoch
<1>1. Extension(cancelActions[op]) = 0
  BY FS_EmptySet, TimingTypes DEF Extension
<1>2. QueueTime(op) \in Nat
  BY HubAssumption DEF PeriodInv, QueueInv, TypeInv, TypeOK, QueueTime, QueuedOperations
<1>3. numberOfOperationsInQueue \in 0..MaxOperationsInQueue
  BY LengthType, MaxOperationsType DEF PeriodInv, QueueInv, QueueLengthIsExact
<1>4. /\ CurrentChallengePeriodDuration \in Int
      /\ CurrentChallengePeriodDuration <= MaxChallengePeriodDuration
  BY <1>3, PeriodIsBounded DEF CurrentChallengePeriodDuration
<1>5. EndOfChallengePeriod(op, totalCancelActions[op], cancelActions[op])
        = QueueTime(op) + CurrentChallengePeriodDuration
  BY <1>1, <1>2, <1>4 DEF EndOfChallengePeriod, QueueTime
<1>6. QueueTime(op) + MaxChallengePeriodDuration
         < EpochEnd(EpochOf(QueueTime(op))) - OneHour
  BY DEF PeriodInv, QueuedBeforeWindow
<1> QED
  BY <1>2, <1>4, <1>5, <1>6, TimingTypes

(***************************************************************************)
(* Lockdown leaves room for every challenge period: whatever joins the     *)
(* queue later, the challenge period of an operation nobody objects to     *)
(* ends more than one hour before its epoch does, for any base duration,   *)
(* weight and queue limit a hub can be deployed with.                      *)
(***************************************************************************)
THEOREM PeriodsEndInEpoch == Spec => []PeriodEndsInEpoch
BY PeriodInit, PeriodStep, PeriodEnds, PTL DEF Spec

===============================================================================
