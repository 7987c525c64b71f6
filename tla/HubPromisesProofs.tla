--------------------------- MODULE HubPromisesProofs ---------------------------
(***************************************************************************)
(* Proofs that PNetworkHub keeps its promises to the two sides of its      *)
(* queue and of its challenges: it implements OptimisticQueue and          *)
(* ChallengeGame, owns the ether it owes, and stops without active actors. *)
(* What needs governance messages to arrive in their epoch says so.        *)
(***************************************************************************)
EXTENDS HubChallengeProofs

-----------------------------------------------------------------------------
(* The optimistic queue *)

\* No queue is so short that an operation gets less than the base period.
LEMMA PeriodAtLeastBase ==
    ASSUME NEW n \in Nat
    PROVE  /\ ChallengePeriodDuration(n) \in Int
           /\ BaseChallengePeriodDuration <= ChallengePeriodDuration(n)
<1>1. BaseChallengePeriodDuration \in Nat /\ KChallengePeriod \in Nat
  BY TimingAssumption
<1>2. CASE n = 0
  BY <1>1, <1>2 DEF ChallengePeriodDuration
<1>3. CASE n # 0
  <2>1. n * n \in Nat /\ 1 <= n * n
    <3>1. ASSUME NEW m \in Nat, 1 <= m PROVE m * m \in Nat /\ 1 <= m * m
      BY <3>1
    <3> QED
      BY <1>3, <3>1
  <2>2. n * n * KChallengePeriod \in Nat /\ KChallengePeriod <= n * n * KChallengePeriod
    <3>1. ASSUME NEW m \in Nat, NEW k \in Nat, 1 <= m PROVE m * k \in Nat /\ k <= m * k
      BY <3>1
    <3> QED
      BY <1>1, <2>1, <3>1
  <2> QED
    BY <1>1, <1>3, <2>2 DEF ChallengePeriodDuration
<1> QED
  BY <1>2, <1>3

\* How long an operation of the queue stays open, seen from the objections on record.
LEMMA EndOfPeriodIsLate ==
    ASSUME TypeInv, NEW op \in Operations, NEW classes \in SUBSET CancelClasses
    PROVE  /\ EndOfChallengePeriod(op, totalCancelActions[op], classes) \in Int
           /\ QueueTime(op) + BaseChallengePeriodDuration
                <= EndOfChallengePeriod(op, totalCancelActions[op], classes)
           /\ totalCancelActions[op] # 0 =>
                 QueueTime(op) + BaseChallengePeriodDuration + Extension(classes)
                   <= EndOfChallengePeriod(op, totalCancelActions[op], classes)
<1>1. QueueTime(op) \in Nat
  BY HubAssumption DEF TypeInv, TypeOK, QueueTime
<1>2. /\ CurrentChallengePeriodDuration \in Int
      /\ BaseChallengePeriodDuration <= CurrentChallengePeriodDuration
  BY LengthType, PeriodAtLeastBase DEF CurrentChallengePeriodDuration
<1>3. Extension(classes) \in Nat
  <2>1. IsFiniteSet(classes \cap ActorClasses)
    BY ClassesFinite, FS_Subset
  <2>2. Cardinality(classes \cap ActorClasses) \in Nat
    BY <2>1, FS_CardinalityType
  <2>3. ASSUME NEW a \in Nat, NEW b \in Nat PROVE a * b \in Nat
    OBVIOUS
  <2> QED
    BY <2>2, <2>3, TimingTypes DEF Extension
<1> QED
  BY <1>1, <1>2, <1>3, TimingTypes DEF EndOfChallengePeriod, QueueTime

\* The counted objections are the recorded ones.
LEMMA CountedObjections ==
    ASSUME TypeInv, NEW op \in Operations
    PROVE  totalCancelActions[op] = 0 <=> cancelActions[op] = {}
<1>1. IsFiniteSet(cancelActions[op])
  BY ClassesFinite, FS_Subset DEF TypeInv, TypeOK
<1> QED
  BY <1>1, FS_EmptySet DEF TypeInv, TwoCancelsRemove

\* Only the passing of time changes the time.
LEMMA TimePasses ==
    ASSUME [Next]_vars
    PROVE  now' = now \/ Tick
BY DEF Next, vars, ProtocolQueueOperation, ProtocolCancelOperation,
       ProtocolGovernanceCancelOperation, OnGovernanceCancelOperation, CancelOperation,
       ProtocolExecuteOperation, StartChallenge, SolveChallenge, SlashByChallenge,
       ClaimLockedAmountStartChallenge, OnActors, OnSlashActor, OnResumeActor

\* A new hub has the empty queue of the promise.
LEMMA QueuePromiseInit == Init => Queue!Init
BY DEF Init, Queue!Init, QueueTime, NoAction

\* protocolQueueOperation is Queue.
LEMMA QueuePromiseWhenQueued ==
    ASSUME TypeInv, NEW op \in Operations, NEW relayer \in Relayers,
           ProtocolQueueOperation(op, relayer)
    PROVE  Queue!Queue(op)
<1>1. relayerQueueAction'[op].timestamp = now
  BY DEF TypeInv, TypeOK, ProtocolQueueOperation, QueueAction
<1>2. \A o \in Operations \ {op} : relayerQueueAction'[o] = relayerQueueAction[o]
  BY DEF TypeInv, TypeOK, ProtocolQueueOperation
<1>3. [o \in Operations |-> QueueTime(o)]'
        = [[o \in Operations |-> QueueTime(o)] EXCEPT ![op] = now]
  BY <1>1, <1>2 DEF QueueTime
<1> QED
  BY <1>3 DEF ProtocolQueueOperation, Queue!Queue

\* A cancel action is an objection, which removes only late or as the second.
LEMMA QueuePromiseWhenCancelled ==
    ASSUME TypeInv, NEW op \in Operations, NEW class \in CancelClasses,
           CancelOperation(op, class)
    PROVE  Queue!Object(op, class)
<1>1. [o \in Operations |-> QueueTime(o)]' = [o \in Operations |-> QueueTime(o)]
  BY DEF CancelOperation, QueueTime
<1>2. CASE FinalizesCancel(op, class)
  <2>1. \/ cancelActions[op] # {}
        \/ now >= QueueTime(op) + BaseChallengePeriodDuration
    <3>1. CASE totalCancelActions[op] + 1 = 2
      <4>1. totalCancelActions[op] # 0
        BY <3>1
      <4> QED
        BY <4>1, CountedObjections
    <3>2. CASE now >= EndOfChallengePeriod(op, totalCancelActions[op],
                                           cancelActions[op] \cup {class})
      <4>1. cancelActions[op] \cup {class} \in SUBSET CancelClasses
        BY DEF TypeInv, TypeOK
      <4>2. now \in Int /\ QueueTime(op) \in Int /\ BaseChallengePeriodDuration \in Int
        BY HubAssumption, TimingTypes DEF TypeInv, TypeOK, QueueTime
      <4>3. LET end == EndOfChallengePeriod(op, totalCancelActions[op],
                                            cancelActions[op] \cup {class})
            IN  end \in Int /\ QueueTime(op) + BaseChallengePeriodDuration <= end
        BY <4>1, EndOfPeriodIsLate
      <4> QED
        BY <3>2, <4>2, <4>3
    <3> QED
      BY <1>2, <3>1, <3>2 DEF FinalizesCancel
  <2> QED
    BY <1>1, <1>2, <2>1 DEF CancelOperation, RemoveCancelledOperation, Queue!Object
<1>3. CASE ~FinalizesCancel(op, class)
  <2>1. cancelActions[op] = {}
    <3>1. totalCancelActions[op] \in 0..3 /\ totalCancelActions[op] <= 1
      BY DEF CancelOperation, TypeInv, TypeOK, TwoCancelsRemove
    <3> QED
      BY <1>3, <3>1, CountedObjections DEF FinalizesCancel
  <2> QED
    BY <1>1, <1>3, <2>1 DEF CancelOperation, Queue!Object
<1> QED
  BY <1>2, <1>3

\* protocolExecuteOperation is Execute: never before the base period and the delays.
LEMMA QueuePromiseWhenExecuted ==
    ASSUME TypeInv, NEW op \in Operations, ProtocolExecuteOperation(op)
    PROVE  Queue!Execute(op)
<1>1. [o \in Operations |-> QueueTime(o)]' = [o \in Operations |-> QueueTime(o)]
  BY DEF ProtocolExecuteOperation, QueueTime
<1> DEFINE end == EndOfChallengePeriod(op, totalCancelActions[op], cancelActions[op])
<1>2. /\ now \in Int /\ QueueTime(op) \in Int
      /\ BaseChallengePeriodDuration \in Int /\ FiveDays \in Int
      /\ cancelActions[op] \in SUBSET CancelClasses
  BY HubAssumption, TimingTypes DEF TypeInv, TypeOK, QueueTime
<1>3. end \in Int /\ now >= end
  BY <1>2, EndOfPeriodIsLate DEF ProtocolExecuteOperation, ChallengePeriodTerminated
<1>4. now >= QueueTime(op) + BaseChallengePeriodDuration
               + FiveDays * Cardinality(cancelActions[op] \cap ActorClasses)
  <2>1. CASE totalCancelActions[op] = 0
    <3>1. Cardinality(cancelActions[op] \cap ActorClasses) = 0
      BY <2>1, CountedObjections, FS_EmptySet
    <3>2. QueueTime(op) + BaseChallengePeriodDuration <= end
      BY <1>2, EndOfPeriodIsLate
    <3> QED
      BY <1>2, <1>3, <3>1, <3>2
  <2>2. CASE totalCancelActions[op] # 0
    <3>1. QueueTime(op) + BaseChallengePeriodDuration + Extension(cancelActions[op]) <= end
      BY <1>2, <2>2, EndOfPeriodIsLate
    <3>2. Cardinality(cancelActions[op] \cap ActorClasses) \in Nat
      BY <1>2, ClassesFinite, FS_Subset, FS_CardinalityType
    <3>3. Extension(cancelActions[op]) \in Int
      BY <1>2, <3>2 DEF Extension
    <3> QED
      BY <1>2, <1>3, <3>1, <3>3 DEF Extension
  <2> QED
    BY <2>1, <2>2
<1>5. now >= Queue!EarliestExecution(op)
  BY <1>4 DEF Queue!EarliestExecution, Cardinality, Queue!Cardinality
<1> QED
  BY <1>1, <1>5 DEF ProtocolExecuteOperation, ReleaseOperation, Queue!Execute

\* Every step of a hub is a step of the promised queue, or none.
LEMMA QueuePromiseStep == TypeInv /\ [Next]_vars => [Queue!Next]_(Queue!vars)
<1> SUFFICES ASSUME TypeInv, [Next]_vars PROVE Queue!Next \/ UNCHANGED Queue!vars
  OBVIOUS
<1>1. CASE \E op \in Operations, relayer \in Relayers : ProtocolQueueOperation(op, relayer)
  BY <1>1, QueuePromiseWhenQueued DEF Queue!Next
<1>2. CASE \E op \in Operations, class \in CancelClasses : CancelOperation(op, class)
  BY <1>2, QueuePromiseWhenCancelled DEF Queue!Next
<1>3. CASE \E op \in Operations : ProtocolExecuteOperation(op)
  BY <1>3, QueuePromiseWhenExecuted DEF Queue!Next
<1>4. CASE UNCHANGED queueVars
  <2>1. [o \in Operations |-> QueueTime(o)]' = [o \in Operations |-> QueueTime(o)]
    BY <1>4 DEF queueVars, QueueTime
  <2>2. CASE now' = now
    BY <1>4, <2>1, <2>2 DEF queueVars, Queue!vars
  <2>3. CASE Tick
    BY <1>4, <2>1, <2>3 DEF Tick, queueVars, Queue!Next, Queue!Advance
  <2> QED
    BY <2>2, <2>3, TimePasses
<1> QED
  BY <1>1, <1>2, <1>3, <1>4, StepKinds

(***************************************************************************)
(* The promise to relayers and actors: the period that moves with the      *)
(* length of the queue, lockdown, registration and late governance         *)
(* messages never shorten the base period of an operation or the five days *)
(* a recorded objection buys, and no operation leaves the queue twice.     *)
(***************************************************************************)
THEOREM HubImplementsOptimisticQueue == Spec => ImplementsOptimisticQueue
BY QueuePromiseInit, QueuePromiseStep, TypeInvariance, PTL
DEF Spec, ImplementsOptimisticQueue, Queue!Spec

-----------------------------------------------------------------------------
(***************************************************************************)
(* The challenge game.  What a governance message must not do is cancel a  *)
(* challenge of another epoch than the current one: that challenge may     *)
(* have been claimed.  A claimed challenge is always of an earlier epoch,  *)
(* which is what makes cancelling in the epoch safe.                       *)
(***************************************************************************)
CancelsInTheirEpoch ==
    [][\A id \in ChallengeIds :
          (challengesStatus[id] # "Cancelled" /\ challengesStatus'[id] = "Cancelled")
             => ChallengeEpoch(id) = CurrentEpoch]_vars

ClaimedAreOld ==
    \A id \in ChallengeIds :
       challengesStatus[id] = "PartiallyUnsolved" => ChallengeEpoch(id) < CurrentEpoch

GameInv == RecordsInv /\ ClaimedAreOld

\* A pending id was found for a slash by a governance message.
SlashCancels(epoch, actor) ==
    OnSlashActor(epoch, actor) /\ pendingChallengeId[epoch][actor] # None

\* What a step can do to the challenges.
LEMMA ChallengeSteps ==
    ASSUME [Next]_vars
    PROVE  \/ \E actor \in Actors, challenger \in Challengers :
                 StartChallenge(actor, challenger)
           \/ \E id \in ChallengeIds :
                 \/ SolveChallenge(id)
                 \/ SlashByChallenge(id)
                 \/ ClaimLockedAmountStartChallenge(id)
           \/ \E epoch \in MessageEpochs, actor \in Actors : SlashCancels(epoch, actor)
           \/ UNCHANGED challengeVars
<1>1. UNCHANGED vars \/ Tick => UNCHANGED challengeVars
  BY DEF vars, Tick
<1>2. ASSUME NEW x, NEW y,
             \/ ProtocolQueueOperation(x, y)
             \/ CancelOperation(x, y)
             \/ ProtocolExecuteOperation(x)
             \/ OnActors(x, y)
             \/ OnResumeActor(x, y)
      PROVE  UNCHANGED challengeVars
  BY <1>2 DEF ProtocolQueueOperation, CancelOperation, ProtocolExecuteOperation,
              OnActors, OnResumeActor
<1>3. ASSUME NEW epoch, NEW actor, OnSlashActor(epoch, actor)
      PROVE  SlashCancels(epoch, actor) \/ UNCHANGED challengeVars
  BY <1>3 DEF OnSlashActor, MaybeCancelPendingChallenge, SlashCancels
<1> QED
  BY <1>1, <1>2, <1>3
  DEF Next, ProtocolCancelOperation, ProtocolGovernanceCancelOperation,
      OnGovernanceCancelOperation

\* The challenge a slash cancels is the recorded one, of the message's epoch.
LEMMA CancelledByMessage ==
    ASSUME RecordsInv, NEW epoch \in Epochs, NEW actor \in Actors,
           SlashCancels(epoch, actor)
    PROVE  LET id == pendingChallengeId[epoch][actor] IN
           /\ id \in ChallengeIds
           /\ ChallengeEpoch(id) = epoch
           /\ challengesStatus[id] \in {"Pending", "PartiallyUnsolved"}
           /\ challengesStatus' = [challengesStatus EXCEPT ![id] = "Cancelled"]
           /\ challenges' = challenges /\ now' = now
           /\ SendEther(challenges[id].challenger, LockedAmountStartChallenge)
           /\ UNCHANGED queueVars
<1>1. TypeOK /\ PendingIdsAgree
  BY DEF RecordsInv, HourInv, TypeInv
<1>2. pendingChallengeId[epoch][actor] \in ChallengeIds
  BY <1>1 DEF TypeOK, SlashCancels
<1>3. /\ ChallengeEpoch(pendingChallengeId[epoch][actor]) = epoch
      /\ challengesStatus[pendingChallengeId[epoch][actor]] \in {"Pending", "PartiallyUnsolved"}
  BY <1>1 DEF PendingIdsAgree, SlashCancels
<1> QED
  BY <1>2, <1>3 DEF SlashCancels, OnSlashActor, MaybeCancelPendingChallenge, CloseChallenge

\* The epoch never goes back.
LEMMA EpochAdvances ==
    ASSUME TypeInv, [Next]_vars
    PROVE  /\ CurrentEpoch \in Nat
           /\ CurrentEpoch' \in Nat
           /\ CurrentEpoch <= CurrentEpoch'
<1>1. now \in Nat
  BY HubAssumption DEF TypeInv, TypeOK
<1>2. now' \in Nat /\ now <= now'
  BY <1>1, TimePasses DEF Tick
<1> QED
  BY <1>1, <1>2, EpochOfMonotone DEF CurrentEpoch

\* No challenge was claimed in a new hub.
LEMMA GameInit == Init => GameInv
BY RecordsInit DEF GameInv, ClaimedAreOld, Init

\* A challenge is claimed in a later epoch, and epochs only advance.
LEMMA GameStep == GameInv /\ [Next]_vars => GameInv'
<1> SUFFICES ASSUME GameInv, [Next]_vars PROVE ClaimedAreOld'
  BY RecordsStep DEF GameInv
<1>0. RecordsInv /\ TypeInv /\ TypeOK /\ ChallengesRecorded /\ ClaimedAreOld
  BY DEF GameInv, RecordsInv, HourInv, TypeInv
<1>1. ASSUME challenges' = challenges,
             \A id \in ChallengeIds :
                challengesStatus'[id] = "PartiallyUnsolved" => ChallengeEpoch(id) < CurrentEpoch
      PROVE  ClaimedAreOld'
  <2> SUFFICES ASSUME NEW id \in ChallengeIds, challengesStatus'[id] = "PartiallyUnsolved"
               PROVE  EpochOf(challenges'[id].timestamp) < CurrentEpoch'
    BY DEF ClaimedAreOld, ChallengeEpoch
  <2>1. challenges[id].timestamp \in Nat
    BY <1>0, HubAssumption DEF TypeOK
  <2>2. ChallengeEpoch(id) \in Nat
    BY <2>1, EpochOfMonotone DEF ChallengeEpoch
  <2>3. EpochOf(challenges'[id].timestamp) = ChallengeEpoch(id)
    BY <1>1 DEF ChallengeEpoch
  <2> QED
    BY <1>0, <1>1, <2>2, <2>3, EpochAdvances
<1>2. ASSUME NEW id \in ChallengeIds, NEW status \in {"Solved", "Unsolved", "Cancelled"},
             challenges' = challenges,
             challengesStatus' = [challengesStatus EXCEPT ![id] = status]
      PROVE  ClaimedAreOld'
  BY <1>0, <1>1, <1>2 DEF TypeOK, ClaimedAreOld
<1>3. ASSUME NEW actor \in Actors, NEW challenger \in Challengers,
             StartChallenge(actor, challenger)
      PROVE  ClaimedAreOld'
  <2> SUFFICES ASSUME NEW id \in ChallengeIds, challengesStatus'[id] = "PartiallyUnsolved"
               PROVE  EpochOf(challenges'[id].timestamp) < CurrentEpoch'
    BY DEF ClaimedAreOld, ChallengeEpoch
  <2>1. id # challengesNonce
    BY <1>0, <1>3, StartedChallenge
  <2>2. challengesStatus'[id] = challengesStatus[id] /\ challenges'[id] = challenges[id]
    BY <1>0, <1>3, <2>1, StartedChallenge
  <2>3. CurrentEpoch' = CurrentEpoch
    BY <1>3 DEF StartChallenge, CurrentEpoch
  <2> QED
    BY <1>0, <2>2, <2>3 DEF ClaimedAreOld, ChallengeEpoch
<1>4. ASSUME NEW id \in ChallengeIds, ClaimLockedAmountStartChallenge(id)
      PROVE  ClaimedAreOld'
  BY <1>0, <1>1, <1>4
  DEF ClaimLockedAmountStartChallenge, ClaimWindow, ClaimedAreOld, TypeOK
<1>5. ASSUME NEW id \in ChallengeIds, SolveChallenge(id) \/ SlashByChallenge(id)
      PROVE  ClaimedAreOld'
  BY <1>2, <1>5 DEF SolveChallenge, SlashByChallenge, CloseChallenge
<1>6. ASSUME NEW epoch \in MessageEpochs, NEW actor \in Actors, SlashCancels(epoch, actor)
      PROVE  ClaimedAreOld'
  BY <1>0, <1>2, <1>6, CancelledByMessage DEF MessageEpochs
<1>7. CASE UNCHANGED challengeVars
  BY <1>0, <1>1, <1>7 DEF challengeVars, ClaimedAreOld
<1> QED
  BY <1>3, <1>4, <1>5, <1>6, <1>7, ChallengeSteps

\* Claimed challenges are old in every state.
LEMMA GameInvariance == Spec => []GameInv
BY GameInit, GameStep, PTL DEF Spec

\* A new hub has no challenges, as the game requires.
LEMMA GamePromiseInit == Init => Game!Init
BY DEF Init, Game!Init, Stage, NoChallenge

\* A new status of a pending challenge closes it in the game.
LEMMA GameCloses ==
    ASSUME TypeOK, NEW id \in ChallengeIds, NEW status \in ChallengeStatuses,
           challengesStatus[id] = "Pending",
           challengesStatus' = [challengesStatus EXCEPT ![id] = status],
           challenges' = challenges, now' = now
    PROVE  Game!Close(id, Stage(status))
<1>1. [c \in ChallengeIds |-> Stage(challengesStatus[c])]'
        = [[c \in ChallengeIds |-> Stage(challengesStatus[c])] EXCEPT ![id] = Stage(status)]
  BY DEF TypeOK
<1>2. [c \in ChallengeIds |-> challenges[c].timestamp]'
        = [c \in ChallengeIds |-> challenges[c].timestamp]
  OBVIOUS
<1>3. Stage(challengesStatus[id]) = "Open"
  BY DEF Stage
<1> QED
  BY <1>1, <1>2, <1>3 DEF Game!Close

\* The epochs of the game are the epochs of the hub.
LEMMA GameEpochs ==
    ASSUME NEW id \in ChallengeIds
    PROVE  Game!SameEpoch(id) <=> ChallengeEpoch(id) = CurrentEpoch
BY DEF Game!SameEpoch, Game!Epoch, ChallengeEpoch, CurrentEpoch, EpochOf

\* startChallenge opens a challenge nobody used.
LEMMA GameOpens ==
    ASSUME GameInv, NEW actor \in Actors, NEW challenger \in Challengers,
           StartChallenge(actor, challenger),
           NEW new \in ChallengeIds, new = challengesNonce
    PROVE  Game!Open(new)
<1>0. TypeInv /\ TypeOK /\ FreshNonce
  BY DEF GameInv, RecordsInv, HourInv, TypeInv
<1>1. /\ challengesStatus'[new] = "Pending"
      /\ challenges'[new] = [actor |-> actor, challenger |-> challenger, timestamp |-> now]
      /\ \A id \in ChallengeIds \ {new} :
            /\ challengesStatus'[id] = challengesStatus[id]
            /\ challenges'[id] = challenges[id]
  BY <1>0, StartedChallenge
<1>2. Stage(challengesStatus[new]) = "None"
  <2>1. challengesNonce >= challengesNonce
    BY <1>0, HubAssumption DEF TypeOK
  <2>2. challengesStatus[new] = "Null"
    BY <1>0, <1>1, <2>1 DEF FreshNonce
  <2> QED
    BY <2>2 DEF Stage
<1>3. Stage("Pending") = "Open"
  BY DEF Stage
<1>4. [c \in ChallengeIds |-> Stage(challengesStatus[c])]'
        = [[c \in ChallengeIds |-> Stage(challengesStatus[c])] EXCEPT ![new] = "Open"]
  BY <1>1, <1>3
<1>5. [c \in ChallengeIds |-> challenges[c].timestamp]'
        = [[c \in ChallengeIds |-> challenges[c].timestamp] EXCEPT ![new] = now]
  <2>1. challenges'[new].timestamp = now
    BY <1>1
  <2> QED
    BY <1>1, <2>1
<1> QED
  BY <1>1, <1>2, <1>4, <1>5 DEF StartChallenge, Game!Open

\* A step that cancels nothing out of its epoch is a step of the game, or none.
LEMMA GamePromiseStep ==
    ASSUME GameInv, [Next]_vars,
           \A id \in ChallengeIds :
              (challengesStatus[id] # "Cancelled" /\ challengesStatus'[id] = "Cancelled")
                 => ChallengeEpoch(id) = CurrentEpoch
    PROVE  Game!Next \/ UNCHANGED Game!vars
<1>0. RecordsInv /\ TypeInv /\ TypeOK /\ ClaimedAreOld
  BY DEF GameInv, RecordsInv, HourInv, TypeInv
<1>1. ASSUME NEW actor \in Actors, NEW challenger \in Challengers,
             StartChallenge(actor, challenger)
      PROVE  Game!Next
  <2> PICK new \in ChallengeIds : new = challengesNonce
    BY <1>0, <1>1, StartedChallenge
  <2>1. Game!Open(new)
    BY <1>1, GameOpens
  <2> QED
    BY <2>1 DEF Game!Next
<1>2. ASSUME NEW id \in ChallengeIds, SolveChallenge(id)
      PROVE  Game!Answer(id)
  <2>1. /\ ChallengeEpoch(id) = CurrentEpoch /\ challengesStatus[id] = "Pending"
        /\ now <= challenges[id].timestamp + ChallengeDuration
    BY <1>2 DEF SolveChallenge, StatusInEpoch, SolveWindow
  <2>2. Game!Close(id, Stage("Solved"))
    BY <1>0, <1>2, <2>1, GameCloses DEF SolveChallenge, CloseChallenge, ChallengeStatuses
  <2> QED
    BY <2>1, <2>2, GameEpochs DEF Game!Answer, Stage
<1>3. ASSUME NEW id \in ChallengeIds, SlashByChallenge(id)
      PROVE  Game!Slash(id)
  <2>1. /\ ChallengeEpoch(id) = CurrentEpoch /\ challengesStatus[id] = "Pending"
        /\ now > challenges[id].timestamp + ChallengeDuration
    BY <1>3 DEF SlashByChallenge, StatusInEpoch, SlashWindow
  <2>2. Game!Close(id, Stage("Unsolved"))
    BY <1>0, <1>3, <2>1, GameCloses DEF SlashByChallenge, CloseChallenge, ChallengeStatuses
  <2> QED
    BY <2>1, <2>2, GameEpochs DEF Game!Slash, Stage
<1>4. ASSUME NEW id \in ChallengeIds, ClaimLockedAmountStartChallenge(id)
      PROVE  Game!Reclaim(id)
  <2>1. ChallengeEpoch(id) < CurrentEpoch /\ challengesStatus[id] = "Pending"
    BY <1>4 DEF ClaimLockedAmountStartChallenge, StatusInEpoch, ClaimWindow
  <2>2. ChallengeEpoch(id) # CurrentEpoch
    <3>1. challenges[id].timestamp \in Nat
      BY <1>0, HubAssumption DEF TypeOK
    <3>2. ChallengeEpoch(id) \in Nat /\ CurrentEpoch \in Nat
      BY <1>0, <3>1, EpochOfMonotone, EpochAdvances DEF ChallengeEpoch
    <3> QED
      BY <2>1, <3>2
  <2>3. Game!Close(id, Stage("PartiallyUnsolved"))
    BY <1>0, <1>4, <2>1, GameCloses DEF ClaimLockedAmountStartChallenge, ChallengeStatuses
  <2> QED
    BY <2>2, <2>3, GameEpochs DEF Game!Reclaim, Stage
<1>5. ASSUME NEW epoch \in MessageEpochs, NEW actor \in Actors, SlashCancels(epoch, actor)
      PROVE  Game!SlashedByDAO(pendingChallengeId[epoch][actor])
             /\ pendingChallengeId[epoch][actor] \in ChallengeIds
  <2> DEFINE id == pendingChallengeId[epoch][actor]
  <2>1. /\ id \in ChallengeIds
        /\ challengesStatus[id] \in {"Pending", "PartiallyUnsolved"}
        /\ challengesStatus' = [challengesStatus EXCEPT ![id] = "Cancelled"]
        /\ challenges' = challenges /\ now' = now
    BY <1>0, <1>5, CancelledByMessage DEF MessageEpochs
  <2>2. challengesStatus'[id] = "Cancelled" /\ challengesStatus[id] # "Cancelled"
    BY <1>0, <2>1 DEF TypeOK
  <2>3. ChallengeEpoch(id) = CurrentEpoch
    BY <2>1, <2>2
  <2>4. challengesStatus[id] = "Pending"
    <3>1. ~(CurrentEpoch < CurrentEpoch)
      BY <1>0, EpochAdvances
    <3> QED
      BY <1>0, <2>1, <2>3, <3>1 DEF ClaimedAreOld
  <2>5. Game!Close(id, Stage("Cancelled"))
    BY <1>0, <2>1, <2>4, GameCloses DEF ChallengeStatuses
  <2> QED
    BY <2>1, <2>3, <2>5, GameEpochs DEF Game!SlashedByDAO, Stage
<1>6. CASE UNCHANGED challengeVars
  <2>1. UNCHANGED <<[c \in ChallengeIds |-> Stage(challengesStatus[c])],
                    [c \in ChallengeIds |-> challenges[c].timestamp]>>
    BY <1>6 DEF challengeVars
  <2>2. CASE now' = now
    BY <2>1, <2>2 DEF Game!vars
  <2>3. CASE Tick
    BY <2>1, <2>3 DEF Tick, Game!Next, Game!Advance
  <2> QED
    BY <2>2, <2>3, TimePasses
<1> QED
  BY <1>1, <1>2, <1>3, <1>4, <1>5, <1>6, ChallengeSteps DEF Game!Next

\* A message that is not late cancels a challenge of the epoch it arrives in.
LEMMA PromptMessagesStep ==
    ASSUME MessageLag = 0, RecordsInv, Next, NEW id \in ChallengeIds,
           challengesStatus[id] # "Cancelled", challengesStatus'[id] = "Cancelled"
    PROVE  ChallengeEpoch(id) = CurrentEpoch
<1>0. TypeInv /\ TypeOK
  BY DEF RecordsInv, HourInv, TypeInv
<1>1. CASE \E epoch \in MessageEpochs, actor \in Actors : SlashCancels(epoch, actor)
  <2> PICK epoch \in MessageEpochs, actor \in Actors : SlashCancels(epoch, actor)
    BY <1>1
  <2>1. epoch \in Epochs /\ epoch = CurrentEpoch
    <3>1. epoch \in Epochs /\ epoch <= CurrentEpoch /\ CurrentEpoch <= epoch + MessageLag
      BY DEF MessageEpochs
    <3>2. epoch \in Int
      BY <3>1 DEF Epochs
    <3>3. CurrentEpoch \in Nat
      BY <1>0, EpochAdvances
    <3> QED
      BY <3>1, <3>2, <3>3
  <2>2. id = pendingChallengeId[epoch][actor]
    BY <1>0, <2>1, CancelledByMessage DEF TypeOK
  <2> QED
    BY <2>1, <2>2, CancelledByMessage
<1>2. CASE \E actor \in Actors, challenger \in Challengers : StartChallenge(actor, challenger)
  <2> PICK actor \in Actors, challenger \in Challengers : StartChallenge(actor, challenger)
    BY <1>2
  <2>1. \/ challengesStatus'[id] = "Pending"
        \/ challengesStatus'[id] = challengesStatus[id]
    BY <1>0, StartedChallenge
  <2> QED
    BY <2>1
<1>3. CASE \E c \in ChallengeIds :
              \/ SolveChallenge(c)
              \/ SlashByChallenge(c)
              \/ ClaimLockedAmountStartChallenge(c)
  BY <1>0, <1>3 DEF SolveChallenge, SlashByChallenge, ClaimLockedAmountStartChallenge,
                    CloseChallenge, TypeOK
<1>4. CASE UNCHANGED challengeVars
  BY <1>4 DEF challengeVars
<1> QED
  BY <1>1, <1>2, <1>3, <1>4, ChallengeSteps

(***************************************************************************)
(* If governance messages arrive in the epoch they were sent in, none of   *)
(* them cancels a challenge of another epoch: the hypothesis of the next   *)
(* three theorems is one the relaying of messages can meet.                *)
(***************************************************************************)
THEOREM PromptMessagesCancelInTheirEpoch ==
    ASSUME MessageLag = 0
    PROVE  Spec => CancelsInTheirEpoch
<1>1. RecordsInv /\ [Next]_vars =>
         [\A id \in ChallengeIds :
             (challengesStatus[id] # "Cancelled" /\ challengesStatus'[id] = "Cancelled")
                => ChallengeEpoch(id) = CurrentEpoch]_vars
  BY PromptMessagesStep
<1> QED
  BY <1>1, RecordsInvariance, PTL DEF Spec, CancelsInTheirEpoch

(***************************************************************************)
(* The promise to the two sides of a challenge, when no governance message *)
(* cancels a challenge of an earlier epoch: its bond leaves once, to the   *)
(* side the rules of the game name, and no actor answers late.  Late roots *)
(* and resumes, and late slashes that find no challenge, break nothing.    *)
(***************************************************************************)
THEOREM HubImplementsChallengeGame ==
    Spec /\ CancelsInTheirEpoch => ImplementsChallengeGame
<1>1. GameInv /\ [Next]_vars
         /\ [\A id \in ChallengeIds :
                (challengesStatus[id] # "Cancelled" /\ challengesStatus'[id] = "Cancelled")
                   => ChallengeEpoch(id) = CurrentEpoch]_vars
      => [Game!Next]_(Game!vars)
  <2>1. UNCHANGED vars =>
           \A id \in ChallengeIds :
              (challengesStatus[id] # "Cancelled" /\ challengesStatus'[id] = "Cancelled")
                 => ChallengeEpoch(id) = CurrentEpoch
    BY DEF vars, challengeVars
  <2> QED
    BY <2>1, GamePromiseStep
<1> QED
  BY <1>1, GamePromiseInit, GameInvariance, PTL
  DEF Spec, CancelsInTheirEpoch, ImplementsChallengeGame, Game!Spec

\* A challenge that is cancelled in its epoch was not claimed before.
LEMMA CancelledWasPending ==
    ASSUME GameInv, Next, NEW id \in ChallengeIds,
           challengesStatus[id] # "Cancelled", challengesStatus'[id] = "Cancelled",
           ChallengeEpoch(id) = CurrentEpoch
    PROVE  challengesStatus[id] = "Pending"
<1>0. RecordsInv /\ TypeInv /\ TypeOK /\ ClaimedAreOld
  BY DEF GameInv, RecordsInv, HourInv, TypeInv
<1>1. CASE \E epoch \in MessageEpochs, actor \in Actors : SlashCancels(epoch, actor)
  <2> PICK epoch \in MessageEpochs, actor \in Actors : SlashCancels(epoch, actor)
    BY <1>1
  <2>1. id = pendingChallengeId[epoch][actor]
    BY <1>0, CancelledByMessage DEF TypeOK, MessageEpochs
  <2>2. challengesStatus[id] \in {"Pending", "PartiallyUnsolved"}
    BY <1>0, <2>1, CancelledByMessage DEF MessageEpochs
  <2>3. ~(CurrentEpoch < CurrentEpoch)
    BY <1>0, EpochAdvances
  <2> QED
    BY <1>0, <2>2, <2>3 DEF ClaimedAreOld
<1>2. CASE \E actor \in Actors, challenger \in Challengers : StartChallenge(actor, challenger)
  <2> PICK actor \in Actors, challenger \in Challengers : StartChallenge(actor, challenger)
    BY <1>2
  <2>1. \/ challengesStatus'[id] = "Pending"
        \/ challengesStatus'[id] = challengesStatus[id]
    BY <1>0, StartedChallenge
  <2> QED
    BY <2>1
<1>3. CASE \E c \in ChallengeIds :
              \/ SolveChallenge(c)
              \/ SlashByChallenge(c)
              \/ ClaimLockedAmountStartChallenge(c)
  BY <1>0, <1>3 DEF SolveChallenge, SlashByChallenge, ClaimLockedAmountStartChallenge,
                    CloseChallenge, TypeOK
<1>4. CASE UNCHANGED challengeVars
  BY <1>4 DEF challengeVars
<1> QED
  BY <1>1, <1>2, <1>3, <1>4, ChallengeSteps

(***************************************************************************)
(* "Before the challenge is resolved": the comment of _onGovernanceMessage *)
(* is true of every message that reaches the challenge in its epoch.       *)
(***************************************************************************)
THEOREM OnlyPendingAreCancelled ==
    Spec /\ CancelsInTheirEpoch => CancelsOnlyPendingChallenges
<1>1. GameInv /\ [Next]_vars
         /\ [\A id \in ChallengeIds :
                (challengesStatus[id] # "Cancelled" /\ challengesStatus'[id] = "Cancelled")
                   => ChallengeEpoch(id) = CurrentEpoch]_vars
      => [\A id \in ChallengeIds :
             (challengesStatus[id] # "Cancelled" /\ challengesStatus'[id] = "Cancelled")
                => challengesStatus[id] = "Pending"]_vars
  BY CancelledWasPending
<1> QED
  BY <1>1, GameInvariance, PTL DEF Spec, CancelsInTheirEpoch, CancelsOnlyPendingChallenges

-----------------------------------------------------------------------------
(***************************************************************************)
(* The ether of a hub.  Each lock and each bond enters with the status     *)
(* that owes it and leaves with that status; the one way to break this is  *)
(* to cancel a challenge whose bond has left.                              *)
(***************************************************************************)
Locks == Cardinality(QueuedOperations)
Bonds == Cardinality(PendingChallenges)

EtherInv == GameInv /\ EtherCoversLocks

\* There are finitely many locks and bonds.
LEMMA DebtsAreFinite ==
    /\ IsFiniteSet(QueuedOperations) /\ Locks \in Nat
    /\ IsFiniteSet(PendingChallenges) /\ Bonds \in Nat
<1>1. IsFiniteSet(ChallengeIds)
  <2>1. 0 \in Int /\ MaxChallenges - 1 \in Int
    BY HubAssumption
  <2> QED
    BY <2>1, FS_Interval DEF ChallengeIds
<1>2. IsFiniteSet(PendingChallenges)
  BY <1>1, FS_Subset DEF PendingChallenges
<1> QED
  BY <1>2, QueueIsFinite, FS_CardinalityType DEF Locks, Bonds

\* What one more or one less costs.
LEMMA OneMoreOneLess ==
    ASSUME NEW amount \in Nat, NEW n \in Nat
    PROVE  /\ amount * n \in Nat
           /\ amount * (n + 1) = amount * n + amount
           /\ amount * (n - 1) = amount * n - amount
OBVIOUS

\* A hub owes what it holds before, and the step pays for what it adds or removes.
LEMMA EtherBalances ==
    ASSUME EtherCoversLocks,
           \/ /\ Locks' = Locks + 1 /\ Bonds' = Bonds
              /\ balance' = balance + LockedAmountChallengePeriod
           \/ /\ Locks' = Locks - 1 /\ Bonds' = Bonds
              /\ balance' = balance - LockedAmountChallengePeriod
           \/ /\ Locks' = Locks /\ Bonds' = Bonds + 1
              /\ balance' = balance + LockedAmountStartChallenge
           \/ /\ Locks' = Locks /\ Bonds' = Bonds - 1
              /\ balance' = balance - LockedAmountStartChallenge
           \/ Locks' = Locks /\ Bonds' = Bonds /\ balance' = balance
    PROVE  EtherCoversLocks'
<1>1. Locks \in Nat /\ Bonds \in Nat
  BY DebtsAreFinite
<1>2. LockedAmountChallengePeriod \in Nat /\ LockedAmountStartChallenge \in Nat
  BY HubAssumption
<1>3. balance = LockedAmountChallengePeriod * Locks + LockedAmountStartChallenge * Bonds
  BY DEF EtherCoversLocks, Locks, Bonds
<1>4. /\ LockedAmountChallengePeriod * Locks \in Nat
      /\ LockedAmountChallengePeriod * (Locks + 1)
           = LockedAmountChallengePeriod * Locks + LockedAmountChallengePeriod
      /\ LockedAmountChallengePeriod * (Locks - 1)
           = LockedAmountChallengePeriod * Locks - LockedAmountChallengePeriod
  BY <1>1, <1>2, OneMoreOneLess
<1>5. /\ LockedAmountStartChallenge * Bonds \in Nat
      /\ LockedAmountStartChallenge * (Bonds + 1)
           = LockedAmountStartChallenge * Bonds + LockedAmountStartChallenge
      /\ LockedAmountStartChallenge * (Bonds - 1)
           = LockedAmountStartChallenge * Bonds - LockedAmountStartChallenge
  BY <1>1, <1>2, OneMoreOneLess
<1>6. balance' = LockedAmountChallengePeriod * Locks' + LockedAmountStartChallenge * Bonds'
  BY <1>2, <1>3, <1>4, <1>5
<1> QED
  BY <1>6 DEF EtherCoversLocks, Locks, Bonds

\* An operation enters the queue, or leaves it.
LEMMA LocksChange ==
    ASSUME TypeOK, NEW op \in Operations, NEW status \in OperationStatuses,
           operationsStatus' = [operationsStatus EXCEPT ![op] = status]
    PROVE  /\ operationsStatus[op] # "Queued" /\ status = "Queued" => Locks' = Locks + 1
           /\ operationsStatus[op] = "Queued" /\ status # "Queued" => Locks' = Locks - 1
<1>1. CASE operationsStatus[op] # "Queued" /\ status = "Queued"
  <2>1. QueuedOperations' = QueuedOperations \cup {op} /\ op \notin QueuedOperations
    BY <1>1 DEF TypeOK, QueuedOperations
  <2> QED
    BY <1>1, <2>1, DebtsAreFinite, FS_AddElement DEF Locks
<1>2. CASE operationsStatus[op] = "Queued" /\ status # "Queued"
  <2>1. QueuedOperations' = QueuedOperations \ {op} /\ op \in QueuedOperations
    BY <1>2 DEF TypeOK, QueuedOperations
  <2> QED
    BY <1>2, <2>1, DebtsAreFinite, FS_RemoveElement DEF Locks
<1> QED
  BY <1>1, <1>2

\* A challenge is started, or is no longer pending.
LEMMA BondsChange ==
    ASSUME TypeOK, NEW id \in ChallengeIds, NEW status \in ChallengeStatuses,
           challengesStatus' = [challengesStatus EXCEPT ![id] = status]
    PROVE  /\ challengesStatus[id] # "Pending" /\ status = "Pending" => Bonds' = Bonds + 1
           /\ challengesStatus[id] = "Pending" /\ status # "Pending" => Bonds' = Bonds - 1
<1>1. CASE challengesStatus[id] # "Pending" /\ status = "Pending"
  <2>1. PendingChallenges' = PendingChallenges \cup {id} /\ id \notin PendingChallenges
    BY <1>1 DEF TypeOK, PendingChallenges
  <2> QED
    BY <1>1, <2>1, DebtsAreFinite, FS_AddElement DEF Bonds
<1>2. CASE challengesStatus[id] = "Pending" /\ status # "Pending"
  <2>1. PendingChallenges' = PendingChallenges \ {id} /\ id \in PendingChallenges
    BY <1>2 DEF TypeOK, PendingChallenges
  <2> QED
    BY <1>2, <2>1, DebtsAreFinite, FS_RemoveElement DEF Bonds
<1> QED
  BY <1>1, <1>2

\* What a step can do to the ether and to what it is owed for.
LEMMA EtherSteps ==
    ASSUME [Next]_vars
    PROVE  \/ \E op \in Operations :
                 \/ \E relayer \in Relayers : ProtocolQueueOperation(op, relayer)
                 \/ \E class \in CancelClasses : CancelOperation(op, class)
                 \/ ProtocolExecuteOperation(op)
           \/ \E actor \in Actors, challenger \in Challengers :
                 StartChallenge(actor, challenger)
           \/ \E id \in ChallengeIds :
                 \/ SolveChallenge(id)
                 \/ SlashByChallenge(id)
                 \/ ClaimLockedAmountStartChallenge(id)
           \/ \E epoch \in MessageEpochs, actor \in Actors : SlashCancels(epoch, actor)
           \/ UNCHANGED <<balance, queueVars, challengeVars>>
<1>1. UNCHANGED vars \/ Tick => UNCHANGED <<balance, queueVars, challengeVars>>
  BY DEF vars, Tick
<1>2. ASSUME NEW x, NEW y, OnActors(x, y) \/ OnResumeActor(x, y)
      PROVE  UNCHANGED <<balance, queueVars, challengeVars>>
  BY <1>2 DEF OnActors, OnResumeActor
<1>3. ASSUME NEW epoch, NEW actor, OnSlashActor(epoch, actor)
      PROVE  \/ SlashCancels(epoch, actor)
             \/ UNCHANGED <<balance, queueVars, challengeVars>>
  BY <1>3 DEF OnSlashActor, MaybeCancelPendingChallenge, SlashCancels
<1>4. ASSUME NEW op \in Operations, NEW actor, ProtocolCancelOperation(op, actor)
      PROVE  \E class \in CancelClasses : CancelOperation(op, class)
  BY <1>4, ClassOfType DEF ProtocolCancelOperation, CancelClasses
<1>5. "Governance" \in CancelClasses
  BY DEF CancelClasses
<1> QED
  BY <1>1, <1>2, <1>3, <1>4, <1>5
  DEF Next, ProtocolGovernanceCancelOperation, OnGovernanceCancelOperation

\* The queue handlers move one lock, or nothing.
LEMMA EtherWhenQueueMoves ==
    ASSUME TypeOK, EtherCoversLocks, NEW op \in Operations,
           \/ \E relayer \in Relayers : ProtocolQueueOperation(op, relayer)
           \/ \E class \in CancelClasses : CancelOperation(op, class)
           \/ ProtocolExecuteOperation(op)
    PROVE  EtherCoversLocks'
<1>1. UNCHANGED challengeVars
  BY DEF ProtocolQueueOperation, CancelOperation, ProtocolExecuteOperation
<1>2. Bonds' = Bonds
  BY <1>1 DEF challengeVars, Bonds, PendingChallenges
<1>3. \/ /\ operationsStatus[op] # "Queued"
         /\ operationsStatus' = [operationsStatus EXCEPT ![op] = "Queued"]
         /\ balance' = balance + LockedAmountChallengePeriod
      \/ /\ operationsStatus[op] = "Queued"
         /\ \/ operationsStatus' = [operationsStatus EXCEPT ![op] = "Cancelled"]
            \/ operationsStatus' = [operationsStatus EXCEPT ![op] = "Executed"]
         /\ balance' = balance - LockedAmountChallengePeriod
      \/ UNCHANGED <<operationsStatus, balance>>
  BY DEF ProtocolQueueOperation, CancelOperation, RemoveCancelledOperation,
         ProtocolExecuteOperation, ReleaseOperation, SendEther
<1>4. UNCHANGED operationsStatus => Locks' = Locks
  BY DEF Locks, QueuedOperations
<1>5. /\ "Queued" \in OperationStatuses
      /\ "Cancelled" \in OperationStatuses
      /\ "Executed" \in OperationStatuses
  BY DEF OperationStatuses
<1>6. \/ Locks' = Locks + 1 /\ balance' = balance + LockedAmountChallengePeriod
      \/ Locks' = Locks - 1 /\ balance' = balance - LockedAmountChallengePeriod
      \/ Locks' = Locks /\ balance' = balance
  BY <1>3, <1>4, <1>5, LocksChange
<1> QED
  BY <1>2, <1>6, EtherBalances

\* Every step keeps the ether, unless it cancels a challenge already claimed.
LEMMA EtherStep ==
    ASSUME EtherInv, [Next]_vars,
           [\A id \in ChallengeIds :
               (challengesStatus[id] # "Cancelled" /\ challengesStatus'[id] = "Cancelled")
                  => challengesStatus[id] = "Pending"]_vars
    PROVE  EtherInv'
<1> SUFFICES EtherCoversLocks'
  BY GameStep DEF EtherInv
<1>0. RecordsInv /\ TypeInv /\ TypeOK /\ FreshNonce /\ EtherCoversLocks
  BY DEF EtherInv, GameInv, RecordsInv, HourInv, TypeInv
<1>1. ASSUME NEW op \in Operations,
             \/ \E relayer \in Relayers : ProtocolQueueOperation(op, relayer)
             \/ \E class \in CancelClasses : CancelOperation(op, class)
             \/ ProtocolExecuteOperation(op)
      PROVE  EtherCoversLocks'
  BY <1>0, <1>1, EtherWhenQueueMoves
<1>2. UNCHANGED queueVars => Locks' = Locks
  BY DEF queueVars, Locks, QueuedOperations
<1>3. ASSUME NEW actor \in Actors, NEW challenger \in Challengers,
             StartChallenge(actor, challenger)
      PROVE  EtherCoversLocks'
  <2> PICK new \in ChallengeIds : new = challengesNonce
    BY <1>0, <1>3, StartedChallenge
  <2>1. challengesStatus[new] = "Null"
    BY <1>0, HubAssumption DEF FreshNonce, TypeOK
  <2>2. challengesStatus' = [challengesStatus EXCEPT ![new] = "Pending"]
    BY <1>3 DEF StartChallenge
  <2>3. Bonds' = Bonds + 1
    BY <1>0, <2>1, <2>2, BondsChange DEF ChallengeStatuses
  <2> QED
    BY <1>0, <1>2, <1>3, <2>3, EtherBalances DEF StartChallenge
<1>4. ASSUME NEW id \in ChallengeIds,
             NEW status \in {"Solved", "Unsolved", "PartiallyUnsolved", "Cancelled"},
             challengesStatus[id] = "Pending", NEW to,
             challengesStatus' = [challengesStatus EXCEPT ![id] = status],
             SendEther(to, LockedAmountStartChallenge), UNCHANGED queueVars
      PROVE  EtherCoversLocks'
  <2>1. Bonds' = Bonds - 1
    BY <1>0, <1>4, BondsChange DEF ChallengeStatuses
  <2> QED
    BY <1>0, <1>2, <1>4, <2>1, EtherBalances DEF SendEther
<1>5. ASSUME NEW id \in ChallengeIds,
             \/ SolveChallenge(id)
             \/ SlashByChallenge(id)
             \/ ClaimLockedAmountStartChallenge(id)
      PROVE  EtherCoversLocks'
  BY <1>4, <1>5 DEF SolveChallenge, SlashByChallenge, ClaimLockedAmountStartChallenge,
                    StatusInEpoch, CloseChallenge
<1>6. ASSUME NEW epoch \in MessageEpochs, NEW actor \in Actors, SlashCancels(epoch, actor)
      PROVE  EtherCoversLocks'
  <2> DEFINE id == pendingChallengeId[epoch][actor]
  <2>1. /\ id \in ChallengeIds
        /\ challengesStatus[id] \in {"Pending", "PartiallyUnsolved"}
        /\ challengesStatus' = [challengesStatus EXCEPT ![id] = "Cancelled"]
        /\ SendEther(challenges[id].challenger, LockedAmountStartChallenge)
        /\ UNCHANGED queueVars
    BY <1>0, <1>6, CancelledByMessage DEF MessageEpochs
  <2>2. challengesStatus'[id] = "Cancelled" /\ challengesStatus[id] # "Cancelled"
    BY <1>0, <2>1 DEF TypeOK
  <2>3. challengesStatus' # challengesStatus
    BY <2>2
  <2>4. challengesStatus[id] = "Pending"
    BY <2>1, <2>2, <2>3 DEF vars, challengeVars
  <2> QED
    BY <1>4, <2>1, <2>4
<1>7. ASSUME UNCHANGED <<balance, queueVars, challengeVars>>
      PROVE  EtherCoversLocks'
  <2>1. Bonds' = Bonds
    BY <1>7 DEF challengeVars, Bonds, PendingChallenges
  <2> QED
    BY <1>0, <1>2, <1>7, <2>1, EtherBalances
<1> QED
  BY <1>1, <1>3, <1>5, <1>6, <1>7, EtherSteps

\* A new hub owns and owes nothing.
LEMMA EtherInit == Init => EtherInv
<1> SUFFICES ASSUME Init PROVE EtherCoversLocks
  BY GameInit DEF EtherInv
<1>1. QueuedOperations = {} /\ PendingChallenges = {}
  BY DEF Init, QueuedOperations, PendingChallenges
<1> QED
  BY <1>1, FS_EmptySet, HubAssumption DEF Init, EtherCoversLocks

(***************************************************************************)
(* The hub owns exactly what it owes, and no release, refund or claim can  *)
(* fail for lack of ether, as long as a slash by a governance message      *)
(* cancels pending challenges only: for any locks, and also when an        *)
(* account refuses its ether.  HubLateSlash shows how the hypothesis can   *)
(* fail.                                                                   *)
(***************************************************************************)
THEOREM EtherCoversDebts ==
    Spec /\ CancelsOnlyPendingChallenges => []EtherCoversLocks
<1>1. EtherInv => EtherCoversLocks
  BY DEF EtherInv
<1> QED
  BY <1>1, EtherInit, EtherStep, PTL DEF Spec, CancelsOnlyPendingChallenges

(***************************************************************************)
(* With prompt governance messages alone, the three promises about         *)
(* challenges hold without a further hypothesis.                           *)
(***************************************************************************)
THEOREM PromptMessagesKeepPromises ==
    ASSUME MessageLag = 0
    PROVE  Spec => /\ ImplementsChallengeGame
                   /\ CancelsOnlyPendingChallenges
                   /\ []EtherCoversLocks
BY PromptMessagesCancelInTheirEpoch, HubImplementsChallengeGame, OnlyPendingAreCancelled,
   EtherCoversDebts, PTL

-----------------------------------------------------------------------------
(***************************************************************************)
(* Progress needs active actors.  The hub compares two totals; that they   *)
(* differ means an active actor is left only if the inactive ones it       *)
(* counted are registered in the epoch.                                    *)
(***************************************************************************)
InactiveAreRegistered ==
    \A e \in Epochs : epochsActors[e] # {} => inactiveActors[e] \subseteq epochsActors[e]

\* Different totals of registered and of inactive actors leave an active one.
LEMMA StatusValidMeansActive ==
    ASSUME TypeOK, InactiveTotalsAreExact, InactiveAreRegistered, IsActorsStatusValid,
           NEW class \in ActorClasses
    PROVE  ActiveActors(class) # {}
<1>1. CurrentEpoch \in Epochs
  BY CurrentEpochType DEF TypeOK
<1>2. inactiveActors[CurrentEpoch] \subseteq epochsActors[CurrentEpoch]
  BY <1>1 DEF InactiveAreRegistered, IsActorsStatusValid
<1>3. SUFFICES ASSUME ActiveActors(class) = {} PROVE FALSE
  OBVIOUS
<1>4. epochsActors[CurrentEpoch] \cap ActorsOfClass(class)
        = inactiveActors[CurrentEpoch] \cap ActorsOfClass(class)
  BY <1>2, <1>3 DEF ActiveActors
<1> QED
  BY <1>1, <1>4 DEF IsActorsStatusValid, TotalActors, InactiveTotalsAreExact

\* Only the two handlers that check lockdown queue or execute an operation.
LEMMA ProgressChecksLockDown ==
    ASSUME TypeOK, Next, NEW op \in Operations,
           \/ operationsStatus[op] # "Queued" /\ operationsStatus'[op] = "Queued"
           \/ operationsStatus[op] # "Executed" /\ operationsStatus'[op] = "Executed"
    PROVE  IsActorsStatusValid
<1>1. CASE \E o \in Operations, relayer \in Relayers : ProtocolQueueOperation(o, relayer)
  BY <1>1 DEF ProtocolQueueOperation, IsLockedDown
<1>2. CASE \E o \in Operations : ProtocolExecuteOperation(o)
  BY <1>2 DEF ProtocolExecuteOperation, IsLockedDown
<1>3. CASE \E o \in Operations, class \in CancelClasses : CancelOperation(o, class)
  BY <1>3 DEF CancelOperation, RemoveCancelledOperation, TypeOK
<1>4. CASE UNCHANGED queueVars
  BY <1>4 DEF queueVars
<1> QED
  BY <1>1, <1>2, <1>3, <1>4, StepKinds

(***************************************************************************)
(* Nothing is queued or executed without an active guardian and an active  *)
(* sentinel, as long as only actors registered in an epoch are inactive in *)
(* it; HubNewActorSet shows what a second root for an epoch can do.        *)
(***************************************************************************)
THEOREM ProgressWithActiveActors ==
    Spec /\ []InactiveAreRegistered => ProgressNeedsActiveActors
<1>1. InactivityInv /\ InactiveAreRegistered /\ [Next]_vars =>
         [(\E op \in Operations :
             \/ operationsStatus[op] # "Queued" /\ operationsStatus'[op] = "Queued"
             \/ operationsStatus[op] # "Executed" /\ operationsStatus'[op] = "Executed")
           => \A class \in ActorClasses : ActiveActors(class) # {}]_vars
  BY ProgressChecksLockDown, StatusValidMeansActive DEF InactivityInv, TypeInv
<1> QED
  BY <1>1, InactivityInit, InactivityStep, PTL DEF Spec, ProgressNeedsActiveActors

\* With one set of actors for every epoch, no root leaves out an inactive actor.
LEMMA OneRootRegistersAll ==
    ASSUME ActorSets = {Actors}
    PROVE  Spec => []InactiveAreRegistered
<1> DEFINE Inv == TypeInv /\ \A e \in Epochs : epochsActors[e] \in {{}, Actors}
<1>1. Init => Inv
  BY TypeInit DEF Init
<1>2. Inv /\ [Next]_vars => Inv'
  <2> SUFFICES ASSUME Inv, [Next]_vars, NEW e \in Epochs
               PROVE  epochsActors'[e] \in {{}, Actors}
    BY TypeStep
  <2>1. CASE \E epoch \in MessageEpochs, actors \in ActorSets : OnActors(epoch, actors)
    BY <2>1 DEF OnActors, TypeInv, TypeOK
  <2>2. CASE epochsActors' = epochsActors
    BY <2>2
  <2> QED
    BY <2>1, <2>2
    DEF Next, vars, Tick, ProtocolQueueOperation, ProtocolCancelOperation,
        ProtocolGovernanceCancelOperation, OnGovernanceCancelOperation, CancelOperation,
        ProtocolExecuteOperation, StartChallenge, SolveChallenge, SlashByChallenge,
        ClaimLockedAmountStartChallenge, OnSlashActor, OnResumeActor
<1>3. Inv => InactiveAreRegistered
  BY DEF TypeInv, TypeOK, InactiveAreRegistered
<1> QED
  BY <1>1, <1>2, <1>3, PTL DEF Spec

(***************************************************************************)
(* In particular when the DAO announces one set of actors only.            *)
(***************************************************************************)
THEOREM OneRootKeepsProgressSafe ==
    ASSUME ActorSets = {Actors}
    PROVE  Spec => ProgressNeedsActiveActors
BY OneRootRegistersAll, ProgressWithActiveActors, PTL

===============================================================================
