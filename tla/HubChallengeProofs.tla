--------------------------- MODULE HubChallengeProofs ---------------------------
(***************************************************************************)
(* Proofs about the challenges of PNetworkHub and about the totals that    *)
(* lockdown is decided from, for any delay of the governance messages.     *)
(***************************************************************************)
EXTENDS PNetworkHubProofs

-----------------------------------------------------------------------------
(***************************************************************************)
(* One way out: a consequence of the type invariant alone, because a       *)
(* recorded challenge is not in the future and epochs follow each other.   *)
(***************************************************************************)

\* Of three exclusive and exhaustive cases exactly one holds.
LEMMA ExactlyOne ==
    ASSUME NEW p \in BOOLEAN, NEW q \in BOOLEAN, NEW r \in BOOLEAN,
           p \/ q \/ r, ~(p /\ q), ~(p /\ r), ~(q /\ r)
    PROVE  Cardinality({way \in {"solve", "slash", "claim"} :
              \/ way = "solve" /\ p
              \/ way = "slash" /\ q
              \/ way = "claim" /\ r}) = 1
<1> DEFINE S == {way \in {"solve", "slash", "claim"} :
                    \/ way = "solve" /\ p
                    \/ way = "slash" /\ q
                    \/ way = "claim" /\ r}
<1>1. CASE p
  <2>1. S = {"solve"}
    BY <1>1
  <2> QED
    BY <2>1, FS_Singleton
<1>2. CASE q
  <2>1. S = {"slash"}
    BY <1>2
  <2> QED
    BY <2>1, FS_Singleton
<1>3. CASE r
  <2>1. S = {"claim"}
    BY <1>3
  <2> QED
    BY <2>1, FS_Singleton
<1> QED
  BY <1>1, <1>2, <1>3

\* The windows of solve, slash and claim share the line of time among them.
LEMMA WindowsPartitionTime == TypeInv => OneWayOut
<1> SUFFICES ASSUME TypeInv, NEW id \in PendingChallenges
             PROVE  Cardinality({way \in {"solve", "slash", "claim"} :
                       \/ way = "solve" /\ SolveWindow(id)
                       \/ way = "slash" /\ SlashWindow(id)
                       \/ way = "claim" /\ ClaimWindow(id)}) = 1
  BY DEF OneWayOut
<1>1. /\ now \in Nat
      /\ challenges[id].timestamp \in Nat
      /\ challenges[id].timestamp <= now
  BY HubAssumption DEF PendingChallenges, TypeInv, TypeOK, ChallengesRecorded
<1>2. /\ ChallengeEpoch(id) \in Nat
      /\ CurrentEpoch \in Nat
      /\ ChallengeEpoch(id) <= CurrentEpoch
  BY <1>1, EpochOfMonotone DEF ChallengeEpoch, CurrentEpoch
<1>3. /\ SolveWindow(id) \/ SlashWindow(id) \/ ClaimWindow(id)
      /\ ~(SolveWindow(id) /\ SlashWindow(id))
      /\ ~(SolveWindow(id) /\ ClaimWindow(id))
      /\ ~(SlashWindow(id) /\ ClaimWindow(id))
  BY <1>1, <1>2, TimingTypes DEF SolveWindow, SlashWindow, ClaimWindow
<1>4. /\ SolveWindow(id) \in BOOLEAN
      /\ SlashWindow(id) \in BOOLEAN
      /\ ClaimWindow(id) \in BOOLEAN
  BY DEF SolveWindow, SlashWindow, ClaimWindow
<1> QED
  BY <1>3, <1>4, ExactlyOne

(***************************************************************************)
(* At the boundary of challengeDuration and at the change of epoch, never  *)
(* two of solveChallenge, slashByChallenge and claim are open for one      *)
(* challenge, and never none.                                              *)
(***************************************************************************)
THEOREM OneWayOutAlways == Spec => []OneWayOut
BY TypeInvariance, WindowsPartitionTime, PTL

-----------------------------------------------------------------------------
(***************************************************************************)
(* The hour for the slash: what startChallenge guards stays true of the    *)
(* challenge, since nothing rewrites a recorded challenge.                 *)
(***************************************************************************)
FreshNonce ==
    \A id \in ChallengeIds : id >= challengesNonce => challengesStatus[id] = "Null"

\* A step that starts no challenge adds no pending one and rewrites none.
NothingStarts ==
    /\ challenges' = challenges
    /\ challengesNonce' = challengesNonce
    /\ \A id \in ChallengeIds :
          /\ challengesStatus'[id] = "Pending" => challengesStatus[id] = "Pending"
          /\ challengesStatus'[id] = "Null" <=> challengesStatus[id] = "Null"

\* Closing a challenge starts none.
LEMMA ClosingStartsNothing ==
    ASSUME TypeOK, NEW epoch, NEW id \in ChallengeIds,
           NEW status \in ChallengeStatuses \ {"Null", "Pending"},
           challengesStatus[id] # "Null", CloseChallenge(epoch, id, status)
    PROVE  NothingStarts
BY DEF TypeOK, CloseChallenge, NothingStarts

\* Only startChallenge starts a challenge.
LEMMA ChallengeKinds ==
    ASSUME TypeInv, [Next]_vars
    PROVE  \/ \E actor \in Actors, challenger \in Challengers :
                 StartChallenge(actor, challenger)
           \/ NothingStarts
<1>0. TypeOK
  BY DEF TypeInv
<1>1. ASSUME UNCHANGED challengeVars
      PROVE  NothingStarts
  BY <1>1 DEF challengeVars, NothingStarts
<1>2. ASSUME UNCHANGED vars \/ Tick
      PROVE  NothingStarts
  BY <1>1, <1>2 DEF vars, Tick
<1>3. ASSUME NEW op, NEW x,
             \/ ProtocolQueueOperation(op, x)
             \/ CancelOperation(op, x)
             \/ ProtocolExecuteOperation(op)
      PROVE  NothingStarts
  BY <1>1, <1>3 DEF ProtocolQueueOperation, CancelOperation, ProtocolExecuteOperation
<1>4. ASSUME NEW id \in ChallengeIds, SolveChallenge(id)
      PROVE  NothingStarts
  <2>1. challengesStatus[id] # "Null" /\ CloseChallenge(CurrentEpoch, id, "Solved")
    BY <1>4 DEF SolveChallenge, StatusInEpoch
  <2> QED
    BY <1>0, <2>1, ClosingStartsNothing DEF ChallengeStatuses
<1>5. ASSUME NEW id \in ChallengeIds, SlashByChallenge(id)
      PROVE  NothingStarts
  <2>1. challengesStatus[id] # "Null" /\ CloseChallenge(CurrentEpoch, id, "Unsolved")
    BY <1>5 DEF SlashByChallenge, StatusInEpoch
  <2> QED
    BY <1>0, <2>1, ClosingStartsNothing DEF ChallengeStatuses
<1>6. ASSUME NEW id \in ChallengeIds, ClaimLockedAmountStartChallenge(id)
      PROVE  NothingStarts
  BY <1>0, <1>6 DEF ClaimLockedAmountStartChallenge, StatusInEpoch, NothingStarts, TypeOK
<1>7. ASSUME NEW epoch \in Epochs, NEW actor \in Actors, OnSlashActor(epoch, actor)
      PROVE  NothingStarts
  <2> DEFINE id == pendingChallengeId[epoch][actor]
  <2>1. CASE id = None
    BY <1>1, <1>7, <2>1 DEF OnSlashActor, MaybeCancelPendingChallenge, challengeVars
  <2>2. CASE id # None
    <3>1. id \in ChallengeIds /\ challengesStatus[id] # "Null"
      BY <2>2 DEF TypeInv, TypeOK, ChallengesRecorded
    <3>2. CloseChallenge(epoch, id, "Cancelled")
      BY <1>7, <2>2 DEF OnSlashActor, MaybeCancelPendingChallenge
    <3> QED
      BY <1>0, <3>1, <3>2, ClosingStartsNothing DEF ChallengeStatuses
  <2> QED
    BY <2>1, <2>2
<1>8. ASSUME NEW epoch, NEW x, OnActors(epoch, x) \/ OnResumeActor(epoch, x)
      PROVE  NothingStarts
  BY <1>1, <1>8 DEF OnActors, OnResumeActor
<1> QED
  BY <1>2, <1>3, <1>4, <1>5, <1>6, <1>7, <1>8
  DEF Next, ProtocolCancelOperation, ProtocolGovernanceCancelOperation,
      OnGovernanceCancelOperation, MessageEpochs

HourInv == TypeInv /\ FreshNonce /\ SlashHasOneHour

\* No challenge exists in a new hub.
LEMMA HourInit == Init => HourInv
BY TypeInit DEF Init, HourInv, FreshNonce, SlashHasOneHour, PendingChallenges

\* What startChallenge records, and what it leaves.
LEMMA StartedChallenge ==
    ASSUME TypeInv, NEW actor \in Actors, NEW challenger \in Challengers,
           StartChallenge(actor, challenger)
    PROVE  /\ challengesNonce \in ChallengeIds
           /\ challengesStatus'[challengesNonce] = "Pending"
           /\ challenges'[challengesNonce] =
                 [actor |-> actor, challenger |-> challenger, timestamp |-> now]
           /\ \A id \in ChallengeIds \ {challengesNonce} :
                 /\ challengesStatus'[id] = challengesStatus[id]
                 /\ challenges'[id] = challenges[id]
<1>1. challengesNonce \in ChallengeIds
  BY HubAssumption DEF TypeInv, TypeOK, ChallengeIds, StartChallenge
<1> QED
  BY <1>1 DEF TypeInv, TypeOK, StartChallenge

\* Every step keeps the nonce fresh and the hour free.
LEMMA HourStep == HourInv /\ [Next]_vars => HourInv'
<1> SUFFICES ASSUME HourInv, [Next]_vars PROVE FreshNonce' /\ SlashHasOneHour'
  BY TypeStep DEF HourInv
<1>0. TypeInv /\ FreshNonce /\ SlashHasOneHour
  BY DEF HourInv
<1>1. CASE NothingStarts
  <2>1. FreshNonce'
    BY <1>0, <1>1 DEF NothingStarts, FreshNonce
  <2>2. SlashHasOneHour'
    BY <1>0, <1>1 DEF NothingStarts, SlashHasOneHour, PendingChallenges, ChallengeEpoch
  <2> QED
    BY <2>1, <2>2
<1>2. CASE \E actor \in Actors, challenger \in Challengers : StartChallenge(actor, challenger)
  <2> PICK actor \in Actors, challenger \in Challengers : StartChallenge(actor, challenger)
    BY <1>2
  <2>1. challengesNonce' = challengesNonce + 1 /\ challengesNonce \in Nat
    BY <1>0, HubAssumption DEF StartChallenge, TypeInv, TypeOK
  <2>2. FreshNonce'
    <3> SUFFICES ASSUME NEW id \in ChallengeIds, id >= challengesNonce'
                 PROVE  challengesStatus'[id] = "Null"
      BY DEF FreshNonce
    <3>1. id # challengesNonce /\ id >= challengesNonce
      BY <2>1 DEF ChallengeIds
    <3> QED
      BY <1>0, <3>1, StartedChallenge DEF FreshNonce
  <2>3. now + ChallengeDuration <= EpochEnd(EpochOf(now)) - OneHour
    <3>1. now \in Nat
      BY <1>0, HubAssumption DEF TypeInv, TypeOK
    <3>2. ~ (now + ChallengeDuration > EpochEnd(EpochOf(now)) - OneHour)
      BY DEF StartChallenge, NearToEpochEnd
    <3> QED
      BY <3>1, <3>2, TimingTypes
  <2>4. SlashHasOneHour'
    <3> SUFFICES ASSUME NEW id \in ChallengeIds, challengesStatus'[id] = "Pending"
                 PROVE  challenges'[id].timestamp + ChallengeDuration
                           <= EpochEnd(EpochOf(challenges'[id].timestamp)) - OneHour
      BY DEF SlashHasOneHour, PendingChallenges, ChallengeEpoch
    <3>1. CASE id = challengesNonce
      <4>1. challenges'[id] = [actor |-> actor, challenger |-> challenger, timestamp |-> now]
        BY <1>0, <3>1, StartedChallenge
      <4>2. challenges'[id].timestamp = now
        BY <4>1
      <4> QED
        BY <2>3, <4>2
    <3>2. CASE id # challengesNonce
      BY <1>0, <3>2, StartedChallenge DEF SlashHasOneHour, PendingChallenges, ChallengeEpoch
    <3> QED
      BY <3>1, <3>2
  <2> QED
    BY <2>2, <2>4
<1> QED
  BY <1>0, <1>1, <1>2, ChallengeKinds

\* The invariant that also says challenge ids are never reused.
LEMMA HourInvariance == Spec => []HourInv
BY HourInit, HourStep, PTL DEF Spec

(***************************************************************************)
(* Whenever the time to solve a challenge is over, an hour of its epoch is *)
(* left to slash: for every configuration _checkNearEndOfEpochStartChallenge *)
(* guards.                                                                 *)
(***************************************************************************)
THEOREM SlashKeepsItsHour == Spec => []SlashHasOneHour
<1>1. HourInv => SlashHasOneHour
  BY DEF HourInv
<1> QED
  BY <1>1, HourInvariance, PTL

-----------------------------------------------------------------------------
(***************************************************************************)
(* The totals of inactive actors.  The counters wrap around; that they     *)
(* never do follows from there being at most MaxUint16 actors.             *)
(***************************************************************************)
InactiveOf(e, class) == inactiveActors[e] \cap ActorsOfClass(class)

\* There are fewer actors of a class than a uint16 can count.
LEMMA FewActors ==
    ASSUME NEW S \in SUBSET Actors
    PROVE  IsFiniteSet(S) /\ Cardinality(S) \in 0..MaxUint16
<1>1. IsFiniteSet(S) /\ Cardinality(S) <= Cardinality(Actors)
  BY HubAssumption, FS_Subset
<1>2. Cardinality(S) \in Nat /\ Cardinality(Actors) \in Nat
  BY <1>1, HubAssumption, FS_CardinalityType
<1> QED
  BY <1>1, <1>2, HubAssumption, MaxOperationsType

\* An actor is counted in its own class only.
LEMMA OneClass ==
    ASSUME NEW actor \in Actors, NEW class \in ActorClasses
    PROVE  actor \in ActorsOfClass(class) <=> class = ClassOf(actor)
BY HubAssumption DEF Actors, ActorClasses, ActorsOfClass, ClassOf

\* _setActorInactive counts a newly inactive actor, in its class and epoch.
LEMMA InactiveCounted ==
    ASSUME TypeOK, InactiveTotalsAreExact, NEW epoch \in Epochs, NEW actor \in Actors,
           SetActorInactive(epoch, actor)
    PROVE  InactiveTotalsAreExact'
<1>1. CASE actor \in inactiveActors[epoch]
  BY <1>1 DEF SetActorInactive, inactivityVars, InactiveTotalsAreExact
<1>2. CASE actor \notin inactiveActors[epoch]
  <2> SUFFICES ASSUME NEW e \in Epochs, NEW class \in ActorClasses
               PROVE  totalInactive'[e][class] = Cardinality(InactiveOf(e, class)')
    BY DEF InactiveTotalsAreExact, InactiveOf
  <2>0. totalInactive[e][class] = Cardinality(InactiveOf(e, class))
    BY DEF InactiveTotalsAreExact, InactiveOf
  <2>1. /\ totalInactive' = [totalInactive EXCEPT ![epoch][ClassOf(actor)] = Uint16(@ + 1)]
        /\ inactiveActors' = [inactiveActors EXCEPT ![epoch] = @ \cup {actor}]
    BY <1>2 DEF SetActorInactive
  <2>2. CASE e = epoch /\ class = ClassOf(actor)
    <3>1. InactiveOf(e, class)' = InactiveOf(e, class) \cup {actor}
      BY <2>1, <2>2, OneClass DEF TypeOK, InactiveOf
    <3>2. actor \notin InactiveOf(e, class)
      BY <1>2, <2>2 DEF InactiveOf
    <3>3. InactiveOf(e, class) \in SUBSET Actors
      BY DEF TypeOK, InactiveOf
    <3>4. Cardinality(InactiveOf(e, class)') = Cardinality(InactiveOf(e, class)) + 1
      BY <3>1, <3>2, <3>3, FewActors, FS_AddElement
    <3>5. Cardinality(InactiveOf(e, class)') \in 0..MaxUint16
      BY <3>1, <3>3, FewActors
    <3>6. totalInactive'[e][class] = Uint16(totalInactive[e][class] + 1)
      BY <2>1, <2>2 DEF TypeOK
    <3> QED
      BY <2>0, <3>4, <3>5, <3>6, Uint16Exact
  <2>3. CASE e # epoch \/ class # ClassOf(actor)
    <3>1. InactiveOf(e, class)' = InactiveOf(e, class)
      BY <2>1, <2>3, OneClass DEF TypeOK, InactiveOf
    <3>2. totalInactive'[e][class] = totalInactive[e][class]
      BY <2>1, <2>3 DEF TypeOK
    <3> QED
      BY <2>0, <3>1, <3>2
  <2> QED
    BY <2>2, <2>3
<1> QED
  BY <1>1, <1>2

\* _setActorActive takes it out of the count again.
LEMMA ActiveUncounted ==
    ASSUME TypeOK, InactiveTotalsAreExact, NEW epoch \in Epochs, NEW actor \in Actors,
           SetActorActive(epoch, actor)
    PROVE  InactiveTotalsAreExact'
<1>1. CASE actor \notin inactiveActors[epoch]
  BY <1>1 DEF SetActorActive, inactivityVars, InactiveTotalsAreExact
<1>2. CASE actor \in inactiveActors[epoch]
  <2> SUFFICES ASSUME NEW e \in Epochs, NEW class \in ActorClasses
               PROVE  totalInactive'[e][class] = Cardinality(InactiveOf(e, class)')
    BY DEF InactiveTotalsAreExact, InactiveOf
  <2>0. totalInactive[e][class] = Cardinality(InactiveOf(e, class))
    BY DEF InactiveTotalsAreExact, InactiveOf
  <2>1. /\ totalInactive' = [totalInactive EXCEPT ![epoch][ClassOf(actor)] = Uint16(@ - 1)]
        /\ inactiveActors' = [inactiveActors EXCEPT ![epoch] = @ \ {actor}]
    BY <1>2 DEF SetActorActive
  <2>2. CASE e = epoch /\ class = ClassOf(actor)
    <3>1. InactiveOf(e, class)' = InactiveOf(e, class) \ {actor}
      BY <2>1, <2>2 DEF TypeOK, InactiveOf
    <3>2. actor \in InactiveOf(e, class)
      BY <1>2, <2>2, OneClass DEF InactiveOf
    <3>3. InactiveOf(e, class) \in SUBSET Actors
      BY DEF TypeOK, InactiveOf
    <3>4. Cardinality(InactiveOf(e, class)') = Cardinality(InactiveOf(e, class)) - 1
      BY <3>1, <3>2, <3>3, FewActors, FS_RemoveElement
    <3>5. Cardinality(InactiveOf(e, class)') \in 0..MaxUint16
      BY <3>1, <3>3, FewActors
    <3>6. totalInactive'[e][class] = Uint16(totalInactive[e][class] - 1)
      BY <2>1, <2>2 DEF TypeOK
    <3> QED
      BY <2>0, <3>4, <3>5, <3>6, Uint16Exact
  <2>3. CASE e # epoch \/ class # ClassOf(actor)
    <3>1. InactiveOf(e, class)' = InactiveOf(e, class)
      BY <2>1, <2>3, OneClass DEF TypeOK, InactiveOf
    <3>2. totalInactive'[e][class] = totalInactive[e][class]
      BY <2>1, <2>3 DEF TypeOK
    <3> QED
      BY <2>0, <3>1, <3>2
  <2> QED
    BY <2>2, <2>3
<1> QED
  BY <1>1, <1>2

InactivityInv == TypeInv /\ InactiveTotalsAreExact

\* Nobody is inactive in a new hub.
LEMMA InactivityInit == Init => InactivityInv
<1> SUFFICES ASSUME Init PROVE InactiveTotalsAreExact
  BY TypeInit DEF InactivityInv
<1>1. \A e \in Epochs, class \in ActorClasses : InactiveOf(e, class) = {}
  BY DEF Init, InactiveOf
<1>2. \A e \in Epochs, class \in ActorClasses : totalInactive[e][class] = 0
  BY DEF Init
<1> QED
  BY <1>1, <1>2, FS_EmptySet DEF InactiveTotalsAreExact, InactiveOf

\* What a step can do to the record of inactive actors.
LEMMA InactivityKinds ==
    ASSUME TypeInv, [Next]_vars
    PROVE  \/ \E e \in Epochs, actor \in Actors : SetActorInactive(e, actor)
           \/ \E e \in Epochs, actor \in Actors : SetActorActive(e, actor)
           \/ UNCHANGED inactivityVars
<1>0. TypeOK /\ ChallengesRecorded
  BY DEF TypeInv
<1>1. CurrentEpoch \in Epochs
  BY <1>0, CurrentEpochType DEF TypeOK
<1>2. ASSUME UNCHANGED vars \/ Tick
      PROVE  UNCHANGED inactivityVars
  BY <1>2 DEF vars, Tick
<1>3. ASSUME NEW op, NEW x,
             \/ ProtocolQueueOperation(op, x)
             \/ CancelOperation(op, x)
             \/ ProtocolExecuteOperation(op)
             \/ StartChallenge(op, x)
             \/ OnActors(op, x)
             \/ ClaimLockedAmountStartChallenge(x)
      PROVE  UNCHANGED inactivityVars
  BY <1>3 DEF ProtocolQueueOperation, CancelOperation, ProtocolExecuteOperation,
              StartChallenge, OnActors, ClaimLockedAmountStartChallenge
<1>4. ASSUME NEW id \in ChallengeIds, challengesStatus[id] # "Null"
      PROVE  challenges[id].actor \in Actors
  BY <1>0, <1>4 DEF ChallengesRecorded
<1>5. ASSUME NEW id \in ChallengeIds, SolveChallenge(id)
      PROVE  \E e \in Epochs, actor \in Actors : SetActorActive(e, actor)
  BY <1>1, <1>4, <1>5 DEF SolveChallenge, StatusInEpoch
<1>6. ASSUME NEW id \in ChallengeIds, SlashByChallenge(id)
      PROVE  \E e \in Epochs, actor \in Actors : SetActorInactive(e, actor)
  BY <1>1, <1>4, <1>6 DEF SlashByChallenge, StatusInEpoch
<1> QED
  BY <1>2, <1>3, <1>5, <1>6
  DEF Next, ProtocolCancelOperation, ProtocolGovernanceCancelOperation,
      OnGovernanceCancelOperation, MessageEpochs, OnSlashActor, OnResumeActor

\* Every step keeps the totals exact.
LEMMA InactivityStep == InactivityInv /\ [Next]_vars => InactivityInv'
<1> SUFFICES ASSUME InactivityInv, [Next]_vars PROVE InactiveTotalsAreExact'
  BY TypeStep DEF InactivityInv
<1>0. TypeInv /\ TypeOK /\ InactiveTotalsAreExact
  BY DEF InactivityInv, TypeInv
<1>1. CASE \E e \in Epochs, actor \in Actors : SetActorInactive(e, actor)
  BY <1>0, <1>1, InactiveCounted
<1>2. CASE \E e \in Epochs, actor \in Actors : SetActorActive(e, actor)
  BY <1>0, <1>2, ActiveUncounted
<1>3. CASE UNCHANGED inactivityVars
  BY <1>0, <1>3 DEF inactivityVars, InactiveTotalsAreExact
<1> QED
  BY <1>0, <1>1, <1>2, <1>3, InactivityKinds

(***************************************************************************)
(* The unchecked totals of inactive actors count each inactive actor once, *)
(* in whatever order challenges, slashes and resumes arrive and however    *)
(* late; for any number of actors a uint16 total can announce.             *)
(***************************************************************************)
THEOREM InactiveTotalsExact == Spec => []InactiveTotalsAreExact
<1>1. InactivityInv => InactiveTotalsAreExact
  BY DEF InactivityInv
<1> QED
  BY <1>1, InactivityInit, InactivityStep, PTL DEF Spec

-----------------------------------------------------------------------------
(***************************************************************************)
(* The records of running challenges.  A new challenge gets a fresh id     *)
(* (FreshNonce), and the id that is closed is the pending one of its actor *)
(* and epoch, so no other record is touched.                               *)
(***************************************************************************)
RecordsInv == HourInv /\ PendingIdsAgree

\* No challenge id is the absence of one.
LEMMA NoneIsNoId == None \notin ChallengeIds
BY HubAssumption DEF None, ChallengeIds

\* No records in a new hub.
LEMMA RecordsInit == Init => RecordsInv
BY HourInit DEF RecordsInv, Init, PendingIdsAgree, PendingChallenges

\* Closing the pending challenge of an actor leaves the others' records alone.
LEMMA RecordsWhenClosed ==
    ASSUME TypeOK, PendingIdsAgree, NEW epoch \in Epochs, NEW id \in ChallengeIds,
           NEW status \in ChallengeStatuses \ {"Pending"},
           challenges[id].actor \in Actors,
           pendingChallengeId[epoch][challenges[id].actor] = id,
           CloseChallenge(epoch, id, status)
    PROVE  PendingIdsAgree'
<1> DEFINE actor == challenges[id].actor
<1>1. id # None /\ ChallengeEpoch(id) = epoch
  BY NoneIsNoId DEF PendingIdsAgree
<1>2. /\ challenges' = challenges
      /\ challengesStatus'[id] = status
      /\ \A c \in ChallengeIds \ {id} : challengesStatus'[c] = challengesStatus[c]
  BY DEF CloseChallenge, TypeOK
<1>3. ASSUME NEW e \in Epochs, NEW a \in Actors, ~(e = epoch /\ a = actor)
      PROVE  /\ pendingChallengeId'[e][a] = pendingChallengeId[e][a]
             /\ a \in challengedActors'[e] <=> a \in challengedActors[e]
  BY <1>3 DEF CloseChallenge, TypeOK
<1>4. /\ pendingChallengeId'[epoch][actor] = None
      /\ actor \notin challengedActors'[epoch]
  BY DEF CloseChallenge, TypeOK
<1>5. ASSUME NEW e \in Epochs, NEW a \in Actors
      PROVE  /\ pendingChallengeId'[e][a] # None <=> a \in challengedActors'[e]
             /\ pendingChallengeId'[e][a] # None =>
                   /\ challenges'[pendingChallengeId'[e][a]].actor = a
                   /\ EpochOf(challenges'[pendingChallengeId'[e][a]].timestamp) = e
                   /\ challengesStatus'[pendingChallengeId'[e][a]]
                         \in {"Pending", "PartiallyUnsolved"}
  <2>1. CASE e = epoch /\ a = actor
    BY <1>4, <2>1
  <2>2. CASE ~(e = epoch /\ a = actor)
    <3> DEFINE other == pendingChallengeId[e][a]
    <3>1. /\ pendingChallengeId'[e][a] = other
          /\ a \in challengedActors'[e] <=> a \in challengedActors[e]
      BY <1>3, <2>2
    <3>2. /\ other # None <=> a \in challengedActors[e]
          /\ other # None =>
                /\ challenges[other].actor = a
                /\ ChallengeEpoch(other) = e
                /\ challengesStatus[other] \in {"Pending", "PartiallyUnsolved"}
      BY DEF PendingIdsAgree
    <3>3. other # None => other \in ChallengeIds \ {id}
      BY <1>1, <2>2, <3>2 DEF TypeOK
    <3>4. other # None => EpochOf(challenges'[other].timestamp) = ChallengeEpoch(other)
      BY <1>2 DEF ChallengeEpoch
    <3> QED
      BY <1>2, <3>1, <3>2, <3>3, <3>4
  <2> QED
    BY <2>1, <2>2
<1>6. ASSUME NEW c \in ChallengeIds, challengesStatus'[c] = "Pending"
      PROVE  pendingChallengeId'[EpochOf(challenges'[c].timestamp)][challenges'[c].actor] = c
  <2>1. c # id /\ challengesStatus[c] = "Pending"
    BY <1>2, <1>6
  <2>2. pendingChallengeId[ChallengeEpoch(c)][challenges[c].actor] = c
    BY <2>1 DEF PendingIdsAgree, PendingChallenges
  <2>3. ~(ChallengeEpoch(c) = epoch /\ challenges[c].actor = actor)
    BY <2>1, <2>2
  <2>4. /\ EpochOf(challenges'[c].timestamp) = ChallengeEpoch(c)
        /\ challenges'[c].actor = challenges[c].actor
    BY <1>2 DEF ChallengeEpoch
  <2>5. pendingChallengeId'[ChallengeEpoch(c)][challenges[c].actor]
           = pendingChallengeId[ChallengeEpoch(c)][challenges[c].actor]
    BY <2>3 DEF CloseChallenge, TypeOK
  <2> QED
    BY <2>2, <2>4, <2>5
<1> QED
  BY <1>5, <1>6 DEF PendingIdsAgree, PendingChallenges, ChallengeEpoch

\* Starting a challenge records it under a fresh id, for an actor without one.
LEMMA RecordsWhenStarted ==
    ASSUME RecordsInv, NEW actor \in Actors, NEW challenger \in Challengers,
           StartChallenge(actor, challenger)
    PROVE  PendingIdsAgree'
<1>0. TypeInv /\ TypeOK /\ FreshNonce /\ PendingIdsAgree /\ ChallengesRecorded
  BY DEF RecordsInv, HourInv, TypeInv
<1> DEFINE new == challengesNonce
           epoch == CurrentEpoch
<1>1. /\ new \in ChallengeIds
      /\ challengesStatus'[new] = "Pending"
      /\ challenges'[new] = [actor |-> actor, challenger |-> challenger, timestamp |-> now]
      /\ \A id \in ChallengeIds \ {new} :
            /\ challengesStatus'[id] = challengesStatus[id]
            /\ challenges'[id] = challenges[id]
  BY <1>0, StartedChallenge
<1>2. epoch \in Epochs /\ new # None
  BY <1>0, <1>1, CurrentEpochType, NoneIsNoId DEF TypeOK
<1>3. challengesStatus[new] = "Null"
  BY <1>0, <1>1, HubAssumption DEF FreshNonce, ChallengeIds
<1>4. ASSUME NEW e \in Epochs, NEW a \in Actors, ~(e = epoch /\ a = actor)
      PROVE  /\ pendingChallengeId'[e][a] = pendingChallengeId[e][a]
             /\ a \in challengedActors'[e] <=> a \in challengedActors[e]
  BY <1>0, <1>4 DEF StartChallenge, TypeOK
<1>5. /\ pendingChallengeId'[epoch][actor] = new
      /\ actor \in challengedActors'[epoch]
  BY <1>0, <1>2 DEF StartChallenge, TypeOK
<1>6. /\ challenges'[new].actor = actor
      /\ EpochOf(challenges'[new].timestamp) = epoch
  <2>1. challenges'[new].actor = actor /\ challenges'[new].timestamp = now
    BY <1>1
  <2> QED
    BY <2>1 DEF CurrentEpoch
<1>7. ASSUME NEW e \in Epochs, NEW a \in Actors
      PROVE  /\ pendingChallengeId'[e][a] # None <=> a \in challengedActors'[e]
             /\ pendingChallengeId'[e][a] # None =>
                   /\ challenges'[pendingChallengeId'[e][a]].actor = a
                   /\ EpochOf(challenges'[pendingChallengeId'[e][a]].timestamp) = e
                   /\ challengesStatus'[pendingChallengeId'[e][a]]
                         \in {"Pending", "PartiallyUnsolved"}
  <2>1. CASE e = epoch /\ a = actor
    BY <1>1, <1>2, <1>5, <1>6, <2>1
  <2>2. CASE ~(e = epoch /\ a = actor)
    <3> DEFINE other == pendingChallengeId[e][a]
    <3>1. /\ pendingChallengeId'[e][a] = other
          /\ a \in challengedActors'[e] <=> a \in challengedActors[e]
      BY <1>4, <2>2
    <3>2. /\ other # None <=> a \in challengedActors[e]
          /\ other # None =>
                /\ challenges[other].actor = a
                /\ ChallengeEpoch(other) = e
                /\ challengesStatus[other] \in {"Pending", "PartiallyUnsolved"}
      BY <1>0 DEF PendingIdsAgree
    <3>3. other # None => other \in ChallengeIds \ {new}
      BY <1>0, <1>3, <3>2 DEF TypeOK
    <3>4. other # None => /\ challenges'[other] = challenges[other]
                          /\ challengesStatus'[other] = challengesStatus[other]
      BY <1>1, <3>3
    <3>5. other # None => EpochOf(challenges'[other].timestamp) = ChallengeEpoch(other)
      BY <3>4 DEF ChallengeEpoch
    <3> QED
      BY <3>1, <3>2, <3>4, <3>5
  <2> QED
    BY <2>1, <2>2
<1>8. ASSUME NEW c \in ChallengeIds, challengesStatus'[c] = "Pending"
      PROVE  pendingChallengeId'[EpochOf(challenges'[c].timestamp)][challenges'[c].actor] = c
  <2>1. CASE c = new
    BY <1>5, <1>6, <2>1
  <2>2. CASE c # new
    <3>1. challenges'[c] = challenges[c] /\ challengesStatus[c] = "Pending"
      BY <1>1, <1>8, <2>2
    <3>2. pendingChallengeId[ChallengeEpoch(c)][challenges[c].actor] = c
      BY <1>0, <3>1 DEF PendingIdsAgree, PendingChallenges
    <3>3. pendingChallengeId[epoch][actor] = None
      BY <1>0, <1>2 DEF StartChallenge, MayBeChallenged, PendingIdsAgree
    <3>4. ~(ChallengeEpoch(c) = epoch /\ challenges[c].actor = actor)
      BY <3>2, <3>3, NoneIsNoId
    <3>5. EpochOf(challenges'[c].timestamp) = ChallengeEpoch(c)
      BY <3>1 DEF ChallengeEpoch
    <3>6. pendingChallengeId'[ChallengeEpoch(c)][challenges[c].actor]
             = pendingChallengeId[ChallengeEpoch(c)][challenges[c].actor]
      BY <1>0, <3>4 DEF StartChallenge, TypeOK
    <3> QED
      BY <3>1, <3>2, <3>5, <3>6
  <2> QED
    BY <2>1, <2>2
<1> QED
  BY <1>7, <1>8 DEF PendingIdsAgree, PendingChallenges, ChallengeEpoch

\* A claimed challenge stays on record, no longer pending.
LEMMA RecordsWhenClaimed ==
    ASSUME TypeOK, PendingIdsAgree, NEW id \in ChallengeIds,
           ClaimLockedAmountStartChallenge(id)
    PROVE  PendingIdsAgree'
<1>1. /\ challenges' = challenges
      /\ pendingChallengeId' = pendingChallengeId
      /\ challengedActors' = challengedActors
      /\ challengesStatus' = [challengesStatus EXCEPT ![id] = "PartiallyUnsolved"]
  BY DEF ClaimLockedAmountStartChallenge
<1>2. \A c \in ChallengeIds : EpochOf(challenges'[c].timestamp) = ChallengeEpoch(c)
  BY <1>1 DEF ChallengeEpoch
<1>3. \A c \in ChallengeIds :
         /\ challengesStatus'[c] = "Pending" => challengesStatus[c] = "Pending"
         /\ challengesStatus[c] \in {"Pending", "PartiallyUnsolved"}
               => challengesStatus'[c] \in {"Pending", "PartiallyUnsolved"}
  BY <1>1 DEF TypeOK
<1>4. \A e \in Epochs, a \in Actors :
         pendingChallengeId[e][a] # None => pendingChallengeId[e][a] \in ChallengeIds
  BY DEF TypeOK
<1> QED
  BY <1>1, <1>2, <1>3, <1>4 DEF PendingIdsAgree, PendingChallenges, ChallengeEpoch

\* Nothing changes when no record of a challenge does.
LEMMA RecordsUntouched ==
    ASSUME PendingIdsAgree, UNCHANGED challengeVars
    PROVE  PendingIdsAgree'
BY DEF PendingIdsAgree, PendingChallenges, ChallengeEpoch, challengeVars

\* Every step keeps the records of challenges in agreement.
LEMMA RecordsStep == RecordsInv /\ [Next]_vars => RecordsInv'
<1> SUFFICES ASSUME RecordsInv, [Next]_vars PROVE PendingIdsAgree'
  BY HourStep DEF RecordsInv
<1>0. TypeInv /\ TypeOK /\ PendingIdsAgree /\ ChallengesRecorded
  BY DEF RecordsInv, HourInv, TypeInv
<1>1. CurrentEpoch \in Epochs
  BY <1>0, CurrentEpochType DEF TypeOK
<1>2. ASSUME NEW id \in ChallengeIds, StatusInEpoch(CurrentEpoch, id) = "Pending"
      PROVE  /\ challenges[id].actor \in Actors
             /\ pendingChallengeId[CurrentEpoch][challenges[id].actor] = id
  <2>1. ChallengeEpoch(id) = CurrentEpoch /\ challengesStatus[id] = "Pending"
    BY <1>2 DEF StatusInEpoch
  <2> QED
    BY <1>0, <2>1 DEF PendingIdsAgree, PendingChallenges, ChallengesRecorded
<1>3. UNCHANGED vars \/ Tick => UNCHANGED challengeVars
  BY DEF vars, Tick
<1>4. ASSUME NEW op, NEW x,
             \/ ProtocolQueueOperation(op, x)
             \/ CancelOperation(op, x)
             \/ ProtocolExecuteOperation(op)
             \/ OnActors(op, x)
             \/ OnResumeActor(op, x)
      PROVE  UNCHANGED challengeVars
  BY <1>4 DEF ProtocolQueueOperation, CancelOperation, ProtocolExecuteOperation,
              OnActors, OnResumeActor
<1>5. ASSUME NEW id \in ChallengeIds, SolveChallenge(id)
      PROVE  PendingIdsAgree'
  BY <1>0, <1>1, <1>2, <1>5, RecordsWhenClosed DEF SolveChallenge, ChallengeStatuses
<1>6. ASSUME NEW id \in ChallengeIds, SlashByChallenge(id)
      PROVE  PendingIdsAgree'
  BY <1>0, <1>1, <1>2, <1>6, RecordsWhenClosed DEF SlashByChallenge, ChallengeStatuses
<1>7. ASSUME NEW epoch \in Epochs, NEW actor \in Actors, OnSlashActor(epoch, actor)
      PROVE  PendingIdsAgree'
  <2> DEFINE id == pendingChallengeId[epoch][actor]
  <2>1. CASE id = None
    BY <1>0, <1>7, <2>1, RecordsUntouched DEF OnSlashActor, MaybeCancelPendingChallenge
  <2>2. CASE id # None
    <3>1. id \in ChallengeIds /\ challenges[id].actor = actor
      BY <1>0, <2>2 DEF TypeOK, PendingIdsAgree
    <3>2. CloseChallenge(epoch, id, "Cancelled")
      BY <1>7, <2>2 DEF OnSlashActor, MaybeCancelPendingChallenge
    <3> QED
      BY <1>0, <3>1, <3>2, RecordsWhenClosed DEF ChallengeStatuses
  <2> QED
    BY <2>1, <2>2
<1>8. ASSUME NEW actor \in Actors, NEW challenger \in Challengers,
             StartChallenge(actor, challenger)
      PROVE  PendingIdsAgree'
  BY <1>8, RecordsWhenStarted
<1>9. ASSUME NEW id \in ChallengeIds, ClaimLockedAmountStartChallenge(id)
      PROVE  PendingIdsAgree'
  BY <1>0, <1>9, RecordsWhenClaimed
<1>10. UNCHANGED challengeVars => PendingIdsAgree'
  BY <1>0, RecordsUntouched
<1> QED
  BY <1>3, <1>4, <1>5, <1>6, <1>7, <1>8, <1>9, <1>10
  DEF Next, ProtocolCancelOperation, ProtocolGovernanceCancelOperation,
      OnGovernanceCancelOperation, MessageEpochs

\* The records agree in every state.
LEMMA RecordsInvariance == Spec => []RecordsInv
BY RecordsInit, RecordsStep, PTL DEF Spec

(***************************************************************************)
(* Pending id, challenged bit and status of a challenge agree in every     *)
(* epoch, so that an actor has at most one running challenge per epoch;    *)
(* also when governance messages are late.                                 *)
(***************************************************************************)
THEOREM RecordsAgree == Spec => []PendingIdsAgree
<1>1. RecordsInv => PendingIdsAgree
  BY DEF RecordsInv
<1> QED
  BY <1>1, RecordsInvariance, PTL

===============================================================================
