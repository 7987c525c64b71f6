---------------------------- MODULE ChallengerProofs ----------------------------
(***************************************************************************)
(* Proofs about the challenger of StateReader, for any actors, challenges, *)
(* chains, overlapping rounds, exits and answers of the hubs.              *)
(***************************************************************************)
EXTENDS Challenger, FiniteSetTheorems, TLAPS

-----------------------------------------------------------------------------
(***************************************************************************)
(* Types.  TypeOK is not inductive: what a round writes must be typed      *)
(* while it is still in the round, and what a transaction is for while it  *)
(* is in the mempool.  The invariant has one part per group of variables.  *)
(***************************************************************************)
Stages == {"None", "Open", "Forfeited", "Slashed", "Superseded", "Reclaimed"}

\* What slashing may find out of a challenge.
Outcomes ==
    {<<"Solved", "Active">>, <<"Unsolved", "Inactive">>, <<"Cancelled", Null>>,
     <<"Null", "Active">>}

RoundRecord ==
    [at : {"idle", "filter", "actors"}, todo : SUBSET Pairs, latest : [Networks -> Int]]

\* A call works on the chain of its slot.
ChallengeCall(n) ==
    {call \in [at : {"rest", "check", "send", "wait", "insert", "mark"}, todo : {{}},
               target : Pairs \cup {Null}, outcome : Challenges \cup {Null}] :
        /\ call.at # "rest" => call.target \in Pairs /\ call.target.network = n
        /\ call.at = "insert" => call.outcome \in ChallengesOf(call.target)}

SlashState ==
    {state \in [at : {"rest", "next", "send", "wait", "record", "mark"},
                todo : SUBSET Challenges,
                target : Challenges \cup {Null}, outcome : Outcomes \cup {Null}] :
        /\ state.at \in {"send", "wait", "record", "mark"} => state.target \in state.todo
        /\ state.at \in {"record", "mark"} => state.outcome \in Outcomes
        /\ state.at = "mark" => state.outcome[2] # Null}

ChallengeTxs ==
    {tx \in [call : {"challenge"}, slot : ChallengeSlots, target : Pairs, attempt : Nat] :
        tx.target.network = tx.slot[2]}

SlashTxs == [call : {"slash"}, slot : SlashSlots, target : Challenges, attempt : Nat]

EmitterType == clock \in 0..MaxTime /\ building \cup topic \subseteq StatusObjects

HubType == stage \in [Challenges -> Stages] /\ openedAt \in [Challenges -> 0..clock]

ActorsType ==
    /\ epoch \in DOMAIN ActorsOf \cup {Null}
    /\ actorStatus \in [Pairs -> ActorStatuses \cup {"Undefined"}]
    /\ syncState \in [Pairs -> 0..MaxTime \cup {Null}]

RecordsType == challenges \in [Challenges -> ChallengeStatuses \cup {"None"}]

RoundsType ==
    /\ challengeRound \in [ChallengeRounds -> RoundRecord]
    /\ epoch = Null => challengeRound = [r \in ChallengeRounds |-> Idle]

ChallengingType ==
    /\ challenging = [slot \in ChallengeSlots |-> challenging[slot]]
    /\ \A slot \in ChallengeSlots : challenging[slot] \in ChallengeCall(slot[2])
    /\ epoch = Null => challenging = [slot \in ChallengeSlots |-> AtRest]

SlashingType ==
    /\ slashing \in [SlashSlots -> SlashState]
    /\ epoch = Null => slashing = [slot \in SlashSlots |-> AtRest]

PoolType ==
    /\ faults \in Nat
    /\ mempool \subseteq ChallengeTxs \cup SlashTxs
    /\ \A tx \in mempool : tx.attempt <= faults

ReaderType ==
    /\ EmitterType /\ HubType /\ ActorsType /\ RecordsType
    /\ RoundsType /\ ChallengingType /\ SlashingType /\ PoolType

\* The invariant says at least what TypeOK does.
LEMMA ReaderTypeImpliesTypeOK == ReaderType => TypeOK
<1> SUFFICES ASSUME ReaderType PROVE TypeOK
  OBVIOUS
<1>1. /\ clock \in 0..MaxTime
      /\ building \cup topic \subseteq StatusObjects
  BY DEF ReaderType, EmitterType
<1>2. /\ epoch \in DOMAIN ActorsOf \cup {Null}
      /\ actorStatus \in [Pairs -> ActorStatuses \cup {"Undefined"}]
      /\ \A pair \in Pairs : syncState[pair] \in 0..MaxTime \cup {Null}
  BY DEF ReaderType, ActorsType
<1>3. ASSUME NEW r \in ChallengeRounds
      PROVE  /\ challengeRound[r].at \in {"idle", "filter", "actors"}
             /\ epoch = Null => challengeRound[r] = Idle
  BY DEF ReaderType, RoundsType, RoundRecord
<1>4. ASSUME NEW slot \in ChallengeSlots
      PROVE  /\ challenging[slot].at \in {"rest", "check", "send", "wait", "insert", "mark"}
             /\ epoch = Null => challenging[slot] = AtRest
  BY DEF ReaderType, ChallengingType, ChallengeCall
<1>5. ASSUME NEW slot \in SlashSlots
      PROVE  /\ slashing[slot].at \in {"rest", "next", "send", "wait", "record", "mark"}
             /\ epoch = Null => slashing[slot] = AtRest
  BY DEF ReaderType, SlashingType, SlashState
<1> QED
  BY <1>1, <1>2, <1>3, <1>4, <1>5 DEF ReaderType, RecordsType, PoolType, TypeOK

\* Division by a positive number.
LEMMA DivType ==
    ASSUME NEW t \in Nat, NEW d \in Nat \ {0}
    PROVE  t \div d \in 0..t
<1>1. /\ t \div d \in Nat
      /\ d * (t \div d) <= t
  BY SMT
<1>2. ASSUME NEW q \in Nat, NEW e \in Nat, e >= 1
      PROVE  q <= e * q
  BY <1>2
<1>3. t \div d <= d * (t \div d)
  BY <1>1, <1>2
<1>4. d * (t \div d) \in Nat
  BY <1>1
<1> QED
  BY <1>1, <1>3, <1>4

\* The epoch never goes back.
LEMMA EpochMonotone ==
    ASSUME NEW t \in Nat, NEW u \in Nat, t <= u
    PROVE  /\ Game!Epoch(t) \in Nat
           /\ Game!Epoch(t) <= Game!Epoch(u)
<1>1. EpochLength \in Nat /\ EpochLength > 0
  BY ReaderAssumption
<1>2. ASSUME NEW x \in Nat, NEW d \in Nat, d > 0
      PROVE  /\ x \div d \in Nat
             /\ d * (x \div d) <= x
             /\ x < d * (x \div d) + d
  BY <1>2, SMT
<1>3. ASSUME NEW a \in Nat, NEW b \in Nat, NEW d \in Nat, d > 0, d * a <= t, u < d * b + d
      PROVE  a <= b
  <2>1. SUFFICES ASSUME b + 1 <= a PROVE FALSE
    BY <1>3
  <2>2. d * (b + 1) <= d * a
    BY <1>3, <2>1
  <2>3. d * (b + 1) = d * b + d
    BY <1>3
  <2> QED
    BY <1>3, <2>2, <2>3
<1> QED
  BY <1>1, <1>2, <1>3 DEF Game!Epoch

-----------------------------------------------------------------------------
(***************************************************************************)
(* The rounds that the steps make.                                         *)
(***************************************************************************)
LEMMA RestTypes ==
    /\ Idle \in RoundRecord
    /\ \A n : AtRest \in ChallengeCall(n)
    /\ AtRest \in SlashState
    /\ \A todo \in SUBSET Pairs : Continue(todo) \in RoundRecord
    /\ \A todo \in SUBSET Challenges : Slashes(todo) \in SlashState
<1>1. Idle \in RoundRecord
  BY DEF Idle, RoundRecord
<1>2. (\A n : AtRest \in ChallengeCall(n)) /\ AtRest \in SlashState
  BY DEF AtRest, ChallengeCall, SlashState
<1>3. ASSUME NEW todo \in SUBSET Pairs PROVE Continue(todo) \in RoundRecord
  BY <1>1 DEF Continue, RoundRecord
<1>4. ASSUME NEW todo \in SUBSET Challenges PROVE Slashes(todo) \in SlashState
  BY <1>2 DEF Slashes, SlashState, AtRest
<1> QED
  BY <1>1, <1>2, <1>3, <1>4

LEMMA DoneTypes == \A state \in SlashState : Done(state) \in SlashState
<1>1. ASSUME NEW state \in SlashState PROVE state.todo \ {state.target} \in SUBSET Challenges
  BY DEF SlashState
<1> QED
  BY <1>1, RestTypes DEF Done

\* The pair of a challenge.
LEMMA PairType == \A c \in Challenges : PairOf(c) \in Pairs
  BY ReaderAssumption DEF PairOf, Pairs

\* Only a process that runs has work that is not over.
LEMMA WorkNeedsProcess ==
    ASSUME ReaderType
    PROVE  /\ \A r \in ChallengeRounds : challengeRound[r].at # "idle" => epoch # Null
           /\ \A slot \in ChallengeSlots : challenging[slot].at # "rest" => epoch # Null
           /\ \A slot \in SlashSlots : slashing[slot].at # "rest" => epoch # Null
<1>1. Idle.at = "idle" /\ AtRest.at = "rest"
  BY DEF Idle, AtRest
<1>2. ASSUME epoch = Null
      PROVE  /\ \A r \in ChallengeRounds : challengeRound[r] = Idle
             /\ \A slot \in ChallengeSlots : challenging[slot] = AtRest
             /\ \A slot \in SlashSlots : slashing[slot] = AtRest
  BY <1>2 DEF ReaderType, RoundsType, ChallengingType, SlashingType
<1> QED
  BY <1>1, <1>2

\* A round of challenges goes on.
LEMMA RoundStep ==
    ASSUME ReaderType, NEW r \in ChallengeRounds, NEW round \in RoundRecord,
           epoch # Null, SetChallengeRound(r, round), epoch' = epoch
    PROVE  RoundsType'
  BY DEF ReaderType, RoundsType, SetChallengeRound

\* One of its calls goes on.
LEMMA ChallengingStep ==
    ASSUME ReaderType, NEW slot \in ChallengeSlots, NEW call \in ChallengeCall(slot[2]),
           epoch # Null, SetChallenging(slot, call), epoch' = epoch
    PROVE  ChallengingType'
<1>1. challenging = [other \in ChallengeSlots |-> challenging[other]]
  BY DEF ReaderType, ChallengingType
<1>2. challenging' = [other \in ChallengeSlots |-> IF other = slot THEN call ELSE challenging[other]]
  BY <1>1 DEF SetChallenging
<1>3. ASSUME NEW other \in ChallengeSlots PROVE challenging'[other] \in ChallengeCall(other[2])
  BY <1>2 DEF ReaderType, ChallengingType
<1>4. challenging' = [other \in ChallengeSlots |-> challenging'[other]]
  BY <1>2
<1> QED
  BY <1>3, <1>4 DEF ChallengingType, ChallengeCall, ChallengesOf

\* The slashes of a round on a chain go on.
LEMMA SlashingStep ==
    ASSUME ReaderType, NEW slot \in SlashSlots, NEW state \in SlashState,
           epoch # Null, SetSlashing(slot, state), epoch' = epoch
    PROVE  SlashingType'
  BY DEF ReaderType, SlashingType, SetSlashing

\* What a step leaves alone keeps its type.
LEMMA Frames ==
    ASSUME ReaderType
    PROVE  /\ UNCHANGED <<clock, emitterVars>> => EmitterType'
           /\ UNCHANGED <<clock, hubVars>> => HubType'
           /\ UNCHANGED <<epoch, actorStatus, syncState>> => ActorsType'
           /\ UNCHANGED challenges => RecordsType'
           /\ UNCHANGED <<epoch, challengeRound>> => RoundsType'
           /\ UNCHANGED <<epoch, challenging>> => ChallengingType'
           /\ UNCHANGED <<epoch, slashing>> => SlashingType'
           /\ UNCHANGED <<mempool, faults>> => PoolType'
<1>1. UNCHANGED <<clock, emitterVars>> => EmitterType'
  BY DEF ReaderType, EmitterType, emitterVars, StatusObjects
<1>2. UNCHANGED <<clock, hubVars>> => HubType'
  BY DEF ReaderType, HubType, hubVars
<1>3. /\ UNCHANGED <<epoch, actorStatus, syncState>> => ActorsType'
      /\ UNCHANGED challenges => RecordsType'
  BY DEF ReaderType, ActorsType, RecordsType
<1>4. UNCHANGED <<epoch, challengeRound>> => RoundsType'
  BY DEF ReaderType, RoundsType
<1>5. UNCHANGED <<epoch, challenging>> => ChallengingType'
  BY DEF ReaderType, ChallengingType
<1>6. UNCHANGED <<epoch, slashing>> => SlashingType'
  BY DEF ReaderType, SlashingType
<1>7. UNCHANGED <<mempool, faults>> => PoolType'
  BY DEF ReaderType, PoolType
<1> QED
  BY <1>1, <1>2, <1>3, <1>4, <1>5, <1>6, <1>7

\* A hub opens a challenge, or closes one.
LEMMA HubSteps ==
    ASSUME HubType, clock \in Nat, NEW c \in Challenges
    PROVE  /\ Game!Open(c) => HubType'
           /\ \A outcome \in Stages : Game!Close(c, outcome) => HubType'
  BY DEF HubType, Game!Open, Game!Close, Stages

\* A transaction is sent, or mined.
LEMMA PoolSteps ==
    ASSUME PoolType, UNCHANGED faults
    PROVE  /\ \A slot \in ChallengeSlots, pair \in Pairs :
                 pair.network = slot[2] /\ mempool' = mempool \cup {Tx("challenge", slot, pair)}
                 => PoolType'
           /\ \A slot \in SlashSlots, c \in Challenges :
                 mempool' = mempool \cup {Tx("slash", slot, c)} => PoolType'
           /\ \A tx : mempool' = mempool \ {tx} => PoolType'
<1>1. ASSUME NEW slot \in ChallengeSlots, NEW pair \in Pairs, pair.network = slot[2]
      PROVE  Tx("challenge", slot, pair) \in ChallengeTxs /\ Tx("challenge", slot, pair).attempt = faults
  BY <1>1 DEF PoolType, Tx, ChallengeTxs
<1>2. ASSUME NEW slot \in SlashSlots, NEW c \in Challenges
      PROVE  Tx("slash", slot, c) \in SlashTxs /\ Tx("slash", slot, c).attempt = faults
  BY DEF PoolType, Tx, SlashTxs
<1> QED
  BY <1>1, <1>2 DEF PoolType

-----------------------------------------------------------------------------
(***************************************************************************)
(* The steps keep the types: those of the process,                         *)
(***************************************************************************)
LEMMA StartKeepsTypes ==
    ASSUME ReaderType, StoreActorsForCurrentEpoch
    PROVE  ReaderType'
<1>1. EmitterType' /\ HubType' /\ RecordsType' /\ PoolType'
  BY Frames DEF StoreActorsForCurrentEpoch, vars
<1>2. /\ challengeRound' = [r \in ChallengeRounds |-> Idle]
      /\ challenging' = [slot \in ChallengeSlots |-> AtRest]
      /\ slashing' = [slot \in SlashSlots |-> AtRest]
  BY DEF ReaderType, RoundsType, ChallengingType, SlashingType, StoreActorsForCurrentEpoch,
     roundVars
<1>3. RoundsType' /\ ChallengingType' /\ SlashingType'
  BY <1>2, RestTypes DEF RoundsType, ChallengingType, SlashingType
<1>4. epoch' \in DOMAIN ActorsOf
  BY DEF StoreActorsForCurrentEpoch, CheckEpoch, LastActorsPropagated
<1>5. ActorsType'
  BY <1>4 DEF ActorsType, StoreActorsForCurrentEpoch, DropActorsStorage, NoActors
<1> QED
  BY <1>1, <1>3, <1>5 DEF ReaderType

LEMMA MessageKeepsTypes ==
    ASSUME ReaderType, NEW status \in topic, OnMessage(status)
    PROVE  ReaderType'
<1>1. HubType' /\ RecordsType' /\ PoolType' /\ RoundsType' /\ ChallengingType' /\ SlashingType'
  BY Frames DEF OnMessage, roundVars
<1>2. EmitterType'
  BY DEF ReaderType, EmitterType, OnMessage, StatusObjects
<1>3. clock \in 0..MaxTime /\ status \in StatusObjects
  BY DEF ReaderType, EmitterType
<1>4. ASSUME NEW n \in Networks PROVE status.syncState[n] \in 0..MaxTime
  BY <1>3, ReaderAssumption DEF StatusObjects
<1>5. ASSUME NEW pair \in Pairs PROVE pair.network \in Networks
  BY DEF Pairs
<1>6. ActorsType'
  <2>1. CASE RefreshActorStatus(status.signerAddress, status.syncState)
    BY <1>4, <1>5, <2>1 DEF ReaderType, ActorsType, RefreshActorStatus, OnMessage, ActorStatuses
  <2>2. CASE UNCHANGED <<actorStatus, syncState>>
    BY <2>2, Frames DEF OnMessage
  <2> QED
    BY <2>1, <2>2 DEF OnMessage
<1> QED
  BY <1>1, <1>2, <1>6 DEF ReaderType

LEMMA ExitKeepsTypes ==
    ASSUME ReaderType, Exit
    PROVE  ReaderType'
<1>1. EmitterType' /\ HubType' /\ RecordsType'
  BY Frames DEF Exit, dbVars
<1>2. RoundsType' /\ ChallengingType' /\ SlashingType'
  BY RestTypes DEF RoundsType, ChallengingType, SlashingType, Exit
<1>3. ActorsType' /\ PoolType'
  BY DEF ReaderType, ActorsType, PoolType, ChallengeTxs, SlashTxs, Exit, dbVars
<1> QED
  BY <1>1, <1>2, <1>3 DEF ReaderType

\* A step of a round changes neither the hubs nor the epoch of the process.
LEMMA RoundsAreQuiet ==
    /\ \A r \in ChallengeRounds :
          ChallengeRoundStep(r) => ReaderQuiet /\ UNCHANGED <<dbVars, slashing, mempool>>
    /\ \A slot \in ChallengeSlots :
          ChallengeCallStep(slot) => ReaderQuiet /\ UNCHANGED <<challengeRound, slashing>>
    /\ \A r \in SlashRounds :
          SlashingLoop(r) => ReaderQuiet /\ UNCHANGED <<dbVars, challengeRound, challenging, mempool>>
    /\ \A slot \in SlashSlots :
          SlashStep(slot) => ReaderQuiet /\ UNCHANGED <<challengeRound, challenging>>
<1>1. ASSUME NEW r \in ChallengeRounds, ChallengeRoundStep(r)
      PROVE  ReaderQuiet /\ UNCHANGED <<dbVars, slashing, mempool>>
  <2>1. StartChallenger(r) => ReaderQuiet /\ UNCHANGED <<dbVars, slashing, mempool>>
    BY DEF StartChallenger
  <2>2. FilterForInactiveActors(r) => ReaderQuiet /\ UNCHANGED <<dbVars, slashing, mempool>>
    BY DEF FilterForInactiveActors
  <2>3. \A a : ChallengeNextActor(r, a) => ReaderQuiet /\ UNCHANGED <<dbVars, slashing, mempool>>
    BY DEF ChallengeNextActor
  <2> QED
    BY <1>1, <2>1, <2>2, <2>3 DEF ChallengeRoundStep
<1>2. ASSUME NEW slot \in ChallengeSlots, ChallengeCallStep(slot)
      PROVE  ReaderQuiet /\ UNCHANGED <<challengeRound, slashing>>
  BY <1>2 DEF ChallengeCallStep, MaybeChallengeActor, ChallengeActor, InsertChallengePending,
     MarkChallenged
<1>3. ASSUME NEW slot \in SlashSlots, SlashStep(slot)
      PROVE  ReaderQuiet /\ UNCHANGED <<challengeRound, challenging>>
  <2>1. \A c : SlashByChallenge(slot, c) => ReaderQuiet /\ UNCHANGED <<challengeRound, challenging>>
    BY DEF SlashByChallenge
  <2> QED
    BY <1>3, <2>1 DEF SlashStep, SlashActorByChallenge, UpdateChallengeStatus, MarkSlashed
<1> QED
  BY <1>1, <1>2, <1>3 DEF SlashingLoop

\* The chains of the actors that a round challenges are in its pairs.
LEMMA ChallengeRoundStepKeepsTypes ==
    ASSUME ReaderType, NEW r \in ChallengeRounds, ChallengeRoundStep(r)
    PROVE  ReaderType'
<1>1. EmitterType' /\ HubType' /\ ActorsType' /\ RecordsType' /\ SlashingType' /\ PoolType'
  BY RoundsAreQuiet, Frames DEF ReaderQuiet, dbVars
<1>2. challengeRound[r] \in RoundRecord /\ UNCHANGED epoch
  BY RoundsAreQuiet DEF ReaderType, RoundsType, ReaderQuiet
<1>3. ASSUME StartChallenger(r) PROVE RoundsType' /\ ChallengingType'
  <2>1. LatestBlockNumbersByNetworkId \in [Networks -> Int]
    <3>1. clock \in Nat
      BY ReaderAssumption DEF ReaderType, EmitterType
    <3>2. ASSUME NEW n \in Networks PROVE LatestBlockNumber(n) \in Int
      <4>1. BlockTime[n] \in Nat \ {0}
        BY EmitterAssumption
      <4> QED
        BY <3>1, <4>1, DivType DEF LatestBlockNumber
    <3> QED
      BY <3>2 DEF LatestBlockNumbersByNetworkId
  <2>2. [Idle EXCEPT !.at = "filter", !.latest = LatestBlockNumbersByNetworkId] \in RoundRecord
    BY <2>1, RestTypes DEF RoundRecord
  <2> QED
    BY <1>2, <1>3, <2>2, RoundStep, Frames DEF StartChallenger
<1>4. ASSUME FilterForInactiveActors(r) PROVE RoundsType' /\ ChallengingType'
  <2>1. epoch # Null
    BY <1>4, WorkNeedsProcess DEF FilterForInactiveActors
  <2>2. KnownActors \subseteq Actors
    BY <2>1, ReaderAssumption DEF KnownActors, ReaderType, ActorsType
  <2>3. PICK todo \in SUBSET Pairs : SetChallengeRound(r, Continue(todo))
    <3> DEFINE latest == challengeRound[r].latest
               pairs == {[actor |-> a, network |-> n] :
                            a \in InactiveActors(latest) \ IgnoredActors, n \in Networks}
               todo == {pair \in pairs : pair.network \in InactiveNetworkIds(pair.actor, latest)}
    <3>1. SetChallengeRound(r, Continue(todo))
      BY <1>4 DEF FilterForInactiveActors
    <3>2. todo \in SUBSET Pairs
      BY <2>2 DEF InactiveActors, Pairs
    <3> QED
      BY <3>1, <3>2
  <2> QED
    BY <1>2, <1>4, <2>1, <2>3, RestTypes, RoundStep, Frames DEF FilterForInactiveActors
<1>5. ASSUME NEW a, ChallengeNextActor(r, a) PROVE RoundsType' /\ ChallengingType'
  <2> DEFINE pairs == {pair \in challengeRound[r].todo : pair.actor = a}
             Pair(n) == [actor |-> a, network |-> n]
             Check(n) == [AtRest EXCEPT !.at = "check", !.target = Pair(n)]
  <2>1. epoch # Null
    BY <1>5, WorkNeedsProcess DEF ChallengeNextActor
  <2>2. pairs \subseteq Pairs
    BY <1>2 DEF RoundRecord
  <2>3. challengeRound[r].todo \ pairs \in SUBSET Pairs
    BY <1>2 DEF RoundRecord
  <2>4. RoundsType'
    BY <1>2, <1>5, <2>1, <2>3, RestTypes, RoundStep DEF ChallengeNextActor
  <2>5. ASSUME NEW n, Pair(n) \in pairs PROVE Check(n) \in ChallengeCall(n)
    BY <2>2, <2>5 DEF AtRest, ChallengeCall
  <2>6. challenging' = [slot \in ChallengeSlots |->
                          IF slot[1] = r /\ Pair(slot[2]) \in pairs
                          THEN Check(slot[2]) ELSE challenging[slot]]
    BY <1>5 DEF ChallengeNextActor
  <2>7. ASSUME NEW slot \in ChallengeSlots PROVE challenging'[slot] \in ChallengeCall(slot[2])
    BY <2>5, <2>6 DEF ReaderType, ChallengingType
  <2>8. challenging' = [slot \in ChallengeSlots |-> challenging'[slot]]
    BY <2>6
  <2> QED
    BY <1>2, <2>1, <2>4, <2>7, <2>8 DEF ChallengingType, ChallengeCall, ChallengesOf
<1> QED
  BY <1>1, <1>3, <1>4, <1>5 DEF ChallengeRoundStep, ReaderType

LEMMA ChallengeCallStepKeepsTypes ==
    ASSUME ReaderType, NEW slot \in ChallengeSlots, ChallengeCallStep(slot)
    PROVE  ReaderType'
<1> DEFINE call == challenging[slot]
<1>1. EmitterType' /\ HubType' /\ RoundsType' /\ SlashingType'
  BY RoundsAreQuiet, Frames DEF ReaderQuiet
<1>2. call \in ChallengeCall(slot[2]) /\ PoolType /\ UNCHANGED <<epoch, faults>>
  BY RoundsAreQuiet DEF ReaderType, ChallengingType, ReaderQuiet
<1>3. call.at # "rest"
  BY DEF ChallengeCallStep, MaybeChallengeActor, ChallengeActor, InsertChallengePending,
     MarkChallenged
<1>4. epoch # Null /\ call.target \in Pairs /\ call.target.network = slot[2]
  BY <1>2, <1>3, WorkNeedsProcess DEF ChallengeCall
<1>5. ASSUME NEW at \in {"check", "send", "wait", "mark"}
      PROVE  [call EXCEPT !.at = at] \in ChallengeCall(slot[2])
  BY <1>2, <1>4 DEF ChallengeCall
<1>6. AtRest \in ChallengeCall(slot[2])
  BY RestTypes
<1>7. ASSUME MaybeChallengeActor(slot) PROVE ReaderType'
  <2>1. ActorsType' /\ RecordsType' /\ PoolType'
    BY <1>7, Frames DEF MaybeChallengeActor, ReaderQuiet, dbVars
  <2>2. PICK new \in ChallengeCall(slot[2]) : SetChallenging(slot, new)
    BY <1>5, <1>6, <1>7 DEF MaybeChallengeActor
  <2> QED
    BY <1>1, <1>2, <1>4, <2>1, <2>2, ChallengingStep DEF ReaderType
<1>8. ASSUME ChallengeActor(slot) PROVE ReaderType'
  <2>1. ActorsType' /\ RecordsType'
    BY <1>8, Frames DEF ChallengeActor, ReaderQuiet, dbVars
  <2>2. PoolType'
    BY <1>2, <1>4, <1>8, PoolSteps, Frames DEF ChallengeActor
  <2>3. PICK new \in ChallengeCall(slot[2]) : SetChallenging(slot, new)
    BY <1>5, <1>6, <1>8 DEF ChallengeActor, StartChallengeError
  <2> QED
    BY <1>1, <1>2, <1>4, <2>1, <2>2, <2>3, ChallengingStep DEF ReaderType
<1>9. ASSUME InsertChallengePending(slot) PROVE ReaderType'
  <2>1. ActorsType' /\ PoolType'
    BY <1>9, Frames DEF InsertChallengePending, ReaderQuiet
  <2>2. RecordsType'
    BY <1>9 DEF ReaderType, RecordsType, InsertChallengePending, UpdateChallenge,
       ChallengeStatuses
  <2>3. SetChallenging(slot, [call EXCEPT !.at = "mark"])
    BY <1>9 DEF InsertChallengePending
  <2> QED
    BY <1>1, <1>2, <1>4, <1>5, <2>1, <2>2, <2>3, ChallengingStep DEF ReaderType
<1>10. ASSUME MarkChallenged(slot) PROVE ReaderType'
  <2>1. RecordsType' /\ PoolType'
    BY <1>10, Frames DEF MarkChallenged, ReaderQuiet
  <2>2. ActorsType'
    BY <1>10 DEF ReaderType, ActorsType, MarkChallenged, UpdateActorStatus, ReaderQuiet,
       ActorStatuses
  <2> QED
    BY <1>1, <1>2, <1>4, <1>6, <1>10, <2>1, <2>2, ChallengingStep DEF MarkChallenged, ReaderType
<1> QED
  BY <1>7, <1>8, <1>9, <1>10 DEF ChallengeCallStep

\* What a failed slash tells is one of the outcomes.
LEMMA OutcomeTypes ==
    /\ \A error : OutcomeOf(error) \in Outcomes \cup {Null}
    /\ WasSlashed \in Outcomes /\ WasSlashed[2] = "Inactive"
  BY DEF OutcomeOf, Outcomes, WasSlashed

LEMMA SlashingLoopKeepsTypes ==
    ASSUME ReaderType, NEW r \in SlashRounds, SlashingLoop(r)
    PROVE  ReaderType'
<1> DEFINE Pending(n) == {c \in GetPendingChallenges : c.network = n}
<1>1. EmitterType' /\ HubType' /\ ActorsType' /\ RecordsType' /\ RoundsType' /\ ChallengingType'
      /\ PoolType'
  BY RoundsAreQuiet, Frames DEF ReaderQuiet, dbVars
<1>2. epoch # Null /\ UNCHANGED epoch
  BY DEF SlashingLoop, ReaderQuiet
<1>3. ASSUME NEW n PROVE Slashes(Pending(n)) \in SlashState
  BY RestTypes DEF GetPendingChallenges
<1>4. slashing' = [slot \in SlashSlots |->
                     IF slot[1] = r THEN Slashes(Pending(slot[2])) ELSE slashing[slot]]
  BY DEF SlashingLoop
<1>5. slashing' \in [SlashSlots -> SlashState]
  BY <1>3, <1>4 DEF ReaderType, SlashingType
<1>6. SlashingType'
  BY <1>2, <1>5 DEF SlashingType
<1> QED
  BY <1>1, <1>6 DEF ReaderType

LEMMA SlashStepKeepsTypes ==
    ASSUME ReaderType, NEW slot \in SlashSlots, SlashStep(slot)
    PROVE  ReaderType'
<1> DEFINE state == slashing[slot]
<1>1. state \in SlashState /\ PoolType /\ UNCHANGED <<epoch, faults>>
  BY RoundsAreQuiet DEF ReaderType, SlashingType, ReaderQuiet
<1>2. EmitterType' /\ HubType' /\ RoundsType' /\ ChallengingType'
  BY Frames, RoundsAreQuiet DEF ReaderQuiet
<1>3. state.at # "rest"
  <2>1. \A c : SlashByChallenge(slot, c) => state.at # "rest"
    BY DEF SlashByChallenge
  <2> QED
    BY <2>1 DEF SlashStep, SlashActorByChallenge, UpdateChallengeStatus, MarkSlashed
<1>4. epoch # Null
  BY <1>3, WorkNeedsProcess
<1>5. Done(state) \in SlashState
  BY <1>1, DoneTypes
<1>6. ASSUME NEW c \in state.todo, SlashByChallenge(slot, c) PROVE ReaderType'
  <2> DEFINE next == [state EXCEPT !.target = c]
  <2>1. ActorsType' /\ RecordsType' /\ PoolType'
    BY <1>6, Frames DEF SlashByChallenge, ReaderQuiet, dbVars
  <2>2. c \in Challenges /\ state.at = "next"
    BY <1>1, <1>6 DEF SlashByChallenge, SlashState
  <2>3. next \in SlashState /\ [next EXCEPT !.at = "send"] \in SlashState
    BY <1>1, <1>6, <2>2 DEF SlashState
  <2>4. PICK new \in SlashState : SetSlashing(slot, new)
    BY <1>6, <2>3, DoneTypes DEF SlashByChallenge
  <2> QED
    BY <1>1, <1>2, <1>4, <2>1, <2>4, SlashingStep DEF ReaderType
<1>7. ASSUME SlashActorByChallenge(slot) PROVE ReaderType'
  <2>1. ActorsType' /\ RecordsType'
    BY <1>7, Frames DEF SlashActorByChallenge, ReaderQuiet, dbVars
  <2>2. state.target \in state.todo /\ state.target \in Challenges
    BY <1>1, <1>7 DEF SlashActorByChallenge, SlashState
  <2>3. [state EXCEPT !.at = "wait"] \in SlashState
    BY <1>1, <2>2 DEF SlashState
  <2>4. ASSUME NEW outcome \in Outcomes
        PROVE  [state EXCEPT !.at = "record", !.outcome = outcome] \in SlashState
    BY <1>1, <2>2 DEF SlashState
  <2>5. \A error : SlashErrorHandler(state, error) \in SlashState
    BY <1>5, <2>4, OutcomeTypes DEF SlashErrorHandler
  <2>6. PoolType'
    BY <1>1, <1>7, <2>2, PoolSteps, Frames DEF SlashActorByChallenge
  <2>7. PICK new \in SlashState : SetSlashing(slot, new)
    BY <1>7, <2>3, <2>5 DEF SlashActorByChallenge
  <2> QED
    BY <1>1, <1>2, <1>4, <2>1, <2>6, <2>7, SlashingStep DEF ReaderType
<1>8. ASSUME UpdateChallengeStatus(slot) PROVE ReaderType'
  <2>1. ActorsType' /\ PoolType'
    BY <1>8, Frames DEF UpdateChallengeStatus, ReaderQuiet
  <2>2. state.outcome \in Outcomes /\ state.at = "record"
    BY <1>1, <1>8 DEF UpdateChallengeStatus, SlashState
  <2>3. state.outcome[1] \in ChallengeStatuses
    BY <2>2 DEF Outcomes, ChallengeStatuses
  <2>4. RecordsType'
    BY <1>8, <2>3 DEF ReaderType, RecordsType, UpdateChallengeStatus, UpdateChallenge
  <2>5. state.outcome[2] # Null => [state EXCEPT !.at = "mark"] \in SlashState
    BY <1>1, <2>2 DEF SlashState
  <2>6. PICK new \in SlashState : SetSlashing(slot, new)
    BY <1>5, <1>8, <2>5 DEF UpdateChallengeStatus
  <2> QED
    BY <1>1, <1>2, <1>4, <2>1, <2>4, <2>6, SlashingStep DEF ReaderType
<1>9. ASSUME MarkSlashed(slot) PROVE ReaderType'
  <2>1. RecordsType' /\ PoolType'
    BY <1>9, Frames DEF MarkSlashed, ReaderQuiet
  <2>2. state.outcome \in Outcomes /\ state.outcome[2] # Null
    BY <1>1, <1>9 DEF MarkSlashed, SlashState
  <2>3. state.outcome[2] \in ActorStatuses
    BY <2>2 DEF Outcomes, ActorStatuses
  <2>4. ActorsType'
    BY <1>1, <1>9, <2>3 DEF ReaderType, ActorsType, MarkSlashed, UpdateActorStatus
  <2> QED
    BY <1>1, <1>2, <1>4, <1>5, <1>9, <2>1, <2>4, SlashingStep DEF MarkSlashed, ReaderType
<1> QED
  BY <1>6, <1>7, <1>8, <1>9 DEF SlashStep

(***************************************************************************)
(* those of the chains, and those of the others.                           *)
(***************************************************************************)
LEMMA MiningKeepsTypes ==
    ASSUME ReaderType, NEW tx \in mempool, MineChallenge(tx) \/ MineSlash(tx)
    PROVE  ReaderType'
<1> DEFINE slot == tx.slot
<1>1. tx \in ChallengeTxs \cup SlashTxs /\ clock \in Nat /\ HubType /\ PoolType
  BY ReaderAssumption DEF ReaderType, PoolType, EmitterType
<1>2. ASSUME MineChallenge(tx) PROVE ReaderType'
  <2> DEFINE call == challenging[slot]
  <2>1. RecordsType' /\ ActorsType' /\ RoundsType' /\ SlashingType'
    BY <1>2, Frames DEF MineChallenge, dbVars
  <2>2. slot \in ChallengeSlots /\ tx.target \in Pairs
    BY <1>1, <1>2 DEF MineChallenge, ChallengeTxs, SlashTxs
  <2>3. call \in ChallengeCall(slot[2])
    BY <2>2 DEF ReaderType, ChallengingType
  <2>4. PoolType'
    BY <1>1, <1>2, PoolSteps DEF MineChallenge
  <2>5. HubType' /\ UNCHANGED clock
    <3>1. CASE UNCHANGED <<clock, hubVars>>
      BY <3>1, Frames
    <3>2. CASE \E c \in NextChallenge(tx.target) : Game!Open(c)
      BY <1>1, <3>2, HubSteps DEF NextChallenge, ChallengesOf, Game!Open
    <3> QED
      BY <1>2, <3>1, <3>2 DEF MineChallenge
  <2>6. EmitterType'
    BY <1>2, <2>5, Frames DEF MineChallenge
  <2>7. ASSUME NEW c \in NextChallenge(tx.target), IsWaiting(call, tx)
        PROVE  [call EXCEPT !.at = "insert", !.outcome = c] \in ChallengeCall(slot[2])
    BY <2>2, <2>3, <2>7 DEF NextChallenge, ChallengesOf, IsWaiting, ChallengeCall
  <2>8. \/ UNCHANGED challenging
        \/ call.at = "wait" /\ \E new \in ChallengeCall(slot[2]) : SetChallenging(slot, new)
    BY <1>2, <2>7, RestTypes DEF MineChallenge, IsWaiting
  <2>9. ChallengingType'
    BY <1>2, <2>2, <2>8, Frames, WorkNeedsProcess, ChallengingStep DEF MineChallenge
  <2> QED
    BY <2>1, <2>4, <2>5, <2>6, <2>9 DEF ReaderType
<1>3. ASSUME MineSlash(tx) PROVE ReaderType'
  <2> DEFINE state == slashing[slot]
             slashed == [state EXCEPT !.at = "record", !.outcome = WasSlashed]
  <2>1. RecordsType' /\ ActorsType' /\ RoundsType' /\ ChallengingType'
    BY <1>3, Frames DEF MineSlash, dbVars
  <2>2. slot \in SlashSlots /\ tx.target \in Challenges
    BY <1>1, <1>3 DEF MineSlash, ChallengeTxs, SlashTxs
  <2>3. state \in SlashState
    BY <2>2 DEF ReaderType, SlashingType
  <2>4. PoolType'
    BY <1>1, <1>3, PoolSteps DEF MineSlash
  <2>5. HubType' /\ UNCHANGED clock
    <3>1. CASE UNCHANGED <<clock, hubVars>>
      BY <3>1, Frames
    <3>2. CASE Game!Slash(tx.target)
      BY <1>1, <2>2, <3>2, HubSteps DEF Game!Slash, Game!Close, Stages
    <3> QED
      BY <1>3, <3>1, <3>2 DEF MineSlash
  <2>6. EmitterType'
    BY <1>3, <2>5, Frames DEF MineSlash
  <2>7. Done(state) \in SlashState
    BY <2>3, DoneTypes
  <2>8. ASSUME IsWaiting(state, tx) PROVE slashed \in SlashState
    BY <2>3, <2>8, OutcomeTypes DEF IsWaiting, SlashState
  <2>9. \/ UNCHANGED slashing
        \/ state.at = "wait" /\ \E new \in SlashState : SetSlashing(slot, new)
    BY <1>3, <2>7, <2>8 DEF MineSlash, IsWaiting
  <2>10. SlashingType'
    BY <1>3, <2>2, <2>9, Frames, WorkNeedsProcess, SlashingStep DEF MineSlash
  <2> QED
    BY <2>1, <2>4, <2>5, <2>6, <2>10 DEF ReaderType
<1> QED
  BY <1>2, <1>3

LEMMA EnvironmentKeepsTypes ==
    ASSUME ReaderType, bound \in Bounds, Emitter \/ Others \/ Advance
    PROVE  ReaderType'
<1>1. /\ ActorsType' /\ RecordsType' /\ RoundsType' /\ ChallengingType' /\ SlashingType'
      /\ PoolType' /\ clock \in 0..MaxTime /\ clock \in Nat /\ HubType
  BY Frames, ReaderAssumption
  DEF Emitter, Others, Advance, dbVars, roundVars, ReaderType, EmitterType
<1>2. CASE Emitter
  <2>1. HubType' /\ UNCHANGED clock
    BY <1>2, Frames DEF Emitter
  <2>2. ASSUME NEW a \in Actors PROVE SignStatusObject(a, BuildStatusObject(a)) \in StatusObjects
    <3>1. ASSUME NEW n \in Networks PROVE GetSyncState(n) \in 0..clock
      BY <1>1, EmitterAssumption, DivType DEF GetSyncState, LatestBlockNumber
    <3> QED
      BY <3>1 DEF SignStatusObject, BuildStatusObject, GetSyncStateByNetworkId, StatusObjects
  <2>3. building' \cup topic' \subseteq StatusObjects
    BY <1>2, <2>2 DEF ReaderType, EmitterType, Emitter, Cycle, PublishStatusObject, Pub,
       ExitCycle, LoseStatus
  <2>4. EmitterType'
    BY <1>1, <2>1, <2>3 DEF EmitterType, StatusObjects
  <2> QED
    BY <1>1, <2>1, <2>4 DEF ReaderType
<1>3. CASE Others
  <2>1. PICK c \in Challenges, outcome \in Stages : Game!Close(c, outcome)
    BY <1>3 DEF Others, Answers, OtherEnds, Game!Answer, Game!Slash, Game!SlashedByDAO, Stages
  <2>2. HubType' /\ UNCHANGED clock
    BY <1>1, <2>1, HubSteps DEF Game!Close
  <2> QED
    BY <1>1, <1>3, <2>2, Frames DEF Others, ReaderType
<1>4. CASE Advance
  <2>1. bound.time \in 0..MaxTime
    BY ReaderAssumption
  <2>2. clock' = clock + 1 /\ clock' \in 0..MaxTime /\ UNCHANGED <<hubVars, building, topic>>
    BY <1>1, <1>4, <2>1, ReaderAssumption DEF Advance, Game!Advance, hubVars, emitterVars
  <2>3. HubType'
    BY <1>1, <2>2 DEF HubType, hubVars
  <2>4. StatusObjects \subseteq StatusObjects'
    BY <1>1, <2>2 DEF StatusObjects
  <2> QED
    BY <1>1, <2>2, <2>3, <2>4 DEF ReaderType, EmitterType
<1> QED
  BY <1>2, <1>3, <1>4

BoundedType == ReaderType /\ bound \in Bounds

LEMMA BoundedTypeInit == ChallengerInit => BoundedType
<1> SUFFICES ASSUME ChallengerInit PROVE BoundedType
  OBVIOUS
<1>1. EmitterType /\ HubType /\ PoolType
  BY ReaderAssumption DEF ChallengerInit, Init, EmitterInit, Game!Init, EmitterType, HubType,
     PoolType, Stages
<1>2. ActorsType /\ RecordsType
  BY DEF ChallengerInit, Init, NoActors, ActorsType, RecordsType
<1>3. RoundsType /\ ChallengingType /\ SlashingType
  BY RestTypes DEF ChallengerInit, Init, RoundsType, ChallengingType, SlashingType
<1> QED
  BY <1>1, <1>2, <1>3 DEF BoundedType, ReaderType, ChallengerInit, Init

LEMMA BoundedTypeStep == BoundedType /\ [Next]_challengerVars => BoundedType'
<1> SUFFICES ASSUME BoundedType, [Next]_challengerVars PROVE BoundedType'
  OBVIOUS
<1>1. ReaderType /\ bound \in Bounds /\ bound' \in Bounds
  BY DEF BoundedType, Next, challengerVars
<1>2. CASE UNCHANGED challengerVars
  BY <1>1, <1>2, Frames
  DEF challengerVars, vars, hubVars, dbVars, roundVars, BoundedType, ReaderType
<1>3. CASE ChallengerStep
  BY <1>1, <1>3, StartKeepsTypes, MessageKeepsTypes, ChallengeRoundStepKeepsTypes,
     ChallengeCallStepKeepsTypes, SlashingLoopKeepsTypes, SlashStepKeepsTypes
  DEF ChallengerStep, BoundedType
<1>4. CASE \E n \in Networks : Mining(n)
  BY <1>1, <1>4, MiningKeepsTypes DEF Mining, BoundedType
<1>5. CASE Exit \/ Emitter \/ Others \/ Advance
  BY <1>1, <1>5, ExitKeepsTypes, EnvironmentKeepsTypes DEF BoundedType
<1> QED
  BY <1>2, <1>3, <1>4, <1>5 DEF Next

LEMMA ReaderTypeInvariance == Spec => []ReaderType
<1>1. BoundedType => ReaderType
  BY DEF BoundedType
<1> QED
  BY <1>1, BoundedTypeInit, BoundedTypeStep, PTL DEF Spec

(***************************************************************************)
(* The types of the challenger (StateReader): every status, round and      *)
(* transaction stays what the code expects it to be, whatever exits do.    *)
(***************************************************************************)
THEOREM ChallengerTypes == Spec => []TypeOK
  BY ReaderTypeInvariance, ReaderTypeImpliesTypeOK, PTL

-----------------------------------------------------------------------------
(***************************************************************************)
(* What is recorded follows the hubs.  A round learns what it records long *)
(* before it writes it: what it learnt must stay true of the hub whatever  *)
(* happens in between.  It does since a closed challenge never changes and *)
(* its epoch never comes back.                                             *)
(***************************************************************************)
Means(c, status) ==
    /\ status # "None" => stage[c] # "None"
    /\ status = "Solved" => stage[c] = "Forfeited"
    /\ status = "Unsolved" => stage[c] = "Slashed"
    /\ status = "Cancelled" => stage[c] = "Superseded"
    /\ status = "Null" => ~Game!SameEpoch(c)

RecordsFollow == \A c \in Challenges : Means(c, challenges[c])

\* A challenge was opened on the pair.
WasChallenged(pair) == \E c \in ChallengesOf(pair) : stage[c] # "None"

ChallengingFollows ==
    \A slot \in ChallengeSlots :
        LET call == challenging[slot] IN
        /\ call.at = "insert" => stage[call.outcome] # "None"
        /\ call.at = "mark" => WasChallenged(call.target)

SlashingFollows ==
    \A slot \in SlashSlots :
        LET state == slashing[slot] IN
        /\ \A c \in state.todo : stage[c] # "None"
        /\ state.at \in {"record", "mark"} => Means(state.target, state.outcome[1])

StatusFollows ==
    \A pair \in Pairs :
        /\ actorStatus[pair] = "Inactive" => \E c \in ChallengesOf(pair) : stage[c] = "Slashed"
        /\ actorStatus[pair] = "Challenged" => WasChallenged(pair)

FollowInv == RecordsFollow /\ ChallengingFollows /\ SlashingFollows /\ StatusFollows

\* What the hubs do to a challenge: what they did before stays true.
HubsGoOn ==
    /\ clock \in Nat /\ clock' \in Nat /\ clock <= clock'
    /\ \A c \in Challenges :
          /\ stage[c] # "None" => openedAt'[c] = openedAt[c] /\ stage'[c] # "None"
          /\ stage[c] \in {"Forfeited", "Slashed", "Superseded"} => stage'[c] = stage[c]

LEMMA HubsGoOnByClosing ==
    ASSUME HubType, clock \in Nat, NEW c \in Challenges, NEW outcome \in Stages \ {"None"},
           Game!Open(c) \/ Game!Close(c, outcome)
    PROVE  HubsGoOn
  BY DEF HubType, HubsGoOn, Game!Open, Game!Close, Stages

LEMMA EveryStepOfHubsGoesOn ==
    ASSUME ReaderType, [Next]_challengerVars
    PROVE  HubsGoOn
<1>1. HubType /\ clock \in Nat
  BY ReaderAssumption DEF ReaderType, EmitterType
<1>2. CASE UNCHANGED <<clock, hubVars>>
  BY <1>1, <1>2 DEF HubsGoOn, hubVars
<1>3. CASE \E c \in Challenges, outcome \in Stages \ {"None"} :
               Game!Open(c) \/ Game!Close(c, outcome)
  BY <1>1, <1>3, HubsGoOnByClosing
<1>4. CASE Game!Advance
  BY <1>1, <1>4 DEF HubsGoOn, Game!Advance
<1>5. UNCHANGED challengerVars => UNCHANGED <<clock, hubVars>>
  BY DEF challengerVars, vars
<1>6. ChallengerStep => UNCHANGED <<clock, hubVars>>
  BY RoundsAreQuiet DEF ChallengerStep, StoreActorsForCurrentEpoch, OnMessage, ReaderQuiet
<1>7. Exit \/ Emitter => UNCHANGED <<clock, hubVars>>
  BY DEF Exit, Emitter
<1>8. ASSUME NEW tx \in mempool, MineChallenge(tx) \/ MineSlash(tx)
      PROVE  \/ UNCHANGED <<clock, hubVars>>
             \/ \E c \in Challenges, outcome \in Stages \ {"None"} :
                    Game!Open(c) \/ Game!Close(c, outcome)
  <2>1. tx \in ChallengeTxs \cup SlashTxs
    BY DEF ReaderType, PoolType
  <2>2. MineSlash(tx) => tx.target \in Challenges
    BY <2>1 DEF MineSlash, ChallengeTxs, SlashTxs
  <2>3. MineChallenge(tx) => \/ UNCHANGED <<clock, hubVars>>
                             \/ \E c \in Challenges : Game!Open(c)
    BY DEF MineChallenge, NextChallenge, ChallengesOf
  <2>4. MineSlash(tx) => \/ UNCHANGED <<clock, hubVars>>
                         \/ \E c \in Challenges : Game!Close(c, "Slashed")
    BY <2>2 DEF MineSlash, Game!Slash
  <2>5. {"Open", "Slashed"} \subseteq Stages \ {"None"}
    BY DEF Stages
  <2> QED
    BY <1>8, <2>3, <2>4, <2>5
<1>9. Others => \E c \in Challenges, outcome \in Stages \ {"None"} : Game!Close(c, outcome)
  BY DEF Others, Answers, OtherEnds, Game!Answer, Game!Slash, Game!SlashedByDAO, Stages
<1> QED
  BY <1>2, <1>3, <1>4, <1>5, <1>6, <1>7, <1>8, <1>9 DEF Next, Mining, Advance

\* What was learnt of a challenge stays true.
LEMMA MeansIsStable ==
    ASSUME HubType, HubsGoOn
    PROVE  /\ \A c \in Challenges, status \in ChallengeStatuses \cup {"None"} :
                 Means(c, status) => Means(c, status)'
           /\ \A pair : WasChallenged(pair) => WasChallenged(pair)'
<1>1. ASSUME NEW c \in Challenges, stage[c] # "None", ~Game!SameEpoch(c)
      PROVE  ~Game!SameEpoch(c)'
  <2>1. openedAt[c] \in Nat /\ openedAt[c] <= clock /\ clock \in Nat /\ clock' \in Nat
    BY DEF HubType, HubsGoOn
  <2>2. openedAt'[c] = openedAt[c] /\ clock <= clock'
    BY <1>1 DEF HubsGoOn
  <2>3. /\ Game!Epoch(openedAt[c]) \in Nat /\ Game!Epoch(clock) \in Nat
        /\ Game!Epoch(openedAt[c]) <= Game!Epoch(clock)
    BY <2>1, EpochMonotone
  <2>4. Game!Epoch(clock') \in Nat /\ Game!Epoch(clock) <= Game!Epoch(clock')
    BY <2>1, <2>2, EpochMonotone
  <2>5. Game!Epoch(openedAt[c]) # Game!Epoch(clock)
    BY <1>1 DEF Game!SameEpoch
  <2>6. Game!SameEpoch(c)' <=> Game!Epoch(openedAt'[c]) = Game!Epoch(clock')
    BY DEF Game!SameEpoch, Game!Epoch
  <2> QED
    BY <2>2, <2>3, <2>4, <2>5, <2>6
<1>2. ASSUME NEW c \in Challenges, NEW status \in ChallengeStatuses \cup {"None"},
             Means(c, status)
      PROVE  Means(c, status)'
  BY <1>1, <1>2 DEF Means, HubsGoOn
<1>3. ASSUME NEW pair, WasChallenged(pair) PROVE WasChallenged(pair)'
  BY <1>3 DEF WasChallenged, ChallengesOf, HubsGoOn
<1> QED
  BY <1>2, <1>3

\* What a step leaves alone goes on following the hubs.
LEMMA FollowFrames ==
    ASSUME ReaderType, FollowInv, HubsGoOn
    PROVE  /\ UNCHANGED challenges => RecordsFollow'
           /\ UNCHANGED challenging => ChallengingFollows'
           /\ UNCHANGED slashing => SlashingFollows'
           /\ UNCHANGED actorStatus => StatusFollows'
<1>1. HubType /\ RecordsType
  BY DEF ReaderType
<1>2. /\ \A c \in Challenges, status \in ChallengeStatuses \cup {"None"} :
            Means(c, status) => Means(c, status)'
      /\ \A pair : WasChallenged(pair) => WasChallenged(pair)'
  BY <1>1, MeansIsStable
<1>3. ASSUME UNCHANGED challenges PROVE RecordsFollow'
  <2>1. \A c \in Challenges : challenges[c] \in ChallengeStatuses \cup {"None"}
    BY <1>1 DEF RecordsType
  <2>2. ASSUME NEW c \in Challenges PROVE Means(c, challenges[c])'
    <3>1. PICK status \in ChallengeStatuses \cup {"None"} : challenges[c] = status
      BY <2>1
    <3>2. Means(c, status)'
      BY <1>2, <3>1 DEF FollowInv, RecordsFollow
    <3> QED
      BY <1>3, <3>1, <3>2 DEF Means
  <2> QED
    BY <2>2 DEF RecordsFollow
<1>4. ASSUME UNCHANGED challenging PROVE ChallengingFollows'
  <2>1. \A slot \in ChallengeSlots : challenging[slot] \in ChallengeCall(slot[2])
    BY DEF ReaderType, ChallengingType
  <2>2. ASSUME NEW slot \in ChallengeSlots, challenging[slot].at = "insert"
        PROVE  stage'[challenging[slot].outcome] # "None"
    <3>1. challenging[slot].outcome \in Challenges
      BY <2>1, <2>2 DEF ChallengeCall, ChallengesOf
    <3> QED
      BY <2>2, <3>1 DEF FollowInv, ChallengingFollows, HubsGoOn
  <2>3. ASSUME NEW slot \in ChallengeSlots, challenging[slot].at = "mark"
        PROVE  WasChallenged(challenging[slot].target)'
    <3>1. PICK pair : challenging[slot].target = pair
      OBVIOUS
    <3>2. WasChallenged(pair)'
      BY <1>2, <2>3, <3>1 DEF FollowInv, ChallengingFollows
    <3> QED
      BY <1>4, <3>1, <3>2 DEF WasChallenged, ChallengesOf
  <2> QED
    BY <1>4, <2>2, <2>3 DEF ChallengingFollows
<1>5. ASSUME UNCHANGED slashing PROVE SlashingFollows'
  <2>1. \A slot \in SlashSlots : slashing[slot] \in SlashState
    BY DEF ReaderType, SlashingType
  <2>2. ASSUME NEW slot \in SlashSlots, NEW c \in slashing[slot].todo PROVE stage'[c] # "None"
    <3>1. c \in Challenges
      BY <2>1 DEF SlashState
    <3> QED
      BY <3>1 DEF FollowInv, SlashingFollows, HubsGoOn
  <2>3. ASSUME NEW slot \in SlashSlots, slashing[slot].at \in {"record", "mark"}
        PROVE  Means(slashing[slot].target, slashing[slot].outcome[1])'
    <3>1. slashing[slot].target \in Challenges /\ slashing[slot].outcome \in Outcomes
      BY <2>1, <2>3 DEF SlashState
    <3>2. slashing[slot].outcome[1] \in ChallengeStatuses
      BY <3>1 DEF Outcomes, ChallengeStatuses
    <3>3. PICK c \in Challenges, status \in ChallengeStatuses :
             slashing[slot].target = c /\ slashing[slot].outcome[1] = status
      BY <3>1, <3>2
    <3>4. Means(c, status)'
      BY <1>2, <2>3, <3>3 DEF FollowInv, SlashingFollows
    <3> QED
      BY <1>5, <3>3, <3>4 DEF Means
  <2> QED
    BY <1>5, <2>2, <2>3 DEF SlashingFollows
<1>6. ASSUME UNCHANGED actorStatus PROVE StatusFollows'
  <2>1. ASSUME NEW pair \in Pairs, actorStatus[pair] = "Inactive"
        PROVE  \E c \in ChallengesOf(pair) : stage'[c] = "Slashed"
    BY <2>1 DEF FollowInv, StatusFollows, HubsGoOn, ChallengesOf
  <2>2. ASSUME NEW pair \in Pairs, actorStatus[pair] = "Challenged" PROVE WasChallenged(pair)'
    BY <1>2, <2>2 DEF FollowInv, StatusFollows
  <2> QED
    BY <1>6, <2>1, <2>2 DEF StatusFollows, ChallengesOf, PairOf
<1> QED
  BY <1>3, <1>4, <1>5, <1>6

\* The slashes on a chain start over, or end, after one was handled.
LEMMA DoneSlashes ==
    /\ \A todo : Slashes(todo).at \in {"rest", "next"} /\ Slashes(todo).todo = todo
    /\ \A state : Done(state).at \in {"rest", "next"} /\ Done(state).todo \subseteq state.todo
<1>1. /\ AtRest.at = "rest" /\ AtRest.todo = {}
      /\ DOMAIN AtRest = {"at", "todo", "target", "outcome"}
  BY DEF AtRest
<1>2. ASSUME NEW todo
      PROVE  Slashes(todo).at \in {"rest", "next"} /\ Slashes(todo).todo = todo
  BY <1>1 DEF Slashes
<1> QED
  BY <1>2 DEF Done

\* A call goes on with what the hubs know.
LEMMA ChallengingFollowsStep ==
    ASSUME ReaderType, FollowInv, HubsGoOn,
           NEW slot \in ChallengeSlots, NEW call \in ChallengeCall(slot[2]), SetChallenging(slot, call),
           call.at = "insert" => stage'[call.outcome] # "None",
           call.at = "mark" => WasChallenged(call.target)'
    PROVE  ChallengingFollows'
<1>1. \A q \in ChallengeSlots : challenging'[q] = IF q = slot THEN call ELSE challenging[q]
  BY DEF ReaderType, ChallengingType, SetChallenging
<1>2. ASSUME NEW q \in ChallengeSlots, q # slot
      PROVE  /\ challenging[q].at = "insert" => stage'[challenging[q].outcome] # "None"
             /\ challenging[q].at = "mark" => WasChallenged(challenging[q].target)'
  <2>1. challenging[q] \in ChallengeCall(q[2])
    BY DEF ReaderType, ChallengingType
  <2>2. ASSUME challenging[q].at = "insert" PROVE stage'[challenging[q].outcome] # "None"
    <3>1. challenging[q].outcome \in Challenges
      BY <2>1, <2>2 DEF ChallengeCall, ChallengesOf
    <3> QED
      BY <2>2, <3>1 DEF FollowInv, ChallengingFollows, HubsGoOn
  <2>3. ASSUME challenging[q].at = "mark" PROVE WasChallenged(challenging[q].target)'
    <3>1. PICK pair : challenging[q].target = pair
      OBVIOUS
    <3>2. WasChallenged(pair)'
      BY <2>3, <3>1, MeansIsStable DEF FollowInv, ChallengingFollows, ReaderType
    <3>3. challenging'[q].target = pair
      BY <1>1, <1>2, <3>1
    <3> QED
      BY <3>2, <3>3 DEF WasChallenged, ChallengesOf
  <2> QED
    BY <2>2, <2>3
<1> QED
  BY <1>1, <1>2 DEF ChallengingFollows, WasChallenged, ChallengesOf

\* The slashes on a chain go on with what the hubs know.
LEMMA SlashingFollowsStep ==
    ASSUME ReaderType, FollowInv, HubsGoOn,
           NEW slot \in SlashSlots, NEW state \in SlashState, SetSlashing(slot, state),
           \A c \in state.todo : stage[c] # "None",
           state.at \in {"record", "mark"} => Means(state.target, state.outcome[1])'
    PROVE  SlashingFollows'
<1>1. \A q \in SlashSlots : slashing'[q] = IF q = slot THEN state ELSE slashing[q]
  BY DEF ReaderType, SlashingType, SetSlashing
<1>2. \A q \in SlashSlots : slashing[q] \in SlashState
  BY DEF ReaderType, SlashingType
<1>3. ASSUME NEW q \in SlashSlots, NEW c \in slashing'[q].todo PROVE stage'[c] # "None"
  <2>1. c \in Challenges
    BY <1>1, <1>2 DEF SlashState
  <2>2. stage[c] # "None"
    BY <1>1 DEF FollowInv, SlashingFollows
  <2> QED
    BY <2>1, <2>2 DEF HubsGoOn
<1>4. ASSUME NEW q \in SlashSlots, q # slot, slashing[q].at \in {"record", "mark"}
      PROVE  Means(slashing[q].target, slashing[q].outcome[1])'
  <2>1. slashing[q].target \in Challenges /\ slashing[q].outcome \in Outcomes
    BY <1>2, <1>4 DEF SlashState
  <2>2. slashing[q].outcome[1] \in ChallengeStatuses
    BY <2>1 DEF Outcomes, ChallengeStatuses
  <2>3. PICK c \in Challenges, status \in ChallengeStatuses :
           slashing[q].target = c /\ slashing[q].outcome[1] = status
    BY <2>1, <2>2
  <2>4. Means(c, status)'
    BY <1>4, <2>3, MeansIsStable DEF FollowInv, SlashingFollows, ReaderType
  <2> QED
    BY <1>1, <1>4, <2>3, <2>4 DEF Means
<1> QED
  BY <1>1, <1>3, <1>4 DEF SlashingFollows, Means

\* Statuses of actors change to what the hubs know.
LEMMA StatusFollowsStep ==
    ASSUME ReaderType, FollowInv, HubsGoOn,
           \A pair \in Pairs :
              \/ actorStatus'[pair] \in {actorStatus[pair], "Active", "Undefined"}
              \/ actorStatus'[pair] = "Challenged" /\ WasChallenged(pair)
              \/ /\ actorStatus'[pair] = "Inactive"
                 /\ \E c \in ChallengesOf(pair) : stage[c] = "Slashed"
    PROVE  StatusFollows'
<1>1. \A pair : WasChallenged(pair) => WasChallenged(pair)'
  BY MeansIsStable DEF ReaderType
<1>2. ASSUME NEW pair \in Pairs, actorStatus'[pair] = "Challenged" PROVE WasChallenged(pair)'
  BY <1>1, <1>2 DEF FollowInv, StatusFollows
<1>3. ASSUME NEW pair \in Pairs, actorStatus'[pair] = "Inactive"
      PROVE  \E c \in ChallengesOf(pair) : stage'[c] = "Slashed"
  <2>1. PICK c \in ChallengesOf(pair) : stage[c] = "Slashed"
    BY <1>3 DEF FollowInv, StatusFollows
  <2> QED
    BY <2>1 DEF HubsGoOn, ChallengesOf
<1> QED
  BY <1>2, <1>3 DEF StatusFollows, ChallengesOf, PairOf

\* The record of a challenge changes to what the hubs know.
LEMMA RecordsFollowStep ==
    ASSUME ReaderType, FollowInv, HubsGoOn,
           NEW c \in Challenges, NEW status \in ChallengeStatuses \cup {"None"},
           UpdateChallenge(c, status), Means(c, status)
    PROVE  RecordsFollow'
<1>1. challenges \in [Challenges -> ChallengeStatuses \cup {"None"}]
  BY DEF ReaderType, RecordsType
<1>2. ASSUME NEW other \in Challenges PROVE Means(other, challenges[other])'
  <2>1. PICK new \in ChallengeStatuses \cup {"None"} : challenges'[other] = new /\ Means(other, new)
    BY <1>1 DEF UpdateChallenge, FollowInv, RecordsFollow
  <2>2. Means(other, new)'
    BY <2>1, MeansIsStable DEF ReaderType
  <2> QED
    BY <2>1, <2>2 DEF Means
<1> QED
  BY <1>2 DEF RecordsFollow

\* A round of challenges starts calls and goes on: it learns nothing.
LEMMA ChallengeRoundStepFollows ==
    ASSUME ReaderType, FollowInv, HubsGoOn, NEW r \in ChallengeRounds, ChallengeRoundStep(r)
    PROVE  FollowInv'
<1>1. RecordsFollow' /\ SlashingFollows' /\ StatusFollows'
  BY RoundsAreQuiet, FollowFrames DEF dbVars
<1>2. ASSUME UNCHANGED challenging PROVE ChallengingFollows'
  BY <1>2, FollowFrames
<1>3. ASSUME NEW a, ChallengeNextActor(r, a) PROVE ChallengingFollows'
  <2> DEFINE Pair(n) == [actor |-> a, network |-> n]
             Check(n) == [AtRest EXCEPT !.at = "check", !.target = Pair(n)]
  <2>1. \A n : Check(n).at = "check"
    BY DEF AtRest
  <2>2. ASSUME NEW slot \in ChallengeSlots
        PROVE  challenging'[slot].at = "check" \/ challenging'[slot] = challenging[slot]
    <3>1. challenging'[slot] = Check(slot[2]) \/ challenging'[slot] = challenging[slot]
      BY <1>3 DEF ChallengeNextActor
    <3> QED
      BY <2>1, <3>1
  <2>3. ASSUME NEW slot \in ChallengeSlots, challenging[slot].at = "insert"
        PROVE  stage'[challenging[slot].outcome] # "None"
    <3>1. challenging[slot].outcome \in Challenges
      BY <2>3 DEF ReaderType, ChallengingType, ChallengeCall, ChallengesOf
    <3> QED
      BY <2>3, <3>1 DEF FollowInv, ChallengingFollows, HubsGoOn
  <2>4. ASSUME NEW slot \in ChallengeSlots, challenging[slot].at = "mark",
               challenging'[slot] = challenging[slot]
        PROVE  WasChallenged(challenging[slot].target)'
    <3>1. PICK pair : challenging[slot].target = pair
      OBVIOUS
    <3>2. WasChallenged(pair)'
      BY <2>4, <3>1, MeansIsStable DEF FollowInv, ChallengingFollows, ReaderType
    <3> QED
      BY <2>4, <3>1, <3>2 DEF WasChallenged, ChallengesOf
  <2> QED
    BY <2>2, <2>3, <2>4 DEF ChallengingFollows, WasChallenged, ChallengesOf
<1>4. ChallengingFollows'
  BY <1>2, <1>3 DEF ChallengeRoundStep, StartChallenger, FilterForInactiveActors
<1> QED
  BY <1>1, <1>4 DEF FollowInv

LEMMA ChallengeCallStepFollows ==
    ASSUME ReaderType, FollowInv, HubsGoOn, NEW slot \in ChallengeSlots, ChallengeCallStep(slot)
    PROVE  FollowInv'
<1> DEFINE call == challenging[slot]
<1>1. call \in ChallengeCall(slot[2]) /\ SlashingFollows'
  BY RoundsAreQuiet, FollowFrames DEF ReaderType, ChallengingType
<1>2. ReaderType'
  BY ChallengeCallStepKeepsTypes
<1>3. ASSUME NEW new, SetChallenging(slot, new) PROVE new \in ChallengeCall(slot[2])
  <2>1. challenging'[slot] = new
    BY <1>3 DEF ReaderType, ChallengingType, SetChallenging
  <2>2. challenging'[slot] \in ChallengeCall(slot[2])
    BY <1>2 DEF ReaderType, ChallengingType, ChallengeCall, ChallengesOf
  <2> QED
    BY <2>1, <2>2
<1>4. ASSUME NEW new, SetChallenging(slot, new), new.at \notin {"insert", "mark"}
      PROVE  ChallengingFollows'
  BY <1>3, <1>4, ChallengingFollowsStep
<1>5. AtRest.at = "rest"
  BY DEF AtRest
<1>6. ASSUME NEW at \in {"send", "wait", "mark"}
      PROVE  /\ [call EXCEPT !.at = at].at = at
             /\ [call EXCEPT !.at = at].target = call.target
  BY <1>1 DEF ChallengeCall
<1>7. ASSUME MaybeChallengeActor(slot) PROVE FollowInv'
  <2>1. PICK new : SetChallenging(slot, new) /\ new.at \in {"send", "rest"}
    BY <1>5, <1>6, <1>7 DEF MaybeChallengeActor
  <2>2. ChallengingFollows'
    BY <1>4, <2>1
  <2> QED
    BY <1>1, <1>7, <2>2, FollowFrames DEF MaybeChallengeActor, dbVars, FollowInv
<1>8. ASSUME ChallengeActor(slot) PROVE FollowInv'
  <2>1. PICK new : /\ SetChallenging(slot, new)
                   /\ \/ new = AtRest
                      \/ new = [call EXCEPT !.at = "wait"]
                      \/ new = [call EXCEPT !.at = "mark"] /\ IsChallenged(call.target)
    BY <1>8 DEF ChallengeActor, StartChallengeError, ChallengeError
  <2>2. ASSUME new = AtRest \/ new = [call EXCEPT !.at = "wait"] PROVE ChallengingFollows'
    <3>1. new.at \in {"rest", "wait"}
      BY <1>5, <1>6, <2>2
    <3> QED
      BY <1>4, <2>1, <3>1
  <2>3. ASSUME new = [call EXCEPT !.at = "mark"], IsChallenged(call.target)
        PROVE  ChallengingFollows'
    <3>1. new.at = "mark" /\ new.target = call.target
      BY <1>6, <2>3
    <3>2. PICK pair : call.target = pair
      OBVIOUS
    <3>3. WasChallenged(pair)
      BY <2>3, <3>2 DEF IsChallenged, WasChallenged
    <3>4. WasChallenged(pair)'
      BY <3>3, MeansIsStable DEF ReaderType
    <3>5. new \in ChallengeCall(slot[2])
      BY <1>3, <2>1
    <3>6. WasChallenged(new.target)'
      BY <3>1, <3>2, <3>4
    <3> QED
      BY <2>1, <3>1, <3>5, <3>6, ChallengingFollowsStep
  <2>4. ChallengingFollows'
    BY <2>1, <2>2, <2>3
  <2> QED
    BY <1>1, <1>8, <2>4, FollowFrames DEF ChallengeActor, dbVars, FollowInv
<1>9. ASSUME InsertChallengePending(slot) PROVE FollowInv'
  <2> DEFINE c == call.outcome
  <2>1. /\ c \in Challenges /\ PairOf(c) = call.target
        /\ stage[c] # "None" /\ stage'[c] # "None"
    BY <1>1, <1>9 DEF InsertChallengePending, ChallengeCall, ChallengesOf, FollowInv,
       ChallengingFollows, HubsGoOn
  <2>2. PICK new : SetChallenging(slot, new) /\ new.at = "mark" /\ new.target = PairOf(c)
    BY <1>6, <1>9, <2>1 DEF InsertChallengePending
  <2>3. WasChallenged(PairOf(c))
    BY <2>1 DEF WasChallenged, ChallengesOf
  <2>4. PICK pair : new.target = pair /\ WasChallenged(pair)
    BY <2>2, <2>3
  <2>5. WasChallenged(pair)'
    BY <2>4, MeansIsStable DEF ReaderType
  <2>6. new \in ChallengeCall(slot[2])
    BY <1>3, <2>2
  <2>7. ChallengingFollows'
    BY <2>2, <2>4, <2>5, <2>6, ChallengingFollowsStep
  <2>8. PICK status \in ChallengeStatuses \cup {"None"} :
           UpdateChallenge(c, status) /\ Means(c, status)
    <3>1. CASE challenges[c] = "None"
      BY <1>9, <2>1, <3>1 DEF InsertChallengePending, Means, ChallengeStatuses
    <3>2. CASE challenges[c] # "None"
      BY <1>9, <2>1, <3>2 DEF InsertChallengePending, FollowInv, RecordsFollow, ReaderType,
         RecordsType
    <3> QED
      BY <3>1, <3>2
  <2>9. PICK d \in Challenges : UpdateChallenge(d, status) /\ Means(d, status)
    BY <2>1, <2>8
  <2>10. RecordsFollow'
    BY <2>9, RecordsFollowStep
  <2> QED
    BY <1>1, <1>9, <2>7, <2>10, FollowFrames DEF InsertChallengePending, FollowInv
<1>10. ASSUME MarkChallenged(slot) PROVE FollowInv'
  <2>1. WasChallenged(call.target)
    BY <1>10 DEF MarkChallenged, FollowInv, ChallengingFollows
  <2>2. StatusFollows'
    BY <1>10, <2>1, StatusFollowsStep
    DEF MarkChallenged, UpdateActorStatus, ReaderType, ActorsType
  <2>3. ChallengingFollows'
    BY <1>4, <1>5, <1>10 DEF MarkChallenged
  <2> QED
    BY <1>1, <1>10, <2>2, <2>3, FollowFrames DEF MarkChallenged, FollowInv
<1> QED
  BY <1>7, <1>8, <1>9, <1>10 DEF ChallengeCallStep

\* A round of slashes starts with the challenges that are recorded as pending.
LEMMA SlashingLoopFollows ==
    ASSUME ReaderType, FollowInv, HubsGoOn, NEW r \in SlashRounds, SlashingLoop(r)
    PROVE  FollowInv'
<1> DEFINE Pending(n) == {c \in GetPendingChallenges : c.network = n}
<1>1. RecordsFollow' /\ ChallengingFollows' /\ StatusFollows'
  BY RoundsAreQuiet, FollowFrames DEF dbVars
<1>2. \A c \in GetPendingChallenges : c \in Challenges /\ stage[c] # "None"
  BY DEF GetPendingChallenges, FollowInv, RecordsFollow, Means
<1>3. ASSUME NEW slot \in SlashSlots
      PROVE  slashing'[slot] = Slashes(Pending(slot[2])) \/ slashing'[slot] = slashing[slot]
  BY DEF SlashingLoop
<1>4. \A slot \in SlashSlots : slashing[slot] \in SlashState
  BY DEF ReaderType, SlashingType
<1>5. ASSUME NEW slot \in SlashSlots, NEW c \in slashing'[slot].todo PROVE stage'[c] # "None"
  <2>1. CASE slashing'[slot] = Slashes(Pending(slot[2]))
    <3>1. c \in Pending(slot[2])
      BY <2>1, DoneSlashes
    <3> QED
      BY <1>2, <3>1 DEF HubsGoOn
  <2>2. CASE slashing'[slot] = slashing[slot]
    <3>1. c \in Challenges /\ stage[c] # "None"
      BY <1>4, <2>2 DEF SlashState, FollowInv, SlashingFollows
    <3> QED
      BY <3>1 DEF HubsGoOn
  <2> QED
    BY <1>3, <2>1, <2>2
<1>6. ASSUME NEW slot \in SlashSlots, slashing'[slot].at \in {"record", "mark"}
      PROVE  Means(slashing[slot].target, slashing[slot].outcome[1])'
  <2>1. slashing'[slot] = slashing[slot]
    BY <1>3, <1>6, DoneSlashes
  <2>2. slashing[slot].target \in Challenges /\ slashing[slot].outcome \in Outcomes
    BY <1>4, <1>6, <2>1 DEF SlashState
  <2>3. slashing[slot].outcome[1] \in ChallengeStatuses
    BY <2>2 DEF Outcomes, ChallengeStatuses
  <2>4. PICK c \in Challenges, status \in ChallengeStatuses :
           slashing[slot].target = c /\ slashing[slot].outcome[1] = status
    BY <2>2, <2>3
  <2>5. Means(c, status)'
    BY <1>6, <2>1, <2>4, MeansIsStable DEF FollowInv, SlashingFollows, ReaderType
  <2> QED
    BY <2>1, <2>4, <2>5 DEF Means
<1>7. SlashingFollows'
  BY <1>5, <1>6 DEF SlashingFollows, Means
<1> QED
  BY <1>1, <1>7 DEF FollowInv

LEMMA SlashStepFollows ==
    ASSUME ReaderType, FollowInv, HubsGoOn, NEW slot \in SlashSlots, SlashStep(slot)
    PROVE  FollowInv'
<1> DEFINE state == slashing[slot]
<1>1. state \in SlashState /\ ChallengingFollows'
  BY RoundsAreQuiet, FollowFrames DEF ReaderType, SlashingType
<1>2. ASSUME NEW new, SetSlashing(slot, new) PROVE new \in SlashState
  <2>1. ReaderType'
    BY SlashStepKeepsTypes
  <2>2. slashing'[slot] = new
    BY <1>2 DEF ReaderType, SlashingType, SetSlashing
  <2> QED
    BY <2>1, <2>2 DEF ReaderType, SlashingType
<1>3. \A c \in state.todo : stage[c] # "None"
  BY DEF FollowInv, SlashingFollows
<1>4. ASSUME NEW new, SetSlashing(slot, new), new.at \notin {"record", "mark"},
             new.todo \subseteq state.todo
      PROVE  SlashingFollows'
  BY <1>2, <1>3, <1>4, SlashingFollowsStep
<1>5. ASSUME NEW c \in state.todo, SlashByChallenge(slot, c) PROVE FollowInv'
  <2> DEFINE next == [state EXCEPT !.target = c]
  <2>1. next.todo = state.todo /\ [next EXCEPT !.at = "send"].at = "send"
        /\ [next EXCEPT !.at = "send"].todo = state.todo
    BY <1>1 DEF SlashState
  <2>2. PICK new : /\ SetSlashing(slot, new)
                   /\ new = Done(next) \/ new = [next EXCEPT !.at = "send"]
    BY <1>5 DEF SlashByChallenge
  <2>3. ASSUME new = Done(next) PROVE SlashingFollows'
    BY <1>4, <2>1, <2>2, <2>3, DoneSlashes
  <2>4. ASSUME new = [next EXCEPT !.at = "send"] PROVE SlashingFollows'
    BY <1>4, <2>1, <2>2, <2>4
  <2> QED
    BY <1>1, <1>5, <2>2, <2>3, <2>4, FollowFrames DEF SlashByChallenge, dbVars, FollowInv
<1>6. ASSUME SlashActorByChallenge(slot) PROVE FollowInv'
  <2> DEFINE c == state.target
  <2>1. c \in Challenges /\ stage[c] # "None"
    BY <1>1, <1>3, <1>6 DEF SlashActorByChallenge, SlashState
  <2>2. PICK new :
           /\ SetSlashing(slot, new)
           /\ \/ new = Done(state)
              \/ new = [state EXCEPT !.at = "wait"]
              \/ \E error : /\ error = SlashError(c) /\ OutcomeOf(error) # Null
                            /\ new = [state EXCEPT !.at = "record", !.outcome = OutcomeOf(error)]
    BY <1>6 DEF SlashActorByChallenge, SlashErrorHandler
  <2>3. ASSUME new = Done(state) PROVE SlashingFollows'
    BY <1>4, <2>2, <2>3, DoneSlashes
  <2>4. ASSUME new = [state EXCEPT !.at = "wait"] PROVE SlashingFollows'
    <3>1. new.at = "wait" /\ new.todo = state.todo
      BY <1>1, <2>4 DEF SlashState
    <3> QED
      BY <1>4, <2>2, <3>1
  <2>5. ASSUME NEW error, error = SlashError(c), OutcomeOf(error) # Null,
               new = [state EXCEPT !.at = "record", !.outcome = OutcomeOf(error)]
        PROVE  SlashingFollows'
    <3>1. /\ new.at = "record" /\ new.todo = state.todo
          /\ new.target = c /\ new.outcome = OutcomeOf(error)
      BY <1>1, <2>5 DEF SlashState
    <3>2. OutcomeOf(error)[1] \in ChallengeStatuses
      BY <2>5, OutcomeTypes DEF Outcomes, ChallengeStatuses
    <3>3. Means(c, OutcomeOf(error)[1])
      BY <2>1, <2>5 DEF SlashError, OutcomeOf, Means
    <3>4. PICK status \in ChallengeStatuses, d \in Challenges :
             new.outcome[1] = status /\ c = d /\ Means(d, status)
      BY <2>1, <3>1, <3>2, <3>3
    <3>5. Means(d, status)'
      BY <3>4, MeansIsStable DEF ReaderType
    <3>6. Means(new.target, new.outcome[1])'
      BY <3>1, <3>4, <3>5
    <3>7. new \in SlashState
      BY <1>2, <2>2
    <3> QED
      BY <1>3, <2>2, <3>1, <3>6, <3>7, SlashingFollowsStep
  <2>6. SlashingFollows'
    BY <2>2, <2>3, <2>4, <2>5
  <2> QED
    BY <1>1, <1>6, <2>6, FollowFrames DEF SlashActorByChallenge, dbVars, FollowInv
<1>7. ASSUME UpdateChallengeStatus(slot) PROVE FollowInv'
  <2>1. /\ state.at = "record" /\ state.target \in Challenges
        /\ state.outcome \in Outcomes
    BY <1>1, <1>7 DEF UpdateChallengeStatus, SlashState
  <2>2. state.outcome[1] \in ChallengeStatuses
    BY <2>1 DEF Outcomes, ChallengeStatuses
  <2>3. PICK c \in Challenges, status \in ChallengeStatuses :
           state.target = c /\ state.outcome[1] = status
    BY <2>1, <2>2
  <2>4. Means(c, status)
    BY <2>1, <2>3 DEF FollowInv, SlashingFollows
  <2>5. RecordsFollow'
    BY <1>7, <2>3, <2>4, RecordsFollowStep DEF UpdateChallengeStatus
  <2>6. PICK new : /\ SetSlashing(slot, new)
                   /\ new = Done(state) \/ new = [state EXCEPT !.at = "mark"]
    BY <1>7 DEF UpdateChallengeStatus
  <2>7. ASSUME new = Done(state) PROVE SlashingFollows'
    BY <1>4, <2>6, <2>7, DoneSlashes
  <2>8. ASSUME new = [state EXCEPT !.at = "mark"] PROVE SlashingFollows'
    <3>1. /\ new.todo = state.todo /\ new.target = c
          /\ new.outcome[1] = status /\ new \in SlashState
      BY <1>1, <1>2, <2>3, <2>6, <2>8 DEF SlashState
    <3>2. Means(c, status)'
      BY <2>4, MeansIsStable DEF ReaderType
    <3>3. Means(new.target, new.outcome[1])'
      BY <3>1, <3>2
    <3> QED
      BY <1>3, <2>6, <3>1, <3>3, SlashingFollowsStep
  <2> QED
    BY <1>1, <1>7, <2>5, <2>6, <2>7, <2>8, FollowFrames DEF UpdateChallengeStatus, FollowInv
<1>8. ASSUME MarkSlashed(slot) PROVE FollowInv'
  <2> DEFINE c == state.target
             status == state.outcome[2]
  <2>1. /\ c \in Challenges /\ state.outcome \in Outcomes /\ status # Null
        /\ Means(c, state.outcome[1])
    BY <1>1, <1>8 DEF MarkSlashed, SlashState, FollowInv, SlashingFollows
  <2>2. status \in {"Active", "Inactive"} /\ (status = "Inactive" => stage[c] = "Slashed")
    BY <2>1 DEF Outcomes, Means
  <2>3. c \in ChallengesOf(PairOf(c))
    BY <2>1 DEF ChallengesOf
  <2>4. StatusFollows'
    BY <1>8, <2>2, <2>3, StatusFollowsStep
    DEF MarkSlashed, UpdateActorStatus, ReaderType, ActorsType
  <2>5. SlashingFollows'
    BY <1>4, <1>8, DoneSlashes DEF MarkSlashed
  <2> QED
    BY <1>1, <1>8, <2>4, <2>5, FollowFrames DEF MarkSlashed, FollowInv
<1> QED
  BY <1>5, <1>6, <1>7, <1>8 DEF SlashStep

LEMMA MiningFollows ==
    ASSUME ReaderType, FollowInv, HubsGoOn, NEW tx \in mempool, MineChallenge(tx) \/ MineSlash(tx)
    PROVE  FollowInv'
<1> DEFINE slot == tx.slot
<1>1. ReaderType' /\ tx \in ChallengeTxs \cup SlashTxs /\ HubType
  BY MiningKeepsTypes DEF ReaderType, PoolType
<1>2. ASSUME MineChallenge(tx) PROVE FollowInv'
  <2> DEFINE call == challenging[slot]
  <2>1. slot \in ChallengeSlots /\ call \in ChallengeCall(slot[2])
    BY <1>1, <1>2 DEF MineChallenge, ChallengeTxs, SlashTxs, ReaderType, ChallengingType
  <2>2. ASSUME NEW new, SetChallenging(slot, new) PROVE new \in ChallengeCall(slot[2])
    <3>1. challenging'[slot] = new
      BY <2>1, <2>2 DEF ReaderType, ChallengingType, SetChallenging
    <3>2. challenging'[slot] \in ChallengeCall(slot[2])
      BY <1>1, <2>1 DEF ReaderType, ChallengingType, ChallengeCall, ChallengesOf
    <3> QED
      BY <3>1, <3>2
  <2>3. ASSUME SetChallenging(slot, AtRest) PROVE ChallengingFollows'
    <3>1. AtRest.at = "rest"
      BY DEF AtRest
    <3> QED
      BY <2>1, <2>2, <2>3, <3>1, ChallengingFollowsStep
  <2>4. ASSUME NEW c \in NextChallenge(tx.target), Game!Open(c),
               SetChallenging(slot, [call EXCEPT !.at = "insert", !.outcome = c])
        PROVE  ChallengingFollows'
    <3>1. PICK new : SetChallenging(slot, new) /\ new.at = "insert" /\ new.outcome = c
      <4> DEFINE new == [call EXCEPT !.at = "insert", !.outcome = c]
      <4>1. new.at = "insert" /\ new.outcome = c
        BY <2>1 DEF ChallengeCall
      <4> QED
        BY <2>4, <4>1
    <3>2. stage'[c] = "Open"
      BY <1>1, <2>4 DEF NextChallenge, ChallengesOf, Game!Open, HubType
    <3> QED
      BY <2>1, <2>2, <3>1, <3>2, ChallengingFollowsStep
  <2>5. ChallengingFollows'
    BY <1>2, <2>3, <2>4, FollowFrames DEF MineChallenge
  <2> QED
    BY <1>2, <2>5, FollowFrames DEF MineChallenge, dbVars, FollowInv
<1>3. ASSUME MineSlash(tx) PROVE FollowInv'
  <2> DEFINE state == slashing[slot]
             slashed == [state EXCEPT !.at = "record", !.outcome = WasSlashed]
  <2>1. slot \in SlashSlots /\ state \in SlashState
    BY <1>1, <1>3 DEF MineSlash, ChallengeTxs, SlashTxs, ReaderType, SlashingType
  <2>2. ASSUME NEW new, SetSlashing(slot, new) PROVE new \in SlashState
    <3>1. slashing'[slot] = new
      BY <2>1, <2>2 DEF ReaderType, SlashingType, SetSlashing
    <3> QED
      BY <1>1, <2>1, <3>1 DEF ReaderType, SlashingType
  <2>3. \A c \in state.todo : stage[c] # "None"
    BY <2>1 DEF FollowInv, SlashingFollows
  <2>4. ASSUME SetSlashing(slot, Done(state)) PROVE SlashingFollows'
    <3>1. PICK new : /\ SetSlashing(slot, new) /\ new.at \in {"rest", "next"}
                     /\ new.todo \subseteq state.todo
      BY <2>4, DoneSlashes
    <3> QED
      BY <2>1, <2>2, <2>3, <3>1, SlashingFollowsStep
  <2>5. ASSUME IsWaiting(state, tx), Game!Slash(tx.target), SetSlashing(slot, slashed)
        PROVE  SlashingFollows'
    <3>1. tx.target \in Challenges /\ stage'[tx.target] = "Slashed"
      BY <1>1, <2>1, <2>5 DEF IsWaiting, SlashState, Game!Slash, Game!Close, HubType
    <3>2. /\ slashed.todo = state.todo /\ slashed.target = tx.target
          /\ slashed.outcome[1] = "Unsolved"
      BY <2>1, <2>5 DEF IsWaiting, SlashState, WasSlashed
    <3>3. PICK new : /\ SetSlashing(slot, new) /\ new.todo = state.todo
                     /\ new.target = tx.target /\ new.outcome[1] = "Unsolved"
      <4> HIDE DEF slashed
      <4> QED
        BY <2>5, <3>2
    <3>4. Means(new.target, new.outcome[1])'
      BY <3>1, <3>3 DEF Means
    <3> QED
      BY <2>1, <2>2, <2>3, <3>3, <3>4, SlashingFollowsStep
  <2>6. SlashingFollows'
    BY <1>3, <2>4, <2>5, FollowFrames DEF MineSlash
  <2> QED
    BY <1>3, <2>6, FollowFrames DEF MineSlash, dbVars, FollowInv
<1> QED
  BY <1>2, <1>3

LEMMA FollowInit == ChallengerInit => FollowInv
<1> SUFFICES ASSUME ChallengerInit PROVE FollowInv
  OBVIOUS
<1>1. RecordsFollow
  BY DEF ChallengerInit, Init, RecordsFollow, Means
<1>2. ChallengingFollows /\ SlashingFollows
  BY DEF ChallengerInit, Init, AtRest, ChallengingFollows, SlashingFollows
<1>3. StatusFollows
  BY DEF ChallengerInit, Init, NoActors, StatusFollows
<1> QED
  BY <1>1, <1>2, <1>3 DEF FollowInv

LEMMA FollowStep == ReaderType /\ FollowInv /\ [Next]_challengerVars => FollowInv'
<1> SUFFICES ASSUME ReaderType, FollowInv, [Next]_challengerVars PROVE FollowInv'
  OBVIOUS
<1>1. HubsGoOn
  BY EveryStepOfHubsGoesOn
<1>2. ASSUME UNCHANGED <<dbVars, roundVars>> PROVE FollowInv'
  BY <1>1, <1>2, FollowFrames DEF dbVars, roundVars, FollowInv
<1>3. CASE StoreActorsForCurrentEpoch
  <2>1. \A pair \in Pairs : actorStatus'[pair] = "Undefined"
    BY <1>3 DEF StoreActorsForCurrentEpoch, DropActorsStorage, NoActors
  <2>2. StatusFollows'
    BY <1>1, <2>1, StatusFollowsStep
  <2> QED
    BY <1>1, <1>3, <2>2, FollowFrames DEF StoreActorsForCurrentEpoch, roundVars, FollowInv
<1>4. CASE \E status \in topic : OnMessage(status)
  <2>1. \A pair \in Pairs : actorStatus'[pair] \in {actorStatus[pair], "Active"}
    BY <1>4 DEF OnMessage, RefreshActorStatus
  <2>2. StatusFollows'
    BY <1>1, <2>1, StatusFollowsStep
  <2> QED
    BY <1>1, <1>4, <2>2, FollowFrames DEF OnMessage, roundVars, FollowInv
<1>5. CASE Exit
  <2>1. ChallengingFollows' /\ SlashingFollows'
    BY <1>5 DEF Exit, AtRest, ChallengingFollows, SlashingFollows
  <2> QED
    BY <1>1, <1>5, <2>1, FollowFrames DEF Exit, dbVars, FollowInv
<1>6. UNCHANGED challengerVars \/ Emitter \/ Others \/ Advance => UNCHANGED <<dbVars, roundVars>>
  BY DEF challengerVars, vars, Emitter, Others, Advance
<1>7. ChallengerStep => FollowInv'
  BY <1>1, <1>3, <1>4, ChallengeRoundStepFollows, ChallengeCallStepFollows, SlashingLoopFollows,
     SlashStepFollows DEF ChallengerStep
<1>8. (\E n \in Networks : Mining(n)) => FollowInv'
  BY <1>1, MiningFollows DEF Mining
<1> QED
  BY <1>2, <1>5, <1>6, <1>7, <1>8 DEF Next

LEMMA FollowInvariance == Spec => []FollowInv
<1>1. ASSUME BoundedType, FollowInv, [Next]_challengerVars PROVE FollowInv'
  BY <1>1, FollowStep DEF BoundedType
<1> QED
  BY <1>1, FollowInit, BoundedTypeInit, BoundedTypeStep, PTL DEF Spec

(***************************************************************************)
(* What the challenger records of a challenge is true of its hub: solved   *)
(* if the actor answered, unsolved if it was slashed, cancelled if the DAO *)
(* slashed it, null if its epoch is over (slashByChallenge and its error   *)
(* handlers), whatever the rounds, the exits and the others did meanwhile. *)
(***************************************************************************)
THEOREM ChallengeRecordsFollow == Spec => []ChallengesFollowHub
<1>1. FollowInv => ChallengesFollowHub
  BY DEF FollowInv, RecordsFollow, Means, ChallengesFollowHub
<1> QED
  BY <1>1, FollowInvariance, PTL

(***************************************************************************)
(* The challenger takes an actor for inactive only if it was slashed on    *)
(* that chain, and for challenged only if it was challenged there: it does *)
(* not let go of an actor it could challenge because of a wrong status.    *)
(***************************************************************************)
THEOREM ActorRecordsFollow == Spec => []ActorsFollowHub
<1>1. ASSUME FollowInv PROVE ActorsFollowHub
  <2>1. ASSUME NEW pair \in Pairs
        PROVE  LET stages == {stage[c] : c \in ChallengesOf(pair)}
               IN  /\ actorStatus[pair] = "Inactive" => "Slashed" \in stages
                   /\ actorStatus[pair] = "Challenged" => stages # {"None"}
    <3> DEFINE stages == {stage[c] : c \in ChallengesOf(pair)}
    <3>1. actorStatus[pair] = "Inactive" => "Slashed" \in stages
      BY <1>1 DEF FollowInv, StatusFollows
    <3>2. ASSUME actorStatus[pair] = "Challenged" PROVE stages # {"None"}
      BY <1>1, <3>2 DEF FollowInv, StatusFollows, WasChallenged
    <3> QED
      BY <3>1, <3>2
  <2> QED
    BY <2>1 DEF ActorsFollowHub
<1> QED
  BY <1>1, FollowInvariance, PTL

-----------------------------------------------------------------------------
(***************************************************************************)
(* The bonds, chain by chain.  A transaction of a call that an exit        *)
(* interrupted can still be mined after the exit: such an orphan is counted*)
(* with the challenges that are lost already.  On a chain a round waits for*)
(* at most one transaction of this run of the process, or has a challenge  *)
(* to insert, never both.                                                  *)
(***************************************************************************)
AtInsert(n) == {r \in ChallengeRounds : challenging[<<r, n>>].at = "insert"}
AtWait(n) == {r \in ChallengeRounds : challenging[<<r, n>>].at = "wait"}
Inserting(n) == {challenging[<<r, n>>].outcome : r \in AtInsert(n)}

Lost(n) ==
    {c \in Challenges : c.network = n /\ stage[c] # "None" /\ challenges[c] = "None"} \ Inserting(n)

PooledChallenges == {tx \in mempool : tx.call = "challenge"}
Orphans(n) == {tx \in PooledChallenges : tx.slot[2] = n /\ tx.attempt < faults}
Awaited == {tx \in PooledChallenges : tx.attempt = faults}
AwaitedOn(n) == {tx \in Awaited : tx.slot[2] = n}

AwaitedAreWaitedFor == \A tx \in Awaited : IsWaiting(challenging[tx.slot], tx)

FewAreLost(n) ==
    Cardinality(Lost(n)) + Cardinality(Orphans(n)) <= faults * Cardinality(ChallengeRounds)

BondsInv ==
    IsFiniteSet(mempool) /\ AwaitedAreWaitedFor /\ \A n \in Networks : FewAreLost(n)

\* Everything that is counted is finite.
LEMMA LostIsFinite ==
    ASSUME IsFiniteSet(mempool), NEW n
    PROVE  /\ IsFiniteSet(Lost(n)) /\ Cardinality(Lost(n)) \in Nat
           /\ IsFiniteSet(Orphans(n)) /\ Cardinality(Orphans(n)) \in Nat
           /\ IsFiniteSet(AwaitedOn(n)) /\ Cardinality(AwaitedOn(n)) \in Nat
           /\ Cardinality(ChallengeRounds) \in Nat
<1>1. /\ Lost(n) \in SUBSET Challenges
      /\ Orphans(n) \in SUBSET mempool /\ AwaitedOn(n) \in SUBSET mempool
  BY DEF Lost, Orphans, AwaitedOn, Awaited, PooledChallenges
<1>2. IsFiniteSet(Lost(n)) /\ IsFiniteSet(Orphans(n)) /\ IsFiniteSet(AwaitedOn(n))
  BY <1>1, ReaderAssumption, FS_Subset
<1> QED
  BY <1>2, ReaderAssumption, FS_CardinalityType

\* What the exits so far may have lost on a chain.
LEMMA LossType == faults \in Nat => faults * Cardinality(ChallengeRounds) \in Nat
<1>1. Cardinality(ChallengeRounds) \in Nat
  BY ReaderAssumption, FS_CardinalityType
<1>2. \A x \in Nat, y \in Nat : x * y \in Nat
  OBVIOUS
<1> QED
  BY <1>1, <1>2

\* A step that loses nothing on a chain.
LEMMA NothingIsLost ==
    ASSUME PoolType, BondsInv, UNCHANGED faults, IsFiniteSet(mempool'),
           NEW n \in Networks, Lost(n)' \subseteq Lost(n), Orphans(n)' \subseteq Orphans(n)
    PROVE  FewAreLost(n)'
<1>1. Cardinality(Lost(n)) \in Nat /\ Cardinality(Orphans(n)) \in Nat
  BY LostIsFinite DEF BondsInv
<1>2. /\ Cardinality(Lost(n)') <= Cardinality(Lost(n)) /\ Cardinality(Lost(n)') \in Nat
      /\ Cardinality(Orphans(n)') <= Cardinality(Orphans(n)) /\ Cardinality(Orphans(n)') \in Nat
  BY LostIsFinite, FS_Subset, FS_CardinalityType DEF BondsInv
<1>3. PICK limit \in Nat : limit = faults * Cardinality(ChallengeRounds)
  BY LossType DEF PoolType
<1>4. Cardinality(Lost(n)) + Cardinality(Orphans(n)) <= limit
  BY <1>3 DEF BondsInv, FewAreLost
<1>5. Cardinality(Lost(n)') + Cardinality(Orphans(n)') <= limit
  BY <1>1, <1>2, <1>4
<1>6. limit = faults' * Cardinality(ChallengeRounds)
  BY <1>3
<1> QED
  BY <1>5, <1>6 DEF FewAreLost

\* Challenges are not lost while those that were opened are stored or inserted.
LEMMA LostShrinks ==
    ASSUME NEW n,
           \A c \in Challenges : stage'[c] # "None" => stage[c] # "None",
           \A c \in Challenges : challenges'[c] = "None" => challenges[c] = "None",
           \A c \in Inserting(n) : c \in Inserting(n)' \/ challenges'[c] # "None"
    PROVE  Lost(n)' \subseteq Lost(n)
  BY DEF Lost

\* A step that neither sends a transaction of a call nor answers one.
LEMMA CallsGoOn ==
    ASSUME PoolType, BondsInv, UNCHANGED faults,
           PooledChallenges' = PooledChallenges, IsFiniteSet(mempool'),
           \A c \in Challenges : stage'[c] # "None" => stage[c] # "None",
           \A c \in Challenges : challenges'[c] = "None" => challenges[c] = "None",
           \A slot \in ChallengeSlots :
              \/ challenging'[slot] = challenging[slot]
              \/ /\ challenging[slot].at # "wait"
                 /\ challenging[slot].at = "insert"
                       => challenges'[challenging[slot].outcome] # "None"
    PROVE  BondsInv'
<1>1. ASSUME NEW n \in Networks PROVE FewAreLost(n)'
  <2>1. ASSUME NEW c \in Inserting(n) PROVE c \in Inserting(n)' \/ challenges'[c] # "None"
    <3>1. PICK r \in ChallengeRounds :
             challenging[<<r, n>>].at = "insert" /\ challenging[<<r, n>>].outcome = c
      BY DEF Inserting, AtInsert
    <3>2. <<r, n>> \in ChallengeSlots
      BY DEF ChallengeSlots
    <3>3. \/ challenging'[<<r, n>>] = challenging[<<r, n>>]
          \/ challenges'[c] # "None"
      BY <3>1, <3>2
    <3> QED
      BY <3>1, <3>3 DEF Inserting, AtInsert
  <2>2. Lost(n)' \subseteq Lost(n)
    BY <2>1, LostShrinks
  <2>3. Orphans(n)' = Orphans(n)
    BY DEF Orphans
  <2> QED
    BY <2>2, <2>3, NothingIsLost
<1>2. AwaitedAreWaitedFor'
  <2>1. Awaited' = Awaited
    BY DEF Awaited
  <2>2. ASSUME NEW tx \in Awaited PROVE IsWaiting(challenging[tx.slot], tx)'
    <3>1. IsWaiting(challenging[tx.slot], tx)
      BY DEF BondsInv, AwaitedAreWaitedFor
    <3>2. tx.slot \in ChallengeSlots
      BY DEF Awaited, PooledChallenges, PoolType, ChallengeTxs, SlashTxs
    <3>3. challenging'[tx.slot] = challenging[tx.slot]
      BY <3>1, <3>2 DEF IsWaiting
    <3> QED
      BY <3>1, <3>3 DEF IsWaiting
  <2> QED
    BY <2>1, <2>2 DEF AwaitedAreWaitedFor
<1> QED
  BY <1>1, <1>2 DEF BondsInv

\* One call changes.
LEMMA OneCallChanges ==
    ASSUME ReaderType, NEW slot \in ChallengeSlots, NEW call, SetChallenging(slot, call)
    PROVE  \A q \in ChallengeSlots : challenging'[q] = IF q = slot THEN call ELSE challenging[q]
  BY DEF ReaderType, ChallengingType, SetChallenging

\* A round starts its calls on chains where those before are over.
LEMMA ChallengeRoundStepBonds ==
    ASSUME ReaderType, BondsInv, NEW r \in ChallengeRounds, ChallengeRoundStep(r)
    PROVE  BondsInv'
<1>1. PoolType /\ IsFiniteSet(mempool) /\ UNCHANGED <<faults, stage, challenges, mempool>>
  BY RoundsAreQuiet DEF ReaderType, ReaderQuiet, hubVars, dbVars, BondsInv
<1>2. ASSUME NEW slot \in ChallengeSlots
      PROVE  challenging'[slot] = challenging[slot] \/ challenging[slot].at = "rest"
  <2>1. CASE UNCHANGED challenging
    BY <2>1
  <2>2. CASE \E a : ChallengeNextActor(r, a)
    <3>1. Rests(challenging, r)
      BY <2>2 DEF ChallengeNextActor
    <3>2. slot[1] = r \/ challenging'[slot] = challenging[slot]
      BY <2>2 DEF ChallengeNextActor
    <3>3. slot = <<slot[1], slot[2]>> /\ slot[2] \in Networks
      BY DEF ChallengeSlots
    <3>4. slot[1] = r => challenging[slot] = AtRest
      BY <3>1, <3>3 DEF Rests
    <3> QED
      BY <3>2, <3>4 DEF AtRest
  <2> QED
    BY <2>1, <2>2 DEF ChallengeRoundStep, StartChallenger, FilterForInactiveActors
<1> QED
  BY <1>1, <1>2, CallsGoOn DEF PooledChallenges

LEMMA ChallengeCallStepBonds ==
    ASSUME ReaderType, BondsInv, NEW slot \in ChallengeSlots, ChallengeCallStep(slot)
    PROVE  BondsInv'
<1> DEFINE call == challenging[slot]
<1>1. /\ call \in ChallengeCall(slot[2]) /\ PoolType /\ IsFiniteSet(mempool)
      /\ UNCHANGED <<faults, stage>>
      /\ challenges \in [Challenges -> ChallengeStatuses \cup {"None"}]
  BY RoundsAreQuiet
  DEF ReaderType, ChallengingType, RecordsType, ReaderQuiet, hubVars, BondsInv
<1>2. ASSUME call.at # "wait", UNCHANGED mempool, NEW new, SetChallenging(slot, new),
             \A c \in Challenges : challenges'[c] = "None" => challenges[c] = "None",
             call.at = "insert" => challenges'[call.outcome] # "None"
      PROVE  BondsInv'
  <2>1. \A q \in ChallengeSlots : q = slot \/ challenging'[q] = challenging[q]
    BY <1>2, OneCallChanges
  <2> QED
    BY <1>1, <1>2, <2>1, CallsGoOn DEF PooledChallenges
<1>3. ASSUME MaybeChallengeActor(slot) PROVE BondsInv'
  BY <1>2, <1>3 DEF MaybeChallengeActor, dbVars
<1>4. ASSUME ChallengeActor(slot) PROVE BondsInv'
  <2> DEFINE tx == Tx("challenge", slot, call.target)
             new == [call EXCEPT !.at = "wait"]
  <2>1. call.at = "send" /\ UNCHANGED challenges
    BY <1>4 DEF ChallengeActor, dbVars
  <2>2. \/ UNCHANGED mempool /\ \E other : SetChallenging(slot, other)
        \/ mempool' = mempool \cup {tx} /\ SetChallenging(slot, new)
    BY <1>4 DEF ChallengeActor
  <2>3. ASSUME UNCHANGED mempool, NEW other, SetChallenging(slot, other) PROVE BondsInv'
    BY <1>2, <2>1, <2>3
  <2>4. ASSUME mempool' = mempool \cup {tx}, SetChallenging(slot, new) PROVE BondsInv'
    <3>1. \A q \in ChallengeSlots : q # slot => challenging'[q] = challenging[q]
      BY <2>4, OneCallChanges
    <3>2. challenging'[slot].at = "wait" /\ challenging'[slot].target = call.target
      <4>1. challenging'[slot] = new
        BY <2>4, OneCallChanges
      <4>2. new.at = "wait" /\ new.target = call.target
        BY <1>1 DEF ChallengeCall
      <4> QED
        BY <4>1, <4>2
    <3>3. tx.call = "challenge" /\ tx.slot = slot /\ tx.target = call.target /\ tx.attempt = faults
      BY DEF Tx
    <3>4. faults \in Nat /\ ~(faults < faults)
      BY <1>1 DEF PoolType
    <3>5. PooledChallenges' = PooledChallenges \cup {tx}
      BY <2>4, <3>3 DEF PooledChallenges
    <3>6. Awaited' \subseteq Awaited \cup {tx} /\ IsFiniteSet(mempool')
      BY <1>1, <2>4, <3>5, FS_AddElement DEF Awaited
    <3>7. ASSUME NEW n \in Networks PROVE FewAreLost(n)'
      <4>1. Orphans(n)' = Orphans(n)
        BY <1>1, <3>3, <3>4, <3>5 DEF Orphans
      <4>2. ASSUME NEW r \in AtInsert(n) PROVE challenging'[<<r, n>>] = challenging[<<r, n>>]
        <5>1. <<r, n>> \in ChallengeSlots /\ challenging[<<r, n>>].at = "insert"
          BY DEF AtInsert, ChallengeSlots
        <5> QED
          BY <2>1, <3>1, <5>1
      <4>3. Inserting(n) \subseteq Inserting(n)'
        BY <4>2 DEF Inserting, AtInsert
      <4>4. Lost(n)' \subseteq Lost(n)
        BY <1>1, <2>1, <4>3, LostShrinks
      <4> QED
        BY <1>1, <3>6, <4>1, <4>4, NothingIsLost
    <3>8. ASSUME NEW other \in Awaited PROVE IsWaiting(challenging[other.slot], other)'
      <4>1. IsWaiting(challenging[other.slot], other) /\ other.slot \in ChallengeSlots
        BY DEF BondsInv, AwaitedAreWaitedFor, Awaited, PooledChallenges, ReaderType, PoolType,
           ChallengeTxs, SlashTxs
      <4>2. challenging'[other.slot] = challenging[other.slot]
        BY <2>1, <3>1, <4>1 DEF IsWaiting
      <4> QED
        BY <1>1, <4>1, <4>2 DEF IsWaiting
    <3>9. IsWaiting(challenging'[tx.slot], tx) /\ UNCHANGED faults
      BY <1>1, <3>2, <3>3 DEF IsWaiting
    <3>10. AwaitedAreWaitedFor'
      BY <3>6, <3>8, <3>9 DEF AwaitedAreWaitedFor, IsWaiting
    <3> QED
      BY <3>6, <3>7, <3>10 DEF BondsInv
  <2> QED
    BY <2>2, <2>3, <2>4
<1>5. ASSUME InsertChallengePending(slot) PROVE BondsInv'
  <2> DEFINE c == call.outcome
  <2>1. c \in Challenges /\ call.at = "insert"
    BY <1>1, <1>5 DEF InsertChallengePending, ChallengeCall, ChallengesOf
  <2>2. /\ \A d \in Challenges : challenges'[d] = "None" => challenges[d] = "None"
        /\ challenges'[c] # "None"
    BY <1>1, <1>5, <2>1 DEF InsertChallengePending, UpdateChallenge
  <2>3. PICK new : SetChallenging(slot, new)
    BY <1>5 DEF InsertChallengePending
  <2> QED
    BY <1>2, <1>5, <2>1, <2>2, <2>3 DEF InsertChallengePending
<1>6. ASSUME MarkChallenged(slot) PROVE BondsInv'
  BY <1>2, <1>6 DEF MarkChallenged
<1> QED
  BY <1>3, <1>4, <1>5, <1>6 DEF ChallengeCallStep

\* A challenge is opened where its transaction was sent.
LEMMA MineChallengeBonds ==
    ASSUME ReaderType, BondsInv, NEW tx \in mempool, MineChallenge(tx)
    PROVE  BondsInv'
<1> DEFINE slot == tx.slot
           call == challenging[slot]
<1>1. /\ slot \in ChallengeSlots /\ call \in ChallengeCall(slot[2]) /\ tx \in ChallengeTxs
      /\ slot = <<slot[1], slot[2]>> /\ slot[1] \in ChallengeRounds /\ slot[2] \in Networks
  <2>1. tx \in ChallengeTxs
    BY DEF MineChallenge, ReaderType, PoolType, SlashTxs
  <2>2. slot \in ChallengeSlots
    BY <2>1 DEF ChallengeTxs
  <2> QED
    BY <2>1, <2>2 DEF ReaderType, ChallengingType, ChallengeSlots
<1>2. /\ PoolType /\ HubType /\ UNCHANGED <<faults, challenges>>
      /\ mempool' = mempool \ {tx} /\ tx.attempt <= faults /\ tx.attempt \in Nat /\ faults \in Nat
  BY <1>1 DEF MineChallenge, dbVars, ReaderType, PoolType, ChallengeTxs
<1>3. \/ tx \in Orphans(slot[2]) /\ tx \notin Awaited
      \/ tx \in Awaited /\ tx \notin Orphans(slot[2])
  <2>1. tx \in PooledChallenges
    BY DEF MineChallenge, PooledChallenges
  <2>2. \/ tx.attempt < faults /\ ~(tx.attempt = faults)
        \/ tx.attempt = faults /\ ~(tx.attempt < faults)
    BY <1>2
  <2> QED
    BY <2>1, <2>2 DEF Orphans, Awaited
<1>4. /\ \A n : Orphans(n)' = Orphans(n) \ {tx}
      /\ Awaited' = Awaited \ {tx} /\ IsFiniteSet(mempool')
  BY <1>2, FS_RemoveElement DEF Orphans, Awaited, PooledChallenges, BondsInv
\* What becomes of the call that sent it.
<1>5. \/ UNCHANGED challenging
      \/ IsWaiting(call, tx) /\ \E new : SetChallenging(slot, new)
  BY DEF MineChallenge
<1>6. \A q \in ChallengeSlots : \/ challenging'[q] = challenging[q]
                                \/ q = slot /\ IsWaiting(call, tx)
  BY <1>1, <1>5, OneCallChanges
<1>7. ASSUME NEW n \in Networks PROVE Inserting(n) \subseteq Inserting(n)'
  <2>1. ASSUME NEW r \in AtInsert(n) PROVE challenging'[<<r, n>>] = challenging[<<r, n>>]
    <3>1. <<r, n>> \in ChallengeSlots /\ challenging[<<r, n>>].at = "insert"
      BY DEF AtInsert, ChallengeSlots
    <3> QED
      BY <1>6, <3>1 DEF IsWaiting
  <2> QED
    BY <2>1 DEF Inserting, AtInsert
\* Two transactions that the same call awaits are the same.
<1>8. ASSUME NEW other \in Awaited, other # tx PROVE IsWaiting(challenging[other.slot], other)'
  <2>1. IsWaiting(challenging[other.slot], other) /\ other \in ChallengeTxs
    BY DEF BondsInv, AwaitedAreWaitedFor, Awaited, PooledChallenges, ReaderType, PoolType,
       ChallengeTxs, SlashTxs
  <2>2. ASSUME IsWaiting(call, tx), other.slot = slot PROVE FALSE
    <3>1. tx.target = other.target /\ tx.attempt = other.attempt
      BY <2>1, <2>2 DEF IsWaiting
    <3> QED
      BY <1>1, <1>8, <2>1, <2>2, <3>1 DEF ChallengeTxs
  <2>3. other.slot \in ChallengeSlots
    BY <2>1 DEF ChallengeTxs
  <2>4. challenging'[other.slot] = challenging[other.slot]
    BY <1>6, <2>2, <2>3
  <2> QED
    BY <1>2, <2>1, <2>4 DEF IsWaiting
<1>9. AwaitedAreWaitedFor'
  BY <1>4, <1>8 DEF AwaitedAreWaitedFor
<1>10. CASE UNCHANGED hubVars
  <2>1. ASSUME NEW n \in Networks PROVE FewAreLost(n)'
    <3>1. Lost(n)' \subseteq Lost(n)
      BY <1>2, <1>7, <1>10, LostShrinks DEF hubVars
    <3> QED
      BY <1>2, <1>4, <3>1, NothingIsLost
  <2> QED
    BY <1>4, <1>9, <2>1 DEF BondsInv
<1>11. CASE \E c \in NextChallenge(tx.target) :
               /\ Game!Open(c)
               /\ IsWaiting(call, tx) =>
                     SetChallenging(slot, [call EXCEPT !.at = "insert", !.outcome = c])
  <2>1. PICK c \in NextChallenge(tx.target) :
               /\ Game!Open(c)
               /\ IsWaiting(call, tx) =>
                     SetChallenging(slot, [call EXCEPT !.at = "insert", !.outcome = c])
    BY <1>11
  <2>2. \A d \in Challenges : stage'[d] # "None" => stage[d] # "None" \/ d = c
    BY <1>2, <2>1 DEF Game!Open, HubType
  <2>3. c.network = slot[2]
    <3>1. PairOf(c) = tx.target /\ tx.target.network = slot[2]
      BY <1>1, <2>1 DEF NextChallenge, ChallengesOf, ChallengeTxs
    <3>2. PairOf(c).network = c.network
      BY DEF PairOf
    <3> QED
      BY <3>1, <3>2
  <2>4. ASSUME NEW n \in Networks, n # slot[2] PROVE FewAreLost(n)'
    <3>1. Lost(n)' \subseteq Lost(n)
      BY <1>2, <1>7, <2>2, <2>3, <2>4 DEF Lost
    <3> QED
      BY <1>2, <1>4, <3>1, NothingIsLost
  <2>5. PICK n \in Networks : n = slot[2]
    BY <1>1
  <2>6. Lost(n)' \subseteq Lost(n) \cup {c}
    BY <1>2, <1>7, <2>2 DEF Lost
  <2>7. ASSUME tx \in Awaited PROVE FewAreLost(n)'
    <3>1. IsWaiting(call, tx)
      BY <2>7 DEF BondsInv, AwaitedAreWaitedFor
    <3>2. challenging'[slot].at = "insert" /\ challenging'[slot].outcome = c
      <4> DEFINE new == [call EXCEPT !.at = "insert", !.outcome = c]
      <4>1. new.at = "insert" /\ new.outcome = c
        BY <1>1 DEF ChallengeCall
      <4>2. challenging'[slot] = new
        BY <1>1, <2>1, <3>1, OneCallChanges
      <4> QED
        BY <4>1, <4>2
    <3>3. challenging'[<<slot[1], n>>].at = "insert" /\ challenging'[<<slot[1], n>>].outcome = c
      BY <1>1, <2>5, <3>2
    <3>4. c \in Inserting(n)'
      BY <1>1, <3>3 DEF Inserting, AtInsert
    <3>5. Lost(n)' \subseteq Lost(n)
      BY <2>6, <3>4 DEF Lost
    <3> QED
      BY <1>2, <1>4, <3>5, NothingIsLost
  <2>8. ASSUME tx \in Orphans(n) PROVE FewAreLost(n)'
    <3>1. /\ IsFiniteSet(Lost(n)) /\ Cardinality(Lost(n)) \in Nat
          /\ IsFiniteSet(Orphans(n)) /\ Cardinality(Orphans(n)) \in Nat
      BY LostIsFinite DEF BondsInv
    <3>2. Cardinality(Orphans(n)') = Cardinality(Orphans(n)) - 1
      BY <1>4, <2>8, <3>1, FS_RemoveElement
    <3>3. /\ IsFiniteSet(Lost(n) \cup {c}) /\ Cardinality(Lost(n) \cup {c}) \in Nat
          /\ Cardinality(Lost(n) \cup {c}) <= Cardinality(Lost(n)) + 1
      <4>1. /\ IsFiniteSet(Lost(n) \cup {c})
            /\ \/ Cardinality(Lost(n) \cup {c}) = Cardinality(Lost(n))
               \/ Cardinality(Lost(n) \cup {c}) = Cardinality(Lost(n)) + 1
        BY <3>1, FS_AddElement
      <4> QED
        BY <3>1, <4>1
    <3>4. /\ Cardinality(Lost(n)') <= Cardinality(Lost(n) \cup {c})
          /\ Cardinality(Lost(n)') \in Nat
      BY <2>6, <3>3, FS_Subset, FS_CardinalityType
    <3>5. PICK limit \in Nat : limit = faults * Cardinality(ChallengeRounds)
      BY <1>2, LossType
    <3>6. Cardinality(Lost(n)) + Cardinality(Orphans(n)) <= limit
      BY <3>5 DEF BondsInv, FewAreLost
    <3>7. Cardinality(Lost(n)') + Cardinality(Orphans(n)') <= limit
      BY <3>1, <3>2, <3>3, <3>4, <3>6
    <3> QED
      BY <1>2, <3>5, <3>7 DEF FewAreLost
  <2>9. \A other \in Networks : FewAreLost(other)'
    BY <1>3, <2>4, <2>5, <2>7, <2>8
  <2> QED
    BY <1>4, <1>9, <2>9 DEF BondsInv
<1> QED
  BY <1>10, <1>11 DEF MineChallenge

\* On a chain an exit loses at most one challenge, or transaction, for each round.
LEMMA ExitLosesOnePerRound ==
    ASSUME ReaderType, BondsInv, Exit, NEW n \in Networks
    PROVE  FewAreLost(n)'
<1>1. /\ faults \in Nat /\ faults' = faults + 1
      /\ UNCHANGED <<mempool, stage, challenges>>
      /\ \A tx \in mempool : tx.attempt <= faults
      /\ \A tx \in PooledChallenges : tx.attempt \in Nat /\ tx \in ChallengeTxs
  BY DEF Exit, hubVars, dbVars, ReaderType, PoolType, PooledChallenges, ChallengeTxs, SlashTxs
<1>2. Orphans(n)' \subseteq Orphans(n) \cup AwaitedOn(n)
  BY <1>1 DEF Orphans, Awaited, AwaitedOn, PooledChallenges
<1>3. Lost(n)' \subseteq Lost(n) \cup Inserting(n)
  BY <1>1 DEF Lost
<1>4. /\ IsFiniteSet(Lost(n)) /\ Cardinality(Lost(n)) \in Nat
      /\ IsFiniteSet(Orphans(n)) /\ Cardinality(Orphans(n)) \in Nat
      /\ IsFiniteSet(AwaitedOn(n)) /\ Cardinality(AwaitedOn(n)) \in Nat
      /\ Cardinality(ChallengeRounds) \in Nat
  BY LostIsFinite DEF BondsInv
<1>5. /\ IsFiniteSet(AtInsert(n)) /\ Cardinality(AtInsert(n)) \in Nat
      /\ IsFiniteSet(AtWait(n)) /\ Cardinality(AtWait(n)) \in Nat
      /\ Cardinality(AtInsert(n)) + Cardinality(AtWait(n)) <= Cardinality(ChallengeRounds)
  <2>1. AtInsert(n) \in SUBSET ChallengeRounds /\ AtWait(n) \in SUBSET ChallengeRounds
    BY DEF AtInsert, AtWait
  <2>2. AtInsert(n) \cap AtWait(n) = {} /\ AtInsert(n) \cup AtWait(n) \in SUBSET ChallengeRounds
    BY DEF AtInsert, AtWait
  <2>3. IsFiniteSet(AtInsert(n)) /\ IsFiniteSet(AtWait(n))
    BY <2>1, ReaderAssumption, FS_Subset
  <2>4. Cardinality(AtInsert(n)) \in Nat /\ Cardinality(AtWait(n)) \in Nat
    BY <2>3, FS_CardinalityType
  <2>5. Cardinality(AtInsert(n) \cup AtWait(n)) = Cardinality(AtInsert(n)) + Cardinality(AtWait(n))
    <3>1. Cardinality(AtInsert(n) \cap AtWait(n)) = 0
      BY <2>2, FS_EmptySet
    <3>2. Cardinality(AtInsert(n) \cup AtWait(n)) =
             Cardinality(AtInsert(n)) + Cardinality(AtWait(n)) - Cardinality(AtInsert(n) \cap AtWait(n))
      BY <2>3, FS_Union
    <3> QED
      BY <2>4, <3>1, <3>2
  <2>6. Cardinality(AtInsert(n) \cup AtWait(n)) <= Cardinality(ChallengeRounds)
    BY <2>2, ReaderAssumption, FS_Subset
  <2> QED
    BY <2>3, <2>4, <2>5, <2>6
<1>6. /\ IsFiniteSet(Inserting(n)) /\ Cardinality(Inserting(n)) \in Nat
      /\ Cardinality(Inserting(n)) <= Cardinality(AtInsert(n))
  <2> DEFINE outcome == [r \in AtInsert(n) |-> challenging[<<r, n>>].outcome]
  <2>1. outcome \in Surjection(AtInsert(n), Inserting(n))
    BY DEF Inserting, Surjection
  <2>2. IsFiniteSet(Inserting(n)) /\ Cardinality(Inserting(n)) <= Cardinality(AtInsert(n))
    BY <1>5, <2>1, FS_Surjection
  <2> QED
    BY <2>2, FS_CardinalityType
<1>7. Cardinality(AwaitedOn(n)) <= Cardinality(AtWait(n))
  <2> DEFINE sender == [tx \in AwaitedOn(n) |-> tx.slot[1]]
  <2>1. ASSUME NEW tx \in AwaitedOn(n)
        PROVE  /\ tx \in ChallengeTxs /\ tx.call = "challenge" /\ tx.slot = <<tx.slot[1], n>>
               /\ IsWaiting(challenging[tx.slot], tx) /\ tx.slot[1] \in AtWait(n)
    <3>1. tx \in ChallengeTxs /\ tx.slot[2] = n /\ IsWaiting(challenging[tx.slot], tx)
      BY <1>1 DEF BondsInv, AwaitedAreWaitedFor, AwaitedOn, Awaited
    <3>2. tx.slot = <<tx.slot[1], n>> /\ tx.slot[1] \in ChallengeRounds /\ tx.call = "challenge"
      BY <3>1 DEF ChallengeTxs, ChallengeSlots
    <3> QED
      BY <3>1, <3>2 DEF IsWaiting, AtWait
  <2>2. ASSUME NEW tx \in AwaitedOn(n), NEW other \in AwaitedOn(n), tx.slot[1] = other.slot[1]
        PROVE  tx = other
    <3>1. tx.slot = other.slot
      BY <2>1, <2>2
    <3>2. tx.target = other.target /\ tx.attempt = other.attempt
      BY <2>1, <3>1 DEF IsWaiting
    <3> QED
      BY <2>1, <3>1, <3>2 DEF ChallengeTxs
  <2>3. sender \in Injection(AwaitedOn(n), AtWait(n))
    BY <2>1, <2>2 DEF Injection, IsInjective
  <2> QED
    BY <1>5, <2>3, FS_Injection
<1>8. /\ Cardinality(Lost(n)') \in Nat
      /\ Cardinality(Lost(n)') <= Cardinality(Lost(n)) + Cardinality(Inserting(n))
  <2>1. /\ IsFiniteSet(Lost(n) \cup Inserting(n))
        /\ Cardinality(Lost(n) \cup Inserting(n)) =
              Cardinality(Lost(n)) + Cardinality(Inserting(n)) - Cardinality(Lost(n) \cap Inserting(n))
    BY <1>4, <1>6, FS_Union
  <2>2. Lost(n) \cap Inserting(n) = {} /\ Cardinality(Lost(n) \cap Inserting(n)) = 0
    BY FS_EmptySet DEF Lost
  <2>3. IsFiniteSet(Lost(n)') /\ Cardinality(Lost(n)') <= Cardinality(Lost(n) \cup Inserting(n))
    BY <1>3, <2>1, FS_Subset
  <2> QED
    BY <1>4, <1>6, <2>1, <2>2, <2>3, FS_CardinalityType
<1>9. /\ Cardinality(Orphans(n)') \in Nat
      /\ Cardinality(Orphans(n)') <= Cardinality(Orphans(n)) + Cardinality(AwaitedOn(n))
  <2>1. /\ IsFiniteSet(Orphans(n) \cup AwaitedOn(n))
        /\ Cardinality(Orphans(n) \cup AwaitedOn(n)) =
              Cardinality(Orphans(n)) + Cardinality(AwaitedOn(n))
                 - Cardinality(Orphans(n) \cap AwaitedOn(n))
    BY <1>4, FS_Union
  <2>2. Orphans(n) \cap AwaitedOn(n) = {}
    BY <1>1 DEF Orphans, AwaitedOn, Awaited
  <2>3. Cardinality(Orphans(n) \cap AwaitedOn(n)) = 0
    BY <2>2, FS_EmptySet
  <2>4. /\ IsFiniteSet(Orphans(n)')
        /\ Cardinality(Orphans(n)') <= Cardinality(Orphans(n) \cup AwaitedOn(n))
    BY <1>2, <2>1, FS_Subset
  <2> QED
    BY <1>4, <2>1, <2>3, <2>4, FS_CardinalityType
<1>10. PICK rounds \in Nat : rounds = Cardinality(ChallengeRounds)
  BY <1>4
<1>11. Cardinality(Lost(n)') + Cardinality(Orphans(n)')
          <= Cardinality(Lost(n)) + Cardinality(Orphans(n)) + rounds
  BY <1>4, <1>5, <1>6, <1>7, <1>8, <1>9, <1>10
<1>12. PICK limit \in Nat : limit = faults * rounds /\ limit + rounds = faults' * rounds
  <2>1. \A x \in Nat, y \in Nat : x * y \in Nat /\ (x + 1) * y = x * y + y
    OBVIOUS
  <2> QED
    BY <1>1, <1>10, <2>1
<1>13. Cardinality(Lost(n)) + Cardinality(Orphans(n)) <= limit
  BY <1>10, <1>12 DEF BondsInv, FewAreLost
<1>14. Cardinality(Lost(n)') + Cardinality(Orphans(n)') <= limit + rounds
  BY <1>4, <1>8, <1>9, <1>10, <1>11, <1>12, <1>13
<1> QED
  BY <1>10, <1>12, <1>14 DEF FewAreLost

LEMMA ExitBonds ==
    ASSUME ReaderType, BondsInv, Exit
    PROVE  BondsInv'
<1>1. /\ faults \in Nat /\ faults' = faults + 1 /\ UNCHANGED mempool
      /\ \A tx \in mempool : tx.attempt <= faults
      /\ \A tx \in PooledChallenges : tx.attempt \in Nat
  BY DEF Exit, ReaderType, PoolType, PooledChallenges, ChallengeTxs, SlashTxs
<1>2. Awaited' = {}
  BY <1>1 DEF Awaited, PooledChallenges
<1>3. AwaitedAreWaitedFor'
  BY <1>2 DEF AwaitedAreWaitedFor
<1>4. \A n \in Networks : FewAreLost(n)'
  BY ExitLosesOnePerRound
<1> QED
  BY <1>1, <1>3, <1>4 DEF BondsInv

LEMMA BondsInit == ChallengerInit => BondsInv
<1> SUFFICES ASSUME ChallengerInit PROVE BondsInv
  OBVIOUS
<1>1. mempool = {} /\ faults = 0 /\ Awaited = {}
  BY DEF ChallengerInit, Init, Awaited, PooledChallenges
<1>2. ASSUME NEW n \in Networks PROVE FewAreLost(n)
  <2>1. Lost(n) = {} /\ Orphans(n) = {}
    BY <1>1 DEF ChallengerInit, Init, Game!Init, Lost, Orphans, PooledChallenges
  <2>2. Cardinality(ChallengeRounds) \in Nat
    BY ReaderAssumption, FS_CardinalityType
  <2> QED
    BY <1>1, <2>1, <2>2, FS_EmptySet DEF FewAreLost
<1> QED
  BY <1>1, <1>2, FS_EmptySet DEF BondsInv, AwaitedAreWaitedFor

\* Slashes have transactions of their own, and erase nothing.
LEMMA SlashStepBonds ==
    ASSUME ReaderType, BondsInv, NEW slot \in SlashSlots, SlashStep(slot)
    PROVE  BondsInv'
<1>1. /\ UNCHANGED <<challenging, faults, stage>> /\ IsFiniteSet(mempool)
      /\ PoolType /\ RecordsType /\ slashing[slot] \in SlashState
  BY RoundsAreQuiet DEF ReaderQuiet, hubVars, ReaderType, SlashingType, BondsInv
<1>2. ASSUME UNCHANGED mempool,
             \A c \in Challenges : challenges'[c] = "None" => challenges[c] = "None"
      PROVE  BondsInv'
  BY <1>1, <1>2, CallsGoOn DEF PooledChallenges
<1>3. ASSUME NEW c \in slashing[slot].todo, SlashByChallenge(slot, c) PROVE BondsInv'
  BY <1>2, <1>3 DEF SlashByChallenge, dbVars
<1>4. ASSUME SlashActorByChallenge(slot) PROVE BondsInv'
  <2> DEFINE tx == Tx("slash", slot, slashing[slot].target)
  <2>1. UNCHANGED challenges
    BY <1>4 DEF SlashActorByChallenge, dbVars
  <2>2. UNCHANGED mempool \/ mempool' = mempool \cup {tx}
    BY <1>4 DEF SlashActorByChallenge
  <2>3. ASSUME mempool' = mempool \cup {tx} PROVE BondsInv'
    <3>1. tx.call = "slash"
      BY DEF Tx
    <3>2. PooledChallenges' = PooledChallenges
      BY <2>3, <3>1 DEF PooledChallenges
    <3>3. IsFiniteSet(mempool')
      BY <1>1, <2>3, FS_AddElement
    <3> QED
      BY <1>1, <2>1, <3>2, <3>3, CallsGoOn
  <2> QED
    BY <1>2, <2>1, <2>2, <2>3
<1>5. ASSUME UpdateChallengeStatus(slot) PROVE BondsInv'
  <2>1. slashing[slot].outcome \in Outcomes
    BY <1>1, <1>5 DEF UpdateChallengeStatus, SlashState
  <2>2. slashing[slot].outcome[1] # "None"
    BY <2>1 DEF Outcomes
  <2>3. \A c \in Challenges : challenges'[c] = "None" => challenges[c] = "None"
    BY <1>1, <1>5, <2>2 DEF UpdateChallengeStatus, UpdateChallenge, RecordsType
  <2> QED
    BY <1>2, <1>5, <2>3 DEF UpdateChallengeStatus
<1>6. ASSUME MarkSlashed(slot) PROVE BondsInv'
  BY <1>2, <1>6 DEF MarkSlashed
<1> QED
  BY <1>3, <1>4, <1>5, <1>6 DEF SlashStep

LEMMA BondsStep == ReaderType /\ BondsInv /\ [Next]_challengerVars => BondsInv'
<1> SUFFICES ASSUME ReaderType, BondsInv, [Next]_challengerVars PROVE BondsInv'
  OBVIOUS
<1>1. PoolType /\ HubType /\ IsFiniteSet(mempool)
  BY DEF ReaderType, BondsInv
<1>2. ASSUME UNCHANGED <<challenging, faults, mempool, challenges>>,
             \A c \in Challenges : stage'[c] # "None" => stage[c] # "None"
      PROVE  BondsInv'
  BY <1>1, <1>2, CallsGoOn DEF PooledChallenges
<1>3. CASE ChallengerStep
  <2>1. CASE StoreActorsForCurrentEpoch \/ \E status \in topic : OnMessage(status)
    BY <1>2, <2>1 DEF StoreActorsForCurrentEpoch, OnMessage, hubVars, roundVars
  <2>2. CASE \E r \in SlashRounds : SlashingLoop(r)
    BY <1>2, <2>2, RoundsAreQuiet DEF ReaderQuiet, hubVars, dbVars
  <2> QED
    BY <1>3, <2>1, <2>2, ChallengeRoundStepBonds, ChallengeCallStepBonds, SlashStepBonds
    DEF ChallengerStep
<1>4. ASSUME NEW tx \in mempool, MineSlash(tx) PROVE BondsInv'
  <2>1. /\ UNCHANGED <<challenging, faults, challenges>>
        /\ tx.call = "slash" /\ mempool' = mempool \ {tx}
        /\ UNCHANGED stage \/ Game!Slash(tx.target)
    BY <1>4 DEF MineSlash, dbVars, hubVars
  <2>2. PooledChallenges' = PooledChallenges /\ IsFiniteSet(mempool')
    BY <1>1, <2>1, FS_RemoveElement DEF PooledChallenges
  <2>3. \A c \in Challenges : stage'[c] # "None" => stage[c] # "None"
    BY <1>1, <2>1 DEF Game!Slash, Game!Close, HubType
  <2> QED
    BY <1>1, <2>1, <2>2, <2>3, CallsGoOn
<1>5. CASE Others
  <2>1. UNCHANGED <<challenging, faults, mempool, challenges>>
    BY <1>5 DEF Others, dbVars, roundVars
  <2>2. PICK c, outcome : Game!Close(c, outcome)
    BY <1>5 DEF Others, Answers, OtherEnds, Game!Answer, Game!Slash, Game!SlashedByDAO
  <2>3. \A d \in Challenges : stage'[d] # "None" => stage[d] # "None"
    BY <1>1, <2>2 DEF Game!Close, HubType
  <2> QED
    BY <1>2, <2>1, <2>3
<1>6. CASE Emitter \/ Advance \/ UNCHANGED challengerVars
  <2>1. UNCHANGED <<challenging, faults, mempool, challenges, stage>>
    BY <1>6 DEF Emitter, Advance, Game!Advance, challengerVars, vars, hubVars, dbVars, roundVars
  <2> QED
    BY <1>2, <2>1
<1> QED
  BY <1>3, <1>4, <1>5, <1>6, MineChallengeBonds, ExitBonds DEF Next, Mining

(***************************************************************************)
(* The challenger loses sight of a bond it paid only by exiting between    *)
(* the transaction and insertChallengePending.  A round that an exit       *)
(* interrupts may have such a bond on each of the chains where it was      *)
(* challenging its actor, and at most one there, however late the          *)
(* transaction is mined (challengeActors, challengeActor).                 *)
(***************************************************************************)
THEOREM BondsStayTracked == Spec => []BondsAreTracked
<1>1. ASSUME BoundedType, BondsInv, [Next]_challengerVars PROVE BondsInv'
  BY <1>1, BondsStep DEF BoundedType
<1>2. ASSUME BoundedType, BondsInv PROVE BondsAreTracked
  <2> DEFINE Unseen(n) == {c \in Challenges :
                             c.network = n /\ stage[c] # "None" /\ challenges[c] = "None"}
             inserting == {challenging[slot].outcome :
                             slot \in {s \in ChallengeSlots : challenging[s].at = "insert"}}
  <2>1. ASSUME NEW n \in Networks
        PROVE  Cardinality(Unseen(n) \ inserting) <= faults * Cardinality(ChallengeRounds)
    <3>1. Inserting(n) \subseteq inserting
      <4>1. ASSUME NEW r \in AtInsert(n)
            PROVE  <<r, n>> \in ChallengeSlots /\ challenging[<<r, n>>].at = "insert"
        BY DEF AtInsert, ChallengeSlots
      <4> QED
        BY <4>1 DEF Inserting
    <3>2. Unseen(n) \ inserting \subseteq Lost(n)
      BY <3>1 DEF Lost
    <3>3. /\ IsFiniteSet(Lost(n)) /\ Cardinality(Lost(n)) \in Nat
          /\ Cardinality(Orphans(n)) \in Nat
      BY <1>2, LostIsFinite DEF BondsInv
    <3>4. /\ Cardinality(Unseen(n) \ inserting) <= Cardinality(Lost(n))
          /\ Cardinality(Unseen(n) \ inserting) \in Nat
      BY <3>2, <3>3, FS_Subset, FS_CardinalityType
    <3>5. PICK limit \in Nat : limit = faults * Cardinality(ChallengeRounds)
      BY <1>2, LossType DEF BoundedType, ReaderType, PoolType
    <3>6. Cardinality(Lost(n)) + Cardinality(Orphans(n)) <= limit
      BY <1>2, <3>5 DEF BondsInv, FewAreLost
    <3>7. Cardinality(Unseen(n) \ inserting) <= limit
      BY <3>3, <3>4, <3>6
    <3> QED
      BY <3>5, <3>7
  <2> QED
    BY <2>1 DEF BondsAreTracked
<1> QED
  BY <1>1, <1>2, BoundedTypeInit, BondsInit, BoundedTypeStep, PTL DEF Spec

=============================================================================
