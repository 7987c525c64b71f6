------------------------------ MODULE StateReader ------------------------------
(***************************************************************************)
(* ptokens-state-reader, the challenger.  One process reads the statuses   *)
(* of the actors, challenges those that fell behind and slashes those that *)
(* do not answer.  Its three activities interleave at every await, rounds  *)
(* of the same one overlap, and they share two collections: actors (a      *)
(* status per chain and the last sync state) and challenges.  It reads the *)
(* actors of the epoch and drops the collection of actors when it starts.  *)
(*                                                                         *)
(* The hubs are the ChallengeGame that PNetworkHub implements, where the   *)
(* actors answer and other challengers slash.                              *)
(***************************************************************************)
EXTENDS StateEmitter

CONSTANTS
    Null,
    Challenges,                 \* records [network, actor, nonce]
    Duration, EpochLength,      \* of ChallengeGame
    ActorsOf,                   \* epoch -> the actors that were propagated for it
    IgnoredActors,
    FireChallengeThreshold,     \* time an actor may be behind
    ChallengeRounds,            \* 1..n: the rounds of challenges that may overlap
    SlashRounds,                \* 1..n: those of slashes
    MaxFaults,                  \* bound on what goes wrong with the process
    MaxTime,                    \* bound
    Bounds                      \* bounds, of which a behaviour keeps to one: the chains that
                                \* the process supports, [chains, challenges, slashRounds, time]

ASSUME ReaderAssumption ==
    /\ \A c \in Challenges : c.network \in Networks /\ c.actor \in Actors /\ c.nonce \in Nat
    /\ \A e \in DOMAIN ActorsOf : e \in Nat /\ ActorsOf[e] \subseteq Actors
    /\ IsFiniteSet(Challenges) /\ IsFiniteSet(ChallengeRounds)
    /\ Duration \in Nat /\ EpochLength \in Nat \ {0}
    /\ FireChallengeThreshold \in Nat
    /\ MaxTime \in Nat
    /\ Bounds \subseteq [chains : SUBSET Networks, challenges : SUBSET Challenges,
                         slashRounds : SUBSET SlashRounds, time : 0..MaxTime]

VARIABLES
    stage, openedAt,        \* the challenges on the hubs, see ChallengeGame
    actorStatus, syncState, \* collection of actors
    challenges,             \* collection of challenges: their status
    epoch,                  \* of the actors the process works with; Null: it is down
    challengeRound,         \* its rounds of challenges
    challenging, slashing,  \* on every chain: a round's call, and the slashes it makes in turn
    mempool, faults,
    bound                   \* never changes

hubVars == <<stage, openedAt>>
dbVars == <<actorStatus, syncState, challenges>>
roundVars == <<challengeRound, challenging, slashing>>
vars == <<clock, emitterVars, hubVars, dbVars, epoch, roundVars, mempool, faults>>

Game == INSTANCE ChallengeGame

ActorStatuses == {"Active", "Challenged", "Inactive"}

ChallengeStatuses ==
    {"Null", "Pending", "Solved", "Unsolved", "PartiallyUnsolved", "Cancelled"}

Pairs == [actor: Actors, network: Networks]
PairOf(c) == [actor |-> c.actor, network |-> c.network]

\* What a round does on a chain.
ChallengeSlots == ChallengeRounds \X Networks
SlashSlots == SlashRounds \X Networks

\* A round that waits for its timer.
Idle == [at |-> "idle", todo |-> {}, latest |-> [n \in Networks |-> 0]]

\* What it does then on a chain.
AtRest == [at |-> "rest", todo |-> {}, target |-> Null, outcome |-> Null]

\* Of an actor that has no document the status is undefined.
NoActors ==
    [status |-> [pair \in Pairs |-> "Undefined"], syncState |-> [pair \in Pairs |-> Null]]

DropActorsStorage == actorStatus' = NoActors.status /\ syncState' = NoActors.syncState

Init ==
    /\ EmitterInit
    /\ Game!Init
    /\ actorStatus = NoActors.status /\ syncState = NoActors.syncState
    /\ challenges = [c \in Challenges |-> "None"]
    /\ epoch = Null
    /\ challengeRound = [r \in ChallengeRounds |-> Idle]
    /\ challenging = [slot \in ChallengeSlots |-> AtRest]
    /\ slashing = [slot \in SlashSlots |-> AtRest]
    /\ mempool = {}
    /\ faults = 0
    /\ bound \in Bounds

(***************************************************************************)
(* The process.  Its start fails unless the propagation it finds is of the *)
(* current epoch.  Here an epoch has one propagation, at its beginning; the*)
(* code takes the oldest event of the newest 10000 blocks that have one, be*)
(* there later ones or not.                                                *)
(***************************************************************************)
LastActorsPropagated == {e \in DOMAIN ActorsOf : e <= Game!Epoch(clock)}

CheckEpoch == Game!Epoch(clock) \in LastActorsPropagated

StoreActorsForCurrentEpoch ==
    /\ epoch = Null /\ CheckEpoch
    /\ epoch' = Game!Epoch(clock)
    /\ DropActorsStorage
    /\ UNCHANGED <<clock, emitterVars, hubVars, challenges, roundVars, mempool, faults>>

\* Most errors reject a promise that nobody handles, which ends the process.
Exit ==
    /\ epoch # Null /\ faults < MaxFaults
    /\ faults' = faults + 1
    /\ epoch' = Null
    /\ challengeRound' = [r \in ChallengeRounds |-> Idle]
    /\ challenging' = [slot \in ChallengeSlots |-> AtRest]
    /\ slashing' = [slot \in SlashSlots |-> AtRest]
    /\ UNCHANGED <<clock, emitterVars, hubVars, dbVars, mempool>>

KnownActors == IF epoch = Null THEN {} ELSE ActorsOf[epoch]

\* The actors with a proof, made from all of them: they stand for its root.
ProofsByActor == [a \in KnownActors |-> KnownActors]

UpdateActorStatus(pair, new) == actorStatus' = [actorStatus EXCEPT ![pair] = new]

UpdateChallenge(c, new) == challenges' = [challenges EXCEPT ![c] = new]

(***************************************************************************)
(* A status is taken as it comes, older or newer than the one before.      *)
(***************************************************************************)
RefreshActorStatus(actor, state) ==
    /\ actorStatus' = [pair \in Pairs |->
                         IF pair.actor = actor THEN "Active" ELSE actorStatus[pair]]
    /\ syncState' = [pair \in Pairs |->
                       IF pair.actor = actor THEN state[pair.network] ELSE syncState[pair]]

VerifySignature(status) == status.signature = status.signerAddress

OnMessage(status) ==
    /\ epoch # Null
    /\ status \in topic
    /\ topic' = topic \ {status}
    /\ IF status.signerAddress \in KnownActors /\ VerifySignature(status)
       THEN RefreshActorStatus(status.signerAddress, status.syncState)
       ELSE UNCHANGED <<actorStatus, syncState>>
    /\ UNCHANGED <<clock, cycles, building, hubVars, challenges, epoch, roundVars, mempool, faults>>

(***************************************************************************)
(* The hubs.                                                               *)
(***************************************************************************)
ChallengesOf(pair) == {c \in Challenges : PairOf(c) = pair}

IsChallenged(pair) == \E c \in ChallengesOf(pair) : stage[c] = "Open" /\ Game!SameEpoch(c)

NextChallenge(pair) ==
    {c \in ChallengesOf(pair) \cap bound.challenges :
        /\ stage[c] = "None"
        /\ \A other \in ChallengesOf(pair) : stage[other] = "None" => c.nonce <= other.nonce}

\* The proof is made from the actors of the epoch in which the process was started.
ChallengeError(pair) ==
    IF Game!Epoch(clock) \notin DOMAIN ActorsOf
          \/ ActorsOf[Game!Epoch(clock)] # ProofsByActor[pair.actor]
    THEN "InvalidActor"
    ELSE IF IsChallenged(pair) THEN "ActorAlreadyChallenged"
    ELSE IF NextChallenge(pair) = {} THEN "Bound" ELSE "None"

SlashError(c) ==
    IF ~Game!SameEpoch(c) THEN "ChallengeNotFound"
    ELSE CASE stage[c] = "Forfeited" -> "ChallengeSolved"
           [] stage[c] = "Slashed" -> "ChallengeUnsolved"
           [] stage[c] = "Superseded" -> "ChallengeCancelled"
           [] OTHER -> IF clock <= openedAt[c] + Duration
                       THEN "MaxChallengeDurationNotPassed" ELSE "None"

(***************************************************************************)
(* Rounds.  A round works on all chains at once; on one of them it handles *)
(* a pair or a challenge at a time.                                        *)
(***************************************************************************)
Tx(call, slot, target) == [call |-> call, slot |-> slot, target |-> target, attempt |-> faults]

IsWaiting(state, tx) == state.at = "wait" /\ state.target = tx.target /\ tx.attempt = faults

Rests(states, r) == \A n \in Networks : states[<<r, n>>] = AtRest

ReaderQuiet == UNCHANGED <<clock, emitterVars, hubVars, epoch, faults>>

(***************************************************************************)
(* Challenges.  The blocks of the chains are read before the statuses.  The*)
(* actors are challenged in turn, each on all the chains where it is behind*)
(* at once: the next one when all these calls are over.                    *)
(***************************************************************************)
SetChallengeRound(r, round) == challengeRound' = [challengeRound EXCEPT ![r] = round]

SetChallenging(slot, call) == challenging' = [challenging EXCEPT ![slot] = call]

IsOver(r) == challengeRound[r] = Idle /\ Rests(challenging, r)

LatestBlockNumbersByNetworkId == [n \in Networks |-> LatestBlockNumber(n)]

\* The timer starts a round, be those before over or not (bound: until the first fault).
StartChallenger(r) ==
    /\ epoch # Null /\ IsOver(r)
    /\ \A earlier \in 1..r - 1 : ~IsOver(earlier) /\ faults = 0
    /\ SetChallengeRound(r, [Idle EXCEPT !.at = "filter", !.latest = LatestBlockNumbersByNetworkId])
    /\ ReaderQuiet /\ UNCHANGED <<dbVars, challenging, slashing, mempool>>

\* The time between blocks, measured when the process starts, is the true one here.
AvgBlockTime(network) == BlockTime[network]

BlockThresholds == [n \in Networks |-> FireChallengeThreshold \div AvgBlockTime(n)]

\* Mistake: an actor that sent no status is taken for one that is up to date.
MutIsLastBlockNumberOverThreshold(pair, latest) ==
    syncState[pair] # Null /\ latest[pair.network] - syncState[pair] > BlockThresholds[pair.network]

IsLastBlockNumberOverThreshold(pair, latest) ==
    \/ syncState[pair] = Null
    \/ latest[pair.network] - syncState[pair] > BlockThresholds[pair.network]

InactiveNetworkIds(actor, latest) ==
    {n \in bound.chains : IsLastBlockNumberOverThreshold([actor |-> actor, network |-> n], latest)}

InactiveActors(latest) == {a \in KnownActors : InactiveNetworkIds(a, latest) # {}}

\* The round goes on with the pairs that are left.
Continue(todo) == IF todo = {} THEN Idle ELSE [Idle EXCEPT !.at = "actors", !.todo = todo]

\* Of those that are not ignored, each on all the chains where it is inactive.
FilterForInactiveActors(r) ==
    LET latest == challengeRound[r].latest
        relevant == InactiveActors(latest) \ IgnoredActors
        pairs == {[actor |-> a, network |-> n] : a \in relevant, n \in Networks}
    IN
    /\ challengeRound[r].at = "filter"
    /\ SetChallengeRound(r, Continue(
          {pair \in pairs : pair.network \in InactiveNetworkIds(pair.actor, latest)}))
    /\ ReaderQuiet /\ UNCHANGED <<dbVars, challenging, slashing, mempool>>

\* startChallenge begins on every chain where the actor was found to be inactive.
ChallengeNextActor(r, actor) ==
    LET todo == challengeRound[r].todo
        pairs == {pair \in todo : pair.actor = actor}
    IN
    /\ challengeRound[r].at = "actors" /\ pairs # {} /\ Rests(challenging, r)
    /\ SetChallengeRound(r, Continue(todo \ pairs))
    /\ challenging' =
          [slot \in ChallengeSlots |->
             IF slot[1] = r /\ [actor |-> actor, network |-> slot[2]] \in pairs
             THEN [AtRest EXCEPT !.at = "check", !.target = [actor |-> actor, network |-> slot[2]]]
             ELSE challenging[slot]]
    /\ ReaderQuiet /\ UNCHANGED <<dbVars, slashing, mempool>>

IsActorStatusActive(pair) == actorStatus[pair] \in {"Active", "Undefined"}

MaybeChallengeActor(slot) ==
    /\ challenging[slot].at = "check"
    /\ SetChallenging(slot, IF IsActorStatusActive(challenging[slot].target)
                            THEN [challenging[slot] EXCEPT !.at = "send"] ELSE AtRest)
    /\ ReaderQuiet /\ UNCHANGED <<dbVars, challengeRound, slashing, mempool>>

\* Mistake: whatever the error, the actor is taken to be challenged.
MutStartChallengeError(call, error) == [call EXCEPT !.at = "mark"]

\* A challenge that others opened is recorded on the actor; other errors are logged.
StartChallengeError(call, error) ==
    IF error = "ActorAlreadyChallenged" THEN [call EXCEPT !.at = "mark"] ELSE AtRest

\* Nothing is sent if gas estimation finds that the call reverts.
ChallengeActor(slot) ==
    LET call == challenging[slot]
        error == ChallengeError(call.target)
    IN
    /\ call.at = "send"
    /\ \/ /\ error = "None"
          /\ mempool' = mempool \cup {Tx("challenge", slot, call.target)}
          /\ SetChallenging(slot, [call EXCEPT !.at = "wait"])
       \/ /\ error # "None"
          /\ SetChallenging(slot, StartChallengeError(call, error))
          /\ UNCHANGED mempool
    /\ ReaderQuiet /\ UNCHANGED <<dbVars, challengeRound, slashing>>

\* A transaction that is reverted when it is mined has no error to parse: it is logged.
MineChallenge(tx) ==
    LET call == challenging[tx.slot] IN
    /\ tx \in mempool /\ tx.call = "challenge"
    /\ mempool' = mempool \ {tx}
    /\ \/ /\ IsChallenged(tx.target) \/ NextChallenge(tx.target) = {}
          /\ IF IsWaiting(call, tx) THEN SetChallenging(tx.slot, AtRest) ELSE UNCHANGED challenging
          /\ UNCHANGED <<clock, hubVars>>
       \/ \E c \in NextChallenge(tx.target) :
          /\ ~IsChallenged(tx.target)
          /\ Game!Open(c)
          /\ IF IsWaiting(call, tx)
             THEN SetChallenging(tx.slot, [call EXCEPT !.at = "insert", !.outcome = c])
             ELSE UNCHANGED challenging
    /\ UNCHANGED <<emitterVars, dbVars, epoch, challengeRound, slashing, faults>>

\* Mistake: the actor is marked, the challenge is not stored.
MutInsertChallengePending(slot) ==
    /\ challenging[slot].at = "insert"
    /\ SetChallenging(slot, [challenging[slot] EXCEPT !.at = "mark"])
    /\ ReaderQuiet /\ UNCHANGED <<dbVars, challengeRound, slashing, mempool>>

InsertChallengePending(slot) ==
    LET c == challenging[slot].outcome IN
    /\ challenging[slot].at = "insert"
    /\ UpdateChallenge(c, IF challenges[c] = "None" THEN "Pending" ELSE challenges[c])
    /\ SetChallenging(slot, [challenging[slot] EXCEPT !.at = "mark"])
    /\ ReaderQuiet /\ UNCHANGED <<actorStatus, syncState, challengeRound, slashing, mempool>>

MarkChallenged(slot) ==
    /\ challenging[slot].at = "mark"
    /\ UpdateActorStatus(challenging[slot].target, "Challenged")
    /\ SetChallenging(slot, AtRest)
    /\ ReaderQuiet /\ UNCHANGED <<challenges, syncState, challengeRound, slashing, mempool>>

(***************************************************************************)
(* Slashing.  The pending challenges of one chain are handled in turn.     *)
(***************************************************************************)
SetSlashing(slot, state) == slashing' = [slashing EXCEPT ![slot] = state]

GetPendingChallenges == {c \in Challenges : challenges[c] = "Pending"}

Slashes(todo) == IF todo = {} THEN AtRest ELSE [AtRest EXCEPT !.at = "next", !.todo = todo]

Done(state) == Slashes(state.todo \ {state.target})

\* The timer starts a round, be those before over or not (bound: until the first fault).
SlashingLoop(r) ==
    /\ epoch # Null /\ Rests(slashing, r) /\ r \in bound.slashRounds
    /\ \A earlier \in 1..r - 1 : ~Rests(slashing, earlier) /\ faults = 0
    /\ GetPendingChallenges # {}
    /\ slashing' =
          [slot \in SlashSlots |->
             IF slot[1] = r
             THEN Slashes({c \in GetPendingChallenges : c.network = slot[2]}) ELSE slashing[slot]]
    /\ ReaderQuiet /\ UNCHANGED <<dbVars, challengeRound, challenging, mempool>>

ChallengeDurations == [n \in Networks |-> Duration]

\* The clock of the process is that of the chain here.
IsExpired(c) == clock > openedAt[c] + ChallengeDurations[c.network]

IsActorStatusChallenged(pair) == actorStatus[pair] \in {"Challenged", "Undefined"}

MaySlash(c) ==
    c.actor \notin IgnoredActors /\ IsExpired(c) /\ IsActorStatusChallenged(PairOf(c))

\* The time is compared, and the status of the actor read.
SlashByChallenge(slot, c) ==
    LET state == [slashing[slot] EXCEPT !.target = c] IN
    /\ state.at = "next" /\ c \in state.todo
    /\ SetSlashing(slot, IF MaySlash(c) THEN [state EXCEPT !.at = "send"] ELSE Done(state))
    /\ ReaderQuiet /\ UNCHANGED <<dbVars, challengeRound, challenging, mempool>>

\* Mistake: the two statuses are swapped.
MutOutcomeOf(error) ==
    CASE error = "ChallengeSolved" -> <<"Active", "Solved">>
      [] error = "ChallengeUnsolved" -> <<"Inactive", "Unsolved">>
      [] error = "ChallengeCancelled" -> <<"Cancelled", Null>>
      [] error = "ChallengeNotFound" -> <<"Active", "Null">>
      [] OTHER -> Null

\* The status of the challenge and the one of its actor, which stays if it is Null.
OutcomeOf(error) ==
    CASE error = "ChallengeSolved" -> <<"Solved", "Active">>
      [] error = "ChallengeUnsolved" -> <<"Unsolved", "Inactive">>
      [] error = "ChallengeCancelled" -> <<"Cancelled", Null>>
      [] error = "ChallengeNotFound" -> <<"Null", "Active">>
      [] OTHER -> Null

\* What becomes of a challenge whose slash fails when gas is estimated.
SlashErrorHandler(state, error) ==
    IF OutcomeOf(error) = Null THEN Done(state)
    ELSE [state EXCEPT !.at = "record", !.outcome = OutcomeOf(error)]

WasSlashed == <<"Unsolved", "Inactive">>

\* Mistake: the slash is recorded when its transaction is sent.
MutSlashActorByChallenge(slot) ==
    LET state == slashing[slot]
        error == SlashError(state.target)
    IN
    /\ state.at = "send"
    /\ \/ /\ error = "None"
          /\ mempool' = mempool \cup {Tx("slash", slot, state.target)}
          /\ SetSlashing(slot, [state EXCEPT !.at = "record", !.outcome = WasSlashed])
       \/ /\ error # "None"
          /\ SetSlashing(slot, SlashErrorHandler(state, error))
          /\ UNCHANGED mempool
    /\ ReaderQuiet /\ UNCHANGED <<dbVars, challengeRound, challenging>>

SlashActorByChallenge(slot) ==
    LET state == slashing[slot]
        error == SlashError(state.target)
    IN
    /\ state.at = "send"
    /\ \/ /\ error = "None"
          /\ mempool' = mempool \cup {Tx("slash", slot, state.target)}
          /\ SetSlashing(slot, [state EXCEPT !.at = "wait"])
       \/ /\ error # "None"
          /\ SetSlashing(slot, SlashErrorHandler(state, error))
          /\ UNCHANGED mempool
    /\ ReaderQuiet /\ UNCHANGED <<dbVars, challengeRound, challenging>>

MineSlash(tx) ==
    LET state == slashing[tx.slot]
        error == SlashError(tx.target)
        slashed == [state EXCEPT !.at = "record", !.outcome = WasSlashed]
    IN
    /\ tx \in mempool /\ tx.call = "slash"
    /\ mempool' = mempool \ {tx}
    /\ \/ /\ error # "None"
          /\ IF IsWaiting(state, tx) THEN SetSlashing(tx.slot, Done(state)) ELSE UNCHANGED slashing
          /\ UNCHANGED <<clock, hubVars>>
       \/ /\ error = "None"
          /\ Game!Slash(tx.target)
          /\ IF IsWaiting(state, tx) THEN SetSlashing(tx.slot, slashed) ELSE UNCHANGED slashing
    /\ UNCHANGED <<emitterVars, dbVars, epoch, challengeRound, challenging, faults>>

UpdateChallengeStatus(slot) ==
    LET state == slashing[slot] IN
    /\ state.at = "record"
    /\ UpdateChallenge(state.target, state.outcome[1])
    /\ SetSlashing(slot, IF state.outcome[2] = Null THEN Done(state) ELSE [state EXCEPT !.at = "mark"])
    /\ ReaderQuiet /\ UNCHANGED <<actorStatus, syncState, challengeRound, challenging, mempool>>

MarkSlashed(slot) ==
    LET c == slashing[slot].target IN
    /\ slashing[slot].at = "mark"
    /\ UpdateActorStatus(PairOf(c), slashing[slot].outcome[2])
    /\ SetSlashing(slot, Done(slashing[slot]))
    /\ ReaderQuiet /\ UNCHANGED <<challenges, syncState, challengeRound, challenging, mempool>>

===============================================================================
