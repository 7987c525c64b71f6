------------------------------- MODULE Challenger -------------------------------
(***************************************************************************)
(* The challenger of StateReader among the actors whose statuses it reads, *)
(* the hubs and the other challengers.  A silent actor emits a status only *)
(* at the beginning and answers no challenge; of the others nothing is     *)
(* assumed, neither that they emit nor that they answer.  An actor that    *)
(* the process ignores is silent and emits nothing.                        *)
(***************************************************************************)
EXTENDS StateReader

CONSTANTS CycleTimes        \* when cycles of the actors that are not silent begin

VARIABLE silent

challengerVars == <<vars, bound, silent>>

ChallengerInit ==
    /\ Init
    /\ silent \in {s \in SUBSET Actors : IgnoredActors \subseteq s}

(***************************************************************************)
(* The actors, and what others do on the hubs.                             *)
(***************************************************************************)
Emitter ==
    /\ \/ \E a \in Actors :
             /\ a \notin IgnoredActors
             /\ clock \in IF a \in silent THEN {0} ELSE CycleTimes
             /\ Cycle(a)
       \/ \E status \in building : PublishStatusObject(status) \/ ExitCycle(status)
       \/ \E status \in topic : LoseStatus(status)
    /\ UNCHANGED <<clock, hubVars, dbVars, epoch, roundVars, mempool, faults>>

Answers(c) == c.actor \notin silent /\ Game!Answer(c)

OtherEnds(c) == Game!Slash(c) \/ Game!SlashedByDAO(c)

Others ==
    /\ \E c \in Challenges : Answers(c) \/ OtherEnds(c)
    /\ UNCHANGED <<emitterVars, dbVars, epoch, roundVars, mempool, faults>>

(***************************************************************************)
(* Rounds take far less time than epochs and challenges do: time waits for *)
(* the process at the last instant at which a silent actor can still be    *)
(* challenged to be slashed in this epoch, and at the last one at which it *)
(* can be slashed, if the process has what it needs to do it.              *)
(***************************************************************************)
SilentPairs ==
    {pair \in Pairs : pair.actor \in silent \ IgnoredActors /\ pair.network \in bound.chains}

LastInstant == (Game!Epoch(clock) + 1) * EpochLength - 1

\* Of this epoch.
InStage(c, s) == stage[c] = s /\ Game!SameEpoch(c)

\* Open on the hub; a crash made the process lose what it knew of it.
IsLost(c) ==
    /\ stage[c] = "Open" /\ challenges[c] = "None"
    /\ \A slot \in ChallengeSlots :
          ~(challenging[slot].at = "insert" /\ challenging[slot].outcome = c)

IsSettled(pair) ==
    \E c \in ChallengesOf(pair) :
        \/ InStage(c, "Slashed") \/ InStage(c, "Superseded")
        \/ InStage(c, "Open") /\ IsLost(c)

\* The process knows, or will when it is started, the actors the hubs know.
KnowsActors ==
    /\ Game!Epoch(clock) \in DOMAIN ActorsOf
    /\ epoch # Null => KnownActors = ActorsOf[Game!Epoch(clock)]

\* Whatever a silent actor emitted at the beginning, it is behind.
IsOverThreshold(pair) ==
    syncState[pair] = Null \/ LatestBlockNumber(pair.network) > BlockThresholds[pair.network]

\* In time, the pair must be challenged, or slashed.
MustSettle(pair) ==
    /\ KnowsActors
    /\ pair.actor \in ActorsOf[Game!Epoch(clock)]
    /\ \/ clock = LastInstant
          /\ \E c \in ChallengesOf(pair) : InStage(c, "Open") /\ clock > openedAt[c] + Duration
       \/ clock + Duration + 1 = LastInstant
          /\ NextChallenge(pair) # {} /\ ~IsChallenged(pair)
          /\ IsOverThreshold(pair)

Advance ==
    /\ clock < bound.time
    /\ \A pair \in SilentPairs : MustSettle(pair) => IsSettled(pair)
    /\ Game!Advance
    /\ UNCHANGED <<emitterVars, dbVars, epoch, roundVars, mempool, faults>>

ChallengeRoundStep(r) ==
    \/ StartChallenger(r) \/ FilterForInactiveActors(r)
    \/ \E a \in {pair.actor : pair \in challengeRound[r].todo} : ChallengeNextActor(r, a)

ChallengeCallStep(slot) ==
    \/ MaybeChallengeActor(slot) \/ ChallengeActor(slot)
    \/ InsertChallengePending(slot) \/ MarkChallenged(slot)

SlashStep(slot) ==
    \/ \E c \in slashing[slot].todo : SlashByChallenge(slot, c)
    \/ SlashActorByChallenge(slot) \/ UpdateChallengeStatus(slot) \/ MarkSlashed(slot)

ChallengerStep ==
    \/ StoreActorsForCurrentEpoch
    \/ \E status \in topic : OnMessage(status)
    \/ \E r \in ChallengeRounds : ChallengeRoundStep(r)
    \/ \E slot \in ChallengeSlots : ChallengeCallStep(slot)
    \/ \E r \in SlashRounds : SlashingLoop(r)
    \/ \E slot \in SlashSlots : SlashStep(slot)

Mining(n) == \E tx \in mempool : tx.slot[2] = n /\ (MineChallenge(tx) \/ MineSlash(tx))

Next ==
    /\ \/ ChallengerStep \/ Exit \/ Emitter \/ Others \/ Advance
       \/ \E n \in Networks : Mining(n)
    /\ UNCHANGED <<bound, silent>>

Spec == ChallengerInit /\ [][Next]_challengerVars

(***************************************************************************)
(* The process is started again after it exits and its timers fire, its    *)
(* transactions are mined, and time passes.                                *)
(***************************************************************************)
FairSpec ==
    /\ Spec
    /\ WF_vars(StoreActorsForCurrentEpoch)
    /\ \A r \in ChallengeRounds : WF_vars(ChallengeRoundStep(r))
    /\ \A slot \in ChallengeSlots : WF_vars(ChallengeCallStep(slot))
    /\ \A r \in SlashRounds : WF_vars(SlashingLoop(r))
    /\ \A slot \in SlashSlots : WF_vars(SlashStep(slot))
    /\ \A n \in Networks : WF_vars(Mining(n))
    /\ WF_vars(Advance)

(***************************************************************************)
(* Properties.                                                             *)
(***************************************************************************)
TypeOK ==
    /\ clock \in 0..MaxTime
    /\ epoch \in DOMAIN ActorsOf \cup {Null}
    /\ building \cup topic \subseteq StatusObjects
    /\ actorStatus \in [Pairs -> ActorStatuses \cup {"Undefined"}]
    /\ \A pair \in Pairs : syncState[pair] \in 0..MaxTime \cup {Null}
    /\ challenges \in [Challenges -> ChallengeStatuses \cup {"None"}]
    /\ \A r \in ChallengeRounds :
          /\ challengeRound[r].at \in {"idle", "filter", "actors"}
          /\ epoch = Null => challengeRound[r] = Idle
    /\ \A slot \in ChallengeSlots :
          /\ challenging[slot].at \in {"rest", "check", "send", "wait", "insert", "mark"}
          /\ epoch = Null => challenging[slot] = AtRest
    /\ \A slot \in SlashSlots :
          /\ slashing[slot].at \in {"rest", "next", "send", "wait", "record", "mark"}
          /\ epoch = Null => slashing[slot] = AtRest
    /\ \A tx \in mempool : tx.attempt <= faults

(***************************************************************************)
(* What is recorded of a challenge is true of its hub, although it is      *)
(* written after other rounds, answers and the DAO could change the hub.   *)
(***************************************************************************)
ChallengesFollowHub ==
    \A c \in Challenges :
        /\ challenges[c] = "Pending" => stage[c] # "None"
        /\ challenges[c] = "Solved" => stage[c] = "Forfeited"
        /\ challenges[c] = "Unsolved" => stage[c] = "Slashed"
        /\ challenges[c] = "Cancelled" => stage[c] = "Superseded"
        /\ challenges[c] = "Null" => ~Game!SameEpoch(c)

(***************************************************************************)
(* An actor is recorded as inactive only if it was slashed on that chain,  *)
(* and as challenged only if it is known to have been challenged there.    *)
(***************************************************************************)
ActorsFollowHub ==
    \A pair \in Pairs :
        LET stages == {stage[c] : c \in ChallengesOf(pair)} IN
        /\ actorStatus[pair] = "Inactive" => "Slashed" \in stages
        /\ actorStatus[pair] = "Challenged" => stages # {"None"}

(***************************************************************************)
(* The process loses sight of a bond it paid only by exiting: on a chain,  *)
(* of at most one challenge for each of the rounds that an exit interrupts.*)
(***************************************************************************)
BondsAreTracked ==
    \A n \in Networks :
        LET unseen == {c \in Challenges :
                         c.network = n /\ stage[c] # "None" /\ challenges[c] = "None"}
            atInsert == {slot \in ChallengeSlots : challenging[slot].at = "insert"}
            inserting == {challenging[slot].outcome : slot \in atInsert}
        IN Cardinality(unseen \ inserting) <= faults * Cardinality(ChallengeRounds)

(***************************************************************************)
(* A silent actor that the hubs know is slashed on every chain, by this    *)
(* process or another, unless a crash made it lose the challenge.  That is *)
(* said of the behaviours that last until the end of the first epoch.      *)
(***************************************************************************)
SilentActorsAreSlashed ==
    \A pair \in [actor: Actors \ IgnoredActors, network: Networks] :
        ( /\ pair.actor \in silent /\ pair.actor \in ActorsOf[0]
          /\ pair.network \in bound.chains /\ bound.time >= EpochLength )
        ~> \E c \in ChallengesOf(pair) : stage[c] \in {"Slashed", "Superseded"} \/ IsLost(c)

===============================================================================
