------------------------------ MODULE StateEmitter ------------------------------
(***************************************************************************)
(* ptokens-state-emitter: an actor publishes, at an interval, the last     *)
(* block it knows of each chain it supports.  A cycle does not wait for    *)
(* the one before, and publication over IPFS is a best effort: statuses    *)
(* are lost and overtake each other.  A chain mines its blocks at constant *)
(* intervals, so that the number of its last block follows from the time.  *)
(***************************************************************************)
EXTENDS Integers, FiniteSets

CONSTANTS
    Networks,       \* the supported chains
    BlockTime,      \* network -> the time between two of its blocks
    Actors,
    MaxCycles       \* bound on the cycles of all actors

ASSUME EmitterAssumption ==
    BlockTime \in [Networks -> Nat \ {0}] /\ MaxCycles \in Nat

VARIABLES
    clock,
    cycles,         \* how many have begun
    building,       \* statuses of cycles that did not end yet
    topic           \* statuses published and not delivered yet

emitterVars == <<cycles, building, topic>>

LatestBlockNumber(network) == clock \div BlockTime[network]

(***************************************************************************)
(* The status object: of the data of the last block its number is what the *)
(* state reader looks at.  The address that is recovered from the signature*)
(* stands for the signature.                                               *)
(***************************************************************************)
GetSyncState(network) == LatestBlockNumber(network)

GetSyncStateByNetworkId == [network \in Networks |-> GetSyncState(network)]

BuildStatusObject(actor) == [signerAddress |-> actor, syncState |-> GetSyncStateByNetworkId]

SignStatusObject(actor, status) ==
    [signerAddress |-> status.signerAddress, syncState |-> status.syncState, signature |-> actor]

\* The schema of a status.
StatusObjects ==
    [signerAddress : Actors, syncState : [Networks -> 0..clock], signature : Actors]

EmitterInit == cycles = 0 /\ building = {} /\ topic = {}

\* The blocks of the chains are read at the beginning of a cycle.
Cycle(actor) ==
    /\ cycles < MaxCycles
    /\ cycles' = cycles + 1
    /\ building' = building \cup {SignStatusObject(actor, BuildStatusObject(actor))}
    /\ UNCHANGED topic

\* Nobody waits for the daemon, nor looks at its answer.
Pub(status) == topic' = topic \cup {status}

PublishStatusObject(status) ==
    /\ status \in building
    /\ building' = building \ {status}
    /\ Pub(status)
    /\ UNCHANGED cycles

\* A cycle fails or is interrupted, and the process exits before it publishes.
ExitCycle(status) ==
    /\ status \in building
    /\ building' = building \ {status}
    /\ UNCHANGED <<cycles, topic>>

\* The message never gets to the reader.
LoseStatus(status) ==
    /\ status \in topic
    /\ topic' = topic \ {status}
    /\ UNCHANGED <<cycles, building>>

===============================================================================
