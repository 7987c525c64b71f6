----------------------------- MODULE GovernanceRelay -----------------------------
(***************************************************************************)
(* The way of governance messages from the interim chain to the hubs: the  *)
(* GovernanceMessageEmitter, the tasks of the governance message relayer,  *)
(* which operators run by hand, several at a time, and the                 *)
(* GovernanceMessageVerifier on Ethereum.                                  *)
(*                                                                         *)
(* propagate-actors reads the registrations of the current epoch and has   *)
(* the emitter send them to all hubs; verify-message proves to the verifier*)
(* that a transaction emitted a message, in a block of a checkpoint that   *)
(* the interim chain submitted to Ethereum; handle-telepathy carries       *)
(* messages to the hubs of test deployments, past the verifier.            *)
(***************************************************************************)
EXTENDS Integers, FiniteSets, SequencesExt

CONSTANTS
    Hubs, TestHubs,     \* all hubs, and those that take messages from handle-telepathy
    Tasks, Forced,      \* processes of propagate-actors, and those run with --force
    Actors,
    GuardianRegistrations, SentinelRegistrations,   \* logs [actor, startEpoch, endEpoch, ...]
    RegistrationOf,     \* the sentinel registration an actor has: [kind, startEpoch, endEpoch]
    StakedAmountOf,     \* actor -> epoch -> what it staked as a sentinel
    MinimumAmount,      \* a sentinel works with; what a borrowing one borrows
    OtherLists,         \* what others have the emitter propagate: [guardians, sentinels]
    Null,
    LastEpoch, MaxBlocks, MaxMessages,      \* bounds
    MaxRuns,            \* process of propagate-actors -> bound on the transactions it sends
    MaxLeaves           \* bound of ProofsIdentifyBlocks

Epochs == 0..LastEpoch

ASSUME RelayAssumption ==
    /\ TestHubs \subseteq Hubs /\ Forced \subseteq Tasks
    /\ IsFiniteSet(Actors)
    /\ IsFiniteSet(GuardianRegistrations) /\ IsFiniteSet(SentinelRegistrations)
    /\ StakedAmountOf \in [Actors -> [Epochs -> Nat]]
    /\ OtherLists \subseteq [guardians : [Actors -> Nat], sentinels : [Actors -> Nat]]
    /\ MinimumAmount \in Nat \ {0}
    /\ LastEpoch \in Nat /\ MaxBlocks \in Nat /\ MaxMessages \in Nat
    /\ MaxRuns \in [Tasks -> Nat] /\ MaxLeaves \in Nat

VARIABLES
    epoch,
    blocks,         \* blocks of the interim chain: the messages their transaction emitted
    headers,        \* checkpoints: records [start, end] of block numbers
    totalNumberOfMessages,
    task,           \* the processes of propagate-actors, and how often each has sent
    propagations,   \* their transactions that are not mined yet
    proofs,         \* transactions of verify-message that are not mined yet
    verified,       \* messages in the order in which they were verified
    inFlight,       \* messages on their way to hubs
    known           \* hub -> epoch -> the actors it was told

emitterVars == <<epoch, blocks, totalNumberOfMessages, task, propagations>>
verifierVars == <<headers, proofs, verified>>
hubVars == <<inFlight, known>>
vars == <<emitterVars, verifierVars, hubVars>>

Merkle == INSTANCE MerkleTrees

Waiting == [at |-> "idle", epoch |-> 0, block |-> 0, sent |-> 0]

Init ==
    /\ epoch = 0
    /\ blocks = <<>>
    /\ totalNumberOfMessages = 0
    /\ headers = <<>>
    /\ task = [t \in Tasks |-> Waiting]
    /\ propagations = {}
    /\ proofs = {}
    /\ verified = <<>>
    /\ inFlight = {}
    /\ known = [h \in Hubs |-> [e \in Epochs |-> Null]]

(***************************************************************************)
(* The emitter and its chain.  A message of the actors carries the epoch in*)
(* which its transaction is mined; any other one carries Null.             *)
(***************************************************************************)
Emitted == UNION {ToSet(blocks[number]) : number \in DOMAIN blocks}

ActorsPropagated(e) == {m \in Emitted : m.epoch = e}

NoActors == [guardians |-> {}, sentinels |-> {}, repeated |-> FALSE]

\* Only messages of actors are followed on their way to hubs.
ToHubs(hubs, messages) == hubs \X {m \in messages : m.epoch # Null}

\* A handle-telepathy that listens meanwhile hears the messages.
MineBlock(messages) ==
    /\ Len(blocks) < MaxBlocks
    /\ totalNumberOfMessages' = totalNumberOfMessages + Len(messages)
    /\ totalNumberOfMessages' <= MaxMessages
    /\ blocks' = Append(blocks, messages)
    /\ \E listening \in SUBSET TestHubs : inFlight' = inFlight \cup ToHubs(listening, ToSet(messages))
    /\ UNCHANGED <<epoch, verifierVars, known>>

\* Mistake: the number of messages is incremented before it is taken for the nonce.
MutMessage(i, e, actors, by) ==
    [nonce |-> totalNumberOfMessages + i, epoch |-> e, actors |-> actors, by |-> by]

Message(i, e, actors, by) ==
    [nonce |-> totalNumberOfMessages + i - 1, epoch |-> e, actors |-> actors, by |-> by]

\* A decision of the DAO slashes, resumes or cancels, once or twice in a transaction.
GovernanceTx(n) ==
    /\ MineBlock([i \in 1..n |-> Message(i, Null, NoActors, Null)])
    /\ UNCHANGED <<task, propagations>>

(***************************************************************************)
(* propagateActors of the emitter, which anybody may call.  It takes the   *)
(* guardians as they were sent.  The sentinels sent must be registered and *)
(* the sum of their amounts be the total of the epoch; those that are left *)
(* with less than the minimum are then filtered out.  A sentinel may have  *)
(* been sent several times; the sum counts it as often.                    *)
(***************************************************************************)
IsBorrowing(a, e) ==
    /\ RegistrationOf[a].kind = "borrowing"
    /\ RegistrationOf[a].startEpoch <= e /\ e <= RegistrationOf[a].endEpoch

IsStaking(a) == RegistrationOf[a].kind = "staking"

AmountOf(a, e) ==
    IF IsStaking(a) THEN StakedAmountOf[a][e]
    ELSE IF IsBorrowing(a, e) THEN MinimumAmount ELSE 0

\* A sum of amounts is the number of the units in them.
CumulativeAmount(sent, e) ==
    Cardinality(UNION {{a} \X ((1..sent[a]) \X (1..AmountOf(a, e))) : a \in Actors})

TotalAmount(e) == CumulativeAmount([a \in Actors |-> 1], e)

\* Mistake: the sum of the amounts is not compared with the total.
MutIsAmountValid(sent, e) == TRUE

IsAmountValid(sent, e) == CumulativeAmount(sent, e) = TotalAmount(e)

PropagateError(sent) ==
    IF \E a \in Actors : sent[a] > 0 /\ ~IsStaking(a) /\ ~IsBorrowing(a, epoch)
    THEN "InvalidSentinelRegistration"
    ELSE IF ~IsAmountValid(sent, epoch) THEN "InvalidAmount" ELSE "None"

EffectiveSentinels(e) == {a \in Actors : AmountOf(a, e) >= MinimumAmount}

Sent(list) == {a \in Actors : list[a] > 0}

\* Hubs are sent the root of the first two; the last one is kept for a property.
EffectiveActors(lists) ==
    [guardians |-> Sent(lists.guardians),
     sentinels |-> Sent(lists.sentinels) \cap EffectiveSentinels(epoch),
     repeated |-> \E a \in Actors : lists.sentinels[a] > 1]

FilterAndSend(lists, by) ==
    /\ PropagateError(lists.sentinels) = "None"
    /\ MineBlock(<<Message(1, epoch, EffectiveActors(lists), by)>>)

OtherPropagates(lists) == FilterAndSend(lists, Null) /\ UNCHANGED <<task, propagations>>

(***************************************************************************)
(* propagate-actors.  The process ends when it has sent its transaction;   *)
(* it may be run again before that one is mined.                           *)
(***************************************************************************)
FilterForCurrentEpoch(e, registration) ==
    registration.startEpoch <= e /\ e <= registration.endEpoch

\* How often an actor occurs: every log of a registration counts, the last one or not.
GetActiveRegistrationsByEpoch(registrations, e) ==
    [a \in Actors |->
        Cardinality({r \in registrations : r.actor = a /\ FilterForCurrentEpoch(e, r)})]

ListsOf(e) ==
    [guardians |-> GetActiveRegistrationsByEpoch(GuardianRegistrations, e),
     sentinels |-> GetActiveRegistrationsByEpoch(SentinelRegistrations, e)]

SetTask(t, state) == task' = [task EXCEPT ![t] = state]

Ended(t) == [Waiting EXCEPT !.sent = task[t].sent]

ChainQuiet == UNCHANGED <<epoch, blocks, totalNumberOfMessages, verifierVars, hubVars>>

TaskQuiet == ChainQuiet /\ UNCHANGED propagations

ReadEpoch(t) ==
    /\ task[t].at = "idle" /\ task[t].sent < MaxRuns[t]
    /\ SetTask(t, [task[t] EXCEPT !.at = "epoch", !.epoch = epoch])
    /\ TaskQuiet

\* Mistake: the propagations of the epoch before are looked for.
MutReadPropagatedEvents(t) ==
    /\ task[t].at = "epoch"
    /\ IF ActorsPropagated(task[t].epoch - 1) # {} /\ t \notin Forced
       THEN SetTask(t, Ended(t))
       ELSE SetTask(t, [task[t] EXCEPT !.at = "send", !.block = Len(blocks)])
    /\ TaskQuiet

ReadPropagatedEvents(t) ==
    /\ task[t].at = "epoch"
    /\ IF ActorsPropagated(task[t].epoch) # {} /\ t \notin Forced
       THEN SetTask(t, Ended(t))
       ELSE SetTask(t, [task[t] EXCEPT !.at = "send", !.block = Len(blocks)])
    /\ TaskQuiet

RunOf(t) ==
    [task |-> t, run |-> task[t].sent, epoch |-> task[t].epoch, block |-> task[t].block]

\* Nothing is sent if gas estimation finds that the call reverts.
SendActors(t) ==
    LET error == PropagateError(ListsOf(task[t].epoch).sentinels) IN
    /\ task[t].at = "send"
    /\ \/ error # "None" /\ SetTask(t, Ended(t)) /\ UNCHANGED propagations
       \/ /\ error = "None"
          /\ SetTask(t, [Ended(t) EXCEPT !.sent = @ + 1])
          /\ propagations' = propagations \cup {RunOf(t)}
    /\ ChainQuiet

PropagateActors(run) ==
    /\ run \in propagations
    /\ propagations' = propagations \ {run}
    /\ \/ FilterAndSend(ListsOf(run.epoch), run)
       \/ PropagateError(ListsOf(run.epoch).sentinels) # "None" /\ ChainQuiet
    /\ UNCHANGED task

\* A process ends before it sent anything.
ExitTask(t) ==
    /\ task[t].at \in {"epoch", "send"}
    /\ SetTask(t, Ended(t))
    /\ TaskQuiet

(***************************************************************************)
(* Checkpoints of the interim chain on Ethereum.                           *)
(***************************************************************************)
LastCheckpoint == IF headers = <<>> THEN 0 ELSE Last(headers).end

SubmitCheckpoint(end) ==
    /\ end \in LastCheckpoint + 1..Len(blocks)
    /\ headers' = Append(headers, [start |-> LastCheckpoint + 1, end |-> end])
    /\ UNCHANGED <<emitterVars, proofs, verified, hubVars>>

BlockHash(number) == <<number>>

Checkpoints == {c \in [start : 1..MaxBlocks, end : 1..MaxBlocks] : c.start <= c.end}

Leaves(c) == [i \in 1..c.end - c.start + 1 |-> BlockHash(c.start + i - 1)]

RootHash == [c \in Checkpoints |-> Merkle!Root(Leaves(c))]

(***************************************************************************)
(* verify-message, for the transaction of a block and a checkpoint, the    *)
(* current one unless the operator names another.  It proves the first     *)
(* message of the transaction only.                                        *)
(***************************************************************************)
\* Mistake: the last block of a checkpoint is taken to be after it.
MutIsInCheckpoint(number, h) == headers[h].start <= number /\ number < headers[h].end

IsInCheckpoint(number, h) == headers[h].start <= number /\ number <= headers[h].end

LogIndex == 1

RootHashProof ==
    [c \in Checkpoints |->
        [number \in c.start..c.end |-> Merkle!GetProof(Leaves(c), BlockHash(number))]]

\* Whether the verifier accepts the proof of a block, at its index in the checkpoint.
IsMember ==
    [c \in Checkpoints |->
        [number \in c.start..c.end |->
            Merkle!CheckMembership(BlockHash(number), number - c.start,
                                   RootHash[c], RootHashProof[c][number])]]

\* The rest of a proof follows from these.
Proof(number, h) == [headerBlock |-> h, blockNumber |-> number, logIndex |-> LogIndex]

MessageOf(proof) == blocks[proof.blockNumber][proof.logIndex]

\* Mistake: the order of the messages is not checked.
MutVerifyError(proof) ==
    IF MessageOf(proof) \in ToSet(verified) THEN "MessageAlreadyProcessed"
    ELSE IF ~IsMember[headers[proof.headerBlock]][proof.blockNumber]
    THEN "InvalidRootHashMerkleProof" ELSE "None"

VerifyError(proof) ==
    IF MessageOf(proof) \in ToSet(verified) THEN "MessageAlreadyProcessed"
    ELSE IF ~IsMember[headers[proof.headerBlock]][proof.blockNumber]
    THEN "InvalidRootHashMerkleProof"
    ELSE IF MessageOf(proof).nonce # Len(verified) THEN "InvalidNonce" ELSE "None"

VerifyMessage(number, h) ==
    /\ blocks[number] # <<>>
    /\ IsInCheckpoint(number, h)
    /\ VerifyError(Proof(number, h)) = "None"
    /\ proofs' = proofs \cup {Proof(number, h)}
    /\ UNCHANGED <<emitterVars, headers, verified, hubVars>>

VerifyAndPropagateMessage(proof) ==
    /\ proof \in proofs
    /\ proofs' = proofs \ {proof}
    /\ IF VerifyError(proof) = "None"
       THEN /\ verified' = Append(verified, MessageOf(proof))
            /\ inFlight' = inFlight \cup ToHubs(Hubs \ TestHubs, {MessageOf(proof)})
       ELSE UNCHANGED <<verified, inFlight>>
    /\ UNCHANGED <<emitterVars, headers, known>>

(***************************************************************************)
(* handle-telepathy, and the Telepathy router.  Messages arrive late, in   *)
(* any order or never; handle-telepathy sends one again when it is given   *)
(* its transaction, the first message of it.                               *)
(***************************************************************************)
ProcessEvent(number) ==
    /\ blocks[number] # <<>>
    /\ inFlight' = inFlight \cup ToHubs(TestHubs, {Head(blocks[number])})
    /\ UNCHANGED <<emitterVars, verifierVars, known>>

RelayDataToHub(hub, message) ==
    /\ <<hub, message>> \in inFlight
    /\ inFlight' = inFlight \ {<<hub, message>>}
    /\ known' = [known EXCEPT ![hub][message.epoch] = message.actors]
    /\ UNCHANGED <<emitterVars, verifierVars>>

NextEpoch ==
    /\ epoch < LastEpoch
    /\ epoch' = epoch + 1
    /\ UNCHANGED <<blocks, totalNumberOfMessages, task, propagations, verifierVars, hubVars>>

Next ==
    \/ \E t \in Tasks :
          ReadEpoch(t) \/ ReadPropagatedEvents(t) \/ SendActors(t) \/ ExitTask(t)
    \/ \E run \in propagations : PropagateActors(run)
    \/ \E lists \in OtherLists : OtherPropagates(lists)
    \/ \E n \in 0..2 : GovernanceTx(n)
    \/ \E end \in 1..Len(blocks) : SubmitCheckpoint(end)
    \/ \E number \in DOMAIN blocks, h \in DOMAIN headers : VerifyMessage(number, h)
    \/ \E proof \in proofs : VerifyAndPropagateMessage(proof)
    \/ \E number \in DOMAIN blocks : ProcessEvent(number)
    \/ \E pair \in inFlight : RelayDataToHub(pair[1], pair[2])
    \/ NextEpoch

Spec == Init /\ [][Next]_vars

(***************************************************************************)
(* Checkpoints are submitted, and the operator runs verify-message for     *)
(* every transaction with the checkpoint it is in.                         *)
(***************************************************************************)
FairSpec ==
    /\ Spec
    /\ WF_vars(\E end \in 1..Len(blocks) : SubmitCheckpoint(end))
    /\ WF_vars(\E number \in DOMAIN blocks, h \in DOMAIN headers : VerifyMessage(number, h))
    /\ WF_vars(\E proof \in proofs : VerifyAndPropagateMessage(proof))

(***************************************************************************)
(* Properties.                                                             *)
(***************************************************************************)
ActorSets == [guardians : SUBSET Actors, sentinels : SUBSET Actors, repeated : BOOLEAN]

TypeOK ==
    /\ epoch \in Epochs
    /\ totalNumberOfMessages \in 0..MaxMessages
    /\ \A number \in DOMAIN blocks : \A i \in DOMAIN blocks[number] :
          LET m == blocks[number][i] IN
          /\ m.nonce \in 0..totalNumberOfMessages - 1
          /\ m.epoch \in Epochs \cup {Null}
          /\ m.actors \in ActorSets
    /\ \A h \in DOMAIN headers : headers[h].start \in 1..headers[h].end /\ headers[h].end <= Len(blocks)
    /\ \A t \in Tasks :
          /\ task[t].at \in {"idle", "epoch", "send"}
          /\ task[t].epoch <= epoch /\ task[t].block <= Len(blocks)
          /\ task[t].sent \in 0..MaxRuns[t]
    /\ \A run \in propagations : run.task \in Tasks /\ run.run < task[run.task].sent
    /\ \A proof \in proofs : proof.blockNumber \in DOMAIN blocks /\ proof.headerBlock \in DOMAIN headers
    /\ \A pair \in inFlight : pair[1] \in Hubs /\ pair[2] \in Emitted
    /\ \A h \in Hubs, e \in Epochs : known[h][e] \in ActorSets \cup {Null}

(***************************************************************************)
(* The verifier takes every message once, in the order in which they were  *)
(* emitted and without a gap, whatever transactions and checkpoints the    *)
(* operators name and in whatever order their proofs are mined.            *)
(***************************************************************************)
VerifiedInOrder ==
    \A i \in DOMAIN verified : verified[i] \in Emitted /\ verified[i].nonce = i - 1

(***************************************************************************)
(* A run that is not forced repeats the propagation of an epoch only if it *)
(* looked for propagations before that one was mined, or in an earlier     *)
(* epoch, although its transaction is mined at any later time and others,  *)
(* runs of the same operator among them, propagate meanwhile.              *)
(***************************************************************************)
RepeatsOnlyWhatItMissed ==
    \A j \in DOMAIN blocks : \A i \in 1..j - 1 :
        \A m \in ToSet(blocks[i]), other \in ToSet(blocks[j]) :
            m.epoch # Null /\ m.epoch = other.epoch
                /\ other.by # Null /\ other.by.task \notin Forced
            => other.by.block < i \/ other.by.epoch < m.epoch

(***************************************************************************)
(* What a hub is told about an epoch: its sentinels are some of those that *)
(* may work in that epoch, and all of them unless one was sent repeatedly, *)
(* whoever called the emitter and whenever the sentinels were read.        *)
(***************************************************************************)
HubsKnowTheSentinels ==
    \A h \in Hubs, e \in Epochs : known[h][e] # Null =>
        /\ known[h][e].sentinels \subseteq EffectiveSentinels(e)
        /\ known[h][e].repeated \/ known[h][e].sentinels = EffectiveSentinels(e)

\* The n blocks after a checkpoint that ends at a number.
AreIdentified ==
    [end \in 0..MaxBlocks |->
        \A n \in 1..MaxLeaves :
            LET leaves == Leaves([start |-> end + 1, end |-> end + n])
                root == Merkle!Root(leaves)
            IN \A i \in 1..n :
                 LET proof == Merkle!GetProof(leaves, leaves[i]) IN
                 \A j \in 1..n, index \in 0..n - 1 :
                     Merkle!CheckMembership(leaves[j], index, root, proof) <=> j = i /\ index = i - 1]

(***************************************************************************)
(* The proof of a block of the next checkpoint, however many it takes in,  *)
(* is accepted at the index of that block and for no other block or index. *)
(***************************************************************************)
ProofsIdentifyBlocks == AreIdentified[LastCheckpoint]

(***************************************************************************)
(* Every message is verified, unless it or one before it is not the first  *)
(* of its transaction: that one cannot be proved, and none after it.       *)
(***************************************************************************)
IsUnprovable(nonce) ==
    \E number \in DOMAIN blocks : \E i \in DOMAIN blocks[number] :
        i # LogIndex /\ blocks[number][i].nonce <= nonce

MessagesAreVerified ==
    \A nonce \in 0..MaxMessages - 1 :
        (nonce < totalNumberOfMessages) ~> (Len(verified) > nonce \/ IsUnprovable(nonce))

===============================================================================
