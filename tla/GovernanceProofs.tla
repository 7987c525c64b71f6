---------------------------- MODULE GovernanceProofs ----------------------------
(***************************************************************************)
(* Proofs about GovernanceRelay, for any hubs, processes, registrations,   *)
(* epochs, blocks and messages.                                            *)
(***************************************************************************)
EXTENDS GovernanceRelay, FiniteSetTheorems, SequenceTheorems, TLAPS

-----------------------------------------------------------------------------
(***************************************************************************)
(* The shape of the state.                                                 *)
(***************************************************************************)
Runs == [task : Tasks, run : Nat, epoch : Epochs, block : Nat]

Messages ==
    [nonce : Nat, epoch : Epochs \cup {Null}, actors : ActorSets, by : Runs \cup {Null}]

States == [at : {"idle", "epoch", "send"}, epoch : Epochs, block : Nat, sent : Nat]

ActorLists == [guardians : [Actors -> Nat], sentinels : [Actors -> Nat]]

Shape ==
    /\ epoch \in Epochs
    /\ totalNumberOfMessages \in Nat
    /\ blocks \in Seq(Seq(Messages))
    /\ headers \in Seq([start : Nat, end : Nat])
    /\ task \in [Tasks -> States]
    /\ propagations \subseteq Runs
    /\ proofs \subseteq [headerBlock : Nat, blockNumber : Nat, logIndex : {LogIndex}]
    /\ \A proof \in proofs :
          proof.blockNumber \in DOMAIN blocks /\ blocks[proof.blockNumber] # <<>>
    /\ verified \in Seq(Messages)
    /\ inFlight \subseteq Hubs \X {m \in Messages : m.epoch # Null}
    /\ known \in [Hubs -> [Epochs -> ActorSets \cup {Null}]]

\* Where the messages that were emitted are.
LEMMA EmittedMessages ==
    \A m : m \in Emitted <=> \E number \in DOMAIN blocks : \E i \in DOMAIN blocks[number] :
                                 m = blocks[number][i]
BY DEF Emitted, ToSet

\* The actors that propagateActors sends are actors.
LEMMA EffectiveActorsType ==
    ASSUME NEW lists
    PROVE  EffectiveActors(lists) \in ActorSets
BY DEF EffectiveActors, ActorSets, Sent

\* How often an actor is registered is a number.
LEMMA RegistrationsCounted ==
    ASSUME NEW registrations, IsFiniteSet(registrations), NEW e
    PROVE  GetActiveRegistrationsByEpoch(registrations, e) \in [Actors -> Nat]
<1>1. ASSUME NEW a \in Actors
      PROVE  Cardinality({r \in registrations : r.actor = a /\ FilterForCurrentEpoch(e, r)}) \in Nat
  BY FS_Subset, FS_CardinalityType
<1> QED
  BY <1>1 DEF GetActiveRegistrationsByEpoch

\* propagate-actors and the others send lists of that type.
LEMMA ListsTyped ==
    /\ \A e : ListsOf(e) \in ActorLists
    /\ \A lists \in OtherLists : lists \in ActorLists
BY RegistrationsCounted, RelayAssumption DEF ListsOf, ActorLists

\* A new block leaves the others alone and adds its messages to those emitted.
LEMMA MineBlockAppends ==
    ASSUME Shape, NEW messages \in Seq(Messages), MineBlock(messages)
    PROVE  /\ blocks' \in Seq(Seq(Messages))
           /\ totalNumberOfMessages' \in Nat
           /\ totalNumberOfMessages' = totalNumberOfMessages + Len(messages)
           /\ totalNumberOfMessages' <= MaxMessages
           /\ DOMAIN blocks \subseteq DOMAIN blocks'
           /\ Len(blocks') = Len(blocks) + 1
           /\ \A number \in DOMAIN blocks : blocks'[number] = blocks[number]
           /\ Emitted' = Emitted \cup ToSet(messages)
           /\ inFlight' \subseteq inFlight \cup (Hubs \X {m \in ToSet(messages) : m.epoch # Null})
           /\ UNCHANGED <<epoch, headers, proofs, verified, known>>
<1>1. blocks \in Seq(Seq(Messages)) /\ totalNumberOfMessages \in Nat
  BY DEF Shape
<1>2. blocks' = Append(blocks, messages)
  BY DEF MineBlock
<1>3. /\ blocks' \in Seq(Seq(Messages))
      /\ Len(blocks') = Len(blocks) + 1
      /\ DOMAIN blocks = 1..Len(blocks)
      /\ DOMAIN blocks' = 1..Len(blocks) + 1
      /\ blocks'[Len(blocks) + 1] = messages
      /\ Len(blocks) \in Nat
  BY <1>1, <1>2
<1>4. \A number \in DOMAIN blocks : blocks'[number] = blocks[number]
  BY <1>1, <1>2
<1>5. Emitted' = Emitted \cup ToSet(messages)
  <2>1. DOMAIN blocks' = DOMAIN blocks \cup {Len(blocks) + 1}
    BY <1>3
  <2>2. Emitted' = UNION {ToSet(blocks'[number]) : number \in DOMAIN blocks'}
    BY DEF Emitted, ToSet
  <2>3. UNION {ToSet(blocks'[number]) : number \in DOMAIN blocks'}
          = (UNION {ToSet(blocks'[number]) : number \in DOMAIN blocks})
              \cup ToSet(blocks'[Len(blocks) + 1])
    BY <2>1, Zenon
  <2>4. UNION {ToSet(blocks'[number]) : number \in DOMAIN blocks} = Emitted
    BY <1>4, Zenon DEF Emitted
  <2> QED
    BY <1>3, <2>2, <2>3, <2>4, Zenon
<1>6. totalNumberOfMessages' = totalNumberOfMessages + Len(messages) /\ Len(messages) \in Nat
  BY DEF MineBlock
<1>7. inFlight' \subseteq inFlight \cup (Hubs \X {m \in ToSet(messages) : m.epoch # Null})
  <2>1. PICK listening \in SUBSET TestHubs :
            inFlight' = inFlight \cup ToHubs(listening, ToSet(messages))
    BY DEF MineBlock
  <2> QED
    BY <2>1, RelayAssumption DEF ToHubs
<1>8. UNCHANGED <<epoch, headers, proofs, verified, known>> /\ totalNumberOfMessages' <= MaxMessages
  BY DEF MineBlock, verifierVars
<1> QED
  BY <1>1, <1>3, <1>4, <1>5, <1>6, <1>7, <1>8

\* The messages of the transactions that emit some.
LEMMA MessagesTyped ==
    ASSUME Shape
    PROVE  /\ \A n \in 0..2 : [i \in 1..n |-> Message(i, Null, NoActors, Null)] \in Seq(Messages)
           /\ \A lists : \A by \in Runs \cup {Null} :
                <<Message(1, epoch, EffectiveActors(lists), by)>> \in Seq(Messages)
<1>1. ASSUME NEW n \in 0..2
      PROVE  [i \in 1..n |-> Message(i, Null, NoActors, Null)] \in Seq(Messages)
  <2>1. NoActors \in ActorSets
    BY DEF NoActors, ActorSets
  <2>2. \A i \in 1..n : Message(i, Null, NoActors, Null) \in Messages
    BY <2>1 DEF Message, Messages, Shape
  <2> QED
    BY <2>2
<1>2. ASSUME NEW lists, NEW by \in Runs \cup {Null}
      PROVE  <<Message(1, epoch, EffectiveActors(lists), by)>> \in Seq(Messages)
  <2>1. EffectiveActors(lists) \in ActorSets
    BY EffectiveActorsType
  <2>2. Message(1, epoch, EffectiveActors(lists), by) \in Messages
    BY <2>1 DEF Message, Messages, Shape
  <2> QED
    BY <2>2
<1> QED
  BY <1>1, <1>2

\* The message that a proof is about.
LEMMA ProvedMessage ==
    ASSUME Shape, NEW proof \in proofs
    PROVE  MessageOf(proof) \in Messages /\ MessageOf(proof) \in Emitted
<1>1. /\ proof.blockNumber \in DOMAIN blocks /\ blocks[proof.blockNumber] # <<>>
      /\ proof.logIndex = 1
  BY DEF Shape, LogIndex
<1>2. blocks[proof.blockNumber] \in Seq(Messages)
  BY <1>1 DEF Shape
<1>3. 1 \in DOMAIN blocks[proof.blockNumber]
  BY <1>1, <1>2
<1> QED
  BY <1>1, <1>2, <1>3, EmittedMessages DEF MessageOf

\* The state of a new emitter and verifier, with no process at work.
LEMMA ShapeInit == Init => Shape
<1> SUFFICES ASSUME Init PROVE Shape
  OBVIOUS
<1> USE RelayAssumption DEF Init
<1>1. epoch \in Epochs /\ totalNumberOfMessages \in Nat
  BY DEF Epochs
<1>2. /\ blocks \in Seq(Seq(Messages)) /\ headers \in Seq([start : Nat, end : Nat])
      /\ verified \in Seq(Messages)
  OBVIOUS
<1>3. task \in [Tasks -> States]
  BY DEF Waiting, States, Epochs
<1>4. known \in [Hubs -> [Epochs -> ActorSets \cup {Null}]]
  OBVIOUS
<1> QED
  BY <1>1, <1>2, <1>3, <1>4 DEF Shape

\* The steps of one process of propagate-actors before its transaction.
LEMMA ShapeTask ==
    ASSUME Shape, NEW t \in Tasks,
           ReadEpoch(t) \/ ReadPropagatedEvents(t) \/ SendActors(t) \/ ExitTask(t)
    PROVE  Shape'
<1>1. task \in [Tasks -> States] /\ task[t] \in States /\ epoch \in Epochs /\ Len(blocks) \in Nat
  BY DEF Shape
<1>2. Ended(t) \in States
  <2>1. 0 \in Epochs /\ task[t].sent \in Nat
    BY <1>1, RelayAssumption DEF States, Epochs
  <2>2. Ended(t) = [at |-> "idle", epoch |-> 0, block |-> 0, sent |-> task[t].sent]
    BY DEF Ended, Waiting
  <2> QED
    BY <2>1, <2>2 DEF States
<1>3. task' \in [Tasks -> States]
  <2>1. CASE ReadEpoch(t)
    <3>1. [task[t] EXCEPT !.at = "epoch", !.epoch = epoch] \in States
      BY <1>1 DEF States
    <3> QED
      BY <1>1, <2>1, <3>1 DEF ReadEpoch, SetTask
  <2>2. CASE ReadPropagatedEvents(t)
    <3>1. [task[t] EXCEPT !.at = "send", !.block = Len(blocks)] \in States
      BY <1>1 DEF States
    <3> QED
      BY <1>1, <1>2, <2>2, <3>1 DEF ReadPropagatedEvents, SetTask
  <2>3. CASE SendActors(t)
    <3>1. [Ended(t) EXCEPT !.sent = @ + 1] \in States
      BY <1>2 DEF States
    <3> QED
      BY <1>1, <1>2, <2>3, <3>1 DEF SendActors, SetTask
  <2>4. CASE ExitTask(t)
    BY <1>1, <1>2, <2>4 DEF ExitTask, SetTask
  <2> QED
    BY <2>1, <2>2, <2>3, <2>4
<1>4. propagations' \subseteq Runs
  <2>1. RunOf(t) \in Runs
    BY <1>1 DEF RunOf, Runs, States
  <2> QED
    BY <2>1 DEF ReadEpoch, ReadPropagatedEvents, SendActors, ExitTask, TaskQuiet, ChainQuiet, Shape
<1>5. UNCHANGED <<epoch, blocks, totalNumberOfMessages, headers, proofs, verified, inFlight, known>>
  BY DEF ReadEpoch, ReadPropagatedEvents, SendActors, ExitTask, TaskQuiet, ChainQuiet, ChainQuiet,
         verifierVars, hubVars
<1> QED
  BY <1>3, <1>4, <1>5 DEF Shape

\* A block with messages of that type, and a transaction that is mined or not.
LEMMA ShapeMineBlock ==
    ASSUME Shape, NEW messages \in Seq(Messages), MineBlock(messages),
           task' = task, propagations' \subseteq propagations
    PROVE  Shape'
<1>1. \A m \in ToSet(messages) : m \in Messages
  BY DEF ToSet
<1>2. \A proof \in proofs' :
          proof.blockNumber \in DOMAIN blocks' /\ blocks'[proof.blockNumber] # <<>>
  BY MineBlockAppends DEF Shape
<1> QED
  BY <1>1, <1>2, MineBlockAppends DEF Shape

\* The last block of a checkpoint, or none.
LEMMA LastCheckpointType ==
    ASSUME Shape
    PROVE  LastCheckpoint \in Nat
<1>1. CASE headers = <<>>
  BY <1>1 DEF LastCheckpoint
<1>2. CASE headers # <<>>
  <2>1. headers \in Seq([start : Nat, end : Nat])
    BY DEF Shape
  <2>2. Len(headers) \in 1..Len(headers)
    BY <1>2, <2>1
  <2>3. headers[Len(headers)] \in [start : Nat, end : Nat]
    BY <2>1, <2>2, ElementOfSeq
  <2> QED
    BY <1>2, <2>3 DEF LastCheckpoint, Last
<1> QED
  BY <1>1, <1>2

\* Every step keeps the shape of the state.
LEMMA ShapeInductive == Shape /\ [Next]_vars => Shape'
<1> SUFFICES ASSUME Shape, [Next]_vars PROVE Shape'
  OBVIOUS
<1>1. ASSUME NEW t \in Tasks, ReadEpoch(t) \/ ReadPropagatedEvents(t) \/ SendActors(t) \/ ExitTask(t)
      PROVE  Shape'
  BY <1>1, ShapeTask
<1>2. ASSUME NEW run \in propagations, PropagateActors(run)
      PROVE  Shape'
  <2>1. task' = task /\ propagations' \subseteq propagations /\ run \in Runs
    BY <1>2 DEF PropagateActors, Shape
  <2>2. CASE FilterAndSend(ListsOf(run.epoch), run)
    BY <2>1, <2>2, ShapeMineBlock, MessagesTyped DEF FilterAndSend
  <2>3. CASE ChainQuiet
    BY <2>1, <2>3 DEF Shape, ChainQuiet, verifierVars, hubVars
  <2> QED
    BY <1>2, <2>2, <2>3 DEF PropagateActors
<1>11. ASSUME NEW lists \in OtherLists, OtherPropagates(lists)
      PROVE  Shape'
  BY <1>11, ShapeMineBlock, MessagesTyped DEF OtherPropagates, FilterAndSend
<1>3. ASSUME NEW n \in 0..2, GovernanceTx(n)
      PROVE  Shape'
  BY <1>3, ShapeMineBlock, MessagesTyped DEF GovernanceTx
<1>4. ASSUME NEW end \in 1..Len(blocks), SubmitCheckpoint(end)
      PROVE  Shape'
  <2>1. LastCheckpoint \in Nat
    BY LastCheckpointType
  <2>2. [start |-> LastCheckpoint + 1, end |-> end] \in [start : Nat, end : Nat]
    BY <2>1
  <2>3. headers' \in Seq([start : Nat, end : Nat])
    BY <1>4, <2>2 DEF SubmitCheckpoint, Shape
  <2> QED
    BY <1>4, <2>3 DEF SubmitCheckpoint, Shape, emitterVars, hubVars
<1>5. ASSUME NEW number \in DOMAIN blocks, NEW h \in DOMAIN headers, VerifyMessage(number, h)
      PROVE  Shape'
  <2>1. number \in Nat /\ h \in Nat
    BY DEF Shape
  <2> QED
    BY <1>5, <2>1 DEF VerifyMessage, Proof, Shape, emitterVars, hubVars
<1>6. ASSUME NEW proof \in proofs, VerifyAndPropagateMessage(proof)
      PROVE  Shape'
  <2>1. MessageOf(proof) \in Messages
    BY ProvedMessage
  <2>2. /\ verified' \in Seq(Messages)
        /\ inFlight' \subseteq Hubs \X {m \in Messages : m.epoch # Null}
    <3>1. CASE VerifyError(proof) = "None"
      <4>1. verified' = Append(verified, MessageOf(proof))
        BY <1>6, <3>1 DEF VerifyAndPropagateMessage
      <4>2. inFlight' = inFlight \cup ToHubs(Hubs \ TestHubs, {MessageOf(proof)})
        BY <1>6, <3>1 DEF VerifyAndPropagateMessage
      <4> QED
        BY <2>1, <4>1, <4>2 DEF ToHubs, Shape
    <3>2. CASE VerifyError(proof) # "None"
      BY <1>6, <3>2 DEF VerifyAndPropagateMessage, Shape
    <3> QED
      BY <3>1, <3>2
  <2>3. proofs' \subseteq proofs /\ UNCHANGED <<emitterVars, headers, known>>
    BY <1>6 DEF VerifyAndPropagateMessage
  <2> QED
    BY <2>2, <2>3 DEF Shape, emitterVars
<1>7. ASSUME NEW number \in DOMAIN blocks, ProcessEvent(number)
      PROVE  Shape'
  <2>1. Head(blocks[number]) \in Messages
    BY <1>7 DEF ProcessEvent, Shape
  <2> QED
    BY <1>7, <2>1, RelayAssumption DEF ProcessEvent, ToHubs, Shape, emitterVars, verifierVars
<1>8. ASSUME NEW hub, NEW message, RelayDataToHub(hub, message)
      PROVE  Shape'
  BY <1>8 DEF RelayDataToHub, Shape, Messages, emitterVars, verifierVars
<1>9. CASE NextEpoch
  BY <1>9, RelayAssumption DEF NextEpoch, Shape, Epochs, verifierVars, hubVars
<1>10. CASE UNCHANGED vars
  BY <1>10 DEF Shape, vars, emitterVars, verifierVars, hubVars
<1> QED
  BY <1>1, <1>2, <1>3, <1>4, <1>5, <1>6, <1>7, <1>8, <1>9, <1>10, <1>11 DEF Next

\* The state always has its shape.
LEMMA ShapeAlways == Spec => []Shape
BY ShapeInit, ShapeInductive, PTL DEF Spec

\* Every message that was emitted has its type.
LEMMA EmittedTyped ==
    ASSUME Shape
    PROVE  \A m \in Emitted : m \in Messages
<1> SUFFICES ASSUME NEW m \in Emitted PROVE m \in Messages
  OBVIOUS
<1>1. PICK number \in DOMAIN blocks : \E i \in DOMAIN blocks[number] : m = blocks[number][i]
  BY EmittedMessages
<1>2. blocks[number] \in Seq(Messages)
  BY DEF Shape
<1> QED
  BY <1>1, <1>2

-----------------------------------------------------------------------------
(***************************************************************************)
(* What a step may emit.                                                   *)
(***************************************************************************)
\* The message m is that of a propagation in this epoch, by a run or by others.
IsPropagation(m) ==
    /\ m.epoch = epoch
    /\ m.by = Null \/ m.by \in propagations
    /\ \E lists \in ActorLists :
          PropagateError(lists.sentinels) = "None" /\ m.actors = EffectiveActors(lists)

\* A block of these messages is mined: they have new nonces, and those of actors propagate.
Mines(messages) ==
    /\ messages \in Seq(Messages) /\ MineBlock(messages)
    /\ \A m \in ToSet(messages) :
          /\ m.nonce < totalNumberOfMessages + Len(messages)
          /\ m.epoch = Null \/ IsPropagation(m)

\* A block of governance messages, of which none is of actors.
LEMMA GovernanceTxMines ==
    ASSUME Shape, NEW n \in 0..2, GovernanceTx(n)
    PROVE  \E messages : Mines(messages)
<1> DEFINE messages == [i \in 1..n |-> Message(i, Null, NoActors, Null)]
<1>1. messages \in Seq(Messages) /\ MineBlock(messages)
  BY MessagesTyped DEF GovernanceTx
<1>2. Len(messages) = n /\ DOMAIN messages = 1..n
  BY <1>1
<1>3. \A m \in ToSet(messages) : m.epoch = Null /\ m.nonce < totalNumberOfMessages + n
  <2>1. \A i \in 1..n : messages[i].epoch = Null /\ messages[i].nonce = totalNumberOfMessages + i - 1
    BY DEF Message
  <2> QED
    BY <1>2, <2>1 DEF ToSet, Shape
<1> HIDE DEF messages
<1> QED
  BY <1>1, <1>2, <1>3 DEF Mines

\* A block with the message of a propagation.
LEMMA FilterAndSendMines ==
    ASSUME Shape, NEW lists \in ActorLists, NEW by \in propagations \cup {Null},
           FilterAndSend(lists, by)
    PROVE  \E messages : Mines(messages)
<1> DEFINE m == Message(1, epoch, EffectiveActors(lists), by)
<1>1. <<m>> \in Seq(Messages) /\ MineBlock(<<m>>)
  BY MessagesTyped DEF FilterAndSend, Shape
<1>2. Len(<<m>>) = 1 /\ ToSet(<<m>>) = {m}
  BY <1>1 DEF ToSet
<1>3. m.nonce = totalNumberOfMessages /\ totalNumberOfMessages \in Nat
  BY DEF Message, Shape
<1>4. IsPropagation(m)
  <2>1. m.epoch = epoch /\ m.by = by /\ m.actors = EffectiveActors(lists)
    BY DEF Message
  <2>2. PropagateError(lists.sentinels) = "None"
    BY DEF FilterAndSend
  <2> HIDE DEF m
  <2> QED
    BY <2>1, <2>2 DEF IsPropagation
<1>5. m.nonce < totalNumberOfMessages + Len(<<m>>)
  BY <1>2, <1>3
<1> HIDE DEF m
<1>6. Mines(<<m>>)
  BY <1>1, <1>2, <1>4, <1>5 DEF Mines
<1> QED
  BY <1>6

\* Every step leaves the blocks alone or mines one.
LEMMA StepMines ==
    Shape /\ [Next]_vars
    => UNCHANGED <<blocks, totalNumberOfMessages>> \/ \E messages : Mines(messages)
<1> SUFFICES ASSUME Shape, [Next]_vars
             PROVE  UNCHANGED <<blocks, totalNumberOfMessages>> \/ \E messages : Mines(messages)
  OBVIOUS
<1>1. ASSUME NEW n \in 0..2, GovernanceTx(n) PROVE \E messages : Mines(messages)
  BY <1>1, GovernanceTxMines
<1>2. ASSUME NEW run \in propagations, PropagateActors(run)
      PROVE  UNCHANGED <<blocks, totalNumberOfMessages>> \/ \E messages : Mines(messages)
  BY <1>2, FilterAndSendMines, ListsTyped DEF PropagateActors, ChainQuiet
<1>3. ASSUME NEW lists \in OtherLists, OtherPropagates(lists)
      PROVE  \E messages : Mines(messages)
  BY <1>3, FilterAndSendMines, ListsTyped DEF OtherPropagates
<1>4. \/ UNCHANGED <<blocks, totalNumberOfMessages>>
      \/ \E n \in 0..2 : GovernanceTx(n)
      \/ \E run \in propagations : PropagateActors(run)
      \/ \E lists \in OtherLists : OtherPropagates(lists)
  BY DEF Next, vars, emitterVars, ReadEpoch, ReadPropagatedEvents, SendActors, ExitTask,
     TaskQuiet, ChainQuiet,
         ChainQuiet, SubmitCheckpoint, VerifyMessage, VerifyAndPropagateMessage, ProcessEvent,
         RelayDataToHub, NextEpoch
<1> QED
  BY <1>1, <1>2, <1>3, <1>4

\* Blocks and messages are only added, with new nonces.
NewMessages ==
    /\ Emitted \subseteq Emitted'
    /\ totalNumberOfMessages' \in Nat /\ totalNumberOfMessages <= totalNumberOfMessages'
    /\ totalNumberOfMessages' = totalNumberOfMessages \/ totalNumberOfMessages' <= MaxMessages
    /\ Len(blocks) <= Len(blocks')
    /\ \A number \in DOMAIN blocks : number \in DOMAIN blocks' /\ blocks'[number] = blocks[number]
    /\ \A m \in Emitted' :
          \/ m \in Emitted
          \/ m.nonce < totalNumberOfMessages' /\ (m.epoch = Null \/ IsPropagation(m))

\* Every step emits nothing, or what its transaction emits.
LEMMA StepEmits == Shape /\ [Next]_vars => NewMessages
<1> SUFFICES ASSUME Shape, [Next]_vars PROVE NewMessages
  OBVIOUS
<1>1. totalNumberOfMessages \in Nat /\ Len(blocks) \in Nat
  BY DEF Shape
<1>2. CASE UNCHANGED <<blocks, totalNumberOfMessages>>
  BY <1>1, <1>2 DEF NewMessages, Emitted
<1>3. ASSUME NEW messages, Mines(messages) PROVE NewMessages
  <2>1. messages \in Seq(Messages) /\ MineBlock(messages)
    BY <1>3 DEF Mines
  <2>2. /\ Emitted' = Emitted \cup ToSet(messages)
        /\ totalNumberOfMessages' = totalNumberOfMessages + Len(messages)
        /\ totalNumberOfMessages' <= MaxMessages
        /\ Len(blocks') = Len(blocks) + 1
        /\ DOMAIN blocks \subseteq DOMAIN blocks'
        /\ \A number \in DOMAIN blocks : blocks'[number] = blocks[number]
    BY <2>1, MineBlockAppends
  <2>3. Len(messages) \in Nat
    BY <2>1
  <2> QED
    BY <1>1, <1>3, <2>2, <2>3 DEF NewMessages, Mines
<1> QED
  BY <1>2, <1>3, StepMines

-----------------------------------------------------------------------------
(***************************************************************************)
(* The order of the verified messages.                                     *)
(***************************************************************************)
\* A message that is verified is the next one.
LEMMA VerifiedStep == Shape /\ VerifiedInOrder /\ [Next]_vars => VerifiedInOrder'
<1> SUFFICES ASSUME Shape, VerifiedInOrder, [Next]_vars PROVE VerifiedInOrder'
  OBVIOUS
<1>1. Emitted \subseteq Emitted'
  BY StepEmits DEF NewMessages
<1>2. verified \in Seq(Messages)
  BY DEF Shape
<1>3. CASE UNCHANGED verified
  BY <1>1, <1>3 DEF VerifiedInOrder
<1>4. ASSUME NEW proof \in proofs, VerifyAndPropagateMessage(proof), VerifyError(proof) = "None"
      PROVE  VerifiedInOrder'
  <2>1. MessageOf(proof).nonce = Len(verified)
    BY <1>4 DEF VerifyError
  <2>2. MessageOf(proof) \in Messages /\ MessageOf(proof) \in Emitted
    BY ProvedMessage
  <2>3. verified' = Append(verified, MessageOf(proof))
    BY <1>4 DEF VerifyAndPropagateMessage
  <2>4. /\ DOMAIN verified' = 1..Len(verified) + 1
        /\ \A i \in 1..Len(verified) : verified'[i] = verified[i]
        /\ verified'[Len(verified) + 1] = MessageOf(proof)
        /\ Len(verified) \in Nat /\ DOMAIN verified = 1..Len(verified)
    BY <1>2, <2>2, <2>3
  <2> QED
    BY <1>1, <2>1, <2>2, <2>4 DEF VerifiedInOrder
<1>5. \/ UNCHANGED verified
      \/ \E proof \in proofs : VerifyAndPropagateMessage(proof) /\ VerifyError(proof) = "None"
  BY DEF Next, vars, verifierVars, ReadEpoch, ReadPropagatedEvents, SendActors, PropagateActors,
         ExitTask, TaskQuiet, ChainQuiet, OtherPropagates, FilterAndSend, GovernanceTx,
         MineBlock, SubmitCheckpoint, VerifyMessage,
         VerifyAndPropagateMessage, ProcessEvent, RelayDataToHub, NextEpoch
<1> QED
  BY <1>3, <1>4, <1>5

(***************************************************************************)
(* verifyAndPropagateMessage takes every message once, in the order in     *)
(* which they were emitted and without a gap, for any number of messages,  *)
(* transactions, checkpoints and operators.                                *)
(***************************************************************************)
THEOREM VerificationOrder == Spec => []VerifiedInOrder
<1>1. Init => VerifiedInOrder
  BY DEF Init, VerifiedInOrder
<1> QED
  BY <1>1, ShapeAlways, VerifiedStep, PTL DEF Spec

-----------------------------------------------------------------------------
(***************************************************************************)
(* What a step may do to a process of propagate-actors.                    *)
(***************************************************************************)
Move(t) ==
    \/ task'[t] = task[t]
    \/ /\ task'[t].at = "idle" /\ task'[t].epoch = 0 /\ task'[t].block = 0
       /\ \/ task'[t].sent = task[t].sent
          \/ task[t].at = "send" /\ task'[t].sent = task[t].sent + 1
    \/ /\ task'[t].at = "epoch" /\ task'[t].epoch = epoch /\ task'[t].block = task[t].block
       /\ task'[t].sent = task[t].sent /\ task[t].sent < MaxRuns[t]
    \/ /\ task'[t].at = "send" /\ task'[t].block = Len(blocks)
       /\ task[t].at = "epoch"
       /\ task'[t].epoch = task[t].epoch /\ task'[t].sent = task[t].sent
       /\ t \in Forced \/ ActorsPropagated(task[t].epoch) = {}

\* Every step moves every process, or leaves it alone.
LEMMA TaskMoves == Shape /\ [Next]_vars => \A t \in Tasks : Move(t)
<1> SUFFICES ASSUME Shape, [Next]_vars, NEW t \in Tasks PROVE Move(t)
  OBVIOUS
<1>1. task \in [Tasks -> States]
  BY DEF Shape
<1>2. CASE UNCHANGED task
  BY <1>2 DEF Move
<1>3. ASSUME NEW u \in Tasks, ReadEpoch(u) PROVE Move(t)
  <2> DEFINE state == [task[u] EXCEPT !.at = "epoch", !.epoch = epoch]
  <2>1. task[u] \in States /\ task[u].sent < MaxRuns[u]
    BY <1>1, <1>3 DEF ReadEpoch
  <2>2. state.at = "epoch" /\ state.epoch = epoch /\ state.block = task[u].block /\ state.sent = task[u].sent
    BY <2>1 DEF States
  <2>3. task' = [task EXCEPT ![u] = state]
    BY <1>3 DEF ReadEpoch, SetTask
  <2> HIDE DEF state
  <2> QED
    BY <1>1, <2>1, <2>2, <2>3 DEF Move
<1>4. ASSUME NEW u \in Tasks, ReadPropagatedEvents(u) PROVE Move(t)
  <2>1. CASE task' = [task EXCEPT ![u] = Ended(u)]
    BY <1>1, <2>1 DEF Move, Ended, Waiting
  <2>2. CASE /\ task' = [task EXCEPT ![u] = [task[u] EXCEPT !.at = "send", !.block = Len(blocks)]]
             /\ u \in Forced \/ ActorsPropagated(task[u].epoch) = {}
    <3> DEFINE state == [task[u] EXCEPT !.at = "send", !.block = Len(blocks)]
    <3>1. task[u] \in States /\ task[u].at = "epoch"
      BY <1>1, <1>4 DEF ReadPropagatedEvents
    <3>2. /\ state.at = "send" /\ state.block = Len(blocks)
          /\ state.epoch = task[u].epoch /\ state.sent = task[u].sent
      BY <3>1 DEF States
    <3>3. task' = [task EXCEPT ![u] = state] /\ (u \in Forced \/ ActorsPropagated(task[u].epoch) = {})
      BY <2>2
    <3> HIDE DEF state
    <3> QED
      BY <1>1, <3>1, <3>2, <3>3 DEF Move
  <2> QED
    BY <1>4, <2>1, <2>2 DEF ReadPropagatedEvents, SetTask
<1>5. ASSUME NEW u \in Tasks, SendActors(u) PROVE Move(t)
  <2> DEFINE sent == [Ended(u) EXCEPT !.sent = @ + 1]
  <2>1. Ended(u).at = "idle" /\ Ended(u).epoch = 0 /\ Ended(u).block = 0 /\ Ended(u).sent = task[u].sent
    BY DEF Ended, Waiting
  <2>2. sent.at = "idle" /\ sent.epoch = 0 /\ sent.block = 0 /\ sent.sent = task[u].sent + 1
    BY DEF Ended, Waiting
  <2>3. task[u].at = "send" /\ \E state \in {Ended(u), sent} : task' = [task EXCEPT ![u] = state]
    BY <1>5 DEF SendActors, SetTask
  <2> HIDE DEF sent
  <2> QED
    BY <1>1, <2>1, <2>2, <2>3 DEF Move
<1>6. ASSUME NEW u \in Tasks, ExitTask(u) PROVE Move(t)
  BY <1>1, <1>6 DEF ExitTask, SetTask, Move, Ended, Waiting
<1>7. UNCHANGED task \/ \E u \in Tasks : \/ ReadEpoch(u) \/ ReadPropagatedEvents(u) \/ SendActors(u)
                                         \/ ExitTask(u)
  BY DEF Next, vars, emitterVars, PropagateActors, OtherPropagates, GovernanceTx, SubmitCheckpoint,
         VerifyMessage, VerifyAndPropagateMessage, ProcessEvent, RelayDataToHub, NextEpoch
<1> QED
  BY <1>2, <1>3, <1>4, <1>5, <1>6, <1>7

\* A transaction is new only when a process sends it.
LEMMA PropagationsStep ==
    Shape /\ [Next]_vars =>
        \A run \in propagations' :
            \/ run \in propagations
            \/ \E t \in Tasks : /\ task[t].at = "send" /\ run = RunOf(t)
                               /\ task'[t].sent = task[t].sent + 1
<1> SUFFICES ASSUME Shape, [Next]_vars, NEW run \in propagations', run \notin propagations
             PROVE  \E t \in Tasks : /\ task[t].at = "send" /\ run = RunOf(t)
                                    /\ task'[t].sent = task[t].sent + 1
  OBVIOUS
<1>1. ASSUME NEW t \in Tasks, SendActors(t)
      PROVE  task[t].at = "send" /\ run = RunOf(t) /\ task'[t].sent = task[t].sent + 1
  BY <1>1 DEF SendActors, SetTask, Ended, Waiting, Shape
<1>2. \/ propagations' \subseteq propagations
      \/ \E t \in Tasks : SendActors(t)
  BY DEF Next, vars, emitterVars, ReadEpoch, ReadPropagatedEvents, PropagateActors, ExitTask,
         TaskQuiet, OtherPropagates, GovernanceTx, SubmitCheckpoint, VerifyMessage,
         VerifyAndPropagateMessage, ProcessEvent, RelayDataToHub, NextEpoch
<1> QED
  BY <1>1, <1>2

\* Epochs only grow.
LEMMA EpochStep == Shape /\ [Next]_vars => epoch \in Nat /\ epoch' \in Nat /\ epoch <= epoch'
<1> SUFFICES ASSUME Shape, [Next]_vars PROVE epoch \in Nat /\ epoch' \in Nat /\ epoch <= epoch'
  OBVIOUS
<1>1. UNCHANGED epoch \/ NextEpoch
  BY DEF Next, vars, emitterVars, ReadEpoch, ReadPropagatedEvents, SendActors, PropagateActors,
     ExitTask,
         TaskQuiet, ChainQuiet, OtherPropagates, FilterAndSend, GovernanceTx, MineBlock,
         SubmitCheckpoint, VerifyMessage,
         VerifyAndPropagateMessage, ProcessEvent, RelayDataToHub
<1>2. NextEpoch => epoch' = epoch + 1
  BY DEF NextEpoch
<1> QED
  BY <1>1, <1>2, RelayAssumption DEF Shape, Epochs

-----------------------------------------------------------------------------
(***************************************************************************)
(* What the parts of the state refer to exists.                            *)
(***************************************************************************)
Bounds ==
    /\ totalNumberOfMessages <= MaxMessages
    /\ \A m \in Emitted : m.nonce < totalNumberOfMessages
    /\ \A h \in DOMAIN headers :
          headers[h].start \in 1..headers[h].end /\ headers[h].end <= Len(blocks)
    /\ \A t \in Tasks :
          /\ task[t].epoch <= epoch /\ task[t].block <= Len(blocks)
          /\ task[t].sent <= MaxRuns[t] /\ (task[t].at # "idle" => task[t].sent < MaxRuns[t])
    /\ \A run \in propagations :
          run.run < task[run.task].sent /\ run.epoch <= epoch /\ run.block <= Len(blocks)
    /\ \A proof \in proofs : proof.headerBlock \in DOMAIN headers
    /\ \A pair \in inFlight : pair[2] \in Emitted

\* Nothing refers to anything at the start.
LEMMA BoundsInit == Init => Bounds
BY RelayAssumption DEF Init, Bounds, Waiting, Emitted

\* Checkpoints are not changed, and a new one is of blocks that exist.
LEMMA HeadersStep ==
    ASSUME Shape, Bounds, [Next]_vars
    PROVE  /\ \A h \in DOMAIN headers' :
                headers'[h].start \in 1..headers'[h].end /\ headers'[h].end <= Len(blocks')
           /\ DOMAIN headers \subseteq DOMAIN headers'
<1>1. headers \in Seq([start : Nat, end : Nat]) /\ Len(blocks) \in Nat /\ Len(blocks') \in Nat
  BY ShapeInductive DEF Shape
<1>2. Len(blocks) <= Len(blocks')
  BY StepEmits DEF NewMessages
<1>3. CASE UNCHANGED headers
  <2>1. ASSUME NEW h \in DOMAIN headers
        PROVE  headers[h].end <= Len(blocks')
    <3>1. h \in 1..Len(headers)
      BY <1>1
    <3>2. headers[h] \in [start : Nat, end : Nat]
      BY <1>1, <3>1, ElementOfSeq
    <3>3. headers[h].end <= Len(blocks)
      BY DEF Bounds
    <3> QED
      BY <1>1, <1>2, <3>2, <3>3
  <2> QED
    BY <1>3, <2>1 DEF Bounds
<1>4. ASSUME NEW end \in 1..Len(blocks), SubmitCheckpoint(end)
      PROVE  /\ \A h \in DOMAIN headers' :
                  headers'[h].start \in 1..headers'[h].end /\ headers'[h].end <= Len(blocks')
             /\ DOMAIN headers \subseteq DOMAIN headers'
  <2>1. LastCheckpoint \in Nat
    BY LastCheckpointType
  <2> DEFINE new == [start |-> LastCheckpoint + 1, end |-> end]
  <2>2. new \in [start : Nat, end : Nat] /\ new.start \in 1..new.end /\ new.end <= Len(blocks)
    BY <1>1, <1>4, <2>1 DEF SubmitCheckpoint
  <2>3. headers' = Append(headers, new)
    BY <1>4 DEF SubmitCheckpoint
  <2> HIDE DEF new
  <2>4. /\ DOMAIN headers' = DOMAIN headers \cup {Len(headers) + 1}
        /\ \A h \in DOMAIN headers : headers'[h] = headers[h]
        /\ headers'[Len(headers) + 1] = new
    BY <1>1, <2>2, <2>3
  <2>5. blocks' = blocks
    BY <1>4 DEF SubmitCheckpoint, emitterVars
  <2> QED
    BY <2>2, <2>4, <2>5 DEF Bounds
<1>5. UNCHANGED headers \/ \E end \in 1..Len(blocks) : SubmitCheckpoint(end)
  BY DEF Next, vars, verifierVars, ReadEpoch, ReadPropagatedEvents, SendActors, PropagateActors,
         ExitTask, TaskQuiet, ChainQuiet, OtherPropagates, FilterAndSend, GovernanceTx,
         MineBlock, VerifyMessage,
         VerifyAndPropagateMessage, ProcessEvent, RelayDataToHub, NextEpoch
<1> QED
  BY <1>3, <1>4, <1>5

\* A message on its way was emitted.
LEMMA InFlightStep ==
    ASSUME Shape, Bounds, [Next]_vars
    PROVE  \A pair \in inFlight' : pair[2] \in Emitted'
<1>1. Emitted \subseteq Emitted' /\ \A pair \in inFlight : pair[2] \in Emitted
  BY StepEmits DEF NewMessages, Bounds
<1>2. CASE inFlight' \subseteq inFlight
  BY <1>1, <1>2
<1>3. ASSUME NEW messages \in Seq(Messages), MineBlock(messages)
      PROVE  \A pair \in inFlight' : pair[2] \in Emitted'
  BY <1>1, <1>3, MineBlockAppends
<1>4. ASSUME NEW number \in DOMAIN blocks, ProcessEvent(number)
      PROVE  \A pair \in inFlight' : pair[2] \in Emitted'
  <2>1. blocks[number] \in Seq(Messages) /\ blocks[number] # <<>>
    BY <1>4 DEF ProcessEvent, Shape
  <2>2. Head(blocks[number]) = blocks[number][1] /\ 1 \in DOMAIN blocks[number]
    BY <2>1
  <2>3. Head(blocks[number]) \in Emitted
    BY <2>2, EmittedMessages
  <2> QED
    BY <1>1, <1>4, <2>3 DEF ProcessEvent, ToHubs
<1>5. ASSUME NEW proof \in proofs, VerifyAndPropagateMessage(proof)
      PROVE  \A pair \in inFlight' : pair[2] \in Emitted'
  <2>1. MessageOf(proof) \in Emitted
    BY ProvedMessage
  <2>2. inFlight' \subseteq inFlight \cup ToHubs(Hubs \ TestHubs, {MessageOf(proof)})
    BY <1>5 DEF VerifyAndPropagateMessage
  <2> QED
    BY <1>1, <2>1, <2>2 DEF ToHubs
<1>6. \/ inFlight' \subseteq inFlight
      \/ \E number \in DOMAIN blocks : ProcessEvent(number)
      \/ \E proof \in proofs : VerifyAndPropagateMessage(proof)
      \/ \E messages : MineBlock(messages)
  BY DEF Next, vars, hubVars, ReadEpoch, ReadPropagatedEvents, SendActors, ExitTask, TaskQuiet,
         ChainQuiet, PropagateActors, OtherPropagates, FilterAndSend, GovernanceTx,
         SubmitCheckpoint, VerifyMessage, RelayDataToHub, NextEpoch
<1>7. CASE \E messages : MineBlock(messages)
  <2>1. CASE UNCHANGED blocks
    <3>1. PICK messages : MineBlock(messages)
      BY <1>7
    <3> QED
      BY <1>1, <2>1, <3>1 DEF MineBlock, Emitted
  <2> QED
    BY <1>3, <2>1, StepMines DEF Mines
<1> QED
  BY <1>2, <1>4, <1>5, <1>6, <1>7

\* A process took its epoch from the current one, and the block from the chain.
LEMMA TaskBoundsStep ==
    ASSUME Shape, Bounds, [Next]_vars
    PROVE  \A t \in Tasks :
              /\ task'[t].epoch <= epoch' /\ task'[t].block <= Len(blocks')
              /\ task'[t].sent <= MaxRuns[t] /\ (task'[t].at # "idle" => task'[t].sent < MaxRuns[t])
              /\ task[t].sent <= task'[t].sent
<1> SUFFICES ASSUME NEW t \in Tasks
             PROVE  /\ task'[t].epoch <= epoch' /\ task'[t].block <= Len(blocks')
                    /\ task'[t].sent <= MaxRuns[t]
                    /\ task'[t].at # "idle" => task'[t].sent < MaxRuns[t]
                    /\ task[t].sent <= task'[t].sent
  OBVIOUS
<1>1. /\ epoch \in Nat /\ epoch' \in Nat /\ epoch <= epoch'
      /\ task[t].epoch \in Nat /\ task[t].epoch <= epoch
  BY EpochStep, RelayAssumption DEF Shape, Bounds, States, Epochs
<1>2. /\ Len(blocks) \in Nat /\ Len(blocks') \in Nat /\ Len(blocks) <= Len(blocks')
      /\ task[t].block \in Nat /\ task[t].block <= Len(blocks)
  BY StepEmits, ShapeInductive DEF Shape, Bounds, NewMessages, States
<1>3. /\ task[t].sent \in Nat /\ MaxRuns[t] \in Nat /\ task[t].sent <= MaxRuns[t]
      /\ task[t].at # "idle" => task[t].sent < MaxRuns[t]
  BY RelayAssumption DEF Shape, Bounds, States
<1> QED
  BY <1>1, <1>2, <1>3, TaskMoves DEF Move

\* A transaction is of a run that was counted, and knows an earlier state of the chain.
LEMMA PropagationBoundsStep ==
    ASSUME Shape, Bounds, [Next]_vars
    PROVE  \A run \in propagations' :
              run.run < task'[run.task].sent /\ run.epoch <= epoch' /\ run.block <= Len(blocks')
<1> SUFFICES ASSUME NEW run \in propagations'
             PROVE  run.run < task'[run.task].sent /\ run.epoch <= epoch' /\ run.block <= Len(blocks')
  OBVIOUS
<1>1. epoch \in Nat /\ epoch' \in Nat /\ epoch <= epoch'
  BY EpochStep
<1>2. Len(blocks) \in Nat /\ Len(blocks') \in Nat /\ Len(blocks) <= Len(blocks')
  BY StepEmits, ShapeInductive DEF Shape, NewMessages
<1>3. \A t \in Tasks : /\ task[t].sent \in Nat /\ task'[t].sent \in Nat /\ task[t].sent <= task'[t].sent
                       /\ task[t].epoch \in Nat /\ task[t].epoch <= epoch
                       /\ task[t].block \in Nat /\ task[t].block <= Len(blocks)
  BY ShapeInductive, TaskBoundsStep, RelayAssumption DEF Shape, Bounds, States, Epochs
<1>4. CASE run \in propagations
  <2>1. /\ run.task \in Tasks /\ run.run \in Nat /\ run.epoch \in Nat /\ run.block \in Nat
        /\ run.run < task[run.task].sent /\ run.epoch <= epoch /\ run.block <= Len(blocks)
    BY <1>4, RelayAssumption DEF Shape, Bounds, Runs, Epochs
  <2> QED
    BY <1>1, <1>2, <1>3, <2>1
<1>5. ASSUME NEW t \in Tasks, run = RunOf(t), task'[t].sent = task[t].sent + 1
      PROVE  run.run < task'[run.task].sent /\ run.epoch <= epoch' /\ run.block <= Len(blocks')
  <2>1. run.task = t /\ run.run = task[t].sent /\ run.epoch = task[t].epoch /\ run.block = task[t].block
    BY <1>5 DEF RunOf
  <2> QED
    BY <1>1, <1>2, <1>3, <1>5, <2>1
<1> QED
  BY <1>4, <1>5, PropagationsStep

\* Every step keeps the bounds.
LEMMA BoundsStep == Shape /\ Bounds /\ [Next]_vars => Bounds'
<1> SUFFICES ASSUME Shape, Bounds, [Next]_vars PROVE Bounds'
  OBVIOUS
<1>1. totalNumberOfMessages' <= MaxMessages
  BY StepEmits DEF NewMessages, Bounds
<1>2. \A m \in Emitted' : m.nonce < totalNumberOfMessages'
  <2>1. \A m \in Emitted : m.nonce \in Nat
    BY EmittedTyped DEF Messages
  <2>2. totalNumberOfMessages \in Nat
    BY DEF Shape
  <2>3. \A m \in Emitted : m.nonce < totalNumberOfMessages
    BY DEF Bounds
  <2> QED
    BY <2>1, <2>2, <2>3, StepEmits DEF NewMessages
<1>3. \A proof \in proofs' : proof.headerBlock \in DOMAIN headers'
  <2>1. CASE proofs' \subseteq proofs
    BY <2>1, HeadersStep DEF Bounds
  <2>2. ASSUME NEW number \in DOMAIN blocks, NEW h \in DOMAIN headers, VerifyMessage(number, h)
        PROVE  \A proof \in proofs' : proof.headerBlock \in DOMAIN headers'
    <3>1. proofs' = proofs \cup {Proof(number, h)} /\ Proof(number, h).headerBlock = h
      BY <2>2 DEF VerifyMessage, Proof
    <3> QED
      BY <3>1, HeadersStep DEF Bounds
  <2>3. \/ proofs' \subseteq proofs
        \/ \E number \in DOMAIN blocks, h \in DOMAIN headers : VerifyMessage(number, h)
    BY DEF Next, vars, verifierVars, ReadEpoch, ReadPropagatedEvents, SendActors, PropagateActors,
           ExitTask, TaskQuiet, ChainQuiet, OtherPropagates, FilterAndSend, GovernanceTx,
           MineBlock, SubmitCheckpoint,
           VerifyAndPropagateMessage, ProcessEvent, RelayDataToHub, NextEpoch
  <2> QED
    BY <2>1, <2>2, <2>3
<1> QED
  BY <1>1, <1>2, <1>3, HeadersStep, TaskBoundsStep, PropagationBoundsStep, InFlightStep
  DEF Bounds

\* The bounds say what TypeOK adds to the shape.
LEMMA TypeOKHolds == Shape /\ Bounds => TypeOK
<1> SUFFICES ASSUME Shape, Bounds PROVE TypeOK
  OBVIOUS
<1>1. totalNumberOfMessages \in 0..MaxMessages
  BY RelayAssumption DEF Shape, Bounds
<1>2. ASSUME NEW number \in DOMAIN blocks, NEW i \in DOMAIN blocks[number]
      PROVE  /\ blocks[number][i].nonce \in 0..totalNumberOfMessages - 1
             /\ blocks[number][i].epoch \in Epochs \cup {Null}
             /\ blocks[number][i].actors \in ActorSets
  <2>1. blocks[number][i] \in Emitted
    BY EmittedMessages
  <2>2. blocks[number][i] \in Messages /\ blocks[number][i].nonce < totalNumberOfMessages
    BY <2>1, EmittedTyped DEF Bounds
  <2> QED
    BY <1>1, <2>2 DEF Messages
<1>3. /\ \A t \in Tasks :
            /\ task[t].at \in {"idle", "epoch", "send"}
            /\ task[t].epoch <= epoch /\ task[t].block <= Len(blocks)
            /\ task[t].sent \in 0..MaxRuns[t]
      /\ \A run \in propagations : run.task \in Tasks /\ run.run < task[run.task].sent
  BY RelayAssumption DEF Shape, Bounds, States, Runs
<1>4. /\ \A proof \in proofs : proof.blockNumber \in DOMAIN blocks /\ proof.headerBlock \in DOMAIN headers
      /\ \A pair \in inFlight : pair[1] \in Hubs /\ pair[2] \in Emitted
  BY DEF Shape, Bounds
<1>5. \A h \in Hubs, e \in Epochs : known[h][e] \in ActorSets \cup {Null}
  BY DEF Shape
<1>6. \A h \in DOMAIN headers : headers[h].start \in 1..headers[h].end /\ headers[h].end <= Len(blocks)
  BY DEF Bounds
<1> QED
  BY <1>1, <1>2, <1>3, <1>4, <1>5, <1>6 DEF TypeOK, Shape

\* Everything a proof, a message on its way or a checkpoint refers to exists.
LEMMA BoundsAlways == Spec => []Bounds
BY BoundsInit, BoundsStep, ShapeAlways, PTL DEF Spec

(***************************************************************************)
(* Every variable keeps its type: a proof is of a block and a checkpoint   *)
(* that exist, checkpoints are of blocks of the chain, nonces are below the*)
(* emitter's count, a process works for an epoch that has begun.           *)
(***************************************************************************)
THEOREM TypeCorrectness == Spec => []TypeOK
BY ShapeAlways, BoundsAlways, TypeOKHolds, PTL

-----------------------------------------------------------------------------
(***************************************************************************)
(* Repeated propagations.                                                  *)
(***************************************************************************)
\* No message of actors of the epoch is in the first blocks.
NoneBefore(chain, e, number) ==
    \A i \in DOMAIN chain : \A m \in ToSet(chain[i]) : i <= number /\ m.epoch # Null => m.epoch # e

\* What a run that is not forced saw when it looked for propagations.
RunsLooked ==
    /\ \A t \in Tasks \ Forced : task[t].at = "send" => NoneBefore(blocks, task[t].epoch, task[t].block)
    /\ \A run \in propagations : run.task \notin Forced => NoneBefore(blocks, run.epoch, run.block)

\* A block number that exists keeps its meaning.
LEMMA NoneBeforeKept ==
    ASSUME Shape, [Next]_vars, NEW e, NEW number \in Nat, number <= Len(blocks),
           NoneBefore(blocks, e, number)
    PROVE  NoneBefore(blocks', e, number)
<1>1. /\ Len(blocks) \in Nat /\ DOMAIN blocks = 1..Len(blocks)
      /\ Len(blocks') \in Nat /\ DOMAIN blocks' = 1..Len(blocks')
  BY ShapeInductive DEF Shape
<1>2. \A i \in DOMAIN blocks : blocks'[i] = blocks[i]
  BY StepEmits DEF NewMessages
<1>3. \A i \in DOMAIN blocks' : i <= number => i \in DOMAIN blocks
  BY <1>1
<1> QED
  BY <1>2, <1>3 DEF NoneBefore, ToSet

\* A run keeps knowing what it saw.
LEMMA RunsLookedStep == Shape /\ Bounds /\ RunsLooked /\ [Next]_vars => RunsLooked'
<1> SUFFICES ASSUME Shape, Bounds, RunsLooked, [Next]_vars PROVE RunsLooked'
  OBVIOUS
<1>1. \A t \in Tasks : task[t].block \in Nat /\ task[t].block <= Len(blocks)
  BY DEF Shape, Bounds, States
<1>2. ASSUME NEW t \in Tasks \ Forced, task'[t].at = "send"
      PROVE  NoneBefore(blocks', task'[t].epoch, task'[t].block)
  <2>1. CASE task'[t] = task[t]
    BY <1>1, <1>2, <2>1, NoneBeforeKept DEF RunsLooked
  <2>2. CASE /\ task'[t].block = Len(blocks) /\ task'[t].epoch = task[t].epoch
             /\ ActorsPropagated(task[t].epoch) = {}
    <3>1. NoneBefore(blocks, task[t].epoch, Len(blocks))
      <4>1. \A i \in DOMAIN blocks : \A m \in ToSet(blocks[i]) : m \in Emitted
        BY DEF Emitted
      <4> QED
        BY <2>2, <4>1 DEF NoneBefore, ActorsPropagated
    <3>2. Len(blocks) \in Nat
      BY DEF Shape
    <3> QED
      BY <2>2, <3>1, <3>2, NoneBeforeKept
  <2> QED
    BY <1>2, <2>1, <2>2, TaskMoves DEF Move
<1>3. ASSUME NEW run \in propagations', run.task \notin Forced
      PROVE  NoneBefore(blocks', run.epoch, run.block)
  <2>1. CASE run \in propagations
    <3>1. run.block \in Nat /\ run.block <= Len(blocks)
      BY <2>1 DEF Shape, Bounds, Runs
    <3> QED
      BY <1>3, <2>1, <3>1, NoneBeforeKept DEF RunsLooked
  <2>2. ASSUME NEW t \in Tasks, task[t].at = "send", run = RunOf(t)
        PROVE  NoneBefore(blocks', run.epoch, run.block)
    <3>1. run.task = t /\ run.epoch = task[t].epoch /\ run.block = task[t].block
      BY <2>2 DEF RunOf
    <3> QED
      BY <1>1, <1>3, <2>2, <3>1, NoneBeforeKept DEF RunsLooked
  <2> QED
    BY <2>1, <2>2, PropagationsStep
<1> QED
  BY <1>2, <1>3 DEF RunsLooked

\* A propagation that is mined repeats one that its run did not see, or was not to look for.
LEMMA RepeatsStep ==
    Shape /\ Bounds /\ RunsLooked /\ RepeatsOnlyWhatItMissed /\ [Next]_vars
    => RepeatsOnlyWhatItMissed'
<1> SUFFICES ASSUME Shape, Bounds, RunsLooked, RepeatsOnlyWhatItMissed, [Next]_vars
             PROVE  RepeatsOnlyWhatItMissed'
  OBVIOUS
<1>1. CASE UNCHANGED blocks
  BY <1>1 DEF RepeatsOnlyWhatItMissed, ToSet
<1>2. ASSUME NEW messages, Mines(messages)
      PROVE  RepeatsOnlyWhatItMissed'
  <2>1. messages \in Seq(Messages) /\ blocks' = Append(blocks, messages)
    BY <1>2 DEF Mines, MineBlock
  <2>2. /\ Len(blocks) \in Nat /\ DOMAIN blocks = 1..Len(blocks)
        /\ DOMAIN blocks' = 1..Len(blocks) + 1 /\ blocks'[Len(blocks) + 1] = messages
        /\ \A i \in 1..Len(blocks) : blocks'[i] = blocks[i]
    BY <2>1 DEF Shape
  <2> SUFFICES ASSUME NEW j \in DOMAIN blocks', NEW i \in 1..j - 1,
                      NEW m \in ToSet(blocks'[i]), NEW other \in ToSet(blocks'[j]),
                      m.epoch # Null, m.epoch = other.epoch,
                      other.by # Null, other.by.task \notin Forced
               PROVE  other.by.block < i \/ other.by.epoch < m.epoch
    BY DEF RepeatsOnlyWhatItMissed, ToSet
  <2>3. CASE j \in DOMAIN blocks
    <3>1. i \in DOMAIN blocks /\ blocks'[i] = blocks[i] /\ blocks'[j] = blocks[j]
      BY <2>2, <2>3
    <3> QED
      BY <2>3, <3>1 DEF RepeatsOnlyWhatItMissed
  <2>4. CASE j = Len(blocks) + 1
    <3>1. i \in DOMAIN blocks /\ m \in ToSet(blocks[i]) /\ other \in ToSet(messages)
      BY <2>2, <2>4
    <3>2. other.by \in propagations /\ other.epoch = epoch
      BY <1>2, <3>1 DEF Mines, IsPropagation
    <3>3. NoneBefore(blocks, other.by.epoch, other.by.block)
      BY <3>2 DEF RunsLooked
    <3>4. other.by.epoch # m.epoch \/ ~(i <= other.by.block)
      BY <3>1, <3>3 DEF NoneBefore
    <3>5. other.by.epoch \in Nat /\ other.by.epoch <= m.epoch /\ other.by.block \in Nat /\ m.epoch \in Nat
      BY <3>2, RelayAssumption DEF Shape, Bounds, Runs, Epochs
    <3> QED
      BY <2>2, <3>1, <3>4, <3>5
  <2> QED
    BY <2>2, <2>3, <2>4
<1> QED
  BY <1>1, <1>2, StepMines

(***************************************************************************)
(* A run of propagate-actors that is not forced propagates an epoch again  *)
(* only if the first propagation was mined after it had looked, or the     *)
(* epoch began after it had started: for any processes, runs of one        *)
(* operator before his transaction is mined, and calls by others.          *)
(***************************************************************************)
THEOREM OnlyMissedIsRepeated == Spec => []RepeatsOnlyWhatItMissed
<1>1. Init => RunsLooked /\ RepeatsOnlyWhatItMissed
  BY DEF Init, RunsLooked, RepeatsOnlyWhatItMissed, Waiting
<1> QED
  BY <1>1, ShapeAlways, BoundsAlways, RunsLookedStep, RepeatsStep, PTL DEF Spec

-----------------------------------------------------------------------------
(***************************************************************************)
(* What hubs are told.  The units of the amounts that were sent are counted*)
(* in two ways: as those of every sentinel that has some, and as those of  *)
(* the sentinels sent.                                                     *)
(***************************************************************************)
UnitsOf(sent, e, a) == {a} \X ((1..sent[a]) \X (1..AmountOf(a, e)))

Units(sent, e) == UNION {UnitsOf(sent, e, a) : a \in Actors}

Once == [a \in Actors |-> 1]

\* What actors have, and so the number of the units, is a number.
LEMMA AmountsAreNumbers ==
    ASSUME NEW e \in Epochs, NEW a \in Actors
    PROVE  AmountOf(a, e) \in Nat
BY RelayAssumption DEF AmountOf

\* There are finitely many units in what is sent once.
LEMMA UnitsAreFinite ==
    ASSUME NEW e \in Epochs
    PROVE  IsFiniteSet(Units(Once, e))
<1> DEFINE family == {UnitsOf(Once, e, a) : a \in Actors}
           f == [a \in Actors |-> UnitsOf(Once, e, a)]
<1>1. f \in Surjection(Actors, family)
  BY DEF Surjection
<1>2. IsFiniteSet(family)
  BY <1>1, FS_Surjection, RelayAssumption
<1>3. ASSUME NEW a \in Actors
      PROVE  IsFiniteSet(UnitsOf(Once, e, a))
  <2>1. Once[a] \in Int /\ AmountOf(a, e) \in Int /\ 1 \in Int
    BY AmountsAreNumbers DEF Once
  <2>2. IsFiniteSet(1..Once[a]) /\ IsFiniteSet(1..AmountOf(a, e))
    BY <2>1, FS_Interval
  <2>3. IsFiniteSet((1..Once[a]) \X (1..AmountOf(a, e))) /\ IsFiniteSet({a})
    BY <2>2, FS_Product, FS_Singleton
  <2> QED
    BY <2>3, FS_Product DEF UnitsOf
<1> QED
  BY <1>2, <1>3, FS_UNION DEF Units

\* Amounts that add up, with no sentinel sent twice, are those of all sentinels with some.
LEMMA ValidAmountsCoverSentinels ==
    ASSUME NEW e \in Epochs, NEW sent \in [Actors -> Nat], IsAmountValid(sent, e),
           \A a \in Actors : sent[a] <= 1
    PROVE  EffectiveSentinels(e) \subseteq Sent(sent)
<1>1. Cardinality(Units(sent, e)) = Cardinality(Units(Once, e))
  BY DEF IsAmountValid, TotalAmount, CumulativeAmount, Units, UnitsOf, Once
<1>2. Units(sent, e) \subseteq Units(Once, e)
  <2>1. \A a \in Actors : 1..sent[a] \subseteq 1..Once[a]
    BY DEF Once
  <2>2. \A a \in Actors : UnitsOf(sent, e, a) \subseteq UnitsOf(Once, e, a)
    BY <2>1 DEF UnitsOf
  <2> QED
    BY <2>2 DEF Units
<1>3. Units(sent, e) = Units(Once, e)
  BY <1>1, <1>2, UnitsAreFinite, FS_Subset
<1>4. ASSUME NEW a \in EffectiveSentinels(e)
      PROVE  a \in Sent(sent)
  <2>1. a \in Actors /\ 1 \in 1..AmountOf(a, e) /\ 1 \in 1..Once[a]
    BY AmountsAreNumbers, RelayAssumption DEF EffectiveSentinels, Once
  <2>2. <<a, <<1, 1>>>> \in Units(sent, e)
    BY <1>3, <2>1 DEF Units, UnitsOf
  <2>3. PICK other \in Actors : <<a, <<1, 1>>>> \in UnitsOf(sent, e, other)
    BY <2>2 DEF Units
  <2>4. other = a /\ 1 \in 1..sent[a]
    BY <2>3 DEF UnitsOf
  <2> QED
    BY <2>1, <2>4 DEF Sent
<1> QED
  BY <1>4

\* What HubsKnowTheSentinels says of a hub, said of the actors of a message.
ActorsOfEpoch(actors, e) ==
    /\ actors.sentinels \subseteq EffectiveSentinels(e)
    /\ actors.repeated \/ actors.sentinels = EffectiveSentinels(e)

EmittedActors == \A m \in Emitted : m.epoch # Null => ActorsOfEpoch(m.actors, m.epoch)

\* Messages of actors carry those of their epoch.
LEMMA EmittedActorsStep == Shape /\ EmittedActors /\ [Next]_vars => EmittedActors'
<1> SUFFICES ASSUME Shape, EmittedActors, [Next]_vars, NEW m \in Emitted', m.epoch # Null
             PROVE  ActorsOfEpoch(m.actors, m.epoch)
  BY DEF EmittedActors, ActorsOfEpoch, EffectiveSentinels, AmountOf, IsBorrowing, IsStaking
<1>1. CASE m \in Emitted
  BY <1>1 DEF EmittedActors
<1>2. CASE IsPropagation(m)
  <2>1. PICK lists \in ActorLists :
            PropagateError(lists.sentinels) = "None" /\ m.actors = EffectiveActors(lists)
    BY <1>2 DEF IsPropagation
  <2>2. /\ m.actors.sentinels = Sent(lists.sentinels) \cap EffectiveSentinels(epoch)
        /\ m.actors.repeated <=> \E a \in Actors : lists.sentinels[a] > 1
    BY <2>1 DEF EffectiveActors
  <2>3. IsAmountValid(lists.sentinels, epoch)
    BY <2>1 DEF PropagateError
  <2>4. lists.sentinels \in [Actors -> Nat] /\ epoch \in Epochs /\ m.epoch = epoch
    BY <1>2 DEF ActorLists, Shape, IsPropagation
  <2>5. CASE \A a \in Actors : lists.sentinels[a] <= 1
    <3>1. EffectiveSentinels(epoch) \subseteq Sent(lists.sentinels)
      BY <2>3, <2>4, <2>5, ValidAmountsCoverSentinels
    <3> QED
      BY <2>2, <2>4, <3>1 DEF ActorsOfEpoch
  <2>6. CASE \E a \in Actors : lists.sentinels[a] > 1
    BY <2>2, <2>4, <2>6 DEF ActorsOfEpoch
  <2>7. \A a \in Actors : lists.sentinels[a] \in Nat
    BY <2>4
  <2> QED
    BY <2>5, <2>6, <2>7
<1> QED
  BY <1>1, <1>2, StepEmits DEF NewMessages

\* A hub is told what a message says.
LEMMA KnownStep ==
    Shape /\ Bounds /\ EmittedActors /\ HubsKnowTheSentinels /\ [Next]_vars => HubsKnowTheSentinels'
<1> SUFFICES ASSUME Shape, Bounds, EmittedActors, HubsKnowTheSentinels, [Next]_vars,
                    NEW h \in Hubs, NEW e \in Epochs, known'[h][e] # Null
             PROVE  ActorsOfEpoch(known'[h][e], e)
  BY DEF HubsKnowTheSentinels, ActorsOfEpoch, EffectiveSentinels, AmountOf, IsBorrowing, IsStaking
<1>1. CASE known'[h][e] = known[h][e]
  BY <1>1 DEF HubsKnowTheSentinels, ActorsOfEpoch
<1>2. ASSUME NEW hub, NEW message, RelayDataToHub(hub, message)
      PROVE  ActorsOfEpoch(known'[h][e], e)
  <2>1. message \in Emitted /\ message.epoch # Null /\ message.epoch \in Epochs /\ hub \in Hubs
    BY <1>2 DEF RelayDataToHub, Shape, Bounds, Messages
  <2>2. ActorsOfEpoch(message.actors, message.epoch)
    BY <2>1 DEF EmittedActors
  <2>3. known' = [known EXCEPT ![hub][message.epoch] = message.actors]
    BY <1>2 DEF RelayDataToHub
  <2>4. CASE h = hub /\ e = message.epoch
    BY <2>2, <2>3, <2>4 DEF Shape
  <2>5. CASE ~(h = hub /\ e = message.epoch)
    BY <1>1, <2>1, <2>3, <2>5 DEF Shape
  <2> QED
    BY <2>4, <2>5
<1>3. UNCHANGED known \/ \E pair \in inFlight : RelayDataToHub(pair[1], pair[2])
  BY DEF Next, vars, hubVars, ReadEpoch, ReadPropagatedEvents, SendActors, PropagateActors,
         ExitTask, TaskQuiet, ChainQuiet, OtherPropagates, FilterAndSend, GovernanceTx, MineBlock,
         SubmitCheckpoint, VerifyMessage, VerifyAndPropagateMessage, ProcessEvent, NextEpoch
<1> QED
  BY <1>1, <1>2, <1>3

(***************************************************************************)
(* A hub that was told the actors of an epoch knows no sentinel that may   *)
(* not work in it, and all that may unless one was sent repeatedly: for any*)
(* registrations and amounts, whatever anyone has the emitter propagate,   *)
(* and however late or often messages come.                                *)
(***************************************************************************)
THEOREM SentinelsAreKnown == Spec => []HubsKnowTheSentinels
<1>1. Init => EmittedActors /\ HubsKnowTheSentinels
  BY DEF Init, EmittedActors, HubsKnowTheSentinels, Emitted
<1> QED
  BY <1>1, ShapeAlways, BoundsAlways, EmittedActorsStep, KnownStep, PTL DEF Spec

=============================================================================
