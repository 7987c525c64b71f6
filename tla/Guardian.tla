-------------------------------- MODULE Guardian --------------------------------
(***************************************************************************)
(* A guardian: the listeners of the chains, configured for UserOperation,  *)
(* OperationQueued, ActorsPropagated and ChallengePending, and a process   *)
(* of the request processor of one chain (pollForRequestsAndDismiss).  A   *)
(* round of it objects to the queued operations that no UserOperation      *)
(* explains, and then solves the challenges of the guardian.               *)
(***************************************************************************)
EXTENDS RequestProcessor

CONSTANTS
    Me,                             \* the address of the guardian
    Challenges,                     \* records [network, nonce, actor]
    Duration, EpochLength,          \* of ChallengeGame
    MaxEmitted                      \* bound on the number of logs, those of actors aside

VARIABLES stage, openedAt           \* of the challenges, see ChallengeGame

vars == <<listenerVars, loop, mempool, hubVars, stage, openedAt>>
gameVars == <<stage, openedAt>>

Game == INSTANCE ChallengeGame

Dismisser == "dismisser"
Network == NetworkOf[Dismisser]

Init == ListenerInit /\ ProcessorInit /\ Game!Init

(***************************************************************************)
(* The actors that the hub knows in this epoch.  The leaves of a proof are *)
(* the actors of the report it is made from, which stand for the proof.    *)
(***************************************************************************)
ActorsLogs == {log \in Logs : log.event = "ActorsPropagated"}

HubActors ==
    {log.args.actors : log \in {l \in ActorsLogs \cap emitted : l.args.epoch = Game!Epoch(clock)}}

IsInactive ==
    \E c \in Challenges :
        c.network = Network /\ c.actor = Me /\ stage[c] = "Slashed" /\ Game!SameEpoch(c)

DismissalError(op, proof) ==
    IF HubActors = {} THEN "LockDown"
    ELSE IF proof \notin HubActors THEN "InvalidActor"
    ELSE IF IsInactive THEN "Inactive"
    ELSE CancelError(op, "guardian")

SolveError(c, proof) ==
    IF proof \notin HubActors THEN "InvalidActor"
    ELSE IF ~(c.network = Network /\ stage[c] # "None" /\ Game!SameEpoch(c))
    THEN "ChallengeNotFound"
    ELSE IF stage[c] # "Open" THEN "InvalidChallengeStatus"
    ELSE IF clock > openedAt[c] + Duration THEN "ChallengeDurationPassed" ELSE "None"

(***************************************************************************)
(* The rounds of the process.                                              *)
(***************************************************************************)
State == loop[Dismisser]
IsAt(step) == At(Dismisser, step)

\* On to a step, also without a report to handle there.
Proceed(step, todo, done, proof) ==
    loop' = [loop EXCEPT ![Dismisser] =
               [Begin EXCEPT !.at = step, !.todo = todo, !.done = done, !.proof = proof]]

EndRound(done) == GoTo(Dismisser, "write", done)

ProcessExits == loop' = [loop EXCEPT ![Dismisser] = Begin]

Quiet == UNCHANGED <<listenerVars, mempool, hubVars, gameVars>>

GetQueued ==
    LET queued == GetQueuedEvents(db, Network) IN
    /\ IsAt("read")
    /\ Proceed(IF queued = {} THEN "reflect" ELSE "status", queued, {}, Null)
    /\ Quiet

GetQueuedAgain ==
    /\ IsAt("reflect") /\ State.todo = {}
    /\ Proceed("match", GetQueuedEvents(db, Network), {}, Null)
    /\ Quiet

\* Mistake: the operation need not be for the chain it was queued on.
MutIsRequestInvalid(matching, request) ==
    ~ \E report \in matching : report.operationId = request.operationId

\* Nothing explains the request: an operation with its id, for the chain it is queued on.
IsRequestInvalid(matching, request) ==
    ~ \E report \in matching :
        /\ report.operationId = request.operationId
        /\ report.destination = request.networkId

FilterOutInvalidQueuedRequests ==
    LET matching == GetMatchingEvents(db, State.todo)
        invalid == {request \in State.todo : IsRequestInvalid(matching, request)}
    IN
    /\ IsAt("match")
    /\ Proceed(IF invalid = {} THEN "pending" ELSE "prove dismissals", invalid, {}, Null)
    /\ Quiet

ActorsReports == {r \in Reports(db) : r.eventName = "ActorsPropagated"}

\* The proof is of the actors that were witnessed last, of whatever epoch.
NewestActors ==
    {r \in ActorsReports : \A other \in ActorsReports : other.witnessedTs <= r.witnessedTs}

GetMerkleProof(step, next) ==
    /\ IsAt(step)
    /\ \/ /\ NewestActors = {}
          /\ ProcessExits
       \/ \E r \in NewestActors :
            IF Me \in r.eventArgs.actors
            THEN Proceed(next, State.todo, State.done, r.eventArgs.actors)
            ELSE ProcessExits
    /\ Quiet

Dismissed(report, results) ==
    LET todo == State.todo \ {report}
        done == State.done \cup results
    IN IF todo = {} THEN Proceed("pending", {}, done, Null)
       ELSE Proceed("dismiss", todo, done, State.proof)

\* Mistake: whatever the error, the request is taken for dismissed.
MutDismissalResult(report, error) == {AddCancelledTxHash(report, "0x")}

\* What becomes of a request whose call fails when gas is estimated; none: it is retried.
DismissalResult(report, error) ==
    CASE error \in {"OperationNotQueued", "OperationAlreadyCancelled"} ->
             {AddCancelledTxHash(report, "0x")}
      [] error = "LockDown" -> {}
      [] OTHER -> {AddError(report)}

MakeDismissalContractCall(report) ==
    LET operation == ParseUserOperation(report)
        error == DismissalError(operation, State.proof)
    IN
    /\ IsAt("dismiss") /\ IsFree(Dismisser, report)
    /\ IF error = "None"
       THEN Broadcast(Dismisser, report, "cancel", operation)
       ELSE Dismissed(report, DismissalResult(report, error)) /\ UNCHANGED mempool
    /\ UNCHANGED <<listenerVars, hubVars, gameVars>>

MineCancel(tx) ==
    LET error == DismissalError(tx.id, tx.proof) IN
    /\ tx \in mempool /\ tx.call = "cancel"
    /\ mempool' = mempool \ {tx}
    /\ \/ /\ error # "None"
          /\ Receipt(tx, "reverted")
          /\ UNCHANGED hubVars
       \/ /\ error = "None"
          /\ Hub!Object(tx.id, "guardian")
          /\ ours' = ours \cup {tx.id}
          /\ Receipt(tx, "mined")
          /\ UNCHANGED lockDown
    /\ UNCHANGED <<listenerVars, gameVars>>

DismissalMined ==
    /\ IsAt("dismiss")
    /\ \/ /\ HasReceipt(Dismisser, "mined")
          /\ Dismissed(State.report, {AddCancelledTxHash(State.report, "hash")})
       \/ /\ HasReceipt(Dismisser, "reverted")
          /\ Dismissed(State.report, {AddError(State.report)})
    /\ Quiet

(***************************************************************************)
(* Challenges of every chain are taken for those of this one, in the order *)
(* they were witnessed.  A call that fails when gas is estimated ends the  *)
(* process, and the reports made in this round are never written.          *)
(***************************************************************************)
GetChallenges ==
    LET pending == GetPendingChallenges(db) IN
    /\ IsAt("pending")
    /\ IF pending = {} THEN EndRound(State.done)
       ELSE Proceed("prove answers", pending, State.done, Null)
    /\ Quiet

\* Mistake: the challenges are sorted the other way.
MutOldest(reports) ==
    {r \in reports : \A other \in reports : r.witnessedTs >= other.witnessedTs}

Oldest(reports) ==
    {r \in reports : \A other \in reports : r.witnessedTs <= other.witnessedTs}

Answered(report, results) ==
    LET todo == State.todo \ {report}
        done == State.done \cup results
    IN IF todo = {} THEN EndRound(done) ELSE Proceed("solve", todo, done, State.proof)

SolveChallenge(report) ==
    LET challenge == report.eventArgs IN
    /\ IsAt("solve") /\ IsFree(Dismisser, report) /\ report \in Oldest(State.todo)
    /\ \/ /\ challenge.actor # Me
          /\ Answered(report, {})
          /\ UNCHANGED mempool
       \/ /\ challenge.actor = Me /\ SolveError(challenge, State.proof) = "None"
          /\ Broadcast(Dismisser, report, "solve", challenge)
       \/ /\ challenge.actor = Me /\ SolveError(challenge, State.proof) # "None"
          /\ ProcessExits
          /\ UNCHANGED mempool
    /\ UNCHANGED <<listenerVars, hubVars, gameVars>>

MineSolve(tx) ==
    LET error == SolveError(tx.id, tx.proof) IN
    /\ tx \in mempool /\ tx.call = "solve"
    /\ mempool' = mempool \ {tx}
    /\ \/ /\ error # "None"
          /\ Receipt(tx, "reverted")
          /\ UNCHANGED gameVars
       \/ /\ error = "None"
          /\ Game!Answer(tx.id)
          /\ Receipt(tx, "mined")
    /\ UNCHANGED <<listenerVars, hubVars>>

SolveMined ==
    /\ IsAt("solve")
    /\ \/ /\ HasReceipt(Dismisser, "mined")
          /\ Answered(State.report, {AddSolved(State.report, "hash")})
       \/ /\ HasReceipt(Dismisser, "reverted")
          /\ Answered(State.report, {})
    /\ Quiet

\* The provider fails while the process waits: the transaction may yet be mined.
WaitingFails ==
    /\ HasReceipt(Dismisser, Null)
    /\ Fault
    /\ IF IsAt("dismiss") THEN Dismissed(State.report, {AddError(State.report)})
       ELSE Answered(State.report, {})
    /\ UNCHANGED <<db, emitted, listening, inbox, mempool, hubVars, gameVars>>

DismisserStep ==
    \/ GetQueued \/ GetQueuedAgain \/ FilterOutInvalidQueuedRequests
    \/ GetMerkleProof("prove dismissals", "dismiss") \/ DismissalMined
    \/ GetChallenges
    \/ GetMerkleProof("prove answers", "solve") \/ SolveMined
    \/ \E report \in State.todo :
          \/ MakeDismissalContractCall(report)
          \/ SolveChallenge(report)
          \/ /\ \/ GetOperationStatus(Dismisser, report)
                \/ SetCorrectRequestStatusInDb(Dismisser, report)
                \/ UpdateEventsInDb(Dismisser, report)
             /\ UNCHANGED gameVars

(***************************************************************************)
(* The chains and time.                                                    *)
(***************************************************************************)
\* A log that a listener misses is here one that it never gets to.
ListenerStep == \E log \in inbox : ProcessEventLog(log, clock)

Unhandled == \* frame of the listener's actions
    UNCHANGED <<loop, mempool, hubVars, gameVars>>

EmitLogs(logs) == Cardinality((emitted \cup logs) \ ActorsLogs) <= MaxEmitted /\ Emit(logs)

LogsOf(event, args) == {log \in Logs : log.event = event /\ log.args = args}

\* Operations that a user asked for, on the chain they are queued on.
IsLegitimate(op) ==
    \E log \in Logs :
        log.event = "UserOperation" /\ EventId(log) = op /\ op.destination = Network

UserSends ==
    clock < LastArrival /\ \E log \in Logs : log.event = "UserOperation" /\ EmitLogs({log})

PropagateActors ==
    \E log \in ActorsLogs : log.args.epoch = Game!Epoch(clock) /\ EmitLogs({log})

\* Relayers queue operations, some of which nobody asked for.
OtherQueues(op) ==
    /\ clock < LastArrival
    /\ \A log \in Logs : log.event = "UserOperation" /\ EventId(log) = op => log \in emitted
    /\ QueueError(op) = "None"
    /\ Hub!Queue(op)
    /\ EmitLogs(LogsOf("OperationQueued", op))
    /\ UNCHANGED <<loop, mempool, lockDown, ours, gameVars>>

StartChallenge(c) ==
    /\ clock < LastArrival
    /\ Game!Open(c)
    /\ EmitLogs(LogsOf("ChallengePending", c))
    /\ UNCHANGED <<loop, mempool, status, queuedAt, objections, lockDown, ours>>

\* How a challenge of another chain ends, or who gets the bond, is of no consequence here.
EndChallenge(c) ==
    /\ c.network = Network
    /\ Game!Slash(c) \/ Game!SlashedByDAO(c)
    /\ UNCHANGED <<listenerVars, loop, mempool, status, queuedAt, objections, lockDown, ours>>

\* A round of the process takes far less than the duration of a challenge: time
\* waits for it at the last instant of a challenge it can answer.
ProofIsValid == NewestActors # {} /\ \A r \in NewestActors : r.eventArgs.actors \in HubActors

ReportsOf(c) == {r \in GetPendingChallenges(db) : r.eventArgs = c}

\* A challenge of this guardian that the hub does not accept an answer to is before it.
IsBlocked(c) ==
    \E r \in ReportsOf(c), other \in GetPendingChallenges(db) :
        /\ other.witnessedTs <= r.witnessedTs
        /\ other.eventArgs.actor = Me
        /\ \E proof \in HubActors : SolveError(other.eventArgs, proof) # "None"

CanAnswer(c) ==
    c.actor = Me /\ ReportsOf(c) # {} /\ stage[c] = "Open" /\ ProofIsValid /\ ~IsBlocked(c)

Advance ==
    /\ clock < MaxTime
    /\ \A c \in Challenges : CanAnswer(c) => clock < openedAt[c] + Duration
    /\ ChainStep(Hub!Advance)
    /\ UNCHANGED gameVars

Next ==
    \/ DismisserStep
    \/ WaitingFails
    \/ Exit(Dismisser) /\ UNCHANGED gameVars
    \/ \E tx \in mempool : MineCancel(tx) \/ MineSolve(tx)
    \/ ListenerStep /\ Unhandled
    \/ UserSends /\ Unhandled
    \/ PropagateActors /\ Unhandled
    \/ \E op \in Operations :
          \/ OtherQueues(op)
          \/ OtherExecutes(op) /\ UNCHANGED gameVars
          \/ \E class \in Classes : OtherObjects(op, class) /\ UNCHANGED gameVars
    \/ \E c \in Challenges : StartChallenge(c) \/ EndChallenge(c)
    \/ Advance

Spec == Init /\ [][Next]_vars

(***************************************************************************)
(* The process runs, and is started again after it exits; transactions are *)
(* mined.  Nothing is assumed of the listeners.                            *)
(***************************************************************************)
FairSpec ==
    /\ Spec
    /\ WF_vars(DismisserStep)
    /\ WF_vars(\E tx \in mempool : MineCancel(tx) \/ MineSolve(tx))

(***************************************************************************)
(* Properties.                                                             *)
(***************************************************************************)
Transactions ==
    [loop : Loops, call : {"cancel", "solve"}, id : Operations \cup Challenges,
     proof : {log.args.actors : log \in ActorsLogs}, attempt : Nat]

\* An operation has its origin, and its hub queues it, and says so, once.
ASSUME GuardianAssumption ==
    /\ Loops = {Dismisser}
    /\ \A op \in Operations : op.origin # Null
    /\ \A log, other \in Logs :
          log.event = "OperationQueued" /\ other.event = "OperationQueued"
             /\ log.args = other.args => log = other
    /\ EpochLength \in Nat \ {0}
    /\ Null \notin ReportType \cup Transactions

TypeOK ==
    /\ \A key \in DOMAIN db : db[key] \in ReportType /\ db[key]._id = key
    /\ emitted \subseteq Logs /\ inbox \subseteq emitted
    /\ listening \subseteq DOMAIN EventsOf
    /\ faults \in 0..MaxFaults
    /\ State.at \in {"read", "status", "reflect", "match", "prove dismissals", "dismiss",
                     "pending", "prove answers", "solve", "write"}
    /\ State.todo \cup State.done \subseteq ReportType
    /\ (State.tx = Null) = (State.report = Null)
    /\ State.at \in {"dismiss", "solve"} => Me \in State.proof
    /\ mempool \subseteq Transactions
    /\ ours \subseteq Operations
    /\ clock \in 0..MaxTime

QueuedReports == {r \in Reports(db) : r.eventName = "OperationQueued"}
UserReports == {r \in Reports(db) : r.eventName = "UserOperation" /\ r.destination = Network}

(***************************************************************************)
(* The guardian does not object to an operation that a user asked for if   *)
(* the report of the user operation was there before that of its queueing: *)
(* only a listener that is behind or missed a log can make it do so.       *)
(***************************************************************************)
OnlyUnreportedAreDismissed ==
    \A op \in ours : IsLegitimate(op) =>
        \A q \in QueuedReports, u \in UserReports :
            q.operationId = op /\ u.operationId = op => u.witnessedTs >= q.witnessedTs

(***************************************************************************)
(* What the guardian records is true of the hub: that it cancelled, that   *)
(* an operation was executed, that a challenge is solved; and it gives up  *)
(* an objection only if a guardian objected, the operation left the queue, *)
(* a process or provider failed, or, since it had the report, the actor    *)
(* was slashed or an epoch began whose actors it did not know as the       *)
(* newest.                                                                 *)
(***************************************************************************)
IsObjected(op) == "guardian" \in objections[op] \/ status[op] # "Queued"

WasSlashedSince(time) ==
    \E c \in Challenges :
        /\ c.network = Network /\ c.actor = Me /\ stage[c] = "Slashed"
        /\ Game!Epoch(openedAt[c]) >= Game!Epoch(time)

ProofWasOutdatedSince(time) ==
    \E old \in ActorsReports, epoch \in Game!Epoch(time)..Game!Epoch(clock) :
        /\ old.eventArgs.epoch < epoch
        /\ \A r \in ActorsReports : r.eventArgs.epoch = epoch =>
              r.witnessedTs <= old.witnessedTs \/ r.witnessedTs >= time

RecordsAreTrue ==
    /\ \A r \in QueuedReports : LET op == ParseUserOperation(r) IN
          /\ r.status = "cancelled" => IsObjected(op)
          /\ r.status = "finalized" => status[op] = "Executed"
          /\ r.status = "failed" =>
                \/ IsObjected(op) \/ faults > 0
                \/ WasSlashedSince(r.witnessedTs) \/ ProofWasOutdatedSince(r.witnessedTs)
    /\ \A r \in Reports(db) : r.status = "solved" => stage[r.eventArgs] = "Forfeited"

(***************************************************************************)
(* A queued operation that nobody asked for is objected to once its report *)
(* and the actors are there, even if every round ends in an exit because   *)
(* of a challenge that cannot be answered.                                 *)
(***************************************************************************)
ObjectsToFraud ==
    \A op \in Operations : ~IsLegitimate(op) =>
        (/\ status[op] = "Queued"
         /\ \E r \in QueuedReports : r.operationId = op /\ r.status = "proposed"
         /\ ProofIsValid)
        ~> \/ IsObjected(op)
           \/ \E r \in QueuedReports : r.operationId = op /\ r.status = "failed"
           \/ ~ProofIsValid \/ IsInactive

(***************************************************************************)
(* A challenge that was reported in time is answered, unless one that the  *)
(* hub refuses an answer to was reported before it: one of another chain,  *)
(* or one that was answered just before a crash.                           *)
(***************************************************************************)
AnswersChallenges ==
    \A c \in Challenges :
        CanAnswer(c) ~> stage[c] \in {"Forfeited", "Superseded"} \/ IsBlocked(c) \/ ~ProofIsValid

===============================================================================
