---------------------------- MODULE RequestProcessor ----------------------------
(***************************************************************************)
(* What the loops of ptokens-request-processor have in common.  A loop     *)
(* carries a state from step to step: here the step it is at, the reports  *)
(* it still has to handle there (todo), those it made or read there (done) *)
(* and the transaction it waits for, with the proof it sends.  A step that *)
(* rejects ends the process, as does a promise nobody handles; the         *)
(* container starts it again, with nothing but the collection to go on.    *)
(*                                                                         *)
(* The hub is the OptimisticQueue that PNetworkHub implements.  Others use *)
(* it too: relayers that queue and execute, and objectors.                 *)
(***************************************************************************)
EXTENDS Listener

CONSTANTS
    Loops,                  \* the processes of the request processor
    NetworkOf,              \* loop -> the chain it serves
    Operations,             \* the ids of operations
    Classes, Delaying, Period, Delay,       \* of OptimisticQueue
    Unexecutable,           \* operations whose execution reverts (fees above the amount, no pToken, ...)
    MaxOperationsInQueue,
    LastArrival,            \* bound: time at which time waits for reports
    MaxTime                 \* bound: the last instant

\* The hub knows the operations users send to the chains of the loops; no receipt is Null.
ASSUME ProcessorAssumption ==
    /\ NetworkOf \in [Loops -> Networks]
    /\ \A log \in Logs :
          log.event = "UserOperation" /\ log.args.destination \in Networks
             => EventId(log) \in Operations
    /\ Null \notin {"mined", "reverted"}
    /\ Unexecutable \subseteq Operations
    /\ MaxOperationsInQueue \in Nat \ {0}
    /\ MaxTime \in Nat

\* The reports of a collection.
ReportType ==
    [_id : {ReportKey(log) : log \in Logs},
     eventName : EventNames,
     status : TxStatuses,
     operationId : {EventId(log) : log \in Logs},
     networkId : Networks,
     transactionHash : {log.tx : log \in Logs},
     destination : {ArgOf(log, "destination") : log \in Logs},
     eventArgs : {log.args : log \in Logs},
     witnessedTs : 0..MaxTime,
     proposalTs : 0..MaxTime \cup {Null},
     proposalTxHash : {Null, "0x", "hash"},
     finalTxHash : {Null, "0x", "hash"}]

VARIABLES
    loop, mempool,
    clock, status, queuedAt, objections,    \* the hub, see OptimisticQueue
    lockDown,               \* "before", "during" or "after" the only lockdown
    ours                    \* operations a transaction of this actor acted on

hubVars == <<clock, status, queuedAt, objections, lockDown, ours>>

Hub == INSTANCE OptimisticQueue

Begin ==
    [at |-> "read", todo |-> {}, done |-> {}, proof |-> Null,
     report |-> Null, tx |-> Null, receipt |-> Null]

ProcessorInit ==
    /\ loop = [p \in Loops |-> Begin]
    /\ mempool = {}
    /\ Hub!Init
    /\ lockDown = "before"
    /\ ours = {}

At(p, step) == loop[p].at = step

\* On to a step with the reports it is for; without any the round is over.
StateAt(step, reports) ==
    IF reports = {} THEN Begin ELSE [Begin EXCEPT !.at = step, !.todo = reports]

GoTo(p, step, reports) == loop' = [loop EXCEPT ![p] = StateAt(step, reports)]

\* A report is done with; after the last one the loop goes on to the next step.
Handled(p, report, results, next) ==
    LET todo == loop[p].todo \ {report}
        done == loop[p].done \cup results
    IN loop' = [loop EXCEPT ![p] =
          IF todo = {} THEN StateAt(next, done) ELSE [StateAt(@.at, todo) EXCEPT !.done = done]]

(***************************************************************************)
(* The errors that gas estimation finds, in the order the hub checks.      *)
(***************************************************************************)
InvalidOperationStatus(op) ==
    [NotQueued |-> "OperationNotQueued", Queued |-> "OperationAlreadyQueued",
     Executed |-> "OperationAlreadyExecuted", Cancelled |-> "OperationAlreadyCancelled"][status[op]]

QueueError(op) ==
    IF lockDown = "during" THEN "LockDown"
    ELSE IF Cardinality({o \in Operations : status[o] = "Queued"}) >= MaxOperationsInQueue
    THEN "QueueFull"
    ELSE IF status[op] # "NotQueued" THEN InvalidOperationStatus(op) ELSE "None"

ExecuteError(op) ==
    IF lockDown = "during" THEN "LockDown"
    ELSE IF status[op] # "Queued" THEN InvalidOperationStatus(op)
    ELSE IF clock < Hub!EarliestExecution(op) THEN "ChallengePeriodNotTerminated"
    ELSE IF op \in Unexecutable THEN "ExecutionReverts" ELSE "None"

CancelError(op, class) ==
    IF status[op] # "Queued" THEN InvalidOperationStatus(op)
    ELSE IF class \in objections[op] THEN "ActorAlreadyCancelledOperation" ELSE "None"

(***************************************************************************)
(* A round of a loop begins with the balance of the wallet, which ends the *)
(* process when it is below the threshold, and a query of the collection.  *)
(* So may any other step: a rejection, a promise that rejects unhandled, a *)
(* signal.  The container starts the process again.                        *)
(***************************************************************************)
Exit(p) ==
    /\ loop[p] # Begin
    /\ Fault
    /\ loop' = [loop EXCEPT ![p] = Begin]
    /\ UNCHANGED <<db, emitted, listening, inbox, mempool, hubVars>>

Read(p, step, reports, next) ==
    /\ At(p, step)
    /\ GoTo(p, next, reports)
    /\ UNCHANGED <<listenerVars, mempool, hubVars>>

(***************************************************************************)
(* The statuses that the hub has are first read, concurrently, and only    *)
(* then written over those of the reports they differ from.  The query is  *)
(* repeated after the last of the writes.                                  *)
(***************************************************************************)
GetOperationStatus(p, report) ==
    LET updated == [report EXCEPT !.status = StatusOfOnChainStatus[status[ParseUserOperation(report)]]] IN
    /\ At(p, "status") /\ report \in loop[p].todo
    /\ LET todo == loop[p].todo \ {report}
           done == loop[p].done \cup ({updated} \ {report})
       IN loop' = [loop EXCEPT ![p].todo = IF todo = {} THEN done ELSE todo,
                               ![p].done = IF todo = {} THEN {} ELSE done,
                               ![p].at = IF todo = {} THEN "reflect" ELSE @]
    /\ UNCHANGED <<listenerVars, mempool, hubVars>>

SetCorrectRequestStatusInDb(p, report) ==
    /\ At(p, "reflect") /\ report \in loop[p].todo
    /\ db' = UpdateEventInDb(db, report)
    /\ loop' = [loop EXCEPT ![p].todo = @ \ {report}]
    /\ UNCHANGED <<emitted, listening, inbox, faults, mempool, hubVars>>

ReadAgain(p, reports, next) == loop[p].todo = {} /\ Read(p, "reflect", reports, next)

(***************************************************************************)
(* Transactions.  The call of the contract broadcasts, unless gas          *)
(* estimation finds an error, and waits.  A transaction outlives the       *)
(* process that sent it.                                                   *)
(***************************************************************************)
IsFree(p, report) == report \in loop[p].todo /\ loop[p].tx = Null

Broadcast(p, report, call, id) ==
    LET tx == [loop |-> p, call |-> call, id |-> id,
               proof |-> loop[p].proof, attempt |-> faults]
    IN
    /\ mempool' = mempool \cup {tx}
    /\ loop' = [loop EXCEPT ![p].report = report, ![p].tx = tx]

Receipt(tx, result) ==
    IF loop[tx.loop].tx = tx
    THEN loop' = [loop EXCEPT ![tx.loop].receipt = result]
    ELSE UNCHANGED loop

\* A transaction whose call fails when it is mined changes nothing on the chain.
MineReverted(tx, error) ==
    /\ tx \in mempool /\ error # "None"
    /\ mempool' = mempool \ {tx}
    /\ Receipt(tx, "reverted")
    /\ UNCHANGED <<listenerVars, hubVars>>

HasReceipt(p, result) == loop[p].tx # Null /\ loop[p].receipt = result

\* The provider fails while the process waits: the transaction may yet be mined.
WaitFails(p) ==
    /\ HasReceipt(p, Null)
    /\ Fault
    /\ Handled(p, loop[p].report, {AddError(loop[p].report)}, "write")
    /\ UNCHANGED <<db, emitted, listening, inbox, mempool, hubVars>>

(***************************************************************************)
(* At the end of a round the new reports are written, concurrently.        *)
(***************************************************************************)
UpdateEventsInDb(p, report) ==
    /\ At(p, "write") /\ report \in loop[p].todo
    /\ db' = UpdateEventInDb(db, report)
    /\ Handled(p, report, {}, "read")
    /\ UNCHANGED <<emitted, listening, inbox, faults, mempool, hubVars>>

(***************************************************************************)
(* The hub, its other users and time.  Time stops at LastArrival until the *)
(* reports of what was emitted are settled, so that the last instants are  *)
(* left to the periods of the last operation.                              *)
(***************************************************************************)
LockDown(from, to) ==
    /\ lockDown = from /\ lockDown' = to
    /\ UNCHANGED <<listenerVars, loop, mempool, clock, status, queuedAt, objections, ours>>

ChainStep(step) ==
    /\ step
    /\ UNCHANGED <<listenerVars, loop, mempool, lockDown, ours>>

OtherExecutes(op) == ExecuteError(op) = "None" /\ ChainStep(Hub!Execute(op))

OtherObjects(op, class) == CancelError(op, class) = "None" /\ ChainStep(Hub!Object(op, class))

===============================================================================
