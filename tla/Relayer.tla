--------------------------------- MODULE Relayer ---------------------------------
(***************************************************************************)
(* A relayer: the listeners of the chains, configured for UserOperation,   *)
(* and two processes of the request processor of one chain, "proposer"     *)
(* (pollForRequestsAndPropose) and "finalizer" (processFinalTransactions), *)
(* which share one collection.  The proposer takes reports from detected   *)
(* to proposed, the finalizer from proposed to finalized.                  *)
(***************************************************************************)
EXTENDS RequestProcessor

CONSTANTS
    BasicPeriod,    \* KEY_CHALLENGE_PERIOD of the configuration
    Unpaid,         \* operations without network fee that are not for the protocol
    Contested       \* bound: operations that others queue, execute or object to

vars == <<listenerVars, loop, mempool, hubVars>>

Init == ListenerInit /\ ProcessorInit

Proposer == "proposer"
Finalizer == "finalizer"

Detected(p) == GetDetectedEvents(db, NetworkOf[p])

(***************************************************************************)
(* The proposer.                                                           *)
(***************************************************************************)
GetDetected == Read(Proposer, "read", Detected(Proposer), "status")

\* Mistake: the reports are not read again after their statuses were corrected.
MutGetDetectedAgain ==
    /\ At(Proposer, "reflect")
    /\ GoTo(Proposer, "build", Detected(Proposer) \cup loop[Proposer].todo)
    /\ UNCHANGED <<listenerVars, mempool, hubVars>>

GetDetectedAgain ==
    ReadAgain(Proposer, Detected(Proposer), "build")

PaysNetworkFee(report) == report.operationId \notin Unpaid

\* Mistake: whatever the error, the operation is taken for queued.
MutProposalError(report, error) == {AddProposedTxHash(report, "0x", clock)}

\* What becomes of a report whose call fails when gas is estimated; none: it is retried.
ProposalError(report, error) ==
    CASE error = "OperationAlreadyQueued" -> {AddProposedTxHash(report, "0x", clock)}
      [] error = "LockDown" -> {}
      [] OTHER -> {AddError(report)}

MakeProposalContractCall(report) ==
    LET operation == ParseUserOperation(report)
        error == QueueError(operation)
    IN
    /\ At(Proposer, "build") /\ IsFree(Proposer, report)
    /\ \/ /\ ~PaysNetworkFee(report)
          /\ Handled(Proposer, report, {SkipEvent(report, clock)}, "write")
          /\ UNCHANGED mempool
       \/ /\ PaysNetworkFee(report) /\ error # "None"
          /\ Handled(Proposer, report, ProposalError(report, error), "write")
          /\ UNCHANGED mempool
       \/ /\ PaysNetworkFee(report) /\ error = "None"
          /\ Broadcast(Proposer, report, "queue", operation)
    /\ UNCHANGED <<listenerVars, hubVars>>

MineQueue(tx) ==
    /\ tx \in mempool /\ tx.call = "queue"
    /\ \/ MineReverted(tx, QueueError(tx.id))
       \/ /\ QueueError(tx.id) = "None"
          /\ Hub!Queue(tx.id)
          /\ ours' = ours \cup {tx.id}
          /\ mempool' = mempool \ {tx}
          /\ Receipt(tx, "mined")
          /\ UNCHANGED <<listenerVars, lockDown>>

ProposalMined ==
    LET report == loop[Proposer].report IN
    /\ \/ /\ HasReceipt(Proposer, "mined")
          /\ Handled(Proposer, report, {AddProposedTxHash(report, "hash", clock)}, "write")
       \/ /\ HasReceipt(Proposer, "reverted")
          /\ Handled(Proposer, report, {SkipEvent(report, clock)}, "write")
    /\ UNCHANGED <<listenerVars, mempool, hubVars>>

ProposerStep ==
    \/ GetDetected
    \/ \E report \in loop[Proposer].todo :
          \/ GetOperationStatus(Proposer, report)
          \/ SetCorrectRequestStatusInDb(Proposer, report)
          \/ MakeProposalContractCall(report)
          \/ UpdateEventsInDb(Proposer, report)
    \/ GetDetectedAgain
    \/ ProposalMined

(***************************************************************************)
(* The finalizer.                                                          *)
(***************************************************************************)
GetProposed ==
    Read(Finalizer, "read", GetProposedEvents(db, NetworkOf[Finalizer]), "filter")

\* A report without a timestamp is older than any period.
IsOverBasicPeriod(report) ==
    report.proposalTs = Null \/ clock > report.proposalTs + BasicPeriod

\* challengePeriodOf answers zeros for an operation that is not queued.
IsOverChallengePeriod(report) ==
    LET operation == ParseUserOperation(report) IN
    status[operation] = "Queued" => clock > Hub!EarliestExecution(operation)

FilterForExpiredChallengePeriod(report) ==
    /\ At(Finalizer, "filter") /\ report \in loop[Finalizer].todo
    /\ Handled(Finalizer, report,
               {r \in {report} : IsOverBasicPeriod(r) /\ IsOverChallengePeriod(r)}, "build")
    /\ UNCHANGED <<listenerVars, mempool, hubVars>>

\* Mistake: an operation that was executed is tried again.
MutFinalError(report, error) ==
    IF error \in {"LockDown", "ChallengePeriodNotTerminated", "OperationAlreadyExecuted"}
    THEN {} ELSE {AddError(report)}

FinalError(report, error) ==
    CASE error = "OperationAlreadyExecuted" -> {AddFinalizedTxHash(report, "0x")}
      [] error \in {"LockDown", "ChallengePeriodNotTerminated"} -> {}
      [] OTHER -> {AddError(report)}

MakeFinalContractCall(report) ==
    LET operation == ParseUserOperation(report)
        error == ExecuteError(operation)
    IN
    /\ At(Finalizer, "build") /\ IsFree(Finalizer, report)
    /\ \/ /\ error # "None"
          /\ Handled(Finalizer, report, FinalError(report, error), "write")
          /\ UNCHANGED mempool
       \/ error = "None" /\ Broadcast(Finalizer, report, "execute", operation)
    /\ UNCHANGED <<listenerVars, hubVars>>

MineExecute(tx) ==
    /\ tx \in mempool /\ tx.call = "execute"
    /\ \/ MineReverted(tx, ExecuteError(tx.id))
       \/ /\ ExecuteError(tx.id) = "None"
          /\ Hub!Execute(tx.id)
          /\ mempool' = mempool \ {tx}
          /\ Receipt(tx, "mined")
          /\ UNCHANGED <<listenerVars, lockDown, ours>>

\* The handler of a reverted transaction reads err.info.error, which that error
\* lacks: the promise is rejected unhandled and the process exits.
FinalMined ==
    LET report == loop[Finalizer].report IN
    /\ \/ /\ HasReceipt(Finalizer, "mined")
          /\ Handled(Finalizer, report, {AddFinalizedTxHash(report, "hash")}, "write")
       \/ /\ HasReceipt(Finalizer, "reverted")
          /\ loop' = [loop EXCEPT ![Finalizer] = Begin]
    /\ UNCHANGED <<listenerVars, mempool, hubVars>>

FinalizerStep ==
    \/ GetProposed
    \/ \E report \in loop[Finalizer].todo :
          \/ FilterForExpiredChallengePeriod(report)
          \/ MakeFinalContractCall(report)
          \/ UpdateEventsInDb(Finalizer, report)
    \/ FinalMined

(***************************************************************************)
(* The chains and time.                                                    *)
(***************************************************************************)
ListenerStep ==
    \/ \E log \in inbox : ProcessEventLog(log, clock)
    \/ \E network \in DOMAIN EventsOf : ListenForEvents(network)

Unhandled == \* frames of the listener's own actions
    UNCHANGED <<loop, mempool, hubVars>>

UserSend(tx) ==
    LET logs == {log \in Logs : log.tx = tx} IN
    clock < LastArrival /\ logs # {} /\ Emit(logs)

OtherQueues(op) == QueueError(op) = "None" /\ ChainStep(Hub!Queue(op))

\* Until LastArrival: what is reported later may not be settled before MaxTime.
ReportLate(log) ==
    /\ clock <= LastArrival
    /\ \/ Redeliver(log)
       \/ \E command \in DOMAIN Commands : SaveReport(command, log, clock)

\* Reports that are not settled: time waits for them at LastArrival.
IsSettled(log) ==
    \/ log \notin emitted
    \/ Missed(log)
    \/ IsReported(log) /\ db[ReportKey(log)].status # "detected"
    \/ log.args.destination # NetworkOf[Proposer]

Advance ==
    /\ clock < MaxTime
    /\ clock >= LastArrival => \A log \in Logs : IsSettled(log)
    /\ ChainStep(Hub!Advance)

Next ==
    \/ ProposerStep
    \/ FinalizerStep
    \/ \E p \in Loops : Exit(p) \/ WaitFails(p)
    \/ \E tx \in mempool : MineQueue(tx) \/ MineExecute(tx)
    \/ ListenerStep /\ Unhandled
    \/ \E log \in Logs : ReportLate(log) /\ Unhandled
    \/ \E network \in DOMAIN EventsOf : ExitListener(network) /\ Unhandled
    \/ \E log \in Logs : UserSend(log.tx) /\ Unhandled
    \/ \E op \in Contested :
          \/ OtherQueues(op)
          \/ OtherExecutes(op)
          \/ \E class \in Classes : OtherObjects(op, class)
    \/ LockDown("before", "during")
    \/ LockDown("during", "after")
    \/ Advance

Spec == Init /\ [][Next]_vars

(***************************************************************************)
(* The processes run, and are started again after they exit; transactions  *)
(* are mined; the lockdown ends and time goes on.                          *)
(***************************************************************************)
FairSpec ==
    /\ Spec
    /\ WF_vars(ProposerStep)
    /\ WF_vars(FinalizerStep)
    /\ WF_vars(ListenerStep /\ Unhandled)
    /\ WF_vars(\E tx \in mempool : MineQueue(tx) \/ MineExecute(tx))
    /\ WF_vars(LockDown("during", "after"))
    /\ WF_vars(Advance)

(***************************************************************************)
(* Properties.                                                             *)
(***************************************************************************)
UserOperationLogs == {log \in Logs : log.args.destination = NetworkOf[Proposer]}

\* The reports the two loops work on, one for each operation that has one.
ReportOf(op) == {r \in Reports(db) : r.operationId = op /\ r.destination = NetworkOf[Proposer]}

Transactions ==
    [loop : Loops, call : {"queue", "execute"}, id : Operations, proof : {Null}, attempt : Nat]

\* The two loops and what users send: Null is neither a report nor a transaction.
ASSUME RelayerAssumption ==
    /\ Loops = {Proposer, Finalizer}
    /\ \A log \in Logs : log.event = "UserOperation"
    /\ Null \notin ReportType \cup Transactions
    /\ Contested \subseteq Operations

TypeOK ==
    /\ \A key \in DOMAIN db : db[key] \in ReportType /\ db[key]._id = key
    /\ emitted \subseteq Logs /\ inbox \subseteq emitted
    /\ listening \subseteq DOMAIN EventsOf
    /\ faults \in 0..MaxFaults
    /\ \A p \in Loops :
          /\ loop[p].at \in {"read", "status", "reflect", "filter", "build", "write"}
          /\ loop[p].todo \cup loop[p].done \subseteq ReportType
          /\ loop[p].report \in ReportType \cup {Null}
          /\ (loop[p].tx = Null) = (loop[p].report = Null)
    /\ mempool \subseteq Transactions
    /\ clock \in 0..MaxTime
    /\ ours \subseteq Operations

(***************************************************************************)
(* Whatever the two loops, their crashes, the other relayers and the       *)
(* objectors do meanwhile, the collection never says of an operation more  *)
(* than has happened to it on the hub.                                     *)
(***************************************************************************)
CollectionFollowsHub ==
    \A op \in Operations : \A r \in ReportOf(op) :
        /\ r.status = "proposed" => status[op] # "NotQueued"
        /\ r.status = "finalized" => status[op] = "Executed"
        /\ r.status = "cancelled" => status[op] = "Cancelled"

(***************************************************************************)
(* The relayer gives up an operation of its users only for a cause: no fee *)
(* is paid, somebody else queued or objected to it, the queue was full, a  *)
(* process or provider failed, or a lockdown began before its transaction  *)
(* was mined; it skips none that was queued because it cannot be executed, *)
(* such a one fails.  In particular its two loops never make each other's  *)
(* transactions fail.                                                      *)
(***************************************************************************)
GivesUpOnlyWithCause ==
    \A op \in Operations : \A r \in ReportOf(op) :
        r.status \in {"skipped", "failed"} =>
            \/ op \in Unpaid
            \/ status[op] # "NotQueued" /\ op \notin ours
            \/ objections[op] # {}
            \/ \E other \in Operations \ {op} : status[other] # "NotQueued"
            \/ faults > 0
            \/ lockDown # "before"
            \/ r.status = "failed" /\ op \in Unexecutable /\ status[op] # "NotQueued"

(***************************************************************************)
(* Every loop writes back whole reports it read before other writes; yet   *)
(* no step of any of them takes a report back to an earlier status or      *)
(* loses the hash of a transaction that was recorded.                      *)
(***************************************************************************)
Rank(s) == CASE s = "detected" -> 0 [] s = "proposed" -> 1 [] OTHER -> 2

ReportsMoveForward ==
    [][\A key \in DOMAIN db :
          /\ key \in DOMAIN db'
          /\ Rank(db[key].status) = 2 => db'[key] = db[key]
          /\ Rank(db[key].status) <= Rank(db'[key].status)
          /\ db[key].proposalTxHash # Null => db'[key].proposalTxHash = db[key].proposalTxHash]_vars

(***************************************************************************)
(* A report that was detected is settled in the end, in spite of crashes,  *)
(* of reverted transactions, of a lockdown and of objections: the operation*)
(* was executed or cancelled, or the relayer gave it up.                   *)
(***************************************************************************)
ReportsAreSettled ==
    \A key \in {ReportKey(log) : log \in UserOperationLogs} :
        (key \in DOMAIN db) ~> (key \in DOMAIN db /\ Rank(db[key].status) = 2)

===============================================================================
