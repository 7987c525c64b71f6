------------------------------ MODULE EventReports ------------------------------
(***************************************************************************)
(* The reports of events that the off-chain programs of an actor share in  *)
(* a collection of MongoDB: what the listener makes of a log, and how the  *)
(* request processor finds, changes and writes reports.                    *)
(*                                                                         *)
(* A log is a record [event, network, tx, nonce, args].  The args of a     *)
(* UserOperation, an OperationQueued and an OperationExecuted are an       *)
(* operation, a record [origin, destination, body]: body stands for all    *)
(* fields but those that say where it comes from and where it goes, and    *)
(* origin is Null in the log of the chain the operation comes from.        *)
(***************************************************************************)
EXTENDS Integers, FiniteSets

CONSTANTS
    Networks,       \* the ids of constants.networkIds, all of them EVM chains
    Null

EventNames ==
    {"UserOperation", "OperationQueued", "OperationExecuted",
     "ActorsPropagated", "ChallengePending"}

TxStatuses ==
    {"detected", "proposed", "finalized", "cancelled", "failed", "skipped", "solved"}

(***************************************************************************)
(* The id of an operation, or of any other event.  sha256 of the encoded   *)
(* operation identifies it: the record of its fields stands for the hash.  *)
(***************************************************************************)
Origin(operation, network, tx) ==
    IF operation.origin # Null THEN operation.origin ELSE <<network, tx>>

EventIdEvm(operation, network, tx) ==
    [operation EXCEPT !.origin = Origin(operation, network, tx)]

FallbackEventId(network, tx, nonce) ==
    [origin |-> <<network, tx>>, destination |-> Null, body |-> nonce]

HasOperation(log) ==
    log.event \in {"UserOperation", "OperationQueued", "OperationExecuted"}

EventId(log) ==
    IF HasOperation(log) /\ log.args.destination \in Networks
    THEN EventIdEvm(log.args, log.network, log.tx)
    ELSE FallbackEventId(log.network, log.tx, log.nonce)

(***************************************************************************)
(* The report of a log.  Its key has no index of the log: two events of    *)
(* the same name in one transaction have the same key.                     *)
(***************************************************************************)
ReportKey(log) == <<log.event, log.network, log.tx>>

InitialStatus(log) == IF log.event = "OperationQueued" THEN "proposed" ELSE "detected"

ArgOf(log, field) == IF HasOperation(log) THEN log.args[field] ELSE Null

ReportFields ==
    {"_id", "eventName", "status", "operationId", "networkId", "destination", "eventArgs",
     "transactionHash", "witnessedTs", "proposalTs", "proposalTxHash", "finalTxHash"}

EventWithAllRequiredSetToNull == [field \in ReportFields |-> Null]

\* The name, the status and the arguments of the parsed log.
AddInfoFromParsedLog(log, report) ==
    [report EXCEPT
        !.status = InitialStatus(log), !.eventName = log.event, !.eventArgs = log.args,
        !.destination = ArgOf(log, "destination")]

\* Mistake: the time stays what it is in the template.
MutAddWitnessedTimestamp(report, now) == report

AddWitnessedTimestamp(report, now) == [report EXCEPT !.witnessedTs = now]

SetId(log, report) == [report EXCEPT !.operationId = EventId(log), !._id = ReportKey(log)]

BuildReport(log, now) ==
    LET parsed == AddInfoFromParsedLog(log, EventWithAllRequiredSetToNull)
        onNetwork == [parsed EXCEPT !.networkId = log.network, !.transactionHash = log.tx]
    IN SetId(log, AddWitnessedTimestamp(onNetwork, now))

\* The operation that the processor passes to the hub, whose id the hub computes.
ParseUserOperation(report) ==
    EventIdEvm(report.eventArgs, report.networkId, report.transactionHash)

\* Only a report with the fields of an operation satisfies the schema.
ValidReport(report) == report.destination # Null /\ report.status \in TxStatuses

(***************************************************************************)
(* The collection, a function from keys to reports.                        *)
(***************************************************************************)
EmptyCollection == [key \in {} |-> Null]

Reports(db) == {db[key] : key \in DOMAIN db}

IsDuplicate(db, report) == report._id \in DOMAIN db

UpdateReport(db, report) ==
    [key \in DOMAIN db \cup {report._id} |-> IF key = report._id THEN report ELSE db[key]]

InsertReport(db, report) == UpdateReport(db, report)

\* $set of every field of the report as it was read, and of those just changed.
UpdateEventInDb(db, report) == UpdateReport(db, report)

WithNameAndStatus(db, name, status) ==
    {r \in Reports(db) : r.eventName = name /\ r.status = status}

ValidReports(reports) == {r \in reports : ValidReport(r)}

GetDetectedEvents(db, network) ==
    ValidReports({r \in WithNameAndStatus(db, "UserOperation", "detected") :
                    r.destination = network})

\* Mistake: the finalizer also takes the reports that were not proposed yet.
MutGetProposedEvents(db, network) ==
    {r \in Reports(db) : r.eventName = "UserOperation" /\ r.destination = network
                           /\ r.status \in {"proposed", "detected"}}

GetProposedEvents(db, network) ==
    ValidReports({r \in WithNameAndStatus(db, "UserOperation", "proposed") :
                    r.destination = network})

GetQueuedEvents(db, network) ==
    ValidReports({r \in WithNameAndStatus(db, "OperationQueued", "proposed") :
                    r.networkId = network})

\* Mistake: only operations that come from the chain of the request are looked for.
MutGetMatchingEvents(db, requests) ==
    ValidReports({r \in Reports(db) :
                    /\ r.eventName = "UserOperation"
                    /\ \E request \in requests : r.operationId = request.operationId
                                                    /\ r.networkId = request.networkId})

\* The UserOperations of the ids of the given reports, whatever their status.
GetMatchingEvents(db, requests) ==
    ValidReports({r \in Reports(db) :
                    /\ r.eventName = "UserOperation"
                    /\ r.operationId \in {request.operationId : request \in requests}})

GetPendingChallenges(db) == WithNameAndStatus(db, "ChallengePending", "detected")

(***************************************************************************)
(* What the processor writes on a report.                                  *)
(***************************************************************************)
StatusOfOnChainStatus ==
    [NotQueued |-> "detected", Queued |-> "proposed",
     Executed |-> "finalized", Cancelled |-> "cancelled"]

AddProposedTxHash(report, hash, now) ==
    [report EXCEPT !.status = "proposed", !.proposalTs = now, !.proposalTxHash = hash]

SkipEvent(report, now) ==
    [report EXCEPT !.status = "skipped", !.proposalTs = now, !.proposalTxHash = "0x"]

AddFinalizedTxHash(report, hash) ==
    [report EXCEPT !.status = "finalized", !.finalTxHash = hash]

AddCancelledTxHash(report, hash) ==
    [report EXCEPT !.status = "cancelled", !.finalTxHash = hash]

AddError(report) == [report EXCEPT !.status = "failed"]

\* Mistake: the status and the hash are swapped.
MutAddSolved(report, hash) == [report EXCEPT !.status = hash, !.finalTxHash = "solved"]

AddSolved(report, hash) == [report EXCEPT !.status = "solved", !.finalTxHash = hash]

===============================================================================
