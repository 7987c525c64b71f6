-------------------------------- MODULE Listener --------------------------------
(***************************************************************************)
(* ptokens-listener: one process per chain, which turns the logs of the    *)
(* events it is configured for into reports of the collection its actor's  *)
(* programs share.  The provider polls for the logs of new blocks only, so *)
(* that a log of a block mined while the process is down is never          *)
(* delivered; the operator may save it by hand.  The logs of a poll are    *)
(* turned into reports concurrently, each by its own promise.              *)
(***************************************************************************)
EXTENDS EventReports

CONSTANTS
    Logs,               \* the logs that the chains may emit
    EventsOf,           \* network -> the events its listener is configured for
    MaxFaults           \* bound on what goes wrong with the processes and providers

\* The arguments of an operation are a record, and the chain it comes from does not say so.
ASSUME ListenerAssumption ==
    /\ \A log \in Logs :
          /\ log.event \in EventNames /\ log.network \in Networks
          /\ HasOperation(log) =>
                log.args = [origin |-> log.args.origin, destination |-> log.args.destination,
                            body |-> log.args.body]
          /\ log.event = "UserOperation" => log.args.origin = Null
    /\ Null \notin Networks
    /\ MaxFaults \in Nat

VARIABLES
    db,                 \* the collection of reports
    emitted,            \* logs of mined blocks
    listening,          \* networks whose listener is up
    inbox,              \* logs delivered to a listener and not inserted yet
    faults              \* how often something went wrong

listenerVars == <<db, emitted, listening, inbox, faults>>

ListenerInit ==
    /\ db = EmptyCollection
    /\ emitted = {}
    /\ listening = DOMAIN EventsOf
    /\ inbox = {}
    /\ faults = 0

Fault == faults < MaxFaults /\ faults' = faults + 1

MatchesFilter(log) == log.network \in DOMAIN EventsOf /\ log.event \in EventsOf[log.network]

InboxOf(network) == {log \in inbox : log.network = network}

IsReported(log) ==
    ReportKey(log) \in DOMAIN db /\ db[ReportKey(log)].operationId = EventId(log)

\* Logs whose report can no longer appear, unless the operator saves it.
Missed(log) == log \in emitted \ inbox /\ MatchesFilter(log) /\ ~IsReported(log)

(***************************************************************************)
(* A chain mines logs: the listener that is up gets those of its filter.   *)
(***************************************************************************)
Emit(logs) ==
    /\ logs \cap emitted = {}
    /\ emitted' = emitted \cup logs
    /\ inbox' = inbox \cup {log \in logs : MatchesFilter(log) /\ log.network \in listening}
    /\ UNCHANGED <<db, listening, faults>>

\* A node serves a log again, after a reorganisation or from an overlapping range.
Redeliver(log) ==
    /\ log \in emitted \ inbox
    /\ MatchesFilter(log) /\ log.network \in listening
    /\ Fault
    /\ inbox' = inbox \cup {log}
    /\ UNCHANGED <<db, emitted, listening>>

(***************************************************************************)
(* The report is built and inserted.  A key that is taken rejects a promise*)
(* that nobody handles: the process exits, and with it go the logs it had  *)
(* not inserted yet.                                                       *)
(***************************************************************************)
ProcessEventLog(log, now) ==
    LET report == BuildReport(log, now) IN
    /\ log \in inbox
    /\ IF IsDuplicate(db, report)
       THEN /\ inbox' = inbox \ InboxOf(log.network)
            /\ listening' = listening \ {log.network}
            /\ UNCHANGED db
       ELSE /\ db' = InsertReport(db, report)
            /\ inbox' = inbox \ {log}
            /\ UNCHANGED listening
    /\ UNCHANGED <<emitted, faults>>

ListenForEvents(network) ==
    /\ network \in DOMAIN EventsOf \ listening
    /\ listening' = listening \cup {network}
    /\ UNCHANGED <<db, emitted, inbox, faults>>

\* A signal, an error of the provider or of the database.
ExitListener(network) ==
    /\ network \in listening
    /\ Fault
    /\ listening' = listening \ {network}
    /\ inbox' = inbox \ InboxOf(network)
    /\ UNCHANGED <<db, emitted>>

(***************************************************************************)
(* The commands of the operator.  Each saves the reports of one event of   *)
(* one transaction, concurrently.  They all have the same key: the first   *)
(* one that is inserted wins, and the command fails.                       *)
(***************************************************************************)
Commands ==
    [getUserOperation |-> "UserOperation", getOperationQueued |-> "OperationQueued",
     getOperationExecuted |-> "OperationExecuted", getChallengePending |-> "ChallengePending",
     getActorsPropagated |-> "ActorsPropagated"]

GetEventLogsFromTransaction(tx, event) == {log \in emitted : log.tx = tx /\ log.event = event}

SaveReport(command, log, now) ==
    /\ log \in GetEventLogsFromTransaction(log.tx, Commands[command])
    /\ ~IsDuplicate(db, BuildReport(log, now))
    /\ db' = InsertReport(db, BuildReport(log, now))
    /\ UNCHANGED <<emitted, listening, inbox, faults>>

===============================================================================
