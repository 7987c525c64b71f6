----------------------------- MODULE RelayerProofs -----------------------------
(***************************************************************************)
(* What is proved of the two loops of a relayer that share a collection.   *)
(*                                                                         *)
(* A loop works on copies of reports that it read a while ago, and writes  *)
(* them back whole.  The proofs rest on what the other loop, its listeners *)
(* and the chain can do meanwhile: as long as the proposer holds a report, *)
(* the collection has it as detected, and as long as the finalizer holds   *)
(* one, the collection has it as proposed, with the same hash.  So that no *)
(* two of them ever hold the same report.                                  *)
(***************************************************************************)
EXTENDS Relayer, RequestProcessorProofs, FiniteSetTheorems

-----------------------------------------------------------------------------
(***************************************************************************)
(* The reports of the collection and those the loops hold.                 *)
(***************************************************************************)
KnownReports == {r \in ReportType : \E log \in Logs : IsReportOf(r, log)}

ReportsFor(p) == {r \in KnownReports : r.destination = NetworkOf[p]}

LEMMA TheLoops ==
    /\ Loops = {Proposer, Finalizer} /\ Proposer # Finalizer
    /\ \A p \in Loops : NetworkOf[p] \in Networks
<1>1. Loops = {Proposer, Finalizer}
  BY RelayerAssumption
<1>2. Proposer # Finalizer
  BY DEF Proposer, Finalizer
<1> QED
  BY <1>1, <1>2, ProcessorAssumption

\* Null stands for no report and for no transaction.
LEMMA NullIsNeither ==
    /\ \A r \in KnownReports : r # Null
    /\ \A tx \in Transactions : tx # Null
  BY RelayerAssumption DEF KnownReports

\* The operation of a report for a chain of the configuration is one the hub may queue.
LEMMA OperationOfReport ==
    ASSUME NEW r \in KnownReports, r.destination \in Networks
    PROVE  /\ ParseUserOperation(r) = r.operationId
           /\ r.operationId \in Operations
<1>1. PICK log \in Logs : IsReportOf(r, log)
  BY DEF KnownReports
<1>2. log.event = "UserOperation" /\ HasOperation(log)
  BY RelayerAssumption DEF HasOperation
<1>3. log.args.destination \in Networks
  BY <1>1, <1>2 DEF IsReportOf, ArgOf
<1>4. ParseUserOperation(r) = r.operationId
  BY <1>1, <1>2, <1>3, ParsedOperation
<1>5. r.operationId \in Operations
  BY <1>1, <1>2, <1>3, ProcessorAssumption DEF IsReportOf
<1> QED
  BY <1>4, <1>5

\* Two reports of the same operation have the same key.
LEMMA SameOperationSameKey ==
    ASSUME NEW r \in KnownReports, NEW other \in KnownReports,
           other.destination \in Networks, r.operationId = other.operationId
    PROVE  r._id = other._id
<1>1. PICK log \in Logs : IsReportOf(r, log)
  BY DEF KnownReports
<1>2. PICK source \in Logs : IsReportOf(other, source)
  BY DEF KnownReports
<1>3. log.event = "UserOperation" /\ source.event = "UserOperation"
  BY RelayerAssumption
<1>4. source.args.destination \in Networks
  BY <1>2, <1>3 DEF IsReportOf, ArgOf, HasOperation
<1>5. EventId(source) = [origin |-> <<source.network, source.tx>>,
                         destination |-> source.args.destination, body |-> source.args.body]
  BY <1>3, <1>4, IdsOfUserOperations
<1>6. EventId(log) = EventId(source)
  BY <1>1, <1>2 DEF IsReportOf
<1>7. EventId(log).destination \in Networks
  BY <1>4, <1>5, <1>6
<1>8. log.args.destination \in Networks
  BY <1>3, <1>7, IdsOfUserOperations, ListenerAssumption
<1>9. EventId(log) = [origin |-> <<log.network, log.tx>>,
                      destination |-> log.args.destination, body |-> log.args.body]
  BY <1>3, <1>8, IdsOfUserOperations
<1>10. <<log.network, log.tx>> = <<source.network, source.tx>>
  <2>1. EventId(log).origin = <<log.network, log.tx>>
    BY <1>9
  <2>2. EventId(source).origin = <<source.network, source.tx>>
    BY <1>5
  <2> QED
    BY <1>6, <2>1, <2>2
<1>11. log.network = source.network /\ log.tx = source.tx
  BY <1>10
<1> QED
  BY <1>1, <1>2, <1>3, <1>11 DEF IsReportOf, ReportKey

\* What a listener inserts.
LEMMA InsertedReport ==
    ASSUME NEW log \in Logs, NEW now \in 0..MaxTime
    PROVE  /\ BuildReport(log, now) \in KnownReports
           /\ BuildReport(log, now)._id = ReportKey(log)
           /\ BuildReport(log, now).status = "detected"
           /\ BuildReport(log, now).proposalTxHash = Null
<1> DEFINE r == BuildReport(log, now)
<1>1. log.event = "UserOperation" /\ HasOperation(log) /\ log.network \in Networks
  BY RelayerAssumption, ListenerAssumption DEF HasOperation
<1>2. ArgOf(log, "destination") = log.args.destination /\ InitialStatus(log) = "detected"
  BY <1>1 DEF ArgOf, InitialStatus
<1>3. r = [_id |-> ReportKey(log), eventName |-> log.event, status |-> "detected",
           operationId |-> EventId(log), networkId |-> log.network,
           destination |-> log.args.destination, eventArgs |-> log.args,
           transactionHash |-> log.tx, witnessedTs |-> now, proposalTs |-> Null,
           proposalTxHash |-> Null, finalTxHash |-> Null]
  BY <1>2, BuiltReport
<1> HIDE DEF r
<1>4. r \in ReportType
  BY <1>1, <1>2, <1>3 DEF ReportType, EventNames, TxStatuses
<1>5. IsReportOf(r, log)
  BY <1>2, <1>3 DEF IsReportOf
<1>6. r \in KnownReports /\ r._id = ReportKey(log) /\ r.status = "detected" /\ r.proposalTxHash = Null
  BY <1>3, <1>4, <1>5 DEF KnownReports
<1> QED
  BY <1>6 DEF r

\* What a loop makes of a report is a report of the same log.
SameButStatus(r, report) ==
    /\ r \in KnownReports
    /\ r._id = report._id /\ r.operationId = report.operationId
    /\ r.destination = report.destination

LEMMA ChangedStatus ==
    ASSUME NEW report \in KnownReports, NEW s \in TxStatuses
    PROVE  LET r == [report EXCEPT !.status = s]
           IN SameButStatus(r, report) /\ r.status = s /\ r.proposalTxHash = report.proposalTxHash
<1> DEFINE r == [report EXCEPT !.status = s]
<1>1. PICK log \in Logs : IsReportOf(report, log)
  BY DEF KnownReports
<1>2. report \in ReportType
  BY DEF KnownReports
<1>3. r \in ReportType /\ r.status = s /\ r.proposalTxHash = report.proposalTxHash
  BY <1>2 DEF ReportType
<1>4. IsReportOf(r, log) /\ r._id = report._id /\ r.operationId = report.operationId
        /\ r.destination = report.destination
  BY <1>1, <1>2 DEF IsReportOf, ReportType
<1> QED
  BY <1>3, <1>4 DEF SameButStatus, KnownReports

LEMMA ChangedFinalTxHash ==
    ASSUME NEW report \in KnownReports, NEW hash \in {"0x", "hash"}
    PROVE  LET r == [report EXCEPT !.finalTxHash = hash]
           IN /\ SameButStatus(r, report) /\ r.status = report.status
              /\ r.proposalTxHash = report.proposalTxHash
<1> DEFINE r == [report EXCEPT !.finalTxHash = hash]
<1>1. PICK log \in Logs : IsReportOf(report, log)
  BY DEF KnownReports
<1>2. report \in ReportType
  BY DEF KnownReports
<1>3. r \in ReportType /\ r.status = report.status /\ r.proposalTxHash = report.proposalTxHash
  BY <1>2 DEF ReportType
<1>4. IsReportOf(r, log) /\ r._id = report._id /\ r.operationId = report.operationId
        /\ r.destination = report.destination
  BY <1>1, <1>2 DEF IsReportOf, ReportType
<1> QED
  BY <1>3, <1>4 DEF SameButStatus, KnownReports

LEMMA ChangedProposal ==
    ASSUME NEW report \in KnownReports, NEW now \in 0..MaxTime, NEW hash \in {"0x", "hash"}
    PROVE  LET r == [report EXCEPT !.proposalTs = now, !.proposalTxHash = hash]
           IN SameButStatus(r, report) /\ r.status = report.status
<1>1. PICK log \in Logs : IsReportOf(report, log)
  BY DEF KnownReports
<1>2. report \in ReportType
  BY DEF KnownReports
<1>3. PICK q : q = [report EXCEPT !.proposalTs = now]
  OBVIOUS
<1>4. q \in ReportType /\ q.status = report.status
  BY <1>2, <1>3 DEF ReportType
<1>5. IsReportOf(q, log) /\ q._id = report._id /\ q.operationId = report.operationId
        /\ q.destination = report.destination
  BY <1>1, <1>2, <1>3 DEF IsReportOf, ReportType
<1>6. PICK r : r = [q EXCEPT !.proposalTxHash = hash]
  OBVIOUS
<1>7. r \in ReportType /\ r.status = report.status
  BY <1>4, <1>6 DEF ReportType
<1>8. IsReportOf(r, log) /\ r._id = report._id /\ r.operationId = report.operationId
        /\ r.destination = report.destination
  BY <1>4, <1>5, <1>6 DEF IsReportOf, ReportType
<1>9. [report EXCEPT !.proposalTs = now, !.proposalTxHash = hash] = r
  BY <1>3, <1>6
<1> QED
  BY <1>7, <1>8, <1>9 DEF SameButStatus, KnownReports

\* What the loops write on a report, from the fields they change.
LEMMA AmendedReports ==
    ASSUME NEW report \in KnownReports, NEW now \in 0..MaxTime, NEW hash \in {"0x", "hash"}
    PROVE  /\ SameButStatus(AddProposedTxHash(report, hash, now), report)
           /\ AddProposedTxHash(report, hash, now).status = "proposed"
           /\ SameButStatus(SkipEvent(report, now), report)
           /\ SkipEvent(report, now).status = "skipped"
           /\ SameButStatus(AddFinalizedTxHash(report, hash), report)
           /\ AddFinalizedTxHash(report, hash).status = "finalized"
           /\ AddFinalizedTxHash(report, hash).proposalTxHash = report.proposalTxHash
           /\ SameButStatus(AddError(report), report)
           /\ AddError(report).status = "failed"
           /\ AddError(report).proposalTxHash = report.proposalTxHash
<1>1. SameButStatus(AddError(report), report) /\ AddError(report).status = "failed"
        /\ AddError(report).proposalTxHash = report.proposalTxHash
  BY ChangedStatus DEF AddError, TxStatuses
<1>2. ASSUME NEW s \in {"proposed", "skipped"}, NEW h \in {"0x", "hash"}
      PROVE  LET r == [report EXCEPT !.status = s, !.proposalTs = now, !.proposalTxHash = h]
             IN SameButStatus(r, report) /\ r.status = s
  <2>1. PICK q : q = [report EXCEPT !.status = s]
    OBVIOUS
  <2>2. SameButStatus(q, report) /\ q.status = s
    BY <2>1, ChangedStatus DEF TxStatuses
  <2>3. PICK r : r = [q EXCEPT !.proposalTs = now, !.proposalTxHash = h]
    OBVIOUS
  <2>4. q \in KnownReports
    BY <2>2 DEF SameButStatus
  <2>5. SameButStatus(r, q) /\ r.status = s
    BY <2>2, <2>3, <2>4, ChangedProposal
  <2>6. [report EXCEPT !.status = s, !.proposalTs = now, !.proposalTxHash = h] = r
    BY <2>1, <2>3
  <2> QED
    BY <2>2, <2>5, <2>6 DEF SameButStatus
<1>3. SameButStatus(AddProposedTxHash(report, hash, now), report)
        /\ AddProposedTxHash(report, hash, now).status = "proposed"
  BY <1>2 DEF AddProposedTxHash
<1>4. SameButStatus(SkipEvent(report, now), report) /\ SkipEvent(report, now).status = "skipped"
  BY <1>2 DEF SkipEvent
<1>5. /\ SameButStatus(AddFinalizedTxHash(report, hash), report)
      /\ AddFinalizedTxHash(report, hash).status = "finalized"
      /\ AddFinalizedTxHash(report, hash).proposalTxHash = report.proposalTxHash
  <2>1. PICK q : q = [report EXCEPT !.status = "finalized"]
    OBVIOUS
  <2>2. /\ SameButStatus(q, report) /\ q.status = "finalized"
        /\ q.proposalTxHash = report.proposalTxHash
    BY <2>1, ChangedStatus DEF TxStatuses
  <2>3. PICK r : r = [q EXCEPT !.finalTxHash = hash]
    OBVIOUS
  <2>4. q \in KnownReports
    BY <2>2 DEF SameButStatus
  <2>5. /\ SameButStatus(r, q) /\ r.status = q.status /\ r.proposalTxHash = q.proposalTxHash
    BY <2>3, <2>4, ChangedFinalTxHash
  <2>6. AddFinalizedTxHash(report, hash) = r
    BY <2>1, <2>3 DEF AddFinalizedTxHash
  <2> QED
    BY <2>2, <2>5, <2>6 DEF SameButStatus
<1> QED
  BY <1>1, <1>3, <1>4, <1>5

-----------------------------------------------------------------------------
(***************************************************************************)
(* The rounds.  A loop holds at most one copy of each report, and waits    *)
(* for the transaction of a report it still has to handle.  The copies it  *)
(* made itself, and those it is about to write, are no longer detected.    *)
(***************************************************************************)
StepsOf(p) ==
    IF p = Proposer THEN {"read", "status", "reflect", "build", "write"}
    ELSE {"read", "filter", "build", "write"}

CallOf(p) == IF p = Proposer THEN "queue" ELSE "execute"

States(p) ==
    [at : StepsOf(p), todo : SUBSET ReportsFor(p), done : SUBSET ReportsFor(p), proof : {Null},
     report : ReportsFor(p) \cup {Null}, tx : Transactions \cup {Null},
     receipt : {Null, "mined", "reverted"}]

HeldIn(s) == s.todo \cup s.done

OneCopyEach(s) ==
    /\ \A r, other \in HeldIn(s) : r._id = other._id => r = other
    /\ s.todo \cap s.done = {}

WaitsForItsOwn(p, s) ==
    IF s.tx = Null THEN s.report = Null /\ s.receipt = Null
    ELSE /\ s.at = "build" /\ s.report \in s.todo
         /\ s.tx.loop = p /\ s.tx.call = CallOf(p) /\ s.tx.id = s.report.operationId

NoneDetected(reports) == \A r \in reports : r.status # "detected"

RoundOK(p, s) ==
    /\ s \in States(p)
    /\ s.at = "read" => s = Begin
    /\ s.at \in {"reflect", "write"} => s.done = {}
    /\ OneCopyEach(s)
    /\ WaitsForItsOwn(p, s)
    /\ NoneDetected(s.done)
    /\ s.at = "status" => \A r \in s.todo : r.status = "detected"
    /\ p = Finalizer \/ s.at \in {"reflect", "write"} => NoneDetected(s.todo)

LEMMA BeginOK ==
    ASSUME NEW p \in Loops
    PROVE  RoundOK(p, Begin)
<1>1. Begin \in States(p)
  BY DEF Begin, States, StepsOf
<1> QED
  BY <1>1 DEF RoundOK, Begin, OneCopyEach, HeldIn, WaitsForItsOwn, NoneDetected

\* A round without a transaction is in order if its reports are.
LEMMA RoundIsOK ==
    ASSUME NEW p \in Loops, NEW step \in StepsOf(p) \ {"read"},
           NEW todo \in SUBSET ReportsFor(p), NEW done \in SUBSET ReportsFor(p),
           step \in {"reflect", "write"} => done = {},
           \A r, other \in todo \cup done : r._id = other._id => r = other,
           todo \cap done = {},
           NoneDetected(done),
           step = "status" => \A r \in todo : r.status = "detected",
           p = Finalizer \/ step \in {"reflect", "write"} => NoneDetected(todo)
    PROVE  RoundOK(p, Round(step, todo, done))
<1> DEFINE s == Round(step, todo, done)
<1>1. s \in States(p)
  BY DEF Round, States
<1>2. s.at = step /\ s.todo = todo /\ s.done = done /\ s.report = Null /\ s.tx = Null
        /\ s.receipt = Null
  BY DEF Round
<1> HIDE DEF s
<1>3. RoundOK(p, s)
  BY <1>1, <1>2 DEF RoundOK, OneCopyEach, HeldIn, WaitsForItsOwn
<1> QED
  BY <1>3 DEF s

\* A loop that is done with a report goes on with what it made of it.
NextStep(step) == CASE step = "filter" -> "build" [] step = "build" -> "write" [] OTHER -> "read"

LEMMA AfterHandlingOK ==
    ASSUME NEW p \in Loops, NEW s, RoundOK(p, s),
           s.at \in {"filter", "build", "write"},
           NEW report \in s.todo, NEW results \in SUBSET ReportsFor(p),
           NoneDetected(results), s.at = "write" => results = {},
           \A r \in results : r._id = report._id,
           \A r, other \in results : r = other
    PROVE  LET t == AfterHandling(s, report, results, NextStep(s.at))
           IN /\ RoundOK(p, t)
              /\ HeldIn(t) \subseteq (HeldIn(s) \ {report}) \cup results
              /\ t.tx = Null /\ t.receipt = Null
<1> DEFINE todo == s.todo \ {report}
           done == s.done \cup results
           t == AfterHandling(s, report, results, NextStep(s.at))
<1>1. todo \subseteq ReportsFor(p) /\ done \subseteq ReportsFor(p) /\ s.at \in StepsOf(p)
  BY DEF RoundOK, States
<1>2. todo \cap results = {} /\ \A r, other \in todo \cup done : r._id = other._id => r = other
  BY DEF RoundOK, OneCopyEach, HeldIn
<1>3. todo \cap done = {} /\ NoneDetected(done)
  BY <1>2 DEF RoundOK, OneCopyEach, NoneDetected
<1>4. report \notin s.done
  BY DEF RoundOK, OneCopyEach
<1>5. CASE todo # {}
  <2>1. t = Round(s.at, todo, done)
    BY <1>5 DEF AfterHandling
  <2>2. s.at \in {"reflect", "write"} => done = {}
    BY DEF RoundOK
  <2>3. p = Finalizer \/ s.at \in {"reflect", "write"} => NoneDetected(todo)
    BY DEF RoundOK, NoneDetected
  <2>4. s.at \in StepsOf(p) \ {"read"} /\ s.at # "status"
    BY <1>1
  <2>5. RoundOK(p, Round(s.at, todo, done))
    <3> HIDE DEF todo, done
    <3> QED
      BY <1>1, <1>2, <1>3, <2>2, <2>3, <2>4, RoundIsOK
  <2> QED
    BY <1>4, <2>1, <2>5 DEF Round, HeldIn
<1>6. CASE todo = {} /\ done # {}
  <2>1. t = Round(NextStep(s.at), done, {})
    BY <1>6 DEF AfterHandling
  <2>2. s.at # "write"
    BY <1>6 DEF RoundOK
  <2>3. NextStep(s.at) \in StepsOf(p) \ {"read"} /\ NextStep(s.at) # "status"
    BY <2>2, <1>1 DEF NextStep, StepsOf
  <2>4. /\ {} \in SUBSET ReportsFor(p) /\ done \cap {} = {} /\ NoneDetected({})
        /\ \A r, other \in done \cup {} : r._id = other._id => r = other
    BY <1>2 DEF NoneDetected
  <2>5. RoundOK(p, Round(NextStep(s.at), done, {}))
    <3> DEFINE step == NextStep(s.at)
    <3> HIDE DEF step, done
    <3> QED
      BY <1>1, <1>3, <2>3, <2>4, RoundIsOK
  <2> QED
    BY <1>4, <2>1, <2>5 DEF Round, HeldIn
<1>7. CASE todo = {} /\ done = {}
  <2>1. t = Begin
    BY <1>7 DEF AfterHandling
  <2> QED
    BY <2>1, BeginOK DEF Begin, HeldIn
<1> QED
  BY <1>5, <1>6, <1>7

-----------------------------------------------------------------------------
(***************************************************************************)
(* The types of the relayer, its rounds included.                          *)
(***************************************************************************)
DbType ==
    \A key \in DOMAIN db :
        /\ db[key] \in KnownReports /\ db[key]._id = key
        /\ db[key].status = "detected" => db[key].proposalTxHash = Null

ListenerType ==
    /\ emitted \subseteq Logs /\ inbox \subseteq emitted
    /\ listening \subseteq DOMAIN EventsOf
    /\ faults \in 0..MaxFaults

LoopType ==
    /\ DOMAIN loop = Loops
    /\ \A p \in Loops : RoundOK(p, loop[p])
    /\ mempool \subseteq Transactions

HubType ==
    /\ clock \in 0..MaxTime
    /\ status \in [Operations -> {"NotQueued", "Queued", "Executed", "Cancelled"}]
    /\ DOMAIN objections = Operations
    /\ ours \subseteq Operations

RelayerType == DbType /\ ListenerType /\ LoopType /\ HubType

-----------------------------------------------------------------------------
(***************************************************************************)
(* What a step of the relayer is, whoever makes it.                        *)
(***************************************************************************)
\* The step of a loop leaves the listeners and the hub alone.
LoopStep == UNCHANGED <<emitted, listening, inbox, hubVars>>

\* A loop goes on to a step with the reports it found in the collection.
Collects(p) ==
    /\ loop[p].at \in {"read", "reflect"}
    /\ \E step \in StepsOf(p) \ {"read", "reflect", "write"}, reports \in SUBSET Reports(db) :
          /\ \A r \in reports :
                /\ r.destination = NetworkOf[p]
                /\ r.status = IF p = Proposer THEN "detected" ELSE "proposed"
          /\ loop' = [loop EXCEPT ![p] = IF reports = {} THEN Begin ELSE Round(step, reports, {})]
    /\ UNCHANGED <<db, faults, mempool>> /\ LoopStep

\* The proposer compares a report with the hub, and keeps it if their statuses differ.
Compares(report) ==
    LET s == loop[Proposer]
        updated == [report EXCEPT !.status = StatusOfOnChainStatus[status[report.operationId]]]
        todo == s.todo \ {report}
        done == s.done \cup ({updated} \ {report})
    IN
    /\ s.at = "status" /\ report \in s.todo
    /\ loop' = [loop EXCEPT ![Proposer] =
          IF todo = {} THEN Round("reflect", done, {}) ELSE Round("status", todo, done)]
    /\ UNCHANGED <<db, faults, mempool>> /\ LoopStep

\* A loop writes a report over that of the collection.
Writes(p, report) ==
    LET s == loop[p]
        todo == s.todo \ {report}
    IN
    /\ s.at \in {"reflect", "write"} /\ report \in s.todo
    /\ db' = UpdateReport(db, report)
    /\ loop' = [loop EXCEPT ![p] =
          IF s.at = "write" /\ todo = {} THEN Begin ELSE Round(s.at, todo, {})]
    /\ UNCHANGED <<faults, mempool>> /\ LoopStep

\* The errors of gas estimation after which a report is given up.
Refused(p, op) ==
    IF p = Proposer THEN QueueError(op) \notin {"None", "LockDown", "OperationAlreadyQueued"}
    ELSE ExecuteError(op) \notin {"None", "LockDown", "ChallengePeriodNotTerminated",
                                  "OperationAlreadyExecuted"}

\* Why a loop makes r of a report.
Reason(p, report, r) ==
    LET op == report.operationId
        s == loop[p]
    IN
    \/ r = report
    \/ r.status = "proposed" /\ (status[op] = "Queued" \/ s.receipt = "mined")
    \/ r.status = "finalized" /\ p = Finalizer /\ (status[op] = "Executed" \/ s.receipt = "mined")
    \/ /\ r.status \in {"skipped", "failed"}
       /\ \/ op \in Unpaid \/ faults' > 0
          \/ p = Proposer /\ s.receipt = "reverted"
          \/ r.status = "failed" /\ s.at = "build" /\ s.tx = Null /\ Refused(p, op)

\* A loop is done with a report, with at most one result.
Settles(p, report, results) ==
    LET s == loop[p] IN
    /\ s.at \in {"filter", "build"} /\ report \in s.todo
    /\ s.tx # Null => report = s.report
    /\ s.tx # Null => IF s.receipt = Null THEN faults' > 0 ELSE results # {}
    /\ \A r, other \in results : r = other
    /\ \A r \in results :
          /\ SameButStatus(r, report) /\ r.status # "detected"
          /\ p = Finalizer => r.proposalTxHash = report.proposalTxHash
          /\ Reason(p, report, r)
    /\ loop' = [loop EXCEPT ![p] = AfterHandling(s, report, results, NextStep(s.at))]
    /\ UNCHANGED <<db, mempool>> /\ LoopStep
    /\ UNCHANGED faults \/ Fault

\* A loop sends the transaction of a report and waits for it.
Sends(p, report, tx) ==
    LET s == loop[p] IN
    /\ s.at = "build" /\ report \in s.todo /\ s.tx = Null
    /\ tx \in Transactions
    /\ tx.loop = p /\ tx.call = CallOf(p) /\ tx.id = report.operationId
    /\ mempool' = mempool \cup {tx}
    /\ loop' = [loop EXCEPT ![p] = [s EXCEPT !.report = report, !.tx = tx]]
    /\ UNCHANGED <<db, faults>> /\ LoopStep

\* A process exits, because of a fault or of a transaction that was reverted.
Quits(p) ==
    /\ \/ Fault
       \/ UNCHANGED faults /\ loop[p].receipt = "reverted" /\ p = Finalizer
    /\ loop' = [loop EXCEPT ![p] = Begin]
    /\ UNCHANGED <<db, mempool>> /\ LoopStep

\* A transaction is mined.
Mines(tx, result) ==
    /\ tx \in mempool /\ mempool' = mempool \ {tx}
    /\ Receipt(tx, result)
    /\ \/ /\ result = "reverted"
          /\ tx.call = "queue" => QueueError(tx.id) # "None"
          /\ UNCHANGED hubVars
       \/ /\ result = "mined" /\ UNCHANGED lockDown
          /\ \/ tx.call = "queue" /\ Hub!Queue(tx.id) /\ ours' = ours \cup {tx.id}
             \/ tx.call = "execute" /\ Hub!Execute(tx.id) /\ UNCHANGED ours
    /\ UNCHANGED listenerVars

\* A listener, or the operator, inserts a report, or something happens to the listeners.
Inserts(log) ==
    /\ ReportKey(log) \notin DOMAIN db
    /\ db' = InsertReport(db, BuildReport(log, clock))

Listens ==
    /\ UNCHANGED db \/ \E log \in Logs : Inserts(log)
    /\ UNCHANGED faults \/ Fault
    /\ ListenerType'
    /\ UNCHANGED <<loop, mempool, hubVars>>

\* The chain goes on without this relayer.
ChainMoves ==
    /\ \/ clock < MaxTime /\ Hub!Advance /\ UNCHANGED lockDown
       \/ /\ \E op \in Operations :
                Hub!Queue(op) \/ Hub!Execute(op) \/ \E class \in Classes : Hub!Object(op, class)
          /\ UNCHANGED lockDown
       \/ /\ lockDown' # "before"
          /\ UNCHANGED <<clock, status, queuedAt, objections>>
    /\ UNCHANGED <<listenerVars, loop, mempool, ours>>

StepKind ==
    \/ \E p \in Loops : Collects(p) \/ Quits(p)
    \/ \E report \in loop[Proposer].todo : Compares(report)
    \/ \E p \in Loops : \E report \in loop[p].todo :
          \/ Writes(p, report)
          \/ \E results : Settles(p, report, results)
          \/ \E tx \in Transactions : Sends(p, report, tx)
    \/ \E tx \in mempool, result \in {"mined", "reverted"} : Mines(tx, result)
    \/ Listens
    \/ ChainMoves

LEMMA ReadCollects ==
    ASSUME NEW p \in Loops, NEW from \in {"read", "reflect"},
           NEW step \in StepsOf(p) \ {"read", "reflect", "write"},
           NEW reports \in SUBSET Reports(db), Read(p, from, reports, step),
           \A r \in reports : /\ r.destination = NetworkOf[p]
                              /\ r.status = IF p = Proposer THEN "detected" ELSE "proposed"
    PROVE  Collects(p)
<1>1. loop' = [loop EXCEPT ![p] = IF reports = {} THEN Begin ELSE Round(step, reports, {})]
  BY StateAtIsRound DEF Read, GoTo
<1>2. loop[p].at \in {"read", "reflect"}
  BY DEF Read, At
<1>3. UNCHANGED <<db, faults, mempool>> /\ LoopStep
  BY DEF Read, LoopStep, listenerVars
<1> QED
  BY <1>1, <1>2, <1>3 DEF Collects

LEMMA ReadingIsKind ==
    /\ GetDetected \/ GetDetectedAgain => Collects(Proposer)
    /\ GetProposed => Collects(Finalizer)
<1>1. Proposer \in Loops /\ Finalizer \in Loops /\ Finalizer # Proposer
  BY TheLoops
<1>2. /\ Detected(Proposer) \in SUBSET Reports(db)
      /\ \A r \in Detected(Proposer) :
            r.destination = NetworkOf[Proposer] /\ r.status = "detected"
  BY DEF Detected, GetDetectedEvents, ValidReports, WithNameAndStatus
<1>3. /\ GetProposedEvents(db, NetworkOf[Finalizer]) \in SUBSET Reports(db)
      /\ \A r \in GetProposedEvents(db, NetworkOf[Finalizer]) :
            r.destination = NetworkOf[Finalizer] /\ r.status = "proposed"
  BY DEF GetProposedEvents, ValidReports, WithNameAndStatus
<1>4. /\ {"status", "build"} \subseteq StepsOf(Proposer) \ {"read", "reflect", "write"}
      /\ "filter" \in StepsOf(Finalizer) \ {"read", "reflect", "write"}
  BY <1>1 DEF StepsOf
<1>5. GetDetected => Collects(Proposer)
  <2> DEFINE reports == Detected(Proposer)
  <2>1. GetDetected => Read(Proposer, "read", reports, "status")
    BY DEF GetDetected
  <2> HIDE DEF reports
  <2>2. Read(Proposer, "read", reports, "status") => Collects(Proposer)
    BY <1>1, <1>2, <1>4, ReadCollects DEF reports
  <2> QED
    BY <2>1, <2>2
<1>6. GetDetectedAgain => Collects(Proposer)
  <2>1. GetDetectedAgain => Read(Proposer, "reflect", Detected(Proposer), "build")
    BY DEF GetDetectedAgain, ReadAgain
  <2>2. Read(Proposer, "reflect", Detected(Proposer), "build") => Collects(Proposer)
    BY <1>1, <1>2, <1>4, ReadCollects
  <2> QED
    BY <2>1, <2>2
<1>7. GetProposed => Collects(Finalizer)
  <2>1. GetProposed => Read(Finalizer, "read", GetProposedEvents(db, NetworkOf[Finalizer]), "filter")
    BY DEF GetProposed
  <2>2. Read(Finalizer, "read", GetProposedEvents(db, NetworkOf[Finalizer]), "filter")
          => Collects(Finalizer)
    BY <1>1, <1>3, <1>4, ReadCollects
  <2> QED
    BY <2>1, <2>2
<1> QED
  BY <1>5, <1>6, <1>7

\* A held report is one the hub knows the operation of.
LEMMA HeldReports ==
    ASSUME LoopType, NEW p \in Loops, NEW report \in loop[p].todo \cup loop[p].done
    PROVE  /\ report \in ReportsFor(p) /\ report \in KnownReports
           /\ report.destination \in Networks
           /\ ParseUserOperation(report) = report.operationId
           /\ report.operationId \in Operations
<1>1. loop[p] \in States(p)
  BY DEF LoopType, RoundOK
<1>2. report \in ReportsFor(p)
  BY <1>1 DEF States
<1>3. report \in KnownReports /\ report.destination \in Networks
  BY <1>2, TheLoops DEF ReportsFor
<1> QED
  BY <1>2, <1>3, OperationOfReport

\* The state of a loop that waits for no transaction is given by its step and its reports.
LEMMA WithoutTransaction ==
    ASSUME NEW p \in Loops, NEW s, RoundOK(p, s), s.tx = Null
    PROVE  s = Round(s.at, s.todo, s.done)
<1>1. s.proof = Null /\ s.report = Null /\ s.receipt = Null /\ s \in States(p)
  BY DEF RoundOK, States, WaitsForItsOwn
<1>2. s = [f \in {"at", "todo", "done", "proof", "report", "tx", "receipt"} |-> s[f]]
  BY <1>1 DEF States
<1> QED
  BY <1>1, <1>2, RoundsByFields

LEMMA ComparingIsKind ==
    ASSUME LoopType, NEW report \in loop[Proposer].todo, GetOperationStatus(Proposer, report)
    PROVE  Compares(report)
<1> DEFINE s == loop[Proposer]
           updated == [report EXCEPT !.status = StatusOfOnChainStatus[status[report.operationId]]]
           todo == s.todo \ {report}
           done == s.done \cup ({updated} \ {report})
<1>1. Proposer \in Loops /\ Proposer \in DOMAIN loop /\ RoundOK(Proposer, s)
  BY TheLoops DEF LoopType
<1>2. ParseUserOperation(report) = report.operationId
  BY <1>1, HeldReports
<1>3. s.at = "status"
  BY DEF GetOperationStatus, At
<1>4. s.tx = Null
  BY <1>1, <1>3 DEF RoundOK, WaitsForItsOwn
<1>5. s = Round("status", s.todo, s.done)
  BY <1>1, <1>3, <1>4, WithoutTransaction
<1>6. loop' = [loop EXCEPT ![Proposer].todo = IF todo = {} THEN done ELSE todo,
                           ![Proposer].done = IF todo = {} THEN {} ELSE done,
                           ![Proposer].at = IF todo = {} THEN "reflect" ELSE @]
  BY <1>2 DEF GetOperationStatus
<1>7. loop' = [loop EXCEPT ![Proposer] =
                 IF todo = {} THEN Round("reflect", done, {}) ELSE Round("status", todo, done)]
  <2> DEFINE a == IF todo = {} THEN done ELSE todo
             b == IF todo = {} THEN {} ELSE done
             c == IF todo = {} THEN "reflect" ELSE "status"
             fields == {"at", "todo", "done", "proof", "report", "tx", "receipt"}
  <2>1. loop' = [loop EXCEPT ![Proposer].todo = a, ![Proposer].done = b, ![Proposer].at = c]
    BY <1>1, <1>3, <1>6
  <2> HIDE DEF a, b, c, s
  <2>2. PICK first : first = [loop EXCEPT ![Proposer].todo = a]
    OBVIOUS
  <2>3. PICK second : second = [first EXCEPT ![Proposer].done = b]
    OBVIOUS
  <2>4. loop' = [second EXCEPT ![Proposer].at = c]
    BY <2>1, <2>2, <2>3
  <2>5. PICK s1 : s1 = [s EXCEPT !.todo = a]
    OBVIOUS
  <2>6. PICK s2 : s2 = [s1 EXCEPT !.done = b]
    OBVIOUS
  <2>7. PICK s3 : s3 = [s2 EXCEPT !.at = c]
    OBVIOUS
  <2>8. first = [loop EXCEPT ![Proposer] = s1] /\ first[Proposer] = s1 /\ Proposer \in DOMAIN first
    BY <1>1, <2>2, <2>5, ChangedField, ChangedTwice DEF s
  <2>9. /\ second = [loop EXCEPT ![Proposer] = s2] /\ second[Proposer] = s2
        /\ Proposer \in DOMAIN second
    <3>1. second = [first EXCEPT ![Proposer] = s2]
      BY <2>3, <2>6, <2>8, ChangedField
    <3> QED
      BY <1>1, <2>8, <3>1, ChangedTwice
  <2>10. loop' = [loop EXCEPT ![Proposer] = s3]
    <3>1. loop' = [second EXCEPT ![Proposer] = s3]
      BY <2>4, <2>7, <2>9, ChangedField
    <3> QED
      BY <1>1, <2>9, <3>1, ChangedTwice
  <2>11. s3 = Round(c, a, b)
    <3>1. s = [f \in fields |-> s[f]] /\ DOMAIN s = fields
      BY <1>5 DEF Round
    <3>2. s1 = [f \in fields |-> s1[f]] /\ s1.todo = a /\ \A f \in fields \ {"todo"} : s1[f] = s[f]
      BY <2>5, <3>1
    <3>3. s2 = [f \in fields |-> s2[f]] /\ s2.done = b /\ \A f \in fields \ {"done"} : s2[f] = s1[f]
      BY <2>6, <3>2
    <3>4. s3 = [f \in fields |-> s3[f]] /\ s3.at = c /\ \A f \in fields \ {"at"} : s3[f] = s2[f]
      BY <2>7, <3>3
    <3>5. s3.todo = a /\ s3.done = b
      BY <3>2, <3>3, <3>4
    <3>6. s3.proof = Null /\ s3.report = Null /\ s3.tx = Null /\ s3.receipt = Null
      BY <1>5, <3>2, <3>3, <3>4 DEF Round
    <3> QED
      BY <3>4, <3>5, <3>6, RoundsByFields
  <2> QED
    BY <2>10, <2>11 DEF a, b, c
<1>8. UNCHANGED <<db, faults, mempool>> /\ LoopStep
  BY DEF GetOperationStatus, LoopStep, listenerVars
<1> HIDE DEF s
<1> QED
  BY <1>3, <1>7, <1>8 DEF Compares, s

LEMMA WritingIsKind ==
    ASSUME LoopType, NEW p \in Loops, NEW report \in loop[p].todo,
           SetCorrectRequestStatusInDb(p, report) \/ UpdateEventsInDb(p, report)
    PROVE  Writes(p, report)
<1> DEFINE s == loop[p]
           todo == s.todo \ {report}
<1>1. p \in DOMAIN loop /\ RoundOK(p, s) /\ s.at \in {"reflect", "write"}
  BY DEF LoopType, SetCorrectRequestStatusInDb, UpdateEventsInDb, At
<1>2. s.tx = Null /\ s.done = {}
  BY <1>1 DEF RoundOK, WaitsForItsOwn
<1>3. db' = UpdateReport(db, report) /\ UNCHANGED <<faults, mempool>> /\ LoopStep
  BY DEF SetCorrectRequestStatusInDb, UpdateEventsInDb, UpdateEventInDb, LoopStep
<1>4. CASE SetCorrectRequestStatusInDb(p, report)
  <2>1. loop' = [loop EXCEPT ![p].todo = todo] /\ s.at = "reflect"
    BY <1>1, <1>4 DEF SetCorrectRequestStatusInDb, At
  <2>2. PICK t : t = [s EXCEPT !.todo = todo]
    OBVIOUS
  <2>3. loop' = [loop EXCEPT ![p] = t]
    BY <1>1, <2>1, <2>2, ChangedField
  <2>4. t = Round("reflect", todo, {})
    <3> DEFINE fields == {"at", "todo", "done", "proof", "report", "tx", "receipt"}
    <3>1. s = Round("reflect", s.todo, {})
      BY <1>1, <1>2, <2>1, WithoutTransaction
    <3>2. s = [f \in fields |-> s[f]] /\ DOMAIN s = fields
      BY <3>1 DEF Round
    <3>3. t = [f \in fields |-> t[f]] /\ t.todo = todo /\ \A f \in fields \ {"todo"} : t[f] = s[f]
      BY <2>2, <3>2
    <3>4. t.at = "reflect" /\ t.done = {} /\ t.proof = Null /\ t.report = Null /\ t.tx = Null
            /\ t.receipt = Null
      BY <3>1, <3>3 DEF Round
    <3> QED
      BY <3>3, <3>4, RoundsByFields
  <2> QED
    BY <1>1, <1>3, <2>1, <2>3, <2>4 DEF Writes
<1>5. CASE UpdateEventsInDb(p, report)
  <2>1. s.at = "write" /\ Handled(p, report, {}, "read")
    BY <1>5 DEF UpdateEventsInDb, At
  <2>2. loop' = [loop EXCEPT ![p] = AfterHandling(s, report, {}, "read")]
    BY <2>1, HandledIsRound
  <2>3. AfterHandling(s, report, {}, "read") = IF todo = {} THEN Begin ELSE Round("write", todo, {})
    BY <1>2, <2>1 DEF AfterHandling
  <2> QED
    BY <1>1, <1>3, <2>1, <2>2, <2>3 DEF Writes
<1> QED
  BY <1>4, <1>5

LEMMA QuittingIsKind ==
    ASSUME NEW p \in Loops, Exit(p)
    PROVE  Quits(p)
  BY DEF Exit, Quits, LoopStep, Fault

LEMMA SendingIsKind ==
    ASSUME LoopType, ListenerType, NEW p \in Loops, NEW report \in loop[p].todo,
           loop[p].at = "build", loop[p].tx = Null,
           Broadcast(p, report, CallOf(p), ParseUserOperation(report)),
           UNCHANGED <<listenerVars, hubVars>>
    PROVE  \E tx \in Transactions : Sends(p, report, tx)
<1> DEFINE s == loop[p]
           tx == [loop |-> p, call |-> CallOf(p), id |-> ParseUserOperation(report),
                  proof |-> s.proof, attempt |-> faults]
<1>1. p \in DOMAIN loop /\ s \in States(p)
  BY DEF LoopType, RoundOK
<1>2. ParseUserOperation(report) = report.operationId /\ report.operationId \in Operations
  BY HeldReports
<1>3. tx \in Transactions /\ tx.loop = p /\ tx.call = CallOf(p) /\ tx.id = report.operationId
  <2>1. s.proof \in {Null} /\ faults \in Nat /\ CallOf(p) \in {"queue", "execute"}
    BY <1>1, ListenerAssumption DEF States, ListenerType, CallOf
  <2> QED
    BY <1>2, <2>1 DEF Transactions
<1>4. mempool' = mempool \cup {tx} /\ loop' = [loop EXCEPT ![p].report = report, ![p].tx = tx]
  BY DEF Broadcast
<1> HIDE DEF tx
<1>5. loop' = [loop EXCEPT ![p] = [s EXCEPT !.report = report, !.tx = tx]]
  <2>1. PICK first : first = [loop EXCEPT ![p].report = report]
    OBVIOUS
  <2>2. loop' = [first EXCEPT ![p].tx = tx]
    BY <1>4, <2>1
  <2>3. PICK s1 : s1 = [s EXCEPT !.report = report]
    OBVIOUS
  <2>4. PICK s2 : s2 = [s1 EXCEPT !.tx = tx]
    OBVIOUS
  <2>5. first = [loop EXCEPT ![p] = s1] /\ first[p] = s1 /\ p \in DOMAIN first
    BY <1>1, <2>1, <2>3, ChangedField, ChangedTwice
  <2>6. loop' = [first EXCEPT ![p] = s2]
    BY <2>2, <2>4, <2>5, ChangedField
  <2>7. loop' = [loop EXCEPT ![p] = s2]
    BY <1>1, <2>5, <2>6, ChangedTwice
  <2>8. s2 = [s EXCEPT !.report = report, !.tx = tx]
    BY <2>3, <2>4
  <2> QED
    BY <2>7, <2>8
<1>6. UNCHANGED <<db, faults>> /\ LoopStep
  BY DEF LoopStep, listenerVars
<1> QED
  BY <1>3, <1>4, <1>5, <1>6 DEF Sends

LEMMA SettlingIsKind ==
    ASSUME NEW p \in Loops, NEW report \in loop[p].todo, NEW results,
           loop[p].at \in {"filter", "build"},
           loop[p].tx # Null => report = loop[p].report,
           loop[p].tx # Null => IF loop[p].receipt = Null THEN faults' > 0 ELSE results # {},
           \A r, other \in results : r = other,
           \A r \in results :
              /\ SameButStatus(r, report) /\ r.status # "detected"
              /\ p = Finalizer => r.proposalTxHash = report.proposalTxHash
              /\ Reason(p, report, r),
           Handled(p, report, results, NextStep(loop[p].at)),
           UNCHANGED <<db, emitted, listening, inbox, mempool, hubVars>>,
           UNCHANGED faults \/ Fault
    PROVE  Settles(p, report, results)
  BY HandledIsRound DEF Settles, LoopStep

\* A loop that is at work on a transaction is at "build", with its report to handle.
LEMMA Waiting ==
    ASSUME LoopType, NEW p \in Loops, loop[p].tx # Null
    PROVE  /\ loop[p].at = "build" /\ loop[p].report \in loop[p].todo
           /\ loop[p].tx.loop = p /\ loop[p].tx.call = CallOf(p)
           /\ loop[p].tx.id = loop[p].report.operationId
  BY DEF LoopType, RoundOK, WaitsForItsOwn

LEMMA ProposingIsKind ==
    ASSUME RelayerType, NEW report \in loop[Proposer].todo, MakeProposalContractCall(report)
    PROVE  \/ \E results : Settles(Proposer, report, results)
           \/ \E tx \in Transactions : Sends(Proposer, report, tx)
<1> DEFINE operation == ParseUserOperation(report)
           error == QueueError(operation)
           op == report.operationId
<1>1. Proposer \in Loops /\ Proposer # Finalizer /\ LoopType /\ ListenerType /\ clock \in 0..MaxTime
  BY TheLoops DEF RelayerType, HubType
<1>2. loop[Proposer].at = "build" /\ loop[Proposer].tx = Null
  BY DEF MakeProposalContractCall, At, IsFree
<1>3. report \in KnownReports /\ operation = op
  BY <1>1, HeldReports
<1>4. UNCHANGED <<listenerVars, hubVars>>
  BY DEF MakeProposalContractCall
<1>5. UNCHANGED <<db, emitted, listening, inbox, hubVars>> /\ UNCHANGED faults
  BY <1>4 DEF listenerVars
<1>6. NextStep(loop[Proposer].at) = "write"
  BY <1>2 DEF NextStep
<1>7. ASSUME NEW r, Handled(Proposer, report, {r}, "write"), UNCHANGED mempool,
             SameButStatus(r, report), r.status # "detected", Reason(Proposer, report, r)
      PROVE  Settles(Proposer, report, {r})
  BY <1>1, <1>2, <1>5, <1>6, <1>7, SettlingIsKind
<1>8. ASSUME Handled(Proposer, report, {}, "write"), UNCHANGED mempool
      PROVE  Settles(Proposer, report, {})
  BY <1>1, <1>2, <1>5, <1>6, <1>8, SettlingIsKind
<1>9. CASE ~PaysNetworkFee(report) /\ Handled(Proposer, report, {SkipEvent(report, clock)}, "write")
             /\ UNCHANGED mempool
  <2> DEFINE r == SkipEvent(report, clock)
  <2>1. SameButStatus(r, report) /\ r.status = "skipped"
    BY <1>1, <1>3, AmendedReports
  <2>2. Reason(Proposer, report, r)
    BY <1>9, <2>1 DEF Reason, PaysNetworkFee
  <2> HIDE DEF r
  <2>3. Settles(Proposer, report, {r})
    BY <1>7, <1>9, <2>1, <2>2 DEF r
  <2> QED
    BY <2>3
<1>10. CASE error # "None" /\ Handled(Proposer, report, ProposalError(report, error), "write")
              /\ UNCHANGED mempool
  <2>1. CASE error = "OperationAlreadyQueued"
    <3> DEFINE r == AddProposedTxHash(report, "0x", clock)
    <3>1. ProposalError(report, error) = {r}
      BY <2>1 DEF ProposalError
    <3>2. SameButStatus(r, report) /\ r.status = "proposed"
      BY <1>1, <1>3, AmendedReports
    <3>3. status[op] = "Queued"
      <4>1. status[op] \in {"NotQueued", "Queued", "Executed", "Cancelled"}
        BY <1>1, <1>3, HeldReports DEF RelayerType, HubType
      <4> QED
        BY <1>3, <2>1, <4>1 DEF QueueError, InvalidOperationStatus
    <3>4. Reason(Proposer, report, r)
      BY <3>2, <3>3 DEF Reason
    <3> HIDE DEF r
    <3>5. Settles(Proposer, report, {r})
      BY <1>7, <1>10, <3>1, <3>2, <3>4
    <3> QED
      BY <3>5
  <2>2. CASE error = "LockDown"
    <3>1. ProposalError(report, error) = {}
      BY <2>2 DEF ProposalError
    <3> QED
      BY <1>8, <1>10, <3>1
  <2>3. CASE error \notin {"OperationAlreadyQueued", "LockDown"}
    <3> DEFINE r == AddError(report)
    <3>1. ProposalError(report, error) = {r}
      BY <2>3 DEF ProposalError
    <3>2. SameButStatus(r, report) /\ r.status = "failed"
      BY <1>1, <1>3, AmendedReports
    <3>3. Reason(Proposer, report, r)
      BY <1>2, <1>3, <1>10, <2>3, <3>2 DEF Reason, Refused
    <3> HIDE DEF r
    <3>4. Settles(Proposer, report, {r})
      BY <1>7, <1>10, <3>1, <3>2, <3>3
    <3> QED
      BY <3>4
  <2> QED
    BY <2>1, <2>2, <2>3
<1>11. CASE Broadcast(Proposer, report, "queue", operation)
  <2>1. CallOf(Proposer) = "queue"
    BY DEF CallOf
  <2> QED
    BY <1>1, <1>2, <1>4, <1>11, <2>1, SendingIsKind
<1> QED
  BY <1>9, <1>10, <1>11 DEF MakeProposalContractCall

LEMMA ProposalMinedIsKind ==
    ASSUME RelayerType, ProposalMined
    PROVE  \E report \in loop[Proposer].todo : \E results : Settles(Proposer, report, results)
<1> DEFINE s == loop[Proposer]
           report == s.report
<1>1. Proposer \in Loops /\ Proposer # Finalizer /\ LoopType /\ clock \in 0..MaxTime
  BY TheLoops DEF RelayerType, HubType
<1>2. s.tx # Null /\ s.receipt \in {"mined", "reverted"}
  BY DEF ProposalMined, HasReceipt
<1>3. s.at = "build" /\ report \in s.todo
  BY <1>1, <1>2, Waiting
<1>4. report \in KnownReports
  BY <1>1, <1>3, HeldReports
<1>5. UNCHANGED <<db, emitted, listening, inbox, mempool, hubVars>> /\ UNCHANGED faults
  BY DEF ProposalMined, listenerVars
<1>6. NextStep(s.at) = "write"
  BY <1>3 DEF NextStep
<1>7. s.receipt # Null
  BY <1>2, ProcessorAssumption
<1>8. ASSUME NEW r, Handled(Proposer, report, {r}, "write"),
             SameButStatus(r, report), r.status # "detected", Reason(Proposer, report, r)
      PROVE  Settles(Proposer, report, {r})
  BY <1>1, <1>2, <1>3, <1>5, <1>6, <1>7, <1>8, SettlingIsKind
<1>9. CASE HasReceipt(Proposer, "mined")
            /\ Handled(Proposer, report, {AddProposedTxHash(report, "hash", clock)}, "write")
  <2> DEFINE r == AddProposedTxHash(report, "hash", clock)
  <2>1. SameButStatus(r, report) /\ r.status = "proposed"
    BY <1>1, <1>4, AmendedReports
  <2>2. Reason(Proposer, report, r)
    BY <1>9, <2>1 DEF Reason, HasReceipt
  <2> HIDE DEF r
  <2>3. Settles(Proposer, report, {r})
    BY <1>8, <1>9, <2>1, <2>2 DEF r
  <2> QED
    BY <1>3, <2>3
<1>10. CASE HasReceipt(Proposer, "reverted")
            /\ Handled(Proposer, report, {SkipEvent(report, clock)}, "write")
  <2> DEFINE r == SkipEvent(report, clock)
  <2>1. SameButStatus(r, report) /\ r.status = "skipped"
    BY <1>1, <1>4, AmendedReports
  <2>2. Reason(Proposer, report, r)
    BY <1>10, <2>1 DEF Reason, HasReceipt
  <2> HIDE DEF r
  <2>3. Settles(Proposer, report, {r})
    BY <1>8, <1>10, <2>1, <2>2 DEF r
  <2> QED
    BY <1>3, <2>3
<1> QED
  BY <1>9, <1>10 DEF ProposalMined

LEMMA FilteringIsKind ==
    ASSUME RelayerType, NEW report \in loop[Finalizer].todo, FilterForExpiredChallengePeriod(report)
    PROVE  \E results : Settles(Finalizer, report, results)
<1> DEFINE s == loop[Finalizer]
           results == {r \in {report} : IsOverBasicPeriod(r) /\ IsOverChallengePeriod(r)}
<1>1. Finalizer \in Loops /\ LoopType
  BY TheLoops DEF RelayerType
<1>2. s.at = "filter" /\ NextStep(s.at) = "build"
  BY DEF FilterForExpiredChallengePeriod, At, NextStep
<1>3. s.tx = Null /\ report.status # "detected" /\ report \in KnownReports
  BY <1>1, <1>2, HeldReports DEF LoopType, RoundOK, WaitsForItsOwn, NoneDetected
<1>4. Handled(Finalizer, report, results, "build") /\ UNCHANGED faults
        /\ UNCHANGED <<db, emitted, listening, inbox, mempool, hubVars>>
  BY DEF FilterForExpiredChallengePeriod, listenerVars
<1>5. \A r \in results : r = report
  OBVIOUS
<1>6. SameButStatus(report, report) /\ Reason(Finalizer, report, report)
  BY <1>3 DEF SameButStatus, Reason
<1> HIDE DEF results
<1>7. Settles(Finalizer, report, results)
  BY <1>1, <1>2, <1>3, <1>4, <1>5, <1>6, SettlingIsKind
<1> QED
  BY <1>7

LEMMA FinalCallIsKind ==
    ASSUME RelayerType, NEW report \in loop[Finalizer].todo, MakeFinalContractCall(report)
    PROVE  \/ \E results : Settles(Finalizer, report, results)
           \/ \E tx \in Transactions : Sends(Finalizer, report, tx)
<1> DEFINE operation == ParseUserOperation(report)
           error == ExecuteError(operation)
           op == report.operationId
<1>1. Finalizer \in Loops /\ Proposer # Finalizer /\ LoopType /\ ListenerType /\ clock \in 0..MaxTime
  BY TheLoops DEF RelayerType, HubType
<1>2. loop[Finalizer].at = "build" /\ loop[Finalizer].tx = Null
  BY DEF MakeFinalContractCall, At, IsFree
<1>3. report \in KnownReports /\ operation = op
  BY <1>1, HeldReports
<1>4. UNCHANGED <<listenerVars, hubVars>>
  BY DEF MakeFinalContractCall
<1>5. UNCHANGED <<db, emitted, listening, inbox, hubVars>> /\ UNCHANGED faults
  BY <1>4 DEF listenerVars
<1>6. NextStep(loop[Finalizer].at) = "write"
  BY <1>2 DEF NextStep
<1>7. ASSUME NEW r, Handled(Finalizer, report, {r}, "write"), UNCHANGED mempool,
             SameButStatus(r, report), r.status # "detected", Reason(Finalizer, report, r),
             r.proposalTxHash = report.proposalTxHash
      PROVE  Settles(Finalizer, report, {r})
  BY <1>1, <1>2, <1>5, <1>6, <1>7, SettlingIsKind
<1>8. ASSUME Handled(Finalizer, report, {}, "write"), UNCHANGED mempool
      PROVE  Settles(Finalizer, report, {})
  BY <1>1, <1>2, <1>5, <1>6, <1>8, SettlingIsKind
<1>9. CASE error # "None" /\ Handled(Finalizer, report, FinalError(report, error), "write")
              /\ UNCHANGED mempool
  <2>1. CASE error = "OperationAlreadyExecuted"
    <3> DEFINE r == AddFinalizedTxHash(report, "0x")
    <3>1. FinalError(report, error) = {r}
      BY <2>1 DEF FinalError
    <3>2. SameButStatus(r, report) /\ r.status = "finalized" /\ r.proposalTxHash = report.proposalTxHash
      BY <1>1, <1>3, AmendedReports
    <3>3. status[op] = "Executed"
      <4>1. status[op] \in {"NotQueued", "Queued", "Executed", "Cancelled"}
        BY <1>1, <1>3, HeldReports DEF RelayerType, HubType
      <4> QED
        BY <1>3, <2>1, <4>1 DEF ExecuteError, InvalidOperationStatus
    <3>4. Reason(Finalizer, report, r)
      BY <3>2, <3>3 DEF Reason
    <3> HIDE DEF r
    <3>5. Settles(Finalizer, report, {r})
      BY <1>7, <1>9, <3>1, <3>2, <3>4
    <3> QED
      BY <3>5
  <2>2. CASE error \in {"LockDown", "ChallengePeriodNotTerminated"}
    <3>1. FinalError(report, error) = {}
      BY <2>2 DEF FinalError
    <3> QED
      BY <1>8, <1>9, <3>1
  <2>3. CASE error \notin {"OperationAlreadyExecuted", "LockDown", "ChallengePeriodNotTerminated"}
    <3> DEFINE r == AddError(report)
    <3>1. FinalError(report, error) = {r}
      BY <2>3 DEF FinalError
    <3>2. SameButStatus(r, report) /\ r.status = "failed" /\ r.proposalTxHash = report.proposalTxHash
      BY <1>1, <1>3, AmendedReports
    <3>3. Refused(Finalizer, op)
      BY <1>1, <1>3, <1>9, <2>3 DEF Refused
    <3>4. Reason(Finalizer, report, r)
      BY <1>2, <3>2, <3>3 DEF Reason
    <3> HIDE DEF r
    <3>5. Settles(Finalizer, report, {r})
      BY <1>7, <1>9, <3>1, <3>2, <3>4
    <3> QED
      BY <3>5
  <2> QED
    BY <2>1, <2>2, <2>3
<1>10. CASE Broadcast(Finalizer, report, "execute", operation)
  <2>1. CallOf(Finalizer) = "execute"
    BY <1>1 DEF CallOf
  <2> QED
    BY <1>1, <1>2, <1>4, <1>10, <2>1, SendingIsKind
<1> QED
  BY <1>9, <1>10 DEF MakeFinalContractCall

LEMMA FinalMinedIsKind ==
    ASSUME RelayerType, FinalMined
    PROVE  \/ \E report \in loop[Finalizer].todo : \E results : Settles(Finalizer, report, results)
           \/ Quits(Finalizer)
<1> DEFINE s == loop[Finalizer]
           report == s.report
           r == AddFinalizedTxHash(report, "hash")
<1>1. Finalizer \in Loops /\ Proposer # Finalizer /\ LoopType /\ clock \in 0..MaxTime
  BY TheLoops DEF RelayerType, HubType
<1>2. s.tx # Null /\ s.receipt \in {"mined", "reverted"}
  BY DEF FinalMined, HasReceipt
<1>3. s.at = "build" /\ report \in s.todo
  BY <1>1, <1>2, Waiting
<1>4. report \in KnownReports
  BY <1>1, <1>3, HeldReports
<1>5. UNCHANGED <<db, emitted, listening, inbox, mempool, hubVars>> /\ UNCHANGED faults
  BY DEF FinalMined, listenerVars
<1>6. NextStep(s.at) = "write"
  BY <1>3 DEF NextStep
<1>7. s.receipt # Null
  BY <1>2, ProcessorAssumption
<1>8. CASE HasReceipt(Finalizer, "mined") /\ Handled(Finalizer, report, {r}, "write")
  <2>1. SameButStatus(r, report) /\ r.status = "finalized" /\ r.proposalTxHash = report.proposalTxHash
    BY <1>1, <1>4, AmendedReports
  <2>2. Reason(Finalizer, report, r)
    BY <1>8, <2>1 DEF Reason, HasReceipt
  <2> HIDE DEF r
  <2>3. Settles(Finalizer, report, {r})
    BY <1>1, <1>2, <1>3, <1>5, <1>6, <1>7, <1>8, <2>1, <2>2, SettlingIsKind
  <2> QED
    BY <1>3, <2>3
<1>9. CASE HasReceipt(Finalizer, "reverted") /\ loop' = [loop EXCEPT ![Finalizer] = Begin]
  BY <1>5, <1>9 DEF Quits, HasReceipt, LoopStep
<1> QED
  BY <1>8, <1>9 DEF FinalMined

LEMMA FailedWaitIsKind ==
    ASSUME RelayerType, NEW p \in Loops, WaitFails(p)
    PROVE  \E report \in loop[p].todo : \E results : Settles(p, report, results)
<1> DEFINE s == loop[p]
           report == s.report
           r == AddError(report)
<1>1. LoopType /\ ListenerType /\ clock \in 0..MaxTime
  BY DEF RelayerType, HubType
<1>2. s.tx # Null /\ s.receipt = Null
  BY DEF WaitFails, HasReceipt
<1>3. s.at = "build" /\ report \in s.todo
  BY <1>1, <1>2, Waiting
<1>4. report \in KnownReports
  BY <1>1, <1>3, HeldReports
<1>5. UNCHANGED <<db, emitted, listening, inbox, mempool, hubVars>> /\ Fault
        /\ Handled(p, report, {r}, NextStep(s.at))
  BY <1>3 DEF WaitFails, NextStep
<1>6. faults' > 0
  BY <1>1, <1>5, ListenerAssumption DEF Fault, ListenerType
<1>7. SameButStatus(r, report) /\ r.status = "failed" /\ r.proposalTxHash = report.proposalTxHash
  BY <1>1, <1>4, AmendedReports
<1>8. Reason(p, report, r)
  BY <1>6, <1>7 DEF Reason
<1> HIDE DEF r
<1>9. Settles(p, report, {r})
  BY <1>2, <1>3, <1>5, <1>6, <1>7, <1>8, SettlingIsKind
<1> QED
  BY <1>3, <1>9

LEMMA MiningIsKind ==
    ASSUME NEW tx \in mempool, MineQueue(tx) \/ MineExecute(tx)
    PROVE  \E result \in {"mined", "reverted"} : Mines(tx, result)
<1>1. CASE MineQueue(tx)
  <2>1. CASE MineReverted(tx, QueueError(tx.id))
    BY <1>1, <2>1 DEF MineQueue, MineReverted, Mines
  <2>2. CASE /\ Hub!Queue(tx.id) /\ ours' = ours \cup {tx.id} /\ mempool' = mempool \ {tx}
             /\ Receipt(tx, "mined") /\ UNCHANGED <<listenerVars, lockDown>>
    BY <1>1, <2>2 DEF MineQueue, Mines
  <2> QED
    BY <1>1, <2>1, <2>2 DEF MineQueue
<1>2. CASE MineExecute(tx)
  <2>1. CASE MineReverted(tx, ExecuteError(tx.id))
    BY <1>2, <2>1 DEF MineExecute, MineReverted, Mines
  <2>2. CASE /\ Hub!Execute(tx.id) /\ mempool' = mempool \ {tx}
             /\ Receipt(tx, "mined") /\ UNCHANGED <<listenerVars, lockDown, ours>>
    BY <1>2, <2>2 DEF MineExecute, Mines
  <2> QED
    BY <1>2, <2>1, <2>2 DEF MineExecute
<1> QED
  BY <1>1, <1>2

LEMMA ListeningIsKind ==
    ASSUME RelayerType, Unhandled,
           \/ ListenerStep
           \/ \E log \in Logs : ReportLate(log)
           \/ \E network \in DOMAIN EventsOf : ExitListener(network)
           \/ \E log \in Logs : UserSend(log.tx)
    PROVE  Listens
<1>1. ListenerType /\ UNCHANGED <<loop, mempool, hubVars>>
  BY DEF RelayerType, Unhandled
<1>2. Fault => faults' \in 0..MaxFaults
  BY <1>1, ListenerAssumption DEF Fault, ListenerType
<1>3. ASSUME NEW log \in Logs, ~IsDuplicate(db, BuildReport(log, clock)),
             db' = InsertReport(db, BuildReport(log, clock))
      PROVE  Inserts(log)
  <2>1. BuildReport(log, clock)._id = ReportKey(log)
    BY InsertedReport DEF RelayerType, HubType
  <2> QED
    BY <1>3, <2>1 DEF Inserts, IsDuplicate
<1>4. ASSUME NEW log \in inbox, ProcessEventLog(log, clock)
      PROVE  Listens
  <2>1. ListenerType'
    BY <1>1, <1>4 DEF ProcessEventLog, ListenerType
  <2>2. UNCHANGED db \/ Inserts(log)
    BY <1>1, <1>3, <1>4 DEF ProcessEventLog, ListenerType
  <2> QED
    BY <1>1, <1>4, <2>1, <2>2 DEF Listens, ProcessEventLog, ListenerType
<1>5. ASSUME NEW network \in DOMAIN EventsOf, ListenForEvents(network) \/ ExitListener(network)
      PROVE  Listens
  <2>1. ListenerType'
    BY <1>1, <1>2, <1>5 DEF ListenForEvents, ExitListener, ListenerType
  <2> QED
    BY <1>1, <1>5, <2>1 DEF Listens, ListenForEvents, ExitListener
<1>6. ASSUME NEW log \in Logs, ReportLate(log)
      PROVE  Listens
  <2>1. CASE Redeliver(log)
    <3>1. ListenerType'
      BY <1>1, <1>2, <2>1 DEF Redeliver, ListenerType
    <3> QED
      BY <1>1, <2>1, <3>1 DEF Listens, Redeliver
  <2>2. ASSUME NEW command \in DOMAIN Commands, SaveReport(command, log, clock)
        PROVE  Listens
    <3>1. ListenerType'
      BY <1>1, <2>2 DEF SaveReport, ListenerType
    <3> QED
      BY <1>1, <1>3, <2>2, <3>1 DEF Listens, SaveReport
  <2> QED
    BY <1>6, <2>1, <2>2 DEF ReportLate
<1>7. ASSUME NEW log \in Logs, UserSend(log.tx)
      PROVE  Listens
  <2>1. ListenerType'
    BY <1>1, <1>7 DEF UserSend, Emit, ListenerType
  <2> QED
    BY <1>1, <1>7, <2>1 DEF Listens, UserSend, Emit
<1> QED
  BY <1>4, <1>5, <1>6, <1>7 DEF ListenerStep

LEMMA ChainMovesIsKind ==
    ASSUME \/ \E op \in Operations :
                 \/ OtherQueues(op)
                 \/ OtherExecutes(op)
                 \/ \E class \in Classes : OtherObjects(op, class)
           \/ LockDown("before", "during")
           \/ LockDown("during", "after")
           \/ Advance
    PROVE  ChainMoves
<1>1. ASSUME NEW op \in Operations,
             OtherQueues(op) \/ OtherExecutes(op) \/ \E class \in Classes : OtherObjects(op, class)
      PROVE  ChainMoves
  BY <1>1 DEF OtherQueues, OtherExecutes, OtherObjects, ChainStep, ChainMoves
<1>2. CASE LockDown("before", "during") \/ LockDown("during", "after")
  BY <1>2 DEF LockDown, ChainMoves
<1>3. CASE Advance
  BY <1>3 DEF Advance, ChainStep, ChainMoves
<1> QED
  BY <1>1, <1>2, <1>3

LEMMA StepKinds ==
    ASSUME RelayerType, Next
    PROVE  StepKind
<1>1. LoopType /\ Proposer \in Loops /\ Finalizer \in Loops
  BY TheLoops DEF RelayerType
<1>2. CASE ProposerStep
  <2>1. CASE GetDetected \/ GetDetectedAgain
    BY <1>1, <2>1, ReadingIsKind DEF StepKind
  <2>2. ASSUME NEW report \in loop[Proposer].todo, GetOperationStatus(Proposer, report)
        PROVE  StepKind
    BY <1>1, <2>2, ComparingIsKind DEF StepKind
  <2>3. ASSUME NEW report \in loop[Proposer].todo,
               SetCorrectRequestStatusInDb(Proposer, report) \/ UpdateEventsInDb(Proposer, report)
        PROVE  StepKind
    BY <1>1, <2>3, WritingIsKind DEF StepKind
  <2>4. ASSUME NEW report \in loop[Proposer].todo, MakeProposalContractCall(report)
        PROVE  StepKind
    BY <1>1, <2>4, ProposingIsKind DEF StepKind
  <2>5. CASE ProposalMined
    BY <1>1, <2>5, ProposalMinedIsKind DEF StepKind
  <2> QED
    BY <1>2, <2>1, <2>2, <2>3, <2>4, <2>5 DEF ProposerStep
<1>3. CASE FinalizerStep
  <2>1. CASE GetProposed
    BY <1>1, <2>1, ReadingIsKind DEF StepKind
  <2>2. ASSUME NEW report \in loop[Finalizer].todo, FilterForExpiredChallengePeriod(report)
        PROVE  StepKind
    BY <1>1, <2>2, FilteringIsKind DEF StepKind
  <2>3. ASSUME NEW report \in loop[Finalizer].todo, UpdateEventsInDb(Finalizer, report)
        PROVE  StepKind
    BY <1>1, <2>3, WritingIsKind DEF StepKind
  <2>4. ASSUME NEW report \in loop[Finalizer].todo, MakeFinalContractCall(report)
        PROVE  StepKind
    BY <1>1, <2>4, FinalCallIsKind DEF StepKind
  <2>5. CASE FinalMined
    BY <1>1, <2>5, FinalMinedIsKind DEF StepKind
  <2> QED
    BY <1>3, <2>1, <2>2, <2>3, <2>4, <2>5 DEF FinalizerStep
<1>4. CASE \E p \in Loops : Exit(p)
  BY <1>4, QuittingIsKind DEF StepKind
<1>5. CASE \E p \in Loops : WaitFails(p)
  BY <1>5, FailedWaitIsKind DEF StepKind
<1>6. CASE \E tx \in mempool : MineQueue(tx) \/ MineExecute(tx)
  BY <1>6, MiningIsKind DEF StepKind
<1>7. CASE /\ Unhandled
           /\ \/ ListenerStep
              \/ \E log \in Logs : ReportLate(log)
              \/ \E network \in DOMAIN EventsOf : ExitListener(network)
              \/ \E log \in Logs : UserSend(log.tx)
  BY <1>7, ListeningIsKind DEF StepKind
<1>8. CASE \/ \E op \in Contested :
                 \/ OtherQueues(op)
                 \/ OtherExecutes(op)
                 \/ \E class \in Classes : OtherObjects(op, class)
           \/ LockDown("before", "during")
           \/ LockDown("during", "after")
           \/ Advance
  BY <1>8, ChainMovesIsKind, RelayerAssumption DEF StepKind
<1> QED
  BY <1>2, <1>3, <1>4, <1>5, <1>6, <1>7, <1>8 DEF Next

-----------------------------------------------------------------------------
(***************************************************************************)
(* Every step leaves the rounds in order.                                  *)
(***************************************************************************)
OthersStay(p) == \A q \in Loops \ {p} : loop'[q] = loop[q]

LEMMA OneLoopMoves ==
    ASSUME LoopType, NEW p \in Loops, NEW t, RoundOK(p, t),
           loop' = [loop EXCEPT ![p] = t], mempool' \subseteq Transactions
    PROVE  LoopType' /\ loop'[p] = t /\ OthersStay(p)
<1>1. DOMAIN loop' = Loops /\ loop'[p] = t /\ \A q \in Loops \ {p} : loop'[q] = loop[q]
  BY DEF LoopType
<1>2. \A q \in Loops : RoundOK(q, loop'[q])
  BY <1>1 DEF LoopType
<1> QED
  BY <1>1, <1>2 DEF LoopType, OthersStay

LEMMA CollectedRound ==
    ASSUME RelayerType, NEW p \in Loops, Collects(p)
    PROVE  /\ LoopType' /\ OthersStay(p)
           /\ loop'[p].at # "write" /\ loop'[p].done = {} /\ loop'[p].tx = Null
           /\ loop'[p].receipt = Null
           /\ \A r \in HeldIn(loop'[p]) :
                 /\ r \in Reports(db) /\ r.destination = NetworkOf[p]
                 /\ r.status = IF p = Proposer THEN "detected" ELSE "proposed"
<1>1. PICK step \in StepsOf(p) \ {"read", "reflect", "write"}, reports \in SUBSET Reports(db) :
          /\ \A r \in reports :
                /\ r.destination = NetworkOf[p]
                /\ r.status = IF p = Proposer THEN "detected" ELSE "proposed"
          /\ loop' = [loop EXCEPT ![p] = IF reports = {} THEN Begin ELSE Round(step, reports, {})]
  BY DEF Collects
<1>2. LoopType /\ DbType /\ mempool' \subseteq Transactions
  BY DEF RelayerType, LoopType, Collects
<1>3. CASE reports = {}
  <2>1. loop' = [loop EXCEPT ![p] = Begin]
    BY <1>1, <1>3
  <2>2. LoopType' /\ loop'[p] = Begin /\ OthersStay(p)
    BY <1>2, <2>1, BeginOK, OneLoopMoves
  <2> QED
    BY <2>2 DEF Begin, HeldIn
<1>4. CASE reports # {}
  <2> DEFINE t == Round(step, reports, {})
  <2>1. reports \subseteq ReportsFor(p)
    BY <1>1, <1>2 DEF DbType, Reports, ReportsFor
  <2>2. \A r, other \in reports \cup {} : r._id = other._id => r = other
    BY <1>2 DEF DbType, Reports
  <2>3. /\ {} \in SUBSET ReportsFor(p) /\ reports \cap {} = {} /\ NoneDetected({})
        /\ step = "status" => \A r \in reports : r.status = "detected"
        /\ p = Finalizer => NoneDetected(reports)
    BY <1>1, TheLoops DEF NoneDetected, StepsOf
  <2>4. RoundOK(p, t)
    BY <1>1, <2>1, <2>2, <2>3, RoundIsOK
  <2>5. loop' = [loop EXCEPT ![p] = t]
    BY <1>1, <1>4
  <2>6. LoopType' /\ loop'[p] = t /\ OthersStay(p)
    BY <1>2, <2>4, <2>5, OneLoopMoves
  <2> QED
    BY <1>1, <2>6 DEF Round, HeldIn
<1> QED
  BY <1>3, <1>4

LEMMA ComparedRound ==
    ASSUME RelayerType, NEW report \in loop[Proposer].todo, Compares(report)
    PROVE  /\ LoopType' /\ OthersStay(Proposer)
           /\ loop'[Proposer].at \in {"status", "reflect"} /\ loop'[Proposer].receipt = Null
           /\ \A r \in HeldIn(loop'[Proposer]) :
                 \/ r \in HeldIn(loop[Proposer])
                 \/ /\ SameButStatus(r, report)
                    /\ r.status = StatusOfOnChainStatus[status[report.operationId]]
<1> DEFINE s == loop[Proposer]
           onChain == StatusOfOnChainStatus[status[report.operationId]]
           updated == [report EXCEPT !.status = onChain]
           todo == s.todo \ {report}
           done == s.done \cup ({updated} \ {report})
           t == IF todo = {} THEN Round("reflect", done, {}) ELSE Round("status", todo, done)
<1>1. Proposer \in Loops /\ LoopType /\ RoundOK(Proposer, s) /\ mempool' \subseteq Transactions
  BY TheLoops DEF RelayerType, LoopType, Compares
<1>2. report \in ReportsFor(Proposer) /\ report \in KnownReports /\ report.operationId \in Operations
  BY <1>1, HeldReports
<1>3. onChain \in TxStatuses
  BY <1>2 DEF RelayerType, HubType, StatusOfOnChainStatus, TxStatuses
<1>4. SameButStatus(updated, report) /\ updated.status = onChain
  BY <1>2, <1>3, ChangedStatus
<1>5. s.at = "status" /\ report.status = "detected"
  BY <1>1 DEF Compares, RoundOK
<1>6. updated.status = "detected" => updated = report
  <2>1. [report EXCEPT !.status = report.status] = report
    BY <1>2 DEF KnownReports, ReportType
  <2> QED
    BY <1>4, <1>5, <2>1
<1> HIDE DEF updated, onChain
<1>7. updated \in ReportsFor(Proposer) /\ updated._id = report._id
  BY <1>2, <1>4 DEF SameButStatus, ReportsFor
<1>8. /\ todo \in SUBSET ReportsFor(Proposer) /\ done \in SUBSET ReportsFor(Proposer)
      /\ \A r, other \in todo \cup done : r._id = other._id => r = other
      /\ todo \cap done = {} /\ NoneDetected(done)
      /\ \A r \in todo : r.status = "detected"
  <2>1. todo \in SUBSET ReportsFor(Proposer) /\ done \in SUBSET ReportsFor(Proposer)
    BY <1>1, <1>7 DEF RoundOK, States
  <2>2. report \notin s.done /\ \A r, other \in HeldIn(s) : r._id = other._id => r = other
    BY <1>1 DEF RoundOK, OneCopyEach
  <2>3. \A r, other \in todo \cup done : r._id = other._id => r = other
    BY <1>7, <2>2 DEF HeldIn
  <2>4. todo \cap done = {}
    BY <1>1, <1>7, <2>2 DEF RoundOK, OneCopyEach, HeldIn
  <2>5. NoneDetected(done) /\ \A r \in todo : r.status = "detected"
    BY <1>1, <1>5, <1>6 DEF RoundOK, NoneDetected
  <2> QED
    BY <2>1, <2>3, <2>4, <2>5
<1>9. {"status", "reflect"} \subseteq StepsOf(Proposer) \ {"read"} /\ Proposer # Finalizer
  BY TheLoops DEF StepsOf
<1> HIDE DEF todo, done
<1>10. RoundOK(Proposer, Round("reflect", done, {}))
  <2>1. /\ \A r, other \in done \cup {} : r._id = other._id => r = other
        /\ done \cap {} = {} /\ NoneDetected({}) /\ {} \in SUBSET ReportsFor(Proposer)
    BY <1>8 DEF NoneDetected
  <2> QED
    BY <1>1, <1>8, <1>9, <2>1, RoundIsOK
<1>11. RoundOK(Proposer, Round("status", todo, done))
  BY <1>1, <1>8, <1>9, RoundIsOK
<1>12. loop' = [loop EXCEPT ![Proposer] = t]
  BY DEF Compares, todo, done, updated, onChain
<1>13. RoundOK(Proposer, t)
  BY <1>10, <1>11
<1>14. LoopType' /\ loop'[Proposer] = t /\ OthersStay(Proposer)
  <2> HIDE DEF t
  <2> QED
    BY <1>1, <1>12, <1>13, OneLoopMoves
<1>15. t.at \in {"status", "reflect"} /\ t.receipt = Null /\ HeldIn(t) \subseteq todo \cup done
  BY DEF Round, HeldIn
<1>16. todo \cup done \subseteq HeldIn(s) \cup {updated}
  BY DEF todo, done, HeldIn
<1> HIDE DEF t
<1> QED
  BY <1>4, <1>14, <1>15, <1>16 DEF onChain

LEMMA WrittenRound ==
    ASSUME RelayerType, NEW p \in Loops, NEW report \in loop[p].todo, Writes(p, report)
    PROVE  /\ LoopType' /\ OthersStay(p)
           /\ HeldIn(loop'[p]) = HeldIn(loop[p]) \ {report}
           /\ loop'[p].todo = loop[p].todo \ {report}
           /\ loop'[p].todo # {} => loop'[p].at = loop[p].at
           /\ loop'[p].at # "build" /\ loop'[p].receipt = Null
<1> DEFINE s == loop[p]
           todo == s.todo \ {report}
           t == IF s.at = "write" /\ todo = {} THEN Begin ELSE Round(s.at, todo, {})
<1>1. LoopType /\ RoundOK(p, s) /\ mempool' \subseteq Transactions
        /\ s.at \in {"reflect", "write"} /\ loop' = [loop EXCEPT ![p] = t]
  BY DEF RelayerType, LoopType, Writes
<1>2. s.done = {} /\ s.at \in StepsOf(p) \ {"read"} /\ todo \in SUBSET ReportsFor(p)
  BY <1>1 DEF RoundOK, States
<1>3. /\ \A r, other \in todo \cup {} : r._id = other._id => r = other
      /\ todo \cap {} = {} /\ NoneDetected({}) /\ NoneDetected(todo) /\ {} \in SUBSET ReportsFor(p)
  BY <1>1 DEF RoundOK, OneCopyEach, HeldIn, NoneDetected
<1>4. RoundOK(p, Round(s.at, todo, {}))
  <2> HIDE DEF todo
  <2> QED
    BY <1>1, <1>2, <1>3, RoundIsOK
<1>5. RoundOK(p, t)
  BY <1>4, BeginOK
<1>6. /\ HeldIn(t) = HeldIn(s) \ {report} /\ t.todo = todo
      /\ t.todo # {} => t.at = s.at
      /\ t.at # "build" /\ t.receipt = Null
  BY <1>1, <1>2 DEF Round, Begin, HeldIn
<1> HIDE DEF t
<1>7. LoopType' /\ loop'[p] = t /\ OthersStay(p)
  BY <1>1, <1>5, OneLoopMoves
<1> QED
  BY <1>6, <1>7

LEMMA SettledRound ==
    ASSUME RelayerType, NEW p \in Loops, NEW report \in loop[p].todo, NEW results,
           Settles(p, report, results)
    PROVE  /\ LoopType' /\ OthersStay(p)
           /\ HeldIn(loop'[p]) \subseteq (HeldIn(loop[p]) \ {report}) \cup results
           /\ loop'[p].tx = Null /\ loop'[p].receipt = Null
<1> DEFINE s == loop[p]
           t == AfterHandling(s, report, results, NextStep(s.at))
<1>1. LoopType /\ RoundOK(p, s) /\ mempool' \subseteq Transactions
        /\ s.at \in {"filter", "build"} /\ loop' = [loop EXCEPT ![p] = t]
  BY DEF RelayerType, LoopType, Settles
<1>2. report \in ReportsFor(p)
  BY <1>1, HeldReports
<1>3. /\ results \in SUBSET ReportsFor(p) /\ NoneDetected(results)
      /\ \A r \in results : r._id = report._id
      /\ \A r, other \in results : r = other
  BY <1>2 DEF Settles, SameButStatus, ReportsFor, NoneDetected
<1>4. /\ RoundOK(p, t) /\ t.tx = Null /\ t.receipt = Null
      /\ HeldIn(t) \subseteq (HeldIn(s) \ {report}) \cup results
  BY <1>1, <1>3, AfterHandlingOK
<1> HIDE DEF t
<1>5. LoopType' /\ loop'[p] = t /\ OthersStay(p)
  BY <1>1, <1>4, OneLoopMoves
<1> QED
  BY <1>4, <1>5

LEMMA SentRound ==
    ASSUME RelayerType, NEW p \in Loops, NEW report \in loop[p].todo, NEW tx \in Transactions,
           Sends(p, report, tx)
    PROVE  /\ LoopType' /\ OthersStay(p)
           /\ loop'[p].at = "build" /\ loop'[p].todo = loop[p].todo /\ loop'[p].done = loop[p].done
           /\ loop'[p].report = report /\ loop'[p].tx = tx /\ loop'[p].receipt = Null
<1> DEFINE s == loop[p]
<1>1. LoopType /\ RoundOK(p, s) /\ mempool' \subseteq Transactions /\ s.at = "build" /\ s.tx = Null
  BY DEF RelayerType, LoopType, Sends
<1>2. s \in States(p) /\ s.receipt = Null
  BY <1>1 DEF RoundOK, WaitsForItsOwn
<1>3. report \in ReportsFor(p)
  BY <1>1, HeldReports
<1>4. PICK s1 : s1 = [s EXCEPT !.report = report]
  OBVIOUS
<1>5. s1 \in States(p) /\ s1.at = s.at /\ s1.todo = s.todo /\ s1.done = s.done
        /\ s1.report = report /\ s1.receipt = s.receipt
  BY <1>2, <1>3, <1>4 DEF States
<1>6. PICK t : t = [s1 EXCEPT !.tx = tx]
  OBVIOUS
<1>7. t \in States(p) /\ t.at = s.at /\ t.todo = s.todo /\ t.done = s.done
        /\ t.report = report /\ t.receipt = Null /\ t.tx = tx
  BY <1>2, <1>5, <1>6 DEF States
<1>8. RoundOK(p, t)
  <2>1. WaitsForItsOwn(p, t)
    BY <1>1, <1>7, NullIsNeither DEF WaitsForItsOwn, Sends
  <2>2. OneCopyEach(t)
    BY <1>1, <1>7 DEF RoundOK, OneCopyEach, HeldIn
  <2> QED
    BY <1>1, <1>7, <2>1, <2>2 DEF RoundOK
<1>9. loop' = [loop EXCEPT ![p] = t]
  <2>1. loop' = [loop EXCEPT ![p] = [s EXCEPT !.report = report, !.tx = tx]]
    BY DEF Sends
  <2>2. [s EXCEPT !.report = report, !.tx = tx] = t
    BY <1>4, <1>6
  <2> QED
    BY <2>1, <2>2
<1>10. LoopType' /\ loop'[p] = t /\ OthersStay(p)
  BY <1>1, <1>8, <1>9, OneLoopMoves
<1> QED
  BY <1>1, <1>7, <1>10

LEMMA QuitRound ==
    ASSUME RelayerType, NEW p \in Loops, Quits(p)
    PROVE  LoopType' /\ OthersStay(p) /\ loop'[p] = Begin
<1>1. LoopType /\ mempool' \subseteq Transactions /\ loop' = [loop EXCEPT ![p] = Begin]
  BY DEF RelayerType, LoopType, Quits
<1> QED
  BY <1>1, BeginOK, OneLoopMoves

\* A loop learns of its own transaction only; of the others nobody is told.
LEMMA MinedRound ==
    ASSUME RelayerType, NEW tx \in mempool, NEW result \in {"mined", "reverted"}, Mines(tx, result)
    PROVE  /\ LoopType' /\ tx \in Transactions
           /\ \A p \in Loops :
                 \/ loop'[p] = loop[p] /\ loop[p].tx # tx
                 \/ /\ p = tx.loop /\ loop[p].tx = tx
                    /\ loop'[p].at = loop[p].at /\ loop'[p].todo = loop[p].todo
                    /\ loop'[p].done = loop[p].done /\ loop'[p].report = loop[p].report
                    /\ loop'[p].tx = tx /\ loop'[p].receipt = result
<1> DEFINE p == tx.loop
           s == loop[p]
<1>1. LoopType /\ tx \in Transactions /\ mempool' \subseteq Transactions /\ p \in Loops
  BY DEF RelayerType, LoopType, Mines, Transactions
<1>2. \A q \in Loops : loop[q].tx = tx => q = p
  <2>1. ASSUME NEW q \in Loops, loop[q].tx = tx
        PROVE  q = p
    <3>1. loop[q].tx # Null
      BY <1>1, <2>1, NullIsNeither
    <3> QED
      BY <1>1, <2>1, <3>1, Waiting
  <2> QED
    BY <2>1
<1>3. CASE s.tx # tx
  <2>1. loop' = loop
    BY <1>3 DEF Mines, Receipt
  <2> QED
    BY <1>1, <1>2, <1>3, <2>1 DEF LoopType
<1>4. CASE s.tx = tx
  <2>1. loop' = [loop EXCEPT ![p].receipt = result]
    BY <1>4 DEF Mines, Receipt
  <2>2. PICK t : t = [s EXCEPT !.receipt = result]
    OBVIOUS
  <2>3. p \in DOMAIN loop /\ RoundOK(p, s)
    BY <1>1 DEF LoopType
  <2>4. loop' = [loop EXCEPT ![p] = t]
    BY <2>1, <2>2, <2>3, ChangedField
  <2>5. t \in States(p) /\ t.at = s.at /\ t.todo = s.todo /\ t.done = s.done
          /\ t.report = s.report /\ t.receipt = result /\ t.tx = s.tx
    BY <2>2, <2>3 DEF RoundOK, States
  <2>6. s.tx # Null /\ s.at = "build"
    BY <1>1, <1>4, NullIsNeither, Waiting
  <2>7. RoundOK(p, t)
    <3>1. WaitsForItsOwn(p, t)
      BY <2>3, <2>5, <2>6 DEF RoundOK, WaitsForItsOwn
    <3>2. OneCopyEach(t)
      BY <2>3, <2>5 DEF RoundOK, OneCopyEach, HeldIn
    <3> QED
      BY <2>3, <2>5, <2>6, <3>1, <3>2 DEF RoundOK
  <2>8. LoopType' /\ loop'[p] = t /\ OthersStay(p)
    BY <1>1, <2>4, <2>7, OneLoopMoves
  <2> QED
    BY <1>1, <1>2, <1>4, <2>5, <2>8 DEF OthersStay
<1> QED
  BY <1>3, <1>4

-----------------------------------------------------------------------------
(***************************************************************************)
(* The hub and the number of faults only go on.                            *)
(***************************************************************************)
HubGoesOn ==
    /\ \A op \in Operations :
          /\ status[op] # "NotQueued" => status'[op] # "NotQueued"
          /\ status[op] \in {"Executed", "Cancelled"} => status'[op] = status[op]
          /\ objections[op] # {} => objections'[op] # {}
    /\ lockDown # "before" => lockDown' # "before"
    /\ faults > 0 => faults' > 0

LEMMA StillHub ==
    ASSUME HubType, UNCHANGED hubVars
    PROVE  /\ HubType'
           /\ \A op \in Operations : status'[op] = status[op] /\ objections'[op] = objections[op]
           /\ lockDown' = lockDown /\ ours' = ours
  BY DEF HubType, hubVars

LEMMA HubMoves ==
    ASSUME HubType, NEW op \in Operations,
           \/ Hub!Queue(op) \/ Hub!Execute(op)
           \/ \E class \in Classes : Hub!Object(op, class)
    PROVE  /\ clock' = clock /\ DOMAIN objections' = Operations
           /\ status' \in [Operations -> {"NotQueued", "Queued", "Executed", "Cancelled"}]
           /\ \A other \in Operations :
                 /\ status[other] # "NotQueued" => status'[other] # "NotQueued"
                 /\ status[other] \in {"Executed", "Cancelled"} => status'[other] = status[other]
                 /\ objections[other] # {} => objections'[other] # {}
                 /\ status'[other] = "Cancelled" =>
                       status[other] = "Cancelled" \/ objections'[other] # {}
           /\ Hub!Queue(op) => status'[op] = "Queued" /\ status[op] = "NotQueued"
           /\ Hub!Execute(op) => status'[op] = "Executed"
<1>1. CASE Hub!Queue(op)
  BY <1>1 DEF HubType, Hub!Queue, Hub!Execute
<1>2. CASE Hub!Execute(op)
  BY <1>2 DEF HubType, Hub!Queue, Hub!Execute
<1>3. ASSUME NEW class \in Classes, Hub!Object(op, class)
      PROVE  /\ clock' = clock /\ DOMAIN objections' = Operations
             /\ status' \in [Operations -> {"NotQueued", "Queued", "Executed", "Cancelled"}]
             /\ \A other \in Operations :
                 /\ status[other] # "NotQueued" => status'[other] # "NotQueued"
                 /\ status[other] \in {"Executed", "Cancelled"} => status'[other] = status[other]
                 /\ objections[other] # {} => objections'[other] # {}
                 /\ status'[other] = "Cancelled" =>
                       status[other] = "Cancelled" \/ objections'[other] # {}
             /\ status[op] = "Queued" /\ status'[op] \in {"Queued", "Cancelled"}
  <2>1. /\ status[op] = "Queued" /\ clock' = clock
        /\ objections' = [objections EXCEPT ![op] = @ \cup {class}]
        /\ status' = status \/ status' = [status EXCEPT ![op] = "Cancelled"]
    BY <1>3 DEF Hub!Object
  <2>2. objections'[op] # {} /\ \A other \in Operations \ {op} : objections'[other] = objections[other]
    BY <2>1 DEF HubType
  <2>3. DOMAIN objections' = Operations
    BY <2>1 DEF HubType
  <2>4. /\ status' \in [Operations -> {"NotQueued", "Queued", "Executed", "Cancelled"}]
        /\ status'[op] \in {"Queued", "Cancelled"}
        /\ \A other \in Operations \ {op} : status'[other] = status[other]
    BY <2>1 DEF HubType
  <2> QED
    BY <2>1, <2>2, <2>3, <2>4
<1>4. ASSUME NEW class \in Classes, Hub!Object(op, class)
      PROVE  ~Hub!Queue(op) /\ ~Hub!Execute(op)
  BY <1>3, <1>4 DEF HubType, Hub!Queue, Hub!Execute
<1> QED
  BY <1>1, <1>2, <1>3, <1>4

\* What a step does to the hub: nothing at all, to an operation, or to time and the lockdown.
LEMMA HubStepTypes ==
    ASSUME RelayerType, StepKind
    PROVE  /\ HubType' /\ HubGoesOn
           /\ \A op \in Operations :
                 status'[op] = "Cancelled" => status[op] = "Cancelled" \/ objections'[op] # {}
<1>1. HubType /\ faults \in Nat /\ mempool \subseteq Transactions
  BY ListenerAssumption DEF RelayerType, ListenerType, LoopType
<1>2. UNCHANGED faults \/ Fault => (faults > 0 => faults' > 0)
  BY <1>1 DEF Fault
<1>3. ASSUME UNCHANGED hubVars, faults > 0 => faults' > 0
      PROVE  /\ HubType' /\ HubGoesOn
             /\ \A op \in Operations :
                   status'[op] = "Cancelled" => status[op] = "Cancelled" \/ objections'[op] # {}
  BY <1>1, <1>3, StillHub DEF HubGoesOn
<1>4. ASSUME NEW op \in Operations, UNCHANGED <<faults, lockDown>>, ours' \subseteq Operations,
             \/ Hub!Queue(op) \/ Hub!Execute(op)
             \/ \E class \in Classes : Hub!Object(op, class)
      PROVE  /\ HubType' /\ HubGoesOn
             /\ \A other \in Operations : status'[other] = "Cancelled" =>
                   status[other] = "Cancelled" \/ objections'[other] # {}
  <2>1. /\ clock' = clock /\ DOMAIN objections' = Operations
        /\ status' \in [Operations -> {"NotQueued", "Queued", "Executed", "Cancelled"}]
        /\ \A other \in Operations :
              /\ status[other] # "NotQueued" => status'[other] # "NotQueued"
              /\ status[other] \in {"Executed", "Cancelled"} => status'[other] = status[other]
              /\ objections[other] # {} => objections'[other] # {}
              /\ status'[other] = "Cancelled" =>
                    status[other] = "Cancelled" \/ objections'[other] # {}
    BY <1>1, <1>4, HubMoves
  <2> QED
    BY <1>1, <1>4, <2>1 DEF HubType, HubGoesOn
<1>5. CASE \E p \in Loops : Collects(p) \/ Quits(p)
  BY <1>2, <1>3, <1>5 DEF Collects, Quits, LoopStep
<1>6. CASE \E report \in loop[Proposer].todo : Compares(report)
  BY <1>2, <1>3, <1>6 DEF Compares, LoopStep
<1>7. CASE \E p \in Loops : \E report \in loop[p].todo :
              \/ Writes(p, report)
              \/ \E results : Settles(p, report, results)
              \/ \E tx \in Transactions : Sends(p, report, tx)
  BY <1>2, <1>3, <1>7 DEF Writes, Settles, Sends, LoopStep
<1>8. ASSUME NEW tx \in mempool, NEW result \in {"mined", "reverted"}, Mines(tx, result)
      PROVE  /\ HubType' /\ HubGoesOn
             /\ \A op \in Operations :
                   status'[op] = "Cancelled" => status[op] = "Cancelled" \/ objections'[op] # {}
  <2>1. tx.id \in Operations /\ faults' = faults
    BY <1>1, <1>8 DEF Transactions, Mines, listenerVars
  <2>2. CASE result = "reverted" /\ UNCHANGED hubVars
    BY <1>3, <2>1, <2>2
  <2>3. CASE /\ UNCHANGED lockDown
             /\ \/ Hub!Queue(tx.id) /\ ours' = ours \cup {tx.id}
                \/ Hub!Execute(tx.id) /\ UNCHANGED ours
    <3>1. ours' \subseteq Operations
      BY <1>1, <2>1, <2>3 DEF HubType
    <3> QED
      BY <1>4, <2>1, <2>3, <3>1
  <2> QED
    BY <1>8, <2>2, <2>3 DEF Mines
<1>9. CASE Listens
  BY <1>2, <1>3, <1>9 DEF Listens
<1>10. CASE ChainMoves
  <2>1. UNCHANGED <<faults, ours>>
    BY <1>10 DEF ChainMoves, listenerVars
  <2>2. CASE clock < MaxTime /\ Hub!Advance /\ UNCHANGED lockDown
    <3>1. clock' \in 0..MaxTime /\ UNCHANGED <<status, objections>>
      BY <1>1, <2>2, ProcessorAssumption DEF Hub!Advance, HubType
    <3> QED
      BY <1>1, <2>1, <2>2, <3>1 DEF HubType, HubGoesOn
  <2>3. ASSUME NEW op \in Operations, UNCHANGED lockDown,
               Hub!Queue(op) \/ Hub!Execute(op) \/ \E class \in Classes : Hub!Object(op, class)
        PROVE  /\ HubType' /\ HubGoesOn
               /\ \A other \in Operations : status'[other] = "Cancelled" =>
                     status[other] = "Cancelled" \/ objections'[other] # {}
    <3>1. ours' \subseteq Operations
      BY <1>1, <2>1 DEF HubType
    <3> QED
      BY <1>4, <2>1, <2>3, <3>1
  <2>4. CASE lockDown' # "before" /\ UNCHANGED <<clock, status, queuedAt, objections>>
    BY <1>1, <2>1, <2>4 DEF HubType, HubGoesOn
  <2> QED
    BY <1>10, <2>2, <2>3, <2>4 DEF ChainMoves
<1> QED
  BY <1>5, <1>6, <1>7, <1>8, <1>9, <1>10 DEF StepKind

-----------------------------------------------------------------------------
(***************************************************************************)
(* What the collection has of the reports that the loops hold.             *)
(***************************************************************************)
CopyHolds(p, r, collection) ==
    /\ r._id \in DOMAIN collection
    /\ r.operationId = collection[r._id].operationId
    /\ r.destination = collection[r._id].destination
    /\ p = Proposer => collection[r._id].status = "detected"
    /\ p = Finalizer => /\ collection[r._id].status = "proposed"
                        /\ r.proposalTxHash = collection[r._id].proposalTxHash

CopiesHold == \A p \in Loops : \A r \in HeldIn(loop[p]) : CopyHolds(p, r, db)

RelayerInv == RelayerType /\ CopiesHold

\* What no step of the relayer does to a report of the collection.
MovesForward ==
    \A key \in DOMAIN db :
        /\ key \in DOMAIN db'
        /\ Rank(db[key].status) = 2 => db'[key] = db[key]
        /\ Rank(db[key].status) <= Rank(db'[key].status)
        /\ db[key].proposalTxHash # Null => db'[key].proposalTxHash = db[key].proposalTxHash

LEMMA RelayerInit == Init => RelayerInv
<1> SUFFICES ASSUME Init
             PROVE  RelayerInv
  OBVIOUS
<1>1. DOMAIN db = {} /\ ListenerType
  BY ListenerAssumption DEF Init, ListenerInit, EmptyCollection, ListenerType
<1>2. DOMAIN loop = Loops /\ \A p \in Loops : loop[p] = Begin
  BY DEF Init, ProcessorInit
<1>3. LoopType
  BY <1>2, BeginOK DEF LoopType, Init, ProcessorInit
<1>4. HubType
  BY ProcessorAssumption DEF HubType, Init, ProcessorInit, Hub!Init
<1>5. CopiesHold
  BY <1>2 DEF CopiesHold, HeldIn, Begin
<1> QED
  BY <1>1, <1>3, <1>4, <1>5 DEF RelayerInv, RelayerType, DbType

\* A step that leaves the collection alone leaves its reports alone.
LEMMA CollectionStays ==
    ASSUME DbType, UNCHANGED db
    PROVE  DbType' /\ MovesForward
<1>1. \A key \in DOMAIN db : Rank(db[key].status) \in Int
  BY DEF Rank
<1> QED
  BY <1>1 DEF DbType, MovesForward

LEMMA CollectsKeeps ==
    ASSUME RelayerInv, NEW p \in Loops, Collects(p)
    PROVE  RelayerType' /\ CopiesHold' /\ MovesForward
<1>1. RelayerType /\ CopiesHold /\ DbType
  BY DEF RelayerInv, RelayerType
<1>2. UNCHANGED <<db, emitted, listening, inbox, faults>>
  BY DEF Collects, LoopStep
<1>3. RelayerType'
  <2>1. LoopType' /\ HubType'
    BY <1>1, CollectedRound, HubStepTypes DEF StepKind
  <2>2. ListenerType' /\ DbType'
    BY <1>1, <1>2, CollectionStays DEF RelayerType, ListenerType
  <2> QED
    BY <2>1, <2>2 DEF RelayerType
<1>4. ASSUME NEW r \in HeldIn(loop'[p])
      PROVE  CopyHolds(p, r, db)
  <2>1. /\ r \in Reports(db)
        /\ r.status = IF p = Proposer THEN "detected" ELSE "proposed"
    BY <1>1, <1>4, CollectedRound
  <2>2. PICK key \in DOMAIN db : r = db[key]
    BY <2>1 DEF Reports
  <2>3. r._id = key
    BY <1>1, <2>2 DEF DbType
  <2> QED
    BY <2>1, <2>2, <2>3, TheLoops DEF CopyHolds
<1>5. CopiesHold'
  BY <1>1, <1>2, <1>4, CollectedRound DEF CopiesHold, OthersStay
<1> QED
  BY <1>1, <1>2, <1>3, <1>5, CollectionStays

LEMMA ComparesKeeps ==
    ASSUME RelayerInv, NEW report \in loop[Proposer].todo, Compares(report)
    PROVE  RelayerType' /\ CopiesHold' /\ MovesForward
<1>1. RelayerType /\ CopiesHold /\ DbType /\ Proposer \in Loops /\ Proposer # Finalizer
  BY TheLoops DEF RelayerInv, RelayerType
<1>2. UNCHANGED <<db, emitted, listening, inbox, faults>>
  BY DEF Compares, LoopStep
<1>3. RelayerType'
  <2>1. LoopType' /\ HubType'
    BY <1>1, ComparedRound, HubStepTypes DEF StepKind
  <2>2. ListenerType' /\ DbType'
    BY <1>1, <1>2, CollectionStays DEF RelayerType, ListenerType
  <2> QED
    BY <2>1, <2>2 DEF RelayerType
<1>4. ASSUME NEW r \in HeldIn(loop'[Proposer])
      PROVE  CopyHolds(Proposer, r, db)
  <2>1. CASE r \in HeldIn(loop[Proposer])
    BY <1>1, <2>1 DEF CopiesHold
  <2>2. CASE SameButStatus(r, report)
    <3>1. CopyHolds(Proposer, report, db)
      BY <1>1 DEF CopiesHold, HeldIn
    <3> QED
      BY <1>1, <2>2, <3>1 DEF SameButStatus, CopyHolds
  <2> QED
    BY <1>1, <1>4, <2>1, <2>2, ComparedRound
<1>5. CopiesHold'
  BY <1>1, <1>2, <1>4, ComparedRound DEF CopiesHold, OthersStay
<1> QED
  BY <1>1, <1>2, <1>3, <1>5, CollectionStays

LEMMA WritesKeeps ==
    ASSUME RelayerInv, NEW p \in Loops, NEW report \in loop[p].todo, Writes(p, report)
    PROVE  RelayerType' /\ CopiesHold' /\ MovesForward
<1>1. RelayerType /\ CopiesHold /\ DbType /\ LoopType /\ RoundOK(p, loop[p])
  BY DEF RelayerInv, RelayerType, LoopType
<1>2. UNCHANGED <<emitted, listening, inbox, faults>> /\ db' = UpdateReport(db, report)
  BY DEF Writes, LoopStep
<1>3. /\ DOMAIN db' = DOMAIN db \cup {report._id} /\ db'[report._id] = report
      /\ \A key \in DOMAIN db \ {report._id} : db'[key] = db[key]
  BY <1>2, WrittenCollection
<1>4. report \in KnownReports /\ report.status # "detected" /\ CopyHolds(p, report, db)
  BY <1>1, HeldReports DEF CopiesHold, HeldIn, Writes, RoundOK, NoneDetected
<1>5. DbType'
  BY <1>1, <1>3, <1>4 DEF DbType
<1>6. RelayerType'
  <2>1. LoopType' /\ HubType'
    BY <1>1, WrittenRound, HubStepTypes DEF StepKind
  <2>2. ListenerType'
    BY <1>1, <1>2 DEF RelayerType, ListenerType
  <2> QED
    BY <1>5, <2>1, <2>2 DEF RelayerType
<1>7. MovesForward
  <2>1. p = Proposer \/ p = Finalizer
    BY TheLoops
  <2>2. /\ db[report._id].status \in {"detected", "proposed"}
        /\ db[report._id].status = "proposed" => p = Finalizer
    BY <1>4, <2>1 DEF CopyHolds
  <2>3. Rank(db[report._id].status) <= Rank(report.status) /\ Rank(db[report._id].status) # 2
    BY <1>4, <2>2 DEF Rank
  <2>4. db[report._id].proposalTxHash # Null =>
           report.proposalTxHash = db[report._id].proposalTxHash
    <3>1. CASE p = Proposer
      BY <1>1, <1>4, <3>1 DEF CopyHolds, DbType
    <3>2. CASE p = Finalizer
      BY <1>4, <3>2 DEF CopyHolds
    <3> QED
      BY <2>1, <3>1, <3>2
  <2>5. \A key \in DOMAIN db : Rank(db[key].status) \in Int
    BY DEF Rank
  <2> QED
    BY <1>3, <2>3, <2>4, <2>5 DEF MovesForward
<1>8. ASSUME NEW q \in Loops, NEW r \in HeldIn(loop'[q])
      PROVE  CopyHolds(q, r, db')
  <2>1. r \in HeldIn(loop[q]) /\ (q = p => r # report)
    BY <1>1, <1>8, WrittenRound DEF OthersStay
  <2>2. CopyHolds(q, r, db)
    BY <1>1, <2>1 DEF CopiesHold
  <2>3. r._id # report._id
    <3>1. CASE q = p
      BY <1>1, <2>1, <3>1 DEF RoundOK, OneCopyEach, HeldIn
    <3>2. CASE q # p
      BY <1>4, <2>2, <3>2, TheLoops DEF CopyHolds
    <3> QED
      BY <3>1, <3>2
  <2> QED
    BY <1>3, <2>2, <2>3 DEF CopyHolds
<1>9. CopiesHold'
  BY <1>8 DEF CopiesHold
<1> QED
  BY <1>6, <1>7, <1>9

LEMMA SettlesKeeps ==
    ASSUME RelayerInv, NEW p \in Loops, NEW report \in loop[p].todo, NEW results,
           Settles(p, report, results)
    PROVE  RelayerType' /\ CopiesHold' /\ MovesForward
<1>1. RelayerType /\ CopiesHold /\ DbType
  BY DEF RelayerInv, RelayerType
<1>2. UNCHANGED <<db, emitted, listening, inbox>> /\ (UNCHANGED faults \/ Fault)
  BY DEF Settles, LoopStep
<1>3. RelayerType'
  <2>1. LoopType' /\ HubType'
    BY <1>1, SettledRound, HubStepTypes DEF StepKind
  <2>2. ListenerType' /\ DbType'
    BY <1>1, <1>2, CollectionStays, ListenerAssumption DEF RelayerType, ListenerType, Fault
  <2> QED
    BY <2>1, <2>2 DEF RelayerType
<1>4. ASSUME NEW r \in HeldIn(loop'[p])
      PROVE  CopyHolds(p, r, db)
  <2>1. CASE r \in HeldIn(loop[p])
    BY <1>1, <2>1 DEF CopiesHold
  <2>2. CASE r \in results
    <3>1. CopyHolds(p, report, db)
      BY <1>1 DEF CopiesHold, HeldIn
    <3>2. SameButStatus(r, report) /\ (p = Finalizer => r.proposalTxHash = report.proposalTxHash)
      BY <2>2 DEF Settles
    <3> QED
      BY <3>1, <3>2 DEF SameButStatus, CopyHolds
  <2> QED
    BY <1>1, <1>4, <2>1, <2>2, SettledRound
<1>5. CopiesHold'
  BY <1>1, <1>2, <1>4, SettledRound DEF CopiesHold, OthersStay
<1> QED
  BY <1>1, <1>2, <1>3, <1>5, CollectionStays

LEMMA SendsKeeps ==
    ASSUME RelayerInv, NEW p \in Loops, NEW report \in loop[p].todo, NEW tx \in Transactions,
           Sends(p, report, tx)
    PROVE  RelayerType' /\ CopiesHold' /\ MovesForward
<1>1. RelayerType /\ CopiesHold /\ DbType
  BY DEF RelayerInv, RelayerType
<1>2. UNCHANGED <<db, emitted, listening, inbox, faults>>
  BY DEF Sends, LoopStep
<1>3. RelayerType'
  <2>1. LoopType' /\ HubType'
    BY <1>1, SentRound, HubStepTypes DEF StepKind
  <2>2. ListenerType' /\ DbType'
    BY <1>1, <1>2, CollectionStays DEF RelayerType, ListenerType
  <2> QED
    BY <2>1, <2>2 DEF RelayerType
<1>4. CopiesHold'
  BY <1>1, <1>2, SentRound DEF CopiesHold, OthersStay, HeldIn
<1> QED
  BY <1>1, <1>2, <1>3, <1>4, CollectionStays

LEMMA QuitsKeeps ==
    ASSUME RelayerInv, NEW p \in Loops, Quits(p)
    PROVE  RelayerType' /\ CopiesHold' /\ MovesForward
<1>1. RelayerType /\ CopiesHold /\ DbType
  BY DEF RelayerInv, RelayerType
<1>2. UNCHANGED <<db, emitted, listening, inbox>> /\ (UNCHANGED faults \/ Fault)
  BY DEF Quits, LoopStep
<1>3. RelayerType'
  <2>1. LoopType' /\ HubType'
    BY <1>1, QuitRound, HubStepTypes DEF StepKind
  <2>2. ListenerType' /\ DbType'
    BY <1>1, <1>2, CollectionStays, ListenerAssumption DEF RelayerType, ListenerType, Fault
  <2> QED
    BY <2>1, <2>2 DEF RelayerType
<1>4. CopiesHold'
  BY <1>1, <1>2, QuitRound DEF CopiesHold, OthersStay, HeldIn, Begin
<1> QED
  BY <1>1, <1>2, <1>3, <1>4, CollectionStays

LEMMA MinesKeeps ==
    ASSUME RelayerInv, NEW tx \in mempool, NEW result \in {"mined", "reverted"}, Mines(tx, result)
    PROVE  RelayerType' /\ CopiesHold' /\ MovesForward
<1>1. RelayerType /\ CopiesHold /\ DbType
  BY DEF RelayerInv, RelayerType
<1>2. UNCHANGED <<db, emitted, listening, inbox, faults>>
  BY DEF Mines, listenerVars
<1>3. RelayerType'
  <2>1. LoopType' /\ HubType'
    BY <1>1, MinedRound, HubStepTypes DEF StepKind
  <2>2. ListenerType' /\ DbType'
    BY <1>1, <1>2, CollectionStays DEF RelayerType, ListenerType
  <2> QED
    BY <2>1, <2>2 DEF RelayerType
<1>4. \A p \in Loops : HeldIn(loop'[p]) = HeldIn(loop[p])
  BY <1>1, MinedRound DEF HeldIn
<1>5. CopiesHold'
  BY <1>1, <1>2, <1>4 DEF CopiesHold
<1> QED
  BY <1>1, <1>2, <1>3, <1>5, CollectionStays

LEMMA ListensKeeps ==
    ASSUME RelayerInv, Listens
    PROVE  RelayerType' /\ CopiesHold' /\ MovesForward
<1>1. RelayerType /\ CopiesHold /\ DbType /\ LoopType /\ clock \in 0..MaxTime
  BY DEF RelayerInv, RelayerType, HubType
<1>2. ListenerType' /\ LoopType' /\ HubType'
  <2>1. LoopType'
    BY <1>1 DEF Listens, LoopType
  <2> QED
    BY <1>1, <2>1, HubStepTypes DEF StepKind, Listens
<1>3. CASE UNCHANGED db
  BY <1>1, <1>2, <1>3, CollectionStays DEF RelayerType, CopiesHold, Listens
<1>4. ASSUME NEW log \in Logs, Inserts(log)
      PROVE  DbType' /\ MovesForward /\ CopiesHold'
  <2> DEFINE r == BuildReport(log, clock)
  <2>1. r \in KnownReports /\ r._id = ReportKey(log) /\ r.status = "detected" /\ r.proposalTxHash = Null
    BY <1>1, InsertedReport
  <2> HIDE DEF r
  <2>2. db' = UpdateReport(db, r) /\ r._id \notin DOMAIN db
    BY <1>4, <2>1 DEF Inserts, InsertReport, r
  <2>3. /\ DOMAIN db' = DOMAIN db \cup {r._id} /\ db'[r._id] = r
        /\ \A key \in DOMAIN db : db'[key] = db[key]
    <3>1. \A key \in DOMAIN db : key \in DOMAIN db \ {r._id}
      BY <2>2
    <3>2. /\ DOMAIN UpdateReport(db, r) = DOMAIN db \cup {r._id}
          /\ UpdateReport(db, r)[r._id] = r
          /\ \A key \in DOMAIN db \ {r._id} : UpdateReport(db, r)[key] = db[key]
      BY WrittenCollection
    <3> QED
      BY <2>2, <3>1, <3>2
  <2>4. DbType'
    BY <1>1, <2>1, <2>3 DEF DbType
  <2>5. MovesForward
    <3>1. \A key \in DOMAIN db : Rank(db[key].status) \in Int
      BY DEF Rank
    <3> QED
      BY <2>3, <3>1 DEF MovesForward
  <2>6. CopiesHold'
    BY <1>1, <2>3 DEF CopiesHold, CopyHolds, Listens
  <2> QED
    BY <2>4, <2>5, <2>6
<1> QED
  BY <1>1, <1>2, <1>3, <1>4 DEF RelayerType, Listens

LEMMA ChainKeeps ==
    ASSUME RelayerInv, ChainMoves
    PROVE  RelayerType' /\ CopiesHold' /\ MovesForward
<1>1. RelayerType /\ CopiesHold /\ DbType
  BY DEF RelayerInv, RelayerType
<1>2. UNCHANGED <<db, emitted, listening, inbox, faults, loop, mempool>>
  BY DEF ChainMoves, listenerVars
<1>3. HubType'
  BY <1>1, HubStepTypes DEF StepKind
<1> QED
  BY <1>1, <1>2, <1>3, CollectionStays DEF RelayerType, ListenerType, LoopType, CopiesHold

LEMMA RelayerStep ==
    ASSUME RelayerInv, Next
    PROVE  RelayerInv' /\ MovesForward
<1>1. StepKind
  BY StepKinds DEF RelayerInv
<1>2. RelayerType' /\ CopiesHold' /\ MovesForward
  BY <1>1, CollectsKeeps, ComparesKeeps, WritesKeeps, SettlesKeeps, SendsKeeps, QuitsKeeps,
     MinesKeeps, ListensKeeps, ChainKeeps DEF StepKind
<1> QED
  BY <1>2 DEF RelayerInv

LEMMA RelayerStutter ==
    ASSUME RelayerInv, UNCHANGED vars
    PROVE  RelayerInv'
  BY DEF RelayerInv, RelayerType, DbType, ListenerType, LoopType, HubType, CopiesHold,
         vars, listenerVars, hubVars

LEMMA RelayerInvHolds == Spec => []RelayerInv
<1>1. Init => RelayerInv
  BY RelayerInit
<1>2. RelayerInv /\ [Next]_vars => RelayerInv'
  BY RelayerStep, RelayerStutter
<1> QED
  BY <1>1, <1>2, PTL DEF Spec

-----------------------------------------------------------------------------
(***************************************************************************)
(* Theorem.  The variables of the relayer keep their types: the processes  *)
(* write nothing into the collection but complete reports of logs that     *)
(* were emitted, under the keys of those logs.                             *)
(***************************************************************************)
THEOREM RelayerTypes == Spec => []TypeOK
<1>1. RelayerInv => TypeOK
  <2> SUFFICES ASSUME RelayerInv
               PROVE  TypeOK
    OBVIOUS
  <2>1. RelayerType /\ LoopType /\ DbType /\ ListenerType /\ HubType
    BY DEF RelayerInv, RelayerType
  <2>2. ASSUME NEW p \in Loops
        PROVE  /\ loop[p].at \in {"read", "status", "reflect", "filter", "build", "write"}
               /\ loop[p].todo \cup loop[p].done \subseteq ReportType
               /\ loop[p].report \in ReportType \cup {Null}
               /\ (loop[p].tx = Null) = (loop[p].report = Null)
    <3>1. loop[p] \in States(p) /\ WaitsForItsOwn(p, loop[p])
      BY <2>1 DEF LoopType, RoundOK
    <3>2. \A r \in ReportsFor(p) : r \in ReportType /\ r # Null
      BY NullIsNeither DEF ReportsFor, KnownReports
    <3>3. loop[p].at \in {"read", "status", "reflect", "filter", "build", "write"}
      BY <3>1 DEF States, StepsOf
    <3>4. loop[p].todo \cup loop[p].done \subseteq ReportType
            /\ loop[p].report \in ReportType \cup {Null}
      BY <3>1, <3>2 DEF States
    <3>5. (loop[p].tx = Null) = (loop[p].report = Null)
      BY <3>1, <3>2 DEF States, WaitsForItsOwn
    <3> QED
      BY <3>3, <3>4, <3>5
  <2>3. \A key \in DOMAIN db : db[key] \in ReportType /\ db[key]._id = key
    BY <2>1 DEF DbType, KnownReports
  <2> QED
    BY <2>1, <2>2, <2>3 DEF TypeOK, ListenerType, LoopType, HubType
<1> QED
  BY <1>1, RelayerInvHolds, PTL

(***************************************************************************)
(* Theorem.  No step takes a report back to an earlier status or loses the *)
(* hash of a transaction, although the loops write back whole reports that *)
(* they read before other writes.                                          *)
(***************************************************************************)
THEOREM WritesNeverGoBack == Spec => ReportsMoveForward
<1>1. RelayerInv /\ [Next]_vars => [MovesForward]_vars
  BY RelayerStep
<1>2. [MovesForward]_vars <=>
        [\A key \in DOMAIN db :
          /\ key \in DOMAIN db'
          /\ Rank(db[key].status) = 2 => db'[key] = db[key]
          /\ Rank(db[key].status) <= Rank(db'[key].status)
          /\ db[key].proposalTxHash # Null => db'[key].proposalTxHash = db[key].proposalTxHash]_vars
  BY DEF MovesForward
<1> QED
  BY <1>1, <1>2, RelayerInvHolds, PTL DEF Spec, ReportsMoveForward

-----------------------------------------------------------------------------
(***************************************************************************)
(* Where the reports of a state come from: from the state before, or from  *)
(* a listener, a comparison with the hub, or the end of some work.         *)
(***************************************************************************)
IsCompared(p, r) ==
    \E report \in loop[p].todo :
        /\ SameButStatus(r, report)
        /\ r.status = StatusOfOnChainStatus[status[report.operationId]]

IsResult(p, r) ==
    \E report \in loop[p].todo :
        /\ SameButStatus(r, report) /\ Reason(p, report, r)
        /\ loop[p].tx # Null => report = loop[p].report

CopiesComeFrom(p) ==
    \A r \in HeldIn(loop'[p]) :
        \/ r \in HeldIn(loop[p])
        \/ r \in Reports(db)
        \/ UNCHANGED hubVars /\ (IsCompared(p, r) \/ IsResult(p, r))

ReportsComeFrom ==
    \A r \in Reports(db') :
        \/ r \in Reports(db)
        \/ \E p \in Loops : r \in HeldIn(loop[p])
        \/ r.status = "detected"

LEMMA Sources ==
    ASSUME RelayerInv, StepKind
    PROVE  ReportsComeFrom /\ \A p \in Loops : CopiesComeFrom(p)
<1>1. RelayerType /\ Proposer \in Loops
  BY TheLoops DEF RelayerInv
<1>2. ASSUME UNCHANGED db
      PROVE  ReportsComeFrom
  BY <1>2 DEF ReportsComeFrom
<1>3. ASSUME NEW p \in Loops, OthersStay(p), CopiesComeFrom(p)
      PROVE  \A q \in Loops : CopiesComeFrom(q)
  BY <1>3 DEF OthersStay, CopiesComeFrom
<1>4. ASSUME NEW p \in Loops, Collects(p)
      PROVE  ReportsComeFrom /\ \A q \in Loops : CopiesComeFrom(q)
  <2>1. CopiesComeFrom(p) /\ OthersStay(p)
    BY <1>1, <1>4, CollectedRound DEF CopiesComeFrom
  <2> QED
    BY <1>2, <1>3, <1>4, <2>1 DEF Collects
<1>5. ASSUME NEW p \in Loops, Quits(p)
      PROVE  ReportsComeFrom /\ \A q \in Loops : CopiesComeFrom(q)
  <2>1. CopiesComeFrom(p) /\ OthersStay(p)
    BY <1>1, <1>5, QuitRound DEF CopiesComeFrom, HeldIn, Begin
  <2> QED
    BY <1>2, <1>3, <1>5, <2>1 DEF Quits
<1>6. ASSUME NEW report \in loop[Proposer].todo, Compares(report)
      PROVE  ReportsComeFrom /\ \A q \in Loops : CopiesComeFrom(q)
  <2>1. OthersStay(Proposer) /\ UNCHANGED <<db, hubVars>>
    BY <1>1, <1>6, ComparedRound DEF Compares, LoopStep
  <2>2. ASSUME NEW r \in HeldIn(loop'[Proposer])
        PROVE  r \in HeldIn(loop[Proposer]) \/ IsCompared(Proposer, r)
    BY <1>1, <1>6, <2>2, ComparedRound DEF IsCompared
  <2>3. CopiesComeFrom(Proposer)
    BY <2>1, <2>2 DEF CopiesComeFrom
  <2> QED
    BY <1>1, <1>2, <1>3, <2>1, <2>3
<1>7. ASSUME NEW p \in Loops, NEW report \in loop[p].todo, Writes(p, report)
      PROVE  ReportsComeFrom /\ \A q \in Loops : CopiesComeFrom(q)
  <2>1. CopiesComeFrom(p) /\ OthersStay(p)
    BY <1>1, <1>7, WrittenRound DEF CopiesComeFrom
  <2>2. /\ DOMAIN db' = DOMAIN db \cup {report._id} /\ db'[report._id] = report
        /\ \A key \in DOMAIN db \ {report._id} : db'[key] = db[key]
    BY <1>7, WrittenCollection DEF Writes
  <2>3. \A r \in Reports(db') : r = report \/ r \in Reports(db)
    BY <2>2 DEF Reports
  <2>4. ReportsComeFrom
    BY <2>3 DEF ReportsComeFrom, HeldIn
  <2> QED
    BY <1>3, <2>1, <2>4
<1>8. ASSUME NEW p \in Loops, NEW report \in loop[p].todo, NEW results,
             Settles(p, report, results)
      PROVE  ReportsComeFrom /\ \A q \in Loops : CopiesComeFrom(q)
  <2>1. OthersStay(p) /\ UNCHANGED <<db, hubVars>>
    BY <1>1, <1>8, SettledRound DEF Settles, LoopStep
  <2>2. \A r \in results : IsResult(p, r)
    BY <1>8 DEF Settles, IsResult
  <2>3. CopiesComeFrom(p)
    BY <1>1, <1>8, <2>1, <2>2, SettledRound DEF CopiesComeFrom
  <2> QED
    BY <1>2, <1>3, <2>1, <2>3
<1>9. ASSUME NEW p \in Loops, NEW report \in loop[p].todo, NEW tx \in Transactions,
             Sends(p, report, tx)
      PROVE  ReportsComeFrom /\ \A q \in Loops : CopiesComeFrom(q)
  <2>1. CopiesComeFrom(p) /\ OthersStay(p)
    BY <1>1, <1>9, SentRound DEF CopiesComeFrom, HeldIn
  <2> QED
    BY <1>2, <1>3, <1>9, <2>1 DEF Sends
<1>10. ASSUME NEW tx \in mempool, NEW result \in {"mined", "reverted"}, Mines(tx, result)
       PROVE  ReportsComeFrom /\ \A q \in Loops : CopiesComeFrom(q)
  <2>1. \A q \in Loops : HeldIn(loop'[q]) = HeldIn(loop[q])
    BY <1>1, <1>10, MinedRound DEF HeldIn
  <2> QED
    BY <1>2, <1>10, <2>1 DEF CopiesComeFrom, Mines, listenerVars
<1>11. CASE Listens
  <2>1. \A q \in Loops : CopiesComeFrom(q)
    BY <1>11 DEF Listens, CopiesComeFrom
  <2>2. ASSUME NEW log \in Logs, Inserts(log)
        PROVE  ReportsComeFrom
    <3> DEFINE fresh == BuildReport(log, clock)
    <3>1. fresh._id = ReportKey(log) /\ fresh.status = "detected"
      BY <1>1, InsertedReport DEF RelayerType, HubType
    <3> HIDE DEF fresh
    <3>2. db' = UpdateReport(db, fresh)
      BY <2>2 DEF Inserts, InsertReport, fresh
    <3>3. /\ DOMAIN db' = DOMAIN db \cup {fresh._id} /\ db'[fresh._id] = fresh
          /\ \A key \in DOMAIN db \ {fresh._id} : db'[key] = db[key]
      BY <3>2, WrittenCollection
    <3>4. \A r \in Reports(db') : r = fresh \/ r \in Reports(db)
      BY <3>3 DEF Reports
    <3> QED
      BY <3>1, <3>4 DEF ReportsComeFrom
  <2> QED
    BY <1>2, <1>11, <2>1, <2>2 DEF Listens
<1>12. CASE ChainMoves
  BY <1>2, <1>12 DEF ChainMoves, CopiesComeFrom, listenerVars
<1> QED
  BY <1>4, <1>5, <1>6, <1>7, <1>8, <1>9, <1>10, <1>11, <1>12 DEF StepKind

-----------------------------------------------------------------------------
(***************************************************************************)
(* What the collection says has happened.                                  *)
(***************************************************************************)
TrueOf(r) ==
    r.destination \in Networks =>
        /\ r.status = "proposed" => status[r.operationId] # "NotQueued"
        /\ r.status = "finalized" => status[r.operationId] = "Executed"
        /\ r.status = "cancelled" => status[r.operationId] = "Cancelled"

MinedIsTrue(p) ==
    loop[p].receipt = "mined" =>
        /\ status[loop[p].report.operationId] # "NotQueued"
        /\ p = Finalizer => status[loop[p].report.operationId] = "Executed"

TrueInv ==
    /\ \A r \in Reports(db) : TrueOf(r)
    /\ \A p \in Loops : MinedIsTrue(p) /\ \A r \in HeldIn(loop[p]) : TrueOf(r)

\* What is true of an operation stays true.
LEMMA TruthLasts ==
    ASSUME HubGoesOn, NEW r \in KnownReports, TrueOf(r)
    PROVE  TrueOf(r)'
  BY OperationOfReport DEF TrueOf, HubGoesOn

\* A comparison and the end of some work tell the truth.
LEMMA ResultsAreTrue ==
    ASSUME RelayerInv, TrueInv, NEW p \in Loops, NEW r, IsCompared(p, r) \/ IsResult(p, r)
    PROVE  TrueOf(r)
<1>1. RelayerType /\ LoopType
  BY DEF RelayerInv, RelayerType
<1>2. ASSUME NEW report \in loop[p].todo, SameButStatus(r, report),
             r.status = StatusOfOnChainStatus[status[report.operationId]]
      PROVE  TrueOf(r)
  <2>1. report.operationId \in Operations /\ r.operationId = report.operationId
    BY <1>1, <1>2, HeldReports DEF SameButStatus
  <2>2. status[r.operationId] \in {"NotQueued", "Queued", "Executed", "Cancelled"}
    BY <1>1, <2>1 DEF RelayerType, HubType
  <2> QED
    BY <1>2, <2>1, <2>2 DEF TrueOf, StatusOfOnChainStatus
<1>3. ASSUME NEW report \in loop[p].todo, SameButStatus(r, report), Reason(p, report, r),
             loop[p].tx # Null => report = loop[p].report
      PROVE  TrueOf(r)
  <2>1. TrueOf(report) /\ r.operationId = report.operationId
    BY <1>3 DEF TrueInv, HeldIn, SameButStatus
  <2>2. CASE r = report
    BY <2>1, <2>2
  <2>3. ASSUME loop[p].receipt = "mined"
        PROVE  /\ status[report.operationId] # "NotQueued"
               /\ p = Finalizer => status[report.operationId] = "Executed"
    <3>1. loop[p].tx # Null
      BY <1>1, <2>3, ProcessorAssumption DEF LoopType, RoundOK, WaitsForItsOwn
    <3> QED
      BY <1>3, <2>3, <3>1 DEF TrueInv, MinedIsTrue
  <2>4. CASE r.status = "proposed" /\ (status[report.operationId] = "Queued" \/ loop[p].receipt = "mined")
    BY <2>1, <2>3, <2>4 DEF TrueOf
  <2>5. CASE /\ r.status = "finalized" /\ p = Finalizer
             /\ status[report.operationId] = "Executed" \/ loop[p].receipt = "mined"
    BY <2>1, <2>3, <2>5 DEF TrueOf
  <2>6. CASE r.status \in {"skipped", "failed"}
    BY <2>6 DEF TrueOf
  <2> QED
    BY <1>3, <2>2, <2>4, <2>5, <2>6 DEF Reason
<1> QED
  BY <1>2, <1>3 DEF IsCompared, IsResult

\* A loop learns what became of its transaction when it is mined, and keeps it until it goes on.
LEMMA ReceiptSources ==
    ASSUME RelayerInv, StepKind, NEW p \in Loops, loop'[p].receipt # Null
    PROVE  /\ loop'[p].report = loop[p].report /\ loop'[p].tx = loop[p].tx /\ loop[p].tx # Null
           /\ \/ loop'[p].receipt = loop[p].receipt
              \/ loop[p].tx \in mempool /\ Mines(loop[p].tx, loop'[p].receipt)
<1>1. RelayerType /\ LoopType /\ Proposer \in Loops
  BY TheLoops DEF RelayerInv, RelayerType
<1>2. loop[p].receipt # Null => loop[p].tx # Null
  BY <1>1 DEF LoopType, RoundOK, WaitsForItsOwn
<1>3. CASE loop'[p] = loop[p]
  BY <1>2, <1>3
<1>4. CASE \E q \in Loops : Collects(q) \/ Quits(q)
  BY <1>1, <1>3, <1>4, CollectedRound, QuitRound DEF OthersStay, Begin
<1>5. CASE \E report \in loop[Proposer].todo : Compares(report)
  BY <1>1, <1>3, <1>5, ComparedRound DEF OthersStay
<1>6. CASE \E q \in Loops : \E report \in loop[q].todo :
              \/ Writes(q, report)
              \/ \E results : Settles(q, report, results)
              \/ \E tx \in Transactions : Sends(q, report, tx)
  BY <1>1, <1>3, <1>6, WrittenRound, SettledRound, SentRound DEF OthersStay
<1>7. ASSUME NEW tx \in mempool, NEW result \in {"mined", "reverted"}, Mines(tx, result)
      PROVE  /\ loop'[p].report = loop[p].report /\ loop'[p].tx = loop[p].tx /\ loop[p].tx # Null
             /\ \/ loop'[p].receipt = loop[p].receipt
                \/ loop[p].tx \in mempool /\ Mines(loop[p].tx, loop'[p].receipt)
  BY <1>1, <1>3, <1>7, MinedRound, NullIsNeither
<1>8. CASE Listens \/ ChainMoves
  BY <1>3, <1>8 DEF Listens, ChainMoves
<1> QED
  BY <1>4, <1>5, <1>6, <1>7, <1>8 DEF StepKind

LEMMA MinedStaysTrue ==
    ASSUME RelayerInv, TrueInv, StepKind, NEW p \in Loops
    PROVE  MinedIsTrue(p)'
<1>1. RelayerType /\ LoopType /\ HubType /\ HubGoesOn
  BY HubStepTypes DEF RelayerInv, RelayerType
<1> SUFFICES ASSUME loop'[p].receipt = "mined"
             PROVE  /\ status'[loop'[p].report.operationId] # "NotQueued"
                    /\ p = Finalizer => status'[loop'[p].report.operationId] = "Executed"
  BY DEF MinedIsTrue
<1>2. loop'[p].receipt # Null
  BY ProcessorAssumption
<1>3. loop'[p].report = loop[p].report /\ loop[p].tx # Null
  BY <1>2, ReceiptSources
<1>4. loop[p].report \in loop[p].todo /\ loop[p].tx.id = loop[p].report.operationId
        /\ loop[p].tx.call = CallOf(p)
  BY <1>1, <1>3, Waiting
<1>5. loop[p].report.operationId \in Operations
  BY <1>1, <1>4, HeldReports
<1>6. CASE loop[p].receipt = "mined"
  BY <1>1, <1>3, <1>5, <1>6 DEF TrueInv, MinedIsTrue, HubGoesOn
<1>7. CASE Mines(loop[p].tx, "mined")
  <2> DEFINE op == loop[p].report.operationId
  <2>1. \/ CallOf(p) = "queue" /\ Hub!Queue(op)
        \/ CallOf(p) = "execute" /\ Hub!Execute(op)
    BY <1>4, <1>7 DEF Mines
  <2>2. /\ Hub!Queue(op) => status'[op] = "Queued"
        /\ Hub!Execute(op) => status'[op] = "Executed"
    BY <1>1, <1>5, HubMoves
  <2>3. p = Finalizer => CallOf(p) # "queue"
    BY TheLoops DEF CallOf
  <2> QED
    BY <1>3, <2>1, <2>2, <2>3
<1> QED
  BY <1>2, <1>6, <1>7, ReceiptSources

LEMMA TrueInvStep ==
    ASSUME RelayerInv, TrueInv, Next
    PROVE  TrueInv'
<1>1. StepKind /\ RelayerType /\ LoopType /\ DbType
  BY StepKinds DEF RelayerInv, RelayerType
<1>2. HubGoesOn
  BY <1>1, HubStepTypes
<1>3. ASSUME NEW r \in KnownReports,
             r \in Reports(db) \/ \E p \in Loops : r \in HeldIn(loop[p])
      PROVE  TrueOf(r)'
  BY <1>2, <1>3, TruthLasts DEF TrueInv
<1>4. \A r \in Reports(db) : r \in KnownReports
  BY <1>1 DEF DbType, Reports
<1>5. \A p \in Loops : \A r \in HeldIn(loop[p]) : r \in KnownReports
  BY <1>1, HeldReports DEF HeldIn
<1>6. ASSUME NEW r \in Reports(db')
      PROVE  TrueOf(r)'
  <2>1. CASE r.status = "detected"
    BY <2>1 DEF TrueOf
  <2>2. CASE r \in Reports(db) \/ \E p \in Loops : r \in HeldIn(loop[p])
    BY <1>3, <1>4, <1>5, <2>2
  <2> QED
    BY <1>1, <2>1, <2>2, Sources DEF ReportsComeFrom
<1>7. ASSUME NEW p \in Loops, NEW r \in HeldIn(loop'[p])
      PROVE  TrueOf(r)'
  <2>1. CASE r \in Reports(db) \/ r \in HeldIn(loop[p])
    BY <1>3, <1>4, <1>5, <2>1
  <2>2. CASE UNCHANGED hubVars /\ (IsCompared(p, r) \/ IsResult(p, r))
    <3>1. TrueOf(r)
      BY <2>2, ResultsAreTrue
    <3> QED
      BY <2>2, <3>1 DEF TrueOf, hubVars
  <2> QED
    BY <1>1, <2>1, <2>2, Sources DEF CopiesComeFrom
<1>8. \A p \in Loops : MinedIsTrue(p)'
  BY <1>1, MinedStaysTrue
<1> QED
  BY <1>6, <1>7, <1>8 DEF TrueInv

(***************************************************************************)
(* Theorem.  The collection never says of an operation more than happened  *)
(* to it on the hub: the copies that a loop holds, the receipts it got and *)
(* the reports are all true, and what is true of an operation stays true.  *)
(***************************************************************************)
THEOREM CollectionTellsTheTruth == Spec => []CollectionFollowsHub
<1>1. Init => TrueInv
  <2> SUFFICES ASSUME Init
               PROVE  TrueInv
    OBVIOUS
  <2>1. Reports(db) = {} /\ \A p \in Loops : loop[p] = Begin
    BY DEF Init, ListenerInit, ProcessorInit, EmptyCollection, Reports
  <2> QED
    BY <2>1, ProcessorAssumption DEF TrueInv, MinedIsTrue, HeldIn, Begin
<1>2. RelayerInv /\ TrueInv /\ [Next]_vars => TrueInv'
  <2>1. RelayerInv /\ TrueInv /\ UNCHANGED vars => TrueInv'
    BY DEF TrueInv, TrueOf, MinedIsTrue, Reports, vars, listenerVars, hubVars
  <2> QED
    BY <2>1, TrueInvStep
<1>3. TrueInv => CollectionFollowsHub
  <2>1. NetworkOf[Proposer] \in Networks
    BY TheLoops
  <2> QED
    BY <2>1 DEF TrueInv, TrueOf, CollectionFollowsHub, ReportOf
<1> QED
  BY <1>1, <1>2, <1>3, RelayerInvHolds, PTL DEF Spec

-----------------------------------------------------------------------------
(***************************************************************************)
(* Why the relayer gives up.  While nothing fails, a loop waits for every  *)
(* transaction it sent until it is mined, and an operation that it queued  *)
(* itself is recorded before its report is handled again.                  *)
(***************************************************************************)
Cause(op) ==
    \/ op \in Unpaid
    \/ status[op] # "NotQueued" /\ op \notin ours
    \/ objections[op] # {}
    \/ \E other \in Operations \ {op} : status[other] # "NotQueued"
    \/ faults > 0
    \/ lockDown # "before"

AllAreAwaited ==
    faults = 0 =>
        \A tx \in mempool : loop[tx.loop].tx = tx /\ loop[tx.loop].receipt = Null

\* The proposer is about to write that the operation of a report was queued.
IsPending(key) ==
    LET s == loop[Proposer] IN
    \/ s.receipt = "mined" /\ s.report._id = key
    \/ s.at = "build" /\ \E r \in s.done : r._id = key
    \/ s.at = "write" /\ \E r \in s.todo : r._id = key

OursAreRecorded ==
    faults = 0 =>
        \A r \in KnownReports : r.operationId \in ours =>
            /\ r._id \in DOMAIN db
            /\ db[r._id].status = "detected" => IsPending(r._id)

CancelledForObjection ==
    \A op \in Operations : status[op] = "Cancelled" => objections[op] # {}

CannotExecute(r) ==
    r.status = "failed" /\ r.operationId \in Unexecutable /\ status[r.operationId] # "NotQueued"

HasCause(r) ==
    r.status \in {"skipped", "failed"} /\ r.destination \in Networks
        => Cause(r.operationId) \/ CannotExecute(r)

RevertedIsCaused ==
    loop[Proposer].receipt = "reverted" => Cause(loop[Proposer].report.operationId)

GivenUpInv ==
    /\ \A r \in Reports(db) : HasCause(r)
    /\ \A p \in Loops : \A r \in HeldIn(loop[p]) : HasCause(r)
    /\ RevertedIsCaused

CauseInv == AllAreAwaited /\ OursAreRecorded /\ CancelledForObjection /\ GivenUpInv

\* Faults are never undone.
LEMMA FaultsGrow ==
    ASSUME RelayerInv, StepKind, faults' = 0
    PROVE  faults = 0 /\ RelayerInv' /\ MovesForward /\ faults \in Nat
<1>1. RelayerType /\ faults \in Nat
  BY ListenerAssumption DEF RelayerInv, RelayerType, ListenerType
<1>2. RelayerInv' /\ MovesForward
  BY CollectsKeeps, ComparesKeeps, WritesKeeps, SettlesKeeps, SendsKeeps, QuitsKeeps,
     MinesKeeps, ListensKeeps, ChainKeeps DEF StepKind, RelayerInv
<1>3. HubGoesOn
  BY <1>1, HubStepTypes
<1>4. ~(faults > 0)
  BY <1>3 DEF HubGoesOn
<1> QED
  BY <1>1, <1>2, <1>4

\* A loop at another step than "build" waits for nothing.
LEMMA NotWaiting ==
    ASSUME LoopType, NEW p \in Loops
    PROVE  /\ loop[p].at # "build" => loop[p].tx = Null
           /\ loop[p].tx = Null => loop[p].receipt = Null
  BY DEF LoopType, RoundOK, WaitsForItsOwn

LEMMA AwaitedStep ==
    ASSUME RelayerInv, AllAreAwaited, StepKind
    PROVE  AllAreAwaited'
<1> SUFFICES ASSUME faults' = 0
             PROVE  \A tx \in mempool' : loop'[tx.loop].tx = tx /\ loop'[tx.loop].receipt = Null
  BY DEF AllAreAwaited
<1>1. RelayerType /\ LoopType /\ Proposer \in Loops
  BY TheLoops DEF RelayerInv, RelayerType
<1>2. /\ \A tx \in mempool : loop[tx.loop].tx = tx /\ loop[tx.loop].receipt = Null
      /\ \A tx \in mempool : tx # Null /\ tx.loop \in Loops
      /\ ~Fault
  <2>1. faults = 0 /\ faults \in Nat
    BY FaultsGrow
  <2>2. \A tx \in mempool : tx \in Transactions
    BY <1>1 DEF LoopType
  <2> QED
    BY <2>1, <2>2, NullIsNeither DEF AllAreAwaited, Fault, Transactions
<1>3. ASSUME NEW p \in Loops, OthersStay(p), loop[p].tx = Null \/ loop[p].receipt # Null,
             NEW tx \in mempool
      PROVE  loop'[tx.loop].tx = tx /\ loop'[tx.loop].receipt = Null
  BY <1>2, <1>3 DEF OthersStay
<1>4. CASE \E p \in Loops : Collects(p)
  BY <1>1, <1>3, <1>4, NotWaiting, CollectedRound DEF Collects
<1>5. CASE \E p \in Loops : Quits(p)
  BY <1>1, <1>2, <1>3, <1>5, QuitRound, ProcessorAssumption DEF Quits
<1>6. CASE \E report \in loop[Proposer].todo : Compares(report)
  BY <1>1, <1>3, <1>6, NotWaiting, ComparedRound DEF Compares
<1>7. CASE \E p \in Loops : \E report \in loop[p].todo : Writes(p, report)
  BY <1>1, <1>3, <1>7, NotWaiting, WrittenRound DEF Writes
<1>8. ASSUME NEW p \in Loops, NEW report \in loop[p].todo, NEW results, Settles(p, report, results)
      PROVE  \A tx \in mempool' : loop'[tx.loop].tx = tx /\ loop'[tx.loop].receipt = Null
  <2>1. loop[p].tx = Null \/ loop[p].receipt # Null
    BY <1>8 DEF Settles
  <2>2. OthersStay(p)
    BY <1>1, <1>8, SettledRound
  <2>3. mempool' = mempool
    BY <1>8 DEF Settles
  <2> QED
    BY <1>3, <2>1, <2>2, <2>3
<1>9. ASSUME NEW p \in Loops, NEW report \in loop[p].todo, NEW tx \in Transactions,
             Sends(p, report, tx)
      PROVE  \A other \in mempool' : loop'[other.loop].tx = other /\ loop'[other.loop].receipt = Null
  <2>1. OthersStay(p) /\ loop'[p].tx = tx /\ loop'[p].receipt = Null /\ tx.loop = p
    BY <1>1, <1>9, SentRound DEF Sends
  <2>2. loop[p].tx = Null /\ mempool' = mempool \cup {tx}
    BY <1>9 DEF Sends
  <2> QED
    BY <1>3, <2>1, <2>2
<1>10. ASSUME NEW tx \in mempool, NEW result \in {"mined", "reverted"}, Mines(tx, result)
       PROVE  \A other \in mempool' : loop'[other.loop].tx = other /\ loop'[other.loop].receipt = Null
  <2>1. \A other \in mempool' : other \in mempool /\ other # tx
    BY <1>10 DEF Mines
  <2> QED
    BY <1>1, <1>2, <1>10, <2>1, MinedRound
<1>11. CASE Listens \/ ChainMoves
  BY <1>2, <1>11 DEF Listens, ChainMoves
<1> QED
  BY <1>4, <1>5, <1>6, <1>7, <1>8, <1>9, <1>10, <1>11 DEF StepKind

\* A result that a loop has made stays with it until it is written.
LEMMA ResultsAreKept ==
    ASSUME NEW s, s.at = "build", NEW report, NEW results, NEW r \in s.done \cup results
    PROVE  LET t == AfterHandling(s, report, results, NextStep(s.at))
           IN \/ t.at = "build" /\ r \in t.done
              \/ t.at = "write" /\ r \in t.todo
<1> DEFINE t == AfterHandling(s, report, results, NextStep(s.at))
<1>1. NextStep(s.at) = "write"
  BY DEF NextStep
<1>2. t = IF s.todo \ {report} # {} THEN Round("build", s.todo \ {report}, s.done \cup results)
          ELSE Round("write", s.done \cup results, {})
  BY <1>1 DEF AfterHandling
<1> QED
  BY <1>2 DEF Round

\* While nothing fails, what is about to be recorded is recorded in the end.
LEMMA PendingStays ==
    ASSUME RelayerInv, AllAreAwaited, StepKind, faults' = 0, NEW key \in DOMAIN db,
           IsPending(key), db'[key].status = "detected"
    PROVE  IsPending(key)'
<1> DEFINE s == loop[Proposer]
           t == loop'[Proposer]
           P == Proposer
<1> SUFFICES \/ t.receipt = "mined" /\ t.report._id = key
             \/ t.at = "build" /\ \E r \in t.done : r._id = key
             \/ t.at = "write" /\ \E r \in t.todo : r._id = key
  BY DEF IsPending
<1>1. /\ RelayerType /\ LoopType /\ P \in Loops /\ P # Finalizer /\ RoundOK(P, s)
      /\ faults = 0 /\ ~Fault /\ Null # "mined"
  <2>1. RelayerType /\ LoopType /\ P \in Loops /\ P # Finalizer
    BY TheLoops DEF RelayerInv, RelayerType
  <2>2. faults = 0 /\ ~Fault
    BY FaultsGrow DEF Fault
  <2> QED
    BY <2>1, <2>2, ProcessorAssumption DEF LoopType
<1>2. /\ s.receipt = "mined" => s.at = "build" /\ s.tx # Null /\ s.report \in s.todo
      /\ s.at \in {"build", "write"}
  <2>1. s.receipt = "mined" => s.tx # Null
    BY <1>1, NotWaiting
  <2> QED
    BY <1>1, <2>1, Waiting DEF IsPending
<1>3. CASE t = s
  BY <1>3 DEF IsPending
<1>4. CASE \E p \in Loops : Collects(p) \/ Quits(p)
  <2>1. CASE Collects(P)
    BY <1>2, <2>1 DEF Collects
  <2>2. CASE Quits(P)
    BY <1>1, <2>2 DEF Quits
  <2>3. CASE \E p \in Loops \ {P} : Collects(p) \/ Quits(p)
    BY <1>1, <1>3, <2>3, CollectedRound, QuitRound DEF OthersStay
  <2> QED
    BY <1>4, <2>1, <2>2, <2>3
<1>5. CASE \E report \in s.todo : Compares(report)
  BY <1>2, <1>5 DEF Compares
<1>6. ASSUME NEW p \in Loops, NEW report \in loop[p].todo, Writes(p, report)
      PROVE  \/ t.at = "write" /\ \E r \in t.todo : r._id = key
             \/ t = s
  <2>1. CASE p # P
    BY <1>1, <1>6, <2>1, WrittenRound DEF OthersStay
  <2>2. CASE p = P
    <3>1. s.at = "write" /\ s.receipt # "mined"
      BY <1>2, <1>6, <2>2 DEF Writes
    <3>2. PICK r \in s.todo : r._id = key
      BY <3>1 DEF IsPending
    <3>3. report.status # "detected" /\ db' = UpdateReport(db, report)
      BY <1>1, <1>6, <2>2 DEF Writes, RoundOK, NoneDetected
    <3>4. r # report
      <4>1. db'[report._id] = report
        BY <3>3, WrittenCollection
      <4> QED
        BY <3>2, <3>3, <4>1
    <3>5. t.todo = s.todo \ {report} /\ (t.todo # {} => t.at = s.at)
      BY <1>1, <1>6, <2>2, WrittenRound
    <3> QED
      BY <3>1, <3>2, <3>4, <3>5
  <2> QED
    BY <2>1, <2>2
<1>7. ASSUME NEW p \in Loops, NEW report \in loop[p].todo, NEW results, Settles(p, report, results)
      PROVE  \/ t.at = "build" /\ \E r \in t.done : r._id = key
             \/ t.at = "write" /\ \E r \in t.todo : r._id = key
             \/ t = s
  <2>1. CASE p # P
    BY <1>1, <1>7, <2>1, SettledRound DEF OthersStay
  <2>2. CASE p = P
    <3>1. s.at = "build"
      BY <1>1, <1>2, <1>7, <2>2 DEF Settles
    <3>2. PICK r \in s.done \cup results : r._id = key
      <4>1. CASE s.receipt = "mined" /\ s.report._id = key
        <5>1. s.tx # Null /\ report = s.report /\ results # {}
          BY <1>1, <1>2, <1>7, <2>2, <4>1 DEF Settles
        <5>2. PICK r \in results : TRUE
          BY <5>1
        <5>3. r._id = report._id
          BY <1>7, <5>2 DEF Settles, SameButStatus
        <5> QED
          BY <4>1, <5>1, <5>2, <5>3
      <4>2. CASE \E r \in s.done : r._id = key
        BY <4>2
      <4> QED
        BY <3>1, <4>1, <4>2 DEF IsPending
    <3>3. t = AfterHandling(s, report, results, NextStep(s.at))
      BY <1>1, <1>7, <2>2 DEF Settles, LoopType
    <3>4. \/ t.at = "build" /\ r \in t.done
          \/ t.at = "write" /\ r \in t.todo
      <4>1. \/ /\ AfterHandling(s, report, results, NextStep(s.at)).at = "build"
               /\ r \in AfterHandling(s, report, results, NextStep(s.at)).done
            \/ /\ AfterHandling(s, report, results, NextStep(s.at)).at = "write"
               /\ r \in AfterHandling(s, report, results, NextStep(s.at)).todo
        BY <3>1, ResultsAreKept
      <4> QED
        BY <3>3, <4>1
    <3> QED
      BY <3>2, <3>4
  <2> QED
    BY <2>1, <2>2
<1>8. ASSUME NEW p \in Loops, NEW report \in loop[p].todo, NEW tx \in Transactions,
             Sends(p, report, tx)
      PROVE  \/ t.at = "build" /\ \E r \in t.done : r._id = key
             \/ t = s
  <2>1. CASE p # P
    BY <1>1, <1>8, <2>1, SentRound DEF OthersStay
  <2>2. CASE p = P
    <3>1. s.at = "build" /\ s.receipt # "mined"
      BY <1>1, <1>2, <1>8, <2>2 DEF Sends
    <3> QED
      BY <1>1, <1>8, <2>2, <3>1, SentRound DEF IsPending
  <2> QED
    BY <2>1, <2>2
<1>9. ASSUME NEW tx \in mempool, NEW result \in {"mined", "reverted"}, Mines(tx, result)
      PROVE  \/ t.at = "build" /\ \E r \in t.done : r._id = key
             \/ t.at = "write" /\ \E r \in t.todo : r._id = key
             \/ t = s
  <2>1. CASE s.tx # tx
    BY <1>1, <1>9, <2>1, MinedRound
  <2>2. CASE s.tx = tx
    <3>1. tx.loop = P /\ s.receipt = Null
      <4>1. tx # Null
        BY <1>1, NullIsNeither DEF LoopType
      <4>2. tx.loop = P
        BY <1>1, <2>2, <4>1, Waiting
      <4> QED
        BY <1>1, <4>2 DEF AllAreAwaited
    <3>2. t.at = s.at /\ t.todo = s.todo /\ t.done = s.done
      BY <1>1, <1>9, <2>2, MinedRound
    <3> QED
      BY <1>1, <3>1, <3>2 DEF IsPending
  <2> QED
    BY <2>1, <2>2
<1>10. CASE Listens \/ ChainMoves
  BY <1>3, <1>10 DEF Listens, ChainMoves
<1> QED
  BY <1>3, <1>4, <1>5, <1>6, <1>7, <1>8, <1>9, <1>10 DEF StepKind

\* Only a transaction that the proposer waits for makes an operation ours.
LEMMA OursAreMined ==
    ASSUME RelayerInv, StepKind, ours' # ours
    PROVE  \E tx \in mempool :
              /\ tx.call = "queue" /\ Mines(tx, "mined") /\ tx.id \in Operations
              /\ Hub!Queue(tx.id) /\ ours' = ours \cup {tx.id}
<1>1. PICK tx \in mempool, result \in {"mined", "reverted"} : Mines(tx, result)
  BY DEF StepKind, Collects, Quits, Compares, Writes, Settles, Sends, Listens, ChainMoves,
         LoopStep, hubVars
<1>2. result = "mined" /\ tx.call = "queue" /\ Hub!Queue(tx.id) /\ ours' = ours \cup {tx.id}
  BY <1>1 DEF Mines, hubVars
<1>3. tx.id \in Operations
  BY DEF RelayerInv, RelayerType, LoopType, Transactions
<1> QED
  BY <1>1, <1>2, <1>3

LEMMA OursStep ==
    ASSUME RelayerInv, AllAreAwaited, OursAreRecorded, StepKind
    PROVE  OursAreRecorded'
<1> SUFFICES ASSUME faults' = 0, NEW r \in KnownReports, r.operationId \in ours'
             PROVE  /\ r._id \in DOMAIN db'
                    /\ db'[r._id].status = "detected" => IsPending(r._id)'
  BY DEF OursAreRecorded
<1>1. faults = 0 /\ MovesForward /\ RelayerType /\ CopiesHold /\ LoopType /\ Proposer \in Loops
  BY FaultsGrow, TheLoops DEF RelayerInv, RelayerType
<1>2. CASE r.operationId \in ours
  <2>1. /\ r._id \in DOMAIN db
        /\ db[r._id].status = "detected" => IsPending(r._id)
    BY <1>1, <1>2 DEF OursAreRecorded
  <2>2. r._id \in DOMAIN db'
    BY <1>1, <2>1 DEF MovesForward
  <2>3. db'[r._id].status = "detected" => db[r._id].status = "detected"
    BY <1>1, <2>1 DEF MovesForward, Rank
  <2> QED
    BY <2>1, <2>2, <2>3, PendingStays
<1>3. CASE r.operationId \notin ours
  <2>1. PICK tx \in mempool :
              /\ tx.call = "queue" /\ Mines(tx, "mined") /\ ours' = ours \cup {tx.id}
    BY <1>3, OursAreMined
  <2>2. r.operationId = tx.id
    BY <1>3, <2>1
  <2> DEFINE p == tx.loop
  <2>3. p \in Loops /\ loop[p].tx = tx /\ loop[p].tx # Null
    BY <1>1, NullIsNeither DEF AllAreAwaited, LoopType, Transactions
  <2>4. p = Proposer /\ loop[p].report \in loop[p].todo /\ tx.id = loop[p].report.operationId
    <3>1. CallOf(p) = "queue" /\ loop[p].report \in loop[p].todo /\ tx.id = loop[p].report.operationId
      BY <1>1, <2>1, <2>3, Waiting
    <3> QED
      BY <2>3, <3>1, TheLoops DEF CallOf
  <2>5. r._id = loop[Proposer].report._id
    BY <1>1, <2>2, <2>4, HeldReports, SameOperationSameKey
  <2>6. r._id \in DOMAIN db
    BY <1>1, <2>4, <2>5 DEF CopiesHold, CopyHolds, HeldIn
  <2>7. r._id \in DOMAIN db'
    BY <1>1, <2>6 DEF MovesForward
  <2>8. loop'[Proposer].receipt = "mined" /\ loop'[Proposer].report = loop[Proposer].report
    BY <1>1, <2>1, <2>3, <2>4, MinedRound
  <2> QED
    BY <2>5, <2>7, <2>8 DEF IsPending
<1> QED
  BY <1>2, <1>3

\* A cause for giving up an operation remains one.
LEMMA CauseLasts ==
    ASSUME RelayerInv, StepKind, NEW op \in Operations, Cause(op)
    PROVE  Cause(op)'
<1>1. HubGoesOn
  BY HubStepTypes DEF RelayerInv
<1>2. CASE status[op] # "NotQueued" /\ op \notin ours
  <2>1. op \notin ours'
    <3>1. CASE ours' = ours
      BY <1>2, <3>1
    <3>2. CASE ours' # ours
      <4>1. PICK tx \in mempool :
                tx.id \in Operations /\ Hub!Queue(tx.id) /\ ours' = ours \cup {tx.id}
        BY <3>2, OursAreMined
      <4>2. status[tx.id] = "NotQueued"
        BY <4>1 DEF Hub!Queue
      <4> QED
        BY <1>2, <4>1, <4>2
    <3> QED
      BY <3>1, <3>2
  <2> QED
    BY <1>1, <1>2, <2>1 DEF Cause, HubGoesOn
<1>3. CASE ~(status[op] # "NotQueued" /\ op \notin ours)
  BY <1>1, <1>3 DEF Cause, HubGoesOn
<1> QED
  BY <1>2, <1>3

\* The hub refuses an operation of a report that the proposer holds only for a cause.
LEMMA QueueErrorHasCause ==
    ASSUME RelayerInv, OursAreRecorded, NEW report \in loop[Proposer].todo,
           loop[Proposer].at = "build", faults = 0 => loop[Proposer].receipt # "mined",
           QueueError(report.operationId) # "None"
    PROVE  Cause(report.operationId)
<1> DEFINE op == report.operationId
           s == loop[Proposer]
<1>1. RelayerType /\ LoopType /\ CopiesHold /\ Proposer \in Loops /\ RoundOK(Proposer, s)
        /\ faults \in Nat
  BY TheLoops, ListenerAssumption DEF RelayerInv, RelayerType, LoopType, ListenerType
<1>2. report \in KnownReports /\ op \in Operations
  BY <1>1, HeldReports
<1>3. CASE lockDown = "during"
  BY <1>3 DEF Cause
<1>4. CASE lockDown # "during"
  <2>1. PICK other \in Operations : status[other] # "NotQueued"
    <3> DEFINE queued == {o \in Operations : status[o] = "Queued"}
    <3>1. CASE queued = {}
      <4>1. Cardinality(queued) = 0
        BY <3>1, FS_EmptySet
      <4>2. ~(Cardinality(queued) >= MaxOperationsInQueue)
        BY <4>1, ProcessorAssumption
      <4>3. status[op] # "NotQueued"
        BY <1>4, <4>2 DEF QueueError
      <4> QED
        BY <1>2, <4>3
    <3>2. CASE queued # {}
      BY <3>2
    <3> QED
      BY <3>1, <3>2
  <2>2. CASE other # op \/ faults > 0
    BY <2>1, <2>2 DEF Cause
  <2>3. CASE other = op /\ faults = 0
    <3>1. ASSUME op \in ours
          PROVE  FALSE
      <4>1. db[report._id].status = "detected"
        BY <1>1 DEF CopiesHold, CopyHolds, HeldIn
      <4>2. IsPending(report._id)
        BY <1>2, <2>3, <3>1, <4>1 DEF OursAreRecorded
      <4>3. PICK r \in s.done : r._id = report._id
        BY <2>3, <4>2 DEF IsPending
      <4> QED
        BY <1>1, <4>3 DEF RoundOK, OneCopyEach, HeldIn
    <3> QED
      BY <2>1, <2>3, <3>1 DEF Cause
  <2> QED
    BY <1>1, <2>2, <2>3
<1> QED
  BY <1>3, <1>4

\* The finalizer gives up an operation that was cancelled or cannot be executed, and no other.
LEMMA ExecuteRefusedHasCause ==
    ASSUME RelayerInv, TrueInv, CancelledForObjection, NEW report \in loop[Finalizer].todo,
           Refused(Finalizer, report.operationId)
    PROVE  \/ Cause(report.operationId)
           \/ report.operationId \in Unexecutable /\ status[report.operationId] # "NotQueued"
<1> DEFINE op == report.operationId
<1>1. RelayerType /\ LoopType /\ CopiesHold /\ Finalizer \in Loops /\ Proposer # Finalizer
  BY TheLoops DEF RelayerInv, RelayerType
<1>2. op \in Operations /\ report.destination \in Networks
  BY <1>1, HeldReports
<1>3. status[op] \in {"NotQueued", "Queued", "Executed", "Cancelled"}
  BY <1>1, <1>2 DEF RelayerType, HubType
<1>4. status[op] # "NotQueued"
  <2>1. CopyHolds(Finalizer, report, db)
    BY <1>1 DEF CopiesHold, HeldIn
  <2> DEFINE source == db[report._id]
  <2>2. source \in Reports(db) /\ source.status = "proposed" /\ source.operationId = op
          /\ source.destination = report.destination
    BY <2>1 DEF CopyHolds, Reports
  <2>3. TrueOf(source)
    BY <2>2 DEF TrueInv
  <2> QED
    BY <1>2, <2>2, <2>3 DEF TrueOf
<1>5. ExecuteError(op) \notin {"None", "LockDown", "ChallengePeriodNotTerminated",
                               "OperationAlreadyExecuted"}
  BY <1>1 DEF Refused
<1>6. status[op] = "Cancelled" \/ op \in Unexecutable
  BY <1>3, <1>4, <1>5 DEF ExecuteError, InvalidOperationStatus
<1> QED
  BY <1>2, <1>4, <1>6 DEF CancelledForObjection, Cause

\* A loop makes a report one that is given up only for a cause.
LEMMA ResultHasCause ==
    ASSUME RelayerInv, TrueInv, CauseInv, StepKind, UNCHANGED hubVars,
           NEW p \in Loops, NEW r, IsResult(p, r)
    PROVE  HasCause(r)'
<1>1. RelayerType /\ LoopType /\ Proposer # Finalizer /\ (p = Proposer \/ p = Finalizer)
  BY TheLoops DEF RelayerInv, RelayerType
<1>2. PICK report \in loop[p].todo :
        /\ SameButStatus(r, report) /\ Reason(p, report, r)
        /\ loop[p].tx # Null => report = loop[p].report
  BY DEF IsResult
<1> DEFINE op == report.operationId
<1>3. op \in Operations /\ r.operationId = op /\ r.destination = report.destination
  BY <1>1, <1>2, HeldReports DEF SameButStatus
<1> SUFFICES ASSUME r.status \in {"skipped", "failed"}, r.destination \in Networks
             PROVE  Cause(op)' \/ CannotExecute(r)'
  BY <1>3 DEF HasCause
<1>4. CASE r = report
  <2>1. Cause(op) \/ CannotExecute(r)
    BY <1>3, <1>4 DEF CauseInv, GivenUpInv, HasCause, HeldIn
  <2>2. CannotExecute(r) => CannotExecute(r)'
    BY DEF CannotExecute, hubVars
  <2> QED
    BY <1>3, <2>1, <2>2, CauseLasts
<1>5. CASE op \in Unpaid \/ faults' > 0
  BY <1>5 DEF Cause
<1>6. CASE p = Proposer /\ loop[p].receipt = "reverted"
  <2>1. loop[p].tx # Null
    BY <1>1, <1>6, NotWaiting, ProcessorAssumption
  <2>2. Cause(op)
    BY <1>2, <1>6, <2>1 DEF CauseInv, GivenUpInv, RevertedIsCaused
  <2> QED
    BY <1>3, <2>2, CauseLasts
<1>7. CASE r.status = "failed" /\ loop[p].at = "build" /\ loop[p].tx = Null /\ Refused(p, op)
  <2>1. CASE p = Proposer
    <3>1. loop[Proposer].receipt # "mined"
      BY <1>1, <1>7, <2>1, NotWaiting, ProcessorAssumption
    <3>2. QueueError(op) # "None"
      BY <1>7, <2>1 DEF Refused
    <3>3. Cause(op)
      BY <1>7, <2>1, <3>1, <3>2, QueueErrorHasCause DEF CauseInv
    <3> QED
      BY <1>3, <3>3, CauseLasts
  <2>2. CASE p = Finalizer
    <3>1. Cause(op) \/ (op \in Unexecutable /\ status[op] # "NotQueued")
      BY <1>7, <2>2, ExecuteRefusedHasCause DEF CauseInv
    <3> QED
      BY <1>3, <1>7, <3>1, CauseLasts DEF CannotExecute, hubVars
  <2> QED
    BY <1>1, <2>1, <2>2
<1> QED
  BY <1>2, <1>4, <1>5, <1>6, <1>7 DEF Reason

LEMMA RevertedHasCause ==
    ASSUME RelayerInv, CauseInv, StepKind,
           NEW op, op = loop[Proposer].report.operationId,
           loop'[Proposer].receipt = "reverted"
    PROVE  Cause(op)' /\ loop'[Proposer].report.operationId = op
<1> DEFINE s == loop[Proposer]
<1>1. RelayerType /\ LoopType /\ Proposer \in Loops
  BY TheLoops DEF RelayerInv, RelayerType
<1>2. loop'[Proposer].report = s.report /\ s.tx # Null
  BY <1>1, ReceiptSources, ProcessorAssumption
<1>3. s.at = "build" /\ s.report \in s.todo /\ s.tx.call = "queue" /\ s.tx.id = op
        /\ s.tx.loop = Proposer
  BY <1>1, <1>2, Waiting DEF CallOf
<1>4. op \in Operations
  BY <1>1, <1>3, HeldReports
<1>5. Cause(op)
  <2>1. CASE s.receipt = "reverted"
    BY <2>1 DEF CauseInv, GivenUpInv, RevertedIsCaused
  <2>2. CASE s.tx \in mempool /\ Mines(s.tx, "reverted")
    <3>1. QueueError(op) # "None"
      BY <1>3, <2>2 DEF Mines
    <3>2. faults = 0 => s.receipt # "mined"
      BY <1>3, <2>2, ProcessorAssumption DEF CauseInv, AllAreAwaited
    <3> QED
      BY <1>3, <3>1, <3>2, QueueErrorHasCause DEF CauseInv
  <2> QED
    BY <1>1, <2>1, <2>2, ReceiptSources, ProcessorAssumption
<1>6. Cause(op)'
  BY <1>4, <1>5, CauseLasts
<1> QED
  BY <1>2, <1>6

LEMMA CauseInvStep ==
    ASSUME RelayerInv, TrueInv, CauseInv, Next
    PROVE  CauseInv'
<1>1. StepKind /\ RelayerType /\ LoopType /\ DbType
  BY StepKinds DEF RelayerInv, RelayerType
<1>2. AllAreAwaited' /\ OursAreRecorded'
  BY <1>1, AwaitedStep, OursStep DEF CauseInv
<1>3. CancelledForObjection'
  BY <1>1, HubStepTypes DEF CauseInv, CancelledForObjection, HubGoesOn
<1>4. ASSUME NEW r \in KnownReports,
             r \in Reports(db) \/ \E p \in Loops : r \in HeldIn(loop[p])
      PROVE  HasCause(r)'
  <2>1. HasCause(r)
    BY <1>4 DEF CauseInv, GivenUpInv
  <2>2. r.destination \in Networks => r.operationId \in Operations
    BY OperationOfReport
  <2>3. HubGoesOn
    BY <1>1, HubStepTypes
  <2> QED
    BY <1>1, <2>1, <2>2, <2>3, CauseLasts DEF HasCause, CannotExecute, HubGoesOn
<1>5. /\ \A r \in Reports(db) : r \in KnownReports
      /\ \A p \in Loops : \A r \in HeldIn(loop[p]) : r \in KnownReports
  BY <1>1, HeldReports DEF HeldIn, DbType, Reports
<1>6. ASSUME NEW r \in Reports(db')
      PROVE  HasCause(r)'
  <2>1. CASE r.status = "detected"
    BY <2>1 DEF HasCause
  <2>2. CASE r \in Reports(db) \/ \E p \in Loops : r \in HeldIn(loop[p])
    BY <1>4, <1>5, <2>2
  <2> QED
    BY <1>1, <2>1, <2>2, Sources DEF ReportsComeFrom
<1>7. ASSUME NEW p \in Loops, NEW r \in HeldIn(loop'[p])
      PROVE  HasCause(r)'
  <2>1. CASE r \in Reports(db) \/ r \in HeldIn(loop[p])
    BY <1>4, <1>5, <2>1
  <2>2. CASE UNCHANGED hubVars /\ IsCompared(p, r)
    <3>1. PICK report \in loop[p].todo :
              r.status = StatusOfOnChainStatus[status[report.operationId]]
      BY <2>2 DEF IsCompared
    <3>2. status[report.operationId] \in {"NotQueued", "Queued", "Executed", "Cancelled"}
      BY <1>1, HeldReports DEF RelayerType, HubType
    <3> QED
      BY <3>1, <3>2 DEF HasCause, StatusOfOnChainStatus
  <2>3. CASE UNCHANGED hubVars /\ IsResult(p, r)
    BY <1>1, <2>3, ResultHasCause
  <2> QED
    BY <1>1, <2>1, <2>2, <2>3, Sources DEF CopiesComeFrom
<1>8. RevertedIsCaused'
  <2> SUFFICES ASSUME loop'[Proposer].receipt = "reverted"
               PROVE  Cause(loop[Proposer].report.operationId)'
    BY DEF RevertedIsCaused
  <2>1. PICK op : op = loop[Proposer].report.operationId
    OBVIOUS
  <2>2. Cause(op)' /\ loop'[Proposer].report.operationId = op
    BY <1>1, <2>1, RevertedHasCause
  <2> QED
    BY <2>2 DEF Cause
<1>9. GivenUpInv'
  BY <1>6, <1>7, <1>8 DEF GivenUpInv
<1> QED
  BY <1>2, <1>3, <1>9 DEF CauseInv

(***************************************************************************)
(* Theorem.  The relayer gives up an operation of its users only for a     *)
(* cause, and its two loops are none: what one of them queued is recorded  *)
(* before it handles the report again, and the finalizer gives up only     *)
(* what somebody objected to or cannot be executed.                        *)
(***************************************************************************)
THEOREM OnlyLostCausesAreGivenUp == Spec => []GivesUpOnlyWithCause
<1>1. Init => TrueInv /\ CauseInv
  <2> SUFFICES ASSUME Init
               PROVE  TrueInv /\ CauseInv
    OBVIOUS
  <2>1. Reports(db) = {} /\ \A p \in Loops : loop[p] = Begin
    BY DEF Init, ListenerInit, ProcessorInit, EmptyCollection, Reports
  <2>2. TrueInv
    BY <2>1, ProcessorAssumption DEF TrueInv, MinedIsTrue, HeldIn, Begin
  <2>3. mempool = {} /\ ours = {} /\ \A op \in Operations : status[op] = "NotQueued"
    BY DEF Init, ProcessorInit, Hub!Init
  <2>4. GivenUpInv
    BY <2>1, TheLoops, ProcessorAssumption DEF GivenUpInv, RevertedIsCaused, HeldIn, Begin
  <2>5. AllAreAwaited /\ OursAreRecorded /\ CancelledForObjection
    BY <2>3 DEF AllAreAwaited, OursAreRecorded, CancelledForObjection
  <2> QED
    BY <2>2, <2>4, <2>5 DEF CauseInv
<1>2. RelayerInv /\ TrueInv /\ CauseInv /\ [Next]_vars => TrueInv' /\ CauseInv'
  <2>1. TrueInv /\ UNCHANGED vars => TrueInv'
    BY DEF TrueInv, TrueOf, MinedIsTrue, Reports, vars, listenerVars, hubVars
  <2>2. CauseInv /\ UNCHANGED vars => CauseInv'
    BY DEF CauseInv, AllAreAwaited, OursAreRecorded, IsPending, CancelledForObjection,
           GivenUpInv, RevertedIsCaused, HasCause, Cause, CannotExecute, Reports, vars,
           listenerVars, hubVars
  <2> QED
    BY <2>1, <2>2, TrueInvStep, CauseInvStep
<1>3. CauseInv => GivesUpOnlyWithCause
  <2>1. NetworkOf[Proposer] \in Networks
    BY TheLoops
  <2> QED
    BY <2>1 DEF CauseInv, GivenUpInv, HasCause, Cause, CannotExecute, GivesUpOnlyWithCause, ReportOf
<1> QED
  BY <1>1, <1>2, <1>3, RelayerInvHolds, PTL DEF Spec

=============================================================================
