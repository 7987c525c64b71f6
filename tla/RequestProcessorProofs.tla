------------------------- MODULE RequestProcessorProofs -------------------------
(***************************************************************************)
(* What the proofs about the loops of the request processor share: what a  *)
(* report keeps of the log it was made from, what the collection keeps of  *)
(* its reports, and how a loop goes on.                                    *)
(***************************************************************************)
EXTENDS RequestProcessor, TLAPS

-----------------------------------------------------------------------------
(***************************************************************************)
(* Reports.  No loop changes what a report says of its log.                *)
(***************************************************************************)
IsReportOf(r, log) ==
    /\ r._id = ReportKey(log) /\ r.eventName = log.event
    /\ r.operationId = EventId(log) /\ r.networkId = log.network
    /\ r.transactionHash = log.tx /\ r.eventArgs = log.args
    /\ r.destination = ArgOf(log, "destination")

\* The report that the listener makes of a log, field by field.
LEMMA BuiltReport ==
    ASSUME NEW log, NEW now
    PROVE  BuildReport(log, now) =
             [_id |-> ReportKey(log), eventName |-> log.event, status |-> InitialStatus(log),
              operationId |-> EventId(log), networkId |-> log.network,
              destination |-> ArgOf(log, "destination"), eventArgs |-> log.args,
              transactionHash |-> log.tx, witnessedTs |-> now, proposalTs |-> Null,
              proposalTxHash |-> Null, finalTxHash |-> Null]
<1> DEFINE blank == EventWithAllRequiredSetToNull
           made == BuildReport(log, now)
<1>1. DOMAIN blank = ReportFields /\ \A f \in ReportFields : blank[f] = Null
  BY DEF EventWithAllRequiredSetToNull
<1>2. DOMAIN made = ReportFields
  BY <1>1 DEF BuildReport, AddInfoFromParsedLog, SetId, AddWitnessedTimestamp
<1>3. /\ made._id = ReportKey(log) /\ made.eventName = log.event
      /\ made.status = InitialStatus(log) /\ made.operationId = EventId(log)
      /\ made.networkId = log.network /\ made.destination = ArgOf(log, "destination")
      /\ made.eventArgs = log.args /\ made.transactionHash = log.tx /\ made.witnessedTs = now
      /\ made.proposalTs = Null /\ made.proposalTxHash = Null /\ made.finalTxHash = Null
  BY <1>1 DEF BuildReport, AddInfoFromParsedLog, SetId, AddWitnessedTimestamp, ReportFields
<1>4. made = [f \in ReportFields |-> made[f]]
  BY <1>2 DEF BuildReport, AddInfoFromParsedLog, SetId, AddWitnessedTimestamp
<1> DEFINE record ==
             [_id |-> ReportKey(log), eventName |-> log.event, status |-> InitialStatus(log),
              operationId |-> EventId(log), networkId |-> log.network,
              destination |-> ArgOf(log, "destination"), eventArgs |-> log.args,
              transactionHash |-> log.tx, witnessedTs |-> now, proposalTs |-> Null,
              proposalTxHash |-> Null, finalTxHash |-> Null]
<1>5. record = [f \in ReportFields |-> record[f]]
  BY DEF ReportFields
<1>6. \A f \in ReportFields : made[f] = record[f]
  BY <1>3 DEF ReportFields
<1> HIDE DEF made, record
<1>7. made = record
  BY <1>4, <1>5, <1>6
<1> QED
  BY <1>7 DEF made, record

\* Only the operation of a user on a chain of the configuration has an id with a destination.
LEMMA IdsOfUserOperations ==
    ASSUME NEW log \in Logs, log.event = "UserOperation"
    PROVE  /\ log.args.destination \in Networks =>
                EventId(log) = [origin |-> <<log.network, log.tx>>,
                                destination |-> log.args.destination, body |-> log.args.body]
           /\ log.args.destination \notin Networks => EventId(log).destination = Null
<1>1. log.args = [origin |-> Null, destination |-> log.args.destination, body |-> log.args.body]
  BY ListenerAssumption DEF HasOperation
<1>2. Origin(log.args, log.network, log.tx) = <<log.network, log.tx>>
  <2>1. log.args.origin = Null
    BY ListenerAssumption
  <2> QED
    BY <2>1 DEF Origin
<1>3. ASSUME NEW d, NEW b, NEW o
      PROVE  [[origin |-> Null, destination |-> d, body |-> b] EXCEPT !.origin = o]
                = [origin |-> o, destination |-> d, body |-> b]
  OBVIOUS
<1>4. EventIdEvm(log.args, log.network, log.tx)
         = [origin |-> <<log.network, log.tx>>,
            destination |-> log.args.destination, body |-> log.args.body]
  BY <1>1, <1>2, <1>3 DEF EventIdEvm
<1>5. CASE log.args.destination \in Networks
  BY <1>4, <1>5 DEF EventId, HasOperation
<1>6. CASE log.args.destination \notin Networks
  BY <1>6 DEF EventId, FallbackEventId
<1> QED
  BY <1>5, <1>6

\* The processor computes the id that the listener stored.
LEMMA ParsedOperation ==
    ASSUME NEW log \in Logs, HasOperation(log), log.args.destination \in Networks,
           NEW r, IsReportOf(r, log)
    PROVE  ParseUserOperation(r) = r.operationId
  BY DEF IsReportOf, ParseUserOperation, EventId

\* The collection after one of its reports was written.
LEMMA WrittenCollection ==
    ASSUME NEW collection, NEW r
    PROVE  /\ DOMAIN UpdateReport(collection, r) = DOMAIN collection \cup {r._id}
           /\ UpdateReport(collection, r)[r._id] = r
           /\ \A key \in DOMAIN collection \ {r._id} :
                 UpdateReport(collection, r)[key] = collection[key]
  BY DEF UpdateReport

-----------------------------------------------------------------------------
(***************************************************************************)
(* A round of a loop, and how it goes on.                                  *)
(***************************************************************************)
Round(step, todo, done) ==
    [at |-> step, todo |-> todo, done |-> done, proof |-> Null,
     report |-> Null, tx |-> Null, receipt |-> Null]

AfterHandling(s, report, results, next) ==
    LET todo == s.todo \ {report}
        done == s.done \cup results
    IN IF todo # {} THEN Round(s.at, todo, done)
       ELSE IF done # {} THEN Round(next, done, {}) ELSE Begin

\* Several changes to the state of a loop are one.
LEMMA ChangedField ==
    ASSUME NEW f, NEW x \in DOMAIN f, NEW k, NEW v
    PROVE  [f EXCEPT ![x][k] = v] = [f EXCEPT ![x] = [f[x] EXCEPT ![k] = v]]
  OBVIOUS

LEMMA ChangedTwice ==
    ASSUME NEW f, NEW x \in DOMAIN f, NEW u, NEW v
    PROVE  /\ [[f EXCEPT ![x] = u] EXCEPT ![x] = v] = [f EXCEPT ![x] = v]
           /\ [f EXCEPT ![x] = u][x] = u /\ x \in DOMAIN [f EXCEPT ![x] = u]
  OBVIOUS

LEMMA BeginIsRound == Begin = Round("read", {}, {})
  BY DEF Begin, Round

\* A state of a loop is given by its fields.
LEMMA RoundsByFields ==
    ASSUME NEW s, s = [f \in {"at", "todo", "done", "proof", "report", "tx", "receipt"} |-> s[f]],
           s.proof = Null, s.report = Null, s.tx = Null, s.receipt = Null
    PROVE  s = Round(s.at, s.todo, s.done)
<1> DEFINE fields == {"at", "todo", "done", "proof", "report", "tx", "receipt"}
           record == Round(s.at, s.todo, s.done)
<1>1. record = [f \in fields |-> record[f]]
  BY DEF Round
<1>2. \A f \in fields : s[f] = record[f]
  BY DEF Round
<1>3. s = [f \in fields |-> s[f]]
  OBVIOUS
<1> HIDE DEF record, fields
<1>4. s = record
  BY <1>1, <1>2, <1>3
<1> QED
  BY <1>4 DEF record

LEMMA StateAtIsRound ==
    ASSUME NEW step, NEW reports
    PROVE  StateAt(step, reports) = IF reports = {} THEN Begin ELSE Round(step, reports, {})
<1> DEFINE fields == {"at", "todo", "done", "proof", "report", "tx", "receipt"}
           state == [Begin EXCEPT !.at = step, !.todo = reports]
<1>1. DOMAIN Begin = fields /\ Begin = [f \in fields |-> Begin[f]]
  BY DEF Begin
<1>2. /\ state = [f \in fields |-> state[f]]
      /\ state.at = step /\ state.todo = reports
      /\ \A f \in fields \ {"at", "todo"} : state[f] = Begin[f]
  <2> HIDE DEF fields
  <2>1. PICK b : b = Begin
    OBVIOUS
  <2>2. PICK c : c = [b EXCEPT !.at = step]
    OBVIOUS
  <2>3. state = [c EXCEPT !.todo = reports]
    BY <2>1, <2>2
  <2>4. "at" \in fields /\ "todo" \in fields
    BY DEF fields
  <2>5. DOMAIN c = fields /\ c.at = step /\ \A f \in fields \ {"at"} : c[f] = b[f]
    BY <1>1, <2>1, <2>2, <2>4
  <2> QED
    BY <1>1, <2>1, <2>3, <2>4, <2>5
<1>3. state.done = {} /\ state.proof = Null /\ state.report = Null /\ state.tx = Null
        /\ state.receipt = Null
  BY <1>2 DEF Begin
<1> HIDE DEF state
<1>4. state = Round(step, reports, {})
  BY <1>2, <1>3, RoundsByFields
<1> QED
  BY <1>4 DEF StateAt, state

LEMMA HandledIsRound ==
    ASSUME NEW p, NEW report, NEW results, NEW next, Handled(p, report, results, next)
    PROVE  loop' = [loop EXCEPT ![p] = AfterHandling(loop[p], report, results, next)]
<1> DEFINE todo == loop[p].todo \ {report}
           done == loop[p].done \cup results
           state == StateAt(loop[p].at, todo)
           fields == {"at", "todo", "done", "proof", "report", "tx", "receipt"}
<1>1. CASE todo = {}
  BY <1>1, StateAtIsRound DEF Handled, AfterHandling
<1>2. CASE todo # {}
  <2>1. state = Round(loop[p].at, todo, {})
    BY <1>2, StateAtIsRound
  <2>2. /\ state = [f \in fields |-> state[f]] /\ DOMAIN state = fields
        /\ state.at = loop[p].at /\ state.todo = todo
        /\ state.proof = Null /\ state.report = Null /\ state.tx = Null /\ state.receipt = Null
    BY <2>1 DEF Round
  <2>3. PICK s : s = state
    OBVIOUS
  <2>4. PICK t : t = [s EXCEPT !.done = done]
    OBVIOUS
  <2>5. /\ t = [f \in fields |-> t[f]] /\ t.done = done
        /\ \A f \in fields \ {"done"} : t[f] = s[f]
    BY <2>2, <2>3, <2>4
  <2>6. t = Round(loop[p].at, todo, done)
    <3>1. /\ t.at = loop[p].at /\ t.todo = todo /\ t.done = done
          /\ t.proof = Null /\ t.report = Null /\ t.tx = Null /\ t.receipt = Null
      BY <2>2, <2>3, <2>5
    <3> QED
      BY <2>5, <3>1, RoundsByFields
  <2>7. loop' = [loop EXCEPT ![p] = [state EXCEPT !.done = done]]
    BY <1>2 DEF Handled
  <2>8. loop' = [loop EXCEPT ![p] = t]
    BY <2>3, <2>4, <2>7
  <2> QED
    BY <1>2, <2>6, <2>8 DEF AfterHandling
<1> QED
  BY <1>1, <1>2

=============================================================================
