----------------------------- MODULE GuardianProofs -----------------------------
(***************************************************************************)
(* What is proved of a guardian.                                           *)
(*                                                                         *)
(* Its process decides with what it read a while ago, and the answer to a  *)
(* transaction comes later still.  The proofs rest on what can no longer   *)
(* change: a report keeps what it says of its log and when it was          *)
(* witnessed, those that come are witnessed now, and the hub goes back on  *)
(* neither an objection, an end of an operation nor one of a challenge.    *)
(***************************************************************************)
EXTENDS Guardian, RequestProcessorProofs

-----------------------------------------------------------------------------
(***************************************************************************)
(* Reports: those of the collection and the copies that the process has.   *)
(***************************************************************************)
IdentityFields ==
    {"_id", "eventName", "operationId", "networkId", "transactionHash", "destination",
     "eventArgs", "witnessedTs"}

SameReport(r, other) == \A f \in IdentityFields : r[f] = other[f]

\* Why a request is given up, when n things went wrong before.
FailCause(r, n) ==
    \/ IsObjected(ParseUserOperation(r)) \/ n > 0
    \/ WasSlashedSince(r.witnessedTs) \/ ProofWasOutdatedSince(r.witnessedTs)

TrueOf(r, n) ==
    /\ r.eventName = "OperationQueued" =>
          /\ r.status = "cancelled" => IsObjected(ParseUserOperation(r))
          /\ r.status = "finalized" => status[ParseUserOperation(r)] = "Executed"
          /\ r.status = "failed" => FailCause(r, n)
    /\ r.status = "solved" =>
          r.eventName = "ChallengePending" /\ stage[r.eventArgs] = "Forfeited"

HeldOK(r, n) ==
    /\ r \in ReportType
    /\ \E log \in emitted : IsReportOf(r, log)
    /\ r.witnessedTs <= clock
    /\ r._id \in DOMAIN db /\ SameReport(r, db[r._id])
    /\ TrueOf(r, n)

(***************************************************************************)
(* What the process finds out, and what it knows by then: that nothing     *)
(* explained an operation when its report was there already, and which     *)
(* actors were the newest when it had a report.                            *)
(***************************************************************************)
Unreported(op) ==
    \E q \in QueuedReports :
        /\ ParseUserOperation(q) = op
        /\ op.destination = Network =>
              \A u \in UserReports : u.operationId = op => u.witnessedTs >= q.witnessedTs

KnownProof(proof, time) ==
    \E old \in ActorsReports :
        /\ old.eventArgs.actors = proof
        /\ \A r \in ActorsReports : r.witnessedTs <= old.witnessedTs \/ r.witnessedTs >= time

ActorSets == {log.args.actors : log \in ActorsLogs}

-----------------------------------------------------------------------------
(***************************************************************************)
(* The rounds of the process.                                              *)
(***************************************************************************)
Fields == {"at", "todo", "done", "proof", "report", "tx", "receipt"}

Steps ==
    {"read", "status", "reflect", "match", "prove dismissals", "dismiss",
     "pending", "prove answers", "solve", "write"}

IsRequest(r) == r.eventName = "OperationQueued" /\ r.networkId = Network

\* What the reports of a step are, and the proof.
StepOK(step, todo, done, proof, n) ==
    /\ step \in Steps
    /\ \A r \in todo \cup done : HeldOK(r, n)
    /\ step \in {"status", "reflect", "match", "prove dismissals", "dismiss"} =>
          \A r \in todo : IsRequest(r)
    /\ step = "status" => \A r \in done : IsRequest(r)
    /\ step \in {"prove answers", "solve"} => \A r \in todo : r.eventName = "ChallengePending"
    /\ step \in {"prove dismissals", "dismiss"} =>
          \A r \in todo : Unreported(ParseUserOperation(r))
    /\ step \in {"dismiss", "solve"} => Me \in proof /\ proof \in ActorSets
    /\ step = "dismiss" => \A r \in todo : KnownProof(proof, r.witnessedTs)

\* What the process waits for, and what it hears of it.
WaitsFor(s, n) ==
    /\ s.report \in s.todo
    /\ s.tx \in Transactions /\ s.tx.loop = Dismisser /\ s.tx.proof = s.proof
    /\ \/ s.at = "dismiss" /\ s.tx.call = "cancel" /\ s.tx.id = ParseUserOperation(s.report)
       \/ s.at = "solve" /\ s.tx.call = "solve" /\ s.tx.id = s.report.eventArgs
    /\ s.receipt \in {Null, "mined", "reverted"}
    /\ s.receipt = "mined" /\ s.at = "dismiss" => "guardian" \in objections[s.tx.id]
    /\ s.receipt = "mined" /\ s.at = "solve" => stage[s.tx.id] = "Forfeited"
    /\ s.receipt = "reverted" /\ s.at = "dismiss" => FailCause(s.report, n)

RoundOK(s, n) ==
    /\ DOMAIN s = Fields
    /\ StepOK(s.at, s.todo, s.done, s.proof, n)
    /\ IF s.tx = Null THEN s.report = Null /\ s.receipt = Null ELSE WaitsFor(s, n)

-----------------------------------------------------------------------------
(***************************************************************************)
(* The inductive invariant.                                                *)
(***************************************************************************)
EmittedOK ==
    \A log \in emitted :
        /\ log \in Logs
        /\ log.event = "ActorsPropagated" =>
              log.args.epoch \in Int /\ log.args.epoch <= Game!Epoch(clock)
        /\ log.event = "OperationQueued" =>
              log.args \in Operations /\ status[log.args] # "NotQueued"
        /\ log.event = "ChallengePending" => log.args \in Challenges

ListenerType ==
    /\ inbox \subseteq emitted
    /\ listening \subseteq DOMAIN EventsOf
    /\ faults \in 0..MaxFaults

HubType ==
    /\ clock \in 0..MaxTime
    /\ status \in [Operations -> {"NotQueued", "Queued", "Executed", "Cancelled"}]
    /\ DOMAIN objections = Operations
    /\ DOMAIN stage = Challenges /\ DOMAIN openedAt = Challenges

DbOK == \A key \in DOMAIN db : db[key]._id = key /\ HeldOK(db[key], faults)

LoopOK ==
    /\ DOMAIN loop = Loops
    /\ \E s, n : s = State /\ n = faults /\ RoundOK(s, n)

Justified(tx) ==
    /\ tx \in Transactions
    /\ tx.call = "cancel" => tx.id \in Operations /\ Unreported(tx.id)
    /\ tx.call = "solve" => tx.id \in Challenges

MempoolOK == \A tx \in mempool : Justified(tx)

OursOK == \A op \in ours : op \in Operations /\ Unreported(op)

IInv ==
    /\ EmittedOK /\ ListenerType /\ HubType
    /\ DbOK /\ LoopOK /\ MempoolOK /\ OursOK

-----------------------------------------------------------------------------
(***************************************************************************)
(* Facts about the constants, time and reports.                            *)
(***************************************************************************)
LEMMA TheDismisser == Loops = {Dismisser} /\ Network \in Networks /\ Network # Null
  BY GuardianAssumption, ProcessorAssumption, ListenerAssumption DEF Network

LEMMA NullIsNeither ==
    /\ \A r \in ReportType : r # Null
    /\ \A tx \in Transactions : tx # Null
  BY GuardianAssumption

LEMMA EpochMonotone ==
    ASSUME NEW t \in Nat, NEW u \in Nat, t <= u
    PROVE  Game!Epoch(t) \in Nat /\ Game!Epoch(t) <= Game!Epoch(u)
<1>1. EpochLength \in Nat /\ EpochLength > 0
  BY GuardianAssumption
<1>2. ASSUME NEW x \in Nat, NEW d \in Nat, d > 0
      PROVE  x \div d \in Nat /\ d * (x \div d) <= x /\ x < d * (x \div d) + d
  BY <1>2, SMT
<1>3. ASSUME NEW a \in Nat, NEW b \in Nat, NEW d \in Nat, d > 0, d * a <= t, u < d * b + d
      PROVE  a <= b
  <2>1. SUFFICES ASSUME b + 1 <= a PROVE FALSE
    BY <1>3
  <2>2. d * (b + 1) <= d * a
    BY <1>3, <2>1
  <2>3. d * (b + 1) = d * b + d
    BY <1>3
  <2> QED
    BY <1>3, <2>2, <2>3
<1> QED
  BY <1>1, <1>2, <1>3 DEF Game!Epoch

\* The operation that a hub queued is what its log says.
LEMMA QueuedOperation ==
    ASSUME NEW log \in Logs, log.event = "OperationQueued", log.args \in Operations
    PROVE  /\ EventIdEvm(log.args, log.network, log.tx) = log.args
           /\ EventId(log).destination = Network => EventId(log) = log.args
           /\ log.args.destination = Network => EventId(log) = log.args
<1>1. HasOperation(log) /\ log.args.origin # Null
  BY GuardianAssumption DEF HasOperation
<1>2. log.args = [origin |-> log.args.origin, destination |-> log.args.destination,
                  body |-> log.args.body]
  BY <1>1, ListenerAssumption
<1>3. ASSUME NEW d, NEW b, NEW o
      PROVE  [[origin |-> o, destination |-> d, body |-> b] EXCEPT !.origin = o]
                = [origin |-> o, destination |-> d, body |-> b]
  OBVIOUS
<1>4. EventIdEvm(log.args, log.network, log.tx) = log.args
  <2>1. Origin(log.args, log.network, log.tx) = log.args.origin
    BY <1>1 DEF Origin
  <2>2. PICK o, d, b : o = log.args.origin /\ d = log.args.destination /\ b = log.args.body
    OBVIOUS
  <2>3. log.args = [origin |-> o, destination |-> d, body |-> b]
    BY <1>2, <2>2
  <2>4. EventIdEvm(log.args, log.network, log.tx) = [log.args EXCEPT !.origin = o]
    BY <2>1, <2>2 DEF EventIdEvm
  <2> QED
    BY <1>3, <2>3, <2>4
<1>5. log.args.destination \in Networks => EventId(log) = log.args
  BY <1>1, <1>4 DEF EventId
<1>6. log.args.destination \notin Networks => EventId(log).destination = Null
  BY DEF EventId, FallbackEventId
<1> QED
  BY <1>4, <1>5, <1>6, TheDismisser

\* What a listener inserts.
LEMMA InsertedReport ==
    ASSUME NEW log \in Logs, NEW now \in 0..MaxTime
    PROVE  LET r == BuildReport(log, now)
           IN /\ r \in ReportType /\ IsReportOf(r, log)
              /\ r._id = ReportKey(log) /\ r.witnessedTs = now
              /\ r.status \in {"proposed", "detected"}
<1> DEFINE r == BuildReport(log, now)
<1>1. log.event \in EventNames /\ log.network \in Networks
        /\ InitialStatus(log) \in {"proposed", "detected"}
  BY ListenerAssumption DEF InitialStatus
<1>2. r = [_id |-> ReportKey(log), eventName |-> log.event, status |-> InitialStatus(log),
           operationId |-> EventId(log), networkId |-> log.network,
           destination |-> ArgOf(log, "destination"), eventArgs |-> log.args,
           transactionHash |-> log.tx, witnessedTs |-> now, proposalTs |-> Null,
           proposalTxHash |-> Null, finalTxHash |-> Null]
  BY BuiltReport
<1> HIDE DEF r
<1>3. r \in ReportType
  BY <1>1, <1>2 DEF ReportType, TxStatuses
<1>4. IsReportOf(r, log) /\ r._id = ReportKey(log) /\ r.witnessedTs = now
        /\ r.status \in {"proposed", "detected"}
  BY <1>1, <1>2 DEF IsReportOf
<1>5. r \in ReportType /\ IsReportOf(r, log) /\ r._id = ReportKey(log) /\ r.witnessedTs = now
        /\ r.status \in {"proposed", "detected"}
  BY <1>3, <1>4
<1> QED
  BY <1>5 DEF r

\* What the process writes on a report leaves alone what it says of its log.
LEMMA AmendedReport ==
    ASSUME NEW r \in ReportType, NEW s \in TxStatuses, NEW hash \in {"0x", "hash"}
    PROVE  /\ LET q == [r EXCEPT !.status = s]
              IN q \in ReportType /\ SameReport(q, r) /\ q.status = s
           /\ LET q == [r EXCEPT !.status = s, !.finalTxHash = hash]
              IN q \in ReportType /\ SameReport(q, r) /\ q.status = s
<1>1. ASSUME NEW q, q = [r EXCEPT !.status = s]
      PROVE  q \in ReportType /\ SameReport(q, r) /\ q.status = s
  <2>1. q \in ReportType /\ q.status = s
    BY <1>1 DEF ReportType
  <2>2. SameReport(q, r)
    BY <1>1 DEF ReportType, SameReport, IdentityFields
  <2> QED
    BY <2>1, <2>2
<1>2. ASSUME NEW q, NEW p, q = [r EXCEPT !.status = s], p = [q EXCEPT !.finalTxHash = hash]
      PROVE  p \in ReportType /\ SameReport(p, r) /\ p.status = s
  <2>1. q \in ReportType /\ SameReport(q, r) /\ q.status = s
    BY <1>1, <1>2
  <2>2. p \in ReportType /\ p.status = s
    BY <1>2, <2>1 DEF ReportType
  <2>3. SameReport(p, q)
    BY <1>2, <2>1 DEF ReportType, SameReport, IdentityFields
  <2> QED
    BY <2>1, <2>2, <2>3 DEF SameReport
<1>3. [r EXCEPT !.status = s, !.finalTxHash = hash]
        = [[r EXCEPT !.status = s] EXCEPT !.finalTxHash = hash]
  OBVIOUS
<1>4. PICK q, p : q = [r EXCEPT !.status = s] /\ p = [q EXCEPT !.finalTxHash = hash]
  OBVIOUS
<1>5. p = [r EXCEPT !.status = s, !.finalTxHash = hash]
  BY <1>3, <1>4
<1>6. /\ q \in ReportType /\ SameReport(q, r) /\ q.status = s
      /\ p \in ReportType /\ SameReport(p, r) /\ p.status = s
  BY <1>1, <1>2, <1>4
<1> QED
  BY <1>4, <1>5, <1>6

LEMMA SameReports ==
    ASSUME NEW r, NEW other, SameReport(r, other)
    PROVE  /\ r._id = other._id /\ r.eventName = other.eventName
           /\ r.operationId = other.operationId /\ r.networkId = other.networkId
           /\ r.transactionHash = other.transactionHash /\ r.destination = other.destination
           /\ r.eventArgs = other.eventArgs /\ r.witnessedTs = other.witnessedTs
           /\ ParseUserOperation(r) = ParseUserOperation(other)
           /\ SameReport(other, r)
           /\ \A log : IsReportOf(r, log) <=> IsReportOf(other, log)
<1>1. /\ r._id = other._id /\ r.eventName = other.eventName
      /\ r.operationId = other.operationId /\ r.networkId = other.networkId
      /\ r.transactionHash = other.transactionHash /\ r.destination = other.destination
      /\ r.eventArgs = other.eventArgs /\ r.witnessedTs = other.witnessedTs
  BY DEF SameReport, IdentityFields
<1> QED
  BY <1>1 DEF SameReport, ParseUserOperation, IsReportOf

-----------------------------------------------------------------------------
(***************************************************************************)
(* What a step never takes back, and what is true and stays true for that. *)
(***************************************************************************)
CollectionGrows ==
    /\ \A key \in DOMAIN db : key \in DOMAIN db' /\ SameReport(db'[key], db[key])
    /\ \A key \in DOMAIN db' : key \in DOMAIN db \/ db'[key].witnessedTs = clock

HubGoesOn ==
    /\ clock <= clock' /\ clock' \in 0..MaxTime
    /\ \A op \in Operations :
          /\ status[op] # "NotQueued" => status'[op] # "NotQueued"
          /\ status[op] \notin {"NotQueued", "Queued"} => status'[op] = status[op]
          /\ objections[op] \subseteq objections'[op]
    /\ \A c \in Challenges : stage[c] \in {"Forfeited", "Slashed"} =>
          stage'[c] = stage[c] /\ openedAt'[c] = openedAt[c]

Progress ==
    /\ CollectionGrows /\ HubGoesOn
    /\ emitted \subseteq emitted'
    /\ faults <= faults' /\ faults' \in 0..MaxFaults

\* The operation of a request is one that the hub queued.
LEMMA RequestedOperation ==
    ASSUME EmittedOK, NEW r, NEW n, HeldOK(r, n), r.eventName = "OperationQueued"
    PROVE  /\ ParseUserOperation(r) = r.eventArgs /\ ParseUserOperation(r) \in Operations
           /\ status[ParseUserOperation(r)] # "NotQueued"
<1>1. PICK log \in emitted : IsReportOf(r, log)
  BY DEF HeldOK
<1>2. log \in Logs /\ log.event = "OperationQueued"
  BY <1>1 DEF EmittedOK, IsReportOf
<1>3. log.args \in Operations /\ status[log.args] # "NotQueued"
  BY <1>2 DEF EmittedOK
<1>4. ParseUserOperation(r) = EventIdEvm(log.args, log.network, log.tx)
  BY <1>1 DEF ParseUserOperation, IsReportOf
<1>5. ParseUserOperation(r) = log.args /\ r.eventArgs = log.args
  BY <1>1, <1>2, <1>3, <1>4, QueuedOperation DEF IsReportOf
<1> QED
  BY <1>3, <1>5

\* A report of the collection is there after the step, and when any other was witnessed.
LEMMA ReportsLast ==
    ASSUME DbOK, HubType, Progress
    PROVE  /\ \A r \in Reports(db) : \E q : q \in Reports(db)' /\ SameReport(q, r)
           /\ \A q : q \in Reports(db)' =>
                 q.witnessedTs = clock \/ \E r \in Reports(db) : SameReport(q, r)
           /\ \A r \in Reports(db) : r.witnessedTs \in Nat /\ r.witnessedTs <= clock
<1>1. ASSUME NEW r \in Reports(db)
      PROVE  \E q : q \in Reports(db)' /\ SameReport(q, r)
  <2>1. PICK key \in DOMAIN db : r = db[key]
    BY DEF Reports
  <2>2. key \in DOMAIN db' /\ SameReport(db'[key], r)
    BY <2>1 DEF Progress, CollectionGrows
  <2> QED
    BY <2>2 DEF Reports
<1>2. ASSUME NEW q, q \in Reports(db)'
      PROVE  q.witnessedTs = clock \/ \E r \in Reports(db) : SameReport(q, r)
  <2>1. PICK key \in DOMAIN db' : q = db'[key]
    BY <1>2 DEF Reports
  <2>2. CASE key \in DOMAIN db
    BY <2>1, <2>2 DEF Progress, CollectionGrows, Reports
  <2>3. CASE key \notin DOMAIN db
    BY <2>1, <2>3 DEF Progress, CollectionGrows
  <2> QED
    BY <2>2, <2>3
<1>3. ASSUME NEW r \in Reports(db)
      PROVE  r.witnessedTs \in Nat /\ r.witnessedTs <= clock
  <2>1. PICK key \in DOMAIN db : r = db[key]
    BY DEF Reports
  <2>2. r \in ReportType /\ r.witnessedTs <= clock
    BY <2>1 DEF DbOK, HeldOK
  <2> QED
    BY <2>2, ProcessorAssumption DEF ReportType
<1> QED
  BY <1>1, <1>2, <1>3

LEMMA UnreportedLasts ==
    ASSUME DbOK, HubType, Progress, NEW op, Unreported(op)
    PROVE  Unreported(op)'
<1>1. PICK q \in QueuedReports :
        /\ ParseUserOperation(q) = op
        /\ op.destination = Network =>
              \A u \in UserReports : u.operationId = op => u.witnessedTs >= q.witnessedTs
  BY DEF Unreported
<1>2. q \in Reports(db) /\ q.eventName = "OperationQueued"
  BY DEF QueuedReports
<1>3. PICK later : later \in Reports(db)' /\ SameReport(later, q)
  BY <1>2, ReportsLast
<1>4. /\ later.eventName = "OperationQueued" /\ ParseUserOperation(later) = op
      /\ later.witnessedTs = q.witnessedTs
  BY <1>1, <1>2, <1>3, SameReports
<1>5. ASSUME op.destination = Network, NEW u, u \in UserReports', u.operationId = op
      PROVE  u.witnessedTs >= later.witnessedTs
  <2>1. u \in Reports(db)' /\ u.eventName = "UserOperation" /\ u.destination = Network
    BY <1>5 DEF UserReports
  <2>2. q.witnessedTs \in Nat /\ q.witnessedTs <= clock /\ clock \in Nat
    BY <1>2, ReportsLast, ProcessorAssumption DEF HubType
  <2>3. CASE u.witnessedTs = clock
    BY <1>4, <2>2, <2>3
  <2>4. CASE \E r \in Reports(db) : SameReport(u, r)
    <3>1. PICK r \in Reports(db) : SameReport(u, r)
      BY <2>4
    <3>2. r \in UserReports /\ r.operationId = op /\ r.witnessedTs = u.witnessedTs
      BY <1>5, <2>1, <3>1, SameReports DEF UserReports
    <3> QED
      BY <1>1, <1>4, <1>5, <3>2
  <2> QED
    BY <2>1, <2>3, <2>4, ReportsLast
<1>6. later \in QueuedReports'
  BY <1>3, <1>4 DEF QueuedReports
<1> QED
  BY <1>4, <1>5, <1>6 DEF Unreported

LEMMA KnownProofLasts ==
    ASSUME DbOK, HubType, Progress, NEW proof, NEW time \in Nat, time <= clock,
           KnownProof(proof, time)
    PROVE  KnownProof(proof, time)'
<1>1. PICK old \in ActorsReports :
        /\ old.eventArgs.actors = proof
        /\ \A r \in ActorsReports : r.witnessedTs <= old.witnessedTs \/ r.witnessedTs >= time
  BY DEF KnownProof
<1>2. old \in Reports(db) /\ old.eventName = "ActorsPropagated"
  BY DEF ActorsReports
<1>3. PICK later : later \in Reports(db)' /\ SameReport(later, old)
  BY <1>2, ReportsLast
<1>4. /\ later.eventName = "ActorsPropagated" /\ later.eventArgs.actors = proof
      /\ later.witnessedTs = old.witnessedTs
  BY <1>1, <1>2, <1>3, SameReports
<1>5. ASSUME NEW u, u \in ActorsReports'
      PROVE  u.witnessedTs <= later.witnessedTs \/ u.witnessedTs >= time
  <2>1. u \in Reports(db)' /\ u.eventName = "ActorsPropagated"
    BY <1>5 DEF ActorsReports
  <2>2. CASE u.witnessedTs = clock
    BY <2>2, ProcessorAssumption DEF HubType
  <2>3. CASE \E r \in Reports(db) : SameReport(u, r)
    <3>1. PICK r \in Reports(db) : SameReport(u, r)
      BY <2>3
    <3>2. r \in ActorsReports /\ r.witnessedTs = u.witnessedTs
      BY <2>1, <3>1, SameReports DEF ActorsReports
    <3> QED
      BY <1>1, <1>4, <3>2
  <2> QED
    BY <2>1, <2>2, <2>3, ReportsLast
<1>6. later \in ActorsReports'
  BY <1>3, <1>4 DEF ActorsReports
<1> QED
  BY <1>4, <1>5, <1>6 DEF KnownProof

LEMMA OutdatedLasts ==
    ASSUME DbOK, HubType, Progress, NEW time \in Nat, time <= clock,
           ProofWasOutdatedSince(time)
    PROVE  ProofWasOutdatedSince(time)'
<1>1. PICK old \in ActorsReports, epoch \in Game!Epoch(time)..Game!Epoch(clock) :
        /\ old.eventArgs.epoch < epoch
        /\ \A r \in ActorsReports : r.eventArgs.epoch = epoch =>
              r.witnessedTs <= old.witnessedTs \/ r.witnessedTs >= time
  BY DEF ProofWasOutdatedSince
<1>2. old \in Reports(db) /\ old.eventName = "ActorsPropagated"
  BY DEF ActorsReports
<1>3. PICK later : later \in Reports(db)' /\ SameReport(later, old)
  BY <1>2, ReportsLast
<1>4. /\ later.eventName = "ActorsPropagated" /\ later.eventArgs.epoch < epoch
      /\ later.witnessedTs = old.witnessedTs
  BY <1>1, <1>2, <1>3, SameReports
<1>5. ASSUME NEW u, u \in ActorsReports', u.eventArgs.epoch = epoch
      PROVE  u.witnessedTs <= later.witnessedTs \/ u.witnessedTs >= time
  <2>1. u \in Reports(db)' /\ u.eventName = "ActorsPropagated"
    BY <1>5 DEF ActorsReports
  <2>2. CASE u.witnessedTs = clock
    BY <2>2, ProcessorAssumption DEF HubType
  <2>3. CASE \E r \in Reports(db) : SameReport(u, r)
    <3>1. PICK r \in Reports(db) : SameReport(u, r)
      BY <2>3
    <3>2. r \in ActorsReports /\ r.witnessedTs = u.witnessedTs /\ r.eventArgs.epoch = epoch
      BY <1>5, <2>1, <3>1, SameReports DEF ActorsReports
    <3> QED
      BY <1>1, <1>4, <3>2
  <2> QED
    BY <2>1, <2>2, <2>3, ReportsLast
<1>6. later \in ActorsReports'
  BY <1>3, <1>4 DEF ActorsReports
<1>7. epoch \in Game!Epoch(time)..Game!Epoch(clock')
  <2>1. clock \in Nat /\ clock' \in Nat /\ clock <= clock'
    BY ProcessorAssumption DEF HubType, Progress, HubGoesOn
  <2>2. /\ Game!Epoch(time) \in Nat /\ Game!Epoch(clock) \in Nat /\ Game!Epoch(clock') \in Nat
        /\ Game!Epoch(clock) <= Game!Epoch(clock')
    BY <2>1, EpochMonotone
  <2> QED
    BY <2>2
<1>8. epoch \in (Game!Epoch(time)..Game!Epoch(clock))'
  BY <1>7 DEF Game!Epoch
<1> QED
  BY <1>4, <1>5, <1>6, <1>8 DEF ProofWasOutdatedSince

LEMMA CausesLast ==
    ASSUME EmittedOK, DbOK, HubType, Progress, NEW r, NEW n, HeldOK(r, n),
           r.eventName = "OperationQueued"
    PROVE  /\ IsObjected(ParseUserOperation(r)) => IsObjected(ParseUserOperation(r))'
           /\ FailCause(r, n) => FailCause(r, n)'
<1> DEFINE op == ParseUserOperation(r)
<1>1. op \in Operations /\ status[op] # "NotQueued" /\ r.witnessedTs \in Nat
        /\ r.witnessedTs <= clock
  BY RequestedOperation, ProcessorAssumption DEF HeldOK, ReportType
<1>2. ASSUME IsObjected(op) PROVE IsObjected(op)'
  <2> HIDE DEF op
  <2>1. /\ status[op] \notin {"NotQueued", "Queued"} => status'[op] = status[op]
        /\ objections[op] \subseteq objections'[op]
    BY <1>1 DEF Progress, HubGoesOn
  <2> QED
    BY <1>1, <1>2, <2>1 DEF IsObjected
<1>3. ASSUME NEW time, WasSlashedSince(time)
      PROVE  WasSlashedSince(time)'
  <2>1. PICK c \in Challenges :
          /\ c.network = Network /\ c.actor = Me /\ stage[c] = "Slashed"
          /\ Game!Epoch(openedAt[c]) >= Game!Epoch(time)
    BY <1>3 DEF WasSlashedSince
  <2>2. stage'[c] = "Slashed" /\ openedAt'[c] = openedAt[c]
    BY <2>1 DEF Progress, HubGoesOn
  <2>3. (Game!Epoch(openedAt[c]) >= Game!Epoch(time))'
    BY <2>1, <2>2 DEF Game!Epoch
  <2> QED
    BY <2>1, <2>2, <2>3 DEF WasSlashedSince
<1>4. ASSUME FailCause(r, n) PROVE FailCause(r, n)'
  <2> DEFINE time == r.witnessedTs
  <2>1. IsObjected(op) \/ n > 0 \/ WasSlashedSince(time) \/ ProofWasOutdatedSince(time)
    BY <1>4 DEF FailCause
  <2>2. ProofWasOutdatedSince(time) => ProofWasOutdatedSince(time)'
    <3> HIDE DEF time
    <3>1. time \in Nat /\ time <= clock
      BY <1>1 DEF time
    <3> QED
      BY <3>1, OutdatedLasts
  <2>3. WasSlashedSince(time) => WasSlashedSince(time)'
    BY <1>3
  <2> QED
    BY <1>2, <2>1, <2>2, <2>3 DEF FailCause
<1> QED
  BY <1>2, <1>4

LEMMA HeldLasts ==
    ASSUME EmittedOK, DbOK, HubType, Progress, NEW r, NEW n, HeldOK(r, n)
    PROVE  HeldOK(r, n)'
<1>1. r \in ReportType /\ r.witnessedTs \in Nat /\ r.witnessedTs <= clock /\ clock \in Nat
  BY ProcessorAssumption DEF HeldOK, ReportType, HubType
<1>2. r.witnessedTs <= clock'
  BY <1>1, ProcessorAssumption DEF Progress, HubGoesOn
<1>3. PICK log \in emitted : IsReportOf(r, log)
  BY DEF HeldOK
<1>4. log \in emitted'
  BY DEF Progress
<1>5. r._id \in DOMAIN db' /\ SameReport(r, db'[r._id])
  <2>1. r._id \in DOMAIN db /\ SameReport(r, db[r._id])
    BY DEF HeldOK
  <2>2. r._id \in DOMAIN db' /\ SameReport(db'[r._id], db[r._id])
    BY <2>1 DEF Progress, CollectionGrows
  <2> QED
    BY <2>1, <2>2 DEF SameReport
<1>6. CASE r.eventName = "OperationQueued"
  <2> DEFINE op == ParseUserOperation(r)
  <2>1. op \in Operations
    BY <1>6, RequestedOperation
  <2>2. status[op] = "Executed" => status'[op] = "Executed"
    BY <2>1 DEF Progress, HubGoesOn
  <2>3. TrueOf(r, n)
    BY DEF HeldOK
  <2> HIDE DEF op
  <2>4. /\ r.status = "cancelled" => IsObjected(op)'
        /\ r.status = "finalized" => status'[op] = "Executed"
        /\ r.status = "failed" => FailCause(r, n)'
        /\ r.status # "solved"
    BY <1>6, <2>2, <2>3, CausesLast DEF TrueOf, op
  <2>5. TrueOf(r, n)'
    BY <2>4 DEF TrueOf, op
  <2> QED
    BY <1>1, <1>2, <1>3, <1>4, <1>5, <2>5 DEF HeldOK
<1>7. CASE r.eventName # "OperationQueued"
  <2>1. r.status = "solved" => r.eventName = "ChallengePending" /\ stage[r.eventArgs] = "Forfeited"
    BY DEF HeldOK, TrueOf
  <2>2. r.eventName = "ChallengePending" => r.eventArgs \in Challenges
    BY <1>3 DEF EmittedOK, IsReportOf
  <2>3. r.status = "solved" => stage'[r.eventArgs] = "Forfeited"
    BY <2>1, <2>2 DEF Progress, HubGoesOn
  <2>4. TrueOf(r, n)'
    BY <1>7, <2>1, <2>3 DEF TrueOf
  <2> QED
    BY <1>1, <1>2, <1>3, <1>4, <1>5, <2>4 DEF HeldOK
<1> QED
  BY <1>6, <1>7

\* More faults excuse more.
LEMMA HeldWithMoreFaults ==
    ASSUME NEW r, NEW n \in Nat, NEW m \in Nat, n <= m
    PROVE  (FailCause(r, n) => FailCause(r, m)) /\ (HeldOK(r, n) => HeldOK(r, m))
<1>1. FailCause(r, n) => FailCause(r, m)
  BY DEF FailCause
<1> QED
  BY <1>1 DEF HeldOK, TrueOf

LEMMA StepLasts ==
    ASSUME EmittedOK, DbOK, HubType, Progress,
           NEW step, NEW todo, NEW done, NEW proof, NEW n,
           StepOK(step, todo, done, proof, n)
    PROVE  StepOK(step, todo, done, proof, n)'
<1>1. \A r \in todo \cup done : HeldOK(r, n) /\ HeldOK(r, n)'
  BY HeldLasts DEF StepOK
<1>2. ASSUME step \in {"prove dismissals", "dismiss"}, NEW r \in todo
      PROVE  Unreported(ParseUserOperation(r))'
  <2>1. PICK op : op = ParseUserOperation(r)
    OBVIOUS
  <2>2. Unreported(op)
    BY <1>2, <2>1 DEF StepOK
  <2>3. Unreported(op)'
    BY <2>2, UnreportedLasts
  <2> QED
    BY <2>1, <2>3
<1>3. ASSUME step = "dismiss", NEW r \in todo
      PROVE  KnownProof(proof, r.witnessedTs)'
  <2>1. PICK time : time = r.witnessedTs
    OBVIOUS
  <2>2. time \in Nat /\ time <= clock /\ KnownProof(proof, time)
    BY <1>1, <1>3, <2>1, ProcessorAssumption DEF StepOK, HeldOK, ReportType
  <2>3. KnownProof(proof, time)'
    BY <2>2, KnownProofLasts
  <2> QED
    BY <2>1, <2>3
<1> QED
  BY <1>1, <1>2, <1>3 DEF StepOK

LEMMA RoundLasts ==
    ASSUME EmittedOK, DbOK, HubType, Progress, NEW s, NEW n, RoundOK(s, n)
    PROVE  RoundOK(s, n)'
<1>1. StepOK(s.at, s.todo, s.done, s.proof, n)
  BY DEF RoundOK
<1>2. StepOK(s.at, s.todo, s.done, s.proof, n)'
  <2>1. PICK step, todo, done, proof :
          step = s.at /\ todo = s.todo /\ done = s.done /\ proof = s.proof
    OBVIOUS
  <2>2. StepOK(step, todo, done, proof, n)
    BY <1>1, <2>1
  <2>3. StepOK(step, todo, done, proof, n)'
    BY <2>2, StepLasts
  <2> QED
    BY <2>1, <2>3
<1>3. ASSUME WaitsFor(s, n)
      PROVE  WaitsFor(s, n)'
  <2>1. s.report \in s.todo /\ HeldOK(s.report, n)
    BY <1>1, <1>3 DEF WaitsFor, StepOK
  <2>2. CASE s.at = "dismiss"
    <3>1. s.report.eventName = "OperationQueued"
      BY <1>1, <2>1, <2>2 DEF StepOK, IsRequest
    <3>2. s.tx.id \in Operations
      BY <1>3, <2>1, <2>2, <3>1, RequestedOperation DEF WaitsFor
    <3>3. "guardian" \in objections[s.tx.id] => "guardian" \in objections'[s.tx.id]
      BY <3>2 DEF Progress, HubGoesOn
    <3>4. FailCause(s.report, n) => FailCause(s.report, n)'
      <4>1. PICK r : r = s.report
        OBVIOUS
      <4>2. FailCause(r, n) => FailCause(r, n)'
        BY <2>1, <3>1, <4>1, CausesLast
      <4> QED
        BY <4>1, <4>2
    <3> QED
      BY <1>3, <2>2, <3>3, <3>4 DEF WaitsFor
  <2>3. CASE s.at = "solve"
    <3>1. s.report.eventName = "ChallengePending"
      BY <1>1, <2>1, <2>3 DEF StepOK
    <3>2. s.tx.id \in Challenges
      BY <1>3, <2>1, <2>3, <3>1 DEF WaitsFor, HeldOK, EmittedOK, IsReportOf
    <3>3. stage[s.tx.id] = "Forfeited" => stage'[s.tx.id] = "Forfeited"
      BY <3>2 DEF Progress, HubGoesOn
    <3> QED
      BY <1>3, <2>3, <3>3 DEF WaitsFor
  <2> QED
    BY <1>3, <2>2, <2>3 DEF WaitsFor
<1> QED
  BY <1>2, <1>3 DEF RoundOK

LEMMA RoundWithMoreFaults ==
    ASSUME NEW s, NEW n \in Nat, NEW m \in Nat, n <= m, RoundOK(s, n)
    PROVE  RoundOK(s, m)
<1>1. \A r : (FailCause(r, n) => FailCause(r, m)) /\ (HeldOK(r, n) => HeldOK(r, m))
  BY HeldWithMoreFaults
<1>2. StepOK(s.at, s.todo, s.done, s.proof, m)
  BY <1>1 DEF RoundOK, StepOK
<1>3. WaitsFor(s, n) => WaitsFor(s, m)
  BY <1>1 DEF WaitsFor
<1> QED
  BY <1>2, <1>3 DEF RoundOK

-----------------------------------------------------------------------------
(***************************************************************************)
(* A step of the process: it goes on to another step, and may write a      *)
(* report it holds or send a transaction.                                  *)
(***************************************************************************)
Going(step, todo, done, proof) ==
    [at |-> step, todo |-> todo, done |-> done, proof |-> proof,
     report |-> Null, tx |-> Null, receipt |-> Null]

ProcessFrame == UNCHANGED <<emitted, listening, inbox, hubVars, gameVars>>

Acts ==
    /\ \E t : loop' = [loop EXCEPT ![Dismisser] = t] /\ RoundOK(t, faults')
    /\ UNCHANGED db \/ \E r : HeldOK(r, faults) /\ db' = UpdateReport(db, r)
    /\ UNCHANGED mempool \/ \E tx : Justified(tx) /\ mempool' = mempool \cup {tx}
    /\ UNCHANGED faults \/ Fault
    /\ ProcessFrame

LEMMA GoingFields ==
    ASSUME NEW step, NEW todo, NEW done, NEW proof
    PROVE  LET t == Going(step, todo, done, proof)
           IN /\ DOMAIN t = Fields
              /\ t.at = step /\ t.todo = todo /\ t.done = done /\ t.proof = proof
              /\ t.report = Null /\ t.tx = Null /\ t.receipt = Null
  BY DEF Going, Fields

LEMMA GoingOK ==
    ASSUME NEW step, NEW todo, NEW done, NEW proof, NEW n, StepOK(step, todo, done, proof, n)
    PROVE  RoundOK(Going(step, todo, done, proof), n)
<1>1. PICK t : t = Going(step, todo, done, proof)
  OBVIOUS
<1>2. /\ DOMAIN t = Fields
      /\ t.at = step /\ t.todo = todo /\ t.done = done /\ t.proof = proof
      /\ t.report = Null /\ t.tx = Null /\ t.receipt = Null
  BY <1>1, GoingFields
<1>3. RoundOK(t, n)
  BY <1>2 DEF RoundOK
<1> QED
  BY <1>1, <1>3

LEMMA BeginIsGoing == Begin = Going("read", {}, {}, Null)
  BY DEF Begin, Going

LEMMA RoundIsGoing ==
    ASSUME NEW step, NEW todo, NEW done
    PROVE  Round(step, todo, done) = Going(step, todo, done, Null)
  BY DEF Round, Going

LEMMA BeginOK == \A n : RoundOK(Begin, n)
<1> TAKE n
<1>1. StepOK("read", {}, {}, Null, n)
  BY DEF StepOK, Steps
<1> QED
  BY <1>1, GoingOK, BeginIsGoing

\* A record with the fields of a state is given by them.
LEMMA GoingByFields ==
    ASSUME NEW s, DOMAIN s = Fields, s = [f \in Fields |-> s[f]],
           s.report = Null, s.tx = Null, s.receipt = Null
    PROVE  s = Going(s.at, s.todo, s.done, s.proof)
<1> DEFINE record == Going(s.at, s.todo, s.done, s.proof)
<1>1. record = [f \in Fields |-> record[f]]
  BY DEF Going, Fields
<1>2. \A f \in Fields : s[f] = record[f]
  BY DEF Going, Fields
<1> HIDE DEF record
<1>3. s = record
  BY <1>1, <1>2
<1> QED
  BY <1>3 DEF record

LEMMA Proceeding ==
    ASSUME NEW step, NEW todo, NEW done, NEW proof, Proceed(step, todo, done, proof)
    PROVE  loop' = [loop EXCEPT ![Dismisser] = Going(step, todo, done, proof)]
<1> DEFINE t == [Begin EXCEPT !.at = step, !.todo = todo, !.done = done, !.proof = proof]
<1>1. PICK b : b = Begin
  OBVIOUS
<1>2. PICK b1 : b1 = [b EXCEPT !.at = step]
  OBVIOUS
<1>3. PICK b2 : b2 = [b1 EXCEPT !.todo = todo]
  OBVIOUS
<1>4. PICK b3 : b3 = [b2 EXCEPT !.done = done]
  OBVIOUS
<1>5. PICK b4 : b4 = [b3 EXCEPT !.proof = proof]
  OBVIOUS
<1>6. t = b4
  BY <1>1, <1>2, <1>3, <1>4, <1>5
<1>7. /\ DOMAIN b = Fields /\ b = [f \in Fields |-> b[f]]
      /\ b.report = Null /\ b.tx = Null /\ b.receipt = Null
  BY <1>1 DEF Begin, Fields
<1>8. DOMAIN b1 = Fields /\ b1 = [f \in Fields |-> b1[f]] /\ b1.at = step
        /\ b1.report = Null /\ b1.tx = Null /\ b1.receipt = Null
  BY <1>2, <1>7 DEF Fields
<1>9. DOMAIN b2 = Fields /\ b2 = [f \in Fields |-> b2[f]] /\ b2.at = step /\ b2.todo = todo
        /\ b2.report = Null /\ b2.tx = Null /\ b2.receipt = Null
  BY <1>3, <1>8 DEF Fields
<1>10. /\ DOMAIN b3 = Fields /\ b3 = [f \in Fields |-> b3[f]]
       /\ b3.at = step /\ b3.todo = todo /\ b3.done = done
       /\ b3.report = Null /\ b3.tx = Null /\ b3.receipt = Null
  BY <1>4, <1>9 DEF Fields
<1>11. /\ DOMAIN b4 = Fields /\ b4 = [f \in Fields |-> b4[f]]
       /\ b4.at = step /\ b4.todo = todo /\ b4.done = done /\ b4.proof = proof
       /\ b4.report = Null /\ b4.tx = Null /\ b4.receipt = Null
  BY <1>5, <1>10 DEF Fields
<1>12. b4 = Going(step, todo, done, proof)
  BY <1>11, GoingByFields
<1> QED
  BY <1>6, <1>12 DEF Proceed

\* The state of the process, and when something goes wrong.
LEMMA TheState ==
    ASSUME ListenerType, LoopOK, UNCHANGED faults \/ Fault
    PROVE  /\ Dismisser \in DOMAIN loop /\ State = loop[Dismisser]
           /\ RoundOK(State, faults) /\ RoundOK(State, faults')
           /\ faults \in Nat /\ faults' \in 0..MaxFaults /\ faults <= faults'
<1>1. faults \in Nat /\ faults' \in 0..MaxFaults /\ faults <= faults'
  BY ListenerAssumption DEF ListenerType, Fault
<1>2. Dismisser \in DOMAIN loop /\ RoundOK(State, faults)
  BY TheDismisser DEF LoopOK
<1>3. RoundOK(State, faults')
  <2>1. PICK n, m : n = faults /\ m = faults'
    OBVIOUS
  <2>2. n \in Nat /\ m \in Nat /\ n <= m
    BY <1>1, <2>1, ListenerAssumption
  <2>3. RoundOK(State, m)
    BY <1>2, <2>1, <2>2, RoundWithMoreFaults
  <2> QED
    BY <2>1, <2>3
<1> QED
  BY <1>1, <1>2, <1>3 DEF State

\* The process goes on to a step, and that is all.
LEMMA Moving ==
    ASSUME NEW step, NEW todo, NEW done, NEW proof,
           loop' = [loop EXCEPT ![Dismisser] = Going(step, todo, done, proof)],
           StepOK(step, todo, done, proof, faults'),
           UNCHANGED <<db, mempool>>, UNCHANGED faults \/ Fault, ProcessFrame
    PROVE  Acts
<1>1. RoundOK(Going(step, todo, done, proof), faults')
  <2>1. PICK n : n = faults'
    OBVIOUS
  <2>2. RoundOK(Going(step, todo, done, proof), n)
    BY <2>1, GoingOK
  <2> QED
    BY <2>1, <2>2
<1> QED
  BY <1>1 DEF Acts

LEMMA Beginning ==
    ASSUME loop' = [loop EXCEPT ![Dismisser] = Begin],
           UNCHANGED <<db, mempool>>, UNCHANGED faults \/ Fault, ProcessFrame
    PROVE  Acts
<1>1. RoundOK(Begin, faults')
  BY BeginOK
<1> QED
  BY <1>1 DEF Acts

LEMMA QuietFrame ==
    ASSUME Quiet
    PROVE  UNCHANGED <<db, mempool>> /\ UNCHANGED faults /\ ProcessFrame
  BY DEF Quiet, ProcessFrame, listenerVars

\* What a query finds is held from then on.
LEMMA Queried ==
    ASSUME DbOK
    PROVE  /\ \A r \in Reports(db) : HeldOK(r, faults)
           /\ \A r \in GetQueuedEvents(db, Network) : r \in Reports(db) /\ IsRequest(r)
           /\ \A r \in GetPendingChallenges(db) :
                 r \in Reports(db) /\ r.eventName = "ChallengePending"
<1>1. \A r \in Reports(db) : HeldOK(r, faults)
  BY DEF Reports, DbOK
<1>2. \A r \in GetQueuedEvents(db, Network) : r \in Reports(db) /\ IsRequest(r)
  BY DEF GetQueuedEvents, ValidReports, WithNameAndStatus, IsRequest
<1>3. \A r \in GetPendingChallenges(db) :
         r \in Reports(db) /\ r.eventName = "ChallengePending"
  BY DEF GetPendingChallenges, WithNameAndStatus
<1> QED
  BY <1>1, <1>2, <1>3

LEMMA QueryingActs ==
    ASSUME IInv, GetQueued \/ GetQueuedAgain
    PROVE  Acts
<1> DEFINE queued == GetQueuedEvents(db, Network)
<1>1. UNCHANGED <<db, mempool>> /\ UNCHANGED faults /\ ProcessFrame
  BY QuietFrame DEF GetQueued, GetQueuedAgain
<1>2. \A r \in queued : HeldOK(r, faults') /\ IsRequest(r)
  BY <1>1, Queried DEF IInv
<1> HIDE DEF queued
<1>3. ASSUME NEW to \in {"reflect", "status", "match"}, Proceed(to, queued, {}, Null)
      PROVE  Acts
  <2>1. StepOK(to, queued, {}, Null, faults')
    BY <1>2 DEF StepOK, Steps
  <2> QED
    BY <1>1, <1>3, <2>1, Proceeding, Moving
<1>4. CASE GetQueued
  <2>1. PICK to : to = IF queued = {} THEN "reflect" ELSE "status"
    OBVIOUS
  <2>2. Proceed(to, queued, {}, Null)
    BY <1>4, <2>1 DEF GetQueued, queued
  <2> QED
    BY <1>3, <2>1, <2>2
<1>5. CASE GetQueuedAgain
  <2>1. Proceed("match", queued, {}, Null)
    BY <1>5 DEF GetQueuedAgain, queued
  <2> QED
    BY <1>3, <2>1
<1> QED
  BY <1>4, <1>5

\* No report of a user operation explains a request that the process objects to.
LEMMA NothingExplains ==
    ASSUME EmittedOK, DbOK, NEW todo, NEW request \in todo,
           HeldOK(request, faults), IsRequest(request),
           IsRequestInvalid(GetMatchingEvents(db, todo), request)
    PROVE  Unreported(ParseUserOperation(request))
<1> DEFINE op == ParseUserOperation(request)
           q == db[request._id]
<1>1. request._id \in DOMAIN db /\ SameReport(request, q)
  BY DEF HeldOK
<1>2. q \in QueuedReports /\ ParseUserOperation(q) = op
  BY <1>1, SameReports DEF IsRequest, QueuedReports, Reports
<1>3. op.destination = Network => request.operationId = op
  <2>1. PICK log \in emitted : IsReportOf(request, log)
    BY DEF HeldOK
  <2>2. log \in Logs /\ log.event = "OperationQueued" /\ log.args \in Operations
    BY <2>1 DEF EmittedOK, IsReportOf, IsRequest
  <2>3. op = log.args
    BY <2>1, RequestedOperation DEF IsReportOf, IsRequest
  <2> QED
    BY <2>1, <2>2, <2>3, QueuedOperation DEF IsReportOf
<1>4. ASSUME op.destination = Network, NEW u \in UserReports, u.operationId = op
      PROVE  FALSE
  <2>1. u \in Reports(db) /\ u.eventName = "UserOperation" /\ u.destination = Network
    BY DEF UserReports
  <2>2. ValidReport(u)
    <3>1. u \in ReportType
      BY <2>1, Queried DEF HeldOK
    <3>2. u.status \in TxStatuses
      BY <3>1 DEF ReportType
    <3> QED
      BY <2>1, <3>2, TheDismisser DEF ValidReport
  <2>3. u.operationId \in {r.operationId : r \in todo}
    BY <1>3, <1>4
  <2>4. u \in GetMatchingEvents(db, todo)
    BY <2>1, <2>2, <2>3 DEF GetMatchingEvents, ValidReports
  <2>5. u.operationId = request.operationId /\ u.destination = request.networkId
    BY <1>3, <1>4, <2>1 DEF IsRequest
  <2> QED
    BY <2>4, <2>5 DEF IsRequestInvalid
<1> HIDE DEF op, q
<1>5. Unreported(op)
  BY <1>2, <1>4 DEF Unreported
<1> QED
  BY <1>5 DEF op

LEMMA FilteringActs ==
    ASSUME IInv, FilterOutInvalidQueuedRequests
    PROVE  Acts
<1> DEFINE matching == GetMatchingEvents(db, State.todo)
           invalid == {request \in State.todo : IsRequestInvalid(matching, request)}
<1>1. UNCHANGED <<db, mempool>> /\ UNCHANGED faults /\ ProcessFrame
  BY QuietFrame DEF FilterOutInvalidQueuedRequests
<1>2. RoundOK(State, faults) /\ State.at = "match"
  BY <1>1, TheState DEF IInv, FilterOutInvalidQueuedRequests, IsAt, At, State
<1>3. \A r \in State.todo : HeldOK(r, faults) /\ IsRequest(r)
  BY <1>2 DEF RoundOK, StepOK
<1>4. \A r \in invalid : HeldOK(r, faults) /\ IsRequest(r) /\ Unreported(ParseUserOperation(r))
  BY <1>3, NothingExplains DEF IInv
<1>5. PICK to : to = IF invalid = {} THEN "pending" ELSE "prove dismissals"
  OBVIOUS
<1>6. Proceed(to, invalid, {}, Null)
  BY <1>5 DEF FilterOutInvalidQueuedRequests
<1> HIDE DEF invalid
<1>7. StepOK(to, invalid, {}, Null, faults')
  BY <1>1, <1>4, <1>5 DEF StepOK, Steps
<1> QED
  BY <1>1, <1>6, <1>7, Proceeding, Moving

-----------------------------------------------------------------------------
(***************************************************************************)
(* The proofs, and why a call that the hub refuses is given up.            *)
(***************************************************************************)
\* No actors were witnessed after the newest ones.
LEMMA NewestAreKnown ==
    ASSUME EmittedOK, DbOK, NEW r \in NewestActors
    PROVE  /\ r.eventArgs.actors \in ActorSets
           /\ \A time : KnownProof(r.eventArgs.actors, time)
<1>1. r \in ActorsReports /\ \A other \in ActorsReports : other.witnessedTs <= r.witnessedTs
  BY DEF NewestActors
<1>2. r \in Reports(db) /\ r.eventName = "ActorsPropagated"
  BY <1>1 DEF ActorsReports
<1>3. PICK log \in emitted : IsReportOf(r, log)
  BY <1>2, Queried DEF HeldOK
<1>4. log \in ActorsLogs /\ r.eventArgs = log.args
  BY <1>2, <1>3 DEF ActorsLogs, EmittedOK, IsReportOf
<1> QED
  BY <1>1, <1>4 DEF KnownProof, ActorSets

LEMMA ProvingActs ==
    ASSUME IInv, NEW step, NEW next, GetMerkleProof(step, next),
           \/ step = "prove dismissals" /\ next = "dismiss"
           \/ step = "prove answers" /\ next = "solve"
    PROVE  Acts
<1>1. UNCHANGED <<db, mempool>> /\ UNCHANGED faults /\ ProcessFrame
  BY QuietFrame DEF GetMerkleProof
<1>2. RoundOK(State, faults) /\ State.at = step
  BY <1>1, TheState DEF IInv, GetMerkleProof, IsAt, At, State
<1>3. CASE ProcessExits
  BY <1>1, <1>3, Beginning DEF ProcessExits
<1>4. CASE \E r \in NewestActors : Me \in r.eventArgs.actors
              /\ Proceed(next, State.todo, State.done, r.eventArgs.actors)
  <2>1. PICK r \in NewestActors : Me \in r.eventArgs.actors
              /\ Proceed(next, State.todo, State.done, r.eventArgs.actors)
    BY <1>4
  <2>2. PICK todo, done, proof :
          todo = State.todo /\ done = State.done /\ proof = r.eventArgs.actors
    OBVIOUS
  <2>3. Me \in proof /\ proof \in ActorSets /\ \A time : KnownProof(proof, time)
    BY <2>1, <2>2, NewestAreKnown DEF IInv
  <2>4. StepOK(step, todo, done, State.proof, faults)
    BY <1>2, <2>2 DEF RoundOK
  <2>5. StepOK(next, todo, done, proof, faults')
    BY <1>1, <2>3, <2>4 DEF StepOK, Steps
  <2>6. Proceed(next, todo, done, proof)
    BY <2>1, <2>2
  <2> QED
    BY <1>1, <2>5, <2>6, Proceeding, Moving
<1> QED
  BY <1>3, <1>4 DEF GetMerkleProof

\* The hub knows the actors that the process proves with, unless others are due.
LEMMA RefusedProof ==
    ASSUME EmittedOK, DbOK, HubType, NEW proof, NEW time \in Nat, time <= clock,
           KnownProof(proof, time), proof \notin HubActors
    PROVE  ProofWasOutdatedSince(time)
<1>1. PICK old \in ActorsReports :
        /\ old.eventArgs.actors = proof
        /\ \A r \in ActorsReports : r.witnessedTs <= old.witnessedTs \/ r.witnessedTs >= time
  BY DEF KnownProof
<1>2. old \in Reports(db) /\ old.eventName = "ActorsPropagated"
  BY DEF ActorsReports
<1>3. PICK log \in emitted : IsReportOf(old, log)
  BY <1>2, Queried DEF HeldOK
<1>4. log \in ActorsLogs \cap emitted /\ old.eventArgs = log.args
  BY <1>2, <1>3 DEF ActorsLogs, EmittedOK, IsReportOf
<1>5. log.args.epoch \in Int /\ log.args.epoch <= Game!Epoch(clock)
  BY <1>4 DEF EmittedOK, ActorsLogs
<1>6. log.args.epoch # Game!Epoch(clock)
  BY <1>1, <1>4 DEF HubActors
<1>7. /\ Game!Epoch(time) \in Nat /\ Game!Epoch(clock) \in Nat
      /\ Game!Epoch(time) <= Game!Epoch(clock)
  BY EpochMonotone, ProcessorAssumption DEF HubType
<1>8. Game!Epoch(clock) \in Game!Epoch(time)..Game!Epoch(clock)
        /\ old.eventArgs.epoch < Game!Epoch(clock)
  BY <1>4, <1>5, <1>6, <1>7
<1> QED
  BY <1>1, <1>8 DEF ProofWasOutdatedSince

LEMMA RefusedDismissal ==
    ASSUME EmittedOK, DbOK, HubType, NEW r, NEW n, HeldOK(r, n), IsRequest(r),
           NEW proof, KnownProof(proof, r.witnessedTs),
           DismissalError(ParseUserOperation(r), proof) # "None"
    PROVE  /\ FailCause(r, n)
           /\ DismissalError(ParseUserOperation(r), proof)
                 \in {"OperationNotQueued", "OperationAlreadyCancelled"}
              => IsObjected(ParseUserOperation(r))
<1> DEFINE op == ParseUserOperation(r)
           error == DismissalError(op, proof)
<1>1. op \in Operations /\ r.witnessedTs \in Nat /\ r.witnessedTs <= clock
  BY RequestedOperation, ProcessorAssumption DEF IsRequest, HeldOK, ReportType
<1>2. CASE HubActors = {} \/ proof \notin HubActors
  <2>1. ProofWasOutdatedSince(r.witnessedTs)
    BY <1>1, <1>2, RefusedProof
  <2>2. error \in {"LockDown", "InvalidActor"}
    BY <1>2 DEF DismissalError
  <2> QED
    BY <2>1, <2>2 DEF FailCause
<1>3. CASE HubActors # {} /\ proof \in HubActors /\ IsInactive
  <2>1. PICK c \in Challenges :
          c.network = Network /\ c.actor = Me /\ stage[c] = "Slashed" /\ Game!SameEpoch(c)
    BY <1>3 DEF IsInactive
  <2>2. Game!Epoch(r.witnessedTs) \in Nat /\ Game!Epoch(r.witnessedTs) <= Game!Epoch(clock)
          /\ Game!Epoch(clock) \in Nat
    BY <1>1, EpochMonotone, ProcessorAssumption DEF HubType
  <2>3. Game!Epoch(openedAt[c]) = Game!Epoch(clock)
    BY <2>1 DEF Game!SameEpoch
  <2>4. WasSlashedSince(r.witnessedTs)
    BY <2>1, <2>2, <2>3 DEF WasSlashedSince
  <2>5. error = "Inactive"
    BY <1>3 DEF DismissalError
  <2> QED
    BY <2>4, <2>5 DEF FailCause
<1>4. CASE HubActors # {} /\ proof \in HubActors /\ ~IsInactive
  <2>1. error = CancelError(op, "guardian") /\ error # "None"
    BY <1>4 DEF DismissalError
  <2> HIDE DEF error, op
  <2>2. IsObjected(op)
    BY <2>1 DEF CancelError, IsObjected
  <2> QED
    BY <2>2 DEF FailCause, op
<1> QED
  BY <1>2, <1>3, <1>4

-----------------------------------------------------------------------------
(***************************************************************************)
(* Dismissals.                                                             *)
(***************************************************************************)
LEMMA AmendedIsHeld ==
    ASSUME NEW r, NEW n, HeldOK(r, n), NEW q \in ReportType, SameReport(q, r), NEW m, TrueOf(q, m)
    PROVE  HeldOK(q, m)
<1>1. /\ q._id = r._id /\ q.witnessedTs = r.witnessedTs
      /\ \A log : IsReportOf(q, log) <=> IsReportOf(r, log)
  BY SameReports
<1> QED
  BY <1>1 DEF HeldOK, SameReport

LEMMA AmendedRequest ==
    ASSUME NEW r, NEW n, HeldOK(r, n), IsRequest(r), NEW m, NEW hash \in {"0x", "hash"}
    PROVE  /\ FailCause(r, m) => HeldOK(AddError(r), m)
           /\ IsObjected(ParseUserOperation(r)) => HeldOK(AddCancelledTxHash(r, hash), m)
<1>1. r \in ReportType
  BY DEF HeldOK
<1>2. ASSUME NEW q \in ReportType, SameReport(q, r),
             \/ q.status = "failed" /\ FailCause(r, m)
             \/ q.status = "cancelled" /\ IsObjected(ParseUserOperation(r))
      PROVE  HeldOK(q, m)
  <2>1. /\ q.eventName = "OperationQueued" /\ q.witnessedTs = r.witnessedTs
        /\ ParseUserOperation(q) = ParseUserOperation(r)
    BY <1>2, SameReports DEF IsRequest
  <2>2. TrueOf(q, m)
    BY <1>2, <2>1 DEF TrueOf, FailCause
  <2> QED
    BY <1>2, <2>2, AmendedIsHeld
<1>3. AddError(r) \in ReportType /\ SameReport(AddError(r), r) /\ AddError(r).status = "failed"
  BY <1>1, AmendedReport DEF AddError, TxStatuses
<1>4. /\ AddCancelledTxHash(r, hash) \in ReportType /\ SameReport(AddCancelledTxHash(r, hash), r)
      /\ AddCancelledTxHash(r, hash).status = "cancelled"
  <2>1. PICK s : s = "cancelled"
    OBVIOUS
  <2>2. s \in TxStatuses
    BY <2>1 DEF TxStatuses
  <2>3. LET q == [r EXCEPT !.status = s, !.finalTxHash = hash]
        IN q \in ReportType /\ SameReport(q, r) /\ q.status = s
    BY <1>1, <2>2, AmendedReport
  <2> QED
    BY <2>1, <2>3 DEF AddCancelledTxHash
<1> QED
  BY <1>2, <1>3, <1>4

\* A request is done with.
LEMMA DismissedActs ==
    ASSUME IInv, State.at = "dismiss", NEW report, NEW results, Dismissed(report, results),
           \A r \in results : HeldOK(r, faults'),
           UNCHANGED <<db, mempool>>, UNCHANGED faults \/ Fault, ProcessFrame
    PROVE  Acts
<1> DEFINE todo == State.todo \ {report}
           done == State.done \cup results
<1>1. StepOK("dismiss", State.todo, State.done, State.proof, faults')
  BY TheState DEF IInv, RoundOK
<1>2. StepOK("dismiss", todo, done, State.proof, faults')
  BY <1>1 DEF StepOK
<1>3. StepOK("pending", {}, done, Null, faults')
  BY <1>2 DEF StepOK, Steps
<1>4. PICK left, made, proof : left = todo /\ made = done /\ proof = State.proof
  OBVIOUS
<1>5. IF left = {} THEN Proceed("pending", {}, made, Null)
      ELSE Proceed("dismiss", left, made, proof)
  BY <1>4 DEF Dismissed
<1>6. StepOK("dismiss", left, made, proof, faults') /\ StepOK("pending", {}, made, Null, faults')
  BY <1>2, <1>3, <1>4
<1>7. CASE left = {}
  <2>1. Proceed("pending", {}, made, Null)
    BY <1>5, <1>7
  <2> QED
    BY <1>6, <2>1, Proceeding, Moving
<1>8. CASE left # {}
  <2>1. Proceed("dismiss", left, made, proof)
    BY <1>5, <1>8
  <2> QED
    BY <1>6, <2>1, Proceeding, Moving
<1> QED
  BY <1>7, <1>8

\* A transaction is sent for a report that is still to be handled.
LEMMA SendingActs ==
    ASSUME IInv, NEW report \in State.todo, State.tx = Null, NEW call, NEW id,
           Broadcast(Dismisser, report, call, id), UNCHANGED <<listenerVars, hubVars, gameVars>>,
           \/ State.at = "dismiss" /\ call = "cancel" /\ id = ParseUserOperation(report)
           \/ State.at = "solve" /\ call = "solve" /\ id = report.eventArgs
    PROVE  Acts
<1> DEFINE s == State
           tx == [loop |-> Dismisser, call |-> call, id |-> id,
                  proof |-> s.proof, attempt |-> faults]
<1>1. UNCHANGED faults /\ UNCHANGED db /\ ProcessFrame
  BY DEF listenerVars, ProcessFrame
<1>2. Dismisser \in DOMAIN loop /\ s = loop[Dismisser] /\ RoundOK(s, faults) /\ faults \in Nat
  BY <1>1, TheState DEF IInv
<1>3. HeldOK(report, faults) /\ s.proof \in ActorSets /\ EmittedOK
  BY <1>2 DEF RoundOK, StepOK, IInv
<1>4. call = "cancel" => id \in Operations /\ Unreported(id)
  <2>1. CASE s.at = "dismiss"
    <3>1. IsRequest(report) /\ Unreported(ParseUserOperation(report))
      BY <1>2, <2>1 DEF RoundOK, StepOK
    <3> QED
      BY <1>3, <2>1, <3>1, RequestedOperation DEF IsRequest
  <2>2. CASE s.at # "dismiss"
    BY <2>2
  <2> QED
    BY <2>1, <2>2
<1>5. call = "solve" => id \in Challenges
  <2>1. CASE s.at = "solve"
    <3>1. report.eventName = "ChallengePending"
      BY <1>2, <2>1 DEF RoundOK, StepOK
    <3> QED
      BY <1>3, <2>1, <3>1 DEF HeldOK, EmittedOK, IsReportOf
  <2>2. CASE s.at # "solve"
    BY <2>2
  <2> QED
    BY <2>1, <2>2
<1>6. tx \in Transactions /\ tx.loop = Dismisser /\ tx.call = call /\ tx.id = id
        /\ tx.proof = s.proof
  BY <1>2, <1>3, <1>4, <1>5, TheDismisser DEF Transactions, ActorSets
<1>7. mempool' = mempool \cup {tx}
        /\ loop' = [loop EXCEPT ![Dismisser].report = report, ![Dismisser].tx = tx]
  BY DEF Broadcast, State
<1> HIDE DEF tx, s
<1>8. PICK s1 : s1 = [s EXCEPT !.report = report]
  OBVIOUS
<1>9. PICK s2 : s2 = [s1 EXCEPT !.tx = tx]
  OBVIOUS
<1>10. loop' = [loop EXCEPT ![Dismisser] = s2]
  <2>1. PICK first : first = [loop EXCEPT ![Dismisser].report = report]
    OBVIOUS
  <2>2. loop' = [first EXCEPT ![Dismisser].tx = tx]
    BY <1>7, <2>1
  <2>3. first = [loop EXCEPT ![Dismisser] = s1] /\ first[Dismisser] = s1
          /\ Dismisser \in DOMAIN first
    BY <1>2, <1>8, <2>1, ChangedField, ChangedTwice
  <2>4. loop' = [first EXCEPT ![Dismisser] = s2]
    BY <1>9, <2>2, <2>3, ChangedField
  <2> QED
    BY <1>2, <2>3, <2>4, ChangedTwice
<1>11. DOMAIN s = Fields /\ StepOK(s.at, s.todo, s.done, s.proof, faults) /\ s.receipt = Null
  BY <1>2 DEF RoundOK, s
<1>12. /\ DOMAIN s2 = Fields /\ s2.report = report /\ s2.tx = tx
       /\ s2.at = s.at /\ s2.todo = s.todo /\ s2.done = s.done /\ s2.proof = s.proof
       /\ s2.receipt = Null
  BY <1>8, <1>9, <1>11 DEF Fields
<1>13. WaitsFor(s2, faults)
  <2>1. report \in s.todo /\ Null \notin {"mined", "reverted"}
    BY ProcessorAssumption DEF s
  <2> QED
    BY <1>6, <1>12, <2>1 DEF WaitsFor, s
<1>14. RoundOK(s2, faults)
  BY <1>6, <1>11, <1>12, <1>13, NullIsNeither DEF RoundOK
<1>15. Justified(tx)
  BY <1>4, <1>5, <1>6 DEF Justified
<1> QED
  BY <1>1, <1>7, <1>10, <1>14, <1>15 DEF Acts

LEMMA DismissingActs ==
    ASSUME IInv, NEW report \in State.todo, MakeDismissalContractCall(report)
    PROVE  Acts
<1> DEFINE operation == ParseUserOperation(report)
           error == DismissalError(operation, State.proof)
<1>1. UNCHANGED <<listenerVars, hubVars, gameVars>> /\ State.at = "dismiss" /\ State.tx = Null
  BY DEF MakeDismissalContractCall, IsAt, At, IsFree, State
<1>2. UNCHANGED faults /\ UNCHANGED db /\ ProcessFrame
  BY <1>1 DEF listenerVars, ProcessFrame
<1>3. /\ HeldOK(report, faults) /\ IsRequest(report)
      /\ KnownProof(State.proof, report.witnessedTs)
  BY <1>1, <1>2, TheState DEF IInv, RoundOK, StepOK
<1>4. CASE error = "None"
  <2>1. Broadcast(Dismisser, report, "cancel", operation)
    BY <1>4 DEF MakeDismissalContractCall
  <2> HIDE DEF operation
  <2>2. operation = ParseUserOperation(report)
    BY DEF operation
  <2> QED
    BY <1>1, <2>1, <2>2, SendingActs
<1>5. CASE error # "None"
  <2>1. Dismissed(report, DismissalResult(report, error)) /\ UNCHANGED mempool
    BY <1>5 DEF MakeDismissalContractCall
  <2>2. /\ FailCause(report, faults)
        /\ error \in {"OperationNotQueued", "OperationAlreadyCancelled"} => IsObjected(operation)
    BY <1>3, <1>5, RefusedDismissal DEF IInv
  <2>3. /\ HeldOK(AddError(report), faults)
        /\ IsObjected(operation) => HeldOK(AddCancelledTxHash(report, "0x"), faults)
    BY <1>3, <2>2, AmendedRequest
  <2> HIDE DEF error
  <2>4. \A r \in DismissalResult(report, error) : HeldOK(r, faults')
    BY <1>2, <2>2, <2>3 DEF DismissalResult
  <2> QED
    BY <1>1, <1>2, <2>1, <2>4, DismissedActs
<1> QED
  BY <1>4, <1>5

\* The report that the process waits for.
LEMMA Waiting ==
    ASSUME IInv, State.tx # Null, UNCHANGED faults \/ Fault
    PROVE  /\ WaitsFor(State, faults) /\ State.report \in State.todo
           /\ HeldOK(State.report, faults) /\ HeldOK(State.report, faults')
           /\ State.at \in {"dismiss", "solve"}
           /\ State.at = "dismiss" => IsRequest(State.report)
           /\ State.at = "solve" => State.report.eventName = "ChallengePending"
<1>1. RoundOK(State, faults) /\ RoundOK(State, faults')
  BY TheState DEF IInv
<1>2. WaitsFor(State, faults)
  BY <1>1 DEF RoundOK
<1>3. State.report \in State.todo /\ State.at \in {"dismiss", "solve"}
  BY <1>2 DEF WaitsFor
<1> QED
  BY <1>1, <1>2, <1>3 DEF RoundOK, StepOK

LEMMA DismissalMinedActs ==
    ASSUME IInv, DismissalMined
    PROVE  Acts
<1>1. UNCHANGED <<db, mempool>> /\ UNCHANGED faults /\ ProcessFrame
  BY QuietFrame DEF DismissalMined
<1>2. State.at = "dismiss" /\ State.tx # Null
  BY DEF DismissalMined, IsAt, At, State, HasReceipt
<1>3. WaitsFor(State, faults) /\ HeldOK(State.report, faults) /\ IsRequest(State.report)
  BY <1>1, <1>2, Waiting
<1>4. CASE HasReceipt(Dismisser, "mined")
             /\ Dismissed(State.report, {AddCancelledTxHash(State.report, "hash")})
  <2>1. IsObjected(ParseUserOperation(State.report))
    BY <1>2, <1>3, <1>4 DEF WaitsFor, HasReceipt, State, IsObjected
  <2>2. HeldOK(AddCancelledTxHash(State.report, "hash"), faults)
    BY <1>3, <2>1, AmendedRequest
  <2>3. \A r \in {AddCancelledTxHash(State.report, "hash")} : HeldOK(r, faults')
    BY <1>1, <2>2
  <2> QED
    BY <1>1, <1>2, <1>4, <2>3, DismissedActs
<1>5. CASE HasReceipt(Dismisser, "reverted")
             /\ Dismissed(State.report, {AddError(State.report)})
  <2>1. FailCause(State.report, faults)
    BY <1>2, <1>3, <1>5 DEF WaitsFor, HasReceipt, State
  <2>2. HeldOK(AddError(State.report), faults)
    BY <1>3, <2>1, AmendedRequest
  <2>3. \A r \in {AddError(State.report)} : HeldOK(r, faults')
    BY <1>1, <2>2
  <2> QED
    BY <1>1, <1>2, <1>5, <2>3, DismissedActs
<1> QED
  BY <1>4, <1>5 DEF DismissalMined

-----------------------------------------------------------------------------
(***************************************************************************)
(* Challenges, and the end of a round.                                     *)
(***************************************************************************)
LEMMA EndingRound ==
    ASSUME NEW done, EndRound(done), \A r \in done : HeldOK(r, faults'),
           UNCHANGED <<db, mempool>>, UNCHANGED faults \/ Fault, ProcessFrame
    PROVE  Acts
<1>1. CASE done = {}
  BY <1>1, StateAtIsRound, Beginning DEF EndRound, GoTo
<1>2. CASE done # {}
  <2>1. loop' = [loop EXCEPT ![Dismisser] = Going("write", done, {}, Null)]
    BY <1>2, StateAtIsRound, RoundIsGoing DEF EndRound, GoTo
  <2>2. StepOK("write", done, {}, Null, faults')
    BY DEF StepOK, Steps
  <2> QED
    BY <2>1, <2>2, Moving
<1> QED
  BY <1>1, <1>2

LEMMA PendingActs ==
    ASSUME IInv, GetChallenges
    PROVE  Acts
<1> DEFINE pending == GetPendingChallenges(db)
<1>1. UNCHANGED <<db, mempool>> /\ UNCHANGED faults /\ ProcessFrame
  BY QuietFrame DEF GetChallenges
<1>2. PICK done : done = State.done
  OBVIOUS
<1>3. \A r \in done : HeldOK(r, faults')
  BY <1>1, <1>2, TheState DEF IInv, RoundOK, StepOK
<1>4. \A r \in pending : HeldOK(r, faults') /\ r.eventName = "ChallengePending"
  BY <1>1, Queried DEF IInv
<1>5. IF pending = {} THEN EndRound(done) ELSE Proceed("prove answers", pending, done, Null)
  BY <1>2 DEF GetChallenges
<1> HIDE DEF pending
<1>6. StepOK("prove answers", pending, done, Null, faults')
  BY <1>3, <1>4 DEF StepOK, Steps
<1>7. CASE EndRound(done)
  BY <1>1, <1>3, <1>7, EndingRound
<1>8. CASE Proceed("prove answers", pending, done, Null)
  BY <1>1, <1>6, <1>8, Proceeding, Moving
<1> QED
  BY <1>5, <1>7, <1>8

LEMMA AnsweredActs ==
    ASSUME IInv, State.at = "solve", NEW report, NEW results, Answered(report, results),
           \A r \in results : HeldOK(r, faults'),
           UNCHANGED <<db, mempool>>, UNCHANGED faults \/ Fault, ProcessFrame
    PROVE  Acts
<1>1. StepOK("solve", State.todo, State.done, State.proof, faults')
  BY TheState DEF IInv, RoundOK
<1>2. PICK left, made, proof :
        left = State.todo \ {report} /\ made = State.done \cup results /\ proof = State.proof
  OBVIOUS
<1>3. StepOK("solve", left, made, proof, faults')
  BY <1>1, <1>2 DEF StepOK
<1>4. IF left = {} THEN EndRound(made) ELSE Proceed("solve", left, made, proof)
  BY <1>2 DEF Answered
<1>5. CASE left = {}
  <2>1. EndRound(made) /\ \A r \in made : HeldOK(r, faults')
    BY <1>3, <1>4, <1>5 DEF StepOK
  <2> QED
    BY <2>1, EndingRound
<1>6. CASE left # {}
  <2>1. Proceed("solve", left, made, proof)
    BY <1>4, <1>6
  <2> QED
    BY <1>3, <2>1, Proceeding, Moving
<1> QED
  BY <1>5, <1>6

LEMMA SolvingActs ==
    ASSUME IInv, NEW report \in State.todo, SolveChallenge(report)
    PROVE  Acts
<1> DEFINE challenge == report.eventArgs
<1>1. UNCHANGED <<listenerVars, hubVars, gameVars>> /\ State.at = "solve" /\ State.tx = Null
  BY DEF SolveChallenge, IsAt, At, IsFree, State
<1>2. UNCHANGED faults /\ UNCHANGED db /\ ProcessFrame
  BY <1>1 DEF listenerVars, ProcessFrame
<1>3. CASE Answered(report, {}) /\ UNCHANGED mempool
  BY <1>1, <1>2, <1>3, AnsweredActs
<1>4. CASE Broadcast(Dismisser, report, "solve", challenge)
  BY <1>1, <1>4, SendingActs
<1>5. CASE ProcessExits /\ UNCHANGED mempool
  BY <1>2, <1>5, Beginning DEF ProcessExits
<1> QED
  BY <1>3, <1>4, <1>5 DEF SolveChallenge

LEMMA SolveMinedActs ==
    ASSUME IInv, SolveMined
    PROVE  Acts
<1>1. UNCHANGED <<db, mempool>> /\ UNCHANGED faults /\ ProcessFrame
  BY QuietFrame DEF SolveMined
<1>2. State.at = "solve" /\ State.tx # Null
  BY DEF SolveMined, IsAt, At, State, HasReceipt
<1>3. /\ WaitsFor(State, faults) /\ HeldOK(State.report, faults)
      /\ State.report.eventName = "ChallengePending"
  BY <1>1, <1>2, Waiting
<1>4. CASE HasReceipt(Dismisser, "mined")
             /\ Answered(State.report, {AddSolved(State.report, "hash")})
  <2>1. PICK r, q : r = State.report /\ q = AddSolved(r, "hash")
    OBVIOUS
  <2>2. stage[r.eventArgs] = "Forfeited"
    BY <1>2, <1>3, <1>4, <2>1 DEF WaitsFor, HasReceipt, State
  <2>3. q \in ReportType /\ SameReport(q, r) /\ q.status = "solved"
    <3>1. r \in ReportType
      BY <1>3, <2>1 DEF HeldOK
    <3>2. PICK s : s = "solved"
      OBVIOUS
    <3>3. s \in TxStatuses
      BY <3>2 DEF TxStatuses
    <3>4. LET p == [r EXCEPT !.status = s, !.finalTxHash = "hash"]
          IN p \in ReportType /\ SameReport(p, r) /\ p.status = s
      BY <3>1, <3>3, AmendedReport
    <3> QED
      BY <2>1, <3>2, <3>4 DEF AddSolved
  <2>4. TrueOf(q, faults)
    <3>1. q.eventName = "ChallengePending" /\ q.eventArgs = r.eventArgs
      BY <1>3, <2>1, <2>3, SameReports
    <3> QED
      BY <2>2, <2>3, <3>1 DEF TrueOf
  <2>5. HeldOK(q, faults)
    BY <1>3, <2>1, <2>3, <2>4, AmendedIsHeld
  <2>6. \A p \in {q} : HeldOK(p, faults')
    BY <1>1, <2>5
  <2>7. Answered(State.report, {q})
    BY <1>4, <2>1
  <2> QED
    BY <1>1, <1>2, <2>6, <2>7, AnsweredActs
<1>5. CASE Answered(State.report, {})
  BY <1>1, <1>2, <1>5, AnsweredActs
<1> QED
  BY <1>4, <1>5 DEF SolveMined

LEMMA WaitingFailsActs ==
    ASSUME IInv, WaitingFails
    PROVE  Acts
<1>1. UNCHANGED <<db, mempool>> /\ Fault /\ ProcessFrame
  BY DEF WaitingFails, ProcessFrame
<1>2. State.tx # Null
  BY DEF WaitingFails, HasReceipt, State
<1>3. /\ HeldOK(State.report, faults') /\ State.at \in {"dismiss", "solve"}
      /\ State.at = "dismiss" => IsRequest(State.report)
  BY <1>1, <1>2, Waiting
<1>4. CASE State.at = "dismiss"
  <2>1. Dismissed(State.report, {AddError(State.report)})
    BY <1>4 DEF WaitingFails, IsAt, At, State
  <2>2. FailCause(State.report, faults')
    BY <1>1, ListenerAssumption DEF IInv, ListenerType, Fault, FailCause
  <2>3. HeldOK(AddError(State.report), faults')
    <3>1. PICK m : m = faults'
      OBVIOUS
    <3>2. HeldOK(AddError(State.report), m)
      BY <1>3, <1>4, <2>2, <3>1, AmendedRequest
    <3> QED
      BY <3>1, <3>2
  <2>4. \A r \in {AddError(State.report)} : HeldOK(r, faults')
    BY <2>3
  <2> QED
    BY <1>1, <1>4, <2>1, <2>4, DismissedActs
<1>5. CASE State.at = "solve"
  <2>1. Answered(State.report, {})
    BY <1>5 DEF WaitingFails, IsAt, At, State
  <2> QED
    BY <1>1, <1>5, <2>1, AnsweredActs
<1> QED
  BY <1>3, <1>4, <1>5

-----------------------------------------------------------------------------
(***************************************************************************)
(* The statuses that the hub has, and what is written.                     *)
(***************************************************************************)
LEMMA ComparedRequest ==
    ASSUME EmittedOK, HubType, NEW r, NEW n, HeldOK(r, n), IsRequest(r)
    PROVE  LET q == [r EXCEPT !.status = StatusOfOnChainStatus[status[ParseUserOperation(r)]]]
           IN HeldOK(q, n) /\ IsRequest(q)
<1>1. PICK op : op = ParseUserOperation(r)
  OBVIOUS
<1>2. status[op] \in {"Queued", "Executed", "Cancelled"}
  BY <1>1, RequestedOperation DEF IsRequest, HubType
<1>3. PICK s : s = StatusOfOnChainStatus[status[op]]
  OBVIOUS
<1>4. /\ s \in {"proposed", "finalized", "cancelled"}
      /\ s = "finalized" => status[op] = "Executed"
      /\ s = "cancelled" => status[op] = "Cancelled"
  BY <1>2, <1>3 DEF StatusOfOnChainStatus
<1>5. PICK q : q = [r EXCEPT !.status = s]
  OBVIOUS
<1>6. q \in ReportType /\ SameReport(q, r) /\ q.status = s
  <2>1. r \in ReportType /\ s \in TxStatuses
    BY <1>4 DEF HeldOK, TxStatuses
  <2>2. LET p == [r EXCEPT !.status = s]
        IN p \in ReportType /\ SameReport(p, r) /\ p.status = s
    BY <2>1, AmendedReport
  <2> QED
    BY <1>5, <2>2
<1>7. q.eventName = "OperationQueued" /\ q.networkId = Network /\ ParseUserOperation(q) = op
  BY <1>1, <1>6, SameReports DEF IsRequest
<1>8. TrueOf(q, n)
  BY <1>4, <1>6, <1>7 DEF TrueOf, IsObjected
<1>9. HeldOK(q, n) /\ IsRequest(q)
  BY <1>6, <1>7, <1>8, AmendedIsHeld DEF IsRequest
<1> QED
  BY <1>1, <1>3, <1>5, <1>9

LEMMA ComparingActs ==
    ASSUME IInv, NEW report \in State.todo, GetOperationStatus(Dismisser, report),
           UNCHANGED gameVars
    PROVE  Acts
<1> DEFINE s == State
           updated == [report EXCEPT !.status = StatusOfOnChainStatus[status[ParseUserOperation(report)]]]
           todo == s.todo \ {report}
           done == s.done \cup ({updated} \ {report})
           a == IF todo = {} THEN done ELSE todo
           b == IF todo = {} THEN {} ELSE done
           c == IF todo = {} THEN "reflect" ELSE "status"
<1>1. UNCHANGED <<db, mempool>> /\ UNCHANGED faults /\ ProcessFrame
  BY DEF GetOperationStatus, ProcessFrame, listenerVars
<1>2. Dismisser \in DOMAIN loop /\ s = loop[Dismisser] /\ RoundOK(s, faults) /\ s.at = "status"
  BY <1>1, TheState DEF IInv, GetOperationStatus, At, State
<1>3. HeldOK(report, faults) /\ IsRequest(report)
  BY <1>2 DEF RoundOK, StepOK
<1>4. HeldOK(updated, faults) /\ IsRequest(updated)
  BY <1>3, ComparedRequest DEF IInv
<1>5. /\ \A r \in todo \cup done : HeldOK(r, faults) /\ IsRequest(r)
  BY <1>2, <1>4 DEF RoundOK, StepOK
<1>6. loop' = [loop EXCEPT ![Dismisser].todo = a, ![Dismisser].done = b, ![Dismisser].at = c]
  BY <1>2 DEF GetOperationStatus
<1>7. /\ \A r \in a \cup b : HeldOK(r, faults) /\ IsRequest(r)
      /\ c \in {"status", "reflect"} /\ DOMAIN s = Fields /\ s.tx = Null
      /\ s.report = Null /\ s.receipt = Null
  BY <1>2, <1>5 DEF RoundOK, WaitsFor
<1> HIDE DEF a, b, c, s
<1>8. PICK s1 : s1 = [s EXCEPT !.todo = a]
  OBVIOUS
<1>9. PICK s2 : s2 = [s1 EXCEPT !.done = b]
  OBVIOUS
<1>10. PICK s3 : s3 = [s2 EXCEPT !.at = c]
  OBVIOUS
<1>11. loop' = [loop EXCEPT ![Dismisser] = s3]
  <2>1. PICK first : first = [loop EXCEPT ![Dismisser].todo = a]
    OBVIOUS
  <2>2. PICK second : second = [first EXCEPT ![Dismisser].done = b]
    OBVIOUS
  <2>3. loop' = [second EXCEPT ![Dismisser].at = c]
    BY <1>6, <2>1, <2>2
  <2>4. first = [loop EXCEPT ![Dismisser] = s1] /\ first[Dismisser] = s1
          /\ Dismisser \in DOMAIN first
    BY <1>2, <1>8, <2>1, ChangedField, ChangedTwice
  <2>5. /\ second = [loop EXCEPT ![Dismisser] = s2] /\ second[Dismisser] = s2
        /\ Dismisser \in DOMAIN second
    <3>1. second = [first EXCEPT ![Dismisser] = s2]
      BY <1>9, <2>2, <2>4, ChangedField
    <3> QED
      BY <1>2, <2>4, <3>1, ChangedTwice
  <2>6. loop' = [second EXCEPT ![Dismisser] = s3]
    BY <1>10, <2>3, <2>5, ChangedField
  <2> QED
    BY <1>2, <2>5, <2>6, ChangedTwice
<1>12. /\ DOMAIN s3 = Fields /\ s3.at = c /\ s3.todo = a /\ s3.done = b
       /\ s3.report = Null /\ s3.tx = Null /\ s3.receipt = Null
  BY <1>7, <1>8, <1>9, <1>10 DEF Fields
<1>13. StepOK(s3.at, s3.todo, s3.done, s3.proof, faults)
  BY <1>7, <1>12 DEF StepOK, Steps
<1>14. RoundOK(s3, faults')
  BY <1>1, <1>12, <1>13 DEF RoundOK
<1> QED
  BY <1>1, <1>11, <1>14 DEF Acts

LEMMA ReflectingActs ==
    ASSUME IInv, NEW report \in State.todo, SetCorrectRequestStatusInDb(Dismisser, report),
           UNCHANGED gameVars
    PROVE  Acts
<1> DEFINE s == State
           todo == s.todo \ {report}
<1>1. UNCHANGED mempool /\ UNCHANGED faults /\ ProcessFrame
  BY DEF SetCorrectRequestStatusInDb, ProcessFrame
<1>2. Dismisser \in DOMAIN loop /\ s = loop[Dismisser] /\ RoundOK(s, faults) /\ s.at = "reflect"
  BY <1>1, TheState DEF IInv, SetCorrectRequestStatusInDb, At, State
<1>3. HeldOK(report, faults) /\ db' = UpdateReport(db, report)
  BY <1>2 DEF RoundOK, StepOK, SetCorrectRequestStatusInDb, UpdateEventInDb
<1>4. loop' = [loop EXCEPT ![Dismisser].todo = todo]
  BY <1>2 DEF SetCorrectRequestStatusInDb
<1>5. StepOK("reflect", todo, s.done, s.proof, faults)
  BY <1>2 DEF RoundOK, StepOK
<1>6. DOMAIN s = Fields /\ s.tx = Null /\ s.report = Null /\ s.receipt = Null
  BY <1>2 DEF RoundOK, WaitsFor
<1> HIDE DEF todo, s
<1>7. PICK t : t = [s EXCEPT !.todo = todo]
  OBVIOUS
<1>8. loop' = [loop EXCEPT ![Dismisser] = t]
  BY <1>2, <1>4, <1>7, ChangedField
<1>9. /\ DOMAIN t = Fields /\ t.at = "reflect" /\ t.todo = todo /\ t.done = s.done
      /\ t.proof = s.proof /\ t.report = Null /\ t.tx = Null /\ t.receipt = Null
  BY <1>2, <1>6, <1>7 DEF Fields
<1>10. RoundOK(t, faults')
  BY <1>1, <1>5, <1>9 DEF RoundOK
<1> QED
  BY <1>1, <1>3, <1>8, <1>10 DEF Acts

LEMMA WritingActs ==
    ASSUME IInv, NEW report \in State.todo, UpdateEventsInDb(Dismisser, report),
           UNCHANGED gameVars
    PROVE  Acts
<1>1. UNCHANGED mempool /\ UNCHANGED faults /\ ProcessFrame
  BY DEF UpdateEventsInDb, ProcessFrame
<1>2. RoundOK(State, faults) /\ State.at = "write" /\ State = loop[Dismisser]
  BY <1>1, TheState DEF IInv, UpdateEventsInDb, At, State
<1>3. HeldOK(report, faults) /\ db' = UpdateReport(db, report)
  BY <1>2 DEF RoundOK, StepOK, UpdateEventsInDb, UpdateEventInDb
<1>4. PICK t : t = AfterHandling(loop[Dismisser], report, {}, "read")
  OBVIOUS
<1>5. loop' = [loop EXCEPT ![Dismisser] = t]
  BY <1>4, HandledIsRound DEF UpdateEventsInDb
<1>6. PICK todo, done : todo = State.todo \ {report} /\ done = State.done \cup {}
  OBVIOUS
<1>7. \A r \in todo \cup done : HeldOK(r, faults)
  BY <1>2, <1>6 DEF RoundOK, StepOK
<1>8. t = IF todo # {} THEN Round("write", todo, done)
          ELSE IF done # {} THEN Round("read", done, {}) ELSE Begin
  BY <1>2, <1>4, <1>6 DEF AfterHandling
<1>9. /\ StepOK("write", todo, done, Null, faults)
      /\ StepOK("read", done, {}, Null, faults)
  BY <1>7 DEF StepOK, Steps
<1>10. RoundOK(t, faults')
  <2>1. /\ RoundOK(Round("write", todo, done), faults)
        /\ RoundOK(Round("read", done, {}), faults)
        /\ RoundOK(Begin, faults)
    BY <1>9, GoingOK, RoundIsGoing, BeginOK
  <2> QED
    BY <1>1, <1>8, <2>1
<1> QED
  BY <1>1, <1>3, <1>5, <1>10 DEF Acts

LEMMA ExitActs ==
    ASSUME Exit(Dismisser), UNCHANGED gameVars
    PROVE  Acts
<1>1. UNCHANGED <<db, mempool>> /\ Fault /\ ProcessFrame
  BY DEF Exit, ProcessFrame
<1>2. loop' = [loop EXCEPT ![Dismisser] = Begin]
  BY DEF Exit
<1> QED
  BY <1>1, <1>2, Beginning

LEMMA ProcessActs ==
    ASSUME IInv, DismisserStep \/ WaitingFails \/ (Exit(Dismisser) /\ UNCHANGED gameVars)
    PROVE  Acts
<1>1. CASE WaitingFails
  BY <1>1, WaitingFailsActs
<1>2. CASE Exit(Dismisser) /\ UNCHANGED gameVars
  BY <1>2, ExitActs
<1>3. CASE DismisserStep
  <2>1. CASE GetQueued \/ GetQueuedAgain
    BY <2>1, QueryingActs
  <2>2. CASE FilterOutInvalidQueuedRequests
    BY <2>2, FilteringActs
  <2>3. CASE GetMerkleProof("prove dismissals", "dismiss")
    BY <2>3, ProvingActs
  <2>4. CASE DismissalMined
    BY <2>4, DismissalMinedActs
  <2>5. CASE GetChallenges
    BY <2>5, PendingActs
  <2>6. CASE GetMerkleProof("prove answers", "solve")
    BY <2>6, ProvingActs
  <2>7. CASE SolveMined
    BY <2>7, SolveMinedActs
  <2>8. ASSUME NEW report \in State.todo, MakeDismissalContractCall(report)
        PROVE  Acts
    BY <2>8, DismissingActs
  <2>9. ASSUME NEW report \in State.todo, SolveChallenge(report)
        PROVE  Acts
    BY <2>9, SolvingActs
  <2>10. ASSUME NEW report \in State.todo, GetOperationStatus(Dismisser, report),
                UNCHANGED gameVars
         PROVE  Acts
    BY <2>10, ComparingActs
  <2>11. ASSUME NEW report \in State.todo, SetCorrectRequestStatusInDb(Dismisser, report),
                UNCHANGED gameVars
         PROVE  Acts
    BY <2>11, ReflectingActs
  <2>12. ASSUME NEW report \in State.todo, UpdateEventsInDb(Dismisser, report),
                UNCHANGED gameVars
         PROVE  Acts
    BY <2>12, WritingActs
  <2> QED
    BY <1>3, <2>1, <2>2, <2>3, <2>4, <2>5, <2>6, <2>7, <2>8, <2>9, <2>10, <2>11, <2>12
    DEF DismisserStep
<1> QED
  BY <1>1, <1>2, <1>3

-----------------------------------------------------------------------------
(***************************************************************************)
(* What the rest of the system does.                                       *)
(***************************************************************************)
\* A listener inserts a report, or exits.
Listens ==
    /\ UNCHANGED db \/ \E log \in inbox :
          /\ ReportKey(log) \notin DOMAIN db
          /\ db' = UpdateReport(db, BuildReport(log, clock))
    /\ inbox' \subseteq inbox /\ listening' \subseteq listening
    /\ UNCHANGED <<emitted, faults, loop, mempool, hubVars, gameVars>>

\* A log is one of an event that the chains are at.
Sound(log) ==
    /\ log \in Logs
    /\ log.event = "ActorsPropagated" => log.args.epoch = Game!Epoch(clock)
    /\ log.event = "OperationQueued" => log.args \in Operations /\ status'[log.args] = "Queued"
    /\ log.event = "ChallengePending" => log.args \in Challenges

\* The chains move, and may say so.
ChainMoves ==
    /\ HubGoesOn /\ HubType'
    /\ \E logs : /\ \A log \in logs : Sound(log)
                 /\ emitted' = emitted \cup logs
                 /\ inbox' \subseteq inbox \cup logs
    /\ UNCHANGED <<db, listening, faults, loop, mempool, ours>>

LEMMA ListeningIsKind ==
    ASSUME ListenerStep /\ Unhandled
    PROVE  Listens
<1>1. PICK log \in inbox : ProcessEventLog(log, clock)
  BY DEF ListenerStep
<1>2. UNCHANGED <<emitted, faults, loop, mempool, hubVars, gameVars>>
  BY <1>1 DEF ProcessEventLog, Unhandled
<1>3. inbox' \subseteq inbox /\ listening' \subseteq listening
  BY <1>1 DEF ProcessEventLog
<1>4. ReportKey(log) = BuildReport(log, clock)._id
  <2>1. PICK r : r = BuildReport(log, clock)
    OBVIOUS
  <2>2. r._id = ReportKey(log)
    BY <2>1, BuiltReport
  <2> QED
    BY <2>1, <2>2
<1>5. \/ UNCHANGED db
      \/ /\ ReportKey(log) \notin DOMAIN db
         /\ db' = UpdateReport(db, BuildReport(log, clock))
  BY <1>1, <1>4 DEF ProcessEventLog, IsDuplicate, InsertReport
<1> QED
  BY <1>2, <1>3, <1>5 DEF Listens

\* A chain mines logs, and its state goes on or stays as it is.
LEMMA EmittingIsKind ==
    ASSUME NEW logs, EmitLogs(logs), \A log \in logs : Sound(log), HubGoesOn, HubType',
           UNCHANGED <<loop, mempool, ours>>
    PROVE  ChainMoves
<1>1. emitted' = emitted \cup logs /\ inbox' \subseteq inbox \cup logs
        /\ UNCHANGED <<db, listening, faults>>
  BY DEF EmitLogs, Emit
<1> QED
  BY <1>1 DEF ChainMoves

LEMMA SilentIsKind ==
    ASSUME HubGoesOn, HubType', UNCHANGED <<listenerVars, loop, mempool, ours>>
    PROVE  ChainMoves
<1>1. UNCHANGED <<db, listening, faults, loop, mempool, ours>>
        /\ emitted' = emitted \cup {} /\ inbox' \subseteq inbox \cup {}
  BY DEF listenerVars
<1>2. \E logs : /\ \A log \in logs : Sound(log)
               /\ emitted' = emitted \cup logs /\ inbox' \subseteq inbox \cup logs
  <2>1. PICK logs : logs = {}
    OBVIOUS
  <2>2. \A log \in logs : Sound(log)
    BY <2>1
  <2>3. emitted' = emitted \cup logs /\ inbox' \subseteq inbox \cup logs
    BY <1>1, <2>1
  <2> QED
    BY <2>2, <2>3
<1> QED
  BY <1>1, <1>2 DEF ChainMoves

\* What goes on of a hub that stays as it is, and of the two parts of one that does not.
LEMMA HubStays ==
    ASSUME HubType, UNCHANGED <<clock, status, queuedAt, objections, stage, openedAt>>
    PROVE  HubGoesOn /\ HubType'
  BY ProcessorAssumption DEF HubType, HubGoesOn

LEMMA QueueMoves ==
    ASSUME HubType, UNCHANGED gameVars,
           \E op \in Operations :
              \/ Hub!Queue(op) \/ Hub!Execute(op)
              \/ \E class : Hub!Object(op, class)
    PROVE  HubGoesOn /\ HubType'
<1>1. UNCHANGED <<clock, stage, openedAt>>
  BY DEF gameVars, Hub!Queue, Hub!Execute, Hub!Object
<1>2. PICK op \in Operations :
         Hub!Queue(op) \/ Hub!Execute(op) \/ \E class : Hub!Object(op, class)
  OBVIOUS
<1> DEFINE kept ==
             /\ status' \in [Operations -> {"NotQueued", "Queued", "Executed", "Cancelled"}]
             /\ DOMAIN objections' = Operations
             /\ \A o \in Operations :
                   /\ status[o] # "NotQueued" => status'[o] # "NotQueued"
                   /\ status[o] \notin {"NotQueued", "Queued"} => status'[o] = status[o]
                   /\ objections[o] \subseteq objections'[o]
<1>3. Hub!Queue(op) => kept
  BY DEF Hub!Queue, HubType
<1>4. Hub!Execute(op) => kept
  BY DEF Hub!Execute, HubType
<1>5. ASSUME NEW class, Hub!Object(op, class) PROVE kept
  BY <1>5 DEF Hub!Object, HubType
<1>6. kept
  BY <1>2, <1>3, <1>4, <1>5
<1> HIDE DEF kept
<1>7. HubType'
  BY <1>1, <1>6 DEF kept, HubType
<1>8. HubGoesOn
  BY <1>1, <1>6, ProcessorAssumption DEF kept, HubType, HubGoesOn
<1> QED
  BY <1>7, <1>8

LEMMA GameMoves ==
    ASSUME HubType, UNCHANGED <<clock, status, objections>>, NEW c,
           \/ Game!Open(c) \/ Game!Slash(c) \/ Game!SlashedByDAO(c) \/ Game!Answer(c)
    PROVE  HubGoesOn /\ HubType'
<1>1. /\ DOMAIN stage' = Challenges /\ DOMAIN openedAt' = Challenges
      /\ \A d \in Challenges : stage[d] \in {"Forfeited", "Slashed"} =>
            stage'[d] = stage[d] /\ openedAt'[d] = openedAt[d]
  BY DEF HubType, Game!Open, Game!Slash, Game!SlashedByDAO, Game!Answer, Game!Close
<1> QED
  BY <1>1, ProcessorAssumption DEF HubType, HubGoesOn

LEMMA ChainIsKind ==
    ASSUME IInv,
           \/ UserSends /\ Unhandled
           \/ PropagateActors /\ Unhandled
           \/ \E op \in Operations :
                 \/ OtherQueues(op)
                 \/ OtherExecutes(op) /\ UNCHANGED gameVars
                 \/ \E class \in Classes : OtherObjects(op, class) /\ UNCHANGED gameVars
           \/ \E c \in Challenges : StartChallenge(c) \/ EndChallenge(c)
           \/ Advance
    PROVE  ChainMoves
<1>1. HubType
  BY DEF IInv
<1>2. ASSUME Unhandled PROVE HubGoesOn /\ HubType' /\ UNCHANGED <<loop, mempool, ours>>
  <2>1. UNCHANGED <<clock, status, queuedAt, objections, stage, openedAt>>
          /\ UNCHANGED <<loop, mempool, ours>>
    BY <1>2 DEF Unhandled, hubVars, gameVars
  <2> QED
    BY <1>1, <2>1, HubStays
<1>3. CASE UserSends /\ Unhandled
  <2>1. PICK log \in Logs : log.event = "UserOperation" /\ EmitLogs({log})
    BY <1>3 DEF UserSends
  <2>2. \A l \in {log} : Sound(l)
    BY <2>1 DEF Sound
  <2> QED
    BY <1>2, <1>3, <2>1, <2>2, EmittingIsKind
<1>4. CASE PropagateActors /\ Unhandled
  <2>1. PICK log \in ActorsLogs : log.args.epoch = Game!Epoch(clock) /\ EmitLogs({log})
    BY <1>4 DEF PropagateActors
  <2>2. \A l \in {log} : Sound(l)
    BY <2>1 DEF Sound, ActorsLogs
  <2> QED
    BY <1>2, <1>4, <2>1, <2>2, EmittingIsKind
<1>5. ASSUME NEW op \in Operations, OtherQueues(op) PROVE ChainMoves
  <2>1. Hub!Queue(op) /\ EmitLogs(LogsOf("OperationQueued", op))
          /\ UNCHANGED <<loop, mempool, ours>> /\ UNCHANGED gameVars
    BY <1>5 DEF OtherQueues
  <2>2. HubGoesOn /\ HubType'
    BY <1>1, <2>1, QueueMoves
  <2>3. status'[op] = "Queued"
    BY <1>1, <2>1 DEF Hub!Queue, HubType
  <2>4. \A log \in LogsOf("OperationQueued", op) : Sound(log)
    BY <2>3 DEF Sound, LogsOf
  <2> QED
    BY <2>1, <2>2, <2>4, EmittingIsKind
<1>6. ASSUME NEW op \in Operations, UNCHANGED gameVars,
             OtherExecutes(op) \/ \E class \in Classes : OtherObjects(op, class)
      PROVE  ChainMoves
  <2>1. UNCHANGED <<listenerVars, loop, mempool, ours>>
    BY <1>6 DEF OtherExecutes, OtherObjects, ChainStep
  <2>2. Hub!Execute(op) \/ \E class : Hub!Object(op, class)
    BY <1>6 DEF OtherExecutes, OtherObjects, ChainStep
  <2> QED
    BY <1>1, <1>6, <2>1, <2>2, QueueMoves, SilentIsKind
<1>7. ASSUME NEW c \in Challenges, StartChallenge(c) PROVE ChainMoves
  <2>1. Game!Open(c) /\ EmitLogs(LogsOf("ChallengePending", c))
          /\ UNCHANGED <<loop, mempool, ours>> /\ UNCHANGED <<clock, status, objections>>
    BY <1>7 DEF StartChallenge, Game!Open
  <2>2. HubGoesOn /\ HubType'
    BY <1>1, <2>1, GameMoves
  <2>3. \A log \in LogsOf("ChallengePending", c) : Sound(log)
    BY DEF Sound, LogsOf
  <2> QED
    BY <2>1, <2>2, <2>3, EmittingIsKind
<1>8. ASSUME NEW c \in Challenges, EndChallenge(c) PROVE ChainMoves
  <2>1. Game!Slash(c) \/ Game!SlashedByDAO(c)
    BY <1>8 DEF EndChallenge
  <2>2. UNCHANGED <<listenerVars, loop, mempool, ours>> /\ UNCHANGED <<status, objections>>
    BY <1>8 DEF EndChallenge
  <2>3. UNCHANGED clock
    BY <2>1 DEF Game!Slash, Game!SlashedByDAO, Game!Close
  <2> QED
    BY <1>1, <2>1, <2>2, <2>3, GameMoves, SilentIsKind
<1>9. CASE Advance
  <2>1. clock < MaxTime /\ clock' = clock + 1 /\ UNCHANGED <<status, objections>>
          /\ UNCHANGED <<stage, openedAt>> /\ UNCHANGED <<listenerVars, loop, mempool, ours>>
    BY <1>9 DEF Advance, ChainStep, Hub!Advance, gameVars
  <2>2. HubType' /\ clock <= clock' /\ clock' \in 0..MaxTime
    BY <1>1, <2>1, ProcessorAssumption DEF HubType
  <2>3. HubGoesOn
    BY <2>1, <2>2 DEF HubGoesOn
  <2> QED
    BY <2>1, <2>2, <2>3, SilentIsKind
<1> QED
  BY <1>3, <1>4, <1>5, <1>6, <1>7, <1>8, <1>9

\* A transaction of the process is mined, and it gets the receipt if it still waits for it.
Mines(tx, result) ==
    /\ tx \in mempool /\ mempool' = mempool \ {tx}
    /\ result \in {"mined", "reverted"} /\ Receipt(tx, result)
    /\ tx.call = "cancel" =>
          IF result = "mined" THEN "guardian" \in objections'[tx.id]
          ELSE DismissalError(tx.id, tx.proof) # "None"
    /\ tx.call = "solve" /\ result = "mined" => stage'[tx.id] = "Forfeited"
    /\ ours' \subseteq IF tx.call = "cancel" THEN ours \cup {tx.id} ELSE ours
    /\ HubGoesOn /\ HubType'
    /\ UNCHANGED listenerVars

LEMMA MiningIsKind ==
    ASSUME IInv, NEW tx \in mempool, MineCancel(tx) \/ MineSolve(tx)
    PROVE  \E result \in {"mined", "reverted"} : Mines(tx, result)
<1>1. HubType /\ Justified(tx)
  BY DEF IInv, MempoolOK
<1>2. ASSUME UNCHANGED hubVars, UNCHANGED gameVars
      PROVE  HubGoesOn /\ HubType'
  BY <1>1, <1>2, HubStays DEF hubVars, gameVars
<1>3. CASE MineCancel(tx)
  <2> DEFINE error == DismissalError(tx.id, tx.proof)
  <2>1. tx.call = "cancel" /\ tx.id \in Operations /\ mempool' = mempool \ {tx}
          /\ UNCHANGED listenerVars /\ UNCHANGED gameVars
    BY <1>1, <1>3 DEF MineCancel, Justified
  <2>2. CASE error # "None" /\ Receipt(tx, "reverted") /\ UNCHANGED hubVars
    <3>1. Mines(tx, "reverted")
      BY <1>2, <2>1, <2>2 DEF Mines, hubVars
    <3> QED
      BY <3>1
  <2>3. CASE error = "None" /\ Hub!Object(tx.id, "guardian") /\ ours' = ours \cup {tx.id}
               /\ Receipt(tx, "mined")
    <3>1. HubGoesOn /\ HubType'
      BY <1>1, <2>1, <2>3, QueueMoves
    <3>2. "guardian" \in objections'[tx.id]
      BY <1>1, <2>1, <2>3 DEF Hub!Object, HubType
    <3>3. Mines(tx, "mined")
      BY <2>1, <2>3, <3>1, <3>2 DEF Mines
    <3> QED
      BY <3>3
  <2> QED
    BY <1>3, <2>2, <2>3 DEF MineCancel
<1>4. CASE MineSolve(tx)
  <2> DEFINE error == SolveError(tx.id, tx.proof)
  <2>1. tx.call = "solve" /\ tx.id \in Challenges /\ mempool' = mempool \ {tx}
          /\ UNCHANGED listenerVars /\ UNCHANGED hubVars
    BY <1>1, <1>4 DEF MineSolve, Justified
  <2>2. CASE Receipt(tx, "reverted") /\ UNCHANGED gameVars
    <3>1. Mines(tx, "reverted")
      BY <1>2, <2>1, <2>2 DEF Mines, hubVars
    <3> QED
      BY <3>1
  <2>3. CASE Game!Answer(tx.id) /\ Receipt(tx, "mined")
    <3>1. HubGoesOn /\ HubType'
      BY <1>1, <2>1, <2>3, GameMoves DEF hubVars
    <3>2. stage'[tx.id] = "Forfeited"
      BY <1>1, <2>1, <2>3 DEF Game!Answer, Game!Close, HubType
    <3>3. Mines(tx, "mined")
      BY <2>1, <2>3, <3>1, <3>2 DEF Mines, hubVars
    <3> QED
      BY <3>3
  <2> QED
    BY <1>4, <2>2, <2>3 DEF MineSolve
<1> QED
  BY <1>3, <1>4

StepKind ==
    \/ Acts \/ Listens \/ ChainMoves
    \/ \E tx \in mempool, result \in {"mined", "reverted"} : Mines(tx, result)
    \/ UNCHANGED vars

LEMMA EveryStepIsKind ==
    ASSUME IInv, [Next]_vars
    PROVE  StepKind
<1>1. CASE DismisserStep \/ WaitingFails \/ (Exit(Dismisser) /\ UNCHANGED gameVars)
  BY <1>1, ProcessActs DEF StepKind
<1>2. CASE \E tx \in mempool : MineCancel(tx) \/ MineSolve(tx)
  BY <1>2, MiningIsKind DEF StepKind
<1>3. CASE ListenerStep /\ Unhandled
  BY <1>3, ListeningIsKind DEF StepKind
<1>4. CASE \/ UserSends /\ Unhandled
           \/ PropagateActors /\ Unhandled
           \/ \E op \in Operations :
                 \/ OtherQueues(op)
                 \/ OtherExecutes(op) /\ UNCHANGED gameVars
                 \/ \E class \in Classes : OtherObjects(op, class) /\ UNCHANGED gameVars
           \/ \E c \in Challenges : StartChallenge(c) \/ EndChallenge(c)
           \/ Advance
  BY <1>4, ChainIsKind DEF StepKind
<1>5. CASE UNCHANGED vars
  BY <1>5 DEF StepKind
<1> QED
  BY <1>1, <1>2, <1>3, <1>4, <1>5 DEF Next

-----------------------------------------------------------------------------
(***************************************************************************)
(* Every step preserves the invariant.                                     *)
(***************************************************************************)
LEMMA UpdatesGrow ==
    ASSUME NEW r, db' = UpdateReport(db, r),
           IF r._id \in DOMAIN db THEN SameReport(r, db[r._id]) ELSE r.witnessedTs = clock
    PROVE  CollectionGrows
<1>1. /\ DOMAIN db' = DOMAIN db \cup {r._id} /\ db'[r._id] = r
      /\ \A key \in DOMAIN db \ {r._id} : db'[key] = db[key]
  BY WrittenCollection, Zenon
<1> QED
  BY <1>1 DEF CollectionGrows, SameReport

LEMMA StepsProgress ==
    ASSUME IInv, StepKind
    PROVE  Progress /\ HubType'
<1>1. HubType /\ ListenerType /\ EmittedOK
  BY DEF IInv
<1>2. UNCHANGED db => CollectionGrows
  BY DEF CollectionGrows, SameReport
<1>3. UNCHANGED faults \/ Fault => faults <= faults' /\ faults' \in 0..MaxFaults
  BY <1>1, ListenerAssumption DEF ListenerType, Fault
<1>4. CASE Acts
  <2>1. CollectionGrows
    <3>1. CASE UNCHANGED db
      BY <1>2, <3>1
    <3>2. ASSUME NEW r, HeldOK(r, faults), db' = UpdateReport(db, r)
          PROVE  CollectionGrows
      BY <3>2, UpdatesGrow DEF HeldOK
    <3> QED
      BY <1>4, <3>1, <3>2 DEF Acts
  <2>2. HubGoesOn /\ HubType'
    BY <1>1, <1>4, HubStays DEF Acts, ProcessFrame, hubVars, gameVars
  <2>3. UNCHANGED emitted /\ faults <= faults' /\ faults' \in 0..MaxFaults
    BY <1>3, <1>4 DEF Acts, ProcessFrame
  <2> QED
    BY <2>1, <2>2, <2>3 DEF Progress
<1>5. CASE Listens
  <2>1. CollectionGrows
    <3>1. CASE UNCHANGED db
      BY <1>2, <3>1
    <3>2. ASSUME NEW log \in inbox, ReportKey(log) \notin DOMAIN db,
                 db' = UpdateReport(db, BuildReport(log, clock))
          PROVE  CollectionGrows
      <4>1. PICK r : r = BuildReport(log, clock)
        OBVIOUS
      <4>2. r._id = ReportKey(log) /\ r.witnessedTs = clock
        BY <4>1, BuiltReport
      <4> QED
        BY <3>2, <4>1, <4>2, UpdatesGrow
    <3> QED
      BY <1>5, <3>1, <3>2 DEF Listens
  <2>2. HubGoesOn /\ HubType'
    BY <1>1, <1>5, HubStays DEF Listens, hubVars, gameVars
  <2>3. UNCHANGED emitted /\ faults <= faults' /\ faults' \in 0..MaxFaults
    BY <1>3, <1>5 DEF Listens
  <2> QED
    BY <2>1, <2>2, <2>3 DEF Progress
<1>6. CASE ChainMoves
  <2>1. HubGoesOn /\ HubType' /\ UNCHANGED <<db, faults>> /\ emitted \subseteq emitted'
    BY <1>6 DEF ChainMoves
  <2> QED
    BY <1>2, <1>3, <2>1 DEF Progress
<1>7. CASE \E tx \in mempool, result \in {"mined", "reverted"} : Mines(tx, result)
  <2>1. HubGoesOn /\ HubType' /\ UNCHANGED <<db, faults, emitted>>
    BY <1>7 DEF Mines, listenerVars
  <2> QED
    BY <1>2, <1>3, <2>1 DEF Progress
<1>8. CASE UNCHANGED vars
  <2>1. UNCHANGED <<db, faults, emitted>>
          /\ UNCHANGED <<clock, status, queuedAt, objections, stage, openedAt>>
    BY <1>8 DEF vars, listenerVars, hubVars
  <2>2. HubGoesOn /\ HubType'
    BY <1>1, <2>1, HubStays
  <2> QED
    BY <1>2, <1>3, <2>1, <2>2 DEF Progress
<1> QED
  BY <1>4, <1>5, <1>6, <1>7, <1>8 DEF StepKind

LEMMA EmittedKept ==
    ASSUME IInv, StepKind, Progress
    PROVE  EmittedOK'
<1>1. ASSUME NEW log \in emitted
      PROVE  /\ log \in Logs
             /\ log.event = "ActorsPropagated" =>
                   log.args.epoch \in Int /\ log.args.epoch <= Game!Epoch(clock')
             /\ log.event = "OperationQueued" =>
                   log.args \in Operations /\ status'[log.args] # "NotQueued"
             /\ log.event = "ChallengePending" => log.args \in Challenges
  <2>1. /\ log \in Logs
        /\ log.event = "ActorsPropagated" =>
              log.args.epoch \in Int /\ log.args.epoch <= Game!Epoch(clock)
        /\ log.event = "OperationQueued" =>
              log.args \in Operations /\ status[log.args] # "NotQueued"
        /\ log.event = "ChallengePending" => log.args \in Challenges
    BY DEF IInv, EmittedOK
  <2>2. /\ Game!Epoch(clock) \in Nat /\ Game!Epoch(clock') \in Nat
        /\ Game!Epoch(clock) <= Game!Epoch(clock')
    <3>1. clock \in Nat /\ clock' \in Nat /\ clock <= clock'
      BY ProcessorAssumption DEF IInv, HubType, Progress, HubGoesOn
    <3> QED
      BY <3>1, EpochMonotone
  <2>3. log.event = "OperationQueued" => status'[log.args] # "NotQueued"
    BY <2>1 DEF Progress, HubGoesOn
  <2> QED
    BY <2>1, <2>2, <2>3
<1>2. ASSUME NEW log \in emitted' \ emitted
      PROVE  /\ log \in Logs
             /\ log.event = "ActorsPropagated" =>
                   log.args.epoch \in Int /\ log.args.epoch <= Game!Epoch(clock')
             /\ log.event = "OperationQueued" =>
                   log.args \in Operations /\ status'[log.args] # "NotQueued"
             /\ log.event = "ChallengePending" => log.args \in Challenges
  <2>1. ChainMoves
    BY <1>2 DEF StepKind, Acts, ProcessFrame, Listens, Mines, listenerVars, vars
  <2>2. Sound(log)
    BY <1>2, <2>1 DEF ChainMoves
  <2>3. /\ Game!Epoch(clock) \in Nat /\ Game!Epoch(clock') \in Nat
        /\ Game!Epoch(clock) <= Game!Epoch(clock')
    <3>1. clock \in Nat /\ clock' \in Nat /\ clock <= clock'
      BY ProcessorAssumption DEF IInv, HubType, Progress, HubGoesOn
    <3> QED
      BY <3>1, EpochMonotone
  <2> QED
    BY <2>2, <2>3 DEF Sound
<1> QED
  BY <1>1, <1>2 DEF EmittedOK, Game!Epoch

LEMMA ListenersKept ==
    ASSUME IInv, StepKind, Progress
    PROVE  ListenerType'
<1>1. inbox \subseteq emitted /\ listening \subseteq DOMAIN EventsOf
  BY DEF IInv, ListenerType
<1>2. inbox' \subseteq emitted' /\ listening' \subseteq DOMAIN EventsOf
  <2>1. CASE Acts \/ UNCHANGED vars \/ \E tx \in mempool, result \in {"mined", "reverted"} : Mines(tx, result)
    BY <1>1, <2>1 DEF Acts, ProcessFrame, Mines, listenerVars, vars
  <2>2. CASE Listens
    BY <1>1, <2>2 DEF Listens
  <2>3. CASE ChainMoves
    BY <1>1, <2>3 DEF ChainMoves
  <2> QED
    BY <2>1, <2>2, <2>3 DEF StepKind
<1> QED
  BY <1>2 DEF ListenerType, Progress

\* What is held before a step is held after it.
LEMMA StillHeld ==
    ASSUME IInv, Progress, NEW r, HeldOK(r, faults), NEW m, m = faults'
    PROVE  HeldOK(r, m)'
<1>1. PICK n : n = faults
  OBVIOUS
<1>2. n \in Nat /\ m \in Nat /\ n <= m
  BY <1>1, ListenerAssumption DEF IInv, ListenerType, Progress
<1>3. HeldOK(r, m)
  BY <1>1, <1>2, HeldWithMoreFaults
<1> QED
  BY <1>3, HeldLasts DEF IInv

LEMMA CollectionKept ==
    ASSUME IInv, StepKind, Progress
    PROVE  DbOK'
<1>1. PICK m : m = faults'
  OBVIOUS
<1>2. ASSUME NEW key \in DOMAIN db PROVE db[key]._id = key /\ HeldOK(db[key], faults)
  BY DEF IInv, DbOK
<1>3. SUFFICES ASSUME NEW key \in DOMAIN db', NEW r, r = db'[key]
               PROVE  r._id = key /\ HeldOK(r, m)'
  BY <1>1 DEF DbOK
<1>4. CASE UNCHANGED db
  <2>1. key \in DOMAIN db /\ r = db[key]
    BY <1>3, <1>4
  <2>2. r._id = key /\ HeldOK(r, faults)
    BY <1>2, <2>1
  <2> QED
    BY <1>1, <2>2, StillHeld
<1>5. ASSUME NEW q, HeldOK(q, faults), db' = UpdateReport(db, q)
      PROVE  r._id = key /\ HeldOK(r, m)'
  <2>1. /\ DOMAIN db' = DOMAIN db \cup {q._id} /\ db'[q._id] = q
        /\ \A k \in DOMAIN db \ {q._id} : db'[k] = db[k]
    BY <1>5, WrittenCollection, Zenon
  <2>2. r._id = key /\ HeldOK(r, faults)
    <3>1. CASE key = q._id
      BY <1>3, <1>5, <2>1, <3>1
    <3>2. CASE key # q._id
      BY <1>2, <1>3, <2>1, <3>2
    <3> QED
      BY <3>1, <3>2
  <2> QED
    BY <1>1, <2>2, StillHeld
<1>6. ASSUME NEW log \in inbox, ReportKey(log) \notin DOMAIN db,
             db' = UpdateReport(db, BuildReport(log, clock)), UNCHANGED <<emitted, clock>>
      PROVE  r._id = key /\ HeldOK(r, m)'
  <2>1. PICK q : q = BuildReport(log, clock)
    OBVIOUS
  <2>2. log \in emitted /\ log \in Logs /\ clock \in 0..MaxTime
    BY DEF IInv, ListenerType, EmittedOK, HubType
  <2>3. /\ q \in ReportType /\ IsReportOf(q, log) /\ q._id = ReportKey(log)
        /\ q.witnessedTs = clock /\ q.status \in {"proposed", "detected"}
    BY <2>1, <2>2, InsertedReport
  <2>4. /\ DOMAIN db' = DOMAIN db \cup {q._id} /\ db'[q._id] = q
        /\ \A k \in DOMAIN db \ {q._id} : db'[k] = db[k]
    <3>1. db' = UpdateReport(db, q)
      BY <1>6, <2>1, Zenon
    <3> QED
      BY <3>1, WrittenCollection, Zenon
  <2>5. CASE key = q._id
    <3>1. r = q
      BY <1>3, <2>4, <2>5
    <3>2. TrueOf(q, m)'
      BY <2>3 DEF TrueOf
    <3>3. q.witnessedTs <= clock' /\ \E l \in emitted' : IsReportOf(q, l)
      BY <1>6, <2>2, <2>3, ProcessorAssumption
    <3>4. q._id \in DOMAIN db' /\ SameReport(q, db'[q._id])
      BY <2>4 DEF SameReport
    <3>5. HeldOK(q, m)'
      BY <2>3, <3>2, <3>3, <3>4 DEF HeldOK
    <3> QED
      BY <2>5, <3>1, <3>5
  <2>6. CASE key # q._id
    <3>1. r._id = key /\ HeldOK(r, faults)
      BY <1>2, <1>3, <2>4, <2>6
    <3> QED
      BY <1>1, <3>1, StillHeld
  <2> QED
    BY <2>5, <2>6
<1>7. CASE Acts
  BY <1>4, <1>5, <1>7 DEF Acts
<1>8. CASE Listens
  BY <1>4, <1>6, <1>8 DEF Listens, hubVars
<1>9. CASE ChainMoves \/ UNCHANGED vars \/ \E tx \in mempool, result \in {"mined", "reverted"} : Mines(tx, result)
  <2>1. UNCHANGED db
    BY <1>9 DEF ChainMoves, vars, listenerVars, Mines
  <2> QED
    BY <1>4, <2>1
<1> QED
  BY <1>7, <1>8, <1>9 DEF StepKind

\* A round is in order after a step that leaves the process alone.
LEMMA StillInOrder ==
    ASSUME IInv, Progress, NEW m, m = faults'
    PROVE  RoundOK(State, m) /\ \A s : s = State => RoundOK(s, m)'
<1>1. PICK n : n = faults
  OBVIOUS
<1>2. n \in Nat /\ m \in Nat /\ n <= m
  BY <1>1, ListenerAssumption DEF IInv, ListenerType, Progress
<1>3. RoundOK(State, n)
  BY <1>1 DEF IInv, LoopOK
<1>4. RoundOK(State, m)
  BY <1>2, <1>3, RoundWithMoreFaults
<1>5. ASSUME NEW s, s = State PROVE RoundOK(s, m)'
  <2>1. RoundOK(s, m)
    BY <1>4, <1>5
  <2> QED
    BY <2>1, RoundLasts DEF IInv
<1> QED
  BY <1>4, <1>5

\* The process gets the receipt of the transaction that it waits for.
LEMMA ReceivingInOrder ==
    ASSUME IInv, Progress, NEW tx, NEW result, Mines(tx, result), State.tx = tx,
           NEW m, m = faults', NEW t, t = [State EXCEPT !.receipt = result]
    PROVE  RoundOK(t, m)'
<1>1. PICK s : s = State
  OBVIOUS
<1>2. RoundOK(s, m) /\ RoundOK(s, m)'
  BY <1>1, StillInOrder
<1>3. Justified(tx) /\ tx # Null /\ result \in {"mined", "reverted"}
  BY NullIsNeither DEF Mines, IInv, MempoolOK, Justified
<1>4. DOMAIN s = Fields /\ s.tx = tx /\ WaitsFor(s, m) /\ WaitsFor(s, m)'
  BY <1>1, <1>2, <1>3 DEF RoundOK
<1>5. /\ DOMAIN t = Fields /\ t.at = s.at /\ t.todo = s.todo /\ t.done = s.done
      /\ t.proof = s.proof /\ t.report = s.report /\ t.tx = tx /\ t.receipt = result
  BY <1>1, <1>4 DEF Fields
<1>6. /\ s.report \in s.todo /\ tx \in Transactions /\ tx.loop = Dismisser /\ tx.proof = s.proof
      /\ \/ s.at = "dismiss" /\ tx.call = "cancel" /\ tx.id = ParseUserOperation(s.report)
         \/ s.at = "solve" /\ tx.call = "solve" /\ tx.id = s.report.eventArgs
  BY <1>4 DEF WaitsFor
<1>7. result = "mined" /\ s.at = "dismiss" => "guardian" \in objections'[tx.id]
  BY <1>6 DEF Mines
<1>8. result = "mined" /\ s.at = "solve" => stage'[tx.id] = "Forfeited"
  BY <1>6 DEF Mines
<1>9. ASSUME result = "reverted", s.at = "dismiss"
      PROVE  FailCause(s.report, m)'
  <2>1. PICK r : r = s.report
    OBVIOUS
  <2>2. HeldOK(r, m) /\ IsRequest(r) /\ KnownProof(s.proof, r.witnessedTs)
    BY <1>2, <1>6, <1>9, <2>1 DEF RoundOK, StepOK
  <2>3. DismissalError(ParseUserOperation(r), s.proof) # "None"
    BY <1>6, <1>9, <2>1 DEF Mines
  <2>4. FailCause(r, m)
    BY <2>2, <2>3, RefusedDismissal DEF IInv
  <2>5. FailCause(r, m)'
    BY <2>2, <2>4, CausesLast DEF IInv, IsRequest
  <2> QED
    BY <2>1, <2>5
<1>10. WaitsFor(t, m)'
  BY <1>3, <1>5, <1>6, <1>7, <1>8, <1>9 DEF WaitsFor
<1>11. StepOK(t.at, t.todo, t.done, t.proof, m)'
  BY <1>2, <1>5 DEF RoundOK
<1> QED
  BY <1>3, <1>5, <1>10, <1>11 DEF RoundOK

LEMMA LoopKept ==
    ASSUME IInv, StepKind, Progress
    PROVE  LoopOK'
<1>1. PICK m : m = faults'
  OBVIOUS
<1>2. Dismisser \in DOMAIN loop /\ DOMAIN loop = Loops
  BY TheDismisser DEF IInv, LoopOK
<1>3. ASSUME UNCHANGED loop PROVE LoopOK'
  <2>1. PICK s : s = State
    OBVIOUS
  <2>2. RoundOK(s, m)' /\ s = State'
    BY <1>1, <1>3, <2>1, StillInOrder DEF State
  <2> QED
    BY <1>1, <1>2, <1>3, <2>2 DEF LoopOK
<1>4. ASSUME NEW t, loop' = [loop EXCEPT ![Dismisser] = t], RoundOK(t, m)'
      PROVE  LoopOK'
  <2>1. DOMAIN loop' = Loops /\ State' = t
    BY <1>2, <1>4 DEF State
  <2> QED
    BY <1>1, <1>4, <2>1 DEF LoopOK
<1>5. CASE Acts
  <2>1. PICK t : loop' = [loop EXCEPT ![Dismisser] = t] /\ RoundOK(t, m)
    BY <1>1, <1>5 DEF Acts
  <2>2. RoundOK(t, m)'
    BY <2>1, RoundLasts DEF IInv
  <2> QED
    BY <1>4, <2>1, <2>2
<1>6. ASSUME NEW tx \in mempool, NEW result, Mines(tx, result)
      PROVE  LoopOK'
  <2>1. tx.loop = Dismisser /\ Receipt(tx, result)
    <3>1. tx \in Transactions
      BY DEF IInv, MempoolOK, Justified
    <3> QED
      BY <1>6, <3>1, TheDismisser DEF Transactions, Mines
  <2>2. CASE State.tx = tx
    <3>1. PICK t : t = [State EXCEPT !.receipt = result]
      OBVIOUS
    <3>2. loop' = [loop EXCEPT ![Dismisser] = t]
      <4>1. loop' = [loop EXCEPT ![Dismisser].receipt = result]
        BY <2>1, <2>2 DEF Receipt, State
      <4> QED
        BY <1>2, <3>1, <4>1, ChangedField DEF State
    <3>3. RoundOK(t, m)'
      BY <1>1, <1>6, <2>2, <3>1, ReceivingInOrder
    <3> QED
      BY <1>4, <3>2, <3>3
  <2>3. CASE State.tx # tx
    <3>1. UNCHANGED loop
      BY <2>1, <2>3 DEF Receipt, State
    <3> QED
      BY <1>3, <3>1
  <2> QED
    BY <2>2, <2>3
<1>7. CASE Listens \/ ChainMoves \/ UNCHANGED vars
  BY <1>3, <1>7 DEF Listens, ChainMoves, vars
<1> QED
  BY <1>5, <1>6, <1>7 DEF StepKind

LEMMA TransactionsKept ==
    ASSUME IInv, StepKind, Progress
    PROVE  MempoolOK' /\ OursOK'
<1>1. \A op : Unreported(op) => Unreported(op)'
  BY UnreportedLasts DEF IInv
<1>2. ASSUME NEW tx, Justified(tx) PROVE Justified(tx)'
  <2>1. PICK id : id = tx.id
    OBVIOUS
  <2>2. Unreported(id) => Unreported(id)'
    BY <1>1
  <2> QED
    BY <1>2, <2>1, <2>2 DEF Justified
<1>3. MempoolOK'
  <2>1. \A tx \in mempool' : Justified(tx)
    <3>1. \A tx \in mempool : Justified(tx)
      BY DEF IInv, MempoolOK
    <3>2. CASE Acts
      BY <3>1, <3>2 DEF Acts
    <3>3. CASE Listens \/ ChainMoves \/ UNCHANGED vars
                 \/ \E tx \in mempool, result \in {"mined", "reverted"} : Mines(tx, result)
      BY <3>1, <3>3 DEF Listens, ChainMoves, vars, Mines
    <3> QED
      BY <3>2, <3>3 DEF StepKind
  <2> QED
    BY <1>2, <2>1 DEF MempoolOK
<1>4. OursOK'
  <2>1. \A op \in ours' : op \in Operations /\ Unreported(op)
    <3>1. \A op \in ours : op \in Operations /\ Unreported(op)
      BY DEF IInv, OursOK
    <3>2. ASSUME NEW tx \in mempool, NEW result, Mines(tx, result)
          PROVE  \A op \in ours' : op \in Operations /\ Unreported(op)
      <4>1. Justified(tx)
        BY DEF IInv, MempoolOK
      <4> QED
        BY <3>1, <3>2, <4>1 DEF Mines, Justified
    <3>3. CASE Acts \/ Listens \/ ChainMoves \/ UNCHANGED vars
      BY <3>1, <3>3 DEF Acts, ProcessFrame, Listens, ChainMoves, vars, hubVars
    <3> QED
      BY <3>2, <3>3 DEF StepKind
  <2> QED
    BY <1>1, <2>1 DEF OursOK
<1> QED
  BY <1>3, <1>4

-----------------------------------------------------------------------------
(***************************************************************************)
(* The theorems.                                                           *)
(***************************************************************************)
LEMMA StartsRight ==
    ASSUME Init
    PROVE  IInv
<1>1. /\ db = EmptyCollection /\ emitted = {} /\ listening = DOMAIN EventsOf
      /\ inbox = {} /\ faults = 0
  BY DEF Init, ListenerInit
<1>2. /\ loop = [p \in Loops |-> Begin] /\ mempool = {} /\ ours = {} /\ Hub!Init /\ Game!Init
  BY DEF Init, ProcessorInit
<1>3. EmittedOK /\ ListenerType /\ MempoolOK /\ OursOK /\ DbOK
  BY <1>1, <1>2, ListenerAssumption
     DEF EmittedOK, ListenerType, MempoolOK, OursOK, DbOK, EmptyCollection
<1>4. HubType
  BY <1>2, ProcessorAssumption DEF HubType, Hub!Init, Game!Init
<1>5. LoopOK
  <2>1. DOMAIN loop = Loops /\ State = Begin
    BY <1>2, TheDismisser DEF State
  <2>2. PICK n : n = faults
    OBVIOUS
  <2>3. RoundOK(Begin, n)
    BY BeginOK
  <2> QED
    BY <2>1, <2>2, <2>3 DEF LoopOK
<1> QED
  BY <1>3, <1>4, <1>5 DEF IInv

LEMMA StepsPreserve ==
    ASSUME IInv, [Next]_vars
    PROVE  IInv'
<1>1. StepKind
  BY EveryStepIsKind
<1>2. Progress /\ HubType'
  BY <1>1, StepsProgress
<1> QED
  BY <1>1, <1>2, EmittedKept, ListenersKept, CollectionKept, LoopKept, TransactionsKept DEF IInv

\* What the process holds and knows is in order, and so are the collection that it shares with
\* its listeners and the transactions that it sent, in every state.
THEOREM GuardianInvariant == Spec => []IInv
<1>1. Init => IInv
  BY StartsRight
<1>2. IInv /\ [Next]_vars => IInv'
  BY StepsPreserve
<1> QED
  BY <1>1, <1>2, PTL DEF Spec

\* The values that the state of the guardian takes: what it waits for is a transaction of a
\* report that it has, with a proof of actors that it is one of.
THEOREM GuardianTypes == Spec => []TypeOK
<1>1. IInv => TypeOK
  <2> SUFFICES ASSUME IInv PROVE TypeOK
    OBVIOUS
  <2>1. RoundOK(State, faults)
    BY DEF IInv, LoopOK
  <2>2. /\ \A r \in State.todo \cup State.done : r \in ReportType
        /\ State.at \in Steps
        /\ State.at \in {"dismiss", "solve"} => Me \in State.proof
    BY <2>1 DEF RoundOK, StepOK, HeldOK
  <2>3. (State.tx = Null) = (State.report = Null)
    <3>1. CASE State.tx = Null
      BY <2>1, <3>1 DEF RoundOK
    <3>2. CASE State.tx # Null
      BY <2>1, <2>2, <3>2, NullIsNeither DEF RoundOK, WaitsFor
    <3> QED
      BY <3>1, <3>2
  <2>4. \A key \in DOMAIN db : db[key] \in ReportType /\ db[key]._id = key
    BY DEF IInv, DbOK, HeldOK
  <2>5. emitted \subseteq Logs /\ mempool \subseteq Transactions /\ ours \subseteq Operations
    BY DEF IInv, EmittedOK, MempoolOK, Justified, OursOK
  <2> QED
    BY <2>2, <2>3, <2>4, <2>5 DEF TypeOK, Steps, IInv, ListenerType, HubType
<1> QED
  BY <1>1, GuardianInvariant, PTL

\* The guardian only objects to an operation that a user asked for if the report of the user
\* operation came no earlier than that of its queueing (isRequestInvalid sees the collection
\* before the call is made, and the call is mined later still).
THEOREM DismissalsAreOfUnreported == Spec => []OnlyUnreportedAreDismissed
<1>1. IInv => OnlyUnreportedAreDismissed
  <2> SUFFICES ASSUME IInv, NEW op \in ours, IsLegitimate(op),
                      NEW q \in QueuedReports, NEW u \in UserReports,
                      q.operationId = op, u.operationId = op
               PROVE  u.witnessedTs >= q.witnessedTs
    BY DEF OnlyUnreportedAreDismissed
  <2>1. op \in Operations /\ op.destination = Network
    BY DEF IInv, OursOK, IsLegitimate
  <2>2. PICK first \in QueuedReports :
          /\ ParseUserOperation(first) = op
          /\ op.destination = Network =>
                \A v \in UserReports : v.operationId = op => v.witnessedTs >= first.witnessedTs
    BY DEF IInv, OursOK, Unreported
  <2>3. /\ q \in Reports(db) /\ q.eventName = "OperationQueued" /\ HeldOK(q, faults)
        /\ first \in Reports(db) /\ first.eventName = "OperationQueued" /\ HeldOK(first, faults)
    BY Queried DEF QueuedReports, IInv
  <2>4. PICK l \in emitted : IsReportOf(q, l)
    BY <2>3 DEF HeldOK
  <2>5. PICK l1 \in emitted : IsReportOf(first, l1)
    BY <2>3 DEF HeldOK
  <2>6. /\ l \in Logs /\ l.event = "OperationQueued" /\ l.args \in Operations
        /\ l1 \in Logs /\ l1.event = "OperationQueued" /\ l1.args \in Operations
    BY <2>3, <2>4, <2>5 DEF IInv, EmittedOK, IsReportOf
  <2>7. l.args = op
    <3>1. EventId(l) = op
      BY <2>4 DEF IsReportOf
    <3> QED
      BY <2>1, <2>6, <3>1, QueuedOperation
  <2>8. l1.args = op
    BY <2>2, <2>3, <2>5, RequestedOperation DEF IInv, IsReportOf
  <2>9. l = l1
    BY <2>6, <2>7, <2>8, GuardianAssumption
  <2>10. q = first
    <3>1. q._id = first._id
      BY <2>4, <2>5, <2>9 DEF IsReportOf
    <3>2. PICK key \in DOMAIN db, key1 \in DOMAIN db : q = db[key] /\ first = db[key1]
      BY <2>3 DEF Reports
    <3> QED
      BY <3>1, <3>2 DEF IInv, DbOK
  <2> QED
    BY <2>1, <2>2, <2>10
<1> QED
  BY <1>1, GuardianInvariant, PTL

\* What the guardian writes on a report is true of the hub, although it is written later than
\* it was found out, and a request is only given up for a cause.
THEOREM GuardianRecordsAreTrue == Spec => []RecordsAreTrue
<1>1. IInv => RecordsAreTrue
  <2> SUFFICES ASSUME IInv PROVE RecordsAreTrue
    OBVIOUS
  <2>1. \A r \in Reports(db) : TrueOf(r, faults)
    BY Queried DEF IInv, HeldOK
  <2>2. \A r \in QueuedReports : LET op == ParseUserOperation(r) IN
          /\ r.status = "cancelled" => IsObjected(op)
          /\ r.status = "finalized" => status[op] = "Executed"
          /\ r.status = "failed" =>
                \/ IsObjected(op) \/ faults > 0
                \/ WasSlashedSince(r.witnessedTs) \/ ProofWasOutdatedSince(r.witnessedTs)
    BY <2>1 DEF QueuedReports, TrueOf, FailCause
  <2>3. \A r \in Reports(db) : r.status = "solved" => stage[r.eventArgs] = "Forfeited"
    BY <2>1 DEF TrueOf
  <2> QED
    BY <2>2, <2>3 DEF RecordsAreTrue
<1> QED
  BY <1>1, GuardianInvariant, PTL

=============================================================================
