---------------------------- MODULE OptimisticQueue ----------------------------
(***************************************************************************)
(* What the queue of a hub promises, without saying how: an operation      *)
(* that is queued stays open to objections for at least Period.  Objectors *)
(* come in classes.  Two objections remove the operation at once; a single *)
(* one removes it only when Period has passed, and otherwise delays the    *)
(* execution.  Nothing leaves the queue twice.                             *)
(***************************************************************************)
EXTENDS Integers, FiniteSets

CONSTANTS Operations, Classes, Delaying, Period, Delay

VARIABLES clock, status, queuedAt, objections

vars == <<clock, status, queuedAt, objections>>

Init ==
    /\ clock = 0
    /\ status = [op \in Operations |-> "NotQueued"]
    /\ queuedAt = [op \in Operations |-> 0]
    /\ objections = [op \in Operations |-> {}]

Queue(op) ==
    /\ status[op] = "NotQueued"
    /\ status' = [status EXCEPT ![op] = "Queued"]
    /\ queuedAt' = [queuedAt EXCEPT ![op] = clock]
    /\ UNCHANGED <<clock, objections>>

Object(op, class) ==
    /\ status[op] = "Queued"
    /\ class \notin objections[op]
    /\ objections' = [objections EXCEPT ![op] = @ \cup {class}]
    /\ \/ /\ objections[op] # {} \/ clock >= queuedAt[op] + Period
          /\ status' = [status EXCEPT ![op] = "Cancelled"]
       \/ /\ objections[op] = {}
          /\ UNCHANGED status
    /\ UNCHANGED <<clock, queuedAt>>

EarliestExecution(op) ==
    queuedAt[op] + Period + Delay * Cardinality(objections[op] \cap Delaying)

Execute(op) ==
    /\ status[op] = "Queued"
    /\ clock >= EarliestExecution(op)
    /\ status' = [status EXCEPT ![op] = "Executed"]
    /\ UNCHANGED <<clock, queuedAt, objections>>

Advance ==
    /\ clock' = clock + 1
    /\ UNCHANGED <<status, queuedAt, objections>>

Next ==
    \/ Advance
    \/ \E op \in Operations : Queue(op) \/ Execute(op)
    \/ \E op \in Operations, class \in Classes : Object(op, class)

Spec == Init /\ [][Next]_vars

===============================================================================
