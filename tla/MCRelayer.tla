------------------------------- MODULE MCRelayer -------------------------------
(***************************************************************************)
(* Values of the constants for TLC: a transaction on n1 sends operations   *)
(* to n2, where the relayer works: one as it should be, one without a fee  *)
(* and one that cannot be executed, which no others handle.                *)
(***************************************************************************)
EXTENDS Relayer

CONSTANTS n1, n2, t1

UserOperation(tx, nonce, destination) ==
    [event |-> "UserOperation", network |-> n1, tx |-> tx, nonce |-> nonce,
     args |-> [origin |-> Null, destination |-> destination, body |-> nonce]]

TwoNetworks == {n1, n2}
TwoLoops == {Proposer, Finalizer}
BothServeN2 == [p \in TwoLoops |-> n2]
UserOperationOnN1 == [n \in {n1} |-> {"UserOperation"}]

\* Their reports have the same key.
ThreeOfOneTransaction == {UserOperation(t1, nonce, n2) : nonce \in 1..3}

UserOperations == {EventId(log) : log \in Logs}
NoFeeForTheSecond == {op \in UserOperations : op.body = 2}
TheThird == {op \in UserOperations : op.body = 3}
AllButTheThird == UserOperations \ TheThird
===============================================================================
