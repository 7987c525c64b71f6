------------------------------- MODULE MCGuardian -------------------------------
(***************************************************************************)
(* Values of the constants for TLC: a guardian that works on n2.  A user   *)
(* on n1 sends an operation to n2; another one is queued on n2 although it *)
(* is for n3.  The guardian is challenged on n2 and on n1.  The actors of  *)
(* the second epoch are others, of whom it is one.                         *)
(***************************************************************************)
EXTENDS Guardian

CONSTANTS n1, n2, n3, t1, t2, t3, other

Operation(tx, destination) == [origin |-> <<n1, tx>>, destination |-> destination, body |-> 1]
ForN2 == Operation(t1, n2)
ForN3 == Operation(t2, n3)

Log(event, network, tx, args) ==
    [event |-> event, network |-> network, tx |-> tx, nonce |-> 1, args |-> args]

UserLog(op) == Log("UserOperation", n1, op.origin[2], [op EXCEPT !.origin = Null])
QueuedLog(op) == Log("OperationQueued", n2, op.origin[2], op)
ActorsLog(epoch, tx, actors) ==
    Log("ActorsPropagated", n1, tx, [epoch |-> epoch, actors |-> actors])
ChallengeLog(c) == Log("ChallengePending", c.network, t3, c)

ThreeNetworks == {n1, n2, n3}
OneLoop == {Dismisser}
ServesN2 == [p \in OneLoop |-> n2]
AllEvents == [n \in ThreeNetworks |-> EventNames]

TwoOperations == {ForN2, ForN3}
OnBothChains == {[network |-> n, nonce |-> 1, actor |-> Me] : n \in {n1, n2}}

AllLogs ==
    {ActorsLog(0, t3, {Me}), ActorsLog(1, t2, {Me, other})}
        \cup {UserLog(op) : op \in Operations} \cup {QueuedLog(op) : op \in Operations}
        \cup {ChallengeLog(c) : c \in Challenges}
===============================================================================
