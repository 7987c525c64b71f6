---------------------------- MODULE MCGovernanceRelay ----------------------------
(***************************************************************************)
(* Values of the constants for TLC: two epochs, after the first of which a *)
(* guardian is replaced by another one and a sentinel is left with less    *)
(* than the minimum; another one borrows.  An operator runs                *)
(* propagate-actors twice and others call the emitter, as --force does; a  *)
(* hub and one of a test.                                                  *)
(***************************************************************************)
EXTENDS GovernanceRelay

CONSTANTS h1, h2, p1, g1, g2, s1, s2

Registration(actor, startEpoch, endEpoch) ==
    [actor |-> actor, startEpoch |-> startEpoch, endEpoch |-> endEpoch]

TwoHubs == {h1, h2}
TheTestHub == {h2}
Twice == [t \in {p1} |-> 2]
FourActors == {g1, g2, s1, s2}

ReplacedGuardian == {Registration(g1, 0, 0), Registration(g2, 1, 1)}
TwoSentinels == {Registration(s1, 0, 1), Registration(s2, 0, 1)}

Kinds == [a \in FourActors |-> CASE a = s1 -> "staking" [] a = s2 -> "borrowing" [] OTHER -> "none"]
TwoKinds == [a \in FourActors |-> [kind |-> Kinds[a], startEpoch |-> 0, endEpoch |-> 1]]
SlashedStake == [a \in FourActors |-> [e \in 0..1 |-> IF a = s1 THEN 2 - e ELSE 0]]

\* The second one twice makes up for the first one.
List(first, second) ==
    [guardians |-> [a \in FourActors |-> 0],
     sentinels |-> [a \in FourActors |-> IF a = s1 THEN first ELSE IF a = s2 THEN second ELSE 0]]

ThreeLists == {List(1, 1), List(0, 1), List(0, 2)}
===============================================================================
