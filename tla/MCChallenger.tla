------------------------------ MODULE MCChallenger ------------------------------
(***************************************************************************)
(* Values of the constants for TLC: two epochs; an actor, silent or not,   *)
(* and another one that is ignored, and propagated only for the first      *)
(* epoch.  A behaviour is of one challenge in both epochs, of two on the   *)
(* same chain, or of three on two chains at the first instant.             *)
(***************************************************************************)
EXTENDS Challenger, TLC

CONSTANTS n1, n2, actor, ignored

TwoNetworks == {n1, n2}
OneBlockPerInstant == [n \in TwoNetworks |-> 1]
TwoActors == {actor, ignored}
FirstEpochs == (0 :> TwoActors) @@ (1 :> {actor})

Challenge(network, nonce) == [network |-> network, actor |-> actor, nonce |-> nonce]
TwoOfOneChain == {Challenge(n1, 1), Challenge(n1, 2)}
ThreeChallenges == TwoOfOneChain \cup {Challenge(n2, 1)}

Bound(chains, ids, slashRounds, time) ==
    [chains |-> chains, challenges |-> ids, slashRounds |-> slashRounds, time |-> time]

ThreeBounds ==
    {Bound({n1}, {Challenge(n1, 1)}, {1, 2}, 4),
     Bound({n1}, TwoOfOneChain, {1, 2}, 2),
     Bound(TwoNetworks, ThreeChallenges, {1}, 0)}
===============================================================================
