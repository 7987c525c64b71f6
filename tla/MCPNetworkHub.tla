----------------------------- MODULE MCPNetworkHub -----------------------------
(***************************************************************************)
(* Values of the constants for TLC.                                        *)
(***************************************************************************)
EXTENDS PNetworkHubProperties, TLC

CONSTANTS o1, o2, o3, g1, g2, s1, s2, r1, r2, c1, c2

OnlyOneSet == {Actors}
WithAndWithoutSentinel == {Actors, Actors \ {s1}}

OperationSymmetry == Permutations(Operations)
SentinelSymmetry == Permutations(Sentinels)

(***************************************************************************)
(* A DAO that only slashes actors of the set it propagated last.           *)
(***************************************************************************)
SpecSlashRegistered ==
    /\ Init
    /\ [][/\ Next
          /\ \A e \in Epochs : inactiveActors'[e] \ inactiveActors[e] \subseteq epochsActors[e]]_vars

===============================================================================
