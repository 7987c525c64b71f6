------------------------------ MODULE MerkleTrees ------------------------------
(***************************************************************************)
(* The Merkle tree that the governance message relayer builds over the     *)
(* blocks of a checkpoint of the interim chain, and the check of its proofs*)
(* on Ethereum.  A hash is the sequence of the numbers of the blocks below *)
(* it: two nodes of one layer have the same hash only if they have the     *)
(* same blocks in the same order.                                          *)
(***************************************************************************)
EXTENDS Integers, Sequences

MaxDepth == 20

Zero == <<0>>       \* utils.zeros(32), which no block has as its hash

Hash(left, right) == left \o right

\* The least depth of a tree with that many leaves.
Depth(n) == CHOOSE d \in 0..MaxDepth : n <= 2 ^ d /\ \A e \in 0..d - 1 : n > 2 ^ e

Padded(leaves) ==
    [i \in 1..2 ^ Depth(Len(leaves)) |-> IF i <= Len(leaves) THEN leaves[i] ELSE Zero]

CreateHashes(nodes) ==
    [i \in 1..Len(nodes) \div 2 |-> Hash(nodes[2 * i - 1], nodes[2 * i])]

\* The layers from the leaves, which are layer 0, up to the root.
Layers(leaves) ==
    LET padded == Padded(leaves)
        layer[d \in 0..Depth(Len(leaves))] ==
          IF d = 0 THEN padded ELSE LET below == layer[d - 1] IN CreateHashes(below)
    IN layer

Root(leaves) == Layers(leaves)[Depth(Len(leaves))][1]

\* Indexes count from 0, as they do in the code: the last leaf that is equal.
IndexOf(nodes, leaf) ==
    CHOOSE i \in 0..Len(nodes) - 1 :
        /\ nodes[i + 1] = leaf
        /\ \A j \in i + 1..Len(nodes) - 1 : nodes[j + 1] # leaf

Ancestor(index, d) == index \div 2 ^ d

Sibling(index) == IF index % 2 = 0 THEN index + 1 ELSE index - 1

\* Mistake: the siblings of the leaf, and not of its ancestors, in every layer.
MutGetProof(leaves, leaf) ==
    LET layers == Layers(leaves)
        index == IndexOf(layers[0], leaf)
    IN [d \in 1..Depth(Len(leaves)) |-> layers[d - 1][(Sibling(index) % Len(layers[d - 1])) + 1]]

GetProof(leaves, leaf) ==
    LET layers == Layers(leaves)
        index == IndexOf(layers[0], leaf)
    IN [d \in 1..Depth(Len(leaves)) |-> layers[d - 1][Sibling(Ancestor(index, d - 1)) + 1]]

\* What the nodes of a proof make of a value.
RootFrom(value, index, proof) ==
    LET hash[d \in 0..Len(proof)] ==
          IF d = 0 THEN value
          ELSE IF Ancestor(index, d - 1) % 2 = 0 THEN Hash(hash[d - 1], proof[d])
          ELSE Hash(proof[d], hash[d - 1])
    IN hash[Len(proof)]

Verify(value, index, root, proof) == RootFrom(value, index, proof) = root

CheckMembership(leaf, index, root, proof) ==
    index < 2 ^ Len(proof) /\ Verify(leaf, index, root, proof)

===============================================================================
