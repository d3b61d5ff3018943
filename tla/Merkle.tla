------------------------------- MODULE Merkle -------------------------------
(***************************************************************************)
(* The Merkle tree over entry hashes (src/chain/merkle.go): MerkleRoot,    *)
(* InclusionProof and VerifyInclusion.                                     *)
(*                                                                         *)
(* SHA-256 is taken to be injective: a node stands for its own preimage,   *)
(* the domain byte followed by what was hashed.  Sequences are 1-based,    *)
(* idx and pos are 0-based as in the code.                                 *)
(***************************************************************************)
EXTENDS Integers, Sequences, SequencesExt

LeafPrefix     == "0x00"
InternalPrefix == "0x01"

\* Mistake: a leaf hashed without its domain byte.
LeafNodeBare(s) == s

\* leafNode: SHA-256(0x00 || s).
LeafNode(s) == <<LeafPrefix, s>>

\* combineNodes: SHA-256(0x01 || left || right).
CombineNodes(left, right) == <<InternalPrefix, left, right>>

\* Mistake: the odd node at the end of a level is forgotten.
ParentsFloor(nodes) ==
    [i \in 1..(IF Len(nodes) = 1 THEN 1 ELSE Len(nodes) \div 2) |->
        CombineNodes(nodes[2 * i - 1],
                     IF 2 * i <= Len(nodes) THEN nodes[2 * i] ELSE nodes[2 * i - 1])]

\* One round of buildLevels: neighbours are combined, an odd last node with
\* itself.
Parents(nodes) ==
    [i \in 1..((Len(nodes) + 1) \div 2) |->
        CombineNodes(nodes[2 * i - 1],
                     IF 2 * i <= Len(nodes) THEN nodes[2 * i] ELSE nodes[2 * i - 1])]

\* The rounds of buildLevels, leaves first, as long as they may be needed: each at
\* least halves a level of two or more nodes.
Rounds(leaves) ==
    LET level[k \in 0..Len(leaves)] ==
            IF k = 0 THEN [i \in 1..Len(leaves) |-> LeafNode(leaves[i])]
                     ELSE Parents(level[k - 1])
    IN  level

\* buildLevels: the rounds until a single node is left.
BuildLevels(leaves) ==
    LET level == Rounds(leaves)
        top   == CHOOSE k \in 0..Len(leaves) :
                    /\ Len(level[k]) = 1
                    /\ \A j \in 0..(k - 1) : Len(level[j]) > 1
    IN  [k \in 1..(top + 1) |-> level[k - 1]]

\* MerkleRoot, for at least one leaf (the code refuses none).
MerkleRoot(leaves) == Last(BuildLevels(leaves))[1]

\* Mistake: an odd node at the end of a level gets no sibling of its own.
SiblingOf(nodes, pos) ==
    IF pos % 2 = 0 /\ pos + 1 = Len(nodes) /\ pos > 0
    THEN <<"L", nodes[pos]>>
    ELSE IF pos % 2 = 0
         THEN <<"R", IF pos + 1 < Len(nodes) THEN nodes[pos + 2] ELSE nodes[pos + 1]>>
         ELSE <<"L", nodes[pos]>>

\* The step of a proof at the node in position pos of a level: its sibling, and
\* the side the sibling is on.
Sibling(nodes, pos) ==
    IF pos % 2 = 0
    THEN <<"R", IF pos + 1 < Len(nodes) THEN nodes[pos + 2] ELSE nodes[pos + 1]>>
    ELSE <<"L", nodes[pos]>>

\* The position of the ancestors of leaf idx, level by level.
Positions(levels, idx) ==
    LET pos[k \in 1..Len(levels)] == IF k = 1 THEN idx ELSE pos[k - 1] \div 2
    IN  pos

\* InclusionProof, for idx \in 0..Len(leaves)-1 (the code refuses others).
InclusionProof(leaves, idx) ==
    LET levels == BuildLevels(leaves)
    IN  [k \in 1..(Len(levels) - 1) |-> Sibling(levels[k], Positions(levels, idx)[k])]

\* One step of VerifyInclusion up the tree.
Climb(node, step) ==
    IF step[1] = "L" THEN CombineNodes(step[2], node) ELSE CombineNodes(node, step[2])

\* The nodes that the walk up the tree goes through.
Walk(leaf, proof) ==
    LET node[k \in 0..Len(proof)] ==
            IF k = 0 THEN LeafNode(leaf) ELSE Climb(node[k - 1], proof[k])
    IN  node

\* VerifyInclusion: refuses a step whose direction is neither L nor R, then
\* compares what the walk arrives at with the root.
VerifyInclusion(leaf, proof, root) ==
    /\ \A k \in 1..Len(proof) : proof[k][1] \in {"L", "R"}
    /\ Walk(leaf, proof)[Len(proof)] = root
=============================================================================
