----------------------------- MODULE MerkleLists -----------------------------
(***************************************************************************)
(* The Merkle tree of src/chain/merkle.go on lists of leaves.  A list      *)
(* grows one leaf at a time and every property is about the list reached.  *)
(***************************************************************************)
EXTENDS Merkle

CONSTANTS
    Leaves,     \* leaf strings
    MaxLeaves   \* bound: longest list

ASSUME MaxAssumption == MaxLeaves \in Nat

VARIABLE leaves

Init == leaves = <<>>

AddLeaf ==
    /\ Len(leaves) < MaxLeaves
    /\ \E s \in Leaves : leaves' = Append(leaves, s)

Next == AddLeaf

Spec == Init /\ [][Next]_leaves

Indices == 0..(Len(leaves) - 1)

-----------------------------------------------------------------------------
(* Properties.                                                             *)

\* The leaves that a subtree of height h has room for.
Widths(n) ==
    LET width[h \in 0..n] == IF h = 0 THEN 1 ELSE 2 * width[h - 1]
    IN  width

\* The height of the smallest perfect tree with room for n leaves.
Height(n) ==
    CHOOSE h \in 0..n : /\ n <= Widths(n)[h]
                        /\ h = 0 \/ Widths(n)[h - 1] < n

\* The reference: the subtrees of height h by their first leaf lo, built from the
\* top down.  Where no leaf reaches the right half, the left half stands in for it.
Subtrees(list) ==
    LET subtree[h \in 0..Height(Len(list))] ==
            IF h = 0 THEN [lo \in 1..Len(list) |-> LeafNode(list[lo])]
            ELSE [lo \in 1..Len(list) |->
                    LET mid == lo + Widths(Len(list))[h - 1]
                    IN  CombineNodes(subtree[h - 1][lo],
                                     subtree[h - 1][IF mid <= Len(list) THEN mid ELSE lo])]
    IN  subtree

Reference(list) == Subtrees(list)[Height(Len(list))][1]

\* MerkleRoot computes the root of the smallest perfect binary tree over the
\* leaves in which an absent right half repeats the left one.
RootIsReference == leaves # <<>> => MerkleRoot(leaves) = Reference(leaves)

\* Every proof that InclusionProof returns is accepted by VerifyInclusion for
\* its leaf and the list's root ("The returned proof can be verified with
\* VerifyInclusion", merkle.go), and for no other leaf.
ProofsVerify ==
    \A idx \in Indices :
        LET p == InclusionProof(leaves, idx)
        IN  \A s \in Leaves :
                VerifyInclusion(s, p, MerkleRoot(leaves)) <=> s = leaves[idx + 1]

\* All nodes of the tree, and every path made of them no longer than its height.
Nodes == UNION {ToSet(BuildLevels(leaves)[k]) : k \in 1..Len(BuildLevels(leaves))}
Paths == UNION {[1..n -> {"L", "R"} \X Nodes] : n \in 0..Height(Len(leaves))}

\* Nothing but a member of the list is ever accepted against its root, whatever
\* path is presented, not even an inner node presented as a leaf.
OnlyMembersVerify ==
    leaves # <<>> /\ Len(leaves) <= 3 =>
        \A s \in Leaves \cup Nodes, p \in Paths :
            VerifyInclusion(s, p, MerkleRoot(leaves)) => s \in ToSet(leaves)

\* Lists without repetition (entry hashes of one ledger differ, as each contains
\* its sequence number) have the same root only if they are the same list, odd
\* lengths included.
Lists == UNION {[1..n -> Leaves] : n \in 1..MaxLeaves}
RootBinds ==
    leaves # <<>> /\ IsInjective(leaves) =>
        \A other \in Lists :
            IsInjective(other) /\ MerkleRoot(other) = MerkleRoot(leaves)
                => other = leaves
=============================================================================
