--------------------------- MODULE PrimitiveProofs ---------------------------
(***************************************************************************)
(* Proofs about the pure operators of src/chain: Merkle, for lists of any  *)
(* length, leaves of any kind; and Canonical, for documents of any depth.  *)
(* Both are made of recursive functions, so the lemmas start with an       *)
(* induction principle over sets of numbers, and with what each function   *)
(* is.                                                                     *)
(***************************************************************************)
EXTENDS MerkleLists, JSONPayloads, FiniteSetTheorems, WellFoundedInduction, TLAPS

-----------------------------------------------------------------------------
(* Induction.                                                              *)

NatLess == {ss \in Nat \X Nat : ss[1] < ss[2]}

\* Every nonempty set of natural numbers has a least element.
LEMMA LeastNumber ==
  ASSUME NEW T \in SUBSET Nat, T # {}
  PROVE  \E x \in T : \A y \in T : x <= y
<1>1. IsWellFoundedOn(NatLess, Nat)
  BY NatLessThanWellFounded DEF OpToRel, NatLess
<1>2. PICK x \in T : \A y \in T : ~(<<y, x>> \in NatLess)
  BY <1>1, WFMin
<1>3. ASSUME NEW y \in T PROVE x <= y
  <2>1. ~(y < x)
    BY <1>2 DEF NatLess
  <2>2. QED
    BY <2>1
<1>4. QED
  BY <1>3

\* A set with 0 that has the successor of each of its members has every number.
LEMMA SetInduction ==
  ASSUME NEW P \in SUBSET Nat, 0 \in P, \A n \in P : n + 1 \in P
  PROVE  \A n \in Nat : n \in P
<1> SUFFICES ASSUME NEW n \in Nat, n \notin P PROVE FALSE
  OBVIOUS
<1>1. PICK x \in Nat \ P : \A y \in Nat \ P : x <= y
  <2>1. Nat \ P \in SUBSET Nat /\ Nat \ P # {}
    OBVIOUS
  <2>2. QED
    BY <2>1, LeastNumber
<1>2. x # 0 /\ x - 1 \in Nat /\ x - 1 < x
  BY <1>1
<1>3. x - 1 \in P
  BY <1>1, <1>2
<1>4. QED
  BY <1>1, <1>2, <1>3

-----------------------------------------------------------------------------
(* The recursive functions are what their definitions say.                 *)

\* The rounds of buildLevels.
LEMMA RoundsDef ==
  ASSUME NEW list, Len(list) \in Nat
  PROVE  LET level == Rounds(list)
         IN  /\ level[0] = [i \in 1..Len(list) |-> LeafNode(list[i])]
             /\ \A k \in 1..Len(list) : level[k] = Parents(level[k - 1])
<1> DEFINE base == [i \in 1..Len(list) |-> LeafNode(list[i])]
           Upto(m, f) == f = [k \in 0..m |-> IF k = 0 THEN base ELSE Parents(f[k - 1])]
           P == {m \in Nat : \E f : Upto(m, f)}
<1> HIDE DEF base, Upto, P
<1>1. 0 \in P
  <2>1. Upto(0, [k \in 0..0 |-> base])
    BY DEF Upto
  <2>2. QED
    BY <2>1 DEF P
<1>2. ASSUME NEW m \in P PROVE m + 1 \in P
  <2>1. m \in Nat /\ \E f : Upto(m, f)
    BY DEF P
  <2>2. PICK f : f = [k \in 0..m |-> IF k = 0 THEN base ELSE Parents(f[k - 1])]
    BY <2>1 DEF Upto
  <2> DEFINE g == [k \in 0..(m + 1) |->
                    IF k # m + 1 THEN f[k] ELSE IF k = 0 THEN base ELSE Parents(f[m])]
  <2>3. g = [k \in 0..(m + 1) |-> IF k = 0 THEN base ELSE Parents(g[k - 1])]
    <3>1. ASSUME NEW k \in 0..(m + 1)
          PROVE  g[k] = IF k = 0 THEN base ELSE Parents(g[k - 1])
      <4>1. CASE k = m + 1
        <5>1. /\ g[k] = IF k = 0 THEN base ELSE Parents(f[m])
              /\ k # 0 => g[k - 1] = f[m]
          BY <2>1, <4>1
        <5>2. QED
          BY <5>1
      <4>2. CASE k # m + 1
        <5>1. k \in 0..m /\ g[k] = f[k] /\ (k # 0 => g[k - 1] = f[k - 1])
          BY <2>1, <4>2
        <5>2. QED
          BY <2>2, <5>1
      <4>3. QED
        BY <4>1, <4>2
    <3>2. QED
      BY <3>1
  <2> HIDE DEF g
  <2>4. m + 1 \in Nat /\ Upto(m + 1, g)
    BY <2>1, <2>3 DEF Upto
  <2>5. QED
    BY <2>4 DEF P
<1>3. \E f : Upto(Len(list), f)
  <2>1. \A m \in Nat : m \in P
    BY <1>1, <1>2, SetInduction DEF P
  <2>2. QED
    BY <2>1 DEF P
<1>4. Upto(Len(list), Rounds(list))
  BY <1>3, Zenon DEF Rounds, base, Upto
<1>5. QED
  BY <1>4 DEF base, Upto

\* The positions that InclusionProof goes through.
LEMMA PositionsDef ==
  ASSUME NEW levels, NEW idx, Len(levels) \in Nat
  PROVE  LET pos == Positions(levels, idx)
         IN  /\ Len(levels) > 0 => pos[1] = idx
             /\ \A k \in 2..Len(levels) : pos[k] = pos[k - 1] \div 2
<1> DEFINE base == idx
           Upto(m, f) == f = [k \in 1..m |-> IF k = 1 THEN base ELSE f[k - 1] \div 2]
           P == {m \in Nat : \E f : Upto(m, f)}
<1> HIDE DEF base, Upto, P
<1>1. 0 \in P
  <2>1. Upto(0, [k \in 1..0 |-> base])
    BY DEF Upto
  <2>2. QED
    BY <2>1 DEF P
<1>2. ASSUME NEW m \in P PROVE m + 1 \in P
  <2>1. m \in Nat /\ \E f : Upto(m, f)
    BY DEF P
  <2>2. PICK f : f = [k \in 1..m |-> IF k = 1 THEN base ELSE f[k - 1] \div 2]
    BY <2>1 DEF Upto
  <2> DEFINE g == [k \in 1..(m + 1) |->
                    IF k # m + 1 THEN f[k] ELSE IF k = 1 THEN base ELSE f[m] \div 2]
  <2>3. g = [k \in 1..(m + 1) |-> IF k = 1 THEN base ELSE g[k - 1] \div 2]
    <3>1. ASSUME NEW k \in 1..(m + 1)
          PROVE  g[k] = IF k = 1 THEN base ELSE g[k - 1] \div 2
      <4>1. CASE k = m + 1
        <5>1. /\ g[k] = IF k = 1 THEN base ELSE f[m] \div 2
              /\ k # 1 => g[k - 1] = f[m]
          BY <2>1, <4>1
        <5>2. QED
          BY <5>1
      <4>2. CASE k # m + 1
        <5>1. k \in 1..m /\ g[k] = f[k] /\ (k # 1 => g[k - 1] = f[k - 1])
          BY <2>1, <4>2
        <5>2. QED
          BY <2>2, <5>1
      <4>3. QED
        BY <4>1, <4>2
    <3>2. QED
      BY <3>1
  <2> HIDE DEF g
  <2>4. m + 1 \in Nat /\ Upto(m + 1, g)
    BY <2>1, <2>3 DEF Upto
  <2>5. QED
    BY <2>4 DEF P
<1>3. \E f : Upto(Len(levels), f)
  <2>1. \A m \in Nat : m \in P
    BY <1>1, <1>2, SetInduction DEF P
  <2>2. QED
    BY <2>1 DEF P
<1>4. Upto(Len(levels), Positions(levels, idx))
  BY <1>3, Zenon DEF Positions, base, Upto
<1>5. QED
  BY <1>4 DEF base, Upto

\* The nodes that VerifyInclusion goes through.
LEMMA WalkDef ==
  ASSUME NEW leaf, NEW proof, Len(proof) \in Nat
  PROVE  LET node == Walk(leaf, proof)
         IN  /\ node[0] = LeafNode(leaf)
             /\ \A k \in 1..Len(proof) : node[k] = Climb(node[k - 1], proof[k])
<1> DEFINE base == LeafNode(leaf)
           Upto(m, f) == f = [k \in 0..m |-> IF k = 0 THEN base ELSE Climb(f[k - 1], proof[k])]
           P == {m \in Nat : \E f : Upto(m, f)}
<1> HIDE DEF base, Upto, P
<1>1. 0 \in P
  <2>1. Upto(0, [k \in 0..0 |-> base])
    BY DEF Upto
  <2>2. QED
    BY <2>1 DEF P
<1>2. ASSUME NEW m \in P PROVE m + 1 \in P
  <2>1. m \in Nat /\ \E f : Upto(m, f)
    BY DEF P
  <2>2. PICK f : f = [k \in 0..m |-> IF k = 0 THEN base ELSE Climb(f[k - 1], proof[k])]
    BY <2>1 DEF Upto
  <2> DEFINE g == [k \in 0..(m + 1) |->
                    IF k # m + 1 THEN f[k] ELSE IF k = 0 THEN base ELSE Climb(f[m], proof[k])]
  <2>3. g = [k \in 0..(m + 1) |-> IF k = 0 THEN base ELSE Climb(g[k - 1], proof[k])]
    <3>1. ASSUME NEW k \in 0..(m + 1)
          PROVE  g[k] = IF k = 0 THEN base ELSE Climb(g[k - 1], proof[k])
      <4>1. CASE k = m + 1
        <5>1. /\ g[k] = IF k = 0 THEN base ELSE Climb(f[m], proof[k])
              /\ k # 0 => g[k - 1] = f[m]
          BY <2>1, <4>1
        <5>2. QED
          BY <5>1
      <4>2. CASE k # m + 1
        <5>1. k \in 0..m /\ g[k] = f[k] /\ (k # 0 => g[k - 1] = f[k - 1])
          BY <2>1, <4>2
        <5>2. QED
          BY <2>2, <5>1
      <4>3. QED
        BY <4>1, <4>2
    <3>2. QED
      BY <3>1
  <2> HIDE DEF g
  <2>4. m + 1 \in Nat /\ Upto(m + 1, g)
    BY <2>1, <2>3 DEF Upto
  <2>5. QED
    BY <2>4 DEF P
<1>3. \E f : Upto(Len(proof), f)
  <2>1. \A m \in Nat : m \in P
    BY <1>1, <1>2, SetInduction DEF P
  <2>2. QED
    BY <2>1 DEF P
<1>4. Upto(Len(proof), Walk(leaf, proof))
  BY <1>3, Zenon DEF Walk, base, Upto
<1>5. QED
  BY <1>4 DEF base, Upto
-----------------------------------------------------------------------------
(* The tree.                                                               *)

\* The number of nodes of a level, and a level of the tree.
Size(nodes) == Len(nodes)
IsLevel(nodes) ==
    /\ Size(nodes) \in Nat /\ Size(nodes) >= 1
    /\ DOMAIN nodes = 1..Size(nodes)
    /\ nodes = [i \in 1..Size(nodes) |-> nodes[i]]

\* A round leaves at least one node, and fewer than there were of two or more.
LEMMA ParentsShape ==
  ASSUME NEW nodes, IsLevel(nodes)
  PROVE  /\ IsLevel(Parents(nodes))
         /\ Size(Parents(nodes)) = (Size(nodes) + 1) \div 2
         /\ Size(Parents(nodes)) <= Size(nodes)
         /\ Size(nodes) > 1 => Size(Parents(nodes)) < Size(nodes)
<1> DEFINE n == Size(nodes)
           m == (n + 1) \div 2
<1>1. n \in Nat /\ n > 0
  BY DEF IsLevel
<1> HIDE DEF n
<1>2. m \in Nat /\ m > 0 /\ m <= n /\ (n > 1 => m < n)
  BY <1>1
<1> HIDE DEF m
<1>3. Parents(nodes) = [i \in 1..m |->
        CombineNodes(nodes[2 * i - 1], IF 2 * i <= n THEN nodes[2 * i] ELSE nodes[2 * i - 1])]
  BY DEF Parents, m, n, Size
<1>4. Size(Parents(nodes)) = m /\ DOMAIN Parents(nodes) = 1..m
  BY <1>2, <1>3 DEF Size
<1>5. Parents(nodes) = [i \in 1..m |-> Parents(nodes)[i]]
  BY <1>3
<1>6. QED
  BY <1>2, <1>4, <1>5 DEF IsLevel, m, n

\* Every round is a level, and as many rounds as there are leaves leave one node.
LEMMA RoundsShape ==
  ASSUME NEW list, Len(list) \in Nat \ {0}
  PROVE  /\ \A k \in 0..Len(list) : IsLevel(Rounds(list)[k])
         /\ \E k \in 0..Len(list) : Size(Rounds(list)[k]) = 1
<1> DEFINE n     == Len(list)
           level == Rounds(list)
           P     == {k \in Nat : k <= n => /\ IsLevel(level[k])
                                           /\ Size(level[k]) = 1 \/ Size(level[k]) <= n - k}
<1>1. /\ n \in Nat /\ n > 0
      /\ level[0] = [i \in 1..n |-> LeafNode(list[i])]
      /\ \A k \in 1..n : level[k] = Parents(level[k - 1])
  BY RoundsDef
<1> HIDE DEF n, level
<1>2. 0 \in P
  <2>1. Size(level[0]) = n /\ DOMAIN level[0] = 1..n
    BY <1>1 DEF Size
  <2>2. QED
    BY <1>1, <2>1 DEF IsLevel
<1>3. ASSUME NEW k \in P PROVE k + 1 \in P
  <2> SUFFICES ASSUME k + 1 <= n
               PROVE  /\ IsLevel(level[k + 1])
                      /\ Size(level[k + 1]) = 1 \/ Size(level[k + 1]) <= n - (k + 1)
    OBVIOUS
  <2>1. k \in Nat /\ k + 1 \in 1..n /\ (k + 1) - 1 = k
    BY <1>1
  <2>2. IsLevel(level[k]) /\ (Size(level[k]) = 1 \/ Size(level[k]) <= n - k)
    BY <1>1, <2>1
  <2>3. level[k + 1] = Parents(level[k])
    BY <1>1, <2>1
  <2> DEFINE l == Size(level[k])
             m == Size(level[k + 1])
  <2>4. /\ IsLevel(level[k + 1]) /\ l \in Nat /\ l >= 1 /\ m \in Nat /\ m >= 1
        /\ m <= l /\ (l > 1 => m < l)
    <3>1. IsLevel(level[k + 1]) /\ m <= l /\ (l > 1 => m < l)
      BY <2>2, <2>3, ParentsShape
    <3>2. QED
      BY <2>2, <3>1 DEF IsLevel
  <2>5. l = 1 \/ l <= n - k
    BY <2>2
  <2> HIDE DEF l, m
  <2>6. m = 1 \/ m <= n - (k + 1)
    BY <1>1, <2>1, <2>4, <2>5
  <2>7. QED
    BY <2>4, <2>6 DEF m
<1>4. \A k \in Nat : k \in P
  <2> HIDE DEF P
  <2>1. P \in SUBSET Nat
    BY DEF P
  <2>2. QED
    BY <1>2, <1>3, <2>1, SetInduction
<1>5. \A k \in 0..n : IsLevel(level[k])
  BY <1>1, <1>4
<1>6. \E k \in 0..n : Size(level[k]) = 1
  <2>1. n - 1 \in Nat /\ n - 1 <= n /\ n - (n - 1) = 1 /\ n - 1 \in 0..n
    BY <1>1
  <2>2. IsLevel(level[n - 1]) /\ (Size(level[n - 1]) = 1 \/ Size(level[n - 1]) <= 1)
    BY <1>4, <2>1
  <2>3. Size(level[n - 1]) = 1
    <3>1. Size(level[n - 1]) \in Nat /\ Size(level[n - 1]) >= 1
      BY <2>2 DEF IsLevel
    <3>2. QED
      BY <2>2, <3>1
  <2>4. QED
    BY <2>1, <2>3
<1>7. QED
  BY <1>5, <1>6 DEF n, level

\* What buildLevels returns: the leaf nodes, then the parents of each level, until
\* for the first time a single node, the root.
LEMMA LevelsBuilt ==
  ASSUME NEW list, Len(list) \in Nat \ {0}
  PROVE  LET levels == BuildLevels(list)
         IN  /\ Len(levels) \in Nat \ {0} /\ DOMAIN levels = 1..Len(levels)
             /\ Len(levels) <= Len(list) + 1
             /\ levels[1] = [i \in 1..Len(list) |-> LeafNode(list[i])]
             /\ \A k \in 2..Len(levels) : levels[k] = Parents(levels[k - 1])
             /\ \A k \in 1..Len(levels) : /\ IsLevel(levels[k])
                                          /\ Size(levels[k]) = 1 <=> k = Len(levels)
             /\ MerkleRoot(list) = levels[Len(levels)][1]
<1> DEFINE n      == Len(list)
           level  == Rounds(list)
           Top(k) == Size(level[k]) = 1 /\ \A j \in 0..(k - 1) : Size(level[j]) > 1
           top    == CHOOSE k \in 0..n : Top(k)
           levels == BuildLevels(list)
<1>1. /\ n \in Nat /\ n > 0
      /\ level[0] = [i \in 1..n |-> LeafNode(list[i])]
      /\ \A k \in 1..n : level[k] = Parents(level[k - 1])
  BY RoundsDef
<1>2. /\ \A k \in 0..n : IsLevel(level[k])
      /\ \E k \in 0..n : Size(level[k]) = 1
  BY RoundsShape
<1>3. levels = [k \in 1..(top + 1) |-> level[k - 1]]
  BY Zenon DEF BuildLevels, Size
<1> HIDE DEF n, level, levels
<1>4. \E k \in 0..n : Top(k)
  <2> DEFINE T == {k \in 0..n : Size(level[k]) = 1}
  <2>1. T \in SUBSET Nat /\ T # {} /\ T \subseteq 0..n
    BY <1>1, <1>2
  <2>2. PICK k \in T : \A j \in T : k <= j
    BY <2>1, LeastNumber
  <2>3. ASSUME NEW j \in 0..(k - 1) PROVE Size(level[j]) > 1
    <3>1. j \in 0..n /\ ~(k <= j)
      BY <1>1, <2>1
    <3>2. Size(level[j]) # 1
      BY <2>2, <3>1
    <3>3. Size(level[j]) \in Nat /\ Size(level[j]) >= 1
      BY <1>2, <3>1 DEF IsLevel
    <3>4. QED
      BY <3>2, <3>3
  <2>4. QED
    BY <2>3
<1>5. top \in 0..n /\ Top(top)
  BY <1>4
<1> HIDE DEF top
<1>6. /\ Len(levels) = top + 1 /\ DOMAIN levels = 1..(top + 1) /\ Len(levels) \in Nat \ {0}
      /\ Len(levels) <= n + 1
  BY <1>1, <1>3, <1>5
<1>7. \A k \in 1..(top + 1) : levels[k] = level[k - 1] /\ k - 1 \in 0..n
  BY <1>1, <1>3, <1>5
<1>8. \A k \in 2..(top + 1) : levels[k] = Parents(levels[k - 1])
  BY <1>1, <1>5, <1>7
<1>9. ASSUME NEW k \in 1..(top + 1)
      PROVE  IsLevel(levels[k]) /\ (Size(levels[k]) = 1 <=> k = top + 1)
  <2>1. CASE k = top + 1
    BY <1>2, <1>5, <1>7, <2>1
  <2>2. CASE k # top + 1
    <3>1. k - 1 \in 0..(top - 1)
      BY <1>5, <2>2
    <3>2. Size(level[k - 1]) > 1
      BY <1>5, <3>1
    <3>3. IsLevel(level[k - 1]) /\ levels[k] = level[k - 1]
      BY <1>2, <1>7
    <3>4. Size(level[k - 1]) # 1
      BY <3>2, <3>3, <2>2 DEF IsLevel
    <3>5. QED
      BY <2>2, <3>3, <3>4
  <2>3. QED
    BY <2>1, <2>2
<1>10. levels[1] = [i \in 1..n |-> LeafNode(list[i])]
  BY <1>1, <1>5, <1>7
<1>11. MerkleRoot(list) = levels[Len(levels)][1]
  BY DEF MerkleRoot, Last, levels
<1>12. QED
  BY <1>6, <1>8, <1>9, <1>10, <1>11 DEF n, levels

\* The nodes of a level above the leaves are made of two nodes each, and of nodes of
\* the level below.
LEMMA ParentNode ==
  ASSUME NEW nodes, IsLevel(nodes), NEW i \in 1..Size(Parents(nodes))
  PROVE  \E j, k \in 1..Size(nodes) : /\ Parents(nodes)[i] = CombineNodes(nodes[j], nodes[k])
                                      /\ j = 2 * i - 1
                                      /\ k = IF 2 * i <= Size(nodes) THEN 2 * i ELSE 2 * i - 1
<1> DEFINE n == Size(nodes)
           j == 2 * i - 1
           k == IF 2 * i <= n THEN 2 * i ELSE 2 * i - 1
<1>1. n \in Nat /\ Size(Parents(nodes)) = (n + 1) \div 2
  BY ParentsShape DEF IsLevel
<1>2. i \in 1..((n + 1) \div 2)
  BY <1>1
<1>3. Parents(nodes)[i]
        = CombineNodes(nodes[2 * i - 1], IF 2 * i <= n THEN nodes[2 * i] ELSE nodes[2 * i - 1])
  BY <1>2 DEF Parents, Size
<1> HIDE DEF n
<1>4. j \in 1..n /\ k \in 1..n
  BY <1>1, <1>2
<1>5. Parents(nodes)[i] = CombineNodes(nodes[j], nodes[k])
  BY <1>3
<1> HIDE DEF j, k
<1>6. QED
  BY <1>4, <1>5 DEF j, k, n

\* Climbing from a node with its sibling leads to its parent.
LEMMA ClimbParent ==
  ASSUME NEW nodes, IsLevel(nodes), NEW pos \in 0..(Size(nodes) - 1)
  PROVE  /\ Climb(nodes[pos + 1], Sibling(nodes, pos)) = Parents(nodes)[(pos \div 2) + 1]
         /\ pos \div 2 \in 0..(Size(Parents(nodes)) - 1)
         /\ Sibling(nodes, pos)[1] \in {"L", "R"}
<1> DEFINE n == Size(nodes)
           i == (pos \div 2) + 1
<1>1. n \in Nat /\ n >= 1 /\ Size(Parents(nodes)) = (n + 1) \div 2
  BY ParentsShape DEF IsLevel
<1> HIDE DEF n
<1>2. pos \in Nat /\ pos < n /\ i \in 1..((n + 1) \div 2) /\ i \in Nat
  BY <1>1 DEF n
<1>3. Parents(nodes)[i]
        = CombineNodes(nodes[2 * i - 1], IF 2 * i <= n THEN nodes[2 * i] ELSE nodes[2 * i - 1])
  BY <1>2 DEF Parents, Size, n
<1>4. Sibling(nodes, pos) = IF pos % 2 = 0
        THEN <<"R", IF pos + 1 < n THEN nodes[pos + 2] ELSE nodes[pos + 1]>>
        ELSE <<"L", nodes[pos]>>
  BY DEF Sibling, Size, n
<1>5. CASE pos % 2 = 0
  <2>1. 2 * i - 1 = pos + 1 /\ 2 * i = pos + 2 /\ (2 * i <= n <=> pos + 1 < n)
    BY <1>1, <1>2, <1>5
  <2> HIDE DEF i
  <2>2. QED
    BY <1>1, <1>2, <1>3, <1>4, <1>5, <2>1 DEF Climb, i
<1>6. CASE pos % 2 # 0
  <2>1. 2 * i - 1 = pos /\ 2 * i = pos + 1 /\ 2 * i <= n
    BY <1>1, <1>2, <1>6
  <2> HIDE DEF i
  <2>2. QED
    BY <1>1, <1>2, <1>3, <1>4, <1>6, <2>1 DEF Climb, i
<1>7. QED
  BY <1>5, <1>6

\* What a node stands for: leaves and inner nodes differ, and have their parts.
LEMMA NodeParts ==
  /\ \A s, t : LeafNode(s) = LeafNode(t) => s = t
  /\ \A s, l, r : LeafNode(s) # CombineNodes(l, r)
  /\ \A l, r, x, y : CombineNodes(l, r) = CombineNodes(x, y) => l = x /\ r = y
<1>1. ASSUME NEW s, NEW t, LeafNode(s) = LeafNode(t) PROVE s = t
  BY <1>1 DEF LeafNode
<1>2. ASSUME NEW s, NEW l, NEW r PROVE LeafNode(s) # CombineNodes(l, r)
  <2>1. LeafNode(s)[1] = "0x00" /\ CombineNodes(l, r)[1] = "0x01"
    BY DEF LeafNode, CombineNodes, LeafPrefix, InternalPrefix
  <2>2. QED
    BY <2>1
<1>3. ASSUME NEW l, NEW r, NEW x, NEW y, CombineNodes(l, r) = CombineNodes(x, y)
      PROVE  l = x /\ r = y
  BY <1>3 DEF CombineNodes
<1>4. QED
  BY <1>1, <1>2, <1>3

\* A step of a proof tells the nodes below it apart.
LEMMA ClimbInjective ==
  ASSUME NEW a, NEW b, NEW step, Climb(a, step) = Climb(b, step)
  PROVE  a = b
  BY NodeParts DEF Climb
-----------------------------------------------------------------------------
(* Inclusion proofs.                                                       *)

\* InclusionProof stays inside the levels and ends at the root.
LEMMA PositionsInside ==
  ASSUME NEW list, Len(list) \in Nat \ {0}, NEW idx \in 0..(Len(list) - 1)
  PROVE  LET levels == BuildLevels(list)
             pos    == Positions(levels, idx)
         IN  \A k \in 1..Len(levels) : pos[k] \in 0..(Size(levels[k]) - 1)
<1> DEFINE levels == BuildLevels(list)
           pos    == Positions(levels, idx)
           h      == Len(levels)
           P      == {k \in Nat : k + 1 <= h => pos[k + 1] \in 0..(Size(levels[k + 1]) - 1)}
<1>1. /\ h \in Nat /\ h >= 1
      /\ levels[1] = [i \in 1..Len(list) |-> LeafNode(list[i])]
      /\ \A k \in 2..h : levels[k] = Parents(levels[k - 1])
      /\ \A k \in 1..h : IsLevel(levels[k])
  BY LevelsBuilt
<1>2. /\ pos[1] = idx
      /\ \A k \in 2..h : pos[k] = pos[k - 1] \div 2
  BY <1>1, PositionsDef
<1>3. Size(levels[1]) = Len(list)
  BY <1>1 DEF Size
<1> HIDE DEF levels, pos, h
<1>4. 0 \in P
  BY <1>2, <1>3
<1>5. ASSUME NEW k \in P PROVE k + 1 \in P
  <2> SUFFICES ASSUME (k + 1) + 1 <= h
               PROVE  pos[(k + 1) + 1] \in 0..(Size(levels[(k + 1) + 1]) - 1)
    OBVIOUS
  <2>1. k + 1 \in 1..h /\ (k + 1) + 1 \in 2..h /\ ((k + 1) + 1) - 1 = k + 1
    BY <1>1
  <2>2. pos[k + 1] \in 0..(Size(levels[k + 1]) - 1) /\ IsLevel(levels[k + 1])
    BY <1>1, <2>1
  <2>3. /\ levels[(k + 1) + 1] = Parents(levels[k + 1])
        /\ pos[(k + 1) + 1] = pos[k + 1] \div 2
    BY <1>1, <1>2, <2>1
  <2>4. QED
    BY <2>2, <2>3, ClimbParent
<1>6. \A k \in Nat : k \in P
  <2> HIDE DEF P
  <2>1. P \in SUBSET Nat
    BY DEF P
  <2>2. QED
    BY <1>4, <1>5, <2>1, SetInduction
<1>7. ASSUME NEW k \in 1..h PROVE pos[k] \in 0..(Size(levels[k]) - 1)
  <2>1. k - 1 \in Nat /\ (k - 1) + 1 = k /\ k <= h
    BY <1>1
  <2>2. k - 1 \in P
    BY <1>6, <2>1
  <2>3. QED
    BY <2>1, <2>2
<1>8. QED
  BY <1>7 DEF levels, pos, h

\* The proof of leaf idx is accepted for that leaf, and for no other: the walk of the
\* leaf goes through its ancestors, and no two walks along the same proof meet.
THEOREM InclusionCorrect ==
  ASSUME NEW list, Len(list) \in Nat \ {0}, NEW idx \in 0..(Len(list) - 1), NEW s
  PROVE  VerifyInclusion(s, InclusionProof(list, idx), MerkleRoot(list))
           <=> s = list[idx + 1]
<1> DEFINE levels == BuildLevels(list)
           h      == Len(levels)
           pos    == Positions(levels, idx)
           p      == InclusionProof(list, idx)
           leaf   == list[idx + 1]
           node   == Walk(leaf, p)
           other  == Walk(s, p)
<1>1. /\ h \in Nat /\ h >= 1
      /\ levels[1] = [i \in 1..Len(list) |-> LeafNode(list[i])]
      /\ \A k \in 2..h : levels[k] = Parents(levels[k - 1])
      /\ \A k \in 1..h : IsLevel(levels[k])
      /\ Size(levels[h]) = 1
      /\ MerkleRoot(list) = levels[h][1]
  BY LevelsBuilt
<1>2. /\ pos[1] = idx
      /\ \A k \in 2..h : pos[k] = pos[k - 1] \div 2
  BY <1>1, PositionsDef
<1>3. \A k \in 1..h : pos[k] \in 0..(Size(levels[k]) - 1)
  BY PositionsInside
<1>4. p = [k \in 1..(h - 1) |-> Sibling(levels[k], pos[k])]
  BY DEF InclusionProof
<1>5. Len(p) = h - 1 /\ h - 1 \in Nat
  BY <1>1, <1>4
<1>6. /\ node[0] = LeafNode(leaf) /\ other[0] = LeafNode(s)
      /\ \A k \in 1..(h - 1) : /\ node[k] = Climb(node[k - 1], p[k])
                               /\ other[k] = Climb(other[k - 1], p[k])
  BY <1>5, WalkDef
<1>7. VerifyInclusion(s, p, MerkleRoot(list)) <=> other[h - 1] = levels[h][1]
  <2>1. \A k \in 1..(h - 1) : p[k][1] \in {"L", "R"}
    <3> SUFFICES ASSUME NEW k \in 1..(h - 1) PROVE p[k][1] \in {"L", "R"}
      OBVIOUS
    <3>1. k \in 1..h
      BY <1>1
    <3>2. p[k] = Sibling(levels[k], pos[k]) /\ IsLevel(levels[k])
          /\ pos[k] \in 0..(Size(levels[k]) - 1)
      BY <1>1, <1>3, <1>4, <3>1
    <3>3. QED
      BY <3>2, ClimbParent
  <2>2. QED
    BY <1>1, <1>5, <2>1 DEF VerifyInclusion
<1>8. levels[1][idx + 1] = LeafNode(leaf)
  BY <1>1
<1> HIDE DEF levels, h, pos, p, node, other, leaf
<1>9. \A k \in 0..(h - 1) : node[k] = levels[k + 1][pos[k + 1] + 1]
  <2> DEFINE P == {k \in Nat : k <= h - 1 => node[k] = levels[k + 1][pos[k + 1] + 1]}
  <2>1. 0 \in P
    BY <1>2, <1>6, <1>8
  <2>2. ASSUME NEW k \in P PROVE k + 1 \in P
    <3> SUFFICES ASSUME k + 1 <= h - 1
                 PROVE  node[k + 1] = levels[(k + 1) + 1][pos[(k + 1) + 1] + 1]
      OBVIOUS
    <3>1. /\ k + 1 \in 1..h /\ k + 1 \in 1..(h - 1) /\ (k + 1) + 1 \in 2..h
          /\ (k + 1) - 1 = k /\ ((k + 1) + 1) - 1 = k + 1
      <4>1. k \in Nat /\ k + 1 <= h - 1
        OBVIOUS
      <4> HIDE DEF P
      <4>2. QED
        BY <1>1, <4>1
    <3>2. node[k] = levels[k + 1][pos[k + 1] + 1]
      BY <1>1
    <3>3. node[k + 1] = Climb(node[k], p[k + 1]) /\ p[k + 1] = Sibling(levels[k + 1], pos[k + 1])
      BY <1>4, <1>6, <3>1
    <3>4. /\ levels[(k + 1) + 1] = Parents(levels[k + 1])
          /\ pos[(k + 1) + 1] = pos[k + 1] \div 2
          /\ IsLevel(levels[k + 1]) /\ pos[k + 1] \in 0..(Size(levels[k + 1]) - 1)
      BY <1>1, <1>2, <1>3, <3>1
    <3>5. QED
      BY <3>2, <3>3, <3>4, ClimbParent
  <2> HIDE DEF P
  <2>3. \A k \in Nat : k \in P
    <3>1. P \in SUBSET Nat
      BY DEF P
    <3>2. QED
      BY <2>1, <2>2, <3>1, SetInduction
  <2>4. QED
    BY <1>1, <2>3 DEF P
<1>10. node[h - 1] = levels[h][1]
  <2>1. pos[h] = 0
    BY <1>1, <1>3
  <2>2. h - 1 \in 0..(h - 1) /\ (h - 1) + 1 = h
    BY <1>1
  <2>3. QED
    BY <1>9, <2>1, <2>2
<1>11. ASSUME s = leaf PROVE other[h - 1] = levels[h][1]
  BY <1>10, <1>11 DEF other, node
<1>12. ASSUME other[h - 1] = levels[h][1] PROVE s = leaf
  <2> DEFINE P == {k \in Nat : k <= h - 1 => other[(h - 1) - k] = node[(h - 1) - k]}
  <2>1. 0 \in P
    BY <1>1, <1>10, <1>12
  <2>2. ASSUME NEW k \in P PROVE k + 1 \in P
    <3> SUFFICES ASSUME k + 1 <= h - 1
                 PROVE  other[(h - 1) - (k + 1)] = node[(h - 1) - (k + 1)]
      OBVIOUS
    <3> DEFINE j == (h - 1) - k
    <3>1. j \in 1..(h - 1) /\ (h - 1) - (k + 1) = j - 1
      BY <1>1
    <3>2. other[j] = node[j]
      BY <1>1
    <3> HIDE DEF j
    <3>3. Climb(other[j - 1], p[j]) = Climb(node[j - 1], p[j])
      BY <1>6, <3>1, <3>2
    <3>4. QED
      BY <3>1, <3>3, ClimbInjective
  <2> HIDE DEF P
  <2>3. \A k \in Nat : k \in P
    <3>1. P \in SUBSET Nat
      BY DEF P
    <3>2. QED
      BY <2>1, <2>2, <3>1, SetInduction
  <2>4. other[0] = node[0]
    <3>1. h - 1 \in P
      BY <1>5, <2>3
    <3>2. QED
      BY <1>5, <3>1 DEF P
  <2>5. QED
    BY <1>6, <2>4, NodeParts
<1>13. QED
  BY <1>7, <1>11, <1>12 DEF leaf, p
-----------------------------------------------------------------------------
(* What a root pins down.                                                  *)

\* Only a member of the list is accepted against its root, whatever path of whatever
\* length comes with it: from the root down, the walk has to go through the tree,
\* and only leaves of the list are at its bottom.
THEOREM OnlyMembersAccepted ==
  ASSUME NEW list, Len(list) \in Nat \ {0}, NEW s, NEW p, Len(p) \in Nat,
         VerifyInclusion(s, p, MerkleRoot(list))
  PROVE  \E i \in 1..Len(list) : list[i] = s
<1> DEFINE levels == BuildLevels(list)
           h      == Len(levels)
           m      == Len(p)
           node   == Walk(s, p)
           In(x, k) == \E i \in 1..Size(levels[k]) : x = levels[k][i]
           P      == {j \in Nat : j <= m /\ j <= h - 1 => In(node[m - j], h - j)}
<1>1. /\ h \in Nat /\ h >= 1
      /\ levels[1] = [i \in 1..Len(list) |-> LeafNode(list[i])]
      /\ \A k \in 2..h : levels[k] = Parents(levels[k - 1])
      /\ \A k \in 1..h : IsLevel(levels[k])
      /\ Size(levels[h]) = 1
      /\ MerkleRoot(list) = levels[h][1]
  BY LevelsBuilt
<1>2. /\ m \in Nat
      /\ node[0] = LeafNode(s)
      /\ \A k \in 1..m : node[k] = Climb(node[k - 1], p[k])
      /\ node[m] = levels[h][1]
  BY <1>1, WalkDef DEF VerifyInclusion
<1>3. Size(levels[1]) = Len(list)
  BY <1>1 DEF Size
<1> HIDE DEF levels, h, m, node
<1>4. \A k \in 1..m : \E l, r : node[k] = CombineNodes(l, r) /\ node[k - 1] \in {l, r}
  BY <1>2 DEF Climb
<1>5. ASSUME NEW k \in 2..h, NEW x, In(x, k)
      PROVE  \E l, r : x = CombineNodes(l, r) /\ In(l, k - 1) /\ In(r, k - 1)
  <2>1. k - 1 \in 1..h /\ k \in 1..h
    BY <1>1
  <2>2. IsLevel(levels[k - 1]) /\ levels[k] = Parents(levels[k - 1])
    BY <1>1, <2>1
  <2>3. PICK i \in 1..Size(Parents(levels[k - 1])) : x = Parents(levels[k - 1])[i]
    BY <1>5, <2>2
  <2>4. PICK j \in 1..Size(levels[k - 1]), n \in 1..Size(levels[k - 1]) :
             x = CombineNodes(levels[k - 1][j], levels[k - 1][n])
    BY <2>2, <2>3, ParentNode
  <2>5. QED
    BY <2>4
<1>6. \A x : In(x, 1) => \E i \in 1..Len(list) : x = LeafNode(list[i])
  BY <1>1, <1>3
<1>7. In(node[m], h)
  BY <1>1, <1>2
<1> HIDE DEF In
<1>8. 0 \in P
  BY <1>1, <1>2, <1>7
<1>9. ASSUME NEW j \in P PROVE j + 1 \in P
  <2> SUFFICES ASSUME j + 1 <= m, j + 1 <= h - 1
               PROVE  In(node[m - (j + 1)], h - (j + 1))
    OBVIOUS
  <2>1. j \in Nat /\ In(node[m - j], h - j)
    BY <1>1, <1>2
  <2> HIDE DEF P
  <2>2. /\ m - j \in 1..m /\ (m - j) - 1 = m - (j + 1)
        /\ h - j \in 2..h /\ (h - j) - 1 = h - (j + 1)
    BY <1>1, <1>2, <2>1
  <2>3. PICK l, r : node[m - j] = CombineNodes(l, r) /\ node[m - (j + 1)] \in {l, r}
    BY <1>4, <2>2
  <2>4. PICK x, y : node[m - j] = CombineNodes(x, y) /\ In(x, h - (j + 1)) /\ In(y, h - (j + 1))
    BY <1>5, <2>1, <2>2
  <2>5. l = x /\ r = y
    <3>1. CombineNodes(l, r) = CombineNodes(x, y)
      BY <2>3, <2>4
    <3>2. QED
      BY <3>1, NodeParts
  <2>6. QED
    BY <2>3, <2>4, <2>5
<1>10. \A j \in Nat : j <= m /\ j <= h - 1 => In(node[m - j], h - j)
  <2> HIDE DEF P
  <2>1. P \in SUBSET Nat
    BY DEF P
  <2>2. \A j \in Nat : j \in P
    BY <1>8, <1>9, <2>1, SetInduction
  <2>3. QED
    BY <2>2 DEF P
<1>11. CASE m < h - 1
  <2>1. m - m = 0 /\ h - m \in 2..h /\ In(node[m - m], h - m)
    BY <1>1, <1>2, <1>10, <1>11
  <2>2. \E l, r : LeafNode(s) = CombineNodes(l, r)
    BY <1>2, <1>5, <2>1
  <2>3. QED
    BY <2>2, NodeParts
<1>12. CASE m > h - 1
  <2> DEFINE k == m - (h - 1)
  <2>1. h - 1 \in Nat /\ h - 1 <= m /\ h - (h - 1) = 1 /\ k \in 1..m
    BY <1>1, <1>2, <1>12
  <2>2. In(node[k], 1)
    BY <1>10, <2>1
  <2> HIDE DEF k
  <2>3. QED
    BY <1>4, <1>6, <2>1, <2>2, NodeParts
<1>13. CASE m = h - 1
  <2>1. In(node[0], 1)
    <3>1. m - m = 0 /\ h - m = 1 /\ m <= h - 1
      BY <1>1, <1>2, <1>13
    <3>2. QED
      BY <1>2, <1>10, <3>1
  <2>2. QED
    BY <1>2, <1>6, <2>1, NodeParts
<1>14. QED
  BY <1>1, <1>2, <1>11, <1>12, <1>13
\* Different levels of different nodes have different parents: a level that is one node
\* shorter repeats its last node, which the longer one does not.
LEMMA ParentsInjective ==
  ASSUME NEW x, NEW y, IsLevel(x), IsLevel(y), IsInjective(x), IsInjective(y),
         Parents(x) = Parents(y)
  PROVE  x = y
<1> DEFINE n == Size(x)
           m == Size(y)
           c == (n + 1) \div 2
<1>1. /\ n \in Nat /\ n >= 1 /\ m \in Nat /\ m >= 1 /\ DOMAIN x = 1..n /\ DOMAIN y = 1..m
      /\ c = (m + 1) \div 2 /\ c = Size(Parents(x)) /\ c = Size(Parents(y))
  BY ParentsShape DEF IsLevel
<1>2. x = [i \in 1..n |-> x[i]] /\ y = [i \in 1..m |-> y[i]]
  BY DEF IsLevel
<1> HIDE DEF n, m
<1>3. ASSUME NEW i \in 1..c
      PROVE  /\ x[2 * i - 1] = y[2 * i - 1]
             /\ x[IF 2 * i <= n THEN 2 * i ELSE 2 * i - 1] = y[IF 2 * i <= m THEN 2 * i ELSE 2 * i - 1]
  <2>1. Parents(x)[i] = CombineNodes(x[2 * i - 1], x[IF 2 * i <= n THEN 2 * i ELSE 2 * i - 1])
    BY <1>1, ParentNode DEF n
  <2>2. Parents(y)[i] = CombineNodes(y[2 * i - 1], y[IF 2 * i <= m THEN 2 * i ELSE 2 * i - 1])
    BY <1>1, ParentNode DEF m
  <2>3. CombineNodes(x[2 * i - 1], x[IF 2 * i <= n THEN 2 * i ELSE 2 * i - 1])
          = CombineNodes(y[2 * i - 1], y[IF 2 * i <= m THEN 2 * i ELSE 2 * i - 1])
    BY <2>1, <2>2
  <2>4. QED
    BY <2>3, NodeParts
<1>4. c \in Nat /\ c \in 1..c /\ (n = 2 * c \/ n = 2 * c - 1) /\ (m = 2 * c \/ m = 2 * c - 1)
  BY <1>1
<1> HIDE DEF c
<1>5. n = m
  <2>1. CASE n = 2 * c - 1 /\ m = 2 * c
    <3>1. x[2 * c - 1] = y[2 * c - 1] /\ x[2 * c - 1] = y[2 * c]
      BY <1>3, <1>4, <2>1
    <3>2. 2 * c - 1 \in 1..(2 * c) /\ 2 * c \in 1..(2 * c) /\ 2 * c - 1 # 2 * c
      <4>1. c \in Nat /\ c >= 1
        BY <1>4
      <4>2. QED
        BY <4>1
    <3>3. DOMAIN y = 1..(2 * c)
      BY <1>1, <2>1
    <3>4. QED
      BY <3>1, <3>2, <3>3 DEF IsInjective
  <2>2. CASE n = 2 * c /\ m = 2 * c - 1
    <3>1. y[2 * c - 1] = x[2 * c - 1] /\ y[2 * c - 1] = x[2 * c]
      BY <1>3, <1>4, <2>2
    <3>2. 2 * c - 1 \in 1..(2 * c) /\ 2 * c \in 1..(2 * c) /\ 2 * c - 1 # 2 * c
      <4>1. c \in Nat /\ c >= 1
        BY <1>4
      <4>2. QED
        BY <4>1
    <3>3. DOMAIN x = 1..(2 * c)
      BY <1>1, <2>2
    <3>4. QED
      BY <3>1, <3>2, <3>3 DEF IsInjective
  <2>3. QED
    BY <1>4, <2>1, <2>2
<1>6. ASSUME NEW j \in 1..n PROVE x[j] = y[j]
  <2>1. \E i \in 1..c : j = 2 * i - 1 \/ j = 2 * i
    <3>1. (j + 1) \div 2 \in 1..c
      BY <1>1, <1>4
    <3>2. j = 2 * ((j + 1) \div 2) - 1 \/ j = 2 * ((j + 1) \div 2)
      OBVIOUS
    <3>3. QED
      BY <3>1, <3>2
  <2>2. PICK i \in 1..c : j = 2 * i - 1 \/ j = 2 * i
    BY <2>1
  <2>3. CASE j = 2 * i - 1
    BY <1>3, <2>3
  <2>4. CASE j = 2 * i
    <3>1. 2 * i <= n /\ 2 * i <= m
      BY <1>5, <2>4
    <3>2. QED
      BY <1>3, <2>4, <3>1
  <2>5. QED
    BY <2>2, <2>3, <2>4
<1>7. QED
  BY <1>2, <1>5, <1>6

\* The levels over a list without repetition are without repetition.
LEMMA LevelsInjective ==
  ASSUME NEW list, Len(list) \in Nat \ {0}, DOMAIN list = 1..Len(list), IsInjective(list)
  PROVE  \A k \in 1..Len(BuildLevels(list)) : IsInjective(BuildLevels(list)[k])
<1> DEFINE levels == BuildLevels(list)
           h      == Len(levels)
           P      == {k \in Nat : k + 1 <= h => IsInjective(levels[k + 1])}
<1>1. /\ h \in Nat /\ h >= 1
      /\ levels[1] = [i \in 1..Len(list) |-> LeafNode(list[i])]
      /\ \A k \in 2..h : levels[k] = Parents(levels[k - 1])
      /\ \A k \in 1..h : IsLevel(levels[k])
  BY LevelsBuilt
<1> HIDE DEF levels, h
<1>2. 0 \in P
  <2>1. ASSUME NEW i \in 1..Len(list), NEW j \in 1..Len(list), levels[1][i] = levels[1][j]
        PROVE  i = j
    <3>1. LeafNode(list[i]) = LeafNode(list[j])
      BY <1>1, <2>1
    <3>2. list[i] = list[j]
      BY <3>1, NodeParts
    <3>3. QED
      BY <3>2 DEF IsInjective
  <2>2. IsInjective(levels[1])
    BY <1>1, <2>1 DEF IsInjective
  <2>3. QED
    BY <2>2
<1>3. ASSUME NEW k \in P PROVE k + 1 \in P
  <2> SUFFICES ASSUME (k + 1) + 1 <= h PROVE IsInjective(levels[(k + 1) + 1])
    OBVIOUS
  <2> DEFINE nodes == levels[k + 1]
  <2>1. k \in Nat /\ IsInjective(nodes)
    BY <1>1
  <2> HIDE DEF P
  <2>2. k + 1 \in 1..h /\ (k + 1) + 1 \in 2..h /\ ((k + 1) + 1) - 1 = k + 1
    BY <1>1, <2>1
  <2>3. levels[(k + 1) + 1] = Parents(nodes) /\ IsLevel(nodes)
    BY <1>1, <2>2
  <2> HIDE DEF nodes
  <2>4. /\ DOMAIN Parents(nodes) = 1..Size(Parents(nodes))
        /\ Size(Parents(nodes)) \in Nat /\ DOMAIN nodes = 1..Size(nodes)
    BY <2>3, ParentsShape DEF IsLevel
  <2>5. ASSUME NEW i \in DOMAIN Parents(nodes), NEW j \in DOMAIN Parents(nodes),
               Parents(nodes)[i] = Parents(nodes)[j]
        PROVE  i = j
    <3>1. PICK a \in 1..Size(nodes), b \in 1..Size(nodes) :
               Parents(nodes)[i] = CombineNodes(nodes[a], nodes[b]) /\ a = 2 * i - 1
      BY <2>3, <2>4, ParentNode
    <3>2. PICK c \in 1..Size(nodes), d \in 1..Size(nodes) :
               Parents(nodes)[j] = CombineNodes(nodes[c], nodes[d]) /\ c = 2 * j - 1
      BY <2>3, <2>4, ParentNode
    <3>3. CombineNodes(nodes[a], nodes[b]) = CombineNodes(nodes[c], nodes[d])
      BY <2>5, <3>1, <3>2
    <3>4. a = c
      BY <2>1, <2>4, <3>3, NodeParts DEF IsInjective
    <3>5. i \in Nat /\ j \in Nat
      BY <2>4
    <3>6. QED
      BY <3>1, <3>2, <3>4, <3>5
  <2>6. QED
    BY <2>3, <2>5 DEF IsInjective
<1>4. \A k \in Nat : k \in P
  <2> HIDE DEF P
  <2>1. P \in SUBSET Nat
    BY DEF P
  <2>2. QED
    BY <1>2, <1>3, <2>1, SetInduction
<1>5. ASSUME NEW k \in 1..h PROVE IsInjective(levels[k])
  <2>1. k - 1 \in Nat /\ (k - 1) + 1 = k /\ k <= h
    BY <1>1
  <2>2. k - 1 \in P
    BY <1>4, <2>1
  <2>3. QED
    BY <2>1, <2>2
<1>6. QED
  BY <1>5 DEF levels, h

\* The levels of the tree over a list without repetition, leaves first.
LEMMA TreeOf ==
  ASSUME NEW x, IsLevel(x), IsInjective(x)
  PROVE  LET A == BuildLevels(x)
             h == Len(A)
         IN  /\ h \in Nat /\ h >= 1 /\ MerkleRoot(x) = A[h][1]
             /\ A[1] = [i \in 1..Len(x) |-> LeafNode(x[i])]
             /\ \A k \in 2..h : A[k] = Parents(A[k - 1])
             /\ \A k \in 1..h : IsLevel(A[k]) /\ IsInjective(A[k])
             /\ Size(A[h]) = 1
<1> DEFINE A == BuildLevels(x)
           h == Len(A)
<1>1. Len(x) \in Nat \ {0} /\ DOMAIN x = 1..Len(x)
  BY DEF IsLevel, Size
<1>2. /\ h \in Nat \ {0} /\ MerkleRoot(x) = A[h][1]
      /\ A[1] = [i \in 1..Len(x) |-> LeafNode(x[i])]
      /\ \A k \in 2..h : A[k] = Parents(A[k - 1])
      /\ \A k \in 1..h : IsLevel(A[k]) /\ (Size(A[k]) = 1 <=> k = h)
  BY <1>1, LevelsBuilt
<1>3. \A k \in 1..h : IsInjective(A[k])
  BY <1>1, LevelsInjective
<1> HIDE DEF A, h
<1>4. h >= 1 /\ h \in 1..h
  BY <1>2
<1>5. QED
  BY <1>2, <1>3, <1>4 DEF A, h

\* Of two lists without repetition, trees with the same root agree level by level,
\* seen from the root, as far down as both reach.
LEMMA LevelsAgree ==
  ASSUME NEW x, NEW y, IsLevel(x), IsLevel(y), IsInjective(x), IsInjective(y),
         MerkleRoot(x) = MerkleRoot(y)
  PROVE  LET h == Len(BuildLevels(x))
             g == Len(BuildLevels(y))
         IN  \A j \in Nat : j < h /\ j < g => BuildLevels(x)[h - j] = BuildLevels(y)[g - j]
<1> DEFINE A == BuildLevels(x)
           B == BuildLevels(y)
           h == Len(A)
           g == Len(B)
           P == {j \in Nat : j < h /\ j < g => A[h - j] = B[g - j]}
<1>1. /\ h \in Nat /\ h >= 1 /\ MerkleRoot(x) = A[h][1]
      /\ \A k \in 2..h : A[k] = Parents(A[k - 1])
      /\ \A k \in 1..h : IsLevel(A[k]) /\ IsInjective(A[k])
      /\ Size(A[h]) = 1
  BY TreeOf
<1>2. /\ g \in Nat /\ g >= 1 /\ MerkleRoot(y) = B[g][1]
      /\ \A k \in 2..g : B[k] = Parents(B[k - 1])
      /\ \A k \in 1..g : IsLevel(B[k]) /\ IsInjective(B[k])
      /\ Size(B[g]) = 1
  BY TreeOf
<1> HIDE DEF A, B, h, g
<1>3. 0 \in P
  <2>1. A[h] = [i \in 1..1 |-> A[h][i]] /\ B[g] = [i \in 1..1 |-> B[g][i]]
    <3>1. h \in 1..h /\ g \in 1..g
      BY <1>1, <1>2
    <3>2. IsLevel(A[h]) /\ IsLevel(B[g])
      BY <1>1, <1>2, <3>1
    <3>3. QED
      BY <1>1, <1>2, <3>2 DEF IsLevel
  <2>2. A[h][1] = B[g][1]
    BY <1>1, <1>2
  <2>3. A[h] = B[g]
    BY <2>1, <2>2
  <2>4. h - 0 = h /\ g - 0 = g
    BY <1>1, <1>2
  <2>5. QED
    BY <2>3, <2>4
<1>4. ASSUME NEW j \in P PROVE j + 1 \in P
  <2> SUFFICES ASSUME j + 1 < h, j + 1 < g PROVE A[h - (j + 1)] = B[g - (j + 1)]
    OBVIOUS
  <2>1. j \in Nat /\ A[h - j] = B[g - j]
    BY <1>1, <1>2
  <2> HIDE DEF P
  <2>2. /\ h - j \in 2..h /\ h - (j + 1) = (h - j) - 1 /\ h - (j + 1) \in 1..h
        /\ g - j \in 2..g /\ g - (j + 1) = (g - j) - 1 /\ g - (j + 1) \in 1..g
    BY <1>1, <1>2, <2>1
  <2>3. Parents(A[h - (j + 1)]) = Parents(B[g - (j + 1)])
    <3>1. A[h - j] = Parents(A[h - (j + 1)])
      BY <1>1, <2>2
    <3>2. B[g - j] = Parents(B[g - (j + 1)])
      BY <1>2, <2>2
    <3>3. QED
      BY <2>1, <3>1, <3>2
  <2>4. /\ IsLevel(A[h - (j + 1)]) /\ IsInjective(A[h - (j + 1)])
        /\ IsLevel(B[g - (j + 1)]) /\ IsInjective(B[g - (j + 1)])
    BY <1>1, <1>2, <2>2
  <2>5. QED
    BY <2>3, <2>4, ParentsInjective
<1>5. \A j \in Nat : j \in P
  <2> HIDE DEF P
  <2>1. P \in SUBSET Nat
    BY DEF P
  <2>2. QED
    BY <1>3, <1>4, <2>1, SetInduction
<1>6. \A j \in Nat : j < h /\ j < g => A[h - j] = B[g - j]
  BY <1>5
<1>7. QED
  BY <1>6 DEF A, B, h, g

\* Neither tree is higher than the other: its leaves would face inner nodes.
LEMMA NotHigher ==
  ASSUME NEW x, NEW y, IsLevel(x), IsLevel(y), IsInjective(x), IsInjective(y),
         MerkleRoot(x) = MerkleRoot(y)
  PROVE  ~(Len(BuildLevels(x)) < Len(BuildLevels(y)))
<1> DEFINE A == BuildLevels(x)
           B == BuildLevels(y)
           h == Len(A)
           g == Len(B)
<1>1. /\ h \in Nat /\ h >= 1 /\ 1 \in 1..Len(x)
      /\ A[1] = [i \in 1..Len(x) |-> LeafNode(x[i])]
  <2>1. 1 \in 1..Len(x)
    BY DEF IsLevel, Size
  <2>2. QED
    BY <2>1, TreeOf
<1>2. /\ g \in Nat /\ g >= 1
      /\ \A k \in 2..g : B[k] = Parents(B[k - 1])
      /\ \A k \in 1..g : IsLevel(B[k])
  BY TreeOf
<1>3. \A j \in Nat : j < h /\ j < g => A[h - j] = B[g - j]
  BY LevelsAgree
<1> HIDE DEF A, B, h, g
<1> SUFFICES ASSUME h < g PROVE FALSE
  BY DEF A, B, h, g
<1> DEFINE k == g - (h - 1)
<1>4. h - 1 \in Nat /\ h - 1 < h /\ h - 1 < g /\ h - (h - 1) = 1 /\ k \in 2..g /\ k - 1 \in 1..g
  BY <1>1, <1>2
<1> HIDE DEF k
<1>5. A[1] = B[k]
  BY <1>3, <1>4 DEF k
<1>6. B[k] = Parents(B[k - 1]) /\ IsLevel(B[k - 1])
  BY <1>2, <1>4
<1>7. 1 \in 1..Size(Parents(B[k - 1]))
  BY <1>6, ParentsShape DEF IsLevel
<1>8. \E l, r : Parents(B[k - 1])[1] = CombineNodes(l, r)
  BY <1>6, <1>7, ParentNode
<1>9. A[1][1] = LeafNode(x[1])
  BY <1>1
<1>10. QED
  BY <1>5, <1>6, <1>8, <1>9, NodeParts

\* The Merkle root of a list without repetition determines the list, its length
\* included.
THEOREM RootDetermines ==
  ASSUME NEW x, NEW y, IsLevel(x), IsLevel(y), IsInjective(x), IsInjective(y),
         MerkleRoot(x) = MerkleRoot(y)
  PROVE  x = y
<1> DEFINE A == BuildLevels(x)
           B == BuildLevels(y)
           h == Len(A)
           g == Len(B)
           n == Len(x)
           m == Len(y)
<1>1. /\ h \in Nat /\ h >= 1 /\ n \in Nat /\ n >= 1
      /\ A[1] = [i \in 1..n |-> LeafNode(x[i])]
      /\ x = [i \in 1..n |-> x[i]]
  <2>1. n \in Nat /\ n >= 1 /\ x = [i \in 1..n |-> x[i]]
    BY DEF IsLevel, Size
  <2>2. QED
    BY <2>1, TreeOf
<1>2. /\ g \in Nat /\ g >= 1 /\ m \in Nat /\ m >= 1
      /\ B[1] = [i \in 1..m |-> LeafNode(y[i])]
      /\ y = [i \in 1..m |-> y[i]]
  <2>1. m \in Nat /\ m >= 1 /\ y = [i \in 1..m |-> y[i]]
    BY DEF IsLevel, Size
  <2>2. QED
    BY <2>1, TreeOf
<1>3. \A j \in Nat : j < h /\ j < g => A[h - j] = B[g - j]
  BY LevelsAgree
<1>4. ~(h < g) /\ ~(g < h)
  BY NotHigher
<1> HIDE DEF A, B, h, g, n, m
<1>5. A[1] = B[1]
  <2>1. h = g /\ h - 1 \in Nat /\ h - 1 < h /\ h - (h - 1) = 1 /\ g - (h - 1) = 1
    BY <1>1, <1>2, <1>4
  <2>2. QED
    BY <1>3, <2>1
<1>6. n = m
  <2>1. DOMAIN A[1] = 1..n /\ DOMAIN B[1] = 1..m
    BY <1>1, <1>2
  <2>2. 1..n = 1..m
    BY <1>5, <2>1
  <2>3. n \in 1..m /\ m \in 1..n
    BY <1>1, <1>2, <2>2
  <2>4. QED
    BY <1>1, <1>2, <2>3
<1>7. ASSUME NEW i \in 1..n PROVE x[i] = y[i]
  <2>1. LeafNode(x[i]) = LeafNode(y[i])
    <3>1. A[1][i] = LeafNode(x[i])
      BY <1>1
    <3>2. B[1][i] = LeafNode(y[i])
      BY <1>2, <1>6
    <3>3. QED
      BY <1>5, <3>1, <3>2
  <2>2. QED
    BY <2>1, NodeParts
<1>8. QED
  BY <1>1, <1>2, <1>6, <1>7

-----------------------------------------------------------------------------
(* The reference.                                                          *)

\* The room of a subtree doubles with its height.
LEMMA WidthsDef ==
  ASSUME NEW n \in Nat
  PROVE  LET width == Widths(n)
         IN  /\ width[0] = 1
             /\ \A h \in 1..n : width[h] = 2 * width[h - 1]
<1> DEFINE Upto(m, f) == f = [k \in 0..m |-> IF k = 0 THEN 1 ELSE 2 * f[k - 1]]
           P == {m \in Nat : \E f : Upto(m, f)}
<1> HIDE DEF Upto, P
<1>1. 0 \in P
  <2>1. Upto(0, [k \in 0..0 |-> 1])
    BY DEF Upto
  <2>2. QED
    BY <2>1 DEF P
<1>2. ASSUME NEW m \in P PROVE m + 1 \in P
  <2>1. m \in Nat /\ \E f : Upto(m, f)
    BY DEF P
  <2>2. PICK f : f = [k \in 0..m |-> IF k = 0 THEN 1 ELSE 2 * f[k - 1]]
    BY <2>1 DEF Upto
  <2> DEFINE g == [k \in 0..(m + 1) |-> IF k # m + 1 THEN f[k] ELSE 2 * f[m]]
  <2>3. g = [k \in 0..(m + 1) |-> IF k = 0 THEN 1 ELSE 2 * g[k - 1]]
    <3>1. ASSUME NEW k \in 0..(m + 1)
          PROVE  g[k] = IF k = 0 THEN 1 ELSE 2 * g[k - 1]
      <4>1. CASE k = m + 1
        <5>1. g[k] = 2 * f[m] /\ k # 0 /\ g[k - 1] = f[m]
          BY <2>1, <4>1
        <5>2. QED
          BY <5>1
      <4>2. CASE k # m + 1
        <5>1. k \in 0..m /\ g[k] = f[k] /\ (k # 0 => g[k - 1] = f[k - 1])
          BY <2>1, <4>2
        <5>2. QED
          BY <2>2, <5>1
      <4>3. QED
        BY <4>1, <4>2
    <3>2. QED
      BY <3>1
  <2> HIDE DEF g
  <2>4. m + 1 \in Nat /\ Upto(m + 1, g)
    BY <2>1, <2>3 DEF Upto
  <2>5. QED
    BY <2>4 DEF P
<1>3. \E f : Upto(n, f)
  <2>1. \A m \in Nat : m \in P
    BY <1>1, <1>2, SetInduction DEF P
  <2>2. QED
    BY <2>1 DEF P
<1>4. Upto(n, Widths(n))
  BY <1>3, Zenon DEF Widths, Upto
<1>5. QED
  BY <1>4 DEF Upto

\* Widths are numbers, and grow with the height.
LEMMA WidthsGrow ==
  ASSUME NEW n \in Nat
  PROVE  /\ \A h \in 0..n : Widths(n)[h] \in Nat \ {0}
         /\ \A h \in 0..n, l \in 0..n : l <= h => Widths(n)[l] <= Widths(n)[h]
<1> DEFINE width == Widths(n)
           P == {h \in Nat : h <= n => /\ width[h] \in Nat \ {0}
                                      /\ \A l \in 0..h : /\ width[l] \in Nat
                                                          /\ width[l] <= width[h]}
<1>1. width[0] = 1 /\ \A h \in 1..n : width[h] = 2 * width[h - 1]
  BY WidthsDef
<1> HIDE DEF width
<1>2. 0 \in P
  BY <1>1
<1>3. ASSUME NEW h \in P PROVE h + 1 \in P
  <2> SUFFICES ASSUME h + 1 <= n
               PROVE  /\ width[h + 1] \in Nat \ {0}
                      /\ \A l \in 0..(h + 1) : width[l] \in Nat /\ width[l] <= width[h + 1]
    OBVIOUS
  <2>1. h \in Nat /\ h + 1 \in 1..n /\ (h + 1) - 1 = h
    OBVIOUS
  <2>2. width[h] \in Nat \ {0} /\ \A l \in 0..h : width[l] \in Nat /\ width[l] <= width[h]
    OBVIOUS
  <2>3. width[h + 1] = 2 * width[h]
    BY <1>1, <2>1
  <2> HIDE DEF P
  <2>4. ASSUME NEW l \in 0..(h + 1) PROVE width[l] \in Nat /\ width[l] <= width[h + 1]
    <3>1. CASE l = h + 1
      BY <2>2, <2>3, <3>1
    <3>2. CASE l # h + 1
      <4>1. l \in 0..h
        BY <2>1, <3>2
      <4>2. QED
        BY <2>2, <2>3, <4>1
    <3>3. QED
      BY <3>1, <3>2
  <2>5. QED
    BY <2>2, <2>3, <2>4
<1>4. \A h \in Nat : h \in P
  <2> HIDE DEF P
  <2>1. P \in SUBSET Nat
    BY DEF P
  <2>2. QED
    BY <1>2, <1>3, <2>1, SetInduction
<1>5. QED
  BY <1>4 DEF width

\* The subtrees of the reference.
LEMMA SubtreesDef ==
  ASSUME NEW list, Len(list) \in Nat, Height(Len(list)) \in Nat
  PROVE  LET subtree == Subtrees(list)
             n       == Len(list)
         IN  /\ subtree[0] = [lo \in 1..n |-> LeafNode(list[lo])]
             /\ \A h \in 1..Height(n) : \A lo \in 1..n :
                  LET mid == lo + Widths(n)[h - 1]
                  IN  subtree[h][lo]
                        = CombineNodes(subtree[h - 1][lo],
                                       subtree[h - 1][IF mid <= n THEN mid ELSE lo])
<1> DEFINE n == Len(list)
           base == [lo \in 1..n |-> LeafNode(list[lo])]
           Above(w, s) == [lo \in 1..n |->
               LET mid == lo + w
               IN  CombineNodes(s[lo], s[IF mid <= n THEN mid ELSE lo])]
           Upto(m, f) == f = [h \in 0..m |-> IF h = 0 THEN base
                                             ELSE Above(Widths(n)[h - 1], f[h - 1])]
           P == {m \in Nat : \E f : Upto(m, f)}
<1> HIDE DEF base, Above, Upto, P
<1>1. 0 \in P
  <2>1. Upto(0, [h \in 0..0 |-> base])
    BY DEF Upto
  <2>2. QED
    BY <2>1 DEF P
<1>2. ASSUME NEW m \in P PROVE m + 1 \in P
  <2>1. m \in Nat /\ \E f : Upto(m, f)
    BY DEF P
  <2>2. PICK f : f = [h \in 0..m |-> IF h = 0 THEN base ELSE Above(Widths(n)[h - 1], f[h - 1])]
    BY <2>1 DEF Upto
  <2> DEFINE g == [h \in 0..(m + 1) |-> IF h # m + 1 THEN f[h] ELSE Above(Widths(n)[m], f[m])]
  <2>3. g = [h \in 0..(m + 1) |-> IF h = 0 THEN base ELSE Above(Widths(n)[h - 1], g[h - 1])]
    <3>1. ASSUME NEW h \in 0..(m + 1)
          PROVE  g[h] = IF h = 0 THEN base ELSE Above(Widths(n)[h - 1], g[h - 1])
      <4>1. CASE h = m + 1
        <5>1. g[h] = Above(Widths(n)[m], f[m]) /\ h # 0 /\ g[h - 1] = f[m] /\ h - 1 = m
          BY <2>1, <4>1
        <5>2. QED
          BY <5>1
      <4>2. CASE h # m + 1
        <5>1. h \in 0..m /\ g[h] = f[h] /\ (h # 0 => g[h - 1] = f[h - 1])
          BY <2>1, <4>2
        <5>2. QED
          BY <2>2, <5>1
      <4>3. QED
        BY <4>1, <4>2
    <3>2. QED
      BY <3>1
  <2> HIDE DEF g
  <2>4. m + 1 \in Nat /\ Upto(m + 1, g)
    BY <2>1, <2>3 DEF Upto
  <2>5. QED
    BY <2>4 DEF P
<1>3. \E f : Upto(Height(n), f)
  <2>1. \A m \in Nat : m \in P
    BY <1>1, <1>2, SetInduction DEF P
  <2>2. QED
    BY <2>1 DEF P
<1>4. Upto(Height(n), Subtrees(list))
  BY <1>3, Zenon DEF Subtrees, base, Above, Upto
<1>5. ASSUME NEW h \in 0..Height(n)
      PROVE  Subtrees(list)[h] = IF h = 0 THEN base
                                 ELSE Above(Widths(n)[h - 1], Subtrees(list)[h - 1])
  BY <1>4 DEF Upto
<1>6. 0 \in 0..Height(n) /\ \A h \in 1..Height(n) : h \in 0..Height(n) /\ h # 0
  OBVIOUS
<1>7. Subtrees(list)[0] = base
  BY <1>5, <1>6
<1>8. \A h \in 1..Height(n) :
        Subtrees(list)[h] = Above(Widths(n)[h - 1], Subtrees(list)[h - 1])
  BY <1>5, <1>6
<1>9. QED
  BY <1>7, <1>8 DEF base, Above

\* A level of s nodes of width w over n leaves: the last node is the first with no leaf
\* after it.  The level above has the same of nodes twice as wide.
Covers(s, w, n) == (s - 1) * w < n /\ n <= s * w

LEMMA CoversAbove ==
  ASSUME NEW s \in Nat \ {0}, NEW w \in Nat \ {0}, NEW n \in Nat, Covers(s, w, n)
  PROVE  Covers((s + 1) \div 2, 2 * w, n)
<1> DEFINE t == (s + 1) \div 2
<1>1. t \in Nat /\ t >= 1 /\ (s = 2 * t \/ s = 2 * t - 1)
  OBVIOUS
<1> HIDE DEF t
<1> DEFINE p == t * w
<1>2. /\ p \in Nat
      /\ (t - 1) * (2 * w) = 2 * p - 2 * w /\ t * (2 * w) = 2 * p
      /\ (2 * t - 1) * w = 2 * p - w /\ (2 * t) * w = 2 * p
      /\ ((2 * t - 1) - 1) * w = 2 * p - 2 * w
  BY <1>1
<1> HIDE DEF p
<1>3. CASE s = 2 * t
  BY <1>1, <1>2, <1>3 DEF Covers, t
<1>4. CASE s = 2 * t - 1
  BY <1>1, <1>2, <1>4 DEF Covers, t
<1>5. QED
  BY <1>1, <1>3, <1>4

\* The right child of node i exists in a level of s nodes when a leaf reaches it.
LEMMA RightReached ==
  ASSUME NEW s \in Nat \ {0}, NEW w \in Nat \ {0}, NEW n \in Nat, Covers(s, w, n),
         NEW i \in 1..((s + 1) \div 2)
  PROVE  /\ 2 * i <= s <=> ((2 * i - 1) - 1) * w + 1 + w <= n
         /\ (i - 1) * (2 * w) + 1 = ((2 * i - 1) - 1) * w + 1
         /\ (2 * i - 1) * w + 1 = ((2 * i - 1) - 1) * w + 1 + w
<1>1. i \in Nat /\ i >= 1 /\ 2 * i - 1 <= s
  OBVIOUS
<1> DEFINE p == i * w
<1>2. /\ p \in Nat
      /\ (i - 1) * (2 * w) = 2 * p - 2 * w
      /\ ((2 * i - 1) - 1) * w = 2 * p - 2 * w
      /\ (2 * i - 1) * w = 2 * p - w
  BY <1>1
<1>3. ASSUME 2 * i <= s PROVE (2 * i - 1) * w <= (s - 1) * w
  BY <1>1, <1>3
<1>4. ASSUME ~(2 * i <= s) PROVE s * w = (2 * i - 1) * w
  <2>1. s = 2 * i - 1
    BY <1>1, <1>4
  <2>2. QED
    BY <2>1
<1>5. (s - 1) * w \in Int /\ s * w \in Int
  OBVIOUS
<1> HIDE DEF p
<1>6. QED
  BY <1>2, <1>3, <1>4, <1>5 DEF Covers

\* The height of the reference is the number of rounds of buildLevels: a level has one
\* node as soon as that is wide enough for all leaves, and not before.
LEMMA HeightIs ==
  ASSUME NEW n \in Nat, NEW h \in 0..n, n <= Widths(n)[h], h = 0 \/ Widths(n)[h - 1] < n
  PROVE  Height(n) = h
<1> DEFINE width == Widths(n)
           Fits(k) == n <= width[k] /\ (k = 0 \/ width[k - 1] < n)
<1>1. \A k \in 0..n : width[k] \in Nat
  BY WidthsGrow
<1>2. \A k \in 0..n, l \in 0..n : l <= k => width[l] <= width[k]
  BY WidthsGrow
<1> HIDE DEF width
<1>3. ASSUME NEW k \in 0..n, NEW l \in 0..n, Fits(k), Fits(l) PROVE ~(k < l)
  <2> SUFFICES ASSUME k < l PROVE FALSE
    OBVIOUS
  <2>1. l - 1 \in 0..n /\ k <= l - 1 /\ l # 0
    OBVIOUS
  <2>2. width[k] <= width[l - 1] /\ width[k] \in Nat /\ width[l - 1] \in Nat
    BY <1>1, <1>2, <2>1
  <2>3. QED
    BY <1>3, <2>1, <2>2
<1>4. Fits(h)
  BY DEF width
<1>5. Height(n) = CHOOSE k \in 0..n : Fits(k)
  BY DEF Height, width
<1> HIDE DEF Fits
<1>6. Height(n) \in 0..n /\ Fits(Height(n))
  BY <1>4, <1>5
<1>7. ~(h < Height(n)) /\ ~(Height(n) < h)
  BY <1>3, <1>4, <1>6
<1>8. QED
  BY <1>6, <1>7

\* The levels of buildLevels cover the leaves without gaps, each node as many as its
\* height has room for.
LEMMA LevelsCover ==
  ASSUME NEW list, Len(list) \in Nat \ {0}
  PROVE  LET levels == BuildLevels(list)
             n      == Len(list)
         IN  \A k \in 1..Len(levels) : Covers(Size(levels[k]), Widths(n)[k - 1], n)
<1> DEFINE levels == BuildLevels(list)
           n      == Len(list)
           m      == Len(levels)
           width  == Widths(n)
           P      == {h \in Nat : h < m => Covers(Size(levels[h + 1]), width[h], n)}
<1>1. /\ m \in Nat \ {0} /\ m <= n + 1
      /\ levels[1] = [i \in 1..n |-> LeafNode(list[i])]
      /\ \A k \in 2..m : levels[k] = Parents(levels[k - 1])
      /\ \A k \in 1..m : IsLevel(levels[k])
  BY LevelsBuilt
<1>2. /\ width[0] = 1 /\ \A h \in 1..n : width[h] = 2 * width[h - 1]
      /\ \A h \in 0..n : width[h] \in Nat \ {0}
  BY WidthsDef, WidthsGrow
<1>3. Size(levels[1]) = n
  BY <1>1 DEF Size
<1>4. n \in Nat \ {0}
  OBVIOUS
<1> HIDE DEF levels, n, m, width
<1>5. 0 \in P
  BY <1>2, <1>3, <1>4 DEF Covers
<1>6. ASSUME NEW h \in P PROVE h + 1 \in P
  <2> SUFFICES ASSUME h + 1 < m PROVE Covers(Size(levels[(h + 1) + 1]), width[h + 1], n)
    OBVIOUS
  <2>1. h \in Nat /\ Covers(Size(levels[h + 1]), width[h], n)
    BY <1>1
  <2>2. /\ h + 1 \in 1..m /\ (h + 1) + 1 \in 2..m /\ ((h + 1) + 1) - 1 = h + 1
        /\ h \in 0..n /\ h + 1 \in 1..n /\ (h + 1) - 1 = h
    BY <1>1, <1>4, <2>1
  <2>3. /\ levels[(h + 1) + 1] = Parents(levels[h + 1]) /\ IsLevel(levels[h + 1])
        /\ width[h + 1] = 2 * width[h] /\ width[h] \in Nat \ {0}
    BY <1>1, <1>2, <2>2
  <2>4. /\ Size(levels[(h + 1) + 1]) = (Size(levels[h + 1]) + 1) \div 2
        /\ Size(levels[h + 1]) \in Nat \ {0}
    BY <2>3, ParentsShape DEF IsLevel
  <2> HIDE DEF P
  <2>5. QED
    BY <1>4, <2>1, <2>3, <2>4, CoversAbove
<1>7. \A h \in Nat : h \in P
  <2> HIDE DEF P
  <2>1. P \in SUBSET Nat
    BY DEF P
  <2>2. QED
    BY <1>5, <1>6, <2>1, SetInduction
<1>8. ASSUME NEW k \in 1..m PROVE Covers(Size(levels[k]), width[k - 1], n)
  <2>1. k - 1 \in Nat /\ (k - 1) + 1 = k /\ k - 1 < m
    BY <1>1
  <2>2. k - 1 \in P
    BY <1>7, <2>1
  <2>3. QED
    BY <2>1, <2>2
<1>9. QED
  BY <1>8 DEF levels, n, m, width

\* MerkleRoot is the root of the reference: node i of a level is the reference's
\* subtree of that height over the leaves from the node's first one on.
THEOREM RootComputed ==
  ASSUME NEW list, Len(list) \in Nat \ {0}
  PROVE  MerkleRoot(list) = Reference(list)
<1> DEFINE levels  == BuildLevels(list)
           n       == Len(list)
           m       == Len(levels)
           width   == Widths(n)
           subtree == Subtrees(list)
           At(i, h) == (i - 1) * width[h] + 1
<1>1. /\ m \in Nat \ {0} /\ m <= n + 1
      /\ levels[1] = [i \in 1..n |-> LeafNode(list[i])]
      /\ \A k \in 2..m : levels[k] = Parents(levels[k - 1])
      /\ \A k \in 1..m : IsLevel(levels[k]) /\ (Size(levels[k]) = 1 <=> k = m)
      /\ MerkleRoot(list) = levels[m][1]
  BY LevelsBuilt
<1>2. /\ width[0] = 1 /\ \A h \in 1..n : width[h] = 2 * width[h - 1]
      /\ \A h \in 0..n : width[h] \in Nat \ {0}
  BY WidthsDef, WidthsGrow
<1>3. \A k \in 1..m : Covers(Size(levels[k]), width[k - 1], n)
  BY LevelsCover
<1>4. n \in Nat \ {0} /\ Size(levels[1]) = n
  BY <1>1 DEF Size
<1>5. Height(n) = m - 1
  <2>1. m - 1 \in 0..n /\ m \in 1..m
    BY <1>1
  <2> DEFINE w == width[m - 1]
  <2>2. w \in Nat \ {0} /\ Covers(1, w, n)
    BY <1>1, <1>2, <1>3, <2>1
  <2>3. n <= w
    BY <2>2 DEF Covers
  <2>4. ASSUME m - 1 # 0 PROVE width[(m - 1) - 1] < n
    <3>1. m - 1 \in 1..m /\ (m - 1) - 1 \in 0..n /\ m - 1 # m
      <4>1. m \in Nat \ {0} /\ n \in Nat
        BY <1>1
      <4> HIDE DEF m, n
      <4>2. QED
        BY <2>1, <2>4, <4>1
    <3> DEFINE s == Size(levels[m - 1])
               v == width[(m - 1) - 1]
    <3>2. /\ s \in Nat /\ s >= 1 /\ s # 1 /\ v \in Nat \ {0}
          /\ (s - 1) * v < n
      <4>1. IsLevel(levels[m - 1]) /\ s # 1 /\ Covers(s, v, n)
        BY <1>1, <1>3, <3>1
      <4>2. s \in Nat /\ s >= 1 /\ v \in Nat \ {0}
        BY <1>2, <3>1, <4>1 DEF IsLevel
      <4>3. QED
        BY <4>1, <4>2 DEF Covers
    <3> HIDE DEF s, v
    <3>3. v <= (s - 1) * v /\ (s - 1) * v \in Nat
      BY <3>2
    <3>4. v < n
      BY <1>4, <3>2, <3>3
    <3>5. QED
      BY <3>4 DEF v
  <2>5. n \in Nat /\ n <= width[m - 1] /\ (m - 1 = 0 \/ width[(m - 1) - 1] < n)
    BY <1>4, <2>3, <2>4
  <2> HIDE DEF n, m
  <2>6. QED
    BY <2>1, <2>5, HeightIs DEF width
<1>6. /\ subtree[0] = [lo \in 1..n |-> LeafNode(list[lo])]
      /\ \A h \in 1..(m - 1) : \A lo \in 1..n :
           subtree[h][lo]
             = CombineNodes(subtree[h - 1][lo],
                            subtree[h - 1][IF lo + width[h - 1] <= n THEN lo + width[h - 1] ELSE lo])
  <2>1. Height(n) \in Nat
    BY <1>1, <1>5
  <2>2. /\ subtree[0] = [lo \in 1..n |-> LeafNode(list[lo])]
        /\ \A h \in 1..Height(n) : \A lo \in 1..n :
             subtree[h][lo]
               = CombineNodes(subtree[h - 1][lo],
                              subtree[h - 1][IF lo + width[h - 1] <= n THEN lo + width[h - 1] ELSE lo])
    BY <1>4, <2>1, SubtreesDef
  <2> HIDE DEF levels, n, m, width, subtree
  <2>3. QED
    BY <1>5, <2>2
<1> HIDE DEF levels, n, m, width, subtree
<1> DEFINE P == {h \in Nat : h < m => \A i \in 1..Size(levels[h + 1]) :
                                /\ At(i, h) \in 1..n
                                /\ levels[h + 1][i] = subtree[h][At(i, h)]}
<1>7. 0 \in P
  <2>1. ASSUME NEW i \in 1..n PROVE At(i, 0) = i
    BY <1>2
  <2> HIDE DEF At
  <2>2. QED
    BY <1>1, <1>4, <1>6, <2>1
<1>8. ASSUME NEW h \in P PROVE h + 1 \in P
  <2> SUFFICES ASSUME h + 1 < m, NEW i \in 1..Size(levels[(h + 1) + 1])
               PROVE  /\ At(i, h + 1) \in 1..n
                      /\ levels[(h + 1) + 1][i] = subtree[h + 1][At(i, h + 1)]
    OBVIOUS
  <2>1. h \in Nat /\ \A j \in 1..Size(levels[h + 1]) : /\ At(j, h) \in 1..n
                                                      /\ levels[h + 1][j] = subtree[h][At(j, h)]
    BY <1>1
  <2> HIDE DEF P
  <2>2. /\ h + 1 \in 1..m /\ (h + 1) + 1 \in 2..m /\ ((h + 1) + 1) - 1 = h + 1
        /\ h \in 0..n /\ h + 1 \in 1..n /\ (h + 1) - 1 = h /\ h + 1 \in 1..(m - 1)
    BY <1>1, <1>4, <2>1
  <2> DEFINE s == Size(levels[h + 1])
             w == width[h]
  <2>3. /\ levels[(h + 1) + 1] = Parents(levels[h + 1]) /\ IsLevel(levels[h + 1])
        /\ width[h + 1] = 2 * w /\ w \in Nat \ {0} /\ Covers(s, w, n)
    BY <1>1, <1>2, <1>3, <2>2
  <2>4. s \in Nat \ {0} /\ i \in 1..((s + 1) \div 2)
    BY <2>3, ParentsShape DEF IsLevel
  <2>5. PICK j, k \in 1..s : /\ Parents(levels[h + 1])[i] = CombineNodes(levels[h + 1][j], levels[h + 1][k])
                             /\ j = 2 * i - 1
                             /\ k = IF 2 * i <= s THEN 2 * i ELSE 2 * i - 1
    BY <2>3, ParentNode
  <2>6. /\ 2 * i <= s <=> At(j, h) + w <= n
        /\ At(i, h + 1) = At(j, h)
        /\ (2 * i - 1) * w + 1 = At(j, h) + w
    <3>1. /\ 2 * i <= s <=> ((2 * i - 1) - 1) * w + 1 + w <= n
          /\ (i - 1) * (2 * w) + 1 = ((2 * i - 1) - 1) * w + 1
          /\ (2 * i - 1) * w + 1 = ((2 * i - 1) - 1) * w + 1 + w
      <4>1. n \in Nat
        BY <1>4
      <4> HIDE DEF s, w
      <4>2. QED
        BY <2>3, <2>4, <4>1, RightReached
    <3>2. At(j, h) = ((2 * i - 1) - 1) * w + 1 /\ At(i, h + 1) = (i - 1) * (2 * w) + 1
      BY <2>3, <2>5
    <3> HIDE DEF At, s, w
    <3>3. QED
      BY <3>1, <3>2
  <2>7. At(k, h) = IF At(j, h) + w <= n THEN At(j, h) + w ELSE At(j, h)
    <3>1. CASE 2 * i <= s
      <4>1. k = 2 * i /\ k - 1 = 2 * i - 1
        BY <2>4, <2>5, <3>1
      <4>2. At(k, h) = (2 * i - 1) * w + 1
        BY <4>1
      <4> HIDE DEF At
      <4>3. QED
        BY <2>6, <3>1, <4>2
    <3>2. CASE ~(2 * i <= s)
      <4>1. k = j
        BY <2>5, <3>2
      <4> HIDE DEF At
      <4>2. QED
        BY <2>6, <3>2, <4>1
    <3>3. QED
      BY <3>1, <3>2
  <2> HIDE DEF At, s, w
  <2>8. /\ At(j, h) \in 1..n
        /\ levels[h + 1][j] = subtree[h][At(j, h)]
        /\ levels[h + 1][k] = subtree[h][At(k, h)]
    BY <2>1, <2>5 DEF s
  <2>9. subtree[h + 1][At(j, h)]
          = CombineNodes(subtree[h][At(j, h)],
                         subtree[h][IF At(j, h) + w <= n THEN At(j, h) + w ELSE At(j, h)])
    BY <1>6, <2>2, <2>8 DEF w
  <2>10. QED
    BY <2>3, <2>5, <2>6, <2>7, <2>8, <2>9
<1>9. \A h \in Nat : h \in P
  <2> HIDE DEF P
  <2>1. P \in SUBSET Nat
    BY DEF P
  <2>2. QED
    BY <1>7, <1>8, <2>1, SetInduction
<1>10. levels[m][1] = subtree[m - 1][1]
  <2>1. m - 1 \in Nat /\ m - 1 < m /\ (m - 1) + 1 = m /\ m \in 1..m /\ m - 1 \in 0..n
    BY <1>1, <1>4
  <2>2. Size(levels[m]) = 1
    BY <1>1, <2>1
  <2>3. m - 1 \in P
    BY <1>9, <2>1
  <2>4. levels[m][1] = subtree[m - 1][At(1, m - 1)]
    BY <2>1, <2>2, <2>3
  <2>5. At(1, m - 1) = 1
    BY <1>2, <2>1
  <2>6. QED
    BY <2>4, <2>5
<1>11. QED
  BY <1>1, <1>5, <1>10 DEF Reference, n, subtree

-----------------------------------------------------------------------------
(* The lists of MerkleLists.                                               *)

\* The list is one of Leaves.
ListType == leaves \in Seq(Leaves)

LEMMA ListsTyped == Spec => []ListType
<1>1. Init => ListType
  BY DEF Init, ListType
<1>2. ListType /\ [Next]_leaves => ListType'
  BY DEF Next, AddLeaf, ListType
<1>3. QED
  BY <1>1, <1>2, PTL DEF Spec

\* MerkleRoot agrees with the reference on every list, odd lengths at any height
\* included.
THEOREM ReferenceCorrect == Spec => []RootIsReference
<1>1. ListType => RootIsReference
  <2> SUFFICES ASSUME ListType, leaves # <<>> PROVE MerkleRoot(leaves) = Reference(leaves)
    BY DEF RootIsReference
  <2>1. Len(leaves) \in Nat \ {0}
    BY DEF ListType
  <2>2. QED
    BY <2>1, RootComputed
<1>2. QED
  BY <1>1, ListsTyped, PTL

\* What InclusionProof returns is accepted by VerifyInclusion for the leaf it is
\* about, and for no other: odd nodes, directions and depths included.
THEOREM ProofsCorrect == Spec => []ProofsVerify
<1>1. ListType => ProofsVerify
  <2> SUFFICES ASSUME ListType, NEW idx \in Indices, NEW s \in Leaves
               PROVE  VerifyInclusion(s, InclusionProof(leaves, idx), MerkleRoot(leaves))
                        <=> s = leaves[idx + 1]
    BY DEF ProofsVerify
  <2>1. Len(leaves) \in Nat \ {0} /\ idx \in 0..(Len(leaves) - 1)
    BY DEF Indices, ListType
  <2>2. QED
    BY <2>1, InclusionCorrect
<1>2. QED
  BY <1>1, ListsTyped, PTL

\* Nothing but a member of the list is accepted against its root, whatever path is
\* presented; here without the bound on the list that TLC needs.
THEOREM MembersCorrect == Spec => []OnlyMembersVerify
<1>1. ListType => OnlyMembersVerify
  <2> SUFFICES ASSUME ListType, leaves # <<>>,
                      NEW s, NEW p \in Paths,
                      VerifyInclusion(s, p, MerkleRoot(leaves))
               PROVE  s \in ToSet(leaves)
    BY DEF OnlyMembersVerify
  <2>1. Len(leaves) \in Nat \ {0} /\ DOMAIN leaves = 1..Len(leaves)
    BY DEF ListType
  <2>2. Len(p) \in Nat
    <3>1. PICK n \in 0..Height(Len(leaves)) : p \in [1..n -> {"L", "R"} \X Nodes]
      BY DEF Paths
    <3>2. CASE n \in Nat
      BY <3>1, <3>2
    <3>3. QED
      BY <3>2
  <2>3. PICK i \in 1..Len(leaves) : leaves[i] = s
    BY <2>1, <2>2, OnlyMembersAccepted
  <2>4. QED
    BY <2>1, <2>3 DEF ToSet
<1>2. QED
  BY <1>1, ListsTyped, PTL

\* Two lists without repetition that have the same root are the same list.
THEOREM BindingCorrect == Spec => []RootBinds
<1>1. ListType => RootBinds
  <2> SUFFICES ASSUME ListType, leaves # <<>>, IsInjective(leaves),
                      NEW other \in Lists, IsInjective(other),
                      MerkleRoot(other) = MerkleRoot(leaves)
               PROVE  other = leaves
    BY DEF RootBinds
  <2>1. IsLevel(leaves)
    BY DEF ListType, IsLevel, Size
  <2>2. PICK n \in 1..MaxLeaves : other \in [1..n -> Leaves]
    BY DEF Lists
  <2>3. IsLevel(other)
    <3>1. n \in Nat /\ n >= 1 /\ Len(other) = n
      BY <2>2, MaxAssumption
    <3>2. QED
      BY <2>2, <3>1 DEF IsLevel, Size
  <2>4. QED
    BY <2>1, <2>3, RootDetermines
<1>2. QED
  BY <1>1, ListsTyped, PTL

-----------------------------------------------------------------------------
(* Documents and the functions on them are what their definitions say.     *)

\* Documents by their nesting.
LEMMA DocumentsDef ==
  \A k \in 0..MaxDepth :
    Documents[k] = IF k = 0 THEN Scalars ELSE Scalars \cup Around(Documents[k - 1])
<1> DEFINE Upto(m, f) ==
             f = [k \in 0..m |-> IF k = 0 THEN Scalars ELSE Scalars \cup Around(f[k - 1])]
           P == {m \in Nat : \E f : Upto(m, f)}
<1> HIDE DEF Upto, P
<1>1. 0 \in P
  <2>1. Upto(0, [k \in 0..0 |-> Scalars])
    BY DEF Upto
  <2>2. QED
    BY <2>1 DEF P
<1>2. ASSUME NEW m \in P PROVE m + 1 \in P
  <2>1. m \in Nat /\ \E f : Upto(m, f)
    BY DEF P
  <2>2. PICK f :
          f = [k \in 0..m |-> IF k = 0 THEN Scalars ELSE Scalars \cup Around(f[k - 1])]
    BY <2>1 DEF Upto
  <2> DEFINE g == [k \in 0..(m + 1) |->
                    IF k # m + 1 THEN f[k] ELSE Scalars \cup Around(f[m])]
  <2>3. g = [k \in 0..(m + 1) |-> IF k = 0 THEN Scalars ELSE Scalars \cup Around(g[k - 1])]
    <3>1. ASSUME NEW k \in 0..(m + 1)
          PROVE  g[k] = IF k = 0 THEN Scalars ELSE Scalars \cup Around(g[k - 1])
      <4>1. CASE k = m + 1
        <5>1. g[k] = Scalars \cup Around(f[m]) /\ k # 0 /\ g[k - 1] = f[m]
          BY <2>1, <4>1
        <5>2. QED
          BY <5>1
      <4>2. CASE k # m + 1
        <5>1. k \in 0..m /\ g[k] = f[k] /\ (k # 0 => g[k - 1] = f[k - 1])
          BY <2>1, <4>2
        <5>2. QED
          BY <2>2, <5>1
      <4>3. QED
        BY <4>1, <4>2
    <3>2. QED
      BY <3>1
  <2> HIDE DEF g
  <2>4. Upto(m + 1, g)
    BY <2>3, Zenon DEF Upto
  <2>5. QED
    BY <2>1, <2>4 DEF P
<1>3. \E f : Upto(MaxDepth, f)
  <2>1. \A m \in Nat : m \in P
    BY <1>1, <1>2, SetInduction DEF P
  <2>2. QED
    BY <2>1, DocumentAssumption DEF P
<1>4. Upto(MaxDepth, Documents)
  BY <1>3, Zenon DEF Documents, Upto
<1>5. QED
  BY <1>4 DEF Upto

\* What a document can be.
LEMMA DocumentKinds ==
  ASSUME NEW k \in 0..MaxDepth, NEW d \in Documents[k]
  PROVE  \/ d \in Scalars /\ d.type = "number"
         \/ /\ k > 0 /\ d.type = "array"
            /\ d.items \in Seq(Documents[k - 1]) /\ d = Array(d.items)
         \/ /\ k > 0 /\ d.type = "object"
            /\ d.members \in Seq(Names \X Documents[k - 1]) /\ d = Object(d.members)
<1>1. d \in Scalars \/ (k > 0 /\ d \in Around(Documents[k - 1]))
  <2>1. Documents[k] = IF k = 0 THEN Scalars ELSE Scalars \cup Around(Documents[k - 1])
    BY DocumentsDef
  <2>2. k # 0 => k > 0
    BY DocumentAssumption
  <2>3. QED
    BY <2>1, <2>2, Zenon
<1>2. CASE d \in Scalars
  BY <1>2 DEF Scalars
<1>3. CASE k > 0 /\ d \in Around(Documents[k - 1])
  BY <1>3 DEF Around, Array, Object
<1>4. QED
  BY <1>1, <1>2, <1>3

\* And what is one.
LEMMA DocumentMade ==
  ASSUME NEW k \in 0..MaxDepth
  PROVE  /\ \A d \in Scalars : d \in Documents[k]
         /\ k > 0 => /\ \A i \in Seq(Documents[k - 1]) : Array(i) \in Documents[k]
                     /\ \A m \in Seq(Names \X Documents[k - 1]) : Object(m) \in Documents[k]
<1>1. Documents[k] = IF k = 0 THEN Scalars ELSE Scalars \cup Around(Documents[k - 1])
  BY DocumentsDef
<1>2. CASE k > 0
  <2>1. Documents[k] = Scalars \cup Around(Documents[k - 1])
    BY <1>1, <1>2
  <2>2. /\ \A i \in Seq(Documents[k - 1]) : Array(i) \in Around(Documents[k - 1])
        /\ \A m \in Seq(Names \X Documents[k - 1]) : Object(m) \in Around(Documents[k - 1])
    BY DEF Around, Array, Object
  <2>3. QED
    BY <2>1, <2>2
<1>3. CASE ~(k > 0)
  <2>1. k = 0
    BY <1>3, DocumentAssumption
  <2>2. QED
    BY <1>1, <1>3, <2>1
<1>4. QED
  BY <1>2, <1>3

\* A scalar has nothing below it.
LEMMA ScalarsAlone ==
  ASSUME NEW p, NEW q
  PROVE  /\ CanonicalizeLevel(0, p) = CanonicalizeLevel(0, q)
         /\ StoredLevel(0, p) = StoredLevel(0, q)
         /\ ValueLevel(0, p) = ValueLevel(0, q)
         /\ PlainLevel(0, p) = PlainLevel(0, q)
<1>1. \A d \in Documents[0] : d.type = "number"
  <2>1. 0 \in 0..MaxDepth
    BY DocumentAssumption
  <2>2. Documents[0] = Scalars
    BY <2>1, DocumentsDef
  <2>3. QED
    BY <2>2 DEF Scalars
<1>2. CanonicalizeLevel(0, p) = CanonicalizeLevel(0, q)
  BY <1>1 DEF CanonicalizeLevel
<1>3. StoredLevel(0, p) = StoredLevel(0, q)
  BY <1>1 DEF StoredLevel
<1>4. ValueLevel(0, p) = ValueLevel(0, q)
  BY <1>1 DEF ValueLevel
<1>5. PlainLevel(0, p) = PlainLevel(0, q)
  BY <1>1 DEF PlainLevel
<1>6. QED
  BY <1>2, <1>3, <1>4, <1>5

\* The canonical form, by nesting.
LEMMA CanonicalizeLevels ==
  \A k \in 0..MaxDepth : Canonicalize[k] = CanonicalizeLevel(k, Canonicalize[k - 1])
<1> DEFINE Upto(m, f) == f = [k \in 0..m |-> CanonicalizeLevel(k, f[k - 1])]
           P == {m \in Nat : \E f : Upto(m, f)}
<1> HIDE DEF Upto, P
<1>1. 0 \in P
  <2> DEFINE f == [k \in 0..0 |-> CanonicalizeLevel(0, 0)]
  <2>1. \A k \in 0..0 : f[k] = CanonicalizeLevel(k, f[k - 1])
    <3>1. CanonicalizeLevel(0, 0) = CanonicalizeLevel(0, f[0 - 1])
      BY ScalarsAlone
    <3>2. ASSUME NEW k \in 0..0 PROVE k = 0
      OBVIOUS
    <3>3. QED
      BY <3>1, <3>2, Zenon
  <2>2. f = [k \in 0..0 |-> CanonicalizeLevel(k, f[k - 1])]
    BY <2>1
  <2> HIDE DEF f
  <2>3. Upto(0, f)
    BY <2>2, Zenon DEF Upto
  <2>4. QED
    BY <2>3 DEF P
<1>2. ASSUME NEW m \in P PROVE m + 1 \in P
  <2>1. m \in Nat /\ \E f : Upto(m, f)
    BY DEF P
  <2>2. PICK f : f = [k \in 0..m |-> CanonicalizeLevel(k, f[k - 1])]
    BY <2>1 DEF Upto
  <2> DEFINE g == [k \in 0..(m + 1) |->
                    IF k # m + 1 THEN f[k] ELSE CanonicalizeLevel(m + 1, f[m])]
  <2>3. g = [k \in 0..(m + 1) |-> CanonicalizeLevel(k, g[k - 1])]
    <3>1. ASSUME NEW k \in 0..(m + 1)
          PROVE  g[k] = CanonicalizeLevel(k, g[k - 1])
      <4>1. CASE k = m + 1
        <5>1. g[k] = CanonicalizeLevel(m + 1, f[m]) /\ g[k - 1] = f[m]
          BY <2>1, <4>1
        <5>2. QED
          BY <4>1, <5>1
      <4>2. CASE k # m + 1 /\ k # 0
        <5>1. k \in 0..m /\ g[k] = f[k] /\ g[k - 1] = f[k - 1]
          BY <2>1, <4>2
        <5>2. QED
          BY <2>2, <5>1
      <4>3. CASE k = 0
        <5>1. 0 \in 0..m /\ g[0] = f[0]
          BY <2>1
        <5>2. f[0] = CanonicalizeLevel(0, f[0 - 1])
          BY <2>2, <5>1
        <5>3. CanonicalizeLevel(0, f[0 - 1]) = CanonicalizeLevel(0, g[0 - 1])
          BY ScalarsAlone
        <5> HIDE DEF g
        <5>4. QED
          BY <4>3, <5>1, <5>2, <5>3
      <4>4. QED
        BY <4>1, <4>2, <4>3
    <3>2. QED
      BY <3>1
  <2> HIDE DEF g
  <2>4. Upto(m + 1, g)
    BY <2>3, Zenon DEF Upto
  <2>5. QED
    BY <2>1, <2>4 DEF P
<1>3. \E f : Upto(MaxDepth, f)
  <2>1. \A m \in Nat : m \in P
    BY <1>1, <1>2, SetInduction DEF P
  <2>2. QED
    BY <2>1, DocumentAssumption DEF P
<1>4. Upto(MaxDepth, Canonicalize)
  BY <1>3, Zenon DEF Canonicalize, Upto
<1>5. QED
  BY <1>4 DEF Upto

\* What is stored, by nesting.
LEMMA StoredLevels ==
  \A k \in 0..MaxDepth : Stored[k] = StoredLevel(k, Stored[k - 1])
<1> DEFINE Upto(m, f) == f = [k \in 0..m |-> StoredLevel(k, f[k - 1])]
           P == {m \in Nat : \E f : Upto(m, f)}
<1> HIDE DEF Upto, P
<1>1. 0 \in P
  <2> DEFINE f == [k \in 0..0 |-> StoredLevel(0, 0)]
  <2>1. \A k \in 0..0 : f[k] = StoredLevel(k, f[k - 1])
    <3>1. StoredLevel(0, 0) = StoredLevel(0, f[0 - 1])
      BY ScalarsAlone
    <3>2. ASSUME NEW k \in 0..0 PROVE k = 0
      OBVIOUS
    <3>3. QED
      BY <3>1, <3>2, Zenon
  <2>2. f = [k \in 0..0 |-> StoredLevel(k, f[k - 1])]
    BY <2>1
  <2> HIDE DEF f
  <2>3. Upto(0, f)
    BY <2>2, Zenon DEF Upto
  <2>4. QED
    BY <2>3 DEF P
<1>2. ASSUME NEW m \in P PROVE m + 1 \in P
  <2>1. m \in Nat /\ \E f : Upto(m, f)
    BY DEF P
  <2>2. PICK f : f = [k \in 0..m |-> StoredLevel(k, f[k - 1])]
    BY <2>1 DEF Upto
  <2> DEFINE g == [k \in 0..(m + 1) |->
                    IF k # m + 1 THEN f[k] ELSE StoredLevel(m + 1, f[m])]
  <2>3. g = [k \in 0..(m + 1) |-> StoredLevel(k, g[k - 1])]
    <3>1. ASSUME NEW k \in 0..(m + 1)
          PROVE  g[k] = StoredLevel(k, g[k - 1])
      <4>1. CASE k = m + 1
        <5>1. g[k] = StoredLevel(m + 1, f[m]) /\ g[k - 1] = f[m]
          BY <2>1, <4>1
        <5>2. QED
          BY <4>1, <5>1
      <4>2. CASE k # m + 1 /\ k # 0
        <5>1. k \in 0..m /\ g[k] = f[k] /\ g[k - 1] = f[k - 1]
          BY <2>1, <4>2
        <5>2. QED
          BY <2>2, <5>1
      <4>3. CASE k = 0
        <5>1. 0 \in 0..m /\ g[0] = f[0]
          BY <2>1
        <5>2. f[0] = StoredLevel(0, f[0 - 1])
          BY <2>2, <5>1
        <5>3. StoredLevel(0, f[0 - 1]) = StoredLevel(0, g[0 - 1])
          BY ScalarsAlone
        <5> HIDE DEF g
        <5>4. QED
          BY <4>3, <5>1, <5>2, <5>3
      <4>4. QED
        BY <4>1, <4>2, <4>3
    <3>2. QED
      BY <3>1
  <2> HIDE DEF g
  <2>4. Upto(m + 1, g)
    BY <2>3, Zenon DEF Upto
  <2>5. QED
    BY <2>1, <2>4 DEF P
<1>3. \E f : Upto(MaxDepth, f)
  <2>1. \A m \in Nat : m \in P
    BY <1>1, <1>2, SetInduction DEF P
  <2>2. QED
    BY <2>1, DocumentAssumption DEF P
<1>4. Upto(MaxDepth, Stored)
  BY <1>3, Zenon DEF Stored, Upto
<1>5. QED
  BY <1>4 DEF Upto

\* The value, by nesting.
LEMMA ValueLevels ==
  \A k \in 0..MaxDepth : Value[k] = ValueLevel(k, Value[k - 1])
<1> DEFINE Upto(m, f) == f = [k \in 0..m |-> ValueLevel(k, f[k - 1])]
           P == {m \in Nat : \E f : Upto(m, f)}
<1> HIDE DEF Upto, P
<1>1. 0 \in P
  <2> DEFINE f == [k \in 0..0 |-> ValueLevel(0, 0)]
  <2>1. \A k \in 0..0 : f[k] = ValueLevel(k, f[k - 1])
    <3>1. ValueLevel(0, 0) = ValueLevel(0, f[0 - 1])
      BY ScalarsAlone
    <3>2. ASSUME NEW k \in 0..0 PROVE k = 0
      OBVIOUS
    <3>3. QED
      BY <3>1, <3>2, Zenon
  <2>2. f = [k \in 0..0 |-> ValueLevel(k, f[k - 1])]
    BY <2>1
  <2> HIDE DEF f
  <2>3. Upto(0, f)
    BY <2>2, Zenon DEF Upto
  <2>4. QED
    BY <2>3 DEF P
<1>2. ASSUME NEW m \in P PROVE m + 1 \in P
  <2>1. m \in Nat /\ \E f : Upto(m, f)
    BY DEF P
  <2>2. PICK f : f = [k \in 0..m |-> ValueLevel(k, f[k - 1])]
    BY <2>1 DEF Upto
  <2> DEFINE g == [k \in 0..(m + 1) |->
                    IF k # m + 1 THEN f[k] ELSE ValueLevel(m + 1, f[m])]
  <2>3. g = [k \in 0..(m + 1) |-> ValueLevel(k, g[k - 1])]
    <3>1. ASSUME NEW k \in 0..(m + 1)
          PROVE  g[k] = ValueLevel(k, g[k - 1])
      <4>1. CASE k = m + 1
        <5>1. g[k] = ValueLevel(m + 1, f[m]) /\ g[k - 1] = f[m]
          BY <2>1, <4>1
        <5>2. QED
          BY <4>1, <5>1
      <4>2. CASE k # m + 1 /\ k # 0
        <5>1. k \in 0..m /\ g[k] = f[k] /\ g[k - 1] = f[k - 1]
          BY <2>1, <4>2
        <5>2. QED
          BY <2>2, <5>1
      <4>3. CASE k = 0
        <5>1. 0 \in 0..m /\ g[0] = f[0]
          BY <2>1
        <5>2. f[0] = ValueLevel(0, f[0 - 1])
          BY <2>2, <5>1
        <5>3. ValueLevel(0, f[0 - 1]) = ValueLevel(0, g[0 - 1])
          BY ScalarsAlone
        <5> HIDE DEF g
        <5>4. QED
          BY <4>3, <5>1, <5>2, <5>3
      <4>4. QED
        BY <4>1, <4>2, <4>3
    <3>2. QED
      BY <3>1
  <2> HIDE DEF g
  <2>4. Upto(m + 1, g)
    BY <2>3, Zenon DEF Upto
  <2>5. QED
    BY <2>1, <2>4 DEF P
<1>3. \E f : Upto(MaxDepth, f)
  <2>1. \A m \in Nat : m \in P
    BY <1>1, <1>2, SetInduction DEF P
  <2>2. QED
    BY <2>1, DocumentAssumption DEF P
<1>4. Upto(MaxDepth, Value)
  BY <1>3, Zenon DEF Value, Upto
<1>5. QED
  BY <1>4 DEF Upto

\* Spelling, by nesting.
LEMMA PlainLevels ==
  \A k \in 0..MaxDepth : Plain[k] = PlainLevel(k, Plain[k - 1])
<1> DEFINE Upto(m, f) == f = [k \in 0..m |-> PlainLevel(k, f[k - 1])]
           P == {m \in Nat : \E f : Upto(m, f)}
<1> HIDE DEF Upto, P
<1>1. 0 \in P
  <2> DEFINE f == [k \in 0..0 |-> PlainLevel(0, 0)]
  <2>1. \A k \in 0..0 : f[k] = PlainLevel(k, f[k - 1])
    <3>1. PlainLevel(0, 0) = PlainLevel(0, f[0 - 1])
      BY ScalarsAlone
    <3>2. ASSUME NEW k \in 0..0 PROVE k = 0
      OBVIOUS
    <3>3. QED
      BY <3>1, <3>2, Zenon
  <2>2. f = [k \in 0..0 |-> PlainLevel(k, f[k - 1])]
    BY <2>1
  <2> HIDE DEF f
  <2>3. Upto(0, f)
    BY <2>2, Zenon DEF Upto
  <2>4. QED
    BY <2>3 DEF P
<1>2. ASSUME NEW m \in P PROVE m + 1 \in P
  <2>1. m \in Nat /\ \E f : Upto(m, f)
    BY DEF P
  <2>2. PICK f : f = [k \in 0..m |-> PlainLevel(k, f[k - 1])]
    BY <2>1 DEF Upto
  <2> DEFINE g == [k \in 0..(m + 1) |->
                    IF k # m + 1 THEN f[k] ELSE PlainLevel(m + 1, f[m])]
  <2>3. g = [k \in 0..(m + 1) |-> PlainLevel(k, g[k - 1])]
    <3>1. ASSUME NEW k \in 0..(m + 1)
          PROVE  g[k] = PlainLevel(k, g[k - 1])
      <4>1. CASE k = m + 1
        <5>1. g[k] = PlainLevel(m + 1, f[m]) /\ g[k - 1] = f[m]
          BY <2>1, <4>1
        <5>2. QED
          BY <4>1, <5>1
      <4>2. CASE k # m + 1 /\ k # 0
        <5>1. k \in 0..m /\ g[k] = f[k] /\ g[k - 1] = f[k - 1]
          BY <2>1, <4>2
        <5>2. QED
          BY <2>2, <5>1
      <4>3. CASE k = 0
        <5>1. 0 \in 0..m /\ g[0] = f[0]
          BY <2>1
        <5>2. f[0] = PlainLevel(0, f[0 - 1])
          BY <2>2, <5>1
        <5>3. PlainLevel(0, f[0 - 1]) = PlainLevel(0, g[0 - 1])
          BY ScalarsAlone
        <5> HIDE DEF g
        <5>4. QED
          BY <4>3, <5>1, <5>2, <5>3
      <4>4. QED
        BY <4>1, <4>2, <4>3
    <3>2. QED
      BY <3>1
  <2> HIDE DEF g
  <2>4. Upto(m + 1, g)
    BY <2>3, Zenon DEF Upto
  <2>5. QED
    BY <2>1, <2>4 DEF P
<1>3. \E f : Upto(MaxDepth, f)
  <2>1. \A m \in Nat : m \in P
    BY <1>1, <1>2, SetInduction DEF P
  <2>2. QED
    BY <2>1, DocumentAssumption DEF P
<1>4. Upto(MaxDepth, Plain)
  BY <1>3, Zenon DEF Plain, Upto
<1>5. QED
  BY <1>4 DEF Upto

-----------------------------------------------------------------------------
(* Members: sorted, listed, and the last of a name.                        *)

\* A finite set of numbers can be enumerated in ascending order: the place of a
\* number is given by how many are smaller.
LEMMA AscendingExists ==
  ASSUME NEW S, S \subseteq Int, IsFiniteSet(S)
  PROVE  /\ Cardinality(S) \in Nat
         /\ Ascending(S) \in [1..Cardinality(S) -> S]
         /\ \A i, j \in 1..Cardinality(S) : i < j => Ascending(S)[i] < Ascending(S)[j]
<1> DEFINE n == Cardinality(S)
           before(e) == {f \in S : f < e}
           rank == [e \in S |-> Cardinality(before(e)) + 1]
           q == [i \in 1..n |-> CHOOSE e \in S : rank[e] = i]
<1>1. n \in Nat
  BY FS_CardinalityType
<1>2. ASSUME NEW e \in S
      PROVE  IsFiniteSet(before(e)) /\ Cardinality(before(e)) \in Nat /\ Cardinality(before(e)) < n
  <2>1. before(e) \in SUBSET S /\ e \notin before(e)
    OBVIOUS
  <2>2. IsFiniteSet(before(e)) /\ Cardinality(before(e)) <= n /\ Cardinality(before(e)) # n
    BY <2>1, FS_Subset
  <2>3. QED
    BY <1>1, <2>2, FS_CardinalityType
<1>3. ASSUME NEW e \in S, NEW f \in S, e < f
      PROVE  Cardinality(before(e)) < Cardinality(before(f))
  <2>1. before(e) \in SUBSET before(f) /\ e \in before(f) /\ e \notin before(e)
    <3>1. e \in Int /\ f \in Int /\ \A x \in S : x \in Int
      OBVIOUS
    <3>2. \A x \in S : x < e => x < f
      BY <1>3, <3>1
    <3>3. ~(e < e)
      BY <3>1
    <3>4. QED
      BY <1>3, <3>2, <3>3, Zenon
  <2>2. /\ Cardinality(before(e)) <= Cardinality(before(f))
        /\ Cardinality(before(e)) # Cardinality(before(f))
    BY <1>2, <2>1, FS_Subset
  <2>3. Cardinality(before(e)) \in Nat /\ Cardinality(before(f)) \in Nat
    BY <1>2
  <2> HIDE DEF before
  <2>4. QED
    BY <2>2, <2>3
<1> HIDE DEF n, before
<1>4. \A e, f \in S : e < f => rank[e] < rank[f]
  BY <1>2, <1>3
<1>5. rank \in [S -> 1..n]
  BY <1>1, <1>2
<1> HIDE DEF rank
<1>6. rank \in Injection(S, 1..n)
  BY <1>4, <1>5 DEF Injection, IsInjective
<1>7. rank \in Surjection(S, 1..n)
  <2>1. IsFiniteSet(1..n) /\ Cardinality(1..n) = n
    BY <1>1, FS_Interval
  <2>2. QED
    BY <1>6, <2>1, FS_Injection DEF n
<1>8. \A i \in 1..n : q[i] \in S /\ rank[q[i]] = i
  BY <1>7 DEF Surjection
<1>9. q \in [1..n -> S]
  BY <1>8
<1> HIDE DEF q
<1>10. ASSUME NEW i \in 1..n, NEW j \in 1..n, i < j PROVE q[i] < q[j]
  <2>1. q[i] \in S /\ q[j] \in S /\ q[i] \in Int /\ q[j] \in Int
    BY <1>8
  <2>2. i \in Int /\ j \in Int /\ rank[q[i]] = i /\ rank[q[j]] = j
    BY <1>8
  <2>3. q[i] # q[j]
    BY <1>10, <2>2
  <2>4. ~(q[j] < q[i])
    <3>1. q[j] < q[i] => rank[q[j]] < rank[q[i]]
      BY <1>4, <2>1
    <3>2. QED
      BY <1>10, <2>2, <3>1
  <2>5. QED
    BY <2>1, <2>3, <2>4
<1>11. \E s \in [1..n -> S] : \A i, j \in DOMAIN s : i < j => s[i] < s[j]
  <2>1. \A i, j \in DOMAIN q : i < j => q[i] < q[j]
    BY <1>9, <1>10
  <2>2. QED
    BY <1>9, <2>1
<1>12. Ascending(S) \in [1..n -> S]
       /\ \A i, j \in DOMAIN Ascending(S) : i < j => Ascending(S)[i] < Ascending(S)[j]
  BY <1>11, Zenon DEF Ascending, n
<1>13. QED
  BY <1>1, <1>12 DEF n

\* It has every number of the set once.
LEMMA AscendingHits ==
  ASSUME NEW S, S \subseteq Int, IsFiniteSet(S)
  PROVE  /\ \A i, j \in 1..Cardinality(S) : Ascending(S)[i] = Ascending(S)[j] => i = j
         /\ \A e \in S : \E i \in 1..Cardinality(S) : Ascending(S)[i] = e
<1> DEFINE n == Cardinality(S)
           q == Ascending(S)
<1>1. /\ n \in Nat /\ q \in [1..n -> S]
      /\ \A i, j \in 1..n : i < j => q[i] < q[j]
  BY AscendingExists
<1> HIDE DEF n, q
<1>2. ASSUME NEW i \in 1..n, NEW j \in 1..n, q[i] = q[j] PROVE i = j
  <2>1. q[i] \in Int
    BY <1>1
  <2>2. ~(i < j) /\ ~(j < i)
    BY <1>1, <1>2, <2>1
  <2>3. QED
    BY <2>2
<1>3. q \in Injection(1..n, S)
  BY <1>1, <1>2 DEF Injection, IsInjective
<1>4. q \in Surjection(1..n, S)
  <2>1. IsFiniteSet(1..n) /\ Cardinality(1..n) = n
    BY <1>1, FS_Interval
  <2>2. QED
    BY <1>3, <2>1, FS_Injection DEF n
<1>5. QED
  BY <1>2, <1>4 DEF Surjection, n, q

\* A map as a list has each of its names once, with its value.
LEMMA ListedIs ==
  ASSUME NEW map, DOMAIN map \subseteq Int, IsFiniteSet(DOMAIN map)
  PROVE  LET list == Listed(map)
         IN  /\ Len(list) \in Nat /\ DOMAIN list = 1..Len(list)
             /\ \A n \in 1..Len(list) :
                  list[n] = <<list[n][1], map[list[n][1]]>> /\ list[n][1] \in DOMAIN map
             /\ \A i, j \in 1..Len(list) : list[i][1] = list[j][1] => i = j
             /\ \A m \in DOMAIN map : \E n \in 1..Len(list) : list[n][1] = m
<1> DEFINE S == DOMAIN map
           c == Cardinality(S)
           q == Ascending(S)
           list == Listed(map)
<1>1. c \in Nat /\ q \in [1..c -> S]
  BY AscendingExists
<1>2. /\ \A i, j \in 1..c : q[i] = q[j] => i = j
      /\ \A e \in S : \E i \in 1..c : q[i] = e
  BY AscendingHits
<1>3. list = [n \in 1..c |-> <<q[n], map[q[n]]>>]
  BY DEF Listed
<1> HIDE DEF S, c, q, list
<1>4. Len(list) = c /\ DOMAIN list = 1..c
  BY <1>1, <1>3
<1>5. \A n \in 1..c : list[n] = <<q[n], map[q[n]]>> /\ list[n][1] = q[n]
  BY <1>3
<1>6. QED
  BY <1>1, <1>2, <1>4, <1>5 DEF S, list

\* So the list has all of the map.
LEMMA ListedInjective ==
  ASSUME NEW f, DOMAIN f \subseteq Int, IsFiniteSet(DOMAIN f),
         NEW g, DOMAIN g \subseteq Int, IsFiniteSet(DOMAIN g),
         Listed(f) = Listed(g)
  PROVE  DOMAIN f = DOMAIN g /\ \A m \in DOMAIN f : f[m] = g[m]
<1> DEFINE a == Listed(f)
           b == Listed(g)
<1>1. /\ \A n \in 1..Len(a) : a[n] = <<a[n][1], f[a[n][1]]>> /\ a[n][1] \in DOMAIN f
      /\ \A m \in DOMAIN f : \E n \in 1..Len(a) : a[n][1] = m
  BY ListedIs
<1>2. /\ \A n \in 1..Len(b) : b[n] = <<b[n][1], g[b[n][1]]>> /\ b[n][1] \in DOMAIN g
      /\ \A m \in DOMAIN g : \E n \in 1..Len(b) : b[n][1] = m
  BY ListedIs
<1>3. a = b
  OBVIOUS
<1> HIDE DEF a, b
<1>4. DOMAIN f = DOMAIN g
  <2>1. DOMAIN f \subseteq DOMAIN g
    BY <1>1, <1>2, <1>3
  <2>2. DOMAIN g \subseteq DOMAIN f
    BY <1>1, <1>2, <1>3
  <2>3. QED
    BY <2>1, <2>2
<1>5. ASSUME NEW m \in DOMAIN f PROVE f[m] = g[m]
  <2>1. PICK n \in 1..Len(a) : a[n][1] = m
    BY <1>1
  <2>2. a[n] = <<m, f[m]>> /\ a[n] = <<m, g[m]>>
    BY <1>1, <1>2, <1>3, <2>1
  <2>3. QED
    BY <2>2
<1>6. QED
  BY <1>4, <1>5

\* The names of members are finitely many, and each has a last member.
LEMMA KeysAre ==
  ASSUME NEW members, Len(members) \in Nat
  PROVE  /\ IsFiniteSet(Keys(members))
         /\ \A m \in Keys(members) :
              LET n == LastOf(members, m)
              IN  /\ n \in 1..Len(members) /\ members[n][1] = m
                  /\ \A o \in (n + 1)..Len(members) : members[o][1] # m
<1>1. IsFiniteSet(Keys(members))
  <2> DEFINE f == [n \in 1..Len(members) |-> members[n][1]]
  <2>1. f \in Surjection(1..Len(members), Keys(members))
    BY DEF Surjection, Keys
  <2>2. IsFiniteSet(1..Len(members))
    BY FS_Interval
  <2>3. QED
    BY <2>1, <2>2, FS_Surjection
<1>2. ASSUME NEW m \in Keys(members)
      PROVE  LET n == LastOf(members, m)
             IN  /\ n \in 1..Len(members) /\ members[n][1] = m
                 /\ \A o \in (n + 1)..Len(members) : members[o][1] # m
  <2> DEFINE N == Len(members)
             T == {x \in Nat : x < N /\ members[N - x][1] = m}
  <2>1. PICK n \in 1..N : members[n][1] = m
    BY DEF Keys
  <2>2. N - n \in T
    <3>1. N - n \in Nat /\ N - n < N /\ N - (N - n) = n
      OBVIOUS
    <3>2. QED
      BY <2>1, <3>1
  <2>3. PICK x \in T : \A y \in T : x <= y
    BY <2>2, LeastNumber
  <2> HIDE DEF N
  <2>4. N \in Nat /\ x \in Nat /\ N - x \in 1..N /\ members[N - x][1] = m
    <3>1. N \in Nat
      BY DEF N
    <3>2. QED
      BY <2>3, <3>1
  <2>5. ASSUME NEW o \in ((N - x) + 1)..N, members[o][1] = m PROVE FALSE
    <3>1. N - o \in Nat /\ N - o < N /\ N - (N - o) = o /\ ~(x <= N - o)
      BY <2>4
    <3>2. N - o \in T
      BY <2>5, <3>1
    <3>3. QED
      BY <2>3, <3>1, <3>2
  <2>6. \E z \in 1..N : members[z][1] = m /\ \A o \in (z + 1)..N : members[o][1] # m
    BY <2>4, <2>5
  <2>7. QED
    BY <2>6, Zenon DEF LastOf, N
<1>3. QED
  BY <1>1, <1>2

-----------------------------------------------------------------------------
(* What the functions make of a document.                                  *)

\* The canonical form keeps the kind of a document and goes by its parts.
LEMMA CanonicalizeIs ==
  ASSUME NEW k \in 0..MaxDepth, NEW d \in Documents[k]
  PROVE  /\ d.type = "number" => Canonicalize[k][d] = d
         /\ d.type = "array" =>
              Canonicalize[k][d] =
                Array([n \in 1..Len(d.items) |-> Canonicalize[k - 1][d.items[n]]])
         /\ d.type = "object" =>
              Canonicalize[k][d] =
                Object(Listed([m \in Keys(d.members) |->
                  Canonicalize[k - 1][LastValue(d.members, m)]]))
         /\ Canonicalize[k][d].type = d.type
<1> DEFINE below == Canonicalize[k - 1]
           ms == d.members
           out == [n \in 1..Len(ms) |-> below[ms[n][2]]]
<1>1. Canonicalize[k] = CanonicalizeLevel(k, below)
  BY CanonicalizeLevels
<1>2. d.type = "number" => Canonicalize[k][d] = d
  BY <1>1 DEF CanonicalizeLevel, DecodeNumber
<1>3. d.type = "array" =>
        Canonicalize[k][d] = Array([n \in 1..Len(d.items) |-> below[d.items[n]]])
  BY <1>1 DEF CanonicalizeLevel
<1>4. d.type = "object" => Canonicalize[k][d] = Object(MarshalMembers(ms, out))
  BY <1>1 DEF CanonicalizeLevel
<1>5. d.type = "object" =>
        MarshalMembers(ms, out) = Listed([m \in Keys(ms) |-> below[LastValue(ms, m)]])
  <2> SUFFICES ASSUME d.type = "object"
               PROVE  MarshalMembers(ms, out) =
                        Listed([m \in Keys(ms) |-> below[LastValue(ms, m)]])
    OBVIOUS
  <2>1. Len(ms) \in Nat
    BY DocumentKinds
  <2>2. \A m \in Keys(ms) : LastOf(ms, m) \in 1..Len(ms)
    BY <2>1, KeysAre
  <2>3. \A m \in Keys(ms) : out[LastOf(ms, m)] = below[LastValue(ms, m)]
    BY <2>2 DEF LastValue
  <2> HIDE DEF out, below, ms
  <2>4. [m \in Keys(ms) |-> out[LastOf(ms, m)]] = [m \in Keys(ms) |-> below[LastValue(ms, m)]]
    BY <2>3
  <2>5. QED
    BY <2>4 DEF MarshalMembers
<1>6. d.type \in {"number", "array", "object"}
  BY DocumentKinds
<1> HIDE DEF out, below, ms
<1>7. Canonicalize[k][d].type = d.type
  BY <1>2, <1>3, <1>4, <1>6 DEF Array, Object
<1>8. QED
  BY <1>2, <1>3, <1>4, <1>5, <1>7 DEF below, ms

\* So does what is stored.
LEMMA StoredIs ==
  ASSUME NEW k \in 0..MaxDepth, NEW d \in Documents[k]
  PROVE  /\ d.type = "number" => Stored[k][d] = Number(d.number, "plain")
         /\ d.type = "array" =>
              Stored[k][d] = Array([n \in 1..Len(d.items) |-> Stored[k - 1][d.items[n]]])
         /\ d.type = "object" =>
              Stored[k][d] =
                Object(Reverse(Listed([m \in Keys(d.members) |->
                  Stored[k - 1][LastValue(d.members, m)]])))
<1>1. Stored[k] = StoredLevel(k, Stored[k - 1])
  BY StoredLevels
<1>2. QED
  BY <1>1 DEF StoredLevel

\* And the value.
LEMMA ValueIs ==
  ASSUME NEW k \in 0..MaxDepth, NEW d \in Documents[k]
  PROVE  /\ d.type = "number" => Value[k][d] = <<"number", d.number>>
         /\ d.type = "array" =>
              Value[k][d] =
                <<"array", [n \in 1..Len(d.items) |-> Value[k - 1][d.items[n]]]>>
         /\ d.type = "object" =>
              Value[k][d] =
                <<"object", [m \in Keys(d.members) |-> Value[k - 1][LastValue(d.members, m)]]>>
<1>1. Value[k] = ValueLevel(k, Value[k - 1])
  BY ValueLevels
<1>2. QED
  BY <1>1 DEF ValueLevel

\* And the spelling.
LEMMA PlainIs ==
  ASSUME NEW k \in 0..MaxDepth, NEW d \in Documents[k]
  PROVE  /\ d.type = "number" => Plain[k][d] = (d.spelling = "plain")
         /\ d.type = "array" =>
              Plain[k][d] = \A n \in 1..Len(d.items) : Plain[k - 1][d.items[n]]
         /\ d.type = "object" =>
              Plain[k][d] = \A m \in Keys(d.members) : Plain[k - 1][LastValue(d.members, m)]
<1>1. Plain[k] = PlainLevel(k, Plain[k - 1])
  BY PlainLevels
<1>2. QED
  BY <1>1, Zenon DEF PlainLevel

\* A plainly spelled document is made of plainly spelled ones.
LEMMA PlainParts ==
  ASSUME NEW k \in 0..MaxDepth, NEW d \in Documents[k], Plain[k][d]
  PROVE  /\ d.type = "number" => d.spelling = "plain"
         /\ d.type = "array" => \A n \in 1..Len(d.items) : Plain[k - 1][d.items[n]]
         /\ d.type = "object" =>
              \A m \in Keys(d.members) : Plain[k - 1][LastValue(d.members, m)]
  BY PlainIs, Zenon

\* The parts of a document are nested less.
LEMMA PartsBelow ==
  ASSUME NEW k \in 0..MaxDepth, NEW d \in Documents[k]
  PROVE  /\ d.type # "number" => k \in Nat /\ k # 0 /\ k - 1 \in 0..MaxDepth
         /\ d.type = "array" =>
              Len(d.items) \in Nat /\ \A n \in 1..Len(d.items) : d.items[n] \in Documents[k - 1]
         /\ d.type = "object" =>
              /\ Len(d.members) \in Nat
              /\ Keys(d.members) \subseteq Names /\ Keys(d.members) \subseteq Int
              /\ IsFiniteSet(Keys(d.members))
              /\ \A m \in Keys(d.members) : LastValue(d.members, m) \in Documents[k - 1]
<1>1. d.type # "number" => k \in Nat /\ k # 0 /\ k - 1 \in 0..MaxDepth
  <2>1. d.type # "number" => k > 0
    BY DocumentKinds
  <2>2. k \in Nat /\ (k > 0 => k # 0 /\ k - 1 \in 0..MaxDepth)
    BY DocumentAssumption
  <2>3. QED
    BY <2>1, <2>2
<1>2. ASSUME d.type = "array"
      PROVE  Len(d.items) \in Nat /\ \A n \in 1..Len(d.items) : d.items[n] \in Documents[k - 1]
  <2>1. d.items \in Seq(Documents[k - 1])
    BY <1>2, DocumentKinds
  <2>2. QED
    BY <2>1
<1>3. ASSUME d.type = "object"
      PROVE  /\ Len(d.members) \in Nat
             /\ Keys(d.members) \subseteq Names /\ Keys(d.members) \subseteq Int
             /\ IsFiniteSet(Keys(d.members))
             /\ \A m \in Keys(d.members) : LastValue(d.members, m) \in Documents[k - 1]
  <2>1. d.members \in Seq(Names \X Documents[k - 1])
    BY <1>3, DocumentKinds
  <2>2. Len(d.members) \in Nat
        /\ \A n \in 1..Len(d.members) : d.members[n] \in Names \X Documents[k - 1]
    BY <2>1
  <2>3. \A n \in 1..Len(d.members) :
          d.members[n][1] \in Names /\ d.members[n][2] \in Documents[k - 1]
    BY <2>2
  <2>4. Keys(d.members) \subseteq Names
    BY <2>3 DEF Keys
  <2>5. IsFiniteSet(Keys(d.members))
    BY <2>2, KeysAre
  <2>6. \A m \in Keys(d.members) : LastOf(d.members, m) \in 1..Len(d.members)
    BY <2>2, KeysAre
  <2>7. \A m \in Keys(d.members) : LastValue(d.members, m) \in Documents[k - 1]
    BY <2>3, <2>6 DEF LastValue
  <2>8. QED
    BY <2>2, <2>4, <2>5, <2>7, DocumentAssumption
<1>4. QED
  BY <1>1, <1>2, <1>3

-----------------------------------------------------------------------------
(* Canonical forms and values, by induction on the nesting.                *)

\* What holds of scalars, and of a nesting when it holds of the one below, holds of
\* every nesting.
LEMMA NestingInduction ==
  ASSUME NEW P \in SUBSET (0..MaxDepth),
         \A k \in 0..MaxDepth : (k # 0 => k - 1 \in P) => k \in P
  PROVE  P = 0..MaxDepth
<1> DEFINE Q == {k \in Nat : \A j \in 0..MaxDepth : j <= k => j \in P}
<1>1. 0 \in Q
  <2>1. \A j \in 0..MaxDepth : j <= 0 => j = 0
    OBVIOUS
  <2>2. QED
    BY <2>1
<1>2. ASSUME NEW k \in Q PROVE k + 1 \in Q
  <2>1. k \in Nat /\ \A j \in 0..MaxDepth : j <= k => j \in P
    OBVIOUS
  <2>2. ASSUME NEW j \in 0..MaxDepth, j <= k + 1 PROVE j \in P
    <3>1. j \in Nat /\ (j # 0 => j - 1 \in 0..MaxDepth /\ j - 1 <= k)
      BY <2>1, <2>2, DocumentAssumption
    <3>2. QED
      BY <2>1, <3>1
  <2>3. QED
    BY <2>1, <2>2
<1> HIDE DEF Q
<1>3. \A k \in Nat : k \in Q
  <2>1. Q \in SUBSET Nat
    BY DEF Q
  <2>2. QED
    BY <1>1, <1>2, <2>1, SetInduction
<1>4. ASSUME NEW k \in 0..MaxDepth PROVE k \in P
  <2>1. k \in Nat /\ k <= k
    BY DocumentAssumption
  <2>2. QED
    BY <1>3, <2>1 DEF Q
<1>5. QED
  BY <1>4

\* Documents with the same canonical form have the same value.
THEOREM CanonicalDeterminesValue ==
  \A k \in 0..MaxDepth : \A c, d \in Documents[k] :
    Canonicalize[k][c] = Canonicalize[k][d] => Value[k][c] = Value[k][d]
<1> DEFINE Same(k) == \A c, d \in Documents[k] :
             Canonicalize[k][c] = Canonicalize[k][d] => Value[k][c] = Value[k][d]
<1>1. ASSUME NEW k \in 0..MaxDepth, k # 0 => Same(k - 1) PROVE Same(k)
  <2> SUFFICES ASSUME NEW c \in Documents[k], NEW d \in Documents[k],
                      Canonicalize[k][c] = Canonicalize[k][d]
               PROVE  Value[k][c] = Value[k][d]
    OBVIOUS
  <2>1. c.type = d.type
    <3>1. Canonicalize[k][c].type = c.type /\ Canonicalize[k][d].type = d.type
      BY CanonicalizeIs
    <3>2. QED
      BY <3>1
  <2>2. CASE c.type = "number"
    <3>1. Canonicalize[k][c] = c /\ Canonicalize[k][d] = d
      BY <2>1, <2>2, CanonicalizeIs
    <3>2. QED
      BY <3>1
  <2>3. CASE c.type = "array"
    <3> DEFINE f == [n \in 1..Len(c.items) |-> Canonicalize[k - 1][c.items[n]]]
               g == [n \in 1..Len(d.items) |-> Canonicalize[k - 1][d.items[n]]]
    <3>1. Canonicalize[k][c] = Array(f) /\ Canonicalize[k][d] = Array(g)
      BY <2>1, <2>3, CanonicalizeIs
    <3>2. f = g
      <4> HIDE DEF f, g
      <4>1. Array(f) = Array(g)
        BY <3>1
      <4>2. Array(f).items = Array(g).items
        BY <4>1
      <4>3. QED
        BY <4>2 DEF Array
    <3>3. /\ Len(c.items) \in Nat /\ Len(d.items) \in Nat
          /\ \A n \in 1..Len(c.items) : c.items[n] \in Documents[k - 1]
          /\ \A n \in 1..Len(d.items) : d.items[n] \in Documents[k - 1]
          /\ k # 0
      BY <2>1, <2>3, PartsBelow
    <3>4. Len(c.items) = Len(d.items)
      <4>1. 1..Len(c.items) = 1..Len(d.items)
        BY <3>2
      <4>2. QED
        BY <3>3, <4>1
    <3>5. \A n \in 1..Len(c.items) :
            Canonicalize[k - 1][c.items[n]] = Canonicalize[k - 1][d.items[n]]
      <4>1. ASSUME NEW n \in 1..Len(c.items)
            PROVE  Canonicalize[k - 1][c.items[n]] = Canonicalize[k - 1][d.items[n]]
        <5>1. f[n] = Canonicalize[k - 1][c.items[n]] /\ g[n] = Canonicalize[k - 1][d.items[n]]
          BY <3>4
        <5>2. QED
          BY <3>2, <5>1
      <4>2. QED
        BY <4>1
    <3>6. \A n \in 1..Len(c.items) : Value[k - 1][c.items[n]] = Value[k - 1][d.items[n]]
      BY <1>1, <3>3, <3>4, <3>5
    <3>7. [n \in 1..Len(c.items) |-> Value[k - 1][c.items[n]]]
            = [n \in 1..Len(d.items) |-> Value[k - 1][d.items[n]]]
      BY <3>4, <3>6
    <3>8. /\ Value[k][c] = <<"array", [n \in 1..Len(c.items) |-> Value[k - 1][c.items[n]]]>>
          /\ Value[k][d] = <<"array", [n \in 1..Len(d.items) |-> Value[k - 1][d.items[n]]]>>
      BY <2>1, <2>3, ValueIs
    <3>9. QED
      BY <3>7, <3>8
  <2>4. CASE c.type = "object"
    <3> DEFINE X == Keys(c.members)
               Y == Keys(d.members)
               f == [m \in X |-> Canonicalize[k - 1][LastValue(c.members, m)]]
               g == [m \in Y |-> Canonicalize[k - 1][LastValue(d.members, m)]]
    <3>1. Canonicalize[k][c] = Object(Listed(f)) /\ Canonicalize[k][d] = Object(Listed(g))
      BY <2>1, <2>4, CanonicalizeIs
    <3>2. Listed(f) = Listed(g)
      <4> HIDE DEF f, g
      <4>1. Object(Listed(f)) = Object(Listed(g))
        BY <3>1
      <4>2. Object(Listed(f)).members = Object(Listed(g)).members
        BY <4>1
      <4>3. QED
        BY <4>2 DEF Object
    <3>3. /\ X \subseteq Int /\ IsFiniteSet(X) /\ Y \subseteq Int /\ IsFiniteSet(Y)
          /\ \A m \in X : LastValue(c.members, m) \in Documents[k - 1]
          /\ \A m \in Y : LastValue(d.members, m) \in Documents[k - 1]
          /\ k # 0
      BY <2>1, <2>4, PartsBelow
    <3>4. DOMAIN f = X /\ DOMAIN g = Y
      OBVIOUS
    <3>5. X = Y /\ \A m \in X : f[m] = g[m]
      <4> HIDE DEF X, Y, f, g
      <4>1. DOMAIN f = DOMAIN g /\ \A m \in DOMAIN f : f[m] = g[m]
        BY <3>2, <3>3, <3>4, ListedInjective
      <4>2. QED
        BY <3>4, <4>1
    <3>6. \A m \in X : Canonicalize[k - 1][LastValue(c.members, m)]
                         = Canonicalize[k - 1][LastValue(d.members, m)]
      <4> HIDE DEF X, Y
      <4>1. QED
        BY <3>5
    <3> HIDE DEF X, Y
    <3>7. \A m \in X : Value[k - 1][LastValue(c.members, m)] = Value[k - 1][LastValue(d.members, m)]
      BY <1>1, <3>3, <3>5, <3>6
    <3>8. [m \in X |-> Value[k - 1][LastValue(c.members, m)]]
            = [m \in Y |-> Value[k - 1][LastValue(d.members, m)]]
      BY <3>5, <3>7
    <3>9. /\ Value[k][c] = <<"object", [m \in X |-> Value[k - 1][LastValue(c.members, m)]]>>
          /\ Value[k][d] = <<"object", [m \in Y |-> Value[k - 1][LastValue(d.members, m)]]>>
      BY <2>1, <2>4, ValueIs DEF X, Y
    <3>10. QED
      BY <3>8, <3>9
  <2>5. QED
    BY <2>2, <2>3, <2>4, DocumentKinds
<1> HIDE DEF Same
<1>2. {k \in 0..MaxDepth : Same(k)} = 0..MaxDepth
  BY <1>1, NestingInduction
<1>3. QED
  BY <1>2 DEF Same

\* Pairs are equal part by part.
LEMMA PairsEqual ==
  ASSUME NEW a, NEW b, NEW c, NEW d, <<a, b>> = <<c, d>>
  PROVE  a = c /\ b = d
  OBVIOUS

\* A value tells what kind of document it is of.
LEMMA ValueKind ==
  ASSUME NEW k \in 0..MaxDepth, NEW d \in Documents[k]
  PROVE  \E v : Value[k][d] = <<d.type, v>>
<1>1. CASE d.type = "number"
  <2>1. Value[k][d] = <<"number", d.number>>
    BY <1>1, ValueIs
  <2>2. QED
    BY <1>1, <2>1, Zenon
<1>2. CASE d.type = "array"
  <2>1. Value[k][d] = <<"array", [n \in 1..Len(d.items) |-> Value[k - 1][d.items[n]]]>>
    BY <1>2, ValueIs
  <2>2. QED
    BY <1>2, <2>1, Zenon
<1>3. CASE d.type = "object"
  <2>1. Value[k][d] =
          <<"object", [m \in Keys(d.members) |-> Value[k - 1][LastValue(d.members, m)]]>>
    BY <1>3, ValueIs
  <2>2. QED
    BY <1>3, <2>1, Zenon
<1>4. QED
  BY <1>1, <1>2, <1>3, DocumentKinds

\* Plainly spelled documents with the same value have the same canonical form.
THEOREM ValueDeterminesCanonical ==
  \A k \in 0..MaxDepth : \A c, d \in Documents[k] :
    Value[k][c] = Value[k][d] /\ Plain[k][c] /\ Plain[k][d]
      => Canonicalize[k][c] = Canonicalize[k][d]
<1> DEFINE Same(k) == \A c, d \in Documents[k] :
             Value[k][c] = Value[k][d] /\ Plain[k][c] /\ Plain[k][d]
               => Canonicalize[k][c] = Canonicalize[k][d]
<1>1. ASSUME NEW k \in 0..MaxDepth, k # 0 => Same(k - 1) PROVE Same(k)
  <2> SUFFICES ASSUME NEW c \in Documents[k], NEW d \in Documents[k],
                      Value[k][c] = Value[k][d], Plain[k][c], Plain[k][d]
               PROVE  Canonicalize[k][c] = Canonicalize[k][d]
    OBVIOUS
  <2>1. c.type = d.type
    <3>1. /\ \E v : Value[k][c] = <<c.type, v>>
          /\ \E w : Value[k][d] = <<d.type, w>>
      BY ValueKind
    <3>2. PICK v, w : <<c.type, v>> = <<d.type, w>>
      BY <3>1, Zenon
    <3>3. QED
      BY <3>2, PairsEqual
  <2>2. CASE c.type = "number"
    <3>1. c \in Scalars /\ d \in Scalars
      BY <2>1, <2>2, DocumentKinds
    <3>2. c.number = d.number
      <4>1. Value[k][c] = <<"number", c.number>>
        BY <2>2, ValueIs
      <4>2. Value[k][d] = <<"number", d.number>>
        BY <2>1, <2>2, ValueIs
      <4>3. <<"number", c.number>> = <<"number", d.number>>
        BY <4>1, <4>2, Zenon
      <4>4. QED
        BY <4>3, PairsEqual
    <3>3. c.spelling = "plain" /\ d.spelling = "plain"
      <4>1. c.spelling = "plain"
        BY <2>2, PlainParts, Zenon
      <4>2. d.spelling = "plain"
        BY <2>1, <2>2, PlainParts, Zenon
      <4>3. QED
        BY <4>1, <4>2
    <3>4. c = d
      BY <3>1, <3>2, <3>3 DEF Scalars
    <3>5. QED
      BY <3>4
  <2>3. CASE c.type = "array"
    <3> DEFINE f == [n \in 1..Len(c.items) |-> Value[k - 1][c.items[n]]]
               g == [n \in 1..Len(d.items) |-> Value[k - 1][d.items[n]]]
    <3>1. Value[k][c] = <<"array", f>> /\ Value[k][d] = <<"array", g>>
      BY <2>1, <2>3, ValueIs
    <3>2. f = g
      <4> HIDE DEF f, g
      <4>1. <<"array", f>> = <<"array", g>>
        BY <3>1, Zenon
      <4>2. QED
        BY <4>1, PairsEqual
    <3>3. /\ Len(c.items) \in Nat /\ Len(d.items) \in Nat
          /\ \A n \in 1..Len(c.items) : c.items[n] \in Documents[k - 1]
          /\ \A n \in 1..Len(d.items) : d.items[n] \in Documents[k - 1]
          /\ k # 0
      BY <2>1, <2>3, PartsBelow
    <3>4. Len(c.items) = Len(d.items)
      <4>1. 1..Len(c.items) = 1..Len(d.items)
        BY <3>2
      <4>2. QED
        BY <3>3, <4>1
    <3>5. \A n \in 1..Len(c.items) : Value[k - 1][c.items[n]] = Value[k - 1][d.items[n]]
      <4>1. ASSUME NEW n \in 1..Len(c.items)
            PROVE  Value[k - 1][c.items[n]] = Value[k - 1][d.items[n]]
        <5>1. f[n] = Value[k - 1][c.items[n]] /\ g[n] = Value[k - 1][d.items[n]]
          BY <3>4
        <5>2. QED
          BY <3>2, <5>1
      <4>2. QED
        BY <4>1
    <3>6. /\ \A n \in 1..Len(c.items) : Plain[k - 1][c.items[n]]
          /\ \A n \in 1..Len(c.items) : Plain[k - 1][d.items[n]]
      <4>1. \A n \in 1..Len(c.items) : Plain[k - 1][c.items[n]]
        BY <2>3, PlainParts, Zenon
      <4>2. \A n \in 1..Len(d.items) : Plain[k - 1][d.items[n]]
        BY <2>1, <2>3, PlainParts, Zenon
      <4>3. QED
        BY <3>4, <4>1, <4>2
    <3>7. \A n \in 1..Len(c.items) :
            Canonicalize[k - 1][c.items[n]] = Canonicalize[k - 1][d.items[n]]
      BY <1>1, <3>3, <3>4, <3>5, <3>6
    <3>8. [n \in 1..Len(c.items) |-> Canonicalize[k - 1][c.items[n]]]
            = [n \in 1..Len(d.items) |-> Canonicalize[k - 1][d.items[n]]]
      BY <3>4, <3>7
    <3>9. /\ Canonicalize[k][c] = Array([n \in 1..Len(c.items) |-> Canonicalize[k - 1][c.items[n]]])
          /\ Canonicalize[k][d] = Array([n \in 1..Len(d.items) |-> Canonicalize[k - 1][d.items[n]]])
      <4>1. d.type = "array"
        BY <2>1, <2>3
      <4>2. Canonicalize[k][c] = Array([n \in 1..Len(c.items) |-> Canonicalize[k - 1][c.items[n]]])
        BY <2>3, CanonicalizeIs, Zenon
      <4>3. Canonicalize[k][d] = Array([n \in 1..Len(d.items) |-> Canonicalize[k - 1][d.items[n]]])
        BY <4>1, CanonicalizeIs, Zenon
      <4>4. QED
        BY <4>2, <4>3
    <3>10. QED
      BY <3>8, <3>9
  <2>4. CASE c.type = "object"
    <3> DEFINE X == Keys(c.members)
               Y == Keys(d.members)
               f == [m \in X |-> Value[k - 1][LastValue(c.members, m)]]
               g == [m \in Y |-> Value[k - 1][LastValue(d.members, m)]]
    <3>1. Value[k][c] = <<"object", f>> /\ Value[k][d] = <<"object", g>>
      BY <2>1, <2>4, ValueIs
    <3>2. f = g
      <4> HIDE DEF f, g
      <4>1. <<"object", f>> = <<"object", g>>
        BY <3>1, Zenon
      <4>2. QED
        BY <4>1, PairsEqual
    <3>3. /\ \A m \in X : LastValue(c.members, m) \in Documents[k - 1]
          /\ \A m \in Y : LastValue(d.members, m) \in Documents[k - 1]
          /\ k # 0
      BY <2>1, <2>4, PartsBelow
    <3>4. /\ Canonicalize[k][c] =
               Object(Listed([m \in X |-> Canonicalize[k - 1][LastValue(c.members, m)]]))
          /\ Canonicalize[k][d] =
               Object(Listed([m \in Y |-> Canonicalize[k - 1][LastValue(d.members, m)]]))
      <4>1. d.type = "object"
        BY <2>1, <2>4
      <4>2. Canonicalize[k][c] =
              Object(Listed([m \in X |-> Canonicalize[k - 1][LastValue(c.members, m)]]))
        BY <2>4, CanonicalizeIs, Zenon
      <4>3. Canonicalize[k][d] =
              Object(Listed([m \in Y |-> Canonicalize[k - 1][LastValue(d.members, m)]]))
        BY <4>1, CanonicalizeIs, Zenon
      <4>4. QED
        BY <4>2, <4>3
    <3>5. /\ \A m \in X : Plain[k - 1][LastValue(c.members, m)]
          /\ \A m \in Y : Plain[k - 1][LastValue(d.members, m)]
      <4>1. \A m \in Keys(c.members) : Plain[k - 1][LastValue(c.members, m)]
        BY <2>4, PlainParts, Zenon
      <4>2. \A m \in Keys(d.members) : Plain[k - 1][LastValue(d.members, m)]
        BY <2>1, <2>4, PlainParts, Zenon
      <4>3. QED
        BY <4>1, <4>2
    <3> HIDE DEF X, Y
    <3>6. X = Y
      BY <3>2
    <3>7. \A m \in X : Value[k - 1][LastValue(c.members, m)] = Value[k - 1][LastValue(d.members, m)]
      <4>1. ASSUME NEW m \in X
            PROVE  Value[k - 1][LastValue(c.members, m)] = Value[k - 1][LastValue(d.members, m)]
        <5>1. /\ f[m] = Value[k - 1][LastValue(c.members, m)]
              /\ g[m] = Value[k - 1][LastValue(d.members, m)]
          BY <3>6
        <5>2. QED
          BY <3>2, <5>1
      <4>2. QED
        BY <4>1
    <3>8. \A m \in X : Canonicalize[k - 1][LastValue(c.members, m)]
                         = Canonicalize[k - 1][LastValue(d.members, m)]
      BY <1>1, <3>3, <3>5, <3>6, <3>7
    <3>9. [m \in X |-> Canonicalize[k - 1][LastValue(c.members, m)]]
            = [m \in Y |-> Canonicalize[k - 1][LastValue(d.members, m)]]
      BY <3>6, <3>8
    <3>10. QED
      BY <3>4, <3>9
  <2>5. QED
    BY <2>2, <2>3, <2>4, DocumentKinds
<1> HIDE DEF Same
<1>2. {k \in 0..MaxDepth : Same(k)} = 0..MaxDepth
  BY <1>1, NestingInduction
<1>3. QED
  BY <1>2 DEF Same

\* A list backwards has the same elements.
LEMMA Backwards ==
  ASSUME NEW list, Len(list) \in Nat
  PROVE  LET back == Reverse(list)
         IN  /\ Len(back) = Len(list) /\ DOMAIN back = 1..Len(list)
             /\ \A n \in 1..Len(list) :
                  (Len(list) - n) + 1 \in 1..Len(list) /\ back[n] = list[(Len(list) - n) + 1]
             /\ \A n \in 1..Len(list) : \E o \in 1..Len(list) : back[o] = list[n]
<1> DEFINE N == Len(list)
           back == Reverse(list)
<1>1. back = [i \in 1..N |-> list[(N - i) + 1]]
  BY DEF Reverse
<1> HIDE DEF N, back
<1>2. N \in Nat
  BY DEF N
<1>3. \A n \in 1..N : (N - n) + 1 \in 1..N /\ (N - ((N - n) + 1)) + 1 = n
  BY <1>2
<1>4. Len(back) = N /\ DOMAIN back = 1..N
  BY <1>1, <1>2
<1>5. \A n \in 1..N : back[n] = list[(N - n) + 1]
  BY <1>1
<1>6. ASSUME NEW n \in 1..N PROVE \E o \in 1..N : back[o] = list[n]
  <2>1. back[(N - n) + 1] = list[n]
    BY <1>3, <1>5
  <2>2. QED
    BY <1>3, <2>1
<1>7. QED
  BY <1>3, <1>4, <1>5, <1>6 DEF N, back

\* What JSONB makes of a map of documents are members again, which have the map's
\* names once each, with the map's values.
LEMMA StoredMembers ==
  ASSUME NEW map, DOMAIN map \subseteq Names, DOMAIN map \subseteq Int, IsFiniteSet(DOMAIN map),
         NEW S, \A m \in DOMAIN map : map[m] \in S
  PROVE  LET members == Reverse(Listed(map))
         IN  /\ members \in Seq(Names \X S)
             /\ Keys(members) = DOMAIN map
             /\ \A m \in DOMAIN map : LastValue(members, m) = map[m]
<1> DEFINE list == Listed(map)
           back == Reverse(list)
           N == Len(list)
<1>1. /\ N \in Nat
      /\ \A n \in 1..N : list[n] = <<list[n][1], map[list[n][1]]>> /\ list[n][1] \in DOMAIN map
      /\ \A i, j \in 1..N : list[i][1] = list[j][1] => i = j
      /\ \A m \in DOMAIN map : \E n \in 1..N : list[n][1] = m
  BY ListedIs
<1>2. /\ Len(back) = N /\ DOMAIN back = 1..N
      /\ \A n \in 1..N : (N - n) + 1 \in 1..N /\ back[n] = list[(N - n) + 1]
      /\ \A n \in 1..N : \E o \in 1..N : back[o] = list[n]
  BY <1>1, Backwards
<1>3. back = [n \in 1..N |-> back[n]]
  BY <1>1, <1>2 DEF Reverse
<1> HIDE DEF list, back, N
<1>4. \A n \in 1..N : back[n] = <<back[n][1], map[back[n][1]]>> /\ back[n][1] \in DOMAIN map
  <2>1. ASSUME NEW n \in 1..N
        PROVE  back[n] = <<back[n][1], map[back[n][1]]>> /\ back[n][1] \in DOMAIN map
    <3>1. PICK o \in 1..N : back[n] = list[o]
      BY <1>2
    <3>2. list[o] = <<list[o][1], map[list[o][1]]>> /\ list[o][1] \in DOMAIN map
      BY <1>1
    <3>3. QED
      BY <3>1, <3>2
  <2>2. QED
    BY <2>1
<1>5. back \in Seq(Names \X S)
  <2>1. \A n \in 1..N : back[n] \in Names \X S
    BY <1>4
  <2>2. QED
    BY <1>1, <1>3, <2>1
<1>6. Keys(back) = DOMAIN map
  <2>1. ASSUME NEW m \in DOMAIN map PROVE \E o \in 1..N : back[o][1] = m
    <3>1. PICK n \in 1..N : list[n][1] = m
      BY <1>1
    <3>2. PICK o \in 1..N : back[o] = list[n]
      BY <1>2
    <3>3. QED
      BY <3>1, <3>2
  <2>2. Keys(back) = {back[n][1] : n \in 1..N}
    BY <1>2 DEF Keys
  <2>3. QED
    BY <1>4, <2>1, <2>2
<1>7. ASSUME NEW m \in DOMAIN map PROVE LastValue(back, m) = map[m]
  <2>1. LastOf(back, m) \in 1..N /\ back[LastOf(back, m)][1] = m
    <3>1. Len(back) = N /\ Len(back) \in Nat /\ m \in Keys(back)
      BY <1>1, <1>2, <1>6
    <3>2. LastOf(back, m) \in 1..Len(back) /\ back[LastOf(back, m)][1] = m
      BY <3>1, KeysAre
    <3>3. QED
      BY <3>1, <3>2
  <2>2. back[LastOf(back, m)] = <<m, map[m]>>
    BY <1>4, <2>1
  <2>3. QED
    BY <2>2 DEF LastValue
<1>8. QED
  BY <1>5, <1>6, <1>7 DEF back, list

\* What is stored is a document.
LEMMA StoredType ==
  \A k \in 0..MaxDepth : \A d \in Documents[k] : Stored[k][d] \in Documents[k]
<1> DEFINE Typed(k) == \A d \in Documents[k] : Stored[k][d] \in Documents[k]
<1>1. ASSUME NEW k \in 0..MaxDepth, k # 0 => Typed(k - 1) PROVE Typed(k)
  <2> SUFFICES ASSUME NEW d \in Documents[k] PROVE Stored[k][d] \in Documents[k]
    OBVIOUS
  <2>1. CASE d.type = "number"
    <3>1. d \in Scalars
      BY <2>1, DocumentKinds
    <3>2. Stored[k][d] = Number(d.number, "plain")
      BY <2>1, StoredIs
    <3>3. Number(d.number, "plain") \in Scalars
      BY <3>1 DEF Scalars, Number, Spellings
    <3>4. QED
      BY <3>2, <3>3, DocumentMade
  <2>2. CASE d.type = "array"
    <3> DEFINE f == [n \in 1..Len(d.items) |-> Stored[k - 1][d.items[n]]]
    <3>1. /\ Len(d.items) \in Nat /\ k > 0
          /\ \A n \in 1..Len(d.items) : d.items[n] \in Documents[k - 1]
      BY <2>2, PartsBelow
    <3>2. \A n \in 1..Len(d.items) : Stored[k - 1][d.items[n]] \in Documents[k - 1]
      BY <1>1, <3>1
    <3>3. f \in Seq(Documents[k - 1])
      BY <3>1, <3>2
    <3>4. Stored[k][d] = Array(f)
      BY <2>2, StoredIs
    <3> HIDE DEF f
    <3>5. QED
      BY <3>1, <3>3, <3>4, DocumentMade
  <2>3. CASE d.type = "object"
    <3> DEFINE f == [m \in Keys(d.members) |-> Stored[k - 1][LastValue(d.members, m)]]
    <3>1. /\ Keys(d.members) \subseteq Names /\ Keys(d.members) \subseteq Int
          /\ IsFiniteSet(Keys(d.members))
          /\ \A m \in Keys(d.members) : LastValue(d.members, m) \in Documents[k - 1]
      BY <2>3, PartsBelow
    <3>2. k # 0 /\ k > 0
      <4>1. k \in Nat /\ k # 0
        BY <2>3, PartsBelow
      <4>2. QED
        BY <4>1
    <3>3. /\ DOMAIN f = Keys(d.members)
          /\ \A m \in Keys(d.members) : f[m] \in Documents[k - 1]
      BY <1>1, <3>2, <3>1
    <3>4. Stored[k][d] = Object(Reverse(Listed(f)))
      BY <2>3, StoredIs
    <3> HIDE DEF f
    <3>5. Reverse(Listed(f)) \in Seq(Names \X Documents[k - 1])
      BY <3>1, <3>3, StoredMembers
    <3>6. QED
      BY <3>2, <3>4, <3>5, DocumentMade
  <2>4. QED
    BY <2>1, <2>2, <2>3, DocumentKinds
<1> HIDE DEF Typed
<1>2. {k \in 0..MaxDepth : Typed(k)} = 0..MaxDepth
  BY <1>1, NestingInduction
<1>3. QED
  BY <1>2 DEF Typed

\* What is stored of a plainly spelled document has the document's canonical form.
THEOREM StoredCanonical ==
  \A k \in 0..MaxDepth : \A d \in Documents[k] :
    Plain[k][d] => Canonicalize[k][Stored[k][d]] = Canonicalize[k][d]
<1> DEFINE Keeps(k) == \A d \in Documents[k] :
             Plain[k][d] => Canonicalize[k][Stored[k][d]] = Canonicalize[k][d]
<1>1. ASSUME NEW k \in 0..MaxDepth, k # 0 => Keeps(k - 1) PROVE Keeps(k)
  <2> SUFFICES ASSUME NEW d \in Documents[k], Plain[k][d]
               PROVE  Canonicalize[k][Stored[k][d]] = Canonicalize[k][d]
    OBVIOUS
  <2> DEFINE s == Stored[k][d]
  <2>1. s \in Documents[k]
    BY StoredType
  <2>2. CASE d.type = "number"
    <3>1. d \in Scalars /\ d.spelling = "plain"
      BY <2>2, DocumentKinds, PlainIs
    <3>2. s = Number(d.number, "plain")
      BY <2>2, StoredIs
    <3>3. s = d
      BY <3>1, <3>2 DEF Scalars, Number
    <3>4. QED
      BY <3>3
  <2>3. CASE d.type = "array"
    <3> DEFINE f == [n \in 1..Len(d.items) |-> Stored[k - 1][d.items[n]]]
    <3>1. /\ Len(d.items) \in Nat /\ k # 0
          /\ \A n \in 1..Len(d.items) : d.items[n] \in Documents[k - 1]
      BY <2>3, PartsBelow
    <3>2. \A n \in 1..Len(d.items) : Plain[k - 1][d.items[n]]
      BY <2>3, PlainIs
    <3>3. s = Array(f)
      BY <2>3, StoredIs
    <3>4. s.type = "array" /\ s.items = f /\ Len(f) = Len(d.items)
      BY <3>1, <3>3 DEF Array
    <3>5. Canonicalize[k][s] =
            Array([n \in 1..Len(d.items) |-> Canonicalize[k - 1][f[n]]])
      <4> HIDE DEF s, f
      <4>1. Canonicalize[k][s] =
              Array([n \in 1..Len(s.items) |-> Canonicalize[k - 1][s.items[n]]])
        BY <2>1, <3>4, CanonicalizeIs
      <4>2. QED
        BY <3>4, <4>1
    <3>6. \A n \in 1..Len(d.items) : Canonicalize[k - 1][f[n]] = Canonicalize[k - 1][d.items[n]]
      <4>1. \A n \in 1..Len(d.items) : f[n] = Stored[k - 1][d.items[n]]
        OBVIOUS
      <4> HIDE DEF f
      <4>2. QED
        BY <1>1, <3>1, <3>2, <4>1
    <3> HIDE DEF s, f
    <3>7. [n \in 1..Len(d.items) |-> Canonicalize[k - 1][f[n]]]
            = [n \in 1..Len(d.items) |-> Canonicalize[k - 1][d.items[n]]]
      BY <3>6
    <3>8. Canonicalize[k][d] =
            Array([n \in 1..Len(d.items) |-> Canonicalize[k - 1][d.items[n]]])
      BY <2>3, CanonicalizeIs
    <3>9. QED
      BY <3>5, <3>7, <3>8 DEF s
  <2>4. CASE d.type = "object"
    <3> DEFINE X == Keys(d.members)
               f == [m \in X |-> Stored[k - 1][LastValue(d.members, m)]]
               back == Reverse(Listed(f))
    <3>1. /\ k # 0 /\ X \subseteq Names /\ X \subseteq Int /\ IsFiniteSet(X)
          /\ \A m \in X : LastValue(d.members, m) \in Documents[k - 1]
      BY <2>4, PartsBelow
    <3>2. \A m \in X : Plain[k - 1][LastValue(d.members, m)]
      BY <2>4, PlainIs
    <3>3. s = Object(back)
      BY <2>4, StoredIs
    <3>4. DOMAIN f = X /\ \A m \in X : f[m] = Stored[k - 1][LastValue(d.members, m)]
      OBVIOUS
    <3>5. Canonicalize[k][d] =
            Object(Listed([m \in X |-> Canonicalize[k - 1][LastValue(d.members, m)]]))
      BY <2>4, CanonicalizeIs
    <3> HIDE DEF s, f, X
    <3>6. Keys(back) = X /\ \A m \in X : LastValue(back, m) = f[m]
      <4>1. \A m \in X : f[m] \in Documents[k - 1]
        <5>1. k - 1 \in 0..MaxDepth
          BY <2>4, PartsBelow
        <5>2. QED
          BY <3>1, <3>4, <5>1, StoredType
      <4>2. QED
        BY <3>1, <3>4, <4>1, StoredMembers
    <3> HIDE DEF back
    <3>7. s.type = "object" /\ s.members = back
      BY <3>3 DEF Object
    <3>8. Canonicalize[k][s] =
            Object(Listed([m \in X |-> Canonicalize[k - 1][LastValue(back, m)]]))
      <4>1. Canonicalize[k][s] =
              Object(Listed([m \in Keys(s.members) |->
                Canonicalize[k - 1][LastValue(s.members, m)]]))
        BY <2>1, <3>7, CanonicalizeIs
      <4>2. QED
        BY <3>6, <3>7, <4>1
    <3>9. \A m \in X : Canonicalize[k - 1][LastValue(back, m)]
                         = Canonicalize[k - 1][LastValue(d.members, m)]
      BY <1>1, <3>1, <3>2, <3>4, <3>6
    <3>10. [m \in X |-> Canonicalize[k - 1][LastValue(back, m)]]
             = [m \in X |-> Canonicalize[k - 1][LastValue(d.members, m)]]
      BY <3>9
    <3>11. QED
      BY <3>5, <3>8, <3>10 DEF s
  <2>5. QED
    BY <2>2, <2>3, <2>4, DocumentKinds
<1> HIDE DEF Keeps
<1>2. {k \in 0..MaxDepth : Keeps(k)} = 0..MaxDepth
  BY <1>1, NestingInduction
<1>3. QED
  BY <1>2 DEF Keeps

-----------------------------------------------------------------------------
(* The payloads that clients write.                                        *)

\* The payload read is one that was written.
LEMMA DocumentType == SpecPayload => [](document # NoDocument => document \in Inputs)
<1> DEFINE Read == document # NoDocument => document \in Inputs
<1>1. InitPayload => Read
  BY DEF InitPayload
<1>2. Read /\ [ReadPayload]_document => Read'
  BY DEF ReadPayload
<1>3. QED
  BY <1>1, <1>2, PTL DEF SpecPayload

\* Canonicalize gives documents the same bytes exactly if they have the same value,
\* as far as they spell their numbers alike: for payloads nested to any depth, with
\* any names and numbers, members in any order, names repeated or not.
THEOREM CanonicalCorrect == SpecPayload => []CanonicalIsValue
<1>1. ASSUME document # NoDocument => document \in Inputs PROVE CanonicalIsValue
  <2> SUFFICES ASSUME document # NoDocument, NEW d \in Inputs
               PROVE  /\ CanonicalOf[d] = CanonicalOf[document] => ValueOf[d] = ValueOf[document]
                      /\ ValueOf[d] = ValueOf[document] /\ IsPlain(d) /\ IsPlain(document)
                           => CanonicalOf[d] = CanonicalOf[document]
    BY DEF CanonicalIsValue
  <2>1. document \in Inputs /\ d \in Documents[MaxDepth] /\ document \in Documents[MaxDepth]
    BY <1>1, InputsAssumption
  <2>2. \A e \in Inputs : /\ CanonicalOf[e] = Canonicalize[MaxDepth][e]
                           /\ ValueOf[e] = Value[MaxDepth][e]
                           /\ IsPlain(e) = Plain[MaxDepth][e]
    BY DEF CanonicalOf, ValueOf, IsPlain
  <2>3. MaxDepth \in 0..MaxDepth
    BY DocumentAssumption
  <2>4. QED
    BY <2>1, <2>2, <2>3, CanonicalDeterminesValue, ValueDeterminesCanonical
<1>2. QED
  BY <1>1, DocumentType, PTL

\* The payload that the JSONB column gives back has the hash of the one written, if
\* no number that counts was written with an exponent.
THEOREM StoredCorrect == SpecPayload => []StoredKeepsHash
<1>1. ASSUME document # NoDocument => document \in Inputs PROVE StoredKeepsHash
  <2> SUFFICES ASSUME document # NoDocument, IsPlain(document)
               PROVE  Canonicalize[MaxDepth][Stored[MaxDepth][document]] = CanonicalOf[document]
    BY DEF StoredKeepsHash
  <2>1. document \in Inputs /\ document \in Documents[MaxDepth]
    BY <1>1, InputsAssumption
  <2>2. CanonicalOf[document] = Canonicalize[MaxDepth][document]
    BY <2>1 DEF CanonicalOf
  <2>3. MaxDepth \in 0..MaxDepth
    BY DocumentAssumption
  <2>4. Plain[MaxDepth][document]
    BY DEF IsPlain
  <2>5. QED
    BY <2>1, <2>2, <2>3, <2>4, StoredCanonical
<1>2. QED
  BY <1>1, DocumentType, PTL
=============================================================================
