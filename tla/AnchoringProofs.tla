--------------------------- MODULE AnchoringProofs ---------------------------
(***************************************************************************)
(* Proofs about Anchoring for any instances, handlers, readers and inputs. *)
(* What is about the extent of a range needs callers that name no end past *)
(* the log (PastEnd = FALSE); that a row has a receipt does not.           *)
(***************************************************************************)
EXTENDS Anchoring, TLAPS

\* The theorems about the Merkle tree; the list that MerkleLists grows plays no part.
Tree == INSTANCE PrimitiveProofs WITH
    Leaves <- {}, MaxLeaves <- 0, leaves <- <<>>,
    Names <- {}, Numbers <- {}, MaxDepth <- 0,
    Inputs <- {}, NoDocument <- 0, document <- 0

-----------------------------------------------------------------------------
(* The tree over a range.                                                  *)

\* The tree of Tree is the one that Anchoring uses.
LEMMA SameLevels == \A s : Tree!BuildLevels(s) = BuildLevels(s)
<1>1. \A s : Tree!Rounds(s) = Rounds(s)
  BY Zenon DEF Tree!Rounds, Rounds, Tree!LeafNode, LeafNode, Tree!LeafPrefix, LeafPrefix,
               Tree!Parents, Parents, Tree!CombineNodes, CombineNodes,
               Tree!InternalPrefix, InternalPrefix
<1>2. QED
  BY <1>1, Zenon DEF Tree!BuildLevels, BuildLevels

LEMMA SameTree ==
  /\ \A s : Tree!MerkleRoot(s) = MerkleRoot(s)
  /\ \A s, i : Tree!InclusionProof(s, i) = InclusionProof(s, i)
  /\ \A s, p, r : Tree!VerifyInclusion(s, p, r) = VerifyInclusion(s, p, r)
<1>1. \A s : Tree!MerkleRoot(s) = MerkleRoot(s)
  BY SameLevels, Zenon DEF Tree!MerkleRoot, MerkleRoot, Tree!Last, Last
<1>2. \A s, i : Tree!InclusionProof(s, i) = InclusionProof(s, i)
  <2>1. \A l, i : Tree!Positions(l, i) = Positions(l, i)
    BY Zenon DEF Tree!Positions, Positions
  <2>2. \A l, k : Tree!Sibling(l, k) = Sibling(l, k)
    BY Zenon DEF Tree!Sibling, Sibling
  <2>3. QED
    BY SameLevels, <2>1, <2>2, SMT DEF Tree!InclusionProof, InclusionProof
<1>3. \A s, p, r : Tree!VerifyInclusion(s, p, r) = VerifyInclusion(s, p, r)
  BY Zenon DEF Tree!VerifyInclusion, VerifyInclusion, Tree!Walk, Walk, Tree!Climb, Climb,
               Tree!LeafNode, LeafNode, Tree!LeafPrefix, LeafPrefix,
               Tree!CombineNodes, CombineNodes, Tree!InternalPrefix, InternalPrefix
<1>4. QED
  BY <1>1, <1>2, <1>3

\* The entry hashes of a range that ends inside the log, whatever the log is.
First(start) == IF start < 1 THEN 1 ELSE start
RangeHashes(start, end) ==
    [n \in 1..(IF end < First(start) THEN 0 ELSE end - First(start) + 1) |-> First(start) + n - 1]

LEMMA HashesInside ==
  ASSUME last_sequence \in Nat, NEW start \in Nat, NEW end \in Nat, end <= last_sequence
  PROVE  Hashes(start, end) = RangeHashes(start, end)
<1>1. (IF end < last_sequence THEN end ELSE last_sequence) = end
  OBVIOUS
<1>2. QED
  BY <1>1 DEF Hashes, RangeHashes, First

\* The path to an entry of a range leads to the root of the range.
LEMMA RangeProof ==
  ASSUME NEW start \in Nat, NEW end \in Nat, NEW seq \in Nat,
         1 <= seq, start <= seq, seq <= end
  PROVE  LET hashes == RangeHashes(start, end)
         IN  VerifyInclusion(seq,
                             InclusionProof(hashes, CHOOSE n \in 0..(Len(hashes) - 1) :
                                                      hashes[n + 1] = seq),
                             MerkleRoot(hashes))
<1> DEFINE hashes == RangeHashes(start, end)
           lo     == First(start)
           idx    == CHOOSE n \in 0..(Len(hashes) - 1) : hashes[n + 1] = seq
<1>1. lo \in Nat /\ 1 <= lo /\ lo <= seq
  BY DEF First
<1>2. hashes = [n \in 1..(end - lo + 1) |-> lo + n - 1] /\ end - lo + 1 \in Nat
  BY <1>1 DEF RangeHashes
<1> HIDE DEF hashes, lo
<1>3. Len(hashes) = end - lo + 1
  BY <1>2
<1>4. \E n \in 0..(Len(hashes) - 1) : hashes[n + 1] = seq
  <2>1. /\ seq - lo \in 0..(Len(hashes) - 1) /\ (seq - lo) + 1 \in 1..(end - lo + 1)
        /\ lo + ((seq - lo) + 1) - 1 = seq
    BY <1>1, <1>3
  <2>2. hashes[(seq - lo) + 1] = seq
    BY <1>2, <2>1
  <2>3. QED
    BY <2>1, <2>2
<1>5. idx \in 0..(Len(hashes) - 1) /\ hashes[idx + 1] = seq
  BY <1>4
<1> HIDE DEF idx
<1>6. Len(hashes) \in Nat \ {0}
  BY <1>1, <1>2, <1>3
<1>7. Tree!VerifyInclusion(seq, Tree!InclusionProof(hashes, idx), Tree!MerkleRoot(hashes))
  BY <1>5, <1>6, Tree!InclusionCorrect
<1>8. VerifyInclusion(seq, InclusionProof(hashes, idx), MerkleRoot(hashes))
  BY <1>7, SameTree
<1>9. QED
  BY <1>8 DEF hashes, idx

-----------------------------------------------------------------------------
(* The invariant.                                                          *)

\* What an anchor step j knows about the log up to last, the rows and what the
\* services hold: the range is inside the log and has entries, the root is the range's,
\* each provider it is done with has a row, and what it is about to insert is held.
JobShape(j) ==
    \/ j = Idle
    \/ /\ j.pc \in {"resolve", "query"}
       /\ j = [pc |-> j.pc, start |-> j.start, end |-> j.end, names |-> j.names]
    \/ /\ j.pc \in {"loop", "done"}
       /\ j = [pc |-> j.pc, start |-> j.start, end |-> j.end, root |-> j.root,
               todo |-> j.todo, done |-> j.done]
    \/ /\ j.pc = "insert"
       /\ j = [pc |-> j.pc, start |-> j.start, end |-> j.end, root |-> j.root,
               todo |-> j.todo, done |-> j.done, got |-> j.got]

HasRow(j, d, rows) ==
    \E a \in rows : /\ a.provider = KindOf[d.instance]
                    /\ a.range_start = j.start /\ a.range_end = j.end
                    /\ a.merkle_root = j.root

JobOK(j, last, rows, pub) ==
    /\ JobShape(j)
    /\ j # Idle => j.start \in Nat /\ j.end \in Nat
    /\ j.pc = "insert" =>
         \E p \in pub : /\ KindOf[p.instance] = KindOf[j.got.instance]
                        /\ p.external_id = j.got.external_id
                        /\ p.root = j.root
    /\ ~PastEnd /\ j.pc \in {"query", "loop", "insert", "done"} => j.end <= last
    /\ ~PastEnd /\ j.pc \in {"loop", "insert", "done"} =>
         /\ RangeHashes(j.start, j.end) # <<>>
         /\ j.root = MerkleRoot(RangeHashes(j.start, j.end))
         /\ \A d \in j.done : HasRow(j, d, rows)

\* A row is about a range inside the log and has a receipt.
RowOK(a, last, pub) ==
    /\ a.id \in Nat /\ a.range_start \in Nat /\ a.range_end \in Nat
    /\ \E p \in pub : /\ KindOf[p.instance] = a.provider
                      /\ p.external_id = a.external_id
                      /\ p.root = a.merkle_root
    /\ ~PastEnd => /\ a.range_end <= last
                   /\ a.merkle_root = MerkleRoot(RangeHashes(a.range_start, a.range_end))

\* A proof step is about an entry of the log, the anchor it chose covers that entry,
\* and the path it answers leads to the anchored root.
ReaderOK(q, last, rows) ==
    \/ q = Idle
    \/ /\ q.pc \in {"entry", "unanchored"}
       /\ q = [pc |-> q.pc, seq |-> q.seq]
       /\ q.seq \in 1..last
    \/ /\ q.pc = "anchors"
       /\ q = [pc |-> q.pc, seq |-> q.seq, anchor |-> q.anchor]
       /\ q.seq \in 1..last
       /\ q.anchor \in rows
       /\ q.anchor.range_start <= q.seq /\ q.seq <= q.anchor.range_end
    \/ /\ q.pc = "proved"
       /\ q = [pc |-> q.pc, seq |-> q.seq, root |-> q.root, path |-> q.path]
       /\ ~PastEnd => VerifyInclusion(q.seq, q.path, q.root)

IndInv ==
    /\ last_sequence \in Nat /\ next_id \in Nat
    /\ DOMAIN job = Handlers /\ job = [h \in Handlers |-> job[h]]
    /\ DOMAIN reader = Readers /\ reader = [r \in Readers |-> reader[r]]
    /\ \A h \in Handlers : JobOK(job[h], last_sequence, audit_anchors, published)
    /\ \A a \in audit_anchors : RowOK(a, last_sequence, published)
    /\ \A r \in Readers : ReaderOK(reader[r], last_sequence, audit_anchors)

\* The log, the table and what the services hold only grow.
Grows ==
    /\ last_sequence' \in Nat /\ next_id' \in Nat
    /\ last_sequence <= last_sequence'
    /\ audit_anchors \subseteq audit_anchors'
    /\ published \subseteq published'

LEMMA IdleIsNoOther == Idle.pc = "idle" /\ \A h : JobShape(h) => (h = Idle <=> h.pc = "idle")
  BY DEF Idle, JobShape

LEMMA JobKept ==
  ASSUME NEW j, NEW l \in Nat, NEW m \in Nat, l <= m,
         NEW rows, NEW more, rows \subseteq more, NEW pub, NEW moreHeld, pub \subseteq moreHeld,
         JobOK(j, l, rows, pub)
  PROVE  JobOK(j, m, more, moreHeld)
<1>1. JobShape(j) /\ (j # Idle => j.start \in Nat /\ j.end \in Nat)
  BY DEF JobOK
<1>2. j.pc \in {"query", "loop", "insert", "done"} => j # Idle
  BY DEF Idle
<1>3. ~PastEnd /\ j.pc \in {"query", "loop", "insert", "done"} => j.end <= m
  BY <1>1, <1>2 DEF JobOK
<1>4. \A d : HasRow(j, d, rows) => HasRow(j, d, more)
  BY DEF HasRow
<1>5. QED
  BY <1>1, <1>3, <1>4 DEF JobOK

LEMMA RowKept ==
  ASSUME NEW a, NEW l \in Nat, NEW m \in Nat, l <= m,
         NEW pub, NEW moreHeld, pub \subseteq moreHeld, RowOK(a, l, pub)
  PROVE  RowOK(a, m, moreHeld)
  BY DEF RowOK

LEMMA ReaderKept ==
  ASSUME NEW q, NEW l \in Nat, NEW m \in Nat, l <= m,
         NEW rows, NEW more, rows \subseteq more, ReaderOK(q, l, rows)
  PROVE  ReaderOK(q, m, more)
<1>1. 1..l \subseteq 1..m
  OBVIOUS
<1>2. QED
  BY <1>1 DEF ReaderOK

\* A step of one handler, all else only growing.
LEMMA JobStep ==
  ASSUME IndInv, Grows, NEW h \in Handlers, NEW j,
         Step(h, j),
         JobOK(j, last_sequence', audit_anchors', published'),
         \A a \in audit_anchors' \ audit_anchors : RowOK(a, last_sequence', published')
  PROVE  IndInv'
<1>1. job' = [job EXCEPT ![h] = j] /\ reader' = reader
  BY DEF Step
<1>2. /\ last_sequence \in Nat /\ last_sequence' \in Nat /\ next_id' \in Nat
      /\ last_sequence <= last_sequence'
      /\ audit_anchors \subseteq audit_anchors' /\ published \subseteq published'
  BY DEF Grows, IndInv
<1>3. DOMAIN job' = Handlers /\ job' = [g \in Handlers |-> job'[g]]
  BY <1>1 DEF IndInv
<1>4. ASSUME NEW g \in Handlers
      PROVE  JobOK(job'[g], last_sequence', audit_anchors', published')
  <2>1. CASE g = h
    BY <1>1, <2>1 DEF IndInv
  <2>2. CASE g # h
    <3>1. job'[g] = job[g] /\ JobOK(job[g], last_sequence, audit_anchors, published)
      BY <1>1, <2>2 DEF IndInv
    <3>2. QED
      BY <1>2, <3>1, JobKept
  <2>3. QED
    BY <2>1, <2>2
<1>5. ASSUME NEW a \in audit_anchors' PROVE RowOK(a, last_sequence', published')
  <2>1. CASE a \in audit_anchors
    <3>1. RowOK(a, last_sequence, published)
      BY <2>1 DEF IndInv
    <3>2. QED
      BY <1>2, <3>1, RowKept
  <2>2. QED
    BY <2>1
<1>6. ASSUME NEW r \in Readers PROVE ReaderOK(reader'[r], last_sequence', audit_anchors')
  <2>1. ReaderOK(reader[r], last_sequence, audit_anchors)
    BY DEF IndInv
  <2>2. QED
    BY <1>1, <1>2, <2>1, ReaderKept
<1>7. DOMAIN reader' = Readers /\ reader' = [r \in Readers |-> reader'[r]]
  BY <1>1 DEF IndInv
<1>8. QED
  BY <1>2, <1>3, <1>4, <1>5, <1>6, <1>7 DEF IndInv

\* A step of one proof handler.
LEMMA ReadStep ==
  ASSUME IndInv, NEW r \in Readers, NEW q, Read(r, q),
         ReaderOK(q, last_sequence, audit_anchors)
  PROVE  IndInv'
<1>1. /\ reader' = [reader EXCEPT ![r] = q] /\ last_sequence' = last_sequence
      /\ audit_anchors' = audit_anchors /\ next_id' = next_id /\ published' = published
      /\ job' = job
  BY DEF Read, table, world
<1>2. DOMAIN reader' = Readers /\ reader' = [s \in Readers |-> reader'[s]]
  BY <1>1 DEF IndInv
<1>3. ASSUME NEW s \in Readers PROVE ReaderOK(reader'[s], last_sequence', audit_anchors')
  <2>1. CASE s = r
    BY <1>1, <2>1 DEF IndInv
  <2>2. CASE s # r
    BY <1>1, <2>2 DEF IndInv
  <2>3. QED
    BY <2>1, <2>2
<1>4. QED
  BY <1>1, <1>2, <1>3 DEF IndInv

-----------------------------------------------------------------------------
(* The steps.                                                              *)

\* A service that gave a receipt has the root.
LEMMA ReceiptsAreHeld ==
  ASSUME NEW kind \in Kinds, NEW o \in AnchorOutcomes(kind), o.ok
  PROVE  o.held
<1>1. CASE kind = "opentimestamps"
  <2>1. PICK r : o = AnchorOpenTimestamps(r)
    BY <1>1 DEF AnchorOutcomes
  <2>2. QED
    BY <2>1 DEF AnchorOpenTimestamps
<1>2. CASE kind = "git"
  <2>1. PICK r : o = AnchorGit(r)
    BY <1>2 DEF AnchorOutcomes
  <2>2. QED
    BY <2>1 DEF AnchorGit
<1>3. CASE kind = "sigstore"
  <2>1. PICK r : o = AnchorSigstore(r)
    BY <1>3 DEF AnchorOutcomes
  <2>2. QED
    BY <2>1 DEF AnchorSigstore
<1>4. QED
  BY <1>1, <1>2, <1>3 DEF Kinds

\* A handler that ends early leaves nothing to be known.
LEMMA IdleOK == \A l, rows, pub : JobOK(Idle, l, rows, pub)
  BY DEF JobOK, JobShape, Idle

\* What JobOK says of a handler between its range query and its response.
LEMMA JobParts ==
  ASSUME IndInv, NEW h \in Handlers, job[h].pc # "idle"
  PROVE  /\ job[h] # Idle /\ job[h].start \in Nat /\ job[h].end \in Nat
         /\ JobOK(job[h], last_sequence, audit_anchors, published)
<1>1. JobOK(job[h], last_sequence, audit_anchors, published)
  BY DEF IndInv
<1>2. job[h] # Idle
  BY DEF Idle
<1>3. QED
  BY <1>1, <1>2 DEF JobOK

\* Nothing but the handler changes.
LEMMA QuietGrows ==
  ASSUME IndInv, UNCHANGED <<last_sequence, table, world>>
  PROVE  Grows /\ audit_anchors' = audit_anchors /\ published' = published
  BY DEF IndInv, Grows, table, world

LEMMA StartKeeps ==
  ASSUME IndInv, NEW h \in Handlers, NEW s \in StartSequences, NEW e \in EndSequences,
         NEW names, StartAnchor(h, s, e, names)
  PROVE  IndInv'
<1> DEFINE j == [pc |-> IF e = 0 THEN "resolve" ELSE "query", start |-> s, end |-> e, names |-> names]
<1>1. s \in Nat /\ e \in Nat /\ PastEnd \in BOOLEAN
  BY InputAssumption
<1>2. Step(h, j) /\ (~PastEnd => e <= last_sequence) /\ UNCHANGED <<last_sequence, table, world>>
  BY DEF StartAnchor, Step
<1>3. /\ j.pc \in {"resolve", "query"} /\ j.start = s /\ j.end = e
      /\ j = [pc |-> j.pc, start |-> j.start, end |-> j.end, names |-> j.names]
  OBVIOUS
<1> HIDE DEF j
<1>4. JobOK(j, last_sequence, audit_anchors, published)
  BY <1>1, <1>2, <1>3 DEF JobOK, JobShape
<1>5. Grows /\ audit_anchors' = audit_anchors /\ published' = published /\ last_sequence' = last_sequence
  BY <1>2, QuietGrows
<1>6. QED
  BY <1>2, <1>4, <1>5, JobStep

LEMMA ResolveKeeps ==
  ASSUME IndInv, NEW h \in Handlers, ResolveEnd(h)
  PROVE  IndInv'
<1> DEFINE asked == [job[h] EXCEPT !.pc = "query"]
           j     == [asked EXCEPT !.end = last_sequence]
<1>1. job[h].pc = "resolve" /\ Step(h, j) /\ UNCHANGED <<last_sequence, table, world>>
  BY DEF ResolveEnd, Step
<1>2. /\ JobOK(job[h], last_sequence, audit_anchors, published) /\ job[h].start \in Nat
      /\ job[h] # Idle
  BY <1>1, JobParts
<1>3. job[h] = [pc |-> job[h].pc, start |-> job[h].start, end |-> job[h].end, names |-> job[h].names]
  BY <1>1, <1>2 DEF JobOK, JobShape
<1>4. j = [pc |-> "query", start |-> job[h].start, end |-> last_sequence, names |-> job[h].names]
  <2>1. asked = [pc |-> "query", start |-> job[h].start, end |-> job[h].end, names |-> job[h].names]
    BY <1>3
  <2> HIDE DEF asked
  <2>2. QED
    BY <2>1
<1>5. last_sequence \in Nat
  BY DEF IndInv
<1> HIDE DEF j
<1>6. JobOK(j, last_sequence, audit_anchors, published)
  BY <1>2, <1>4, <1>5 DEF JobOK, JobShape
<1>7. Grows /\ audit_anchors' = audit_anchors /\ published' = published /\ last_sequence' = last_sequence
  BY <1>1, QuietGrows
<1>8. QED
  BY <1>1, <1>6, <1>7, JobStep

LEMMA QueryKeeps ==
  ASSUME IndInv, NEW h \in Handlers, QueryHashes(h)
  PROVE  IndInv'
<1> DEFINE hashes == Hashes(job[h].start, job[h].end)
           names  == IF job[h].names = {} THEN registry ELSE job[h].names
           j      == IF hashes = <<>> THEN Idle ELSE Loop(job[h], MerkleRoot(hashes), names, {})
<1>1. job[h].pc = "query" /\ Step(h, j) /\ UNCHANGED <<last_sequence, table, world>>
  BY DEF QueryHashes, Step
<1>2. /\ JobOK(job[h], last_sequence, audit_anchors, published)
      /\ job[h].start \in Nat /\ job[h].end \in Nat
  BY <1>1, JobParts
<1>3. ~PastEnd => job[h].end <= last_sequence
  BY <1>1, <1>2 DEF JobOK
<1>4. ~PastEnd => hashes = RangeHashes(job[h].start, job[h].end)
  BY <1>2, <1>3, HashesInside DEF IndInv
<1> HIDE DEF hashes, names
<1>5. JobOK(j, last_sequence, audit_anchors, published)
  <2>1. CASE hashes = <<>>
    BY <2>1, IdleOK
  <2>2. CASE hashes # <<>>
    <3>1. j = [pc |-> "loop", start |-> job[h].start, end |-> job[h].end,
               root |-> MerkleRoot(hashes), todo |-> names, done |-> {}]
      BY <2>2 DEF Loop
    <3> HIDE DEF j
    <3>2. QED
      BY <1>2, <1>3, <1>4, <2>2, <3>1 DEF JobOK, JobShape
  <2>3. QED
    BY <2>1, <2>2
<1> HIDE DEF j
<1>6. Grows /\ audit_anchors' = audit_anchors /\ published' = published /\ last_sequence' = last_sequence
  BY <1>1, QuietGrows
<1>7. QED
  BY <1>1, <1>5, <1>6, JobStep

\* The ends of a handler: nothing else changes.
LEMMA EndKeeps ==
  ASSUME IndInv, NEW h \in Handlers, Step(h, Idle), Grows, audit_anchors' = audit_anchors
  PROVE  IndInv'
  BY IdleOK, JobStep

LEMMA SubmitKeeps ==
  ASSUME IndInv, NEW h \in Handlers, NEW i \in Instances,
         NEW o \in AnchorOutcomes(KindOf[i]), Submit(h, i, o)
  PROVE  IndInv'
<1> DEFINE id == ExternalId(i, job[h].root, submissions)
           j  == Submitted(job[h], i, id)
           p  == Published(job[h], i, submissions)
<1>1. KindOf[i] \in Kinds
  BY KindAssumption
<1>2. /\ job[h].pc = "loop" /\ Step(h, j) /\ o.held
      /\ published' = published \cup {p} /\ UNCHANGED <<last_sequence, table>>
  BY <1>1, ReceiptsAreHeld DEF Submit, CallAnchor, Step
<1>3. /\ JobOK(job[h], last_sequence, audit_anchors, published)
      /\ job[h].start \in Nat /\ job[h].end \in Nat
  BY <1>2, JobParts
<1>4. p.instance = i /\ p.external_id = id /\ p.root = job[h].root /\ p \in published'
  BY <1>2 DEF Published
<1> HIDE DEF id, p
<1>5. j = [pc |-> "insert", start |-> job[h].start, end |-> job[h].end, root |-> job[h].root,
           todo |-> job[h].todo \ {i}, done |-> job[h].done,
           got |-> [instance |-> i, external_id |-> id]]
  BY DEF Submitted
<1> HIDE DEF j
<1>6. JobShape(j) /\ j.pc = "insert" /\ j.start \in Nat /\ j.end \in Nat
  BY <1>3, <1>5 DEF JobShape
<1>7. \E x \in published' : /\ KindOf[x.instance] = KindOf[j.got.instance]
                            /\ x.external_id = j.got.external_id
                            /\ x.root = j.root
  BY <1>4, <1>5
<1>8. ~PastEnd => /\ j.end <= last_sequence
                  /\ RangeHashes(j.start, j.end) # <<>>
                  /\ j.root = MerkleRoot(RangeHashes(j.start, j.end))
                  /\ \A d \in j.done : HasRow(j, d, audit_anchors)
  BY <1>2, <1>3, <1>5 DEF JobOK, HasRow
<1>9. JobOK(j, last_sequence', audit_anchors', published')
  BY <1>2, <1>6, <1>7, <1>8 DEF JobOK, table
<1>10. Grows /\ audit_anchors' = audit_anchors
  BY <1>2 DEF Grows, IndInv, table
<1>11. QED
  BY <1>2, <1>9, <1>10, JobStep

\* The row is inserted, or there is one with its range already: of the same root,
\* as both are the range's.
LEMMA InsertKeeps ==
  ASSUME IndInv, NEW h \in Handlers, InsertAnchor(h)
  PROVE  IndInv'
<1> DEFINE row == AnchorRow(job[h], next_id)
           j   == Loop(job[h], job[h].root, job[h].todo, job[h].done \cup {job[h].got})
<1>1. /\ job[h].pc = "insert" /\ Step(h, j) /\ UNCHANGED <<last_sequence, published>>
      /\ audit_anchors' = IF \E a \in audit_anchors : SameAnchorKey(a, row)
                          THEN audit_anchors ELSE audit_anchors \cup {row}
      /\ next_id' = next_id + 1 /\ next_id \in Nat
  BY DEF InsertAnchor, Step, world, IndInv
<1>2. /\ JobOK(job[h], last_sequence, audit_anchors, published)
      /\ job[h].start \in Nat /\ job[h].end \in Nat
  BY <1>1, JobParts
<1>3. /\ row.id = next_id /\ row.provider = KindOf[job[h].got.instance]
      /\ row.range_start = job[h].start /\ row.range_end = job[h].end
      /\ row.merkle_root = job[h].root /\ row.external_id = job[h].got.external_id
  BY DEF AnchorRow
<1> HIDE DEF row
<1>4. RowOK(row, last_sequence, published)
  BY <1>1, <1>2, <1>3 DEF JobOK, RowOK
<1>5. Grows
  BY <1>1 DEF Grows, IndInv
<1>6. \A a \in audit_anchors' \ audit_anchors : RowOK(a, last_sequence', published')
  BY <1>1, <1>4
<1>7. j = [pc |-> "loop", start |-> job[h].start, end |-> job[h].end, root |-> job[h].root,
           todo |-> job[h].todo, done |-> job[h].done \cup {job[h].got}]
  BY DEF Loop
<1> HIDE DEF j
<1>8. JobShape(j) /\ j.start \in Nat /\ j.end \in Nat /\ j.pc = "loop"
  BY <1>2, <1>7 DEF JobShape
<1>9. ASSUME ~PastEnd
      PROVE  /\ j.end <= last_sequence /\ RangeHashes(j.start, j.end) # <<>>
             /\ j.root = MerkleRoot(RangeHashes(j.start, j.end))
             /\ \A d \in j.done : HasRow(j, d, audit_anchors')
  <2>1. /\ j.end <= last_sequence /\ RangeHashes(j.start, j.end) # <<>>
        /\ j.root = MerkleRoot(RangeHashes(j.start, j.end))
    BY <1>1, <1>2, <1>7, <1>9 DEF JobOK
  <2>2. ASSUME NEW d \in job[h].done PROVE HasRow(j, d, audit_anchors')
    <3>1. HasRow(job[h], d, audit_anchors)
      BY <1>1, <1>2, <1>9, <2>2 DEF JobOK
    <3>2. QED
      BY <1>5, <1>7, <3>1 DEF HasRow, Grows
  <2>3. HasRow(j, job[h].got, audit_anchors')
    <3>1. CASE \E a \in audit_anchors : SameAnchorKey(a, row)
      <4>1. PICK a \in audit_anchors : SameAnchorKey(a, row)
        BY <3>1
      <4>2. /\ a.provider = KindOf[job[h].got.instance]
            /\ a.range_start = j.start /\ a.range_end = j.end
        BY <1>3, <1>7, <4>1 DEF SameAnchorKey
      <4>3. a.merkle_root = MerkleRoot(RangeHashes(a.range_start, a.range_end))
        BY <1>9 DEF IndInv, RowOK
      <4>4. QED
        BY <1>5, <2>1, <4>2, <4>3 DEF HasRow, Grows
    <3>2. CASE ~\E a \in audit_anchors : SameAnchorKey(a, row)
      BY <1>1, <1>3, <1>7, <3>2 DEF HasRow
    <3>3. QED
      BY <3>1, <3>2
  <2>4. QED
    BY <1>7, <2>1, <2>2, <2>3
<1>10. JobOK(j, last_sequence', audit_anchors', published')
  BY <1>1, <1>8, <1>9 DEF JobOK
<1>11. QED
  BY <1>1, <1>5, <1>6, <1>10, JobStep

LEMMA ReturnKeeps ==
  ASSUME IndInv, NEW h \in Handlers, ReturnAnchors(h)
  PROVE  IndInv'
<1> DEFINE j == [job[h] EXCEPT !.pc = "done"]
<1>1. job[h].pc = "loop" /\ Step(h, j) /\ UNCHANGED <<last_sequence, table, world>>
  BY DEF ReturnAnchors, Step
<1>2. /\ JobOK(job[h], last_sequence, audit_anchors, published)
      /\ job[h].start \in Nat /\ job[h].end \in Nat /\ job[h] # Idle
  BY <1>1, JobParts
<1>3. job[h] = [pc |-> job[h].pc, start |-> job[h].start, end |-> job[h].end,
                root |-> job[h].root, todo |-> job[h].todo, done |-> job[h].done]
  BY <1>1, <1>2 DEF JobOK, JobShape
<1>4. j = [pc |-> "done", start |-> job[h].start, end |-> job[h].end,
           root |-> job[h].root, todo |-> job[h].todo, done |-> job[h].done]
  BY <1>3
<1> HIDE DEF j
<1>5. JobOK(j, last_sequence, audit_anchors, published)
  BY <1>1, <1>2, <1>4 DEF JobOK, JobShape, HasRow
<1>6. Grows /\ audit_anchors' = audit_anchors /\ published' = published /\ last_sequence' = last_sequence
  BY <1>1, QuietGrows
<1>7. QED
  BY <1>1, <1>5, <1>6, JobStep

\* Every step of an anchor handler.
LEMMA AnchorKeeps ==
  ASSUME IndInv, NEW h \in Handlers, AnchorStep(h)
  PROVE  IndInv'
<1>1. CASE \E s \in StartSequences, e \in EndSequences, names \in SUBSET Instances :
             StartAnchor(h, s, e, names)
  BY <1>1, StartKeeps
<1>2. CASE ResolveEnd(h)
  BY <1>2, ResolveKeeps
<1>3. CASE QueryHashes(h)
  BY <1>3, QueryKeeps
<1>4. ASSUME NEW i \in Instances, ProviderGone(h, i) PROVE IndInv'
  <2>1. Step(h, Idle) /\ UNCHANGED <<last_sequence, table, world>>
    BY <1>4 DEF ProviderGone, Step
  <2>2. QED
    BY <2>1, QuietGrows, EndKeeps
<1>5. ASSUME NEW i \in Instances, NEW o \in AnchorOutcomes(KindOf[i]), SubmitFails(h, i, o)
      PROVE  IndInv'
  <2>1. /\ Step(h, Idle) /\ UNCHANGED <<last_sequence, table>> /\ published \subseteq published'
    BY <1>5 DEF SubmitFails, CallAnchor, Step
  <2>2. Grows /\ audit_anchors' = audit_anchors
    BY <2>1 DEF Grows, IndInv, table
  <2>3. QED
    BY <2>1, <2>2, EndKeeps
<1>6. ASSUME NEW i \in Instances, NEW o \in AnchorOutcomes(KindOf[i]), Submit(h, i, o)
      PROVE  IndInv'
  BY <1>6, SubmitKeeps
<1>7. CASE InsertAnchor(h)
  BY <1>7, InsertKeeps
<1>8. CASE ReturnAnchors(h)
  BY <1>8, ReturnKeeps
<1>9. CASE FinishAnchor(h) \/ AnchorFails(h)
  <2>1. Step(h, Idle) /\ UNCHANGED <<last_sequence, table, world>>
    BY <1>9 DEF FinishAnchor, AnchorFails, Step
  <2>2. QED
    BY <2>1, QuietGrows, EndKeeps
<1>10. QED
  BY <1>1, <1>2, <1>3, <1>4, <1>5, <1>6, <1>7, <1>8, <1>9 DEF AnchorStep

\* The first covering row is one of the covering rows: there is a lowest id.
LEMMA FirstCovers ==
  ASSUME IndInv, NEW seq, Covering(seq) # {}
  PROVE  FirstCovering(seq) \in Covering(seq)
<1> DEFINE ids == {a.id : a \in Covering(seq)}
<1>1. ids \in SUBSET Nat /\ ids # {}
  BY DEF IndInv, RowOK, Covering
<1>2. PICK n \in ids : \A k \in ids : n <= k
  BY <1>1, Tree!LeastNumber
<1>3. PICK a \in Covering(seq) : a.id = n
  BY <1>2
<1>4. \A b \in Covering(seq) : a.id <= b.id
  BY <1>2, <1>3
<1>5. QED
  BY <1>3, <1>4 DEF FirstCovering

\* Every step of a proof handler.
LEMMA ProofKeeps ==
  ASSUME IndInv, NEW r \in Readers, ProofStep(r)
  PROVE  IndInv'
<1>1. ASSUME NEW seq \in 1..MaxEntries, FetchEntry(r, seq) PROVE IndInv'
  <2> DEFINE q == [pc |-> "entry", seq |-> seq]
  <2>1. Read(r, q) /\ seq <= last_sequence
    BY <1>1 DEF FetchEntry
  <2>2. seq \in 1..last_sequence
    BY <2>1, InputAssumption DEF IndInv
  <2>3. ReaderOK(q, last_sequence, audit_anchors)
    BY <2>2 DEF ReaderOK
  <2>4. QED
    BY <2>1, <2>3, ReadStep
<1>2. CASE FetchAnchors(r)
  <2> DEFINE seq == reader[r].seq
             q   == IF Covering(seq) = {}
                    THEN [pc |-> "unanchored", seq |-> seq]
                    ELSE [pc |-> "anchors", seq |-> seq, anchor |-> FirstCovering(seq)]
  <2>1. reader[r].pc = "entry" /\ Read(r, q)
    BY <1>2 DEF FetchAnchors
  <2>2. seq \in 1..last_sequence
    BY <2>1 DEF IndInv, ReaderOK, Idle
  <2> HIDE DEF seq
  <2>3. CASE Covering(seq) = {}
    <3>1. ReaderOK(q, last_sequence, audit_anchors)
      BY <2>2, <2>3 DEF ReaderOK
    <3>2. QED
      BY <2>1, <3>1, ReadStep
  <2>4. CASE Covering(seq) # {}
    <3>1. /\ FirstCovering(seq) \in audit_anchors
          /\ FirstCovering(seq).range_start <= seq /\ seq <= FirstCovering(seq).range_end
      BY <2>4, FirstCovers DEF Covering
    <3>2. ReaderOK(q, last_sequence, audit_anchors)
      BY <2>2, <2>4, <3>1 DEF ReaderOK
    <3>3. QED
      BY <2>1, <3>2, ReadStep
  <2>5. QED
    BY <2>3, <2>4
<1>3. CASE FetchHashes(r)
  <2> DEFINE seq    == reader[r].seq
             anchor == reader[r].anchor
             hashes == Hashes(anchor.range_start, anchor.range_end)
             q      == Proved(reader[r], hashes)
  <2>1. reader[r].pc = "anchors" /\ Read(r, q)
    BY <1>3 DEF FetchHashes
  <2>2. /\ seq \in 1..last_sequence /\ anchor \in audit_anchors
        /\ anchor.range_start <= seq /\ seq <= anchor.range_end
    BY <2>1 DEF IndInv, ReaderOK, Idle
  <2>3. RowOK(anchor, last_sequence, published) /\ last_sequence \in Nat
    BY <2>2 DEF IndInv
  <2> DEFINE path == InclusionProof(hashes, CHOOSE n \in 0..(Len(hashes) - 1) : hashes[n + 1] = seq)
  <2>4. q = [pc |-> "proved", seq |-> seq, root |-> anchor.merkle_root, path |-> path]
    BY DEF Proved
  <2>5. ~PastEnd => VerifyInclusion(seq, path, anchor.merkle_root)
    <3> SUFFICES ASSUME ~PastEnd PROVE VerifyInclusion(seq, path, anchor.merkle_root)
      OBVIOUS
    <3>1. /\ anchor.range_start \in Nat /\ anchor.range_end \in Nat
          /\ anchor.range_end <= last_sequence
          /\ anchor.merkle_root = MerkleRoot(RangeHashes(anchor.range_start, anchor.range_end))
      BY <2>3 DEF RowOK
    <3>2. hashes = RangeHashes(anchor.range_start, anchor.range_end)
      BY <2>3, <3>1, HashesInside
    <3>3. seq \in Nat /\ 1 <= seq
      BY <2>2, <2>3
    <3> DEFINE range == RangeHashes(anchor.range_start, anchor.range_end)
    <3> HIDE DEF seq, anchor, path
    <3>4. VerifyInclusion(seq,
                          InclusionProof(range, CHOOSE n \in 0..(Len(range) - 1) :
                                                  range[n + 1] = seq),
                          MerkleRoot(range))
      BY <2>2, <3>1, <3>3, RangeProof
    <3> HIDE DEF range, hashes
    <3>5. hashes = range /\ anchor.merkle_root = MerkleRoot(range)
      BY <3>1, <3>2 DEF range
    <3>6. QED
      BY <3>4, <3>5 DEF path
  <2> HIDE DEF seq, path, q, anchor
  <2>6. ReaderOK(q, last_sequence, audit_anchors)
    BY <2>4, <2>5 DEF ReaderOK
  <2>7. QED
    BY <2>1, <2>6, ReadStep
<1>4. CASE FinishProof(r)
  <2>1. Read(r, Idle) /\ ReaderOK(Idle, last_sequence, audit_anchors)
    BY <1>4 DEF FinishProof, ReaderOK
  <2>2. QED
    BY <2>1, ReadStep
<1>5. QED
  BY <1>1, <1>2, <1>3, <1>4 DEF ProofStep

\* Appends, and providers that come and go.
LEMMA AroundKeeps ==
  ASSUME IndInv, Grows, audit_anchors' = audit_anchors, job' = job, reader' = reader
  PROVE  IndInv'
<1>1. /\ last_sequence \in Nat /\ last_sequence' \in Nat /\ next_id' \in Nat
      /\ last_sequence <= last_sequence' /\ published \subseteq published'
  BY DEF Grows, IndInv
<1>2. ASSUME NEW h \in Handlers
      PROVE  JobOK(job'[h], last_sequence', audit_anchors', published')
  BY <1>1, JobKept DEF IndInv
<1>3. ASSUME NEW a \in audit_anchors' PROVE RowOK(a, last_sequence', published')
  BY <1>1, RowKept DEF IndInv
<1>4. ASSUME NEW r \in Readers PROVE ReaderOK(reader'[r], last_sequence', audit_anchors')
  BY <1>1, ReaderKept DEF IndInv
<1>5. QED
  BY <1>1, <1>2, <1>3, <1>4 DEF IndInv

\* The invariant is inductive.
LEMMA Inductive == Spec => []IndInv
<1>1. Init => IndInv
  BY DEF Init, IndInv, JobOK, JobShape, ReaderOK, Idle
<1>2. IndInv /\ [Next]_vars => IndInv'
  <2> SUFFICES ASSUME IndInv, [Next]_vars PROVE IndInv'
    OBVIOUS
  <2>1. CASE AppendEntry
    <3>1. Grows
      BY <2>1 DEF AppendEntry, Grows, IndInv, table, world
    <3>2. QED
      BY <2>1, <3>1, AroundKeeps DEF AppendEntry, table
  <2>2. ASSUME NEW i \in Instances, RegisterAnchorProvider(i) \/ UnregisterAnchorProvider(i)
        PROVE  IndInv'
    <3>1. UNCHANGED <<last_sequence, table, world, job, reader>>
      BY <2>2 DEF RegisterAnchorProvider, UnregisterAnchorProvider
    <3>2. QED
      BY <3>1, QuietGrows, AroundKeeps
  <2>3. CASE UNCHANGED vars
    <3>1. UNCHANGED <<last_sequence, table, world, job, reader>>
      BY <2>3 DEF vars
    <3>2. QED
      BY <3>1, QuietGrows, AroundKeeps
  <2>4. QED
    BY <2>1, <2>2, <2>3, AnchorKeeps, ProofKeeps DEF Next
<1>3. QED
  BY <1>1, <1>2, PTL DEF Spec

-----------------------------------------------------------------------------
(* The refinement.                                                         *)

Seen == <<last_sequence, Held, Recorded>>

\* The receipt behind what a service holds, and the anchor behind a row.
ReceiptBehind(p) ==
    [provider |-> KindOf[p.instance], external_id |-> p.external_id, root |-> p.root]

AnchorBehind(a) ==
    [provider |-> a.provider, range_start |-> a.range_start, range_end |-> a.range_end,
     merkle_root |-> a.merkle_root, external_id |-> a.external_id]

LEMMA SeenAre ==
  /\ Held = {ReceiptBehind(p) : p \in published}
  /\ Recorded = {AnchorBehind(a) : a \in audit_anchors}
  BY DEF Held, ReceiptBehind, Recorded, AnchorBehind

LEMMA SeenWere ==
  /\ Held' = {ReceiptBehind(p) : p \in published'}
  /\ Recorded' = {AnchorBehind(a) : a \in audit_anchors'}
  BY DEF Held, ReceiptBehind, Recorded, AnchorBehind

\* What changes neither log, table nor services is not seen.
LEMMA QuietUnseen ==
  ASSUME UNCHANGED <<last_sequence, audit_anchors, published>>
  PROVE  UNCHANGED Seen
  BY SeenAre, SeenWere DEF Seen

\* Entries, in AuditAnchors, of a range are its hashes here.
LEMMA SameEntries ==
  \A start, end : Abstract!Entries(start, end) = RangeHashes(start, end)
  BY DEF Abstract!Entries, RangeHashes, First

LEMMA SameRoot == \A s : Abstract!MerkleRoot(s) = MerkleRoot(s)
<1>1. \A s : Abstract!Rounds(s) = Rounds(s)
  BY Zenon DEF Abstract!Rounds, Rounds, Abstract!LeafNode, LeafNode,
               Abstract!LeafPrefix, LeafPrefix, Abstract!Parents, Parents,
               Abstract!CombineNodes, CombineNodes, Abstract!InternalPrefix, InternalPrefix
<1>2. \A s : Abstract!BuildLevels(s) = BuildLevels(s)
  BY <1>1, Zenon DEF Abstract!BuildLevels, BuildLevels
<1>3. QED
  BY <1>2, Zenon DEF Abstract!MerkleRoot, MerkleRoot, Abstract!Last, Last

\* A submission adds at most the receipt of its root.
LEMMA SubmissionHolds ==
  ASSUME NEW h \in Handlers, NEW i \in Instances, NEW o, CallAnchor(h, i, o),
         last_sequence' = last_sequence
  PROVE  [Abstract!Next]_Seen
<1> DEFINE p == Published(job[h], i, submissions)
<1>1. audit_anchors' = audit_anchors
      /\ (published' = published \/ published' = published \cup {p})
  BY DEF CallAnchor, table
<1> HIDE DEF p
<1>2. CASE published' = published
  BY <1>1, <1>2, QuietUnseen
<1>3. CASE published' = published \cup {p}
  <2>1. Held' = Held \cup {ReceiptBehind(p)} /\ ReceiptBehind(p) \in Held'
    BY <1>3, SeenAre, SeenWere
  <2>2. Recorded' = Recorded
    BY <1>1, SeenAre, SeenWere
  <2>3. Abstract!Hold
    BY <2>1, <2>2 DEF Abstract!Hold
  <2>4. QED
    BY <2>3 DEF Abstract!Next
<1>4. QED
  BY <1>1, <1>2, <1>3

\* The INSERT records an anchor, or finds its range recorded.
LEMMA InsertRecords ==
  ASSUME IndInv, NEW h \in Handlers, InsertAnchor(h)
  PROVE  [Abstract!Next]_Seen
<1> DEFINE row == AnchorRow(job[h], next_id)
           anchor == AnchorBehind(row)
<1>1. /\ job[h].pc = "insert" /\ last_sequence' = last_sequence /\ published' = published
      /\ audit_anchors' = IF \E a \in audit_anchors : SameAnchorKey(a, row)
                          THEN audit_anchors ELSE audit_anchors \cup {row}
  BY DEF InsertAnchor, Step, world
<1>2. /\ JobOK(job[h], last_sequence, audit_anchors, published)
      /\ job[h].start \in Nat /\ job[h].end \in Nat
  BY <1>1, JobParts
<1>3. /\ row.provider = KindOf[job[h].got.instance]
      /\ row.range_start = job[h].start /\ row.range_end = job[h].end
      /\ row.merkle_root = job[h].root /\ row.external_id = job[h].got.external_id
  BY DEF AnchorRow
<1> HIDE DEF row
<1>4. CASE \E a \in audit_anchors : SameAnchorKey(a, row)
  <2>1. audit_anchors' = audit_anchors
    BY <1>1, <1>4
  <2>2. QED
    BY <1>1, <2>1, QuietUnseen
<1>5. CASE ~\E a \in audit_anchors : SameAnchorKey(a, row)
  <2>1. Recorded' = Recorded \cup {anchor} /\ anchor \in Recorded'
    BY <1>1, <1>5, SeenAre, SeenWere
  <2>2. Held' = Held
    BY <1>1, SeenAre, SeenWere
  <2>3. /\ anchor.provider = row.provider /\ anchor.range_start = row.range_start
        /\ anchor.range_end = row.range_end /\ anchor.merkle_root = row.merkle_root
        /\ anchor.external_id = row.external_id
    BY DEF AnchorBehind
  <2>4. ASSUME NEW b \in Recorded PROVE ~Abstract!SameRange(anchor, b)
    <3>1. PICK a \in audit_anchors : b = AnchorBehind(a)
      BY SeenAre
    <3>2. b.provider = a.provider /\ b.range_start = a.range_start /\ b.range_end = a.range_end
      BY <3>1 DEF AnchorBehind
    <3> HIDE DEF anchor
    <3>3. QED
      BY <1>5, <2>3, <3>2 DEF Abstract!SameRange, SameAnchorKey
  <2>5. ASSUME ~PastEnd PROVE Abstract!Covers(anchor)
    <3>1. /\ job[h].end <= last_sequence
          /\ RangeHashes(job[h].start, job[h].end) # <<>>
          /\ job[h].root = MerkleRoot(RangeHashes(job[h].start, job[h].end))
      BY <1>1, <1>2, <2>5 DEF JobOK
    <3> HIDE DEF anchor
    <3>2. anchor.range_start = job[h].start /\ anchor.range_end = job[h].end
          /\ anchor.merkle_root = job[h].root
      BY <1>3, <2>3
    <3>3. Abstract!Entries(anchor.range_start, anchor.range_end)
            = RangeHashes(job[h].start, job[h].end)
      BY <3>2, SameEntries
    <3>4. QED
      BY <3>1, <3>2, <3>3, SameRoot DEF Abstract!Covers
  <2>6. Abstract!Receipt(anchor) \in Held
    <3>1. PICK p \in published : /\ KindOf[p.instance] = KindOf[job[h].got.instance]
                                 /\ p.external_id = job[h].got.external_id
                                 /\ p.root = job[h].root
      BY <1>1, <1>2 DEF JobOK
    <3>2. ReceiptBehind(p) \in Held
      BY SeenAre
    <3>3. Abstract!Receipt(anchor) = ReceiptBehind(p)
      BY <1>3, <2>3, <3>1 DEF Abstract!Receipt, ReceiptBehind
    <3>4. QED
      BY <3>2, <3>3
  <2> HIDE DEF anchor
  <2>7. Abstract!Record
    BY <1>1, <2>1, <2>2, <2>4, <2>5, <2>6 DEF Abstract!Record
  <2>8. QED
    BY <2>7 DEF Abstract!Next
<1>6. QED
  BY <1>4, <1>5

\* Every step is a step of AuditAnchors, or not seen.
LEMMA AnchorsStep ==
  ASSUME IndInv, [Next]_vars
  PROVE  [Abstract!Next]_Seen
<1>1. CASE AppendEntry
  <2>1. /\ last_sequence' = last_sequence + 1
        /\ audit_anchors' = audit_anchors /\ published' = published
    BY <1>1 DEF AppendEntry, table, world
  <2>2. Held' = Held /\ Recorded' = Recorded
    BY <2>1, SeenAre, SeenWere
  <2>3. Abstract!Extend
    BY <2>1, <2>2 DEF Abstract!Extend
  <2>4. QED
    BY <2>3 DEF Abstract!Next
<1>2. ASSUME NEW i \in Instances, RegisterAnchorProvider(i) \/ UnregisterAnchorProvider(i)
      PROVE  [Abstract!Next]_Seen
  <2>1. UNCHANGED <<last_sequence, audit_anchors, published>>
    BY <1>2 DEF RegisterAnchorProvider, UnregisterAnchorProvider, table, world
  <2>2. QED
    BY <2>1, QuietUnseen
<1>3. ASSUME NEW h \in Handlers, AnchorStep(h) PROVE [Abstract!Next]_Seen
  <2>1. CASE \/ \E s \in StartSequences, e \in EndSequences, names \in SUBSET Instances :
                  StartAnchor(h, s, e, names)
             \/ ResolveEnd(h) \/ QueryHashes(h)
             \/ \E i \in Instances : ProviderGone(h, i)
             \/ ReturnAnchors(h) \/ FinishAnchor(h) \/ AnchorFails(h)
    <3>1. UNCHANGED <<last_sequence, audit_anchors, published>>
      BY <2>1 DEF StartAnchor, ResolveEnd, QueryHashes, ProviderGone, ReturnAnchors,
                  FinishAnchor, AnchorFails, Step, table, world
    <3>2. QED
      BY <3>1, QuietUnseen
  <2>2. ASSUME NEW i \in Instances, NEW o \in AnchorOutcomes(KindOf[i]),
               Submit(h, i, o) \/ SubmitFails(h, i, o)
        PROVE  [Abstract!Next]_Seen
    <3>1. CallAnchor(h, i, o) /\ last_sequence' = last_sequence
      BY <2>2 DEF Submit, SubmitFails, Step
    <3>2. QED
      BY <3>1, SubmissionHolds
  <2>3. CASE InsertAnchor(h)
    BY <2>3, InsertRecords
  <2>4. QED
    BY <1>3, <2>1, <2>2, <2>3 DEF AnchorStep
<1>4. ASSUME NEW r \in Readers, ProofStep(r) PROVE [Abstract!Next]_Seen
  <2>1. UNCHANGED <<last_sequence, audit_anchors, published>>
    BY <1>4 DEF ProofStep, FetchEntry, FetchAnchors, FetchHashes, FinishProof, Read, table, world
  <2>2. QED
    BY <2>1, QuietUnseen
<1>5. CASE UNCHANGED vars
  <2>1. UNCHANGED <<last_sequence, audit_anchors, published>>
    BY <1>5 DEF vars, table, world
  <2>2. QED
    BY <2>1, QuietUnseen
<1>6. QED
  BY <1>1, <1>2, <1>3, <1>4, <1>5 DEF Next

-----------------------------------------------------------------------------
(* The theorems.                                                           *)

\* No row without a receipt, whatever callers ask for: AnchorHandler inserts only
\* what p.Anchor returned, and p.Anchor returns only what its service holds.
THEOREM PublishedCorrect == Spec => []RowIsPublished
<1>1. IndInv => RowIsPublished
  BY DEF IndInv, RowOK, RowIsPublished
<1>2. QED
  BY <1>1, Inductive, PTL

\* Every row's root is the Merkle root of its whole range, which is in the log.
THEOREM RootCorrect ==
  ASSUME ~PastEnd
  PROVE  Spec => []RootCoversRange
<1>1. IndInv => RootCoversRange
  <2> SUFFICES ASSUME IndInv, NEW a \in audit_anchors
               PROVE  /\ a.range_end <= last_sequence
                      /\ a.merkle_root = MerkleRoot(Hashes(a.range_start, a.range_end))
    BY DEF RootCoversRange
  <2>1. /\ last_sequence \in Nat /\ a.range_start \in Nat /\ a.range_end \in Nat
        /\ a.range_end <= last_sequence
        /\ a.merkle_root = MerkleRoot(RangeHashes(a.range_start, a.range_end))
    BY DEF IndInv, RowOK
  <2>2. QED
    BY <2>1, HashesInside
<1>2. QED
  BY <1>1, Inductive, PTL

\* When a step returns, every provider it used has a row with its range and root.
THEOREM StoredCorrect ==
  ASSUME ~PastEnd
  PROVE  Spec => []ReturnedRootStored
<1>1. IndInv => ReturnedRootStored
  <2> SUFFICES ASSUME IndInv, NEW h \in Handlers, job[h].pc = "done", NEW d \in job[h].done
               PROVE  HasRow(job[h], d, audit_anchors)
    BY DEF ReturnedRootStored, HasRow
  <2>1. JobOK(job[h], last_sequence, audit_anchors, published)
    BY DEF IndInv
  <2>2. QED
    BY <2>1 DEF JobOK
<1>2. QED
  BY <1>1, Inductive, PTL

\* The answer of step.audit.proof leads from the entry to the anchored root.
THEOREM AnswersCorrect ==
  ASSUME ~PastEnd
  PROVE  Spec => []ProofAnswers
<1>1. IndInv => ProofAnswers
  <2> SUFFICES ASSUME IndInv, NEW r \in Readers, reader[r].pc = "proved"
               PROVE  VerifyInclusion(reader[r].seq, reader[r].path, reader[r].root)
    BY DEF ProofAnswers
  <2>1. ReaderOK(reader[r], last_sequence, audit_anchors)
    BY DEF IndInv
  <2>2. QED
    BY <2>1 DEF ReaderOK, Idle
<1>2. QED
  BY <1>1, Inductive, PTL
\* However anchor steps, appends, providers and failures interleave, what an auditor
\* sees is a behaviour of AuditAnchors; what that says of ranges, when callers name
\* no end past the log.
THEOREM AnchorsImplemented == Spec => ImplementsAnchors
<1>1. Init => Abstract!Init
  BY SeenAre DEF Init, Abstract!Init
<1>2. IndInv /\ [Next]_vars => [Abstract!Next]_<<last_sequence, Held, Recorded>>
  BY AnchorsStep DEF Seen
<1>3. QED
  BY <1>1, <1>2, Inductive, PTL DEF Spec, ImplementsAnchors, Abstract!Spec
=============================================================================
