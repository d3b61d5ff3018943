-------------------------- MODULE InspectionProofs --------------------------
(***************************************************************************)
(* Proofs about Inspection for logs of any length and any number of        *)
(* faults.                                                                 *)
(***************************************************************************)
EXTENDS Inspection, FiniteSetTheorems, TLAPS

\* The theorems about the Merkle tree; the list that MerkleLists grows plays no part.
Tree == INSTANCE PrimitiveProofs WITH
    Leaves <- {}, MaxLeaves <- 0, leaves <- <<>>,
    Names <- {}, Numbers <- {}, MaxDepth <- 0,
    Inputs <- {}, NoDocument <- 0, document <- 0

-----------------------------------------------------------------------------
(* The invariant.                                                          *)

Hashes == Seq(Nat \X {Ledger} \X EventTypes \X Values)
Rows   == [sequence : Nat, event_type : EventTypes, payload : Values,
           payload_hash : Values, prev_entry_hash : Hashes, entry_hash : Hashes]

\* Rows with at most one of each sequence number, none past last.
IsLog(S, last) ==
    /\ S \subseteq Rows
    /\ \A e \in S : e.sequence \in 1..last
    /\ \A e, f \in S : e.sequence = f.sequence => e = f

\* A log as it was written: complete, linked and hashed, up to the hash top.
IsChain(S, last, top) ==
    /\ IsLog(S, last)
    /\ \A n \in 1..last : \E e \in S : e.sequence = n
    /\ \A e \in S : Derived(e) = e.entry_hash
    /\ \A e, f \in S : f.sequence = e.sequence + 1 => f.prev_entry_hash = e.entry_hash
    /\ \A e \in S : e.sequence = last => e.entry_hash = top

\* f is row w with one column changed.
ChangedIn(w, f, column) ==
    /\ f.sequence = w.sequence /\ f # w
    /\ column \in Columns
    /\ \A other \in Columns \ {column} : f[other] = w[other]

\* What a single fault leaves of the rows W that were written.
OneFault(S, W) ==
    \/ \E w \in W : S = W \ {w}
    \/ \E w \in W, f \in Rows : /\ \E column \in Columns : ChangedIn(w, f, column)
                                /\ S = (W \ {w}) \cup {f}

Ascending(q) == \A i, j \in 1..Len(q) : i < j => q[i].sequence < q[j].sequence

HashList(q) == [i \in 1..Len(q) |-> q[i].entry_hash]

\* What merkle_root answers for rows q.
RootOf(q) ==
    [root             |-> MerkleRoot(HashList(q)),
     entries_included |-> Len(q),
     start_sequence   |-> q[1].sequence,
     end_sequence     |-> q[Len(q)].sequence]

\* A root that was taken is the root of some of the rows W, in their order.
IsRootOf(a, W) ==
    \E q \in Seq(W) : q # <<>> /\ Ascending(q) /\ a = RootOf(q)

IndInv ==
    /\ cursor.last_sequence \in Nat /\ cursor.last_entry_hash \in Hashes
    /\ faults \in Nat
    /\ IsChain(appended, cursor.last_sequence, cursor.last_entry_hash)
    /\ IsLog(audit_log, cursor.last_sequence)
    /\ faults = 0 => audit_log = appended
    /\ faults = 1 => OneFault(audit_log, appended)
    /\ anchored # NoRoot => IsRootOf(anchored, appended)

-----------------------------------------------------------------------------
(* The query: its answer exists and is the rows of the range in order.     *)

Inside(e, start, end) == e.sequence >= start /\ (end = 0 \/ e.sequence <= end)

IsListing(q, S, start, end) ==
    /\ q \in Seq(Rows)
    /\ \A i \in 1..Len(q) : q[i] \in S /\ Inside(q[i], start, end)
    /\ \A e \in S : Inside(e, start, end) => \E i \in 1..Len(q) : q[i] = e
    /\ Ascending(q)

\* A log is finite, as its rows have different numbers.
LEMMA LogFinite ==
  ASSUME NEW last \in Nat, NEW S, IsLog(S, last), NEW R \in SUBSET S
  PROVE  IsFiniteSet(R)
<1> DEFINE f == [e \in R |-> e.sequence]
<1>1. f \in Injection(R, 1..last)
  BY DEF IsLog, Injection, IsInjective
<1>2. IsFiniteSet(1..last)
  BY FS_Interval
<1>3. QED
  BY <1>1, <1>2, FS_Injection

\* The rows of a log can be sorted: the place of a row is given by the number of
\* rows before it.
LEMMA SortExists ==
  ASSUME NEW last \in Nat, NEW S, IsLog(S, last), NEW R \in SUBSET S
  PROVE  /\ Cardinality(R) \in Nat
         /\ \E q \in [1..Cardinality(R) -> R] :
              \A i, j \in 1..Cardinality(R) : i < j => q[i].sequence < q[j].sequence
<1> DEFINE n == Cardinality(R)
           before(e) == {f \in R : f.sequence < e.sequence}
           rank == [e \in R |-> Cardinality(before(e)) + 1]
           q == [i \in 1..n |-> CHOOSE e \in R : rank[e] = i]
<1>1. IsFiniteSet(R) /\ n \in Nat
  BY LogFinite, FS_CardinalityType
<1>2. /\ \A e \in R : e.sequence \in Nat
      /\ \A e, f \in R : e.sequence = f.sequence => e = f
  BY DEF IsLog
<1>3. ASSUME NEW e \in R
      PROVE  IsFiniteSet(before(e)) /\ Cardinality(before(e)) \in Nat /\ Cardinality(before(e)) < n
  <2>1. before(e) \in SUBSET R /\ e \notin before(e)
    BY <1>2
  <2>2. IsFiniteSet(before(e)) /\ Cardinality(before(e)) <= n /\ Cardinality(before(e)) # n
    BY <1>1, <2>1, FS_Subset
  <2>3. QED
    BY <1>1, <2>2, FS_CardinalityType
<1>4. ASSUME NEW e \in R, NEW f \in R, e.sequence < f.sequence
      PROVE  Cardinality(before(e)) < Cardinality(before(f))
  <2>1. before(e) \in SUBSET before(f) /\ e \in before(f) /\ e \notin before(e)
    BY <1>2, <1>4
  <2>2. /\ Cardinality(before(e)) <= Cardinality(before(f))
        /\ Cardinality(before(e)) # Cardinality(before(f))
    BY <1>3, <2>1, FS_Subset
  <2>3. Cardinality(before(e)) \in Nat /\ Cardinality(before(f)) \in Nat
    BY <1>3
  <2> HIDE DEF before
  <2>4. QED
    BY <2>2, <2>3
<1> HIDE DEF n, before
<1>5. \A e, f \in R : e.sequence < f.sequence => rank[e] < rank[f]
  BY <1>3, <1>4
<1>6. rank \in [R -> 1..n]
  BY <1>1, <1>3
<1> HIDE DEF rank
<1>7. rank \in Injection(R, 1..n)
  BY <1>2, <1>5, <1>6 DEF Injection, IsInjective
<1>8. rank \in Surjection(R, 1..n)
  <2>1. IsFiniteSet(1..n) /\ Cardinality(1..n) = n
    BY <1>1, FS_Interval
  <2>2. QED
    BY <1>7, <2>1, FS_Injection DEF n
<1>9. \A i \in 1..n : q[i] \in R /\ rank[q[i]] = i
  BY <1>8 DEF Surjection
<1>10. ASSUME NEW i \in 1..n, NEW j \in 1..n, i < j PROVE q[i].sequence < q[j].sequence
  <2>1. q[i].sequence # q[j].sequence
    BY <1>2, <1>9, <1>10
  <2>2. ~(q[j].sequence < q[i].sequence)
    BY <1>5, <1>9, <1>10
  <2>3. q[i].sequence \in Nat /\ q[j].sequence \in Nat
    BY <1>2, <1>9
  <2>4. QED
    BY <2>1, <2>2, <2>3
<1>11. q \in [1..n -> R]
  BY <1>9
<1> HIDE DEF q
<1>12. QED
  BY <1>1, <1>10, <1>11 DEF n

\* What the query returns.
LEMMA InRangeLists ==
  ASSUME NEW last \in Nat, NEW S, IsLog(S, last), NEW start \in Nat, NEW end \in Nat
  PROVE  IsListing(InRange(S, start, end), S, start, end)
<1> DEFINE R == {e \in S : e.sequence >= start /\ (end = 0 \/ e.sequence <= end)}
           n == Cardinality(R)
           q == InRange(S, start, end)
<1>1. R \in SUBSET S /\ R \subseteq Rows /\ IsFiniteSet(R)
  BY LogFinite DEF IsLog
<1>2. /\ n \in Nat /\ q \in [1..n -> R]
      /\ \A i, j \in 1..n : i < j => q[i].sequence < q[j].sequence
  <2>1. /\ n \in Nat
        /\ \E p \in [1..n -> R] : \A i, j \in 1..n : i < j => p[i].sequence < p[j].sequence
    BY <1>1, SortExists
  <2>2. q = CHOOSE p \in [1..n -> R] : \A i, j \in 1..n : i < j => p[i].sequence < p[j].sequence
    BY DEF InRange
  <2> HIDE DEF R, n, q
  <2>3. QED
    BY <2>1, <2>2
<1>3. \A e \in R : e.sequence \in Nat
  BY <1>1 DEF Rows
<1>4. \A e : e \in R <=> e \in S /\ Inside(e, start, end)
  BY DEF Inside
<1> HIDE DEF R, q
<1>5. q \in Seq(Rows) /\ Len(q) = n
  BY <1>1, <1>2
<1>6. q \in Injection(1..n, R)
  <2> SUFFICES ASSUME NEW i \in 1..n, NEW j \in 1..n, q[i] = q[j] PROVE i = j
    BY <1>2 DEF Injection, IsInjective
  <2>1. ~(i < j) /\ ~(j < i)
    BY <1>2, <1>3
  <2>2. QED
    BY <2>1
<1>7. q \in Surjection(1..n, R)
  <2>1. IsFiniteSet(1..n) /\ Cardinality(1..n) = n
    BY <1>2, FS_Interval
  <2>2. QED
    BY <1>1, <1>6, <2>1, FS_Injection
<1>8. \A e \in R : \E i \in 1..n : q[i] = e
  BY <1>7 DEF Surjection
<1> HIDE DEF n
<1>9. QED
  BY <1>2, <1>4, <1>5, <1>8 DEF IsListing, Ascending, q

\* Between two neighbours of the answer there is no row.
LEMMA Neighbours ==
  ASSUME NEW S, NEW start \in Nat, NEW end \in Nat, NEW q, IsListing(q, S, start, end),
         S \subseteq Rows, NEW i \in 2..Len(q), NEW e \in S
  PROVE  ~(q[i - 1].sequence < e.sequence /\ e.sequence < q[i].sequence)
<1> SUFFICES ASSUME q[i - 1].sequence < e.sequence, e.sequence < q[i].sequence PROVE FALSE
  OBVIOUS
<1>1. /\ Len(q) \in Nat /\ i - 1 \in 1..Len(q) /\ i \in 1..Len(q)
      /\ \A j \in 1..Len(q) : q[j].sequence \in Nat
      /\ e.sequence \in Nat
  BY DEF IsListing, Rows
<1>2. Inside(e, start, end)
  BY <1>1 DEF IsListing, Inside
<1>3. PICK j \in 1..Len(q) : q[j] = e
  BY <1>2 DEF IsListing
<1>4. ~(j <= i - 1)
  BY <1>1, <1>3 DEF IsListing, Ascending
<1>5. ~(j >= i)
  BY <1>1, <1>3 DEF IsListing, Ascending
<1>6. QED
  BY <1>1, <1>4, <1>5

-----------------------------------------------------------------------------
(* Hashes.                                                                 *)

\* A hash determines the columns it was derived from.
LEMMA HashInjective ==
  ASSUME NEW e \in Rows, NEW f \in Rows, Derived(e) = Derived(f)
  PROVE  /\ e.sequence = f.sequence /\ e.event_type = f.event_type
         /\ e.payload_hash = f.payload_hash /\ e.prev_entry_hash = f.prev_entry_hash
<1> DEFINE g == e.prev_entry_hash
           h == f.prev_entry_hash
           x == <<e.sequence, Ledger, e.event_type, e.payload_hash>>
           y == <<f.sequence, Ledger, f.event_type, f.payload_hash>>
           T == Nat \X {Ledger} \X EventTypes \X Values
<1>1. g \in Seq(T) /\ h \in Seq(T) /\ x \in T /\ y \in T
  BY DEF Rows, Hashes
<1>2. Append(g, x) = Append(h, y)
  BY DEF Derived, EntryHash
<1>3. g = h /\ x = y
  <2> HIDE DEF g, h, x, y, T
  <2>1. Len(g) = Len(h)
    BY <1>1, <1>2
  <2>2. x = Append(g, x)[Len(g) + 1] /\ y = Append(h, y)[Len(h) + 1]
    BY <1>1
  <2>3. \A i \in 1..Len(g) : g[i] = Append(g, x)[i] /\ h[i] = Append(h, y)[i]
    BY <1>1, <2>1
  <2>4. g = h
    BY <1>1, <1>2, <2>1, <2>3
  <2>5. QED
    BY <1>2, <2>1, <2>2, <2>4
<1>4. QED
  BY <1>3

\* The hash that fits a row is a hash.
LEMMA DerivedType ==
  ASSUME NEW e \in Rows
  PROVE  Derived(e) \in Hashes
  BY DEF Derived, EntryHash, Rows, Hashes

\* Two rows that agree in every column but payload.
LEMMA SameHashed ==
  ASSUME NEW e \in Rows, NEW f \in Rows
  PROVE  Hashed(e) = Hashed(f) <=>
           /\ e.sequence = f.sequence /\ e.event_type = f.event_type
           /\ e.payload_hash = f.payload_hash /\ e.prev_entry_hash = f.prev_entry_hash
           /\ e.entry_hash = f.entry_hash
<1> DEFINE D == {"sequence", "event_type", "payload_hash", "prev_entry_hash", "entry_hash"}
<1>1. DOMAIN e \ {"payload"} = D /\ DOMAIN f \ {"payload"} = D
  BY DEF Rows
<1>2. Hashed(e) = [c \in D |-> e[c]] /\ Hashed(f) = [c \in D |-> f[c]]
  BY <1>1 DEF Hashed
<1>3. Hashed(e) = Hashed(f) <=> \A c \in D : e[c] = f[c]
  BY <1>2
<1>4. QED
  BY <1>3

\* Rows that differ in one hashed column do not both have the hash that fits them.
LEMMA ChangeShows ==
  ASSUME NEW w \in Rows, NEW f \in Rows, NEW column, ChangedIn(w, f, column),
         Derived(w) = w.entry_hash
  PROVE  /\ column = "payload" => Hashed(f) = Hashed(w)
         /\ column # "payload" => Hashed(f) # Hashed(w) /\ Derived(f) # f.entry_hash
<1>1. CASE column = "payload"
  <2>1. \A c \in Columns \ {"payload"} : f[c] = w[c]
    BY <1>1 DEF ChangedIn
  <2>2. QED
    BY <1>1, <2>1, SameHashed DEF ChangedIn, Columns
<1>2. CASE column \in Columns \ {"payload"}
  <2>1. f[column] # w[column]
    <3> SUFFICES ASSUME f[column] = w[column] PROVE FALSE
      OBVIOUS
    <3>1. \A c \in Columns : f[c] = w[c]
      BY DEF ChangedIn
    <3>2. f = w
      BY <3>1 DEF ChangedIn, Columns, Rows
    <3>3. QED
      BY <3>2 DEF ChangedIn
  <2>2. Hashed(f) # Hashed(w)
    BY <1>2, <2>1, SameHashed DEF Columns
  <2>3. Derived(f) # f.entry_hash
    <3>1. CASE column = "entry_hash"
      <4>1. /\ f.sequence = w.sequence /\ f.event_type = w.event_type
            /\ f.payload_hash = w.payload_hash /\ f.prev_entry_hash = w.prev_entry_hash
        BY <3>1 DEF ChangedIn, Columns
      <4>2. Derived(f) = Derived(w)
        BY <4>1 DEF Derived
      <4>3. QED
        BY <2>1, <3>1, <4>2
    <3>2. CASE column # "entry_hash"
      <4>1. f.entry_hash = w.entry_hash
        BY <3>2 DEF ChangedIn, Columns
      <4>2. Derived(f) # Derived(w)
        BY <1>2, <2>1, <3>2, HashInjective DEF Columns
      <4>3. QED
        BY <4>1, <4>2
    <3>3. QED
      BY <3>1, <3>2
  <2>4. QED
    BY <1>2, <2>2, <2>3
<1>3. QED
  BY <1>1, <1>2 DEF ChangedIn

-----------------------------------------------------------------------------
(* The invariant is inductive.                                             *)

LEMMA IndInit == Init => IndInv
<1> SUFFICES ASSUME Init PROVE IndInv
  OBVIOUS
<1>1. cursor.last_sequence = 0 /\ cursor.last_entry_hash = NoHash /\ NoHash \in Hashes
  BY DEF Init, NoHash, Hashes
<1>2. IsLog({}, 0) /\ IsChain({}, 0, NoHash)
  BY DEF IsChain, IsLog
<1>3. QED
  BY <1>1, <1>2 DEF Init, IndInv

\* The row that AppendTx derives from the cursor extends what was written.
LEMMA ChainExtends ==
  ASSUME NEW W, NEW last \in Nat, NEW top \in Hashes, IsChain(W, last, top),
         NEW e \in Rows, e.sequence = last + 1, e.prev_entry_hash = top,
         Derived(e) = e.entry_hash
  PROVE  IsChain(W \cup {e}, last + 1, e.entry_hash)
<1> DEFINE V == W \cup {e}
<1>1. \A f \in W : f.sequence \in Nat /\ f.sequence <= last
  BY DEF IsChain, IsLog
<1>2. IsLog(V, last + 1)
  BY <1>1 DEF IsChain, IsLog
<1>3. \A n \in 1..(last + 1) : \E f \in V : f.sequence = n
  BY DEF IsChain
<1>4. \A f \in V : Derived(f) = f.entry_hash
  BY DEF IsChain
<1>5. \A f, g \in V : g.sequence = f.sequence + 1 => g.prev_entry_hash = f.entry_hash
  BY <1>1 DEF IsChain
<1>6. \A f \in V : f.sequence = last + 1 => f.entry_hash = e.entry_hash
  BY <1>1
<1>7. QED
  BY <1>2, <1>3, <1>4, <1>5, <1>6 DEF IsChain

LEMMA AppendKeeps ==
  ASSUME IndInv, NEW type \in EventTypes, NEW value \in Values, AppendEntry(type, value)
  PROVE  IndInv'
<1> DEFINE last == cursor.last_sequence
           top  == cursor.last_entry_hash
           e    == [sequence        |-> last + 1,
                    event_type      |-> type,
                    payload         |-> value,
                    payload_hash    |-> value,
                    prev_entry_hash |-> top,
                    entry_hash      |-> EntryHash(last + 1, Ledger, type, value, top)]
<1>1. /\ last \in Nat /\ top \in Hashes
      /\ IsChain(appended, last, top) /\ IsLog(audit_log, last)
  BY DEF IndInv
<1>2. /\ audit_log' = audit_log \cup {e} /\ appended' = appended \cup {e}
      /\ cursor' = [last_sequence |-> last + 1, last_entry_hash |-> e.entry_hash]
      /\ faults' = faults /\ anchored' = anchored
  BY DEF AppendEntry
<1>3. EntryHash(last + 1, Ledger, type, value, top) \in Hashes
  BY <1>1 DEF EntryHash, Hashes
<1>4. e \in Rows /\ e.sequence = last + 1 /\ e.prev_entry_hash = top /\ Derived(e) = e.entry_hash
  BY <1>1, <1>3 DEF Rows, Derived
<1>5. cursor'.last_sequence = last + 1 /\ cursor'.last_entry_hash = e.entry_hash
  BY <1>2
<1> HIDE DEF e, last, top
<1>6. last + 1 \in Nat /\ e.entry_hash \in Hashes
  BY <1>1, <1>4 DEF Rows
<1>7. IsChain(appended', last + 1, e.entry_hash)
  BY <1>1, <1>2, <1>4, ChainExtends
<1>8. IsLog(audit_log', last + 1)
  BY <1>1, <1>2, <1>4 DEF IsLog
<1>9. \A w \in appended : w # e
  BY <1>1, <1>4 DEF IsChain, IsLog
<1>10. faults = 1 => OneFault(audit_log', appended')
  <2> SUFFICES ASSUME OneFault(audit_log, appended) PROVE OneFault(audit_log', appended')
    BY DEF IndInv
  <2>1. ASSUME NEW w \in appended, audit_log = appended \ {w}
        PROVE  audit_log' = appended' \ {w}
    BY <1>2, <1>9, <2>1
  <2>2. ASSUME NEW w \in appended, NEW f, audit_log = (appended \ {w}) \cup {f}
        PROVE  audit_log' = (appended' \ {w}) \cup {f}
    BY <1>2, <1>9, <2>2
  <2>3. appended \subseteq appended'
    BY <1>2
  <2>4. QED
    BY <2>1, <2>2, <2>3 DEF OneFault
<1>11. anchored # NoRoot => IsRootOf(anchored, appended')
  <2>1. Seq(appended) \subseteq Seq(appended')
    BY <1>2
  <2>2. QED
    BY <2>1 DEF IndInv, IsRootOf
<1>12. QED
  BY <1>2, <1>5, <1>6, <1>7, <1>8, <1>10, <1>11 DEF IndInv

\* A changed column keeps the row's number and its type.
LEMMA ChangedType ==
  ASSUME audit_log \subseteq Rows, NEW e \in audit_log, NEW column \in Columns,
         NEW f \in Changed(e, column)
  PROVE  f \in Rows /\ ChangedIn(e, f, column)
<1> DEFINE hashes == {g.entry_hash : g \in audit_log} \cup {NoHash, Derived(e)}
<1>1. e \in Rows /\ NoHash \in Hashes /\ Derived(e) \in Hashes
  BY DerivedType DEF NoHash, Hashes
<1>2. hashes \subseteq Hashes
  BY <1>1 DEF Rows
<1> HIDE DEF hashes
<1>3. ASSUME column = "event_type"
      PROVE  \E v \in EventTypes : f = [e EXCEPT !["event_type"] = v] /\ f # e
  BY <1>3 DEF Changed
<1>4. ASSUME column \in {"payload", "payload_hash"}
      PROVE  \E v \in Values : f = [e EXCEPT ![column] = v] /\ f # e
  BY <1>4 DEF Changed
<1>5. ASSUME column \in {"prev_entry_hash", "entry_hash"}
      PROVE  \E v \in Hashes : f = [e EXCEPT ![column] = v] /\ f # e
  BY <1>2, <1>5 DEF Changed, hashes
<1>6. CASE column = "event_type"
  BY <1>1, <1>3, <1>6 DEF ChangedIn, Columns, Rows
<1>7. CASE column = "payload"
  BY <1>1, <1>4, <1>7 DEF ChangedIn, Columns, Rows
<1>8. CASE column = "payload_hash"
  BY <1>1, <1>4, <1>8 DEF ChangedIn, Columns, Rows
<1>9. CASE column = "prev_entry_hash"
  BY <1>1, <1>5, <1>9 DEF ChangedIn, Columns, Rows
<1>10. CASE column = "entry_hash"
  BY <1>1, <1>5, <1>10 DEF ChangedIn, Columns, Rows
<1>11. QED
  BY <1>6, <1>7, <1>8, <1>9, <1>10 DEF Columns

LEMMA ChangeKeeps ==
  ASSUME IndInv, NEW e \in audit_log, NEW column \in Columns, NEW f \in Changed(e, column),
         ChangeColumn(e, f)
  PROVE  IndInv'
<1>1. /\ audit_log' = (audit_log \ {e}) \cup {f} /\ faults' = faults + 1
      /\ cursor' = cursor /\ appended' = appended /\ anchored' = anchored
  BY DEF ChangeColumn
<1>2. f \in Rows /\ ChangedIn(e, f, column) /\ f.sequence = e.sequence
  BY ChangedType DEF IndInv, IsLog, ChangedIn
<1>3. IsLog(audit_log', cursor.last_sequence)
  BY <1>1, <1>2 DEF IndInv, IsLog
<1>4. faults = 0 => OneFault(audit_log', appended)
  BY <1>1, <1>2 DEF IndInv, OneFault
<1>5. QED
  BY <1>1, <1>3, <1>4 DEF IndInv

LEMMA LossKeeps ==
  ASSUME IndInv, NEW e \in audit_log, LoseRow(e)
  PROVE  IndInv'
<1>1. /\ audit_log' = audit_log \ {e} /\ faults' = faults + 1
      /\ cursor' = cursor /\ appended' = appended /\ anchored' = anchored
  BY DEF LoseRow
<1>2. IsLog(audit_log', cursor.last_sequence)
  BY <1>1 DEF IndInv, IsLog
<1>3. faults = 0 => OneFault(audit_log', appended)
  BY <1>1 DEF IndInv, OneFault
<1>4. QED
  BY <1>1, <1>2, <1>3 DEF IndInv

\* The answer of merkle_root is a function of the rows the query returns.
LEMMA RootOfRange ==
  ASSUME NEW start, NEW end
  PROVE  MerkleRootOf(start, end) = RootOf(InRange(audit_log, start, end))
  BY Zenon DEF MerkleRootOf, RootOf, HashList

LEMMA RootKeeps ==
  ASSUME IndInv, NEW start \in Nat, NEW end \in Nat, TakeRoot(start, end)
  PROVE  IndInv'
<1> DEFINE q == InRange(audit_log, start, end)
<1>1. /\ faults = 0 /\ q # <<>> /\ anchored' = RootOf(q)
      /\ audit_log' = audit_log /\ cursor' = cursor /\ appended' = appended /\ faults' = faults
  BY RootOfRange DEF TakeRoot
<1>2. audit_log = appended
  BY <1>1 DEF IndInv
<1>3. IsListing(q, audit_log, start, end)
  BY InRangeLists DEF IndInv
<1> HIDE DEF q
<1>4. q \in Seq(appended) /\ Ascending(q)
  BY <1>2, <1>3 DEF IsListing
<1>5. IsRootOf(anchored', appended)
  BY <1>1, <1>4 DEF IsRootOf
<1>6. QED
  BY <1>1, <1>5 DEF IndInv

\* The invariant holds throughout.
LEMMA IndCorrect == Spec => []IndInv
<1>1. IndInv /\ [Next]_vars => IndInv'
  <2> SUFFICES ASSUME IndInv, [Next]_vars PROVE IndInv'
    OBVIOUS
  <2>1. CASE UNCHANGED vars
    BY <2>1 DEF vars, IndInv
  <2>2. ASSUME NEW start \in 1..MaxEntries, NEW end \in 0..MaxEntries, TakeRoot(start, end)
        PROVE  IndInv'
    BY <2>2, RootKeeps, InspectionBounds
  <2>3. QED
    BY <2>1, <2>2, AppendKeeps, ChangeKeeps, LossKeeps DEF Next
<1>2. QED
  BY <1>1, IndInit, PTL DEF Spec

-----------------------------------------------------------------------------
(* Verify.                                                                 *)

\* The answer of verify is a function of the rows the query returns.
Scan(q) ==
    LET bad == {i \in 1..Len(q) : Refused(q, i)}
    IN  IF bad = {} THEN Valid(Len(q)) ELSE Invalid(q[Min(bad)].sequence, Min(bad) - 1)

LEMMA VerifyScans ==
  ASSUME NEW start, NEW end
  PROVE  Verify(start, end) = Scan(InRange(audit_log, start, end))
  BY Zenon DEF Verify, Scan

LEMMA ScanValid ==
  ASSUME NEW q
  PROVE  /\ Scan(q).valid <=> \A i \in 1..Len(q) : ~Refused(q, i)
         /\ (\A i \in 1..Len(q) : ~Refused(q, i)) => Scan(q) = Valid(Len(q))
<1> DEFINE bad == {i \in 1..Len(q) : Refused(q, i)}
<1>1. bad = {} <=> \A i \in 1..Len(q) : ~Refused(q, i)
  OBVIOUS
<1>2. Scan(q) = IF bad = {} THEN Valid(Len(q)) ELSE Invalid(q[Min(bad)].sequence, Min(bad) - 1)
  BY DEF Scan
<1> HIDE DEF bad
<1>3. QED
  BY <1>1, <1>2 DEF Valid, Invalid

\* What is before place i of an ascending list are i - 1 sequence numbers.
LEMMA CountBefore ==
  ASSUME NEW q \in Seq(Rows), Ascending(q), NEW i \in 1..Len(q)
  PROVE  Cardinality({n \in {q[j].sequence : j \in 1..Len(q)} : n < q[i].sequence}) = i - 1
<1> DEFINE B == {n \in {q[j].sequence : j \in 1..Len(q)} : n < q[i].sequence}
           f == [j \in 1..(i - 1) |-> q[j].sequence]
<1>1. /\ Len(q) \in Nat /\ i \in Nat /\ i - 1 \in Nat
      /\ \A j \in 1..Len(q) : q[j].sequence \in Nat
  <2>1. Len(q) \in Nat /\ \A j \in 1..Len(q) : q[j] \in Rows
    OBVIOUS
  <2>2. \A e \in Rows : e.sequence \in Nat
    BY DEF Rows
  <2>3. QED
    BY <2>1, <2>2
<1>2. \A j, k \in 1..Len(q) : q[j].sequence < q[k].sequence <=> j < k
  BY <1>1 DEF Ascending
<1>3. f \in [1..(i - 1) -> B]
  BY <1>1, <1>2
<1>4. \A n \in B : \E j \in 1..(i - 1) : f[j] = n
  <2> SUFFICES ASSUME NEW n \in B PROVE \E j \in 1..(i - 1) : f[j] = n
    OBVIOUS
  <2>1. PICK j \in 1..Len(q) : n = q[j].sequence /\ q[j].sequence < q[i].sequence
    OBVIOUS
  <2>2. j \in 1..(i - 1)
    BY <1>1, <1>2, <2>1
  <2>3. QED
    BY <2>1, <2>2
<1>5. \A j, k \in 1..(i - 1) : f[j] = f[k] => j = k
  BY <1>1, <1>2
<1> HIDE DEF f, B
<1>6. ExistsBijection(1..(i - 1), B)
  BY <1>3, <1>4, <1>5
  DEF ExistsBijection, Bijection, Injection, IsInjective, Surjection
<1>7. Cardinality(B) = i - 1
  BY <1>1, <1>6, FS_CountingElements
<1>8. QED
  BY <1>7 DEF B

\* The first row refused is the one reported.
LEMMA ScanReports ==
  ASSUME NEW q \in Seq(Rows), Ascending(q), NEW i \in 1..Len(q), Refused(q, i),
         \A j \in 1..(i - 1) : ~Refused(q, j)
  PROVE  /\ ~Scan(q).valid
         /\ Scan(q).first_invalid_sequence = q[i].sequence
         /\ Scan(q).entries_verified
              = Cardinality({n \in {q[j].sequence : j \in 1..Len(q)} : n < q[i].sequence})
<1> DEFINE bad == {j \in 1..Len(q) : Refused(q, j)}
<1>1. i \in bad /\ bad \subseteq Nat /\ \A j \in bad : i <= j
  OBVIOUS
<1>2. Scan(q) = IF bad = {} THEN Valid(Len(q)) ELSE Invalid(q[Min(bad)].sequence, Min(bad) - 1)
  BY DEF Scan
<1> HIDE DEF bad
<1>3. Min(bad) = i
  <2>1. i \in bad /\ \A y \in bad : i <= y
    BY <1>1
  <2>2. Min(bad) \in bad /\ \A y \in bad : Min(bad) <= y
    BY <2>1 DEF Min
  <2>3. i \in Nat /\ Min(bad) \in Nat
    BY <1>1, <2>2
  <2>4. i <= Min(bad) /\ Min(bad) <= i
    BY <2>1, <2>2
  <2>5. QED
    BY <2>3, <2>4
<1>4. Scan(q) = Invalid(q[i].sequence, i - 1)
  BY <1>1, <1>2, <1>3
<1>5. QED
  BY <1>4, CountBefore DEF Invalid

\* Neighbours that are as they were written, without a gap, are not refused.
LEMMA WrittenFits ==
  ASSUME NEW last \in Nat, NEW top, NEW W, IsChain(W, last, top),
         NEW q \in Seq(Rows), NEW i \in 1..Len(q), NEW w \in W, Hashed(q[i]) = Hashed(w),
         i > 1 => \E v \in W : Hashed(q[i - 1]) = Hashed(v) /\ w.sequence = v.sequence + 1
  PROVE  ~Refused(q, i)
<1>1. /\ w \in Rows /\ q[i] \in Rows
      /\ \A e, f \in W : f.sequence = e.sequence + 1 => f.prev_entry_hash = e.entry_hash
      /\ Derived(w) = w.entry_hash /\ W \subseteq Rows
  BY DEF IsChain, IsLog
<1>2. /\ q[i].sequence = w.sequence /\ q[i].event_type = w.event_type
      /\ q[i].payload_hash = w.payload_hash /\ q[i].prev_entry_hash = w.prev_entry_hash
      /\ q[i].entry_hash = w.entry_hash
  BY <1>1, SameHashed
<1>3. Derived(q[i]) = q[i].entry_hash
  BY <1>1, <1>2 DEF Derived
<1>4. ASSUME i > 1 PROVE q[i].prev_entry_hash = q[i - 1].entry_hash
  <2>1. PICK v \in W : Hashed(q[i - 1]) = Hashed(v) /\ w.sequence = v.sequence + 1
    BY <1>4
  <2>2. q[i - 1] \in Rows
    BY <1>4
  <2>3. q[i - 1].entry_hash = v.entry_hash
    BY <1>1, <2>1, <2>2, SameHashed
  <2>4. QED
    BY <1>1, <1>2, <2>1, <2>3
<1>5. QED
  BY <1>3, <1>4 DEF Refused

\* Neighbours have neighbouring numbers unless a row between them is missing.
LEMMA NoGap ==
  ASSUME NEW S, S \subseteq Rows, NEW start \in Nat, NEW end \in Nat, NEW q,
         IsListing(q, S, start, end), NEW i \in 2..Len(q),
         NEW e \in S, e.sequence = q[i].sequence - 1
  PROVE  q[i].sequence = q[i - 1].sequence + 1
<1>1. /\ i \in 1..Len(q) /\ i - 1 \in 1..Len(q) /\ i - 1 < i
      /\ q[i].sequence \in Nat /\ q[i - 1].sequence \in Nat
  BY DEF IsListing, Rows
<1>2. q[i - 1].sequence < q[i].sequence
  BY <1>1 DEF IsListing, Ascending
<1>3. ~(q[i - 1].sequence < e.sequence /\ e.sequence < q[i].sequence)
  BY Neighbours
<1>4. \A x, y \in Nat : x < y /\ ~(x < y - 1 /\ y - 1 < y) => y = x + 1
  OBVIOUS
<1>5. QED
  BY <1>1, <1>2, <1>3, <1>4

\* A log as it was written verifies, whatever range is asked for.
LEMMA ChainVerifies ==
  ASSUME NEW last \in Nat, NEW top, NEW W, IsChain(W, last, top),
         NEW start \in Nat, NEW end \in Nat, NEW q, IsListing(q, W, start, end)
  PROVE  \A i \in 1..Len(q) : ~Refused(q, i)
<1> SUFFICES ASSUME NEW i \in 1..Len(q) PROVE ~Refused(q, i)
  OBVIOUS
<1>1. q \in Seq(Rows) /\ \A j \in 1..Len(q) : q[j] \in W
  BY DEF IsListing
<1>2. W \subseteq Rows /\ \A e \in W : e.sequence \in 1..last
  BY DEF IsChain, IsLog
<1>3. ASSUME i > 1 PROVE q[i].sequence = q[i - 1].sequence + 1
  <2>1. i \in 2..Len(q) /\ i - 1 \in 1..Len(q) /\ i - 1 < i /\ Len(q) \in Nat
    BY <1>1, <1>3
  <2>2. q[i - 1].sequence < q[i].sequence
    BY <2>1 DEF IsListing, Ascending
  <2>3. q[i].sequence - 1 \in 1..last
    BY <1>1, <1>2, <2>1, <2>2
  <2>4. PICK e \in W : e.sequence = q[i].sequence - 1
    BY <2>3 DEF IsChain
  <2>5. QED
    BY <1>2, <2>1, <2>4, NoGap
<1>4. i > 1 => q[i - 1] \in W
  BY <1>1
<1>5. QED
  BY <1>1, <1>3, <1>4, WrittenFits

\* Verify raises no false alarm: it returns valid with the number of rows of the
\* range, wherever the range begins and ends (the first row returned is not
\* compared with a predecessor).
THEOREM AlarmCorrect == Spec => []NoFalseAlarm
<1>1. IndInv => NoFalseAlarm
  <2> SUFFICES ASSUME IndInv, faults = 0, NEW start \in Nat, NEW end \in Nat
               PROVE  Verify(start, end) = Valid(Len(InRange(appended, start, end)))
    BY InspectionBounds DEF NoFalseAlarm, Ranges
  <2> DEFINE q == InRange(audit_log, start, end)
  <2>1. audit_log = appended
    BY DEF IndInv
  <2>2. IsListing(q, audit_log, start, end)
    BY InRangeLists DEF IndInv
  <2>3. \A i \in 1..Len(q) : ~Refused(q, i)
    BY <2>1, <2>2, ChainVerifies DEF IndInv
  <2>4. QED
    BY <2>1, <2>3, ScanValid, VerifyScans
<1>2. QED
  BY <1>1, IndCorrect, PTL

-----------------------------------------------------------------------------
(* A single fault.                                                         *)

Seqs(q) == {q[i].sequence : i \in 1..Len(q)}

\* Where the rows of q can show the fault.
Sites(seqs) ==
    (Altered \cap seqs) \cup {n + 1 : n \in {m \in Lost : {m - 1, m + 1} \subseteq seqs}}

\* What FaultLocated says of a range with rows q.
Locates(q, sites) ==
    IF sites = {} THEN Scan(q).valid
    ELSE /\ Scan(q).first_invalid_sequence = Min(sites)
         /\ Scan(q).entries_verified = Cardinality({n \in Seqs(q) : n < Min(sites)})

LEMMA LocatesNothing ==
  ASSUME NEW q, \A i \in 1..Len(q) : ~Refused(q, i)
  PROVE  Locates(q, {})
  BY ScanValid DEF Locates

LEMMA LocatesRow ==
  ASSUME NEW q \in Seq(Rows), Ascending(q), NEW i \in 1..Len(q), Refused(q, i),
         \A j \in 1..(i - 1) : ~Refused(q, j)
  PROVE  Locates(q, {q[i].sequence})
<1>1. q[i].sequence \in Nat
  <2>1. q[i] \in Rows
    OBVIOUS
  <2>2. QED
    BY <2>1 DEF Rows
<1>2. Min({q[i].sequence}) = q[i].sequence
  BY <1>1 DEF Min
<1>3. QED
  BY <1>2, ScanReports DEF Locates, Seqs

\* The row with a number of a written log, and what damage leaves of it.
LEMMA WrittenRow ==
  ASSUME NEW last, NEW W, IsLog(W, last), W = appended, NEW e \in W
  PROVE  Written(e.sequence) = e
  BY DEF Written, IsLog

\* A row is gone: its successor does not fit its predecessor, if the range has both.
LEMMA LossLocated ==
  ASSUME IndInv, NEW w \in appended, audit_log = appended \ {w},
         NEW start \in Nat, NEW end \in Nat, NEW q, IsListing(q, audit_log, start, end)
  PROVE  Locates(q, Sites(Seqs(q)))
<1> DEFINE last == cursor.last_sequence
           top  == cursor.last_entry_hash
           k    == w.sequence
           Torn(i) == i > 1 /\ q[i - 1].sequence = k - 1 /\ q[i].sequence = k + 1
<1>1. /\ last \in Nat /\ IsChain(appended, last, top) /\ IsLog(appended, last)
      /\ appended \subseteq Rows /\ audit_log \subseteq Rows
      /\ \A e \in appended : e.sequence \in 1..last
      /\ \A e, f \in appended : e.sequence = f.sequence => e = f
      /\ \A n \in 1..last : \E e \in appended : e.sequence = n
  BY DEF IndInv, IsChain, IsLog
<1>2. /\ q \in Seq(Rows) /\ Len(q) \in Nat /\ Ascending(q)
      /\ \A i \in 1..Len(q) : q[i] \in audit_log /\ q[i].sequence \in 1..last
  BY <1>1 DEF IsListing
<1>3. k \in 1..last /\ \A e \in audit_log : e \in appended /\ e.sequence # k
  BY <1>1
<1>4. \A n \in 1..last : n # k => \E e \in audit_log : e.sequence = n
  BY <1>1
<1> HIDE DEF last, top, k
<1>5. Altered = {}
  BY <1>1, <1>3, WrittenRow DEF Altered
<1>6. Lost = {k}
  <2>1. Sequences = 1..last \ {k}
    BY <1>1, <1>3, <1>4 DEF Sequences
  <2>2. QED
    BY <1>3, <2>1 DEF Lost, last
<1>7. Sites(Seqs(q)) = IF {k - 1, k + 1} \subseteq Seqs(q) THEN {k + 1} ELSE {}
  BY <1>5, <1>6 DEF Sites
<1>8. ASSUME NEW i \in 1..Len(q), ~Torn(i) PROVE ~Refused(q, i)
  <2>1. ASSUME i > 1 PROVE q[i].sequence = q[i - 1].sequence + 1
    <3>1. i \in 2..Len(q) /\ i - 1 \in 1..Len(q) /\ i - 1 < i
      BY <1>2, <2>1
    <3>2. q[i - 1].sequence < q[i].sequence
      BY <1>2, <3>1 DEF Ascending
    <3>3. /\ q[i].sequence \in Nat /\ q[i - 1].sequence \in Nat /\ k \in Nat
          /\ q[i].sequence - 1 \in 1..last /\ q[i - 1].sequence # k /\ q[i - 1].sequence >= 1
          /\ last \in Nat /\ k <= last
      BY <1>1, <1>2, <1>3, <3>1, <3>2
    <3>4. CASE q[i].sequence - 1 # k
      <4>1. PICK e \in audit_log : e.sequence = q[i].sequence - 1
        BY <1>4, <3>3, <3>4
      <4>2. audit_log \subseteq Rows
        BY <1>1
      <4>3. ~(q[i - 1].sequence < e.sequence /\ e.sequence < q[i].sequence)
        BY <3>1, <4>2, Neighbours
      <4>4. QED
        BY <3>2, <3>3, <4>1, <4>3
    <3>5. CASE q[i].sequence - 1 = k
      <4>1. q[i - 1].sequence < k - 1
        BY <1>8, <2>1, <3>2, <3>3, <3>5
      <4>2. k - 1 \in 1..last /\ k - 1 # k
        BY <3>3, <4>1
      <4>3. PICK e \in audit_log : e.sequence = k - 1
        BY <1>4, <4>2
      <4>4. ~(q[i - 1].sequence < e.sequence /\ e.sequence < q[i].sequence)
        BY <1>1, <3>1, Neighbours
      <4>5. QED
        BY <3>3, <3>5, <4>1, <4>3, <4>4
    <3>6. QED
      BY <3>4, <3>5
  <2>2. q[i] \in appended /\ (i > 1 => q[i - 1] \in appended)
    BY <1>2, <1>3
  <2>3. QED
    BY <1>1, <1>2, <2>1, <2>2, WrittenFits
<1>9. ASSUME NEW i \in 1..Len(q), Torn(i) PROVE Refused(q, i)
  <2> DEFINE e == q[i - 1]
             f == q[i]
  <2>1. /\ i > 1 /\ i - 1 \in 1..Len(q) /\ e.sequence = k - 1 /\ f.sequence = k + 1
        /\ e \in appended /\ f \in appended /\ e \in Rows /\ w \in Rows
    BY <1>1, <1>2, <1>3, <1>9
  <2>2. f.prev_entry_hash = w.entry_hash
    BY <1>1, <2>1 DEF IsChain, k
  <2>3. e.entry_hash = Derived(e) /\ w.entry_hash = Derived(w)
    BY <1>1, <2>1 DEF IsChain
  <2>4. e.sequence # w.sequence
    BY <1>3, <2>1 DEF k
  <2>5. e.entry_hash # w.entry_hash
    BY <2>1, <2>3, <2>4, HashInjective
  <2>6. QED
    BY <2>1, <2>2, <2>5 DEF Refused
<1>10. CASE {k - 1, k + 1} \subseteq Seqs(q)
  <2>1. PICK j \in 1..Len(q) : q[j].sequence = k - 1
    BY <1>10 DEF Seqs
  <2>2. PICK i \in 1..Len(q) : q[i].sequence = k + 1
    BY <1>10 DEF Seqs
  <2>3. k \in Nat /\ \A m \in 1..Len(q) : q[m].sequence \in Nat /\ q[m].sequence # k
    BY <1>2, <1>3
  <2>4. \A m, n \in 1..Len(q) : q[m].sequence < q[n].sequence <=> m < n
    BY <1>2, <2>3 DEF Ascending
  <2>5. j < i
    BY <2>1, <2>2, <2>3, <2>4
  <2>6. j = i - 1
    <3> SUFFICES ASSUME j < i - 1 PROVE FALSE
      BY <2>5
    <3>1. i - 1 \in 1..Len(q) /\ i - 1 < i
      BY <1>2
    <3>2. q[i - 1].sequence < k + 1 /\ k - 1 < q[i - 1].sequence
      BY <2>1, <2>2, <2>4, <3>1
    <3>3. QED
      BY <2>3, <3>1, <3>2
  <2>7. Refused(q, i)
    BY <1>9, <2>1, <2>2, <2>5, <2>6
  <2>8. ASSUME NEW m \in 1..(i - 1) PROVE ~Refused(q, m)
    <3>1. m \in 1..Len(q) /\ m < i
      BY <1>2
    <3>2. q[m].sequence # k + 1
      BY <2>2, <2>3, <2>4, <3>1
    <3>3. QED
      BY <1>8, <3>1, <3>2
  <2>9. Locates(q, {k + 1})
    BY <1>2, <2>2, <2>7, <2>8, LocatesRow
  <2>10. QED
    BY <1>7, <1>10, <2>9
<1>11. CASE ~({k - 1, k + 1} \subseteq Seqs(q))
  <2>1. ASSUME NEW i \in 1..Len(q) PROVE ~Torn(i)
    <3> SUFFICES ASSUME Torn(i) PROVE FALSE
      OBVIOUS
    <3>1. i - 1 \in 1..Len(q)
      BY <1>2
    <3>2. QED
      BY <1>11, <3>1 DEF Seqs
  <2>2. \A i \in 1..Len(q) : ~Refused(q, i)
    BY <1>8, <2>1
  <2>3. QED
    BY <1>7, <1>11, <2>2, LocatesNothing
<1>12. QED
  BY <1>10, <1>11

\* A column is changed: the row does not have the hash that fits it, unless the
\* column is payload.
LEMMA ChangeLocated ==
  ASSUME IndInv, NEW w \in appended, NEW f \in Rows, NEW column, ChangedIn(w, f, column),
         audit_log = (appended \ {w}) \cup {f},
         NEW start \in Nat, NEW end \in Nat, NEW q, IsListing(q, audit_log, start, end)
  PROVE  Locates(q, Sites(Seqs(q)))
<1> DEFINE last == cursor.last_sequence
           top  == cursor.last_entry_hash
           k    == w.sequence
           Bad(e) == column # "payload" /\ e.sequence = k
<1>1. /\ last \in Nat /\ IsChain(appended, last, top) /\ IsLog(appended, last)
      /\ appended \subseteq Rows /\ audit_log \subseteq Rows
      /\ \A e \in appended : e.sequence \in 1..last
      /\ \A d, e \in appended : d.sequence = e.sequence => d = e
      /\ \A n \in 1..last : \E e \in appended : e.sequence = n
      /\ Derived(w) = w.entry_hash
  BY DEF IndInv, IsChain, IsLog
<1>2. f.sequence = k
  BY DEF ChangedIn
<1>3. /\ q \in Seq(Rows) /\ Len(q) \in Nat /\ Ascending(q)
      /\ \A i \in 1..Len(q) : q[i] \in audit_log /\ q[i].sequence \in 1..last
  BY <1>1, <1>2 DEF IsListing
<1>4. k \in 1..last /\ \A e \in audit_log : e.sequence = k <=> e = f
  BY <1>1, <1>2
<1>5. \A n \in 1..last : \E e \in audit_log : e.sequence = n
  BY <1>1, <1>2
<1>6. \A e \in audit_log : e.sequence # k => e \in appended /\ Written(e.sequence) = e
  BY <1>1, <1>2, WrittenRow
<1>7. Written(k) = w
  BY <1>1, WrittenRow
<1> HIDE DEF last, top, k
<1>8. /\ column = "payload" => Hashed(f) = Hashed(w)
      /\ column # "payload" => Hashed(f) # Hashed(w) /\ Derived(f) # f.entry_hash
  BY <1>1, ChangeShows
<1>9. Lost = {}
  <2>1. Sequences = 1..last
    BY <1>1, <1>2, <1>4, <1>5, <1>6 DEF Sequences
  <2>2. QED
    BY <2>1 DEF Lost, last
<1>10. Altered = IF column = "payload" THEN {} ELSE {k}
  <2>1. {e \in audit_log : Hashed(e) # Hashed(Written(e.sequence))}
          = IF column = "payload" THEN {} ELSE {f}
    <3>1. f \in audit_log /\ Hashed(Written(f.sequence)) = Hashed(w)
      BY <1>2, <1>7
    <3>2. \A e \in audit_log : e # f => Hashed(e) = Hashed(Written(e.sequence))
      BY <1>4, <1>6
    <3>3. QED
      BY <1>8, <3>1, <3>2
  <2>2. QED
    BY <1>2, <2>1 DEF Altered
<1>11. Sites(Seqs(q)) = IF column # "payload" /\ k \in Seqs(q) THEN {k} ELSE {}
  BY <1>9, <1>10 DEF Sites
<1>12. ASSUME NEW i \in 1..Len(q), ~Bad(q[i]), i > 1 => ~Bad(q[i - 1])
       PROVE  ~Refused(q, i)
  <2>1. ASSUME NEW e \in audit_log, ~Bad(e)
        PROVE  \E v \in appended : Hashed(e) = Hashed(v) /\ v.sequence = e.sequence
    <3>1. CASE e.sequence = k
      BY <1>4, <1>8, <2>1, <3>1 DEF k
    <3>2. CASE e.sequence # k
      BY <1>6, <3>2
    <3>3. QED
      BY <3>1, <3>2
  <2>2. PICK v \in appended : Hashed(q[i]) = Hashed(v) /\ v.sequence = q[i].sequence
    BY <1>3, <1>12, <2>1
  <2>3. ASSUME i > 1
        PROVE  \E u \in appended : Hashed(q[i - 1]) = Hashed(u) /\ v.sequence = u.sequence + 1
    <3>1. i \in 2..Len(q) /\ i - 1 \in 1..Len(q) /\ i - 1 < i
      BY <1>3, <2>3
    <3>2. q[i - 1].sequence < q[i].sequence
      BY <1>3, <3>1 DEF Ascending
    <3>3. q[i].sequence - 1 \in 1..last
      BY <1>1, <1>3, <3>1, <3>2
    <3>4. PICK e \in audit_log : e.sequence = q[i].sequence - 1
      BY <1>5, <3>3
    <3>5. q[i].sequence = q[i - 1].sequence + 1
      <4>1. audit_log \subseteq Rows
        BY <1>1
      <4>2. ~(q[i - 1].sequence < e.sequence /\ e.sequence < q[i].sequence)
        BY <3>1, <4>1, Neighbours
      <4>3. q[i].sequence \in Nat /\ q[i - 1].sequence \in Nat
        BY <1>1, <1>3, <3>1
      <4>4. QED
        BY <3>2, <3>4, <4>2, <4>3
    <3>6. PICK u \in appended : Hashed(q[i - 1]) = Hashed(u) /\ u.sequence = q[i - 1].sequence
      BY <1>3, <1>12, <2>1, <2>3, <3>1
    <3>7. QED
      BY <2>2, <3>5, <3>6
  <2>4. QED
    BY <1>1, <1>3, <2>2, <2>3, WrittenFits
<1>13. CASE column # "payload" /\ k \in Seqs(q)
  <2>1. PICK i \in 1..Len(q) : q[i].sequence = k
    BY <1>13 DEF Seqs
  <2>2. q[i] = f
    BY <1>3, <1>4, <2>1
  <2>3. Refused(q, i)
    BY <1>8, <1>13, <2>2 DEF Refused
  <2>4. \A m \in 1..(i - 1) : m \in 1..Len(q) /\ q[m].sequence # k
    <3> SUFFICES ASSUME NEW m \in 1..(i - 1) PROVE m \in 1..Len(q) /\ q[m].sequence # k
      OBVIOUS
    <3>1. m \in 1..Len(q) /\ m < i
      BY <1>3
    <3>2. q[m].sequence < q[i].sequence
      BY <1>3, <3>1 DEF Ascending
    <3>3. QED
      BY <1>3, <2>1, <3>1, <3>2
  <2>5. ASSUME NEW m \in 1..(i - 1) PROVE ~Refused(q, m)
    <3>1. m > 1 => m - 1 \in 1..(i - 1)
      OBVIOUS
    <3>2. QED
      BY <1>12, <2>4, <3>1
  <2>6. Locates(q, {k})
    BY <1>3, <2>1, <2>3, <2>5, LocatesRow
  <2>7. QED
    BY <1>11, <1>13, <2>6
<1>14. CASE ~(column # "payload" /\ k \in Seqs(q))
  <2>1. \A i \in 1..Len(q) : ~Bad(q[i])
    BY <1>14 DEF Seqs
  <2>2. \A i \in 1..Len(q) : i > 1 => i - 1 \in 1..Len(q)
    BY <1>3
  <2>3. \A i \in 1..Len(q) : ~Refused(q, i)
    BY <1>12, <2>1, <2>2
  <2>4. QED
    BY <1>11, <1>14, <2>3, LocatesNothing
<1>15. QED
  BY <1>13, <1>14

\* After a single fault verify reports it at the right row for exactly the ranges
\* that can know of it, whatever was appended before and after: the link of a row
\* to the row before it, and its own hash, are all the scan looks at.
THEOREM FaultCorrect == Spec => []FaultLocated
<1>1. IndInv => FaultLocated
  <2> SUFFICES ASSUME IndInv, faults = 1, NEW r \in Ranges
               PROVE  LET q     == InRange(audit_log, r[1], r[2])
                          seqs  == {q[i].sequence : i \in 1..Len(q)}
                          sites == (Altered \cap seqs)
                                   \cup {n + 1 : n \in {m \in Lost : {m - 1, m + 1} \subseteq seqs}}
                      IN  IF sites = {} THEN Verify(r[1], r[2]).valid
                          ELSE /\ Verify(r[1], r[2]).first_invalid_sequence = Min(sites)
                               /\ Verify(r[1], r[2]).entries_verified
                                    = Cardinality({n \in seqs : n < Min(sites)})
    BY Zenon DEF FaultLocated
  <2> DEFINE q == InRange(audit_log, r[1], r[2])
  <2>1. r[1] \in Nat /\ r[2] \in Nat
    BY InspectionBounds DEF Ranges
  <2>2. IsListing(q, audit_log, r[1], r[2])
    BY <2>1, InRangeLists DEF IndInv
  <2>3. Verify(r[1], r[2]) = Scan(q)
    BY VerifyScans
  <2>4. Locates(q, Sites(Seqs(q)))
    <3> HIDE DEF q
    <3>1. QED
      BY <2>1, <2>2, LossLocated, ChangeLocated DEF IndInv, OneFault
  <2>5. QED
    BY <2>3, <2>4, Zenon DEF Locates, Sites, Seqs
<1>2. QED
  BY <1>1, IndCorrect, PTL

-----------------------------------------------------------------------------
(* What an anchored root pins down.                                        *)

\* The tree of Tree is the one that Inspection uses.
LEMMA SameTree == \A s : Tree!MerkleRoot(s) = MerkleRoot(s)
<1>1. \A s : Tree!Rounds(s) = Rounds(s)
  BY Zenon DEF Tree!Rounds, Rounds, Tree!LeafNode, LeafNode, Tree!LeafPrefix, LeafPrefix,
               Tree!Parents, Parents, Tree!CombineNodes, CombineNodes,
               Tree!InternalPrefix, InternalPrefix
<1>2. \A s : Tree!BuildLevels(s) = BuildLevels(s)
  BY <1>1, Zenon DEF Tree!BuildLevels, BuildLevels
<1>3. QED
  BY <1>2, Zenon DEF Tree!MerkleRoot, MerkleRoot, Tree!Last, Last

\* The hashes of rows that fit their hashes and come in order are distinct.
LEMMA HashesDistinct ==
  ASSUME NEW q \in Seq(Rows), q # <<>>, Ascending(q),
         \A i \in 1..Len(q) : Derived(q[i]) = q[i].entry_hash
  PROVE  /\ Tree!IsLevel(HashList(q)) /\ Tree!IsInjective(HashList(q))
         /\ Len(HashList(q)) = Len(q)
<1> DEFINE h == HashList(q)
           n == Len(q)
<1>1. n \in Nat /\ n >= 1 /\ \A i \in 1..n : q[i] \in Rows
  OBVIOUS
<1>2. h = [i \in 1..n |-> q[i].entry_hash]
  BY DEF HashList
<1>3. \A i, j \in 1..n : h[i] = h[j] => i = j
  <2> SUFFICES ASSUME NEW i \in 1..n, NEW j \in 1..n, h[i] = h[j] PROVE i = j
    OBVIOUS
  <2>1. q[i].sequence = q[j].sequence
    BY <1>1, <1>2, HashInjective
  <2>2. ~(i < j) /\ ~(j < i)
    <3>1. q[i].sequence \in Nat
      BY <1>1 DEF Rows
    <3>2. QED
      BY <2>1, <3>1 DEF Ascending
  <2>3. QED
    BY <1>1, <2>2
<1> HIDE DEF h, n
<1>4. Len(h) = n /\ DOMAIN h = 1..n /\ h = [i \in 1..n |-> h[i]]
  BY <1>1, <1>2
<1>5. Tree!IsLevel(h)
  BY <1>1, <1>4 DEF Tree!IsLevel, Tree!Size
<1>6. Tree!IsInjective(h)
  BY <1>3, <1>4 DEF Tree!IsInjective
<1>7. QED
  BY <1>4, <1>5, <1>6 DEF h, n

\* Rows that fit their hashes and have the root of rows that were written are those
\* rows, but for the payload.
LEMMA RootPins ==
  ASSUME NEW q \in Seq(Rows), q # <<>>, Ascending(q),
         \A i \in 1..Len(q) : Derived(q[i]) = q[i].entry_hash,
         NEW w \in Seq(Rows), w # <<>>, Ascending(w),
         \A i \in 1..Len(w) : Derived(w[i]) = w[i].entry_hash,
         MerkleRoot(HashList(q)) = MerkleRoot(HashList(w))
  PROVE  /\ Len(q) = Len(w)
         /\ \A i \in 1..Len(q) : Hashed(q[i]) = Hashed(w[i])
<1>1. HashList(q) = HashList(w)
  BY HashesDistinct, SameTree, Tree!RootDetermines
<1>2. Len(q) = Len(w)
  BY <1>1, HashesDistinct
<1>3. ASSUME NEW i \in 1..Len(q) PROVE Hashed(q[i]) = Hashed(w[i])
  <2>1. q[i] \in Rows /\ w[i] \in Rows
    BY <1>2
  <2>2. HashList(q)[i] = q[i].entry_hash /\ HashList(w)[i] = w[i].entry_hash
    BY <1>2 DEF HashList
  <2>3. q[i].entry_hash = w[i].entry_hash /\ Derived(q[i]) = Derived(w[i])
    BY <1>1, <1>2, <2>2
  <2>4. QED
    BY <2>1, <2>3, HashInjective, SameHashed
<1>4. QED
  BY <1>2, <1>3

\* Whatever was done to the rows since a root was taken, if verify accepts the range
\* and merkle_root still has that root, the hashed columns are those AppendTx
\* wrote.
THEOREM RootPinsCorrect == Spec => []RootPinsEntries
<1>1. IndInv => RootPinsEntries
  <2> DEFINE s == anchored.start_sequence
             e == anchored.end_sequence
             q == InRange(audit_log, s, e)
  <2> SUFFICES ASSUME IndInv, anchored # NoRoot, q # <<>>,
                      MerkleRootOf(s, e).root = anchored.root, Verify(s, e).valid
               PROVE  /\ MerkleRootOf(s, e) = anchored
                      /\ \A i \in 1..Len(q) : Hashed(q[i]) = Hashed(Written(q[i].sequence))
    BY Zenon DEF RootPinsEntries
  <2>1. PICK w \in Seq(appended) : w # <<>> /\ Ascending(w) /\ anchored = RootOf(w)
    BY DEF IndInv, IsRootOf
  <2>2. /\ appended \subseteq Rows /\ \A f \in appended : Derived(f) = f.entry_hash
        /\ cursor.last_sequence \in Nat /\ IsLog(appended, cursor.last_sequence)
        /\ IsLog(audit_log, cursor.last_sequence)
    BY DEF IndInv, IsChain, IsLog
  <2>3. w \in Seq(Rows) /\ \A i \in 1..Len(w) : w[i] \in appended
    BY <2>1, <2>2
  <2>4. /\ anchored.root = MerkleRoot(HashList(w))
        /\ s = w[1].sequence /\ e = w[Len(w)].sequence
    BY <2>1 DEF RootOf
  <2>5. s \in Nat /\ e \in Nat
    <3>1. 1 \in 1..Len(w) /\ Len(w) \in 1..Len(w)
      BY <2>1, <2>3
    <3>2. w[1] \in Rows /\ w[Len(w)] \in Rows
      BY <2>3, <3>1
    <3>3. QED
      BY <2>4, <3>2 DEF Rows
  <2> HIDE DEF s, e, q
  <2>6. IsListing(q, audit_log, s, e)
    BY <2>2, <2>5, InRangeLists DEF q
  <2>7. q \in Seq(Rows) /\ Ascending(q)
    BY <2>6 DEF IsListing
  <2>8. \A i \in 1..Len(q) : Derived(q[i]) = q[i].entry_hash
    <3>1. \A i \in 1..Len(q) : ~Refused(q, i)
      BY VerifyScans, ScanValid DEF q
    <3>2. QED
      BY <3>1 DEF Refused
  <2>9. MerkleRootOf(s, e) = RootOf(q)
    BY RootOfRange DEF q
  <2>10. MerkleRoot(HashList(q)) = MerkleRoot(HashList(w))
    BY <2>4, <2>9 DEF RootOf
  <2>11. /\ Len(q) = Len(w)
         /\ \A i \in 1..Len(q) : Hashed(q[i]) = Hashed(w[i])
    BY <2>1, <2>2, <2>3, <2>7, <2>8, <2>10, RootPins
  <2>12. \A i \in 1..Len(q) : q[i].sequence = w[i].sequence
    BY <2>3, <2>7, <2>11, SameHashed
  <2>13. RootOf(q) = RootOf(w)
    <3>1. 1 \in 1..Len(q) /\ Len(q) \in 1..Len(q)
      BY <2>7
    <3>2. q[1].sequence = w[1].sequence /\ q[Len(q)].sequence = w[Len(w)].sequence
      BY <2>11, <2>12, <3>1
    <3>3. QED
      BY <2>10, <2>11, <3>2 DEF RootOf
  <2>14. \A i \in 1..Len(q) : Hashed(q[i]) = Hashed(Written(q[i].sequence))
    <3> SUFFICES ASSUME NEW i \in 1..Len(q)
                 PROVE  Hashed(q[i]) = Hashed(Written(q[i].sequence))
      OBVIOUS
    <3>1. w[i] \in appended
      BY <2>3, <2>11
    <3>2. Written(w[i].sequence) = w[i]
      BY <2>2, <3>1, WrittenRow
    <3>3. QED
      BY <2>11, <2>12, <3>2
  <2>15. QED
    BY <2>1, <2>9, <2>13, <2>14
<1>2. QED
  BY <1>1, IndCorrect, PTL
=============================================================================
