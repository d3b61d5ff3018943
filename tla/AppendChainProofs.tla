------------------------- MODULE AppendChainProofs -------------------------
(***************************************************************************)
(* Proofs about AppendChain for every set of ledgers, clients, event types *)
(* and values and every bound on the number of calls.                      *)
(***************************************************************************)
EXTENDS AppendChain, FiniteSetTheorems, NaturalsInduction, WellFoundedInduction,
        TLAPS

-----------------------------------------------------------------------------
(* Types of the operators.                                                 *)

\* The defaults of a new audit_ledgers row are a cursor.
LEMMA GenesisType == GenesisCursor \in Cursors
  BY DEF GenesisCursor, Cursors, Hashes, NoHash

\* PayloadHash of a request is a payload hash.
LEMMA PayloadHashType ==
  ASSUME NEW r \in Requests
  PROVE  PayloadHash(r.payload) \in Values
  BY DEF PayloadHash, Requests, Payloads

\* EntryHash extends a hash to a hash.
LEMMA EntryHashType ==
  ASSUME NEW seq \in Nat, NEW l \in Ledgers, NEW et \in EventTypes,
         NEW ph \in Values, NEW prev \in Hashes
  PROVE  EntryHash(seq, l, et, ph, prev) \in Hashes
  BY DEF EntryHash, Hashes

\* The row AppendTx builds has the type of audit_log, the number after the
\* cursor's, and the cursor's hash as its prev_entry_hash.
LEMMA EntryForType ==
  ASSUME NEW r \in Requests, NEW cur \in Cursors
  PROVE  /\ EntryFor(r, cur) \in Rows
         /\ EntryFor(r, cur).ledger = r.ledger
         /\ EntryFor(r, cur).sequence = cur.last_sequence + 1
         /\ EntryFor(r, cur).prev_entry_hash = cur.last_entry_hash
         /\ EntryFor(r, cur).entry_hash =
              EntryHash(EntryFor(r, cur).sequence, r.ledger,
                        EntryFor(r, cur).event_type,
                        EntryFor(r, cur).payload_hash, cur.last_entry_hash)
         /\ CursorAt(EntryFor(r, cur)) \in Cursors
<1> DEFINE seq == cur.last_sequence + 1
           ph  == PayloadHash(r.payload)
           h   == EntryHash(seq, r.ledger, r.event_type, ph, cur.last_entry_hash)
<1>1. /\ seq \in Nat /\ r.ledger \in Ledgers /\ r.event_type \in EventTypes
      /\ cur.last_entry_hash \in Hashes
  BY DEF Requests, Cursors
<1>2. ph \in Values
  BY PayloadHashType
<1>3. h \in Hashes
  BY <1>1, <1>2, EntryHashType
<1>4. EntryFor(r, cur) =
        [sequence |-> seq, ledger |-> r.ledger, event_type |-> r.event_type,
         payload_hash |-> ph, prev_entry_hash |-> cur.last_entry_hash,
         entry_hash |-> h]
  BY DEF EntryFor
<1> HIDE DEF seq, ph, h
<1>5. EntryFor(r, cur) \in Rows
  BY <1>1, <1>2, <1>3, <1>4 DEF Rows
<1>6. CursorAt(EntryFor(r, cur)) \in Cursors
  BY <1>1, <1>3, <1>4 DEF CursorAt, Cursors
<1>7. QED
  BY <1>4, <1>5, <1>6 DEF seq, ph, h

-----------------------------------------------------------------------------
(* Type correctness.                                                       *)

\* What a transaction reads of audit_ledgers is a cursor.
LEMMA ViewType ==
  ASSUME TypeOK, NEW c \in Clients, NEW l \in Ledgers
  PROVE  View(c, l) \in Cursors
  BY DEF TypeOK, View

\* A transaction the server discards leaves everything well typed.
LEMMA DiscardType ==
  ASSUME TypeOK, NEW c \in Clients, Discard(c)
  PROVE  /\ rows' \in [Clients -> SUBSET Rows]
         /\ wrote' \in [Clients -> SUBSET Ledgers]
         /\ pend' \in [Clients -> [Ledgers -> Cursors]]
         /\ seen' \in [Clients -> Cursors]
         /\ req' \in [Clients -> Requests \cup {NoRequest}]
         /\ \A d \in Clients : d # c => req'[d] = req[d]
         /\ lock' \in [Ledgers -> Clients \cup {NoClient}]
<1>1. [l \in Ledgers |-> GenesisCursor] \in [Ledgers -> Cursors]
  BY GenesisType
<1>2. QED
  BY <1>1, GenesisType DEF TypeOK, Discard, Unlock

\* The empty database is well typed.
LEMMA TypeInit == Init => TypeOK
  BY GenesisType, BoundAssumption DEF Init, TypeOK

\* So does a statement of AppendTx that fails.
LEMMA AbortType ==
  ASSUME TypeOK, NEW c \in Clients, Abort(c)
  PROVE  TypeOK'
  BY DiscardType DEF Abort, TypeOK

\* Every step of the append path keeps the types.
LEMMA TypeStep == TypeOK /\ [Next]_vars => TypeOK'
<1> SUFFICES ASSUME TypeOK, [Next]_vars PROVE TypeOK'
  OBVIOUS
<1> USE BoundAssumption
<1>1. CASE UNCHANGED vars
  BY <1>1 DEF TypeOK, vars, db, txn
<1>2. ASSUME NEW l \in Ledgers, Provision(l) PROVE TypeOK'
  BY <1>2 DEF Provision, TypeOK, txn
<1>3. ASSUME NEW c \in Clients, BeginCaller(c) PROVE TypeOK'
  BY <1>3 DEF BeginCaller, TypeOK, db
<1>4. ASSUME NEW c \in Clients, NEW r \in Requests, AppendOwn(c, r) PROVE TypeOK'
  BY <1>4 DEF AppendOwn, TypeOK, db
<1>5. ASSUME NEW c \in Clients, NEW r \in Requests, AppendTx(c, r) PROVE TypeOK'
  BY <1>5 DEF AppendTx, TypeOK, db
<1>6. ASSUME NEW c \in Clients, SetLockTimeout(c) PROVE TypeOK'
  BY <1>6 DEF SetLockTimeout, TypeOK, db
<1>7. ASSUME NEW c \in Clients, LockLedger(c) PROVE TypeOK'
  <2>1. req[c] \in Requests /\ req[c].ledger \in Ledgers
    BY <1>7 DEF LockLedger, TypeOK, Requests
  <2>2. View(c, req[c].ledger) \in Cursors
    BY <2>1, ViewType
  <2>3. QED
    BY <1>7, <2>1, <2>2 DEF LockLedger, TypeOK
<1>8. ASSUME NEW c \in Clients, UnknownLedger(c) PROVE TypeOK'
  BY <1>8, GenesisType DEF UnknownLedger, Return, TypeOK, db
<1>9. ASSUME NEW c \in Clients, LockTimeout(c) PROVE TypeOK'
  BY <1>9, AbortType DEF LockTimeout
<1>10. ASSUME NEW c \in Clients, HashFails(c) PROVE TypeOK'
  BY <1>10, GenesisType DEF HashFails, Return, TypeOK, db
<1>11. ASSUME NEW c \in Clients, InsertRow(c) PROVE TypeOK'
  <2>1. req[c] \in Requests /\ seen[c] \in Cursors
    BY <1>11 DEF InsertRow, TypeOK
  <2>2. EntryFor(req[c], seen[c]) \in Rows
    BY <2>1, EntryForType
  <2>3. QED
    BY <1>11, <2>2 DEF InsertRow, TypeOK, db
<1>12. ASSUME NEW c \in Clients, InsertRejected(c) PROVE TypeOK'
  BY <1>12, AbortType DEF InsertRejected
<1>13. ASSUME NEW c \in Clients, UpdateCursor(c) PROVE TypeOK'
  <2>1. req[c] \in Requests /\ seen[c] \in Cursors /\ req[c].ledger \in Ledgers
    BY <1>13 DEF UpdateCursor, TypeOK, Requests
  <2>2. CursorAt(EntryFor(req[c], seen[c])) \in Cursors
    BY <2>1, EntryForType
  <2>3. QED
    BY <1>13, <2>1, <2>2, GenesisType DEF UpdateCursor, Return, TypeOK, db
<1>14. ASSUME NEW c \in Clients, CommitEffect(c), told' \in {told, told \cup rows[c]}
       PROVE TypeOK'
  <2>1. [l \in Ledgers |-> View(c, l)] \in [Ledgers -> Cursors]
    BY ViewType
  <2>2. QED
    BY <1>14, <2>1, DiscardType DEF CommitEffect, TypeOK
<1>15. ASSUME NEW c \in Clients, Rollback(c) PROVE TypeOK'
  BY <1>15, DiscardType DEF Rollback, TypeOK
<1>16. ASSUME NEW c \in Clients, ConnectionLost(c) PROVE TypeOK'
  BY <1>16 DEF ConnectionLost, TypeOK, db
<1>17. ASSUME NEW c \in Clients, BackendExits(c) PROVE TypeOK'
  BY <1>17, DiscardType DEF BackendExits, TypeOK
<1>18. QED
  BY <1>1, <1>2, <1>3, <1>4, <1>5, <1>6, <1>7, <1>8, <1>9, <1>10, <1>11, <1>12,
     <1>13, <1>14, <1>15, <1>16, <1>17
  DEF Next, AppendStep, EndStep, Commit, CommitUnanswered

\* Type correctness of the append path: every reachable state of the tables and
\* of every transaction has its type, and a client in AppendTx has arguments.
THEOREM TypeCorrect == Spec => []TypeOK
<1>1. QED
  BY TypeInit, TypeStep, PTL DEF Spec
-----------------------------------------------------------------------------
(* Facts about chains.                                                     *)

\* Only the rows of ledger l matter to IsChain(_, l, _).
LEMMA ChainLocal ==
  ASSUME NEW S \in SUBSET Rows, NEW T \in SUBSET Rows, NEW l \in Ledgers,
         NEW cur \in Cursors,
         \A e \in Rows : e.ledger = l => (e \in S <=> e \in T),
         IsChain(S, l, cur)
  PROVE  IsChain(T, l, cur)
  BY DEF IsChain, SameKey, Rows

\* The entry that AppendTx derives from the cursor of a chain has a key that no
\* row of the chain has.
LEMMA ChainFresh ==
  ASSUME NEW S \in SUBSET Rows, NEW cur \in Cursors, NEW r \in Requests,
         IsChain(S, r.ledger, cur)
  PROVE  \A f \in S : ~SameKey(EntryFor(r, cur), f)
<1>1. cur.last_sequence \in Nat
  BY DEF Cursors
<1>2. QED
  BY <1>1, EntryForType DEF IsChain, SameKey

\* ... and extends the chain by one.
LEMMA ChainExtend ==
  ASSUME NEW S \in SUBSET Rows, NEW cur \in Cursors, NEW r \in Requests,
         IsChain(S, r.ledger, cur)
  PROVE  IsChain(S \cup {EntryFor(r, cur)}, r.ledger, CursorAt(EntryFor(r, cur)))
<1> DEFINE x == EntryFor(r, cur)
           l == r.ledger
           m == cur.last_sequence
           T == S \cup {x}
<1>1. /\ x \in Rows /\ x.ledger = l /\ x.sequence = m + 1 /\ m \in Nat
      /\ x.prev_entry_hash = cur.last_entry_hash
      /\ x.entry_hash = EntryHash(x.sequence, l, x.event_type, x.payload_hash,
                                  x.prev_entry_hash)
  BY EntryForType DEF Cursors
<1>2. /\ CursorAt(x).last_sequence = m + 1
      /\ CursorAt(x).last_entry_hash = x.entry_hash
  BY <1>1 DEF CursorAt
<1>3. \A e \in S : e.sequence \in Nat
  BY DEF Rows
<1> HIDE DEF x
<1>4. \A e \in T : e.ledger = l => e.sequence \in 1..(m + 1)
  BY <1>1, <1>3 DEF IsChain
<1>5. \A n \in 1..(m + 1) : \E e \in T : e.ledger = l /\ e.sequence = n
  BY <1>1, <1>3 DEF IsChain
<1>6. \A e, f \in T : e.ledger = l /\ SameKey(e, f) => e = f
  BY <1>1, <1>3 DEF IsChain, SameKey
<1>7. \A e \in T : e.ledger = l =>
        e.entry_hash = EntryHash(e.sequence, l, e.event_type, e.payload_hash,
                                 e.prev_entry_hash)
  BY <1>1 DEF IsChain
<1>8. \A e \in T : e.ledger = l /\ e.sequence = 1 => e.prev_entry_hash = NoHash
  BY <1>1, <1>3 DEF IsChain
<1>9. \A e, f \in T : e.ledger = l /\ f.ledger = l /\ f.sequence = e.sequence + 1
        => f.prev_entry_hash = e.entry_hash
  BY <1>1, <1>3 DEF IsChain
<1>10. \A e \in T : e.ledger = l /\ e.sequence = m + 1 => e.entry_hash = x.entry_hash
  BY <1>1, <1>3 DEF IsChain
<1>11. QED
  BY <1>1, <1>2, <1>4, <1>5, <1>6, <1>7, <1>8, <1>9, <1>10 DEF IsChain, x
-----------------------------------------------------------------------------
(* The inductive invariant.  ChainIntact speaks of committed rows only; a  *)
(* commit preserves it because the committing transaction held the lock of *)
(* every ledger it wrote to, worked from the current cursor, and so built  *)
(* an unbroken chain in private.                                           *)

IndInv == TypeOK /\ ChainIntact /\ TransactionsIsolated

\* The invariant holds of the empty database.
LEMMA IndInit == Init => IndInv
<1> SUFFICES ASSUME Init PROVE IndInv
  OBVIOUS
<1>1. TypeOK
  BY TypeInit
<1>2. ChainIntact
  BY DEF Init, ChainIntact, IsChain, GenesisCursor
<1>3. TransactionsIsolated
  BY ClientAssumption
  DEF Init, TransactionsIsolated, LockDiscipline, ReadUnderLock, PrivateChain
<1>4. QED
  BY <1>1, <1>2, <1>3 DEF IndInv

\* Steps that leave the tables, the locks and every transaction's writes alone.
LEMMA QuietStep ==
  ASSUME IndInv, TypeOK', NEW c \in Clients,
         UNCHANGED <<audit_log, cursor, lock, rows, wrote, pend>>,
         \A d \in Clients : d # c =>
             pc'[d] = pc[d] /\ req'[d] = req[d] /\ seen'[d] = seen[d],
         pc'[c] \notin {"locked", "inserted"},
         pc'[c] = "lost" \/ pc[c] \notin {"inserted", "lost"}
  PROVE  ChainIntact' /\ TransactionsIsolated'
<1> USE DEF IndInv, TransactionsIsolated
<1>1. ChainIntact'
  BY DEF ChainIntact, IsChain
<1>2. LockDiscipline'
  BY DEF LockDiscipline
<1>3. ReadUnderLock'
  BY DEF ReadUnderLock, View
<1>4. ASSUME NEW d \in Clients, NEW l \in Ledgers, lock'[l] = d, pc'[d] # "lost"
      PROVE  IsChain(audit_log \cup rows[d], l, NextCursor(d, l)')
  <2>1. pc[d] # "lost" /\ lock[l] = d
    BY <1>4
  <2>2. IsChain(audit_log \cup rows[d], l, NextCursor(d, l))
    BY <2>1 DEF PrivateChain
  <2>3. NextCursor(d, l)' = NextCursor(d, l)
    BY <1>4 DEF NextCursor, View
  <2>4. QED
    BY <2>2, <2>3
<1>5. PrivateChain'
  BY <1>4 DEF PrivateChain, IsChain
<1>6. QED
  BY <1>1, <1>2, <1>3, <1>5

\* Steps in which the server discards a transaction.
LEMMA DiscardStep ==
  ASSUME IndInv, TypeOK', NEW c \in Clients, Discard(c),
         UNCHANGED <<audit_log, cursor>>,
         \E p \in {"idle", "aborted"} : pc' = [pc EXCEPT ![c] = p]
  PROVE  ChainIntact' /\ TransactionsIsolated'
<1> USE DEF IndInv, TransactionsIsolated
<1>1. /\ pc'[c] \in {"idle", "aborted"}
      /\ \A d \in Clients : d # c => pc'[d] = pc[d]
  BY DEF TypeOK
<1>2. /\ rows'[c] = {} /\ wrote'[c] = {}
      /\ \A d \in Clients : d # c =>
           /\ rows'[d] = rows[d] /\ wrote'[d] = wrote[d] /\ pend'[d] = pend[d]
           /\ seen'[d] = seen[d] /\ req'[d] = req[d]
  BY DEF TypeOK, Discard
<1>3. \A l \in Ledgers : /\ lock'[l] # c
                         /\ \A d \in Clients : d # c => (lock'[l] = d <=> lock[l] = d)
  BY ClientAssumption DEF TypeOK, Discard, Unlock
<1>4. ChainIntact'
  BY DEF ChainIntact, IsChain
<1>5. LockDiscipline'
  BY <1>2, <1>3 DEF LockDiscipline
<1>6. ReadUnderLock'
  <2> SUFFICES ASSUME NEW d \in Clients, pc'[d] \in {"locked", "inserted"}
               PROVE  lock'[req'[d].ledger] = d /\ seen'[d] = View(d, req[d].ledger)'
    BY <1>1, <1>2 DEF ReadUnderLock, View
  <2>1. d # c /\ req[d] \in Requests /\ req[d].ledger \in Ledgers
    BY <1>1 DEF TypeOK, Requests
  <2>2. QED
    BY <1>1, <1>2, <1>3, <2>1 DEF ReadUnderLock, View
<1>7. ASSUME NEW d \in Clients, NEW l \in Ledgers, lock'[l] = d, pc'[d] # "lost"
      PROVE  IsChain(audit_log' \cup rows'[d], l, NextCursor(d, l)')
  <2>1. d # c /\ pc[d] # "lost" /\ lock[l] = d
    BY <1>1, <1>3, <1>7
  <2>2. IsChain(audit_log \cup rows[d], l, NextCursor(d, l))
    BY <2>1 DEF PrivateChain
  <2>3. NextCursor(d, l)' = NextCursor(d, l)
    BY <1>1, <1>2, <2>1 DEF NextCursor, View
  <2>4. QED
    BY <1>2, <2>1, <2>2, <2>3
<1>8. PrivateChain'
  BY <1>7 DEF PrivateChain, IsChain
<1>9. QED
  BY <1>4, <1>5, <1>6, <1>8

\* SELECT .. FOR UPDATE: a new lock holder starts from the committed chain.
LEMMA LockStep ==
  ASSUME IndInv, TypeOK', NEW c \in Clients, LockLedger(c)
  PROVE  ChainIntact' /\ TransactionsIsolated'
<1> USE DEF IndInv, TransactionsIsolated
<1> DEFINE k == req[c].ledger
<1>1. req[c] \in Requests /\ k \in Ledgers
  BY DEF LockLedger, TypeOK, Requests
<1>2. /\ lock[k] \in {NoClient, c} /\ lock'[k] = c
      /\ \A l \in Ledgers : l # k => lock'[l] = lock[l]
      /\ pc[c] = "locking" /\ pc'[c] = "locked" /\ seen'[c] = View(c, k)
      /\ \A d \in Clients : d # c => pc'[d] = pc[d] /\ seen'[d] = seen[d]
      /\ UNCHANGED <<audit_log, cursor, req, rows, wrote, pend>>
  BY <1>1 DEF LockLedger, TypeOK
<1>3. ChainIntact'
  BY <1>2 DEF ChainIntact, IsChain
<1>4. LockDiscipline'
  BY <1>1, <1>2, ClientAssumption DEF LockDiscipline
<1>5. ReadUnderLock'
  <2> SUFFICES ASSUME NEW d \in Clients, pc'[d] \in {"locked", "inserted"}
               PROVE  lock'[req[d].ledger] = d /\ seen'[d] = View(d, req[d].ledger)
    BY <1>2 DEF ReadUnderLock, View
  <2>1. req[d] \in Requests /\ req[d].ledger \in Ledgers
    BY <1>1, <1>2 DEF TypeOK, Requests
  <2>2. QED
    BY <1>1, <1>2, <2>1, ClientAssumption DEF ReadUnderLock
<1>6. ASSUME NEW d \in Clients, NEW l \in Ledgers, lock'[l] = d, pc'[d] # "lost"
      PROVE  IsChain(audit_log \cup rows[d], l, NextCursor(d, l)')
  <2>1. NextCursor(d, l)' = NextCursor(d, l)
    BY <1>2 DEF NextCursor, View
  <2>2. CASE lock[l] = d
    BY <1>2, <1>6, <2>1, <2>2 DEF PrivateChain
  <2>3. CASE lock[l] # d
    <3>1. d = c /\ l = k
      BY <1>2, <1>6, <2>3
    <3>2. l \notin wrote[d] /\ \A e \in rows[d] : e.ledger # l
      BY <2>3 DEF LockDiscipline
    <3>3. NextCursor(d, l) = cursor[l]
      BY <1>2, <3>1, <3>2 DEF NextCursor, View
    <3>4. IsChain(audit_log, l, cursor[l])
      BY DEF ChainIntact
    <3>5. /\ audit_log \in SUBSET Rows /\ audit_log \cup rows[d] \in SUBSET Rows
          /\ cursor[l] \in Cursors
      BY DEF TypeOK
    <3>6. IsChain(audit_log \cup rows[d], l, cursor[l])
      BY <3>2, <3>4, <3>5, ChainLocal
    <3>7. QED
      BY <2>1, <3>3, <3>6
  <2>4. QED
    BY <2>2, <2>3
<1>7. PrivateChain'
  BY <1>2, <1>6 DEF PrivateChain, IsChain
<1>8. QED
  BY <1>3, <1>4, <1>5, <1>7

\* INSERT: the private chain grows by the entry the cursor does not yet cover.
LEMMA InsertStep ==
  ASSUME IndInv, TypeOK', NEW c \in Clients, InsertRow(c)
  PROVE  ChainIntact' /\ TransactionsIsolated'
<1> USE DEF IndInv, TransactionsIsolated
<1> DEFINE k == req[c].ledger
           e == EntryFor(req[c], seen[c])
<1>1. req[c] \in Requests /\ k \in Ledgers /\ seen[c] \in Cursors
  BY DEF InsertRow, TypeOK, Requests
<1>2. e \in Rows /\ e.ledger = k
  BY <1>1, EntryForType
<1> HIDE DEF e
<1>3. /\ pc[c] = "locked" /\ pc'[c] = "inserted" /\ rows'[c] = rows[c] \cup {e}
      /\ \A d \in Clients : d # c => pc'[d] = pc[d] /\ rows'[d] = rows[d]
      /\ UNCHANGED <<audit_log, cursor, lock, req, seen, wrote, pend>>
  BY DEF InsertRow, TypeOK, db, e
<1>4. lock[k] = c /\ seen[c] = View(c, k)
  BY <1>3 DEF ReadUnderLock
<1>5. ChainIntact'
  BY <1>3 DEF ChainIntact, IsChain
<1>6. LockDiscipline'
  BY <1>2, <1>3, <1>4 DEF LockDiscipline
<1>7. ReadUnderLock'
  BY <1>3 DEF ReadUnderLock, View
<1>8. ASSUME NEW d \in Clients, NEW l \in Ledgers, lock[l] = d, pc'[d] # "lost"
      PROVE  IsChain(audit_log \cup rows'[d], l, NextCursor(d, l)')
  <2>1. pc[d] # "lost"
    BY <1>3, <1>8
  <2>2. IsChain(audit_log \cup rows[d], l, NextCursor(d, l))
    BY <1>8, <2>1 DEF PrivateChain
  <2>3. CASE d = c /\ l = k
    <3>1. NextCursor(d, l) = seen[c] /\ NextCursor(d, l)' = CursorAt(e)
      BY <1>3, <1>4, <2>3 DEF NextCursor, e
    <3>2. audit_log \cup rows[c] \in SUBSET Rows
      BY DEF TypeOK
    <3>3. IsChain(audit_log \cup rows[c], k, seen[c])
      BY <2>2, <2>3, <3>1
    <3>4. IsChain((audit_log \cup rows[c]) \cup {e}, k, CursorAt(e))
      BY <1>1, <3>2, <3>3, ChainExtend DEF e
    <3>5. audit_log \cup rows'[c] = (audit_log \cup rows[c]) \cup {e}
      BY <1>3
    <3>6. QED
      BY <2>3, <3>1, <3>4, <3>5
  <2>4. CASE d = c /\ l # k
    <3>1. NextCursor(d, l)' = NextCursor(d, l)
      BY <1>3, <2>4 DEF NextCursor, View
    <3>2. /\ audit_log \cup rows[d] \in SUBSET Rows
          /\ audit_log \cup rows'[d] \in SUBSET Rows
      BY <1>2, <1>3, <2>4 DEF TypeOK
    <3>3. NextCursor(d, l) \in Cursors
      BY <1>3, <2>4, ViewType DEF NextCursor
    <3>4. \A f \in Rows : f.ledger = l =>
             (f \in audit_log \cup rows[d] <=> f \in audit_log \cup rows'[d])
      BY <1>2, <1>3, <2>4
    <3>5. IsChain(audit_log \cup rows'[d], l, NextCursor(d, l))
      BY <2>2, <3>2, <3>3, <3>4, ChainLocal
    <3>6. QED
      BY <3>1, <3>5
  <2>5. CASE d # c
    <3>1. NextCursor(d, l)' = NextCursor(d, l)
      BY <1>3, <2>5 DEF NextCursor, View
    <3>2. QED
      BY <1>3, <2>2, <2>5, <3>1
  <2>6. QED
    BY <2>3, <2>4, <2>5
<1>9. PrivateChain'
  BY <1>3, <1>8 DEF PrivateChain, IsChain
<1>10. QED
  BY <1>5, <1>6, <1>7, <1>9

\* UPDATE: the private cursor catches up with the inserted row.
LEMMA UpdateStep ==
  ASSUME IndInv, TypeOK', NEW c \in Clients, UpdateCursor(c)
  PROVE  ChainIntact' /\ TransactionsIsolated'
<1> USE DEF IndInv, TransactionsIsolated
<1> DEFINE k == req[c].ledger
           cur == CursorAt(EntryFor(req[c], seen[c]))
<1>1. req[c] \in Requests /\ k \in Ledgers
  BY DEF UpdateCursor, TypeOK, Requests
<1> HIDE DEF cur
<1>2. /\ pc[c] = "inserted" /\ pc'[c] = "open"
      /\ pend'[c][k] = cur /\ \A l \in Ledgers : l # k => pend'[c][l] = pend[c][l]
      /\ wrote'[c] = wrote[c] \cup {k}
      /\ \A d \in Clients : d # c =>
           /\ pc'[d] = pc[d] /\ req'[d] = req[d] /\ seen'[d] = seen[d]
           /\ pend'[d] = pend[d] /\ wrote'[d] = wrote[d]
      /\ UNCHANGED <<audit_log, cursor, lock, rows>>
  BY <1>1 DEF UpdateCursor, Return, TypeOK, db, cur
<1>3. lock[k] = c
  BY <1>2 DEF ReadUnderLock
<1>4. ChainIntact'
  BY <1>2 DEF ChainIntact, IsChain
<1>5. LockDiscipline'
  BY <1>2, <1>3 DEF LockDiscipline
<1>6. ReadUnderLock'
  <2> SUFFICES ASSUME NEW d \in Clients, pc'[d] \in {"locked", "inserted"}
               PROVE  lock[req'[d].ledger] = d /\ seen'[d] = View(d, req[d].ledger)'
    BY <1>2 DEF ReadUnderLock, View
  <2>1. QED
    BY <1>2 DEF ReadUnderLock, View
<1>7. ASSUME NEW d \in Clients, NEW l \in Ledgers, lock[l] = d, pc'[d] # "lost"
      PROVE  IsChain(audit_log \cup rows[d], l, NextCursor(d, l)')
  <2>1. pc[d] # "lost"
    BY <1>2, <1>7
  <2>2. IsChain(audit_log \cup rows[d], l, NextCursor(d, l))
    BY <1>7, <2>1 DEF PrivateChain
  <2>3. NextCursor(d, l)' = NextCursor(d, l)
    <3>1. CASE d = c /\ l = k
      BY <1>2, <3>1 DEF NextCursor, View, cur
    <3>2. CASE d = c /\ l # k
      BY <1>2, <3>2 DEF NextCursor, View
    <3>3. CASE d # c
      BY <1>2, <3>3 DEF NextCursor, View
    <3>4. QED
      BY <3>1, <3>2, <3>3
  <2>4. QED
    BY <2>2, <2>3
<1>8. PrivateChain'
  BY <1>2, <1>7 DEF PrivateChain, IsChain
<1>9. QED
  BY <1>4, <1>5, <1>6, <1>8
\* The step the invariant is for: what was private becomes the committed state.
LEMMA CommitStep ==
  ASSUME IndInv, TypeOK', NEW c \in Clients, CommitEffect(c)
  PROVE  ChainIntact' /\ TransactionsIsolated'
<1> USE DEF IndInv, TransactionsIsolated
<1>1. /\ pc[c] = "open" /\ pc'[c] = "idle"
      /\ \A d \in Clients : d # c => pc'[d] = pc[d]
      /\ audit_log' = audit_log \cup rows[c]
      /\ \A l \in Ledgers : cursor'[l] = View(c, l)
  BY DEF CommitEffect, TypeOK
<1>2. /\ rows'[c] = {} /\ wrote'[c] = {}
      /\ \A d \in Clients : d # c =>
           /\ rows'[d] = rows[d] /\ wrote'[d] = wrote[d] /\ pend'[d] = pend[d]
           /\ seen'[d] = seen[d] /\ req'[d] = req[d]
  BY DEF TypeOK, CommitEffect, Discard
<1>3. \A l \in Ledgers : /\ lock'[l] # c
                         /\ \A d \in Clients : d # c => (lock'[l] = d <=> lock[l] = d)
  BY ClientAssumption DEF TypeOK, CommitEffect, Discard, Unlock
<1>4. \A l \in Ledgers : lock[l] # c =>
        cursor'[l] = cursor[l] /\ \A e \in rows[c] : e.ledger # l
  BY <1>1 DEF LockDiscipline, View
<1>5. audit_log \in SUBSET Rows /\ audit_log' \in SUBSET Rows
  BY DEF TypeOK
<1>6. ASSUME NEW l \in Ledgers PROVE IsChain(audit_log', l, cursor'[l])
  <2>1. CASE lock[l] = c
    <3>1. NextCursor(c, l) = View(c, l)
      BY <1>1 DEF NextCursor
    <3>2. QED
      BY <1>1, <2>1, <3>1 DEF PrivateChain
  <2>2. CASE lock[l] # c
    <3>1. IsChain(audit_log, l, cursor[l]) /\ cursor[l] \in Cursors
      BY DEF ChainIntact, TypeOK
    <3>2. \A e \in Rows : e.ledger = l => (e \in audit_log <=> e \in audit_log')
      BY <1>1, <1>4, <2>2
    <3>3. IsChain(audit_log', l, cursor[l])
      BY <1>5, <3>1, <3>2, ChainLocal
    <3>4. QED
      BY <1>4, <2>2, <3>3
  <2>3. QED
    BY <2>1, <2>2
<1>7. ChainIntact'
  BY <1>6 DEF ChainIntact, IsChain
<1>8. LockDiscipline'
  BY <1>2, <1>3 DEF LockDiscipline
<1>9. \A d \in Clients, l \in Ledgers : d # c /\ lock[l] = d => View(d, l)' = View(d, l)
  BY <1>2, <1>4 DEF View
<1>10. ReadUnderLock'
  <2> SUFFICES ASSUME NEW d \in Clients, pc'[d] \in {"locked", "inserted"}
               PROVE  lock'[req'[d].ledger] = d /\ seen'[d] = View(d, req[d].ledger)'
    BY <1>1, <1>2 DEF ReadUnderLock, View
  <2>1. d # c /\ pc[d] \in {"locked", "inserted"}
    BY <1>1
  <2>2. req[d] \in Requests /\ req[d].ledger \in Ledgers
    BY <2>1 DEF TypeOK, Requests
  <2>3. lock[req[d].ledger] = d /\ seen[d] = View(d, req[d].ledger)
    BY <2>1 DEF ReadUnderLock
  <2>4. QED
    BY <1>2, <1>3, <1>9, <2>1, <2>2, <2>3
<1>11. ASSUME NEW d \in Clients, NEW l \in Ledgers, lock'[l] = d, pc'[d] # "lost"
       PROVE  IsChain(audit_log' \cup rows'[d], l, NextCursor(d, l)')
  <2>1. d # c /\ lock[l] = d /\ pc[d] # "lost" /\ lock[l] # c
    BY <1>1, <1>3, <1>11
  <2>2. IsChain(audit_log \cup rows[d], l, NextCursor(d, l))
    BY <2>1 DEF PrivateChain
  <2>3. NextCursor(d, l)' = NextCursor(d, l)
    BY <1>1, <1>2, <1>9, <2>1 DEF NextCursor
  <2>4. \A e \in Rows : e.ledger = l =>
           (e \in audit_log \cup rows[d] <=> e \in audit_log' \cup rows[d])
    BY <1>1, <1>4, <2>1
  <2>5. /\ audit_log \cup rows[d] \in SUBSET Rows
        /\ audit_log' \cup rows[d] \in SUBSET Rows
    BY <1>5 DEF TypeOK
  <2>6. NextCursor(d, l) \in Cursors
    <3>1. CASE pc[d] = "inserted"
      <4>1. req[d] \in Requests /\ seen[d] \in Cursors
        BY <3>1 DEF TypeOK
      <4>2. QED
        BY <4>1, EntryForType, ViewType DEF NextCursor
    <3>2. CASE pc[d] # "inserted"
      BY <3>2, ViewType DEF NextCursor
    <3>3. QED
      BY <3>1, <3>2
  <2>7. IsChain(audit_log' \cup rows[d], l, NextCursor(d, l))
    BY <2>2, <2>4, <2>5, <2>6, ChainLocal
  <2>8. QED
    BY <1>2, <2>1, <2>3, <2>7
<1>12. PrivateChain'
  BY <1>11 DEF PrivateChain, IsChain
<1>13. QED
  BY <1>7, <1>8, <1>10, <1>12

\* Every step of the append path keeps the invariant.
LEMMA IndStep == IndInv /\ [Next]_vars => IndInv'
<1> SUFFICES ASSUME IndInv, [Next]_vars PROVE ChainIntact' /\ TransactionsIsolated'
  BY TypeStep DEF IndInv
<1>0. TypeOK /\ TypeOK'
  BY TypeStep DEF IndInv
<1> DEFINE Goal == ChainIntact' /\ TransactionsIsolated'
<1>1. CASE UNCHANGED vars
  BY <1>1 DEF IndInv, vars, db, txn, ChainIntact, IsChain, TransactionsIsolated,
              LockDiscipline, ReadUnderLock, PrivateChain, NextCursor, View
<1>2. ASSUME NEW l \in Ledgers, Provision(l) PROVE Goal
  BY <1>2 DEF Provision, IndInv, txn, ChainIntact, IsChain, TransactionsIsolated,
              LockDiscipline, ReadUnderLock, PrivateChain, NextCursor, View
<1>3. ASSUME NEW c \in Clients, BeginCaller(c) PROVE Goal
  BY <1>0, <1>3, QuietStep DEF BeginCaller, TypeOK, db
<1>4. ASSUME NEW c \in Clients, NEW r \in Requests, AppendOwn(c, r) PROVE Goal
  BY <1>0, <1>4, QuietStep DEF AppendOwn, TypeOK, db
<1>5. ASSUME NEW c \in Clients, NEW r \in Requests, AppendTx(c, r) PROVE Goal
  BY <1>0, <1>5, QuietStep DEF AppendTx, TypeOK, db
<1>6. ASSUME NEW c \in Clients, SetLockTimeout(c) PROVE Goal
  BY <1>0, <1>6, QuietStep DEF SetLockTimeout, TypeOK, db
<1>7. ASSUME NEW c \in Clients, LockLedger(c) PROVE Goal
  BY <1>0, <1>7, LockStep
<1>8. ASSUME NEW c \in Clients, UnknownLedger(c) PROVE Goal
  BY <1>0, <1>8, QuietStep DEF UnknownLedger, Return, TypeOK, db
<1>9. ASSUME NEW c \in Clients, LockTimeout(c) PROVE Goal
  BY <1>0, <1>9, DiscardStep DEF LockTimeout, Abort
<1>10. ASSUME NEW c \in Clients, HashFails(c) PROVE Goal
  BY <1>0, <1>10, QuietStep DEF HashFails, Return, TypeOK, db
<1>11. ASSUME NEW c \in Clients, InsertRow(c) PROVE Goal
  BY <1>0, <1>11, InsertStep
<1>12. ASSUME NEW c \in Clients, InsertRejected(c) PROVE Goal
  BY <1>0, <1>12, DiscardStep DEF InsertRejected, Abort
<1>13. ASSUME NEW c \in Clients, UpdateCursor(c) PROVE Goal
  BY <1>0, <1>13, UpdateStep
<1>14. ASSUME NEW c \in Clients, CommitEffect(c) PROVE Goal
  BY <1>0, <1>14, CommitStep
<1>15. ASSUME NEW c \in Clients, Rollback(c) PROVE Goal
  BY <1>0, <1>15, DiscardStep DEF Rollback
<1>16. ASSUME NEW c \in Clients, ConnectionLost(c) PROVE Goal
  BY <1>0, <1>16, QuietStep DEF ConnectionLost, TypeOK, db
<1>17. ASSUME NEW c \in Clients, BackendExits(c) PROVE Goal
  BY <1>0, <1>17, DiscardStep DEF BackendExits
<1>18. QED
  BY <1>1, <1>2, <1>3, <1>4, <1>5, <1>6, <1>7, <1>8, <1>9, <1>10, <1>11, <1>12,
     <1>13, <1>14, <1>15, <1>16, <1>17
  DEF Next, AppendStep, EndStep, Commit, CommitUnanswered

\* The invariant holds throughout.
LEMMA IndCorrect == Spec => []IndInv
<1>1. QED
  BY IndInit, IndStep, PTL DEF Spec

-----------------------------------------------------------------------------
(* What follows.                                                           *)

\* Whatever clients do, the committed tables hold one gap-free, correctly linked
\* chain per ledger with the cursor at its end (AppendTx under the row lock).
THEOREM ChainCorrect == Spec => []ChainIntact
<1>1. IndInv => ChainIntact
  BY DEF IndInv
<1>2. QED
  BY <1>1, IndCorrect, PTL

\* Every open transaction works alone on the ledgers it has locked, from a
\* cursor that is still current (SELECT .. FOR UPDATE in AppendTx).
THEOREM IsolationCorrect == Spec => []TransactionsIsolated
<1>1. IndInv => TransactionsIsolated
  BY DEF IndInv
<1>2. QED
  BY <1>1, IndCorrect, PTL

\* No INSERT of AppendTx can ever hit the unique index on (ledger, sequence).
THEOREM CollisionFree == Spec => []NoCollision
<1>1. IndInv => NoCollision
  <2> SUFFICES ASSUME IndInv, NEW c \in Clients, pc[c] = "locked",
                      NEW d \in Clients, NEW f \in audit_log \cup rows[d]
               PROVE  ~SameKey(EntryFor(req[c], seen[c]), f)
    BY DEF NoCollision
  <2> DEFINE k == req[c].ledger
  <2>1. req[c] \in Requests /\ k \in Ledgers /\ seen[c] \in Cursors
    BY DEF IndInv, TypeOK, Requests
  <2>2. lock[k] = c /\ seen[c] = View(c, k)
    BY DEF IndInv, TransactionsIsolated, ReadUnderLock
  <2>3. IsChain(audit_log \cup rows[c], k, seen[c])
    BY <2>1, <2>2 DEF IndInv, TransactionsIsolated, PrivateChain, NextCursor
  <2>4. audit_log \cup rows[c] \in SUBSET Rows
    BY DEF IndInv, TypeOK
  <2>5. CASE f \in audit_log \cup rows[c]
    BY <2>1, <2>3, <2>4, <2>5, ChainFresh
  <2>6. CASE f \in rows[d] /\ d # c
    <3>1. f.ledger # k
      BY <2>1, <2>2, <2>6 DEF IndInv, TransactionsIsolated, LockDiscipline
    <3>2. EntryFor(req[c], seen[c]).ledger = k
      BY <2>1, EntryForType
    <3>3. QED
      BY <3>1, <3>2 DEF SameKey
  <2>7. QED
    BY <2>5, <2>6
<1>2. QED
  BY <1>1, IndCorrect, PTL

ToldInv == told \subseteq audit_log

\* A caller is told of rows only in the step that commits them.
LEMMA ToldStep == ToldInv /\ [Next]_vars => ToldInv'
<1> SUFFICES ASSUME ToldInv, [Next]_vars PROVE ToldInv'
  OBVIOUS
<1>1. CASE UNCHANGED <<audit_log, told>>
  BY <1>1 DEF ToldInv
<1>2. ASSUME NEW c \in Clients, CommitEffect(c), told' \in {told, told \cup rows[c]}
      PROVE  ToldInv'
  BY <1>2 DEF ToldInv, CommitEffect
<1>3. QED
  BY <1>1, <1>2
  DEF Next, vars, db, Provision, BeginCaller, AppendOwn, AppendTx, AppendStep,
      SetLockTimeout, LockLedger, UnknownLedger, LockTimeout, Abort, HashFails,
      InsertRow, InsertRejected, UpdateCursor, EndStep, Commit, CommitUnanswered,
      Rollback, ConnectionLost, BackendExits

\* A sequence number and entry hash that Append, or the commit of a caller's
\* transaction, reported as appended stay in the log for ever, and are unique.
THEOREM ToldCorrect == Spec => []ToldIsCommitted
<1>1. Init => ToldInv
  BY DEF Init, ToldInv
<1>2. IndInv /\ ToldInv => ToldIsCommitted
  <2> SUFFICES ASSUME IndInv, ToldInv, NEW e \in told, NEW f \in told, SameKey(e, f)
               PROVE  e = f
    BY DEF ToldInv, ToldIsCommitted
  <2>1. e \in audit_log /\ f \in audit_log /\ e.ledger \in Ledgers
    BY DEF ToldInv, IndInv, TypeOK, Rows
  <2>2. QED
    BY <2>1 DEF IndInv, ChainIntact, IsChain, SameKey
<1>3. QED
  BY <1>1, <1>2, ToldStep, IndCorrect, PTL DEF Spec

\* No step removes a row of audit_log.
LEMMA LogGrows == [Next]_vars => audit_log \subseteq audit_log'
  BY DEF Next, vars, db, Provision, BeginCaller, AppendOwn, AppendTx, AppendStep,
      SetLockTimeout, LockLedger, UnknownLedger, LockTimeout, Abort, HashFails,
      InsertRow, InsertRejected, UpdateCursor, EndStep, Commit, CommitUnanswered,
      CommitEffect, Rollback, ConnectionLost, BackendExits

\* No step changes or removes a committed row, and a cursor advances only with
\* the rows it covers (INSERT and UPDATE of AppendTx in one transaction).
THEOREM AppendOnlyCorrect == Spec => AppendOnly
<1> DEFINE Grow ==
      /\ audit_log \subseteq audit_log'
      /\ \A l \in Ledgers :
           /\ cursor'[l].last_sequence >= cursor[l].last_sequence
           /\ \A n \in cursor[l].last_sequence + 1 .. cursor'[l].last_sequence :
                \E e \in audit_log' \ audit_log : e.ledger = l /\ e.sequence = n
<1>1. IndInv /\ IndInv' /\ [Next]_vars => Grow
  <2> SUFFICES ASSUME IndInv, IndInv', [Next]_vars, NEW l \in Ledgers
               PROVE  /\ cursor'[l].last_sequence >= cursor[l].last_sequence
                      /\ \A n \in cursor[l].last_sequence + 1 .. cursor'[l].last_sequence :
                           \E e \in audit_log' \ audit_log : e.ledger = l /\ e.sequence = n
    BY LogGrows
  <2> DEFINE m == cursor[l].last_sequence
             k == cursor'[l].last_sequence
  <2>1. m \in Nat /\ k \in Nat
    BY DEF IndInv, TypeOK, Cursors
  <2>2. /\ \A e \in audit_log : e.ledger = l => e.sequence \in 1..m
        /\ \A n \in 1..m : \E e \in audit_log : e.ledger = l /\ e.sequence = n
    BY DEF IndInv, ChainIntact, IsChain
  <2>3. /\ \A e \in audit_log' : e.ledger = l => e.sequence \in 1..k
        /\ \A n \in 1..k : \E e \in audit_log' : e.ledger = l /\ e.sequence = n
    BY DEF IndInv, ChainIntact, IsChain
  <2>4. audit_log \subseteq audit_log'
    BY LogGrows
  <2> HIDE DEF m, k
  <2>5. k >= m
    BY <2>1, <2>2, <2>3, <2>4
  <2>6. \A n \in m + 1 .. k : \E e \in audit_log' \ audit_log : e.ledger = l /\ e.sequence = n
    BY <2>1, <2>2, <2>3
  <2>7. QED
    BY <2>5, <2>6 DEF m, k
<1>2. QED
  BY <1>1, IndCorrect, PTL DEF Spec, AppendOnly

-----------------------------------------------------------------------------
(* Implementation of AuditLedger.  Its chain is a function of the committed *)
(* rows; both operators take them as an argument, to compare the chains    *)
(* before and after a step.                                                *)

RowsIn(A, l) == {e \in A : e.ledger = l}

ChainIn(A, l) ==
    [n \in 1..Cardinality(RowsIn(A, l)) |->
        LET e == CHOOSE e \in RowsIn(A, l) : e.sequence = n
        IN  <<e.event_type, e.payload_hash>>]

\* The rows of a chain are as many as its cursor says.
LEMMA RowsCount ==
  ASSUME NEW A \in SUBSET Rows, NEW l \in Ledgers, NEW cur \in Cursors,
         IsChain(A, l, cur)
  PROVE  Cardinality(RowsIn(A, l)) = cur.last_sequence
<1> DEFINE m == cur.last_sequence
           R == RowsIn(A, l)
           row == [n \in 1..m |-> CHOOSE e \in R : e.sequence = n]
<1>1. m \in Nat
  BY DEF Cursors
<1>2. \A n \in 1..m : row[n] \in R /\ row[n].sequence = n
  BY DEF IsChain, RowsIn
<1>3. \A e \in R : e.sequence \in 1..m /\ row[e.sequence] = e
  BY <1>2 DEF IsChain, RowsIn, SameKey
<1> HIDE DEF m, R
<1>4. row \in Injection(1..m, R)
  BY <1>2 DEF Injection, IsInjective
<1>5. row \in Surjection(1..m, R)
  BY <1>2, <1>3 DEF Surjection
<1>6. ExistsBijection(1..m, R)
  BY <1>4, <1>5 DEF ExistsBijection, Bijection
<1>7. Cardinality(R) = m
  BY <1>1, <1>6, FS_CountingElements
<1>8. QED
  BY <1>7 DEF m, R

\* Its n-th entry is the one recorded in row n.
LEMMA ChainAt ==
  ASSUME NEW A \in SUBSET Rows, NEW l \in Ledgers, NEW cur \in Cursors,
         IsChain(A, l, cur)
  PROVE  /\ ChainIn(A, l) \in Seq(Entries)
         /\ Len(ChainIn(A, l)) = cur.last_sequence
         /\ \A e \in A : e.ledger = l =>
              ChainIn(A, l)[e.sequence] = <<e.event_type, e.payload_hash>>
<1> DEFINE m == cur.last_sequence
           R == RowsIn(A, l)
           row(n) == CHOOSE e \in R : e.sequence = n
<1>1. m \in Nat
  BY DEF Cursors
<1>2. \A n \in 1..m : row(n) \in R /\ row(n).sequence = n
  BY DEF IsChain, RowsIn
<1>3. \A e \in R : e.sequence \in 1..m /\ row(e.sequence) = e
  BY <1>2 DEF IsChain, RowsIn, SameKey
<1>4. Cardinality(R) = m
  BY RowsCount
<1>5. R \subseteq A /\ \A e \in A : e.ledger = l => e \in R
  BY DEF RowsIn
<1>6. ChainIn(A, l) = [n \in 1..m |-> <<row(n).event_type, row(n).payload_hash>>]
  BY <1>4 DEF ChainIn
<1> HIDE DEF m, R, row
<1>7. \A n \in 1..m : <<row(n).event_type, row(n).payload_hash>> \in Entries
  BY <1>2, <1>5 DEF Entries, Rows
<1>8. ChainIn(A, l) \in Seq(Entries) /\ Len(ChainIn(A, l)) = m
  BY <1>1, <1>6, <1>7
<1>9. \A e \in R : ChainIn(A, l)[e.sequence] = <<e.event_type, e.payload_hash>>
  BY <1>3, <1>6
<1>10. QED
  BY <1>5, <1>8, <1>9 DEF m

\* A set with 0 that has the successor of each of its members has every number.
LEMMA SetInduction ==
  ASSUME NEW P \in SUBSET Nat, 0 \in P, \A n \in P : n + 1 \in P
  PROVE  \A n \in Nat : n \in P
<1> DEFINE Less == {p \in Nat \X Nat : p[1] < p[2]}
<1> SUFFICES ASSUME NEW n \in Nat, n \notin P PROVE FALSE
  OBVIOUS
<1>1. IsWellFoundedOn(Less, Nat)
  BY NatLessThanWellFounded DEF OpToRel
<1>2. PICK x \in Nat \ P : \A y \in Nat \ P : ~(<<y, x>> \in Less)
  <2>1. Nat \ P \in SUBSET Nat /\ Nat \ P # {}
    OBVIOUS
  <2>2. QED
    BY <1>1, <2>1, WFMin
<1>3. x # 0 /\ x - 1 \in Nat /\ x - 1 < x
  BY <1>2
<1>4. x - 1 \in P
  BY <1>2, <1>3
<1>5. QED
  BY <1>2, <1>3, <1>4

\* The entry hash of a row stands for the chain up to that row.
LEMMA HashCommits ==
  ASSUME NEW A \in SUBSET Rows, NEW l \in Ledgers, NEW cur \in Cursors,
         IsChain(A, l, cur), NEW x \in A, x.ledger = l
  PROVE  Preimage(x.entry_hash) = SubSeq(ChainIn(A, l), 1, x.sequence)
<1> DEFINE C == ChainIn(A, l)
           Fits(e) == /\ Len(e.entry_hash) = e.sequence
                      /\ \A i \in 1..e.sequence :
                           <<e.entry_hash[i][3], e.entry_hash[i][4]>> = C[i]
           P == {n \in Nat : \A e \in A : e.ledger = l /\ e.sequence = n => Fits(e)}
<1>1. /\ C \in Seq(Entries) /\ Len(C) = cur.last_sequence
      /\ \A e \in A : e.ledger = l => C[e.sequence] = <<e.event_type, e.payload_hash>>
  BY ChainAt
<1> HIDE DEF C
<1>2. \A e \in A : /\ e.sequence \in Nat /\ e.prev_entry_hash \in Hashes
                   /\ e.entry_hash \in Hashes
  BY DEF Rows
<1>3. 0 \in P
  BY DEF IsChain
<1>4. ASSUME NEW n \in P PROVE n + 1 \in P
  <2> SUFFICES ASSUME NEW e \in A, e.ledger = l, e.sequence = n + 1 PROVE Fits(e)
    OBVIOUS
  <2> DEFINE h == e.prev_entry_hash
             top == <<e.sequence, l, e.event_type, e.payload_hash>>
  <2>1. e.entry_hash = Append(h, top)
    BY DEF IsChain, EntryHash
  <2>2. Len(h) = n /\ \A i \in 1..n : <<h[i][3], h[i][4]>> = C[i]
    <3>1. CASE n = 0
      BY <3>1 DEF IsChain, NoHash
    <3>2. CASE n # 0
      <4>1. n \in 1..cur.last_sequence
        BY <1>2, <3>2 DEF IsChain, Cursors
      <4>2. PICK f \in A : f.ledger = l /\ f.sequence = n
        BY <4>1 DEF IsChain
      <4>3. h = f.entry_hash
        BY <4>2 DEF IsChain
      <4>4. QED
        BY <4>2, <4>3
    <3>3. QED
      BY <3>1, <3>2
  <2>3. top[3] = e.event_type /\ top[4] = e.payload_hash
    OBVIOUS
  <2>4. <<top[3], top[4]>> = C[n + 1]
    BY <1>1, <2>3
  <2>5. h \in Seq(Nat \X Ledgers \X EventTypes \X Values)
    BY <1>2 DEF Hashes
  <2> HIDE DEF h, top
  <2>6. /\ Len(e.entry_hash) = n + 1 /\ e.entry_hash[n + 1] = top
        /\ \A i \in 1..n : e.entry_hash[i] = h[i]
    BY <2>1, <2>2, <2>5
  <2>7. QED
    BY <2>2, <2>4, <2>6
<1> HIDE DEF P
<1>5. x.sequence \in P
  <2>1. P \in SUBSET Nat
    BY DEF P
  <2>2. \A n \in Nat : n \in P
    BY <1>3, <1>4, <2>1, SetInduction
  <2>3. QED
    BY <1>2, <2>2
<1>6. Fits(x)
  BY <1>5 DEF P
<1>7. x.sequence \in 1..Len(C)
  BY <1>1 DEF IsChain
<1>8. Preimage(x.entry_hash) = [i \in 1..x.sequence |-> C[i]]
  BY <1>6 DEF Preimage
<1>9. SubSeq(C, 1, x.sequence) = [i \in 1..x.sequence |-> C[i]]
  BY <1>1, <1>2, <1>7
<1>10. QED
  BY <1>8, <1>9 DEF C

\* More rows make a longer chain.
LEMMA ChainGrows ==
  ASSUME NEW A \in SUBSET Rows, NEW B \in SUBSET Rows, A \subseteq B,
         NEW l \in Ledgers, NEW cur \in Cursors, NEW next \in Cursors,
         IsChain(A, l, cur), IsChain(B, l, next)
  PROVE  Abstract!IsPrefix(ChainIn(A, l), ChainIn(B, l))
<1> DEFINE C == ChainIn(A, l)
           D == ChainIn(B, l)
           m == cur.last_sequence
           k == next.last_sequence
<1>1. /\ C \in Seq(Entries) /\ Len(C) = m
      /\ \A e \in A : e.ledger = l => C[e.sequence] = <<e.event_type, e.payload_hash>>
  BY ChainAt
<1>2. /\ D \in Seq(Entries) /\ Len(D) = k
      /\ \A e \in B : e.ledger = l => D[e.sequence] = <<e.event_type, e.payload_hash>>
  BY ChainAt
<1> HIDE DEF C, D
<1>3. \A n \in 1..m : n \in 1..k /\ C[n] = D[n]
  <2> SUFFICES ASSUME NEW n \in 1..m PROVE n \in 1..k /\ C[n] = D[n]
    OBVIOUS
  <2>1. PICK e \in A : e.ledger = l /\ e.sequence = n
    BY DEF IsChain
  <2>2. QED
    BY <1>1, <1>2, <2>1 DEF IsChain
<1>4. m \in Nat /\ k \in Nat /\ m <= k
  BY <1>3 DEF Cursors
<1>5. SubSeq(C, 1, m) = SubSeq(D, 1, m)
  BY <1>1, <1>2, <1>3, <1>4
<1>6. QED
  BY <1>1, <1>2, <1>4, <1>5 DEF Abstract!IsPrefix, C, D

-----------------------------------------------------------------------------
(* The rows a transaction has inserted are not in the log before it        *)
(* commits.  IndInv does not say so: a row in both would be harmless to the *)
(* chain, but its caller would be told of an entry that an earlier step    *)
(* added.                                                                  *)

Uncommitted == \A c \in Clients : rows[c] \cap audit_log = {}

\* An INSERT adds a row with a new key, and no other transaction can commit a
\* row to a ledger that this one has locked.
LEMMA UncommittedStep == IndInv /\ Uncommitted /\ [Next]_vars => Uncommitted'
<1> SUFFICES ASSUME IndInv, Uncommitted, [Next]_vars PROVE Uncommitted'
  OBVIOUS
<1>1. rows \in [Clients -> SUBSET Rows]
  BY DEF IndInv, TypeOK
<1>2. CASE UNCHANGED <<audit_log, rows>>
  BY <1>2 DEF Uncommitted
<1>3. ASSUME NEW c \in Clients, Discard(c), UNCHANGED audit_log PROVE Uncommitted'
  BY <1>1, <1>3 DEF Discard, Uncommitted
<1>4. ASSUME NEW c \in Clients, InsertRow(c) PROVE Uncommitted'
  <2> DEFINE e == EntryFor(req[c], seen[c])
  <2>1. e \notin audit_log
    BY <1>4 DEF InsertRow, SameKey
  <2>2. audit_log' = audit_log /\ rows' = [rows EXCEPT ![c] = @ \cup {e}]
    BY <1>4 DEF InsertRow, db
  <2> HIDE DEF e
  <2>3. QED
    BY <1>1, <2>1, <2>2 DEF Uncommitted
<1>5. ASSUME NEW c \in Clients, CommitEffect(c) PROVE Uncommitted'
  <2>1. audit_log' = audit_log \cup rows[c] /\ rows' = [rows EXCEPT ![c] = {}]
    BY <1>5 DEF CommitEffect, Discard
  <2>2. ASSUME NEW d \in Clients, d # c PROVE rows[d] \cap rows[c] = {}
    <3> SUFFICES ASSUME NEW e \in rows[d], e \in rows[c] PROVE FALSE
      OBVIOUS
    <3>1. e.ledger \in Ledgers
      BY <1>1 DEF Rows
    <3>2. lock[e.ledger] = d /\ lock[e.ledger] = c
      BY <3>1 DEF IndInv, TransactionsIsolated, LockDiscipline
    <3>3. QED
      BY <2>2, <3>2
  <2>3. QED
    BY <1>1, <2>1, <2>2 DEF Uncommitted
<1>6. QED
  BY <1>2, <1>3, <1>4, <1>5
  DEF Next, vars, db, txn, Provision, BeginCaller, AppendOwn, AppendTx, AppendStep,
      SetLockTimeout, LockLedger, UnknownLedger, LockTimeout, Abort, HashFails,
      InsertRejected, UpdateCursor, EndStep, Commit, CommitUnanswered,
      Rollback, ConnectionLost, BackendExits

\* What is new in the chains after a commit is what the caller of that
\* transaction is told.
LEMMA CommitTells ==
  ASSUME IndInv, IndInv', Uncommitted, NEW c \in Clients, CommitEffect(c)
  PROVE  Abstract!NewPrefixes =
           {<<e.ledger, Preimage(e.entry_hash)>> : e \in rows[c]}
<1> DEFINE last(l)  == cursor[l].last_sequence
           lastN(l) == cursor'[l].last_sequence
           old(l)   == ChainIn(audit_log, l)
           new(l)   == ChainIn(audit_log', l)
<1>1. audit_log' = audit_log \cup rows[c]
  BY DEF CommitEffect
<1>2. /\ audit_log \in SUBSET Rows /\ audit_log' \in SUBSET Rows
      /\ \A l \in Ledgers : cursor[l] \in Cursors /\ cursor'[l] \in Cursors
      /\ \A l \in Ledgers : IsChain(audit_log, l, cursor[l])
      /\ \A l \in Ledgers : IsChain(audit_log', l, cursor'[l])
  BY DEF IndInv, TypeOK, ChainIntact, IsChain
<1>3. \A l \in Ledgers : Len(old(l)) = last(l) /\ Len(new(l)) = lastN(l)
  BY <1>2, ChainAt
<1>4. \A e \in audit_log' : e.ledger \in Ledgers =>
        Preimage(e.entry_hash) = SubSeq(new(e.ledger), 1, e.sequence)
  BY <1>2, HashCommits
<1>5. Abstract!NewPrefixes =
        UNION {{<<l, SubSeq(new(l), 1, n)>> : n \in last(l) + 1 .. lastN(l)} : l \in Ledgers}
  <2>1. \A l \in Ledgers : ChainOf(l) = old(l) /\ ChainOf(l)' = new(l)
    BY DEF ChainOf, ChainIn, RowsOf, RowsIn
  <2> HIDE DEF old, new, last, lastN
  <2>2. \A l \in Ledgers :
          {<<l, SubSeq(([k \in Ledgers |-> ChainOf(k)]')[l], 1, n)>> :
             n \in Len([k \in Ledgers |-> ChainOf(k)][l]) + 1 ..
                   Len(([k \in Ledgers |-> ChainOf(k)]')[l])}
          = {<<l, SubSeq(new(l), 1, n)>> : n \in last(l) + 1 .. lastN(l)}
    BY <1>3, <2>1
  <2>3. QED
    BY <2>2 DEF Abstract!NewPrefixes
<1>6. \A e \in rows[c] : /\ e \in audit_log' /\ e.ledger \in Ledgers
                         /\ e.sequence \in last(e.ledger) + 1 .. lastN(e.ledger)
  <2> SUFFICES ASSUME NEW e \in rows[c]
               PROVE  /\ e.ledger \in Ledgers
                      /\ e.sequence \in last(e.ledger) + 1 .. lastN(e.ledger)
    BY <1>1
  <2> DEFINE k == e.ledger
  <2>1. e \in audit_log' /\ e \notin audit_log /\ k \in Ledgers
    BY <1>1, <1>2 DEF Uncommitted, Rows
  <2>2. e.sequence \in 1..lastN(k)
    BY <1>2, <2>1 DEF IsChain
  <2>3. e.sequence \notin 1..last(k)
    <3> SUFFICES ASSUME e.sequence \in 1..last(k) PROVE FALSE
      OBVIOUS
    <3>1. PICK f \in audit_log : f.ledger = k /\ f.sequence = e.sequence
      BY <1>2, <2>1 DEF IsChain
    <3>2. f = e
      BY <1>1, <1>2, <2>1, <3>1 DEF IsChain, SameKey
    <3>3. QED
      BY <2>1, <3>1, <3>2
  <2>4. last(k) \in Nat /\ lastN(k) \in Nat
    BY <1>2, <2>1 DEF Cursors
  <2> HIDE DEF last, lastN, k
  <2>5. e.sequence \in last(k) + 1 .. lastN(k)
    BY <2>2, <2>3, <2>4
  <2>6. QED
    BY <2>1, <2>5 DEF k
<1>7. \A l \in Ledgers : \A n \in last(l) + 1 .. lastN(l) :
        \E e \in rows[c] : e.ledger = l /\ e.sequence = n
  <2> SUFFICES ASSUME NEW l \in Ledgers, NEW n \in last(l) + 1 .. lastN(l)
               PROVE  \E e \in rows[c] : e.ledger = l /\ e.sequence = n
    OBVIOUS
  <2>1. last(l) \in Nat /\ lastN(l) \in Nat
    BY <1>2 DEF Cursors
  <2>2. n \in 1..lastN(l) /\ n \notin 1..last(l)
    BY <2>1
  <2>3. PICK e \in audit_log' : e.ledger = l /\ e.sequence = n
    BY <1>2, <2>2 DEF IsChain
  <2>4. e \notin audit_log
    BY <1>2, <2>2, <2>3 DEF IsChain
  <2>5. QED
    BY <1>1, <2>3, <2>4
<1> HIDE DEF last, lastN, old, new
<1>8. ASSUME NEW e \in rows[c]
      PROVE  <<e.ledger, Preimage(e.entry_hash)>> \in Abstract!NewPrefixes
  BY <1>4, <1>5, <1>6
<1>9. ASSUME NEW l \in Ledgers, NEW n \in last(l) + 1 .. lastN(l)
      PROVE  \E e \in rows[c] :
               <<l, SubSeq(new(l), 1, n)>> = <<e.ledger, Preimage(e.entry_hash)>>
  <2>1. PICK e \in rows[c] : e.ledger = l /\ e.sequence = n
    BY <1>7, <1>9
  <2>2. Preimage(e.entry_hash) = SubSeq(new(l), 1, n)
    BY <1>4, <1>6, <2>1
  <2>3. QED
    BY <2>1, <2>2
<1>10. QED
  BY <1>5, <1>8, <1>9

-----------------------------------------------------------------------------
\* The empty database is the empty ledger.
LEMMA LedgerInit == Init => Abstract!Init
<1> SUFFICES ASSUME Init PROVE Abstract!Init
  OBVIOUS
<1>1. audit_log \in SUBSET Rows /\ told = {}
  BY DEF Init
<1>2. \A l \in Ledgers : ChainOf(l) = <<>>
  <2> SUFFICES ASSUME NEW l \in Ledgers PROVE ChainOf(l) = <<>>
    OBVIOUS
  <2>1. RowsOf(l) = {}
    BY DEF Init, RowsOf
  <2>2. Cardinality(RowsOf(l)) = 0
    BY <2>1, FS_EmptySet
  <2>3. QED
    BY <2>2 DEF ChainOf
<1>3. QED
  BY <1>1, <1>2 DEF Abstract!Init

\* Every step of the append path extends the ledgers atomically or not at all.
LEMMA LedgerStep ==
  IndInv /\ IndInv' /\ Uncommitted /\ [Next]_vars => Abstract!Extend
<1> SUFFICES ASSUME IndInv, IndInv', Uncommitted, [Next]_vars PROVE Abstract!Extend
  OBVIOUS
<1>1. \A l \in Ledgers : Abstract!IsPrefix(ChainIn(audit_log, l), ChainIn(audit_log', l))
  <2>1. /\ audit_log \in SUBSET Rows /\ audit_log' \in SUBSET Rows
        /\ \A l \in Ledgers : cursor[l] \in Cursors /\ cursor'[l] \in Cursors
        /\ \A l \in Ledgers : IsChain(audit_log, l, cursor[l])
        /\ \A l \in Ledgers : IsChain(audit_log', l, cursor'[l])
    BY DEF IndInv, TypeOK, ChainIntact, IsChain
  <2>2. audit_log \subseteq audit_log'
    BY LogGrows
  <2>3. QED
    BY <2>1, <2>2, ChainGrows
<1> DEFINE tell(S) == {<<e.ledger, Preimage(e.entry_hash)>> : e \in S}
<1>2. tell(told') \in {tell(told), tell(told) \cup Abstract!NewPrefixes}
  <2>1. CASE told' = told
    BY <2>1
  <2>2. ASSUME NEW c \in Clients, CommitEffect(c), told' = told \cup rows[c]
        PROVE  tell(told') = tell(told) \cup Abstract!NewPrefixes
    <3>1. Abstract!NewPrefixes = tell(rows[c])
      BY <2>2, CommitTells
    <3>2. QED
      BY <2>2, <3>1
  <2>3. QED
    BY <2>1, <2>2
    DEF Next, vars, Provision, BeginCaller, AppendOwn, AppendTx, AppendStep,
        SetLockTimeout, LockLedger, UnknownLedger, LockTimeout, Abort, HashFails,
        InsertRow, InsertRejected, UpdateCursor, EndStep, Commit, CommitUnanswered,
        Rollback, ConnectionLost, BackendExits
<1>3. \A l \in Ledgers : /\ ChainOf(l) = ChainIn(audit_log, l)
                         /\ ChainOf(l)' = ChainIn(audit_log', l)
  BY DEF ChainOf, ChainIn, RowsOf, RowsIn
<1>4. QED
  BY <1>1, <1>2, <1>3 DEF Abstract!Extend

\* What readers of audit_log see and what callers are told is a behaviour of
\* AuditLedger: ledgers grow only at the end, a transaction becomes visible at
\* once, and the entry hash that Append returns commits to the whole chain up to
\* its entry.
THEOREM LedgerImplemented == Spec => ImplementsLedger
<1>1. Init => Uncommitted
  BY DEF Init, Uncommitted
<1>2. IndInv /\ IndInv' /\ Uncommitted /\ [Next]_vars
        => [Abstract!Next]_<<[l \in Ledgers |-> ChainOf(l)],
                             {<<e.ledger, Preimage(e.entry_hash)>> : e \in told}>>
  BY LedgerStep DEF Abstract!Next
<1>3. QED
  BY <1>1, <1>2, LedgerInit, UncommittedStep, IndCorrect, PTL
  DEF Spec, ImplementsLedger, Abstract!Spec
=============================================================================
