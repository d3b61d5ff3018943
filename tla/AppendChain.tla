---------------------------- MODULE AppendChain ----------------------------
(***************************************************************************)
(* The write path of the audit chain: Appender.Append and                  *)
(* Appender.AppendTx (src/chain/append.go) run by several clients against  *)
(* one Postgres database holding audit_log and audit_ledgers.              *)
(*                                                                         *)
(* A client has at most one transaction.  In mode "own" it is the one that *)
(* Append opens, uses once and finishes; in mode "caller" AppendTx is      *)
(* called with a transaction that the caller opened, may use for several   *)
(* entries, and may commit, roll back or simply stop driving.              *)
(*                                                                         *)
(* Postgres is modelled from how the code uses it: writes of an open       *)
(* transaction are private to it, SELECT .. FOR UPDATE waits for the row   *)
(* lock and then reads the latest committed row (READ COMMITTED), a        *)
(* statement that fails aborts the transaction and frees its locks, and a  *)
(* connection can break at any moment, before or after a COMMIT took       *)
(* effect.                                                                 *)
(*                                                                         *)
(* An operator commented as a mistake is not part of the specification: it *)
(* is what the operator after it would be if the code had that mistake, to *)
(* show that a property would notice.                                      *)
(***************************************************************************)
EXTENDS ChainHash, FiniteSets

CONSTANTS
    Ledgers,        \* ledger names
    Clients,        \* processes that append
    EventTypes,     \* event_type values
    Values,         \* logical JSON values, after canonicalisation
    NoClient,       \* "the row lock is free"
    NoRequest,      \* "no AppendTx call in progress"
    MaxCalls        \* bound: AppendTx calls in one behaviour

ASSUME ClientAssumption == NoClient \notin Clients
ASSUME BoundAssumption == MaxCalls \in Nat

VARIABLES
    audit_log,      \* committed rows of audit_log
    provisioned,    \* ledgers with a committed audit_ledgers row
    cursor,         \* ... and that row's last_sequence and last_entry_hash
    lock,           \* holder of the row lock of each audit_ledgers row
    pc,             \* where each client's transaction stands
    mode,           \* who opened it: "own" (Append) or "caller"
    req,            \* arguments of the AppendTx call in progress
    seen,           \* cursor read under the lock: lastSeq and lastHash
    rows,           \* audit_log rows inserted and not yet committed
    wrote,          \* ledgers whose cursor the transaction updated
    pend,           \* ... and the uncommitted cursor
    outcome,        \* result of the last AppendTx call: "none", "ok", "error"
    told,           \* rows reported to a caller as appended (history)
    calls           \* AppendTx calls so far, bounded by MaxCalls

db   == <<audit_log, provisioned, cursor, lock>>
txn  == <<pc, mode, req, seen, rows, wrote, pend, outcome>>
vars == <<db, txn, told, calls>>

-----------------------------------------------------------------------------
(* Data.                                                                   *)

Payloads  == [value : Values, spelling : Spellings]
Requests  == [ledger : Ledgers, event_type : EventTypes, payload : Payloads]

Hashes   == Seq(Nat \X Ledgers \X EventTypes \X Values)
Cursors  == [last_sequence : Nat, last_entry_hash : Hashes]
Rows     == [sequence : Nat, ledger : Ledgers, event_type : EventTypes,
             payload_hash : Values, prev_entry_hash : Hashes,
             entry_hash : Hashes]

\* Mistake: numbering meant to start at 0.
GenesisMinusOne == [last_sequence |-> -1, last_entry_hash |-> NoHash]

\* The columns a provisioned audit_ledgers row starts with.
GenesisCursor == [last_sequence |-> 0, last_entry_hash |-> NoHash]

\* The row AppendTx inserts after reading cursor cur for request r.
EntryFor(r, cur) ==
    LET seq == cur.last_sequence + 1
        ph  == PayloadHash(r.payload)
    IN  [sequence        |-> seq,
         ledger          |-> r.ledger,
         event_type      |-> r.event_type,
         payload_hash    |-> ph,
         prev_entry_hash |-> cur.last_entry_hash,
         entry_hash      |-> EntryHash(seq, r.ledger, r.event_type, ph,
                                       cur.last_entry_hash)]

\* The cursor after entry e.
CursorAt(e) == [last_sequence |-> e.sequence, last_entry_hash |-> e.entry_hash]

\* The unique index on audit_log (ledger, sequence).
SameKey(e, f) == e.ledger = f.ledger /\ e.sequence = f.sequence

-----------------------------------------------------------------------------
Init ==
    /\ audit_log = {}
    /\ provisioned = {}
    /\ cursor = [l \in Ledgers |-> GenesisCursor]
    /\ lock = [l \in Ledgers |-> NoClient]
    /\ pc = [c \in Clients |-> "idle"]
    /\ mode = [c \in Clients |-> "own"]
    /\ req = [c \in Clients |-> NoRequest]
    /\ seen = [c \in Clients |-> GenesisCursor]
    /\ rows = [c \in Clients |-> {}]
    /\ wrote = [c \in Clients |-> {}]
    /\ pend = [c \in Clients |-> [l \in Ledgers |-> GenesisCursor]]
    /\ outcome = [c \in Clients |-> "none"]
    /\ told = {}
    /\ calls = 0

-----------------------------------------------------------------------------
(* What the transaction of c reads, and the three ways it ends.            *)

\* The audit_ledgers row as seen by c: its own update, else the committed one.
View(c, l) == IF l \in wrote[c] THEN pend[c][l] ELSE cursor[l]

Unlock(c) == lock' = [l \in Ledgers |-> IF lock[l] = c THEN NoClient ELSE lock[l]]

\* The server forgets everything the transaction of c did and frees its locks.
Discard(c) ==
    /\ rows' = [rows EXCEPT ![c] = {}]
    /\ wrote' = [wrote EXCEPT ![c] = {}]
    /\ pend' = [pend EXCEPT ![c] = [l \in Ledgers |-> GenesisCursor]]
    /\ seen' = [seen EXCEPT ![c] = GenesisCursor]
    /\ req' = [req EXCEPT ![c] = NoRequest]
    /\ Unlock(c)

\* A statement of c failed: Postgres aborts the transaction, AppendTx returns
\* the error, and all that is left to do is to roll back.
Abort(c) ==
    /\ Discard(c)
    /\ pc' = [pc EXCEPT ![c] = "aborted"]
    /\ outcome' = [outcome EXCEPT ![c] = "error"]
    /\ UNCHANGED <<audit_log, provisioned, cursor, mode, told, calls>>

\* AppendTx returns result res with the transaction still usable.
Return(c, res) ==
    /\ pc' = [pc EXCEPT ![c] = "open"]
    /\ outcome' = [outcome EXCEPT ![c] = res]
    /\ req' = [req EXCEPT ![c] = NoRequest]
    /\ seen' = [seen EXCEPT ![c] = GenesisCursor]

-----------------------------------------------------------------------------
(* Opening a transaction and calling AppendTx.                             *)

\* The deployment inserts the ledger's audit_ledgers row; no code in the
\* repository does (ON CONFLICT DO NOTHING in the documented statement).
Provision(l) ==
    /\ l \notin provisioned
    /\ provisioned' = provisioned \cup {l}
    /\ UNCHANGED <<audit_log, cursor, lock, txn, told, calls>>

\* Append: BeginTx, then AppendTx with the same arguments.
AppendOwn(c, r) ==
    /\ pc[c] = "idle"
    /\ calls < MaxCalls
    /\ calls' = calls + 1
    /\ pc' = [pc EXCEPT ![c] = "begun"]
    /\ mode' = [mode EXCEPT ![c] = "own"]
    /\ req' = [req EXCEPT ![c] = r]
    /\ outcome' = [outcome EXCEPT ![c] = "none"]
    /\ UNCHANGED <<db, seen, rows, wrote, pend, told>>

\* A caller opens a transaction of its own ...
BeginCaller(c) ==
    /\ pc[c] = "idle"
    /\ pc' = [pc EXCEPT ![c] = "open"]
    /\ mode' = [mode EXCEPT ![c] = "caller"]
    /\ outcome' = [outcome EXCEPT ![c] = "none"]
    /\ UNCHANGED <<db, req, seen, rows, wrote, pend, told, calls>>

\* ... and calls AppendTx in it, as often as it likes, also after an error
\* that left the transaction usable.
AppendTx(c, r) ==
    /\ pc[c] = "open"
    /\ mode[c] = "caller"
    /\ calls < MaxCalls
    /\ calls' = calls + 1
    /\ pc' = [pc EXCEPT ![c] = "begun"]
    /\ req' = [req EXCEPT ![c] = r]
    /\ outcome' = [outcome EXCEPT ![c] = "none"]
    /\ UNCHANGED <<db, mode, seen, rows, wrote, pend, told>>

-----------------------------------------------------------------------------
(* The statements of AppendTx, in order.                                   *)

\* 0. SET LOCAL lock_timeout: from here on a wait for the row lock is bounded.
SetLockTimeout(c) ==
    /\ pc[c] = "begun"
    /\ pc' = [pc EXCEPT ![c] = "locking"]
    /\ UNCHANGED <<db, mode, req, seen, rows, wrote, pend, outcome, told, calls>>

\* Mistake: SELECT without FOR UPDATE.
LockLedgerUnlocked(c) ==
    /\ pc[c] = "locking"
    /\ req[c].ledger \in provisioned
    /\ seen' = [seen EXCEPT ![c] = View(c, req[c].ledger)]
    /\ pc' = [pc EXCEPT ![c] = "locked"]
    /\ UNCHANGED <<db, mode, req, rows, wrote, pend, outcome, told, calls>>

\* Mistake: the cursor is read through a.db and not through tx.
LockLedgerOutsideTx(c) ==
    /\ pc[c] = "locking"
    /\ LET l == req[c].ledger IN
         /\ l \in provisioned
         /\ lock[l] \in {NoClient, c}
         /\ lock' = [lock EXCEPT ![l] = c]
         /\ seen' = [seen EXCEPT ![c] = cursor[l]]
    /\ pc' = [pc EXCEPT ![c] = "locked"]
    /\ UNCHANGED <<audit_log, provisioned, cursor, mode, req, rows, wrote, pend,
                   outcome, told, calls>>

\* 1. SELECT .. FOR UPDATE gets the lock and reads the cursor.
LockLedger(c) ==
    /\ pc[c] = "locking"
    /\ LET l == req[c].ledger IN
         /\ l \in provisioned
         /\ lock[l] \in {NoClient, c}
         /\ lock' = [lock EXCEPT ![l] = c]
         /\ seen' = [seen EXCEPT ![c] = View(c, l)]
    /\ pc' = [pc EXCEPT ![c] = "locked"]
    /\ UNCHANGED <<audit_log, provisioned, cursor, mode, req, rows, wrote, pend,
                   outcome, told, calls>>

\* ... or finds no row: sql.ErrNoRows, an error of the program only.
UnknownLedger(c) ==
    /\ pc[c] = "locking"
    /\ req[c].ledger \notin provisioned
    /\ Return(c, "error")
    /\ UNCHANGED <<db, mode, rows, wrote, pend, told, calls>>

\* Mistake: no lock_timeout.
LockTimeoutNever(c) == FALSE /\ UNCHANGED vars

\* ... or gives up waiting for another transaction: lock_timeout, or the
\* server's deadlock detector.
LockTimeout(c) ==
    /\ pc[c] = "locking"
    /\ req[c].ledger \in provisioned
    /\ lock[req[c].ledger] \notin {NoClient, c}
    /\ Abort(c)

\* 2. PayloadHash fails: an error of the program only, the lock stays held.
HashFails(c) ==
    /\ pc[c] = "locked"
    /\ ~Decodes(req[c].payload)
    /\ Return(c, "error")
    /\ UNCHANGED <<db, mode, rows, wrote, pend, told, calls>>

\* 3. INSERT INTO audit_log.  The unique index makes it wait for another
\* transaction's uncommitted row with the same key.
InsertRow(c) ==
    /\ pc[c] = "locked"
    /\ req[c].payload.spelling = "valid"
    /\ LET e == EntryFor(req[c], seen[c]) IN
         /\ \A f \in audit_log \cup UNION {rows[d] : d \in Clients} : ~SameKey(e, f)
         /\ rows' = [rows EXCEPT ![c] = @ \cup {e}]
    /\ pc' = [pc EXCEPT ![c] = "inserted"]
    /\ UNCHANGED <<db, mode, req, seen, wrote, pend, outcome, told, calls>>

\* ... which Postgres refuses for text it cannot store as JSONB, or for a key
\* that is already there.
InsertRejected(c) ==
    /\ pc[c] = "locked"
    /\ Decodes(req[c].payload)
    /\ \/ req[c].payload.spelling = "unstorable"
       \/ \E f \in audit_log \cup rows[c] : SameKey(EntryFor(req[c], seen[c]), f)
    /\ Abort(c)

\* Mistake: the UPDATE forgets last_entry_hash.
UpdateCursorKeepsHash(c) ==
    /\ pc[c] = "inserted"
    /\ LET l == req[c].ledger IN
         /\ pend' = [pend EXCEPT ![c][l] =
                        [seen[c] EXCEPT !.last_sequence = @ + 1]]
         /\ wrote' = [wrote EXCEPT ![c] = @ \cup {l}]
    /\ Return(c, "ok")
    /\ UNCHANGED <<db, mode, rows, told, calls>>

\* Mistake: the UPDATE goes through a.db and not through tx.
UpdateCursorOutsideTx(c) ==
    /\ pc[c] = "inserted"
    /\ cursor' = [cursor EXCEPT ![req[c].ledger] = CursorAt(EntryFor(req[c], seen[c]))]
    /\ Return(c, "ok")
    /\ UNCHANGED <<audit_log, provisioned, lock, mode, rows, wrote, pend, told, calls>>

\* 4. UPDATE audit_ledgers, and AppendTx returns the sequence and the hash.
UpdateCursor(c) ==
    /\ pc[c] = "inserted"
    /\ LET l == req[c].ledger IN
         /\ pend' = [pend EXCEPT ![c][l] = CursorAt(EntryFor(req[c], seen[c]))]
         /\ wrote' = [wrote EXCEPT ![c] = @ \cup {l}]
    /\ Return(c, "ok")
    /\ UNCHANGED <<db, mode, rows, told, calls>>

-----------------------------------------------------------------------------
(* Ending the transaction.                                                 *)

\* Append commits only after AppendTx succeeded; a caller decides for itself.
MayCommit(c) == mode[c] = "own" => outcome[c] = "ok"

\* COMMIT takes effect: the transaction's writes become the committed state.
CommitEffect(c) ==
    /\ pc[c] = "open"
    /\ MayCommit(c)
    /\ audit_log' = audit_log \cup rows[c]
    /\ cursor' = [l \in Ledgers |-> View(c, l)]
    /\ Discard(c)
    /\ pc' = [pc EXCEPT ![c] = "idle"]
    /\ UNCHANGED <<provisioned, mode, outcome, calls>>

\* Mistake: the error of Commit is ignored.
CommitErrorIgnored(c) ==
    /\ pc[c] = "open"
    /\ MayCommit(c)
    /\ Discard(c)
    /\ pc' = [pc EXCEPT ![c] = "idle"]
    /\ told' = told \cup rows[c]
    /\ UNCHANGED <<audit_log, provisioned, cursor, mode, outcome, calls>>

\* ... and the client learns of it,
Commit(c) == CommitEffect(c) /\ told' = told \cup rows[c]

\* ... or the connection breaks before the answer: Commit returns an error
\* although the rows are in.
CommitUnanswered(c) == CommitEffect(c) /\ UNCHANGED told

\* Append rolls back after an error of AppendTx; a caller at any time.  COMMIT
\* of an aborted transaction is a ROLLBACK with an error.
Rollback(c) ==
    /\ \/ pc[c] = "aborted"
       \/ pc[c] = "open" /\ (mode[c] = "own" => outcome[c] = "error")
    /\ Discard(c)
    /\ pc' = [pc EXCEPT ![c] = "idle"]
    /\ UNCHANGED <<audit_log, provisioned, cursor, mode, outcome, told, calls>>

\* The connection breaks with the transaction open (a cancelled context closes
\* it too).  The call returns an error, and the server goes on holding the
\* locks ...
ConnectionLost(c) ==
    /\ pc[c] \in {"begun", "locking", "locked", "inserted", "open"}
    /\ pc' = [pc EXCEPT ![c] = "lost"]
    /\ outcome' = [outcome EXCEPT ![c] = "error"]
    /\ UNCHANGED <<db, mode, req, seen, rows, wrote, pend, told, calls>>

\* ... until its backend notices.
BackendExits(c) ==
    /\ pc[c] = "lost"
    /\ Discard(c)
    /\ pc' = [pc EXCEPT ![c] = "idle"]
    /\ UNCHANGED <<audit_log, provisioned, cursor, mode, outcome, told, calls>>

-----------------------------------------------------------------------------
AppendStep(c) ==
    \/ SetLockTimeout(c)
    \/ LockLedger(c) \/ UnknownLedger(c) \/ LockTimeout(c)
    \/ HashFails(c)
    \/ InsertRow(c) \/ InsertRejected(c)
    \/ UpdateCursor(c)

EndStep(c) == Commit(c) \/ CommitUnanswered(c) \/ Rollback(c)

Next ==
    \/ \E l \in Ledgers : Provision(l)
    \/ \E c \in Clients :
         \/ BeginCaller(c)
         \/ \E r \in Requests : AppendOwn(c, r) \/ AppendTx(c, r)
         \/ AppendStep(c)
         \/ EndStep(c)
         \/ ConnectionLost(c) \/ BackendExits(c)

Spec == Init /\ [][Next]_vars

\* Append and AppendTx run to their end once called, and the server executes
\* the statements it is sent.  Nothing is assumed of a caller between its
\* calls, of a connection, or of a backend whose client is gone.
Fairness ==
    \A c \in Clients : WF_vars(AppendStep(c) \/ (mode[c] = "own" /\ EndStep(c)))

FairSpec == Spec /\ Fairness

-----------------------------------------------------------------------------
(* Properties.                                                             *)

\* Types of the tables and of every transaction; a client inside AppendTx has
\* arguments.
TypeOK ==
    /\ audit_log \subseteq Rows
    /\ provisioned \subseteq Ledgers
    /\ cursor \in [Ledgers -> Cursors]
    /\ lock \in [Ledgers -> Clients \cup {NoClient}]
    /\ pc \in [Clients -> {"idle", "begun", "locking", "locked", "inserted",
                           "open", "aborted", "lost"}]
    /\ mode \in [Clients -> {"own", "caller"}]
    /\ req \in [Clients -> Requests \cup {NoRequest}]
    /\ \A c \in Clients :
         pc[c] \in {"begun", "locking", "locked", "inserted"} => req[c] \in Requests
    /\ seen \in [Clients -> Cursors]
    /\ rows \in [Clients -> SUBSET Rows]
    /\ wrote \in [Clients -> SUBSET Ledgers]
    /\ pend \in [Clients -> [Ledgers -> Cursors]]
    /\ outcome \in [Clients -> {"none", "ok", "error"}]
    /\ told \subseteq Rows
    /\ calls \in 0..MaxCalls

\* The rows of ledger l in S, with cursor cur, form an unbroken chain: exactly
\* one row for each sequence number 1..last_sequence, every entry hash derived
\* from its row, every row linked to its predecessor (the first to the empty
\* hash), and the cursor at the last row.
IsChain(S, l, cur) ==
    /\ \A e \in S : e.ledger = l => e.sequence \in 1..cur.last_sequence
    /\ \A n \in 1..cur.last_sequence : \E e \in S : e.ledger = l /\ e.sequence = n
    /\ \A e, f \in S : e.ledger = l /\ SameKey(e, f) => e = f
    /\ \A e \in S : e.ledger = l =>
         e.entry_hash = EntryHash(e.sequence, l, e.event_type, e.payload_hash,
                                  e.prev_entry_hash)
    /\ \A e \in S : e.ledger = l /\ e.sequence = 1 => e.prev_entry_hash = NoHash
    /\ \A e, f \in S : e.ledger = l /\ f.ledger = l /\ f.sequence = e.sequence + 1
         => f.prev_entry_hash = e.entry_hash
    /\ cur.last_sequence = 0 => cur.last_entry_hash = NoHash
    /\ \A e \in S : e.ledger = l /\ e.sequence = cur.last_sequence
         => e.entry_hash = cur.last_entry_hash

\* The committed tables always hold one gap-free, correctly linked chain per
\* ledger with the cursor at its end, whatever transactions overlap, fail or
\* lose their connection ("gap-free monotonic sequences", append.go).
ChainIntact == \A l \in Ledgers : IsChain(audit_log, l, cursor[l])

\* The row lock alone serialises appends: a transaction that is about to insert
\* never collides with a committed row or with a row another open transaction
\* has inserted, so the unique index is never what saves the chain.
NoCollision ==
    \A c \in Clients : pc[c] = "locked" =>
        \A f \in audit_log \cup UNION {rows[d] : d \in Clients} :
            ~SameKey(EntryFor(req[c], seen[c]), f)

\* Every sequence number and entry hash reported to a caller as appended is in
\* the committed log, and never two different entries under one number.
ToldIsCommitted ==
    /\ told \subseteq audit_log
    /\ \A e, f \in told : SameKey(e, f) => e = f

\* A committed row is never changed or removed, and a cursor moves only forward
\* and only together with the rows it covers.
AppendOnly ==
    [][ /\ audit_log \subseteq audit_log'
        /\ \A l \in Ledgers :
             /\ cursor'[l].last_sequence >= cursor[l].last_sequence
             /\ \A n \in cursor[l].last_sequence + 1 .. cursor'[l].last_sequence :
                  \E e \in audit_log' \ audit_log : e.ledger = l /\ e.sequence = n ]_vars

(* The strengthening that makes ChainIntact inductive.                     *)

\* A transaction writes only to ledgers whose row it has locked.
LockDiscipline ==
    \A c \in Clients, l \in Ledgers : lock[l] # c =>
        /\ l \notin wrote[c]
        /\ \A e \in rows[c] : e.ledger # l

\* Between the SELECT and the UPDATE the lock is held and the cursor that was
\* read is still the current one.
ReadUnderLock ==
    \A c \in Clients : pc[c] \in {"locked", "inserted"} =>
        /\ lock[req[c].ledger] = c
        /\ seen[c] = View(c, req[c].ledger)

\* The cursor c will leave behind on l: after the INSERT, the one that the
\* UPDATE still has to write.
NextCursor(c, l) ==
    IF pc[c] = "inserted" /\ l = req[c].ledger
    THEN CursorAt(EntryFor(req[c], seen[c]))
    ELSE View(c, l)

\* On a ledger it has locked, the committed rows together with the
\* transaction's own form an unbroken chain.
PrivateChain ==
    \A c \in Clients, l \in Ledgers : lock[l] = c /\ pc[c] # "lost" =>
        IsChain(audit_log \cup rows[c], l, NextCursor(c, l))

\* Every open transaction sees, on each ledger it has locked, a chain that only
\* it extends, and works from a cursor nobody else can have moved since it was
\* read (the guarantee append.go takes from SELECT .. FOR UPDATE).
TransactionsIsolated == LockDiscipline /\ ReadUnderLock /\ PrivateChain

\* A call in progress: AppendTx running, or Append with its transaction open.
Busy(c) ==
    \/ pc[c] \in {"begun", "locking", "locked", "inserted"}
    \/ mode[c] = "own" /\ pc[c] \in {"open", "aborted"}

\* Every call returns, even while another transaction that holds the ledger's
\* row lock is stalled for ever ("a stalled holder surfaces as an error rather
\* than blocking indefinitely", append.go).
CallsReturn == \A c \in Clients : Busy(c) ~> ~Busy(c)
-----------------------------------------------------------------------------
(* Refinement of AuditLedger.                                              *)

Entries == EventTypes \X Values

RowsOf(l) == {e \in audit_log : e.ledger = l}

\* The chain of ledger l, read off the committed rows in sequence order.
ChainOf(l) ==
    [n \in 1..Cardinality(RowsOf(l)) |->
        LET e == CHOOSE e \in RowsOf(l) : e.sequence = n
        IN  <<e.event_type, e.payload_hash>>]

\* The chain an entry hash stands for.
Preimage(h) == [n \in 1..Len(h) |-> <<h[n][3], h[n][4]>>]

Abstract == INSTANCE AuditLedger WITH
    chain <- [l \in Ledgers |-> ChainOf(l)],
    told  <- {<<e.ledger, Preimage(e.entry_hash)>> : e \in told}

\* Whatever interleaving, failure or lost answer, what readers of audit_log see
\* and what callers are told is a behaviour of AuditLedger: ledgers grow only
\* at the end, transactions are atomic, and the returned entry hash commits to
\* the whole chain up to its entry.
ImplementsLedger == Abstract!Spec
=============================================================================
