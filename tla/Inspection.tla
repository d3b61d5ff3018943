----------------------------- MODULE Inspection -----------------------------
(***************************************************************************)
(* step.audit.verify and step.audit.merkle_root (src/steps/verify.go,      *)
(* merkle_root.go) on one ledger whose rows do not stay as AppendTx wrote  *)
(* them: a bad restore or a manual change alters single columns or loses   *)
(* rows, while entries go on being appended.                               *)
(*                                                                         *)
(* Each step is one SELECT followed by a computation, so its answer is a   *)
(* function of the committed rows and of its inputs, here an operator.     *)
(***************************************************************************)
EXTENDS ChainHash, Merkle, FiniteSets, FiniteSetsExt

CONSTANTS
    Ledger,         \* the ledger's name
    EventTypes,     \* event_type values
    Values,         \* logical JSON values
    NoRoot,         \* "no root taken yet"
    MaxEntries,     \* bound: entries appended
    MaxFaults       \* bound: rows lost and columns changed

ASSUME InspectionBounds == MaxEntries \in Nat /\ MaxFaults \in Nat

VARIABLES
    audit_log,      \* committed rows of the ledger
    cursor,         \* its audit_ledgers row
    appended,       \* the rows as AppendTx inserted them (history)
    faults,         \* rows lost and columns changed, bounded by MaxFaults
    anchored        \* a Merkle root taken while nothing was damaged

vars == <<audit_log, cursor, appended, faults, anchored>>

Init ==
    /\ audit_log = {}
    /\ cursor = [last_sequence |-> 0, last_entry_hash |-> NoHash]
    /\ appended = {}
    /\ faults = 0
    /\ anchored = NoRoot

-----------------------------------------------------------------------------
(* The two steps.                                                          *)

\* The WHERE and ORDER BY of both queries; end 0 is "latest".
InRange(S, start, end) ==
    LET rows == {e \in S : e.sequence >= start /\ (end = 0 \/ e.sequence <= end)}
        n    == Cardinality(rows)
    IN  CHOOSE q \in [1..n -> rows] :
            \A i, j \in 1..n : i < j => q[i].sequence < q[j].sequence

\* The entry hash derived from the columns of a row.
Derived(e) == EntryHash(e.sequence, Ledger, e.event_type, e.payload_hash,
                        e.prev_entry_hash)

\* The body of the loop refuses row i: its link to the row before, if the query
\* returned one, or its own hash.  The payload column is not looked at.
Refused(q, i) ==
    \/ i > 1 /\ q[i].prev_entry_hash # q[i - 1].entry_hash
    \/ Derived(q[i]) # q[i].entry_hash

\* The responses.
Valid(n)        == [valid |-> TRUE, first_invalid_sequence |-> 0, entries_verified |-> n]
Invalid(seq, n) == [valid |-> FALSE, first_invalid_sequence |-> seq, entries_verified |-> n]

\* Mistake: the first row of the range, too, is compared with prevHash, "" then.
VerifyFromGenesis(start, end) ==
    LET q   == InRange(audit_log, start, end)
        bad == {i \in 1..Len(q) : \/ Refused(q, i)
                                  \/ i = 1 /\ q[i].prev_entry_hash # NoHash}
    IN  IF bad = {} THEN Valid(Len(q)) ELSE Invalid(q[Min(bad)].sequence, Min(bad) - 1)

\* Mistake: links are not compared.
VerifyUnlinked(start, end) ==
    LET q   == InRange(audit_log, start, end)
        bad == {i \in 1..Len(q) : Derived(q[i]) # q[i].entry_hash}
    IN  IF bad = {} THEN Valid(Len(q)) ELSE Invalid(q[Min(bad)].sequence, Min(bad) - 1)

\* VerifyHandler: the first row refused ends the scan.
Verify(start, end) ==
    LET q   == InRange(audit_log, start, end)
        bad == {i \in 1..Len(q) : Refused(q, i)}
    IN  IF bad = {} THEN Valid(Len(q)) ELSE Invalid(q[Min(bad)].sequence, Min(bad) - 1)

\* MerkleRootHandler, for a range with entries (the code refuses an empty one).
MerkleRootOf(start, end) ==
    LET q == InRange(audit_log, start, end)
    IN  [root             |-> MerkleRoot([i \in 1..Len(q) |-> q[i].entry_hash]),
         entries_included |-> Len(q),
         start_sequence   |-> q[1].sequence,
         end_sequence     |-> q[Len(q)].sequence]

-----------------------------------------------------------------------------
(* What happens to the rows.                                               *)

\* A transaction of AppendChain commits an entry.  payload_hash stands for its
\* preimage, the canonical form of the value.
AppendEntry(type, value) ==
    /\ cursor.last_sequence < MaxEntries
    /\ LET seq  == cursor.last_sequence + 1
           prev == cursor.last_entry_hash
           e    == [sequence        |-> seq,
                    event_type      |-> type,
                    payload         |-> value,
                    payload_hash    |-> value,
                    prev_entry_hash |-> prev,
                    entry_hash      |-> EntryHash(seq, Ledger, type, value, prev)]
       IN  /\ audit_log' = audit_log \cup {e}
           /\ appended' = appended \cup {e}
           /\ cursor' = [last_sequence |-> seq, last_entry_hash |-> e.entry_hash]
    /\ UNCHANGED <<faults, anchored>>

\* The values a column of row e may be changed to: another value of its kind,
\* another hash that occurs in the table, or the hash that fits the row.
Changed(e, column) ==
    LET hashes == {f.entry_hash : f \in audit_log} \cup {NoHash, Derived(e)}
        values == CASE column = "event_type" -> EventTypes
                    [] column \in {"payload", "payload_hash"} -> Values
                    [] OTHER -> hashes
    IN  {[e EXCEPT ![column] = v] : v \in values} \ {e}

Columns == {"event_type", "payload", "payload_hash", "prev_entry_hash", "entry_hash"}

\* One column of one row is no longer what was written.
ChangeColumn(e, f) ==
    /\ faults < MaxFaults
    /\ audit_log' = (audit_log \ {e}) \cup {f}
    /\ faults' = faults + 1
    /\ UNCHANGED <<cursor, appended, anchored>>

\* One row is gone.
LoseRow(e) ==
    /\ faults < MaxFaults
    /\ audit_log' = audit_log \ {e}
    /\ faults' = faults + 1
    /\ UNCHANGED <<cursor, appended, anchored>>

\* step.audit.merkle_root on a range of the undamaged log; its root is anchored.
TakeRoot(start, end) ==
    /\ anchored = NoRoot
    /\ faults = 0
    /\ InRange(audit_log, start, end) # <<>>
    /\ anchored' = MerkleRootOf(start, end)
    /\ UNCHANGED <<audit_log, cursor, appended, faults>>

Next ==
    \/ \E type \in EventTypes, value \in Values : AppendEntry(type, value)
    \/ \E e \in audit_log : \/ LoseRow(e)
                            \/ \E column \in Columns :
                                 \E f \in Changed(e, column) : ChangeColumn(e, f)
    \/ \E start \in 1..MaxEntries, end \in 0..MaxEntries : TakeRoot(start, end)

Spec == Init /\ [][Next]_vars

-----------------------------------------------------------------------------
(* Properties.                                                             *)

\* The ranges that can be asked for.
Ranges == (0..MaxEntries + 1) \X (0..MaxEntries + 1)

\* A row without its payload: the columns the chain is about.
Hashed(e) == [column \in DOMAIN e \ {"payload"} |-> e[column]]

\* The rows as written, and those among them that are damaged or gone.
Written(n)   == CHOOSE e \in appended : e.sequence = n
Sequences    == {e.sequence : e \in audit_log}
Altered      == {e.sequence : e \in {f \in audit_log : Hashed(f) # Hashed(Written(f.sequence))}}
Lost         == 1..cursor.last_sequence \ Sequences

\* Whatever range is asked for, also one that starts inside the chain, ends past
\* it or is empty, an undamaged log verifies, and every row of the range has
\* been looked at.
NoFalseAlarm ==
    faults = 0 => \A r \in Ranges :
        Verify(r[1], r[2]) = Valid(Len(InRange(appended, r[1], r[2])))

\* After a single fault, and any appends before and after it, exactly the ranges
\* that can know of it report it, and at the right row: a changed hashed column
\* at the row itself, a lost row at its successor if the predecessor is in the
\* range too.  A changed payload, and the loss of the first or the last row, are
\* reported by none.
FaultLocated ==
    faults = 1 => \A r \in Ranges :
        LET q     == InRange(audit_log, r[1], r[2])
            seqs  == {q[i].sequence : i \in 1..Len(q)}
            sites == (Altered \cap seqs)
                     \cup {n + 1 : n \in {m \in Lost : {m - 1, m + 1} \subseteq seqs}}
        IN  IF sites = {} THEN Verify(r[1], r[2]).valid
            ELSE /\ Verify(r[1], r[2]).first_invalid_sequence = Min(sites)
                 /\ Verify(r[1], r[2]).entries_verified
                      = Cardinality({n \in seqs : n < Min(sites)})

\* However many columns and rows were changed, rehashed or lost since a root was
\* taken: if the range still verifies and still has that root, its hashed
\* columns are the ones that were appended ("integrity guarantees survive even a
\* compromised database", README.md).
RootPinsEntries ==
    anchored # NoRoot =>
        LET s == anchored.start_sequence
            e == anchored.end_sequence
            q == InRange(audit_log, s, e)
        IN  /\ q # <<>>
            /\ MerkleRootOf(s, e).root = anchored.root
            /\ Verify(s, e).valid
            => /\ MerkleRootOf(s, e) = anchored
               /\ \A i \in 1..Len(q) : Hashed(q[i]) = Hashed(Written(q[i].sequence))
=============================================================================
