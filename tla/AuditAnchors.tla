---------------------------- MODULE AuditAnchors ----------------------------
(***************************************************************************)
(* What anchoring promises an auditor of one ledger, without handlers,     *)
(* queries or failures: the log, the receipts that outside services hold   *)
(* and the recorded anchors only ever grow, one step at a time, and an     *)
(* anchor is recorded once per provider and range, about entries that are  *)
(* there, and never before a service holds its root.                       *)
(***************************************************************************)
EXTENDS Merkle

CONSTANT InsideLog  \* whether callers only name ranges that end inside the log

VARIABLES
    length,     \* entries in the log, numbered 1..length
    held,       \* receipts: provider, external_id and root
    anchors     \* anchors: provider, range, root and external_id

\* The entries of a range, each standing for its hash.
Entries(start, end) ==
    LET first == IF start < 1 THEN 1 ELSE start
    IN  [n \in 1..(IF end < first THEN 0 ELSE end - first + 1) |-> first + n - 1]

Init ==
    /\ length = 0
    /\ held = {}
    /\ anchors = {}

Extend ==
    /\ length' = length + 1
    /\ UNCHANGED <<held, anchors>>

Hold ==
    /\ \E r \in held' : held' = held \cup {r}
    /\ UNCHANGED <<length, anchors>>

Receipt(a) ==
    [provider |-> a.provider, external_id |-> a.external_id, root |-> a.merkle_root]

SameRange(a, b) ==
    /\ a.provider = b.provider
    /\ a.range_start = b.range_start /\ a.range_end = b.range_end

\* An anchor is about all entries of its range, of which there are some.
Covers(a) ==
    /\ a.range_end <= length
    /\ Entries(a.range_start, a.range_end) # <<>>
    /\ a.merkle_root = MerkleRoot(Entries(a.range_start, a.range_end))

Record ==
    /\ \E a \in anchors' :
         /\ anchors' = anchors \cup {a}
         /\ \A b \in anchors : ~SameRange(a, b)
         /\ InsideLog => Covers(a)
         /\ Receipt(a) \in held
    /\ UNCHANGED <<length, held>>

Next == Extend \/ Hold \/ Record

Spec == Init /\ [][Next]_<<length, held, anchors>>
=============================================================================
