---------------------------- MODULE AuditLedger ----------------------------
(***************************************************************************)
(* What the append path promises, without transactions, locks or cursors:  *)
(* each ledger is a sequence of entries that only ever grows at its end,   *)
(* one atomic step may extend several ledgers by several entries, and a    *)
(* caller is told of an entry only in the step that adds it, together with *)
(* a hash that stands for the whole chain up to that entry.                *)
(***************************************************************************)
EXTENDS Integers, Sequences, SequencesExt

CONSTANTS
    Ledgers,    \* ledger names
    Entries     \* what one entry records: its event type and payload hash

VARIABLES
    chain,      \* chain[l]: the entries of ledger l, oldest first
    told        \* <<l, p>>: a caller was told that p is now a prefix of chain[l]

Init ==
    /\ chain = [l \in Ledgers |-> <<>>]
    /\ told = {}

\* The prefixes of chain' that end in a new entry.
NewPrefixes ==
    UNION {{<<l, SubSeq(chain'[l], 1, n)>> : n \in Len(chain[l]) + 1 .. Len(chain'[l])} :
             l \in Ledgers}

\* A transaction becomes visible at once, and its caller is told of all of it
\* or, when the answer is lost, of none of it.
Extend ==
    /\ DOMAIN chain' = Ledgers
    /\ \A l \in Ledgers : IsPrefix(chain[l], chain'[l])
    /\ told' \in {told, told \cup NewPrefixes}

Next == Extend

Spec == Init /\ [][Next]_<<chain, told>>
=============================================================================
