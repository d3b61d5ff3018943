---------------------------- MODULE JSONPayloads ----------------------------
(***************************************************************************)
(* Payloads for Canonicalize (src/chain/canonical.go): a payload is read,  *)
(* and every property compares it with all others that clients write.      *)
(***************************************************************************)
EXTENDS Canonical

CONSTANTS
    Inputs,     \* the documents that clients write
    NoDocument

ASSUME InputsAssumption == Inputs \subseteq Documents[MaxDepth]
ASSUME NoDocumentAssumption == NoDocument \notin Inputs

VARIABLE document

InitPayload == document = NoDocument

ReadPayload ==
    /\ document = NoDocument
    /\ document' \in Inputs

SpecPayload == InitPayload /\ [][ReadPayload]_document

-----------------------------------------------------------------------------
(* Properties.                                                             *)

CanonicalOf == [d \in Inputs |-> Canonicalize[MaxDepth][d]]
ValueOf     == [d \in Inputs |-> Value[MaxDepth][d]]
IsPlain(d)  == Plain[MaxDepth][d]

\* A payload hash stands for one value: documents with the same canonical form
\* have the same value, however large their integers (canonical_test.go,
\* LargeIntegerPreserved), and documents with the same value have the same
\* canonical form, whatever the order of their keys, as far as they spell their
\* numbers alike.
CanonicalIsValue ==
    document # NoDocument =>
        \A d \in Inputs :
            /\ CanonicalOf[d] = CanonicalOf[document] => ValueOf[d] = ValueOf[document]
            /\ ValueOf[d] = ValueOf[document] /\ IsPlain(d) /\ IsPlain(document)
                 => CanonicalOf[d] = CanonicalOf[document]

\* The payload that Postgres gives back still has the payload_hash that was stored
\* with it (what a receipt's reader recomputes), as long as no number was written
\* with an exponent.
StoredKeepsHash ==
    document # NoDocument /\ IsPlain(document) =>
        Canonicalize[MaxDepth][Stored[MaxDepth][document]] = CanonicalOf[document]
=============================================================================
