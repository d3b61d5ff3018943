------------------------------ MODULE Receipt ------------------------------
(***************************************************************************)
(* step.audit.public_receipt (src/steps/public_receipt.go): the request is *)
(* merged from the step's config and its input, the entry is read, and     *)
(* ApplyRedactions replaces the listed top-level fields of its payload,    *)
(* one iteration of the loop after the other, by pseudonyms numbered by    *)
(* original value.                                                         *)
(*                                                                         *)
(* The raw JSON of a value is a model value, or the string "contributor_N" *)
(* itself, Pseudonym(N), which a payload may also hold to begin with.      *)
(***************************************************************************)
EXTENDS Integers, Sequences, FiniteSets, SequencesExt

CONSTANTS
    Fields,         \* top-level keys
    Originals,      \* raw JSON values
    NotAnObject,    \* a payload that is JSON but neither an object nor null
    NotANumber,     \* a config sequence that strconv.ParseInt refuses
    MaxListed       \* bound: length of redact_fields

ASSUME ReceiptBounds == MaxListed \in Nat /\ NotANumber \notin Int

VARIABLES
    payload,        \* the payloads of the ledger's entries, by sequence
    asked,          \* what the caller asked for
    request,        \* the merged request
    next,           \* position of the loop in its redact_fields
    obj,            \* the decoded payload, redacted so far
    pseudonymMap,   \* field -> pseudonym
    valueToCounter, \* raw value -> pseudonym
    counter,        \* number of the next pseudonym
    result          \* where the handler is

input == <<payload, asked, request>>
vars  == <<input, next, obj, pseudonymMap, valueToCounter, counter, result>>

Pseudonym(n) == <<"contributor", n>>

\* Payloads: objects over some of the fields, one value of which may already
\* read like a pseudonym, or no object at all.
Objects == UNION {[F -> Originals \cup {Pseudonym(1)}] : F \in SUBSET Fields}

\* Any list, also one that names a field twice.
Lists == UNION {[1..n -> Fields] : n \in 0..MaxListed}

Empty == [f \in {} |-> f]

\* f with k bound to v, as an assignment to a Go map.
Put(f, k, v) == [x \in DOMAIN f \cup {k} |-> IF x = k THEN v ELSE f[x]]

\* A request without any field, and one about the last entry that an earlier step
\* left in the input.
Unset    == [ledger |-> "", sequence |-> 0, redact_fields |-> <<>>]
Leftover == [ledger |-> "ledger", sequence |-> 2,
             redact_fields |-> <<CHOOSE f \in Fields : TRUE>>]

Init ==
    /\ \E p \in Objects \cup {NotAnObject}, o \in Originals :
         payload = <<p, [f \in Fields |-> o]>>
    /\ asked = Unset
    /\ request = Unset
    /\ next = 1
    /\ obj = Empty
    /\ pseudonymMap = Empty
    /\ valueToCounter = Empty
    /\ counter = 1
    /\ result = "idle"

-----------------------------------------------------------------------------
(* The request.  A config field counts if it is not its zero value.        *)

\* Mistake: what the input has goes first.
MergeInputFirst(cfg, in) ==
    [f \in DOMAIN Unset |-> IF in[f] # Unset[f] THEN in[f] ELSE cfg[f]]

\* mergePublicReceipt, for a config whose sequence parses: config goes first, a
\* list as a whole.
MergePublicReceipt(cfg, in) ==
    [f \in DOMAIN Unset |-> IF cfg[f] # Unset[f] THEN cfg[f] ELSE in[f]]

\* The part of a request in the fields F.
Only(F, q) == [f \in DOMAIN Unset |-> IF f \in F THEN q[f] ELSE Unset[f]]

\* The step is called for q, the fields F of it in config and the others in the
\* input; a config that sets everything may meet an input left over.  Only the
\* config's sequence is text.
CallReceipt(q, F, in) ==
    /\ result = "idle"
    /\ q.sequence = NotANumber => "sequence" \in F
    /\ \/ in = Only(DOMAIN Unset \ F, q)
       \/ in = Leftover /\ \A f \in DOMAIN Unset : f \in F /\ q[f] # Unset[f]
    /\ asked' = q
    /\ IF "sequence" \in F /\ q.sequence = NotANumber
       THEN result' = "error" /\ UNCHANGED request
       ELSE /\ request' = MergePublicReceipt(Only(F, q), in)
            /\ result' = "merged"
    /\ UNCHANGED <<payload, next, obj, pseudonymMap, valueToCounter, counter>>

\* The ledger is named and registered, and fetchEntry finds the entry.
FetchEntry ==
    /\ result = "merged"
    /\ result' = IF request.ledger # "" /\ request.sequence \in DOMAIN payload
                 THEN "fetched" ELSE "error"
    /\ UNCHANGED <<input, next, obj, pseudonymMap, valueToCounter, counter>>

\* The anchors that cover the entry and its inclusion proof, which Anchoring
\* models; any of the queries may fail.
FetchProof ==
    /\ result = "fetched"
    /\ result' \in {"start", "error"}
    /\ UNCHANGED <<input, next, obj, pseudonymMap, valueToCounter, counter>>

-----------------------------------------------------------------------------
(* ApplyRedactions.                                                        *)

Payload      == payload[request.sequence]
redactFields == request.redact_fields

\* An empty list: the payload is returned as it is, without a map.
NothingToRedact ==
    /\ result = "start"
    /\ redactFields = <<>>
    /\ obj' = IF Payload = NotAnObject THEN Empty ELSE Payload
    /\ result' = "returned"
    /\ UNCHANGED <<input, next, pseudonymMap, valueToCounter, counter>>

\* json.Unmarshal into a map.
Unmarshal ==
    /\ result = "start"
    /\ redactFields # <<>>
    /\ Payload # NotAnObject
    /\ obj' = Payload
    /\ result' = "running"
    /\ UNCHANGED <<input, next, pseudonymMap, valueToCounter, counter>>

UnmarshalFails ==
    /\ result = "start"
    /\ redactFields # <<>>
    /\ Payload = NotAnObject
    /\ result' = "error"
    /\ UNCHANGED <<input, next, obj, pseudonymMap, valueToCounter, counter>>

\* A field the payload does not have.
SkipField ==
    /\ result = "running"
    /\ next <= Len(redactFields)
    /\ redactFields[next] \notin DOMAIN obj
    /\ next' = next + 1
    /\ UNCHANGED <<input, obj, pseudonymMap, valueToCounter, counter, result>>

\* Mistake: a new pseudonym for every field.
RedactFieldAfresh ==
    /\ result = "running"
    /\ next <= Len(redactFields)
    /\ LET field == redactFields[next]
           pseudonym == Pseudonym(counter)
       IN  /\ field \in DOMAIN obj
           /\ valueToCounter' = Put(valueToCounter, obj[field], pseudonym)
           /\ counter' = counter + 1
           /\ pseudonymMap' = Put(pseudonymMap, field, pseudonym)
           /\ obj' = [obj EXCEPT ![field] = pseudonym]
    /\ next' = next + 1
    /\ UNCHANGED <<input, result>>

\* The pseudonym of the field's value, a new one if the value is new.
RedactField ==
    /\ result = "running"
    /\ next <= Len(redactFields)
    /\ LET field == redactFields[next]
           raw   == obj[field]
           seen  == raw \in DOMAIN valueToCounter
           pseudonym == IF seen THEN valueToCounter[raw] ELSE Pseudonym(counter)
       IN  /\ field \in DOMAIN obj
           /\ valueToCounter' = Put(valueToCounter, raw, pseudonym)
           /\ counter' = IF seen THEN counter ELSE counter + 1
           /\ pseudonymMap' = Put(pseudonymMap, field, pseudonym)
           /\ obj' = [obj EXCEPT ![field] = pseudonym]
    /\ next' = next + 1
    /\ UNCHANGED <<input, result>>

\* json.Marshal, and the receipt with the entry, its redacted payload, the map,
\* the anchors and the proof is returned.
ReturnRedacted ==
    /\ result = "running"
    /\ next > Len(redactFields)
    /\ result' = "returned"
    /\ UNCHANGED <<input, next, obj, pseudonymMap, valueToCounter, counter>>

Next ==
    \/ \E s \in {0, 1, 2, 3, NotANumber}, l \in Lists, F \in SUBSET DOMAIN Unset :
         LET q == [ledger |-> "ledger", sequence |-> s, redact_fields |-> l]
         IN  \E in \in {Only(DOMAIN Unset \ F, q), Leftover} : CallReceipt(q, F, in)
    \/ FetchEntry \/ FetchProof
    \/ NothingToRedact \/ Unmarshal \/ UnmarshalFails
    \/ SkipField \/ RedactField
    \/ ReturnRedacted

Spec == Init /\ [][Next]_vars

-----------------------------------------------------------------------------
(* Properties.                                                             *)

Redacted == result = "returned" /\ Payload # NotAnObject

\* The entry asked for, and those of its fields that are listed.
Original == payload[asked.sequence]
Hidden   == ToSet(asked.redact_fields) \cap DOMAIN Original

\* The receipt shows the payload of the entry that was asked for, wherever the
\* request was given; no listed field keeps its value, no other field changes,
\* and no field appears or disappears ("REPLACED (not deleted) so the payload
\* structure is preserved", public_receipt.go), also when a field is listed twice
\* or a value reads like a pseudonym already.
FieldsHidden ==
    Redacted => /\ request.sequence = asked.sequence
                /\ DOMAIN obj = DOMAIN Original
                /\ DOMAIN pseudonymMap = Hidden
                /\ \A f \in DOMAIN Original :
                     obj[f] = IF f \in Hidden THEN pseudonymMap[f] ELSE Original[f]
                /\ \A f \in Hidden : \E n \in 1..(counter - 1) : obj[f] = Pseudonym(n)

\* Two listed fields have the same pseudonym exactly if they had the same value.
SharePseudonyms ==
    \A f, g \in Hidden : Original[f] = Original[g] <=> pseudonymMap[f] = pseudonymMap[g]

\* When no field is listed twice, pseudonyms are shared by exactly the fields that
\* shared a value, and numbered 1, 2, .. without gaps, one per distinct value
\* ("N increments once per unique original value", public_receipt.go).
NumberedByOriginal ==
    Redacted /\ IsInjective(asked.redact_fields) =>
        /\ SharePseudonyms
        /\ {pseudonymMap[f] : f \in Hidden}
             = {Pseudonym(n) : n \in 1..Cardinality({Original[f] : f \in Hidden})}

\* Whatever the list, "duplicate original values receive the same pseudonym"
\* (public_receipt.go).
DuplicatesSharePseudonym == Redacted => SharePseudonyms
=============================================================================
