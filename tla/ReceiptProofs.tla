---------------------------- MODULE ReceiptProofs ----------------------------
(***************************************************************************)
(* Proofs about Receipt for any fields, values and lists of any length.    *)
(***************************************************************************)
EXTENDS Receipt, FiniteSetTheorems, TLAPS

-----------------------------------------------------------------------------
(* The invariant.                                                          *)

List == asked.redact_fields

\* The listed fields that the loop has been through.
Done == {List[k] : k \in 1..(next - 1)} \cap DOMAIN Original

\* The loop has replaced exactly the fields it has been through, each by the
\* pseudonym in the map, and every pseudonym has a number that was given out.
Replaced ==
    /\ DOMAIN obj = DOMAIN Original
    /\ obj = [f \in DOMAIN obj |-> obj[f]]
    /\ DOMAIN pseudonymMap = Done
    /\ \A f \in DOMAIN Original :
         obj[f] = IF f \in Done THEN pseudonymMap[f] ELSE Original[f]
    /\ \A f \in Done : \E n \in 1..(counter - 1) : obj[f] = Pseudonym(n)
    /\ \A v \in DOMAIN valueToCounter :
         \E n \in 1..(counter - 1) : valueToCounter[v] = Pseudonym(n)

\* As long as no field comes twice, the values with a number are the original ones
\* of the fields replaced, and each has one number, without gaps.
Numbered ==
    /\ DOMAIN valueToCounter = {Original[f] : f \in Done}
    /\ \A f \in Done : pseudonymMap[f] = valueToCounter[Original[f]]
    /\ \A v, w \in DOMAIN valueToCounter : valueToCounter[v] = valueToCounter[w] => v = w
    /\ \A n \in 1..(counter - 1) : \E v \in DOMAIN valueToCounter : valueToCounter[v] = Pseudonym(n)
    /\ IsFiniteSet(DOMAIN valueToCounter)
    /\ Cardinality(DOMAIN valueToCounter) = counter - 1

\* Nothing has been redacted yet.
Untouched ==
    next = 1 /\ pseudonymMap = Empty /\ valueToCounter = Empty /\ counter = 1

IndInv ==
    /\ DOMAIN payload = 1..2
    /\ \A k \in 1..2 : payload[k] \in Objects \cup {NotAnObject}
    /\ result \in {"idle", "error", "merged", "fetched", "start", "running", "returned"}
    /\ next \in Nat /\ next >= 1 /\ counter \in Nat /\ counter >= 1
    /\ result \in {"idle", "merged", "fetched", "start"} => Untouched
    /\ result \in {"merged", "fetched", "start", "running", "returned"} =>
         /\ List \in Seq(Fields)
         /\ request.sequence = asked.sequence /\ redactFields = List
    /\ result \in {"fetched", "start", "running", "returned"} => asked.sequence \in DOMAIN payload
    /\ result = "running" => Payload # NotAnObject
    /\ result = "running" \/ Redacted =>
         /\ next <= Len(List) + 1
         /\ Replaced
         /\ IsInjective(List) => Numbered
    /\ Redacted => next > Len(List)

-----------------------------------------------------------------------------
(* Values.                                                                 *)

LEMMA PseudonymsDiffer == \A m, n : Pseudonym(m) = Pseudonym(n) => m = n
  BY DEF Pseudonym

\* A payload that is an object is a function.
LEMMA ObjectShape ==
  ASSUME NEW o \in Objects
  PROVE  o = [f \in DOMAIN o |-> o[f]]
<1>1. PICK F \in SUBSET Fields : o \in [F -> Originals \cup {Pseudonym(1)}]
  BY DEF Objects
<1>2. QED
  BY <1>1

\* A list of the input is a sequence.
LEMMA ListsAreSequences == \A l \in Lists : l \in Seq(Fields)
<1> SUFFICES ASSUME NEW l \in Lists PROVE l \in Seq(Fields)
  OBVIOUS
<1>1. PICK n \in 0..MaxListed : l \in [1..n -> Fields]
  BY DEF Lists
<1>2. n \in Nat
  BY ReceiptBounds
<1>3. QED
  BY <1>1, <1>2

-----------------------------------------------------------------------------
(* The request.                                                            *)

\* However a request is split between config and input, and whatever the input
\* holds when config is complete, the merged request is the one asked for.
LEMMA MergedRequest ==
  ASSUME NEW q, NEW F \in SUBSET DOMAIN Unset, NEW in,
         \/ in = Only(DOMAIN Unset \ F, q)
         \/ \A f \in DOMAIN Unset : f \in F /\ q[f] # Unset[f]
  PROVE  \A f \in DOMAIN Unset : MergePublicReceipt(Only(F, q), in)[f] = q[f]
<1> DEFINE cfg == Only(F, q)
           m   == MergePublicReceipt(cfg, in)
<1> SUFFICES ASSUME NEW f \in DOMAIN Unset PROVE m[f] = q[f]
  OBVIOUS
<1>1. cfg[f] = IF f \in F THEN q[f] ELSE Unset[f]
  BY DEF Only
<1>2. m[f] = IF cfg[f] # Unset[f] THEN cfg[f] ELSE in[f]
  BY DEF MergePublicReceipt
<1>3. CASE in = Only(DOMAIN Unset \ F, q)
  <2>1. in[f] = IF f \in F THEN Unset[f] ELSE q[f]
    BY <1>3 DEF Only
  <2>2. QED
    BY <1>1, <1>2, <2>1
<1>4. CASE f \in F /\ q[f] # Unset[f]
  BY <1>1, <1>2, <1>4
<1>5. QED
  BY <1>3, <1>4

LEMMA RequestFields ==
  /\ DOMAIN Unset = {"ledger", "sequence", "redact_fields"}
  /\ "sequence" \in DOMAIN Unset /\ "redact_fields" \in DOMAIN Unset
  BY DEF Unset

LEMMA CallKeeps ==
  ASSUME IndInv, NEW s, NEW l \in Lists, NEW F \in SUBSET DOMAIN Unset, NEW in,
         CallReceipt([ledger |-> "ledger", sequence |-> s, redact_fields |-> l], F, in)
  PROVE  IndInv'
<1> DEFINE q == [ledger |-> "ledger", sequence |-> s, redact_fields |-> l]
<1>1. /\ result = "idle" /\ asked' = q
      /\ \/ result' = "error"
         \/ request' = MergePublicReceipt(Only(F, q), in) /\ result' = "merged"
      /\ \/ in = Only(DOMAIN Unset \ F, q)
         \/ \A f \in DOMAIN Unset : f \in F /\ q[f] # Unset[f]
      /\ UNCHANGED <<payload, next, obj, pseudonymMap, valueToCounter, counter>>
  BY DEF CallReceipt
<1>2. Untouched /\ Untouched'
  BY <1>1 DEF IndInv, Untouched
<1>3. asked'.sequence = s /\ asked'.redact_fields = l /\ l \in Seq(Fields)
  BY <1>1, ListsAreSequences
<1>4. CASE result' = "error"
  BY <1>1, <1>4 DEF IndInv, Redacted
<1>5. CASE request' = MergePublicReceipt(Only(F, q), in) /\ result' = "merged"
  <2>1. request'.sequence = q.sequence /\ request'.redact_fields = q.redact_fields
    <3> DEFINE m == MergePublicReceipt(Only(F, q), in)
    <3>1. \A f \in DOMAIN Unset : m[f] = q[f]
      BY <1>1, MergedRequest
    <3>2. m["sequence"] = q["sequence"] /\ m["redact_fields"] = q["redact_fields"]
      BY <3>1, RequestFields, Zenon
    <3> HIDE DEF m, q
    <3>3. QED
      BY <1>5, <3>2 DEF m
  <2>2. List' \in Seq(Fields) /\ request'.sequence = asked'.sequence /\ redactFields' = List'
    BY <1>1, <1>3, <2>1 DEF List, redactFields
  <2>3. QED
    BY <1>1, <1>2, <1>5, <2>2 DEF IndInv, Redacted
<1>6. QED
  BY <1>1, <1>4, <1>5

-----------------------------------------------------------------------------
(* The loop.                                                               *)

LEMMA FetchKeeps ==
  ASSUME IndInv, FetchEntry \/ FetchProof
  PROVE  IndInv'
<1>1. /\ result \in {"merged", "fetched"} /\ result' \in {"fetched", "start", "error"}
      /\ result' = "fetched" => request.sequence \in DOMAIN payload
      /\ result' = "start" => result = "fetched"
      /\ UNCHANGED <<input, next, obj, pseudonymMap, valueToCounter, counter>>
  BY DEF FetchEntry, FetchProof
<1>2. Untouched' <=> Untouched
  BY <1>1 DEF Untouched
<1>3. List' = List /\ redactFields' = redactFields
  BY <1>1 DEF List, redactFields, input
<1>4. QED
  BY <1>1, <1>2, <1>3 DEF IndInv, Redacted, input

\* Before the first iteration.
LEMMA UntouchedIsReplaced ==
  ASSUME Untouched, Original \in Objects, obj = Original
  PROVE  Replaced /\ Numbered
<1>1. DOMAIN Empty = {} /\ \A k : k \notin 1..(next - 1) /\ counter = 1
  BY DEF Empty, Untouched
<1>2. Done = {}
  BY <1>1 DEF Done
<1>3. Replaced
  BY <1>1, <1>2, ObjectShape DEF Replaced, Untouched
<1>4. DOMAIN valueToCounter = {} /\ counter - 1 = 0 /\ 1..(counter - 1) = {}
  BY <1>1 DEF Untouched
<1>5. Numbered
  BY <1>2, <1>4, FS_EmptySet DEF Numbered
<1>6. QED
  BY <1>3, <1>5

LEMMA StartKeeps ==
  ASSUME IndInv, NothingToRedact \/ Unmarshal \/ UnmarshalFails
  PROVE  IndInv'
<1>1. result = "start" /\ UNCHANGED <<input, next, pseudonymMap, valueToCounter, counter>>
  BY DEF NothingToRedact, Unmarshal, UnmarshalFails
<1>2. /\ Untouched /\ Untouched' /\ List \in Seq(Fields)
      /\ redactFields = List /\ request.sequence = asked.sequence /\ asked.sequence \in 1..2
  BY <1>1 DEF IndInv, Untouched
<1>3. /\ List' = List /\ redactFields' = redactFields /\ Payload' = Payload
      /\ Original' = Original /\ Payload = Original
      /\ Original \in Objects \cup {NotAnObject}
  BY <1>1, <1>2 DEF List, redactFields, Payload, Original, input, IndInv
<1>4. CASE UnmarshalFails
  BY <1>1, <1>2, <1>3, <1>4 DEF UnmarshalFails, IndInv, Redacted, input
<1>5. CASE Unmarshal
  <2>1. obj' = Original' /\ Original' \in Objects /\ result' = "running" /\ Payload # NotAnObject
    BY <1>3, <1>5 DEF Unmarshal
  <2>2. Replaced' /\ Numbered'
    <3>1. (Untouched /\ Original \in Objects /\ obj = Original => Replaced /\ Numbered)'
      BY UntouchedIsReplaced, PTL
    <3>2. QED
      BY <1>2, <2>1, <3>1
  <2>3. next' <= Len(List') + 1
    BY <1>2, <1>3 DEF Untouched
  <2>4. QED
    BY <1>1, <1>2, <1>3, <2>1, <2>2, <2>3 DEF IndInv, Redacted, input
<1>6. CASE NothingToRedact
  <2>1. /\ result' = "returned" /\ List = <<>>
        /\ obj' = IF Payload = NotAnObject THEN Empty ELSE Payload
    BY <1>2, <1>6 DEF NothingToRedact
  <2>2. ASSUME Redacted' PROVE next' > Len(List') /\ next' <= Len(List') + 1 /\ Replaced' /\ Numbered'
    <3>1. obj' = Original' /\ Original' \in Objects
      BY <1>3, <2>1, <2>2 DEF Redacted
    <3>2. (Untouched /\ Original \in Objects /\ obj = Original => Replaced /\ Numbered)'
      BY UntouchedIsReplaced, PTL
    <3>3. QED
      BY <1>2, <1>3, <2>1, <3>1, <3>2 DEF Untouched
  <2>3. QED
    BY <1>1, <1>2, <1>3, <2>1, <2>2 DEF IndInv, input
<1>7. QED
  BY <1>4, <1>5, <1>6

\* A list is the same, and so is the entry, as long as the loop runs.
LEMMA SameEntry ==
  ASSUME IndInv, result = "running", UNCHANGED input
  PROVE  /\ List' = List /\ Original' = Original /\ redactFields' = redactFields
         /\ redactFields = List /\ List \in Seq(Fields)
         /\ Payload = Original /\ Payload' = Payload /\ Original # NotAnObject
         /\ asked.sequence \in DOMAIN payload
         /\ next \in Nat /\ next >= 1 /\ counter \in Nat /\ counter >= 1
         /\ Replaced /\ (IsInjective(List) => Numbered)
  BY DEF List, redactFields, Payload, Original, input, IndInv

\* One more field of the list has been gone through.
LEMMA DoneGrows ==
  ASSUME IndInv, result = "running", UNCHANGED input, next' = next + 1, next <= Len(List)
  PROVE  Done' = Done \cup ({List[next]} \cap DOMAIN Original)
<1>1. next \in Nat /\ next >= 1 /\ List' = List /\ Original' = Original
  BY SameEntry
<1>2. 1..(next' - 1) = 1..(next - 1) \cup {next}
  BY <1>1
<1>3. Done' = {List[k] : k \in 1..(next' - 1)} \cap DOMAIN Original
  BY <1>1 DEF Done
<1>4. Done = {List[k] : k \in 1..(next - 1)} \cap DOMAIN Original
  BY DEF Done
<1>5. {List[k] : k \in 1..(next' - 1)} = {List[k] : k \in 1..(next - 1)} \cup {List[next]}
  BY <1>2
<1>6. QED
  BY <1>3, <1>4, <1>5

\* The part of the invariant that every iteration keeps.
LEMMA LoopStep ==
  ASSUME IndInv, result = "running", UNCHANGED <<input, result>>,
         next' = next + 1, next <= Len(List), counter' \in {counter, counter + 1},
         Replaced', IsInjective(List) => Numbered'
  PROVE  IndInv'
<1>1. /\ List' = List /\ Original' = Original /\ redactFields' = redactFields
      /\ redactFields = List /\ List \in Seq(Fields)
      /\ next \in Nat /\ next >= 1 /\ counter \in Nat /\ counter >= 1 /\ Payload' = Payload
      /\ asked.sequence \in DOMAIN payload /\ Len(List) \in Nat
  BY SameEntry
<1>2. /\ next' \in Nat /\ next' >= 1 /\ counter' \in Nat /\ counter' >= 1
      /\ next' <= Len(List') + 1
  BY <1>1
<1>3. ~Redacted'
  BY DEF Redacted
<1>4. (IsInjective(List) => Numbered)'
  BY <1>1
<1>5. QED
  BY <1>1, <1>2, <1>3, <1>4 DEF IndInv, input

LEMMA SkipKeeps ==
  ASSUME IndInv, SkipField
  PROVE  IndInv'
<1>1. /\ result = "running" /\ next <= Len(redactFields) /\ next' = next + 1
      /\ List[next] \notin DOMAIN obj
      /\ UNCHANGED <<input, obj, pseudonymMap, valueToCounter, counter, result>>
  BY SameEntry DEF SkipField
<1>2. /\ Original' = Original /\ redactFields = List /\ List' = List
      /\ Replaced /\ (IsInjective(List) => Numbered)
  BY <1>1, SameEntry
<1>3. Done' = Done
  BY <1>1, <1>2, DoneGrows DEF Replaced
<1>4. Replaced' /\ (IsInjective(List) => Numbered')
  BY <1>1, <1>2, <1>3 DEF Replaced, Numbered
<1>5. QED
  BY <1>1, <1>2, <1>4, LoopStep

\* What an iteration that redacts does: the field's value gets its own number, or
\* the next one.
Field == List[next]
Raw   == obj[Field]
Seen  == Raw \in DOMAIN valueToCounter
Given == IF Seen THEN valueToCounter[Raw] ELSE Pseudonym(counter)

LEMMA RedactParts ==
  ASSUME IndInv, RedactField
  PROVE  /\ result = "running" /\ next <= Len(List) /\ next' = next + 1 /\ UNCHANGED <<input, result>>
         /\ Field \in DOMAIN Original
         /\ obj' = [obj EXCEPT ![Field] = Given]
         /\ counter' = IF Seen THEN counter ELSE counter + 1
         /\ DOMAIN pseudonymMap' = DOMAIN pseudonymMap \cup {Field} /\ pseudonymMap'[Field] = Given
         /\ \A f \in DOMAIN pseudonymMap : f # Field => pseudonymMap'[f] = pseudonymMap[f]
         /\ DOMAIN valueToCounter' = DOMAIN valueToCounter \cup {Raw} /\ valueToCounter'[Raw] = Given
         /\ \A v \in DOMAIN valueToCounter : v # Raw => valueToCounter'[v] = valueToCounter[v]
         /\ Done' = Done \cup {Field}
<1>1. /\ result = "running" /\ next <= Len(List) /\ Field \in DOMAIN obj
      /\ next' = next + 1 /\ UNCHANGED <<input, result>>
      /\ valueToCounter' = Put(valueToCounter, Raw, Given)
      /\ counter' = IF Seen THEN counter ELSE counter + 1
      /\ pseudonymMap' = Put(pseudonymMap, Field, Given)
      /\ obj' = [obj EXCEPT ![Field] = Given]
  BY SameEntry DEF RedactField, Field, Raw, Seen, Given
<1>2. Field \in DOMAIN Original
  BY <1>1, SameEntry DEF Replaced
<1>3. Done' = Done \cup {Field}
  BY <1>1, <1>2, DoneGrows DEF Field
<1>4. /\ DOMAIN pseudonymMap' = DOMAIN pseudonymMap \cup {Field} /\ pseudonymMap'[Field] = Given
      /\ \A f \in DOMAIN pseudonymMap : f # Field => pseudonymMap'[f] = pseudonymMap[f]
  <2>1. pseudonymMap' = [f \in DOMAIN pseudonymMap \cup {Field} |->
                          IF f = Field THEN Given ELSE pseudonymMap[f]]
    BY <1>1 DEF Put
  <2>2. QED
    BY <2>1
<1>5. /\ DOMAIN valueToCounter' = DOMAIN valueToCounter \cup {Raw} /\ valueToCounter'[Raw] = Given
      /\ \A v \in DOMAIN valueToCounter : v # Raw => valueToCounter'[v] = valueToCounter[v]
  <2>1. valueToCounter' = [v \in DOMAIN valueToCounter \cup {Raw} |->
                            IF v = Raw THEN Given ELSE valueToCounter[v]]
    BY <1>1 DEF Put
  <2>2. QED
    BY <2>1
<1>6. QED
  BY <1>1, <1>2, <1>3, <1>4, <1>5

\* Every number given is one that was given out.
LEMMA RedactReplaces ==
  ASSUME IndInv, RedactField
  PROVE  Replaced'
<1>1. /\ next <= Len(List) /\ Field \in DOMAIN obj
      /\ counter' = IF Seen THEN counter ELSE counter + 1
      /\ obj' = [obj EXCEPT ![Field] = Given]
  BY RedactParts, SameEntry DEF Replaced
<1>2. /\ counter \in Nat /\ counter >= 1 /\ Original' = Original /\ Replaced
  BY RedactParts, SameEntry
<1>3. Done' = Done \cup {Field}
  BY RedactParts
<1>4. 1..(counter - 1) \subseteq 1..(counter' - 1)
  BY <1>1, <1>2
<1>5. \E n \in 1..(counter' - 1) : Given = Pseudonym(n)
  <2>1. CASE Seen
    BY <1>2, <1>4, <2>1 DEF Replaced, Given, Seen
  <2>2. CASE ~Seen
    <3>1. counter \in 1..(counter' - 1)
      BY <1>1, <1>2, <2>2
    <3>2. QED
      BY <2>2, <3>1 DEF Given
  <2>3. QED
    BY <2>1, <2>2
<1>a. /\ DOMAIN pseudonymMap' = DOMAIN pseudonymMap \cup {Field} /\ pseudonymMap'[Field] = Given
      /\ \A f \in DOMAIN pseudonymMap : f # Field => pseudonymMap'[f] = pseudonymMap[f]
  BY RedactParts
<1>b. /\ DOMAIN valueToCounter' = DOMAIN valueToCounter \cup {Raw} /\ valueToCounter'[Raw] = Given
      /\ \A v \in DOMAIN valueToCounter : v # Raw => valueToCounter'[v] = valueToCounter[v]
  BY RedactParts
<1>6. DOMAIN obj' = DOMAIN Original' /\ obj' = [f \in DOMAIN obj' |-> obj'[f]]
  BY <1>1, <1>2 DEF Replaced
<1>7. DOMAIN pseudonymMap' = Done'
  BY <1>2, <1>3, <1>a DEF Replaced
<1>8. ASSUME NEW f \in DOMAIN Original
      PROVE  obj'[f] = IF f \in Done' THEN pseudonymMap'[f] ELSE Original[f]
  <2>1. CASE f = Field
    <3>1. obj'[f] = Given /\ pseudonymMap'[f] = Given /\ f \in Done'
      BY <1>1, <1>2, <1>3, <1>a, <2>1 DEF Replaced
    <3>2. QED
      BY <3>1
  <2>2. CASE f # Field
    <3>1. obj'[f] = obj[f] /\ (f \in Done' <=> f \in Done)
      BY <1>1, <1>2, <1>3, <2>2 DEF Replaced
    <3>2. f \in Done => pseudonymMap'[f] = pseudonymMap[f]
      BY <1>2, <1>a, <2>2 DEF Replaced
    <3>3. QED
      BY <1>2, <3>1, <3>2 DEF Replaced
  <2>3. QED
    BY <2>1, <2>2
<1>9. ASSUME NEW f \in Done' PROVE \E n \in 1..(counter' - 1) : obj'[f] = Pseudonym(n)
  <2>1. CASE f = Field
    BY <1>1, <1>5, <2>1
  <2>2. CASE f # Field
    <3>1. f \in Done /\ f \in DOMAIN obj
      BY <1>2, <1>3, <2>2 DEF Replaced, Done
    <3>2. obj'[f] = obj[f]
      BY <1>1, <2>2, <3>1
    <3>3. QED
      BY <1>2, <1>4, <3>1, <3>2 DEF Replaced
  <2>3. QED
    BY <2>1, <2>2
<1>10. ASSUME NEW v \in DOMAIN valueToCounter'
       PROVE  \E n \in 1..(counter' - 1) : valueToCounter'[v] = Pseudonym(n)
  <2>1. CASE v = Raw
    BY <1>5, <1>b, <2>1
  <2>2. CASE v # Raw
    <3>1. v \in DOMAIN valueToCounter /\ valueToCounter'[v] = valueToCounter[v]
      BY <1>b, <2>2
    <3>2. QED
      BY <1>2, <1>4, <3>1 DEF Replaced
  <2>3. QED
    BY <2>1, <2>2
<1>11. QED
  BY <1>2, <1>6, <1>7, <1>8, <1>9, <1>10 DEF Replaced

\* If no field comes twice, the field has its original value: a new value gets the
\* next number, one that was seen keeps its own.
LEMMA RedactNumbers ==
  ASSUME IndInv, RedactField, IsInjective(List)
  PROVE  Numbered'
<1>1. /\ counter \in Nat /\ counter >= 1 /\ Original' = Original /\ Replaced /\ Numbered
      /\ next \in Nat /\ next >= 1 /\ next <= Len(List) /\ List \in Seq(Fields)
      /\ Field \in DOMAIN Original
  BY RedactParts, SameEntry
<1>2. Field \notin Done
  <2>1. ASSUME NEW k \in 1..(next - 1), List[k] = List[next] PROVE FALSE
    <3>1. k \in DOMAIN List /\ next \in DOMAIN List /\ k # next
      BY <1>1
    <3>2. QED
      BY <2>1, <3>1 DEF IsInjective
  <2>2. QED
    BY <2>1 DEF Done, Field
<1>3. Raw = Original[Field]
  BY <1>1, <1>2 DEF Replaced, Raw
<1>4. /\ DOMAIN valueToCounter' = DOMAIN valueToCounter \cup {Raw} /\ valueToCounter'[Raw] = Given
      /\ \A v \in DOMAIN valueToCounter : v # Raw => valueToCounter'[v] = valueToCounter[v]
      /\ Done' = Done \cup {Field}
      /\ counter' = IF Seen THEN counter ELSE counter + 1
  BY RedactParts
<1>5. /\ pseudonymMap'[Field] = Given
      /\ \A f \in Done : pseudonymMap'[f] = pseudonymMap[f]
  BY <1>1, <1>2, RedactParts DEF Replaced
<1>6. DOMAIN valueToCounter' = {Original'[f] : f \in Done'}
  BY <1>1, <1>3, <1>4 DEF Numbered
<1>7. CASE Seen
  <2>1. /\ DOMAIN valueToCounter' = DOMAIN valueToCounter /\ counter' = counter
        /\ \A v \in DOMAIN valueToCounter : valueToCounter'[v] = valueToCounter[v]
    BY <1>4, <1>7 DEF Seen, Given
  <2>2. ASSUME NEW f \in Done' PROVE pseudonymMap'[f] = valueToCounter'[Original[f]]
    <3>1. CASE f = Field
      BY <1>3, <1>4, <1>5, <3>1
    <3>2. CASE f \in Done
      BY <1>1, <1>5, <2>1, <3>2 DEF Numbered
    <3>3. QED
      BY <1>4, <3>1, <3>2
  <2>3. QED
    BY <1>1, <1>6, <2>1, <2>2 DEF Numbered
<1>8. CASE ~Seen
  <2>1. /\ Raw \notin DOMAIN valueToCounter /\ counter' = counter + 1
        /\ \A v \in DOMAIN valueToCounter : valueToCounter'[v] = valueToCounter[v] /\ v # Raw
        /\ valueToCounter'[Raw] = Pseudonym(counter)
    BY <1>4, <1>8 DEF Seen, Given
  <2>2. \A v \in DOMAIN valueToCounter : valueToCounter[v] # Pseudonym(counter)
    <3> SUFFICES ASSUME NEW v \in DOMAIN valueToCounter, valueToCounter[v] = Pseudonym(counter)
                 PROVE  FALSE
      OBVIOUS
    <3>1. PICK n \in 1..(counter - 1) : valueToCounter[v] = Pseudonym(n)
      BY <1>1 DEF Replaced
    <3>2. n = counter
      BY <3>1, PseudonymsDiffer
    <3>3. QED
      BY <1>1, <3>2
  <2>3. ASSUME NEW f \in Done' PROVE pseudonymMap'[f] = valueToCounter'[Original[f]]
    <3>1. CASE f = Field
      BY <1>3, <1>4, <1>5, <3>1
    <3>2. CASE f \in Done
      BY <1>1, <1>5, <2>1, <3>2 DEF Numbered
    <3>3. QED
      BY <1>4, <3>1, <3>2
  <2>4. ASSUME NEW v \in DOMAIN valueToCounter', NEW w \in DOMAIN valueToCounter',
               valueToCounter'[v] = valueToCounter'[w]
        PROVE  v = w
    <3>1. CASE v = Raw /\ w = Raw
      BY <3>1
    <3>2. CASE v = Raw /\ w # Raw
      BY <1>4, <2>1, <2>2, <2>4, <3>2
    <3>3. CASE v # Raw /\ w = Raw
      BY <1>4, <2>1, <2>2, <2>4, <3>3
    <3>4. CASE v # Raw /\ w # Raw
      BY <1>1, <1>4, <2>1, <2>4, <3>4 DEF Numbered
    <3>5. QED
      BY <3>1, <3>2, <3>3, <3>4
  <2>5. ASSUME NEW n \in 1..(counter' - 1)
        PROVE  \E v \in DOMAIN valueToCounter' : valueToCounter'[v] = Pseudonym(n)
    <3>1. CASE n = counter
      BY <1>4, <2>1, <3>1
    <3>2. CASE n # counter
      <4>1. n \in 1..(counter - 1)
        BY <1>1, <2>1, <3>2
      <4>2. PICK v \in DOMAIN valueToCounter : valueToCounter[v] = Pseudonym(n)
        BY <1>1, <4>1 DEF Numbered
      <4>3. QED
        BY <1>4, <2>1, <4>2
    <3>3. QED
      BY <3>1, <3>2
  <2>6. /\ IsFiniteSet(DOMAIN valueToCounter')
        /\ Cardinality(DOMAIN valueToCounter') = counter' - 1
    <3>1. IsFiniteSet(DOMAIN valueToCounter) /\ Cardinality(DOMAIN valueToCounter) = counter - 1
      BY <1>1 DEF Numbered
    <3>2. /\ IsFiniteSet(DOMAIN valueToCounter \cup {Raw})
          /\ Cardinality(DOMAIN valueToCounter \cup {Raw}) = Cardinality(DOMAIN valueToCounter) + 1
      BY <2>1, <3>1, FS_AddElement
    <3>3. QED
      BY <1>1, <1>4, <2>1, <3>1, <3>2
  <2>7. QED
    BY <1>1, <1>6, <2>3, <2>4, <2>5, <2>6 DEF Numbered
<1>9. QED
  BY <1>7, <1>8

LEMMA RedactKeeps ==
  ASSUME IndInv, RedactField
  PROVE  IndInv'
<1>1. /\ result = "running" /\ next <= Len(List) /\ next' = next + 1 /\ UNCHANGED <<input, result>>
      /\ counter' \in {counter, counter + 1}
  BY RedactParts
<1>2. Replaced' /\ (IsInjective(List) => Numbered')
  BY RedactReplaces, RedactNumbers
<1>3. QED
  BY <1>1, <1>2, LoopStep

LEMMA ReturnKeeps ==
  ASSUME IndInv, ReturnRedacted
  PROVE  IndInv'
<1>1. /\ result = "running" /\ next > Len(redactFields) /\ result' = "returned"
      /\ UNCHANGED <<input, next, obj, pseudonymMap, valueToCounter, counter>>
  BY DEF ReturnRedacted
<1>2. /\ List' = List /\ Original' = Original /\ redactFields' = redactFields
      /\ redactFields = List /\ Payload' = Payload
      /\ Replaced /\ (IsInjective(List) => Numbered)
  BY <1>1, SameEntry
<1>3. Done' = Done
  BY <1>1, <1>2 DEF Done
<1>4. Replaced' /\ (IsInjective(List) => Numbered)'
  BY <1>1, <1>2, <1>3 DEF Replaced, Numbered
<1>5. QED
  BY <1>1, <1>2, <1>4 DEF IndInv, input

LEMMA Inductive == Spec => []IndInv
<1>1. Init => IndInv
  <2> SUFFICES ASSUME Init PROVE IndInv
    OBVIOUS
  <2>1. PICK p \in Objects \cup {NotAnObject}, o \in Originals : payload = <<p, [f \in Fields |-> o]>>
    BY DEF Init
  <2>2. [f \in Fields |-> o] \in Objects
    <3>1. [f \in Fields |-> o] \in [Fields -> Originals \cup {Pseudonym(1)}]
      OBVIOUS
    <3>2. QED
      BY <3>1 DEF Objects
  <2>3. DOMAIN payload = 1..2 /\ payload[1] \in Objects \cup {NotAnObject} /\ payload[2] \in Objects
    BY <2>1, <2>2
  <2>4. \A k \in 1..2 : k = 1 \/ k = 2
    OBVIOUS
  <2>5. \A k \in 1..2 : payload[k] \in Objects \cup {NotAnObject}
    BY <2>3, <2>4
  <2>6. QED
    BY <2>3, <2>5 DEF Init, IndInv, Untouched, Redacted
<1>2. IndInv /\ [Next]_vars => IndInv'
  <2> SUFFICES ASSUME IndInv, [Next]_vars PROVE IndInv'
    OBVIOUS
  <2>1. ASSUME NEW s, NEW l \in Lists, NEW F \in SUBSET DOMAIN Unset, NEW in,
               CallReceipt([ledger |-> "ledger", sequence |-> s, redact_fields |-> l], F, in)
        PROVE  IndInv'
    BY <2>1, CallKeeps
  <2>2. CASE UNCHANGED vars
    BY <2>2 DEF vars, input, IndInv, Untouched, Redacted, Replaced, Numbered, Done, List,
                Payload, Original, redactFields
  <2>3. QED
    BY <2>1, <2>2, FetchKeeps, StartKeeps, SkipKeeps, RedactKeeps, ReturnKeeps DEF Next
<1>3. QED
  BY <1>1, <1>2, PTL DEF Spec

-----------------------------------------------------------------------------
(* The theorems.                                                           *)

\* At the end the loop has been through all listed fields of the entry asked for.
LEMMA AllDone ==
  ASSUME IndInv, Redacted
  PROVE  /\ Replaced /\ (IsInjective(List) => Numbered) /\ Done = Hidden
         /\ request.sequence = asked.sequence
<1>1. /\ List \in Seq(Fields) /\ next \in Nat /\ next > Len(List) /\ next <= Len(List) + 1
      /\ Replaced /\ (IsInjective(List) => Numbered) /\ request.sequence = asked.sequence
  BY DEF IndInv, Redacted
<1>2. 1..(next - 1) = DOMAIN List
  BY <1>1
<1>3. Done = Hidden
  BY <1>2 DEF Done, Hidden, ToSet, List
<1>4. QED
  BY <1>1, <1>3

\* No listed field keeps its value and nothing else changes, in the entry asked for.
THEOREM HiddenCorrect == Spec => []FieldsHidden
<1>1. IndInv => FieldsHidden
  BY AllDone DEF FieldsHidden, Replaced
<1>2. QED
  BY <1>1, Inductive, PTL

\* Pseudonyms are numbered without gaps, one per value, if no field is listed twice.
THEOREM NumbersCorrect == Spec => []NumberedByOriginal
<1>1. IndInv => NumberedByOriginal
  <2> SUFFICES ASSUME IndInv, Redacted, IsInjective(List)
               PROVE  /\ SharePseudonyms
                      /\ {pseudonymMap[f] : f \in Hidden}
                           = {Pseudonym(n) : n \in 1..Cardinality({Original[f] : f \in Hidden})}
    BY DEF NumberedByOriginal, List
  <2>1. Replaced /\ Numbered /\ Done = Hidden /\ counter \in Nat
    BY AllDone DEF IndInv
  <2>2. SharePseudonyms
    BY <2>1 DEF SharePseudonyms, Numbered
  <2>3. Cardinality({Original[f] : f \in Hidden}) = counter - 1
    BY <2>1 DEF Numbered
  <2>4. ASSUME NEW f \in Hidden PROVE \E n \in 1..(counter - 1) : pseudonymMap[f] = Pseudonym(n)
    <3>1. Original[f] \in DOMAIN valueToCounter /\ pseudonymMap[f] = valueToCounter[Original[f]]
      BY <2>1 DEF Numbered
    <3>2. QED
      BY <2>1, <3>1 DEF Replaced
  <2>5. ASSUME NEW n \in 1..(counter - 1) PROVE \E f \in Hidden : pseudonymMap[f] = Pseudonym(n)
    <3>1. PICK v \in DOMAIN valueToCounter : valueToCounter[v] = Pseudonym(n)
      BY <2>1 DEF Numbered
    <3>2. PICK f \in Hidden : v = Original[f]
      BY <2>1 DEF Numbered
    <3>3. QED
      BY <2>1, <3>1, <3>2 DEF Numbered
  <2>6. QED
    BY <2>2, <2>3, <2>4, <2>5
<1>2. QED
  BY <1>1, Inductive, PTL
=============================================================================
