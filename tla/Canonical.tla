----------------------------- MODULE Canonical -----------------------------
(***************************************************************************)
(* Canonicalize (src/chain/canonical.go) on JSON documents as they are     *)
(* written, and what of a document Postgres keeps in a JSONB column.       *)
(*                                                                         *)
(* A written document is a number with its spelling, a list of documents,  *)
(* or a list of members in the order written, names repeated or not.       *)
(* Strings, booleans and null have one spelling once they are decoded and  *)
(* behave as a plainly spelled number.  White space is left out.           *)
(***************************************************************************)
EXTENDS Integers, Sequences, FiniteSets, SequencesExt

CONSTANTS
    Names,      \* names of members, numbered in the order json.Marshal sorts them
    Numbers,    \* numbers in documents
    MaxDepth    \* how deeply nested a document json.Decoder accepts

ASSUME DocumentAssumption ==
    Names \subseteq Int /\ Numbers \subseteq Int /\ MaxDepth \in Nat

\* "exponent" is 5e0, "plain" is 5: the same number.
Spellings == {"plain", "exponent"}

Number(n, spelling) == [type |-> "number", number |-> n, spelling |-> spelling]
Array(items)        == [type |-> "array", items |-> items]
Object(members)     == [type |-> "object", members |-> members]

\* The documents nested no deeper than k, every number of them alike at k = 0.
Scalars == [type : {"number"}, number : Numbers, spelling : Spellings]
Around(S) == [type : {"array"}, items : Seq(S)] \cup [type : {"object"}, members : Seq(Names \X S)]

Documents[k \in 0..MaxDepth] ==
    IF k = 0 THEN Scalars ELSE Scalars \cup Around(Documents[k - 1])

\* A map as the list of its members, names in ascending order.
Ascending(S) ==
    CHOOSE s \in [1..Cardinality(S) -> S] : \A i, j \in DOMAIN s : i < j => s[i] < s[j]

Listed(map) ==
    LET names == Ascending(DOMAIN map)
    IN  [n \in 1..Cardinality(DOMAIN map) |-> <<names[n], map[names[n]]>>]

\* json.Decode of members into a map: of a name that is repeated the last counts.
LastOf(members, k) == CHOOSE n \in 1..Len(members) :
    members[n][1] = k /\ \A o \in (n + 1)..Len(members) : members[o][1] # k

Keys(members) == {members[n][1] : n \in 1..Len(members)}

LastValue(members, k) == members[LastOf(members, k)][2]

\* Mistake: decoded as float64, which cannot tell large integers apart.
Exact == 3
DecodeFloat(d) == [d EXCEPT !.number = IF @ <= Exact THEN @ ELSE 2 * (@ \div 2)]

\* UseNumber: a number is the text that was written.
DecodeNumber(d) == d

\* Mistake: members marshalled in the order they were written.
MarshalAsWritten(members, out) == [n \in 1..Len(members) |-> <<members[n][1], out[n]>>]

\* json.Marshal of the map: its names sorted.  out[n] is the n-th value marshalled.
MarshalMembers(members, out) ==
    Listed([k \in Keys(members) |-> out[LastOf(members, k)]])

\* The functions on documents, level by level: below is the function on documents
\* that are nested one level less.
CanonicalizeLevel(k, below) ==
    [d \in Documents[k] |->
        CASE d.type = "number" -> DecodeNumber(d)
          [] d.type = "array"  -> Array([n \in 1..Len(d.items) |-> below[d.items[n]]])
          [] d.type = "object" ->
               Object(MarshalMembers(d.members,
                   [n \in 1..Len(d.members) |-> below[d.members[n][2]]]))]

Canonicalize[k \in 0..MaxDepth] == CanonicalizeLevel(k, Canonicalize[k - 1])

\* What a JSONB column gives back: the members Postgres keeps, in an order of its
\* own (here: descending), and numbers without an exponent.
StoredLevel(k, below) ==
    [d \in Documents[k] |->
        CASE d.type = "number" -> Number(d.number, "plain")
          [] d.type = "array"  -> Array([n \in 1..Len(d.items) |-> below[d.items[n]]])
          [] d.type = "object" ->
               Object(Reverse(Listed([m \in Keys(d.members) |->
                   below[LastValue(d.members, m)]])))]

Stored[k \in 0..MaxDepth] == StoredLevel(k, Stored[k - 1])

\* The value a document stands for.
ValueLevel(k, below) ==
    [d \in Documents[k] |->
        CASE d.type = "number" -> <<"number", d.number>>
          [] d.type = "array"  -> <<"array", [n \in 1..Len(d.items) |-> below[d.items[n]]]>>
          [] d.type = "object" ->
               <<"object", [m \in Keys(d.members) |-> below[LastValue(d.members, m)]]>>]

Value[k \in 0..MaxDepth] == ValueLevel(k, Value[k - 1])

\* No number that counts is spelled with an exponent.
PlainLevel(k, below) ==
    [d \in Documents[k] |->
        CASE d.type = "number" -> d.spelling = "plain"
          [] d.type = "array"  -> \A n \in 1..Len(d.items) : below[d.items[n]]
          [] d.type = "object" -> \A m \in Keys(d.members) : below[LastValue(d.members, m)]]

Plain[k \in 0..MaxDepth] == PlainLevel(k, Plain[k - 1])
=============================================================================
