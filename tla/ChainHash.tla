----------------------------- MODULE ChainHash -----------------------------
(***************************************************************************)
(* The hashes of the chain (src/chain/canonical.go, hash.go).  SHA-256 is  *)
(* taken to be injective, so a hash stands for its own preimage.           *)
(***************************************************************************)
EXTENDS Integers, Sequences

\* A payload is a spelling of a JSON value.  json.Decoder reads the first value
\* and stops, so text that Postgres refuses as JSONB (trailing bytes, for one)
\* is hashed and only then refused by the INSERT.
Spellings == {"valid", "unstorable", "malformed"}

\* Canonicalize: whether the first JSON value of the payload can be decoded.
Decodes(p) == p.spelling # "malformed"

\* PayloadHash: the hash of the canonical form, for which value stands.  Canonical
\* shows which documents share it.
PayloadHash(p) == p.value

\* Mistake: prev_entry_hash left out of the preimage.
EntryHashUnlinked(seq, ledger, event_type, payload_hash, prev) ==
    <<<<seq, ledger, event_type, payload_hash>>>>

\* Mistake: event_type left out of the preimage.
EntryHashUntyped(seq, ledger, event_type, payload_hash, prev) ==
    Append(prev, <<seq, ledger, payload_hash>>)

\* EntryHash: the previous hash, itself a preimage, extended by one item.
\* created_at, actor and metadata are not part of it.
EntryHash(seq, ledger, event_type, payload_hash, prev) ==
    Append(prev, <<seq, ledger, event_type, payload_hash>>)

\* The prev_entry_hash of the first entry: the empty string.
NoHash == <<>>
=============================================================================
