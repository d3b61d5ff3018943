---------------------------- MODULE MCPrimitives ----------------------------
(***************************************************************************)
(* The pure operators for TLC: the lists of MerkleLists, and the payloads  *)
(* of JSONPayloads.  A behaviour is about one or the other.                *)
(***************************************************************************)
EXTENDS MerkleLists, JSONPayloads, TLC

\* Payloads: numbers; lists of up to two members or items, names in either order
\* or repeated; and one such list inside another.
UpToTwo(S) == {<<>>} \cup {<<x>> : x \in S} \cup {<<x, y>> : x, y \in S}
Flat == {Array(i) : i \in UpToTwo(Scalars)} \cup {Object(m) : m \in UpToTwo(Names \X Scalars)}
Payloads == Scalars \cup Flat \cup {Array(<<d>>) : d \in Flat} \cup {Object(<<<<1, d>>>>) : d \in Flat}

InitPrimitives == Init /\ InitPayload

NextPrimitives ==
    \/ Next /\ document = NoDocument /\ UNCHANGED document
    \/ ReadPayload /\ leaves = <<>> /\ UNCHANGED leaves

SpecPrimitives == InitPrimitives /\ [][NextPrimitives]_<<leaves, document>>
=============================================================================
