----------------------------- MODULE Anchoring -----------------------------
(***************************************************************************)
(* step.audit.anchor and step.audit.proof (src/steps/anchor.go, proof.go)  *)
(* for one ledger, while entries are appended and providers come and go.   *)
(*                                                                         *)
(* AnchorHandler resolves a range, reads its entry hashes, computes the    *)
(* Merkle root, and for every provider first submits the root and then     *)
(* inserts a row into audit_anchors.  None of this shares a transaction,   *)
(* so appends, other handlers and failures fall between any two steps.     *)
(* ProofHandler reads the entry, the anchors that cover it and the hashes  *)
(* of the first one's range in three statements.                           *)
(*                                                                         *)
(* The log is what AppendChain guarantees: entries 1..last_sequence, only  *)
(* ever extended, cursor and rows changing together.  The hash of entry n  *)
(* stands for itself as n: entry hashes contain the sequence number, so    *)
(* they differ.                                                            *)
(***************************************************************************)
EXTENDS Merkle, Providers, FiniteSets

CONSTANTS
    Instances,      \* provider modules, by instance name
    KindOf,         \* KindOf[i]: the provider implementation behind instance i
    Handlers,       \* concurrent anchor steps
    Readers,        \* concurrent proof steps
    StartSequences, \* start_sequence inputs
    EndSequences,   \* end_sequence inputs, 0 for "latest"
    PastEnd,        \* whether callers name an end_sequence past the log
    MaxEntries,     \* bound: entries in the ledger
    MaxSubmissions  \* bound: submissions to providers

ASSUME KindAssumption == KindOf \in [Instances -> Kinds]
ASSUME InputAssumption ==
    /\ StartSequences \subseteq Nat /\ EndSequences \subseteq Nat
    /\ PastEnd \in BOOLEAN /\ MaxEntries \in Nat /\ MaxSubmissions \in Nat

VARIABLES
    last_sequence,  \* committed entries of the ledger
    audit_anchors,  \* rows of audit_anchors
    next_id,        \* the BIGSERIAL of audit_anchors
    published,      \* what the external services hold
    submissions,    \* submissions so far, bounded by MaxSubmissions
    registry,       \* registered provider instances
    job,            \* each anchor step in progress
    reader          \* each proof step in progress

table == <<audit_anchors, next_id>>
world == <<published, submissions>>
vars  == <<last_sequence, table, world, registry, job, reader>>

Idle == [pc |-> "idle"]

\* The entry hashes of [start, end] that are committed, in sequence order.
Hashes(start, end) ==
    LET lo == IF start < 1 THEN 1 ELSE start
        hi == IF end < last_sequence THEN end ELSE last_sequence
    IN  [n \in 1..(IF hi < lo THEN 0 ELSE hi - lo + 1) |-> lo + n - 1]

Init ==
    /\ last_sequence = 0
    /\ audit_anchors = {}
    /\ next_id = 1
    /\ published = {}
    /\ submissions = 0
    /\ registry = {}
    /\ job = [h \in Handlers |-> Idle]
    /\ reader = [r \in Readers |-> Idle]

-----------------------------------------------------------------------------
(* Around the handlers.                                                    *)

\* A transaction of AppendChain commits one more entry.
AppendEntry ==
    /\ last_sequence < MaxEntries
    /\ last_sequence' = last_sequence + 1
    /\ UNCHANGED <<table, world, registry, job, reader>>

\* anchorProviderModule.Init and Stop.
RegisterAnchorProvider(i) ==
    /\ i \notin registry
    /\ registry' = registry \cup {i}
    /\ UNCHANGED <<last_sequence, table, world, job, reader>>

UnregisterAnchorProvider(i) ==
    /\ i \in registry
    /\ registry' = registry \ {i}
    /\ UNCHANGED <<last_sequence, table, world, job, reader>>

-----------------------------------------------------------------------------
(* AnchorHandler.                                                          *)

Step(h, j) ==
    /\ job' = [job EXCEPT ![h] = j]
    /\ UNCHANGED <<last_sequence, registry, reader>>

\* The step is called for [start, end] and a list of instances, {} for all.
StartAnchor(h, start, end, names) ==
    /\ job[h] = Idle
    /\ PastEnd \/ end <= last_sequence
    /\ Step(h, [pc |-> IF end = 0 THEN "resolve" ELSE "query",
                start |-> start, end |-> end, names |-> names])
    /\ UNCHANGED <<table, world>>

\* end_sequence 0: SELECT last_sequence.
ResolveEnd(h) ==
    /\ job[h].pc = "resolve"
    /\ Step(h, [job[h] EXCEPT !.pc = "query", !.end = last_sequence])
    /\ UNCHANGED <<table, world>>

\* The loop state: instances still to do, and those done.
Loop(j, root, todo, done) ==
    [pc |-> "loop", start |-> j.start, end |-> j.end, root |-> root,
     todo |-> todo, done |-> done]

\* Mistake: the range is not closed at its end.
QueryHashesUnbounded(h) ==
    /\ job[h].pc = "query"
    /\ LET hashes == Hashes(job[h].start, last_sequence)
           names  == IF job[h].names = {} THEN registry ELSE job[h].names
       IN  Step(h, IF hashes = <<>> THEN Idle
                   ELSE Loop(job[h], MerkleRoot(hashes), names, {}))
    /\ UNCHANGED <<table, world>>

\* SELECT entry_hash for the range, MerkleRoot, and the list of providers: the
\* input, or a snapshot of the registry.  An empty range is an error.
QueryHashes(h) ==
    /\ job[h].pc = "query"
    /\ LET hashes == Hashes(job[h].start, job[h].end)
           names  == IF job[h].names = {} THEN registry ELSE job[h].names
       IN  Step(h, IF hashes = <<>> THEN Idle
                   ELSE Loop(job[h], MerkleRoot(hashes), names, {}))
    /\ UNCHANGED <<table, world>>

\* ... and between p.Anchor and the INSERT: what the provider returned.
Submitted(j, i, id) ==
    [pc |-> "insert", start |-> j.start, end |-> j.end, root |-> j.root,
     todo |-> j.todo \ {i}, done |-> j.done,
     got |-> [instance |-> i, external_id |-> id]]

\* What instance i answers to the n-th submission: OpenTimestamps names the
\* root itself, the others a new commit or log entry.
ExternalId(i, root, n) ==
    IF KindOf[i] = "opentimestamps" THEN <<"digest", root>> ELSE <<KindOf[i], n>>

\* GetAnchorProvider fails: the instance is gone since the names were listed.
ProviderGone(h, i) ==
    /\ job[h].pc = "loop"
    /\ i \in job[h].todo \ registry
    /\ Step(h, Idle)
    /\ UNCHANGED <<table, world>>

\* The service has job j's root as submission n to instance i.
Published(j, i, n) ==
    [instance |-> i, external_id |-> ExternalId(i, j.root, n), root |-> j.root]

\* p.Anchor is called and ends as o says.
CallAnchor(h, i, o) ==
    /\ job[h].pc = "loop"
    /\ i \in job[h].todo \cap registry
    /\ submissions < MaxSubmissions
    /\ published' = IF o.held THEN published \cup {Published(job[h], i, submissions)}
                              ELSE published
    /\ submissions' = submissions + 1
    /\ UNCHANGED table

\* It returns an anchor ...
Submit(h, i, o) ==
    /\ o.ok
    /\ CallAnchor(h, i, o)
    /\ Step(h, Submitted(job[h], i, ExternalId(i, job[h].root, submissions)))

\* ... or an error, and the handler returns it, although the service may have
\* taken the root.
SubmitFails(h, i, o) ==
    /\ ~o.ok
    /\ CallAnchor(h, i, o)
    /\ Step(h, Idle)

\* Mistake: range_end is not part of the key.
SameAnchorKeyNoEnd(a, b) == a.provider = b.provider /\ a.range_start = b.range_start

\* The unique index on (ledger, provider, range_start, range_end).
SameAnchorKey(a, b) ==
    /\ a.provider = b.provider
    /\ a.range_start = b.range_start
    /\ a.range_end = b.range_end

\* The row for the anchor that p.Anchor just returned; provider is the name of
\* the implementation, not of the instance.
AnchorRow(j, id) ==
    [id           |-> id,
     provider     |-> KindOf[j.got.instance],
     range_start  |-> j.start,
     range_end    |-> j.end,
     merkle_root  |-> j.root,
     external_id  |-> j.got.external_id,
     confirmation |-> LevelAfterAnchor(KindOf[j.got.instance])]

\* Mistake: ON CONFLICT DO UPDATE.
InsertAnchorUpdates(h) ==
    /\ job[h].pc = "insert"
    /\ LET row == AnchorRow(job[h], next_id) IN
         audit_anchors' = {a \in audit_anchors : ~SameAnchorKey(a, row)} \cup {row}
    /\ next_id' = next_id + 1
    /\ Step(h, Loop(job[h], job[h].root, job[h].todo, job[h].done \cup {job[h].got}))
    /\ UNCHANGED world

\* INSERT .. ON CONFLICT DO NOTHING, and the record is appended to the response
\* either way.  The id is drawn either way, too.
InsertAnchor(h) ==
    /\ job[h].pc = "insert"
    /\ LET row == AnchorRow(job[h], next_id) IN
         audit_anchors' = IF \E a \in audit_anchors : SameAnchorKey(a, row)
                          THEN audit_anchors
                          ELSE audit_anchors \cup {row}
    /\ next_id' = next_id + 1
    /\ Step(h, Loop(job[h], job[h].root, job[h].todo, job[h].done \cup {job[h].got}))
    /\ UNCHANGED world

\* The loop is over: the response goes out ...
ReturnAnchors(h) ==
    /\ job[h].pc = "loop"
    /\ job[h].todo = {}
    /\ Step(h, [job[h] EXCEPT !.pc = "done"])
    /\ UNCHANGED <<table, world>>

\* ... and has been received.
FinishAnchor(h) ==
    /\ job[h].pc = "done"
    /\ Step(h, Idle)
    /\ UNCHANGED <<table, world>>

\* Any other end: a statement fails, the context is cancelled, the process dies.
AnchorFails(h) ==
    /\ job[h].pc \in {"resolve", "query", "loop", "insert"}
    /\ Step(h, Idle)
    /\ UNCHANGED <<table, world>>

-----------------------------------------------------------------------------
(* ProofHandler.                                                           *)

Read(r, q) ==
    /\ reader' = [reader EXCEPT ![r] = q]
    /\ UNCHANGED <<last_sequence, table, world, registry, job>>

\* fetchEntry: an entry that is not there is an error.
FetchEntry(r, seq) ==
    /\ reader[r] = Idle
    /\ seq <= last_sequence
    /\ Read(r, [pc |-> "entry", seq |-> seq])

\* fetchAnchorsForSequence, of which only the first is used: the covering row
\* with the lowest id.
Covering(seq) ==
    {a \in audit_anchors : a.range_start <= seq /\ seq <= a.range_end}

FirstCovering(seq) ==
    CHOOSE a \in Covering(seq) : \A b \in Covering(seq) : a.id <= b.id

FetchAnchors(r) ==
    /\ reader[r].pc = "entry"
    /\ Read(r, IF Covering(reader[r].seq) = {}
               THEN [pc |-> "unanchored", seq |-> reader[r].seq]
               ELSE [pc |-> "anchors", seq |-> reader[r].seq,
                     anchor |-> FirstCovering(reader[r].seq)])

\* The response: path and root for the entry.
Proved(q, hashes) ==
    [pc |-> "proved", seq |-> q.seq, root |-> q.anchor.merkle_root,
     path |-> InclusionProof(hashes, CHOOSE n \in 0..(Len(hashes) - 1) :
                                       hashes[n + 1] = q.seq)]

\* Mistake: the path is computed over the range up to the latest entry.
FetchHashesToLatest(r) ==
    /\ reader[r].pc = "anchors"
    /\ Read(r, Proved(reader[r], Hashes(reader[r].anchor.range_start, last_sequence)))

\* queryEntryHashesWithIndex and InclusionProof.  The entry is in the range and
\* committed, so its index is found.
FetchHashes(r) ==
    /\ reader[r].pc = "anchors"
    /\ Read(r, Proved(reader[r], Hashes(reader[r].anchor.range_start,
                                        reader[r].anchor.range_end)))

FinishProof(r) ==
    /\ reader[r].pc \in {"unanchored", "proved"}
    /\ Read(r, Idle)

-----------------------------------------------------------------------------
AnchorStep(h) ==
    \/ \E s \in StartSequences, e \in EndSequences, names \in SUBSET Instances :
         StartAnchor(h, s, e, names)
    \/ ResolveEnd(h) \/ QueryHashes(h)
    \/ \E i \in Instances :
         \/ ProviderGone(h, i)
         \/ \E o \in AnchorOutcomes(KindOf[i]) : Submit(h, i, o) \/ SubmitFails(h, i, o)
    \/ InsertAnchor(h) \/ ReturnAnchors(h) \/ FinishAnchor(h) \/ AnchorFails(h)

ProofStep(r) ==
    \/ \E seq \in 1..MaxEntries : FetchEntry(r, seq)
    \/ FetchAnchors(r) \/ FetchHashes(r) \/ FinishProof(r)

Next ==
    \/ AppendEntry
    \/ \E i \in Instances : RegisterAnchorProvider(i) \/ UnregisterAnchorProvider(i)
    \/ \E h \in Handlers : AnchorStep(h)
    \/ \E r \in Readers : ProofStep(r)

Spec == Init /\ [][Next]_vars

-----------------------------------------------------------------------------
(* Properties.                                                             *)

\* Every anchor row is about entries that exist: its range ends inside the log
\* and its root is the Merkle root of exactly the entries of its range, however
\* many were appended while AnchorHandler was between its two queries.
RootCoversRange ==
    \A a \in audit_anchors :
        /\ a.range_end <= last_sequence
        /\ a.merkle_root = MerkleRoot(Hashes(a.range_start, a.range_end))

\* No row without a receipt: the service behind the row's provider holds the
\* row's root under the row's external_id, whichever submissions failed and
\* whichever handler died before its INSERT.
RowIsPublished ==
    \A a \in audit_anchors : \E p \in published :
        /\ KindOf[p.instance] = a.provider
        /\ p.external_id = a.external_id
        /\ p.root = a.merkle_root

\* ON CONFLICT DO NOTHING loses nothing: when a step returns, the table has for
\* every provider it used a row with its range and its root, be it its own or
\* that of an earlier or concurrent step.
ReturnedRootStored ==
    \A h \in Handlers : job[h].pc = "done" =>
        \A d \in job[h].done : \E a \in audit_anchors :
            /\ a.provider = KindOf[d.instance]
            /\ a.range_start = job[h].start /\ a.range_end = job[h].end
            /\ a.merkle_root = job[h].root

\* What the services hold, whichever instance it came through.
Held ==
    {[provider |-> KindOf[p.instance], external_id |-> p.external_id, root |-> p.root] :
        p \in published}

\* The rows without the order of their insertion and what polls change.
Recorded ==
    {[provider |-> a.provider, range_start |-> a.range_start, range_end |-> a.range_end,
      merkle_root |-> a.merkle_root, external_id |-> a.external_id] : a \in audit_anchors}

Abstract == INSTANCE AuditAnchors WITH
    InsideLog <- ~PastEnd,
    length <- last_sequence, held <- Held, anchors <- Recorded

\* However handlers, appends, providers and failures interleave, what an auditor
\* sees is a behaviour of AuditAnchors: AnchorHandler never changes or removes a
\* row, records each range once per provider, only after the provider's service
\* holds the root and, if callers name no end past the log, only about entries that
\* are committed.
ImplementsAnchors == Abstract!Spec

\* The answer of step.audit.proof proves the entry: the path leads from the
\* entry's hash to the anchored root ("merkle_root is the hex-encoded Merkle
\* root of the tree that contains this entry", audit.proto), whatever was
\* appended or anchored between its three queries.
ProofAnswers ==
    \A r \in Readers : reader[r].pc = "proved" =>
        VerifyInclusion(reader[r].seq, reader[r].path, reader[r].root)
=============================================================================
