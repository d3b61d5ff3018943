# Verification of workflow-plugin-audit-chain

TLA+ specifications of the audit-chain plugin, model-checked with TLC on small
instances, with TLAPS proofs, for every instance, of all safety properties that
the runs check.
Paths such as `chain/append.go` are relative to the repository.

## The system

The plugin keeps hash-chained audit ledgers in Postgres and anchors Merkle roots
of ranges of entries with external services.

| Part | State | Operations |
|---|---|---|
| Append path, `chain/append.go` | tables `audit_log` (rows) and `audit_ledgers` (one cursor per ledger: `last_sequence`, `last_entry_hash`) | `Append` (own transaction), `AppendTx` (caller's transaction) |
| Hashes, `chain/canonical.go`, `chain/hash.go` | none | `Canonicalize`, `PayloadHash`, `EntryHash` |
| Merkle tree, `chain/merkle.go` | none | `MerkleRoot`, `InclusionProof`, `VerifyInclusion` |
| `step.audit.append` | none | checks its input, looks the ledger up, calls `Append` |
| `step.audit.verify`, `step.audit.merkle_root` | none | one SELECT over a range, then a computation |
| `step.audit.anchor` | table `audit_anchors` | resolve range, read hashes, for each provider submit and INSERT |
| `step.audit.proof` | none | entry, covering anchors, hashes of the first anchor's range: three SELECTs |
| `step.audit.poll_anchor_confirmation` | `audit_anchors.confirmation` | SELECT, provider's `Verify`, UPDATE |
| `step.audit.public_receipt` | none | the queries of proof, redaction of payload fields, a JSON document |
| Providers, `providers/*` | the external service's | `Anchor`, `Verify` |
| Modules, `modules/*` | registries of ledgers, databases and providers, behind mutexes | `Init`, `Stop`, lookups |
| Plugin wiring, `internal/*`, `cmd/*` | none | type names to factories |

Steps run concurrently, in one process or in several, and share nothing but the
database, the registries and the external services. What is hard about them:

* **Concurrency.** Appends are serialised by one row lock, held from SELECT to
  commit. Everything else (anchor, poll, proof) is a sequence of statements with
  no transaction around them. Modules are stopped and replaced while steps hold what
  they looked up, and git anchors meet on one branch.
* **Failure.** Statements fail, connections break, a COMMIT takes effect without
  an answer, a process dies between submitting a root and recording it. An error
  in `AppendTx` may leave the caller's transaction usable (an error found by the
  program) or aborted (an error of the server).
* **Partial answers.** An OpenTimestamps anchor has several calendars, some of
  them unreachable, for a while or for ever.
* **Requests in two places.** Two steps take each field from their config block or else
  from their input.
* **Edges.** Odd levels of a Merkle tree, ranges that begin inside the chain or end
  past it, empty ranges.

`PROJECT.json` lists every hazard with its line and the properties aimed at it,
every component with what is modelled of it, and for every definition the source
lines it stands for.

## The modules

```
ChainHash ─┬─ AppendChain
           │     └─ INSTANCE AuditLedger
           └───────────────────── Inspection ── MCInspection
                                     │
Merkle ────┬─────────────────────────┘
           ├─ MerkleLists ────────────────┐
           │     Canonical ─ JSONPayloads ┴ MCPrimitives
           ├─ AuditAnchors
           └─ Anchoring ── MCAnchoring
                 │  └─ INSTANCE AuditAnchors
Providers ─┬─────┘
           └─ Confirmation ── MCConfirmation

Receipt ── MCReceipt     Registry ── MCRegistry     GitAnchor ── MCGitAnchor
```

An arrow to the right is EXTENDS. The proofs about a module *M* are in *M*`Proofs`, which
extends it; `PrimitiveProofs` is about `MerkleLists` and `JSONPayloads`, and
`AnchoringProofs` and `InspectionProofs` use its theorems through INSTANCE.

An operator whose comment begins with "Mistake:" is not part of a specification.
It is what the definition after it would be with a plausible bug, and
`PROJECT.json` pairs it with the property that notices.

**ChainHash.** SHA-256 is taken to be injective, so a hash is its own preimage:
an entry hash is the sequence of everything hashed into it, oldest entry first.
A payload is a canonical form and a spelling: storable JSON, JSON that the decoder
accepts and Postgres refuses (trailing bytes: `json.Decoder` reads one value
and stops), or malformed.

**AppendChain.** One client is one connection with at most one transaction.

| Variable | In the code |
|---|---|
| `audit_log`, `provisioned`, `cursor` | the committed tables |
| `lock` | holder of the row lock of each `audit_ledgers` row |
| `pc`, `mode`, `req`, `seen` | where the call stands, who opened the transaction, arguments, `lastSeq` and `lastHash` |
| `rows`, `wrote`, `pend` | the transaction's uncommitted INSERTs and UPDATEs |
| `outcome`, `told` | what the call returned; all rows ever reported as appended |

Each statement of `AppendTx` is an action (`SetLockTimeout`, `LockLedger`,
`InsertRow`, `UpdateCursor`), and so is each way out (`UnknownLedger`, `LockTimeout`,
`HashFails`, `InsertRejected`). `Commit`, `CommitUnanswered`, `Rollback`,
`ConnectionLost` and `BackendExits` end a transaction. Postgres is external and
modelled from how the code uses it: READ COMMITTED, row locks held to the end of
the transaction, an aborted transaction that can only roll back, and a lost
connection whose locks the server keeps until it notices.

**AuditLedger** is the promise: each ledger a sequence that only grows at its end,
in atomic steps, and a caller told of an entry only in the step that adds it, with a
hash that stands for the whole chain up to it. `AppendChain!ImplementsLedger` maps
`chain` to the committed rows in sequence order and `told` to the chains that the
reported hashes stand for.

**Merkle** has the tree as operators, levels as in `buildLevels` and proofs as
sequences of sibling and side. **MerkleLists** makes a specification of it: a list grows a
leaf at a time, and the properties compare its tree with a definition from the top down
(`Subtrees`) and enumerate lists, paths and leaves.

**Canonical** is `Canonicalize` on documents as they are written: members in an order
and possibly repeated, numbers with a spelling, nested up to the limit of the decoder
(`MaxDepth`). The decoder keeps the last of repeated members and the text of a number, the
encoder sorts keys; names are numbers, in the order they sort. Each function on
documents is a recursive function of the depth: `CanonicalizeLevel(k, below)` is
`Canonicalize` on documents of depth `k`, given what it does one level down. `Stored` is
what a JSONB column gives back. **JSONPayloads** reads a payload and compares it with all
others, and `MCPrimitives` puts it next to the lists.

**Providers** has what the handlers see of a provider: what `Anchor` returns, and
whether the service holds the root, by what each calendar, the git remote or Rekor
answers; and what each `Verify` makes of the service's replies.

**GitAnchor** is `Anchor` of the git provider step by step, for several calls on one
branch: clone or start afresh, write and commit the file, push. A commit is the
history up to it, as its hash covers its parent; equal histories are the same commit,
so two calls for one root in one second make the same one. The remote updates the
branch atomically and refuses what is not a fast-forward. The provider does not retry;
the model's calls are repeated by the pipeline.

**Confirmation** is the poll step with the merge of its request, its SELECT, its call of
`Verify` and its UPDATE, the last three as separate actions, for several pollers. A
caller knows the columns of a row and gives each in config or in input; when the config
is complete, the input may hold another row.

**Anchoring** is the anchor step and the proof step, for several of each, with
appends (one action, as `AppendChain` guarantees: rows and cursor together) and
with providers that are registered and unregistered meanwhile. The step's list of
providers is a set taken in any order: the registry's is a Go map. A submission
ends as one of the provider's `AnchorOutcomes`, so one that fails may still have reached
the service. The constant `PastEnd` says whether
callers name an `end_sequence` that the log has not reached yet, which the code does
not refuse; only *proof_past_end* lets them.

**AuditAnchors** is the promise of the anchor step to an auditor of one ledger, without handlers,
queries or failures: the log, the receipts that services hold and the recorded anchors only
grow, one step at a time; an anchor is recorded once per provider and range, never before
the service holds its root, and (if callers name no end past the log) about all
entries of its range. `Anchoring!ImplementsAnchors` maps `held` to what the services hold and
`anchors` to the rows without their order and their confirmation. An INSERT that ON CONFLICT skips is a stutter,
and so are queries, failures and submissions that reach nobody.

**Inspection** is verify and merkle_root on a log that is appended to and damaged: a
column of a row changed, a row lost. Each step is a single SELECT, so its answer is
an operator on the committed rows. Sequence numbers are not damaged, as the unique
index interferes with that and later appends.

**Receipt** is public_receipt: the request merged from config and input, the lookup of
the entry, and `ApplyRedactions`, one action per iteration. A value in the payload may
itself read like a pseudonym. Its anchors and its proof come from the same functions as
in step.audit.proof, which `Anchoring` models.

**Registry** is the process: the host creates modules from configurations
(`CreateTypedModule` and the factories), calls Init and Stop, also again after Stop,
and creates steps (`CreateTypedStep`) that look ledgers, databases and providers up and
then use what they found. Each critical section of a registry's mutex is an action; Init
and Stop of a ledger module are three each. A pool is the module and a count, so a module
that opened two would show. The variable `careful`, constant in a behaviour, says
whether the host ever has two modules of one name up at a time.

## What the runs show

`tlc -config <cfg> <module>`; every run takes less than three minutes.

| Run | Module, configuration | Result |
|---|---|---|
| append | AppendChain, AppendChain.cfg | `TypeOK`, `ChainIntact`, `NoCollision`, `TransactionsIsolated`, `ToldIsCommitted` and `AppendOnly` hold, and the append path implements AuditLedger (`ImplementsLedger`); every call returns (`CallsReturn`) |
| primitives | MCPrimitives, Primitives.cfg | roots agree with the reference, proofs verify for their leaf only, only members verify, a root determines its list; canonical forms stand for values and survive JSONB, numbers without an exponent provided |
| confirmation | MCConfirmation, Confirmation.cfg | levels never go down and never run ahead of the row's own calendars, however the request is given, and a confirmation arrives although a calendar is dead for ever |
| confirmation_named | MCConfirmation, ConfirmationNamed.cfg | **violated**: `ConfirmationArrives` |
| anchoring | MCAnchoring, Anchoring.cfg | rows are about the entries of their range, about what was published, and skipped INSERTs lose nothing; the anchor steps implement AuditAnchors (`ImplementsAnchors`) |
| proof | MCAnchoring, Proof.cfg | the path of a proof leads to its root |
| proof_past_end | MCAnchoring, ProofPastEnd.cfg | **violated**: `ProofAnswers` |
| inspection | MCInspection, Inspection.cfg | no false alarm; a single fault is reported where it is, by exactly the ranges that can know of it; a log that verifies and still has its anchored root is the log that was appended |
| receipt | MCReceipt, Receipt.cfg | the receipt is of the entry asked for, listed fields are hidden and others untouched, wherever they are listed; pseudonyms are numbered by original value if no field is listed twice |
| receipt_duplicates | MCReceipt, ReceiptDuplicates.cfg | **violated**: `DuplicatesSharePseudonym` |
| registry | MCRegistry, Registry.cfg | lookups never return a closed pool and no pool is lost, whatever the host does; with a careful host, modules that are up are found in every registry and two steps never work on two databases of one ledger |
| git | MCGitAnchor, GitAnchor.cfg | the branch only grows, every returned anchor is on it, and calls that are repeated all succeed in the end |

The three violated properties state what a comment or a document of the repository
says:

* *confirmation_named.* The poll step looks its provider up by instance name
  (`steps/poll_anchor_confirmation.go:43`), while the name stored with a row is the
  implementation's (`steps/anchor.go:112`), and `proto/audit.proto:188` and `:214` tell
  callers to pass the stored one. With an instance called `my-ots`, as in the repository's
  README, every such poll is refused and the row stays pending for ever. The run
  *confirmation* gives instances their implementation's name. From the same mismatch, two
  instances of one implementation share one row per range: the anchor of the second is
  published and returned, and its INSERT is skipped.
* *proof_past_end.* An explicit `end_sequence` past the log is stored as `range_end`
  (`steps/anchor.go:37`). When the log has grown into the range, proofs for its
  entries do not lead to the stored root.
* *receipt_duplicates.* A field named twice is redacted twice, the second time as
  if its pseudonym were an original value (`steps/public_receipt.go:240`).

`FaultLocated` is exact in both directions, so it also says what `step.audit.verify`
does not report: a change of the payload column, which it does not read, and the loss
of the first or the last row of the ledger, as it neither requires the range to begin
at entry 1 nor compares its end with the cursor. The repository's README promises more
("Any post-hoc tampering breaks the chain and is detectable").

Noticed while modelling, without a run of their own:

* The `AnchorProvider` interface says that `Anchor` always returns pending
  (`providers/provider.go:63`), while git and Sigstore return finalized.
* `Canonicalize` promises that "two JSON documents with the same logical value always
  produce identical output" (`chain/canonical.go:18`), and keeps the spelling of numbers,
  so `5` and `5e0` hash differently; `CanonicalIsValue` states the promise for numbers that
  are spelled alike, and `StoredKeepsHash` needs plain ones, as JSONB does not keep an
  exponent.
* The forward-only guard of the poll step compares with a level read before the provider
  was asked, and its UPDATE does not look again (`steps/poll_anchor_confirmation.go:107`).
  `ForwardOnly` holds because no provider in the repository reports two different
  advanced levels; one that did could have `finalized` taken back by a concurrent poll.

### Bounds

* *append*: two clients, two ledgers, three `AppendTx` calls. Two clients are
  enough for every race on one row lock, two ledgers for a transaction that spans
  ledgers and for opposite lock orders, three calls for an entry that is neither
  first nor last. The proofs need none of these bounds.
* *primitives*: five leaves give levels of odd length at two heights (5 leaves, then 3
  nodes), and five values lists of five distinct leaves; `OnlyMembersVerify`
  enumerates all paths and stops at three leaves. Documents have up to two members or
  items, with one list inside another, so keys in both orders, repeated and nested;
  the proofs are about documents of any size, nested to any `MaxDepth`.
* *confirmation*: two pollers suffice for a stale read; two rows of one provider for a
  request that mixes them, and two calendars, one of them dead, for every mix of replies.
* *anchoring*: two handlers, two entries, three submissions: a range resolved before
  and queried after an append, a retry, and two providers of which one fails, with two calendars behind one of them. *proof*
  has four entries, so a range that begins and ends inside the log.
* *inspection*: three entries, so an entry with two neighbours, and three changes,
  enough to change the last entry of any log and rehash it so that it verifies.
* *receipt*: three fields, lists of up to three names, two values and one that
  reads like a pseudonym, two entries.
* *registry*: two modules of one name and two pools each, for a restart and a
  replacement; two steps, one that looks up before and one after.
* *git*: three calls for a push overtaken twice, two of them for one root; one fault, and
  days of three seconds for a change of the file's path.

Runs of finite computations (primitives, inspection, receipt) end in states without a
successor: their bound is reached, or the function has returned. So does *git*, when
every call has returned its anchor, and *confirmation_named*, where no poll is possible.
Only they switch deadlock checking off.

Symmetry is used only in runs without liveness properties, over sets no definition
tells apart.

### Fairness

*append* assumes that a call of `Append` or `AppendTx` in progress takes its
next step when it can: the code has no wait of its own, and `lock_timeout` bounds
the wait for the lock, which is what makes `LockTimeout` a step that can be taken
while another transaction holds it. Nothing is assumed of a caller between its calls,
of a connection, or of a server with a lost one, so a lock may be held for ever.

*confirmation* assumes for `ConfirmationArrives` that a poll that was begun goes on,
that the pipeline polls every row again and again, and that of these polls infinitely
many get answers from the calendars that are alive and reach their UPDATE. Nothing is
assumed of a dead calendar. The schedule is not part of this repository (the steps are
driven by a cron pipeline outside it), so this is an assumption about the deployment.

*git* assumes that time passes, that a call that was begun goes on, and that the pipeline
runs a failed step again; faults are bounded. Nothing is assumed of the order of pushes:
one is refused only because another took effect.

## What is proved

Each theorem is about every value of the constants of its module (any number of ledgers,
clients, rows, handlers, calendars, lists of any length), where a run has a handful.
`tlapm <module>.tla` checks a module's proofs.

| Module | Theorem | States |
|---|---|---|
| AppendChainProofs | `TypeCorrect` | `Spec => []TypeOK` |
| | `ChainCorrect` | `Spec => []ChainIntact` |
| | `IsolationCorrect` | `Spec => []TransactionsIsolated` |
| | `CollisionFree` | `Spec => []NoCollision` |
| | `ToldCorrect` | `Spec => []ToldIsCommitted` |
| | `AppendOnlyCorrect` | `Spec => AppendOnly` |
| | `LedgerImplemented` | `Spec => ImplementsLedger` |
| PrimitiveProofs | `InclusionCorrect`, `OnlyMembersAccepted`, `RootDetermines` | the three facts below, of the operators |
| | `RootComputed` | `MerkleRoot(list) = Reference(list)`, for every list that is not empty |
| | `ProofsCorrect` | `Spec => []ProofsVerify` |
| | `MembersCorrect` | `Spec => []OnlyMembersVerify` |
| | `BindingCorrect` | `Spec => []RootBinds` |
| | `ReferenceCorrect` | `Spec => []RootIsReference` |
| | `CanonicalDeterminesValue`, `ValueDeterminesCanonical`, `StoredCanonical` | of documents of any depth: equal canonical forms have equal values; equal values, spelled plainly, have equal canonical forms; what JSONB gives back has the canonical form of what was written plainly |
| | `CanonicalCorrect` | `SpecPayload => []CanonicalIsValue` |
| | `StoredCorrect` | `SpecPayload => []StoredKeepsHash` |
| InspectionProofs | `RootPinsCorrect` | `Spec => []RootPinsEntries` |
| | `FaultCorrect` | `Spec => []FaultLocated` |
| | `AlarmCorrect` | `Spec => []NoFalseAlarm` |
| AnchoringProofs | `PublishedCorrect` | `Spec => []RowIsPublished` |
| | `RootCorrect` | `Spec => []RootCoversRange`, if `~PastEnd` |
| | `StoredCorrect` | `Spec => []ReturnedRootStored`, if `~PastEnd` |
| | `AnswersCorrect` | `Spec => []ProofAnswers`, if `~PastEnd` |
| | `AnchorsImplemented` | `Spec => ImplementsAnchors` |
| ConfirmationProofs | `TypeCorrect` | `Spec => []TypeOK` |
| | `ForwardCorrect` | `Spec => ForwardOnly` |
| | `NotAheadCorrect` | `Spec => []NotAheadOfCalendars`, if an instance called `opentimestamps` is one |
| ReceiptProofs | `HiddenCorrect` | `Spec => []FieldsHidden` |
| | `NumbersCorrect` | `Spec => []NumberedByOriginal` |
| RegistryProofs | `TypeCorrect` | `Spec => []TypeOK` |
| | `LookupsCorrect` | `Spec => []LookupsAreLive` |
| | `NoLeaks` | `Spec => []NoPoolLeaks` |
| | `ReadyCorrect` | `Spec => []ReadyIsServed` |
| | `OneDatabaseCorrect` | `Spec => []OneDatabaseAtATime` |
| GitAnchorProofs | `ReturnedCorrect` | `Spec => []ReturnedIsPublished` |
| | `HistoryCorrect` | `Spec => HistoryKept` |

Assumptions on constants are the named ones of the modules: bounds are natural numbers,
"none" values are not members of the sets they stand beside, every row and instance has a
provider kind, ledger modules are not provider modules. SHA-256 being injective is in the
definitions of `EntryHash`, `LeafNode` and `CombineNodes`; `PrimitiveProofs`,
`InspectionProofs` and `LedgerImplemented` depend on it, the other theorems only need a
function. Two hypotheses are about deployments:

* `~PastEnd`: no caller names an `end_sequence` that the log has not reached. Without it the
  three properties are false, as the run *proof_past_end* shows of one. `RowIsPublished` needs
  nothing, nor does `AnchorsImplemented`, as AuditAnchors itself promises the entries of a
  range only with `InsideLog`, which is `~PastEnd`.
* `NotAheadCorrect`: the poll step finds its provider by instance name, so an instance called
  `opentimestamps` that is of another kind would raise OpenTimestamps rows by what that
  other service says.

### The arguments

**AppendChain.** `ChainIntact` is not inductive: a commit makes an open transaction's rows
and cursor the committed ones, so something must be known about them before. The
invariant adds `TransactionsIsolated`, three facts about open transactions:

* `LockDiscipline`: a transaction has written only to ledgers whose row it has locked;
* `ReadUnderLock`: between SELECT and UPDATE the lock is held and the cursor read is
  still the current one;
* `PrivateChain`: on a ledger it has locked, the committed rows and the transaction's
  own form a chain, whose cursor is the one it has written or, after the INSERT, is
  about to write.

`LockStep`, `InsertStep`, `UpdateStep`, `DiscardStep` and `CommitStep` take the invariant
through the five kinds of steps that touch the tables or locks, `QuietStep` through all
others. The two facts about chains behind them are `ChainExtend` (the entry derived
from a chain's cursor extends it) and `ChainLocal` (the chain of a ledger depends on
that ledger's rows only, so a commit leaves everyone else's private chain alone).

`CollisionFree` follows from the invariant without another induction: the entry to
insert is one past the private chain, which contains every row anybody could have
inserted. The unique index on `(ledger, sequence)` is therefore never what keeps
the chain whole; it is a safety net the code does not lean on.

`LedgerImplemented` is the refinement. A chain has as many rows as its cursor says
(`RowsCount`), so its abstract counterpart is defined and its n-th entry is what row n
records (`ChainAt`); more rows make a longer chain (`ChainGrows`); and the entry hash of row
n stands for the first n entries (`HashCommits`, by induction along the links). What a
commit tells its caller is exactly what is new (`CommitTells`). That needs one more
invariant, `Uncommitted`: a row the transaction holds is not in the log already. `IndInv`
does not say so, as such a row would do the chain no harm.

**Merkle.** The levels of a tree, the positions of a proof and its walk are recursive
functions. `SetInduction` (a set of numbers with 0 and the successor of each member has
every number) makes induction available as a statement about sets. `InclusionCorrect`:
by induction on the level, the walk along a generated path is at the ancestor of the
leaf. `OnlyMembersAccepted`: downwards from the root, a walk that arrives at a node of the
tree came from one of its children, so that it began at a leaf; the domain bytes tell
leaves and inner nodes apart, which is why no other path, of any length, does.
`RootDetermines`: equal roots force equal levels down to the shorter tree's leaves; there
repetition of odd nodes could make two lists look alike, which distinct leaves exclude.

`RootComputed` brings two recursions together that run in opposite directions: the code builds
levels from the leaves up and halves them, the reference splits a range of leaves from
the top down by powers of two. What they have in common is shown by induction on the
height: level *h* has exactly as many nodes as there are subtrees of height *h* with a leaf
(`LevelsCover`), and its node *n* is the subtree whose first leaf is *(n - 1)w + 1*, where *w* is
the width at that height. Both end at the height of the smallest perfect tree with room
for the list (`HeightIs`).

**Canonical.** What holds of scalars, and of documents of depth *k* if it does of depth *k - 1*,
holds at every depth (`NestingInduction`). Each induction step is about three kinds of
documents, and for objects about two lists of members with the same map. Three facts carry it:
the names of an object have one ascending order (`AscendingExists`: the number of smaller
names gives each its place), a map can be read off the list of its members
(`ListedInjective`), and the last member of a name exists wherever the name occurs
(`KeysAre`). `StoredCanonical` adds that what JSONB gives back is again a document, each name
once (`StoredMembers`), so its members in any order stand for the same map.

**Inspection.** The invariant relates the log to the rows as written: those are a complete
linked chain (`IsChain`); the log has at most one row of each number (`IsLog`); it is equal
to them before the first fault and differs by one row or one column after it (`OneFault`);
a root that was taken is the root of some of them in order (`IsRootOf`). `InRangeLists`
shows that what the query is said to return exists: a log can be sorted, as the number of
smaller rows gives each row its place. `RootPins` then reduces `RootPinsEntries` to
`RootDetermines`: the rows of a range that verifies fit their hashes, so these are distinct
(each contains its sequence number), so equal roots mean equal hashes, and a hash
determines the columns.

**Anchoring.** `JobOK`, `RowOK` and `ReaderOK` say what a handler, a row and a reader may
rely on although every statement sees another state of the database: the log only grows, so
a range resolved inside it keeps its hashes; rows are never removed; a submission that
succeeded stays published.

For `AnchorsImplemented`, steps are of three kinds. Most leave everything an auditor sees as
it was (`Seen`, `QuietUnseen`). A submission, of whatever outcome, adds at most one receipt
(`SubmissionHolds`). An INSERT adds a row or is skipped (`InsertRecords`): the handler holds hashes
that it read several steps ago, so the row covers its range because of `JobOK`, and its
receipt was there before the row because the submission came first. `JobOK` had to
say that the range of a handler beyond its query is not empty.

**Confirmation.** `LevelsOfRow` is what makes an UPDATE that does not look again harmless: of
each row's levels there is only one it can be raised to, so a poll that read an old level
writes nothing that another poll has overtaken. `PollsOwnRow` is the merge of config and
input: the proof asked about is the row's own. `ConfirmationsProven` carries the answer of a
calendar from `Verify` to the UPDATE.

**Receipt.** Over the loop of `ApplyRedactions`: the fields before `next` have been replaced by
what `pseudonymMap` says, the others are as they were (`Replaced`); and, as long as no
field is listed twice, the values with a number are the original values of the replaced
fields, numbered without gaps (`Numbered`).

**Registry.** Where a module stands in Init or Stop says where its pool is and which
registry has it (`PoolOwned`, `EntriesOwned`), whatever other modules of the name do;
`OneAtATime` adds what a careful host guarantees.

**GitAnchor.** A commit about to be pushed contains its call's own file (`PushesOwnFile`), and
the branch only moves to descendants, so what was returned stays on it.

### Only model-checked

* `CallsReturn`, `ConfirmationArrives` and `AllGetThrough`: liveness under fairness is beyond
  this prover.
* The three runs that expect a violation.

## Not modelled

* HTTP requests, signatures, the encoding of proof data and of Rekor entries: a reply
  is what the code makes of it.
* Strings: parsing of `anchor_id`, the commit template, the receipt's JSON layout and
  hash, timestamps, wording of errors.
* Requests whose fields belong to different rows because the caller mixed them up: the
  poll step has no check, and advances one row on the proof of another. Callers in the
  model know what they ask for; what is checked is that the merge keeps it apart from what
  is left in the other place.
* The contract descriptors of `internal/contracts.go`, the constructors of the legacy
  interface, which always refuse, and `cmd/`: no state. `trigger.audit.entry_appended`
  and the Ethereum and QLDB providers are declared in the plugin and not implemented.
* `proto/`, `gen/`: message definitions and generated code.

## Plan

Done, in this order: AppendChain with AuditLedger and its proofs; Merkle; Providers and
Confirmation; Anchoring; Inspection; Registry; GitAnchor; Receipt; Canonical; then the
proofs about Registry, GitAnchor, Confirmation, Merkle, Anchoring, Receipt, the refinement of
AuditLedger, and Inspection.

Then the reference of the Merkle tree without powers of two, and `Canonical` without
RECURSIVE operators, so that both could be proved about; and AuditAnchors, its run and its proof.

What is left:

1. the confirmation of anchors in AuditAnchors, which would make the poll step another
   implementation of it;
2. a plain text of `anchor_id` in Confirmation, for requests that mix the fields of rows;
3. proofs of the three liveness properties, once a prover can do them.
