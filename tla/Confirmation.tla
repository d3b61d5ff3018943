---------------------------- MODULE Confirmation ----------------------------
(***************************************************************************)
(* step.audit.poll_anchor_confirmation                                     *)
(* (src/steps/poll_anchor_confirmation.go) run by several pollers on the   *)
(* same rows of audit_anchors: read the row's confirmation, ask the        *)
(* provider, and write the new level if it is higher than the one read.    *)
(* The three are separate, so the row may move in between.  The row, the   *)
(* provider and the proof to ask about are separate inputs, each taken     *)
(* from the step's config block or else from its input.                    *)
(***************************************************************************)
EXTENDS Providers, FiniteSets

CONSTANTS
    Anchors,        \* ids of audit_anchors rows
    KindOf,         \* KindOf[a]: the provider column of row a, Name() of its implementation
    Registered,     \* the implementation behind each registered instance name
    DeadCalendars,  \* calendar servers that never answer again
    Empty,          \* a request field that is not set
    Pollers         \* concurrent poll steps

ASSUME KindAssumption == KindOf \in [Anchors -> Kinds]
ASSUME RegisteredAssumption == \A i \in DOMAIN Registered : Registered[i] \in Kinds
ASSUME CalendarAssumption == DeadCalendars \subseteq Calendars
ASSUME EmptyAssumption == Empty \notin Anchors \cup Kinds \cup DOMAIN Registered

VARIABLES
    confirmation,   \* audit_anchors.confirmation of each row
    receipts,       \* calendars that accepted the row's root (its proof data)
    upgraded,       \* calendars that by now hold a Bitcoin proof for it
    poll            \* each poller: where it is, what it asks for, the level read, Verify

vars == <<confirmation, receipts, upgraded, poll>>

Idle == [pc |-> "idle"]

Of(kind) == {a \in Anchors : KindOf[a] = kind}

\* Rows as AnchorHandler inserted them, with the proof data of an Anchor that
\* succeeded.
Init ==
    /\ confirmation = [a \in Anchors |-> LevelAfterAnchor(KindOf[a])]
    /\ receipts \in [Anchors -> SUBSET Calendars]
    /\ \A a \in Anchors : \E o \in AnchorOutcomes(KindOf[a]) : o.ok /\ o.receipts = receipts[a]
    /\ upgraded = [a \in Anchors |-> {}]
    /\ poll = [p \in Pollers |-> Idle]

-----------------------------------------------------------------------------
(* The external services.                                                  *)

CalendarUpgrades(a, c) ==
    /\ c \in receipts[a] \ upgraded[a]
    /\ upgraded' = [upgraded EXCEPT ![a] = @ \cup {c}]
    /\ UNCHANGED <<confirmation, receipts, poll>>

\* What calendar c can answer about row a: a dead one nothing, another one its
\* proof only if it has one, and any of them can be late or fail.
CanReply(a, c) ==
    IF c \in DeadCalendars THEN {"transient"}
    ELSE CalendarReplies \ (IF c \in upgraded[a] THEN {} ELSE {"upgraded"})

\* The results that Verify of an implementation can give for the proof data of
\* row a and level prev.
Answers(kind, a, prev) ==
    CASE kind = "opentimestamps" ->
           {VerifyOpenTimestamps(prev, r) :
              r \in {f \in [receipts[a] -> CalendarReplies] :
                       \A c \in receipts[a] : f[c] \in CanReply(a, c)}}
      [] kind = "git"      -> {VerifyGit(prev, r) : r \in GitReplies}
      [] kind = "sigstore" -> {VerifySigstore(prev, r) : r \in RekorReplies}

\* The result when every calendar that is alive tells what it has.
BestAnswer(a, prev) ==
    VerifyOpenTimestamps(prev,
        [c \in receipts[a] |-> IF c \in DeadCalendars THEN "transient"
                               ELSE IF c \in upgraded[a] THEN "upgraded" ELSE "notyet"])

-----------------------------------------------------------------------------
(* The request.                                                            *)

Fields == {"ledger", "anchor_id", "provider", "proof_data"}

\* What a caller knows of row a: its columns.  The proof data stands for itself
\* as a.  (No implementation reads external_id.)
RequestFor(a) ==
    [f \in Fields |-> CASE f = "ledger"     -> "ledger"
                         [] f = "anchor_id"  -> a
                         [] f = "provider"   -> KindOf[a]
                         [] f = "proof_data" -> a]

\* Only the fields F of a request are set.
Only(F, q) == [f \in Fields |-> IF f \in F THEN q[f] ELSE Empty]

\* Mistake: the anchor id of the input goes first.
MergeInputIdFirst(cfg, in) ==
    [f \in Fields |-> IF cfg[f] # Empty /\ (f # "anchor_id" \/ in[f] = Empty) THEN cfg[f] ELSE in[f]]

\* mergePollAnchorConfirmation: field by field, config goes first if it is set.
MergePollAnchorConfirmation(cfg, in) ==
    [f \in Fields |-> IF cfg[f] # Empty THEN cfg[f] ELSE in[f]]

-----------------------------------------------------------------------------
(* PollAnchorConfirmationHandler, statement by statement.                  *)

\* The ledger and the provider are looked up by their names in the request, and
\* SELECT confirmation.  A name that is not registered, or an id that is none,
\* is an error and changes nothing.
ReadAnchor(p, cfg, in) ==
    /\ poll[p] = Idle
    /\ LET q == MergePollAnchorConfirmation(cfg, in) IN
         /\ q["ledger"] # Empty
         /\ q["provider"] \in DOMAIN Registered
         /\ q["anchor_id"] \in Anchors
         /\ poll' = [poll EXCEPT ![p] =
              [pc |-> "read", anchor |-> q["anchor_id"], kind |-> Registered[q["provider"]],
               proof |-> q["proof_data"], prev |-> confirmation[q["anchor_id"]]]]
    /\ UNCHANGED <<confirmation, receipts, upgraded>>

\* A caller polls row a.  What it does not put into config it puts into the
\* input; a complete config may find there what an earlier step left about any
\* other row b.
PollRow(p, a) ==
    \E F \in SUBSET Fields, b \in Anchors :
        /\ b = a \/ F = Fields
        /\ ReadAnchor(p, Only(F, RequestFor(a)), RequestFor(b))

\* p.Verify: a hard error ends the step, anything else is looked at below.
VerifyGives(p, v) ==
    /\ poll[p].pc = "read"
    /\ poll' = [poll EXCEPT ![p] =
                  IF v.ok THEN [pc |-> "verified", anchor |-> poll[p].anchor,
                                prev |-> poll[p].prev, v |-> v]
                          ELSE Idle]
    /\ UNCHANGED <<confirmation, receipts, upgraded>>

Verify(p) ==
    /\ poll[p].pc = "read"
    /\ \E v \in Answers(poll[p].kind, poll[p].proof, poll[p].prev) : VerifyGives(p, v)

\* Mistake: no ordering guard.
TransitionedAlways(v, prev) == TRUE

\* The forward-only guard, after the early return for a swallowed error.
Transitioned(v, prev) == ~v.swallowed /\ Rank(v.level) > Rank(prev)

\* UPDATE .. WHERE id, whatever the row holds by now.
WriteLevel(p) ==
    /\ poll[p].pc = "verified"
    /\ Transitioned(poll[p].v, poll[p].prev)
    /\ confirmation' = [confirmation EXCEPT ![poll[p].anchor] = poll[p].v.level]
    /\ poll' = [poll EXCEPT ![p] = Idle]
    /\ UNCHANGED <<receipts, upgraded>>

\* Swallowed, or nothing new: the step returns and the row stays.
LeaveLevel(p) ==
    /\ poll[p].pc = "verified"
    /\ ~Transitioned(poll[p].v, poll[p].prev)
    /\ poll' = [poll EXCEPT ![p] = Idle]
    /\ UNCHANGED <<confirmation, receipts, upgraded>>

\* The step ends early: a failed statement, a cancelled context, a crash.
PollFails(p) ==
    /\ poll[p] # Idle
    /\ poll' = [poll EXCEPT ![p] = Idle]
    /\ UNCHANGED <<confirmation, receipts, upgraded>>

-----------------------------------------------------------------------------
Next ==
    \/ \E a \in Anchors, c \in Calendars : CalendarUpgrades(a, c)
    \/ \E p \in Pollers :
         \/ \E a \in Anchors : PollRow(p, a)
         \/ Verify(p) \/ WriteLevel(p) \/ LeaveLevel(p) \/ PollFails(p)

Spec == Init /\ [][Next]_vars

\* A poll of row a by p that no failure of its own ends early: every calendar
\* that is alive answers.
GoodVerify(p, a) ==
    /\ poll[p].pc = "read"
    /\ poll[p].anchor = a
    /\ VerifyGives(p, BestAnswer(a, poll[p].prev))

\* Assumed for liveness: a poll that was begun goes on, the pipeline polls every
\* row again and again, and of the polls of a row infinitely many meet live
\* calendars that answer and then get to their UPDATE.  Nothing is assumed of a
\* dead calendar.
Fairness ==
    /\ \A p \in Pollers : WF_vars(Verify(p) \/ WriteLevel(p) \/ LeaveLevel(p))
    /\ \A a \in Of("opentimestamps") :
         /\ SF_vars(\E p \in Pollers : ReadAnchor(p, RequestFor(a), RequestFor(a)))
         /\ SF_vars(\E p \in Pollers : GoodVerify(p, a))
         /\ SF_vars(\E p \in Pollers : WriteLevel(p) /\ poll[p].anchor = a)

FairSpec == Spec /\ Fairness

-----------------------------------------------------------------------------
(* Properties.                                                             *)

\* Types of the rows and of every poll in progress.
TypeOK ==
    /\ confirmation \in [Anchors -> Levels]
    /\ receipts \in [Anchors -> SUBSET Calendars]
    /\ upgraded \in [Anchors -> SUBSET Calendars]
    /\ poll \in [Pollers ->
         {Idle} \cup [pc : {"read"}, anchor : Anchors, kind : Kinds, proof : Anchors,
                      prev : Levels]
                \cup [pc : {"verified"}, anchor : Anchors, prev : Levels,
                      v : Verifications]]

\* A row's confirmation never goes down, with any number of polls of the same row
\* under way, each writing by the level it read before it asked the provider ("A
\* provider returning a lower confirmation level must not overwrite a more
\* advanced state in the DB", poll_anchor_confirmation.go).
ForwardOnly ==
    [][\A a \in Anchors : Rank(confirmation'[a]) >= Rank(confirmation[a])]_vars

\* A row claims a Bitcoin confirmation only if a calendar that holds its own
\* receipt has the proof, however the request was split between config and
\* input, whatever the calendars answered in between and whichever of them were
\* down, and never claims it final.
NotAheadOfCalendars ==
    \A a \in Of("opentimestamps") :
        /\ confirmation[a] = "confirmed" => upgraded[a] \cap receipts[a] # {}
        /\ confirmation[a] # "finalized"

\* Once a live calendar has the proof, polling records it, even if another
\* calendar of the same row is down for ever (the swallow rule of
\* OpenTimestamps.Verify).
ConfirmationArrives ==
    \A a \in Of("opentimestamps") :
        upgraded[a] \ DeadCalendars # {} ~> confirmation[a] = "confirmed"
=============================================================================
