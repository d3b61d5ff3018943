------------------------- MODULE ConfirmationProofs -------------------------
(***************************************************************************)
(* Proofs about Confirmation for any rows, instances, calendars, dead ones *)
(* among them, and any number of pollers.                                  *)
(***************************************************************************)
EXTENDS Confirmation, TLAPS

-----------------------------------------------------------------------------
(* The request.                                                            *)

\* Whatever part of a request for row a is in config, and whatever the input is
\* about when config is complete, the merged request is about row a alone.
LEMMA MergedRequest ==
  ASSUME NEW a \in Anchors, NEW b \in Anchors, NEW F \in SUBSET Fields, b = a \/ F = Fields
  PROVE  LET q == MergePollAnchorConfirmation(Only(F, RequestFor(a)), RequestFor(b))
         IN  q["anchor_id"] = a /\ q["provider"] = KindOf[a] /\ q["proof_data"] = a
<1> DEFINE cfg == Only(F, RequestFor(a))
           in  == RequestFor(b)
           q   == MergePollAnchorConfirmation(cfg, in)
<1>1. KindOf[a] # Empty /\ a # Empty
  BY KindAssumption, EmptyAssumption
<1>2. /\ RequestFor(a)["anchor_id"] = a
      /\ RequestFor(a)["provider"] = KindOf[a]
      /\ RequestFor(a)["proof_data"] = a
  BY DEF RequestFor, Fields
<1>3. \A f \in Fields \ {"ledger"} : q[f] = RequestFor(a)[f]
  <2> SUFFICES ASSUME NEW f \in Fields \ {"ledger"} PROVE q[f] = RequestFor(a)[f]
    OBVIOUS
  <2>1. RequestFor(a)[f] # Empty
    BY <1>1, <1>2 DEF Fields
  <2>2. cfg[f] = IF f \in F THEN RequestFor(a)[f] ELSE Empty
    BY DEF Only
  <2>3. q[f] = IF cfg[f] # Empty THEN cfg[f] ELSE in[f]
    BY DEF MergePollAnchorConfirmation
  <2>4. QED
    BY <2>1, <2>2, <2>3
<1>4. QED
  BY <1>2, <1>3 DEF Fields

-----------------------------------------------------------------------------
(* What Verify can give.                                                   *)

\* confirmationOrder.
LEMMA RankValues ==
  Rank("pending") = 0 /\ Rank("confirmed") = 1 /\ Rank("finalized") = 2
  BY DEF Rank

\* The one level that an implementation can raise a row to.
TargetOf(kind) == IF kind = "opentimestamps" THEN "confirmed" ELSE "finalized"

\* The guard lets a verification through only if it is the implementation's own
\* advanced level, and a Bitcoin confirmation only if a calendar of the row has it.
LEMMA RaisedLevel ==
  ASSUME NEW kind \in Kinds, NEW a \in Anchors, NEW prev \in Levels,
         NEW v \in Answers(kind, a, prev)
  PROVE  /\ v \in Verifications
         /\ Transitioned(v, prev) =>
              /\ v.level = TargetOf(kind)
              /\ v.level = "confirmed" => upgraded[a] \cap receipts[a] # {}
<1> USE DEF Levels, TargetOf
<1>a. /\ HardError \in Verifications /\ ~Transitioned(HardError, prev)
      /\ \A level \in Levels :
           /\ Swallowed(level) \in Verifications /\ ~Transitioned(Swallowed(level), prev)
           /\ Verified(level) \in Verifications /\ Verified(level).level = level
  BY RankValues DEF Verifications, Verified, Swallowed, HardError, Transitioned
<1>b. ~Transitioned(Verified(prev), prev)
  BY RankValues DEF Transitioned, Verified
<1>1. CASE kind = "opentimestamps"
  <2>1. PICK r \in [receipts[a] -> CalendarReplies] :
             /\ \A c \in receipts[a] : r[c] \in CanReply(a, c)
             /\ v = VerifyOpenTimestamps(prev, r)
    BY <1>1 DEF Answers
  <2> DEFINE got == {r[c] : c \in DOMAIN r}
             level == IF "upgraded" \in got /\ prev = "pending" THEN "confirmed" ELSE prev
  <2>2. v = IF "rejected" \in got THEN HardError
            ELSE IF "transient" \in got /\ "upgraded" \notin got THEN Swallowed(level)
            ELSE Verified(level)
    BY <2>1 DEF VerifyOpenTimestamps
  <2>3. "upgraded" \in got => upgraded[a] \cap receipts[a] # {}
    <3> SUFFICES ASSUME NEW c \in receipts[a], r[c] = "upgraded" PROVE c \in upgraded[a]
      BY <2>1
    <3>1. r[c] \in CanReply(a, c)
      BY <2>1
    <3>2. QED
      BY <3>1 DEF CanReply
  <2> HIDE DEF got
  <2>4. level \in Levels /\ (level # prev => level = "confirmed" /\ "upgraded" \in got)
    OBVIOUS
  <2> HIDE DEF level
  <2>5. QED
    BY <1>1, <1>a, <1>b, <2>2, <2>3, <2>4
<1>2. CASE kind = "git"
  <2>1. PICK r \in GitReplies : v = VerifyGit(prev, r)
    BY <1>2 DEF Answers
  <2>2. v \in {HardError, Swallowed(prev), Verified("finalized")}
    BY <2>1 DEF VerifyGit, GitReplies
  <2>3. QED
    BY <1>2, <1>a, <2>2
<1>3. CASE kind = "sigstore"
  <2>1. PICK r \in RekorReplies : v = VerifySigstore(prev, r)
    BY <1>3 DEF Answers
  <2>2. v \in {HardError, Swallowed(prev), Verified("finalized")}
    BY <2>1 DEF VerifySigstore, RekorReplies
  <2>3. QED
    BY <1>3, <1>a, <2>2
<1>4. QED
  BY <1>1, <1>2, <1>3 DEF Kinds

-----------------------------------------------------------------------------
(* The invariant.                                                          *)

\* The levels that a row can have: the one AnchorHandler gave it and, if polls can
\* find its provider, the one that provider can raise it to.
RowLevels(a) ==
    {LevelAfterAnchor(KindOf[a])} \cup
    {TargetOf(Registered[i]) : i \in {KindOf[a]} \cap DOMAIN Registered}

\* A calendar that holds row a's receipt has the proof.
Proven(a) == upgraded[a] \cap receipts[a] # {}

\* A poll asks the provider of its row for the proof of its row.
PollsOwnRow ==
    \A p \in Pollers : poll[p].pc = "read" =>
        /\ poll[p].proof = poll[p].anchor
        /\ KindOf[poll[p].anchor] \in DOMAIN Registered
        /\ poll[p].kind = Registered[KindOf[poll[p].anchor]]

\* What polls have read and rows hold are levels of the row, and a poll that is
\* about to write has the level that the row's provider raises it to.
LevelsOfRow ==
    /\ \A a \in Anchors : confirmation[a] \in RowLevels(a)
    /\ \A p \in Pollers :
         /\ poll[p].pc \in {"read", "verified"} => poll[p].prev \in RowLevels(poll[p].anchor)
         /\ poll[p].pc = "verified" /\ Transitioned(poll[p].v, poll[p].prev) =>
              /\ KindOf[poll[p].anchor] \in DOMAIN Registered
              /\ poll[p].v.level = TargetOf(Registered[KindOf[poll[p].anchor]])

\* A Bitcoin confirmation has its proof, from the answer of the calendar on.
ConfirmationsProven ==
    /\ \A a \in Of("opentimestamps") : confirmation[a] = "confirmed" => Proven(a)
    /\ \A p \in Pollers :
         poll[p].pc = "verified" /\ Transitioned(poll[p].v, poll[p].prev)
           /\ poll[p].v.level = "confirmed" => Proven(poll[p].anchor)

IndInv == TypeOK /\ PollsOwnRow /\ LevelsOfRow /\ ConfirmationsProven

\* What a poll can be.
PollStates ==
    {Idle} \cup [pc : {"read"}, anchor : Anchors, kind : Kinds, proof : Anchors, prev : Levels]
           \cup [pc : {"verified"}, anchor : Anchors, prev : Levels, v : Verifications]

\* What a poll takes from its own record is there and has its type.
LEMMA PollShape ==
  ASSUME NEW q \in PollStates
  PROVE  /\ q.pc \in {"idle", "read", "verified"}
         /\ q.pc \in {"read", "verified"} => q.anchor \in Anchors /\ q.prev \in Levels
         /\ q.pc = "read" => q.kind \in Kinds /\ q.proof \in Anchors
         /\ q.pc = "verified" => q.v \in Verifications
<1>1. CASE q = Idle
  BY <1>1 DEF Idle
<1>2. CASE q \in [pc : {"read"}, anchor : Anchors, kind : Kinds, proof : Anchors, prev : Levels]
  BY <1>2
<1>3. CASE q \in [pc : {"verified"}, anchor : Anchors, prev : Levels, v : Verifications]
  BY <1>3
<1>4. QED
  BY <1>1, <1>2, <1>3 DEF PollStates

\* A row's levels are levels.
LEMMA RowLevelType ==
  /\ \A a \in Anchors : RowLevels(a) \subseteq Levels
  /\ \A a \in Anchors : LevelAfterAnchor(KindOf[a]) \in RowLevels(a)
  /\ \A a \in Anchors : KindOf[a] \in DOMAIN Registered =>
       TargetOf(Registered[KindOf[a]]) \in RowLevels(a)
  BY DEF RowLevels, LevelAfterAnchor, TargetOf, Levels

\* A freshly anchored row: pending with OpenTimestamps, finalized with the others.
LEMMA IndInit == Init => IndInv
<1> SUFFICES ASSUME Init PROVE IndInv
  OBVIOUS
<1>1. \A a \in Anchors : confirmation[a] = LevelAfterAnchor(KindOf[a])
  BY DEF Init
<1>2. TypeOK
  BY <1>1, RowLevelType DEF Init, TypeOK, Levels
<1>3. \A p \in Pollers : poll[p].pc = "idle"
  BY DEF Init, Idle
<1>4. PollsOwnRow /\ LevelsOfRow
  BY <1>1, <1>3, RowLevelType DEF PollsOwnRow, LevelsOfRow
<1>5. ConfirmationsProven
  BY <1>1, <1>3 DEF ConfirmationsProven, Of, LevelAfterAnchor
<1>6. QED
  BY <1>2, <1>4, <1>5 DEF IndInv

\* A poll that moves on, or ends, has to see to its own record only.
LEMMA PollMoves ==
  ASSUME IndInv, NEW p \in Pollers, NEW q \in PollStates,
         poll' = [poll EXCEPT ![p] = q], UNCHANGED <<confirmation, receipts, upgraded>>,
         q.pc = "read" =>
           /\ q.proof = q.anchor
           /\ KindOf[q.anchor] \in DOMAIN Registered
           /\ q.kind = Registered[KindOf[q.anchor]],
         q.pc \in {"read", "verified"} => q.prev \in RowLevels(q.anchor),
         q.pc = "verified" /\ Transitioned(q.v, q.prev) =>
           /\ KindOf[q.anchor] \in DOMAIN Registered
           /\ q.v.level = TargetOf(Registered[KindOf[q.anchor]])
           /\ q.v.level = "confirmed" => Proven(q.anchor)
  PROVE  IndInv'
<1> USE DEF IndInv
<1>1. poll'[p] = q /\ \A o \in Pollers : o # p => poll'[o] = poll[o]
  BY DEF TypeOK
<1>2. TypeOK'
  BY DEF TypeOK, PollStates
<1>3. PollsOwnRow'
  BY <1>1 DEF PollsOwnRow
<1>4. LevelsOfRow'
  BY <1>1 DEF LevelsOfRow
<1>5. ConfirmationsProven'
  BY <1>1 DEF ConfirmationsProven, Proven
<1>6. QED
  BY <1>2, <1>3, <1>4, <1>5

\* A step that ends returns its poller to where it began.
LEMMA PollEnds ==
  ASSUME IndInv, NEW p \in Pollers, poll' = [poll EXCEPT ![p] = Idle],
         UNCHANGED <<confirmation, receipts, upgraded>>
  PROVE  IndInv'
<1>1. Idle \in PollStates /\ Idle.pc = "idle"
  BY DEF PollStates, Idle
<1>2. QED
  BY <1>1, PollMoves

\* SELECT confirmation, for a request about row a.
LEMMA ReadStep ==
  ASSUME IndInv, NEW p \in Pollers, NEW a \in Anchors, PollRow(p, a)
  PROVE  IndInv'
<1>1. PICK F \in SUBSET Fields, b \in Anchors :
           /\ b = a \/ F = Fields
           /\ ReadAnchor(p, Only(F, RequestFor(a)), RequestFor(b))
  BY DEF PollRow
<1> DEFINE r == MergePollAnchorConfirmation(Only(F, RequestFor(a)), RequestFor(b))
           q == [pc |-> "read", anchor |-> a, kind |-> Registered[KindOf[a]],
                 proof |-> a, prev |-> confirmation[a]]
<1>2. r["anchor_id"] = a /\ r["provider"] = KindOf[a] /\ r["proof_data"] = a
  BY <1>1, MergedRequest
<1> HIDE DEF r
<1>3. /\ KindOf[a] \in DOMAIN Registered
      /\ poll' = [poll EXCEPT ![p] = q]
      /\ UNCHANGED <<confirmation, receipts, upgraded>>
  BY <1>1, <1>2 DEF ReadAnchor, r
<1>4. q \in PollStates
  BY <1>3, RegisteredAssumption DEF IndInv, TypeOK, PollStates
<1>5. q.prev \in RowLevels(a)
  BY DEF IndInv, LevelsOfRow
<1>6. QED
  BY <1>3, <1>4, <1>5, PollMoves

\* Verify: its answer is about the row, whose level it can raise in one way only.
LEMMA VerifyStep ==
  ASSUME IndInv, NEW p \in Pollers, Verify(p)
  PROVE  IndInv'
<1>1. PICK v \in Answers(poll[p].kind, poll[p].proof, poll[p].prev) : VerifyGives(p, v)
  BY DEF Verify
<1> DEFINE a == poll[p].anchor
           q == [pc |-> "verified", anchor |-> a, prev |-> poll[p].prev, v |-> v]
<1>2. poll[p].pc = "read" /\ poll[p] \in PollStates
  BY DEF Verify, IndInv, TypeOK, PollStates
<1>3. a \in Anchors /\ poll[p].kind \in Kinds /\ poll[p].prev \in Levels
  BY <1>2, PollShape
<1>4. /\ poll[p].proof = a /\ KindOf[a] \in DOMAIN Registered
      /\ poll[p].kind = Registered[KindOf[a]]
      /\ poll[p].prev \in RowLevels(a)
  BY <1>2 DEF IndInv, PollsOwnRow, LevelsOfRow
<1>5. /\ v \in Verifications
      /\ Transitioned(v, poll[p].prev) =>
           /\ v.level = TargetOf(Registered[KindOf[a]])
           /\ v.level = "confirmed" => Proven(a)
  BY <1>1, <1>3, <1>4, RaisedLevel DEF Proven
<1>6. CASE v.ok
  <2>1. q \in PollStates
    BY <1>3, <1>5 DEF PollStates
  <2>2. /\ poll' = [poll EXCEPT ![p] = q]
        /\ UNCHANGED <<confirmation, receipts, upgraded>>
    BY <1>1, <1>6 DEF VerifyGives
  <2>3. QED
    BY <1>4, <1>5, <2>1, <2>2, PollMoves
<1>7. CASE ~v.ok
  BY <1>1, <1>7, PollEnds DEF VerifyGives
<1>8. QED
  BY <1>6, <1>7

\* What the UPDATE does: the new level is the row's target, and what the row holds
\* by now is that or what AnchorHandler gave it, which is what the poll had read.
LEMMA WriteRaises ==
  ASSUME IndInv, NEW p \in Pollers, WriteLevel(p)
  PROVE  LET a == poll[p].anchor IN
         /\ a \in Anchors
         /\ confirmation' = [confirmation EXCEPT ![a] = poll[p].v.level]
         /\ poll[p].v.level \in RowLevels(a)
         /\ Rank(poll[p].v.level) >= Rank(confirmation[a])
         /\ poll[p].v.level = "confirmed" => Proven(a)
<1> DEFINE a == poll[p].anchor
           v == poll[p].v
<1>1. poll[p].pc = "verified" /\ poll[p] \in PollStates
  BY DEF WriteLevel, IndInv, TypeOK, PollStates
<1>2. a \in Anchors /\ v \in Verifications /\ poll[p].prev \in Levels
  BY <1>1, PollShape
<1>3. Transitioned(v, poll[p].prev) /\ confirmation' = [confirmation EXCEPT ![a] = v.level]
  BY DEF WriteLevel
<1>4. /\ KindOf[a] \in DOMAIN Registered
      /\ v.level = TargetOf(Registered[KindOf[a]])
      /\ v.level = "confirmed" => Proven(a)
  BY <1>1, <1>3 DEF IndInv, LevelsOfRow, ConfirmationsProven
<1>5. /\ confirmation[a] \in RowLevels(a) /\ poll[p].prev \in RowLevels(a)
      /\ RowLevels(a) = {LevelAfterAnchor(KindOf[a]), v.level}
  BY <1>1, <1>2, <1>4 DEF IndInv, LevelsOfRow, RowLevels
<1>6. Rank(v.level) > Rank(poll[p].prev)
  BY <1>3 DEF Transitioned
<1>7. v.level \in Levels /\ confirmation[a] \in Levels
  BY <1>2 DEF Verifications, IndInv, TypeOK
<1>8. Rank(v.level) >= Rank(confirmation[a])
  BY <1>2, <1>5, <1>6, <1>7, RankValues DEF Levels
<1>9. QED
  BY <1>2, <1>3, <1>4, <1>5, <1>8

\* UPDATE audit_anchors.
LEMMA WriteStep ==
  ASSUME IndInv, NEW p \in Pollers, WriteLevel(p)
  PROVE  IndInv'
<1> DEFINE a == poll[p].anchor
           l == poll[p].v.level
<1>1. /\ a \in Anchors /\ l \in RowLevels(a) /\ l \in Levels
      /\ confirmation' = [confirmation EXCEPT ![a] = l]
      /\ l = "confirmed" => Proven(a)
  BY WriteRaises, RowLevelType
<1>2. poll' = [poll EXCEPT ![p] = Idle] /\ UNCHANGED <<receipts, upgraded>>
  BY DEF WriteLevel
<1> HIDE DEF a, l
<1>3. TypeOK'
  BY <1>1, <1>2 DEF IndInv, TypeOK
<1>4. poll'[p].pc = "idle" /\ \A o \in Pollers : o # p => poll'[o] = poll[o]
  BY <1>2 DEF IndInv, TypeOK, Idle
<1>5. confirmation'[a] = l /\ \A b \in Anchors : b # a => confirmation'[b] = confirmation[b]
  BY <1>1 DEF IndInv, TypeOK
<1>6. PollsOwnRow'
  BY <1>4 DEF IndInv, PollsOwnRow
<1>7. LevelsOfRow'
  BY <1>1, <1>4, <1>5 DEF IndInv, LevelsOfRow
<1>8. ConfirmationsProven'
  BY <1>1, <1>2, <1>4, <1>5 DEF IndInv, ConfirmationsProven, Proven, Of
<1>9. QED
  BY <1>3, <1>6, <1>7, <1>8 DEF IndInv

\* A calendar gets a proof: what was proven stays so.
LEMMA UpgradeStep ==
  ASSUME IndInv, NEW a \in Anchors, NEW c \in Calendars, CalendarUpgrades(a, c)
  PROVE  IndInv'
<1>1. TypeOK'
  BY DEF IndInv, TypeOK, CalendarUpgrades
<1>2. \A b \in Anchors : Proven(b) => Proven(b)'
  BY DEF IndInv, TypeOK, CalendarUpgrades, Proven
<1>3. \A p \in Pollers : poll[p] \in PollStates
  BY DEF IndInv, TypeOK, PollStates
<1>4. ConfirmationsProven'
  BY <1>2, <1>3, PollShape DEF IndInv, ConfirmationsProven, CalendarUpgrades, Of
<1>5. QED
  BY <1>1, <1>4 DEF IndInv, PollsOwnRow, LevelsOfRow, CalendarUpgrades

\* Every step of the pollers and of the calendars keeps the invariant.
LEMMA IndStep == IndInv /\ [Next]_vars => IndInv'
<1> SUFFICES ASSUME IndInv, [Next]_vars PROVE IndInv'
  OBVIOUS
<1>1. ASSUME NEW p \in Pollers, LeaveLevel(p) \/ PollFails(p) PROVE IndInv'
  BY <1>1, PollEnds DEF LeaveLevel, PollFails
<1>2. CASE UNCHANGED vars
  BY <1>2 DEF vars, IndInv, TypeOK, PollsOwnRow, LevelsOfRow, ConfirmationsProven, Proven
<1>3. QED
  BY <1>1, <1>2, UpgradeStep, ReadStep, VerifyStep, WriteStep DEF Next

\* The invariant holds throughout.
LEMMA IndCorrect == Spec => []IndInv
<1>1. QED
  BY IndInit, IndStep, PTL DEF Spec

-----------------------------------------------------------------------------
(* What follows.                                                           *)

\* Rows only ever hold levels, and a poll under way always holds a row, a level and
\* what its next statement needs.
THEOREM TypeCorrect == Spec => []TypeOK
<1>1. QED
  BY IndCorrect, PTL DEF IndInv

\* No poll takes a row's confirmation down, although its UPDATE does not look at
\* what the row holds by now: the level it writes is the only one that the row can
\* be raised to.
THEOREM ForwardCorrect == Spec => ForwardOnly
<1>1. IndInv /\ [Next]_vars
        => [\A a \in Anchors : Rank(confirmation'[a]) >= Rank(confirmation[a])]_vars
  <2> SUFFICES ASSUME IndInv, Next, NEW a \in Anchors
               PROVE  Rank(confirmation'[a]) >= Rank(confirmation[a])
    OBVIOUS
  <2>1. Rank(confirmation[a]) \in Int
    BY RankValues DEF IndInv, TypeOK, Levels
  <2>2. CASE confirmation' = confirmation
    BY <2>1, <2>2
  <2>3. ASSUME NEW p \in Pollers, WriteLevel(p)
        PROVE  Rank(confirmation'[a]) >= Rank(confirmation[a])
    BY <2>1, <2>3, WriteRaises DEF IndInv, TypeOK
  <2>4. QED
    BY <2>2, <2>3 DEF Next, CalendarUpgrades, PollRow, ReadAnchor, Verify, VerifyGives,
                      LeaveLevel, PollFails
<1>2. QED
  BY <1>1, IndCorrect, PTL DEF Spec, ForwardOnly

\* If no instance of another implementation is called "opentimestamps", a row claims a
\* Bitcoin confirmation only once a calendar that holds its receipt has the proof, and
\* is never final.  (The poll step finds the provider of a row by its name.)
THEOREM NotAheadCorrect ==
  ASSUME "opentimestamps" \in DOMAIN Registered =>
           Registered["opentimestamps"] = "opentimestamps"
  PROVE  Spec => []NotAheadOfCalendars
<1>1. IndInv => NotAheadOfCalendars
  <2> SUFFICES ASSUME IndInv, NEW a \in Of("opentimestamps")
               PROVE  /\ confirmation[a] = "confirmed" => Proven(a)
                      /\ confirmation[a] # "finalized"
    BY DEF NotAheadOfCalendars, Proven
  <2>1. a \in Anchors /\ KindOf[a] = "opentimestamps"
    BY DEF Of
  <2>2. RowLevels(a) \subseteq {"pending", "confirmed"}
    BY <2>1 DEF RowLevels, LevelAfterAnchor, TargetOf
  <2>3. QED
    BY <2>1, <2>2 DEF IndInv, LevelsOfRow, ConfirmationsProven
<1>2. QED
  BY <1>1, IndCorrect, PTL
=============================================================================
