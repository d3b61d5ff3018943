----------------------------- MODULE Providers -----------------------------
(***************************************************************************)
(* The anchor providers as the handlers see them (src/providers): the      *)
(* confirmation levels, what Anchor returns at once, and what Verify makes *)
(* of the replies of the external service.  Pure operators, used by        *)
(* Anchoring and Confirmation.                                             *)
(***************************************************************************)
EXTENDS Integers, Sequences

CONSTANT Calendars      \* OpenTimestamps calendar servers, as configured

Levels == {"pending", "confirmed", "finalized"}

\* confirmationOrder of the poll handler.
Rank(level) == CASE level = "pending" -> 0
                 [] level = "confirmed" -> 1
                 [] level = "finalized" -> 2

\* Name() of the implementations.
Kinds == {"opentimestamps", "git", "sigstore"}

\* Mistake: a level that is none of the three.
LevelAfterAnchorTypo(kind) ==
    IF kind \in {"git", "sigstore"} THEN "final" ELSE "pending"

\* The Confirmation in the Anchor that p.Anchor returns.
LevelAfterAnchor(kind) ==
    IF kind \in {"git", "sigstore"} THEN "finalized" ELSE "pending"

-----------------------------------------------------------------------------
(* Anchor: whether it returns an anchor (ok), with the receipts of which    *)
(* calendars in its proof data, and whether the service has the root (held) *)
(* all the same: it took the root, but its answer was lost, cut short or    *)
(* unusable.                                                                *)

SubmissionReplies == {"accepted", "failed", "lost"}

\* Mistake: the number of calendars that accepted is not looked at.
AnchorOpenTimestampsAnyway(reply) ==
    LET gave(answers) == {c \in Calendars : reply[c] \in answers}
    IN  [ok |-> TRUE, receipts |-> gave({"accepted"}), held |-> gave({"accepted", "lost"}) # {}]

\* opentimestamps: every calendar is tried, one that accepts is enough, and only
\* those that did are in the proof data.
AnchorOpenTimestamps(reply) ==
    LET gave(answers) == {c \in Calendars : reply[c] \in answers}
    IN  [ok |-> gave({"accepted"}) # {}, receipts |-> gave({"accepted"}),
         held |-> gave({"accepted", "lost"}) # {}]

\* git: the outcome of the push that GitAnchor models step by step.
AnchorGit(reply) ==
    [ok |-> reply = "accepted", receipts |-> {}, held |-> reply \in {"accepted", "lost"}]

\* sigstore: the key, the signature or the request fails, or Rekor logs the entry
\* and names its UUID, or does not.
AnchorSigstore(reply) ==
    [ok |-> reply = "accepted", receipts |-> {}, held |-> reply \in {"accepted", "lost"}]

AnchorOutcomes(kind) ==
    CASE kind = "opentimestamps" ->
           {AnchorOpenTimestamps(r) : r \in [Calendars -> SubmissionReplies]}
      [] kind = "git"      -> {AnchorGit(r) : r \in SubmissionReplies}
      [] kind = "sigstore" -> {AnchorSigstore(r) : r \in SubmissionReplies}

-----------------------------------------------------------------------------
(* Verify returns a level, possibly with Swallowed, or an error.           *)

Verified(level)  == [ok |-> TRUE, level |-> level, swallowed |-> FALSE]
Swallowed(level) == [ok |-> TRUE, level |-> level, swallowed |-> TRUE]
HardError        == [ok |-> FALSE, level |-> "pending", swallowed |-> FALSE]
Verifications    == [ok : BOOLEAN, level : Levels, swallowed : BOOLEAN]

\* checkUpgrade: 200, 404, network error or 5xx, any other 4xx.
CalendarReplies == {"upgraded", "notyet", "transient", "rejected"}

\* Mistake: a calendar that is down hides the confirmation of another.
VerifyOpenTimestampsStrict(prev, reply) ==
    LET got == {reply[c] : c \in DOMAIN reply} IN
    IF "rejected" \in got THEN HardError
    ELSE IF "transient" \in got THEN Swallowed(prev)
    ELSE Verified(IF "upgraded" \in got /\ prev = "pending" THEN "confirmed" ELSE prev)

\* opentimestamps: reply[c] is the reply of calendar c, one for every receipt.
\* A rejection aborts; one upgraded proof is enough; an unreachable calendar is
\* swallowed only when no other one confirmed.
VerifyOpenTimestamps(prev, reply) ==
    LET got == {reply[c] : c \in DOMAIN reply}
        level == IF "upgraded" \in got /\ prev = "pending" THEN "confirmed" ELSE prev
    IN  IF "rejected" \in got THEN HardError
        ELSE IF "transient" \in got /\ "upgraded" \notin got THEN Swallowed(level)
        ELSE Verified(level)

\* git: malformed proof data is an error; otherwise only whether the remote can
\* be listed matters.
GitReplies == {"listed", "unreachable", "malformed"}
VerifyGit(prev, reply) ==
    CASE reply = "malformed"   -> HardError
      [] reply = "unreachable" -> Swallowed(prev)
      [] reply = "listed"      -> Verified("finalized")

\* sigstore: a 404 or another 4xx is an error, a 5xx or a network error is not.
RekorReplies == {"found", "missing", "clientError", "serverError", "network"}
VerifySigstore(prev, reply) ==
    CASE reply = "found"                       -> Verified("finalized")
      [] reply \in {"missing", "clientError"}  -> HardError
      [] reply \in {"serverError", "network"}  -> Swallowed(prev)
=============================================================================
