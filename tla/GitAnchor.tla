----------------------------- MODULE GitAnchor -----------------------------
(***************************************************************************)
(* The git provider's Anchor (src/providers/git/git.go) called by several  *)
(* anchor steps against one branch of one remote: clone the branch (or     *)
(* start a repository if there is none), write the anchor file, commit,    *)
(* push.  Every call works in a temporary directory of its own, so the     *)
(* calls meet only at the remote.  The code does not retry; the pipeline   *)
(* that called the step runs it again until it succeeds.                   *)
(*                                                                         *)
(* A commit's hash covers its parent, its tree, its message and its time   *)
(* in seconds, so a commit stands for the history up to itself: a sequence *)
(* of the anchor files written.                                            *)
(***************************************************************************)
EXTENDS Integers, Sequences, FiniteSets, FiniteSetsExt

CONSTANTS
    Handlers,   \* concurrent calls of Anchor
    RootOf,     \* RootOf[h]: the Merkle root that h anchors
    NoRoot,     \* what a commit of somebody else is about
    SecondsPerDay,
    MaxFaults   \* bound: failures, unanswered pushes and commits of others

ASSUME DayAssumption == SecondsPerDay \in Nat \ {0}
ASSUME FaultAssumption == MaxFaults \in Nat

VARIABLES
    remote,     \* the branch on the remote; <<>> when there is none
    clock,      \* seconds
    job,        \* each call: where it is and what it holds
    returned,   \* anchors returned: the root and the commit (history)
    faults      \* bounded by MaxFaults

vars == <<remote, clock, job, returned, faults>>

Idle == [pc |-> "idle"]
Done == [pc |-> "done"]

Init ==
    /\ remote = <<>>
    /\ clock = 0
    /\ job = [h \in Handlers |-> Idle]
    /\ returned = {}
    /\ faults = 0

-----------------------------------------------------------------------------
(* Data.                                                                   *)

\* The content of an anchor file, and its path: anchors/<day>/<root>.json.
AnchorFile(root, now) == [root |-> root, at |-> now]
FilePath(f) == <<f.at \div SecondsPerDay, f.root>>

\* The working tree of commit c already has file f as it is.
HasFile(c, f) ==
    LET same == {n \in 1..Len(c) : FilePath(c[n]) = FilePath(f)}
    IN  same # {} /\ c[Max(same)] = f

\* Commit c is d or an ancestor of d.
Ancestor(c, d) == Len(c) <= Len(d) /\ \A n \in 1..Len(c) : c[n] = d[n]

Move(h, j) ==
    /\ job' = [job EXCEPT ![h] = j]
    /\ UNCHANGED clock

Fault ==
    /\ faults < MaxFaults
    /\ faults' = faults + 1

-----------------------------------------------------------------------------
(* Anchor.                                                                 *)

\* The time is taken, the message rendered, a directory made.
StartAnchor(h) ==
    /\ job[h] = Idle
    /\ Move(h, [pc |-> "clone", now |-> clock])
    /\ UNCHANGED <<remote, returned, faults>>

\* Mistake: a repository without history, whatever the remote has.
CloneBranchFresh(h) ==
    /\ job[h].pc = "clone"
    /\ remote # <<>>
    /\ Move(h, [pc |-> "edit", now |-> job[h].now, base |-> <<>>])
    /\ UNCHANGED <<remote, returned, faults>>

\* cloneOrInit: the tip of the branch.  The clone has depth 1; the history
\* behind it is in the tip's hash.
CloneBranch(h) ==
    /\ job[h].pc = "clone"
    /\ remote # <<>>
    /\ Move(h, [pc |-> "edit", now |-> job[h].now, base |-> remote])
    /\ UNCHANGED <<remote, returned, faults>>

\* An empty remote, or one without the branch: a new repository.
InitWithRemote(h) ==
    /\ job[h].pc = "clone"
    /\ remote = <<>>
    /\ Move(h, [pc |-> "edit", now |-> job[h].now, base |-> <<>>])
    /\ UNCHANGED <<remote, returned, faults>>

\* The file is written and staged, and there is something to commit.
CommitFile(h) ==
    /\ job[h].pc = "edit"
    /\ LET f == AnchorFile(RootOf[h], job[h].now) IN
         /\ ~HasFile(job[h].base, f)
         /\ Move(h, [pc |-> "push", commit |-> Append(job[h].base, f)])
    /\ UNCHANGED <<remote, returned, faults>>

\* The same root was anchored in the same second: the tree is unchanged and
\* go-git refuses an empty commit.
NothingToCommit(h) ==
    /\ job[h].pc = "edit"
    /\ HasFile(job[h].base, AnchorFile(RootOf[h], job[h].now))
    /\ Move(h, Idle)
    /\ UNCHANGED <<remote, returned, faults>>

\* What Anchor returns after a push that went well.
ReturnAnchor(h) ==
    /\ returned' = returned \cup {[root |-> RootOf[h], commit |-> job[h].commit]}
    /\ Move(h, Done)

\* Mistake: a forced push.
PushForced(h) ==
    /\ job[h].pc = "push"
    /\ remote' = job[h].commit
    /\ ReturnAnchor(h)
    /\ UNCHANGED faults

\* The push is a fast-forward.  It may find the very commit there already, made
\* by another call from the same base in the same second
\* (NoErrAlreadyUpToDate).
Push(h) ==
    /\ job[h].pc = "push"
    /\ Ancestor(remote, job[h].commit)
    /\ remote' = job[h].commit
    /\ ReturnAnchor(h)
    /\ UNCHANGED faults

\* Mistake: the error of the push is ignored.
PushRejectedIgnored(h) ==
    /\ job[h].pc = "push"
    /\ ~Ancestor(remote, job[h].commit)
    /\ ReturnAnchor(h)
    /\ UNCHANGED <<remote, faults>>

\* The branch has moved since it was cloned: the remote refuses.
PushRejected(h) ==
    /\ job[h].pc = "push"
    /\ ~Ancestor(remote, job[h].commit)
    /\ Move(h, Idle)
    /\ UNCHANGED <<remote, returned, faults>>

\* The push takes effect and its answer is lost: Anchor returns an error.
PushUnanswered(h) ==
    /\ job[h].pc = "push"
    /\ Ancestor(remote, job[h].commit)
    /\ Fault
    /\ remote' = job[h].commit
    /\ Move(h, Idle)
    /\ UNCHANGED returned

\* Any other error return: template, file system, network, cancelled context.
AnchorFails(h) ==
    /\ job[h].pc \in {"clone", "edit", "push"}
    /\ Fault
    /\ Move(h, Idle)
    /\ UNCHANGED <<remote, returned>>

-----------------------------------------------------------------------------
(* Around the calls.                                                       *)

\* Somebody else commits to the branch.
OthersPush ==
    /\ Fault
    /\ remote' = Append(remote, AnchorFile(NoRoot, clock))
    /\ UNCHANGED <<clock, job, returned>>

\* Time passes.  Only a second in which something was stamped is told from the
\* one after it.
Tick ==
    /\ \/ \E n \in 1..Len(remote) : remote[n].at = clock
       \/ \E h \in Handlers : job[h].pc \in {"clone", "edit"} /\ job[h].now = clock
    /\ clock' = clock + 1
    /\ UNCHANGED <<remote, job, returned, faults>>

AnchorStep(h) ==
    \/ StartAnchor(h)
    \/ CloneBranch(h) \/ InitWithRemote(h)
    \/ CommitFile(h) \/ NothingToCommit(h)
    \/ Push(h) \/ PushRejected(h)

Next ==
    \/ \E h \in Handlers : AnchorStep(h) \/ PushUnanswered(h) \/ AnchorFails(h)
    \/ OthersPush
    \/ Tick

Spec == Init /\ [][Next]_vars

\* Assumed for liveness: a call that was begun goes on, the pipeline runs a
\* failed step again, and time passes.  Nothing is assumed of the order in which
\* calls get to push.
Fairness == WF_vars(Tick) /\ \A h \in Handlers : WF_vars(AnchorStep(h))

FairSpec == Spec /\ Fairness

-----------------------------------------------------------------------------
(* Properties.                                                             *)

\* Whichever clones are stale when they push, the branch only ever grows: no call
\* takes a commit off it that another call or another person has put there ("a
\* successful push is permanent in git", git.go).
HistoryKept == [][Ancestor(remote, remote')]_vars

\* Every anchor that was returned, and may have been recorded as finalized, is on
\* the branch for good and is about the root it was asked for, whichever pushes
\* were refused, unanswered or found the commit there already.
ReturnedIsPublished ==
    \A a \in returned :
        /\ Ancestor(a.commit, remote)
        /\ a.commit # <<>>
        /\ a.commit[Len(a.commit)].root = a.root

\* Calls that keep overtaking each other, also with the same root in the same
\* second, all get through in the end: a push is refused only because another
\* one succeeded, and a refused call starts again from the new tip.
AllGetThrough == \A h \in Handlers : <>(job[h] = Done)
=============================================================================
