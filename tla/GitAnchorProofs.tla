--------------------------- MODULE GitAnchorProofs ---------------------------
(***************************************************************************)
(* Proofs about GitAnchor for any number of concurrent calls, any roots    *)
(* (equal ones too) and any number of faults.                              *)
(***************************************************************************)
EXTENDS GitAnchor, TLAPS

\* What a commit can be about, the files a branch can hold, and its tips.
Roots   == {RootOf[h] : h \in Handlers}
Files   == [root : Roots \cup {NoRoot}, at : Nat]
Commits == Seq(Files)

\* What a call of Anchor can hold.
JobStates ==
    {Idle, Done} \cup [pc : {"clone"}, now : Nat]
                 \cup [pc : {"edit"}, now : Nat, base : Commits]
                 \cup [pc : {"push"}, commit : Commits]

Types ==
    /\ remote \in Commits
    /\ clock \in Nat
    /\ job \in [Handlers -> JobStates]
    /\ returned \subseteq [root : Roots, commit : Commits]
    /\ faults \in 0..MaxFaults

\* The tip of commit c is the anchor file of root.
AnchorsRoot(c, root) == c # <<>> /\ c[Len(c)].root = root

\* A commit that is about to be pushed is the anchor file of its own call.
PushesOwnFile ==
    \A h \in Handlers : job[h].pc = "push" => AnchorsRoot(job[h].commit, RootOf[h])

IndInv == Types /\ PushesOwnFile /\ ReturnedIsPublished

-----------------------------------------------------------------------------
(* Ancestry of commits.                                                    *)

\* A commit is its own ancestor: a push that finds its commit there is no change.
LEMMA AncestorItself == \A c \in Commits : Ancestor(c, c)
  BY DEF Ancestor, Commits

\* An ancestor of an ancestor is one: what was on the branch before a push that was
\* itself built on the branch is on it after the push.
LEMMA AncestorTransitive ==
  ASSUME NEW b \in Commits, NEW c \in Commits, NEW d \in Commits,
         Ancestor(b, c), Ancestor(c, d)
  PROVE  Ancestor(b, d)
  BY DEF Ancestor, Commits

\* The commit that CommitFile makes: a child of its base, with the file at its tip.
LEMMA CommitChild ==
  ASSUME NEW c \in Commits, NEW f \in Files
  PROVE  /\ Append(c, f) \in Commits
         /\ Ancestor(c, Append(c, f))
         /\ AnchorsRoot(Append(c, f), f.root)
<1>1. /\ Append(c, f) \in Commits /\ Len(c) \in Nat
      /\ Len(Append(c, f)) = Len(c) + 1
      /\ \A n \in 1..Len(c) : Append(c, f)[n] = c[n]
      /\ Append(c, f)[Len(c) + 1] = f
  BY DEF Commits
<1>2. Append(c, f) # <<>>
  <2>1. Len(<<>>) = 0 /\ Len(c) + 1 # 0
    BY <1>1
  <2>2. QED
    BY <1>1, <2>1
<1>3. QED
  BY <1>1, <1>2 DEF Ancestor, AnchorsRoot

-----------------------------------------------------------------------------
(* Types.                                                                  *)

\* What a handler takes from its own record is there and has its type.
LEMMA JobShape ==
  ASSUME NEW j \in JobStates
  PROVE  /\ j.pc = "clone" => j.now \in Nat
         /\ j.pc = "edit" => j.now \in Nat /\ j.base \in Commits
         /\ j.pc = "push" => j.commit \in Commits
<1>1. CASE j \in {Idle, Done}
  BY <1>1 DEF Idle, Done
<1>2. CASE j \in [pc : {"clone"}, now : Nat]
  BY <1>2
<1>3. CASE j \in [pc : {"edit"}, now : Nat, base : Commits]
  BY <1>3
<1>4. CASE j \in [pc : {"push"}, commit : Commits]
  BY <1>4
<1>5. QED
  BY <1>1, <1>2, <1>3, <1>4 DEF JobStates

\* The records that the actions make are such states.
LEMMA JobMade ==
  /\ Idle \in JobStates /\ Done \in JobStates
  /\ \A n \in Nat : [pc |-> "clone", now |-> n] \in JobStates
  /\ \A n \in Nat, c \in Commits : [pc |-> "edit", now |-> n, base |-> c] \in JobStates
  /\ \A c \in Commits : [pc |-> "push", commit |-> c] \in JobStates
  BY DEF JobStates

\* The anchor file of a call, and one of somebody else.
LEMMA FileType ==
  ASSUME NEW now \in Nat
  PROVE  /\ \A h \in Handlers : AnchorFile(RootOf[h], now) \in Files
         /\ AnchorFile(NoRoot, now) \in Files
  BY DEF AnchorFile, Files, Roots

\* An empty branch and no call.
LEMMA IndInit == Init => IndInv
<1> SUFFICES ASSUME Init PROVE IndInv
  OBVIOUS
<1>1. Types
  BY FaultAssumption, JobMade DEF Init, Types, Commits
<1>2. PushesOwnFile
  BY DEF Init, PushesOwnFile, Idle
<1>3. ReturnedIsPublished
  BY DEF Init, ReturnedIsPublished
<1>4. QED
  BY <1>1, <1>2, <1>3 DEF IndInv

-----------------------------------------------------------------------------
(* Steps.                                                                  *)

\* Every step leaves the branch, or moves it to a commit that is built on it; a call
\* that pushes was built on the branch when Git compared the two.
LEMMA Grows ==
  ASSUME IndInv, [Next]_vars
  PROVE  remote' \in Commits /\ Ancestor(remote, remote')
<1> USE DEF IndInv, Types
<1>1. CASE remote' = remote
  BY <1>1, AncestorItself
<1>2. ASSUME NEW h \in Handlers, job[h].pc = "push", Ancestor(remote, job[h].commit),
             remote' = job[h].commit
      PROVE  remote' \in Commits /\ Ancestor(remote, remote')
  BY <1>2, JobShape
<1>3. CASE OthersPush
  BY <1>3, FileType, CommitChild DEF OthersPush
<1>4. QED
  BY <1>1, <1>2, <1>3
  DEF vars, Next, AnchorStep, StartAnchor, CloneBranch, InitWithRemote, CommitFile,
      NothingToCommit, Push, PushRejected, PushUnanswered, AnchorFails, Tick

\* What was returned stays published: the branch grows.
LEMMA StaysPublished ==
  ASSUME IndInv, [Next]_vars
  PROVE  \A a \in returned : /\ Ancestor(a.commit, remote')
                             /\ AnchorsRoot(a.commit, a.root)
<1> TAKE a \in returned
<1>1. a.commit \in Commits /\ Ancestor(a.commit, remote) /\ AnchorsRoot(a.commit, a.root)
  BY DEF IndInv, Types, ReturnedIsPublished, AnchorsRoot
<1>2. QED
  BY <1>1, Grows, AncestorTransitive DEF IndInv, Types

\* A call moves on to the next statement, or ends without an anchor.
LEMMA MoveStep ==
  ASSUME IndInv, [Next]_vars, NEW h \in Handlers, NEW j \in JobStates, Move(h, j),
         j.pc = "push" => AnchorsRoot(j.commit, RootOf[h]),
         returned' = returned, faults' \in 0..MaxFaults
  PROVE  IndInv'
<1>1. Types'
  BY Grows DEF IndInv, Types, Move
<1>2. PushesOwnFile'
  BY DEF IndInv, Types, PushesOwnFile, Move
<1>3. ReturnedIsPublished'
  BY StaysPublished DEF ReturnedIsPublished, AnchorsRoot
<1>4. QED
  BY <1>1, <1>2, <1>3 DEF IndInv

\* A push that went well is returned, and is on the branch as it is.
LEMMA PushStep ==
  ASSUME IndInv, [Next]_vars, NEW h \in Handlers, Push(h)
  PROVE  IndInv'
<1> DEFINE a == [root |-> RootOf[h], commit |-> job[h].commit]
<1>1. job[h].commit \in Commits /\ AnchorsRoot(job[h].commit, RootOf[h])
  BY JobShape DEF IndInv, Types, PushesOwnFile, Push
<1>2. Types'
  BY <1>1, Grows, JobMade DEF IndInv, Types, Push, ReturnAnchor, Move, Roots
<1>3. PushesOwnFile'
  BY DEF IndInv, Types, PushesOwnFile, Push, ReturnAnchor, Move, Done
<1>4. Ancestor(a.commit, remote') /\ AnchorsRoot(a.commit, a.root)
  BY <1>1, AncestorItself DEF Push
<1>5. returned' = returned \cup {a}
  BY DEF Push, ReturnAnchor
<1>6. ReturnedIsPublished'
  BY <1>4, <1>5, StaysPublished DEF ReturnedIsPublished, AnchorsRoot
<1>7. QED
  BY <1>2, <1>3, <1>6 DEF IndInv

\* Every step of every call, of others and of the clock keeps the invariant.
LEMMA IndStep == IndInv /\ [Next]_vars => IndInv'
<1> SUFFICES ASSUME IndInv, [Next]_vars PROVE IndInv'
  OBVIOUS
<1>a. clock \in Nat /\ faults \in 0..MaxFaults /\ remote \in Commits
      /\ \A h \in Handlers : job[h] \in JobStates
  BY DEF IndInv, Types
<1>1. ASSUME NEW h \in Handlers, StartAnchor(h) PROVE IndInv'
  <2>1. [pc |-> "clone", now |-> clock] \in JobStates
    BY <1>a, JobMade
  <2>2. QED
    BY <1>1, <1>a, <2>1, MoveStep DEF StartAnchor
<1>2. ASSUME NEW h \in Handlers, NEW c \in Commits, job[h].pc = "clone",
             Move(h, [pc |-> "edit", now |-> job[h].now, base |-> c]),
             UNCHANGED <<remote, returned, faults>>
      PROVE  IndInv'
  <2>1. [pc |-> "edit", now |-> job[h].now, base |-> c] \in JobStates
    BY <1>2, <1>a, JobShape, JobMade
  <2>2. QED
    BY <1>2, <1>a, <2>1, MoveStep
<1>3. ASSUME NEW h \in Handlers, CommitFile(h) PROVE IndInv'
  <2> DEFINE f == AnchorFile(RootOf[h], job[h].now)
             c == Append(job[h].base, f)
  <2>1. job[h].now \in Nat /\ job[h].base \in Commits
    BY <1>3, <1>a, JobShape DEF CommitFile
  <2>2. f \in Files /\ f.root = RootOf[h]
    BY <2>1, FileType DEF AnchorFile
  <2>3. c \in Commits /\ AnchorsRoot(c, RootOf[h])
    BY <2>1, <2>2, CommitChild
  <2>4. /\ Move(h, [pc |-> "push", commit |-> c])
        /\ UNCHANGED <<remote, returned, faults>>
    BY <1>3 DEF CommitFile
  <2> HIDE DEF c
  <2>5. [pc |-> "push", commit |-> c] \in JobStates
    BY <2>3, JobMade
  <2>6. QED
    BY <1>a, <2>3, <2>4, <2>5, MoveStep
<1>4. ASSUME NEW h \in Handlers, Move(h, Idle), returned' = returned,
             faults' \in 0..MaxFaults
      PROVE  IndInv'
  BY <1>4, JobMade, MoveStep DEF Idle
<1>5. ASSUME UNCHANGED job, UNCHANGED returned, clock' \in Nat, faults' \in 0..MaxFaults
      PROVE  IndInv'
  <2>1. Types' /\ PushesOwnFile'
    BY <1>5, Grows DEF IndInv, Types, PushesOwnFile
  <2>2. ReturnedIsPublished'
    BY <1>5, StaysPublished DEF ReturnedIsPublished, AnchorsRoot
  <2>3. QED
    BY <2>1, <2>2 DEF IndInv
<1>6. Fault => faults' \in 0..MaxFaults
  BY <1>a, FaultAssumption DEF Fault
<1>7. <<>> \in Commits
  BY DEF Commits
<1>8. ASSUME NEW h \in Handlers, AnchorStep(h) \/ PushUnanswered(h) \/ AnchorFails(h)
      PROVE  IndInv'
  BY <1>1, <1>2, <1>3, <1>4, <1>6, <1>7, <1>8, <1>a, PushStep
  DEF AnchorStep, CloneBranch, InitWithRemote, NothingToCommit, PushRejected,
      PushUnanswered, AnchorFails
<1>9. CASE OthersPush
  BY <1>5, <1>6, <1>9, <1>a DEF OthersPush
<1>10. CASE Tick
  BY <1>5, <1>10, <1>a DEF Tick
<1>11. CASE UNCHANGED vars
  BY <1>5, <1>11, <1>a DEF vars
<1>12. QED
  BY <1>8, <1>9, <1>10, <1>11 DEF Next

\* The invariant holds throughout.
LEMMA IndCorrect == Spec => []IndInv
<1>1. QED
  BY IndInit, IndStep, PTL DEF Spec

-----------------------------------------------------------------------------
(* What follows.                                                           *)

\* However many calls of Anchor are under way and however stale their clones, an
\* anchor that was returned is on the branch for good and is about the root it was
\* asked for.
THEOREM ReturnedCorrect == Spec => []ReturnedIsPublished
<1>1. QED
  BY IndCorrect, PTL DEF IndInv

\* No push, answered or not, takes a commit off the branch.
THEOREM HistoryCorrect == Spec => HistoryKept
<1>1. IndInv /\ [Next]_vars => [Ancestor(remote, remote')]_vars
  BY Grows
<1>2. QED
  BY <1>1, IndCorrect, PTL DEF Spec, HistoryKept
=============================================================================
