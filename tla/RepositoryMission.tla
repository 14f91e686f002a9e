-------------------------- MODULE RepositoryMission --------------------------
(***************************************************************************)
(* One guarded repository mission (src/erasmus/repository_missions.py): a  *)
(* patch is validated, applied, tested, committed, pushed and reviewed in a *)
(* local Git repository, up to a draft that waits for a human.             *)
(*                                                                         *)
(* The mission's rows are in SQLite, its work is in Git, and nothing makes *)
(* the two change together: each transaction, each SELECT outside one and  *)
(* each Git command is an action, and between any two of them the process  *)
(* may die, another process may run the same mission, and somebody may     *)
(* change the repository.  A Git command or a check inside a try block may *)
(* fail by itself (a timeout), so a failure branch has no guard.           *)
(*                                                                         *)
(* The declared paths are one value: the content they have in a work tree, *)
(* an index or a commit.  Everything else is "clean" or not.  A snapshot   *)
(* (_repository_snapshot, a dozen Git commands that only read) is one read. *)
(***************************************************************************)
EXTENDS Naturals, Sequences, Functions

CONSTANTS
  Procs,       \* processes that run the mission
  Trees,       \* contents of the declared paths
  Base,        \* their content in the expected base commit
  Patches,     \* the contents that the declared or proposed patch leads to
  Repos,       \* the repositories the mission may find
  Meddling,    \* what else happens to the repository, of MeddlingKinds
  MaxMeddling  \* bound on how often

MeddlingKinds == {"edit", "litter", "commit", "switch"}

\* A commit: the content of the declared paths, and whether its parent is the
\* base and its message the mission's.
CommitType == [tree : Trees, ours : BOOLEAN]
BaseCommit == [tree |-> Base, ours |-> FALSE]
NoTree == "none"
NoCommit == [tree |-> NoTree, ours |-> FALSE]

\* The branch checked out, the main and the mission branch, the index, the
\* work tree, and whether anything outside the declared paths differs.
GitType ==
  [branch : {"main", "mission"}, main : CommitType, ref : CommitType \cup {NoCommit},
   index : Trees, wt : Trees, out : BOOLEAN]

ASSUME RepositoryAssumption ==
  /\ Base \in Trees /\ NoTree \notin Trees
  /\ Patches \subseteq Trees \ {Base}
  /\ Repos \subseteq [branch : {"main"}, main : CommitType, ref : {NoCommit, BaseCommit},
                      index : Trees, wt : Trees, out : BOOLEAN]
  /\ Meddling \subseteq MeddlingKinds
  /\ MaxMeddling \in Nat

Failures == {"blocked", "quarantined", "failed", "rolled_back"}
TERMINAL_STATES == Failures \cup {"awaiting_human"}
NEXT_STATES ==
  [created |-> "authorized", authorized |-> "inspecting", inspecting |-> "branched",
   branched |-> "patch_validated", patch_validated |-> "changed", changed |-> "tested",
   tested |-> "reviewed", reviewed |-> "draft_pr_recorded",
   draft_pr_recorded |-> "awaiting_human"]
States == DOMAIN NEXT_STATES \cup TERMINAL_STATES

NoGit == [branch |-> "none", main |-> NoCommit, ref |-> NoCommit,
          index |-> NoTree, wt |-> NoTree, out |-> FALSE]

VARIABLES
  status,   \* repository_missions.status, "absent" before create
  trail,    \* to_state of the repository_mission_transitions, in order
  patches,  \* data of the evidence rows of kind "patch", in id order
  tests,    \* of kind "test"
  reviews,  \* of kind "review"
  drafts,   \* draft_pull_requests
  git,      \* the local repository
  remote,   \* the mission branch in the local bare origin
  passed,   \* the contents that the declared tests passed on
  committed, \* whether the mission made a commit
  meddled,  \* how often somebody else changed the repository
  pc, loc   \* where each process is, and what it has read

db    == <<status, trail, patches, tests, reviews, drafts>>
world == <<git, remote, passed, committed, meddled>>
vars  == <<db, world, pc, loc>>

Fresh == [state |-> "created", goal |-> "created", seen |-> "absent", tree |-> NoTree,
          ok |-> FALSE, snap |-> NoGit, head |-> NoCommit, clean |-> FALSE]
Locals == [state : States, goal : States, seen : States \cup {"absent"},
           tree : Trees \cup {NoTree}, ok : BOOLEAN, snap : GitType \cup {NoGit},
           head : CommitType \cup {NoCommit}, clean : BOOLEAN]

PCs == {"idle", "raised", "down", "loop", "terminal", "want", "transition",
        "inspect", "branch", "validate", "gate", "apply", "verify", "store_patch",
        "recheck", "before", "copy", "test", "stage", "add", "staged", "store_test",
        "store_failure", "restore_ref", "restore_paths",
        "commit_read", "commit", "commit_check", "push", "review",
        "draft_check", "draft_head", "draft"}

TypeOK ==
  /\ status \in States \cup {"absent"}
  /\ trail \in Seq(States)
  /\ patches \in Seq([patch : Trees, snap : GitType])
  /\ tests \in Seq([ok : BOOLEAN, tree : Trees \cup {NoTree}])
  /\ reviews \in Seq([head : CommitType, patch : Trees])
  /\ drafts \in Seq([head : CommitType, patch : Trees, tree : Trees])
  /\ git \in GitType
  /\ remote \in CommitType \cup {NoCommit}
  /\ passed \subseteq Trees
  /\ committed \in BOOLEAN
  /\ meddled \in 0 .. MaxMeddling
  /\ pc \in [Procs -> PCs]
  /\ loc \in [Procs -> Locals]

Init ==
  /\ status = "absent" /\ trail = <<>>
  /\ patches = <<>> /\ tests = <<>> /\ reviews = <<>> /\ drafts = <<>>
  /\ git \in Repos
  /\ remote = NoCommit
  /\ passed = {} /\ committed = FALSE /\ meddled = 0
  /\ pc = [p \in Procs |-> "idle"]
  /\ loc = [p \in Procs |-> Fresh]

-----------------------------------------------------------------------------
(* Git and evidence.                                                       *)

HeadOf(g) == IF g.branch = "mission" THEN g.ref ELSE g.main

MoveHead(g, c) == IF g.branch = "mission" THEN [g EXCEPT !.ref = c] ELSE [g EXCEPT !.main = c]

\* git status --porcelain prints nothing.
Clean(g) == g.wt = HeadOf(g).tree /\ g.index = HeadOf(g).tree /\ ~g.out

\* _store_evidence: a row with the same data is found, not repeated.
Stored(rows, row) == IF row \in Range(rows) THEN rows ELSE Append(rows, row)

\* _evidence_data.
Latest(rows) == rows[Len(rows)]

-----------------------------------------------------------------------------
(* Control flow of one process.                                            *)

At(p, l) == pc[p] = l
Resting(p) == pc[p] \in {"idle", "raised", "down"}

Goto(p, l, r) ==
  /\ pc' = [pc EXCEPT ![p] = l]
  /\ loc' = [loc EXCEPT ![p] = r]

\* run returns or, having stopped the mission or met rows that contradict it,
\* raises.
Return(p) == Goto(p, "idle", Fresh)

\* An error leaves run from a step that no try block of run is around: a Git
\* command that fails, a capability step that is denied, evidence over the bound.
\* The mission stays in the state it was in.
Raise(p) == Goto(p, "raised", Fresh)

\* _transition(goal), and _transition_terminal(goal).
Transit(p, goal) == Goto(p, "want", [Fresh EXCEPT !.state = loc[p].state, !.goal = goal])
Stop_RaisesOnly(p, goal) == Return(p)
Stop(p, goal) == Goto(p, "terminal", [Fresh EXCEPT !.state = loc[p].state, !.goal = goal])

\* _restore_mission_paths before it.
Restore(p, goal) == Goto(p, "restore_ref", [Fresh EXCEPT !.state = loc[p].state, !.goal = goal])

Create ==
  /\ status = "absent"
  /\ status' = "created"
  /\ trail' = <<"created">>
  /\ UNCHANGED <<patches, tests, reviews, drafts, world, pc, loc>>

\* run up to its loop: the authority of the row, the contract and the policy
\* decisions of the actor and the reviewer either hold or block the mission.
\* A run of a mission that has stopped changes nothing.
Run(p) ==
  /\ Resting(p)
  /\ status \notin TERMINAL_STATES \cup {"absent"}
  /\ Goto(p, "loop", Fresh) \/ Stop(p, "blocked")
  /\ UNCHANGED <<db, world>>

Handler ==
  [inspecting |-> "inspect", branched |-> "validate", patch_validated |-> "recheck",
   changed |-> "recheck", tested |-> "commit_read", reviewed |-> "draft_check"]

\* The evidence of the authority and the HEAD of the draft are outside any try.
Loop(p) ==
  /\ At(p, "loop")
  /\ \/ CASE status \in TERMINAL_STATES -> Return(p)
          [] status \in DOMAIN Handler -> Goto(p, Handler[status], [Fresh EXCEPT !.state = status])
          [] OTHER -> Goto(p, "want", [Fresh EXCEPT !.state = status, !.goal = NEXT_STATES[status]])
     \/ status \in {"created", "draft_pr_recorded"} /\ Raise(p)
  /\ UNCHANGED <<db, world>>

\* _transition_terminal, its own SELECT.
Terminal(p) ==
  /\ At(p, "terminal")
  /\ IF status \in TERMINAL_STATES THEN Return(p) ELSE Goto(p, "want", loc[p])
  /\ UNCHANGED <<db, world>>

Allowed(from, to) ==
  to \in Failures \/ (from \in DOMAIN NEXT_STATES /\ to = NEXT_STATES[from])

\* The loop goes on after a state of NEXT_STATES; after a failure run raises.
Continue(p) == IF loc[p].goal \in Failures THEN Return(p) ELSE Goto(p, "loop", Fresh)

\* _transition_in_transaction: its SELECTs, before any transaction.
Want(p) ==
  /\ At(p, "want")
  /\ CASE status = loc[p].goal -> Continue(p)
       [] status # loc[p].goal /\ Allowed(status, loc[p].goal) ->
            Goto(p, "transition", [loc[p] EXCEPT !.seen = status])
       [] OTHER -> Return(p)
  /\ UNCHANGED <<db, world>>

\* UPDATE ... WHERE id = ? AND status = ?, and its rowcount.
Unmoved_Unchecked(p) == TRUE
Unmoved(p) == status = loc[p].seen

Transition(p) ==
  /\ At(p, "transition")
  /\ IF Unmoved(p)
       THEN /\ status' = loc[p].goal
            /\ trail' = Append(trail, loc[p].goal)
            /\ Continue(p)
       ELSE UNCHANGED <<status, trail>> /\ Return(p)
  /\ UNCHANGED <<patches, tests, reviews, drafts, world>>

-----------------------------------------------------------------------------
(* inspecting and branched: the base, the branch and the patch.            *)

\* _inspect_base.
InspectBase(p) ==
  /\ At(p, "inspect")
  /\ \/ HeadOf(git) = BaseCommit /\ Clean(git) /\ Goto(p, "branch", loc[p])
     \/ Stop(p, "blocked")
  /\ UNCHANGED <<db, world>>

\* _ensure_mission_branch: git switch -c refuses a branch that exists.
EnsureBranch(p) ==
  /\ At(p, "branch")
  /\ \/ git.branch = "mission" /\ Transit(p, "branched") /\ UNCHANGED git
     \/ /\ git.branch # "mission" /\ git.ref = NoCommit
        /\ git' = [git EXCEPT !.branch = "mission", !.ref = HeadOf(git)]
        /\ Transit(p, "branched")
     \/ Stop(p, "blocked") /\ UNCHANGED git
  /\ UNCHANGED <<db, remote, passed, committed, meddled>>

OnCleanBase == git.branch = "mission" /\ HeadOf(git) = BaseCommit /\ Clean(git)

\* _validate_branched_state.
ValidateBranch(p) ==
  /\ At(p, "validate")
  /\ \/ OnCleanBase /\ Goto(p, "gate", loc[p])
     \/ Stop(p, "blocked")
  /\ UNCHANGED <<db, world>>

\* _obtain_patch, and PatchGate up to git apply: a patch that is malformed,
\* out of scope or stale is quarantined, a missing provider blocks.
Gate(p) ==
  /\ At(p, "gate")
  /\ \/ /\ HeadOf(git) = BaseCommit /\ Clean(git)
        /\ \E t \in Patches : Goto(p, "apply", [loc[p] EXCEPT !.tree = t])
     \/ Restore(p, "quarantined")
     \/ Restore(p, "blocked")
  /\ UNCHANGED <<db, world>>

\* git apply --check and git apply: what they patch is what they find.
Apply(p) ==
  /\ At(p, "apply")
  /\ \/ /\ git.wt = Base
        /\ git' = [git EXCEPT !.wt = loc[p].tree]
        /\ Goto(p, "verify", loc[p])
     \/ Restore(p, "quarantined") /\ UNCHANGED git
  /\ UNCHANGED <<db, remote, passed, committed, meddled>>

\* The paths changed against HEAD are those of the patch and no other.  What
\* the gate itself restores when they are not, the handler restores again.
OnlyDeclaredPaths == git.wt # HeadOf(git).tree /\ ~git.out

VerifyPatch(p) ==
  /\ At(p, "verify")
  /\ \/ OnlyDeclaredPaths /\ Goto(p, "store_patch", loc[p])
     \/ Restore(p, "quarantined")
  /\ UNCHANGED <<db, world>>

\* _store_patch_evidence: the digest of the patch and a snapshot taken now.
StorePatch(p) ==
  /\ At(p, "store_patch")
  /\ \/ /\ patches' = Stored(patches, [patch |-> loc[p].tree, snap |-> git])
        /\ Transit(p, "patch_validated")
     \/ Raise(p) /\ UNCHANGED patches
  /\ UNCHANGED <<status, trail, tests, reviews, drafts, world>>

-----------------------------------------------------------------------------
(* patch_validated and changed: the same change is still there; the tests. *)

\* _validate_changed_paths and _validate_patch_snapshot, for both states.
Unchanged_PathsOnly == OnlyDeclaredPaths
Unchanged == OnlyDeclaredPaths /\ Latest(patches).snap = git

\* The capability step of the tests is outside the try.
Recheck(p) ==
  /\ At(p, "recheck")
  /\ \/ Unchanged /\ loc[p].state = "patch_validated" /\ Transit(p, "changed")
     \/ Unchanged /\ loc[p].state = "changed" /\ (Goto(p, "before", loc[p]) \/ Raise(p))
     \/ Restore(p, "blocked")
  /\ UNCHANGED <<db, world>>

\* _run_test_command: a snapshot, a clone with the work tree's declared paths,
\* the tests in the clone, and the snapshot again.
TestBefore(p) ==
  /\ At(p, "before")
  /\ Goto(p, "copy", [loc[p] EXCEPT !.snap = git])
  /\ UNCHANGED <<db, world>>

TestCopy(p) ==
  /\ At(p, "copy")
  /\ Goto(p, "test", [loc[p] EXCEPT !.tree = git.wt]) \/ Goto(p, "store_failure", loc[p])
  /\ UNCHANGED <<db, world>>

Test(p) ==
  /\ At(p, "test")
  /\ \/ /\ git = loc[p].snap
        /\ \E ok \in BOOLEAN :
             /\ passed' = IF ok THEN passed \cup {loc[p].tree} ELSE passed
             /\ Goto(p, "stage", [loc[p] EXCEPT !.ok = ok])
     \/ Goto(p, "store_failure", loc[p]) /\ UNCHANGED passed
  /\ UNCHANGED <<db, git, remote, committed, meddled>>

\* _prepare_commit_tree, of passing and failing tests alike: nothing changed
\* since the tests, git add, and nothing but the index changed since.
SinceTests(p) == git = loc[p].snap

Stage(p) ==
  /\ At(p, "stage")
  /\ \/ SinceTests(p) /\ Goto(p, "add", loc[p])
     \/ Stop(p, "blocked")
  /\ UNCHANGED <<db, world>>

Add(p) ==
  /\ At(p, "add")
  /\ \/ git' = [git EXCEPT !.index = git.wt] /\ Goto(p, "staged", loc[p])
     \/ Stop(p, "blocked") /\ UNCHANGED git
  /\ UNCHANGED <<db, remote, passed, committed, meddled>>

\* git write-tree and the snapshot as one read: an index that changed between
\* them is refused.
StagedOnly_Unchecked(p) == TRUE
StagedOnly(p) == git = [loc[p].snap EXCEPT !.index = git.index]

Staged(p) ==
  /\ At(p, "staged")
  /\ \/ StagedOnly(p) /\ Goto(p, "store_test", [loc[p] EXCEPT !.tree = git.index])
     \/ Stop(p, "blocked")
  /\ UNCHANGED <<db, world>>

TestPassed_Always(l) == TRUE
TestPassed(l) == l.ok

StoreTest(p) ==
  /\ At(p, "store_test")
  /\ \/ /\ tests' = Stored(tests, [ok |-> loc[p].ok, tree |-> loc[p].tree])
        /\ IF TestPassed(loc[p]) THEN Transit(p, "tested") ELSE Restore(p, "rolled_back")
     \/ Raise(p) /\ UNCHANGED tests
  /\ UNCHANGED <<status, trail, patches, reviews, drafts, world>>

\* The handler of _run_test_command: evidence without a tree.
StoreFailure(p) ==
  /\ At(p, "store_failure")
  /\ \/ /\ tests' = Stored(tests, [ok |-> FALSE, tree |-> NoTree])
        /\ Restore(p, "rolled_back")
     \/ Raise(p) /\ UNCHANGED tests
  /\ UNCHANGED <<status, trail, patches, reviews, drafts, world>>

-----------------------------------------------------------------------------
(* _restore_mission_paths, on the way to a failure.                        *)

\* Only the branched state's handler catches an error of the restoration; from
\* the others it escapes, and the mission stays in the state it was in.
RestoreFails(p) == IF loc[p].state = "branched" THEN Stop(p, "blocked") ELSE Raise(p)

\* On the mission branch, git update-ref back to the base.
RestoreRef(p) ==
  /\ At(p, "restore_ref")
  /\ \/ /\ git.branch = "mission"
        /\ git' = [git EXCEPT !.ref = BaseCommit]
        /\ Goto(p, "restore_paths", loc[p])
     \/ RestoreFails(p) /\ UNCHANGED git
  /\ UNCHANGED <<db, remote, passed, committed, meddled>>

Restored == [git EXCEPT !.index = Base, !.wt = Base]

\* git restore and git clean of the declared paths, either of which may fail, and
\* the verification; rolled_back is a plain _transition.
RestorePaths(p) ==
  /\ At(p, "restore_paths")
  /\ \/ /\ git.branch = "mission" /\ git.ref = BaseCommit /\ ~git.out
        /\ git' = Restored
        /\ Goto(p, IF loc[p].goal = "rolled_back" THEN "want" ELSE "terminal", loc[p])
     \/ git' \in {git, Restored} /\ RestoreFails(p)
  /\ UNCHANGED <<db, remote, passed, committed, meddled>>

-----------------------------------------------------------------------------
(* tested: commit, push and review.                                        *)

\* The handler of the tested state reads HEAD before it stops the mission or
\* restores anything, and nothing is around that.
Refuse(p) == Stop(p, "blocked") \/ Raise(p)

\* A test that could not run left neither tree nor output digest: reading them
\* is a KeyError, which nobody catches.
HasResult_Always(row) == TRUE
HasResult(row) == row.tree # NoTree

\* _commit_and_push: the status, the test evidence, the branch and HEAD.
CommitRead(p) ==
  /\ At(p, "commit_read")
  /\ \/ /\ HasResult(Latest(tests))
        /\ git.branch = "mission"
        /\ Goto(p, IF HeadOf(git) = BaseCommit THEN "commit" ELSE "commit_check",
                [loc[p] EXCEPT !.tree = Latest(tests).tree, !.head = HeadOf(git),
                               !.clean = Clean(git)])
     \/ ~HasResult(Latest(tests)) /\ Return(p)
     \/ Refuse(p)
  /\ UNCHANGED <<db, world>>

\* git write-tree and git commit, which refuses to commit nothing.
StagedTree(p) == git.index = loc[p].tree

Commit(p) ==
  /\ At(p, "commit")
  /\ \/ /\ StagedTree(p)
        /\ git.index # HeadOf(git).tree
        /\ git' = MoveHead(git, [tree |-> git.index, ours |-> HeadOf(git) = BaseCommit])
        /\ committed' = TRUE
        /\ Goto(p, "commit_check", loc[p])
     \/ ~StagedTree(p) /\ Restore(p, "blocked") /\ UNCHANGED <<git, committed>>
     \/ Refuse(p) /\ UNCHANGED <<git, committed>>
  /\ UNCHANGED <<db, remote, passed, meddled>>

\* HEAD is the mission's commit of the tested tree, whoever made it.  The handler
\* restores when the message says "commit tree" or "merge commit": another tree,
\* a merge, and Git failing to tell the tree.
CommitCheck(p) ==
  LET head == HeadOf(git)
  IN  /\ At(p, "commit_check")
      /\ \/ /\ head # BaseCommit /\ head.tree = loc[p].tree /\ head.ours
            /\ loc[p].clean \/ loc[p].head = BaseCommit
            /\ Goto(p, "push", [loc[p] EXCEPT !.head = head])
         \/ head # BaseCommit /\ Restore(p, "blocked")
         \/ Refuse(p)
      /\ UNCHANGED <<db, world>>

PushFails_RollsBack(p) == Restore(p, "rolled_back")
PushFails(p) == Refuse(p)

\* git push of the branch, as it is now, unless that rewinds the origin's.
Push(p) ==
  /\ At(p, "push")
  /\ \/ /\ git.ref # BaseCommit \/ remote \in {NoCommit, BaseCommit}
        /\ remote' = git.ref
        /\ Goto(p, "review", loc[p])
     \/ PushFails(p) /\ UNCHANGED remote
  /\ UNCHANGED <<db, git, passed, committed, meddled>>

\* A reviewer's attestation of this HEAD and of the patch's diff, or a refusal; the
\* capability step and the evidence of the review are outside any try.
Review(p) ==
  /\ At(p, "review")
  /\ \/ /\ reviews' = Stored(reviews, [head |-> loc[p].head, patch |-> Latest(patches).patch])
        /\ Transit(p, "reviewed")
     \/ (Stop(p, "blocked") \/ Raise(p)) /\ UNCHANGED reviews
  /\ UNCHANGED <<status, trail, patches, tests, drafts, world>>

-----------------------------------------------------------------------------
(* reviewed: the draft.                                                    *)

\* _record_draft, with no try around it: HEAD, status and branch against the review.
Reviewed == HeadOf(git) = Latest(reviews).head /\ Clean(git) /\ git.branch = "mission"

DraftCheck(p) ==
  /\ At(p, "draft_check")
  /\ \/ Reviewed /\ Goto(p, "draft_head", loc[p])
     \/ ~Reviewed /\ Stop(p, "blocked")
     \/ Raise(p)
  /\ UNCHANGED <<db, world>>

\* The evidence rows and HEAD once more, now as the draft's head.
DraftHead(p) ==
  /\ At(p, "draft_head")
  /\ \/ /\ HasResult(Latest(tests))
        /\ Goto(p, "draft", [loc[p] EXCEPT !.head = HeadOf(git), !.tree = Latest(tests).tree])
     \/ ~HasResult(Latest(tests)) /\ Return(p)
     \/ Raise(p)
  /\ UNCHANGED <<db, world>>

\* The INSERT opens the transaction, so the status is read under its lock;
\* UNIQUE(mission_id) and an illegal transition roll it back.
Recordable == drafts = <<>> /\ Allowed(status, "draft_pr_recorded")

Draft(p) ==
  /\ At(p, "draft")
  /\ IF Recordable
       THEN /\ drafts' = Append(drafts, [head |-> loc[p].head, patch |-> Latest(patches).patch,
                                         tree |-> loc[p].tree])
            /\ status' = "draft_pr_recorded"
            /\ trail' = Append(trail, "draft_pr_recorded")
            /\ Goto(p, "loop", Fresh)
       ELSE UNCHANGED <<drafts, status, trail>> /\ Return(p)
  /\ UNCHANGED <<patches, tests, reviews, world>>

-----------------------------------------------------------------------------
(* What may happen at any time.                                            *)

\* The process dies, or an error of SQLite or the operating system escapes.
Crash(p) ==
  /\ ~Resting(p)
  /\ Goto(p, "down", Fresh)
  /\ UNCHANGED <<db, world>>

\* Somebody edits a declared path, adds or removes a file elsewhere, commits
\* the work tree (with the mission's message, perhaps), or switches branches in
\* a clean one.
Edit == \E t \in Trees \ {git.wt} : git' = [git EXCEPT !.wt = t]
Litter == git' = [git EXCEPT !.out = ~@]
CommitElsewhere ==
  /\ git.wt # HeadOf(git).tree /\ git.wt # Base
  /\ \E mimics \in BOOLEAN :
       git' = MoveHead([git EXCEPT !.index = git.wt],
                       [tree |-> git.wt, ours |-> mimics /\ HeadOf(git) = BaseCommit])
Switch ==
  LET to == IF git.branch = "main" THEN "mission" ELSE "main"
      there == [git EXCEPT !.branch = to]
  IN  /\ Clean(git) /\ HeadOf(there) # NoCommit
      /\ git' = [there EXCEPT !.index = HeadOf(there).tree, !.wt = HeadOf(there).tree]

Meddle ==
  /\ meddled < MaxMeddling
  /\ meddled' = meddled + 1
  /\ \/ "edit" \in Meddling /\ Edit
     \/ "litter" \in Meddling /\ Litter
     \/ "commit" \in Meddling /\ CommitElsewhere
     \/ "switch" \in Meddling /\ Switch
  /\ UNCHANGED <<db, remote, passed, committed, pc, loc>>

Work(p) ==
  \/ Loop(p) \/ Terminal(p) \/ Want(p) \/ Transition(p)
  \/ InspectBase(p) \/ EnsureBranch(p) \/ ValidateBranch(p) \/ Gate(p) \/ Apply(p)
  \/ VerifyPatch(p) \/ StorePatch(p) \/ Recheck(p) \/ TestBefore(p) \/ TestCopy(p)
  \/ Test(p) \/ Stage(p) \/ Add(p) \/ Staged(p) \/ StoreTest(p) \/ StoreFailure(p)
  \/ RestoreRef(p) \/ RestorePaths(p) \/ CommitRead(p) \/ Commit(p) \/ CommitCheck(p)
  \/ Push(p) \/ Review(p) \/ DraftCheck(p) \/ DraftHead(p) \/ Draft(p)

Next ==
  \/ Create \/ Meddle
  \/ \E p \in Procs : Run(p) \/ Work(p) \/ Crash(p)

Spec == Init /\ [][Next]_vars

\* A running process is scheduled, and a mission that has not stopped is run again.
FairSpec == Spec /\ \A p \in Procs : WF_vars(Work(p)) /\ WF_vars(Run(p))
-----------------------------------------------------------------------------
(* Properties of any number of processes.                                  *)

\* Whoever else runs the mission, each state of the guarded path is entered at
\* most once and only from the one before it, and at most one draft is recorded
\* ("concurrent repository mission transition rejected").
PathOnce ==
  /\ \A i, j \in DOMAIN trail : trail[i] = trail[j] /\ i # j => trail[i] \in Failures
  /\ \A i \in DOMAIN trail \ {1} :
       trail[i] \in Failures \/ Allowed(trail[i - 1], trail[i])
  /\ Len(drafts) <= 1

\* What is in the origin is a tree that the declared tests passed on.
PublishedIsTested == remote # NoCommit => remote.tree \in passed

-----------------------------------------------------------------------------
(* Properties of one process at a time, dying and resuming.                *)

\* The draft that waits for a human names the commit that was reviewed and
\* published, whose tree is the one recorded by tests that passed.
DraftIsReviewed ==
  \A i \in DOMAIN drafts :
    /\ drafts[i].head = Latest(reviews).head
    /\ drafts[i].head = remote
    /\ drafts[i].head.tree = drafts[i].tree
    /\ drafts[i].tree \in passed

\* A patch that was refused, or whose tests failed, left no commit anywhere.
RefusedIsUnpublished ==
  status \in {"quarantined", "rolled_back"} => ~committed /\ remote = NoCommit

\* In a repository that nobody else changed, run never stumbles over what an
\* earlier run of the mission left, wherever that one died or raised: it ends
\* with the mission stopped, unless an error escapes from a step outside its try
\* blocks (Raise).  It never ends on an illegal or concurrent transition, on test
\* evidence without a result or on a second draft with the mission unsettled.
RunSettles ==
  [][\A p \in Procs :
       ~Resting(p) /\ At(p, "idle")' /\ meddled = 0 => status' \in TERMINAL_STATES]_vars

\* There, if processes stop dying and errors stop escaping, a mission that is run
\* again as long as it has not stopped does stop.  What is denied or fails for
\* good is such an error each time.
Failing == \E p \in Procs : ~Resting(p) /\ pc'[p] \in {"raised", "down"}
Settles ==
  <>[][~Failing]_vars => (status # "absent" ~> status \in TERMINAL_STATES \/ meddled > 0)

-----------------------------------------------------------------------------
(* What one process implements.                                            *)

Delivery == INSTANCE GuardedDelivery WITH
  Path      <- NEXT_STATES,
  Refusals  <- Failures,
  None      <- NoTree,
  state     <- status,
  published <- remote.tree,
  draft     <- IF drafts = <<>> THEN NoTree ELSE drafts[1].head.tree

\* However often the process dies, and whoever edits the declared paths once,
\* the mission is a guarded delivery of a tested tree.
ImplementsGuardedDelivery == Delivery!Spec

-----------------------------------------------------------------------------
(* A claim of the design that the code does not keep.                      *)

\* "A mismatch blocks rather than guessing or repairing silently": a run whose
\* restoration meets a stray file leaves the mission stopped.
MismatchBlocks ==
  [][\A p \in Procs : At(p, "restore_paths") /\ git.out /\ At(p, "raised")'
                        => status' \in TERMINAL_STATES]_vars
=============================================================================
