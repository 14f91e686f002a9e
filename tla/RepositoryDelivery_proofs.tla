---------------------- MODULE RepositoryDelivery_proofs ----------------------
(***************************************************************************)
(* Proofs about RepositoryMission with one process, which may die and run  *)
(* again any number of times while somebody else changes the repository.   *)
(*                                                                         *)
(* If a file is edited or left lying about once, it implements             *)
(* GuardedDelivery and drafts only what was reviewed.  If any one thing is *)
(* done, a commit or a switch of branches among them, it still publishes   *)
(* only what was tested.  Whatever is done and however often, what it      *)
(* refused is not published, and until it is done every run settles.       *)
(*                                                                         *)
(* Two edits, the second undoing the first between git add and             *)
(* git write-tree, are enough to publish what was not tested, so the       *)
(* bound of one is part of those theorems and not of the proof.            *)
(***************************************************************************)
EXTENDS RepositoryMission_proofs

-----------------------------------------------------------------------------
(* The inductive invariant.                                                *)

\* The mission is run by one process, which dies and is run again.
OneProcess == \A p, q \in Procs : p = q

\* Somebody may change files once, and nobody else commits or switches.
OneEdit == Meddling \subseteq {"edit", "litter"} /\ MaxMeddling <= 1

\* The commit of the tree that the last test recorded, and the work tree that
\* the last patch left.
TestedCommit == [tree |-> Latest(tests).tree, ours |-> TRUE]
Target == Latest(patches).snap.wt

OnTarget == \A i \in DOMAIN tests : tests[i].tree \in {NoTree, Target}

\* The one edit was made, and the work tree is no longer what the patch left.
Spent == meddled = 1 /\ (git.wt # Target \/ git.wt = Base)

BeforeTested == {"absent", "created", "authorized", "inspecting", "branched",
                 "patch_validated", "changed"}

Unpublished ==
  /\ ~committed /\ remote = NoCommit /\ reviews = <<>>
  /\ git.branch = "mission" => git.ref = BaseCommit

Publishable ==
  /\ tests # <<>> /\ Latest(tests).tree \in passed \cup {NoTree}
  /\ git.branch = "mission" /\ git.ref \in {BaseCommit, TestedCommit}
  /\ remote \in {NoCommit, TestedCommit}
  /\ \A i \in DOMAIN reviews : reviews[i].head = TestedCommit

Drafted ==
  /\ status \in {"draft_pr_recorded", "awaiting_human"} \cup Failures
  /\ reviews # <<>> /\ Publishable /\ remote = TestedCommit
  /\ drafts[1].head = TestedCommit /\ drafts[1].tree = Latest(tests).tree

DeliveryInv ==
  /\ status \in BeforeTested \cup {"quarantined", "rolled_back"} => Unpublished
  /\ status \in WithTest => Publishable
  /\ status \in Failures => Unpublished \/ Publishable
  /\ status \in WithReview => remote = TestedCommit
  /\ drafts # <<>> => Drafted
  /\ status \in {"branched", "patch_validated", "changed"} => git.branch = "mission"
  /\ status \in BeforeTested \ {"changed"} => tests = <<>>
  /\ \A i \in DOMAIN patches : patches[i].snap.index = Base
  /\ status = "changed" => OnTarget \/ Spent
  /\ status = "changed" /\ meddled = 0 /\ (\E i \in DOMAIN tests : tests[i].ok) =>
       git.index # Base \/ git.wt = Base
  /\ status \in WithTest /\ meddled = 0 => Latest(tests).tree # NoTree

\* What such a process relies on.
Owns(l, r) ==
  /\ l \in {"inspect", "branch"} => status = "inspecting" /\ r.state = status
  /\ l = "branch" => HeadOf(git) = BaseCommit
  /\ l \in {"validate", "gate", "apply", "verify", "store_patch"} =>
       status = "branched" /\ r.state = status
  /\ l \in {"apply", "verify", "store_patch"} => git.index = Base
  /\ l = "recheck" => status \in {"patch_validated", "changed"} /\ r.state = status
  /\ l \in {"before", "copy", "test", "stage", "add", "staged", "store_test", "store_failure"} =>
       /\ status = "changed" /\ r.state = status /\ OnTarget
       /\ meddled = 0 => \A i \in DOMAIN tests : ~tests[i].ok
  /\ l = "before" => git.wt = Target \/ meddled = 1
  /\ l \in {"copy", "test", "stage", "add", "staged"} =>
       (git.wt = r.snap.wt /\ r.snap.wt = Target) \/ meddled = 1
  /\ l = "test" => r.tree = r.snap.wt \/ git.wt # r.snap.wt
  /\ l \in {"stage", "add", "staged"} => (r.ok => r.snap.wt \in passed)
  /\ l = "staged" => git.index = git.wt \/ git.wt # r.snap.wt
  /\ l = "store_test" =>
       /\ r.tree # NoTree /\ (r.ok => r.tree \in passed)
       /\ r.tree = Target \/ (meddled = 1 /\ git.wt = r.tree)
       /\ meddled = 0 => git.index = git.wt
  /\ l \in {"commit_read", "commit", "commit_check", "push", "review"} => status = "tested"
  /\ l \in {"commit", "commit_check"} => r.tree = Latest(tests).tree /\ r.tree \in passed
  /\ l = "commit" => git.ref = BaseCommit
  /\ l = "push" => git.ref = TestedCommit /\ r.head = TestedCommit
  /\ l = "review" => remote = TestedCommit /\ r.head = TestedCommit
  /\ l \in {"draft_check", "draft_head", "draft"} => status = "reviewed"
  /\ l = "draft_head" => HeadOf(git) = TestedCommit
  /\ l = "draft" => r.head = TestedCommit /\ r.tree = Latest(tests).tree
  /\ l \in {"want", "transition", "terminal", "restore_ref", "restore_paths"} =>
       /\ status \in DOMAIN NEXT_STATES
       /\ r.goal = "quarantined" => status = "branched"
       /\ r.goal = "rolled_back" => status = "changed"
  /\ l \in {"want", "transition"} =>
       /\ r.goal \notin Failures => status # "reviewed" /\ r.goal = NEXT_STATES[status]
       /\ r.goal = "branched" => git.branch = "mission"
       /\ r.goal = "tested" =>
            /\ passed # {} /\ Latest(tests).tree \in passed \cup {NoTree}
            /\ meddled = 0 => Latest(tests).tree # NoTree
       /\ r.goal = "reviewed" => remote = TestedCommit
  /\ l = "transition" => r.seen = status

AloneInv ==
  /\ DeliveryInv
  /\ \A p \in Procs : Owns(pc[p], loc[p])

-----------------------------------------------------------------------------
(* Moves of the one process.                                               *)

LEMMA Moved ==
  ASSUME RepositoryInv, NEW p \in Procs, NEW l, NEW r, Goto(p, l, r)
  PROVE  pc'[p] = l /\ loc'[p] = r
BY DEF RepositoryInv, TypeOK, Goto

LEMMA AloneStep ==
  ASSUME OneProcess, NEW p \in Procs, DeliveryInv', Owns(pc[p], loc[p])'
  PROVE  AloneInv'
<1>1. \A q \in Procs : q = p
  BY DEF OneProcess
<1> QED BY <1>1 DEF AloneInv

\* The rows and the repository stay as they are.
LEMMA DeliveryStays ==
  ASSUME AloneInv, UNCHANGED <<db, world>>
  PROVE  DeliveryInv'
BY DEF AloneInv, DeliveryInv, Unpublished, Publishable, Drafted, OnTarget, Spent, TestedCommit,
       Target, db, world

LEMMA ReturnOwns ==
  ASSUME RepositoryInv, NEW p \in Procs, Return(p) \/ Raise(p)
  PROVE  Owns(pc[p], loc[p])'
<1>1. pc'[p] \in {"idle", "raised"}
  BY Moved DEF Return, Raise
<1> QED BY <1>1 DEF Owns

LEMMA LoopOwns ==
  ASSUME RepositoryInv, NEW p \in Procs, NEW r, Goto(p, "loop", r)
  PROVE  Owns(pc[p], loc[p])'
<1>1. pc'[p] = "loop"
  BY Moved
<1> QED BY <1>1 DEF Owns

LEMMA FailureOwns ==
  ASSUME RepositoryInv, NEW p \in Procs, NEW g \in Failures, Stop(p, g) \/ Restore(p, g),
         status' \in DOMAIN NEXT_STATES,
         g = "quarantined" => status' = "branched", g = "rolled_back" => status' = "changed"
  PROVE  Owns(pc[p], loc[p])'
<1> DEFINE r == [Fresh EXCEPT !.state = loc[p].state, !.goal = g]
<1>1. r.goal = g
  <2>1. loc[p].state \in States /\ g \in States
    BY LocalTypes, StateTypes
  <2> QED BY <2>1, GoalTypes
<1>2. Goto(p, "terminal", r) \/ Goto(p, "restore_ref", r)
  BY DEF Stop, Restore
<1> HIDE DEF r
<1>3. pc'[p] \in {"terminal", "restore_ref"} /\ loc'[p] = r
  BY <1>2, Moved
<1> QED BY <1>1, <1>3 DEF Owns

\* On the way to the next state of the path.
LEMMA TransitOwns ==
  ASSUME RepositoryInv, NEW p \in Procs, NEW g \in States \ Failures, Transit(p, g),
         status' \in DOMAIN NEXT_STATES \ {"reviewed"}, g = NEXT_STATES[status'],
         g = "branched" => git'.branch = "mission",
         g = "tested" =>
           /\ passed' # {} /\ Latest(tests').tree \in passed' \cup {NoTree}
           /\ meddled' = 0 => Latest(tests').tree # NoTree,
         g = "reviewed" => remote' = TestedCommit'
  PROVE  Owns(pc[p], loc[p])'
<1> DEFINE r == [Fresh EXCEPT !.state = loc[p].state, !.goal = g]
<1>1. r.goal = g
  <2>1. loc[p].state \in States /\ g \in States
    BY LocalTypes
  <2> QED BY <2>1, GoalTypes
<1>2. Goto(p, "want", r)
  BY DEF Transit
<1> HIDE DEF r
<1>3. pc'[p] = "want" /\ loc'[p] = r
  BY <1>2, Moved
<1>4. g \notin {"quarantined", "rolled_back"}
  BY DEF Failures
<1> QED BY <1>1, <1>3, <1>4 DEF Owns

-----------------------------------------------------------------------------
(* Steps that read: the rows and the repository stay as they are.          *)

\* What the state says when the mission has not stopped.
LEMMA Path ==
  /\ \A s \in States : s \notin TERMINAL_STATES => s \in DOMAIN NEXT_STATES
  /\ \A s \in DOMAIN NEXT_STATES : s \notin TERMINAL_STATES /\ NEXT_STATES[s] \notin Failures
  /\ DOMAIN NEXT_STATES =
       {"created", "authorized", "inspecting", "branched", "patch_validated", "changed",
        "tested", "reviewed", "draft_pr_recorded"}
BY DEF States, NEXT_STATES, TERMINAL_STATES, Failures

LEMMA StopAlone ==
  ASSUME RepositoryInv, OneProcess, AloneInv, NEW p \in Procs, UNCHANGED <<db, world>>,
         status \in DOMAIN NEXT_STATES, Stop(p, "blocked") \/ Restore(p, "blocked")
  PROVE  AloneInv'
<1>1. DeliveryInv'
  BY DeliveryStays
<1>2. Owns(pc[p], loc[p])'
  <2>1. "blocked" \in Failures /\ status' \in DOMAIN NEXT_STATES
    BY DEF db, Failures
  <2> QED BY <2>1, FailureOwns
<1> QED BY <1>1, <1>2, AloneStep

LEMMA ReturnAlone ==
  ASSUME RepositoryInv, OneProcess, AloneInv, NEW p \in Procs, UNCHANGED <<db, world>>,
         Return(p) \/ Raise(p)
  PROVE  AloneInv'
BY DeliveryStays, ReturnOwns, AloneStep

\* What the process relied on in its own words.
LEMMA Relies ==
  ASSUME RepositoryInv, AloneInv, NEW p \in Procs
  PROVE  Owns(pc[p], loc[p]) /\ DeliveryInv /\ loc[p] \in Locals
BY LocalTypes DEF AloneInv

LEMMA RunAlone ==
  ASSUME RepositoryInv, OneProcess, AloneInv, NEW p \in Procs, Run(p)
  PROVE  AloneInv'
<1>1. status \in DOMAIN NEXT_STATES
  BY Path DEF Run, RepositoryInv, TypeOK
<1>2. CASE Goto(p, "loop", Fresh)
  BY <1>2, DeliveryStays, LoopOwns, AloneStep DEF Run
<1>3. CASE Stop(p, "blocked")
  BY <1>1, <1>3, StopAlone DEF Run
<1> QED BY <1>2, <1>3 DEF Run

LEMMA LoopAlone ==
  ASSUME RepositoryInv, OneProcess, AloneInv, NEW p \in Procs, Loop(p)
  PROVE  AloneInv'
<1>1. status \in States
  BY AtWork DEF Loop, At, Resting
<1>2. CASE Return(p) \/ Raise(p)
  BY <1>2, ReturnAlone DEF Loop
<1>3. CASE /\ status \in DOMAIN Handler
           /\ Goto(p, Handler[status], [Fresh EXCEPT !.state = status])
  <2>1. [Fresh EXCEPT !.state = status].state = status
    <3>1. Fresh \in Locals
      BY FreshType
    <3> QED BY <3>1 DEF Locals
  <2>2. pc'[p] = Handler[status] /\ loc'[p].state = status
    BY <1>3, <2>1, Moved
  <2>3. \/ status = "inspecting" /\ pc'[p] = "inspect"
        \/ status = "branched" /\ pc'[p] = "validate"
        \/ status \in {"patch_validated", "changed"} /\ pc'[p] = "recheck"
        \/ status = "tested" /\ pc'[p] = "commit_read"
        \/ status = "reviewed" /\ pc'[p] = "draft_check"
    BY <1>3, <2>2 DEF Handler
  <2>4. status' = status
    BY DEF Loop, db
  <2>5. Owns(pc[p], loc[p])'
    BY <2>2, <2>3, <2>4 DEF Owns
  <2> QED BY <2>5, DeliveryStays, AloneStep DEF Loop
<1>4. CASE /\ status \notin TERMINAL_STATES /\ status \notin DOMAIN Handler
           /\ Goto(p, "want", [Fresh EXCEPT !.state = status, !.goal = NEXT_STATES[status]])
  <2>1. /\ status \in {"created", "authorized", "draft_pr_recorded"}
        /\ NEXT_STATES[status] \in {"authorized", "inspecting", "awaiting_human"}
        /\ NEXT_STATES[status] \in States
    BY <1>1, <1>4 DEF States, NEXT_STATES, TERMINAL_STATES, Handler, Failures
  <2>2. [Fresh EXCEPT !.state = status, !.goal = NEXT_STATES[status]].goal = NEXT_STATES[status]
    BY <1>1, <2>1, GoalTypes
  <2>3. pc'[p] = "want" /\ loc'[p].goal = NEXT_STATES[status]
    BY <1>4, <2>2, Moved
  <2>4. status' = status
    BY DEF Loop, db
  <2>5. status \in DOMAIN NEXT_STATES /\ status # "reviewed"
    BY <2>1, Path
  <2> HIDE DEF NEXT_STATES
  <2>6. Owns(pc[p], loc[p])'
    BY <2>1, <2>3, <2>4, <2>5 DEF Owns
  <2> QED BY <2>6, DeliveryStays, AloneStep DEF Loop
<1> QED BY <1>1, <1>2, <1>3, <1>4 DEF Loop

LEMMA TerminalAlone ==
  ASSUME RepositoryInv, OneProcess, AloneInv, NEW p \in Procs, Terminal(p)
  PROVE  AloneInv'
<1>1. CASE Return(p)
  BY <1>1, ReturnAlone DEF Terminal
<1>2. CASE Goto(p, "want", loc[p])
  <2>1. pc'[p] = "want" /\ loc'[p] = loc[p] /\ status' = status /\ pc[p] = "terminal"
    BY <1>2, Moved DEF Terminal, db, At
  <2>2. Knows("terminal", loc[p])
    BY <2>1, AtWork
  <2>3. loc[p].goal \in Failures
    BY <2>2 DEF Knows
  <2>4. Owns(pc[p], loc[p])'
    BY <2>1, <2>3, Relies DEF Owns, Failures
  <2> QED BY <2>4, DeliveryStays, AloneStep DEF Terminal
<1> QED BY <1>1, <1>2 DEF Terminal

\* A process that goes on, in its loop or no more.
LEMMA ContinueOwns ==
  ASSUME RepositoryInv, NEW p \in Procs, Continue(p)
  PROVE  Owns(pc[p], loc[p])'
BY ReturnOwns, LoopOwns DEF Continue

LEMMA WantAlone ==
  ASSUME RepositoryInv, OneProcess, AloneInv, NEW p \in Procs, Want(p)
  PROVE  AloneInv'
<1>1. CASE Continue(p)
  BY <1>1, ContinueOwns, DeliveryStays, AloneStep DEF Want
<1>2. CASE Return(p)
  BY <1>2, ReturnAlone DEF Want
<1>3. CASE Goto(p, "transition", [loc[p] EXCEPT !.seen = status])
  <2>1. loc[p] \in Locals /\ status \in States
    BY Relies, AtWork DEF Want, At, Resting
  <2>2. /\ [loc[p] EXCEPT !.seen = status].seen = status
        /\ [loc[p] EXCEPT !.seen = status].goal = loc[p].goal
    BY <2>1 DEF Locals
  <2>3. pc'[p] = "transition" /\ loc'[p].seen = status /\ loc'[p].goal = loc[p].goal
    BY <1>3, <2>2, Moved
  <2>4. Owns(pc[p], loc[p])'
    BY <2>3, Relies DEF Owns, Want, At, db, world, TestedCommit
  <2> QED BY <2>4, DeliveryStays, AloneStep DEF Want
<1> QED BY <1>1, <1>2, <1>3 DEF Want

LEMMA CrashAlone ==
  ASSUME RepositoryInv, OneProcess, AloneInv, NEW p \in Procs, Crash(p)
  PROVE  AloneInv'
<1>1. pc'[p] = "down"
  BY Moved DEF Crash
<1>2. Owns(pc[p], loc[p])'
  BY <1>1 DEF Owns
<1> QED BY <1>2, DeliveryStays, AloneStep DEF Crash

\* A check that either goes on with the same locals or stops.
LEMMA InspectBaseAlone ==
  ASSUME RepositoryInv, OneProcess, AloneInv, NEW p \in Procs, InspectBase(p)
  PROVE  AloneInv'
<1>1. Owns("inspect", loc[p]) /\ status' = status /\ git' = git
  BY Relies DEF InspectBase, At, db, world
<1>2. CASE HeadOf(git) = BaseCommit /\ Goto(p, "branch", loc[p])
  <2>1. pc'[p] = "branch" /\ loc'[p] = loc[p]
    BY <1>2, Moved
  <2>2. Owns(pc[p], loc[p])'
    BY <1>1, <1>2, <2>1 DEF Owns
  <2> QED BY <2>2, DeliveryStays, AloneStep DEF InspectBase
<1>3. CASE Stop(p, "blocked")
  BY <1>1, <1>3, StopAlone, Path DEF InspectBase, Owns
<1> QED BY <1>2, <1>3 DEF InspectBase

LEMMA ValidateBranchAlone ==
  ASSUME RepositoryInv, OneProcess, AloneInv, NEW p \in Procs, ValidateBranch(p)
  PROVE  AloneInv'
<1>1. Owns("validate", loc[p]) /\ status' = status
  BY Relies DEF ValidateBranch, At, db
<1>2. CASE Goto(p, "gate", loc[p])
  <2>1. pc'[p] = "gate" /\ loc'[p] = loc[p]
    BY <1>2, Moved
  <2>2. Owns(pc[p], loc[p])'
    BY <1>1, <2>1 DEF Owns
  <2> QED BY <2>2, DeliveryStays, AloneStep DEF ValidateBranch
<1>3. CASE Stop(p, "blocked")
  BY <1>1, <1>3, StopAlone, Path DEF ValidateBranch, Owns
<1> QED BY <1>2, <1>3 DEF ValidateBranch

LEMMA GateAlone ==
  ASSUME RepositoryInv, OneProcess, AloneInv, NEW p \in Procs, Gate(p)
  PROVE  AloneInv'
<1>1. Owns("gate", loc[p]) /\ status' = status /\ git' = git /\ status = "branched"
  BY Relies DEF Gate, At, db, world, Owns
<1>2. CASE /\ HeadOf(git) = BaseCommit /\ Clean(git)
           /\ \E t \in Patches : Goto(p, "apply", [loc[p] EXCEPT !.tree = t])
  <2>1. PICK t \in Patches : Goto(p, "apply", [loc[p] EXCEPT !.tree = t])
    BY <1>2
  <2>2. git.index = Base
    BY <1>2, CommitTypes DEF Clean
  <2>3. [loc[p] EXCEPT !.tree = t].state = loc[p].state
    BY Relies DEF Locals
  <2>4. pc'[p] = "apply" /\ loc'[p].state = loc[p].state
    BY <2>1, <2>3, Moved
  <2>5. Owns(pc[p], loc[p])'
    BY <1>1, <2>2, <2>4 DEF Owns
  <2> QED BY <2>5, DeliveryStays, AloneStep DEF Gate
<1>3. CASE Restore(p, "quarantined") \/ Restore(p, "blocked")
  <2>1. Owns(pc[p], loc[p])'
    BY <1>1, <1>3, FailureOwns, Path DEF Failures
  <2> QED BY <2>1, DeliveryStays, AloneStep DEF Gate
<1> QED BY <1>2, <1>3 DEF Gate

LEMMA VerifyPatchAlone ==
  ASSUME RepositoryInv, OneProcess, AloneInv, NEW p \in Procs, VerifyPatch(p)
  PROVE  AloneInv'
<1>1. Owns("verify", loc[p]) /\ status' = status /\ git' = git /\ status = "branched"
  BY Relies DEF VerifyPatch, At, db, world, Owns
<1>2. CASE Goto(p, "store_patch", loc[p])
  <2>1. pc'[p] = "store_patch" /\ loc'[p] = loc[p]
    BY <1>2, Moved
  <2>2. Owns(pc[p], loc[p])'
    BY <1>1, <2>1 DEF Owns
  <2> QED BY <2>2, DeliveryStays, AloneStep DEF VerifyPatch
<1>3. CASE Restore(p, "quarantined")
  <2>1. Owns(pc[p], loc[p])'
    BY <1>1, <1>3, FailureOwns, Path DEF Failures
  <2> QED BY <2>1, DeliveryStays, AloneStep DEF VerifyPatch
<1> QED BY <1>2, <1>3 DEF VerifyPatch

\* The same change is there only if the one edit was not made or not to it, and
\* before anything was staged; so the tests recorded so far, if there are any,
\* are of this change.
LEMMA SameChange ==
  ASSUME RepositoryInv, AloneInv, Unchanged, status = "changed"
  PROVE  /\ OnTarget /\ git.wt = Target
         /\ meddled = 0 => \A i \in DOMAIN tests : ~tests[i].ok
<1>1. git = Latest(patches).snap /\ git.wt # HeadOf(git).tree
  BY DEF Unchanged, OnlyDeclaredPaths
<1>2. HeadOf(git) = BaseCommit
  BY DEF AloneInv, DeliveryInv, Unpublished, BeforeTested, HeadOf
<1>3. git.wt # Base /\ git.wt = Target
  BY <1>1, <1>2, CommitTypes DEF Target
<1>4. git.index = Base
  <2>1. patches # <<>> /\ patches \in Seq([patch : Trees, snap : GitType])
    BY DEF RepositoryInv, PathInv, WithPatch, TypeOK
  <2>2. Len(patches) \in DOMAIN patches
    BY <2>1
  <2> QED BY <1>1, <2>2 DEF AloneInv, DeliveryInv, Latest
<1>5. OnTarget
  BY <1>3 DEF AloneInv, DeliveryInv, Spent
<1> QED BY <1>3, <1>4, <1>5 DEF AloneInv, DeliveryInv

LEMMA RecheckAlone ==
  ASSUME RepositoryInv, OneProcess, AloneInv, NEW p \in Procs, Recheck(p)
  PROVE  AloneInv'
<1>1. /\ Owns("recheck", loc[p]) /\ status' = status /\ git' = git /\ tests' = tests
      /\ patches' = patches /\ meddled' = meddled
      /\ status \in {"patch_validated", "changed"} /\ loc[p].state = status
  BY Relies DEF Recheck, At, db, world, Owns
<1>2. CASE loc[p].state = "patch_validated" /\ Transit(p, "changed")
  <2>1. "changed" \in States \ Failures /\ NEXT_STATES["patch_validated"] = "changed"
    BY DEF States, NEXT_STATES, Failures
  <2>2. Owns(pc[p], loc[p])'
    BY <1>1, <1>2, <2>1, TransitOwns, Path
  <2> QED BY <2>2, DeliveryStays, AloneStep DEF Recheck
<1>3. CASE Unchanged /\ loc[p].state = "changed" /\ Goto(p, "before", loc[p])
  <2>1. pc'[p] = "before" /\ loc'[p] = loc[p]
    BY <1>3, Moved
  <2>2. /\ OnTarget /\ git.wt = Target
        /\ meddled = 0 => \A i \in DOMAIN tests : ~tests[i].ok
    BY <1>1, <1>3, SameChange
  <2>3. Owns(pc[p], loc[p])'
    BY <1>1, <1>3, <2>1, <2>2 DEF Owns, OnTarget, Target
  <2> QED BY <2>3, DeliveryStays, AloneStep DEF Recheck
<1>4. CASE Restore(p, "blocked")
  BY <1>1, <1>4, StopAlone, Path DEF Recheck
<1>5. CASE Raise(p)
  BY <1>5, ReturnAlone DEF Recheck
<1> QED BY <1>2, <1>3, <1>4, <1>5 DEF Recheck

\* The same tests and patches.
LEMMA SameRows ==
  ASSUME UNCHANGED <<db, world>>
  PROVE  /\ status' = status /\ tests' = tests /\ patches' = patches /\ reviews' = reviews
         /\ git' = git /\ remote' = remote /\ meddled' = meddled /\ passed' = passed
         /\ OnTarget' = OnTarget /\ Target' = Target /\ TestedCommit' = TestedCommit
BY DEF db, world, OnTarget, Target, TestedCommit

LEMMA TestBeforeAlone ==
  ASSUME RepositoryInv, OneProcess, AloneInv, NEW p \in Procs, TestBefore(p)
  PROVE  AloneInv'
<1>1. Owns("before", loc[p]) /\ loc[p] \in Locals
  BY Relies DEF TestBefore, At
<1>2. /\ [loc[p] EXCEPT !.snap = git].snap = git
      /\ [loc[p] EXCEPT !.snap = git].state = loc[p].state
  BY <1>1 DEF Locals
<1>3. pc'[p] = "copy" /\ loc'[p].snap = git /\ loc'[p].state = loc[p].state
  BY <1>2, Moved DEF TestBefore
<1>4. Owns(pc[p], loc[p])'
  BY <1>1, <1>3, SameRows DEF Owns, TestBefore
<1> QED BY <1>4, DeliveryStays, AloneStep DEF TestBefore

LEMMA TestCopyAlone ==
  ASSUME RepositoryInv, OneProcess, AloneInv, NEW p \in Procs, TestCopy(p)
  PROVE  AloneInv'
<1>1. Owns("copy", loc[p]) /\ loc[p] \in Locals
  BY Relies DEF TestCopy, At
<1>2. CASE Goto(p, "test", [loc[p] EXCEPT !.tree = git.wt])
  <2>1. /\ [loc[p] EXCEPT !.tree = git.wt].snap = loc[p].snap
        /\ [loc[p] EXCEPT !.tree = git.wt].state = loc[p].state
        /\ [loc[p] EXCEPT !.tree = git.wt].tree = git.wt
    BY <1>1 DEF Locals
  <2>2. /\ pc'[p] = "test" /\ loc'[p].snap = loc[p].snap /\ loc'[p].state = loc[p].state
        /\ loc'[p].tree = git.wt
    BY <1>2, <2>1, Moved
  <2>3. Owns(pc[p], loc[p])'
    BY <1>1, <2>2, SameRows DEF Owns, TestCopy
  <2> QED BY <2>3, DeliveryStays, AloneStep DEF TestCopy
<1>3. CASE Goto(p, "store_failure", loc[p])
  <2>1. pc'[p] = "store_failure" /\ loc'[p] = loc[p]
    BY <1>3, Moved
  <2>2. Owns(pc[p], loc[p])'
    BY <1>1, <2>1, SameRows DEF Owns, TestCopy
  <2> QED BY <2>2, DeliveryStays, AloneStep DEF TestCopy
<1> QED BY <1>2, <1>3 DEF TestCopy

LEMMA StageAlone ==
  ASSUME RepositoryInv, OneProcess, AloneInv, NEW p \in Procs, Stage(p)
  PROVE  AloneInv'
<1>1. Owns("stage", loc[p])
  BY Relies DEF Stage, At
<1>2. CASE Goto(p, "add", loc[p])
  <2>1. pc'[p] = "add" /\ loc'[p] = loc[p]
    BY <1>2, Moved
  <2>2. Owns(pc[p], loc[p])'
    BY <1>1, <2>1, SameRows DEF Owns, Stage
  <2> QED BY <2>2, DeliveryStays, AloneStep DEF Stage
<1>3. CASE Stop(p, "blocked")
  <2>1. status \in DOMAIN NEXT_STATES
    BY <1>1, Path DEF Owns
  <2> QED BY <1>3, <2>1, StopAlone DEF Stage
<1> QED BY <1>2, <1>3 DEF Stage

\* What the index holds is the work tree that the tests ran on.
LEMMA StagedAlone ==
  ASSUME RepositoryInv, OneProcess, AloneInv, NEW p \in Procs, Staged(p)
  PROVE  AloneInv'
<1>1. Owns("staged", loc[p]) /\ loc[p] \in Locals /\ status \in DOMAIN NEXT_STATES
  BY Relies, Path DEF Staged, At, Owns
<1>2. CASE StagedOnly(p) /\ Goto(p, "store_test", [loc[p] EXCEPT !.tree = git.index])
  <2>1. /\ [loc[p] EXCEPT !.tree = git.index].ok = loc[p].ok
        /\ [loc[p] EXCEPT !.tree = git.index].state = loc[p].state
        /\ [loc[p] EXCEPT !.tree = git.index].tree = git.index
    BY <1>1 DEF Locals
  <2>2. /\ pc'[p] = "store_test" /\ loc'[p].ok = loc[p].ok /\ loc'[p].state = loc[p].state
        /\ loc'[p].tree = git.index
    BY <1>2, <2>1, Moved
  <2>3. git \in GitType /\ git.index \in Trees /\ git.index # NoTree
    BY RepositoryAssumption DEF RepositoryInv, TypeOK, GitType
  <2>4. git.wt = loc[p].snap.wt
    <3>1. loc[p].snap \in GitType
      <4>1. CASE loc[p].snap = NoGit
        BY <1>2, <2>3, <4>1, RepositoryAssumption DEF StagedOnly, NoGit, GitType
      <4> QED BY <1>1, <4>1 DEF Locals
    <3>2. [loc[p].snap EXCEPT !.index = git.index].wt = loc[p].snap.wt
      BY <3>1 DEF GitType
    <3> QED BY <1>2, <3>2 DEF StagedOnly
  <2>5. Owns(pc[p], loc[p])'
    BY <1>1, <2>2, <2>3, <2>4, SameRows DEF Owns, Staged
  <2> QED BY <2>5, DeliveryStays, AloneStep DEF Staged
<1>3. CASE Stop(p, "blocked")
  BY <1>1, <1>3, StopAlone DEF Staged
<1> QED BY <1>2, <1>3 DEF Staged

\* A mission that is tested has a result, and its branch is at the base or at
\* the commit of it.
LEMMA TestedBranch ==
  ASSUME RepositoryInv, AloneInv, status \in WithTest
  PROVE  /\ Publishable /\ HeadOf(git) = git.ref
         /\ Latest(tests).tree \in Trees \cup {NoTree}
         /\ TestedCommit \in CommitType => TestedCommit.tree \in passed
<1>1. Publishable
  BY DEF AloneInv, DeliveryInv
<1>2. Latest(tests) \in [ok : BOOLEAN, tree : Trees \cup {NoTree}]
  <2>1. tests # <<>> /\ tests \in Seq([ok : BOOLEAN, tree : Trees \cup {NoTree}])
    BY <1>1 DEF Publishable, RepositoryInv, TypeOK
  <2> QED BY <2>1, LatestRow
<1>3. TestedCommit.tree = Latest(tests).tree
  BY DEF TestedCommit
<1>4. TestedCommit \in CommitType => TestedCommit.tree # NoTree
  BY RepositoryAssumption DEF CommitType
<1> QED BY <1>1, <1>2, <1>3, <1>4 DEF Publishable, HeadOf

LEMMA CommitReadAlone ==
  ASSUME RepositoryInv, OneProcess, AloneInv, NEW p \in Procs, CommitRead(p)
  PROVE  AloneInv'
<1>1. status = "tested" /\ loc[p] \in Locals /\ Publishable /\ HeadOf(git) = git.ref
  BY Relies, TestedBranch DEF CommitRead, At, Owns, WithTest
<1> DEFINE r == [loc[p] EXCEPT !.tree = Latest(tests).tree, !.head = HeadOf(git),
                               !.clean = Clean(git)]
           l == IF HeadOf(git) = BaseCommit THEN "commit" ELSE "commit_check"
<1>2. CASE HasResult(Latest(tests)) /\ Goto(p, l, r)
  <2>1. r.tree = Latest(tests).tree
    BY <1>1 DEF Locals
  <2>2. /\ l \in {"commit", "commit_check"}
        /\ l = "commit" => git.ref = BaseCommit
    BY <1>1
  <2> HIDE DEF r, l
  <2>3. pc'[p] = l /\ loc'[p].tree = Latest(tests).tree
    BY <1>2, <2>1, Moved
  <2>4. Latest(tests).tree \in passed
    BY <1>1, <1>2 DEF Publishable, HasResult
  <2>5. Owns(pc[p], loc[p])'
    BY <1>1, <2>2, <2>3, <2>4, SameRows DEF Owns, CommitRead
  <2> QED BY <2>5, DeliveryStays, AloneStep DEF CommitRead
<1>3. CASE Return(p) \/ Raise(p)
  BY <1>3, ReturnAlone DEF CommitRead
<1>4. CASE Stop(p, "blocked")
  BY <1>1, <1>4, StopAlone, Path DEF CommitRead
<1> QED BY <1>2, <1>3, <1>4 DEF CommitRead, Refuse

LEMMA CommitCheckAlone ==
  ASSUME RepositoryInv, OneProcess, AloneInv, NEW p \in Procs, CommitCheck(p)
  PROVE  AloneInv'
<1>1. /\ status = "tested" /\ loc[p] \in Locals /\ Publishable /\ HeadOf(git) = git.ref
      /\ Owns("commit_check", loc[p])
  BY Relies, TestedBranch DEF CommitCheck, At, Owns, WithTest
<1>2. CASE HeadOf(git) # BaseCommit /\ Goto(p, "push", [loc[p] EXCEPT !.head = HeadOf(git)])
  <2>1. git.ref = TestedCommit
    BY <1>1, <1>2 DEF Publishable
  <2>2. [loc[p] EXCEPT !.head = HeadOf(git)].head = HeadOf(git)
    BY <1>1 DEF Locals
  <2>3. pc'[p] = "push" /\ loc'[p].head = HeadOf(git)
    BY <1>2, <2>2, Moved
  <2>4. Owns(pc[p], loc[p])'
    BY <1>1, <2>1, <2>3, SameRows DEF Owns, CommitCheck
  <2> QED BY <2>4, DeliveryStays, AloneStep DEF CommitCheck
<1>3. CASE Stop(p, "blocked") \/ Restore(p, "blocked")
  BY <1>1, <1>3, StopAlone, Path DEF CommitCheck
<1>4. CASE Raise(p)
  BY <1>4, ReturnAlone DEF CommitCheck
<1> QED BY <1>2, <1>3, <1>4 DEF CommitCheck, Refuse

LEMMA DraftCheckAlone ==
  ASSUME RepositoryInv, OneProcess, AloneInv, NEW p \in Procs, DraftCheck(p)
  PROVE  AloneInv'
<1>1. status = "reviewed" /\ Publishable
  BY Relies, TestedBranch DEF DraftCheck, At, Owns, WithTest
<1>2. CASE Reviewed /\ Goto(p, "draft_head", loc[p])
  <2>1. HeadOf(git) = TestedCommit
    <3>1. reviews # <<>> /\ reviews \in Seq([head : CommitType, patch : Trees])
      BY <1>1 DEF RepositoryInv, PathInv, WithReview, TypeOK
    <3>2. Len(reviews) \in DOMAIN reviews
      BY <3>1
    <3> QED BY <1>1, <1>2, <3>2 DEF Reviewed, Latest, Publishable
  <2>2. pc'[p] = "draft_head"
    BY <1>2, Moved
  <2>3. Owns(pc[p], loc[p])'
    BY <1>1, <2>1, <2>2, SameRows DEF Owns, DraftCheck
  <2> QED BY <2>3, DeliveryStays, AloneStep DEF DraftCheck
<1>3. CASE Stop(p, "blocked")
  BY <1>1, <1>3, StopAlone, Path DEF DraftCheck
<1>4. CASE Raise(p)
  BY <1>4, ReturnAlone DEF DraftCheck
<1> QED BY <1>2, <1>3, <1>4 DEF DraftCheck

LEMMA DraftHeadAlone ==
  ASSUME RepositoryInv, OneProcess, AloneInv, NEW p \in Procs, DraftHead(p)
  PROVE  AloneInv'
<1>1. status = "reviewed" /\ loc[p] \in Locals /\ HeadOf(git) = TestedCommit
  BY Relies DEF DraftHead, At, Owns
<1> DEFINE r == [loc[p] EXCEPT !.head = HeadOf(git), !.tree = Latest(tests).tree]
<1>2. CASE Goto(p, "draft", r)
  <2>1. r.head = HeadOf(git) /\ r.tree = Latest(tests).tree
    BY <1>1 DEF Locals
  <2> HIDE DEF r
  <2>2. pc'[p] = "draft" /\ loc'[p].head = HeadOf(git) /\ loc'[p].tree = Latest(tests).tree
    BY <1>2, <2>1, Moved
  <2>3. Owns(pc[p], loc[p])'
    BY <1>1, <2>2, SameRows DEF Owns, DraftHead
  <2> QED BY <2>3, DeliveryStays, AloneStep DEF DraftHead
<1>3. CASE Return(p) \/ Raise(p)
  BY <1>3, ReturnAlone DEF DraftHead
<1> QED BY <1>2, <1>3 DEF DraftHead

-----------------------------------------------------------------------------
(* Steps that write a row or move the mission on.                          *)

LEMMA CreateAlone ==
  ASSUME RepositoryInv, OneProcess, AloneInv, Create
  PROVE  AloneInv'
<1>1. /\ status = "absent" /\ status' = "created" /\ DeliveryInv
      /\ UNCHANGED <<patches, tests, reviews, drafts, git, remote, passed, committed, meddled, pc, loc>>
  BY DEF Create, world, AloneInv
<1>2. DeliveryInv'
  BY <1>1 DEF DeliveryInv, Unpublished, Publishable, Drafted, OnTarget, Spent, TestedCommit,
       Target, BeforeTested, WithTest, WithReview, Failures
<1>3. ASSUME NEW q \in Procs PROVE Owns(pc[q], loc[q])'
  <2>1. Resting(q)
    BY <1>1, AtWork
  <2> QED BY <1>1, <2>1 DEF Owns, Resting
<1> QED BY <1>2, <1>3 DEF AloneInv

LEMMA TransitionAlone ==
  ASSUME RepositoryInv, OneProcess, AloneInv, NEW p \in Procs, Transition(p)
  PROVE  AloneInv'
<1>1. /\ Owns("transition", loc[p]) /\ DeliveryInv /\ loc[p].goal \in States
      /\ Knows("transition", loc[p])
  BY Relies, LocalTypes DEF Transition, At
<1>2. Unmoved(p) /\ status' = loc[p].goal /\ Continue(p)
  BY <1>1 DEF Transition, Unmoved, Owns
<1>3. UNCHANGED <<patches, tests, reviews, drafts, git, remote, passed, committed, meddled>>
  BY DEF Transition, world
<1>4. status \in DOMAIN NEXT_STATES
  BY <1>1 DEF Owns
<1>5. CASE loc[p].goal \in Failures
  <2>1. Unpublished \/ Publishable
    BY <1>1, <1>4, Path DEF DeliveryInv, BeforeTested, WithTest
  <2>2. loc[p].goal \in {"quarantined", "rolled_back"} => Unpublished
    BY <1>1 DEF Owns, DeliveryInv, BeforeTested
  <2>3. DeliveryInv'
    BY <1>1, <1>2, <1>3, <1>5, <2>1, <2>2 DEF DeliveryInv, Unpublished, Publishable, Drafted,
       OnTarget, Spent, TestedCommit, Target, BeforeTested, WithTest, WithReview, Failures
  <2> QED BY <1>2, <2>3, ContinueOwns, AloneStep
<1>6. CASE loc[p].goal \notin Failures
  <2>1. status # "reviewed" /\ loc[p].goal = NEXT_STATES[status]
    BY <1>1, <1>6 DEF Owns
  <2>2. status # "absent" /\ status \in States
    BY <1>4, StateTypes
  <2>3. drafts # <<>> => status = "draft_pr_recorded"
    BY <1>1, <1>4, Path DEF DeliveryInv, Drafted, TERMINAL_STATES
  <2>4. \/ status = "created" /\ status' = "authorized"
        \/ status = "authorized" /\ status' = "inspecting"
        \/ status = "inspecting" /\ status' = "branched"
        \/ status = "branched" /\ status' = "patch_validated"
        \/ status = "patch_validated" /\ status' = "changed"
        \/ status = "changed" /\ status' = "tested"
        \/ status = "tested" /\ status' = "reviewed"
        \/ status = "draft_pr_recorded" /\ status' = "awaiting_human"
    BY <1>2, <1>4, <2>1 DEF NEXT_STATES
  <2>5. status' = "tested" => tests # <<>>
    BY <1>1, <1>2 DEF Knows
  <2>6. /\ Unpublished' = Unpublished /\ Publishable' = Publishable /\ OnTarget' = OnTarget
        /\ Spent' = Spent /\ TestedCommit' = TestedCommit
    BY <1>3 DEF Unpublished, Publishable, OnTarget, Spent, TestedCommit, Target
  <2>7. status' \in BeforeTested => Unpublished
    BY <1>1, <2>4 DEF BeforeTested, DeliveryInv
  <2>8. status' \in WithTest => Publishable
    <3>1. CASE status' = "tested"
      <4>1. status = "changed" /\ Unpublished /\ git.branch = "mission"
        BY <1>1, <2>4, <3>1 DEF BeforeTested, DeliveryInv
      <4>2. Latest(tests).tree \in passed \cup {NoTree}
        BY <1>1, <1>2, <3>1 DEF Owns
      <4> QED BY <2>5, <3>1, <4>1, <4>2 DEF Unpublished, Publishable
    <3>2. CASE status' \in {"reviewed", "awaiting_human"}
      BY <1>1, <2>4, <3>2 DEF WithTest, DeliveryInv
    <3> QED BY <2>4, <3>1, <3>2 DEF WithTest
  <2>9. status' \in WithReview => remote = TestedCommit
    BY <1>1, <1>2, <2>4 DEF WithReview, DeliveryInv, Owns
  <2>10. drafts # <<>> => Drafted'
    BY <1>1, <1>3, <2>3, <2>4, <2>6, <2>8 DEF DeliveryInv, Drafted, WithTest
  <2>11. status' \in {"branched", "patch_validated", "changed"} => git.branch = "mission"
    BY <1>1, <1>2, <2>4 DEF DeliveryInv, Owns
  <2>12. status' \in BeforeTested => tests = <<>>
    BY <1>1, <2>4 DEF DeliveryInv, BeforeTested
  <2>13. status' = "changed" => OnTarget
    BY <2>4, <2>12 DEF BeforeTested, OnTarget
  <2>14. status' \in WithTest /\ meddled = 0 => Latest(tests).tree # NoTree
    BY <1>1, <1>2, <2>4 DEF DeliveryInv, WithTest, Owns
  <2>15. status' \notin Failures
    BY <1>2, <1>6
  <2>16. status' = "changed" => ~\E i \in DOMAIN tests : tests[i].ok
    BY <2>4, <2>12 DEF BeforeTested
  <2>17. DeliveryInv'
    BY <1>1, <1>3, <2>6, <2>7, <2>8, <2>9, <2>10, <2>11, <2>12, <2>13, <2>14, <2>15, <2>16
       DEF DeliveryInv, Failures
  <2> QED BY <1>2, <2>17, ContinueOwns, AloneStep
<1> QED BY <1>5, <1>6

-----------------------------------------------------------------------------
(* Steps that write to the repository, or evidence.                        *)

\* Before the draft there is none.
LEMMA Undrafted ==
  ASSUME AloneInv, status \in DOMAIN NEXT_STATES, status # "draft_pr_recorded"
  PROVE  drafts = <<>>
BY Path DEF AloneInv, DeliveryInv, Drafted, TERMINAL_STATES

LEMMA EnsureBranchAlone ==
  ASSUME RepositoryInv, OneProcess, AloneInv, NEW p \in Procs, EnsureBranch(p)
  PROVE  AloneInv'
<1>1. /\ status = "inspecting" /\ HeadOf(git) = BaseCommit /\ git \in GitType /\ DeliveryInv
      /\ UNCHANGED <<status, trail, patches, tests, reviews, drafts, remote, passed, committed, meddled>>
  BY Relies DEF EnsureBranch, At, Owns, db, RepositoryInv, TypeOK
<1>2. status \in DOMAIN NEXT_STATES /\ drafts = <<>>
  BY <1>1, Path, Undrafted
<1>3. git' = git \/ git' = [git EXCEPT !.branch = "mission", !.ref = HeadOf(git)]
  BY DEF EnsureBranch
<1>4. git'.branch = "mission" => git'.ref = BaseCommit
  BY <1>1, <1>3 DEF GitType, HeadOf
<1>5. Unpublished'
  BY <1>1, <1>4 DEF DeliveryInv, BeforeTested, Unpublished
<1>6. DeliveryInv'
  BY <1>1, <1>2, <1>5 DEF DeliveryInv, BeforeTested, WithTest, WithReview, Failures
<1>7. CASE Transit(p, "branched") /\ git'.branch = "mission"
  <2>1. "branched" \in States \ Failures /\ NEXT_STATES["inspecting"] = "branched"
    BY DEF States, NEXT_STATES, Failures
  <2>2. Owns(pc[p], loc[p])'
    BY <1>1, <1>2, <1>7, <2>1, TransitOwns
  <2> QED BY <1>6, <2>2, AloneStep
<1>8. CASE Stop(p, "blocked")
  <2>1. Owns(pc[p], loc[p])'
    BY <1>1, <1>2, <1>8, FailureOwns DEF Failures
  <2> QED BY <1>6, <2>1, AloneStep
<1>9. git' = [git EXCEPT !.branch = "mission", !.ref = HeadOf(git)] => git'.branch = "mission"
  BY <1>1 DEF GitType
<1> QED BY <1>7, <1>8, <1>9 DEF EnsureBranch

LEMMA ApplyAlone ==
  ASSUME RepositoryInv, OneProcess, AloneInv, NEW p \in Procs, Apply(p)
  PROVE  AloneInv'
<1>1. /\ status = "branched" /\ Owns("apply", loc[p]) /\ git \in GitType /\ DeliveryInv
      /\ UNCHANGED <<status, trail, patches, tests, reviews, drafts, remote, passed, committed, meddled>>
  BY Relies DEF Apply, At, Owns, db, RepositoryInv, TypeOK
<1>2. status \in DOMAIN NEXT_STATES /\ drafts = <<>>
  BY <1>1, Path, Undrafted
<1>3. git'.branch = git.branch /\ git'.ref = git.ref /\ git'.index = git.index
  BY <1>1 DEF Apply, GitType
<1>4. DeliveryInv'
  BY <1>1, <1>2, <1>3 DEF DeliveryInv, BeforeTested, WithTest, WithReview, Failures, Unpublished
<1>5. CASE Goto(p, "verify", loc[p])
  <2>1. pc'[p] = "verify" /\ loc'[p] = loc[p]
    BY <1>5, Moved
  <2>2. Owns(pc[p], loc[p])'
    BY <1>1, <1>3, <2>1 DEF Owns
  <2> QED BY <1>4, <2>2, AloneStep
<1>6. CASE Restore(p, "quarantined")
  <2>1. Owns(pc[p], loc[p])'
    BY <1>1, <1>2, <1>6, FailureOwns DEF Failures
  <2> QED BY <1>4, <2>1, AloneStep
<1> QED BY <1>5, <1>6 DEF Apply

\* A stored row is one of those before or the new one.
PatchType == [patch : Trees, snap : GitType]

LEMMA StoredPatch ==
  ASSUME RepositoryInv, NEW row \in PatchType, patches' = Stored(patches, row)
  PROVE  \A i \in DOMAIN patches' :
           patches'[i] = row \/ (i \in DOMAIN patches /\ patches'[i] = patches[i])
<1>1. patches \in Seq(PatchType)
  BY DEF RepositoryInv, TypeOK, PatchType
<1> QED BY <1>1 DEF Stored

LEMMA StorePatchAlone ==
  ASSUME RepositoryInv, OneProcess, AloneInv, NEW p \in Procs, StorePatch(p)
  PROVE  AloneInv'
<1>0. CASE Raise(p) /\ UNCHANGED patches
  BY <1>0, ReturnAlone DEF StorePatch, db
<1> SUFFICES ASSUME patches' = Stored(patches, [patch |-> loc[p].tree, snap |-> git]),
                             Transit(p, "patch_validated")
             PROVE  AloneInv'
  BY <1>0 DEF StorePatch
<1>1. /\ status = "branched" /\ git.index = Base /\ git \in GitType /\ DeliveryInv
      /\ UNCHANGED <<status, trail, tests, reviews, drafts, git, remote, passed, committed, meddled>>
  BY Relies DEF StorePatch, At, Owns, world, RepositoryInv, TypeOK
<1>2. status \in DOMAIN NEXT_STATES /\ drafts = <<>>
  BY <1>1, Path, Undrafted
<1>3. \A i \in DOMAIN patches' : patches'[i].snap.index = Base
  <2> DEFINE row == [patch |-> loc[p].tree, snap |-> git]
  <2>1. row \in PatchType /\ row.snap.index = Base
    BY <1>1, AtWork DEF StorePatch, At, Knows, PatchType
  <2>2. patches' = Stored(patches, row)
    OBVIOUS
  <2> HIDE DEF row
  <2>3. \A i \in DOMAIN patches' :
          patches'[i] = row \/ (i \in DOMAIN patches /\ patches'[i] = patches[i])
    BY <2>1, <2>2, StoredPatch
  <2> QED BY <1>1, <2>1, <2>3 DEF DeliveryInv
<1>4. DeliveryInv'
  BY <1>1, <1>2, <1>3 DEF DeliveryInv, BeforeTested, WithTest, WithReview, Failures, Unpublished
<1>5. Owns(pc[p], loc[p])'
  <2>1. "patch_validated" \in States \ Failures /\ NEXT_STATES["branched"] = "patch_validated"
    BY DEF States, NEXT_STATES, Failures
  <2> QED BY <1>1, <1>2, <2>1, TransitOwns
<1> QED BY <1>4, <1>5, AloneStep

LEMMA TestAlone ==
  ASSUME RepositoryInv, OneProcess, AloneInv, NEW p \in Procs, Test(p)
  PROVE  AloneInv'
<1>1. /\ status = "changed" /\ Owns("test", loc[p]) /\ DeliveryInv /\ loc[p] \in Locals
      /\ UNCHANGED <<status, trail, patches, tests, reviews, drafts, git, remote, committed, meddled>>
  BY Relies DEF Test, At, Owns, db
<1>2. status \in DOMAIN NEXT_STATES /\ drafts = <<>>
  BY <1>1, Path, Undrafted
<1>3. OnTarget' = OnTarget /\ Target' = Target /\ Spent' = Spent
  BY <1>1 DEF OnTarget, Target, Spent
<1>4. DeliveryInv'
  BY <1>1, <1>2, <1>3 DEF DeliveryInv, BeforeTested, WithTest, WithReview, Failures, Unpublished
<1>5. ASSUME NEW ok \in BOOLEAN, git = loc[p].snap,
             passed' = (IF ok THEN passed \cup {loc[p].tree} ELSE passed),
             Goto(p, "stage", [loc[p] EXCEPT !.ok = ok])
      PROVE  AloneInv'
  <2>1. /\ [loc[p] EXCEPT !.ok = ok].ok = ok
        /\ [loc[p] EXCEPT !.ok = ok].state = loc[p].state
        /\ [loc[p] EXCEPT !.ok = ok].snap = loc[p].snap
    BY <1>1 DEF Locals
  <2>2. pc'[p] = "stage" /\ loc'[p].ok = ok /\ loc'[p].state = loc[p].state
        /\ loc'[p].snap = loc[p].snap
    BY <1>5, <2>1, Moved
  <2>3. ok => loc[p].snap.wt \in passed'
    BY <1>1, <1>5 DEF Owns
  <2>4. Owns(pc[p], loc[p])'
    BY <1>1, <1>3, <2>2, <2>3 DEF Owns
  <2> QED BY <1>4, <2>4, AloneStep
<1>6. CASE Goto(p, "store_failure", loc[p])
  <2>1. pc'[p] = "store_failure" /\ loc'[p] = loc[p]
    BY <1>6, Moved
  <2>2. Owns(pc[p], loc[p])'
    BY <1>1, <1>3, <2>1 DEF Owns
  <2> QED BY <1>4, <2>2, AloneStep
<1> QED BY <1>5, <1>6 DEF Test

LEMMA AddAlone ==
  ASSUME RepositoryInv, OneProcess, AloneInv, NEW p \in Procs, Add(p)
  PROVE  AloneInv'
<1>1. /\ status = "changed" /\ Owns("add", loc[p]) /\ DeliveryInv /\ git \in GitType
      /\ UNCHANGED <<status, trail, patches, tests, reviews, drafts, remote, passed, committed, meddled>>
  BY Relies DEF Add, At, Owns, db, RepositoryInv, TypeOK
<1>2. status \in DOMAIN NEXT_STATES /\ drafts = <<>>
  BY <1>1, Path, Undrafted
<1>3. git'.branch = git.branch /\ git'.ref = git.ref /\ git'.wt = git.wt
  BY <1>1 DEF Add, GitType
<1>4. OnTarget' = OnTarget /\ Target' = Target /\ Spent' = Spent
  BY <1>1, <1>3 DEF OnTarget, Target, Spent
<1>5. OnTarget /\ (meddled = 0 => \A i \in DOMAIN tests : ~tests[i].ok)
  BY <1>1 DEF Owns
<1>6. DeliveryInv'
  BY <1>1, <1>2, <1>3, <1>4, <1>5
     DEF DeliveryInv, BeforeTested, WithTest, WithReview, Failures, Unpublished
<1>7. CASE git' = [git EXCEPT !.index = git.wt] /\ Goto(p, "staged", loc[p])
  <2>1. pc'[p] = "staged" /\ loc'[p] = loc[p] /\ git'.index = git.wt
    BY <1>1, <1>7, Moved DEF GitType
  <2>2. Owns(pc[p], loc[p])'
    BY <1>1, <1>3, <1>4, <2>1 DEF Owns
  <2> QED BY <1>6, <2>2, AloneStep
<1>8. CASE Stop(p, "blocked")
  <2>1. Owns(pc[p], loc[p])'
    BY <1>1, <1>2, <1>8, FailureOwns DEF Failures
  <2> QED BY <1>6, <2>1, AloneStep
<1> QED BY <1>7, <1>8 DEF Add

\* The rows of the tests after one was stored.
TestType == [ok : BOOLEAN, tree : Trees \cup {NoTree}]

LEMMA StoredTest ==
  ASSUME RepositoryInv, NEW row \in TestType, tests' = Stored(tests, row)
  PROVE  /\ tests' # <<>> /\ tests' \in Seq(TestType) /\ Len(tests') \in DOMAIN tests'
         /\ \A i \in DOMAIN tests' :
              tests'[i] = row \/ (i \in DOMAIN tests /\ tests'[i] = tests[i])
         /\ (\A i \in DOMAIN tests : tests[i] # row) => Latest(tests') = row
         /\ Latest(tests') = row \/ \E i \in DOMAIN tests : tests[i] = row
<1>1. tests \in Seq(TestType)
  BY DEF RepositoryInv, TypeOK, TestType
<1>2. CASE row \in Range(tests)
  <2>1. tests' = tests /\ \E i \in DOMAIN tests : tests[i] = row
    BY <1>2 DEF Stored, Range
  <2>2. Len(tests) \in DOMAIN tests
    BY <1>1, <2>1
  <2> QED BY <1>1, <2>1, <2>2 DEF Latest
<1>3. CASE row \notin Range(tests)
  <2>1. tests' = Append(tests, row)
    BY <1>3 DEF Stored
  <2>2. /\ tests' # <<>> /\ tests' \in Seq(TestType)
        /\ Len(tests') = Len(tests) + 1 /\ tests'[Len(tests) + 1] = row
    BY <1>1, <2>1
  <2>3. \A i \in DOMAIN tests' :
          tests'[i] = row \/ (i \in DOMAIN tests /\ tests'[i] = tests[i])
    BY <1>1, <2>1
  <2> QED BY <2>2, <2>3 DEF Latest
<1> QED BY <1>2, <1>3

LEMMA StoreTestAlone ==
  ASSUME RepositoryInv, OneProcess, AloneInv, NEW p \in Procs, StoreTest(p)
  PROVE  AloneInv'
<1>0. CASE Raise(p) /\ UNCHANGED tests
  BY <1>0, ReturnAlone DEF StoreTest, db
<1> SUFFICES ASSUME tests' = Stored(tests, [ok |-> loc[p].ok, tree |-> loc[p].tree]),
                             IF TestPassed(loc[p]) THEN Transit(p, "tested")
                                                   ELSE Restore(p, "rolled_back")
             PROVE  AloneInv'
  BY <1>0 DEF StoreTest
<1>1. /\ status = "changed" /\ Owns("store_test", loc[p]) /\ DeliveryInv /\ loc[p] \in Locals
      /\ UNCHANGED <<status, trail, patches, reviews, drafts, git, remote, passed, committed, meddled>>
  BY Relies DEF StoreTest, At, Owns, world
<1>2. status \in DOMAIN NEXT_STATES /\ drafts = <<>>
  BY <1>1, Path, Undrafted
<1>3. /\ OnTarget /\ loc[p].tree # NoTree /\ (loc[p].ok => loc[p].tree \in passed)
      /\ loc[p].tree = Target \/ (meddled = 1 /\ git.wt = loc[p].tree)
      /\ meddled = 0 => git.index = git.wt /\ \A i \in DOMAIN tests : ~tests[i].ok
  BY <1>1 DEF Owns
<1> DEFINE row == [ok |-> loc[p].ok, tree |-> loc[p].tree]
<1>4. row \in TestType /\ row.ok = loc[p].ok /\ row.tree = loc[p].tree
  BY LocalTypes DEF TestType
<1>5. tests' = Stored(tests, row)
  OBVIOUS
<1> HIDE DEF row
<1>6. \A i \in DOMAIN tests' : tests'[i] = row \/ (i \in DOMAIN tests /\ tests'[i] = tests[i])
  BY <1>4, <1>5, StoredTest
<1>7. Target' = Target
  BY <1>1 DEF Target
<1>8. OnTarget' \/ Spent'
  <2>1. CASE loc[p].tree = Target
    BY <1>3, <1>4, <1>6, <1>7, <2>1 DEF OnTarget
  <2>2. CASE loc[p].tree # Target
    BY <1>1, <1>3, <1>7, <2>2 DEF Spent
  <2> QED BY <2>1, <2>2
<1>9. DeliveryInv'
  BY <1>1, <1>2, <1>3, <1>8
     DEF DeliveryInv, BeforeTested, WithTest, WithReview, Failures, Unpublished
<1>10. CASE loc[p].ok /\ Transit(p, "tested")
  <2>1. passed' # {} /\ Latest(tests').tree \in passed' \cup {NoTree}
    <3>1. CASE Latest(tests') = row
      BY <1>1, <1>3, <1>4, <1>10, <3>1
    <3>2. CASE \E i \in DOMAIN tests : tests[i] = row
      <4>1. loc[p].tree = Target
        BY <1>3, <1>4, <3>2 DEF OnTarget
      <4>2. \A i \in DOMAIN tests' : tests'[i].tree \in {NoTree, Target}
        BY <1>3, <1>4, <1>6, <4>1 DEF OnTarget
      <4>3. Len(tests') \in DOMAIN tests'
        BY <1>4, <1>5, StoredTest
      <4> QED BY <1>1, <1>3, <1>10, <4>1, <4>2, <4>3 DEF Latest
    <3> QED BY <1>4, <1>5, <3>1, <3>2, StoredTest
  <2>2. meddled' = 0 => Latest(tests').tree # NoTree
    <3>1. meddled = 0 => \A i \in DOMAIN tests : tests[i] # row
      BY <1>3, <1>4, <1>10
    <3> QED BY <1>1, <1>3, <1>4, <1>5, <3>1, StoredTest
  <2>3. "tested" \in States \ Failures /\ NEXT_STATES["changed"] = "tested"
    BY DEF States, NEXT_STATES, Failures
  <2>4. Owns(pc[p], loc[p])'
    BY <1>1, <1>2, <1>10, <2>1, <2>2, <2>3, TransitOwns
  <2> QED BY <1>9, <2>4, AloneStep
<1>11. CASE Restore(p, "rolled_back")
  <2>1. Owns(pc[p], loc[p])'
    BY <1>1, <1>2, <1>11, FailureOwns DEF Failures
  <2> QED BY <1>9, <2>1, AloneStep
<1> QED BY <1>10, <1>11 DEF TestPassed

LEMMA StoreFailureAlone ==
  ASSUME RepositoryInv, OneProcess, AloneInv, NEW p \in Procs, StoreFailure(p)
  PROVE  AloneInv'
<1>0. CASE Raise(p) /\ UNCHANGED tests
  BY <1>0, ReturnAlone DEF StoreFailure, db
<1> SUFFICES ASSUME tests' = Stored(tests, [ok |-> FALSE, tree |-> NoTree]),
                             Restore(p, "rolled_back")
             PROVE  AloneInv'
  BY <1>0 DEF StoreFailure
<1>1. /\ status = "changed" /\ Owns("store_failure", loc[p]) /\ DeliveryInv
      /\ UNCHANGED <<status, trail, patches, reviews, drafts, git, remote, passed, committed, meddled>>
  BY Relies DEF StoreFailure, At, Owns, world
<1>2. status \in DOMAIN NEXT_STATES /\ drafts = <<>>
  BY <1>1, Path, Undrafted
<1>3. OnTarget /\ (meddled = 0 => \A i \in DOMAIN tests : ~tests[i].ok)
  BY <1>1 DEF Owns
<1> DEFINE row == [ok |-> FALSE, tree |-> NoTree]
<1>4. row \in TestType /\ ~row.ok /\ row.tree = NoTree
  BY DEF TestType
<1>5. tests' = Stored(tests, row)
  OBVIOUS
<1> HIDE DEF row
<1>6. \A i \in DOMAIN tests' : tests'[i] = row \/ (i \in DOMAIN tests /\ tests'[i] = tests[i])
  BY <1>4, <1>5, StoredTest
<1>7. Target' = Target
  BY <1>1 DEF Target
<1>8. OnTarget' /\ (meddled = 0 => \A i \in DOMAIN tests' : ~tests'[i].ok)
  BY <1>3, <1>4, <1>6, <1>7 DEF OnTarget
<1>9. DeliveryInv'
  BY <1>1, <1>2, <1>8
     DEF DeliveryInv, BeforeTested, WithTest, WithReview, Failures, Unpublished
<1>10. Owns(pc[p], loc[p])'
  BY <1>1, <1>2, FailureOwns DEF Failures
<1> QED BY <1>9, <1>10, AloneStep

LEMMA RestoreRefAlone ==
  ASSUME RepositoryInv, OneProcess, AloneInv, NEW p \in Procs, RestoreRef(p)
  PROVE  AloneInv'
<1>1. /\ status \in DOMAIN NEXT_STATES /\ Owns("restore_ref", loc[p]) /\ DeliveryInv
      /\ git \in GitType
      /\ UNCHANGED <<status, trail, patches, tests, reviews, drafts, remote, passed, committed, meddled>>
  BY Relies DEF RestoreRef, At, Owns, db, RepositoryInv, TypeOK
<1>2. /\ git'.branch = git.branch /\ git'.index = git.index /\ git'.wt = git.wt
      /\ git'.ref = git.ref \/ git'.ref = BaseCommit
  BY <1>1 DEF RestoreRef, GitType
<1>3. /\ Unpublished => Unpublished'
      /\ Publishable => Publishable'
      /\ OnTarget' = OnTarget /\ Spent' = Spent /\ TestedCommit' = TestedCommit
  BY <1>1, <1>2 DEF Unpublished, Publishable, OnTarget, Spent, Target, TestedCommit
<1>4. drafts # <<>> /\ Drafted => Drafted'
  BY <1>1, <1>3 DEF Drafted
<1>5. DeliveryInv'
  BY <1>1, <1>2, <1>3, <1>4 DEF DeliveryInv
<1>6. CASE Goto(p, "restore_paths", loc[p])
  <2>1. pc'[p] = "restore_paths" /\ loc'[p] = loc[p]
    BY <1>6, Moved
  <2>2. Owns(pc[p], loc[p])'
    BY <1>1, <2>1 DEF Owns
  <2> QED BY <1>5, <2>2, AloneStep
<1>7. CASE RestoreFails(p)
  <2>1. Owns(pc[p], loc[p])'
    BY <1>1, <1>7, ReturnOwns, FailureOwns DEF RestoreFails, Failures
  <2> QED BY <1>5, <2>1, AloneStep
<1> QED BY <1>6, <1>7 DEF RestoreRef

LEMMA RestorePathsAlone ==
  ASSUME RepositoryInv, OneProcess, AloneInv, NEW p \in Procs, RestorePaths(p)
  PROVE  AloneInv'
<1>1. /\ status \in DOMAIN NEXT_STATES /\ Owns("restore_paths", loc[p]) /\ DeliveryInv
      /\ git \in GitType /\ loc[p].goal \in Failures
      /\ UNCHANGED <<status, trail, patches, tests, reviews, drafts, remote, passed, committed, meddled>>
  BY Relies, AtWork DEF RestorePaths, At, Owns, Knows, db, RepositoryInv, TypeOK
<1>2. /\ git'.branch = git.branch /\ git'.ref = git.ref
      /\ git' = git \/ (git'.index = Base /\ git'.wt = Base)
  BY <1>1 DEF RestorePaths, Restored, GitType
<1>3. /\ Unpublished' = Unpublished /\ Publishable' = Publishable
      /\ OnTarget' = OnTarget /\ TestedCommit' = TestedCommit
      /\ Spent => Spent'
  BY <1>1, <1>2 DEF Unpublished, Publishable, OnTarget, Spent, Target, TestedCommit
<1>4. drafts # <<>> /\ Drafted => Drafted'
  BY <1>1, <1>3 DEF Drafted
<1>5. DeliveryInv'
  BY <1>1, <1>2, <1>3, <1>4 DEF DeliveryInv
<1>6. CASE Goto(p, IF loc[p].goal = "rolled_back" THEN "want" ELSE "terminal", loc[p])
  <2>1. pc'[p] \in {"want", "terminal"} /\ loc'[p] = loc[p]
    BY <1>6, Moved
  <2>2. Owns(pc[p], loc[p])'
    BY <1>1, <2>1 DEF Owns, Failures
  <2> QED BY <1>5, <2>2, AloneStep
<1>7. CASE RestoreFails(p)
  <2>1. Owns(pc[p], loc[p])'
    BY <1>1, <1>7, ReturnOwns, FailureOwns DEF RestoreFails, Failures
  <2> QED BY <1>5, <2>1, AloneStep
<1> QED BY <1>6, <1>7 DEF RestorePaths

\* git commit makes the commit of the tested tree on the mission's branch.
LEMMA CommitAlone ==
  ASSUME RepositoryInv, OneProcess, AloneInv, NEW p \in Procs, Commit(p)
  PROVE  AloneInv'
<1>1. /\ status = "tested" /\ Owns("commit", loc[p]) /\ DeliveryInv
      /\ git \in GitType /\ Publishable /\ HeadOf(git) = git.ref
      /\ UNCHANGED <<status, trail, patches, tests, reviews, drafts, remote, passed, meddled>>
  BY Relies, TestedBranch DEF Commit, At, Owns, db, RepositoryInv, TypeOK, WithTest
<1>2. status \in DOMAIN NEXT_STATES /\ drafts = <<>>
  BY <1>1, Path, Undrafted
<1>3. git.ref = BaseCommit /\ git.branch = "mission" /\ loc[p].tree = Latest(tests).tree
  BY <1>1 DEF Owns, Publishable
<1>4. git'.branch = "mission" /\ git'.ref \in {BaseCommit, TestedCommit}
  <2>1. CASE git' = MoveHead(git, [tree |-> git.index, ours |-> HeadOf(git) = BaseCommit])
             /\ StagedTree(p)
    <3>1. [tree |-> git.index, ours |-> HeadOf(git) = BaseCommit] = TestedCommit
      BY <1>1, <1>3, <2>1 DEF StagedTree, TestedCommit
    <3>2. git' = [git EXCEPT !.ref = TestedCommit]
      BY <1>3, <2>1, <3>1 DEF MoveHead
    <3> QED BY <1>1, <1>3, <3>2 DEF GitType
  <2>2. CASE git' = git
    BY <1>3, <2>2
  <2> QED BY <2>1, <2>2 DEF Commit
<1>5. Publishable' /\ TestedCommit' = TestedCommit
  BY <1>1, <1>4 DEF Publishable, TestedCommit
<1>6. DeliveryInv'
  BY <1>1, <1>2, <1>5 DEF DeliveryInv, BeforeTested, WithReview, Failures
<1>7. CASE Goto(p, "commit_check", loc[p])
  <2>1. pc'[p] = "commit_check" /\ loc'[p] = loc[p]
    BY <1>7, Moved
  <2>2. Owns(pc[p], loc[p])'
    BY <1>1, <2>1 DEF Owns
  <2> QED BY <1>6, <2>2, AloneStep
<1>8. CASE Restore(p, "blocked") \/ Stop(p, "blocked")
  <2>1. Owns(pc[p], loc[p])'
    BY <1>1, <1>2, <1>8, FailureOwns DEF Failures
  <2> QED BY <1>6, <2>1, AloneStep
<1>9. CASE Raise(p)
  BY <1>6, <1>9, ReturnOwns, AloneStep
<1> QED BY <1>7, <1>8, <1>9 DEF Commit, Refuse

LEMMA PushAlone ==
  ASSUME RepositoryInv, OneProcess, AloneInv, NEW p \in Procs, Push(p)
  PROVE  AloneInv'
<1>1. /\ status = "tested" /\ Owns("push", loc[p]) /\ DeliveryInv /\ Publishable
      /\ UNCHANGED <<status, trail, patches, tests, reviews, drafts, git, passed, committed, meddled>>
  BY Relies, TestedBranch DEF Push, At, Owns, db, WithTest
<1>2. status \in DOMAIN NEXT_STATES /\ drafts = <<>>
  BY <1>1, Path, Undrafted
<1>3. remote' = remote \/ remote' = TestedCommit
  BY <1>1 DEF Owns, Push
<1>4. Publishable' /\ TestedCommit' = TestedCommit
  BY <1>1, <1>3 DEF Publishable, TestedCommit
<1>5. DeliveryInv'
  BY <1>1, <1>2, <1>4 DEF DeliveryInv, BeforeTested, WithReview, Failures
<1>6. CASE remote' = git.ref /\ Goto(p, "review", loc[p])
  <2>1. pc'[p] = "review" /\ loc'[p] = loc[p]
    BY <1>6, Moved
  <2>2. Owns(pc[p], loc[p])'
    BY <1>1, <1>4, <1>6, <2>1 DEF Owns
  <2> QED BY <1>5, <2>2, AloneStep
<1>7. CASE PushFails(p)
  <2>1. Owns(pc[p], loc[p])'
    BY <1>1, <1>2, <1>7, FailureOwns, ReturnOwns DEF Failures, PushFails, Refuse
  <2> QED BY <1>5, <2>1, AloneStep
<1> QED BY <1>6, <1>7 DEF Push

\* Every attestation is of the commit of the tested tree.
LEMMA StoredReview ==
  ASSUME RepositoryInv, NEW row, reviews' = Stored(reviews, row)
  PROVE  \A i \in DOMAIN reviews' :
           reviews'[i] = row \/ (i \in DOMAIN reviews /\ reviews'[i] = reviews[i])
<1>1. reviews \in Seq([head : CommitType, patch : Trees])
  BY DEF RepositoryInv, TypeOK
<1> QED BY <1>1 DEF Stored

LEMMA ReviewAlone ==
  ASSUME RepositoryInv, OneProcess, AloneInv, NEW p \in Procs, Review(p)
  PROVE  AloneInv'
<1>1. /\ status = "tested" /\ Owns("review", loc[p]) /\ DeliveryInv /\ Publishable
      /\ UNCHANGED <<status, trail, patches, tests, drafts, git, remote, passed, committed, meddled>>
  BY Relies, TestedBranch DEF Review, At, Owns, world, WithTest
<1>2. status \in DOMAIN NEXT_STATES /\ drafts = <<>>
  BY <1>1, Path, Undrafted
<1>3. remote = TestedCommit /\ loc[p].head = TestedCommit /\ TestedCommit' = TestedCommit
  BY <1>1 DEF Owns, TestedCommit
<1>4. \A i \in DOMAIN reviews' : reviews'[i].head = TestedCommit
  <2>1. CASE reviews' = Stored(reviews, [head |-> loc[p].head, patch |-> Latest(patches).patch])
    <3> DEFINE row == [head |-> loc[p].head, patch |-> Latest(patches).patch]
    <3>1. row.head = TestedCommit
      BY <1>3
    <3> HIDE DEF row
    <3>2. \A i \in DOMAIN reviews' :
            reviews'[i] = row \/ (i \in DOMAIN reviews /\ reviews'[i] = reviews[i])
      <4>1. reviews' = Stored(reviews, row)
        BY <2>1 DEF row
      <4> QED BY <4>1, StoredReview
    <3> QED BY <1>1, <3>1, <3>2 DEF Publishable
  <2>2. CASE reviews' = reviews
    BY <1>1, <2>2 DEF Publishable
  <2> QED BY <2>1, <2>2 DEF Review
<1>5. Publishable'
  BY <1>1, <1>3, <1>4 DEF Publishable
<1>6. DeliveryInv'
  BY <1>1, <1>2, <1>3, <1>5 DEF DeliveryInv, BeforeTested, WithReview, Failures
<1>7. CASE Transit(p, "reviewed")
  <2>1. "reviewed" \in States \ Failures /\ NEXT_STATES["tested"] = "reviewed"
    BY DEF States, NEXT_STATES, Failures
  <2>2. Owns(pc[p], loc[p])'
    BY <1>1, <1>2, <1>3, <1>7, <2>1, TransitOwns
  <2> QED BY <1>6, <2>2, AloneStep
<1>8. CASE Stop(p, "blocked")
  <2>1. Owns(pc[p], loc[p])'
    BY <1>1, <1>2, <1>8, FailureOwns DEF Failures
  <2> QED BY <1>6, <2>1, AloneStep
<1>9. CASE Raise(p)
  BY <1>6, <1>9, ReturnOwns, AloneStep
<1> QED BY <1>7, <1>8, <1>9 DEF Review

LEMMA DraftAlone ==
  ASSUME RepositoryInv, OneProcess, AloneInv, NEW p \in Procs, Draft(p)
  PROVE  AloneInv'
<1>1. /\ status = "reviewed" /\ Owns("draft", loc[p]) /\ DeliveryInv /\ Publishable
      /\ UNCHANGED <<patches, tests, reviews, git, remote, passed, committed, meddled>>
  BY Relies, TestedBranch DEF Draft, At, Owns, world, WithTest
<1>2. status \in DOMAIN NEXT_STATES /\ drafts = <<>>
  BY <1>1, Path, Undrafted
<1>3. Recordable
  BY <1>1, <1>2 DEF Recordable, Allowed, NEXT_STATES
<1>4. /\ status' = "draft_pr_recorded" /\ Goto(p, "loop", Fresh)
      /\ drafts' = Append(drafts, [head |-> loc[p].head, patch |-> Latest(patches).patch,
                                   tree |-> loc[p].tree])
  BY <1>3 DEF Draft
<1>5. drafts'[1].head = TestedCommit /\ drafts'[1].tree = Latest(tests).tree
  BY <1>1, <1>2, <1>4 DEF Owns
<1>6. Publishable' /\ TestedCommit' = TestedCommit /\ remote = TestedCommit /\ reviews # <<>>
  BY <1>1 DEF Publishable, TestedCommit, DeliveryInv, WithReview, RepositoryInv, PathInv
<1>7. Drafted'
  BY <1>1, <1>4, <1>5, <1>6 DEF Drafted
<1>8. DeliveryInv'
  BY <1>1, <1>4, <1>6, <1>7 DEF DeliveryInv, BeforeTested, WithTest, WithReview, Failures
<1> QED BY <1>4, <1>8, LoopOwns, AloneStep

-----------------------------------------------------------------------------
(* The one edit.                                                           *)

LEMMA MeddleAlone ==
  ASSUME RepositoryInv, OneEdit, AloneInv, Meddle
  PROVE  AloneInv'
<1>1. /\ meddled = 0 /\ meddled' = 1 /\ DeliveryInv /\ git \in GitType
      /\ UNCHANGED <<status, trail, patches, tests, reviews, drafts, remote, passed, committed, pc, loc>>
  BY RepositoryAssumption DEF Meddle, OneEdit, RepositoryInv, TypeOK, db, AloneInv
<1>2. Edit \/ Litter
  BY DEF Meddle, OneEdit
<1>3. /\ git'.branch = git.branch /\ git'.index = git.index /\ git'.ref = git.ref
      /\ git'.main = git.main
      /\ git'.wt # git.wt \/ git'.wt = git.wt
  BY <1>1, <1>2 DEF Edit, Litter, GitType
<1>4. /\ Unpublished' = Unpublished /\ Publishable' = Publishable /\ OnTarget' = OnTarget
      /\ TestedCommit' = TestedCommit /\ Target' = Target
      /\ Spent = FALSE /\ HeadOf(git)' = HeadOf(git)
  BY <1>1, <1>3 DEF Unpublished, Publishable, OnTarget, Spent, TestedCommit, Target, HeadOf
<1>5. drafts # <<>> /\ Drafted => Drafted'
  BY <1>1, <1>4 DEF Drafted
<1>6. DeliveryInv'
  BY <1>1, <1>3, <1>4, <1>5 DEF DeliveryInv
<1>7. ASSUME NEW q \in Procs PROVE Owns(pc[q], loc[q])'
  <2>1. Owns(pc[q], loc[q])
    BY Relies
  <2>2. pc[q] \in {"stage", "add", "staged", "test", "copy"} =>
          git.wt = loc[q].snap.wt /\ loc[q].snap.wt = Target
    BY <1>1, <2>1 DEF Owns
  <2>3. pc[q] = "test" => loc[q].tree = loc[q].snap.wt
    BY <2>1, <2>2 DEF Owns
  <2>4. pc[q] = "staged" => git'.index = git'.wt \/ git'.wt # loc[q].snap.wt
    BY <1>3, <2>1, <2>2 DEF Owns
  <2>5. pc[q] = "store_test" => loc[q].tree = Target
    BY <1>1, <2>1 DEF Owns
  <2> QED BY <1>1, <1>3, <1>4, <2>1, <2>2, <2>3, <2>4, <2>5 DEF Owns
<1> QED BY <1>6, <1>7 DEF AloneInv

-----------------------------------------------------------------------------
(* The invariant.                                                          *)

LEMMA InitAlone == RepositoryInv /\ Init => AloneInv
<1> SUFFICES ASSUME RepositoryInv, Init PROVE AloneInv
  OBVIOUS
<1>1. DeliveryInv
  <2>1. git.branch = "main"
    BY RepositoryAssumption DEF Init
  <2> QED BY <2>1 DEF Init, DeliveryInv, BeforeTested, Unpublished, WithTest, WithReview, Failures
<1>2. ASSUME NEW q \in Procs PROVE Owns(pc[q], loc[q])
  BY DEF Init, Owns
<1> QED BY <1>1, <1>2 DEF AloneInv

\* Every step but one of somebody else.
LEMMA QuietStep ==
  ASSUME OneProcess
  PROVE  RepositoryInv /\ AloneInv /\ [Next]_vars => AloneInv' \/ Meddle
<1> SUFFICES ASSUME RepositoryInv, AloneInv, [Next]_vars, ~Meddle PROVE AloneInv'
  OBVIOUS
<1>1. CASE UNCHANGED vars
  <2>1. UNCHANGED <<db, world>> /\ pc' = pc /\ loc' = loc
    BY <1>1 DEF vars
  <2>2. ASSUME NEW q \in Procs PROVE Owns(pc[q], loc[q])'
    BY <2>1, SameRows, Relies DEF Owns
  <2> QED BY <2>1, <2>2, DeliveryStays DEF AloneInv
<1>2. ASSUME NEW p \in Procs, Run(p) \/ Work(p) \/ Crash(p) PROVE AloneInv'
  BY <1>2, RunAlone, LoopAlone, TerminalAlone, WantAlone, TransitionAlone, InspectBaseAlone,
     EnsureBranchAlone, ValidateBranchAlone, GateAlone, ApplyAlone, VerifyPatchAlone,
     StorePatchAlone, RecheckAlone, TestBeforeAlone, TestCopyAlone, TestAlone, StageAlone,
     AddAlone, StagedAlone, StoreTestAlone, StoreFailureAlone, RestoreRefAlone,
     RestorePathsAlone, CommitReadAlone, CommitAlone, CommitCheckAlone, PushAlone, ReviewAlone,
     DraftCheckAlone, DraftHeadAlone, DraftAlone, CrashAlone DEF Work
<1> QED BY <1>1, <1>2, CreateAlone DEF Next

LEMMA DeliveryStep ==
  ASSUME OneProcess, OneEdit
  PROVE  RepositoryInv /\ AloneInv /\ [Next]_vars => AloneInv'
BY QuietStep, MeddleAlone

\* One process, whenever it dies and whatever Git commands fail, and one edit.
THEOREM DeliveryInvariant ==
  ASSUME OneProcess, OneEdit
  PROVE  Spec => [](RepositoryInv /\ AloneInv)
<1>1. Init => RepositoryInv /\ AloneInv
  BY InitRuns, InitAlone
<1>2. RepositoryInv /\ AloneInv /\ [Next]_vars => RepositoryInv' /\ AloneInv'
  BY DeliveryStep, RepositoryStep
<1> QED BY <1>1, <1>2, PTL DEF Spec

LEMMA DraftRow ==
  ASSUME RepositoryInv, AloneInv, drafts # <<>>
  PROVE  /\ Len(drafts) = 1 /\ Drafted /\ Publishable /\ TestedCommit \in CommitType
         /\ TestedCommit.tree \in passed /\ TestedCommit.tree = Latest(tests).tree
<1>1. Len(drafts) = 1 /\ drafts[1] \in [head : CommitType, patch : Trees, tree : Trees]
  <2> DEFINE T == [head : CommitType, patch : Trees, tree : Trees]
  <2>1. drafts \in Seq(T)
    BY DEF RepositoryInv, TypeOK
  <2> HIDE DEF T
  <2>2. Len(drafts) \in Nat /\ Len(drafts) # 0
    BY <2>1
  <2>3. Len(drafts) = 1
    <3>1. Len(drafts) <= 1
      BY DEF RepositoryInv, PathInv
    <3>2. \A n \in Nat : n # 0 /\ n <= 1 => n = 1
      OBVIOUS
    <3> QED BY <2>2, <3>1, <3>2, Zenon
  <2>4. Latest(drafts) \in T
    BY <2>1, LatestRow
  <2> QED BY <2>3, <2>4 DEF T, Latest
<1>2. Drafted /\ Publishable
  BY DEF AloneInv, DeliveryInv, Drafted
<1>3. drafts[1].head \in CommitType
  BY <1>1
<1>4. TestedCommit \in CommitType /\ TestedCommit.tree = Latest(tests).tree
  BY <1>2, <1>3 DEF Drafted, TestedCommit
<1>5. TestedCommit.tree \in Trees
  BY <1>4 DEF CommitType
<1> QED BY <1>1, <1>2, <1>4, <1>5, RepositoryAssumption DEF Publishable

\* The draft that waits for a human names the reviewed and published commit,
\* and its tree passed the tests: whoever dies between the reading of HEAD and
\* the INSERT, the branch of a tested mission holds no other commit.
THEOREM DraftedIsReviewed ==
  ASSUME OneProcess, OneEdit
  PROVE  Spec => []DraftIsReviewed
<1>1. RepositoryInv /\ AloneInv => DraftIsReviewed
  <2> SUFFICES ASSUME RepositoryInv, AloneInv, NEW i \in DOMAIN drafts
               PROVE  /\ drafts[i].head = Latest(reviews).head /\ drafts[i].head = remote
                      /\ drafts[i].head.tree = drafts[i].tree /\ drafts[i].tree \in passed
    BY DEF DraftIsReviewed
  <2>1. drafts # <<>> /\ drafts \in Seq([head : CommitType, patch : Trees, tree : Trees])
    BY DEF RepositoryInv, TypeOK
  <2>2. i = 1 /\ Drafted /\ Publishable
    BY <2>1, DraftRow
  <2>3. Latest(reviews).head = TestedCommit
    <3>1. reviews # <<>> /\ reviews \in Seq([head : CommitType, patch : Trees])
      BY <2>2 DEF Drafted, RepositoryInv, TypeOK
    <3>2. Len(reviews) \in DOMAIN reviews
      BY <3>1
    <3> QED BY <2>2, <3>2 DEF Latest, Publishable
  <2> QED BY <2>1, <2>2, <2>3, DraftRow DEF Drafted
<1> QED BY <1>1, DeliveryInvariant, PTL

\* Until somebody else changes the repository, and whoever may.
QuietInv == meddled = 0 => AloneInv

LEMMA QuietInvariant ==
  ASSUME OneProcess
  PROVE  Spec => [](RepositoryInv /\ QuietInv)
<1>1. Init => RepositoryInv /\ QuietInv
  BY InitRuns, InitAlone DEF QuietInv
<1>2. RepositoryInv /\ QuietInv /\ [Next]_vars => RepositoryInv' /\ QuietInv'
  <2> SUFFICES ASSUME RepositoryInv, QuietInv, [Next]_vars, meddled' = 0 PROVE AloneInv'
    BY RepositoryStep DEF QuietInv
  <2>1. ~Meddle
    <3>1. meddled \in Nat
      BY DEF RepositoryInv, TypeOK
    <3> QED BY <3>1 DEF Meddle
  <2>2. meddled' = meddled
    <3>1. CASE UNCHANGED vars
      BY <3>1 DEF vars, world
    <3>2. CASE Create
      BY <3>2 DEF Create, world
    <3>3. ASSUME NEW p \in Procs,
                 \/ Run(p) \/ Crash(p) \/ Loop(p) \/ Terminal(p) \/ Want(p) \/ Transition(p)
                 \/ InspectBase(p) \/ ValidateBranch(p) \/ Gate(p) \/ VerifyPatch(p)
                 \/ StorePatch(p) \/ Recheck(p) \/ TestBefore(p) \/ TestCopy(p) \/ Stage(p)
                 \/ Staged(p) \/ StoreTest(p) \/ StoreFailure(p) \/ CommitRead(p)
                 \/ CommitCheck(p) \/ Review(p) \/ DraftCheck(p) \/ DraftHead(p) \/ Draft(p)
          PROVE  meddled' = meddled
      <4>1. UNCHANGED world
        BY <3>3 DEF Run, Crash, Loop, Terminal, Want, Transition, InspectBase, ValidateBranch, Gate,
           VerifyPatch, StorePatch, Recheck, TestBefore, TestCopy, Stage, Staged, StoreTest,
           StoreFailure, CommitRead, CommitCheck, Review, DraftCheck, DraftHead, Draft
      <4> QED BY <4>1 DEF world
    <3>4. ASSUME NEW p \in Procs,
                 \/ EnsureBranch(p) \/ Apply(p) \/ Test(p) \/ Add(p) \/ RestoreRef(p)
                 \/ RestorePaths(p) \/ Commit(p) \/ Push(p)
          PROVE  meddled' = meddled
      BY <3>4 DEF EnsureBranch, Apply, Test, Add, RestoreRef, RestorePaths, Commit, Push
    <3> QED BY <2>1, <3>1, <3>2, <3>3, <3>4 DEF Next, Work
  <2> QED BY <2>1, <2>2, QuietStep DEF QuietInv
<1> QED BY <1>1, <1>2, PTL DEF Spec

\* In a repository that nobody has changed yet, what an earlier run left never
\* makes run fail: the evidence of the tests has a result, the transition is
\* legal and its UPDATE finds the row, the draft is the first.  Short of an error
\* that no try block is around (Raise), it ends with the mission stopped.
THEOREM RunsSettle ==
  ASSUME OneProcess
  PROVE  Spec => RunSettles
<1>1. RepositoryInv /\ QuietInv /\ [Next]_vars =>
        [\A p \in Procs : ~Resting(p) /\ At(p, "idle")' /\ meddled = 0 => status' \in TERMINAL_STATES]_vars
  <2> SUFFICES ASSUME RepositoryInv, AloneInv, Next, NEW p \in Procs, ~Resting(p),
                      At(p, "idle")', meddled = 0
               PROVE  status' \in TERMINAL_STATES
    BY DEF QuietInv
  <2>1. pc' # pc
    BY DEF At, Resting
  <2>2. PICK q \in Procs : Run(q) \/ Work(q) \/ Crash(q)
    BY <2>1 DEF Next, Create, Meddle
  <2>3. q = p
    BY DEF OneProcess
  <2>4. pc'[p] = "idle" /\ Owns(pc[p], loc[p]) /\ Knows(pc[p], loc[p]) /\ DeliveryInv
    BY Relies, AtWork DEF At
  <2>5. ASSUME NEW l, NEW r, Goto(p, l, r) PROVE l = "idle"
    BY <2>4, <2>5, Moved
  <2>6. ~Raise(p) /\ \A g : ~Stop(p, g) /\ ~Restore(p, g) /\ ~Transit(p, g)
    BY <2>5 DEF Raise, Stop, Restore, Transit
  <2>7. ~Run(p) /\ ~Crash(p)
    BY <2>5 DEF Run, Crash, Resting
  <2>8. CASE Loop(p)
    BY <2>5, <2>6, <2>8 DEF Loop, Handler, db
  <2>9. CASE Terminal(p)
    BY <2>5, <2>9 DEF Terminal, db
  <2>10. CASE Want(p)
    BY <2>4, <2>5, <2>10 DEF Want, Continue, Owns, At, Allowed, TERMINAL_STATES, db
  <2>11. CASE Transition(p)
    BY <2>4, <2>5, <2>11 DEF Transition, Continue, Owns, At, Unmoved, TERMINAL_STATES
  <2>12. ~InspectBase(p) /\ ~EnsureBranch(p) /\ ~ValidateBranch(p) /\ ~Gate(p) /\ ~Apply(p)
         /\ ~VerifyPatch(p) /\ ~StorePatch(p)
    BY <2>5, <2>6 DEF InspectBase, EnsureBranch, ValidateBranch, Gate, Apply, VerifyPatch, StorePatch
  <2>13. ~Recheck(p) /\ ~TestBefore(p) /\ ~TestCopy(p) /\ ~Test(p) /\ ~Stage(p) /\ ~Add(p)
         /\ ~Staged(p) /\ ~StoreTest(p) /\ ~StoreFailure(p)
    BY <2>5, <2>6 DEF Recheck, TestBefore, TestCopy, Test, Stage, Add, Staged, StoreTest, StoreFailure
  <2>14. ~RestoreRef(p) /\ ~RestorePaths(p)
    BY <2>5, <2>6 DEF RestoreRef, RestorePaths, RestoreFails
  <2>15. ~CommitRead(p)
    <3>1. pc[p] = "commit_read" => Latest(tests).tree # NoTree
      BY <2>4 DEF Owns, DeliveryInv, WithTest
    <3> QED BY <2>5, <2>6, <3>1 DEF CommitRead, Refuse, HasResult, At
  <2>16. ~Commit(p) /\ ~CommitCheck(p) /\ ~Push(p) /\ ~Review(p) /\ ~DraftCheck(p)
    BY <2>5, <2>6 DEF Commit, CommitCheck, Refuse, Push, PushFails, Review, DraftCheck
  <2>17. ~DraftHead(p)
    <3>1. pc[p] = "draft_head" => Latest(tests).tree # NoTree
      BY <2>4 DEF Owns, DeliveryInv, WithTest
    <3> QED BY <2>5, <2>6, <3>1 DEF DraftHead, HasResult, At
  <2>18. ~Draft(p)
    <3>1. pc[p] = "draft" => status = "reviewed" /\ drafts = <<>>
      BY <2>4, Undrafted, Path DEF Owns
    <3> QED BY <2>5, <3>1 DEF Draft, Recordable, Allowed, NEXT_STATES, At
  <2> QED BY <2>2, <2>3, <2>7, <2>8, <2>9, <2>10, <2>11, <2>12, <2>13, <2>14, <2>15, <2>16,
             <2>17, <2>18 DEF Work
<1> QED BY <1>1, QuietInvariant, PTL DEF Spec, RunSettles

-----------------------------------------------------------------------------
(* The mission is a guarded delivery.                                      *)

\* Nothing that the delivery sees.
SameDelivery == UNCHANGED <<status, remote, passed, drafts>>

LEMMA UnseenStep ==
  ASSUME SameDelivery
  PROVE  UNCHANGED Delivery!vars
BY DEF SameDelivery, Delivery!vars

LEMMA TransitionDelivers ==
  ASSUME RepositoryInv, AloneInv, NEW p \in Procs, Transition(p)
  PROVE  Delivery!Next
<1>1. /\ Owns("transition", loc[p]) /\ status' = loc[p].goal /\ status \in DOMAIN NEXT_STATES
      /\ UNCHANGED <<remote, passed, drafts>>
  BY Relies DEF Transition, At, Unmoved, Owns, world
<1>2. CASE loc[p].goal \in Failures
  BY <1>1, <1>2 DEF Delivery!Next, Delivery!Refuse
<1>3. CASE loc[p].goal \notin Failures
  <2>1. status # "reviewed" /\ status' = NEXT_STATES[status]
    BY <1>1, <1>3 DEF Owns
  <2>2. status = "changed" => passed # {}
    BY <1>1, <2>1 DEF Owns, NEXT_STATES
  <2>3. status = "tested" => remote.tree # NoTree
    <3> SUFFICES ASSUME status = "tested" PROVE remote.tree # NoTree
      OBVIOUS
    <3>1. remote = TestedCommit
      BY <1>1, <2>1 DEF Owns, NEXT_STATES
    <3>2. remote # NoCommit
      BY <3>1 DEF TestedCommit, NoCommit
    <3>3. remote \in CommitType
      BY <3>2 DEF RepositoryInv, TypeOK
    <3> QED BY <3>3, RepositoryAssumption DEF CommitType
  <2> QED BY <1>1, <2>1, <2>2, <2>3 DEF Delivery!Next, Delivery!Advance
<1> QED BY <1>2, <1>3

LEMMA PushDelivers ==
  ASSUME RepositoryInv, AloneInv, NEW p \in Procs, Push(p)
  PROVE  [Delivery!Next]_Delivery!vars
<1>1. /\ status = "tested" /\ git.ref = TestedCommit /\ git.branch = "mission"
      /\ Publishable /\ UNCHANGED <<status, passed, drafts>>
  BY Relies, TestedBranch DEF Push, At, Owns, db, WithTest, Publishable
<1>2. CASE remote' = remote
  BY <1>1, <1>2, UnseenStep DEF SameDelivery
<1>3. CASE remote' = git.ref /\ remote # git.ref
  <2>1. remote.tree = NoTree
    BY <1>1, <1>3, CommitTypes DEF Publishable
  <2>2. git.ref \in CommitType
    BY <1>1 DEF RepositoryInv, GitTypeOK
  <2>3. TestedCommit.tree \in Trees /\ TestedCommit.tree \in passed
    BY <1>1, <2>2, TestedBranch DEF CommitType, WithTest
  <2>4. Delivery!Publish(TestedCommit.tree)
    BY <1>1, <1>3, <2>1, <2>3 DEF Delivery!Publish
  <2> QED BY <2>3, <2>4 DEF Delivery!Next
<1> QED BY <1>2, <1>3 DEF Push

LEMMA TestDelivers ==
  ASSUME RepositoryInv, AloneInv, NEW p \in Procs, Test(p)
  PROVE  [Delivery!Next]_Delivery!vars
<1>1. status = "changed" /\ UNCHANGED <<status, remote, drafts>> /\ loc[p].tree \in Trees
  BY Relies, AtWork DEF Test, At, Owns, Knows, db
<1>2. CASE passed' = passed
  BY <1>1, <1>2, UnseenStep DEF SameDelivery
<1>3. CASE passed' = passed \cup {loc[p].tree}
  <2>1. Delivery!Pass(loc[p].tree)
    BY <1>1, <1>3 DEF Delivery!Pass
  <2> QED BY <1>1, <2>1 DEF Delivery!Next
<1> QED BY <1>2, <1>3 DEF Test

LEMMA DraftDelivers ==
  ASSUME RepositoryInv, AloneInv, NEW p \in Procs, Draft(p)
  PROVE  Delivery!Next
<1>1. /\ status = "reviewed" /\ Owns("draft", loc[p]) /\ DeliveryInv
      /\ UNCHANGED <<remote, passed>>
  BY Relies DEF Draft, At, Owns, world
<1>2. drafts = <<>>
  BY <1>1, Undrafted, Path
<1>3. Recordable
  BY <1>1, <1>2 DEF Recordable, Allowed, NEXT_STATES
<1>4. /\ status' = "draft_pr_recorded"
      /\ drafts' = Append(drafts, [head |-> loc[p].head, patch |-> Latest(patches).patch,
                                   tree |-> loc[p].tree])
  BY <1>3 DEF Draft
<1>5. drafts' # <<>> /\ drafts'[1].head = remote
  BY <1>1, <1>2, <1>4 DEF Owns, DeliveryInv, WithReview
<1> QED BY <1>1, <1>4, <1>5 DEF Delivery!Next, Delivery!Submit, NEXT_STATES

LEMMA DeliveryRefines ==
  ASSUME OneProcess, OneEdit, RepositoryInv, AloneInv, [Next]_vars
  PROVE  [Delivery!Next]_Delivery!vars
<1>1. CASE UNCHANGED vars
  BY <1>1, UnseenStep DEF SameDelivery, vars, db, world
<1>2. CASE Create
  BY <1>2 DEF Create, world, Delivery!Next, Delivery!Propose
<1>3. CASE Meddle
  BY <1>3, UnseenStep DEF SameDelivery, Meddle, db
<1>4. ASSUME NEW p \in Procs, Run(p) \/ Work(p) \/ Crash(p)
      PROVE  [Delivery!Next]_Delivery!vars
  <2>1. CASE Run(p) \/ Crash(p) \/ Loop(p) \/ Terminal(p) \/ Want(p) \/ InspectBase(p)
             \/ EnsureBranch(p) \/ ValidateBranch(p) \/ Gate(p) \/ Apply(p) \/ VerifyPatch(p)
             \/ StorePatch(p) \/ Recheck(p) \/ TestBefore(p) \/ TestCopy(p)
    BY <2>1, UnseenStep DEF SameDelivery, db, world, Run, Crash, Loop, Terminal, Want, InspectBase,
       EnsureBranch, ValidateBranch, Gate, Apply, VerifyPatch, StorePatch, Recheck, TestBefore,
       TestCopy
  <2>2. CASE Stage(p) \/ Add(p) \/ Staged(p) \/ StoreTest(p) \/ StoreFailure(p) \/ RestoreRef(p)
             \/ RestorePaths(p) \/ CommitRead(p) \/ Commit(p) \/ CommitCheck(p) \/ Review(p)
             \/ DraftCheck(p) \/ DraftHead(p)
    BY <2>2, UnseenStep DEF SameDelivery, db, world, Stage, Add, Staged, StoreTest, StoreFailure,
       RestoreRef, RestorePaths, CommitRead, Commit, CommitCheck, Review, DraftCheck, DraftHead
  <2> QED BY <1>4, <2>1, <2>2, TransitionDelivers, PushDelivers, TestDelivers, DraftDelivers DEF Work
<1> QED BY <1>1, <1>2, <1>3, <1>4 DEF Next

\* A mission that dies and is run again, in a repository edited once, does what
\* GuardedDelivery says: one path, only a tested tree published, and only the
\* published tree put before a human.
THEOREM MissionIsGuarded ==
  ASSUME OneProcess, OneEdit
  PROVE  Spec => ImplementsGuardedDelivery
<1>1. Init => Delivery!Init
  BY CommitTypes DEF Init, Delivery!Init
<1>2. RepositoryInv /\ AloneInv /\ [Next]_vars => [Delivery!Next]_Delivery!vars
  BY DeliveryRefines
<1> QED BY <1>1, <1>2, DeliveryInvariant, PTL
        DEF Spec, ImplementsGuardedDelivery, Delivery!Spec

-----------------------------------------------------------------------------
(* What a process that is alone knows of the mission, whatever anybody does *)
(* to the repository and however often.                                    *)

\* The states before the tests ran.
Starting == BeforeTested \ {"changed"}

\* The labels of a test and of a failure.
Testing == {"before", "copy", "test", "stage", "add", "staged", "store_test", "store_failure"}
Stopping == {"terminal", "restore_ref", "restore_paths"}

Follows(l, r) ==
  /\ l \in {"inspect", "branch"} => status = "inspecting"
  /\ l \in {"validate", "gate", "apply", "verify", "store_patch"} => status = "branched"
  /\ l = "recheck" => status \in {"patch_validated", "changed"} /\ r.state = status
  /\ l \in Testing => status = "changed"
  /\ l \in {"commit_read", "commit", "commit_check", "push", "review"} => status = "tested"
  /\ l \in {"draft_check", "draft_head", "draft"} => status = "reviewed"
  /\ l \in Stopping => r.goal \in Failures
  /\ l \in Stopping \cup {"want", "transition"} =>
       /\ r.goal = "quarantined" => status = "branched"
       /\ r.goal = "rolled_back" => status = "changed"
       /\ r.goal \notin Failures => status \in DOMAIN NEXT_STATES /\ r.goal = NEXT_STATES[status]
  /\ l = "transition" => r.seen = status

Untouched ==
  /\ status \in BeforeTested \cup {"quarantined", "rolled_back"} => ~committed /\ remote = NoCommit
  /\ status \in Starting => tests = <<>>

FlowInv == Untouched /\ \A p \in Procs : Follows(pc[p], loc[p])

\* What the process follows in its own words.
LEMMA FlowOf ==
  ASSUME RepositoryInv, FlowInv, NEW p \in Procs
  PROVE  Follows(pc[p], loc[p]) /\ Untouched /\ loc[p] \in Locals
BY LocalTypes DEF FlowInv

LEMMA FlowStep ==
  ASSUME OneProcess, NEW p \in Procs, Untouched', Follows(pc[p], loc[p])'
  PROVE  FlowInv'
<1>1. \A q \in Procs : q = p
  BY DEF OneProcess
<1> QED BY <1>1 DEF FlowInv

\* What the flow says nothing about.
Unseen == UNCHANGED <<status, tests, committed, remote>>

LEMMA UntouchedStays ==
  ASSUME Untouched, Unseen
  PROVE  Untouched'
BY DEF Untouched, Unseen, Starting, BeforeTested

LEMMA SilentUnseen ==
  ASSUME UNCHANGED <<db, world>>
  PROVE  Unseen
BY DEF db, world, Unseen

LEMMA RestFollows ==
  ASSUME RepositoryInv, NEW p \in Procs, NEW l \in {"idle", "raised", "down", "loop"}, NEW r,
         Goto(p, l, r)
  PROVE  Follows(pc[p], loc[p])'
<1>1. pc'[p] = l
  BY Moved
<1> QED BY <1>1 DEF Follows, Testing, Stopping

LEMMA ReturnFollows ==
  ASSUME RepositoryInv, NEW p \in Procs, Return(p) \/ Raise(p) \/ Continue(p)
  PROVE  Follows(pc[p], loc[p])'
BY RestFollows DEF Return, Raise, Continue

LEMMA FailureFollows ==
  ASSUME RepositoryInv, NEW p \in Procs, NEW g \in Failures, Stop(p, g) \/ Restore(p, g),
         g = "quarantined" => status' = "branched", g = "rolled_back" => status' = "changed"
  PROVE  Follows(pc[p], loc[p])'
<1> DEFINE r == [Fresh EXCEPT !.state = loc[p].state, !.goal = g]
<1>1. r.goal = g
  <2>1. loc[p].state \in States /\ g \in States
    BY LocalTypes, StateTypes
  <2> QED BY <2>1, GoalTypes
<1>2. Goto(p, "terminal", r) \/ Goto(p, "restore_ref", r)
  BY DEF Stop, Restore
<1> HIDE DEF r
<1>3. pc'[p] \in {"terminal", "restore_ref"} /\ loc'[p] = r
  BY <1>2, Moved
<1> QED BY <1>1, <1>3 DEF Follows, Testing, Stopping

LEMMA BlockedFollows ==
  ASSUME RepositoryInv, NEW p \in Procs, Stop(p, "blocked") \/ Restore(p, "blocked")
  PROVE  Follows(pc[p], loc[p])'
<1>1. "blocked" \in Failures
  BY DEF Failures
<1> QED BY <1>1, FailureFollows

LEMMA TransitFollows ==
  ASSUME RepositoryInv, NEW p \in Procs, NEW s \in DOMAIN NEXT_STATES, status' = s,
         Transit(p, NEXT_STATES[s])
  PROVE  Follows(pc[p], loc[p])'
<1> DEFINE g == NEXT_STATES[s]
           r == [Fresh EXCEPT !.state = loc[p].state, !.goal = g]
<1>1. r.goal = g
  <2>1. loc[p].state \in States /\ g \in States
    BY LocalTypes, StateTypes
  <2> QED BY <2>1, GoalTypes
<1>2. Goto(p, "want", r)
  BY DEF Transit
<1>3. g \notin Failures
  BY Path
<1> HIDE DEF r
<1>4. pc'[p] = "want" /\ loc'[p] = r
  BY <1>2, Moved
<1> QED BY <1>1, <1>3, <1>4 DEF Follows, Testing, Stopping, Failures

\* The labels at which a process knows the same.
Phases ==
  { {"inspect", "branch"}, {"validate", "gate", "apply", "verify", "store_patch"}, Testing,
    {"commit_read", "commit", "commit_check", "push", "review"},
    {"draft_check", "draft_head", "draft"} }

LEMMA GoFollows ==
  ASSUME RepositoryInv, NEW p \in Procs, Follows(pc[p], loc[p]), NEW phase \in Phases,
         pc[p] \in phase, NEW l \in phase, NEW r, Goto(p, l, r), status' = status
  PROVE  Follows(pc[p], loc[p])'
<1>1. pc'[p] = l
  BY Moved
<1>2. \/ /\ phase = {"inspect", "branch"} /\ status = "inspecting"
      \/ /\ phase = {"validate", "gate", "apply", "verify", "store_patch"}
         /\ status = "branched"
      \/ /\ phase = Testing /\ status = "changed"
      \/ /\ phase = {"commit_read", "commit", "commit_check", "push", "review"}
         /\ status = "tested"
      \/ /\ phase = {"draft_check", "draft_head", "draft"} /\ status = "reviewed"
  BY DEF Follows, Phases
<1>3. CASE phase = Testing
  BY <1>1, <1>2, <1>3 DEF Follows, Testing, Stopping
<1>4. CASE phase # Testing
  BY <1>1, <1>2, <1>4 DEF Follows, Testing, Stopping
<1> QED BY <1>3, <1>4

LEMMA CreateFollows ==
  ASSUME RepositoryInv, FlowInv, Create
  PROVE  FlowInv'
<1>1. /\ status = "absent" /\ status' = "created" /\ Untouched
      /\ UNCHANGED <<tests, committed, remote, pc, loc>>
  BY DEF Create, world, FlowInv
<1>2. Untouched'
  BY <1>1 DEF Untouched, Starting, BeforeTested
<1>3. ASSUME NEW q \in Procs PROVE Follows(pc[q], loc[q])'
  <2>1. pc'[q] \in {"idle", "raised", "down"}
    BY <1>1, AtWork DEF Resting
  <2> QED BY <2>1 DEF Follows, Testing, Stopping
<1> QED BY <1>2, <1>3 DEF FlowInv

LEMMA UnseenFollows ==
  ASSUME FlowInv, Unseen, UNCHANGED <<pc, loc>>
  PROVE  FlowInv'
<1>1. Untouched'
  BY UntouchedStays DEF FlowInv
<1>2. ASSUME NEW q \in Procs PROVE Follows(pc[q], loc[q])'
  <2>1. Follows(pc[q], loc[q]) /\ status' = status /\ pc' = pc /\ loc' = loc
    BY DEF FlowInv, Unseen
  <2> QED BY <2>1 DEF Follows
<1> QED BY <1>1, <1>2 DEF FlowInv

\* The loop, and the way to the next state.
LEMMA LoopFollows ==
  ASSUME RepositoryInv, NEW p \in Procs, Loop(p)
  PROVE  Follows(pc[p], loc[p])'
<1>1. status \in States /\ status' = status
  BY AtWork DEF Loop, At, Resting, db
<1>2. CASE Return(p) \/ Raise(p)
  BY <1>2, ReturnFollows
<1>3. CASE /\ status \in DOMAIN Handler
           /\ Goto(p, Handler[status], [Fresh EXCEPT !.state = status])
  <2>1. [Fresh EXCEPT !.state = status].state = status
    <3>1. Fresh \in Locals
      BY FreshType
    <3> QED BY <3>1 DEF Locals
  <2>2. pc'[p] = Handler[status] /\ loc'[p].state = status
    BY <1>3, <2>1, Moved
  <2>3. \/ status = "inspecting" /\ pc'[p] = "inspect"
        \/ status = "branched" /\ pc'[p] = "validate"
        \/ status \in {"patch_validated", "changed"} /\ pc'[p] = "recheck"
        \/ status = "tested" /\ pc'[p] = "commit_read"
        \/ status = "reviewed" /\ pc'[p] = "draft_check"
    BY <1>3, <2>2 DEF Handler
  <2> QED BY <1>1, <2>2, <2>3 DEF Follows, Testing, Stopping
<1>4. CASE /\ status \notin TERMINAL_STATES /\ status \notin DOMAIN Handler
           /\ Goto(p, "want", [Fresh EXCEPT !.state = status, !.goal = NEXT_STATES[status]])
  <2>1. /\ status \in DOMAIN NEXT_STATES /\ NEXT_STATES[status] \notin Failures
        /\ NEXT_STATES[status] \in States
    BY <1>1, <1>4, Path, StateTypes
  <2>2. [Fresh EXCEPT !.state = status, !.goal = NEXT_STATES[status]].goal = NEXT_STATES[status]
    BY <1>1, <2>1, GoalTypes
  <2>3. pc'[p] = "want" /\ loc'[p].goal = NEXT_STATES[status]
    BY <1>4, <2>2, Moved
  <2>4. NEXT_STATES[status] \notin {"quarantined", "rolled_back"}
    BY <2>1 DEF Failures
  <2> QED BY <1>1, <2>1, <2>3, <2>4 DEF Follows, Testing, Stopping
<1> QED BY <1>1, <1>2, <1>3, <1>4 DEF Loop

LEMMA TerminalFollows ==
  ASSUME RepositoryInv, FlowInv, NEW p \in Procs, Terminal(p)
  PROVE  Follows(pc[p], loc[p])'
<1>1. CASE Return(p)
  BY <1>1, ReturnFollows
<1>2. CASE Goto(p, "want", loc[p])
  <2>1. pc'[p] = "want" /\ loc'[p] = loc[p] /\ status' = status /\ pc[p] = "terminal"
    BY <1>2, Moved DEF Terminal, db, At
  <2> QED BY <2>1, FlowOf DEF Follows, Testing, Stopping
<1> QED BY <1>1, <1>2 DEF Terminal

LEMMA WantFollows ==
  ASSUME RepositoryInv, FlowInv, NEW p \in Procs, Want(p)
  PROVE  Follows(pc[p], loc[p])'
<1>1. CASE Continue(p) \/ Return(p)
  BY <1>1, ReturnFollows
<1>2. CASE Goto(p, "transition", [loc[p] EXCEPT !.seen = status])
  <2>1. loc[p] \in Locals /\ pc[p] = "want" /\ status' = status
    BY FlowOf DEF Want, At, db
  <2>2. /\ [loc[p] EXCEPT !.seen = status].seen = status
        /\ [loc[p] EXCEPT !.seen = status].goal = loc[p].goal
    BY <2>1 DEF Locals
  <2>3. pc'[p] = "transition" /\ loc'[p].seen = status /\ loc'[p].goal = loc[p].goal
    BY <1>2, <2>2, Moved
  <2> QED BY <2>1, <2>3, FlowOf DEF Follows, Testing, Stopping
<1> QED BY <1>1, <1>2 DEF Want

\* A state is entered from the one before it, and a refusal from its own.
LEMMA TransitionFollows ==
  ASSUME RepositoryInv, FlowInv, NEW p \in Procs, Transition(p)
  PROVE  Untouched' /\ Follows(pc[p], loc[p])'
<1>1. /\ Follows("transition", loc[p]) /\ Untouched
      /\ UNCHANGED <<tests, committed, remote>>
  BY FlowOf DEF Transition, At, world
<1>2. status' = loc[p].goal /\ Continue(p)
  BY <1>1 DEF Transition, Unmoved, Follows
<1>3. CASE loc[p].goal \in Failures
  <2>1. status' \in BeforeTested \cup {"quarantined", "rolled_back"} =>
          status \in {"branched", "changed"}
    BY <1>1, <1>2, <1>3 DEF Follows, BeforeTested, Failures
  <2>2. status' \notin Starting
    BY <1>2, <1>3 DEF Starting, BeforeTested, Failures
  <2> QED BY <1>1, <1>2, <2>1, <2>2, ReturnFollows DEF Untouched, BeforeTested
<1>4. CASE loc[p].goal \notin Failures
  <2>1. status \in DOMAIN NEXT_STATES /\ status' = NEXT_STATES[status]
    BY <1>1, <1>2, <1>4 DEF Follows
  <2>2. /\ status' \in BeforeTested \cup {"quarantined", "rolled_back"} => status \in Starting
        /\ status' \in Starting => status \in Starting
    BY <2>1 DEF NEXT_STATES, Starting, BeforeTested
  <2> QED BY <1>1, <1>2, <2>2, ReturnFollows DEF Untouched, Starting
<1> QED BY <1>3, <1>4

\* The silent steps within a phase, and those out of it.
LEMMA ReadFollows ==
  ASSUME RepositoryInv, FlowInv, NEW p \in Procs,
         \/ InspectBase(p) \/ ValidateBranch(p) \/ Gate(p) \/ VerifyPatch(p) \/ Recheck(p)
         \/ TestBefore(p) \/ TestCopy(p) \/ Stage(p) \/ Staged(p)
         \/ CommitRead(p) \/ CommitCheck(p) \/ DraftCheck(p) \/ DraftHead(p)
  PROVE  Follows(pc[p], loc[p])'
<1>1. /\ Follows(pc[p], loc[p])
      /\ status' = status
  BY FlowOf DEF InspectBase, ValidateBranch, Gate, VerifyPatch, Recheck, TestBefore, TestCopy,
     Stage, Staged, CommitRead, CommitCheck, DraftCheck, DraftHead, db
<1>2. CASE Return(p) \/ Raise(p) \/ Stop(p, "blocked") \/ Restore(p, "blocked")
  BY <1>2, ReturnFollows, BlockedFollows
<1>3. CASE Restore(p, "quarantined") /\ pc[p] \in {"gate", "verify"}
  <2>1. status' = "branched" /\ "quarantined" \in Failures
    BY <1>1, <1>3 DEF Follows, Failures
  <2> QED BY <1>3, <2>1, FailureFollows
<1>4. ASSUME NEW phase \in Phases, pc[p] \in phase, NEW l \in phase, NEW r, Goto(p, l, r)
      PROVE  Follows(pc[p], loc[p])'
  BY <1>1, <1>4, GoFollows
<1>5. CASE InspectBase(p)
  BY <1>2, <1>4, <1>5 DEF InspectBase, At, Phases
<1>6. CASE ValidateBranch(p) \/ Gate(p) \/ VerifyPatch(p)
  BY <1>2, <1>3, <1>4, <1>6 DEF ValidateBranch, Gate, VerifyPatch, At, Phases
<1>7. CASE Recheck(p)
  <2>1. CASE Transit(p, "changed") /\ loc[p].state = "patch_validated"
    <3>1. status' = "patch_validated" /\ NEXT_STATES["patch_validated"] = "changed"
          /\ "patch_validated" \in DOMAIN NEXT_STATES
      BY <1>1, <1>7, <2>1 DEF Follows, Recheck, At, NEXT_STATES
    <3> QED BY <2>1, <3>1, TransitFollows
  <2>2. CASE Goto(p, "before", loc[p]) /\ loc[p].state = "changed"
    <3>1. status' = "changed" /\ pc'[p] = "before"
      BY <1>1, <1>7, <2>2, Moved DEF Follows, Recheck, At
    <3> QED BY <3>1 DEF Follows, Testing, Stopping
  <2> QED BY <1>2, <1>7, <2>1, <2>2 DEF Recheck
<1>8. CASE TestBefore(p) \/ TestCopy(p) \/ Stage(p) \/ Staged(p)
  <2>1. /\ Testing \in Phases /\ pc[p] \in Testing
        /\ {"copy", "test", "store_failure", "add", "store_test"} \subseteq Testing
    BY <1>8 DEF TestBefore, TestCopy, Stage, Staged, At, Phases, Testing
  <2> QED BY <1>2, <1>4, <1>8, <2>1 DEF TestBefore, TestCopy, Stage, Staged
<1>9. CASE CommitRead(p) \/ CommitCheck(p)
  <2>1. \/ \E l \in {"commit", "commit_check", "push"} : \E r : Goto(p, l, r)
        \/ Return(p) \/ Raise(p) \/ Stop(p, "blocked") \/ Restore(p, "blocked")
    BY <1>9 DEF CommitRead, CommitCheck, Refuse
  <2>2. pc[p] \in {"commit_read", "commit_check"}
    BY <1>9 DEF CommitRead, CommitCheck, At
  <2> QED BY <1>2, <1>4, <2>1, <2>2 DEF Phases
<1>10. CASE DraftCheck(p) \/ DraftHead(p)
  BY <1>2, <1>4, <1>10 DEF DraftCheck, DraftHead, At, Phases
<1> QED BY <1>5, <1>6, <1>7, <1>8, <1>9, <1>10

\* The steps that write to the repository or evidence.
LEMMA WriteFollows ==
  ASSUME RepositoryInv, FlowInv, NEW p \in Procs,
         \/ EnsureBranch(p) \/ Apply(p) \/ StorePatch(p) \/ Test(p) \/ Add(p) \/ StoreTest(p)
         \/ StoreFailure(p) \/ Commit(p) \/ Push(p) \/ Review(p)
  PROVE  Untouched' /\ Follows(pc[p], loc[p])'
<1>1. /\ Follows(pc[p], loc[p]) /\ Untouched
      /\ status' = status
  BY FlowOf DEF EnsureBranch, Apply, StorePatch, Test, Add, StoreTest, StoreFailure, Commit, Push,
     Review, db
<1>2. Raise(p) \/ Stop(p, "blocked") \/ Restore(p, "blocked") => Follows(pc[p], loc[p])'
  BY ReturnFollows, BlockedFollows
<1>3. ASSUME NEW phase \in Phases, pc[p] \in phase, NEW l \in phase, NEW r, Goto(p, l, r)
      PROVE  Follows(pc[p], loc[p])'
  BY <1>1, <1>3, GoFollows
<1>4. /\ NEXT_STATES["inspecting"] = "branched" /\ NEXT_STATES["branched"] = "patch_validated"
      /\ NEXT_STATES["changed"] = "tested" /\ NEXT_STATES["tested"] = "reviewed"
      /\ {"inspecting", "branched", "changed", "tested"} \subseteq DOMAIN NEXT_STATES
      /\ {"quarantined", "rolled_back"} \subseteq Failures
  BY DEF NEXT_STATES, Failures
<1>5. CASE EnsureBranch(p)
  <2>1. status = "inspecting" /\ UNCHANGED <<tests, committed, remote>>
    BY <1>1, <1>5 DEF EnsureBranch, At, Follows, db
  <2>2. Transit(p, "branched") \/ Stop(p, "blocked")
    BY <1>5 DEF EnsureBranch
  <2> QED BY <1>1, <1>2, <1>4, <2>1, <2>2, TransitFollows DEF Untouched
<1>6. CASE Apply(p)
  <2>1. status = "branched" /\ UNCHANGED <<tests, committed, remote>> /\ pc[p] = "apply"
    BY <1>1, <1>6 DEF Apply, At, Follows, db
  <2>2. Goto(p, "verify", loc[p]) \/ Restore(p, "quarantined")
    BY <1>6 DEF Apply
  <2>3. Untouched'
    BY <1>1, <2>1 DEF Untouched
  <2> QED BY <1>1, <1>3, <1>4, <2>1, <2>2, <2>3, FailureFollows DEF Phases
<1>7. CASE StorePatch(p)
  <2>1. status = "branched" /\ UNCHANGED <<tests, committed, remote>>
    BY <1>1, <1>7 DEF StorePatch, At, Follows, world
  <2> QED BY <1>1, <1>2, <1>4, <1>7, <2>1, TransitFollows DEF StorePatch, Untouched
<1>8. CASE Test(p) \/ Add(p)
  <2>1. /\ status = "changed" /\ UNCHANGED <<tests, committed, remote>> /\ pc[p] \in Testing
        /\ Testing \in Phases /\ {"stage", "store_failure", "staged"} \subseteq Testing
    BY <1>1, <1>8 DEF Test, Add, At, Follows, db, Testing, Phases
  <2>2. \/ \E l \in {"stage", "store_failure", "staged"} : \E r : Goto(p, l, r)
        \/ Stop(p, "blocked")
    BY <1>8 DEF Test, Add
  <2>3. Untouched'
    BY <1>1, <2>1 DEF Untouched
  <2> QED BY <1>2, <1>3, <2>1, <2>2, <2>3
<1>9. CASE StoreTest(p) \/ StoreFailure(p)
  <2>1. status = "changed" /\ UNCHANGED <<committed, remote>>
    BY <1>1, <1>9 DEF StoreTest, StoreFailure, At, Follows, Testing, world
  <2>2. Untouched'
    BY <1>1, <2>1 DEF Untouched, Starting
  <2>3. Transit(p, "tested") \/ Restore(p, "rolled_back") \/ Raise(p)
    BY <1>9 DEF StoreTest, StoreFailure
  <2> QED BY <1>1, <1>2, <1>4, <2>1, <2>2, <2>3, TransitFollows, FailureFollows
<1>10. CASE Commit(p) \/ Push(p) \/ Review(p)
  <2>1. status = "tested" /\ pc[p] \in {"commit", "push", "review"}
    BY <1>1, <1>10 DEF Commit, Push, Review, At, Follows
  <2>2. Untouched'
    BY <1>1, <2>1 DEF Untouched, Starting, BeforeTested
  <2>3. \/ \E l \in {"commit_check", "review"} : \E r : Goto(p, l, r)
        \/ Stop(p, "blocked") \/ Restore(p, "blocked") \/ Transit(p, "reviewed") \/ Raise(p)
    BY <1>10 DEF Commit, Push, Review, PushFails, Refuse
  <2> QED BY <1>1, <1>2, <1>3, <1>4, <2>1, <2>2, <2>3, TransitFollows DEF Phases
<1> QED BY <1>5, <1>6, <1>7, <1>8, <1>9, <1>10

LEMMA RestoreFollows ==
  ASSUME RepositoryInv, FlowInv, NEW p \in Procs, RestoreRef(p) \/ RestorePaths(p)
  PROVE  Unseen /\ Follows(pc[p], loc[p])'
<1>1. Follows(pc[p], loc[p]) /\ Unseen /\ pc[p] \in Stopping
  BY FlowOf DEF RestoreRef, RestorePaths, At, Unseen, db, Stopping
<1>2. RestoreFails(p) => Follows(pc[p], loc[p])'
  BY ReturnFollows, BlockedFollows DEF RestoreFails
<1>3. ASSUME NEW l \in {"restore_paths", "want", "terminal"}, Goto(p, l, loc[p])
      PROVE  Follows(pc[p], loc[p])'
  <2>1. pc'[p] = l /\ loc'[p] = loc[p] /\ status' = status
    BY <1>1, <1>3, Moved DEF Unseen
  <2> QED BY <1>1, <2>1 DEF Follows, Testing, Stopping
<1> QED BY <1>1, <1>2, <1>3 DEF RestoreRef, RestorePaths

LEMMA DraftFollows ==
  ASSUME RepositoryInv, FlowInv, NEW p \in Procs, Draft(p)
  PROVE  Untouched' /\ Follows(pc[p], loc[p])'
<1>1. /\ status = "reviewed" /\ Untouched
      /\ UNCHANGED <<tests, committed, remote>>
  BY FlowOf DEF Draft, At, Follows, world
<1>2. status' \in {"reviewed", "draft_pr_recorded"}
  BY <1>1 DEF Draft
<1>3. Untouched'
  BY <1>2 DEF Untouched, Starting, BeforeTested
<1> QED BY <1>3, ReturnFollows, RestFollows DEF Draft

LEMMA FlowInvariant ==
  ASSUME OneProcess
  PROVE  Spec => [](RepositoryInv /\ FlowInv)
<1>1. Init => RepositoryInv /\ FlowInv
  <2> SUFFICES ASSUME Init PROVE RepositoryInv /\ FlowInv
    OBVIOUS
  <2>1. Untouched
    BY DEF Init, Untouched, NoCommit
  <2>2. ASSUME NEW q \in Procs PROVE Follows(pc[q], loc[q])
    <3>1. pc[q] = "idle"
      BY DEF Init
    <3> QED BY <3>1 DEF Follows, Testing, Stopping
  <2> QED BY <2>1, <2>2, InitRuns DEF FlowInv
<1>2. RepositoryInv /\ FlowInv /\ [Next]_vars => RepositoryInv' /\ FlowInv'
  <2> SUFFICES ASSUME RepositoryInv, FlowInv, [Next]_vars PROVE FlowInv'
    BY RepositoryStep
  <2>1. ASSUME NEW p \in Procs, Untouched', Follows(pc[p], loc[p])' PROVE FlowInv'
    BY <2>1, FlowStep
  <2>2. Unseen => Untouched'
    BY UntouchedStays DEF FlowInv
  <2>3. CASE UNCHANGED vars
    BY <2>3, SilentUnseen, UnseenFollows DEF vars
  <2>4. CASE Meddle
    BY <2>4, UnseenFollows DEF Meddle, Unseen, db
  <2>5. ASSUME NEW p \in Procs, Run(p) PROVE FlowInv'
    BY <2>1, <2>2, <2>5, SilentUnseen, RestFollows, BlockedFollows DEF Run
  <2>6. ASSUME NEW p \in Procs, Crash(p) PROVE FlowInv'
    BY <2>1, <2>2, <2>6, SilentUnseen, RestFollows DEF Crash
  <2>7. ASSUME NEW p \in Procs, Loop(p) \/ Terminal(p) \/ Want(p) PROVE FlowInv'
    <3>1. Unseen
      BY <2>7, SilentUnseen DEF Loop, Terminal, Want
    <3> QED BY <2>1, <2>2, <2>7, <3>1, LoopFollows, TerminalFollows, WantFollows
  <2>8. ASSUME NEW p \in Procs,
               \/ InspectBase(p) \/ ValidateBranch(p) \/ Gate(p) \/ VerifyPatch(p) \/ Recheck(p)
               \/ TestBefore(p) \/ TestCopy(p) \/ Stage(p) \/ Staged(p)
               \/ CommitRead(p) \/ CommitCheck(p) \/ DraftCheck(p) \/ DraftHead(p)
        PROVE  FlowInv'
    <3>1. Unseen
      BY <2>8, SilentUnseen DEF InspectBase, ValidateBranch, Gate, VerifyPatch, Recheck,
         TestBefore, TestCopy, Stage, Staged, CommitRead, CommitCheck, DraftCheck, DraftHead
    <3> QED BY <2>1, <2>2, <2>8, <3>1, ReadFollows
  <2>9. ASSUME NEW p \in Procs, Work(p) PROVE FlowInv'
    BY <2>1, <2>2, <2>7, <2>8, <2>9, TransitionFollows, WriteFollows, RestoreFollows, DraftFollows
       DEF Work
  <2> QED BY <2>3, <2>4, <2>5, <2>6, <2>9, CreateFollows DEF Next
<1> QED BY <1>1, <1>2, PTL DEF Spec

\* A mission quarantined by the gate, or rolled back after its tests failed,
\* made no commit and pushed nothing: both are left before git commit, whatever
\* anybody does to the repository and however often.
THEOREM RefusalPublishesNothing ==
  ASSUME OneProcess
  PROVE  Spec => []RefusedIsUnpublished
<1>1. FlowInv => RefusedIsUnpublished
  BY DEF FlowInv, Untouched, RefusedIsUnpublished
<1> QED BY <1>1, FlowInvariant, PTL

-----------------------------------------------------------------------------
(* What is published, if anybody changes the repository once: edits or      *)
(* litters it, commits or switches branches.                                *)

OneMeddling == MaxMeddling <= 1

\* Only a switch leaves the branch, for a main that is still at the base.
OnBranch == git.branch = "mission" \/ (meddled = 1 /\ git.main = BaseCommit)

\* The last test passed if it has a result, and so did the work tree as long as
\* nobody changed it.
Ready ==
  /\ Latest(tests).tree \in passed \cup {NoTree}
  /\ meddled = 0 => git.wt \in passed \cup {Base}

SoundInv ==
  /\ PublishedIsTested
  /\ git.branch = "mission" /\ meddled = 0 => git.main = BaseCommit
  /\ status \in {"branched", "patch_validated", "changed", "tested"} => OnBranch
  /\ \A i \in DOMAIN patches :
       patches[i].snap.wt # Base \/ patches[i].snap.wt = HeadOf(patches[i].snap).tree
  /\ status = "changed" => Target # Base /\ (OnTarget \/ Spent)
  /\ status = "tested" => Ready

\* git is the snapshot, but for the index.
StagedSince(r) == git = [r.snap EXCEPT !.index = git.index]

Finds(l, r) ==
  /\ l = "branch" /\ meddled = 0 => HeadOf(git) = BaseCommit
  /\ l = "apply" => HeadOf(git) = BaseCommit /\ (meddled = 0 => git.wt = Base)
  /\ l \in {"verify", "store_patch"} =>
       HeadOf(git) = BaseCommit \/ (meddled = 1 /\ git.wt = HeadOf(git).tree)
  /\ l \in Testing => OnTarget
  /\ l = "before" => git.wt = Target \/ meddled = 1
  /\ l \in {"copy", "test", "stage", "add"} =>
       (git = r.snap /\ r.snap.wt = Target) \/ meddled = 1
  /\ l = "test" => r.tree = r.snap.wt \/ git # r.snap
  /\ l \in {"stage", "add", "staged"} => (r.ok => r.snap.wt \in passed)
  /\ l = "staged" =>
       /\ git.index = git.wt \/ ~StagedSince(r)
       /\ (StagedSince(r) /\ r.snap.wt = Target) \/ meddled = 1
  /\ l = "store_test" =>
       /\ r.tree # NoTree /\ (r.ok => r.tree \in passed)
       /\ r.tree = Target \/ (meddled = 1 /\ git.wt = r.tree)
       /\ meddled = 0 => git.wt = r.tree
  /\ l \in {"commit", "commit_check"} => r.tree = Latest(tests).tree /\ r.tree \in passed
  /\ l = "commit" => git.branch = "mission" \/ git.index = HeadOf(git).tree
  /\ l = "push" => git.ref.tree \in passed
  /\ l \in {"want", "transition"} =>
       /\ r.goal = "branched" => OnBranch
       /\ r.goal = "changed" => Target # Base
       /\ r.goal = "tested" => Ready

TestedInv == SoundInv /\ \A p \in Procs : Finds(pc[p], loc[p])
\* What the process finds in the repository in its own words.
LEMMA TestedOf ==
  ASSUME RepositoryInv, FlowInv, TestedInv, NEW p \in Procs
  PROVE  /\ Finds(pc[p], loc[p]) /\ SoundInv /\ Follows(pc[p], loc[p]) /\ loc[p] \in Locals
         /\ git \in GitType /\ passed \subseteq Trees
BY FlowOf DEF TestedInv, RepositoryInv, TypeOK

LEMMA TestedStep ==
  ASSUME OneProcess, NEW p \in Procs, SoundInv', Finds(pc[p], loc[p])'
  PROVE  TestedInv'
<1>1. \A q \in Procs : q = p
  BY DEF OneProcess
<1> QED BY <1>1 DEF TestedInv

\* The labels at which a process relies on the repository.
Asking == Testing \cup {"branch", "apply", "verify", "store_patch", "commit", "commit_check",
                        "push", "want", "transition"}

LEMMA FreeFinds ==
  ASSUME RepositoryInv, NEW p \in Procs, NEW l, l \notin Asking, NEW r, Goto(p, l, r)
  PROVE  Finds(pc[p], loc[p])'
<1>1. pc'[p] = l
  BY Moved
<1> QED BY <1>1 DEF Finds, Asking, Testing

LEMMA StopFinds ==
  ASSUME RepositoryInv, NEW p \in Procs,
         \/ Return(p) \/ Raise(p) \/ Continue(p) \/ RestoreFails(p)
         \/ \E g : Stop(p, g) \/ Restore(p, g)
  PROVE  Finds(pc[p], loc[p])'
<1>1. \E l \in {"idle", "raised", "loop", "terminal", "restore_ref"} : \E r : Goto(p, l, r)
  BY DEF Return, Raise, Continue, RestoreFails, Stop, Restore
<1>2. \A l \in {"idle", "raised", "loop", "terminal", "restore_ref"} : l \notin Asking
  BY DEF Asking, Testing
<1> QED BY <1>1, <1>2, FreeFinds

\* On the way to a state that does not depend on the repository, or to one
\* whose demand is met.
LEMMA GoalFinds ==
  ASSUME RepositoryInv, NEW p \in Procs, NEW l \in {"want", "transition"}, NEW r, Goto(p, l, r),
         r.goal = "branched" => OnBranch', r.goal = "changed" => (Target # Base)',
         r.goal = "tested" => Ready'
  PROVE  Finds(pc[p], loc[p])'
<1>1. pc'[p] = l /\ loc'[p] = r
  BY Moved
<1> QED BY <1>1 DEF Finds, Testing

LEMMA TransitFinds ==
  ASSUME RepositoryInv, NEW p \in Procs, NEW g \in States, Transit(p, g),
         g = "branched" => OnBranch', g = "changed" => (Target # Base)', g = "tested" => Ready'
  PROVE  Finds(pc[p], loc[p])'
<1> DEFINE r == [Fresh EXCEPT !.state = loc[p].state, !.goal = g]
<1>1. r.goal = g
  <2>1. loc[p].state \in States
    BY LocalTypes
  <2> QED BY <2>1, GoalTypes
<1>2. Goto(p, "want", r)
  BY DEF Transit
<1> HIDE DEF r
<1> QED BY <1>1, <1>2, GoalFinds

\* Nothing that was found changed.
LEMMA SameFinds ==
  ASSUME UNCHANGED <<db, world>>
  PROVE  /\ git' = git /\ meddled' = meddled /\ passed' = passed /\ status' = status
         /\ tests' = tests /\ patches' = patches /\ Target' = Target /\ OnTarget' = OnTarget
         /\ Ready' = Ready /\ OnBranch' = OnBranch
BY DEF db, world, Target, OnTarget, Ready, OnBranch

LEMMA SoundStays ==
  ASSUME SoundInv, UNCHANGED <<db, world>>
  PROVE  SoundInv'
BY DEF SoundInv, PublishedIsTested, Spent, Target, OnTarget, Ready, OnBranch, db, world

\* The repository alone changed, but not what the rows say of the work tree, and
\* the branch checked out is the mission's only on a main that is at the base.
LEMMA GitSound ==
  ASSUME SoundInv,
         UNCHANGED <<status, patches, tests, remote, passed, meddled>>,
         git'.main = git.main,
         \/ git'.branch = git.branch
         \/ git'.branch = "mission" /\ (meddled = 0 => git.main = BaseCommit),
         status \in {"changed", "tested"} => git'.wt \in {git.wt, Base}
  PROVE  SoundInv'
<1>1. /\ PublishedIsTested' /\ Target' = Target /\ OnTarget' = OnTarget
      /\ \A i \in DOMAIN patches' :
           patches'[i].snap.wt # Base \/ patches'[i].snap.wt = HeadOf(patches'[i].snap).tree
  BY DEF SoundInv, PublishedIsTested, Target, OnTarget, HeadOf
<1>2. /\ git'.branch = "mission" /\ meddled' = 0 => git'.main = BaseCommit
      /\ OnBranch => OnBranch'
  BY DEF SoundInv, OnBranch
<1>3. git'.wt \in {git.wt, Base} => (Spent => Spent') /\ (Ready => Ready')
  BY <1>1 DEF Spent, Ready
<1> QED BY <1>1, <1>2, <1>3 DEF SoundInv

\* Steps that only read.

LEMMA LoopFinds ==
  ASSUME RepositoryInv, NEW p \in Procs, Loop(p)
  PROVE  Finds(pc[p], loc[p])'
<1>1. status \in States
  BY AtWork DEF Loop, At, Resting
<1>2. CASE Return(p) \/ Raise(p)
  BY <1>2, StopFinds
<1>3. CASE /\ status \in DOMAIN Handler
           /\ Goto(p, Handler[status], [Fresh EXCEPT !.state = status])
  <2>1. Handler[status] \notin Asking
    BY <1>3 DEF Handler, Asking, Testing
  <2> QED BY <1>3, <2>1, FreeFinds
<1>4. CASE /\ status \notin TERMINAL_STATES /\ status \notin DOMAIN Handler
           /\ Goto(p, "want", [Fresh EXCEPT !.state = status, !.goal = NEXT_STATES[status]])
  <2>1. /\ NEXT_STATES[status] \in {"authorized", "inspecting", "awaiting_human"}
        /\ NEXT_STATES[status] \in States
    BY <1>1, <1>4 DEF States, NEXT_STATES, TERMINAL_STATES, Handler, Failures
  <2>2. [Fresh EXCEPT !.state = status, !.goal = NEXT_STATES[status]].goal = NEXT_STATES[status]
    BY <1>1, <2>1, GoalTypes
  <2> QED BY <1>4, <2>1, <2>2, GoalFinds
<1> QED BY <1>1, <1>2, <1>3, <1>4 DEF Loop

LEMMA TerminalFinds ==
  ASSUME RepositoryInv, FlowInv, TestedInv, NEW p \in Procs, Terminal(p)
  PROVE  Finds(pc[p], loc[p])'
<1>1. CASE Return(p)
  BY <1>1, StopFinds
<1>2. CASE Goto(p, "want", loc[p])
  <2>1. loc[p].goal \in Failures
    BY TestedOf DEF Terminal, At, Follows, Stopping
  <2>2. loc[p].goal \notin {"branched", "changed", "tested"}
    BY <2>1 DEF Failures
  <2> QED BY <1>2, <2>2, GoalFinds
<1> QED BY <1>1, <1>2 DEF Terminal

LEMMA WantFinds ==
  ASSUME RepositoryInv, FlowInv, TestedInv, NEW p \in Procs, Want(p)
  PROVE  Finds(pc[p], loc[p])'
<1>1. CASE Continue(p) \/ Return(p)
  BY <1>1, StopFinds
<1>2. CASE Goto(p, "transition", [loc[p] EXCEPT !.seen = status])
  <2>1. loc[p] \in Locals /\ Finds("want", loc[p]) /\ UNCHANGED <<db, world>>
    BY TestedOf DEF Want, At
  <2>2. [loc[p] EXCEPT !.seen = status].goal = loc[p].goal
    BY <2>1 DEF Locals
  <2>3. /\ loc[p].goal = "branched" => OnBranch'
        /\ loc[p].goal = "changed" => (Target # Base)'
        /\ loc[p].goal = "tested" => Ready'
    BY <2>1, SameFinds DEF Finds
  <2> QED BY <1>2, <2>2, <2>3, GoalFinds
<1> QED BY <1>1, <1>2 DEF Want

\* Up to the patch.
LEMMA PatchReadFinds ==
  ASSUME RepositoryInv, FlowInv, TestedInv, NEW p \in Procs,
         InspectBase(p) \/ ValidateBranch(p) \/ Gate(p) \/ VerifyPatch(p)
  PROVE  Finds(pc[p], loc[p])'
<1>1. UNCHANGED <<db, world>> /\ Finds(pc[p], loc[p])
  BY TestedOf DEF InspectBase, ValidateBranch, Gate, VerifyPatch
<1>2. git' = git /\ meddled' = meddled
  BY <1>1, SameFinds
<1>3. CASE InspectBase(p)
  <2>1. CASE HeadOf(git) = BaseCommit /\ Goto(p, "branch", loc[p])
    <3>1. pc'[p] = "branch"
      BY <2>1, Moved
    <3>2. HeadOf(git') = BaseCommit
      BY <1>2, <2>1
    <3> QED BY <3>1, <3>2 DEF Finds, Testing
  <2> QED BY <1>3, <2>1, StopFinds DEF InspectBase
<1>4. CASE ValidateBranch(p)
  <2>1. "gate" \notin Asking
    BY DEF Asking, Testing
  <2> QED BY <1>4, <2>1, FreeFinds, StopFinds DEF ValidateBranch
<1>5. CASE Gate(p)
  <2>1. ASSUME HeadOf(git) = BaseCommit, Clean(git), NEW r, Goto(p, "apply", r)
        PROVE  Finds(pc[p], loc[p])'
    <3>1. pc'[p] = "apply"
      BY <2>1, Moved
    <3>2. git.wt = Base
      BY <2>1, CommitTypes DEF Clean
    <3>3. HeadOf(git') = BaseCommit /\ git'.wt = Base
      BY <1>2, <2>1, <3>2
    <3> QED BY <3>1, <3>3 DEF Finds, Testing
  <2> QED BY <1>5, <2>1, StopFinds DEF Gate
<1>6. CASE VerifyPatch(p)
  <2>1. CASE Goto(p, "store_patch", loc[p])
    <3>1. pc'[p] = "store_patch"
      BY <2>1, Moved
    <3>2. HeadOf(git) = BaseCommit \/ (meddled = 1 /\ git.wt = HeadOf(git).tree)
      BY <1>1, <1>6 DEF Finds, VerifyPatch, At
    <3>3. HeadOf(git') = BaseCommit \/ (meddled' = 1 /\ git'.wt = HeadOf(git').tree)
      BY <1>2, <3>2
    <3> QED BY <3>1, <3>3 DEF Finds, Testing
  <2> QED BY <1>6, <2>1, StopFinds DEF VerifyPatch
<1> QED BY <1>3, <1>4, <1>5, <1>6

\* What is still there is a change, and the work tree of the last patch.
LEMMA ChangeFound ==
  ASSUME RepositoryInv, SoundInv, Unchanged, patches # <<>>
  PROVE  git.wt = Target /\ Target # Base
<1>1. git = Latest(patches).snap /\ git.wt # HeadOf(git).tree
  BY DEF Unchanged, OnlyDeclaredPaths
<1>2. Len(patches) \in DOMAIN patches
  <2>1. patches \in Seq(PatchType)
    BY DEF RepositoryInv, TypeOK, PatchType
  <2> QED BY <2>1
<1> QED BY <1>1, <1>2 DEF SoundInv, Target, Latest

LEMMA RecheckFinds ==
  ASSUME RepositoryInv, FlowInv, TestedInv, NEW p \in Procs, Recheck(p)
  PROVE  Finds(pc[p], loc[p])'
<1>1. /\ status \in {"patch_validated", "changed"} /\ loc[p].state = status /\ SoundInv
      /\ UNCHANGED <<db, world>>
  BY TestedOf DEF Recheck, At, Follows
<1>2. patches # <<>>
  BY <1>1 DEF RepositoryInv, PathInv, WithPatch
<1>3. CASE Unchanged /\ Transit(p, "changed")
  <2>1. (Target # Base)' /\ "changed" \in States
    BY <1>1, <1>2, <1>3, ChangeFound, SameFinds DEF States, NEXT_STATES
  <2> QED BY <1>3, <2>1, TransitFinds
<1>4. CASE Unchanged /\ loc[p].state = "changed" /\ Goto(p, "before", loc[p])
  <2>1. pc'[p] = "before"
    BY <1>4, Moved
  <2>2. git.wt = Target /\ Target # Base
    BY <1>1, <1>2, <1>4, ChangeFound
  <2>3. OnTarget
    BY <1>1, <1>4, <2>2 DEF SoundInv, Spent
  <2>4. OnTarget' /\ git'.wt = Target'
    BY <1>1, <2>2, <2>3, SameFinds
  <2> QED BY <2>1, <2>4 DEF Finds
<1>5. CASE Restore(p, "blocked") \/ Raise(p)
  BY <1>5, StopFinds
<1> QED BY <1>3, <1>4, <1>5 DEF Recheck

\* The tests.
LEMMA TestReadFinds ==
  ASSUME RepositoryInv, FlowInv, TestedInv, NEW p \in Procs,
         TestBefore(p) \/ TestCopy(p) \/ Stage(p)
  PROVE  Finds(pc[p], loc[p])'
<1>1. /\ UNCHANGED <<db, world>> /\ Finds(pc[p], loc[p]) /\ loc[p] \in Locals /\ OnTarget
  BY TestedOf DEF TestBefore, TestCopy, Stage, At, Finds, Testing
<1>2. /\ git' = git /\ meddled' = meddled /\ passed' = passed /\ Target' = Target /\ OnTarget'
  BY <1>1, SameFinds
<1>3. CASE TestBefore(p)
  <2>1. [loc[p] EXCEPT !.snap = git].snap = git
    BY <1>1 DEF Locals
  <2>2. pc'[p] = "copy" /\ loc'[p].snap = git
    BY <1>3, <2>1, Moved DEF TestBefore
  <2>3. git.wt = Target \/ meddled = 1
    BY <1>1, <1>3 DEF TestBefore, At, Finds
  <2>4. (git' = loc'[p].snap /\ loc'[p].snap.wt = Target') \/ meddled' = 1
    BY <1>2, <2>2, <2>3
  <2> QED BY <1>2, <2>2, <2>4 DEF Finds
<1>4. CASE TestCopy(p)
  <2>1. CASE Goto(p, "test", [loc[p] EXCEPT !.tree = git.wt])
    <3>1. /\ [loc[p] EXCEPT !.tree = git.wt].snap = loc[p].snap
          /\ [loc[p] EXCEPT !.tree = git.wt].tree = git.wt
      BY <1>1 DEF Locals
    <3>2. pc'[p] = "test" /\ loc'[p].snap = loc[p].snap /\ loc'[p].tree = git.wt
      BY <2>1, <3>1, Moved
    <3>3. (git = loc[p].snap /\ loc[p].snap.wt = Target) \/ meddled = 1
      BY <1>1, <1>4 DEF TestCopy, At, Finds
    <3>4. /\ (git' = loc'[p].snap /\ loc'[p].snap.wt = Target') \/ meddled' = 1
          /\ loc'[p].tree = loc'[p].snap.wt \/ git' # loc'[p].snap
      BY <1>2, <3>2, <3>3
    <3> QED BY <1>2, <3>2, <3>4 DEF Finds
  <2>2. CASE Goto(p, "store_failure", loc[p])
    <3>1. pc'[p] = "store_failure"
      BY <2>2, Moved
    <3> QED BY <1>2, <3>1 DEF Finds
  <2> QED BY <1>4, <2>1, <2>2 DEF TestCopy
<1>5. CASE Stage(p)
  <2>1. CASE Goto(p, "add", loc[p])
    <3>1. pc'[p] = "add" /\ loc'[p] = loc[p]
      BY <2>1, Moved
    <3>2. /\ (git = loc[p].snap /\ loc[p].snap.wt = Target) \/ meddled = 1
          /\ loc[p].ok => loc[p].snap.wt \in passed
      BY <1>1, <1>5 DEF Stage, At, Finds
    <3>3. /\ (git' = loc'[p].snap /\ loc'[p].snap.wt = Target') \/ meddled' = 1
          /\ loc'[p].ok => loc'[p].snap.wt \in passed'
      BY <1>2, <3>1, <3>2
    <3> QED BY <1>2, <3>1, <3>3 DEF Finds
  <2> QED BY <1>5, <2>1, StopFinds DEF Stage
<1> QED BY <1>3, <1>4, <1>5

\* What is in the index is the work tree, and that is what the tests ran on.
LEMMA StagedFinds ==
  ASSUME RepositoryInv, FlowInv, TestedInv, NEW p \in Procs, Staged(p)
  PROVE  Finds(pc[p], loc[p])'
<1>1. /\ UNCHANGED <<db, world>> /\ Finds("staged", loc[p]) /\ loc[p] \in Locals /\ OnTarget
      /\ git \in GitType
  BY TestedOf DEF Staged, At, Finds, Testing
<1>2. /\ git' = git /\ meddled' = meddled /\ passed' = passed /\ Target' = Target /\ OnTarget'
  BY <1>1, SameFinds
<1>3. CASE StagedOnly(p) /\ Goto(p, "store_test", [loc[p] EXCEPT !.tree = git.index])
  <2>1. /\ [loc[p] EXCEPT !.tree = git.index].ok = loc[p].ok
        /\ [loc[p] EXCEPT !.tree = git.index].tree = git.index
    BY <1>1 DEF Locals
  <2>2. pc'[p] = "store_test" /\ loc'[p].ok = loc[p].ok /\ loc'[p].tree = git.index
    BY <1>3, <2>1, Moved
  <2>3. StagedSince(loc[p]) /\ git.index = git.wt
    BY <1>1, <1>3 DEF Finds, StagedSince, StagedOnly
  <2>4. git.wt = loc[p].snap.wt
    <3>1. loc[p].snap \in GitType
      <4>1. git.index \in Trees
        BY <1>1 DEF GitType
      <4>2. CASE loc[p].snap = NoGit
        BY <1>1, <2>3, <4>1, <4>2, RepositoryAssumption DEF StagedSince, NoGit, GitType
      <4> QED BY <1>1, <4>2 DEF Locals
    <3>2. [loc[p].snap EXCEPT !.index = git.index].wt = loc[p].snap.wt
      BY <3>1 DEF GitType
    <3> QED BY <2>3, <3>2 DEF StagedSince
  <2>5. git.index # NoTree
    BY <1>1, RepositoryAssumption DEF GitType
  <2>6. /\ loc[p].ok => loc[p].snap.wt \in passed
        /\ loc[p].snap.wt = Target \/ meddled = 1
    BY <1>1 DEF Finds
  <2>7. /\ loc'[p].tree # NoTree /\ (loc'[p].ok => loc'[p].tree \in passed')
        /\ loc'[p].tree = Target' \/ (meddled' = 1 /\ git'.wt = loc'[p].tree)
        /\ git'.wt = loc'[p].tree
    BY <1>2, <2>2, <2>3, <2>4, <2>5, <2>6
  <2> QED BY <1>2, <2>2, <2>7 DEF Finds
<1>4. CASE Stop(p, "blocked")
  BY <1>4, StopFinds
<1> QED BY <1>3, <1>4 DEF Staged

\* The commit and the draft.
LEMMA CommitReadFinds ==
  ASSUME RepositoryInv, FlowInv, TestedInv, NEW p \in Procs, CommitRead(p)
  PROVE  Finds(pc[p], loc[p])'
<1>1. status = "tested" /\ loc[p] \in Locals /\ SoundInv /\ UNCHANGED <<db, world>>
  BY TestedOf DEF CommitRead, At, Follows
<1>2. git' = git /\ passed' = passed /\ tests' = tests
  BY <1>1, SameFinds
<1> DEFINE r == [loc[p] EXCEPT !.tree = Latest(tests).tree, !.head = HeadOf(git),
                               !.clean = Clean(git)]
           l == IF HeadOf(git) = BaseCommit THEN "commit" ELSE "commit_check"
<1>3. CASE HasResult(Latest(tests)) /\ git.branch = "mission" /\ Goto(p, l, r)
  <2>1. r.tree = Latest(tests).tree
    BY <1>1 DEF Locals
  <2>2. l \in {"commit", "commit_check"}
    OBVIOUS
  <2> HIDE DEF r, l
  <2>3. pc'[p] = l /\ loc'[p].tree = Latest(tests).tree
    BY <1>3, <2>1, Moved
  <2>4. Latest(tests).tree \in passed
    BY <1>1, <1>3 DEF SoundInv, Ready, HasResult
  <2>5. /\ loc'[p].tree = Latest(tests').tree /\ loc'[p].tree \in passed'
        /\ git'.branch = "mission"
    BY <1>2, <1>3, <2>3, <2>4
  <2> QED BY <2>2, <2>3, <2>5 DEF Finds, Testing
<1>4. CASE Return(p) \/ Raise(p) \/ Stop(p, "blocked")
  BY <1>4, StopFinds
<1> QED BY <1>3, <1>4 DEF CommitRead, Refuse

\* A commit that is not the base's is on the mission's branch.
LEMMA CommitCheckFinds ==
  ASSUME RepositoryInv, FlowInv, TestedInv, NEW p \in Procs, CommitCheck(p)
  PROVE  Finds(pc[p], loc[p])'
<1>1. /\ status = "tested" /\ loc[p] \in Locals /\ SoundInv /\ UNCHANGED <<db, world>>
      /\ loc[p].tree \in passed
  BY TestedOf DEF CommitCheck, At, Follows, Finds
<1>2. git' = git /\ passed' = passed
  BY <1>1, SameFinds
<1>3. ASSUME HeadOf(git) # BaseCommit, HeadOf(git).tree = loc[p].tree, NEW r, Goto(p, "push", r)
      PROVE  Finds(pc[p], loc[p])'
  <2>1. git.branch = "mission" \/ git.main = BaseCommit
    BY <1>1 DEF SoundInv, OnBranch
  <2>2. git.branch = "mission" /\ HeadOf(git) = git.ref
    BY <1>3, <2>1 DEF HeadOf
  <2>3. git'.ref.tree \in passed'
    BY <1>1, <1>2, <1>3, <2>2
  <2>4. pc'[p] = "push"
    BY <1>3, Moved
  <2> QED BY <2>3, <2>4 DEF Finds, Testing
<1>4. CASE Restore(p, "blocked") \/ Stop(p, "blocked") \/ Raise(p)
  BY <1>4, StopFinds
<1> QED BY <1>3, <1>4 DEF CommitCheck, Refuse

LEMMA DraftReadFinds ==
  ASSUME RepositoryInv, NEW p \in Procs, DraftCheck(p) \/ DraftHead(p)
  PROVE  Finds(pc[p], loc[p])'
<1>1. "draft_head" \notin Asking /\ "draft" \notin Asking
  BY DEF Asking, Testing
<1>2. \/ Return(p) \/ Raise(p) \/ Stop(p, "blocked")
      \/ \E l \in {"draft_head", "draft"} : \E r : Goto(p, l, r)
  BY DEF DraftCheck, DraftHead
<1> QED BY <1>1, <1>2, FreeFinds, StopFinds

\* Steps that write.

LEMMA CreateTested ==
  ASSUME RepositoryInv, TestedInv, Create
  PROVE  TestedInv'
<1>1. /\ status' = "created" /\ UNCHANGED <<patches, tests, remote, passed, meddled, git, pc, loc>>
      /\ SoundInv
  BY DEF Create, world, TestedInv
<1>2. SoundInv'
  BY <1>1 DEF SoundInv, PublishedIsTested
<1>3. /\ Target' = Target /\ OnTarget' = OnTarget /\ Ready' = Ready /\ OnBranch' = OnBranch
  BY <1>1 DEF Target, OnTarget, Ready, OnBranch
<1>4. ASSUME NEW q \in Procs PROVE Finds(pc[q], loc[q])'
  <2>1. pc'[q] \in {"idle", "raised", "down"}
    BY <1>1, AtWork DEF Create, Resting
  <2> QED BY <2>1 DEF Finds, Testing
<1> QED BY <1>2, <1>4 DEF TestedInv

\* A state is entered when what it says holds.
LEMMA TransitionSound ==
  ASSUME RepositoryInv, FlowInv, TestedInv, NEW p \in Procs, Transition(p)
  PROVE  SoundInv'
<1>1. /\ Finds("transition", loc[p]) /\ SoundInv /\ Follows("transition", loc[p])
      /\ Untouched /\ UNCHANGED <<patches, tests, remote, passed, meddled, git>>
  BY TestedOf, FlowOf DEF Transition, At, world
<1>2. status' = loc[p].goal
  BY <1>1 DEF Transition, Unmoved, Follows
<1>3. /\ PublishedIsTested' /\ Target' = Target /\ OnTarget' = OnTarget /\ Spent' = Spent
      /\ Ready' = Ready /\ OnBranch' = OnBranch
  BY <1>1 DEF SoundInv, PublishedIsTested, Target, OnTarget, Spent, Ready, OnBranch
<1>4. CASE loc[p].goal \in Failures
  <2>1. status' \notin {"branched", "patch_validated", "changed", "tested"}
    BY <1>2, <1>4 DEF Failures
  <2> QED BY <1>1, <1>3, <2>1 DEF SoundInv
<1>5. CASE loc[p].goal \notin Failures
  <2>1. status \in DOMAIN NEXT_STATES /\ loc[p].goal = NEXT_STATES[status]
    BY <1>1, <1>5 DEF Follows
  <2>2. /\ status' = "patch_validated" => status = "branched"
        /\ status' = "changed" => status = "patch_validated"
        /\ status' = "tested" => status = "changed"
    BY <1>2, <2>1 DEF NEXT_STATES
  <2>3. status' \in {"branched", "patch_validated", "changed", "tested"} => OnBranch
    BY <1>1, <1>2, <2>2 DEF Finds, SoundInv
  <2>4. status' = "changed" => Target # Base /\ OnTarget
    <3>1. status = "patch_validated" => tests = <<>>
      BY <1>1 DEF Untouched, Starting, BeforeTested
    <3> QED BY <1>1, <1>2, <2>2, <3>1 DEF Finds, OnTarget
  <2>5. status' = "tested" => Ready
    BY <1>1, <1>2 DEF Finds
  <2> QED BY <1>1, <1>3, <2>3, <2>4, <2>5 DEF SoundInv
<1> QED BY <1>4, <1>5

LEMMA TransitionFinds ==
  ASSUME RepositoryInv, NEW p \in Procs, Transition(p)
  PROVE  Finds(pc[p], loc[p])'
BY StopFinds DEF Transition

LEMMA EnsureBranchTested ==
  ASSUME RepositoryInv, FlowInv, TestedInv, NEW p \in Procs, EnsureBranch(p)
  PROVE  SoundInv' /\ Finds(pc[p], loc[p])'
<1>1. /\ status = "inspecting" /\ Finds("branch", loc[p]) /\ SoundInv /\ git \in GitType
      /\ UNCHANGED <<status, patches, tests, remote, passed, meddled>>
  BY TestedOf DEF EnsureBranch, At, Follows, db
<1>2. CASE git' = git
  <2>1. SoundInv'
    BY <1>1, <1>2, GitSound
  <2>2. CASE git.branch = "mission" /\ Transit(p, "branched")
    <3>1. OnBranch' /\ "branched" \in States
      BY <1>2, <2>2 DEF OnBranch, States, NEXT_STATES
    <3> QED BY <2>1, <2>2, <3>1, TransitFinds
  <2>3. CASE Stop(p, "blocked")
    BY <2>1, <2>3, StopFinds
  <2>4. ~(git.branch # "mission" /\ git' = [git EXCEPT !.branch = "mission", !.ref = HeadOf(git)])
    BY <1>1, <1>2 DEF GitType
  <2> QED BY <2>2, <2>3, <2>4 DEF EnsureBranch
<1>3. CASE /\ git.branch # "mission"
           /\ git' = [git EXCEPT !.branch = "mission", !.ref = HeadOf(git)]
           /\ Transit(p, "branched")
  <2>1. git'.branch = "mission" /\ git'.main = git.main /\ git'.wt = git.wt
    BY <1>1, <1>3 DEF GitType
  <2>2. meddled = 0 => git.main = BaseCommit
    BY <1>1, <1>3 DEF Finds, HeadOf
  <2>3. SoundInv'
    BY <1>1, <2>1, <2>2, GitSound
  <2>4. OnBranch' /\ "branched" \in States
    BY <2>1 DEF OnBranch, States, NEXT_STATES
  <2> QED BY <1>3, <2>3, <2>4, TransitFinds
<1> QED BY <1>2, <1>3 DEF EnsureBranch

LEMMA ApplyTested ==
  ASSUME RepositoryInv, FlowInv, TestedInv, NEW p \in Procs, Apply(p)
  PROVE  SoundInv' /\ Finds(pc[p], loc[p])'
<1>1. /\ status = "branched" /\ HeadOf(git) = BaseCommit /\ SoundInv /\ git \in GitType
      /\ UNCHANGED <<status, patches, tests, remote, passed, meddled>>
  BY TestedOf DEF Apply, At, Follows, Finds, db
<1>2. git'.branch = git.branch /\ git'.main = git.main /\ git'.ref = git.ref
  BY <1>1 DEF Apply, GitType
<1>3. SoundInv'
  BY <1>1, <1>2, GitSound
<1>4. CASE Goto(p, "verify", loc[p])
  <2>1. pc'[p] = "verify"
    BY <1>4, Moved
  <2>2. HeadOf(git') = BaseCommit
    BY <1>1, <1>2 DEF HeadOf
  <2> QED BY <1>3, <2>1, <2>2 DEF Finds, Testing
<1>5. CASE Restore(p, "quarantined")
  BY <1>3, <1>5, StopFinds
<1> QED BY <1>4, <1>5 DEF Apply

LEMMA StorePatchTested ==
  ASSUME RepositoryInv, FlowInv, TestedInv, NEW p \in Procs, StorePatch(p)
  PROVE  SoundInv' /\ Finds(pc[p], loc[p])'
<1>0. CASE Raise(p) /\ UNCHANGED patches
  BY <1>0, SoundStays, StopFinds DEF StorePatch, TestedInv, db
<1> SUFFICES ASSUME patches' = Stored(patches, [patch |-> loc[p].tree, snap |-> git]),
                             Transit(p, "patch_validated")
             PROVE  SoundInv' /\ Finds(pc[p], loc[p])'
  BY <1>0 DEF StorePatch
<1>1. /\ status = "branched" /\ Finds("store_patch", loc[p]) /\ SoundInv /\ git \in GitType
      /\ UNCHANGED <<status, tests, remote, passed, meddled, git>>
  BY TestedOf DEF StorePatch, At, Follows, world
<1>2. git.wt # Base \/ git.wt = HeadOf(git).tree
  BY <1>1, CommitTypes DEF Finds
<1> DEFINE row == [patch |-> loc[p].tree, snap |-> git]
<1>3. row \in PatchType /\ row.snap = git
  BY <1>1, AtWork DEF StorePatch, At, Knows, PatchType
<1>4. patches' = Stored(patches, row)
  OBVIOUS
<1> HIDE DEF row
<1>5. \A i \in DOMAIN patches' :
        patches'[i] = row \/ (i \in DOMAIN patches /\ patches'[i] = patches[i])
  BY <1>3, <1>4, StoredPatch
<1>6. \A i \in DOMAIN patches' :
        patches'[i].snap.wt # Base \/ patches'[i].snap.wt = HeadOf(patches'[i].snap).tree
  BY <1>1, <1>2, <1>3, <1>5 DEF SoundInv
<1>7. SoundInv'
  <2>1. PublishedIsTested' /\ OnBranch' = OnBranch
    BY <1>1 DEF SoundInv, PublishedIsTested, OnBranch
  <2>2. \A i \in DOMAIN patches' :
          (patches[i].snap.wt # Base \/ patches[i].snap.wt = HeadOf(patches[i].snap).tree)'
    BY <1>6 DEF HeadOf
  <2> QED BY <1>1, <2>1, <2>2 DEF SoundInv
<1>8. Finds(pc[p], loc[p])'
  <2>1. "patch_validated" \in States
    BY DEF States, NEXT_STATES
  <2> QED BY <2>1, TransitFinds
<1> QED BY <1>7, <1>8

LEMMA TestTested ==
  ASSUME RepositoryInv, FlowInv, TestedInv, NEW p \in Procs, Test(p)
  PROVE  SoundInv' /\ Finds(pc[p], loc[p])'
<1>1. /\ status = "changed" /\ Finds("test", loc[p]) /\ SoundInv /\ loc[p] \in Locals
      /\ UNCHANGED <<status, patches, tests, remote, meddled, git>>
  BY TestedOf DEF Test, At, Follows, Testing, db
<1>2. /\ OnTarget' = OnTarget /\ Target' = Target /\ Spent' = Spent /\ OnBranch' = OnBranch
      /\ passed \subseteq passed' /\ OnTarget
  BY <1>1 DEF OnTarget, Target, Spent, OnBranch, Test, Finds, Testing
<1>3. SoundInv'
  BY <1>1, <1>2 DEF SoundInv, PublishedIsTested
<1>4. ASSUME NEW ok \in BOOLEAN, git = loc[p].snap,
             passed' = (IF ok THEN passed \cup {loc[p].tree} ELSE passed),
             Goto(p, "stage", [loc[p] EXCEPT !.ok = ok])
      PROVE  Finds(pc[p], loc[p])'
  <2>1. /\ [loc[p] EXCEPT !.ok = ok].ok = ok
        /\ [loc[p] EXCEPT !.ok = ok].snap = loc[p].snap
    BY <1>1 DEF Locals
  <2>2. pc'[p] = "stage" /\ loc'[p].ok = ok /\ loc'[p].snap = loc[p].snap
    BY <1>4, <2>1, Moved
  <2>3. loc[p].tree = loc[p].snap.wt /\ ((git = loc[p].snap /\ loc[p].snap.wt = Target) \/ meddled = 1)
    BY <1>1, <1>4 DEF Finds
  <2>4. /\ loc'[p].ok => loc'[p].snap.wt \in passed'
        /\ (git' = loc'[p].snap /\ loc'[p].snap.wt = Target') \/ meddled' = 1
    BY <1>1, <1>2, <1>4, <2>2, <2>3
  <2> QED BY <1>2, <2>2, <2>4 DEF Finds
<1>5. CASE Goto(p, "store_failure", loc[p])
  <2>1. pc'[p] = "store_failure"
    BY <1>5, Moved
  <2> QED BY <1>2, <1>3, <2>1 DEF Finds
<1> QED BY <1>3, <1>4, <1>5 DEF Test

LEMMA AddTested ==
  ASSUME RepositoryInv, FlowInv, TestedInv, NEW p \in Procs, Add(p)
  PROVE  SoundInv' /\ Finds(pc[p], loc[p])'
<1>1. /\ status = "changed" /\ Finds("add", loc[p]) /\ SoundInv /\ git \in GitType
      /\ UNCHANGED <<status, patches, tests, remote, passed, meddled>>
  BY TestedOf DEF Add, At, Follows, Testing, db
<1>2. git'.branch = git.branch /\ git'.main = git.main /\ git'.wt = git.wt
  BY <1>1 DEF Add, GitType
<1>3. SoundInv'
  BY <1>1, <1>2, GitSound
<1>4. CASE git' = [git EXCEPT !.index = git.wt] /\ Goto(p, "staged", loc[p])
  <2>1. pc'[p] = "staged" /\ loc'[p] = loc[p] /\ git'.index = git.wt
    BY <1>1, <1>4, Moved DEF GitType
  <2>2. /\ OnTarget' /\ Target' = Target
        /\ (git = loc[p].snap /\ loc[p].snap.wt = Target) \/ meddled = 1
        /\ loc[p].ok => loc[p].snap.wt \in passed
    BY <1>1 DEF Finds, OnTarget, Target, Testing
  <2>3. git = loc[p].snap => StagedSince(loc[p])'
    <3>1. git = loc[p].snap => git' = [loc[p].snap EXCEPT !.index = git'.index]
      BY <1>4, <2>1
    <3> QED BY <2>1, <3>1 DEF StagedSince
  <2>4. /\ (StagedSince(loc[p])' /\ loc[p].snap.wt = Target') \/ meddled' = 1
        /\ loc'[p].ok => loc'[p].snap.wt \in passed'
        /\ git'.index = git'.wt
    BY <1>1, <1>2, <2>1, <2>2, <2>3
  <2> QED BY <2>1, <2>2, <2>4, <1>3 DEF Finds
<1>5. CASE Stop(p, "blocked")
  BY <1>3, <1>5, StopFinds
<1> QED BY <1>4, <1>5 DEF Add

LEMMA StoreTestTested ==
  ASSUME RepositoryInv, FlowInv, TestedInv, NEW p \in Procs, StoreTest(p)
  PROVE  SoundInv' /\ Finds(pc[p], loc[p])'
<1>0. CASE Raise(p) /\ UNCHANGED tests
  BY <1>0, SoundStays, StopFinds DEF StoreTest, TestedInv, db
<1> SUFFICES ASSUME tests' = Stored(tests, [ok |-> loc[p].ok, tree |-> loc[p].tree]),
                             IF TestPassed(loc[p]) THEN Transit(p, "tested")
                                                   ELSE Restore(p, "rolled_back")
             PROVE  SoundInv' /\ Finds(pc[p], loc[p])'
  BY <1>0 DEF StoreTest
<1>1. /\ status = "changed" /\ Finds("store_test", loc[p]) /\ SoundInv
      /\ UNCHANGED <<status, patches, remote, passed, meddled, git>>
  BY TestedOf DEF StoreTest, At, Follows, Testing, world
<1>2. /\ OnTarget /\ loc[p].tree # NoTree /\ (loc[p].ok => loc[p].tree \in passed)
      /\ loc[p].tree = Target \/ (meddled = 1 /\ git.wt = loc[p].tree)
      /\ meddled = 0 => git.wt = loc[p].tree
  BY <1>1 DEF Finds, Testing
<1> DEFINE row == [ok |-> loc[p].ok, tree |-> loc[p].tree]
<1>3. row \in TestType /\ row.tree = loc[p].tree
  BY LocalTypes DEF TestType
<1>4. tests' = Stored(tests, row)
  OBVIOUS
<1> HIDE DEF row
<1>5. \A i \in DOMAIN tests' : tests'[i] = row \/ (i \in DOMAIN tests /\ tests'[i] = tests[i])
  BY <1>3, <1>4, StoredTest
<1>6. Target' = Target /\ OnBranch' = OnBranch
  BY <1>1 DEF Target, OnBranch
<1>7. OnTarget' \/ Spent'
  <2>1. CASE loc[p].tree = Target
    BY <1>2, <1>3, <1>5, <1>6, <2>1 DEF OnTarget
  <2>2. CASE loc[p].tree # Target
    BY <1>1, <1>2, <1>6, <2>2 DEF Spent
  <2> QED BY <2>1, <2>2
<1>8. SoundInv'
  BY <1>1, <1>6, <1>7 DEF SoundInv, PublishedIsTested
<1>9. CASE loc[p].ok /\ Transit(p, "tested")
  <2>1. Latest(tests').tree \in passed' \cup {NoTree}
    <3>1. CASE Latest(tests') = row
      BY <1>1, <1>2, <1>3, <1>9, <3>1
    <3>2. CASE \E i \in DOMAIN tests : tests[i] = row
      <4>1. loc[p].tree = Target
        BY <1>2, <1>3, <3>2 DEF OnTarget
      <4>2. \A i \in DOMAIN tests' : tests'[i].tree \in {NoTree, Target}
        BY <1>2, <1>3, <1>5, <4>1 DEF OnTarget
      <4>3. Len(tests') \in DOMAIN tests'
        BY <1>3, <1>4, StoredTest
      <4> QED BY <1>1, <1>2, <1>9, <4>1, <4>2, <4>3 DEF Latest
    <3> QED BY <1>3, <1>4, <3>1, <3>2, StoredTest
  <2>2. Ready' /\ "tested" \in States
    BY <1>1, <1>2, <1>9, <2>1 DEF Ready, States, NEXT_STATES
  <2> QED BY <1>8, <1>9, <2>2, TransitFinds
<1>10. CASE Restore(p, "rolled_back")
  BY <1>8, <1>10, StopFinds
<1> QED BY <1>9, <1>10 DEF TestPassed

LEMMA StoreFailureTested ==
  ASSUME RepositoryInv, FlowInv, TestedInv, NEW p \in Procs, StoreFailure(p)
  PROVE  SoundInv' /\ Finds(pc[p], loc[p])'
<1>0. CASE Raise(p) /\ UNCHANGED tests
  BY <1>0, SoundStays, StopFinds DEF StoreFailure, TestedInv, db
<1> SUFFICES ASSUME tests' = Stored(tests, [ok |-> FALSE, tree |-> NoTree]),
                             Restore(p, "rolled_back")
             PROVE  SoundInv' /\ Finds(pc[p], loc[p])'
  BY <1>0 DEF StoreFailure
<1>1. /\ status = "changed" /\ OnTarget /\ SoundInv
      /\ UNCHANGED <<status, patches, remote, passed, meddled, git>>
  BY TestedOf DEF StoreFailure, At, Follows, Finds, Testing, world
<1> DEFINE row == [ok |-> FALSE, tree |-> NoTree]
<1>2. row \in TestType /\ row.tree = NoTree
  BY DEF TestType
<1>3. tests' = Stored(tests, row)
  OBVIOUS
<1> HIDE DEF row
<1>4. \A i \in DOMAIN tests' : tests'[i] = row \/ (i \in DOMAIN tests /\ tests'[i] = tests[i])
  BY <1>2, <1>3, StoredTest
<1>5. Target' = Target /\ OnBranch' = OnBranch
  BY <1>1 DEF Target, OnBranch
<1>6. OnTarget'
  BY <1>1, <1>2, <1>4, <1>5 DEF OnTarget
<1>7. SoundInv'
  BY <1>1, <1>5, <1>6 DEF SoundInv, PublishedIsTested
<1> QED BY <1>7, StopFinds

LEMMA RestoreTested ==
  ASSUME RepositoryInv, FlowInv, TestedInv, NEW p \in Procs, RestoreRef(p) \/ RestorePaths(p)
  PROVE  SoundInv' /\ Finds(pc[p], loc[p])'
<1>1. /\ loc[p].goal \in Failures /\ SoundInv /\ git \in GitType
      /\ UNCHANGED <<status, patches, tests, remote, passed, meddled>>
  BY TestedOf DEF RestoreRef, RestorePaths, At, Follows, Stopping, db
<1>2. git'.branch = git.branch /\ git'.main = git.main /\ git'.wt \in {git.wt, Base}
  BY <1>1 DEF RestoreRef, RestorePaths, Restored, GitType
<1>3. SoundInv'
  BY <1>1, <1>2, GitSound
<1>4. CASE RestoreFails(p)
  BY <1>3, <1>4, StopFinds
<1>5. ASSUME NEW l \in {"restore_paths", "terminal"}, Goto(p, l, loc[p])
      PROVE  Finds(pc[p], loc[p])'
  <2>1. l \notin Asking
    BY DEF Asking, Testing
  <2> QED BY <1>5, <2>1, FreeFinds
<1>6. CASE Goto(p, "want", loc[p])
  <2>1. loc[p].goal \notin {"branched", "changed", "tested"}
    BY <1>1 DEF Failures
  <2> QED BY <1>3, <1>6, <2>1, GoalFinds
<1> QED BY <1>3, <1>4, <1>5, <1>6 DEF RestoreRef, RestorePaths

\* On main git commit finds nothing to commit.
LEMMA CommitTested ==
  ASSUME RepositoryInv, FlowInv, TestedInv, NEW p \in Procs, Commit(p)
  PROVE  SoundInv' /\ Finds(pc[p], loc[p])'
<1>1. /\ status = "tested" /\ Finds("commit", loc[p]) /\ SoundInv /\ git \in GitType
      /\ UNCHANGED <<status, patches, tests, remote, passed, meddled>>
  BY TestedOf DEF Commit, At, Follows, db
<1>2. CASE /\ git.index # HeadOf(git).tree
           /\ git' = MoveHead(git, [tree |-> git.index, ours |-> HeadOf(git) = BaseCommit])
           /\ Goto(p, "commit_check", loc[p])
  <2>1. git.branch = "mission"
    BY <1>1, <1>2 DEF Finds
  <2>2. git'.branch = git.branch /\ git'.main = git.main /\ git'.wt = git.wt
    BY <1>1, <1>2, <2>1 DEF MoveHead, GitType
  <2>3. SoundInv'
    BY <1>1, <2>2, GitSound
  <2>4. pc'[p] = "commit_check" /\ loc'[p] = loc[p]
    BY <1>2, Moved
  <2>5. loc'[p].tree = Latest(tests').tree /\ loc'[p].tree \in passed'
    BY <1>1, <2>4 DEF Finds
  <2> QED BY <2>3, <2>4, <2>5 DEF Finds, Testing
<1>3. CASE git' = git /\ (Restore(p, "blocked") \/ Stop(p, "blocked") \/ Raise(p))
  BY <1>1, <1>3, GitSound, StopFinds
<1> QED BY <1>2, <1>3 DEF Commit, Refuse

LEMMA PublishTested ==
  ASSUME RepositoryInv, FlowInv, TestedInv, NEW p \in Procs, Push(p) \/ Review(p) \/ Draft(p)
  PROVE  SoundInv' /\ Finds(pc[p], loc[p])'
<1>1. /\ Finds(pc[p], loc[p]) /\ SoundInv
      /\ UNCHANGED <<patches, tests, passed, meddled, git>>
  BY TestedOf DEF Push, Review, Draft, db, world
<1>2. status' = status \/ status' = "draft_pr_recorded"
  BY DEF Push, Review, Draft, db
<1>3. PublishedIsTested'
  <2>1. remote' = remote \/ (pc[p] = "push" /\ remote' = git.ref)
    BY DEF Push, Review, Draft, At, world
  <2> QED BY <1>1, <2>1 DEF PublishedIsTested, SoundInv, Finds
<1>4. /\ Target' = Target /\ OnTarget' = OnTarget /\ Spent' = Spent /\ Ready' = Ready
      /\ OnBranch' = OnBranch
  BY <1>1 DEF Target, OnTarget, Spent, Ready, OnBranch
<1>5. SoundInv'
  BY <1>1, <1>2, <1>3, <1>4 DEF SoundInv
<1>6. Finds(pc[p], loc[p])'
  <2>1. "review" \notin Asking /\ "loop" \notin Asking /\ "reviewed" \in States
    BY DEF Asking, Testing, States, NEXT_STATES
  <2>2. CASE Transit(p, "reviewed")
    BY <2>1, <2>2, TransitFinds
  <2> QED BY <2>1, <2>2, FreeFinds, StopFinds DEF Push, PushFails, Refuse, Review, Draft
<1> QED BY <1>5, <1>6

\* What somebody else may do, as far as the process depends on it.
FilesChanged ==
  /\ git'.branch = git.branch /\ git'.main = git.main /\ git'.ref = git.ref
  /\ git'.index = git.index

CommittedElsewhere ==
  /\ git'.branch = git.branch /\ git'.wt = git.wt /\ git'.index = git.wt
  /\ git.wt # Base /\ HeadOf(git').tree = git'.wt
  /\ git.branch = "mission" => git'.main = git.main /\ git'.ref.tree = git.wt

Switched ==
  /\ git'.main = git.main /\ git'.ref = git.ref /\ git'.branch # git.branch
  /\ git'.index = HeadOf(git').tree /\ git'.wt = HeadOf(git').tree

LEMMA MeddleKinds ==
  ASSUME RepositoryInv, Meddle
  PROVE  FilesChanged \/ CommittedElsewhere \/ Switched
<1>1. git \in GitType /\ (git.branch = "mission" => git.ref \in CommitType)
  BY DEF RepositoryInv, GitTypeOK
<1>2. CASE Edit \/ Litter
  BY <1>1, <1>2 DEF Edit, Litter, GitType, FilesChanged
<1>3. CASE CommitElsewhere
  <2>1. PICK mimics \in BOOLEAN :
          git' = MoveHead([git EXCEPT !.index = git.wt],
                          [tree |-> git.wt, ours |-> mimics /\ HeadOf(git) = BaseCommit])
    BY <1>3 DEF CommitElsewhere
  <2> DEFINE g == [git EXCEPT !.index = git.wt]
             c == [tree |-> git.wt, ours |-> mimics /\ HeadOf(git) = BaseCommit]
  <2>2. /\ g \in GitType /\ g.branch = git.branch /\ g.main = git.main /\ g.wt = git.wt
        /\ g.index = git.wt
    BY <1>1 DEF GitType
  <2>3. c.tree = git.wt /\ c \in CommitType
    BY <1>1 DEF GitType, CommitType
  <2>4. git' = MoveHead(g, c) /\ git.wt # Base
    BY <1>3, <2>1 DEF CommitElsewhere
  <2> HIDE DEF g, c
  <2>5. CASE g.branch = "mission"
    <3>1. git' = [g EXCEPT !.ref = c]
      BY <2>4, <2>5 DEF MoveHead
    <3>2. /\ git'.branch = "mission" /\ git'.main = g.main /\ git'.wt = g.wt
          /\ git'.index = g.index /\ git'.ref = c
      BY <2>2, <2>5, <3>1 DEF GitType
    <3> QED BY <2>2, <2>3, <2>4, <2>5, <3>2 DEF CommittedElsewhere, HeadOf
  <2>6. CASE g.branch # "mission"
    <3>1. git' = [g EXCEPT !.main = c]
      BY <2>4, <2>6 DEF MoveHead
    <3>2. /\ git'.branch = g.branch /\ git'.main = c /\ git'.wt = g.wt
          /\ git'.index = g.index
      BY <2>2, <2>6, <3>1 DEF GitType
    <3> QED BY <2>2, <2>3, <2>4, <2>6, <3>2 DEF CommittedElsewhere, HeadOf
  <2> QED BY <2>5, <2>6
<1>4. CASE Switch
  <2> DEFINE to == IF git.branch = "main" THEN "mission" ELSE "main"
             there == [git EXCEPT !.branch = to]
             head == HeadOf(there)
  <2>1. /\ there \in GitType /\ there.branch # git.branch /\ there.main = git.main
        /\ there.ref = git.ref
    BY <1>1 DEF GitType
  <2>2. git' = [there EXCEPT !.index = head.tree, !.wt = head.tree]
    BY <1>4 DEF Switch
  <2> HIDE DEF there
  <2>3. /\ git'.branch = there.branch /\ git'.main = git.main /\ git'.ref = git.ref
        /\ git'.index = head.tree /\ git'.wt = head.tree
    BY <2>1, <2>2 DEF GitType
  <2>4. HeadOf(git') = head
    BY <2>1, <2>3 DEF HeadOf
  <2> QED BY <2>1, <2>3, <2>4 DEF Switched
<1> QED BY <1>2, <1>3, <1>4 DEF Meddle

\* An edit between git add and git write-tree is seen: the work tree is no longer
\* that of the snapshot.
LEMMA FilesFound ==
  ASSUME RepositoryInv, FilesChanged, Meddle, NEW r \in Locals, StagedSince(r), StagedSince(r)'
  PROVE  git'.wt = git.wt
<1>1. git \in GitType /\ git.index \in Trees /\ r.snap \in GitType \cup {NoGit}
  BY DEF RepositoryInv, TypeOK, Locals, GitType
<1>2. r.snap \in GitType
  <2>1. CASE r.snap = NoGit
    BY <1>1, <2>1, RepositoryAssumption DEF StagedSince, NoGit, GitType
  <2> QED BY <1>1, <2>1
<1>3. /\ [r.snap EXCEPT !.index = git.index].wt = r.snap.wt
      /\ [r.snap EXCEPT !.index = git'.index].wt = r.snap.wt
  BY <1>2 DEF GitType
<1> QED BY <1>3 DEF StagedSince

LEMMA MeddleSound ==
  ASSUME RepositoryInv, SoundInv, OneMeddling, Meddle
  PROVE  /\ SoundInv' /\ meddled = 0 /\ meddled' = 1
         /\ UNCHANGED <<status, patches, tests, remote, passed, pc, loc>>
         /\ Target' = Target /\ OnTarget' = OnTarget
         /\ git.branch = "mission" => git.main = BaseCommit /\ git'.main = BaseCommit
         /\ OnBranch => git.branch = "mission" /\ OnBranch'
         /\ Ready => Ready'
<1>1. /\ meddled = 0 /\ meddled' = 1
      /\ UNCHANGED <<status, patches, tests, remote, passed, pc, loc>>
  BY RepositoryAssumption DEF Meddle, OneMeddling, RepositoryInv, TypeOK, db
<1>2. FilesChanged \/ CommittedElsewhere \/ Switched
  BY MeddleKinds
<1>3. git.branch = "mission" => git.main = BaseCommit /\ git'.main = BaseCommit
  BY <1>1, <1>2 DEF SoundInv, FilesChanged, CommittedElsewhere, Switched
<1>4. /\ PublishedIsTested' /\ Target' = Target /\ OnTarget' = OnTarget /\ ~Spent
      /\ OnBranch => git.branch = "mission" /\ OnBranch'
      /\ Ready => Ready'
  <2>1. git.branch = "mission" => git'.branch = "mission" \/ git'.main = BaseCommit
    BY <1>3
  <2> QED BY <1>1, <2>1 DEF SoundInv, PublishedIsTested, Target, OnTarget, Spent, OnBranch, Ready
<1>5. SoundInv'
  <2>1. \A i \in DOMAIN patches' :
          (patches[i].snap.wt # Base \/ patches[i].snap.wt = HeadOf(patches[i].snap).tree)'
    BY <1>1 DEF SoundInv, HeadOf
  <2> QED BY <1>1, <1>4, <2>1 DEF SoundInv
<1> QED BY <1>1, <1>3, <1>4, <1>5

LEMMA MeddleFinds ==
  ASSUME RepositoryInv, SoundInv, OneMeddling, Meddle, NEW l, NEW r \in Locals,
         Finds(l, r), Follows(l, r)
  PROVE  Finds(l, r)'
<1>1. /\ meddled = 0 /\ meddled' = 1
      /\ UNCHANGED <<status, patches, tests, remote, passed>>
      /\ Target' = Target /\ OnTarget' = OnTarget
      /\ git.branch = "mission" => git.main = BaseCommit
      /\ OnBranch => git.branch = "mission" /\ OnBranch'
      /\ Ready => Ready'
  BY MeddleSound
<1>2. FilesChanged \/ CommittedElsewhere \/ Switched
  BY MeddleKinds
<1>3. l \in {"apply", "verify", "store_patch"} =>
        HeadOf(git) = BaseCommit /\ git.branch = "mission" /\ git.main = BaseCommit
  <2>1. l \in {"apply", "verify", "store_patch"} => status = "branched"
    BY DEF Follows
  <2> QED BY <1>1, <2>1 DEF Finds, SoundInv
<1>4. l = "apply" => HeadOf(git') = BaseCommit
  <2>1. l = "apply" => git.wt = Base
    BY <1>1 DEF Finds
  <2>2. git.branch = "mission" /\ git'.branch # git.branch => git'.branch # "mission"
    OBVIOUS
  <2> QED BY <1>2, <1>3, <2>1, <2>2 DEF FilesChanged, CommittedElsewhere, Switched, HeadOf
<1>5. l \in {"verify", "store_patch"} =>
        HeadOf(git') = BaseCommit \/ git'.wt = HeadOf(git').tree
  BY <1>2, <1>3 DEF FilesChanged, CommittedElsewhere, Switched, HeadOf
<1>6. l = "test" => r.tree = r.snap.wt
  BY <1>1 DEF Finds
<1>7. l = "staged" => git'.index = git'.wt \/ ~StagedSince(r)'
  <2>1. l = "staged" => StagedSince(r) /\ git.index = git.wt
    BY <1>1 DEF Finds
  <2>2. FilesChanged => git'.index = git.index
    BY DEF FilesChanged
  <2>3. CASE FilesChanged
    BY <2>1, <2>2, <2>3, FilesFound
  <2>4. CommittedElsewhere \/ Switched => git'.index = git'.wt
    BY DEF CommittedElsewhere, Switched
  <2> QED BY <1>2, <2>3, <2>4
<1>8. l = "store_test" => r.tree = Target
  BY <1>1 DEF Finds
<1>9. l \in {"commit", "push"} => git.branch = "mission" /\ Ready
  <2>1. l \in {"commit", "push"} => status = "tested"
    BY DEF Follows
  <2> QED BY <1>1, <2>1 DEF SoundInv
<1>10. l = "commit" => git'.branch = "mission" \/ git'.index = HeadOf(git').tree
  BY <1>2, <1>9 DEF FilesChanged, CommittedElsewhere, Switched
<1>11. l = "push" => git'.ref.tree \in passed
  <2>1. l = "push" => git.ref.tree \in passed
    BY DEF Finds
  <2> QED BY <1>1, <1>2, <1>9, <2>1 DEF FilesChanged, CommittedElsewhere, Switched, Ready
<1>12. l \in Testing => OnTarget'
  BY <1>1 DEF Finds
<1>13. l \in {"stage", "add", "staged"} => (r.ok => r.snap.wt \in passed')
  BY <1>1 DEF Finds
<1>14. l = "store_test" => r.tree # NoTree /\ (r.ok => r.tree \in passed')
  BY <1>1 DEF Finds
<1>15. l \in {"commit", "commit_check"} => r.tree = Latest(tests').tree /\ r.tree \in passed'
  BY <1>1 DEF Finds
<1>16. l \in {"want", "transition"} =>
         /\ r.goal = "branched" => OnBranch'
         /\ r.goal = "changed" => (Target # Base)'
         /\ r.goal = "tested" => Ready'
  BY <1>1 DEF Finds
<1>17. r.tree = Target => r.tree = Target'
  BY <1>1
<1> QED BY <1>1, <1>4, <1>5, <1>6, <1>7, <1>8, <1>10, <1>11, <1>12, <1>13, <1>14, <1>15, <1>16,
           <1>17 DEF Finds

LEMMA MeddleTested ==
  ASSUME RepositoryInv, FlowInv, TestedInv, OneMeddling, Meddle
  PROVE  TestedInv'
<1>1. SoundInv' /\ pc' = pc /\ loc' = loc
  BY MeddleSound DEF TestedInv
<1>2. ASSUME NEW q \in Procs, NEW m, NEW k, m = pc'[q], k = loc'[q], Finds(m, k)'
      PROVE  Finds(pc[q], loc[q])'
  BY <1>2 DEF Finds, StagedSince
<1>3. ASSUME NEW q \in Procs PROVE Finds(pc[q], loc[q])'
  <2>1. Finds(pc[q], loc[q]) /\ Follows(pc[q], loc[q]) /\ loc[q] \in Locals
    BY TestedOf
  <2>2. SoundInv
    BY DEF TestedInv
  <2>3. \A m, k : m = pc[q] /\ k = loc[q] => Finds(m, k)'
    BY <2>1, <2>2, MeddleFinds, Zenon
  <2> QED BY <1>1, <1>2, <2>3
<1> QED BY <1>1, <1>3 DEF TestedInv

LEMMA UnchangedTested ==
  ASSUME RepositoryInv, TestedInv, UNCHANGED vars
  PROVE  TestedInv'
<1>1. UNCHANGED <<db, world>> /\ pc' = pc /\ loc' = loc /\ SoundInv
  BY DEF vars, TestedInv
<1>2. SoundInv'
  BY <1>1, SoundStays
<1>3. ASSUME NEW q \in Procs PROVE Finds(pc[q], loc[q])'
  <2>1. Finds(pc[q], loc[q])
    BY DEF TestedInv
  <2> QED BY <1>1, <2>1, SameFinds DEF Finds, StagedSince
<1> QED BY <1>2, <1>3 DEF TestedInv

LEMMA TestedStarts == Init => TestedInv
<1> SUFFICES ASSUME Init PROVE TestedInv
  OBVIOUS
<1>1. git.branch = "main" /\ remote = NoCommit /\ status = "absent" /\ patches = <<>>
  BY RepositoryAssumption DEF Init
<1>2. SoundInv
  BY <1>1 DEF SoundInv, PublishedIsTested
<1>3. ASSUME NEW q \in Procs PROVE Finds(pc[q], loc[q])
  <2>1. pc[q] = "idle"
    BY DEF Init
  <2> QED BY <2>1 DEF Finds, Testing
<1> QED BY <1>2, <1>3 DEF TestedInv

LEMMA TestedInvariant ==
  ASSUME OneProcess, OneMeddling
  PROVE  Spec => [](RepositoryInv /\ FlowInv /\ TestedInv)
<1>1. Spec => [](RepositoryInv /\ FlowInv)
  BY FlowInvariant
<1>2. RepositoryInv /\ FlowInv /\ TestedInv /\ [Next]_vars => TestedInv'
  <2> SUFFICES ASSUME RepositoryInv, FlowInv, TestedInv, [Next]_vars PROVE TestedInv'
    OBVIOUS
  <2>1. ASSUME NEW p \in Procs, SoundInv', Finds(pc[p], loc[p])' PROVE TestedInv'
    BY <2>1, TestedStep
  <2>2. UNCHANGED <<db, world>> => SoundInv'
    BY SoundStays DEF TestedInv
  <2>3. CASE UNCHANGED vars
    BY <2>3, UnchangedTested
  <2>4. ASSUME NEW p \in Procs, Run(p) \/ Crash(p) PROVE TestedInv'
    <3>1. "loop" \notin Asking /\ "down" \notin Asking
      BY DEF Asking, Testing
    <3>2. Finds(pc[p], loc[p])'
      BY <2>4, <3>1, FreeFinds, StopFinds DEF Run, Crash
    <3> QED BY <2>1, <2>2, <2>4, <3>2 DEF Run, Crash
  <2>5. ASSUME NEW p \in Procs,
               \/ Loop(p) \/ Terminal(p) \/ Want(p)
               \/ InspectBase(p) \/ ValidateBranch(p) \/ Gate(p) \/ VerifyPatch(p) \/ Recheck(p)
               \/ TestBefore(p) \/ TestCopy(p) \/ Stage(p) \/ Staged(p)
               \/ CommitRead(p) \/ CommitCheck(p) \/ DraftCheck(p) \/ DraftHead(p)
        PROVE  TestedInv'
    <3>1. UNCHANGED <<db, world>>
      BY <2>5 DEF Loop, Terminal, Want, InspectBase, ValidateBranch, Gate, VerifyPatch, Recheck,
         TestBefore, TestCopy, Stage, Staged, CommitRead, CommitCheck, DraftCheck, DraftHead
    <3>2. Finds(pc[p], loc[p])'
      BY <2>5, LoopFinds, TerminalFinds, WantFinds, PatchReadFinds, RecheckFinds, TestReadFinds,
         StagedFinds, CommitReadFinds, CommitCheckFinds, DraftReadFinds
    <3> QED BY <2>1, <2>2, <3>1, <3>2
  <2>6. ASSUME NEW p \in Procs, Work(p) PROVE TestedInv'
    BY <2>1, <2>5, <2>6, TransitionSound, TransitionFinds, EnsureBranchTested, ApplyTested,
       StorePatchTested, TestTested, AddTested, StoreTestTested, StoreFailureTested,
       RestoreTested, CommitTested, PublishTested DEF Work
  <2> QED BY <2>3, <2>4, <2>6, CreateTested, MeddleTested DEF Next
<1> QED BY <1>1, <1>2, TestedStarts, PTL DEF Spec

\* What git push sends to the origin is the commit of a tree that the declared
\* tests passed on, in a clone of it, whatever one thing somebody else does
\* between any two Git commands: an edit before git write-tree is found by the
\* snapshot that follows, a foreign commit has the tested work tree or is refused
\* by its tree, and a switch of branches leaves git commit nothing to commit.
THEOREM OnlyTestedIsPublished ==
  ASSUME OneProcess, OneMeddling
  PROVE  Spec => []PublishedIsTested
<1>1. TestedInv => PublishedIsTested
  BY DEF TestedInv, SoundInv
<1> QED BY <1>1, TestedInvariant, PTL
=============================================================================
