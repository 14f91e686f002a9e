----------------------- MODULE RepositoryMission_proofs -----------------------
(***************************************************************************)
(* Proofs about RepositoryMission: for any number of processes, any trees, *)
(* patches and repositories found and any meddling, except in the last     *)
(* sections, which are about one process.                                  *)
(***************************************************************************)
EXTENDS RepositoryMission, TLAPS

-----------------------------------------------------------------------------
(* The inductive invariant.                                                *)

\* How far along the path a state is.
Place ==
  [created |-> 1, authorized |-> 2, inspecting |-> 3, branched |-> 4, patch_validated |-> 5,
   changed |-> 6, tested |-> 7, reviewed |-> 8, draft_pr_recorded |-> 9, awaiting_human |-> 10]

\* The states that a mission is in once it has this evidence.
WithPatch  == {"patch_validated", "changed", "tested", "reviewed", "draft_pr_recorded",
               "awaiting_human"}
WithTest   == {"tested", "reviewed", "draft_pr_recorded", "awaiting_human"}
WithReview == {"reviewed", "draft_pr_recorded", "awaiting_human"}

\* What a process at label l with locals r relies on, whoever else runs the
\* mission: rows once stored stay, a branch once made stays.
Knows(l, r) ==
  /\ l \notin {"idle", "raised", "down"} => status # "absent"
  /\ l \in {"apply", "verify", "store_patch", "test"} => r.tree \in Trees
  /\ l \in {"want", "transition"} =>
       /\ r.goal = "patch_validated" => patches # <<>>
       /\ r.goal = "tested" => tests # <<>>
       /\ r.goal = "reviewed" => reviews # <<>>
  /\ l = "transition" => Allowed(r.seen, r.goal)
  /\ l \in {"terminal", "restore_ref", "restore_paths"} => r.goal \in Failures
  /\ l \in {"commit_read", "commit", "commit_check", "push", "review", "draft_check",
            "draft_head", "draft"} => patches # <<>> /\ tests # <<>>
  /\ l \in {"push", "review", "draft"} => r.head \in CommitType
  /\ l = "draft" => r.tree \in Trees

\* The transitions follow the path, and each state of it is entered with the
\* evidence that belongs to it.
PathInv ==
  /\ status = "absent" => trail = <<>>
  /\ status # "absent" => Len(trail) >= 1 /\ trail[Len(trail)] = status
  /\ \A i \in DOMAIN trail : trail[i] \notin Failures => Place[trail[i]] = i
  /\ \A i \in DOMAIN trail \ {1} : Allowed(trail[i - 1], trail[i])
  /\ Len(drafts) <= 1
  /\ status \in WithPatch => patches # <<>>
  /\ status \in WithTest => tests # <<>>
  /\ status \in WithReview => reviews # <<>>

\* TypeOK without pc and loc; and a branch checked out exists.
TableTypeOK ==
  /\ status \in States \cup {"absent"}
  /\ trail \in Seq(States)
  /\ patches \in Seq([patch : Trees, snap : GitType])
  /\ tests \in Seq([ok : BOOLEAN, tree : Trees \cup {NoTree}])
  /\ reviews \in Seq([head : CommitType, patch : Trees])
  /\ drafts \in Seq([head : CommitType, patch : Trees, tree : Trees])
  /\ remote \in CommitType \cup {NoCommit}
  /\ passed \subseteq Trees
  /\ committed \in BOOLEAN
  /\ meddled \in 0 .. MaxMeddling

GitTypeOK == git \in GitType /\ (git.branch = "mission" => git.ref \in CommitType)

RepositoryInv ==
  /\ TypeOK
  /\ GitTypeOK
  /\ PathInv
  /\ \A p \in Procs : Knows(pc[p], loc[p])

-----------------------------------------------------------------------------
(* Git, rows and locals.                                                   *)

LEMMA CommitTypes ==
  /\ BaseCommit \in CommitType /\ NoCommit \notin CommitType
  /\ BaseCommit.tree = Base /\ BaseCommit.ours = FALSE
  /\ NoCommit.tree = NoTree /\ NoCommit.ours = FALSE
BY RepositoryAssumption DEF BaseCommit, CommitType, NoCommit

LEMMA GitFields ==
  ASSUME NEW g \in GitType
  PROVE  /\ g.branch \in {"main", "mission"} /\ g.main \in CommitType
         /\ g.ref \in CommitType \cup {NoCommit}
         /\ g.index \in Trees /\ g.wt \in Trees /\ g.out \in BOOLEAN
BY DEF GitType

LEMMA GitUpdate ==
  ASSUME NEW g \in GitType
  PROVE  /\ \A t \in Trees : [g EXCEPT !.wt = t] \in GitType
         /\ \A t \in Trees : [g EXCEPT !.index = t] \in GitType
         /\ \A s, t \in Trees : [g EXCEPT !.index = s, !.wt = t] \in GitType
         /\ \A c \in CommitType : [g EXCEPT !.ref = c] \in GitType
         /\ \A c \in CommitType : [g EXCEPT !.main = c] \in GitType
         /\ \A c \in CommitType : [g EXCEPT !.branch = "mission", !.ref = c] \in GitType
         /\ \A b \in {"main", "mission"} : [g EXCEPT !.branch = b] \in GitType
         /\ [g EXCEPT !.out = ~@] \in GitType
BY DEF GitType

LEMMA HeadType ==
  ASSUME NEW g \in GitType, g.branch = "mission" => g.ref \in CommitType
  PROVE  HeadOf(g) \in CommitType
BY GitFields DEF HeadOf

LEMMA MoveHeadType ==
  ASSUME NEW g \in GitType, NEW c \in CommitType
  PROVE  /\ MoveHead(g, c) \in GitType
         /\ MoveHead(g, c).branch = g.branch
         /\ g.branch = "mission" => MoveHead(g, c).ref = c
<1>1. MoveHead(g, c) \in GitType
  BY GitUpdate, Zenon DEF MoveHead
<1> QED BY <1>1 DEF MoveHead, GitType

\* Storing evidence adds a row or finds it.
LEMMA StoredRows ==
  ASSUME NEW T, NEW rows \in Seq(T), NEW row \in T
  PROVE  /\ Stored(rows, row) \in Seq(T) /\ Stored(rows, row) # <<>>
         /\ \E i \in DOMAIN Stored(rows, row) : Stored(rows, row)[i] = row
<1>1. CASE row \in Range(rows)
  BY <1>1 DEF Stored, Range
<1>2. CASE row \notin Range(rows)
  BY <1>2, SMTT(30) DEF Stored
<1> QED BY <1>1, <1>2

LEMMA LatestRow ==
  ASSUME NEW T, NEW rows \in Seq(T), rows # <<>>
  PROVE  Latest(rows) \in T
BY DEF Latest

LEMMA LocalsUpdate ==
  ASSUME NEW r \in Locals
  PROVE  /\ \A s, g \in States : [r EXCEPT !.state = s, !.goal = g] \in Locals
         /\ \A s \in States : [r EXCEPT !.state = s] \in Locals
         /\ \A s \in States \cup {"absent"} : [r EXCEPT !.seen = s] \in Locals
         /\ \A t \in Trees \cup {NoTree} : [r EXCEPT !.tree = t] \in Locals
         /\ \A g \in GitType \cup {NoGit} : [r EXCEPT !.snap = g] \in Locals
         /\ \A b \in BOOLEAN : [r EXCEPT !.ok = b] \in Locals
         /\ \A c \in CommitType \cup {NoCommit} : [r EXCEPT !.head = c] \in Locals
         /\ \A t \in Trees \cup {NoTree}, c \in CommitType \cup {NoCommit} :
              [r EXCEPT !.head = c, !.tree = t] \in Locals
         /\ \A t \in Trees \cup {NoTree}, c \in CommitType \cup {NoCommit}, b \in BOOLEAN :
              [r EXCEPT !.tree = t, !.head = c, !.clean = b] \in Locals
BY Zenon DEF Locals

LEMMA FreshType == Fresh \in Locals
BY DEF Fresh, Locals, States, NEXT_STATES

LEMMA LocalTypes ==
  ASSUME RepositoryInv, NEW p \in Procs
  PROVE  /\ loc[p] \in Locals /\ pc[p] \in PCs /\ Knows(pc[p], loc[p])
         /\ loc[p].state \in States /\ loc[p].goal \in States
         /\ loc[p].seen \in States \cup {"absent"} /\ loc[p].tree \in Trees \cup {NoTree}
         /\ loc[p].ok \in BOOLEAN /\ loc[p].head \in CommitType \cup {NoCommit}
         /\ loc[p].snap \in GitType \cup {NoGit} /\ loc[p].clean \in BOOLEAN
BY DEF RepositoryInv, TypeOK, Locals

-----------------------------------------------------------------------------
(* The moves of one process.                                               *)

\* A mission once created stays, and rows stay.
Grows ==
  /\ status # "absent" => status' # "absent"
  /\ patches # <<>> => patches' # <<>>
  /\ tests # <<>> => tests' # <<>>
  /\ reviews # <<>> => reviews' # <<>>

LEMMA KnowsStays ==
  ASSUME NEW l, NEW r, Knows(l, r), Grows
  PROVE  Knows(l, r)'
BY DEF Knows, Grows

LEMMA MoveRuns ==
  ASSUME RepositoryInv, NEW p \in Procs, NEW l \in PCs, NEW r \in Locals, Goto(p, l, r),
         Knows(l, r)', Grows, TableTypeOK', GitTypeOK', PathInv'
  PROVE  RepositoryInv'
<1>1. /\ pc' \in [Procs -> PCs] /\ loc' \in [Procs -> Locals]
      /\ pc'[p] = l /\ loc'[p] = r
      /\ \A q \in Procs \ {p} : pc'[q] = pc[q] /\ loc'[q] = loc[q]
  BY DEF RepositoryInv, TypeOK, Goto
<1>2. ASSUME NEW q \in Procs, NEW m, NEW k, pc'[q] = m, loc'[q] = k, Knows(m, k)'
      PROVE  Knows(pc[q], loc[q])'
  BY <1>2 DEF Knows
<1>3. ASSUME NEW q \in Procs \ {p} PROVE Knows(pc[q], loc[q])'
  <2>1. Knows(pc[q], loc[q])
    BY DEF RepositoryInv
  <2>2. \A m, k : m = pc[q] /\ k = loc[q] => Knows(m, k)'
    BY <2>1, KnowsStays, Zenon
  <2> QED BY <1>1, <1>2, <2>2
<1>4. Knows(pc[p], loc[p])'
  BY <1>1, <1>2
<1> QED BY <1>1, <1>3, <1>4 DEF RepositoryInv, TypeOK, TableTypeOK, GitTypeOK

\* The same if it writes nothing.
LEMMA SilentRuns ==
  ASSUME RepositoryInv, NEW p \in Procs, NEW l \in PCs, NEW r \in Locals, Goto(p, l, r),
         Knows(l, r), UNCHANGED <<db, world>>
  PROVE  RepositoryInv'
<1>1. Grows
  BY DEF Grows, db
<1>2. TableTypeOK' /\ GitTypeOK' /\ PathInv'
  BY DEF RepositoryInv, TypeOK, TableTypeOK, GitTypeOK, PathInv, db, world
<1>3. Knows(l, r)'
  BY <1>1, KnowsStays
<1> QED BY <1>1, <1>2, <1>3, MoveRuns

\* The same if it writes only Git or what passed.
LEMMA GitRuns ==
  ASSUME RepositoryInv, NEW p \in Procs, NEW l \in PCs, NEW r \in Locals, Goto(p, l, r),
         Knows(l, r), UNCHANGED db, GitTypeOK', remote' \in CommitType \cup {NoCommit},
         passed' \subseteq Trees, committed' \in BOOLEAN, UNCHANGED meddled
  PROVE  RepositoryInv'
<1>1. Grows
  BY DEF Grows, db
<1>2. TableTypeOK' /\ PathInv'
  BY DEF RepositoryInv, TypeOK, TableTypeOK, PathInv, db
<1>3. Knows(l, r)'
  BY <1>1, KnowsStays
<1> QED BY <1>1, <1>2, <1>3, MoveRuns

\* A process goes where it knows what it needs.
Moves(p) == \E l \in PCs, r \in Locals : Goto(p, l, r) /\ Knows(l, r)

LEMMA SilentMoves ==
  ASSUME RepositoryInv, NEW p \in Procs, Moves(p), UNCHANGED <<db, world>>
  PROVE  RepositoryInv'
BY SilentRuns DEF Moves

LEMMA GitMoves ==
  ASSUME RepositoryInv, NEW p \in Procs, Moves(p), UNCHANGED db, GitTypeOK',
         remote' \in CommitType \cup {NoCommit}, passed' \subseteq Trees,
         committed' \in BOOLEAN, UNCHANGED meddled
  PROVE  RepositoryInv'
<1>1. PICK l \in PCs, r \in Locals : Goto(p, l, r) /\ Knows(l, r)
  BY DEF Moves
<1> QED BY <1>1, GitRuns

LEMMA StateTypes ==
  /\ Failures \subseteq TERMINAL_STATES /\ TERMINAL_STATES \subseteq States
  /\ \A s \in DOMAIN NEXT_STATES : NEXT_STATES[s] \in States /\ s \in States
  /\ "absent" \notin States
BY DEF Failures, TERMINAL_STATES, States, NEXT_STATES

\* Fresh locals with a state and a goal.
LEMMA GoalTypes ==
  ASSUME NEW s \in States, NEW g \in States
  PROVE  /\ [Fresh EXCEPT !.state = s, !.goal = g] \in Locals
         /\ [Fresh EXCEPT !.state = s, !.goal = g].goal = g
<1>1. [Fresh EXCEPT !.state = s, !.goal = g] \in Locals
  BY FreshType, LocalsUpdate, Zenon
<1>2. Fresh \in Locals
  BY FreshType
<1> QED BY <1>1, <1>2 DEF Locals

\* A run that ends, whether or not an error leaves it.
LEMMA ReturnMoves ==
  ASSUME NEW p \in Procs, Return(p) \/ Raise(p)
  PROVE  Moves(p)
<1>1. /\ Knows("idle", Fresh) /\ "idle" \in PCs
      /\ Knows("raised", Fresh) /\ "raised" \in PCs
  BY DEF Knows, PCs
<1> QED BY <1>1, FreshType DEF Moves, Return, Raise

\* Towards a failure, at once or after the restoration.
LEMMA FailureMoves ==
  ASSUME RepositoryInv, NEW p \in Procs, status # "absent", NEW g \in Failures,
         Stop(p, g) \/ Restore(p, g)
  PROVE  Moves(p)
<1> DEFINE r == [Fresh EXCEPT !.state = loc[p].state, !.goal = g]
<1>1. r \in Locals /\ r.goal = g
  <2>1. loc[p].state \in States /\ g \in States
    BY LocalTypes, StateTypes
  <2> QED BY <2>1, GoalTypes
<1>2. Knows("terminal", r) /\ Knows("restore_ref", r)
  BY <1>1 DEF Knows
<1>3. Goto(p, "terminal", r) \/ Goto(p, "restore_ref", r)
  BY DEF Stop, Restore
<1> HIDE DEF r
<1>4. "terminal" \in PCs /\ "restore_ref" \in PCs
  BY DEF PCs
<1> QED BY <1>1, <1>2, <1>3, <1>4 DEF Moves

\* Towards a state for which no evidence is missing.
LEMMA TransitMoves ==
  ASSUME RepositoryInv, NEW p \in Procs, status # "absent",
         NEW g \in States \ {"patch_validated", "tested", "reviewed"}, Transit(p, g)
  PROVE  Moves(p)
<1> DEFINE r == [Fresh EXCEPT !.state = loc[p].state, !.goal = g]
<1>1. r \in Locals /\ r.goal = g
  BY LocalTypes, GoalTypes
<1>2. Knows("want", r)
  BY <1>1 DEF Knows
<1>3. Goto(p, "want", r) /\ "want" \in PCs
  BY DEF Transit, PCs
<1> HIDE DEF r
<1> QED BY <1>1, <1>2, <1>3 DEF Moves

\* A process that is at work knows that the mission exists.
LEMMA AtWork ==
  ASSUME RepositoryInv, NEW p \in Procs
  PROVE  /\ Knows(pc[p], loc[p])
         /\ ~Resting(p) => status # "absent" /\ status \in States
BY LocalTypes DEF Knows, Resting, RepositoryInv, TypeOK

-----------------------------------------------------------------------------
(* Reads of one process.                                                   *)

LEMMA RunStep ==
  ASSUME RepositoryInv, NEW p \in Procs, Run(p)
  PROVE  RepositoryInv'
<1>1. status # "absent"
  BY DEF Run
<1>2. CASE Goto(p, "loop", Fresh)
  <2>1. Knows("loop", Fresh) /\ "loop" \in PCs
    BY <1>1 DEF Knows, PCs
  <2> QED BY <1>2, <2>1, FreshType, SilentRuns DEF Run
<1>3. CASE Stop(p, "blocked")
  BY <1>1, <1>3, FailureMoves, SilentMoves DEF Run, Failures
<1> QED BY <1>2, <1>3 DEF Run

LEMMA LoopStep ==
  ASSUME RepositoryInv, NEW p \in Procs, Loop(p)
  PROVE  RepositoryInv'
<1>1. status # "absent" /\ status \in States
  BY AtWork DEF Loop, At, Resting
<1>2. CASE Return(p) \/ Raise(p)
  BY <1>2, ReturnMoves, SilentMoves DEF Loop
<1>3. CASE /\ status \in DOMAIN Handler
           /\ Goto(p, Handler[status], [Fresh EXCEPT !.state = status])
  <2>1. PICK r \in Locals : r = [Fresh EXCEPT !.state = status]
    BY <1>1, FreshType, LocalsUpdate, Zenon
  <2>2. PICK l \in PCs : l = Handler[status] /\ l \notin {"idle", "raised", "down", "apply", "verify",
          "store_patch", "test", "want", "transition", "terminal", "restore_ref",
          "restore_paths", "push", "review", "draft"}
          /\ (l \in {"commit_read", "draft_check"} => status \in {"tested", "reviewed"})
          /\ l \notin {"commit", "commit_check", "draft_head"}
    BY <1>3 DEF Handler, PCs
  <2>3. status \in {"tested", "reviewed"} => patches # <<>> /\ tests # <<>>
    BY DEF RepositoryInv, PathInv, WithPatch, WithTest
  <2>4. Knows(l, r)
    BY <1>1, <2>2, <2>3 DEF Knows
  <2> QED BY <1>3, <2>1, <2>2, <2>4, SilentRuns DEF Loop
<1>4. CASE /\ status \notin TERMINAL_STATES /\ status \notin DOMAIN Handler
           /\ Goto(p, "want", [Fresh EXCEPT !.state = status, !.goal = NEXT_STATES[status]])
  <2>1. /\ status \in DOMAIN NEXT_STATES /\ NEXT_STATES[status] \in States
        /\ NEXT_STATES[status] \notin {"patch_validated", "tested", "reviewed"}
    BY <1>1, <1>4 DEF States, NEXT_STATES, TERMINAL_STATES, Handler, Failures
  <2>2. PICK g \in States : g = NEXT_STATES[status] /\ g \notin {"patch_validated", "tested", "reviewed"}
    BY <2>1
  <2> DEFINE r == [Fresh EXCEPT !.state = status, !.goal = g]
  <2>3. r \in Locals /\ r.goal = g
    BY <1>1, GoalTypes
  <2>4. Goto(p, "want", r) /\ "want" \in PCs
    BY <1>4, <2>2 DEF PCs
  <2>5. Knows("want", r)
    BY <1>1, <2>2, <2>3 DEF Knows
  <2> QED BY <2>3, <2>4, <2>5, SilentRuns DEF Loop
<1> QED BY <1>1, <1>2, <1>3, <1>4 DEF Loop

LEMMA TerminalStep ==
  ASSUME RepositoryInv, NEW p \in Procs, Terminal(p)
  PROVE  RepositoryInv'
<1>1. CASE Return(p)
  BY <1>1, ReturnMoves, SilentMoves DEF Terminal
<1>2. CASE Goto(p, "want", loc[p])
  <2>1. Knows("terminal", loc[p])
    BY AtWork DEF Terminal, At
  <2>2. Knows("want", loc[p])
    BY <2>1 DEF Knows, Failures
  <2> QED BY <1>2, <2>2, LocalTypes, SilentRuns DEF Terminal, PCs
<1> QED BY <1>1, <1>2 DEF Terminal

LEMMA ContinueMoves ==
  ASSUME RepositoryInv, NEW p \in Procs, Continue(p), status # "absent"
  PROVE  Moves(p)
<1>1. CASE Return(p)
  BY <1>1, ReturnMoves
<1>2. CASE Goto(p, "loop", Fresh)
  <2>1. Knows("loop", Fresh) /\ "loop" \in PCs
    BY DEF Knows, PCs
  <2> QED BY <1>2, <2>1, FreshType DEF Moves
<1> QED BY <1>1, <1>2 DEF Continue

LEMMA WantStep ==
  ASSUME RepositoryInv, NEW p \in Procs, Want(p)
  PROVE  RepositoryInv'
<1>1. status # "absent" /\ status \in States /\ Knows("want", loc[p])
  BY AtWork DEF Want, At, Resting
<1>2. CASE Continue(p)
  BY <1>1, <1>2, ContinueMoves, SilentMoves DEF Want
<1>3. CASE Return(p)
  BY <1>3, ReturnMoves, SilentMoves DEF Want
<1>4. CASE /\ Allowed(status, loc[p].goal)
           /\ Goto(p, "transition", [loc[p] EXCEPT !.seen = status])
  <2> DEFINE r == [loc[p] EXCEPT !.seen = status]
  <2>1. loc[p] \in Locals /\ r \in Locals
    BY <1>1, LocalTypes, LocalsUpdate, Zenon
  <2>2. r.seen = status /\ r.goal = loc[p].goal
    BY <2>1 DEF Locals
  <2>3. Knows("transition", r)
    BY <1>1, <1>4, <2>2 DEF Knows
  <2>4. "transition" \in PCs
    BY DEF PCs
  <2> QED BY <1>4, <2>1, <2>3, <2>4, SilentRuns DEF Want
<1> QED BY <1>2, <1>3, <1>4 DEF Want

LEMMA CrashStep ==
  ASSUME RepositoryInv, NEW p \in Procs, Crash(p)
  PROVE  RepositoryInv'
<1>1. Knows("down", Fresh) /\ "down" \in PCs
  BY DEF Knows, PCs
<1> QED BY <1>1, FreshType, SilentRuns DEF Crash

-----------------------------------------------------------------------------
(* Transitions.                                                            *)

\* The next place on the path.
LEMMA NextPlace ==
  /\ \A s \in DOMAIN NEXT_STATES : Place[NEXT_STATES[s]] = Place[s] + 1 /\ s \notin Failures
  /\ \A s \in DOMAIN NEXT_STATES : NEXT_STATES[s] \in WithPatch =>
       NEXT_STATES[s] = "patch_validated" \/ s \in WithPatch
  /\ \A s \in DOMAIN NEXT_STATES : NEXT_STATES[s] \in WithTest =>
       NEXT_STATES[s] = "tested" \/ s \in WithTest
  /\ \A s \in DOMAIN NEXT_STATES : NEXT_STATES[s] \in WithReview =>
       NEXT_STATES[s] = "reviewed" \/ s \in WithReview
  /\ \A f \in Failures : f \notin WithPatch /\ f \notin WithTest /\ f \notin WithReview
BY DEF NEXT_STATES, Place, Failures, WithPatch, WithTest, WithReview

LEMMA PathStep ==
  ASSUME RepositoryInv, status # "absent", NEW g \in States, Allowed(status, g),
         status' = g, trail' = Append(trail, g), UNCHANGED <<patches, tests, reviews>>,
         g = "patch_validated" => patches # <<>>, g = "tested" => tests # <<>>,
         g = "reviewed" => reviews # <<>>, Len(drafts') <= 1
  PROVE  PathInv' /\ trail' \in Seq(States) /\ Grows
<1>1. /\ trail \in Seq(States) /\ Len(trail) \in Nat /\ Len(trail) >= 1
      /\ trail[Len(trail)] = status
  BY DEF RepositoryInv, TypeOK, PathInv
<1>2. /\ trail' \in Seq(States) /\ Len(trail') = Len(trail) + 1
      /\ trail'[Len(trail) + 1] = g /\ DOMAIN trail' = DOMAIN trail \cup {Len(trail) + 1}
      /\ \A i \in DOMAIN trail : trail'[i] = trail[i] /\ i \in 1 .. Len(trail)
  BY <1>1
<1>3. g \notin Failures => status \in DOMAIN NEXT_STATES /\ g = NEXT_STATES[status]
  BY DEF Allowed
<1>4. \A i \in DOMAIN trail' : trail'[i] \notin Failures => Place[trail'[i]] = i
  <2>1. g \notin Failures => Place[g] = Len(trail) + 1
    BY <1>1, <1>3, NextPlace DEF RepositoryInv, PathInv
  <2> QED BY <1>2, <2>1 DEF RepositoryInv, PathInv
<1>5. \A i \in DOMAIN trail' \ {1} : Allowed(trail'[i - 1], trail'[i])
  <2>1. ASSUME NEW i \in DOMAIN trail \ {1}
        PROVE  Allowed(trail'[i - 1], trail'[i])
    <3>1. i - 1 \in DOMAIN trail
      BY <1>1, <1>2, <2>1
    <3> QED BY <1>2, <2>1, <3>1 DEF RepositoryInv, PathInv
  <2>2. Allowed(trail'[Len(trail) + 1 - 1], trail'[Len(trail) + 1])
    BY <1>1, <1>2
  <2> QED BY <1>2, <2>1, <2>2
<1>6. /\ g \in WithPatch => patches # <<>>
      /\ g \in WithTest => tests # <<>>
      /\ g \in WithReview => reviews # <<>>
  BY <1>3, NextPlace DEF RepositoryInv, PathInv
<1>7. g # "absent"
  BY StateTypes
<1> QED BY <1>1, <1>2, <1>4, <1>5, <1>6, <1>7 DEF PathInv, Grows

LEMMA TransitionStep ==
  ASSUME RepositoryInv, NEW p \in Procs, Transition(p)
  PROVE  RepositoryInv'
<1>1. status # "absent" /\ Knows("transition", loc[p]) /\ loc[p].goal \in States
  BY AtWork, LocalTypes DEF Transition, At, Resting
<1>2. CASE Unmoved(p)
  <2>1. Moves(p)
    BY <1>1, <1>2, ContinueMoves DEF Transition
  <2>2. PICK l \in PCs, r \in Locals : Goto(p, l, r) /\ Knows(l, r)
    BY <2>1 DEF Moves
  <2>3. PathInv' /\ trail' \in Seq(States) /\ Grows
    BY <1>1, <1>2, PathStep DEF Transition, Unmoved, Knows, RepositoryInv, PathInv
  <2>4. TableTypeOK'
    BY <1>1, <1>2, <2>3 DEF Transition, TableTypeOK, RepositoryInv, TypeOK, world
  <2>5. GitTypeOK'
    BY DEF Transition, world, GitTypeOK, RepositoryInv
  <2>6. Knows(l, r)'
    BY <2>2, <2>3, KnowsStays
  <2> QED BY <2>2, <2>3, <2>4, <2>5, <2>6, MoveRuns
<1>3. CASE ~Unmoved(p)
  <2>1. Moves(p)
    BY <1>3, ReturnMoves DEF Transition
  <2> QED BY <1>3, <2>1, SilentMoves DEF Transition, db
<1> QED BY <1>2, <1>3

LEMMA DraftStep ==
  ASSUME RepositoryInv, NEW p \in Procs, Draft(p)
  PROVE  RepositoryInv'
<1>1. status # "absent" /\ Knows("draft", loc[p])
  BY AtWork DEF Draft, At, Resting
<1>2. CASE Recordable
  <2> DEFINE row == [head |-> loc[p].head, patch |-> Latest(patches).patch, tree |-> loc[p].tree]
  <2>1. Knows("loop", Fresh) /\ "loop" \in PCs
    BY <1>1 DEF Knows, PCs
  <2>2. row \in [head : CommitType, patch : Trees, tree : Trees]
    <3>1. Latest(patches) \in [patch : Trees, snap : GitType]
      BY <1>1, LatestRow DEF Knows, RepositoryInv, TypeOK
    <3> QED BY <1>1, <3>1 DEF Knows
  <2>3. /\ drafts' \in Seq([head : CommitType, patch : Trees, tree : Trees])
        /\ Len(drafts') <= 1
    <3>1. drafts = <<>> /\ drafts' = Append(drafts, row)
      BY <1>2 DEF Draft, Recordable
    <3> HIDE DEF row
    <3>2. \A T, x : x \in T => Append(<<>>, x) \in Seq(T) /\ Len(Append(<<>>, x)) = 1
      OBVIOUS
    <3> QED BY <2>2, <3>1, <3>2
  <2>4. "draft_pr_recorded" \in States
    BY DEF States, NEXT_STATES
  <2>5. PathInv' /\ trail' \in Seq(States) /\ Grows
    BY <1>1, <1>2, <2>3, <2>4, PathStep DEF Draft, Recordable
  <2>6. TableTypeOK'
    BY <1>2, <2>3, <2>4, <2>5 DEF Draft, TableTypeOK, RepositoryInv, TypeOK, world
  <2>7. GitTypeOK'
    BY DEF Draft, world, GitTypeOK, RepositoryInv
  <2>8. Knows("loop", Fresh)'
    BY <2>1, <2>5, KnowsStays
  <2> QED BY <1>2, <2>1, <2>5, <2>6, <2>7, <2>8, FreshType, MoveRuns DEF Draft
<1>3. CASE ~Recordable
  <2>1. Moves(p)
    BY <1>3, ReturnMoves DEF Draft
  <2> QED BY <1>3, <2>1, SilentMoves DEF Draft, db
<1> QED BY <1>2, <1>3

LEMMA CreateStep ==
  ASSUME RepositoryInv, Create
  PROVE  RepositoryInv'
<1>1. status' = "created" /\ status' \in States /\ trail' \in Seq(States)
      /\ Len(trail') = 1 /\ trail'[1] = "created" /\ DOMAIN trail' = {1}
  BY DEF Create, States, NEXT_STATES
<1>2. PathInv'
  BY <1>1 DEF PathInv, Create, WithPatch, WithTest, WithReview, Place, RepositoryInv
<1>3. ASSUME NEW q \in Procs PROVE Knows(pc[q], loc[q])'
  <2>1. PICK m, k : m = pc[q] /\ k = loc[q] /\ Knows(m, k)
    BY AtWork
  <2>2. Knows(m, k)'
    BY <1>1, <2>1, KnowsStays DEF Create, Grows
  <2> QED BY <2>1, <2>2 DEF Create, Knows
<1> QED BY <1>1, <1>2, <1>3 DEF Create, RepositoryInv, TypeOK, GitTypeOK, world

-----------------------------------------------------------------------------
(* inspecting and branched.                                                *)

LEMMA InspectBaseStep ==
  ASSUME RepositoryInv, NEW p \in Procs, InspectBase(p)
  PROVE  RepositoryInv'
<1>1. status # "absent"
  BY AtWork DEF InspectBase, At, Resting
<1>2. CASE Goto(p, "branch", loc[p])
  <2>1. Knows("branch", loc[p]) /\ "branch" \in PCs
    BY <1>1 DEF Knows, PCs
  <2> QED BY <1>2, <2>1, LocalTypes, SilentRuns DEF InspectBase
<1>3. CASE Stop(p, "blocked")
  BY <1>1, <1>3, FailureMoves, SilentMoves DEF InspectBase, Failures
<1> QED BY <1>2, <1>3 DEF InspectBase

LEMMA EnsureBranchStep ==
  ASSUME RepositoryInv, NEW p \in Procs, EnsureBranch(p)
  PROVE  RepositoryInv'
<1>1. status # "absent"
  BY AtWork DEF EnsureBranch, At, Resting
<1>2. Moves(p)
  <2>1. "branched" \in States /\ "blocked" \in Failures
    BY DEF States, NEXT_STATES, Failures
  <2> QED BY <1>1, <2>1, FailureMoves, TransitMoves DEF EnsureBranch
<1>3. GitTypeOK'
  <2>1. GitTypeOK /\ git \in GitType
    BY DEF RepositoryInv, GitTypeOK
  <2>2. CASE UNCHANGED git
    BY <2>1, <2>2 DEF GitTypeOK
  <2>3. CASE git' = [git EXCEPT !.branch = "mission", !.ref = HeadOf(git)]
    <3>1. PICK c \in CommitType : c = HeadOf(git)
      BY <2>1, HeadType DEF GitTypeOK
    <3>2. git' \in GitType
      BY <2>1, <2>3, <3>1, GitUpdate, Zenon
    <3>3. git'.ref = c
      BY <2>1, <2>3, <3>1 DEF GitType
    <3> QED BY <3>2, <3>3 DEF GitTypeOK
  <2> QED BY <2>2, <2>3 DEF EnsureBranch
<1> QED BY <1>2, <1>3, GitMoves DEF EnsureBranch, RepositoryInv, TypeOK

LEMMA ValidateBranchStep ==
  ASSUME RepositoryInv, NEW p \in Procs, ValidateBranch(p)
  PROVE  RepositoryInv'
<1>1. status # "absent"
  BY AtWork DEF ValidateBranch, At, Resting
<1>2. CASE Goto(p, "gate", loc[p])
  <2>1. Knows("gate", loc[p]) /\ "gate" \in PCs
    BY <1>1 DEF Knows, PCs
  <2> QED BY <1>2, <2>1, LocalTypes, SilentRuns DEF ValidateBranch
<1>3. CASE Stop(p, "blocked")
  BY <1>1, <1>3, FailureMoves, SilentMoves DEF ValidateBranch, Failures
<1> QED BY <1>2, <1>3 DEF ValidateBranch

LEMMA GateStep ==
  ASSUME RepositoryInv, NEW p \in Procs, Gate(p)
  PROVE  RepositoryInv'
<1>1. status # "absent"
  BY AtWork DEF Gate, At, Resting
<1>2. ASSUME NEW t \in Patches, Goto(p, "apply", [loc[p] EXCEPT !.tree = t])
      PROVE  RepositoryInv'
  <2> DEFINE r == [loc[p] EXCEPT !.tree = t]
  <2>1. t \in Trees /\ loc[p] \in Locals
    BY LocalTypes, RepositoryAssumption
  <2>2. r \in Locals
    BY <2>1, LocalsUpdate, Zenon
  <2>3. r.tree = t
    BY <2>1 DEF Locals
  <2>4. Knows("apply", r) /\ "apply" \in PCs
    BY <1>1, <2>1, <2>3 DEF Knows, PCs
  <2> QED BY <1>2, <2>2, <2>4, SilentRuns DEF Gate
<1>3. CASE Restore(p, "quarantined") \/ Restore(p, "blocked")
  BY <1>1, <1>3, FailureMoves, SilentMoves DEF Gate, Failures
<1> QED BY <1>2, <1>3 DEF Gate

LEMMA ApplyStep ==
  ASSUME RepositoryInv, NEW p \in Procs, Apply(p)
  PROVE  RepositoryInv'
<1>1. status # "absent" /\ Knows("apply", loc[p]) /\ loc[p].tree \in Trees
  BY AtWork DEF Apply, At, Resting, Knows
<1>2. Moves(p)
  <2>1. CASE Goto(p, "verify", loc[p])
    <3>1. Knows("verify", loc[p]) /\ "verify" \in PCs
      BY <1>1 DEF Knows, PCs
    <3> QED BY <2>1, <3>1, LocalTypes DEF Moves
  <2>2. CASE Restore(p, "quarantined")
    BY <1>1, <2>2, FailureMoves DEF Failures
  <2> QED BY <2>1, <2>2 DEF Apply
<1>3. GitTypeOK'
  <2>1. git \in GitType /\ GitTypeOK
    BY DEF RepositoryInv, GitTypeOK
  <2>2. CASE git' = [git EXCEPT !.wt = loc[p].tree]
    <3>1. git' \in GitType
      BY <1>1, <2>1, <2>2, GitUpdate, Zenon
    <3> QED BY <2>1, <2>2, <3>1 DEF GitTypeOK, GitType
  <2> QED BY <2>1, <2>2 DEF Apply, GitTypeOK
<1> QED BY <1>2, <1>3, GitMoves DEF Apply, RepositoryInv, TypeOK

LEMMA VerifyPatchStep ==
  ASSUME RepositoryInv, NEW p \in Procs, VerifyPatch(p)
  PROVE  RepositoryInv'
<1>1. status # "absent" /\ Knows("verify", loc[p])
  BY AtWork DEF VerifyPatch, At, Resting
<1>2. CASE Goto(p, "store_patch", loc[p])
  <2>1. Knows("store_patch", loc[p]) /\ "store_patch" \in PCs
    BY <1>1 DEF Knows, PCs
  <2> QED BY <1>2, <2>1, LocalTypes, SilentRuns DEF VerifyPatch
<1>3. CASE Restore(p, "quarantined")
  BY <1>1, <1>3, FailureMoves, SilentMoves DEF VerifyPatch, Failures
<1> QED BY <1>2, <1>3 DEF VerifyPatch

\* Rows of evidence, before what they are evidence for.
LEMMA RowRuns ==
  ASSUME RepositoryInv, NEW p \in Procs, NEW l \in PCs, NEW r \in Locals, Goto(p, l, r),
         UNCHANGED <<status, trail, drafts, world>>,
         patches' \in Seq([patch : Trees, snap : GitType]),
         tests' \in Seq([ok : BOOLEAN, tree : Trees \cup {NoTree}]),
         reviews' \in Seq([head : CommitType, patch : Trees]),
         Grows, Knows(l, r)'
  PROVE  RepositoryInv'
<1>1. TableTypeOK' /\ GitTypeOK'
  BY DEF TableTypeOK, GitTypeOK, RepositoryInv, TypeOK, world
<1>2. PathInv'
  BY DEF Grows, PathInv, RepositoryInv
<1> QED BY <1>1, <1>2, MoveRuns

LEMMA StorePatchStep ==
  ASSUME RepositoryInv, NEW p \in Procs, StorePatch(p)
  PROVE  RepositoryInv'
<1>1. status # "absent" /\ loc[p].tree \in Trees /\ loc[p].state \in States
  BY AtWork, LocalTypes DEF StorePatch, At, Resting, Knows
<1> DEFINE r == [Fresh EXCEPT !.state = loc[p].state, !.goal = "patch_validated"]
<1>2. PICK k \in Locals : k = r /\ k.goal = "patch_validated"
  <2>1. "patch_validated" \in States
    BY DEF States, NEXT_STATES
  <2> QED BY <1>1, <2>1, GoalTypes
<1>3. CASE Raise(p) /\ UNCHANGED patches
  BY <1>3, ReturnMoves, SilentMoves DEF StorePatch, db
<1>4. CASE /\ patches' = Stored(patches, [patch |-> loc[p].tree, snap |-> git])
           /\ Transit(p, "patch_validated")
  <2>1. [patch |-> loc[p].tree, snap |-> git] \in [patch : Trees, snap : GitType]
    BY <1>1 DEF RepositoryInv, TypeOK
  <2>2. patches \in Seq([patch : Trees, snap : GitType])
    BY DEF RepositoryInv, TypeOK
  <2>3. \A T : \A rows \in Seq(T) : \A row \in T :
          Stored(rows, row) \in Seq(T) /\ Stored(rows, row) # <<>>
    BY StoredRows
  <2>4. patches' \in Seq([patch : Trees, snap : GitType]) /\ patches' # <<>>
    BY <1>4, <2>1, <2>2, <2>3, Zenon
  <2>5. Grows /\ Knows("want", k)'
    BY <1>1, <1>2, <2>4 DEF Grows, Knows, StorePatch
  <2>6. Goto(p, "want", k) /\ "want" \in PCs
    BY <1>2, <1>4 DEF Transit, PCs
  <2> QED BY <2>4, <2>5, <2>6, RowRuns DEF StorePatch, RepositoryInv, TypeOK
<1> QED BY <1>3, <1>4 DEF StorePatch

-----------------------------------------------------------------------------
(* patch_validated and changed.                                            *)

LEMMA RecheckStep ==
  ASSUME RepositoryInv, NEW p \in Procs, Recheck(p)
  PROVE  RepositoryInv'
<1>1. status # "absent"
  BY AtWork DEF Recheck, At, Resting
<1>2. CASE Transit(p, "changed")
  <2>1. "changed" \in States
    BY DEF States, NEXT_STATES
  <2> QED BY <1>1, <1>2, <2>1, TransitMoves, SilentMoves DEF Recheck
<1>3. CASE Goto(p, "before", loc[p])
  <2>1. Knows("before", loc[p]) /\ "before" \in PCs
    BY <1>1 DEF Knows, PCs
  <2> QED BY <1>3, <2>1, LocalTypes, SilentRuns DEF Recheck
<1>4. CASE Restore(p, "blocked")
  BY <1>1, <1>4, FailureMoves, SilentMoves DEF Recheck, Failures
<1>5. CASE Raise(p)
  BY <1>5, ReturnMoves, SilentMoves DEF Recheck
<1> QED BY <1>2, <1>3, <1>4, <1>5 DEF Recheck

LEMMA TestBeforeStep ==
  ASSUME RepositoryInv, NEW p \in Procs, TestBefore(p)
  PROVE  RepositoryInv'
<1> DEFINE r == [loc[p] EXCEPT !.snap = git]
<1>1. status # "absent"
  BY AtWork DEF TestBefore, At, Resting
<1>2. r \in Locals
  <2>1. loc[p] \in Locals /\ git \in GitType
    BY LocalTypes DEF RepositoryInv, GitTypeOK
  <2> QED BY <2>1, LocalsUpdate, Zenon
<1>3. Knows("copy", r) /\ "copy" \in PCs
  BY <1>1 DEF Knows, PCs
<1> QED BY <1>2, <1>3, SilentRuns DEF TestBefore

LEMMA TestCopyStep ==
  ASSUME RepositoryInv, NEW p \in Procs, TestCopy(p)
  PROVE  RepositoryInv'
<1>1. status # "absent"
  BY AtWork DEF TestCopy, At, Resting
<1>2. CASE Goto(p, "test", [loc[p] EXCEPT !.tree = git.wt])
  <2> DEFINE r == [loc[p] EXCEPT !.tree = git.wt]
  <2>1. git.wt \in Trees /\ loc[p] \in Locals
    BY LocalTypes, GitFields DEF RepositoryInv, GitTypeOK
  <2>2. r \in Locals
    BY <2>1, LocalsUpdate, Zenon
  <2>3. r.tree = git.wt
    BY <2>1 DEF Locals
  <2>4. Knows("test", r) /\ "test" \in PCs
    BY <1>1, <2>1, <2>3 DEF Knows, PCs
  <2> QED BY <1>2, <2>2, <2>4, SilentRuns DEF TestCopy
<1>3. CASE Goto(p, "store_failure", loc[p])
  <2>1. Knows("store_failure", loc[p]) /\ "store_failure" \in PCs
    BY <1>1 DEF Knows, PCs
  <2> QED BY <1>3, <2>1, LocalTypes, SilentRuns DEF TestCopy
<1> QED BY <1>2, <1>3 DEF TestCopy

LEMMA TestStep ==
  ASSUME RepositoryInv, NEW p \in Procs, Test(p)
  PROVE  RepositoryInv'
<1>1. status # "absent" /\ loc[p].tree \in Trees
  BY AtWork DEF Test, At, Resting, Knows
<1>2. Moves(p)
  <2>1. ASSUME NEW ok \in BOOLEAN, Goto(p, "stage", [loc[p] EXCEPT !.ok = ok])
        PROVE  Moves(p)
    <3> DEFINE r == [loc[p] EXCEPT !.ok = ok]
    <3>1. loc[p] \in Locals
      BY LocalTypes
    <3>2. r \in Locals
      BY <3>1, LocalsUpdate, Zenon
    <3>3. Knows("stage", r) /\ "stage" \in PCs
      BY <1>1 DEF Knows, PCs
    <3> QED BY <2>1, <3>2, <3>3 DEF Moves
  <2>2. CASE Goto(p, "store_failure", loc[p])
    <3>1. Knows("store_failure", loc[p]) /\ "store_failure" \in PCs
      BY <1>1 DEF Knows, PCs
    <3> QED BY <2>2, <3>1, LocalTypes DEF Moves
  <2> QED BY <2>1, <2>2 DEF Test
<1>3. passed' \subseteq Trees
  BY <1>1 DEF Test, RepositoryInv, TypeOK
<1> QED BY <1>2, <1>3, GitMoves DEF Test, RepositoryInv, TypeOK, GitTypeOK

LEMMA StageStep ==
  ASSUME RepositoryInv, NEW p \in Procs, Stage(p)
  PROVE  RepositoryInv'
<1>1. status # "absent"
  BY AtWork DEF Stage, At, Resting
<1>2. CASE Goto(p, "add", loc[p])
  <2>1. Knows("add", loc[p]) /\ "add" \in PCs
    BY <1>1 DEF Knows, PCs
  <2> QED BY <1>2, <2>1, LocalTypes, SilentRuns DEF Stage
<1>3. CASE Stop(p, "blocked")
  BY <1>1, <1>3, FailureMoves, SilentMoves DEF Stage, Failures
<1> QED BY <1>2, <1>3 DEF Stage

LEMMA AddStep ==
  ASSUME RepositoryInv, NEW p \in Procs, Add(p)
  PROVE  RepositoryInv'
<1>1. status # "absent"
  BY AtWork DEF Add, At, Resting
<1>2. Moves(p)
  <2>1. CASE Goto(p, "staged", loc[p])
    <3>1. Knows("staged", loc[p]) /\ "staged" \in PCs
      BY <1>1 DEF Knows, PCs
    <3> QED BY <2>1, <3>1, LocalTypes DEF Moves
  <2>2. CASE Stop(p, "blocked")
    BY <1>1, <2>2, FailureMoves DEF Failures
  <2> QED BY <2>1, <2>2 DEF Add
<1>3. GitTypeOK'
  <2>1. git \in GitType /\ GitTypeOK /\ git.wt \in Trees
    BY GitFields DEF RepositoryInv, GitTypeOK
  <2>2. CASE git' = [git EXCEPT !.index = git.wt]
    <3>1. git' \in GitType
      BY <2>1, <2>2, GitUpdate, Zenon
    <3> QED BY <2>1, <2>2, <3>1 DEF GitTypeOK, GitType
  <2> QED BY <2>1, <2>2 DEF Add, GitTypeOK
<1> QED BY <1>2, <1>3, GitMoves DEF Add, RepositoryInv, TypeOK

LEMMA StagedStep ==
  ASSUME RepositoryInv, NEW p \in Procs, Staged(p)
  PROVE  RepositoryInv'
<1>1. status # "absent"
  BY AtWork DEF Staged, At, Resting
<1>2. CASE Goto(p, "store_test", [loc[p] EXCEPT !.tree = git.index])
  <2> DEFINE r == [loc[p] EXCEPT !.tree = git.index]
  <2>1. git.index \in Trees /\ loc[p] \in Locals
    BY LocalTypes, GitFields DEF RepositoryInv, GitTypeOK
  <2>2. r \in Locals
    BY <2>1, LocalsUpdate, Zenon
  <2>3. Knows("store_test", r) /\ "store_test" \in PCs
    BY <1>1 DEF Knows, PCs
  <2> QED BY <1>2, <2>2, <2>3, SilentRuns DEF Staged
<1>3. CASE Stop(p, "blocked")
  BY <1>1, <1>3, FailureMoves, SilentMoves DEF Staged, Failures
<1> QED BY <1>2, <1>3 DEF Staged

\* The evidence of a test, and where the process goes with it.
LEMMA TestRows ==
  ASSUME RepositoryInv, NEW row \in [ok : BOOLEAN, tree : Trees \cup {NoTree}],
         tests' = Stored(tests, row)
  PROVE  tests' \in Seq([ok : BOOLEAN, tree : Trees \cup {NoTree}]) /\ tests' # <<>>
<1>1. tests \in Seq([ok : BOOLEAN, tree : Trees \cup {NoTree}])
  BY DEF RepositoryInv, TypeOK
<1>2. \A T : \A rows \in Seq(T) : \A x \in T : Stored(rows, x) \in Seq(T) /\ Stored(rows, x) # <<>>
  BY StoredRows
<1> QED BY <1>1, <1>2, Zenon

LEMMA RestoreRuns ==
  ASSUME RepositoryInv, NEW p \in Procs, status # "absent", NEW g \in Failures, Restore(p, g),
         UNCHANGED <<status, trail, patches, reviews, drafts, world>>,
         tests' \in Seq([ok : BOOLEAN, tree : Trees \cup {NoTree}]), tests' # <<>>
  PROVE  RepositoryInv'
<1>1. PICK k \in Locals : k = [Fresh EXCEPT !.state = loc[p].state, !.goal = g] /\ k.goal = g
  <2>1. loc[p].state \in States /\ g \in States
    BY LocalTypes, StateTypes
  <2> QED BY <2>1, GoalTypes
<1>2. Goto(p, "restore_ref", k) /\ "restore_ref" \in PCs
  BY <1>1 DEF Restore, PCs
<1>3. Grows /\ Knows("restore_ref", k)'
  BY <1>1 DEF Grows, Knows
<1> QED BY <1>2, <1>3, RowRuns DEF RepositoryInv, TypeOK

LEMMA StoreTestStep ==
  ASSUME RepositoryInv, NEW p \in Procs, StoreTest(p)
  PROVE  RepositoryInv'
<1>1. /\ status # "absent" /\ loc[p].state \in States
      /\ loc[p].tree \in Trees \cup {NoTree} /\ loc[p].ok \in BOOLEAN
  BY AtWork, LocalTypes DEF StoreTest, At, Resting
<1>2. CASE Raise(p) /\ UNCHANGED tests
  BY <1>2, ReturnMoves, SilentMoves DEF StoreTest, db
<1> SUFFICES ASSUME tests' = Stored(tests, [ok |-> loc[p].ok, tree |-> loc[p].tree])
             PROVE  RepositoryInv'
  BY <1>2 DEF StoreTest
<1>3. tests' \in Seq([ok : BOOLEAN, tree : Trees \cup {NoTree}]) /\ tests' # <<>>
  BY <1>1, TestRows
<1>4. CASE Transit(p, "tested")
  <2>1. PICK k \in Locals : /\ k = [Fresh EXCEPT !.state = loc[p].state, !.goal = "tested"]
                            /\ k.goal = "tested"
    <3>1. "tested" \in States
      BY DEF States, NEXT_STATES
    <3> QED BY <1>1, <3>1, GoalTypes
  <2>2. Goto(p, "want", k) /\ "want" \in PCs
    BY <1>4, <2>1 DEF Transit, PCs
  <2>3. Grows /\ Knows("want", k)'
    BY <1>1, <1>3, <2>1 DEF Grows, Knows, StoreTest
  <2> QED BY <1>3, <2>2, <2>3, RowRuns DEF StoreTest, RepositoryInv, TypeOK
<1>5. CASE Restore(p, "rolled_back")
  BY <1>1, <1>3, <1>5, RestoreRuns DEF StoreTest, Failures
<1> QED BY <1>2, <1>4, <1>5 DEF StoreTest

LEMMA StoreFailureStep ==
  ASSUME RepositoryInv, NEW p \in Procs, StoreFailure(p)
  PROVE  RepositoryInv'
<1>1. status # "absent"
  BY AtWork DEF StoreFailure, At, Resting
<1>2. CASE Raise(p) /\ UNCHANGED tests
  BY <1>2, ReturnMoves, SilentMoves DEF StoreFailure, db
<1>3. CASE tests' = Stored(tests, [ok |-> FALSE, tree |-> NoTree]) /\ Restore(p, "rolled_back")
  <2>1. tests' \in Seq([ok : BOOLEAN, tree : Trees \cup {NoTree}]) /\ tests' # <<>>
    BY <1>3, TestRows
  <2> QED BY <1>1, <1>3, <2>1, RestoreRuns DEF StoreFailure, Failures
<1> QED BY <1>2, <1>3 DEF StoreFailure

-----------------------------------------------------------------------------
(* The restoration.                                                        *)

LEMMA RestoreFailsMoves ==
  ASSUME RepositoryInv, NEW p \in Procs, status # "absent", RestoreFails(p)
  PROVE  Moves(p)
BY ReturnMoves, FailureMoves DEF RestoreFails, Failures

LEMMA RestoreRefStep ==
  ASSUME RepositoryInv, NEW p \in Procs, RestoreRef(p)
  PROVE  RepositoryInv'
<1>1. status # "absent" /\ Knows("restore_ref", loc[p])
  BY AtWork DEF RestoreRef, At, Resting
<1>2. Moves(p)
  <2>1. CASE Goto(p, "restore_paths", loc[p])
    <3>1. Knows("restore_paths", loc[p]) /\ "restore_paths" \in PCs
      BY <1>1 DEF Knows, PCs
    <3> QED BY <2>1, <3>1, LocalTypes DEF Moves
  <2>2. CASE RestoreFails(p)
    BY <1>1, <2>2, RestoreFailsMoves
  <2> QED BY <2>1, <2>2 DEF RestoreRef
<1>3. GitTypeOK'
  <2>1. git \in GitType /\ GitTypeOK
    BY DEF RepositoryInv, GitTypeOK
  <2>2. CASE git' = [git EXCEPT !.ref = BaseCommit]
    <3>1. git' \in GitType
      BY <2>1, <2>2, GitUpdate, CommitTypes, Zenon
    <3> QED BY <2>1, <2>2, <3>1, CommitTypes DEF GitTypeOK, GitType
  <2> QED BY <2>1, <2>2 DEF RestoreRef, GitTypeOK
<1> QED BY <1>2, <1>3, GitMoves DEF RestoreRef, RepositoryInv, TypeOK

LEMMA RestorePathsStep ==
  ASSUME RepositoryInv, NEW p \in Procs, RestorePaths(p)
  PROVE  RepositoryInv'
<1>1. status # "absent" /\ Knows("restore_paths", loc[p])
  BY AtWork DEF RestorePaths, At, Resting
<1>2. Moves(p)
  <2>1. CASE Goto(p, "want", loc[p]) \/ Goto(p, "terminal", loc[p])
    <3>1. /\ Knows("want", loc[p]) /\ Knows("terminal", loc[p])
          /\ "want" \in PCs /\ "terminal" \in PCs
      BY <1>1 DEF Knows, PCs, Failures
    <3> QED BY <2>1, <3>1, LocalTypes DEF Moves
  <2>2. CASE RestoreFails(p)
    BY <1>1, <2>2, RestoreFailsMoves
  <2> QED BY <2>1, <2>2 DEF RestorePaths
<1>3. GitTypeOK'
  <2>1. git \in GitType /\ GitTypeOK /\ Base \in Trees
    BY RepositoryAssumption DEF RepositoryInv, GitTypeOK
  <2>2. git' \in {git, [git EXCEPT !.index = Base, !.wt = Base]}
    BY DEF RestorePaths, Restored
  <2>3. git' \in GitType
    <3>1. [git EXCEPT !.index = Base, !.wt = Base] \in GitType
      BY <2>1, GitUpdate, Zenon
    <3> QED BY <2>1, <2>2, <3>1
  <2> QED BY <2>1, <2>2, <2>3 DEF GitTypeOK, GitType
<1> QED BY <1>2, <1>3, GitMoves DEF RestorePaths, RepositoryInv, TypeOK

-----------------------------------------------------------------------------
(* tested and reviewed.                                                    *)

LEMMA CommitReadStep ==
  ASSUME RepositoryInv, NEW p \in Procs, CommitRead(p)
  PROVE  RepositoryInv'
<1>1. status # "absent" /\ Knows("commit_read", loc[p])
  BY AtWork DEF CommitRead, At, Resting
<1>2. patches # <<>> /\ tests # <<>>
  BY <1>1 DEF Knows
<1>3. ASSUME NEW l \in {"commit", "commit_check"},
             Goto(p, l, [loc[p] EXCEPT !.tree = Latest(tests).tree, !.head = HeadOf(git),
                                       !.clean = Clean(git)])
      PROVE  RepositoryInv'
  <2> DEFINE r == [loc[p] EXCEPT !.tree = Latest(tests).tree, !.head = HeadOf(git),
                                 !.clean = Clean(git)]
  <2>1. loc[p] \in Locals /\ HeadOf(git) \in CommitType
    BY LocalTypes, HeadType DEF RepositoryInv, GitTypeOK
  <2>2. Latest(tests).tree \in Trees \cup {NoTree}
    <3>1. Latest(tests) \in [ok : BOOLEAN, tree : Trees \cup {NoTree}]
      BY <1>2, LatestRow DEF RepositoryInv, TypeOK
    <3> QED BY <3>1
  <2>3. Clean(git) \in BOOLEAN
    BY DEF Clean
  <2>4. r \in Locals
    <3>1. HeadOf(git) \in CommitType \cup {NoCommit}
      BY <2>1
    <3> QED BY <2>1, <2>2, <2>3, <3>1, LocalsUpdate, Zenon
  <2>5. Knows(l, r) /\ l \in PCs
    BY <1>1, <1>2 DEF Knows, PCs
  <2> QED BY <1>3, <2>4, <2>5, SilentRuns DEF CommitRead
<1>4. CASE Return(p) \/ Raise(p)
  BY <1>4, ReturnMoves, SilentMoves DEF CommitRead
<1>5. CASE Stop(p, "blocked")
  BY <1>1, <1>5, FailureMoves, SilentMoves DEF CommitRead, Failures
<1> QED BY <1>3, <1>4, <1>5 DEF CommitRead, Refuse

LEMMA CommitStep ==
  ASSUME RepositoryInv, NEW p \in Procs, Commit(p)
  PROVE  RepositoryInv'
<1>1. status # "absent" /\ Knows("commit", loc[p])
  BY AtWork DEF Commit, At, Resting
<1>2. Moves(p)
  <2>1. CASE Goto(p, "commit_check", loc[p])
    <3>1. Knows("commit_check", loc[p]) /\ "commit_check" \in PCs
      BY <1>1 DEF Knows, PCs
    <3> QED BY <2>1, <3>1, LocalTypes DEF Moves
  <2>2. CASE Restore(p, "blocked") \/ Stop(p, "blocked")
    BY <1>1, <2>2, FailureMoves DEF Failures
  <2>3. CASE Raise(p)
    BY <2>3, ReturnMoves
  <2> QED BY <2>1, <2>2, <2>3 DEF Commit, Refuse
<1>3. GitTypeOK'
  <2>1. git \in GitType /\ GitTypeOK /\ git.index \in Trees
    BY GitFields DEF RepositoryInv, GitTypeOK
  <2>2. CASE git' = MoveHead(git, [tree |-> git.index, ours |-> HeadOf(git) = BaseCommit])
    <3>1. [tree |-> git.index, ours |-> HeadOf(git) = BaseCommit] \in CommitType
      BY <2>1 DEF CommitType
    <3> QED BY <2>1, <2>2, <3>1, MoveHeadType DEF GitTypeOK
  <2> QED BY <2>1, <2>2 DEF Commit, GitTypeOK
<1>4. committed' \in BOOLEAN
  BY DEF Commit, RepositoryInv, TypeOK
<1> QED BY <1>2, <1>3, <1>4, GitMoves DEF Commit, RepositoryInv, TypeOK

LEMMA CommitCheckStep ==
  ASSUME RepositoryInv, NEW p \in Procs, CommitCheck(p)
  PROVE  RepositoryInv'
<1>1. status # "absent" /\ Knows("commit_check", loc[p])
  BY AtWork DEF CommitCheck, At, Resting
<1>2. CASE Goto(p, "push", [loc[p] EXCEPT !.head = HeadOf(git)])
  <2> DEFINE r == [loc[p] EXCEPT !.head = HeadOf(git)]
  <2>1. loc[p] \in Locals /\ HeadOf(git) \in CommitType
    BY LocalTypes, HeadType DEF RepositoryInv, GitTypeOK
  <2>2. r \in Locals
    <3>1. HeadOf(git) \in CommitType \cup {NoCommit}
      BY <2>1
    <3> QED BY <2>1, <3>1, LocalsUpdate, Zenon
  <2>3. r.head = HeadOf(git)
    BY <2>1 DEF Locals
  <2>4. Knows("push", r) /\ "push" \in PCs
    BY <1>1, <2>1, <2>3 DEF Knows, PCs
  <2> QED BY <1>2, <2>2, <2>4, SilentRuns DEF CommitCheck
<1>3. CASE Restore(p, "blocked") \/ Stop(p, "blocked")
  BY <1>1, <1>3, FailureMoves, SilentMoves DEF CommitCheck, Failures
<1>4. CASE Raise(p)
  BY <1>4, ReturnMoves, SilentMoves DEF CommitCheck
<1> QED BY <1>2, <1>3, <1>4 DEF CommitCheck, Refuse

LEMMA PushStep ==
  ASSUME RepositoryInv, NEW p \in Procs, Push(p)
  PROVE  RepositoryInv'
<1>1. status # "absent" /\ Knows("push", loc[p])
  BY AtWork DEF Push, At, Resting
<1>2. Moves(p)
  <2>1. CASE Goto(p, "review", loc[p])
    <3>1. Knows("review", loc[p]) /\ "review" \in PCs
      BY <1>1 DEF Knows, PCs
    <3> QED BY <2>1, <3>1, LocalTypes DEF Moves
  <2>2. CASE PushFails(p)
    BY <1>1, <2>2, FailureMoves, ReturnMoves DEF PushFails, Refuse, Failures
  <2> QED BY <2>1, <2>2 DEF Push
<1>3. remote' \in CommitType \cup {NoCommit}
  BY GitFields DEF Push, RepositoryInv, TypeOK, GitTypeOK
<1> QED BY <1>2, <1>3, GitMoves DEF Push, RepositoryInv, TypeOK, GitTypeOK

LEMMA ReviewStep ==
  ASSUME RepositoryInv, NEW p \in Procs, Review(p)
  PROVE  RepositoryInv'
<1>1. status # "absent" /\ Knows("review", loc[p]) /\ loc[p].state \in States
  BY AtWork, LocalTypes DEF Review, At, Resting
<1>2. CASE (Stop(p, "blocked") \/ Raise(p)) /\ UNCHANGED reviews
  BY <1>1, <1>2, FailureMoves, ReturnMoves, SilentMoves DEF Review, Failures, db
<1>3. CASE Transit(p, "reviewed") /\
           reviews' = Stored(reviews, [head |-> loc[p].head, patch |-> Latest(patches).patch])
  <2>1. PICK k \in Locals : /\ k = [Fresh EXCEPT !.state = loc[p].state, !.goal = "reviewed"]
                            /\ k.goal = "reviewed"
    <3>1. "reviewed" \in States
      BY DEF States, NEXT_STATES
    <3> QED BY <1>1, <3>1, GoalTypes
  <2>2. reviews' \in Seq([head : CommitType, patch : Trees]) /\ reviews' # <<>>
    <3>1. [head |-> loc[p].head, patch |-> Latest(patches).patch] \in [head : CommitType, patch : Trees]
      <4>1. Latest(patches) \in [patch : Trees, snap : GitType]
        BY <1>1, LatestRow DEF Knows, RepositoryInv, TypeOK
      <4> QED BY <1>1, <4>1 DEF Knows
    <3>2. reviews \in Seq([head : CommitType, patch : Trees])
      BY DEF RepositoryInv, TypeOK
    <3>3. \A T : \A rows \in Seq(T) : \A x \in T : Stored(rows, x) \in Seq(T) /\ Stored(rows, x) # <<>>
      BY StoredRows
    <3>4. reviews' = Stored(reviews, [head |-> loc[p].head, patch |-> Latest(patches).patch])
      BY <1>3
    <3> QED BY <3>1, <3>2, <3>3, <3>4, Zenon
  <2>3. Goto(p, "want", k) /\ "want" \in PCs
    BY <1>3, <2>1 DEF Transit, PCs
  <2>4. Grows /\ Knows("want", k)'
    BY <1>1, <2>1, <2>2 DEF Grows, Knows, Review
  <2> QED BY <2>2, <2>3, <2>4, RowRuns DEF Review, RepositoryInv, TypeOK
<1> QED BY <1>2, <1>3 DEF Review

LEMMA DraftCheckStep ==
  ASSUME RepositoryInv, NEW p \in Procs, DraftCheck(p)
  PROVE  RepositoryInv'
<1>1. status # "absent" /\ Knows("draft_check", loc[p])
  BY AtWork DEF DraftCheck, At, Resting
<1>2. CASE Goto(p, "draft_head", loc[p])
  <2>1. Knows("draft_head", loc[p]) /\ "draft_head" \in PCs
    BY <1>1 DEF Knows, PCs
  <2> QED BY <1>2, <2>1, LocalTypes, SilentRuns DEF DraftCheck
<1>3. CASE Stop(p, "blocked")
  BY <1>1, <1>3, FailureMoves, SilentMoves DEF DraftCheck, Failures
<1>4. CASE Raise(p)
  BY <1>4, ReturnMoves, SilentMoves DEF DraftCheck
<1> QED BY <1>2, <1>3, <1>4 DEF DraftCheck

LEMMA DraftHeadStep ==
  ASSUME RepositoryInv, NEW p \in Procs, DraftHead(p)
  PROVE  RepositoryInv'
<1>1. status # "absent" /\ Knows("draft_head", loc[p])
  BY AtWork DEF DraftHead, At, Resting
<1>2. CASE /\ HasResult(Latest(tests))
           /\ Goto(p, "draft", [loc[p] EXCEPT !.head = HeadOf(git), !.tree = Latest(tests).tree])
  <2> DEFINE r == [loc[p] EXCEPT !.head = HeadOf(git), !.tree = Latest(tests).tree]
  <2>1. loc[p] \in Locals /\ HeadOf(git) \in CommitType
    BY LocalTypes, HeadType DEF RepositoryInv, GitTypeOK
  <2>2. Latest(tests).tree \in Trees
    <3>1. Latest(tests) \in [ok : BOOLEAN, tree : Trees \cup {NoTree}]
      BY <1>1, LatestRow DEF Knows, RepositoryInv, TypeOK
    <3> QED BY <1>2, <3>1 DEF HasResult
  <2>3. r \in Locals
    <3>1. HeadOf(git) \in CommitType \cup {NoCommit} /\ Latest(tests).tree \in Trees \cup {NoTree}
      BY <2>1, <2>2
    <3> QED BY <2>1, <3>1, LocalsUpdate, Zenon
  <2>4. r.head = HeadOf(git) /\ r.tree = Latest(tests).tree
    BY <2>1 DEF Locals
  <2>5. Knows("draft", r) /\ "draft" \in PCs
    BY <1>1, <2>1, <2>2, <2>4 DEF Knows, PCs
  <2> QED BY <1>2, <2>3, <2>5, SilentRuns DEF DraftHead
<1>3. CASE Return(p) \/ Raise(p)
  BY <1>3, ReturnMoves, SilentMoves DEF DraftHead
<1> QED BY <1>2, <1>3 DEF DraftHead

-----------------------------------------------------------------------------
(* What somebody else does to the repository.                              *)

LEMMA MeddleStep ==
  ASSUME RepositoryInv, Meddle
  PROVE  RepositoryInv'
<1>1. git \in GitType /\ GitTypeOK /\ git.wt \in Trees /\ HeadOf(git) \in CommitType
  BY GitFields, HeadType DEF RepositoryInv, GitTypeOK
<1>2. GitTypeOK'
  <2>1. CASE Edit
    <3>1. PICK t \in Trees : git' = [git EXCEPT !.wt = t]
      BY <2>1 DEF Edit
    <3>2. git' \in GitType
      BY <1>1, <3>1, GitUpdate, Zenon
    <3> QED BY <1>1, <3>1, <3>2 DEF GitTypeOK, GitType
  <2>2. CASE Litter
    <3>1. git' = [git EXCEPT !.out = ~@]
      BY <2>2 DEF Litter
    <3>2. git' \in GitType
      BY <1>1, <3>1, GitUpdate, Zenon
    <3> QED BY <1>1, <3>1, <3>2 DEF GitTypeOK, GitType
  <2>3. CASE CommitElsewhere
    <3>1. PICK mimics \in BOOLEAN :
            git' = MoveHead([git EXCEPT !.index = git.wt],
                            [tree |-> git.wt, ours |-> mimics /\ HeadOf(git) = BaseCommit])
      BY <2>3 DEF CommitElsewhere
    <3>2. [tree |-> git.wt, ours |-> mimics /\ HeadOf(git) = BaseCommit] \in CommitType
      BY <1>1 DEF CommitType
    <3>3. [git EXCEPT !.index = git.wt] \in GitType
      BY <1>1, GitUpdate, Zenon
    <3> QED BY <3>1, <3>2, <3>3, MoveHeadType DEF GitTypeOK
  <2>4. CASE Switch
    <3>1. PICK b \in {"main", "mission"}, g \in GitType :
            /\ g = [git EXCEPT !.branch = b] /\ HeadOf(g) # NoCommit
            /\ git' = [g EXCEPT !.index = HeadOf(g).tree, !.wt = HeadOf(g).tree]
      <4>1. \A b \in {"main", "mission"} : [git EXCEPT !.branch = b] \in GitType
        BY <1>1, GitUpdate, Zenon
      <4> QED BY <2>4, <4>1 DEF Switch
    <3>2. HeadOf(g) \in CommitType /\ (g.branch = "mission" => g.ref \in CommitType)
      BY <3>1, GitFields DEF HeadOf
    <3>3. HeadOf(g).tree \in Trees
      BY <3>2 DEF CommitType
    <3>4. git' \in GitType
      BY <3>1, <3>3, GitUpdate, Zenon
    <3> QED BY <3>1, <3>2, <3>4 DEF GitTypeOK, GitType
  <2> QED BY <2>1, <2>2, <2>3, <2>4 DEF Meddle
<1>3. meddled' \in 0 .. MaxMeddling
  BY RepositoryAssumption DEF Meddle, RepositoryInv, TypeOK
<1>4. ASSUME NEW q \in Procs PROVE Knows(pc[q], loc[q])'
  <2>1. PICK m, k : m = pc[q] /\ k = loc[q] /\ Knows(m, k)
    BY AtWork
  <2> QED BY <2>1 DEF Meddle, Knows, db
<1>5. PathInv'
  BY DEF PathInv, RepositoryInv, Meddle, db
<1> QED BY <1>2, <1>3, <1>4, <1>5 DEF Meddle, RepositoryInv, TypeOK, GitTypeOK, db

-----------------------------------------------------------------------------
(* Properties of any number of processes.                                  *)

LEMMA InitRuns == Init => RepositoryInv
<1> SUFFICES ASSUME Init PROVE RepositoryInv
  OBVIOUS
<1>1. git \in GitType /\ git.branch = "main"
  <2>1. NoCommit \in CommitType \cup {NoCommit} /\ BaseCommit \in CommitType
    BY CommitTypes
  <2> QED BY <2>1, RepositoryAssumption DEF Init, GitType
<1>2. PathInv
  BY DEF Init, PathInv, WithPatch, WithTest, WithReview
<1>3. ASSUME NEW q \in Procs PROVE Knows(pc[q], loc[q])
  BY DEF Init, Knows
<1>4. TypeOK
  <2>1. \A T : <<>> \in Seq(T)
    OBVIOUS
  <2>2. 0 \in 0 .. MaxMeddling /\ FALSE \in BOOLEAN /\ {} \subseteq Trees
        /\ NoCommit \in CommitType \cup {NoCommit}
    BY RepositoryAssumption
  <2>3. pc \in [Procs -> PCs] /\ loc \in [Procs -> Locals]
    BY FreshType DEF Init, PCs
  <2> QED BY <1>1, <2>1, <2>2, <2>3, Zenon DEF Init, TypeOK
<1> QED BY <1>1, <1>2, <1>3, <1>4 DEF RepositoryInv, GitTypeOK

LEMMA RepositoryStep == RepositoryInv /\ [Next]_vars => RepositoryInv'
<1> SUFFICES ASSUME RepositoryInv, [Next]_vars PROVE RepositoryInv'
  OBVIOUS
<1>1. CASE UNCHANGED vars
  BY <1>1 DEF vars, db, world, RepositoryInv, TypeOK, GitTypeOK, PathInv, Knows
<1>2. ASSUME NEW p \in Procs, Run(p) \/ Work(p) \/ Crash(p) PROVE RepositoryInv'
  BY <1>2, RunStep, LoopStep, TerminalStep, WantStep, TransitionStep, InspectBaseStep,
     EnsureBranchStep, ValidateBranchStep, GateStep, ApplyStep, VerifyPatchStep, StorePatchStep,
     RecheckStep, TestBeforeStep, TestCopyStep, TestStep, StageStep, AddStep, StagedStep,
     StoreTestStep, StoreFailureStep, RestoreRefStep, RestorePathsStep, CommitReadStep,
     CommitStep, CommitCheckStep, PushStep, ReviewStep, DraftCheckStep, DraftHeadStep,
     DraftStep, CrashStep DEF Work
<1> QED BY <1>1, <1>2, CreateStep, MeddleStep DEF Next

THEOREM RepositoryInvariant == Spec => []RepositoryInv
BY InitRuns, RepositoryStep, PTL DEF Spec

\* The rows of the mission, the repository and the processes have their types
\* whatever Git commands fail, whoever dies and whoever meddles; so a handler
\* that reads the latest evidence finds a row.
THEOREM RepositoryTypes == Spec => []TypeOK
<1>1. RepositoryInv => TypeOK
  BY DEF RepositoryInv
<1> QED BY <1>1, RepositoryInvariant, PTL

\* _transition_in_transaction updates WHERE status = what it read: of any
\* number of processes one enters each state, from the one before it, and
\* UNIQUE(mission_id) lets one record the draft.
THEOREM PathIsFollowedOnce == Spec => []PathOnce
<1>1. ASSUME RepositoryInv PROVE PathOnce
  <2>1. ASSUME NEW i \in DOMAIN trail, NEW j \in DOMAIN trail, trail[i] = trail[j], i # j
        PROVE  trail[i] \in Failures
    BY <1>1, <2>1 DEF RepositoryInv, PathInv
  <2> QED BY <1>1, <2>1 DEF PathOnce, RepositoryInv, PathInv
<1> QED BY <1>1, RepositoryInvariant, PTL
=============================================================================
