------------------------- MODULE BoundedMission_proofs -------------------------
(***************************************************************************)
(* Proofs about MissionEngine when its commands are issued by one process, *)
(* which may die anywhere and start another command, for every contract:   *)
(* the budget, the proof that a completed mission has, its rollback, its   *)
(* transitions, and that it implements BoundedMission.                     *)
(***************************************************************************)
EXTENDS MissionEngine_proofs, FiniteSetTheorems

-----------------------------------------------------------------------------
(* The inductive invariant.                                                *)

\* The mission's commands are issued by one process, which may die in any of
\* them and start the next.
OneProcess == \A p, q \in Procs : p = q

\* The steps that count against max_steps, now or after a recovery.
Held == {s \in Steps : step[s] \in {"completed", "running"}}

NoneRunning == \A s \in Steps : step[s] # "running"
NoneUncertain == \A s \in Steps : step[s] # "uncertain"
Proven == contract.evidence /\ \A s \in Steps : inv[s] = "success"

\* A step's status says what its invocation and its rollback left.
StepInv(s) ==
  /\ step[s] = "pending" => inv[s] = "none"
  /\ step[s] \in Undoable \cup {"rolled_back"} => inv[s] # "none"
  /\ step[s] = "completed" => inv[s] = "success"
  /\ step[s] = "rolled_back" => undo[s] = "success"
  /\ step[s] = "uncertain" => status \in {"blocked", "failed", "cancelled", "rolled_back"}
  /\ contract.rollback[s] = "effect" /\ undone[s] > 0 =>
       undone[s] = 1 /\ (undo[s] # "none" \/ step[s] = "rollback_running")

LifeInv ==
  /\ \A s \in Steps : StepInv(s)
  /\ Cardinality(Held) <= contract.budget
  /\ status \in {"absent", "proposed", "authorized"} => \A s \in Steps : step[s] = "pending"
  /\ status \in {"absent", "proposed"} => decisions[Initial] = <<>>
  /\ Initial \notin requested
  /\ status = "completed" => Proven
  /\ status = "rolled_back" => \A s \in contract.effects : step[s] \notin Undoable

\* What the process relies on between two of its reads and writes.
Owns(l, r) ==
  /\ l = "authorize" => status = "proposed"
  /\ l = "decide" => status = "awaiting_approval" /\ r.gate \in requested /\ Undecided(r.gate)
  /\ l = "transition" => r.seen = status /\ Allowed(status, r.goal)
  /\ l \in {"want", "transition"} =>
       /\ r.goal \in {"running", "awaiting_approval", "completed"} => NoneUncertain
       /\ r.goal = "completed" => Proven
       /\ r.goal = "rolled_back" => \A s \in contract.effects : step[s] \notin Undoable
  /\ l \in {"running_steps", "lookup", "recover"} => status \in {"running", "blocked", "authorized"}
  /\ l \in {"lookup", "recover"} => r.list = {s \in Steps : step[s] = "running"}
  /\ l = "recover" => r.found = inv[r.step]
  /\ l = "status" /\ status \in Runnable => NoneRunning
  /\ l \in {"select", "budget", "authority", "irreversible", "request"} =>
       status \in Runnable /\ r.seen = status
  /\ l \in {"select", "budget"} => NoneRunning
  /\ l \in {"budget", "authority", "irreversible", "claim", "dispatch"} =>
       \A t \in 1 .. r.step - 1 : inv[t] # "none"
  /\ l \in {"authority", "irreversible", "claim"} => Cardinality(Held) < contract.budget
  /\ l = "request" => r.gate # Initial
  /\ l \in {"want", "transition"} /\ r.cmd = "run" /\ r.goal = "running" =>
       /\ \A t \in 1 .. r.step - 1 : inv[t] # "none"
       /\ Cardinality(Held) < contract.budget
  /\ l \in {"claim", "dispatch", "record", "store", "remaining"} => status = "running"
  /\ l \in {"dispatch", "record", "store"} => step[r.step] = "running"
  /\ l \in {"dispatch", "record"} => inv[r.step] = "none"
  /\ l = "record" => r.found # "none" /\ (r.found = "success" => ran[r.step] > 0)
  /\ l = "store" => r.found # "none" /\ inv[r.step] = r.found
  /\ l = "finish" => status \in Runnable
  /\ l \in {"rollback_steps", "undo", "undo_mark", "undo_dispatch", "undo_record", "undo_done"} =>
       status \in {"completed", "failed", "cancelled", "blocked"}
  /\ l \in {"undo", "undo_mark", "undo_dispatch", "undo_record", "undo_done"} =>
       /\ \A s \in r.list : step[s] \in Undoable
       /\ r.clean => \A s \in contract.effects : step[s] \notin Undoable \/ s \in r.list
       /\ \A s \in r.list :
            step[s] = "rollback_running" => s \in r.half \/ (l # "undo" /\ s = r.step)
  /\ l \in {"undo_mark", "undo_dispatch", "undo_record", "undo_done"} => r.step \in r.list
  /\ l \in {"undo_mark", "undo_dispatch", "undo_record"} => undo[r.step] = "none"
  /\ l \in {"undo_mark", "undo_dispatch"} /\ contract.rollback[r.step] = "effect" =>
       undone[r.step] = 0
  /\ l \in {"undo_dispatch", "undo_record"} => step[r.step] = "rollback_running"
  /\ l = "undo_done" => undo[r.step] = "success"

MissionInv ==
  /\ LifeInv
  /\ \A p \in Procs : Owns(pc[p], loc[p])

-----------------------------------------------------------------------------
(* Counting steps.                                                         *)

LEMMA HeldCount ==
  ASSUME TypeOK
  PROVE  /\ IsFiniteSet(Held) /\ Cardinality(Held) \in Nat /\ contract.budget \in Nat
         /\ \A S \in SUBSET Held : IsFiniteSet(S) /\ Cardinality(S) <= Cardinality(Held)
<1>1. IsFiniteSet(Steps)
  BY ContractAssumption, FS_Interval DEF Steps
<1>2. IsFiniteSet(Held)
  <2>1. Held \in SUBSET Steps
    BY DEF Held
  <2> QED BY <1>1, <2>1, FS_Subset
<1>3. \A S \in SUBSET Held : IsFiniteSet(S) /\ Cardinality(S) <= Cardinality(Held)
  BY <1>2, FS_Subset
<1>4. contract.budget \in Nat
  BY ContractAssumption DEF TypeOK, ContractType
<1> QED BY <1>2, <1>3, <1>4, FS_CardinalityType

LEMMA HeldShrinks ==
  ASSUME TypeOK, LifeInv, Held' \subseteq Held, contract' = contract
  PROVE  Cardinality(Held') <= contract'.budget
<1>1. Held' \in SUBSET Held /\ Cardinality(Held) <= contract.budget
  BY DEF LifeInv
<1>2. IsFiniteSet(Held') /\ Cardinality(Held') <= Cardinality(Held)
  BY <1>1, HeldCount
<1>3. Cardinality(Held') \in Nat
  BY <1>2, FS_CardinalityType
<1>4. \A i, j, k \in Nat : i <= j /\ j <= k => i <= k
  OBVIOUS
<1> QED BY <1>1, <1>2, <1>3, <1>4, HeldCount, Zenon

-----------------------------------------------------------------------------
(* Moves of the one process.                                               *)

LEMMA AloneStep ==
  ASSUME OneProcess, NEW p \in Procs, LifeInv', Owns(pc[p], loc[p])'
  PROVE  MissionInv'
<1>1. \A q \in Procs : q = p
  BY DEF OneProcess
<1> QED BY <1>1 DEF MissionInv

\* What a silent step leaves.
LEMMA SameRows ==
  ASSUME UNCHANGED <<db, world>>
  PROVE  /\ contract' = contract /\ status' = status /\ step' = step /\ inv' = inv /\ undo' = undo
         /\ requested' = requested /\ decisions' = decisions /\ ran' = ran /\ undone' = undone
         /\ Held' = Held /\ NoneRunning' = NoneRunning /\ NoneUncertain' = NoneUncertain
         /\ Proven' = Proven
BY DEF db, world, Held, NoneRunning, NoneUncertain, Proven

LEMMA LifeStays ==
  ASSUME MissionInv, UNCHANGED <<db, world>>
  PROVE  LifeInv'
BY SameRows DEF MissionInv, LifeInv, StepInv

\* What the process relied on.
LEMMA Relies ==
  ASSUME TypeOK, ConsentGuarded, MissionInv, NEW p \in Procs
  PROVE  /\ Owns(pc[p], loc[p]) /\ LifeInv /\ loc[p] \in Locals /\ loc[p].step \in Steps
         /\ ClearedAt(pc[p], loc[p])
BY LocType DEF MissionInv, ConsentGuarded

LEMMA RestOwns ==
  ASSUME TypeOK, NEW p \in Procs, NEW r, Goto(p, "idle", r) \/ Goto(p, "resume", r)
  PROVE  Owns(pc[p], loc[p])'
<1>1. pc'[p] \in {"idle", "resume"}
  BY GotoEffect
<1> QED BY <1>1 DEF Owns

\* A silent step that goes where it may.
LEMMA SilentAlone ==
  ASSUME TypeOK, OneProcess, MissionInv, NEW p \in Procs, UNCHANGED <<db, world>>,
         NEW l, NEW r, Goto(p, l, r), Owns(l, r)
  PROVE  MissionInv'
<1>1. pc'[p] = l /\ loc'[p] = r
  BY GotoEffect
<1>2. Owns(pc[p], loc[p])'
  BY <1>1, SameRows DEF Owns, Undecided
<1> QED BY <1>2, LifeStays, AloneStep

LEMMA ReturnAlone ==
  ASSUME TypeOK, OneProcess, MissionInv, NEW p \in Procs, UNCHANGED <<db, world>>, Return(p)
  PROVE  MissionInv'
BY RestOwns, LifeStays, AloneStep DEF Return

\* Towards a transition that claims nothing.
LEMMA WantOwns ==
  ASSUME TypeOK, NEW p \in Procs, NEW r, Goto(p, "want", r), r.cmd # "run" \/ r.goal # "running",
         r.goal \in {"running", "awaiting_approval", "completed"} => NoneUncertain',
         r.goal = "completed" => Proven',
         r.goal = "rolled_back" => \A s \in contract'.effects : step'[s] \notin Undoable
  PROVE  Owns(pc[p], loc[p])'
<1>1. pc'[p] = "want" /\ loc'[p] = r
  BY GotoEffect
<1> QED BY <1>1 DEF Owns

-----------------------------------------------------------------------------
(* Commands begin.                                                         *)

LEMMA BeginsAlone ==
  ASSUME TypeOK, ConsentGuarded, OneProcess, MissionInv, NEW p \in Procs, Command(p)
  PROVE  MissionInv'
<1>1. Fresh \in Locals
  BY FreshType
<1>2. CASE Authorize(p)
  <2>1. pc'[p] = "authorize" /\ status' = status /\ status = "proposed"
    BY <1>2, GotoEffect DEF Authorize, db
  <2>2. Owns(pc[p], loc[p])'
    BY <2>1 DEF Owns
  <2> QED BY <1>2, <2>2, LifeStays, AloneStep DEF Authorize
<1>3. CASE Decide(p)
  <2>1. PICK g \in requested, v \in {"approved", "denied"} :
          Undecided(g) /\ Goto(p, "decide", [Fresh EXCEPT !.cmd = "decide", !.gate = g, !.verdict = v])
    BY <1>3, Zenon DEF Decide
  <2> DEFINE r == [Fresh EXCEPT !.cmd = "decide", !.gate = g, !.verdict = v]
  <2>2. r.gate = g
    BY <1>1 DEF Locals
  <2> HIDE DEF r
  <2>3. Owns("decide", r)
    BY <1>3, <2>1, <2>2 DEF Owns, Decide
  <2>4. Goto(p, "decide", r)
    BY <2>1 DEF r
  <2> QED BY <1>3, <2>3, <2>4, SilentAlone DEF Decide
<1>4. ASSUME NEW c \in {"run", "resume"}, StartRecover(p, c)
      PROVE  MissionInv'
  <2>1. CASE status \in {"running", "blocked", "authorized"}
    <3>1. pc'[p] = "running_steps" /\ status' = status
      BY <1>4, <2>1, GotoEffect DEF StartRecover, db
    <3>2. Owns(pc[p], loc[p])'
      BY <2>1, <3>1 DEF Owns
    <3> QED BY <1>4, <3>2, LifeStays, AloneStep DEF StartRecover
  <2>2. CASE status \notin {"running", "blocked", "authorized"}
    <3>1. pc'[p] \in {"status", "resume"} /\ status' = status
      BY <1>4, <2>2, GotoEffect DEF StartRecover, db
    <3>2. Owns(pc[p], loc[p])'
      BY <2>2, <3>1 DEF Owns, Runnable
    <3> QED BY <1>4, <3>2, LifeStays, AloneStep DEF StartRecover
  <2> QED BY <2>1, <2>2
<1>5. CASE Pause(p) \/ Cancel(p)
  <2>1. ASSUME NEW c \in {"pause", "cancel"}, NEW v \in {"blocked", "cancelled"},
               Goto(p, "want", [Fresh EXCEPT !.cmd = c, !.goal = v])
        PROVE  Owns(pc[p], loc[p])'
    <3>1. [Fresh EXCEPT !.cmd = c, !.goal = v].goal = v
      BY <1>1 DEF Locals
    <3> QED BY <2>1, <3>1, WantOwns
  <2>2. Owns(pc[p], loc[p])'
    BY <1>5, <2>1 DEF Pause, Cancel
  <2> QED BY <1>5, <2>2, LifeStays, AloneStep DEF Pause, Cancel
<1>6. CASE Rollback(p)
  <2>1. pc'[p] = "rollback_steps" /\ status' = status
    BY <1>6, GotoEffect DEF Rollback, db
  <2>2. Owns(pc[p], loc[p])'
    BY <1>6, <2>1 DEF Owns, Rollback
  <2> QED BY <1>6, <2>2, LifeStays, AloneStep DEF Rollback
<1> QED BY <1>2, <1>3, <1>4, <1>5, <1>6 DEF Command, RunOne, Resume

-----------------------------------------------------------------------------
(* Steps that only read.                                                   *)

LEMMA WantAlone ==
  ASSUME TypeOK, ConsentGuarded, OneProcess, MissionInv, NEW p \in Procs, Want(p)
  PROVE  MissionInv'
<1>1. Owns("want", loc[p]) /\ loc[p] \in Locals
  BY Relies DEF Want, At
<1> DEFINE r == [loc[p] EXCEPT !.seen = status]
<1>2. CASE Allowed(status, loc[p].goal) /\ Goto(p, "transition", r)
  <2>1. r.seen = status /\ r.goal = loc[p].goal /\ r.cmd = loc[p].cmd /\ r.step = loc[p].step
    BY <1>1 DEF Locals
  <2> HIDE DEF r
  <2>2. Owns("transition", r)
    BY <1>1, <1>2, <2>1 DEF Owns
  <2> QED BY <1>2, <2>2, SilentAlone DEF Want
<1>3. CASE Return(p)
  BY <1>3, ReturnAlone DEF Want
<1> QED BY <1>2, <1>3 DEF Want

\* After a recovery no step is running, unless the mission is not runnable.
LEMMA AfterRecoverOwns ==
  ASSUME TypeOK, NEW p \in Procs, AfterRecover(p), (status \in Runnable => NoneRunning)'
  PROVE  Owns(pc[p], loc[p])'
<1>1. pc'[p] \in {"status", "resume"}
  BY GotoEffect DEF AfterRecover
<1> QED BY <1>1 DEF Owns

LEMMA RunningStepsAlone ==
  ASSUME TypeOK, ConsentGuarded, OneProcess, MissionInv, NEW p \in Procs, RunningSteps(p)
  PROVE  MissionInv'
<1>1. Owns("running_steps", loc[p]) /\ loc[p] \in Locals
  BY Relies DEF RunningSteps, At
<1> DEFINE running == {s \in Steps : step[s] = "running"}
<1>2. CASE running = {} /\ AfterRecover(p)
  <2>1. NoneRunning'
    BY <1>2, SameRows DEF NoneRunning, RunningSteps
  <2>2. Owns(pc[p], loc[p])'
    BY <1>2, <2>1, AfterRecoverOwns
  <2> QED BY <2>2, LifeStays, AloneStep DEF RunningSteps
<1>3. ASSUME NEW s \in running,
             Goto(p, "lookup", [loc[p] EXCEPT !.list = running, !.step = s])
      PROVE  MissionInv'
  <2> DEFINE r == [loc[p] EXCEPT !.list = running, !.step = s]
  <2>1. r.list = running
    BY <1>1 DEF Locals
  <2>2. Goto(p, "lookup", r)
    BY <1>3
  <2> HIDE DEF r
  <2>3. Owns("lookup", r)
    BY <1>1, <2>1 DEF Owns
  <2> QED BY <2>2, <2>3, SilentAlone DEF RunningSteps
<1> QED BY <1>2, <1>3 DEF RunningSteps

LEMMA LookupAlone ==
  ASSUME TypeOK, ConsentGuarded, OneProcess, MissionInv, NEW p \in Procs, Lookup(p)
  PROVE  MissionInv'
<1>1. Owns("lookup", loc[p]) /\ loc[p] \in Locals
  BY Relies DEF Lookup, At
<1> DEFINE r == [loc[p] EXCEPT !.found = inv[loc[p].step]]
<1>2. r.found = inv[loc[p].step] /\ r.list = loc[p].list /\ r.step = loc[p].step
  BY <1>1 DEF Locals
<1>3. Goto(p, "recover", r) /\ UNCHANGED <<db, world>>
  BY DEF Lookup
<1> HIDE DEF r
<1>4. Owns("recover", r)
  BY <1>1, <1>2 DEF Owns
<1> QED BY <1>3, <1>4, SilentAlone

LEMMA ResumeAlone ==
  ASSUME TypeOK, ConsentGuarded, OneProcess, MissionInv, NEW p \in Procs,
         ResumeStatus(p) \/ ResumeCheck(p)
  PROVE  MissionInv'
<1>1. loc[p] \in Locals
  BY Relies
<1>2. CASE ResumeStatus(p)
  <2>1. Owns("uncertain", loc[p])
    BY DEF Owns
  <2> QED BY <1>2, <2>1, SilentAlone, ReturnAlone DEF ResumeStatus
<1>3. CASE ResumeCheck(p)
  <2>1. CASE NoneUncertain /\ Goto(p, "want", [loc[p] EXCEPT !.goal = "running"])
    <3> DEFINE r == [loc[p] EXCEPT !.goal = "running"]
    <3>1. r.goal = "running" /\ r.cmd = loc[p].cmd
      BY <1>1 DEF Locals
    <3>2. loc[p].cmd # "run"
      BY <1>3, Relies DEF ResumeCheck, At, ClearedAt
    <3>3. Goto(p, "want", r)
      BY <2>1
    <3> HIDE DEF r
    <3>4. Owns("want", r)
      BY <2>1, <3>1, <3>2 DEF Owns
    <3> QED BY <1>3, <3>3, <3>4, SilentAlone DEF ResumeCheck
  <2> QED BY <1>3, <2>1, ReturnAlone DEF ResumeCheck, NoneUncertain
<1> QED BY <1>2, <1>3

-----------------------------------------------------------------------------
(* Reads of run_one.                                                       *)

\* In a runnable mission no step is uncertain.
LEMMA RunnableSettled ==
  ASSUME LifeInv, status \in Runnable
  PROVE  NoneUncertain
BY DEF LifeInv, StepInv, Runnable, NoneUncertain

\* The steps before the next one have an invocation.
LEMMA InvokedBefore ==
  ASSUME TypeOK, LifeInv, status \in Runnable, NoneRunning, NEW s \in Steps, NextStep(s)
  PROVE  \A t \in 1 .. s - 1 : inv[t] # "none"
<1> SUFFICES ASSUME NEW t \in 1 .. s - 1 PROVE inv[t] # "none"
  OBVIOUS
<1>1. t \in Steps
  BY ContractAssumption DEF Steps
<1>2. step[t] \in StepStatus \ {"pending", "running", "uncertain"}
  BY <1>1, RunnableSettled DEF TypeOK, NextStep, NoneRunning, NoneUncertain
<1>3. step[t] \in Undoable \cup {"rolled_back"}
  BY <1>2 DEF StepStatus, Undoable
<1> QED BY <1>1, <1>3 DEF LifeInv, StepInv

LEMMA RunStatusAlone ==
  ASSUME TypeOK, ConsentGuarded, OneProcess, MissionInv, NEW p \in Procs, RunStatus(p)
  PROVE  MissionInv'
<1>1. Owns("status", loc[p]) /\ loc[p] \in Locals
  BY Relies DEF RunStatus, At
<1> DEFINE r == [loc[p] EXCEPT !.seen = status]
<1>2. CASE status \in Runnable /\ Goto(p, "select", r)
  <2>1. r.seen = status
    BY <1>1 DEF Locals
  <2> HIDE DEF r
  <2>2. Owns("select", r)
    BY <1>1, <1>2, <2>1 DEF Owns
  <2> QED BY <1>2, <2>2, SilentAlone DEF RunStatus
<1> QED BY <1>2, ReturnAlone DEF RunStatus

LEMMA SelectStepAlone ==
  ASSUME TypeOK, ConsentGuarded, OneProcess, MissionInv, NEW p \in Procs, SelectStep(p)
  PROVE  MissionInv'
<1>1. Owns("select", loc[p]) /\ loc[p] \in Locals /\ LifeInv
  BY Relies DEF SelectStep, At
<1>2. CASE Goto(p, "finish", loc[p])
  <2>1. Owns("finish", loc[p])
    BY <1>1 DEF Owns
  <2> QED BY <1>2, <2>1, SilentAlone DEF SelectStep
<1>3. ASSUME NEW s \in Steps, NextStep(s), Goto(p, "budget", [loc[p] EXCEPT !.step = s])
      PROVE  MissionInv'
  <2> DEFINE r == [loc[p] EXCEPT !.step = s]
  <2>1. r.step = s /\ r.seen = loc[p].seen
    BY <1>1 DEF Locals
  <2>2. Goto(p, "budget", r)
    BY <1>3
  <2> HIDE DEF r
  <2>3. \A t \in 1 .. s - 1 : inv[t] # "none"
    BY <1>1, <1>3, InvokedBefore DEF Owns
  <2>4. Owns("budget", r)
    BY <1>1, <2>1, <2>3 DEF Owns
  <2> QED BY <2>2, <2>4, SilentAlone DEF SelectStep
<1>4. ASSUME NEW s \in Steps, Goto(p, "want", [loc[p] EXCEPT !.step = s, !.goal = "blocked"])
      PROVE  MissionInv'
  <2> DEFINE r == [loc[p] EXCEPT !.step = s, !.goal = "blocked"]
  <2>1. r.goal = "blocked"
    BY <1>1 DEF Locals
  <2>2. Goto(p, "want", r)
    BY <1>4
  <2> HIDE DEF r
  <2>3. Owns("want", r)
    BY <2>1 DEF Owns
  <2> QED BY <2>2, <2>3, SilentAlone DEF SelectStep
<1> QED BY <1>2, <1>3, <1>4, Zenon DEF SelectStep

LEMMA CheckBudgetAlone ==
  ASSUME TypeOK, ConsentGuarded, OneProcess, MissionInv, NEW p \in Procs, CheckBudget(p)
  PROVE  MissionInv'
<1>1. Owns("budget", loc[p]) /\ loc[p] \in Locals
  BY Relies DEF CheckBudget, At
<1>2. CASE Goto(p, "want", [loc[p] EXCEPT !.goal = "failed"])
  <2> DEFINE r == [loc[p] EXCEPT !.goal = "failed"]
  <2>1. r.goal = "failed"
    BY <1>1 DEF Locals
  <2>2. Goto(p, "want", r)
    BY <1>2
  <2> HIDE DEF r
  <2>3. Owns("want", r)
    BY <2>1 DEF Owns
  <2> QED BY <2>2, <2>3, SilentAlone DEF CheckBudget
<1>3. CASE ~OverBudget /\ Goto(p, "authority", loc[p])
  <2>1. Held = {s \in Steps : step[s] = "completed"}
    BY <1>1 DEF Owns, NoneRunning, Held
  <2>2. ~(Cardinality(Held) >= contract.budget)
    BY <1>3, <2>1 DEF OverBudget
  <2>3. \A i, j \in Nat : ~(i >= j) => i < j
    OBVIOUS
  <2>4. Cardinality(Held) < contract.budget
    BY <2>2, <2>3, HeldCount, Zenon
  <2>5. Owns("authority", loc[p])
    BY <1>1, <2>4 DEF Owns
  <2> QED BY <1>3, <2>5, SilentAlone DEF CheckBudget
<1> QED BY <1>2, <1>3, Zenon DEF CheckBudget

LEMMA CheckGatesAlone ==
  ASSUME TypeOK, ConsentGuarded, OneProcess, MissionInv, NEW p \in Procs,
         CheckAuthority(p) \/ CheckIrreversible(p)
  PROVE  MissionInv'
<1>1. /\ loc[p] \in Locals /\ LifeInv
      /\ Owns("authority", loc[p]) \/ Owns("irreversible", loc[p])
      /\ CheckIrreversible(p) => Owns("irreversible", loc[p])
      /\ UNCHANGED <<db, world>>
  BY Relies DEF CheckAuthority, CheckIrreversible, At
<1>2. /\ status \in Runnable /\ loc[p].seen = status /\ Cardinality(Held) < contract.budget
      /\ \A t \in 1 .. loc[p].step - 1 : inv[t] # "none"
  BY <1>1 DEF Owns
<1>3. ASSUME NEW g, g # Initial, Goto(p, "request", [loc[p] EXCEPT !.gate = g])
      PROVE  MissionInv'
  <2> DEFINE r == [loc[p] EXCEPT !.gate = g]
  <2>1. r.gate = g /\ r.seen = loc[p].seen
    BY <1>1 DEF Locals
  <2>2. Goto(p, "request", r)
    BY <1>3
  <2> HIDE DEF r
  <2>3. Owns("request", r)
    BY <1>2, <1>3, <2>1 DEF Owns
  <2> QED BY <1>1, <2>2, <2>3, SilentAlone
<1>4. CASE Goto(p, "irreversible", loc[p])
  <2>1. Owns("irreversible", loc[p])
    BY <1>1, <1>2 DEF Owns
  <2> QED BY <1>1, <1>4, <2>1, SilentAlone
<1>5. CASE Goto(p, "want", [loc[p] EXCEPT !.goal = "running"])
  <2> DEFINE r == [loc[p] EXCEPT !.goal = "running"]
  <2>1. r.goal = "running" /\ r.step = loc[p].step
    BY <1>1 DEF Locals
  <2>2. Goto(p, "want", r)
    BY <1>5
  <2> HIDE DEF r
  <2>3. NoneUncertain
    BY <1>1, <1>2, RunnableSettled
  <2>4. Owns("want", r)
    BY <1>2, <2>1, <2>3 DEF Owns
  <2> QED BY <1>1, <2>2, <2>4, SilentAlone
<1>6. CASE loc[p].seen # "authorized" /\ Goto(p, "claim", loc[p])
  <2>1. status = "running"
    BY <1>2, <1>6 DEF Runnable
  <2>2. Owns("claim", loc[p])
    BY <1>2, <2>1 DEF Owns
  <2> QED BY <1>1, <1>6, <2>2, SilentAlone
<1>7. \A k \in {"authority", "irreversible"} : <<k, loc[p].step>> # Initial
  BY DEF Initial
<1> QED BY <1>3, <1>4, <1>5, <1>6, <1>7, Zenon DEF CheckAuthority, CheckIrreversible

LEMMA FinishAlone ==
  ASSUME TypeOK, ConsentGuarded, OneProcess, MissionInv, NEW p \in Procs,
         Remaining(p) \/ Finish(p)
  PROVE  MissionInv'
<1>1. loc[p] \in Locals /\ LifeInv
  BY Relies
<1>2. CASE Remaining(p)
  <2>1. Owns("remaining", loc[p])
    BY <1>2, Relies DEF Remaining, At
  <2>2. Owns("finish", loc[p])
    BY <2>1 DEF Owns, Runnable
  <2> QED BY <1>2, <2>2, SilentAlone, ReturnAlone DEF Remaining
<1>3. CASE Finish(p)
  <2> DEFINE v == IF AllCompleted /\ contract.evidence THEN "completed" ELSE "blocked"
             r == [loc[p] EXCEPT !.goal = v]
  <2>1. r.goal = v
    BY <1>1 DEF Locals
  <2>2. Goto(p, "want", r) /\ UNCHANGED <<db, world>>
    BY <1>3 DEF Finish
  <2>3. /\ v \in {"completed", "blocked"}
        /\ v = "completed" => NoneUncertain /\ Proven
    BY <1>1 DEF AllCompleted, NoneUncertain, Proven, LifeInv, StepInv
  <2> HIDE DEF r, v
  <2>4. Owns("want", r)
    BY <2>1, <2>3 DEF Owns
  <2> QED BY <2>2, <2>4, SilentAlone
<1> QED BY <1>2, <1>3

-----------------------------------------------------------------------------
(* Steps that move the mission's status.                                   *)

LEMMA CreateAlone ==
  ASSUME TypeOK, OneProcess, MissionInv, Create
  PROVE  MissionInv'
<1>1. /\ status = "absent" /\ status' = "proposed"
      /\ UNCHANGED <<contract, step, inv, undo, requested, decisions, ran, undone, pc, loc>>
  BY DEF Create, Write, world
<1>2. LifeInv'
  BY <1>1 DEF MissionInv, LifeInv, StepInv, Held, Proven
<1>3. ASSUME NEW q \in Procs PROVE Owns(pc[q], loc[q])'
  <2>1. Owns(pc[q], loc[q])
    BY DEF MissionInv
  <2>2. ~Allowed(status, loc[q].goal)
    BY <1>1 DEF Allowed, TRANSITIONS
  <2> QED BY <1>1, <2>1, <2>2 DEF Owns, Held, NoneUncertain, NoneRunning, Proven, Runnable
<1> QED BY <1>2, <1>3 DEF MissionInv

LEMMA TransitionAlone ==
  ASSUME TypeOK, ConsentGuarded, OneProcess, MissionInv, NEW p \in Procs, Transition(p)
  PROVE  MissionInv'
<1>1. /\ Owns("transition", loc[p]) /\ LifeInv /\ loc[p].goal \in Targets
      /\ status' = loc[p].goal
      /\ UNCHANGED <<contract, step, inv, undo, requested, decisions, ran, undone>>
  BY Relies DEF Transition, At, ClearedAt, Write, world
<1>2. LifeInv'
  BY <1>1 DEF Owns, LifeInv, StepInv, Held, Proven, NoneUncertain, Targets
<1>3. CASE loc[p].cmd = "run" /\ loc[p].goal = "running" /\ Goto(p, "claim", loc[p])
  <2>1. pc'[p] = "claim" /\ loc'[p] = loc[p]
    BY <1>3, GotoEffect
  <2>2. Owns(pc[p], loc[p])'
    BY <1>1, <1>3, <2>1 DEF Owns, Held
  <2> QED BY <1>2, <2>2, AloneStep
<1>4. CASE Return(p)
  BY <1>2, <1>4, RestOwns, AloneStep DEF Return
<1> QED BY <1>3, <1>4 DEF Transition

LEMMA DecisionsAlone ==
  ASSUME TypeOK, ConsentGuarded, OneProcess, MissionInv, NEW p \in Procs,
         AuthorizeCommit(p) \/ DecideCommit(p)
  PROVE  MissionInv'
<1>1. /\ LifeInv /\ Return(p)
      /\ UNCHANGED <<contract, step, inv, undo, requested, ran, undone>>
  BY Relies DEF AuthorizeCommit, DecideCommit, world
<1>2. \/ UNCHANGED <<status, decisions>>
      \/ status = "proposed" /\ status' = "authorized"
      \/ status = "awaiting_approval" /\ status' \in {"running", "failed"}
  <2>1. CASE AuthorizeCommit(p)
    <3>1. status = "proposed"
      BY <2>1, Relies DEF AuthorizeCommit, At, Owns
    <3> QED BY <2>1, <3>1 DEF AuthorizeCommit, Write
  <2>2. CASE DecideCommit(p)
    <3>1. status = "awaiting_approval"
      BY <2>2, Relies DEF DecideCommit, At, Owns
    <3> QED BY <2>2, <3>1 DEF DecideCommit, Write
  <2> QED BY <2>1, <2>2
<1>3. LifeInv'
  BY <1>1, <1>2 DEF LifeInv, StepInv, Held, Proven
<1> QED BY <1>1, <1>3, RestOwns, AloneStep DEF Return

\* recover settles exactly the steps that were running.
LEMMA RecoverAlone ==
  ASSUME TypeOK, ConsentGuarded, OneProcess, MissionInv, NEW p \in Procs, Recover(p)
  PROVE  MissionInv'
<1>1. /\ Owns("recover", loc[p]) /\ LifeInv /\ status \in {"running", "blocked", "authorized"}
      /\ loc[p].list = {s \in Steps : step[s] = "running"}
      /\ loc[p].found = inv[loc[p].step]
      /\ UNCHANGED <<contract, inv, undo, requested, decisions, ran, undone>>
  BY Relies DEF Recover, At, world, Owns
<1>2. \A s \in Steps : step'[s] = IF step[s] = "running" THEN Settled(s, inv[s]) ELSE step[s]
  BY <1>1 DEF Recover
<1>3. \A s \in Steps :
        step[s] = "running" =>
          \/ step'[s] = "completed" /\ inv[s] = "success"
          \/ step'[s] = "failed" /\ inv[s] = "failure"
          \/ step'[s] \in {"uncertain", "pending"} /\ inv[s] = "none"
  BY <1>2 DEF Settled, TypeOK, Outcomes
<1>4. Held' \subseteq Held
  BY <1>2 DEF Held
<1>5. NoneRunning'
  BY <1>2, <1>3 DEF NoneRunning
<1>6. /\ status' \in {status, "failed", "blocked"}
      /\ (\E s \in Steps : step[s] = "running" /\ step'[s] = "uncertain") =>
           status' \in {"failed", "blocked"}
  <2> DEFINE found(s) == IF s = loc[p].step THEN loc[p].found ELSE inv[s]
             recovered(v) == \E s \in loc[p].list : Settled(s, found(s)) = v
  <2>1. \A s \in Steps : found(s) = inv[s]
    BY <1>1
  <2>2. (\E s \in Steps : step[s] = "running" /\ step'[s] = "uncertain") =>
          recovered("uncertain") /\ status # "authorized"
    BY <1>1, <1>2, <2>1 DEF LifeInv
  <2>3. CASE recovered("failed")
    <3>1. Write(status, "failed")
      BY <1>1, <2>3 DEF Recover
    <3> QED BY <3>1 DEF Write
  <2>4. CASE ~recovered("failed") /\ recovered("uncertain") /\ status = "running"
    <3>1. Write(status, "blocked")
      BY <2>4 DEF Recover
    <3> QED BY <3>1 DEF Write
  <2>5. CASE ~recovered("failed") /\ ~(recovered("uncertain") /\ status = "running")
    <3>1. status' = status
      BY <2>5 DEF Recover
    <3> QED BY <1>1, <2>2, <2>5, <3>1
  <2> QED BY <2>3, <2>4, <2>5
<1>7. \A s \in Steps : StepInv(s)'
  <2> SUFFICES ASSUME NEW s \in Steps PROVE StepInv(s)'
    OBVIOUS
  <2>1. StepInv(s)
    BY <1>1 DEF LifeInv
  <2>2. CASE step[s] = "running"
    BY <1>1, <1>3, <1>6, <2>1, <2>2 DEF StepInv, Undoable
  <2>3. CASE step[s] # "running"
    BY <1>1, <1>2, <1>6, <2>1, <2>3 DEF StepInv
  <2> QED BY <2>2, <2>3
<1>8. status' \in {"absent", "proposed", "authorized"} => \A s \in Steps : step'[s] = "pending"
  BY <1>1, <1>2, <1>6 DEF LifeInv
<1>9. LifeInv'
  BY <1>1, <1>4, <1>6, <1>7, <1>8, HeldShrinks DEF LifeInv
<1>10. Owns(pc[p], loc[p])'
  BY <1>5, AfterRecoverOwns DEF Recover
<1> QED BY <1>9, <1>10, AloneStep

-----------------------------------------------------------------------------
(* Steps that write a step, an approval or an invocation, or run a handler. *)

LEMMA RequestAlone ==
  ASSUME TypeOK, ConsentGuarded, OneProcess, MissionInv, NEW p \in Procs, Request(p)
  PROVE  MissionInv'
<1>1. /\ Owns("request", loc[p]) /\ LifeInv /\ loc[p] \in Locals
      /\ UNCHANGED <<contract, status, step, inv, undo, decisions, ran, undone>>
      /\ requested' = requested \cup {loc[p].gate}
  BY Relies DEF Request, At, world
<1>2. LifeInv'
  BY <1>1 DEF LifeInv, StepInv, Held, Proven, Owns
<1> DEFINE r == [loc[p] EXCEPT !.goal = "awaiting_approval"]
<1>3. r.goal = "awaiting_approval"
  BY <1>1 DEF Locals
<1>4. Goto(p, "want", r)
  BY DEF Request
<1> HIDE DEF r
<1>5. NoneUncertain'
  BY <1>1, RunnableSettled DEF Owns, NoneUncertain
<1>6. Owns(pc[p], loc[p])'
  BY <1>3, <1>4, <1>5, WantOwns
<1> QED BY <1>2, <1>6, AloneStep

LEMMA ClaimAlone ==
  ASSUME TypeOK, ConsentGuarded, OneProcess, MissionInv, NEW p \in Procs, Claim(p)
  PROVE  MissionInv'
<1>1. /\ Owns("claim", loc[p]) /\ LifeInv /\ loc[p].step \in Steps
      /\ UNCHANGED <<contract, status, inv, undo, requested, decisions, ran, undone>>
  BY Relies DEF Claim, At, world
<1> DEFINE s == loc[p].step
<1>2. CASE Claimable(s)
  <2>1. /\ step[s] = "pending" /\ step' = [step EXCEPT ![s] = "running"]
        /\ Goto(p, "dispatch", loc[p])
    BY <1>2 DEF Claim, Claimable
  <2>2. Held' = Held \cup {s} /\ s \notin Held
    BY <1>1, <2>1 DEF Held, TypeOK
  <2>3. Cardinality(Held') = Cardinality(Held) + 1
    BY <2>2, HeldCount, FS_AddElement
  <2>4. \A i, j \in Nat : i < j => i + 1 <= j
    OBVIOUS
  <2>5. Cardinality(Held') <= contract'.budget
    BY <1>1, <2>3, <2>4, HeldCount DEF Owns
  <2>6. \A t \in Steps : StepInv(t)'
    BY <1>1, <2>1 DEF LifeInv, StepInv, TypeOK, Undoable
  <2>7. LifeInv'
    BY <1>1, <2>5, <2>6 DEF LifeInv, Owns
  <2>8. pc'[p] = "dispatch" /\ loc'[p] = loc[p]
    BY <2>1, GotoEffect
  <2>9. Owns(pc[p], loc[p])'
    <3>1. inv[s] = "none" /\ step'[s] = "running" /\ status' = "running"
      BY <1>1, <2>1 DEF LifeInv, StepInv, Owns, TypeOK
    <3> QED BY <1>1, <2>8, <3>1 DEF Owns
  <2> QED BY <2>7, <2>9, AloneStep
<1>3. CASE ~Claimable(s)
  <2>1. step' = step /\ Return(p)
    BY <1>3 DEF Claim
  <2>2. LifeInv'
    BY <1>1, <2>1 DEF LifeInv, StepInv, Held, Proven
  <2> QED BY <2>1, <2>2, RestOwns, AloneStep DEF Return
<1> QED BY <1>2, <1>3

LEMMA DispatchAlone ==
  ASSUME TypeOK, ConsentGuarded, OneProcess, MissionInv, NEW p \in Procs, Dispatch(p)
  PROVE  MissionInv'
<1>1. /\ Owns("dispatch", loc[p]) /\ LifeInv /\ loc[p] \in Locals /\ loc[p].step \in Steps
      /\ UNCHANGED <<contract, status, step, inv, undo, requested, decisions, undone>>
  BY Relies DEF Dispatch, At, db
<1>2. LifeInv'
  BY <1>1 DEF LifeInv, StepInv, Held, Proven
<1>3. PICK o \in {"success", "failure"} :
        /\ Goto(p, "record", [loc[p] EXCEPT !.found = o])
        /\ o = "success" => ran' = [ran EXCEPT ![loc[p].step] = Tick(@)]
  BY Zenon DEF Dispatch
<1> DEFINE r == [loc[p] EXCEPT !.found = o]
<1>4. r.found = o /\ r.step = loc[p].step
  BY <1>1 DEF Locals
<1>5. Goto(p, "record", r)
  BY <1>3
<1> HIDE DEF r
<1>6. pc'[p] = "record" /\ loc'[p].found = o /\ loc'[p].step = loc[p].step
  BY <1>4, <1>5, GotoEffect
<1>7. o = "success" => ran'[loc[p].step] > 0
  BY <1>1, <1>3 DEF Tick, TypeOK
<1>8. Owns(pc[p], loc[p])'
  BY <1>1, <1>6, <1>7 DEF Owns
<1> QED BY <1>2, <1>8, AloneStep

LEMMA RecordAlone ==
  ASSUME TypeOK, ConsentGuarded, OneProcess, MissionInv, NEW p \in Procs, Record(p)
  PROVE  MissionInv'
<1>1. /\ Owns("record", loc[p]) /\ LifeInv /\ loc[p].step \in Steps
      /\ UNCHANGED <<contract, status, step, undo, requested, decisions, ran, undone>>
      /\ inv' = [inv EXCEPT ![loc[p].step] = loc[p].found]
      /\ Goto(p, "store", loc[p])
  BY Relies DEF Record, At, world
<1>2. /\ inv'[loc[p].step] = loc[p].found /\ step[loc[p].step] = "running"
      /\ loc[p].found # "none" /\ status = "running"
      /\ \A s \in Steps : s # loc[p].step => inv'[s] = inv[s]
  BY <1>1 DEF TypeOK, Owns
<1>3. \A s \in Steps : StepInv(s)'
  BY <1>1, <1>2 DEF LifeInv, StepInv, Undoable
<1>4. LifeInv'
  BY <1>1, <1>2, <1>3 DEF LifeInv, Held
<1>5. pc'[p] = "store" /\ loc'[p] = loc[p]
  BY <1>1, GotoEffect
<1>6. Owns(pc[p], loc[p])'
  BY <1>1, <1>2, <1>5 DEF Owns
<1> QED BY <1>4, <1>6, AloneStep

LEMMA StoreResultAlone ==
  ASSUME TypeOK, ConsentGuarded, OneProcess, MissionInv, NEW p \in Procs, StoreResult(p)
  PROVE  MissionInv'
<1> DEFINE s == loc[p].step
           v == IF loc[p].found = "success" THEN "completed" ELSE "failed"
<1>1. /\ Owns("store", loc[p]) /\ LifeInv /\ s \in Steps /\ loc[p] \in Locals
      /\ UNCHANGED <<contract, status, inv, undo, requested, decisions, ran, undone>>
      /\ step' = [step EXCEPT ![s] = v]
  BY Relies DEF StoreResult, At, world
<1>2. /\ step'[s] = v /\ step[s] = "running" /\ status = "running" /\ inv[s] # "none"
      /\ v = "completed" => inv[s] = "success"
      /\ v \in {"completed", "failed"}
      /\ \A t \in Steps : t # s => step'[t] = step[t]
  BY <1>1 DEF TypeOK, Owns
<1>3. Held' \subseteq Held
  BY <1>1, <1>2 DEF Held
<1>4. \A t \in Steps : StepInv(t)'
  BY <1>1, <1>2 DEF LifeInv, StepInv, Undoable
<1>5. LifeInv'
  BY <1>1, <1>2, <1>3, <1>4, HeldShrinks DEF LifeInv
<1>6. CASE Goto(p, "remaining", loc[p])
  <2>1. pc'[p] = "remaining"
    BY <1>6, GotoEffect
  <2>2. Owns(pc[p], loc[p])'
    BY <1>1, <1>2, <2>1 DEF Owns
  <2> QED BY <1>5, <2>2, AloneStep
<1>7. CASE Goto(p, "want", [loc[p] EXCEPT !.goal = "failed"])
  <2> DEFINE r == [loc[p] EXCEPT !.goal = "failed"]
  <2>1. r.goal = "failed" /\ Goto(p, "want", r)
    BY <1>1, <1>7 DEF Locals
  <2> HIDE DEF r
  <2>2. Owns(pc[p], loc[p])'
    BY <2>1, WantOwns
  <2> QED BY <1>5, <2>2, AloneStep
<1> QED BY <1>6, <1>7 DEF StoreResult

-----------------------------------------------------------------------------
(* rollback.                                                               *)

\* The loop goes on with one step struck off its list.
LEMMA ReportedFields ==
  ASSUME NEW r \in Locals, NEW s, NEW bad
  PROVE  /\ Reported(r, s, bad).list = r.list \ {s}
         /\ Reported(r, s, bad).clean = (r.clean /\ ~bad)
         /\ Reported(r, s, bad).half = r.half
BY DEF Reported, Locals

\* The same for a step that failed to roll back, and for one rolled back.
LEMMA ReportedBad ==
  ASSUME NEW r \in Locals, NEW s
  PROVE  /\ Reported(r, s, TRUE).list = r.list \ {s}
         /\ ~Reported(r, s, TRUE).clean
         /\ Reported(r, s, TRUE).half = r.half
BY DEF Reported, Locals

LEMMA ReportedDone ==
  ASSUME NEW r \in Locals, NEW s
  PROVE  /\ Reported(r, s, FALSE).list = r.list \ {s}
         /\ Reported(r, s, FALSE).clean = r.clean
         /\ Reported(r, s, FALSE).half = r.half
BY DEF Reported, Locals

LEMMA RollbackStepsAlone ==
  ASSUME TypeOK, ConsentGuarded, OneProcess, MissionInv, NEW p \in Procs, RollbackSteps(p)
  PROVE  MissionInv'
<1>1. Owns("rollback_steps", loc[p]) /\ loc[p] \in Locals
  BY Relies DEF RollbackSteps, At
<1> DEFINE r == [loc[p] EXCEPT !.list = {s \in Steps : step[s] \in Undoable},
                               !.half = {s \in Steps : step[s] = "rollback_running"}]
<1>2. /\ r.list = {s \in Steps : step[s] \in Undoable}
      /\ r.half = {s \in Steps : step[s] = "rollback_running"}
  BY <1>1 DEF Locals
<1>3. Goto(p, "undo", r) /\ UNCHANGED <<db, world>>
  BY DEF RollbackSteps
<1> HIDE DEF r
<1>4. Owns("undo", r)
  BY <1>1, <1>2, EffectsAreSteps DEF Owns
<1> QED BY <1>3, <1>4, SilentAlone

LEMMA UndoNextAlone ==
  ASSUME TypeOK, ConsentGuarded, OneProcess, MissionInv, NEW p \in Procs, UndoNext(p)
  PROVE  MissionInv'
<1>1. /\ Owns("undo", loc[p]) /\ loc[p] \in Locals /\ LifeInv
      /\ UNCHANGED <<db, world>>
  BY Relies DEF UndoNext, At
<1>2. PICK s \in loc[p].list : UndoStep(p, s)
  BY Zenon DEF UndoNext
<1>3. s \in Steps
  BY <1>1 DEF Locals
<1>4. ASSUME NEW bad, bad \/ s \notin contract.effects,
             Goto(p, "undo", Reported(loc[p], s, bad))
      PROVE  MissionInv'
  <2> DEFINE r == Reported(loc[p], s, bad)
  <2>1. r.list = loc[p].list \ {s} /\ r.clean = (loc[p].clean /\ ~bad) /\ r.half = loc[p].half
    BY <1>1, ReportedFields
  <2>2. Goto(p, "undo", r)
    BY <1>4
  <2> HIDE DEF r
  <2>3. Owns("undo", r)
    BY <1>1, <1>4, <2>1 DEF Owns
  <2> QED BY <1>1, <2>2, <2>3, SilentAlone
<1> DEFINE r == [loc[p] EXCEPT !.step = s]
<1>5. /\ r.step = s /\ r.list = loc[p].list /\ r.clean = loc[p].clean /\ r.half = loc[p].half
  BY <1>1 DEF Locals
<1>6. CASE undo[s] = "success" /\ Goto(p, "undo_done", r)
  <2> HIDE DEF r
  <2>1. Owns("undo_done", r)
    BY <1>1, <1>5, <1>6 DEF Owns
  <2> QED BY <1>1, <1>6, <2>1, SilentAlone
<1>7. CASE undo[s] = "none" /\ ~UncertainUndo(s, loc[p].half) /\ Goto(p, "undo_mark", r)
  <2>1. contract.rollback[s] = "effect" => undone[s] = 0
    <3>1. contract.rollback[s] = "effect" => step[s] # "rollback_running"
      BY <1>1, <1>7 DEF Owns, UncertainUndo
    <3>2. StepInv(s) /\ undone[s] \in 0 .. 2
      BY <1>1, <1>3 DEF LifeInv, TypeOK
    <3> QED BY <1>7, <3>1, <3>2 DEF StepInv
  <2> HIDE DEF r
  <2>2. Owns("undo_mark", r)
    BY <1>1, <1>5, <1>7, <2>1 DEF Owns
  <2> QED BY <1>1, <1>7, <2>2, SilentAlone
<1>8. \/ Goto(p, "undo", Reported(loc[p], s, s \in contract.effects))
      \/ Goto(p, "undo", Reported(loc[p], s, TRUE))
      \/ undo[s] = "success" /\ Goto(p, "undo_done", r)
      \/ undo[s] = "none" /\ ~UncertainUndo(s, loc[p].half) /\ Goto(p, "undo_mark", r)
  BY <1>2, Zenon DEF UndoStep
<1> QED BY <1>4, <1>6, <1>7, <1>8

LEMMA UndoEndAlone ==
  ASSUME TypeOK, ConsentGuarded, OneProcess, MissionInv, NEW p \in Procs, UndoEnd(p)
  PROVE  MissionInv'
<1>1. Owns("undo", loc[p]) /\ loc[p] \in Locals
  BY Relies DEF UndoEnd, At
<1> DEFINE r == [loc[p] EXCEPT !.goal = "rolled_back"]
<1>2. CASE loc[p].clean /\ Goto(p, "want", r)
  <2>1. r.goal = "rolled_back"
    BY <1>1 DEF Locals
  <2> HIDE DEF r
  <2>2. \A s \in contract.effects : step[s] \notin Undoable
    BY <1>1, <1>2 DEF Owns, UndoEnd
  <2>3. Owns("want", r)
    BY <2>1, <2>2 DEF Owns
  <2> QED BY <1>2, <2>3, SilentAlone DEF UndoEnd
<1> QED BY <1>2, ReturnAlone DEF UndoEnd

LEMMA UndoMarkAlone ==
  ASSUME TypeOK, ConsentGuarded, OneProcess, MissionInv, NEW p \in Procs, UndoMark(p)
  PROVE  MissionInv'
<1> DEFINE s == loc[p].step
<1>1. /\ Owns("undo_mark", loc[p]) /\ LifeInv /\ s \in Steps /\ loc[p] \in Locals
      /\ UNCHANGED <<contract, status, inv, undo, requested, decisions, ran, undone>>
      /\ step' = [step EXCEPT ![s] = "rollback_running"]
      /\ Goto(p, "undo_dispatch", loc[p])
  BY Relies DEF UndoMark, At, world
<1>2. /\ step'[s] = "rollback_running" /\ step[s] \in Undoable
      /\ contract.rollback[s] = "effect" => undone[s] = 0
      /\ status \in {"completed", "failed", "cancelled", "blocked"}
      /\ \A t \in Steps : t # s => step'[t] = step[t]
  BY <1>1 DEF TypeOK, Owns
<1>3. Held' \subseteq Held
  BY <1>1, <1>2 DEF Held
<1>4. \A t \in Steps : StepInv(t)'
  BY <1>1, <1>2 DEF LifeInv, StepInv, Undoable
<1>5. LifeInv'
  BY <1>1, <1>2, <1>3, <1>4, HeldShrinks DEF LifeInv, Proven
<1>6. pc'[p] = "undo_dispatch" /\ loc'[p] = loc[p]
  BY <1>1, GotoEffect
<1>7. Owns(pc[p], loc[p])'
  <2>1. loc[p].list \subseteq Steps /\ contract.effects \subseteq Steps
    BY <1>1, EffectsAreSteps DEF Locals
  <2> QED BY <1>1, <1>2, <1>6, <2>1 DEF Owns, Undoable
<1> QED BY <1>5, <1>7, AloneStep

LEMMA UndoDispatchAlone ==
  ASSUME TypeOK, ConsentGuarded, OneProcess, MissionInv, NEW p \in Procs, UndoDispatch(p)
  PROVE  MissionInv'
<1> DEFINE s == loc[p].step
<1>1. /\ Owns("undo_dispatch", loc[p]) /\ LifeInv /\ s \in Steps /\ loc[p] \in Locals
      /\ UNCHANGED <<contract, status, step, inv, undo, requested, decisions, ran>>
      /\ undone' = undone \/ undone' = [undone EXCEPT ![s] = Tick(@)]
  BY Relies DEF UndoDispatch, At, db
<1>2. /\ step[s] = "rollback_running"
      /\ contract.rollback[s] = "effect" => undone'[s] \in {0, 1}
      /\ \A t \in Steps : t # s => undone'[t] = undone[t]
  BY <1>1 DEF TypeOK, Owns, Tick
<1>3. \A t \in Steps : StepInv(t)'
  BY <1>1, <1>2 DEF LifeInv, StepInv
<1>4. LifeInv'
  BY <1>1, <1>3 DEF LifeInv, Held, Proven
<1>5. PICK o \in {"success", "failure"} : Goto(p, "undo_record", [loc[p] EXCEPT !.found = o])
  BY Zenon DEF UndoDispatch
<1> DEFINE r == [loc[p] EXCEPT !.found = o]
<1>6. /\ r.step = s /\ r.list = loc[p].list /\ r.clean = loc[p].clean /\ r.half = loc[p].half
      /\ Goto(p, "undo_record", r)
  BY <1>1, <1>5 DEF Locals
<1> HIDE DEF r
<1>7. /\ pc'[p] = "undo_record" /\ loc'[p] = r
  BY <1>6, GotoEffect
<1>8. Owns(pc[p], loc[p])'
  BY <1>1, <1>6, <1>7 DEF Owns
<1> QED BY <1>4, <1>8, AloneStep

LEMMA UndoRecordAlone ==
  ASSUME TypeOK, ConsentGuarded, OneProcess, MissionInv, NEW p \in Procs, UndoRecord(p)
  PROVE  MissionInv'
<1> DEFINE s == loc[p].step
<1>1. /\ Owns("undo_record", loc[p]) /\ LifeInv /\ s \in Steps /\ loc[p] \in Locals
      /\ UNCHANGED <<contract, status, step, inv, requested, decisions, ran, undone>>
      /\ undo' = [undo EXCEPT ![s] = loc[p].found]
  BY Relies DEF UndoRecord, At, world
<1>2. /\ step[s] = "rollback_running" /\ undo'[s] = loc[p].found
      /\ \A t \in Steps : t # s => undo'[t] = undo[t]
  BY <1>1 DEF TypeOK, Owns
<1>3. \A t \in Steps : StepInv(t)'
  BY <1>1, <1>2 DEF LifeInv, StepInv
<1>4. LifeInv'
  BY <1>1, <1>3 DEF LifeInv, Held, Proven
<1>5. CASE loc[p].found = "success" /\ Goto(p, "undo_done", loc[p])
  <2>1. pc'[p] = "undo_done" /\ loc'[p] = loc[p]
    BY <1>5, GotoEffect
  <2>2. Owns(pc[p], loc[p])'
    BY <1>1, <1>2, <1>5, <2>1 DEF Owns
  <2> QED BY <1>4, <2>2, AloneStep
<1>6. CASE Goto(p, "undo", Reported(loc[p], s, TRUE))
  <2> DEFINE r == Reported(loc[p], s, TRUE)
  <2>1. r.list = loc[p].list \ {s} /\ ~r.clean /\ r.half = loc[p].half
    BY <1>1, ReportedBad, Zenon
  <2> HIDE DEF r
  <2>2. pc'[p] = "undo" /\ loc'[p] = r
    BY <1>6, GotoEffect DEF r
  <2>3. Owns(pc[p], loc[p])'
    BY <1>1, <2>1, <2>2 DEF Owns
  <2> QED BY <1>4, <2>3, AloneStep
<1> QED BY <1>5, <1>6 DEF UndoRecord

LEMMA UndoDoneAlone ==
  ASSUME TypeOK, ConsentGuarded, OneProcess, MissionInv, NEW p \in Procs, UndoDone(p)
  PROVE  MissionInv'
<1> DEFINE s == loc[p].step
<1>1. /\ Owns("undo_done", loc[p]) /\ LifeInv /\ s \in Steps /\ loc[p] \in Locals
      /\ UNCHANGED <<contract, status, inv, undo, requested, decisions, ran, undone>>
      /\ step' = [step EXCEPT ![s] = "rolled_back"]
      /\ Goto(p, "undo", Reported(loc[p], s, FALSE))
  BY Relies DEF UndoDone, At, world
<1>2. /\ step'[s] = "rolled_back" /\ step[s] \in Undoable /\ undo[s] = "success"
      /\ status \in {"completed", "failed", "cancelled", "blocked"}
      /\ \A t \in Steps : t # s => step'[t] = step[t]
  BY <1>1 DEF TypeOK, Owns
<1>3. Held' \subseteq Held
  BY <1>1, <1>2 DEF Held
<1>4. \A t \in Steps : StepInv(t)'
  BY <1>1, <1>2 DEF LifeInv, StepInv, Undoable
<1>5. LifeInv'
  BY <1>1, <1>2, <1>3, <1>4, HeldShrinks DEF LifeInv, Proven
<1> DEFINE r == Reported(loc[p], s, FALSE)
<1>6. r.list = loc[p].list \ {s} /\ r.clean = loc[p].clean /\ r.half = loc[p].half
  BY <1>1, ReportedDone, Zenon
<1> HIDE DEF r
<1>7. pc'[p] = "undo" /\ loc'[p] = r
  BY <1>1, GotoEffect DEF r
<1>8. Owns(pc[p], loc[p])'
  <2>1. loc[p].list \subseteq Steps /\ contract.effects \subseteq Steps
    BY <1>1, EffectsAreSteps DEF Locals
  <2> QED BY <1>1, <1>2, <1>6, <1>7, <2>1 DEF Owns, Undoable
<1> QED BY <1>5, <1>8, AloneStep

-----------------------------------------------------------------------------
(* The invariant.                                                          *)

LEMMA InitMission == Init => MissionInv
<1> SUFFICES ASSUME Init PROVE MissionInv
  OBVIOUS
<1>1. contract \in ContractType /\ contract.budget \in Nat
  BY ContractAssumption DEF Init, ContractType
<1>2. Held = {}
  BY DEF Init, Held
<1>3. Cardinality(Held) = 0
  BY <1>2, FS_EmptySet
<1>4. \A s \in Steps : StepInv(s)
  BY DEF Init, StepInv, Undoable
<1>5. LifeInv
  BY <1>1, <1>3, <1>4 DEF LifeInv, Init, Gates
<1>6. \A p \in Procs : Owns(pc[p], loc[p])
  BY DEF Init, Owns
<1> QED BY <1>5, <1>6 DEF MissionInv

LEMMA NextMission ==
  ASSUME OneProcess, TypeOK, ConsentGuarded, MissionInv, [Next]_vars
  PROVE  MissionInv'
<1>1. CASE Create
  BY <1>1, CreateAlone
<1>2. ASSUME NEW p \in Procs, Command(p) PROVE MissionInv'
  BY <1>2, BeginsAlone
<1>3. ASSUME NEW p \in Procs, Work(p) PROVE MissionInv'
  BY <1>3, WantAlone, TransitionAlone, DecisionsAlone, RunningStepsAlone, LookupAlone,
     RecoverAlone, ResumeAlone, RunStatusAlone, SelectStepAlone, CheckBudgetAlone,
     CheckGatesAlone, RequestAlone, ClaimAlone, DispatchAlone, RecordAlone,
     StoreResultAlone, FinishAlone, RollbackStepsAlone, UndoNextAlone, UndoEndAlone,
     UndoMarkAlone, UndoDispatchAlone, UndoRecordAlone, UndoDoneAlone, Zenon DEF Work
<1>4. ASSUME NEW p \in Procs, Crash(p) PROVE MissionInv'
  BY <1>4, ReturnAlone DEF Crash
<1>5. CASE UNCHANGED vars
  BY <1>5 DEF vars, db, world, MissionInv, LifeInv, StepInv, Owns, Held, NoneRunning,
     NoneUncertain, Proven, Undecided
<1> QED BY <1>1, <1>2, <1>3, <1>4, <1>5 DEF Next

LEMMA MissionInvariant ==
  ASSUME OneProcess
  PROVE  Spec => [](TypeOK /\ ConsentGuarded /\ EffectGuarded /\ MissionInv)
<1>1. TypeOK /\ ConsentGuarded /\ MissionInv /\ [Next]_vars => MissionInv'
  BY NextMission
<1> QED BY <1>1, InitType, NextType, InitConsent, NextConsent, InitEffects, NextEffects,
           InitMission, PTL DEF Spec

-----------------------------------------------------------------------------
(* What it gives.                                                          *)

\* However often its process dies, a mission completes at most max_steps steps:
\* a step that recover may complete later was counted when it was claimed.
THEOREM BudgetIsKept ==
  ASSUME OneProcess
  PROVE  Spec => []BudgetRespected
<1>1. TypeOK /\ MissionInv => BudgetRespected
  <2> SUFFICES ASSUME TypeOK, MissionInv PROVE BudgetRespected
    OBVIOUS
  <2> DEFINE C == {s \in Steps : step[s] = "completed"}
  <2>1. C \in SUBSET Held
    BY DEF Held
  <2>2. IsFiniteSet(C) /\ Cardinality(C) <= Cardinality(Held)
    BY <2>1, HeldCount
  <2>3. Cardinality(C) \in Nat /\ Cardinality(Held) <= contract.budget
    BY <2>2, FS_CardinalityType DEF MissionInv, LifeInv
  <2>4. \A i, j, k \in Nat : i <= j /\ j <= k => i <= k
    OBVIOUS
  <2> QED BY <2>2, <2>3, <2>4, HeldCount, Zenon DEF BudgetRespected
<1> QED BY <1>1, MissionInvariant, PTL

\* A mission is completed only with a committed success of every step and the
\* evidence that its contract requires.
THEOREM CompletionIsProven ==
  ASSUME OneProcess
  PROVE  Spec => []CompletedIsProven
<1>1. MissionInv => CompletedIsProven
  BY DEF MissionInv, LifeInv, Proven, CompletedIsProven
<1> QED BY <1>1, MissionInvariant, PTL

\* A rollback with side effects is not tried again, even after it was
\* interrupted between its handler and the record of its outcome.
THEOREM RollbacksRunOnce ==
  ASSUME OneProcess
  PROVE  Spec => []UndoneAtMostOnce
<1>1. TypeOK /\ MissionInv => UndoneAtMostOnce
  BY DEF TypeOK, MissionInv, LifeInv, StepInv, UndoneAtMostOnce
<1> QED BY <1>1, MissionInvariant, PTL

\* What is called rolled back was rolled back, step by step.
THEOREM RollbackIsComplete ==
  ASSUME OneProcess
  PROVE  Spec => []RolledBackIsComplete
<1>1. TypeOK /\ MissionInv => RolledBackIsComplete
  <2> SUFFICES ASSUME TypeOK, MissionInv, status = "rolled_back", NEW s \in contract.effects
               PROVE  \/ step[s] \in {"pending", "running", "uncertain"}
                      \/ step[s] = "rolled_back" /\ undo[s] = "success"
    BY DEF RolledBackIsComplete
  <2>1. s \in Steps
    BY EffectsAreSteps
  <2>2. StepInv(s) /\ step[s] \in StepStatus /\ step[s] \notin Undoable
    BY <2>1 DEF TypeOK, MissionInv, LifeInv
  <2> QED BY <2>2 DEF StepInv, StepStatus, Undoable
<1> QED BY <1>1, MissionInvariant, PTL

\* How the status may change.
LEMMA StatusSteps ==
  ASSUME TypeOK, ConsentGuarded, MissionInv, [Next]_vars
  PROVE  \/ UNCHANGED <<status, trail>>
         \/ status = "absent"
         \/ <<status, status'>> \in TRANSITIONS /\ trail' = [from |-> status, to |-> status']
<1>1. CASE Create \/ UNCHANGED vars
  BY <1>1 DEF Create, vars, db
<1>2. ASSUME NEW p \in Procs, Transition(p)
      PROVE  <<status, status'>> \in TRANSITIONS /\ trail' = [from |-> status, to |-> status']
  <2>1. Owns("transition", loc[p])
    BY <1>2, Relies DEF Transition, At
  <2> QED BY <1>2, <2>1 DEF Owns, Transition, Write, Allowed
<1>3. ASSUME NEW p \in Procs, AuthorizeCommit(p) \/ DecideCommit(p)
      PROVE  \/ UNCHANGED <<status, trail>>
             \/ <<status, status'>> \in TRANSITIONS /\ trail' = [from |-> status, to |-> status']
  BY <1>3 DEF AuthorizeCommit, DecideCommit, Write, Allowed
<1>4. ASSUME NEW p \in Procs, Recover(p)
      PROVE  \/ UNCHANGED <<status, trail>>
             \/ <<status, status'>> \in TRANSITIONS /\ trail' = [from |-> status, to |-> status']
  <2>1. \/ status \in {"authorized", "running", "blocked"} /\ Write(status, "failed")
        \/ status = "running" /\ Write(status, "blocked")
        \/ UNCHANGED <<status, trail>>
    BY <1>4, Zenon DEF Recover
  <2> QED BY <2>1 DEF Write, TRANSITIONS
<1>5. ASSUME NEW p \in Procs, Silent(p)
      PROVE  UNCHANGED <<status, trail>>
  BY <1>5, SilentMoves DEF db
<1>6. ASSUME NEW p \in Procs,
             \/ Request(p) \/ Claim(p) \/ Dispatch(p) \/ Record(p) \/ StoreResult(p)
             \/ UndoMark(p) \/ UndoDispatch(p) \/ UndoRecord(p) \/ UndoDone(p)
      PROVE  UNCHANGED <<status, trail>>
  BY <1>6 DEF Request, Claim, Dispatch, Record, StoreResult, UndoMark, UndoDispatch, UndoRecord,
     UndoDone, db
<1> QED BY <1>1, <1>2, <1>3, <1>4, <1>5, <1>6, Zenon DEF Next, Work, Silent

\* With one process the status that a transition has read is the one it leaves,
\* although nothing protects the read: no history names a transition that the
\* state machine does not declare.
THEOREM TransitionsAreDeclared ==
  ASSUME OneProcess
  PROVE  Spec => DeclaredTransitions
<1>1. TypeOK /\ ConsentGuarded /\ MissionInv /\ [Next]_vars =>
        [status # "absent" =>
           /\ trail' = [from |-> status, to |-> status']
           /\ <<status, status'>> \in TRANSITIONS]_<<status, trail>>
  BY StatusSteps
<1> QED BY <1>1, MissionInvariant, PTL DEF Spec, DeclaredTransitions

-----------------------------------------------------------------------------
(* The mission is a bounded mission.                                       *)

\* Nothing that the bounded mission sees.
LEMMA UnseenStep ==
  ASSUME UNCHANGED <<contract, status, ran, inv, decisions>>
  PROVE  UNCHANGED Mission!vars
BY DEF Mission!vars, Consented

\* A decision consents to its own gate, and to no other.
LEMMA DecisionConsents ==
  ASSUME TypeOK, NEW g \in Gates, NEW d \in {"approved", "denied"},
         decisions' = [decisions EXCEPT ![g] = Append(@, d)]
  PROVE  {h \in Gates : Consented(h)}' =
           {h \in Gates : Consented(h)} \cup (IF d = "approved" THEN {g} ELSE {})
<1>1. \A h \in Gates \ {g} : Consented(h)' = Consented(h)
  BY DEF TypeOK, Consented
<1>2. Consented(g)' <=> Consented(g) \/ d = "approved"
  <2>1. decisions[g] \in Seq({"approved", "denied"}) /\ decisions'[g] = Append(decisions[g], d)
    BY DEF TypeOK
  <2>2. CASE d = "approved"
    BY <2>2, AppendConsents
  <2>3. CASE d = "denied"
    <3>1. Consented(g)' => Consented(g)
      BY <2>1, <2>3 DEF Consented
    <3>2. Consented(g) => Consented(g)'
      BY AppendConsents DEF ConsentGrows
    <3> QED BY <2>3, <3>1, <3>2
  <2> QED BY <2>2, <2>3
<1> QED BY <1>1, <1>2

\* A declared move of the status alone.
LEMMA MoveRefines ==
  ASSUME <<status, status'>> \in TRANSITIONS,
         status' = "completed" => Proven,
         UNCHANGED <<contract, ran, inv>>,
         {g \in Gates : Consented(g)}' = {g \in Gates : Consented(g)}
  PROVE  Mission!Next
<1>1. status' \in {pair[2] : pair \in TRANSITIONS}
  BY DEF TRANSITIONS
<1>2. status' = "completed" => Mission!Proven
  BY DEF Proven, Mission!Proven, Mission!Steps, Steps
<1> QED BY <1>1, <1>2 DEF Mission!Next, Mission!Move

LEMMA TransitionRefines ==
  ASSUME TypeOK, ConsentGuarded, MissionInv, NEW p \in Procs, Transition(p) \/ Recover(p)
  PROVE  [Mission!Next]_Mission!vars
<1>1. UNCHANGED <<contract, ran, inv, decisions>>
  BY DEF Transition, Recover, world
<1>2. {g \in Gates : Consented(g)}' = {g \in Gates : Consented(g)}
  BY <1>1 DEF Consented
<1>3. CASE Transition(p)
  <2>1. Owns("transition", loc[p]) /\ status' = loc[p].goal
    BY <1>3, Relies DEF Transition, At, Write
  <2>2. <<status, status'>> \in TRANSITIONS /\ (status' = "completed" => Proven)
    BY <2>1 DEF Owns, Allowed
  <2> QED BY <1>1, <1>2, <2>2, MoveRefines
<1>4. CASE Recover(p)
  <2>1. \/ status \in {"authorized", "running", "blocked"} /\ Write(status, "failed")
        \/ status = "running" /\ Write(status, "blocked")
        \/ UNCHANGED <<status, trail>>
    BY <1>4, Zenon DEF Recover
  <2>2. \/ <<status, status'>> \in TRANSITIONS /\ status' # "completed"
        \/ status' = status
    BY <2>1 DEF Write, TRANSITIONS
  <2> QED BY <1>1, <1>2, <2>2, MoveRefines, UnseenStep
<1> QED BY <1>3, <1>4

LEMMA DecisionsRefine ==
  ASSUME TypeOK, ConsentGuarded, MissionInv, NEW p \in Procs, AuthorizeCommit(p) \/ DecideCommit(p)
  PROVE  [Mission!Next]_Mission!vars
<1>1. /\ UNCHANGED <<contract, ran, inv>> /\ LifeInv
      /\ loc[p].gate \in Gates /\ loc[p].verdict \in {"approved", "denied"}
  BY Relies, LocType DEF AuthorizeCommit, DecideCommit, world
<1>2. CASE UNCHANGED <<decisions, status>>
  BY <1>1, <1>2, UnseenStep
<1>3. CASE AuthorizeCommit(p) /\ ~UNCHANGED <<decisions, status>>
  <2>1. /\ status = "proposed" /\ status' = "authorized"
        /\ decisions' = [decisions EXCEPT ![Initial] = Append(@, "approved")]
    BY <1>3, Relies DEF AuthorizeCommit, At, Owns, Write
  <2>2. {h \in Gates : Consented(h)}' = {h \in Gates : Consented(h)} \cup {Initial}
    BY <2>1, DecisionConsents DEF Gates
  <2>3. ~Consented(Initial)
    BY <1>1, <2>1 DEF LifeInv, Consented
  <2>4. Mission!Consent(Initial)
    BY <1>1, <2>1, <2>2, <2>3 DEF Mission!Consent
  <2> QED BY <2>4 DEF Mission!Next
<1>4. CASE DecideCommit(p) /\ ~UNCHANGED <<decisions, status>>
  <2> DEFINE g == loc[p].gate
  <2>1. /\ status = "awaiting_approval" /\ g \in requested /\ Undecided(g)
        /\ decisions' = [decisions EXCEPT ![g] = Append(@, loc[p].verdict)]
        /\ status' = IF loc[p].verdict = "approved" THEN "running" ELSE "failed"
    BY <1>4, Relies DEF DecideCommit, At, Owns, Write
  <2>2. ~Consented(g) /\ g # Initial
    BY <1>1, <2>1 DEF Undecided, Consented, LifeInv
  <2>3. CASE loc[p].verdict = "approved"
    <3>1. {h \in Gates : Consented(h)}' = {h \in Gates : Consented(h)} \cup {g}
      BY <1>1, <2>1, <2>3, DecisionConsents
    <3>2. Mission!Consent(g)
      BY <1>1, <2>1, <2>2, <2>3, <3>1 DEF Mission!Consent
    <3> QED BY <1>1, <3>2 DEF Mission!Next, Gates, Steps, Mission!Steps
  <2>4. CASE loc[p].verdict = "denied"
    <3>1. {h \in Gates : Consented(h)}' = {h \in Gates : Consented(h)}
      BY <1>1, <2>1, <2>4, DecisionConsents
    <3>2. <<status, status'>> \in TRANSITIONS /\ status' # "completed"
      BY <2>1, <2>4 DEF TRANSITIONS
    <3> QED BY <1>1, <3>1, <3>2, MoveRefines
  <2> QED BY <1>1, <2>3, <2>4
<1> QED BY <1>2, <1>3, <1>4

\* A handler runs where the bounded mission may apply its step.
LEMMA DispatchRefines ==
  ASSUME TypeOK, ConsentGuarded, EffectGuarded, MissionInv, NEW p \in Procs, Dispatch(p)
  PROVE  [Mission!Next]_Mission!vars
<1> DEFINE s == loc[p].step
<1>1. /\ Owns("dispatch", loc[p]) /\ Permitted(s) /\ s \in Steps /\ At(p, "dispatch")
      /\ UNCHANGED <<contract, status, inv, decisions>>
  BY Relies DEF Dispatch, At, ClearedAt, db
<1>2. CASE ran' = ran
  BY <1>1, <1>2, UnseenStep
<1>3. CASE ran' = [ran EXCEPT ![s] = Tick(@)]
  <2>1. Mission!Permitted(s)
    BY <1>1, GateTypes DEF Permitted, Mission!Permitted
  <2>2. s \in contract.effects => ran[s] = 0
    BY <1>1 DEF EffectGuarded, Dispatching
  <2>3. {g \in Gates : Consented(g)}' = {g \in Gates : Consented(g)}
    BY <1>1 DEF Consented
  <2>4. Mission!Apply(s)
    BY <1>1, <1>3, <2>1, <2>2, <2>3 DEF Mission!Apply, Owns, Tick
  <2> QED BY <1>1, <2>4 DEF Mission!Next, Mission!Steps, Steps
<1> QED BY <1>2, <1>3 DEF Dispatch

LEMMA RecordRefines ==
  ASSUME TypeOK, ConsentGuarded, MissionInv, NEW p \in Procs, Record(p)
  PROVE  [Mission!Next]_Mission!vars
<1> DEFINE s == loc[p].step
<1>1. /\ Owns("record", loc[p]) /\ s \in Steps /\ loc[p].found \in Outcomes
      /\ UNCHANGED <<contract, status, ran, decisions>>
      /\ inv' = [inv EXCEPT ![s] = loc[p].found]
  BY Relies, LocType DEF Record, At, world
<1>2. {g \in Gates : Consented(g)}' = {g \in Gates : Consented(g)}
  BY <1>1 DEF Consented
<1>3. loc[p].found \in {"success", "failure"}
  BY <1>1 DEF Owns, Outcomes
<1>4. Mission!Settle(s)
  BY <1>1, <1>2, <1>3 DEF Mission!Settle, Owns
<1> QED BY <1>1, <1>4 DEF Mission!Next, Mission!Steps, Steps

LEMMA MissionRefines ==
  ASSUME TypeOK, ConsentGuarded, EffectGuarded, MissionInv, [Next]_vars
  PROVE  [Mission!Next]_Mission!vars
<1>1. CASE UNCHANGED vars
  BY <1>1, UnseenStep DEF vars, db, world
<1>2. CASE Create
  <2>1. {g \in Gates : Consented(g)}' = {g \in Gates : Consented(g)}
    BY <1>2 DEF Create, Consented
  <2> QED BY <1>2, <2>1 DEF Create, Write, world, Mission!Next, Mission!Propose
<1>3. ASSUME NEW p \in Procs, Silent(p)
      PROVE  [Mission!Next]_Mission!vars
  BY <1>3, SilentMoves, UnseenStep DEF db, world
<1>4. ASSUME NEW p \in Procs,
             \/ Request(p) \/ Claim(p) \/ StoreResult(p)
             \/ UndoMark(p) \/ UndoDispatch(p) \/ UndoRecord(p) \/ UndoDone(p)
      PROVE  [Mission!Next]_Mission!vars
  BY <1>4, UnseenStep DEF Request, Claim, StoreResult, UndoMark, UndoDispatch, UndoRecord,
     UndoDone, db, world
<1> QED BY <1>1, <1>2, <1>3, <1>4, TransitionRefines, DecisionsRefine, DispatchRefines,
           RecordRefines, Zenon DEF Next, Work, Silent

\* One process, dying wherever it may and starting any command again, does to
\* the mission only what BoundedMission allows, for every contract.
THEOREM MissionIsBounded ==
  ASSUME OneProcess
  PROVE  Spec => ImplementsBoundedMission
<1>1. Init => Mission!Init
  BY DEF Init, Mission!Init, Mission!Steps, Steps, Consented
<1>2. TypeOK /\ ConsentGuarded /\ EffectGuarded /\ MissionInv /\ [Next]_vars =>
        [Mission!Next]_Mission!vars
  BY MissionRefines
<1> QED BY <1>1, <1>2, MissionInvariant, PTL DEF Spec, ImplementsBoundedMission, Mission!Spec
=============================================================================
