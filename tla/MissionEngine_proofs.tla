------------------------ MODULE MissionEngine_proofs ------------------------
(***************************************************************************)
(* Proofs about MissionEngine, for every number of processes, every set of *)
(* contracts and every assignment of commands to processes.                *)
(***************************************************************************)
EXTENDS MissionEngine, TLAPS

-----------------------------------------------------------------------------
(* Type correctness.                                                       *)

\* A process that goes to a known label with well-typed locals stays typed.
LEMMA GotoType ==
  ASSUME TypeOK, NEW p \in Procs, NEW l \in PCs, NEW r \in Locals, Goto(p, l, r)
  PROVE  /\ pc' \in [Procs -> PCs]
         /\ loc' \in [Procs -> Locals]
BY DEF TypeOK, Goto

\* The locals that a fresh command starts from are typed.
LEMMA FreshType == Fresh \in Locals
BY ContractAssumption DEF Fresh, Locals, STATES, Steps, Outcomes, Gates, Initial

\* What the type invariant says of one process's locals.
LEMMA LocType ==
  ASSUME TypeOK, NEW p \in Procs
  PROVE  /\ loc[p] \in Locals
         /\ loc[p].cmd \in CommandNames \cup {"none"}
         /\ loc[p].seen \in STATES \cup {"absent"}
         /\ loc[p].goal \in STATES
         /\ loc[p].step \in Steps
         /\ loc[p].list \in SUBSET Steps
         /\ loc[p].half \in SUBSET Steps
         /\ loc[p].found \in Outcomes
         /\ loc[p].gate \in Gates
         /\ loc[p].verdict \in {"approved", "denied"}
<1>1. loc[p] \in Locals
  BY DEF TypeOK
<1> QED BY <1>1 DEF Locals

\* Changing one process's bookkeeping leaves the database and world typed.
LEMMA SilentType ==
  ASSUME TypeOK, NEW p \in Procs, UNCHANGED <<db, world>>,
         pc' \in [Procs -> PCs], loc' \in [Procs -> Locals]
  PROVE  TypeOK'
BY DEF TypeOK, db, world

\* Locals stay typed when a field is given a value of its type.
LEMMA LocalsUpdate ==
  ASSUME NEW r \in Locals
  PROVE  /\ \A c \in CommandNames \cup {"none"} : [r EXCEPT !.cmd = c] \in Locals
         /\ \A v \in STATES \cup {"absent"} : [r EXCEPT !.seen = v] \in Locals
         /\ \A v \in STATES : [r EXCEPT !.goal = v] \in Locals
         /\ \A c \in CommandNames, v \in STATES :
              [r EXCEPT !.cmd = c, !.goal = v] \in Locals
         /\ \A s \in Steps, v \in STATES : [r EXCEPT !.step = s, !.goal = v] \in Locals
         /\ \A s \in Steps : [r EXCEPT !.step = s] \in Locals
         /\ \A S \in SUBSET Steps, s \in Steps : [r EXCEPT !.list = S, !.step = s] \in Locals
         /\ \A S \in SUBSET Steps, H \in SUBSET Steps :
              [r EXCEPT !.list = S, !.half = H] \in Locals
         /\ \A o \in Outcomes : [r EXCEPT !.found = o] \in Locals
         /\ \A g \in Gates : [r EXCEPT !.gate = g] \in Locals
         /\ \A c \in CommandNames, g \in Gates, v \in {"approved", "denied"} :
              [r EXCEPT !.cmd = c, !.gate = g, !.verdict = v] \in Locals
         /\ \A S \in SUBSET Steps, b \in BOOLEAN :
              [r EXCEPT !.list = S, !.clean = b] \in Locals
BY Zenon DEF Locals

\* A silent step that goes to a known label with typed locals.
LEMMA SilentGoto ==
  ASSUME TypeOK, NEW p \in Procs, NEW l \in PCs, NEW r \in Locals,
         Goto(p, l, r), UNCHANGED <<db, world>>
  PROVE  TypeOK'
BY GotoType, SilentType

\* Every command starts typed.
LEMMA CommandType ==
  ASSUME TypeOK, NEW p \in Procs, Command(p)
  PROVE  TypeOK'
<1> USE FreshType, LocalsUpdate, SilentGoto
<1>1. \A c \in CommandNames : [Fresh EXCEPT !.cmd = c] \in Locals
  BY Zenon
<1>2. CASE Authorize(p)
  BY Zenon, <1>1, <1>2 DEF Authorize, PCs, CommandNames
<1>3. CASE Decide(p)
  <2>1. PICK g \in requested, v \in {"approved", "denied"} :
          Goto(p, "decide", [Fresh EXCEPT !.cmd = "decide", !.gate = g, !.verdict = v])
    BY Zenon, <1>3 DEF Decide
  <2>2. [Fresh EXCEPT !.cmd = "decide", !.gate = g, !.verdict = v] \in Locals
    BY Zenon DEF TypeOK, CommandNames
  <2> QED BY Zenon, <1>3, <2>1, <2>2 DEF Decide, PCs
<1>4. ASSUME NEW c \in {"run", "resume"}, StartRecover(p, c)
      PROVE  TypeOK'
  <2>1. [Fresh EXCEPT !.cmd = c] \in Locals
    BY Zenon, <1>1 DEF CommandNames
  <2> QED BY Zenon, <1>4, <2>1 DEF StartRecover, PCs
<1>5. CASE Pause(p)
  <2>1. [Fresh EXCEPT !.cmd = "pause", !.goal = "blocked"] \in Locals
    BY Zenon DEF CommandNames, STATES
  <2> QED BY Zenon, <1>5, <2>1 DEF Pause, PCs
<1>6. CASE Cancel(p)
  <2>1. [Fresh EXCEPT !.cmd = "cancel", !.goal = "cancelled"] \in Locals
    BY Zenon DEF CommandNames, STATES
  <2> QED BY Zenon, <1>6, <2>1 DEF Cancel, PCs
<1>7. CASE Rollback(p)
  BY Zenon, <1>1, <1>7 DEF Rollback, PCs, CommandNames
<1> QED BY Zenon, <1>2, <1>3, <1>4, <1>5, <1>6, <1>7 DEF Command, RunOne, Resume

\* A process that returns, or moves on with the locals it has, stays typed.
LEMMA ReturnType ==
  ASSUME TypeOK, NEW p \in Procs, Return(p), UNCHANGED <<db, world>>
  PROVE  TypeOK'
BY FreshType, SilentGoto DEF Return, PCs

\* The silent steps of a transition and of recover and resume.
LEMMA RecoveryReadsType ==
  ASSUME TypeOK, NEW p \in Procs,
         Want(p) \/ RunningSteps(p) \/ Lookup(p) \/ ResumeStatus(p) \/ ResumeCheck(p)
  PROVE  TypeOK'
<1> USE LocalsUpdate, SilentGoto, ReturnType
<1>1. loc[p] \in Locals
  BY Zenon, LocType
<1>2. CASE Want(p)
  <2>1. [loc[p] EXCEPT !.seen = status] \in Locals
    BY Zenon, <1>1 DEF TypeOK
  <2> QED BY Zenon, <1>2, <2>1 DEF Want, PCs
<1>3. CASE RunningSteps(p)
  <2>2. [Fresh EXCEPT !.cmd = loc[p].cmd] \in Locals
    BY Zenon, LocType, FreshType
  <2>3. \A S \in SUBSET Steps : \A s \in S : [loc[p] EXCEPT !.list = S, !.step = s] \in Locals
    BY Zenon, <1>1
  <2>4. CASE AfterRecover(p)
    BY Zenon, <1>3, <2>2, <2>4 DEF RunningSteps, AfterRecover, PCs
  <2>5. CASE \E s \in {t \in Steps : step[t] = "running"} :
               Goto(p, "lookup", [loc[p] EXCEPT !.list = {t \in Steps : step[t] = "running"},
                                                !.step = s])
    <3>1. {t \in Steps : step[t] = "running"} \in SUBSET Steps
      BY Zenon
    <3> QED BY Zenon, <1>3, <2>3, <2>5, <3>1 DEF RunningSteps, PCs
  <2> QED BY Zenon, <1>3, <2>4, <2>5 DEF RunningSteps
<1>4. CASE Lookup(p)
  <2>1. inv[loc[p].step] \in Outcomes
    BY Zenon, LocType DEF TypeOK
  <2>2. [loc[p] EXCEPT !.found = inv[loc[p].step]] \in Locals
    BY Zenon, <1>1, <2>1
  <2> QED BY Zenon, <1>4, <2>2 DEF Lookup, PCs
<1>5. CASE ResumeStatus(p)
  BY Zenon, <1>1, <1>5 DEF ResumeStatus, PCs
<1>6. CASE ResumeCheck(p)
  <2>1. [loc[p] EXCEPT !.goal = "running"] \in Locals
    BY Zenon, <1>1 DEF STATES
  <2> QED BY Zenon, <1>6, <2>1 DEF ResumeCheck, PCs
<1> QED BY Zenon, <1>2, <1>3, <1>4, <1>5, <1>6

\* The silent steps of run_one.
LEMMA RunReadsType ==
  ASSUME TypeOK, NEW p \in Procs,
         RunStatus(p) \/ SelectStep(p) \/ CheckBudget(p) \/ CheckAuthority(p)
           \/ CheckIrreversible(p) \/ Remaining(p) \/ Finish(p)
  PROVE  TypeOK'
<1> USE LocalsUpdate, SilentGoto, ReturnType
<1>1. loc[p] \in Locals /\ loc[p].step \in Steps
  BY Zenon, LocType
<1>2. CASE RunStatus(p)
  <2>1. [loc[p] EXCEPT !.seen = status] \in Locals
    BY Zenon, <1>1 DEF TypeOK
  <2> QED BY Zenon, <1>2, <2>1 DEF RunStatus, PCs
<1>3. CASE SelectStep(p)
  <2>1. \A s \in Steps : /\ [loc[p] EXCEPT !.step = s, !.goal = "blocked"] \in Locals
                         /\ [loc[p] EXCEPT !.step = s] \in Locals
    BY Zenon, <1>1 DEF STATES
  <2> QED BY Zenon, <1>1, <1>3, <2>1 DEF SelectStep, PCs
<1>4. CASE CheckBudget(p)
  <2>1. [loc[p] EXCEPT !.goal = "failed"] \in Locals
    BY Zenon, <1>1 DEF STATES
  <2> QED BY Zenon, <1>1, <1>4, <2>1 DEF CheckBudget, PCs
<1>5. CASE CheckAuthority(p)
  <2>1. [loc[p] EXCEPT !.gate = <<"authority", loc[p].step>>] \in Locals
    BY Zenon, <1>1 DEF Gates
  <2> QED BY Zenon, <1>1, <1>5, <2>1 DEF CheckAuthority, PCs
<1>6. CASE CheckIrreversible(p)
  <2>1. [loc[p] EXCEPT !.gate = <<"irreversible", loc[p].step>>] \in Locals
    BY Zenon, <1>1 DEF Gates
  <2>2. [loc[p] EXCEPT !.goal = "running"] \in Locals
    BY Zenon, <1>1 DEF STATES
  <2> QED BY Zenon, <1>1, <1>6, <2>1, <2>2 DEF CheckIrreversible, PCs
<1>7. CASE Remaining(p)
  BY Zenon, <1>1, <1>7 DEF Remaining, PCs
<1>8. CASE Finish(p)
  <2>1. [loc[p] EXCEPT !.goal = IF AllCompleted /\ contract.evidence
                                  THEN "completed" ELSE "blocked"] \in Locals
    BY Zenon, <1>1 DEF STATES
  <2> QED BY Zenon, <1>8, <2>1 DEF Finish, PCs
<1> QED BY Zenon, <1>2, <1>3, <1>4, <1>5, <1>6, <1>7, <1>8

\* Striking a step off the rollback's list keeps the locals typed.
LEMMA ReportedType ==
  ASSUME NEW r \in Locals, NEW s, NEW bad
  PROVE  Reported(r, s, bad) \in Locals
<1>1. r.list \ {s} \in SUBSET Steps /\ (r.clean /\ ~bad) \in BOOLEAN
  BY DEF Locals
<1> QED BY Zenon, <1>1, LocalsUpdate DEF Reported

\* The silent steps of rollback.
LEMMA RollbackReadsType ==
  ASSUME TypeOK, NEW p \in Procs, RollbackSteps(p) \/ UndoNext(p) \/ UndoEnd(p)
  PROVE  TypeOK'
<1> USE LocalsUpdate, SilentGoto, ReturnType
<1>1. loc[p] \in Locals /\ loc[p].list \in SUBSET Steps
  BY Zenon, LocType
<1>2. CASE RollbackSteps(p)
  <2>1. [loc[p] EXCEPT !.list = {s \in Steps : step[s] \in Undoable},
                       !.half = {s \in Steps : step[s] = "rollback_running"}] \in Locals
    BY Zenon, <1>1
  <2> QED BY Zenon, <1>2, <2>1 DEF RollbackSteps, PCs
<1>3. CASE UndoNext(p)
  <2>1. PICK s \in loc[p].list : UndoStep(p, s)
    BY Zenon, <1>3 DEF UndoNext
  <2>2. \A bad : Reported(loc[p], s, bad) \in Locals
    BY Zenon, <1>1, ReportedType
  <2>3. [loc[p] EXCEPT !.step = s] \in Locals
    BY Zenon, <1>1
  <2>4. \/ Goto(p, "undo", Reported(loc[p], s, s \in contract.effects))
        \/ Goto(p, "undo", Reported(loc[p], s, TRUE))
        \/ Goto(p, "undo_done", [loc[p] EXCEPT !.step = s])
        \/ Goto(p, "undo_mark", [loc[p] EXCEPT !.step = s])
    BY Zenon, <2>1 DEF UndoStep
  <2> QED BY Zenon, <1>3, <2>2, <2>3, <2>4 DEF UndoNext, PCs
<1>4. CASE UndoEnd(p)
  <2>1. [loc[p] EXCEPT !.goal = "rolled_back"] \in Locals
    BY Zenon, <1>1 DEF STATES
  <2> QED BY Zenon, <1>4, <2>1 DEF UndoEnd, PCs
<1> QED BY Zenon, <1>2, <1>3, <1>4

\* What a status write leaves typed.
LEMMA WriteType ==
  ASSUME NEW from \in STATES \cup {"absent"}, NEW to \in STATES, Write(from, to)
  PROVE  /\ status' \in STATES \cup {"absent"}
         /\ trail' \in [from : STATES \cup {"absent"}, to : STATES]
BY DEF Write

\* The transactions that write the mission's status.
LEMMA StatusWritesType ==
  ASSUME TypeOK, NEW p \in Procs, Transition(p) \/ AuthorizeCommit(p) \/ DecideCommit(p)
  PROVE  TypeOK'
<1>1. /\ pc' \in [Procs -> PCs]
      /\ loc' \in [Procs -> Locals]
  BY LocType, FreshType, GotoType, Zenon
     DEF Transition, AuthorizeCommit, DecideCommit, Return, PCs
<1>2. CASE Transition(p)
  <2>1. Write(loc[p].seen, loc[p].goal)
    BY <1>2 DEF Transition
  <2> QED BY <1>1, <1>2, <2>1, LocType, WriteType DEF Transition, TypeOK, world
<1>3. ASSUME NEW g \in Gates, NEW d \in {"approved", "denied"}
      PROVE  [decisions EXCEPT ![g] = Append(@, d)] \in [Gates -> Seq({"approved", "denied"})]
  BY DEF TypeOK
<1>4. status \in STATES \cup {"absent"}
  BY DEF TypeOK
<1>5. CASE AuthorizeCommit(p)
  <2>1. Initial \in Gates
    BY DEF Gates
  <2>2. decisions' \in [Gates -> Seq({"approved", "denied"})]
    BY <1>3, <1>5, <2>1 DEF AuthorizeCommit, TypeOK
  <2>3. /\ status' \in STATES \cup {"absent"}
        /\ trail' \in [from : STATES \cup {"absent"}, to : STATES]
    BY <1>4, <1>5 DEF AuthorizeCommit, Write, STATES, TypeOK
  <2> QED BY <1>1, <1>5, <2>2, <2>3 DEF AuthorizeCommit, TypeOK, world
<1>6. CASE DecideCommit(p)
  <2>1. decisions' \in [Gates -> Seq({"approved", "denied"})]
    <3>1. [decisions EXCEPT ![loc[p].gate] = Append(@, loc[p].verdict)]
            \in [Gates -> Seq({"approved", "denied"})]
      BY <1>3, LocType, Zenon
    <3>2. decisions \in [Gates -> Seq({"approved", "denied"})]
      BY DEF TypeOK
    <3>3. \/ decisions' = [decisions EXCEPT ![loc[p].gate] = Append(@, loc[p].verdict)]
          \/ decisions' = decisions
      BY <1>6, Zenon DEF DecideCommit
    <3> QED BY <3>1, <3>2, <3>3
  <2>2. /\ status' \in STATES \cup {"absent"}
        /\ trail' \in [from : STATES \cup {"absent"}, to : STATES]
    BY <1>4, <1>6 DEF DecideCommit, Write, STATES, TypeOK
  <2> QED BY <1>1, <1>6, <2>1, <2>2 DEF DecideCommit, TypeOK, world
<1> QED BY <1>2, <1>5, <1>6

\* recover's transaction.
LEMMA RecoverType ==
  ASSUME TypeOK, NEW p \in Procs, Recover(p)
  PROVE  TypeOK'
<1>1. [Fresh EXCEPT !.cmd = loc[p].cmd] \in Locals
  BY LocType, FreshType, LocalsUpdate
<1>2. /\ pc' \in [Procs -> PCs]
      /\ loc' \in [Procs -> Locals]
  BY <1>1, GotoType, Zenon DEF Recover, AfterRecover, PCs
<1>3. \A s, found : Settled(s, found) \in StepStatus
  BY DEF Settled, StepStatus
<1>4. step' \in [Steps -> StepStatus]
  BY <1>3 DEF Recover, TypeOK
<1>5. status \in STATES \cup {"absent"}
  BY DEF TypeOK
<1>6. \/ Write(status, "failed")
      \/ Write(status, "blocked")
      \/ UNCHANGED <<status, trail>>
  BY Zenon DEF Recover
<1>7. /\ status' \in STATES \cup {"absent"}
      /\ trail' \in [from : STATES \cup {"absent"}, to : STATES]
  BY <1>5, <1>6 DEF Write, STATES, TypeOK
<1> QED BY <1>2, <1>4, <1>7 DEF Recover, TypeOK, world

\* The other transactions, which write a step, an approval or an invocation,
\* and the two that run a handler.
LEMMA StepWritesType ==
  ASSUME TypeOK, NEW p \in Procs,
         Request(p) \/ Claim(p) \/ Dispatch(p) \/ Record(p) \/ StoreResult(p)
           \/ UndoMark(p) \/ UndoDispatch(p) \/ UndoRecord(p) \/ UndoDone(p)
  PROVE  TypeOK'
<1>1. /\ loc[p] \in Locals
      /\ loc[p].step \in Steps
      /\ loc[p].found \in Outcomes
      /\ loc[p].gate \in Gates
  BY LocType
<1>2. \A v \in {"failed", "awaiting_approval"} : [loc[p] EXCEPT !.goal = v] \in Locals
  BY <1>1, LocalsUpdate DEF STATES
<1>3. \A o \in {"success", "failure"} : [loc[p] EXCEPT !.found = o] \in Locals
  BY <1>1, LocalsUpdate DEF Outcomes
<1>4. \A s, bad : Reported(loc[p], s, bad) \in Locals
  BY <1>1, ReportedType
<1>5. /\ pc' \in [Procs -> PCs]
      /\ loc' \in [Procs -> Locals]
  <2>1. CASE Request(p) \/ Claim(p) \/ Record(p) \/ StoreResult(p) \/ UndoMark(p)
    BY <1>1, <1>2, <2>1, FreshType, GotoType, Zenon
       DEF Request, Claim, Record, StoreResult, UndoMark, Return, PCs
  <2>2. CASE Dispatch(p) \/ UndoDispatch(p)
    BY <1>3, <2>2, GotoType, Zenon DEF Dispatch, UndoDispatch, PCs
  <2>3. CASE UndoRecord(p) \/ UndoDone(p)
    BY <1>1, <1>4, <2>3, GotoType, Zenon DEF UndoRecord, UndoDone, PCs
  <2> QED BY <2>1, <2>2, <2>3
<1>6. CASE Request(p)
  BY <1>1, <1>5, <1>6 DEF Request, TypeOK, world
<1>7. CASE Claim(p) \/ StoreResult(p) \/ UndoMark(p) \/ UndoDone(p)
  <2>1. step' \in [Steps -> StepStatus]
    BY <1>7 DEF Claim, StoreResult, UndoMark, UndoDone, StepStatus, TypeOK
  <2> QED BY <1>5, <1>7, <2>1 DEF Claim, StoreResult, UndoMark, UndoDone, TypeOK, world
<1>8. CASE Record(p) \/ UndoRecord(p)
  BY <1>1, <1>5, <1>8 DEF Record, UndoRecord, TypeOK, world
<1>9. CASE Dispatch(p) \/ UndoDispatch(p)
  <2>1. \A n \in 0 .. 2 : Tick(n) \in 0 .. 2
    BY DEF Tick
  <2>2. ran' \in [Steps -> 0 .. 2] /\ undone' \in [Steps -> 0 .. 2]
    <3>1. CASE Dispatch(p)
      BY <1>1, <2>1, <3>1 DEF Dispatch, TypeOK
    <3>2. CASE UndoDispatch(p)
      BY <1>1, <2>1, <3>2 DEF UndoDispatch, TypeOK
    <3> QED BY <1>9, <3>1, <3>2
  <2> QED BY <1>5, <1>9, <2>2 DEF Dispatch, UndoDispatch, TypeOK, db
<1> QED BY <1>6, <1>7, <1>8, <1>9

\* Initially everything is typed: this needs a step to put into Fresh.
LEMMA InitType == Init => TypeOK
<1> SUFFICES ASSUME Init PROVE TypeOK
  OBVIOUS
<1>1. decisions \in [Gates -> Seq({"approved", "denied"})]
  BY DEF Init
<1>2. loc \in [Procs -> Locals]
  BY FreshType DEF Init
<1> QED BY <1>1, <1>2 DEF Init, TypeOK, STATES, StepStatus, Outcomes, PCs

\* Every step keeps everything typed.
LEMMA NextType == TypeOK /\ [Next]_vars => TypeOK'
<1> SUFFICES ASSUME TypeOK, [Next]_vars PROVE TypeOK'
  OBVIOUS
<1>1. CASE Create
  BY <1>1 DEF Create, Write, STATES, TypeOK, world
<1>2. ASSUME NEW p \in Procs, Command(p) PROVE TypeOK'
  BY <1>2, CommandType
<1>3. ASSUME NEW p \in Procs, Work(p) PROVE TypeOK'
  BY <1>3, RecoveryReadsType, RunReadsType, RollbackReadsType,
     StatusWritesType, RecoverType, StepWritesType DEF Work
<1>4. ASSUME NEW p \in Procs, Crash(p) PROVE TypeOK'
  BY <1>4, ReturnType DEF Crash
<1>5. CASE UNCHANGED vars
  BY <1>5 DEF vars, db, world, TypeOK
<1> QED BY <1>1, <1>2, <1>3, <1>4, <1>5 DEF Next

\* In every reachable state each column, each counter and everything a process
\* has read has its type: no transaction writes a value the schema of
\* missions, mission_steps or mission_approvals does not have.
THEOREM TypeCorrect == Spec => []TypeOK
BY InitType, NextType, PTL DEF Spec

-----------------------------------------------------------------------------
(* A declared effect runs at most once.                                    *)

\* What a process's move does to the two bookkeeping functions.
LEMMA GotoEffect ==
  ASSUME TypeOK, NEW p \in Procs, NEW l, NEW r, Goto(p, l, r)
  PROVE  /\ pc'[p] = l /\ loc'[p] = r
         /\ \A q \in Procs : q # p => pc'[q] = pc[q] /\ loc'[q] = loc[q]
BY DEF TypeOK, Goto

\* A contract's effects are steps.
LEMMA EffectsAreSteps == TypeOK => contract.effects \subseteq Steps
BY ContractAssumption DEF TypeOK, ContractType

\* A process that moves anywhere but to a dispatch, and makes no effect
\* pending, keeps the effects guarded.
LEMMA MoveKeepsEffects ==
  ASSUME TypeOK, EffectGuarded, NEW p \in Procs, NEW l, l # "dispatch", NEW r, Goto(p, l, r),
         UNCHANGED <<contract, ran>>,
         \A s \in contract.effects : step'[s] = "pending" => step[s] = "pending"
  PROVE  EffectGuarded'
<1>1. \A q \in Procs, s \in contract.effects : Dispatching(q, s)' => Dispatching(q, s)
  BY GotoEffect DEF Dispatching, At
<1> QED BY <1>1 DEF EffectGuarded

\* Every silent step of a command is such a move; none of them writes.
Silent(p) ==
  \/ Want(p) \/ RunningSteps(p) \/ Lookup(p) \/ ResumeStatus(p) \/ ResumeCheck(p)
  \/ RunStatus(p) \/ SelectStep(p) \/ CheckBudget(p) \/ CheckAuthority(p)
  \/ CheckIrreversible(p) \/ Remaining(p) \/ Finish(p)
  \/ RollbackSteps(p) \/ UndoNext(p) \/ UndoEnd(p)
  \/ Command(p) \/ Crash(p)

\* A silent step writes nothing and never brings its process to the handler.
LEMMA SilentMoves ==
  ASSUME NEW p \in Procs, Silent(p)
  PROVE  /\ UNCHANGED <<db, world>>
         /\ \E l : l # "dispatch" /\ \E r : Goto(p, l, r)
<1>1. CASE Want(p) \/ ResumeStatus(p) \/ ResumeCheck(p) \/ Lookup(p) \/ RunStatus(p)
  BY <1>1, Zenon DEF Want, ResumeStatus, ResumeCheck, Lookup, RunStatus, Return
<1>2. CASE RunningSteps(p)
  BY <1>2, Zenon DEF RunningSteps, AfterRecover
<1>3. CASE SelectStep(p) \/ CheckBudget(p) \/ CheckAuthority(p) \/ CheckIrreversible(p)
  BY <1>3, Zenon DEF SelectStep, CheckBudget, CheckAuthority, CheckIrreversible
<1>4. CASE Remaining(p) \/ Finish(p) \/ RollbackSteps(p) \/ UndoEnd(p) \/ Crash(p)
  BY <1>4, Zenon DEF Remaining, Finish, RollbackSteps, UndoEnd, Crash, Return
<1>5. CASE UndoNext(p)
  BY <1>5, Zenon DEF UndoNext, UndoStep
<1>6. CASE Command(p)
  BY <1>6, Zenon DEF Command, Authorize, Decide, RunOne, Pause, Resume, Cancel, Rollback, StartRecover
<1> QED BY <1>1, <1>2, <1>3, <1>4, <1>5, <1>6 DEF Silent

\* The writes that leave an effect's step as it is, or settle it.
LEMMA SettlingKeepsEffects ==
  ASSUME TypeOK, EffectGuarded, NEW p \in Procs,
         \/ Transition(p) \/ AuthorizeCommit(p) \/ DecideCommit(p) \/ Recover(p)
         \/ Request(p) \/ Record(p) \/ StoreResult(p)
         \/ UndoMark(p) \/ UndoDispatch(p) \/ UndoRecord(p) \/ UndoDone(p)
  PROVE  EffectGuarded'
<1>1. \E l : l # "dispatch" /\ \E r : Goto(p, l, r)
  BY Zenon DEF Transition, AuthorizeCommit, DecideCommit, Recover, AfterRecover, Request, Record,
     StoreResult, UndoMark, UndoDispatch, UndoRecord, UndoDone, Return
<1>2. UNCHANGED <<contract, ran>>
  BY DEF Transition, AuthorizeCommit, DecideCommit, Recover, Request, Record,
     StoreResult, UndoMark, UndoDispatch, UndoRecord, UndoDone, db, world
<1>3. ASSUME NEW s \in contract.effects, step'[s] = "pending"
      PROVE  step[s] = "pending"
  <2>1. s \in Steps
    BY EffectsAreSteps
  <2>2. CASE Recover(p)
    <3>1. \A found : Settled(s, found) # "pending"
      BY DEF Settled
    <3> QED BY <1>3, <2>1, <2>2, <3>1 DEF Recover
  <2>3. CASE StoreResult(p)
    BY <1>3, <2>1, <2>3, LocType DEF StoreResult, TypeOK
  <2>4. CASE UndoMark(p) \/ UndoDone(p)
    BY <1>3, <2>1, <2>4, LocType DEF UndoMark, UndoDone, TypeOK
  <2>5. CASE \/ Transition(p) \/ AuthorizeCommit(p) \/ DecideCommit(p)
             \/ Request(p) \/ Record(p) \/ UndoDispatch(p) \/ UndoRecord(p)
    BY <1>3, <2>5 DEF Transition, AuthorizeCommit, DecideCommit, Request, Record,
       UndoDispatch, UndoRecord, db
  <2> QED BY <2>2, <2>3, <2>4, <2>5
<1> QED BY <1>1, <1>2, <1>3, MoveKeepsEffects

\* The claim hands a pending step, which has not run, to one process.
LEMMA ClaimKeepsEffects ==
  ASSUME TypeOK, EffectGuarded, NEW p \in Procs, Claim(p)
  PROVE  EffectGuarded'
<1>1. CASE ~Claimable(loc[p].step)
  BY <1>1, MoveKeepsEffects DEF Claim, Return, world
<1>2. CASE Claimable(loc[p].step)
  <2>1. /\ step[loc[p].step] = "pending"
        /\ step' = [step EXCEPT ![loc[p].step] = "running"]
        /\ Goto(p, "dispatch", loc[p])
        /\ UNCHANGED <<contract, ran>>
    BY <1>2 DEF Claim, Claimable, world
  <2>2. loc[p].step \in Steps /\ step'[loc[p].step] = "running"
    BY <2>1, LocType DEF TypeOK
  <2>3. \A t \in Steps : t # loc[p].step => step'[t] = step[t]
    BY <2>1 DEF TypeOK
  <2>4. \A q \in Procs, s \in contract.effects :
          Dispatching(q, s)' => Dispatching(q, s) \/ (q = p /\ s = loc[p].step)
    BY <2>1, GotoEffect DEF Dispatching, At
  <2>5. \A q \in Procs : ~Dispatching(q, loc[p].step) \/ loc[p].step \notin contract.effects
    BY <2>1 DEF EffectGuarded
  <2> QED BY <2>1, <2>2, <2>3, <2>4, <2>5, EffectsAreSteps DEF EffectGuarded
<1> QED BY <1>1, <1>2

\* A dispatch runs the handler of a step nobody else is dispatching.
LEMMA DispatchKeepsEffects ==
  ASSUME TypeOK, EffectGuarded, NEW p \in Procs, Dispatch(p)
  PROVE  EffectGuarded'
<1>1. /\ \E r : Goto(p, "record", r)
      /\ UNCHANGED <<contract, step>>
      /\ ran' = ran \/ ran' = [ran EXCEPT ![loc[p].step] = Tick(@)]
      /\ Dispatching(p, loc[p].step)
  BY Zenon DEF Dispatch, db, Dispatching
<1>2. \A q \in Procs, s \in contract.effects :
        Dispatching(q, s)' => Dispatching(q, s) /\ q # p
  BY <1>1, GotoEffect DEF Dispatching, At
<1>3. CASE ran' = ran
  BY <1>1, <1>2, <1>3 DEF EffectGuarded
<1>4. CASE ran' = [ran EXCEPT ![loc[p].step] = Tick(@)]
  <2>1. \A s \in contract.effects : s # loc[p].step => ran'[s] = ran[s]
    BY <1>4, EffectsAreSteps DEF TypeOK
  <2>2. loc[p].step \in contract.effects =>
          /\ ran'[loc[p].step] = 1
          /\ step[loc[p].step] # "pending"
          /\ \A q \in Procs : Dispatching(q, loc[p].step) => q = p
    BY <1>1, <1>4, EffectsAreSteps DEF EffectGuarded, TypeOK, Tick
  <2> QED BY <1>1, <1>2, <2>1, <2>2 DEF EffectGuarded
<1> QED BY <1>1, <1>3, <1>4

\* Initially every step is pending, nothing has run and no process runs.
LEMMA InitEffects == Init => EffectGuarded
<1> SUFFICES ASSUME Init PROVE EffectGuarded
  OBVIOUS
<1>1. contract.effects \subseteq Steps
  BY InitType, EffectsAreSteps
<1>2. \A p \in Procs : pc[p] # "dispatch"
  BY DEF Init
<1> QED BY <1>1, <1>2 DEF Init, EffectGuarded, Dispatching, At

\* Every step preserves the guard of the effects: a claim is the only way to
\* the handler, and recover never makes a claimed effect pending.
LEMMA NextEffects == TypeOK /\ EffectGuarded /\ [Next]_vars => EffectGuarded'
<1> SUFFICES ASSUME TypeOK, EffectGuarded, [Next]_vars PROVE EffectGuarded'
  OBVIOUS
<1>1. CASE Create \/ UNCHANGED vars
  <2>1. UNCHANGED <<contract, step, ran, pc, loc>>
    BY <1>1 DEF Create, vars, db, world
  <2> QED BY <2>1 DEF EffectGuarded, Dispatching, At
<1>2. ASSUME NEW p \in Procs, Silent(p) PROVE EffectGuarded'
  BY <1>2, SilentMoves, MoveKeepsEffects DEF db, world
<1>3. ASSUME NEW p \in Procs, Work(p), ~Silent(p) PROVE EffectGuarded'
  BY <1>3, SettlingKeepsEffects, ClaimKeepsEffects, DispatchKeepsEffects, Zenon DEF Work, Silent
<1> QED BY <1>1, <1>2, <1>3 DEF Next, Silent

\* No interleaving of runners, recoveries, rollbacks, decisions and crashes runs
\* the handler of a step with declared side effects twice.
THEOREM EffectsRunOnce == Spec => []EffectAtMostOnce
<1>1. EffectGuarded => EffectAtMostOnce
  BY DEF EffectGuarded, EffectAtMostOnce
<1> QED BY <1>1, InitType, NextType, InitEffects, NextEffects, PTL DEF Spec

-----------------------------------------------------------------------------
(* No step runs without the consent that its contract requires.            *)

\* The gates of a step are gates.
LEMMA GateTypes ==
  ASSUME NEW s \in Steps
  PROVE  <<"authority", s>> \in Gates /\ <<"irreversible", s>> \in Gates /\ Initial \in Gates
BY DEF Gates

\* A gate whose latest decision is an approval has been consented to.
LEMMA ApprovedIsConsented ==
  ASSUME TypeOK, NEW g \in Gates, Approved(g)
  PROVE  Consented(g)
<1>1. decisions[g] \in Seq({"approved", "denied"})
  BY DEF TypeOK
<1>2. Len(decisions[g]) \in DOMAIN decisions[g]
  BY <1>1 DEF Approved
<1> QED BY <1>2 DEF Approved, Consented

\* A decision is never withdrawn.
ConsentGrows == \A g \in Gates : Consented(g) => Consented(g)'

\* Recording a decision withdraws no consent, and an approval gives it.
LEMMA AppendConsents ==
  ASSUME TypeOK, NEW g \in Gates, NEW d \in {"approved", "denied"},
         decisions' = [decisions EXCEPT ![g] = Append(@, d)]
  PROVE  ConsentGrows /\ (d = "approved" => Consented(g)')
<1>1. decisions[g] \in Seq({"approved", "denied"})
  BY DEF TypeOK
<1>2. decisions'[g] = Append(decisions[g], d) /\ \A h \in Gates : h # g => decisions'[h] = decisions[h]
  BY DEF TypeOK
<1>3. /\ \A i \in DOMAIN decisions[g] : i \in DOMAIN decisions'[g] /\ decisions'[g][i] = decisions[g][i]
      /\ Len(decisions[g]) + 1 \in DOMAIN decisions'[g]
      /\ decisions'[g][Len(decisions[g]) + 1] = d
  BY <1>1, <1>2
<1> QED BY <1>2, <1>3 DEF ConsentGrows, Consented

\* A step that records no decision withdraws no consent.
LEMMA UnchangedConsents == decisions' = decisions => ConsentGrows
BY DEF ConsentGrows, Consented

\* What a step was permitted it stays permitted.
LEMMA PermittedStays ==
  ASSUME contract' = contract, ConsentGrows, NEW s \in Steps, Permitted(s)
  PROVE  Permitted(s)'
BY GateTypes DEF Permitted, ConsentGrows

\* What a process has passed it stays cleared for.
LEMMA ClearedStays ==
  ASSUME contract' = contract, ConsentGrows, NEW l, NEW r \in Locals, ClearedAt(l, r)
  PROVE  ClearedAt(l, r)'
<1>1. r.step \in Steps
  BY DEF Locals
<1>2. Permitted(r.step) => Permitted(r.step)'
  BY <1>1, PermittedStays
<1> QED BY <1>1, <1>2, GateTypes DEF ClearedAt, ConsentGrows

\* Only the initial authorization leads out of the unentered states.
LEMMA EnteredBefore ==
  ASSUME NEW from, NEW to \in Targets, Allowed(from, to), to \notin Unentered
  PROVE  from \notin Unentered
BY DEF Allowed, TRANSITIONS, Targets, Unentered

\* One process moves to where it is cleared; the others stay cleared.
LEMMA MoveKeepsConsent ==
  ASSUME TypeOK, ConsentGuarded, NEW p \in Procs, NEW l, NEW r, Goto(p, l, r),
         ClearedAt(l, r)', contract' = contract, ConsentGrows,
         status' \in Unentered \/ Consented(Initial)', RanWithConsent'
  PROVE  ConsentGuarded'
<1>1. ASSUME NEW q \in Procs, NEW m, NEW k, pc'[q] = m, loc'[q] = k, ClearedAt(m, k)'
      PROVE  ClearedAt(pc[q], loc[q])'
  BY <1>1 DEF ClearedAt, Permitted, Consented
<1>2. ClearedAt(pc[p], loc[p])'
  BY <1>1, GotoEffect
<1>3. ASSUME NEW q \in Procs, q # p PROVE ClearedAt(pc[q], loc[q])'
  <2>1. /\ pc'[q] = pc[q]
        /\ loc'[q] = loc[q]
    BY <1>3, GotoEffect
  <2>2. loc[q] \in Locals /\ ClearedAt(pc[q], loc[q])
    BY LocType DEF ConsentGuarded
  <2>3. \A m, k : m = pc[q] /\ k = loc[q] => ClearedAt(m, k)'
    BY <2>2, ClearedStays
  <2> QED BY <1>1, <2>1, <2>3
<1> QED BY <1>2, <1>3 DEF ConsentGuarded

\* A silent step keeps consent if it moves to where the process is cleared.
LEMMA SilentKeepsConsent ==
  ASSUME TypeOK, ConsentGuarded, NEW p \in Procs, UNCHANGED <<db, world>>,
         NEW l, NEW r \in Locals, Goto(p, l, r), ClearedAt(l, r)
  PROVE  ConsentGuarded'
<1>1. UNCHANGED <<contract, status, decisions, ran>>
  BY DEF db, world
<1>2. ConsentGrows
  BY <1>1, UnchangedConsents
<1>3. ClearedAt(l, r)'
  BY <1>1, <1>2, ClearedStays
<1>4. status' \in Unentered \/ Consented(Initial)'
  BY <1>1 DEF ConsentGuarded, Consented
<1>5. RanWithConsent'
  BY <1>1, <1>2, PermittedStays DEF ConsentGuarded, RanWithConsent
<1> QED BY <1>1, <1>2, <1>3, <1>4, <1>5, MoveKeepsConsent

\* The labels at which a process has passed nothing.
LEMMA NothingPassed ==
  ASSUME NEW r,
         NEW l \in {"idle", "authorize", "decide", "running_steps", "lookup", "recover",
                    "status", "request", "record", "store", "remaining", "finish",
                    "rollback_steps", "undo", "undo_mark", "undo_dispatch", "undo_record",
                    "undo_done"}
  PROVE  l \in PCs /\ ClearedAt(l, r) /\ ClearedAt(l, r)'
BY DEF ClearedAt, PCs

\* A command that ends keeps consent.
LEMMA ReturnKeepsConsent ==
  ASSUME TypeOK, ConsentGuarded, NEW p \in Procs, Return(p), UNCHANGED <<db, world>>
  PROVE  ConsentGuarded'
BY FreshType, NothingPassed, SilentKeepsConsent DEF Return

\* A command that begins has passed nothing; pause and cancel start nothing.
LEMMA CommandKeepsConsent ==
  ASSUME TypeOK, ConsentGuarded, NEW p \in Procs, Command(p)
  PROVE  ConsentGuarded'
<1>1. \A c \in CommandNames : [Fresh EXCEPT !.cmd = c] \in Locals
  BY FreshType, LocalsUpdate
<1>2. CASE Authorize(p) \/ Rollback(p)
  BY <1>1, <1>2, NothingPassed, SilentKeepsConsent, Zenon DEF Authorize, Rollback, CommandNames
<1>3. CASE Decide(p)
  <2>1. PICK g \in requested, v \in {"approved", "denied"} :
          Goto(p, "decide", [Fresh EXCEPT !.cmd = "decide", !.gate = g, !.verdict = v])
    BY <1>3, Zenon DEF Decide
  <2>2. [Fresh EXCEPT !.cmd = "decide", !.gate = g, !.verdict = v] \in Locals
    BY FreshType, LocalsUpdate, Zenon DEF TypeOK, CommandNames
  <2> QED BY <1>3, <2>1, <2>2, NothingPassed, SilentKeepsConsent, Zenon DEF Decide
<1>4. CASE RunOne(p) \/ Resume(p)
  <2>1. PICK c \in {"run", "resume"} : StartRecover(p, c)
    BY <1>4 DEF RunOne, Resume
  <2>2. [Fresh EXCEPT !.cmd = c] \in Locals /\ [Fresh EXCEPT !.cmd = c].cmd = c
    BY <1>1 DEF CommandNames, Fresh
  <2>3. PICK l \in {"running_steps", "status", "resume"} :
          Goto(p, l, [Fresh EXCEPT !.cmd = c]) /\ (l = "resume" => c # "run")
    BY <2>1 DEF StartRecover
  <2>4. ClearedAt(l, [Fresh EXCEPT !.cmd = c])
    BY <2>2, <2>3 DEF ClearedAt
  <2>5. UNCHANGED <<db, world>>
    BY <2>1 DEF StartRecover
  <2> QED BY <2>2, <2>3, <2>4, <2>5, SilentKeepsConsent
<1>5. ASSUME NEW c \in {"pause", "cancel"}, NEW g \in {"blocked", "cancelled"},
             Goto(p, "want", [Fresh EXCEPT !.cmd = c, !.goal = g]), UNCHANGED <<db, world>>
      PROVE  ConsentGuarded'
  <2>1. [Fresh EXCEPT !.cmd = c, !.goal = g] \in Locals
    BY FreshType, LocalsUpdate, Zenon DEF CommandNames, STATES
  <2>2. ClearedAt("want", [Fresh EXCEPT !.cmd = c, !.goal = g])
    BY DEF ClearedAt, Fresh, Targets
  <2> QED BY <1>5, <2>1, <2>2, SilentKeepsConsent
<1> QED BY <1>2, <1>3, <1>4, <1>5, Zenon DEF Command, Pause, Cancel

\* recover hands over to the command that called it, with nothing passed.
LEMMA AfterRecoverCleared ==
  ASSUME TypeOK, NEW p \in Procs, AfterRecover(p)
  PROVE  \E l \in PCs, r \in Locals : Goto(p, l, r) /\ ClearedAt(l, r)'
                                        /\ ClearedAt(l, r)
<1>1. [Fresh EXCEPT !.cmd = loc[p].cmd] \in Locals
  BY LocType, FreshType, LocalsUpdate, Zenon
<1>2. [Fresh EXCEPT !.cmd = loc[p].cmd].cmd = loc[p].cmd
  BY DEF Fresh
<1>3. PICK l \in {"status", "resume"} :
        Goto(p, l, [Fresh EXCEPT !.cmd = loc[p].cmd]) /\ (l = "resume" => loc[p].cmd # "run")
  BY DEF AfterRecover
<1>4. \A r : r.cmd = loc[p].cmd => ClearedAt(l, r) /\ ClearedAt(l, r)'
  BY <1>3 DEF ClearedAt
<1> QED BY <1>1, <1>2, <1>3, <1>4 DEF PCs

\* The silent steps of a transition, and of recover and resume.
LEMMA RecoveryReadsKeepConsent ==
  ASSUME TypeOK, ConsentGuarded, NEW p \in Procs,
         Want(p) \/ RunningSteps(p) \/ Lookup(p) \/ ResumeStatus(p) \/ ResumeCheck(p)
  PROVE  ConsentGuarded'
<1>1. loc[p] \in Locals /\ ClearedAt(pc[p], loc[p])
  BY LocType DEF ConsentGuarded
<1>2. CASE Want(p)
  <2>1. CASE Return(p)
    BY <1>2, <2>1, ReturnKeepsConsent DEF Want
  <2>2. CASE Goto(p, "transition", [loc[p] EXCEPT !.seen = status]) /\ Allowed(status, loc[p].goal)
    <3>1. [loc[p] EXCEPT !.seen = status] \in Locals
      BY <1>1, LocalsUpdate, Zenon DEF TypeOK
    <3>2. ClearedAt("want", loc[p])
      BY <1>1, <1>2 DEF Want, At
    <3>3. loc[p].goal \in Unentered \/ Consented(Initial)
      BY <2>2, <3>2, EnteredBefore DEF ClearedAt, ConsentGuarded
    <3>4. ClearedAt("transition", [loc[p] EXCEPT !.seen = status])
      <4>1. ASSUME NEW r, r.goal = loc[p].goal, r.cmd = loc[p].cmd, r.step = loc[p].step
            PROVE  ClearedAt("transition", r)
        BY <3>2, <3>3, <4>1 DEF ClearedAt
      <4>2. /\ [loc[p] EXCEPT !.seen = status].goal = loc[p].goal
            /\ [loc[p] EXCEPT !.seen = status].cmd = loc[p].cmd
            /\ [loc[p] EXCEPT !.seen = status].step = loc[p].step
        BY <1>1 DEF Locals
      <4> QED BY <4>1, <4>2
    <3> QED BY <1>2, <2>2, <3>1, <3>4, SilentKeepsConsent DEF Want
  <2> QED BY <1>2, <2>1, <2>2, Zenon DEF Want
<1>3. CASE RunningSteps(p)
  <2>1. CASE AfterRecover(p)
    BY <1>3, <2>1, AfterRecoverCleared, SilentKeepsConsent, Zenon DEF RunningSteps
  <2>2. ASSUME NEW s \in {t \in Steps : step[t] = "running"},
               Goto(p, "lookup", [loc[p] EXCEPT !.list = {t \in Steps : step[t] = "running"},
                                                !.step = s])
        PROVE  ConsentGuarded'
    <3>1. [loc[p] EXCEPT !.list = {t \in Steps : step[t] = "running"}, !.step = s] \in Locals
      BY <1>1, LocalsUpdate, Zenon
    <3> QED BY <1>3, <2>2, <3>1, NothingPassed, SilentKeepsConsent, Zenon DEF RunningSteps
  <2> QED BY <1>3, <2>1, <2>2, Zenon DEF RunningSteps
<1>4. CASE Lookup(p)
  <2>1. inv[loc[p].step] \in Outcomes
    BY LocType DEF TypeOK
  <2>2. [loc[p] EXCEPT !.found = inv[loc[p].step]] \in Locals
    BY <1>1, <2>1, LocalsUpdate, Zenon
  <2> QED BY <1>4, <2>2, NothingPassed, SilentKeepsConsent, Zenon DEF Lookup
<1>5. CASE ResumeStatus(p)
  <2>1. loc[p].cmd # "run"
    BY <1>1, <1>5 DEF ResumeStatus, At, ClearedAt
  <2>2. ClearedAt("uncertain", loc[p])
    BY <2>1 DEF ClearedAt
  <2> QED BY <1>1, <1>5, <2>2, SilentKeepsConsent, ReturnKeepsConsent, Zenon DEF ResumeStatus
<1>6. CASE ResumeCheck(p)
  <2>1. loc[p].cmd # "run"
    BY <1>1, <1>6 DEF ResumeCheck, At, ClearedAt
  <2>2. [loc[p] EXCEPT !.goal = "running"] \in Locals
    BY <1>1, LocalsUpdate DEF STATES
  <2>3. /\ [loc[p] EXCEPT !.goal = "running"].goal = "running"
        /\ [loc[p] EXCEPT !.goal = "running"].cmd # "run"
    BY <1>1, <2>1 DEF Locals
  <2>4. ClearedAt("want", [loc[p] EXCEPT !.goal = "running"])
    BY <2>3 DEF ClearedAt, Targets
  <2> QED BY <1>6, <2>2, <2>4, SilentKeepsConsent, ReturnKeepsConsent, Zenon DEF ResumeCheck
<1> QED BY <1>2, <1>3, <1>4, <1>5, <1>6

\* What the updated locals hold.
LEMMA LocalsGet ==
  ASSUME NEW r \in Locals
  PROVE  /\ \A v : [r EXCEPT !.goal = v].goal = v /\ [r EXCEPT !.goal = v].step = r.step
         /\ \A s : [r EXCEPT !.step = s].step = s
         /\ \A s, v : [r EXCEPT !.step = s, !.goal = v].goal = v
BY DEF Locals

\* Going on to a transition that does not start execution needs nothing.
LEMMA WantKeepsConsent ==
  ASSUME TypeOK, ConsentGuarded, NEW p \in Procs, UNCHANGED <<db, world>>,
         NEW r \in Locals, Goto(p, "want", r),
         r.goal \in Targets, r.goal # "running"
  PROVE  ConsentGuarded'
<1>1. ClearedAt("want", r)
  BY DEF ClearedAt
<1> QED BY <1>1, SilentKeepsConsent DEF PCs

\* The silent steps of run_one: what each one has checked, the next ones keep.
LEMMA RunReadsKeepConsent ==
  ASSUME TypeOK, ConsentGuarded, NEW p \in Procs,
         RunStatus(p) \/ SelectStep(p) \/ CheckBudget(p) \/ CheckAuthority(p)
           \/ CheckIrreversible(p) \/ Remaining(p) \/ Finish(p)
  PROVE  ConsentGuarded'
<1> USE ReturnKeepsConsent
<1>1. /\ loc[p] \in Locals
      /\ loc[p].step \in Steps
      /\ ClearedAt(pc[p], loc[p])
  BY LocType DEF ConsentGuarded
<1>2. \A v \in STATES : /\ [loc[p] EXCEPT !.goal = v] \in Locals
                        /\ [loc[p] EXCEPT !.goal = v].goal = v
                        /\ [loc[p] EXCEPT !.goal = v].step = loc[p].step
  BY <1>1, LocalsUpdate, LocalsGet, Zenon
<1>3. CASE RunStatus(p)
  <2>1. [loc[p] EXCEPT !.seen = status] \in Locals
    BY <1>1, LocalsUpdate, Zenon DEF TypeOK
  <2>2. CASE status \in Runnable
    <3>1. Consented(Initial)
      BY <2>2 DEF ConsentGuarded, Runnable, Unentered
    <3>2. \A r : ClearedAt("select", r)
      BY <3>1 DEF ClearedAt
    <3> QED BY <1>3, <2>1, <2>2, <3>2, SilentKeepsConsent, Zenon DEF RunStatus
  <2> QED BY <1>3, <2>2, Zenon DEF RunStatus
<1>4. CASE SelectStep(p)
  <2>1. Consented(Initial)
    BY <1>1, <1>4 DEF SelectStep, At, ClearedAt
  <2>2. CASE Goto(p, "finish", loc[p])
    BY <1>1, <1>4, <2>2, NothingPassed, SilentKeepsConsent, Zenon DEF SelectStep
  <2>3. ASSUME NEW s \in Steps, Goto(p, "want", [loc[p] EXCEPT !.step = s, !.goal = "blocked"])
        PROVE  ConsentGuarded'
    <3>1. /\ [loc[p] EXCEPT !.step = s, !.goal = "blocked"] \in Locals
          /\ [loc[p] EXCEPT !.step = s, !.goal = "blocked"].goal = "blocked"
      BY <1>1, LocalsUpdate, LocalsGet, Zenon DEF STATES
    <3>2. /\ [loc[p] EXCEPT !.step = s, !.goal = "blocked"].goal \in Targets
          /\ [loc[p] EXCEPT !.step = s, !.goal = "blocked"].goal # "running"
      BY <3>1 DEF Targets
    <3> QED BY <1>4, <2>3, <3>1, <3>2, WantKeepsConsent, Zenon DEF SelectStep
  <2>4. ASSUME NEW s \in Steps, s \notin contract.outside,
               Goto(p, "budget", [loc[p] EXCEPT !.step = s])
        PROVE  ConsentGuarded'
    <3>1. /\ [loc[p] EXCEPT !.step = s] \in Locals
          /\ [loc[p] EXCEPT !.step = s].step = s
      BY <1>1, LocalsUpdate, LocalsGet, Zenon
    <3>2. ClearedAt("budget", [loc[p] EXCEPT !.step = s])
      BY <2>1, <2>4, <3>1 DEF ClearedAt
    <3> QED BY <1>4, <2>4, <3>1, <3>2, SilentKeepsConsent, Zenon DEF SelectStep
  <2> QED BY <1>4, <2>2, <2>3, <2>4, Zenon DEF SelectStep
<1>5. CASE CheckBudget(p)
  <2>1. ClearedAt("authority", loc[p])
    BY <1>1, <1>5 DEF CheckBudget, At, ClearedAt
  <2>2. CASE Goto(p, "want", [loc[p] EXCEPT !.goal = "failed"])
    BY <1>2, <1>5, <2>2, WantKeepsConsent DEF CheckBudget, STATES, Targets
  <2> QED BY <1>1, <1>5, <2>1, <2>2, SilentKeepsConsent, Zenon DEF CheckBudget
<1>6. ASSUME NEW g \in Gates, Goto(p, "request", [loc[p] EXCEPT !.gate = g]),
             UNCHANGED <<db, world>>
      PROVE  ConsentGuarded'
  <2>1. [loc[p] EXCEPT !.gate = g] \in Locals
    BY <1>1, LocalsUpdate, Zenon
  <2> QED BY <1>6, <2>1, NothingPassed, SilentKeepsConsent, Zenon
<1>7. CASE CheckAuthority(p)
  <2>1. CASE loc[p].step \in contract.expanded /\ ~Approved(<<"authority", loc[p].step>>)
    BY <1>1, <1>6, <1>7, <2>1, GateTypes, Zenon DEF CheckAuthority
  <2>2. CASE ~(loc[p].step \in contract.expanded /\ ~Approved(<<"authority", loc[p].step>>))
    <3>1. ClearedAt("irreversible", loc[p])
      BY <1>1, <1>7, <2>2, GateTypes, ApprovedIsConsented DEF CheckAuthority, At, ClearedAt
    <3> QED BY <1>1, <1>7, <2>2, <3>1, SilentKeepsConsent, Zenon DEF CheckAuthority
  <2> QED BY <2>1, <2>2
<1>8. CASE CheckIrreversible(p)
  <2>1. CASE loc[p].step \in contract.irreversible /\ ~Approved(<<"irreversible", loc[p].step>>)
    BY <1>1, <1>6, <1>8, <2>1, GateTypes, Zenon DEF CheckIrreversible
  <2>2. CASE ~(loc[p].step \in contract.irreversible /\ ~Approved(<<"irreversible", loc[p].step>>))
    <3>1. Permitted(loc[p].step)
      BY <1>1, <1>8, <2>2, GateTypes, ApprovedIsConsented
         DEF CheckIrreversible, At, ClearedAt, Permitted
    <3>2. ClearedAt("claim", loc[p])
      BY <3>1 DEF ClearedAt
    <3>3. CASE Goto(p, "want", [loc[p] EXCEPT !.goal = "running"])
      <4>1. /\ [loc[p] EXCEPT !.goal = "running"] \in Locals
            /\ [loc[p] EXCEPT !.goal = "running"].goal = "running"
            /\ [loc[p] EXCEPT !.goal = "running"].step = loc[p].step
        BY <1>2 DEF STATES
      <4>2. ClearedAt("want", [loc[p] EXCEPT !.goal = "running"])
        BY <3>1, <4>1 DEF ClearedAt, Targets
      <4> QED BY <1>8, <3>3, <4>1, <4>2, SilentKeepsConsent, Zenon DEF CheckIrreversible
    <3> QED BY <1>1, <1>8, <2>2, <3>2, <3>3, SilentKeepsConsent, Zenon DEF CheckIrreversible
  <2> QED BY <2>1, <2>2
<1>9. CASE Remaining(p)
  BY <1>1, <1>9, NothingPassed, SilentKeepsConsent, Zenon DEF Remaining
<1>10. CASE Finish(p)
  <2>1. PICK v \in {"completed", "blocked"} : Goto(p, "want", [loc[p] EXCEPT !.goal = v])
    BY <1>10 DEF Finish
  <2> QED BY <1>2, <1>10, <2>1, WantKeepsConsent DEF Finish, STATES, Targets
<1> QED BY <1>3, <1>4, <1>5, <1>7, <1>8, <1>9, <1>10

\* rollback passes nothing: it runs no step's handler.
LEMMA RollbackReadsKeepConsent ==
  ASSUME TypeOK, ConsentGuarded, NEW p \in Procs, RollbackSteps(p) \/ UndoNext(p) \/ UndoEnd(p)
  PROVE  ConsentGuarded'
<1>1. loc[p] \in Locals /\ loc[p].list \in SUBSET Steps
  BY LocType
<1>2. CASE RollbackSteps(p)
  <2>1. [loc[p] EXCEPT !.list = {s \in Steps : step[s] \in Undoable},
                       !.half = {s \in Steps : step[s] = "rollback_running"}] \in Locals
    BY <1>1, LocalsUpdate, Zenon
  <2> QED BY <1>2, <2>1, NothingPassed, SilentKeepsConsent, Zenon DEF RollbackSteps
<1>3. CASE UndoNext(p)
  <2>1. PICK s \in loc[p].list : UndoStep(p, s)
    BY <1>3, Zenon DEF UndoNext
  <2>2. \A bad : Reported(loc[p], s, bad) \in Locals
    BY <1>1, ReportedType
  <2>3. [loc[p] EXCEPT !.step = s] \in Locals
    BY <1>1, LocalsUpdate, Zenon
  <2>4. \/ Goto(p, "undo", Reported(loc[p], s, s \in contract.effects))
        \/ Goto(p, "undo", Reported(loc[p], s, TRUE))
        \/ Goto(p, "undo_done", [loc[p] EXCEPT !.step = s])
        \/ Goto(p, "undo_mark", [loc[p] EXCEPT !.step = s])
    BY <2>1, Zenon DEF UndoStep
  <2> QED BY <1>3, <2>2, <2>3, <2>4, NothingPassed, SilentKeepsConsent, Zenon DEF UndoNext
<1>4. CASE UndoEnd(p)
  <2>1. /\ [loc[p] EXCEPT !.goal = "rolled_back"] \in Locals
        /\ [loc[p] EXCEPT !.goal = "rolled_back"].goal = "rolled_back"
    BY <1>1, LocalsUpdate, LocalsGet, Zenon DEF STATES
  <2>2. /\ [loc[p] EXCEPT !.goal = "rolled_back"].goal \in Targets
        /\ [loc[p] EXCEPT !.goal = "rolled_back"].goal # "running"
    BY <2>1 DEF Targets
  <2> QED BY <1>4, <2>1, <2>2, ReturnKeepsConsent, WantKeepsConsent, Zenon DEF UndoEnd
<1> QED BY <1>2, <1>3, <1>4

\* A step that runs no handler keeps RanWithConsent.
LEMMA NotRunning ==
  ASSUME TypeOK, ConsentGuarded, contract' = contract, ran' = ran, ConsentGrows
  PROVE  RanWithConsent'
BY PermittedStays DEF ConsentGuarded, RanWithConsent

\* The transactions that write the status.
LEMMA StatusWritesKeepConsent ==
  ASSUME TypeOK, ConsentGuarded, NEW p \in Procs,
         Transition(p) \/ AuthorizeCommit(p) \/ DecideCommit(p) \/ Recover(p)
  PROVE  ConsentGuarded'
<1>1. loc[p] \in Locals /\ ClearedAt(pc[p], loc[p])
  BY LocType DEF ConsentGuarded
<1>2. CASE Transition(p)
  <2>1. /\ UNCHANGED <<contract, decisions, ran>>
        /\ status' = loc[p].goal
        /\ ClearedAt("transition", loc[p])
    BY <1>1, <1>2 DEF Transition, Write, world, At
  <2>2. ConsentGrows
    BY <2>1, UnchangedConsents
  <2>3. status' \in Unentered \/ Consented(Initial)'
    BY <2>1 DEF ClearedAt, Consented
  <2>4. RanWithConsent'
    BY <2>1, <2>2, NotRunning
  <2>5. CASE Return(p)
    BY <2>1, <2>2, <2>3, <2>4, <2>5, NothingPassed, MoveKeepsConsent, Zenon DEF Return
  <2>6. CASE Goto(p, "claim", loc[p]) /\ loc[p].cmd = "run" /\ loc[p].goal = "running"
    <3>1. ClearedAt("claim", loc[p])
      BY <2>1, <2>6 DEF ClearedAt
    <3>2. \A l, r : l = "claim" /\ r = loc[p] => ClearedAt(l, r)'
      BY <1>1, <2>1, <2>2, <3>1, ClearedStays
    <3> QED BY <2>1, <2>2, <2>3, <2>4, <2>6, <3>2, MoveKeepsConsent
  <2> QED BY <1>2, <2>5, <2>6, Zenon DEF Transition
<1>3. ASSUME Return(p), UNCHANGED <<contract, ran>>, ConsentGrows,
             status' \in Unentered \/ Consented(Initial)'
      PROVE  ConsentGuarded'
  <2>1. RanWithConsent'
    BY <1>3, NotRunning
  <2> QED BY <1>3, <2>1, NothingPassed, MoveKeepsConsent, Zenon DEF Return
<1>4. status \in Unentered \/ Consented(Initial)
  BY DEF ConsentGuarded
<1>5. CASE AuthorizeCommit(p)
  <2>1. CASE Allowed(status, "authorized")
    <3>1. decisions' = [decisions EXCEPT ![Initial] = Append(@, "approved")]
      BY <1>5, <2>1 DEF AuthorizeCommit
    <3>2. ConsentGrows /\ Consented(Initial)'
      BY <3>1, AppendConsents DEF Gates
    <3> QED BY <1>3, <1>5, <3>2 DEF AuthorizeCommit, world
  <2>2. CASE UNCHANGED <<decisions, status, trail>>
    BY <1>3, <1>4, <1>5, <2>2, UnchangedConsents DEF AuthorizeCommit, world, Consented
  <2> QED BY <1>5, <2>1, <2>2 DEF AuthorizeCommit
<1>6. CASE DecideCommit(p)
  <2> DEFINE target == IF loc[p].verdict = "approved" THEN "running" ELSE "failed"
  <2>1. CASE Allowed(status, target)
    <3>1. decisions' = [decisions EXCEPT ![loc[p].gate] = Append(@, loc[p].verdict)]
      BY <1>6, <2>1 DEF DecideCommit
    <3>2. ConsentGrows
      BY <3>1, AppendConsents, LocType
    <3>3. Consented(Initial)
      <4>1. target \in Targets /\ target \notin Unentered
        BY DEF Targets, Unentered
      <4> QED BY <1>4, <2>1, <4>1, EnteredBefore
    <3>4. Consented(Initial)'
      BY <3>2, <3>3 DEF ConsentGrows, Gates
    <3> QED BY <1>3, <1>6, <3>2, <3>4 DEF DecideCommit, world
  <2>2. CASE UNCHANGED <<decisions, status, trail>>
    BY <1>3, <1>4, <1>6, <2>2, UnchangedConsents DEF DecideCommit, world, Consented
  <2> QED BY <1>6, <2>1, <2>2 DEF DecideCommit
<1>7. CASE Recover(p)
  <2>1. PICK l \in PCs, r \in Locals : Goto(p, l, r) /\ ClearedAt(l, r)'
    BY <1>7, AfterRecoverCleared, Zenon DEF Recover
  <2>2. UNCHANGED <<contract, decisions, ran>>
    BY <1>7 DEF Recover, world
  <2>3. ConsentGrows
    BY <2>2, UnchangedConsents
  <2>4. status' = status \/ status \in {"authorized", "running", "blocked"}
    BY <1>7 DEF Recover
  <2>5. status' \in Unentered \/ Consented(Initial)'
    BY <1>4, <2>2, <2>4 DEF Unentered, Consented
  <2>6. RanWithConsent'
    BY <2>2, <2>3, NotRunning
  <2> QED BY <2>1, <2>2, <2>3, <2>5, <2>6, MoveKeepsConsent
<1> QED BY <1>2, <1>5, <1>6, <1>7

\* A write that touches no consent, moving to a cleared label.
LEMMA WriteKeepsConsent ==
  ASSUME TypeOK, ConsentGuarded, NEW p \in Procs,
         UNCHANGED <<contract, status, decisions>>, RanWithConsent',
         NEW l, NEW r \in Locals, Goto(p, l, r), ClearedAt(l, r)
  PROVE  ConsentGuarded'
<1>1. ConsentGrows
  BY UnchangedConsents
<1>2. ClearedAt(l, r)'
  BY <1>1, ClearedStays
<1>3. status' \in Unentered \/ Consented(Initial)'
  BY DEF ConsentGuarded, Consented
<1> QED BY <1>1, <1>2, <1>3, MoveKeepsConsent

\* The writes of steps, requests and invocations, and the two dispatches.
LEMMA StepWritesKeepConsent ==
  ASSUME TypeOK, ConsentGuarded, NEW p \in Procs,
         Request(p) \/ Claim(p) \/ Dispatch(p) \/ Record(p) \/ StoreResult(p)
           \/ UndoMark(p) \/ UndoDispatch(p) \/ UndoRecord(p) \/ UndoDone(p)
  PROVE  ConsentGuarded'
<1>1. /\ loc[p] \in Locals
      /\ loc[p].step \in Steps
      /\ ClearedAt(pc[p], loc[p])
  BY LocType DEF ConsentGuarded
<1>2. UNCHANGED <<contract, status, decisions>>
  BY DEF Request, Claim, Dispatch, Record, StoreResult, UndoMark, UndoDispatch,
     UndoRecord, UndoDone, db
<1>3. RanWithConsent'
  <2>1. CASE ran' = ran
    BY <1>2, <2>1, UnchangedConsents, NotRunning
  <2>2. CASE Dispatch(p) /\ ran' # ran
    <3>1. ran' = [ran EXCEPT ![loc[p].step] = Tick(@)] /\ pc[p] = "dispatch"
      BY <2>2 DEF Dispatch, At
    <3>2. Permitted(loc[p].step)
      BY <1>1, <3>1 DEF ClearedAt
    <3>3. \A s \in Steps : s # loc[p].step => ran'[s] = ran[s]
      BY <1>1, <3>1 DEF TypeOK
    <3>4. \A s \in Steps : Permitted(s) => Permitted(s)'
      BY <1>2, UnchangedConsents, PermittedStays
    <3> QED BY <3>2, <3>3, <3>4 DEF ConsentGuarded, RanWithConsent
  <2>3. CASE ~Dispatch(p)
    <3>1. ran' = ran
      BY <2>3 DEF Request, Claim, Record, StoreResult, UndoMark, UndoDispatch,
         UndoRecord, UndoDone, world
    <3> QED BY <2>1, <3>1
  <2> QED BY <2>1, <2>2, <2>3
<1>4. ASSUME Return(p) PROVE ConsentGuarded'
  BY <1>2, <1>3, <1>4, FreshType, NothingPassed, WriteKeepsConsent, Zenon DEF Return
<1>5. ASSUME NEW v \in {"awaiting_approval", "failed"},
             Goto(p, "want", [loc[p] EXCEPT !.goal = v])
      PROVE  ConsentGuarded'
  <2>1. /\ [loc[p] EXCEPT !.goal = v] \in Locals
        /\ [loc[p] EXCEPT !.goal = v].goal = v
    BY <1>1, LocalsUpdate, LocalsGet, Zenon DEF STATES
  <2>2. ClearedAt("want", [loc[p] EXCEPT !.goal = v])
    BY <2>1 DEF ClearedAt, Targets
  <2> QED BY <1>2, <1>3, <1>5, <2>1, <2>2, WriteKeepsConsent
<1>6. CASE Request(p)
  BY <1>5, <1>6, Zenon DEF Request
<1>7. CASE Claim(p)
  <2>1. ClearedAt("dispatch", loc[p])
    BY <1>1, <1>7 DEF Claim, At, ClearedAt
  <2> QED BY <1>1, <1>2, <1>3, <1>4, <1>7, <2>1, WriteKeepsConsent, Zenon DEF Claim
<1>8. CASE Dispatch(p) \/ UndoDispatch(p)
  <2>1. \A o \in {"success", "failure"} : [loc[p] EXCEPT !.found = o] \in Locals
    BY <1>1, LocalsUpdate DEF Outcomes
  <2>2. \E o \in {"success", "failure"}, l \in {"record", "undo_record"} :
          Goto(p, l, [loc[p] EXCEPT !.found = o])
    BY <1>8, Zenon DEF Dispatch, UndoDispatch
  <2>3. \A l \in {"record", "undo_record"} : \A r : ClearedAt(l, r)
    BY NothingPassed
  <2> QED BY <1>2, <1>3, <2>1, <2>2, <2>3, WriteKeepsConsent, Zenon
<1>9. CASE Record(p) \/ UndoMark(p)
  BY <1>1, <1>2, <1>3, <1>9, NothingPassed, WriteKeepsConsent, Zenon DEF Record, UndoMark
<1>10. CASE StoreResult(p)
  BY <1>1, <1>2, <1>3, <1>5, <1>10, NothingPassed, WriteKeepsConsent, Zenon DEF StoreResult
<1>11. CASE UndoRecord(p) \/ UndoDone(p)
  <2>1. \A s, bad : Reported(loc[p], s, bad) \in Locals
    BY <1>1, ReportedType
  <2> QED BY <1>1, <1>2, <1>3, <1>11, <2>1, NothingPassed, WriteKeepsConsent, Zenon
          DEF UndoRecord, UndoDone
<1> QED BY <1>6, <1>7, <1>8, <1>9, <1>10, <1>11

\* Initially the mission is absent, nothing has run and no process runs.
LEMMA InitConsent == Init => ConsentGuarded
<1> SUFFICES ASSUME Init PROVE ConsentGuarded
  OBVIOUS
<1>1. status \in Unentered
  BY DEF Init, Unentered
<1>2. \A p \in Procs : ClearedAt(pc[p], loc[p])
  BY DEF Init, ClearedAt
<1>3. RanWithConsent
  BY DEF Init, RanWithConsent
<1> QED BY <1>1, <1>2, <1>3 DEF ConsentGuarded

\* Every step preserves what each runner has passed on its way to the handler.
LEMMA NextConsent == TypeOK /\ ConsentGuarded /\ [Next]_vars => ConsentGuarded'
<1> SUFFICES ASSUME TypeOK, ConsentGuarded, [Next]_vars PROVE ConsentGuarded'
  OBVIOUS
<1>1. CASE Create \/ UNCHANGED vars
  <2>1. UNCHANGED <<contract, decisions, ran, pc, loc>>
    BY <1>1 DEF Create, vars, db, world
  <2>2. status' = status \/ status' = "proposed"
    BY <1>1 DEF Create, Write, vars, db
  <2> QED BY <2>1, <2>2
          DEF ConsentGuarded, ClearedAt, RanWithConsent, Permitted, Consented, Unentered
<1>2. ASSUME NEW p \in Procs, Command(p) PROVE ConsentGuarded'
  BY <1>2, CommandKeepsConsent
<1>3. ASSUME NEW p \in Procs, Work(p) PROVE ConsentGuarded'
  BY <1>3, RecoveryReadsKeepConsent, RunReadsKeepConsent, RollbackReadsKeepConsent,
     StatusWritesKeepConsent, StepWritesKeepConsent, Zenon DEF Work
<1>4. ASSUME NEW p \in Procs, Crash(p) PROVE ConsentGuarded'
  BY <1>4, ReturnKeepsConsent DEF Crash
<1> QED BY <1>1, <1>2, <1>3, <1>4 DEF Next

\* Whatever runners, operators and crashes do, a step that ran lies inside the
\* capability envelope of an authorized mission, and each of its human gates
\* was approved.
THEOREM StepsRunWithConsent == Spec => []RanWithConsent
<1>1. ConsentGuarded => RanWithConsent
  BY DEF ConsentGuarded
<1> QED BY <1>1, InitType, NextType, InitConsent, NextConsent, PTL DEF Spec
=============================================================================
