---------------------------- MODULE MissionEngine ----------------------------
(***************************************************************************)
(* One durable mission (src/erasmus/missions.py) stored in SQLite and      *)
(* driven by operating-system processes that each run one mission command  *)
(* at a time, calling the capability runtime                               *)
(* (src/erasmus/capability_runtime.py) for every step and every rollback.  *)
(*                                                                         *)
(* Atomicity is SQLite's.  Outside an open transaction every SELECT sees   *)
(* the last commit on its own, and Python opens a transaction only at the  *)
(* first INSERT or UPDATE of a `with store.db` block: what such a block    *)
(* reads before its first write is NOT protected by it.  Each SELECT and   *)
(* each transaction is therefore one action, and a command is a sequence   *)
(* of them through pc[p]; what it has read is in loc[p].  A command that   *)
(* raises MissionError, like one that ends, goes back to "idle".           *)
(***************************************************************************)
EXTENDS Naturals, Sequences, FiniteSets

CONSTANTS
  Procs,      \* processes that share the database file
  NumSteps,   \* steps of the mission contract; a step is its position
  Contracts,  \* the contracts an operator may create the mission from
  Commands    \* [Procs -> SUBSET CommandNames]: the commands each one issues

Steps == 1 .. NumSteps

CommandNames == {"authorize", "decide", "run", "pause", "resume", "cancel", "rollback"}

\* How a step's declared rollback may turn out: not declared, outside the
\* mission's capability or authority envelope, without or with side effects.
RollbackKinds == {"none", "outside", "pure", "effect"}

\* What the properties can tell apart in a contract_json: the steps that
\* declare side effects, are irreversible, need an authority the envelope
\* lacks, or name a capability outside the envelope; their rollbacks;
\* max_steps; and whether the steps' evidence covers evidence_requirements.
ContractType ==
  [effects : SUBSET Steps, irreversible : SUBSET Steps, expanded : SUBSET Steps,
   outside : SUBSET Steps, rollback : [Steps -> RollbackKinds],
   budget : Nat, evidence : BOOLEAN]

ASSUME ContractAssumption ==
  /\ NumSteps \in Nat \ {0}
  /\ Contracts \subseteq ContractType
  /\ \A c \in Contracts : c.budget >= 1
  /\ Commands \in [Procs -> SUBSET CommandNames]

STATES == {"draft", "proposed", "authorized", "running", "blocked",
           "awaiting_approval", "completed", "failed", "cancelled", "rolled_back"}

TRANSITIONS ==
  UNION {{"draft"} \X {"proposed", "cancelled"},
         {"proposed"} \X {"authorized", "cancelled"},
         {"authorized"} \X {"running", "blocked", "awaiting_approval", "failed", "cancelled"},
         {"running"} \X {"blocked", "awaiting_approval", "completed", "failed", "cancelled"},
         {"blocked"} \X {"running", "failed", "cancelled", "rolled_back"},
         {"awaiting_approval"} \X {"running", "failed", "cancelled"},
         {"completed", "failed", "cancelled"} \X {"rolled_back"}}

StepStatus == {"pending", "running", "completed", "failed", "uncertain",
               "rollback_running", "rolled_back"}

\* mission_approvals.request_key: the initial authorization, and for a step the
\* keys authority:<step> and irreversible:<step>.
Initial == <<"initial", 0>>
Gates == {Initial} \cup ({"authority", "irreversible"} \X Steps)

VARIABLES
  contract,   \* missions.contract_json
  status,     \* missions.status, "absent" before create
  trail,      \* the last row of mission_transitions
  step,       \* mission_steps.status
  inv,        \* outcome of the latest capability_invocations row of each step
  undo,       \* the same for step id "rollback:<step>"
  requested,  \* gates with a 'requested' row in mission_approvals
  decisions,  \* the other mission_approvals rows of each gate, oldest first
  ran,        \* how often the step's handler ran (2 stands for more than once)
  undone,     \* how often its rollback's handler ran
  pc, loc     \* where each process is, and what it has read

db    == <<contract, status, trail, step, inv, undo, requested, decisions>>
world == <<ran, undone>>
vars  == <<db, world, pc, loc>>

Outcomes == {"none", "success", "failure"}

Fresh == [cmd |-> "none", seen |-> "absent", goal |-> "draft", step |-> 1,
          list |-> {}, half |-> {}, found |-> "none", gate |-> Initial,
          verdict |-> "denied", clean |-> TRUE]

Locals == [cmd : CommandNames \cup {"none"}, seen : STATES \cup {"absent"},
           goal : STATES, step : Steps, list : SUBSET Steps, half : SUBSET Steps,
           found : Outcomes, gate : Gates, verdict : {"approved", "denied"},
           clean : BOOLEAN]

PCs == {"idle", "authorize", "decide", "want", "transition",
        "running_steps", "lookup", "recover", "resume", "uncertain",
        "status", "select", "budget", "authority", "irreversible", "request",
        "claim", "dispatch", "record", "store", "remaining", "finish",
        "rollback_steps", "undo", "undo_mark", "undo_dispatch", "undo_record", "undo_done"}

TypeOK ==
  /\ contract \in Contracts
  /\ status \in STATES \cup {"absent"}
  /\ trail \in [from : STATES \cup {"absent"}, to : STATES]
  /\ step \in [Steps -> StepStatus]
  /\ inv \in [Steps -> Outcomes]
  /\ undo \in [Steps -> Outcomes]
  /\ requested \subseteq Gates
  /\ decisions \in [Gates -> Seq({"approved", "denied"})]
  /\ ran \in [Steps -> 0 .. 2]
  /\ undone \in [Steps -> 0 .. 2]
  /\ pc \in [Procs -> PCs]
  /\ loc \in [Procs -> Locals]

Init ==
  /\ contract \in Contracts
  /\ status = "absent"
  /\ trail = [from |-> "draft", to |-> "draft"]
  /\ step = [s \in Steps |-> "pending"]
  /\ inv = [s \in Steps |-> "none"]
  /\ undo = [s \in Steps |-> "none"]
  /\ requested = {}
  /\ decisions = [g \in Gates |-> <<>>]
  /\ ran = [s \in Steps |-> 0]
  /\ undone = [s \in Steps |-> 0]
  /\ pc = [p \in Procs |-> "idle"]
  /\ loc = [p \in Procs |-> Fresh]

-----------------------------------------------------------------------------
(* Control flow of one process.                                            *)

At(p, l) == pc[p] = l

Goto(p, l, r) ==
  /\ pc' = [pc EXCEPT ![p] = l]
  /\ loc' = [loc EXCEPT ![p] = r]

Return(p) == Goto(p, "idle", Fresh)

\* A command begins on an existing mission.
Begins(p, c) ==
  /\ At(p, "idle")
  /\ c \in Commands[p]
  /\ status # "absent"

Tick(n) == IF n = 0 THEN 1 ELSE 2

-----------------------------------------------------------------------------
(* The status machine.                                                     *)

Allowed_Unchecked(from, to) == to \in STATES
Allowed(from, to) == <<from, to>> \in TRANSITIONS

\* The UPDATE and INSERT that end _transition_in_transaction.
Write(from, to) ==
  /\ status' = to
  /\ trail' = [from |-> from, to |-> to]

\* create: mission, steps and both first transitions in one transaction.
Create ==
  /\ status = "absent"
  /\ Write("draft", "proposed")
  /\ UNCHANGED <<contract, step, inv, undo, requested, decisions, world, pc, loc>>

\* _transition, its SELECT: no transaction is open yet.
Want(p) ==
  /\ At(p, "want")
  /\ IF Allowed(status, loc[p].goal)
       THEN Goto(p, "transition", [loc[p] EXCEPT !.seen = status])
       ELSE Return(p)
  /\ UNCHANGED <<db, world>>

\* _transition, its transaction; only run_one's execution_started goes on.
Transition(p) ==
  /\ At(p, "transition")
  /\ Write(loc[p].seen, loc[p].goal)
  /\ IF loc[p].cmd = "run" /\ loc[p].goal = "running"
       THEN Goto(p, "claim", loc[p])
       ELSE Return(p)
  /\ UNCHANGED <<contract, step, inv, undo, requested, decisions, world>>

Pause(p) ==
  /\ Begins(p, "pause")
  /\ Goto(p, "want", [Fresh EXCEPT !.cmd = "pause", !.goal = "blocked"])
  /\ UNCHANGED <<db, world>>

Cancel(p) ==
  /\ Begins(p, "cancel")
  /\ Goto(p, "want", [Fresh EXCEPT !.cmd = "cancel", !.goal = "cancelled"])
  /\ UNCHANGED <<db, world>>

-----------------------------------------------------------------------------
(* Human decisions.                                                        *)

Authorize(p) ==
  /\ Begins(p, "authorize")
  /\ status = "proposed"
  /\ Goto(p, "authorize", [Fresh EXCEPT !.cmd = "authorize"])
  /\ UNCHANGED <<db, world>>

\* The approval is inserted first, so the status is read again under the write
\* lock; an illegal transition rolls the approval back.
AuthorizeCommit(p) ==
  /\ At(p, "authorize")
  /\ IF Allowed(status, "authorized")
       THEN /\ decisions' = [decisions EXCEPT ![Initial] = Append(@, "approved")]
            /\ Write(status, "authorized")
       ELSE UNCHANGED <<decisions, status, trail>>
  /\ Return(p)
  /\ UNCHANGED <<contract, step, inv, undo, requested, world>>

Undecided(g) == decisions[g] = <<>>

\* decide_approval's three SELECTs as one: a gate undecided at the last of them
\* was undecided, and requested, at the first.
Decide(p) ==
  /\ Begins(p, "decide")
  /\ status = "awaiting_approval"
  /\ \E g \in requested, v \in {"approved", "denied"} :
       /\ Undecided(g)
       /\ Goto(p, "decide", [Fresh EXCEPT !.cmd = "decide", !.gate = g, !.verdict = v])
  /\ UNCHANGED <<db, world>>

DecideCommit(p) ==
  LET target == IF loc[p].verdict = "approved" THEN "running" ELSE "failed"
  IN  /\ At(p, "decide")
      /\ IF Allowed(status, target)
           THEN /\ decisions' = [decisions EXCEPT ![loc[p].gate] = Append(@, loc[p].verdict)]
                /\ Write(status, target)
           ELSE UNCHANGED <<decisions, status, trail>>
      /\ Return(p)
      /\ UNCHANGED <<contract, step, inv, undo, requested, world>>

-----------------------------------------------------------------------------
(* recover, which run_one and resume call first.                           *)

AfterRecover(p) ==
  Goto(p, IF loc[p].cmd = "run" THEN "status" ELSE "resume", [Fresh EXCEPT !.cmd = loc[p].cmd])

\* recover's status SELECT.
StartRecover(p, c) ==
  /\ Begins(p, c)
  /\ IF status \in {"running", "blocked", "authorized"}
       THEN Goto(p, "running_steps", [Fresh EXCEPT !.cmd = c])
       ELSE Goto(p, IF c = "run" THEN "status" ELSE "resume", [Fresh EXCEPT !.cmd = c])
  /\ UNCHANGED <<db, world>>

RunOne(p) == StartRecover(p, "run")
Resume(p) == StartRecover(p, "resume")

RunningSteps(p) ==
  LET running == {s \in Steps : step[s] = "running"}
  IN  /\ At(p, "running_steps")
      /\ IF running = {}
           THEN AfterRecover(p)
           ELSE \E s \in running :
                  Goto(p, "lookup", [loc[p] EXCEPT !.list = running, !.step = s])
      /\ UNCHANGED <<db, world>>

\* The first step's invocation is looked up before the first UPDATE, hence
\* before the transaction; those of the other steps inside it.
Lookup(p) ==
  /\ At(p, "lookup")
  /\ Goto(p, "recover", [loc[p] EXCEPT !.found = inv[loc[p].step]])
  /\ UNCHANGED <<db, world>>

\* What becomes of an interrupted step, given the invocation found for it.
Settled_BucketName(s, found) ==
  CASE found = "success" -> "completed"
    [] found = "failure" -> "failed"
    [] OTHER -> IF s \in contract.effects THEN "uncertain" ELSE "reset"
Settled(s, found) ==
  CASE found = "success" -> "completed"
    [] found = "failure" -> "failed"
    [] OTHER -> IF s \in contract.effects THEN "uncertain" ELSE "pending"

\* recover's transaction.  Its UPDATEs name the position only, so they also
\* overwrite a step that is no longer running; the status is read inside it.
Recover(p) ==
  LET found(s) == IF s = loc[p].step THEN loc[p].found ELSE inv[s]
      recovered(v) == \E s \in loc[p].list : Settled(s, found(s)) = v
  IN  /\ At(p, "recover")
      /\ step' = [s \in Steps |-> IF s \in loc[p].list THEN Settled(s, found(s)) ELSE step[s]]
      /\ CASE recovered("failed") /\ status \in {"authorized", "running", "blocked"} ->
                Write(status, "failed")
           [] ~recovered("failed") /\ recovered("uncertain") /\ status = "running" ->
                Write(status, "blocked")
           [] OTHER -> UNCHANGED <<status, trail>>
      /\ AfterRecover(p)
      /\ UNCHANGED <<contract, inv, undo, requested, decisions, world>>

\* resume after its recovery.
ResumeStatus(p) ==
  /\ At(p, "resume")
  /\ IF status = "blocked" THEN Goto(p, "uncertain", loc[p]) ELSE Return(p)
  /\ UNCHANGED <<db, world>>

ResumeCheck(p) ==
  /\ At(p, "uncertain")
  /\ IF \E s \in Steps : step[s] = "uncertain"
       THEN Return(p)
       ELSE Goto(p, "want", [loc[p] EXCEPT !.goal = "running"])
  /\ UNCHANGED <<db, world>>

-----------------------------------------------------------------------------
(* run_one after its recovery.                                             *)

Runnable == {"authorized", "running"}

RunStatus(p) ==
  /\ At(p, "status")
  /\ IF status \in Runnable
       THEN Goto(p, "select", [loc[p] EXCEPT !.seen = status])
       ELSE Return(p)
  /\ UNCHANGED <<db, world>>

\* ORDER BY position LIMIT 1, and the capability envelope.
NextStep_AnyOrder(s) == step[s] = "pending"
NextStep(s) == step[s] = "pending" /\ \A t \in 1 .. s - 1 : step[t] # "pending"

SelectStep(p) ==
  /\ At(p, "select")
  /\ \/ /\ \A s \in Steps : step[s] # "pending"
        /\ Goto(p, "finish", loc[p])
     \/ \E s \in Steps :
          /\ NextStep(s)
          /\ IF s \in contract.outside
               THEN Goto(p, "want", [loc[p] EXCEPT !.step = s, !.goal = "blocked"])
               ELSE Goto(p, "budget", [loc[p] EXCEPT !.step = s])
  /\ UNCHANGED <<db, world>>

OverBudget_OffByOne == Cardinality({s \in Steps : step[s] = "completed"}) > contract.budget
OverBudget == Cardinality({s \in Steps : step[s] = "completed"}) >= contract.budget

CheckBudget(p) ==
  /\ At(p, "budget")
  /\ IF OverBudget
       THEN Goto(p, "want", [loc[p] EXCEPT !.goal = "failed"])
       ELSE Goto(p, "authority", loc[p])
  /\ UNCHANGED <<db, world>>

\* _approved: the latest decision on the gate.
Approved_WhenRequested(g) == g \in requested
Approved(g) == decisions[g] # <<>> /\ decisions[g][Len(decisions[g])] = "approved"

CheckAuthority(p) ==
  LET g == <<"authority", loc[p].step>>
  IN  /\ At(p, "authority")
      /\ IF loc[p].step \in contract.expanded /\ ~Approved(g)
           THEN Goto(p, "request", [loc[p] EXCEPT !.gate = g])
           ELSE Goto(p, "irreversible", loc[p])
      /\ UNCHANGED <<db, world>>

CheckIrreversible(p) ==
  LET g == <<"irreversible", loc[p].step>>
  IN  /\ At(p, "irreversible")
      /\ IF loc[p].step \in contract.irreversible /\ ~Approved(g)
           THEN Goto(p, "request", [loc[p] EXCEPT !.gate = g])
         ELSE IF loc[p].seen = "authorized"
           THEN Goto(p, "want", [loc[p] EXCEPT !.goal = "running"])
           ELSE Goto(p, "claim", loc[p])
      /\ UNCHANGED <<db, world>>

\* _request_approval's lookup and INSERT as one: two rows for one gate are
\* told apart by nothing but their id.
Request(p) ==
  /\ At(p, "request")
  /\ requested' = requested \cup {loc[p].gate}
  /\ Goto(p, "want", [loc[p] EXCEPT !.goal = "awaiting_approval"])
  /\ UNCHANGED <<contract, status, trail, step, inv, undo, decisions, world>>

\* UPDATE ... WHERE status = 'pending', and its rowcount.
Claimable_Unguarded(s) == TRUE
Claimable(s) == step[s] = "pending"

Claim(p) ==
  LET s == loc[p].step
  IN  /\ At(p, "claim")
      /\ IF Claimable(s)
           THEN /\ step' = [step EXCEPT ![s] = "running"]
                /\ Goto(p, "dispatch", loc[p])
           ELSE UNCHANGED step /\ Return(p)
      /\ UNCHANGED <<contract, status, trail, inv, undo, requested, decisions, world>>

\* CapabilityRuntime.invoke up to its record: a refusal (lifecycle, authority,
\* side effects, provenance, input) never reaches the handler; a handler that
\* fails, times out or returns an invalid output has run.
Dispatch(p) ==
  /\ At(p, "dispatch")
  /\ \/ /\ Goto(p, "record", [loc[p] EXCEPT !.found = "failure"])
        /\ UNCHANGED ran
     \/ /\ ran' = [ran EXCEPT ![loc[p].step] = Tick(@)]
        /\ \E o \in {"success", "failure"} : Goto(p, "record", [loc[p] EXCEPT !.found = o])
  /\ UNCHANGED <<db, undone>>

\* _record: the immutable invocation row.
Record(p) ==
  /\ At(p, "record")
  /\ inv' = [inv EXCEPT ![loc[p].step] = loc[p].found]
  /\ Goto(p, "store", loc[p])
  /\ UNCHANGED <<contract, status, trail, step, undo, requested, decisions, world>>

\* The step's result is stored by position, whatever its status has become.
StoreResult(p) ==
  LET ok == loc[p].found = "success"
  IN  /\ At(p, "store")
      /\ step' = [step EXCEPT ![loc[p].step] = IF ok THEN "completed" ELSE "failed"]
      /\ IF ok THEN Goto(p, "remaining", loc[p])
               ELSE Goto(p, "want", [loc[p] EXCEPT !.goal = "failed"])
      /\ UNCHANGED <<contract, status, trail, inv, undo, requested, decisions, world>>

AllCompleted_NonePending == \A s \in Steps : step[s] # "pending"
AllCompleted == \A s \in Steps : step[s] = "completed"

Remaining(p) ==
  /\ At(p, "remaining")
  /\ IF AllCompleted THEN Goto(p, "finish", loc[p]) ELSE Return(p)
  /\ UNCHANGED <<db, world>>

\* _finish_if_complete; its "unless already blocked" is Want's refusal.
Finish(p) ==
  /\ At(p, "finish")
  /\ Goto(p, "want", [loc[p] EXCEPT !.goal =
       IF AllCompleted /\ contract.evidence THEN "completed" ELSE "blocked"])
  /\ UNCHANGED <<db, world>>

-----------------------------------------------------------------------------
(* rollback: declared rollbacks of settled steps, last position first.     *)

Rollback(p) ==
  /\ Begins(p, "rollback")
  /\ status \in {"completed", "failed", "cancelled", "blocked"}
  /\ Goto(p, "rollback_steps", [Fresh EXCEPT !.cmd = "rollback"])
  /\ UNCHANGED <<db, world>>

Undoable_CompletedOnly == {"completed", "rollback_running"}
Undoable == {"completed", "failed", "rollback_running"}

RollbackSteps(p) ==
  /\ At(p, "rollback_steps")
  /\ Goto(p, "undo", [loc[p] EXCEPT
       !.list = {s \in Steps : step[s] \in Undoable},
       !.half = {s \in Steps : step[s] = "rollback_running"}])
  /\ UNCHANGED <<db, world>>

\* The report names the step as rolled back, failed or non-reversible.
Reported_AndKept(l, s, bad) == [l EXCEPT !.clean = @ /\ ~bad]
Reported(l, s, bad) == [l EXCEPT !.list = @ \ {s}, !.clean = @ /\ ~bad]

\* An interrupted rollback with side effects is never tried again.
UncertainUndo_Never(s, half) == FALSE
UncertainUndo(s, half) == s \in half /\ contract.rollback[s] = "effect"

\* One turn of the loop up to the rollback's claim: the last position left,
\* and the lookup of a prior invocation of rollback:<step>.
UndoStep(p, s) ==
  LET kind == contract.rollback[s]
      report(bad) == Goto(p, "undo", Reported(loc[p], s, bad))
  IN  \/ kind = "none" /\ report(s \in contract.effects)
      \/ kind = "outside" /\ report(TRUE)
      \/ /\ kind \in {"pure", "effect"}
         /\ \/ undo[s] = "success" /\ Goto(p, "undo_done", [loc[p] EXCEPT !.step = s])
            \/ undo[s] = "failure" /\ report(TRUE)
            \/ undo[s] = "none" /\ UncertainUndo(s, loc[p].half) /\ report(TRUE)
            \/ /\ undo[s] = "none" /\ ~UncertainUndo(s, loc[p].half)
               /\ Goto(p, "undo_mark", [loc[p] EXCEPT !.step = s])

UndoNext(p) ==
  /\ At(p, "undo")
  /\ \E s \in loc[p].list : (\A t \in loc[p].list : s >= t) /\ UndoStep(p, s)
  /\ UNCHANGED <<db, world>>

\* The mission is rolled back only when nothing failed or was non-reversible.
UndoEnd(p) ==
  /\ At(p, "undo")
  /\ loc[p].list = {}
  /\ IF loc[p].clean
       THEN Goto(p, "want", [loc[p] EXCEPT !.goal = "rolled_back"])
       ELSE Return(p)
  /\ UNCHANGED <<db, world>>

UndoMark(p) ==
  /\ At(p, "undo_mark")
  /\ step' = [step EXCEPT ![loc[p].step] = "rollback_running"]
  /\ Goto(p, "undo_dispatch", loc[p])
  /\ UNCHANGED <<contract, status, trail, inv, undo, requested, decisions, world>>

UndoDispatch(p) ==
  /\ At(p, "undo_dispatch")
  /\ \/ /\ Goto(p, "undo_record", [loc[p] EXCEPT !.found = "failure"])
        /\ UNCHANGED undone
     \/ /\ undone' = [undone EXCEPT ![loc[p].step] = Tick(@)]
        /\ \E o \in {"success", "failure"} : Goto(p, "undo_record", [loc[p] EXCEPT !.found = o])
  /\ UNCHANGED <<db, ran>>

UndoRecord(p) ==
  LET s == loc[p].step
  IN  /\ At(p, "undo_record")
      /\ undo' = [undo EXCEPT ![s] = loc[p].found]
      /\ IF loc[p].found = "success"
           THEN Goto(p, "undo_done", loc[p])
           ELSE Goto(p, "undo", Reported(loc[p], s, TRUE))
      /\ UNCHANGED <<contract, status, trail, step, inv, requested, decisions, world>>

UndoDone(p) ==
  LET s == loc[p].step
  IN  /\ At(p, "undo_done")
      /\ step' = [step EXCEPT ![s] = "rolled_back"]
      /\ Goto(p, "undo", Reported(loc[p], s, FALSE))
      /\ UNCHANGED <<contract, status, trail, inv, undo, requested, decisions, world>>

-----------------------------------------------------------------------------
\* The process dies, or an unexpected exception ("database is locked") escapes
\* the command; an open transaction is rolled back.
Crash(p) ==
  /\ ~At(p, "idle")
  /\ Return(p)
  /\ UNCHANGED <<db, world>>

Command(p) ==
  Authorize(p) \/ Decide(p) \/ RunOne(p) \/ Pause(p) \/ Resume(p) \/ Cancel(p) \/ Rollback(p)

\* The steps of a command that has begun.
Work(p) ==
  \/ Want(p) \/ Transition(p) \/ AuthorizeCommit(p) \/ DecideCommit(p)
  \/ RunningSteps(p) \/ Lookup(p) \/ Recover(p) \/ ResumeStatus(p) \/ ResumeCheck(p)
  \/ RunStatus(p) \/ SelectStep(p) \/ CheckBudget(p) \/ CheckAuthority(p)
  \/ CheckIrreversible(p) \/ Request(p) \/ Claim(p) \/ Dispatch(p) \/ Record(p)
  \/ StoreResult(p) \/ Remaining(p) \/ Finish(p)
  \/ RollbackSteps(p) \/ UndoNext(p) \/ UndoEnd(p) \/ UndoMark(p) \/ UndoDispatch(p)
  \/ UndoRecord(p) \/ UndoDone(p)

Next == Create \/ \E p \in Procs : Command(p) \/ Work(p) \/ Crash(p)

Spec == Init /\ [][Next]_vars

\* A running process is scheduled; operators and crashes owe nothing.
FairSpec == Spec /\ \A p \in Procs : WF_vars(Work(p))
-----------------------------------------------------------------------------
(* Properties that hold for any number of processes.                       *)

\* A handler that declares side effects runs at most once, whatever crashes,
\* recoveries and other runners do (the claim in run_one and the "uncertain"
\* outcome of recover).
EffectAtMostOnce == \A s \in contract.effects : ran[s] <= 1

\* A step of an irreversible or authority-expanding kind has run only if a
\* human approved that very gate and the mission itself, and a step outside the
\* capability envelope has not run at all.
Consented(g) == \E i \in DOMAIN decisions[g] : decisions[g][i] = "approved"
Permitted(s) ==
  /\ s \notin contract.outside
  /\ Consented(Initial)
  /\ s \in contract.irreversible => Consented(<<"irreversible", s>>)
  /\ s \in contract.expanded => Consented(<<"authority", s>>)
RanWithConsent == \A s \in Steps : ran[s] > 0 => Permitted(s)

\* Why EffectAtMostOnce is inductive: a pending effect has not run, and the
\* claim lets at most one process near it, which recover cannot undo because it
\* never makes an effect pending again.
Dispatching(p, s) == At(p, "dispatch") /\ loc[p].step = s
EffectGuarded ==
  \A s \in contract.effects :
    /\ ran[s] <= 1
    /\ step[s] = "pending" => ran[s] = 0
    /\ \A p \in Procs : Dispatching(p, s) => step[s] # "pending" /\ ran[s] = 0
    /\ \A p, q \in Procs : Dispatching(p, s) /\ Dispatching(q, s) => p = q

\* Why RanWithConsent is inductive: what a runner has passed on its way to the
\* handler stays true, because decisions are never withdrawn, and no command
\* but authorize moves a mission out of "proposed" towards execution.
Unentered == {"absent", "draft", "proposed", "cancelled", "rolled_back"}
Targets == {"running", "blocked", "awaiting_approval", "completed", "failed",
            "cancelled", "rolled_back"}
ClearedAt(l, r) ==
  /\ l \in {"want", "transition"} =>
       /\ r.goal \in Targets
       /\ r.cmd = "run" /\ r.goal = "running" => Permitted(r.step)
  /\ l = "transition" => r.goal \in Unentered \/ Consented(Initial)
  /\ l \in {"resume", "uncertain"} => r.cmd # "run"
  /\ l \in {"select", "budget", "authority", "irreversible"} => Consented(Initial)
  /\ l \in {"budget", "authority", "irreversible"} => r.step \notin contract.outside
  /\ l = "irreversible" /\ r.step \in contract.expanded => Consented(<<"authority", r.step>>)
  /\ l \in {"claim", "dispatch"} => Permitted(r.step)
ConsentGuarded ==
  /\ status \in Unentered \/ Consented(Initial)
  /\ \A p \in Procs : ClearedAt(pc[p], loc[p])
  /\ RanWithConsent

\* Every command ends, under fair scheduling of its process: "mission-run-one
\* never loops", and rollback's loop shortens its list.
CommandsReturn == \A p \in Procs : ~At(p, "idle") ~> At(p, "idle")

-----------------------------------------------------------------------------
(* Properties of one process at a time, crashing and restarting.           *)

\* Every change of status is one of TRANSITIONS, and the transition row names
\* the status the mission really left.
DeclaredTransitions ==
  [][status # "absent" =>
       /\ trail' = [from |-> status, to |-> status']
       /\ <<status, status'>> \in TRANSITIONS]_<<status, trail>>

\* max_steps bounds the steps completed, those that recover completes included.
BudgetRespected == Cardinality({s \in Steps : step[s] = "completed"}) <= contract.budget

\* A completed mission has a successful committed invocation of every step,
\* and the evidence its contract requires.
CompletedIsProven ==
  status = "completed" => contract.evidence /\ \A s \in Steps : inv[s] = "success"

\* A declared rollback with side effects runs at most once.
UndoneAtMostOnce ==
  \A s \in Steps : contract.rollback[s] = "effect" => undone[s] <= 1

\* In a rolled-back mission every step with side effects that had settled was
\* rolled back by a successful declared invocation.
RolledBackIsComplete ==
  status = "rolled_back" =>
    \A s \in contract.effects :
      \/ step[s] \in {"pending", "running", "uncertain"}
      \/ step[s] = "rolled_back" /\ undo[s] = "success"

-----------------------------------------------------------------------------
(* What the engine implements.                                             *)

Mission == INSTANCE BoundedMission WITH
  Lifecycle <- TRANSITIONS,
  Opening   <- Initial,
  state     <- status,
  runs      <- ran,
  outcome   <- inv,
  consent   <- {g \in Gates : Consented(g)}

\* One process, however often it dies and restarts, implements the bounded
\* mission: the program counters, the claims and the recovery are hidden.
ImplementsBoundedMission == Mission!Spec

-----------------------------------------------------------------------------
(* Claims of the documentation and the tests that the code does not keep.  *)

\* "uncertain interrupted side effects fail closed" (docs/runbook-windows.md)
\* and test_non_reversible_effect_prevents_rolled_back_state: no side effect
\* that was not undone is left behind by "rolled_back".
NoEffectLeftBehind ==
  status = "rolled_back" =>
    \A s \in contract.effects : ran[s] = 0 \/ undo[s] = "success"

\* test_recovered_failed_invocation_fails_the_mission: no step runs in a
\* mission that has a failed step.
FailureStopsMission ==
  [][ran' # ran => \A s \in Steps : step[s] # "failed"]_<<ran, step>>
=============================================================================
