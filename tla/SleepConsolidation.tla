------------------------- MODULE SleepConsolidation -------------------------
(***************************************************************************)
(* Sleep consolidation (src/erasmus/sleep.py): `erasmus sleep` reads the   *)
(* events after the checkpoint, classifies each of them, defers behavioral *)
(* lessons to experience_candidates, and moves the checkpoint.             *)
(*                                                                         *)
(* Atomicity is SQLite's, as in MissionEngine: each SELECT outside a       *)
(* transaction and each transaction is one action.  A failure inside       *)
(* consolidate's try block goes through _fail; a process that dies, or     *)
(* whose _fail itself fails, leaves its run as it stands.                  *)
(***************************************************************************)
EXTENDS Naturals, Sequences

CONSTANTS
  Sleepers,    \* processes that run `erasmus sleep`
  Contents,    \* whitespace-normalized contents that are not empty
  Blank,       \* every content that normalizes to the empty string
  Inputs,      \* the events other commands may append
  MaxEvents,   \* bound on the events appended
  MaxRuns      \* bound on the sleep_runs rows

CANDIDATE_TYPES == {"rag_insert", "proposition_change", "tangible_wrongness",
                    "behavioral_lesson", "immune_signature"}

SOURCE_CLASSES ==
  [protomentat_input |-> "protomentat", erasmus_output |-> "erasmus",
   tool_output |-> "tool", external_content |-> "external",
   deterministic_result |-> "deterministic", reviewer_decision |-> "reviewer",
   correction |-> "reviewer"]

SourceOf(kind) ==
  IF kind \in DOMAIN SOURCE_CLASSES THEN SOURCE_CLASSES[kind] ELSE "unknown"

\* An event: whether its payload is a JSON object, and the candidate_type and
\* content it names (the whole payload, when it is not an object).  A candidate_type
\* that is a list or an object is "unhashable".
EventType ==
  [kind : DOMAIN SOURCE_CLASSES \cup {"other"}, typed : BOOLEAN,
   type : CANDIDATE_TYPES \cup {"none", "unhashable"}, content : Contents \cup {Blank}]

\* `candidate_type not in CANDIDATE_TYPES` raises TypeError for such an event,
\* which _classify does not catch; a correction returns before it.
Poison(e) == e.typed /\ e.kind # "correction" /\ e.type = "unhashable"

ASSUME SleepAssumption ==
  /\ Blank \notin Contents
  /\ Inputs \subseteq EventType
  /\ MaxEvents \in Nat /\ MaxRuns \in Nat

Ids == 1 .. MaxEvents

Dispositions == {"accepted", "deferred", "quarantined", "rejected", "discarded"}
Kept == {"accepted", "deferred"}

\* A sleep_items row, and the sleep_candidates row written with it when its
\* type is not "none"; run 0 is no row.
ItemType == [run : 0 .. MaxRuns, type : CANDIDATE_TYPES \cup {"none"},
             disposition : Dispositions \cup {"none"}]
NoItem == [run |-> 0, type |-> "none", disposition |-> "none"]

STAGES == {"quarantine", "extract", "reconcile", "validate", "promote_defer",
           "checkpoint", "failed"}
RunType == [start : Ids, end : Ids, status : {"running", "failed", "completed"},
            stage : STAGES]

VARIABLES
  events,      \* the events table, in id order
  statements,  \* normalized statements of the proposition ledger
  progress,    \* sleep_progress.last_event_id
  runs,        \* sleep_runs
  items,       \* sleep_items and sleep_candidates, by event id
  lessons,     \* source_event_id of the experience_candidates
  promotions,  \* sleep_promotions.decision, by event id of the candidate
  pc, loc      \* where each process is, and what it has read

table == <<events, statements, progress, runs, items, lessons, promotions>>
vars  == <<table, pc, loc>>

\* rows are the events low .. high; head is the first row without an item.
Fresh == [low |-> 1, high |-> 0, run |-> 0, head |-> 0, conflict |-> FALSE, picked |-> {}]
Locals == [low : 1 .. MaxEvents + 1, high : 0 .. MaxEvents, run : 0 .. MaxRuns,
           head : 0 .. MaxEvents, conflict : BOOLEAN, picked : SUBSET Ids]
PCs == {"idle", "rows", "open", "extract", "check", "classify", "reconcile",
        "validate", "pick", "defer", "promote_defer", "checkpoint", "fail", "report"}

TypeOK ==
  /\ events \in Seq(Inputs) /\ Len(events) <= MaxEvents
  /\ statements \subseteq Contents
  /\ progress \in 0 .. Len(events)
  /\ runs \in Seq(RunType) /\ Len(runs) <= MaxRuns
  /\ items \in [Ids -> ItemType]
  /\ lessons \subseteq Ids
  /\ promotions \in [Ids -> {"none", "approved", "rejected"}]
  /\ pc \in [Sleepers -> PCs]
  /\ loc \in [Sleepers -> Locals]

Init ==
  /\ events = <<>> /\ statements = {} /\ progress = 0 /\ runs = <<>>
  /\ items = [i \in Ids |-> NoItem]
  /\ lessons = {}
  /\ promotions = [i \in Ids |-> "none"]
  /\ pc = [p \in Sleepers |-> "idle"]
  /\ loc = [p \in Sleepers |-> Fresh]

At(p, l) == pc[p] = l

Goto(p, l, r) ==
  /\ pc' = [pc EXCEPT ![p] = l]
  /\ loc' = [loc EXCEPT ![p] = r]

-----------------------------------------------------------------------------
(* Classification.                                                         *)

Untrusted == {"external", "erasmus"}

\* The last four returns of _classify: quarantine comes before deferral.
TypedDisposition_DeferFirst(source, type) ==
  CASE type \in {"proposition_change", "behavioral_lesson", "immune_signature"} -> "deferred"
    [] source \in Untrusted -> "quarantined"
    [] OTHER -> "accepted"
TypedDisposition(source, type) ==
  CASE source \in Untrusted -> "quarantined"
    [] source \notin Untrusted /\ type = "behavioral_lesson" /\ source # "reviewer" -> "quarantined"
    [] source = "reviewer" /\ type = "behavioral_lesson" -> "deferred"
    [] source \notin Untrusted /\ type \in {"proposition_change", "immune_signature"} -> "deferred"
    [] OTHER -> "accepted"

RawDisposition(source) ==
  CASE source \in Untrusted -> "quarantined"
    [] source = "protomentat" -> "accepted"
    [] OTHER -> "discarded"

\* _classify, of an event that is no Poison.  A correction is a lesson whatever its payload looks like.
Classify(e) ==
  LET source == SourceOf(e.kind)
      as(t, d) == [type |-> t, disposition |-> d]
      raw == RawDisposition(source)
  IN CASE e.content = Blank -> as("none", "rejected")
       [] e.content # Blank /\ e.kind = "correction" -> as("behavioral_lesson", "deferred")
       [] e.content # Blank /\ e.kind # "correction" /\ ~e.typed ->
            as(IF raw = "discarded" THEN "none" ELSE "rag_insert", raw)
       [] OTHER ->
            IF e.type = "none" THEN as("none", "rejected")
            ELSE as(e.type, TypedDisposition(source, e.type))

SameMaterial(i, j) ==
  /\ Classify(events[i]).type = Classify(events[j]).type
  /\ events[i].content = events[j].content

InLedger(i) ==
  Classify(events[i]).type = "proposition_change" /\ events[i].content \in statements

\* _conflict on row i, asked only of material that is not yet refused.
Conflicts(i) ==
  /\ Classify(events[i]).disposition \in Kept
  /\ \/ InLedger(i)
     \/ \E j \in Ids \ {i} : items[j].disposition \in Kept /\ SameMaterial(i, j)

\* The same, for row i of a block whose earlier rows were inserted by the same
\* transaction.  An earlier row of this material that was itself refused was
\* refused for something row i repeats too, so Classify decides.
Repeats_PriorRunsOnly(i, block) == Conflicts(i)
Repeats(i, block) ==
  \/ Conflicts(i)
  \/ /\ Classify(events[i]).disposition \in Kept
     /\ \E j \in block : /\ j < i
                         /\ Classify(events[j]).disposition \in Kept
                         /\ SameMaterial(i, j)

-----------------------------------------------------------------------------
(* consolidate, one process.                                               *)

\* _last_event_id.
Start(p) ==
  /\ At(p, "idle")
  /\ Goto(p, "rows", [Fresh EXCEPT !.low = progress + 1])
  /\ UNCHANGED table

\* SELECT ... FROM events WHERE id > ?; no rows, nothing to do.
ReadRows(p) ==
  /\ At(p, "rows")
  /\ IF Len(events) < loc[p].low
       THEN Goto(p, "idle", Fresh)
       ELSE Goto(p, "open", [loc[p] EXCEPT !.high = Len(events)])
  /\ UNCHANGED table

\* The runs _open_or_resume_run may take up again; it takes the latest.
Resumable_FailedOnly(low) == {r \in DOMAIN runs : runs[r].status = "failed" /\ runs[r].start = low}
Resumable(low) ==
  {r \in DOMAIN runs : runs[r].status \in {"failed", "running"} /\ runs[r].start = low}

\* BEGIN IMMEDIATE ... COMMIT.
OpenRun(p) ==
  LET l == loc[p]
      opened == [start |-> l.low, end |-> l.high, status |-> "running", stage |-> "quarantine"]
  IN  /\ At(p, "open")
      /\ \/ \E r \in Resumable(l.low) :
              /\ \A q \in Resumable(l.low) : q <= r
              /\ runs' = [runs EXCEPT ![r] = opened]
              /\ Goto(p, "extract", [l EXCEPT !.run = r])
         \/ /\ Resumable(l.low) = {}
            /\ Len(runs) < MaxRuns
            /\ runs' = Append(runs, opened)
            /\ Goto(p, "extract", [l EXCEPT !.run = Len(runs) + 1])
      /\ UNCHANGED <<events, statements, progress, items, lessons, promotions>>

\* _stage sets the run running, whatever it was.
Stage(p, at, stage, then) ==
  /\ At(p, at)
  /\ runs' = [runs EXCEPT ![loc[p].run].status = "running", ![loc[p].run].stage = stage]
  /\ Goto(p, then, loc[p])
  /\ UNCHANGED <<events, statements, progress, items, lessons, promotions>>

Extract(p)      == Stage(p, "extract", "extract", "check")
Reconcile(p)    == Stage(p, "reconcile", "reconcile", "validate")
Validate(p)     == Stage(p, "validate", "validate", "pick")
PromoteDefer(p) == Stage(p, "promote_defer", "promote_defer", "checkpoint")

\* The rows _reconcile does not skip.
Unclassified(l) == {i \in l.low .. l.high : items[i] = NoItem}

\* UNIQUE(event_id): the INSERT of a row classified meanwhile raises.
Insertable_Unguarded(i) == TRUE
Insertable(i) == items[i] = NoItem

\* What _reconcile raises by itself, and no accident: TypeError at a poison row,
\* and IntegrityError where Insertable is false.
RaisesAtHead(p) ==
  LET unclassified == Unclassified(loc[p])
  IN  \E i \in unclassified : Poison(events[i]) /\ \A j \in unclassified : i <= j
RaisesInBlock(p) ==
  \/ ~Insertable(loc[p].head)
  \/ \E i \in Unclassified(loc[p]) : Poison(events[i])

\* Up to its first INSERT _reconcile reads outside any transaction: the items
\* of the leading rows, then the conflicts of the first row that has none.  One
\* action: what other sleepers commit between the two has row head in it.
Check(p) ==
  LET unclassified == Unclassified(loc[p])
  IN  /\ At(p, "check")
      /\ \/ unclassified = {} /\ Goto(p, "reconcile", loc[p])
         \/ RaisesAtHead(p) /\ Goto(p, "fail", loc[p])
         \/ \E i \in unclassified :
              /\ \A j \in unclassified : i <= j
              /\ ~Poison(events[i])
              /\ Goto(p, "classify", [loc[p] EXCEPT !.head = i, !.conflict = Conflicts(i)])
      /\ UNCHANGED table

\* The rows that have no item, in one transaction: whatever it raises, none of
\* them is classified.
ClassifyRows(p) ==
  LET l == loc[p]
      block == Unclassified(l) \cup {l.head}
      refused(i) == IF i = l.head THEN l.conflict ELSE Repeats(i, block)
      row(i) == [run |-> l.run, type |-> Classify(events[i]).type,
                 disposition |-> IF refused(i) THEN "rejected"
                                 ELSE Classify(events[i]).disposition]
  IN  /\ At(p, "classify")
      /\ IF RaisesInBlock(p)
           THEN Goto(p, "fail", l) /\ UNCHANGED items
           ELSE /\ items' = [i \in Ids |-> IF i \in block THEN row(i) ELSE items[i]]
                /\ Goto(p, "reconcile", l)
      /\ UNCHANGED <<events, statements, progress, runs, lessons, promotions>>

\* _defer_adaptations: the lessons of this run, then INSERT OR IGNORE.
Pick(p) ==
  /\ At(p, "pick")
  /\ Goto(p, "defer", [loc[p] EXCEPT !.picked =
       {i \in Ids : /\ items[i].run = loc[p].run /\ items[i].type = "behavioral_lesson"
                    /\ items[i].disposition \in Kept}])
  /\ UNCHANGED table

Defer(p) ==
  /\ At(p, "defer")
  /\ lessons' = lessons \cup loc[p].picked
  /\ Goto(p, "promote_defer", loc[p])
  /\ UNCHANGED <<events, statements, progress, runs, items, promotions>>

\* The id the checkpoint moves to: the last row read.
Covered_OffByOne(p) == loc[p].high - 1
Covered_Latest(p) == Len(events)
Covered_NextId(p) == loc[p].high + 1
Covered(p) == loc[p].high

Checkpoint_Uncommitted(p) ==
  /\ At(p, "checkpoint")
  /\ Goto(p, "report", loc[p])
  /\ UNCHANGED table

\* Progress and the run's completion in one transaction.
Checkpoint(p) ==
  /\ At(p, "checkpoint")
  /\ progress' = Covered(p)
  /\ runs' = [runs EXCEPT ![loc[p].run].status = "completed", ![loc[p].run].stage = "checkpoint"]
  /\ Goto(p, "report", loc[p])
  /\ UNCHANGED <<events, statements, items, lessons, promotions>>

\* sleep_report only reads, outside the try block; an error there just escapes.
Report(p) ==
  /\ At(p, "report")
  /\ Goto(p, "idle", Fresh)
  /\ UNCHANGED table

\* An exception inside the try block, fail_after_stage's included, that is none
\* of those _reconcile raises by itself.
TryBlock_AndReport == PCs \ {"idle", "rows", "open", "fail"}
TryBlock == PCs \ {"idle", "rows", "open", "fail", "report"}

Fault(p) ==
  /\ pc[p] \in TryBlock
  /\ At(p, "check") => ~RaisesAtHead(p)
  /\ At(p, "classify") => ~RaisesInBlock(p)
  /\ Goto(p, "fail", loc[p])
  /\ UNCHANGED table

\* _fail.
Fail(p) ==
  /\ At(p, "fail")
  /\ runs' = [runs EXCEPT ![loc[p].run].status = "failed", ![loc[p].run].stage = "failed"]
  /\ Goto(p, "idle", Fresh)
  /\ UNCHANGED <<events, statements, progress, items, lessons, promotions>>

\* The process dies or an exception escapes; an open transaction rolls back.
Crash(p) ==
  /\ ~At(p, "idle")
  /\ Goto(p, "idle", Fresh)
  /\ UNCHANGED table

-----------------------------------------------------------------------------
(* The rest of the program.                                                *)

AddEvent ==
  /\ Len(events) < MaxEvents
  /\ \E e \in Inputs : events' = Append(events, e)
  /\ UNCHANGED <<statements, progress, runs, items, lessons, promotions, pc, loc>>

\* The ledger gains a statement from elsewhere.
Propose ==
  /\ \E c \in Contents \ statements : statements' = statements \cup {c}
  /\ UNCHANGED <<events, progress, runs, items, lessons, promotions, pc, loc>>

\* decide_candidate.  Candidates never change and evidence is never removed,
\* so its SELECTs and its INSERT, guarded by UNIQUE(candidate_id, target), are
\* one action; a candidate type has one target.
Promotable(i) ==
  /\ items[i].type \in {"proposition_change", "behavioral_lesson"}
  /\ items[i].disposition \notin {"quarantined", "rejected"}
  /\ promotions[i] = "none"

DecideCandidate ==
  /\ \E i \in Ids, d \in {"approved", "rejected"} :
       /\ Promotable(i)
       /\ promotions' = [promotions EXCEPT ![i] = d]
  /\ UNCHANGED <<events, statements, progress, runs, items, lessons, pc, loc>>

Work(p) ==
  \/ ReadRows(p) \/ OpenRun(p) \/ Extract(p) \/ Check(p) \/ ClassifyRows(p) \/ Reconcile(p)
  \/ Validate(p) \/ Pick(p) \/ Defer(p) \/ PromoteDefer(p) \/ Checkpoint(p) \/ Report(p)
  \/ Fail(p)

\* Dying where consolidate has nothing left but to return is returning.
Returning(p) == At(p, "report") \/ (At(p, "rows") /\ Len(events) < loc[p].low)

Interrupted == \E p \in Sleepers : Fault(p) \/ (Crash(p) /\ ~Returning(p))

Next ==
  \/ AddEvent \/ Propose \/ DecideCandidate
  \/ \E p \in Sleepers : Start(p) \/ Work(p)
  \/ Interrupted

Spec == Init /\ [][Next]_vars

\* A sleeping process is scheduled; nobody is obliged to start one.
FairSpec == Spec /\ \A p \in Sleepers : WF_vars(Work(p))

-----------------------------------------------------------------------------
(* Properties of any number of sleepers.                                   *)

\* "Classify all pending events exactly once": a classification, with the run
\* that made it, is never replaced.
ClassifiedOnce == [][\A i \in Ids : items[i] # NoItem => items'[i] = items[i]]_items

\* The checkpoint never passes an event that has not been classified, and
\* classification leaves no gap behind it.
CheckpointClassified ==
  \A i \in Ids : (i <= progress \/ \E j \in Ids : j > i /\ items[j] # NoItem) => items[i] # NoItem

\* "Re-running ... creates no duplicate durable effects": of all events with
\* the same candidate type and normalized content at most one is accepted or
\* deferred, so none is promoted or learned twice.
NoDuplicateMaterial ==
  \A i, j \in Ids :
    items[i].disposition \in Kept /\ items[j].disposition \in Kept /\ SameMaterial(i, j) => i = j

\* What external content or the model itself wrote never becomes a lesson or a
\* promotion, and no lesson comes from anything but a reviewer.
QuarantineHolds ==
  \A i \in Ids : i \in lessons \/ promotions[i] = "approved" =>
    /\ SourceOf(events[i].kind) \notin Untrusted
    /\ items[i].type = "behavioral_lesson" => SourceOf(events[i].kind) = "reviewer"

-----------------------------------------------------------------------------
(* Properties of one sleeper at a time, failing, dying and restarting.     *)

\* Nothing at or before the checkpoint is lost: every such event is classified
\* and every lesson kept among them has reached experience_candidates.
CheckpointCovers ==
  \A i \in 1 .. progress :
    /\ items[i] # NoItem
    /\ items[i].type = "behavioral_lesson" /\ items[i].disposition \in Kept => i \in lessons

\* The completed runs cut 1 .. progress into consecutive ranges, each event
\* having been classified by the run whose range it is in.
Completed == {r \in DOMAIN runs : runs[r].status = "completed"}
RunsPartition ==
  /\ \A i \in 1 .. progress : \E r \in Completed : runs[r].start <= i /\ i <= runs[r].end
  /\ \A r \in Completed : runs[r].end <= progress
  /\ \A r, q \in Completed : r < q => runs[r].end < runs[q].start
  /\ \A i \in Ids : items[i] # NoItem =>
       runs[items[i].run].start <= i /\ i <= runs[items[i].run].end

\* "A failed run ... safely resumes from the same run id.  A stale running run
\* ... also resumes" (docs/runbook-windows.md): an unfinished run is the one
\* that the next consolidation takes up.
UnfinishedRunsResume ==
  \A r \in DOMAIN runs \ Completed : r = Len(runs) /\ runs[r].start = progress + 1

\* A completed run stays completed ("cannot turn a completed run into a failed
\* one") and the checkpoint never moves back.
CompletionIsFinal ==
  [][progress' >= progress /\ \A r \in Completed : runs'[r] = runs[r]]_<<progress, runs>>

\* When processes stop failing and dying and somebody keeps consolidating, every
\* event is eventually behind the checkpoint, unless one of the events makes
\* _classify itself raise: that one keeps all that come with it pending forever.
Poisoned == \E i \in DOMAIN events : Poison(events[i])
CatchesUp ==
  (<>[][~Interrupted]_vars /\ []<>(\E p \in Sleepers : ~At(p, "idle")))
    => \A i \in Ids : Len(events) >= i ~> (progress >= i \/ Poisoned)

-----------------------------------------------------------------------------
(* A claim of the documentation that two sleepers break.                   *)

\* "A failed run retains its stage and classified items, then safely resumes
\* ...  A stale running run left by an unclean process termination also
\* resumes" (docs/runbook-windows.md): with every process gone, nothing at or
\* before the checkpoint is lost.
NothingLostAtRest == (\A p \in Sleepers : At(p, "idle")) => CheckpointCovers
=============================================================================
