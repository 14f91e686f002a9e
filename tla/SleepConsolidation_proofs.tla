----------------------- MODULE SleepConsolidation_proofs -----------------------
(***************************************************************************)
(* Proofs about SleepConsolidation, for every set of sleepers, of contents *)
(* and of inputs and all bounds, except in the last section, which is      *)
(* about sleepers that run one at a time.                                  *)
(***************************************************************************)
EXTENDS SleepConsolidation, TLAPS

-----------------------------------------------------------------------------
(* The inductive invariant.                                                *)

Classified(i) == items[i] # NoItem
KeptLesson(i) == items[i].type = "behavioral_lesson" /\ items[i].disposition \in Kept

\* A row of sleep_items is what _classify makes of its event, or a rejection.
Faithful(i) ==
  /\ i =< Len(events)
  /\ items[i].run \in DOMAIN runs
  /\ items[i].type = Classify(events[i]).type
  /\ items[i].disposition \in {Classify(events[i]).disposition, "rejected"}

Promoted(i) ==
  /\ items[i].type \in {"proposition_change", "behavioral_lesson"}
  /\ items[i].disposition \notin {"quarantined", "rejected"}

\* No row but i itself holds the material of i.
Novel(i) ==
  Classify(events[i]).disposition \in Kept =>
    \A j \in Ids \ {i} : items[j].disposition \in Kept => ~SameMaterial(i, j)

\* What a process at label l with locals r relies on, whoever else sleeps.
Knows(l, r) ==
  /\ r.high =< Len(events)
  /\ l # "idle" => \A i \in Ids : i < r.low => Classified(i)
  /\ l \notin {"idle", "rows"} => r.low =< r.high
  /\ l \notin {"idle", "rows", "open"} => r.run \in DOMAIN runs
  /\ l = "classify" =>
       /\ r.head \in r.low .. r.high
       /\ \A i \in Ids : i < r.head => Classified(i)
       /\ Classified(r.head) \/ r.conflict \/ Novel(r.head)
  /\ l \in {"reconcile", "validate", "pick", "defer", "promote_defer", "checkpoint"} =>
       \A i \in Ids : i =< r.high => Classified(i)
  /\ l = "defer" => \A i \in r.picked : KeptLesson(i)

TableInv ==
  /\ \A i \in Ids : Classified(i) => Faithful(i)
  /\ \A i \in lessons : KeptLesson(i)
  /\ \A i \in Ids : promotions[i] # "none" => Promoted(i)
  /\ CheckpointClassified
  /\ NoDuplicateMaterial

\* TypeOK without pc and loc.
TableTypeOK ==
  /\ events \in Seq(Inputs) /\ Len(events) <= MaxEvents
  /\ statements \subseteq Contents
  /\ progress \in 0 .. Len(events)
  /\ runs \in Seq(RunType) /\ Len(runs) <= MaxRuns
  /\ items \in [Ids -> ItemType]
  /\ lessons \subseteq Ids
  /\ promotions \in [Ids -> {"none", "approved", "rejected"}]

SleepInv ==
  /\ TypeOK
  /\ TableInv
  /\ \A p \in Sleepers : Knows(pc[p], loc[p])

-----------------------------------------------------------------------------
(* What no step takes back.                                                *)

\* Events are appended, runs are not removed, and a classification stays.
Grows ==
  /\ Len(events) =< Len(events') /\ \A i \in 1 .. Len(events) : events'[i] = events[i]
  /\ DOMAIN runs \subseteq DOMAIN runs'
  /\ \A i \in Ids : Classified(i) => items'[i] = items[i]

\* What a process knows stays true, whoever writes: another classification of
\* material after head includes head.
LEMMA KnowsStays ==
  ASSUME SleepInv, Grows, CheckpointClassified', NEW l, NEW r \in Locals, Knows(l, r)
  PROVE  Knows(l, r)'
<1>1. \A i \in Ids : Classified(i) => Classified(i)'
  BY DEF Grows, Classified
<1>2. \A i \in Ids : KeptLesson(i) => KeptLesson(i)'
  <2>1. \A i \in Ids : KeptLesson(i) => Classified(i)
    BY DEF KeptLesson, Classified, NoItem
  <2> QED BY <2>1 DEF Grows, KeptLesson
<1>3. r.low \in Nat /\ r.high \in Nat /\ r.high =< MaxEvents /\ r.picked \subseteq Ids
  BY SleepAssumption DEF Locals, Ids
<1>4. /\ r.high =< Len(events')
      /\ l \notin {"idle", "rows", "open"} => r.run \in DOMAIN runs'
  BY <1>3 DEF Knows, Grows, SleepInv, TypeOK
<1>5. ASSUME l = "classify"
      PROVE  /\ r.head \in r.low .. r.high
             /\ \A i \in Ids : i < r.head => Classified(i)'
             /\ Classified(r.head)' \/ r.conflict \/ Novel(r.head)'
  <2>1. /\ r.head \in r.low .. r.high
        /\ \A i \in Ids : i < r.head => Classified(i)
        /\ Classified(r.head) \/ r.conflict \/ Novel(r.head)
    BY <1>5 DEF Knows
  <2>2. r.head \in Ids /\ r.head =< Len(events)
    BY <2>1, <1>3, SleepAssumption DEF Knows, Locals, Ids
  <2>3. ASSUME Novel(r.head), ~Classified(r.head)'
        PROVE  Novel(r.head)'
    <3>1. \A j \in Ids : j > r.head => ~Classified(j)'
      BY <2>2, <2>3 DEF CheckpointClassified, Classified
    <3>2. \A j \in Ids \ {r.head} : items'[j].disposition \in Kept => j < r.head
      <4>1. \A j \in Ids : items'[j].disposition \in Kept => Classified(j)'
        BY DEF Classified, NoItem, Kept
      <4> QED BY <2>2, <3>1, <4>1 DEF Ids
    <3>3. \A j \in Ids : j < r.head => items'[j] = items[j] /\ events'[j] = events[j]
      BY <2>1, <2>2 DEF Grows, SleepInv, TypeOK, Ids
    <3>4. events'[r.head] = events[r.head]
      BY <2>2 DEF Grows, SleepInv, TypeOK, Ids
    <3> QED BY <2>3, <3>2, <3>3, <3>4 DEF Novel, SameMaterial
  <2> QED BY <1>1, <2>1, <2>2, <2>3
<1> QED BY <1>1, <1>2, <1>3, <1>4, <1>5 DEF Knows

-----------------------------------------------------------------------------
(* The moves of one process.                                               *)

LEMMA TypeSplits == TypeOK <=> TableTypeOK /\ pc \in [Sleepers -> PCs] /\ loc \in [Sleepers -> Locals]
BY DEF TypeOK, TableTypeOK

\* A process that knows what its next label needs may go there.
LEMMA MoveSleeps ==
  ASSUME SleepInv, NEW p \in Sleepers, NEW l \in PCs, NEW r \in Locals, Goto(p, l, r),
         Knows(l, r)', Grows, TableTypeOK', TableInv'
  PROVE  SleepInv'
<1>1. /\ pc' \in [Sleepers -> PCs] /\ loc' \in [Sleepers -> Locals]
      /\ pc'[p] = l /\ loc'[p] = r
      /\ \A q \in Sleepers \ {p} : pc'[q] = pc[q] /\ loc'[q] = loc[q]
  BY DEF SleepInv, TypeOK, Goto
<1>2. ASSUME NEW q \in Sleepers, NEW m, NEW k, pc'[q] = m, loc'[q] = k, Knows(m, k)'
      PROVE  Knows(pc[q], loc[q])'
  BY <1>2 DEF Knows, Classified, KeptLesson, Novel, SameMaterial
<1>3. ASSUME NEW q \in Sleepers \ {p} PROVE Knows(pc[q], loc[q])'
  <2>1. loc[q] \in Locals /\ Knows(pc[q], loc[q]) /\ CheckpointClassified'
    BY DEF SleepInv, TypeOK, TableInv
  <2>2. \A m, k : m = pc[q] /\ k = loc[q] => Knows(m, k)'
    BY <2>1, KnowsStays, Zenon
  <2> QED BY <1>1, <1>2, <2>2
<1>4. Knows(pc[p], loc[p])'
  BY <1>1, <1>2
<1> QED BY <1>1, <1>3, <1>4, TypeSplits DEF SleepInv, TypeOK, TableTypeOK

\* The same if it writes nothing.
LEMMA SilentSleeps ==
  ASSUME SleepInv, NEW p \in Sleepers, NEW l \in PCs, NEW r \in Locals, Goto(p, l, r),
         Knows(l, r), UNCHANGED table
  PROVE  SleepInv'
<1>1. Grows
  BY DEF Grows, table, SleepInv, TypeOK
<1>2. TableTypeOK' /\ TableInv'
  BY TypeSplits DEF SleepInv, TableTypeOK, TableInv, table, Classified, Faithful, KeptLesson,
     Promoted, CheckpointClassified, NoDuplicateMaterial, SameMaterial
<1>3. Knows(l, r)'
  BY <1>1, <1>2, KnowsStays DEF TableInv
<1> QED BY <1>1, <1>2, <1>3, MoveSleeps

\* What the type invariant says of one process's locals, and how they change.
LEMMA LocalTypes ==
  ASSUME SleepInv, NEW p \in Sleepers
  PROVE  /\ loc[p] \in Locals /\ pc[p] \in PCs /\ Knows(pc[p], loc[p])
         /\ loc[p].low \in 1 .. MaxEvents + 1 /\ loc[p].high \in 0 .. MaxEvents
         /\ loc[p].run \in 0 .. MaxRuns /\ loc[p].picked \subseteq Ids
         /\ loc[p].head \in 0 .. MaxEvents /\ loc[p].conflict \in BOOLEAN
BY DEF SleepInv, TypeOK, Locals

LEMMA LocalsUpdate ==
  ASSUME NEW r \in Locals
  PROVE  /\ \A n \in 1 .. MaxEvents + 1 : [r EXCEPT !.low = n] \in Locals
         /\ \A n \in 0 .. MaxEvents : [r EXCEPT !.high = n] \in Locals
         /\ \A n \in 0 .. MaxRuns : [r EXCEPT !.run = n] \in Locals
         /\ \A n \in 0 .. MaxEvents, b \in BOOLEAN :
              [r EXCEPT !.head = n, !.conflict = b] \in Locals
         /\ \A S \in SUBSET Ids : [r EXCEPT !.picked = S] \in Locals
BY Zenon DEF Locals

LEMMA LocalsFields ==
  ASSUME NEW r \in Locals, NEW n, NEW b
  PROVE  /\ [r EXCEPT !.high = n].low = r.low /\ [r EXCEPT !.high = n].high = n
         /\ [r EXCEPT !.head = n, !.conflict = b].low = r.low
         /\ [r EXCEPT !.head = n, !.conflict = b].high = r.high
         /\ [r EXCEPT !.head = n, !.conflict = b].run = r.run
         /\ [r EXCEPT !.picked = n].low = r.low /\ [r EXCEPT !.picked = n].high = r.high
         /\ [r EXCEPT !.picked = n].run = r.run /\ [r EXCEPT !.picked = n].picked = n
BY DEF Locals

LEMMA FreshTypes == Fresh \in Locals /\ Fresh.high = 0
BY SleepAssumption DEF Fresh, Locals

\* Whoever goes idle knows enough.
LEMMA IdleSleeps ==
  ASSUME SleepInv, NEW p \in Sleepers, Goto(p, "idle", Fresh), UNCHANGED table
  PROVE  SleepInv'
<1>1. Knows("idle", Fresh)
  BY FreshTypes DEF Knows, SleepInv, TypeOK
<1> QED BY <1>1, FreshTypes, SilentSleeps DEF PCs

\* The reads of consolidate, and its interruptions.
LEMMA StartStep ==
  ASSUME SleepInv, NEW p \in Sleepers, Start(p)
  PROVE  SleepInv'
<1> DEFINE r == [Fresh EXCEPT !.low = progress + 1]
<1>1. progress \in Nat /\ progress + 1 \in 1 .. MaxEvents + 1
  BY SleepAssumption DEF SleepInv, TypeOK
<1>2. r \in Locals /\ r.low = progress + 1 /\ r.high = 0
  <2>1. r \in Locals
    BY <1>1, FreshTypes, LocalsUpdate, Zenon
  <2> QED BY <2>1, FreshTypes DEF Locals
<1>3. \A i \in Ids : i < r.low => Classified(i)
  BY <1>1, <1>2 DEF SleepInv, TableInv, CheckpointClassified, Classified, Ids
<1>4. Knows("rows", r)
  BY <1>2, <1>3 DEF Knows, SleepInv, TypeOK
<1> QED BY <1>2, <1>4, SilentSleeps DEF Start, PCs

LEMMA ReadRowsStep ==
  ASSUME SleepInv, NEW p \in Sleepers, ReadRows(p)
  PROVE  SleepInv'
<1> DEFINE r == [loc[p] EXCEPT !.high = Len(events)]
<1>1. Len(events) \in 0 .. MaxEvents
  BY SleepAssumption DEF SleepInv, TypeOK
<1>2. r \in Locals /\ r.low = loc[p].low /\ r.high = Len(events)
  <2>1. loc[p] \in Locals /\ r \in Locals
    BY <1>1, LocalTypes, LocalsUpdate, Zenon
  <2> QED BY <2>1 DEF Locals
<1>3. CASE Len(events) < loc[p].low
  BY <1>3, IdleSleeps DEF ReadRows
<1>4. CASE ~(Len(events) < loc[p].low)
  <2>1. Knows("open", r)
    BY <1>1, <1>2, <1>4, LocalTypes DEF Knows, ReadRows, At
  <2> QED BY <1>2, <1>4, <2>1, SilentSleeps DEF ReadRows, PCs
<1> QED BY <1>3, <1>4

\* The reads of _reconcile: the first row without an item is the first event
\* without one.
LEMMA CheckStep ==
  ASSUME SleepInv, NEW p \in Sleepers, Check(p)
  PROVE  SleepInv'
<1> DEFINE unclassified == Unclassified(loc[p])
<1>1. /\ loc[p] \in Locals /\ Knows("check", loc[p])
      /\ loc[p].low \in Nat /\ loc[p].high \in Nat /\ loc[p].high =< MaxEvents
      /\ MaxEvents \in Nat /\ loc[p].low >= 1
  <2>1. loc[p] \in Locals /\ Knows("check", loc[p])
    BY LocalTypes DEF Check, At
  <2>2. MaxEvents \in Nat
    BY SleepAssumption
  <2> QED BY <2>1, <2>2 DEF Locals
<1>2. CASE unclassified = {} /\ Goto(p, "reconcile", loc[p])
  <2>1. \A i \in Ids : i =< loc[p].high => Classified(i)
    BY <1>1, <1>2 DEF Knows, Unclassified, Classified, Ids
  <2>2. Knows("reconcile", loc[p])
    BY <1>1, <2>1 DEF Knows
  <2> QED BY <1>1, <1>2, <2>2, SilentSleeps DEF Check, PCs
<1>4. CASE Goto(p, "fail", loc[p])
  <2>1. Knows("fail", loc[p])
    BY <1>1 DEF Knows
  <2> QED BY <1>1, <1>4, <2>1, SilentSleeps DEF Check, PCs
<1>3. ASSUME NEW i \in unclassified, \A j \in unclassified : i <= j,
             Goto(p, "classify", [loc[p] EXCEPT !.head = i, !.conflict = Conflicts(i)])
      PROVE  SleepInv'
  <2> DEFINE r == [loc[p] EXCEPT !.head = i, !.conflict = Conflicts(i)]
  <2>1. i \in loc[p].low .. loc[p].high /\ i \in Ids /\ i \in 0 .. MaxEvents
    BY <1>1 DEF Unclassified, Ids
  <2>2. Conflicts(i) \in BOOLEAN
    BY DEF Conflicts
  <2>3. /\ r \in Locals /\ r.low = loc[p].low /\ r.high = loc[p].high
        /\ r.run = loc[p].run /\ r.head = i /\ r.conflict = Conflicts(i)
    <3>1. r \in Locals
      BY <1>1, <2>1, <2>2, LocalsUpdate, Zenon
    <3> QED BY <1>1, <3>1 DEF Locals
  <2>4. \A j \in Ids : j < i => Classified(j)
    BY <1>1, <1>3, <2>1 DEF Knows, Unclassified, Classified, Ids
  <2>5. Conflicts(i) \/ Novel(i)
    BY DEF Conflicts, Novel
  <2>6. Knows("classify", r)
    BY <1>1, <2>1, <2>3, <2>4, <2>5 DEF Knows
  <2> QED BY <1>3, <2>3, <2>6, SilentSleeps DEF Check, PCs
<1> QED BY <1>2, <1>3, <1>4 DEF Check

LEMMA PickStep ==
  ASSUME SleepInv, NEW p \in Sleepers, Pick(p)
  PROVE  SleepInv'
<1> DEFINE S == {i \in Ids : /\ items[i].run = loc[p].run /\ items[i].type = "behavioral_lesson"
                             /\ items[i].disposition \in Kept}
           r == [loc[p] EXCEPT !.picked = S]
<1>1. loc[p] \in Locals /\ Knows("pick", loc[p])
  BY LocalTypes DEF Pick, At
<1>2. /\ r \in Locals /\ r.low = loc[p].low /\ r.high = loc[p].high
      /\ r.run = loc[p].run /\ r.picked = S
  <2>1. S \in SUBSET Ids
    OBVIOUS
  <2>2. r \in Locals
    BY <1>1, <2>1, LocalsUpdate, Zenon
  <2> QED BY <1>1, <2>2 DEF Locals
<1>3. \A i \in S : KeptLesson(i)
  BY DEF KeptLesson
<1>4. Knows("defer", r)
  BY <1>1, <1>2, <1>3 DEF Knows
<1> QED BY <1>2, <1>4, SilentSleeps DEF Pick, PCs

LEMMA InterruptionStep ==
  ASSUME SleepInv, NEW p \in Sleepers, Fault(p) \/ Crash(p) \/ Report(p)
  PROVE  SleepInv'
<1>1. CASE Fault(p)
  <2>1. Knows("fail", loc[p])
    BY <1>1, LocalTypes DEF Fault, TryBlock, PCs, Knows
  <2> QED BY <1>1, <2>1, LocalTypes, SilentSleeps DEF Fault, PCs
<1>2. CASE Crash(p) \/ Report(p)
  BY <1>2, IdleSleeps DEF Crash, Report
<1> QED BY <1>1, <1>2

-----------------------------------------------------------------------------
(* The transactions of one process.                                        *)

\* A write of sleep_runs and of nothing that was classified.
LEMMA RunWriteSleeps ==
  ASSUME SleepInv, NEW p \in Sleepers, NEW l \in PCs, NEW r \in Locals, Goto(p, l, r),
         runs' \in Seq(RunType), Len(runs') <= MaxRuns, DOMAIN runs \subseteq DOMAIN runs',
         progress' \in 0 .. Len(events), \A i \in Ids : i <= progress' => Classified(i),
         Knows(l, r)', UNCHANGED <<events, statements, items, lessons, promotions>>
  PROVE  SleepInv'
<1>1. Grows
  BY DEF Grows, SleepInv, TypeOK
<1>2. TableTypeOK'
  BY DEF TableTypeOK, SleepInv, TypeOK
<1>3. CheckpointClassified'
  BY DEF SleepInv, TableInv, CheckpointClassified, Classified
<1>4. TableInv'
  BY <1>3 DEF SleepInv, TableInv, Classified, Faithful, KeptLesson, Promoted,
     NoDuplicateMaterial, SameMaterial
<1> QED BY <1>1, <1>2, <1>4, MoveSleeps

\* What the process knows does not change with such a write.
LEMMA KnowsRuns ==
  ASSUME NEW l, NEW r, Knows(l, r), UNCHANGED <<events, items>>,
         DOMAIN runs \subseteq DOMAIN runs'
  PROVE  Knows(l, r)'
BY DEF Knows, Classified, Novel, SameMaterial, KeptLesson

LEMMA OpenRunStep ==
  ASSUME SleepInv, NEW p \in Sleepers, OpenRun(p)
  PROVE  SleepInv'
<1> DEFINE l == loc[p]
           opened == [start |-> l.low, end |-> l.high, status |-> "running",
                      stage |-> "quarantine"]
<1>1. l \in Locals /\ Knows("open", l) /\ runs \in Seq(RunType) /\ Len(runs) <= MaxRuns
  BY LocalTypes DEF OpenRun, At, SleepInv, TypeOK
<1>2. opened \in RunType
  <2>1. l.low =< l.high /\ l.low >= 1 /\ l.high =< MaxEvents
    BY <1>1, SleepAssumption DEF Knows, Locals
  <2>2. l.low \in Ids /\ l.high \in Ids
    BY <1>1, <2>1, SleepAssumption DEF Locals, Ids
  <2> QED BY <2>2 DEF RunType, STAGES
<1>3. PICK r \in 1 .. MaxRuns :
        /\ runs' \in Seq(RunType) /\ Len(runs') <= MaxRuns /\ DOMAIN runs \subseteq DOMAIN runs'
        /\ r \in DOMAIN runs' /\ Goto(p, "extract", [l EXCEPT !.run = r])
  <2>1. ASSUME NEW r \in Resumable(l.low), runs' = [runs EXCEPT ![r] = opened],
               Goto(p, "extract", [l EXCEPT !.run = r])
        PROVE  /\ runs' \in Seq(RunType) /\ Len(runs') = Len(runs)
               /\ DOMAIN runs' = DOMAIN runs /\ r \in DOMAIN runs /\ r \in 1 .. MaxRuns
    BY <1>1, <1>2, <2>1, SleepAssumption DEF Resumable
  <2>2. ASSUME Len(runs) < MaxRuns, runs' = Append(runs, opened)
        PROVE  /\ runs' \in Seq(RunType) /\ Len(runs') = Len(runs) + 1
               /\ DOMAIN runs \subseteq DOMAIN runs' /\ Len(runs) + 1 \in DOMAIN runs'
               /\ Len(runs) + 1 \in 1 .. MaxRuns
    BY <1>1, <1>2, <2>2, SleepAssumption
  <2>3. CASE \E r \in Resumable(l.low) :
               /\ runs' = [runs EXCEPT ![r] = opened]
               /\ Goto(p, "extract", [l EXCEPT !.run = r])
    <3>1. PICK r \in Resumable(l.low) :
            /\ runs' = [runs EXCEPT ![r] = opened]
            /\ Goto(p, "extract", [l EXCEPT !.run = r])
      BY <2>3
    <3>2. /\ runs' \in Seq(RunType) /\ Len(runs') = Len(runs)
          /\ DOMAIN runs' = DOMAIN runs /\ r \in DOMAIN runs /\ r \in 1 .. MaxRuns
      BY <2>1, <3>1
    <3> QED BY <1>1, <3>1, <3>2
  <2>4. CASE /\ Len(runs) < MaxRuns /\ runs' = Append(runs, opened)
             /\ Goto(p, "extract", [l EXCEPT !.run = Len(runs) + 1])
    <3>1. Len(runs') <= MaxRuns
      BY <1>1, <2>2, <2>4, SleepAssumption
    <3> QED BY <2>2, <2>4, <3>1
  <2> QED BY <2>3, <2>4 DEF OpenRun
<1>4. PICK k \in Locals : k = [l EXCEPT !.run = r]
  <2>1. r \in 0 .. MaxRuns
    BY <1>3
  <2> QED BY <1>1, <2>1, LocalsUpdate, Zenon
<1>5. k.run = r /\ k.low = l.low /\ k.high = l.high
  BY <1>1, <1>4 DEF Locals
<1>6. Knows("extract", k)'
  BY <1>1, <1>3, <1>5 DEF Knows, OpenRun, Classified
<1>7. Goto(p, "extract", k) /\ "extract" \in PCs
  BY <1>3, <1>4 DEF PCs
<1>8. progress' \in 0 .. Len(events) /\ \A i \in Ids : i <= progress' => Classified(i)
  BY DEF OpenRun, SleepInv, TypeOK, TableInv, CheckpointClassified, Classified
<1> QED BY <1>3, <1>4, <1>6, <1>7, <1>8, RunWriteSleeps DEF OpenRun

\* A sequence with other elements.
LEMMA SeqCopy ==
  ASSUME NEW T, NEW s \in Seq(T), NEW f \in [DOMAIN s -> T]
  PROVE  f \in Seq(T) /\ Len(f) = Len(s)
OBVIOUS

\* A write of the process's own run.
LEMMA OwnRunType ==
  ASSUME SleepInv, NEW r, NEW v \in {"running", "failed", "completed"}, NEW st \in STAGES,
         runs' = [runs EXCEPT ![r].status = v, ![r].stage = st]
  PROVE  /\ runs' \in Seq(RunType) /\ Len(runs') = Len(runs) /\ DOMAIN runs' = DOMAIN runs
         /\ \A q \in DOMAIN runs \ {r} : runs'[q] = runs[q]
         /\ r \in DOMAIN runs => /\ runs'[r].start = runs[r].start /\ runs'[r].end = runs[r].end
                                 /\ runs'[r].status = v
<1>1. runs \in Seq(RunType) /\ \A q \in DOMAIN runs : runs[q] \in RunType
  <2>1. runs \in Seq(RunType)
    BY DEF SleepInv, TypeOK
  <2> QED BY <2>1
<1>2. \A q \in DOMAIN runs \ {r} : runs'[q] = runs[q]
  OBVIOUS
<1>3. ASSUME r \in DOMAIN runs
      PROVE  /\ runs'[r].start = runs[r].start /\ runs'[r].end = runs[r].end
             /\ runs'[r].status = v /\ runs'[r] \in RunType
  BY <1>1, <1>3 DEF RunType
<1>4. \A q \in DOMAIN runs : runs'[q] \in RunType
  BY <1>1, <1>2, <1>3, Zenon
<1>5. runs' \in [DOMAIN runs -> RunType]
  BY <1>4
<1>6. runs' \in Seq(RunType) /\ Len(runs') = Len(runs)
  <2>1. \A T : \A s \in Seq(T) : \A f \in [DOMAIN s -> T] : f \in Seq(T) /\ Len(f) = Len(s)
    BY SeqCopy, Zenon
  <2>2. runs \in Seq(RunType)
    BY <1>1
  <2>3. \A f \in [DOMAIN runs -> RunType] : f \in Seq(RunType) /\ Len(f) = Len(runs)
    BY <2>1, <2>2, Zenon
  <2> QED BY <1>5, <2>3, Zenon
<1>7. DOMAIN runs' = DOMAIN runs
  BY <1>5
<1> QED BY <1>2, <1>3, <1>6, <1>7

LEMMA StageStep ==
  ASSUME SleepInv, NEW p \in Sleepers, Extract(p) \/ Reconcile(p) \/ Validate(p) \/ PromoteDefer(p)
  PROVE  SleepInv'
<1>1. PICK at, stage \in STAGES, then \in PCs :
        Stage(p, at, stage, then) /\ (Knows(at, loc[p]) => Knows(then, loc[p]))
  <2>1. \A r : /\ Knows("extract", r) => Knows("check", r)
               /\ Knows("reconcile", r) => Knows("validate", r)
               /\ Knows("validate", r) => Knows("pick", r)
               /\ Knows("promote_defer", r) => Knows("checkpoint", r)
    BY DEF Knows
  <2> QED BY <2>1, Zenon DEF Extract, Reconcile, Validate, PromoteDefer, STAGES, PCs
<1>2. PICK k \in Locals : k = loc[p] /\ Knows(then, k)
  BY <1>1, LocalTypes DEF Stage, At
<1>3. runs' \in Seq(RunType) /\ Len(runs') = Len(runs) /\ DOMAIN runs' = DOMAIN runs
  BY <1>1, OwnRunType DEF Stage
<1>4. Knows(then, k)'
  BY <1>1, <1>2, <1>3, KnowsRuns DEF Stage
<1>5. progress' \in 0 .. Len(events) /\ \A i \in Ids : i <= progress' => Classified(i)
  BY <1>1 DEF Stage, SleepInv, TypeOK, TableInv, CheckpointClassified, Classified
<1>6. Len(runs) <= MaxRuns
  BY DEF SleepInv, TypeOK
<1> QED BY <1>1, <1>2, <1>3, <1>4, <1>5, <1>6, RunWriteSleeps DEF Stage

LEMMA CheckpointStep ==
  ASSUME SleepInv, NEW p \in Sleepers, Checkpoint(p)
  PROVE  SleepInv'
<1>1. PICK k \in Locals : k = loc[p] /\ Knows("checkpoint", k) /\ k.high \in Nat
  BY LocalTypes DEF Checkpoint, At
<1>2. runs' \in Seq(RunType) /\ Len(runs') = Len(runs) /\ DOMAIN runs' = DOMAIN runs
  BY OwnRunType DEF Checkpoint, STAGES
<1>3. Knows("report", k)
  BY <1>1 DEF Knows
<1>4. Knows("report", k)'
  BY <1>2, <1>3, KnowsRuns DEF Checkpoint
<1>5. progress' \in 0 .. Len(events) /\ \A i \in Ids : i <= progress' => Classified(i)
  BY <1>1 DEF Checkpoint, Covered, Knows, SleepInv, TypeOK
<1>6. Len(runs) <= MaxRuns
  BY DEF SleepInv, TypeOK
<1> QED BY <1>1, <1>2, <1>4, <1>5, <1>6, RunWriteSleeps DEF Checkpoint, PCs

LEMMA FailStep ==
  ASSUME SleepInv, NEW p \in Sleepers, Fail(p)
  PROVE  SleepInv'
<1>1. runs' \in Seq(RunType) /\ Len(runs') = Len(runs) /\ DOMAIN runs' = DOMAIN runs
  BY OwnRunType DEF Fail, STAGES
<1>2. PICK k \in Locals : k = Fresh /\ Knows("idle", k)
  BY FreshTypes DEF Knows, SleepInv, TypeOK
<1>3. Knows("idle", k)'
  BY <1>1, <1>2, KnowsRuns DEF Fail
<1>4. progress' \in 0 .. Len(events) /\ \A i \in Ids : i <= progress' => Classified(i)
  BY DEF Fail, SleepInv, TypeOK, TableInv, CheckpointClassified, Classified
<1>5. Len(runs) <= MaxRuns
  BY DEF SleepInv, TypeOK
<1> QED BY <1>1, <1>2, <1>3, <1>4, <1>5, RunWriteSleeps DEF Fail, PCs

LEMMA DeferStep ==
  ASSUME SleepInv, NEW p \in Sleepers, Defer(p)
  PROVE  SleepInv'
<1>1. PICK k \in Locals : k = loc[p] /\ Knows("defer", k) /\ k.picked \subseteq Ids
  BY LocalTypes DEF Defer, At
<1>2. Grows
  BY DEF Grows, Defer, SleepInv, TypeOK
<1>3. TableTypeOK'
  BY <1>1 DEF TableTypeOK, Defer, SleepInv, TypeOK
<1>4. \A i \in lessons' : KeptLesson(i)
  BY <1>1 DEF Defer, Knows, SleepInv, TableInv
<1>5. TableInv'
  BY <1>4 DEF Defer, SleepInv, TableInv, Classified, Faithful, KeptLesson, Promoted,
     CheckpointClassified, NoDuplicateMaterial, SameMaterial
<1>6. Knows("promote_defer", k)
  BY <1>1 DEF Knows
<1>7. Knows("promote_defer", k)'
  BY <1>6, KnowsRuns DEF Defer
<1> QED BY <1>1, <1>2, <1>3, <1>5, <1>7, MoveSleeps DEF Defer, PCs

-----------------------------------------------------------------------------
(* The classification.                                                     *)

\* What _classify returns, where it does not raise.
LEMMA ClassifyType ==
  ASSUME NEW e \in EventType, ~Poison(e)
  PROVE  /\ Classify(e).type \in CANDIDATE_TYPES \cup {"none"}
         /\ Classify(e).disposition \in Dispositions
BY DEF Classify, Poison, EventType, RawDisposition, TypedDisposition, CANDIDATE_TYPES, Dispositions

\* Lessons and changes of propositions that are not refused have a source to
\* be trusted, and a lesson has a reviewer's.
LEMMA ClassifySource ==
  ASSUME NEW e \in EventType,
         Classify(e).type \in {"proposition_change", "behavioral_lesson"},
         Classify(e).disposition \notin {"quarantined", "rejected"}
  PROVE  /\ SourceOf(e.kind) \notin Untrusted
         /\ Classify(e).type = "behavioral_lesson" => SourceOf(e.kind) = "reviewer"
BY DEF Classify, EventType, RawDisposition, TypedDisposition, CANDIDATE_TYPES, SourceOf,
   SOURCE_CLASSES, Untrusted

\* The INSERTs of one transaction, from the first event without an item on:
\* they leave no gap and keep no material twice.
LEMMA ClassifyRowsStep ==
  ASSUME SleepInv, NEW p \in Sleepers, ClassifyRows(p)
  PROVE  SleepInv'
<1>1. PICK l \in Locals : l = loc[p] /\ Knows("classify", l)
  BY LocalTypes DEF ClassifyRows, At
<1> DEFINE block == Unclassified(l) \cup {l.head}
           refused(i) == IF i = l.head THEN l.conflict ELSE Repeats(i, block)
           outcome(i) == IF refused(i) THEN "rejected" ELSE Classify(events[i]).disposition
           row(i) == [run |-> l.run, type |-> Classify(events[i]).type,
                      disposition |-> outcome(i)]
<1>2. CASE RaisesInBlock(p)
  <2>1. Knows("fail", l)
    BY <1>1 DEF Knows
  <2> QED BY <1>1, <1>2, <2>1, SilentSleeps DEF ClassifyRows, PCs, table
<1>3. CASE ~RaisesInBlock(p)
  <2>0. Insertable(l.head) /\ \A i \in Unclassified(l) : ~Poison(events[i])
    BY <1>1, <1>3 DEF RaisesInBlock
  <2>1. /\ l.low \in Nat /\ l.low >= 1 /\ l.high \in Nat /\ l.high =< Len(events)
        /\ Len(events) \in Nat /\ Len(events) =< MaxEvents /\ MaxEvents \in Nat
        /\ l.head \in l.low .. l.high /\ l.head \in Ids
        /\ l.run \in DOMAIN runs /\ l.run # 0 /\ l.run \in 0 .. MaxRuns
    BY <1>1, SleepAssumption DEF Knows, Locals, SleepInv, TypeOK, Ids
  <2>2. /\ \A i \in Ids : i < l.head => Classified(i)
        /\ \A i \in Ids : i >= l.head => ~Classified(i)
        /\ l.conflict \/ Novel(l.head)
    BY <1>1, <2>0, <2>1 DEF Knows, Insertable, Classified, SleepInv, TableInv,
       CheckpointClassified, Ids
  <2>3. block = l.head .. l.high
    BY <2>1, <2>2 DEF Unclassified, Classified, Ids
  <2>4. /\ items' = [i \in Ids |-> IF i \in block THEN row(i) ELSE items[i]]
        /\ Goto(p, "reconcile", l)
        /\ UNCHANGED <<events, statements, progress, runs, lessons, promotions>>
    BY <1>1, <1>3 DEF ClassifyRows
  <2>5. /\ \A i \in Ids \ (l.head .. l.high) : items'[i] = items[i]
        /\ \A i \in l.head .. l.high : items'[i] = row(i)
    BY <2>1, <2>3, <2>4 DEF Ids
  <2>6. \A i \in l.head .. l.high :
          /\ i \in Ids /\ i =< Len(events) /\ events[i] \in EventType
          /\ items'[i].run = l.run /\ items'[i].type = Classify(events[i]).type
          /\ items'[i].disposition = outcome(i)
    <3>1. \A i \in l.head .. l.high : i \in Ids /\ i \in 1 .. Len(events)
      BY <2>1 DEF Ids
    <3>2. \A i \in 1 .. Len(events) : events[i] \in EventType
      BY SleepAssumption DEF SleepInv, TypeOK
    <3>3. \A i \in l.head .. l.high :
            /\ items'[i].run = l.run /\ items'[i].type = Classify(events[i]).type
            /\ items'[i].disposition = outcome(i)
      <4>1. \A r, t, d, f : f = [run |-> r, type |-> t, disposition |-> d] =>
              f.run = r /\ f.type = t /\ f.disposition = d
        OBVIOUS
      <4>2. ASSUME NEW i \in l.head .. l.high
            PROVE  /\ items'[i].run = l.run /\ items'[i].type = Classify(events[i]).type
                   /\ items'[i].disposition = outcome(i)
        <5>1. items'[i] = row(i)
          <6> HIDE DEF row
          <6> QED BY <2>5
        <5>2. row(i).run = l.run /\ row(i).type = Classify(events[i]).type
              /\ row(i).disposition = outcome(i)
          <6> HIDE DEF refused, block, outcome
          <6> QED OBVIOUS
        <5> HIDE DEF row, outcome
        <5> QED BY <5>1, <5>2
      <4> HIDE DEF row, outcome
      <4> QED BY <4>2
    <3> HIDE DEF refused, block, row, outcome
    <3> QED BY <3>1, <3>2, <3>3
  <2> HIDE DEF row, refused, block, outcome
  <2>7. Grows
    BY <2>1, <2>2, <2>4, <2>5 DEF Grows, SleepInv, TypeOK, Ids
  <2>8. TableTypeOK'
    <3>1. \A i \in l.head .. l.high : items'[i] \in ItemType
      <4>1. ASSUME NEW i \in l.head .. l.high
            PROVE  /\ Classify(events[i]).type \in CANDIDATE_TYPES \cup {"none"}
                   /\ Classify(events[i]).disposition \in Dispositions
        <5>1. ~Poison(events[i])
          BY <2>0, <2>1, <2>2, <2>6 DEF Unclassified, Classified, Ids
        <5> QED BY <2>6, <5>1, ClassifyType
      <4>2. "rejected" \in Dispositions
        BY DEF Dispositions
      <4>3. ASSUME NEW i \in l.head .. l.high
            PROVE  items'[i] \in ItemType
        <5>1. PICK d \in Dispositions :
                items'[i] = [run |-> l.run, type |-> Classify(events[i]).type,
                             disposition |-> d]
          BY <2>5, <4>1, <4>2, <4>3 DEF row, outcome
        <5> QED BY <2>1, <4>1, <5>1 DEF ItemType
      <4> QED BY <4>3
    <3>2. \A i \in Ids : items'[i] \in ItemType
      BY <2>5, <3>1 DEF SleepInv, TypeOK
    <3>3. items' \in [Ids -> ItemType]
      BY <2>4, <3>2
    <3> QED BY <2>4, <3>3 DEF TableTypeOK, SleepInv, TypeOK
  <2>9. \A i \in Ids : Classified(i)' <=> i =< l.high
    <3>1. \A i \in l.head .. l.high : Classified(i)'
      BY <2>1, <2>6 DEF Classified, NoItem
    <3> QED BY <2>1, <2>2, <2>5, <3>1 DEF Classified, Ids
  <2>10. CheckpointClassified'
    BY <2>1, <2>2, <2>4, <2>9 DEF CheckpointClassified, Classified, SleepInv, TypeOK, TableInv, Ids
  <2>11. \A i \in Ids : Classified(i)' => Faithful(i)'
    <3>1. \A i \in l.head .. l.high : Faithful(i)'
      <4>1. \A i \in l.head .. l.high :
              outcome(i) \in {Classify(events[i]).disposition, "rejected"}
        BY DEF outcome
      <4> QED BY <2>1, <2>4, <2>6, <4>1 DEF Faithful
    <3>2. ASSUME NEW i \in Ids, i < l.head
          PROVE  Faithful(i)'
      <4>1. Faithful(i) /\ items'[i] = items[i]
        BY <2>1, <2>2, <2>5, <3>2 DEF SleepInv, TableInv, Ids
      <4> QED BY <2>4, <4>1 DEF Faithful
    <3>3. \A i \in Ids : Classified(i)' => i < l.head \/ i \in l.head .. l.high
      BY <2>1, <2>9 DEF Ids
    <3> QED BY <3>1, <3>2, <3>3
  <2>12. /\ \A i \in lessons' : KeptLesson(i)'
         /\ \A i \in Ids : promotions'[i] # "none" => Promoted(i)'
    <3>1. \A i \in Ids : KeptLesson(i) \/ Promoted(i) => Classified(i)
      BY DEF KeptLesson, Promoted, Classified, NoItem
    <3>2. \A i \in Ids : Classified(i) => items'[i] = items[i]
      BY <2>7 DEF Grows
    <3> QED BY <2>4, <3>1, <3>2 DEF KeptLesson, Promoted, SleepInv, TypeOK, TableInv
  <2>13. NoDuplicateMaterial'
    <3>1. \A i \in Ids : items'[i].disposition \in Kept => i =< l.high
      BY <2>9 DEF Classified, NoItem, Kept
    <3>2. \A i \in l.head .. l.high : items'[i].disposition \in Kept =>
            ~refused(i) /\ Classify(events[i]).disposition \in Kept
      BY <2>6 DEF Kept, outcome
    <3>3. ASSUME NEW i \in Ids, NEW j \in Ids, i < j, items'[i].disposition \in Kept,
                 items'[j].disposition \in Kept, SameMaterial(j, i)
          PROVE  FALSE
      <4>1. CASE j < l.head
        BY <2>1, <2>5, <3>3, <4>1 DEF SleepInv, TableInv, NoDuplicateMaterial, SameMaterial, Ids
      <4>2. CASE j = l.head
        <5>1. i < l.head /\ items[i].disposition \in Kept
          BY <2>1, <2>5, <3>3, <4>2 DEF Ids
        <5>2. ~l.conflict /\ Classify(events[j]).disposition \in Kept
          BY <2>1, <3>2, <3>3, <4>2 DEF refused
        <5>3. Novel(j) /\ i \in Ids \ {j}
          BY <2>2, <3>3, <4>2, <5>2, <5>1, <2>1 DEF Ids
        <5> QED BY <3>3, <5>1, <5>2, <5>3, Zenon DEF Novel
      <4>3. CASE j > l.head
        <5>1. j \in l.head .. l.high
          BY <2>1, <3>1, <3>3, <4>3 DEF Ids
        <5>2. ~Repeats(j, block) /\ Classify(events[j]).disposition \in Kept
          BY <2>1, <3>2, <3>3, <4>3, <5>1 DEF refused, Ids
        <5>3. CASE i < l.head
          BY <2>1, <2>5, <3>3, <5>2, <5>3 DEF Repeats, Conflicts, Ids
        <5>4. CASE i >= l.head
          <6>1. i \in block /\ Classify(events[i]).disposition \in Kept
            BY <2>1, <2>3, <3>2, <3>3, <5>1, <5>4 DEF Ids
          <6> QED BY <3>3, <5>2, <6>1 DEF Repeats
        <5> QED BY <2>1, <5>3, <5>4 DEF Ids
      <4> QED BY <2>1, <4>1, <4>2, <4>3 DEF Ids
    <3>4. \A i, j : SameMaterial(i, j)' <=> SameMaterial(j, i)
      BY <2>4 DEF SameMaterial
    <3>5. \A i, j : SameMaterial(i, j) <=> SameMaterial(j, i)
      BY DEF SameMaterial
    <3>6. ASSUME NEW i \in Ids, NEW j \in Ids, items'[i].disposition \in Kept,
                 items'[j].disposition \in Kept, SameMaterial(i, j)
          PROVE  i = j
      <4>1. ~(i < j) /\ ~(j < i)
        BY <3>3, <3>5, <3>6
      <4> QED BY <4>1 DEF Ids
    <3> QED BY <3>4, <3>5, <3>6, Zenon DEF NoDuplicateMaterial
  <2>14. TableInv'
    BY <2>10, <2>11, <2>12, <2>13 DEF TableInv
  <2>15. Knows("reconcile", l)'
    <3>1. l.high =< Len(events') /\ l.low =< l.high /\ l.run \in DOMAIN runs'
      BY <2>1, <2>4
    <3>2. \A i \in Ids : i < l.low => Classified(i)'
      BY <2>1, <2>9 DEF Ids
    <3>3. \A i \in Ids : i =< l.high => Classified(i)'
      BY <2>9
    <3> QED BY <3>1, <3>2, <3>3 DEF Knows
  <2> QED BY <2>4, <2>7, <2>8, <2>14, <2>15, MoveSleeps DEF PCs
<1> QED BY <1>2, <1>3

-----------------------------------------------------------------------------
(* The rest of the program.                                                *)

LEMMA OthersSleep ==
  ASSUME SleepInv, Grows, TableTypeOK', TableInv', UNCHANGED <<pc, loc>>
  PROVE  SleepInv'
<1>1. ASSUME NEW q \in Sleepers PROVE Knows(pc[q], loc[q])'
  <2>1. PICK m \in PCs, k \in Locals : m = pc[q] /\ k = loc[q] /\ Knows(m, k)
    BY LocalTypes
  <2>2. CheckpointClassified'
    BY DEF TableInv
  <2>3. Knows(m, k)'
    BY <2>1, <2>2, KnowsStays, Zenon
  <2>4. m = pc'[q] /\ k = loc'[q]
    BY <2>1
  <2> QED BY <2>3, <2>4 DEF Knows, Classified, KeptLesson, Novel, SameMaterial
<1> QED BY <1>1, TypeSplits DEF SleepInv, TypeOK, TableTypeOK

LEMMA AddEventStep ==
  ASSUME SleepInv, AddEvent
  PROVE  SleepInv'
<1>1. /\ events' \in Seq(Inputs) /\ Len(events') = Len(events) + 1
      /\ Len(events) \in Nat /\ Len(events') <= MaxEvents
      /\ \A i \in 1 .. Len(events) : events'[i] = events[i]
  BY SleepAssumption DEF AddEvent, SleepInv, TypeOK
<1>2. Grows
  BY <1>1 DEF Grows, AddEvent
<1>3. TableTypeOK'
  BY <1>1 DEF TableTypeOK, AddEvent, SleepInv, TypeOK
<1>4. \A i \in Ids : Classified(i) => Faithful(i)' /\ i \in 1 .. Len(events)
  BY <1>1 DEF Classified, Faithful, AddEvent, SleepInv, TableInv, Ids
<1>5. NoDuplicateMaterial'
  <2>1. \A i \in Ids : items[i].disposition \in Kept => Classified(i)
    BY DEF Classified, NoItem, Kept
  <2> QED BY <1>1, <1>4, <2>1 DEF NoDuplicateMaterial, SameMaterial, AddEvent, SleepInv, TableInv
<1>6. TableInv'
  BY <1>4, <1>5 DEF TableInv, AddEvent, SleepInv, Classified, KeptLesson, Promoted,
     CheckpointClassified
<1> QED BY <1>2, <1>3, <1>6, OthersSleep DEF AddEvent

LEMMA ProposeStep ==
  ASSUME SleepInv, Propose
  PROVE  SleepInv'
<1>1. Grows /\ TableTypeOK'
  BY DEF Grows, TableTypeOK, Propose, SleepInv, TypeOK
<1>2. TableInv'
  BY DEF TableInv, Propose, SleepInv, Classified, Faithful, KeptLesson, Promoted,
     CheckpointClassified, NoDuplicateMaterial, SameMaterial
<1> QED BY <1>1, <1>2, OthersSleep DEF Propose

LEMMA DecideCandidateStep ==
  ASSUME SleepInv, DecideCandidate
  PROVE  SleepInv'
<1>1. Grows /\ TableTypeOK'
  BY DEF Grows, TableTypeOK, DecideCandidate, SleepInv, TypeOK
<1>2. \A i \in Ids : promotions'[i] # "none" => Promoted(i)
  BY DEF DecideCandidate, Promotable, Promoted, SleepInv, TypeOK, TableInv
<1>3. TableInv'
  BY <1>2 DEF TableInv, DecideCandidate, SleepInv, Classified, Faithful, KeptLesson, Promoted,
     CheckpointClassified, NoDuplicateMaterial, SameMaterial
<1> QED BY <1>1, <1>3, OthersSleep DEF DecideCandidate

-----------------------------------------------------------------------------
(* The properties of any number of sleepers.                               *)

LEMMA InitSleeps == Init => SleepInv
<1> SUFFICES ASSUME Init PROVE SleepInv
  OBVIOUS
<1>1. TypeOK
  <2>1. /\ events \in Seq(Inputs) /\ Len(events) = 0 /\ runs \in Seq(RunType) /\ Len(runs) = 0
    BY DEF Init
  <2>2. NoItem \in ItemType
    BY SleepAssumption DEF NoItem, ItemType
  <2> QED BY <2>1, <2>2, FreshTypes, SleepAssumption DEF Init, TypeOK, PCs
<1>2. TableInv
  BY SleepAssumption DEF Init, TableInv, Classified, CheckpointClassified, NoDuplicateMaterial,
     NoItem, Kept, Ids
<1>3. Knows("idle", Fresh)
  BY FreshTypes DEF Init, Knows
<1> QED BY <1>1, <1>2, <1>3 DEF SleepInv, Init

LEMMA SleepStep == SleepInv /\ [Next]_vars => SleepInv'
<1> SUFFICES ASSUME SleepInv, [Next]_vars PROVE SleepInv'
  OBVIOUS
<1>1. CASE UNCHANGED vars
  <2>1. Grows
    BY <1>1 DEF Grows, vars, table, SleepInv, TypeOK
  <2>2. TableTypeOK' /\ TableInv'
    BY <1>1, TypeSplits DEF vars, table, SleepInv, TableTypeOK, TableInv, Classified, Faithful,
       KeptLesson, Promoted, CheckpointClassified, NoDuplicateMaterial, SameMaterial
  <2> QED BY <1>1, <2>1, <2>2, OthersSleep DEF vars
<1>2. CASE AddEvent \/ Propose \/ DecideCandidate
  BY <1>2, AddEventStep, ProposeStep, DecideCandidateStep
<1>3. ASSUME NEW p \in Sleepers, Start(p) \/ Work(p) PROVE SleepInv'
  BY <1>3, StartStep, ReadRowsStep, OpenRunStep, StageStep, CheckStep, ClassifyRowsStep,
     PickStep, DeferStep, CheckpointStep, FailStep, InterruptionStep DEF Work
<1>4. ASSUME NEW p \in Sleepers, Fault(p) \/ Crash(p) PROVE SleepInv'
  BY <1>4, InterruptionStep
<1> QED BY <1>1, <1>2, <1>3, <1>4 DEF Next, Interrupted

THEOREM SleepInvariant == Spec => []SleepInv
BY InitSleeps, SleepStep, PTL DEF Spec

\* Every table and every process of sleep.py has its type, whatever fails or
\* dies when: the foreign keys of items and the checkpoint stay in range.
THEOREM SleepTypes == Spec => []TypeOK
<1>1. SleepInv => TypeOK
  BY DEF SleepInv
<1> QED BY <1>1, SleepInvariant, PTL

\* consolidate moves the checkpoint only over events it has classified, and
\* _reconcile leaves no event behind one it classified.
THEOREM CheckpointIsClassified == Spec => []CheckpointClassified
<1>1. SleepInv => CheckpointClassified
  BY DEF SleepInv, TableInv
<1> QED BY <1>1, SleepInvariant, PTL

\* Of all events of one type and content _conflict lets one be kept, though a
\* sleeper asks it before its transaction and others write in between.
THEOREM MaterialIsKeptOnce == Spec => []NoDuplicateMaterial
<1>1. SleepInv => NoDuplicateMaterial
  BY DEF SleepInv, TableInv
<1> QED BY <1>1, SleepInvariant, PTL

\* No lesson of _defer_adaptations and no approval of decide_candidate comes
\* from external content or from the model's own output.
THEOREM QuarantineIsKept == Spec => []QuarantineHolds
<1>1. ASSUME SleepInv PROVE QuarantineHolds
  <2>1. ASSUME NEW i \in Ids, KeptLesson(i) \/ Promoted(i)
        PROVE  /\ SourceOf(events[i].kind) \notin Untrusted
               /\ items[i].type = "behavioral_lesson" => SourceOf(events[i].kind) = "reviewer"
    <3>1. Faithful(i)
      BY <1>1, <2>1 DEF SleepInv, TableInv, KeptLesson, Promoted, Classified, NoItem
    <3>2. events[i] \in EventType
      BY <1>1, <3>1, SleepAssumption DEF Faithful, SleepInv, TypeOK, Ids
    <3>3. /\ Classify(events[i]).type \in {"proposition_change", "behavioral_lesson"}
          /\ Classify(events[i]).disposition \notin {"quarantined", "rejected"}
      BY <2>1, <3>1 DEF KeptLesson, Promoted, Faithful, Kept
    <3> QED BY <3>1, <3>2, <3>3, ClassifySource DEF Faithful
  <2> QED BY <1>1, <2>1 DEF QuarantineHolds, SleepInv, TypeOK, TableInv
<1> QED BY <1>1, SleepInvariant, PTL

\* A sleep_items row is written once: what a run classified no other run and
\* no other process classifies again.
THEOREM EventsAreClassifiedOnce == Spec => ClassifiedOnce
<1>1. ASSUME SleepInv, [Next]_vars
      PROVE  [\A i \in Ids : items[i] # NoItem => items'[i] = items[i]]_items
  <2>1. ASSUME NEW p \in Sleepers, ClassifyRows(p), NEW i \in Ids, items[i] # NoItem
        PROVE  items'[i] = items[i]
    <3>1. PICK l : l = loc[p] /\ Knows("classify", l)
      BY <1>1, <2>1, LocalTypes DEF ClassifyRows, At
    <3>2. CASE ~RaisesInBlock(p)
      BY <2>1, <3>1, <3>2 DEF ClassifyRows, RaisesInBlock, Insertable, Unclassified
    <3>3. CASE RaisesInBlock(p)
      BY <2>1, <3>1, <3>3 DEF ClassifyRows
    <3> QED BY <3>2, <3>3
  <2>2. ASSUME NEW p \in Sleepers, Start(p) \/ Work(p) \/ Fault(p) \/ Crash(p), ~ClassifyRows(p)
        PROVE  UNCHANGED items
    BY <2>2 DEF Start, Work, ReadRows, OpenRun, Extract, Check, Reconcile, Validate, Pick, Defer,
       PromoteDefer, Checkpoint, Report, Fail, Fault, Crash, Stage, table
  <2> QED BY <1>1, <2>1, <2>2 DEF Next, Interrupted, AddEvent, Propose, DecideCandidate, vars, table
<1> QED BY <1>1, SleepInvariant, PTL DEF Spec, ClassifiedOnce

-----------------------------------------------------------------------------
(* Sleepers that run one at a time.                                        *)

OneSleeper == \A p, q \in Sleepers : p = q

Unfinished == DOMAIN runs \ Completed

\* What such a sleeper relies on: it is in the range after the checkpoint, its
\* run is the unfinished one, and the lessons of that range are on their way.
Owns(l, r) ==
  /\ l \notin {"idle", "report"} => r.low = progress + 1
  /\ l = "open" => \A q \in DOMAIN runs : runs[q].end =< r.high
  /\ l \notin {"idle", "rows", "open", "report"} =>
       r.run \in Unfinished /\ runs[r.run].start = r.low /\ runs[r.run].end = r.high
  /\ l = "defer" => \A i \in r.low .. r.high : KeptLesson(i) => i \in r.picked
  /\ l \in {"promote_defer", "checkpoint"} =>
       \A i \in r.low .. r.high : KeptLesson(i) => i \in lessons

RunsInv ==
  /\ \A r \in DOMAIN runs : runs[r].end =< Len(events)
  /\ \A i \in Ids : Classified(i) /\ i > progress => items[i].run \in Unfinished
  /\ CheckpointCovers
  /\ RunsPartition
  /\ UnfinishedRunsResume

AloneInv ==
  /\ RunsInv
  /\ \A p \in Sleepers : Owns(pc[p], loc[p])

LEMMA OwnsStays ==
  ASSUME NEW l, NEW r, Owns(l, r), UNCHANGED <<progress, runs, items, lessons>>
  PROVE  Owns(l, r)'
BY DEF Owns, Unfinished, Completed, KeptLesson

\* The only sleeper moves.
LEMMA MoveAlone ==
  ASSUME OneSleeper, SleepInv, NEW p \in Sleepers, NEW l, NEW r, Goto(p, l, r),
         Owns(l, r)', RunsInv'
  PROVE  AloneInv'
<1>1. pc'[p] = l /\ loc'[p] = r
  BY DEF SleepInv, TypeOK, Goto
<1>2. Owns(pc[p], loc[p])'
  BY <1>1 DEF Owns, Unfinished, Completed, KeptLesson
<1> QED BY <1>2 DEF AloneInv, OneSleeper

\* What RunsInv says of the numbers in sleep_runs.
LEMMA RunFacts ==
  ASSUME SleepInv, RunsInv
  PROVE  /\ progress \in Nat /\ Len(runs) \in Nat /\ MaxEvents \in Nat
         /\ \A r \in DOMAIN runs : runs[r].start \in Nat /\ runs[r].end \in Nat /\ r \in Nat
         /\ \A r \in Unfinished : r = Len(runs) /\ r \in DOMAIN runs
                                /\ runs[r].start = progress + 1
         /\ \A i \in Ids : Classified(i) =>
              /\ items[i].run \in DOMAIN runs
              /\ runs[items[i].run].start <= i /\ i <= runs[items[i].run].end
         /\ \A i \in Ids : KeptLesson(i) => Classified(i)
<1>1. progress \in Nat /\ Len(runs) \in Nat /\ MaxEvents \in Nat
  BY SleepAssumption DEF SleepInv, TypeOK
<1>2. \A r \in DOMAIN runs : runs[r].start \in Nat /\ runs[r].end \in Nat /\ r \in Nat
  <2>1. \A r \in DOMAIN runs : runs[r] \in RunType /\ r \in Nat
    BY DEF SleepInv, TypeOK
  <2>2. Ids \subseteq Nat
    BY SleepAssumption DEF Ids
  <2> QED BY <2>1, <2>2 DEF RunType
<1>3. \A r \in Unfinished : r = Len(runs) /\ r \in DOMAIN runs /\ runs[r].start = progress + 1
  BY DEF RunsInv, UnfinishedRunsResume, Unfinished
<1>4. \A i \in Ids : Classified(i) =>
        /\ items[i].run \in DOMAIN runs
        /\ runs[items[i].run].start <= i /\ i <= runs[items[i].run].end
  BY DEF SleepInv, TableInv, Faithful, RunsInv, RunsPartition, Classified
<1>5. \A i \in Ids : KeptLesson(i) => Classified(i)
  BY DEF KeptLesson, Classified, NoItem
<1> QED BY <1>1, <1>2, <1>3, <1>4, <1>5

\* Classifications by the unfinished run in its range, more lessons and more
\* events leave the runs in order.
LEMMA RowsKeepRuns ==
  ASSUME SleepInv, RunsInv, UNCHANGED <<progress, runs>>, lessons \subseteq lessons',
         Len(events) =< Len(events'), Len(events') \in Nat,
         \A i \in Ids : \/ items'[i] = items[i]
                       \/ /\ ~Classified(i) /\ i > progress
                          /\ items'[i].run \in Unfinished
                          /\ runs[items'[i].run].start <= i /\ i <= runs[items'[i].run].end
  PROVE  RunsInv'
<1>1. \A i \in 1 .. progress : i \in Ids
  BY SleepAssumption DEF SleepInv, TypeOK, Ids
<1>2. CheckpointCovers'
  BY <1>1, RunFacts DEF RunsInv, CheckpointCovers, Classified
<1>3. RunsPartition'
  BY RunFacts DEF RunsInv, RunsPartition, Completed, Classified
<1>4. UnfinishedRunsResume'
  BY DEF RunsInv, UnfinishedRunsResume, Completed
<1>5. \A r \in DOMAIN runs : runs[r].end =< Len(events')
  BY RunFacts DEF RunsInv, SleepInv, TypeOK
<1>6. \A i \in Ids : Classified(i)' /\ i > progress => items'[i].run \in Unfinished
  BY DEF RunsInv, Classified
<1> QED BY <1>2, <1>3, <1>4, <1>5, <1>6 DEF RunsInv, Unfinished, Completed, Classified

LEMMA SilentAlone ==
  ASSUME OneSleeper, SleepInv, AloneInv, NEW p \in Sleepers, NEW l, NEW r, Goto(p, l, r),
         Owns(l, r), UNCHANGED table
  PROVE  AloneInv'
<1>1. RunsInv'
  BY RowsKeepRuns DEF AloneInv, table, SleepInv, TypeOK
<1>2. Owns(l, r)'
  BY OwnsStays DEF table
<1> QED BY <1>1, <1>2, MoveAlone

LEMMA ReadsAlone ==
  ASSUME OneSleeper, SleepInv, AloneInv, NEW p \in Sleepers,
         Start(p) \/ ReadRows(p) \/ Check(p) \/ Pick(p) \/ Report(p) \/ Fault(p) \/ Crash(p)
  PROVE  AloneInv'
<1>1. PICK l \in Locals : l = loc[p] /\ Knows(pc[p], l) /\ Owns(pc[p], l)
  BY LocalTypes DEF AloneInv
<1>2. Owns("idle", Fresh)
  BY DEF Owns
<1>3. CASE Start(p)
  <2>1. Owns("rows", [Fresh EXCEPT !.low = progress + 1])
    BY DEF Owns, Fresh
  <2> QED BY <1>3, <2>1, SilentAlone DEF Start
<1>4. CASE ReadRows(p)
  <2>1. CASE Len(events) < l.low
    BY <1>1, <1>2, <1>4, <2>1, SilentAlone DEF ReadRows
  <2>2. CASE ~(Len(events) < l.low)
    <3> DEFINE k == [l EXCEPT !.high = Len(events)]
    <3>1. k.low = l.low /\ k.high = Len(events)
      BY LocalsFields, Zenon
    <3>3. Goto(p, "open", k)
      BY <1>1, <1>4, <2>2 DEF ReadRows
    <3> HIDE DEF k
    <3>2. Owns("open", k)
      BY <1>1, <1>4, <3>1 DEF Owns, ReadRows, At, AloneInv, RunsInv
    <3> QED BY <1>4, <3>2, <3>3, SilentAlone DEF ReadRows
  <2> QED BY <2>1, <2>2
<1>5. CASE Check(p)
  <2>1. CASE Goto(p, "reconcile", l)
    <3>1. Owns("reconcile", l)
      BY <1>1, <1>5 DEF Owns, Check, At
    <3> QED BY <1>5, <2>1, <3>1, SilentAlone DEF Check
  <2>2. ASSUME NEW i, NEW c, Goto(p, "classify", [l EXCEPT !.head = i, !.conflict = c])
        PROVE  AloneInv'
    <3> DEFINE k == [l EXCEPT !.head = i, !.conflict = c]
    <3>1. k.low = l.low /\ k.high = l.high /\ k.run = l.run
      BY <1>1 DEF Locals
    <3>3. Goto(p, "classify", k)
      BY <2>2
    <3> HIDE DEF k
    <3>2. Owns("classify", k)
      BY <1>1, <1>5, <3>1 DEF Owns, Check, At
    <3> QED BY <1>5, <3>2, <3>3, SilentAlone DEF Check
  <2>3. CASE Goto(p, "fail", l)
    <3>1. Owns("fail", l)
      BY <1>1, <1>5 DEF Owns, Check, At
    <3> QED BY <1>5, <2>3, <3>1, SilentAlone DEF Check
  <2> QED BY <1>1, <1>5, <2>1, <2>2, <2>3 DEF Check
<1>6. CASE Pick(p)
  <2> DEFINE S == {i \in Ids : /\ items[i].run = l.run /\ items[i].type = "behavioral_lesson"
                               /\ items[i].disposition \in Kept}
             k == [l EXCEPT !.picked = S]
  <2>1. k.low = l.low /\ k.high = l.high /\ k.run = l.run /\ k.picked = S
    <3> HIDE DEF S
    <3> QED BY LocalsFields, Zenon
  <2>5. Goto(p, "defer", k)
    BY <1>1, <1>6 DEF Pick
  <2> HIDE DEF k
  <2>2. l.low = progress + 1 /\ l.run \in Unfinished /\ l.high \in 0 .. MaxEvents
    BY <1>1, <1>6 DEF Owns, Pick, At, Locals
  <2>3. ASSUME NEW i \in l.low .. l.high, KeptLesson(i)
        PROVE  i \in S
    <3>1. i \in Ids /\ i > progress
      BY <2>2, SleepAssumption DEF Ids, SleepInv, TypeOK
    <3>2. Classified(i) /\ items[i].run \in Unfinished
      BY <2>3, <3>1, RunFacts DEF AloneInv, RunsInv
    <3>3. items[i].run = l.run
      BY <2>2, <3>2, RunFacts DEF AloneInv
    <3> QED BY <2>3, <3>1, <3>3 DEF KeptLesson
  <2>4. Owns("defer", k)
    BY <1>1, <1>6, <2>1, <2>3 DEF Owns, Pick, At
  <2> QED BY <1>6, <2>4, <2>5, SilentAlone DEF Pick
<1>7. CASE Fault(p)
  <2>1. Owns("fail", l)
    BY <1>1, <1>7 DEF Owns, Fault, TryBlock, PCs
  <2> QED BY <1>1, <1>7, <2>1, SilentAlone DEF Fault
<1>8. CASE Report(p) \/ Crash(p)
  BY <1>2, <1>8, SilentAlone DEF Report, Crash
<1> QED BY <1>3, <1>4, <1>5, <1>6, <1>7, <1>8

LEMMA ClassifyRowsAlone ==
  ASSUME OneSleeper, SleepInv, AloneInv, NEW p \in Sleepers, ClassifyRows(p)
  PROVE  AloneInv'
<1>1. PICK l \in Locals : l = loc[p] /\ Knows("classify", l) /\ Owns("classify", l)
  BY LocalTypes DEF AloneInv, ClassifyRows, At
<1>2. CASE RaisesInBlock(p)
  <2>1. Owns("fail", l)
    BY <1>1 DEF Owns
  <2> QED BY <1>1, <1>2, <2>1, SilentAlone DEF ClassifyRows, table
<1>3. CASE ~RaisesInBlock(p)
  <2>0. Insertable(l.head)
    BY <1>1, <1>3 DEF RaisesInBlock
  <2>1. /\ l.low = progress + 1 /\ l.run \in Unfinished /\ runs[l.run].start = l.low
        /\ runs[l.run].end = l.high /\ l.head \in l.low .. l.high /\ l.high \in Nat
        /\ progress \in Nat
    BY <1>1, RunFacts DEF Owns, Knows, Locals, AloneInv
  <2>2. ASSUME NEW i \in Ids
        PROVE  \/ items'[i] = items[i]
               \/ /\ ~Classified(i) /\ i \in l.low .. l.high /\ items'[i].run = l.run
    <3>1. CASE i \in Unclassified(l) \cup {l.head}
      <4>1. ~Classified(i) /\ i \in l.low .. l.high
        BY <2>0, <2>1, <3>1 DEF Unclassified, Insertable, Classified
      <4>2. PICK t, d : items'[i] = [run |-> l.run, type |-> t, disposition |-> d]
        BY <1>1, <1>3, <3>1 DEF ClassifyRows
      <4> QED BY <4>1, <4>2
    <3>2. CASE i \notin Unclassified(l) \cup {l.head}
      BY <1>1, <1>3, <3>2 DEF ClassifyRows
    <3> QED BY <3>1, <3>2
  <2>3. RunsInv'
    BY <1>1, <1>3, <2>1, <2>2, RowsKeepRuns DEF ClassifyRows, AloneInv, SleepInv, TypeOK
  <2>4. Owns("reconcile", l)'
    BY <1>1, <1>3, <2>1 DEF ClassifyRows, Owns, Unfinished, Completed
  <2> QED BY <1>1, <1>3, <2>3, <2>4, MoveAlone DEF ClassifyRows
<1> QED BY <1>2, <1>3

LEMMA DeferAlone ==
  ASSUME OneSleeper, SleepInv, AloneInv, NEW p \in Sleepers, Defer(p)
  PROVE  AloneInv'
<1>1. PICK l \in Locals : l = loc[p] /\ Owns("defer", l)
  BY LocalTypes DEF AloneInv, Defer, At
<1>2. RunsInv'
  BY RowsKeepRuns DEF Defer, AloneInv, SleepInv, TypeOK
<1>3. Owns("promote_defer", l)'
  BY <1>1 DEF Defer, Owns, Unfinished, Completed, KeptLesson
<1> QED BY <1>1, <1>2, <1>3, MoveAlone DEF Defer

\* _stage and _fail keep the range of a run and whether it is unfinished.
LEMMA OwnRunAlone ==
  ASSUME SleepInv, RunsInv, NEW r \in Unfinished, NEW v \in {"running", "failed"},
         NEW st \in STAGES, runs' = [runs EXCEPT ![r].status = v, ![r].stage = st],
         UNCHANGED <<events, progress, items, lessons>>
  PROVE  /\ RunsInv' /\ Unfinished' = Unfinished
         /\ \A q \in DOMAIN runs : runs'[q].start = runs[q].start /\ runs'[q].end = runs[q].end
         /\ \A q \in Completed : runs'[q] = runs[q]
<1>1. /\ Len(runs') = Len(runs) /\ DOMAIN runs' = DOMAIN runs
      /\ \A q \in DOMAIN runs \ {r} : runs'[q] = runs[q]
      /\ runs'[r].start = runs[r].start /\ runs'[r].end = runs[r].end
      /\ runs'[r].status = v /\ r \in DOMAIN runs
  BY OwnRunType DEF Unfinished
<1>2. \A q \in DOMAIN runs : runs'[q].start = runs[q].start /\ runs'[q].end = runs[q].end
  BY <1>1
<1>3. Completed' = Completed /\ Unfinished' = Unfinished
  BY <1>1 DEF Completed, Unfinished
<1>4. \A q \in Completed : runs'[q] = runs[q]
  BY <1>1 DEF Completed, Unfinished
<1>5. CheckpointCovers'
  BY DEF RunsInv, CheckpointCovers
<1>6. RunsPartition'
  <2>1. Completed \subseteq DOMAIN runs /\ \A i \in Ids : items[i] # NoItem => items[i].run \in DOMAIN runs
    BY RunFacts DEF Completed, Classified
  <2>2. /\ \A i \in 1 .. progress : \E q \in Completed : runs'[q].start <= i /\ i <= runs'[q].end
        /\ \A q \in Completed : runs'[q].end <= progress
    BY <1>2, <2>1 DEF RunsInv, RunsPartition
  <2>3. \A q, m \in Completed : q < m => runs'[q].end < runs'[m].start
    BY <1>2, <2>1 DEF RunsInv, RunsPartition
  <2>4. \A i \in Ids : items[i] # NoItem =>
          runs'[items[i].run].start <= i /\ i <= runs'[items[i].run].end
    BY <1>2, <2>1 DEF RunsInv, RunsPartition
  <2> QED BY <1>3, <2>2, <2>3, <2>4 DEF RunsPartition
<1>7. UnfinishedRunsResume'
  BY <1>1, <1>2, <1>3 DEF RunsInv, UnfinishedRunsResume, Unfinished
<1>8. RunsInv'
  BY <1>1, <1>2, <1>3, <1>5, <1>6, <1>7 DEF RunsInv, Classified
<1> QED BY <1>2, <1>3, <1>4, <1>8

LEMMA OwnsKept ==
  ASSUME NEW l, NEW r, Owns(l, r), Unfinished' = Unfinished,
         UNCHANGED <<progress, items, lessons>>, l \notin {"open"},
         \A q \in DOMAIN runs : runs'[q].start = runs[q].start /\ runs'[q].end = runs[q].end
  PROVE  Owns(l, r)'
<1>1. Unfinished \subseteq DOMAIN runs
  BY DEF Unfinished
<1>2. l \notin {"idle", "rows", "open", "report"} =>
        r.run \in Unfinished' /\ runs'[r.run].start = r.low /\ runs'[r.run].end = r.high
  BY <1>1 DEF Owns
<1> QED BY <1>2 DEF Owns, KeptLesson

LEMMA StageAlone ==
  ASSUME OneSleeper, SleepInv, AloneInv, NEW p \in Sleepers,
         Extract(p) \/ Reconcile(p) \/ Validate(p) \/ PromoteDefer(p)
  PROVE  AloneInv' /\ \A q \in Completed : runs'[q] = runs[q]
<1>1. PICK at \in PCs, stage \in STAGES, then \in PCs :
        /\ Stage(p, at, stage, then) /\ (Owns(at, loc[p]) => Owns(then, loc[p]))
        /\ at \notin {"idle", "rows", "open", "report"} /\ then # "open"
  <2>1. \A r : /\ Owns("extract", r) => Owns("check", r)
               /\ Owns("reconcile", r) => Owns("validate", r)
               /\ Owns("validate", r) => Owns("pick", r)
               /\ Owns("promote_defer", r) => Owns("checkpoint", r)
    BY DEF Owns
  <2> QED BY <2>1, Zenon DEF Extract, Reconcile, Validate, PromoteDefer, STAGES, PCs
<1>2. PICK k : k = loc[p] /\ Owns(then, k) /\ k.run \in Unfinished
  <2>1. Owns(at, loc[p])
    BY <1>1 DEF AloneInv, Stage, At
  <2>2. loc[p].run \in Unfinished
    BY <1>1, <2>1 DEF Owns
  <2> QED BY <1>1, <2>1, <2>2
<1>3. /\ RunsInv' /\ Unfinished' = Unfinished
      /\ \A q \in DOMAIN runs : runs'[q].start = runs[q].start /\ runs'[q].end = runs[q].end
      /\ \A q \in Completed : runs'[q] = runs[q]
  BY <1>1, <1>2, OwnRunAlone DEF Stage, AloneInv
<1>4. Owns(then, k)'
  BY <1>1, <1>2, <1>3, OwnsKept DEF Stage
<1> QED BY <1>1, <1>2, <1>3, <1>4, MoveAlone DEF Stage

LEMMA FailAlone ==
  ASSUME OneSleeper, SleepInv, AloneInv, NEW p \in Sleepers, Fail(p)
  PROVE  AloneInv' /\ \A q \in Completed : runs'[q] = runs[q]
<1>1. loc[p].run \in Unfinished
  BY DEF AloneInv, Owns, Fail, At
<1>2. RunsInv' /\ \A q \in Completed : runs'[q] = runs[q]
  BY <1>1, OwnRunAlone DEF Fail, AloneInv, STAGES
<1>3. Owns("idle", Fresh)'
  BY DEF Owns
<1> QED BY <1>2, <1>3, MoveAlone DEF Fail

LEMMA OpenRunAlone ==
  ASSUME OneSleeper, SleepInv, AloneInv, NEW p \in Sleepers, OpenRun(p)
  PROVE  AloneInv' /\ \A q \in Completed : runs'[q] = runs[q]
<1>1. PICK l \in Locals : l = loc[p] /\ Knows("open", l) /\ Owns("open", l)
  BY LocalTypes DEF AloneInv, OpenRun, At
<1> DEFINE opened == [start |-> l.low, end |-> l.high, status |-> "running",
                      stage |-> "quarantine"]
<1>2. /\ l.low = progress + 1 /\ l.low =< l.high /\ l.high =< Len(events) /\ l.high \in Nat
      /\ \A q \in DOMAIN runs : runs[q].end =< l.high
      /\ progress \in Nat /\ Len(events) \in Nat
  BY <1>1, RunFacts DEF Knows, Owns, Locals, AloneInv, SleepInv, TypeOK
<1>3. /\ runs \in Seq(RunType)
      /\ \A q \in DOMAIN runs : runs[q].start \in Nat /\ runs[q].end \in Nat /\ q \in Nat
      /\ \A q \in Unfinished : q = Len(runs) /\ q \in DOMAIN runs /\ runs[q].start = l.low
      /\ \A i \in Ids : items[i] # NoItem =>
           /\ items[i].run \in DOMAIN runs
           /\ runs[items[i].run].start <= i /\ i <= runs[items[i].run].end
      /\ Completed \subseteq DOMAIN runs /\ Ids \subseteq Nat
  BY <1>2, RunFacts DEF AloneInv, SleepInv, TypeOK, Completed, Classified, Ids
\* Either way the run opened is the unfinished one, and holds what it did.
<1>4. PICK r :
        /\ DOMAIN runs' = DOMAIN runs \cup {r} /\ Len(runs') = r /\ runs'[r] = opened
        /\ \A q \in DOMAIN runs \ {r} : runs'[q] = runs[q]
        /\ r \notin Completed /\ Unfinished \subseteq {r}
        /\ r \in DOMAIN runs => runs[r].start = l.low
        /\ Goto(p, "extract", [l EXCEPT !.run = r])
  <2>1. CASE \E r \in Resumable(l.low) :
               /\ runs' = [runs EXCEPT ![r] = opened]
               /\ Goto(p, "extract", [l EXCEPT !.run = r])
    <3>1. PICK r \in Resumable(l.low) :
            /\ runs' = [runs EXCEPT ![r] = opened]
            /\ Goto(p, "extract", [l EXCEPT !.run = r])
      BY <2>1
    <3>2. r \in DOMAIN runs /\ r \notin Completed /\ r \in Unfinished /\ runs[r].start = l.low
      BY DEF Resumable, Completed, Unfinished
    <3>3. DOMAIN runs' = DOMAIN runs /\ Len(runs') = Len(runs) /\ runs'[r] = opened
          /\ \A q \in DOMAIN runs \ {r} : runs'[q] = runs[q]
      BY <1>3, <3>1, <3>2
    <3> QED BY <1>3, <3>1, <3>2, <3>3, SMTT(30)
  <2>2. CASE /\ Resumable(l.low) = {} /\ runs' = Append(runs, opened)
             /\ Goto(p, "extract", [l EXCEPT !.run = Len(runs) + 1])
    <3>1. Unfinished = {}
      <4>1. \A q \in DOMAIN runs : runs[q].status \in {"failed", "running", "completed"}
        <5>1. \A q \in DOMAIN runs : runs[q] \in RunType
          BY <1>3
        <5> QED BY <5>1 DEF RunType
      <4> QED BY <1>3, <2>2, <4>1 DEF Resumable, Unfinished, Completed
    <3>2. /\ DOMAIN runs' = DOMAIN runs \cup {Len(runs) + 1} /\ Len(runs') = Len(runs) + 1
          /\ runs'[Len(runs) + 1] = opened /\ Len(runs) + 1 \notin DOMAIN runs
          /\ \A q \in DOMAIN runs : runs'[q] = runs[q]
      BY <1>3, <2>2
    <3> QED BY <1>3, <2>2, <3>1, <3>2
  <2> QED BY <1>1, <2>1, <2>2 DEF OpenRun
<1>5. /\ runs'[r].start = l.low /\ runs'[r].end = l.high /\ runs'[r].status = "running"
  BY <1>4
<1> HIDE DEF opened
<1>6. Completed' = Completed /\ Unfinished' = {r} /\ \A q \in Completed : runs'[q] = runs[q]
  BY <1>4, <1>5 DEF Completed, Unfinished
<1>7. CheckpointCovers'
  BY DEF OpenRun, AloneInv, RunsInv, CheckpointCovers
<1>8. RunsPartition'
  <2>1. \A q \in Completed : runs'[q] = runs[q]
    BY <1>6
  <2>2. \A i \in Ids : items[i] # NoItem =>
          runs'[items[i].run].start <= i /\ i <= runs'[items[i].run].end
    <3>1. ASSUME NEW i \in Ids, items[i] # NoItem, items[i].run = r
          PROVE  runs'[r].start <= i /\ i <= runs'[r].end
      BY <1>2, <1>3, <1>4, <1>5, <3>1
    <3> QED BY <1>3, <1>4, <3>1
  <2> QED BY <1>6, <2>1, <2>2 DEF RunsPartition, AloneInv, RunsInv, OpenRun
<1>9. RunsInv'
  <2>1. \A q \in DOMAIN runs' : runs'[q].end =< Len(events')
    BY <1>2, <1>4, <1>5 DEF OpenRun, AloneInv, RunsInv
  <2>2. \A i \in Ids : Classified(i)' /\ i > progress' => items'[i].run \in Unfinished'
    BY <1>4, <1>6 DEF OpenRun, AloneInv, RunsInv, Classified
  <2>3. UnfinishedRunsResume'
    BY <1>2, <1>4, <1>5, <1>6 DEF OpenRun, UnfinishedRunsResume, Unfinished
  <2> QED BY <1>7, <1>8, <2>1, <2>2, <2>3 DEF RunsInv
<1>10. PICK k : k = [l EXCEPT !.run = r] /\ k.run = r /\ k.low = l.low /\ k.high = l.high
  <2> DEFINE e == [l EXCEPT !.run = r]
  <2>1. e.run = r /\ e.low = l.low /\ e.high = l.high
    BY <1>1 DEF Locals
  <2> QED BY <2>1, Zenon
<1>11. Owns("extract", k)'
  BY <1>2, <1>5, <1>6, <1>10 DEF Owns, OpenRun
<1>12. Goto(p, "extract", k)
  BY <1>4, <1>10
<1> QED BY <1>6, <1>9, <1>11, <1>12, MoveAlone

LEMMA CheckpointAlone ==
  ASSUME OneSleeper, SleepInv, AloneInv, NEW p \in Sleepers, Checkpoint(p)
  PROVE  AloneInv' /\ progress' >= progress /\ \A q \in Completed : runs'[q] = runs[q]
<1>1. PICK l \in Locals : l = loc[p] /\ Knows("checkpoint", l) /\ Owns("checkpoint", l)
  BY LocalTypes DEF AloneInv, Checkpoint, At
<1>2. /\ progress' = l.high /\ l.low = progress + 1 /\ l.low =< l.high
      /\ l.high =< Len(events) /\ l.high \in Nat /\ progress \in Nat /\ Len(events) \in Nat
      /\ l.run \in Unfinished /\ runs[l.run].start = l.low /\ runs[l.run].end = l.high
      /\ l.run = Len(runs) /\ l.run \in DOMAIN runs /\ Len(events) <= MaxEvents
      /\ MaxEvents \in Nat /\ Unfinished = {l.run}
  BY <1>1, RunFacts DEF Knows, Owns, Locals, AloneInv, SleepInv, TypeOK, Checkpoint, Covered
<1>3. /\ Len(runs') = Len(runs) /\ DOMAIN runs' = DOMAIN runs
      /\ \A q \in DOMAIN runs \ {l.run} : runs'[q] = runs[q]
      /\ runs'[l.run].start = runs[l.run].start /\ runs'[l.run].end = runs[l.run].end
      /\ runs'[l.run].status = "completed"
  BY <1>1, <1>2, OwnRunType DEF Checkpoint, STAGES
<1>4. /\ \A q \in DOMAIN runs : runs[q].start \in Nat /\ runs[q].end \in Nat /\ q \in 1 .. Len(runs)
      /\ \A i \in Ids : items[i] # NoItem =>
           /\ items[i].run \in DOMAIN runs
           /\ runs[items[i].run].start <= i /\ i <= runs[items[i].run].end
      /\ Ids = 1 .. MaxEvents /\ runs \in Seq(RunType)
  BY RunFacts DEF AloneInv, SleepInv, TypeOK, Classified, Ids
<1>5. /\ Completed' = Completed \cup {l.run} /\ Completed \subseteq DOMAIN runs
      /\ \A q \in Completed : q # l.run /\ runs'[q] = runs[q] /\ q < l.run
  <2>1. Completed' = Completed \cup {l.run} /\ Completed \subseteq DOMAIN runs
    BY <1>2, <1>3 DEF Completed
  <2>2. \A q \in Completed : q # l.run
    BY <1>2 DEF Unfinished
  <2> QED BY <1>2, <1>3, <1>4, <2>1, <2>2
<1>6. \A q \in DOMAIN runs : runs'[q].start = runs[q].start /\ runs'[q].end = runs[q].end
  BY <1>3
<1>7. CheckpointCovers'
  <2>1. \A i \in Ids : i =< l.high => items[i] # NoItem
    BY <1>1 DEF Knows, Classified
  <2>2. \A i \in l.low .. l.high : KeptLesson(i) => i \in lessons
    BY <1>1 DEF Owns
  <2>3. \A i \in 1 .. progress : KeptLesson(i) => i \in lessons
    BY DEF AloneInv, RunsInv, CheckpointCovers, KeptLesson
  <2>4. \A i \in 1 .. l.high : i \in Ids /\ (i \in l.low .. l.high \/ i \in 1 .. progress)
    BY <1>2, <1>4
  <2> QED BY <1>2, <2>1, <2>2, <2>3, <2>4 DEF CheckpointCovers, Checkpoint, KeptLesson
<1>8. RunsPartition'
  <2>1. \A i \in 1 .. l.high : \E q \in Completed' : runs'[q].start <= i /\ i <= runs'[q].end
    <3>1. ASSUME NEW i \in 1 .. progress
          PROVE  \E q \in Completed' : runs'[q].start <= i /\ i <= runs'[q].end
      BY <1>5 DEF AloneInv, RunsInv, RunsPartition
    <3>2. ASSUME NEW i \in l.low .. l.high
          PROVE  l.run \in Completed' /\ runs'[l.run].start <= i /\ i <= runs'[l.run].end
      BY <1>2, <1>3, <1>5
    <3> QED BY <1>2, <3>1, <3>2
  <2>2. \A q \in Completed' : runs'[q].end <= l.high
    BY <1>2, <1>4, <1>5, <1>6 DEF AloneInv, RunsInv, RunsPartition
  <2>3. \A q, m \in Completed' : q < m => runs'[q].end < runs'[m].start
    <3>1. ASSUME NEW q \in Completed', NEW m \in Completed', q < m
          PROVE  runs'[q].end < runs'[m].start
      <4>1. q \in Completed /\ q \in DOMAIN runs /\ m \in DOMAIN runs
        BY <1>2, <1>4, <1>5, <3>1
      <4>2. CASE m \in Completed
        BY <1>5, <3>1, <4>1, <4>2 DEF AloneInv, RunsInv, RunsPartition
      <4>3. CASE m = l.run
        <5>1. runs[q].end <= progress /\ runs[q].end \in Nat
          BY <1>4, <4>1 DEF AloneInv, RunsInv, RunsPartition
        <5> QED BY <1>2, <1>3, <1>5, <4>1, <4>3, <5>1
      <4> QED BY <1>5, <4>2, <4>3
    <3> QED BY <3>1
  <2>4. \A i \in Ids : items[i] # NoItem =>
          runs'[items[i].run].start <= i /\ i <= runs'[items[i].run].end
    BY <1>4, <1>6
  <2> QED BY <1>2, <2>1, <2>2, <2>3, <2>4 DEF RunsPartition, Checkpoint
<1>9. RunsInv'
  <2>1. \A q \in DOMAIN runs' : runs'[q].end =< Len(events')
    BY <1>3, <1>6 DEF Checkpoint, AloneInv, RunsInv
  <2>2. \A i \in Ids : items[i] # NoItem => ~(i > progress')
    <3>1. ASSUME NEW i \in Ids, items[i] # NoItem, i > progress'
          PROVE  FALSE
      <4>1. items[i].run = l.run
        BY <1>2, <1>4, <3>1 DEF AloneInv, RunsInv, Classified
      <4> QED BY <1>2, <1>4, <3>1, <4>1
    <3> QED BY <3>1
  <2>3. UnfinishedRunsResume'
    BY <1>2, <1>3, <1>5 DEF UnfinishedRunsResume, Unfinished
  <2> QED BY <1>7, <1>8, <2>1, <2>2, <2>3 DEF RunsInv, Classified, Checkpoint
<1>10. Owns("report", l)'
  BY DEF Owns
<1> QED BY <1>1, <1>2, <1>5, <1>9, <1>10, MoveAlone DEF Checkpoint

LEMMA InitAlone == Init => AloneInv
<1> SUFFICES ASSUME Init PROVE AloneInv
  OBVIOUS
<1>1. progress = 0 /\ runs = <<>> /\ DOMAIN runs = {} /\ \A i \in Ids : ~Classified(i)
  BY DEF Init, Classified
<1>2. RunsInv
  BY <1>1 DEF RunsInv, CheckpointCovers, RunsPartition, UnfinishedRunsResume, Completed, Classified
<1>3. \A p \in Sleepers : Owns(pc[p], loc[p])
  BY DEF Init, Owns
<1> QED BY <1>2, <1>3 DEF AloneInv

\* Nobody but a sleeper writes what its runs are about.
LEMMA OthersAlone ==
  ASSUME SleepInv, AloneInv, UNCHANGED <<progress, runs, items, lessons, pc, loc>>,
         Len(events) =< Len(events'), Len(events') \in Nat
  PROVE  AloneInv'
<1>1. RunsInv'
  BY RowsKeepRuns DEF AloneInv
<1>2. ASSUME NEW q \in Sleepers PROVE Owns(pc[q], loc[q])'
  <2>1. PICK l, r : l = pc[q] /\ r = loc[q] /\ Owns(l, r)
    BY DEF AloneInv
  <2>2. Owns(l, r)'
    BY <2>1, OwnsStays
  <2> QED BY <2>1, <2>2
<1> QED BY <1>1, <1>2 DEF AloneInv

LEMMA AloneStep ==
  ASSUME OneSleeper, SleepInv, AloneInv, [Next]_vars
  PROVE  /\ AloneInv'
         /\ [progress' >= progress /\ \A r \in Completed : runs'[r] = runs[r]]_<<progress, runs>>
<1>1. CASE UNCHANGED vars \/ AddEvent \/ Propose \/ DecideCandidate
  <2>1. Len(events) =< Len(events') /\ Len(events') \in Nat
    BY <1>1 DEF vars, table, AddEvent, Propose, DecideCandidate, SleepInv, TypeOK
  <2>2. UNCHANGED <<progress, runs, items, lessons, pc, loc>>
    BY <1>1 DEF vars, table, AddEvent, Propose, DecideCandidate
  <2> QED BY <2>1, <2>2, OthersAlone
<1>2. ASSUME NEW p \in Sleepers,
             \/ Start(p) \/ ReadRows(p) \/ Check(p) \/ Pick(p) \/ Report(p) \/ Fault(p) \/ Crash(p)
             \/ ClassifyRows(p) \/ Defer(p)
      PROVE  AloneInv' /\ UNCHANGED <<progress, runs>>
  <2>1. AloneInv'
    BY <1>2, ReadsAlone, ClassifyRowsAlone, DeferAlone
  <2>2. UNCHANGED <<progress, runs>>
    BY <1>2 DEF Start, ReadRows, Check, Pick, Report, Fault, Crash, ClassifyRows, Defer, table
  <2> QED BY <2>1, <2>2
<1>3. ASSUME NEW p \in Sleepers,
             \/ OpenRun(p) \/ Extract(p) \/ Reconcile(p) \/ Validate(p) \/ PromoteDefer(p) \/ Fail(p)
      PROVE  AloneInv' /\ progress' = progress /\ \A r \in Completed : runs'[r] = runs[r]
  <2>1. AloneInv' /\ \A r \in Completed : runs'[r] = runs[r]
    BY <1>3, OpenRunAlone, StageAlone, FailAlone
  <2>2. progress' = progress
    BY <1>3 DEF OpenRun, Extract, Reconcile, Validate, PromoteDefer, Stage, Fail
  <2> QED BY <2>1, <2>2
<1>4. progress \in Nat
  BY DEF SleepInv, TypeOK
<1> QED BY <1>1, <1>2, <1>3, <1>4, CheckpointAlone DEF Next, Work, Interrupted

THEOREM AloneInvariant == OneSleeper => (Spec => []AloneInv)
<1> SUFFICES ASSUME OneSleeper PROVE Spec => []AloneInv
  OBVIOUS
<1>1. SleepInv /\ AloneInv /\ [Next]_vars => AloneInv'
  BY AloneStep
<1> QED BY <1>1, InitAlone, SleepInvariant, PTL DEF Spec

\* One sleeper loses nothing: whatever fails and however often it is killed and
\* resumed, every event the checkpoint has passed is classified and its lesson
\* deferred.
THEOREM CheckpointLosesNothing == OneSleeper => (Spec => []CheckpointCovers)
<1> SUFFICES ASSUME OneSleeper PROVE Spec => []CheckpointCovers
  OBVIOUS
<1>1. AloneInv => CheckpointCovers
  BY DEF AloneInv, RunsInv
<1> QED BY <1>1, AloneInvariant, PTL

\* The completed runs of one sleeper cut the events into ranges, each of whose
\* events was classified by the run that has it.
THEOREM RunsCutTheEvents == OneSleeper => (Spec => []RunsPartition)
<1> SUFFICES ASSUME OneSleeper PROVE Spec => []RunsPartition
  OBVIOUS
<1>1. AloneInv => RunsPartition
  BY DEF AloneInv, RunsInv
<1> QED BY <1>1, AloneInvariant, PTL

\* _open_or_resume_run takes up the run that failed or was cut off, for at most
\* one is unfinished, the latest, and it starts after the checkpoint.
THEOREM UnfinishedRunIsTakenUp == OneSleeper => (Spec => []UnfinishedRunsResume)
<1> SUFFICES ASSUME OneSleeper PROVE Spec => []UnfinishedRunsResume
  OBVIOUS
<1>1. AloneInv => UnfinishedRunsResume
  BY DEF AloneInv, RunsInv
<1> QED BY <1>1, AloneInvariant, PTL

\* _stage, _fail and _open_or_resume_run write by run id, yet no completed run
\* is ever written again, and the checkpoint does not go back.
THEOREM CompletionStays == OneSleeper => (Spec => CompletionIsFinal)
<1> SUFFICES ASSUME OneSleeper PROVE Spec => CompletionIsFinal
  OBVIOUS
<1>1. SleepInv /\ AloneInv /\ [Next]_vars =>
        [progress' >= progress /\ \A r \in Completed : runs'[r] = runs[r]]_<<progress, runs>>
  BY AloneStep
<1> QED BY <1>1, SleepInvariant, AloneInvariant, PTL DEF Spec, CompletionIsFinal
=============================================================================
