# Erasmus Protomenta: TLA+ models, model checking and proofs

This directory holds formal models of the Erasmus kernel in `src/erasmus/` of
the repository. Each module is a translation of the Python code, not of its documents. TLC checks
the modules on small instances. TLAPS proves every safety property of the passing
runs, and both refinements, for every value of the constants.

## 1. The system

Erasmus is a command line program (`erasmus <command>`) around one SQLite file.
Every invocation of the CLI is its own operating-system process. It opens the file
through `Store`, runs one command and exits. There is no daemon. Two commands
may therefore run at the same time, and any of them may be killed at any point.
`docs/adr/ADR-ROUTING-001` calls this a "one-process/one-SQLite kernel", but nothing in the code takes a
lock that would keep a second process out. For this reason the models treat both one process
that dies and restarts, and two processes side by side, and say for every
property which of the two it needs.

Python's `sqlite3` module gives the code its atomicity. A `SELECT` outside a
transaction is atomic on its own. A transaction opens only at the first `INSERT`,
`UPDATE` or `DELETE` of a `with store.db:` block, or at an explicit `BEGIN IMMEDIATE`.
A read that comes earlier in such a block is not protected by it. This single
fact is behind most of the hazards below.

### Inventory

| Component | State | Operations | Interacts with | What is hard | What makes it correct |
|---|---|---|---|---|---|
| Mission engine, `missions.py` | `missions`, `mission_steps`, `mission_transitions`, `mission_approvals`, `mission_evidence`, `mission_rollbacks` | create, authorize, decide_approval, run_one, pause, resume, cancel, recover, rollback | capability runtime for each step and each rollback; migrations for its tables | crash between effect, invocation row and step result; status, gates and budget read before the transaction that relies on them; several runners | effects at most once, consent at every gate, declared lifecycle, bounded steps, a completion that is proven, a complete rollback |
| Capability runtime, `capability_runtime.py` | `capability_runtime_state`, `capability_invocations`, in-process handlers | configure, transition, invoke | missions, divergence detection, worker processes | handlers in memory against a binding on disk, timeouts after an effect, lifecycle checked before its update | one immutable record per invocation, no handler call before review and approval, none after retirement |
| Sleep consolidation, `sleep.py` | `sleep_progress`, `sleep_runs`, `sleep_items`, `sleep_candidates`, `sleep_promotions`, `experience_candidates` | consolidate (seven stages), decide_candidate, sleep_report | events, ledger, skills gate | failure at any stage, resumption of the same run, a checkpoint that must not outrun the work, two sleepers | nothing lost, nothing twice, quarantine holds, catching up |
| Repository missions, `repository_missions.py` | `repository_missions` and its evidence, transitions and drafts, a Git work tree | create, run (inspect the base, branch, apply, test, commit, push, review, draft), inspect | Git, subprocesses | Git effects, evidence and transitions in separate steps; reader thread against timeout | transitions by compare-and-swap on the status, restart finds what was done |
| Epistemic ledger, `ledger.py` | `propositions`, `epistemic_evidence`, `proposition_evidence`, `proposition_transitions`, `confidence_history`, `proposition_supersessions` | add_evidence, propose, transition (support, contradict, falsify, reopen), record_confidence, supersede | sleep, the runtime context | status read before the transaction, opposed supersessions | a status is earned by its evidence, what is superseded is closed, reopening only on newer evidence |
| Schema migrations, `migrations.py` | `schema_version`, every table | apply, legacy renumbering 17 to 19, rollback of 19 | every component | versions read before `BEGIN`, two processes at first start, a rollback that is no transaction | versions and tables agree, who opens the store has all of them |
| Skill promotion, `skills.py` | `skill_observations`, `skill_artifacts`, `skill_transitions`, `skill_evaluations`, `adapter_readiness_exports` | observe, promote, draft, evaluate, export_readiness | sleep (its promotions are the gate), the runtime context | checks before the transaction, observations that arrive late | what is active or exported is evaluated and cites repeated clean evidence, stages never skipped |
| Immune cascade, `immune.py` | `immune_state`, `immune_incidents`, `immune_findings`, `immune_false_positives` | process, record_false_positive, retire_agent | divergence | first rows of the agents and retirement read before they write | every anomaly is answered, a retired agent stays retired |
| Divergence detection, `divergence.py` | `divergence_windows`, `divergence_calibrations`, `divergence_recommendations` | calibrate, downweight, evaluate | capability runtime, immune cascade | four transactions for one evaluation | an incident has its recommendation, a classical score its invocation, a lower weight its false positive |
| Tool registry, `tool_registry.py` | `tool_publishers`, `tool_manifests`, artifact cache on disk | trust_publisher, register, verify, install, activate, set_lifecycle, deactivate, uninstall, execute | publishers, the operating system | files and rows are not one transaction; two versions share one file | one active tool per capability, whose artifact is there; nothing withdrawn comes back |
| Knowledge sources, `knowledge_sources.py` | `knowledge_sources`, blobs on disk, `knowledge_source_spans`, `knowledge_source_tombstones` | register_source, register_span, tombstone | foundry, policy | blob and row are separate | a registered source is whole, a tombstone is final |
| Knowledge policy, `knowledge_runtime.py` | `knowledge_policy_sets`, `knowledge_policy_evaluations` | evaluate_policy_request | operators | precedence of rules, numbering of evaluations | nothing is permitted that no rule grants, the record is in order |
| Knowledge foundry, `knowledge_foundry.py`, `foundry_cli.py` | staging, output and backup directories | build_candidate_bundle | sources | two renames, several builders | a bundle that was there is there, or in a backup |
| Local runtime sessions, `runtime.py`, `context.py` | `local_runtime_sessions`, `runtime_identity_changes`, events | run_session | HTTP model server | a death while streaming, two sessions at once | a response event for each success and no other, identity changes recorded |
| Headless model server, `headless.py` | child process, drain thread, error tail | start, poll, stop | operating system | thread against start and stop | started once, always stopped |
| Store and checkpoints, `store.py`, `checkpoint.py` | events, sessions, checkpoints | add_event, save, load | everything | none of several steps | append-only events |
| Authority and contract resolution, `authority.py`, `contract_resolver.py`, `contract_enforcer.py`, `work_package.py` | none | decide, resolve, enforce | missions, workers | precedence | pure decisions |
| Capability graph, `capability_graph.py` | graph tables | import, query | read-only users | one transaction | - |
| Governance and bootstrap contracts, `governance.py`, `bootstrap_contracts.py`, `code_integrations.py`, `opencode_layer.py` | none | validate | files | - | pure validators |
| MCP servers, `mcp_server.py`, `worker_mcp.py` | none durable | dispatch | stdin and stdout | I/O | - |
| Command line and reports, `cli/main.py`, `status_surface.py`, `navigator.py`, `models.py`, `review.py` | none | parse, print | everything | - | one command per process |
| Acumatica adapter, `acumatica.py`, test server `adversarial_api.py` | none | read | HTTP | I/O | - |

Hazards, one per line of code where they bite, are in `PROJECT.json` with the
properties that guard against each.

## 2. Modules

| Module | What it is |
|---|---|
| `BoundedMission` | What a mission promises: abstract lifecycle, consent, ordered steps, committed outcomes. No processes, no crashes, no database. |
| `MissionEngine` | `missions.py` as it runs: one mission, any number of processes, every SELECT and every transaction an action; `CapabilityRuntime.invoke` as the handler call and its record. |
| `MCMissionEngine` | The contracts and commands for TLC. |
| `MissionEngine_proofs` | What TLAPS proves of `MissionEngine` for any number of processes. |
| `BoundedMission_proofs` | What it proves of the engine run by one process, up to the refinement of `BoundedMission`. |
| `SleepConsolidation` | `sleep.py`: classification, the stages of a run, failure, death, resumption, and what other commands do meanwhile. |
| `MCSleepConsolidation` | The events for TLC. |
| `SleepConsolidation_proofs` | Its proofs, for any number of sleepers and for one at a time. |
| `GuardedDelivery` | What a repository mission promises: one path of states, only a tested tree is published, only the published tree becomes the draft. |
| `RepositoryMission` | `repository_missions.py`: one mission, its rows, the local repository and its bare origin; every transaction and every Git command that writes is an action. |
| `MCRepositoryMission` | The trees and the repositories found, for TLC. |
| `RepositoryMission_proofs` | Its proofs for any number of processes and any meddling. |
| `RepositoryDelivery_proofs` | Its proofs for one process: with one edit up to the refinement of `GuardedDelivery`, and what holds after one meddling of any kind, or after any number. |
| `StoreClients` | How the processes of the services below use the store: check, commit, die. |
| `EpistemicLedger` | `ledger.py`: evidence, propositions, the four transitions, confidence and supersession. |
| `SkillPromotion` | `skills.py`: one candidate from observation to approval and retirement, and its export. |
| `ToolRegistry` | `tool_registry.py`: tools of one target, their lifecycles and the files of the cache. |
| `KnowledgeSources` | `knowledge_sources.py`: blobs, rows, spans and tombstones. |
| `SchemaMigrations` | `migrations.py`: the runner, the renumbering and the offline rollback. |
| `CapabilityLifecycle` | `capability_runtime.py`: one capability, its row, the handlers of each process, its invocations. |
| `ImmuneCascade` | `immune.py`: detectors, investigators, suppression and retirement. |
| `DivergenceEngine` | `divergence.py`, composed with `CapabilityLifecycle` and `ImmuneCascade`, which it calls. |
| `KnowledgePolicy` | `knowledge_runtime.py`: the decision on a request and its numbered record. |
| `BundlePublication` | `knowledge_foundry.py`: the publication of a bundle by renames. |
| `LocalSession` | `runtime.py`: the journal of model sessions. |
| `MCServices` | One instance of each service for TLC. |
| `RegisterServices_proofs` | Proofs about the ledger, the skills, the tools, the sources, the policy and the schema. |
| `RuntimeServices_proofs` | Proofs about sessions, the capability, the cascade, the divergence engine and publication. |
| `Services_proofs` | What holds of the composition in `MCServices`: types, the promises of the capability and the cascade inside the divergence engine, and the promises of every service. |

### MissionEngine

*State.* `status`, `trail`, `step`, `requested` and `decisions` are the columns
`missions.status`, the last row of `mission_transitions`, `mission_steps.status`
and the rows of `mission_approvals` (requests and decisions). `inv` and `undo`
are the outcome of the latest `capability_invocations` row for a step and for
`rollback:<step>`. `ran` and `undone` belong to the world outside: how often the handler
really ran. No code can read these, they exist for the properties. They count
to two, two standing for "more than once". `contract` is `contract_json` reduced to what
the properties tell apart: which steps have effects, are irreversible, need an
authority or a capability the envelope lacks, what their rollback is, `max_steps`,
and whether the steps' evidence covers the requirements. `pc[p]` is where the process `p`
is inside its command, `loc[p]` is what it has read.

*Actions.* A command is a chain of actions. For `mission-run-one`:

    RunOne -> RunningSteps -> Lookup -> Recover          recover()
           -> RunStatus -> SelectStep -> CheckBudget     the SELECTs of run_one
           -> CheckAuthority -> CheckIrreversible        the two gates
           -> Want -> Transition                         authorized -> running
           -> Claim                                      UPDATE ... WHERE status = 'pending'
           -> Dispatch -> Record                         CapabilityRuntime.invoke
           -> StoreResult -> Remaining -> Finish         the result, and completion
           -> Want -> Transition                         completed, failed or blocked

`Want` and `Transition` are the two halves of `_transition`: the SELECT of the
status before any transaction, and the transaction. `authorize` and
`decide_approval` insert their row first, so there the status is read under the
write lock; their commits are single actions. `Crash(p)` takes a process out of
any command at any point. It stands for a kill and equally for an unexpected
exception. An open transaction rolls back, since every transaction is
one action.

*Reads that were merged*, because nothing can tell the difference: the three
SELECTs of `decide_approval` (a gate that is undecided at the last was undecided
and requested at the first), the lookup and the INSERT of `_request_approval`,
and the completion count with the evidence check in `_finish_if_complete`
(evidence depends only on steps that are already completed).

### SleepConsolidation

*State.* `events`, `statements` (the propositions' texts), `progress`
(`sleep_progress.last_event_id`), `runs` (`sleep_runs`), `items` (`sleep_items`
with the `sleep_candidates` row inserted with it), `lessons`
(`experience_candidates`), `promotions`. Contents are abstract values after
`_normalize_content`: two texts are the same value if and only if they are equal after
normalization, and `Blank` is every text that normalizes to nothing.

*Actions.* `Start`, `ReadRows`, `OpenRun`, then the stages in order: `Extract`,
`Check` and `ClassifyRows` (`_reconcile`), `Reconcile`, `Validate`, `Pick` and
`Defer` (`_defer_adaptations`), `PromoteDefer`, `Checkpoint`, `Report`. `Fault`
is an exception in the `try` block that comes from outside (SQLite, `fail_after_stage`), `Fail` is `_fail`, `Crash` is a death.
What `_reconcile` raises by itself is no `Fault` but its own branch of `Check` and `ClassifyRows`: the
UNIQUE of an event that another sleeper classified meanwhile, and the `TypeError` of a *poison* event, one
whose `candidate_type` is a JSON list or object, which `_classify` looks up in a set.
`AddEvent`, `Propose` and `DecideCandidate` are other commands.

`_reconcile` is one loop, but only its reads up to the first INSERT are outside
the transaction. `Check` is that prefix and `ClassifyRows` is everything after it.
In `Check` the lookup of the items and the conflict query of the first
unclassified row are one action: whatever another sleeper commits between the two
includes that very row, and the INSERT fails for it either way. Inside the
transaction, the conflict of a row depends on the earlier rows of the same
transaction; `Repeats` says so without recursion and the comment there says why
it is the same. Left out: the stage history table and the version column, which
only copy what `runs` holds.

### RepositoryMission

*State.* `status` and `trail` are the mission's row and its transitions; `patches`,
`tests`, `reviews` hold the evidence rows that are read again, in id order;
`drafts` is `draft_pull_requests`. `git` is the local repository: the branch checked
out, the main and the mission branch, index and work tree; `remote` is the mission
branch in the bare origin. `passed`, `committed` and `meddled` are history. The
declared paths are one value, their content; everything outside them is `out`.

*Actions.* `Run` up to the loop, `Loop` for its dispatch, then the handler of each
state: `InspectBase`, `EnsureBranch`; `ValidateBranch`, `Gate`, `Apply`,
`VerifyPatch`, `StorePatch`; `Recheck` (both for `patch_validated` and for
`changed`), `TestBefore`, `TestCopy`, `Test`, `Stage`, `Add`, `Staged`, `StoreTest`
or `StoreFailure`; `CommitRead`, `Commit`, `CommitCheck`, `Push`, `Review`;
`DraftCheck`, `DraftHead`, `Draft`. `RestoreRef` and `RestorePaths` are
`_restore_mission_paths`; `Terminal`, `Want` and `Transition` the two SELECTs and
the UPDATE of a transition. `Meddle` is anybody else in the repository.

A Git command or a check inside a `try` block may fail by itself, so its failure
branch has no guard. There are three ways for a process to leave `run`. `Return` is the end of a run
that stopped the mission, or that found rows which contradict what it is about to write
(the process is `idle`). `Raise` is a `RepositoryMissionError` that leaves a step around which the code has no
`try` (the process is `raised`, the mission stays in its state): evidence over its bound, the
snapshot of `_store_patch_evidence`, a capability step that the graph denies (`verify_tests` in `Recheck`,
`obtain_countercase` in `Review`), `git rev-parse HEAD` in the handlers of `tested`
and `draft_pr_recorded`, all of `_record_draft`, and the restoration itself outside
the handler of `branched` (`RestoreFails`). `Crash` is a death, and an error of SQLite or the operating system
(the process is `down`). `git restore` and `git clean` may fail before or after what they do, so the
restoration may fail with the declared paths restored or not.

Merged: a snapshot is one read, although it is a dozen Git commands;
`git write-tree` and the second snapshot of `_prepare_commit_tree`; the checks of
`_restore_mission_paths` with its commands. Left out: evidence that is never read
again (authority, inspection, push, rollback, capabilities), and a commit by somebody
else that takes the patch back.

### The services of the store

*Shape.* Each operation of these components first reads and checks, each SELECT a
transaction of its own, and then writes in one transaction. `StoreClients` makes the
two halves two actions: `Begin(c, request)` keeps in `req[c]` what client `c` has
read and is about to write, a later action of the same request ends in
`Commit(c, stale)`, and between them any other client may write. `Drop(c)` is a death there, or a
transaction that a constraint rolls back. An operation whose checks cannot be
overtaken (one statement, or checks of append-only rows, or checks inside the
transaction) is one action, `Atomically(c)`. SELECTs that follow each other before
the transaction are read at once.

*`raced`* is history. It becomes true when a commit rested on a row that had changed
since it was read; every commit says in its second argument which rows those are. A property
of the form "as long as no two operations raced" holds for one
process that dies anywhere, and for any number of processes until the first such
commit. A part of a property without `raced` holds whatever they do, by the
constraints of the tables and the checks inside transactions.

*Correspondence.* A module's actions carry the names of the methods: `CheckX` is
the part before the transaction of `X`, `X` the transaction. Where a file is
written between the two (`ToolRegistry`, `KnowledgeSources`, `BundlePublication`) every
change of the file is an action, and a copy is two, with a partial file in between.
In `SkillPromotion`, `Recheck` is the first statement of `_transition`, which reads the
state again in a SELECT that opens no transaction. In `ImmuneCascade`, `process` is one action,
since its INSERT comes before its reads. In `DivergenceEngine` an evaluation is
a chain, `CheckEvaluation`, `StartKnn`, `EndKnn`, `InsertWindow`, `Recommend`, `WakeImmune`, one action for each
of its transactions. In `SchemaMigrations` each migration is a transaction
with its version, and each group of DROPs of the rollback an action of its own, since
`sqlite3` opens no transaction for DDL.

*Data.* Scores are in hundredths or levels, a signature or digest check holds or not,
the selectors of a policy rule are the kinds of request they match, an
artifact is absent, partial or intact. A source's blob may also be altered, that is, of another digest: `register_source`
hashes the bytes it has read and then copies the input by its path, so an edit in between ends up in the copy.

## 3. What TLC checks

Each run below is `tlc -config <name>.cfg <MC module>`.

### Mission engine

**`mission_one_process`**: one process, seven contracts of two steps, all seven
commands, crashes anywhere, under `FairSpec`.

| Property | Says |
|---|---|
| `BudgetRespected` | never more than `max_steps` completed steps, including those that recovery completes |
| `CompletedIsProven` | `completed` means a committed success of every step and the evidence required |
| `UndoneAtMostOnce` | a rollback with side effects runs at most once |
| `RolledBackIsComplete` | `rolled_back` means every settled effect was undone by a successful invocation |
| `DeclaredTransitions` | each change of status is a declared pair, and the transition row names the state really left |
| `CommandsReturn` | every command ends (liveness) |
| `ImplementsBoundedMission` | refinement: the engine implements `BoundedMission` |

**`mission_two_processes`**: two runners interleaving every read and transaction.

| Property | Says |
|---|---|
| `TypeOK` | every state is well typed |
| `EffectAtMostOnce` | a handler with side effects runs at most once, whatever crashes and recoveries happen around it |
| `RanWithConsent` | a step ran only after a human approved the mission and each gate of the step, and never outside the capability envelope |

The run leaves out `cancel`: it uses the same `Want` and `Transition` as `pause`, and
`rollback` still reaches terminal states. The proofs cover all commands, and the inductive
strengthenings `EffectGuarded` and `ConsentGuarded` that they use (section 5).

Some properties do not hold even with one process. Two runs show the
counterexamples, each against a claim of the repository's own documents or tests:

| Run | Violated | How it happens |
|---|---|---|
| `rollback_leaves_effect` | `NoEffectLeftBehind` | a crash leaves an effect `uncertain`; `rollback` selects only settled steps, finds nothing wrong and reports `rolled_back` |
| `run_after_failure` | `FailureStopsMission` | a crash between the failed step and the failed mission; recovery looks only at `running` steps, and the next command executes the next step |

Others hold for one process and not for two. TLC finds the counterexample when
the property is added to `mission_two_processes.cfg` with the contracts named here:
`DeclaredTransitions` (`PureSteps`: both read the status before either writes) and
`BudgetRespected` (`SmallBudget`: both count completed steps before either
completes its own). Two processes may also both find a gate undecided and each record a
decision; `RanWithConsent` holds nevertheless.

`RolledBackIsComplete` and `NoEffectLeftBehind` differ in precisely the case
of the first finding: a step left `running` or `uncertain`.

### Sleep consolidation

**`sleep_one_process`**: one sleeper at a time, failing, dying and resuming at every
point, with three events and three runs while events and statements keep arriving.

| Property | Says |
|---|---|
| `CheckpointCovers` | every event behind the checkpoint is classified, and its lesson, if kept, is in `experience_candidates` |
| `RunsPartition` | completed runs cut the events into consecutive ranges, and the run recorded with an item is the one whose range it is in |
| `UnfinishedRunsResume` | an unfinished run is the latest one and starts at the checkpoint, so the next consolidation takes it up |
| `QuarantineHolds` | external or self-authored content never becomes a lesson or an approved promotion |
| `CompletionIsFinal` | a completed run is never changed and the checkpoint never moves back |
| `CatchesUp` | when accidents end and consolidation keeps being started, every event is eventually behind the checkpoint, unless an event is poison (liveness) |

The hypothesis of `CatchesUp` is met by behaviours that end normally: dying where nothing is left but to return (`Returning`)
is not an accident (`Interrupted`), nor is what `_reconcile` raises by itself. A checkpoint that never
advances, although no run fails, violates it (mutant `Checkpoint_Uncommitted`). The exception is real: one poison event makes every
later consolidation fail at the same row (`sleep.py:281`), no event after the checkpoint is ever classified with it in the range, and
nothing in the program takes it out of the way, although the docstring of `consolidate` says that it classifies
all pending events exactly once.

**`sleep_two_processes`**: two sleepers on the same events. `ClassifiedOnce` (one item
for each event, from one commit), `CheckpointClassified` (no unclassified event behind the checkpoint) and
`NoDuplicateMaterial` (at most one event of a type and content is kept) survive. What
does not is `CheckpointCovers`. **`sleep_lesson_lost`** shows it even
with every process gone (`NothingLostAtRest`): one sleeper classifies a lesson and
dies, the other's checkpoint passes the event without deferring the lesson,
and the first run, which starts behind the checkpoint, is never resumed.

### Repository missions

**`repository_edited`**: one process that dies and resumes anywhere, in each of five
repositories (the expected one, a stale base, an edited or littered work tree, a
mission branch that exists), and at most one edit of a declared path at any moment.

| Property | Says |
|---|---|
| `DraftIsReviewed` | the draft names the reviewed and published commit, of a tree that the tests passed on |
| `RunSettles` | without the edit, a run that ends by itself has stopped the mission, unless an error escaped from a step outside its `try` blocks (`Raise`); it never ends on rows that contradict it |
| `Settles` | without the edit, if deaths and escaping errors end, a mission that is run again stops (liveness) |
| `ImplementsGuardedDelivery` | refinement: the mission implements `GuardedDelivery` |

The exception of `RunSettles` is what the code does: a denied capability step or a failed `rev-parse` leaves the mission
in `branched`, `changed`, `tested`, `reviewed` or `draft_pr_recorded` with nobody else involved. Whatever such a run, or a
death, leaves behind, the next run picks it up, which is what `RunSettles` says from then on. `Settles` has in its hypothesis
that such errors end. Where they do not, when the capability graph gives no plan, or several, for `verify_tests` at the
mission's HEAD, every run raises and the mission stays in `changed` for good.

With the edit `RunSettles` fails in `CommitRead`: `_store_evidence` returns an existing
row of equal evidence and `_evidence_data` reads the latest, so a pass, a test
that could not run and the same pass again leave a `tested` mission whose latest
test row has no result.

**`repository_meddled`**: the same and one edit, stray file, commit or switch of
branches. `PublishedIsTested` and `RefusedIsUnpublished` survive. `DraftIsReviewed`
does not: `_record_draft` reads HEAD again after its check, and a switch of
branches in between drafts another commit. With two changes `PublishedIsTested`
falls too: an edit while the test clone is filled, or before `git add`, that is undone
before the next snapshot.

**`repository_two_processes`**: only the history survives a second process:
`PathOnce`, by the compare-and-swap of the UPDATE and `UNIQUE(mission_id)` of the draft.
A process that restores the declared paths moves the branch under
the other, which may then push the base; and of two refusals the second
overwrites the terminal state of the first, since a failure state is allowed from
every state.

**`mismatch_does_not_block`**: `MismatchBlocks` is violated. When a stray file turns up, the handler
restores the declared paths before it blocks the mission, the restoration raises
and nothing catches it.

One more limit, by construction of the code: the snapshot that stands for the validated patch is taken
after the gate returned (`_store_patch_evidence`), so an edit in between is tested,
reviewed and drafted under the digest of the declared patch.

### Services

**`services`**: two clients in one service at a time, each service with the constants
that bring its races about. The services share no table, but for the two that
`DivergenceEngine` composes and checks again together, so checking them side by side would
only multiply their states. `part` chooses the service.

| Property | Says |
|---|---|
| `ServicesTypeOK` | every table, file and request holds what the code can put there |
| `BeliefsAreEarned` | a status rests on the evidence it needs, whoever writes; without races what is superseded is closed, supersessions end, and falsification is left only by newer evidence |
| `PromotionIsEarned` | a skill in the runtime context or in an export passed its evaluation and cites two clean successes; without races no stage is skipped |
| `RegistryServes` | at most one active tool per capability; without races its artifact is there, and nothing withdrawn is verified or active again |
| `SourcesArePreserved` | without races a registered source has its whole file, wherever a registration died before (of its digest, unless its input was edited before the copy); a tombstone is final |
| `MigrationsAgree` | without races the recorded versions are those whose tables exist, but for a rollback under way or dead; who opens the store has them all |
| `CapabilityIsGoverned` | what ran was reviewed and approved; without races it ran as bound, and a retired capability rests |
| `CascadeAnswers` | every anomaly has a finding as severe, and what is consequential escalates; without races a retired investigator finds nothing |
| `DetectionsAreBacked` | an incident has the recommendation that woke it, a classical recommendation its successful invocation, a halved weight its false positive |
| `PolicyIsKept` | what is permitted is granted by a rule of the highest priority and denied by none but one that shares its id with a rule of the highest priority; without races evaluations are numbered in order |
| `PublicationIsSafe` | a bundle that was there is in the output or in a backup; as long as no builder died and every backup could be put back, it is in the output whenever nobody builds |
| `SessionsAreJournaled` | exactly the successes have a response event; without races the identity changes are right |

A part that begins with "without races" says nothing of the race itself: the properties do not catch what exists only in
a commit that raced. The races are hazards of the code all the same; `PROJECT.json` lists them without a property, or says
what part a property covers, and this is what they do, found while the exceptions were written:

- *Ledger*: two supersessions of each other commit, and neither proposition stands any more.
- *Skills*: an observation that arrives while a promotion is under way, or a contaminated
  one afterwards, does not hold the skill back: approval looks at it, `active_skills` does not.
- *Tools*: a tool revoked between the check and the update of `activate` becomes active.
  Also without any race, `uninstall` removes a file that another tool with the same digest
  still needs; `RegistryServes` excepts exactly that.
- *Sources*: a registration that dies in the middle of its copy leaves a partial blob, whose digest is
  wrong: that source cannot be registered any more until somebody removes the file. An input that is edited between its
  digest and its copy is registered with a blob of another digest, which only a later `verify_source` finds. A span
  may be registered under a source that is buried meanwhile.
- *Migrations*: a rollback that dies leaves the version with part of its tables. The next
  one that opens the store sees nothing missing.
- *Capability*: a transition that overtakes a retirement makes the capability active again.
- *Immune*: the second of two processes that open the cascade for the first time resurrects
  the first investigator if it was retired in between. Suppression passes over an agent's other
  anomalies of the same event, and one finding may be reported twice as a false positive.
- *Divergence*: a death between the recommendations and the incident leaves an alarm that nobody answers.
- *Policy*: a denial whose rule has the id of a rule of the highest priority is skipped, which
  `PolicyIsKept` excepts; `POLICY_IDENTITY_AND_REGISTRIES.md`, the target design, says in sections 2 and 5 that an explicit deny
  wins and any applicable deny overrides permit. Two evaluations at once may have one number.
- *Publication*: a builder that may not overwrite publishes into the gap that another leaves between its
  renames; the other then fails, and the bundle it had taken aside stays in a backup. The rename that puts a backup
  back may fail as the one before it did: the bundle then stays in the backup and the output is gone, without a death.
- *Sessions*: two sessions at once record an identity change that did not happen, or miss one.

Every property of a passing run has a mutant in `PROJECT.json`: a plausible bug in
one definition (operators named `<definition>_<what is wrong>`) for which TLC finds
the property violated.

## 4. Bounds and fairness

| Bound | Value | Why it is enough |
|---|---|---|
| `NumSteps` | 2 | gates, budget and order need a first and a next step; rollback needs two to go wrong on one |
| `Contracts` | 7, 2 or 1 | one contract per concern of `run_one` and `rollback`, see `MCContracts`; every branch of every action is taken |
| `Procs` | 1 or 2 | every race found is between two readers; more processes are covered by the proofs |
| `ran`, `undone` | saturate at 2 | the properties ask only "more than once" |
| `MaxEvents` | 2 or 3 | three: something before, in and after a run; two: a second event that is the duplicate of the first |
| `MaxRuns` | 2 or 3 | a resumed run, a completed run and one after it; opening one more is a guard of `OpenRun` |
| `Contents` | 1 and `Blank` | duplicates are the interesting case; different contents never interact |
| `Inputs` | 6 or 3 | one event for each outcome of `_classify` that the properties distinguish, its exception included; the mutual exclusion of two sleepers needs only lessons |
| `Trees`, `Patches` | 3, 1 | the base, the patch and what somebody else writes |
| `MaxMeddling` | 0 or 1 | one change shows each window between a check and its use; what two changes break is said above |
| `Clients` | 2 | every race is between a reader and one other writer |
| `Statements`, `MaxEvidence`, `MaxRows` | 2, 5, 3 | two to supersede each other; each kind of evidence once, and one newer; three links earn `established` or falsify and reopen |
| `Interactions`, `MaxArtifacts` | 3, 2 | two successes and one that spoils them; an artifact and its successor |
| `Tools`, `Digests`, `Withdrawals` | 2, 2, 1 | rivals with the same file or two; one withdrawn state, as the code treats the three alike but at registration |
| `Sources`, `Spans` | 2, 1 | a source and its tombstone beside another |
| `Guarded`, `MaxRollbacks` | 4, 2 | versions 1 to 3 stand for 1 to 18, with the renumbered one (17) as 2; a rollback and one more |
| `Implementations`, `MaxInvocations` | 2, 1 | a mismatch with the binding; one invocation at the wrong time |
| `Events`, `MaxIncidents` | 2, 2 | one with anomalies for several investigators, one suppressed; an incident before and one after a retirement or a tolerance |
| `Patterns`, `MaxCalibrations`, `MaxWindows` | 1, 3, 1 | a false positive and two calibrations that it may halve |
| `PolicySets`, `Requests`, `MaxEvaluations` | pairs of rules, 2, 2 | every pair of modes and preconditions, at equal and at different priorities and ids |
| `MaxBundles` | 3 | two builders and the bundle they both replace |
| `Identities`, `MaxSessions` | 2, 3 | a change and a change back |

Two processes are symmetric, and the safety runs use that; no liveness
property is checked under symmetry.

*Fairness* is `WF_vars(Work(p))` for each process: a process that has begun a command
is scheduled until it ends. Nobody is obliged to issue a command, a crash is never
owed, and no command waits for another, so nothing stronger is needed. `CatchesUp`
states in its own hypothesis what it needs of operators: from some point on no accidents
(`Interrupted`), and consolidation started again and again; runs that return, or fail by the code's own doing, are within it. With two processes
`CommandsReturn` is not checked: `Work(p)` has no action that another process can
disable for good, except by ending the command earlier, but the state graph is too
large for the liveness check.

In `RepositoryMission` a run ends because its Git commands and its tests have time-outs.
That it ends is not a property of its own; `Settles` has in its hypothesis that processes stop dying and errors stop escaping, so that a
permanent denial or failure is outside it, and also assumes that a mission which has not stopped is run
again, `WF_vars(Run(p))`: an operator's duty, which the documentation leaves to
`repository-mission-run`.

*Deadlock* is checked in every run of the engine and of sleep. A stopped repository mission
really stops: nothing can run it again, so its runs say `CHECK_DEADLOCK FALSE`. So does
`services`: where every bound is reached nobody can do anything more.

## 5. What is proved

Every theorem is for every value of the constants, under the named assumptions of the
modules and, where the table says so, a hypothesis on the processes.

| Theorem | Property | For |
|---|---|---|
| `TypeCorrect`, `EffectsRunOnce`, `StepsRunWithConsent` | `TypeOK`, `EffectAtMostOnce`, `RanWithConsent` | any number of processes |
| `BudgetIsKept`, `CompletionIsProven`, `RollbacksRunOnce`, `RollbackIsComplete`, `TransitionsAreDeclared`, `MissionIsBounded` | `BudgetRespected`, `CompletedIsProven`, `UndoneAtMostOnce`, `RolledBackIsComplete`, `DeclaredTransitions`, `ImplementsBoundedMission` | `OneProcess` |
| `SleepTypes`, `EventsAreClassifiedOnce`, `CheckpointIsClassified`, `MaterialIsKeptOnce`, `QuarantineIsKept` | `TypeOK`, `ClassifiedOnce`, `CheckpointClassified`, `NoDuplicateMaterial`, `QuarantineHolds` | any number of sleepers |
| `CheckpointLosesNothing`, `RunsCutTheEvents`, `UnfinishedRunIsTakenUp`, `CompletionStays` | `CheckpointCovers`, `RunsPartition`, `UnfinishedRunsResume`, `CompletionIsFinal` | `OneSleeper` |
| `RepositoryTypes`, `PathIsFollowedOnce` | `TypeOK`, `PathOnce` | any number of processes, any meddling |
| `RefusalPublishesNothing`, `RunsSettle` | `RefusedIsUnpublished`, `RunSettles` | `OneProcess`, any meddling |
| `OnlyTestedIsPublished` | `PublishedIsTested` | `OneProcess`, `OneMeddling` |
| `DraftedIsReviewed`, `MissionIsGuarded` | `DraftIsReviewed`, `ImplementsGuardedDelivery` | `OneProcess`, `OneEdit` |
| `BeliefsStayEarned`, `PromotionStaysEarned`, `RegistryKeepsServing`, `PolicyStaysKept`, `MigrationsStayAgreed` | `BeliefsAreEarned`, `PromotionIsEarned`, `RegistryServes`, `PolicyIsKept`, `MigrationsAgree` | any number of clients |
| `SourcesPreserved` | `SourcesArePreserved` | any number of clients |
| `SessionsStayJournaled`, `CapabilityStaysGoverned`, `CascadeKeepsAnswering`, `PublicationStaysSafe`, `DetectionsStayBacked` | `SessionsAreJournaled`, `CapabilityIsGoverned`, `CascadeAnswers`, `PublicationIsSafe`, `DetectionsAreBacked` | any number of clients |
| `EngineRunsAsReviewed`, `EngineIsAnswered` | `CapabilityIsGoverned`, `CascadeAnswers` inside the divergence engine | any number of clients |
| `ServicesStayTyped`, `ServicesKeepTheirPromises` | `ServicesTypeOK`, and all the promises of the services, of the composition that `services` checks | any number of clients |

*Assumptions.* `ContractAssumption`: at least one step, well-formed contracts with
`max_steps >= 1` (what contract validation accepts), commands among the seven.
The assumptions of the other modules say likewise what the inputs are and that the bounds are numbers.
TLC evaluates each of them in the runs.

*Hypotheses.* `OneProcess` and `OneSleeper` say that no two commands on the mission or
on the events run at the same time; the process may die anywhere and be started again. That is how
the documentation means the program to be operated; section 3 says what fails without it. The runs `mission_one_process`, `sleep_one_process`,
`repository_edited` and `repository_meddled` are instances. `OneMeddling` says that while the
mission lasts others change the repository at most once, at any moment and in any way: an edit of a declared path, a
stray file, a commit or a switch of branches. It is needed: with two changes `PublishedIsTested` fails, when an edit before
`git add` or during the copy for the tests is undone before the next snapshot. `OneEdit` is narrower, the one change is an edit or a stray
file. It is needed too: a switch of branches makes `DraftIsReviewed` fail, and with it the refinement.
`RefusedIsUnpublished` and `RunSettles` need neither (`RunSettles` itself speaks of runs before the first change).

### The mission engine

*EffectsRunOnce.* `EffectAtMostOnce` is not inductive. A second runner at `dispatch`
for a step that has run satisfies it, but its next step does not. `EffectGuarded` adds
what the code relies on: an effect that is `pending` has not run; a process at
`dispatch` is alone there, has claimed the step and the step has not run yet. The
claim is an UPDATE guarded by `status = 'pending'`, and `recover` makes an
effect `completed`, `failed` or `uncertain`, never `pending`. These two facts are
the lemmas `ClaimKeepsEffects` and `SettlingKeepsEffects`. All other actions leave
the variables alone, or move a process that does not reach `dispatch` (`SilentMoves`,
`MoveKeepsEffects`).

*StepsRunWithConsent.* `ConsentGuarded` states, for each label between the command and
the handler, what the process has already passed (`ClearedAt`), and that a mission
whose status is neither `proposed` nor a state reachable without authorization has
the initial consent. It is inductive because decisions are only appended
(`ConsentGrows`). The delicate part is the stale status: `Transition` writes a
`goal` decided on an earlier status, so `ClearedAt` must carry through `want` and
`transition` the fact that only an authorized mission can be on its way to `running`.

*One process* (`BoundedMission_proofs`). `MissionInv` joins what the rows say of each
other after any death (`StepInv`, `LifeInv`) with what the process relies on between
a read and the write that depends on it (`Owns`, by label). Two parts carry most of the weight.
The budget is not kept by counting completed steps: `Held` counts the running ones with
them, since a recovery may complete any of those, and `Owns` says that there
is room for one more from the check of the budget until the claim. And rollback: a step found
`rollback_running` belongs to the list read at the beginning (`half`) or is
the one in hand, and an effectful rollback whose record is missing has run at most once, in a step still
marked `rollback_running`, which no later rollback dispatches again. The refinement maps a state to
`BoundedMission` by what is committed. Each action that changes the mapped variables
is one abstract action, every other one a stutter; `TransitionsAreDeclared` is the part that needs
the status read before the transaction to be the one overwritten in it.

### Sleep consolidation

*Any number of sleepers.* `SleepInv` says of each label what its process knows whoever else
sleeps (`Knows`): every event before its range is classified, at the end of `_reconcile`
the whole range is, and a candidate picked for deferral is a lesson. `Grows` says what no
step takes back: events, runs and classifications. `NoDuplicateMaterial` holds although the first
conflict check is outside the transaction: whoever inserts the conflicting row in between also
inserts the row that was checked, and its UNIQUE column fails the late one. *One sleeper.* `AloneInv` adds that its run is
the only unfinished one, begins right after the checkpoint, and that from the deferral on every
lesson of the range is in `experience_candidates`; this last fact is the one that a second sleeper
destroys (`sleep_lesson_lost`).

### Repository missions

*Any number of processes.* `RepositoryInv` has the types, and that the trail is the declared path
taken so far, at most one draft among its effects. It is inductive because the UPDATE of a
transition is guarded by the status that was read. *One process, one edit.*
`DeliveryInv` says for each status what is in the evidence, the local branch and the bare origin:
before `tested` nothing is committed; from then on the branch is at the base or at `TestedCommit`, the origin has
nothing or that commit, every review names it. `Owns` says for each label where the work tree is
with respect to the tree that is tested. The one edit is the difficulty: it may come between any two Git
commands. The invariant says that from the validated patch on either the work tree
is what was validated or the edit is spent, and a spent edit cannot be taken back, so that
the snapshot after `git add` sees it.

*RefusalPublishesNothing.* No assumption on others, so nothing that is read from Git can be relied on. `FlowInv` does the bookkeeping
of the code alone: a mission in a state before `tested` has committed and pushed nothing, and `Follows` says for each label
which states its process may have come from and which it may go to (`seen` is the status). The property follows because both refusals are left
only from there: no handler that could still quarantine or roll back runs after `git commit`, and a process that died
there resumes in `tested`.

*OnlyTestedIsPublished.* `TestedInv`, proved on top of `FlowInv`, is what each label knows of the repository (`Finds`)
and what the rows say of it (`SoundInv`), each time *or the one change was made*, with what that change can still do.
An edit before `git write-tree` differs from the snapshot for good, so the comparison after `git add` (`StagedSince`) refuses it.
One that comes later finds `Commit` with an index whose tree has passed. A foreign commit during `apply` leaves a clean work tree, and the patch is then
refused or tested on top of it; after the tests it holds the tested work tree, or `CommitCheck` refuses it for its tree.
A switch of branches after the tests leaves `git commit` on a branch whose HEAD already has the tree of the index, so there is nothing to commit,
and one before them leaves a main that is still at the base (`OnBranch`).

*RunsSettle.* Until somebody changes the repository every mission is one of those `DeliveryInv` and `Owns` describe, whatever
`Meddling` allows later: `QuietInv`. It holds after an escaped error as after a death, for neither changes a row. That a handler which returns
leaves a terminal status is then a case analysis over the labels: the rows it would contradict are not there. A step that raises is not in the property.

### The services

Each theorem is about one service by itself: `LedgerSpec` is `LedgerInit` and `LedgerNext`, and so
on. `Services_proofs` carries them over to `MCServices`, below.
All invariants have the same shape: what the tables say of
each other, and for every request under way what its checks have made sure of *that no other client can take back*
(a row of an append-only table, a file that is whole, a status if nothing raced). A client
that dies leaves a request less, so deaths cost nothing.

*BeliefsStayEarned.* A request under way carries its promise: a move to `established` brings a
row of support, and there already is another (`TransitionRequest`). Both facts only grow
(`EarnedKept`). That the two supports differ when the move commits follows from the
UNIQUE of proposition, evidence and relation, whatever came between. `supersede` writes back the
status that it read; it was earned when it was read, so it is earned now. Without a race the
statement superseded is open and so is the one that replaces it, hence a supersession closes no circle.

*PromotionStaysEarned.* Tables are append-only, so an evaluation that passed and the observations cited
remain; the status alone may be stale, which is what `raced` stands for.

*RegistryKeepsServing.* The transaction of `activate` itself demotes the rivals that it finds, so there is one
active tool per capability whatever its checks have read.
The artifact is there unless a tool with the same digest is registered (`Served`).

*PolicyStaysKept.* For every set of rules: a permit was granted by a rule of
the highest priority, and a rule that denies was considered, or one of its id was: among the denials of one id there
is one of the highest priority (`DenialConsidered`, by a least element). The proof failed at first,
because `Decide` was a CASE with guards that overlap, whose value TLA+ leaves open
and TLC takes from the first; it is now the chain of conditions of the code.

*MigrationsStayAgreed.* A database is either `Untouched`, one of the branch that nobody has renumbered, or
`Numbered`; a process that migrates still has all that is missing on its list.

*SourcesPreserved.* `RegisteredIsIntact` is not inductive: a request about to insert over a
partial blob satisfies it and breaks it. `SourcesInv` adds what a request relies on when it
commits. A copy under way has a partial blob and only one copier (`Alone`), so nobody else
takes its blob for whole, and if the copier dies the blob stays partial and is refused from
then on. A request about to insert has found or made the blob intact, and a tombstone has a
row to mark (`Grounded`). Without a race a blob that is not absent at the copy is the one
the checks accepted; that is where the proof needs `raced`. That a tombstone is final needs no
such excuse: no statement writes over it, races or not.

*SessionsStayJournaled, CapabilityStaysGoverned, PublicationStaysSafe.* A stream belongs to one client; a lifecycle
in the history was reached through its predecessors (`Staged`); a builder has a bundle and a backup of its own
(`OwnBundles`), and what those who clean up remove is not all there is (`SomeRemains`).

*CascadeKeepsAnswering.* `process` computes everything in one step, so the invariant is short and the work is in
the lemmas about its operators: which detector is the worst, which the least index of its kind, and
that every anomaly wakes an investigator or is tolerated.

*DetectionsStayBacked.* The property compares numbers of rows of different tables. `Backed` replaces them
by an injection from the classical windows and the clients about to write one into the successful
invocations; each step extends, moves or shrinks it, and `DetectionCounts` draws the cardinalities from it.

*ServicesStayTyped, ServicesKeepTheirPromises.* In `MCServices` the service `part` works and the others rest. For each service
`Services_proofs` shows that its steps keep its type invariant, with the service's own invariant for what types alone do
not say, such as that an index read before a transaction is still one; then that `part` never changes and a resting service
satisfies its promises because its tables stay as they are initially. `LedgerAssumption` bounds the recorded evidence for this: a type
that counts rows must hold at the start.

*EngineRunsAsReviewed, EngineIsAnswered.* `DivergenceEngine` calls the capability as a client would and wakes the cascade. `EngineInv` joins the invariants of
all three with `EngineRequests`: an evaluation about to record an invocation does so for the classical implementation, which is the one bound. Then
every transaction of the engine is one of the capability, one of the cascade, or leaves both alone.

### What is only model-checked

Liveness: `CommandsReturn`, `CatchesUp` and `Settles` (out of the prover's reach, like `ENABLED`). The counterexamples of
the four runs that expect one, and those that section 3 describes. Every invariant and every action property of a passing run is proved.

Induction over data is done without the induction theorems of the library, whose operator
parameters the provers cannot instantiate: where the code takes a first or a last element, the
proofs take a least element of a set of numbers (`LeastNumber`, `LeastOf`), from well-foundedness.

## 6. What is not modelled, and why

- Other missions in the same file: missions share no row, and the engine never
  relates two.
- The text of reports, evidence payloads, timestamps and reasons: no
  property depends on them.
- Input validation of contracts: `Contracts` are those that pass.
- Locking time-outs (`database is locked`): the exception escapes the
  command, which is a `Crash` at a point where nothing was written.
- In sleep, the payload of a `correction` is treated as text whatever its
  shape, as `_classify` does.
- In repository missions, the syntax of patches and contracts, the policy rules and
  the threads of `_run_bounded_test`: each check either holds or fails.
- In the services: provenance, reasons, audit rows and everything else that no operation reads again;
  `execute` of a tool, which runs a program and appends to the audit;
  `evaluate_fixtures`, which evaluates several patterns; the floats of the divergence features.
- The expiry of a knowledge policy: `_load_policy` compares it with the clock, and without an active policy
  nothing is recorded.
- The headless server: one thread collects the last error lines of the child while `start` builds
  its evidence after a join that may time out, so the evidence may miss lines; `healthy` and the tail are not
  reset by a second start. Nothing else depends on either.
- The components marked `not_modelled` in `PROJECT.json`; their notes say why.

## 7. Plan

1. Done: `MissionEngine`, `BoundedMission`, their proofs; `SleepConsolidation`.
2. Done: `RepositoryMission`, `GuardedDelivery`.
3. Done: the services of the store: `EpistemicLedger`, `SkillPromotion`, `ToolRegistry`,
   `KnowledgeSources`, `SchemaMigrations`, `CapabilityLifecycle`, `ImmuneCascade`,
   `DivergenceEngine`, `KnowledgePolicy`, `BundlePublication`, `LocalSession`.
4. Done: proofs about sleep, repository missions and the engine of one process, with both
   refinements.
5. Done: proofs about the eleven services and their composition, and about repository missions
   that others interfere with.
6. Not done: pure decisions as operators with reference definitions (`authority.decide`, contract resolution,
   `_classify`).
