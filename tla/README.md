# Specifications of the formalization engine

The repository is a Python workflow for AI-assisted Lean formalization
(`src/formalization_engine`, about 49k lines). A task is planned, packed,
drafted, built, reviewed by somebody outside the program, and only then landed
on a canonical Lean file. Several commands may work on one workspace at the same
time, each a process of its own that can be killed; they share a SQLite
database, JSON evidence files and the Lean tree. The modules here model the
parts in which such commands can get into each other's way, and the rules by
which evidence becomes authority, and check what the documentation promises
about them.

Paths below are relative to the repository; `engine/` stands for
`src/formalization_engine/`. PROJECT.json maps every definition to its lines.

## 1. The system

| Component | State | Operations | Correct when |
|---|---|---|---|
| Staged official build, `engine/phase2_prompt_pack.py` | lock file of a task, staging directories with an undo manifest and backups, canonical files | acquire or refuse the lock, recover stale staging, back up, write, build, restore, release | a failed or killed build leaves the canonical files as they were, or an undo log that puts them back |
| Build check and review preparation, same file | task row, draft, review requests | build-check, review-now, review-existing | a request is bound to the subject and the basis it was made for |
| Review apply, `engine/phase2_review_apply.py`, `..._receipt.py` | task row, canonical file, receipts, review rows | freshness validation, promotion, register_success, finish | what is accepted was reviewed, for the dependencies the task has now, and has a receipt |
| Dependency reconcile, `engine/ledger_manager.py`, `engine/phase2_dependency_reconcile.py` | dependency list of the row | compare and swap | no review of the old list authorizes the new one |
| Campaign ledger, `engine/core/sqlite_ledger.py` and the campaign transactions of `engine/state_store.py` | stored ledger, revision and authority rows; a copy in each command | load, legacy import, plain and normalized transactions, save | no update is lost, none is half stored, no copy pretends to be newer than it is |
| Review loop and failure budgets, `engine/phase2_review_loop.py`, `engine/phase2_failure_budget.py` | rounds, streaks, attempt history, repair requests | start, resume, seed, review, build, apply, stop | it ends, stops for the reason it says, and counts what happened |
| Semantic review contract, `engine/phase2_semantic_review.py` and others | none | normalise a reviewer's file, task status, triage | only an independent, complete answer to this very request promotes |
| Batch controller, runner, dependency gate, `engine/phase2_batch_*.py`, `engine/phase2_dependency_gate.py` | plan of a batch, frozen dependencies, decisions | plan, dispatch, grant, revoke, project | clean means grounded; a task starts over clean dependencies; somebody can always act |
| Basis rebind, `engine/phase2_basis_rebind.py` | chain of receipts in a row | validate, write a receipt, swap | a chain never widens what the review was made for |
| State store and evidence tools, `engine/state_store.py`, `engine/state_*.py`, `engine/authority_relocation.py`, `tools/mat_catalog_review_*.py` | reviews, transformations, bindings, heads; receipts on disk | apply reviews, emit receipts, set heads, answer coverage | authority never reaches what nobody accepted |
| State rebuild, `engine/state_migration.py` | a second database | import the evidence in order, check, swap | the swap loses nothing that has a receipt |
| Exact builds and review packs, `engine/state_exact_build_batch.py`, `tools/mat_catalog_review_prepare*.py` | receipts and packs on disk | select, build, emit, prepare, batch | a receipt or pack that is whole is of one world and stays valid for it |
| Phases 0 and 1, `engine/phase0_ingestion_pack.py`, `engine/phase1_*.py` | packs, ledger rows, plan file, decisions | validate, audit, apply | the audit and the apply agree; an interrupted apply can be run again |
| Identifiers and task catalog, `engine/block_id_naming.py`, `engine/task_catalog.py`, `engine/state_catalog_sync.py` | an immutable catalog | canonicalize, build, validate, look up, sync | a built catalog is valid; every path and support module has one task |
| Legacy JSON ledger, obligations, reports, CLI | files | - | not modelled (section 6) |

How they interact. A command opens a ledger manager (a copy of the campaign's
ledger with its revision) and calls it many times: every call is a transaction
of its own, and between two of them other commands may write. `build-check`
and `review-apply` go through the staged build, which writes the canonical file
and takes it back if the Lean build fails. `review-now` writes a request file
that binds a subject to a basis (dependencies, upstream outputs and row
fields); the answer is a file from outside. `review-apply` reads request and
answer, checks that nothing moved, promotes the candidate, and records the
acceptance in one transaction that compares revisions and moves the receipt
file into place before it commits. The auto-loop strings these commands
together over many calls of an agent; the batch runner decides for many tasks
which of them comes next. Every acceptance leaves a receipt file; tools write
further receipts that carry a review to another commit, repository or subject,
and a rebuild reconstructs the state database from all of them.

What is hard here: commands that overlap, and those that are killed between a
file operation and the transaction that records it; state read into memory,
checked, and used after others could change it; a comparison of revisions that
guards only some of the writes; undo logs that outlive the state they undo;
counters kept in fields that another command resets; authority that is carried
along chains of receipts, imported in an order nobody tests. PROJECT.json lists
each such hazard at its line.

## 2. Modules

| Module | Models | Checked by | Proved in |
|---|---|---|---|
| `StagedBuild` | the staged official build and the task-local lock | `MCStagedBuild` | `StagedBuildProofs` |
| `ReviewApply` | one task through build-check, review-now, review-existing, review-apply, reconcile | `MCReviewApply` | `ReviewApplyProofs` |
| `CampaignLedger` | the SQLite campaign ledger and its managers | `MCCampaignLedger` | `CampaignLedgerProofs` |
| `AtomicLedger` | what a campaign ledger promises | as a property of `CampaignLedger` | refinement |
| `ReviewContract` | what a reviewer's file amounts to | assumptions of `MCReviewLoop` | `ReviewLoopProofs` |
| `ReviewLoop` (extends it) | the auto-loop of one task with its budgets | `MCReviewLoop` | `ReviewLoopProofs` |
| `BatchRunner` | batch-run, dependency gate and projection over several tasks | `MCBatchRunner` | `BatchRunnerProofs` |
| `BasisRebind` | basis-rebind beside consumers and other commands | `MCBasisRebind` | `BasisRebindProofs` |
| `AuthorityStore` | the tables of the state database and the questions asked of it | through `StateRebuild` | `StateRebuildProofs` |
| `EvidenceTools` (extends it) | the commands that write evidence and live rows | through `StateRebuild` | `StateRebuildProofs` |
| `StateRebuild` (extends it) | the rebuild and its swap beside those commands | `MCStateRebuild` | `StateRebuildProofs` |
| `TaskIds`, `Planning` (extends it) | identifiers; Phase 0 and Phase 1 | `CatalogChecks` | - |
| `TaskCatalog` | building, validating, reading a catalog | `CatalogChecks` | `TaskCatalogProofs` |
| `ExactBuilds`, `CatalogReview` (each extends the one before) | exact-build batches; review packs and their batches | `PackChecks` | - |

Every action corresponds to the code between two points at which another
process, or a kill, can be observed: one file operation or one transaction,
unless the section of the module says that a whole command is one step.
Mutants (`\* mutant: ...`) are operators with a defect written beside the
definition they would replace; nothing in a specification uses them.

`TaskIds` to `CatalogReview` have no variables: what they model are functions of
their inputs, and of the point at which a command was killed. `CatalogChecks`
and `PackChecks` state what is expected of them as named assumptions over small
inputs. `MCCampaignLedger` extends both, so TLC evaluates them before it explores
the ledger (about 10 seconds). `MCReviewLoop` does the same for `ReviewContract`.

### StagedBuild

`lock` is the lock file (nobody, a process, or unreadable after a cut-short
write), `dir` the staging directories, `target` the canonical files, `pc` the
place of each process. A process runs `build-check` or `review-apply` (`job`)
with an attempt number that names its directory. The actions follow
`_acquire_task_local_lock`, `_recover_stale_mutation_lock`,
`_restore_staging_manifest` and `_run_staged_official_build`: existence check,
stale check, replay of every manifest found, lock write, directory, backups,
manifest, target writes, build, restore or removal of the staging, release.
`Exit` kills a process between any two file operations and `ExitWriting` inside
one, which leaves `Torn` bytes.

`RaceFree` is the one assumption. When TRUE, the check of the lock file and its
write are not interleaved with those of another process; the code does not
enforce this. `StagedBuild.cfg` shows what holds under it, `StagedBuildRace.cfg`
what happens without.

Left out: reuse of a process id, two tasks that own one output, errors ignored
while a directory is removed, file timestamps. Two facts of the code that the
model has and a reader should know: recovery itself can be cut short and is
repeated by the next command; and a success that is killed after a backup was
deleted and before the manifest leaves a manifest that no later recovery can
replay, so the task stays blocked until somebody deletes it by hand.

### ReviewApply

`row` is the task row (status, ready candidate, build count, dependencies,
review fields), `canon` and `draft` the two Lean files, `log` the original bytes
while a killed promotion has an undo manifest, `requests` and `results` the
review files, `receipts` and `eligible` what an acceptance leaves behind. Each
process has a copy of the row (`mem`) and an attempt (`att`). The revision is
not counted: `stale` is the set of commands whose revision is not the stored
one, since the code only ever compares for equality. Commands of other tasks
commit at any moment, which makes every running command stale.

The staged build is one step here, except that a process may be killed inside
it (`KillInPromotion`, which leaves `log`). `StagedBuild` justifies that:
`AllOrNothing` says a build either keeps all its bytes or restores all, and
`UnbuiltBytesAreCovered` that a kill leaves an undo log.

Left out, because no property depends on them: failure budgets (`Unaccepted`
stands for the statuses the budget chooses among; `ReviewLoop` has them), pack
generation, the `current_review_*` and `latest_official_*` fields (`Touch` is a
write of the row that changes only such fields, and moves the revision), the
reconciliation marker, external candidates, the retired obligation tasks and
existing-support subjects, proof-debt and mathematics gates, edits of a user in
the canonical file, conflicts of receipt ids, attempt history. A refusal is
`RequestRefused` or `Kill`: the command stops without another write. One
consequence of the code: `register_success` adopts the newest revision, so with
two states of an upstream task an acceptance after a dependency changed during
the build is reachable; the run has one state of it.

### CampaignLedger and AtomicLedger

A ledger is the set of updates in it: what a transaction does to the JSON
payload matters only in so far as it is there or not. `content`, `revision` and
`rows` are stored; `writer`, `staged` and `stagedRows` are the one open write
transaction; a manager has `mem`, `rev`, the copy `oldMem` that a failing
transaction restores, and the update it is writing. An update is written `plain`
(no comparison of revisions), `normalized` (comparison, and authority rows) or
by `save` (comparison, whole copy). `fate` records what became of an update:
`stored` once committed, `acked` once its caller was told, `refused` once its
caller saw an error and it can never be stored, `open` for a `save` that raised
(its change stays in memory, and a later save of the same command carries it).

Of SQLite the model takes: `BEGIN IMMEDIATE` admits one writer; what did not
commit is gone when the writer raises or dies. Refusals of an empty ledger,
read-only managers, schema checks, and errors after the commit of a legacy
import are left out: they change no stored state. The replacement of the whole
database by a rebuild is in `StateRebuild`.

`AtomicLedger` has no transactions, copies or revisions: an update is asked
for, applied once, acknowledged or refused.

### ReviewContract and ReviewLoop

`ReviewContract` is `normalize_reviewer_result` and what follows from it: an
answer `Accepted` for a request, the task status its classes give, the one
`Outcome` that review-apply and the loop act on, the triage of a failure. Every
failed check gives the same outcome, so the order of the code's early returns is
not kept. Facts of the code it shows: the last of two entries for one consumer
or evidence class wins (a `blocked` followed by a `covered` is accepted);
`forbidden_weakenings` need only be non-empty with none `present`; an accepted
pass may still list findings and interface mismatches; an obligation item
`accepted_as_proof_debt` passes without a contract; `run_semantic_review` and
`apply_obligation_review` have no caller.

`ReviewLoop` follows one task: `row` with the loop's fields, `history` (the
attempt file), `latest` repair request, `diagnosed`, `draft`, `official`, the
reviewer's `result`. One call of auto-loop is a sequence of steps, one per write
that a kill can separate from the next; between calls the agent answers, edits,
diagnoses, and runs build-check, review-now, review-existing or review-apply by
hand. What the code does and a reader might not expect:

- after an apply the loop reads the newest `verify_result` file; a refused
  stale answer writes none, so the loop counts the old failure again and may
  report non-progress (`engine/phase2_review_loop.py:1079-1084`, against
  `docs/phase2/agent_review_contract.md:54`);
- seeding a repair again after a stop overwrites a draft the author edited;
- rounds are numbered over the life of a task; builds the mathematics gate
  refuses are not counted;
- a promotion killed before its last commit leaves request and result without a
  receipt, and the next loop ends in `hard_failure`;
- the entry phase may send a candidate for review that was just rejected
  (213-239); `NoReviewOfRejected` begins after it.

Left out: stale-official messages, external candidates, diagnosis overrides, two
commands writing the history at the same time.

### BatchRunner

Each task has its `row`, canonical file (`canon`, a version), `request`,
diagnosis, source decision, mathematics gate, frozen dependency and state
`head`; `queue` and `left` are what remains of a plan. `Clean`, `Gated`,
`Blocking` and `ActionFor` are the functions the runner evaluates on rows and
files. A review, a repair loop and an apply are one step with their outcomes.
An apply that dies is among them (`ReviewApplyDies`): promotion,
`register_success`, the summary files and the transaction of `finish` are
committed one after another, and a kill, or a `StateConcurrencyError`, leaves
what was there by then, with the answered request still current. Inside an
auto-loop it is the end of the batch-run as well.
`passed`, `accepted` and `disturbed` are history for the properties.

Facts of the code: a dependency whose review says `blocked` gets the action
`blocked` for ever (`docs/phase2/workflow.md:339` would put it first), one of the two
exceptions in `WaitsForSomeone`; an answered but unapplied review of a stale pass is requested
again by every batch-run; a diagnosis file answers every later triage; a `go` of
the mathematics gate is not bound to the skeleton it judged
(`engine/phase2_math_review_gate.py:109-185`, against
`docs/phase2/workflow.md:84`); a frozen task in the batch is reported clean; an
`allowed_exception` never gets a receipt; `FAILED_LOCAL` rows with an exhausted
budget still get an auto-loop; a plan is computed once and awaited, and
`conflict_group` is never enforced. Cycles in the union of planned dependencies
and Lean imports make rows skip each other; the instance has none. **A row
that is `COMPLETED` with an empty `phase2_status`**, as an apply leaves it that
dies after `register_success`, or an import from before review-apply ("imported"),
**takes the verdict of the newest result file without any freshness check**
(`engine/phase2_batch_runner.py:712-714`, `engine/phase2_batch_controller.py:564-592`).
It is clean, stays clean when its file is edited, gets no action, and may keep
its dependents waiting, which is the other exception in `WaitsForSomeone`.
`test_fresh_but_unapplied_pass_result_is_not_counted_as_pass` has a row that
still claims a pass, and does not meet it.

Left out: obligation children, section introductions, beyond-book tasks, the
ranking of the queue; a kill inside `review_existing`; the undo log of a kill
inside the promotion, which `ReviewApply` has.

### BasisRebind

`row` has the review, its `origin` and `post` basis and the `history` of links;
`crow` (status, `phase2_status`, applied subject), `out` and `plan` are the
consumers' rows, output files and planned relations, `standing` and `passed` which outputs have an applied review.
Commands `Open`, `Check`, `Write` and `Land` (compare and swap), can be killed
at each step or inside the write (`Tear`), and overlap. A consumer counts as
complete when it is COMPLETED with `phase2_status` pass; `ReviewUnfinished` are
its reviews that fail later, or die after `register_success`.

Facts of the code: a fresh review-apply or a reconcile leaves the old history in
the row, and `validate_rebind_chain_tip` then refuses every later rebind as stale
or branched; so does a post basis that already differs from the origin; with
pending consumers at the tip the next rebind must advance exactly all of them;
`validate_pending_to_completed_enrichment` and
`rebase_accepted_output_advancements_to_chain_tip` are never called by the
command; an added completed consumer is checked against its record, only an
advancement against the review's receipt; consumers' rows are not part of the
compare and swap; a leftover output that nobody reviewed is accepted as evidence
of a pending consumer; a chain binds basis hashes, not the review input.

### AuthorityStore, EvidenceTools, StateRebuild

A subject is a bundle observed at a commit of a repository; a bundle is the four
things the code compares. `AuthorityStore` has the upsert of reviews, the
uniqueness of edges and bindings, head freshness and the coverage questions on a
database value. `EvidenceTools` has the commands: results of reviewers, the three
ways to apply a review (toy, pull request, MAT), commits, the pin, the
unification, and the tools that write recovery, path, delta, bridge, scope, build
and relocation receipts; each may be killed between its file and its rows.
`StateRebuild` imports eleven kinds of evidence in the order of
`rebuild_workspace_database` into `temp`, checks the required invariants and
replaces the live database, while commands go on.

`Starts` are repositories with evidence on disk. `StartsAssumption` says what the
commands can have left there: identities given out in order, and files that say
of their bundles what their command checked (`Evidence`). TLC evaluates it for the
histories of `MCStateRebuild`; the empty directory meets it
(`NothingIsEvidence`), and every command keeps it (a part of `Invariance`), so it
excludes no history the commands can make.

Facts of the code: (1) the import of a review-apply receipt passes `created_at`
to `record_transformation`, which does not take it (`engine/state_migration.py`
2790-2799): the review row stays, edge and heads are lost, the receipt is counted
as rejected; (2) live coverage counts `verified_evidence_bridge` edges, a
rebuild's reach excludes them; (3) a rebuild replaces the whole state database
and re-imports the campaign from the frozen legacy ledger (3473-3486), so
whatever commands stored meanwhile, and frozen heads, runs, pins and
integrations, are lost (against `docs/workspace_state.md` and
`docs/phase2/artifacts.md:74`); (4) the snapshot checks and then copies
(`engine/state_cli.py:565-575`); (5) `record_integration` resets a claimed item to
ready, and nothing in `src` claims, finishes or pins; (6) an applied external
review writes no receipt, so a rebuild loses it; (7) workspace bindings of
boundary receipts are declared, not recomputed; (8) a rebuild reaches by subject
id, the live questions by bundle hash; (9) a recovery receipt hashes all results
of a pack, so that a later result makes it, and what was built on it, rejected;
(10) one result gets two subject identities; (11) a MAT receipt cites the id of
the first scope.

Left out: bridge batch receipts and index tools, sidecars, process events, the
single-file scope of legacy bindings, legacy ledger and campaign import, the
tokens and hashes that a comparison of bundles stands for, GitHub refresh.

### TaskIds, Planning, TaskCatalog

An id is a sequence of segments of tokens. `Planning` has Phase 0 (pack,
validation, apply) and Phase 1 (structure of a plan, audit, apply with its
registrations, plan file and decisions, stopped after any number of steps).
`TaskCatalog` has the three builders, families, ownership of modules, validation,
look-ups, and what `sync_active_catalog` writes.

Facts of the code: `_families` accepts an override under the id of another one, or
of a task it does not group, and `validate_catalog` then rejects what was built;
`_inject_cross_references` tests `startswith`, so a reference to Theorem 3.1 in
`thm_3_12` gives no dependency, and "Lemma n.m" is looked for as `thm_n_m`; Phase 1
does not refuse a plan that names a task twice, and with two contents every apply
takes a completed task back to `DISCOVERED`; a block without content raises half
way, with earlier rows registered and the plan unwritten; Phase 1 applies the
pack's copy of `input.tex`; canonicalization can return an id with `main` before a
lemma, which `is_canonical_block_id` refuses; the errors "ambiguous owners" and
"maps to multiple MAT modules" cannot occur, and the migration check of second
version policies compares a set with itself (`UnifiedMigrationsAreVacuous`); a
stale head stays stale in a sync even when its bundle is exact again.

Left out: the extraction of text from a PDF, prompt texts, source locations.

### ExactBuilds, CatalogReview

A world is what a command reads (catalog, `origin/main`, checkout, files), and a
command is given a sequence of worlds, one for each time it looks again, and the
number of writes it makes before it is killed. `ExactBuilds` has the manifests of
actions, the selection, `Emitted` (receipts of a batch) and `ReceiptValid`.
`CatalogReview` has `Prepare`, the files of a pack in the order they are written,
`PackValid` and `ApplyValid` (`_validate_pack`), and the batch.

Facts of the code: a kill inside a receipt write leaves a partial directory, and
every later emission that names the task is refused; a prepare that is killed, or
refused at its last check because MAT moved, leaves a pack without metadata, and
every later batch refuses all its items until somebody removes it (kills between
receipts or packs are harmless); the emission's token scan reads comments
(`engine/state_transformation_receipt.py:279-294`), the one of prepare does not
(`tools/mat_catalog_review_prepare.py:468-490`); a file with CRLF line ends gets a
receipt, but its prepare dies with an uncaught `ValueError` after its first
writes (390-391); the tolerance for another commit with the same tree (589-597)
is dead, a later check asks for the pin.

Left out: two prepares that write one pack at the same time, files that are not
UTF-8, spellings of paths.

## 3. What the runs show

| Run | Question | Result |
|---|---|---|
| `StagedBuild` | With the lock read race-free, do kills anywhere ever lose the original bytes? | 0.7M states, holds |
| `StagedBuildRace` | And without? | violated, see below |
| `ReviewApply` | Commands of the task one at a time, killed anywhere, with reconciles, edits and answers in between and commits of other tasks at any moment: is what is accepted what was reviewed? | 8.0M states, holds |
| `ReviewApplyFailedBuild`, `...Reconcile`, `...Recovery` | Three sentences of the documentation | violated, see below |
| `CampaignLedger` | Do three managers with stale copies, failing and dying, behave as one atomic ledger? And do the assumptions of `CatalogChecks` and `PackChecks` hold? | 0.65M states, holds |
| `ReviewLoop` | Does the loop settle, and is what it seeds, counts, stops for and calls completed true? | 1.0M states, holds |
| `BatchRunner` | With applies that die half-way, is what a batch calls clean backed by verdicts, and does it neither start too early nor wait for nobody? | 54K states, holds |
| `BatchRunnerKilledApply` | A sentence about the batch | violated, see below |
| `BasisRebind` | Do chains of rebinds keep their receipts and the meaning of the review? | 3.2M states, holds |
| `StateRebuild` | Does authority reach only what was accepted, and survive replays and rebuilds? | 0.85M states, holds |

The properties.

- `UnbuiltBytesAreCovered`: bytes that no build accepted are on a canonical
  path only while some manifest undoes them.
- `NoOrphanUndoLog`: with the lock free there is no manifest to replay over
  newer bytes. `OneStagesAtATime`: the lock excludes.
- `AllOrNothing`: a staged build ends with all targets replaced or none.
- `CanonicalIsReviewed`: the canonical file is the original one or one that
  some reviewer passed, whatever is killed or overlaps.
- `AcceptanceHasEvidence`: an accepted row has a receipt and an eligible review.
- `AcceptedForCurrentDeps`, `AcceptanceIsFresh`: an acceptance belongs to the
  dependency list the row has; and its request was for the list and the build
  count of the row at the moment it was made. They hold when commands of one
  task do not overlap. Neither says anything of the dependencies' own rows and
  outputs, which may change after the validation.
- `AcceptanceSawTheRow` (proved, in no run): what remains of that when they do;
  no write of another command lies between register_success and the acceptance.
- `FailedApplyRestores` (violated without `RaceFree`): after an apply that
  reports failure the canonical file is what it was before it.
  `UncontestedFailureRestores`: it is, unless another commit of the campaign made
  the last transaction fail.
- `FateIsTruthful`: what a caller was told is stored is stored for good, and
  what it was told is refused never appears.
- `RowsFollowLedger`: authority rows and ledger commit together.
- `MemoryAtRevision`: a copy that carries the stored revision contains the
  stored ledger, so a comparison of revisions is enough to save it.
- `ImplementsAtomicLedger`: the refinement.
- `RoundHasOneLoop`: builds of one round number belong to one loop, so that no
  loop starts on a budget that another used.
- `SeededRepairIsRecorded`: a repair that was seeded into the draft answers a
  failure that the history has, also after a kill between the two files.
- `LoopSettles`: an active loop completes or stops.
- `FailedLocalIsEarned`: FAILED_LOCAL comes after that many failures in a row.
- `NoReviewOfRejected`: a loop under way does not ask for a review of the
  candidate its repair request was written against.
- `CompletedIsApplied`: "completed" means the canonical file is a candidate
  whose accepted review is in the history.
- `CleanIsBacked`: of a clean task and of all below it, the file there is now,
  with the dependencies the row has now, was passed or accepted by the owner, if
  review-apply or the owner has given the task a verdict; if not, some version of
  it was passed. `CleanIsGrounded`, without the exception, is violated.
- `WaitsForSomeone`: below a skipped task there is one somebody can act on.
- `DispatchIsReady`: while nobody interferes, a plan never starts on a task over
  a dependency that is not clean, to its last action.
- `HistoryIsReceipted`: every link of a chain has its receipt, whole, and shares
  it with no other link.
- `ReboundIsEquivalent`: while the chain holds, nothing about the task itself
  differs from what the review was made for, no consumer is lost, an output that
  differs was reviewed, and no receipt claims more.
- `Grounded` (`StateRebuild`): a subject is covered only if its declarations were
  passed by a reviewer or decided on by the author, over all edges and rebuilds.
- `EligibilityKept`: no command takes authority from a review that has it.
- `ReceiptsSurvive`: a rebuild keeps the authority of each review whose receipt
  was on disk at its inventory. It is about review rows: the edges of a
  review-apply are lost (fact 1 above).
- `RebuildIsReported`: the head that a rebuild required to be covered is reported
  as covered by the status commands, which follow one edge and not a chain.

The assumptions. `ReviewContract`: a pass needs each consumer, each way in which
a file can be wrong is refused, the task status against a second definition, all
outcomes occur, when the triage asks for a diagnosis. `CatalogChecks`: canonical
forms (`CanonicalForm`, `Derivation`, `Examples`), a Phase 0 input is clean,
audit and apply agree on a plan's errors, an interrupted apply converges, the
duplicate and prefix faults named above, built catalogs are valid exactly when
family ids are apart (150 of 30,240 builds are accepted, 147 of them apart), a
sync makes no head fresh. `PackChecks`: an emitted receipt is accepted later and
comes from a clean build at the pin; where an emission or a batch resumes and
where it is stuck; the two schemas of a manifest agree; a finished pack is one
that the apply accepts, in the world it was made in and no other; a pack that is
made again and killed is never a mixture (720 cases, 568 with an acceptable pack,
in 92 the new one); the disagreements about comments and line ends.

### Where the code and its documentation disagree

1. **Lock race** (`StagedBuildRace`). The lock is an existence check and then a
   plain write. Two commands that start together both pass; the second backs up
   the first one's candidate as the original. Both builds fail and the
   candidate stays.
2. **Failed build after a PASS** (`ReviewApplyFailedBuild`). `finish` records
   `phase2_status=pass` and then puts the original status back, which may be
   `COMPLETED`: a clean completion that was never applied.
3. **Reconcile in the middle** (`ReviewApplyReconcile`). `register_success` is a
   plain transaction and adopts the newest revision, so that a dependency list
   reconciled after the freshness check passes the comparison in `finish`.
4. **Late recovery** (`ReviewApplyRecovery`). Bytes left by a killed promotion
   can be accepted through `review-existing`, which does not look at the lock.
   The next build-check replays the undo log and takes them away.
5. **Unapplied result taken as authority** (`BatchRunnerKilledApply`). "A
   historical PASS is schedulable as PASS only when its bound input, subject,
   basis, [...] and review-apply receipt all still agree with current state"
   (`engine/phase2_batch_runner.py:707-709`). A candidate is passed, the auto-loop
   applies the answer and dies after `register_success`: the row is COMPLETED
   without `phase2_status`, the batch calls it clean by the unapplied result, and
   an edit of the file changes nothing about that.

Two more are exceptions in properties that hold.

- **Conflict in the last transaction** (`stale` in `UncontestedFailureRestores`).
  Any write of the campaign makes `finish` fail after the promotion; the undo
  log is gone by then and the promoted bytes stay, against "a failed application
  restores prior bytes" (`docs/workspace_state.md:61-63`).
- **A repair hint that counts as clean** (the last line of `WaitsForSomeone`).
  Reconcile a task, review it again, and let its apply die after
  `register_success`: the report status is `needs_fresh_review`, a hint that
  should not be "interpreted as clean completion"
  (`docs/phase2/status_contract.md:25-26`), and the same report counts the task
  clean; it gets no action and its dependents wait.

The further disagreements in section 2 have no run of their own: they are part
of the models, or the models' start states leave them out, as said there.

### Bounds

- `StagedBuild.cfg`: three processes, two attempts, two targets of which one
  does not exist yet. Two processes are needed for a race over the lock, the
  third recovers what both left; two targets make a partial restore possible;
  two attempts give two processes of one mode different directories.
- `ReviewApply.cfg`: one process identity runs any number of commands one after
  another. `MaxBuilds` and `MaxReviews` bound the build records and the
  requests: two of each are needed for a stale request and for a second
  candidate over the first. Two candidates, two dependency lists, one upstream
  task in one state.
- The violations: one or two processes, few candidates; the interleavings are
  the question there.
- `CampaignLedger.cfg`: three managers, so that one holds a copy two revisions
  old while two others write; four updates, two with evidence, so that every
  pair of ways of writing meets. The theorems lift the bound.
- `ReviewLoop.cfg`: two draft contents, one must-fix list, one route, two rounds,
  limits of one failure without progress, one build per round and two failures in
  a row, so that every limit is reached and exceeded. `MaxEvents = 3` bounds
  loops started, kills, commands by hand and changes of the basis together: a
  second loop over what a killed first one left, with one disturbance.
- `BatchRunner.cfg`: a chain of three, so that a dependency two levels down can
  lose its authority; `Replanned` cuts it. Ten kinds of row are placed in the
  positions that tell rules apart (`Histories`, ten starts). Two actions of a
  plan, so that one follows another; two versions of a file; `MaxEvents = 2`
  things that people and other commands do. The instance with three (627K states)
  holds too. `BatchRunnerKilledApply` starts without "imported" rows (`Reviewed`),
  so that every completed row has a verdict to begin with.
- `BasisRebind.cfg`: two commands, two consumers, two values of everything a
  basis holds, three receipts, two events. `Init` admits all combinations of
  outputs, plans and accepted consumers, so that chains of two links are
  reachable within the events.
- `StateRebuild.cfg`: four bundles (as reviewed, moved, re-imported, rewritten),
  eight histories with one kind of evidence each, `MaxFiles = 4` evidence files,
  which leaves about one new receipt in each (exact builds are not counted), two
  commits. The theorems lift the bounds.

Symmetry over processes, candidates, managers, updates and the values of
`BasisRebind` is used only with safety properties. `CHECK_DEADLOCK FALSE` is set
because the systems stop: every process exits, or every bound is used up.

### Fairness

Only `ReviewLoop` states fairness (`FairSpec`); the other systems do not retry
by themselves: whether a command is started is up to the operator. The loop is
not a daemon either, but `docs/phase2/agent_review_contract.md` obliges the same
session to carry on with an active loop until it stops. So: weak fairness of the
steps of the running command (a sequential program that is not killed goes on);
weak fairness of the agent's call that resumes an active loop; strong fairness of
the reviewer's and the mathematics reviewer's answer, since the request for them
comes and goes as commands run. Edits, diagnoses, kills and commands by hand have
none, and `MaxEvents` bounds them: somebody who disturbs the loop without end can
keep it from settling. Batch progress is stated as safety (`WaitsForSomeone`),
because nothing obliges anybody to act.

## 4. What is proved

Each proof module has an inductive invariant `IInv` (or several, where a property
needs a part of its own). `Inductive` or `InvStep` takes the actions one at a
time, and below each the conjuncts that the action disturbs.

`StagedBuildProofs`, for every number of processes, targets and attempts, and
deaths anywhere. `TypeCorrect` needs the `ConstantsAssumption` only; the others
have `RaceFree` as their hypothesis, and `StagedBuildRace` shows what happens
without it.

| Theorem | Statement |
|---|---|
| `TypeCorrect` | `Spec => []TypeOK` |
| `Invariance` | `RaceFree`: `Spec => []IInv` |
| `Exclusion` | `RaceFree`: `Spec => []OneStagesAtATime` |
| `UnlockedMeansNoUndoLog` | `RaceFree`: `Spec => []NoOrphanUndoLog` |
| `UnbuiltBytesCovered` | `RaceFree`: `Spec => []UnbuiltBytesAreCovered` |
| `AppliedOrRestored` | `RaceFree`: `Spec => AllOrNothing` |

- `LockInv`: whoever is between the check of the lock file and its release is
  alone there, and the lock file says where it is.
- `TodoInv`: only a recovering process has manifests to replay, and none but
  the one it replays.
- `LogInv`: at most one manifest exists, and whoever may meet it knows where.
  Without it a second manifest could put back bytes of another build.
- `BackupInv`: whatever a manifest can bring back is good, also when some of the
  backups are already deleted (a recovery that is itself cut short).
- `CoverInv`: `UnbuiltBytesAreCovered`, with what a process that is about to give
  up an undo log has already put right.
- `StageInv`: what a staging call has made of the targets at each of its places;
  `AllOrNothing` is its last line, read at the release.

`CampaignLedgerProofs`, for every set of managers and updates, from
`ConstantsAssumption` alone (the marker values are not members of the sets):

| Theorem | Statement |
|---|---|
| `Invariance` | `Spec => []IInv` |
| `TypeCorrect` | `Spec => []TypeOK` |
| `FatesAreTruthful` | `Spec => []FateIsTruthful` |
| `RowsFollow` | `Spec => []RowsFollowLedger` |
| `CopiesAreCurrent` | `Spec => []MemoryAtRevision` |
| `Implementation` | `Spec => ImplementsAtomicLedger` |

None of the properties is inductive as it stands. `IInv` adds, with the reason:

- `WriterInv`: whoever is between BEGIN and COMMIT is `writer`, and nobody else;
  without it two managers could commit in turn.
- `StagedInv`: the open transaction will store the writer's copy, which lacks
  nothing of the stored ledger, and unless it is a save adds exactly the
  writer's update; rows are staged by a normalized transaction only. This is
  what makes a whole-copy save lose nothing: its revision matched at BEGIN, and
  nobody commits while it is open.
- `CopyInv`: a copy with the stored revision lacks nothing of the stored ledger,
  and neither does the copy a failing transaction would put back. (No copy has a
  revision higher than the stored one; `TypeOK` says so.)
- `PrivateInv`: the update of a transaction that is not a save is in no stored
  ledger and in no other memory, so that an update refused to its caller is
  nowhere it could still be stored from.
- `UpdateInv`: an update is written by one manager and is open while it is; a
  save has its update in the copy it stores.
- `HeldInv`: what any ledger or copy holds was asked for and not refused.
- `EvidenceInv`: only the normalized transaction itself holds an update with
  evidence that is not stored, so that no save of another manager carries the
  update without its rows.
- `ImportInv`: the campaign row holds the import, and exists as soon as a
  manager has loaded the ledger.
- `AckedInv`: an acknowledged update is stored.

`Inductive` has one step for each action and below it one for each conjunct the
action disturbs. Refinement: `ledger` is `content`; `Import` maps to `Import`,
`Ask` to `Ask`, `Commit` to `Apply` of what it adds, `Return` to `Acknowledge`,
and a transaction that raises, other than a save, to `Refuse`; all else
stutters (`StepSimulation`).

`ReviewApplyProofs`, for every number of overlapping commands, candidates,
dependency lists and bounds, from its `ConstantsAssumption` (marker values
differ from contents; a failed command leaves PACKED or FAILED_LOCAL):

| Theorem | Statement |
|---|---|
| `Invariance` | `Spec => []IInv` |
| `TypeCorrect` | `Spec => []TypeOK` |
| `OnlyReviewedLands` | `Spec => []CanonicalIsReviewed` |
| `AcceptancesHaveEvidence` | `Spec => []AcceptanceHasEvidence` |
| `AcceptancesSawTheRow` | `Spec => AcceptanceSawTheRow` |
| `AcceptancesFitTheRow` | `Alone`: `Spec => []AcceptedForCurrentDeps` |
| `FailuresRestore` | `Alone`: `Spec => []UncontestedFailureRestores` |
| `AcceptancesFitDepsAndBuilds` | `Alone`: `Spec => AcceptanceIsFresh` |

Its `IInv` adds `LocalInv` (a running review-apply has an attempt that exists),
`PassInv` (a command about to overwrite, or that has built, holds a PASS: this is
what survives between the validation and the writes, since answers never
change), `LogIsReviewed` (an undo log, too, brings back only reviewed bytes, or
recovery would land others) and `RevisionInv` (a command whose revision is the
stored one has the stored row). Steps that only write the row are covered by
`LedgerStep`, ends and kills by `ForgetKeeps`.

`Alone` says that the commands of the task come one at a time; commits of other
tasks, kills, edits and answers still come at any moment. It is a hypothesis
that the code does not establish: `ReviewApplyReconcile` shows that
`AcceptedForCurrentDeps` fails without it. `FreshInv` says that a command has the
stored row, and that the request a review-apply found fresh is for the
dependencies and the build count in it (of the upstream state it says nothing:
the model accepts after a dependency changed, as the code does); `RestoreInv` that only a promotion
overwrites the canonical file, and that the file is back where its build failed.

The staged build is one step in this module, so these theorems rest on
`AppliedOrRestored` and `UnbuiltBytesCovered` of `StagedBuildProofs`, and on
`RaceFree` with them. That the one step stands for those many is an argument
(section 2), not a theorem.

`BasisRebindProofs`, for every number of commands, consumers, versions and
values, from its `ConstantsAssumption` and `NoneIsNoBasis` (the marker of a
missing basis is not a basis):

| Theorem | Statement |
|---|---|
| `TypeCorrect` | `Spec => []TypeOK` |
| `LinksKeepTheirReceipts` | `Spec => []HistoryIsReceipted` |
| `ReceiptsClaimReviewedOutputs` | `Spec => []ClaimsWereReviewed`, the first conjunct of `ReboundIsEquivalent` |
| `RebindKeepsTheReview` | `Spec => []ReboundIsEquivalent` |

- `ReceiptInv`: a command between its write and its swap holds a receipt that is
  on disk as it wrote it, that no link names and no other command in that place
  holds (`Holds`). Exclusive creation of the file gives this; without it two
  commands could land one version.
- `ClaimsInv`: the subjects that consumers' rows name, and those in the copies of
  them that a command decides from, are outputs some review passed (`RowsPassed`):
  outputs change, verdicts come and go, `passed` only grows.
- `ChainInv`: every link is sound (`LinkSound`): it moved the basis from the
  reviewed one its receipt names to one that is worth the same, and lost no
  consumer that it or an earlier link started from. So is the link a command is
  about to append (`BodySound`), and what a command remembers of the history is
  the beginning of the row's (`Begins`). Because each receipt names the reviewed
  origin itself, a chain needs no induction over its length: the last link says
  what the whole chain is worth.

`BatchRunnerProofs`, for every set of tasks, start and number of events, from
`BatchAssumption` (tasks are finitely many and a dependency has a smaller number,
so the planned dependencies have no cycle; section 2 says what cycles do):

| Theorem | Statement |
|---|---|
| `Invariance` | `Spec => []IInv` |
| `TypeCorrect` | `Spec => []TypeOK` |
| `CleanStandsOnAcceptedVerdicts` | `Spec => []CleanIsBacked` |
| `SkippedWaitsForSomeone` | `Spec => []WaitsForSomeone` |
| `PlansStayReady` | `Spec => DispatchIsReady` |

- `RequestInv`, `ReceiptInv`: an answer that passes, and a receipt that a row is
  bound to, are on record for that version over those dependencies. `Clean`
  compares the present basis with the receipt's, which makes it mean something.
- `HistoryInv`: where the result on file passes, some version was passed. It is
  what a completed row without a verdict is called clean by, and all that can be
  said of one: that a completed row has a verdict is not an invariant.
- `FrozenInv`: a frozen dependency is in force for what the owner accepted last.
- For `WaitsForSomeone`: of the tasks below a skipped one that somebody has to
  act on, the one with the least number has none below it and is not skipped
  itself (`Least`, from the well-foundedness of `<`).
- For `DispatchIsReady`: contents only get newer (`AgeInv`); and what a plan has
  left are actions over clean dependencies (or of proof debt), none with another
  one under it (`PlanInv`), so that carrying one out takes nothing from the
  others.

`ReviewLoopProofs`, for every limit, draft, must-fix list and route, and any
number of loops, kills, edits and commands by hand, from `LimitsAssumption`:

| Theorem | Statement |
|---|---|
| `Invariance` | `Spec => []IInv` |
| `TypeCorrect` | `Spec => []TypeOK` |
| `RoundsAreOneLoops` | `Spec => []RoundHasOneLoop` |
| `SeededRepairsAreRecorded` | `Spec => []SeededRepairIsRecorded` |
| `RejectedIsNotAskedAgain` | `Spec => NoReviewOfRejected` |
| `CompletedMeansApplied` | `Spec => CompletedIsApplied` |
| `FailedLocalMeansFailures` | `Spec => FailedLocalIsEarned` |

- `TypeInv` has in it that the repair request in the row is the newest one, so that
  the candidate the loop compares with is the one its newest failure was about.
- `CommandInv`: the loop has a command only while the row says that it is active,
  or after an exception has reset the row; an active loop has progress left; an
  outcome that can be repaired has a request.
- `RoundInv`: the rounds of the loop under way are past those of every other one.
  The next round is above every round in the history, and a killed loop leaves
  its rounds there.
- `ReceiptInv`: a receipt, and a promotion under way, is for an accepted review
  that the history has. A replayed apply finds the receipt and writes no entry,
  so that "completed" needs the earlier one.
- For `FailedLocalIsEarned`: the two counts are folds over the attempt history.
  The recursion behind a fold has a solution (`CountExists`: a shortest beginning
  of the history without one would be one attempt longer than one that has it),
  and the solution counts attempt after attempt (`Counted`). What the counts mean
  (`BuildStreak`, `ReviewStreak`) then fails at no first place. `StatusStep`
  says that only the ledger updates of build-check and review-apply look at them.

`StateRebuildProofs`, for every set of bundles, every start, and any number of
files, commits, commands, kills and rebuilds, from `ContentsAssumption` and
`StartsAssumption`:

| Theorem | Statement |
|---|---|
| `Invariance` | `Spec => []IInv` |
| `TypeCorrect` | `Spec => []TypeOK` |
| `GroundedAuthority` | `Spec => []Grounded` |
| `EligibilityIsKept` | `Spec => EligibilityKept` |
| `ReceiptsDoSurvive` | `Spec => ReceiptsSurvive` |
| `RebuildsAreReported` | `Spec => RebuildIsReported` |
| `ImportSound` | what an import makes of any evidence the commands can leave |
| `ReachIsCovered` | in an import, what a chain of transformations reaches, a chain of one covers |

- Each stage of an import is a fold over a set of files. `FoldExists` shows that
  the recursion behind it has a solution, by a least size of subsets without
  one; `Folded` says of the result only that it is made by steps in some order,
  and `SubsetInduction` carries what one step keeps to the whole set (`Upserts`,
  `Lands`). So the theorems do not depend on the order in which the importers
  find the files.
- `DbSound`, the middle of `IInv`: an eligible row is a pass of declarations
  somebody vouched for and says of the prompt what its result file says
  (`RowSound`; without the second part a replay could take the authority of a
  row by weaker metadata); an edge keeps the declarations (`EdgeSound`); a
  binding is of declarations vouched for (`BindingSound`). None of these is
  inductive without `Evidence(files)`, since every import trusts what the files
  say.
- `Extended`: commands only add files, or mark a result as verified or an
  application as invalid. So what agreed with the files still does (`DbStays`),
  also for the database that a rebuild has in hand while commands go on.
- `TempInv`: the rebuild in progress shows the receipts of its inventory
  (`Shown`, `Adopted`), which no later stage takes back (`StillShown`), and has its
  required head covered.
- `ReachIsCovered`: the gate of a rebuild follows chains of any length
  (`Reach`), the status commands one edge. After an import they agree, because
  every transformation but a bridge ends at the MAT (`Landed`), and an edge from
  there keeps the bundle. It is a statement about imports: the live database also
  has the edges of review-apply to toy outputs, where the two may differ.

The contract of an accepted answer (`ReviewContract`, at the end of
`ReviewLoopProofs`) and `TaskCatalogProofs` are about operators, for all
arguments:

| Theorem | Statement |
|---|---|
| `OnlyACoveredPassPromotes` | the outcome `pass` comes only from an independent answer to this request, with the frozen bytes, that judges every evidence class and every direct consumer |
| `TaskPassIsEarned` | the task status `pass` has a pass verdict and only classes the role of the task admits |
| `BuiltCatalogIsValid`, `CordisCatalogIsValid` | what a builder accepts passes `validate_catalog`, if `FamilyIdsApart` |
| `SupportHasOneOwner`, `PathHasOneTask` | owners and tasks of modules are unique |
| `UnifiedMigrationsAreVacuous` | the migration check of second version policies cannot fail |

`FamilyIdsApart` is the hypothesis the code does not check; `CatalogChecks` shows
by example that it is needed. That the longest owner of a support module exists
(`LongestOwner`) follows from the well-foundedness of `<` on the naturals.

Only model-checked:

- `LoopSettles`, the one liveness property: fairness and `ENABLED` are beyond
  the provers installed here. Every other property of a run that passes is a
  theorem.
- The assumptions of `CatalogChecks`, `PackChecks` and `MCReviewLoop` that no
  theorem states. That the last entry of a list is what the code's dictionary
  keeps, and that canonicalization is idempotent, are of this kind.

There is no RECURSIVE operator.

## 5. Running

    tlc -workers 2 -config StagedBuild.cfg MCStagedBuild
    tlc -workers 2 -config ReviewApply.cfg MCReviewApply
    tlc -workers 2 -config CampaignLedger.cfg MCCampaignLedger
    tlc -workers 2 -config ReviewLoop.cfg MCReviewLoop
    tlc -workers 2 -config BatchRunner.cfg MCBatchRunner
    tlc -workers 2 -config BasisRebind.cfg MCBasisRebind
    tlc -workers 2 -config StateRebuild.cfg MCStateRebuild
    tlapm StagedBuildProofs.tla
    tlapm ReviewApplyProofs.tla
    tlapm CampaignLedgerProofs.tla
    tlapm ReviewLoopProofs.tla
    tlapm BatchRunnerProofs.tla
    tlapm BasisRebindProofs.tla
    tlapm StateRebuildProofs.tla
    tlapm TaskCatalogProofs.tla

The longest run takes two to three minutes. The configurations named after a
finding (`StagedBuildRace`, `ReviewApplyFailedBuild`, ...) are meant to end in a
counterexample.

## 6. Not modelled

- The legacy JSON ledger backend: SQLite replaced it, and it is only imported.
- Proof obligations and obligation tasks: retired; `apply_obligation_review` has
  no caller. Prompts of the old versions are covered by `ReviewContract`.
- Pack generation and pack views, soft dependency packs, output binding,
  diagnostics of a changed basis, workspace reports: they write or read texts and
  no authority depends on them.
- Runs, integrations with their claims, and dependency pins of the state store:
  only tests claim, finish or pin.
- The event table and datasets of the state database, snapshot export.
- The one-off audit tools under `tools/`: they read and print.
- The REPL, subprocess handling and time-outs of the Lean driver: a build passes
  or fails on the bytes it is given.
- Two commands that write the attempt history at the same time (described in
  section 2).
