# ExamMem in TLA+

A verification project for the learning-memory core of ExamMem (`exam_mem/`),
the requests of its plugin that use it (`deeptutor_plugins/exam_mem/`) and the
turn runtime of the host it runs in (`deeptutor/`): how an answered question
becomes evidence, how evidence becomes the current learning state, how that
state is projected, corrected and taken back, how a practice request survives
failures on the way, how assessments open and close their attempts, and how a
turn streams to its viewers. The modules are translated from the source;
`PROJECT.json` names the lines behind every definition.

## 1. The system

ExamMem is a plugin of a neutral host (DeepTutor). Its facts live in one
PostgreSQL database, in three layers.

| Part | State | Operations | Hard behaviour |
| --- | --- | --- | --- |
| L1 events (`storage/event_repository.py`) | `learning_events` | idempotent append, paged read | duplicate inserts wait; `created_at` is the start of a transaction, not its commit |
| L2 memories (`storage/memory_repository.py`) | `learning_memories`: per slot an append-only chain of versions | insert a version, compare-and-set of a row, archive | concurrent writers at READ COMMITTED; unique version, partial unique active row |
| Lifecycle policy (`lifecycle/state_machine.py`, `policy_v1.py`) | none, pure | decide: ADD, NO_OP, MERGE, SUPERSEDE, INVALIDATE, CONTESTED, or raise | thresholds; what an exception means for a retry |
| Applier (`lifecycle/applier.py`) and backend (`backends/lifecycle.py`) | `lifecycle_decisions`, `memory_change_log` | record, decide, apply, recompute after a stale write, give up | reads before locks; bounded recomputation; identity of decisions |
| Corrections (`practice/corrections.py`) | none | a confirmed correction event of a displayed row | the row may have changed since it was displayed |
| Practice workflow (`practice/workflow.py`, checkpoints) | `practice_workflow_checkpoints` | start, grade, map, diagnose, write, refresh, complete or recommend | handlers that crash, retries, two handlers on one request |
| L3 projection (`storage/rebuild.py`, `projection.py`) | `student_model_snapshots` | rebuild: read L1, read L2, clear, save | overlapping rebuilds; L1 and L2 read at different instants |
| Compensation (`lifecycle/compensation.py`) | none beside L2 and the audit | plan and apply the restore of a chain tail | the tail may move between the operator's reading and the write |
| Assessments (`storage/assessment_repository.py`, plugin `api.py`) | `assessments`, `assessment_versions`, `assessment_attempts` | generate and repeat a version, answer, resume, archive, restore; start, fail and complete an attempt | requests of several transactions with a turn of the host between them |
| Grade reviews (`storage/grade_review_repository.py`, plugin `api.py`) | `grade_review_events`, append-only chains | dispute, uphold, overturn | decided on a chain read in an earlier transaction |
| Turn runtime of the host (`services/session/turn_runtime.py`, `sqlite_store.py`, `runtime/orchestrator.py`, `core/stream_bus.py`, `api/routers/unified_ws.py`) | turns, turn events and messages in SQLite; executions, queues and subscribers in the process | start, regenerate, cancel, reply, recover, subscribe, resume, delete | tasks cancelled at any await, lost connections, restarts |
| Plan transitions, observations, study plans | tables of their own | append-only writes | not modelled, see section 7 |
| Retrieval, recommendation, profile, taxonomy, LLM adapters, the rest of the host, web | none of their own, or none that the above depend on | pure functions, read models, adapters | not modelled, see section 7 |

An answer travels: WebSocket -> turn of the host -> workflow -> grader, mapper,
analyzer (LLM calls) -> `TransactionalPracticeMemoryWriter.write`, one
transaction over L1, the slots of L2 that the diagnosis names, and the audit ->
checkpoint -> `refresh_after_commit`, one transaction over L3 -> checkpoint ->
recommendation -> result of the turn -> the attempt is completed. The parts of
ExamMem meet only in the database; a handler may stop between any two of these
transactions.

What makes the parts correct: L2 loses no evidence and has one active row per
slot; a dispute stays one the policy can go on with; no write leaves a state in
which the next one raises; an event is settled once, and the audit says how; a
change of a slot is one step for everybody else; a checkpoint never claims what
did not happen and is never undone; readers of L3 see what L2 counts; an attempt
ends once and for a reason; a turn has one runner, one outcome and one DONE, and
its viewers miss nothing.

## 2. The modules

| Module | Models | Composes |
| --- | --- | --- |
| `EvidenceLedger` | the abstract promise of the write path: an event is recorded once, and in that step counts as evidence or never will | - |
| `MasteryPolicy` | `decide_lifecycle` with `lifecycle_policy_v1`, shape check and replacement rules, as pure operators | - |
| `LifecycleStore` | L1, one slot of L2, the audit, and the concurrent transactions that write them | extends `MasteryPolicy`; implements `EvidenceLedger` |
| `Compensation` | restores of chain tails beside the writers of `LifecycleStore` | extends `LifecycleStore`, uses its applier steps |
| `SlotLocks` | row locks, savepoints, deadlocks and retries of transactions over several slots | justifies the atomic steps of `LifecycleStore` (`ChangeIsOneStep`) |
| `PracticeWorkflow` | requests of one session, their checkpoints, crashes and retries | uses the actions of `EvidenceLedger` as its memory |
| `ProjectionRebuild` | rebuild transactions of L3 over a moving L1 and L2 | - |
| `Assessments` | versions and attempts of one assessment, the requests around practice turns | abstracts `PracticeWorkflow` to the checkpoints it saves |
| `GradeReviews` | the review chain of one grade beside the requests of `Assessments` | extends `Assessments` and implements its `Spec` |
| `TurnRuntime` | the turns of one chat session: runner, capability, requests, viewers, restarts | - |
| `...Proofs` | proofs | extend the module they are about |
| `MC...` | small instances for TLC | extend the module they instantiate |

`EvidenceLedger` is the joint of the write path: `LifecycleStore` is shown to
implement it, and `PracticeWorkflow` is built on it, so that the workflow is
checked against what the write path guarantees and not against one slot of it.
`TurnRuntime` is independent of the others: what a turn is about is left out of
it, and the workflow and the assessments rely on no more than that a turn may
stop anywhere.

### LifecycleStore and MasteryPolicy

A row is named by its version in the slot, an event by the order in which its
author issued it, which is the order of `occurred_at`: `SubmitAnswer` and
`SubmitCorrection` issue, and a writer records any issued event at any later
time, so late, repeated and reordered writes are all there. `from` is
`valid_from`, `rv` is `row_version`, `by` is `superseded_by` as a version,
`group` is `contested_group_id` (0: none), `prov` is the provenance.

A transaction of a writer is: `Begin` (append to L1, read the history),
`DecideFirst` (snapshots, relation, decision, `append_decision`),
`ReadVersion` (`next_version`), and one of `Add`, `Replace`, `Invalidate`,
`Contest`, each from its first row lock to COMMIT; or `NoticeStale`, then
`Recompute` or `GiveUp`; or `ReplayApplied`; or `Abort`, which stands for every
exception, deadlock and crash. Each step reads the rows as committed at that
moment, as READ COMMITTED does. Steps under row locks are one action because no
other writer of the slot can change the locked rows in between.

Support scores are integers: confidences and thresholds are percentages, and an
event's weight is its difficulty factor times its error factor times its share
of the time decay. The decay of the source is `2^((occurred_at - evaluated_at) /
half-life)`; the part with `evaluated_at` is common to all events of one
evaluation and cancels in the two ratios that the gate compares, so the decision
does not depend on it and the model needs no clock. Rounding of floating point
numbers at an exact threshold is not modelled.

### Compensation

`trail[e]` is what the decision of event `e` changed, row by row before and
after (`append_changes`). `Compensate` is plan and the first half of apply: the
source must have been a merge, supersede or dispute with one prior active row,
what it left open must be all that is open and end the chain, and the decision
is a supersede of all that, taken without the policy and with no recomputation
left. The rest of apply is the applier's own and reuses the actions of
`LifecycleStore`. The confirmation token becomes the transaction that planned:
every caller in the repository applies under the token of its own plan.

### SlotLocks

`LifecycleStore` takes a change of one slot as one step, from the first row lock
to COMMIT. `SlotLocks` asks whether the code may be read like that, and what
happens when a transaction writes several slots. A slot is the number of changes
it has seen (`changes`); an event has its slots in the order of its diagnosis
(`order`); a decision becomes a `plan` of row locks and one compare-and-set, in
any of the orders the operations take (`Plans`, `Scans`). A stale row
rolls the savepoint back with the locks taken in it (`Recompute`, `GiveUp`), a
filled slot where none was read is a conflict and rolls all back, and of writers that wait for
each other in a ring one is refused (`Deadlocked`) and sent again.

### PracticeWorkflow

`cp[k]` is the checkpoint of the request with key `k`, `rv` its row version
(0: no row). A handler (`runner`) holds the checkpoint it read (`hand`) and the
write result it has not stored yet; every step either passes its
compare-and-set (`Advance`) or returns the stale error. Between `WriteEvent` and
`SaveWrite`, and between the commit of a refresh and `SaveRefresh`, a handler may
`Fail`. A refresh is two steps, `BeginRefresh`, which reads L2, and `CommitRefresh`,
which replaces L3 by what was read, so the rebuilds of two handlers can overlap. `history` remembers what L1 held when an event was decided, because the
repetition of a write that L2 does not hold is answered from its recorded
decision only when the decision would be taken on the same history
(`Answered`). The opening request and the answers share the actions.

### ProjectionRebuild

A job per event: the refresh its handler owes. It reads L1 in pages
(`ReadPage`), then L2, deletes the stored snapshots in two steps (the statement's
snapshot, then the wait for rows other transactions have deleted) and saves. A
snapshot is the pair of what it was built from, and its identity the pair of
watermarks. A collision of identities, an untraceable memory and any outside
failure roll the rebuild back and leave it owed.

### Assessments and GradeReviews

A handler (`job`) is one HTTP request: it reads (`ReadAssessment`,
`ReadVersion`), inserts (`InsertVersion`, `InsertAttempt`), runs a practice turn
of the host (`SaveCheckpoint`, `EndTurn`, `FailTurn`) and then fails or completes
the attempt of its session, each in a transaction of its own; it may `Crash`
between any two. `sees` is the latest version it read under the row lock (0: there
was no row to lock, so nothing is locked and the primary key decides).
`practice[s]` is the number of the last checkpoint begun and the last finished:
what lies between the two is `PracticeWorkflow`. `GradeReviews` adds the chain of
review events of the first grade of one practice; `Dispute` asks nothing of the
chain, `Dispose` decides on the chain it read, and `AppendDisposition` is a later
transaction.

### TurnRuntime

A turn is three things that move separately: `row`, its status in the store;
`runner`, the `_run_turn` task, whose `pc` names the await it is at; and `cap`,
the capability, a second task whose events reach the runner through `bus`. All of
it is one event loop, and the manager's lock is not held across an await, so a
step is what runs between two awaits: an operation of the store, which its own
lock makes atomic, and the code after it. A cancellation strikes at an await, and
the operation awaited has then taken effect or not (`Interrupt`); a second one
leaves the cancellation handler for good (`Unwound`). Requests (`op`) are
sequences of such steps too, so that between the look for a running turn and
`create_turn` everything else may happen. A viewer goes through
`subscribe_turn`: the stored backlog, registration together with what the
process still holds, the queue, a catch-up from the store, the status, the
DONE that is made up when none was seen; it may `Leave` and `Resume` from its
last seq. `Restart` keeps the store and nothing else. `published` and `kept` are
what the properties need to remember.

## 3. What the runs check

The passing runs (bounds in the `.cfg` files):

| Run | Question and bounds |
| --- | --- |
| `StoreAnswers` | two writers, four events, two recomputations, confident answers of both verdicts and a low-confidence one, which changes nothing by itself and weighs in later decisions. `EvidenceCarriedForward`, `DisputeWellFormed`, `NextAnswerDecidable`, `AppendOnly`, `ImplementsLedger`, `TypeOK`. Two writers and four events suffice for a row that is created, disputed, superseded and raced for, and for a recomputation that meets a second competitor. The writers are symmetric and no property names one. |
| `StoreCorrections` | answers, confident and uncertain corrections of any row that was ever displayed, and compensations of any chain tail, with one recomputation. `OneActive`, `AuditMatchesMemory`, `VersionTellsRow`, `TakesBackItsSource`, under the same symmetry. |
| `StoreThresholds` | one writer, five events, two events of two sessions demanded, answers of unequal weight and confident denials of any row: `StandingJustified`. Five events suffice for a direction to win, and for the other to win back. The confidence gate does not bind here (80 and 100 against 70); the theorem has it for any. |
| `SlotLocks` | two writers, three slots of which one is filled, one recomputation, every order of slots and locks. `ChangeIsOneStep`, `TypeOK`, and `WritesSettle` under fairness. Two slots suffice to deadlock over; the third is one that holds a row already, where a stale read is a recomputation and not a conflict. |
| `WorkflowRaces` | two handlers, the opening request and two answers to its question, one failure at any point; grader and analyzer may answer every call otherwise. `EventMatchesCheckpoint`, `CheckpointBacked`, `RefreshedIsProjected`, `ProgressKept`, `TypeOK`, and `RequestsComplete` under fairness. |
| `RebuildRaces` | three concurrent rebuilds, pages of two, one failure: `SerialIsCurrent`, `StaysReadable`, `ModelKeepsEvidence`, `TypeOK`, and `RefreshesDrain` under fairness. |
| `AssessmentRaces` | two handlers, two sessions of which one is resumed again and again, one question, two versions, two review keys and requests. `CompletedIsFinished`, `ArchivalEndsGenerated`, `AttemptsEndOnce`, `ReviewTypeOK`, and `FinishedIsSettled` under fairness. Two sessions and handlers let a generated and a repeated version race with each other and with an archival. |
| `TurnSession` | two turns, two connections (symmetric), two cancellations of a turn and one restart, without events: `OneRunning`, `LiveIsRunning`, `EndedIsSettled`, `TypeOK`. |
| `TurnStream` | one turn with one event of work, one question, one reply, one cancellation, deletion and restart, and one viewer that leaves and resumes: `WorkKept`, `InOrder`, `DoneOnce`, and `ViewersFinish` under fairness. |

Every property has a mutant in `PROJECT.json`: a definition of the model changed
as a plausible bug would change it (the operators commented "Faulty variant"),
under which TLC finds the property violated in the same run.

Three runs record where the code differs from what its documents, comments or
tests say; each checks one property and TLC finds it violated:

| Run | What it shows |
| --- | --- |
| `StoreDisputedCorrection` | a confident correction of the active side leaves the contested branch without a rival in its group; the policy raises for every later answer of the slot |
| `TurnWorksOn` | the capability of a cancelled turn goes on working beside that of the next turn |
| `DisputedTwice` | a second dispute of the same grade is accepted and closes the review to every disposition |

### Known divergences

Where a safety property is stated with an exception, the exception is one of these;
those of the liveness properties are in section 4. They follow from the models and
from reading the source.

- An answer that is written after a later one of its slot raises in
  `score_mastery_event` on every retry (`lifecycle/policy_v1.py:158`).
  `NextAnswerDecidable` therefore is about answers later than every recorded one.
- A correction in L1 makes the scoring of every later answer raise that contradicts
  its slot
  (`resolve_mastery_evidence_direction`). `StandingJustified` and
  `NextAnswerDecidable` are about slots without corrections.
- The bound of recomputations is not the only way a stale write gives up: when the
  relation's target is no longer among the candidates it does so at once
  (`lifecycle/applier.py:281`).
- A handler that stops between the memory commit and its checkpoint loses the
  refresh: the repeated write is answered as a replay without projection requests,
  and the checkpoint then calls the projection refreshed
  (`practice/workflow.py:525`). It happens without a crash too: of two handlers of
  one answer the second may have its write answered as a replay and store that
  first, and the first, whose write it was, then fails as stale. The runbook
  (`docs/exam_mem/runbook.zh-CN.md:361`) says a pending projection stays open until
  the checkpoint's recovery has completed the refresh. `RefreshedIsProjected` speaks
  of checkpoints that stored a change.
- Of two overlapping rebuilds, the one that read less may commit last and stay
  (`practice/provider.py:171`), and takes out of L3 what the other had put in, while
  its checkpoint says refreshed. With the rebuilds of two handlers and two answers
  TLC finds this too when the exception of `RefreshedIsProjected` is dropped.
  `SerialIsCurrent`, `ModelKeepsEvidence` and `RefreshedIsProjected` except overlaps.
- A retake can be in progress in an archived assessment: `repeat_assessment` reads the
  version without a lock (`deeptutor_plugins/exam_mem/api.py:1195`), and the archival
  may commit between that read and the insert of the attempt. The runbook
  (`docs/exam_mem/runbook.zh-CN.md:381-382`) says that until it is restored an archived
  assessment cannot be answered, resumed, retaken or given a new version. The
  retake's first turn is run; its answers are checked against the archive again. An
  answer or a resume that passed its own check before the archival runs on as well.
  `ArchivalEndsGenerated` is about the attempts of generated versions, and says
  nothing of retakes.
- A compensation of a decision that opened a dispute closes both sides, but the
  row it adds has the contested branch's value and not the earlier one, because the applier
  takes that branch for the value of every mastery supersede with a contested
  target (`lifecycle/applier.py:773`). `TakesBackItsSource` excepts those.
- A second cancellation while the first is handled leaves the row running until
  the next request calls it an orphan (`services/session/turn_runtime.py:1889`).
  `EndedIsSettled` and `WorkKept` except it, and the first also a cancellation that
  meets the handling of a failure. Both leave out what a restart cuts off (the row is
  then an orphan, which the next start settles), and `WorkKept` a deleted session.
- The malformed dispute of `StoreDisputedCorrection` is also what the manual
  review queue refuses to list (`ContestedGroupInvariantError`).

## 4. Bounds, fairness and deadlock

`MaxEvents`, `MaxFailures`, `MaxRunning`, `MaxVersions`, `MaxReviews` and the
`Max...` of `TurnRuntime` bound the models and appear only in guards;
`MaxRecompute` and `PageSize` are parameters of the code. Properties that name no
fairness hold without any. What the liveness properties assume:

- `RequestsComplete`: a handler goes on with the request it holds (weak fairness
  of `Work`) and the client sends an unanswered request again (strong fairness of
  `Load`, because a handler is not always free). It does not assume that a handler
  never fails, only that failures are finitely many. It excepts requests whose
  write is refused as a conflict with its own record (`Refused`: the applier
  compares the whole input of a repeated decision, history included), and rests on
  a memory that never refuses a first write for ever.
- `RefreshesDrain`: a refresh that failed is tried again, which the checkpoint's
  pending requests make the client's retry do.
- `WritesSettle`: a transaction goes on, PostgreSQL gives a row to those who wait
  for it in turn (strong fairness of `Lock`) and detects deadlocks. The property is conditional:
  two clients that send their refused writes again at once can collide for ever, and
  the code has no back-off that would exclude it.
- `FinishedIsSettled`: handlers go on, and the learner of a `Persistent` session
  resumes it time and again and is not met by a failure every time.
- `ViewersFinish`: the event loop runs what is ready, and a capability that waits
  for nobody goes on, since every call it makes has a timeout. A turn that waits
  for its user's reply may wait for ever, so the property excepts it.

`NextAnswerDecidable` is about answers later than every recorded event, in slots
without corrections: an earlier answer and a correction in L1 are what the
scoring of the policy rejects (`score_mastery_event`,
`resolve_mastery_evidence_direction`).

Deadlock is checked where something can always be issued, begun or sent again
(the `Store` runs, `WorkflowRaces`, `AssessmentRaces`, `DisputedTwice`). The
others may stop within their bounds and say so: in `RebuildRaces` learners may
stop answering with nothing left to refresh, in `SlotLocks` every write may be
done, and in the `Turn` runs every turn may have ended and every viewer closed.
That they stop nowhere else is what `RefreshesDrain`, `WritesSettle` and
`ViewersFinish` say.

## 5. What is proved

The TLA+ proof system checks these for every value of the constants that the
modules' named assumptions admit (`PolicyAssumption`, `StoreAssumption`,
`WorkflowAssumption`, `RebuildAssumption`, `SlotLocksAssumption`,
`AssessmentsAssumption`, `ReviewsAssumption`, `TurnAssumption`): any number of
writers, events, handlers, sessions, slots, turns and viewers, any contents and
thresholds. One theorem, `StandingJustifiedHolds`, has hypotheses of its own (below).

| Module | Theorems |
| --- | --- |
| `MasteryPolicyProofs` | `DecideOK`: whatever the policy decides names candidate rows, and exactly one where the applier takes "the" row of a set. The lemmas on slots of answers (`AnswerDecides`, `AnswerDecidable`), on sums and the gate (`MassGrows`, `MoreAgainst`, `OneWinner`) and on what a decision leaves standing (`AnswerStands`) serve the next module |
| `LifecycleStoreProofs` | `TypeCorrect`, `OneActiveHolds`, `EvidenceHolds`, `VersionTellsRowHolds`, `AppendOnlyHolds`, `AuditMatchesMemoryHolds`, `LedgerHolds` (the refinement `ImplementsLedger`); `DisputeWellFormedHolds` and `NextAnswerDecidableHolds`, as long as no correction is recorded in the slot; `StandingJustifiedHolds` |
| `CompensationProofs` | `TakesBackItsSourceHolds`, and for the write path with compensations `CompensationOneActive`, `CompensationEvidence`, `CompensationVersions`, `CompensationAudit`, `CompensationAppendOnly`, `CompensationLedger` |
| `SlotLocksProofs` | `TypeCorrect`, `ChangeIsOneStepHolds` |
| `PracticeWorkflowProofs` | `TypeCorrect`, `EventMatchesCheckpointHolds`, `CheckpointBackedHolds`, `RefreshedIsProjectedHolds`, `ProgressKeptHolds` |
| `ProjectionRebuildProofs` | `TypeCorrect`, `StaysReadableHolds`, `ModelKeepsEvidenceHolds`, `SerialIsCurrentHolds` |
| `AssessmentsProofs` | `CompletedIsFinishedHolds`, `ArchivalEndsGeneratedHolds`, `AttemptsEndOnceHolds`; of grade reviews `ReviewTypeCorrect`, `ReviewsImplementAssessments` |
| `TurnRuntimeProofs` | `TypeCorrect`, `OneRunningHolds`, `LiveIsRunningHolds`, `EndedIsSettledHolds`, `InOrderHolds`, `DoneOnceHolds`, `WorkKeptHolds` |

Every proof has the same form: an inductive invariant `IInv`, one lemma per
action that it is kept, and the properties from it. Why the invariants are what
they are:

**LifecycleStore**: full types (`TypeInv`), `OneActive`,
`EvidenceCarriedForward`, and `DecidedOK`. The last is what makes the others
inductive: while a transaction holds a decision, the rows it was decided on
exist, their row versions have only grown since, an equal row version means an
equal row (`SnapshotsOf`), and the decision is one `DecideOK` allows. So when a
compare-and-set matches, the targets are the rows that were read, and the
provenance computed from the snapshots is that of the rows; that is why no
evidence is lost. Other writers preserve `SnapshotsOf` because every action only
extends the chain and raises the row version of what it changes (`GrowsTo`,
lemma `SnapshotsKept`). There is one lemma per action (`AddStep`, `ReplaceStep`,
...), joined in `WriterStep` and `NextInv`. `AppendOnlyHolds` follows from
`GrowsTo` for every step. `LedgerInv` adds `FreshOK`: as long as an event is not in
L1, one transaction at most works on it and holds its insert, and a transaction
that has decided holds one. So every step either leaves both layers' evidence alone
(`LeavesLedger`) or commits its event for the first time and settles in it whether
L2 counts it (`Settles`); the truth of the audit and the refinement of
`EvidenceLedger` follow from these two cases.

**Disputes**: `DisputeInv` adds to `LedgerInv` what rows look like that only answers
wrote (`AnswersWrote`): values are one of the two extremes, from the first row on one
is active, a branch has it as its rival in a group of their own, and the active row
has a group exactly when there is a branch. The last is the strengthening the proof
needs. A transaction compares and sets the rows it names, and when it supersedes or
merges on a snapshot without a branch it names the active row alone; opening a
dispute gives that row a group and a new row version, so the compare-and-set tells it
of a branch it never read. Every decision on such rows takes one of a few forms
(`AnswerDecision`), and what it does to them is one of three lemmas: a row is
`Continued`, all that is open is `Ended`, a dispute is `Opened`. The theorems hold
while `Uncorrected` holds: no correction is in L1 yet, though corrections may be
issued and in flight. That is the boundary, as the run `StoreDisputedCorrection`
shows: one correction of the active side leaves a branch without a rival. Where
`CorrectionKinds` is empty the condition falls away (`AnswersDisputeWell`,
`AnswersDecidable`).

**The value left standing**: `StandingInv` says that nothing active is overdue
against L1, and that the decision in flight will leave nothing overdue against L1 with
its event. Its hypotheses are those under which the code promises it: a sole writer
(`SoleWriter`), since support is counted over a history read before the snapshots,
and no compare-and-set guards a history; a margin above zero (the frozen
configuration has 0.15), since both sides of a tie would be stable without one; and
`AllMutating`: what is recorded are answers that were decided on, since a
low-confidence answer stays L1-only by itself, weighs in the support, and so can
make the other side stable without a decision. None can be spared: TLC finds a
counterexample of four events when any one of them is dropped. For a sole writer the snapshots it
holds are the rows that are there, so `NoticeStale` never happens (`NeverStale`). The
policy's part is `AnswerStands`: an evaluation replaces the active value exactly when
the other direction is stable, at most one direction is (`OneWinner`), and a
duplicate only adds mass to the side that stands (`MoreAgainst`). Masses are folds
over sets; that their order does not matter is proved from the library's
well-founded ordering of finite subsets (`SumUnique`, `SumSplit`, `SumExists`), since
induction theorems with an operator parameter cannot be used.

**Compensation**: `CompensationInv` is `LedgerInv` with `TrailOK`, `PlansOK`,
`InFlightOK` and `ClosedOnce`. What a source changed and what a plan takes back is
recorded once and never changes (`Keeps`). A compensation in flight keeps its first
decision, because it allows no recomputation: it applies as planned or fails. An
applied one is a replacement of exactly what the source left open; a closed row never
opens again, so a second compensation of one source finds nothing it can match.
`LedgerInv` is proved again for the larger next-state relation, with one more
commit per lemma.

**SlotLocks**: `WriterOK` says of one transaction what it may rely on: idle and
finished ones hold nothing (`Clean`); the slots it has changed lie behind it in its
order, so that rolling a savepoint back gives up none of their locks (`Behind`); it
compares only what it has locked (`LockedFirst`); it keeps a lock on every slot it
has changed (`KeepsLock`).
Two writers cannot both keep the lock of one slot, and that is `ChangeIsOneStep`.

**PracticeWorkflow**: `CheckpointsOK`, `LedgerOK` and `RunnersOK`. What a handler
holds is the stored checkpoint or an earlier one, and the same one when the row
version is the same (`Earlier`), so a compare-and-set that matches is one of what was read; its
claims about memory and projection are true (`Sound`) and stay so, because memory
only grows and so does the projection while no two rebuilds have overlapped: then
one handler rebuilds at a time (`OneRebuild`), and what it has read of L2 holds all
that L3 holds.

**ProjectionRebuild**: `ReadsOK`: what a rebuild holds of L2 is backed by what it
holds of L1 and still counted, and so is every stored snapshot. `Serial` holds while
no two rebuilds have overlapped: the one that runs started after everything that
is stored, it has read all that a stored snapshot was built from or will still read it
(`Includes`: a page holds the oldest events after the watermark, so what is recorded
already is in this page or in a later one), what it did not read of L2 is owed a rebuild of its own, and what is
counted and owed nothing is shown to readers. That the latest snapshot is one
particular row needs a maximum of a finite set, which the module proves from the
library's well-founded orderings.

**Assessments**: the begun and finished checkpoints stay in step with the handlers
(`TurnsInOrder`), a version belongs to its author's attempt (`AuthorsAttempt`,
`VersionsExist`), a handler under the row lock has the assessment open
(`LockKeepsOpen`), and one that is about to complete has a finished practice
(`ClosesFinished`). `ArchivalEndsGenerated` rests on the lock: who generates a version
holds the row from its read to its insert, so the archival comes before the read,
which refuses it, or after the insert, and ends its attempt. `GradeReviews` has a chain
with one event per key; `ReviewsImplementAssessments` maps every step to one of
`Assessments` or a stutter, so its theorems carry over.

**TurnRuntime**: types, `InTurn` (turns are created one after the other),
`AtMostOne` (`OneRunning`), and for every turn `RowOK` (status and runner agree),
`UpsetOK` (what cancellations and failures have left to do), `EventsOK` (which
events are published at which await, so DONE is published once), `AnswerOK` (a
message holds the visible work from the save on); `OpsOK` for the requests (what
a handler is about to settle was found without a runner, and a turn without a
runner never gets one again), and `ViewsOK` for the viewers: what a viewer has got, followed by
its queue, are exactly the first events of its turn.

Only model-checked: the liveness properties (`RequestsComplete`, `RefreshesDrain`,
`WritesSettle`, `FinishedIsSettled`, `ViewersFinish`), since liveness under fairness
is out of the prover's reach. Every other property of the passing runs is both
checked and proved. Those of `LifecycleStore` that compensations could disturb are
proved for `CompensationSpec` too; `DisputeWellFormed`, `NextAnswerDecidable` and
`StandingJustified` are about slots that only answers wrote, and are proved for
`Spec`.

## 6. Plan

Done: the write path with its locks, policy, corrections and compensations, the
workflow, the projection, assessments and grade reviews, and the turn runtime,
with the proofs of section 5. What would come next, in this order:

1. `PlanTransitions`: plan slots, their policy (`_decide_plan`) and the races of two
   transitions of one plan; `ErrorPatternPolicy`: `_decide_error_pattern` with the
   relation as a nondeterministic choice.
2. `CronScheduler` and the knowledge-base manager of the host: job claims, retries
   and index versions.
3. `Observations`: confirm and withdraw beside each other.

## 7. Not modelled

Within the modelled parts: text and layout (identifiers, traces, reasons,
localisation); embeddings and similarity search; the contents of questions,
diagnoses, recommendations and chat turns, which are nondeterministic choices of
their type; scope and slot grammar, since a model is of one learner. PostgreSQL is
modelled from how the code uses it: READ COMMITTED statements, row locks held to
COMMIT, unique indexes that make a competing insert wait and fail, savepoints,
deadlock detection, and rollback of a transaction that ends otherwise. SQLite and
the event loop are modelled from how the session store uses them: one operation at
a time, and steps between awaits.

Left out as parts:

- plan transitions and error-pattern slots: they use the write path modelled
  here, with policies of their own (a table of plan states that unit tests
  enumerate; a floating-point similarity and an LLM relation);
- learning observations, baseline backends of the experiments, the manual review
  queue: single keyed inserts, appends, and a read-only listing;
- retrieval, recommendation, profile, read models, taxonomy: pure functions and
  views without state of their own;
- graders, analyzers, mappers, the relation classifier: LLM adapters, which may
  return anything of their type or fail;
- study plans, textbooks, grounded learning: versioned imports whose version and
  archive rules repeat those of assessments;
- the host's agents, knowledge bases, document indexing, tools, channels, cron
  scheduler and settings: most of the repository's lines, mostly prompts and I/O.
  The cron scheduler and the knowledge-base manager have state machines of their
  own that do not touch ExamMem;
- web client and evaluation harness.
