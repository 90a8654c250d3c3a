# PreviouslyOn in TLA+

PreviouslyOn records what happens in Codex sessions as a local log of canonical
events, projects tasks, facts and contract evaluations from it, and hands a
prompt over to a fresh Codex task when a session has grown too long.  There is
no server that serialises anything: hook processes, a daemon started on demand,
a review server, rollover workers and command-line tools share one data
directory, a SQLite file, a file lock, a socket and a few JSON files.  Each of
them may be killed at any time.  That is what these modules are about.

Paths below are relative to `src/` of the repository (`continuation.rs` is
`src/src/continuation.rs` in `PROJECT.json`).

## 1. Inventory

| Component | State it keeps | Operations | Talks to |
|---|---|---|---|
| Continuation worker (`continuation.rs`) | its operation's events: pending, thread_created, started, failed | attempt, reuse, recover, refuse, record failure | event store, Codex App Server, MCP server that starts it |
| Event store and projections (`store.rs`, `store/projection.rs`) | canonical events with unique `event_id` and `dedupe_key`; tables computed from them | insert, list, rebuild | everybody |
| Store operations (`store/operations.rs`) | grouping, fact-refresh and agent records | claim, review, observe | store |
| Maintenance (`store/maintenance.rs`, `store/private_fs.rs`) | journal, tombstones, lock file | purge, recover, reactivate, retention, export | store, queue files |
| Hook delivery and daemon (`hook.rs`) | socket, fallback queue, replay file, disk reserve | send, retry, queue, serve, replay, shut down | store |
| Ingestion and policies (`hook/ingest.rs`, `hook/continuation_policy.rs`, `hook/contract_policy.rs`, `hook/tool_evidence.rs`) | suggestion claims, contract evaluations | suggest, rearm, evaluate, block a stop | store, git |
| Task grouping (`grouping.rs`) | grouping operations | move, undo | store |
| AI fact refresh (`ai_refresh.rs`) | operation life cycle, candidates | start, record, recover, review | App Server, store |
| Contracts engine (`contracts.rs`) | contract documents of the checkout | parse, match, fingerprint, evaluate, approve, supersede | files |
| App Server client (`app_server.rs`) | request ids, deadlines | connect, thread and turn requests | Codex |
| MCP server, review server (`mcp.rs`, `server.rs`, `server/bootstrap.rs`) | in-memory jobs | requests | store |
| Setup (`setup.rs`) | manifest, backups, setup journal | install, uninstall, recover | Codex files, store |
| Configuration and CLI, git, context pack, graph, diagnostics, redaction, bounded I/O, domain types | none | pure or I/O | |

What is hard here, and what makes each part correct:

* **Continuation worker.**  Several workers may run for one prompt, requests may
  be accepted with the answer lost, and a grouping operation may change what a
  worker sees of the past.  Correct: at most one thread and one turn per prompt,
  each thread on record before it is used, truthful answers.
* **Maintenance.**  A purge is a sequence of durable steps, any of which may be
  the last, while writers keep arriving.  Correct: purged data that the program
  reads again does not survive or come back without something left that deletes it;
  other repositories lose nothing but what retention drops; an accepted purge is
  completed.
* **Hook delivery.**  Late answers, retries, overlapping replays, full disks.
  Correct: an event whose hook succeeded is not lost; a hook always ends; what
  was queued is ingested.
* **Store, projections and grouping.**  Events arrive out of order; a grouping
  operation is previewed and claimed later; old events are dropped.  Correct: the
  tables are those of a replay of the log; a grouped session stays where the user
  put it; no event becomes impossible to project, unless it is an operation another
  one overtook; a pin survives retention, grouping and late events.
* **Policies.**  A suggestion or a stop block is claimed before it is shown, and
  hooks are ingested late or twice.  Correct: shown at most once, open again if
  nobody can have seen it; readiness rests on tests of this very content.
* **Fact refresh.**  Requests and servers race for one operation, and windows for
  one candidate.  Correct: one thread per operation, one verdict per candidate, an
  outcome that is final.
* **Contracts.**  A review writes a file and then an event, and either may fail.
  Correct: what is approved is in the checkout; what is superseded has a successor.
* **Setup.**  Several files behind a journal, edited by the user as well.  Correct:
  all or nothing, and what the user wrote stays.

`PROJECT.json` lists each hazard at its line.  A hazard that no property covers,
or that goes wrong, has a note.

## 2. Modules and the code

### `Handoff` and `Rollover`: the continuation worker

`Handoff` is the promise: a thread is created at most once, the prompt runs only
then, and "Started" is told only once it runs.

`Rollover` is the worker, one action per store transaction or App Server request
of `execute_automatic_rollover_with_program`.

| Specification | Code |
|---|---|
| `log[s]` | operation event with deterministic id for status `s` and the thread it names |
| `Insert` | `append_operation_event`: the first insertion wins, a later one is a duplicate |
| `Begin`, `Scan` | `list_task_events`: one query, then one look-up of the session's current task per event |
| `ReuseStarted`, `ReuseFailed`, `Recover`, `RefuseDuplicate`, `Claim` | the decision that follows, in the code's order |
| `Prepare` ... `Finish` | the handoff: preflight, thread/start or thread/resume, record, link, turn/start, record |
| `StartThreadUnanswered`, `StartTurnUnanswered`, `CallFails` | request accepted without an answer, request failed |
| `Die` | kill, or an error of the store |
| `MoveSession` | a grouping operation or its undo |

The App Server is external: it creates a thread or accepts a turn, with or
without the answer arriving.  Whether it drops a repeated `clientUserMessageId`
is not settled by this repository; `dedupes` is chosen at the start, and
`AtMostOneTurn` depends on it.

`Handoff` is refined under the mapping at the end of `Rollover`
(`created`: the thread in `threads`; `running`: some turn was accepted; `told`:
the answers in `pc`).

### `Purge`: deletion, recovery and the writers they race with

One action is one durable file operation, in the order of `purge_repository_with`,
`recover_purge_if_ready`, `replace_with_events` and `replay_fallback`.

| Specification | Code |
|---|---|
| `db` | canonical events of the database |
| `queue`, `replay` | the two queue files: no file, or a set of lines, each the whole record of an event or a part of it in a malformed record |
| `journal`, `tombstones`, `lock` | recovery journal, tombstone files, the lock on the maintenance file |
| `copy[p]`, `orphans` | the compacted database `p` is filling, and the temporary files that processes left behind |
| `Capture`, `Insert`, `Queue`, `AppendTorn`, `Refuse` | an event of a hook: stored, queued, queued in part, refused by the gate |
| `Gated` | `ensure_repository_not_purged` |
| `StartReplay`, `CheckQueue`, `RenameQueue`, `OpenNew`, `IngestRecord`, `RefuseRecord`, `Unlink` | a replay, which takes the lock for the rename and for each insertion only, and unlinks its file by name |
| `StartPurge` to `Finish` | an explicit purge; `ReadJournal`, `StartRecovery` the recovery, which goes through the same steps |
| `PurgeQueue`, `PurgeReplay`, `RefuseFile` | one queue file: rewritten without the repository; with a malformed record in it, refused by an explicit purge and removed whole by a recovery |
| `ListRetained`, `StartRetention`, `CopyEvent`, `RefuseCopy`, `Swap` | the compaction of a purge or for retention: events are copied one by one into a new database, which then replaces the old one |
| `Die`, `Ends` | a kill or an error: the lock is free again, the temporary file stays |
| `Reactivate` | the end of an explicit setup |

A part of an event in a malformed record is not readable any more, but it is data of
its repository: it counts for what a purge must delete, and not for what others may
lose.  `overtaken` (a recovery took the lock with a journal that was no longer the
current one), `overlapped` (two replays ran at once) and `requested` (purges that were
accepted) are history variables.

### `Delivery`: hook, daemon, queue, replay, reserve

`HookStep` is `run_hook`; `Ingest`, `Acknowledge` and `AcknowledgeTooLate` are
the loop of `run_daemon`; `Start` to `Rearm` are `replay_fallback`, run by every
daemon before it looks at the socket and by `previously run codex`;
`ProbeSocket`, `UnlinkSocket` and `Bind` are how a daemon takes its socket path.
A file is the set of its intact records; `torn` says that the queue ends in a
fragment, behind which the next record is unreadable.  `reserve` and `full` are
the emergency file and the disk.  `overlapped` and `garbled` are history
variables for the two ways in which events are lost (section 6).  Loss of
written data by a power failure is not modelled: the code syncs the files and
directories it relies on.

### `Registration` and `Setup`: installation behind a journal

`Registration` is the promise: one repository is registered with Codex or none,
never half of one, and nobody takes over the registration of another.

`Setup` has one action per file operation of `setup.rs`: `ReadJournal` to
`RemoveJournal` are `apply_journal`, which a recovery and a run share; `Check` and
`Refuse` the refusals; `PlanInstall`, `PlanUninstall` the merge of what is there
with what setup manages; `Persist` the journal.  `hooks`, `config` and
`manifest` are the files: of a Codex file, the user's part and what setup manages
in it.  `EditHooks` and `EditConfig` are the user, at any moment; `Die` is a kill
between any two operations.  `wish` is what the user last wrote; `raced`,
`absorbed` and `overlapped` name the cases the code does not protect.

### `RefreshLifecycle` and `AiRefresh`: the opt-in fact refresh

`RefreshLifecycle` is what somebody who polls the record may rely on: pending,
thread_created, completed or failed, and then nothing more.

| Specification | Code |
|---|---|
| `log`, `Current`, `Status` | snapshots of operations; the projection keeps the one with the latest `updated_at` |
| `Ask` | `start_fact_refresh`: the verified pack is built and the operation named after it |
| `Claim` | `claim_ai_fact_refresh_operation`: first wins, under the lock |
| `CreateThread` ... `Settle`, `Fail`, `AppendFails` | the background task, with its 45 seconds and with a store that refuses an append |
| `Start`, `Interrupt`, `Serve` | `recover_interrupted_operations` of a server that starts |
| `Kill` | the server ends, and its tasks with it |
| `Review` | `review_ai_fact_candidate`: decided under the lock, with the fact it makes |
| `UpdateFact` | the edit of a fact, which changes what the next pack is |

### `Projection`: the log, its tables, grouping and retention

`tables` are the projections and `Apply` is `apply_projection` for hook events,
facts, edits of tasks and grouping operations; `Replay` is
`rebuild_projections_tx` and `Project` the choice between the two.  `Capture`,
`Resolve`, `Persist`, `AppendFact` are the ingestion of a hook event, which is
late whenever other steps come in between; `UpdateTask`, `UpdateFact`,
`Revalidate`, `UpdateSession` with `Write` are the handlers that read, change and
write without a lock; `Preview`, `PrepareUndo` and `Claim` are `grouping.rs` with
`claim_task_grouping_operation`; `Retention` is `apply_retention`.  `overtaken` and
`rejected` are history: the previews that were made before another operation was
claimed, and the events the store refused.  A refusal is a transaction that is
rolled back, and leaves everything as it was.

### `Suggestion`: advice that is shown once

`Send`, `GiveUp`, `AppendFallback` are the hook; `Ingest`, `ClaimSuggestion`,
`Acknowledge` the daemon; `StartReplay` to `RemoveFile` the replay.  `events` are
the claims and the generations of `continuation_policy.rs`; `RearmOf` is the
pending generation that `hook.rs:866` persists for an answer nobody received.
The delivery is that of `Delivery`, reduced to what a suggestion can tell apart.

### `Readiness`: required tests and the Stop hook

`evaluations` are the stored evaluations, `Observed`, `Carried` and `Known` how a
test result enters one and is carried to the next by fingerprint, `Ready` and
`Issues` what follows.  `FinishTest` and `Stop` are hooks, `Ingest` an ingestion by
daemon or replay and `Append` its transaction; `Edit` and `EditContracts` are
anybody's edits.  Evaluations of documents that
cannot be read have one row for each stop: when a stop is ingested again, `Store` keeps
either the row that was there or the new one.  `passed`, `blocks` and `forgotten` are
history: what was tested, what Codex was told, and that a block lost its row.

### `Contracts`: approval and supersession

`CreateCandidate`, `DeriveCandidate`, `EditCandidate`, `PersistEdit`, `Approve`,
`CheckDocuments`, `WriteDocument`, `PersistApproval`, `RollBack`, `Supersede` and
`WriteSuperseded` are the handlers of `server.rs:640-840` between the points at
which another request may run; `Die` ends the server and all requests.
`document[c]` is the file: absent, active, or superseded by another.

### How they fit together

The composition is by interface.  `Delivery` says how often and in which order an
event may reach the ingestion: once or more, late, from two runners; `Suggestion`,
`Readiness` and `Projection` take their events with exactly these liberties.
`Purge` is the gate in front of every insertion.  `Rollover` and `Projection`
share the look-up of a session's task, which grouping changes.

Each module has, beside its actions, a few definitions marked "Faulty".  No
specification uses them.  They are used in place of the definition they vary, one
at a time, to see that the property aimed at that bug does fail.

## 3. Runs, bounds and what they show

| Run | Instance | Shows |
|---|---|---|
| `rollover` | 3 workers, 2 threads, 1 grouping move, fair | at most one thread and turn, durable order, truthful "Started"; implements `Handoff`; every invocation answers |
| `purge` | 2 processes, 2 repositories, 1 captured event each, 2 purges, 1 setup, 1 retention, 1 death, fair | no condemned data in database and queues without a recovery; an event is lost only to its own purge, to retention or beside a malformed record; an accepted purge is completed |
| `delivery` | 2 hooks, 2 runners, 2 attempts, 1 full disk, 1 fault | success is durable; a replay leaves nothing behind; the reserve pays for a full disk |
| `delivery_live` | 1 hook, 2 runners, 2 attempts, fair | hooks end; what was queued is ingested |
| `setup` | 1 run at a time, 2 repositories, 1 edit, 2 kills, fair | all or nothing, edits stay, implements `Registration`, a journal is settled |
| `ai_refresh` | 2 servers, 2 requests, 1 fact, 1 candidate, 1 trouble, fair | one thread, one verdict; implements `RefreshLifecycle`; a refresh settles |
| `projection` | 2 sessions, 2 grouping requests, 4 times, 1 edit, 1 compaction | tables are a replay; grouping is authoritative; only an overtaken operation is refused; a pin ends only with a newer event of its fact |
| `suggestion` | 3 prompts, 2 attempts, 1 failure | shown once, and not lost |
| `readiness` | 1 test, 2 contents, 3 hooks, 1 repetition, 2 edits | readiness is earned, a stop is blocked once per content |
| `contracts` | 3 contracts, 5 requests, 1 fault | approved is in force, superseded is replaced |
| `retention`, `delivery_overlap` | smallest that show it | findings (section 6) |

Why these bounds are enough for the cases of interest:

* Rollover: two workers can race; a third can arrive after both and find a
  mixture of what they recorded.  Two threads are needed for a duplicate.  A
  grouping move hides the past, and may be the one that brings it back.
* Purge: two repositories tell the condemned one from the one that must be kept;
  two processes give a purge and a recovery that races with it, two recoveries, or a
  replay or a compaction beside either; two purges of different repositories can
  follow each other; of one event of each repository, retention drops one; one death
  suffices to leave any intermediate state behind, since the state after the crash is
  all a second crash would start from.
* Delivery: two hooks make one record follow another; two runners overlap;
  two attempts give one late connection next to a live one; one fault or one
  full disk leaves every intermediate state of the files.
* Setup: runs that overlap are not protected by the code (the hazard is listed),
  so the run has one process, which repeats setup and uninstall for two
  repositories as often as it likes; the second kill hits the recovery of the first.
* Fact refresh: two servers overlap or follow each other, with a request each; one
  trouble is a server that ends, a refused append or an edit of the fact.  More of
  these are covered by the theorems (section 5), whose parameters have no bound.
* Projection: two sessions can be moved together or apart; two operations can be
  previewed one upon the other, claimed in either order, and one undone; four
  times are a prompt, two previews and one more of these, an edit or the event
  that is late.
* Suggestion: the prompt that is answered late, one between, and the one that must
  receive the suggestion after it was rearmed.
* Readiness: the test, the stop, and a third hook that is late, tests again or
  stops again; an edit and its revert.
* Contracts: three contracts make a chain and a cycle; five requests create,
  approve and supersede them; one fault at each step.

Where values are interchangeable and the run checks invariants only, the
configuration uses symmetry.  Instances that end when their bounds are used up
are run without the deadlock check; `Delivery` never stops, and its check is on.

Beside the runs there are configurations, each of one property that fails, for the
disagreements and races of section 6 that have no run of their own: `MCRolloverFailed`,
`MCRolloverRepeat`, `MCPurgeStale`, `MCPurgeOrphan`, `MCDeliveryTorn`, `MCDeliveryDaemons`,
`MCSetupRepeat`, `MCProjectionPin`, `MCProjectionRejected`, `MCSuggestionLost`,
`MCReadinessTold`, `MCReadinessForgotten`, `MCContractsOverlap`.
`tlc -config <name>.cfg <its MC module>` shows the trace.

## 4. Fairness

* `Rollover!FairSpec`: a worker that has begun and is not killed takes its next
  step.  Store transactions return, and each App Server request gives up after
  ten seconds (`app_server.rs:1730`).  No fairness on kills or on grouping.
* `Purge!FairSpec`: the store keeps being opened (each hook may start the daemon,
  each command opens the store), and a process that is not killed runs on, and
  closes the store some time.  Nobody is assumed to start a replay, a compaction or
  a purge.
* `Delivery!FairSpec`: a hook that is running runs on (each of its waits has a
  deadline), and so does a process that replays or serves.  Nobody is assumed to
  start a replay: `QueuedIsIngested` assumes in its statement that runs keep
  being started and that the disk does not stay full.
* `Setup!FairSpec`: a run that is not killed goes on.  `JournalIsSettled` assumes
  in its statement that runs keep being started; that they start by looking at the
  journal is what it is about.
* `AiRefresh!FairSpec`: a task that is not killed goes on, since a refresh gives
  up after 45 seconds, and so does the recovery of a server that starts.
  `EveryRefreshSettles` assumes that a server that ended is started again, and
  excepts the operation whose failure the store refused to record.

The other modules state safety only; what has to happen eventually in them is the
delivery, which is in `Delivery`.

## 5. What is proved

`RolloverProofs` proves, for any set of workers, any set of thread ids and any
number of grouping moves, assuming only that the sentinels are no thread ids
(`SentinelAssumption`):

* `Invariance`: `Spec => []IInv`;
* from it `TypeCorrect`, `NoDuplicateThread` (`AtMostOneThread`), `WriteAhead`
  (`TurnIsRecoverable`), `StartedIsTrue` (`StartedMeansRunning`), and
  `PromptRunsOnce` (`AtMostOneTurn`);
* `Refinement`: `Spec => ImplementsHandoff`.

`AtMostOneThread` is not inductive by itself: nothing in it says that the worker
about to ask for a thread is the only one, or that no thread exists yet.  `IInv`
adds that the insertion of "pending" elects one first attempt (`OneClaimant`);
that only a first attempt may ask for a thread and only while there is none
(`ThreadIsClaimed`, `NotYetCreated`); that any other worker past the reading
phase holds the recorded thread (`TookOver`, `Reading`); and what has been
recorded by each stage (`HeldThreads`, `LoggedThreads`, `Stages`).  `PromptRunsOnce`
rests on all turns naming the one thread, where a server that drops repeated
prompts runs the first.  Grouping
moves only change what is seen, and seeing less never makes a worker the first
attempt, because the claim is decided by the insertion and not by the reading.

`PurgeProofs` proves, for any sets of processes and of repositories, any events that
retention drops, and any number of purges, retentions, setups and deaths, from the
sentinels being distinct (`SentinelAssumption`) and the bound on captured events being
a number (`CapturesAssumption`): `Invariance`, `TypeCorrect`, `NothingCondemnedIsLeft`
(`CondemnedDataIsCompleted`) and `OnlyThePurgedIsLost` (the action property
`OthersAreKept`).  The first property says nothing of the moment before the journal is
removed, and the second nothing of the moment before a file is unlinked by its name, so
neither is inductive.  `IInv` is the type invariant and three layers:

* `Undisturbed`, always: what a process has found out while it holds the lock
  (`FilesAreClean`, `CopyIsExact`: what it still has to copy and what it has copied are
  what is in the database and is to stay), that a purge starts from the first phase and
  an empty journal (`StartsAnew`, `WasRequested`), and what a compaction for retention
  drops (`RetentionIsCounted`).
* `Guarded`, as long as no recovery acted on an outdated journal (number 5 of section 6):
  a process works either on what the journal names or on a purge somebody else has
  completed (`WorksOnTheCondemned`); the second phase of the journal is reached only with
  clean queue files and stays true, since the gate refuses new data and a replay only
  moves what is there (`PhaseIsEarned`, `PhaseIsTrue`); and what
  has a tombstone is in the database or a queue file only while the journal names it
  (`CondemnedIsNamed`).
* `Exclusive`, as long as no two replays overlapped (`delivery_overlap`): one process at
  most replays (`OneReplay`), it renames only onto a free name (`RenameIsFree`), and what
  is in the file it reads is in the database or still to be ingested (`ReplayIsRead`), so
  the unlink by name loses nothing.

The exceptions of `OthersAreKept` are in its statement: an accepted purge of this
repository, retention, and a malformed record in a file that a recovery removes.

`DeliveryProofs` proves, for any set of hooks and of runners, any number of
attempts, kills and full disks, from the sentinels being distinct and
`MaxSends` being positive (`SentinelAssumption`, `SendsAssumption`):
`Invariance`, `TypeCorrect`, `SuccessKeepsTheEvent` (`SuccessIsDurableIntact`),
`UndisturbedReplayIsComplete` (`ReplayIsComplete`) and
`FirstFullDiskLosesNothing` (`ReserveSavesEvents`).  A file is removed by its
name, so "the event is durable" is kept only if what the remover has read is
what the name stands for.  `IInv` says so, as long as no two replays overlapped:
one runner at most replays (`OneReplay`), the
records of the replay file are stored or still to be ingested by it
(`ReplayedIsStored`), it renames only onto a free name (`RenameIsSafe`), and
what it found queued is where its progress says (`OwedIsKept`).  A daemon
answers "committed" for stored events only (`AnswersAreTrue`,
`CommittedIsStored`), also when the hook that asked has given up.  Until
something goes wrong, a disk that is full for the first time still has its
reserve (`ReserveIsThere`).

`RegressionContractProofs` has the two halves of the regression contracts.  Of
`Readiness` it proves, for any tests and contents and any number of hooks,
repetitions and edits, from the bounds being numbers and the markers being no
contents (`BoundsAssumption`, `CleanAssumption`, `ContentAssumption`):
`Invariance`, `TypeCorrect`, `ReadinessIsEarned` (`ReadyIsEarned`) and `BlocksOnce`
(`BlockedOncePerContent`).  That an evaluation is ready says nothing by itself of
tests that ran long ago.  `IInv` adds that each stored result was seen on the
content it is stored with, that what is carried over was stored with the same
fingerprint by something earlier, and that a block of a content is on record
before anybody can be told, by one ingestion only.  For documents that cannot be read
that is so until a row is overwritten (`Forgotten`).

Of `Contracts` it proves, for any contracts and any number of requests and faults,
from `NoContract` being no contract and the bounds being numbers
(`NoContractAssumption`, `RequestsAssumption`): `ContractsInvariance`,
`ContractsTypeCorrect` and `DocumentsAreSound`
(`ContractsAreSound`).  While requests do not overlap, what a request has checked
is still so when it writes (`Checked`): the replacement it found active is active,
and the document it wrote is there when the approval is persisted.

`AiRefreshProofs` proves, for any servers, requests, facts, evidence and
candidates and without a bound on requests or troubles, from `NoFact` being no
fact (`NoFactAssumption`): `Invariance`, `TypeCorrect`, `OneThread`
(`OneThreadPerOperation`), `DecisionsAreKept` (`DecisionIsKept`) and `Refinement`
(`ImplementsLifecycle`).  The argument has four layers, each of which uses the
ones before.  `Sorted`: times are taken once, so that an operation has one latest
snapshot, and a fact that was proposed has no evidence, so that it is in no pack.
`Claims`: one task at most works for an operation, on record before it has a
thread.  `Verdicts`: only what is completed is decided, its task is done by then,
and each later completed snapshot repeats the verdicts.  `InStep`, while no two
servers were up at once: the status on record is the one the task believes in, and
a server that recovers finds no task and nothing completed to overwrite.

`SetupProofs` proves, for any runs and repositories and any number of edits and
kills, from the bounds being numbers and the markers being neither repository nor
file (`SentinelAssumption`, `BoundsAssumption`, `NoFileAssumption`): `Invariance`,
`TypeCorrect`, `InstalledOrNot` (`AllOrNothing`), `EditsAreKept`
(`EditsSurviveOneSetup`) and `Refinement` (`ImplementsRegistration`).  The run has
one process; the theorems hold for any number of them, where the properties
themselves except runs that overlap.  What the properties say of
the files between two runs has to be said of a plan before it is persisted and of
the journal while it is applied: `Faithful` is that statement, with the backups
the manifest refers to (`Backed`) and the profile it owns (`OwnsProfile`), of
whichever of the three is going to be in force (`FilesIntact`, `Written`).
`Ordered` says where a run that runs alone stands between its journal and its
manifest.

`SuggestionProofs` proves, for any number of prompts, attempts and failures, from
the bounds being numbers (`BoundsAssumption`): `Invariance`, `TypeCorrect`,
`SuggestedOnce` (`ShownOnce`) and `NotLost` (`NotLostIngestedOnce`).  A generation is
still to be shown if nobody has claimed it, or a prompt that has not been replayed; at
most one is (`OneTip`).  A claim takes none away and opens none; a prompt that is
replayed opens one only by giving up the one it had claimed (`Rearming`); and a prompt
that shows the suggestion was never queued, so that what it claimed is still that one.

`NotLost` needs where the prompts are, which `IInv` leaves open.  `Orderly` says it, and
holds without exception: hooks follow one another, the daemon accepts what was sent
after what it works on, and the replay takes prompts in the order of their time and
leaves none out.  `Kept` is what that means for claims as long as no prompt is ingested
again.  The generation still to be shown is the latest one (`LatestIsTip`), since a
generation is claimed by a later prompt than the one that opened it
(`ClaimsAreLater`).  Whoever holds its claim is proposed the same generation again
(`HeldIsOwn`), so the claim waits for an answer, a queue or a replay that will tell of
it (`HeldIsKept`), also when the daemon and the replay work on one prompt at the same
time (`ProposedAlike`, `DaemonTells`).  When everything has been ingested only "shown"
is left.

`ProjectionProofs` proves, for any sessions and requests and any number of events,
edits and compactions, from the bounds being numbers and `None` being neither a task,
a lifecycle nor a fact (`BoundsAssumption`, `NoneAssumption`): `Invariance`, `TypeCorrect`,
`TablesAreReplayed` (`ProjectionIsReplay`), `GroupingStays`
(`GroupingIsAuthoritative`), `PinsStay` (`PinnedSurvives`) and
`RefusalsAreOvertaken` (`OnlyOvertakenIsRejected`).

A replay is a fold over the log, and induction over the log is replaced by a smallest
counterexample: among the sets of events for which a claim about replays fails there
is a smallest one (`SmallestSet`), and without its latest event it would not fail.
From that follow that a replay ends with its latest event (`ReplayUnfolds`), that it
has what every event preserves (`ReplayPreserves`), and what the replays of a log and
of a part of it have in common (`ReplaysRelate`).  `IInv` says who holds which time:
whatever waits to be stored has a time that no stored event has, or is a statement
beside its prompt.  So each event has a place of its own, and to project it on the
tables or to replay the log comes to the same.  For refusals a second invariant is
needed, `Preparation`: as long as nobody overtook a preview, the sessions and tasks it
needs are in a replay of what is older than it, and not only in the tables of now.
What such a replay has, a replay of more events has as well (`MoreIsCovered`).
For pins, the lifecycle of a fact is that of the latest event which states it
(`FactIsItsLatest`), and what a fact is depends on its own events and the operations
alone (`FactFollowsItsEvents`), which a compaction keeps for a pinned one.

Every safety property of a passing run is a theorem.  Model-checked only are the
liveness properties (`AttemptsSettle`, `PurgeCompletes`, `HookEnds`, `QueuedIsIngested`,
`JournalIsSettled`, `EveryRefreshSettles`): fairness and ENABLED are out of reach of the
prover.

## 6. Where code and documents disagree

With a run:

1. **`retention`**: a compaction keeps every grouping operation and drops old
   events of the sessions it moved; the rebuild stops at the missing session, and
   with it the daemon and the review server (`store/maintenance.rs:332`,
   `store/projection.rs:291`).
2. **`delivery_overlap`**: two replays share the name of the replay file, and
   the second rename replaces what the first has not read (`hook.rs:828`).

With a configuration beside the runs:

3. `MCRolloverFailed`: if the answer to turn/start is lost, the worker records and
   answers "Failed" while the turn runs; the caller keeps the prompt and may repeat
   it (`continuation.rs:298`, `docs/product-roadmap.md:58`).
4. `MCRolloverRepeat`: recorded results are looked up through the session's
   current task, so a grouping operation hides them from a repeat
   (`continuation.rs:546`, `docs/architecture.md:137`).
5. `MCPurgeStale`: recovery reads the journal before it takes the lock and
   acts on it afterwards, even if the purge has been completed and the
   repository set up again meanwhile (`store/maintenance.rs:413`, comment at
   184).  With another purge in between it also overwrites that purge's journal;
   then the compaction refuses to copy the other condemned repository's events,
   and every later recovery, and with it `Store::open`, fails.
6. `MCPurgeOrphan`: a compaction that is killed or refused after it has copied events
   leaves its `.previously-compaction-*.sqlite3` (`store/maintenance.rs:530-539`), and a
   rewritten queue file may be left in the same way.  A later purge of a repository in
   it does not look for such files (`store/maintenance.rs:504-515`): its data stays on
   the disk, where nothing reads it and nothing deletes it (comment at 184-186,
   `docs/privacy.md:55-57`).
7. `MCDeliveryTorn`: an append that fails half-way leaves its fragment, and
   the append that is repeated after the reserve was released goes on the same
   line (`hook.rs:936`).  A hook killed during the append does this to the next
   hook.
8. `MCDeliveryDaemons`: a stale socket is probed, unlinked and bound in three
   steps, so that two daemons may both serve (`hook.rs:652`).
9. `MCSetupRepeat`: a repeated setup keeps the first backups and takes the edited
   files for its own output, so that uninstall restores the backups over the edits
   (`setup.rs:184-200`, `docs/privacy.md:62`).
10. `MCProjectionPin`: a prompt that states the same fact again sets a pinned fact back
    to a candidate (`docs/privacy.md:51-52`).  One that was queued does not: its
    candidate is replayed before the pin (`PinnedSurvives`).
11. `MCSuggestionLost`: a prompt that is ingested again after its replay takes the
    generation that was opened for the next one, and nobody sees it
    (`hook.rs:866-868`, `hook/continuation_policy.rs:239-273`).
12. `MCReadinessTold`: a stop whose blocking answer is lost is answered without a
    block when it is sent again (`README.md:247-248`).
13. `MCReadinessForgotten`: for documents that cannot be read, the id of an evaluation is
    made of the stop it is for (`hook/contract_policy.rs:426`), so a stop that is
    ingested again overwrites the row which says that it blocked
    (`store/projection.rs:1005`).  If that answer is lost as well, the third one blocks
    again without a row of its own, since its event is a duplicate of the first one's, and
    a later stop is blocked for the same documents (`docs/architecture.md:83`).
14. `MCProjectionRejected`: a session is split off, merged back, and both are undone in
    the same order; the undo of the split, previewed first and claimed last, is valid
    again, since only present tasks are compared (`store/operations.rs:322`), but at
    its time the undo of the merge has nothing left to restore.  The rebuild fails
    (`store/projection.rs:342`) and the claim is rolled back: a clean refusal, with an
    error about the log instead of one about the race.
15. `MCContractsOverlap`: two requests that overlap let two contracts supersede
    each other, each having found the other active (`server.rs:823`).

The passing properties are stated beside these: history variables (`overlapped`,
`garbled`, `overtaken`, `absorbed`, `again`, `raced`, `disturbed`, `forgotten`) except
exactly the cases above, and nothing else; of a purge, `CondemnedDataIsCompleted` speaks
of the files that the program reads again, and not of orphans.

By design, and part of the statement of `OthersAreKept`: a recovery that finds a
malformed record in a queue file removes the file, with what other repositories have in
it (`store/maintenance.rs:485-492`).  The comment at 419-421 gives the reason, that
v0.1 supports a single repository; an explicit purge refuses such a file instead.

Seen while modelling, without a property: a second review server interrupts
refreshes the first is working on, and a failure that is recorded late may be
outranked (`ai_refresh.rs:593`); two servers may also hide a verdict behind a later
failure, though never contradict it.  An edit of a fact or a session that was
read before a grouping operation still finds its session by the assignment.  An
edit of a candidate that races its approval sets it back to pending; and of two
approvals at once, the one whose append fails removes the document of the other.

## 7. Plan, and what is not modelled

Written: `Rollover` with `Handoff`, `Purge`, `Delivery`, `Setup` with
`Registration`, `AiRefresh` with `RefreshLifecycle`, `Projection`, `Suggestion`,
`Readiness`, `Contracts`; proofs for all of them.

Left: `Delivery` composed with `Purge`, for a record that the gate refuses for ever.

Not modelled, because they keep no state that interacts with anything above: the
request loop of `mcp.rs`, the command line and its dispatch (`config.rs`,
`main.rs`; the commands themselves are steps of the modules), observation of git
(`git.rs`), rendering (`context_pack.rs`, `graph.rs`, `server/bootstrap.rs`),
redaction, diagnostics and bounded reads, the record types of `domain.rs`, framing
and listing in `app_server.rs`, the classification of command lines in
`hook/tool_evidence.rs`, the user interface, benchmarks and scripts.
