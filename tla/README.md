# DeepDive in TLA+

DeepDive is a service that analyses Git repositories with an LLM agent. An HTTP
API accepts analyses, single or in batches; a set of workers takes each of them
through a snapshot of the repository, the turns of the agent and the read-only
tools the agent calls. The workers talk to each other only through events: every
event is written to an outbox table in the transaction that changes the state it
reports, copied to Kafka, and delivered at least once.

This directory holds the TLA+ specification of that system, the TLC
configurations that check it on small instances, and the TLAPS proofs of its
main invariants.

## 1. Inventory

| Component | Source (`src/backend/`) | State it keeps | Operations |
|---|---|---|---|
| event backbone | `events/`, `workers/runtime.py`, `workers/outbox.py` | `outbox_events`, Kafka log and group offset, `processed_events`, `event_processing_claims` | `add`, `publish_batch`, `handle_message`, `claim_processing`, heartbeat, `mark_processed`, retry, dead letter, commit, defer |
| batch scheduler | `workers/batch_scheduler.py` | `analysis_batches`, `analysis_batch_items` | `BatchSubmitted`, terminal analysis events: refresh counts, lock, claim pending items |
| analysis commands | `workers/analysis.py` | `analyses.status` | `AnalysisRequested`, `AnalysisCancelRequested` |
| execution worker | `workers/execution.py`, `execution/repository.py` | `tool_calls` with its claim columns, `agent_context_items` | claim, execute, renew, finalise, release, republish |
| analysis API | `api/postgres_analysis_service.py` | all analysis tables | `create`, `create_batch`, `cancel`, list, search |
| snapshot service | `snapshot/service.py`, `snapshot/repository.py` | `snapshots`, `snapshot_files`, `agent_sessions.snapshot_id` | resolve, build or reuse, associate, fail |
| agent session | `agent/handler.py`, `agent/repository.py` | `agent_sessions`, `agent_turns`, `tool_calls` | start a turn, call the model, complete with tool calls or an answer, recover, fail |
| agent context | `agent/context*.py` | `agent_context_items` | assemble, compact |
| model runner | `agent/openai_runner.py` | a response stream | stream, retry, classify errors |
| stream events, SSE | `agent/repository_stream.py`, `api/sse.py`, `api/routes.py` | `agent_stream_events`, numbered per analysis | append under an advisory lock, poll by page, replay after `Last-Event-ID` |
| tools, permissions | `execution/` | none (reads a snapshot) | `list_files`, `search_file`, `read_file`, `search_text`, documents, todo, web search |
| cache | `cache/` | files of a snapshot on the worker's disk, `coverage.json`, prefix locks | materialise, mark covered, clean up |
| snapshot building | `snapshot/git_cli.py`, `snapshot/scanner.py` | files | git commands, scans |
| authentication | `auth/` | `users`, `user_credentials`, `user_roles`, `oauth_accounts`; in Redis refresh tokens, OAuth states and codes | register, login, refresh, logout, GitHub sign-in, bootstrap, administer users |
| documents | `document/` | `documents`, `document_nodes`, `document_sections`, `document_revisions`, content objects | create, update, delete, finalize, create folder |
| todo lists | `todo/` | `agent_todo_lists`, versioned per agent | `todo_update` |
| configuration, local pipeline, database, object storage, secret paths, frontend | several | | |

How they interact. `API --AnalysisRequested/BatchSubmitted--> analysis worker /
batch scheduler --SnapshotRequested--> snapshot worker --SnapshotReady--> agent
worker --ToolCallRequested--> execution worker --ToolCallCompleted--> agent
worker ... --AnalysisCompleted--> batch scheduler`. All of them share one
PostgreSQL database; every repository call is a transaction of its own unless
the code opens one explicitly.

What is hard here.

* Delivery is at least once: a publisher or consumer can die between any two
  transactions, a partition can move while its old consumer is still working, a
  claim can expire under a living owner.
* Two leases are stacked for a tool call (the event claim and the tool claim),
  with separate heartbeats and separate release paths.
* The batch scheduler runs in several workers under READ COMMITTED; a statement
  that waits for a row lock goes on with the counts it had read before.
* Cancellation comes at any moment and races dispatch, execution and completion.
* Some state changes and the event that reports them are in separate
  transactions (`fail_analysis` and `add_outbox`, `waiting_tool` after the tool
  calls were published).
* A tool call may be executed again or beside itself, and what it wrote the first
  time (a document version, a todo list, a half-written cache file) is there.
* Several kinds of worker append to one event stream while a client reads it
  through pages and broken connections.
* An HTTP request reads, decides and writes in separate transactions, so that two
  requests act on what neither of them still finds.

What makes each part correct: no accepted event is lost and attempts are counted
right (backbone); the slots are bounded, no item is starved and a finished batch
is finished (scheduler); one result per call, acknowledged only when there is one
(execution); one turn per trigger, the limits on turns and calls respected, a
session that ends (agent); the snapshot of a running agent does not change
(snapshots); every stream event delivered once and in order and the true ending
told (SSE); one line of revisions whose contents stay what was written
(documents); one live refresh token per sign-in, one user per identity
(authentication); nothing claimed to be in the cache that is not, pages that
skip nothing that may be shown, no secret file shown (source tools). The list of
hazards in `PROJECT.json` gives the line where each one bites.

## 2. Modules

| Module | Models | Extends |
|---|---|---|
| `ReliableDelivery` | what the backbone promises (abstract) | |
| `EventDelivery` | outbox, Kafka partition, consumer runner | |
| `MCEventDelivery` | TLC instances of it | `EventDelivery` |
| `EventDeliveryProofs` | TLAPS proofs about it | `EventDelivery` |
| `BatchScheduler` | batch, items, schedulers; the other workers as far as they act on them | |
| `MCBatchScheduler` | TLC instances of it | `BatchScheduler` |
| `BatchSchedulerProofs` | TLAPS proofs about it | `BatchScheduler` |
| `ToolCallExecution` | tool calls under two leases | |
| `MCToolCallExecution` | TLC instances of it | `ToolCallExecution` |
| `ToolCallExecutionProofs` | TLAPS proofs about it | `ToolCallExecution` |
| `AgentSession` | the turn loop of an agent | |
| `MCAgentSession` | TLC instances of it | `AgentSession` |
| `AgentSessionProofs` | TLAPS proofs about it | `AgentSession` |
| `SnapshotService` | snapshot workers, shared snapshots, their analyses | |
| `StreamReplay` | event stream of an analysis, todo lists, the SSE reader | |
| `Documents` | documents, revisions, sections and content objects | |
| `Accounts` | users, sign-in, tokens, GitHub identities, administration | |
| `SourceTools` | scanner, source cache, listing, reading and searching | |
| `MCSnapshotService`, `MCStreamReplay`, `MCDocuments`, `MCAccounts`, `MCSourceTools` | TLC instances of the five | each its module |
| `StreamReplayProofs`, `DocumentsProofs`, `AccountsProofs` | TLAPS proofs about three of them | each its module |
| `SnapshotProofs` | TLAPS proofs about snapshots: how tools read one, how one is built | `SourceTools`, `SnapshotService` |

`PROJECT.json` maps every definition to its source lines. Operators whose comment
begins with "Variant:" are deliberately wrong versions of the operator that
follows them, and no specification uses them: putting one in the place of the
original must make TLC report the property it is listed with, which shows that
the property can fail.

### EventDelivery

One topic partition and one consumer group. An event keeps its Kafka key when it
is published again, so all copies of it are in one partition.

* `outbox`, `created`, `txn` are the outbox rows and the open publisher
  transactions. `FetchUnpublished` is the `SELECT ... FOR UPDATE SKIP LOCKED`,
  `PublishRow` a send followed by `mark_published` in the open transaction,
  `CommitPublished` its commit. `PublisherFails` rolls the marks back, not the
  sends.
* `log`, `committed`, `pos`, `assigned` are Kafka. `Assign` makes a consumer
  resume at the committed offset; a consumer that lost the partition goes on with
  the message it holds.
* `pc`, `off`, `hb` are a worker: `check` (is_processed), `claim_check` and
  `claim_insert` (the two transactions of `claim_processing`), `run`, then
  `mark`, or `requeue` and `release`, and `commit`; `defer` seeks back.
* A claim row has an owner and a state (free, live, expired). The random owner
  token is represented by the worker that drew it. A token dies with its process,
  so the claim of a dead process belongs to `NoWorker`.
* `faults`, `rebalances` and `stalls` count what the environment does and are
  bounded by constants; `ran` and `highest` are history variables.

### BatchScheduler

One batch with its items. A scheduler transaction is a sequence of statements,
and each is a step: `UpdateItem`, `ReadCounts` and `WriteCounts` (the common table
expression and the UPDATE of `_refresh_batch_counts`, which waits for the row
lock in between), `LockBatch`, `ClaimPending`, `Commit`. What a transaction has
written but not committed is in `own`, `claimed` and `row`; `View` and `Row` are
what its own statements see. The API, the analysis worker, the snapshot worker
and the agent are reduced to the actions that change `analysis`, `item` or
publish an event. Events are an at-least-once inbox, which is what
`ReliableDelivery` promises.

### ToolCallExecution

The tool calls of one agent and the execution workers. `tool` is the row with
its claim columns, `lease` the event claim. `ClaimToolCall`, `CheckAnalysis`,
`ExecuteReturns`/`ExecuteRaises`, `Finalize`/`FinalizeFails` and `Republish` are
the stages of the handler, `MarkProcessed` and `Requeue` what the runner does when
it returns or raises. `WorkerStopped` is a shutdown: `CancelledError` releases the
event claim and, not being an `Exception`, not the tool claim. Kafka is the set
`messages` of attempts that are not committed.

### AgentSession

One analysis with one agent and several agent workers. The stage `pc[w]` of a
worker names the repository transaction it performs next, because that is where
others can come in between and where it can die:

| Stage | Action | Code |
|---|---|---|
| `session` | `GetSession` | `get_session`, the early returns of `_run_turn` |
| `lookup`, `recover`, `reissue` | `TurnForTrigger`, `RecoverTurn`, `Reissue` | `_turn_for_trigger`, `_recover_incomplete_turn`, `_is_retryable_model_turn` |
| `limits`, `ready` | `CheckLimits`, `ReadyToolOutputs` | `max_turns`, `max_tool_calls`, `_ready_tool_outputs` |
| `calling`, `start` | `SetCallingModel`, `StartTurn` | `update_session_status`, `start_turn` |
| `model`, `count` | `ModelResponds`, `ModelFails`, `CountToolCalls` | `_run_model_turn` |
| `tools`, `waiting` | `CompleteWithToolCalls`, `SetWaitingTool` | `complete_turn_with_tool_calls`, then a transaction of its own |
| `answer` | `CompleteWithAnswer` | `complete_turn_with_final_answer` |
| `fail_turn`, `fail`, `report` | `FailTurn`, `FailAnalysis`, `ReportFailure` | the five `_fail_*` methods |
| `ack`, `requeue` | `Acknowledge`, `Requeue` | what the consumer runner does with the result |

A turn is identified by its trigger, the value of `trigger_domain_key`: the start
or the tool call whose terminal event began it. The model is a nondeterministic
choice between an answer, a batch of calls not used before, and the two kinds of
error. Stream events, the context and the strategies of compaction are left out;
a compaction that fails is one of the errors. Kafka and claims are reduced to
what `EventDelivery` shows: an event is handled by one worker at a time unless a
partition or claim moved, which `overlaps` counts and bounds. The execution worker
is reduced to `ToolFinishes` and `Republish`.

### SnapshotService

Several analyses of one ref, and the workers that handle their
`SnapshotRequested` events. A worker goes through `start`
(`mark_analysis_snapshotting`), `build` (git and scan, which fix the commit),
`find` (`find_ready_snapshot`), `insert` (`insert_snapshot` with
`ON CONFLICT DO NOTHING` and the second lookup), `associate` or `fail`, and `ack`;
each is one transaction. Beside them the ref moves, users cancel, agents run on
and end, workers die, raise, or lose their claim. The event backbone is what
`EventDelivery` shows of it. A snapshot is its commit: one repository, one policy.
Its specification is `ServiceSpec`, so that one module can extend it and `SourceTools`.

### StreamReplay

One analysis. A member of `open` is a transaction that appends to
`agent_stream_events`: a status of the agent, its final answer, a failed
compaction, its error, the two handlers of a cancellation, a failed snapshot, a
todo list. It takes its row lock, then the advisory lock, reads `MAX(seq)`,
inserts, and commits or rolls back. The statuses the transactions set are set with
them; the agent's `fail_analysis` is a step of its own before its error event, as
in the code. The reader is `_polling_sse_event_records`: read a page, yield its
events, read the status, read a last time. The client may lose its connection at
any event and returns with the id of the last one it received. `PageFinal` is the
`isTerminal` of the frontend's `applyAnalysisStreamEvent`: set by the ending events
and cleared by a status event that comes later. `silent` is history: whether the
error event was missing when the poller read the terminal status.

### Documents

The documents of one analysis. An execution of a document tool call goes through
`replay`, `load`, `sections` or `prepare`, `put`, `commit` and `respond`, one stage
per await of `DocumentService`. `Issue` chooses a call's arguments among what the
model can know from earlier results; `Redeliver` starts a second execution, also
while the first is still running. Text is reduced to its author: each call writes
its own text into the parts it names, so a content is a function from parts to
calls and tells at a glance whose text was lost. Digests are the contents.

### Accounts

Each HTTP request is a process that stops between its transactions and Redis
commands. A request that never goes on is one whose server died. Users, tokens and
codes are named after the request that drew their ids. `user_roles` rows carry the
request that inserted them, because the DELETE of `assign_roles` removes the rows
its snapshot shows and not those committed meanwhile. `family` (which sign-in a
token descends from), `ended`, `issued` and `crossed` are history.

### SourceTools

The paths of a commit, what the scanner stores of each (`scan`), and worker
processes with one cache directory. Each cached file has a final and a temporary
name with a content that is absent, torn or complete; opening, writing and
renaming are steps, an open file follows its name when another process renames
it, and `coverage.json` is such a file. `PrefixLock` is the `flock` of a prefix;
a lock file removed by a cleanup and created again is another lock. A
conversation of the caller is one job: it repeats the call with the cursor or
line it was given until the answer is not truncated. `broken` records the events
that really break the cache, two writers of one temporary name and a cleanup that
is interrupted or runs beside a call, so that the properties can say what holds
otherwise.

The code judges a path in two places, `visible_path_sql` and `is_secret_path`, and
neither implies the other. A path of the model therefore has one of four classes:
hidden by neither (`plain`), by both (`secret`: `.env`), by `is_secret_path` only
(`nested`: `pkg/.npmrc`, the directory `.ssh`) and by the SQL only (`hidden`:
`deploy/.docker/notes.md`). A match of ripgrep says whether it is in the file or in
its temporary name.

## 3. What TLC checks

| Run | Instance | States | Shows |
|---|---|---|---|
| `delivery` | 1 event, 2 publishers, 2 workers, 2 attempts, one fault, rebalance and stall | 214,817 | `NoLoss`, `RetryChain`, `ExclusiveHandler`, the refinement of `ReliableDelivery` with its fairness |
| `batch_concurrent` | 3 items, 1 slot, 2 schedulers | 204,560 | `SlotBound`, `FinishedMeansFinished`, `DispatchedOnce`, `ItemsFinish` |
| `batch_sequential` | 3 items, 2 slots, 1 scheduler, 1 fault | 407,671 | `BatchFinishes` |
| `batch_slotleak` | 2 items, 1 slot, 1 scheduler | | counterexample to `SlotReleased` |
| `execution_leases` | 1 call, 2 workers, 3 attempts, 2 faults, 2 stalls | 243,946 | `OneResult`, `AcknowledgedMeansFinished`, `ExclusiveExecution`, `CallSettles` |
| `agent_parallel` | 2 calls, up to two per response, 2 turns, 2 workers, 1 fault | 543,222 | `TurnCompletedOnce`, `NeverStuck`, `AnalysisEnds` |
| `agent_overlap` | 4 calls, one per response, at most 2 allowed, 3 turns, 2 workers, 1 fault, 1 overlap | 1,535,691 | `EndsOnce`, `ToolCallLimit`, `CancelledMeansStopped` |
| `snapshot` | 2 analyses, 2 workers, 2 attempts, 2 troubles | 191,058 | `SharedByCommit`, `ResultStands`, `EndIsFinal`, `SnapshotSettles` |
| `stream` | 2 todo calls, pages of 2, 1 status event, 2 lists, 1 cancel, 1 fault | 417,945 | `ClientInOrder`, `EndTold`, `ToldTruth`, `TodoInOrder`, `StreamEnds` |
| `documents` | 3 calls, at most 2 creating, 2 sections, 1 retry | 859,091 | `HistoryIsLinear`, `ContentIntact`, `ReportedTruthfully`, `SectionsAreTheContent` |
| `accounts` | 4 requests, 2 addresses, 2 identities | 999,302 | `OneSession`, `StableIdentity`, `OnlyStaleUndoes` |
| `source_tools` | 2 processes, 3 starts, 2 conversations, three trees of 5 paths | 1,177,557 | `CacheIntact`, `LeftByCrash`, `SearchComplete`, `ReadComplete`, `ListComplete` |

Why the bounds are enough. Two workers are the smallest number that race; two
attempts are the smallest with a retry and a dead letter. The events of a topic
meet only in the publisher's batch and in the committed offset; that several of
them are not lost there is proved for any number (section 4). Three items with one
slot let one item run, one wait and one be cancelled at the same time. The leases
of different tool calls do not interact (a worker handles one message at a time),
so one call with two workers shows their races. For the agent two calls allow a
chain of two turns and the one `max_turns` refuses, and are the smallest number
whose results can race; four calls with a limit of two let two overlapping workers
exceed the limit. Two analyses and two commits are the smallest instance in which
snapshots are shared and a repeated build finds another commit; two troubles are
two exceptions, which dead-letter an event, or an expired claim and a push. Pages
of two events are full, and a stream of up to six events takes several of them.
Three document calls are a create and two that race for the same version, or an
update of what was updated; one retry is a repetition of any of them. Four
requests are two sign-ins or administrators and two that race. The three
trees of the source tools have paths of all four classes and entries of every kind,
directories that are secret or whose files the SQL hides included, and the file with
three lines, the first longer than the byte limit, needs three windows.

`CHECK_DEADLOCK FALSE` is set because every instance ends: once all events,
calls or requests are settled nothing is left to do. Rolled-back scheduler
transactions are checked with one scheduler (`batch_sequential`): with two the
instance is too large for liveness. A deadlock between waiting transactions is
nevertheless covered: it would leave an item that never finishes and so violate
`ItemsFinish`, or a stream that never ends (`StreamEnds`).

### Where the code does something else than it says

`batch_slotleak`. `SnapshotFailed` is routed to a topic without a consumer, so the
item of a failed snapshot stays active. The same happens when the agent worker dies
between `fail_analysis` and `add_outbox`. `Leaked` names these states, and the
liveness properties exclude exactly them.

### Observations

Behaviours the models have that a reader of the code may not expect. The
properties name them as exceptions, so that they hold of everything else.

Event backbone
* The proposal says that a duplicate delivery is recognised by `processed_events`.
  `claim_processing` reads that table in one transaction and inserts its claim in
  another; in between the event can be processed and its claim deleted, and the
  handler runs again. Handlers have to be idempotent.

Batch scheduler
* The counts are read before the batch row is locked. The cancellation of a
  pending item that read its counts before a concurrent `BatchSubmitted` committed
  writes an `active_count` of 0 and dispatches into slots that are taken, beyond
  `max_parallel`. How far beyond depends on the number of schedulers, so
  `SlotBound` is about batches without such a cancellation and without a death;
  for them it is proved.
* Once more items are active than there are slots, schedulers that release them at
  the same time each count the other's item as active, find no free slot and
  dispatch nothing. If these were the last active items, the pending ones are never
  dispatched (four items, one slot and two schedulers are enough). `ItemsFinish`
  excepts batches that once had too many active items, and only them.
* With two schedulers a batch all of whose items are terminal can stay `running`
  with stale counts, because a scheduler that finds nothing to claim returns
  without a second refresh: `BatchFinishes` is checked with one scheduler only.

Execution worker
* A shutdown during a tool call releases the event claim only. The redelivered
  event meets a tool claim with 900 seconds to live, raises, is republished without
  delay and is dead-lettered before the claim expires: a cause `CallSettles` names.
* If both leases of a tool call stall, two workers can hold one lease each, and the
  event of an unfinished call can be acknowledged: `AcknowledgedMeansFinished`
  says `stalls <= 1`.
* The executor does not notice that its heartbeat task has failed: the tool claim
  then expires under a living worker that goes on executing. One stalled event lease
  is enough in that case for a second worker to execute the same call.
  `ExclusiveExecution` names both ways to two executors; there is no third.

Agent
* With `parallel_tool_calls` on (it is off by default) the terminal events of two
  calls of one response are in different partitions; handled at the same time, both
  find all outputs ready, and because their `trigger_domain_key`s differ the unique
  index admits both turns. `max_turns` can be passed then, since both are compared
  with the old count. `NeverStuck` shows that the opposite error, neither of them
  starting the turn, cannot happen; the proof shows it also for overlapping workers.
* The session is set to `waiting_tool` after the calls were published, so the
  update can arrive when the next turn is already running; `GetSession` ignores
  only the start event then, and nothing is lost.
* `max_tool_calls` is compared outside the transaction that creates the calls:
  overlapping workers exceed it by one response each at most (`ToolCallLimit`).
* A turn of an overlapped trigger can be completed twice, since
  `_complete_turn_on_connection` does not look at the turn's status;
  `TurnCompletedOnce` therefore says `overlaps = 0`.

Snapshots
* When two workers handle one event at once, the second build can replace the
  `snapshot_id` of an analysis that has one, or its failure can fail that analysis:
  only `mark_analysis_snapshotting` looks at `snapshot_id`.
* A dead-lettered `SnapshotRequested` leaves its analysis `snapshotting` for ever.
* A new snapshot row is committed even when the session turns out to be closed.

Stream
* The agent's failures commit the status before the error event. A reader in
  between ends without the event, and a death in between loses the event and
  `AnalysisFailed`.
* Any payload with a terminal status ends the stream on the server, also the
  compaction event of a failed compaction, which the frontend does not take for an
  ending. The events that follow it in its page are still delivered.
* The last read is one page of 1000 events; an ending beyond it is not delivered.
* A todo list written during a cancellation can follow the terminal event.
* The status event of a turn is written without another look at the analysis
  (`agent/handler.py:123`). After a cancellation's terminal event it makes the
  client's page live again (`applyAnalysisStreamEvent`), and the stream ends with the
  page not final. `EndTold` names this as `Reopened`, for cancellations only.

Documents
* A second execution that started before the first committed can write its content
  over the object of the committed revision, and then report a version conflict
  although the call was applied. Calls in `overlapped` are excepted for this.
* A plain `update` of a document with sections renders all sections blank and
  ignores the content given.
* `create_folder` has no replay: its repetition adds a second root folder, or fails
  on the unique index below another folder.

Accounts
* Two first registrations at once both become administrators.
* A PATCH of the display name writes back the `is_active` it read, and so undoes a
  deactivation committed in between; two `assign_roles` at once can leave the union
  of their roles.
* A refresh that has already taken its token survives a logout that comes then.
* Registering the address of a user who only has GitHub ends in the unique index and
  not in the 409 of the check before it, which joins the password table.
* Sign-ins of one identity with two addresses at once can give codes for two users.

Source tools
* Two processes that write one temporary name, one of which then dies, can leave a
  torn file; a torn `coverage.json` makes every later `search_text` of that snapshot
  fail. A cleanup that is interrupted or runs beside a call can leave a
  `coverage.json` that claims files which are gone.
* The SQL hides some paths that `is_secret_path` accepts, such as
  `deploy/.docker/notes.md` or `x.ssh/readme`. The scanner stores such a file and
  `read_file` reads it, but `text_files_under_prefix` leaves it out: `search_text`
  misses it, unless a `read_file` has cached it, and `coverage.json` lists its prefix
  without it. `CacheIntact` and `SearchComplete` name exactly this class.
* `search_text` also matches temporary files, which it returns as `x.tmp`:
  `SearchComplete` says that this takes a second process, and `LeftByCrash` that only
  a crash leaves them behind. Since ripgrep's order is not fixed its pages may repeat
  or skip matches; `SearchComplete` is about answers of one page. A prefix without
  text files ends in `SEARCH_TEXT_FAILED`.
* `read_file` with an `end_line` beyond both the file and `max_lines` answers
  `truncated` with the same `next_start_line` for ever.
* Paths that only `is_secret_path` recognises are rows of the SQL page and are dropped
  from it afterwards, so a page can come out short and end the listing early.
  `ListComplete` says that no row is missed before a row that is shown, and that the
  rows missed at the end are all behind a dropped one.

### Fairness

Weak fairness only. The outbox worker loops; consumers loop, and a worker that
ends with an exception is restarted by its supervisor; a handler ends (model calls
and commands have timeouts, an agent has `max_turns`); the broker gives a free
partition to some member; PostgreSQL grants a free lock; time passes for a claim
nobody renews; the execution worker finishes a requested call (`CallSettles`). In
`StreamReplay` the server goes on serving, the client connects again, an open
transaction commits or is rolled back and the analysis worker handles a
cancellation; the agent, which may stop anywhere, gets no fairness. In `SnapshotService` workers go
on and a ready event is taken by some worker. No fairness is assumed of crashes,
rebalances, stalls, pushes, cancellations or new events.

## 4. What is proved

The modules `*Proofs` are checked by TLAPS for all values of the constants: any
sets of events, calls, items, analyses, requests, publishers and workers, any
limits and page sizes, any number of attempts, crashes, rebalances, stalls and
overlaps. Every safety property a passing run checks is proved this way. The
inductive invariants were checked by TLC on the runs' instances before they were
proved.

**Assumptions.** The `ASSUME`s of the modules, which TLC evaluates in every run:
the constants have their types (bounds are natural numbers, at least one attempt,
one call per response and one event per page, `max_parallel` in 1..20 as the API
validates it); null values (`None`, `NoWorker`, `Nobody`, `NoCall`) differ from the
values they stand beside; the sets that are counted are finite (events, calls,
agent workers, of which there is at least one, analyses, document calls, slugs, of
which there is at least one). For
`SourceTools`: paths are numbers in the order of their strings, finitely many, each
below its parent; worker processes are finitely many; a tree gives every path an entry
of some kind and class, and its directories are the paths that are parents; a range of
lines begins at line 1 or later; the page size and the line limits are positive. That
no repository file is called like the temporary name of another is part of how the
module names cached files.

### EventDelivery

* `NothingLost` (`NoLoss`). `NoLoss` alone is not inductive: committing an offset
  discards messages, and what justifies that is a fact about the worker that
  commits. The inductive invariant adds
  - `SentBeforeMarked`: a row marked published has a message in the log;
  - `PositionBound`: the assigned consumer is at most one message beyond the
    highest offset ever committed, and then holds just that message, so a commit
    never passes a message no one looked at;
  - `MovedOn`: a worker about to release or commit has settled its event or
    published a later copy of it;
  - `Outstanding`: every published event is settled or has a copy beyond the
    *highest* offset ever committed. The highest one, because a rebalance can
    make the committed offset go back, and a consumer that has lost the partition
    may still commit.
* `RetriesChained` (`RetryChain`): every message in the log of an attempt above the
  first is preceded by the previous attempt; dead letters come from the last one.
* `HandlersExclusive` (`ExclusiveHandler`), from `ClaimHeld`: without a stall a
  heartbeating handler owns a live claim, and a claim has one owner.
* `RefinesReliableDelivery`: the steps of `EventDelivery` are steps of
  `ReliableDelivery` or stutter. The fairness part of that specification is checked
  by TLC.

### BatchScheduler

* `RequestedOnce` (`DispatchedOnce`). What a transaction holds at each statement
  (`Transactions`), that no item is locked twice (`Locks`) and that a terminal event
  tells the analysis' status (`Reports`) make every commit write items nobody else
  has changed since they were read.
* `FinishTrue` (`FinishedMeansFinished`). Counts are read before the batch row is
  locked, and may be wrong when written; `SeenTrue` says that counts *which end the
  batch* are not: when a scheduler has seen no pending and no active item, all items
  it sees are terminal, and terminal items stay. `RowTrue` carries this to the row
  of an open transaction.
* `SlotsKept` (`SlotBound`). The counts are stale in general, so no bound on them is
  inductive. What holds is sharper: from the handling of `BatchSubmitted` on all
  slots are taken or no item is left to claim (`Filled`), hence a scheduler that
  releases a slot counts exactly `max_parallel - 1` active items whenever it counts
  (`ReleaseFills`), and claims exactly one. `Handles` and `Holding` add that one
  scheduler handles an event and that it holds the batch row when it claims. The
  proof attempt refuted the earlier form of the property, a bound that grew with the
  number of cancelled pending items.

### ToolCallExecution

* `ResultRecordedOnce` (`OneResult`) and `OutcomeFinal` (`FinishedIsFinal`), from
  `OwnedIsRunning` (a claim still owned by an invocation is on a running or
  cancelled call, so a second finalisation finds no owner) and `OutcomeKnown`.
* `ExecutionExclusive` (`ExclusiveExecution`) and `AcknowledgedFinished`
  (`AcknowledgedMeansFinished`). With one stall one of the two leases may be lost
  and the other still excludes a second worker: `StallsCounted` says that a stall
  leaves its trace in one of the two claims only, `Holds` that then whoever
  executes or finalises owns the tool claim, and `Marked` that whoever is about to
  acknowledge has a finished call. A worker whose heartbeat failed keeps its event
  lease and may lose its tool claim without a stall, so two executors with one stall
  are possible only when one of them is such a worker, and with none not at all.

### AgentSession

* `AnalysisEndsOnce` (`EndsOnce`). The failure of an analysis takes two
  transactions, so `EndsOnce` needs `OneReporter`: a worker between
  `fail_analysis` and `add_outbox` is the only one, the analysis has failed and no
  terminal event exists yet. With it every ending step (answer, failure,
  cancellation) is shown to find an analysis without a terminal event.
* `CancellationStops` (`CancelledMeansStopped`): the two transactions that complete
  a turn are refused once the analysis is cancelling, from the types alone.
* `TurnsCompletedOnce` (`TurnCompletedOnce`), from `Alone`: without an overlap a
  worker that is in a turn is the only one on its trigger and the turn is open.
* `ToolCallsLimited` (`ToolCallLimit`). `Room`: there is room for a full response of
  every worker that has compared the limit, or of every one but one whose own
  response fits; the worker that compares last is that one.
* `WakeupNotLost` (`NeverStuck`). Calls form a chain of turns; `Driven` follows it to
  the last turn that made calls and says that one of them still runs or that the
  event of one of them is on its way and nobody is about to acknowledge it unread.
  A worker that sees an unfinished call may therefore return: the event of that call
  comes later and sees this one finished.

### SnapshotService (in SnapshotProofs)

* `SnapshotShared` (`SharedByCommit`), from `OneRow` (the unique index), `FreshIds`
  and `RowChosen` (a worker that is to associate has a committed row of its commit
  or one that it alone inserted).
* `ResultKept` (`ResultStands`), from `NothingYet`: as long as one worker handles
  the event, what `mark_analysis_snapshotting` found is still so when the build ends.
* `EndingFinal` (`EndIsFinal`), an action property of every step that writes a status.

### SourceTools (in SnapshotProofs)

The invariant `ToolsInv` has a part that always holds and parts that hold as long as
`broken` is empty, since the hazards it records really break the cache.

* `CacheStaysIntact` (`CacheIntact`). A finished file must be complete although it is
  opened, written and renamed in separate steps under a shared temporary name.
  `Apart` says that no two processes have one file open, so a handle is still on the
  temporary name and what is renamed is what was written (`Sound`). A prefix enters
  `coverage.json` only after every text file below it was seen or written; `Sound`
  carries that fact through the fetching (all but the files still to do), the reading
  and the rewriting of the list, while other processes also write. A cleanup removes
  files, list and locks in any order; `Covered`, `Removed` and `Alone` say that the
  list may claim more than there is only while a cleanup has removed the files and
  not yet the list, and that no call and no other cleanup is under way then. A
  cleanup whose process dies may leave that state behind, and is recorded in `broken`.
  The text files meant are those the SQL shows.
* `OnlyCrashesLeave` (`LeftByCrash`), with no exception for collisions and cleanups.
  `HeldInv` says of each name who holds it: a temporary file is open in some process,
  a truncated file under its final name is open in one that is about to write it. That
  fact is lost with a process only; while the number of processes that are up equals
  the number of starts, none has crashed. A rename moves the handles of all writers
  with the file, and a cleanup detaches them, so both keep it.
* `SearchIsComplete` (`SearchComplete`): a search of one page has been told nothing
  before its answer, and ripgrep sees a directory that is complete (`Sound`) and
  holds nothing but stored text files (`OnlyText`, which no hazard breaks) under their
  own or their temporary names. With one start there is one process, which holds no
  file while it searches, so no temporary name is there (`HeldInv`).
* `ReadIsComplete` (`ReadComplete`). `ReadTold`: the lines before `next_start_line`
  have been told. The three limits that cut an answer (the default window, `max_lines`,
  bytes) all cut it after a line, or inside a line that is then told cut.
* `ListIsComplete` (`ListComplete`). `ListTold`: what has been told is the first
  `offset` rows, and all of these passed both filters as long as there is a next page.
  That the pages fit together (`First(rows, n)` and the next page make
  `First(rows, n + m)`) is a fact about cardinalities of finite sets of rows. A page
  with a dropped row has at most `MaxResults` rows left and is the last (`Gapless`,
  `Behind`).
* `SecretsKept`: no answer ever names a secret path, with no exception for hazards.
  Three mechanisms divide the work, and the proof shows that no path escapes all of
  them: arguments are refused by the permission check, rows of a listing are
  filtered, and `search_text`, which filters nothing, can only see files of the
  cache, where the scanner's choice keeps secret files out (`OnlyText`).

Two definitions are recursive or use CHOOSE: `Above` (the directories above a path)
and the least element of a set. Induction is not available; their properties are
obtained from a smallest counterexample, which exists in any nonempty set of numbers.

### StreamReplay

* `ClientReceivesInOrder` (`ClientInOrder`). Rows are numbered without gaps because
  the advisory lock admits one transaction between `MAX(seq)` and its commit
  (`Numbered`, `Locked`); `Reading` says that the page continues where the client is.
* `EndingTrue` (`ToldTruth`) and `StreamEndTold` (`EndTold`), from `OpenTrue` and
  `RowsTrue`: what a transaction is about to write, and what is written, agrees with
  the status, and a terminal status is written or is the agent's failure. For the
  latter `silent` remembers what the status read found. `StatusFirst`, a second
  invariant, says that no status event follows an answer or an error, so that only a
  cancellation's ending can be reopened.
* `TodoListsInOrder` (`TodoInOrder`), from `Lists` on versions of lists and rows.

### Documents

* `HistoryLinear` (`HistoryIsLinear`), from `Linear` and the compare and swap on the
  version; `ContentKept` (`ContentIntact`), from `Objects`, which covers the
  executions that have put an object and not committed; `ResultsTruthful`
  (`ReportedTruthfully`), from `Told` and `Unwritten` (what the replay check saw is
  still so at the commit, unless the call is executed twice at once).
* `SectionsRead` (`SectionsAreTheContent`). `Rendered` describes an execution
  between the rendering and the commit, for a document that may have moved on
  meanwhile; the commit of those is refused by the version.
* `TypeCorrect` (`TypeOK`). `Stored`, `Named`, `Written` and `Recorded` follow a text
  from the sections an execution merges through the objects to the digest of the
  revision; `Placed` says that the parent an execution found (`ParentAccepted`) is still there
  when the node is added, which makes its path one of slugs (`Tree`). Versions are
  bounded by the number of calls, since the revisions of a document are of different
  calls.

### Accounts

* `SessionRotates` (`OneSession`): `OneHolder` counts the live token of a sign-in and
  the requests that took it and have not issued the next one together; there is one.
* `IdentityStable` (`StableIdentity`), from `SameAddress`, `Linked`, `CodesLinked`:
  sign-ins of an identity under way together agree on the address, and the address
  on the user.
* `FirstUserAdministers` (`FirstIsAdmin`), from `MemberSawUser`: a request that is to
  insert a member has seen a user. `DecisionsStand` (`OnlyStaleUndoes`) is an action
  property.

Type correctness is a theorem about every module with proofs. The type invariants,
`FinishedIsFinal`, `FirstIsAdmin` and `NothingSecret` are proved for every instance and
have no run of their own.

### Only model-checked

* Liveness, since fairness and `ENABLED` are out of the prover's reach:
  `ItemsFinish`, `BatchFinishes`, `CallSettles`, `AnalysisEnds`, `SnapshotSettles`,
  `StreamEnds`, and the liveness half of the refinement of `ReliableDelivery`.
* The counterexample of `batch_slotleak`.

## 5. What is not modelled

* Kafka's own replication and the loss of acknowledged messages; PostgreSQL's
  durability. Both are taken as reliable.
* Event order between different keys, beyond what several partitions and workers
  make possible.
* The in-process read-write lock of the execution worker: `consume_messages`
  handles one message at a time, so the lock is never contended within a process.
* Context assembly and compaction, the model runner and the local pipeline; of the
  tools, web search. Of the agent, `AgentContinueRequested`, which nothing publishes.
* Passwords and their reset, the expiry and encoding of access tokens, and the
  in-memory services used by tests.
* The order and numbering of document sections, and the listing of the document
  tree, which only reads.
* A repository file `x.tmp` beside a file `x`. `_ensure_prefix` writes rows in path
  order, so one pass ends with both; writing `x` again later (for another prefix or a
  `read_file`) truncates `x.tmp` and renames it away, and `coverage.json` may then list
  a prefix without it.
* The components marked `not_modelled` in `PROJECT.json`; the reason is given
  there.

## 6. Plan

1. Composition of `AgentSession` with `ToolCallExecution`: an abstract
   specification of an analysis (it ends once, with one terminal event) that both
   implement together.
2. A safety bound on the active items of a batch after cancellations of pending
   items, in the number of schedulers.
3. Context compaction as pure operators against a reference definition.
