# A verification of the Agent Communication Protocol

This directory holds TLA+ specifications of ACP, the TLC configurations that
model-check them on small workflows, and proofs, checked by TLAPS, of what
matters most for every workflow. Paths below are relative to `src/`.

    tlc -workers 2 -config MCPipeline_core.cfg MCPipeline
    tlapm Pipeline_proofs.tla

Sections: 1 the system, 2 the plan, 3 the modules and the code, 4 the runs,
5 disagreements found, 6 the proofs, 7 what is not modelled.

## 1. The system

ACP runs a workflow, a YAML file of *slots* (roles) and *steps*, by starting one
command-line coding agent per action. A *hub* (HTTP server, SQLite) keeps the
record of pipelines and of the agents that talk to each other.

### Orchestrator (`crates/acp-orchestrator`)

* **Step loop**, `run_local_pipeline_with_events` (`pipeline.rs:50-337`).
  State: the assignments (an `Arc<RwLock<..>>` shared with the actions), the
  handoff contexts (a mutex, per role), the `AdaptiveController`, `last_health`,
  the report. For each step: look at the condition, inject hints, spawn every
  action of the step on a `JoinSet`, join them in the order of completion,
  record each result, and switch the scheduling profile when too many fail.
* **Attempt loop**, `run_action_with_recovery` (`recovery.rs:102-273`), one
  task per action: read the handoff context, lock the assignments for reading,
  run the process in a worktree, simulate the merge, resolve a conflict, and on
  a recoverable failure retry on a fallback, skip, ask, or fail.
* **Slots** (`slots.rs`): the status events assigned, active, working, waiting,
  vacant, disabled, and `fallback_assignment`.
* **Adaptive controller** (`adaptive.rs`): more than 30 % failures among at
  least four results turn `quality_first` into `speed_first`.
* **Scheduler** (`scheduler.rs`): weighted scores, a boost learned from the
  outcomes the hub has counted, a ranking of candidates per role and profile.
  Pure. Correct when the boost stays small and moves with the outcomes, and when
  the runtime chosen first is the first of the candidates.
* **Memory** (`memory.rs`, `semantic.rs`): compression, embedding, search.

What makes it hard: the actions of one step run beside each other and beside
the loop; a read guard is held for as long as an agent's process lives while
the loop wants to write; retries, a timer around each action and a deadline for
all cut in anywhere; contexts, slots and the table are shared per role. What
makes it correct: steps do not overlap, each action has exactly one result, an
unhealthy result counts only where the policy says `skip`, a retry knows its
failure and moves to another runtime, the run ends.

### Command line (`crates/acp-cli`)

* **`pipeline run --execute`** (`commands/pipeline.rs`, `commands/persist.rs`):
  creates the pipeline, marks it running, spawns `event_task` which stores the
  orchestrator's events, and reports the end. State: an unbounded channel and
  the two tasks. Hard: the task may fail, be aborted or be killed in the middle
  of a request, and the run goes on without noticing. Correct when the hub's
  record is a prefix of what happened, and the status tells the truth.
* Other commands (one request and a printout each) and the terminal interface.

### Hub (`crates/acp-hub`)

* **Pipelines** (`handlers/pipelines.rs`): pipelines, slots, events, artifacts;
  several SQL statements per request, no transactions.
* **Messages and stream** (`handlers/messages.rs`, `handlers/stream.rs`):
  a handler per request, which reads the clock, stores a row per recipient and
  sends it on a broadcast channel of 512 messages; a stream per client, which
  subscribes and then replays the rows created after a given one. Several
  handlers and streams run at once. Correct when a client that comes back with
  `last_event_id` misses nothing, or is told so, and a connected one gets
  everything that waits for it.
* **Tasks, files, findings, agents** and **models, scores, analytics, runtime
  and MCP records**: a handler per request, each a few SQL statements without a
  transaction. Hard: the statements of all clients interleave, one may fail after
  another was run, a client may go. Correct when what a client is answered is
  what the tables hold, a claim made later hears of the earlier one, counters
  lose nothing, and no statement writes what no handler can read.
* **Server** (`lib.rs`, `main.rs`): one token for all clients, and one rate
  limit, in windows that start with a request.
* **Migrations** (`migrations.rs`): five scripts, run statement by statement,
  each recorded when it is done, before the hub binds its address. Correct when a
  hub that serves has the whole schema, whatever ended the starts before it.

### Runtime, workspace, discovery

* **Adapters and classification** (`acp-runtime/src/adapter`, `output.rs`):
  start a process with a timeout, classify what it printed.
* **Supervisor** (`acp-runtime/src/manager.rs`): a map of child processes behind
  a mutex; interrupt and shutdown signal by process id, sleep and kill. Correct
  when a signal reaches the agent it is for and every command ends.
* **MCP servers** (`acp-discover/src/mcp.rs`): a map of shared servers, looked
  into and entered under two separate locks. Correct when servers are reused
  and none is lost.
* **Worktrees and merge simulation** (`acp-workspace`): one worktree per role,
  one shared main repository for `git merge --no-commit` and `--abort`. Correct
  when a verdict is about the branch and no merge is left in the checkout.
* **Discovery**: reads files and the environment once.
* **`agent-hub`, `agentctl`**: a binary around the same hub, with an older copy
  of its handlers that is no longer compiled, and an older command line.

### How they interact

The command line calls the orchestrator as a function and receives its events
by channel; `event_task` turns each into HTTP requests to the hub; the
orchestrator awaits processes (runtime) and git (workspace). Agents started by
the orchestrator, and any others, talk to the hub by HTTP and follow its stream.

`PROJECT.json` lists the hazards of all of this, each at its line, with the
properties that would notice it going wrong.

## 2. The plan

Done, in this order:

1. `WorkflowContract`: what running a workflow promises, without attempts,
   locks or timers.
2. `Pipeline`: the step loop and the attempt loops; its properties, runs,
   refinement of the contract, and proofs.
3. `PipelineRecord`, which EXTENDS `Pipeline`: the command line process, its
   event task and the hub's record around the same run.
4. `HubStream`: handlers, the channel with lag, subscribe-then-replay,
   reconnection, restarts of the hub, and the watching client; its proofs.

5. `Migrations`, `RateLimit`, `HubRecords`, `Scheduler`, `Analytics`, and
   `HubService`, which composes them into the hub as a process: it starts, serves
   requests statement by statement, ends anywhere and starts again.
6. `MergeSimulation`, `RuntimeSupervisor`, `McpServers`, and `Host`, which
   checks them in one run.
7. `FailurePolicy` and `RuntimeOutput`, the pure functions from which
   `MCPipeline` now takes `Policy` and `Outcomes`.
8. Proofs of what 5 and 6 say of their hazards, of the rest of `Pipeline`'s
   safety properties, and of all those of `PipelineRecord`.
9. Proofs of what `HubService` says of every workload, and of the scheduler's and
   the analytics' arithmetic: with them every safety property of the runs is
   proved.

Left: an abstract log that each stream of `HubStream` reads at least once.

## 3. The modules and the code

| Module | Code |
| --- | --- |
| `WorkflowContract` | abstract: what the comments on the step types say (`acp-protocol/src/lib.rs:308-345`) |
| `Pipeline` | `pipeline.rs`, `recovery.rs`, `slots.rs`, `adaptive.rs` |
| `PipelineProperties` | the properties, and the parts of the inductive invariant |
| `MCPipeline` | three workflows for TLC |
| `Pipeline_proofs` | the theorems |
| `PipelineRecord` | `commands/pipeline.rs`, `commands/persist.rs`, `handlers/pipelines.rs`, `db.rs:316-448` |
| `PipelineRecordProperties`, `MCPipelineRecord` | its properties and workflows |
| `PipelineRecord_proofs` | the theorems about it |
| `HubStream` | `handlers/messages.rs`, `handlers/stream.rs`, `db.rs:273-339`, `db.rs:505-535`, `agent-client/src/lib.rs:396-440`, `525-561` |
| `HubStreamProperties`, `MCHubStream` | its properties, its inductive invariant, two instances |
| `HubStream_proofs` | the theorems about it |
| `Migrations`, `MigrationsProperties` | `acp-hub/src/migrations.rs`, the start of `main.rs` |
| `RateLimit` | `check_rate_limit` (`acp-hub/src/lib.rs:225-250`) |
| `HubRecords` | the handlers of `acp-hub/src/handlers` but the stream and the two that only send (`broadcast_message`, `message_to_role`: they are in `HubStream`), with `db.rs` |
| `Scheduler`, `Analytics` | `acp-orchestrator/src/scheduler.rs`, `handlers/analytics.rs` |
| `HubService`, `HubServiceProperties`, `MCHubService` | the hub as a process, its properties, 37 workloads and two claims at once |
| `HubProcess_proofs`, `HubRecords_proofs`, `Scores_proofs`, `HubService_proofs` | the theorems about its start and its rate limit, what each handler's statements are, the arithmetic, and with these the theorems about the service |
| `MergeSimulation`, `RuntimeSupervisor`, `McpServers` | `acp-workspace/src/merge.rs`, `acp-runtime/src/manager.rs`, `acp-discover/src/mcp.rs` |
| `Host`, `MCHost`, `Host_proofs` | the three beside each other, and the theorems about them |
| `FailurePolicy`, `RuntimeOutput` | `recovery.rs:20-54`, `acp-runtime/src/output.rs` |

Definitions whose names end in `Bug` are mistakes the code could have had. No
specification uses them; each shows that a property notices such a mistake.

### Pipeline

One action is the code between two awaits that can really suspend: the process,
git, a contended lock, `join_next`. The mutexes around the contexts and the slot
events are only held for one statement, so they are not state. The read guard on the assignments is:
`Holding` is the set of places between `ChooseRuntime` and the end of the
attempt, and `Refresh` waits until it is empty. Tokio's `RwLock` is fair, so a
waiting writer (`main = "refresh"`) blocks every later reader (`ChooseRuntime`,
`Fallback`).

| State | Code |
| --- | --- |
| `main`, `step` | where `run_local_pipeline_with_events` is |
| `pc[t]` | where `run_action_with_recovery` is for the action `t` |
| `attempt`, `override`, `out`, `seen` | its locals `attempt`, `current_override`, the `StepResult`, the handoff context it read |
| `assignments` | `Arc<RwLock<HashMap<..>>>`, as the ordered candidates of each role |
| `controller`, `lastHealth`, `contexts` | `AdaptiveController`, `last_health`, `handoff_contexts` |
| `slot` | the status of the last slot event sent for each role |
| `results`, `deadline` | `step_results`; `pipeline_deadline` against the clock |

| Action | Code |
| --- | --- |
| `PassOver`, `BeginStep`, `Spawn`, `DeadlineExceeded` | the head of the loop (`pipeline.rs:179-217`, `248-265`, `340-352`, `444-449`) |
| `Join`, `Refresh`, `JoinError`, `EndStep`, `Finish` | `join_next` and after (`218-247`, `354-397`, `323-337`) |
| `Begin`, `ChooseRuntime`, `RuntimeError`, `RuntimeExit` | an attempt until its process has ended (`recovery.rs:118-157`, `292-314`) |
| `SimulateMerge`, `ResolveConflict` | `316-343`, `358-408`, each with the whole handling of the outcome, `AttemptReturns` (`169-272`) |
| `Fallback` | the second read of the assignments and the start of the next attempt (`210-240`) |
| `Timeout`, `DeadlinePasses` | the timer around the action (`pipeline.rs:198-216`) and the clock |

Simplifications, and why they are sound for the properties:

* A step of one action runs in the loop itself and not on the `JoinSet`; the
  same actions model it, with one member. The deadline is looked at before the
  hints of a single action are injected and before each action of a parallel
  step is spawned; the model looks after the injection in both cases. A run that
  the deadline ends in between uses no context any more, so nobody can tell.
* `step` counts the steps of the file, and one `Task` is one occurrence of an
  action.
* Tasks run on several threads, so what one action of the model does may really
  overlap with another. What it reads and writes is kept per role, and so the
  overlap of actions with different roles makes no difference. Two actions of
  *one* step with the same role could interleave more finely than the model
  says; the properties about contexts and about the last slot event are stated
  for roles used once in a step.
* The scheduler's result is the constant `Ranking`: for each profile and role,
  candidates by score. It is asked again only when the profile changes.
* Whether the search finds hints for a role is a choice, but none are found
  before a result is indexed.
* The model numbers attempts by those that failed; `retry(n)` gives `n + 1`.
  That `n + 1` overflows for `n = 4294967295` is a hazard without a property.
  `FailurePolicy` has what is written in the workflow file: a number that does
  not fit counts as 1, an unknown word as `fail`, no section as one retry.
* `RuntimeOutput` has what a process's end becomes: the words come before the
  exit code, so that an agent that succeeds and writes of "auth" or "401" is
  `auth_expired`, and one that was killed by a signal, having no exit code, is
  healthy. Nothing in the repository says otherwise.
* `optional: true` of a slot (`docs/WORKFLOW_YAML.md`) is parsed and never read
  by the orchestrator, so it has no counterpart.

### PipelineRecord

EXTENDS `Pipeline` and conjoins to each of its actions the events that the code
sends during it (`Attempt`, `Advance`). `cli` is the statement `handle_pipeline`
is at, `sent` and `taken` are the channel, `todo` the HTTP requests that
`event_task` has yet to make for the event it holds, each a sequence of SQL
statements. `status`, `rows`, `log`, `stored` are the hub's tables. `Persist`
executes one statement, so a run goes on, fails, or is killed between any two.
After an abort, an error or a crash, the statements left of the request under
way run later or never (`Persist`, `DropRequest`).

| Action | Code (`commands/pipeline.rs`) |
| --- | --- |
| `Create`, `SetRunning`, `Started`, `Launch` | `34-105`, with the hub's handlers |
| `Drain`, `Drained`, `SetSucceeded` | `107-117` |
| `AbortEvents`, `ReportFailed`, `SetFailed` | `145-169` |
| `Receive`, `Persist`, `Closed` | `90-95` and `persist.rs` |
| `RequestFails`, `Crash`, `DropRequest` | a request or the process fails outside the code; `fault` remembers a failed request |

`RowOf` is the role the hub stores a slot under: its `role` field. The
orchestrator announces it by its name. The sends of one attempt's end are one
action: between them the code does not suspend.

### HubStream

One handler per request and one client per followed agent. A handler suspends
at every SQL statement, and so its actions are: find the recipients, read the
clock and create the thread, store the row, store the event and send. A stream
has a position in the channel and the rows of its replay left to yield.

| State | Code |
| --- | --- |
| `handler[r]`, `left[r]`, `draft[r]` | where the handler is, the rest of its loop over recipients, `MessageRecord` |
| `messages`, `clock` | the table, `Utc::now` |
| `sent`, `next[a]` | what the `broadcast::Sender` has sent since the hub started, the position of the stream's receiver |
| `conn[a]`, `replay[a]` | where `stream` is, its local `replay` |
| `received[a]`, `last[a]` | what the client has handled, and the id it resumes from |
| `chunks[a]`, `buffer[a]` | bytes on their way to `AgentClient::watch`, and its `buffer`, as sequences of messages |
| `lagged`, `announced`, `overtaken` | history for the properties |

| Action | Code |
| --- | --- |
| `Address`, `Broadcast` | the handlers until they know the recipients (`messages.rs`) |
| `Stamp`, `Insert`, `Announce` | `insert_message` to its first await, its `INSERT`, `emit_message` |
| `Fail` | any `?`, or the request is dropped |
| `Connect`, `ReadReplay` | `subscribe()`, `replay_messages` |
| `YieldReplay`, `Forward`, `Lag`, `KeepAlive` | the generator and the keep-alive of `stream` |
| `ReadChunk` | `handle_stream_chunk` |
| `Disconnect`, `Restart` | the connection, or the hub's process, ends |

`created_at` is compared as text. `to_rfc3339` writes as many digits of the
second as are needed and "+" precedes "." and the digits, so the order of the
texts is that of the times, and the model uses numbers. A client "resuming" is
one that uses the parameters of the stream, `since` at first and then
`last_event_id`; the repository has only the other kind, `agentctl watch`.
The columns and the wait for one kind of message are left out: its timeout is a
`Disconnect`.

### HubService

A hub process (`Migrations`) is down, at a statement of a script, binding or
serving. While one serves, each request of the workload is admitted
(`RateLimit`) and then runs the statements of its handler (`HubRecords`) one at
a time; any of them may fail, any client may go, and the process may end, which
drops what is under way and the bucket and keeps the tables.

| State | Code |
| --- | --- |
| `schema`, `versions` | the objects of the database, `schema_migrations` |
| `stage`, `migration`, `statement` | where each process is in `init_db` and `main` |
| `bucket`, `now` | `RateBucket`, the monotonic clock |
| `db`, `events` | the tables, the rows of `events` and what is sent on the channel |
| `step[r]`, `answer[r]`, `seen[r]`, `found[r]` | the statement a handler awaits, its answer, the row and the list it has read |
| `torn`, `admitted`, `before` | history for the properties |

| Action | Code |
| --- | --- |
| `Look`, `Execute`, `Record`, `Bind`, `EndHub` | `run_migration`, statement by statement, and `main` |
| `Admit`, `Refuse`, `Authorized`, `Refused`, `Unauthorized` | `authorize`, the first line of each handler, with `check_rate_limit` |
| `Write`, `ReadRow`, `SelectRows`, `NotEmpty`, `WriteEvent` | an `INSERT` or `UPDATE`, a `SELECT` of one row (404 without), of many, of those that must not be none, `emit_event` |
| `StatementFails`, `DropsOne` | `?` on a statement, a client that goes |

A request is what a client sends (`Sent`), and `app` routes it to its handler. A
handler is written as its list of statements (`claim_task`, `close_thread`,
...), in the order of the code, each with its table, its key and the columns it
sets. `authorize` comes first; `upsert_working_context` calls the handler that
reads the row, which authorizes again. A `Check` is what a handler refuses with
400 before it goes on: an empty subject, a status that does not parse, a workflow
that does not. What the extractors refuse never reaches a handler (`Extracted`).

* The rows keep the columns that some property or some `WHERE` tells apart.
  Each column with an enumeration is one that its handlers can parse again
  (`RecordsTypeOK`), which the compiler does not see: the literals stand in SQL.
* The clock of `check_rate_limit` is read just before the lock is taken; the
  model does both at once, as a tick is far longer.
* `f64` scores are whole multiples of `1/Unit`, chosen so that every quotient
  in reach is exact: nothing is rounded in the model, and a comparison of two
  scores that differ in the code by rounding alone is out of its reach.
* `runtime_handles` is read by `interrupt_runtime` and `shutdown_runtime` and
  written by no handler, so both are always answered 404.

### Host

`MergeSimulation`: a call of `simulate_merge` is at its merge or its abort; the
git process of each is state of its own, as the step's timer drops the call and
not the process. `mergeHead` is the checkout's `MERGE_HEAD`. `RuntimeSupervisor`:
the map, the mutex (which a command holds over its sleep), and per child the
process and its id, which the system gives to somebody else once the child is
reaped. `McpServers`: the map, where each `start` is between its two locks, and
where each `shutdown` is between the removal and the kill: nothing there has a
timeout, and a call that is dropped leaves its process running.
They share no state, so `Host` follows one of them per behaviour (`part`).
`RuntimeManager` is used by no program yet, and each `acp mcp` command by a
manager of its own, so that `acp mcp shutdown` always fails: the modules are
about the library's promise to the orchestrator that will hold them.

## 4. The runs

| Run | Shows | States |
| --- | --- | --- |
| `pipeline_core` | policies, barrier, one result each, retries, termination, refinement of the contract | 19 thousand |
| `pipeline_adaptive` | a profile switch under running attempts, what it leaves of the slots; the whole inductive invariant | 581 thousand |
| `record` | the hub's record under crashes and failed requests at every point | 498 thousand |
| `stream_resume` | what a resuming client may miss, with overtaking, lag, failures and restarts; the whole inductive invariant | 470 thousand |
| `stream_watch` | a watching client catches up | 56 thousand |
| `hub_service` | starts and ends of the hub, the rate limit, 35 groups of requests with faults at every statement, scores and analytics | 222 thousand |
| `host` | merge simulations in one checkout, supervised runtimes, MCP servers | 293 thousand |
| `pipeline_conditional`, `pipeline_hotswap`, `record_lost`, `record_stuck`, `hub_claims` | the disagreements of section 5 | until the violation |

**Bounds.** Nothing in the models counts without end, so no state constraint is
needed: attempts are bounded by the policy, results by the actions.

* `pipeline_core`: a parallel step (one role retried twice, one skipped), a
  conditional step, a second use of the retried role. Every pair of concurrent
  actions with different policies, a context that survives into a later step,
  all four healths, and a deadline at every point. Two candidates for a role
  and one for another, so that a fallback exists or not.
* `pipeline_adaptive`: five results, the fewest with which the fourth can cross
  30 % while a fifth action runs or waits for its lock, then a sixth of a role
  that the switch has announced. Two of the three
  policies that matter, two healths (`rate_limited` stands for all recoverable
  ones, which `IsRecoverable` and `RecordStep` do not tell apart).
* `record`: a step that may be disabled, then a conditional step that is
  retried once: every kind of event is sent, in runs that succeed and in runs
  that fail, and the channel holds several events when the run ends.

* `stream_resume`: three messages to one client, so that two overtake each
  other while a third is handled, resumed from or lagged behind. The channel
  holds one message: the second that a stream does not read makes it lag.
* `stream_watch`: a broadcast to a watcher and another agent, and a message to
  the watcher: two messages in one chunk, one that is not for it, a lag.
* In both, `Restart` happens only when it drops something: the handlers and
  what was sent. Without either it would only end connections, which
  `Disconnect` does. The clock is read as often as there are messages.

* `hub_service`: one behaviour per workload. An empty database and two processes
  with all five scripts; one client that polls, over five ticks with windows of
  two and a limit of three; and for every handler that `app` routes a workload with the two or
  three requests that touch its rows. Metrics are nineteen, to become twenty and
  twenty-one, where the 95th percentile moves. Score records have less than five
  outcomes, five and more, fresh, a week old, older, much older.
* `host`: three simulations (a branch that merges, one that conflicts, one with
  nothing to merge), any of them dropped anywhere; two children of one agent
  with two commands and a wait, and two process ids, so that an id is reused;
  two starts and two shutdowns of one shared server beside an isolated one.

Deadlock is not checked: every one of these programs stops, and clients may
stay away.

**Fairness.** `FairSpec` assumes that tokio polls the loop and a spawned task,
and that timers fire: weak fairness of `LoopStep`, of each `Begin(t)` and of
each `Timeout(t)`. It assumes nothing of agents' processes, git or merges, which
may hang for ever; the timer around every action (`pipeline.rs:451-456` gives
one to every action, by default too) is what ends them. Weak fairness of
`Refresh`, a part of `LoopStep`, suffices although readers come and go, because
a waiting writer keeps new readers out. `RecordSpec` adds weak fairness of
`handle_pipeline`, and of `event_task` and the hub answering; crashes, failed
requests and late statements have none. In `HubStream` it is the hub that polls
each stream and sends its keep-alives, its answer to the replay query, and a
client that reads; nothing is assumed of handlers and reconnections. `HostSpec`
assumes that a killed process ends and that a command is polled: its awaits are
a lock held by commands only for a sleep, `kill`, and the sleep. `ServiceSpec`
has no fairness, as its properties are about safety.

**Properties.** Each is explained at its definition. The ones that took
several actors to get right:

* `OneResultEach`: results neither lost nor doubled when a profile switch delays
  the report of one action while others complete.
* `RunsFirstCandidate`: what an attempt runs on is still the first candidate
  when it ends, although the table is replaced in the middle of the step.
* `RetryKnowsItsFailure`: contexts are per role and survive steps, and yet a
  retry sees its own failure. It is stated for roles used once in a step: two
  actions of one step with the same role do overwrite each other's context.
* `SlotsSettle`: the last slot event agrees with the last result, but for a
  profile switch, which announces every slot as assigned, those already waiting
  or disabled too. Where that announcement must stay (the last result came
  before the switch or with it), where it may (the action returned before the
  switch and was joined after it, in the same step) and where it must not (the
  action is of a later step) is part of the property.
* `FirstRetrySwaps`: the first retry runs elsewhere; later ones need not, see
  section 5.
* `Terminates`: the write lock, the read guards, the timers and the joins never
  wait for each other in a circle.
* `RecordIsPrefix`, `SucceededIsComplete`, `SucceededSlotsCurrent`: the hub
  holds nothing of an event before all of the earlier ones, and a pipeline
  marked succeeded has everything, once.
* `ExitSettlesStatus`: with slots whose role is their name, a process that
  exits without a failed request leaves the right status; otherwise section 5.
* `ResumeMissesOnlyOvertaken`: subscribing before the query closes the gap
  between replay and channel, but the replay goes by `created_at`, which a
  handler reads two statements before the row exists. What a client misses is
  therefore exactly described: a message stored or sent after another to the
  same agent that was created no earlier, one with the very same `created_at`
  as one it has, or any after a lag, which the stream reports and does not mend.
  A row whose event could not be stored is never sent; the property speaks of
  what was sent.
* `ReceivedIsStored`: the id a client resumes from is that of a row. For another
  id `replay_messages` would replay nothing and report nothing.
* `ClientsCatchUp`: `handle_stream_chunk` returns after the first message of a
  chunk and keeps the others. They would wait for the next message, were it not
  for the keep-alive every 15 seconds, without which the property fails.
* `StartIInv`, `ServesWholeSchema`, `WedgedForEver`: a start that ends between
  versions, or another process at work on the same database (the address is bound
  only afterwards), never leads to a hub without a table; but one that ends
  between `ALTER TABLE` and the row of its version leaves a database that no hub
  ever serves again.
* `BurstBound`: of `2 * MAX_REQUESTS + 1` requests admitted in a row the first
  and the last are a window apart; twice the limit can pass around a border.
* `LaterClaimIsWarned`: an agent that claims a file after another was answered is
  told of that claim. Two at once may both find it free, as `create_file_claim`
  looks and then inserts: `OneIsWarned`, section 5. A `ttl_seconds` that is a duration
  but leads to no date panics the handler (`files.rs:47`), which inserts nothing.
  Nothing refuses a claim that conflicts, though
  `IMPLEMENTATION_PLAN.md:396` plans to "prevent" them.
* `LastWriteIsTold`: every handler writes and then reads back what it answers.
  Whose write is still there was told so, and of two agents that claim a task
  the one that has it knows; the other may have been told it had it too.
* `RefusedCanBeSentAgain`: what ran before an `authorize` that answers 429 wrote
  nothing, or, in `upsert_working_context`, which authorizes again after its
  write, is an upsert that overwrites and adds nothing to what there is, so that
  the request can be sent again.
* `OutcomesAreCounted`, `OutcomeMovesScoreRightly`, `LearnedWithinBand`,
  `ChosenIsFirstCandidate`: counts survive runs that report at once; the boost
  is within a tenth and moves with the outcomes, except at the fifth outcome and
  where a stale record becomes fresh; `assign` and `candidates` agree also when
  several score the same.
* `AnalyticsAreRanks`: the percentiles' indices against their definition.
* `FalseConflictHasCause`, `LeftoverIsCleared`: a conflict reported for a branch
  that has none was caused by a simulation that had not returned; a dropped one
  leaves `MERGE_HEAD`, although `merge.rs` promises that "the worktree is never
  left poisoned", and the next simulation, failing, clears it.
* `StrangerOnlyAfterReap`: the id in the handle of a child that was reaped and
  is still in the map may be another process's; the mutex over the sleep is what
  keeps two commands from doing this to each other.
* `LostOnlyByRace`: a shared server is lost only when two starts overlap.

The type invariants of `Pipeline` and `HubStream` are parts of `IInv` and
`StreamIInv` and are checked there; that of the requests is `RecordsTypeOK`.

## 5. Disagreements found

1. `ConditionalFollowsHealthy`: after a parallel step, `when_healthy` looks at
   the action joined *last*, so a step runs although another action of the
   previous step failed and was skipped (`pipeline.rs:231`).
2. `EveryRetrySwaps`: `fallback_assignment` compares with the first candidate
   and not with the runtime that failed: the second retry runs on the one that
   just failed, and a third candidate is never tried (`slots.rs:65`).
3. `HoldsSlotEvents`: a failing run aborts `event_task`, and the slot events
   still in the channel, the failure's own among them, never reach the hub
   (`commands/pipeline.rs:146`).
4. `ExitSettlesStatus` with a slot whose role is not its name: storing its first
   event is answered 404, `event_task` ends, the run goes on to its success, and
   the pipeline stays `running` (`commands/pipeline.rs:108`).
5. `OneIsWarned`: of two agents that claim a file at once neither is warned of
   the other, as both look before either inserts (`handlers/files.rs:28`),
   although a claim is to hear of a conflict.

## 6. The proofs

### Pipeline

`Pipeline_proofs` proves, for every workflow, number of actions, ranking, policy
and set of outcomes:

| Theorem | States |
| --- | --- |
| `InductiveInvariant` | `Spec => []IInv` |
| `TypeCorrect` | `[]TypeOK` |
| `ReportsAreHealthyUnlessSkip` | `[]HealthyUnlessSkip` |
| `StepsDoNotOverlap` | `[]StepBarrier` |
| `ReportIsComplete` | `[]OneResultEach` |
| `TableStableUnderAttempt` | `[]RunsFirstCandidate` |
| `RetriesKnowTheirFailure` | `[]RetryKnowsItsFailure` |
| `AdaptsExactly` | `[]AdaptsOnFailureRate` |
| `SlotsAgreeWithResults` | `[]SlotsSettle` |
| `FirstRetriesSwap` | `FirstRetrySwaps` |
| `PipelineImplementsContract` | `Spec => ImplementsContract` |

**Assumptions.** `WorkflowAssumption`: the shape of a workflow, at most one
action at a position of a step. `SchedulingAssumption`: rankings are sequences
of runtimes, not empty exactly for the roles with a slot (the scheduler fails
on a slot without a candidate), policies are of four kinds. Nothing is said of
finiteness: there may be infinitely many actions, and `Ranking` is arbitrary.

**The argument.** None of the properties is inductive alone. `IInv` adds

* `TableInv`: the table is the ranking of *some* profile, and an action past the
  choice of its runtime has a slot. Without it, `FallbackAssignment` could be
  asked for the first of no candidates and `override` would lose its type.
* `OutcomeInv`: an action that returned normally is healthy or its role is
  skipped. `HealthyUnlessSkip` speaks of the report only, and would break when
  a result arrives there.
* `LoopInv`: before a step begins its actions are unspawned, and the loop waits
  for the lock exactly while joining one action. `StepBarrier` and
  `OneResultEach` need it when a step begins and when `Refresh` reports.
* `ContextInv`: a failure waiting for its fallback is still the one in its
  role's context; `Fallback` then hands it to the retry.

Each part has a lemma that the steps preserve it (`TypeStep`, `TableStep`,
`OutcomeStep`, ...), one proof step per action that can disturb it.
`RunsFirstCandidate` is preserved by `Refresh` because the write lock is granted
only when `Holding` is empty. The refinement distinguishes steps that change
nothing the contract sees (`Invisible`) from those that record, skip, advance,
succeed or fail (`Visible`).

TLC checks the whole `IInv` in `pipeline_adaptive`.

The last three theorems need a second invariant, `ReportIInv`, inductive given
`IInv`:

* `CountInv`: the controller has counted exactly the results reported, but for
  the one that waits for the write lock: that one it has counted already. This
  is why the switch happens at the right result although its report is late.
* `ReportInv`: results are reported in the order of the steps, each with the
  health of its action.
* `SettledInv`: a slot has the status that the action of its role which was last
  to announce anything left, or that of the switch (`SlotSays`). An action of an
  earlier step cannot announce anything again, by `StepBarrier`; a switch comes
  when no result before it was one, by `CountInv`, and a result that comes after
  it makes it neither earlier nor later for the others (`NoEarlierSwitch`).
* `FirstInv`: an action without a failed attempt runs on the first candidate, so
  that `FallbackAssignment`, which looks for one that differs from the first,
  finds another runtime.

### PipelineRecord

`PipelineRecord_proofs` proves, for the same workflows and for every way in which
requests fail, are aborted or are executed late, under `RowAssumption` (slots are
finitely many and stored under roles):

| Theorem | States |
| --- | --- |
| `CommandRunsPipeline` | `RecordSpec => Spec` |
| `RecordInductive` | `[]RecordIInv` |
| `RecordIsAPrefix` | `[]RecordIsPrefix` |
| `OnlyStartedRuns` | `[]RunsOnlyWhenStarted` |
| `SucceededRecordComplete` | `[]SucceededIsComplete` |
| `ExitsSettle` | `[]ExitSettlesStatus`, if `RowsByRole` |
| `SucceededSlotsAreCurrent` | `[]SucceededSlotsCurrent`, if `RowsByRole` |

`CommandRunsPipeline` makes `IInv` available: what the orchestrator does inside
the command is what it does alone. `RowsByRole` says that the hub stores each
slot under its own role; without it `record_stuck` refutes `ExitSettlesStatus`.

* `StageInv`: which stages `handle_pipeline`, `event_task` and the orchestrator
  can be at together. `succeeded` is written only after `event_task` has ended
  by itself, hence with an empty channel and nothing left to store.
* `StoreInv`: what the hub holds of the event being stored and what the requests
  that are left will make are disjoint, and together they are what is due; what
  is left makes nothing twice. Taking the next event needs nothing to be left,
  which gives `RecordIsPrefix`; an aborted or failed `event_task` may leave a
  part of a request, but takes no further event.
* `ExitInv`: only an event of a slot touches the rows, and a role without a slot
  sends one only when an action of it has begun, which fails the run. So a
  request answered 404 never keeps a run that is done from being marked so.
* `RowInv`: the last event sent of each slot has the slot's status (the lemmas
  about `Telling` say what every step sends), and the row has that of the last
  event whose first write was made.

TLC has checked these invariants too, before they were proved.

### HubStream

`HubStream_proofs` proves, for any number of agents, clients, requests and
recipients and any capacity, under `StreamAssumption` (followers are agents, a
request with a recipient has one):

| Theorem | States |
| --- | --- |
| `StreamInductive` | `Spec => []StreamIInv` |
| `StreamTypeCorrect` | `[]StreamTypeOK` |
| `ReceivedStored` | `[]ReceivedIsStored` |
| `ResumeLosesNothing` | `[]ResumeMissesOnlyOvertaken` |

`ResumeMissesOnlyOvertaken` speaks of streams that have yielded everything.
`StreamIInv` says for every state where a message is that a client misses:

* `StoredInv`: drafts, the channel, replays, chunks and buffers hold rows.
* `ResumeInv`: it is created after the latest one the client has handled, so the
  next replay finds it; or it is stored, not yet sent, and doomed to be
  overtaken. It says this of connected clients too, who may leave at any time.
* `ComingInv`: for a live stream it is in the replay or further on in the
  channel. It begins with `ReadReplay`, from `ResumeInv`.
* `ReplayInv`, `OrderInv`: replay before the rest, and the channel in the order
  of `created_at` but for what was overtaken. With them handling one message
  (`YieldReplay`, `Forward`) keeps `ResumeInv`: what it leaves behind is later.

The proof uses nothing of `clock`: it holds for a clock that is set back.
TLC checks the whole `StreamIInv` in `stream_resume`.

### The hub's start and its rate limit

`HubProcess_proofs` proves `StartSpec => []StartIInv`, `[]ServesWholeSchema` and
`WedgedForEver` for all scripts and any number of processes, under
`ScriptsAssumption` (the scripts are not empty) and `ColumnAssumption` (no column
is added twice, in one script or in two). `StartIInv` says what a process that
is at a statement knows of the schema (`ProgressInv`), that a recorded version is
applied in full, and that a column without its version's row is either somebody's
who is past it now or torn (`UnrecordedInv`, `AloneInv`, `AbsentInv`). That a
wedged database stays wedged needs `ColumnAssumption`: no other statement can
add or remove the column that stops every start, so its version is never recorded
and no process gets past it.

It also proves `LimitSpec => []BurstBound` for every window and limit: the
invariant relates the last requests admitted to the bucket's window.

### The service

`HubService_proofs` proves, for every number of requests, agents, rows, failures
and hubs that end, and for every order of their statements:

| Theorem | States |
| --- | --- |
| `ServiceStarts`, `ServiceLimits` | `ServiceSpec => StartSpec`, `ServiceSpec => LimitSpec` |
| `ServiceHasSchema`, `ServiceIsWedged`, `ServiceBurst` | `[]ServesWholeSchema`, `WedgedForEver`, `[]BurstBound`, by them |
| `ServiceInductive` | `[]ServiceIInv` |
| `ServiceTyped` | `[]RecordsTypeOK` |
| `MessagesAreInThreads` | `[]MessageHasThread` |
| `RefusedCanRetry` | `[]RefusedCanBeSentAgain` |
| `LaterClaimsAreWarned` | `[]LaterClaimIsWarned` |
| `LastWritesAreTold` | `[]LastWriteIsTold` |
| `CountsAreExact` | `[]OutcomesAreCounted` |
| `AnalyticsRankMetrics` | `[]AnalyticsAreRanks` |
| `LearningIsBounded` | `[]LearnedWithinBand` |
| `ChoicesAgree` | `[]ChosenIsFirstCandidate` |
| `OutcomesMoveScores` | `OutcomeMovesScoreRightly` |

**Assumptions.** `WorkloadAssumption`: each request is one that the router and the
extractors let through (`Extracted`: an operation the router has, a status that
parses, counts that are natural numbers); requests are finitely many; clients
that poll only read; the rows there are at first have the columns of their table,
parse, and are of no request of the workload, their messages have threads, and
their metrics are finitely many and numbered, as SQLite numbers them.
`SlotsAssumption`: a slot has lists of capabilities and preferences. With
`ScriptsAssumption`, `ColumnAssumption` and those on the window and the limit, TLC
evaluates all of them in `hub_service`.

**The argument.** A handler is a list of statements, and the properties speak of
all of them. `HubRecords_proofs` therefore says once what every list is like
(`Conforms`) and proves it of each of the 54 (`RoutedConforms`): columns that fit
the table, a `read` of the row after each write that is answered (`Tells`), a
thread ensured before its message (`ThreadsFirst`), no `authorize` after a write
but an upsert that adds nothing (`AsksFirst`). `ServiceStep` then reduces every action of the service
to one of three: a request runs, fails or skips its statement (`Serves`), requests
are dropped (`Drops`), or one is sent again. `ServiceIInv` relates what is in the
tables to the statements that were run:

* `AuthorInv`: each row and event is of a statement that its request has run. This
  turns properties of rows into properties of lists: a request that is answered
  429 at its `authorize` has run nothing that writes, but for what may be run
  again (`RefusedCanRetry`).
* `ToldInv`: as long as a row is a request's own, the request holds it from the
  statement that shows it on. Somebody else's write makes it theirs, and a read
  that comes after that write takes the hypothesis away.
* `ClaimInv`: a claim has the path of its request, and a request that was received
  after another was answered has the other's claim among what it selected, or the
  claim is gone. `BeforeInv` says that answers stay, and so the claim was there
  before the look.
* `ThereInv`: what was read, ensured or upserted stays, as only claims are deleted;
  `MessageInv` needs it between `ensure_thread` and the message.
* `CountInv`: a count is the one there was and the number of outcomes whose
  statement ran (`RecordedServed`: one step adds one request to that set, or none).
* `FoundInv`, `MetricInv`: what was selected are rows of the table asked for, each
  of which parses, and metrics are finitely many.

`ServiceIInv` names the handlers' statements in every part, and with TLC's coverage
on it exhausts the memory that suffices for the rest of `hub_service`. It is not
among that run's invariants; the properties it implies are.

The last four theorems add the arithmetic, from `Scores_proofs`:

* `LearnedBoostWithin`: halving keeps a bound (`HalvedWithin`), and so do the sum
  and the mean of the records that count (`TotalWithin`). The recursive functions
  `Halved` and `Total` are reasoned about by `SetInduction` and `Iterated`: the set
  of the numbers for which a function with the right values exists is all of `Nat`.
* `FreshDeltasOrdered`: a record with a larger share of successes, compared as a
  product, has a larger delta. `OutcomesMoveScores` needs besides that one more
  success never lowers the share.
* `CandidatesBeginWithAssign`: the place of a preference is one more than the number
  that precede it, so the first is the one that none precedes, which is the first
  of the best.
* `PercentileIsRank`: the numbers of metrics before each metric are 0 to `n - 1`,
  each once (`EveryRankIsTaken`), so `SortedLatencies` has a value everywhere, and
  `PercentileIndex` is the least index that covers its share (`IndexIsRank`).

As in the model, a score is a whole number of `1/Unit` and quotients are rounded
down; the theorems hold for every number of outcomes under that rounding and say
nothing of the last digits of an `f64`.

### The host

For any number of calls, `Host_proofs` proves `[]FalseConflictHasCause` and
`[]LeftoverIsCleared` of the merge simulations, `[]StrangerOnlyAfterReap` of the
supervisor and `[]LostOnlyByRace` of the MCP servers, and that the host keeps all
four (`HostKeepsPromises`). The assumptions say that calls of different kinds are different and that the model
values for "none" are none of them.

* `MergeIInv`: git processes of two calls never hold the lock of the index
  together, `MERGE_HEAD` is of a merge that ended and was not aborted yet, and a
  merge that has ended never runs again.
* `SupervisorIInv`: the mutex is held by exactly the command between its look
  and its answer, whose target is in the map, started and not taken by a waiter.
  Nobody else reaps such a child: its id is its own until a command reaps it.
* `McpIInv`: the map holds servers that were entered and not asked to stop, and
  a start that is past its look has in its hand a map without what had been
  entered before: replacing an entry therefore needs one entered meanwhile.
  What a shutdown is still asking to end was entered and is out of the map.

### Only model-checked

Liveness (`Terminates`, `Exits`, `ClientsCatchUp`, `EveryCommandEnds`), for
which the prover has no fairness reasoning. Nothing is proved of `FailurePolicy`
and `RuntimeOutput`: the proofs about `Pipeline` take policies and outcomes as
they come.

## 7. What is not modelled

Prompts, skills, the wording of events, compression, embeddings, and what agents
write. The command lines of each kind of agent. Discovery but for the MCP
servers: its functions read files once. The protocol types and the HTTP client
except for `watch` and the enumerations: they serialise requests and keep no
state. The other commands and the terminal interface: one request and a printout
each. Worktrees have a directory per role and share nothing; snapshots,
validation and removal are called by no program. Of `agent-hub`, `lib.rs` only
re-exports `acp_hub` and `acp_protocol`, so its own `db.rs` and `handlers` are
not compiled; its `main.rs` starts the hub as `acp-hub` does. `agentctl` sends
one request per command, and its `watch` is the client of `HubStream`.

Where the documents and the code differ and no run is needed to see it:
`docs/WORKFLOW_YAML.md:125` says that `when_healthy: false` runs a step "only after
a failure", and `pipeline.rs:253` looks at the previous health only if it is true;
`docs/HTTP_API.md:110` calls the stream one of "pipeline and slot lifecycle
events", and it carries messages only; `docs/ARCHITECTURE.md:45` and `:122` speak
of four migrations, and there are five; `docs/ARCHITECTURE.md:103-113` has another
formula for the scores than `scheduler.rs`.
