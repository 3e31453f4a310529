# A verification project for the intelligent analysis agent

The repository is a data-analysis assistant: a React client talks to a FastAPI
service; a chat turn drives a ReAct agent that calls tools in a Docker sandbox,
asks the user to confirm plans and prompts, and may run in a Celery worker.
PostgreSQL keeps sessions, messages, agent states and sandbox bindings; Redis
keeps everything two requests have to agree on. This directory models the parts
of it whose correctness depends on who does what when, checks them with TLC and
proves the most important results with TLAPS.

File names below are relative to `src/`; `SLS` is
`app/services/sandbox_lifecycle_service.py`, `AS` is `app/services/agent_service.py`,
`K` is `app/api/kuncode.py`, `KS` is `sandbox_image/routers/kuncode_stream.py`, `ST` is
`frontend/src/stores/session.ts`.

## 1. Inventory

| component | state | operations | what is hard | module |
|---|---|---|---|---|
| **Sandbox lifecycle** (SLS, `repositories/file_repo.py`, `api/sandbox.py`) | `sandbox_bindings` rows (status, container, lease, `release_attempts`), the Runtime's registry, `sandbox_lifecycle_lock`, `_local_locks`, `session_task`, `_active_agents` | `acquire`, `heartbeat`, `mark_idle`, `release`, `_ensure_capacity`, `reconcile` | every check is an await away from the act it licenses; processes share a lock that may fail or lapse; Runtime calls outlive their cancelled callers; crashes | `SandboxLifecycle` |
| **Session deletion** (`services/session_cleanup_service.py`) | the session's row, files, keys | interrupt, release, delete | the order of deletions against a running turn | `SandboxLifecycle` (in part) |
| **Chat turn and task runner** (AS, `tasks.py`, `api/conversation.py`) | `session_task`, `task_stream`, `agent_interrupt`, the agent | `submit_async_task`, `_chat_impl`, `interrupt_agent`, `finally` | deadlines, cancellation, an interrupt that races the end of the turn, a worker that is lost | every module its own view of it |
| **Human-in-the-loop previews** (K, AS 655-1186) | `*_pending`, `*_preview`, `*_confirm`, confirm locks, the turn's gate | create, wait, confirm, edit, reset, poll, time out, clean up, `create_plan` | read-modify-writes of one JSON value by waiter, clients and editors | `HumanGate` |
| **Task stream** (AS 2788-2895, `api/conversation.py`, `utils/sse.py`, `frontend/src/api/client.ts`) | `task_stream`, the reader's position, `lastEventId` | submit, append, read from a position, reconnect | a reader that reconnects, two writers, a second run of the task, a writer that goes on after `end` | `TaskStream`, abstractly `TaskFeed` |
| **Message history** (`repositories/session_repo.py`, `postgres_session_history.py`, `compressed_memory.py`, `api/sessions.py` 31-190) | messages by `created_at`, `session_summary` | append, insert behind a call, reorder, delete orphans, repair, compress | turns that overlap, compression against appends, pairing of calls and results | `SessionHistory` |
| **Process supervisor** (KS, `data_analysis_sandbox.py`) | processes in the container, `_active_executions`, `_terminal_executions`, the client's connection | start, stream, time out, cancel, kill, confirm | a kill that races a natural exit, a client that is lost, runs that share an id | `KunCodeRun` |
| **Browser stores** (ST, `conversationProjection.ts`) | messages, `isStreaming`, `_selectVersion`, EventSources | select, send, interrupt, answer, poll, project events | continuations of older clicks, streams of other sessions, replayed events | `SessionView` |
| **Orphan scan and warm pool** (SLS 714-1051) | docker ps, container labels, pool snapshot | list, two preflights, removal | containers in flight between pool and row | – |
| **Plans and auto-continue** (`api/plans.py`, `services/plan_state.py`, K 692-865, `tasks.py` 256-355) | the agent state's `plan_notebook`, `auto_continue` | plan hook, edit, abandon, continue | three writers of one JSON document | – |

The last two are read but not modelled, for the reason section 8 gives. Nor are, because no
decision of the above depends on more than their outcome: model factory, prompts and
formatters; observability and audit; file injection and secrets; the knowledge base (parsing,
Milvus queries); files, users and tokens; the wiring, settings and scripts; the vendored
skills. `PROJECT.json` lists them with their sources.

How they interact: a page submits a task and watches its stream; a worker runs it as a chat
turn, which `acquire`s its sandbox before anything else and renews the lease by heartbeats;
the reconcile loop, the administrator, a deletion and other turns' evictions `release` it,
asking `session_task` and `_active_agents` whether someone is at work; the agent's tools run
KunCode in the container, create previews and poll Redis for the user's answer; the model
reads the stored history behind its summary; an interrupt kills the container's process, sets
`agent_interrupt`, revokes the task, clears `session_task` and every preview and ends the
stream.

What makes each component correct:

- *Sandbox lifecycle*: one guarded operation per session at a time; a row that says
  RELEASED names a container that is gone; no container without a row that claims it; a
  running turn keeps its container; a release that was begun ends; the hard limit on
  containers.
- *Human gate*: a plan is created only with the user's consent and once per consent; a
  preview is decided once; an answer ends the wait it was given to, and no other outcome
  replaces it.
- *Task stream*: a viewer is handed every event once and in order and then released; every
  tool call a turn wrote has an output; a finished task is not the session's active one.
- *Message history*: the memory of a model is well-formed; every message is in the memory or
  in the summary; a tool's result is not hidden by a filler.
- *Process supervisor*: "termination confirmed" only of processes that are gone; a cancelled
  run is not reported as a success; every stream ends and its process with it.
- *Browser stores*: what is on screen belongs to the session on screen; no event undoes a
  result; the page does not stream for ever.
- *Orphan scan*: a container bound or pooled is never removed; *Plans and auto-continue*: no
  writer loses another's decision, one continuation per unfinished plan.

## 2. Modules

| module | models | results |
|---|---|---|
| `SandboxLifecycle` | SLS without the orphan scan, with turns, deletion, interrupt, administrator, Runtime and faults | five runs, six theorems in two modules |
| `HumanGate` | K (previews), the HITL tools and the plan gate of AS, the end of a turn around them | two runs, four theorems |
| `TaskFeed` | what a task stream promises its viewers: the abstract specification | refined by `TaskStream` |
| `TaskStream` | submission, the run of a task, the interrupt request, the stream, its reader and its client | one run, four theorems |
| `SessionView` | the session store of a page over streams that behave like `TaskFeed` | one run, three theorems |
| `KunCodeRun` | KunCode's runs from the tool call to the last process, with everybody who stops them | two runs, three theorems |
| `SessionHistory` | rows and summary of a session under overlapping turns and compressions | one run, four theorems |

A module `M` is proved about in `MProofs`, `SandboxLifecycle` also in `SandboxContainerProofs`;
`SequenceLemmas` holds what the proofs about messages share.

The modules share the turn but no variables: each states what it needs of the others as its
own environment. `SessionView` takes for granted what `TaskStream` is proved to implement (a
stream hands over the log of its task from the first event on, up to its end); `TaskStream` ends the
producer by the deadline that `KunCodeRun` and `SandboxLifecycle` know as the turn's;
`KunCodeRun` supplies the meaning of "termination confirmed" with which an interrupt begins
in `HumanGate`, `TaskStream` and `SandboxLifecycle`.

## 3. The models

### 3.1 `SandboxLifecycle`

`SandboxLifecycle.tla` (instances: `MCSandboxLifecycle.tla`) models workers, asyncio tasks
of the processes `Processes`, each allowed the operations `Roles[w]`.

| variable | code |
|---|---|
| `binding` | the `sandbox_bindings` row per session: status, container, lease (none, live, expired), `release_attempts` |
| `owner`, `sick` | the Runtime's registry and the health of its containers |
| `ghost` | Runtime calls in threads whose awaiting task was cancelled or died (`asyncio.to_thread`) |
| `redisLock`, `localLock` | `sandbox_lifecycle_lock:{session}` and `_local_locks` of each process |
| `marker`, `agents` | `session_task:{session}` and `_active_agents` of each process |
| `job`, `call` | where each task is, with its local variables; `call` is the `release()` it is inside of |

One action per await that touches shared state. `AcqEnter` … `AcqLeave` are `acquire` with
`_verify_runtime`, `_detach_stale_runtime`, `_ensure_capacity` and the undo of a failed
INSERT; `RelEnter` … `RelLeave` are `release` with `_has_active_task`,
`_release_bound_runtime` and its retries; `RecList` … `RecDone` are `reconcile` over its
listed rows; `Injected`, `RegisterAgent`, `FinishTurn`, `MarkIdle*`, `EndTurn`,
`Heartbeat` are the turn as the sandbox sees it; `StartRelease`, `StartDelete`,
`DeleteRow`, `Interrupt` the other callers. `Environment` breaks containers, lets leases,
locks and markers lapse, ends abandoned Runtime calls, cancels turns by their deadline and
kills processes.

Abstractions: an UPDATE and the read of the row it returns are one step (one database
session); time is not counted: a lease lapses only when no turn of the session runs (1800 s
against a deadline of 1500 s), idle age and back-off are choices of the reconcile loop, as
it may look at any later time; a container id is never reused; a lost reply of the lock's
SET leaves no key; `session_task` names one turn or nothing, and lapses only when that turn
is over; `release_attempts`, which nothing in the code bounds, is counted up to `AttemptCap`: counts
from the maximum on are never told apart, so stopping to count there loses nothing.
`record_configuration` and the snapshot for administrators are read by no decision.

### 3.2 `HumanGate`

`HumanGate.tla` (instances: `MCHumanGate.tla`) models one session: chat turns, their agents,
clients, previews.

| variable | code |
|---|---|
| `pending` | `kuncode_pending`, `plan_pending` |
| `preview` | the `status` of `kuncode_preview:…:{id}`, `plan_preview:…:{id}` |
| `answer` | `kuncode_confirm:…:{id}`, `plan_confirm:…:{id}` |
| `lock`, `stop` | the confirm locks, `agent_interrupt` |
| `chat`, `agent` | the chat loop of a turn and the agent it started; the agent's current tool call |
| `gate`, `cache` | `PlanConfirmationGate` and `resolved_previews` of the turn |
| `req` | the HTTP request each client has under way |
| `asked`, `accepted`, `outcome`, `made` | history for the properties, read by no decision (`asked` also makes preview ids unique) |

Each Redis call is a step. `Ask*`/`Show` create a preview, `SeeStop`, `SeeAnswer`,
`TakeAnswer`, `SeePreview` are one round of the polling loops, `Reread`, `AutoConfirm`,
`GoAhead` the timeout of a prompt (which goes ahead) and `UnlistPlan`, `Expire` that of a
plan (which does not); `Returns` is what the waiting tool does with the outcome, `CreatePlan`
the gate. `StartAnswer` … `DropPlan` are `confirm_kuncode` and `confirm_plan_preview`, which
write the same keys in different orders; `StartLook`, `Find`, `Look`, `WriteBack` are `GET
/pending`, `reset_preview_timer` and `update_plan_preview_content`. A turn ends by finishing,
by an interrupt (the monitor cancels the producer, not the agent), by a plan not confirmed,
or without clean-up (deadline, exception, crash).

Abstractions: texts of prompts and previews are dropped; plans are what the gate tells
apart, so `_subtask_matches` is equality on `Plans`; a preview's time may be up at any poll,
which covers every reset of `created_at`; the 300 s and 3600 s expiries of answers, previews
and pending keys are left out, being far longer than the polling interval of 0.5 s; the
interrupt stops the agents of its own process in the step that sets `agent_interrupt`.
`reset` and `edit` take the same steps from `find_plan` on; the standing run uses `reset`.
Starting a turn's agent loop and the handling of its interrupt by AgentScope are external code,
modelled from how AS uses it.

### 3.3 `TaskStream` and `TaskFeed`

`TaskFeed` is the promise: a log per task that only grows; a viewer watches at most one task
and is shown a growing prefix of its log, nothing behind the first event that ends it.
`TaskStream` implements it: `Feed == INSTANCE TaskFeed` maps the log and what each page was
handed to themselves, the task of a connection to `watch`, and `FeedSpec` is both checked by
TLC and proved (`StreamImplementsFeed`).

| variable | code |
|---|---|
| `sub`, `active` | the steps of `submit_async_task`; `session_task` (with `clear_session_task`) |
| `stop`, `revoked` | `agent_interrupt`; `celery_app.control.revoke` |
| `run` | the worker of a task: `_execute_analyze_task`, `_chat_impl` with its monitor, its producer (`stream_producer`), its queue and `pending_tool_calls` |
| `intr` | `interrupt_agent`, one awaited call per step |
| `log` | `task_stream:{task}`; an event's id is its position |
| `conn`, `shown` | `stream_task` and `read_task_stream` with the client's EventSource; `shown` is history |

`StartFails` is a task that ends before the `try` of its runner (no message, `init_db` or `start`
raises; `tasks.py` 201-213): it writes nothing and clears nothing. `Begin` … `ClearDeletes` are the turn: `Produce`, `ProducerStops` and `ProducerFails` fill the
queue, `Consume` turns a message into a call (again when its input is final) or a result (again for
every last chunk), `Interrupted`, `PlanCancelled` and
`LeaveLoop` leave the loop, `Cancel`, `After` and `Expire` close pending calls one event ("closing") at a
time, `Fail` and `EndAnyway` end a stream that the chat did not. `Crash` gives the task back to
the queue (`task_acks_late`, `task_reject_on_worker_lost`), and it runs again into the same
stream; `Kill` is a revocation. `Receive` hands a page one chunk of events, `Lose` breaks the
connection, at most `MaxReconnects` times before the client gives up.

Assumed of AgentScope: it finishes a message of its model before it runs the calls in it, so a call's
final input is not behind its output and no output is of a call that was not announced. A second output of
a call is left possible, as the code would write it.

Abstractions: events that open and close nothing (text, plans, progress) are left out, but for
the one that `Begin` writes; `run` in an event is history, the deliveries of a task counted, 0 for
the interrupt request; a heartbeat and an unread message on a breaking connection
change nothing.

### 3.4 `SessionView`

| variable | code |
|---|---|
| `ui` | the store: `currentSession`, `_selectVersion`, `messages`, `isStreaming`, the current turn, buffered results, `eventSource`, plan and pending preview |
| `stream` | the EventSources that calls of `selectSession` and `sendMessage` opened |
| `sel`, `send`, `stopping`, `loads` | those calls, `interruptCurrentTask` and the fetches of plan and preview, each at its await |
| `task`, `turns` | the server: what tasks of which session have written so far |

The page is one thread; what interleaves is its continuations, so a step is what runs between
two awaits or the handling of one event. `Select` … `SelectTask`, `Send` … `SendSubmitted` are the
continuations; `Deliver` is `onMessage` with `handleStreamData` (`Handle`, `Call`, `Result`,
`Finalize` are the projection as operators on the store) and `onDone`; `Poll` is the timer of the pending preview. A task's
log is one of `Scripts`, written event by event. Abstractions: texts, times and files; history
is projected with one answer per turn; `runs` remembers for which session `isStreaming` was set.

### 3.5 `KunCodeRun`

| variable | code |
|---|---|
| `turn`, `late` | the turn as far as its tool calls go; `ExecutionDeadline` |
| `tool`, `open` | `run_kuncode` of the adapter and its connection; "incomplete" if the client gave the stream up before a result |
| `stream` | `_stream_kuncode_output` at its awaits and yields, with the result it will tell |
| `proc` | the leader of a process group and the rest of what carries the execution id |
| `active`, `terminal` | `_active_executions`, `_terminal_executions`, keyed by execution id |
| `call`, `told` | the callers of `cancel_kuncode` (a cancelled tool call, an interrupt) and the answer they got |
| `marked` | history: runs whose entry was marked cancelled while their leader lived |

The router is one event loop and never awaits inside `_executions_lock`, so a step is what lies
between two awaits. All runs of one turn share an execution id (`_execution_context`), which is
why `active` and `terminal` are functions of turns. `Admit` … `Note` are the stream, `Interrupted` the
`CancelledError` of a lost client at an await and `Closed` its `GeneratorExit` at a yield; `Reach`,
`ReachNone`, `Ended`, `Poll` are `cancel_kuncode` and the polls of the process status. A process
forks, exits, closes its output or resists SIGKILL as it likes.

Abstractions: output is dropped; SIGTERM, the grace and SIGKILL of `_terminate_process_group`
are one step with the look that follows, each process killed or stuck; the refusal of a model or an agent (403)
never reaches a process.

### 3.6 `SessionHistory`

| variable | code |
|---|---|
| `rows` | `SessionMessage` by `created_at` (user message, call, output, answer) |
| `summary` | `session_summary:{session}` with the count of covered messages |
| `turn` | a turn: the summary it was created with, the calls it has to fill, its agent |
| `compress` | a run of `_do_preemptive_compression` between its reads and its write |
| `doomed` | outputs a reader found without a call and is about to delete |
| `swept` | history: outputs deleted although their call is stored |

`Begin`, `Repair`, `Fill`, `Start` are the beginning of a turn, `Stream`, `StoreCall`, `Result`,
`Answer` the agent's rows. The consumer ends after an interrupt (`Interrupt`, `Fill`, `Stop`) or leaves without a
word to the agent (`Leave`: deadline, exception, a producer cancelled before the loop looked); either way its
`finally` cancels the producer and not the task of the agent, which stores on, and if it was left also calls on,
until it ends or its event loop is closed (`LoopCloses`). A turn is settled (`Quiet`) when both are at their end. `ReadRows`,
`ReadSummary`, `Save`, `SaveStub`, `GiveUp`, `Expire` the summary. `Reordered`, `Orphans` and
`InsertedAfter` are `_reorder_by_call_id` and `insert_after_plugin_call`, `SafeCut` and `Memory`
`find_safe_cut_point` and `CompressedMemory.get_memory`. A direct turn (`Direct`) stores a call
without a model and its result behind it.

Assumed: a message of the model makes one tool call. `parallel_tool_calls=False`, with which the agent is
built, only makes it run its calls one after the other; a message with more would store them all before
the first result.

Abstractions: a message of the model's list is a row; `created_at` comes from one clock; the lock of a compression is
ignored, being a dictionary of one process; where two inserted outputs get the same
`created_at`, either order is possible.

## 4. Runs

Two workers of TLC finish every passing run in about three minutes or less.

| run | bound | shows |
|---|---|---|
| `SandboxReap` | 1 session, 3 containers, 2 turns (sync, async), 1 worker that reconciles and administers, 2 processes | `GuardExclusive`, `ReleasedIsGone`, `NoStrayContainer`, `ProtectedTurn` without faults |
| `SandboxCapacity` | 2 sessions, limit 1, 2 async turns | eviction leaves no stray container and spares a named turn |
| `SandboxFaults` | 1 turn; reconcile, deletion, interrupt; failing Runtime, deadlines, both processes may die | `TypeOK` and the three safety properties that survive faults |
| `SandboxLeaky` | 2 turns, administrator, Redis fails and keys lapse | the inductive invariant `GuardInv`, all that is left of the guard then |
| `SandboxRetry` | 1 turn, reconcile, failing Runtime | `ReleaseResolves` under `Fairness` |
| `GateConsent` | 1 turn, 2 clients, 2 plan previews, 2 plans, answers and resets, turns fail | `TypeOK`, `PlanNeedsConsent`, `PlanDecidedOnce` |
| `GateWait` | 1 turn, 1 client, a prompt and a plan, answers, polls, interrupts | `AnswerHasAuthor`; `AnswerEndsWait` under `FairSpec` |
| `StreamFeed` | 1 task, 1 tool, 1 viewer, 2 messages, 1 reconnect, 2 faults out of interrupts, failures, lost workers, broken connections | `TypeOK`, `NoStaleActive`, `ResultsPaired`; the refinement `FeedSpec`; `ViewersFinish` under `FairSpec` |
| `SessionPage` | 2 sessions, 2 selections, 1 message sent, 1 task of another page, 3 clicks, 1 failed request or stream given up | `TypeOK`, `HistoryOfCurrent`, `SettledTools`; `StreamingEnds` under `FairSpec` |
| `KunCode` | 2 runs of one turn, 1 interrupt in the turn's process, 1 fault out of lost connections and answers, failed starts, processes that resist | `TypeOK`, `ConfirmedIsDead`, `CancelledNotSuccess`; `StreamsEnd` under `FairSpec` |
| `KunCodeInterrupt` | the same with a second interrupt, in another process | the finding of section 7 |
| `SessionHistory` | an agent's turn, whose agent may outlive it, and a direct one, with one call each, 2 compressions, one recent message kept, 1 crash, failed filler or failed summariser | `TypeOK`, `Paired`, `NothingForgotten`, `ResultStands` |

Why these bounds. The interesting schedules pair one actor between its check and its act with
one other actor.

- *Sandbox*: two turns and a reaper give every pair of roles. Three containers let a session
  have its first, a replacement and a spare; two attempts let a release fail, be retried and
  spend its budget; `AttemptCap` is one more, for a count that passes the maximum.
- *Gate*: two clients are a double click with different answers, two previews of two plans are
  a repeated, an edited and a different preview; the agent of a turn that is over runs on, and
  the theorems hold for any number of turns.
- *Stream*: two faults are an interrupt and what it races (a lost worker, a broken connection,
  a deadline), two messages a call and its result, or a call and its final input. A third message, for
  a second output of a call, is in no run: there `RunsPairTheirResults` stands alone. Tasks of a session
  share only `session_task` and `agent_interrupt`; the theorems hold for any number of them.
- *Page*: with two sessions, an older load or stream is always one of the other session; three
  clicks are a switch there and back, or a message, an interrupt and a switch, each under the
  answers of the one before; the theorems hold for any number of each.
- *KunCode*: two runs are the fewest that share an id; four ways to end a run (exit, timeout,
  lost client, cancel) may meet in one state.
- *History*: two turns overlap in every way, one of them repairing what the other does; two
  compressions overtake each other; the theorems hold for any number of turns, calls and
  compressions. With one call per turn a cut never falls between a call and
  an output that the turn was given, so `SafeCut` in `Memory` finds nothing to do; it does in
  `CutOf`.

Symmetry is used for containers, sessions and like workers, and for the compressions, in safety
runs only; the liveness runs use none.

Deadlock is checked in the passing runs of `HumanGate` and, but for `SandboxFaults`, of
`SandboxLifecycle`: the reconcile loop, respectively a client, can always begin something, so a state
without a step would be one where a task waits for ever on the guard. In `SandboxFaults` every
process may be dead, and elsewhere a system whose tasks are done may stop (`CHECK_DEADLOCK FALSE`); that nothing waits for ever there is `ViewersFinish`, `StreamingEnds`
and `StreamsEnd`.

Every property of a passing run has a mutant of the code in `PROJECT.json` that violates it:
a guard without its Redis key or its local lock, an UPDATE that forgets `sandbox_id`, a task
check that sees only its own process, a retry counter that counts down, an off-by-one of the retry
budget; an approval that survives its use, no fallback for an empty answer, no confirm lock, a
plan that goes ahead at its timeout, a waiter that looks only at the listed preview; a task
queued before it is named, an end that leaves calls open, a client that forgets its position or
counts one attempt too many, an interrupt that does not end the stream; a slower load that is
not discarded, a replayed call that reopens its tool, a stream given up without a word; a
termination confirmed by a look at the leader, a cancel looked for only where it is under way,
no `finally`; outputs in stored order, a cut anywhere, fillers at the end of the list.

## 5. Fairness

- `SandboxLifecycle` (`Fairness`): a task that began goes on (asyncio runs ready tasks; every
  Runtime call has a timeout); the reconcile loop starts scan after scan and a due row is not
  passed over for ever; lock waiters are served in order, Redis is polled until the key is free
  (strong fairness of entering the guard); keys with an expiry expire. Nothing is assumed of
  turns starting, Runtime answers or crashes.
- `HumanGate`: only the polling loops go on; neither clients nor the model nor clean-up is
  assumed to do anything.
- `TaskStream`: a submission and an interrupt request that began go on, a queued task is
  delivered and its worker's loop goes on; the producer ends because `TASK_DEADLINE_SECONDS`
  ends it; a reader that can read does (the endpoint blocks on XREAD) and the page's EventSource
  connects or fails. Nothing is assumed of failures, the user and the agent's choices.
- `SessionView`: tasks write on, streams deliver, a message once submitted is answered or fails.
  Of selections and interrupts nothing is assumed.
- `KunCodeRun`: the router's loop runs, a killed process dies in the end, the deadline passes,
  the HTTP client's own timeout fires behind it (the adapter's read timeout), callers of
  `cancel_kuncode` poll on. Nothing is assumed of KunCode: it need neither speak nor exit.

## 6. Proofs

All theorems are about `Spec` for every value of the constants, checked by TLAPS to the last
leaf, from the named assumptions on the constants (`ConstantsAssumption`, `GateAssumption`,
`StreamAssumption`, `RunsAssumption`, `EntriesAssumption`, `ViewAssumption`, `HistoryAssumption`):
the types of the constants, that `None` is no other value, that a page's own messages are not the
tasks of other pages and every script has one end (`ViewAssumption`), and that a direct turn makes
one call (`HistoryAssumption`). Every safety property that a run checks is proved; some need a
hypothesis on the constants, which the run that checks them sets the same way.

| theorem | module | needs |
|---|---|---|
| `TypeCorrect` (`TypeOK`) | `SandboxLifecycleProofs` | – |
| `GuardInvariant` (`GuardInv`) | `SandboxLifecycleProofs` | – |
| `GuardExcludes` (`GuardExclusive`) | `SandboxLifecycleProofs` | `Reliable` |
| `NamedTurnsAreProtected` (`ProtectedTurn`) | `SandboxLifecycleProofs` | `Reliable` |
| `ReleasedContainersAreGone` (`ReleasedIsGone`) | `SandboxContainerProofs` | `Reliable` |
| `NothingIsStray` (`NoStrayContainer`) | `SandboxContainerProofs` | `Reliable`, `Calm` |
| `TypeCorrect` (`TypeOK`) | `HumanGateProofs` | – |
| `ConsentIsUsedOnce` (`PlanNeedsConsent`) | `HumanGateProofs` | – |
| `AnswersAreAuthored` (`AnswerHasAuthor`) | `HumanGateProofs` | – |
| `PlansAreDecidedOnce` (`PlanDecidedOnce`) | `HumanGateProofs` | `~LockMayLapse` |
| `TypeCorrect` (`TypeOK`) | `TaskStreamProofs` | – |
| `StreamImplementsFeed` (`FeedSpec`) | `TaskStreamProofs` | – |
| `DoneIsNotActive` (`NoStaleActive`) | `TaskStreamProofs` | – |
| `RunsPairTheirResults` (`ResultsPaired`) | `TaskStreamProofs` | – |
| `TypeCorrect` (`TypeOK`) | `KunCodeRunProofs` | – |
| `ConfirmedHolds` (`ConfirmedIsDead`) | `KunCodeRunProofs` | – |
| `CancelledIsHeard` (`CancelledNotSuccess`) | `KunCodeRunProofs` | – |
| `TypeCorrect` (`TypeOK`) | `SessionViewProofs` | – |
| `HistoryIsOfCurrent` (`HistoryOfCurrent`) | `SessionViewProofs` | – |
| `SettledStaysSettled` (`SettledTools`) | `SessionViewProofs` | – |
| `TypeCorrect` (`TypeOK`) | `SessionHistoryProofs` | – |
| `ResultsStand` (`ResultStands`) | `SessionHistoryProofs` | – |
| `MemoryIsPaired` (`Paired`) | `SessionHistoryProofs` | – |
| `NothingIsForgotten` (`NothingForgotten`) | `SessionHistoryProofs` | – |

- `Reliable`: Redis answers and no lock key lapses under its holder, or all workers share one
  process. Without it exclusion fails (section 7).
- `Calm`: the Runtime answers, no turn is cut off by its deadline, no process dies and no session
  is deleted. None can be dropped: a creation whose answer fails, a cancelled or a dead `acquire`
  leaves what was created, and a deletion deletes a row over a container acquired since
  (section 7). So the promise holds of the undisturbed operations:
  any number of turns, evictions, administrators and reconcile loops over any number of sessions.
- `~LockMayLapse`: answering a preview takes less than the 15 s of its lock. When it takes longer,
  two answers pass the check of the listing before either drops it.

- *Guard.* `GuardExclusive` says nothing of why it holds. `GuardInv` does: a task in the guarded
  code owns the local lock of its process, and the Redis key while Redis is reliable; and a
  task inside a `release` it began while acquiring is not releasing the session it acquires
  (`Placed`), so leaving one guard never frees the other.
- *Protection.* `release` asks for a running task long before it acts. The proof shows that
  every step is `Careful`: a turn comes to hold its sandbox only through the guard that the
  release holds, and a task is named before it enters the guard; hence the answer stays good.
- *Released.* `GoneInv` adds that the row a release works from still names the same container,
  and that the container it is about to commit is gone; every step is `Honest`: only `acquire`
  gives a row another container, fresh or the session's own, and only `release` writes RELEASED.
- *Stray.* `Custody` says for every await of `acquire` and `release` what the session owns there:
  nothing, exactly the container the row names, or exactly the one just created (`JobSafe`,
  `CallSafe`). Whoever is outside the guard is `Mild`: it can lose a container or change a
  status, but neither creates one nor makes the row name another.
- *Consent.* `Consent` follows the consent on its way: what lies in Redis was accepted from a
  client; what a waiter took was too; while a plan is shown its gate is shut and its consent
  unused; an open gate holds the unused consent to a preview of its own turn. As preview ids
  belong to one turn, no two gates hold the same consent. It holds whether or not locks lapse
  (a second accepted answer adds a consent, it does not use one twice).
- *Plans.* `Decided`: an answer under way holds the lock of its preview (`LockGuards`); once one is
  accepted, the plan is no longer listed or the request that accepted it is about to drop it
  (`DecidedUnlisted`), and a preview not yet shown has no answers (`AnsweredWhenShown`). A plan is
  listed again only by the turn that shows it, which it does once.
- *Feed.* That a page shows a prefix of the log is not inductive: the next chunk begins where the
  server's reader stands. `Placed` (of `TaskStreamProofs`) ties the three positions together: an
  open reader is exactly behind what the page was handed, a connection that broke will resume
  there (`lastEventId`), and nothing the page holds ends the log unless the connection is
  finished. Each step of `TaskStream` is then a `Record`, an `Open`, a `Show` or a stutter.
- *Active.* `NoStaleActive` follows once a run that went through its `finally`, or is about to find out
  there whether it is the active one, has been `Submitted`: its name was written before it was queued, so
  nothing writes it afterwards. A task that stops before its `try` is outside the theorem (`ActiveIsAlive`,
  section 7).
- *Results.* `Ledger` keeps the books of one task: what its stream says of the current delivery
  against the calls the run takes for open. A call that is not pending
  has an output behind it, an output made for a call at the end is the only one of its tool, a tool the run did
  not call is not in the stream; an older delivery's events stay as they are. An event may end the stream only over balanced books or behind an error
  (`Fitting`), whichever of interrupt, deadline, exception and lost worker came first.
- *Confirmed.* `IInv` follows the confirmation on its way: a run has no process before it has
  started one (`Unborn`), so a run that has started and of which a look found nothing can fork no
  more and stays dead; what a stream is about to tell is of its own run and true (`Telling`); the
  run a caller terminates has started (`Registered`, `Reached`); hence so is every record (`Recorded`).
- *Cancelled.* A marked run whose client waits has an entry that says cancelled, or a record kept
  under its id that does, or is about to tell something else than success (`Heard`), unless an
  earlier run of the turn was given up by its client, which is the excuse in the property (`Hidden`): its stream
  goes on under the shared id. A run that was told a result, a failure included, excuses nothing. It
  needs that a turn's calls follow each other (`InOrder`), that a stream leaves its waiting client
  only through `Tell` (`Parted`, `Finished`), and that only an exited leader makes a success (`Succeeded`).
- *Page.* `HistInv` says which selection may still write: one that has fetched has messages of its
  own session (`Stored` answers per session, whatever the log), and one that is still loading and
  the newest is of the session on screen. An event only `Grows` the messages: each stays the one it
  was, `Kept`, with its settled tools, and what comes on top is no history (`Handled`).
- *Order of the history.* `Laid` describes `Reordered` without folding: the rows but the outputs,
  each once and in their order, an answered call followed by its last output and no other
  output anywhere. What is written at the end, inserted behind a call or deleted changes such a
  list in one place; the lemmas say where (`Later`, `Abreast`).
- *Rows.* `Written`: rows are distinct. A turn that has not begun has written nothing (`Fresh`), a
  consumer that fills has not yet written what is on its list (`Filling`); that is why a filler is
  never written twice, and why no step of one turn disturbs another.
- *Results stand.* `Stands` strengthens the property from the ordered list to the rows: behind a
  result of an agent is no output of its call. Fillers are inserted right behind the call, or behind what
  was inserted there with the same timestamp, so before the agent's later append; the exception is a consumer
  that looked for the call before it was stored (`blind`).
- *Pairing.* `Pairs` is what a turn that has repaired the history `Owes`: a call of its own or of a
  turn whose consumer and agent were both at their end is answered, is still on the list to fill, is the one the agent is at, or its output
  was deleted (`swept`). What a model reads follows, as a cut is followed by no
  output. An agent that its consumer has left (`left`) owes the same; the calls it makes behind a later turn's repair
  are that turn's excuse.
- *Nothing forgotten.* Compressions work on lists they read earlier and overwrite each other's
  summary. `Told` relates every summary somebody may use to the list now and to every list
  a compression holds: it `Fits` (what is covered is told, outputs aside) or the list is so short
  that the compression will find nothing to summarise; it is `Traced` (a call is told with its
  result, or was summarised before it had one). Lists only get `Later`: a message keeps its place or
  moves back behind an inserted output, so what a summary covers stays covered. A deletion of the
  output of a stored call breaks that, and the property excuses it.

Both modules on messages rest on `SequenceLemmas`: induction over the natural numbers stated
for a set (from the well-foundedness of `<`), with it the facts about least and greatest elements
and, by induction on the number of pieces, what `FlattenSeq` makes of a sequence of sequences.

Only model-checked: the liveness properties (`ReleaseResolves`, `AnswerEndsWait`, `ViewersFinish`,
`StreamingEnds`, `StreamsEnd`), as liveness under fairness and `ENABLED` are beyond the prover. No
module declares a RECURSIVE operator. The inductive invariants were checked by TLC on the
instances of section 4 before they were proved.

## 7. What the code does not keep

One standing run shows a disagreement: `KunCodeInterrupt`. An interrupt is to "terminate and
confirm the processes in the container first" (AS:2625), and the API answers "termination
confirmed" (`api/conversation.py:254`); but `_terminate_sandbox_execution` (AS:1957) knows only
the runs of its own process, the turn runs in a Celery worker, and nothing found counts as
confirmed. The same happens in one process when the cancel arrives while
`create_subprocess_exec` is pending (KS:622): there is no entry yet, and no process.

The following have formulas in the modules and can be reproduced by checking the formula. In `SandboxLifecycle`:

- `LeaseRespected`: an administrator's release takes the container of a synchronous turn with a
  live lease, before the turn registered its agent (the lease is never consulted).
- `ReleasingIsFinal`: a late heartbeat turns RELEASING back into ACTIVE during a deletion.
- `NoDeadlyEmbrace`: two turns of one process evict each other's sessions and wait for each
  other's local lock until their deadlines.
- `GuardExclusive` fails with `LockMayExpire = TRUE`, two turns in different processes: the
  60 s key is never renewed while its holder awaits the Runtime (SLS:254).
- `OrphanedIsMissing` fails in `SandboxReap`: reconcile marks a row ORPHANED on a verdict about
  the container the row named when it was listed (SLS:574).
- `WithinCapacity` fails with two sessions, a limit of 1 and turns in two processes: both count
  before either creates (SLS:671; the design calls the limit hard).
- `Traceable` fails with a turn and a deletion: the row is deleted outside the guard after the
  release, over a container acquired in between (`session_cleanup_service.py:175`).
- `NoStrayContainer` fails with `Deadlines = TRUE`: a cancelled `acquire` passes `except
  Exception` by and leaves the container it created (SLS:373).
- `FailedRetried` fails under `FairSpec`: no branch of reconcile retries FAILED rows, as
  `docs/plans/sandbox-container-lifecycle-design.md:152` promises.
- `ReleaseResolves` fails with a mortal process and an administrator: a FAILED row that a late
  heartbeat made ACTIVE keeps its count, which its next failure takes past the maximum (SLS:494), and a crash in its next release leaves it
  RELEASING, which every scan skips (SLS:638).

In `HumanGate`:

- `CancelHeeded`: a cancel accepted while the waiter times out is dropped and the prompt runs.
- `AdviceWorks`: the cached reply of a repeated `preview_plan` asks for a `create_plan` that the
  gate refuses.
- Without a formula: a prompt can be accepted twice when its 15 s lock lapses and a reset has
  rewritten "pending"; a poll that met a resolved prompt deletes `plan_pending`, which may name
  the next plan; `kuncode_pending` of a dead turn hides later plan previews from `GET /pending`
  until it expires; `agent_interrupt` nobody took interrupts the next turn; the clean-up of an
  interrupt deletes the previews of a turn that began after it.

- The comment at AS:1129 has a plan continue after three minutes; the code cancels it (K:605).

In `TaskStream`:

- `ActiveIsAlive`: a task that returns for want of a message, or whose `init_db` or `start` raises
  (`tasks.py:201-213`), ends before the `try`: it writes no error and no end, and `session_task` goes on
  naming it for its lifetime, although the comment in `submit_async_task` (`api/conversation.py:182`)
  wants no stale active task left behind. A page that watches it polls on until it leaves; the
  reconcile loop takes the session for busy.
- Without a formula: `clear_session_task` looks and deletes in two calls (AS:2826), so a task that
  ends can delete the name of the next one; `ProtectedTurn` excuses a turn that lost its name so.

In `SessionView`:

- `ViewIsCurrent`: `loadPlan` and `loadPendingPreview` set what they were answered, whichever
  session is on screen by then (ST:219, ST:236), against the comment in `selectSession`
  (ST:302): "A slower session load or a stale EventSource must never project into the session
  the user has switched to."
- Without a formula: `sendMessage` appends to the messages on screen after its awaits, whatever
  session they are of, and an upload followed by a switch leaves the other session streaming;
  `interrupted` leaves the connection open, so the `end` behind it may finalise the next turn; a
  late answer of the interrupt request cancels the view of the next turn; a message sent while the
  session loads is overwritten by the load; deleting the session on screen closes no stream.

In `KunCodeRun`:

- All runs of a turn share an execution id, though
  `docs/plans/sandbox-container-lifecycle-design.md:244` has one per run. A record "cancelled" or
  "timeout" of an earlier run makes a later success look cancelled (KS:475); the termination of a
  run whose client gave up kills the next run's processes, and its record pops the next run's entry.
- A start that was refused or failed is recorded as confirmed without a look at the processes.
- A client that is lost at a yield when the leader has exited leaves the descendants and the entry
  (KS:577); `process.wait()` behind a closed output has no timeout (KS:464).

In `SessionHistory`:

- A read deletes an output whose call it did not find, also when the call was stored since
  (`session_repo.py:62`): an unpaired call, or a message nobody remembers (`swept`).
- A summariser that fails answers a text that replaces the previous summary (AS:1457, `gone`).
- A turn that begins while an interrupted or left agent still stores calls repairs the history before
  them: such a call may stand in its model's memory without an output.
- The result of a direct run and the filler that another turn's repair writes get the same
  `created_at`, so the filler may hide the result; `submit_async_task` does not refuse a second turn.

Read, not modelled:

- *Plans and auto-continue*: `auto_continue_task` is a plain function, so the `.apply_async` at
  K:723 raises: swallowed at the end of a turn, an error of a reset. The timer never fires and the
  record stays pending until it expires. The hook, the plan API and the end of the turn each read the agent state,
  change it and write it back whole, so a finished plan can come back as the active one, against
  AS:2484; `state_repo.save` numbers rounds by the latest it read.
- *Orphan scan*: the look for running turns is one `SCAN` step with `count=1`, which need not
  return a key that exists (SLS:1047), and a container that was popped from the warm pool and is not
  yet in a row is protected by nothing else.

## 8. Not modelled

- *Orphan scan and warm pool, plans and auto-continue*: see the end of section 7. Their promises
  rest on steps that do not exclude each other; a model would repeat that for every property.
- *The other components of section 1*: I/O, configuration, text and third-party code without a
  decision that another actor can overtake. They are the larger part of the repository by lines
  (the vendored skills, the document scripts, the interface components), which is why the mapped share of the code
  stays small.
- *Within the modelled components*: the fuzzy matching of subtask names and the states a cancelled
  plan leaves; texts of events, previews, files and prompts; the counting of seconds; the trimming
  of a stream beyond 70000 entries and the expiry of its keys; Redis failing a stream's writer; the
  router's exceptions after a process exists and its eviction of records beyond 128.
