# ChatAgents: a TLA+ verification project

ChatAgents is a chat server (FastAPI, PostgreSQL) with a React client.  A
visitor's message starts a *run*: an agent loop calls a model, executes the
tools the model asks for, and streams what happens to the browser while the
messages are stored in `app.message` and the run is observed in `obs.run` and
`obs.span`.  The sidebar title of a session is generated by a separate request.
Models are reached through three vendor protocols, at the addresses of presets
or at one that the visitor names with a key of his own.

This directory holds TLA+ modules translated from the source, configurations
that check them with TLC, and proofs that TLAPS checks.  Paths below are
relative to the repository; `CA/` stands for
`src/backend/src/chat_agents/`, `FE/` for `src/frontend/src/`.

## 1. Inventory

| component | state it keeps | operations | what makes it correct |
|---|---|---|---|
| session titles (`CA/main.py:500-695`, `conversation/service.py`, `repository.py`) | the title columns of `app.session`, one title span | first message, claim, model call, finalize, rename, delete | one model call per session; a manual title always wins; an answer agrees with what is recorded and stays true |
| conversation runs (`CA/main.py:414-497`, `conversation/streaming.py`, `service.py`) | `app.message`; the ids registered for the payload clean-up | append the question, rebuild the input, append answers and tool results, clear payloads | the log only grows, each run writes question, answer, results, answer, ... ; payloads do not outlive their run |
| run observation (`CA/observability/streaming.py`, `writer.py`) | `obs.run`, `obs.span`; which spans are open | start, open, close, finish, each in its own transaction and allowed to fail | never ahead of the conversation; nothing after the end; nothing left open |
| model input projection (`CA/conversation/service.py:134-291`, `models.py`, `masking.py`) | none; rows with a payload of their own for opaque thoughts | messages to rows and back, repair of missing results, masking | the result is a sequence a model accepts and says all that was said |
| agent loop (`CA/agent/runner.py`, `events.py`, `step_budget.py`) | history, iteration | model call, tool round, hard cap | events form a grammar, nothing follows the one that ends the run; every call in the history is answered once |
| tool executor (`CA/agent/tool_executor.py`) | attempt counter of each call | parallel and serial calls, timeout, retry | one result per call, retries bounded, no call runs where it must not |
| event stream (`CA/transport/sse.py`) | open text and reasoning groups | one AG-UI frame group per event | groups are closed in order, an error is the last word |
| model adapters (`CA/llm/adapters/`) | what has arrived of an answer | build a request, handle a chunk, close the call | the terminal event holds what was shown, also when the stream breaks |
| replay (`CA/llm/replay.py`) | recorded turns, the cursor of a replay | record, save, load, replay | a replay repeats the recording or fails |
| endpoint resolution (`CA/llm/resolve.py`, `override.py`, `endpoint_address.py`, `server_config.py`) | none | validate an override, resolve model, address and key | a visitor's key never goes to another address, nor a preset's |
| client cache (`CA/llm/client_cache.py`, `port.py`) | least recently used HTTP clients, at most eight of each library | get, evict; a client of its own for a custom endpoint | a client in use stays open; hooks do not leak between endpoints |
| model discovery and catalog (`CA/llm/model_discovery.py`, `db/model_catalog.py`) | stored model lists and their dates | periodic refresh, refresh on request | a failed refresh keeps the last good list |
| versioning (`CA/agent/versioning.py`) | prompt and tool schema versions | sync at start-up | one version per text, under concurrent starts too |
| session list (`FE/stores/session-list-store.ts`) | rows, pending renames, renamed sessions, write counters | load, load more, refresh, rename, remove | late answers do not undo newer ones |
| model options (`FE/stores/model-options-store.ts`, `features/settings/`) | choice, models, the custom endpoint and its list, localStorage | choose, prefill, download, store, restore | a message runs what the page shows; a session keeps its model |
| run client (`FE/features/session/useAgentRun.ts`) | phase, messages, abort handle, title attempt | send, stop, switch session | a title is asked for once, by the page that created the session |
| live trace (`FE/features/trace/live-merge.ts`) | spans seen live | merge each frame into the span tree | the tree shows what the loop has, all of it at the end |

The rest (observability queries, the HTTP bodies of the tools, evaluation
summaries, validation of single fields, logging, React views, tests, scripts,
deployment) is in section 7 and in `PROJECT.json` with the reason it is left
out.

**How components interact.**  A run is a chain of asynchronous generators:
`encode_sse(observe(persist(runner.run(...))))` inside
`round_trip_payload_scope`.  The outermost pulls one event at a time, so
`persist` commits an event's message before `observe` writes the event's span,
and both before the browser sees it.  Titles share the session row with
appends, renames and deletions; runs of one session share its message table
and nothing keeps them apart.  The calls of an answer are tasks of their own:
they go on while the loop waits, and may outlive it.  A run and a title hold a
*port*, an adapter over an HTTP client which presets of one address share.
Processes share the catalog and the version tables.  In the browser the session
page, the session list and the model options are stores that answers of the
server reach in any order.

**What is hard.**  Concurrent requests on one session row under READ COMMITTED;
transactions that commit although their answer is lost; cancellation at every
await when the client disconnects, in clean-up code too; crashes between two
transactions; two runs writing into one conversation; tool calls that fail,
time out and retry beside each other; a vendor's stream that stops anywhere; hooks on
shared clients; two refreshes of one list; in the browser, answers that return
out of order and effects that run after every change of a store.
`PROJECT.json` "hazards" lists each at its line with the property that covers
it, or the reason why none does.

## 2. Modules

| module | models |
|---|---|
| `TitleAttempt` | the promise of title generation: attempt at most once, settle once, manual wins |
| `TitleGeneration` | the title endpoint and every transaction on the title columns, one action per SQL statement |
| `TitleGenerationMC` | values for TLC |
| `TitleGenerationProofs` | TLAPS proofs about `TitleGeneration` |
| `ConversationRunsProofs` | proofs about `ConversationRuns` and `ConversationInput` |
| `AgentStreamProofs`, `AgentFramesProofs` | proofs about `AgentRun` and `RunEvents`, and about the frames and the live trace of `AgentStream` |
| `AdapterProofs` | proofs about `ModelAdapters` and `Replay` |
| `ServerProofs` | proofs about `ServerLife` and `ModelCalls` |
| `MessagesProofs` | proofs about `ModelMessages` |
| `ClientProofs` | proofs about `ModelChoice` and `SessionClient` |
| `RunLog` | the promise of a session's message table to its readers |
| `ConversationRuns` | `create_run`, the agent loop's events, `persist`, `observe`, `round_trip_payload_scope`, disconnection, deletion, crash |
| `Projection` | `_project_messages_unmasked`, `_repair_tool_results`, `mask_tool_observations` |
| `ConversationInput` | the table runs write, projected as the next run's input |
| `ConversationRunsMC` | values for TLC |
| `RunEvents` | the promise of a run's event stream to the wrappers around it |
| `AgentRun` | `AgentRunner` and `ToolExecutor`: the loop as a generator, each call as a task |
| `AgUiStream` | the promise of the frames to an AG-UI client |
| `LiveTrace` | `mergeTraceEvent`, as operators |
| `AgentStream` | `AgentRun` under the grouping of tool results in `persist`, `encode_sse` and the client's span tree, with disconnection |
| `AgentStreamMC` | values for TLC |
| `ModelStream` | the promise of `ModelPort.stream` to its callers, whatever the vendor |
| `ModelAdapters` | the three adapters: what the vendor sends, the accumulator, the events yielded |
| `Replay` | `RecordingModelPort` around an adapter, the file, `ReplayModelPort` |
| `ModelMessages` | messages, rows and vendors' requests, and the conversions between them |
| `Endpoints` | overrides, `resolve_profiles`, addresses, as operators |
| `ModelCalls` | clients, caches, hooks, model calls and discovery requests |
| `ServerLife` | starts of processes with their versions, model refreshes with the catalog |
| `ServicesMC` | values for TLC: recorded calls, messages, model calls, the life of the server |
| `ModelChoice` | the options store, the settings dialog, localStorage, the override of a message |
| `SessionClient` | the session page, the session list, and their requests under way |
| `ClientMC` | values for TLC: the choice, and the page with the list |

Definitions whose comment begins with *Slip:* are plausible wrong versions of
the definition that follows; no behaviour uses them.  Putting one in place of
its original must make the property named in `PROJECT.json` "mutants" fail.

### 2.1 TitleGeneration

State: `row` is the row of `app.session` together with its first user message,
`append` the place of each first-message transaction; each title request `r`
has a place `pc[r]`, says with `text[r]` and `failed[r]` whether it holds a
generated title or a failure reason, and answers `reply[r]`; `span` is the
session's title span, and `callers` a history variable: the requests that
called the model.

Each SQL statement that can interleave with another connection is an action,
under READ COMMITTED: a plain SELECT sees what is committed; a statement that
locks the row keeps it to the end of its transaction, so the locked tail of a
transaction is one action, taken at its commit; an UPDATE evaluates its WHERE
on the locked row.  `Faults` lets a statement fail, a commit be lost or be
acknowledged too late, and the process crash: requests then end in an error
and the row keeps what was committed.

Titles are identities: a user message stands for its fallback title, a request
for the title it generates, and the manual titles are a set apart from both,
with `Null` for no title.  The code never compares titles with each other, only
with NULL.

### 2.2 ConversationRuns

State: `session` is absent, live or deleted; `messages` is `app.message` in
`seq` order; `run[r]` holds the local variables of run `r`'s generators and the
await they are suspended at (`pc`); `obs[r]` is its row of `obs.run` with its
spans; `gone` the runs whose stream task has been cancelled.

| action | code |
|---|---|
| `Submit`, `Refuse` | the append transaction of `create_run` |
| `Rebuild` | `rebuild_model_input_with_metadata` |
| `EnterPort` | `model_port_scope` |
| `StartRun`, `OpenMain` | `observe` on the first event and on `IterationStarted` |
| `ModelAnswers`, `ModelFails` | `port.stream` in `_run_with_port` |
| `StoreAnswer`, `StoreResults`, `StoreFails`, `StoreUnacknowledged` | `persist` |
| `CloseMain`, `OpenTool`, `CloseTool`, `CloseLastTool` | `observe` on the event, then the runner up to its next await |
| `ToolsReturn`, `ToolsFail` | `asyncio.gather` in `run_calls` |
| `Complete`, `CloseLeft`, `FinishUnwinding` | the terminal branches, `except` and `finally` of `observe` |
| `Clear`, `ClearFails` | the `finally` of `round_trip_payload_scope` |
| `CutCleanup` | a clean-up await that is cancelled in turn (ADR-0008) |
| `Disconnect`, `Delete`, `Crash` | the visitor and the process |

`Resume(r, before, after)` is the return of an await: an undisturbed run goes
on with what it assigns after the await; a cancelled one unwinds from what it
had assigned before.  This is where `observe` striking a tool span off before
its write, or `persist` registering a row after its commit, makes a difference.

Abstractions.  Texts, usage and timing are left out.  Every answer carries an
opaque payload, which is the worst case for the clean-up.  Call ids are
distinct within one answer and may be repeated by later ones, as the ids come
from the provider.  All tools run in parallel, as all of `TOOL_SPECS` do.  A
span is *done* when its own event closed it, with status ok or error alike.  If
the client leaves while the task is suspended in sending a frame, the
generators are closed by the event loop's finalizer rather than by the
cancellation; the model lets the same clean-ups run in their usual order.

### 2.3 Projection

`Project` is a loop over the rows (`Loop`, a recursive function) whose state says
whether the row was already consumed with the one before.  Rows of tools keep only
which calls they have results of, so a result is known by its call and by the row it
came from.  `Mask` keeps the text of the latest results: a pair of a call and its
result is masked when at least `RetentionWindow` pairs come after it; what the
placeholder says is left out.  The order of the calls within one answer is any fixed
one (`Turn`).  Pruned run intervals are not modelled: no
caller passes any.

### 2.4 AgentRun and AgentStream

State of the loop: `pc` is the await or yield the generator rests at, `calls`
the calls of the latest answer, `announced` and `results` what `run_calls` has
yielded of them, `history` the messages the run has added to the model input,
`event` the event yielded last and `pulled` whether the consumer waits for the
next one.  `task[c]` is the execution of a call: its tool, its place and the
attempt.

| action | code |
|---|---|
| `Enter`, `Exit` | `model_port_scope`; a custom endpoint's client is closed on the way out and may fail |
| `StartIteration`, `Delta`, `ModelAnswers`, `ModelFails` | the body of `_run_with_port` up to the answer |
| `LookAtCalls`, `FinishCalls` | the branches after `IterationCompleted`; the results becoming a message |
| `Announce`, `Execute`, `Gathered`, `GatherFails`, `Collect` | `run_calls`: a batch is announced, run by `gather` (or awaited alone) and reported |
| `HandlerReturns`, `HandlerFails`, `HandlerRefuses`, `HandlerRaises`, `Retry` | the attempts of `execute` |
| `Drop` | cancellation, or the suspended generator being closed |
| `Encode`, `Send` | `persist` on the event and one case of `encode_sse`; the client takes a frame and merges it |
| `PersistRaises`, `LoopRaises` | an exception that `encode_sse` turns into RUN_ERROR |
| `StreamEnds`, `Disconnect` | the end of the stream, from inside and from outside |

A *batch* is what `run_calls` executes together: first all calls whose tool is
parallelizable, an unregistered name among them, then the others one by one.  A
waiting `gather` that is cancelled cancels its tasks; one that has an error to
pass on does not, which is how a call may outlive its run.

Abstractions.  Texts, arguments, usage and stop reasons are left out; a frame is
its type, the call it is about and the call's status.  Reasoning and text come
in any order and number.  An answer's call ids are distinct, later answers may
use them again.  `observe` is left out here, as it changes no event.  A frame
counts as merged once it is written, and nothing is written after the client
has left.

Repeated contents and other frames that leave nothing further open are steps
that do not change `wire`: `FrameOrder` constrains what opens and closes.

`mergeTraceEvent` keeps a branch for auxiliary usage, which the server no longer
sends; it is left out.

### 2.5 ModelAdapters, ModelStream and Replay

`vendor` is what the vendor has sent: blocks of text, reasoning or a tool call,
each in parts, any number of them open, closed and finished as the protocol
allows (`Legal`); `acc` is the adapter's `_Accumulator`, `out` what the latest
chunk yields, `events` what the consumer got, `pc` where the generator rests.

| action | code |
|---|---|
| `Create`, `Receive`, `YieldEvent` | `stream` up to its first chunk; one chunk through `handle`; one `yield` |
| `StreamEnds`, `StreamBreaks`, `Cancel` | the `async for` ends, raises, or the consumer leaves at a `yield` or an await |
| `Conclude`, `Return`, `Reraise` | the terminal event of the `except` and `else` clauses, and what follows it |
| `Record`, `NextTurn`, `Load`, `Ask` | the `finally` of `RecordingModelPort.stream`; the next call of the run; `ReplayModelPort.load` and `stream` |

A part is the pair of its block and its number, so that a part that is lost,
repeated, or put under another id is seen.  A document of arguments parses when
it has none or all (`Whole`) of its parts.  `ModelStream` is the grammar that
`AgentRun` relies on: announce, arguments, complete, one terminal event, last.
`Replay` drives an adapter for the turns of a run, so what it records is what
the adapter really yields, failures and cancellations included; a replayed call
may ask for any turn.

### 2.6 ModelMessages

`said` is the conversation as it was said, the history variable of the module;
`history` is `AgentRunner`'s, `stored` the rows of `app.message` with the
payload that holds opaque thoughts, `outgoing` the latest request.  `AskQuestion`
appends the question and rebuilds the history from the rows; `CallVendor` builds
the request of the run's protocol; `ModelSpeaks` and `ToolsAnswer` append to
history and rows; `RunBreaks` leaves at any point; `RunCloses` clears the
payloads, or fails to.  Runs follow one another (overlapping ones are
`ConversationRuns`' matter) and each may use another protocol.  A body is the
pair of its message and its place.  `RequestFaithful` compares what a vendor
reads with what was said, through `Meaning` and `PartMeaning`, which give a part
of a request the meaning its protocol gives it.

### 2.7 Endpoints and ModelCalls

`Endpoints` translates the one reading of a base URL (`ResolveAddress`), the
validation of an override (`Accepts`) and `resolve_profiles` (`Resolve`); an
address is an origin and the segments of its path.  In `ModelCalls` a task (a
run, a title or a discovery) resolves an override (`Accept`), enters a port on a
shared client (`SharedHit`, `SharedMiss`, with the eviction of `_get_or_create`)
or on one of its own (`Own`), sends requests (`Call`), and leaves (`Exit`);
`Discover` asks for the models.  `OnTheWire` is what leaves the process: the
headers of `_build_port` after the hook that keeps the selected one, at the
address that the hook of the client writes.  The hooks of a client are those of
the profile it was made for, which is the point: another preset may share it.
`AsSent` is what httpx makes of a URL: it writes some origins and segments
differently (`Normal`: a host in capitals, an explicit default port, a character
to quote).  The routing hook compares the text of the request's URL, as httpx
has it, with one that httpx has not seen (`port.py:86`), so it may miss;
`OnTheWire` then leaves the call at the library's own URL.
`Referred` forgets clients that nothing refers to, so that their number stays
bounded; such a client is never used again.

### 2.8 ServerLife

A process starts with a release (the texts of its prompts and tool schemas),
synchronizes them one by one in a transaction (`Sync`: `INSERT ... ON CONFLICT
DO NOTHING`, then `SELECT`) and serves after `Commit`.  Its time is the number of
its start: start times are distinct.  An insert waits for a transaction that has
inserted the same content.  `Stop` is a crash, a shutdown or a failed statement.

A *refresher* is the background task of a process or a visitor's request.
`TryDiscovery` asks the vendor; `SeeRows`, `LockRows`, `InsertRows`, `ReadDate`
and `Replace` are the statements of `replace` as another transaction can tell
them apart: what DELETE sees, the wait for a rival deleter, the wait for and
the clash of unique rows, the date, the commit.  `StoreFails` lets any of them
fail, which ends a request and, because nothing catches it, the task.
A list is *usable* when it is not empty: `refresh_preset` takes an empty answer
for a failure.

### 2.9 ModelChoice and SessionClient

In `ModelChoice` every setter of the store is an operator from options to
options; an edit is a setter and the effects of `AdvancedOptions` that React
runs after it (`Settled`), while the dialog is open.  `Override` is
`buildModelOverride`, `Target` what the server makes of it (through
`Endpoints`), `storage` localStorage, in which configurations of an earlier
version of the page may lie.  `Send`, `Confirm`, `OpenSession` and
`DetailArrives` are the parts of `useAgentRun` that store and restore.
`ran` is a history variable: where the last message of a session ran.

In `SessionClient` a request is a record in `calls`: the server serves it at
any time after it was sent (`Serve`) and its answer arrives any time after
(`Arrive`), so requests overtake each other.  The list's variables are those of
the store, `view` is the state of the page.  The visitor renames and deletes
sessions of the list at any time, whatever is under way, as the page lets him.
History: `manual` is the title confirmed last, of a rename that was *alone* (no
other rename of its session was under way with it, and its row did not go
meanwhile); `asked` is how often a title was asked for; `made`, in `server`,
says that a message of this tab created the session.  A detail answers that the
session is there or not, its failure leaves the page as it is.  Renaming a session
to no title is left out.

## 3. Runs

| run | instance | shows |
|---|---|---|
| `title_safety` | 2 first messages, 3 requests, faults | all safety properties and the refinement of `TitleAttempt` |
| `title_liveness` | 1 message, 2 requests, no faults | every request ends, every claim is settled |
| `runs_overlap` | 2 overlapping runs, 1 call id, hard cap 2 | payloads and spans do not outlive their run, nothing follows its end, and the refinement of `RunLog` |
| `runs_faults` | 1 run, 2 call ids, hard cap 3, faults and crashes | the observation is never ahead of the log when transactions fail, get lost or go unacknowledged |
| `runs_sequential` | 2 runs one after the other, hard cap 3 | the second run's input is legal and masked as it should be whatever the first left; runs end |
| `runs_projection` | 2 overlapping runs, 2 call ids | *violation*: the projection mixes two runs |
| `agent_stream` | 1 run, 2 call ids, tools of 3 kinds, 3 attempts, hard cap 2 | the refinements of `RunEvents` and `AgUiStream`, the pairing of the history, what may run when, the client's tree, and that every stream and every call ends |
| `services` | see below | adapters and their replay, messages, model calls, versions and model lists |
| `stream_interrupted` | the same | *violation*: a call that breaks inside its arguments is not closed |
| `refresh_task` | the same | *violation*: the background refresh ends with one failed statement |
| `client` | see below | the choice of endpoint and models, the page and the list |
| `pick_lost` | the same | *violation*: opening the settings writes over a model the visitor picked |

**Bounds and why they are enough.**  Two first messages and three requests give
every pair a third party: a winner and a loser of the claim with a late retry.
Two runs are what it takes for one to interfere with the other; three
iterations give an iteration with a predecessor and a successor under the hard
cap, and two calls an iteration whose tools are only partly announced or
closed.  `HardCap` stands for the smallest budget at which the boundary is met
(the code's are 4, 8, 13 and 20).
In `agent_stream` two calls are one that is alone and one beside it, in every
combination of retryable, not parallelizable and unregistered, and a hard cap of
2 gives one iteration with tools, with ids used again by the next; a cap of 3
passes as well (1.4 million states) and shows nothing that 2 does not.  In
`runs_sequential` up to four calls have results, twice the window of masking.

`ServicesMC` and `ClientMC` each hold parts that share no state; a behaviour
belongs to one part, as interleaving them would multiply the states and show
nothing.  In `services`:

* recorded calls: `MaxBlocks` 2 blocks of `Whole` 2 parts, enough for two blocks
  that interleave, break off inside or between them, or take each other's ids;
  `MaxTurns` 2 recorded calls, the first of at most `MaxRecalled` 1 events;
* messages: `MaxQuestions` 2 runs, `MaxAnswers` 2 answers, `MaxSpoken` 3 blocks,
  the least for a thought between two other blocks and for an answer of
  another run, in another protocol, before it;
* model calls: two tasks and caches of `Capacity` 1 (the code's is 8), so that
  any second address evicts a client in use; two presets share an address with
  different headers, one preset has no secret; custom endpoints with
  every protocol, four paths, both address modes, and the marker header as a
  header of their own; a preset and custom endpoints whose origin or path httpx
  writes differently, so that hooks miss;
* life: two processes, `MaxStarts` 2, two releases that share one of two texts;
  lists of at most `MaxItems` 2 items, broken and repeated ones included; one
  preset, whose refreshers are two tasks and one visitor.

In `client` there are two sessions and two presets, `MaxEdits` 4 edits and
`MaxDownloads` 2 downloads (one and its stale predecessor); for the list, one
session (sessions share only the list's loading), two titles that are
symmetric, `MaxCommands` 2 renames and deletions, enough for any two of them to
overlap, at most `MaxUnderWay` 4 requests under way together and `MaxRefreshes` 1
refresh of a session that counts.  The configuration of presets is constant, as in the code
between two starts.  Nothing else is bounded: `messages` is finite because runs
are.  `CHECK_DEADLOCK FALSE` is used because a system whose runs have all ended,
or whose visitors ask for nothing more, stops.

**Fairness.**  `title_liveness` and `runs_sequential` assume weak fairness of
each request's or run's own steps: an asyncio task that can go on is scheduled,
a database statement returns or fails, and a model stream or a tool ends
(adapters use HTTP timeouts and `asyncio.wait_for`).
`agent_stream` assumes weak fairness of the loop, of the stream and of each
task, for the same reason, and strong fairness of the end of a model stream: it
is offered again after every piece of text, and a provider bounds its answers.
A handler ends because `wait_for` bounds each attempt.  Nothing is assumed of the
visitor: appending, renaming, deleting, disconnecting and crashing are never
forced.  `services` and `client` check safety only and assume no fairness.

## 4. Findings

* `runs_projection`: two overlapping runs of a session are projected into an
  input with foreign and missing tool results; `db/obs.py:38` and ADR-0002 take
  it for granted that a run's messages are consecutive.
* `stream_interrupted`: a vendor's stream that breaks inside the arguments of a
  tool call raises the parse error of the half document; no terminal event is
  yielded, although `anthropic_messages.py:7-8` promises one first.
* `refresh_task`: an exception of the store ends `periodic_model_refresh` for as
  long as the process lives; `model_discovery.py:290` promises a refresh every 24
  hours until shutdown.
* `pick_lost`: a model picked before the settings were ever opened is replaced by
  the preset's when they are; `AdvancedOptions.tsx:74` says that a model the
  visitor set is not written over.

Noticed while modelling and not made into runs.

*Titles and runs.*
- A title request that loses its claim to a rename answers *generating* although
  nothing was claimed (`service.py:384`; `db/app.py:31-33`).
- An answer whose commit is in flight when the client leaves is stored but not
  registered, so its payload is never cleared (`streaming.py:59`;
  `db/app.py:79-80`).
- An iteration that asks for a tool that is not parallelizable beside another
  makes `persist` write two tool rows under one id (`streaming.py:75`;
  `agent/events.py:47`).  No tool of `TOOL_SPECS` is of this kind today.
- A session deleted between the append of the question and the rebuild
  (`main.py:440`) has its model called with an empty list; the run then ends
  with SessionNotFound.
- `FE/features/trace/SPEC.md` (lines 13-28) shows the tools of an iteration
  before its STEP_FINISHED, while `encode_sse` sends them after STEP_FINISHED,
  usage and span; `AgUiStream` states the order of the code.  RUN_ERROR may
  follow RUN_FINISHED, when the client of a custom endpoint cannot be closed, and
  may leave groups open when `persist` raises.  A reasoning group may be opened
  between two pieces of one text, under the id of an earlier group.
- ADR-0019 says that the window of masking moves with each iteration; the code
  masks once, when a run's input is built.

*Model calls.*
- `response.incomplete` is not handled: the call ends with an empty message and
  unavailable usage.  An interrupted Responses call has an empty message although
  its text was shown.
- A stream that ends quietly before the arguments of a call gives a call with
  empty arguments (Anthropic, Chat).
- The client of a custom endpoint, made in `create_run`, is never closed if the
  browser leaves before the stream starts.
- `RecordingModelPort.stream` takes no system prompt.
- Generation and discovery may part.  The routing hook compares
  `str(request.url)`, which httpx has normalised, with a URL that keeps the
  visitor's text (`port.py:76-78`, 86).  For a base with a host in capitals
  (`https://API.Example.com`), an explicit default port (`https://relay:443`) or a
  character that httpx quotes the two differ, the hook does not fire, and the
  call goes to the library's own URL; discovery goes to the neighbour of the
  resolved address, and the page shows the resolved address.  This is so where a
  hook is needed: in full mode unless the URL is the library's own, and in auto
  mode where the library supplies a version segment and the resolution does not,
  or the other way round.  (A quoted character counts only in auto mode: in full
  mode the library's URL has nothing of the visitor's path.)  `endpoint_address.py:3-5` says that one
  reading answers both questions; lines 17-19 say that httpx sends a path as it
  is written, and ADR-0016:40 that a full URL is sent without a character changed.
  `OneAddress` is about the bases that httpx sends as they were written.
- The running system stores round-trip payloads and never reads them back:
  `create_run` passes no `round_trip_from_seq`.

*Model lists.*  `db/app.py:168-169` says that the date of a list is stored apart from
its rows to express a successful empty list; `refresh_preset` takes an empty list for
a failure (`model_discovery.py:235-236`), so none is ever stored and a list is dated
exactly when it has rows, as `LastGoodKept` states.  Two refreshes whose lists have nothing in common leave the union
of both (`db/model_catalog.py:3` speaks of a replacement of the whole list);
overlapping lists make one of them fail; an older discovery may replace a newer
one; a list and its date are read in two statements.

*Browser.*
- With a model picked on a preset that configures an auxiliary model, the page
  says that the auxiliary model follows the main one; the server uses the
  configured one.
- Sending again and editing check the phase only: until a session's detail has
  arrived they act on the messages of the one before.  A detail that fails leaves
  the page without one.  `confirmConfigChoice` does not check the phase.
- `loadMore` appends what it gets without looking for rows it has.  A late first
  page drops drafts and overlapping renames.  Overlapping renames may be answered
  out of order, and the first of them to fail takes the protection away from the
  others, whose title a late answer may then replace (`session-list-store.ts:192-194`).
  After a rename whose answer is lost, the old title stays.
- A rename that was under way when a deletion was answered, and is confirmed
  afterwards, brings the row of the deleted session back
  (`session-list-store.ts:177-190`): the answer of the server is put into the list
  whether or not the row is still there.  `RemovedStays` names this exception.

*Tools.*  Two parallel reads of one URL fetch it twice, since the memo is looked up
before the fetch and set after it (`tools/web_reader/tool.py:37-41`), and a section
may then be read from the other copy.  Text before the first heading of a long page
cannot be asked for.

## 5. Proofs

`TitleGenerationProofs` proves, for any sets of messages, requests and titles and
with faults allowed, `TypeCorrect`, `AtMostOneCall`, `FallbackOfFirst`,
`OutcomesAgree`, `ManualWins`, `OutcomeOnce`, `DeletedStays` and `Refinement`
(`TitleGeneration` implements `TitleAttempt`).  The argument rests on one
inductive invariant, which adds to the properties what requests know between
two statements: a request past its claim is the only one, a claimed row stays
claimed, a request that read a row has read no more than the row still
says.  `OutcomesAgree` covers the whole of `OutcomeHonest`: what is recorded, what
was answered and what the span says.  `OutcomeOnce` and `DeletedStays` are proved
only and belong to no run.

`ConversationRunsProofs` proves, for any sets of runs and call ids, any hard cap,
overlapping runs and faults, `TypeCorrect`, `ObservationBehindLog`,
`NothingAfterTheEnd` and `Refinement` (`ConversationRuns` implements `RunLog`), and
without faults `PayloadsLive` and `SpansSettled`.
The inductive invariant `IInv` is TypeOK and, for each run, `RunOK`:

* `Fits` says which rows the run's place stands for.  Before the model is
  called, the run's latest row is its question or the tool results of the
  iteration before; between the answer and the results it is the answer in hand,
  with the calls the run is executing.  Without it `Answer` and `Return` of
  `RunLog` could not be shown to be enabled.  Registered rows are the run's own,
  and a payload is cleared only when the run is closed.
* `Behind` is `ObsBehindLog` of one run; it is inductive together with `Fits`,
  because the place at which a span is closed says that its answer is stored.
* `Ending` says that a run whose end is recorded only cleans up.

Runs do not disturb each other (lemma `Frame`): a run appends rows of its own and
clears payloads of its own (`Touched`), so what another run knows of its rows
stays true.  One lemma per action then looks at the moving run only, through
`QuietStep` and `AwaitStep` for steps that write no row and `AppendStep` for
those that do.  The assumptions used are the three ASSUMEs of
`ConversationRuns`: the hard cap is positive, call ids are not iteration
numbers, the switches are Boolean.

`InputsLegal` states `InputLegal`, with faults and without, under the hypothesis
`~Overlap`: what the next run would be given of the table is a legal input for a
model.  The hypothesis is part of what is true, as the run RunsProjection shows.
The argument has three parts.

* `SInv` says what the table is when one run at a time writes it: a question comes
  first, results stand right behind the answer they belong to, the iterations of a
  run ascend (`Proper`), and at most one run is under way, which has written the last
  row (`Alone`).  It is inductive together with `IInv`, whose `Fits` says what the
  run under way may append next.
* The loop of the projection is followed row by row (`Reached`, `Whole`): over a table
  that is `Proper` it consumes every row of results with its answer, and repairs
  only the answers that have none.  That it does so at every row is by least
  counterexample (`LoopExists`, `RowProjected`, `Projected`).
* The masking keeps the latest results.  `LaterOrders` says that of two pairs the
  later one has fewer behind it, and `ReadableAre` gives a bijection between the
  pairs that stay readable and an interval of numbers, which is how many there are.

It uses `CallsAreFinite`: an answer has finitely many calls.

`PayloadsLive` and `SpansSettled` state `PayloadLife` and `SpansSettle` under the
hypothesis `~Faults`, for any number of overlapping runs, cancellations and a
deletion of the session.  The hypothesis is part of what is true: the code clears
payloads and closes spans in commits of their own at the end of a run, and
when such a commit is lost or the process dies nothing does it later.  To `IInv` they
add `EInv`, which says of every run whose stream was not cancelled (`EndOK`): a payload
of its answers is registered for clearing until the run is closed with its session
deleted (`Registered`), and the only open spans are those that `observe` still has to
close from where the run is (`Settled`).

`ServerProofs` proves of `ServerLife`, for any number of processes, releases, inputs
and presets:

* `VersionsHold`: `VersionsAgree`.  The invariant `VersionsInv` says of each
  process that it has found one row for each of its first inputs and none
  besides, with the text of its release, among the rows that are committed or
  its own; and that the rows written, committed or not (`AllRows`), hold no text
  twice.  Uncommitted rows have to be part of it: they become committed without
  another look, and the wait of an insert is what keeps them apart.  The
  assumption used is `InputsDistinct`: a text's name is asked for once.
* `ListsKept`: `LastGoodKept`.  The invariant `CatalogInv` says that a refresh that
  writes has a list to write and that a list is there exactly when it is dated.
  A commit then leaves at least its own rows, whatever it and its rivals have
  deleted.

`AgentStreamProofs` proves, for any finite set of calls, any tools, number of
attempts and cap, `LoopTypes`, `HistoryStaysPaired`, `NoHandlerStrays` and
`LoopKeepsEvents` (`AgentRun` implements `RunEvents`).  Its invariant `LoopInv` relates
the place of the loop, the latest event, the lists of announced and answered calls,
the tasks and the history:

* `StageFits`: the latest event says where the loop is, and the place says which of the
  lists of calls are empty.
* `ReportsFit`: results come in the order of the announcements, and no call is
  announced twice.
* `BatchFits`: the calls without a result belong to the current batch and were
  announced in the order of the answer.  The batches matter here: serial calls run
  one by one, and the others before them, so that a call may be announced after one
  that stands behind it in the answer.
* `TaskFits` and `NoStrayHandler`: while the loop goes on, only the current batch has
  tasks that are not done; a task retries at most as often as its tool allows.
* `HistoryFits`: an answer with calls is followed by one message with one result for
  each of its calls.

It uses `RegistryAssumption`, `BoundsPositive`, `NoCallIsNoCall` and
`CallsFinite`: an answer is a finite list.  The next call to be
reported is the first of those without a result, so one lemma (`LeastPosition`) needs
well-founded induction from the library.

`AgentFramesProofs` goes on to the encoder: `StreamTypes`, `FramesKeepOrder` (`FrameOrder`),
`FramesInPlace` and `TraceStaysFaithful` (`TraceFaithful`).  `StreamInv` is `LoopInv`, the types, and

* `LayersFit`: the loop moves only while `encode_sse` waits for an event.  Without
  it the frames of one event could mix with those of the next.
* `FramesFit`: the frames still to be sent are allowed one after the other
  (`Plays`) and end in a state of the wire that fits the state of the loop (`Stands`);
  before an event is taken the wire is such that its frames can be (`Awaits`).

`FramesInPlace` belongs to no run.  It says of every frame what `FrameOrder` says of those that
open and close, contents included: a text delta inside its message, arguments
inside their call.  `TraceInv` adds what the tree has: in which parts it lags behind the
frames (`TreeFits`), which frames of the latest event are on their way (`OutFits`), that
answers and results alternate (`TurnsFit`), and that spans are exactly the announced
calls with the results told so far (`SpansFit`).  The hard part of it is a
`tool_started` or `tool_finished` of which only some frames have been sent.

`AdapterProofs` proves, for every set of adapters, any number of blocks and parts,
and streams that end, break off or are cancelled anywhere:

* `AdaptersKeepPromise`: an adapter, recorded and replayed, implements `ModelStream`.
  `AdapterInv` says that the accumulator knows exactly the calls the vendor has begun,
  under their ids (`AccFits`), and that the events yielded followed by those that wait
  are in order: a call is begun before it is continued and completed
  once, nothing follows the terminal event (`LineFits`).  In the chat adapter, which
  has no end of a call, all calls are completed when the stream returns, in the order
  of their indices.  That order is `Ascending`, and its proof (lemma `AllRise`) is by
  least counterexample.
* `RecordingReplays`: `ReplayRepeats`.  `RecordingInv` says that the recording is what the
  consumers were given plus at most one failed turn, of a cancelled call
  (`RecordFits`), and that a replay that has asked what the recorded run asked has its
  cursor right behind what it heard (`HeardFits`).  The lemmas `EventReturns`,
  `TurnReturns` and `LoadReturns` say that loading what was saved gives the recording
  back: the conversions to and from the file are inverse on the events the adapters yield.
* `TerminalsTellTheTruth`: `LocalTruth`.  `TruthInv` follows the message of the terminal
  event from the accumulator (`KindsFit`: which blocks are calls; `UsageFits`: what was
  counted) through the three ways to put a message together; that no call is left out
  needs that `Ascending` lists all numbers (`AscendingOnto`).  `TextInv` is about the
  texts, thoughts and arguments: what the consumer was shown of a block is what the
  accumulator holds of it, part for part, and the parts of a block are shown in their
  order.  In the chat adapter, whose texts are all one, the order is that of the whole
  turn.

It uses `ProtocolAssumption`, `BlocksAssumption` and `RecordingAssumption` (counts
are numbers).  Attempting the proof showed that two cases of `HandleChat` overlapped
in the model; the branches now exclude each other as those of the code do.

`ServerProofs` goes on to `ModelCalls` and proves, for any number of concurrent tasks,
endpoints, evictions and any capacity, `KeysStayHome`, `ClientsStayHeld` and `AddressesAgree`.  `CallsInv` consists of
types; `TasksFit`: the client of a task is open and routed as the task's endpoint needs it,
and a client made for a visitor's endpoint is held by one task and in no cache;
`CachesFit`: a cache holds at most `Capacity` clients, one for each base, all open and without a
route; `RequestsFit`: a request that is out carries one key and goes where the key
belongs.  The assumptions: the capacity is positive, tasks are
finite in number (the cache must be able to find an id for a new client), keys of presets are
not the markers and keys of visitors neither these nor those (`KeysApart`), fields
have their types (`EndpointsTyped`).  What httpx writes differently (`Normal`) is
arbitrary, but for the words of an operation, which it leaves as they are
(`WordsNormal`).  `KeysStayHome` holds whether or not the routing hook recognises a call: the
library's own URL has the origin of the base as well.  `AddressesAgree` is about bases that
are sent as they were written (`Plain`): all that the readings make of such a base has
only segments that are (`Placed`), so the hook recognises the library's URL.  It has the
hypothesis that Null is no route, which TLC has by Null being a model value.

`MessagesProofs` proves, for any protocols, any number of runs and answers of any
length, `RowsGiveBack` (`RowsKeepMessages`) and `RequestsFaithful` (`RequestFaithful`).

*Rows.*  `ContentReturns` says that encoding a message and decoding it returns it, every
thought between the blocks it stood between, by induction over the blocks: a
block added at the end adds to the visible ones or is one more entry whose place is
their number.  `RowsFit` says of each row that it is the encoding of its message, that
its payload is whole or cleared, and whole if it belongs to the run that goes on.

*Requests.*  What a vendor reads in a request is the concatenation of what it reads in
its messages, so each protocol is shown message by message (`AnthropicHeard`,
`ResponsesHeard`, `ChatHeard`): the request tells what the messages tell, in the
chat protocol without thoughts and with the texts of a message before its calls.  What is left is
that the history tells what was said.  The loop of `ProjectStored` is followed row by
row (`Reached`, `ProjectionTells`); afterwards run and rows grow together.  The
invariant `Tells` consists of types, `RowsFit` and

* `SpeechFits`: results answer one by one the calls of the answer before them, the
  ids of one answer are distinct, and the thoughts of the current run are in its
  protocol;
* `PhaseFits`: whether the latest message has calls is told by where the run is, and a
  request that is out is the encoding of the history;
* `HistoryFits`: the history is `Told`: each message as the current run hears it,
  with results supplied after an answer whose run broke off before its own.

The library's theorems of induction take an operator; `NatInduct` and `SeqInduct`
state induction with a set instead, from the theorem on well-founded relations, and
what they need of filters is stated once in `Kept...` and `Bind...`.  Used are
`SpeechAssumption` and `SpokenAssumption`.  To be reasoned about, `ModelMessages`
writes its filters and loops as functions of places, and attempting the proof showed
that two cases of `ToHear` overlapped; they now exclude each other.

`ClientProofs` proves of `ModelChoice`, for every file of endpoints, set of custom endpoints
and stored configuration, `ShownRuns`, `CatalogStaysFitting` and `SessionsKeepModels`.
`ChoiceInv` says what options may be like in the store, under a dialog and in storage.  Its
core is `Suits`: a main model that the visitor has not touched is the one the choice
would run anyway; without it the page could show another model than the one a message
runs.  `CatalogInv` says that at most the download for the fields
of now is current.  For `SessionsKeepModels`, `RanFits` says that what is stored for a
session runs where its last message ran.  Its hypotheses: `NullIsNoRecord`, and `StoredKept`: a
configuration from before address modes has not the one kind of address, a bare root
of an OpenAI protocol, that `migrateAddressMode` by its own comment does not keep
(`src/frontend/src/stores/model-options-store.ts:237`).  Further used are `NamesApart`,
`FieldsTyped`, `StoredTyped`, `BlankIsOne` and `DefaultIsConfigured`.

Of `SessionClient` it proves, for any sets of sessions and titles and any number of requests
under way, `TitleOnceHolds`, `ManualStaysHolds` and `RemovedStaysHolds`.  `CInv` says of
each kind of request what holds while it is under way: the list is loaded
once (`ListFits`), a rename that is alone has its row and protects it, and one that follows a
confirmed title knows that the row was protected before it (`RenameFits`), a row with a
confirmed title is protected (`ManualFits`), the page
listens to one detail or one run (`DetailFits`, `RunFits`).  `MadeFits` says that a page which
may ask for a title found no session and that every session that came
after was made by this tab.  `AskedFits` is what makes
`TitleOnce` inductive: a page that comes back to a session whose title was
asked for, and has not asked itself, cannot become eligible again (`Silent`), unless the
session is gone, in which case no run of it is accepted.  It uses
`MarksAreNoTitles`.

Only model-checked, and why:

* The liveness properties (`EveryRequestEnds`, `ClaimSettles`, `RunEnds`,
  `HandlersSettle`, `EveryStreamEnds`): fairness and ENABLED are beyond the prover.

## 6. Plan

1. Titles: done, checked and proved.
2. Conversation runs and projection: checked, the safety properties of the runs and
   the refinement proved, `InputLegal` for runs that do not overlap.
3. Agent loop, tool executor, event stream and live trace: checked and, but for
   liveness, proved.
4. Model calls, model lists, versions, replay and adapters: checked and proved.
   Messages: checked and proved.
5. Client: checked and proved.  Paging and the messages on the page are not modelled.

## 7. Not modelled

* *Observability queries*: reads of finished rows into view models.
* *Bodies of the tools*: outbound HTTP, and the splitting and rendering of a page
  as text; `AgentRun` chooses among a result, an error, a defect and a timeout.
* *Evaluation summary, harness, scripts, deployment*: not part of the running
  product.
* *Validation of single fields, estimation of tokens*: stateless, on
  text; the one use of the estimate is the size of a tool's result.
* *The file of endpoints*: parsed once, at the start; its outcome is a constant.
* *Views*: rendering of the stores' state.
* *Paging of the session list and the messages on the page*: the first is an
  append without conditions, the second mirrors the frames that `AgentStream`
  already delivers to the trace; what was noticed of both is in section 4.
