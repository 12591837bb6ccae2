# TLA+ verification of the agents SDK

TLA+ models of the concurrent and stateful core of the OpenAI Agents SDK for
TypeScript (`src/packages`), model-checked with TLC and, where it says so below,
proved with TLAPS for every value of the constants.

Contents

1. [The system](#1-the-system): the inventory
2. [The modules](#2-the-modules): what models what
3. [The runs](#3-the-runs): what is checked, within which bounds, under which fairness
4. [The proofs](#4-the-proofs): theorems, assumptions, inductive invariants
5. [Where code and documents disagree](#5-where-code-and-documents-disagree)
6. [What is only model-checked, and what is not modelled](#6-what-is-only-model-checked-and-what-is-not-modelled)
7. [The plan](#7-the-plan)

`PROJECT.json` lists the components, the runs, for each definition the source
lines it stands for (`map`), for each property a bug that breaks it (`mutants`),
the hazards and the theorems.

To repeat a result: `tlc -workers 2 -config RunLoop_run.cfg RunLoop.tla`,
`tlapm RunLoop_proofs.tla`.

## 1. The system

Five packages, about 145,000 lines of TypeScript (tests and examples not
counted; the whole tree has 1,658 files). Everything runs on one JavaScript
thread per process: a handler runs to its next `await`, continuations of
settled promises run before the next timer or I/O callback, and what races are
stretches of code between awaits. State is in memory; a `RunState` can be
serialised by the caller and resumed later, a session is an external store.

| Package | Lines | Role |
| --- | --- | --- |
| `agents-core` | 91,800 | agents, the run loop, tools, guardrails, sessions, tracing, MCP, sandboxes |
| `agents-openai` | 12,600 | OpenAI models, conversions, WebSocket connection, tracing exporter, compaction session |
| `agents-realtime` | 9,100 | voice sessions over WebSocket, WebRTC, SIP |
| `agents-extensions` | 31,300 | adapters: sandbox providers, the AI SDK, Codex, Twilio, Cloudflare |
| `agents` | 50 | re-exports |

### Components

Paths are below `agents-core/src` unless the package is named.

**Run loop** (`run.ts`, `runner/runLoop.ts`, `runner/turnPreparation.ts`,
`runner/turnResolution.ts`, `runner/guardrails.ts`, `runner/errorHandlers.ts`).
*State*: a `RunState` (current step, turn number, whether the turn is in
progress, last response, generated items, pending approvals and staged input,
current agent) and the loop's locals (snapshot of the turn, guardrail tracker,
abort signal). *Operations*: `run()`, resuming, one turn: guardrails,
preparation, model request, processing of the response, tools, handoff, next
step; the catch block with its rollback and error handlers. *Interaction*: calls
the model, the tools, the session; the caller decides approvals, stages input
and aborts. *Hard*: parallel input guardrails race the model request;
interruptions leave half-executed responses that are resumed later; each await
may fail, and what was counted or committed must then be taken back or kept.
*Correct when*: tools and staged input wait for the guardrails, no call is left
without an output, none runs twice, the turns that count are the requests made,
the guardrails' error is the one reported, nothing outlives the run.

**Tool execution** (`runner/toolExecution.ts`, `runner/siblingCancellation.ts`,
`utils/abortSignals.ts`). *State*: workers, the index of the next call, two
nested scopes with abort controllers and first failures. *Operations*: function
calls at once or capped, computer actions one by one, shell and patch actions in
sequence; `tool.ts` gives up on a tool whose deadline has passed. *Hard*: the
first failure cancels the siblings but must wait for them; the failures of two
categories race; checks before an await are stale after it; a tool that was
given up on goes on and answers late. *Correct when*: every started call
settles, the first error is thrown, nothing starts to act after it, each call of
a turn that returns has an answer.

**Run state** (`runState.ts`, `runContext.ts`): the fields above, approvals,
`addInput()`, serialisation with schema versions, tool identities. *Correct
when*: what is resumed is what was interrupted.

**Streaming run** (`run.ts` `#runStreamLoop`, `result.ts`, `runner/streaming.ts`,
`runner/streamReconciliation.ts`). *State*: as the run loop's, and the result's
queue of events, its terminal event, its `completed` promise. *Operations*: the
same turns, emitting events; reading, cancelling; answering the calls of a
response that was cut off. *Hard*: a consumer that cancels, is slow or stops
reading; guardrails that trip in mid-stream; four places that write the input to
the session, each of which may fail; a stream cut off after the server saw calls.
*Correct when*: events arrive once, in order, before the end; none but raw model
events precede the guardrails' verdict; input is saved once; `completed` settles.

**Session persistence** (`runner/sessionPersistence.ts`,
`runner/blockedOutputPersistence.ts`, `memory/`). *State*: the count of items
already saved, and a write-ahead record for the results of a resumed turn.
*Operations*: saving at the end of a run, promoting, appending and reconciling the
record, rewinding the count when approvals are resolved. *Hard*: an append that
is rejected may have been stored, wholly or in part, with the items of others in
between; the application then runs the state again. *Correct when*: an item is
saved once and none is lost, and what tools did is recorded before the run goes on.

**Conversation tracking** (`runner/conversation.ts`). *State*: which items a
server-managed conversation already holds, which are on their way, and what a
filter dropped; it is rebuilt from the `RunState` when a run is resumed. *Correct
when*: an item is sent once and none is forgotten, also after requests that were
retried or failed.

**Model retries** (`runner/modelRetry.ts`). *State*: the attempt, its timeout, the
provider's advice, what failed attempts used. *Operations*: attempt, advice,
policy, delay, replay, giving up. *Hard*: a request that failed may have been
accepted; timeouts and aborts race the answer. *Correct when*: nothing that may
have had an effect is replayed unapproved, the caller learns that it may have had
one, and usage is counted once.

**Model output processing** (`runner/modelOutputs.ts`, `items.ts`,
`runner/toolSearch.ts`): sequential mapping of response items to actions.

**Agents, tools, handoffs** (`agent.ts`, `tool.ts`, `handoff.ts`): configuration
objects, schemas; agents used as tools run nested loops.

**MCP lifecycle manager** (`mcpServers.ts`). *State*: which servers are
connected and failed, errors, a queue of operations, one worker per server with
the call it awaits. *Operations*: `open`, `reconnect`, `close`, in parallel or
one by one, with timeouts. *Hard*: a call that was given up goes on in the
server and ends during a later operation. *Correct when*: calls to a server
never overlap, active servers are connected, none is forgotten, every operation
ends.

**MCP servers** (`mcp.ts`, `mcpToolCache.ts`, `shims/mcp-server/node.ts`): the
transports, a tool cache that reconnections invalidate.

**Batch trace processor** (`tracing/processor.ts`). *State*: bounded buffer,
exports in flight, timer, abort controller. *Operations*: add, timer loop,
`forceFlush`, `shutdown` with or without a deadline. *Hard*: four parties cut
batches; exports overlap; a deadline passes while a callback awaits. *Correct
when*: no item is lost, repeated or overtaken, and flush and shutdown return
only when what they answer for is exported.

**Tracing provider** (`tracing/provider.ts`, `tracing/context.ts`): spans,
async context, shutdown on process signals.

**Sandbox runtime** (`sandbox/`, 29,000 lines): owns sandbox sessions, their
cleanup, mounts; the providers are process and file I/O.

**OpenAI models** (`agents-openai`): request and response conversion;
`responsesWebSocketConnection.ts` (a message queue with waiters, close and
errors); `openaiResponsesCompactionSession.ts` (compaction concurrent with
additions); `openaiTracingExporter.ts` (retries with backoff).

**Realtime** (`agents-realtime`: `realtimeSession.ts`, transports). *State*: the
connection's generation, the current agent, the active response, tool calls at
work, pending and completed, approvals, guardrails that run. *Operations*: the
server's events, the application's decisions, `connect()`, `close()`. *Hard*: every
handler awaits application code and goes on in a session that may have another
connection, agent or response; events are delivered twice; `connect()` may be
called while another one is under way or a socket is open. *Correct when*: a call
runs once and is answered once on its socket, the first decision stands, and an
interruption hits the response that was judged.

**Extensions** (`agents-extensions`): adapters to third-party services.

**Utilities, test doubles** (`utils/applyDiff.ts`, `utils/strictToolSchema.ts`,
`testing/scriptedModel.ts`).

### How they meet

`run()` → `RunLoop` prepares a turn → input guardrails (parallel) and model
request → the response's calls → tool execution (approvals interrupt the run) →
next step. Each model call goes through the retries, whose report of a request
that may have been accepted the conversation tracker uses. Every part opens
spans that end in the trace processor. Agents get their MCP tools from
`MCPServers.active`. Sessions are read before the first turn and written at
several points of a turn. Approval decisions and staged input come from the
caller between runs, through the `RunState`.

## 2. The modules

| Module | Code (`agents-core/src` unless named) | Proofs |
| --- | --- | --- |
| `RunLoop` | `run.ts` `#runIndividualNonStream` and its turn helpers; built on `ToolTurn` | `RunLoop_proofs` |
| `ToolTurn` | abstract: what executing the calls of a response promises to the loop | |
| `ToolConcurrency` | `executeFunctionToolCalls`, `executeComputerActions`, `runWithSiblingCancellation` | `TurnActions_proofs` |
| `TurnActions` | tool timeouts, shell and apply_patch calls; composes `ToolConcurrency`, implements `ToolTurn` | `TurnActions_proofs` |
| `EventDelivery` | abstract: what a `StreamedRunResult` promises its reader | |
| `StreamedRun` | `run.ts` `#runStreamLoop`, `result.ts`, `streamReconciliation.ts`; implements `EventDelivery` | `StreamedRun_proofs` |
| `ModelRetry` | `runner/modelRetry.ts` | `Conversation_proofs` |
| `Conversation` | `runner/conversation.ts` and its use by the run; composes `ModelRetry` | `Conversation_proofs` |
| `SessionPersistence` | `runner/sessionPersistence.ts` and its use by the run | `SessionPersistence_proofs` |
| `RealtimeSession` | `agents-realtime/src/realtimeSession.ts` | `RealtimeSession_proofs` |
| `McpServers` | `mcpServers.ts` `MCPServers`, `ServerWorker` | `McpServers_proofs` |
| `BatchTraceProcessor` | `tracing/processor.ts` `BatchTraceProcessor` | `BatchTraceProcessor_proofs` |
| `Lists` | `list.filter(...)`, for `McpServers`, `Conversation`, `SessionPersistence` | |

Each model module declares its constants with named assumptions, its state, one
action per stretch of code between two awaits, `Init`, `Next`, `Spec`, where
liveness is checked a fair specification, and the properties. The modules are
small enough to be checked without MC modules: the `.cfg` files give the
constants their values.

Operators whose comment begins with *Deviation* are not part of the model: each
is the form a definition would have with a plausible bug (a dropped guard, a
swapped order, a missing reset). `PROJECT.json` pairs every property with one of
them: with the definition replaced by its deviation, TLC must find the property
violated. They show that a property can fail.

Variables named `history`, `past`, `first` are not in the code: they record what
happened, for the properties and for the bounds on what the environment does (the
constants marked *bound*).

### RunLoop

`pc` is where the loop waits: `loop` (top of the while), `blocking`,
`preparing`, `admitting`, `model`, `checking` (waiting for the guardrails after
the model answered), `tools`, `resuming`, `applied`, `outcome`, `switch`,
`finalizing`, `failing` (the catch block), `closing` (the finally block, where
closing the sandbox or saving what was left may fail and replace the outcome),
`idle` (no run is executing).

| State | Code |
| --- | --- |
| `state` | `RunState`: `_currentStep`, `_currentTurn`, `_currentTurnInProgress`, the last processed response, the calls and outputs among the generated items, approvals, `_pendingInput`, the agent |
| `decisions` | the approvals and rejections kept in the `RunContext` |
| `local` | locals of the loop: `isResumedState`, `continuingInterruptedTurn`, the snapshot for `rollbackUnstartedTurn`, `deferLocalPendingInputAdmission`, the error that was thrown |
| `batch` | the turn's parallel guardrails and their tracker: running, an error observed but siblings still going, failed, passed |
| `answer` | the model request in flight |
| `tools` | each call: queued, running, output, approval asked, aborted, failed |
| `aborted` | the run's signal |
| `history` | what was staged, judged, admitted, requested |

The caller (`Run`, `Decide`, `AddInput`, `Abort`), the guardrails
(`GuardrailsPass`, `GuardrailErrorObserved`, `GuardrailsDrained`), the model
(`ModelAnswers`) and the tools (`StartTool`, `ToolReturns`) interleave with the
loop's own actions. A response is a set of calls, perhaps a handoff, or a
message that is text, a refusal or empty: all that the next step depends on.
`StopOnFirstTool` names the agents with that `toolUseBehavior`, `HandledErrors`
the error handlers given. What becomes of a call, and when the loop may go on or
must throw, are the actions and conditions of `ToolTurn`, which `RunLoop`
instantiates; `RunLoop` adds which calls are decided, and what the results mean for
the turn.

Left out: server-managed conversations and the accepted-response checkpoint (see
`Conversation` and `StreamedRun`), hosted tools (computer, shell, apply_patch, MCP
approvals), agents as tools, guardrails that reject a call before it asks for its
approval (`preApprovalInputGuardrails`), what a session stores (its writes may
fail; `ThrowAbort` and `Finally` say when one is still owed), spans and hooks.

### ToolTurn

The abstract specification of executing calls: `tools` says what became of each
call (`queued`, `running`, `output`, `approval`, `aborted`, `failed`), `aborted` is
the run's signal, `turn` how the execution ended. A call starts only while nothing
has failed and nothing was aborted, is answered once, and a failure is never
undone; the turn goes on when every call has an answer (`MayContinue`) and throws
when one has failed and none is running (`MayThrow`).

### ToolConcurrency

One turn's function and computer calls. `worker` and `nextIndex` are the capped
workers of `executeFunctionToolCalls` (or one task per call), `computer` is the
loop over computer actions, `reason` holds for each signal (`user`, `turn`,
`tools`) why it was aborted, `owner` and `failure` are `firstFailureOwner` and
`firstFailure` of the two scopes, `group` and `outcome` are the settled promises
of the categories and the turn. What follows an event within one drain of the
microtask queue is one action: a failing call aborts its siblings' signals and
reserves its category's failure before anything else runs. A call is `asking`
(approval, guardrails: it may still be refused), `acting`, and then `output`,
`approval`, `cancelled` or `failed`; a call may also be between the two, when
its error handler or its timeout's is awaited. First calls are `asking` at the
start, and the signal is not yet aborted. `first` is the call that failed first.
`StatusOf` is the refinement mapping to `ToolTurn`: a call that is asked about is
still queued, and one whose error is known has failed.

### TurnActions

All local actions of a turn: `ToolConcurrency` extended with two things.
`tool[c]` is what a timed call's tool is to its call: `awaited`, or given up on
(`late`, later `over`). The deadline cancels the call if a sibling has aborted
it, else answers it, makes it throw, or awaits `timeoutErrorFunction`; the tool
itself goes on, may outlive the call and the turn, and no longer counts against
`maxFunctionToolConcurrency`. `action` and `current` are the shell and apply_patch
calls, executed one by one in the model's order once the other categories have
returned; an abort before such a call is looked at cancels it, but nothing looks
at the signal again after its approval was asked. `turn` is what the caller of
`resolveTurnAfterModelResponse` sees.

Left out: a turn resumed after an interruption, which takes the categories one
after another (its control is in `RunLoop`); the redaction of failures.

### EventDelivery and StreamedRun

`EventDelivery` is the promise, in three variables: events are received in the
order they were emitted, each once; a stream ends `done` only when everything was
received; only an error or a cancellation drops events; nothing comes after the
end. `StreamedRun` defines `Delivery == INSTANCE EventDelivery WITH ...`, from its
`stream` to these three, and `DeliversEvents == Delivery!Spec`.

In `StreamedRun`, `stream` is the `StreamedRunResult`: the queue, whether its
reader has asked for an event (the stream's `highWaterMark` is 0, so events are
drained one by one), the terminal event, the `completed` promise, the output
hidden until it is accepted. `state`, `local` and `batch` are as in `RunLoop`;
`feed` is the model's stream, with the calls the server has seen so far and
whether the code that reconciles an abort records them (a computer call it does
not); `sandbox` the sandbox session the run owns. `pc`: `loop`, `resuming`,
`retaking` and `resumed` (a resumed turn has its outcome, and the state shows it
before the awaits that follow are over), `preparing`, `admitting`, `streaming`,
`emitting` (an event passed `throwIfError()`, whose await ends before the event
is emitted), `finishing` and `settling` (waiting for the guardrails after a
stream that ended, and after one that was cut off), `reconciling`, `tools`,
`interrupting`, `finalizing`, `catching`, `cleaning` and `ending` (the finally
block), `idle`.

Concurrent with the loop are the reader (`Read`, `StopReading`), the caller's
signal, the model and the guardrails. Every save may be rejected, stored or not.
Staged input, the accepted-response checkpoint of a managed conversation and the
resumption of such a response are modelled; what a resumed interruption and the
tools do is an outcome.

Left out: handoffs, nested agent streams and their budget, the errors that
suppress the writing of the input other than a rejected compaction item.

### ModelRetry

One call of `getResponseWithRetry` or `getStreamedResponseWithRetry`. `attempt`
is the current one, `advice` what the provider says about its failure
(`suggested`, `safety`, `started`), `phase` where the call is, `usage` the tokens
used, recorded by the handler and put into the result. `PolicyDecision` evaluates
the retry policies, combinators included, on the marks that only the runner's own
policies set. `reported` is `onPossiblyAcceptedRequestFailure`.

The provider takes a request or not, hidden from the runner; its advice is true,
but it may say nothing. Left out: how long delays are, headers and error codes
(advice stands for them), and the usage of a response that comes after its
timeout, which the code drops with it.

### Conversation

`tracker` is `ServerConversationTracker` (`sent`, `server`, `remaining`,
`initialSent`), rebuilt from the `RunState` by every `Run`; `held` is what the
server has: the items of the conversation, or of the chain that
`previousResponseId` continues. A turn prepares what was not sent, a filter may
drop an item, the model call is `ModelRetry`'s on the variables of the same
names, and then the turn is resolved, interrupted by a call that needs an
approval, or fails, with or without a checkpoint of the accepted response.

Assumed: every response has an id; every call on a state has the same options;
policies are those of the run. A streamed run that its caller aborts takes its
input as sent and ends without an error (`StreamAborted`).

`HeldOnce` has three excuses (`Secret`), and a state is not run again after one:
`silent`, a taken request failed and the provider gave no advice, or none that
says so, and it was not the timeout of a stateful call; `aborted`, the caller's
abort of a timed call came before the advice; `approved`, the application
approved an unsafe replay. Each is set from what the provider and the caller did,
never from what the code reports, so that an exit that forgets its report
violates `AcceptanceIsReported` and `HeldOnce`. Left out: guardrails, a reader that
cancels and the reconciliation of aborted calls (see `RunLoop`, `StreamedRun`),
handoffs, compaction of what is sent, tool search, reasoning item ids.

### SessionPersistence

`session` is the store, `state` the generated items, the count of those persisted
and `_pendingSessionWrite` (`pending`: its phase, the slice it is about, what the
session held before). `pc` follows a run from its start through reconciling,
promoting, appending and completing that record, the resumed turn, the model
and the final save. Any operation on the session may be rejected, an append after
any prefix was stored; others append too. The model starts where a first run has
returned its interruption.

Where the agent has an output guardrail and a tool's output may be the final one,
an interruption of a response that already has an output is not saved
(`Deferred`): neither its checkpoint nor the save before the return
(`ReturnUnsaved`) happens, and a call whose result was left so is in
`history.deferred` until a write of the record takes its items along. When all
calls of such an interruption were rejected in the next run, that run goes on to the
model before the results of the first are stored: the session gets them with the
final save. A later run refuses such a state if the count of persisted items does
not end before the response's first output (`Refused`); after a turn whose tools
ran before, it never does, so that the run that returned this interruption cannot
be resumed with its session.

Three things are excused, by name. `history.deferred`, as above.
`history.unknown` holds the items that an ordinary final save stored although it
was rejected: that save has no write-ahead record. `history.miscounted` is set
when the count was rewound for approvals it does not include, the disagreement
`session_rewind` of section 5. Left out: handoffs, blocked outputs and history
transactions, cancellation but for that of a final output's guardrails,
interrupted responses that hold more than function calls (always deferred), what
compaction does to the items, and what is refused of a state restored from JSON.

### RealtimeSession

`connection` has the generations of `connect()` and `close()`, the calls of
`connect()` that have not yet reached the transport (`opening`) and the one that
the transport attempts (`attempt`); `turn` the active response, the count of
responses and the agent captured for each; `invocation` the maps of calls
completed, active and pending for approval, by agent and call; `handler` the
event handlers and decisions under way, each at one of its awaits; `checks` the
output guardrails that run, `tripped` the responses interrupted; `server` the
socket, and what was sent and received on it. The server repeats calls and
approval requests, overlaps responses, and `turn_done` is the last event of one.

The transport is the WebSocket. `connect()` resets the session at once, and only
then does it ask the transport, which throws when it has a socket or an attempt
under way (`openaiRealtimeWebsocket.ts:506`). So `Connect` leaves `server` as it
is: the socket of a session that was open goes on to speak after the reset. The
handlers of `turn_started`, of text and audio deltas and of `turn_done` do not
ask whether the session is connected, nor do `TurnStarted`, `Delta` and
`TurnDone`; calls and approval requests are ignored until it is. A socket that
closes by itself (`SocketCloses`) is not reported to the session. `server.made`,
the agent a response was asked of, is set when `turn_started` is handled: one in
flight over a handoff is not told apart. Decisions on calls are kept per agent,
those on MCP requests for all agents (`runContext.ts:1307`).

*Bounds:* a session has one kind of traffic (`Traffics`): calls with handoffs,
MCP requests with handoffs, or responses to judge. They share the connection and
the agent only. Where none is judged, a socket has `MaxTurns` responses.
Response ids are used in one order and never twice. Left out: WebRTC and SIP,
listeners that call back into the session during a send, approval items the
session did not issue, decisions for all later calls, `updateAgent()`, turns
without a response id, the history, the deletion of a pending call (it does
nothing when it runs). All agents have tools under all names; consecutive awaits
with no state between them are merged.

Two limits of the code show in how the properties are put. An MCP request that
is repeated after a handoff is put to the second agent too, so an answer is
final once per agent. And an older response that speaks may become the active one
when three overlap, or after `connect()` has reset a session whose socket is open,
as the reset forgets which was the newest. So `InterruptsItsResponse` speaks of the
response that began last, if it began since the reset; at most one interruption of
a response is promised between two resets, since the record of interruptions is
reset too.

### McpServers

`op` is the operation in progress with its phase and the servers still to do,
`lifecycle` the queue behind `lifecycleTail`. `waiting` is what the operation
awaits from a server; `closeTask` is the tracked `close()` of a server
(`serialCloseTasks` of the serial path and `closing` of the worker are one
variable). `server` is the environment: the calls in progress and `live`,
whether those that were answered left it connected. `options`
(`connectInParallel`, `strict`, `suppressAbortError`) are chosen in `Init`, so
one run covers all eight.

Servers answer with success, an error or an abort-like error, in any order, late
or never. A server that closes does not end a `connect()` that is pending: that
call becomes `stale`, may go on while the next one runs, and connects nothing
(`NodeMCPServerStreamableHttp` discards what it brings, the stdio and SSE
servers have closed its transport). Left out is that a stale `connect()` of a
stdio or SSE server, when it fails, calls its server's own `close()` (section
6). Timeouts are not null (their default is 10 seconds). `dropFailed` only
filters what `active` returns and `suppressedAbortFailures` is only read where
every other failure has already thrown: both are left out.

### BatchTraceProcessor

`buffer`, `exports` (`#activeExportPromises` with their controllers),
`exportInProgress`, `timeout` and `controller` are the fields of the class;
`loops` are the timer loops that `start()` creates (each armed, in its callback,
about to continue, or cleared), `shutdown` and `flush` the calls in progress.
`MicrotasksDrained` expresses that a timer fires only when no continuation is
ready. An item is its arrival number; whether an export succeeds is left out,
since the processor forgets the batch either way.

## 3. The runs

| Run | Instance | Distinct states | Shows |
| --- | --- | --- | --- |
| `run` | 4 calls, one of the second agent, 2 that need approval, blocking and parallel guardrails, the second agent stops on its first tool, a handler for too many turns, 2 turns, 2 calls per response, 3 runs, 1 staged input | 1,036,009 | the loop's safety, and that every run ends |
| `tools_turn` | 4 function calls (1 timed) on 2 workers, 2 computer calls, 2 shell or patch calls | 350,280 | all actions of one turn |
| `stream_run` | managed and not, 2 turns, handler for too many turns, 3 runs, 1 staged input, 1 event per response before its end | 367,912 | the streamed run, its stream, and that both settle |
| `conversation` | 1 retry, policies `nested` and `any`, with timeouts and without, streamed and not, chain or conversation, filter, 3 responses, 2 runs, 1 initial and 1 staged item | 7,457,148 | what the server holds over retries and resumptions |
| `session` | behaviours after tools both ways, with an output guardrail and without, 2 calls, 2 responses, 4 runs, 1 item of others | 1,519,145 | what the session holds |
| `mcp_lifecycle` | 2 servers, `open()` and 3 further operations, all options | 786,541 | the manager against late and silent servers |
| `trace` | buffer of 3, batches and trigger of 2, 4 items, 1 loop, 2 shutdowns | 104,701 | no loss, repetition or overtaking; waiters; liveness |
| `realtime` | one call that needs approval, one handoff, one MCP request, 3 responses, 1 per socket where none is judged, 2 handlers, 2 checks, 2 calls of `connect()` or `close()`, 2 deliveries of each call, three kinds of traffic | 3,214,517 | calls, decisions and interruptions |
| `trace_timer`, `mcp_aborted_cleanup`, `stream_sandbox`, `session_rewind` | as small as shows the behaviour | up to 1,860 | the disagreements of section 5 |

### Properties

*run.* `ToolsWaitForGuardrails`: no tool starts while a parallel guardrail is
undecided or failed. `CallsAreAnswered`: the model is never asked to continue,
nor a handoff or final output taken, with a call that has no output.
`RunLeavesNothingOpen`: when a run is over, the turns counted are exactly those
that made a request, and nothing it started goes on. `AdmittedInputIsGuarded`,
`GuardrailErrorWins` (only a sandbox that cannot be closed in the finally block
replaces the error), `ExecutedOnceApproved` (over all resumptions), `RunEnds`.

*tools_turn.* `TurnIsSettled`: a turn that goes on has an answer for every call,
one that throws leaves none at work. `FirstErrorSurfaces` (across categories that
settle in the other order). `StartsInOrder`: no function or computer call starts
to act after a failure or an abort, and shell and patch calls wait for all of them
and for each other. `ExecutesCalls`: the refinement of `ToolTurn`, with a tool
that answers late changing nothing. `ActionsEnd`: the turn ends, although tools
that were given up on may never return.

*stream_run.* `DeliversEvents`: the refinement of `EventDelivery`.
`EventsWaitForGuardrails`: nothing but the model's raw events before the verdict,
and after a failure at most the one event that had already passed the check.
`FinalOutputIsAccepted`: an output shows only when guardrails passed it and it is
saved, but for the awaits of a resumed turn (section 5). `InputSavedOnce` (four
places may write it; a response refused for its compaction items leaves it
unwritten), `SentInputIsAdmitted` (staged input that was sent is not sent again),
`AbortedCallsAnswered` (after a cancellation or timeout every call that the code
records has an output, or the request that brings it failed; computer calls are
not recorded and stay unanswered), `StreamSettles`.

*conversation.* `HeldOnce`: the server holds no item twice, unless a request that
it had taken failed and nothing could tell the runner. `NothingForgotten`:
when the model answers it was given everything but what a filter dropped or a
failed turn abandoned. `AcceptanceIsReported` and `UsageCountedOnce` are
`ModelRetry`'s, checked with every kind of call around it.

*session.* `StoredOnce`, `NothingLost`: for every prefix of an append that is
stored although the append is rejected, and for every run that returns but with a
deferred interruption. `EffectsAreRecorded`: the model is asked only when the
results of approved tools are stored, unless their interruption was deferred, and
no tool runs again whose result was known.

*mcp_lifecycle.* `NoOverlappingCalls` (no call while a `close()` runs, no second
`connect()` without an answered `close()` in between), `ActiveServersAreHealthy`
(with the default options also that a strict `open()` that throws has asked every
connected server to close), `NoServerForgotten`, `CloseIsComplete`,
`OperationsEnd`.

*trace.* `HandedOffOnceInOrder`, `WaitersAreNotMisled` (flush and shutdown return
only when what they answer for was exported), `ItemsAreExported`,
`TimedShutdownReturns`.

*realtime.* `CallsRunOnce` (again only after a failure, and by the agent that
the response was asked of), `OneAnswer` (computed for the connection that opened
the socket it is sent on), `FirstDecisionStands`, `InterruptsItsResponse` (once
between two resets, never a response that began after the judged text or another
one that began last, never for a text from before the reset),
`NobodyWaitsInVain` (a handler that waits for another waits for one at work).

Type invariants are proved rather than run where a module has proofs.

### Bounds, and why they are enough

* `run`: two calls in one response are needed for a call that waits for an
  approval beside one that is done, and for a failure beside a sibling. Two turns
  are a turn, its successor and the turn over the limit. Three runs are a start
  and two resumptions, hence a resumption of a resumption with a new interruption
  between them. One staged input can be refused, deferred, admitted and lost.
* `tools_turn`: four calls on two workers let each worker take a second call
  while the other still runs its first, and leave calls untaken at a failure; two
  computer calls leave one unstarted; two sequential calls have an order. One
  timed call frees its worker while its tool goes on.
* `stream_run`: one event before the end lets the queue hold an event behind one
  that was not read, with those of items and the end behind it. Three runs are a
  failed one, its resumption and the resumption of that.
* `conversation`: one retry is a failed attempt and its replay; three responses
  over two runs have a tracker rebuilt from two responses that then sends a third.
  `any` retries unless the provider vetoes it; `nested` has such a combinator
  inside of another, beside an approval of an unsafe replay.
* `session`: four runs let a record be written, fail, be reconciled and fail again.
  Two calls let one be resolved while the other waits.
* `mcp_lifecycle`: with two servers one can fail, hang or be late while the other is
  dealt with; after `open()`, three operations let a late answer of the first
  arrive in the second and its consequences show in the third.
* `trace`: a buffer of three with batches of two can overflow, keep a rest and
  reach the trigger; of two calls of flush or shutdown the second may follow one
that did not export all; one flush and one shutdown are in progress at a time.
* `realtime`: two handlers meet on a call; two calls of `connect()` or `close()` make
  a connection stale, overlap, or reset a session that is open; three responses
  are one judged, one that ended, one newer.

The theorems of section 4 lift the bounds that constants set, for every invariant and
action property of these runs; the liveness properties rest on the instances. What
a model leaves out or fixes in its definitions, the theorems leave out too: in
`RealtimeSession`, that kinds of traffic are kept apart and the order of response ids.

`CHECK_DEADLOCK FALSE` in every configuration: an idle processor or manager, a
finished turn and a caller that has used up its runs may stop.

### Fairness, and what justifies it

* RunLoop: `WF(Loop)`, since continuations of settled promises are run;
  `WF(InputGuardrails)`, `WF(ModelAnswers)`, `WF(Tools)`: guardrails, model and
  tools are assumed to answer. No fairness for the caller. The code has no
  timeouts of its own for them, so `RunEnds` holds only under this assumption.
* TurnActions: `WF(ActionsProgress)`: calls answer, the sequence goes on. None for
  deadlines, for tools that were given up on, and for the user's abort.
* StreamedRun: `WF(Loop)`, `WF(GuardrailsSettle)`, `WF(Model)`, as in RunLoop. None
  for the reader: every run settles whatever its reader does. That a reader sees
  the end has its own reading as a premise inside `StreamSettles`.
* McpServers: `WF(Manager)` and `WF(Timeouts)`: continuations and due timers run.
  Nothing is assumed of the servers: `OperationsEnd` holds although none ever
  answers.
* BatchTraceProcessor: weak fairness of continuations, strong fairness of
  timers (a due timer is disabled while continuations are ready, but the event
  loop serves it in the end). That the exporter answers (`ExporterAnswers`), or
  answers once its signal is aborted (`ExporterHonoursAbort`), is a premise
  inside the properties that need it, `ItemsAreExported` and
  `TimedShutdownReturns`.

## 4. The proofs

All proofs are checked by TLAPS from nothing but the named assumptions of the
modules: sizes and limits are natural numbers (those of the trace processor
positive), there is at least one call in a turn, calls form a finite set, the
kinds of calls of a realtime session are disjoint, options are among the values
the code accepts, retry policies among those the model defines. They hold for
every such value, so also where an instance above is small. The theorems worth
knowing are listed in `PROJECT.json`.

Every module's argument has the same shape: inductive invariants, each part with
its own lemma that `Init` implies it and that each action preserves it, one on
top of the other, and theorems that read off the properties.

**RunLoop_proofs** proves every safety property of `RunLoop`. Parts of the
invariant and why they are needed:

* `TurnInv`: the limit was compared before anything of the turn happens; without
  it the turn number has no bound and `TypeOK` is not inductive.
* `GuardrailInv`: where the loop may be while guardrails run or have failed. The
  loop passes `checking` only after them and `failing` only once they are drained.
* `RequestInv`, `ToolsInv`: requests and calls exist only in the phases that
  wait for them, and a call at work has no output yet.
* `InputInv`: the batch that judges a turn covers what is staged now. It is the
  reason why committing the staged input *after* the batch passed commits nothing
  unjudged.
* `CallsInv`: between turns the only calls without output wait for an approval;
  during execution no call of the response was left out of the queue.
* `StepInv`: where the loop is determines the state's step; needed since a
  resumed state enters the loop at a place that depends on it.
* `SnapshotInv`, `CountInv`: a snapshot is held from the start of a turn to its
  request, and "the turns that count" are those of the snapshot while it is held.
  This is what the rollback restores, and why no turn is lost or counted twice.

The proof avoids one case per action and conjunct by `Writers`, which says which
actions change which variable, `Entering` and `Leaving`, the flow of control,
and one lemma per field that says how it changes.

**TurnActions_proofs** first proves every safety property of `ToolConcurrency`.
`WorkerInv` and `ComputerInv` tie calls to whoever runs them, so that a settled
category leaves no call going; `GroupInv` orders the categories' promises and the
turn's; `ScopeInv` relates signals, owners and failures of the two scopes
(`ReasonInv`, `FailureInv`, `OwnerInv`, `ThrownInv`: what a scope would throw is
always the first failure or the user's reason); `TakenInv` says that a worker
stops early only because of a failure. Then comes the whole turn.
`CallsAreConcurrent` is the composition: `ActionsSpec => Spec` of
`ToolConcurrency`, because a deadline moves a call as an error or an answer of its
tool would, and the sequence leaves the calls alone. So all theorems about the
calls hold of the turn. `SequenceInv` adds that the sequence starts when the
others have returned, has answered what it has passed and has not touched what
comes next. `TurnSettles`, `FirstErrorOfTurn`, `ActionsStartInOrder` and
`AnswersStay` (no answer is overwritten, those of the sequence included) follow.

`CallsAreExecuted` is the refinement, `ActionsSpec => ExecutesCalls`: whatever
workers, scopes and deadlines do, the calls are executed as `ToolTurn` says. The
difficulty is that the code never asks whether a call has failed: it looks at
signals. `AbortHasCause` and `NoSiblingFailed` translate: a signal is aborted only if
the user aborted or a call has failed, and a call whose signal does not name a sibling
has none that failed, unless the user aborted. Each step of a call is then a step of
`ToolTurn` or a stutter (`FunctionCallStep`, `TakeCallStep`, `ComputerCallStep`), and
`NothingLeftRunning` and `AllCallsAnswered` give what the end of the turn needs.

**StreamedRun_proofs** proves `ImplementsDelivery` (`Spec => Delivery!Spec`: the
streamed run implements `EventDelivery`) and every safety property.

* `StreamInv`: an open stream has exactly what was emitted, received or queued,
  in order (`Contiguous`); a reader waits only on an empty queue that is not
  over (`ReaderWaits`); a stream ends only when its end was announced or it was
  cancelled (`EndInOrder`). One lemma for each operation of the stream
  (`NewStreamOK`, `AddItemsOK`, `DoneOK`, `RaiseErrorOK`, `CancelStreamOK`,
  `ReadOK`) says that it keeps this and is a step of `EventDelivery` or a
  stutter; each action of the loop is then one of them.
* `BatchInv`: where the loop uses a response, the guardrails passed.
* `SavedInv`: what was written is what the loop noted, so no place writes again.
* `AdmitInv`: staged input that a request carried is admitted, deferred or refused.
* `PendingInv`: a completed response has no call open, and the loop goes on with
  completed ones only.

**Conversation_proofs** has two parts. The first is about one model call
(`ModelRetry`): `AcceptanceAlwaysReported` (each of the seven ways out of a
failed call), `UsageIsCountedOnce`, and `StatefulRequestTakenOnce`: a request that
continues a conversation is taken at most once unless the application approved an
unsafe replay. Its invariant `TakenOnce` says that while an attempt is under way
an earlier one was not taken, because the advice that let the runner replay said
so. `CallsAreRetried` shows that every model call of a conversation is a
behaviour of `ModelRetry`, and these theorems carry over.

The second part is about the items. `Places` relates the place of the run to the
state's step and to the request under way. `Numbered` says which items there can
be (those of responses received, of input staged), so that a new response brings
new items. `Distinct`: the state has no item twice, and staged input is either
staged or admitted. `Tracked`: while the tracker is asked, it knows every
generated item as sent or the server's, but for the results of the last
response; also when a new run rebuilt it from the `RunState`. `Arrived`: what
was sent is held or was dropped, and the request of a turn carries the rest;
`NothingIsForgotten` reads it off. `HeldApart`: what is still to be sent was not
held before this turn; from it, and from `TakenOnce` for a request that is
repeated, follows `ItemsHeldOnce`, which carries the excuse of `HeldOnce` along
as an alternative of the invariant.

**SessionPersistence_proofs** proves the three properties of
`SessionPersistence`. `Recorded`: at which places of a run there is a write on
record, and that it covers exactly the items that are not counted yet, or, once
it is committed, that all are counted. `Numbered`: items belong to responses and
calls that there were, the state has no item twice, and the session holds no
approval request (without that, a request that is taken off the state could
leave a copy behind). `Answered`: which calls have results, approvals and
decisions at each place of a run. On these rest `Saved` (what is counted is
stored, and an approved call's result is, or its write is on record or was
deferred) and, unless the count was rewound wrongly, `Apart` (what is not
counted is not stored, except by a rejected save and by an append of the record
that was cut off, and then the record's checkpoint has none of it, so that
reconciling finds what was added). `ItemsAreStoredOnce`, `WhatIsCountedIsStored`
and `EffectsReachTheSession` follow. A resumption takes the approval requests
off the state and rewinds the count by their number; the lemma `FilterPositions`
says that the count then covers only items it covered before, and all of those
that stay if every request was counted.

**McpServers_proofs** proves the four safety properties of `McpServers`.
`CallsInv` (`Phases`, `Calls`) ties what the operation awaits of a server, the
tracked `close()` and the server's own calls to each other: who connects has no
`close()` going, an answer that comes late belongs to a call that was given up
on. `CallsDoNotOverlap` follows. `SoundInv` is about the lists the manager
keeps: `Sound` (an active server is live and not being closed, or its close is
what the operation awaits; one being connected has no entry yet), `Kept` (what
is reconnected stays on the list of failures until it is connected) and
`Healthy` (while abort-like errors are suppressed, only `reconnectAll` ever has
a server both active and failed, and `close()` has closed or given an error to
all it passed). `AskedInv` is about a failed `open()`: while it connects, what
it reached is active, failed or awaited; while it cleans up, to be closed or
asked to; afterwards all were asked. `SoundInv` is proved with what one step may
do (`Remembers`, `Completes`), from which the two action properties
`ServersAreRemembered` and `ClosesEverything` follow. One lemma says what a
server's answer does to the operation that awaits it (`ConnectAnswered`,
`CloseAnswered`), one per action uses it.

Lists in these three modules: a filter is a recursive function (`Only` in
`Lists`). That its equation has a solution, and what it keeps, is an induction
over the length; `AllNumbers` does it without a theorem that takes an operator:
the numbers for which a statement fails would have a least element (`WFMin`, the
order of the naturals being well founded). `OnlyIsFilter`, `WithoutIsFilter` and
`ConcatIsUnion` are what the models' proofs cite. Each of the modules states
these few lemmas for itself.

**RealtimeSession_proofs** proves all five properties. `SocketInv`: the attempt
and the socket belong to no later generation than the session's, a connected
session has the socket that was opened for its own generation and no attempt
under way, and what speaks on that socket began after the reset. Without it a
call could be taken from the socket of an earlier connection (`connect()` keeps
it) and answered on it. `InvocationInv` (`ActiveInv`, `HandlerInv`,
`PendingInv`): an entry of `activeToolCalls` names a handler that works on this
connection's call, which is neither completed nor pending, and who waits waits
for that handler. `OwnKeyInv` (`ResponseInv`, `KeyInv`): what is known of a call
is kept under one key, for the response that made it belongs to one agent;
without it a repeated call after a handoff could run under a second one.
`RunInv`: the runs of a call are its failures, and one more only while it is
acting or once it is completed. `AnswerInv`: what the server was told is what is
completed. `DecisionInv` (`ItemInv`, `StageInv`) and `VerdictInv`: a handler
that was approved was approved by the decision that stands, and by none that was
made for another agent (`RunApproved`). `InterruptInv`: the counter of turns
equals the responses started since the reset, and the newest of these, while it
is live, is the active one, so a check whose count is current judges it.

**BatchTraceProcessor_proofs** proves `TypeCorrect`, `FlagExact` (the flag that
shutdown trusts is up exactly while exports are in flight), `OnceInOrder` and
`NobodyMisled`. `ItemsInv` accounts for every item: it is in the buffer, in one
batch in flight, settled or dropped, and batches in flight are disjoint, so that
a batch that settles removes no other. `FlushInv`: an item a waiting flush
answers for is settled or in a batch it awaits. `ShutdownInv`: the same for a
shutdown that was not timed out.

## 5. Where code and documents disagree

* `trace_timer`: the comment at `tracing/processor.ts:341` says that shutdown
  makes sure there are no more requests. When the deadline passes while the timer
  callback awaits an export, shutdown clears a timer that has already fired; the
  callback then arms the next one and the loop goes on.
* `mcp_aborted_cleanup`: the guide (`docs/.../guides/mcp.mdx:227`) speaks of a
  strict "all or nothing" connection. Without `suppressAbortError`, the cleanup of
  a failed `open()` ends at the first abort-like error of a `close()` and leaves
  the remaining servers connected, never asked to close and with no manager to do
  so. With the option, which is on by default, every connected server was at least
  asked to close: that is part of `ActiveServersAreHealthy`. It is still less than
  what the guide says: `closeServer` (lines 489-497) drops a server from the set
  also when its `close()` failed or timed out, and that one stays connected after
  `open()` has thrown.
* `stream_sandbox`: the guide (`.../sandbox-agents/clients.mdx:68`) says that the
  runner closes a sandbox session it owns on completion or failure. In the finally
  block of `#runStreamLoop` the input is written to the session first, outside of
  the try that guards this: when the write is rejected, the sandbox stays open.
  The run without streaming finalizes the sandbox first.
* `session_rewind`: the comment at `runner/turnResolution.ts:1347` says that the
  rewind undoes the increment that persisting an approval request caused. The
  count is rewound whether or not it was incremented, and before code that may
  throw while the requests stay: a resumption that is repeated rewinds twice, and
  one whose interruption could not be saved rewinds what was never added. The
  items before are then saved a second time.
* Without a run: `docs/.../guides/results.mdx:45` says that `finalOutput` is
  undefined while a streamed run is in progress. A resumed turn sets
  `_currentStep` to its final output (`runLoop.ts:175`, `233`, `350`), awaits follow
  (`run.ts:2704`, `2743`, `2750`), and only `finalizeStreamOutput` hides the output
  (`run.ts:2534`); until then a reader sees it, before the output guardrails have
  run. `FinalOutputIsAccepted` excludes these awaits (`pc = "resumed"`) by name.

## 6. What is only model-checked, and what is not modelled

Every invariant and action property that a passing run checks, and the refinements
of `EventDelivery` and `ToolTurn`, are also proved. Only model-checked are the
liveness properties `RunEnds`, `ActionsEnd`, `StreamSettles`, `OperationsEnd`,
`ItemsAreExported` and `TimedShutdownReturns`: the prover handles neither liveness
under fairness nor ENABLED. So are the disagreements of section 5, which are
counterexamples. No module uses RECURSIVE, which would exclude it from proofs;
what recursive functions compute is proved where it is needed.

Composed are `ToolConcurrency` into `TurnActions` and `ModelRetry` into
`Conversation`; `RunLoop` is built on `ToolTurn`, which `TurnActions` implements.
`RunLoop` takes the outcome of model calls, and `StreamedRun` that of model and tool
calls, as arbitrary; that is a gap between models that the plan below closes in part.

Not modelled, and why. The share of the source lines that the models stand for
is small, about a twentieth, because most of the lines hold no state that steps
of several actors could confuse:

* Serialisation of a `RunState` (its schemas alone are thousands of lines), tool
  identities, response conversion, schemas, configuration objects: data mapping
  with no interleaving; unit tests reach them.
* Sandbox providers, exporters' HTTP, the adapters of `agents-extensions`: I/O of
  third-party services.
* Test doubles (`scriptedModel.ts`): the models' arbitrary answers subsume them.
* The WebSocket connection, the compaction session, the MCP tool cache, the sandbox
  manager and provider shutdown have state worth modelling: they are the plan
  below.

Hazards without a property: a tool that throws after a server-managed response
was processed leaves calls on the server that nobody answers (`run.ts:2206`), and
the final save of a run has no write-ahead record
(`sessionPersistence.ts:2305`). In both the code leaves the decision to the
application and no document promises more; `NothingForgotten` and `StoredOnce`
exclude exactly these items, by name. A `connect()` of a stdio or SSE server that
was given up and fails after the next one began calls `close()` on its server
(`node.ts:482`, `725`) and may take the newer connection down; the manager does not
learn of it, and `live` does not follow it. `connect()` of a realtime session over
WebRTC that is connected returns without an error
(`openaiRealtimeWebRtc.ts:188`): the session takes the old channel for a new
connection and has forgotten which calls it answered there; the model's transport
is the WebSocket, which refuses.

## 7. The plan

In this order:

1. `ResponsesWebSocket` (queue, waiters, close, errors), `CompactionSession`
   (compaction against additions).
2. `ToolTurn` also in `StreamedRun`; resumed turns in `TurnActions`, guardrails
   before approvals in `RunLoop`.
3. Saves without a write-ahead record, handoffs and blocked outputs in
   `SessionPersistence`; the session of `StreamedRun` an instance of it.
4. `McpConnection` (epochs and cache), `SandboxRuntime` (ownership and cleanup),
   provider shutdown with `MultiTracingProcessor`.
5. `ApplyDiff` as a pure algorithm against a reference definition.

Theorems worth proving next: that the record of a write in `SessionPersistence`
makes an append that is repeated after failures a single one (an abstract session
with an atomic append, implemented up to the named excuses); that a call of
`RealtimeSession` is an abstract call with one decision and one answer.
