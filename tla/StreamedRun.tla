----------------------------- MODULE StreamedRun -----------------------------
(***************************************************************************)
(* The streamed run loop (agents-core/src/run.ts, #runStreamLoop), the     *)
(* result whose events it feeds (result.ts, StreamedRunResult), and the    *)
(* reconciliation of a response that was cancelled half-way                *)
(* (runner/streamReconciliation.ts).                                       *)
(*                                                                         *)
(* Concurrent with the loop: the reader of the events, who may be slow or  *)
(* stop, the caller's abort signal, the model's stream and the parallel    *)
(* input guardrails.  One action is one stretch of code between two awaits.*)
(*                                                                         *)
(* What RunLoop models in detail is coarse here: the preparation of a turn *)
(* (blocking guardrails included) succeeds or fails, tools and resumed     *)
(* interruptions have some outcome.  Left out: what is sent and stored     *)
(* (Conversation and SessionPersistence), compaction, spans, hooks, the    *)
(* budget of nested agent streams.                                         *)
(***************************************************************************)
EXTENDS Naturals, Sequences, FiniteSets

CONSTANTS
  MaxTurns,        \* maxTurns
  HandlesErrors,   \* the caller passes a handler for too many turns
  ServerManaged,   \* the conversations to consider: TRUE for a conversationId
  MaxRuns,         \* bound: calls of run() on the state
  MaxInputs,       \* bound: inputs staged with addInput()
  MaxEvents        \* bound: events of one response before response_done

ASSUME OptionsAssumption ==
  /\ MaxTurns \in Nat
  /\ HandlesErrors \in BOOLEAN
  /\ ServerManaged \subseteq BOOLEAN

ASSUME BoundsAssumption ==
  MaxRuns \in Nat /\ MaxInputs \in Nat /\ MaxEvents \in Nat

VARIABLES
  managed,  \* whether the server manages the conversation
  state,    \* the RunState: what survives between calls of run()
  pc,       \* where the loop is
  local,    \* the loop's local variables
  batch,    \* the turn's parallel input guardrails
  feed,     \* the model's stream
  stream,   \* the StreamedRunResult and what its reader has received
  sandbox,  \* the sandbox session the run owns
  history   \* what happened so far, for the properties

vars == <<managed, state, pc, local, batch, feed, stream, sandbox, history>>

Errors == {"accepted", "tool", "session", "maxTurns", "prepare", "guardrail",
           "timeout", "model", "compaction", "behavior", "outputGuardrail"}

NoSnapshot == [turn |-> 0, inProgress |-> FALSE, taken |-> FALSE]
NoFeed     ==
  [status |-> "none", events |-> 0, calls |-> 0, arrived |-> "none"]

NoLocals(resumed) ==
  [resumed |-> resumed, continuing |-> FALSE, snapshot |-> NoSnapshot,
   sent |-> FALSE, inputSaved |-> FALSE, deferred |-> FALSE, marked |-> FALSE,
   received |-> FALSE, carries |-> FALSE, pendingCalls |-> 0,
   completed |-> FALSE,
   handled |-> FALSE, error |-> "none"]

GuardrailsPending == batch \in {"running", "observed"}
GuardrailsFailed  == batch \in {"observed", "failed"}

------------------------------------------------------------------------------
(* StreamedRunResult: a queue of events, drained one by one when the reader *)
(* has asked for one (highWaterMark is 0).                                  *)
NewStream(turn, hidden) ==
  [queue |-> <<>>, emitted |-> 0, received |-> <<>>, wanted |-> FALSE,
   terminal |-> "none", keep |-> FALSE, end |-> "open", cancelled |-> FALSE,
   completed |-> "pending", hidden |-> hidden, turn |-> turn]

(* Deviation: only the queue is looked at, never whether the loop is over.  *)
DrainWithoutEnd(s) ==
  IF s.end # "open" \/ ~s.wanted \/ s.queue = <<>> THEN s
  ELSE [s EXCEPT !.queue = Tail(@), !.wanted = FALSE,
                 !.received = Append(@, Head(s.queue))]

DrainStreamQueue(s) ==
  IF s.end # "open" \/ ~s.wanted THEN s
  ELSE IF s.queue # <<>>
  THEN [s EXCEPT !.queue = Tail(@), !.wanted = FALSE,
                 !.received = Append(@, Head(s.queue))]
  ELSE IF s.terminal # "none"
  THEN [s EXCEPT !.wanted = FALSE, !.end = s.terminal]
  ELSE s

AddItems(s, n) ==
  IF s.cancelled \/ s.terminal # "none" THEN s
  ELSE DrainStreamQueue(
         [s EXCEPT !.emitted = @ + n,
                   !.queue   = @ \o [i \in 1 .. n |-> s.emitted + i]])

Settle(s, how) ==
  [s EXCEPT !.completed = IF @ = "pending" THEN how ELSE @]

(* Deviation: the stream is closed at once, whatever is still queued.       *)
CloseAtOnce(s) ==
  Settle(IF s.cancelled THEN s
         ELSE [s EXCEPT !.terminal = "done", !.wanted = FALSE,
                        !.end = IF @ = "open" THEN "done" ELSE @],
         "resolved")

Done(s) ==
  Settle(IF s.cancelled THEN s
         ELSE DrainStreamQueue(
                [s EXCEPT !.terminal = IF @ = "none" THEN "done" ELSE @]),
         "resolved")

(* An error drops what is queued, unless that is to be kept.                *)
RaiseError(s, keep) ==
  Settle(IF s.cancelled THEN s
         ELSE IF keep \/ s.keep \/ s.terminal = "error"
         THEN DrainStreamQueue([s EXCEPT !.terminal = "error"])
         ELSE [s EXCEPT !.terminal = "error", !.queue = <<>>,
                        !.wanted = FALSE,
                        !.end = IF @ = "open" THEN "error" ELSE @],
         "rejected")

CancelStream(s) ==
  IF s.cancelled THEN s
  ELSE [s EXCEPT !.cancelled = TRUE, !.queue = <<>>, !.keep = FALSE,
                 !.terminal = "done", !.wanted = FALSE,
                 !.end = IF @ = "open" THEN "done" ELSE @]

------------------------------------------------------------------------------
(* The reader asks for the next event, or leaves its loop.                  *)
Read ==
  /\ stream.end = "open"
  /\ ~stream.wanted
  /\ history.runs > 0
  /\ stream' = DrainStreamQueue([stream EXCEPT !.wanted = TRUE])
  /\ UNCHANGED <<managed, state, pc, local, batch, feed, sandbox, history>>

StopReading ==
  /\ stream.end = "open"
  /\ history.runs > 0
  /\ stream' = CancelStream(stream)
  /\ UNCHANGED <<managed, state, pc, local, batch, feed, sandbox, history>>

(* The abort handler is detached when the result has settled.               *)
Abort ==
  /\ pc # "idle"
  /\ stream.completed = "pending"
  /\ ~stream.cancelled
  /\ stream' = CancelStream(stream)
  /\ UNCHANGED <<managed, state, pc, local, batch, feed, sandbox, history>>

(* run(agent, state, {stream: true}): the caller awaits `completed` before  *)
(* it runs the state again; the signal it passes may be aborted already.    *)
Run ==
  /\ pc = "idle"
  /\ history.runs < MaxRuns
  /\ history.accepted = FALSE
  /\ \E aborted \in BOOLEAN :
       LET s == NewStream(state.turn, state.step = "final_output")
       IN  stream' = IF aborted THEN CancelStream(s) ELSE s
  /\ pc' = "loop"
  /\ local' = NoLocals(history.runs > 0)
  /\ batch' = "none"
  /\ feed' = NoFeed
  /\ sandbox' = "open"
  /\ history' = [history EXCEPT !.runs = @ + 1, !.inputWrites = 0]
  /\ UNCHANGED <<managed, state>>

AddInput ==
  /\ pc = "idle"
  /\ state.step \in {"interruption", "run_again"}
  /\ state.accepted = "no"
  /\ state.turn >= MaxTurns => state.inProgress
  /\ ~state.staged
  /\ history.inputs < MaxInputs
  /\ state' = [state EXCEPT !.staged = TRUE]
  /\ history' = [history EXCEPT !.inputs = @ + 1]
  /\ UNCHANGED <<managed, pc, local, batch, feed, stream, sandbox>>

------------------------------------------------------------------------------
(* The turn's parallel input guardrails.                                    *)
GuardrailStep(from, to) ==
  /\ batch = from
  /\ batch' = to
  /\ UNCHANGED <<managed, state, pc, local, feed, stream, sandbox, history>>

GuardrailsSettle ==
  \/ GuardrailStep("running", "passed")
  \/ GuardrailStep("running", "observed")
  \/ GuardrailStep("observed", "failed")

------------------------------------------------------------------------------
(* An error goes to the catch block, and from its own finalization past it. *)
Fail(l, error) ==
  /\ pc' = IF l.handled THEN "cleaning" ELSE "catching"
  /\ local' = [l EXCEPT !.error = error]

ReturnFromLoop ==
  /\ pc' = "cleaning"
  /\ UNCHANGED local

(* finalizeStreamOutput hides the output until it is accepted.              *)
StartFinalization ==
  /\ pc' = "finalizing"
  /\ stream' = [stream EXCEPT !.hidden = TRUE]

RollbackUnstartedTurn ==
  IF local.snapshot.taken
  THEN [state EXCEPT !.turn       = local.snapshot.turn,
                     !.inProgress = local.snapshot.inProgress]
  ELSE state

(* The top of the loop: no new work once a turn has begun and the stream    *)
(* was cancelled.                                                           *)
CancelledAtTop ==
  stream.cancelled /\ (state.turn > 0 \/ state.step = "final_output")

StopAtTop ==
  /\ pc = "loop"
  /\ CancelledAtTop
  /\ ReturnFromLoop
  /\ UNCHANGED <<managed, state, batch, feed, stream, sandbox, history>>

(* A response the server had accepted is never asked for again: it is       *)
(* processed if it is there and none of its tools has started.              *)
ResumeAcceptedResponse ==
  /\ pc = "loop" /\ ~CancelledAtTop
  /\ state.accepted \in {"waiting", "processing"}
  /\ \/ /\ state.accepted = "waiting" \/ state.response = "calls"
        /\ Fail(local, "accepted")
     \/ /\ state.accepted = "processing" /\ state.response = "message"
        /\ pc' = "retaking"
        /\ UNCHANGED local
  /\ UNCHANGED <<managed, state, batch, feed, stream, sandbox, history>>

(* resumeAcceptedModelResponse: a response without calls is an output.      *)
AcceptedResponseResolved ==
  /\ pc = "retaking"
  /\ pc' = "resumed"
  /\ state' = [state EXCEPT !.step = "final_output"]
  /\ stream' = AddItems(stream, 1)
  /\ UNCHANGED <<managed, local, batch, feed, sandbox, history>>

ResumeInterruption ==
  /\ pc = "loop" /\ ~CancelledAtTop
  /\ state.step = "interruption" /\ state.accepted = "no"
  /\ pc' = "resuming"
  /\ UNCHANGED <<managed, state, local, batch, feed, stream, sandbox, history>>

FinalizeAgain ==
  /\ pc = "loop" /\ ~CancelledAtTop
  /\ state.step = "final_output"
  /\ IF state.accepted = "finalizing"
     THEN Fail(local, "accepted") /\ UNCHANGED stream
     ELSE StartFinalization /\ UNCHANGED local
  /\ UNCHANGED <<managed, state, batch, feed, sandbox, history>>

(* resumeInterruptedTurn, handleInterruptedOutcome and the session write    *)
(* between them; a handoff is published before that write.  The final       *)
(* output of a resumed turn is in the state some awaits before it is hidden *)
(* and judged.                                                              *)
InterruptionResumed ==
  /\ pc = "resuming"
  /\ \/ Fail(local, "tool") /\ UNCHANGED <<state, stream>>
     \/ \E error \in {"none", "session"} :
        \/ /\ pc' = IF error = "none" THEN "cleaning" ELSE "catching"
           /\ local' = [local EXCEPT !.error = error]
           /\ stream' = AddItems(stream, 1)
           /\ UNCHANGED state
        \/ /\ pc' = IF error = "none" THEN "loop" ELSE "catching"
           /\ local' = [local EXCEPT !.continuing = TRUE, !.error = error]
           /\ stream' = AddItems(stream, 1)
           /\ state' = [state EXCEPT !.step =
                          IF error = "none" THEN "none" ELSE "run_again"]
        \/ /\ pc' = IF error = "none" THEN "loop" ELSE "catching"
           /\ local' = [local EXCEPT !.continuing = FALSE, !.error = error]
           /\ stream' = AddItems(stream, 2)
           /\ state' = [state EXCEPT !.step = "run_again", !.inProgress = FALSE]
     \/ /\ pc' = "resumed"
        /\ state' = [state EXCEPT !.step = "final_output"]
        /\ local' = [local EXCEPT !.continuing = FALSE]
        /\ stream' = AddItems(stream, 1)
  /\ UNCHANGED <<managed, batch, feed, sandbox, history>>

FinalizeResumedTurn ==
  /\ pc = "resumed"
  /\ StartFinalization
  /\ state' = [state EXCEPT !.accepted = IF @ = "no" THEN @ ELSE "finalizing"]
  /\ UNCHANGED <<managed, local, batch, feed, sandbox, history>>

------------------------------------------------------------------------------
(* prepareTurn: the turn is counted, its parallel guardrails start.         *)
SameTurn == local.resumed /\ (local.continuing \/ state.inProgress)

InputToGuard(turn) ==
  state.staged \/ (turn = 1 /\ ~(local.resumed /\ local.continuing))

ExceedsMaxTurns(turn) == turn > MaxTurns

BeginTurn ==
  /\ pc = "loop" /\ ~CancelledAtTop
  /\ state.step \in {"none", "run_again"}
  /\ LET turn  == IF SameTurn THEN state.turn ELSE state.turn + 1
         begun == [local EXCEPT
                     !.continuing = FALSE,
                     !.snapshot   = [turn |-> state.turn,
                                     inProgress |-> state.inProgress,
                                     taken |-> TRUE]]
     IN  /\ state' = [state EXCEPT !.step = "run_again", !.turn = turn,
                                   !.inProgress = TRUE]
         /\ IF ExceedsMaxTurns(turn)
            THEN Fail(begun, "maxTurns") /\ batch' = "none"
            ELSE /\ pc' = "preparing"
                 /\ local' = begun
                 /\ batch' = IF InputToGuard(turn) THEN "running" ELSE "none"
  /\ UNCHANGED <<managed, feed, stream, sandbox, history>>

PreparationFails ==
  /\ pc = "preparing"
  /\ \/ Fail(local, "prepare")
     \/ GuardrailsFailed /\ Fail(local, "guardrail")
  /\ UNCHANGED <<managed, state, batch, feed, stream, sandbox, history>>

(* Once a turn is established, no request is made after a cancellation.     *)
CancelledInPreparation == (local.sent \/ local.resumed) /\ stream.cancelled

ReturnUnstarted ==
  /\ pc' = "cleaning"
  /\ local' = [local EXCEPT !.snapshot = NoSnapshot]
  /\ state' = RollbackUnstartedTurn

(* The request: the turn is published and counts from here on.              *)
RequestModel(deferred) ==
  /\ pc' = "streaming"
  /\ local' = [local EXCEPT !.snapshot = NoSnapshot, !.sent = TRUE,
                            !.deferred = deferred, !.marked = FALSE,
                            !.carries = state.staged \/ pc = "admitting",
                            !.received = FALSE, !.pendingCalls = 0,
                            !.completed = FALSE]
  /\ stream' = [stream EXCEPT !.turn = state.turn]
  /\ feed' = [NoFeed EXCEPT !.status = "open"]
  /\ UNCHANGED history

(* Staged input: local input is committed and saved before the request, or  *)
(* when the guardrails that still run have passed; input of a conversation  *)
(* the server manages when the server has accepted it.                      *)
TurnPrepared ==
  /\ pc = "preparing"
  /\ ~GuardrailsFailed
  /\ \/ /\ CancelledInPreparation
        /\ ReturnUnstarted
        /\ UNCHANGED <<feed, stream, history>>
     \/ /\ ~CancelledInPreparation
        /\ ~managed /\ state.staged /\ ~GuardrailsPending
        /\ pc' = "admitting"
        /\ state' = [state EXCEPT !.staged = FALSE]
        /\ UNCHANGED <<local, feed, stream, history>>
     \/ /\ ~CancelledInPreparation
        /\ ~managed /\ state.staged => GuardrailsPending
        /\ RequestModel(~managed /\ state.staged)
        /\ UNCHANGED state
  /\ UNCHANGED <<managed, batch, sandbox>>

AdmittedInputSaved ==
  /\ pc = "admitting"
  /\ \/ /\ Fail(local, "session")
        /\ UNCHANGED <<state, feed, stream, history>>
     \/ /\ CancelledInPreparation
        /\ ReturnUnstarted
        /\ UNCHANGED <<feed, stream, history>>
     \/ /\ ~CancelledInPreparation
        /\ RequestModel(FALSE)
        /\ UNCHANGED state
  /\ UNCHANGED <<managed, batch, sandbox>>

------------------------------------------------------------------------------
(* markServerInputAccepted: the server has, or may have, taken the request. *)
(* Its staged input is committed; with staged input, or when no answer will *)
(* come, the state becomes the checkpoint of an accepted response.          *)
Checkpointed(s) ==
  [s EXCEPT !.step = "interruption", !.accepted = "waiting"]

(* Deviation: the checkpoint is only made for an answer that will not come. *)
MarkedStateKeepsStaged(available) ==
  IF ~managed \/ available THEN state ELSE Checkpointed(state)

MarkedState(available) ==
  IF ~managed THEN state
  ELSE LET s == IF local.marked \/ ~local.carries THEN state
                ELSE [state EXCEPT !.staged = FALSE]
       IN  IF state.accepted = "no" /\ (local.carries \/ ~available)
           THEN Checkpointed(s) ELSE s

Marked(l) == [l EXCEPT !.marked = managed]

(* One event of the model's stream.  Of the calls it announces, those of    *)
(* the computer tool are not recorded for a reconciliation; response_done   *)
(* completes the response and leaves nothing to reconcile.                  *)
EventKinds ==
  {kind \in {"text", "call", "computer", "done"} :
     kind # "done" => feed.events < MaxEvents}

Recorded(kind) ==
  CASE kind = "call" -> [local EXCEPT !.pendingCalls = @ + 1]
    [] kind = "done" -> [local EXCEPT !.pendingCalls = 0, !.completed = TRUE]
    [] OTHER         -> local

EventTaken(kind) ==
  [status  |-> IF kind = "done" THEN "done" ELSE feed.status,
   events  |-> IF kind = "done" THEN feed.events ELSE feed.events + 1,
   calls   |-> IF kind \in {"call", "computer"} THEN feed.calls + 1
                                                ELSE feed.calls,
   arrived |-> kind]

(* The event arrives: the server has the input, and the guardrails are      *)
(* asked for a failure, behind an await.                                    *)
ModelEvent ==
  /\ pc = "streaming"
  /\ feed.status = "open"
  /\ \E kind \in EventKinds : feed' = EventTaken(kind)
  /\ state' = MarkedState(~local.carries)
  /\ LET l == [Marked(local) EXCEPT !.received = TRUE]
     IN  \/ /\ GuardrailsFailed
            /\ Fail(l, "guardrail")
         \/ /\ ~GuardrailsFailed
            /\ pc' = "emitting"
            /\ local' = l
  /\ UNCHANGED <<managed, batch, stream, sandbox, history>>

(* Then it is recorded and emitted.  A response whose compaction items are  *)
(* not valid is dropped.                                                    *)
EmitEvent ==
  /\ pc = "emitting"
  /\ feed' = [feed EXCEPT !.arrived = "none"]
  /\ LET l == Recorded(feed.arrived)
     IN  \/ /\ stream.cancelled
            /\ pc' = "settling"
            /\ local' = l
            /\ UNCHANGED stream
         \/ /\ ~stream.cancelled
            /\ pc' = "streaming"
            /\ local' = l
            /\ stream' = AddItems(stream, 1)
         \/ /\ feed.arrived = "done"
            /\ Fail([l EXCEPT !.completed = FALSE], "compaction")
            /\ UNCHANGED stream
  /\ UNCHANGED <<managed, state, batch, sandbox, history>>

(* The stream is over, with or without a response.                          *)
ModelStreamEnds ==
  /\ pc = "streaming"
  /\ pc' = "finishing"
  /\ feed' = [feed EXCEPT !.status = IF @ = "done" THEN @ ELSE "ended"]
  /\ IF local.completed
     THEN local' = Marked(local) /\ state' = MarkedState(TRUE)
     ELSE UNCHANGED <<local, state>>
  /\ UNCHANGED <<managed, batch, stream, sandbox, history>>

(* The stream fails: a provider may advise that the request had possibly    *)
(* been accepted.                                                           *)
ModelAborted ==
  /\ pc = "streaming" /\ feed.status = "open"
  /\ stream.cancelled
  /\ pc' = "settling"
  /\ local' = Marked(local)
  /\ state' = MarkedState(TRUE)
  /\ feed' = [feed EXCEPT !.status = "failed"]
  /\ UNCHANGED <<managed, batch, stream, sandbox, history>>

ModelFails ==
  /\ pc = "streaming" /\ feed.status = "open"
  /\ feed' = [feed EXCEPT !.status = "failed"]
  /\ \E advised \in BOOLEAN, timeout \in BOOLEAN :
       LET accepted == advised \/ (timeout /\ local.received)
           l == IF accepted THEN Marked(local) ELSE local
       IN  /\ state' = IF accepted THEN MarkedState(FALSE) ELSE state
           /\ \/ /\ timeout
                 /\ pc' = "settling"
                 /\ local' = [l EXCEPT !.error = "timeout"]
              \/ /\ ~timeout
                 /\ Fail(l, "model")
  /\ UNCHANGED <<managed, batch, stream, sandbox, history>>

------------------------------------------------------------------------------
(* After a cancellation or a timeout: the guardrails' verdict, the staged   *)
(* input, and the calls the server waits for.                               *)
CommitDeferred == [state EXCEPT !.staged = IF local.deferred THEN FALSE ELSE @]

ExitSettled(l) ==
  IF l.error = "none" THEN pc' = "cleaning" /\ local' = l
                      ELSE Fail(l, l.error)

(* Deviation: calls are answered only when the loop fails.                  *)
NeedsReconciliationLate == managed /\ local.pendingCalls > 0 /\ local.error # "none"

NeedsReconciliation == managed /\ local.pendingCalls > 0

Settled ==
  /\ pc = "settling"
  /\ ~GuardrailsPending
  /\ \/ /\ GuardrailsFailed
        /\ Fail(local, "guardrail")
        /\ UNCHANGED state
     \/ /\ ~GuardrailsFailed
        /\ state' = CommitDeferred
        /\ LET l == [local EXCEPT !.deferred = FALSE]
           IN  \/ local.deferred /\ Fail(l, "session")
               \/ NeedsReconciliation /\ pc' = "reconciling" /\ local' = l
               \/ ~NeedsReconciliation /\ ExitSettled(l)
  /\ UNCHANGED <<managed, batch, feed, stream, sandbox, history>>

(* The abort outputs are sent; a failure is only logged.                    *)
CallsReconciled ==
  /\ pc = "reconciling"
  /\ \/ /\ ExitSettled([local EXCEPT !.pendingCalls = 0])
        /\ UNCHANGED history
     \/ /\ ExitSettled(local)
        /\ history' = [history EXCEPT !.unreconciled = TRUE]
  /\ UNCHANGED <<managed, state, batch, feed, stream, sandbox>>

(* Deviation: items are processed while guardrails still run.               *)
MayProcess == TRUE

GuardrailsSettled == ~GuardrailsPending

(* After the stream: nothing of the response is used before the guardrails  *)
(* have passed.                                                             *)
ResponseProcessed ==
  /\ pc = "finishing"
  /\ GuardrailsSettled
  /\ \/ /\ GuardrailsFailed
        /\ Fail(local, "guardrail")
        /\ UNCHANGED <<state, stream>>
     \/ /\ ~GuardrailsFailed
        /\ LET l == [local EXCEPT !.deferred = FALSE]
           IN  \/ /\ local.deferred
                  /\ Fail(l, "session")
                  /\ state' = CommitDeferred
                  /\ UNCHANGED stream
               \/ /\ stream.cancelled
                  /\ pc' = "cleaning"
                  /\ local' = l
                  /\ state' = CommitDeferred
                  /\ UNCHANGED stream
               \/ /\ ~stream.cancelled
                  /\ Fail(l, "behavior")
                  /\ state' = CommitDeferred
                  /\ UNCHANGED stream
               \/ /\ ~stream.cancelled /\ local.completed
                  /\ pc' = "tools"
                  /\ local' = l
                  /\ state' =
                       [CommitDeferred EXCEPT
                          !.response = IF feed.calls > 0 THEN "calls"
                                                         ELSE "message",
                          !.accepted = IF @ = "waiting" THEN "processing"
                                                        ELSE @]
                  /\ stream' = AddItems(stream, 1)
  /\ UNCHANGED <<managed, batch, feed, sandbox, history>>

------------------------------------------------------------------------------
(* resolveTurnAfterModelResponse, applyTurnResult and the switch after it.  *)
ToolsFail ==
  /\ pc \in {"tools", "retaking"}
  /\ Fail(local, "tool")
  /\ UNCHANGED <<managed, state, batch, feed, stream, sandbox, history>>

(* Deviation: the result shows the output while it is judged.               *)
FinalOutputShown ==
  /\ pc = "tools"
  /\ state' = [state EXCEPT !.step = "final_output",
                            !.accepted = IF @ = "no" THEN @ ELSE "finalizing"]
  /\ pc' = "finalizing"
  /\ stream' = AddItems(stream, IF state.response = "calls" THEN 1 ELSE 0)
  /\ UNCHANGED <<managed, local, batch, feed, sandbox, history>>

FinalOutputProduced ==
  /\ pc = "tools"
  /\ state' = [state EXCEPT !.step = "final_output",
                            !.accepted = IF @ = "no" THEN @ ELSE "finalizing"]
  /\ pc' = "finalizing"
  /\ stream' = [AddItems(stream, IF state.response = "calls" THEN 1 ELSE 0)
                 EXCEPT !.hidden = TRUE]
  /\ UNCHANGED <<managed, local, batch, feed, sandbox, history>>

TurnContinues ==
  /\ pc = "tools"
  /\ state.response = "calls"
  /\ \E items \in {1, 2} : stream' = AddItems(stream, items)
  /\ \/ /\ pc' = "loop"
        /\ state' = [state EXCEPT !.step = "run_again", !.accepted = "no",
                                  !.inProgress = FALSE]
     \/ /\ pc' = IF managed THEN "cleaning" ELSE "interrupting"
        /\ state' = [state EXCEPT !.step = "interruption", !.accepted = "no"]
  /\ UNCHANGED <<managed, local, batch, feed, sandbox, history>>

(* saveStreamResultWithCompactionOwnership: the first save of a run writes  *)
(* its input as well.  A session may commit and then reject: the input      *)
(* counts as written when the save starts.                                  *)
InputWrites ==
  IF local.inputSaved THEN history
                      ELSE [history EXCEPT !.inputWrites = @ + 1]

(* Deviation: the input counts as written only when the save succeeded.     *)
InputSavedAfter(error) ==
  [local EXCEPT !.inputSaved = @ \/ error = "none", !.error = error]

InputSaved(error) == [local EXCEPT !.inputSaved = TRUE, !.error = error]

InterruptionSaved ==
  /\ pc = "interrupting"
  /\ \E error \in {"none", "session"} :
       /\ pc' = IF error = "none" THEN "cleaning" ELSE "catching"
       /\ local' = InputSaved(error)
  /\ history' = InputWrites
  /\ UNCHANGED <<managed, state, batch, feed, stream, sandbox>>

------------------------------------------------------------------------------
(* finalizeStreamOutput: the output guardrails, the save, and only then is  *)
(* the output shown.  A rejected output is saved in its blocked form.       *)
OutputRejected ==
  /\ pc = "finalizing"
  /\ IF managed
     THEN Fail(local, "outputGuardrail") /\ UNCHANGED history
     ELSE Fail(InputSaved("none"), "outputGuardrail") /\ history' = InputWrites
  /\ UNCHANGED <<managed, state, batch, feed, stream, sandbox>>

(* The item of a handled error is emitted when it is saved, and then kept   *)
(* for the reader whatever fails later.                                     *)
HandledItems == IF local.handled THEN 1 ELSE 0

OutputAccepted ==
  /\ pc = "finalizing"
  /\ pc' = "cleaning"
  /\ local' = IF managed THEN local ELSE InputSaved("none")
  /\ history' = [IF managed THEN history ELSE InputWrites
                  EXCEPT !.accepted = TRUE]
  /\ state' = [state EXCEPT !.inProgress = FALSE]
  /\ stream' = [AddItems(stream, HandledItems)
                 EXCEPT !.hidden = FALSE,
                        !.keep   = @ \/ local.handled]
  /\ UNCHANGED <<managed, batch, feed, sandbox>>

OutputNotSaved ==
  /\ pc = "finalizing" /\ ~managed
  /\ history' = InputWrites
  /\ state' = [state EXCEPT !.inProgress = FALSE]
  /\ \/ /\ Fail(InputSaved("none"), "session")
        /\ UNCHANGED stream
     \/ /\ local.handled
        /\ pc' = "cleaning"
        /\ local' = InputSaved("none")
        /\ stream' = RaiseError(AddItems(stream, 1), TRUE)
  /\ UNCHANGED <<managed, batch, feed, sandbox>>

------------------------------------------------------------------------------
(* The catch block and the finally block.                                   *)
SurfacedError == IF GuardrailsFailed THEN "guardrail" ELSE local.error

CaughtState ==
  IF local.snapshot.taken THEN RollbackUnstartedTurn
                          ELSE [state EXCEPT !.inProgress = FALSE]

CatchError ==
  /\ pc = "catching"
  /\ ~GuardrailsPending
  /\ \/ /\ local.deferred /\ ~GuardrailsFailed
        /\ pc' = "cleaning"
        /\ local' = [local EXCEPT !.deferred = FALSE, !.error = "session"]
        /\ state' = CommitDeferred
        /\ UNCHANGED stream
     \/ LET s == [CaughtState EXCEPT
                    !.staged = IF local.deferred /\ ~GuardrailsFailed
                               THEN FALSE ELSE @]
            l == [local EXCEPT !.deferred = FALSE, !.snapshot = NoSnapshot]
        IN  \/ /\ SurfacedError = "maxTurns" /\ HandlesErrors
               /\ StartFinalization
               /\ state' = [s EXCEPT !.step = "final_output"]
               /\ local' = [l EXCEPT !.handled = TRUE, !.error = "none"]
            \/ /\ SurfacedError = "maxTurns" => ~HandlesErrors
               /\ pc' = "cleaning"
               /\ state' = s
               /\ local' = [l EXCEPT !.error = SurfacedError]
               /\ UNCHANGED stream
  /\ UNCHANGED <<managed, batch, feed, sandbox, history>>

PreservesSandbox ==
  \/ state.step = "interruption"
  \/ stream.cancelled /\ state.step # "final_output" /\ local.error = "none"

SandboxFinalized == sandbox' = IF PreservesSandbox THEN "preserved" ELSE "closed"

(* The input of a run that made a request is saved if it was not, unless    *)
(* the response was dropped.  A write that fails here leaves the block      *)
(* before the sandbox is closed.                                            *)
MustSaveInput ==
  /\ ~managed /\ local.sent /\ ~local.inputSaved
  /\ ~GuardrailsFailed /\ local.error # "compaction"

CleanUp ==
  /\ pc = "cleaning"
  /\ ~GuardrailsPending
  /\ pc' = "ending"
  /\ \/ /\ MustSaveInput
        /\ history' = InputWrites
        /\ \/ local' = InputSaved(local.error) /\ SandboxFinalized
           \/ local' = InputSaved("session") /\ UNCHANGED sandbox
     \/ /\ ~MustSaveInput
        /\ SandboxFinalized
        /\ UNCHANGED <<local, history>>
  /\ UNCHANGED <<managed, state, batch, feed, stream>>

(* The loop's promise settles the result.                                   *)
EndStream ==
  /\ pc = "ending"
  /\ pc' = "idle"
  /\ stream' = IF local.error = "none" THEN Done(stream)
                                       ELSE RaiseError(stream, FALSE)
  /\ UNCHANGED <<managed, state, local, batch, feed, sandbox, history>>

------------------------------------------------------------------------------
Init ==
  /\ managed \in ServerManaged
  /\ state = [step |-> "none", turn |-> 0, inProgress |-> FALSE,
              staged |-> FALSE, accepted |-> "no", response |-> "none"]
  /\ pc = "idle"
  /\ local = NoLocals(FALSE)
  /\ batch = "none"
  /\ feed = NoFeed
  /\ stream = NewStream(0, FALSE)
  /\ sandbox = "none"
  /\ history = [runs |-> 0, inputs |-> 0, inputWrites |-> 0, accepted |-> FALSE,
                unreconciled |-> FALSE]

Caller == Run \/ AddInput \/ StopReading \/ Abort

Model == ModelEvent \/ ModelStreamEnds \/ ModelAborted \/ ModelFails

Loop ==
  \/ StopAtTop
  \/ ResumeAcceptedResponse
  \/ ResumeInterruption
  \/ FinalizeAgain
  \/ AcceptedResponseResolved
  \/ InterruptionResumed
  \/ FinalizeResumedTurn
  \/ BeginTurn
  \/ PreparationFails
  \/ TurnPrepared
  \/ AdmittedInputSaved
  \/ EmitEvent
  \/ Settled
  \/ CallsReconciled
  \/ ResponseProcessed
  \/ ToolsFail
  \/ FinalOutputProduced
  \/ TurnContinues
  \/ InterruptionSaved
  \/ OutputRejected
  \/ OutputAccepted
  \/ OutputNotSaved
  \/ CatchError
  \/ CleanUp
  \/ EndStream

Next == Caller \/ Read \/ GuardrailsSettle \/ Model \/ Loop

Spec == Init /\ [][Next]_vars

(* Continuations run; the guardrails and the model's stream come to an end. *)
FairSpec ==
  /\ Spec
  /\ WF_vars(Loop)
  /\ WF_vars(GuardrailsSettle)
  /\ WF_vars(Model)

------------------------------------------------------------------------------
Steps == {"none", "run_again", "interruption", "final_output"}

StateTypes ==
  [step : Steps, turn : Nat, inProgress : BOOLEAN, staged : BOOLEAN,
   accepted : {"no", "waiting", "processing", "finalizing"},
   response : {"none", "message", "calls"}]

LocalTypes ==
  [resumed : BOOLEAN, continuing : BOOLEAN,
   snapshot : [turn : Nat, inProgress : BOOLEAN, taken : BOOLEAN],
   sent : BOOLEAN, inputSaved : BOOLEAN, deferred : BOOLEAN,
   marked : BOOLEAN, received : BOOLEAN, carries : BOOLEAN,
   pendingCalls : Nat, completed : BOOLEAN,
   handled : BOOLEAN, error : Errors \cup {"none"}]

FeedTypes ==
  [status : {"none", "open", "done", "ended", "failed"},
   events : Nat, calls : Nat,
   arrived : {"none", "text", "call", "computer", "done"}]

StreamTypes ==
  [queue : Seq(Nat), emitted : Nat, received : Seq(Nat), wanted : BOOLEAN,
   terminal : {"none", "done", "error"}, keep : BOOLEAN,
   end : {"open", "done", "error"}, cancelled : BOOLEAN,
   completed : {"pending", "resolved", "rejected"},
   hidden : BOOLEAN, turn : Nat]

(* Type invariant.                                                          *)
TypeOK ==
  /\ managed \in BOOLEAN
  /\ state \in StateTypes
  /\ pc \in {"idle", "loop", "retaking", "resuming", "resumed", "preparing",
             "admitting", "streaming", "emitting", "settling", "reconciling",
             "finishing", "tools", "interrupting", "finalizing", "catching",
             "cleaning", "ending"}
  /\ local \in LocalTypes
  /\ batch \in {"none", "running", "observed", "failed", "passed"}
  /\ feed \in FeedTypes
  /\ stream \in StreamTypes
  /\ sandbox \in {"none", "open", "preserved", "closed"}
  /\ history \in [runs : Nat, inputs : Nat, inputWrites : Nat,
                  accepted : BOOLEAN, unreconciled : BOOLEAN]

(* Items of the response, tool results and outputs are emitted when every   *)
(* input guardrail has passed.  The model's raw events do not wait, but     *)
(* once a guardrail has failed no further event is taken to be emitted: at  *)
(* most the one whose check was already passed reaches the reader.          *)
EventsWaitForGuardrails ==
  [][/\ stream'.emitted > stream.emitted =>
          pc = "emitting" \/ (~GuardrailsFailed /\ ~GuardrailsPending)
     /\ pc' = "emitting" /\ pc # "emitting" => ~GuardrailsFailed]_vars

(* The result shows a final output only when the output guardrails have     *)
(* passed and it is saved, also to a caller who resumes a run that failed   *)
(* half-way through.  The exception is a resumed turn: its output is in the *)
(* state, and can be read, in the few awaits before it is hidden.           *)
FinalOutputIsAccepted ==
  state.step = "final_output" /\ ~stream.hidden
    => history.accepted \/ pc = "resumed"

(* The input of a run that reached the model is written to the session,     *)
(* unless a guardrail refused it or the response was dropped for its        *)
(* compaction items, and never twice, though the write may happen at four   *)
(* places and may fail at each.                                             *)
InputSavedOnce ==
  /\ history.inputWrites <= 1
  /\ pc = "idle" /\ local.sent /\ ~managed
       /\ ~GuardrailsFailed /\ local.error # "compaction"
       => history.inputWrites = 1

(* Staged input the model was asked with is not staged for another request, *)
(* unless a guardrail refused it or the server cannot have taken it.        *)
SentInputIsAdmitted ==
  pc = "ending" /\ local.carries /\ ~GuardrailsFailed
    /\ (managed => local.marked)
    => ~state.staged

(* A cancelled or timed-out run leaves no function, shell, patch or program *)
(* call of an unfinished response without an output on the server, unless   *)
(* the request that brings the outputs failed, or the model's stream ended  *)
(* silently.  Calls of the computer tool are not recorded, and stay.        *)
AbortedCallsAnswered ==
  pc = "idle" /\ managed /\ local.error \in {"none", "timeout"}
    /\ local.pendingCalls > 0
    => history.unreconciled \/ feed.status = "ended"

(* A run that owns a sandbox session closes it or preserves it for a        *)
(* resumption, however the run ends.                                        *)
SandboxIsClosed == pc = "idle" => sandbox # "open"

(* The reader gets what the loop emits: in order, once, and all of it       *)
(* before the stream ends well.                                             *)
Delivery == INSTANCE EventDelivery WITH
  emitted  <- stream.emitted,
  received <- stream.received,
  ended    <- IF stream.cancelled THEN "cancelled" ELSE stream.end

DeliversEvents == Delivery!Spec

(* Every run ends whatever its reader does, and settles `completed`; a      *)
(* reader who keeps reading sees the end.                                   *)
StreamSettles ==
  /\ pc # "idle" ~> pc = "idle" /\ stream.completed # "pending"
  /\ WF_vars(Read) => (history.runs > 0 /\ stream.end = "open"
                         ~> stream.end # "open")
=============================================================================
