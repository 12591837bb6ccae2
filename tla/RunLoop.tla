------------------------------- MODULE RunLoop -------------------------------
(***************************************************************************)
(* The agent run loop (agents-core/src/run.ts, #runIndividualNonStream,    *)
(* with runner/turnPreparation.ts, runner/guardrails.ts, runner/runLoop.ts *)
(* and runner/turnResolution.ts), and the caller who runs a RunState,      *)
(* decides approvals, stages input and runs it again until it is done.     *)
(*                                                                         *)
(* Concurrent with the loop: the parallel input guardrails of the turn,    *)
(* the model request, the function tools of a response, and the caller's   *)
(* abort signal.  One action is one stretch of code between two awaits.    *)
(*                                                                         *)
(* Left out: server-managed conversations and their accepted-response      *)
(* checkpoint, streaming, hosted tools (computer, shell, apply_patch, MCP  *)
(* approvals), nested agent tools, guardrails that reject a call before it *)
(* asks for its approval, what a session stores, spans and hooks.          *)
(***************************************************************************)
EXTENDS Naturals, FiniteSets

CONSTANTS
  Calls,              \* the function calls a model may ask for
  SecondAgentCalls,   \* those of the second agent: an id counts per agent
  NeedsApproval,      \* the calls whose tool needs an approval
  Guardrails,         \* which input guardrails there are: "blocking", "parallel"
  StopOnFirstTool,    \* the agents that stop_on_first_tool; others run_llm_again
  HandledErrors,      \* the kinds of error that the caller has handlers for
  MaxTurns,           \* maxTurns
  MaxCallsInResponse, \* bound: calls in one response
  MaxRuns,            \* bound: calls of run() on the state
  MaxInputs           \* bound: inputs staged with addInput()

ASSUME CallsAssumption ==
  /\ IsFiniteSet(Calls)
  /\ NeedsApproval \subseteq Calls
  /\ SecondAgentCalls \subseteq Calls

ASSUME OptionsAssumption ==
  /\ Guardrails \subseteq {"blocking", "parallel"}
  /\ StopOnFirstTool \subseteq 1 .. 2
  /\ HandledErrors \subseteq {"maxTurns", "modelRefusal"}
  /\ MaxTurns \in Nat

ASSUME BoundsAssumption ==
  MaxCallsInResponse \in Nat /\ MaxRuns \in Nat /\ MaxInputs \in Nat

VARIABLES
  state,     \* the RunState: what survives between calls of run()
  decisions, \* the caller's answer to each approval request
  pc,        \* where the loop is
  local,     \* the loop's local variables
  outcome,   \* how the last run ended
  batch,     \* the turn's parallel input guardrails and their tracker
  answer,    \* the model request in flight
  tools,     \* the function calls being executed
  aborted,   \* the run's abort signal
  history    \* what happened so far, for the properties

vars == <<state, decisions, pc, local, outcome, batch, answer, tools, aborted,
          history>>

Turns  == 0 .. MaxTurns + 1
Inputs == 0 .. MaxInputs            \* 0 is the input the state was made with

(* What the model answers: function calls and perhaps a handoff, or a       *)
(* message that is text, a refusal or empty.                                *)
Responses ==
  {r \in [calls : SUBSET Calls, handoff : BOOLEAN,
          message : {"none", "text", "refusal"}] :
     /\ Cardinality(r.calls) <= MaxCallsInResponse
     /\ r.message # "none" => r.calls = {} /\ ~r.handoff}

NoResponse == [calls |-> {}, handoff |-> FALSE, message |-> "none"]

CallsOf(agent) == IF agent = 1 THEN Calls \ SecondAgentCalls ELSE SecondAgentCalls

HasToolsToRun(r) == r.calls # {} \/ r.handoff

NoSnapshot == [turn |-> 0, inProgress |-> FALSE, taken |-> FALSE]
NoBatch    == [status |-> "none", covers |-> {}]
NoAnswer   == [status |-> "none", response |-> NoResponse]
NoTools    == [c \in Calls |-> "idle"]

(* The execution of the calls of a response, as TurnActions implements it.  *)
Turn == INSTANCE ToolTurn
          WITH turn <- IF pc \in {"tools", "resuming"} THEN "running" ELSE "over"

GuardrailsPending == batch.status \in {"running", "observed"}
GuardrailsFailed  == batch.status \in {"observed", "failed"}

Errors == {"guardrail", "maxTurns", "prepare", "session", "model", "tool",
           "handoff", "refusal", "outputGuardrail", "abort", "sandbox"}

Throw(error) ==
  /\ pc' = "failing"
  /\ local' = [local EXCEPT !.error = error]

(* An abort behind a turn's result, which is perhaps left to be saved.      *)
ThrowAbort(unsaved) ==
  /\ pc' = "failing"
  /\ local' = [local EXCEPT !.error = "abort", !.unsaved = unsaved]

(* What the parallel activities leave alone.                                *)
LoopUnchanged  == UNCHANGED <<state, decisions, pc, local, outcome>>

------------------------------------------------------------------------------
(* run(agent, state): the first run makes the state, the others resume it.  *)
Run ==
  /\ pc = "idle"
  /\ outcome # "final"
  /\ history.runs < MaxRuns
  /\ history' = [history EXCEPT !.runs = @ + 1]
  /\ pc' = "loop"
  /\ local' = [resumed    |-> history.runs > 0,
               continuing |-> FALSE,
               snapshot   |-> NoSnapshot,
               deferred   |-> FALSE,
               handled    |-> FALSE,
               unsaved    |-> FALSE,
               next       |-> "none",
               error      |-> "none"]
  /\ outcome' = "none"
  /\ batch' = NoBatch
  /\ answer' = NoAnswer
  /\ tools' = NoTools
  /\ aborted' = FALSE
  /\ UNCHANGED <<state, decisions>>

(* Between runs: approve(), reject() and addInput() on the state.           *)
Decide(c) ==
  /\ pc = "idle"
  /\ state.step = "interruption"
  /\ c \in state.approvals \ state.outputs
  /\ decisions[c] = "none"
  /\ \E d \in {"approved", "rejected"} : decisions' = [decisions EXCEPT ![c] = d]
  /\ UNCHANGED <<state, pc, local, outcome, batch, answer, tools, aborted,
                 history>>

AddInput ==
  /\ pc = "idle"
  /\ state.step \in {"interruption", "run_again"}
  /\ state.turn >= MaxTurns => state.inProgress
  /\ state.step = "interruption" => state.agent \notin StopOnFirstTool
  /\ history.staged < MaxInputs
  /\ history' = [history EXCEPT !.staged = @ + 1]
  /\ state' = [state EXCEPT !.pendingInput = @ \cup {history.staged + 1}]
  /\ UNCHANGED <<decisions, pc, local, outcome, batch, answer, tools, aborted>>

Abort ==
  /\ pc # "idle"
  /\ ~aborted
  /\ aborted' = TRUE
  /\ LoopUnchanged
  /\ UNCHANGED <<batch, answer, tools, history>>

------------------------------------------------------------------------------
(* runInputGuardrails for the turn's parallel guardrails.  An error is      *)
(* observed at once; the batch settles when the last sibling has.           *)
GuardrailsPass ==
  /\ batch.status = "running"
  /\ batch' = [batch EXCEPT !.status = "passed"]
  /\ history' = [history EXCEPT !.guarded = @ \cup batch.covers]
  /\ LoopUnchanged
  /\ UNCHANGED <<answer, tools, aborted>>

GuardrailErrorObserved ==
  /\ batch.status = "running"
  /\ batch' = [batch EXCEPT !.status = "observed"]
  /\ LoopUnchanged
  /\ UNCHANGED <<answer, tools, aborted, history>>

GuardrailsDrained ==
  /\ batch.status = "observed"
  /\ batch' = [batch EXCEPT !.status = "failed"]
  /\ LoopUnchanged
  /\ UNCHANGED <<answer, tools, aborted, history>>

------------------------------------------------------------------------------
(* beginTurn: a resumed turn that is still in progress is not counted again.*)
SameTurn == local.resumed /\ (local.continuing \/ state.inProgress)

ResumingFromInterruption == local.resumed /\ local.continuing

(* runInputGuardrailsForTurn: for staged input, or in the first turn.       *)
InputToGuard(turn) ==
  IF state.pendingInput # {} THEN state.pendingInput
  ELSE IF turn = 1 /\ ~ResumingFromInterruption THEN {0}
  ELSE {}

ParallelBatch(input) ==
  IF input # {} /\ "parallel" \in Guardrails
  THEN [status |-> "running", covers |-> input]
  ELSE NoBatch

ExceedsMaxTurns(turn) == turn > MaxTurns

BeginTurn ==
  /\ pc = "loop"
  /\ state.step \in {"none", "run_again"}
  /\ LET turn     == IF SameTurn THEN state.turn ELSE state.turn + 1
         input    == InputToGuard(turn)
         snapshot == [turn |-> state.turn, inProgress |-> state.inProgress,
                      taken |-> TRUE]
         begun    == [local EXCEPT !.continuing = FALSE, !.snapshot = snapshot]
         blocking == input # {} /\ "blocking" \in Guardrails
     IN  /\ state' = [state EXCEPT !.step = "run_again", !.turn = turn,
                                   !.inProgress = TRUE]
         /\ \/ /\ ExceedsMaxTurns(turn)
               /\ pc' = "failing"
               /\ local' = [begun EXCEPT !.error = "maxTurns"]
               /\ batch' = NoBatch
            \/ /\ ~ExceedsMaxTurns(turn)
               /\ local' = begun
               /\ \/ /\ blocking
                     /\ pc' = "blocking"
                     /\ batch' = [status |-> "none", covers |-> input]
                  \/ /\ ~blocking
                     /\ pc' = "preparing"
                     /\ batch' = ParallelBatch(input)
  /\ UNCHANGED <<decisions, outcome, answer, tools, aborted, history>>

BlockingGuardrailsPass ==
  /\ pc = "blocking"
  /\ pc' = "preparing"
  /\ batch' = ParallelBatch(batch.covers)
  /\ history' = IF "parallel" \in Guardrails THEN history
                ELSE [history EXCEPT !.guarded = @ \cup batch.covers]
  /\ UNCHANGED <<state, decisions, local, outcome, answer, tools, aborted>>

BlockingGuardrailsFail ==
  /\ pc = "blocking"
  /\ Throw("guardrail")
  /\ UNCHANGED <<state, decisions, outcome, batch, answer, tools, aborted,
                 history>>

(* The rest of the preparation: the sandbox, the agent's tools, the model   *)
(* input filter, and the session write of input that an earlier run had     *)
(* admitted and could not save.                                             *)
PrepareFails ==
  /\ pc = "preparing"
  /\ Throw("prepare")
  /\ UNCHANGED <<state, decisions, outcome, batch, answer, tools, aborted,
                 history>>

(* throwIfError: a guardrail error that was observed stops the request.     *)
GuardrailsStopRequest ==
  /\ pc = "preparing"
  /\ GuardrailsFailed
  /\ Throw("guardrail")
  /\ UNCHANGED <<state, decisions, outcome, batch, answer, tools, aborted,
                 history>>

(* The model is called: from here on the turn counts.                       *)
RequestModel(deferred) ==
  /\ pc' = "model"
  /\ local' = [local EXCEPT !.snapshot = NoSnapshot, !.deferred = deferred]
  /\ answer' = [status |-> "pending", response |-> NoResponse]

CountRequest == [history EXCEPT !.requests[state.turn] = @ + 1]

(* commitPendingInput: the staged input becomes part of the history.        *)
StateWithInput   == [state EXCEPT !.pendingInput = {}]
HistoryWithInput == [history EXCEPT !.admitted = @ \cup state.pendingInput]

(* Deviation: only a guardrail error that was observed defers the input.    *)
DeferOnObservedError == state.pendingInput # {} /\ batch.status = "observed"

(* deferLocalPendingInputAdmission: staged input waits for guardrails that  *)
(* still run.                                                               *)
DeferAdmission == state.pendingInput # {} /\ GuardrailsPending

(* Staged input that need not wait is committed and saved first.            *)
StartModelRequest ==
  /\ pc = "preparing"
  /\ ~GuardrailsFailed
  /\ \/ /\ state.pendingInput # {} /\ aborted
        /\ Throw("abort")
        /\ UNCHANGED <<state, answer, history>>
     \/ /\ state.pendingInput = {}
        /\ RequestModel(FALSE)
        /\ history' = CountRequest
        /\ UNCHANGED state
     \/ /\ ~aborted /\ DeferAdmission
        /\ RequestModel(TRUE)
        /\ history' = CountRequest
        /\ UNCHANGED state
     \/ /\ state.pendingInput # {} /\ ~aborted /\ ~DeferAdmission
        /\ pc' = "admitting"
        /\ state' = StateWithInput
        /\ history' = HistoryWithInput
        /\ UNCHANGED <<local, answer>>
  /\ UNCHANGED <<decisions, outcome, batch, tools, aborted>>

AdmittedInputSaved ==
  /\ pc = "admitting"
  /\ \/ /\ aborted
        /\ Throw("abort")
        /\ UNCHANGED <<answer, history>>
     \/ /\ Throw("session")
        /\ UNCHANGED <<answer, history>>
     \/ /\ ~aborted
        /\ RequestModel(FALSE)
        /\ history' = CountRequest
  /\ UNCHANGED <<state, decisions, outcome, batch, tools, aborted>>

------------------------------------------------------------------------------
(* The model request.                                                       *)
ModelAnswers ==
  /\ answer.status = "pending"
  /\ \/ \E r \in Responses : /\ r.calls \subseteq CallsOf(state.agent)
                             /\ answer' = [status |-> "ok", response |-> r]
     \/ answer' = [status |-> "error", response |-> NoResponse]
  /\ LoopUnchanged
  /\ UNCHANGED <<batch, tools, aborted, history>>

(* The guardrails that deferred the staged input have passed.               *)
CommitDeferredInput ==
  /\ pc = "model"
  /\ local.deferred
  /\ batch.status = "passed"
  /\ state' = StateWithInput
  /\ history' = HistoryWithInput
  /\ \E error \in {"none", "session"} :
       local' = [local EXCEPT !.deferred = FALSE,
                              !.error = IF aborted THEN "abort" ELSE error]
  /\ UNCHANGED <<decisions, pc, outcome, batch, answer, tools, aborted>>

(* The answer is looked at when the deferred commit is over; a guardrail or *)
(* commit error lets the request drain first.                               *)
ModelReturns ==
  /\ pc = "model"
  /\ answer.status \in {"ok", "error"}
  /\ local.deferred => batch.status = "failed"
  /\ \/ /\ local.deferred
        /\ Throw("guardrail")
        /\ UNCHANGED state
     \/ /\ ~local.deferred /\ local.error # "none"
        /\ Throw(local.error)
        /\ UNCHANGED state
     \/ /\ ~local.deferred /\ local.error = "none" /\ answer.status = "error"
        /\ Throw("model")
        /\ UNCHANGED state
     \/ /\ ~local.deferred /\ local.error = "none" /\ answer.status = "ok"
        /\ pc' = "checking"
        /\ state' = [state EXCEPT !.response = answer.response]
        /\ UNCHANGED local
  /\ answer' = NoAnswer
  /\ UNCHANGED <<decisions, outcome, batch, tools, aborted, history>>

(* Deviation: a call id the model repeats is executed again.                *)
CallsRepeated == state.response.calls

(* preflightToolInvocations suppresses the calls whose output is known.     *)
CallsToRun == state.response.calls \ state.outputs

(* Deviation: the tools start while the guardrails still run.               *)
StartToolsAtOnce ==
  /\ pc = "checking"
  /\ pc' = "tools"
  /\ tools' = Turn!Queue(CallsToRun)
  /\ UNCHANGED <<state, decisions, local, outcome, batch, answer, aborted,
                 history>>

(* Deviation: completion is awaited of guardrails that a later turn has not.*)
StartToolsAfterPass ==
  /\ pc = "checking"
  /\ batch.status = "passed"
  /\ pc' = "tools"
  /\ tools' = Turn!Queue(CallsToRun)
  /\ UNCHANGED <<state, decisions, local, outcome, batch, answer, aborted,
                 history>>

(* awaitCompletion, then the calls of the response.                         *)
StartTools ==
  /\ pc = "checking"
  /\ ~GuardrailsPending
  /\ \/ /\ GuardrailsFailed
        /\ Throw("guardrail")
        /\ UNCHANGED tools
     \/ /\ ~GuardrailsFailed
        /\ pc' = "tools"
        /\ tools' = Turn!Queue(CallsToRun)
        /\ UNCHANGED local
  /\ UNCHANGED <<state, decisions, outcome, batch, answer, aborted, history>>

(* Deviation: calls that nobody has decided on yet are left behind.         *)
DecidedCalls ==
  {c \in state.response.calls \cap state.approvals : decisions[c] # "none"}

(* resolveInterruptedTurn: the calls that asked for an approval and have no *)
(* output yet.                                                              *)
ResumableCalls == (state.response.calls \cap state.approvals) \ state.outputs

ResumeInterruptedTurn ==
  /\ pc = "loop"
  /\ state.step = "interruption"
  /\ pc' = "resuming"
  /\ tools' = Turn!Queue(ResumableCalls)
  /\ UNCHANGED <<state, decisions, local, outcome, batch, answer, aborted,
                 history>>

------------------------------------------------------------------------------
(* executeFunctionToolCalls: a call that needs an approval asks for it or   *)
(* was decided on; a rejection or an input guardrail answers in its place.  *)
Undecided(c) == c \in NeedsApproval /\ decisions[c] = "none"

StartTool(c) ==
  /\ \/ Undecided(c) /\ Turn!AskApproval(c)
     \/ ~Undecided(c) /\ Turn!Refuse(c)
     \/ (c \in NeedsApproval => decisions[c] = "approved") /\ Turn!Start(c)
  /\ LoopUnchanged
  /\ UNCHANGED <<batch, answer, aborted, history>>

ToolReturns(c) ==
  /\ Turn!Return(c) \/ Turn!Fail(c) \/ Turn!Cancel(c)
  /\ LoopUnchanged
  /\ UNCHANGED <<batch, answer, aborted, history>>

ToolsIn(status) == {c \in Calls : tools[c] = status}

(* Every started tool has settled; one of them failed.                      *)
ToolsFail ==
  /\ pc \in {"tools", "resuming"}
  /\ Turn!MayThrow
  /\ Throw("tool")
  /\ tools' = NoTools
  /\ UNCHANGED <<state, decisions, outcome, batch, answer, aborted, history>>

------------------------------------------------------------------------------
(* resolveHandoffAfterTools, maybeCompleteTurnFromToolResults and what      *)
(* follows them: the turn's next step.                                      *)
NextStep ==
  LET results == ToolsIn("output") \cup ToolsIn("aborted")
  IN  IF ToolsIn("approval") # {} THEN "interruption"
      ELSE IF state.response.handoff /\ ~aborted THEN "handoff"
      ELSE IF /\ state.agent \in StopOnFirstTool
              /\ results # {} /\ ToolsIn("aborted") = {}
      THEN "final_output"
      ELSE IF pc = "tools" /\ ~HasToolsToRun(state.response)
                /\ state.response.message # "none"
      THEN "final_output"
      ELSE "run_again"

(* applyTurnResult: the calls and their outputs join the history, an abort  *)
(* output for the handoff of an aborted run among them.                     *)
TurnApplied(next, approvals) ==
  [state EXCEPT !.step             = next,
                !.called           = @ \cup state.response.calls,
                !.outputs          = @ \cup ToolsIn("output") \cup ToolsIn("aborted"),
                !.approvals        = approvals,
                !.response.handoff = @ /\ ~aborted]

RefusalUnhandled ==
  /\ ~HasToolsToRun(state.response)
  /\ state.response.message = "refusal"
  /\ "modelRefusal" \notin HandledErrors

(* resolveTurnAfterModelResponse.                                           *)
ResolveTurn ==
  /\ pc = "tools"
  /\ Turn!MayContinue
  /\ \/ /\ RefusalUnhandled
        /\ Throw("refusal")
        /\ UNCHANGED state
     \/ /\ NextStep = "handoff"
        /\ Throw("handoff")
        /\ UNCHANGED state
     \/ /\ ~RefusalUnhandled
        /\ pc' = "applied"
        /\ state' = TurnApplied(NextStep, state.approvals \cup ToolsIn("approval"))
        /\ UNCHANGED local
  /\ tools' = NoTools
  /\ UNCHANGED <<decisions, outcome, batch, answer, aborted, history>>

(* resumeInterruptedTurn: approvals that are decided or completed are       *)
(* dropped; a handoff is published before the fallible session write.       *)
PendingApprovals ==
  {c \in state.approvals : decisions[c] = "none" /\ c \notin state.outputs}

HandedOff(s) ==
  [s EXCEPT !.agent = 3 - @, !.step = "run_again", !.inProgress = FALSE]

ResolveInterruptedTurn ==
  /\ pc = "resuming"
  /\ Turn!MayContinue
  /\ \/ /\ NextStep = "handoff"
        /\ Throw("handoff")
        /\ UNCHANGED state
     \/ /\ pc' = "outcome"
        /\ local' = [local EXCEPT !.next = NextStep]
        /\ LET s == TurnApplied(NextStep, PendingApprovals)
           IN  state' = IF NextStep = "handoff"
                        THEN HandedOff([s EXCEPT !.response = NoResponse])
                        ELSE s
  /\ tools' = NoTools
  /\ UNCHANGED <<decisions, outcome, batch, answer, aborted, history>>

(* The session is written when the resumption had side effects; a final     *)
(* output leaves that to its finalization.                                  *)
ResumptionSaved ==
  \/ local.next = "handoff"
  \/ /\ local.next # "final_output"
     /\ \E c \in state.outputs : decisions[c] = "approved"

(* What the loop does with the outcome, after the session write and the     *)
(* abort check; a rerun stays in the interrupted turn.  An abort leaves the *)
(* result to be saved, unless a final output waits for its guardrails.      *)
HandleInterruptedOutcome ==
  /\ pc = "outcome"
  /\ \/ /\ ResumptionSaved
        /\ Throw("session")
        /\ UNCHANGED <<state, outcome, history>>
     \/ /\ aborted
        /\ \E unsaved \in BOOLEAN : /\ local.next # "final_output" => unsaved
                                   /\ ThrowAbort(unsaved)
        /\ UNCHANGED <<state, outcome, history>>
     \/ /\ ~aborted /\ local.next = "interruption"
        /\ pc' = "closing"
        /\ outcome' = "interrupted"
        /\ UNCHANGED <<state, local, history>>
     \/ /\ ~aborted /\ local.next = "run_again"
        /\ pc' = "loop"
        /\ state' = [state EXCEPT !.step = "none"]
        /\ local' = [local EXCEPT !.continuing = TRUE]
        /\ history' = [history EXCEPT !.reruns[state.turn] = @ + 1]
        /\ UNCHANGED outcome
     \/ /\ ~aborted /\ local.next \in {"handoff", "final_output"}
        /\ pc' = "loop"
        /\ local' = [local EXCEPT !.continuing = FALSE]
        /\ UNCHANGED <<state, outcome, history>>
  /\ UNCHANGED <<decisions, batch, answer, tools, aborted>>

(* The abort check after applyTurnResult.                                   *)
CheckAbort ==
  /\ pc = "applied"
  /\ \/ aborted /\ ThrowAbort(TRUE)
     \/ ~aborted /\ pc' = "switch" /\ UNCHANGED local
  /\ UNCHANGED <<state, decisions, outcome, batch, answer, tools, aborted,
                 history>>

------------------------------------------------------------------------------
(* The switch on the current step; a resumed state may come straight to it. *)

(* Deviation: the turn is left marked as in progress.                       *)
RunAgainStillInProgress ==
  /\ pc = "switch"
  /\ state.step = "run_again"
  /\ pc' = "loop"
  /\ UNCHANGED <<state, decisions, local, outcome, batch, answer, tools, aborted,
                 history>>

RunAgain ==
  /\ pc = "switch"
  /\ state.step = "run_again"
  /\ pc' = "loop"
  /\ state' = [state EXCEPT !.inProgress = FALSE]
  /\ UNCHANGED <<decisions, local, outcome, batch, answer, tools, aborted,
                 history>>

TakeHandoff ==
  /\ pc \in {"loop", "switch"}
  /\ state.step = "handoff"
  /\ pc' = "loop"
  /\ state' = HandedOff(state)
  /\ UNCHANGED <<decisions, local, outcome, batch, answer, tools, aborted,
                 history>>

ReturnInterruption ==
  /\ pc = "switch"
  /\ state.step = "interruption"
  /\ pc' = "closing"
  /\ outcome' = "interrupted"
  /\ UNCHANGED <<state, decisions, local, batch, answer, tools, aborted, history>>

StartFinalization ==
  /\ pc \in {"loop", "switch"}
  /\ state.step = "final_output"
  /\ \/ aborted /\ Throw("abort")
     \/ ~aborted /\ pc' = "finalizing" /\ UNCHANGED local
  /\ UNCHANGED <<state, decisions, outcome, batch, answer, tools, aborted,
                 history>>

(* finalizeCurrentOutput: the output guardrails and the session write.      *)
FinalOutputAccepted ==
  /\ pc = "finalizing"
  /\ pc' = "closing"
  /\ outcome' = "final"
  /\ state' = [state EXCEPT !.inProgress = FALSE]
  /\ UNCHANGED <<decisions, local, batch, answer, tools, aborted, history>>

FinalOutputRejected ==
  /\ pc = "finalizing"
  /\ \/ /\ local.handled
        /\ pc' = "closing"
        /\ outcome' = "outputGuardrail"
        /\ UNCHANGED local
     \/ /\ ~local.handled
        /\ \E error \in {"outputGuardrail", "session"} : Throw(error)
        /\ UNCHANGED outcome
  /\ UNCHANGED <<state, decisions, batch, answer, tools, aborted, history>>

(* Deviation: the error that was caught is the one reported.                *)
CaughtError == local.error

(* The catch: guardrails are drained and their error comes first; a turn    *)
(* whose request was never made is taken back.                              *)
SurfacedError == IF GuardrailsFailed THEN "guardrail" ELSE local.error

RollbackUnstartedTurn ==
  IF local.snapshot.taken
  THEN [state EXCEPT !.turn = local.snapshot.turn,
                     !.inProgress = local.snapshot.inProgress]
  ELSE [state EXCEPT !.inProgress = FALSE]

CatchError ==
  /\ pc = "failing"
  /\ ~GuardrailsPending
  /\ \/ /\ SurfacedError = "maxTurns" /\ "maxTurns" \in HandledErrors
        /\ pc' = "finalizing"
        /\ state' = [RollbackUnstartedTurn EXCEPT !.step = "final_output",
                                                  !.response = NoResponse]
        /\ UNCHANGED outcome
     \/ /\ (SurfacedError = "maxTurns" => "maxTurns" \notin HandledErrors)
        /\ pc' = "closing"
        /\ state' = RollbackUnstartedTurn
        /\ outcome' = SurfacedError
  /\ local' = [local EXCEPT !.snapshot = NoSnapshot, !.handled = TRUE]
  /\ UNCHANGED <<decisions, batch, answer, tools, aborted, history>>

(* The finally: the sandbox is finalized, and a result that is still to be  *)
(* saved is saved.  What one of them rejects with replaces the outcome.     *)
ResultUnsaved == outcome = "interrupted" \/ local.unsaved

Finally ==
  /\ pc = "closing"
  /\ pc' = "idle"
  /\ \/ UNCHANGED outcome
     \/ outcome' = "sandbox"
     \/ ResultUnsaved /\ outcome' = "session"
  /\ UNCHANGED <<state, decisions, local, batch, answer, tools, aborted, history>>

------------------------------------------------------------------------------
Init ==
  /\ state = [step |-> "none", turn |-> 0, inProgress |-> FALSE,
              response |-> NoResponse, called |-> {}, outputs |-> {},
              approvals |-> {}, pendingInput |-> {}, agent |-> 1]
  /\ decisions = [c \in Calls |-> "none"]
  /\ pc = "idle"
  /\ local = [resumed |-> FALSE, continuing |-> FALSE, snapshot |-> NoSnapshot,
              deferred |-> FALSE, handled |-> FALSE, unsaved |-> FALSE,
              next |-> "none", error |-> "none"]
  /\ outcome = "none"
  /\ batch = NoBatch
  /\ answer = NoAnswer
  /\ tools = NoTools
  /\ aborted = FALSE
  /\ history = [runs |-> 0, staged |-> 0, guarded |-> {}, admitted |-> {},
                requests |-> [t \in Turns |-> 0], reruns |-> [t \in Turns |-> 0]]

Caller == Run \/ AddInput \/ Abort \/ \E c \in Calls : Decide(c)

InputGuardrails == GuardrailsPass \/ GuardrailErrorObserved \/ GuardrailsDrained

Tools == \E c \in Calls : StartTool(c) \/ ToolReturns(c)

Loop ==
  \/ BeginTurn
  \/ BlockingGuardrailsPass
  \/ BlockingGuardrailsFail
  \/ PrepareFails
  \/ GuardrailsStopRequest
  \/ StartModelRequest
  \/ AdmittedInputSaved
  \/ CommitDeferredInput
  \/ ModelReturns
  \/ StartTools
  \/ ResumeInterruptedTurn
  \/ ToolsFail
  \/ ResolveTurn
  \/ ResolveInterruptedTurn
  \/ HandleInterruptedOutcome
  \/ CheckAbort
  \/ RunAgain
  \/ TakeHandoff
  \/ ReturnInterruption
  \/ StartFinalization
  \/ FinalOutputAccepted
  \/ FinalOutputRejected
  \/ CatchError
  \/ Finally

Next == Caller \/ InputGuardrails \/ ModelAnswers \/ Tools \/ Loop

Spec == Init /\ [][Next]_vars

(* The loop itself always continues; guardrails, the model and the tools    *)
(* are assumed to answer.                                                   *)
FairSpec ==
  /\ Spec
  /\ WF_vars(Loop)
  /\ WF_vars(InputGuardrails)
  /\ WF_vars(ModelAnswers)
  /\ WF_vars(Tools)

------------------------------------------------------------------------------
StateType ==
  [step : {"none", "run_again", "interruption", "handoff", "final_output"},
   turn : Turns, inProgress : BOOLEAN, response : Responses,
   called : SUBSET Calls, outputs : SUBSET Calls, approvals : SUBSET Calls,
   pendingInput : SUBSET Inputs, agent : {1, 2}]

LocalType ==
  [resumed : BOOLEAN, continuing : BOOLEAN,
   snapshot : [turn : Turns, inProgress : BOOLEAN, taken : BOOLEAN],
   deferred : BOOLEAN, handled : BOOLEAN, unsaved : BOOLEAN,
   next : {"none", "run_again", "interruption", "handoff", "final_output"},
   error : Errors \cup {"none"}]

(* Type invariant.                                                          *)
TypeOK ==
  /\ state \in StateType
  /\ decisions \in [Calls -> {"none", "approved", "rejected"}]
  /\ pc \in {"idle", "loop", "blocking", "preparing", "admitting", "model",
             "checking", "tools", "resuming", "applied", "outcome", "switch",
             "finalizing", "failing", "closing"}
  /\ local \in LocalType
  /\ outcome \in Errors \cup {"none", "final", "interrupted"}
  /\ batch \in [status : {"none", "running", "passed", "observed", "failed"},
                covers : SUBSET Inputs]
  /\ answer \in [status : {"none", "pending", "ok", "error"},
                 response : Responses]
  /\ tools \in [Calls -> {"idle", "queued", "running", "output", "approval",
                          "aborted", "failed"}]
  /\ aborted \in BOOLEAN
  /\ history \in [runs : 0 .. MaxRuns, staged : Inputs, guarded : SUBSET Inputs,
                  admitted : SUBSET Inputs, requests : [Turns -> Nat],
                  reruns : [Turns -> Nat]]

(* No tool runs, and none has been asked for an approval, until the         *)
(* parallel input guardrails of the turn have all passed.                   *)
ToolsWaitForGuardrails ==
  (pc = "tools" \/ \E c \in Calls : tools[c] = "running")
    => ~GuardrailsPending /\ ~GuardrailsFailed

(* The model is never asked to continue from a history with a function call *)
(* that has no output, whatever was interrupted, aborted or run again; nor  *)
(* does a handoff or a final output leave one behind, an approval that is   *)
(* still pending among them.                                                *)
CallsAreAnswered ==
  pc = "model" \/ state.step \in {"handoff", "final_output"}
    => state.called \subseteq state.outputs

(* When a run has ended, every turn it counted had a model request and no   *)
(* request was left out of the count: turns that failed before their        *)
(* request are taken back.  A turn makes one request, and one more each     *)
(* time an interruption of that turn was resumed.                           *)
TurnsCountRequests ==
  /\ pc = "idle" =>
       \A t \in Turns : (t \in 1 .. state.turn) <=> history.requests[t] > 0
  /\ \A t \in Turns : history.requests[t] <= 1 + history.reruns[t]

(* When run() returns, nothing it started is still going on.                *)
NothingOutlivesRun ==
  pc = "idle" => /\ ~GuardrailsPending
                 /\ answer.status # "pending"
                 /\ ToolsIn("queued") \cup ToolsIn("running") = {}

(* run() returns with its turns counted and nothing going on.               *)
RunLeavesNothingOpen == TurnsCountRequests /\ NothingOutlivesRun

(* Staged input enters the history only after the guardrails that judge it  *)
(* have passed, and never twice.                                            *)
AdmittedInputIsGuarded ==
  /\ Guardrails # {} => history.admitted \subseteq history.guarded
  /\ history.admitted \cap state.pendingInput = {}
  /\ 1 .. history.staged = history.admitted \cup state.pendingInput

(* A run whose input guardrails failed reports that, whatever else of the   *)
(* turn failed meanwhile.  One thing may stand in its place: the sandbox    *)
(* that cannot be closed, as the finally speaks last.                       *)
GuardrailErrorWins ==
  (pc = "idle" /\ GuardrailsFailed) => outcome \in {"guardrail", "sandbox"}

(* A call whose output is in the history is never executed again, and a     *)
(* call that needs an approval only after it was approved.                  *)
ExecutedOnceApproved ==
  [][\A c \in Calls : tools'[c] = "running" /\ tools[c] # "running" =>
       /\ c \notin state.outputs
       /\ c \in NeedsApproval => decisions[c] = "approved"]_vars

(* Every run ends: the turns are bounded and everything awaited answers.    *)
RunEnds == pc # "idle" ~> pc = "idle"
=============================================================================
