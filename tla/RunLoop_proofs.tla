---------------------------- MODULE RunLoop_proofs ----------------------------
(***************************************************************************)
(* Proofs about RunLoop, for every set of calls, every choice of           *)
(* guardrails and options, and every bound on turns, runs and inputs.      *)
(***************************************************************************)
EXTENDS RunLoop, FiniteSetTheorems, TLAPS

------------------------------------------------------------------------------
(* The inductive invariant.                                                 *)

(* The count of turns exceeds the limit only while the turn that exceeded   *)
(* it is about to be taken back.                                            *)
TurnInv ==
  /\ local.snapshot.turn <= MaxTurns
  /\ pc # "failing" \/ ~local.snapshot.taken => state.turn <= MaxTurns

(* Past the guardrails' checks they are over; when the run closes so are    *)
(* they, and a failure of theirs is its outcome until the finally speaks.   *)
GuardrailInv ==
  /\ pc \in {"loop", "admitting", "tools", "resuming", "applied", "outcome", "switch",
             "finalizing"}
       => batch.status \in {"none", "passed"}
  /\ pc = "blocking" => batch.status = "none"
  /\ pc \in {"idle", "closing"} => ~GuardrailsPending
  /\ pc = "closing" /\ GuardrailsFailed => outcome = "guardrail"
  /\ pc = "idle" /\ GuardrailsFailed => outcome \in {"guardrail", "sandbox"}

(* A result is left to be saved only by an abort behind the guardrails.     *)
UnsavedInv ==
  local.unsaved => /\ pc \in {"failing", "closing", "idle"}
                   /\ pc = "failing" => local.error = "abort"
                   /\ batch.status \in {"none", "passed"}

(* A request is in flight only while the loop waits for it.                 *)
RequestInv == answer.status # "none" => pc = "model"

(* A call is at work only in the two phases that execute calls, and only if *)
(* the history holds no output for it.                                      *)
ToolsInv ==
  \A c \in Calls : tools[c] # "idle" => /\ pc \in {"tools", "resuming"}
                                        /\ c \notin state.outputs

(* The guardrails of a turn judge all the input that is staged, and what is *)
(* staged is either admitted or still to be.                                *)
CoversPending == batch.covers = state.pendingInput

InputInv ==
  /\ history.admitted \cap state.pendingInput = {}
  /\ 1 .. history.staged = history.admitted \cup state.pendingInput
  /\ batch.status = "passed" => batch.covers \subseteq history.guarded
  /\ Guardrails # {} =>
       /\ history.admitted \subseteq history.guarded
       /\ pc = "blocking" /\ state.pendingInput # {} => CoversPending
       /\ pc = "preparing" /\ batch.status = "none"
            => state.pendingInput \subseteq history.guarded
  /\ pc = "preparing" /\ state.pendingInput # {} /\ batch.status # "none" => CoversPending
  /\ pc = "model" /\ local.deferred => batch.status # "none" /\ CoversPending

(* The calls of the history have their outputs, except for those that wait  *)
(* for an approval; executing the calls of a response leaves none out.      *)
Unanswered == state.called \ state.outputs

WaitingForApproval == state.response.calls \cap state.approvals

CallsInv ==
  /\ state.step \in {"none", "run_again", "handoff", "final_output"} => Unanswered = {}
  /\ state.step = "interruption" => /\ Unanswered \subseteq WaitingForApproval
                                    /\ state.response.calls \subseteq state.called
  /\ pc = "tools" => \A c \in CallsToRun : tools[c] # "idle"
  /\ pc = "resuming" => /\ \A c \in ResumableCalls : tools[c] # "idle"
                        /\ \A c \in ToolsIn("approval") : decisions[c] = "none"

(* Where the loop is determines the step of the state.                      *)
BeforeRequest == pc \in {"blocking", "preparing", "admitting"}

StepInv ==
  /\ BeforeRequest \/ pc \in {"model", "checking", "tools"} => state.step = "run_again"
  /\ pc = "resuming" => state.step = "interruption"
  /\ pc = "outcome" => IF local.next = "handoff"
                       THEN state.step = "run_again" /\ ~state.inProgress
                       ELSE state.step = local.next
  /\ pc = "finalizing" => state.step = "final_output"
  /\ pc = "failing" /\ local.error = "maxTurns" => state.step = "run_again"
  /\ local.continuing => pc = "loop" /\ state.step = "none"

(* A snapshot is held from the start of a turn to its request, and is what  *)
(* a failure goes back to.                                                  *)
WithinTurn ==
  BeforeRequest \/ pc \in {"model", "checking", "tools", "resuming", "applied", "outcome"}

SnapshotInv ==
  /\ BeforeRequest => local.snapshot.taken
  /\ local.snapshot.taken =>
       /\ BeforeRequest \/ pc = "failing"
       /\ state.step = "run_again"
       /\ state.turn \in {local.snapshot.turn, local.snapshot.turn + 1}
       /\ local.snapshot.inProgress => local.snapshot.turn >= 1
  /\ WithinTurn => state.turn >= 1
  /\ state.inProgress \/ local.continuing \/ state.step = "interruption" => state.turn >= 1

(* The turns that count had a request, and a turn that may make another one *)
(* has been run again.                                                      *)
CountedTurn == IF local.snapshot.taken THEN local.snapshot.turn ELSE state.turn

MayRequest(h, t) == h.requests[t] <= h.reruns[t]

CountInv ==
  /\ \A t \in Turns : (t \in 1 .. CountedTurn) <=> history.requests[t] > 0
  /\ \A t \in Turns : history.requests[t] <= 1 + history.reruns[t]
  /\ BeforeRequest => MayRequest(history, state.turn)
  /\ /\ pc \in {"idle", "loop", "closing"}
     /\ state.step \in {"none", "run_again"}
     /\ state.inProgress \/ local.continuing
     => MayRequest(history, state.turn)
  /\ local.snapshot.taken /\ local.snapshot.inProgress => MayRequest(history, local.snapshot.turn)

IndInv ==
  /\ TypeOK /\ TurnInv /\ GuardrailInv /\ UnsavedInv /\ RequestInv /\ ToolsInv
  /\ InputInv /\ CallsInv /\ StepInv /\ SnapshotInv /\ CountInv

LEMMA Constants ==
  /\ MaxTurns \in Nat /\ MaxRuns \in Nat /\ MaxInputs \in Nat
  /\ MaxCallsInResponse \in Nat /\ NeedsApproval \subseteq Calls
  /\ Guardrails \subseteq {"blocking", "parallel"}
BY CallsAssumption, OptionsAssumption, BoundsAssumption

------------------------------------------------------------------------------
(* Which actions change which variable.                                     *)

LEMMA Writers ==
  ASSUME [Next]_vars
  PROVE  /\ \/ UNCHANGED state \/ AddInput \/ BeginTurn \/ StartModelRequest
            \/ CommitDeferredInput \/ ModelReturns \/ ResolveTurn \/ ResolveInterruptedTurn
            \/ HandleInterruptedOutcome \/ RunAgain \/ TakeHandoff \/ FinalOutputAccepted \/ CatchError
         /\ \/ UNCHANGED local \/ Run \/ BeginTurn \/ BlockingGuardrailsFail \/ PrepareFails
            \/ GuardrailsStopRequest \/ StartModelRequest \/ AdmittedInputSaved
            \/ CommitDeferredInput \/ ModelReturns \/ StartTools \/ ToolsFail \/ ResolveTurn
            \/ ResolveInterruptedTurn \/ HandleInterruptedOutcome \/ CheckAbort
            \/ StartFinalization \/ FinalOutputRejected \/ CatchError
         /\ \/ UNCHANGED pc \/ Run \/ BeginTurn \/ BlockingGuardrailsPass
            \/ BlockingGuardrailsFail \/ PrepareFails \/ GuardrailsStopRequest
            \/ StartModelRequest \/ AdmittedInputSaved \/ ModelReturns \/ StartTools \/ ResumeInterruptedTurn \/ ToolsFail \/ ResolveTurn
            \/ ResolveInterruptedTurn \/ HandleInterruptedOutcome \/ CheckAbort \/ RunAgain
            \/ TakeHandoff \/ ReturnInterruption \/ StartFinalization \/ FinalOutputAccepted
            \/ FinalOutputRejected \/ CatchError \/ Finally
         /\ \/ UNCHANGED outcome \/ Run \/ HandleInterruptedOutcome \/ ReturnInterruption
            \/ FinalOutputAccepted \/ FinalOutputRejected \/ CatchError \/ Finally
         /\ \/ UNCHANGED batch \/ Run \/ GuardrailsPass \/ GuardrailErrorObserved
            \/ GuardrailsDrained \/ BeginTurn \/ BlockingGuardrailsPass
         /\ \/ UNCHANGED answer \/ Run \/ ModelAnswers \/ StartModelRequest \/ AdmittedInputSaved
            \/ ModelReturns
         /\ \/ UNCHANGED tools \/ Run \/ (\E c \in Calls : StartTool(c) \/ ToolReturns(c))
            \/ StartTools \/ ResumeInterruptedTurn \/ ToolsFail \/ ResolveTurn
            \/ ResolveInterruptedTurn
         /\ \/ UNCHANGED history \/ Run \/ AddInput \/ GuardrailsPass \/ BlockingGuardrailsPass
            \/ StartModelRequest \/ AdmittedInputSaved \/ CommitDeferredInput
            \/ HandleInterruptedOutcome
         /\ UNCHANGED decisions \/ (\E c \in Calls : Decide(c))
         /\ UNCHANGED aborted \/ Run \/ Abort
<1>1. CASE Run \/ AddInput \/ Abort \/ \E c \in Calls : Decide(c)
  BY <1>1 DEF Run, AddInput, Abort, Decide, LoopUnchanged
<1>2. CASE GuardrailsPass \/ GuardrailErrorObserved \/ GuardrailsDrained \/ ModelAnswers
  BY <1>2 DEF GuardrailsPass, GuardrailErrorObserved, GuardrailsDrained, ModelAnswers,
              LoopUnchanged
<1>3. CASE \E c \in Calls : StartTool(c) \/ ToolReturns(c)
  BY <1>3 DEF StartTool, ToolReturns, LoopUnchanged
<1>4. CASE BeginTurn \/ BlockingGuardrailsPass \/ BlockingGuardrailsFail
  BY <1>4 DEF BeginTurn, BlockingGuardrailsPass, BlockingGuardrailsFail
<1>5. CASE PrepareFails \/ GuardrailsStopRequest \/ StartModelRequest
  BY <1>5 DEF PrepareFails, GuardrailsStopRequest, StartModelRequest
<1>6. CASE AdmittedInputSaved \/ CommitDeferredInput \/ ModelReturns
  BY <1>6 DEF AdmittedInputSaved, CommitDeferredInput, ModelReturns
<1>7. CASE StartTools \/ ResumeInterruptedTurn \/ ToolsFail
  BY <1>7 DEF StartTools, ResumeInterruptedTurn, ToolsFail
<1>8. CASE ResolveTurn \/ ResolveInterruptedTurn \/ HandleInterruptedOutcome
  BY <1>8 DEF ResolveTurn, ResolveInterruptedTurn, HandleInterruptedOutcome
<1>9. CASE CheckAbort \/ RunAgain \/ TakeHandoff \/ ReturnInterruption
  BY <1>9 DEF CheckAbort, RunAgain, TakeHandoff, ReturnInterruption
<1>10. CASE StartFinalization \/ FinalOutputAccepted \/ FinalOutputRejected \/ CatchError
            \/ Finally
  BY <1>10 DEF StartFinalization, FinalOutputAccepted, FinalOutputRejected, CatchError, Finally
<1>11. CASE UNCHANGED vars
  BY <1>11 DEF vars
<1> QED
  BY <1>1, <1>2, <1>3, <1>4, <1>5, <1>6, <1>7, <1>8, <1>9, <1>10, <1>11
  DEF Next, Caller, InputGuardrails, Tools, Loop

(* The flow of control: how each phase is entered, and how it is left.      *)
LEMMA Entering ==
  ASSUME [Next]_vars, pc' # pc
  PROVE  /\ pc' = "closing" => \/ HandleInterruptedOutcome \/ ReturnInterruption
                               \/ FinalOutputAccepted \/ FinalOutputRejected \/ CatchError
         /\ pc' = "idle" => Finally
         /\ pc' = "loop" => Run \/ HandleInterruptedOutcome \/ RunAgain \/ TakeHandoff
         /\ pc' = "blocking" => BeginTurn
         /\ pc' = "preparing" => BeginTurn \/ BlockingGuardrailsPass
         /\ pc' = "admitting" => StartModelRequest
         /\ pc' = "model" => /\ StartModelRequest \/ AdmittedInputSaved
                             /\ pc \in {"preparing", "admitting"}
         /\ pc' = "checking" => ModelReturns
         /\ pc' = "tools" => StartTools
         /\ pc' = "resuming" => ResumeInterruptedTurn
         /\ pc' = "applied" => ResolveTurn
         /\ pc' = "outcome" => ResolveInterruptedTurn
         /\ pc' = "switch" => CheckAbort
         /\ pc' = "finalizing" => StartFinalization \/ CatchError
<1>1. CASE Run \/ BeginTurn \/ BlockingGuardrailsPass \/ BlockingGuardrailsFail
           \/ PrepareFails \/ GuardrailsStopRequest \/ StartModelRequest
           \/ AdmittedInputSaved
  BY <1>1 DEF Run, BeginTurn, BlockingGuardrailsPass, BlockingGuardrailsFail, PrepareFails,
              GuardrailsStopRequest, StartModelRequest, AdmittedInputSaved, Throw,
              RequestModel
<1>2. CASE ModelReturns \/ StartTools \/ ResumeInterruptedTurn \/ ToolsFail \/ ResolveTurn
           \/ ResolveInterruptedTurn \/ HandleInterruptedOutcome \/ CheckAbort
  BY <1>2 DEF ModelReturns, StartTools, ResumeInterruptedTurn, ToolsFail, ResolveTurn,
              ResolveInterruptedTurn, HandleInterruptedOutcome, CheckAbort, ThrowAbort, Throw
<1>3. CASE RunAgain \/ TakeHandoff \/ ReturnInterruption \/ StartFinalization
           \/ FinalOutputAccepted \/ FinalOutputRejected \/ CatchError \/ Finally
  BY <1>3 DEF RunAgain, TakeHandoff, ReturnInterruption, StartFinalization,
              FinalOutputAccepted, FinalOutputRejected, CatchError, Finally, Throw
<1> QED BY Writers, <1>1, <1>2, <1>3

LEMMA Leaving ==
  ASSUME [Next]_vars, pc' # pc
  PROVE  /\ pc = "idle" => Run
         /\ pc = "loop" => BeginTurn \/ ResumeInterruptedTurn \/ StartFinalization
         /\ BeforeRequest => BeforeRequest' \/ pc' \in {"model", "failing"}
         /\ pc = "model" => ModelReturns
         /\ pc = "checking" => StartTools
         /\ pc = "tools" => ToolsFail \/ ResolveTurn
         /\ pc = "resuming" => ToolsFail \/ ResolveInterruptedTurn
         /\ pc = "applied" => CheckAbort
         /\ pc = "outcome" => HandleInterruptedOutcome
         /\ pc = "failing" => CatchError
         /\ pc = "closing" => Finally
<1>1. CASE Run \/ BeginTurn \/ BlockingGuardrailsPass \/ BlockingGuardrailsFail
           \/ PrepareFails \/ GuardrailsStopRequest \/ StartModelRequest
           \/ AdmittedInputSaved
  BY <1>1 DEF Run, BeginTurn, BlockingGuardrailsPass, BlockingGuardrailsFail, PrepareFails,
              GuardrailsStopRequest, StartModelRequest, AdmittedInputSaved, Throw,
              RequestModel, BeforeRequest
<1>2. CASE ModelReturns \/ StartTools \/ ResumeInterruptedTurn \/ ToolsFail \/ ResolveTurn
           \/ ResolveInterruptedTurn \/ HandleInterruptedOutcome \/ CheckAbort
  BY <1>2 DEF ModelReturns, StartTools, ResumeInterruptedTurn, ToolsFail, ResolveTurn,
              ResolveInterruptedTurn, HandleInterruptedOutcome, CheckAbort, ThrowAbort, Throw,
              BeforeRequest
<1>3. CASE RunAgain \/ TakeHandoff \/ ReturnInterruption \/ StartFinalization
           \/ FinalOutputAccepted \/ FinalOutputRejected \/ CatchError \/ Finally
  BY <1>3 DEF RunAgain, TakeHandoff, ReturnInterruption, StartFinalization,
              FinalOutputAccepted, FinalOutputRejected, CatchError, Finally, Throw,
              BeforeRequest
<1> QED BY Writers, <1>1, <1>2, <1>3

------------------------------------------------------------------------------
(* Type correctness, variable by variable.                                  *)

PcType ==
  {"idle", "loop", "blocking", "preparing", "admitting", "model", "checking", "tools",
   "resuming", "applied", "outcome", "switch", "finalizing", "failing", "closing"}

OutcomeType == Errors \cup {"none", "final", "interrupted"}

BatchType ==
  [status : {"none", "running", "passed", "observed", "failed"}, covers : SUBSET Inputs]

AnswerType == [status : {"none", "pending", "ok", "error"}, response : Responses]

ToolsType ==
  [Calls -> {"idle", "queued", "running", "output", "approval", "aborted", "failed"}]

HistoryType ==
  [runs : 0 .. MaxRuns, staged : Inputs, guarded : SUBSET Inputs,
   admitted : SUBSET Inputs, requests : [Turns -> Nat], reruns : [Turns -> Nat]]

LEMMA TypeParts ==
  TypeOK <=>
    /\ state \in StateType /\ decisions \in [Calls -> {"none", "approved", "rejected"}]
    /\ pc \in PcType /\ local \in LocalType /\ outcome \in OutcomeType
    /\ batch \in BatchType /\ answer \in AnswerType /\ tools \in ToolsType
    /\ aborted \in BOOLEAN /\ history \in HistoryType
BY DEF TypeOK, PcType, OutcomeType, BatchType, AnswerType, ToolsType, HistoryType

LEMMA NoResponseType == NoResponse \in Responses
<1>1. Cardinality({}) = 0
  BY FS_EmptySet
<1> QED BY <1>1, Constants DEF NoResponse, Responses

LEMMA NoSnapshotType ==
  NoSnapshot \in [turn : Turns, inProgress : BOOLEAN, taken : BOOLEAN]
<1>1. 0 \in Turns
  BY Constants DEF Turns
<1> QED BY <1>1 DEF NoSnapshot

LEMMA InitType == Init => TypeOK
<1> SUFFICES ASSUME Init PROVE TypeOK
  OBVIOUS
<1> USE Constants, NoResponseType
<1>1. state \in StateType
  BY DEF Init, StateType, Turns
<1>2. local \in LocalType
  BY DEF Init, LocalType, NoSnapshot, Turns
<1>3. batch \in BatchType /\ answer \in AnswerType /\ tools \in ToolsType
  BY DEF Init, BatchType, NoBatch, AnswerType, NoAnswer, ToolsType, NoTools
<1>4. history \in HistoryType
  BY DEF Init, HistoryType, Inputs
<1> QED BY <1>1, <1>2, <1>3, <1>4, TypeParts DEF Init, PcType, OutcomeType

LEMMA StateNextType ==
  ASSUME TypeOK, TurnInv, [Next]_vars PROVE state' \in StateType
<1> USE Constants, NoResponseType DEF StateType
<1> state \in StateType /\ local \in LocalType /\ answer \in AnswerType
    /\ aborted \in BOOLEAN /\ history \in HistoryType
  BY TypeParts
<1>1. CASE AddInput
  BY <1>1 DEF AddInput, HistoryType, Inputs
<1>2. CASE BeginTurn
  <2>1. pc # "failing" /\ state.turn <= MaxTurns
    BY <1>2 DEF BeginTurn, TurnInv
  <2> DEFINE turn == IF SameTurn THEN state.turn ELSE state.turn + 1
  <2>2. turn \in Turns
    BY <2>1 DEF Turns
  <2>3. state' = [state EXCEPT !.step = "run_again", !.turn = turn, !.inProgress = TRUE]
    BY <1>2 DEF BeginTurn
  <2> HIDE DEF turn
  <2> QED BY <2>2, <2>3
<1>3. CASE StartModelRequest
  BY <1>3 DEF StartModelRequest, StateWithInput
<1>4. CASE CommitDeferredInput
  BY <1>4 DEF CommitDeferredInput, StateWithInput
<1>5. CASE ModelReturns
  BY <1>5 DEF ModelReturns, AnswerType
<1>6. NextStep \in {"none", "run_again", "interruption", "handoff", "final_output"}
  BY DEF NextStep
<1>7. ASSUME NEW next \in {"none", "run_again", "interruption", "handoff", "final_output"},
             NEW approvals \in SUBSET Calls
      PROVE  TurnApplied(next, approvals) \in StateType
  <2>1. [state.response EXCEPT !.handoff = @ /\ ~aborted] \in Responses
    BY DEF Responses
  <2>2. state.response.calls \in SUBSET Calls
    BY DEF Responses
  <2>3. ToolsIn("output") \in SUBSET Calls /\ ToolsIn("aborted") \in SUBSET Calls
    BY DEF ToolsIn
  <2> QED BY <1>7, <2>1, <2>2, <2>3 DEF TurnApplied
<1>8. ASSUME NEW s \in StateType PROVE HandedOff(s) \in StateType
  <2>1. 3 - s.agent \in {1, 2}
    OBVIOUS
  <2> QED BY <2>1 DEF HandedOff
<1>9. CASE ResolveTurn
  BY <1>6, <1>7, <1>9 DEF ResolveTurn, ToolsIn
<1>10. CASE ResolveInterruptedTurn
  <2>1. PendingApprovals \in SUBSET Calls
    BY DEF PendingApprovals
  <2>2. \A s \in StateType : [s EXCEPT !.response = NoResponse] \in StateType
    OBVIOUS
  <2> DEFINE applied == TurnApplied(NextStep, PendingApprovals)
  <2>3. \/ state' \in {state, applied}
        \/ state' = HandedOff([applied EXCEPT !.response = NoResponse])
    BY <1>10 DEF ResolveInterruptedTurn
  <2>4. applied \in StateType
    BY <1>6, <1>7, <2>1
  <2> HIDE DEF applied, StateType
  <2> QED BY <1>8, <2>2, <2>3, <2>4
<1>11. CASE HandleInterruptedOutcome
  BY <1>11 DEF HandleInterruptedOutcome
<1>12. CASE RunAgain
  BY <1>12 DEF RunAgain
<1>13. CASE TakeHandoff
  BY <1>8, <1>13 DEF TakeHandoff
<1>14. CASE FinalOutputAccepted
  BY <1>14 DEF FinalOutputAccepted
<1>15. CASE CatchError
  <2>1. RollbackUnstartedTurn \in StateType
    BY DEF RollbackUnstartedTurn, LocalType
  <2>2. \A s \in StateType :
          [s EXCEPT !.step = "final_output", !.response = NoResponse] \in StateType
    OBVIOUS
  <2> QED BY <1>15, <2>1, <2>2 DEF CatchError
<1> QED
  BY Writers, <1>1, <1>2, <1>3, <1>4, <1>5, <1>9, <1>10, <1>11, <1>12, <1>13, <1>14, <1>15

LEMMA ThrowType ==
  ASSUME TypeOK, NEW error \in Errors, Throw(error) PROVE local' \in LocalType
BY TypeParts DEF Throw, LocalType

LEMMA ThrowAbortType ==
  ASSUME TypeOK, NEW unsaved \in BOOLEAN, ThrowAbort(unsaved) PROVE local' \in LocalType
BY TypeParts DEF ThrowAbort, LocalType, Errors

LEMMA LocalNextType ==
  ASSUME TypeOK, [Next]_vars PROVE local' \in LocalType
<1> USE Constants
<1> local \in LocalType /\ state \in StateType /\ aborted \in BOOLEAN
  BY TypeParts
<1>1. CASE Run
  <2>1. (history.runs > 0) \in BOOLEAN
    BY TypeParts DEF HistoryType
  <2> QED BY <1>1, <2>1 DEF Run, LocalType, NoSnapshot, Turns
<1>2. CASE BeginTurn
  <2>1. \A begun \in LocalType : [begun EXCEPT !.error = "maxTurns"] \in LocalType
    BY DEF LocalType, Errors
  <2>2. [local EXCEPT !.continuing = FALSE,
                      !.snapshot = [turn |-> state.turn, inProgress |-> state.inProgress,
                                    taken |-> TRUE]] \in LocalType
    BY DEF LocalType, StateType
  <2> QED BY <1>2, <2>1, <2>2 DEF BeginTurn
<1>3. ASSUME NEW error \in Errors, Throw(error) PROVE local' \in LocalType
  BY <1>3, ThrowType
<1>4. ASSUME NEW deferred \in BOOLEAN, RequestModel(deferred) PROVE local' \in LocalType
  BY <1>4, NoSnapshotType DEF RequestModel, LocalType
<1>5. {"guardrail", "prepare", "session", "model", "tool", "handoff", "refusal",
       "outputGuardrail", "abort"} \subseteq Errors
  BY DEF Errors
<1>6. CASE BlockingGuardrailsFail \/ PrepareFails \/ GuardrailsStopRequest \/ ToolsFail
  BY <1>3, <1>5, <1>6 DEF BlockingGuardrailsFail, PrepareFails, GuardrailsStopRequest, ToolsFail
<1>7. CASE StartModelRequest \/ AdmittedInputSaved
  BY <1>3, <1>4, <1>5, <1>7 DEF StartModelRequest, AdmittedInputSaved
<1>8. CASE CommitDeferredInput
  <2>1. PICK error \in Errors \cup {"none"} :
          local' = [local EXCEPT !.deferred = FALSE, !.error = error]
    BY <1>5, <1>8 DEF CommitDeferredInput
  <2> QED BY <2>1 DEF LocalType
<1>9. CASE ModelReturns
  <2>1. local.error # "none" => local.error \in Errors
    BY DEF LocalType
  <2> QED BY <1>3, <1>5, <1>9, <2>1 DEF ModelReturns
<1>10. CASE StartTools \/ ResolveTurn \/ CheckAbort \/ StartFinalization
  BY <1>3, <1>5, <1>10, ThrowAbortType
  DEF StartTools, ResolveTurn, CheckAbort, StartFinalization
<1>11. CASE ResolveInterruptedTurn
  <2>1. NextStep \in {"none", "run_again", "interruption", "handoff", "final_output"}
    BY DEF NextStep
  <2> QED BY <1>3, <1>5, <1>11, <2>1 DEF ResolveInterruptedTurn, LocalType
<1>12. CASE HandleInterruptedOutcome
  <2>1. \A continuing \in BOOLEAN : [local EXCEPT !.continuing = continuing] \in LocalType
    BY DEF LocalType
  <2> QED BY <1>3, <1>5, <1>12, <2>1, ThrowAbortType DEF HandleInterruptedOutcome
<1>13. CASE FinalOutputRejected
  BY <1>3, <1>5, <1>13 DEF FinalOutputRejected
<1>14. CASE CatchError
  BY <1>14, NoSnapshotType DEF CatchError, LocalType
<1> QED
  BY Writers, <1>1, <1>2, <1>6, <1>7, <1>8, <1>9, <1>10, <1>11, <1>12, <1>13, <1>14

LEMMA ControlNextType ==
  ASSUME TypeOK, [Next]_vars
  PROVE  /\ pc' \in PcType /\ outcome' \in OutcomeType /\ aborted' \in BOOLEAN
         /\ decisions' \in [Calls -> {"none", "approved", "rejected"}]
<1> pc \in PcType /\ outcome \in OutcomeType /\ aborted \in BOOLEAN /\ local \in LocalType
    /\ decisions \in [Calls -> {"none", "approved", "rejected"}]
  BY TypeParts
<1>1. pc' \in PcType
  <2>1. CASE Run \/ BeginTurn \/ BlockingGuardrailsPass \/ BlockingGuardrailsFail
             \/ PrepareFails \/ GuardrailsStopRequest \/ StartModelRequest
             \/ AdmittedInputSaved
    BY <2>1 DEF Run, BeginTurn, BlockingGuardrailsPass, BlockingGuardrailsFail, PrepareFails,
                GuardrailsStopRequest, StartModelRequest, AdmittedInputSaved, Throw,
                RequestModel, PcType
  <2>2. CASE ModelReturns \/ StartTools \/ ResumeInterruptedTurn \/ ToolsFail \/ ResolveTurn
             \/ ResolveInterruptedTurn \/ HandleInterruptedOutcome \/ CheckAbort
    BY <2>2 DEF ModelReturns, StartTools, ResumeInterruptedTurn, ToolsFail, ResolveTurn,
                ResolveInterruptedTurn, HandleInterruptedOutcome, CheckAbort, ThrowAbort,
                Throw, PcType
  <2>3. CASE RunAgain \/ TakeHandoff \/ ReturnInterruption \/ StartFinalization
             \/ FinalOutputAccepted \/ FinalOutputRejected \/ CatchError \/ Finally
    BY <2>3 DEF RunAgain, TakeHandoff, ReturnInterruption, StartFinalization,
                FinalOutputAccepted, FinalOutputRejected, CatchError, Finally, Throw, PcType
  <2> QED BY Writers, <2>1, <2>2, <2>3
<1>2. outcome' \in OutcomeType
  <2>1. SurfacedError \in OutcomeType
    BY DEF SurfacedError, LocalType, OutcomeType, Errors
  <2> QED
    BY Writers, <2>1
    DEF Run, HandleInterruptedOutcome, ReturnInterruption, FinalOutputAccepted,
        FinalOutputRejected, CatchError, Finally, OutcomeType, Errors
<1>3. aborted' \in BOOLEAN /\ decisions' \in [Calls -> {"none", "approved", "rejected"}]
  BY Writers DEF Run, Abort, Decide
<1> QED BY <1>1, <1>2, <1>3

LEMMA BatchNextType ==
  ASSUME TypeOK, [Next]_vars PROVE batch' \in BatchType
<1> USE Constants DEF BatchType
<1> batch \in BatchType /\ state \in StateType
  BY TypeParts
<1>1. ASSUME NEW input \in SUBSET Inputs PROVE ParallelBatch(input) \in BatchType
  BY DEF ParallelBatch, NoBatch
<1>2. ASSUME NEW turn PROVE InputToGuard(turn) \in SUBSET Inputs
  BY DEF InputToGuard, StateType, Inputs
<1>3. NoBatch \in BatchType
  BY DEF NoBatch
<1>4. CASE BeginTurn
  BY <1>1, <1>2, <1>3, <1>4 DEF BeginTurn
<1> QED
  BY Writers, <1>1, <1>3, <1>4
  DEF Run, GuardrailsPass, GuardrailErrorObserved, GuardrailsDrained, BlockingGuardrailsPass

LEMMA AnswerNextType ==
  ASSUME TypeOK, [Next]_vars PROVE answer' \in AnswerType
<1> answer \in AnswerType
  BY TypeParts
<1>1. \A status \in {"none", "pending", "ok", "error"}, r \in Responses :
        [status |-> status, response |-> r] \in AnswerType
  BY DEF AnswerType
<1>2. CASE ModelAnswers
  BY <1>1, <1>2, NoResponseType DEF ModelAnswers
<1>3. CASE Run \/ ModelReturns
  BY <1>1, <1>3, NoResponseType DEF Run, ModelReturns, NoAnswer
<1>4. CASE StartModelRequest \/ AdmittedInputSaved
  BY <1>1, <1>4, NoResponseType DEF StartModelRequest, AdmittedInputSaved, RequestModel
<1> QED BY Writers, <1>2, <1>3, <1>4

(* What becomes of one call in a step of its execution.                     *)
LEMMA CallMoves ==
  ASSUME TypeOK, NEW c \in Calls, StartTool(c) \/ ToolReturns(c)
  PROVE  \E status \in {"running", "output", "approval", "failed", "aborted"} :
           /\ tools' = [tools EXCEPT ![c] = status]
           /\ tools[c] \in {"queued", "running"}
           /\ status = "approval" => decisions[c] = "none"
           /\ status = "running" => /\ tools[c] = "queued"
                                    /\ c \in NeedsApproval => decisions[c] = "approved"
BY DEF StartTool, ToolReturns, Undecided, Turn!Start, Turn!Refuse, Turn!AskApproval,
       Turn!AnswerUnstarted, Turn!Return, Turn!Fail, Turn!Cancel, Turn!Becomes

LEMMA ToolsNextType ==
  ASSUME TypeOK, [Next]_vars PROVE tools' \in ToolsType
<1> USE DEF ToolsType
<1> tools \in ToolsType
  BY TypeParts
<1>1. CASE \E c \in Calls : StartTool(c) \/ ToolReturns(c)
  BY <1>1, CallMoves
<1>2. \A calls : Turn!Queue(calls) \in ToolsType
  BY DEF Turn!Queue
<1>3. NoTools \in ToolsType
  BY DEF NoTools
<1>4. CASE Run \/ ToolsFail \/ ResolveTurn \/ ResolveInterruptedTurn
  BY <1>3, <1>4 DEF Run, ToolsFail, ResolveTurn, ResolveInterruptedTurn
<1>5. CASE StartTools \/ ResumeInterruptedTurn
  BY <1>2, <1>5 DEF StartTools, ResumeInterruptedTurn
<1> QED BY Writers, <1>1, <1>4, <1>5

LEMMA HistoryNextType ==
  ASSUME TypeOK, [Next]_vars PROVE history' \in HistoryType
<1> USE Constants DEF HistoryType
<1> history \in HistoryType /\ batch \in BatchType /\ state \in StateType
  BY TypeParts
<1>1. CASE Run
  BY <1>1 DEF Run
<1>2. CASE AddInput
  BY <1>2 DEF AddInput, Inputs
<1>3. CASE GuardrailsPass \/ BlockingGuardrailsPass
  BY <1>3 DEF GuardrailsPass, BlockingGuardrailsPass, BatchType
<1>4. CountRequest \in HistoryType
  BY DEF CountRequest, StateType
<1>5. HistoryWithInput \in HistoryType
  BY DEF HistoryWithInput, StateType
<1>6. CASE StartModelRequest \/ AdmittedInputSaved \/ CommitDeferredInput
  BY <1>4, <1>5, <1>6 DEF StartModelRequest, AdmittedInputSaved, CommitDeferredInput
<1>7. CASE HandleInterruptedOutcome
  BY <1>7 DEF HandleInterruptedOutcome, StateType
<1> QED BY Writers, <1>1, <1>2, <1>3, <1>6, <1>7

LEMMA NextType == TypeOK /\ TurnInv /\ [Next]_vars => TypeOK'
<1> SUFFICES ASSUME TypeOK, TurnInv, [Next]_vars PROVE TypeOK'
  OBVIOUS
<1> QED
  BY StateNextType, LocalNextType, ControlNextType, BatchNextType, AnswerNextType,
     ToolsNextType, HistoryNextType
  DEF TypeOK, PcType, OutcomeType, BatchType, AnswerType, ToolsType, HistoryType

------------------------------------------------------------------------------
(* What the steps do to the fields of state, local and history.             *)

SmallStateStep ==
  AddInput \/ StartModelRequest \/ CommitDeferredInput \/ ModelReturns \/ RunAgain
    \/ FinalOutputAccepted

Resolves == ResolveTurn \/ ResolveInterruptedTurn

(* What is left of the turn, unless one begins or fails.                    *)
LEMMA StateFields ==
  ASSUME TypeOK, [Next]_vars
  PROVE  /\ \/ state'.turn = state.turn \/ BeginTurn \/ CatchError
         /\ \/ state'.step = state.step \/ BeginTurn \/ Resolves \/ HandleInterruptedOutcome
            \/ TakeHandoff \/ CatchError
         /\ \/ state'.inProgress = state.inProgress \/ BeginTurn \/ ResolveInterruptedTurn
            \/ RunAgain \/ TakeHandoff \/ FinalOutputAccepted \/ CatchError
         /\ \/ state'.response = state.response \/ ModelReturns \/ Resolves \/ CatchError
         /\ state'.called = state.called \/ Resolves
         /\ state'.outputs = state.outputs \/ Resolves
         /\ state'.approvals = state.approvals \/ Resolves
         /\ \/ state'.pendingInput = state.pendingInput \/ AddInput \/ StartModelRequest
            \/ CommitDeferredInput
<1> state \in StateType
  BY TypeParts
<1>1. CASE BeginTurn
  <2>1. PICK turn : state' = [state EXCEPT !.step = "run_again", !.turn = turn,
                                          !.inProgress = TRUE]
    BY <1>1 DEF BeginTurn
  <2> QED BY <1>1, <2>1 DEF StateType
<1>2. CASE SmallStateStep
  BY <1>2 DEF SmallStateStep, AddInput, StartModelRequest, CommitDeferredInput, StateWithInput,
              ModelReturns, RunAgain, FinalOutputAccepted, StateType
<1>3. ASSUME NEW next, NEW approvals
      PROVE  /\ TurnApplied(next, approvals).turn = state.turn
             /\ TurnApplied(next, approvals).inProgress = state.inProgress
             /\ TurnApplied(next, approvals).pendingInput = state.pendingInput
  BY DEF TurnApplied, StateType
<1>4. CASE ResolveTurn
  BY <1>3, <1>4 DEF ResolveTurn, Resolves
<1>5. CASE ResolveInterruptedTurn
  <2>1. HandedOff([TurnApplied(NextStep, PendingApprovals) EXCEPT !.response = NoResponse]).turn
          = TurnApplied(NextStep, PendingApprovals).turn
    BY DEF HandedOff, TurnApplied, StateType
  <2>2. HandedOff([TurnApplied(NextStep, PendingApprovals) EXCEPT !.response = NoResponse])
          .pendingInput = TurnApplied(NextStep, PendingApprovals).pendingInput
    BY DEF HandedOff, TurnApplied, StateType
  <2> QED BY <1>3, <1>5, <2>1, <2>2 DEF ResolveInterruptedTurn, Resolves
<1>6. CASE HandleInterruptedOutcome
  <2>1. state' \in {state, [state EXCEPT !.step = "none"]}
    BY <1>6 DEF HandleInterruptedOutcome
  <2> QED BY <1>6, <2>1 DEF StateType
<1>7. CASE TakeHandoff
  <2>1. state' = HandedOff(state)
    BY <1>7 DEF TakeHandoff
  <2> QED BY <1>7, <2>1 DEF HandedOff, StateType
<1>8. CASE CatchError
  <2>1. ASSUME NEW s \in {RollbackUnstartedTurn,
                          [RollbackUnstartedTurn EXCEPT !.step = "final_output",
                                                        !.response = NoResponse]}
        PROVE  /\ s.called = state.called /\ s.outputs = state.outputs
               /\ s.approvals = state.approvals /\ s.pendingInput = state.pendingInput
    BY DEF RollbackUnstartedTurn, StateType
  <2> QED BY <1>8, <2>1 DEF CatchError
<1> QED
  BY Writers, <1>1, <1>2, <1>4, <1>5, <1>6, <1>7, <1>8 DEF SmallStateStep

LEMMA ThrowFields ==
  ASSUME TypeOK, NEW error, Throw(error)
  PROVE  /\ local'.snapshot = local.snapshot /\ local'.continuing = local.continuing
         /\ local'.deferred = local.deferred /\ local'.next = local.next
         /\ local'.error = error /\ local'.unsaved = local.unsaved /\ pc' = "failing"
BY TypeParts DEF Throw, LocalType

LEMMA ThrowAbortFields ==
  ASSUME TypeOK, NEW unsaved, ThrowAbort(unsaved)
  PROVE  /\ local'.snapshot = local.snapshot /\ local'.continuing = local.continuing
         /\ local'.deferred = local.deferred /\ local'.next = local.next
         /\ local'.error = "abort" /\ pc' = "failing"
BY TypeParts DEF ThrowAbort, LocalType

LEMMA RequestFields ==
  ASSUME TypeOK, RequestModel(TRUE) \/ RequestModel(FALSE)
  PROVE  /\ local'.snapshot = NoSnapshot /\ local'.continuing = local.continuing
         /\ local'.next = local.next /\ local'.unsaved = local.unsaved /\ pc' = "model"
<1> local \in LocalType
  BY TypeParts
<1>1. CASE RequestModel(TRUE)
  BY <1>1 DEF RequestModel, LocalType
<1>2. CASE RequestModel(FALSE)
  BY <1>2 DEF RequestModel, LocalType
<1> QED BY <1>1, <1>2

LEMMA SnapshotGivenUp ==
  ASSUME TypeOK, [Next]_vars, pc' = "model", pc # "model"
  PROVE  local'.snapshot = NoSnapshot
<1>1. StartModelRequest \/ AdmittedInputSaved
  BY Entering
<1>2. RequestModel(TRUE) \/ RequestModel(FALSE)
  BY <1>1 DEF StartModelRequest, AdmittedInputSaved, Throw
<1> QED BY <1>2, RequestFields

LEMMA BeginTurnFields ==
  ASSUME TypeOK, BeginTurn
  PROVE  /\ local'.snapshot.turn = state.turn /\ local'.snapshot.taken
         /\ local'.snapshot.inProgress = state.inProgress
         /\ local'.continuing = FALSE
         /\ local'.deferred = local.deferred /\ local'.next = local.next
         /\ local'.unsaved = local.unsaved
         /\ state'.step = "run_again" /\ state'.inProgress = TRUE
         /\ state'.turn = IF SameTurn THEN state.turn ELSE state.turn + 1
         /\ \/ pc' = "failing" /\ ExceedsMaxTurns(state'.turn) /\ local'.error = "maxTurns"
            \/ pc' \in {"blocking", "preparing"} /\ ~ExceedsMaxTurns(state'.turn)
<1> state \in StateType /\ local \in LocalType
  BY TypeParts
<1> DEFINE turn     == IF SameTurn THEN state.turn ELSE state.turn + 1
           snapshot == [turn |-> state.turn, inProgress |-> state.inProgress, taken |-> TRUE]
           begun    == [local EXCEPT !.continuing = FALSE, !.snapshot = snapshot]
<1>1. /\ state' = [state EXCEPT !.step = "run_again", !.turn = turn, !.inProgress = TRUE]
      /\ \/ /\ ExceedsMaxTurns(turn) /\ pc' = "failing"
            /\ local' = [begun EXCEPT !.error = "maxTurns"]
         \/ /\ ~ExceedsMaxTurns(turn) /\ pc' \in {"blocking", "preparing"}
            /\ local' = begun
  BY DEF BeginTurn
<1>2. state'.step = "run_again" /\ state'.inProgress = TRUE /\ state'.turn = turn
  <2> HIDE DEF turn
  <2> QED BY <1>1 DEF StateType
<1>3. /\ \A l \in {begun, [begun EXCEPT !.error = "maxTurns"]} :
           /\ l.snapshot = snapshot /\ l.continuing = FALSE
           /\ l.deferred = local.deferred /\ l.next = local.next
           /\ l.unsaved = local.unsaved
      /\ [begun EXCEPT !.error = "maxTurns"].error = "maxTurns"
  <2> HIDE DEF snapshot
  <2> QED BY DEF LocalType
<1>4. snapshot.turn = state.turn /\ snapshot.taken /\ snapshot.inProgress = state.inProgress
  OBVIOUS
<1>5. /\ local'.snapshot = snapshot /\ local'.continuing = FALSE
      /\ local'.deferred = local.deferred /\ local'.next = local.next
      /\ local'.unsaved = local.unsaved
      /\ \/ ExceedsMaxTurns(turn) /\ pc' = "failing" /\ local'.error = "maxTurns"
         \/ ~ExceedsMaxTurns(turn) /\ pc' \in {"blocking", "preparing"}
  <2> HIDE DEF begun, snapshot, turn
  <2> QED BY <1>1, <1>3
<1> HIDE DEF snapshot, begun
<1> QED BY <1>2, <1>4, <1>5

(* A snapshot is taken by BeginTurn, and given up by the request and by the *)
(* catch.                                                                   *)
LEMMA LocalFields ==
  ASSUME TypeOK, [Next]_vars
  PROVE  /\ \/ local'.snapshot = local.snapshot \/ BeginTurn
            \/ local'.snapshot = NoSnapshot /\ (Run \/ CatchError \/ pc' = "model")
         /\ \/ local'.continuing = local.continuing \/ local'.continuing = FALSE
            \/ HandleInterruptedOutcome /\ pc' = "loop" /\ state'.step = "none"
         /\ \/ local'.deferred = local.deferred \/ Run \/ StartModelRequest
            \/ AdmittedInputSaved \/ CommitDeferredInput
         /\ local'.next = local.next \/ Run \/ ResolveInterruptedTurn
         /\ \/ local'.unsaved = local.unsaved \/ local'.unsaved = FALSE
            \/ CheckAbort /\ pc' = "failing" /\ local'.error = "abort"
            \/ HandleInterruptedOutcome /\ pc' = "failing" /\ local'.error = "abort"
<1> local \in LocalType /\ state \in StateType
  BY TypeParts
<1>1. CASE Run
  BY <1>1 DEF Run
<1>2. CASE BeginTurn
  BY <1>2, BeginTurnFields
<1>3. CASE BlockingGuardrailsFail \/ PrepareFails \/ GuardrailsStopRequest \/ ToolsFail
  BY <1>3, ThrowFields DEF BlockingGuardrailsFail, PrepareFails, GuardrailsStopRequest, ToolsFail
<1>4. CASE StartModelRequest
  <2>1. UNCHANGED local \/ Throw("abort") \/ RequestModel(TRUE) \/ RequestModel(FALSE)
    BY <1>4 DEF StartModelRequest
  <2>2. CASE Throw("abort")
    BY <2>2, ThrowFields
  <2> QED BY <1>4, <2>1, <2>2, RequestFields
<1>5. CASE AdmittedInputSaved
  <2>1. Throw("abort") \/ Throw("session") \/ RequestModel(FALSE)
    BY <1>5 DEF AdmittedInputSaved
  <2>2. CASE Throw("abort") \/ Throw("session")
    BY <2>2, ThrowFields
  <2> QED BY <1>5, <2>1, <2>2, RequestFields
<1>6. CASE CommitDeferredInput
  BY <1>6 DEF CommitDeferredInput, LocalType
<1>7. CASE ModelReturns
  BY <1>7, ThrowFields DEF ModelReturns
<1>8. CASE StartTools \/ ResolveTurn \/ CheckAbort \/ StartFinalization \/ FinalOutputRejected
  BY <1>8, ThrowFields, ThrowAbortFields
  DEF StartTools, ResolveTurn, CheckAbort, StartFinalization, FinalOutputRejected
<1>9. CASE ResolveInterruptedTurn
  BY <1>9, ThrowFields DEF ResolveInterruptedTurn, LocalType
<1>10. CASE HandleInterruptedOutcome
  <2>1. CASE Throw("session") \/ \E unsaved \in BOOLEAN : ThrowAbort(unsaved)
    BY <1>10, <2>1, ThrowFields, ThrowAbortFields
  <2>2. CASE pc' = "loop" /\ local.next = "run_again"
    BY <1>10, <2>2 DEF HandleInterruptedOutcome, ThrowAbort, ThrowAbort, Throw, StateType, LocalType
  <2>3. CASE local' = [local EXCEPT !.continuing = FALSE]
    BY <2>3 DEF LocalType
  <2>4. CASE UNCHANGED local
    BY <2>4, <1>10 DEF HandleInterruptedOutcome, ThrowAbort, ThrowAbort, Throw
  <2> QED BY <1>10, <2>1, <2>2, <2>3, <2>4 DEF HandleInterruptedOutcome
<1>11. CASE CatchError
  BY <1>11 DEF CatchError, LocalType
<1> QED
  BY Writers, <1>1, <1>2, <1>3, <1>4, <1>5, <1>6, <1>7, <1>8, <1>9, <1>10, <1>11

(* Only BeginTurn throws the error of the turn limit.                       *)
LEMMA ErrorThrown ==
  ASSUME TypeOK, [Next]_vars, pc' = "failing", local'.error = "maxTurns"
  PROVE  (pc = "failing" /\ UNCHANGED local) \/ BeginTurn \/ ModelReturns
<1>1. /\ \A error : Throw(error) => local'.error = error
      /\ \A unsaved : ThrowAbort(unsaved) => local'.error = "abort"
  BY ThrowFields, ThrowAbortFields
<1>2. CASE pc = "failing"
  BY <1>2, Writers, Entering, Leaving
  DEF Run, BlockingGuardrailsFail, PrepareFails, GuardrailsStopRequest, StartModelRequest,
      AdmittedInputSaved, CommitDeferredInput, StartTools, ToolsFail, ResolveTurn,
      ResolveInterruptedTurn, HandleInterruptedOutcome, CheckAbort, StartFinalization,
      FinalOutputRejected, CatchError
<1>3. CASE pc # "failing"
  <2>1. \/ BeginTurn \/ ModelReturns
        \/ \E error \in Errors \ {"maxTurns"} : Throw(error)
        \/ \E unsaved \in BOOLEAN : ThrowAbort(unsaved)
    BY <1>3, Writers
    DEF Run, BlockingGuardrailsPass, BlockingGuardrailsFail, PrepareFails,
        GuardrailsStopRequest, StartModelRequest, AdmittedInputSaved, StartTools,
        ResumeInterruptedTurn, ToolsFail, ResolveTurn, ResolveInterruptedTurn,
        HandleInterruptedOutcome, CheckAbort, RunAgain, TakeHandoff, ReturnInterruption,
        StartFinalization, FinalOutputAccepted, FinalOutputRejected, CatchError,
        Finally, RequestModel, Errors
  <2> QED BY <1>1, <2>1
<1> QED BY <1>2, <1>3

------------------------------------------------------------------------------
(* The inductive invariant, part by part.                                   *)

LEMMA InitInv == Init => IndInv
<1> SUFFICES ASSUME Init PROVE IndInv
  OBVIOUS
<1> USE Constants DEF Init
<1>1. TurnInv /\ GuardrailInv /\ UnsavedInv /\ RequestInv
  BY DEF TurnInv, NoSnapshot, GuardrailInv, GuardrailsPending, GuardrailsFailed, NoBatch,
         UnsavedInv, RequestInv, NoAnswer
<1>2. ToolsInv
  BY DEF ToolsInv, NoTools
<1>3. InputInv
  BY DEF InputInv, NoBatch
<1>4. CallsInv
  BY DEF CallsInv, Unanswered
<1>5. StepInv
  BY DEF StepInv, BeforeRequest
<1>6. SnapshotInv
  BY DEF SnapshotInv, WithinTurn, BeforeRequest, NoSnapshot
<1>7. CountInv
  BY DEF CountInv, CountedTurn, MayRequest, BeforeRequest, NoSnapshot, Turns
<1> QED BY InitType, <1>1, <1>2, <1>3, <1>4, <1>5, <1>6, <1>7 DEF IndInv

LEMMA NextRequest == TypeOK /\ RequestInv /\ [Next]_vars => RequestInv'
<1> SUFFICES ASSUME TypeOK, RequestInv, [Next]_vars PROVE RequestInv'
  OBVIOUS
<1>1. CASE UNCHANGED answer
  <2>1. pc = "model" => pc' = "model" \/ answer'.status = "none"
    BY <1>1, Entering, Leaving DEF ModelReturns, NoAnswer
  <2> QED BY <1>1, <2>1 DEF RequestInv
<1>2. CASE Run \/ ModelReturns
  BY <1>2 DEF Run, ModelReturns, NoAnswer, RequestInv
<1>3. CASE ModelAnswers
  BY <1>3 DEF ModelAnswers, LoopUnchanged, RequestInv
<1>4. CASE StartModelRequest \/ AdmittedInputSaved
  BY <1>4 DEF StartModelRequest, AdmittedInputSaved, RequestModel, RequestInv, Throw
<1> QED BY Writers, <1>1, <1>2, <1>3, <1>4

LEMMA NextTurn == TypeOK /\ TurnInv /\ [Next]_vars => TurnInv'
<1> SUFFICES ASSUME TypeOK, TurnInv, [Next]_vars PROVE TurnInv'
  OBVIOUS
<1> USE Constants
<1> local \in LocalType /\ state \in StateType /\ state' \in StateType
  BY TypeParts, StateNextType
<1>1. CASE BeginTurn
  <2>1. state.turn <= MaxTurns
    BY <1>1 DEF BeginTurn, TurnInv
  <2>2. state'.turn \in Nat /\ (pc' # "failing" => state'.turn <= MaxTurns)
    BY <1>1, BeginTurnFields DEF ExceedsMaxTurns, StateType, Turns
  <2> QED BY <1>1, <2>1, <2>2, BeginTurnFields DEF TurnInv
<1>2. CASE CatchError
  <2>1. RollbackUnstartedTurn.turn <= MaxTurns
    BY <1>2 DEF RollbackUnstartedTurn, TurnInv, StateType, LocalType, CatchError
  <2>2. state'.turn = RollbackUnstartedTurn.turn
    BY <1>2 DEF CatchError, RollbackUnstartedTurn, StateType
  <2>3. local'.snapshot = NoSnapshot
    BY <1>2 DEF CatchError, LocalType
  <2> QED BY <2>1, <2>2, <2>3 DEF TurnInv, NoSnapshot
<1>3. CASE ~BeginTurn /\ ~CatchError
  <2>1. state'.turn = state.turn
    BY <1>3, StateFields
  <2>2. CASE local'.snapshot = local.snapshot
    BY <1>3, <2>1, <2>2, Entering, Leaving DEF TurnInv
  <2>3. CASE local'.snapshot = NoSnapshot /\ (Run \/ pc' = "model")
    <3>1. pc # "failing"
      BY <1>3, <2>3, Entering, Leaving DEF Run
    <3> QED BY <2>1, <2>3, <3>1 DEF TurnInv, NoSnapshot
  <2> QED BY <1>3, <2>2, <2>3, LocalFields
<1> QED BY <1>1, <1>2, <1>3

LEMMA NextGuardrail ==
  TypeOK /\ GuardrailInv /\ UnsavedInv /\ [Next]_vars => GuardrailInv'
<1> SUFFICES ASSUME TypeOK, GuardrailInv, UnsavedInv, [Next]_vars PROVE GuardrailInv'
  OBVIOUS
<1> USE DEF GuardrailInv, GuardrailsPending, GuardrailsFailed
<1> batch \in BatchType /\ local \in LocalType
  BY TypeParts
<1> DEFINE Over == batch.status \in {"none", "passed"}
<1>1. CASE Run
  BY <1>1 DEF Run, NoBatch
<1>2. CASE GuardrailsPass \/ GuardrailErrorObserved \/ GuardrailsDrained
  BY <1>2 DEF GuardrailsPass, GuardrailErrorObserved, GuardrailsDrained, LoopUnchanged, BatchType
<1>3. CASE BeginTurn
  <2>1. pc' = "blocking" => batch'.status = "none"
    BY <1>3 DEF BeginTurn
  <2> QED BY <2>1, <1>3, BeginTurnFields
<1>4. CASE BlockingGuardrailsPass
  BY <1>4 DEF BlockingGuardrailsPass
<1>5. CASE UNCHANGED batch /\ ~Run
  <2>1. CASE UNCHANGED pc
    <3>1. CASE UNCHANGED outcome
      BY <1>5, <2>1, <3>1
    <3>2. CASE outcome' # outcome
      BY <1>5, <2>1, <3>2, Writers
      DEF HandleInterruptedOutcome, ReturnInterruption, FinalOutputAccepted,
          FinalOutputRejected, CatchError, Finally, ThrowAbort, Throw
    <3> QED BY <3>1, <3>2
  <2>2. CASE pc' # pc /\ CatchError
    <3>1. SurfacedError = "guardrail" \/ ~GuardrailsFailed
      BY DEF SurfacedError
    <3>2. SurfacedError = "maxTurns" => Over
      BY <2>2, <3>1 DEF CatchError, BatchType
    <3> QED BY <1>5, <2>2, <3>1, <3>2 DEF CatchError
  <2>3. CASE StartTools \/ StartModelRequest \/ ModelReturns
    BY <1>5, <2>3
    DEF StartTools, StartModelRequest, DeferAdmission, ModelReturns, RequestModel, Throw,
        BatchType
  <2>4. CASE pc' # pc /\ Finally
    <3>1. GuardrailsFailed => outcome' \in {"guardrail", "sandbox"}
      BY <2>4 DEF Finally, ResultUnsaved, UnsavedInv
    <3> QED BY <1>5, <2>4, <3>1 DEF Finally
  <2>5. CASE /\ pc' # pc /\ ~CatchError /\ ~Finally
             /\ ~(StartTools \/ StartModelRequest \/ ModelReturns)
    <3>1. CASE Over
      BY <1>5, <2>5, <3>1, Entering, Leaving DEF BeginTurn
    <3>2. CASE ~Over
      BY <1>5, <2>5, <3>2, Entering, Leaving
      DEF HandleInterruptedOutcome, ReturnInterruption, FinalOutputAccepted,
          FinalOutputRejected, RunAgain, TakeHandoff, ResumeInterruptedTurn, ResolveTurn,
          ResolveInterruptedTurn, CheckAbort, StartFinalization, BeginTurn,
          BlockingGuardrailsPass, AdmittedInputSaved, ThrowAbort, Throw, RequestModel
    <3> QED BY <3>1, <3>2
  <2> QED BY <2>1, <2>2, <2>3, <2>4, <2>5
<1> QED BY Writers, <1>1, <1>2, <1>3, <1>4, <1>5

LEMMA NextUnsaved ==
  TypeOK /\ GuardrailInv /\ UnsavedInv /\ [Next]_vars => UnsavedInv'
<1> SUFFICES ASSUME TypeOK, GuardrailInv, UnsavedInv, [Next]_vars, local'.unsaved
             PROVE  /\ pc' \in {"failing", "closing", "idle"}
                    /\ pc' = "failing" => local'.error = "abort"
                    /\ batch'.status \in {"none", "passed"}
  BY DEF UnsavedInv
<1> local \in LocalType
  BY TypeParts
<1>1. CASE /\ CheckAbort \/ HandleInterruptedOutcome
           /\ pc' = "failing" /\ local'.error = "abort"
  BY <1>1 DEF CheckAbort, HandleInterruptedOutcome, GuardrailInv
<1>2. CASE local.unsaved
  <2>1. ~Run
    BY DEF Run
  <2>2. UNCHANGED batch
    BY <1>2, <2>1, Writers
    DEF UnsavedInv, GuardrailsPass, GuardrailErrorObserved, GuardrailsDrained, BeginTurn,
        BlockingGuardrailsPass
  <2>3. CASE pc' = pc
    <3>1. pc = "failing" => UNCHANGED local
      BY <2>1, <2>3, Writers
      DEF BeginTurn, BlockingGuardrailsFail, PrepareFails, GuardrailsStopRequest,
          StartModelRequest, AdmittedInputSaved, CommitDeferredInput, ModelReturns, StartTools,
          ToolsFail, ResolveTurn, ResolveInterruptedTurn, HandleInterruptedOutcome, CheckAbort,
          StartFinalization, FinalOutputRejected, CatchError
    <3> QED BY <1>2, <2>2, <2>3, <3>1 DEF UnsavedInv
  <2>4. CASE pc' # pc
    <3>1. pc = "failing" => pc' = "closing"
      BY <1>2, <2>4, Leaving DEF CatchError, SurfacedError, UnsavedInv
    <3>2. pc = "closing" => pc' = "idle"
      BY <2>4, Leaving DEF Finally
    <3> QED BY <1>2, <2>1, <2>2, <2>4, <3>1, <3>2, Leaving DEF UnsavedInv
  <2> QED BY <2>3, <2>4
<1> QED BY <1>1, <1>2, LocalFields

LEMMA NextTools == TypeOK /\ ToolsInv /\ [Next]_vars => ToolsInv'
<1> SUFFICES ASSUME TypeOK, ToolsInv, [Next]_vars PROVE ToolsInv'
  OBVIOUS
<1> tools \in ToolsType
  BY TypeParts
<1>1. CASE UNCHANGED <<tools, pc>>
  <2>1. UNCHANGED state.outputs
    BY <1>1, StateFields DEF Resolves, ResolveTurn, ResolveInterruptedTurn, Throw
  <2> QED BY <1>1, <2>1 DEF ToolsInv
<1>2. CASE UNCHANGED tools /\ pc' # pc /\ pc \notin {"tools", "resuming"}
  BY <1>2 DEF ToolsInv
<1>3. CASE Run \/ ToolsFail \/ Resolves
  BY <1>3 DEF Run, ToolsFail, Resolves, ResolveTurn, ResolveInterruptedTurn, NoTools, ToolsInv
<1>4. ASSUME NEW c \in Calls, StartTool(c) \/ ToolReturns(c) PROVE ToolsInv'
  <2>1. tools[c] # "idle" /\ \A d \in Calls : d # c => tools'[d] = tools[d]
    BY <1>4, CallMoves DEF ToolsType
  <2> QED BY <1>4, <2>1 DEF StartTool, ToolReturns, LoopUnchanged, ToolsInv
<1>5. CASE StartTools \/ ResumeInterruptedTurn
  BY <1>5
  DEF StartTools, ResumeInterruptedTurn, Turn!Queue, CallsToRun, ResumableCalls, ToolsInv, Throw
<1> QED BY Writers, Entering, Leaving, <1>1, <1>2, <1>3, <1>4, <1>5 DEF Resolves

LEMMA NextStepInv == TypeOK /\ StepInv /\ [Next]_vars => StepInv'
<1> SUFFICES ASSUME TypeOK, StepInv, [Next]_vars PROVE StepInv'
  OBVIOUS
<1> state \in StateType /\ local \in LocalType
  BY TypeParts
<1>1. CASE BeginTurn
  BY <1>1, BeginTurnFields DEF StepInv, BeforeRequest
<1>2. CASE ResolveTurn
  <2>1. ~local'.continuing
    BY <1>2, LocalFields DEF ResolveTurn, StepInv
  <2> QED BY <1>2, <2>1, ThrowFields DEF ResolveTurn, StepInv, BeforeRequest, Throw
<1>3. CASE ResolveInterruptedTurn
  <2>1. ~local'.continuing
    BY <1>3, LocalFields DEF ResolveInterruptedTurn, StepInv, HandleInterruptedOutcome
  <2>2. CASE Throw("handoff")
    BY <2>1, <2>2, ThrowFields DEF StepInv, BeforeRequest
  <2>3. CASE pc' = "outcome"
    <3>1. local'.next = NextStep
      BY <1>3, <2>3 DEF ResolveInterruptedTurn, Throw, LocalType
    <3>2. NextStep = "handoff" => state'.step = "run_again" /\ ~state'.inProgress
      BY <1>3, <2>3 DEF ResolveInterruptedTurn, Throw, HandedOff, TurnApplied, StateType
    <3>3. NextStep # "handoff" => state'.step = NextStep
      <4> DEFINE next == NextStep
      <4> HIDE DEF next
      <4>1. TurnApplied(next, PendingApprovals).step = next
        BY DEF TurnApplied, StateType
      <4> QED BY <1>3, <2>3, <4>1 DEF ResolveInterruptedTurn, Throw, next
    <3> QED BY <2>1, <2>3, <3>1, <3>2, <3>3 DEF StepInv, BeforeRequest
  <2> QED BY <1>3, <2>2, <2>3 DEF ResolveInterruptedTurn
<1>4. CASE HandleInterruptedOutcome
  <2>1. ~local'.continuing \/ (pc' = "loop" /\ state'.step = "none")
    BY <1>4, LocalFields DEF HandleInterruptedOutcome, StepInv
  <2>2. pc' \in {"closing", "loop"} \/ (pc' = "failing" /\ local'.error # "maxTurns")
    BY <1>4, ThrowFields, ThrowAbortFields DEF HandleInterruptedOutcome
  <2> QED BY <2>1, <2>2 DEF StepInv, BeforeRequest
<1>5. CASE TakeHandoff
  BY <1>5 DEF TakeHandoff, StepInv, BeforeRequest
<1>6. CASE CatchError
  <2>1. ~local'.continuing
    BY <1>6, LocalFields DEF CatchError, StepInv
  <2>2. pc' = "closing" \/ (pc' = "finalizing" /\ state'.step = "final_output")
    BY <1>6 DEF CatchError, RollbackUnstartedTurn, StateType
  <2> QED BY <2>1, <2>2 DEF StepInv, BeforeRequest
<1>7. CASE ~(BeginTurn \/ Resolves \/ HandleInterruptedOutcome \/ TakeHandoff \/ CatchError)
  <2>1. state'.step = state.step
    BY <1>7, StateFields
  <2>2. local'.continuing => local.continuing
    BY <1>7, LocalFields
  <2>3. CASE UNCHANGED pc
    BY <2>1, <2>2, <2>3, <1>7, LocalFields, StateFields, ErrorThrown
    DEF StepInv, BeforeRequest, Run, RunAgain, FinalOutputAccepted, ModelReturns, Resolves
  <2>4. CASE pc' # pc
    <3>1. ~local'.continuing
      BY <2>2, <2>4, <1>7, Entering, Leaving DEF StepInv, ResumeInterruptedTurn, StartFinalization
    <3>2. pc' = "finalizing" => state.step = "final_output"
      BY <2>4, <1>7, Entering, Leaving DEF StartFinalization
    <3>3. pc' = "failing" /\ local'.error = "maxTurns" => state.step = "run_again"
      BY <2>4, <1>7, ErrorThrown DEF ModelReturns, StepInv
    <3>4. pc' = "resuming" => state.step = "interruption"
      BY <2>4, Entering, Leaving DEF ResumeInterruptedTurn
    <3>5. pc' \in {"blocking", "preparing", "admitting", "model", "checking", "tools"}
            => state.step = "run_again"
      BY <2>4, <1>7, Entering, Leaving
      DEF BlockingGuardrailsPass, StartModelRequest, AdmittedInputSaved, ModelReturns,
          StartTools, StepInv, BeforeRequest
    <3>6. pc' # "outcome"
      BY <2>4, <1>7, Entering, Leaving DEF Resolves
    <3> QED BY <2>1, <3>1, <3>2, <3>3, <3>4, <3>5, <3>6 DEF StepInv, BeforeRequest
  <2> QED BY <2>3, <2>4
<1> QED BY <1>1, <1>2, <1>3, <1>4, <1>5, <1>6, <1>7 DEF Resolves

LEMMA NextSnapshot ==
  TypeOK /\ TurnInv /\ StepInv /\ SnapshotInv /\ [Next]_vars => SnapshotInv'
<1> SUFFICES ASSUME TypeOK, TurnInv, StepInv, SnapshotInv, [Next]_vars PROVE SnapshotInv'
  OBVIOUS
<1> USE Constants
<1> state \in StateType /\ local \in LocalType /\ state' \in StateType
  BY TypeParts, StateNextType
<1> state.turn \in Nat /\ state'.turn \in Nat /\ local.snapshot.turn \in Nat
  BY DEF StateType, LocalType, Turns
<1>1. CASE BeginTurn
  <2>1. SameTurn => state.turn >= 1
    BY DEF SameTurn, SnapshotInv
  <2>2. state'.turn \in {state.turn, state.turn + 1} /\ state'.turn >= 1
    BY <1>1, <2>1, BeginTurnFields
  <2>3. state.inProgress => state.turn >= 1
    BY DEF SnapshotInv
  <2> QED BY <1>1, <2>2, <2>3, BeginTurnFields DEF SnapshotInv, WithinTurn, BeforeRequest
<1>2. CASE CatchError
  <2> DEFINE back == RollbackUnstartedTurn
  <2> SUFFICES ASSUME \/ state' = back
                      \/ state' = [back EXCEPT !.step = "final_output", !.response = NoResponse]
               PROVE  SnapshotInv'
    BY <1>2 DEF CatchError
  <2>1. local'.snapshot = NoSnapshot /\ ~local'.continuing
    BY <1>2, LocalFields DEF CatchError, LocalType, SnapshotInv, StepInv
  <2>2. CASE local.snapshot.taken
    <3>1. /\ state'.turn = local.snapshot.turn
          /\ state'.inProgress = local.snapshot.inProgress
          /\ state'.step \in {state.step, "final_output"}
      <4>1. /\ back.turn = local.snapshot.turn
            /\ back.inProgress = local.snapshot.inProgress
            /\ back.step = state.step
            /\ DOMAIN back = DOMAIN state
        BY <2>2 DEF RollbackUnstartedTurn, StateType
      <4> QED BY <4>1 DEF RollbackUnstartedTurn, StateType
    <3> QED
      BY <1>2, <2>1, <2>2, <3>1
      DEF CatchError, SnapshotInv, WithinTurn, BeforeRequest, NoSnapshot
  <2>3. CASE ~local.snapshot.taken
    <3>1. /\ state'.turn = state.turn /\ ~state'.inProgress
          /\ state'.step \in {state.step, "final_output"}
      <4>1. back.turn = state.turn /\ ~back.inProgress /\ back.step = state.step
        BY <2>3 DEF RollbackUnstartedTurn, StateType
      <4> QED BY <4>1 DEF RollbackUnstartedTurn, StateType
    <3> QED BY <1>2, <2>1, <3>1 DEF CatchError, SnapshotInv, WithinTurn, BeforeRequest, NoSnapshot
  <2> QED BY <2>2, <2>3
<1>3. CASE ~BeginTurn /\ ~CatchError
  <2>1. state'.turn = state.turn
    BY <1>3, StateFields
  <2>2. \/ local'.snapshot = local.snapshot
        \/ local'.snapshot = NoSnapshot /\ ~BeforeRequest'
    BY <1>3, LocalFields DEF Run, BeforeRequest
  <2>3. BeforeRequest' => BeforeRequest
    BY <1>3, Entering DEF BeforeRequest, BlockingGuardrailsPass, StartModelRequest
  <2>4. ASSUME local'.snapshot.taken
        PROVE  /\ BeforeRequest' \/ pc' = "failing"
               /\ state'.step = "run_again"
    <3>1. local'.snapshot = local.snapshot /\ local.snapshot.taken
      BY <2>2, <2>4 DEF NoSnapshot
    <3>2. BeforeRequest \/ pc = "failing"
      BY <3>1 DEF SnapshotInv
    <3>3. pc' # "model"
      BY <2>4, <3>2, SnapshotGivenUp DEF NoSnapshot, BeforeRequest
    <3>4. state'.step = state.step
      BY <1>3, <3>2, StateFields
      DEF BeforeRequest, Resolves, ResolveTurn, ResolveInterruptedTurn,
          HandleInterruptedOutcome, TakeHandoff
    <3> QED BY <1>3, <3>1, <3>2, <3>3, <3>4, Leaving DEF BeforeRequest, SnapshotInv
  <2>5. WithinTurn' => WithinTurn \/ state.step = "interruption"
    BY <1>3, Entering
    DEF WithinTurn, BeforeRequest, BlockingGuardrailsPass, StartModelRequest,
        AdmittedInputSaved, ModelReturns, StartTools, ResumeInterruptedTurn, ResolveTurn,
        ResolveInterruptedTurn
  <2>6. state'.inProgress => state.inProgress \/ WithinTurn
    BY <1>3, StateFields
    DEF ResolveInterruptedTurn, RunAgain, TakeHandoff, HandedOff, FinalOutputAccepted,
        StateType, WithinTurn
  <2>7. local'.continuing => local.continuing \/ WithinTurn
    BY LocalFields DEF HandleInterruptedOutcome, WithinTurn
  <2>8. state'.step = "interruption" => state.step = "interruption" \/ WithinTurn
    BY <1>3, StateFields
    DEF Resolves, ResolveTurn, ResolveInterruptedTurn, HandleInterruptedOutcome, TakeHandoff,
        HandedOff, StateType, WithinTurn
  <2> QED BY <2>1, <2>2, <2>3, <2>4, <2>5, <2>6, <2>7, <2>8 DEF SnapshotInv, NoSnapshot
<1> QED BY <1>1, <1>2, <1>3

(* How the input moves: it is staged, and then committed as a whole.        *)
LEMMA InputMoves ==
  ASSUME TypeOK, [Next]_vars
  PROVE  \/ UNCHANGED state.pendingInput /\ UNCHANGED history.admitted
            /\ UNCHANGED history.staged
         \/ /\ AddInput
            /\ state'.pendingInput = state.pendingInput \cup {history.staged + 1}
            /\ UNCHANGED history.admitted
            /\ history'.staged = history.staged + 1
         \/ /\ (StartModelRequest /\ pc' = "admitting") \/ CommitDeferredInput
            /\ state'.pendingInput = {}
            /\ history'.admitted = history.admitted \cup state.pendingInput
            /\ UNCHANGED history.staged
<1> state \in StateType /\ history \in HistoryType
  BY TypeParts
<1>1. CASE AddInput
  BY <1>1 DEF AddInput, StateType, HistoryType
<1>2. CASE StartModelRequest
  BY <1>2
  DEF StartModelRequest, StateWithInput, HistoryWithInput, CountRequest, Throw, RequestModel,
      StateType, HistoryType
<1>3. CASE CommitDeferredInput
  BY <1>3 DEF CommitDeferredInput, StateWithInput, HistoryWithInput, StateType, HistoryType
<1>4. CASE ~AddInput /\ ~StartModelRequest /\ ~CommitDeferredInput
  <2>1. UNCHANGED history.admitted /\ UNCHANGED history.staged
    BY <1>4, Writers
    DEF Run, GuardrailsPass, BlockingGuardrailsPass, AdmittedInputSaved, CountRequest,
        HandleInterruptedOutcome, HistoryType
  <2> QED BY <1>4, <2>1, StateFields
<1> QED BY <1>1, <1>2, <1>3, <1>4

LEMMA GuardedGrows ==
  ASSUME TypeOK, [Next]_vars
  PROVE  history.guarded \subseteq history'.guarded
<1> history \in HistoryType
  BY TypeParts
<1> QED
  BY Writers
  DEF Run, AddInput, GuardrailsPass, BlockingGuardrailsPass, StartModelRequest,
      AdmittedInputSaved, CountRequest, CommitDeferredInput, HistoryWithInput,
      HandleInterruptedOutcome, HistoryType

(* The guardrails of a turn that begins with staged input judge that.       *)
LEMMA BeginTurnBatch ==
  ASSUME TypeOK, BeginTurn, state.pendingInput # {}
  PROVE  /\ pc' = "blocking" => batch' = [status |-> "none", covers |-> state.pendingInput]
         /\ pc' = "preparing" => /\ batch' = ParallelBatch(state.pendingInput)
                                 /\ "blocking" \notin Guardrails
<1> DEFINE turn == IF SameTurn THEN state.turn ELSE state.turn + 1
<1>1. /\ pc' = "blocking" => batch' = [status |-> "none", covers |-> InputToGuard(turn)]
      /\ pc' = "preparing" => /\ batch' = ParallelBatch(InputToGuard(turn))
                              /\ InputToGuard(turn) = {} \/ "blocking" \notin Guardrails
  BY DEF BeginTurn
<1>2. InputToGuard(turn) = state.pendingInput
  BY DEF InputToGuard
<1> HIDE DEF turn
<1> QED BY <1>1, <1>2, Zenon

LEMMA BeginTurnStatus ==
  ASSUME BeginTurn PROVE batch'.status # "passed"
BY DEF BeginTurn, ParallelBatch, NoBatch

LEMMA BatchKept ==
  ASSUME TypeOK, [Next]_vars, ~Run, ~BeginTurn, ~BlockingGuardrailsPass
  PROVE  /\ batch'.covers = batch.covers
         /\ batch'.status = "none" <=> batch.status = "none"
BY Writers, TypeParts
DEF GuardrailsPass, GuardrailErrorObserved, GuardrailsDrained, BatchType

LEMMA NextInput ==
  TypeOK /\ GuardrailInv /\ RequestInv /\ InputInv /\ [Next]_vars => InputInv'
<1> SUFFICES ASSUME TypeOK, GuardrailInv, InputInv, [Next]_vars PROVE InputInv'
  OBVIOUS
<1> USE Constants
<1> /\ state \in StateType /\ history \in HistoryType /\ batch \in BatchType
    /\ local \in LocalType
  BY TypeParts
<1> history.staged \in Nat
  BY DEF HistoryType, Inputs
<1>1. /\ history'.admitted \cap state'.pendingInput = {}
      /\ 1 .. history'.staged = history'.admitted \cup state'.pendingInput
  BY InputMoves DEF InputInv
<1>2. batch'.status = "passed" => batch'.covers \subseteq history'.guarded
  <2>1. CASE GuardrailsPass
    BY <2>1 DEF GuardrailsPass, BatchType, HistoryType
  <2>2. CASE ~GuardrailsPass
    <3>1. \A input : ParallelBatch(input).status # "passed"
      BY DEF ParallelBatch, NoBatch
    <3>2. BeginTurn => batch'.status # "passed"
      BY BeginTurnStatus
    <3>3. BlockingGuardrailsPass => batch'.status # "passed"
      BY <3>1 DEF BlockingGuardrailsPass
    <3>4. Run \/ GuardrailErrorObserved \/ GuardrailsDrained => batch'.status # "passed"
      BY DEF Run, GuardrailErrorObserved, GuardrailsDrained, NoBatch, BatchType
    <3>5. batch'.status = "passed" => UNCHANGED batch
      BY <2>2, <3>2, <3>3, <3>4, Writers
    <3> QED BY <3>5, GuardedGrows DEF InputInv
  <2> QED BY <2>1, <2>2
<1>3. ASSUME Guardrails # {} PROVE history'.admitted \subseteq history'.guarded
  <2>1. CASE StartModelRequest /\ pc' = "admitting"
    <3>1. batch.status \in {"none", "passed"} /\ pc = "preparing"
      BY <2>1
      DEF StartModelRequest, DeferAdmission, GuardrailsPending, GuardrailsFailed, Throw,
          RequestModel, BatchType
    <3>2. state.pendingInput \subseteq history.guarded
      BY <1>3, <3>1 DEF InputInv, CoversPending
    <3> QED BY <1>3, <3>2, InputMoves, GuardedGrows DEF InputInv
  <2>2. CASE CommitDeferredInput
    <3>1. state.pendingInput \subseteq history.guarded
      BY <2>2 DEF CommitDeferredInput, InputInv, CoversPending
    <3> QED BY <1>3, <3>1, InputMoves, GuardedGrows DEF InputInv
  <2> QED BY <1>3, <2>1, <2>2, InputMoves, GuardedGrows DEF InputInv
<1>4. pc' \in {"blocking", "preparing"} => UNCHANGED state.pendingInput
  BY InputMoves DEF AddInput, CommitDeferredInput
<1>5. ASSUME Guardrails # {}, pc' = "blocking", state'.pendingInput # {}
      PROVE  CoversPending'
  <2>1. CASE BeginTurn
    BY <1>4, <1>5, <2>1, BeginTurnBatch DEF CoversPending
  <2>2. CASE ~BeginTurn
    BY <1>4, <1>5, <2>2, Entering, BatchKept
    DEF CoversPending, InputInv, Run, BlockingGuardrailsPass
  <2> QED BY <2>1, <2>2
<1>6. ASSUME Guardrails # {}, pc' = "preparing", batch'.status = "none"
      PROVE  state'.pendingInput \subseteq history'.guarded
  <2>1. CASE BeginTurn
    <3>1. CASE state.pendingInput # {}
      <4>1. batch' = ParallelBatch(state.pendingInput) /\ "blocking" \notin Guardrails
        BY <1>6, <2>1, <3>1, BeginTurnBatch
      <4>2. "parallel" \notin Guardrails
        BY <1>6, <3>1, <4>1 DEF ParallelBatch
      <4> QED BY <1>6, <4>1, <4>2
    <3> QED BY <1>4, <1>6, <3>1
  <2>2. CASE BlockingGuardrailsPass
    <3>1. "parallel" \notin Guardrails \/ batch.covers = {}
      BY <1>6, <2>2 DEF BlockingGuardrailsPass, ParallelBatch
    <3>2. batch.covers \subseteq history'.guarded
      BY <2>2, <3>1 DEF BlockingGuardrailsPass, HistoryType
    <3> QED BY <1>4, <1>6, <2>2, <3>2 DEF BlockingGuardrailsPass, InputInv, CoversPending
  <2>3. CASE ~BeginTurn /\ ~BlockingGuardrailsPass
    BY <1>4, <1>6, <2>3, Entering, BatchKept, GuardedGrows DEF InputInv, Run
  <2> QED BY <2>1, <2>2, <2>3
<1>7. ASSUME pc' = "preparing", state'.pendingInput # {}, batch'.status # "none"
      PROVE  CoversPending'
  <2>1. CASE BeginTurn
    <3>1. batch' = ParallelBatch(state.pendingInput)
      BY <1>4, <1>7, <2>1, BeginTurnBatch
    <3> QED BY <1>4, <1>7, <3>1 DEF ParallelBatch, NoBatch, CoversPending
  <2>2. CASE BlockingGuardrailsPass
    <3>1. batch'.covers = batch.covers /\ "parallel" \in Guardrails
      BY <1>7, <2>2 DEF BlockingGuardrailsPass, ParallelBatch, NoBatch
    <3> QED BY <1>4, <1>7, <2>2, <3>1 DEF BlockingGuardrailsPass, InputInv, CoversPending
  <2>3. CASE ~BeginTurn /\ ~BlockingGuardrailsPass
    BY <1>4, <1>7, <2>3, Entering, BatchKept DEF InputInv, CoversPending, Run
  <2> QED BY <2>1, <2>2, <2>3
<1>8. ASSUME pc' = "model", local'.deferred
      PROVE  batch'.status # "none" /\ CoversPending'
  <2>1. batch'.covers = batch.covers /\ (batch'.status = "none" <=> batch.status = "none")
    BY <1>8, BatchKept DEF Run, BeginTurn, BlockingGuardrailsPass
  <2>2. CASE pc = "model"
    <3>1. local.deferred /\ ~CommitDeferredInput
      BY <1>8, <2>2, LocalFields
      DEF Run, StartModelRequest, AdmittedInputSaved, CommitDeferredInput, LocalType
    <3>2. UNCHANGED state.pendingInput
      BY <2>2, <3>1, InputMoves DEF AddInput, StartModelRequest
    <3> QED BY <2>1, <2>2, <3>1, <3>2 DEF InputInv, CoversPending
  <2>3. CASE pc # "model"
    <3>1. CASE StartModelRequest
      <4>1. state.pendingInput # {} /\ GuardrailsPending /\ UNCHANGED state
        BY <1>8, <3>1
        DEF StartModelRequest, DeferAdmission, RequestModel, Throw, LocalType
      <4> QED BY <2>1, <3>1, <4>1
              DEF StartModelRequest, GuardrailsPending, InputInv, CoversPending
    <3>2. CASE AdmittedInputSaved
      BY <1>8, <3>2 DEF AdmittedInputSaved, RequestModel, Throw, LocalType
    <3> QED BY <1>8, <2>3, <3>1, <3>2, Entering
  <2> QED BY <2>2, <2>3
<1> QED BY <1>1, <1>2, <1>3, <1>5, <1>6, <1>7, <1>8 DEF InputInv

(* What resolving a turn does to the calls of the history.                  *)
LEMMA AppliedFields ==
  ASSUME TypeOK, NEW next, NEW approvals
  PROVE  LET s == TurnApplied(next, approvals)
         IN  /\ s.called = state.called \cup state.response.calls
             /\ s.outputs = state.outputs \cup ToolsIn("output") \cup ToolsIn("aborted")
             /\ s.approvals = approvals
             /\ s.response.calls = state.response.calls
             /\ s.step = next
<1> state \in StateType
  BY TypeParts
<1> QED BY DEF TurnApplied, StateType, Responses

LEMMA NextCalls ==
  TypeOK /\ ToolsInv /\ StepInv /\ CallsInv /\ [Next]_vars => CallsInv'
<1> SUFFICES ASSUME TypeOK, ToolsInv, StepInv, CallsInv, [Next]_vars PROVE CallsInv'
  OBVIOUS
<1> state \in StateType /\ tools \in ToolsType /\ local \in LocalType
  BY TypeParts
<1> state.response.calls \subseteq Calls /\ ResumableCalls \subseteq Calls
  BY DEF StateType, Responses, ResumableCalls
<1>1. CASE ResolveTurn
  <2>1. CASE UNCHANGED state
    BY <1>1, <2>1 DEF ResolveTurn, CallsInv, StepInv, Unanswered, WaitingForApproval, Throw
  <2>2. CASE pc' = "applied"
    <3> DEFINE next      == NextStep
               approvals == state.approvals \cup ToolsIn("approval")
    <3>1. state' = TurnApplied(next, approvals)
      BY <1>1, <2>2 DEF ResolveTurn, Throw
    <3>2. next = "interruption" \/ ToolsIn("approval") = {}
      BY DEF NextStep
    <3> HIDE DEF next, approvals
    <3>3. /\ state'.called = state.called \cup state.response.calls
          /\ state'.outputs = state.outputs \cup ToolsIn("output") \cup ToolsIn("aborted")
          /\ state'.approvals = approvals
          /\ state'.response.calls = state.response.calls
          /\ state'.step = next
      BY <3>1, AppliedFields
    <3>4. Unanswered = {}
      BY <1>1 DEF ResolveTurn, CallsInv, StepInv
    <3>5. ASSUME NEW c \in state.response.calls, c \notin state.outputs
          PROVE  tools[c] \in {"output", "aborted", "approval"}
      <4>1. tools[c] # "idle"
        BY <1>1, <3>5 DEF ResolveTurn, CallsInv, CallsToRun
      <4> QED BY <1>1, <4>1 DEF ResolveTurn, Turn!MayContinue, ToolsType
    <3>6. Unanswered' \subseteq ToolsIn("approval") \cap state.response.calls
      BY <3>3, <3>4, <3>5 DEF Unanswered, ToolsIn
    <3> QED BY <2>2, <3>2, <3>3, <3>6 DEF CallsInv, WaitingForApproval, approvals
  <2> QED BY <1>1, <2>1, <2>2 DEF ResolveTurn
<1>2. CASE ResolveInterruptedTurn
  <2>1. CASE UNCHANGED state
    BY <1>2, <2>1
    DEF ResolveInterruptedTurn, CallsInv, StepInv, Unanswered, WaitingForApproval, Throw
  <2>2. CASE pc' = "outcome"
    <3> DEFINE next == NextStep
               applied == TurnApplied(next, PendingApprovals)
    <3>1. IF next = "handoff"
          THEN state' = HandedOff([applied EXCEPT !.response = NoResponse])
          ELSE state' = applied
      BY <1>2, <2>2 DEF ResolveInterruptedTurn, Throw
    <3>2. next = "interruption" \/ ToolsIn("approval") = {}
      BY DEF NextStep
    <3> HIDE DEF next
    <3>3. /\ applied.called = state.called \cup state.response.calls
          /\ applied.outputs = state.outputs \cup ToolsIn("output") \cup ToolsIn("aborted")
          /\ applied.approvals = PendingApprovals
          /\ applied.response.calls = state.response.calls
          /\ applied.step = next
      BY AppliedFields
    <3>4. /\ HandedOff([applied EXCEPT !.response = NoResponse]).called = applied.called
          /\ HandedOff([applied EXCEPT !.response = NoResponse]).outputs = applied.outputs
          /\ HandedOff([applied EXCEPT !.response = NoResponse]).step = "run_again"
      BY DEF HandedOff, TurnApplied, StateType
    <3>5. state.step = "interruption"
      BY <1>2 DEF ResolveInterruptedTurn, StepInv
    <3>6. ASSUME NEW c \in Unanswered
          PROVE  /\ c \in ResumableCalls
                 /\ tools[c] \in {"output", "aborted", "approval"}
                 /\ tools[c] = "approval" => c \in PendingApprovals
      <4>1. c \in ResumableCalls
        BY <3>5, <3>6 DEF CallsInv, WaitingForApproval, Unanswered, ResumableCalls
      <4>2. tools[c] # "idle"
        BY <1>2, <4>1 DEF ResolveInterruptedTurn, CallsInv
      <4>3. tools[c] \in {"output", "aborted", "approval"}
        BY <1>2, <4>1, <4>2
        DEF ResolveInterruptedTurn, ResumableCalls, Turn!MayContinue, ToolsType
      <4>4. tools[c] = "approval" => c \in PendingApprovals
        BY <1>2, <4>1
        DEF ResolveInterruptedTurn, CallsInv, ToolsIn, PendingApprovals, ResumableCalls
      <4> QED BY <4>1, <4>3, <4>4
    <3>7. state.called \cup state.response.calls = state.called
      BY <3>5 DEF CallsInv
    <3>8. ASSUME NEW c \in state.called \cup state.response.calls,
                 c \notin state.outputs \cup ToolsIn("output") \cup ToolsIn("aborted")
          PROVE  c \in ToolsIn("approval") \cap PendingApprovals \cap state.response.calls
      BY <3>6, <3>7, <3>8 DEF Unanswered, ToolsIn, ResumableCalls
    <3>9. CASE next = "handoff"
      <4>1. Unanswered' = {} /\ state'.step = "run_again"
        BY <3>1, <3>2, <3>3, <3>4, <3>8, <3>9 DEF Unanswered
      <4> QED BY <2>2, <4>1 DEF CallsInv
    <3>10. CASE next # "handoff"
      <4>1. Unanswered' \subseteq ToolsIn("approval") \cap state'.approvals
                                     \cap state'.response.calls
        BY <3>1, <3>3, <3>8, <3>10 DEF Unanswered
      <4> QED BY <2>2, <3>1, <3>2, <3>3, <3>10, <4>1 DEF CallsInv, WaitingForApproval
    <3> QED BY <3>9, <3>10
  <2> QED BY <1>2, <2>1, <2>2 DEF ResolveInterruptedTurn
<1>3. CASE ~Resolves
  <2>1. UNCHANGED <<state.called, state.outputs, state.approvals>>
    BY <1>3, StateFields
  <2>2. ASSUME state'.step = "interruption"
        PROVE  state.step = "interruption" /\ UNCHANGED state.response
    <3>1. state'.step = state.step
      BY <1>3, <2>2, StateFields, BeginTurnFields
      DEF HandleInterruptedOutcome, TakeHandoff, HandedOff, CatchError, RollbackUnstartedTurn,
          StateType
    <3>2. CASE ModelReturns
      BY <2>2, <3>1, <3>2 DEF ModelReturns, StepInv
    <3>3. CASE CatchError
      BY <2>2, <3>3 DEF CatchError, RollbackUnstartedTurn, StateType
    <3> QED BY <1>3, <2>2, <3>1, <3>2, <3>3, StateFields
  <2>3. ASSUME state'.step # "interruption" PROVE Unanswered' = {}
    <3>1. state.step # "interruption"
      <4>1. CASE HandleInterruptedOutcome
        BY <2>3, <4>1 DEF HandleInterruptedOutcome, StepInv, StateType
      <4>2. CASE CatchError
        <5>1. SurfacedError = "maxTurns" => state.step = "run_again"
          BY <4>2 DEF CatchError, SurfacedError, StepInv
        <5> QED BY <2>3, <4>2, <5>1 DEF CatchError, RollbackUnstartedTurn, StateType
      <4> QED BY <1>3, <2>3, <4>1, <4>2, StateFields DEF BeginTurn, TakeHandoff
    <3>2. Unanswered = {}
      BY <3>1 DEF CallsInv, StateType
    <3> QED BY <2>1, <3>2 DEF Unanswered
  <2>4. state'.step = "interruption" => /\ Unanswered' \subseteq WaitingForApproval'
                                       /\ state'.response.calls \subseteq state'.called
    BY <2>1, <2>2 DEF CallsInv, Unanswered, WaitingForApproval
  <2>5. ASSUME pc' = pc, pc \in {"tools", "resuming"}
        PROVE  UNCHANGED <<state, decisions>>
    BY <1>3, <2>5, Writers
    DEF AddInput, BeginTurn, StartModelRequest, CommitDeferredInput, ModelReturns, Resolves,
        HandleInterruptedOutcome, RunAgain, TakeHandoff, FinalOutputAccepted, CatchError, Decide
  <2>6. ASSUME pc' = pc, pc \in {"tools", "resuming"}, NEW c \in Calls
        PROVE  /\ tools[c] # "idle" => tools'[c] # "idle"
               /\ tools'[c] = "approval" => tools[c] = "approval" \/ decisions[c] = "none"
    BY <1>3, <2>6, Writers, CallMoves
    DEF Run, StartTools, ResumeInterruptedTurn, ToolsFail, Throw,
        Resolves, ToolsType
  <2>7. pc' = "tools" => \A c \in CallsToRun' : tools'[c] # "idle"
    <3>1. CASE pc' = pc
      BY <2>5, <2>6, <3>1 DEF CallsInv, CallsToRun
    <3>2. CASE pc' # pc /\ pc' = "tools"
      BY <3>2, Entering DEF StartTools, Turn!Queue, CallsToRun, Throw
    <3> QED BY <3>1, <3>2
  <2>8. pc' = "resuming" => /\ \A c \in ResumableCalls' : tools'[c] # "idle"
                           /\ \A c \in ToolsIn("approval")' : decisions'[c] = "none"
    <3>1. CASE pc' = pc
      BY <2>5, <2>6, <3>1 DEF CallsInv, ResumableCalls, ToolsIn
    <3>2. CASE pc' # pc /\ pc' = "resuming"
      BY <3>2, Entering DEF ResumeInterruptedTurn, Turn!Queue, ResumableCalls, ToolsIn
    <3> QED BY <3>1, <3>2
  <2> QED BY <2>3, <2>4, <2>7, <2>8 DEF CallsInv
<1> QED BY <1>1, <1>2, <1>3 DEF Resolves

(* The counts move with a request and with the rerun of a turn.             *)
CountsRequest ==
  /\ pc \in {"preparing", "admitting"} /\ pc' = "model"
  /\ \A t \in Turns :
       /\ history'.requests[t] = history.requests[t] + (IF t = state.turn THEN 1 ELSE 0)
       /\ history'.reruns[t] = history.reruns[t]

CountsRerun ==
  /\ HandleInterruptedOutcome /\ pc' = "loop" /\ local.next = "run_again"
  /\ \A t \in Turns :
       /\ history'.requests[t] = history.requests[t]
       /\ history'.reruns[t] = history.reruns[t] + (IF t = state.turn THEN 1 ELSE 0)

CountsKept ==
  /\ \A t \in Turns : /\ history'.requests[t] = history.requests[t]
                      /\ history'.reruns[t] = history.reruns[t]
  /\ ~(pc' = "model" /\ pc # "model")
  /\ ~(HandleInterruptedOutcome /\ pc' = "loop" /\ local.next = "run_again")

LEMMA CountFields ==
  ASSUME TypeOK, [Next]_vars
  PROVE  CountsRequest \/ CountsRerun \/ CountsKept
<1> history \in HistoryType /\ state.turn \in Turns
  BY TypeParts DEF StateType
<1>1. \A t \in Turns : history.requests[t] \in Nat /\ history.reruns[t] \in Nat
  BY DEF HistoryType
<1>2. CASE StartModelRequest \/ AdmittedInputSaved
  <2>1. CASE history' = CountRequest /\ pc' = "model"
    <3>1. /\ history'.requests = [history.requests EXCEPT ![state.turn] = @ + 1]
          /\ history'.reruns = history.reruns
      BY <2>1 DEF CountRequest, HistoryType
    <3>2. \A t \in Turns :
            /\ history'.requests[t] = history.requests[t] + (IF t = state.turn THEN 1 ELSE 0)
            /\ history'.reruns[t] = history.reruns[t]
      BY <1>1, <3>1 DEF HistoryType
    <3> QED BY <1>2, <2>1, <3>2 DEF StartModelRequest, AdmittedInputSaved, CountsRequest
  <2>2. CASE UNCHANGED history \/ history' = HistoryWithInput
    <3>1. history'.requests = history.requests /\ history'.reruns = history.reruns
      BY <2>2 DEF HistoryWithInput, HistoryType
    <3>2. history' # CountRequest
      <4>1. CountRequest.requests[state.turn] = history.requests[state.turn] + 1
        BY DEF CountRequest, HistoryType
      <4> QED BY <1>1, <3>1, <4>1
    <3>3. pc' # "model"
      BY <1>2, <3>2 DEF StartModelRequest, AdmittedInputSaved, Throw
    <3> QED BY <1>2, <3>1, <3>3
            DEF CountsKept, StartModelRequest, AdmittedInputSaved, HandleInterruptedOutcome
  <2> QED BY <1>2, <2>1, <2>2 DEF StartModelRequest, AdmittedInputSaved, RequestModel
<1>3. CASE HandleInterruptedOutcome
  <2>1. CASE pc' = "loop" /\ local.next = "run_again"
    <3>1. /\ history'.reruns = [history.reruns EXCEPT ![state.turn] = @ + 1]
          /\ history'.requests = history.requests
      BY <1>3, <2>1 DEF HandleInterruptedOutcome, ThrowAbort, Throw, HistoryType
    <3> QED BY <1>1, <1>3, <2>1, <3>1 DEF CountsRerun, HistoryType
  <2>2. CASE ~(pc' = "loop" /\ local.next = "run_again")
    BY <1>3, <2>2 DEF HandleInterruptedOutcome, ThrowAbort, Throw, CountsKept
  <2> QED BY <2>1, <2>2
<1>4. CASE ~StartModelRequest /\ ~AdmittedInputSaved /\ ~HandleInterruptedOutcome
  <2>1. history'.requests = history.requests /\ history'.reruns = history.reruns
    BY <1>4, Writers
    DEF Run, AddInput, GuardrailsPass, BlockingGuardrailsPass, CommitDeferredInput,
        HistoryWithInput, HistoryType
  <2> QED BY <1>4, <2>1, Entering DEF CountsKept
<1> QED BY <1>2, <1>3, <1>4

LEMMA NextCount ==
  TypeOK /\ TurnInv /\ StepInv /\ SnapshotInv /\ CountInv /\ [Next]_vars => CountInv'
<1> SUFFICES ASSUME TypeOK, TurnInv, StepInv, SnapshotInv, CountInv, [Next]_vars
             PROVE  CountInv'
  OBVIOUS
<1> USE Constants
<1> /\ state \in StateType /\ local \in LocalType /\ history \in HistoryType
    /\ state' \in StateType /\ local' \in LocalType /\ history' \in HistoryType
  BY TypeParts, StateNextType, LocalNextType, HistoryNextType
<1> /\ state.turn \in Turns /\ local.snapshot.turn \in Turns
    /\ \A t \in Turns : history.requests[t] \in Nat /\ history.reruns[t] \in Nat
  <2>1. state.turn \in Turns
    BY DEF StateType
  <2>2. local.snapshot.turn \in Turns
    BY DEF LocalType
  <2> QED BY <2>1, <2>2 DEF HistoryType
<1>0. state.turn \in Nat /\ local.snapshot.turn \in Nat
  BY DEF Turns
<1>1. CASE CountsRequest
  <2>1. local'.snapshot = NoSnapshot /\ state'.turn = state.turn
    BY <1>1, SnapshotGivenUp, StateFields DEF CountsRequest, BeginTurn, CatchError
  <2>2. /\ state.turn \in {local.snapshot.turn, local.snapshot.turn + 1}
        /\ state.turn >= 1 /\ local.snapshot.taken /\ MayRequest(history, state.turn)
    BY <1>1 DEF CountsRequest, BeforeRequest, WithinTurn, SnapshotInv, CountInv
  <2>3. \A t \in Turns : (t \in 1 .. state.turn) <=> history'.requests[t] > 0
    BY <1>0, <1>1, <2>2 DEF CountsRequest, CountInv, CountedTurn
  <2>4. \A t \in Turns : history'.requests[t] <= 1 + history'.reruns[t]
    BY <1>0, <1>1, <2>2 DEF CountsRequest, CountInv, MayRequest
  <2> QED BY <1>1, <2>1, <2>3, <2>4
          DEF CountsRequest, CountInv, CountedTurn, BeforeRequest, NoSnapshot
<1>2. CASE CountsRerun
  <2>1. ~local.snapshot.taken /\ ~local'.snapshot.taken /\ state'.turn = state.turn
    BY <1>2, LocalFields, StateFields
    DEF CountsRerun, HandleInterruptedOutcome, SnapshotInv, BeforeRequest, Run, BeginTurn,
        CatchError
  <2>2. \A t \in Turns : history'.requests[t] <= 1 + history'.reruns[t]
    BY <1>2 DEF CountsRerun, CountInv
  <2>3. history'.requests[state.turn] <= history'.reruns[state.turn]
    BY <1>2 DEF CountsRerun, CountInv
  <2> QED BY <1>2, <2>1, <2>2, <2>3
          DEF CountsRerun, CountInv, CountedTurn, BeforeRequest, MayRequest
<1>3. CASE CountsKept
  <2> USE <1>3 DEF CountsKept
  <2>1. CountedTurn' = CountedTurn
    <3>1. CASE BeginTurn
      BY <3>1, BeginTurnFields DEF BeginTurn, CountedTurn, SnapshotInv, BeforeRequest
    <3>2. CASE CatchError
      <4>1. ~local'.snapshot.taken
        BY <3>2 DEF CatchError, NoSnapshot, LocalType
      <4>2. state'.turn = CountedTurn
        BY <3>2 DEF CatchError, RollbackUnstartedTurn, CountedTurn, StateType
      <4> QED BY <4>1, <4>2 DEF CountedTurn
    <3>3. CASE ~BeginTurn /\ ~CatchError
      <4>1. local'.snapshot = local.snapshot
            \/ (local'.snapshot = NoSnapshot /\ ~local.snapshot.taken)
        BY <1>3, <3>3, LocalFields DEF Run, SnapshotInv, BeforeRequest
      <4> QED BY <3>3, <4>1, StateFields DEF CountedTurn, NoSnapshot
    <3> QED BY <3>1, <3>2, <3>3
  <2>2. ASSUME BeforeRequest' PROVE MayRequest(history', state'.turn)
    <3>1. CASE BeginTurn /\ SameTurn
      <4>1. MayRequest(history, state.turn) /\ state'.turn = state.turn
        BY <3>1, BeginTurnFields DEF BeginTurn, SameTurn, CountInv
      <4> QED BY <1>0, <4>1 DEF MayRequest
    <3>2. CASE BeginTurn /\ ~SameTurn
      <4>1. state'.turn = state.turn + 1 /\ state.turn <= MaxTurns
        BY <3>2, BeginTurnFields DEF BeginTurn, TurnInv
      <4>2. CountedTurn = state.turn
        BY <3>2 DEF BeginTurn, CountedTurn, SnapshotInv, BeforeRequest
      <4>3. state.turn + 1 \in 0 .. MaxTurns + 1
        BY <1>0, <4>1
      <4>4. ~(history.requests[state.turn + 1] > 0)
        BY <1>0, <4>2, <4>3 DEF CountInv, Turns
      <4> QED BY <1>0, <4>1, <4>3, <4>4 DEF MayRequest, Turns
    <3>3. CASE ~BeginTurn
      <4>1. BeforeRequest /\ state'.turn = state.turn
        BY <2>2, <3>3, Entering, StateFields
        DEF BeforeRequest, BlockingGuardrailsPass, StartModelRequest, CatchError
      <4> QED BY <1>3, <4>1 DEF CountInv, MayRequest
    <3> QED BY <3>1, <3>2, <3>3
  <2>3. ASSUME local'.snapshot.taken, local'.snapshot.inProgress
        PROVE  MayRequest(history', local'.snapshot.turn)
    <3>1. CASE BeginTurn
      BY <1>3, <2>3, <3>1, BeginTurnFields DEF BeginTurn, CountInv, MayRequest
    <3>2. CASE ~BeginTurn
      <4>1. local'.snapshot = local.snapshot \/ local'.snapshot = NoSnapshot
        BY <3>2, LocalFields
      <4>2. ~NoSnapshot.taken
        BY DEF NoSnapshot
      <4>3. local'.snapshot = local.snapshot
        BY <2>3, <4>1, <4>2
      <4> QED BY <2>3, <4>3 DEF CountInv, MayRequest
    <3> QED BY <3>1, <3>2
  <2>4. ASSUME pc' \in {"idle", "loop", "closing"}, state'.step \in {"none", "run_again"},
               state'.inProgress \/ local'.continuing
        PROVE  MayRequest(history', state'.turn)
    <3>1. CASE CatchError
      <4>1. ~local'.continuing
        BY <3>1, LocalFields DEF CatchError, StepInv, HandleInterruptedOutcome
      <4>2. local.snapshot.taken /\ local.snapshot.inProgress
            /\ state'.turn = local.snapshot.turn
        BY <2>4, <3>1, <4>1 DEF CatchError, RollbackUnstartedTurn, StateType
      <4> QED BY <1>3, <4>2 DEF CountInv, MayRequest
    <3>2. CASE ~CatchError
      <4>1. ~BeginTurn
        BY <2>4, BeginTurnFields
      <4>2. ~RunAgain /\ ~TakeHandoff /\ ~FinalOutputAccepted
        <5>1. RunAgain \/ TakeHandoff \/ FinalOutputAccepted => ~state'.inProgress
          BY DEF RunAgain, TakeHandoff, HandedOff, FinalOutputAccepted, StateType
        <5>2. RunAgain \/ TakeHandoff \/ FinalOutputAccepted => ~local'.continuing
          BY DEF RunAgain, TakeHandoff, FinalOutputAccepted, StepInv
        <5> QED BY <2>4, <5>1, <5>2
      <4>3. ~HandleInterruptedOutcome
        <5>1. HandleInterruptedOutcome => local.next \in {"handoff", "final_output"}
          BY <2>4 DEF HandleInterruptedOutcome, ThrowAbort, Throw, StepInv
        <5>2. HandleInterruptedOutcome => ~local'.continuing /\ UNCHANGED state
          BY <2>4, <5>1 DEF HandleInterruptedOutcome, ThrowAbort, Throw, LocalType
        <5> QED BY <2>4, <5>1, <5>2 DEF HandleInterruptedOutcome, StepInv
      <4>4. pc \in {"idle", "loop", "closing"}
        BY <2>4, <3>2, <4>2, <4>3, Entering
        DEF Run, ReturnInterruption, FinalOutputRejected, Finally, StepInv
      <4>5. /\ state'.turn = state.turn /\ state'.step = state.step
            /\ state'.inProgress = state.inProgress
            /\ local'.continuing => local.continuing
        BY <3>2, <4>1, <4>2, <4>3, <4>4, StateFields, LocalFields
        DEF Resolves, ResolveTurn, ResolveInterruptedTurn
      <4> QED BY <1>0, <2>4, <4>4, <4>5 DEF CountInv, MayRequest
    <3> QED BY <3>1, <3>2
  <2> QED BY <1>3, <2>1, <2>2, <2>3, <2>4 DEF CountInv
<1> QED BY CountFields, <1>1, <1>2, <1>3

------------------------------------------------------------------------------
(* The theorems.                                                            *)

LEMMA Inductive == Spec => []IndInv
<1>1. Init => IndInv
  BY InitInv
<1>2. IndInv /\ [Next]_vars => IndInv'
  BY NextType, NextTurn, NextGuardrail, NextUnsaved, NextRequest, NextTools, NextInput, NextCalls,
     NextStepInv, NextSnapshot, NextCount
  DEF IndInv
<1> QED BY <1>1, <1>2, PTL DEF Spec

(* The variables keep their types: among others, the count of turns never   *)
(* exceeds maxTurns by more than the turn that is refused.                  *)
THEOREM TypeCorrect == Spec => []TypeOK
<1>1. IndInv => TypeOK
  BY DEF IndInv
<1> QED BY <1>1, Inductive, PTL

(* Tools wait for the parallel input guardrails of their turn, whatever the *)
(* model answered and however long the guardrails took.                     *)
THEOREM GuardrailsFirst == Spec => []ToolsWaitForGuardrails
<1>1. ASSUME IndInv PROVE ToolsWaitForGuardrails
  <2>1. \A c \in Calls : tools[c] = "running" => pc \in {"tools", "resuming"}
    BY <1>1 DEF IndInv, ToolsInv
  <2> QED
    BY <1>1, <2>1
    DEF IndInv, GuardrailInv, ToolsWaitForGuardrails, GuardrailsPending, GuardrailsFailed
<1> QED BY <1>1, Inductive, PTL

(* The model never sees a call without an output, and neither a handoff nor *)
(* a final output leaves one behind.                                        *)
THEOREM NoCallUnanswered == Spec => []CallsAreAnswered
<1>1. ASSUME IndInv PROVE CallsAreAnswered
  <2>1. pc = "model" \/ state.step \in {"handoff", "final_output"} => Unanswered = {}
    BY <1>1 DEF IndInv, StepInv, CallsInv
  <2> QED BY <2>1 DEF CallsAreAnswered, Unanswered
<1> QED BY <1>1, Inductive, PTL

(* The turns that were counted are those that made a request.               *)
THEOREM TurnsAreRequests == Spec => []TurnsCountRequests
<1>1. ASSUME IndInv PROVE TurnsCountRequests
  <2>1. pc = "idle" => CountedTurn = state.turn
    BY <1>1 DEF IndInv, SnapshotInv, BeforeRequest, CountedTurn
  <2> QED BY <1>1, <2>1 DEF IndInv, CountInv, TurnsCountRequests
<1> QED BY <1>1, Inductive, PTL

(* A run that has returned left nothing behind.                             *)
THEOREM NothingLeftRunning == Spec => []NothingOutlivesRun
<1>1. ASSUME IndInv PROVE NothingOutlivesRun
  <2>1. pc = "idle" => answer.status # "pending" /\ ToolsIn("queued") \cup ToolsIn("running") = {}
    BY <1>1 DEF IndInv, RequestInv, ToolsInv, ToolsIn
  <2> QED BY <1>1, <2>1 DEF IndInv, GuardrailInv, NothingOutlivesRun
<1> QED BY <1>1, Inductive, PTL

(* When run() has returned its turns are counted and nothing is going on.   *)
THEOREM NothingLeftOpen == Spec => []RunLeavesNothingOpen
BY TurnsAreRequests, NothingLeftRunning, PTL DEF RunLeavesNothingOpen

(* Input that was staged between runs is judged before it is admitted.      *)
THEOREM StagedInputGuarded == Spec => []AdmittedInputIsGuarded
<1>1. IndInv => AdmittedInputIsGuarded
  BY DEF IndInv, InputInv, AdmittedInputIsGuarded
<1> QED BY <1>1, Inductive, PTL

(* The error of an input guardrail is the one that run() throws, or that of *)
(* the sandbox which could not be closed behind it.                         *)
THEOREM GuardrailErrorThrown == Spec => []GuardrailErrorWins
<1>1. IndInv => GuardrailErrorWins
  BY DEF IndInv, GuardrailInv, GuardrailErrorWins
<1> QED BY <1>1, Inductive, PTL

(* A call that has an output is not executed again by a later run, and none *)
(* is without the approval it needs.                                        *)
THEOREM CallsExecutedOnce == Spec => ExecutedOnceApproved
<1> DEFINE Allowed ==
      \A c \in Calls : tools'[c] = "running" /\ tools[c] # "running" =>
        /\ c \notin state.outputs
        /\ c \in NeedsApproval => decisions[c] = "approved"
<1>1. ASSUME IndInv, [Next]_vars PROVE Allowed
  <2> SUFFICES ASSUME NEW c \in Calls, tools'[c] = "running", tools[c] # "running"
               PROVE  /\ c \notin state.outputs
                      /\ c \in NeedsApproval => decisions[c] = "approved"
    OBVIOUS
  <2> tools \in ToolsType
    BY <1>1, TypeParts DEF IndInv
  <2>1. /\ tools[c] = "queued"
        /\ c \in NeedsApproval => decisions[c] = "approved"
    <3>1. \E d \in Calls : StartTool(d) \/ ToolReturns(d)
      BY <1>1, Writers
      DEF Run, StartTools, ResumeInterruptedTurn, ToolsFail, ResolveTurn,
          ResolveInterruptedTurn, NoTools, Turn!Queue, ToolsType
    <3>2. PICK d \in Calls : StartTool(d) \/ ToolReturns(d)
      BY <3>1
    <3> QED BY <1>1, <3>2, CallMoves DEF IndInv, ToolsType
  <2>2. c \notin state.outputs
    BY <1>1, <2>1 DEF IndInv, ToolsInv
  <2> QED BY <2>1, <2>2
<1>2. IndInv /\ [Next]_vars => [Allowed]_vars
  BY <1>1
<1> QED BY <1>2, Inductive, PTL DEF Spec, ExecutedOnceApproved
=============================================================================
