----------------------------- MODULE Conversation -----------------------------
(***************************************************************************)
(* Runs whose conversation the server keeps                                *)
(* (agents-core/src/runner/conversation.ts, ServerConversationTracker, as  *)
(* run.ts uses it): each request carries only the items the server does    *)
(* not hold yet, whatever was retried, interrupted, filtered, or resumed   *)
(* with a new tracker that is rebuilt from the RunState.                   *)
(*                                                                         *)
(* Composes with ModelRetry: the model call of a turn is that module's, on *)
(* the variables of the same names.  The server is the environment.  Each  *)
(* response has an id.  Left out: guardrails, a reader that cancels and    *)
(* the reconciliation of aborted calls (RunLoop, StreamedRun), handoffs    *)
(* that are ignored, compaction, tool search.                              *)
(***************************************************************************)
EXTENDS Lists

CONSTANTS
  MaxRetries,    \* modelSettings.retry.maxRetries
  Policies,      \* the retry policies
  Timeouts,      \* whether attempts have a timeout, a subset of BOOLEAN
  InitialItems,  \* number of items of the input
  Filtered,      \* there is a callModelInputFilter, which may drop an item
  MaxResponses,  \* bound: model responses
  MaxRuns,       \* bound: calls of run() on the state
  MaxInputs      \* bound: items staged with addInput()

VARIABLES
  request, attempt, aborted, advice, phase, usage, reported, past,  \* ModelRetry
  chain,    \* continued by previousResponseId, else by conversationId
  held,     \* the items of the conversation the next request continues
  tracker,  \* the run's ServerConversationTracker
  state,    \* the RunState
  sending,  \* the turn's prepared and filtered input
  pc,       \* where the run is
  history   \* what happened so far, for the properties

ASSUME ConversationAssumption ==
  /\ MaxRetries \in Nat
  /\ Timeouts \subseteq BOOLEAN
  /\ InitialItems \in Nat \ {0}
  /\ Filtered \in BOOLEAN
  /\ {MaxResponses, MaxRuns, MaxInputs} \subseteq Nat

Call == INSTANCE ModelRetry

callVars == <<request, attempt, aborted, advice, phase, usage, reported, past>>
vars == <<callVars, chain, held, tracker, state, sending, pc, history>>

------------------------------------------------------------------------------
(* Items.  The model answers with a message, with a call of a tool, or with *)
(* a second call too, of a tool that needs an approval.                     *)
Item(kind, n) == <<kind, n>>

Initial == [n \in 1 .. InitialItems |-> Item("input", n)]

Answers == {"message", "call", "both"}

OutputOf(answer, r) ==
  CASE answer = "message" -> <<Item("message", r)>>
    [] answer = "call"    -> <<Item("call", r)>>
    [] answer = "both"    -> <<Item("call", r), Item("approvalCall", r)>>

ResultsOf(r) == {Item("result", r), Item("approvalResult", r)}

Outputs(responses) ==
  UNION {ToSet(OutputOf(responses[r], r)) : r \in DOMAIN responses}

------------------------------------------------------------------------------
(* The tracker.  Items are marked by identity; a rebuilt one recognizes the *)
(* server's own items and acknowledges results by their calls.              *)
NewTracker ==
  [initialSent |-> FALSE, remaining |-> {}, sent |-> {}, server |-> {}]

(* Deviation: the last response acknowledges results as well.               *)
PrimeWithLastResults(s) ==
  IF s.responses = <<>> THEN NewTracker
  ELSE [initialSent |-> TRUE, remaining |-> {},
        server |-> Outputs(s.responses),
        sent   |-> ToSet(Initial) \cup (ToSet(s.generated) \cap
                      (Outputs(s.responses)
                         \cup {Item("staged", n) : n \in 1 .. MaxInputs}
                         \cup UNION {ResultsOf(r) : r \in DOMAIN s.responses}))]

PrimeFromState(s) ==
  LET latest       == Len(s.responses)
      acknowledged == UNION {ResultsOf(r) : r \in 1 .. latest - 1}
      staged       == {Item("staged", n) : n \in 1 .. MaxInputs}
      server       == Outputs(s.responses)
      known        == ToSet(s.generated) \cap (server \cup staged \cup acknowledged)
  IN  IF latest = 0 THEN NewTracker
      ELSE [initialSent |-> TRUE, remaining |-> {}, server |-> server,
            sent |-> ToSet(Initial) \cup known]

PrepareInput ==
  LET initial == IF ~tracker.initialSent THEN Initial
                 ELSE Only(Initial, tracker.remaining)
      unsent  == Without(state.generated, tracker.sent \cup tracker.server)
      pending == [n \in DOMAIN state.pending |-> Item("staged", state.pending[n])]
  IN  initial \o unsent \o pending

MarkInputAsSent ==
  [tracker EXCEPT !.sent = @ \cup ToSet(sending.turn), !.remaining = {}]

------------------------------------------------------------------------------
(* run(agent, state), and addInput() between runs.  Bound: a state is not   *)
(* run again once HeldOnce is excused for it.                               *)
CallIdle == UNCHANGED callVars

Run ==
  /\ pc = "idle"
  /\ history.runs < MaxRuns
  /\ ~history.excused
  /\ state.step # "final"
  /\ tracker' = PrimeFromState(state)
  /\ pc' = "loop"
  /\ history' = [history EXCEPT !.runs = @ + 1]
  /\ CallIdle
  /\ UNCHANGED <<chain, held, state, sending>>

AddInput ==
  /\ pc = "idle"
  /\ history.runs > 0
  /\ state.step \in {"run_again", "interruption"}
  /\ history.staged < MaxInputs
  /\ history' = [history EXCEPT !.staged = @ + 1]
  /\ state' = [state EXCEPT !.pending = Append(@, history.staged + 1)]
  /\ CallIdle
  /\ UNCHANGED <<chain, held, tracker, sending, pc>>

(* Every call on the state is made with the same options.                   *)
Kinds ==
  [stream : BOOLEAN, stateful : {TRUE}, timed : Timeouts, handler : {TRUE},
   policy : Policies]

(* applyCallModelInputFilter: what a filter may make of the input.          *)
Filtering(items) ==
  {Without(items, dropped) :
     dropped \in {{}} \cup IF Filtered THEN {{e} : e \in ToSet(items)} ELSE {}}

(* prepareTurn and the filter, then the model is called.                    *)
CallModel ==
  /\ pc = "loop"
  /\ state.step = "run_again"
  /\ Len(state.responses) < MaxResponses
  /\ \E input \in Filtering(PrepareInput) :
       /\ sending' = [turn |-> PrepareInput, marked |-> FALSE, input |-> input]
       /\ Call!Start(request)
  /\ tracker' = IF tracker.initialSent THEN tracker
                ELSE [tracker EXCEPT !.initialSent = TRUE,
                                     !.remaining   = ToSet(Initial)]
  /\ pc' = "calling"
  /\ UNCHANGED <<chain, held, state, history>>

------------------------------------------------------------------------------
(* markServerInputAccepted: the tracker marks the turn's items and the      *)
(* staged items that were sent join the history.  If there were any, or the *)
(* response is lost, the state is kept from asking the model again.         *)
Admitted(s) ==
  {n \in ToSet(s.pending) : Item("staged", n) \in ToSet(sending.input)}

Lost(s) == [s EXCEPT !.step = "accepted", !.accepted = "lost"]

(* Deviation: only staged input leaves a checkpoint.                        *)
CheckpointWithStagedInput(s, available) ==
  IF s.pending # <<>> THEN Lost(s) ELSE s

Checkpoint(s, available) ==
  IF s.pending # <<>> \/ ~available THEN Lost(s) ELSE s

CommitPendingInput(s) ==
  LET admitted == Only(s.pending, Admitted(s))
  IN  [s EXCEPT
         !.generated = @ \o [n \in DOMAIN admitted |-> Item("staged", admitted[n])],
         !.pending   = Without(@, Admitted(s))]

StateAccepted(available) ==
  CommitPendingInput(Checkpoint(state, available))

(* An event has marked the input already when a later failure is reported;  *)
(* the checkpoint is still made.                                            *)
Mark(available) ==
  /\ sending' = [sending EXCEPT !.marked = TRUE]
  /\ tracker' = IF sending.marked THEN tracker ELSE MarkInputAsSent
  /\ state' = IF ~sending.marked THEN StateAccepted(available)
              ELSE IF ~available THEN Lost(state)
              ELSE state

(* The server takes the request: a conversation keeps its items at once, a  *)
(* chain continues from them only when a response came back.                *)
ServerTakes ==
  /\ pc = "calling"
  /\ Call!Take
  /\ held' = IF chain THEN held ELSE held \o sending.input
  /\ UNCHANGED <<chain, tracker, state, sending, pc, history>>

(* A stream's event shows that the request was accepted.                    *)
StreamEvent ==
  /\ pc = "calling"
  /\ Call!StreamEvent
  /\ IF attempt'.events THEN Mark(state.pending = <<>>)
                        ELSE UNCHANGED <<tracker, state, sending>>
  /\ UNCHANGED <<chain, held, pc, history>>

CallGoesOn ==
  /\ pc = "calling"
  /\ \/ Call!TimerFires
     \/ Call!Abort
     \/ Call!ModelFails
     \/ Call!GetRetryAdvice
     \/ Call!DecideToRetry
     \/ Call!Retry
  /\ UNCHANGED <<chain, held, tracker, state, sending, pc, history>>

(* What may make the server hold an item twice: a taken request that was    *)
(* not reported, or an approved replay.                                     *)
Secret(calls) == calls.silent \/ calls.aborted \/ calls.approved

(* The call fails: onPossiblyAcceptedRequestFailure, and the run throws.    *)
CallThrows ==
  /\ pc = "calling"
  /\ \/ Call!AdviceFails
     \/ Call!PolicyFails
     \/ Call!GiveUp
     \/ ~request.stream /\ Call!ThrowAbort
  /\ IF reported' THEN Mark(FALSE) ELSE UNCHANGED <<tracker, state, sending>>
  /\ pc' = "idle"
  /\ history' = [history EXCEPT !.excused = @ \/ Secret(past')]
  /\ UNCHANGED <<chain, held>>

(* A streamed run that its caller aborts takes the input as sent, reported  *)
(* or not, and ends without an error.  An attempt without a timeout fails   *)
(* with the abort as its own error.                                         *)
StreamAborted ==
  /\ pc = "calling"
  /\ request.stream
  /\ \/ Call!ThrowAbort
     \/ aborted /\ Call!GiveUp
  /\ Mark(~reported')
  /\ pc' = "idle"
  /\ history' = [history EXCEPT !.excused = @ \/ Secret(past')]
  /\ UNCHANGED <<chain, held>>

(* The response: trackServerItems, and the response joins the state.        *)
CallReturns ==
  /\ pc = "calling"
  /\ Call!Respond
  /\ IF phase' # "returned"
     THEN UNCHANGED <<held, tracker, state, sending, pc, history>>
     ELSE \E answer \in Answers :
            LET r       == Len(state.responses) + 1
                outputs == OutputOf(answer, r)
                marked  == IF sending.marked THEN state ELSE StateAccepted(TRUE)
            IN  /\ held' = (IF chain THEN held \o sending.input ELSE held)
                             \o outputs
                /\ sending' = [sending EXCEPT !.marked = TRUE]
                /\ tracker' = [MarkInputAsSent EXCEPT !.server = @ \cup ToSet(outputs)]
                /\ state' = [marked EXCEPT !.responses = Append(@, answer)]
                /\ pc' = "resolving"
                /\ history' = [history EXCEPT
                     !.dropped = @ \cup (ToSet(sending.turn) \ ToSet(sending.input)),
                     !.excused = @ \/ Secret(past)]
  /\ UNCHANGED chain

------------------------------------------------------------------------------
(* resolveTurnAfterModelResponse and applyTurnResult.                       *)
Latest == Len(state.responses)

NextStep ==
  CASE state.responses[Latest] = "message" -> "final"
    [] state.responses[Latest] = "call"    -> "run_again"
    [] state.responses[Latest] = "both"    -> "interruption"

Results ==
  IF NextStep = "final" THEN <<>> ELSE <<Item("result", Latest)>>

Resolve ==
  /\ pc = "resolving"
  /\ state' = [state EXCEPT
                 !.generated = @ \o OutputOf(state.responses[Latest], Latest)
                                 \o Results,
                 !.step      = NextStep,
                 !.accepted  = "no"]
  /\ pc' = IF NextStep = "run_again" THEN "loop" ELSE "idle"
  /\ CallIdle
  /\ UNCHANGED <<chain, held, tracker, sending, history>>

(* Processing the response, a guardrail or a tool fails.  A response        *)
(* without a checkpoint is abandoned.                                       *)
ResolveFails ==
  /\ pc = "resolving"
  /\ IF state.step = "accepted"
     THEN /\ \E progress \in {"lost", "processed", "started"} :
               state' = [state EXCEPT !.accepted = progress]
          /\ UNCHANGED history
     ELSE /\ history' = [history EXCEPT !.abandoned = @ \cup {Latest}]
          /\ UNCHANGED state
  /\ pc' = "idle"
  /\ CallIdle
  /\ UNCHANGED <<chain, held, tracker, sending>>

(* resumeAcceptedModelResponse: the response is processed now, unless it is *)
(* lost or its tools were started.                                          *)
Resumable ==
  \/ state.accepted = "processed"
  \/ state.accepted = "started" /\ state.responses[Latest] = "message"

ResumeAcceptedResponse ==
  /\ pc = "loop"
  /\ state.step = "accepted"
  /\ pc' = IF Resumable THEN "resolving" ELSE "idle"
  /\ CallIdle
  /\ UNCHANGED <<chain, held, tracker, state, sending, history>>

(* resumeInterruptedTurn: the approved call is executed.                    *)
ResumeInterruptedTurn ==
  /\ pc = "loop"
  /\ state.step = "interruption"
  /\ state' = [state EXCEPT
                 !.step      = "run_again",
                 !.generated = Append(@, Item("approvalResult", Latest))]
  /\ CallIdle
  /\ UNCHANGED <<chain, held, tracker, sending, pc, history>>

(* The turns are used up, or the turn's preparation fails.                  *)
TurnFails ==
  /\ pc = "loop"
  /\ state.step = "run_again"
  /\ pc' = "idle"
  /\ CallIdle
  /\ UNCHANGED <<chain, held, tracker, state, sending, history>>

------------------------------------------------------------------------------
Init ==
  /\ Call!Init
  /\ request \in Kinds
  /\ chain \in BOOLEAN
  /\ held = <<>>
  /\ tracker = NewTracker
  /\ state = [step |-> "run_again", accepted |-> "no", responses |-> <<>>,
              generated |-> <<>>, pending |-> <<>>]
  /\ sending = [turn |-> <<>>, input |-> <<>>, marked |-> FALSE]
  /\ pc = "idle"
  /\ history = [runs |-> 0, staged |-> 0, dropped |-> {}, abandoned |-> {},
                excused |-> FALSE]

Next ==
  \/ Run
  \/ AddInput
  \/ CallModel
  \/ ServerTakes
  \/ StreamEvent
  \/ CallGoesOn
  \/ CallThrows
  \/ StreamAborted
  \/ CallReturns
  \/ Resolve
  \/ ResolveFails
  \/ ResumeAcceptedResponse
  \/ ResumeInterruptedTurn
  \/ TurnFails

Spec == Init /\ [][Next]_vars

------------------------------------------------------------------------------
Excused == history.excused \/ Secret(past)

(* The server never holds an item twice, whatever was retried and resumed   *)
(* and however often the tracker was rebuilt, unless the runner could not   *)
(* know of a failed request that the server had taken, because the provider *)
(* said nothing or the caller's abort came first, or the application        *)
(* approved an unsafe replay.                                               *)
HeldOnce == IsInjective(held) \/ Excused

(* When the model answers, what it has been given is the whole history but  *)
(* for what the filter dropped and the calls of abandoned responses; input  *)
(* staged by the application waits or is in the history, never lost.        *)
NothingForgotten ==
  /\ pc = "resolving" =>
       (ToSet(Initial) \cup ToSet(state.generated)) \ history.dropped
         \subseteq ToSet(held)
  /\ \A n \in 1 .. history.staged :
       (n \in ToSet(state.pending)) # (Item("staged", n) \in ToSet(state.generated))

(* The properties of the model calls.                                       *)
AcceptanceIsReported == Call!AcceptanceIsReported
UsageCountedOnce     == Call!UsageCountedOnce
RequestTakenOnce     == Call!RequestTakenOnce
=============================================================================
