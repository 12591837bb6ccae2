------------------------------ MODULE ModelRetry ------------------------------
(***************************************************************************)
(* One model call of the runner with its retries                           *)
(* (agents-core/src/runner/modelRetry.ts: getResponseWithRetry and         *)
(* getStreamedResponseWithRetry): the timeout of an attempt, the caller's  *)
(* abort signal, the provider's advice about a failed attempt, the retry   *)
(* policy, the delay, and the accounting of what failed attempts used.     *)
(*                                                                         *)
(* The provider is the environment.  Whether it took a request is hidden   *)
(* from the runner; its advice is assumed to be true but may say nothing.  *)
(* Left out: how long delays are, headers and error codes; what a response *)
(* used that comes after the timeout, which the code drops with it.        *)
(***************************************************************************)
EXTENDS Integers, Sequences

CONSTANTS
  MaxRetries,  \* modelSettings.retry.maxRetries
  Policies     \* the policies to consider, names of PolicyDecision

VARIABLES
  request,   \* what is fixed for a call: its kind and its policy
  attempt,   \* number and progress of the current attempt
  aborted,   \* the caller's signal
  advice,    \* the provider's advice about the attempt that failed
  phase,     \* where the call is
  usage,     \* tokens: used as reported, recorded by the handler, in the result
  reported,  \* onPossiblyAcceptedRequestFailure was called
  past       \* what happened in earlier attempts, for the properties

vars == <<request, attempt, aborted, advice, phase, usage, reported, past>>

Requests == [stream : BOOLEAN, stateful : BOOLEAN, timed : BOOLEAN,
             handler : BOOLEAN, policy : Policies]

NoAdvice == [suggested |-> "unknown", safety |-> "unknown", started |-> FALSE]

Advices == [suggested : {"yes", "no", "unknown"},
            safety : {"safe", "unsafe", "unknown"}, started : BOOLEAN]

------------------------------------------------------------------------------
(* Retry policies.  A decision may carry marks that only the runner's own   *)
(* policies set: a veto no other policy overrules, one that an explicit     *)
(* approval of an unsafe replay overrules, and an approval as replay-safe.  *)
Decision(retry, approve, safe, veto) ==
  [retry |-> retry, approve |-> approve, safe |-> safe, veto |-> veto]

No        == Decision(FALSE, FALSE, FALSE, "none")
Matched   == Decision(TRUE, FALSE, FALSE, "none")
Approving == Decision(TRUE, TRUE, FALSE, "none")
Veto      == Decision(FALSE, FALSE, FALSE, "hard")

ProviderSuggested(a) ==
  CASE a.suggested = "no"  -> Decision(FALSE, FALSE, FALSE,
                                IF a.safety = "unsafe" THEN "delegable"
                                                       ELSE "hard")
    [] a.suggested = "yes" -> Decision(TRUE, FALSE, a.safety = "safe", "none")
    [] OTHER               -> No

Some(decisions, P(_)) == \E i \in DOMAIN decisions : P(decisions[i])
IsHard(d)      == d.veto = "hard"
IsDelegable(d) == d.veto = "delegable"
Retries(d)     == d.retry
Approves(d)    == d.retry /\ d.approve
IsSafe(d)      == d.retry /\ d.safe

Merged(decisions) ==
  Decision(TRUE, Some(decisions, Approves), Some(decisions, IsSafe), "none")

ResolveDelegableVeto(merged) ==
  IF merged.approve THEN merged ELSE Decision(FALSE, FALSE, FALSE, "delegable")

AnyOf(decisions) ==
  IF Some(decisions, IsHard) THEN Veto
  ELSE IF Some(decisions, Retries)
  THEN IF Some(decisions, IsDelegable)
       THEN ResolveDelegableVeto(Merged(decisions)) ELSE Merged(decisions)
  ELSE IF Some(decisions, IsDelegable)
  THEN Decision(FALSE, FALSE, FALSE, "delegable")
  ELSE No

(* The first policy that refuses decides.                                   *)
AllOf(decisions) ==
  LET Refuses(i) == ~decisions[i].retry /\ ~IsDelegable(decisions[i])
      IsFirst(i) == Refuses(i) /\ \A j \in 1 .. i - 1 : ~Refuses(j)
  IN  IF decisions = <<>> THEN No
      ELSE IF \E i \in DOMAIN decisions : IsFirst(i) /\ IsHard(decisions[i])
      THEN Veto
      ELSE IF \E i \in DOMAIN decisions : Refuses(i) THEN No
      ELSE IF Some(decisions, IsDelegable)
      THEN ResolveDelegableVeto(Merged(decisions)) ELSE Merged(decisions)

PolicyDecision(policy, a) ==
  CASE policy = "never"     -> No
    [] policy = "matched"   -> Matched
    [] policy = "approving" -> Approving
    [] policy = "suggested" -> ProviderSuggested(a)
    [] policy = "any"       -> AnyOf(<<ProviderSuggested(a), Matched>>)
    [] policy = "all"       -> AllOf(<<Matched, ProviderSuggested(a)>>)
    [] policy = "nested"    -> AnyOf(<<AllOf(<<ProviderSuggested(a), Matched>>),
                                       Approving>>)

------------------------------------------------------------------------------
(* What the advice says once a timeout is taken into account.               *)
WithTimeoutAuthority(a, timedOut) ==
  IF timedOut /\ a.safety # "safe" THEN [a EXCEPT !.safety = "unsafe"] ELSE a

TimedOut == attempt.timer = "fired"

MayHaveBeenAccepted(a) ==
  \/ a.safety = "unsafe" \/ a.started
  \/ TimedOut /\ request.stateful /\ a.safety # "safe"

(* The error is an abort unless the attempt timed out before the signal.    *)
IsAbort == aborted

ReplayAllowed(decision, a) ==
  /\ decision.retry
  /\ request.stateful =>
       \/ decision.safe \/ a.safety = "safe"
       \/ decision.approve /\ a.safety = "unsafe"
  /\ a.safety = "unsafe" => decision.safe \/ decision.approve

Vetoed ==
  \/ attempt.number > MaxRetries
  \/ IsAbort
  \/ attempt.events
  \/ request.stream /\ advice.safety = "unsafe" /\ ~TimedOut

EvaluateRetry ==
  ~Vetoed /\ ReplayAllowed(PolicyDecision(request.policy, advice), advice)

------------------------------------------------------------------------------
(* The attempt as the provider sees it.                                     *)
NewAttempt(number, kind) ==
  [number |-> number, taken |-> FALSE, events |-> FALSE, done |-> FALSE,
   timer |-> IF kind.timed THEN "armed" ELSE "off"]

Take ==
  /\ phase = "calling" /\ ~attempt.taken
  /\ attempt' = [attempt EXCEPT !.taken = TRUE]
  /\ past' = [past EXCEPT !.taken = @ + 1]
  /\ UNCHANGED <<request, aborted, advice, phase, usage, reported>>

TimerFires ==
  /\ phase = "calling" /\ attempt.timer = "armed"
  /\ attempt' = [attempt EXCEPT !.timer = "fired"]
  /\ UNCHANGED <<request, aborted, advice, phase, usage, reported, past>>

Abort ==
  /\ phase \notin {"returned", "thrown"} /\ ~aborted
  /\ aborted' = TRUE
  /\ UNCHANGED <<request, attempt, advice, phase, usage, reported, past>>

(* A timed attempt is over once its timer has fired or the caller's signal  *)
(* is aborted, whatever the model delivers after that.                      *)
Overtaken == TimedOut \/ (request.timed /\ aborted)

(* An attempt fails; the model may have reported what it used.              *)
AttemptFails(used) ==
  /\ phase' = "advising"
  /\ attempt' = [attempt EXCEPT !.timer = IF @ = "fired" THEN @ ELSE "off"]
  /\ usage' = [usage EXCEPT !.used     = @ + used,
                            !.recorded = IF request.handler THEN @ + used
                                                            ELSE @,
                            !.failed   = @ + used]
  /\ UNCHANGED <<request, aborted, advice, reported, past>>

(* An event of the stream; response_done ends the attempt's timeout.        *)
StreamEvent ==
  /\ phase = "calling" /\ request.stream /\ attempt.taken /\ ~attempt.done
  /\ IF Overtaken THEN AttemptFails(0)
     ELSE /\ \E done \in BOOLEAN :
               attempt' = [attempt EXCEPT
                             !.events = TRUE, !.done = done,
                             !.timer  = IF done THEN "off" ELSE @]
          /\ UNCHANGED <<request, aborted, advice, phase, usage, reported, past>>

(* Deviation: what failed attempts used is added although it was recorded.  *)
AddFailedUsageTwice == usage.failed

AddFailedUsage == IF request.handler THEN 0 ELSE usage.failed

(* The response, or the end of a stream whose response_done has been seen.  *)
Respond ==
  /\ phase = "calling" /\ attempt.taken
  /\ request.stream => attempt.done
  /\ IF Overtaken THEN AttemptFails(0)
     ELSE /\ phase' = "returned"
          /\ usage' = [usage EXCEPT !.used   = @ + 1,
                                    !.result = 1 + AddFailedUsage]
          /\ UNCHANGED <<request, attempt, aborted, advice, reported, past>>

ModelFails ==
  /\ phase = "calling"
  /\ \E used \in {0, 1} : AttemptFails(used)

------------------------------------------------------------------------------
(* The failed attempt is examined.  Every way out reports a request that    *)
(* may have been accepted.  What is hidden from the runner: a request that  *)
(* was taken and that neither advice nor a timeout shows as accepted.       *)
FinishFailure ==
  usage' = [usage EXCEPT !.result = IF request.handler THEN 0 ELSE usage.failed]

Throw(mayBeAccepted) ==
  /\ phase' = "thrown"
  /\ reported' = mayBeAccepted
  /\ FinishFailure

Silent(a) == attempt.taken /\ ~MayHaveBeenAccepted(a)

(* Without advice only a timeout of a stateful call is reported.            *)
TimedOutStateful == TimedOut /\ request.stateful

AbortedByCaller == request.timed /\ aborted

GetRetryAdvice ==
  /\ phase = "advising" /\ ~AbortedByCaller
  /\ \E a \in Advices :
       /\ a.safety = "safe" => ~attempt.taken
       /\ a.started => attempt.taken
       /\ LET adjusted == WithTimeoutAuthority(a, TimedOut)
          IN  /\ advice' = adjusted
              /\ past' = [past EXCEPT !.silent = @ \/ Silent(adjusted)]
  /\ phase' = "deciding"
  /\ UNCHANGED <<request, attempt, aborted, usage, reported>>

(* Deviation: without advice nothing is reported.                           *)
AdviceFailsUnreported ==
  /\ phase = "advising" /\ ~AbortedByCaller
  /\ Throw(FALSE)
  /\ past' = [past EXCEPT !.silent = @ \/ (attempt.taken /\ ~TimedOutStateful)]
  /\ UNCHANGED <<request, attempt, aborted, advice>>

(* The provider has no advice: asking for it failed.                        *)
AdviceFails ==
  /\ phase = "advising" /\ ~AbortedByCaller
  /\ Throw(TimedOutStateful)
  /\ past' = [past EXCEPT !.silent = @ \/ (attempt.taken /\ ~TimedOutStateful)]
  /\ UNCHANGED <<request, attempt, aborted, advice>>

(* The caller aborts a timed call before the advice is there.               *)
AdviceAborted ==
  /\ phase = "advising" /\ AbortedByCaller
  /\ Throw(TimedOutStateful)
  /\ past' = [past EXCEPT !.aborted = @ \/ (attempt.taken /\ ~TimedOutStateful)]
  /\ UNCHANGED <<request, attempt, aborted, advice>>

PolicyFails ==
  /\ phase = "deciding" /\ ~AbortedByCaller
  /\ ~Vetoed
  /\ Throw(MayHaveBeenAccepted(advice))
  /\ UNCHANGED <<request, attempt, aborted, advice, past>>

DecisionAborted ==
  /\ phase = "deciding" /\ AbortedByCaller
  /\ Throw(MayHaveBeenAccepted(advice))
  /\ UNCHANGED <<request, attempt, aborted, advice, past>>

GiveUp ==
  /\ phase = "deciding" /\ ~AbortedByCaller
  /\ ~EvaluateRetry
  /\ Throw(MayHaveBeenAccepted(advice))
  /\ UNCHANGED <<request, attempt, aborted, advice, past>>

DecideToRetry ==
  /\ phase = "deciding" /\ ~AbortedByCaller
  /\ EvaluateRetry
  /\ phase' = "delaying"
  /\ past' = [past EXCEPT
                !.approved = @ \/ PolicyDecision(request.policy, advice).approve]
  /\ UNCHANGED <<request, attempt, aborted, advice, usage, reported>>

AbortedInDelay ==
  /\ phase = "delaying" /\ aborted
  /\ Throw(MayHaveBeenAccepted(advice))
  /\ UNCHANGED <<request, attempt, aborted, advice, past>>

Retry ==
  /\ phase = "delaying" /\ ~aborted
  /\ phase' = "calling"
  /\ attempt' = NewAttempt(attempt.number + 1, request)
  /\ advice' = NoAdvice
  /\ UNCHANGED <<request, aborted, usage, reported, past>>

------------------------------------------------------------------------------
(* The state between calls, and how a call starts.                          *)
NoPast  == [taken |-> 0, silent |-> FALSE, aborted |-> FALSE, approved |-> FALSE]
NoUsage == [used |-> 0, recorded |-> 0, failed |-> 0, result |-> 0]

Start(kind) ==
  /\ phase \in {"returned", "thrown"}
  /\ request' = kind
  /\ attempt' = NewAttempt(1, kind)
  /\ aborted' = FALSE
  /\ advice' = NoAdvice
  /\ phase' = "calling"
  /\ usage' = NoUsage
  /\ reported' = FALSE
  /\ past' = NoPast

Init ==
  /\ request \in Requests
  /\ attempt = NewAttempt(1, request)
  /\ aborted = FALSE
  /\ advice = NoAdvice
  /\ phase = "returned"
  /\ usage = NoUsage
  /\ reported = FALSE
  /\ past = NoPast

Provider == Take \/ StreamEvent \/ Respond \/ ModelFails

(* The ways out on which the caller's abort is thrown.                      *)
ThrowAbort ==
  \/ AdviceAborted
  \/ DecisionAborted
  \/ AbortedInDelay

Runner ==
  \/ GetRetryAdvice
  \/ AdviceFails
  \/ PolicyFails
  \/ GiveUp
  \/ DecideToRetry
  \/ ThrowAbort
  \/ Retry

Next ==
  \/ \E kind \in Requests : Start(kind)
  \/ Provider
  \/ TimerFires
  \/ Abort
  \/ Runner

Spec == Init /\ [][Next]_vars

------------------------------------------------------------------------------
(* A provider takes the request of a call at most once when it continues a  *)
(* conversation, unless the application approved an unsafe replay: no       *)
(* combination of policies, timeouts and advice replays it otherwise.       *)
RequestTakenOnce ==
  request.stateful /\ past.taken > 1 => past.approved

(* A call that fails tells the runner when its last request may have been   *)
(* accepted, on every way out, so that it is not sent again.  A taken       *)
(* request stays secret only if no timeout of a stateful call shows it and  *)
(* the provider gave no advice or none that says so, or the caller's abort  *)
(* came before the advice.                                                  *)
AcceptanceIsReported ==
  phase = "thrown" /\ attempt.taken =>
    reported \/ past.silent \/ past.aborted

(* What failed attempts report and what the response used is counted        *)
(* exactly once: by the handler, or in the usage of the response or error.  *)
UsageCountedOnce ==
  phase \in {"returned", "thrown"} =>
    usage.used = usage.recorded + usage.result
=============================================================================
