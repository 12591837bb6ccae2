-------------------------- MODULE Conversation_proofs --------------------------
(***************************************************************************)
(* Proofs about Conversation.  Every model call of a run is a behaviour of *)
(* ModelRetry, so that what is proved of one call (first part) holds of    *)
(* all the calls of a conversation.  The second part is about the items:   *)
(* none is forgotten and none is held twice, by an invariant that says     *)
(* where every item is at each place of the run.                           *)
(***************************************************************************)
EXTENDS Conversation, WellFoundedInduction, TLAPS

KnownRequest == request \in Call!Requests

------------------------------------------------------------------------------
(* Each step of the conversation is one of the call or leaves it alone.     *)

LEMMA OutsideSteps ==
  ASSUME \/ Run \/ AddInput \/ Resolve \/ ResolveFails
         \/ ResumeAcceptedResponse \/ ResumeInterruptedTurn \/ TurnFails
         \/ UNCHANGED vars
  PROVE  UNCHANGED callVars
BY DEF Run, AddInput, Resolve, ResolveFails, ResumeAcceptedResponse,
       ResumeInterruptedTurn, TurnFails, CallIdle, vars

LEMMA CallSteps ==
  ASSUME \/ ServerTakes \/ StreamEvent \/ CallGoesOn \/ CallThrows
         \/ StreamAborted \/ CallReturns
  PROVE  Call!Provider \/ Call!TimerFires \/ Call!Abort \/ Call!Runner
BY DEF ServerTakes, StreamEvent, CallGoesOn, CallThrows, StreamAborted,
       CallReturns, Call!Provider, Call!Runner

LEMMA StepsImplement ==
  ASSUME KnownRequest, [Next]_vars
  PROVE  [Call!Next]_(Call!vars)
<1>1. CASE CallModel
  BY <1>1 DEF CallModel, KnownRequest, Call!Next
<1>2. CASE \/ ServerTakes \/ StreamEvent \/ CallGoesOn \/ CallThrows
           \/ StreamAborted \/ CallReturns
  BY <1>2, CallSteps DEF Call!Next
<1>3. CASE \/ Run \/ AddInput \/ Resolve \/ ResolveFails
           \/ ResumeAcceptedResponse \/ ResumeInterruptedTurn \/ TurnFails
           \/ UNCHANGED vars
  BY <1>3, OutsideSteps DEF callVars, Call!vars
<1> QED
  BY <1>1, <1>2, <1>3 DEF Next

(* The options of a call never change.                                      *)
LEMMA RequestKept ==
  ASSUME KnownRequest, [Call!Next]_(Call!vars)
  PROVE  KnownRequest'
BY DEF KnownRequest, Call!Next, Call!vars, Call!Start, Call!Provider,
       Call!Runner, Call!Take, Call!StreamEvent, Call!Respond,
       Call!ModelFails, Call!AttemptFails, Call!TimerFires, Call!Abort,
       Call!GetRetryAdvice, Call!AdviceFails, Call!PolicyFails, Call!GiveUp,
       Call!DecideToRetry, Call!ThrowAbort, Call!AdviceAborted,
       Call!DecisionAborted, Call!AbortedInDelay, Call!Retry, Call!Requests

(* The conversation implements a sequence of model calls with retries.      *)
THEOREM CallsAreRetried == Spec => Call!Spec
<1>1. Init => Call!Init /\ KnownRequest
  BY DEF Init, KnownRequest, Call!Init
<1>2. KnownRequest /\ [Next]_vars => [Call!Next]_(Call!vars) /\ KnownRequest'
  BY StepsImplement, RequestKept
<1> QED
  BY <1>1, <1>2, PTL DEF Spec, Call!Spec

------------------------------------------------------------------------------
(* One call, for every number of retries and every choice of policies: what *)
(* it reports, counts and replays.                                          *)

PolicyNames ==
  {"never", "matched", "approving", "suggested", "any", "all", "nested"}

CallPhases == {"calling", "advising", "deciding", "delaying", "returned", "thrown"}

CallTypeOK ==
  /\ request \in Call!Requests
  /\ attempt \in [number : Nat, taken : BOOLEAN, events : BOOLEAN,
                  done : BOOLEAN, timer : {"off", "armed", "fired"}]
  /\ aborted \in BOOLEAN
  /\ advice \in Call!Advices
  /\ phase \in CallPhases
  /\ usage \in [used : Nat, recorded : Nat, failed : Nat, result : Nat]
  /\ reported \in BOOLEAN
  /\ past \in [taken : Nat, silent : BOOLEAN, aborted : BOOLEAN, approved : BOOLEAN]

(* The ways out of a failed call after the advice is there.                 *)
LeavesAdvised ==
  \/ Call!PolicyFails \/ Call!DecisionAborted \/ Call!GiveUp
  \/ Call!AbortedInDelay

------------------------------------------------------------------------------
(* A decision is marked as an approval of a safe replay only on the         *)
(* provider's word: no composition of the policies adds the mark.           *)

Decisions == [retry : BOOLEAN, approve : BOOLEAN, safe : BOOLEAN,
              veto : {"none", "delegable", "hard"}]

LEMMA BasicDecisions ==
  ASSUME NEW a \in Call!Advices
  PROVE  /\ Call!No \in Decisions /\ ~Call!No.safe
         /\ Call!Matched \in Decisions /\ ~Call!Matched.safe
         /\ Call!Approving \in Decisions /\ ~Call!Approving.safe
         /\ Call!ProviderSuggested(a) \in Decisions
         /\ Call!ProviderSuggested(a).safe => a.safety = "safe"
BY DEF Call!No, Call!Matched, Call!Approving, Call!ProviderSuggested, Call!Decision, Decisions, Call!Advices

LEMMA AnyOfSafe ==
  ASSUME NEW d \in Decisions, NEW e \in Decisions
  PROVE  /\ Call!AnyOf(<<d, e>>) \in Decisions
         /\ Call!AnyOf(<<d, e>>).safe => d.safe \/ e.safe
<1> DEFINE ds == <<d, e>>
<1>1. DOMAIN ds = {1, 2} /\ ds[1] = d /\ ds[2] = e
  OBVIOUS
<1>2. Call!Some(ds, Call!IsSafe) => d.safe \/ e.safe
  BY <1>1 DEF Call!Some, Call!IsSafe
<1>3. Call!Some(ds, Call!IsSafe) \in BOOLEAN /\ Call!Some(ds, Call!Approves) \in BOOLEAN
  BY DEF Call!Some
<1>4. Call!Merged(ds) \in Decisions /\ (Call!Merged(ds).safe => d.safe \/ e.safe)
  BY <1>2, <1>3 DEF Call!Merged, Call!Decision, Decisions
<1>5. /\ Call!ResolveDelegableVeto(Call!Merged(ds)) \in Decisions
      /\ Call!ResolveDelegableVeto(Call!Merged(ds)).safe => d.safe \/ e.safe
  BY <1>4 DEF Call!ResolveDelegableVeto, Call!Decision, Decisions
<1> QED
  BY <1>4, <1>5 DEF Call!AnyOf, Call!No, Call!Veto, Call!Decision, Decisions

LEMMA AllOfSafe ==
  ASSUME NEW d \in Decisions, NEW e \in Decisions
  PROVE  /\ Call!AllOf(<<d, e>>) \in Decisions
         /\ Call!AllOf(<<d, e>>).safe => d.safe \/ e.safe
<1> DEFINE ds == <<d, e>>
<1>1. DOMAIN ds = {1, 2} /\ ds[1] = d /\ ds[2] = e
  OBVIOUS
<1>2. Call!Some(ds, Call!IsSafe) => d.safe \/ e.safe
  BY <1>1 DEF Call!Some, Call!IsSafe
<1>3. Call!Some(ds, Call!IsSafe) \in BOOLEAN /\ Call!Some(ds, Call!Approves) \in BOOLEAN
  BY DEF Call!Some
<1>4. Call!Merged(ds) \in Decisions /\ (Call!Merged(ds).safe => d.safe \/ e.safe)
  BY <1>2, <1>3 DEF Call!Merged, Call!Decision, Decisions
<1>5. /\ Call!ResolveDelegableVeto(Call!Merged(ds)) \in Decisions
      /\ Call!ResolveDelegableVeto(Call!Merged(ds)).safe => d.safe \/ e.safe
  BY <1>4 DEF Call!ResolveDelegableVeto, Call!Decision, Decisions
<1> QED
  BY <1>4, <1>5 DEF Call!AllOf, Call!No, Call!Veto, Call!Decision, Decisions

LEMMA SafeOnTheProvidersWord ==
  ASSUME NEW policy \in PolicyNames, NEW a \in Call!Advices
  PROVE  Call!PolicyDecision(policy, a).safe => a.safety = "safe"
<1> DEFINE suggested == Call!ProviderSuggested(a)
           both == Call!AllOf(<<suggested, Call!Matched>>)
<1>1. /\ suggested \in Decisions /\ Call!Matched \in Decisions
      /\ Call!Approving \in Decisions
      /\ ~Call!No.safe /\ ~Call!Matched.safe /\ ~Call!Approving.safe
      /\ suggested.safe => a.safety = "safe"
  BY BasicDecisions
<1>2. Call!AnyOf(<<suggested, Call!Matched>>).safe => a.safety = "safe"
  BY <1>1, AnyOfSafe
<1>3. Call!AllOf(<<Call!Matched, suggested>>).safe => a.safety = "safe"
  BY <1>1, AllOfSafe
<1>4. both \in Decisions /\ (both.safe => a.safety = "safe")
  BY <1>1, AllOfSafe
<1>5. Call!AnyOf(<<both, Call!Approving>>).safe => a.safety = "safe"
  BY <1>1, <1>4, AnyOfSafe
<1> QED
  BY <1>1, <1>2, <1>3, <1>5 DEF Call!PolicyDecision, PolicyNames
------------------------------------------------------------------------------
(* What every step keeps.                                                   *)

LEMMA AdvicesAdjusted ==
  ASSUME NEW a \in Call!Advices, NEW timedOut \in BOOLEAN
  PROVE  /\ Call!WithTimeoutAuthority(a, timedOut) \in Call!Advices
         /\ Call!WithTimeoutAuthority(a, timedOut).safety = "safe" =>
              a.safety = "safe"
BY DEF Call!WithTimeoutAuthority, Call!Advices

Attempts == [number : Nat, taken : BOOLEAN, events : BOOLEAN,
             done : BOOLEAN, timer : {"off", "armed", "fired"}]

Usages == [used : Nat, recorded : Nat, failed : Nat, result : Nat]

LEMMA Fresh ==
  /\ \A number \in Nat, kind \in Call!Requests : Call!NewAttempt(number, kind) \in Attempts
  /\ Call!NoAdvice \in Call!Advices
  /\ Call!NoUsage \in Usages
  /\ Call!NoPast \in [taken : Nat, silent : BOOLEAN, aborted : BOOLEAN, approved : BOOLEAN]
BY DEF Call!NewAttempt, Call!NoAdvice, Call!NoUsage, Call!NoPast, Call!Advices, Attempts, Usages

LEMMA CallTypeInit == Call!Init => CallTypeOK
<1> SUFFICES ASSUME Call!Init PROVE CallTypeOK
  OBVIOUS
<1>1. attempt \in Attempts /\ advice \in Call!Advices
  BY Fresh DEF Call!Init
<1>2. /\ usage \in Usages
      /\ past \in [taken : Nat, silent : BOOLEAN, aborted : BOOLEAN, approved : BOOLEAN]
  BY Fresh DEF Call!Init
<1> QED
  BY <1>1, <1>2 DEF Call!Init, CallTypeOK, Attempts, Usages, CallPhases

LEMMA CallTypeStep == CallTypeOK /\ [Call!Next]_(Call!vars) => CallTypeOK'
<1> SUFFICES ASSUME CallTypeOK, [Call!Next]_(Call!vars) PROVE CallTypeOK'
  OBVIOUS
<1> USE DEF CallTypeOK, CallPhases
<1>1. ASSUME NEW kind \in Call!Requests, Call!Start(kind) PROVE CallTypeOK'
  BY <1>1, Fresh DEF Call!Start, Attempts, Usages
<1>2. ASSUME NEW used \in {0, 1}, Call!AttemptFails(used) PROVE CallTypeOK'
  <2>1. attempt' \in Attempts
    BY <1>2 DEF Call!AttemptFails, Attempts
  <2>2. usage' \in Usages
    <3> DEFINE recorded == IF request.handler THEN usage.recorded + used
                                              ELSE usage.recorded
    <3>1. usage' = [usage EXCEPT !.used     = usage.used + used,
                                 !.recorded = recorded,
                                 !.failed   = usage.failed + used]
      BY <1>2 DEF Call!AttemptFails
    <3>2. /\ usage.used + used \in Nat /\ usage.failed + used \in Nat
          /\ recorded \in Nat
      OBVIOUS
    <3> HIDE DEF recorded
    <3> QED
      BY <3>1, <3>2 DEF Usages
  <2> QED
    BY <1>2, <2>1, <2>2 DEF Call!AttemptFails, Attempts, Usages
<1>3. CASE Call!Take
  <2>1. attempt' \in Attempts
    BY <1>3 DEF Call!Take, Attempts
  <2>2. past' \in [taken : Nat, silent : BOOLEAN, aborted : BOOLEAN, approved : BOOLEAN]
    BY <1>3 DEF Call!Take
  <2> QED
    BY <1>3, <2>1, <2>2 DEF Call!Take, Attempts
<1>4. CASE Call!StreamEvent
  BY <1>2, <1>4 DEF Call!StreamEvent
<1>5. CASE Call!Respond
  <2>1. CASE Call!Overtaken
    BY <1>2, <1>5, <2>1 DEF Call!Respond
  <2>2. CASE ~Call!Overtaken
    <3>1. Call!AddFailedUsage \in Nat
      BY DEF Call!AddFailedUsage
    <3>2. usage' = [usage EXCEPT !.used   = usage.used + 1,
                                 !.result = 1 + Call!AddFailedUsage]
      BY <1>5, <2>2 DEF Call!Respond
    <3>3. usage' \in Usages
      <4>1. usage.used + 1 \in Nat /\ 1 + Call!AddFailedUsage \in Nat
        BY <3>1
      <4> QED
        BY <3>2, <4>1 DEF Usages
    <3> QED
      BY <1>5, <2>2, <3>3 DEF Call!Respond, Usages
  <2> QED
    BY <2>1, <2>2
<1>6. CASE Call!ModelFails
  BY <1>2, <1>6 DEF Call!ModelFails
<1>7. CASE Call!TimerFires \/ Call!Abort
  BY <1>7 DEF Call!TimerFires, Call!Abort
<1>8. CASE Call!GetRetryAdvice
  <2>1. PICK a \in Call!Advices :
          /\ advice' = Call!WithTimeoutAuthority(a, Call!TimedOut)
          /\ past' = [past EXCEPT
               !.silent = @ \/ Call!Silent(Call!WithTimeoutAuthority(a, Call!TimedOut))]
    BY <1>8 DEF Call!GetRetryAdvice
  <2>2. advice' \in Call!Advices
    BY <2>1, AdvicesAdjusted DEF Call!TimedOut
  <2>3. past' \in [taken : Nat, silent : BOOLEAN, aborted : BOOLEAN, approved : BOOLEAN]
    BY <2>1 DEF Call!Silent
  <2> QED
    BY <1>8, <2>2, <2>3 DEF Call!GetRetryAdvice
<1>9. ASSUME NEW b \in BOOLEAN, Call!Throw(b),
             UNCHANGED <<request, attempt, aborted, advice>>,
             past' \in [taken : Nat, silent : BOOLEAN, aborted : BOOLEAN, approved : BOOLEAN]
      PROVE  CallTypeOK'
  BY <1>9 DEF Call!Throw, Call!FinishFailure, Call!Requests
<1>10. Call!MayHaveBeenAccepted(advice) \in BOOLEAN
  BY DEF Call!MayHaveBeenAccepted, Call!Advices, Call!TimedOut, Call!Requests
<1>11. CASE Call!AdviceFails \/ Call!AdviceAborted
  <2>1. Call!TimedOutStateful \in BOOLEAN
    BY DEF Call!TimedOutStateful, Call!TimedOut, Call!Requests
  <2>2. past' \in [taken : Nat, silent : BOOLEAN, aborted : BOOLEAN, approved : BOOLEAN]
    BY <1>11, <2>1 DEF Call!AdviceFails, Call!AdviceAborted
  <2> QED
    BY <1>9, <1>11, <2>1, <2>2 DEF Call!AdviceFails, Call!AdviceAborted
<1>12. CASE LeavesAdvised
  BY <1>9, <1>10, <1>12 DEF LeavesAdvised, Call!PolicyFails, Call!DecisionAborted,
                            Call!GiveUp, Call!AbortedInDelay
<1>13. CASE Call!DecideToRetry
  BY <1>13 DEF Call!DecideToRetry
<1>14. CASE Call!Retry
  BY <1>14, Fresh DEF Call!Retry, Attempts
<1>15. CASE UNCHANGED Call!vars
  BY <1>15 DEF Call!vars
<1> QED
  BY <1>1, <1>3, <1>4, <1>5, <1>6, <1>7, <1>8, <1>11, <1>12, <1>13, <1>14, <1>15
     DEF Call!Next, Call!Provider, Call!Runner, Call!ThrowAbort, LeavesAdvised

(* Every part of a model call's state keeps its type.                       *)
THEOREM CallTypeCorrect == Call!Spec => []CallTypeOK
BY CallTypeInit, CallTypeStep, PTL DEF Call!Spec

------------------------------------------------------------------------------
(* While a call goes on, its failed attempts account for all that was used. *)
Going == phase \in {"calling", "advising", "deciding", "delaying"}

Accounted ==
  /\ Going => /\ usage.used = usage.failed
              /\ usage.recorded = IF request.handler THEN usage.failed ELSE 0
  /\ Call!UsageCountedOnce

LEMMA AccountedStep == CallTypeOK /\ Accounted /\ [Call!Next]_(Call!vars) => Accounted'
<1> SUFFICES ASSUME CallTypeOK, Accounted, [Call!Next]_(Call!vars) PROVE Accounted'
  OBVIOUS
<1> USE DEF CallTypeOK, Accounted, Call!UsageCountedOnce, Going
<1>1. ASSUME NEW kind \in Call!Requests, Call!Start(kind) PROVE Accounted'
  BY <1>1 DEF Call!Start, Call!NoUsage
<1>2. ASSUME NEW used \in {0, 1}, Call!AttemptFails(used), Going PROVE Accounted'
  BY <1>2 DEF Call!AttemptFails
<1>3. CASE Call!Take
  BY <1>3 DEF Call!Take
<1>4. CASE Call!StreamEvent
  BY <1>2, <1>4 DEF Call!StreamEvent
<1>5. CASE Call!Respond
  <2>1. CASE Call!Overtaken
    BY <1>2, <1>5, <2>1 DEF Call!Respond
  <2>2. CASE ~Call!Overtaken
    <3>1. /\ Going /\ phase' = "returned" /\ request' = request
          /\ usage' = [usage EXCEPT !.used   = @ + 1,
                                    !.result = 1 + Call!AddFailedUsage]
      BY <1>5, <2>2 DEF Call!Respond
    <3>2. Call!AddFailedUsage \in Nat
      BY DEF Call!AddFailedUsage
    <3>3. /\ usage'.used = usage.used + 1 /\ usage'.recorded = usage.recorded
          /\ usage'.result = 1 + Call!AddFailedUsage
      BY <3>1
    <3> QED
      BY <3>1, <3>2, <3>3 DEF Call!AddFailedUsage
  <2> QED
    BY <2>1, <2>2
<1>6. CASE Call!ModelFails
  BY <1>2, <1>6 DEF Call!ModelFails
<1>7. CASE Call!TimerFires \/ Call!Abort \/ Call!GetRetryAdvice \/ Call!DecideToRetry \/ Call!Retry
  BY <1>7 DEF Call!TimerFires, Call!Abort, Call!GetRetryAdvice, Call!DecideToRetry, Call!Retry
<1>8. ASSUME NEW b, Call!Throw(b), Going, request' = request PROVE Accounted'
  BY <1>8 DEF Call!Throw, Call!FinishFailure
<1>9. CASE Call!AdviceFails \/ Call!AdviceAborted \/ LeavesAdvised
  BY <1>8, <1>9 DEF Call!AdviceFails, Call!AdviceAborted, LeavesAdvised, Call!PolicyFails,
                    Call!DecisionAborted, Call!GiveUp, Call!AbortedInDelay
<1>10. CASE UNCHANGED Call!vars
  BY <1>10 DEF Call!vars
<1> QED
  BY <1>1, <1>3, <1>4, <1>5, <1>6, <1>7, <1>9, <1>10
     DEF Call!Next, Call!Provider, Call!Runner, Call!ThrowAbort, LeavesAdvised

(* What the attempts of a call used is counted exactly once when it is      *)
(* over: by the usage handler as they failed, or in the usage of the        *)
(* response or the error.                                                   *)
THEOREM UsageIsCountedOnce == Call!Spec => []Call!UsageCountedOnce
<1>1. Call!Init => Accounted
  BY DEF Call!Init, Accounted, Going, Call!UsageCountedOnce, Call!NoUsage
<1>2. Accounted => Call!UsageCountedOnce
  BY DEF Accounted
<1> QED
  BY <1>1, <1>2, AccountedStep, CallTypeCorrect, PTL DEF Call!Spec

------------------------------------------------------------------------------
(* An attempt that was taken is known as possibly accepted from the moment  *)
(* its advice is there.                                                     *)
Reportable ==
  /\ phase \in {"deciding", "delaying"} /\ attempt.taken =>
       Call!MayHaveBeenAccepted(advice) \/ past.silent
  /\ Call!AcceptanceIsReported

LEMMA ReportableStep == CallTypeOK /\ Reportable /\ [Call!Next]_(Call!vars) => Reportable'
<1> SUFFICES ASSUME CallTypeOK, Reportable, [Call!Next]_(Call!vars) PROVE Reportable'
  OBVIOUS
<1> USE DEF CallTypeOK, Reportable, Call!AcceptanceIsReported
<1>1. ASSUME NEW kind \in Call!Requests, Call!Start(kind) PROVE Reportable'
  BY <1>1 DEF Call!Start
<1>2. ASSUME NEW used, Call!AttemptFails(used) PROVE Reportable'
  BY <1>2 DEF Call!AttemptFails
<1>3. CASE Call!Take
  BY <1>3 DEF Call!Take
<1>4. CASE Call!StreamEvent \/ Call!Respond \/ Call!ModelFails
  BY <1>2, <1>4 DEF Call!StreamEvent, Call!Respond, Call!ModelFails
<1>5. CASE Call!TimerFires
  BY <1>5 DEF Call!TimerFires
<1>6. CASE Call!Abort
  BY <1>6 DEF Call!Abort, Call!MayHaveBeenAccepted, Call!TimedOut
<1>7. CASE Call!GetRetryAdvice
  <2>1. PICK a \in Call!Advices :
          /\ advice' = Call!WithTimeoutAuthority(a, Call!TimedOut)
          /\ past' = [past EXCEPT
               !.silent = @ \/ Call!Silent(Call!WithTimeoutAuthority(a, Call!TimedOut))]
    BY <1>7 DEF Call!GetRetryAdvice
  <2>2. attempt' = attempt /\ request' = request /\ phase' = "deciding"
    BY <1>7 DEF Call!GetRetryAdvice
  <2>3. past'.silent = (past.silent \/ Call!Silent(Call!WithTimeoutAuthority(a, Call!TimedOut)))
    BY <2>1
  <2>4. Call!Silent(advice') => past'.silent
    BY <2>1, <2>3
  <2> QED
    BY <2>2, <2>4 DEF Call!Silent, Call!MayHaveBeenAccepted, Call!TimedOut
<1>8. CASE Call!AdviceFails \/ Call!AdviceAborted
  <2>1. /\ attempt' = attempt /\ reported' = Call!TimedOutStateful
        /\ attempt.taken /\ ~Call!TimedOutStateful => past'.silent \/ past'.aborted
    BY <1>8 DEF Call!AdviceFails, Call!AdviceAborted, Call!Throw
  <2> QED
    BY <1>8, <2>1 DEF Call!AdviceFails, Call!AdviceAborted, Call!Throw
<1>9. CASE LeavesAdvised
  BY <1>9 DEF LeavesAdvised, Call!PolicyFails, Call!DecisionAborted, Call!GiveUp,
              Call!AbortedInDelay, Call!Throw
<1>10. CASE Call!DecideToRetry
  BY <1>10 DEF Call!DecideToRetry, Call!MayHaveBeenAccepted, Call!TimedOut
<1>11. CASE Call!Retry
  BY <1>11 DEF Call!Retry
<1>12. CASE UNCHANGED Call!vars
  BY <1>12 DEF Call!vars, Call!MayHaveBeenAccepted, Call!TimedOut
<1> QED
  BY <1>1, <1>3, <1>4, <1>5, <1>6, <1>7, <1>8, <1>9, <1>10, <1>11, <1>12
     DEF Call!Next, Call!Provider, Call!Runner, Call!ThrowAbort, LeavesAdvised

(* A failed call reports that its last request may have been accepted on    *)
(* every way out: always if it timed out and is stateful, otherwise unless  *)
(* the provider gave no advice or none that says so, or the caller's abort  *)
(* came before the advice.                                                  *)
THEOREM AcceptanceAlwaysReported == Call!Spec => []Call!AcceptanceIsReported
<1>1. Call!Init => Reportable
  BY DEF Call!Init, Reportable, Call!AcceptanceIsReported
<1>2. Reportable => Call!AcceptanceIsReported
  BY DEF Reportable
<1> QED
  BY <1>1, <1>2, ReportableStep, CallTypeCorrect, PTL DEF Call!Spec

------------------------------------------------------------------------------
(* Until an unsafe replay is approved, a stateful call is only replayed     *)
(* after attempts that were not taken.                                      *)
TakenOnce ==
  /\ phase = "deciding" /\ advice.safety = "safe" => ~attempt.taken
  /\ request.stateful /\ ~past.approved =>
       /\ past.taken <= 1
       /\ ~attempt.taken => past.taken = 0
       /\ phase = "delaying" => past.taken = 0

LEMMA TakenOnceStep ==
  ASSUME Policies \subseteq PolicyNames
  PROVE  CallTypeOK /\ TakenOnce /\ [Call!Next]_(Call!vars) => TakenOnce'
<1> SUFFICES ASSUME CallTypeOK, TakenOnce, [Call!Next]_(Call!vars) PROVE TakenOnce'
  OBVIOUS
<1> USE DEF CallTypeOK, TakenOnce
<1>1. ASSUME NEW kind \in Call!Requests, Call!Start(kind) PROVE TakenOnce'
  BY <1>1 DEF Call!Start, Call!NoPast
<1>2. ASSUME NEW used, Call!AttemptFails(used), phase = "calling" PROVE TakenOnce'
  BY <1>2 DEF Call!AttemptFails
<1>3. CASE Call!Take
  <2>1. /\ past'.taken = past.taken + 1 /\ past'.approved = past.approved
        /\ attempt'.taken /\ request' = request /\ phase = "calling"
        /\ phase' = phase /\ ~attempt.taken
    BY <1>3 DEF Call!Take
  <2> QED
    BY <2>1
<1>4. CASE Call!StreamEvent \/ Call!Respond \/ Call!ModelFails
  BY <1>2, <1>4 DEF Call!StreamEvent, Call!Respond, Call!ModelFails
<1>5. CASE Call!TimerFires \/ Call!Abort
  BY <1>5 DEF Call!TimerFires, Call!Abort
<1>6. CASE Call!GetRetryAdvice
  <2>1. PICK a \in Call!Advices :
          /\ a.safety = "safe" => ~attempt.taken
          /\ advice' = Call!WithTimeoutAuthority(a, Call!TimedOut)
          /\ past' = [past EXCEPT
               !.silent = @ \/ Call!Silent(Call!WithTimeoutAuthority(a, Call!TimedOut))]
    BY <1>6 DEF Call!GetRetryAdvice
  <2>2. advice'.safety = "safe" => ~attempt.taken
    BY <2>1, AdvicesAdjusted DEF Call!TimedOut
  <2>3. /\ attempt' = attempt /\ request' = request
        /\ phase = "advising" /\ phase' = "deciding"
    BY <1>6 DEF Call!GetRetryAdvice
  <2>4. past'.taken = past.taken /\ past'.approved = past.approved
    BY <2>1
  <2> QED
    BY <2>2, <2>3, <2>4
<1>7. CASE Call!AdviceFails \/ Call!AdviceAborted \/ LeavesAdvised
  BY <1>7 DEF Call!AdviceFails, Call!AdviceAborted, LeavesAdvised, Call!PolicyFails,
              Call!DecisionAborted, Call!GiveUp, Call!AbortedInDelay, Call!Throw
<1>8. CASE Call!DecideToRetry
  <2> DEFINE d == Call!PolicyDecision(request.policy, advice)
  <2>1. /\ phase = "deciding" /\ phase' = "delaying"
        /\ request' = request /\ attempt' = attempt
        /\ past'.taken = past.taken
        /\ past'.approved = (past.approved \/ d.approve)
        /\ Call!ReplayAllowed(d, advice)
    BY <1>8 DEF Call!DecideToRetry, Call!EvaluateRetry
  <2>2. request.policy \in PolicyNames
    BY DEF Call!Requests
  <2>3. d.safe => advice.safety = "safe"
    BY <2>2, SafeOnTheProvidersWord
  <2> HIDE DEF d
  <2>4. CASE request.stateful /\ ~past'.approved
    <3>1. ~past.approved /\ ~d.approve
      BY <2>1, <2>4
    <3>2. advice.safety = "safe"
      BY <2>1, <2>3, <2>4, <3>1 DEF Call!ReplayAllowed
    <3> QED
      BY <2>1, <2>4, <3>1, <3>2
  <2>5. CASE ~(request.stateful /\ ~past'.approved)
    BY <2>1, <2>5
  <2> QED
    BY <2>4, <2>5
<1>9. CASE Call!Retry
  BY <1>9 DEF Call!Retry, Call!NewAttempt
<1>10. CASE UNCHANGED Call!vars
  BY <1>10 DEF Call!vars
<1> QED
  BY <1>1, <1>3, <1>4, <1>5, <1>6, <1>7, <1>8, <1>9, <1>10
     DEF Call!Next, Call!Provider, Call!Runner, Call!ThrowAbort, LeavesAdvised

(* Whatever the policies, the timeouts and the advice, the request of a     *)
(* stateful call is taken by the provider at most once, unless the          *)
(* application approved an unsafe replay.                                   *)
THEOREM StatefulRequestTakenOnce ==
  ASSUME Policies \subseteq PolicyNames
  PROVE  Call!Spec => []Call!RequestTakenOnce
<1>1. Call!Init => TakenOnce
  BY DEF Call!Init, TakenOnce, Call!NoPast, Call!NewAttempt
<1>2. CallTypeOK /\ TakenOnce => Call!RequestTakenOnce
  BY DEF CallTypeOK, TakenOnce, Call!RequestTakenOnce
<1> QED
  BY <1>1, <1>2, TakenOnceStep, CallTypeCorrect, PTL DEF Call!Spec


------------------------------------------------------------------------------
(* What holds of one call holds of all the calls of a conversation.         *)

LEMMA SameProperties ==
  /\ AcceptanceIsReported <=> Call!AcceptanceIsReported
  /\ UsageCountedOnce <=> Call!UsageCountedOnce
  /\ RequestTakenOnce <=> Call!RequestTakenOnce
BY DEF AcceptanceIsReported, UsageCountedOnce, RequestTakenOnce

(* No failed call of a conversation leaves without a report that its        *)
(* request may have been accepted, unless no timeout of a stateful call     *)
(* shows it and the provider kept silent or the caller's abort came before  *)
(* the advice.                                                              *)
THEOREM FailedCallsAreReported == Spec => []AcceptanceIsReported
BY CallsAreRetried, SameProperties, AcceptanceAlwaysReported, PTL

(* What each call of a conversation used is counted exactly once.           *)
THEOREM CallUsageCountedOnce == Spec => []UsageCountedOnce
BY CallsAreRetried, SameProperties, UsageIsCountedOnce, PTL

(* Under the runner's own policies a request that continues a conversation  *)
(* is taken at most once, unless an unsafe replay was approved.             *)
THEOREM CallsAreTakenOnce ==
  ASSUME Policies \subseteq PolicyNames
  PROVE  Spec => []RequestTakenOnce
BY CallsAreRetried, SameProperties, StatefulRequestTakenOnce, PTL

------------------------------------------------------------------------------
(* What the filters and the concatenations of the model do with lists.      *)
(* Only is recursive; its properties are proved by induction, as the least  *)
(* element of a set of numbers.                                             *)

(* A set of numbers with 0 and all successors is Nat.                       *)
LEMMA AllNumbers ==
  ASSUME NEW S \in SUBSET Nat, 0 \in S, \A n \in S : n + 1 \in S
  PROVE  S = Nat
<1> DEFINE Less == OpToRel(<, Nat)
           Rest == Nat \ S
<1>1. \A m, n \in Nat : m < n => <<m, n>> \in Less
  BY DEF OpToRel
<1>2. IsWellFoundedOn(Less, Nat)
  BY NatLessThanWellFounded
<1> SUFFICES ASSUME Rest # {} PROVE FALSE
  OBVIOUS
<1>3. Rest \subseteq Nat
  OBVIOUS
<1> HIDE DEF Less, Rest
<1>4. \E x \in Rest : \A y \in Rest : ~ (<<y, x>> \in Less)
  BY <1>2, <1>3, WFMin
<1>5. PICK x \in Rest : \A y \in Rest : ~ (<<y, x>> \in Less)
  BY <1>4
<1>6. x \in Nat /\ x \notin S
  BY DEF Rest
<1>7. x - 1 \in Nat /\ x - 1 < x /\ (x - 1) + 1 = x
  BY <1>6
<1>8. x - 1 \in S
  BY <1>1, <1>5, <1>6, <1>7 DEF Rest
<1> QED BY <1>6, <1>7, <1>8

(* What the recursion of Only computes for the first n elements.            *)
IsFilter(f, list, set, n) ==
  f = [i \in 0 .. n |->
        IF i = 0 THEN << >>
        ELSE IF list[i] \in set THEN Append(f[i - 1], list[i])
        ELSE f[i - 1]]

LEMMA FilterExists ==
  ASSUME NEW list, NEW set, NEW n \in Nat
  PROVE  \E f : IsFilter(f, list, set, n)
<1> DEFINE S == {m \in Nat : \E f : IsFilter(f, list, set, m)}
<1>1. 0 \in S
  <2>1. IsFilter([i \in 0 .. 0 |-> << >>], list, set, 0)
    BY DEF IsFilter
  <2> QED BY <2>1
<1>2. ASSUME NEW m \in S PROVE m + 1 \in S
  <2>1. PICK f : IsFilter(f, list, set, m)
    OBVIOUS
  <2> DEFINE last == IF list[m + 1] \in set THEN Append(f[m], list[m + 1]) ELSE f[m]
             g == [i \in 0 .. m + 1 |-> IF i = m + 1 THEN last ELSE f[i]]
  <2>2. m \in Nat /\ DOMAIN f = 0 .. m
    BY <2>1 DEF IsFilter
  <2>3. \A i \in 0 .. m :
          f[i] = IF i = 0 THEN << >>
                 ELSE IF list[i] \in set THEN Append(f[i - 1], list[i])
                 ELSE f[i - 1]
    BY <2>1, <2>2 DEF IsFilter
  <2>4. g[m + 1] = last /\ \A i \in 0 .. m : g[i] = f[i]
    BY <2>2
  <2>5. ASSUME NEW i \in 0 .. m + 1
        PROVE g[i] = IF i = 0 THEN << >>
                     ELSE IF list[i] \in set THEN Append(g[i - 1], list[i])
                     ELSE g[i - 1]
    <3>1. CASE i = m + 1
      <4>1. i # 0 /\ i - 1 = m /\ m \in 0 .. m
        BY <3>1, <2>2
      <4> QED BY <3>1, <4>1, <2>4
    <3>2. CASE i # m + 1
      <4>1. i \in 0 .. m /\ (i # 0 => i - 1 \in 0 .. m)
        BY <3>2, <2>2
      <4> HIDE DEF g, last
      <4> QED BY <4>1, <2>3, <2>4
    <3> QED BY <3>1, <3>2
  <2>6. IsFilter(g, list, set, m + 1)
    BY <2>5 DEF IsFilter
  <2> QED BY <2>6
<1> HIDE DEF S
<1>3. S = Nat
  BY <1>1, <1>2, AllNumbers DEF S
<1> QED BY <1>3 DEF S

(* Only, step by step.                                                      *)
LEMMA OnlyByStep ==
  ASSUME NEW T, NEW list \in Seq(T), NEW set
  PROVE  \E f : /\ Only(list, set) = f[Len(list)]
                /\ f[0] = << >>
                /\ \A i \in 1 .. Len(list) :
                     f[i] = IF list[i] \in set THEN Append(f[i - 1], list[i])
                            ELSE f[i - 1]
<1> DEFINE k == CHOOSE f : IsFilter(f, list, set, Len(list))
<1>1. Len(list) \in Nat
  OBVIOUS
<1>2. IsFilter(k, list, set, Len(list))
  BY <1>1, FilterExists
<1>3. Only(list, set) = k[Len(list)]
  BY <1>2 DEF Only, IsFilter
<1> HIDE DEF k
<1>4. k[0] = << >>
  BY <1>1, <1>2 DEF IsFilter
<1>5. ASSUME NEW i \in 1 .. Len(list)
      PROVE  k[i] = IF list[i] \in set THEN Append(k[i - 1], list[i]) ELSE k[i - 1]
  <2>1. i \in 0 .. Len(list) /\ i # 0
    BY <1>1
  <2> QED BY <2>1, <1>2 DEF IsFilter
<1> QED BY <1>3, <1>4, <1>5

(* One more element of a list without repetitions.                          *)
LEMMA AppendDistinct ==
  ASSUME NEW T, NEW list \in Seq(T), NEW e \in T
  PROVE  /\ Append(list, e) \in Seq(T)
         /\ ToSet(Append(list, e)) = ToSet(list) \cup {e}
         /\ IsInjective(list) /\ e \notin ToSet(list) => IsInjective(Append(list, e))
<1>1. Len(Append(list, e)) = Len(list) + 1 /\ Append(list, e)[Len(list) + 1] = e
  OBVIOUS
<1>2. \A i \in 1 .. Len(list) : Append(list, e)[i] = list[i]
  OBVIOUS
<1>3. DOMAIN Append(list, e) = 1 .. Len(list) + 1 /\ DOMAIN list = 1 .. Len(list)
  OBVIOUS
<1>4. ToSet(Append(list, e)) = ToSet(list) \cup {e}
  BY <1>1, <1>2, <1>3 DEF ToSet
<1>5. ASSUME IsInjective(list), e \notin ToSet(list)
      PROVE  IsInjective(Append(list, e))
  BY <1>1, <1>2, <1>3, <1>5 DEF IsInjective, ToSet
<1> QED BY <1>4, <1>5

(* Only keeps the elements that are in the set, each as often as it was.    *)
LEMMA OnlyIsFilter ==
  ASSUME NEW T, NEW list \in Seq(T), NEW set
  PROVE  /\ Only(list, set) \in Seq(T)
         /\ ToSet(Only(list, set)) = ToSet(list) \cap set
         /\ IsInjective(list) => IsInjective(Only(list, set))
<1>1. PICK f : /\ Only(list, set) = f[Len(list)]
               /\ f[0] = << >>
               /\ \A i \in 1 .. Len(list) :
                    f[i] = IF list[i] \in set THEN Append(f[i - 1], list[i])
                           ELSE f[i - 1]
  BY OnlyByStep
<1> DEFINE First(n) == {list[i] : i \in 1 .. n}
           Good(n) == /\ f[n] \in Seq(T)
                      /\ ToSet(f[n]) = First(n) \cap set
                      /\ IsInjective(list) => IsInjective(f[n])
           S == {n \in Nat : n <= Len(list) => Good(n)}
<1>2. Len(list) \in Nat /\ DOMAIN list = 1 .. Len(list)
  OBVIOUS
<1>3. 0 \in S
  <2>1. f[0] \in Seq(T) /\ DOMAIN f[0] = {} /\ First(0) = {}
    BY <1>1
  <2> QED BY <2>1 DEF ToSet, IsInjective
<1>4. ASSUME NEW n \in S PROVE n + 1 \in S
  <2> SUFFICES ASSUME n + 1 <= Len(list) PROVE Good(n + 1)
    OBVIOUS
  <2>1. n \in Nat /\ n + 1 \in 1 .. Len(list) /\ Good(n)
    BY <1>2
  <2> DEFINE e == list[n + 1]
  <2>2. f[n + 1] = IF e \in set THEN Append(f[n], e) ELSE f[n]
    BY <2>1, <1>1
  <2>3. e \in T /\ First(n + 1) = First(n) \cup {e}
    BY <2>1, <1>2
  <2>4. IsInjective(list) => e \notin First(n)
    BY <2>1, <1>2 DEF IsInjective
  <2>5. CASE e \in set
    <3>1. /\ Append(f[n], e) \in Seq(T)
          /\ ToSet(Append(f[n], e)) = ToSet(f[n]) \cup {e}
          /\ IsInjective(f[n]) /\ e \notin ToSet(f[n]) => IsInjective(Append(f[n], e))
      BY <2>1, <2>3, AppendDistinct
    <3> HIDE DEF e, First
    <3> QED BY <3>1, <2>1, <2>2, <2>3, <2>4, <2>5
  <2>6. CASE e \notin set
    <3> HIDE DEF e, First
    <3> QED BY <2>1, <2>2, <2>3, <2>4, <2>6
  <2> QED BY <2>5, <2>6
<1> HIDE DEF S, Good
<1>5. S = Nat
  BY <1>3, <1>4, AllNumbers DEF S
<1>6. Good(Len(list))
  BY <1>2, <1>5 DEF S
<1>7. First(Len(list)) = ToSet(list)
  BY <1>2 DEF ToSet
<1> QED BY <1>1, <1>6, <1>7 DEF Good

LEMMA ConcatIsUnion ==
  ASSUME NEW T, NEW a \in Seq(T), NEW b \in Seq(T)
  PROVE  /\ a \o b \in Seq(T)
         /\ ToSet(a \o b) = ToSet(a) \cup ToSet(b)
         /\ IsInjective(a) /\ IsInjective(b) /\ ToSet(a) \cap ToSet(b) = {}
              => IsInjective(a \o b)
<1>1. /\ Len(a) \in Nat /\ DOMAIN a = 1 .. Len(a)
      /\ Len(b) \in Nat /\ DOMAIN b = 1 .. Len(b)
      /\ DOMAIN (a \o b) = 1 .. Len(a) + Len(b)
  OBVIOUS
<1>2. \A i \in 1 .. Len(a) : (a \o b)[i] = a[i]
  OBVIOUS
<1>3. \A i \in 1 .. Len(a) + Len(b) : i > Len(a) =>
        (a \o b)[i] = b[i - Len(a)] /\ i - Len(a) \in 1 .. Len(b)
  BY <1>1
<1>4. \A i \in 1 .. Len(b) :
        (a \o b)[Len(a) + i] = b[i] /\ Len(a) + i \in 1 .. Len(a) + Len(b)
  BY <1>1
<1>5. ToSet(a \o b) = ToSet(a) \cup ToSet(b)
  <2>1. ToSet(a \o b) \subseteq ToSet(a) \cup ToSet(b)
    BY <1>1, <1>2, <1>3 DEF ToSet
  <2>2. ToSet(a) \subseteq ToSet(a \o b)
    BY <1>1, <1>2 DEF ToSet
  <2>3. ToSet(b) \subseteq ToSet(a \o b)
    BY <1>1, <1>4 DEF ToSet
  <2> QED BY <2>1, <2>2, <2>3
<1>6. ASSUME IsInjective(a), IsInjective(b), ToSet(a) \cap ToSet(b) = {}
      PROVE  IsInjective(a \o b)
  <2> SUFFICES ASSUME NEW i \in 1 .. Len(a) + Len(b), NEW j \in 1 .. Len(a) + Len(b),
                      (a \o b)[i] = (a \o b)[j]
               PROVE  i = j
    BY <1>1 DEF IsInjective
  <2>1. CASE i <= Len(a) /\ j <= Len(a)
    BY <2>1, <1>1, <1>2, <1>6 DEF IsInjective
  <2>2. CASE i > Len(a) /\ j > Len(a)
    BY <2>2, <1>1, <1>3, <1>6 DEF IsInjective
  <2>3. CASE i <= Len(a) /\ j > Len(a)
    <3>1. (a \o b)[i] \in ToSet(a) /\ (a \o b)[j] \in ToSet(b)
      BY <2>3, <1>1, <1>2, <1>3 DEF ToSet
    <3> QED BY <3>1, <1>6
  <2>4. CASE i > Len(a) /\ j <= Len(a)
    <3>1. (a \o b)[i] \in ToSet(b) /\ (a \o b)[j] \in ToSet(a)
      BY <2>4, <1>1, <1>2, <1>3 DEF ToSet
    <3> QED BY <3>1, <1>6
  <2> QED BY <2>1, <2>2, <2>3, <2>4, <1>1
<1> QED BY <1>5, <1>6

LEMMA WithoutIsFilter ==
  ASSUME NEW T, NEW list \in Seq(T), NEW set
  PROVE  /\ Without(list, set) \in Seq(T)
         /\ ToSet(Without(list, set)) = ToSet(list) \ set
         /\ IsInjective(list) => IsInjective(Without(list, set))
<1>1. /\ Without(list, set) \in Seq(T)
      /\ ToSet(Without(list, set)) = ToSet(list) \cap (ToSet(list) \ set)
      /\ IsInjective(list) => IsInjective(Without(list, set))
  BY OnlyIsFilter DEF Without
<1> QED BY <1>1

------------------------------------------------------------------------------
(* Items: which there are, and which are different.                         *)
ItemKinds == {"input", "staged", "message", "call", "approvalCall", "result",
              "approvalResult"}

Items == {Item(kind, n) : kind \in ItemKinds, n \in Nat}

TurnKinds == ItemKinds \ {"input", "staged"}

Inputs    == ToSet(Initial)
Staged(S) == {Item("staged", n) : n \in S}
Of(r)     == {Item(kind, r) : kind \in TurnKinds}
Turned(r) == UNION {Of(n) : n \in 1 .. r}

LEMMA ItemsDiffer ==
  ASSUME NEW k, NEW l, NEW m, NEW n
  PROVE  Item(k, m) = Item(l, n) <=> k = l /\ m = n
BY DEF Item

LEMMA InitialIsDistinct ==
  /\ Initial \in Seq(Items)
  /\ IsInjective(Initial)
  /\ Inputs = {Item("input", n) : n \in 1 .. InitialItems}
<1>1. InitialItems \in Nat
  BY ConversationAssumption DEF ConversationAssumption
<1>2. \A n \in 1 .. InitialItems : Item("input", n) \in Items
  BY <1>1 DEF Items, ItemKinds
<1>3. DOMAIN Initial = 1 .. InitialItems
      /\ \A n \in 1 .. InitialItems : Initial[n] = Item("input", n)
  BY DEF Initial
<1>4. Initial \in Seq(Items)
  BY <1>1, <1>2 DEF Initial
<1>5. IsInjective(Initial)
  BY <1>3, ItemsDiffer DEF IsInjective
<1>6. Inputs = {Item("input", n) : n \in 1 .. InitialItems}
  BY <1>3 DEF Inputs, ToSet
<1> QED BY <1>4, <1>5, <1>6

(* The kinds of items, as sets that do not meet.                            *)
LEMMA ItemSets ==
  /\ \A S : Inputs \cap Staged(S) = {}
  /\ \A r : Inputs \cap Of(r) = {}
  /\ \A S, r : Staged(S) \cap Of(r) = {}
  /\ \A r : Inputs \cap Turned(r) = {}
  /\ \A S, r : Staged(S) \cap Turned(r) = {}
  /\ \A q, r : q # r => Of(q) \cap Of(r) = {}
  /\ \A S, n : Item("staged", n) \in Staged(S) <=> n \in S
  /\ \A r \in Nat : Of(r) \subseteq Items
  /\ \A S \in SUBSET Nat : Staged(S) \subseteq Items
  /\ Inputs \subseteq Items
<1>1. /\ \A S : Inputs \cap Staged(S) = {}
      /\ \A r : Inputs \cap Of(r) = {}
  BY InitialIsDistinct, ItemsDiffer DEF Staged, Of, TurnKinds, ItemKinds
<1>2. \A S, r : Staged(S) \cap Of(r) = {}
  BY ItemsDiffer DEF Staged, Of, TurnKinds, ItemKinds
<1>3. /\ \A r : Inputs \cap Turned(r) = {}
      /\ \A S, r : Staged(S) \cap Turned(r) = {}
  BY <1>1, <1>2 DEF Turned
<1>4. \A q, r : q # r => Of(q) \cap Of(r) = {}
  BY ItemsDiffer DEF Of
<1>5. \A S, n : Item("staged", n) \in Staged(S) <=> n \in S
  BY ItemsDiffer DEF Staged
<1>6. /\ \A r \in Nat : Of(r) \subseteq Items
      /\ \A S \in SUBSET Nat : Staged(S) \subseteq Items
  BY DEF Of, Staged, Items, TurnKinds, ItemKinds
<1>7. Inputs \subseteq Items
  BY InitialIsDistinct, ConversationAssumption
     DEF ConversationAssumption, Items, ItemKinds
<1> QED BY <1>1, <1>2, <1>3, <1>4, <1>5, <1>6, <1>7

LEMMA TurnedGrows ==
  ASSUME NEW r \in Nat
  PROVE  /\ Turned(r + 1) = Turned(r) \cup Of(r + 1)
         /\ Turned(r) \cap Of(r + 1) = {}
         /\ Turned(r) \subseteq Items
         /\ r > 0 => Of(r) \subseteq Turned(r)
<1>1. 1 .. r + 1 = 1 .. r \cup {r + 1}
  OBVIOUS
<1>2. Turned(r + 1) = Turned(r) \cup Of(r + 1)
  BY <1>1 DEF Turned
<1>3. Turned(r) \cap Of(r + 1) = {}
  <2>1. \A n \in 1 .. r : n # r + 1
    OBVIOUS
  <2> QED BY <2>1, ItemSets DEF Turned
<1>4. Turned(r) \subseteq Items
  BY ItemSets DEF Turned
<1>5. r > 0 => Of(r) \subseteq Turned(r)
  BY DEF Turned
<1> QED BY <1>2, <1>3, <1>4, <1>5

(* What the model answers, and the results of its calls.                    *)
LEMMA AnswerHasItems ==
  ASSUME NEW answer \in Answers, NEW r \in Nat
  PROVE  /\ OutputOf(answer, r) \in Seq(Items)
         /\ IsInjective(OutputOf(answer, r))
         /\ ToSet(OutputOf(answer, r)) \subseteq Of(r)
         /\ ToSet(OutputOf(answer, r)) \cap ResultsOf(r) = {}
<1>1. /\ Item("message", r) \in Items /\ Item("call", r) \in Items
      /\ Item("approvalCall", r) \in Items
  BY DEF Items, ItemKinds
<1>2. /\ Item("message", r) \in Of(r) /\ Item("call", r) \in Of(r)
      /\ Item("approvalCall", r) \in Of(r)
  BY DEF Of, TurnKinds, ItemKinds
<1>3. /\ Item("message", r) \notin ResultsOf(r) /\ Item("call", r) \notin ResultsOf(r)
      /\ Item("approvalCall", r) \notin ResultsOf(r)
  BY ItemsDiffer DEF ResultsOf
<1>4. Item("call", r) # Item("approvalCall", r)
  BY ItemsDiffer
<1>5. CASE answer = "message"
  BY <1>1, <1>2, <1>3, <1>5 DEF OutputOf, ToSet, IsInjective
<1>6. CASE answer = "call"
  BY <1>1, <1>2, <1>3, <1>6 DEF OutputOf, ToSet, IsInjective
<1>7. CASE answer = "both"
  BY <1>1, <1>2, <1>3, <1>4, <1>7 DEF OutputOf, ToSet, IsInjective
<1> QED BY <1>5, <1>6, <1>7 DEF Answers

LEMMA ResultsAreItems ==
  \A r : /\ ResultsOf(r) \subseteq Of(r)
          /\ Item("result", r) \in ResultsOf(r)
          /\ Item("approvalResult", r) \in ResultsOf(r)
BY DEF ResultsOf, Of, TurnKinds, ItemKinds

LEMMA OutputsAre ==
  ASSUME NEW responses \in Seq(Answers)
  PROVE  /\ Outputs(responses) \subseteq Turned(Len(responses))
         /\ \A r : Outputs(responses) \cap ResultsOf(r) = {}
         /\ responses = << >> => Outputs(responses) = {}
         /\ \A answer \in Answers :
              Outputs(Append(responses, answer)) =
                Outputs(responses) \cup ToSet(OutputOf(answer, Len(responses) + 1))
<1> DEFINE n == Len(responses)
<1>1. n \in Nat /\ DOMAIN responses = 1 .. n
      /\ \A r \in 1 .. n : responses[r] \in Answers
  OBVIOUS
<1>2. ASSUME NEW r \in 1 .. n
      PROVE  /\ ToSet(OutputOf(responses[r], r)) \subseteq Of(r)
             /\ ToSet(OutputOf(responses[r], r)) \cap ResultsOf(r) = {}
  <2>1. r \in Nat /\ responses[r] \in Answers
    BY <1>1
  <2> QED BY <2>1, AnswerHasItems
<1>3. Outputs(responses) \subseteq Turned(n)
  BY <1>1, <1>2 DEF Outputs, Turned
<1>4. ASSUME NEW r PROVE Outputs(responses) \cap ResultsOf(r) = {}
  <2>1. ASSUME NEW q \in 1 .. n
        PROVE  ToSet(OutputOf(responses[q], q)) \cap ResultsOf(r) = {}
    <3>1. CASE q = r
      BY <3>1, <1>2
    <3>2. CASE q # r
      BY <3>2, <1>2, ItemSets, ResultsAreItems
    <3> QED BY <3>1, <3>2
  <2> QED BY <2>1, <1>1 DEF Outputs
<1>5. responses = << >> => Outputs(responses) = {}
  BY DEF Outputs
<1>6. ASSUME NEW answer \in Answers
      PROVE  Outputs(Append(responses, answer)) =
               Outputs(responses) \cup ToSet(OutputOf(answer, n + 1))
  <2>1. /\ DOMAIN Append(responses, answer) = 1 .. n \cup {n + 1}
        /\ Append(responses, answer)[n + 1] = answer
        /\ \A r \in 1 .. n : Append(responses, answer)[r] = responses[r]
    BY <1>1
  <2> QED BY <1>1, <2>1 DEF Outputs
<1> QED BY <1>3, <1>4, <1>5, <1>6

------------------------------------------------------------------------------
(* The invariant.  First the types of the variables.                        *)
Trackers == [initialSent : BOOLEAN, remaining : SUBSET Items,
             sent : SUBSET Items, server : SUBSET Items]

States == [step : {"run_again", "interruption", "final", "accepted"},
           accepted : {"no", "lost", "processed", "started"},
           responses : Seq(Answers), generated : Seq(Items),
           pending : Seq(Nat)]

Sendings == [turn : Seq(Items), input : Seq(Items), marked : BOOLEAN]

Histories == [runs : Nat, staged : Nat, dropped : SUBSET Items,
              abandoned : SUBSET Nat, excused : BOOLEAN]

TypeOK ==
  /\ chain \in BOOLEAN
  /\ held \in Seq(Items)
  /\ tracker \in Trackers
  /\ state \in States
  /\ sending \in Sendings
  /\ pc \in {"idle", "loop", "calling", "resolving"}
  /\ history \in Histories

(* The items of the state, of the server and of the turn, as sets.          *)
Generated == ToSet(state.generated)
Waiting   == Staged(ToSet(state.pending))
Holding   == ToSet(held)
Turn      == ToSet(sending.turn)
Input     == ToSet(sending.input)
Given     == Holding \cup history.dropped
Asked     == state.responses # << >>
Server    == Outputs(state.responses)
IsLost    == state.step = "accepted" /\ state.accepted = "lost"
IsOpen    == state.step = "accepted" /\ state.accepted # "lost"

Known == Inputs \cup Staged(1 .. history.staged) \cup Turned(Latest)

(* Which steps of the state go with which places of the run.                *)
Places ==
  /\ pc = "calling" <=> phase \notin {"returned", "thrown"}
  /\ pc = "calling" => state.step = "run_again" \/ IsLost
  /\ pc = "resolving" => state.step \in {"run_again", "accepted"} /\ Asked
  /\ state.step = "accepted" <=> state.accepted # "no"
  /\ state.step = "interruption" \/ IsOpen => Asked
  /\ pc # "calling" /\ Secret(past) => history.excused
  /\ request.stateful

(* No item comes from nowhere: each is of the input, was staged, or belongs *)
(* to a response that there was.                                            *)
Numbered ==
  /\ Generated \subseteq Server \cup Staged(1 .. history.staged)
                                \cup UNION {ResultsOf(r) : r \in 1 .. Latest}
  /\ Turn \subseteq Known /\ Input \subseteq Turn
  /\ Holding \subseteq Known
  /\ tracker.sent \subseteq Known
  /\ ToSet(state.pending) \subseteq 1 .. history.staged
  /\ history.staged <= MaxInputs

(* No item is twice in the state, and no staged one in two places.          *)
Distinct ==
  /\ IsInjective(state.generated) /\ IsInjective(state.pending)
  /\ \A n \in 1 .. history.staged :
       (n \in ToSet(state.pending)) # (Item("staged", n) \in Generated)
  /\ pc = "resolving" \/ IsOpen => Generated \cap Of(Latest) = {}
  /\ state.step = "interruption" =>
       Item("approvalResult", Latest) \notin Generated
  /\ pc = "calling" /\ sending.marked => Waiting \cap Input = {}

(* What the tracker says while it is asked: everything but the results of   *)
(* the last response was sent before.                                       *)
Tracked ==
  /\ pc \in {"loop", "calling", "resolving"} => tracker.server = Server
  /\ pc = "resolving" \/ (pc = "loop" /\ ~IsLost) =>
       /\ tracker.remaining = {}
       /\ tracker.initialSent <=> Asked
       /\ tracker.sent \cap ResultsOf(Latest) = {}
       /\ Generated \ ResultsOf(Latest) \subseteq tracker.sent \cup tracker.server
  /\ pc = "calling" =>
       /\ tracker.initialSent
       /\ Generated \subseteq Turn \cup tracker.sent \cup tracker.server

(* What was sent has arrived, but for what the filter dropped, and the      *)
(* request of the turn carries the rest.                                    *)
Arrived ==
  /\ Server \subseteq Holding
  /\ pc = "resolving" \/ ~IsLost =>
       /\ Asked => Inputs \subseteq Given
       /\ Generated \ ResultsOf(Latest) \subseteq Given
  /\ ~IsLost /\ ~Asked => Generated = {}
  /\ pc = "calling" => Inputs \cup Generated \subseteq Given \cup Turn
  /\ pc = "calling" /\ ~chain /\ past.taken > 0 => Input \subseteq Holding

(* What the server held before the request of the turn.                     *)
Before == IF pc = "calling" THEN Holding \ Input ELSE Holding

(* The server holds nothing twice, and nothing that would be sent to it.    *)
HeldApart ==
  /\ IsInjective(held)
  /\ pc = "calling" => IsInjective(sending.input)
  /\ pc = "calling" /\ (chain \/ past.taken = 0) => Holding \cap Input = {}
  /\ pc \in {"calling", "resolving"} \/ ~IsLost =>
       /\ Waiting \cap Before = {}
       /\ ResultsOf(Latest) \cap Before = {}
       /\ ~Asked => Before = {}

SentOnce == HeldApart \/ Excused

ItemsInv == TypeOK /\ Places /\ Numbered /\ Distinct

------------------------------------------------------------------------------
(* What the run does with lists.                                            *)

LEMMA StagedList ==
  ASSUME NEW list \in Seq(Nat)
  PROVE  LET items == [n \in DOMAIN list |-> Item("staged", list[n])]
         IN  /\ items \in Seq(Items)
             /\ ToSet(items) = Staged(ToSet(list))
             /\ IsInjective(list) => IsInjective(items)
<1> DEFINE items == [n \in DOMAIN list |-> Item("staged", list[n])]
<1>1. Len(list) \in Nat /\ DOMAIN list = 1 .. Len(list)
      /\ \A n \in DOMAIN list : list[n] \in Nat
  OBVIOUS
<1>2. \A n \in Nat : Item("staged", n) \in Items
  BY DEF Items, ItemKinds
<1>3. \A n \in DOMAIN list : items[n] = Item("staged", list[n])
  OBVIOUS
<1>4. items \in Seq(Items)
  BY <1>1, <1>2
<1>5. DOMAIN items = DOMAIN list
  OBVIOUS
<1>6. ToSet(items) = Staged(ToSet(list))
  BY <1>3, <1>5 DEF ToSet, Staged
<1>7. IsInjective(list) => IsInjective(items)
  BY <1>3, <1>5, ItemsDiffer DEF IsInjective
<1> QED BY <1>4, <1>6, <1>7

(* The input of a turn: what was not sent yet of the first input and of the *)
(* history, and what is staged.                                             *)
LEMMA PreparedInput ==
  ASSUME ItemsInv
  PROVE  /\ PrepareInput \in Seq(Items)
         /\ ToSet(PrepareInput) =
              (IF tracker.initialSent THEN Inputs \cap tracker.remaining ELSE Inputs)
                \cup (Generated \ (tracker.sent \cup tracker.server)) \cup Waiting
         /\ IsInjective(PrepareInput)
<1> DEFINE initial == IF ~tracker.initialSent THEN Initial
                      ELSE Only(Initial, tracker.remaining)
           unsent  == Without(state.generated, tracker.sent \cup tracker.server)
           pending == [n \in DOMAIN state.pending |-> Item("staged", state.pending[n])]
<1>1. /\ state.generated \in Seq(Items) /\ state.pending \in Seq(Nat)
      /\ tracker.initialSent \in BOOLEAN
  BY DEF ItemsInv, TypeOK, States, Trackers
<1>2. /\ initial \in Seq(Items) /\ IsInjective(initial)
      /\ ToSet(initial) =
           IF tracker.initialSent THEN Inputs \cap tracker.remaining ELSE Inputs
  BY InitialIsDistinct, OnlyIsFilter DEF Inputs
<1>3. /\ unsent \in Seq(Items) /\ IsInjective(unsent)
      /\ ToSet(unsent) = Generated \ (tracker.sent \cup tracker.server)
  BY <1>1, WithoutIsFilter DEF ItemsInv, Distinct, Generated
<1>4. /\ pending \in Seq(Items) /\ IsInjective(pending)
      /\ ToSet(pending) = Waiting
  BY <1>1, StagedList DEF ItemsInv, Distinct, Waiting
<1>5. Generated \cap Inputs = {}
  <2>1. Server \cap Inputs = {}
    BY OutputsAre, ItemSets DEF ItemsInv, TypeOK, States, Server
  <2>2. \A r : ResultsOf(r) \cap Inputs = {}
    BY ResultsAreItems, ItemSets
  <2> QED BY <2>1, <2>2, ItemSets DEF ItemsInv, Numbered
<1>6. Generated \cap Waiting = {}
  BY DEF ItemsInv, Numbered, Distinct, Waiting, Staged
<1>7. Waiting \cap Inputs = {}
  BY ItemSets DEF Waiting
<1>8. PrepareInput = initial \o unsent \o pending
  BY DEF PrepareInput
<1> HIDE DEF initial, unsent, pending
<1>9. /\ initial \o unsent \in Seq(Items)
      /\ ToSet(initial \o unsent) = ToSet(initial) \cup ToSet(unsent)
      /\ IsInjective(initial \o unsent)
  <2>1. ToSet(initial) \cap ToSet(unsent) = {}
    BY <1>2, <1>3, <1>5
  <2> QED BY <1>2, <1>3, <2>1, ConcatIsUnion
<1>10. ToSet(initial \o unsent) \cap ToSet(pending) = {}
  BY <1>2, <1>3, <1>4, <1>6, <1>7, <1>9
<1>11. /\ (initial \o unsent) \o pending \in Seq(Items)
       /\ ToSet((initial \o unsent) \o pending) =
            ToSet(initial \o unsent) \cup ToSet(pending)
       /\ IsInjective((initial \o unsent) \o pending)
  <2> DEFINE first == initial \o unsent
  <2>1. /\ first \in Seq(Items) /\ IsInjective(first)
        /\ ToSet(first) \cap ToSet(pending) = {}
    BY <1>9, <1>10
  <2> HIDE DEF first
  <2>2. /\ first \o pending \in Seq(Items)
        /\ ToSet(first \o pending) = ToSet(first) \cup ToSet(pending)
        /\ IsInjective(first \o pending)
    BY <1>4, <2>1, ConcatIsUnion
  <2> QED BY <2>2 DEF first
<1> QED BY <1>2, <1>3, <1>4, <1>8, <1>9, <1>11

(* The request was accepted: what was staged and sent joins the history.    *)
SentInputs == Admitted(state)

LEMMA AcceptedState ==
  ASSUME ItemsInv, NEW available \in BOOLEAN
  PROVE  LET s == StateAccepted(available)
         IN  /\ s \in States
             /\ s.responses = state.responses
             /\ ToSet(s.generated) = Generated \cup Staged(SentInputs)
             /\ ToSet(s.pending) = ToSet(state.pending) \ SentInputs
             /\ IsInjective(s.generated) /\ IsInjective(s.pending)
             /\ Staged(ToSet(s.pending)) \cap Input = {}
             /\ IF state.pending # << >> \/ ~available
                THEN s.step = "accepted" /\ s.accepted = "lost"
                ELSE /\ s.step = state.step /\ s.accepted = state.accepted
                     /\ SentInputs = {}
<1> DEFINE t == Checkpoint(state, available)
           admitted == Only(state.pending, SentInputs)
           items == [n \in DOMAIN admitted |-> Item("staged", admitted[n])]
<1>1. /\ state \in States
      /\ state.generated \in Seq(Items) /\ state.pending \in Seq(Nat)
      /\ IsInjective(state.generated) /\ IsInjective(state.pending)
  BY DEF ItemsInv, TypeOK, States, Distinct
<1>2. /\ t \in States
      /\ t.responses = state.responses /\ t.generated = state.generated
      /\ t.pending = state.pending
      /\ IF state.pending # << >> \/ ~available
         THEN t.step = "accepted" /\ t.accepted = "lost"
         ELSE t.step = state.step /\ t.accepted = state.accepted
  BY <1>1 DEF Checkpoint, Lost, States
<1> HIDE DEF t
<1>3. Admitted(t) = SentInputs
  BY <1>2 DEF Admitted, SentInputs
<1>4. SentInputs \subseteq ToSet(state.pending)
  BY DEF SentInputs, Admitted
<1>5. /\ admitted \in Seq(Nat) /\ IsInjective(admitted)
      /\ ToSet(admitted) = SentInputs
  <2>1. /\ admitted \in Seq(Nat)
        /\ ToSet(admitted) = ToSet(state.pending) \cap SentInputs
        /\ IsInjective(state.pending) => IsInjective(admitted)
    BY <1>1, OnlyIsFilter
  <2> QED BY <1>1, <1>4, <2>1
<1>6. items \in Seq(Items) /\ IsInjective(items) /\ ToSet(items) = Staged(SentInputs)
  <2> HIDE DEF admitted
  <2> QED BY <1>5, StagedList
<1>7. Generated \cap Staged(SentInputs) = {}
  <2>1. \A n \in SentInputs : Item("staged", n) \notin Generated
    BY <1>4 DEF ItemsInv, Numbered, Distinct
  <2> QED BY <2>1 DEF Staged
<1> DEFINE rest == Without(state.pending, SentInputs)
<1>8. /\ rest \in Seq(Nat) /\ IsInjective(rest)
      /\ ToSet(rest) = ToSet(state.pending) \ SentInputs
  BY <1>1, WithoutIsFilter
<1>9. StateAccepted(available) =
        [t EXCEPT !.generated = t.generated \o items, !.pending = rest]
  <2>1. StateAccepted(available) = CommitPendingInput(t)
    BY DEF StateAccepted, t
  <2> QED BY <2>1, <1>2, <1>3 DEF CommitPendingInput
<1> HIDE DEF items, rest, admitted
<1>10. /\ state.generated \o items \in Seq(Items)
       /\ ToSet(state.generated \o items) = Generated \cup Staged(SentInputs)
       /\ IsInjective(state.generated \o items)
  BY <1>1, <1>6, <1>7, ConcatIsUnion DEF Generated
<1> DEFINE s == StateAccepted(available)
<1>11. /\ s \in States /\ s.responses = state.responses
       /\ s.generated = state.generated \o items /\ s.pending = rest
       /\ s.step = t.step /\ s.accepted = t.accepted
  BY <1>2, <1>8, <1>9, <1>10 DEF States
<1> HIDE DEF s
<1>12. Staged(ToSet(state.pending) \ SentInputs) \cap Input = {}
  BY DEF Staged, SentInputs, Admitted, Input
<1>13. state.pending = << >> => SentInputs = {}
  <2>1. state.pending = << >> => ToSet(state.pending) = {}
    BY DEF ToSet
  <2> QED BY <1>4, <2>1
<1>14. /\ ToSet(s.generated) = Generated \cup Staged(SentInputs)
       /\ ToSet(s.pending) = ToSet(state.pending) \ SentInputs
       /\ IsInjective(s.generated) /\ IsInjective(s.pending)
       /\ Staged(ToSet(s.pending)) \cap Input = {}
  BY <1>8, <1>10, <1>11, <1>12
<1>15. IF state.pending # << >> \/ ~available
       THEN s.step = "accepted" /\ s.accepted = "lost"
       ELSE s.step = state.step /\ s.accepted = state.accepted /\ SentInputs = {}
  BY <1>2, <1>11, <1>13
<1> QED BY <1>11, <1>14, <1>15 DEF s

(* The tracker marks the turn's items.                                      *)
LEMMA MarkedTracker ==
  ASSUME ItemsInv
  PROVE  LET t == MarkInputAsSent
         IN  /\ t \in Trackers
             /\ t.initialSent = tracker.initialSent /\ t.server = tracker.server
             /\ t.sent = tracker.sent \cup Turn /\ t.remaining = {}
<1>1. tracker \in Trackers /\ Turn \subseteq Items
  BY DEF ItemsInv, TypeOK, Sendings, Turn, ToSet
<1>2. tracker.sent \cup Turn \in SUBSET Items
  BY <1>1 DEF Trackers
<1> DEFINE sent == tracker.sent \cup Turn
<1>3. MarkInputAsSent = [tracker EXCEPT !.sent = sent, !.remaining = {}]
  BY DEF MarkInputAsSent, Turn
<1> HIDE DEF sent
<1> QED BY <1>1, <1>2, <1>3 DEF Trackers, sent

(* The items after the mark, whether this is the first one or a later one.  *)
LEMMA MarkOutcome ==
  ASSUME ItemsInv, NEW available \in BOOLEAN, Mark(available)
  PROVE  /\ sending' \in Sendings /\ sending'.marked
         /\ sending'.turn = sending.turn /\ sending'.input = sending.input
         /\ tracker' \in Trackers
         /\ tracker'.initialSent = tracker.initialSent
         /\ tracker'.server = tracker.server
         /\ tracker.sent \subseteq tracker'.sent
         /\ tracker'.sent \subseteq tracker.sent \cup Turn
         /\ state' \in States
         /\ state'.responses = state.responses
         /\ \E S \in SUBSET ToSet(state.pending) :
              /\ Staged(S) \subseteq Input
              /\ Generated' = Generated \cup Staged(S)
              /\ ToSet(state.pending)' = ToSet(state.pending) \ S
              /\ IsLost' \/ S = {}
         /\ IsInjective(state'.generated) /\ IsInjective(state'.pending)
         /\ ~sending.marked => Waiting' \cap Input = {}
         /\ sending.marked => state'.pending = state.pending
         /\ IsLost' \/ (state'.step = state.step /\ state'.accepted = state.accepted)
         /\ IsLost => IsLost'
         /\ ~available => IsLost'
<1>1. /\ state \in States /\ sending \in Sendings /\ tracker \in Trackers
      /\ IsInjective(state.generated) /\ IsInjective(state.pending)
  BY DEF ItemsInv, TypeOK, Distinct
<1>2. /\ sending' \in Sendings /\ sending'.marked
      /\ sending'.turn = sending.turn /\ sending'.input = sending.input
  BY <1>1 DEF Mark, Sendings
<1>3. CASE sending.marked
  <2>1. tracker' = tracker /\ state' = IF ~available THEN Lost(state) ELSE state
    BY <1>3 DEF Mark
  <2>2. /\ state' \in States
        /\ state'.responses = state.responses /\ state'.generated = state.generated
        /\ state'.pending = state.pending
        /\ IF ~available THEN state'.step = "accepted" /\ state'.accepted = "lost"
           ELSE state'.step = state.step /\ state'.accepted = state.accepted
    BY <1>1, <2>1 DEF Lost, States
  <2>3. /\ Staged({}) \subseteq Input
        /\ Generated' = Generated \cup Staged({})
        /\ ToSet(state.pending)' = ToSet(state.pending) \ {}
    BY <2>2 DEF Generated, Staged
  <2> QED BY <1>1, <1>2, <1>3, <2>1, <2>2, <2>3 DEF IsLost
<1>4. CASE ~sending.marked
  <2> DEFINE s == StateAccepted(available)
  <2>1. tracker' = MarkInputAsSent /\ state' = s
    BY <1>4 DEF Mark
  <2>2. /\ s \in States
        /\ s.responses = state.responses
        /\ ToSet(s.generated) = Generated \cup Staged(SentInputs)
        /\ ToSet(s.pending) = ToSet(state.pending) \ SentInputs
        /\ IsInjective(s.generated) /\ IsInjective(s.pending)
        /\ Staged(ToSet(s.pending)) \cap Input = {}
        /\ IF state.pending # << >> \/ ~available
           THEN s.step = "accepted" /\ s.accepted = "lost"
           ELSE /\ s.step = state.step /\ s.accepted = state.accepted
                /\ SentInputs = {}
    BY AcceptedState
  <2> HIDE DEF s
  <2>3. /\ tracker' \in Trackers
        /\ tracker'.initialSent = tracker.initialSent
        /\ tracker'.server = tracker.server
        /\ tracker'.sent = tracker.sent \cup Turn
    BY <2>1, MarkedTracker
  <2>4. /\ SentInputs \in SUBSET ToSet(state.pending)
        /\ Staged(SentInputs) \subseteq Input
    BY DEF SentInputs, Admitted, Staged, Input
  <2>5. /\ Generated' = Generated \cup Staged(SentInputs)
        /\ ToSet(state.pending)' = ToSet(state.pending) \ SentInputs
        /\ Waiting' \cap Input = {}
    BY <2>1, <2>2 DEF Generated, Waiting
  <2>6. /\ IsLost' \/ SentInputs = {}
        /\ IsLost' \/ (state'.step = state.step /\ state'.accepted = state.accepted)
        /\ ~available => IsLost'
        /\ IsLost => IsLost'
    BY <2>1, <2>2 DEF IsLost
  <2>7. \E S \in SUBSET ToSet(state.pending) :
              /\ Staged(S) \subseteq Input
              /\ Generated' = Generated \cup Staged(S)
              /\ ToSet(state.pending)' = ToSet(state.pending) \ S
              /\ IsLost' \/ S = {}
    BY <2>4, <2>5, <2>6
  <2> QED BY <1>2, <1>4, <2>1, <2>2, <2>3, <2>5, <2>6, <2>7
<1> QED BY <1>3, <1>4

------------------------------------------------------------------------------
(* What the steps of the call do to what the conversation knows of it.      *)

TakenCounted == attempt.taken => past.taken > 0

LEMMA TakenCountedStep ==
  CallTypeOK /\ TakenCounted /\ [Call!Next]_(Call!vars) => TakenCounted'
<1> SUFFICES ASSUME CallTypeOK, TakenCounted, [Call!Next]_(Call!vars)
             PROVE  TakenCounted'
  OBVIOUS
<1> USE DEF CallTypeOK, TakenCounted
<1>1. ASSUME NEW kind \in Call!Requests, Call!Start(kind) PROVE TakenCounted'
  BY <1>1 DEF Call!Start, Call!NewAttempt
<1>2. ASSUME NEW used, Call!AttemptFails(used) PROVE TakenCounted'
  BY <1>2 DEF Call!AttemptFails
<1>3. CASE Call!Take
  <2>1. past'.taken = past.taken + 1
    BY <1>3 DEF Call!Take
  <2> QED BY <2>1
<1>4. CASE Call!StreamEvent \/ Call!Respond \/ Call!ModelFails
  BY <1>2, <1>4 DEF Call!StreamEvent, Call!Respond, Call!ModelFails
<1>5. CASE Call!TimerFires \/ Call!Abort
  BY <1>5 DEF Call!TimerFires, Call!Abort
<1>6. CASE Call!GetRetryAdvice
  <2>1. attempt' = attempt /\ past'.taken = past.taken
    BY <1>6 DEF Call!GetRetryAdvice
  <2> QED BY <2>1
<1>7. CASE \/ Call!AdviceFails \/ Call!AdviceAborted \/ LeavesAdvised
           \/ Call!DecideToRetry
  <2>1. attempt' = attempt /\ past'.taken = past.taken
    BY <1>7 DEF Call!AdviceFails, Call!AdviceAborted, LeavesAdvised, Call!PolicyFails,
                Call!DecisionAborted, Call!GiveUp, Call!AbortedInDelay, Call!DecideToRetry
  <2> QED BY <2>1
<1>8. CASE Call!Retry
  BY <1>8 DEF Call!Retry, Call!NewAttempt
<1>9. CASE UNCHANGED Call!vars
  BY <1>9 DEF Call!vars
<1> QED
  BY <1>1, <1>3, <1>4, <1>5, <1>6, <1>7, <1>8, <1>9
     DEF Call!Next, Call!Provider, Call!Runner, Call!ThrowAbort, LeavesAdvised

(* Every attempt that is taken is counted.                                  *)
LEMMA EveryTakeCounted == Call!Spec => []TakenCounted
<1>1. Call!Init => TakenCounted
  BY DEF Call!Init, TakenCounted, Call!NewAttempt
<1> QED
  BY <1>1, TakenCountedStep, CallTypeCorrect, PTL DEF Call!Spec

CallKnown == CallTypeOK /\ TakenCounted

(* A call that failed after its request was taken says so, or was excused.  *)
CallReplays ==
  /\ request.stateful /\ past.taken > 1 => past.approved
  /\ request.stateful /\ phase = "thrown" /\ past.taken > 0 =>
       reported \/ Secret(past)

LEMMA CallsAreKnown == Spec => []CallKnown
BY CallsAreRetried, EveryTakeCounted, CallTypeCorrect, PTL DEF CallKnown

LEMMA CallsReplay ==
  ASSUME Policies \subseteq PolicyNames
  PROVE  Spec => []CallReplays
<1>1. CallTypeOK /\ TakenOnce /\ Call!AcceptanceIsReported => CallReplays
  BY DEF CallTypeOK, TakenOnce, Call!AcceptanceIsReported, CallReplays, Secret
<1>2. Call!Init => TakenOnce
  BY DEF Call!Init, TakenOnce, Call!NoPast, Call!NewAttempt
<1> QED
  BY <1>1, <1>2, CallsAreRetried, TakenOnceStep, CallTypeCorrect,
     AcceptanceAlwaysReported, PTL DEF Call!Spec

(* The steps that leave the call in progress.                               *)
Ongoing ==
  /\ phase' \notin {"returned", "thrown"}
  /\ request' = request
  /\ past'.taken = past.taken
  /\ Secret(past) => Secret(past')

LEMMA CallGoesOnOutcome ==
  ASSUME CallTypeOK, CallGoesOn
  PROVE  Ongoing
<1>1. CASE Call!TimerFires \/ Call!Abort \/ Call!Retry
  BY <1>1 DEF Call!TimerFires, Call!Abort, Call!Retry, Ongoing, Secret
<1>2. CASE Call!ModelFails
  BY <1>2 DEF Call!ModelFails, Call!AttemptFails, Ongoing, Secret
<1>3. CASE Call!GetRetryAdvice
  <2>1. PICK a : past' = [past EXCEPT !.silent = @ \/ Call!Silent(a)]
    BY <1>3 DEF Call!GetRetryAdvice
  <2>2. phase' = "deciding" /\ request' = request
    BY <1>3 DEF Call!GetRetryAdvice
  <2> QED BY <2>1, <2>2 DEF Ongoing, Secret, CallTypeOK
<1>4. CASE Call!DecideToRetry
  <2>1. /\ past' = [past EXCEPT !.approved =
                      @ \/ Call!PolicyDecision(request.policy, advice).approve]
        /\ phase' = "delaying" /\ request' = request
    BY <1>4 DEF Call!DecideToRetry
  <2> QED BY <2>1 DEF Ongoing, Secret, CallTypeOK
<1> QED BY <1>1, <1>2, <1>3, <1>4 DEF CallGoesOn

LEMMA StreamEventOutcome ==
  ASSUME CallTypeOK, StreamEvent
  PROVE  /\ Ongoing
         /\ UNCHANGED <<chain, held, pc, history>> /\ pc = "calling"
         /\ \/ UNCHANGED <<tracker, state, sending>>
            \/ Mark(state.pending = << >>)
<1>1. Ongoing
  <2>1. CASE Call!Overtaken
    BY <2>1 DEF StreamEvent, Call!StreamEvent, Call!AttemptFails, Ongoing, Secret
  <2>2. CASE ~Call!Overtaken
    BY <2>2 DEF StreamEvent, Call!StreamEvent, Ongoing, Secret
  <2> QED BY <2>1, <2>2
<1> QED BY <1>1 DEF StreamEvent

(* A call that ends without a response: what it reports is marked, and what *)
(* a stream's abort does not report as well.                                *)
CallEnds == CallThrows \/ StreamAborted

LEMMA CallEndsOutcome ==
  ASSUME CallTypeOK, CallEnds
  PROVE  /\ phase' = "thrown" /\ request' = request
         /\ past'.taken = past.taken
         /\ Secret(past) => Secret(past')
         /\ pc = "calling" /\ pc' = "idle"
         /\ UNCHANGED <<chain, held>>
         /\ \/ reported' /\ Mark(FALSE)
            \/ ~reported' /\ Mark(TRUE)
            \/ ~reported' /\ UNCHANGED <<tracker, state, sending>>
         /\ history' = [history EXCEPT !.excused = @ \/ Secret(past')]
<1>1. /\ phase' = "thrown" /\ request' = request
      /\ past'.taken = past.taken
      /\ Secret(past) => Secret(past')
      /\ reported' \in BOOLEAN
  <2>1. CASE Call!AdviceFails \/ Call!AdviceAborted
    <3>1. /\ \/ past' = [past EXCEPT !.silent = @ \/ (attempt.taken /\ ~Call!TimedOutStateful)]
             \/ past' = [past EXCEPT !.aborted = @ \/ (attempt.taken /\ ~Call!TimedOutStateful)]
          /\ phase' = "thrown" /\ request' = request
          /\ reported' = Call!TimedOutStateful
      BY <2>1 DEF Call!AdviceFails, Call!AdviceAborted, Call!Throw
    <3>2. Call!TimedOutStateful \in BOOLEAN
      BY DEF Call!TimedOutStateful, Call!TimedOut, CallTypeOK, Call!Requests
    <3> QED BY <3>1, <3>2 DEF CallTypeOK, Secret
  <2>2. CASE LeavesAdvised
    <3>1. Call!MayHaveBeenAccepted(advice) \in BOOLEAN
      BY DEF Call!MayHaveBeenAccepted, CallTypeOK, Call!Advices, Call!TimedOut,
             Call!Requests
    <3> QED BY <2>2, <3>1 DEF LeavesAdvised, Call!PolicyFails, Call!DecisionAborted,
                              Call!GiveUp, Call!AbortedInDelay, Call!Throw
  <2> QED BY <2>1, <2>2 DEF CallEnds, CallThrows, StreamAborted, Call!ThrowAbort,
                            LeavesAdvised
<1>2. CASE CallThrows
  BY <1>1, <1>2 DEF CallThrows
<1>3. CASE StreamAborted
  BY <1>1, <1>3 DEF StreamAborted
<1> QED BY <1>2, <1>3, <1>1 DEF CallEnds

LEMMA CallReturnsOutcome ==
  ASSUME CallKnown, CallReturns
  PROVE  /\ request' = request /\ past' = past
         /\ pc = "calling" /\ chain' = chain
         /\ \/ /\ phase' \notin {"returned", "thrown"}
               /\ UNCHANGED <<held, tracker, state, sending, pc, history>>
            \/ phase' = "returned" /\ past.taken > 0
<1>1. CASE Call!Overtaken
  <2>1. /\ phase' = "advising" /\ request' = request /\ past' = past
    BY <1>1 DEF CallReturns, Call!Respond, Call!AttemptFails
  <2> QED BY <2>1 DEF CallReturns
<1>2. CASE ~Call!Overtaken
  <2>1. /\ phase' = "returned" /\ request' = request /\ past' = past
        /\ attempt.taken
    BY <1>2 DEF CallReturns, Call!Respond
  <2> QED BY <2>1 DEF CallReturns, CallKnown, TakenCounted
<1> QED BY <1>1, <1>2

------------------------------------------------------------------------------
(* What each step of the run does to the items.                             *)

LEMMA RunOutcome ==
  ASSUME ItemsInv, Run
  PROVE  /\ pc = "idle" /\ pc' = "loop" /\ ~history.excused
         /\ UNCHANGED <<callVars, chain, held, state, sending>>
         /\ history' \in Histories /\ history'.staged = history.staged
         /\ history'.dropped = history.dropped /\ ~history'.excused
         /\ tracker' \in Trackers
         /\ tracker'.remaining = {}
         /\ tracker'.initialSent <=> Asked
         /\ tracker'.server = Server
         /\ IF ~Asked THEN tracker'.sent = {}
            ELSE tracker'.sent = Inputs \cup
                   (Generated \cap (Server \cup Staged(1 .. MaxInputs)
                      \cup UNION {ResultsOf(r) : r \in 1 .. Latest - 1}))
<1>1. /\ pc = "idle" /\ pc' = "loop" /\ ~history.excused
      /\ UNCHANGED <<callVars, chain, held, state, sending>>
      /\ history' = [history EXCEPT !.runs = @ + 1]
      /\ tracker' = PrimeFromState(state)
  BY DEF Run, CallIdle
<1>2. /\ history \in Histories /\ state \in States /\ state.responses \in Seq(Answers)
  BY DEF ItemsInv, TypeOK, States
<1>3. /\ history' \in Histories /\ history'.staged = history.staged
      /\ history'.dropped = history.dropped /\ ~history'.excused
  BY <1>1, <1>2 DEF Histories
<1>4. Latest = 0 <=> ~Asked
  BY <1>2 DEF Latest, Asked
<1>5. CASE ~Asked
  <2>1. tracker' = NewTracker
    BY <1>1, <1>4, <1>5 DEF PrimeFromState, Latest
  <2>2. Server = {}
    BY <1>2, <1>5, OutputsAre DEF Server, Asked
  <2> QED BY <1>1, <1>3, <1>5, <2>1, <2>2 DEF NewTracker, Trackers
<1>6. CASE Asked
  <2> DEFINE sent == Inputs \cup
                   (Generated \cap (Server \cup Staged(1 .. MaxInputs)
                      \cup UNION {ResultsOf(r) : r \in 1 .. Latest - 1}))
  <2>1. tracker' = [initialSent |-> TRUE, remaining |-> {}, server |-> Server,
                    sent |-> sent]
    BY <1>1, <1>4, <1>6
       DEF PrimeFromState, Latest, Server, Generated, Inputs, Staged
  <2>2. sent \subseteq Items
    <3>1. Inputs \subseteq Items
      BY ItemSets
    <3>2. Generated \subseteq Items
      BY <1>2 DEF Generated, ToSet, States
    <3> QED BY <3>1, <3>2
  <2>3. Server \subseteq Items
    <3>1. Latest \in Nat
      BY <1>2 DEF Latest
    <3>2. Turned(Latest) \subseteq Items
      BY <3>1, TurnedGrows
    <3> QED BY <1>2, <3>2, OutputsAre DEF Server, Latest
  <2> HIDE DEF sent
  <2>4. /\ tracker' \in Trackers /\ tracker'.remaining = {}
        /\ tracker'.initialSent /\ tracker'.server = Server
        /\ tracker'.sent = sent
    BY <2>1, <2>2, <2>3 DEF Trackers
  <2> QED BY <1>1, <1>3, <1>6, <2>4 DEF sent
<1> QED BY <1>5, <1>6

LEMMA AddInputOutcome ==
  ASSUME ItemsInv, AddInput
  PROVE  /\ pc = "idle" /\ pc' = "idle"
         /\ UNCHANGED <<callVars, chain, held, tracker, sending>>
         /\ history' \in Histories /\ history.staged < MaxInputs
         /\ history'.staged = history.staged + 1
         /\ history'.dropped = history.dropped
         /\ history'.excused = history.excused
         /\ state' \in States
         /\ state.step \in {"run_again", "interruption"}
         /\ state'.step = state.step /\ state'.accepted = state.accepted
         /\ state'.responses = state.responses
         /\ state'.generated = state.generated
         /\ ToSet(state'.pending) = ToSet(state.pending) \cup {history.staged + 1}
         /\ IsInjective(state'.pending)
<1>1. /\ state \in States /\ history \in Histories /\ state.pending \in Seq(Nat)
      /\ IsInjective(state.pending) /\ history.staged \in Nat
      /\ ToSet(state.pending) \subseteq 1 .. history.staged
  BY DEF ItemsInv, TypeOK, States, Histories, Distinct, Numbered
<1> DEFINE n == history.staged + 1
<1>2. /\ pc = "idle" /\ pc' = "idle"
      /\ UNCHANGED <<callVars, chain, held, tracker, sending>>
      /\ history.staged < MaxInputs
      /\ state.step \in {"run_again", "interruption"}
      /\ history' = [history EXCEPT !.staged = n]
      /\ state' = [state EXCEPT !.pending = Append(state.pending, n)]
  BY DEF AddInput, CallIdle
<1>3. n \in Nat /\ n \notin ToSet(state.pending)
  BY <1>1
<1>4. /\ Append(state.pending, n) \in Seq(Nat)
      /\ ToSet(Append(state.pending, n)) = ToSet(state.pending) \cup {n}
      /\ IsInjective(Append(state.pending, n))
  BY <1>1, <1>3, AppendDistinct
<1>5. /\ history' \in Histories
      /\ history'.staged = n /\ history'.dropped = history.dropped
      /\ history'.excused = history.excused
  BY <1>1, <1>2, <1>3 DEF Histories
<1>6. /\ state' \in States
      /\ state'.step = state.step /\ state'.accepted = state.accepted
      /\ state'.responses = state.responses
      /\ state'.generated = state.generated
      /\ state'.pending = Append(state.pending, n)
  BY <1>1, <1>2, <1>4 DEF States
<1> QED BY <1>2, <1>4, <1>5, <1>6

LEMMA CallModelOutcome ==
  ASSUME ItemsInv, CallModel
  PROVE  /\ pc = "loop" /\ pc' = "calling" /\ state.step = "run_again"
         /\ UNCHANGED <<chain, held, state, history>>
         /\ phase' = "calling" /\ request' = request
         /\ past' = Call!NoPast
         /\ sending' \in Sendings /\ ~sending'.marked
         /\ Turn' = (IF tracker.initialSent THEN Inputs \cap tracker.remaining
                     ELSE Inputs)
                      \cup (Generated \ (tracker.sent \cup tracker.server))
                      \cup Waiting
         /\ Input' \subseteq Turn'
         /\ IsInjective(sending'.input)
         /\ tracker' \in Trackers /\ tracker'.initialSent
         /\ tracker'.sent = tracker.sent /\ tracker'.server = tracker.server
<1>1. /\ pc = "loop" /\ pc' = "calling" /\ state.step = "run_again"
      /\ UNCHANGED <<chain, held, state, history>>
      /\ tracker' = IF tracker.initialSent THEN tracker
                    ELSE [tracker EXCEPT !.initialSent = TRUE,
                                         !.remaining   = Inputs]
  BY DEF CallModel, Inputs
<1>2. PICK dropped : /\ sending' = [turn |-> PrepareInput, marked |-> FALSE,
                                    input |-> Without(PrepareInput, dropped)]
                     /\ Call!Start(request)
  BY DEF CallModel, Filtering
<1>3. phase' = "calling" /\ request' = request /\ past' = Call!NoPast
  BY <1>2 DEF Call!Start
<1>4. /\ PrepareInput \in Seq(Items)
      /\ ToSet(PrepareInput) =
              (IF tracker.initialSent THEN Inputs \cap tracker.remaining ELSE Inputs)
                \cup (Generated \ (tracker.sent \cup tracker.server)) \cup Waiting
      /\ IsInjective(PrepareInput)
  BY PreparedInput
<1> DEFINE turn == PrepareInput
           input == Without(PrepareInput, dropped)
<1> HIDE DEF turn
<1>5. /\ input \in Seq(Items) /\ IsInjective(input)
      /\ ToSet(input) = ToSet(turn) \ dropped
  BY <1>4, WithoutIsFilter DEF turn
<1> HIDE DEF input
<1>6. /\ sending' \in Sendings /\ ~sending'.marked
      /\ sending'.turn = turn /\ sending'.input = input
  BY <1>2, <1>4, <1>5 DEF Sendings, turn, input
<1>7. tracker \in Trackers /\ Inputs \in SUBSET Items
  BY ItemSets DEF ItemsInv, TypeOK
<1>8. /\ tracker' \in Trackers /\ tracker'.initialSent
      /\ tracker'.sent = tracker.sent /\ tracker'.server = tracker.server
  BY <1>1, <1>7 DEF Trackers
<1>9. Turn' = ToSet(turn) /\ Input' = ToSet(input)
  BY <1>6 DEF Turn, Input
<1>10. Turn' = (IF tracker.initialSent THEN Inputs \cap tracker.remaining
                ELSE Inputs)
                 \cup (Generated \ (tracker.sent \cup tracker.server))
                 \cup Waiting
  BY <1>4, <1>9 DEF turn
<1> QED BY <1>1, <1>3, <1>5, <1>6, <1>8, <1>9, <1>10

LEMMA ServerTakesOutcome ==
  ASSUME CallTypeOK, ItemsInv, ServerTakes
  PROVE  /\ pc = "calling"
         /\ UNCHANGED <<chain, tracker, state, sending, pc, history>>
         /\ phase' \notin {"returned", "thrown"} /\ request' = request
         /\ past'.taken = past.taken + 1
         /\ (Secret(past') <=> Secret(past))
         /\ held' \in Seq(Items)
         /\ IF chain THEN held' = held
            ELSE /\ Holding' = Holding \cup Input
                 /\ IsInjective(held) /\ IsInjective(sending.input)
                      /\ Holding \cap Input = {} => IsInjective(held')
<1>1. /\ pc = "calling"
      /\ UNCHANGED <<chain, tracker, state, sending, pc, history>>
      /\ phase' \notin {"returned", "thrown"} /\ request' = request
      /\ past' = [past EXCEPT !.taken = @ + 1]
      /\ held' = IF chain THEN held ELSE held \o sending.input
  BY DEF ServerTakes, Call!Take
<1>2. /\ past'.taken = past.taken + 1
      /\ (Secret(past') <=> Secret(past))
  BY <1>1 DEF CallTypeOK, Secret
<1>3. held \in Seq(Items) /\ sending.input \in Seq(Items)
  BY DEF ItemsInv, TypeOK, Sendings
<1>4. /\ held \o sending.input \in Seq(Items)
      /\ ToSet(held \o sending.input) = Holding \cup Input
      /\ IsInjective(held) /\ IsInjective(sending.input)
           /\ Holding \cap Input = {} => IsInjective(held \o sending.input)
  BY <1>3, ConcatIsUnion DEF Holding, Input
<1> QED BY <1>1, <1>2, <1>3, <1>4 DEF Holding

(* The response arrives: what the answer adds, and what of the staged input *)
(* joins the history with it.                                               *)
Answered(answer, S) ==
  LET out == ToSet(OutputOf(answer, Latest + 1))
  IN  /\ answer \in Answers /\ S \in SUBSET ToSet(state.pending)
      /\ Staged(S) \subseteq Input
      /\ Latest' = Latest + 1 /\ Asked'
      /\ Server' = Server \cup out
      /\ out \subseteq Of(Latest + 1) /\ out \cap ResultsOf(Latest + 1) = {}
      /\ Holding' = (IF chain THEN Holding \cup Input ELSE Holding) \cup out
      /\ IsInjective(held) /\ IsInjective(sending.input)
           /\ (chain => Holding \cap Input = {})
           /\ Holding \cap out = {} /\ Input \cap out = {} => IsInjective(held')
      /\ tracker'.server = tracker.server \cup out
      /\ Generated' = Generated \cup Staged(S)
      /\ ToSet(state.pending)' = ToSet(state.pending) \ S

LEMMA ReturnedOutcome ==
  ASSUME CallKnown, ItemsInv, CallReturns, phase' = "returned"
  PROVE  /\ pc = "calling" /\ pc' = "resolving" /\ chain' = chain
         /\ held' \in Seq(Items)
         /\ tracker' \in Trackers
         /\ tracker'.initialSent = tracker.initialSent
         /\ tracker'.sent = tracker.sent \cup Turn /\ tracker'.remaining = {}
         /\ state' \in States
         /\ IsInjective(state'.generated) /\ IsInjective(state'.pending)
         /\ IsLost' \/ (state'.step = state.step /\ state'.accepted = state.accepted)
         /\ ~sending.marked => Waiting' \cap Input = {}
         /\ sending.marked => state'.pending = state.pending
         /\ sending' \in Sendings
         /\ sending'.turn = sending.turn /\ sending'.input = sending.input
         /\ history' \in Histories /\ history'.staged = history.staged
         /\ history'.dropped = history.dropped \cup (Turn \ Input)
         /\ history'.excused = (history.excused \/ Secret(past))
         /\ \E answer, S : Answered(answer, S)
<1> DEFINE r == Latest + 1
           s == IF sending.marked THEN state ELSE StateAccepted(TRUE)
           t == MarkInputAsSent
<1>1. PICK answer \in Answers :
        /\ held' = (IF chain THEN held \o sending.input ELSE held)
                     \o OutputOf(answer, r)
        /\ sending' = [sending EXCEPT !.marked = TRUE]
        /\ tracker' = [t EXCEPT !.server = @ \cup ToSet(OutputOf(answer, r))]
        /\ state' = [s EXCEPT !.responses = Append(@, answer)]
        /\ pc' = "resolving"
        /\ history' = [history EXCEPT
             !.dropped = @ \cup (Turn \ Input),
             !.excused = @ \/ Secret(past)]
  BY DEF CallReturns, Latest, Turn, Input
<1> DEFINE outputs == OutputOf(answer, r)
           out == ToSet(outputs)
<1>2. pc = "calling" /\ chain' = chain
  BY DEF CallReturns
<1>3. /\ state \in States /\ sending \in Sendings /\ tracker \in Trackers
      /\ history \in Histories /\ state.responses \in Seq(Answers)
      /\ state.generated \in Seq(Items) /\ state.pending \in Seq(Nat)
      /\ held \in Seq(Items) /\ sending.input \in Seq(Items)
      /\ sending.turn \in Seq(Items)
      /\ IsInjective(state.generated) /\ IsInjective(state.pending)
  BY DEF ItemsInv, TypeOK, Distinct, States, Sendings
<1>4. Latest \in Nat /\ r \in Nat
  BY <1>3 DEF Latest
<1>5. /\ outputs \in Seq(Items) /\ IsInjective(outputs)
      /\ out \subseteq Of(r) /\ out \cap ResultsOf(r) = {}
  BY <1>4, AnswerHasItems
<1>6. Of(r) \subseteq Items
  BY <1>4, ItemSets
<1>7. /\ sending' \in Sendings
      /\ sending'.turn = sending.turn /\ sending'.input = sending.input
  BY <1>1, <1>3 DEF Sendings
<1>8. Turn \subseteq Items
  BY <1>3 DEF Turn, ToSet
<1>9. /\ history' \in Histories /\ history'.staged = history.staged
      /\ history'.dropped = history.dropped \cup (Turn \ Input)
      /\ history'.excused = (history.excused \/ Secret(past))
  <2>1. history.dropped \cup (Turn \ Input) \in SUBSET Items
    BY <1>3, <1>8 DEF Histories
  <2>2. (history.excused \/ Secret(past)) \in BOOLEAN
    OBVIOUS
  <2> DEFINE d == history.dropped \cup (Turn \ Input)
             e == (history.excused \/ Secret(past))
  <2>3. history' = [history EXCEPT !.dropped = d, !.excused = e]
    BY <1>1
  <2> HIDE DEF d, e
  <2>4. /\ history' \in Histories /\ history'.staged = history.staged
        /\ history'.dropped = d /\ history'.excused = e
    BY <1>3, <2>1, <2>2, <2>3 DEF Histories, d, e
  <2> QED BY <2>4 DEF d, e
<1>10. /\ t \in Trackers
       /\ t.initialSent = tracker.initialSent /\ t.server = tracker.server
       /\ t.sent = tracker.sent \cup Turn /\ t.remaining = {}
  BY MarkedTracker
<1> HIDE DEF t, r, outputs
<1>11. /\ tracker' \in Trackers
       /\ tracker'.initialSent = tracker.initialSent
       /\ tracker'.sent = tracker.sent \cup Turn /\ tracker'.remaining = {}
       /\ tracker'.server = tracker.server \cup out
  <2>1. tracker.server \cup out \in SUBSET Items
    BY <1>3, <1>5, <1>6 DEF Trackers
  <2> DEFINE server == tracker.server \cup out
  <2>2. tracker' = [t EXCEPT !.server = server]
    BY <1>1, <1>10 DEF outputs
  <2> HIDE DEF server
  <2>3. /\ tracker' \in Trackers /\ tracker'.initialSent = t.initialSent
        /\ tracker'.sent = t.sent /\ tracker'.remaining = t.remaining
        /\ tracker'.server = server
    BY <1>10, <2>1, <2>2 DEF Trackers, server
  <2> QED BY <1>10, <2>3 DEF server
<1>12. PICK S \in SUBSET ToSet(state.pending) :
         /\ Staged(S) \subseteq Input
         /\ ToSet(s.generated) = Generated \cup Staged(S)
         /\ ToSet(s.pending) = ToSet(state.pending) \ S
         /\ s \in States /\ s.responses = state.responses
         /\ IsInjective(s.generated) /\ IsInjective(s.pending)
         /\ ~sending.marked => Staged(ToSet(s.pending)) \cap Input = {}
         /\ sending.marked => s.pending = state.pending
         /\ \/ s.step = "accepted" /\ s.accepted = "lost"
            \/ s.step = state.step /\ s.accepted = state.accepted
  <2>1. CASE sending.marked
    <3>1. Staged({}) = {}
      BY DEF Staged
    <3> QED BY <1>3, <2>1, <3>1 DEF Generated
  <2>2. CASE ~sending.marked
    <3>1. /\ SentInputs \in SUBSET ToSet(state.pending)
          /\ Staged(SentInputs) \subseteq Input
      BY DEF SentInputs, Admitted, Staged, Input
    <3> DEFINE u == StateAccepted(TRUE)
    <3>2. /\ u \in States
          /\ u.responses = state.responses
          /\ ToSet(u.generated) = Generated \cup Staged(SentInputs)
          /\ ToSet(u.pending) = ToSet(state.pending) \ SentInputs
          /\ IsInjective(u.generated) /\ IsInjective(u.pending)
          /\ Staged(ToSet(u.pending)) \cap Input = {}
          /\ IF state.pending # << >> \/ ~TRUE
             THEN u.step = "accepted" /\ u.accepted = "lost"
             ELSE /\ u.step = state.step /\ u.accepted = state.accepted
                  /\ SentInputs = {}
      BY AcceptedState
    <3>3. s = u
      BY <2>2
    <3> HIDE DEF u, s
    <3> QED BY <2>2, <3>1, <3>2, <3>3
  <2> QED BY <2>1, <2>2
<1> HIDE DEF s
<1>13. /\ state' \in States
       /\ state'.responses = Append(state.responses, answer)
       /\ state'.generated = s.generated /\ state'.pending = s.pending
       /\ state'.step = s.step /\ state'.accepted = s.accepted
  <2>1. Append(state.responses, answer) \in Seq(Answers)
    BY <1>3
  <2> DEFINE list == Append(state.responses, answer)
  <2>2. state' = [s EXCEPT !.responses = list]
    BY <1>1, <1>12
  <2> HIDE DEF list
  <2>3. /\ state' \in States /\ state'.responses = list
        /\ state'.generated = s.generated /\ state'.pending = s.pending
        /\ state'.step = s.step /\ state'.accepted = s.accepted
    BY <1>12, <2>1, <2>2 DEF States, list
  <2> QED BY <2>3 DEF list
<1>14. Latest' = r /\ Asked' /\ Server' = Server \cup out
  <2>1. Len(Append(state.responses, answer)) = Len(state.responses) + 1
    BY <1>3
  <2>2. Outputs(Append(state.responses, answer)) =
          Outputs(state.responses) \cup ToSet(OutputOf(answer, Len(state.responses) + 1))
    BY <1>3, OutputsAre
  <2>3. Append(state.responses, answer) # << >>
    <3>1. Len(Append(state.responses, answer)) # 0
      BY <1>3, <2>1
    <3>2. Len(<< >>) = 0
      OBVIOUS
    <3> QED BY <3>1, <3>2
  <2> QED BY <1>13, <2>1, <2>2, <2>3 DEF Latest, r, Asked, Server, outputs
<1>15. /\ held' \in Seq(Items)
       /\ Holding' = (IF chain THEN Holding \cup Input ELSE Holding) \cup out
       /\ IsInjective(held) /\ IsInjective(sending.input)
           /\ (chain => Holding \cap Input = {})
           /\ Holding \cap out = {} /\ Input \cap out = {} => IsInjective(held')
  <2> DEFINE base == IF chain THEN held \o sending.input ELSE held
  <2>1. /\ base \in Seq(Items)
        /\ ToSet(base) = IF chain THEN Holding \cup Input ELSE Holding
        /\ IsInjective(held) /\ IsInjective(sending.input)
             /\ (chain => Holding \cap Input = {}) => IsInjective(base)
    <3>1. /\ held \o sending.input \in Seq(Items)
          /\ ToSet(held \o sending.input) = Holding \cup Input
          /\ IsInjective(held) /\ IsInjective(sending.input)
               /\ Holding \cap Input = {} => IsInjective(held \o sending.input)
      BY <1>3, ConcatIsUnion DEF Holding, Input
    <3> QED BY <1>3, <3>1 DEF Holding
  <2> HIDE DEF base
  <2>2. /\ base \o outputs \in Seq(Items)
        /\ ToSet(base \o outputs) = ToSet(base) \cup out
        /\ IsInjective(base) /\ ToSet(base) \cap out = {} =>
             IsInjective(base \o outputs)
    BY <1>5, <2>1, ConcatIsUnion
  <2>3. held' = base \o outputs
    BY <1>1 DEF base, outputs
  <2> HIDE DEF out
  <2> QED BY <2>1, <2>2, <2>3 DEF Holding
<1>16. /\ Generated' = Generated \cup Staged(S)
       /\ ToSet(state.pending)' = ToSet(state.pending) \ S
       /\ Waiting' = Staged(ToSet(s.pending))
  BY <1>12, <1>13 DEF Generated, Waiting
<1>17. Answered(answer, S)
  <2> HIDE DEF out
  <2>1. out = ToSet(OutputOf(answer, Latest + 1)) /\ r = Latest + 1
    BY DEF out, outputs, r
  <2> QED BY <1>5, <1>11, <1>12, <1>14, <1>15, <1>16, <2>1 DEF Answered
<1>18. /\ IsInjective(state'.generated) /\ IsInjective(state'.pending)
       /\ IsLost' \/ (state'.step = state.step /\ state'.accepted = state.accepted)
       /\ ~sending.marked => Waiting' \cap Input = {}
       /\ sending.marked => state'.pending = state.pending
  BY <1>12, <1>13, <1>16 DEF IsLost
<1> HIDE DEF out
<1> QED BY <1>1, <1>2, <1>7, <1>9, <1>11, <1>13, <1>15, <1>17, <1>18

(* The response is processed: its items and the results of its calls join   *)
(* the history.                                                             *)
LEMMA ResolveOutcome ==
  ASSUME ItemsInv, Resolve
  PROVE  /\ pc = "resolving" /\ pc' \in {"loop", "idle"}
         /\ UNCHANGED <<callVars, chain, held, tracker, sending, history>>
         /\ state' \in States
         /\ state'.responses = state.responses /\ state'.pending = state.pending
         /\ state'.step \in {"final", "run_again", "interruption"}
         /\ state'.accepted = "no"
         /\ \E results \in SUBSET {Item("result", Latest)} :
              Generated' = Generated \cup results
                \cup ToSet(OutputOf(state.responses[Latest], Latest))
         /\ state.responses[Latest] \in Answers /\ Latest \in Nat \ {0}
         /\ ToSet(OutputOf(state.responses[Latest], Latest)) \subseteq Server
         /\ IsInjective(state'.generated)
<1> DEFINE out == OutputOf(state.responses[Latest], Latest)
<1>1. /\ pc = "resolving" /\ pc' \in {"loop", "idle"}
      /\ UNCHANGED <<callVars, chain, held, tracker, sending, history>>
      /\ state' = [state EXCEPT !.generated = (state.generated \o out) \o Results,
                                !.step      = NextStep,
                                !.accepted  = "no"]
  BY DEF Resolve, CallIdle
<1>2. /\ state \in States /\ state.responses \in Seq(Answers)
      /\ state.generated \in Seq(Items) /\ IsInjective(state.generated)
      /\ state.responses # << >>
      /\ Generated \cap Of(Latest) = {}
  BY <1>1 DEF ItemsInv, TypeOK, States, Distinct, Places, Asked
<1>3. Latest \in Nat \ {0} /\ Latest \in DOMAIN state.responses
  BY <1>2 DEF Latest
<1>4. state.responses[Latest] \in Answers
  BY <1>2, <1>3
<1>5. NextStep \in {"final", "run_again", "interruption"}
  BY <1>4 DEF NextStep, Answers
<1>6. /\ out \in Seq(Items) /\ IsInjective(out)
      /\ ToSet(out) \subseteq Of(Latest) /\ ToSet(out) \cap ResultsOf(Latest) = {}
  BY <1>3, <1>4, AnswerHasItems
<1>7. ToSet(out) \subseteq Server
  BY <1>3 DEF Server, Outputs
<1>8. /\ Results \in Seq(Items) /\ IsInjective(Results)
      /\ ToSet(Results) \subseteq {Item("result", Latest)}
  <2>1. Item("result", Latest) \in Items
    BY <1>3 DEF Items, ItemKinds
  <2> QED BY <2>1 DEF Results, ToSet, IsInjective
<1> HIDE DEF out
<1>9. /\ state.generated \o out \in Seq(Items)
      /\ ToSet(state.generated \o out) = Generated \cup ToSet(out)
      /\ IsInjective(state.generated \o out)
  BY <1>2, <1>6, ConcatIsUnion DEF Generated
<1> DEFINE list == state.generated \o out
<1>10. ToSet(list) \cap ToSet(Results) = {}
  <2>1. Item("result", Latest) \in ResultsOf(Latest) /\ ResultsOf(Latest) \subseteq Of(Latest)
    BY ResultsAreItems
  <2> QED BY <1>2, <1>6, <1>8, <1>9, <2>1
<1> HIDE DEF list
<1>11. /\ list \o Results \in Seq(Items)
       /\ ToSet(list \o Results) = ToSet(list) \cup ToSet(Results)
       /\ IsInjective(list \o Results)
  <2>1. list \in Seq(Items) /\ IsInjective(list)
    BY <1>9 DEF list
  <2> HIDE DEF Results
  <2> QED BY <1>8, <1>10, <2>1, ConcatIsUnion
<1> DEFINE all == list \o Results
<1>12. state' = [state EXCEPT !.generated = all, !.step = NextStep, !.accepted = "no"]
  BY <1>1 DEF list
<1> HIDE DEF all
<1>13. /\ state' \in States /\ state'.generated = all
       /\ state'.responses = state.responses /\ state'.pending = state.pending
       /\ state'.step = NextStep /\ state'.accepted = "no"
  BY <1>2, <1>5, <1>11, <1>12 DEF States, all
<1>14. Generated' = Generated \cup ToSet(Results) \cup ToSet(out)
  BY <1>9, <1>11, <1>13 DEF Generated, all, list
<1>15. IsInjective(state'.generated)
  BY <1>11, <1>13 DEF all
<1> QED BY <1>1, <1>3, <1>4, <1>5, <1>7, <1>8, <1>13, <1>14, <1>15 DEF out

LEMMA ResumeInterruptedOutcome ==
  ASSUME ItemsInv, ResumeInterruptedTurn
  PROVE  /\ pc = "loop" /\ pc' = "loop"
         /\ UNCHANGED <<callVars, chain, held, tracker, sending, history>>
         /\ state' \in States /\ state.step = "interruption"
         /\ state'.responses = state.responses /\ state'.pending = state.pending
         /\ state'.step = "run_again" /\ state'.accepted = state.accepted
         /\ Generated' = Generated \cup {Item("approvalResult", Latest)}
         /\ Latest \in Nat \ {0}
         /\ IsInjective(state'.generated)
<1> DEFINE e == Item("approvalResult", Latest)
<1>1. /\ pc = "loop" /\ pc' = "loop"
      /\ UNCHANGED <<callVars, chain, held, tracker, sending, history>>
      /\ state.step = "interruption"
      /\ state' = [state EXCEPT !.step = "run_again",
                                !.generated = Append(state.generated, e)]
  BY DEF ResumeInterruptedTurn, CallIdle
<1>2. /\ state \in States /\ state.responses \in Seq(Answers)
      /\ state.generated \in Seq(Items) /\ IsInjective(state.generated)
      /\ state.responses # << >> /\ e \notin ToSet(state.generated)
  BY <1>1 DEF ItemsInv, TypeOK, States, Distinct, Places, Asked, Generated
<1>3. Latest \in Nat \ {0}
  BY <1>2 DEF Latest
<1>4. e \in Items
  BY <1>3 DEF Items, ItemKinds
<1> HIDE DEF e
<1>5. /\ Append(state.generated, e) \in Seq(Items)
      /\ ToSet(Append(state.generated, e)) = ToSet(state.generated) \cup {e}
      /\ IsInjective(Append(state.generated, e))
  BY <1>2, <1>4, AppendDistinct
<1> DEFINE list == Append(state.generated, e)
<1>6. state' = [state EXCEPT !.step = "run_again", !.generated = list]
  BY <1>1
<1> HIDE DEF list
<1>7. /\ state' \in States /\ state'.generated = list
      /\ state'.responses = state.responses /\ state'.pending = state.pending
      /\ state'.step = "run_again" /\ state'.accepted = state.accepted
  BY <1>2, <1>5, <1>6 DEF States, list
<1>8. Generated' = Generated \cup {e} /\ IsInjective(state'.generated)
  BY <1>5, <1>7 DEF Generated, list
<1> QED BY <1>1, <1>3, <1>7, <1>8 DEF e

(* The processing fails, or is taken up again by a later run.               *)
LEMMA ResolveFailsOutcome ==
  ASSUME ItemsInv, ResolveFails
  PROVE  /\ pc = "resolving" /\ pc' = "idle"
         /\ UNCHANGED <<callVars, chain, held, tracker, sending>>
         /\ state' \in States
         /\ state'.responses = state.responses /\ state'.pending = state.pending
         /\ state'.generated = state.generated
         /\ state'.step = state.step
         /\ \/ state'.accepted \in {"lost", "processed", "started"}
            \/ state'.accepted = state.accepted
         /\ state.step # "accepted" => state'.accepted = state.accepted
         /\ state.step = "accepted" => state'.accepted # "no"
         /\ history' \in Histories /\ history'.staged = history.staged
         /\ history'.dropped = history.dropped
         /\ history'.excused = history.excused
<1>1. /\ pc = "resolving" /\ pc' = "idle"
      /\ UNCHANGED <<callVars, chain, held, tracker, sending>>
  BY DEF ResolveFails, CallIdle
<1>2. /\ state \in States /\ history \in Histories /\ Latest \in Nat
  BY DEF ItemsInv, TypeOK, States, Latest
<1>3. CASE state.step = "accepted"
  <2>1. PICK progress \in {"lost", "processed", "started"} :
          state' = [state EXCEPT !.accepted = progress] /\ history' = history
    BY <1>3 DEF ResolveFails
  <2>2. /\ state'.responses = state.responses /\ state'.pending = state.pending
        /\ state'.generated = state.generated
        /\ state'.step = state.step /\ state'.accepted = progress
        /\ state' \in States
    BY <1>2, <2>1 DEF States
  <2> QED BY <1>1, <1>2, <1>3, <2>1, <2>2
<1>4. CASE state.step # "accepted"
  <2>1. /\ history' = [history EXCEPT !.abandoned = @ \cup {Latest}]
        /\ state' = state
    BY <1>4 DEF ResolveFails
  <2>2. history.abandoned \cup {Latest} \in SUBSET Nat
    BY <1>2 DEF Histories
  <2>3. /\ history' \in Histories /\ history'.staged = history.staged
        /\ history'.dropped = history.dropped
        /\ history'.excused = history.excused
    BY <1>2, <2>1, <2>2 DEF Histories
  <2> QED BY <1>1, <1>2, <1>4, <2>1, <2>3
<1> QED BY <1>3, <1>4

------------------------------------------------------------------------------
(* Each part of the invariant is kept by each step.                         *)

LEMMA SameResponses ==
  ASSUME state'.responses = state.responses
  PROVE  Latest' = Latest /\ (Asked' <=> Asked) /\ Server' = Server
BY DEF Latest, Asked, Server

LEMMA SameState ==
  ASSUME state' = state
  PROVE  /\ Latest' = Latest /\ (Asked' <=> Asked) /\ Server' = Server
         /\ Generated' = Generated /\ Waiting' = Waiting
         /\ (IsLost' <=> IsLost) /\ (IsOpen' <=> IsOpen)
BY DEF Latest, Asked, Server, Generated, Waiting, IsLost, IsOpen

(* The steps that leave the items alone.                                    *)
Still == UNCHANGED <<chain, held, state, sending, history>>

LEMMA StillSteps ==
  /\ CallGoesOn => Still /\ tracker' = tracker /\ pc = "calling" /\ pc' = "calling"
  /\ TurnFails => /\ Still /\ tracker' = tracker /\ pc = "loop" /\ pc' = "idle"
                  /\ UNCHANGED callVars
  /\ ResumeAcceptedResponse =>
       /\ Still /\ tracker' = tracker /\ pc = "loop"
       /\ state.step = "accepted"
       /\ pc' = "idle" \/ (pc' = "resolving" /\ Resumable)
       /\ UNCHANGED callVars
BY DEF CallGoesOn, TurnFails, ResumeAcceptedResponse, Still, CallIdle

LEMMA TypeStep ==
  ASSUME CallKnown, ItemsInv, [Next]_vars
  PROVE  TypeOK'
<1>0. TypeOK /\ CallTypeOK
  BY DEF ItemsInv, CallKnown
<1>1. CASE Run
  BY <1>0, <1>1, RunOutcome DEF TypeOK
<1>2. CASE AddInput
  BY <1>0, <1>2, AddInputOutcome DEF TypeOK
<1>3. CASE CallModel
  BY <1>0, <1>3, CallModelOutcome DEF TypeOK
<1>4. CASE ServerTakes
  BY <1>0, <1>4, ServerTakesOutcome DEF TypeOK
<1>5. CASE StreamEvent
  <2>1. /\ UNCHANGED <<chain, held, pc, history>>
        /\ \/ UNCHANGED <<tracker, state, sending>>
           \/ Mark(state.pending = << >>)
    BY <1>0, <1>5, StreamEventOutcome
  <2>2. CASE Mark(state.pending = << >>)
    <3>1. tracker' \in Trackers /\ state' \in States /\ sending' \in Sendings
      BY <2>2, MarkOutcome
    <3> QED BY <1>0, <2>1, <3>1 DEF TypeOK
  <2> QED BY <1>0, <2>1, <2>2 DEF TypeOK
<1>6. CASE CallGoesOn \/ TurnFails \/ ResumeAcceptedResponse
  BY <1>0, <1>6, StillSteps DEF TypeOK, Still
<1>7. CASE CallEnds
  <2>1. /\ UNCHANGED <<chain, held>> /\ pc' = "idle"
        /\ \/ \E available \in BOOLEAN : Mark(available)
           \/ UNCHANGED <<tracker, state, sending>>
        /\ history' = [history EXCEPT !.excused = @ \/ Secret(past')]
    BY <1>0, <1>7, CallEndsOutcome
  <2>2. history' \in Histories
    BY <1>0, <2>1 DEF TypeOK, Histories
  <2>3. tracker' \in Trackers /\ state' \in States /\ sending' \in Sendings
    BY <1>0, <2>1, MarkOutcome DEF TypeOK
  <2> QED BY <1>0, <2>1, <2>2, <2>3 DEF TypeOK
<1>8. CASE CallReturns
  <2>1. \/ /\ phase' \notin {"returned", "thrown"} /\ chain' = chain
           /\ UNCHANGED <<held, tracker, state, sending, pc, history>>
        \/ phase' = "returned"
    BY <1>8, CallReturnsOutcome
  <2>2. CASE phase' = "returned"
    BY <1>0, <1>8, <2>2, ReturnedOutcome DEF TypeOK
  <2> QED BY <1>0, <2>1, <2>2 DEF TypeOK
<1>9. CASE Resolve
  BY <1>0, <1>9, ResolveOutcome DEF TypeOK
<1>10. CASE ResolveFails
  BY <1>0, <1>10, ResolveFailsOutcome DEF TypeOK
<1>11. CASE ResumeInterruptedTurn
  BY <1>0, <1>11, ResumeInterruptedOutcome DEF TypeOK
<1>12. CASE UNCHANGED vars
  BY <1>0, <1>12 DEF TypeOK, vars
<1> QED
  BY <1>1, <1>2, <1>3, <1>4, <1>5, <1>6, <1>7, <1>8, <1>9, <1>10, <1>11, <1>12
     DEF Next, CallEnds

LEMMA PlacesStep ==
  ASSUME CallKnown, ItemsInv, [Next]_vars
  PROVE  Places'
<1>0. TypeOK /\ CallTypeOK /\ Places
  BY DEF ItemsInv, CallKnown
<1> USE DEF Places
<1>1. CASE Run
  <2>1. /\ pc = "idle" /\ pc' = "loop"
        /\ UNCHANGED <<callVars, chain, held, state, sending>>
        /\ ~history.excused /\ ~history'.excused
    BY <1>1, RunOutcome
  <2> QED BY <1>0, <2>1, SameState DEF callVars
<1>2. CASE AddInput
  <2>1. /\ pc = "idle" /\ pc' = "idle" /\ UNCHANGED callVars
        /\ history'.excused = history.excused
        /\ state'.step = state.step /\ state'.accepted = state.accepted
        /\ state'.responses = state.responses
    BY <1>2, AddInputOutcome
  <2> QED BY <1>0, <2>1, SameResponses DEF callVars, IsLost, IsOpen
<1>3. CASE CallModel
  <2>1. /\ pc = "loop" /\ pc' = "calling" /\ state.step = "run_again"
        /\ UNCHANGED <<state, history>> /\ phase' = "calling"
        /\ request' = request
    BY <1>3, CallModelOutcome
  <2> QED BY <1>0, <2>1, SameState
<1>4. CASE ServerTakes
  <2>1. /\ pc = "calling" /\ UNCHANGED <<state, pc, history>>
        /\ phase' \notin {"returned", "thrown"} /\ request' = request
    BY <1>0, <1>4, ServerTakesOutcome
  <2> QED BY <1>0, <2>1, SameState
<1>5. CASE StreamEvent
  <2>1. /\ Ongoing /\ pc = "calling" /\ pc' = "calling"
        /\ \/ UNCHANGED <<tracker, state, sending>>
           \/ Mark(state.pending = << >>)
    BY <1>0, <1>5, StreamEventOutcome
  <2>2. CASE Mark(state.pending = << >>)
    <3>1. /\ state'.responses = state.responses /\ (IsLost => IsLost')
          /\ IsLost' \/ (state'.step = state.step /\ state'.accepted = state.accepted)
      BY <2>2, MarkOutcome
    <3> QED BY <1>0, <2>1, <3>1, SameResponses DEF Ongoing, IsLost, IsOpen
  <2> QED BY <1>0, <2>1, <2>2, SameState DEF Ongoing
<1>6. CASE CallGoesOn
  <2>1. Ongoing /\ Still /\ pc = "calling" /\ pc' = "calling"
    BY <1>0, <1>6, CallGoesOnOutcome, StillSteps
  <2> QED BY <1>0, <2>1, SameState DEF Ongoing, Still
<1>7. CASE CallEnds
  <2>1. /\ phase' = "thrown" /\ request' = request
        /\ pc = "calling" /\ pc' = "idle"
        /\ \/ \E available \in BOOLEAN : Mark(available)
           \/ UNCHANGED <<tracker, state, sending>>
        /\ history' = [history EXCEPT !.excused = @ \/ Secret(past')]
    BY <1>0, <1>7, CallEndsOutcome
  <2>2. Secret(past') => history'.excused
    BY <1>0, <2>1 DEF TypeOK, Histories
  <2>3. CASE \E available \in BOOLEAN : Mark(available)
    <3>1. /\ state'.responses = state.responses
          /\ IsLost' \/ (state'.step = state.step /\ state'.accepted = state.accepted)
      BY <2>1, <2>3, MarkOutcome
    <3> QED BY <1>0, <2>1, <2>2, <3>1, SameResponses DEF IsLost, IsOpen
  <2>4. CASE UNCHANGED <<tracker, state, sending>>
    BY <1>0, <2>1, <2>2, <2>4, SameState
  <2> QED BY <2>1, <2>3, <2>4
<1>8. CASE CallReturns
  <2>1. /\ request' = request /\ past' = past
         /\ pc = "calling"
         /\ \/ /\ phase' \notin {"returned", "thrown"}
               /\ UNCHANGED <<held, tracker, state, sending, pc, history>>
            \/ phase' = "returned"
    BY <1>8, CallReturnsOutcome
  <2>2. CASE phase' = "returned"
    <3>1. /\ pc' = "resolving"
          /\ IsLost' \/ (state'.step = state.step /\ state'.accepted = state.accepted)
          /\ history'.excused = (history.excused \/ Secret(past))
          /\ \E answer, S : Answered(answer, S)
      BY <1>8, <2>2, ReturnedOutcome
    <3>2. Asked'
      BY <3>1 DEF Answered
    <3> QED BY <1>0, <2>1, <2>2, <3>1, <3>2 DEF IsLost, IsOpen
  <2>3. CASE phase' # "returned"
    BY <1>0, <2>1, <2>3, SameState
  <2> QED BY <2>2, <2>3
<1>9. CASE Resolve
  <2>1. /\ pc = "resolving" /\ pc' \in {"loop", "idle"}
        /\ UNCHANGED <<callVars, history>>
        /\ state'.responses = state.responses
        /\ state'.step \in {"final", "run_again", "interruption"}
        /\ state'.accepted = "no"
    BY <1>9, ResolveOutcome
  <2> QED BY <1>0, <2>1, SameResponses DEF callVars, IsOpen
<1>10. CASE ResolveFails
  <2>1. /\ pc = "resolving" /\ pc' = "idle" /\ UNCHANGED callVars
        /\ state'.responses = state.responses /\ state'.step = state.step
        /\ state.step # "accepted" => state'.accepted = state.accepted
        /\ state.step = "accepted" => state'.accepted # "no"
        /\ history'.excused = history.excused
    BY <1>10, ResolveFailsOutcome
  <2> QED BY <1>0, <2>1, SameResponses DEF callVars, IsOpen, IsLost
<1>11. CASE ResumeInterruptedTurn
  <2>1. /\ pc = "loop" /\ pc' = "loop" /\ UNCHANGED <<callVars, history>>
        /\ state'.responses = state.responses /\ state.step = "interruption"
        /\ state'.step = "run_again" /\ state'.accepted = state.accepted
    BY <1>11, ResumeInterruptedOutcome
  <2> QED BY <1>0, <2>1, SameResponses DEF callVars, IsOpen
<1>12. CASE TurnFails \/ ResumeAcceptedResponse
  <2>1. /\ Still /\ pc = "loop" /\ UNCHANGED callVars
        /\ \/ pc' = "idle"
           \/ pc' = "resolving" /\ Resumable /\ state.step = "accepted"
    BY <1>12, StillSteps
  <2>2. Resumable /\ state.step = "accepted" => IsOpen
    BY DEF Resumable, IsOpen
  <2> QED BY <1>0, <2>1, <2>2, SameState DEF callVars, Still
<1>13. CASE UNCHANGED vars
  BY <1>0, <1>13, SameState DEF vars, callVars
<1> QED
  BY <1>1, <1>2, <1>3, <1>4, <1>5, <1>6, <1>7, <1>8, <1>9, <1>10, <1>11, <1>12,
     <1>13 DEF Next, CallEnds

(* What is in the history or staged is of a kind that is known.             *)
LEMMA KnownItems ==
  ASSUME ItemsInv
  PROVE  /\ Latest \in Nat /\ history.staged \in Nat
         /\ Server \subseteq Turned(Latest)
         /\ \A r \in 1 .. Latest : ResultsOf(r) \subseteq Turned(Latest)
         /\ Generated \subseteq Staged(1 .. history.staged) \cup Turned(Latest)
         /\ Waiting \subseteq Staged(1 .. history.staged)
         /\ Generated \subseteq Known /\ Waiting \subseteq Known
<1>1. /\ state.responses \in Seq(Answers) /\ Latest \in Nat
      /\ history.staged \in Nat
  BY DEF ItemsInv, TypeOK, States, Histories, Latest
<1>2. Server \subseteq Turned(Latest)
  BY <1>1, OutputsAre DEF Server, Latest
<1>3. \A r \in 1 .. Latest : ResultsOf(r) \subseteq Turned(Latest)
  BY ResultsAreItems DEF Turned
<1>4. Generated \subseteq Staged(1 .. history.staged) \cup Turned(Latest)
  BY <1>2, <1>3 DEF ItemsInv, Numbered
<1>5. Waiting \subseteq Staged(1 .. history.staged)
  BY DEF ItemsInv, Numbered, Waiting, Staged
<1> QED BY <1>1, <1>2, <1>3, <1>4, <1>5 DEF Known

LEMMA StagedGrows ==
  /\ \A S, T : S \subseteq T => Staged(S) \subseteq Staged(T)
  /\ \A S, T : Staged(S \cup T) = Staged(S) \cup Staged(T)
  /\ \A S, T : Staged(S \ T) = Staged(S) \ Staged(T)
<1>1. \A S, n : Item("staged", n) \in Staged(S) <=> n \in S
  BY ItemSets
<1> QED BY <1>1 DEF Staged

LEMMA SameKnown ==
  ASSUME Latest' = Latest, history'.staged = history.staged
  PROVE  Known' = Known
BY DEF Known

LEMMA MarkNumbered ==
  ASSUME ItemsInv, NEW available \in BOOLEAN, Mark(available),
         history'.staged = history.staged, held' = held
  PROVE  Numbered'
<1>1. /\ sending'.turn = sending.turn /\ sending'.input = sending.input
      /\ tracker'.sent \subseteq tracker.sent \cup Turn
      /\ state'.responses = state.responses
  BY MarkOutcome
<1>2. PICK S \in SUBSET ToSet(state.pending) :
        /\ Generated' = Generated \cup Staged(S)
        /\ ToSet(state.pending)' = ToSet(state.pending) \ S
  BY MarkOutcome
<1>3. Latest' = Latest /\ Server' = Server /\ Known' = Known
  BY <1>1, SameResponses, SameKnown
<1>4. Turn' = Turn /\ Input' = Input /\ Holding' = Holding
  BY <1>1 DEF Turn, Input, Holding
<1>5. Numbered
  BY DEF ItemsInv
<1>6. Staged(S) \subseteq Staged(1 .. history.staged)
  <2>1. S \subseteq 1 .. history.staged
    BY <1>5 DEF Numbered
  <2> QED BY <2>1, StagedGrows
<1>7. Generated' \subseteq Server' \cup Staged(1 .. history'.staged)
                             \cup UNION {ResultsOf(r) : r \in 1 .. Latest'}
  BY <1>2, <1>3, <1>5, <1>6 DEF Numbered
<1>8. ToSet(state'.pending) \subseteq 1 .. history'.staged
  BY <1>2, <1>5 DEF Numbered
<1> QED BY <1>1, <1>3, <1>4, <1>5, <1>7, <1>8 DEF Numbered

LEMMA StillNumbered ==
  ASSUME ItemsInv, state' = state, sending' = sending, history'.staged = history.staged,
         tracker'.sent \subseteq Known, Holding' \subseteq Known
  PROVE  Numbered'
<1>1. /\ Latest' = Latest /\ Server' = Server /\ Generated' = Generated
  BY SameState
<1>2. Known' = Known
  BY <1>1, SameKnown
<1>3. Turn' = Turn /\ Input' = Input
  BY DEF Turn, Input
<1> QED BY <1>1, <1>2, <1>3 DEF ItemsInv, Numbered

LEMMA NumberedStep ==
  ASSUME CallKnown, ItemsInv, [Next]_vars
  PROVE  Numbered'
<1>0. /\ TypeOK /\ CallTypeOK /\ Numbered
      /\ Holding \subseteq Known /\ tracker.sent \subseteq Known
  BY DEF ItemsInv, CallKnown, Numbered
<1>1. CASE Run
  <2>1. /\ UNCHANGED <<held, state, sending>> /\ history'.staged = history.staged
        /\ tracker'.sent \subseteq Inputs \cup Generated
    BY <1>1, RunOutcome
  <2>2. tracker'.sent \subseteq Known
    BY <2>1, KnownItems DEF Known
  <2>3. Holding' \subseteq Known
    BY <1>0, <2>1 DEF Holding
  <2> QED BY <2>1, <2>2, <2>3, StillNumbered
<1>2. CASE AddInput
  <2>1. /\ UNCHANGED <<held, tracker, sending>>
        /\ history.staged < MaxInputs /\ history'.staged = history.staged + 1
        /\ state'.responses = state.responses
        /\ state'.generated = state.generated
        /\ ToSet(state'.pending) = ToSet(state.pending) \cup {history.staged + 1}
    BY <1>2, AddInputOutcome
  <2>2. /\ Latest' = Latest /\ Server' = Server /\ Generated' = Generated
        /\ Turn' = Turn /\ Input' = Input /\ Holding' = Holding
    BY <2>1, SameResponses DEF Generated, Turn, Input, Holding
  <2>3. history.staged \in Nat /\ MaxInputs \in Nat
    BY <1>0, ConversationAssumption DEF TypeOK, Histories, ConversationAssumption
  <2>4. 1 .. history.staged \subseteq 1 .. history'.staged
    BY <2>1, <2>3
  <2>5. Staged(1 .. history.staged) \subseteq Staged(1 .. history'.staged)
    BY <2>4, StagedGrows
  <2>6. Known \subseteq Known'
    BY <2>2, <2>5 DEF Known
  <2>7. history'.staged <= MaxInputs /\ ToSet(state'.pending) \subseteq 1 .. history'.staged
    BY <1>0, <2>1, <2>3, <2>4 DEF Numbered
  <2> QED BY <1>0, <2>1, <2>2, <2>5, <2>6, <2>7 DEF Numbered
<1>3. CASE CallModel
  <2>1. /\ UNCHANGED <<held, state, history>>
        /\ Turn' \subseteq Inputs \cup Generated \cup Waiting
        /\ Input' \subseteq Turn' /\ tracker'.sent = tracker.sent
    BY <1>3, CallModelOutcome
  <2>2. /\ Latest' = Latest /\ Server' = Server /\ Generated' = Generated
        /\ Holding' = Holding
    BY <2>1, SameState DEF Holding
  <2>3. Known' = Known
    BY <2>1, <2>2, SameKnown
  <2>4. Turn' \subseteq Known
    BY <2>1, KnownItems DEF Known
  <2> QED BY <1>0, <2>1, <2>2, <2>3, <2>4 DEF Numbered
<1>4. CASE ServerTakes
  <2>1. /\ UNCHANGED <<tracker, state, sending, history>>
        /\ Holding' \subseteq Holding \cup Input
    BY <1>0, <1>4, ServerTakesOutcome DEF Holding
  <2>2. Holding' \subseteq Known
    BY <1>0, <2>1 DEF Numbered
  <2> QED BY <1>0, <2>1, <2>2, StillNumbered
<1>5. CASE StreamEvent
  <2>1. /\ UNCHANGED <<chain, held, pc, history>>
        /\ \/ UNCHANGED <<tracker, state, sending>>
           \/ Mark(state.pending = << >>)
    BY <1>0, <1>5, StreamEventOutcome
  <2>2. Holding' \subseteq Known
    BY <1>0, <2>1 DEF Holding
  <2> QED BY <1>0, <2>1, <2>2, StillNumbered, MarkNumbered
<1>6. CASE CallGoesOn \/ TurnFails \/ ResumeAcceptedResponse
  <2>1. Still /\ tracker' = tracker
    BY <1>6, StillSteps
  <2>2. Holding' \subseteq Known
    BY <1>0, <2>1 DEF Holding, Still
  <2> QED BY <1>0, <2>1, <2>2, StillNumbered DEF Still
<1>7. CASE CallEnds
  <2>1. /\ UNCHANGED <<chain, held>>
        /\ \/ \E available \in BOOLEAN : Mark(available)
           \/ UNCHANGED <<tracker, state, sending>>
        /\ history' = [history EXCEPT !.excused = @ \/ Secret(past')]
    BY <1>0, <1>7, CallEndsOutcome
  <2>2. history'.staged = history.staged
    BY <1>0, <2>1 DEF TypeOK, Histories
  <2>3. Holding' \subseteq Known
    BY <1>0, <2>1 DEF Holding
  <2> QED BY <1>0, <2>1, <2>2, <2>3, StillNumbered, MarkNumbered
<1>8. CASE CallReturns
  <2>1. \/ /\ phase' \notin {"returned", "thrown"}
           /\ UNCHANGED <<held, tracker, state, sending, pc, history>>
        \/ phase' = "returned"
    BY <1>8, CallReturnsOutcome
  <2>2. CASE phase' # "returned"
    <3>1. Holding' \subseteq Known
      BY <1>0, <2>1, <2>2 DEF Holding
    <3> QED BY <1>0, <2>1, <2>2, <3>1, StillNumbered
  <2>3. CASE phase' = "returned"
    <3>1. /\ sending'.turn = sending.turn /\ sending'.input = sending.input
          /\ history'.staged = history.staged
          /\ tracker'.sent = tracker.sent \cup Turn
      BY <1>8, <2>3, ReturnedOutcome
    <3>2. PICK answer, S : Answered(answer, S)
      BY <1>8, <2>3, ReturnedOutcome
    <3> DEFINE out == ToSet(OutputOf(answer, Latest + 1))
    <3>3. /\ S \subseteq ToSet(state.pending)
          /\ Latest' = Latest + 1 /\ Server' = Server \cup out
          /\ out \subseteq Of(Latest + 1)
          /\ Holding' \subseteq Holding \cup Input \cup out
          /\ Generated' = Generated \cup Staged(S)
          /\ ToSet(state.pending)' = ToSet(state.pending) \ S
      BY <3>2 DEF Answered
    <3> HIDE DEF out
    <3>4. Latest \in Nat
      BY KnownItems
    <3>5. /\ Turned(Latest + 1) = Turned(Latest) \cup Of(Latest + 1)
          /\ 1 .. Latest \subseteq 1 .. Latest + 1
      BY <3>4, TurnedGrows
    <3>6. Known' = Known \cup Of(Latest + 1)
      BY <3>1, <3>3, <3>5 DEF Known
    <3>7. Staged(S) \subseteq Staged(1 .. history.staged)
      <4>1. S \subseteq 1 .. history.staged
        BY <1>0, <3>3 DEF Numbered
      <4> QED BY <4>1, StagedGrows
    <3>8. UNION {ResultsOf(r) : r \in 1 .. Latest} \subseteq UNION {ResultsOf(r) : r \in 1 .. Latest'}
      BY <3>3, <3>5
    <3>9. Generated' \subseteq Server' \cup Staged(1 .. history'.staged)
                             \cup UNION {ResultsOf(r) : r \in 1 .. Latest'}
      BY <1>0, <3>1, <3>3, <3>7, <3>8 DEF Numbered
    <3>10. Turn' = Turn /\ Input' = Input
      BY <3>1 DEF Turn, Input
    <3>11. Holding' \subseteq Known' /\ tracker'.sent \subseteq Known'
      BY <1>0, <3>1, <3>3, <3>6 DEF Numbered
    <3>12. ToSet(state'.pending) \subseteq 1 .. history'.staged
      BY <1>0, <3>1, <3>3 DEF Numbered
    <3> QED BY <1>0, <3>1, <3>6, <3>9, <3>10, <3>11, <3>12 DEF Numbered
  <2> QED BY <2>2, <2>3
<1>9. CASE Resolve
  <2>1. /\ UNCHANGED <<held, tracker, sending, history>>
        /\ state'.responses = state.responses /\ state'.pending = state.pending
        /\ Latest \in Nat \ {0}
        /\ ToSet(OutputOf(state.responses[Latest], Latest)) \subseteq Server
    BY <1>9, ResolveOutcome
  <2>2. PICK results \in SUBSET {Item("result", Latest)} :
          Generated' = Generated \cup results
                \cup ToSet(OutputOf(state.responses[Latest], Latest))
    BY <1>9, ResolveOutcome
  <2>3. results \subseteq UNION {ResultsOf(r) : r \in 1 .. Latest}
    BY <2>1, ResultsAreItems
  <2>4. Latest' = Latest /\ Server' = Server /\ Known' = Known
    BY <2>1, SameResponses, SameKnown
  <2>5. Turn' = Turn /\ Input' = Input /\ Holding' = Holding
    BY <2>1 DEF Turn, Input, Holding
  <2>6. Generated' \subseteq Server \cup Staged(1 .. history.staged)
                                \cup UNION {ResultsOf(r) : r \in 1 .. Latest}
    BY <1>0, <2>1, <2>2, <2>3 DEF Numbered
  <2> QED BY <1>0, <2>1, <2>4, <2>5, <2>6 DEF Numbered
<1>10. CASE ResolveFails
  <2>1. /\ UNCHANGED <<held, tracker, sending>>
        /\ state'.responses = state.responses /\ state'.pending = state.pending
        /\ state'.generated = state.generated
        /\ history'.staged = history.staged
    BY <1>10, ResolveFailsOutcome
  <2>2. Latest' = Latest /\ Server' = Server /\ Known' = Known
    BY <2>1, SameResponses, SameKnown
  <2>3. Turn' = Turn /\ Input' = Input /\ Holding' = Holding /\ Generated' = Generated
    BY <2>1 DEF Turn, Input, Holding, Generated
  <2> QED BY <1>0, <2>1, <2>2, <2>3 DEF Numbered
<1>11. CASE ResumeInterruptedTurn
  <2>1. /\ UNCHANGED <<held, tracker, sending, history>>
        /\ state'.responses = state.responses /\ state'.pending = state.pending
        /\ Latest \in Nat \ {0}
        /\ Generated' = Generated \cup {Item("approvalResult", Latest)}
    BY <1>11, ResumeInterruptedOutcome
  <2>2. Item("approvalResult", Latest) \in UNION {ResultsOf(r) : r \in 1 .. Latest}
    BY <2>1, ResultsAreItems
  <2>3. Latest' = Latest /\ Server' = Server /\ Known' = Known
    BY <2>1, SameResponses, SameKnown
  <2>4. Turn' = Turn /\ Input' = Input /\ Holding' = Holding
    BY <2>1 DEF Turn, Input, Holding
  <2> QED BY <1>0, <2>1, <2>2, <2>3, <2>4 DEF Numbered
<1>12. CASE UNCHANGED vars
  <2>1. Holding' \subseteq Known /\ tracker'.sent \subseteq Known
    BY <1>0, <1>12 DEF Holding, vars
  <2> QED BY <1>12, <2>1, StillNumbered DEF vars
<1> QED
  BY <1>1, <1>2, <1>3, <1>4, <1>5, <1>6, <1>7, <1>8, <1>9, <1>10, <1>11, <1>12
     DEF Next, CallEnds

(* A staged item is in exactly one place while it moves from one to the     *)
(* other, and items that are not staged do not matter to that.              *)
InOnePlace ==
  \A n \in 1 .. history.staged :
    (n \in ToSet(state.pending)) # (Item("staged", n) \in Generated)

LEMMA NotStaged ==
  ASSUME NEW n, NEW r
  PROVE  Item("staged", n) \notin Of(r) /\ Item("staged", n) \notin Turned(r)
<1>1. Item("staged", n) \in Staged({n})
  BY DEF Staged
<1>2. Staged({n}) \cap Of(r) = {} /\ Staged({n}) \cap Turned(r) = {}
  BY ItemSets
<1> QED BY <1>1, <1>2

LEMMA OnePlaceKept ==
  ASSUME ItemsInv, history'.staged = history.staged,
         NEW S \in SUBSET ToSet(state.pending), NEW more,
         ToSet(state.pending)' = ToSet(state.pending) \ S,
         Generated' = Generated \cup Staged(S) \cup more,
         \A n : Item("staged", n) \notin more
  PROVE  InOnePlace'
<1>3. \A n : Item("staged", n) \in Staged(S) <=> n \in S
  BY ItemSets
<1>4. InOnePlace
  BY DEF ItemsInv, Distinct, InOnePlace
<1> SUFFICES ASSUME NEW n \in 1 .. history.staged
             PROVE  (n \in ToSet(state.pending)') # (Item("staged", n) \in Generated')
  BY DEF InOnePlace
<1>5. (n \in ToSet(state.pending)) # (Item("staged", n) \in Generated)
  BY <1>4 DEF InOnePlace
<1>6. n \in ToSet(state.pending)' <=> n \in ToSet(state.pending) /\ n \notin S
  OBVIOUS
<1>7. Item("staged", n) \in Generated' <=> Item("staged", n) \in Generated \/ n \in S
  BY <1>3
<1> QED BY <1>5, <1>6, <1>7

LEMMA MarkDistinct ==
  ASSUME ItemsInv, NEW available \in BOOLEAN, Mark(available), pc = "calling",
         pc' \in {"calling", "idle"}, history'.staged = history.staged
  PROVE  Distinct'
<1>1. /\ sending'.marked /\ sending'.input = sending.input
      /\ IsInjective(state'.generated) /\ IsInjective(state'.pending)
      /\ ~sending.marked => Waiting' \cap Input = {}
      /\ sending.marked => state'.pending = state.pending
      /\ IsLost' \/ (state'.step = state.step /\ state'.accepted = state.accepted)
      /\ IsLost => IsLost'
  BY MarkOutcome
<1>2. PICK S \in SUBSET ToSet(state.pending) :
        /\ Generated' = Generated \cup Staged(S)
        /\ ToSet(state.pending)' = ToSet(state.pending) \ S
  BY MarkOutcome
<1>3. InOnePlace'
  <2> DEFINE more == {}
  <2>1. /\ Generated' = Generated \cup Staged(S) \cup more
        /\ \A n : Item("staged", n) \notin more
    BY <1>2
  <2> HIDE DEF more
  <2> QED BY <1>2, <2>1, OnePlaceKept
<1>4. Input' = Input
  BY <1>1 DEF Input
<1>5. Waiting' \cap Input' = {}
  BY <1>1, <1>4 DEF ItemsInv, Distinct, Waiting
<1>6. state.step = "run_again" \/ IsLost
  BY DEF ItemsInv, Places
<1>7. ~IsOpen' /\ state'.step # "interruption"
  BY <1>1, <1>6 DEF IsOpen, IsLost
<1> QED BY <1>1, <1>3, <1>5, <1>7 DEF Distinct, InOnePlace

LEMMA StillDistinct ==
  ASSUME ItemsInv, state' = state, history'.staged = history.staged,
         pc' = "resolving" => pc = "resolving" \/ IsOpen,
         pc' = "calling" /\ sending'.marked => pc = "calling" /\ sending' = sending
  PROVE  Distinct'
<1>1. /\ Latest' = Latest /\ Generated' = Generated /\ Waiting' = Waiting
      /\ (IsOpen' <=> IsOpen)
  BY SameState
<1>2. sending' = sending => Input' = Input
  BY DEF Input
<1> QED BY <1>1, <1>2 DEF ItemsInv, Distinct

LEMMA DistinctStep ==
  ASSUME CallKnown, ItemsInv, [Next]_vars
  PROVE  Distinct'
<1>0. TypeOK /\ CallTypeOK /\ Distinct
  BY DEF ItemsInv, CallKnown
<1>1. CASE Run
  BY <1>1, RunOutcome, StillDistinct
<1>2. CASE AddInput
  <2>1. /\ pc' = "idle" /\ history'.staged = history.staged + 1
        /\ state'.step = state.step /\ state'.accepted = state.accepted
        /\ state'.responses = state.responses
        /\ state'.generated = state.generated
        /\ ToSet(state'.pending) = ToSet(state.pending) \cup {history.staged + 1}
        /\ IsInjective(state'.pending)
    BY <1>2, AddInputOutcome
  <2>2. Latest' = Latest /\ Generated' = Generated /\ (IsOpen' <=> IsOpen)
    BY <2>1, SameResponses DEF Generated, IsOpen
  <2>3. history.staged \in Nat /\ history.staged + 1 \notin 1 .. history.staged
    BY KnownItems
  <2>4. Item("staged", history.staged + 1) \notin Generated
    <3>1. Item("staged", history.staged + 1) \notin Staged(1 .. history.staged)
      BY <2>3, ItemSets
    <3>2. Item("staged", history.staged + 1) \in Staged({history.staged + 1})
      BY DEF Staged
    <3>3. Item("staged", history.staged + 1) \notin Turned(Latest)
      BY <3>2, ItemSets
    <3> QED BY <3>1, <3>3, KnownItems
  <2>5. \A n \in 1 .. history'.staged : n \in 1 .. history.staged \/ n = history.staged + 1
    BY <2>1, <2>3
  <2>6. \A n \in 1 .. history'.staged :
          (n \in ToSet(state'.pending)) # (Item("staged", n) \in Generated)
    <3> SUFFICES ASSUME NEW n \in 1 .. history'.staged
                 PROVE  (n \in ToSet(state'.pending)) # (Item("staged", n) \in Generated)
      OBVIOUS
    <3>1. CASE n \in 1 .. history.staged
      <4>1. n # history.staged + 1
        BY <2>3, <3>1
      <4>2. (n \in ToSet(state.pending)) # (Item("staged", n) \in Generated)
        BY <1>0, <3>1 DEF Distinct
      <4> QED BY <2>1, <4>1, <4>2
    <3>2. CASE n = history.staged + 1
      BY <2>1, <2>4, <3>2
    <3> QED BY <2>5, <3>1, <3>2
  <2> QED BY <1>0, <2>1, <2>2, <2>6 DEF Distinct
<1>3. CASE CallModel
  BY <1>3, CallModelOutcome, StillDistinct
<1>4. CASE ServerTakes
  BY <1>0, <1>4, ServerTakesOutcome, StillDistinct
<1>5. CASE StreamEvent
  <2>1. /\ UNCHANGED <<chain, held, pc, history>> /\ pc = "calling"
        /\ \/ UNCHANGED <<tracker, state, sending>>
           \/ Mark(state.pending = << >>)
    BY <1>0, <1>5, StreamEventOutcome
  <2> QED BY <2>1, StillDistinct, MarkDistinct
<1>6. CASE CallGoesOn \/ TurnFails \/ ResumeAcceptedResponse
  <2>1. /\ Still
        /\ pc' = "resolving" => Resumable /\ state.step = "accepted"
        /\ pc' = "calling" => pc = "calling"
    BY <1>6, StillSteps
  <2>2. Resumable /\ state.step = "accepted" => IsOpen
    BY DEF Resumable, IsOpen
  <2> QED BY <2>1, <2>2, StillDistinct DEF Still
<1>7. CASE CallEnds
  <2>1. /\ pc = "calling" /\ pc' = "idle"
        /\ \/ \E available \in BOOLEAN : Mark(available)
           \/ UNCHANGED <<tracker, state, sending>>
        /\ history' = [history EXCEPT !.excused = @ \/ Secret(past')]
    BY <1>0, <1>7, CallEndsOutcome
  <2>2. history'.staged = history.staged
    BY <1>0, <2>1 DEF TypeOK, Histories
  <2> QED BY <2>1, <2>2, StillDistinct, MarkDistinct
<1>8. CASE CallReturns
  <2>1. \/ /\ phase' \notin {"returned", "thrown"}
           /\ UNCHANGED <<held, tracker, state, sending, pc, history>>
        \/ phase' = "returned"
    BY <1>8, CallReturnsOutcome
  <2>2. CASE phase' # "returned"
    BY <2>1, <2>2, StillDistinct
  <2>3. CASE phase' = "returned"
    <3>1. /\ pc = "calling" /\ pc' = "resolving" /\ history'.staged = history.staged
          /\ IsInjective(state'.generated) /\ IsInjective(state'.pending)
          /\ IsLost' \/ (state'.step = state.step /\ state'.accepted = state.accepted)
      BY <1>8, <2>3, ReturnedOutcome
    <3>2. PICK answer, S : Answered(answer, S)
      BY <1>8, <2>3, ReturnedOutcome
    <3>3. /\ S \in SUBSET ToSet(state.pending)
          /\ Latest' = Latest + 1
          /\ Generated' = Generated \cup Staged(S)
          /\ ToSet(state.pending)' = ToSet(state.pending) \ S
      BY <3>2 DEF Answered
    <3>4. InOnePlace'
      <4> DEFINE more == {}
      <4>1. /\ Generated' = Generated \cup Staged(S) \cup more
            /\ \A n : Item("staged", n) \notin more
        BY <3>3
      <4> HIDE DEF more
      <4> QED BY <3>1, <3>3, <4>1, OnePlaceKept
    <3>5. Generated' \cap Of(Latest') = {}
      <4>1. Turned(Latest) \cap Of(Latest + 1) = {}
        BY KnownItems, TurnedGrows
      <4> QED BY <3>3, <4>1, KnownItems, ItemSets
    <3>6. state'.step # "interruption"
      BY <1>0, <3>1 DEF ItemsInv, Places, IsLost
    <3> QED BY <3>1, <3>4, <3>5, <3>6 DEF Distinct, InOnePlace
  <2> QED BY <2>2, <2>3
<1>9. CASE Resolve
  <2>1. /\ pc = "resolving" /\ pc' \in {"loop", "idle"} /\ UNCHANGED history
        /\ state'.responses = state.responses /\ state'.pending = state.pending
        /\ state'.step \in {"final", "run_again", "interruption"}
        /\ Latest \in Nat \ {0}
        /\ ToSet(OutputOf(state.responses[Latest], Latest)) \subseteq Server
        /\ IsInjective(state'.generated)
    BY <1>9, ResolveOutcome
  <2> DEFINE out == ToSet(OutputOf(state.responses[Latest], Latest))
  <2>2. PICK results \in SUBSET {Item("result", Latest)} :
          Generated' = Generated \cup results \cup out
    BY <1>9, ResolveOutcome
  <2> HIDE DEF out
  <2>3. Latest' = Latest
    BY <2>1, SameResponses
  <2>4. InOnePlace'
    <3>1. /\ ToSet(state.pending)' = ToSet(state.pending) \ {}
          /\ Staged({}) = {}
      BY <2>1 DEF Staged
    <3>2. Generated' = Generated \cup Staged({}) \cup (results \cup out)
      BY <2>2, <3>1
    <3> DEFINE more == results \cup out
    <3>3. \A n : Item("staged", n) \notin more
      BY <2>1, <2>2, KnownItems, ResultsAreItems, NotStaged DEF out
    <3>4. Generated' = Generated \cup Staged({}) \cup more
      BY <3>2
    <3> HIDE DEF more
    <3> QED BY <2>1, <3>1, <3>3, <3>4, OnePlaceKept
  <2>5. Item("approvalResult", Latest) \notin Generated'
    <3>1. Item("approvalResult", Latest) \notin Generated
      BY <1>0, <2>1, ResultsAreItems DEF Distinct
    <3>2. Item("approvalResult", Latest) \notin results
      BY ItemsDiffer
    <3>3. Server \cap ResultsOf(Latest) = {}
      BY <1>0, OutputsAre DEF TypeOK, States, Server
    <3> QED BY <2>1, <2>2, <3>1, <3>2, <3>3, ResultsAreItems DEF out
  <2> QED BY <1>0, <2>1, <2>3, <2>4, <2>5 DEF Distinct, InOnePlace, IsOpen
<1>10. CASE ResolveFails
  <2>1. /\ pc = "resolving" /\ pc' = "idle"
        /\ state'.responses = state.responses /\ state'.pending = state.pending
        /\ state'.generated = state.generated /\ state'.step = state.step
        /\ history'.staged = history.staged
    BY <1>10, ResolveFailsOutcome
  <2>2. Latest' = Latest /\ Generated' = Generated
    BY <2>1, SameResponses DEF Generated
  <2>3. state.step # "interruption"
    BY <2>1 DEF ItemsInv, Places
  <2> QED BY <1>0, <2>1, <2>2, <2>3 DEF Distinct
<1>11. CASE ResumeInterruptedTurn
  <2>1. /\ pc' = "loop" /\ UNCHANGED history
        /\ state'.responses = state.responses /\ state'.pending = state.pending
        /\ state'.step = "run_again" /\ IsInjective(state'.generated)
        /\ Generated' = Generated \cup {Item("approvalResult", Latest)}
    BY <1>11, ResumeInterruptedOutcome
  <2>2. InOnePlace'
    <3>1. /\ ToSet(state.pending)' = ToSet(state.pending) \ {}
          /\ Staged({}) = {}
      BY <2>1 DEF Staged
    <3> DEFINE more == {Item("approvalResult", Latest)}
    <3>2. Generated' = Generated \cup Staged({}) \cup more
      BY <2>1, <3>1
    <3>3. \A n : Item("staged", n) \notin more
      BY ItemsDiffer
    <3> HIDE DEF more
    <3> QED BY <2>1, <3>1, <3>2, <3>3, OnePlaceKept
  <2> QED BY <1>0, <2>1, <2>2 DEF Distinct, InOnePlace, IsOpen
<1>12. CASE UNCHANGED vars
  BY <1>12, StillDistinct DEF vars
<1> QED
  BY <1>1, <1>2, <1>3, <1>4, <1>5, <1>6, <1>7, <1>8, <1>9, <1>10, <1>11, <1>12
     DEF Next, CallEnds

------------------------------------------------------------------------------
(* The tracker knows what was sent before, in every run on the state.       *)

LEMMA StillTracked ==
  ASSUME ItemsInv, Tracked, state' = state, tracker' = tracker,
         sending' = sending, history' = history,
         pc' = "calling" => pc = "calling",
         pc' = "loop" => pc = "loop",
         pc' = "resolving" => pc = "resolving" \/ (pc = "loop" /\ ~IsLost)
  PROVE  Tracked'
<1>1. /\ Latest' = Latest /\ (Asked' <=> Asked) /\ Server' = Server
      /\ Generated' = Generated /\ (IsLost' <=> IsLost) /\ Turn' = Turn
  BY SameState DEF Turn
<1> QED BY <1>1 DEF Tracked

LEMMA MarkTracked ==
  ASSUME ItemsInv, Tracked, NEW available \in BOOLEAN, Mark(available),
         pc = "calling", pc' \in {"calling", "idle"}
  PROVE  Tracked'
<1>1. /\ sending'.turn = sending.turn
      /\ tracker'.initialSent = tracker.initialSent
      /\ tracker'.server = tracker.server
      /\ tracker.sent \subseteq tracker'.sent
      /\ state'.responses = state.responses
  BY MarkOutcome
<1>2. PICK S \in SUBSET ToSet(state.pending) :
        Staged(S) \subseteq Input /\ Generated' = Generated \cup Staged(S)
  BY MarkOutcome
<1>3. Server' = Server /\ Turn' = Turn
  BY <1>1, SameResponses DEF Turn
<1>4. Staged(S) \subseteq Turn
  BY <1>2 DEF ItemsInv, Numbered
<1> QED BY <1>1, <1>2, <1>3, <1>4 DEF Tracked

(* The tracker that a new run rebuilds from the state.                      *)
LEMMA RebuiltTracker ==
  ASSUME ItemsInv, ~IsLost /\ ~Asked => Generated = {}, Run
  PROVE  Tracked'
<1>1. /\ pc' = "loop" /\ state' = state
      /\ tracker'.remaining = {}
      /\ tracker'.initialSent <=> Asked
      /\ tracker'.server = Server
      /\ IF ~Asked THEN tracker'.sent = {}
         ELSE tracker'.sent = Inputs \cup
                (Generated \cap (Server \cup Staged(1 .. MaxInputs)
                   \cup UNION {ResultsOf(r) : r \in 1 .. Latest - 1}))
  BY RunOutcome
<1>2. /\ Latest' = Latest /\ (Asked' <=> Asked) /\ Server' = Server
      /\ Generated' = Generated /\ (IsLost' <=> IsLost)
  BY <1>1, SameState
<1>3. CASE ~Asked
  BY <1>1, <1>2, <1>3 DEF Tracked
<1>4. CASE Asked
  <2>1. /\ state.responses \in Seq(Answers) /\ history.staged \in Nat
        /\ history.staged <= MaxInputs /\ MaxInputs \in Nat
        /\ Generated \subseteq Server \cup Staged(1 .. history.staged)
                                \cup UNION {ResultsOf(r) : r \in 1 .. Latest}
    BY ConversationAssumption
       DEF ItemsInv, TypeOK, States, Histories, Numbered, ConversationAssumption
  <2>2. Latest \in Nat \ {0}
    BY <1>4, <2>1 DEF Latest, Asked
  <2>3. Server \cap ResultsOf(Latest) = {}
    BY <2>1, OutputsAre DEF Server
  <2>4. /\ Inputs \cap ResultsOf(Latest) = {}
        /\ Staged(1 .. MaxInputs) \cap ResultsOf(Latest) = {}
    BY ItemSets, ResultsAreItems
  <2>5. \A r \in 1 .. Latest - 1 : ResultsOf(r) \cap ResultsOf(Latest) = {}
    <3>1. \A r \in 1 .. Latest - 1 : r # Latest
      BY <2>2
    <3> QED BY <3>1, ItemSets, ResultsAreItems
  <2>6. tracker'.sent \cap ResultsOf(Latest) = {}
    BY <1>1, <1>4, <2>3, <2>4, <2>5
  <2>7. Staged(1 .. history.staged) \subseteq Staged(1 .. MaxInputs)
    <3>1. 1 .. history.staged \subseteq 1 .. MaxInputs
      BY <2>1
    <3> QED BY <3>1, StagedGrows
  <2>8. \A r \in 1 .. Latest : r = Latest \/ r \in 1 .. Latest - 1
    BY <2>2
  <2>9. Generated \ ResultsOf(Latest) \subseteq tracker'.sent
    BY <1>1, <1>4, <2>1, <2>7, <2>8
  <2> QED BY <1>1, <1>2, <1>4, <2>6, <2>9 DEF Tracked
<1> QED BY <1>3, <1>4

LEMMA TrackedStep ==
  ASSUME CallKnown, ItemsInv, Tracked, ~IsLost /\ ~Asked => Generated = {},
         [Next]_vars
  PROVE  Tracked'
<1>0. TypeOK /\ CallTypeOK /\ Places
  BY DEF ItemsInv, CallKnown
<1>1. CASE Run
  BY <1>1, RebuiltTracker
<1>2. CASE AddInput
  BY <1>2, AddInputOutcome DEF Tracked
<1>3. CASE CallModel
  <2>1. /\ pc = "loop" /\ pc' = "calling" /\ state' = state
        /\ Generated \ (tracker.sent \cup tracker.server) \subseteq Turn'
        /\ tracker'.initialSent
        /\ tracker'.sent = tracker.sent /\ tracker'.server = tracker.server
    BY <1>3, CallModelOutcome
  <2>2. Server' = Server /\ Generated' = Generated
    BY <2>1, SameState
  <2> QED BY <2>1, <2>2 DEF Tracked
<1>4. CASE ServerTakes
  BY <1>0, <1>4, ServerTakesOutcome, StillTracked
<1>5. CASE StreamEvent
  <2>1. /\ UNCHANGED <<chain, held, pc, history>> /\ pc = "calling"
        /\ \/ UNCHANGED <<tracker, state, sending>>
           \/ Mark(state.pending = << >>)
    BY <1>0, <1>5, StreamEventOutcome
  <2> QED BY <2>1, StillTracked, MarkTracked
<1>6. CASE CallGoesOn \/ TurnFails \/ ResumeAcceptedResponse
  <2>1. /\ Still /\ tracker' = tracker
        /\ pc' = "resolving" => pc = "loop" /\ Resumable
        /\ pc' = "calling" => pc = "calling"
        /\ pc' # "loop"
    BY <1>6, StillSteps
  <2>2. Resumable => ~IsLost
    BY DEF Resumable, IsLost
  <2> QED BY <2>1, <2>2, StillTracked DEF Still
<1>7. CASE CallEnds
  BY <1>0, <1>7, CallEndsOutcome DEF Tracked
<1>8. CASE CallReturns
  <2>1. \/ UNCHANGED <<held, tracker, state, sending, pc, history>>
        \/ phase' = "returned"
    BY <1>8, CallReturnsOutcome
  <2>2. CASE UNCHANGED <<held, tracker, state, sending, pc, history>>
    BY <2>2, StillTracked
  <2>3. CASE phase' = "returned"
    <3>1. /\ pc = "calling" /\ pc' = "resolving"
          /\ tracker'.initialSent = tracker.initialSent
          /\ tracker'.sent = tracker.sent \cup Turn /\ tracker'.remaining = {}
      BY <1>8, <2>3, ReturnedOutcome
    <3>2. PICK answer, S : Answered(answer, S)
      BY <1>8, <2>3, ReturnedOutcome
    <3> DEFINE out == ToSet(OutputOf(answer, Latest + 1))
    <3>3. /\ Latest' = Latest + 1 /\ Asked' /\ Server' = Server \cup out
          /\ tracker'.server = tracker.server \cup out
          /\ Generated' = Generated \cup Staged(S) /\ Staged(S) \subseteq Input
      BY <3>2 DEF Answered
    <3> HIDE DEF out
    <3>4. /\ Input \subseteq Turn
          /\ tracker.sent \subseteq Known /\ Turn \subseteq Known
      BY DEF ItemsInv, Numbered
    <3>5. Known \cap ResultsOf(Latest + 1) = {}
      <4>1. Turned(Latest) \cap Of(Latest + 1) = {}
        BY KnownItems, TurnedGrows
      <4> QED BY <4>1, ItemSets, ResultsAreItems DEF Known
    <3>6. tracker'.server = Server'
      BY <3>1, <3>3 DEF Tracked
    <3>7. Generated' \subseteq tracker'.sent \cup tracker'.server
      BY <3>1, <3>3, <3>4 DEF Tracked
    <3>8. tracker'.sent \cap ResultsOf(Latest') = {}
      BY <3>1, <3>3, <3>4, <3>5
    <3> QED BY <3>1, <3>3, <3>6, <3>7, <3>8 DEF Tracked
  <2> QED BY <2>1, <2>2, <2>3
<1>9. CASE Resolve
  <2>1. /\ pc = "resolving" /\ pc' \in {"loop", "idle"}
        /\ tracker' = tracker /\ state'.responses = state.responses
        /\ ToSet(OutputOf(state.responses[Latest], Latest)) \subseteq Server
        /\ Asked
    BY <1>0, <1>9, ResolveOutcome DEF Places
  <2> DEFINE out == ToSet(OutputOf(state.responses[Latest], Latest))
  <2>2. PICK results \in SUBSET {Item("result", Latest)} :
          Generated' = Generated \cup results \cup out
    BY <1>9, ResolveOutcome
  <2>3. out \subseteq Server
    BY <2>1
  <2> HIDE DEF out
  <2>4. Latest' = Latest /\ (Asked' <=> Asked) /\ Server' = Server
    BY <2>1, SameResponses
  <2>5. results \subseteq ResultsOf(Latest)
    BY ResultsAreItems
  <2>6. tracker.server = Server
    BY <2>1 DEF Tracked
  <2>7. Generated' \ ResultsOf(Latest) \subseteq tracker.sent \cup tracker.server
    BY <2>1, <2>2, <2>3, <2>5, <2>6 DEF Tracked
  <2> QED BY <2>1, <2>4, <2>6, <2>7 DEF Tracked
<1>10. CASE ResolveFails
  BY <1>10, ResolveFailsOutcome DEF Tracked
<1>11. CASE ResumeInterruptedTurn
  <2>1. /\ pc = "loop" /\ pc' = "loop" /\ tracker' = tracker
        /\ state'.responses = state.responses /\ state.step = "interruption"
        /\ Generated' = Generated \cup {Item("approvalResult", Latest)}
    BY <1>11, ResumeInterruptedOutcome
  <2>2. Latest' = Latest /\ (Asked' <=> Asked) /\ Server' = Server
    BY <2>1, SameResponses
  <2>3. ~IsLost /\ Item("approvalResult", Latest) \in ResultsOf(Latest)
    BY <2>1, ResultsAreItems DEF IsLost
  <2> QED BY <2>1, <2>2, <2>3 DEF Tracked
<1>12. CASE UNCHANGED vars
  BY <1>12, StillTracked DEF vars
<1> QED
  BY <1>1, <1>2, <1>3, <1>4, <1>5, <1>6, <1>7, <1>8, <1>9, <1>10, <1>11, <1>12
     DEF Next, CallEnds

------------------------------------------------------------------------------
(* What the server was given.                                               *)

LEMMA StillArrived ==
  ASSUME Arrived, state' = state, sending' = sending,
         Holding \subseteq Holding', history'.dropped = history.dropped,
         pc' = "calling" => pc = "calling",
         pc' = "resolving" => pc = "resolving" \/ ~IsLost,
         pc' = "calling" /\ ~chain' /\ past'.taken > 0 => Input \subseteq Holding'
  PROVE  Arrived'
<1>1. /\ Latest' = Latest /\ (Asked' <=> Asked) /\ Server' = Server
      /\ Generated' = Generated /\ (IsLost' <=> IsLost)
      /\ Turn' = Turn /\ Input' = Input
  BY SameState DEF Turn, Input
<1>2. Given \subseteq Given'
  BY DEF Given
<1> QED BY <1>1, <1>2 DEF Arrived

LEMMA MarkArrived ==
  ASSUME ItemsInv, Arrived, NEW available \in BOOLEAN, Mark(available),
         pc = "calling", pc' \in {"calling", "idle"}, held' = held,
         chain' = chain, history'.dropped = history.dropped,
         past'.taken = past.taken
  PROVE  Arrived'
<1>1. /\ sending'.turn = sending.turn /\ sending'.input = sending.input
      /\ state'.responses = state.responses
      /\ IsLost => IsLost'
  BY MarkOutcome
<1>2. PICK S \in SUBSET ToSet(state.pending) :
        /\ Staged(S) \subseteq Input /\ Generated' = Generated \cup Staged(S)
        /\ IsLost' \/ S = {}
  BY MarkOutcome
<1>3. /\ Latest' = Latest /\ (Asked' <=> Asked) /\ Server' = Server
      /\ Turn' = Turn /\ Input' = Input /\ Holding' = Holding /\ Given' = Given
  BY <1>1, SameResponses DEF Turn, Input, Holding, Given
<1>4. Staged(S) \subseteq Turn
  BY <1>2 DEF ItemsInv, Numbered
<1>5. S = {} => Generated' = Generated
  BY <1>2 DEF Staged
<1>6. ~IsLost' => Generated' = Generated /\ ~IsLost
  BY <1>1, <1>2, <1>5
<1>7. pc' # "resolving"
  OBVIOUS
<1> QED BY <1>2, <1>3, <1>4, <1>6, <1>7 DEF Arrived

LEMMA ArrivedStep ==
  ASSUME CallKnown, ItemsInv, Tracked, Arrived, [Next]_vars
  PROVE  Arrived'
<1>0. TypeOK /\ CallTypeOK /\ Places
  BY DEF ItemsInv, CallKnown
<1>1. CASE Run
  BY <1>1, RunOutcome, StillArrived DEF Holding
<1>2. CASE AddInput
  <2>1. /\ pc' = "idle" /\ held' = held
        /\ history'.dropped = history.dropped
        /\ state'.step = state.step /\ state'.accepted = state.accepted
        /\ state'.responses = state.responses
        /\ state'.generated = state.generated
    BY <1>2, AddInputOutcome
  <2>2. /\ Latest' = Latest /\ (Asked' <=> Asked) /\ Server' = Server
        /\ Generated' = Generated /\ (IsLost' <=> IsLost)
        /\ Holding' = Holding /\ Given' = Given
    BY <2>1, SameResponses DEF Generated, IsLost, Holding, Given
  <2> QED BY <2>1, <2>2 DEF Arrived
<1>3. CASE CallModel
  <2>1. /\ pc = "loop" /\ pc' = "calling" /\ state.step = "run_again"
        /\ UNCHANGED <<held, state, history>>
        /\ past' = Call!NoPast
        /\ Turn' = (IF tracker.initialSent THEN Inputs \cap tracker.remaining
                    ELSE Inputs)
                     \cup (Generated \ (tracker.sent \cup tracker.server))
                     \cup Waiting
    BY <1>3, CallModelOutcome
  <2>2. /\ Latest' = Latest /\ (Asked' <=> Asked) /\ Server' = Server
        /\ Generated' = Generated /\ (IsLost' <=> IsLost)
        /\ Holding' = Holding /\ Given' = Given
    BY <2>1, SameState DEF Holding, Given
  <2>3. ~IsLost /\ past'.taken = 0
    BY <2>1 DEF IsLost, Call!NoPast
  <2>4. Inputs \subseteq Given \cup Turn'
    <3>1. CASE Asked
      BY <2>3, <3>1 DEF Arrived
    <3>2. CASE ~Asked
      BY <2>1, <2>3, <3>2 DEF Tracked
    <3> QED BY <3>1, <3>2
  <2>5. Generated \subseteq Given \cup Turn'
    <3>1. Server \cap ResultsOf(Latest) = {}
      BY <1>0, OutputsAre DEF Server, TypeOK, States
    <3>2. Generated \cap ResultsOf(Latest) \subseteq Turn'
      BY <2>1, <2>3, <3>1 DEF Tracked
    <3>3. Generated \ ResultsOf(Latest) \subseteq Given
      BY <2>3 DEF Arrived
    <3> QED BY <3>2, <3>3
  <2> QED BY <2>1, <2>2, <2>3, <2>4, <2>5 DEF Arrived
<1>4. CASE ServerTakes
  <2>1. /\ pc = "calling"
        /\ UNCHANGED <<chain, state, sending, pc, history>>
        /\ IF chain THEN held' = held ELSE Holding' = Holding \cup Input
    BY <1>0, <1>4, ServerTakesOutcome
  <2>2. Holding \subseteq Holding'
    BY <2>1 DEF Holding
  <2> QED BY <2>1, <2>2, StillArrived
<1>5. CASE StreamEvent
  <2>1. /\ UNCHANGED <<chain, held, pc, history>> /\ pc = "calling"
        /\ past'.taken = past.taken
        /\ \/ UNCHANGED <<tracker, state, sending>>
           \/ Mark(state.pending = << >>)
    BY <1>0, <1>5, StreamEventOutcome DEF Ongoing
  <2>2. Holding' = Holding
    BY <2>1 DEF Holding
  <2>3. CASE Mark(state.pending = << >>)
    BY <2>1, <2>3, MarkArrived
  <2>4. CASE UNCHANGED <<tracker, state, sending>>
    BY <2>1, <2>2, <2>4, StillArrived DEF Arrived
  <2> QED BY <2>1, <2>3, <2>4
<1>6. CASE CallGoesOn
  <2>1. Still /\ pc = "calling" /\ pc' = "calling" /\ past'.taken = past.taken
    BY <1>0, <1>6, CallGoesOnOutcome, StillSteps DEF Ongoing
  <2>2. Holding' = Holding
    BY <2>1 DEF Holding, Still
  <2> QED BY <2>1, <2>2, StillArrived DEF Still, Arrived
<1>7. CASE CallEnds
  <2>1. /\ pc = "calling" /\ pc' = "idle" /\ UNCHANGED <<chain, held>>
        /\ past'.taken = past.taken
        /\ \/ \E available \in BOOLEAN : Mark(available)
           \/ UNCHANGED <<tracker, state, sending>>
        /\ history' = [history EXCEPT !.excused = @ \/ Secret(past')]
    BY <1>0, <1>7, CallEndsOutcome
  <2>2. history'.dropped = history.dropped /\ Holding' = Holding
    BY <1>0, <2>1 DEF TypeOK, Histories, Holding
  <2>3. CASE \E available \in BOOLEAN : Mark(available)
    BY <2>1, <2>2, <2>3, MarkArrived
  <2>4. CASE UNCHANGED <<tracker, state, sending>>
    BY <2>1, <2>2, <2>4, StillArrived
  <2> QED BY <2>1, <2>3, <2>4
<1>8. CASE CallReturns
  <2>1. /\ past' = past /\ chain' = chain /\ pc = "calling"
        /\ \/ UNCHANGED <<held, tracker, state, sending, pc, history>>
           \/ phase' = "returned" /\ past.taken > 0
    BY <1>8, CallReturnsOutcome
  <2>2. CASE UNCHANGED <<held, tracker, state, sending, pc, history>>
    <3>1. Holding' = Holding
      BY <2>2 DEF Holding
    <3> QED BY <2>1, <2>2, <3>1, StillArrived DEF Arrived
  <2>3. CASE phase' = "returned" /\ past.taken > 0
    <3>1. /\ pc' = "resolving"
          /\ history'.dropped = history.dropped \cup (Turn \ Input)
      BY <1>8, <2>3, ReturnedOutcome
    <3>2. PICK answer, S : Answered(answer, S)
      BY <1>8, <2>3, ReturnedOutcome
    <3> DEFINE out == ToSet(OutputOf(answer, Latest + 1))
    <3>3. /\ Latest' = Latest + 1 /\ Asked' /\ Server' = Server \cup out
          /\ Holding' = (IF chain THEN Holding \cup Input ELSE Holding) \cup out
          /\ Generated' = Generated \cup Staged(S) /\ Staged(S) \subseteq Input
      BY <3>2 DEF Answered
    <3> HIDE DEF out
    <3>4. Input \subseteq Holding' /\ Holding \subseteq Holding'
      BY <2>1, <2>3, <3>3 DEF Arrived
    <3>5. Turn \subseteq Given' /\ Given \subseteq Given'
      BY <3>1, <3>4 DEF Given
    <3>6. Inputs \subseteq Given' /\ Generated' \subseteq Given'
      <4>1. Inputs \cup Generated \subseteq Given \cup Turn
        BY <2>1 DEF Arrived
      <4>2. Holding' \subseteq Given'
        BY DEF Given
      <4> QED BY <3>3, <3>4, <3>5, <4>1, <4>2
    <3>7. Server' \subseteq Holding'
      BY <3>3, <3>4 DEF Arrived
    <3> QED BY <3>1, <3>3, <3>6, <3>7 DEF Arrived
  <2> QED BY <2>1, <2>2, <2>3
<1>9. CASE Resolve
  <2>1. /\ pc = "resolving" /\ pc' \in {"loop", "idle"}
        /\ UNCHANGED <<held, history>> /\ state'.responses = state.responses
        /\ ToSet(OutputOf(state.responses[Latest], Latest)) \subseteq Server
        /\ Asked
    BY <1>0, <1>9, ResolveOutcome DEF Places
  <2> DEFINE out == ToSet(OutputOf(state.responses[Latest], Latest))
  <2>2. PICK results \in SUBSET {Item("result", Latest)} :
          Generated' = Generated \cup results \cup out
    BY <1>9, ResolveOutcome
  <2>3. out \subseteq Server
    BY <2>1
  <2> HIDE DEF out
  <2>4. /\ Latest' = Latest /\ (Asked' <=> Asked) /\ Server' = Server
        /\ Holding' = Holding /\ Given' = Given
    BY <2>1, SameResponses DEF Holding, Given
  <2>5. results \subseteq ResultsOf(Latest)
    BY ResultsAreItems
  <2>6. out \subseteq Given
    BY <2>3 DEF Arrived, Given
  <2>7. Generated' \ ResultsOf(Latest) \subseteq Given
    BY <2>1, <2>2, <2>5, <2>6 DEF Arrived
  <2> QED BY <2>1, <2>4, <2>7 DEF Arrived
<1>10. CASE ResolveFails
  <2>1. /\ pc = "resolving" /\ pc' = "idle" /\ held' = held
        /\ state'.responses = state.responses
        /\ state'.generated = state.generated
        /\ history'.dropped = history.dropped
        /\ Asked
    BY <1>0, <1>10, ResolveFailsOutcome DEF Places
  <2>2. /\ Latest' = Latest /\ (Asked' <=> Asked) /\ Server' = Server
        /\ Generated' = Generated /\ Holding' = Holding /\ Given' = Given
    BY <2>1, SameResponses DEF Generated, Holding, Given
  <2> QED BY <2>1, <2>2 DEF Arrived
<1>11. CASE ResumeInterruptedTurn
  <2>1. /\ pc' = "loop" /\ UNCHANGED <<held, history>>
        /\ state'.responses = state.responses /\ state.step = "interruption"
        /\ Generated' = Generated \cup {Item("approvalResult", Latest)}
    BY <1>11, ResumeInterruptedOutcome
  <2>2. /\ Latest' = Latest /\ (Asked' <=> Asked) /\ Server' = Server
        /\ Holding' = Holding /\ Given' = Given
    BY <2>1, SameResponses DEF Holding, Given
  <2>3. ~IsLost /\ Asked /\ Item("approvalResult", Latest) \in ResultsOf(Latest)
    BY <1>0, <2>1, ResultsAreItems DEF IsLost, Places
  <2> QED BY <2>1, <2>2, <2>3 DEF Arrived
<1>12. CASE TurnFails \/ ResumeAcceptedResponse
  <2>1. /\ Still
        /\ pc' = "resolving" => Resumable
        /\ pc' # "calling"
    BY <1>12, StillSteps
  <2>2. Resumable => ~IsLost
    BY DEF Resumable, IsLost
  <2>3. Holding' = Holding
    BY <2>1 DEF Holding, Still
  <2> QED BY <2>1, <2>2, <2>3, StillArrived DEF Still
<1>13. CASE UNCHANGED vars
  <2>1. Holding' = Holding
    BY <1>13 DEF Holding, vars
  <2> QED BY <1>13, <2>1, StillArrived DEF vars, callVars, Arrived
<1> QED
  BY <1>1, <1>2, <1>3, <1>4, <1>5, <1>6, <1>7, <1>8, <1>9, <1>10, <1>11, <1>12,
     <1>13 DEF Next, CallEnds

(* At the answer of the model nothing of the history is forgotten.          *)
LEMMA GivenMeansNothingForgotten ==
  ItemsInv /\ Arrived => NothingForgotten
<1> SUFFICES ASSUME ItemsInv, Arrived PROVE NothingForgotten
  OBVIOUS
<1>1. ASSUME pc = "resolving"
      PROVE  (Inputs \cup Generated) \ history.dropped \subseteq Holding
  <2>1. Asked /\ Generated \cap Of(Latest) = {}
    BY <1>1 DEF ItemsInv, Places, Distinct
  <2>2. Generated \subseteq Given
    BY <1>1, <2>1, ResultsAreItems DEF Arrived
  <2> QED BY <1>1, <2>1, <2>2 DEF Arrived, Given
<1>2. \A n \in 1 .. history.staged :
        (n \in ToSet(state.pending)) # (Item("staged", n) \in Generated)
  BY DEF ItemsInv, Distinct
<1> QED BY <1>1, <1>2 DEF NothingForgotten, Inputs, Generated, Holding

------------------------------------------------------------------------------
(* The server holds nothing twice, unless it is excused.                    *)

LEMMA ExcusedStays ==
  ASSUME CallKnown, ItemsInv, [Next]_vars, Excused
  PROVE  Excused'
<1>0. TypeOK /\ CallTypeOK /\ Places
  BY DEF ItemsInv, CallKnown
<1>1. history.excused => history'.excused
  <2>1. CASE Run
    BY <2>1, RunOutcome
  <2>2. CASE CallEnds
    <3>1. history' = [history EXCEPT !.excused = @ \/ Secret(past')]
      BY <1>0, <2>2, CallEndsOutcome
    <3> QED BY <1>0, <3>1 DEF TypeOK, Histories
  <2>3. CASE CallReturns
    BY <2>3, CallReturnsOutcome, ReturnedOutcome
  <2>4. CASE ResolveFails
    BY <2>4, ResolveFailsOutcome
  <2>5. CASE AddInput
    BY <2>5, AddInputOutcome
  <2>6. CASE \/ CallModel \/ ServerTakes \/ StreamEvent \/ CallGoesOn \/ Resolve
             \/ ResumeAcceptedResponse \/ ResumeInterruptedTurn \/ TurnFails
             \/ UNCHANGED vars
    BY <2>6 DEF CallModel, ServerTakes, StreamEvent, CallGoesOn, Resolve,
                ResumeAcceptedResponse, ResumeInterruptedTurn, TurnFails, vars
  <2> QED BY <2>1, <2>2, <2>3, <2>4, <2>5, <2>6 DEF Next, CallEnds
<1>2. CASE pc # "calling"
  BY <1>0, <1>1, <1>2 DEF Places, Excused
<1>3. CASE pc = "calling" /\ Secret(past)
  <2>1. CASE ServerTakes
    BY <1>0, <1>3, <2>1, ServerTakesOutcome DEF Excused
  <2>2. CASE StreamEvent \/ CallGoesOn
    BY <1>0, <1>3, <2>2, StreamEventOutcome, CallGoesOnOutcome DEF Ongoing, Excused
  <2>3. CASE CallEnds
    BY <1>0, <1>3, <2>3, CallEndsOutcome DEF Excused
  <2>4. CASE CallReturns
    BY <1>3, <2>4, CallReturnsOutcome DEF Excused
  <2>5. CASE UNCHANGED vars
    BY <1>3, <2>5 DEF Excused, vars, callVars
  <2>6. ~(\/ Run \/ AddInput \/ CallModel \/ Resolve \/ ResolveFails
          \/ ResumeAcceptedResponse \/ ResumeInterruptedTurn \/ TurnFails)
    BY <1>3 DEF Run, AddInput, CallModel, Resolve, ResolveFails,
                ResumeAcceptedResponse, ResumeInterruptedTurn, TurnFails
  <2> QED BY <2>1, <2>2, <2>3, <2>4, <2>5, <2>6 DEF Next, CallEnds
<1> QED BY <1>1, <1>2, <1>3 DEF Excused

(* The steps that change neither the state nor what the server holds.       *)
LEMMA StillApart ==
  ASSUME HeldApart, state' = state, held' = held,
         pc' = "calling" => /\ pc = "calling" /\ sending' = sending
                            /\ chain' = chain /\ past'.taken = past.taken,
         pc' # "calling" => pc # "calling",
         pc' = "resolving" => pc = "resolving" \/ ~IsLost
  PROVE  HeldApart'
<1>1. /\ Latest' = Latest /\ (Asked' <=> Asked) /\ Waiting' = Waiting
      /\ (IsLost' <=> IsLost) /\ Holding' = Holding
  BY SameState DEF Holding
<1>2. CASE pc' = "calling"
  <2>1. Input' = Input
    BY <1>2 DEF Input
  <2>2. Before' = Before
    BY <1>1, <1>2, <2>1 DEF Before
  <2> QED BY <1>1, <1>2, <2>1, <2>2 DEF HeldApart
<1>3. CASE pc' # "calling"
  <2>1. Before' = Before
    BY <1>1, <1>3 DEF Before
  <2> QED BY <1>1, <1>3, <2>1 DEF HeldApart
<1> QED BY <1>2, <1>3

LEMMA MarkApart ==
  ASSUME ItemsInv, HeldApart, NEW available \in BOOLEAN, Mark(available),
         pc = "calling", held' = held, chain' = chain,
         \/ pc' = "calling" /\ past'.taken = past.taken
         \/ pc' = "idle" /\ (~available \/ past.taken = 0)
  PROVE  HeldApart'
<1>1. /\ sending'.input = sending.input
      /\ state'.responses = state.responses
      /\ ~available => IsLost'
  BY MarkOutcome
<1>2. Waiting' \subseteq Waiting
  <2>1. ToSet(state.pending)' \subseteq ToSet(state.pending)
    BY MarkOutcome
  <2> QED BY <2>1, StagedGrows DEF Waiting
<1>3. /\ Latest' = Latest /\ (Asked' <=> Asked)
      /\ Input' = Input /\ Holding' = Holding
  BY <1>1, SameResponses DEF Input, Holding
<1>4. CASE pc' = "calling" /\ past'.taken = past.taken
  <2>1. Before' = Before
    BY <1>3, <1>4 DEF Before
  <2> QED BY <1>1, <1>2, <1>3, <1>4, <2>1 DEF HeldApart
<1>5. CASE pc' = "idle" /\ ~available
  BY <1>1, <1>5 DEF HeldApart
<1>6. CASE pc' = "idle" /\ past.taken = 0
  <2>1. Before' = Before
    BY <1>3, <1>6 DEF Before, HeldApart
  <2>2. IsLost => IsLost'
    BY MarkOutcome
  <2> QED BY <1>2, <1>3, <1>6, <2>1, <2>2 DEF HeldApart
<1> QED BY <1>4, <1>5, <1>6

(* What the run asks the model is not held yet.                             *)
LEMMA CallModelApart ==
  ASSUME ItemsInv, Tracked, HeldApart, CallModel
  PROVE  HeldApart'
<1>1. /\ pc = "loop" /\ pc' = "calling" /\ state.step = "run_again"
      /\ UNCHANGED <<chain, held, state, history>>
      /\ Turn' = (IF tracker.initialSent THEN Inputs \cap tracker.remaining
                  ELSE Inputs)
                   \cup (Generated \ (tracker.sent \cup tracker.server))
                   \cup Waiting
      /\ Input' \subseteq Turn'
      /\ IsInjective(sending'.input)
  BY CallModelOutcome
<1>2. ~IsLost
  BY <1>1 DEF IsLost
<1>3. /\ Latest' = Latest /\ (Asked' <=> Asked) /\ Waiting' = Waiting
      /\ Holding' = Holding
  BY <1>1, SameState DEF Holding
<1>4. /\ Before = Holding
      /\ Waiting \cap Holding = {} /\ ResultsOf(Latest) \cap Holding = {}
      /\ ~Asked => Holding = {}
  BY <1>1, <1>2 DEF HeldApart, Before
<1>5. Holding \cap Input' = {}
  <2>1. CASE Asked
    <3>1. Turn' \subseteq ResultsOf(Latest) \cup Waiting
      BY <1>1, <1>2, <2>1 DEF Tracked
    <3> QED BY <1>1, <1>4, <3>1
  <2>2. CASE ~Asked
    BY <1>4, <2>2
  <2> QED BY <2>1, <2>2
<1>6. Before' \subseteq Holding
  BY <1>1, <1>3 DEF Before
<1> QED BY <1>1, <1>3, <1>4, <1>5, <1>6 DEF HeldApart

LEMMA ServerTakesApart ==
  ASSUME CallKnown, ItemsInv, HeldApart, ServerTakes, Places', CallReplays', ~Excused'
  PROVE  HeldApart'
<1>1. /\ pc = "calling"
      /\ UNCHANGED <<chain, tracker, state, sending, pc, history>>
      /\ past'.taken = past.taken + 1
      /\ IF chain THEN held' = held
         ELSE /\ Holding' = Holding \cup Input
              /\ IsInjective(held) /\ IsInjective(sending.input)
                   /\ Holding \cap Input = {} => IsInjective(held')
  BY ServerTakesOutcome DEF CallKnown
<1>2. past.taken \in Nat
  BY DEF CallKnown, CallTypeOK
<1>3. past.taken = 0
  <2>1. ~(past'.taken > 1)
    BY DEF CallReplays, Places, Excused, Secret
  <2> QED BY <1>1, <1>2, <2>1
<1>4. /\ Latest' = Latest /\ (Asked' <=> Asked) /\ Waiting' = Waiting
      /\ Input' = Input
  BY <1>1, SameState DEF Input
<1>5. Before' = Before
  BY <1>1, <1>4 DEF Before, Holding
<1>6. IsInjective(held')
  BY <1>1, <1>3 DEF HeldApart
<1>7. ~(past'.taken = 0)
  BY <1>1, <1>3
<1>8. chain => Holding' \cap Input' = {}
  BY <1>1, <1>4 DEF HeldApart, Holding
<1> QED BY <1>1, <1>4, <1>5, <1>6, <1>7, <1>8 DEF HeldApart

LEMMA EndsApart ==
  ASSUME CallKnown, ItemsInv, HeldApart, CallEnds, Places', CallReplays', ~Excused'
  PROVE  HeldApart'
<1>1. /\ phase' = "thrown" /\ past'.taken = past.taken
      /\ pc = "calling" /\ pc' = "idle" /\ UNCHANGED <<chain, held>>
      /\ \/ reported' /\ Mark(FALSE)
         \/ ~reported' /\ Mark(TRUE)
         \/ ~reported' /\ UNCHANGED <<tracker, state, sending>>
  BY CallEndsOutcome DEF CallKnown
<1>2. ~reported' => past.taken = 0
  <2>1. reported' \/ ~(past'.taken > 0)
    BY <1>1 DEF CallReplays, Places, Excused
  <2>2. past.taken \in Nat
    BY DEF CallKnown, CallTypeOK
  <2> QED BY <1>1, <2>1, <2>2
<1>3. CASE reported' /\ Mark(FALSE)
  BY <1>1, <1>3, MarkApart
<1>4. CASE ~reported' /\ Mark(TRUE)
  BY <1>1, <1>2, <1>4, MarkApart
<1>5. CASE ~reported' /\ UNCHANGED <<tracker, state, sending>>
  <2>1. /\ Latest' = Latest /\ (Asked' <=> Asked) /\ Waiting' = Waiting
        /\ Holding' = Holding
    BY <1>1, <1>5, SameState DEF Holding
  <2>2. Holding \cap Input = {}
    BY <1>1, <1>2, <1>5 DEF HeldApart
  <2>3. Before' = Before
    BY <1>1, <2>1, <2>2 DEF Before
  <2> QED BY <1>1, <1>5, <2>1, <2>3 DEF HeldApart
<1> QED BY <1>1, <1>3, <1>4, <1>5

LEMMA ReturnsApart ==
  ASSUME CallKnown, ItemsInv, HeldApart, CallReturns, phase' = "returned"
  PROVE  HeldApart'
<1>1. /\ pc = "calling" /\ pc' = "resolving" /\ chain' = chain
      /\ ~sending.marked => Waiting' \cap Input = {}
      /\ sending.marked => state'.pending = state.pending
  BY ReturnedOutcome
<1>2. PICK answer, S : Answered(answer, S)
  BY ReturnedOutcome
<1> DEFINE out == ToSet(OutputOf(answer, Latest + 1))
<1>3. /\ Latest' = Latest + 1 /\ Asked'
      /\ out \subseteq Of(Latest + 1) /\ out \cap ResultsOf(Latest + 1) = {}
      /\ Holding' = (IF chain THEN Holding \cup Input ELSE Holding) \cup out
      /\ IsInjective(held) /\ IsInjective(sending.input)
           /\ (chain => Holding \cap Input = {})
           /\ Holding \cap out = {} /\ Input \cap out = {} => IsInjective(held')
      /\ ToSet(state.pending)' = ToSet(state.pending) \ S
  BY <1>2 DEF Answered
<1> HIDE DEF out
<1>4. Holding \subseteq Known /\ Input \subseteq Known
  BY DEF ItemsInv, Numbered
<1>5. Known \cap Of(Latest + 1) = {}
  <2>1. Turned(Latest) \cap Of(Latest + 1) = {}
    BY KnownItems, TurnedGrows
  <2> QED BY <2>1, ItemSets DEF Known
<1>6. IsInjective(held')
  BY <1>1, <1>3, <1>4, <1>5 DEF HeldApart
<1>7. ResultsOf(Latest') \cap Holding' = {}
  BY <1>3, <1>4, <1>5, ResultsAreItems
<1>8. Waiting' \cap Holding' = {}
  <2>1. Waiting' \subseteq Waiting
    BY <1>3, StagedGrows DEF Waiting
  <2>2. Waiting' \cap Input = {}
    BY <1>1 DEF ItemsInv, Distinct, Waiting
  <2>3. Waiting \cap (Holding \ Input) = {}
    BY <1>1 DEF HeldApart, Before
  <2>4. Waiting \cap out = {}
    BY <1>3, ItemSets DEF Waiting
  <2> QED BY <1>3, <2>1, <2>2, <2>3, <2>4
<1>9. Before' = Holding'
  BY <1>1 DEF Before
<1> QED BY <1>1, <1>3, <1>6, <1>7, <1>8, <1>9 DEF HeldApart

LEMMA SentOnceStep ==
  ASSUME CallKnown, ItemsInv, Tracked, SentOnce, Places', CallReplays', [Next]_vars
  PROVE  SentOnce'
<1> SUFFICES ASSUME ~Excused' PROVE HeldApart'
  BY DEF SentOnce
<1>0. TypeOK /\ CallTypeOK /\ Places /\ HeldApart
  BY ExcusedStays DEF ItemsInv, CallKnown, SentOnce
<1>1. CASE Run
  BY <1>0, <1>1, RunOutcome, StillApart
<1>2. CASE AddInput
  <2>1. /\ pc = "idle" /\ pc' = "idle" /\ held' = held
        /\ state'.step = state.step /\ state'.accepted = state.accepted
        /\ state.step \in {"run_again", "interruption"}
        /\ state'.responses = state.responses
        /\ ToSet(state'.pending) = ToSet(state.pending) \cup {history.staged + 1}
    BY <1>2, AddInputOutcome
  <2>2. /\ Latest' = Latest /\ (Asked' <=> Asked) /\ Holding' = Holding
        /\ Before' = Holding /\ Before = Holding /\ ~IsLost
    BY <2>1, SameResponses DEF Holding, Before, IsLost
  <2> DEFINE new == {history.staged + 1}
  <2>3. Waiting' = Waiting \cup Staged(new)
    BY <2>1, StagedGrows DEF Waiting
  <2>4. Staged(new) \cap Holding = {}
    <3>1. history.staged \in Nat /\ new \cap 1 .. history.staged = {}
      BY KnownItems
    <3> HIDE DEF new
    <3>2. Staged(new) \cap Staged(1 .. history.staged) = {}
      <4>1. \A n \in new : Item("staged", n) \notin Staged(1 .. history.staged)
        BY <3>1, ItemSets
      <4>2. \A item \in Staged(new) : \E n \in new : item = Item("staged", n)
        BY DEF Staged
      <4> QED BY <4>1, <4>2
    <3>3. Staged(new) \cap Known = {}
      BY <3>2, ItemSets DEF Known
    <3> QED BY <3>3 DEF ItemsInv, Numbered
  <2> HIDE DEF new
  <2> QED BY <1>0, <2>1, <2>2, <2>3, <2>4 DEF HeldApart
<1>3. CASE CallModel
  BY <1>0, <1>3, CallModelApart
<1>4. CASE ServerTakes
  BY <1>0, <1>4, ServerTakesApart
<1>5. CASE StreamEvent
  <2>1. /\ UNCHANGED <<chain, held, pc, history>> /\ pc = "calling"
        /\ past'.taken = past.taken
        /\ \/ UNCHANGED <<tracker, state, sending>>
           \/ Mark(state.pending = << >>)
    BY <1>0, <1>5, StreamEventOutcome DEF Ongoing
  <2> QED BY <1>0, <2>1, StillApart, MarkApart
<1>6. CASE CallGoesOn
  <2>1. Still /\ pc = "calling" /\ pc' = "calling" /\ past'.taken = past.taken
    BY <1>0, <1>6, CallGoesOnOutcome, StillSteps DEF Ongoing
  <2> QED BY <1>0, <2>1, StillApart DEF Still
<1>7. CASE CallEnds
  BY <1>0, <1>7, EndsApart
<1>8. CASE CallReturns
  <2>1. /\ past' = past /\ chain' = chain /\ pc = "calling"
        /\ \/ UNCHANGED <<held, tracker, state, sending, pc, history>>
           \/ phase' = "returned"
    BY <1>8, CallReturnsOutcome
  <2> QED BY <1>0, <1>8, <2>1, StillApart, ReturnsApart
<1>9. CASE Resolve
  <2>1. /\ pc = "resolving" /\ pc' \in {"loop", "idle"} /\ held' = held
        /\ state'.responses = state.responses /\ state'.pending = state.pending
    BY <1>9, ResolveOutcome
  <2>2. /\ Latest' = Latest /\ (Asked' <=> Asked) /\ Waiting' = Waiting
        /\ Before' = Before
    BY <2>1, SameResponses DEF Waiting, Before, Holding
  <2> QED BY <1>0, <2>1, <2>2 DEF HeldApart
<1>10. CASE ResolveFails
  <2>1. /\ pc = "resolving" /\ pc' = "idle" /\ held' = held
        /\ state'.responses = state.responses /\ state'.pending = state.pending
    BY <1>10, ResolveFailsOutcome
  <2>2. /\ Latest' = Latest /\ (Asked' <=> Asked) /\ Waiting' = Waiting
        /\ Before' = Before
    BY <2>1, SameResponses DEF Waiting, Before, Holding
  <2> QED BY <1>0, <2>1, <2>2 DEF HeldApart
<1>11. CASE ResumeInterruptedTurn
  <2>1. /\ pc = "loop" /\ pc' = "loop" /\ held' = held
        /\ state.step = "interruption"
        /\ state'.responses = state.responses /\ state'.pending = state.pending
    BY <1>11, ResumeInterruptedOutcome
  <2>2. /\ Latest' = Latest /\ (Asked' <=> Asked) /\ Waiting' = Waiting
        /\ Before' = Before /\ ~IsLost
    BY <2>1, SameResponses DEF Waiting, Before, Holding, IsLost
  <2> QED BY <1>0, <2>1, <2>2 DEF HeldApart
<1>12. CASE TurnFails \/ ResumeAcceptedResponse
  <2>1. /\ Still /\ pc = "loop"
        /\ pc' = "resolving" => Resumable
        /\ pc' # "calling"
    BY <1>12, StillSteps
  <2>2. Resumable => ~IsLost
    BY DEF Resumable, IsLost
  <2> QED BY <1>0, <2>1, <2>2, StillApart DEF Still
<1>13. CASE UNCHANGED vars
  BY <1>0, <1>13, StillApart DEF vars, callVars
<1> QED
  BY <1>1, <1>2, <1>3, <1>4, <1>5, <1>6, <1>7, <1>8, <1>9, <1>10, <1>11, <1>12,
     <1>13 DEF Next, CallEnds

------------------------------------------------------------------------------
(* The theorems about the items.                                            *)

LEMMA ItemsInit ==
  Init => ItemsInv /\ Tracked /\ Arrived /\ SentOnce
<1> SUFFICES ASSUME Init PROVE ItemsInv /\ Tracked /\ Arrived /\ SentOnce
  OBVIOUS
<1>1. /\ held = << >> /\ pc = "idle" /\ chain \in BOOLEAN
      /\ tracker = [initialSent |-> FALSE, remaining |-> {}, sent |-> {},
                    server |-> {}]
      /\ state = [step |-> "run_again", accepted |-> "no", responses |-> << >>,
                  generated |-> << >>, pending |-> << >>]
      /\ sending = [turn |-> << >>, input |-> << >>, marked |-> FALSE]
      /\ history = [runs |-> 0, staged |-> 0, dropped |-> {}, abandoned |-> {},
                    excused |-> FALSE]
  BY DEF Init, NewTracker
<1>2. /\ phase = "returned" /\ past = Call!NoPast /\ request.stateful
  BY DEF Init, Call!Init, Kinds
<1>3. /\ << >> \in Seq(Items) /\ << >> \in Seq(Answers) /\ << >> \in Seq(Nat)
      /\ ToSet(<< >>) = {} /\ IsInjective(<< >>)
  BY DEF ToSet, IsInjective
<1>4. TypeOK
  BY <1>1, <1>3 DEF TypeOK, Trackers, States, Sendings, Histories
<1>5. /\ Generated = {} /\ Waiting = {} /\ Holding = {} /\ Turn = {} /\ Input = {}
      /\ ~Asked /\ ~IsLost /\ ~IsOpen /\ Latest = 0
  BY <1>1, <1>3 DEF Generated, Waiting, Holding, Turn, Input, Asked, IsLost,
                    IsOpen, Latest, Staged
<1>6. Server = {}
  BY <1>1, <1>3, OutputsAre DEF Server
<1>7. Places
  BY <1>1, <1>2, <1>5 DEF Places, Call!NoPast, Secret
<1>8. Numbered
  <2>1. 0 <= MaxInputs
    BY ConversationAssumption DEF ConversationAssumption
  <2> QED BY <1>1, <1>3, <1>5, <2>1 DEF Numbered
<1>9. Distinct
  <2>1. 1 .. 0 = {}
    OBVIOUS
  <2> QED BY <1>1, <1>3, <1>5, <2>1 DEF Distinct
<1>10. Tracked
  BY <1>1 DEF Tracked
<1>11. Arrived
  BY <1>1, <1>5, <1>6 DEF Arrived
<1>12. SentOnce
  BY <1>1, <1>3, <1>5 DEF SentOnce, HeldApart, Before
<1> QED BY <1>4, <1>7, <1>8, <1>9, <1>10, <1>11, <1>12 DEF ItemsInv

ItemsKnown == ItemsInv /\ Tracked /\ Arrived

(* The items of a run on a conversation that the server keeps: whatever was *)
(* retried, interrupted, filtered or resumed, none comes from nowhere, none *)
(* is twice in the history, and the tracker knows what the server holds     *)
(* (ServerConversationTracker in runner/conversation.ts).                   *)
THEOREM ItemsAreTracked == Spec => []ItemsKnown
<1>1. Init => ItemsKnown
  BY ItemsInit DEF ItemsKnown
<1>2. CallKnown /\ ItemsKnown /\ [Next]_vars => ItemsKnown'
  <2> SUFFICES ASSUME CallKnown, ItemsKnown, [Next]_vars PROVE ItemsKnown'
    OBVIOUS
  <2>1. ItemsInv /\ Tracked /\ Arrived
    BY DEF ItemsKnown
  <2>2. ItemsInv'
    BY <2>1, TypeStep, PlacesStep, NumberedStep, DistinctStep DEF ItemsInv
  <2>3. ~IsLost /\ ~Asked => Generated = {}
    BY <2>1 DEF Arrived
  <2> QED BY <2>1, <2>2, <2>3, TrackedStep, ArrivedStep DEF ItemsKnown
<1> QED BY <1>1, <1>2, CallsAreKnown, PTL DEF Spec

(* When the model answers, the server has been given the whole history, and *)
(* input that the application staged waits or is in the history, never lost *)
(* and never in both places (prepareInput and markInputAsSent of the        *)
(* tracker, and the pending input of run.ts).                               *)
THEOREM NothingIsForgotten == Spec => []NothingForgotten
<1>1. ItemsKnown => NothingForgotten
  BY GivenMeansNothingForgotten DEF ItemsKnown
<1> QED BY <1>1, ItemsAreTracked, PTL

(* The server never holds an item twice, unless it took a failed request    *)
(* that the runner could not know of, because the provider said nothing or  *)
(* the caller's abort came first, or an unsafe replay was approved.         *)
THEOREM ItemsHeldOnce ==
  ASSUME Policies \subseteq PolicyNames
  PROVE  Spec => []HeldOnce
<1>1. Init => SentOnce
  BY ItemsInit
<1>2. /\ CallKnown /\ ItemsKnown /\ ItemsKnown' /\ CallReplays' /\ SentOnce
      /\ [Next]_vars
      => SentOnce'
  BY SentOnceStep DEF ItemsKnown, ItemsInv
<1>3. SentOnce => HeldOnce
  BY DEF SentOnce, HeldApart, HeldOnce
<1>4. Spec => []CallReplays
  BY CallsReplay
<1> QED BY <1>1, <1>2, <1>3, <1>4, CallsAreKnown, ItemsAreTracked, PTL DEF Spec
=============================================================================
