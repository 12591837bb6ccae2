---------------------------- MODULE ToolConcurrency ----------------------------
(***************************************************************************)
(* The concurrent part of a turn's local actions: function tools and       *)
(* computer actions side by side (agents-core/src/runner, turnResolution.ts*)
(* resolveTurnAfterModelResponse, toolExecution.ts, siblingCancellation.ts)*)
(*                                                                         *)
(* Function calls run all at once or through a few workers, computer calls *)
(* one after the other.  Two nested scopes of runWithSiblingCancellation   *)
(* make the first failure cancel the rest: "tools" around the workers and  *)
(* "turn" around the two categories.  Each scope combines its parent's     *)
(* abort signal with its own, the outermost parent being the run's signal  *)
(* ("user").  A scope that the code does not create, because there is only *)
(* one task, has a signal that just follows its parent's.                  *)
(*                                                                         *)
(* What follows an event in one drain of the microtask queue is one action.*)
(* The calls themselves (approvals, guardrails, tools, hooks) are the      *)
(* environment: they answer in any order, and fail in any of their phases. *)
(***************************************************************************)
EXTENDS Naturals

CONSTANTS
  NumFunctions,   \* function tool calls of the response
  NumComputers,   \* computer calls of the response
  MaxConcurrency  \* maxFunctionToolConcurrency; 0 if it is undefined

ASSUME CallsAssumption ==
  /\ {NumFunctions, NumComputers, MaxConcurrency} \subseteq Nat
  /\ NumFunctions + NumComputers > 0

VARIABLES
  call,       \* how far each call is
  worker,     \* the call that each worker (or task) runs
  nextIndex,  \* the next function call a worker takes
  computer,   \* the computer call the loop is at
  reason,     \* why each signal was aborted
  owner,      \* firstFailureOwner of the turn: a category
  failure,    \* firstFailure of each scope
  group,      \* what became of each category
  outcome,    \* what became of the turn
  first       \* history, not in the code: the call that failed first

scopes == <<reason, owner, failure>>
vars   == <<call, worker, nextIndex, computer, scopes, group, outcome, first>>

Functions == 1 .. NumFunctions
Computers == NumFunctions + 1 .. NumFunctions + NumComputers
Calls     == Functions \cup Computers

Capped  == MaxConcurrency > 0 /\ MaxConcurrency < NumFunctions
Workers == 1 .. (IF Capped THEN MaxConcurrency ELSE NumFunctions)

HasToolsScope == 2 \in Workers
HasTurnScope  == NumFunctions > 0 /\ NumComputers > 0

(* Errors: the call that threw, or the reason of an aborted signal.         *)
NoError       == 0
UserReason    == NumFunctions + NumComputers + 1
SiblingReason == NumFunctions + NumComputers + 2
ReasonOf(scope) == IF reason[scope] = "user" THEN UserReason ELSE SiblingReason

(* What a worker is at when it is at no call.                               *)
Free  == 0
Ended == NumFunctions + 1

Aborted(scope) == reason[scope] # "none"

(* AbortSignal.any: a signal keeps the reason of the first abort it sees.   *)
Abort(signals, why) ==
  [s \in DOMAIN reason |->
     IF s \in signals /\ reason[s] = "none" THEN why ELSE reason[s]]

(* reserveFailure: the first abort-like error after the parent was aborted  *)
(* counts as the parent's abort.                                            *)
Surfaced(c, abortLike, parent) ==
  IF abortLike /\ Aborted(parent) THEN ReasonOf(parent) ELSE c

------------------------------------------------------------------------------
(* Function calls.                                                          *)

(* After an abort by the user the rest is still taken, to be cancelled.     *)
MayTake ==
  /\ nextIndex <= NumFunctions
  /\ ~Aborted("tools") \/ reason["turn"] = "user"

TakeCall(w) ==
  /\ worker[w] = Free
  /\ MayTake
  /\ nextIndex' = nextIndex + 1
  /\ call' = [call EXCEPT ![nextIndex] = IF Aborted("tools") THEN "cancelled"
                                                             ELSE "asking"]
  /\ worker' = [worker EXCEPT ![w] = IF Aborted("tools") THEN Free ELSE nextIndex]
  /\ UNCHANGED <<computer, scopes, group, outcome, first>>

(* Deviation: only a worker that finds no call left ends.                   *)
WorkerEndsWhenDone(w) ==
  /\ worker[w] = Free
  /\ nextIndex > NumFunctions
  /\ worker' = [worker EXCEPT ![w] = Ended]
  /\ UNCHANGED <<call, nextIndex, computer, scopes, group, outcome, first>>

WorkerEnds(w) ==
  /\ worker[w] = Free
  /\ ~MayTake
  /\ worker' = [worker EXCEPT ![w] = Ended]
  /\ UNCHANGED <<call, nextIndex, computer, scopes, group, outcome, first>>

Moves(w, phase) ==
  /\ call' = [call EXCEPT ![worker[w]] = phase]
  /\ UNCHANGED <<worker, nextIndex, computer, scopes, group, outcome, first>>

Answers(w, result) ==
  /\ call' = [call EXCEPT ![worker[w]] = result]
  /\ worker' = [worker EXCEPT ![w] = IF Capped THEN Free ELSE Ended]
  /\ UNCHANGED <<nextIndex, computer, scopes, group, outcome, first>>

First(c) == IF first = NoError THEN c ELSE first

FirstOfTurn == HasTurnScope /\ owner = "none"

(* Deviation: the turn learns of a failure only when the category returns.  *)
FunctionThrowsUntold(w, abortLike) ==
  LET c == worker[w] IN
  /\ call' = [call EXCEPT ![c] = "failed"]
  /\ worker' = [worker EXCEPT ![w] = Ended]
  /\ first' = First(c)
  /\ failure' = [failure EXCEPT !["tools"] =
                   IF @ # NoError THEN @
                   ELSE IF HasToolsScope THEN Surfaced(c, abortLike, "turn") ELSE c]
  /\ reason' = Abort(IF HasToolsScope THEN {"tools"} ELSE {}, "sibling")
  /\ UNCHANGED <<nextIndex, computer, owner, group, outcome>>

(* The first failure cancels its siblings, and owns the failure of the turn *)
(* before those have settled (onFirstFailure).                              *)
FunctionThrows(w, abortLike) ==
  LET c == worker[w] IN
  /\ call' = [call EXCEPT ![c] = "failed"]
  /\ worker' = [worker EXCEPT ![w] = Ended]
  /\ first' = First(c)
  /\ failure' = [failure EXCEPT !["tools"] =
                   IF @ # NoError THEN @
                   ELSE IF HasToolsScope THEN Surfaced(c, abortLike, "turn") ELSE c]
  /\ owner' = IF FirstOfTurn THEN "functions" ELSE owner
  /\ reason' = Abort((IF HasToolsScope THEN {"tools"} ELSE {})
                        \cup (IF FirstOfTurn THEN {"turn", "tools"} ELSE {}), "sibling")
  /\ UNCHANGED <<nextIndex, computer, group, outcome>>

(* An abort-like error of a tool whose signal is aborted is not an error.   *)
Throws(w) ==
  \E abortLike \in BOOLEAN :
    /\ abortLike => call[worker[w]] = "asking" \/ ~Aborted("tools")
    /\ FunctionThrows(w, abortLike)

(* Approval and input guardrails: approved, pending, refused or an error.   *)
Asked(w) ==
  /\ call[worker[w]] = "asking"
  /\ \/ ~Aborted("tools") /\ Moves(w, "acting")
     \/ Aborted("tools") /\ Answers(w, "cancelled")
     \/ /\ reason["tools"] # "sibling"
        /\ \E result \in {"approval", "output"} : Answers(w, result)
     \/ Throws(w)

(* The tool itself.                                                         *)
Acted(w) ==
  /\ call[worker[w]] = "acting"
  /\ \/ reason["tools"] # "sibling" /\ Moves(w, "finishing")
     \/ Aborted("tools") /\ Answers(w, "cancelled")
     \/ Throws(w)

(* Output guardrails, custom data and hooks.                                *)
Finished(w) ==
  /\ call[worker[w]] = "finishing"
  /\ \/ reason["tools"] # "sibling" /\ Answers(w, "output")
     \/ Aborted("tools") /\ Answers(w, "cancelled")
     \/ Throws(w)

FunctionStep ==
  \E w \in Workers :
    \/ TakeCall(w) \/ WorkerEnds(w)
    \/ worker[w] \in Functions /\ (Asked(w) \/ Acted(w) \/ Finished(w))

MayReturn == \A w \in Workers : worker[w] = Ended

FunctionsReturn ==
  LET threw == failure["tools"] # NoError IN
  /\ group["functions"] = "running"
  /\ MayReturn
  /\ group' = [group EXCEPT !["functions"] = IF threw THEN "threw" ELSE "ok"]
  /\ owner' = IF threw /\ FirstOfTurn THEN "functions" ELSE owner
  /\ reason' = IF threw /\ FirstOfTurn THEN Abort({"turn", "tools"}, "sibling") ELSE reason
  /\ failure' = [failure EXCEPT !["turn"] =
                   IF owner' = "functions" THEN failure["tools"] ELSE @]
  /\ UNCHANGED <<call, worker, nextIndex, computer, outcome, first>>

------------------------------------------------------------------------------
(* Computer calls.                                                          *)

ComputerMoves(phase) ==
  /\ call' = [call EXCEPT ![computer] = phase]
  /\ UNCHANGED <<worker, nextIndex, computer, scopes, group, outcome, first>>

ComputerAnswers(result) ==
  /\ call' = [call EXCEPT ![computer] = result]
  /\ computer' = computer + 1
  /\ UNCHANGED <<worker, nextIndex, scopes, group, outcome, first>>

Reserve(abortLike) ==
  /\ first' = First(computer)
  /\ failure' = [failure EXCEPT !["turn"] =
                   IF owner # "none" \/ @ # NoError THEN @
                   ELSE IF HasTurnScope THEN Surfaced(computer, abortLike, "user")
                   ELSE computer]
  /\ owner' = IF FirstOfTurn THEN "computers" ELSE owner
  /\ reason' = IF FirstOfTurn THEN Abort({"turn", "tools"}, "sibling") ELSE reason

(* needsApproval is asked for all actions of the call at once: the first    *)
(* error is reported, then the other answers are awaited.                   *)
ComputerAsked ==
  /\ call[computer] = "asking"
  /\ \/ ~Aborted("turn") /\ ComputerMoves("acting")
     \/ Aborted("turn") /\ ComputerAnswers("cancelled")
     \/ /\ reason["turn"] # "sibling"
        /\ \E result \in {"approval", "output"} : ComputerAnswers(result)
     \/ /\ \E abortLike \in BOOLEAN : Reserve(abortLike)
        /\ call' = [call EXCEPT ![computer] = "failing"]
        /\ UNCHANGED <<worker, nextIndex, computer, group, outcome>>

ComputerThrows ==
  /\ call' = [call EXCEPT ![computer] = "failed"]
  /\ group' = [group EXCEPT !["computers"] = "threw"]
  /\ UNCHANGED <<worker, nextIndex, computer, outcome>>

(* An action that fails has an empty screenshot; safety checks, custom data *)
(* and hooks can throw.                                                     *)
ComputerActed ==
  /\ call[computer] = "acting"
  /\ \/ ~Aborted("turn") /\ ComputerAnswers("output")
     \/ Aborted("turn") /\ ComputerAnswers("cancelled")
     \/ (\E abortLike \in BOOLEAN : Reserve(abortLike)) /\ ComputerThrows

ComputerFails ==
  /\ call[computer] = "failing"
  /\ UNCHANGED <<scopes, first>>
  /\ ComputerThrows

TakeComputer ==
  /\ call[computer] = "idle"
  /\ \/ ~Aborted("turn") /\ ComputerMoves("asking")
     \/ Aborted("turn") /\ ComputerAnswers("cancelled")

ComputerStep ==
  /\ computer \in Computers
  /\ group["computers"] = "running"
  /\ TakeComputer \/ ComputerAsked \/ ComputerActed \/ ComputerFails

ComputersReturn ==
  /\ group["computers"] = "running"
  /\ computer \notin Computers
  /\ group' = [group EXCEPT !["computers"] = "ok"]
  /\ UNCHANGED <<call, worker, nextIndex, computer, scopes, outcome, first>>

------------------------------------------------------------------------------
(* With one category only its failure is thrown as it is.                   *)
Thrown == IF NumComputers = 0 THEN failure["tools"] ELSE failure["turn"]

TurnReturns ==
  /\ outcome = "running"
  /\ "running" \notin {group["functions"], group["computers"]}
  /\ outcome' = IF "threw" \in {group["functions"], group["computers"]} THEN "threw" ELSE "ok"
  /\ UNCHANGED <<call, worker, nextIndex, computer, scopes, group, first>>

UserAborts ==
  /\ ~Aborted("user")
  /\ reason' = Abort({"user", "turn", "tools"}, "user")
  /\ UNCHANGED <<call, worker, nextIndex, computer, owner, failure, group, outcome, first>>

(* Every task has been started: the first calls are at their approvals.     *)
Init ==
  /\ call = [c \in Calls |-> IF c \in Workers \/ c = NumFunctions + 1 THEN "asking"
                                                                     ELSE "idle"]
  /\ worker = [w \in Workers |-> w]
  /\ nextIndex = (IF Capped THEN MaxConcurrency ELSE NumFunctions) + 1
  /\ computer = NumFunctions + 1
  /\ reason = [s \in {"user", "turn", "tools"} |-> "none"]
  /\ owner = "none"
  /\ failure = [s \in {"turn", "tools"} |-> NoError]
  /\ group = [g \in {"functions", "computers"} |-> "running"]
  /\ outcome = "running"
  /\ first = NoError

Progress == FunctionStep \/ FunctionsReturn \/ ComputerStep \/ ComputersReturn \/ TurnReturns

Next == Progress \/ UserAborts

Spec == Init /\ [][Next]_vars

------------------------------------------------------------------------------
Errors == Calls \cup {NoError, UserReason, SiblingReason}

(* Type invariant.                                                          *)
TypeOK ==
  /\ call \in [Calls -> {"idle", "asking", "acting", "finishing", "failing",
                         "output", "cancelled", "approval", "failed"}]
  /\ worker \in [Workers -> Functions \cup {Free, Ended}]
  /\ nextIndex \in 1 .. NumFunctions + 1
  /\ computer \in NumFunctions + 1 .. NumFunctions + NumComputers + 1
  /\ reason \in [{"user", "turn", "tools"} -> {"none", "user", "sibling"}]
  /\ owner \in {"none", "functions", "computers"}
  /\ failure \in [{"turn", "tools"} -> Errors]
  /\ group \in [{"functions", "computers"} -> {"running", "ok", "threw"}]
  /\ outcome \in {"running", "ok", "threw"}
  /\ first \in Calls \cup {NoError}

Settled == {"idle", "output", "cancelled", "approval", "failed"}

(* When the turn goes on or throws, no call of it is still running.         *)
NothingOutlivesTurn == outcome # "running" => \A c \in Calls : call[c] \in Settled

(* A turn that does not throw has an answer for every call, however it was  *)
(* aborted; one that throws had a call that failed.                         *)
EveryCallAnswered ==
  /\ outcome = "ok" => \A c \in Calls : call[c] \in {"output", "cancelled", "approval"}
  /\ outcome = "threw" => \E c \in Calls : call[c] = "failed"

(* The caller gets the error of the call that failed first, or the reason   *)
(* of the user's abort; never the internal reason that cancels siblings.    *)
FirstErrorSurfaces ==
  outcome = "threw" => \/ Thrown = first
                       \/ Thrown = UserReason /\ Aborted("user")

(* How a call looks from outside: it has started once its tool has.         *)
StatusOf(phase) ==
  CASE phase \in {"idle", "asking"}       -> "queued"
    [] phase \in {"acting", "finishing"}  -> "running"
    [] phase \in {"failing", "failed"}    -> "failed"
    [] phase = "cancelled"                -> "aborted"
    [] OTHER                              -> phase

Execution == INSTANCE ToolTurn
               WITH tools   <- [c \in Calls |-> StatusOf(call[c])],
                    aborted <- Aborted("user"),
                    turn    <- outcome

(* Refinement: workers, scopes and signals together execute the calls as    *)
(* the run loop expects it: no call starts after a failure or an abort,     *)
(* none is answered twice, and the turn goes on only when all have answers. *)
ExecutesCalls == Execution!Spec

(* After a call failed or the user aborted, no call starts to act.          *)
NoStartAfterFailure ==
  [][\A c \in Calls : call[c] # "acting" /\ call'[c] = "acting"
       => first = NoError /\ ~Aborted("user")]_vars

=============================================================================
