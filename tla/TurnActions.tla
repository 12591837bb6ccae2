----------------------------- MODULE TurnActions ------------------------------
(***************************************************************************)
(* All local actions of a turn (agents-core/src/runner, turnResolution.ts  *)
(* resolveTurnAfterModelResponse): the function and computer calls of      *)
(* ToolConcurrency, the tools that their timeouts give up on (tool.ts,     *)
(* invokeFunctionToolWithTimeout), and the shell and apply_patch calls,    *)
(* which follow one by one in the order of the model                       *)
(* (executeShellAndApplyPatchActionsInOrder).                              *)
(*                                                                         *)
(* A tool that is given up on goes on running; only its answer is dropped. *)
(* It may outlive its call and the turn, and no longer counts against      *)
(* maxFunctionToolConcurrency.                                             *)
(***************************************************************************)
EXTENDS ToolConcurrency

CONSTANTS
  Timed,         \* the function calls whose tool has timeoutMs
  NumSequential  \* shell and apply_patch calls of the response

ASSUME ActionsAssumption == Timed \subseteq Functions /\ NumSequential \in Nat

VARIABLES
  tool,     \* a timed call's tool: "awaited", or "late" and then "over"
  action,   \* how far each shell or apply_patch call is
  current,  \* the one whose turn it is
  turn      \* what became of the turn's actions

sequence    == <<action, current>>
actionsVars == <<vars, tool, sequence, turn>>

Sequential == 1 .. NumSequential

------------------------------------------------------------------------------
(* The deadline of a tool: the call gets the default message, throws or     *)
(* awaits timeoutErrorFunction, unless a sibling has cancelled it.          *)
TimesOut(w) ==
  LET c == worker[w] IN
  /\ c \in Timed
  /\ call[c] = "acting"
  /\ tool[c] = "awaited"
  /\ tool' = [tool EXCEPT ![c] = "late"]
  /\ \/ reason["tools"] = "sibling" /\ Answers(w, "cancelled")
     \/ reason["tools"] # "sibling" /\ (\/ Moves(w, "finishing")
                                        \/ FunctionThrows(w, FALSE)
                                        \/ UNCHANGED vars)
  /\ UNCHANGED <<sequence, turn>>

(* Deviation: whatever the tool answers becomes the output of the call.     *)
LateAnswerCounts(c) ==
  /\ tool[c] = "late"
  /\ tool' = [tool EXCEPT ![c] = "over"]
  /\ call' = [call EXCEPT ![c] = "output"]
  /\ UNCHANGED <<worker, nextIndex, computer, scopes, group, outcome, first, sequence, turn>>

(* Promise.race has settled: the answer of the tool goes nowhere.           *)
LateAnswer(c) ==
  /\ tool[c] = "late"
  /\ tool' = [tool EXCEPT ![c] = "over"]
  /\ UNCHANGED <<vars, sequence, turn>>

------------------------------------------------------------------------------
(* Deviation: the sequence does not wait for the computer calls.            *)
InSequenceAfterFunctions ==
  group["functions"] = "ok" /\ turn = "running" /\ current \in Sequential

InSequence == outcome = "ok" /\ turn = "running" /\ current \in Sequential

Reaches(phase) ==
  /\ action' = [action EXCEPT ![current] = phase]
  /\ UNCHANGED <<current, turn>>

Ends(result) ==
  /\ action' = [action EXCEPT ![current] = result]
  /\ current' = current + 1
  /\ UNCHANGED turn

Fails ==
  /\ action' = [action EXCEPT ![current] = "failed"]
  /\ turn' = "threw"
  /\ UNCHANGED current

(* Deviation: after an abort the calls that are left get no output.         *)
TakeActionUnlessAborted ==
  /\ action[current] = "idle"
  /\ \/ ~Aborted("user") /\ Reaches("asking")
     \/ /\ Aborted("user")
        /\ current' = NumSequential + 1
        /\ UNCHANGED <<action, turn>>

TakeAction ==
  /\ action[current] = "idle"
  /\ \/ ~Aborted("user") /\ Reaches("asking")
     \/ Aborted("user") /\ Ends("cancelled")

(* Nothing looks at the signal once needsApproval and onApproval were asked.*)
ActionAsked ==
  /\ action[current] = "asking"
  /\ \/ Reaches("acting")
     \/ \E result \in {"approval", "output"} : Ends(result)
     \/ Fails

(* An error of the shell or of the editor is an output; hooks can throw.    *)
ActionActed ==
  /\ action[current] = "acting"
  /\ Ends("output") \/ Fails

SequenceStep ==
  /\ InSequence
  /\ TakeAction \/ ActionAsked \/ ActionActed
  /\ UNCHANGED <<vars, tool>>

ActionsReturn ==
  /\ turn = "running"
  /\ \/ outcome = "threw" /\ turn' = "threw"
     \/ outcome = "ok" /\ current \notin Sequential /\ turn' = "ok"
  /\ UNCHANGED <<vars, tool, sequence>>

------------------------------------------------------------------------------
ActionsInit ==
  /\ Init
  /\ tool = [c \in Timed |-> "awaited"]
  /\ action = [a \in Sequential |-> "idle"]
  /\ current = 1
  /\ turn = "running"

ConcurrentStep ==
  /\ Progress
  /\ UNCHANGED <<tool, sequence, turn>>

Timeouts == \E w \in Workers : worker[w] \in Functions /\ TimesOut(w)

LateAnswers == \E c \in Timed : LateAnswer(c)

ActionsProgress == ConcurrentStep \/ SequenceStep \/ ActionsReturn

ActionsAborted ==
  /\ turn = "running"
  /\ UserAborts
  /\ UNCHANGED <<tool, sequence, turn>>

ActionsNext == ActionsProgress \/ Timeouts \/ LateAnswers \/ ActionsAborted

ActionsSpec == ActionsInit /\ [][ActionsNext]_actionsVars

(* Continuations run and calls answer.  A tool that was given up on need    *)
(* not answer, and no timeout need pass.                                    *)
FairActionsSpec == ActionsSpec /\ WF_actionsVars(ActionsProgress)

------------------------------------------------------------------------------
Answered == {"output", "cancelled", "approval"}

(* Type invariant.                                                          *)
ActionsTypeOK ==
  /\ TypeOK
  /\ tool \in [Timed -> {"awaited", "late", "over"}]
  /\ action \in [Sequential -> {"idle", "asking", "acting", "failed"} \cup Answered]
  /\ current \in 1 .. NumSequential + 1
  /\ turn \in {"running", "ok", "threw"}

(* When the turn goes on, every call of the response has an answer, however *)
(* it was aborted; when it throws, a call has failed and none is at work.   *)
TurnIsSettled ==
  /\ turn = "ok" => /\ \A c \in Calls : call[c] \in Answered
                    /\ \A a \in Sequential : action[a] \in Answered
  /\ turn = "threw" => /\ \A c \in Calls : call[c] \in Settled
                       /\ \A a \in Sequential : action[a] \notin {"asking", "acting"}
                       /\ \/ \E c \in Calls : call[c] = "failed"
                          \/ \E a \in Sequential : action[a] = "failed"

(* No function or computer call starts to act once one has failed or the    *)
(* user has aborted, and no shell or apply_patch call is looked at before   *)
(* every one of those calls and every earlier one of its kind has an answer.*)
StartsInOrder ==
  [][/\ \A c \in Calls : call[c] # "acting" /\ call'[c] = "acting"
                           => first = NoError /\ ~Aborted("user")
     /\ \A a \in Sequential : action[a] = "idle" /\ action'[a] # "idle"
                           => /\ \A c \in Calls : call[c] \in Answered
                              /\ \A b \in 1 .. a - 1 : action[b] \in Answered]_actionsVars

(* What a call has been answered stays its answer, however late its tool    *)
(* returns and whatever is cancelled afterwards.                            *)
AnswersAreFinal ==
  [][/\ \A c \in Calls : call[c] \in Answered \cup {"failed"} => call'[c] = call[c]
     /\ \A a \in Sequential : action[a] \in Answered \cup {"failed"}
                           => action'[a] = action[a]]_actionsVars

(* The turn's actions end, although tools that were given up on never do.   *)
ActionsEnd == <>(turn # "running")
=============================================================================
