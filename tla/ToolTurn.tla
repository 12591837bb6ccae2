------------------------------- MODULE ToolTurn -------------------------------
(***************************************************************************)
(* What executing the calls of a response promises to the loop that waits  *)
(* for it, however they are scheduled (agents-core/src/runner,             *)
(* executeFunctionToolCalls and runWithSiblingCancellation): each call is  *)
(* answered once; after a failure or an abort none starts; the turn goes   *)
(* on with an answer for every call, and throws when one has failed and    *)
(* none is running any more.                                               *)
(*                                                                         *)
(* TurnActions implements this, RunLoop is built on it.                    *)
(***************************************************************************)
CONSTANT Calls

VARIABLES
  tools,    \* what became of each call; one that is not executed is "idle"
  aborted,  \* the run's abort signal
  turn      \* whether the calls are being executed, or how that ended

vars == <<tools, aborted, turn>>

Queue(calls) == [c \in Calls |-> IF c \in calls THEN "queued" ELSE "idle"]

HasFailed == \E c \in Calls : tools[c] = "failed"
Cancelled == aborted \/ HasFailed

Becomes(c, status) == tools' = [tools EXCEPT ![c] = status]

------------------------------------------------------------------------------
(* The tool of a call is started: approved, or in no need of it.            *)
Start(c) ==
  /\ tools[c] = "queued"
  /\ ~Cancelled
  /\ Becomes(c, "running")

(* A call that is refused has an output without being run; one that nobody  *)
(* has decided on asks for its approval.  Both await code of the            *)
(* application, and a failure meanwhile cancels the call instead.           *)
AnswerUnstarted(c, status) ==
  /\ tools[c] = "queued"
  /\ HasFailed => aborted
  /\ Becomes(c, status)

Refuse(c)      == AnswerUnstarted(c, "output")
AskApproval(c) == AnswerUnstarted(c, "approval")

Return(c) ==
  /\ tools[c] = "running"
  /\ Becomes(c, "output")

(* Approvals and guardrails throw as tools do.                              *)
Fail(c) ==
  /\ tools[c] \in {"queued", "running"}
  /\ Becomes(c, "failed")

Cancel(c) ==
  /\ tools[c] \in {"queued", "running"}
  /\ Cancelled
  /\ Becomes(c, "aborted")

CallStep(c) ==
  Start(c) \/ Refuse(c) \/ AskApproval(c) \/ Return(c) \/ Fail(c) \/ Cancel(c)

(* Calls that were not taken before a failure are left as they are.         *)
MayContinue == \A c \in Calls : tools[c] \notin {"queued", "running", "failed"}
MayThrow    == HasFailed /\ \A c \in Calls : tools[c] # "running"

End ==
  /\ \/ MayContinue /\ turn' = "ok"
     \/ MayThrow /\ turn' = "threw"
  /\ UNCHANGED <<tools, aborted>>

Abort ==
  /\ aborted' = TRUE
  /\ UNCHANGED <<tools, turn>>

------------------------------------------------------------------------------
Init ==
  /\ tools = Queue(Calls)
  /\ aborted = FALSE
  /\ turn = "running"

Execute ==
  /\ turn = "running"
  /\ \/ \E c \in Calls : CallStep(c) /\ UNCHANGED <<aborted, turn>>
     \/ End

Next == Execute \/ Abort

Spec == Init /\ [][Next]_vars
===============================================================================
