-------------------------- MODULE SessionPersistence --------------------------
(***************************************************************************)
(* A run with approvals whose history an application's Session keeps       *)
(* (agents-core/src/runner/sessionPersistence.ts, as run.ts uses it for a  *)
(* run that is not streamed): which items are appended when, how the count *)
(* of persisted items moves, and the write-ahead record of a resumed turn, *)
(* RunState._pendingSessionWrite, with its reconciliation by a later run.  *)
(*                                                                         *)
(* The session is the environment: an operation on it may be rejected, an  *)
(* append after any part of it was stored, and others append to it too.    *)
(* The application keeps the RunState of a run that was rejected and may   *)
(* run it again.  The model starts where a first run has returned its      *)
(* interruption, and saved it.  Left out: handoffs, blocked output and     *)
(* history transactions, what compaction does to the items, cancellation   *)
(* but for that of a final output's guardrails, interrupted responses that *)
(* hold more than function calls, and what is refused of a state that was  *)
(* restored from JSON.                                                     *)
(***************************************************************************)
EXTENDS Lists, FiniteSets

CONSTANTS
  AfterTools,    \* steps toolUseBehavior may choose, of {"run_again", "final"};
                 \* {"run_again"} is run_llm_again
  MaxCalls,      \* bound: tool calls that need an approval
  MaxResponses,  \* bound: model responses
  MaxRuns,       \* bound: calls of run() on the state
  MaxOthers      \* bound: items that others append

ASSUME SessionAssumption ==
  /\ AfterTools \subseteq {"run_again", "final"} /\ "run_again" \in AfterTools
  /\ MaxCalls \in Nat \ {0}
  /\ {MaxResponses, MaxRuns, MaxOthers} \subseteq Nat

VARIABLES
  session,    \* the items the session holds
  state,      \* the RunState
  pc,         \* where the current run is, or how the last one ended
  prepared,   \* the run holds a ResumedSessionWritePreparation
  decisions,  \* the application's decision on each call that needs one
  history     \* what happened, for the bounds and the properties

vars == <<session, state, pc, prepared, decisions, history>>

Item(kind, n) == [kind |-> kind, n |-> n]

(* What a session stores of run items: everything but approval requests.    *)
Requests(calls) == {Item("approval", n) : n \in calls}
Storable(items) == Without(items, Requests(1 .. MaxCalls))

NoWrite == [phase |-> "none", from |-> 0, to |-> 0, before |-> <<>>]

Slice(from, to) == Storable(SubSeq(state.generated, from + 1, to))
AppendItems     == Slice(state.pending.from, state.pending.to)
Generated       == Len(state.generated)
Pending         == state.pending.phase

(* With an output guardrail, a tool output may become the final output that *)
(* is refused.  An interruption of a response that has one is not saved.    *)
Outputs(s) ==
  {i \in s.start + 1 .. Len(s.generated) :
     s.generated[i].kind \in {"output", "result"}}

Deferred(s) ==
  s.step = "interruption" /\ s.guarded /\ "final" \in AfterTools /\ Outputs(s) # {}

Idle == pc \in {"returned", "threw"}

------------------------------------------------------------------------------
(* The application and the others.                                          *)
Approvals == {i \in 1 .. Generated : state.generated[i].kind = "approval"}

Decide ==
  /\ Idle
  /\ \E i \in Approvals, decision \in {"approved", "rejected"} :
       LET n == state.generated[i].n
       IN  /\ decisions[n] = "pending"
           /\ decisions' = [decisions EXCEPT ![n] = decision]
  /\ UNCHANGED <<session, state, pc, prepared, history>>

OthersAppend ==
  /\ history.others < MaxOthers
  /\ session' = Append(session, Item("other", history.others + 1))
  /\ history' = [history EXCEPT !.others = @ + 1]
  /\ UNCHANGED <<state, pc, prepared, decisions>>

(* Deviation: a pending write is left alone.                                *)
RunAnyway ==
  /\ Idle
  /\ history.runs < MaxRuns
  /\ pc' = "loop"
  /\ prepared' = FALSE
  /\ history' = [history EXCEPT !.runs = @ + 1]
  /\ UNCHANGED <<session, state, decisions>>

(* assertResumedSessionOutputGuardrailSafety: of a response that was not    *)
(* saved, just what comes before its first output may be counted.           *)
Refused ==
  /\ Deferred(state)
  /\ state.persisted > 0
  /\ ~ /\ state.persisted + 1 \in Outputs(state)
       /\ \A i \in Outputs(state) : i > state.persisted

(* A run on the state: a pending write is reconciled before anything else.  *)
Run ==
  /\ Idle
  /\ history.runs < MaxRuns
  /\ pc' = CASE Refused                                 -> "threw"
             [] ~Refused /\ Pending = "none"               -> "loop"
             [] ~Refused /\ Pending = "prepared"           -> "promoting"
             [] ~Refused /\ Pending = "append_ready"       -> "reconciling"
             [] ~Refused /\ Pending = "compaction_pending" -> "compacting"
  /\ prepared' = FALSE
  /\ history' = [history EXCEPT !.runs = @ + 1]
  /\ UNCHANGED <<session, state, decisions>>

------------------------------------------------------------------------------
(* The write-ahead record.                                                  *)
Checkpoint(s) ==
  [s EXCEPT !.pending = [NoWrite EXCEPT !.phase = "prepared",
                                        !.from  = s.persisted,
                                        !.to    = Len(s.generated)]]

Committed(s) ==
  [s EXCEPT !.persisted     = s.pending.to,
            !.pending.phase = "compaction_pending"]

(* What the session holds becomes the evidence for a later reconciliation.  *)
PromotePreparedWrite ==
  /\ pc = "promoting"
  /\ state' = [state EXCEPT !.pending.phase  = "append_ready",
                            !.pending.before = session]
  /\ pc' = "appending"
  /\ UNCHANGED <<session, prepared, decisions, history>>

(* Deviation: the record is appended again without a look at the session.   *)
ReconcileBlindly ==
  /\ pc = "reconciling"
  /\ pc' = "appending"
  /\ UNCHANGED <<session, state, prepared, decisions, history>>

(* The append is repeated if the session is as it was before it, is taken   *)
(* as done if it is there, and is refused if anything else has changed.     *)
ReconcilePendingWrite ==
  /\ pc = "reconciling"
  /\ LET before == state.pending.before
     IN  \/ /\ session = before
            /\ pc' = "appending"
            /\ UNCHANGED state
         \/ /\ session = before \o AppendItems
            /\ pc' = "compacting"
            /\ state' = Committed(state)
         \/ /\ session \notin {before, before \o AppendItems}
            /\ pc' = "threw"
            /\ UNCHANGED state
  /\ UNCHANGED <<session, prepared, decisions, history>>

(* An append is acknowledged, or rejected after a part of it was stored.    *)
AppendPreparedWrite ==
  /\ pc = "appending"
  /\ \/ /\ session' = session \o AppendItems
        /\ state' = Committed(state)
        /\ pc' = "compacting"
     \/ /\ \E n \in 0 .. Len(AppendItems) :
             session' = session \o SubSeq(AppendItems, 1, n)
        /\ pc' = "threw"
        /\ UNCHANGED state
  /\ UNCHANGED <<prepared, decisions, history>>

(* The input is compacted, if the session does that, and the record is      *)
(* dropped.  A write of this run is followed by its next step; the run      *)
(* throws after that of a final output whose guardrail failed.              *)
CompleteCompaction ==
  /\ pc = "compacting"
  /\ state' = [state EXCEPT !.pending = NoWrite]
  /\ prepared' = FALSE
  /\ \/ pc' = IF prepared /\ state.step \in {"interruption", "final"}
              THEN "returned" ELSE "loop"
     \/ prepared /\ state.step = "final" /\ state.guarded /\ pc' = "threw"
  /\ UNCHANGED <<session, decisions, history>>

(* The session rejects what it is asked for before the append.              *)
SessionFails ==
  /\ pc \in {"promoting", "reconciling", "compacting"}
  /\ pc' = "threw"
  /\ UNCHANGED <<session, state, prepared, decisions, history>>

------------------------------------------------------------------------------
(* resumeInterruptedTurn: the decided calls get their results, in place of  *)
(* the requests for their approval.                                         *)
Decided == {i \in Approvals : decisions[state.generated[i].n] # "pending"}

Execute == {state.generated[i].n :
              i \in {j \in Decided : decisions[state.generated[j].n] = "approved"}}

ToRemove == Requests({n \in DOMAIN decisions : decisions[n] # "pending"})

Results ==
  LET removed == Only(state.generated, ToRemove)
  IN  [i \in DOMAIN removed |-> Item("result", removed[i].n)]

(* rewindTurnPersistence, by the number of requests that are removed.       *)
Removed == Len(Only(state.generated, ToRemove))

(* Deviation: the count is not rewound.                                     *)
NotRewound == state.persisted

Rewound == IF Removed > state.persisted THEN 0 ELSE state.persisted - Removed

Resolved(next) ==
  [state EXCEPT !.generated = Without(state.generated, ToRemove) \o Results,
                !.persisted = Rewound,
                !.step      = next]

NextSteps == IF Decided = Approvals THEN AfterTools ELSE {"interruption"}

(* Whether the rewind takes off requests that were never counted, since the *)
(* save that should have counted them was rejected.                         *)
Miscounts == \E i \in Decided : i > state.persisted

Ran(tools) == [n \in DOMAIN history.ran |->
                 IF n \in tools THEN history.ran[n] + 1 ELSE history.ran[n]]

(* The results of approved tools are written before the run goes on; those  *)
(* that are the final output once it is accepted, and those of an           *)
(* interruption that is not saved when a later run does so.                 *)
ResumeInterruptedTurn ==
  /\ pc = "loop" /\ state.step = "interruption"
  /\ \E next \in NextSteps :
       LET result   == Resolved(next)
           written  == next # "final" /\ Execute # {} /\ ~Deferred(result)
           deferred == CASE written          -> {}
                         [] Deferred(result) -> history.deferred \cup Execute
                         [] OTHER            -> history.deferred
       IN  /\ IF written
              THEN state' = Checkpoint(result) /\ pc' = "promoting"
              ELSE /\ state' = result
                   /\ pc' = CASE next = "final"        -> "finalizing"
                              [] next = "interruption" -> "saving"
                              [] next = "run_again"    -> "loop"
           /\ history' = [history EXCEPT !.ran        = Ran(Execute),
                                         !.miscounted = @ \/ Miscounts,
                                         !.deferred   = deferred]
  /\ prepared' = (Execute # {})
  /\ UNCHANGED <<session, decisions>>

(* The preparation or a tool fails, or, once the count has been rewound,    *)
(* a handoff or a toolUseBehavior function.                                *)
ResumeFails ==
  /\ pc = "loop" /\ state.step = "interruption"
  /\ pc' = "threw"
  /\ \E tools \in SUBSET Execute, persisted \in {state.persisted, Rewound} :
       /\ persisted # state.persisted => tools = Execute
       /\ state' = [state EXCEPT !.persisted = persisted]
       /\ history' = [history EXCEPT
                        !.ran        = Ran(tools),
                        !.repeatable = @ \cup tools,
                        !.miscounted = @ \/ persisted # state.persisted]
  /\ UNCHANGED <<session, prepared, decisions>>

------------------------------------------------------------------------------
(* A turn.  Items wait for the end of the run to be saved.                  *)
Calls == Cardinality({n \in DOMAIN decisions : decisions[n] # "none"})

CallModel ==
  /\ pc = "loop" /\ state.step = "run_again"
  /\ history.responses < MaxResponses
  /\ LET n      == history.responses + 1
         call   == Calls + 1
         Made(items, step) ==
           [state EXCEPT !.generated = @ \o items,
                         !.start     = Generated,
                         !.step      = step]
     IN  \/ /\ state' = Made(<<Item("message", n)>>, "final")
            /\ pc' = "finalizing"
            /\ UNCHANGED decisions
         \/ /\ state' = Made(<<Item("tool", n), Item("output", n)>>, "run_again")
            /\ UNCHANGED <<pc, decisions>>
         \/ /\ call <= MaxCalls
            /\ \/ state' = Made(<<Item("call", call), Item("approval", call)>>,
                                "interruption")
               \/ state' = Made(<<Item("tool", n), Item("call", call),
                                  Item("output", n), Item("approval", call)>>,
                                "interruption")
            /\ decisions' = [decisions EXCEPT ![call] = "pending"]
            /\ pc' = "saving"
  /\ prepared' = FALSE
  /\ history' = [history EXCEPT !.responses = @ + 1]
  /\ UNCHANGED session

ModelFails ==
  /\ pc = "loop" /\ state.step = "run_again"
  /\ pc' = "threw"
  /\ UNCHANGED <<session, state, prepared, decisions, history>>

(* A final output: of this turn, or of a run that could not save it.        *)
FinalizeAgain ==
  /\ pc = "loop" /\ state.step = "final"
  /\ pc' = "finalizing"
  /\ UNCHANGED <<session, state, prepared, decisions, history>>

(* The output is accepted, and saved.  It is saved as well when a guardrail *)
(* of a tool's output fails without a verdict, before the run throws.  When *)
(* the guardrails are aborted the results of approved tools are recorded,   *)
(* without any session operation.                                           *)
Finalize ==
  /\ pc = "finalizing"
  /\ \/ pc' = IF prepared THEN "promoting" ELSE "saving"
     \/ state.guarded /\ pc' = "threw"
  /\ state' = IF prepared THEN Checkpoint(state) ELSE state
  /\ UNCHANGED <<session, prepared, decisions, history>>

(* saveToSession at the end of the run, without a write-ahead record; what  *)
(* is rejected after it was stored is not known to be there.  The run       *)
(* throws as well when compaction fails after the save, or a guardrail did  *)
(* before it.                                                               *)
Save ==
  /\ pc = "saving"
  /\ ~Deferred(state)
  /\ LET items == Slice(state.persisted, Generated)
     IN  \/ /\ session' = session \o items
            /\ state' = [state EXCEPT !.persisted = Generated]
            /\ pc' \in {"returned", "threw"}
            /\ UNCHANGED history
         \/ /\ items # <<>>
            /\ \E n \in 0 .. Len(items) :
                 /\ session' = session \o SubSeq(items, 1, n)
                 /\ history' = [history EXCEPT
                                  !.unknown = @ \cup ToSet(SubSeq(items, 1, n))]
            /\ pc' = "threw"
            /\ UNCHANGED state
  /\ UNCHANGED <<prepared, decisions>>

ReturnUnsaved ==
  /\ pc = "saving"
  /\ Deferred(state)
  /\ pc' = "returned"
  /\ UNCHANGED <<session, state, prepared, decisions, history>>

------------------------------------------------------------------------------
Init ==
  /\ \E n \in 1 .. MaxCalls, guarded \in BOOLEAN :
       LET Numbered(kind) == [i \in 1 .. n |-> Item(kind, i)]
       IN  /\ session = <<Item("input", 1)>> \o Numbered("call")
           /\ state = [generated |-> Numbered("call") \o Numbered("approval"),
                       start     |-> 0,
                       persisted |-> 2 * n,
                       step      |-> "interruption",
                       pending   |-> NoWrite,
                       guarded   |-> guarded]
           /\ decisions = [i \in 1 .. MaxCalls |->
                             IF i <= n THEN "pending" ELSE "none"]
  /\ pc = "returned"
  /\ prepared = FALSE
  /\ history = [others |-> 0, runs |-> 0, responses |-> 0, unknown |-> {},
                miscounted |-> FALSE, ran |-> [n \in 1 .. MaxCalls |-> 0],
                repeatable |-> {}, deferred |-> {}]

Next ==
  \/ Decide
  \/ OthersAppend
  \/ Run
  \/ PromotePreparedWrite
  \/ ReconcilePendingWrite
  \/ AppendPreparedWrite
  \/ CompleteCompaction
  \/ SessionFails
  \/ ResumeInterruptedTurn
  \/ ResumeFails
  \/ CallModel
  \/ ModelFails
  \/ FinalizeAgain
  \/ Finalize
  \/ Save
  \/ ReturnUnsaved

Spec == Init /\ [][Next]_vars

------------------------------------------------------------------------------
Held == ToSet(session)

StoredTwice ==
  {item \in Held : \E i, j \in DOMAIN session :
                     i # j /\ session[i] = item /\ session[j] = item}

(* However appends fail and runs are repeated, the session holds no item of *)
(* the run twice, but for what a save without a write-ahead record stored   *)
(* although it was rejected and what follows from a wrong count.            *)
StoredOnce == history.miscounted \/ StoredTwice \subseteq history.unknown

(* What the RunState counts as persisted is in the session, and a run that  *)
(* returns has saved everything it generated, unless it was interrupted in  *)
(* a response with an output that a guardrail may still refuse.             *)
NothingLost ==
  /\ ToSet(Slice(0, state.persisted)) \subseteq Held
  /\ pc = "returned" /\ ~Deferred(state) =>
       ToSet(Storable(state.generated)) \subseteq Held

(* A run goes on to the model only when the session has the results of the  *)
(* approved tools, but for those of interruptions that were not saved, and  *)
(* that no write of other results has taken along.  And a tool never runs   *)
(* again once its result was known, though the write of that result failed. *)
EffectsAreRecorded ==
  /\ pc = "loop" /\ state.step = "run_again" =>
       \A n \in DOMAIN decisions \ history.deferred :
         decisions[n] = "approved" => Item("result", n) \in Held
  /\ \A n \in DOMAIN decisions :
       history.ran[n] > 1 => n \in history.repeatable

(* The comment in turnResolution.ts: removing a request for approval undoes *)
(* the increment that persisting it had caused, so nothing is saved again.  *)
RewindUndoesIncrement == StoredTwice \subseteq history.unknown
=============================================================================
