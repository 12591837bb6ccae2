------------------------- MODULE BatchTraceProcessor -------------------------
(***************************************************************************)
(* The batching trace processor of the tracing package                     *)
(* (agents-core/src/tracing/processor.ts, class BatchTraceProcessor).      *)
(*                                                                         *)
(* Producers (onTraceStart, onSpanEnd) put items in a bounded buffer; a    *)
(* timer loop, a producer that crosses the trigger size, forceFlush and    *)
(* shutdown cut batches from it and hand them to the exporter, whose calls *)
(* overlap.  JavaScript runs each handler to its next await: one action is *)
(* one such stretch.  Continuations run before the next timer callback,    *)
(* which MicrotasksDrained expresses.                                      *)
(*                                                                         *)
(* An item is its arrival number.  Whether an export succeeds is left out: *)
(* the processor swallows the error and forgets the batch either way.      *)
(***************************************************************************)
EXTENDS Naturals, Sequences, FiniteSets

CONSTANTS
  MaxQueueSize,       \* the buffer's capacity
  MaxBatchSize,       \* items in one unforced batch
  ExportTriggerSize,  \* maxQueueSize * exportTriggerRatio
  MaxItems,           \* bound: items produced
  MaxStarts,          \* bound: calls of start(), the constructor's included
  MaxShutdowns        \* bound: calls of shutdown()

ASSUME SizesAssumption ==
  /\ MaxQueueSize \in Nat \ {0}
  /\ MaxBatchSize \in Nat \ {0}
  /\ ExportTriggerSize \in Nat

ASSUME BoundsAssumption ==
  /\ MaxItems \in Nat
  /\ MaxStarts \in Nat \ {0}
  /\ MaxShutdowns \in Nat

VARIABLES
  buffer,            \* #buffer
  exports,           \* #activeExportPromises with their abort controllers
  exportInProgress,  \* #exportInProgress
  loops,             \* the export loop each start() created
  timeout,           \* #timeout: the loop whose timer the field holds, 0 for null
  controller,        \* #timeoutAbortController, 0 for null
  aborted,           \* the controllers that are aborted
  shutdown,          \* the shutdown call: where it is and what it holds
  flush,             \* the forceFlush call: the batches it awaits
  produced,          \* items produced so far
  dropped,           \* items refused because the buffer was full
  settled            \* items whose export settled

vars == <<buffer, exports, exportInProgress, loops, timeout, controller,
          aborted, shutdown, flush, produced, dropped, settled>>

Items       == 1 .. MaxItems
Loops       == 1 .. MaxStarts
Controllers == 0 .. MaxStarts + 1
LoopStates  == {"unborn", "armed", "exporting", "resuming", "cleared"}
Callers     == [by : {"add", "flush", "shutdown"}, loop : {0}]
                 \cup [by : {"loop"}, loop : Loops]
CallOf(name) == [by |-> name, loop |-> 0]

Elems(s) == {s[i] : i \in DOMAIN s}

Increasing(s) == \A i, j \in DOMAIN s : i < j => s[i] < s[j]

InFlight == UNION {Elems(e.batch) : e \in exports}

(* Timer callbacks run when no continuation is ready.                      *)
MicrotasksDrained ==
  /\ \A l \in Loops : loops[l] # "resuming"
  /\ shutdown.at # "exported"

------------------------------------------------------------------------------
(* #exportBatches on a non-empty buffer: cut a batch and call the exporter. *)

Batch(buf, force) ==
  IF force \/ Len(buf) < MaxBatchSize THEN buf ELSE SubSeq(buf, 1, MaxBatchSize)

(* Deviation: the cut leaves the last item of the batch in the buffer.      *)
RestOverlapping(buf, force) ==
  IF force \/ Len(buf) < MaxBatchSize
  THEN << >>
  ELSE SubSeq(buf, MaxBatchSize, Len(buf))

Rest(buf, force) ==
  IF force \/ Len(buf) < MaxBatchSize
  THEN << >>
  ELSE SubSeq(buf, MaxBatchSize + 1, Len(buf))

ExportBatches(buf, force, caller, isAborted) ==
  /\ buf # << >>
  /\ buffer' = Rest(buf, force)
  /\ exports' = exports \cup
       {[batch |-> Batch(buf, force), caller |-> caller, aborted |-> isAborted]}
  /\ exportInProgress' = TRUE

NoExport == UNCHANGED <<exports, exportInProgress>>

(* The caller of an export that settled: its continuation becomes ready.    *)
WakeCaller(e) ==
  /\ settled' = settled \cup Elems(e.batch)
  /\ loops' = IF e.caller.by = "loop"
              THEN [loops EXCEPT ![e.caller.loop] = "resuming"]
              ELSE loops
  /\ shutdown' = IF e.caller.by = "shutdown"
                 THEN [shutdown EXCEPT !.at = "exported"]
                 ELSE shutdown
  /\ UNCHANGED <<buffer, timeout, controller, aborted, flush, produced, dropped>>

(* The finally of exportBatch: the flag is recomputed from what is left.    *)
SettleExport(e) ==
  /\ exports' = exports \ {e}
  /\ exportInProgress' = (exports \ {e} # {})
  /\ WakeCaller(e)

------------------------------------------------------------------------------
(* #safeAddItem, from onTraceStart and onSpanEnd.                           *)
AddItem ==
  /\ produced < MaxItems
  /\ produced' = produced + 1
  /\ \/ /\ Len(buffer) + 1 > MaxQueueSize
        /\ dropped' = dropped \cup {produced + 1}
        /\ UNCHANGED buffer
        /\ NoExport
     \/ LET buf == Append(buffer, produced + 1) IN
        /\ Len(buffer) + 1 <= MaxQueueSize
        /\ UNCHANGED dropped
        /\ \/ /\ Len(buf) > ExportTriggerSize
              /\ ExportBatches(buf, FALSE, CallOf("add"), FALSE)
           \/ /\ Len(buf) <= ExportTriggerSize
              /\ buffer' = buf
              /\ NoExport
  /\ UNCHANGED <<loops, timeout, controller, aborted, shutdown, flush, settled>>

(* start(): a fresh abort controller and a fresh loop.  A loop that already *)
(* runs is not looked for: its timer is only no longer the one #timeout     *)
(* holds.                                                                   *)
Start(l) ==
  /\ loops[l] = "unborn"
  /\ l > 1 => loops[l - 1] # "unborn"
  /\ loops' = [loops EXCEPT ![l] = "armed"]
  /\ timeout' = l
  /\ controller' = l
  /\ UNCHANGED <<buffer, exports, exportInProgress, aborted, shutdown, flush,
                 produced, dropped, settled>>

(* The callback of the loop's timer, up to the export it awaits; with an    *)
(* empty buffer nothing can run before the next timer is set.               *)
TimerFires(l) ==
  /\ MicrotasksDrained
  /\ loops[l] = "armed"
  /\ \/ /\ buffer = << >>
        /\ timeout' = l
        /\ UNCHANGED <<buffer, loops>>
        /\ NoExport
     \/ /\ ExportBatches(buffer, FALSE, [by |-> "loop", loop |-> l], FALSE)
        /\ loops' = [loops EXCEPT ![l] = "exporting"]
        /\ UNCHANGED timeout
  /\ UNCHANGED <<controller, aborted, shutdown, flush, produced, dropped, settled>>

(* Deviation: the callback does not set the next timer after an export.     *)
RunExportLoopOnce(l) ==
  /\ loops[l] = "resuming"
  /\ loops' = [loops EXCEPT ![l] = "cleared"]
  /\ UNCHANGED <<buffer, exports, exportInProgress, timeout, controller, aborted,
                 shutdown, flush, produced, dropped, settled>>

(* The rest of the callback: #runExportLoop sets the next timer.            *)
RunExportLoop(l) ==
  /\ loops[l] = "resuming"
  /\ loops' = [loops EXCEPT ![l] = "armed"]
  /\ timeout' = l
  /\ UNCHANGED <<buffer, exports, exportInProgress, controller, aborted,
                 shutdown, flush, produced, dropped, settled>>

------------------------------------------------------------------------------
(* Deviation: forceFlush awaits its own export only.                        *)
AwaitedOwn == {buffer} \ {<< >>}

(* forceFlush() awaits the exports in flight, read first, and its own.      *)
Awaited == {e.batch : e \in exports} \cup ({buffer} \ {<< >>})

ForceFlush ==
  /\ flush.at = "idle"
  /\ flush' = [at |-> "waiting", awaited |-> Awaited, mark |-> produced]
  /\ IF buffer = << >>
     THEN UNCHANGED buffer /\ NoExport
     ELSE ExportBatches(buffer, TRUE, CallOf("flush"), FALSE)
  /\ UNCHANGED <<loops, timeout, controller, aborted, shutdown, produced,
                 dropped, settled>>

ForceFlushReturns ==
  /\ flush.at = "waiting"
  /\ \A e \in exports : e.batch \notin flush.awaited
  /\ flush' = [at |-> "idle", awaited |-> {}, mark |-> flush.mark]
  /\ UNCHANGED <<buffer, exports, exportInProgress, loops, timeout, controller,
                 aborted, shutdown, produced, dropped, settled>>

------------------------------------------------------------------------------
(* shutdown(timeout): the while loop, and the finally that clears timers.   *)

SignalAborted(sd) == sd.signal \in aborted

ShutdownReturns(sd) ==
  /\ shutdown' = [sd EXCEPT !.at = "returned", !.deadline = "off"]
  /\ loops' = IF timeout # 0 /\ loops[timeout] = "armed"
              THEN [loops EXCEPT ![timeout] = "cleared"]
              ELSE loops

(* After the conditional export: break on abort, else wait for progress.    *)
BreakOrWait(sd) ==
  IF SignalAborted(sd)
  THEN ShutdownReturns(sd)
  ELSE /\ shutdown' = [sd EXCEPT !.at = "waiting"]
       /\ UNCHANGED loops

(* From the test of the while condition to the next await.                  *)
ShutdownLoop(sd) ==
  \/ /\ buffer = << >> /\ ~exportInProgress
     /\ ShutdownReturns(sd)
     /\ UNCHANGED buffer
     /\ NoExport
  \/ /\ buffer # << >> /\ ~exportInProgress
     /\ ExportBatches(buffer, TRUE, CallOf("shutdown"), SignalAborted(sd))
     /\ shutdown' = [sd EXCEPT !.at = "exporting"]
     /\ UNCHANGED loops
  \/ /\ exportInProgress
     /\ BreakOrWait(sd)
     /\ UNCHANGED buffer
     /\ NoExport

(* A shutdown with a timeout takes the controller of start(), or makes one. *)
Shutdown(timed) ==
  /\ shutdown.at \in {"idle", "returned"}
  /\ shutdown.calls < MaxShutdowns
  /\ LET signal == IF ~timed THEN 0
                   ELSE IF controller = 0 THEN MaxStarts + 1 ELSE controller
     IN  /\ controller' = IF timed THEN signal ELSE controller
         /\ ShutdownLoop([at       |-> "idle",
                          signal   |-> signal,
                          deadline |-> IF timed THEN "armed" ELSE "off",
                          mark     |-> produced,
                          calls    |-> shutdown.calls + 1])
  /\ UNCHANGED <<timeout, aborted, flush, produced, dropped, settled>>

ShutdownExported ==
  /\ shutdown.at = "exported"
  /\ BreakOrWait(shutdown)
  /\ UNCHANGED <<buffer, exports, exportInProgress, timeout, controller,
                 aborted, flush, produced, dropped, settled>>

(* #waitForShutdownProgress resolves: 500 ms passed, or the signal aborted. *)
ShutdownProgress ==
  /\ shutdown.at = "waiting"
  /\ MicrotasksDrained \/ SignalAborted(shutdown)
  /\ ShutdownLoop(shutdown)
  /\ UNCHANGED <<timeout, controller, aborted, flush, produced, dropped, settled>>

(* Deviation: the deadline aborts the signal but not the active exports,    *)
(* which do not listen to it.                                               *)
ShutdownTimeoutSignalOnly ==
  /\ MicrotasksDrained
  /\ shutdown.deadline = "armed"
  /\ shutdown' = [shutdown EXCEPT !.deadline = "off"]
  /\ aborted' = aborted \cup {shutdown.signal}
  /\ UNCHANGED <<buffer, exports, exportInProgress, loops, timeout, controller,
                 flush, produced, dropped, settled>>

(* The deadline's callback: the signal and every active export are aborted. *)
ShutdownTimeout ==
  /\ MicrotasksDrained
  /\ shutdown.deadline = "armed"
  /\ shutdown' = [shutdown EXCEPT !.deadline = "off"]
  /\ aborted' = aborted \cup {shutdown.signal}
  /\ exports' = {[e EXCEPT !.aborted = TRUE] : e \in exports}
  /\ UNCHANGED <<buffer, exportInProgress, loops, timeout, controller, flush,
                 produced, dropped, settled>>

------------------------------------------------------------------------------
(* The constructor starts the loop where the runtime supports it.           *)
Init ==
  /\ buffer = << >>
  /\ exports = {}
  /\ exportInProgress = FALSE
  /\ \/ /\ loops = [l \in Loops |-> IF l = 1 THEN "armed" ELSE "unborn"]
        /\ timeout = 1
        /\ controller = 1
     \/ /\ loops = [l \in Loops |-> "unborn"]
        /\ timeout = 0
        /\ controller = 0
  /\ aborted = {}
  /\ shutdown = [at |-> "idle", signal |-> 0, deadline |-> "off", mark |-> 0,
                 calls |-> 0]
  /\ flush = [at |-> "idle", awaited |-> {}, mark |-> 0]
  /\ produced = 0
  /\ dropped = {}
  /\ settled = {}

Next ==
  \/ AddItem
  \/ \E e \in exports : SettleExport(e)
  \/ \E l \in Loops : Start(l) \/ TimerFires(l) \/ RunExportLoop(l)
  \/ ForceFlush
  \/ ForceFlushReturns
  \/ \E timed \in BOOLEAN : Shutdown(timed)
  \/ ShutdownExported
  \/ ShutdownProgress
  \/ ShutdownTimeout

Spec == Init /\ [][Next]_vars

(* Continuations run, and a timer that is due again and again between them  *)
(* fires: the event loop serves due timers in the order of their deadlines. *)
SchedulerFairness ==
  /\ \A l \in Loops : SF_vars(TimerFires(l)) /\ WF_vars(RunExportLoop(l))
  /\ WF_vars(ShutdownExported)
  /\ SF_vars(ShutdownProgress)
  /\ SF_vars(ShutdownTimeout)
  /\ WF_vars(ForceFlushReturns)

FairSpec == Spec /\ SchedulerFairness

(* An exporter that answers every call, as the bundled ones do: they give   *)
(* up after a bounded number of attempts.                                   *)
ExporterAnswers == WF_vars(\E e \in exports : SettleExport(e))

(* An exporter that may hang, but honours the abort signal it is given.     *)
ExporterHonoursAbort == WF_vars(\E e \in exports : e.aborted /\ SettleExport(e))

------------------------------------------------------------------------------
ExportType ==
  [batch : Seq(Items) \ {<< >>}, caller : Callers, aborted : BOOLEAN]

ShutdownType ==
  [at : {"idle", "exporting", "exported", "waiting", "returned"},
   signal : Controllers, deadline : {"off", "armed"}, mark : 0 .. MaxItems,
   calls : 0 .. MaxShutdowns]

FlushType ==
  [at : {"idle", "waiting"}, awaited : SUBSET Seq(Items), mark : 0 .. MaxItems]

(* Type invariant: with it, the buffer never outgrows its capacity and the  *)
(* exporter is never called with nothing to export.                         *)
TypeOK ==
  /\ buffer \in Seq(Items) /\ Len(buffer) <= MaxQueueSize
  /\ exports \subseteq ExportType
  /\ exportInProgress \in BOOLEAN
  /\ loops \in [Loops -> LoopStates]
  /\ timeout \in {0} \cup Loops
  /\ controller \in Controllers
  /\ aborted \subseteq Controllers
  /\ shutdown \in ShutdownType
  /\ flush \in FlushType
  /\ produced \in 0 .. MaxItems
  /\ dropped \subseteq Items
  /\ settled \subseteq Items

(* #exportInProgress agrees with the set of active exports although exports *)
(* overlap and each one writes the flag when it starts and when it ends:    *)
(* shutdown decides from the flag alone that nothing is in flight.          *)
ExportFlagExact == exportInProgress <=> exports # {}

(* No item is lost or sent twice inside the processor: each item produced   *)
(* is dropped, buffered, in one batch in flight, or settled, and only one.  *)
EachItemOnce ==
  /\ 1 .. produced = dropped \cup Elems(buffer) \cup InFlight \cup settled
  /\ Elems(buffer) \cap (InFlight \cup settled \cup dropped) = {}
  /\ InFlight \cap (settled \cup dropped) = {}
  /\ settled \cap dropped = {}
  /\ \A e, f \in exports : e # f => Elems(e.batch) \cap Elems(f.batch) = {}

(* Batches leave in arrival order whoever cuts them: what is still buffered *)
(* is younger than everything handed to the exporter.                       *)
HandedOffInOrder ==
  /\ Increasing(buffer)
  /\ \A x \in InFlight \cup settled : \A y \in Elems(buffer) : x < y

(* Whoever cuts the batches, each item is handed on once and in its order.  *)
HandedOffOnceInOrder == EachItemOnce /\ HandedOffInOrder

Accepted(mark) == (1 .. mark) \ dropped

(* forceFlush returns only when every item accepted before the call has     *)
(* been through the exporter, also those that others were exporting.        *)
FlushIsComplete ==
  [][flush.at = "waiting" /\ flush'.at = "idle"
       => Accepted(flush.mark) \subseteq settled]_vars

(* shutdown without a timeout returns only when every item accepted before  *)
(* the call has been through the exporter, whoever exported it.             *)
ShutdownIsComplete ==
  [][shutdown'.at = "returned" /\ shutdown' # shutdown /\ shutdown'.signal = 0
       => Accepted(shutdown'.mark) \subseteq settled']_vars

(* Nobody who waits for the items is told too early that they are exported. *)
WaitersAreNotMisled == FlushIsComplete /\ ShutdownIsComplete

(* Every accepted item reaches the exporter and the call settles, as long   *)
(* as the exporter answers, a loop runs and nobody shuts the processor down.*)
ItemsAreExported ==
  ExporterAnswers =>
    \A i \in Items :
      (i \in Elems(buffer) /\ loops[1] # "unborn")
        ~> (i \in settled \/ shutdown.calls > 0)

(* shutdown(timeout) returns although the exporter may hang, as long as the *)
(* exporter reacts to the abort signal.                                     *)
TimedShutdownReturns ==
  ExporterHonoursAbort =>
    ((shutdown.at \notin {"idle", "returned"} /\ shutdown.signal # 0)
       ~> (shutdown.at = "returned"))

(* "Making sure there are no more requests", says the finally of shutdown:  *)
(* when shutdown returns, no loop is inside a callback that will set the    *)
(* next timer after the clearTimeout.                                       *)
NoLoopAfterShutdown ==
  [][shutdown'.at = "returned" /\ shutdown' # shutdown
       => \A l \in Loops : loops'[l] # "exporting"]_vars
==============================================================================
