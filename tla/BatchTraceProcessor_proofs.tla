---------------------- MODULE BatchTraceProcessor_proofs ----------------------
(***************************************************************************)
(* Proofs about BatchTraceProcessor, for every size of the buffer and of   *)
(* a batch and every number of items, loops and shutdown calls.            *)
(***************************************************************************)
EXTENDS BatchTraceProcessor, SequenceTheorems, TLAPS

------------------------------------------------------------------------------
(* Sequences of items.                                                      *)

LEMMA SuffixProperties ==
  ASSUME NEW S, NEW s \in Seq(S), NEW m \in 0 .. Len(s)
  PROVE  /\ SubSeq(s, m + 1, Len(s)) \in Seq(S)
         /\ Len(SubSeq(s, m + 1, Len(s))) = Len(s) - m
         /\ \A i \in 1 .. (Len(s) - m) :
              SubSeq(s, m + 1, Len(s))[i] = s[m + i]
<1>1. m + 1 \in Int /\ Len(s) \in Int /\ \A i \in (m + 1) .. Len(s) : s[i] \in S
  OBVIOUS
<1>2. /\ SubSeq(s, m + 1, Len(s)) \in Seq(S)
      /\ Len(SubSeq(s, m + 1, Len(s)))
           = IF m + 1 <= Len(s) THEN Len(s) - (m + 1) + 1 ELSE 0
      /\ \A i \in 1 .. (Len(s) - (m + 1) + 1) :
           SubSeq(s, m + 1, Len(s))[i] = s[(m + 1) + i - 1]
  BY ONLY <1>1, SubSeqProperties
<1> QED BY <1>2

(* A cut splits the buffer: nothing is lost, the batch is not empty, and in *)
(* a buffer in arrival order the batch is the older part.                   *)
LEMMA CutSplits ==
  ASSUME NEW buf \in Seq(Items), buf # << >>, NEW force \in BOOLEAN
  PROVE  /\ Batch(buf, force) \in Seq(Items) \ {<< >>}
         /\ Rest(buf, force) \in Seq(Items)
         /\ Len(Rest(buf, force)) <= Len(buf)
         /\ Elems(buf) = Elems(Batch(buf, force)) \cup Elems(Rest(buf, force))
         /\ Increasing(buf) =>
              /\ Increasing(Rest(buf, force))
              /\ \A x \in Elems(Batch(buf, force)) :
                   \A y \in Elems(Rest(buf, force)) : x < y
<1> DEFINE k == MaxBatchSize
           n == Len(buf)
           B == SubSeq(buf, 1, k)
           R == SubSeq(buf, k + 1, n)
<1>1. /\ k \in Nat \ {0}
      /\ n \in Nat
      /\ DOMAIN buf = 1 .. n
      /\ \A i \in 1 .. n : buf[i] \in Items
      /\ Items \subseteq Nat
  BY SizesAssumption, BoundsAssumption DEF Items
<1>2. CASE force \/ n < k
  <2>1. Batch(buf, force) = buf /\ Rest(buf, force) = << >>
    BY <1>2 DEF Batch, Rest
  <2>2. << >> \in Seq(Items) /\ Len(<< >>) = 0 /\ Elems(<< >>) = {}
        /\ Increasing(<< >>)
    BY DEF Elems, Increasing
  <2> QED BY <1>1, <2>1, <2>2
<1>3. CASE ~(force \/ n < k)
  <2>1. Batch(buf, force) = B /\ Rest(buf, force) = R
    BY <1>3 DEF Batch, Rest
  <2>2. /\ B \in Seq(Items) /\ Len(B) = k /\ DOMAIN B = 1 .. k
        /\ \A i \in 1 .. k : B[i] = buf[i]
    BY <1>1, <1>3
  <2>3. /\ R \in Seq(Items) /\ Len(R) = n - k /\ DOMAIN R = 1 .. (n - k)
        /\ \A i \in 1 .. (n - k) : R[i] = buf[k + i]
    <3>1. k \in 0 .. Len(buf)
      BY <1>1, <1>3
    <3>2. /\ R \in Seq(Items) /\ Len(R) = n - k
          /\ \A i \in 1 .. (n - k) : R[i] = buf[k + i]
      BY <3>1, SuffixProperties
    <3> QED BY <3>2
  <2>4. B # << >>
    BY <1>1, <2>2
  <2> HIDE DEF k, n, B, R
  <2>5. Elems(buf) = Elems(B) \cup Elems(R)
    <3>1. ASSUME NEW i \in 1 .. n
          PROVE  buf[i] \in Elems(B) \cup Elems(R)
      <4>1. CASE i <= k
        <5>1. i \in DOMAIN B /\ B[i] = buf[i]
          BY <1>1, <2>2, <4>1
        <5> QED BY <5>1 DEF Elems
      <4>2. CASE ~(i <= k)
        <5>1. i - k \in DOMAIN R /\ R[i - k] = buf[i]
          <6>1. i - k \in 1 .. (n - k) /\ k + (i - k) = i
            BY <1>1, <4>2
          <6> QED BY <2>3, <6>1
        <5> QED BY <5>1 DEF Elems
      <4> QED BY <4>1, <4>2
    <3>2. ASSUME NEW i \in DOMAIN B PROVE B[i] \in Elems(buf)
      <4>1. i \in DOMAIN buf /\ B[i] = buf[i]
        BY <1>1, <1>3, <2>2
      <4> QED BY <4>1 DEF Elems
    <3>3. ASSUME NEW i \in DOMAIN R PROVE R[i] \in Elems(buf)
      <4>1. k + i \in DOMAIN buf /\ R[i] = buf[k + i]
        BY <1>1, <1>3, <2>3
      <4> QED BY <4>1 DEF Elems
    <3> QED BY <1>1, <3>1, <3>2, <3>3 DEF Elems
  <2>6. ASSUME Increasing(buf)
        PROVE  /\ Increasing(R)
               /\ \A x \in Elems(B) : \A y \in Elems(R) : x < y
    <3>1. \A i, j \in 1 .. n : i < j => buf[i] < buf[j]
      BY <1>1, <2>6 DEF Increasing
    <3>2. ASSUME NEW i \in DOMAIN R, NEW j \in DOMAIN R, i < j
          PROVE  R[i] < R[j]
      <4>1. k + i \in 1 .. n /\ k + j \in 1 .. n /\ k + i < k + j
        BY <1>1, <2>3, <3>2
      <4> QED BY <2>3, <3>1, <4>1
    <3>3. ASSUME NEW i \in DOMAIN B, NEW j \in DOMAIN R
          PROVE  B[i] < R[j]
      <4>1. i \in 1 .. n /\ k + j \in 1 .. n /\ i < k + j
        BY <1>1, <1>3, <2>2, <2>3
      <4> QED BY <2>2, <2>3, <3>1, <4>1
    <3> QED BY <3>2, <3>3 DEF Increasing, Elems
  <2> QED BY <1>1, <1>3, <2>1, <2>2, <2>3, <2>4, <2>5, <2>6 DEF n
<1> QED BY <1>2, <1>3

LEMMA AppendItem ==
  ASSUME NEW s \in Seq(Items), NEW x \in Items
  PROVE  /\ Append(s, x) \in Seq(Items)
         /\ Append(s, x) # << >>
         /\ Len(Append(s, x)) = Len(s) + 1
         /\ Elems(Append(s, x)) = Elems(s) \cup {x}
         /\ Increasing(s) /\ (\A y \in Elems(s) : y < x) => Increasing(Append(s, x))
<1> DEFINE t == Append(s, x)
<1>1. /\ t \in Seq(Items) /\ Len(t) = Len(s) + 1 /\ t[Len(s) + 1] = x
      /\ \A i \in 1 .. Len(s) : t[i] = s[i]
      /\ Len(s) \in Nat /\ DOMAIN s = 1 .. Len(s) /\ DOMAIN t = 1 .. (Len(s) + 1)
  OBVIOUS
<1>2. t # << >>
  BY <1>1
<1>3. Elems(t) = Elems(s) \cup {x}
  <2>1. \A i \in DOMAIN t : t[i] \in Elems(s) \cup {x}
    <3>1. \A i \in DOMAIN t : i \in DOMAIN s \/ i = Len(s) + 1
      BY <1>1
    <3> QED BY <1>1, <3>1 DEF Elems
  <2>2. \A i \in DOMAIN s : s[i] \in Elems(t)
    <3>1. \A i \in DOMAIN s : i \in DOMAIN t /\ t[i] = s[i]
      BY <1>1
    <3> QED BY <3>1 DEF Elems
  <2>3. x \in Elems(t)
    <3>1. Len(s) + 1 \in DOMAIN t
      BY <1>1
    <3> QED BY <1>1, <3>1 DEF Elems
  <2> QED BY <2>1, <2>2, <2>3 DEF Elems
<1>4. ASSUME Increasing(s), \A y \in Elems(s) : y < x
      PROVE  Increasing(t)
  <2> SUFFICES ASSUME NEW i \in DOMAIN t, NEW j \in DOMAIN t, i < j
               PROVE  t[i] < t[j]
    BY DEF Increasing
  <2>1. i \in DOMAIN s /\ t[i] = s[i] /\ s[i] \in Elems(s)
    BY <1>1 DEF Elems
  <2>2. CASE j = Len(s) + 1
    BY <1>1, <1>4, <2>1, <2>2
  <2>3. CASE j # Len(s) + 1
    <3>1. j \in DOMAIN s /\ t[j] = s[j]
      BY <1>1, <2>3
    <3> QED BY <1>4, <2>1, <3>1 DEF Increasing
  <2> QED BY <2>2, <2>3
<1> QED BY <1>1, <1>2, <1>3, <1>4

------------------------------------------------------------------------------
(* Types.                                                                   *)

LEMMA ExportBatchesType ==
  ASSUME NEW buf \in Seq(Items), Len(buf) <= MaxQueueSize,
         NEW force \in BOOLEAN, NEW caller \in Callers, NEW isAborted \in BOOLEAN,
         exports \subseteq ExportType,
         ExportBatches(buf, force, caller, isAborted)
  PROVE  /\ buffer' \in Seq(Items) /\ Len(buffer') <= MaxQueueSize
         /\ exports' \subseteq ExportType
         /\ exportInProgress' = TRUE
<1>1. /\ Batch(buf, force) \in Seq(Items) \ {<< >>}
      /\ buffer' \in Seq(Items)
      /\ Len(buffer') <= Len(buf)
  BY CutSplits DEF ExportBatches
<1>2. Len(buffer') <= MaxQueueSize
  BY <1>1, SizesAssumption
<1>3. [batch |-> Batch(buf, force), caller |-> caller, aborted |-> isAborted]
        \in ExportType
  BY <1>1 DEF ExportType
<1> QED BY <1>1, <1>2, <1>3 DEF ExportBatches

LEMMA CallersType ==
  /\ \A name \in {"add", "flush", "shutdown"} : CallOf(name) \in Callers
  /\ \A l \in Loops : [by |-> "loop", loop |-> l] \in Callers
BY DEF CallOf, Callers

LEMMA ShutdownLoopType ==
  ASSUME TypeOK, NEW sd \in ShutdownType, ShutdownLoop(sd)
  PROVE  /\ buffer' \in Seq(Items) /\ Len(buffer') <= MaxQueueSize
         /\ exports' \subseteq ExportType
         /\ exportInProgress' \in BOOLEAN
         /\ loops' \in [Loops -> LoopStates]
         /\ shutdown' \in ShutdownType
<1>1. CASE ShutdownReturns(sd) /\ UNCHANGED buffer /\ NoExport
  BY <1>1 DEF ShutdownReturns, NoExport, TypeOK, ShutdownType, LoopStates
<1>2. CASE /\ ExportBatches(buffer, TRUE, CallOf("shutdown"), SignalAborted(sd))
           /\ shutdown' = [sd EXCEPT !.at = "exporting"]
           /\ UNCHANGED loops
  <2>1. shutdown' \in ShutdownType /\ loops' \in [Loops -> LoopStates]
    BY <1>2 DEF TypeOK, ShutdownType
  <2>2. SignalAborted(sd) \in BOOLEAN
    BY DEF SignalAborted
  <2>3. /\ buffer' \in Seq(Items) /\ Len(buffer') <= MaxQueueSize
        /\ exports' \subseteq ExportType
        /\ exportInProgress' = TRUE
    BY <1>2, <2>2, ExportBatchesType, CallersType DEF TypeOK
  <2> QED BY <2>1, <2>3
<1>3. CASE BreakOrWait(sd) /\ UNCHANGED buffer /\ NoExport
  <2>1. CASE ShutdownReturns(sd)
    BY <1>1, <1>3, <2>1
  <2>2. CASE shutdown' = [sd EXCEPT !.at = "waiting"] /\ UNCHANGED loops
    BY <1>3, <2>2 DEF NoExport, TypeOK, ShutdownType
  <2> QED BY <1>3, <2>1, <2>2 DEF BreakOrWait
<1> QED BY <1>1, <1>2, <1>3 DEF ShutdownLoop

LEMMA InitType == Init => TypeOK
<1> SUFFICES ASSUME Init PROVE TypeOK
  OBVIOUS
<1>1. /\ 0 \in 0 .. MaxItems /\ 0 \in 0 .. MaxShutdowns
      /\ 0 \in Controllers /\ 1 \in Controllers /\ 1 \in Loops
      /\ 0 <= MaxQueueSize
  BY SizesAssumption, BoundsAssumption DEF Controllers, Loops
<1>2. buffer \in Seq(Items) /\ Len(buffer) <= MaxQueueSize
  BY <1>1 DEF Init
<1>3. shutdown \in ShutdownType /\ flush \in FlushType
  BY <1>1 DEF Init, ShutdownType, FlushType
<1>4. /\ loops \in [Loops -> LoopStates] /\ timeout \in {0} \cup Loops
      /\ controller \in Controllers
  BY <1>1 DEF Init, LoopStates
<1> QED BY <1>1, <1>2, <1>3, <1>4 DEF Init, TypeOK

LEMMA NextType == TypeOK /\ [Next]_vars => TypeOK'
<1> SUFFICES ASSUME TypeOK, [Next]_vars PROVE TypeOK'
  OBVIOUS
<1>1. CASE AddItem
  <2>1. /\ produced + 1 \in Items /\ produced' \in 0 .. MaxItems
        /\ UNCHANGED <<loops, timeout, controller, aborted, shutdown, flush, settled>>
    BY <1>1, BoundsAssumption DEF AddItem, TypeOK, Items
  <2> DEFINE buf == Append(buffer, produced + 1)
  <2>2. buf \in Seq(Items) /\ Len(buf) = Len(buffer) + 1
    BY <2>1, AppendItem DEF TypeOK
  <2> HIDE DEF buf
  <2>0. Len(buffer) \in Nat /\ MaxQueueSize \in Nat
    BY SizesAssumption DEF TypeOK
  <2>3. CASE Len(buffer) + 1 > MaxQueueSize
    <3>0. ~(Len(buffer) + 1 <= MaxQueueSize)
      BY <2>0, <2>3
    <3>1. /\ dropped' = dropped \cup {produced + 1} /\ UNCHANGED buffer /\ NoExport
      BY <1>1, <3>0 DEF AddItem
    <3> QED BY <2>1, <3>1 DEF TypeOK, NoExport
  <2>4. CASE Len(buffer) + 1 <= MaxQueueSize
    <3>1. dropped' \subseteq Items
      BY <1>1, <2>1 DEF AddItem, TypeOK
    <3>2. CASE ExportBatches(buf, FALSE, CallOf("add"), FALSE)
      <4>1. /\ buffer' \in Seq(Items) /\ Len(buffer') <= MaxQueueSize
            /\ exports' \subseteq ExportType /\ exportInProgress' = TRUE
        BY <2>2, <2>4, <3>2, ExportBatchesType, CallersType DEF TypeOK
      <4> QED BY <2>1, <3>1, <4>1 DEF TypeOK
    <3>3. CASE buffer' = buf /\ NoExport
      BY <2>1, <2>2, <2>4, <3>1, <3>3 DEF TypeOK, NoExport
    <3>4. ~(Len(buffer) + 1 > MaxQueueSize)
      BY <2>0, <2>4
    <3> QED BY <1>1, <3>2, <3>3, <3>4 DEF AddItem, buf
  <2> QED BY <2>0, <2>3, <2>4
<1>2. ASSUME NEW e \in exports, SettleExport(e) PROVE TypeOK'
  <2>1. e \in ExportType /\ e.batch \in Seq(Items) /\ e.caller \in Callers
    BY DEF TypeOK, ExportType
  <2>2. Elems(e.batch) \subseteq Items
    BY <2>1 DEF Elems
  <2>3. e.caller.by = "loop" => e.caller.loop \in Loops
    BY <2>1 DEF Callers
  <2>4. loops' \in [Loops -> LoopStates]
    BY <1>2, <2>3 DEF SettleExport, WakeCaller, TypeOK, LoopStates
  <2>5. shutdown' \in ShutdownType
    BY <1>2 DEF SettleExport, WakeCaller, TypeOK, ShutdownType
  <2> QED BY <1>2, <2>2, <2>4, <2>5 DEF SettleExport, WakeCaller, TypeOK
<1>3. ASSUME NEW l \in Loops, Start(l) PROVE TypeOK'
  <2>1. l \in Controllers
    BY BoundsAssumption DEF Loops, Controllers
  <2> QED BY <1>3, <2>1 DEF Start, TypeOK, LoopStates
<1>4. ASSUME NEW l \in Loops, TimerFires(l) PROVE TypeOK'
  <2>1. CASE timeout' = l /\ UNCHANGED <<buffer, loops>> /\ NoExport
    BY <1>4, <2>1 DEF TimerFires, TypeOK, NoExport
  <2>2. CASE /\ ExportBatches(buffer, FALSE, [by |-> "loop", loop |-> l], FALSE)
             /\ loops' = [loops EXCEPT ![l] = "exporting"]
             /\ UNCHANGED timeout
    <3>1. /\ buffer' \in Seq(Items) /\ Len(buffer') <= MaxQueueSize
          /\ exports' \subseteq ExportType /\ exportInProgress' = TRUE
      BY <2>2, ExportBatchesType, CallersType DEF TypeOK
    <3>2. loops' \in [Loops -> LoopStates]
      BY <2>2 DEF TypeOK, LoopStates
    <3> QED BY <1>4, <2>2, <3>1, <3>2 DEF TimerFires, TypeOK
  <2> QED BY <1>4, <2>1, <2>2 DEF TimerFires
<1>5. ASSUME NEW l \in Loops, RunExportLoop(l) PROVE TypeOK'
  BY <1>5 DEF RunExportLoop, TypeOK, LoopStates
<1>6. CASE ForceFlush
  <2>1. /\ flush' \in FlushType
        /\ UNCHANGED <<loops, timeout, controller, aborted, shutdown, produced,
                       dropped, settled>>
    <3>1. Awaited \subseteq Seq(Items)
      BY DEF Awaited, TypeOK, ExportType
    <3> QED BY <1>6, <3>1 DEF ForceFlush, FlushType, TypeOK
  <2>2. CASE UNCHANGED buffer /\ NoExport
    BY <2>1, <2>2 DEF TypeOK, NoExport
  <2>3. CASE ExportBatches(buffer, TRUE, CallOf("flush"), FALSE)
    <3>1. /\ buffer' \in Seq(Items) /\ Len(buffer') <= MaxQueueSize
          /\ exports' \subseteq ExportType /\ exportInProgress' = TRUE
      BY <2>3, ExportBatchesType, CallersType DEF TypeOK
    <3> QED BY <2>1, <3>1 DEF TypeOK
  <2> QED BY <1>6, <2>2, <2>3 DEF ForceFlush
<1>7. CASE ForceFlushReturns
  BY <1>7 DEF ForceFlushReturns, TypeOK, FlushType
<1>8. ASSUME NEW timed \in BOOLEAN, Shutdown(timed) PROVE TypeOK'
  <2> DEFINE signal == IF ~timed THEN 0
                       ELSE IF controller = 0 THEN MaxStarts + 1 ELSE controller
             sd == [at |-> "idle", signal |-> signal,
                    deadline |-> IF timed THEN "armed" ELSE "off",
                    mark |-> produced, calls |-> shutdown.calls + 1]
  <2>1. signal \in Controllers
    BY BoundsAssumption DEF Controllers, TypeOK
  <2>2. shutdown.calls + 1 \in 0 .. MaxShutdowns
    BY <1>8, BoundsAssumption DEF Shutdown, TypeOK, ShutdownType
  <2>3. sd \in ShutdownType
    BY <2>1, <2>2 DEF ShutdownType, TypeOK
  <2>4. /\ ShutdownLoop(sd)
        /\ controller' = IF timed THEN signal ELSE controller
        /\ UNCHANGED <<timeout, aborted, flush, produced, dropped, settled>>
    BY <1>8 DEF Shutdown
  <2> HIDE DEF sd, signal
  <2>5. /\ buffer' \in Seq(Items) /\ Len(buffer') <= MaxQueueSize
        /\ exports' \subseteq ExportType /\ exportInProgress' \in BOOLEAN
        /\ loops' \in [Loops -> LoopStates] /\ shutdown' \in ShutdownType
    BY <2>3, <2>4, ShutdownLoopType
  <2> QED BY <2>1, <2>4, <2>5 DEF TypeOK
<1>9. CASE ShutdownExported
  <2>1. CASE ShutdownReturns(shutdown)
    <3>1. shutdown' \in ShutdownType /\ loops' \in [Loops -> LoopStates]
      BY <2>1 DEF ShutdownReturns, TypeOK, ShutdownType, LoopStates
    <3> QED BY <1>9, <3>1 DEF ShutdownExported, TypeOK
  <2>2. CASE shutdown' = [shutdown EXCEPT !.at = "waiting"] /\ UNCHANGED loops
    BY <1>9, <2>2 DEF ShutdownExported, TypeOK, ShutdownType
  <2> QED BY <1>9, <2>1, <2>2 DEF ShutdownExported, BreakOrWait
<1>10. CASE ShutdownProgress
  <2>1. /\ buffer' \in Seq(Items) /\ Len(buffer') <= MaxQueueSize
        /\ exports' \subseteq ExportType /\ exportInProgress' \in BOOLEAN
        /\ loops' \in [Loops -> LoopStates] /\ shutdown' \in ShutdownType
    BY <1>10, ShutdownLoopType DEF ShutdownProgress, TypeOK
  <2> QED BY <1>10, <2>1 DEF ShutdownProgress, TypeOK
<1>11. CASE ShutdownTimeout
  <2>1. exports' \subseteq ExportType
    BY <1>11 DEF ShutdownTimeout, TypeOK, ExportType
  <2>2. shutdown' \in ShutdownType /\ aborted' \subseteq Controllers
    BY <1>11 DEF ShutdownTimeout, TypeOK, ShutdownType
  <2> QED BY <1>11, <2>1, <2>2 DEF ShutdownTimeout, TypeOK
<1>12. CASE UNCHANGED vars
  BY <1>12 DEF vars, TypeOK
<1> QED BY <1>1, <1>2, <1>3, <1>4, <1>5, <1>6, <1>7, <1>8, <1>9, <1>10, <1>11,
           <1>12 DEF Next

(* The buffer never outgrows its capacity, no export is started with        *)
(* nothing to export, and every field stays in its type.                    *)
THEOREM TypeCorrect == Spec => []TypeOK
BY InitType, NextType, PTL DEF Spec

------------------------------------------------------------------------------
(* The export flag.                                                         *)

(* shutdown may decide from the flag alone that nothing is in flight.       *)
THEOREM FlagExact == Spec => []ExportFlagExact
<1>1. Init => ExportFlagExact
  BY DEF Init, ExportFlagExact
<1>2. ExportFlagExact /\ [Next]_vars => ExportFlagExact'
  <2> SUFFICES ASSUME ExportFlagExact, [Next]_vars PROVE ExportFlagExact'
    OBVIOUS
  <2>1. ASSUME NEW buf, NEW force, NEW caller, NEW isAborted,
               ExportBatches(buf, force, caller, isAborted)
        PROVE  ExportFlagExact'
    BY <2>1 DEF ExportBatches, ExportFlagExact
  <2>2. CASE NoExport
    BY <2>2 DEF NoExport, ExportFlagExact
  <2>3. ASSUME NEW sd, ShutdownLoop(sd) PROVE ExportFlagExact'
    BY <2>1, <2>2, <2>3 DEF ShutdownLoop
  <2>4. CASE AddItem
    BY <2>1, <2>2, <2>4 DEF AddItem
  <2>5. ASSUME NEW e \in exports, SettleExport(e) PROVE ExportFlagExact'
    BY <2>5 DEF SettleExport, ExportFlagExact
  <2>6. ASSUME NEW l \in Loops, TimerFires(l) PROVE ExportFlagExact'
    BY <2>1, <2>2, <2>6 DEF TimerFires
  <2>7. CASE ForceFlush
    BY <2>1, <2>2, <2>7 DEF ForceFlush
  <2>8. ASSUME NEW timed \in BOOLEAN, Shutdown(timed) PROVE ExportFlagExact'
    BY <2>3, <2>8 DEF Shutdown
  <2>9. CASE ShutdownProgress
    BY <2>3, <2>9 DEF ShutdownProgress
  <2>10. CASE ShutdownTimeout
    BY <2>10 DEF ShutdownTimeout, ExportFlagExact
  <2>11. ASSUME UNCHANGED <<exports, exportInProgress>> PROVE ExportFlagExact'
    BY <2>11 DEF ExportFlagExact
  <2> QED
    BY <2>4, <2>5, <2>6, <2>7, <2>8, <2>9, <2>10, <2>11
    DEF Next, vars, Start, RunExportLoop, ForceFlushReturns, ShutdownExported
<1> QED BY <1>1, <1>2, PTL DEF Spec

------------------------------------------------------------------------------
(* Every item is accounted for once, and batches leave in order.  The two   *)
(* need each other: in a buffer out of order an item could be on both sides *)
(* of a cut.                                                                *)

Accounted(buf, flight, done, refused, n) ==
  /\ 1 .. n = refused \cup Elems(buf) \cup flight \cup done
  /\ Elems(buf) \cap (flight \cup done \cup refused) = {}
  /\ flight \cap (done \cup refused) = {}
  /\ done \cap refused = {}
  /\ Increasing(buf)
  /\ \A x \in flight \cup done : \A y \in Elems(buf) : x < y

DisjointBatches ==
  \A e, f \in exports : e # f => Elems(e.batch) \cap Elems(f.batch) = {}

ItemsInv ==
  /\ Accounted(buffer, InFlight, settled, dropped, produced)
  /\ DisjointBatches

LEMMA ItemsInvSuffices == ItemsInv <=> EachItemOnce /\ HandedOffInOrder
BY DEF ItemsInv, Accounted, DisjointBatches, EachItemOnce, HandedOffInOrder

(* An item that joins the buffer is the youngest.                           *)
LEMMA AppendAccounted ==
  ASSUME NEW buf \in Seq(Items), NEW flight, NEW done, NEW refused,
         NEW n \in Nat, n + 1 \in Items,
         Accounted(buf, flight, done, refused, n)
  PROVE  Accounted(Append(buf, n + 1), flight, done, refused, n + 1)
<1>1. \A x \in 1 .. n : x < n + 1
  OBVIOUS
<1>2. 1 .. (n + 1) = (1 .. n) \cup {n + 1} /\ n + 1 \notin 1 .. n
  OBVIOUS
<1>3. /\ Elems(Append(buf, n + 1)) = Elems(buf) \cup {n + 1}
      /\ Increasing(Append(buf, n + 1))
  <2>1. \A y \in Elems(buf) : y < n + 1
    BY <1>1 DEF Accounted
  <2> QED BY <2>1, AppendItem DEF Accounted
<1>4. \A x \in flight \cup done : \A y \in Elems(Append(buf, n + 1)) : x < y
  BY <1>1, <1>3 DEF Accounted
<1> QED BY <1>2, <1>3, <1>4 DEF Accounted

(* A cut moves the older part of the buffer into flight.                    *)
LEMMA CutAccounted ==
  ASSUME NEW buf \in Seq(Items), buf # << >>, NEW force \in BOOLEAN,
         NEW flight, NEW done, NEW refused, NEW n,
         Accounted(buf, flight, done, refused, n)
  PROVE  /\ Elems(Batch(buf, force)) \cap flight = {}
         /\ Accounted(Rest(buf, force), flight \cup Elems(Batch(buf, force)),
                      done, refused, n)
<1> DEFINE B == Elems(Batch(buf, force))
           R == Elems(Rest(buf, force))
<1>1. /\ Elems(buf) = B \cup R
      /\ Increasing(Rest(buf, force))
      /\ \A x \in B : \A y \in R : x < y
  BY CutSplits DEF Accounted
<1>2. B \subseteq Nat /\ B \cap R = {}
  <2>1. Elems(buf) \subseteq Nat
    BY BoundsAssumption DEF Elems, Items
  <2>2. \A x \in Nat : ~(x < x)
    OBVIOUS
  <2> QED BY <1>1, <2>1, <2>2
<1> HIDE DEF B, R
<1>3. B \cap flight = {}
  BY <1>1 DEF Accounted
<1>4. Accounted(Rest(buf, force), flight \cup B, done, refused, n)
  BY <1>1, <1>2 DEF Accounted, R
<1> QED BY <1>3, <1>4 DEF B

(* Handing a batch to the exporter keeps the account.                       *)
LEMMA ExportAccounted ==
  ASSUME NEW buf \in Seq(Items), NEW force \in BOOLEAN, NEW caller, NEW isAborted,
         NEW done, NEW refused, NEW n,
         Accounted(buf, InFlight, done, refused, n), DisjointBatches,
         ExportBatches(buf, force, caller, isAborted)
  PROVE  Accounted(buffer', InFlight', done, refused, n) /\ DisjointBatches'
<1> DEFINE b == Batch(buf, force)
           new == [batch |-> b, caller |-> caller, aborted |-> isAborted]
<1>1. /\ Elems(b) \cap InFlight = {}
      /\ Accounted(Rest(buf, force), InFlight \cup Elems(b), done, refused, n)
  BY CutAccounted DEF ExportBatches
<1>2. /\ buffer' = Rest(buf, force)
      /\ exports' = exports \cup {new}
      /\ new.batch = b
  BY DEF ExportBatches
<1> HIDE DEF b, new
<1>3. InFlight' = InFlight \cup Elems(b)
  BY <1>2 DEF InFlight
<1>4. ASSUME NEW e \in exports', NEW f \in exports', e # f
      PROVE  Elems(e.batch) \cap Elems(f.batch) = {}
  <2>1. \A g \in exports : Elems(g.batch) \subseteq InFlight
    BY DEF InFlight
  <2>2. CASE e \in exports /\ f \in exports
    BY <1>4, <2>2 DEF DisjointBatches
  <2>3. CASE e = new \/ f = new
    BY <1>1, <1>2, <1>4, <2>1, <2>3
  <2> QED BY <1>2, <2>2, <2>3
<1> QED BY <1>1, <1>2, <1>3, <1>4 DEF DisjointBatches

(* A settled batch leaves the exports, and no other holds its items.        *)
LEMMA SettleAccounted ==
  ASSUME ItemsInv, NEW e \in exports, SettleExport(e)
  PROVE  ItemsInv'
<1>1. /\ exports' = exports \ {e}
      /\ settled' = settled \cup Elems(e.batch)
      /\ UNCHANGED <<buffer, dropped, produced>>
  BY DEF SettleExport, WakeCaller
<1>2. /\ InFlight = InFlight' \cup Elems(e.batch)
      /\ InFlight' \cap Elems(e.batch) = {}
  BY <1>1 DEF InFlight, ItemsInv, DisjointBatches
<1>3. Accounted(buffer, InFlight, settled, dropped, produced)
  BY DEF ItemsInv
<1>4. Accounted(buffer', InFlight', settled', dropped', produced')
  BY <1>1, <1>2, <1>3 DEF Accounted
<1>5. DisjointBatches'
  BY <1>1 DEF DisjointBatches, ItemsInv
<1> QED BY <1>4, <1>5 DEF ItemsInv

(* Aborting the exports marks them and keeps their batches.                 *)
LEMMA AbortAccounted ==
  ASSUME TypeOK, ItemsInv, exports' = {[e EXCEPT !.aborted = TRUE] : e \in exports},
         UNCHANGED <<buffer, settled, dropped, produced>>
  PROVE  ItemsInv'
<1> DEFINE Mark(e) == [e EXCEPT !.aborted = TRUE]
<1>1. \A e \in exports : Mark(e).batch = e.batch
  BY DEF TypeOK, ExportType
<1>2. /\ exports' = {Mark(e) : e \in exports}
      /\ Accounted(buffer, InFlight, settled, dropped, produced)
      /\ DisjointBatches
  BY DEF ItemsInv
<1> HIDE DEF Mark
<1>3. InFlight' = InFlight
  <2>1. InFlight' = UNION {Elems(f.batch) : f \in {Mark(e) : e \in exports}}
    BY <1>2 DEF InFlight
  <2>2. {Elems(f.batch) : f \in {Mark(e) : e \in exports}}
          = {Elems(e.batch) : e \in exports}
    BY <1>1
  <2> QED BY <2>1, <2>2 DEF InFlight
<1>4. ASSUME NEW f \in exports', NEW g \in exports', f # g
      PROVE  Elems(f.batch) \cap Elems(g.batch) = {}
  <2>1. PICK d \in exports : f = Mark(d)
    BY <1>2
  <2>2. PICK e \in exports : g = Mark(e)
    BY <1>2
  <2> QED BY <1>1, <1>2, <1>4, <2>1, <2>2 DEF DisjointBatches
<1> QED BY <1>2, <1>3, <1>4 DEF ItemsInv, DisjointBatches

LEMMA UnchangedAccounted ==
  ASSUME ItemsInv, UNCHANGED <<buffer, exports, settled, dropped, produced>>
  PROVE  ItemsInv'
<1>1. InFlight' = InFlight /\ DisjointBatches'
  BY DEF InFlight, DisjointBatches, ItemsInv
<1> QED BY <1>1 DEF ItemsInv

LEMMA ShutdownLoopAccounted ==
  ASSUME TypeOK, ItemsInv, NEW sd, ShutdownLoop(sd),
         UNCHANGED <<settled, dropped, produced>>
  PROVE  ItemsInv'
<1>1. CASE UNCHANGED buffer /\ NoExport
  BY <1>1, UnchangedAccounted DEF NoExport
<1>2. CASE ExportBatches(buffer, TRUE, CallOf("shutdown"), SignalAborted(sd))
  <2>1. Accounted(buffer', InFlight', settled, dropped, produced) /\ DisjointBatches'
    BY <1>2, ExportAccounted DEF ItemsInv, TypeOK
  <2> QED BY <2>1 DEF ItemsInv
<1> QED BY <1>1, <1>2 DEF ShutdownLoop

LEMMA InitItems == Init => ItemsInv
<1> SUFFICES ASSUME Init PROVE ItemsInv
  OBVIOUS
<1>1. /\ InFlight = {} /\ Elems(buffer) = {} /\ Increasing(buffer)
      /\ 1 .. produced = {} /\ settled = {} /\ dropped = {}
  BY DEF Init, InFlight, Elems, Increasing
<1> QED BY <1>1 DEF Init, ItemsInv, Accounted, DisjointBatches

LEMMA NextItems == TypeOK /\ ItemsInv /\ [Next]_vars => ItemsInv'
<1> SUFFICES ASSUME TypeOK, ItemsInv, [Next]_vars PROVE ItemsInv'
  OBVIOUS
<1>1. CASE AddItem
  <2> DEFINE buf == Append(buffer, produced + 1)
  <2>1. /\ produced \in Nat /\ produced + 1 \in Items /\ produced' = produced + 1
        /\ settled' = settled
    BY <1>1, BoundsAssumption DEF AddItem, TypeOK, Items
  <2>2. CASE /\ dropped' = dropped \cup {produced + 1}
             /\ UNCHANGED buffer /\ NoExport
    <3>1. InFlight' = InFlight /\ DisjointBatches'
      BY <2>2 DEF NoExport, InFlight, DisjointBatches, ItemsInv
    <3>2. 1 .. (produced + 1) = (1 .. produced) \cup {produced + 1}
          /\ produced + 1 \notin 1 .. produced
      BY <2>1
    <3>3. Accounted(buffer, InFlight, settled, dropped \cup {produced + 1},
                    produced + 1)
      BY <3>2 DEF Accounted, ItemsInv
    <3> QED BY <2>1, <2>2, <3>1, <3>3 DEF ItemsInv
  <2>3. CASE UNCHANGED dropped /\ ExportBatches(buf, FALSE, CallOf("add"), FALSE)
    <3>1. buf \in Seq(Items)
      BY <2>1 DEF TypeOK
    <3>2. Accounted(buf, InFlight, settled, dropped, produced + 1)
      BY <2>1, AppendAccounted DEF ItemsInv, TypeOK
    <3> HIDE DEF buf
    <3>3. Accounted(buffer', InFlight', settled, dropped, produced + 1)
          /\ DisjointBatches'
      BY <2>3, <3>1, <3>2, ExportAccounted DEF ItemsInv
    <3> QED BY <2>1, <2>3, <3>3 DEF ItemsInv
  <2>4. CASE UNCHANGED dropped /\ buffer' = buf /\ NoExport
    <3>1. InFlight' = InFlight /\ DisjointBatches'
      BY <2>4 DEF NoExport, InFlight, DisjointBatches, ItemsInv
    <3>2. Accounted(buf, InFlight, settled, dropped, produced + 1)
      BY <2>1, AppendAccounted DEF ItemsInv, TypeOK
    <3> QED BY <2>1, <2>4, <3>1, <3>2 DEF ItemsInv
  <2> QED BY <1>1, <2>2, <2>3, <2>4 DEF AddItem
<1>2. ASSUME NEW e \in exports, SettleExport(e) PROVE ItemsInv'
  BY <1>2, SettleAccounted
<1>3. ASSUME NEW l \in Loops, TimerFires(l) PROVE ItemsInv'
  <2>1. CASE UNCHANGED <<buffer, loops>> /\ NoExport
    BY <1>3, <2>1, UnchangedAccounted DEF TimerFires, NoExport
  <2>2. CASE ExportBatches(buffer, FALSE, [by |-> "loop", loop |-> l], FALSE)
    <3>1. Accounted(buffer', InFlight', settled, dropped, produced)
          /\ DisjointBatches'
      BY <2>2, ExportAccounted DEF ItemsInv, TypeOK
    <3> QED BY <1>3, <3>1 DEF TimerFires, ItemsInv
  <2> QED BY <1>3, <2>1, <2>2 DEF TimerFires
<1>4. CASE ForceFlush
  <2>1. CASE UNCHANGED buffer /\ NoExport
    BY <1>4, <2>1, UnchangedAccounted DEF ForceFlush, NoExport
  <2>2. CASE ExportBatches(buffer, TRUE, CallOf("flush"), FALSE)
    <3>1. Accounted(buffer', InFlight', settled, dropped, produced)
          /\ DisjointBatches'
      BY <2>2, ExportAccounted DEF ItemsInv, TypeOK
    <3> QED BY <1>4, <3>1 DEF ForceFlush, ItemsInv
  <2> QED BY <1>4, <2>1, <2>2 DEF ForceFlush
<1>5. ASSUME NEW timed \in BOOLEAN, Shutdown(timed) PROVE ItemsInv'
  BY <1>5, ShutdownLoopAccounted DEF Shutdown
<1>6. CASE ShutdownProgress
  BY <1>6, ShutdownLoopAccounted DEF ShutdownProgress
<1>7. CASE ShutdownTimeout
  BY <1>7, AbortAccounted DEF ShutdownTimeout
<1>8. CASE UNCHANGED <<buffer, exports, settled, dropped, produced>>
  BY <1>8, UnchangedAccounted
<1> QED
  BY <1>1, <1>2, <1>3, <1>4, <1>5, <1>6, <1>7, <1>8
  DEF Next, vars, Start, RunExportLoop, ForceFlushReturns, ShutdownExported

(* No item is lost or sent twice, whoever cuts the batches and however the  *)
(* exports overlap.                                                         *)
THEOREM ItemsOnce == Spec => []EachItemOnce
BY InitType, NextType, InitItems, NextItems, ItemsInvSuffices, PTL DEF Spec

(* Batches leave in arrival order.                                          *)
THEOREM InOrder == Spec => []HandedOffInOrder
BY InitType, NextType, InitItems, NextItems, ItemsInvSuffices, PTL DEF Spec

(* Each item is handed on once, in arrival order.                           *)
THEOREM OnceInOrder == Spec => []HandedOffOnceInOrder
BY ItemsOnce, InOrder, PTL DEF HandedOffOnceInOrder

------------------------------------------------------------------------------
(* forceFlush: every item it answers for is settled, or in a batch in       *)
(* flight that it awaits.                                                   *)

CoveredByFlush(i) ==
  \/ i \in settled
  \/ \E e \in exports : e.batch \in flush.awaited /\ i \in Elems(e.batch)

FlushInv ==
  flush.at = "waiting" => \A i \in Accepted(flush.mark) : CoveredByFlush(i)

LEMMA NextFlush == TypeOK /\ ItemsInv /\ FlushInv /\ [Next]_vars => FlushInv'
<1> SUFFICES ASSUME TypeOK, ItemsInv, FlushInv, [Next]_vars PROVE FlushInv'
  OBVIOUS
<1>1. CASE ForceFlush
  <2> SUFFICES ASSUME NEW i \in Accepted(produced) PROVE CoveredByFlush(i)'
    BY <1>1 DEF ForceFlush, FlushInv, Accepted
  <2>1. flush'.awaited = Awaited /\ settled' = settled /\ exports \subseteq exports'
    BY <1>1 DEF ForceFlush, ExportBatches, NoExport
  <2>2. i \in settled \/ i \in InFlight \/ i \in Elems(buffer)
    BY DEF Accepted, ItemsInv, Accounted
  <2>3. CASE i \in settled
    BY <2>1, <2>3 DEF CoveredByFlush
  <2>4. CASE i \in InFlight
    <3>1. PICK e \in exports : i \in Elems(e.batch)
      BY <2>4 DEF InFlight
    <3>2. e \in exports' /\ e.batch \in flush'.awaited
      BY <2>1 DEF Awaited
    <3> QED BY <3>1, <3>2 DEF CoveredByFlush
  <2>5. CASE i \in Elems(buffer)
    <3>1. buffer # << >>
      BY <2>5 DEF Elems
    <3>2. ExportBatches(buffer, TRUE, CallOf("flush"), FALSE)
      BY <1>1, <3>1 DEF ForceFlush
    <3>3. PICK e \in exports' : e.batch = buffer
      <4> DEFINE new == [batch |-> buffer, caller |-> CallOf("flush"),
                         aborted |-> FALSE]
      <4>1. Batch(buffer, TRUE) = buffer
        BY DEF Batch
      <4>2. new \in exports' /\ new.batch = buffer
        BY <3>2, <4>1 DEF ExportBatches
      <4> QED BY <4>2
    <3>4. e.batch \in flush'.awaited
      BY <2>1, <3>1, <3>3 DEF Awaited
    <3> QED BY <2>5, <3>3, <3>4 DEF CoveredByFlush
  <2> QED BY <2>2, <2>3, <2>4, <2>5
<1>2. ASSUME flush' = flush, dropped \subseteq dropped', settled \subseteq settled',
             \A e \in exports : (\E f \in exports' : f.batch = e.batch)
                                  \/ Elems(e.batch) \subseteq settled'
      PROVE  FlushInv'
  <2> SUFFICES ASSUME flush.at = "waiting", NEW i \in Accepted(flush.mark)'
               PROVE  CoveredByFlush(i)'
    BY <1>2 DEF FlushInv
  <2>1. CoveredByFlush(i)
    BY <1>2 DEF Accepted, FlushInv
  <2> QED BY <1>2, <2>1 DEF CoveredByFlush
<1>3. ASSUME NEW buf, NEW force, NEW caller, NEW isAborted,
             ExportBatches(buf, force, caller, isAborted)
      PROVE  exports \subseteq exports'
  BY <1>3 DEF ExportBatches
<1>4. NoExport => exports \subseteq exports'
  BY DEF NoExport
<1>5. ASSUME NEW sd, ShutdownLoop(sd) PROVE exports \subseteq exports'
  BY <1>3, <1>4, <1>5 DEF ShutdownLoop
<1>6. CASE AddItem
  <2>1. exports \subseteq exports' /\ dropped \subseteq dropped'
    BY <1>3, <1>4, <1>6 DEF AddItem
  <2> QED BY <1>2, <1>6, <2>1 DEF AddItem
<1>7. ASSUME NEW e \in exports, SettleExport(e) PROVE FlushInv'
  BY <1>2, <1>7 DEF SettleExport, WakeCaller
<1>8. ASSUME NEW l \in Loops, TimerFires(l) PROVE FlushInv'
  <2>1. exports \subseteq exports'
    BY <1>3, <1>4, <1>8 DEF TimerFires
  <2> QED BY <1>2, <1>8, <2>1 DEF TimerFires
<1>9. CASE ForceFlushReturns
  BY <1>9 DEF ForceFlushReturns, FlushInv
<1>10. ASSUME NEW timed \in BOOLEAN, Shutdown(timed) PROVE FlushInv'
  <2>1. exports \subseteq exports'
    BY <1>5, <1>10 DEF Shutdown
  <2> QED BY <1>2, <1>10, <2>1 DEF Shutdown
<1>11. CASE ShutdownProgress
  <2>1. exports \subseteq exports'
    BY <1>5, <1>11 DEF ShutdownProgress
  <2> QED BY <1>2, <1>11, <2>1 DEF ShutdownProgress
<1>12. CASE ShutdownTimeout
  <2>1. \A e \in exports : [e EXCEPT !.aborted = TRUE].batch = e.batch
    BY DEF TypeOK, ExportType
  <2> QED BY <1>2, <1>12, <2>1 DEF ShutdownTimeout
<1>13. CASE UNCHANGED <<exports, settled, dropped, flush>>
  BY <1>2, <1>13
<1> QED
  BY <1>1, <1>6, <1>7, <1>8, <1>9, <1>10, <1>11, <1>12, <1>13
  DEF Next, vars, Start, RunExportLoop, ShutdownExported

(* forceFlush returns when all it was asked to flush is out.                *)
THEOREM FlushComplete == Spec => FlushIsComplete
<1>1. Init => FlushInv
  BY DEF Init, FlushInv
<1>2. FlushInv /\ [Next]_vars
        => [flush.at = "waiting" /\ flush'.at = "idle"
              => Accepted(flush.mark) \subseteq settled]_vars
  <2> SUFFICES ASSUME FlushInv, Next, flush.at = "waiting", flush'.at = "idle"
               PROVE  Accepted(flush.mark) \subseteq settled
    BY DEF vars
  <2>1. flush' # flush
    OBVIOUS
  <2>2. ForceFlushReturns
    BY <2>1 DEF Next, AddItem, SettleExport, WakeCaller, Start, TimerFires,
      RunExportLoop, ForceFlush, Shutdown, ShutdownExported, ShutdownProgress,
      ShutdownTimeout
  <2> QED BY <2>2 DEF ForceFlushReturns, FlushInv, CoveredByFlush
<1> QED
  BY <1>1, <1>2, InitType, NextType, InitItems, NextItems, NextFlush, PTL
  DEF Spec, FlushIsComplete

------------------------------------------------------------------------------
(* shutdown: without a timeout there is no signal to abort, and the loop is *)
(* left only when nothing is buffered and nothing is in flight.             *)

ShutdownInv ==
  /\ 0 \notin aborted
  /\ shutdown.deadline = "armed" => shutdown.signal # 0
  /\ shutdown.mark <= produced

ReturnsComplete(sd) ==
  sd.at = "returned" /\ sd.signal = 0 => Accepted(sd.mark) \subseteq settled

LEMMA ShutdownLoopComplete ==
  ASSUME TypeOK, ItemsInv, ExportFlagExact, 0 \notin aborted,
         NEW sd \in ShutdownType, sd.mark <= produced,
         sd.deadline = "armed" => sd.signal # 0,
         sd.at # "returned",
         ShutdownLoop(sd)
  PROVE  /\ shutdown'.mark = sd.mark /\ shutdown'.signal = sd.signal
         /\ shutdown'.deadline = "armed" => shutdown'.signal # 0
         /\ ReturnsComplete(shutdown')
<1>1. CASE buffer = << >> /\ ~exportInProgress /\ ShutdownReturns(sd)
  <2>1. Elems(buffer) = {} /\ InFlight = {}
    BY <1>1 DEF Elems, InFlight, ExportFlagExact
  <2>2. 1 .. produced \subseteq dropped \cup settled
    BY <2>1 DEF ItemsInv, Accounted
  <2>3. 1 .. sd.mark \subseteq 1 .. produced
    BY BoundsAssumption DEF TypeOK, ShutdownType
  <2> QED BY <1>1, <2>2, <2>3 DEF ShutdownReturns, ShutdownType, ReturnsComplete, Accepted
<1>2. CASE shutdown' = [sd EXCEPT !.at = "exporting"]
  BY <1>2 DEF ShutdownType, ReturnsComplete
<1>3. CASE BreakOrWait(sd)
  <2>1. CASE SignalAborted(sd) /\ ShutdownReturns(sd)
    BY <2>1 DEF SignalAborted, ShutdownReturns, ShutdownType, ReturnsComplete
  <2>2. CASE shutdown' = [sd EXCEPT !.at = "waiting"]
    BY <2>2 DEF ShutdownType, ReturnsComplete
  <2> QED BY <1>3, <2>1, <2>2 DEF BreakOrWait
<1> QED BY <1>1, <1>2, <1>3 DEF ShutdownLoop

LEMMA NextShutdown ==
  ASSUME TypeOK, ItemsInv, ExportFlagExact, ShutdownInv, [Next]_vars
  PROVE  /\ ShutdownInv'
         /\ shutdown' # shutdown => ReturnsComplete(shutdown')
<1>1. ASSUME NEW timed \in BOOLEAN, Shutdown(timed)
      PROVE  ShutdownInv' /\ ReturnsComplete(shutdown')
  <2> DEFINE signal == IF ~timed THEN 0
                       ELSE IF controller = 0 THEN MaxStarts + 1 ELSE controller
             sd == [at |-> "idle", signal |-> signal,
                    deadline |-> IF timed THEN "armed" ELSE "off",
                    mark |-> produced, calls |-> shutdown.calls + 1]
  <2>1. signal \in Controllers /\ (timed => signal # 0)
    BY BoundsAssumption DEF Controllers, TypeOK
  <2>2. shutdown.calls + 1 \in 0 .. MaxShutdowns
    BY <1>1, BoundsAssumption DEF Shutdown, TypeOK, ShutdownType
  <2> HIDE DEF signal
  <2>3. /\ sd \in ShutdownType /\ sd.mark <= produced /\ sd.at # "returned"
        /\ sd.deadline = "armed" => sd.signal # 0
        /\ sd.mark = produced
    BY <2>1, <2>2 DEF ShutdownType, TypeOK
  <2>4. ShutdownLoop(sd) /\ UNCHANGED <<aborted, produced>>
    BY <1>1 DEF Shutdown, signal
  <2> HIDE DEF sd
  <2>5. /\ shutdown'.mark = sd.mark /\ shutdown'.signal = sd.signal
        /\ shutdown'.deadline = "armed" => shutdown'.signal # 0
        /\ ReturnsComplete(shutdown')
    BY <2>3, <2>4, ShutdownLoopComplete DEF ShutdownInv
  <2> QED BY <2>3, <2>4, <2>5 DEF ShutdownInv
<1>2. CASE ShutdownProgress
  <2>1. /\ shutdown'.mark = shutdown.mark /\ shutdown'.signal = shutdown.signal
        /\ shutdown'.deadline = "armed" => shutdown'.signal # 0
        /\ ReturnsComplete(shutdown')
    BY <1>2, ShutdownLoopComplete DEF ShutdownProgress, ShutdownInv, TypeOK
  <2> QED BY <1>2, <2>1 DEF ShutdownProgress, ShutdownInv
<1>3. CASE ShutdownExported
  <2>1. CASE SignalAborted(shutdown) /\ ShutdownReturns(shutdown)
    <3>1. shutdown.signal # 0
      BY <2>1 DEF SignalAborted, ShutdownInv
    <3> QED BY <1>3, <2>1, <3>1 DEF ShutdownExported, ShutdownReturns, ShutdownInv,
              ReturnsComplete, TypeOK, ShutdownType
  <2>2. CASE shutdown' = [shutdown EXCEPT !.at = "waiting"]
    BY <1>3, <2>2 DEF ShutdownExported, ShutdownInv, ReturnsComplete, TypeOK,
      ShutdownType
  <2> QED BY <1>3, <2>1, <2>2 DEF ShutdownExported, BreakOrWait
<1>4. CASE ShutdownTimeout
  BY <1>4 DEF ShutdownTimeout, ShutdownInv, ReturnsComplete, TypeOK, ShutdownType
<1>5. ASSUME NEW e \in exports, SettleExport(e)
      PROVE  ShutdownInv' /\ (shutdown' # shutdown => ReturnsComplete(shutdown'))
  BY <1>5 DEF SettleExport, WakeCaller, ShutdownInv, ReturnsComplete, TypeOK,
    ShutdownType
<1>6. CASE AddItem
  <2>1. UNCHANGED <<aborted, shutdown>> /\ produced' = produced + 1
    BY <1>6 DEF AddItem
  <2> QED BY <2>1, BoundsAssumption DEF ShutdownInv, TypeOK, ShutdownType
<1>7. CASE UNCHANGED <<aborted, shutdown, produced>>
  BY <1>7 DEF ShutdownInv
<1> QED
  BY <1>1, <1>2, <1>3, <1>4, <1>5, <1>6, <1>7
  DEF Next, vars, Start, TimerFires, RunExportLoop, ForceFlush, ForceFlushReturns

(* shutdown() returns when everything accepted before it is out.            *)
THEOREM ShutdownComplete == Spec => ShutdownIsComplete
<1>1. Init => ShutdownInv
  BY BoundsAssumption DEF Init, ShutdownInv
<1>2. TypeOK /\ ItemsInv /\ ExportFlagExact /\ ShutdownInv /\ [Next]_vars
        => /\ ShutdownInv'
           /\ [shutdown'.at = "returned" /\ shutdown' # shutdown
                 /\ shutdown'.signal = 0
                 => Accepted(shutdown'.mark) \subseteq settled']_vars
  <2> SUFFICES ASSUME TypeOK, ItemsInv, ExportFlagExact, ShutdownInv, [Next]_vars
               PROVE  /\ ShutdownInv'
                      /\ shutdown'.at = "returned" /\ shutdown' # shutdown
                           /\ shutdown'.signal = 0
                           => Accepted(shutdown'.mark) \subseteq settled'
    OBVIOUS
  <2>1. settled \subseteq settled'
    BY DEF Next, vars, AddItem, SettleExport, WakeCaller, Start, TimerFires,
      RunExportLoop, ForceFlush, ForceFlushReturns, Shutdown, ShutdownExported,
      ShutdownProgress, ShutdownTimeout
  <2> QED BY <2>1, NextShutdown DEF ReturnsComplete
<1> QED
  BY <1>1, <1>2, InitType, NextType, InitItems, NextItems, FlagExact, PTL
  DEF Spec, ShutdownIsComplete

(* No caller that waits for the items is told too early.                    *)
THEOREM NobodyMisled == Spec => WaitersAreNotMisled
BY FlushComplete, ShutdownComplete DEF WaitersAreNotMisled
=============================================================================
