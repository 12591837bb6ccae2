-------------------------- MODULE StreamedRun_proofs --------------------------
(***************************************************************************)
(* Proofs about the streamed run: it implements EventDelivery, and what it *)
(* says of guardrails, final outputs, staged input and the session holds   *)
(* for every number of turns, runs, inputs and events.                     *)
(*                                                                         *)
(* The first part is about the stream alone: what each of its operations   *)
(* does to a stream in good order, whatever the loop is doing.             *)
(***************************************************************************)
EXTENDS StreamedRun, SequenceTheorems, TLAPS

(* An open stream has exactly what was emitted, in the reader's hands or    *)
(* queued, in order.                                                        *)
Contiguous(s) ==
  s.end = "open" =>
    /\ Len(s.received) + Len(s.queue) = s.emitted
    /\ \A i \in 1 .. Len(s.queue) : s.queue[i] = Len(s.received) + i

(* A reader waits only on an empty queue that is not over.                  *)
ReaderWaits(s) == s.wanted => s.queue = <<>> /\ s.terminal = "none"

(* What ends a stream: its end is announced or it is cancelled.             *)
EndInOrder(s) ==
  /\ s.terminal = "none" => s.end = "open"
  /\ s.cancelled => s.end # "open"
  /\ s.completed = "pending" /\ ~s.cancelled => s.terminal = "none"

StreamInv(s) ==
  /\ s \in StreamTypes
  /\ Contiguous(s)
  /\ ReaderWaits(s)
  /\ EndInOrder(s)

Ended(s) == IF s.cancelled THEN "cancelled" ELSE s.end

SameDelivery(s, t) ==
  t.emitted = s.emitted /\ t.received = s.received /\ Ended(t) = Ended(s)

(* The steps of EventDelivery, on streams.                                  *)
Emits(s, t) ==
  /\ Ended(s) = "open"
  /\ t.emitted > s.emitted
  /\ t.received \in {s.received, Append(s.received, Len(s.received) + 1)}
  /\ Len(t.received) <= t.emitted
  /\ Ended(t) = Ended(s)

Receives(s, t) ==
  /\ Ended(s) = "open"
  /\ Len(s.received) < s.emitted
  /\ t.received = Append(s.received, Len(s.received) + 1)
  /\ t.emitted = s.emitted
  /\ Ended(t) = Ended(s)

Ends(s, t) ==
  /\ Ended(s) = "open"
  /\ \/ Ended(t) = "done" /\ Len(s.received) = s.emitted
     \/ Ended(t) = "error"
     \/ Ended(t) = "cancelled"
  /\ t.emitted = s.emitted
  /\ t.received = s.received

(* What one operation may do to a stream.                                   *)
Delivers(s, t) ==
  SameDelivery(s, t) \/ Emits(s, t) \/ Receives(s, t) \/ Ends(s, t)

------------------------------------------------------------------------------
(* Giving the reader who waits the head of the queue.                       *)
LEMMA HeadReceived ==
  ASSUME NEW s, s \in StreamTypes, Contiguous(s), s.end = "open",
         s.queue # <<>>
  PROVE  LET t == [s EXCEPT !.queue = Tail(@), !.wanted = FALSE,
                            !.received = Append(@, Head(s.queue))]
         IN  /\ t \in StreamTypes
             /\ Contiguous(t)
             /\ t.received = Append(s.received, Len(s.received) + 1)
             /\ Len(s.received) < s.emitted
             /\ Len(t.received) = Len(s.received) + 1
<1> DEFINE q == s.queue
           r == s.received
           t == [s EXCEPT !.queue = Tail(@), !.wanted = FALSE,
                          !.received = Append(@, Head(s.queue))]
<1>1. q \in Seq(Nat) /\ r \in Seq(Nat) /\ s.emitted \in Nat
  BY DEF StreamTypes
<1>2. Len(q) \in Nat /\ Len(r) \in Nat /\ Len(q) > 0
  BY <1>1, EmptySeq, LenProperties
<1>3. Head(q) = q[1] /\ Head(q) \in Nat
  BY <1>1, HeadTailProperties, ElementOfSeq, <1>2
<1>4. /\ Tail(q) \in Seq(Nat) /\ Len(Tail(q)) = Len(q) - 1
      /\ \A i \in 1 .. Len(Tail(q)) : Tail(q)[i] = q[i + 1]
  BY <1>1, <1>2, HeadTailProperties
<1>5. Len(r) + Len(q) = s.emitted /\ \A i \in 1 .. Len(q) : q[i] = Len(r) + i
  BY DEF Contiguous
<1>6. Head(q) = Len(r) + 1
  BY <1>2, <1>3, <1>5
<1>7. Append(r, Head(q)) \in Seq(Nat) /\ Len(Append(r, Head(q))) = Len(r) + 1
  BY <1>1, <1>3, AppendProperties
<1>8. /\ t.queue = Tail(q) /\ t.received = Append(r, Head(q))
      /\ t.emitted = s.emitted /\ t.end = s.end
      /\ t \in StreamTypes
  BY <1>4, <1>7 DEF StreamTypes
<1> HIDE DEF t, q, r
<1>9. Len(t.received) + Len(t.queue) = t.emitted
  BY <1>2, <1>4, <1>5, <1>7, <1>8
<1>10. ASSUME NEW i \in 1 .. Len(t.queue)
       PROVE  t.queue[i] = Len(t.received) + i
  <2>1. t.queue[i] = q[i + 1] /\ i + 1 \in 1 .. Len(q) /\ i \in Nat
    BY <1>2, <1>4, <1>8
  <2> QED BY <2>1, <1>2, <1>5, <1>7, <1>8
<1>11. Contiguous(t)
  BY <1>9, <1>10 DEF Contiguous
<1>12. /\ t \in StreamTypes
       /\ Contiguous(t)
       /\ t.received = Append(r, Len(r) + 1)
       /\ Len(r) < s.emitted
       /\ Len(t.received) = Len(r) + 1
  BY <1>2, <1>5, <1>6, <1>7, <1>8, <1>11
<1> QED BY <1>12 DEF t, r

(* Serving a reader: it receives the head of the queue, or learns the end   *)
(* of a stream that is over, or goes on waiting.                            *)
LEMMA Drained ==
  ASSUME NEW s, s \in StreamTypes, Contiguous(s)
  PROVE  LET d == DrainStreamQueue(s)
         IN  /\ d \in StreamTypes
             /\ Contiguous(d)
             /\ d.emitted = s.emitted /\ d.terminal = s.terminal
             /\ d.keep = s.keep /\ d.cancelled = s.cancelled
             /\ d.completed = s.completed /\ d.hidden = s.hidden
             /\ d.turn = s.turn
             /\ s.end # "open" \/ ~s.wanted => d = s
             /\ s.end = "open" /\ s.wanted /\ s.queue # <<>> =>
                  /\ d.received = Append(s.received, Len(s.received) + 1)
                  /\ Len(s.received) < s.emitted
                  /\ Len(d.received) = Len(s.received) + 1
                  /\ ~d.wanted /\ d.end = "open"
             /\ s.end = "open" /\ s.wanted /\ s.queue = <<>>
                  /\ s.terminal # "none" =>
                  /\ d.received = s.received /\ Len(s.received) = s.emitted
                  /\ ~d.wanted /\ d.end = s.terminal
             /\ s.end = "open" /\ s.wanted /\ s.queue = <<>>
                  /\ s.terminal = "none" => d = s
<1> DEFINE d == DrainStreamQueue(s)
<1>1. CASE s.end # "open" \/ ~s.wanted
  <2>1. d = s
    BY <1>1 DEF DrainStreamQueue
  <2> QED BY <2>1, <1>1
<1>2. CASE s.end = "open" /\ s.wanted /\ s.queue # <<>>
  <2>1. d = [s EXCEPT !.queue = Tail(@), !.wanted = FALSE,
                      !.received = Append(@, Head(s.queue))]
    BY <1>2 DEF DrainStreamQueue
  <2>2. /\ d.emitted = s.emitted /\ d.terminal = s.terminal
        /\ d.keep = s.keep /\ d.cancelled = s.cancelled
        /\ d.completed = s.completed /\ d.hidden = s.hidden
        /\ d.turn = s.turn /\ d.wanted = FALSE /\ d.end = "open"
    BY <2>1, <1>2 DEF StreamTypes
  <2>3. /\ d \in StreamTypes /\ Contiguous(d)
        /\ d.received = Append(s.received, Len(s.received) + 1)
        /\ Len(s.received) < s.emitted
        /\ Len(d.received) = Len(s.received) + 1
    BY <2>1, <1>2, HeadReceived
  <2> HIDE DEF d
  <2>4. QED BY <1>2, <2>2, <2>3 DEF d
<1>3. CASE s.end = "open" /\ s.wanted /\ s.queue = <<>> /\ s.terminal # "none"
  <2>1. d = [s EXCEPT !.wanted = FALSE, !.end = s.terminal]
    BY <1>3 DEF DrainStreamQueue
  <2>2. /\ d.emitted = s.emitted /\ d.terminal = s.terminal
        /\ d.keep = s.keep /\ d.cancelled = s.cancelled
        /\ d.completed = s.completed /\ d.hidden = s.hidden
        /\ d.turn = s.turn /\ d.wanted = FALSE /\ d.end = s.terminal
        /\ d.received = s.received /\ d.queue = s.queue
        /\ d \in StreamTypes
    BY <2>1, <1>3 DEF StreamTypes
  <2>3. Len(s.received) + Len(s.queue) = s.emitted
    BY <1>3 DEF Contiguous
  <2>4. Len(s.received) = s.emitted
    <3>1. Len(s.queue) = 0 /\ s.received \in Seq(Nat)
      BY <1>3, EmptySeq DEF StreamTypes
    <3>2. Len(s.received) \in Nat
      BY <3>1, LenProperties
    <3> QED BY <3>1, <3>2, <2>3
  <2>5. Contiguous(d)
    BY <2>2, <1>3 DEF Contiguous
  <2> HIDE DEF d
  <2>6. QED BY <1>3, <2>2, <2>4, <2>5 DEF d
<1>4. CASE s.end = "open" /\ s.wanted /\ s.queue = <<>> /\ s.terminal = "none"
  <2>1. d = s
    BY <1>4 DEF DrainStreamQueue
  <2> QED BY <2>1, <1>4
<1>5. s.wanted \in BOOLEAN
  BY DEF StreamTypes
<1> HIDE DEF d
<1> QED BY <1>1, <1>2, <1>3, <1>4, <1>5 DEF d

------------------------------------------------------------------------------
(* The operations of StreamedRunResult.                                     *)
Shown(s, t) == t.hidden = s.hidden

(* A new stream is empty and open.                                          *)
LEMMA NewStreamOK ==
  ASSUME NEW n \in Nat, NEW h \in BOOLEAN
  PROVE  LET t == NewStream(n, h)
         IN  StreamInv(t) /\ t.emitted = 0 /\ t.received = <<>>
               /\ t.end = "open" /\ t.hidden = h /\ ~t.cancelled
<1> DEFINE t == NewStream(n, h)
<1>1. <<>> \in Seq(Nat) /\ Len(<<>>) = 0
  BY EmptySeq
<1>2. t \in StreamTypes
  BY <1>1 DEF NewStream, StreamTypes
<1>3. /\ t.emitted = 0 /\ t.received = <<>> /\ t.queue = <<>>
      /\ t.end = "open" /\ t.hidden = h /\ ~t.cancelled
      /\ ~t.wanted /\ t.terminal = "none"
  BY DEF NewStream
<1> HIDE DEF t
<1>4. Contiguous(t) /\ ReaderWaits(t) /\ EndInOrder(t)
  BY <1>1, <1>3 DEF Contiguous, ReaderWaits, EndInOrder
<1> QED BY <1>2, <1>3, <1>4 DEF t, StreamInv

(* Items are queued behind the others, and the reader who waits gets the    *)
(* first; a stream that is over takes none.                                 *)
LEMMA AddItemsOK ==
  ASSUME NEW s, StreamInv(s), NEW n \in 0 .. 2
  PROVE  LET t == AddItems(s, n)
         IN  /\ StreamInv(t) /\ Delivers(s, t) /\ Shown(s, t)
             /\ t.cancelled = s.cancelled
             /\ t.terminal = s.terminal
             /\ ~s.cancelled /\ n > 0 => ~t.wanted
<1> DEFINE t == AddItems(s, n)
           a == [s EXCEPT !.emitted = @ + n,
                          !.queue   = @ \o [i \in 1 .. n |-> s.emitted + i]]
<1>1. s \in StreamTypes /\ Contiguous(s) /\ ReaderWaits(s) /\ EndInOrder(s)
  BY DEF StreamInv
<1>2. CASE s.cancelled \/ s.terminal # "none"
  <2>1. t = s
    BY <1>2 DEF AddItems
  <2>2. ~s.cancelled => ~s.wanted
    BY <1>1, <1>2 DEF ReaderWaits
  <2> QED BY <2>1, <2>2 DEF Delivers, SameDelivery, Shown
<1>3. CASE ~(s.cancelled \/ s.terminal # "none")
  <2> DEFINE e == [i \in 1 .. n |-> s.emitted + i]
             q == s.queue
             r == s.received
  <2>1. /\ s.end = "open" /\ q \in Seq(Nat) /\ r \in Seq(Nat)
        /\ s.emitted \in Nat
    BY <1>1, <1>3 DEF EndInOrder, StreamTypes
  <2>2. n \in Nat /\ \A i \in 1 .. n : s.emitted + i \in Nat
    BY <2>1
  <2>3. e \in Seq(Nat) /\ Len(e) = n
    BY <2>2
  <2>4. q \o e \in Seq(Nat) /\ Len(q \o e) = Len(q) + n
    BY <2>1, <2>3, ConcatProperties
  <2>5. /\ a.queue = q \o e /\ a.emitted = s.emitted + n
        /\ a.received = r /\ a.wanted = s.wanted /\ a.terminal = s.terminal
        /\ a.keep = s.keep /\ a.end = "open" /\ a.cancelled = s.cancelled
        /\ a.completed = s.completed /\ a.hidden = s.hidden
        /\ a.turn = s.turn
        /\ a \in StreamTypes
    <3> HIDE DEF e
    <3>1. s.emitted + n \in Nat
      BY <2>1, <2>2
    <3> QED BY <1>1, <2>1, <2>4, <3>1 DEF StreamTypes, e
  <2>6. Len(q) \in Nat /\ Len(r) \in Nat
    BY <2>1, LenProperties
  <2>7. Len(r) + Len(q) = s.emitted /\ \A i \in 1 .. Len(q) : q[i] = Len(r) + i
    BY <1>1, <2>1 DEF Contiguous
  <2>8. ASSUME NEW i \in 1 .. Len(q \o e)
        PROVE  (q \o e)[i] = Len(r) + i
    <3>1. CASE i <= Len(q)
      <4>1. (q \o e)[i] = q[i] /\ i \in 1 .. Len(q)
        BY <2>1, <2>3, <2>4, <2>6, <3>1, ConcatProperties
      <4> QED BY <4>1, <2>7
    <3>2. CASE i > Len(q)
      <4>1. i \in Nat /\ i - Len(q) \in 1 .. n
        BY <2>2, <2>4, <2>6, <3>2
      <4>2. (q \o e)[i] = e[i - Len(q)]
        BY <2>1, <2>3, <2>4, <2>6, <3>2, <4>1, ConcatProperties
      <4>3. e[i - Len(q)] = s.emitted + (i - Len(q))
        BY <4>1
      <4> HIDE DEF e, q, r
      <4> QED BY <2>1, <2>6, <2>7, <4>1, <4>2, <4>3
    <3> QED BY <2>4, <2>6, <3>1, <3>2
  <2> HIDE DEF a, e, q, r
  <2>9. Contiguous(a)
    <3>1. Len(a.received) + Len(a.queue) = a.emitted
      BY <2>1, <2>2, <2>4, <2>5, <2>6, <2>7
    <3> QED BY <2>5, <2>8, <3>1 DEF Contiguous
  <2>10. t = DrainStreamQueue(a)
    BY <1>3 DEF AddItems, a, e
  <2>11. s.wanted => a.queue = <<>> \/ n > 0
    <3>1. CASE n = 0
      <4>1. s.wanted => Len(q \o e) = 0
        BY <1>1, <2>3, <2>4, <3>1, EmptySeq DEF ReaderWaits, q
      <4> QED BY <4>1, <2>4, <2>5, EmptySeq
    <3> QED BY <2>2, <3>1
  <2>12. n > 0 => a.queue # <<>>
    <3>1. n > 0 => Len(a.queue) > 0
      BY <2>2, <2>4, <2>5, <2>6
    <3> QED BY <3>1, EmptySeq
  <2>13. CASE ~s.wanted \/ n = 0
    <3>1. t = a
      BY <2>2, <2>5, <2>9, <2>10, <2>11, <2>13, <1>3, Drained
    <3>2. t \in StreamTypes /\ Contiguous(t) /\ EndInOrder(t) /\ Shown(s, t)
      BY <1>1, <2>1, <2>5, <2>9, <3>1 DEF EndInOrder, Shown
    <3>3. ReaderWaits(t)
      BY <1>1, <2>2, <2>5, <2>11, <2>13, <3>1 DEF ReaderWaits
    <3>4. Delivers(s, t)
      <4>1. Ended(t) = Ended(s) /\ Ended(s) = "open"
        BY <1>3, <2>1, <2>5, <3>1 DEF Ended
      <4>2. CASE n = 0
        BY <2>1, <2>5, <3>1, <4>1, <4>2 DEF Delivers, SameDelivery, r
      <4>3. CASE n > 0
        <5>1. t.emitted > s.emitted /\ Len(t.received) <= t.emitted
          <6>1. t.emitted = s.emitted + n /\ t.received = r
            BY <2>5, <3>1
          <6> HIDE DEF t
          <6> QED BY <2>1, <2>2, <2>6, <2>7, <4>3, <6>1
        <5> QED BY <2>5, <3>1, <4>1, <5>1 DEF Delivers, Emits, r
      <4> QED BY <2>2, <4>2, <4>3
    <3>5. n > 0 => ~t.wanted
      BY <2>2, <2>5, <2>13, <3>1
    <3> QED BY <2>5, <3>1, <3>2, <3>3, <3>4, <3>5 DEF StreamInv
  <2>14. CASE s.wanted /\ n > 0
    <3>1. /\ t \in StreamTypes /\ Contiguous(t)
          /\ t.emitted = a.emitted /\ t.terminal = a.terminal
          /\ t.cancelled = a.cancelled /\ t.completed = a.completed
          /\ t.hidden = a.hidden
          /\ t.received = Append(r, Len(r) + 1)
          /\ Len(r) < a.emitted /\ Len(t.received) = Len(r) + 1
          /\ ~t.wanted /\ t.end = "open"
      <4>1. a \in StreamTypes /\ Contiguous(a) /\ a.end = "open" /\ a.wanted
              /\ a.queue # <<>>
        BY <2>5, <2>9, <2>12, <2>14
      <4> HIDE DEF t
      <4> QED BY <4>1, <2>5, <2>10, Drained
    <3> HIDE DEF t
    <3>2. EndInOrder(t) /\ ReaderWaits(t) /\ Shown(s, t)
      BY <1>1, <2>1, <2>5, <3>1 DEF EndInOrder, ReaderWaits, Shown
    <3>3. Ended(t) = Ended(s) /\ Ended(s) = "open"
      BY <1>3, <2>1, <2>5, <3>1 DEF Ended
    <3>4. t.emitted > s.emitted /\ Len(t.received) <= t.emitted
      BY <2>1, <2>2, <2>5, <2>6, <2>7, <2>14, <3>1
    <3>5. Emits(s, t)
      BY <3>1, <3>3, <3>4 DEF Emits, r
    <3>6. StreamInv(t) /\ Delivers(s, t)
      BY <3>1, <3>2, <3>5 DEF StreamInv, Delivers
    <3> QED BY <2>5, <3>1, <3>2, <3>6 DEF t
  <2>15. s.wanted \in BOOLEAN
    BY <1>1 DEF StreamTypes
  <2> HIDE DEF t
  <2> QED BY <2>2, <2>13, <2>14, <2>15 DEF t
<1> HIDE DEF t
<1> QED BY <1>2, <1>3 DEF t

(* Announcing an end: the reader who waits learns it, the others find it    *)
(* behind what is queued.                                                   *)
LEMMA EndAnnounced ==
  ASSUME NEW s, StreamInv(s), ~s.cancelled, NEW e \in {"done", "error"},
         NEW how \in {"resolved", "rejected"}
  PROVE  LET t == Settle(DrainStreamQueue([s EXCEPT !.terminal = e]), how)
         IN  StreamInv(t) /\ Delivers(s, t) /\ Shown(s, t)
               /\ t.emitted = s.emitted /\ t.completed # "pending"
<1> DEFINE a == [s EXCEPT !.terminal = e]
           d == DrainStreamQueue(a)
           t == Settle(d, how)
<1>1. s \in StreamTypes /\ Contiguous(s) /\ ReaderWaits(s) /\ EndInOrder(s)
  BY DEF StreamInv
<1>2. /\ a \in StreamTypes /\ a.terminal = e
      /\ a.queue = s.queue /\ a.emitted = s.emitted
      /\ a.received = s.received /\ a.wanted = s.wanted /\ a.keep = s.keep
      /\ a.end = s.end /\ a.cancelled = s.cancelled
      /\ a.completed = s.completed /\ a.hidden = s.hidden
  BY <1>1 DEF StreamTypes
<1> HIDE DEF a
<1>3. Contiguous(a)
  BY <1>1, <1>2 DEF Contiguous
<1>4. /\ d \in StreamTypes /\ Contiguous(d)
      /\ d.emitted = s.emitted /\ d.terminal = e
      /\ d.cancelled = s.cancelled /\ d.completed = s.completed
      /\ d.hidden = s.hidden
  BY <1>2, <1>3, Drained
<1>5. /\ a.end # "open" \/ ~a.wanted => d = a
      /\ a.end = "open" /\ a.wanted /\ a.queue = <<>> /\ a.terminal # "none" =>
           /\ d.received = a.received /\ Len(a.received) = a.emitted
           /\ ~d.wanted /\ d.end = a.terminal
  BY <1>2, <1>3, Drained
<1> HIDE DEF d
<1>6. /\ t \in StreamTypes
      /\ t.emitted = d.emitted /\ t.received = d.received
      /\ t.queue = d.queue /\ t.end = d.end /\ t.wanted = d.wanted
      /\ t.terminal = d.terminal /\ t.cancelled = d.cancelled
      /\ t.hidden = d.hidden /\ t.completed # "pending"
  BY <1>4 DEF Settle, StreamTypes
<1> HIDE DEF t
<1>7. Contiguous(t) /\ EndInOrder(t)
  BY <1>2, <1>4, <1>6 DEF Contiguous, EndInOrder
<1>8. CASE ~s.wanted
  <2>1. d = a
    BY <1>2, <1>5, <1>8
  <2>2. ReaderWaits(t) /\ SameDelivery(s, t)
    BY <1>2, <1>6, <1>8, <2>1 DEF ReaderWaits, SameDelivery, Ended
  <2> QED BY <1>4, <1>6, <1>7, <2>2 DEF StreamInv, Delivers, Shown, a, d, t
<1>9. CASE s.wanted
  <2>1. s.queue = <<>> /\ s.terminal = "none" /\ s.end = "open"
    BY <1>1, <1>9 DEF ReaderWaits, EndInOrder
  <2>2. /\ d.received = s.received /\ Len(s.received) = s.emitted
        /\ ~d.wanted /\ d.end = e
    BY <1>2, <1>5, <1>9, <2>1
  <2>3. ReaderWaits(t)
    BY <1>6, <2>2 DEF ReaderWaits
  <2>4. Ends(s, t)
    BY <1>2, <1>4, <1>6, <2>1, <2>2 DEF Ends, Ended
  <2> QED BY <1>4, <1>6, <1>7, <2>3, <2>4 DEF StreamInv, Delivers, Shown, a, d, t
<1>10. s.wanted \in BOOLEAN
  BY <1>1 DEF StreamTypes
<1> QED BY <1>8, <1>9, <1>10

(* Settling a result that is cancelled changes nothing for the reader.      *)
LEMMA CancelledSettles ==
  ASSUME NEW s, StreamInv(s), s.cancelled, NEW how \in {"resolved", "rejected"}
  PROVE  LET t == Settle(s, how)
         IN  StreamInv(t) /\ Delivers(s, t) /\ Shown(s, t)
               /\ t.emitted = s.emitted /\ t.completed # "pending"
<1> DEFINE t == Settle(s, how)
<1>1. /\ t \in StreamTypes
      /\ t.emitted = s.emitted /\ t.received = s.received
      /\ t.queue = s.queue /\ t.end = s.end /\ t.wanted = s.wanted
      /\ t.terminal = s.terminal /\ t.cancelled = s.cancelled
      /\ t.hidden = s.hidden /\ t.completed # "pending"
  BY DEF StreamInv, Settle, StreamTypes
<1> HIDE DEF t
<1>2. Contiguous(t) /\ ReaderWaits(t) /\ EndInOrder(t) /\ SameDelivery(s, t)
  BY <1>1 DEF StreamInv, Contiguous, ReaderWaits, EndInOrder, SameDelivery, Ended
<1> QED BY <1>1, <1>2 DEF StreamInv, Delivers, Shown, t

(* The loop's promise is kept: everything queued stays for the reader.      *)
LEMMA DoneOK ==
  ASSUME NEW s, StreamInv(s)
  PROVE  LET t == Done(s)
         IN  StreamInv(t) /\ Delivers(s, t) /\ Shown(s, t)
               /\ t.emitted = s.emitted /\ t.completed # "pending"
<1>1. CASE s.cancelled
  <2>1. Done(s) = Settle(s, "resolved")
    BY <1>1 DEF Done
  <2> QED BY <1>1, <2>1, CancelledSettles
<1>2. CASE ~s.cancelled
  <2>1. PICK e \in {"done", "error"} :
          e = IF s.terminal = "none" THEN "done" ELSE s.terminal
    BY DEF StreamInv, StreamTypes
  <2>2. [s EXCEPT !.terminal = IF @ = "none" THEN "done" ELSE @]
          = [s EXCEPT !.terminal = e]
    BY <2>1 DEF StreamInv, StreamTypes
  <2>3. Done(s) = Settle(DrainStreamQueue([s EXCEPT !.terminal = e]), "resolved")
    BY <1>2, <2>2 DEF Done
  <2> QED BY <1>2, <2>3, EndAnnounced
<1> QED BY <1>1, <1>2

(* It is broken: the reader gets the error, behind what is kept for it.     *)
LEMMA RaiseErrorOK ==
  ASSUME NEW s, StreamInv(s), NEW keep \in BOOLEAN
  PROVE  LET t == RaiseError(s, keep)
         IN  StreamInv(t) /\ Delivers(s, t) /\ Shown(s, t)
               /\ t.emitted = s.emitted /\ t.completed # "pending"
<1>1. CASE s.cancelled
  <2>1. RaiseError(s, keep) = Settle(s, "rejected")
    BY <1>1 DEF RaiseError
  <2> QED BY <1>1, <2>1, CancelledSettles
<1>2. CASE ~s.cancelled /\ (keep \/ s.keep \/ s.terminal = "error")
  <2>1. RaiseError(s, keep)
          = Settle(DrainStreamQueue([s EXCEPT !.terminal = "error"]), "rejected")
    BY <1>2 DEF RaiseError
  <2> QED BY <1>2, <2>1, EndAnnounced
<1>3. CASE ~s.cancelled /\ ~(keep \/ s.keep \/ s.terminal = "error")
  <2> DEFINE t == RaiseError(s, keep)
             d == [s EXCEPT !.terminal = "error", !.queue = <<>>,
                            !.wanted = FALSE,
                            !.end = IF @ = "open" THEN "error" ELSE @]
  <2>1. t = Settle(d, "rejected")
    BY <1>3 DEF RaiseError
  <2>2. s \in StreamTypes
    BY DEF StreamInv
  <2>3. /\ d \in StreamTypes
        /\ d.emitted = s.emitted /\ d.received = s.received
        /\ d.end = (IF s.end = "open" THEN "error" ELSE s.end)
        /\ ~d.wanted /\ d.terminal = "error" /\ d.cancelled = s.cancelled
        /\ d.hidden = s.hidden
    BY <2>2, EmptySeq DEF StreamTypes
  <2> HIDE DEF d
  <2>4. /\ t \in StreamTypes
        /\ t.emitted = s.emitted /\ t.received = s.received
        /\ t.end = (IF s.end = "open" THEN "error" ELSE s.end)
        /\ ~t.wanted /\ t.terminal = "error" /\ t.cancelled = s.cancelled
        /\ t.hidden = s.hidden /\ t.completed # "pending"
    BY <2>1, <2>3 DEF Settle, StreamTypes
  <2> HIDE DEF t
  <2>5. Contiguous(t) /\ ReaderWaits(t) /\ EndInOrder(t)
    BY <1>3, <2>4 DEF Contiguous, ReaderWaits, EndInOrder
  <2>6. Delivers(s, t)
    BY <1>3, <2>4 DEF Delivers, SameDelivery, Ends, Ended
  <2> QED BY <2>4, <2>5, <2>6 DEF StreamInv, Shown, t
<1> QED BY <1>1, <1>2, <1>3

(* A cancellation drops what is queued.                                     *)
LEMMA CancelStreamOK ==
  ASSUME NEW s, StreamInv(s)
  PROVE  LET t == CancelStream(s)
         IN  /\ StreamInv(t) /\ Shown(s, t)
             /\ t.emitted = s.emitted /\ t.received = s.received
             /\ Ended(t) = "cancelled"
<1> DEFINE t == CancelStream(s)
<1>1. s \in StreamTypes
  BY DEF StreamInv
<1>2. CASE s.cancelled
  BY <1>2 DEF CancelStream, Shown, Ended
<1>3. CASE ~s.cancelled
  <2>1. /\ t \in StreamTypes
        /\ t.emitted = s.emitted /\ t.received = s.received
        /\ t.end # "open" /\ ~t.wanted /\ t.terminal = "done"
        /\ t.cancelled /\ t.hidden = s.hidden
    BY <1>1, <1>3, EmptySeq DEF CancelStream, StreamTypes
  <2> HIDE DEF t
  <2>2. Contiguous(t) /\ ReaderWaits(t) /\ EndInOrder(t)
    BY <2>1 DEF Contiguous, ReaderWaits, EndInOrder
  <2> QED BY <2>1, <2>2 DEF StreamInv, Shown, Ended, t
<1> QED BY <1>2, <1>3

(* The reader asks: it receives the next event, learns the end, or waits.   *)
LEMMA ReadOK ==
  ASSUME NEW s, StreamInv(s), s.end = "open", ~s.wanted
  PROVE  LET t == DrainStreamQueue([s EXCEPT !.wanted = TRUE])
         IN  StreamInv(t) /\ Delivers(s, t) /\ Shown(s, t)
               /\ t.emitted = s.emitted
<1> DEFINE a == [s EXCEPT !.wanted = TRUE]
           t == DrainStreamQueue(a)
<1>1. s \in StreamTypes /\ Contiguous(s) /\ EndInOrder(s)
  BY DEF StreamInv
<1>2. /\ a \in StreamTypes /\ a.terminal = s.terminal
      /\ a.queue = s.queue /\ a.emitted = s.emitted
      /\ a.received = s.received /\ a.wanted /\ a.keep = s.keep
      /\ a.end = s.end /\ a.cancelled = s.cancelled
      /\ a.completed = s.completed /\ a.hidden = s.hidden
  BY <1>1 DEF StreamTypes
<1> HIDE DEF a
<1>3. Contiguous(a) /\ EndInOrder(a)
  BY <1>1, <1>2 DEF Contiguous, EndInOrder
<1>4. Ended(s) = "open" /\ ~s.cancelled
  BY <1>1 DEF EndInOrder, Ended
<1>5. /\ t \in StreamTypes /\ Contiguous(t)
      /\ t.emitted = s.emitted /\ t.terminal = s.terminal
      /\ t.cancelled = s.cancelled /\ t.completed = s.completed
      /\ t.hidden = s.hidden
  BY <1>2, <1>3, Drained
<1>6. CASE s.queue # <<>>
  <2>1. /\ t.received = Append(s.received, Len(s.received) + 1)
        /\ Len(s.received) < s.emitted
        /\ ~t.wanted /\ t.end = "open"
    BY <1>2, <1>3, <1>6, Drained
  <2> HIDE DEF t
  <2>2. EndInOrder(t) /\ ReaderWaits(t) /\ Receives(s, t)
    BY <1>1, <1>4, <1>5, <2>1 DEF EndInOrder, ReaderWaits, Receives, Ended
  <2> QED BY <1>5, <2>2 DEF StreamInv, Delivers, Shown, t, a
<1>7. CASE s.queue = <<>> /\ s.terminal # "none"
  <2>1. /\ t.received = s.received /\ Len(s.received) = s.emitted
        /\ ~t.wanted /\ t.end = s.terminal
    BY <1>2, <1>3, <1>7, Drained
  <2> HIDE DEF t
  <2>2. EndInOrder(t) /\ ReaderWaits(t)
    BY <1>1, <1>4, <1>5, <1>7, <2>1 DEF EndInOrder, ReaderWaits
  <2>3. Ends(s, t)
    BY <1>1, <1>4, <1>5, <1>7, <2>1 DEF Ends, Ended, StreamTypes
  <2> QED BY <1>5, <2>2, <2>3 DEF StreamInv, Delivers, Shown, t, a
<1>8. CASE s.queue = <<>> /\ s.terminal = "none"
  <2>1. t = a
    BY <1>2, <1>3, <1>8, Drained
  <2> HIDE DEF t
  <2>2. ReaderWaits(t) /\ SameDelivery(s, t)
    BY <1>2, <1>8, <2>1 DEF ReaderWaits, SameDelivery, Ended
  <2> QED BY <1>2, <1>3, <2>1, <2>2 DEF StreamInv, Delivers, Shown, t, a
<1> HIDE DEF t
<1> QED BY <1>6, <1>7, <1>8 DEF t, a

(* The item of a handled error whose save failed: it is emitted and kept.   *)
LEMMA KeptAndRaised ==
  ASSUME NEW s, StreamInv(s)
  PROVE  LET t == RaiseError(AddItems(s, 1), TRUE)
         IN  StreamInv(t) /\ Delivers(s, t) /\ Shown(s, t)
<1> DEFINE a == AddItems(s, 1)
           t == RaiseError(a, TRUE)
<1>1. /\ StreamInv(a) /\ Delivers(s, a) /\ Shown(s, a)
      /\ a.cancelled = s.cancelled /\ (~s.cancelled => ~a.wanted)
  BY AddItemsOK
<1> HIDE DEF a
<1>2. StreamInv(t) /\ Shown(a, t)
  BY <1>1, RaiseErrorOK
<1>3. SameDelivery(a, t)
  <2>1. a \in StreamTypes
    BY <1>1 DEF StreamInv
  <2>2. CASE a.cancelled
    <3>1. t = Settle(a, "rejected")
      BY <2>2 DEF RaiseError
    <3> QED BY <2>1, <3>1 DEF Settle, StreamTypes, SameDelivery, Ended
  <2>3. CASE ~a.cancelled
    <3> DEFINE d == [a EXCEPT !.terminal = "error"]
    <3>1. ~d.wanted
      BY <1>1, <2>1, <2>3 DEF StreamTypes
    <3>2. t = Settle(d, "rejected")
      BY <2>3, <3>1 DEF RaiseError, DrainStreamQueue
    <3> QED BY <2>1, <3>2 DEF Settle, StreamTypes, SameDelivery, Ended
  <2> QED BY <2>2, <2>3
<1>4. Delivers(s, t)
  BY <1>1, <1>3 DEF Delivers, SameDelivery, Emits, Receives, Ends
<1> QED BY <1>1, <1>2, <1>4 DEF Shown, a

------------------------------------------------------------------------------
(* Every step of a streamed run is one of these operations, or leaves the   *)
(* stream alone.                                                            *)
Opens(t) ==
  t.emitted = 0 /\ t.received = <<>> /\ Ended(t) \in {"open", "cancelled"}

(* Where the loop emits.                                                    *)
MayEmit ==
  \/ pc \in {"retaking", "resuming", "tools", "finalizing"}
  \/ pc = "emitting"
  \/ pc = "finishing" /\ ~GuardrailsPending /\ ~GuardrailsFailed

StreamStep ==
  /\ StreamInv(stream')
  /\ Delivers(stream, stream') \/ Opens(stream')
  /\ stream'.emitted > stream.emitted => MayEmit

LEMMA UnchangedStream ==
  ASSUME StreamInv(stream), stream' = stream
  PROVE  StreamStep
<1>1. stream.emitted \in Nat
  BY DEF StreamInv, StreamTypes
<1> QED BY <1>1 DEF StreamStep, Delivers, SameDelivery

(* Marking a stream - hidden, keeping its events, its turn - is not seen by *)
(* the reader.                                                              *)
LEMMA MarkedStream ==
  ASSUME NEW s, StreamInv(s), NEW t, t \in StreamTypes,
         t.queue = s.queue, t.emitted = s.emitted, t.received = s.received,
         t.wanted = s.wanted, t.terminal = s.terminal, t.end = s.end,
         t.cancelled = s.cancelled, t.completed = s.completed
  PROVE  StreamInv(t) /\ SameDelivery(s, t)
BY DEF StreamInv, Contiguous, ReaderWaits, EndInOrder, SameDelivery, Ended

LEMMA HiddenStream ==
  ASSUME NEW s, StreamInv(s), NEW h \in BOOLEAN
  PROVE  LET t == [s EXCEPT !.hidden = h]
         IN  StreamInv(t) /\ SameDelivery(s, t) /\ t.hidden = h
<1> DEFINE t == [s EXCEPT !.hidden = h]
<1>1. /\ t \in StreamTypes
      /\ t.queue = s.queue /\ t.emitted = s.emitted
      /\ t.received = s.received /\ t.wanted = s.wanted
      /\ t.terminal = s.terminal /\ t.end = s.end
      /\ t.cancelled = s.cancelled /\ t.completed = s.completed
      /\ t.hidden = h
  BY DEF StreamInv, StreamTypes
<1> HIDE DEF t
<1>2. StreamInv(t) /\ SameDelivery(s, t)
  BY <1>1, MarkedStream
<1> QED BY <1>1, <1>2 DEF t

LEMMA SameDeliveryAgain ==
  ASSUME NEW s, NEW t, NEW u, Delivers(s, t), SameDelivery(t, u)
  PROVE  Delivers(s, u)
BY DEF Delivers, SameDelivery, Emits, Receives, Ends

(* Adding items, where the loop may emit.                                   *)
LEMMA ItemsAdded ==
  ASSUME StreamInv(stream), NEW n \in 0 .. 2, stream' = AddItems(stream, n),
         MayEmit
  PROVE  StreamStep /\ Shown(stream, stream')
BY AddItemsOK DEF StreamStep

LEMMA FinalizationStarted ==
  ASSUME StreamInv(stream), StartFinalization
  PROVE  StreamStep /\ stream'.hidden
<1>1. stream' = [stream EXCEPT !.hidden = TRUE]
  BY DEF StartFinalization
<1>2. /\ StreamInv(stream') /\ SameDelivery(stream, stream')
      /\ stream'.hidden
  BY <1>1, HiddenStream
<1>3. stream.emitted \in Nat
  BY DEF StreamInv, StreamTypes
<1> QED BY <1>2, <1>3 DEF StreamStep, Delivers, SameDelivery

LEMMA TurnPublished ==
  ASSUME StreamInv(stream), state.turn \in Nat,
         stream' = [stream EXCEPT !.turn = state.turn]
  PROVE  StreamStep /\ Shown(stream, stream')
<1> DEFINE t == [stream EXCEPT !.turn = state.turn]
<1>1. /\ t \in StreamTypes
      /\ t.queue = stream.queue /\ t.emitted = stream.emitted
      /\ t.received = stream.received /\ t.wanted = stream.wanted
      /\ t.terminal = stream.terminal /\ t.end = stream.end
      /\ t.cancelled = stream.cancelled /\ t.completed = stream.completed
      /\ t.hidden = stream.hidden
  BY DEF StreamInv, StreamTypes
<1>2. t = stream' /\ stream.emitted \in Nat
  BY DEF StreamInv, StreamTypes
<1> HIDE DEF t
<1>3. StreamInv(t) /\ SameDelivery(stream, t)
  BY <1>1, MarkedStream
<1> QED BY <1>1, <1>2, <1>3 DEF StreamStep, Delivers, SameDelivery, Shown

(* The steps of the caller and of the reader.                               *)
LEMMA CallerStreamStep ==
  ASSUME TypeOK, StreamInv(stream), Caller \/ Read
  PROVE  StreamStep
<1>0. stream.emitted \in Nat /\ EndInOrder(stream)
  BY DEF StreamInv, StreamTypes
<1>1. CASE Run
  <2>1. PICK aborted \in BOOLEAN :
          LET s == NewStream(state.turn, state.step = "final_output")
          IN  stream' = IF aborted THEN CancelStream(s) ELSE s
    BY <1>1 DEF Run
  <2> DEFINE s == NewStream(state.turn, state.step = "final_output")
  <2>2. state.turn \in Nat /\ (state.step = "final_output") \in BOOLEAN
    BY DEF TypeOK, StateTypes
  <2>3. StreamInv(s) /\ s.emitted = 0 /\ s.received = <<>> /\ Ended(s) = "open"
    BY <2>2, NewStreamOK DEF Ended
  <2>4. stream' = IF aborted THEN CancelStream(s) ELSE s
    BY <2>1
  <2> HIDE DEF s
  <2>5. StreamInv(stream') /\ Opens(stream')
    BY <2>3, <2>4, CancelStreamOK DEF Opens
  <2> QED BY <1>0, <2>5 DEF StreamStep, Opens
<1>2. CASE AddInput
  BY <1>2, UnchangedStream DEF AddInput
<1>3. CASE StopReading \/ Abort
  <2>1. stream' = CancelStream(stream) /\ Ended(stream) = "open"
    BY <1>0, <1>3 DEF StopReading, Abort, Ended, EndInOrder
  <2>2. /\ StreamInv(stream')
        /\ stream'.emitted = stream.emitted
        /\ stream'.received = stream.received
        /\ Ended(stream') = "cancelled"
    BY <2>1, CancelStreamOK
  <2> QED BY <1>0, <2>1, <2>2 DEF StreamStep, Delivers, Ends
<1>4. CASE Read
  <2>1. /\ stream' = DrainStreamQueue([stream EXCEPT !.wanted = TRUE])
        /\ stream.end = "open" /\ ~stream.wanted
    BY <1>4 DEF Read
  <2> QED BY <1>0, <2>1, ReadOK DEF StreamStep
<1> QED BY <1>1, <1>2, <1>3, <1>4 DEF Caller

(* The steps of the guardrails and of the model.                            *)
LEMMA ModelStreamStep ==
  ASSUME StreamInv(stream), GuardrailsSettle \/ Model
  PROVE  StreamStep
<1>1. CASE GuardrailsSettle
  BY <1>1, UnchangedStream DEF GuardrailsSettle, GuardrailStep
<1>2. CASE Model
  BY <1>2, UnchangedStream
     DEF Model, ModelEvent, ModelStreamEnds, ModelAborted, ModelFails
<1> QED BY <1>1, <1>2

(* The steps of the loop.                                                   *)
LEMMA LoopStreamStep ==
  ASSUME TypeOK, StreamInv(stream), Loop
  PROVE  StreamStep
<1>0. stream.emitted \in Nat /\ stream \in StreamTypes
  BY DEF StreamInv, StreamTypes
<1>1. CASE \/ StopAtTop \/ ResumeAcceptedResponse \/ ResumeInterruption
           \/ BeginTurn \/ PreparationFails
           \/ Settled \/ CallsReconciled \/ ToolsFail \/ InterruptionSaved
           \/ OutputRejected \/ CleanUp
  BY <1>1, UnchangedStream
     DEF StopAtTop, ResumeAcceptedResponse, ResumeInterruption,
         BeginTurn, PreparationFails, Settled, CallsReconciled, ToolsFail,
         InterruptionSaved, OutputRejected, CleanUp
<1>2. CASE FinalizeAgain
  <2>1. UNCHANGED stream \/ StartFinalization
    BY <1>2 DEF FinalizeAgain
  <2> QED BY <2>1, UnchangedStream, FinalizationStarted
<1>3. CASE InterruptionResumed
  <2>1. \/ UNCHANGED stream
        \/ stream' = AddItems(stream, 1) \/ stream' = AddItems(stream, 2)
    BY <1>3 DEF InterruptionResumed
  <2>2. MayEmit
    BY <1>3 DEF InterruptionResumed, MayEmit
  <2> QED BY <2>1, <2>2, UnchangedStream, ItemsAdded
<1>4. CASE TurnPrepared \/ AdmittedInputSaved
  <2>1. UNCHANGED stream \/ stream' = [stream EXCEPT !.turn = state.turn]
    BY <1>4 DEF TurnPrepared, AdmittedInputSaved, RequestModel
  <2>2. state.turn \in Nat
    BY DEF TypeOK, StateTypes
  <2> QED BY <2>1, <2>2, UnchangedStream, TurnPublished
<1>5. CASE ResponseProcessed
  <2>1. \/ UNCHANGED stream
        \/ ~GuardrailsFailed /\ stream' = AddItems(stream, 1)
    BY <1>5 DEF ResponseProcessed
  <2>2. pc = "finishing" /\ ~GuardrailsPending
    BY <1>5 DEF ResponseProcessed, GuardrailsSettled
  <2> QED BY <2>1, <2>2, UnchangedStream, ItemsAdded DEF MayEmit
<1>6. CASE FinalOutputProduced
  <2>1. PICK n \in 0 .. 2 :
          stream' = [AddItems(stream, n) EXCEPT !.hidden = TRUE]
    <3>1. (IF state.response = "calls" THEN 1 ELSE 0) \in 0 .. 2
      OBVIOUS
    <3> QED BY <1>6, <3>1 DEF FinalOutputProduced
  <2> DEFINE s == AddItems(stream, n)
  <2>2. StreamInv(s) /\ Delivers(stream, s)
    BY AddItemsOK
  <2>3. stream' = [s EXCEPT !.hidden = TRUE]
    BY <2>1
  <2> HIDE DEF s
  <2>4. StreamInv(stream') /\ SameDelivery(s, stream')
    BY <2>2, <2>3, HiddenStream
  <2>5. MayEmit
    BY <1>6 DEF FinalOutputProduced, MayEmit
  <2> QED BY <2>2, <2>4, <2>5, SameDeliveryAgain DEF StreamStep
<1>7. CASE TurnContinues
  <2>1. PICK items \in {1, 2} : stream' = AddItems(stream, items)
    BY <1>7 DEF TurnContinues
  <2>2. MayEmit
    BY <1>7 DEF TurnContinues, MayEmit
  <2> QED BY <2>1, <2>2, ItemsAdded
<1>8. CASE OutputAccepted
  <2> DEFINE s == AddItems(stream, HandledItems)
  <2>1. HandledItems \in 0 .. 2
    BY DEF HandledItems
  <2>2. StreamInv(s) /\ Delivers(stream, s)
    BY <2>1, AddItemsOK
  <2>3. stream' = [s EXCEPT !.hidden = FALSE, !.keep = @ \/ local.handled]
    BY <1>8 DEF OutputAccepted
  <2> HIDE DEF s
  <2>4. /\ stream' \in StreamTypes
        /\ stream'.queue = s.queue /\ stream'.emitted = s.emitted
        /\ stream'.received = s.received /\ stream'.wanted = s.wanted
        /\ stream'.terminal = s.terminal /\ stream'.end = s.end
        /\ stream'.cancelled = s.cancelled /\ stream'.completed = s.completed
    BY <2>2, <2>3 DEF StreamInv, StreamTypes
  <2>5. StreamInv(stream') /\ SameDelivery(s, stream')
    BY <2>2, <2>4, MarkedStream
  <2>6. MayEmit
    BY <1>8 DEF OutputAccepted, MayEmit
  <2> QED BY <2>2, <2>5, <2>6, SameDeliveryAgain DEF StreamStep
<1>9. CASE OutputNotSaved
  <2>1. \/ UNCHANGED stream
        \/ stream' = RaiseError(AddItems(stream, 1), TRUE)
    BY <1>9 DEF OutputNotSaved
  <2>2. MayEmit
    BY <1>9 DEF OutputNotSaved, MayEmit
  <2>3. CASE stream' = RaiseError(AddItems(stream, 1), TRUE)
    BY <2>2, <2>3, KeptAndRaised DEF StreamStep
  <2> QED BY <2>1, <2>3, UnchangedStream
<1>10. CASE CatchError
  <2>1. UNCHANGED stream \/ StartFinalization
    BY <1>10 DEF CatchError
  <2> QED BY <2>1, UnchangedStream, FinalizationStarted
<1>11. CASE EndStream
  <2>1. stream' = Done(stream) \/ stream' = RaiseError(stream, FALSE)
    BY <1>11 DEF EndStream
  <2>2. /\ StreamInv(stream') /\ Delivers(stream, stream')
        /\ stream'.emitted = stream.emitted
    BY <2>1, DoneOK, RaiseErrorOK
  <2> QED BY <1>0, <2>2 DEF StreamStep
<1>12. CASE AcceptedResponseResolved \/ EmitEvent
  <2>1. UNCHANGED stream \/ stream' = AddItems(stream, 1)
    BY <1>12 DEF AcceptedResponseResolved, EmitEvent
  <2>2. MayEmit
    BY <1>12 DEF AcceptedResponseResolved, EmitEvent, MayEmit
  <2> QED BY <2>1, <2>2, UnchangedStream, ItemsAdded
<1>13. CASE FinalizeResumedTurn
  BY <1>13, FinalizationStarted DEF FinalizeResumedTurn
<1> QED BY <1>1, <1>2, <1>3, <1>4, <1>5, <1>6, <1>7, <1>8, <1>9, <1>10, <1>11,
           <1>12, <1>13 DEF Loop

------------------------------------------------------------------------------
(* The type invariant, together with what is known of the stream.           *)
IInv == TypeOK /\ StreamInv(stream)

LEMMA InitIInv == ASSUME Init PROVE IInv
<1>1. TypeOK
  BY OptionsAssumption, EmptySeq
     DEF Init, TypeOK, NoLocals, NoSnapshot, NoFeed, NewStream, StreamTypes,
         StateTypes, LocalTypes, FeedTypes, Steps
<1>2. StreamInv(stream)
  BY NewStreamOK DEF Init
<1> QED BY <1>1, <1>2 DEF IInv

LEMMA StreamTyped ==
  ASSUME StreamStep
  PROVE  stream' \in StreamTypes
BY DEF StreamStep, StreamInv

(* A failure keeps the types.                                               *)
LEMMA FailTyped ==
  ASSUME NEW l \in LocalTypes, NEW error \in Errors, Fail(l, error)
  PROVE  local' \in LocalTypes /\ pc' \in {"cleaning", "catching"}
BY DEF Fail, LocalTypes

LEMMA ExitTyped ==
  ASSUME NEW l \in LocalTypes, ExitSettled(l)
  PROVE  local' \in LocalTypes /\ pc' \in {"cleaning", "catching"}
<1>1. CASE l.error = "none"
  BY <1>1 DEF ExitSettled
<1>2. CASE l.error # "none"
  <2>1. l.error \in Errors
    BY <1>2 DEF LocalTypes
  <2> QED BY <1>2, <2>1, FailTyped DEF ExitSettled
<1> QED BY <1>1, <1>2

(* Staged input committed, and an accepted request recorded.                *)
LEMMA MarkedTyped ==
  ASSUME TypeOK, NEW available \in BOOLEAN, NEW l \in LocalTypes
  PROVE  MarkedState(available) \in StateTypes /\ Marked(l) \in LocalTypes
<1>1. state \in StateTypes /\ managed \in BOOLEAN
  BY DEF TypeOK
<1>2. Marked(l) \in LocalTypes
  BY <1>1 DEF Marked, LocalTypes
<1>3. ASSUME NEW s \in StateTypes PROVE Checkpointed(s) \in StateTypes
  BY DEF Checkpointed, StateTypes, Steps
<1>4. [state EXCEPT !.staged = FALSE] \in StateTypes
  BY <1>1 DEF StateTypes
<1>5. MarkedState(available) \in
        {state, [state EXCEPT !.staged = FALSE], Checkpointed(state),
         Checkpointed([state EXCEPT !.staged = FALSE])}
  BY DEF MarkedState
<1> QED BY <1>1, <1>2, <1>3, <1>4, <1>5

LEMMA CommitTyped ==
  ASSUME TypeOK
  PROVE  CommitDeferred \in StateTypes
BY DEF TypeOK, CommitDeferred, StateTypes

LEMMA RollbackTyped ==
  ASSUME TypeOK
  PROVE  RollbackUnstartedTurn \in StateTypes /\ CaughtState \in StateTypes
BY DEF TypeOK, RollbackUnstartedTurn, CaughtState, StateTypes, LocalTypes

(* The types of everything but the stream.                                  *)
LoopTypes ==
  /\ managed' \in BOOLEAN
  /\ state' \in StateTypes
  /\ pc' \in {"idle", "loop", "retaking", "resuming", "resumed", "preparing",
              "admitting", "streaming", "emitting", "settling", "reconciling",
              "finishing", "tools", "interrupting", "finalizing", "catching",
              "cleaning", "ending"}
  /\ local' \in LocalTypes
  /\ batch' \in {"none", "running", "observed", "failed", "passed"}
  /\ feed' \in FeedTypes
  /\ sandbox' \in {"none", "open", "preserved", "closed"}
  /\ history' \in [runs : Nat, inputs : Nat, inputWrites : Nat,
                   accepted : BOOLEAN, unreconciled : BOOLEAN]

(* What is counted and noted for the properties.                            *)
LEMMA HistoryTyped ==
  ASSUME TypeOK
  PROVE  LET H == [runs : Nat, inputs : Nat, inputWrites : Nat,
                   accepted : BOOLEAN, unreconciled : BOOLEAN]
         IN  /\ history \in H
             /\ [history EXCEPT !.runs = @ + 1, !.inputWrites = 0] \in H
             /\ [history EXCEPT !.inputs = @ + 1] \in H
             /\ InputWrites \in H
             /\ [history EXCEPT !.accepted = TRUE] \in H
             /\ [InputWrites EXCEPT !.accepted = TRUE] \in H
             /\ [history EXCEPT !.unreconciled = TRUE] \in H
<1> DEFINE H == [runs : Nat, inputs : Nat, inputWrites : Nat,
                 accepted : BOOLEAN, unreconciled : BOOLEAN]
<1>1. history \in H
  BY DEF TypeOK
<1>2. /\ history.runs + 1 \in Nat /\ history.inputs + 1 \in Nat
      /\ history.inputWrites + 1 \in Nat
  BY <1>1
<1>3. /\ [history EXCEPT !.runs = @ + 1, !.inputWrites = 0] \in H
      /\ [history EXCEPT !.inputs = @ + 1] \in H
      /\ [history EXCEPT !.accepted = TRUE] \in H
      /\ [history EXCEPT !.unreconciled = TRUE] \in H
  BY <1>1, <1>2
<1>4. InputWrites \in H
  BY <1>1, <1>2 DEF InputWrites
<1> HIDE DEF InputWrites
<1>5. [InputWrites EXCEPT !.accepted = TRUE] \in H
  BY <1>4
<1> QED BY <1>1, <1>3, <1>4, <1>5

LEMMA CallerTypes ==
  ASSUME TypeOK, Caller \/ Read \/ GuardrailsSettle
  PROVE  LoopTypes
<1>1. CASE Run
  <2>1. NoLocals(history.runs > 0) \in LocalTypes
    BY DEF NoLocals, NoSnapshot, LocalTypes
  <2>2. [history EXCEPT !.runs = @ + 1, !.inputWrites = 0] \in
          [runs : Nat, inputs : Nat, inputWrites : Nat,
           accepted : BOOLEAN, unreconciled : BOOLEAN]
    BY HistoryTyped
  <2> QED BY <1>1, <2>1, <2>2 DEF Run, TypeOK, LoopTypes, NoFeed, FeedTypes
<1>2. CASE AddInput
  <2>1. [history EXCEPT !.inputs = @ + 1] \in
          [runs : Nat, inputs : Nat, inputWrites : Nat,
           accepted : BOOLEAN, unreconciled : BOOLEAN]
    BY HistoryTyped
  <2>2. [state EXCEPT !.staged = TRUE] \in StateTypes
    BY DEF TypeOK, StateTypes
  <2> QED BY <1>2, <2>1, <2>2 DEF AddInput, TypeOK, LoopTypes
<1>3. CASE StopReading \/ Abort \/ Read
  BY <1>3 DEF StopReading, Abort, Read, TypeOK, LoopTypes
<1>4. CASE GuardrailsSettle
  BY <1>4 DEF GuardrailsSettle, GuardrailStep, TypeOK, LoopTypes
<1> QED BY <1>1, <1>2, <1>3, <1>4 DEF Caller

LEMMA ModelTypes ==
  ASSUME TypeOK, Model
  PROVE  LoopTypes
<1>0. local \in LocalTypes /\ state \in StateTypes /\ managed \in BOOLEAN
  BY DEF TypeOK
<1>1. CASE ModelEvent
  <2>1. PICK kind \in EventKinds : feed' = EventTaken(kind)
    BY <1>1 DEF ModelEvent
  <2>2. feed' \in FeedTypes
    <3>1. /\ feed \in FeedTypes
          /\ feed.events + 1 \in Nat /\ feed.calls + 1 \in Nat
      BY DEF TypeOK, FeedTypes
    <3> QED BY <2>1, <3>1 DEF EventTaken, EventKinds, FeedTypes
  <2>3. [Marked(local) EXCEPT !.received = TRUE] \in LocalTypes
    <3>1. Marked(local) \in LocalTypes
      BY <1>0, MarkedTyped
    <3> HIDE DEF Marked
    <3> QED BY <3>1 DEF LocalTypes
  <2>4. local' \in LocalTypes /\ pc' \in {"cleaning", "catching", "emitting"}
    <3> DEFINE l == [Marked(local) EXCEPT !.received = TRUE]
    <3>1. Fail(l, "guardrail") \/ (pc' = "emitting" /\ local' = l)
      BY <1>1 DEF ModelEvent
    <3> HIDE DEF l
    <3>2. CASE Fail(l, "guardrail")
      <4>1. l \in LocalTypes
        BY <2>3 DEF l
      <4> QED BY <3>2, <4>1, FailTyped DEF Errors
    <3>3. CASE pc' = "emitting" /\ local' = l
      BY <2>3, <3>3 DEF l
    <3> QED BY <3>1, <3>2, <3>3
  <2>5. (~local.carries) \in BOOLEAN
    OBVIOUS
  <2>6. state' \in StateTypes
    BY <1>0, <1>1, <2>5, MarkedTyped DEF ModelEvent
  <2> QED BY <1>1, <2>2, <2>4, <2>6 DEF ModelEvent, TypeOK, LoopTypes
<1>2. CASE ModelStreamEnds
  <2>1. MarkedState(TRUE) \in StateTypes /\ Marked(local) \in LocalTypes
    BY <1>0, MarkedTyped
  <2> QED BY <1>2, <2>1 DEF ModelStreamEnds, TypeOK, LoopTypes, FeedTypes
<1>3. CASE ModelAborted
  <2>1. MarkedState(TRUE) \in StateTypes /\ Marked(local) \in LocalTypes
    BY <1>0, MarkedTyped
  <2> QED BY <1>3, <2>1 DEF ModelAborted, TypeOK, LoopTypes, FeedTypes
<1>4. CASE ModelFails
  <2>1. MarkedState(FALSE) \in StateTypes /\ Marked(local) \in LocalTypes
    BY <1>0, MarkedTyped
  <2>2. PICK advised \in BOOLEAN, timeout \in BOOLEAN :
          LET accepted == advised \/ (timeout /\ local.received)
              l == IF accepted THEN Marked(local) ELSE local
          IN  /\ state' = IF accepted THEN MarkedState(FALSE) ELSE state
              /\ \/ /\ timeout
                    /\ pc' = "settling"
                    /\ local' = [l EXCEPT !.error = "timeout"]
                 \/ /\ ~timeout
                    /\ Fail(l, "model")
    BY <1>4 DEF ModelFails
  <2> DEFINE l == IF advised \/ (timeout /\ local.received)
                  THEN Marked(local) ELSE local
  <2>3. l \in LocalTypes
    BY <1>0, <2>1
  <2>4. state' \in StateTypes
    BY <1>0, <2>1, <2>2
  <2>5. \/ pc' = "settling" /\ local' = [l EXCEPT !.error = "timeout"]
        \/ Fail(l, "model")
    BY <2>2
  <2> HIDE DEF l
  <2>6. [l EXCEPT !.error = "timeout"] \in LocalTypes
    BY <2>3 DEF LocalTypes, Errors
  <2>7. local' \in LocalTypes /\ pc' \in {"settling", "cleaning", "catching"}
    BY <2>3, <2>5, <2>6, FailTyped DEF Errors
  <2> QED BY <1>4, <2>4, <2>7 DEF ModelFails, TypeOK, LoopTypes, FeedTypes
<1> QED BY <1>1, <1>2, <1>3, <1>4 DEF Model

(* Notes of the loop about itself keep the types.                           *)
LEMMA LocalTyped ==
  ASSUME TypeOK
  PROVE  /\ local \in LocalTypes
         /\ [local EXCEPT !.continuing = FALSE] \in LocalTypes
         /\ [local EXCEPT !.deferred = FALSE] \in LocalTypes
         /\ [local EXCEPT !.snapshot = NoSnapshot] \in LocalTypes
         /\ [local EXCEPT !.pendingCalls = 0] \in LocalTypes
         /\ \A error \in Errors \cup {"none"} : InputSaved(error) \in LocalTypes
<1>1. local \in LocalTypes
  BY DEF TypeOK
<1> QED BY <1>1 DEF LocalTypes, InputSaved, NoSnapshot

(* What a resumed interruption leaves to the loop.                          *)
LEMMA InterruptionOutcomes ==
  ASSUME InterruptionResumed
  PROVE  \/ Fail(local, "tool")
         \/ \E e \in {"none", "session"}, c \in BOOLEAN :
              /\ pc' \in IF e = "none" THEN {"cleaning", "loop", "resumed"}
                                      ELSE {"catching"}
              /\ \/ pc' # "resumed" /\ local' = [local EXCEPT !.error = e]
                 \/ /\ pc' # "resumed"
                    /\ local' = [local EXCEPT !.continuing = c, !.error = e]
                 \/ /\ pc' = "resumed"
                    /\ local' = [local EXCEPT !.continuing = c]
BY DEF InterruptionResumed

LEMMA LoopTopTypes ==
  ASSUME TypeOK,
         \/ StopAtTop \/ ResumeAcceptedResponse \/ ResumeInterruption
         \/ FinalizeAgain \/ InterruptionResumed \/ BeginTurn
         \/ PreparationFails \/ TurnPrepared \/ AdmittedInputSaved
         \/ AcceptedResponseResolved \/ FinalizeResumedTurn
  PROVE  LoopTypes
<1>0. /\ local \in LocalTypes /\ state \in StateTypes
      /\ \A l \in LocalTypes, e \in Errors :
           Fail(l, e) => local' \in LocalTypes /\ pc' \in {"cleaning", "catching"}
  BY FailTyped DEF TypeOK
<1>1. CASE StopAtTop
  BY <1>1 DEF StopAtTop, ReturnFromLoop, TypeOK, LoopTypes
<1>2. CASE ResumeAcceptedResponse
  <2>1. local' \in LocalTypes /\ pc' \in {"cleaning", "catching", "retaking"}
    BY <1>0, <1>2 DEF ResumeAcceptedResponse, Errors
  <2> QED BY <1>2, <2>1 DEF ResumeAcceptedResponse, TypeOK, LoopTypes
<1>3. CASE ResumeInterruption
  BY <1>3 DEF ResumeInterruption, TypeOK, LoopTypes
<1>4. CASE FinalizeAgain
  <2>1. local' \in LocalTypes /\ pc' \in {"cleaning", "catching", "finalizing"}
    BY <1>0, <1>4 DEF FinalizeAgain, StartFinalization, Errors
  <2> QED BY <1>4, <2>1 DEF FinalizeAgain, TypeOK, LoopTypes
<1>5. CASE InterruptionResumed
  <2>1. \A e \in {"none", "session"}, c \in BOOLEAN :
          /\ [local EXCEPT !.error = e] \in LocalTypes
          /\ [local EXCEPT !.continuing = c] \in LocalTypes
          /\ [local EXCEPT !.continuing = c, !.error = e] \in LocalTypes
    <3>1. {"none", "session"} \subseteq Errors \cup {"none"}
      BY DEF Errors
    <3> QED BY <1>0, <3>1 DEF LocalTypes
  <2>2. local' \in LocalTypes
    <3>1. CASE Fail(local, "tool")
      BY <1>0, <3>1 DEF Errors
    <3> QED BY <1>0, <1>5, <2>1, <3>1, InterruptionOutcomes
  <2>3. state' \in StateTypes
    BY <1>0, <1>5 DEF InterruptionResumed, StateTypes, Steps
  <2>4. pc' \in {"cleaning", "catching", "loop", "resumed"}
    BY <1>5 DEF InterruptionResumed, Fail
  <2> QED BY <1>5, <2>2, <2>3, <2>4 DEF InterruptionResumed, TypeOK, LoopTypes
<1>6. CASE BeginTurn
  <2> DEFINE turn  == IF SameTurn THEN state.turn ELSE state.turn + 1
             begun == [local EXCEPT
                         !.continuing = FALSE,
                         !.snapshot   = [turn |-> state.turn,
                                         inProgress |-> state.inProgress,
                                         taken |-> TRUE]]
  <2>1. begun \in LocalTypes
    BY <1>0 DEF LocalTypes, StateTypes
  <2>2. turn \in Nat
    BY <1>0 DEF StateTypes
  <2>3. /\ state' = [state EXCEPT !.step = "run_again", !.turn = turn,
                                  !.inProgress = TRUE]
        /\ \/ Fail(begun, "maxTurns") /\ batch' = "none"
           \/ pc' = "preparing" /\ local' = begun /\ batch' \in {"running", "none"}
    BY <1>6 DEF BeginTurn
  <2> HIDE DEF turn, begun
  <2>4. state' \in StateTypes
    BY <1>0, <2>2, <2>3 DEF StateTypes, Steps
  <2>5. local' \in LocalTypes /\ pc' \in {"cleaning", "catching", "preparing"}
    BY <1>0, <2>1, <2>3 DEF Errors
  <2> QED BY <1>6, <2>3, <2>4, <2>5 DEF BeginTurn, TypeOK, LoopTypes
<1>7. CASE PreparationFails
  <2>1. local' \in LocalTypes /\ pc' \in {"cleaning", "catching"}
    BY <1>0, <1>7 DEF PreparationFails, Errors
  <2> QED BY <1>7, <2>1 DEF PreparationFails, TypeOK, LoopTypes
<1>8. ASSUME ReturnUnstarted
      PROVE  local' \in LocalTypes /\ pc' = "cleaning" /\ state' \in StateTypes
  BY <1>8, LocalTyped, RollbackTyped DEF ReturnUnstarted
<1>9. ASSUME NEW d \in BOOLEAN, RequestModel(d)
      PROVE  /\ local' \in LocalTypes /\ pc' = "streaming" /\ history' = history
             /\ feed' \in FeedTypes /\ feed'.status = "open"
  <2>1. (state.staged \/ pc = "admitting") \in BOOLEAN
    BY <1>0 DEF StateTypes
  <2>2. ASSUME NEW c \in BOOLEAN
        PROVE  [local EXCEPT !.snapshot = NoSnapshot, !.sent = TRUE,
                             !.deferred = d, !.marked = FALSE, !.carries = c,
                             !.received = FALSE, !.pendingCalls = 0,
                             !.completed = FALSE] \in LocalTypes
    <3>1. NoSnapshot \in [turn : Nat, inProgress : BOOLEAN, taken : BOOLEAN]
      BY DEF NoSnapshot
    <3> QED BY <1>0, <1>9, <3>1 DEF LocalTypes
  <2>3. [NoFeed EXCEPT !.status = "open"] \in FeedTypes
          /\ [NoFeed EXCEPT !.status = "open"].status = "open"
    BY DEF NoFeed, FeedTypes
  <2> QED BY <1>9, <2>1, <2>2, <2>3 DEF RequestModel
<1>10. CASE TurnPrepared
  <2>1. CASE CancelledInPreparation
    BY <1>8, <1>10, <2>1 DEF TurnPrepared, TypeOK, LoopTypes
  <2>2. CASE ~CancelledInPreparation /\ pc' = "admitting"
               /\ state' = [state EXCEPT !.staged = FALSE]
               /\ UNCHANGED <<local, feed, history>>
    <3>1. state' \in StateTypes
      BY <1>0, <2>2 DEF StateTypes
    <3> QED BY <1>10, <2>2, <3>1 DEF TurnPrepared, TypeOK, LoopTypes
  <2>3. CASE /\ ~CancelledInPreparation
             /\ RequestModel(~managed /\ state.staged) /\ UNCHANGED state
    <3>1. (~managed /\ state.staged) \in BOOLEAN
      OBVIOUS
    <3>2. /\ local' \in LocalTypes /\ pc' = "streaming" /\ history' = history
          /\ feed' \in FeedTypes
      BY <1>9, <2>3, <3>1
    <3> QED BY <1>10, <2>3, <3>2 DEF TurnPrepared, TypeOK, LoopTypes
  <2> QED BY <1>10, <2>1, <2>2, <2>3 DEF TurnPrepared
<1>11. CASE AdmittedInputSaved
  <2>1. CASE Fail(local, "session") /\ UNCHANGED <<state, feed, stream, history>>
    <3>1. local' \in LocalTypes /\ pc' \in {"cleaning", "catching"}
      BY <1>0, <2>1 DEF Errors
    <3> QED BY <1>11, <2>1, <3>1 DEF AdmittedInputSaved, TypeOK, LoopTypes
  <2>2. CASE ReturnUnstarted /\ UNCHANGED <<feed, stream, history>>
    BY <1>8, <1>11, <2>2 DEF AdmittedInputSaved, TypeOK, LoopTypes
  <2>3. CASE RequestModel(FALSE) /\ UNCHANGED state
    <3>1. /\ local' \in LocalTypes /\ pc' = "streaming" /\ history' = history
          /\ feed' \in FeedTypes
      BY <1>9, <2>3
    <3> QED BY <1>11, <2>3, <3>1 DEF AdmittedInputSaved, TypeOK, LoopTypes
  <2> QED BY <1>11, <2>1, <2>2, <2>3 DEF AdmittedInputSaved
<1>12. CASE AcceptedResponseResolved \/ FinalizeResumedTurn
  <2>1. state' \in StateTypes
    BY <1>0, <1>12
       DEF AcceptedResponseResolved, FinalizeResumedTurn, StateTypes, Steps
  <2>2. pc' \in {"resumed", "finalizing"}
    BY <1>12
       DEF AcceptedResponseResolved, FinalizeResumedTurn, StartFinalization
  <2> QED BY <1>12, <2>1, <2>2
          DEF AcceptedResponseResolved, FinalizeResumedTurn, TypeOK, LoopTypes
<1> QED BY <1>1, <1>2, <1>3, <1>4, <1>5, <1>6, <1>7, <1>10, <1>11, <1>12

(* What is recorded of an event.                                            *)
LEMMA RecordedTyped ==
  ASSUME TypeOK, NEW kind
  PROVE  LET l == Recorded(kind)
         IN  /\ l \in LocalTypes
             /\ [l EXCEPT !.completed = FALSE] \in LocalTypes
             /\ l.inputSaved = local.inputSaved /\ l.carries = local.carries
             /\ l.deferred = local.deferred /\ l.handled = local.handled
             /\ l.marked = local.marked /\ l.error = local.error
             /\ kind = "done" => l.completed /\ l.pendingCalls = 0
             /\ kind # "done" => l.completed = local.completed
<1>1. local \in LocalTypes /\ local.pendingCalls + 1 \in Nat
  BY DEF TypeOK, LocalTypes
<1>2. CASE kind = "call"
  BY <1>1, <1>2 DEF Recorded, LocalTypes
<1>3. CASE kind = "done"
  BY <1>1, <1>3 DEF Recorded, LocalTypes
<1>4. CASE kind # "call" /\ kind # "done"
  BY <1>1, <1>4 DEF Recorded, LocalTypes
<1> QED BY <1>2, <1>3, <1>4

LEMMA LoopRestTypes ==
  ASSUME TypeOK,
         \/ EmitEvent \/ Settled \/ CallsReconciled \/ ResponseProcessed \/ ToolsFail
         \/ FinalOutputProduced \/ TurnContinues \/ InterruptionSaved
         \/ OutputRejected \/ OutputAccepted \/ OutputNotSaved
         \/ CatchError \/ CleanUp \/ EndStream
  PROVE  LoopTypes
<1>0. /\ local \in LocalTypes /\ state \in StateTypes
      /\ \A l \in LocalTypes, e \in Errors :
           Fail(l, e) => local' \in LocalTypes /\ pc' \in {"cleaning", "catching"}
      /\ \A l \in LocalTypes : ExitSettled(l) =>
           local' \in LocalTypes /\ pc' \in {"cleaning", "catching"}
  BY FailTyped, ExitTyped DEF TypeOK
<1>1. CASE Settled
  <2>1. local' \in LocalTypes /\ pc' \in {"cleaning", "catching", "reconciling"}
    BY <1>0, <1>1, LocalTyped DEF Settled, Errors
  <2>2. state' \in StateTypes
    BY <1>0, <1>1, CommitTyped DEF Settled
  <2> QED BY <1>1, <2>1, <2>2 DEF Settled, TypeOK, LoopTypes
<1>2. CASE CallsReconciled
  <2>1. local' \in LocalTypes /\ pc' \in {"cleaning", "catching"}
    BY <1>0, <1>2, LocalTyped DEF CallsReconciled
  <2>2. history' = history \/ history' = [history EXCEPT !.unreconciled = TRUE]
    BY <1>2 DEF CallsReconciled
  <2> QED BY <1>2, <2>1, <2>2, HistoryTyped DEF CallsReconciled, TypeOK, LoopTypes
<1>3. CASE ResponseProcessed
  <2>1. local' \in LocalTypes /\ pc' \in {"cleaning", "catching", "tools"}
    BY <1>0, <1>3, LocalTyped DEF ResponseProcessed, Errors
  <2>2. state' \in StateTypes
    <3>1. CommitDeferred \in StateTypes
      BY CommitTyped
    <3>2. [CommitDeferred EXCEPT
             !.response = IF feed.calls > 0 THEN "calls" ELSE "message",
             !.accepted = IF @ = "waiting" THEN "processing" ELSE @]
            \in StateTypes
      <4> HIDE DEF CommitDeferred
      <4> QED BY <3>1 DEF StateTypes
    <3> QED BY <1>0, <1>3, <3>1, <3>2 DEF ResponseProcessed
  <2> QED BY <1>3, <2>1, <2>2 DEF ResponseProcessed, TypeOK, LoopTypes
<1>4. CASE ToolsFail
  <2>1. local' \in LocalTypes /\ pc' \in {"cleaning", "catching"}
    BY <1>0, <1>4 DEF ToolsFail, Errors
  <2> QED BY <1>4, <2>1 DEF ToolsFail, TypeOK, LoopTypes
<1>5. CASE FinalOutputProduced
  <2>1. state' \in StateTypes
    BY <1>0, <1>5 DEF FinalOutputProduced, StateTypes, Steps
  <2> QED BY <1>5, <2>1 DEF FinalOutputProduced, TypeOK, LoopTypes
<1>6. CASE TurnContinues
  <2>1. state' \in StateTypes
    BY <1>0, <1>6 DEF TurnContinues, StateTypes, Steps
  <2>2. pc' \in {"loop", "cleaning", "interrupting"}
    BY <1>6 DEF TurnContinues
  <2> QED BY <1>6, <2>1, <2>2 DEF TurnContinues, TypeOK, LoopTypes
<1>7. CASE InterruptionSaved
  <2>1. PICK error \in {"none", "session"} :
          /\ pc' = IF error = "none" THEN "cleaning" ELSE "catching"
          /\ local' = InputSaved(error)
    BY <1>7 DEF InterruptionSaved
  <2>2. local' \in LocalTypes
    BY <2>1, LocalTyped DEF Errors
  <2> QED BY <1>7, <2>1, <2>2, HistoryTyped
          DEF InterruptionSaved, TypeOK, LoopTypes
<1>8. CASE OutputRejected
  <2>1. local' \in LocalTypes /\ pc' \in {"cleaning", "catching"}
    BY <1>0, <1>8, LocalTyped DEF OutputRejected, Errors
  <2>2. history' = history \/ history' = InputWrites
    BY <1>8 DEF OutputRejected
  <2> QED BY <1>8, <2>1, <2>2, HistoryTyped DEF OutputRejected, TypeOK, LoopTypes
<1>9. CASE OutputAccepted
  <2>1. local' \in LocalTypes
    BY <1>0, <1>9, LocalTyped DEF OutputAccepted
  <2>2. \/ history' = [history EXCEPT !.accepted = TRUE]
        \/ history' = [InputWrites EXCEPT !.accepted = TRUE]
    BY <1>9 DEF OutputAccepted
  <2>3. state' \in StateTypes
    BY <1>0, <1>9 DEF OutputAccepted, StateTypes
  <2> QED BY <1>9, <2>1, <2>2, <2>3, HistoryTyped
          DEF OutputAccepted, TypeOK, LoopTypes
<1>10. CASE OutputNotSaved
  <2>1. local' \in LocalTypes /\ pc' \in {"cleaning", "catching"}
    BY <1>0, <1>10, LocalTyped DEF OutputNotSaved, Errors
  <2>2. state' \in StateTypes
    BY <1>0, <1>10 DEF OutputNotSaved, StateTypes
  <2> QED BY <1>10, <2>1, <2>2, HistoryTyped
          DEF OutputNotSaved, TypeOK, LoopTypes
<1>11. CASE CatchError
  <2> DEFINE s == [CaughtState EXCEPT
                     !.staged = IF local.deferred /\ ~GuardrailsFailed
                                THEN FALSE ELSE @]
             l == [local EXCEPT !.deferred = FALSE, !.snapshot = NoSnapshot]
  <2>1. \/ /\ pc' = "cleaning" /\ state' = CommitDeferred
           /\ local' = [local EXCEPT !.deferred = FALSE, !.error = "session"]
        \/ /\ pc' = "finalizing"
           /\ state' = [s EXCEPT !.step = "final_output"]
           /\ local' = [l EXCEPT !.handled = TRUE, !.error = "none"]
        \/ /\ pc' = "cleaning" /\ state' = s
           /\ local' = [l EXCEPT !.error = SurfacedError]
    BY <1>11 DEF CatchError, StartFinalization
  <2>2. s \in StateTypes
    <3>1. CaughtState \in StateTypes
      BY RollbackTyped
    <3> HIDE DEF CaughtState
    <3> QED BY <3>1 DEF StateTypes
  <2>3. l \in LocalTypes
    BY <1>0 DEF LocalTypes, NoSnapshot
  <2>4. SurfacedError \in Errors \cup {"none"}
    BY <1>0 DEF SurfacedError, LocalTypes, Errors
  <2>5. [local EXCEPT !.deferred = FALSE, !.error = "session"] \in LocalTypes
    BY <1>0 DEF LocalTypes, Errors
  <2> HIDE DEF s, l, SurfacedError
  <2>6. [s EXCEPT !.step = "final_output"] \in StateTypes
    BY <2>2 DEF StateTypes, Steps
  <2>7. /\ [l EXCEPT !.handled = TRUE, !.error = "none"] \in LocalTypes
        /\ [l EXCEPT !.error = SurfacedError] \in LocalTypes
    BY <2>3, <2>4 DEF LocalTypes
  <2>8. /\ local' \in LocalTypes /\ state' \in StateTypes
        /\ pc' \in {"cleaning", "finalizing"}
    BY <2>1, <2>2, <2>5, <2>6, <2>7, CommitTyped
  <2> QED BY <1>11, <2>8 DEF CatchError, TypeOK, LoopTypes
<1>12. CASE CleanUp
  <2>1. local.error \in Errors \cup {"none"} /\ "session" \in Errors
    BY <1>0 DEF LocalTypes, Errors
  <2>2. local' \in LocalTypes
    BY <1>0, <1>12, <2>1, LocalTyped DEF CleanUp
  <2>3. sandbox' \in {"preserved", "closed", sandbox}
    BY <1>12 DEF CleanUp, SandboxFinalized
  <2>4. history' = history \/ history' = InputWrites
    BY <1>12 DEF CleanUp
  <2> QED BY <1>12, <2>2, <2>3, <2>4, HistoryTyped DEF CleanUp, TypeOK, LoopTypes
<1>13. CASE EndStream
  BY <1>13 DEF EndStream, TypeOK, LoopTypes
<1>14. CASE EmitEvent
  <2> DEFINE l == Recorded(feed.arrived)
  <2>1. \/ pc' \in {"settling", "streaming"} /\ local' = l
        \/ Fail([l EXCEPT !.completed = FALSE], "compaction")
    BY <1>14 DEF EmitEvent
  <2>2. l \in LocalTypes /\ [l EXCEPT !.completed = FALSE] \in LocalTypes
    BY RecordedTyped
  <2> HIDE DEF l
  <2>3. /\ local' \in LocalTypes
        /\ pc' \in {"settling", "streaming", "cleaning", "catching"}
    BY <1>0, <2>1, <2>2 DEF Errors
  <2>4. feed' \in FeedTypes
    BY <1>14 DEF EmitEvent, TypeOK, FeedTypes
  <2> QED BY <1>14, <2>3, <2>4 DEF EmitEvent, TypeOK, LoopTypes
<1> QED BY <1>1, <1>2, <1>3, <1>4, <1>5, <1>6, <1>7, <1>8, <1>9, <1>10, <1>11,
           <1>12, <1>13, <1>14

LEMMA NextIInv ==
  ASSUME IInv, [Next]_vars
  PROVE  IInv'
<1>1. CASE UNCHANGED vars
  <2>1. TypeOK'
    BY <1>1 DEF vars, IInv, TypeOK
  <2>2. StreamInv(stream)' <=> StreamInv(stream')
    BY DEF StreamInv, Contiguous, ReaderWaits, EndInOrder
  <2>3. stream' = stream
    BY <1>1 DEF vars
  <2> QED BY <2>1, <2>2, <2>3 DEF IInv
<1>2. CASE Next
  <2>1. TypeOK /\ StreamInv(stream)
    BY DEF IInv
  <2>2. StreamStep
    BY <1>2, <2>1, CallerStreamStep, ModelStreamStep, LoopStreamStep DEF Next
  <2>3. LoopTypes
    BY <1>2, <2>1, CallerTypes, ModelTypes, LoopTopTypes, LoopRestTypes
       DEF Next, Loop
  <2>4. TypeOK'
    BY <2>2, <2>3, StreamTyped DEF LoopTypes, TypeOK
  <2> QED BY <2>2, <2>4 DEF IInv, StreamStep
<1> QED BY <1>1, <1>2

(* The state of a streamed run has its types and its stream is in order.    *)
THEOREM TypeCorrect == Spec => []TypeOK
<1>1. Init => IInv
  BY InitIInv
<1>2. IInv /\ [Next]_vars => IInv'
  BY NextIInv
<1>3. IInv => TypeOK
  BY DEF IInv
<1> QED BY <1>1, <1>2, <1>3, PTL DEF Spec

------------------------------------------------------------------------------
(* Refinement.  The initial state has an empty open stream; every step of   *)
(* the run, the reader, the model and the caller is one of EventDelivery or *)
(* is not seen by the reader.                                               *)
LEMMA InitDelivers == ASSUME Init PROVE Delivery!Init
<1>1. stream = NewStream(0, FALSE)
  BY DEF Init
<1> QED BY <1>1, NewStreamOK DEF Delivery!Init

LEMMA StepDelivers ==
  ASSUME IInv, [Next]_vars
  PROVE  [Delivery!Next]_(Delivery!vars)
<1>1. CASE UNCHANGED vars
  BY <1>1 DEF vars, Delivery!vars
<1>2. CASE Next
  <2>1. TypeOK /\ StreamInv(stream)
    BY DEF IInv
  <2>2. StreamStep
    BY <1>2, <2>1, CallerStreamStep, ModelStreamStep, LoopStreamStep DEF Next
  <2>3. stream'.emitted \in Nat
    BY <2>2 DEF StreamStep, StreamInv, StreamTypes
  <2>4. CASE SameDelivery(stream, stream')
    BY <2>4 DEF SameDelivery, Ended, Delivery!vars
  <2>5. CASE Emits(stream, stream')
    <3>1. Delivery!Emit
      BY <2>3, <2>5 DEF Emits, Ended, Delivery!Emit
    <3> QED BY <3>1 DEF Delivery!Next
  <2>6. CASE Receives(stream, stream')
    <3>1. Delivery!Receive
      BY <2>6 DEF Receives, Ended, Delivery!Receive
    <3> QED BY <3>1 DEF Delivery!Next
  <2>7. CASE Ends(stream, stream')
    <3>1. Delivery!End
      BY <2>7 DEF Ends, Ended, Delivery!End
    <3> QED BY <3>1 DEF Delivery!Next
  <2>8. CASE Opens(stream')
    <3>1. Delivery!Open
      BY <2>8 DEF Opens, Ended, Delivery!Open
    <3> QED BY <3>1 DEF Delivery!Next
  <2> QED BY <2>2, <2>4, <2>5, <2>6, <2>7, <2>8 DEF StreamStep, Delivers
<1> QED BY <1>1, <1>2

(* The reader gets what the loop emits, in order and once, and all of it    *)
(* before its stream ends well: the streamed run implements EventDelivery.  *)
THEOREM ImplementsDelivery == Spec => DeliversEvents
<1>1. Init => IInv /\ Delivery!Init
  BY InitIInv, InitDelivers
<1>2. IInv /\ [Next]_vars => IInv'
  BY NextIInv
<1>3. IInv /\ [Next]_vars => [Delivery!Next]_(Delivery!vars)
  BY StepDelivers
<1> QED BY <1>1, <1>2, <1>3, PTL DEF Spec, DeliversEvents, Delivery!Spec

------------------------------------------------------------------------------
(* The guardrails.  Where the loop works with a response or starts another  *)
(* turn, the guardrails of the turn have passed or there were none; when it *)
(* has ended none is running.                                               *)
BatchInv ==
  /\ pc \in {"loop", "retaking", "resuming", "resumed", "admitting",
             "reconciling", "tools", "interrupting", "finalizing"}
       => batch \in {"none", "passed"}
  /\ pc \in {"ending", "idle"} => ~GuardrailsPending

LEMMA NextBatchInv ==
  ASSUME TypeOK, BatchInv, Next
  PROVE  BatchInv'
<1> USE DEF GuardrailsPending, GuardrailsFailed
<1>0. batch \in {"none", "running", "observed", "failed", "passed"}
  BY DEF TypeOK
<1>1. CASE Caller \/ Read
  BY <1>1 DEF Caller, Run, AddInput, StopReading, Abort, Read, BatchInv
<1>2. CASE GuardrailsSettle
  BY <1>2 DEF GuardrailsSettle, GuardrailStep, BatchInv
<1>3. CASE Model
  BY <1>3 DEF Model, ModelEvent, ModelStreamEnds, ModelAborted, ModelFails,
              Fail, BatchInv
<1>4. CASE StopAtTop \/ ResumeAcceptedResponse \/ ResumeInterruption
             \/ FinalizeAgain \/ InterruptionResumed \/ BeginTurn
             \/ PreparationFails
  BY <1>4 DEF StopAtTop, ReturnFromLoop, ResumeAcceptedResponse,
              ResumeInterruption, FinalizeAgain, StartFinalization,
              InterruptionResumed, BeginTurn, PreparationFails, Fail, BatchInv
<1>5. CASE TurnPrepared \/ AdmittedInputSaved
  BY <1>0, <1>5 DEF TurnPrepared, AdmittedInputSaved, ReturnUnstarted,
                    RequestModel, Fail, BatchInv
<1>6. CASE EmitEvent \/ Settled \/ CallsReconciled \/ ResponseProcessed
  BY <1>0, <1>6 DEF EmitEvent, Settled, CallsReconciled, ResponseProcessed,
                    GuardrailsSettled, ExitSettled, Fail, BatchInv
<1>7. CASE ToolsFail \/ FinalOutputProduced \/ TurnContinues
             \/ InterruptionSaved \/ OutputRejected \/ OutputAccepted
             \/ OutputNotSaved
  BY <1>7 DEF ToolsFail, FinalOutputProduced, TurnContinues,
              InterruptionSaved, OutputRejected, OutputAccepted,
              OutputNotSaved, Fail, BatchInv
<1>8. CASE CatchError
  <2>1. ~GuardrailsPending /\ batch' = batch
    BY <1>8 DEF CatchError
  <2>3. pc' = "cleaning" \/ (pc' = "finalizing" /\ SurfacedError = "maxTurns")
    <3> HIDE DEF GuardrailsPending, GuardrailsFailed
    <3> QED BY <1>8 DEF CatchError, StartFinalization
  <2>2. SurfacedError = "maxTurns" => batch # "failed"
    BY DEF SurfacedError
  <2> QED BY <1>0, <2>1, <2>2, <2>3 DEF BatchInv
<1>9. CASE CleanUp \/ EndStream
  BY <1>9 DEF CleanUp, EndStream, BatchInv
<1>10. CASE AcceptedResponseResolved \/ FinalizeResumedTurn
  BY <1>10 DEF AcceptedResponseResolved, FinalizeResumedTurn,
               StartFinalization, BatchInv
<1> QED BY <1>1, <1>2, <1>3, <1>4, <1>5, <1>6, <1>7, <1>8, <1>9, <1>10
        DEF Next, Loop

GuardedInv == IInv /\ BatchInv

LEMMA GuardedInvariant ==
  /\ Init => GuardedInv
  /\ GuardedInv /\ [Next]_vars => GuardedInv'
<1>1. Init => BatchInv
  BY DEF Init, BatchInv, GuardrailsPending
<1>2. ASSUME GuardedInv, [Next]_vars PROVE BatchInv'
  <2>1. CASE UNCHANGED vars
    BY <1>2, <2>1
       DEF GuardedInv, vars, BatchInv, GuardrailsPending
  <2> QED BY <1>2, <2>1, NextBatchInv DEF GuardedInv, IInv
<1> QED BY <1>1, <1>2, InitIInv, NextIInv DEF GuardedInv

(* An event of the model is taken to be emitted when no guardrail failed.   *)
LEMMA EventsAreChecked ==
  ASSUME Next, pc' = "emitting", pc # "emitting"
  PROVE  ~GuardrailsFailed
<1>1. CASE Caller \/ Read \/ GuardrailsSettle
  BY <1>1 DEF Caller, Run, AddInput, StopReading, Abort, Read,
              GuardrailsSettle, GuardrailStep
<1>2. CASE Model
  BY <1>2 DEF Model, ModelEvent, ModelStreamEnds, ModelAborted, ModelFails, Fail
<1>3. CASE \/ StopAtTop \/ ResumeAcceptedResponse \/ AcceptedResponseResolved
           \/ ResumeInterruption \/ FinalizeAgain \/ InterruptionResumed
           \/ FinalizeResumedTurn \/ BeginTurn \/ PreparationFails
           \/ TurnPrepared \/ AdmittedInputSaved
  BY <1>3 DEF StopAtTop, ReturnFromLoop, ResumeAcceptedResponse,
              AcceptedResponseResolved, ResumeInterruption, FinalizeAgain,
              InterruptionResumed, FinalizeResumedTurn, BeginTurn,
              PreparationFails, TurnPrepared, AdmittedInputSaved,
              ReturnUnstarted, RequestModel, StartFinalization, Fail
<1>4. CASE \/ EmitEvent \/ Settled \/ CallsReconciled \/ ResponseProcessed
           \/ ToolsFail \/ FinalOutputProduced \/ TurnContinues
           \/ InterruptionSaved \/ OutputRejected \/ OutputAccepted
           \/ OutputNotSaved \/ CatchError \/ CleanUp \/ EndStream
  BY <1>4 DEF EmitEvent, Settled, ExitSettled, CallsReconciled,
              ResponseProcessed, ToolsFail, FinalOutputProduced,
              TurnContinues, InterruptionSaved, OutputRejected,
              OutputAccepted, OutputNotSaved, CatchError, CleanUp, EndStream,
              StartFinalization, Fail
<1> QED BY <1>1, <1>2, <1>3, <1>4 DEF Next, Loop

(* Items of the response, tool results and outputs are emitted when every   *)
(* input guardrail has passed; once one has failed, no further event of the *)
(* model is taken to be emitted.                                            *)
THEOREM EventsWait == Spec => EventsWaitForGuardrails
<1>1. ASSUME GuardedInv, [Next]_vars
      PROVE  [/\ stream'.emitted > stream.emitted =>
                   pc = "emitting" \/ (~GuardrailsFailed /\ ~GuardrailsPending)
              /\ pc' = "emitting" /\ pc # "emitting" => ~GuardrailsFailed]_vars
  <2>1. CASE Next
    <3>1. TypeOK /\ StreamInv(stream) /\ BatchInv
      BY <1>1 DEF GuardedInv, IInv
    <3>2. StreamStep
      BY <2>1, <3>1, CallerStreamStep, ModelStreamStep, LoopStreamStep DEF Next
    <3>3. pc' = "emitting" /\ pc # "emitting" => ~GuardrailsFailed
      BY <2>1, EventsAreChecked
    <3>4. stream'.emitted > stream.emitted =>
            pc = "emitting" \/ (~GuardrailsFailed /\ ~GuardrailsPending)
      BY <3>1, <3>2
         DEF StreamStep, MayEmit, BatchInv, GuardrailsFailed, GuardrailsPending
    <3> QED BY <3>3, <3>4
  <2> QED BY <1>1, <2>1
<1> QED BY <1>1, GuardedInvariant, PTL DEF Spec, EventsWaitForGuardrails

------------------------------------------------------------------------------
(* The final output.                                                        *)
LEMMA NextOutputAccepted ==
  ASSUME IInv, FinalOutputIsAccepted, Next
  PROVE  FinalOutputIsAccepted'
<1> USE DEF FinalOutputIsAccepted
<1>0. /\ StreamInv(stream) /\ stream.turn \in Nat /\ stream.hidden \in BOOLEAN
      /\ state.turn \in Nat /\ state \in StateTypes
      /\ history \in [runs : Nat, inputs : Nat, inputWrites : Nat,
                      accepted : BOOLEAN, unreconciled : BOOLEAN]
  BY DEF IInv, TypeOK, StreamTypes, StateTypes
<1>1. CASE Run
  <2>1. PICK aborted \in BOOLEAN :
          LET s == NewStream(state.turn, state.step = "final_output")
          IN  stream' = IF aborted THEN CancelStream(s) ELSE s
    BY <1>1 DEF Run
  <2> DEFINE s == NewStream(state.turn, state.step = "final_output")
  <2>2. StreamInv(s) /\ s.hidden = (state.step = "final_output")
    BY <1>0, NewStreamOK
  <2>3. stream' = IF aborted THEN CancelStream(s) ELSE s
    BY <2>1
  <2> HIDE DEF s
  <2>4. stream'.hidden = s.hidden
    BY <2>2, <2>3, CancelStreamOK DEF Shown
  <2>5. state' = state
    BY <1>1 DEF Run
  <2> QED BY <2>2, <2>4, <2>5
<1>2. CASE AddInput
  BY <1>0, <1>2 DEF AddInput, StateTypes
<1>3. CASE StopReading \/ Abort
  <2>1. stream' = CancelStream(stream) /\ UNCHANGED <<state, history, pc>>
    BY <1>3 DEF StopReading, Abort
  <2> QED BY <1>0, <2>1, CancelStreamOK DEF Shown
<1>4. CASE Read
  <2>1. /\ stream' = DrainStreamQueue([stream EXCEPT !.wanted = TRUE])
        /\ stream.end = "open" /\ ~stream.wanted
        /\ UNCHANGED <<state, history, pc>>
    BY <1>4 DEF Read
  <2> QED BY <1>0, <2>1, ReadOK DEF Shown
<1>5. CASE GuardrailsSettle
  BY <1>5 DEF GuardrailsSettle, GuardrailStep
<1>6. CASE Model
  <2>1. stream' = stream /\ pc # "resumed"
    BY <1>6 DEF Model, ModelEvent, ModelStreamEnds, ModelAborted, ModelFails
  <2>3. \/ state' = state
        \/ \E available \in BOOLEAN : state' = MarkedState(available)
    BY <1>6 DEF Model, ModelEvent, ModelStreamEnds, ModelAborted, ModelFails
  <2>4. state'.step \in {state.step, "interruption"}
    BY <1>0, <2>3 DEF MarkedState, Checkpointed, StateTypes
  <2>5. history' = history
    BY <1>6 DEF Model, ModelEvent, ModelStreamEnds, ModelAborted, ModelFails
  <2> QED BY <2>1, <2>4, <2>5
<1>7. CASE \/ StopAtTop \/ ResumeAcceptedResponse \/ ResumeInterruption
           \/ BeginTurn \/ PreparationFails \/ TurnPrepared
           \/ AdmittedInputSaved \/ Settled \/ CallsReconciled \/ ToolsFail
           \/ InterruptionSaved \/ OutputRejected \/ CleanUp
  <2>4. pc # "resumed"
    BY <1>7
       DEF StopAtTop, ResumeAcceptedResponse, ResumeInterruption, BeginTurn,
           PreparationFails, TurnPrepared, AdmittedInputSaved, Settled,
           CallsReconciled, ToolsFail, InterruptionSaved, OutputRejected,
           CleanUp
  <2>1. stream'.hidden = stream.hidden
    BY <1>0, <1>7, TurnPublished
       DEF StopAtTop, ResumeAcceptedResponse, ResumeInterruption, BeginTurn,
           PreparationFails, TurnPrepared, AdmittedInputSaved, RequestModel,
           Settled, CallsReconciled, ToolsFail, InterruptionSaved,
           OutputRejected, CleanUp, Shown
  <2>2. state'.step \in {state.step, "run_again"}
    BY <1>0, <1>7
       DEF StopAtTop, ResumeAcceptedResponse, ResumeInterruption, BeginTurn,
           PreparationFails, TurnPrepared, AdmittedInputSaved,
           ReturnUnstarted, RollbackUnstartedTurn, CommitDeferred,
           Settled, CallsReconciled, ToolsFail, InterruptionSaved,
           OutputRejected, CleanUp, StateTypes
  <2>3. history'.accepted = history.accepted
    BY <1>0, <1>7
       DEF StopAtTop, ResumeAcceptedResponse, ResumeInterruption, BeginTurn,
           PreparationFails, TurnPrepared, AdmittedInputSaved, RequestModel,
           Settled, CallsReconciled, ToolsFail, InterruptionSaved,
           OutputRejected, CleanUp, InputWrites
  <2> QED BY <2>1, <2>2, <2>3, <2>4
<1>8. CASE FinalizeAgain
  <2>1. StartFinalization \/ UNCHANGED stream
    BY <1>8 DEF FinalizeAgain
  <2>2. stream'.hidden \/ stream'.hidden = stream.hidden
    BY <1>0, <2>1, FinalizationStarted
  <2>3. UNCHANGED <<state, history>> /\ pc # "resumed"
    BY <1>8 DEF FinalizeAgain
  <2> QED BY <2>2, <2>3
<1>9. CASE InterruptionResumed
  <2>1. \/ UNCHANGED <<state, stream>>
        \/ /\ \E n \in {1, 2} : stream' = AddItems(stream, n)
           /\ state'.step \in {state.step, "none", "run_again"}
        \/ pc' = "resumed"
    BY <1>0, <1>9 DEF InterruptionResumed, StateTypes
  <2>2. history' = history /\ pc = "resuming"
    BY <1>9 DEF InterruptionResumed
  <2>3. CASE \E n \in {1, 2} : stream' = AddItems(stream, n)
    <3>1. stream'.hidden = stream.hidden
      BY <1>0, <2>3, AddItemsOK DEF Shown
    <3> QED BY <2>1, <2>2, <3>1
  <2> QED BY <2>1, <2>2, <2>3
<1>10. CASE ResponseProcessed
  <2>1. stream' = stream \/ stream' = AddItems(stream, 1)
    BY <1>10 DEF ResponseProcessed
  <2>2. stream'.hidden = stream.hidden
    BY <1>0, <2>1, AddItemsOK DEF Shown
  <2>3. state'.step = state.step /\ history' = history /\ pc # "resumed"
    BY <1>0, <1>10 DEF ResponseProcessed, CommitDeferred, StateTypes
  <2> QED BY <2>2, <2>3
<1>11. CASE FinalOutputProduced
  <2>1. PICK n \in 0 .. 2 :
          stream' = [AddItems(stream, n) EXCEPT !.hidden = TRUE]
    <3>1. (IF state.response = "calls" THEN 1 ELSE 0) \in 0 .. 2
      OBVIOUS
    <3> QED BY <1>11, <3>1 DEF FinalOutputProduced
  <2>2. StreamInv(AddItems(stream, n))
    BY <1>0, AddItemsOK
  <2>3. stream'.hidden = TRUE
    BY <2>1, <2>2, HiddenStream
  <2> QED BY <2>3
<1>12. CASE TurnContinues
  <2>1. PICK n \in {1, 2} : stream' = AddItems(stream, n)
    BY <1>12 DEF TurnContinues
  <2>2. stream'.hidden = stream.hidden
    BY <1>0, <2>1, AddItemsOK DEF Shown
  <2>3. state'.step # "final_output" /\ history' = history
    BY <1>0, <1>12 DEF TurnContinues, StateTypes
  <2> QED BY <2>3
<1>13. CASE OutputAccepted
  <2>1. history'.accepted
    <3>1. /\ [history EXCEPT !.accepted = TRUE].accepted
          /\ [InputWrites EXCEPT !.accepted = TRUE].accepted
      BY <1>0 DEF InputWrites
    <3> QED BY <1>13, <3>1 DEF OutputAccepted
  <2> QED BY <2>1
<1>14. CASE OutputNotSaved
  <2>1. stream' = stream \/ stream' = RaiseError(AddItems(stream, 1), TRUE)
    BY <1>14 DEF OutputNotSaved
  <2>2. stream'.hidden = stream.hidden
    BY <1>0, <2>1, KeptAndRaised DEF Shown
  <2>3. /\ state'.step = state.step /\ history'.accepted = history.accepted
        /\ pc # "resumed"
    BY <1>0, <1>14 DEF OutputNotSaved, InputWrites, StateTypes
  <2> QED BY <2>2, <2>3
<1>15. CASE CatchError
  <2>1. \/ StartFinalization
        \/ /\ stream' = stream
           /\ \/ state' = CommitDeferred
              \/ state' = [CaughtState EXCEPT
                             !.staged = IF local.deferred /\ ~GuardrailsFailed
                                        THEN FALSE ELSE @]
    BY <1>15 DEF CatchError
  <2>2. CASE StartFinalization
    BY <1>0, <2>2, FinalizationStarted
  <2>3. CASE stream' = stream /\ state'.step = state.step
    <3>1. history' = history /\ pc # "resumed"
      BY <1>15 DEF CatchError
    <3> QED BY <2>3, <3>1
  <2>4. /\ CommitDeferred.step = state.step
        /\ [CaughtState EXCEPT
              !.staged = IF local.deferred /\ ~GuardrailsFailed
                         THEN FALSE ELSE @].step = state.step
    BY <1>0 DEF CommitDeferred, CaughtState, RollbackUnstartedTurn, StateTypes
  <2> QED BY <2>1, <2>2, <2>3, <2>4
<1>16. CASE EndStream
  <2>1. stream' = Done(stream) \/ stream' = RaiseError(stream, FALSE)
    BY <1>16 DEF EndStream
  <2>2. stream'.hidden = stream.hidden
    BY <1>0, <2>1, DoneOK, RaiseErrorOK DEF Shown
  <2>3. UNCHANGED <<state, history>> /\ pc # "resumed"
    BY <1>16 DEF EndStream
  <2> QED BY <2>2, <2>3
<1>17. CASE AcceptedResponseResolved
  BY <1>17 DEF AcceptedResponseResolved
<1>18. CASE FinalizeResumedTurn
  BY <1>0, <1>18, FinalizationStarted DEF FinalizeResumedTurn
<1>19. CASE EmitEvent
  <2>1. stream' = stream \/ stream' = AddItems(stream, 1)
    BY <1>19 DEF EmitEvent
  <2>2. stream'.hidden = stream.hidden
    BY <1>0, <2>1, AddItemsOK DEF Shown
  <2>3. UNCHANGED <<state, history>> /\ pc # "resumed"
    BY <1>19 DEF EmitEvent
  <2> QED BY <2>2, <2>3
<1> QED BY <1>1, <1>2, <1>3, <1>4, <1>5, <1>6, <1>7, <1>8, <1>9, <1>10, <1>11,
           <1>12, <1>13, <1>14, <1>15, <1>16, <1>17, <1>18, <1>19
        DEF Next, Caller, Loop

(* The result shows a final output only when the output guardrails have     *)
(* passed and it is saved, also when a failed run is resumed, but for the   *)
(* awaits in which a resumed turn has put its output in the state and not   *)
(* yet hidden it.                                                           *)
THEOREM OutputAcceptedFirst == Spec => []FinalOutputIsAccepted
<1>1. Init => FinalOutputIsAccepted
  BY DEF Init, FinalOutputIsAccepted
<1>2. ASSUME IInv, FinalOutputIsAccepted, [Next]_vars
      PROVE  FinalOutputIsAccepted'
  <2>1. CASE UNCHANGED vars
    BY <1>2, <2>1 DEF vars, FinalOutputIsAccepted
  <2> QED BY <1>2, <2>1, NextOutputAccepted
<1> QED BY <1>1, <1>2, InitIInv, NextIInv, PTL DEF Spec

------------------------------------------------------------------------------
(* The input in the session.  What is written is what the loop noted, and a *)
(* run that asked the model has written its input when it is over.          *)
SavedInv ==
  /\ history.inputWrites = IF local.inputSaved THEN 1 ELSE 0
  /\ pc \in {"ending", "idle"} /\ local.sent /\ ~managed
       /\ ~GuardrailsFailed /\ local.error # "compaction"
       => local.inputSaved

(* The steps that write: the first of a run writes the input.               *)
LEMMA WriteIsNoted ==
  ASSUME TypeOK, SavedInv, NEW error
  PROVE  /\ InputWrites.inputWrites = 1
         /\ InputSaved(error).inputSaved
         /\ InputSaved(error).sent = local.sent
BY DEF TypeOK, SavedInv, InputWrites, InputSaved, LocalTypes

LEMMA NextSavedInv ==
  ASSUME TypeOK, BatchInv, SavedInv, Next
  PROVE  SavedInv'
<1>0. /\ local \in LocalTypes
      /\ history \in [runs : Nat, inputs : Nat, inputWrites : Nat,
                      accepted : BOOLEAN, unreconciled : BOOLEAN]
      /\ batch \in {"none", "running", "observed", "failed", "passed"}
  BY DEF TypeOK
<1>1. CASE Run
  BY <1>0, <1>1 DEF Run, SavedInv, NoLocals
<1>2. CASE AddInput \/ StopReading \/ Abort \/ Read \/ EndStream
  BY <1>0, <1>2 DEF AddInput, StopReading, Abort, Read, EndStream,
                    SavedInv, GuardrailsFailed
<1>3. CASE GuardrailsSettle
  BY <1>3 DEF GuardrailsSettle, GuardrailStep, SavedInv, BatchInv,
              GuardrailsFailed, GuardrailsPending
<1>4. CASE ModelEvent \/ EmitEvent
  <2>1. CASE ModelEvent
    <3>1. \/ local' = [[Marked(local) EXCEPT !.received = TRUE]
                         EXCEPT !.error = "guardrail"]
          \/ local' = [Marked(local) EXCEPT !.received = TRUE]
      BY <2>1 DEF ModelEvent, Fail
    <3>2. local'.inputSaved = local.inputSaved
      BY <1>0, <3>1 DEF Marked, LocalTypes
    <3>3. pc' \notin {"ending", "idle"} /\ history' = history
      BY <2>1 DEF ModelEvent, Fail
    <3> QED BY <3>2, <3>3 DEF SavedInv
  <2>2. CASE EmitEvent
    <3> DEFINE l == Recorded(feed.arrived)
    <3>1. \/ local' = l
          \/ local' = [[l EXCEPT !.completed = FALSE] EXCEPT !.error = "compaction"]
      BY <2>2 DEF EmitEvent, Fail
    <3>2. l \in LocalTypes /\ l.inputSaved = local.inputSaved
      BY RecordedTyped
    <3> HIDE DEF l
    <3>3. local'.inputSaved = local.inputSaved
      BY <3>1, <3>2 DEF LocalTypes
    <3>4. pc' \notin {"ending", "idle"} /\ history' = history
      BY <2>2 DEF EmitEvent, Fail
    <3> QED BY <3>3, <3>4 DEF SavedInv
  <2> QED BY <1>4, <2>1, <2>2
<1>5. CASE ModelStreamEnds \/ ModelAborted \/ ModelFails
  <2>1. local'.inputSaved = local.inputSaved
    BY <1>0, <1>5 DEF ModelStreamEnds, ModelAborted, ModelFails, Marked, Fail,
                      LocalTypes
  <2>2. pc' \notin {"ending", "idle"} /\ history' = history
    BY <1>5 DEF ModelStreamEnds, ModelAborted, ModelFails, Fail
  <2> QED BY <2>1, <2>2 DEF SavedInv
<1>6. CASE \/ StopAtTop \/ ResumeAcceptedResponse \/ ResumeInterruption
           \/ FinalizeAgain \/ InterruptionResumed \/ BeginTurn
           \/ PreparationFails \/ TurnPrepared \/ AdmittedInputSaved
           \/ AcceptedResponseResolved \/ FinalizeResumedTurn
  <2>1. local'.inputSaved = local.inputSaved
    BY <1>0, <1>6
       DEF StopAtTop, ReturnFromLoop, ResumeAcceptedResponse,
           ResumeInterruption, FinalizeAgain, InterruptionResumed, BeginTurn,
           PreparationFails, TurnPrepared, AdmittedInputSaved,
           ReturnUnstarted, RequestModel, Fail, LocalTypes,
           AcceptedResponseResolved, FinalizeResumedTurn
  <2>2. pc' \notin {"ending", "idle"}
    BY <1>6
       DEF StopAtTop, ReturnFromLoop, ResumeAcceptedResponse,
           ResumeInterruption, FinalizeAgain, StartFinalization,
           InterruptionResumed, BeginTurn, PreparationFails, TurnPrepared,
           AdmittedInputSaved, ReturnUnstarted, RequestModel, Fail,
           AcceptedResponseResolved, FinalizeResumedTurn
  <2>3. history' = history
    BY <1>6
       DEF StopAtTop, ResumeAcceptedResponse, ResumeInterruption,
           FinalizeAgain, InterruptionResumed, BeginTurn, PreparationFails,
           TurnPrepared, AdmittedInputSaved, RequestModel,
           AcceptedResponseResolved, FinalizeResumedTurn
  <2> QED BY <2>1, <2>2, <2>3 DEF SavedInv
<1>7. CASE \/ Settled \/ CallsReconciled \/ ResponseProcessed \/ ToolsFail
           \/ FinalOutputProduced \/ TurnContinues
  <2>1. local'.inputSaved = local.inputSaved
    BY <1>0, <1>7
       DEF Settled, CallsReconciled, ResponseProcessed, ToolsFail,
           FinalOutputProduced, TurnContinues, ExitSettled, Fail, LocalTypes
  <2>2. pc' \notin {"ending", "idle"}
    BY <1>7
       DEF Settled, CallsReconciled, ResponseProcessed, ToolsFail,
           FinalOutputProduced, TurnContinues, ExitSettled, Fail
  <2>3. history'.inputWrites = history.inputWrites
    BY <1>0, <1>7
       DEF Settled, CallsReconciled, ResponseProcessed, ToolsFail,
           FinalOutputProduced, TurnContinues
  <2> QED BY <2>1, <2>2, <2>3 DEF SavedInv
<1>8. CASE InterruptionSaved
  <2>1. PICK error \in {"none", "session"} :
          /\ pc' = IF error = "none" THEN "cleaning" ELSE "catching"
          /\ local' = InputSaved(error) /\ history' = InputWrites
    BY <1>8 DEF InterruptionSaved
  <2> QED BY <2>1, WriteIsNoted DEF SavedInv
<1>9. CASE OutputRejected \/ OutputAccepted \/ OutputNotSaved
  <2>1. pc' \notin {"ending", "idle"}
    BY <1>9 DEF OutputRejected, OutputAccepted, OutputNotSaved, Fail
  <2>2. \/ /\ local'.inputSaved = local.inputSaved
           /\ history'.inputWrites = history.inputWrites
        \/ local'.inputSaved /\ history'.inputWrites = 1
    <3>1. /\ InputWrites.inputWrites = 1 /\ InputSaved("none").inputSaved
          /\ [InputSaved("none") EXCEPT !.error = "session"].inputSaved
          /\ [InputSaved("none") EXCEPT !.error = "outputGuardrail"].inputSaved
          /\ [InputWrites EXCEPT !.accepted = TRUE].inputWrites = 1
      BY <1>0, WriteIsNoted DEF InputSaved, InputWrites, LocalTypes
    <3>2. /\ [history EXCEPT !.accepted = TRUE].inputWrites
               = history.inputWrites
          /\ [local EXCEPT !.error = "outputGuardrail"].inputSaved
               = local.inputSaved
      BY <1>0 DEF LocalTypes
    <3> HIDE DEF InputWrites, InputSaved
    <3>3. CASE OutputRejected
      BY <3>1, <3>2, <3>3 DEF OutputRejected, Fail
    <3>4. CASE OutputAccepted
      BY <3>1, <3>2, <3>4 DEF OutputAccepted
    <3>5. CASE OutputNotSaved
      BY <3>1, <3>5 DEF OutputNotSaved, Fail
    <3> QED BY <1>9, <3>3, <3>4, <3>5
  <2> QED BY <2>1, <2>2 DEF SavedInv
<1>10. CASE CatchError
  <2>1. pc' \notin {"ending", "idle"} /\ history' = history
    BY <1>10 DEF CatchError, StartFinalization
  <2>2. local'.inputSaved = local.inputSaved
    BY <1>0, <1>10 DEF CatchError, LocalTypes
  <2> QED BY <2>1, <2>2 DEF SavedInv
<1>11. CASE CleanUp
  <2>1. UNCHANGED <<managed, batch>>
    BY <1>11 DEF CleanUp
  <2>2. CASE /\ MustSaveInput
             /\ \E error \in {local.error, "session"} : local' = InputSaved(error)
             /\ history' = InputWrites
    BY <2>2, WriteIsNoted DEF SavedInv
  <2>3. CASE ~MustSaveInput /\ UNCHANGED <<local, history>>
    BY <2>1, <2>3 DEF SavedInv, MustSaveInput, GuardrailsFailed
  <2> QED BY <1>11, <2>2, <2>3 DEF CleanUp
<1> QED BY <1>1, <1>2, <1>3, <1>4, <1>5, <1>6, <1>7, <1>8, <1>9, <1>10, <1>11
        DEF Next, Caller, Model, Loop

(* The input of a run that reached the model, was not refused and had its   *)
(* response used is written to the session, and never twice.                *)
THEOREM SavedOnce == Spec => []InputSavedOnce
<1>1. Init => SavedInv
  BY DEF Init, SavedInv, NoLocals
<1>2. ASSUME GuardedInv, SavedInv, [Next]_vars
      PROVE  SavedInv'
  <2>1. CASE UNCHANGED vars
    BY <1>2, <2>1 DEF vars, SavedInv, GuardrailsFailed
  <2> QED BY <1>2, <2>1, NextSavedInv DEF GuardedInv, IInv
<1>3. SavedInv => InputSavedOnce
  BY DEF SavedInv, InputSavedOnce
<1> QED BY <1>1, <1>2, <1>3, GuardedInvariant, PTL DEF Spec

------------------------------------------------------------------------------
(* Staged input.  Input a request of this call of run() carried is no       *)
(* longer staged, or waits for the verdict of the guardrails, or was        *)
(* refused; input of a managed conversation is staged until the server is   *)
(* known to have it.                                                        *)
AdmitInv ==
  /\ pc # "idle" /\ local.carries /\ ~managed
       => ~state.staged \/ local.deferred \/ GuardrailsFailed
  /\ pc # "idle" /\ local.carries /\ managed /\ local.marked
       => ~state.staged
  /\ pc = "admitting" => ~state.staged
  /\ local.deferred =>
       pc \in {"streaming", "emitting", "settling", "finishing", "catching",
              "idle"}
  /\ local.handled => pc \in {"finalizing", "cleaning", "ending", "idle"}

(* What a step leaves to the others: nothing of what is staged, carried,    *)
(* deferred and marked.                                                     *)
SameInput ==
  /\ state'.staged = state.staged
  /\ local'.carries = local.carries /\ local'.deferred = local.deferred
  /\ local'.marked = local.marked /\ managed' = managed

LEMMA NextAdmitInv ==
  ASSUME TypeOK, BatchInv, AdmitInv, Next
  PROVE  AdmitInv'
<1>0. /\ local \in LocalTypes /\ state \in StateTypes /\ managed \in BOOLEAN
      /\ batch \in {"none", "running", "observed", "failed", "passed"}
  BY DEF TypeOK
<1>1. CASE Run
  BY <1>0, <1>1 DEF Run, AdmitInv, NoLocals
<1>2. CASE AddInput
  <2>1. local' = local /\ pc = "idle" /\ pc' = "idle"
    BY <1>2 DEF AddInput
  <2> QED BY <2>1 DEF AdmitInv
<1>3. CASE StopReading \/ Abort \/ Read
  BY <1>3 DEF StopReading, Abort, Read, AdmitInv, GuardrailsFailed
<1>4. CASE GuardrailsSettle
  BY <1>4 DEF GuardrailsSettle, GuardrailStep, AdmitInv, GuardrailsFailed
<1>5. ASSUME NEW available \in BOOLEAN
      PROVE  /\ MarkedState(available).staged \in {state.staged, FALSE}
             /\ ~managed => MarkedState(available) = state
             /\ managed /\ local.carries /\ ~local.marked =>
                  ~MarkedState(available).staged
  BY <1>0 DEF MarkedState, Checkpointed, StateTypes
<1>6. CASE Model
  <2>1. pc = "streaming" /\ UNCHANGED <<managed, batch>> /\ ~local.handled
    BY <1>6 DEF Model, ModelEvent, ModelStreamEnds, ModelAborted, ModelFails,
                AdmitInv
  <2>2. /\ local'.carries = local.carries /\ local'.deferred = local.deferred
        /\ local'.handled = local.handled
    <3>1. CASE ModelEvent
      <4>1. \/ local' = [[Marked(local) EXCEPT !.received = TRUE]
                           EXCEPT !.error = "guardrail"]
            \/ local' = [Marked(local) EXCEPT !.received = TRUE]
        BY <3>1 DEF ModelEvent, Fail
      <4> QED BY <1>0, <4>1 DEF Marked, LocalTypes
    <3>2. CASE ModelStreamEnds \/ ModelAborted \/ ModelFails
      BY <1>0, <3>2 DEF ModelStreamEnds, ModelAborted, ModelFails, Marked, Fail,
                        LocalTypes
    <3> QED BY <1>6, <3>1, <3>2 DEF Model
  <2>3. \/ state' = state /\ local'.marked = local.marked
        \/ \E available \in BOOLEAN : state' = MarkedState(available)
    BY <1>0, <1>6 DEF Model, ModelEvent, ModelStreamEnds, ModelAborted,
                      ModelFails, Fail, LocalTypes
  <2>4. pc' \in {"emitting", "settling", "finishing", "catching"}
    <3>1. CASE ModelEvent
      <4>1. ~[Marked(local) EXCEPT !.received = TRUE].handled
        BY <1>0, <2>1 DEF Marked, LocalTypes
      <4> HIDE DEF Marked
      <4> QED BY <2>1, <3>1, <4>1 DEF ModelEvent, Fail
    <3>2. CASE ModelFails
      <4>1. ~local.handled /\ ~Marked(local).handled
        BY <1>0, <2>1 DEF Marked, LocalTypes
      <4> HIDE DEF Marked
      <4> QED BY <3>2, <4>1 DEF ModelFails, Fail
    <3> QED BY <1>6, <3>1, <3>2 DEF Model, ModelStreamEnds, ModelAborted
  <2>5. CASE state' = state /\ local'.marked = local.marked
    BY <2>1, <2>2, <2>4, <2>5 DEF AdmitInv, GuardrailsFailed
  <2>6. CASE \E available \in BOOLEAN : state' = MarkedState(available)
    <3>1. /\ ~managed => state'.staged = state.staged
          /\ managed /\ local.carries => ~state'.staged
      BY <1>0, <1>5, <2>1, <2>6 DEF AdmitInv
    <3> QED BY <2>1, <2>2, <2>4, <3>1 DEF AdmitInv, GuardrailsFailed
  <2> QED BY <2>3, <2>5, <2>6
<1>7. CASE \/ StopAtTop \/ ResumeAcceptedResponse \/ ResumeInterruption
           \/ FinalizeAgain \/ InterruptionResumed \/ BeginTurn
           \/ PreparationFails \/ AcceptedResponseResolved
           \/ FinalizeResumedTurn
  <2>1. pc \in {"loop", "retaking", "resuming", "resumed", "preparing"}
          /\ ~local.deferred
    BY <1>7 DEF AcceptedResponseResolved, FinalizeResumedTurn,
                StopAtTop, ResumeAcceptedResponse, ResumeInterruption,
                FinalizeAgain, InterruptionResumed, BeginTurn,
                PreparationFails, AdmitInv
  <2>2. SameInput /\ local'.handled = local.handled
    <3>1. CASE \/ StopAtTop \/ ResumeAcceptedResponse \/ ResumeInterruption
               \/ FinalizeAgain \/ PreparationFails
               \/ AcceptedResponseResolved \/ FinalizeResumedTurn
      BY <1>0, <3>1
         DEF StopAtTop, ReturnFromLoop, ResumeAcceptedResponse,
             ResumeInterruption, FinalizeAgain, PreparationFails, Fail,
             AcceptedResponseResolved, FinalizeResumedTurn, SameInput,
             LocalTypes, StateTypes
    <3>2. CASE InterruptionResumed
      <4>1. state'.staged = state.staged /\ managed' = managed
        BY <1>0, <3>2 DEF InterruptionResumed, StateTypes
      <4>2. /\ local'.carries = local.carries /\ local'.deferred = local.deferred
            /\ local'.marked = local.marked /\ local'.handled = local.handled
        BY <1>0, <3>2 DEF InterruptionResumed, Fail, LocalTypes
      <4> QED BY <4>1, <4>2 DEF SameInput
    <3>3. CASE BeginTurn
      <4>1. state'.staged = state.staged /\ managed' = managed
        BY <1>0, <3>3 DEF BeginTurn, StateTypes
      <4>2. /\ local'.carries = local.carries /\ local'.deferred = local.deferred
            /\ local'.marked = local.marked /\ local'.handled = local.handled
        BY <1>0, <3>3 DEF BeginTurn, Fail, LocalTypes
      <4> QED BY <4>1, <4>2 DEF SameInput
    <3> QED BY <1>7, <3>1, <3>2, <3>3
  <2>3. pc' \notin {"idle", "admitting"}
    BY <1>7
       DEF StopAtTop, ReturnFromLoop, ResumeAcceptedResponse,
           ResumeInterruption, FinalizeAgain, StartFinalization,
           InterruptionResumed, BeginTurn, PreparationFails, Fail,
           AcceptedResponseResolved, FinalizeResumedTurn
  <2>4. ~local.handled
    BY <2>1 DEF AdmitInv
  <2>5. batch' = batch \/ ~GuardrailsFailed
    BY <1>7 DEF StopAtTop, ResumeAcceptedResponse, ResumeInterruption,
                FinalizeAgain, InterruptionResumed, BeginTurn,
                PreparationFails, AcceptedResponseResolved,
                FinalizeResumedTurn, BatchInv, GuardrailsFailed
  <2> QED BY <2>1, <2>2, <2>3, <2>4, <2>5
          DEF AdmitInv, SameInput, GuardrailsFailed
<1>8. ASSUME NEW d \in BOOLEAN, RequestModel(d)
      PROVE  /\ local'.carries = (state.staged \/ pc = "admitting")
             /\ local'.deferred = d /\ ~local'.marked /\ pc' = "streaming"
             /\ local'.handled = local.handled
  BY <1>0, <1>8 DEF RequestModel, LocalTypes
<1>9. CASE TurnPrepared \/ AdmittedInputSaved
  <2>1. /\ pc \in {"preparing", "admitting"} /\ UNCHANGED <<managed, batch>>
        /\ ~local.deferred /\ ~local.handled
        /\ pc = "admitting" => ~state.staged
    BY <1>9 DEF TurnPrepared, AdmittedInputSaved, AdmitInv
  <2>2. CASE ReturnUnstarted
    <3>1. SameInput /\ local'.handled = local.handled /\ pc' = "cleaning"
      BY <1>0, <2>1, <2>2 DEF ReturnUnstarted, RollbackUnstartedTurn,
                              SameInput, LocalTypes, StateTypes
    <3> QED BY <2>1, <3>1 DEF AdmitInv, SameInput, GuardrailsFailed
  <2>3. CASE /\ pc' = "admitting" /\ ~managed
             /\ state' = [state EXCEPT !.staged = FALSE] /\ UNCHANGED local
    <3>1. ~state'.staged
      BY <1>0, <2>3 DEF StateTypes
    <3> QED BY <2>1, <2>3, <3>1 DEF AdmitInv
  <2>4. CASE Fail(local, "session") /\ UNCHANGED state
    <3>1. SameInput /\ local'.handled = local.handled /\ pc' = "catching"
      BY <1>0, <2>1, <2>4 DEF Fail, SameInput, LocalTypes
    <3> QED BY <2>1, <3>1 DEF AdmitInv, SameInput, GuardrailsFailed
  <2>5. CASE /\ UNCHANGED state
             /\ \/ RequestModel(~managed /\ state.staged)
                \/ RequestModel(FALSE) /\ ~state.staged
    <3>1. /\ local'.carries = (state.staged \/ pc = "admitting")
          /\ local'.deferred = (~managed /\ state.staged)
          /\ ~local'.marked /\ pc' = "streaming"
          /\ local'.handled = local.handled
      BY <1>8, <2>5
    <3> QED BY <1>0, <2>1, <2>5, <3>1 DEF AdmitInv
  <2> QED BY <1>9, <2>1, <2>2, <2>3, <2>4, <2>5
          DEF TurnPrepared, AdmittedInputSaved
<1>10. ~GuardrailsFailed /\ local.deferred => ~CommitDeferred.staged
  BY <1>0 DEF CommitDeferred, StateTypes
<1>11. ~local.deferred => CommitDeferred.staged = state.staged
  BY <1>0 DEF CommitDeferred, StateTypes
<1>12. CASE Settled \/ ResponseProcessed
  <2>1. /\ pc \in {"settling", "finishing"} /\ UNCHANGED <<managed, batch>>
        /\ ~local.handled
    BY <1>12 DEF Settled, ResponseProcessed, AdmitInv
  <2>2. CASE GuardrailsFailed /\ Fail(local, "guardrail") /\ UNCHANGED state
    <3>1. SameInput /\ local'.handled = local.handled /\ pc' = "catching"
      BY <1>0, <2>1, <2>2 DEF Fail, SameInput, LocalTypes
    <3> QED BY <2>1, <3>1 DEF AdmitInv, SameInput, GuardrailsFailed
  <2>3. CASE ~GuardrailsFailed
    <3> DEFINE l == [local EXCEPT !.deferred = FALSE]
    <3>1. /\ ~l.deferred /\ l.carries = local.carries /\ l.marked = local.marked
          /\ l.handled = local.handled /\ l \in LocalTypes
      BY <1>0 DEF LocalTypes
    <3>2. \/ \E e \in Errors : Fail(l, e)
          \/ pc' \in {"reconciling", "cleaning", "tools"} /\ local' = l
      <4>1. CASE Settled
        <5>1. \/ Fail(l, "session")
              \/ pc' = "reconciling" /\ local' = l
              \/ ExitSettled(l)
          <6>1. \/ local.deferred /\ Fail(l, "session")
                \/ NeedsReconciliation /\ pc' = "reconciling" /\ local' = l
                \/ ~NeedsReconciliation /\ ExitSettled(l)
            BY <2>3, <4>1 DEF Settled
          <6> QED BY <6>1
        <5>2. l.error # "none" => l.error \in Errors
          BY <3>1 DEF LocalTypes
        <5> HIDE DEF l
        <5> QED BY <5>1, <5>2 DEF ExitSettled, Errors
      <4>2. CASE ResponseProcessed
        BY <2>3, <4>2 DEF ResponseProcessed, Errors
      <4> QED BY <1>12, <4>1, <4>2
    <3>3. state'.staged = CommitDeferred.staged
      <4>1. CASE Settled
        BY <2>3, <4>1 DEF Settled
      <4>2. CASE ResponseProcessed
        <5>1. CommitDeferred \in StateTypes
          BY CommitTyped
        <5>2. [CommitDeferred EXCEPT
                 !.response = IF feed.calls > 0 THEN "calls" ELSE "message",
                 !.accepted = IF @ = "waiting" THEN "processing" ELSE @].staged
                = CommitDeferred.staged
          <6> HIDE DEF CommitDeferred
          <6> QED BY <5>1 DEF StateTypes
        <5> QED BY <2>3, <4>2, <5>2 DEF ResponseProcessed
      <4> QED BY <1>12, <4>1, <4>2
    <3> HIDE DEF l, CommitDeferred
    <3>4. /\ ~local'.deferred /\ local'.carries = local.carries
          /\ local'.marked = local.marked /\ local'.handled = local.handled
          /\ pc' \in {"catching", "reconciling", "cleaning", "tools"}
      BY <2>1, <3>1, <3>2 DEF Fail, LocalTypes
    <3>5. state'.staged => state.staged
      <4>1. CommitDeferred.staged => state.staged
        BY <1>10, <1>11, <2>3
      <4> QED BY <3>3, <4>1
    <3> QED BY <1>10, <2>1, <2>3, <3>3, <3>4, <3>5
            DEF AdmitInv, GuardrailsFailed
  <2> QED BY <1>12, <2>2, <2>3 DEF Settled, ResponseProcessed
<1>13. CASE CallsReconciled
  <2>1. /\ pc = "reconciling" /\ UNCHANGED <<managed, batch, state>>
        /\ ~local.handled /\ ~local.deferred
    BY <1>13 DEF CallsReconciled, AdmitInv
  <2>2. PICK l \in {local, [local EXCEPT !.pendingCalls = 0]} : ExitSettled(l)
    BY <1>13 DEF CallsReconciled
  <2>3. /\ l \in LocalTypes /\ l.carries = local.carries
        /\ l.deferred = local.deferred /\ l.marked = local.marked
        /\ l.handled = local.handled
    BY <1>0, <2>2 DEF LocalTypes
  <2>4. SameInput /\ ~local'.handled /\ pc' \in {"cleaning", "catching"}
    BY <2>1, <2>2, <2>3 DEF ExitSettled, Fail, SameInput, LocalTypes
  <2> QED BY <2>1, <2>4 DEF AdmitInv, SameInput, GuardrailsFailed
<1>14. CASE \/ ToolsFail \/ FinalOutputProduced \/ TurnContinues
            \/ InterruptionSaved \/ OutputRejected \/ OutputAccepted
            \/ OutputNotSaved
  <2>1. /\ pc \in {"retaking", "tools", "interrupting", "finalizing"}
        /\ UNCHANGED <<managed, batch>> /\ ~local.deferred
    BY <1>14 DEF ToolsFail, FinalOutputProduced, TurnContinues,
                 InterruptionSaved, OutputRejected, OutputAccepted,
                 OutputNotSaved, AdmitInv
  <2>2. SameInput /\ local'.handled = local.handled
    BY <1>0, <1>14, <2>1
       DEF ToolsFail, FinalOutputProduced, TurnContinues, InterruptionSaved,
           OutputRejected, OutputAccepted, OutputNotSaved, InputSaved, Fail,
           SameInput, LocalTypes, StateTypes
  <2>3. /\ pc' \in {"catching", "cleaning", "loop", "finalizing", "interrupting"}
        /\ local.handled => pc' \in {"cleaning"}
    BY <1>0, <1>14, <2>1
       DEF ToolsFail, FinalOutputProduced, TurnContinues, InterruptionSaved,
           OutputRejected, OutputAccepted, OutputNotSaved, InputSaved, Fail,
           AdmitInv, LocalTypes
  <2> QED BY <2>1, <2>2, <2>3 DEF AdmitInv, SameInput, GuardrailsFailed
<1>15. CASE CatchError
  <2>1. pc = "catching" /\ UNCHANGED <<managed, batch>> /\ ~local.handled
    BY <1>15 DEF CatchError, AdmitInv
  <2> DEFINE s == [CaughtState EXCEPT
                     !.staged = IF local.deferred /\ ~GuardrailsFailed
                                THEN FALSE ELSE @]
             l == [local EXCEPT !.deferred = FALSE, !.snapshot = NoSnapshot]
  <2>2. \/ /\ local.deferred /\ ~GuardrailsFailed
           /\ pc' = "cleaning" /\ state' = CommitDeferred
           /\ local' = [local EXCEPT !.deferred = FALSE, !.error = "session"]
        \/ /\ pc' = "finalizing"
           /\ state' = [s EXCEPT !.step = "final_output"]
           /\ local' = [l EXCEPT !.handled = TRUE, !.error = "none"]
        \/ /\ pc' = "cleaning" /\ state' = s
           /\ local' = [l EXCEPT !.error = SurfacedError]
    BY <1>15 DEF CatchError, StartFinalization
  <2>3. CaughtState \in StateTypes /\ CaughtState.staged = state.staged
    BY <1>0 DEF CaughtState, RollbackUnstartedTurn, StateTypes, LocalTypes
  <2>4. /\ s \in StateTypes
        /\ s.staged = (state.staged /\ ~(local.deferred /\ ~GuardrailsFailed))
    <3> HIDE DEF CaughtState
    <3> QED BY <1>0, <2>3 DEF StateTypes
  <2>5. /\ l.carries = local.carries /\ l.marked = local.marked /\ ~l.deferred
        /\ l \in LocalTypes /\ ~l.handled
    BY <1>0, <2>1 DEF LocalTypes, NoSnapshot
  <2> HIDE DEF s, l, CommitDeferred, SurfacedError
  <2>6. /\ ~local'.deferred /\ local'.carries = local.carries
        /\ local'.marked = local.marked
        /\ pc' \in {"cleaning", "finalizing"}
    BY <1>0, <2>2, <2>5 DEF LocalTypes
  <2>7. state'.staged => state.staged /\ ~(local.deferred /\ ~GuardrailsFailed)
    BY <1>0, <1>10, <2>2, <2>4 DEF StateTypes
  <2> QED BY <2>1, <2>6, <2>7 DEF AdmitInv, GuardrailsFailed
<1>16. CASE CleanUp \/ EndStream
  <2>1. pc \in {"cleaning", "ending"} /\ UNCHANGED <<managed, batch, state>>
          /\ pc' \in {"ending", "idle"} /\ ~local.deferred
    BY <1>16 DEF CleanUp, EndStream, AdmitInv
  <2>2. SameInput
    BY <1>0, <1>16, <2>1 DEF CleanUp, EndStream, InputSaved, SameInput, LocalTypes
  <2> QED BY <2>1, <2>2 DEF AdmitInv, SameInput, GuardrailsFailed
<1>17. CASE EmitEvent
  <2>1. pc = "emitting" /\ UNCHANGED <<managed, batch, state>> /\ ~local.handled
    BY <1>17 DEF EmitEvent, AdmitInv
  <2> DEFINE l == Recorded(feed.arrived)
  <2>2. \/ pc' \in {"settling", "streaming"} /\ local' = l
        \/ Fail([l EXCEPT !.completed = FALSE], "compaction")
    BY <1>17 DEF EmitEvent
  <2>3. /\ l \in LocalTypes /\ l.carries = local.carries
        /\ l.deferred = local.deferred /\ l.marked = local.marked
        /\ l.handled = local.handled
    BY RecordedTyped
  <2> HIDE DEF l
  <2>4. SameInput /\ ~local'.handled
          /\ pc' \in {"settling", "streaming", "catching"}
    BY <2>1, <2>2, <2>3 DEF Fail, SameInput, LocalTypes
  <2> QED BY <2>1, <2>4 DEF AdmitInv, SameInput, GuardrailsFailed
<1> QED BY <1>1, <1>2, <1>3, <1>4, <1>6, <1>7, <1>9, <1>12, <1>13, <1>14,
           <1>15, <1>16, <1>17 DEF Next, Caller, Loop

(* Staged input the model was asked with is not staged for another request, *)
(* unless a guardrail refused it or the server cannot have taken it.        *)
THEOREM SentAdmitted == Spec => []SentInputIsAdmitted
<1>1. Init => AdmitInv
  BY DEF Init, AdmitInv, NoLocals
<1>2. ASSUME GuardedInv, AdmitInv, [Next]_vars
      PROVE  AdmitInv'
  <2>1. CASE UNCHANGED vars
    BY <1>2, <2>1 DEF vars, AdmitInv, GuardrailsFailed
  <2> QED BY <1>2, <2>1, NextAdmitInv DEF GuardedInv, IInv
<1>3. GuardedInv /\ AdmitInv => SentInputIsAdmitted
  BY DEF GuardedInv, IInv, TypeOK, AdmitInv, SentInputIsAdmitted
<1> QED BY <1>1, <1>2, <1>3, GuardedInvariant, PTL DEF Spec

------------------------------------------------------------------------------
(* The calls of an unfinished response.  A completed response has none, and *)
(* the loop goes on only with a completed one; what is left over when a     *)
(* run without an error ends was reconciled, or could not be.               *)
MidTurn ==
  {"loop", "retaking", "resuming", "resumed", "preparing", "admitting",
   "streaming", "emitting", "finishing", "tools", "interrupting", "finalizing"}

Unanswered ==
  managed /\ local.error \in {"none", "timeout"} /\ local.pendingCalls > 0

PendingInv ==
  /\ local.completed => local.pendingCalls = 0 /\ feed.status # "open"
  /\ pc \in MidTurn => local.error = "none"
  /\ pc \in MidTurn \ {"streaming", "emitting", "finishing"}
       => local.pendingCalls = 0
  /\ pc = "emitting" =>
       /\ feed.arrived = "done" <=> feed.status = "done"
       /\ feed.status \in {"open", "done"} /\ ~local.completed
  /\ local.error = "maxTurns" => local.pendingCalls = 0
  /\ pc = "finishing" => feed.status \in {"done", "ended"}
  /\ pc \in {"streaming", "finishing"} /\ feed.status = "done"
       => local.completed
  /\ pc \in {"catching", "cleaning", "ending", "idle"} /\ Unanswered
       => history.unreconciled \/ feed.status = "ended"

LEMMA NextPendingInv ==
  ASSUME TypeOK, BatchInv, AdmitInv, PendingInv, Next
  PROVE  PendingInv'
<1>0. /\ local \in LocalTypes
      /\ local.pendingCalls \in Nat /\ managed \in BOOLEAN
      /\ feed \in FeedTypes
      /\ history \in [runs : Nat, inputs : Nat, inputWrites : Nat,
                      accepted : BOOLEAN, unreconciled : BOOLEAN]
  BY DEF TypeOK, LocalTypes
<1>1. CASE Run
  BY <1>1 DEF Run, NoLocals, NoFeed, PendingInv, MidTurn, Unanswered
<1>2. CASE AddInput
  <2>1. history'.unreconciled = history.unreconciled
    BY <1>0, <1>2 DEF AddInput
  <2> QED BY <1>2, <2>1 DEF AddInput, PendingInv, Unanswered
<1>3. CASE StopReading \/ Abort \/ Read \/ GuardrailsSettle
  BY <1>3 DEF StopReading, Abort, Read, GuardrailsSettle, GuardrailStep,
              PendingInv, Unanswered
<1>4. CASE ModelEvent
  <2>1. /\ pc = "streaming" /\ feed.status = "open" /\ ~local.completed
        /\ local.error = "none" /\ ~local.handled
    BY <1>4 DEF ModelEvent, PendingInv, AdmitInv, MidTurn
  <2>2. PICK kind \in EventKinds : feed' = EventTaken(kind)
    BY <1>4 DEF ModelEvent
  <2>3. /\ feed'.arrived = kind
        /\ feed'.status = IF kind = "done" THEN "done" ELSE "open"
    BY <2>1, <2>2 DEF EventTaken
  <2> DEFINE l == [Marked(local) EXCEPT !.received = TRUE]
  <2>4. Fail(l, "guardrail") \/ (pc' = "emitting" /\ local' = l)
    BY <1>4 DEF ModelEvent
  <2>5. l \in LocalTypes /\ ~l.completed /\ l.error = "none" /\ ~l.handled
    <3>1. /\ Marked(local) \in LocalTypes /\ ~Marked(local).completed
          /\ Marked(local).error = "none" /\ ~Marked(local).handled
      BY <1>0, <2>1 DEF Marked, LocalTypes
    <3> HIDE DEF Marked
    <3> QED BY <3>1 DEF LocalTypes
  <2> HIDE DEF l
  <2>6. CASE Fail(l, "guardrail")
    <3>1. /\ pc' = "catching" /\ local'.error = "guardrail"
          /\ ~local'.completed
      BY <2>5, <2>6 DEF Fail, LocalTypes
    <3> QED BY <3>1 DEF PendingInv, MidTurn, Unanswered
  <2>7. CASE pc' = "emitting" /\ local' = l
    BY <2>3, <2>5, <2>7 DEF PendingInv, MidTurn, Unanswered
  <2> QED BY <2>4, <2>6, <2>7
<1>5. CASE ModelStreamEnds
  <2>1. /\ pc = "streaming" /\ pc' = "finishing" /\ local.error = "none"
        /\ feed'.status = IF feed.status = "done" THEN "done" ELSE "ended"
    BY <1>0, <1>5 DEF ModelStreamEnds, PendingInv, MidTurn, FeedTypes
  <2>2. /\ local'.error = local.error /\ local'.completed = local.completed
        /\ local'.pendingCalls = local.pendingCalls
    BY <1>0, <1>5 DEF ModelStreamEnds, Marked, LocalTypes
  <2> QED BY <2>1, <2>2 DEF PendingInv, MidTurn, Unanswered
<1>6. CASE ModelAborted \/ ModelFails
  <2>1. /\ pc = "streaming" /\ feed.status = "open" /\ feed'.status = "failed"
        /\ ~local.completed /\ local.error = "none" /\ ~local.handled
    BY <1>0, <1>6 DEF ModelAborted, ModelFails, PendingInv, AdmitInv, MidTurn,
                      FeedTypes
  <2>2. /\ local'.completed = local.completed
        /\ \/ pc' = "settling" /\ local'.error \in {"none", "timeout"}
           \/ pc' = "catching" /\ local'.error = "model"
    <3>1. CASE ModelAborted
      BY <1>0, <2>1, <3>1 DEF ModelAborted, Marked, LocalTypes
    <3>2. CASE ModelFails
      <4>1. PICK l \in {local, Marked(local)} :
              \/ pc' = "settling" /\ local' = [l EXCEPT !.error = "timeout"]
              \/ Fail(l, "model")
        BY <3>2 DEF ModelFails
      <4>2. l \in LocalTypes /\ l.completed = local.completed /\ ~l.handled
        BY <1>0, <2>1, <4>1 DEF Marked, LocalTypes
      <4> QED BY <4>1, <4>2 DEF Fail, LocalTypes
    <3> QED BY <1>6, <3>1, <3>2
  <2> QED BY <2>1, <2>2 DEF PendingInv, MidTurn, Unanswered
<1>7. CASE \/ StopAtTop \/ ResumeAcceptedResponse \/ ResumeInterruption
           \/ FinalizeAgain \/ InterruptionResumed \/ BeginTurn
           \/ PreparationFails \/ AcceptedResponseResolved
           \/ FinalizeResumedTurn
  <2>1. /\ pc \in {"loop", "retaking", "resuming", "resumed", "preparing"}
        /\ feed' = feed
        /\ local.error = "none" /\ local.pendingCalls = 0
    BY <1>7 DEF StopAtTop, ResumeAcceptedResponse, ResumeInterruption,
                FinalizeAgain, InterruptionResumed, BeginTurn,
                PreparationFails, AcceptedResponseResolved,
                FinalizeResumedTurn, PendingInv, MidTurn
  <2>2. /\ local'.completed = local.completed
        /\ local'.pendingCalls = local.pendingCalls
        /\ local'.error = "none" \/ pc' \in {"cleaning", "catching"}
        /\ pc' \notin {"streaming", "emitting", "finishing"}
    <3>1. CASE \/ StopAtTop \/ ResumeAcceptedResponse \/ ResumeInterruption
               \/ FinalizeAgain \/ PreparationFails
               \/ AcceptedResponseResolved \/ FinalizeResumedTurn
      BY <1>0, <2>1, <3>1
         DEF StopAtTop, ReturnFromLoop, ResumeAcceptedResponse,
             ResumeInterruption, FinalizeAgain, StartFinalization,
             PreparationFails, AcceptedResponseResolved,
             FinalizeResumedTurn, Fail, LocalTypes
    <3>2. CASE InterruptionResumed
      <4>1. CASE Fail(local, "tool")
        BY <1>0, <2>1, <4>1 DEF Fail, LocalTypes
      <4>2. CASE \E e \in {"none", "session"}, c \in BOOLEAN :
                   /\ pc' \in IF e = "none" THEN {"cleaning", "loop", "resumed"}
                                           ELSE {"catching"}
                   /\ \/ local' = [local EXCEPT !.error = e]
                      \/ local' = [local EXCEPT !.continuing = c, !.error = e]
                      \/ /\ pc' = "resumed"
                         /\ local' = [local EXCEPT !.continuing = c]
        <5>1. PICK e \in {"none", "session"}, c \in BOOLEAN :
                /\ pc' \in IF e = "none" THEN {"cleaning", "loop", "resumed"}
                                        ELSE {"catching"}
                /\ \/ local' = [local EXCEPT !.error = e]
                   \/ local' = [local EXCEPT !.continuing = c, !.error = e]
                   \/ pc' = "resumed" /\ local' = [local EXCEPT !.continuing = c]
          BY <4>2
        <5>2. /\ local'.completed = local.completed
              /\ local'.pendingCalls = local.pendingCalls
              /\ local'.error \in {e, local.error}
          BY <1>0, <5>1 DEF LocalTypes
        <5> QED BY <2>1, <5>1, <5>2
      <4> QED BY <3>2, <4>1, <4>2, InterruptionOutcomes
    <3>3. CASE BeginTurn
      BY <1>0, <2>1, <3>3 DEF BeginTurn, Fail, LocalTypes
    <3> QED BY <1>7, <3>1, <3>2, <3>3
  <2> QED BY <2>1, <2>2 DEF PendingInv, MidTurn, Unanswered
<1>8. ASSUME NEW d, RequestModel(d), pc \in {"preparing", "admitting"}
      PROVE  PendingInv'
  <2>1. /\ ~local'.completed /\ local'.pendingCalls = 0 /\ pc' = "streaming"
        /\ local'.error = local.error /\ local.error = "none"
        /\ feed'.status = "open"
    BY <1>0, <1>8 DEF RequestModel, NoFeed, LocalTypes, PendingInv, MidTurn
  <2> QED BY <2>1 DEF PendingInv, MidTurn, Unanswered
<1>9. CASE TurnPrepared \/ AdmittedInputSaved
  <2>1. /\ pc \in {"preparing", "admitting"}
        /\ local.error = "none" /\ local.pendingCalls = 0
    BY <1>9 DEF TurnPrepared, AdmittedInputSaved, PendingInv, MidTurn
  <2>2. \/ \E d \in BOOLEAN : RequestModel(d)
        \/ /\ feed' = feed /\ local'.completed = local.completed
           /\ local'.pendingCalls = local.pendingCalls
           /\ local'.error = local.error \/ pc' \in {"cleaning", "catching"}
           /\ pc' \in {"admitting", "cleaning", "catching"}
    <3>1. CASE TurnPrepared
      <4>1. (~managed /\ state.staged) \in BOOLEAN
        OBVIOUS
      <4>2. \/ ReturnUnstarted /\ UNCHANGED feed
            \/ pc' = "admitting" /\ UNCHANGED <<local, feed>>
            \/ RequestModel(~managed /\ state.staged)
        BY <3>1 DEF TurnPrepared
      <4> QED BY <1>0, <4>1, <4>2 DEF ReturnUnstarted, LocalTypes
    <3>2. CASE AdmittedInputSaved
      <4>1. \/ Fail(local, "session") /\ UNCHANGED feed
            \/ ReturnUnstarted /\ UNCHANGED feed
            \/ RequestModel(FALSE)
        BY <3>2 DEF AdmittedInputSaved
      <4> QED BY <1>0, <4>1 DEF ReturnUnstarted, Fail, LocalTypes
    <3> QED BY <1>9, <3>1, <3>2
  <2>3. CASE \E d \in BOOLEAN : RequestModel(d)
    BY <1>8, <2>1, <2>3
  <2> QED BY <2>1, <2>2, <2>3 DEF PendingInv, MidTurn, Unanswered
<1>10. CASE Settled
  <2>1. pc = "settling" /\ UNCHANGED <<managed, feed, history>> /\ ~local.handled
    BY <1>10 DEF Settled, AdmitInv
  <2> DEFINE l == [local EXCEPT !.deferred = FALSE]
  <2>2. /\ l \in LocalTypes /\ l.completed = local.completed
        /\ l.pendingCalls = local.pendingCalls /\ l.error = local.error
        /\ ~l.handled
    BY <1>0, <2>1 DEF LocalTypes
  <2>3. \/ Fail(local, "guardrail")
        \/ Fail(l, "session")
        \/ pc' = "reconciling" /\ local' = l
        \/ ~NeedsReconciliation /\ ExitSettled(l)
    <3>1. \/ Fail(local, "guardrail")
          \/ local.deferred /\ Fail(l, "session")
          \/ NeedsReconciliation /\ pc' = "reconciling" /\ local' = l
          \/ ~NeedsReconciliation /\ ExitSettled(l)
      BY <1>10 DEF Settled
    <3> QED BY <3>1
  <2> HIDE DEF l
  <2>4. /\ local'.completed = local.completed
        /\ local'.pendingCalls = local.pendingCalls
        /\ pc' \in {"catching", "cleaning", "reconciling"}
        /\ \/ local'.error \in {"guardrail", "session"}
           \/ pc' = "reconciling" /\ local'.error = local.error
           \/ ~NeedsReconciliation /\ local'.error = local.error
    BY <1>0, <2>1, <2>2, <2>3 DEF Fail, ExitSettled, LocalTypes
  <2> QED BY <1>0, <2>1, <2>4
          DEF PendingInv, MidTurn, Unanswered, NeedsReconciliation
<1>11. CASE CallsReconciled
  <2>1. pc = "reconciling" /\ UNCHANGED <<managed, feed>> /\ ~local.handled
    BY <1>11 DEF CallsReconciled, AdmitInv
  <2>2. PICK l \in {local, [local EXCEPT !.pendingCalls = 0]} :
          /\ ExitSettled(l)
          /\ history'.unreconciled \/ l.pendingCalls = 0
    BY <1>0, <1>11 DEF CallsReconciled, LocalTypes
  <2>3. /\ l \in LocalTypes /\ l.completed = local.completed
        /\ l.pendingCalls \in {local.pendingCalls, 0} /\ l.error = local.error
        /\ ~l.handled
    BY <1>0, <2>1, <2>2 DEF LocalTypes
  <2>4. /\ local'.completed = l.completed /\ local'.pendingCalls = l.pendingCalls
        /\ local'.error = l.error /\ pc' \in {"cleaning", "catching"}
    BY <2>2, <2>3 DEF ExitSettled, Fail, LocalTypes
  <2> QED BY <1>0, <2>1, <2>2, <2>3, <2>4 DEF PendingInv, MidTurn, Unanswered
<1>12. CASE ResponseProcessed
  <2>1. /\ pc = "finishing" /\ UNCHANGED <<managed, feed, history>>
        /\ ~local.handled /\ local.error = "none"
        /\ feed.status \in {"done", "ended"}
        /\ feed.status = "done" => local.pendingCalls = 0
        /\ local.completed => local.pendingCalls = 0
    BY <1>12 DEF ResponseProcessed, AdmitInv, PendingInv, MidTurn
  <2> DEFINE l == [local EXCEPT !.deferred = FALSE]
  <2>2. /\ l \in LocalTypes /\ l.completed = local.completed
        /\ l.pendingCalls = local.pendingCalls /\ l.error = local.error
        /\ ~l.handled
    BY <1>0, <2>1 DEF LocalTypes
  <2>3. \/ Fail(local, "guardrail")
        \/ Fail(l, "session") \/ Fail(l, "behavior")
        \/ pc' = "cleaning" /\ local' = l
        \/ local.completed /\ pc' = "tools" /\ local' = l
    BY <1>12 DEF ResponseProcessed
  <2> HIDE DEF l
  <2>4. /\ local'.completed = local.completed
        /\ local'.pendingCalls = local.pendingCalls
        /\ pc' \in {"catching", "cleaning", "tools"}
        /\ \/ pc' = "catching"
                /\ local'.error \in {"guardrail", "session", "behavior"}
           \/ pc' = "cleaning" /\ local'.error = local.error
           \/ pc' = "tools" /\ local'.error = local.error /\ local.completed
    BY <1>0, <2>1, <2>2, <2>3 DEF Fail, LocalTypes
  <2> QED BY <1>0, <2>1, <2>4 DEF PendingInv, MidTurn, Unanswered
<1>13. CASE \/ ToolsFail \/ FinalOutputProduced \/ TurnContinues
            \/ InterruptionSaved \/ OutputRejected \/ OutputAccepted
            \/ OutputNotSaved
  <2>1. /\ pc \in {"retaking", "tools", "interrupting", "finalizing"}
        /\ feed' = feed
        /\ local.error = "none" /\ local.pendingCalls = 0
    BY <1>13 DEF ToolsFail, FinalOutputProduced, TurnContinues,
                 InterruptionSaved, OutputRejected, OutputAccepted,
                 OutputNotSaved, PendingInv, MidTurn
  <2>2. /\ local'.completed = local.completed
        /\ local'.pendingCalls = local.pendingCalls
        /\ local'.error = "none" \/ pc' \in {"cleaning", "catching"}
        /\ local'.error # "maxTurns"
        /\ pc' \notin {"streaming", "emitting", "finishing"}
    BY <1>0, <1>13, <2>1
       DEF ToolsFail, FinalOutputProduced, TurnContinues, InterruptionSaved,
           OutputRejected, OutputAccepted, OutputNotSaved, InputSaved, Fail,
           LocalTypes
  <2> QED BY <2>1, <2>2 DEF PendingInv, MidTurn, Unanswered
<1>14. CASE CatchError
  <2>1. pc = "catching" /\ UNCHANGED <<managed, feed, history>>
    BY <1>14 DEF CatchError
  <2> DEFINE l == [local EXCEPT !.deferred = FALSE, !.snapshot = NoSnapshot]
  <2>2. /\ l \in LocalTypes /\ l.completed = local.completed
        /\ l.pendingCalls = local.pendingCalls
    BY <1>0 DEF LocalTypes, NoSnapshot
  <2>3. \/ /\ pc' = "cleaning"
           /\ local' = [local EXCEPT !.deferred = FALSE, !.error = "session"]
        \/ /\ pc' = "finalizing" /\ SurfacedError = "maxTurns"
           /\ local' = [l EXCEPT !.handled = TRUE, !.error = "none"]
        \/ /\ pc' = "cleaning"
           /\ local' = [l EXCEPT !.error = SurfacedError]
    BY <1>14 DEF CatchError, StartFinalization
  <2>4. SurfacedError \in {"guardrail", local.error}
    BY DEF SurfacedError
  <2> HIDE DEF l, SurfacedError
  <2>5. /\ local'.completed = local.completed
        /\ local'.pendingCalls = local.pendingCalls
        /\ \/ pc' = "cleaning" /\ local'.error \in {"session", SurfacedError}
           \/ /\ pc' = "finalizing" /\ SurfacedError = "maxTurns"
              /\ local'.error = "none"
    <3>1. CASE local' = [local EXCEPT !.deferred = FALSE, !.error = "session"]
                 /\ pc' = "cleaning"
      BY <1>0, <3>1 DEF LocalTypes
    <3>2. CASE /\ pc' = "finalizing" /\ SurfacedError = "maxTurns"
               /\ local' = [l EXCEPT !.handled = TRUE, !.error = "none"]
      BY <2>2, <3>2 DEF LocalTypes
    <3>3. CASE pc' = "cleaning" /\ local' = [l EXCEPT !.error = SurfacedError]
      BY <2>2, <3>3 DEF LocalTypes
    <3> QED BY <2>3, <3>1, <3>2, <3>3
  <2> QED BY <2>1, <2>4, <2>5 DEF PendingInv, MidTurn, Unanswered
<1>15. CASE CleanUp \/ EndStream
  <2>1. /\ pc \in {"cleaning", "ending"} /\ pc' \in {"ending", "idle"}
        /\ UNCHANGED <<managed, feed>>
    BY <1>15 DEF CleanUp, EndStream
  <2>2. /\ local'.completed = local.completed
        /\ local'.pendingCalls = local.pendingCalls
        /\ local'.error \in {local.error, "session"}
        /\ history'.unreconciled = history.unreconciled
    BY <1>0, <1>15 DEF CleanUp, EndStream, InputSaved, InputWrites, LocalTypes
  <2> QED BY <2>1, <2>2 DEF PendingInv, MidTurn, Unanswered
<1>16. CASE EmitEvent
  <2>1. /\ pc = "emitting" /\ local.error = "none" /\ ~local.handled
        /\ feed.arrived = "done" <=> feed.status = "done"
        /\ feed.status \in {"open", "done"} /\ ~local.completed
    BY <1>16 DEF EmitEvent, PendingInv, AdmitInv, MidTurn
  <2>2. feed'.status = feed.status
    BY <1>0, <1>16 DEF EmitEvent, FeedTypes
  <2> DEFINE l == Recorded(feed.arrived)
  <2>3. \/ pc' \in {"settling", "streaming"} /\ local' = l
        \/ Fail([l EXCEPT !.completed = FALSE], "compaction")
    BY <1>16 DEF EmitEvent
  <2>4. /\ l \in LocalTypes /\ l.error = "none" /\ ~l.handled
        /\ feed.arrived = "done" => l.completed /\ l.pendingCalls = 0
        /\ feed.arrived # "done" => ~l.completed
    BY <2>1, RecordedTyped
  <2> HIDE DEF l
  <2>5. CASE pc' \in {"settling", "streaming"} /\ local' = l
    BY <2>1, <2>2, <2>4, <2>5 DEF PendingInv, MidTurn, Unanswered
  <2>6. CASE Fail([l EXCEPT !.completed = FALSE], "compaction")
    <3>1. /\ pc' = "catching" /\ local'.error = "compaction"
          /\ ~local'.completed
      BY <2>4, <2>6 DEF Fail, LocalTypes
    <3> QED BY <3>1 DEF PendingInv, MidTurn, Unanswered
  <2> QED BY <2>3, <2>5, <2>6
<1> QED BY <1>1, <1>2, <1>3, <1>4, <1>5, <1>6, <1>7, <1>9, <1>10, <1>11,
           <1>12, <1>13, <1>14, <1>15, <1>16 DEF Next, Caller, Model, Loop

(* A cancelled or timed-out run leaves no recorded call - function, shell,  *)
(* patch or program - of an unfinished response without an output on the    *)
(* server, unless the request that brings the outputs failed, or the        *)
(* model's stream ended silently.                                           *)
THEOREM CallsAnswered == Spec => []AbortedCallsAnswered
<1>1. Init => AdmitInv /\ PendingInv
  BY DEF Init, AdmitInv, PendingInv, NoLocals, NoFeed, MidTurn, Unanswered
<1>2. ASSUME GuardedInv, AdmitInv, PendingInv, [Next]_vars
      PROVE  AdmitInv' /\ PendingInv'
  <2>1. CASE UNCHANGED vars
    BY <1>2, <2>1 DEF vars, AdmitInv, PendingInv, Unanswered, GuardrailsFailed
  <2> QED BY <1>2, <2>1, NextAdmitInv, NextPendingInv DEF GuardedInv, IInv
<1>3. PendingInv => AbortedCallsAnswered
  BY DEF PendingInv, Unanswered, AbortedCallsAnswered
<1> QED BY <1>1, <1>2, <1>3, GuardedInvariant, PTL DEF Spec
=============================================================================
