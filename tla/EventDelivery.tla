---------------------------- MODULE EventDelivery ----------------------------
(***************************************************************************)
(* What a streamed run promises the code that reads its events, whatever   *)
(* the loop behind it does (StreamedRunResult, agents-core/src/result.ts): *)
(* events arrive in the order they were emitted, each once; a stream that  *)
(* ends well has delivered everything; only an error or a cancellation     *)
(* drops events; nothing arrives after the end.                            *)
(*                                                                         *)
(* Events are numbered in the order they are emitted.                      *)
(***************************************************************************)
EXTENDS Naturals, Sequences

VARIABLES
  emitted,   \* how many events the loop has emitted
  received,  \* the events the reader has received
  ended      \* "open", or how the stream ended for its reader

vars == <<emitted, received, ended>>

Init ==
  /\ emitted = 0
  /\ received = <<>>
  /\ ended = "open"

(* A new run has a new stream.                                              *)
Open ==
  /\ emitted' = 0
  /\ received' = <<>>
  /\ ended' \in {"open", "cancelled"}

(* The loop emits some events; the first may be received at once.           *)
Emit ==
  /\ ended = "open"
  /\ emitted' \in Nat
  /\ emitted' > emitted
  /\ received' \in {received, Append(received, Len(received) + 1)}
  /\ Len(received') <= emitted'
  /\ UNCHANGED ended

Receive ==
  /\ ended = "open"
  /\ Len(received) < emitted
  /\ received' = Append(received, Len(received) + 1)
  /\ UNCHANGED <<emitted, ended>>

(* A stream ends well only when its reader has everything.                  *)
End ==
  /\ ended = "open"
  /\ \/ ended' = "done" /\ Len(received) = emitted
     \/ ended' = "error"
     \/ ended' = "cancelled"
  /\ UNCHANGED <<emitted, received>>

Next == Open \/ Emit \/ Receive \/ End

Spec == Init /\ [][Next]_vars
=============================================================================
