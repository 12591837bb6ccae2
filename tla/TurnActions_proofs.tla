-------------------------- MODULE TurnActions_proofs --------------------------
(***************************************************************************)
(* Proofs about the calls of a turn, for all numbers of calls and workers  *)
(* and every choice of the tools that have a timeout.  First about         *)
(* ToolConcurrency alone, for every maxFunctionToolConcurrency; then about *)
(* TurnActions: timeouts, late answers and the sequence leave              *)
(* ToolConcurrency what it is, so that its theorems hold there; the        *)
(* sequence has an invariant of its own.                                   *)
(***************************************************************************)
EXTENDS TurnActions, TLAPS

LEMMA Constants ==
  /\ NumFunctions \in Nat /\ NumComputers \in Nat /\ MaxConcurrency \in Nat
  /\ NumFunctions + NumComputers > 0
BY CallsAssumption

LEMMA CallsAreNumbers ==
  /\ \A c \in Functions : c \in Nat /\ 1 <= c /\ c <= NumFunctions
  /\ \A c \in Computers : /\ c \in Nat /\ NumFunctions < c
                          /\ c <= NumFunctions + NumComputers
  /\ Workers \subseteq Functions
  /\ Functions \cap Computers = {}
  /\ Calls = Functions \cup Computers
BY Constants DEF Functions, Computers, Calls, Workers, Capped

(* Workers ask for, act on and finish the function calls.                   *)
Going == {"asking", "acting", "finishing"}
Given == {"output", "cancelled", "approval"}

------------------------------------------------------------------------------
(* Every step, taken apart: which call moves, answers or fails, and what is *)
(* known when it does.                                                      *)

Moving(w, phase) ==
  /\ worker[w] \in Functions
  /\ call[worker[w]] \in Going
  /\ phase \in {"acting", "finishing"}
  /\ phase = "acting" => call[worker[w]] = "asking" /\ ~Aborted("tools")
  /\ phase = "finishing" => call[worker[w]] = "acting"
  /\ Moves(w, phase)

Answering(w, result) ==
  /\ worker[w] \in Functions
  /\ call[worker[w]] \in Going
  /\ result \in Given
  /\ Answers(w, result)

Throwing(w, abortLike) ==
  /\ worker[w] \in Functions
  /\ call[worker[w]] \in Going
  /\ abortLike \in BOOLEAN
  /\ FunctionThrows(w, abortLike)

Computing == computer \in Computers /\ group["computers"] = "running"

ComputerMoving(phase) ==
  /\ Computing
  /\ \/ phase = "asking" /\ call[computer] = "idle"
     \/ phase = "acting" /\ call[computer] = "asking"
  /\ ~Aborted("turn")
  /\ ComputerMoves(phase)

ComputerAnswering(result) ==
  /\ Computing
  /\ result \in Given
  /\ call[computer] \in {"idle", "asking", "acting"}
  /\ ComputerAnswers(result)

(* A computer call fails while other answers of it are still awaited, or at *)
(* once.                                                                    *)
ComputerFailing(abortLike) ==
  /\ Computing
  /\ abortLike \in BOOLEAN
  /\ call[computer] \in {"asking", "acting"}
  /\ Reserve(abortLike)
  /\ \/ /\ call' = [call EXCEPT ![computer] = "failing"]
        /\ UNCHANGED <<worker, nextIndex, computer, group, outcome>>
     \/ ComputerThrows

LEMMA Steps ==
  ASSUME [Next]_vars
  PROVE  \/ \E w \in Workers : TakeCall(w)
         \/ \E w \in Workers : WorkerEnds(w)
         \/ \E w \in Workers, phase \in {"acting", "finishing"} : Moving(w, phase)
         \/ \E w \in Workers, result \in Given : Answering(w, result)
         \/ \E w \in Workers, abortLike \in BOOLEAN : Throwing(w, abortLike)
         \/ FunctionsReturn
         \/ \E phase \in {"asking", "acting"} : ComputerMoving(phase)
         \/ \E result \in Given : ComputerAnswering(result)
         \/ \E abortLike \in BOOLEAN : ComputerFailing(abortLike)
         \/ Computing /\ ComputerFails
         \/ ComputersReturn
         \/ TurnReturns
         \/ UserAborts
         \/ UNCHANGED vars
<1>1. ASSUME NEW w \in Workers, worker[w] \in Functions,
             Asked(w) \/ Acted(w) \/ Finished(w)
      PROVE  \/ \E phase \in {"acting", "finishing"} : Moving(w, phase)
             \/ \E result \in Given : Answering(w, result)
             \/ \E abortLike \in BOOLEAN : Throwing(w, abortLike)
  <2>1. CASE Asked(w)
    BY <1>1, <2>1 DEF Asked, Throws, Moving, Answering, Throwing, Going, Given
  <2>2. CASE Acted(w)
    BY <1>1, <2>2 DEF Acted, Throws, Moving, Answering, Throwing, Going, Given
  <2>3. CASE Finished(w)
    BY <1>1, <2>3 DEF Finished, Throws, Moving, Answering, Throwing, Going, Given
  <2> QED BY <1>1, <2>1, <2>2, <2>3
<1>2. CASE ComputerStep
  <2>1. Computing
    BY <1>2 DEF ComputerStep, Computing
  <2>2. CASE TakeComputer
    BY <2>1, <2>2 DEF TakeComputer, ComputerMoving, ComputerAnswering, Given
  <2>3. CASE ComputerAsked
    BY <2>1, <2>3
    DEF ComputerAsked, ComputerMoving, ComputerAnswering, ComputerFailing, Given
  <2>4. CASE ComputerActed
    BY <2>1, <2>4 DEF ComputerActed, ComputerAnswering, ComputerFailing, Given
  <2> QED BY <1>2, <2>1, <2>2, <2>3, <2>4 DEF ComputerStep
<1> QED BY <1>1, <1>2 DEF Next, Progress, FunctionStep

------------------------------------------------------------------------------
(* Type correctness.                                                        *)

LEMMA InitType == Init => TypeOK
<1> SUFFICES ASSUME Init PROVE TypeOK
  OBVIOUS
<1>1. worker \in [Workers -> Functions \cup {Free, Ended}]
  BY CallsAreNumbers DEF Init
<1>2. nextIndex \in 1 .. NumFunctions + 1
  BY Constants DEF Init, Capped
<1>3. computer \in NumFunctions + 1 .. NumFunctions + NumComputers + 1
  BY Constants DEF Init
<1>4. failure \in [{"turn", "tools"} -> Errors]
  BY DEF Init, Errors
<1>5. call \in [Calls -> {"idle", "asking", "acting", "finishing", "failing",
                         "output", "cancelled", "approval", "failed"}]
  BY DEF Init
<1>6. /\ reason \in [{"user", "turn", "tools"} -> {"none", "user", "sibling"}]
      /\ group \in [{"functions", "computers"} -> {"running", "ok", "threw"}]
  BY DEF Init
<1> QED BY <1>1, <1>2, <1>3, <1>4, <1>5, <1>6 DEF Init, TypeOK

LEMMA AbortType ==
  ASSUME TypeOK, NEW signals, NEW why \in {"user", "sibling"}
  PROVE  /\ Abort(signals, why) \in [{"user", "turn", "tools"} -> {"none", "user", "sibling"}]
         /\ \A s \in {"user", "turn", "tools"} :
              Abort(signals, why)[s] =
                IF s \in signals /\ reason[s] = "none" THEN why ELSE reason[s]
BY DEF TypeOK, Abort

LEMMA SurfacedType ==
  ASSUME TypeOK, NEW c \in Calls, NEW abortLike \in BOOLEAN, NEW parent
  PROVE  Surfaced(c, abortLike, parent) \in Errors
BY DEF Surfaced, ReasonOf, Errors

LEMMA ReserveType ==
  ASSUME TypeOK, Computing, NEW abortLike \in BOOLEAN, Reserve(abortLike)
  PROVE  /\ first' \in Calls \cup {NoError}
         /\ failure' \in [{"turn", "tools"} -> Errors]
         /\ owner' \in {"none", "functions", "computers"}
         /\ reason' \in [{"user", "turn", "tools"} -> {"none", "user", "sibling"}]
<1>1. computer \in Calls /\ computer \in Errors
  BY CallsAreNumbers DEF Computing, Errors
<1>2. first' \in Calls \cup {NoError}
  BY <1>1 DEF Reserve, First, TypeOK
<1>3. Surfaced(computer, abortLike, "user") \in Errors
  BY <1>1, SurfacedType
<1>4. failure' \in [{"turn", "tools"} -> Errors]
  BY <1>1, <1>3 DEF Reserve, TypeOK
<1>5. owner' \in {"none", "functions", "computers"}
  BY DEF Reserve, TypeOK
<1>6. reason' \in [{"user", "turn", "tools"} -> {"none", "user", "sibling"}]
  BY AbortType DEF Reserve, TypeOK
<1> QED BY <1>2, <1>4, <1>5, <1>6

LEMMA NextType == TypeOK /\ [Next]_vars => TypeOK'
<1> SUFFICES ASSUME TypeOK, [Next]_vars PROVE TypeOK'
  OBVIOUS
<1> USE Constants, CallsAreNumbers
<1>1. ASSUME NEW w \in Workers, TakeCall(w) PROVE TypeOK'
  <2>1. nextIndex \in Functions /\ nextIndex + 1 \in 1 .. NumFunctions + 1
    BY <1>1 DEF TakeCall, MayTake, TypeOK, Functions
  <2> QED BY <1>1, <2>1 DEF TakeCall, TypeOK, scopes
<1>2. ASSUME NEW w \in Workers, WorkerEnds(w) PROVE TypeOK'
  BY <1>2 DEF WorkerEnds, TypeOK, scopes
<1>3. ASSUME NEW w \in Workers, NEW phase \in {"acting", "finishing"}, Moving(w, phase)
      PROVE  TypeOK'
  BY <1>3 DEF Moving, Moves, TypeOK, scopes
<1>4. ASSUME NEW w \in Workers, NEW result \in Given, Answering(w, result) PROVE TypeOK'
  BY <1>4 DEF Answering, Answers, TypeOK, scopes, Given
<1>5. ASSUME NEW w \in Workers, NEW abortLike \in BOOLEAN, Throwing(w, abortLike)
      PROVE  TypeOK'
  <2>1. worker[w] \in Calls /\ worker[w] \in Errors
    BY <1>5 DEF Throwing, Errors
  <2>2. Surfaced(worker[w], abortLike, "turn") \in Errors
    BY <2>1, SurfacedType
  <2>3. failure' \in [{"turn", "tools"} -> Errors]
    BY <1>5, <2>1, <2>2 DEF Throwing, FunctionThrows, TypeOK
  <2>4. reason' \in [{"user", "turn", "tools"} -> {"none", "user", "sibling"}]
    BY <1>5, AbortType DEF Throwing, FunctionThrows
  <2>5. first' \in Calls \cup {NoError} /\ owner' \in {"none", "functions", "computers"}
    BY <1>5, <2>1 DEF Throwing, FunctionThrows, First, TypeOK
  <2> QED BY <1>5, <2>1, <2>3, <2>4, <2>5 DEF Throwing, FunctionThrows, TypeOK
<1>6. CASE FunctionsReturn
  <2>1. reason' \in [{"user", "turn", "tools"} -> {"none", "user", "sibling"}]
    BY <1>6, AbortType DEF FunctionsReturn, TypeOK
  <2> QED BY <1>6, <2>1 DEF FunctionsReturn, TypeOK
<1>7. ASSUME NEW phase \in {"asking", "acting"}, ComputerMoving(phase) PROVE TypeOK'
  BY <1>7 DEF ComputerMoving, ComputerMoves, TypeOK, scopes
<1>8. ASSUME NEW result \in Given, ComputerAnswering(result) PROVE TypeOK'
  <2>1. computer + 1 \in NumFunctions + 1 .. NumFunctions + NumComputers + 1
    BY <1>8 DEF ComputerAnswering, Computing, Computers
  <2> QED BY <1>8, <2>1 DEF ComputerAnswering, ComputerAnswers, TypeOK, scopes, Given
<1>9. ASSUME NEW abortLike \in BOOLEAN, ComputerFailing(abortLike) PROVE TypeOK'
  BY <1>9, ReserveType DEF ComputerFailing, ComputerThrows, TypeOK
<1>10. CASE Computing /\ ComputerFails
  BY <1>10 DEF ComputerFails, ComputerThrows, TypeOK, scopes
<1>11. CASE ComputersReturn
  BY <1>11 DEF ComputersReturn, TypeOK, scopes
<1>12. CASE TurnReturns
  BY <1>12 DEF TurnReturns, TypeOK, scopes
<1>13. CASE UserAborts
  BY <1>13, AbortType DEF UserAborts, TypeOK
<1>14. CASE UNCHANGED vars
  BY <1>14 DEF vars, scopes, TypeOK
<1> QED BY Steps, <1>1, <1>2, <1>3, <1>4, <1>5, <1>6, <1>7, <1>8, <1>9, <1>10,
           <1>11, <1>12, <1>13, <1>14

(* A worker is never past the last call, a failure is always the error of a *)
(* call or the reason of a signal, and every variable stays in its type.    *)
THEOREM TypeCorrect == Spec => []TypeOK
BY InitType, NextType, PTL DEF Spec

------------------------------------------------------------------------------
(* Function calls and workers.                                              *)

LEMMA NotACall == Free \notin Functions /\ Ended \notin Functions
BY Constants DEF Free, Ended, Functions

(* A call that goes on is at exactly one worker, and every call that was    *)
(* taken has left "idle".                                                   *)
WorkerInv ==
  /\ \A w \in Workers :
       worker[w] \in Functions => worker[w] < nextIndex /\ call[worker[w]] \in Going
  /\ \A v, w \in Workers : worker[v] \in Functions /\ worker[v] = worker[w] => v = w
  /\ \A c \in Functions :
       /\ call[c] \in Going => \E w \in Workers : worker[w] = c
       /\ call[c] # "failing"
       /\ call[c] = "idle" <=> nextIndex <= c

LEMMA InitWorker == Init => WorkerInv
<1> SUFFICES ASSUME Init PROVE WorkerInv
  OBVIOUS
<1>1. \A w \in Workers : w < nextIndex /\ w \in Functions
  BY Constants, CallsAreNumbers DEF Init, Workers
<1>2. \A c \in Functions : c \in Calls /\ c # NumFunctions + 1
  BY Constants, CallsAreNumbers
<1>3. \A c \in Functions : c \notin Workers <=> nextIndex <= c
  BY Constants, CallsAreNumbers DEF Init, Workers, Functions, Capped
<1> QED BY <1>1, <1>2, <1>3 DEF Init, WorkerInv, Going

(* What computer calls and aborts do to calls and workers: nothing.         *)
LEMMA WorkerUntouched ==
  ASSUME WorkerInv, UNCHANGED <<worker, nextIndex>>,
         \A c \in Functions : call'[c] = call[c]
  PROVE  WorkerInv'
BY DEF WorkerInv

LEMMA NextWorker == TypeOK /\ WorkerInv /\ [Next]_vars => WorkerInv'
<1> SUFFICES ASSUME TypeOK, WorkerInv, [Next]_vars PROVE WorkerInv'
  OBVIOUS
<1> USE Constants, CallsAreNumbers, NotACall
<1>1. ASSUME NEW w \in Workers, TakeCall(w) PROVE WorkerInv'
  <2>1. nextIndex \in Functions /\ nextIndex' = nextIndex + 1
    BY <1>1 DEF TakeCall, MayTake, TypeOK, Functions
  <2>2. CASE Aborted("tools")
    <3>1. worker' = worker /\ call' = [call EXCEPT ![nextIndex] = "cancelled"]
      BY <1>1, <2>2 DEF TakeCall, TypeOK
    <3>2. \A c \in Functions : call'[c] = IF c = nextIndex THEN "cancelled" ELSE call[c]
      BY <3>1 DEF TypeOK
    <3>3. \A v \in Workers : worker[v] \in Functions => worker[v] # nextIndex
      BY <2>1 DEF WorkerInv
    <3> QED BY <2>1, <3>1, <3>2, <3>3 DEF WorkerInv, Going
  <2>3. CASE ~Aborted("tools")
    <3>1. /\ worker' = [worker EXCEPT ![w] = nextIndex]
          /\ call' = [call EXCEPT ![nextIndex] = "asking"]
      BY <1>1, <2>3 DEF TakeCall
    <3>2. \A v \in Workers : worker[v] # nextIndex
      BY <2>1 DEF WorkerInv
    <3>3. \A v \in Workers : worker'[v] = IF v = w THEN nextIndex ELSE worker[v]
      BY <3>1 DEF TypeOK
    <3>4. \A c \in Functions : call'[c] = IF c = nextIndex THEN "asking" ELSE call[c]
      BY <3>1 DEF TypeOK
    <3>5. worker[w] = Free
      BY <1>1 DEF TakeCall
    <3> QED BY <2>1, <3>2, <3>3, <3>4, <3>5 DEF WorkerInv, Going
  <2> QED BY <2>2, <2>3
<1>2. ASSUME NEW w \in Workers, WorkerEnds(w) PROVE WorkerInv'
  BY <1>2 DEF WorkerEnds, WorkerInv, TypeOK
<1>3. ASSUME NEW w \in Workers, NEW phase \in {"acting", "finishing"}, Moving(w, phase)
      PROVE  WorkerInv'
  <2>1. \A c \in Functions : call'[c] = IF c = worker[w] THEN phase ELSE call[c]
    BY <1>3 DEF Moving, Moves, TypeOK
  <2> QED BY <1>3, <2>1 DEF Moving, Moves, WorkerInv, Going
<1>4. ASSUME NEW w \in Workers, NEW status \in Given \cup {"failed"}, NEW at \in {Free, Ended},
             worker[w] \in Functions,
             call' = [call EXCEPT ![worker[w]] = status],
             worker' = [worker EXCEPT ![w] = at], UNCHANGED nextIndex
      PROVE  WorkerInv'
  <2>1. \A c \in Functions : call'[c] = IF c = worker[w] THEN status ELSE call[c]
    BY <1>4 DEF TypeOK
  <2>2. \A v \in Workers : worker'[v] = IF v = w THEN at ELSE worker[v]
    BY <1>4 DEF TypeOK
  <2>3. status \notin Going /\ status # "failing" /\ status # "idle"
    BY DEF Given, Going
  <2>4. worker[w] \in Nat /\ nextIndex \in Nat /\ ~(nextIndex <= worker[w])
    BY <1>4 DEF WorkerInv, TypeOK
  <2> QED BY <1>4, <2>1, <2>2, <2>3, <2>4 DEF WorkerInv
<1>5. ASSUME NEW w \in Workers, NEW result \in Given, Answering(w, result) PROVE WorkerInv'
  BY <1>4, <1>5 DEF Answering, Answers
<1>6. ASSUME NEW w \in Workers, NEW abortLike \in BOOLEAN, Throwing(w, abortLike)
      PROVE  WorkerInv'
  BY <1>4, <1>6 DEF Throwing, FunctionThrows
<1>7. ASSUME Computing, NEW status, call' = [call EXCEPT ![computer] = status],
             UNCHANGED <<worker, nextIndex>>
      PROVE  WorkerInv'
  <2>1. \A c \in Functions : call'[c] = call[c]
    BY <1>7 DEF Computing, TypeOK
  <2> QED BY <1>7, <2>1, WorkerUntouched
<1>8. ASSUME NEW phase \in {"asking", "acting"}, ComputerMoving(phase) PROVE WorkerInv'
  BY <1>7, <1>8 DEF ComputerMoving, ComputerMoves
<1>9. ASSUME NEW result \in Given, ComputerAnswering(result) PROVE WorkerInv'
  BY <1>7, <1>9 DEF ComputerAnswering, ComputerAnswers
<1>10. ASSUME NEW abortLike \in BOOLEAN, ComputerFailing(abortLike) PROVE WorkerInv'
  BY <1>7, <1>10 DEF ComputerFailing, ComputerThrows
<1>11. CASE Computing /\ ComputerFails
  BY <1>7, <1>11 DEF ComputerFails, ComputerThrows
<1>12. CASE UNCHANGED <<call, worker, nextIndex>>
  BY <1>12, WorkerUntouched
<1> QED BY Steps, <1>1, <1>2, <1>3, <1>5, <1>6, <1>8, <1>9, <1>10, <1>11, <1>12
        DEF FunctionsReturn, ComputersReturn, TurnReturns, UserAborts, vars

------------------------------------------------------------------------------
(* Computer calls run one after the other.                                  *)
ComputerInv ==
  /\ \A c \in Computers : /\ c < computer => call[c] \in Given
                          /\ computer < c => call[c] = "idle"
  /\ Computing => call[computer] \in {"idle", "asking", "acting", "failing"}
  /\ group["computers"] = "ok" => computer \notin Computers
  /\ group["computers"] = "threw" => computer \in Computers /\ call[computer] = "failed"

LEMMA InitComputer == Init => ComputerInv
<1> SUFFICES ASSUME Init PROVE ComputerInv
  OBVIOUS
<1>1. \A c \in Computers : c \in Calls /\ c \notin Workers /\ ~(c < computer)
  BY Constants, CallsAreNumbers DEF Init, Computers
<1>2. group["computers"] = "running"
  BY DEF Init
<1> QED BY <1>1, <1>2, Constants, CallsAreNumbers DEF Init, ComputerInv, Computing

LEMMA ComputerUntouched ==
  ASSUME ComputerInv, UNCHANGED computer, group'["computers"] = group["computers"],
         \A c \in Computers : call'[c] = call[c]
  PROVE  ComputerInv'
BY DEF ComputerInv, Computing

LEMMA NextComputer == TypeOK /\ ComputerInv /\ [Next]_vars => ComputerInv'
<1> SUFFICES ASSUME TypeOK, ComputerInv, [Next]_vars PROVE ComputerInv'
  OBVIOUS
<1> USE Constants, CallsAreNumbers
<1>1. ASSUME NEW c \in Functions, NEW status, call' = [call EXCEPT ![c] = status],
             UNCHANGED <<computer, group>>
      PROVE  ComputerInv'
  <2>1. \A d \in Computers : call'[d] = call[d]
    BY <1>1 DEF TypeOK
  <2> QED BY <1>1, <2>1, ComputerUntouched
<1>2. ASSUME NEW w \in Workers, TakeCall(w) PROVE ComputerInv'
  <2>1. nextIndex \in Functions
    BY <1>2 DEF TakeCall, MayTake, TypeOK, Functions
  <2> QED BY <1>1, <1>2, <2>1 DEF TakeCall
<1>3. ASSUME NEW w \in Workers, NEW phase \in {"acting", "finishing"}, Moving(w, phase)
      PROVE  ComputerInv'
  BY <1>1, <1>3 DEF Moving, Moves
<1>4. ASSUME NEW w \in Workers, NEW result \in Given, Answering(w, result) PROVE ComputerInv'
  BY <1>1, <1>4 DEF Answering, Answers
<1>5. ASSUME NEW w \in Workers, NEW abortLike \in BOOLEAN, Throwing(w, abortLike)
      PROVE  ComputerInv'
  BY <1>1, <1>5 DEF Throwing, FunctionThrows
<1>6. ASSUME NEW status \in {"asking", "acting", "failing"}, Computing,
             call' = [call EXCEPT ![computer] = status], UNCHANGED <<computer, group>>
      PROVE  ComputerInv'
  BY <1>6 DEF ComputerInv, Computing, TypeOK
<1>7. ASSUME Computing, call' = [call EXCEPT ![computer] = "failed"],
             group' = [group EXCEPT !["computers"] = "threw"], UNCHANGED computer
      PROVE  ComputerInv'
  BY <1>7 DEF ComputerInv, Computing, TypeOK
<1>8. ASSUME NEW phase \in {"asking", "acting"}, ComputerMoving(phase) PROVE ComputerInv'
  BY <1>6, <1>8 DEF ComputerMoving, ComputerMoves
<1>9. ASSUME NEW result \in Given, ComputerAnswering(result) PROVE ComputerInv'
  <2>1. \A c \in Computers : call'[c] = IF c = computer THEN result ELSE call[c]
    BY <1>9 DEF ComputerAnswering, ComputerAnswers, TypeOK
  <2>2. /\ computer' = computer + 1 /\ group' = group
        /\ computer \in Nat /\ group["computers"] = "running"
    BY <1>9 DEF ComputerAnswering, ComputerAnswers, Computing
  <2> QED BY <2>1, <2>2 DEF ComputerInv, Computing
<1>10. ASSUME NEW abortLike \in BOOLEAN, ComputerFailing(abortLike) PROVE ComputerInv'
  BY <1>6, <1>7, <1>10 DEF ComputerFailing, ComputerThrows
<1>11. CASE Computing /\ ComputerFails
  BY <1>7, <1>11 DEF ComputerFails, ComputerThrows
<1>12. CASE ComputersReturn
  BY <1>12 DEF ComputersReturn, ComputerInv, Computing, TypeOK
<1>13. CASE FunctionsReturn
  BY <1>13, ComputerUntouched DEF FunctionsReturn, TypeOK
<1>14. CASE UNCHANGED <<call, computer, group>>
  BY <1>14, ComputerUntouched
<1> QED BY Steps, <1>2, <1>3, <1>4, <1>5, <1>8, <1>9, <1>10, <1>11, <1>12, <1>13, <1>14
        DEF WorkerEnds, TurnReturns, UserAborts, vars

------------------------------------------------------------------------------
(* The categories and the turn return when their calls are over.            *)
GroupInv ==
  /\ group["functions"] # "running" => \A w \in Workers : worker[w] = Ended
  /\ outcome # "running" => "running" \notin {group["functions"], group["computers"]}
  /\ outcome = "ok" => "threw" \notin {group["functions"], group["computers"]}
  /\ outcome = "threw" => "threw" \in {group["functions"], group["computers"]}

LEMMA InitGroup == Init => GroupInv
BY DEF Init, GroupInv

LEMMA NextGroup == TypeOK /\ GroupInv /\ [Next]_vars => GroupInv'
<1> SUFFICES ASSUME TypeOK, GroupInv, [Next]_vars PROVE GroupInv'
  OBVIOUS
<1> USE Constants, CallsAreNumbers, NotACall
<1>1. ASSUME NEW w \in Workers, worker[w] # Ended, UNCHANGED <<group, outcome>>
      PROVE  GroupInv'
  BY <1>1 DEF GroupInv
<1>2. ASSUME NEW w \in Workers, TakeCall(w) \/ WorkerEnds(w) PROVE GroupInv'
  BY <1>1, <1>2 DEF TakeCall, WorkerEnds, Free, Ended
<1>3. ASSUME NEW w \in Workers, NEW phase \in {"acting", "finishing"}, Moving(w, phase)
      PROVE  GroupInv'
  BY <1>1, <1>3 DEF Moving, Moves
<1>4. ASSUME NEW w \in Workers, NEW result \in Given, Answering(w, result) PROVE GroupInv'
  BY <1>1, <1>4 DEF Answering, Answers
<1>5. ASSUME NEW w \in Workers, NEW abortLike \in BOOLEAN, Throwing(w, abortLike)
      PROVE  GroupInv'
  BY <1>1, <1>5 DEF Throwing, FunctionThrows
<1>6. CASE UNCHANGED <<worker, group, outcome>>
  BY <1>6 DEF GroupInv
<1>7. ASSUME Computing, group' = [group EXCEPT !["computers"] = "threw"],
             UNCHANGED <<worker, outcome>>
      PROVE  GroupInv'
  BY <1>7 DEF Computing, GroupInv, TypeOK
<1>8. ASSUME NEW phase \in {"asking", "acting"}, ComputerMoving(phase) PROVE GroupInv'
  BY <1>6, <1>8 DEF ComputerMoving, ComputerMoves
<1>9. ASSUME NEW result \in Given, ComputerAnswering(result) PROVE GroupInv'
  BY <1>6, <1>9 DEF ComputerAnswering, ComputerAnswers
<1>10. ASSUME NEW abortLike \in BOOLEAN, ComputerFailing(abortLike) PROVE GroupInv'
  BY <1>6, <1>7, <1>10 DEF ComputerFailing, ComputerThrows
<1>11. CASE Computing /\ ComputerFails
  BY <1>7, <1>11 DEF ComputerFails, ComputerThrows
<1>12. CASE FunctionsReturn
  BY <1>12 DEF FunctionsReturn, MayReturn, GroupInv, TypeOK
<1>13. CASE ComputersReturn
  BY <1>13 DEF ComputersReturn, GroupInv, TypeOK
<1>14. CASE TurnReturns
  BY <1>14 DEF TurnReturns, GroupInv
<1> QED BY Steps, <1>2, <1>3, <1>4, <1>5, <1>6, <1>8, <1>9, <1>10, <1>11, <1>12, <1>13, <1>14
        DEF UserAborts, vars

------------------------------------------------------------------------------
(* NothingOutlivesTurn.                                                     *)

LEMMA SettledWhenOver ==
  ASSUME TypeOK, WorkerInv, ComputerInv, GroupInv
  PROVE  NothingOutlivesTurn
<1> SUFFICES ASSUME outcome # "running", NEW c \in Calls PROVE call[c] \in Settled
  BY DEF NothingOutlivesTurn
<1> USE Constants, CallsAreNumbers, NotACall
<1>1. /\ \A w \in Workers : worker[w] = Ended
      /\ group["computers"] \in {"ok", "threw"}
  BY DEF GroupInv, TypeOK
<1>2. CASE c \in Functions
  <2>1. call[c] \notin Going /\ call[c] # "failing"
    BY <1>1, <1>2 DEF WorkerInv
  <2> QED BY <2>1 DEF TypeOK, Going, Settled
<1>3. CASE c \in Computers
  <2>1. CASE c = computer
    BY <1>1, <1>3, <2>1 DEF ComputerInv, Settled
  <2>2. CASE c # computer
    <3>1. computer \in Nat /\ (c < computer \/ computer < c)
      BY <1>3, <2>2 DEF TypeOK
    <3> QED BY <1>3, <3>1 DEF ComputerInv, Given, Settled
  <2> QED BY <2>1, <2>2
<1> QED BY <1>2, <1>3

------------------------------------------------------------------------------
(* Signals, owners and errors.                                              *)

(* A computer call has failed, or still awaits its other answers.           *)
Failing == group["computers"] = "threw" \/ (Computing /\ call[computer] = "failing")

(* A signal is aborted only with a reason, and a failure that has an owner  *)
(* has aborted both scopes.                                                 *)
ReasonInv ==
  /\ reason["user"] # "sibling"
  /\ Aborted("user") => Aborted("turn") /\ Aborted("tools")
  /\ reason["turn"] = "user" => Aborted("user")
  /\ reason["tools"] = "user" => Aborted("user")
  /\ reason["turn"] = "sibling" => owner # "none"
  /\ owner # "none" => Aborted("turn") /\ Aborted("tools")
  /\ HasToolsScope /\ failure["tools"] # NoError => Aborted("tools")
  /\ ~Aborted("turn") /\ Aborted("tools") => failure["tools"] # NoError

(* The scope of the function calls has a failure when one of them failed.   *)
FailureInv ==
  /\ failure["tools"] = NoError <=> \A c \in Functions : call[c] # "failed"
  /\ failure["tools"] # NoError => first # NoError
  /\ group["functions"] = "threw" => failure["tools"] # NoError
  /\ group["functions"] = "ok" => failure["tools"] = NoError
  /\ ~HasToolsScope /\ failure["tools"] # NoError => \A w \in Workers : worker[w] = Ended
  /\ NumComputers = 0 /\ first # NoError => failure["tools"] # NoError

(* With both categories the first failure has an owner, and the owner has   *)
(* failed.                                                                  *)
OwnerInv ==
  /\ HasTurnScope => (owner = "none" <=> first = NoError)
  /\ ~HasTurnScope => owner = "none"
  /\ owner = "functions" => failure["tools"] # NoError
  /\ owner = "computers" => Failing
  /\ Failing => first # NoError
  /\ NumFunctions = 0 /\ first # NoError => Failing

(* What the caller may get: the first failure, or the user's reason.        *)
Rightful(error) == error = first \/ (error = UserReason /\ Aborted("user"))

ThrownInv ==
  /\ NumComputers = 0 \/ owner = "functions" => Rightful(failure["tools"])
  /\ NumFunctions = 0 => failure["turn"] = first
  /\ owner = "computers" => Rightful(failure["turn"])
  /\ owner = "functions" /\ group["functions"] # "running"
       => failure["turn"] = failure["tools"]
  /\ HasTurnScope /\ owner = "none" => failure["turn"] = NoError

(* A worker that stops before the last call does so because of a failure.   *)
TakenInv ==
  /\ ~Capped => nextIndex = NumFunctions + 1
  /\ nextIndex <= NumFunctions =>
       \A w \in Workers :
         worker[w] = Ended => failure["tools"] # NoError \/ owner = "computers"


ScopeInv == ReasonInv /\ FailureInv /\ OwnerInv /\ ThrownInv

LEMMA InitScope == Init => ScopeInv
<1> SUFFICES ASSUME Init PROVE ScopeInv
  OBVIOUS
<1> USE Constants, CallsAreNumbers
<1>1. \A c \in Functions : call[c] # "failed"
  BY DEF Init
<1>2. ~Failing
  <2>1. NumFunctions + 1 \in Computers => NumFunctions + 1 \in Calls
    OBVIOUS
  <2> QED BY <2>1 DEF Init, Failing, Computing
<1>3. reason = [s \in {"user", "turn", "tools"} |-> "none"] /\ owner = "none"
      /\ failure = [s \in {"turn", "tools"} |-> NoError] /\ first = NoError
      /\ group["functions"] = "running"
  BY DEF Init
<1>4. ReasonInv
  BY <1>3 DEF ReasonInv, Aborted
<1>5. FailureInv
  BY <1>1, <1>3 DEF FailureInv
<1>6. OwnerInv
  BY <1>2, <1>3 DEF OwnerInv
<1>7. ThrownInv
  BY <1>3 DEF ThrownInv, Rightful
<1> QED BY <1>4, <1>5, <1>6, <1>7 DEF ScopeInv

(* Steps without a failure: no call fails, and no worker comes back.        *)
LEMMA ScopesUntouched ==
  ASSUME ScopeInv, UNCHANGED <<reason, owner, failure, first>>,
         \A c \in Functions : call'[c] = "failed" <=> call[c] = "failed",
         \A w \in Workers : worker[w] = Ended => worker'[w] = Ended,
         group'["functions"] = group["functions"],
         Failing' <=> Failing
  PROVE  ScopeInv'
<1>1. ReasonInv' /\ ThrownInv'
  BY DEF ScopeInv, ReasonInv, ThrownInv, Rightful, Aborted
<1>2. FailureInv'
  BY DEF ScopeInv, FailureInv
<1>3. OwnerInv'
  BY DEF ScopeInv, OwnerInv
<1> QED BY <1>1, <1>2, <1>3 DEF ScopeInv

LEMMA ScopesAfterFunctionThrows ==
  ASSUME TypeOK, WorkerInv, GroupInv, ScopeInv, NEW w \in Workers,
         NEW abortLike \in BOOLEAN, Throwing(w, abortLike)
  PROVE  ScopeInv'
<1> USE Constants, CallsAreNumbers, NotACall
<1> DEFINE c == worker[w]
           signals == (IF HasToolsScope THEN {"tools"} ELSE {})
                        \cup (IF FirstOfTurn THEN {"turn", "tools"} ELSE {})
<1>1. /\ c \in Functions /\ c # NoError /\ c # Ended /\ call[c] \in Going
      /\ group["functions"] = "running"
      /\ UNCHANGED <<computer, group, outcome>>
  BY DEF Throwing, FunctionThrows, GroupInv, NoError
<1>2. \A d \in Calls : call'[d] = IF d = c THEN "failed" ELSE call[d]
  BY <1>1 DEF Throwing, FunctionThrows, TypeOK
<1>3. \A v \in Workers : worker'[v] = IF v = w THEN Ended ELSE worker[v]
  BY DEF Throwing, FunctionThrows, TypeOK
<1>4. first' # NoError /\ (first # NoError => first' = first) /\ (first = NoError => first' = c)
  BY <1>1 DEF Throwing, FunctionThrows, First
<1>5. owner' = IF FirstOfTurn THEN "functions" ELSE owner
  BY DEF Throwing, FunctionThrows
<1>6. \A s \in {"user", "turn", "tools"} :
        reason'[s] = IF s \in signals /\ reason[s] = "none" THEN "sibling" ELSE reason[s]
  <2>1. reason' = Abort(signals, "sibling")
    BY DEF Throwing, FunctionThrows
  <2> QED BY <2>1, AbortType
<1>7. /\ failure'["turn"] = failure["turn"]
      /\ failure'["tools"] = IF failure["tools"] # NoError THEN failure["tools"]
                             ELSE IF HasToolsScope THEN Surfaced(c, abortLike, "turn")
                             ELSE c
  BY DEF Throwing, FunctionThrows, TypeOK
<1>8. UserReason # NoError /\ SiblingReason # NoError
  BY DEF UserReason, SiblingReason, NoError
<1>9. failure'["tools"] # NoError
  BY <1>1, <1>7, <1>8 DEF Surfaced, ReasonOf
<1>10. Failing' <=> Failing
  BY <1>1, <1>2 DEF Failing, Computing
<1>11. ReasonInv'
  BY <1>5, <1>6, <1>9 DEF ScopeInv, ReasonInv, Aborted, FirstOfTurn
<1>12. FailureInv'
  <2>1. ~HasToolsScope => \A v \in Workers : v = w
    BY DEF HasToolsScope, Workers
  <2> QED BY <1>1, <1>2, <1>3, <1>4, <1>9, <2>1 DEF FailureInv
<1>13. OwnerInv'
  BY <1>1, <1>4, <1>5, <1>9, <1>10 DEF ScopeInv, OwnerInv, FirstOfTurn, HasTurnScope
<1>14. ThrownInv'
  <2>1. ASSUME NumComputers = 0 \/ owner' = "functions" PROVE Rightful(failure["tools"])'
    <3>1. CASE failure["tools"] # NoError
      <4>1. first # NoError /\ first' = first
        BY <1>4, <3>1 DEF ScopeInv, FailureInv
      <4>2. NumComputers = 0 \/ owner = "functions"
        BY <2>1, <1>5, <4>1 DEF ScopeInv, OwnerInv, FirstOfTurn
      <4> QED BY <1>6, <1>7, <3>1, <4>1, <4>2 DEF ScopeInv, ThrownInv, Rightful, Aborted
    <3>2. CASE failure["tools"] = NoError
      <4>1. owner = "none"
        BY <2>1, <1>5, <3>2 DEF ScopeInv, OwnerInv, FirstOfTurn, HasTurnScope
      <4>2. first = NoError
        BY <2>1, <1>1, <1>5, <3>2, <4>1
        DEF ScopeInv, OwnerInv, FailureInv, FirstOfTurn
      <4>3. Aborted("turn") => reason["turn"] = "user" /\ Aborted("user")
        BY <4>1 DEF ScopeInv, ReasonInv, Aborted, TypeOK
      <4>4. failure'["tools"] \in {c, UserReason}
            /\ (failure'["tools"] = UserReason /\ UserReason # c => Aborted("user"))
        BY <1>7, <3>2, <4>3 DEF Surfaced, ReasonOf
      <4> QED BY <1>4, <1>6, <4>2, <4>4 DEF Rightful, Aborted, TypeOK
    <3> QED BY <3>1, <3>2
  <2>2. NumFunctions # 0
    BY <1>1
  <2>3. ASSUME owner' = "computers" PROVE Rightful(failure["turn"])'
    <3>1. owner = "computers" /\ HasTurnScope
      BY <2>3, <1>5 DEF ScopeInv, OwnerInv
    <3>2. first' = first
      BY <1>4, <3>1 DEF ScopeInv, OwnerInv
    <3> QED BY <1>6, <1>7, <3>1, <3>2 DEF ScopeInv, ThrownInv, Rightful, Aborted
  <2>4. ~(HasTurnScope /\ owner' = "none")
    BY <1>5 DEF FirstOfTurn
  <2> QED BY <1>1, <2>1, <2>2, <2>3, <2>4 DEF ThrownInv
<1> QED BY <1>11, <1>12, <1>13, <1>14 DEF ScopeInv

LEMMA ScopesAfterFunctionsReturn ==
  ASSUME TypeOK, ScopeInv, FunctionsReturn
  PROVE  ScopeInv'
<1>1. owner' = owner /\ reason' = reason
  BY DEF FunctionsReturn, ScopeInv, FailureInv, OwnerInv, FirstOfTurn
<1>2. /\ failure'["tools"] = failure["tools"]
      /\ failure'["turn"] = IF owner = "functions" THEN failure["tools"] ELSE failure["turn"]
  BY <1>1 DEF FunctionsReturn, TypeOK
<1>3. /\ group'["functions"] = IF failure["tools"] # NoError THEN "threw" ELSE "ok"
      /\ group'["computers"] = group["computers"]
      /\ UNCHANGED <<call, worker, computer, first>>
  BY DEF FunctionsReturn, TypeOK
<1>4. Failing' <=> Failing
  BY <1>3 DEF Failing, Computing
<1>5. ReasonInv'
  BY <1>1, <1>2 DEF ScopeInv, ReasonInv, Aborted
<1>6. FailureInv'
  BY <1>2, <1>3 DEF ScopeInv, FailureInv
<1>7. OwnerInv'
  BY <1>1, <1>2, <1>3, <1>4 DEF ScopeInv, OwnerInv
<1>8. ThrownInv'
  BY <1>1, <1>2, <1>3, Constants DEF ScopeInv, ThrownInv, OwnerInv, Rightful, Aborted, HasTurnScope
<1> QED BY <1>5, <1>6, <1>7, <1>8 DEF ScopeInv

LEMMA ScopesAfterComputerFails ==
  ASSUME TypeOK, ComputerInv, ScopeInv, NEW abortLike \in BOOLEAN,
         ComputerFailing(abortLike)
  PROVE  ScopeInv'
<1> USE Constants, CallsAreNumbers
<1> DEFINE signals == IF FirstOfTurn THEN {"turn", "tools"} ELSE {}
<1>1. /\ Computing /\ computer \in Computers /\ computer # NoError
      /\ call[computer] \in {"asking", "acting"} /\ ~Failing
      /\ UNCHANGED <<worker, computer, outcome>>
  BY DEF ComputerFailing, ComputerThrows, Computing, Failing, NoError
<1>2. \A c \in Functions : call'[c] = call[c]
  BY <1>1 DEF ComputerFailing, ComputerThrows, TypeOK
<1>3. group'["functions"] = group["functions"] /\ Failing'
  BY <1>1 DEF ComputerFailing, ComputerThrows, Failing, Computing, TypeOK
<1>4. first' # NoError /\ (first # NoError => first' = first)
      /\ (first = NoError => first' = computer)
  BY <1>1 DEF ComputerFailing, Reserve, First
<1>5. owner' = IF FirstOfTurn THEN "computers" ELSE owner
  BY DEF ComputerFailing, Reserve
<1>6. \A s \in {"user", "turn", "tools"} :
        reason'[s] = IF s \in signals /\ reason[s] = "none" THEN "sibling" ELSE reason[s]
  BY AbortType DEF ComputerFailing, Reserve, TypeOK
<1>7. /\ failure'["tools"] = failure["tools"]
      /\ failure'["turn"] =
           IF owner # "none" \/ failure["turn"] # NoError THEN failure["turn"]
           ELSE IF HasTurnScope THEN Surfaced(computer, abortLike, "user")
           ELSE computer
  BY DEF ComputerFailing, Reserve, TypeOK
<1>8. ReasonInv'
  BY <1>5, <1>6, <1>7 DEF ScopeInv, ReasonInv, OwnerInv, Aborted, FirstOfTurn
<1>9. FailureInv'
  BY <1>1, <1>2, <1>3, <1>4, <1>7 DEF ScopeInv, FailureInv
<1>10. OwnerInv'
  BY <1>3, <1>4, <1>5, <1>7 DEF ScopeInv, OwnerInv, FirstOfTurn
<1>11. ThrownInv'
  <2>1. ASSUME owner' = "functions" PROVE Rightful(failure["tools"])' /\ owner = "functions"
    <3>1. owner = "functions" /\ first' = first
      BY <2>1, <1>4, <1>5 DEF ScopeInv, OwnerInv
    <3> QED BY <1>6, <1>7, <3>1 DEF ScopeInv, ThrownInv, Rightful, Aborted
  <2>2. NumComputers # 0
    BY <1>1
  <2>3. ASSUME NumFunctions = 0 PROVE failure'["turn"] = first'
    <3>1. ~HasTurnScope /\ owner = "none" /\ first = NoError
      BY <2>3, <1>1 DEF ScopeInv, OwnerInv, HasTurnScope
    <3> QED BY <2>3, <1>4, <1>7, <3>1 DEF ScopeInv, ThrownInv
  <2>4. ASSUME owner' = "computers" PROVE Rightful(failure["turn"])'
    <3>1. FirstOfTurn /\ HasTurnScope /\ owner = "none"
      BY <2>4, <1>1, <1>5 DEF ScopeInv, OwnerInv, FirstOfTurn
    <3>2. first = NoError /\ failure["turn"] = NoError
      BY <3>1 DEF ScopeInv, OwnerInv, ThrownInv
    <3>3. failure'["turn"] = Surfaced(computer, abortLike, "user")
      BY <1>7, <3>1, <3>2
    <3>4. Aborted("user") => reason["user"] = "user"
      BY DEF ScopeInv, ReasonInv, Aborted, TypeOK
    <3>5. \/ failure'["turn"] = computer
          \/ failure'["turn"] = UserReason /\ Aborted("user")
      BY <3>3, <3>4 DEF Surfaced, ReasonOf
    <3> QED BY <1>4, <1>6, <3>2, <3>5 DEF Rightful, Aborted
  <2>5. ~(HasTurnScope /\ owner' = "none")
    BY <1>5 DEF FirstOfTurn
  <2>6. owner' = "functions" => failure'["turn"] = failure["turn"]
    BY <1>7, <2>1
  <2> QED BY <1>3, <1>7, <2>1, <2>2, <2>3, <2>4, <2>5, <2>6 DEF ScopeInv, ThrownInv
<1> QED BY <1>8, <1>9, <1>10, <1>11 DEF ScopeInv

LEMMA ScopesAfterUserAborts ==
  ASSUME TypeOK, ScopeInv, UserAborts
  PROVE  ScopeInv'
<1>1. \A s \in {"user", "turn", "tools"} :
        reason'[s] = IF reason[s] = "none" THEN "user" ELSE reason[s]
  BY AbortType DEF UserAborts
<1>2. UNCHANGED <<call, worker, computer, owner, failure, group, first>>
  BY DEF UserAborts
<1>3. ReasonInv'
  BY <1>1, <1>2 DEF ScopeInv, ReasonInv, Aborted, TypeOK
<1>4. FailureInv' /\ OwnerInv'
  BY <1>2 DEF ScopeInv, FailureInv, OwnerInv, Failing, Computing
<1>5. ThrownInv'
  BY <1>1, <1>2 DEF ScopeInv, ThrownInv, Rightful, Aborted
<1> QED BY <1>3, <1>4, <1>5 DEF ScopeInv

LEMMA NextScope ==
  TypeOK /\ WorkerInv /\ ComputerInv /\ GroupInv /\ ScopeInv /\ [Next]_vars => ScopeInv'
<1> SUFFICES ASSUME TypeOK, WorkerInv, ComputerInv, GroupInv, ScopeInv, [Next]_vars
             PROVE  ScopeInv'
  OBVIOUS
<1> USE Constants, CallsAreNumbers, NotACall
<1>1. ASSUME NEW w \in Workers, NEW c \in Functions, NEW status, status # "failed",
             call[c] # "failed", call' = [call EXCEPT ![c] = status],
             worker[w] # Ended, \A v \in Workers \ {w} : worker'[v] = worker[v],
             UNCHANGED <<computer, scopes, group, first>>
      PROVE  ScopeInv'
  <2>1. \A d \in Calls : call'[d] = IF d = c THEN status ELSE call[d]
    BY <1>1 DEF TypeOK
  <2>2. Failing' <=> Failing
    BY <1>1, <2>1 DEF Failing, Computing
  <2>3. \A v \in Workers : worker[v] = Ended => worker'[v] = Ended
    BY <1>1
  <2>4. \A d \in Functions : call'[d] = "failed" <=> call[d] = "failed"
    BY <1>1, <2>1
  <2> QED BY <1>1, <2>2, <2>3, <2>4, ScopesUntouched DEF scopes
<1>2. ASSUME NEW w \in Workers, TakeCall(w) PROVE ScopeInv'
  <2>1. nextIndex \in Functions
    BY <1>2 DEF TakeCall, MayTake, TypeOK, Functions
  <2>2. call[nextIndex] # "failed"
    BY <2>1 DEF WorkerInv
  <2>3. worker[w] # Ended /\ \A v \in Workers \ {w} : worker'[v] = worker[v]
    BY <1>2 DEF TakeCall, TypeOK, Free, Ended
  <2> QED BY <1>1, <1>2, <2>1, <2>2, <2>3 DEF TakeCall
<1>3. ASSUME NEW w \in Workers, WorkerEnds(w) PROVE ScopeInv'
  <2>1. \A v \in Workers : worker[v] = Ended => worker'[v] = Ended
    BY <1>3 DEF WorkerEnds, TypeOK
  <2>2. Failing' <=> Failing
    BY <1>3 DEF WorkerEnds, Failing, Computing
  <2> QED BY <1>3, <2>1, <2>2, ScopesUntouched DEF WorkerEnds, scopes
<1>4. ASSUME NEW w \in Workers, NEW phase \in {"acting", "finishing"}, Moving(w, phase)
      PROVE  ScopeInv'
  BY <1>1, <1>4 DEF Moving, Moves, Going
<1>5. ASSUME NEW w \in Workers, NEW result \in Given, Answering(w, result) PROVE ScopeInv'
  <2>1. \A v \in Workers \ {w} : worker'[v] = worker[v]
    BY <1>5 DEF Answering, Answers, TypeOK
  <2> QED BY <1>1, <1>5, <2>1 DEF Answering, Answers, Going, Given
<1>6. ASSUME Computing, NEW status \in {"asking", "acting"} \cup Given,
             call[computer] # "failing", computer' \in {computer, computer + 1},
             call' = [call EXCEPT ![computer] = status],
             UNCHANGED <<worker, scopes, group, first>>
      PROVE  ScopeInv'
  <2>1. \A d \in Calls : call'[d] = IF d = computer THEN status ELSE call[d]
    BY <1>6 DEF TypeOK
  <2>2. ~Failing /\ ~Failing'
    BY <1>6, <2>1 DEF Failing, Computing, ComputerInv, Given
  <2> QED BY <1>6, <2>1, <2>2, ScopesUntouched DEF Computing, scopes
<1>7. ASSUME NEW phase \in {"asking", "acting"}, ComputerMoving(phase) PROVE ScopeInv'
  BY <1>6, <1>7 DEF ComputerMoving, ComputerMoves
<1>8. ASSUME NEW result \in Given, ComputerAnswering(result) PROVE ScopeInv'
  BY <1>6, <1>8 DEF ComputerAnswering, ComputerAnswers
<1>9. CASE Computing /\ ComputerFails
  <2>1. \A c \in Functions : call'[c] = call[c]
    BY <1>9 DEF ComputerFails, ComputerThrows, Computing, TypeOK
  <2>2. Failing /\ Failing' /\ group'["functions"] = group["functions"]
    BY <1>9 DEF ComputerFails, ComputerThrows, Failing, TypeOK
  <2> QED BY <1>9, <2>1, <2>2, ScopesUntouched DEF ComputerFails, ComputerThrows, scopes
<1>10. CASE ComputersReturn
  <2>1. ~Failing /\ ~Failing' /\ group'["functions"] = group["functions"]
    BY <1>10 DEF ComputersReturn, Failing, Computing, TypeOK
  <2> QED BY <1>10, <2>1, ScopesUntouched DEF ComputersReturn, scopes
<1>11. CASE TurnReturns \/ UNCHANGED vars
  <2>1. Failing' <=> Failing
    BY <1>11 DEF TurnReturns, vars, Failing, Computing
  <2> QED BY <1>11, <2>1, ScopesUntouched DEF TurnReturns, vars, scopes
<1> QED
  BY Steps, <1>2, <1>3, <1>4, <1>5, <1>7, <1>8, <1>9, <1>10, <1>11,
     ScopesAfterFunctionThrows, ScopesAfterFunctionsReturn, ScopesAfterComputerFails,
     ScopesAfterUserAborts

------------------------------------------------------------------------------
(* Every call that is left is left for a reason.                            *)

LEMMA InitTaken == Init => TakenInv
<1> SUFFICES ASSUME Init PROVE TakenInv
  OBVIOUS
<1>1. \A w \in Workers : worker[w] # Ended
  BY CallsAreNumbers, NotACall DEF Init
<1> QED BY <1>1 DEF Init, TakenInv

(* Once a failure or an owner is there, it stays.                           *)
LEMMA FailuresStay ==
  ASSUME TypeOK, ScopeInv, [Next]_vars
  PROVE  /\ failure["tools"] # NoError => failure'["tools"] # NoError
         /\ owner = "computers" => owner' = "computers"
<1>1. ASSUME NEW w \in Workers, NEW abortLike \in BOOLEAN, Throwing(w, abortLike)
      PROVE  /\ failure["tools"] # NoError => failure'["tools"] # NoError
             /\ owner = "computers" => owner' = "computers"
  BY <1>1 DEF Throwing, FunctionThrows, FirstOfTurn, TypeOK
<1>2. CASE FunctionsReturn
  BY <1>2 DEF FunctionsReturn, FirstOfTurn, TypeOK
<1>3. ASSUME NEW abortLike \in BOOLEAN, ComputerFailing(abortLike)
      PROVE  /\ failure["tools"] # NoError => failure'["tools"] # NoError
             /\ owner = "computers" => owner' = "computers"
  BY <1>3 DEF ComputerFailing, Reserve, FirstOfTurn, TypeOK
<1> QED
  BY Steps, <1>1, <1>2, <1>3
  DEF TakeCall, WorkerEnds, Moving, Moves, Answering, Answers, ComputerMoving, ComputerMoves,
      ComputerAnswering, ComputerAnswers, ComputerFails, ComputerThrows, ComputersReturn,
      TurnReturns, UserAborts, scopes, vars

LEMMA NextTaken ==
  TypeOK /\ WorkerInv /\ ScopeInv /\ TakenInv /\ [Next]_vars => TakenInv'
<1> SUFFICES ASSUME TypeOK, WorkerInv, ScopeInv, TakenInv, [Next]_vars PROVE TakenInv'
  OBVIOUS
<1> USE Constants, CallsAreNumbers, NotACall
<1>1. CASE UNCHANGED <<worker, nextIndex>>
  BY <1>1, FailuresStay DEF TakenInv
<1>2. ASSUME NEW w \in Workers, TakeCall(w) PROVE TakenInv'
  <2>1. nextIndex \in Functions /\ nextIndex' = nextIndex + 1 /\ Capped
    BY <1>2 DEF TakeCall, MayTake, TypeOK, Functions, TakenInv
  <2>2. \A v \in Workers : worker'[v] = Ended => worker[v] = Ended
    BY <1>2, <2>1 DEF TakeCall, TypeOK, Free, Ended
  <2> QED BY <2>1, <2>2, FailuresStay DEF TakenInv
<1>3. ASSUME NEW w \in Workers, WorkerEnds(w) PROVE TakenInv'
  <2>1. nextIndex <= NumFunctions => failure["tools"] # NoError \/ owner = "computers"
    BY <1>3 DEF WorkerEnds, MayTake, ScopeInv, ReasonInv, OwnerInv, Aborted, TypeOK
  <2> QED BY <1>3, <2>1 DEF WorkerEnds, TakenInv, scopes
<1>4. ASSUME NEW w \in Workers, NEW result \in Given, Answering(w, result) PROVE TakenInv'
  <2>1. UNCHANGED <<nextIndex, failure, owner>>
    BY <1>4 DEF Answering, Answers, scopes
  <2>2. Capped => \A v \in Workers : worker'[v] = Ended => worker[v] = Ended
    BY <1>4 DEF Answering, Answers, TypeOK, Free, Ended
  <2>3. nextIndex <= NumFunctions => Capped
    BY DEF TakenInv
  <2> QED BY <2>1, <2>2, <2>3 DEF TakenInv
<1>5. ASSUME NEW w \in Workers, NEW abortLike \in BOOLEAN, Throwing(w, abortLike)
      PROVE  TakenInv'
  <2>1. failure'["tools"] # NoError
    <3>1. worker[w] # NoError /\ UserReason # NoError /\ SiblingReason # NoError
      BY <1>5 DEF Throwing, NoError, UserReason, SiblingReason
    <3> QED BY <1>5, <3>1 DEF Throwing, FunctionThrows, Surfaced, ReasonOf, TypeOK
  <2> QED BY <1>5, <2>1 DEF Throwing, FunctionThrows, TakenInv
<1> QED
  BY Steps, <1>1, <1>2, <1>3, <1>4, <1>5
  DEF Moving, Moves, FunctionsReturn, ComputerMoving, ComputerMoves, ComputerAnswering,
      ComputerAnswers, ComputerFailing, ComputerFails, ComputerThrows, ComputersReturn,
      TurnReturns, UserAborts, vars

------------------------------------------------------------------------------
(* The inductive invariant.                                                 *)
IndInv ==
  TypeOK /\ WorkerInv /\ ComputerInv /\ GroupInv /\ ScopeInv /\ TakenInv

LEMMA Inductive == Spec => []IndInv
<1>1. Init => IndInv
  BY InitType, InitWorker, InitComputer, InitGroup, InitScope, InitTaken DEF IndInv
<1>2. IndInv /\ [Next]_vars => IndInv'
  BY NextType, NextWorker, NextComputer, NextGroup, NextScope, NextTaken DEF IndInv
<1> QED BY <1>1, <1>2, PTL DEF Spec

(* When the turn goes on or throws, no call is still running, however many  *)
(* workers there are and whatever failed or was aborted.                    *)
THEOREM NothingLeftRunning == Spec => []NothingOutlivesTurn
<1>1. IndInv => NothingOutlivesTurn
  BY SettledWhenOver DEF IndInv
<1> QED BY <1>1, Inductive, PTL

LEMMA OverIsAnswered ==
  ASSUME IndInv
  PROVE  EveryCallAnswered
<1> USE Constants, CallsAreNumbers, NotACall DEF IndInv
<1>1. ASSUME outcome = "ok", NEW c \in Calls PROVE call[c] \in Given
  <2>1. /\ group["functions"] = "ok" /\ group["computers"] = "ok"
        /\ \A w \in Workers : worker[w] = Ended
    BY <1>1 DEF GroupInv, TypeOK
  <2>2. failure["tools"] = NoError
    BY <2>1 DEF ScopeInv, FailureInv
  <2>3. CASE c \in Functions
    <3>1. owner # "computers"
      BY <2>1 DEF ScopeInv, OwnerInv, Failing, Computing
    <3>2. Workers # {}
      <4>1. 1 \in Workers
        BY <2>3 DEF Workers, Capped
      <4> QED BY <4>1
    <3>3. ~(nextIndex <= NumFunctions)
      BY <2>1, <2>2, <3>1, <3>2 DEF TakenInv
    <3>4. call[c] \notin Going \cup {"failing", "idle", "failed"}
      BY <2>1, <2>2, <2>3, <3>3 DEF WorkerInv, ScopeInv, FailureInv, TypeOK
    <3> QED BY <3>4 DEF TypeOK, Going, Given
  <2>4. CASE c \in Computers
    BY <2>1, <2>4 DEF ComputerInv, TypeOK, Computers
  <2> QED BY <2>3, <2>4
<1>2. ASSUME outcome = "threw" PROVE \E c \in Calls : call[c] = "failed"
  <2>1. CASE group["functions"] = "threw"
    BY <2>1 DEF ScopeInv, FailureInv
  <2>2. CASE group["computers"] = "threw"
    BY <2>2 DEF ComputerInv
  <2> QED BY <1>2, <2>1, <2>2 DEF GroupInv
<1> QED BY <1>1, <1>2 DEF EveryCallAnswered, Given

(* A turn that does not throw has an answer for every call, one that throws *)
(* had a call that failed: aborts and failures of others leave no call out. *)
THEOREM AllCallsAnswered == Spec => []EveryCallAnswered
<1>1. IndInv => EveryCallAnswered
  BY OverIsAnswered
<1> QED BY <1>1, Inductive, PTL

(* The caller gets the error of the call that failed first, or the reason   *)
(* of the user's abort, never the reason that cancels siblings.             *)
THEOREM FirstErrorThrown == Spec => []FirstErrorSurfaces
<1>1. ASSUME IndInv PROVE FirstErrorSurfaces
  <2> USE <1>1, Constants DEF IndInv
  <2> SUFFICES ASSUME outcome = "threw" PROVE Rightful(Thrown)
    BY DEF FirstErrorSurfaces, Rightful
  <2>1. CASE NumComputers = 0
    BY <2>1 DEF ScopeInv, ThrownInv, Thrown
  <2>2. CASE NumFunctions = 0 /\ NumComputers # 0
    BY <2>2 DEF ScopeInv, ThrownInv, Thrown, Rightful
  <2>3. CASE NumFunctions # 0 /\ NumComputers # 0
    <3>1. first # NoError /\ group["functions"] # "running"
      BY DEF GroupInv, ScopeInv, FailureInv, OwnerInv, Failing
    <3>2. owner \in {"functions", "computers"}
      BY <2>3, <3>1 DEF ScopeInv, OwnerInv, HasTurnScope, TypeOK
    <3> QED BY <2>3, <3>1, <3>2 DEF ScopeInv, ThrownInv, Thrown
  <2> QED BY <2>1, <2>2, <2>3
<1> QED BY <1>1, Inductive, PTL

(* After a call failed or the user aborted, no call starts to act, although *)
(* calls look at the signals only when their approvals have been answered.  *)
THEOREM NoStartsAfterFailure == Spec => NoStartAfterFailure
<1> DEFINE Late == \A c \in Calls :
                     call[c] # "acting" /\ call'[c] = "acting"
                       => first = NoError /\ ~Aborted("user")
<1>1. ASSUME IndInv, [Next]_vars PROVE Late
  <2> USE <1>1, Constants, CallsAreNumbers, NotACall DEF IndInv
  <2> SUFFICES ASSUME NEW c \in Calls, call[c] # "acting", call'[c] = "acting"
               PROVE  first = NoError /\ ~Aborted("user")
    OBVIOUS
  <2>1. ASSUME NEW w \in Workers, NEW phase \in {"acting", "finishing"}, Moving(w, phase)
        PROVE  first = NoError /\ ~Aborted("user")
    <3>1. ~Aborted("tools") /\ worker[w] \in Functions
      BY <2>1 DEF Moving, Moves, TypeOK
    <3>2. CASE NumComputers = 0
      BY <3>1, <3>2 DEF ScopeInv, ReasonInv, FailureInv
    <3>3. CASE NumComputers # 0
      BY <3>1, <3>3 DEF ScopeInv, ReasonInv, OwnerInv, HasTurnScope
    <3> QED BY <3>2, <3>3
  <2>2. ASSUME NEW phase \in {"asking", "acting"}, ComputerMoving(phase)
        PROVE  first = NoError /\ ~Aborted("user")
    <3>1. ~Aborted("turn") /\ Computing /\ ~Failing
      BY <2>2 DEF ComputerMoving, Computing, Failing
    <3> QED BY <3>1 DEF ScopeInv, ReasonInv, OwnerInv, HasTurnScope, Computing
  <2>3. ASSUME NEW d, NEW status, status # "acting", call' = [call EXCEPT ![d] = status]
        PROVE  FALSE
    BY <2>3 DEF TypeOK
  <2>4. call' # call
    OBVIOUS
  <2> QED
    BY Steps, <2>1, <2>2, <2>3, <2>4
    DEF TakeCall, WorkerEnds, Answering, Answers, Given, Throwing, FunctionThrows,
        FunctionsReturn, ComputerAnswering, ComputerAnswers, ComputerFailing, ComputerFails,
        ComputerThrows, ComputersReturn, TurnReturns, UserAborts, vars
<1>2. IndInv /\ [Next]_vars => [Late]_vars
  BY <1>1
<1> QED BY <1>2, Inductive, PTL DEF Spec, NoStartAfterFailure

------------------------------------------------------------------------------
(* The turn: timeouts, late answers and the calls that follow.              *)

LEMMA SequenceIsNumbers ==
  /\ NumSequential \in Nat
  /\ Timed \subseteq Functions
  /\ \A a \in Sequential : a \in Nat /\ 1 <= a /\ a <= NumSequential
BY ActionsAssumption DEF Sequential

LEMMA TimeoutsAct ==
  ASSUME NEW w \in Workers, worker[w] \in Functions, TimesOut(w)
  PROVE  Acted(w) \/ UNCHANGED vars
<1>1. CASE reason["tools"] = "sibling"
  BY <1>1 DEF TimesOut, Acted, Aborted
<1>2. CASE reason["tools"] # "sibling" /\ Moves(w, "finishing")
  BY <1>2 DEF TimesOut, Acted
<1>3. CASE reason["tools"] # "sibling" /\ FunctionThrows(w, FALSE)
  BY <1>3 DEF TimesOut, Acted, Throws
<1> QED BY <1>1, <1>2, <1>3 DEF TimesOut

(* What a step does to the calls is a step of ToolConcurrency, or nothing.  *)
LEMMA ConcurrentSteps ==
  ASSUME [ActionsNext]_actionsVars
  PROVE  [Next]_vars
<1>1. CASE ActionsProgress
  BY <1>1 DEF ActionsProgress, ConcurrentStep, SequenceStep, ActionsReturn, Next
<1>2. CASE Timeouts
  BY <1>2, TimeoutsAct DEF Timeouts, Next, Progress, FunctionStep
<1>3. CASE LateAnswers
  BY <1>3 DEF LateAnswers, LateAnswer
<1>4. CASE ActionsAborted
  BY <1>4 DEF ActionsAborted, Next
<1>5. CASE UNCHANGED actionsVars
  BY <1>5 DEF actionsVars
<1> QED BY <1>1, <1>2, <1>3, <1>4, <1>5 DEF ActionsNext

(* Composition: whatever times out, answers late or follows in sequence, the*)
(* function and computer calls of a turn behave as ToolConcurrency says.    *)
THEOREM CallsAreConcurrent == ActionsSpec => Spec
<1>1. ActionsInit => Init
  BY DEF ActionsInit
<1>2. [ActionsNext]_actionsVars => [Next]_vars
  BY ConcurrentSteps
<1> QED BY <1>1, <1>2, PTL DEF ActionsSpec, Spec

(* The caller gets the error of the call that failed first, or the reason   *)
(* of the user's abort, also when a timeout raises the error.               *)
THEOREM FirstErrorOfTurn == ActionsSpec => []FirstErrorSurfaces
BY CallsAreConcurrent, FirstErrorThrown, PTL

------------------------------------------------------------------------------
(* Steps of the sequence, and what leaves it alone.                         *)

Taking  == action[current] = "idle" /\ Reaches("asking")
Acting  == action[current] = "asking" /\ Reaches("acting")
Ending(result) == action[current] \in {"idle", "asking", "acting"} /\ Ends(result)
Failed  == action[current] \in {"asking", "acting"} /\ Fails

LEMMA SequenceSteps ==
  ASSUME [ActionsNext]_actionsVars
  PROVE  \/ UNCHANGED <<sequence, turn>>
         \/ /\ InSequence
            /\ UNCHANGED <<vars, tool>>
            /\ \/ Taking \/ Acting \/ Failed
               \/ \E result \in Answered : Ending(result)
         \/ ActionsReturn
<1>1. CASE SequenceStep
  <2>1. CASE TakeAction
    BY <1>1, <2>1 DEF SequenceStep, TakeAction, Taking, Ending, Answered
  <2>2. CASE ActionAsked
    BY <1>1, <2>2 DEF SequenceStep, ActionAsked, Acting, Ending, Failed, Answered
  <2>3. CASE ActionActed
    BY <1>1, <2>3 DEF SequenceStep, ActionActed, Ending, Failed, Answered
  <2> QED BY <1>1, <2>1, <2>2, <2>3 DEF SequenceStep
<1>2. CASE ConcurrentStep \/ Timeouts \/ LateAnswers \/ ActionsAborted
  BY <1>2 DEF ConcurrentStep, Timeouts, TimesOut, LateAnswers, LateAnswer, ActionsAborted
<1>3. CASE UNCHANGED actionsVars
  BY <1>3 DEF actionsVars
<1> QED BY <1>1, <1>2, <1>3 DEF ActionsNext, ActionsProgress

SequenceType ==
  /\ tool \in [Timed -> {"awaited", "late", "over"}]
  /\ action \in [Sequential -> {"idle", "asking", "acting", "failed"} \cup Answered]
  /\ current \in 1 .. NumSequential + 1
  /\ turn \in {"running", "ok", "threw"}

LEMMA ToolType ==
  ASSUME SequenceType, [ActionsNext]_actionsVars
  PROVE  tool' \in [Timed -> {"awaited", "late", "over"}]
<1>1. CASE UNCHANGED tool
  BY <1>1 DEF SequenceType
<1>2. CASE Timeouts
  BY <1>2 DEF Timeouts, TimesOut, SequenceType
<1>3. CASE LateAnswers
  BY <1>3 DEF LateAnswers, LateAnswer, SequenceType
<1> QED
  BY <1>1, <1>2, <1>3
  DEF ActionsNext, ActionsProgress, ConcurrentStep, SequenceStep, ActionsReturn,
      ActionsAborted, actionsVars

LEMMA NextSequenceType ==
  ASSUME SequenceType, [ActionsNext]_actionsVars
  PROVE  SequenceType'
<1> USE SequenceIsNumbers
<1>1. tool' \in [Timed -> {"awaited", "late", "over"}]
  BY ToolType
<1>2. CASE UNCHANGED <<sequence, turn>>
  BY <1>1, <1>2 DEF SequenceType, sequence
<1>3. CASE InSequence /\ (Taking \/ Acting \/ Failed)
  BY <1>1, <1>3
  DEF SequenceType, InSequence, Taking, Acting, Failed, Reaches, Fails
<1>4. ASSUME InSequence, NEW result \in Answered, Ending(result)
      PROVE  SequenceType'
  <2>1. current + 1 \in 1 .. NumSequential + 1
    BY <1>4 DEF InSequence, Sequential
  <2> QED BY <1>1, <1>4, <2>1 DEF SequenceType, Ending, Ends
<1>5. CASE ActionsReturn
  BY <1>1, <1>5 DEF SequenceType, ActionsReturn, sequence
<1> QED BY SequenceSteps, <1>2, <1>3, <1>4, <1>5

------------------------------------------------------------------------------
(* The sequence starts when the other calls have returned, has answered what*)
(* it has passed and has not touched what comes next.                       *)
SequenceInv ==
  /\ outcome # "ok" => current = 1 /\ \A a \in Sequential : action[a] = "idle"
  /\ \A a \in Sequential : /\ a < current => action[a] \in Answered
                           /\ current < a => action[a] = "idle"
  /\ turn = "running" /\ current \in Sequential
       => action[current] \in {"idle", "asking", "acting"}
  /\ turn = "ok" => outcome = "ok" /\ current \notin Sequential
  /\ turn = "threw" => \/ outcome = "threw"
                       \/ outcome = "ok" /\ current \in Sequential
                                         /\ action[current] = "failed"

ActionsInv == IndInv /\ SequenceType /\ SequenceInv

LEMMA InitActions == ActionsInit => SequenceType /\ SequenceInv
<1> SUFFICES ASSUME ActionsInit PROVE SequenceType /\ SequenceInv
  OBVIOUS
<1> USE SequenceIsNumbers
<1>1. SequenceType
  BY DEF ActionsInit, SequenceType
<1>2. SequenceInv
  BY DEF ActionsInit, Init, SequenceInv
<1> QED BY <1>1, <1>2

LEMMA OutcomeStays ==
  ASSUME [Next]_vars, outcome # "running"
  PROVE  outcome' = outcome
<1>1. CASE FunctionStep
  BY <1>1
  DEF FunctionStep, TakeCall, WorkerEnds, Asked, Acted, Finished, Moves, Answers, Throws,
      FunctionThrows
<1>2. CASE ComputerStep
  BY <1>2
  DEF ComputerStep, TakeComputer, ComputerAsked, ComputerActed, ComputerFails,
      ComputerMoves, ComputerAnswers, ComputerThrows
<1> QED
  BY <1>1, <1>2
  DEF Next, Progress, FunctionsReturn, ComputersReturn, TurnReturns, UserAborts, vars

LEMMA NextSequence ==
  ASSUME TypeOK, SequenceType, SequenceInv, [ActionsNext]_actionsVars
  PROVE  SequenceInv'
<1> USE SequenceIsNumbers
<1>1. outcome # "running" => outcome' = outcome
  BY ConcurrentSteps, OutcomeStays
<1>2. outcome \in {"running", "ok", "threw"}
  BY DEF TypeOK
<1>3. CASE UNCHANGED <<sequence, turn>>
  BY <1>1, <1>2, <1>3 DEF SequenceInv, sequence
<1>4. CASE InSequence /\ UNCHANGED <<vars, tool>> /\ (Taking \/ Acting \/ Failed)
  <2>1. outcome = "ok" /\ outcome' = "ok" /\ current \in Sequential /\ current' = current
    BY <1>4 DEF InSequence, vars, Taking, Acting, Failed, Reaches, Fails
  <2>2. /\ action'[current] \in {"asking", "acting", "failed"}
        /\ \A a \in Sequential : a # current => action'[a] = action[a]
        /\ turn' = "threw" => action'[current] = "failed"
        /\ turn' = "running" => action'[current] \in {"asking", "acting"}
        /\ turn' \in {"running", "threw"}
    BY <1>4, <2>1 DEF InSequence, Taking, Acting, Failed, Reaches, Fails, SequenceType
  <2>3. \A a \in Sequential : a < current \/ current < a => a # current
    OBVIOUS
  <2> QED BY <2>1, <2>2, <2>3 DEF SequenceInv
<1>5. ASSUME InSequence, UNCHANGED <<vars, tool>>, NEW result \in Answered, Ending(result)
      PROVE  SequenceInv'
  <2>1. /\ outcome = "ok" /\ outcome' = "ok" /\ turn' = "running"
        /\ current \in Sequential /\ current' = current + 1
    BY <1>5 DEF InSequence, vars, Ending, Ends
  <2>2. /\ action'[current] \in Answered
        /\ \A a \in Sequential : a # current => action'[a] = action[a]
    BY <1>5, <2>1 DEF Ending, Ends, SequenceType
  <2>3. ASSUME NEW a \in Sequential
        PROVE  /\ a < current + 1 => action'[a] \in Answered
               /\ current + 1 < a => action'[a] = "idle"
               /\ a = current + 1 => action'[a] = "idle"
    <3>1. a < current + 1 => a = current \/ a < current
      BY <2>1
    <3>2. current + 1 < a \/ a = current + 1 => current < a /\ a # current
      BY <2>1
    <3> QED BY <2>2, <3>1, <3>2 DEF SequenceInv
  <2> QED BY <2>1, <2>3 DEF SequenceInv
<1>6. CASE ActionsReturn
  <2>1. UNCHANGED <<outcome, action, current>>
    BY <1>6 DEF ActionsReturn, vars, sequence
  <2> QED BY <1>6, <2>1 DEF ActionsReturn, SequenceInv
<1> QED BY SequenceSteps, <1>3, <1>4, <1>5, <1>6

LEMMA ActionsInductive == ActionsSpec => []ActionsInv
<1>1. ActionsInit => SequenceType /\ SequenceInv
  BY InitActions
<1>2. IndInv /\ SequenceType /\ SequenceInv /\ [ActionsNext]_actionsVars
        => SequenceType' /\ SequenceInv'
  BY NextSequenceType, NextSequence DEF IndInv
<1> QED
  BY <1>1, <1>2, CallsAreConcurrent, Inductive, PTL DEF ActionsSpec, ActionsInv

(* Whatever number of calls, workers and timeouts: the sequence never runs  *)
(* past its end, and every variable keeps its type.                         *)
THEOREM ActionsTypeCorrect == ActionsSpec => []ActionsTypeOK
<1>1. ActionsInv => ActionsTypeOK
  BY DEF ActionsInv, IndInv, SequenceType, ActionsTypeOK
<1> QED BY <1>1, ActionsInductive, PTL

------------------------------------------------------------------------------
(* When the turn goes on every call has an answer; when it throws one has   *)
(* failed, and none is left at work.                                        *)
THEOREM TurnSettles == ActionsSpec => []TurnIsSettled
<1>1. ASSUME ActionsInv, NothingOutlivesTurn, EveryCallAnswered PROVE TurnIsSettled
  <2> USE <1>1, SequenceIsNumbers DEF ActionsInv
  <2>1. ASSUME turn = "ok"
        PROVE  /\ \A c \in Calls : call[c] \in Answered
               /\ \A a \in Sequential : action[a] \in Answered
    <3>1. outcome = "ok" /\ current \notin Sequential
      BY <2>1 DEF SequenceInv
    <3>2. \A a \in Sequential : a < current
      BY <3>1 DEF SequenceType, Sequential
    <3> QED BY <3>1, <3>2 DEF SequenceInv, EveryCallAnswered, Answered
  <2>2. ASSUME turn = "threw"
        PROVE  /\ \A c \in Calls : call[c] \in Settled
               /\ \A a \in Sequential : action[a] \notin {"asking", "acting"}
               /\ \/ \E c \in Calls : call[c] = "failed"
                  \/ \E a \in Sequential : action[a] = "failed"
    <3>1. outcome # "running"
      BY <2>2 DEF SequenceInv
    <3>2. \A c \in Calls : call[c] \in Settled
      BY <3>1 DEF NothingOutlivesTurn
    <3>3. CASE outcome = "threw"
      BY <3>2, <3>3 DEF SequenceInv, EveryCallAnswered
    <3>4. CASE /\ outcome = "ok" /\ current \in Sequential
               /\ action[current] = "failed"
      <4>1. ASSUME NEW a \in Sequential PROVE action[a] \notin {"asking", "acting"}
        <5>1. a < current \/ a = current \/ current < a
          BY <3>4
        <5> QED BY <3>4, <5>1 DEF SequenceInv, Answered
      <4> QED BY <3>2, <3>4, <4>1
    <3> QED BY <2>2, <3>3, <3>4 DEF SequenceInv
  <2> QED BY <2>1, <2>2 DEF TurnIsSettled
<1> QED
  BY <1>1, ActionsInductive, CallsAreConcurrent, NothingLeftRunning, AllCallsAnswered, PTL

(* Nothing starts to act after a failure or an abort, and shell and patch   *)
(* calls wait for every other call and for each other.                      *)
THEOREM ActionsStartInOrder == ActionsSpec => StartsInOrder
<1> DEFINE Late == \A c \in Calls :
                     call[c] # "acting" /\ call'[c] = "acting"
                       => first = NoError /\ ~Aborted("user")
           Waits == \A a \in Sequential : action[a] = "idle" /\ action'[a] # "idle"
                      => /\ \A c \in Calls : call[c] \in Answered
                         /\ \A b \in 1 .. a - 1 : action[b] \in Answered
           Ordered == /\ \A c \in Calls : call[c] # "acting" /\ call'[c] = "acting"
                                              => first = NoError /\ ~Aborted("user")
                      /\ \A a \in Sequential : action[a] = "idle" /\ action'[a] # "idle"
                           => /\ \A c \in Calls : call[c] \in Answered
                              /\ \A b \in 1 .. a - 1 : action[b] \in Answered
<1>1. ASSUME ActionsInv, EveryCallAnswered, [ActionsNext]_actionsVars PROVE Waits
  <2> USE <1>1, SequenceIsNumbers DEF ActionsInv
  <2> SUFFICES ASSUME NEW a \in Sequential, action[a] = "idle", action'[a] # "idle"
               PROVE  /\ \A c \in Calls : call[c] \in Answered
                      /\ \A b \in 1 .. a - 1 : action[b] \in Answered
    OBVIOUS
  <2>1. InSequence /\ a = current
    <3>1. ASSUME NEW status, action' = [action EXCEPT ![current] = status]
          PROVE  a = current
      BY <3>1 DEF SequenceType
    <3>2. action' # action
      OBVIOUS
    <3> QED
      BY SequenceSteps, <3>1, <3>2
      DEF sequence, Taking, Acting, Failed, Ending, Reaches, Ends, Fails, ActionsReturn
  <2>2. \A b \in 1 .. a - 1 : b \in Sequential /\ b < current
    BY <2>1 DEF Sequential
  <2> QED BY <2>1, <2>2 DEF InSequence, EveryCallAnswered, SequenceInv, Answered
<1>2. ActionsInv /\ EveryCallAnswered /\ [ActionsNext]_actionsVars => [Waits]_actionsVars
  BY <1>1
<1>3. [Late]_vars => Late
  BY DEF vars
<1>4. [Late]_vars /\ [Waits]_actionsVars => [Ordered]_actionsVars
  BY <1>3
<1>5. NoStartAfterFailure <=> [][Late]_vars
  BY DEF NoStartAfterFailure
<1>6. StartsInOrder <=> [][Ordered]_actionsVars
  BY DEF StartsInOrder
<1> HIDE DEF Late, Waits, Ordered
<1> QED
  BY <1>2, <1>4, <1>5, <1>6, ActionsInductive, CallsAreConcurrent, AllCallsAnswered,
     NoStartsAfterFailure, PTL DEF ActionsSpec

------------------------------------------------------------------------------
(* Answers.                                                                 *)

LEMMA CallAnswersStay ==
  ASSUME IndInv, [Next]_vars, NEW c \in Calls, call[c] \in Answered \cup {"failed"}
  PROVE  call'[c] = call[c]
<1> USE Constants, CallsAreNumbers, NotACall DEF IndInv
<1>1. ASSUME NEW d, NEW status, d # c, call' = [call EXCEPT ![d] = status]
      PROVE  call'[c] = call[c]
  BY <1>1 DEF TypeOK
<1>2. call[c] \notin Going /\ call[c] \notin {"idle", "failing"}
  BY DEF Answered, Going
<1>3. ASSUME NEW w \in Workers, TakeCall(w) PROVE call'[c] = call[c]
  <2>1. nextIndex \in Functions
    BY <1>3 DEF TakeCall, MayTake, TypeOK, Functions
  <2>2. call[nextIndex] = "idle"
    BY <2>1 DEF WorkerInv, Functions
  <2> QED BY <1>1, <1>2, <1>3, <2>2 DEF TakeCall
<1>4. ASSUME NEW w \in Workers, NEW phase \in {"acting", "finishing"}, Moving(w, phase)
      PROVE  call'[c] = call[c]
  BY <1>1, <1>2, <1>4 DEF Moving, Moves
<1>5. ASSUME NEW w \in Workers, NEW result \in Given, Answering(w, result)
      PROVE  call'[c] = call[c]
  BY <1>1, <1>2, <1>5 DEF Answering, Answers
<1>6. ASSUME NEW w \in Workers, NEW abortLike \in BOOLEAN, Throwing(w, abortLike)
      PROVE  call'[c] = call[c]
  BY <1>1, <1>2, <1>6 DEF Throwing, FunctionThrows
<1>7. ASSUME NEW phase \in {"asking", "acting"}, ComputerMoving(phase)
      PROVE  call'[c] = call[c]
  BY <1>1, <1>2, <1>7 DEF ComputerMoving, ComputerMoves, Going
<1>8. ASSUME NEW result \in Given, ComputerAnswering(result) PROVE call'[c] = call[c]
  BY <1>1, <1>2, <1>8 DEF ComputerAnswering, ComputerAnswers, Going
<1>9. ASSUME NEW abortLike \in BOOLEAN, ComputerFailing(abortLike) PROVE call'[c] = call[c]
  BY <1>1, <1>2, <1>9 DEF ComputerFailing, ComputerThrows, Going
<1>10. CASE Computing /\ ComputerFails
  BY <1>1, <1>2, <1>10 DEF ComputerFails, ComputerThrows
<1> QED
  BY Steps, <1>3, <1>4, <1>5, <1>6, <1>7, <1>8, <1>9, <1>10
  DEF WorkerEnds, FunctionsReturn, ComputersReturn, TurnReturns, UserAborts, vars

LEMMA ActionAnswersStay ==
  ASSUME ActionsInv, [ActionsNext]_actionsVars,
         NEW a \in Sequential, action[a] \in Answered \cup {"failed"}
  PROVE  action'[a] = action[a]
<1>1. ASSUME NEW status, action[current] \in {"idle", "asking", "acting"},
             action' = [action EXCEPT ![current] = status]
      PROVE  action'[a] = action[a]
  BY <1>1 DEF ActionsInv, SequenceType, Answered
<1> QED
  BY SequenceSteps, <1>1
  DEF sequence, Taking, Acting, Failed, Ending, Reaches, Ends, Fails, ActionsReturn

(* No late tool, cancellation or retry of a step overwrites an answer.      *)
THEOREM AnswersStay == ActionsSpec => AnswersAreFinal
<1> DEFINE Stay == /\ \A c \in Calls : call[c] \in Answered \cup {"failed"}
                                         => call'[c] = call[c]
                   /\ \A a \in Sequential : action[a] \in Answered \cup {"failed"}
                                         => action'[a] = action[a]
<1>1. ActionsInv /\ [ActionsNext]_actionsVars => [Stay]_actionsVars
  BY ConcurrentSteps, CallAnswersStay, ActionAnswersStay DEF ActionsInv
<1> QED BY <1>1, ActionsInductive, PTL DEF ActionsSpec, AnswersAreFinal
------------------------------------------------------------------------------
(* Refinement: what the calls look like from outside is ToolTurn.           *)

Phases == {"idle", "asking", "acting", "finishing", "failing", "output",
           "cancelled", "approval", "failed"}

Statuses == [c \in Calls |-> StatusOf(call[c])]

LEMMA StatusIs ==
  /\ StatusOf("idle") = "queued" /\ StatusOf("asking") = "queued"
  /\ StatusOf("acting") = "running" /\ StatusOf("finishing") = "running"
  /\ StatusOf("failing") = "failed" /\ StatusOf("failed") = "failed"
  /\ StatusOf("cancelled") = "aborted"
  /\ StatusOf("output") = "output" /\ StatusOf("approval") = "approval"
BY DEF StatusOf

(* A step that gives one call another phase gives it that phase's status.   *)
LEMMA OneStatus ==
  ASSUME TypeOK, NEW c \in Calls, NEW phase \in Phases,
         call' = [call EXCEPT ![c] = phase]
  PROVE  Statuses' = [Statuses EXCEPT ![c] = StatusOf(phase)]
BY DEF TypeOK, Statuses

(* A call that has failed is the first failure, or there was one before.    *)
LEMMA FailureIsFirst ==
  ASSUME IndInv, Execution!HasFailed
  PROVE  first # NoError
<1> USE Constants, CallsAreNumbers DEF IndInv, ScopeInv
<1>1. PICK c \in Calls : call[c] \in {"failing", "failed"}
  <2>1. \A c \in Calls : call[c] \in Phases
    BY DEF TypeOK, Phases
  <2> QED BY <2>1, StatusIs DEF Execution!HasFailed, Phases
<1>2. CASE c \in Functions
  <2>1. call[c] = "failed"
    BY <1>1, <1>2 DEF WorkerInv
  <2> QED BY <1>2, <2>1 DEF FailureInv
<1>3. CASE c \in Computers
  <2>1. c = computer
    <3>1. ~(c < computer) /\ ~(computer < c)
      BY <1>1, <1>3 DEF ComputerInv, Given
    <3> QED BY <1>3, <3>1 DEF TypeOK
  <2>2. group["computers"] # "ok"
    BY <1>3, <2>1 DEF ComputerInv
  <2>3. CASE group["computers"] = "running"
    <3>1. call[computer] = "failing"
      BY <1>1, <1>3, <2>1, <2>3 DEF ComputerInv, Computing
    <3> QED BY <1>3, <2>1, <2>3, <3>1 DEF OwnerInv, Failing, Computing
  <2>4. CASE group["computers"] = "threw"
    BY <2>4 DEF OwnerInv, Failing
  <2> QED BY <2>2, <2>3, <2>4 DEF TypeOK
<1> QED BY <1>2, <1>3

(* A signal that was aborted was aborted by the user or by a failure.       *)
LEMMA AbortHasCause ==
  ASSUME IndInv, Aborted("tools") \/ Aborted("turn")
  PROVE  Execution!Cancelled
<1> USE Constants, CallsAreNumbers DEF IndInv, ScopeInv
<1>1. SUFFICES ASSUME ~Aborted("user") PROVE Execution!HasFailed
  BY DEF Execution!Cancelled
<1>2. failure["tools"] # NoError \/ Failing
  <2>1. CASE Aborted("turn")
    <3>1. owner # "none"
      BY <1>1, <2>1 DEF ReasonInv, Aborted, TypeOK
    <3> QED BY <3>1 DEF OwnerInv, TypeOK
  <2>2. CASE ~Aborted("turn")
    BY <2>2 DEF ReasonInv
  <2> QED BY <2>1, <2>2
<1>3. \E c \in Calls : call[c] \in {"failing", "failed"}
  <2>1. CASE failure["tools"] # NoError
    BY <2>1 DEF FailureInv
  <2>2. CASE Failing
    BY <2>2 DEF Failing, Computing, ComputerInv
  <2> QED BY <1>2, <2>1, <2>2
<1> QED BY <1>3, StatusIs DEF Execution!HasFailed

(* A call that still runs and hears no sibling's failure: there was none,   *)
(* or the user had aborted before.                                          *)
LEMMA NoSiblingFailed ==
  ASSUME IndInv,
         \/ /\ \E w \in Workers : worker[w] \in Functions
            /\ reason["tools"] # "sibling"
         \/ /\ Computing /\ ~Failing
            /\ reason["turn"] # "sibling"
  PROVE  Aborted("user") \/ ~Execution!HasFailed
<1> USE Constants, CallsAreNumbers, NotACall DEF IndInv, ScopeInv
<1> SUFFICES ASSUME ~Aborted("user") PROVE first = NoError
  BY FailureIsFirst
<1>1. CASE \E w \in Workers : worker[w] \in Functions /\ reason["tools"] # "sibling"
  <2>1. ~Aborted("tools")
    BY <1>1 DEF ReasonInv, Aborted, TypeOK
  <2>2. CASE NumComputers = 0
    BY <1>1, <2>1, <2>2 DEF ReasonInv, FailureInv
  <2>3. CASE NumComputers # 0
    BY <1>1, <2>1, <2>3 DEF ReasonInv, OwnerInv, HasTurnScope
  <2> QED BY <2>2, <2>3
<1>2. CASE Computing /\ ~Failing /\ reason["turn"] # "sibling"
  <2>1. ~Aborted("turn")
    BY <1>2 DEF ReasonInv, Aborted, TypeOK
  <2> QED BY <1>2, <2>1 DEF ReasonInv, OwnerInv, HasTurnScope, Computing
<1> QED BY <1>1, <1>2

------------------------------------------------------------------------------
LEMMA ExecutionStarts == Init => Execution!Init
<1> SUFFICES ASSUME Init PROVE Execution!Init
  OBVIOUS
<1>1. \A c \in Calls : call[c] \in {"idle", "asking"}
  BY DEF Init
<1>2. \A c \in Calls : StatusOf(call[c]) = "queued"
  BY <1>1, StatusIs
<1>3. Statuses = Execution!Queue(Calls)
  BY <1>2 DEF Statuses, Execution!Queue
<1>4. Aborted("user") = FALSE /\ outcome = "running"
  BY DEF Init, Aborted
<1> QED BY <1>3, <1>4 DEF Execution!Init, Statuses

(* A call that moves to another phase, as it is seen from outside.          *)
Shown(c, phase) ==
  /\ Statuses[c] = StatusOf(call[c])
  /\ Execution!Becomes(c, StatusOf(phase))
  /\ StatusOf(phase) = StatusOf(call[c]) => UNCHANGED Statuses

LEMMA MoveIsShown ==
  ASSUME TypeOK, NEW c \in Calls, NEW phase \in Phases,
         call' = [call EXCEPT ![c] = phase]
  PROVE  Shown(c, phase)
<1>1. Statuses[c] = StatusOf(call[c])
  BY DEF Statuses
<1>2. Statuses' = [Statuses EXCEPT ![c] = StatusOf(phase)]
  BY OneStatus
<1>3. [Statuses EXCEPT ![c] = Statuses[c]] = Statuses
  BY DEF Statuses
<1> QED BY <1>1, <1>2, <1>3 DEF Shown, Execution!Becomes, Statuses

(* What a call may be shown as, given what it was.                          *)
LEMMA StepsShown ==
  ASSUME NEW c \in Calls, NEW phase, Shown(c, phase)
  PROVE  /\ phase = "acting" /\ call[c] = "asking" /\ ~Execution!Cancelled
              => Execution!CallStep(c)
         /\ phase \in {"output", "approval"} /\ call[c] = "asking"
              /\ (Execution!HasFailed => Aborted("user")) => Execution!CallStep(c)
         /\ phase = "output" /\ call[c] \in {"acting", "finishing"}
              => Execution!CallStep(c)
         /\ phase = "cancelled" /\ call[c] \in {"idle"} \cup Going
              /\ Execution!Cancelled => Execution!CallStep(c)
         /\ phase \in {"failing", "failed"} /\ call[c] \in Going
              => Execution!CallStep(c)
BY StatusIs
DEF Shown, Statuses, Going, Execution!CallStep, Execution!Start, Execution!Refuse,
    Execution!AskApproval, Execution!AnswerUnstarted, Execution!Return, Execution!Fail,
    Execution!Cancel

(* The steps of one function call.                                          *)
LEMMA FunctionCallStep ==
  ASSUME IndInv, NEW w \in Workers, worker[w] \in Functions,
         Asked(w) \/ Acted(w) \/ Finished(w)
  PROVE  Execution!CallStep(worker[w]) \/ UNCHANGED Statuses
<1> DEFINE c == worker[w]
<1> c \in Calls
  BY CallsAreNumbers
<1>1. ASSUME NEW phase \in Phases, call' = [call EXCEPT ![c] = phase]
      PROVE  Shown(c, phase)
  BY <1>1, MoveIsShown DEF IndInv
<1>2. Aborted("tools") => Execution!Cancelled
  BY AbortHasCause
<1>3. reason["tools"] # "sibling" => (Execution!HasFailed => Aborted("user"))
  BY NoSiblingFailed
<1>4. ~Aborted("tools") => ~Execution!Cancelled
  BY <1>3 DEF IndInv, ScopeInv, ReasonInv, Execution!Cancelled, Aborted
<1>5. ASSUME call[c] \in Going, Throws(w) PROVE Execution!CallStep(c)
  <2>1. Shown(c, "failed")
    BY <1>1, <1>5 DEF Throws, FunctionThrows, Phases
  <2> QED BY <1>5, <2>1, StepsShown
<1>6. ASSUME call[c] \in Going, Aborted("tools"), Answers(w, "cancelled")
      PROVE  Execution!CallStep(c)
  <2>1. Shown(c, "cancelled")
    BY <1>1, <1>6 DEF Answers, Phases
  <2> QED BY <1>2, <1>6, <2>1, StepsShown
<1>7. CASE Asked(w)
  <2>1. call[c] = "asking" /\ call[c] \in Going
    BY <1>7 DEF Asked, Going
  <2>2. CASE ~Aborted("tools") /\ Moves(w, "acting")
    <3>1. Shown(c, "acting")
      BY <1>1, <2>2 DEF Moves, Phases
    <3> QED BY <1>4, <2>1, <2>2, <3>1, StepsShown
  <2>3. ASSUME NEW result \in {"output", "approval"}, Answers(w, result),
               reason["tools"] # "sibling"
        PROVE  Execution!CallStep(c)
    <3>1. Shown(c, result)
      BY <1>1, <2>3 DEF Answers, Phases
    <3> QED BY <1>3, <2>1, <2>3, <3>1, StepsShown
  <2> QED BY <1>5, <1>6, <1>7, <2>1, <2>2, <2>3 DEF Asked
<1>8. CASE Acted(w)
  <2>1. call[c] = "acting" /\ call[c] \in Going
    BY <1>8 DEF Acted, Going
  <2>2. CASE Moves(w, "finishing")
    <3>1. Shown(c, "finishing")
      BY <1>1, <2>2 DEF Moves, Phases
    <3> QED BY <2>1, <3>1, StatusIs DEF Shown
  <2> QED BY <1>5, <1>6, <1>8, <2>1, <2>2 DEF Acted
<1>9. CASE Finished(w)
  <2>1. call[c] = "finishing" /\ call[c] \in Going
    BY <1>9 DEF Finished, Going
  <2>2. CASE Answers(w, "output")
    <3>1. Shown(c, "output")
      BY <1>1, <2>2 DEF Answers, Phases
    <3> QED BY <2>1, <3>1, StepsShown
  <2> QED BY <1>5, <1>6, <1>9, <2>1, <2>2 DEF Finished
<1> QED BY <1>7, <1>8, <1>9

(* A worker takes a call, to ask for its approval or to cancel it.          *)
LEMMA TakeCallStep ==
  ASSUME IndInv, NEW w \in Workers, TakeCall(w)
  PROVE  Execution!CallStep(nextIndex) \/ UNCHANGED Statuses
<1>1. nextIndex \in Functions /\ nextIndex \in Calls
  BY Constants, CallsAreNumbers DEF IndInv, TakeCall, MayTake, TypeOK, Functions
<1>2. call[nextIndex] = "idle"
  BY <1>1 DEF IndInv, WorkerInv, Functions
<1>3. CASE Aborted("tools")
  <2>1. Shown(nextIndex, "cancelled")
    BY <1>1, <1>3, MoveIsShown DEF IndInv, TakeCall, Phases
  <2> QED BY <1>1, <1>2, <1>3, <2>1, AbortHasCause, StepsShown
<1>4. CASE ~Aborted("tools")
  <2>1. Shown(nextIndex, "asking")
    BY <1>1, <1>4, MoveIsShown DEF IndInv, TakeCall, Phases
  <2> QED BY <1>2, <2>1, StatusIs DEF Shown
<1> QED BY <1>3, <1>4

(* The steps of the computer call that the loop is at.                      *)
LEMMA ComputerCallStep ==
  ASSUME IndInv, ComputerStep
  PROVE  Execution!CallStep(computer) \/ UNCHANGED Statuses
<1>1. Computing /\ computer \in Calls
  BY CallsAreNumbers DEF ComputerStep, Computing
<1>2. ASSUME NEW phase \in Phases, call' = [call EXCEPT ![computer] = phase]
      PROVE  Shown(computer, phase)
  BY <1>1, <1>2, MoveIsShown DEF IndInv
<1>3. Aborted("turn") => Execution!Cancelled
  BY AbortHasCause
<1>4. call[computer] # "failing" /\ reason["turn"] # "sibling"
        => (Execution!HasFailed => Aborted("user"))
  BY <1>1, NoSiblingFailed DEF Failing, Computing
<1>5. call[computer] # "failing" /\ ~Aborted("turn") => ~Execution!Cancelled
  BY <1>4 DEF IndInv, ScopeInv, ReasonInv, Execution!Cancelled, Aborted
<1>6. ASSUME call[computer] \in {"idle", "asking", "acting"}, Aborted("turn"),
             ComputerAnswers("cancelled")
      PROVE  Execution!CallStep(computer)
  <2>1. Shown(computer, "cancelled")
    BY <1>2, <1>6 DEF ComputerAnswers, Phases
  <2> QED BY <1>1, <1>3, <1>6, <2>1, StepsShown DEF Going
<1>7. ASSUME NEW phase \in {"failing", "failed"}, call[computer] \in {"asking", "acting"},
             call' = [call EXCEPT ![computer] = phase]
      PROVE  Execution!CallStep(computer)
  <2>1. Shown(computer, phase)
    BY <1>2, <1>7 DEF Phases
  <2> QED BY <1>1, <1>7, <2>1, StepsShown DEF Going
<1>8. CASE TakeComputer
  <2>1. CASE ComputerMoves("asking")
    <3>1. Shown(computer, "asking")
      BY <1>2, <2>1 DEF ComputerMoves, Phases
    <3> QED BY <1>8, <3>1, StatusIs DEF TakeComputer, Shown
  <2> QED BY <1>6, <1>8, <2>1 DEF TakeComputer
<1>9. CASE ComputerAsked
  <2>1. call[computer] = "asking"
    BY <1>9 DEF ComputerAsked
  <2>2. CASE ~Aborted("turn") /\ ComputerMoves("acting")
    <3>1. Shown(computer, "acting")
      BY <1>2, <2>2 DEF ComputerMoves, Phases
    <3> QED BY <1>1, <1>5, <2>1, <2>2, <3>1, StepsShown
  <2>3. ASSUME NEW result \in {"approval", "output"}, ComputerAnswers(result),
               reason["turn"] # "sibling"
        PROVE  Execution!CallStep(computer)
    <3>1. Shown(computer, result)
      BY <1>2, <2>3 DEF ComputerAnswers, Phases
    <3> QED BY <1>1, <1>4, <2>1, <2>3, <3>1, StepsShown
  <2> QED BY <1>6, <1>7, <1>9, <2>1, <2>2, <2>3 DEF ComputerAsked
<1>10. CASE ComputerActed
  <2>1. call[computer] = "acting"
    BY <1>10 DEF ComputerActed
  <2>2. CASE ComputerAnswers("output")
    <3>1. Shown(computer, "output")
      BY <1>2, <2>2 DEF ComputerAnswers, Phases
    <3> QED BY <1>1, <2>1, <3>1, StepsShown
  <2> QED BY <1>6, <1>7, <1>10, <2>1, <2>2 DEF ComputerActed, ComputerThrows
<1>11. CASE ComputerFails
  <2>1. Shown(computer, "failed")
    BY <1>2, <1>11 DEF ComputerFails, ComputerThrows, Phases
  <2> QED BY <1>11, <2>1, StatusIs DEF ComputerFails, Shown
<1> QED BY <1>8, <1>9, <1>10, <1>11 DEF ComputerStep

(* The turn ends when the calls are answered, or when one has failed and no *)
(* other is at work.                                                        *)
LEMMA TurnReturnsStep ==
  ASSUME TypeOK, NothingOutlivesTurn', EveryCallAnswered', TurnReturns
  PROVE  Execution!End
<1>1. UNCHANGED Statuses /\ UNCHANGED Aborted("user") /\ call' = call
  BY DEF TurnReturns, Statuses, Aborted, scopes
<1>2. NothingOutlivesTurn' /\ EveryCallAnswered'
  OBVIOUS
<1>3. \A c \in Calls : call[c] \in Phases
  BY DEF TypeOK, Phases
<1>4. CASE outcome' = "ok"
  <2>1. Execution!MayContinue
    BY <1>1, <1>2, <1>4, StatusIs DEF EveryCallAnswered, Execution!MayContinue
  <2> QED BY <1>1, <1>4, <2>1 DEF Execution!End, Statuses
<1>5. CASE outcome' = "threw"
  <2>1. Execution!MayThrow
    BY <1>1, <1>2, <1>5, StatusIs
    DEF EveryCallAnswered, NothingOutlivesTurn, Settled, Execution!MayThrow,
        Execution!HasFailed
  <2> QED BY <1>1, <1>5, <2>1 DEF Execution!End, Statuses
<1> QED BY <1>4, <1>5 DEF TurnReturns

(* A step of the calls leaves the user's signal and the turn alone, and is  *)
(* taken while the turn runs.                                               *)
LEMMA CallsStepInTurn ==
  ASSUME IndInv, FunctionStep \/ FunctionsReturn \/ ComputerStep \/ ComputersReturn
  PROVE  outcome = "running" /\ UNCHANGED outcome /\ UNCHANGED Aborted("user")
<1> USE Constants, NotACall DEF IndInv
<1>1. group["functions"] = "running" \/ group["computers"] = "running"
  <2>1. CASE FunctionStep
    <3>1. PICK w \in Workers : worker[w] = Free \/ worker[w] \in Functions
      BY <2>1 DEF FunctionStep, TakeCall, WorkerEnds
    <3>2. worker[w] # Ended
      BY <3>1 DEF Free, Ended
    <3> QED BY <3>2 DEF GroupInv
  <2> QED BY <2>1 DEF FunctionsReturn, ComputerStep, ComputersReturn
<1>2. outcome = "running"
  BY <1>1 DEF GroupInv
<1>3. ASSUME NEW signals, reason' = Abort(signals, "sibling"), "user" \notin signals
      PROVE  UNCHANGED Aborted("user")
  BY <1>3, AbortType DEF Aborted
<1>4. ASSUME UNCHANGED reason PROVE UNCHANGED Aborted("user")
  BY <1>4 DEF Aborted
<1>5. ASSUME NEW w \in Workers, NEW abortLike \in BOOLEAN, FunctionThrows(w, abortLike)
      PROVE  UNCHANGED outcome /\ UNCHANGED Aborted("user")
  BY <1>3, <1>5 DEF FunctionThrows
<1>6. ASSUME NEW w \in Workers, \/ TakeCall(w) \/ WorkerEnds(w)
                                \/ Asked(w) \/ Acted(w) \/ Finished(w)
      PROVE  UNCHANGED outcome /\ UNCHANGED Aborted("user")
  BY <1>4, <1>5, <1>6
  DEF TakeCall, WorkerEnds, Asked, Acted, Finished, Throws, Moves, Answers, scopes
<1>7. ASSUME NEW abortLike \in BOOLEAN, Reserve(abortLike)
      PROVE  UNCHANGED Aborted("user")
  BY <1>3, <1>4, <1>7 DEF Reserve
<1>8. ASSUME ComputerStep PROVE UNCHANGED outcome /\ UNCHANGED Aborted("user")
  BY <1>4, <1>7, <1>8
  DEF ComputerStep, TakeComputer, ComputerAsked, ComputerActed, ComputerFails,
      ComputerMoves, ComputerAnswers, ComputerThrows, scopes
<1>9. ASSUME FunctionsReturn PROVE UNCHANGED outcome /\ UNCHANGED Aborted("user")
  BY <1>3, <1>4, <1>9 DEF FunctionsReturn
<1>10. ASSUME ComputersReturn PROVE UNCHANGED outcome /\ UNCHANGED Aborted("user")
  BY <1>4, <1>10 DEF ComputersReturn, scopes
<1> QED BY <1>2, <1>6, <1>8, <1>9, <1>10 DEF FunctionStep

LEMMA ExecutionSteps ==
  ASSUME IndInv, NothingOutlivesTurn', EveryCallAnswered', [Next]_vars
  PROVE  [Execution!Next]_(Execution!vars)
<1>1. ASSUME NEW c \in Calls, Execution!CallStep(c) \/ UNCHANGED Statuses,
             outcome = "running", UNCHANGED outcome, UNCHANGED Aborted("user")
      PROVE  [Execution!Next]_(Execution!vars)
  BY <1>1 DEF Execution!Next, Execution!Execute, Execution!vars, Statuses
<1>2. CASE FunctionStep
  <2>1. outcome = "running" /\ UNCHANGED outcome /\ UNCHANGED Aborted("user")
    BY <1>2, CallsStepInTurn
  <2>2. PICK w \in Workers :
          \/ TakeCall(w) \/ WorkerEnds(w)
          \/ worker[w] \in Functions /\ (Asked(w) \/ Acted(w) \/ Finished(w))
    BY <1>2 DEF FunctionStep
  <2>3. w \in Calls
    BY CallsAreNumbers
  <2>4. CASE TakeCall(w)
    <3>1. nextIndex \in Calls
      BY <2>4, Constants, CallsAreNumbers
      DEF IndInv, TakeCall, MayTake, TypeOK, Functions
    <3> QED BY <1>1, <2>1, <2>4, <3>1, TakeCallStep
  <2>5. CASE WorkerEnds(w)
    <3>1. UNCHANGED Statuses
      BY <2>5 DEF WorkerEnds, Statuses
    <3> QED BY <1>1, <2>1, <2>3, <3>1
  <2>6. CASE worker[w] \in Functions /\ (Asked(w) \/ Acted(w) \/ Finished(w))
    <3>1. worker[w] \in Calls
      BY <2>6, CallsAreNumbers
    <3> QED BY <1>1, <2>1, <2>6, <3>1, FunctionCallStep
  <2> QED BY <2>2, <2>4, <2>5, <2>6
<1>3. CASE ComputerStep
  BY <1>1, <1>3, CallsStepInTurn, ComputerCallStep DEF ComputerStep, Calls
<1>4. CASE FunctionsReturn \/ ComputersReturn
  <2>1. UNCHANGED Statuses
    BY <1>4 DEF FunctionsReturn, ComputersReturn, Statuses
  <2> QED BY <1>4, <2>1, CallsStepInTurn DEF Execution!vars, Statuses
<1>5. CASE TurnReturns
  <2>1. Execution!End /\ outcome = "running"
    BY <1>5, TurnReturnsStep DEF IndInv, TurnReturns
  <2> QED BY <2>1 DEF Execution!Next, Execution!Execute
<1>6. CASE UserAborts
  <2>1. UNCHANGED Statuses /\ Aborted("user")'
    BY <1>6, AbortType DEF UserAborts, Statuses, Aborted, IndInv
  <2> QED BY <1>6, <2>1 DEF UserAborts, Execution!Next, Execution!Abort, Statuses
<1>7. CASE UNCHANGED vars
  BY <1>7 DEF vars, scopes, Execution!vars, Statuses, Aborted
<1> QED BY <1>2, <1>3, <1>4, <1>5, <1>6, <1>7 DEF Next, Progress

(* Refinement: for all numbers of calls and workers and whatever times out, *)
(* the actions of a turn execute the calls as the run loop expects it.      *)
THEOREM CallsAreExecuted == ActionsSpec => ExecutesCalls
<1>1. Init => Execution!Init
  BY ExecutionStarts
<1>2. IndInv /\ NothingOutlivesTurn' /\ EveryCallAnswered' /\ [Next]_vars
        => [Execution!Next]_(Execution!vars)
  BY ExecutionSteps
<1>3. Spec => Execution!Spec
  BY <1>1, <1>2, Inductive, NothingLeftRunning, AllCallsAnswered, PTL
  DEF Spec, Execution!Spec
<1> QED BY <1>3, CallsAreConcurrent, PTL DEF ExecutesCalls
=============================================================================
