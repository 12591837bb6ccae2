----------------------- MODULE SessionPersistence_proofs -----------------------
(***************************************************************************)
(* Proofs about SessionPersistence: what the RunState counts as persisted  *)
(* is in the session, the results of approved tools are recorded before    *)
(* the run goes on, unless they came with an interruption that is not to   *)
(* be saved, and nothing is stored twice that the run counted right and    *)
(* whose save was not rejected.                                            *)
(***************************************************************************)
EXTENDS SessionPersistence, FiniteSetTheorems, WellFoundedInduction, TLAPS

------------------------------------------------------------------------------
(* Only is recursive; its properties are proved by induction, as the least  *)
(* element of a set of numbers.                                             *)

(* A set of numbers with 0 and all successors is Nat.                       *)
LEMMA AllNumbers ==
  ASSUME NEW S \in SUBSET Nat, 0 \in S, \A n \in S : n + 1 \in S
  PROVE  S = Nat
<1> DEFINE Less == OpToRel(<, Nat)
           Rest == Nat \ S
<1>1. \A m, n \in Nat : m < n => <<m, n>> \in Less
  BY DEF OpToRel
<1>2. IsWellFoundedOn(Less, Nat)
  BY NatLessThanWellFounded
<1> SUFFICES ASSUME Rest # {} PROVE FALSE
  OBVIOUS
<1>3. Rest \subseteq Nat
  OBVIOUS
<1> HIDE DEF Less, Rest
<1>4. \E x \in Rest : \A y \in Rest : ~ (<<y, x>> \in Less)
  BY <1>2, <1>3, WFMin
<1>5. PICK x \in Rest : \A y \in Rest : ~ (<<y, x>> \in Less)
  BY <1>4
<1>6. x \in Nat /\ x \notin S
  BY DEF Rest
<1>7. x - 1 \in Nat /\ x - 1 < x /\ (x - 1) + 1 = x
  BY <1>6
<1>8. x - 1 \in S
  BY <1>1, <1>5, <1>6, <1>7 DEF Rest
<1> QED BY <1>6, <1>7, <1>8

(* What the recursion of Only computes for the first n elements.            *)
IsFilter(f, list, set, n) ==
  f = [i \in 0 .. n |->
        IF i = 0 THEN << >>
        ELSE IF list[i] \in set THEN Append(f[i - 1], list[i])
        ELSE f[i - 1]]

LEMMA FilterExists ==
  ASSUME NEW list, NEW set, NEW n \in Nat
  PROVE  \E f : IsFilter(f, list, set, n)
<1> DEFINE S == {m \in Nat : \E f : IsFilter(f, list, set, m)}
<1>1. 0 \in S
  <2>1. IsFilter([i \in 0 .. 0 |-> << >>], list, set, 0)
    BY DEF IsFilter
  <2> QED BY <2>1
<1>2. ASSUME NEW m \in S PROVE m + 1 \in S
  <2>1. PICK f : IsFilter(f, list, set, m)
    OBVIOUS
  <2> DEFINE last == IF list[m + 1] \in set THEN Append(f[m], list[m + 1]) ELSE f[m]
             g == [i \in 0 .. m + 1 |-> IF i = m + 1 THEN last ELSE f[i]]
  <2>2. m \in Nat /\ DOMAIN f = 0 .. m
    BY <2>1 DEF IsFilter
  <2>3. \A i \in 0 .. m :
          f[i] = IF i = 0 THEN << >>
                 ELSE IF list[i] \in set THEN Append(f[i - 1], list[i])
                 ELSE f[i - 1]
    BY <2>1, <2>2 DEF IsFilter
  <2>4. g[m + 1] = last /\ \A i \in 0 .. m : g[i] = f[i]
    BY <2>2
  <2>5. ASSUME NEW i \in 0 .. m + 1
        PROVE g[i] = IF i = 0 THEN << >>
                     ELSE IF list[i] \in set THEN Append(g[i - 1], list[i])
                     ELSE g[i - 1]
    <3>1. CASE i = m + 1
      <4>1. i # 0 /\ i - 1 = m /\ m \in 0 .. m
        BY <3>1, <2>2
      <4> QED BY <3>1, <4>1, <2>4
    <3>2. CASE i # m + 1
      <4>1. i \in 0 .. m /\ (i # 0 => i - 1 \in 0 .. m)
        BY <3>2, <2>2
      <4> HIDE DEF g, last
      <4> QED BY <4>1, <2>3, <2>4
    <3> QED BY <3>1, <3>2
  <2>6. IsFilter(g, list, set, m + 1)
    BY <2>5 DEF IsFilter
  <2> QED BY <2>6
<1> HIDE DEF S
<1>3. S = Nat
  BY <1>1, <1>2, AllNumbers DEF S
<1> QED BY <1>3 DEF S

(* Only, step by step.                                                      *)
LEMMA OnlyByStep ==
  ASSUME NEW T, NEW list \in Seq(T), NEW set
  PROVE  \E f : /\ Only(list, set) = f[Len(list)]
                /\ f[0] = << >>
                /\ \A i \in 1 .. Len(list) :
                     f[i] = IF list[i] \in set THEN Append(f[i - 1], list[i])
                            ELSE f[i - 1]
<1> DEFINE k == CHOOSE f : IsFilter(f, list, set, Len(list))
<1>1. Len(list) \in Nat
  OBVIOUS
<1>2. IsFilter(k, list, set, Len(list))
  BY <1>1, FilterExists
<1>3. Only(list, set) = k[Len(list)]
  BY <1>2 DEF Only, IsFilter
<1> HIDE DEF k
<1>4. k[0] = << >>
  BY <1>1, <1>2 DEF IsFilter
<1>5. ASSUME NEW i \in 1 .. Len(list)
      PROVE  k[i] = IF list[i] \in set THEN Append(k[i - 1], list[i]) ELSE k[i - 1]
  <2>1. i \in 0 .. Len(list) /\ i # 0
    BY <1>1
  <2> QED BY <2>1, <1>2 DEF IsFilter
<1> QED BY <1>3, <1>4, <1>5

(* One more element of a list without repetitions.                          *)
LEMMA AppendDistinct ==
  ASSUME NEW T, NEW list \in Seq(T), NEW e \in T
  PROVE  /\ Append(list, e) \in Seq(T)
         /\ ToSet(Append(list, e)) = ToSet(list) \cup {e}
         /\ IsInjective(list) /\ e \notin ToSet(list) => IsInjective(Append(list, e))
<1>1. Len(Append(list, e)) = Len(list) + 1 /\ Append(list, e)[Len(list) + 1] = e
  OBVIOUS
<1>2. \A i \in 1 .. Len(list) : Append(list, e)[i] = list[i]
  OBVIOUS
<1>3. DOMAIN Append(list, e) = 1 .. Len(list) + 1 /\ DOMAIN list = 1 .. Len(list)
  OBVIOUS
<1>4. ToSet(Append(list, e)) = ToSet(list) \cup {e}
  BY <1>1, <1>2, <1>3 DEF ToSet
<1>5. ASSUME IsInjective(list), e \notin ToSet(list)
      PROVE  IsInjective(Append(list, e))
  BY <1>1, <1>2, <1>3, <1>5 DEF IsInjective, ToSet
<1> QED BY <1>4, <1>5

(* Only keeps the elements that are in the set, each as often as it was.    *)
LEMMA OnlyIsFilter ==
  ASSUME NEW T, NEW list \in Seq(T), NEW set
  PROVE  /\ Only(list, set) \in Seq(T)
         /\ ToSet(Only(list, set)) = ToSet(list) \cap set
         /\ IsInjective(list) => IsInjective(Only(list, set))
<1>1. PICK f : /\ Only(list, set) = f[Len(list)]
               /\ f[0] = << >>
               /\ \A i \in 1 .. Len(list) :
                    f[i] = IF list[i] \in set THEN Append(f[i - 1], list[i])
                           ELSE f[i - 1]
  BY OnlyByStep
<1> DEFINE First(n) == {list[i] : i \in 1 .. n}
           Good(n) == /\ f[n] \in Seq(T)
                      /\ ToSet(f[n]) = First(n) \cap set
                      /\ IsInjective(list) => IsInjective(f[n])
           S == {n \in Nat : n <= Len(list) => Good(n)}
<1>2. Len(list) \in Nat /\ DOMAIN list = 1 .. Len(list)
  OBVIOUS
<1>3. 0 \in S
  <2>1. f[0] \in Seq(T) /\ DOMAIN f[0] = {} /\ First(0) = {}
    BY <1>1
  <2> QED BY <2>1 DEF ToSet, IsInjective
<1>4. ASSUME NEW n \in S PROVE n + 1 \in S
  <2> SUFFICES ASSUME n + 1 <= Len(list) PROVE Good(n + 1)
    OBVIOUS
  <2>1. n \in Nat /\ n + 1 \in 1 .. Len(list) /\ Good(n)
    BY <1>2
  <2> DEFINE e == list[n + 1]
  <2>2. f[n + 1] = IF e \in set THEN Append(f[n], e) ELSE f[n]
    BY <2>1, <1>1
  <2>3. e \in T /\ First(n + 1) = First(n) \cup {e}
    BY <2>1, <1>2
  <2>4. IsInjective(list) => e \notin First(n)
    BY <2>1, <1>2 DEF IsInjective
  <2>5. CASE e \in set
    <3>1. /\ Append(f[n], e) \in Seq(T)
          /\ ToSet(Append(f[n], e)) = ToSet(f[n]) \cup {e}
          /\ IsInjective(f[n]) /\ e \notin ToSet(f[n]) => IsInjective(Append(f[n], e))
      BY <2>1, <2>3, AppendDistinct
    <3> HIDE DEF e, First
    <3> QED BY <3>1, <2>1, <2>2, <2>3, <2>4, <2>5
  <2>6. CASE e \notin set
    <3> HIDE DEF e, First
    <3> QED BY <2>1, <2>2, <2>3, <2>4, <2>6
  <2> QED BY <2>5, <2>6
<1> HIDE DEF S, Good
<1>5. S = Nat
  BY <1>3, <1>4, AllNumbers DEF S
<1>6. Good(Len(list))
  BY <1>2, <1>5 DEF S
<1>7. First(Len(list)) = ToSet(list)
  BY <1>2 DEF ToSet
<1> QED BY <1>1, <1>6, <1>7 DEF Good

LEMMA ConcatIsUnion ==
  ASSUME NEW T, NEW a \in Seq(T), NEW b \in Seq(T)
  PROVE  /\ a \o b \in Seq(T)
         /\ ToSet(a \o b) = ToSet(a) \cup ToSet(b)
         /\ IsInjective(a) /\ IsInjective(b) /\ ToSet(a) \cap ToSet(b) = {}
              => IsInjective(a \o b)
<1>1. /\ Len(a) \in Nat /\ DOMAIN a = 1 .. Len(a)
      /\ Len(b) \in Nat /\ DOMAIN b = 1 .. Len(b)
      /\ DOMAIN (a \o b) = 1 .. Len(a) + Len(b)
  OBVIOUS
<1>2. \A i \in 1 .. Len(a) : (a \o b)[i] = a[i]
  OBVIOUS
<1>3. \A i \in 1 .. Len(a) + Len(b) : i > Len(a) =>
        (a \o b)[i] = b[i - Len(a)] /\ i - Len(a) \in 1 .. Len(b)
  BY <1>1
<1>4. \A i \in 1 .. Len(b) :
        (a \o b)[Len(a) + i] = b[i] /\ Len(a) + i \in 1 .. Len(a) + Len(b)
  BY <1>1
<1>5. ToSet(a \o b) = ToSet(a) \cup ToSet(b)
  <2>1. ToSet(a \o b) \subseteq ToSet(a) \cup ToSet(b)
    BY <1>1, <1>2, <1>3 DEF ToSet
  <2>2. ToSet(a) \subseteq ToSet(a \o b)
    BY <1>1, <1>2 DEF ToSet
  <2>3. ToSet(b) \subseteq ToSet(a \o b)
    BY <1>1, <1>4 DEF ToSet
  <2> QED BY <2>1, <2>2, <2>3
<1>6. ASSUME IsInjective(a), IsInjective(b), ToSet(a) \cap ToSet(b) = {}
      PROVE  IsInjective(a \o b)
  <2> SUFFICES ASSUME NEW i \in 1 .. Len(a) + Len(b), NEW j \in 1 .. Len(a) + Len(b),
                      (a \o b)[i] = (a \o b)[j]
               PROVE  i = j
    BY <1>1 DEF IsInjective
  <2>1. CASE i <= Len(a) /\ j <= Len(a)
    BY <2>1, <1>1, <1>2, <1>6 DEF IsInjective
  <2>2. CASE i > Len(a) /\ j > Len(a)
    BY <2>2, <1>1, <1>3, <1>6 DEF IsInjective
  <2>3. CASE i <= Len(a) /\ j > Len(a)
    <3>1. (a \o b)[i] \in ToSet(a) /\ (a \o b)[j] \in ToSet(b)
      BY <2>3, <1>1, <1>2, <1>3 DEF ToSet
    <3> QED BY <3>1, <1>6
  <2>4. CASE i > Len(a) /\ j <= Len(a)
    <3>1. (a \o b)[i] \in ToSet(b) /\ (a \o b)[j] \in ToSet(a)
      BY <2>4, <1>1, <1>2, <1>3 DEF ToSet
    <3> QED BY <3>1, <1>6
  <2> QED BY <2>1, <2>2, <2>3, <2>4, <1>1
<1> QED BY <1>5, <1>6

LEMMA WithoutIsFilter ==
  ASSUME NEW T, NEW list \in Seq(T), NEW set
  PROVE  /\ Without(list, set) \in Seq(T)
         /\ ToSet(Without(list, set)) = ToSet(list) \ set
         /\ IsInjective(list) => IsInjective(Without(list, set))
<1>1. /\ Without(list, set) \in Seq(T)
      /\ ToSet(Without(list, set)) = ToSet(list) \cap (ToSet(list) \ set)
      /\ IsInjective(list) => IsInjective(Without(list, set))
  BY OnlyIsFilter DEF Without
<1> QED BY <1>1


------------------------------------------------------------------------------
(* The invariant.  First the types of the variables.                        *)
RunKinds == {"call", "approval", "result", "message", "tool", "output"}

RunItems == {Item(kind, n) : kind \in RunKinds, n \in Nat}
Items    == {Item(kind, n) : kind \in RunKinds \cup {"input", "other"}, n \in Nat}

Writes == [phase : {"none", "prepared", "append_ready", "compaction_pending"},
           from : Nat, to : Nat, before : Seq(Items)]

States == [generated : Seq(RunItems), start : Nat, persisted : Nat,
           step : {"interruption", "run_again", "final"}, pending : Writes,
           guarded : BOOLEAN]

CallNumbers == 1 .. MaxCalls

Histories == [others : Nat, runs : Nat, responses : Nat, unknown : SUBSET Items,
              miscounted : BOOLEAN, ran : [CallNumbers -> Nat],
              repeatable : SUBSET CallNumbers, deferred : SUBSET CallNumbers]

TypeOK ==
  /\ session \in Seq(Items)
  /\ state \in States
  /\ pc \in {"returned", "threw", "loop", "promoting", "reconciling",
             "appending", "compacting", "finalizing", "saving"}
  /\ prepared \in BOOLEAN
  /\ decisions \in [CallNumbers -> {"none", "pending", "approved", "rejected"}]
  /\ history \in Histories

(* The items of the state, and those that it does not count as persisted.   *)
Made      == ToSet(state.generated)
Counted   == {state.generated[i] : i \in 1 .. state.persisted}
Uncounted == {state.generated[i] : i \in state.persisted + 1 .. Generated}
Unsaved   == Uncounted \ Requests(CallNumbers)
Phase     == state.pending.phase

(* Where the run is when there is a write-ahead record, and what it covers: *)
(* all that is not counted, or, once it is committed, nothing.  A run that  *)
(* returned has counted everything, if it was to save it.                   *)
Recorded ==
  /\ pc \in {"returned", "loop", "finalizing", "saving"} => Phase = "none"
  /\ pc = "promoting" => Phase = "prepared"
  /\ pc \in {"reconciling", "appending"} => Phase = "append_ready"
  /\ pc = "compacting" => Phase = "compaction_pending"
  /\ state.persisted <= Generated
  /\ Phase \in {"prepared", "append_ready"} =>
       state.pending.from = state.persisted /\ state.pending.to = Generated
  /\ Phase = "compaction_pending" => state.persisted = Generated
  /\ pc = "returned" => state.persisted = Generated \/ Deferred(state)
  /\ Phase = "compaction_pending" => state.pending.to = Generated

(* No item is twice in the state, each belongs to a response or a call that *)
(* there was, and the session holds no request for an approval.             *)
Numbered ==
  /\ IsInjective(state.generated)
  /\ \A kind \in {"call", "approval", "result"}, n \in Nat :
       Item(kind, n) \in Made => n \in CallNumbers /\ decisions[n] # "none"
  /\ \A kind \in {"message", "tool", "output"}, n \in Nat :
       Item(kind, n) \in Made => n <= history.responses
  /\ \E last \in 0 .. MaxCalls :
       \A n \in CallNumbers : decisions[n] # "none" <=> n <= last
  /\ ToSet(session) \subseteq
       (Made \ Requests(CallNumbers)) \cup {Item("input", 1)}
         \cup {Item("other", n) : n \in 1 .. history.others}

(* A call waits for its decision and then has its request or its result.    *)
Answered ==
  /\ \A n \in CallNumbers :
       /\ decisions[n] = "pending" =>
            Item("approval", n) \in Made /\ Item("result", n) \notin Made
       /\ decisions[n] \in {"approved", "rejected"} =>
            (Item("approval", n) \in Made) # (Item("result", n) \in Made)
       /\ history.ran[n] > 0 => decisions[n] = "approved"
       /\ history.ran[n] > 0 /\ Item("approval", n) \in Made =>
            n \in history.repeatable
       /\ history.ran[n] > 1 => n \in history.repeatable
  /\ state.step # "interruption" =>
       \A n \in CallNumbers : Item("approval", n) \notin Made

SessionInv == TypeOK /\ Recorded /\ Numbered /\ Answered

(* What is counted is stored, and the results of the approved calls are, or *)
(* their write is on record, about to be or deferred.                       *)
Saved ==
  /\ Counted \ Requests(CallNumbers) \subseteq ToSet(session)
  /\ \A n \in CallNumbers :
       decisions[n] = "approved" /\ Item("result", n) \in Made =>
         \/ Item("result", n) \in ToSet(session)
         \/ Phase \in {"prepared", "append_ready"}
         \/ pc = "finalizing" /\ prepared
         \/ n \in history.deferred

(* What is not counted is not stored yet, except by rejected saves and by   *)
(* an append of the record that did not come to its end.                    *)
Apart ==
  /\ StoredTwice \subseteq history.unknown
  /\ Phase # "append_ready" \/ pc = "appending" =>
       ToSet(session) \cap Unsaved \subseteq history.unknown
  /\ Phase = "append_ready" =>
       ToSet(state.pending.before) \cap Unsaved \subseteq history.unknown

SavedOnce == history.miscounted \/ Apart

------------------------------------------------------------------------------
(* Lists again: which positions of a list a filter keeps, and what a list   *)
(* has twice after more is appended.                                        *)

LEMMA FilterPositions ==
  ASSUME NEW T, NEW list \in Seq(T), NEW set, NEW p \in 0 .. Len(list)
  PROVE  LET kept    == Without(list, set)
             removed == Len(Only(list, set))
         IN  /\ Len(kept) + removed = Len(list)
             /\ \A k \in 1 .. Len(kept) :
                  k + removed <= p => \E i \in 1 .. p : kept[k] = list[i]
             /\ (\A i \in p + 1 .. Len(list) : list[i] \notin set) =>
                  /\ removed <= p
                  /\ \A k \in 1 .. Len(kept) :
                       k + removed > p =>
                         \E i \in p + 1 .. Len(list) : kept[k] = list[i]
<1> DEFINE rest == ToSet(list) \ set
<1>1. PICK f : /\ Only(list, set) = f[Len(list)]
               /\ f[0] = << >>
               /\ \A i \in 1 .. Len(list) :
                    f[i] = IF list[i] \in set THEN Append(f[i - 1], list[i])
                           ELSE f[i - 1]
  BY OnlyByStep
<1>2. PICK g : /\ Only(list, rest) = g[Len(list)]
               /\ g[0] = << >>
               /\ \A i \in 1 .. Len(list) :
                    g[i] = IF list[i] \in rest THEN Append(g[i - 1], list[i])
                           ELSE g[i - 1]
  BY OnlyByStep
<1>3. Len(list) \in Nat /\ DOMAIN list = 1 .. Len(list)
      /\ \A i \in 1 .. Len(list) : list[i] \in T /\ (list[i] \in rest <=> list[i] \notin set)
  BY DEF ToSet
<1> HIDE DEF rest
<1> DEFINE Good(n) ==
             /\ f[n] \in Seq(T) /\ g[n] \in Seq(T)
             /\ Len(f[n]) + Len(g[n]) = n
             /\ \A i \in 0 .. n : Len(f[i]) <= Len(f[n]) /\ Len(g[i]) <= Len(g[n])
             /\ \A k \in 1 .. Len(g[n]) :
                  \E i \in 1 .. n : g[n][k] = list[i] /\ Len(g[i]) = k
           S == {n \in Nat : n <= Len(list) => Good(n)}
<1> HIDE DEF Good
<1>4. 0 \in S
  <2>1. f[0] \in Seq(T) /\ g[0] \in Seq(T) /\ Len(f[0]) = 0 /\ Len(g[0]) = 0
    BY <1>1, <1>2
  <2>2. \A i \in 0 .. 0 : i = 0
    OBVIOUS
  <2>3. Good(0)
    BY <2>1, <2>2 DEF Good
  <2> QED BY <2>3
<1>5. ASSUME NEW n \in S PROVE n + 1 \in S
  <2> SUFFICES ASSUME n + 1 <= Len(list) PROVE Good(n + 1)
    OBVIOUS
  <2>1. n \in Nat /\ n + 1 \in 1 .. Len(list) /\ (n + 1) - 1 = n
        /\ f[n] \in Seq(T) /\ g[n] \in Seq(T)
        /\ Len(f[n]) + Len(g[n]) = n
        /\ (\A i \in 0 .. n : Len(f[i]) <= Len(f[n]) /\ Len(g[i]) <= Len(g[n]))
        /\ (\A k \in 1 .. Len(g[n]) :
              \E i \in 1 .. n : g[n][k] = list[i] /\ Len(g[i]) = k)
    <3>1. n \in Nat /\ n + 1 \in 1 .. Len(list) /\ (n + 1) - 1 = n /\ Good(n)
      BY <1>3
    <3> QED BY <3>1 DEF Good
  <2> DEFINE e == list[n + 1]
  <2>2. e \in T
    BY <2>1, <1>3
  <2>3. \A i \in 0 .. n + 1 : i \in 0 .. n \/ i = n + 1
    BY <2>1
  <2>4. CASE e \in set
    <3>1. f[n + 1] = Append(f[n], e) /\ g[n + 1] = g[n]
      BY <2>1, <2>4, <1>1, <1>2, <1>3
    <3>2. /\ Append(f[n], e) \in Seq(T)
          /\ Len(Append(f[n], e)) = Len(f[n]) + 1
      BY <2>1, <2>2
    <3> HIDE DEF e
    <3>3. /\ f[n + 1] \in Seq(T) /\ g[n + 1] \in Seq(T)
          /\ Len(f[n + 1]) = Len(f[n]) + 1 /\ Len(g[n + 1]) = Len(g[n])
          /\ Len(f[n]) \in Nat /\ Len(g[n]) \in Nat
      BY <2>1, <3>1, <3>2
    <3>4. \A i \in 0 .. n + 1 :
            Len(f[i]) <= Len(f[n + 1]) /\ Len(g[i]) <= Len(g[n + 1])
      <4>1. ASSUME NEW i \in 0 .. n
            PROVE  Len(f[i]) <= Len(f[n + 1]) /\ Len(g[i]) <= Len(g[n + 1])
        <5>1. Len(f[i]) <= Len(f[n]) /\ Len(g[i]) <= Len(g[n])
          BY <2>1
        <5>2. Len(f[n]) - Len(f[i]) \in Nat
          <6>1. i \in 0 .. Len(list)
            BY <2>1
          <6> QED BY <5>1, <3>3
        <5> QED BY <5>1, <5>2, <3>3
      <4> QED BY <2>3, <3>3, <4>1
    <3>5. \A k \in 1 .. Len(g[n + 1]) :
            \E i \in 1 .. n + 1 : g[n + 1][k] = list[i] /\ Len(g[i]) = k
      BY <2>1, <3>1
    <3>6. Len(f[n + 1]) + Len(g[n + 1]) = n + 1
      <4> DEFINE a == Len(f[n])
                 b == Len(g[n])
                 c == Len(f[n + 1])
                 d == Len(g[n + 1])
      <4>1. a \in Nat /\ b \in Nat /\ a + b = n
        BY <2>1, <3>3
      <4>2. (c = a + 1 /\ d = b) \/ (c = a /\ d = b + 1)
        BY <3>3
      <4> HIDE DEF a, b, c, d
      <4>3. c + d = n + 1
        BY <4>1, <4>2
      <4> QED BY <4>3 DEF c, d
    <3> QED BY <3>3, <3>4, <3>5, <3>6 DEF Good
  <2>5. CASE e \notin set
    <3>1. g[n + 1] = Append(g[n], e) /\ f[n + 1] = f[n]
      BY <2>1, <2>5, <1>1, <1>2, <1>3
    <3>2. /\ Append(g[n], e) \in Seq(T)
          /\ Len(Append(g[n], e)) = Len(g[n]) + 1
          /\ Append(g[n], e)[Len(g[n]) + 1] = e
          /\ \A k \in 1 .. Len(g[n]) : Append(g[n], e)[k] = g[n][k]
      BY <2>1, <2>2
    <3>3. /\ f[n + 1] \in Seq(T) /\ g[n + 1] \in Seq(T)
          /\ Len(f[n + 1]) = Len(f[n]) /\ Len(g[n + 1]) = Len(g[n]) + 1
          /\ Len(f[n]) \in Nat /\ Len(g[n]) \in Nat
      BY <2>1, <3>1, <3>2
    <3>4. \A i \in 0 .. n + 1 :
            Len(f[i]) <= Len(f[n + 1]) /\ Len(g[i]) <= Len(g[n + 1])
      BY <2>1, <2>3, <3>3
    <3>5. ASSUME NEW k \in 1 .. Len(g[n + 1])
          PROVE  \E i \in 1 .. n + 1 : g[n + 1][k] = list[i] /\ Len(g[i]) = k
      <4>1. CASE k = Len(g[n]) + 1
        <5>1. g[n + 1][k] = list[n + 1] /\ Len(g[n + 1]) = k
          BY <3>1, <3>2, <3>3, <4>1
        <5> QED BY <2>1, <5>1
      <4>2. CASE k # Len(g[n]) + 1
        <5>1. k \in 1 .. Len(g[n])
          BY <3>3, <4>2
        <5>2. PICK i \in 1 .. n : g[n][k] = list[i] /\ Len(g[i]) = k
          BY <2>1, <5>1
        <5>3. i \in 1 .. n + 1 /\ g[n + 1][k] = list[i]
          BY <2>1, <3>1, <3>2, <5>1, <5>2
        <5> QED BY <5>2, <5>3
      <4> QED BY <4>1, <4>2
    <3> HIDE DEF e
    <3>6. Len(f[n + 1]) + Len(g[n + 1]) = n + 1
      <4> DEFINE a == Len(f[n])
                 b == Len(g[n])
                 c == Len(f[n + 1])
                 d == Len(g[n + 1])
      <4>1. a \in Nat /\ b \in Nat /\ a + b = n
        BY <2>1, <3>3
      <4>2. (c = a + 1 /\ d = b) \/ (c = a /\ d = b + 1)
        BY <3>3
      <4> HIDE DEF a, b, c, d
      <4>3. c + d = n + 1
        BY <4>1, <4>2
      <4> QED BY <4>3 DEF c, d
    <3> QED BY <3>3, <3>4, <3>5, <3>6 DEF Good
  <2> QED BY <2>4, <2>5
<1> HIDE DEF S
<1>6. \A n \in 0 .. Len(list) : Good(n)
  <2>1. S = Nat
    BY <1>4, <1>5, AllNumbers DEF S
  <2> QED BY <2>1, <1>3 DEF S
<1> DEFINE kept    == Without(list, set)
           removed == Len(Only(list, set))
           m       == Len(list)
<1>7. kept = g[m] /\ removed = Len(f[m])
  BY <1>1, <1>2 DEF Without, rest
<1>8. /\ Good(m) /\ Good(p)
      /\ m \in 0 .. m /\ p \in 0 .. m /\ m \in Nat /\ p \in Nat
      /\ f[m] \in Seq(T) /\ g[m] \in Seq(T) /\ f[p] \in Seq(T) /\ g[p] \in Seq(T)
      /\ Len(f[m]) + Len(g[m]) = m /\ Len(f[p]) + Len(g[p]) = p
  <2>1. /\ m \in 0 .. m /\ p \in 0 .. m /\ m \in Nat /\ p \in Nat
        /\ Good(m) /\ Good(p)
    BY <1>3, <1>6
  <2> QED BY <2>1 DEF Good
<1> HIDE DEF kept, removed
<1>9. ASSUME NEW k \in 1 .. Len(kept)
      PROVE  \E i \in 1 .. m : /\ kept[k] = list[i] /\ i = k + Len(f[i])
                               /\ Len(f[i]) <= removed /\ Len(f[i]) \in Nat
                               /\ Len(g[i]) = k
                               /\ i <= p => Len(g[i]) <= Len(g[p])
  <2>1. PICK i \in 1 .. m : g[m][k] = list[i] /\ Len(g[i]) = k
    BY <1>6, <1>7, <1>8 DEF Good
  <2>2. /\ i \in 0 .. m /\ f[i] \in Seq(T) /\ Len(f[i]) + Len(g[i]) = i
        /\ Len(f[i]) <= Len(f[m])
        /\ i <= p => Len(g[i]) <= Len(g[p])
    <3>1. i \in 0 .. m /\ Good(i)
      BY <1>6, <1>8
    <3>2. i <= p => i \in 0 .. p
      BY <1>8
    <3> QED BY <1>8, <3>1, <3>2 DEF Good
  <2>3. Len(f[i]) \in Nat /\ i \in Nat /\ k \in Nat
    BY <2>2, <1>8
  <2>4. i = k + Len(f[i])
    BY <2>1, <2>2, <2>3
  <2> QED BY <2>1, <2>2, <2>3, <2>4, <1>7
<1>10. Len(kept) + removed = m /\ removed \in Nat /\ Len(kept) \in Nat
  <2>1. f[m] \in Seq(T) /\ g[m] \in Seq(T)
    BY <1>8
  <2>2. Len(f[m]) \in Nat /\ Len(g[m]) \in Nat
    BY <2>1
  <2>3. Len(f[m]) + Len(g[m]) = m
    BY <1>8
  <2>4. Len(g[m]) + Len(f[m]) = m
    <3> DEFINE a == Len(f[m])
               b == Len(g[m])
    <3>1. a \in Nat /\ b \in Nat /\ a + b = m
      BY <2>2, <2>3
    <3> HIDE DEF a, b, m
    <3>2. b + a = m
      BY <3>1
    <3> QED BY <3>2 DEF a, b
  <2> QED BY <2>2, <2>4, <1>7
<1>11. ASSUME NEW k \in 1 .. Len(kept), k + removed <= p
       PROVE  \E i \in 1 .. p : kept[k] = list[i]
  <2>1. PICK i \in 1 .. m : /\ kept[k] = list[i] /\ i = k + Len(f[i])
                            /\ Len(f[i]) <= removed /\ Len(f[i]) \in Nat
    BY <1>9
  <2>2. i \in 1 .. p
    BY <1>8, <1>10, <1>11, <2>1
  <2> QED BY <2>1, <2>2
<1>12. ASSUME \A i \in p + 1 .. m : list[i] \notin set
       PROVE  /\ removed <= p
              /\ \A k \in 1 .. Len(kept) :
                   k + removed > p => \E i \in p + 1 .. m : kept[k] = list[i]
  <2> DEFINE U == {n \in Nat : p + n <= m => Len(f[p + n]) = Len(f[p])}
  <2>1. 0 \in U
    BY <1>8
  <2>2. ASSUME NEW n \in U PROVE n + 1 \in U
    <3> SUFFICES ASSUME p + (n + 1) <= m PROVE Len(f[p + (n + 1)]) = Len(f[p])
      OBVIOUS
    <3>1. /\ n \in Nat /\ p + n <= m /\ Len(f[p + n]) = Len(f[p])
          /\ p + (n + 1) \in p + 1 .. m /\ p + (n + 1) \in 1 .. Len(list)
          /\ (p + (n + 1)) - 1 = p + n
      BY <1>8
    <3>2. f[p + (n + 1)] = f[p + n]
      BY <1>1, <1>12, <3>1
    <3> QED BY <3>1, <3>2
  <2> HIDE DEF U
  <2>3. U = Nat
    BY <2>1, <2>2, AllNumbers DEF U
  <2> DEFINE d == m - p
  <2>4. d \in Nat /\ p + d = m /\ p + d <= m
    BY <1>8
  <2> HIDE DEF d
  <2>5. Len(f[p + d]) = Len(f[p])
    BY <2>3, <2>4 DEF U
  <2>6. removed <= p /\ Len(g[p]) + removed = p /\ Len(g[p]) \in Nat
    <3> DEFINE a == Len(f[p])
               b == Len(g[p])
    <3>1. f[p] \in Seq(T) /\ g[p] \in Seq(T)
      BY <1>8
    <3>2. a \in Nat /\ b \in Nat
      BY <3>1
    <3>3. a + b = p
      BY <1>8
    <3>4. removed = a
      BY <1>7, <2>4, <2>5
    <3> HIDE DEF a, b
    <3>5. removed <= p /\ b + removed = p /\ b \in Nat
      BY <1>8, <3>2, <3>3, <3>4
    <3> QED BY <3>5 DEF b
  <2>7. ASSUME NEW k \in 1 .. Len(kept), k + removed > p
        PROVE  \E i \in p + 1 .. m : kept[k] = list[i]
    <3>1. PICK i \in 1 .. m : /\ kept[k] = list[i] /\ Len(g[i]) = k
                              /\ i <= p => Len(g[i]) <= Len(g[p])
      BY <1>9
    <3>2. ~(i <= p)
      BY <1>10, <2>6, <2>7, <3>1
    <3>3. i \in p + 1 .. m
      BY <1>8, <3>2
    <3> QED BY <3>1, <3>3
  <2> QED BY <2>6, <2>7
<1> QED BY <1>10, <1>11, <1>12 DEF kept, removed

(* A part of a list.                                                        *)
LEMMA PartOfList ==
  ASSUME NEW T, NEW list \in Seq(T), NEW a \in Nat, NEW b \in Nat,
         b <= Len(list)
  PROVE  LET part == SubSeq(list, a + 1, b)
         IN  /\ part \in Seq(T)
             /\ ToSet(part) = {list[i] : i \in a + 1 .. b}
             /\ IsInjective(list) => IsInjective(part)
<1> DEFINE part == SubSeq(list, a + 1, b)
<1>1. CASE a < b
  <2>1. /\ part \in Seq(T) /\ Len(part) = b - a /\ b - a \in Nat
        /\ DOMAIN part = 1 .. b - a
        /\ \A i \in 1 .. b - a : part[i] = list[a + i] /\ a + i \in 1 .. Len(list)
    BY <1>1
  <2> HIDE DEF part
  <2>2. \A i \in a + 1 .. b : i - a \in 1 .. b - a /\ a + (i - a) = i
    BY <1>1
  <2>3. \A i \in 1 .. b - a : a + i \in a + 1 .. b
    BY <1>1
  <2>4. ToSet(part) = {list[i] : i \in a + 1 .. b}
    <3>1. \A i \in 1 .. b - a : part[i] \in {list[j] : j \in a + 1 .. b}
      BY <2>1, <2>3
    <3>2. ASSUME NEW i \in a + 1 .. b
          PROVE  list[i] \in {part[k] : k \in 1 .. b - a}
      <4>1. i - a \in 1 .. b - a /\ part[i - a] = list[i]
        BY <2>1, <2>2
      <4> QED BY <4>1
    <3>3. ToSet(part) = {part[k] : k \in 1 .. b - a}
      BY <2>1 DEF ToSet
    <3> QED BY <3>1, <3>2, <3>3
  <2>5. IsInjective(list) => IsInjective(part)
    <3>1. DOMAIN list = 1 .. Len(list)
      OBVIOUS
    <3>2. \A i, j \in 1 .. b - a : a + i = a + j => i = j
      BY <1>1
    <3> QED BY <2>1, <3>1, <3>2 DEF IsInjective
  <2> QED BY <2>1, <2>4, <2>5 DEF part
<1>2. CASE ~(a < b)
  <2>1. part = << >>
    BY <1>2
  <2>2. a + 1 .. b = {}
    BY <1>2
  <2>3. ToSet(<< >>) = {} /\ IsInjective(<< >>) /\ << >> \in Seq(T)
    BY DEF ToSet, IsInjective
  <2> QED BY <2>1, <2>2, <2>3
<1> QED BY <1>1, <1>2

(* What a session that had S appended without repetitions has twice.        *)
Stores(S) ==
  /\ session' \in Seq(Items)
  /\ ToSet(session') = ToSet(session) \cup S
  /\ StoredTwice' \subseteq StoredTwice \cup (ToSet(session) \cap S)

LEMMA AppendStores ==
  ASSUME session \in Seq(Items), NEW items \in Seq(Items), IsInjective(items),
         session' = session \o items
  PROVE  Stores(ToSet(items))
<1>1. /\ session' \in Seq(Items)
      /\ ToSet(session') = ToSet(session) \cup ToSet(items)
  BY ConcatIsUnion
<1>2. /\ Len(session) \in Nat /\ DOMAIN session = 1 .. Len(session)
      /\ Len(items) \in Nat /\ DOMAIN items = 1 .. Len(items)
      /\ DOMAIN session' = 1 .. Len(session) + Len(items)
  OBVIOUS
<1>3. \A i \in 1 .. Len(session) : session'[i] = session[i]
  OBVIOUS
<1>4. \A i \in 1 .. Len(session) + Len(items) : i > Len(session) =>
        /\ session'[i] = items[i - Len(session)]
        /\ i - Len(session) \in 1 .. Len(items)
  BY <1>2
<1>5. ASSUME NEW i \in DOMAIN session', NEW j \in DOMAIN session', i < j,
             session'[i] = session'[j]
      PROVE  session'[i] \in StoredTwice \cup (ToSet(session) \cap ToSet(items))
  <2>1. CASE j <= Len(session)
    <3>1. i \in DOMAIN session /\ j \in DOMAIN session
      BY <1>2, <1>5, <2>1
    <3>2. session[i] = session[j] /\ session[i] \in ToSet(session)
      BY <1>2, <1>3, <1>5, <3>1 DEF ToSet
    <3>3. i # j
      BY <1>2, <1>5
    <3> QED BY <1>2, <1>3, <3>1, <3>2, <3>3 DEF StoredTwice, Held
  <2>2. CASE i > Len(session)
    <3>1. j > Len(session) /\ i # j
      BY <1>2, <1>5, <2>2
    <3>2. i - Len(session) = j - Len(session)
      BY <1>2, <1>4, <1>5, <2>2, <3>1 DEF IsInjective
    <3> QED BY <1>2, <3>1, <3>2
  <2>3. CASE i <= Len(session) /\ j > Len(session)
    <3>1. session'[i] \in ToSet(session)
      BY <1>2, <1>3, <1>5, <2>3 DEF ToSet
    <3>2. session'[j] \in ToSet(items)
      BY <1>2, <1>4, <1>5, <2>3 DEF ToSet
    <3> QED BY <1>5, <3>1, <3>2
  <2> QED BY <1>2, <1>5, <2>1, <2>2, <2>3
<1>6. StoredTwice' \subseteq StoredTwice \cup (ToSet(session) \cap ToSet(items))
  <2> SUFFICES ASSUME NEW item \in StoredTwice'
               PROVE  item \in StoredTwice \cup (ToSet(session) \cap ToSet(items))
    OBVIOUS
  <2>1. PICK i, j \in DOMAIN session' :
          i # j /\ session'[i] = item /\ session'[j] = item
    BY DEF StoredTwice
  <2>2. i < j \/ j < i
    BY <1>2, <2>1
  <2> QED BY <1>5, <2>1, <2>2
<1> QED BY <1>1, <1>6 DEF Stores

------------------------------------------------------------------------------
(* Items and states.                                                        *)

LEMMA ItemsDiffer ==
  ASSUME NEW k, NEW l, NEW m, NEW n
  PROVE  Item(k, m) = Item(l, n) <=> k = l /\ m = n
BY DEF Item

LEMMA RunItemsAreItems ==
  /\ RunItems \subseteq Items
  /\ Seq(RunItems) \subseteq Seq(Items)
  /\ \A n \in Nat : Item("other", n) \in Items \ RunItems
  /\ Item("input", 1) \in Items \ RunItems
<1>1. RunItems \subseteq Items
  BY DEF RunItems, Items
<1>2. \A s \in Seq(RunItems) : s \in Seq(Items)
  BY <1>1
<1>3. /\ \A n \in Nat : Item("other", n) \in Items
      /\ Item("input", 1) \in Items
  BY DEF Items
<1>4. /\ \A n \in Nat : Item("other", n) \notin RunItems
      /\ Item("input", 1) \notin RunItems
  BY ItemsDiffer DEF RunItems, RunKinds
<1> QED BY <1>1, <1>2, <1>3, <1>4

(* What is counted and what is not make up the history.                     *)
LEMMA HistoryParts ==
  ASSUME TypeOK, Recorded, Numbered
  PROVE  /\ Generated \in Nat /\ state.persisted \in Nat
         /\ Counted \in SUBSET RunItems /\ Uncounted \in SUBSET RunItems
         /\ Made = Counted \cup Uncounted
         /\ Counted \cap Uncounted = {}
         /\ state.persisted = Generated => Uncounted = {}
<1>1. /\ state.generated \in Seq(RunItems) /\ state.persisted \in Nat
      /\ Generated \in Nat /\ state.persisted <= Generated
      /\ DOMAIN state.generated = 1 .. Generated
      /\ IsInjective(state.generated)
  BY DEF TypeOK, States, Recorded, Numbered, Generated
<1>2. \A i \in 1 .. Generated : state.generated[i] \in RunItems
  BY <1>1
<1>3. /\ \A i \in 1 .. state.persisted : i \in 1 .. Generated
      /\ \A i \in state.persisted + 1 .. Generated : i \in 1 .. Generated
      /\ \A i \in 1 .. Generated :
           i \in 1 .. state.persisted \/ i \in state.persisted + 1 .. Generated
      /\ \A i \in 1 .. state.persisted :
           \A j \in state.persisted + 1 .. Generated : i # j
  BY <1>1
<1>4. Counted \in SUBSET RunItems /\ Uncounted \in SUBSET RunItems
  BY <1>2, <1>3 DEF Counted, Uncounted
<1>5. Made = Counted \cup Uncounted
  BY <1>1, <1>3 DEF Made, Counted, Uncounted, ToSet
<1>6. Counted \cap Uncounted = {}
  BY <1>1, <1>3 DEF Counted, Uncounted, IsInjective
<1>7. state.persisted = Generated => Uncounted = {}
  BY <1>1 DEF Uncounted
<1> QED BY <1>1, <1>4, <1>5, <1>6, <1>7

(* The items that are to be stored from a part of the history.              *)
LEMMA SliceItems ==
  ASSUME TypeOK, Numbered, NEW from \in Nat, NEW to \in Nat, to <= Generated
  PROVE  /\ Slice(from, to) \in Seq(Items)
         /\ IsInjective(Slice(from, to))
         /\ ToSet(Slice(from, to)) =
              {state.generated[i] : i \in from + 1 .. to} \ Requests(CallNumbers)
<1>1. state.generated \in Seq(Items) /\ IsInjective(state.generated)
  BY RunItemsAreItems DEF TypeOK, States, Numbered
<1> DEFINE part == SubSeq(state.generated, from + 1, to)
<1>2. /\ part \in Seq(Items) /\ IsInjective(part)
      /\ ToSet(part) = {state.generated[i] : i \in from + 1 .. to}
  BY <1>1, PartOfList DEF Generated
<1> HIDE DEF part
<1>3. Slice(from, to) = Without(part, Requests(CallNumbers))
  BY DEF Slice, Storable, CallNumbers, part
<1>4. /\ Without(part, Requests(CallNumbers)) \in Seq(Items)
      /\ IsInjective(Without(part, Requests(CallNumbers)))
      /\ ToSet(Without(part, Requests(CallNumbers))) =
           ToSet(part) \ Requests(CallNumbers)
  BY <1>2, WithoutIsFilter
<1> QED BY <1>2, <1>3, <1>4

LEMMA UnsavedItems ==
  ASSUME TypeOK, Recorded, Numbered
  PROVE  /\ Slice(state.persisted, Generated) \in Seq(Items)
         /\ IsInjective(Slice(state.persisted, Generated))
         /\ ToSet(Slice(state.persisted, Generated)) = Unsaved
         /\ Phase \in {"prepared", "append_ready"} =>
              AppendItems = Slice(state.persisted, Generated)
         /\ ToSet(Slice(0, state.persisted)) = Counted \ Requests(CallNumbers)
         /\ ToSet(Storable(state.generated)) = Made \ Requests(CallNumbers)
<1>1. /\ Generated \in Nat /\ state.persisted \in Nat
      /\ state.persisted <= Generated /\ Generated <= Generated
  BY HistoryParts DEF Recorded
<1>2. /\ Slice(state.persisted, Generated) \in Seq(Items)
      /\ IsInjective(Slice(state.persisted, Generated))
      /\ ToSet(Slice(state.persisted, Generated)) = Unsaved
  BY <1>1, SliceItems DEF Unsaved, Uncounted
<1>3. Phase \in {"prepared", "append_ready"} =>
        AppendItems = Slice(state.persisted, Generated)
  BY DEF Recorded, AppendItems
<1>4. ToSet(Slice(0, state.persisted)) =
        {state.generated[i] : i \in 0 + 1 .. state.persisted} \ Requests(CallNumbers)
  BY <1>1, SliceItems
<1>5. ToSet(Storable(state.generated)) = Made \ Requests(CallNumbers)
  BY WithoutIsFilter DEF Storable, Made, CallNumbers, TypeOK, States
<1> QED BY <1>1, <1>2, <1>3, <1>4, <1>5 DEF Counted

(* Steps that change neither the history of the state nor its record.       *)
LEMMA SameHistory ==
  ASSUME state'.generated = state.generated
  PROVE  /\ Generated' = Generated /\ Made' = Made
         /\ state'.persisted = state.persisted =>
              Counted' = Counted /\ Uncounted' = Uncounted /\ Unsaved' = Unsaved
BY DEF Generated, Made, Counted, Uncounted, Unsaved

LEMMA SameState ==
  ASSUME state' = state
  PROVE  /\ Generated' = Generated /\ Made' = Made /\ Phase' = Phase
         /\ Counted' = Counted /\ Uncounted' = Uncounted /\ Unsaved' = Unsaved
BY DEF Generated, Made, Counted, Uncounted, Unsaved, Phase

LEMMA CheckpointOf ==
  ASSUME NEW s \in States
  PROVE  LET t == Checkpoint(s)
         IN  /\ t \in States
             /\ t.generated = s.generated /\ t.persisted = s.persisted
             /\ t.step = s.step
             /\ t.pending.phase = "prepared"
             /\ t.pending.from = s.persisted /\ t.pending.to = Len(s.generated)
<1> DEFINE w == [NoWrite EXCEPT !.phase = "prepared", !.from = s.persisted,
                                !.to = Len(s.generated)]
<1>1. /\ s.persisted \in Nat /\ s.generated \in Seq(RunItems)
      /\ Len(s.generated) \in Nat
  BY DEF States
<1>2. NoWrite \in Writes
  BY DEF NoWrite, Writes
<1> DEFINE p == s.persisted
           g == Len(s.generated)
<1>3. p \in Nat /\ g \in Nat
  BY <1>1
<1>5. Checkpoint(s) = [s EXCEPT !.pending = w]
  BY DEF Checkpoint
<1>6. w = [NoWrite EXCEPT !.phase = "prepared", !.from = p, !.to = g]
  OBVIOUS
<1> HIDE DEF w, p, g
<1>7. w \in Writes /\ w.phase = "prepared" /\ w.from = p /\ w.to = g
  BY <1>2, <1>3, <1>6 DEF Writes
<1>4. /\ w \in Writes /\ w.phase = "prepared" /\ w.from = s.persisted
      /\ w.to = Len(s.generated)
  BY <1>7 DEF p, g
<1> HIDE DEF w
<1> QED BY <1>4, <1>5 DEF States

LEMMA CommittedOf ==
  ASSUME NEW s \in States
  PROVE  LET t == Committed(s)
         IN  /\ t \in States
             /\ t.generated = s.generated /\ t.persisted = s.pending.to
             /\ t.step = s.step
             /\ t.pending.phase = "compaction_pending"
             /\ t.pending.to = s.pending.to
<1>1. s.pending \in Writes /\ s.pending.to \in Nat
  BY DEF States, Writes
<1> DEFINE w == [s.pending EXCEPT !.phase = "compaction_pending"]
           to == s.pending.to
<1>2. w \in Writes /\ w.phase = "compaction_pending" /\ w.to = to
  BY <1>1 DEF Writes
<1>3. Committed(s) = [s EXCEPT !.persisted = to, !.pending = w]
  BY DEF Committed
<1> HIDE DEF w, to
<1>4. to \in Nat
  BY <1>1 DEF to
<1>5. /\ Committed(s) \in States
      /\ Committed(s).generated = s.generated /\ Committed(s).persisted = to
      /\ Committed(s).step = s.step /\ Committed(s).pending = w
  BY <1>2, <1>3, <1>4 DEF States
<1> QED BY <1>2, <1>5 DEF to

------------------------------------------------------------------------------
(* The invariant, and the actions that leave the history of the state and   *)
(* the decisions alone.                                                     *)
IInv == SessionInv /\ Saved /\ SavedOnce

LEMMA InvariantParts ==
  ASSUME IInv
  PROVE  TypeOK /\ Recorded /\ Numbered /\ Answered /\ Saved /\ SavedOnce
BY DEF IInv, SessionInv

LEMMA StateFields ==
  ASSUME TypeOK
  PROVE  /\ state.generated \in Seq(RunItems) /\ state.persisted \in Nat
         /\ state.step \in {"interruption", "run_again", "final"}
         /\ state.pending \in Writes
         /\ Phase \in {"none", "prepared", "append_ready", "compaction_pending"}
         /\ state.pending.from \in Nat /\ state.pending.to \in Nat
         /\ state.pending.before \in Seq(Items)
         /\ history.others \in Nat /\ history.responses \in Nat
         /\ history.unknown \in SUBSET Items /\ history.miscounted \in BOOLEAN
         /\ history.ran \in [CallNumbers -> Nat]
         /\ history.repeatable \in SUBSET CallNumbers
         /\ history.deferred \in SUBSET CallNumbers
BY DEF TypeOK, States, Writes, Histories, Phase

LEMMA QuietStep ==
  ASSUME Numbered, Answered,
         state'.generated = state.generated, state'.step = state.step,
         decisions' = decisions, history'.ran = history.ran,
         history'.repeatable = history.repeatable,
         history'.responses = history.responses,
         history'.others = history.others,
         ToSet(session') \subseteq ToSet(session) \cup (Made \ Requests(CallNumbers))
  PROVE  Numbered' /\ Answered'
<1>1. Made' = Made
  BY SameHistory
<1>2. Numbered'
  <2>1. /\ ToSet(session)' = ToSet(session')
        /\ Requests(CallNumbers)' = Requests(CallNumbers)
    BY DEF Requests, CallNumbers, Item
  <2> QED BY <1>1, <2>1 DEF Numbered
<1>3. Answered'
  BY <1>1 DEF Answered
<1> QED BY <1>2, <1>3

(* Steps of the run, or of the application, that change only where it is.   *)
LEMMA OnlyMoves ==
  ASSUME IInv, UNCHANGED <<session, state, decisions>>,
         history'.ran = history.ran, history'.repeatable = history.repeatable,
         history'.responses = history.responses, history'.others = history.others,
         history'.unknown = history.unknown,
         history'.miscounted = history.miscounted,
         history'.deferred = history.deferred,
         TypeOK', Recorded',
         pc = "finalizing" /\ prepared => pc' = "finalizing" /\ prepared',
         pc' = "appending" => pc = "appending" \/ Phase # "append_ready"
  PROVE  IInv'
<1>1. /\ Numbered /\ Answered /\ Saved /\ SavedOnce
      /\ ToSet(session) \subseteq ToSet(session) \cup (Made \ Requests(CallNumbers))
  BY InvariantParts
<1>2. Numbered' /\ Answered'
  BY <1>1, QuietStep
<1>3. /\ Made' = Made /\ Phase' = Phase /\ Counted' = Counted /\ Unsaved' = Unsaved
      /\ StoredTwice' = StoredTwice
  BY SameState DEF StoredTwice, Held
<1>4. Saved'
  BY <1>1, <1>3 DEF Saved
<1>5. SavedOnce'
  BY <1>1, <1>3 DEF SavedOnce, Apart
<1> QED BY <1>2, <1>4, <1>5 DEF IInv, SessionInv

LEMMA RunStep ==
  ASSUME IInv, Run
  PROVE  IInv'
<1>1. TypeOK /\ Recorded
  BY InvariantParts
<1>2. /\ pc \in {"returned", "threw"} /\ history.runs \in Nat
      /\ UNCHANGED <<session, state, decisions>> /\ prepared' = FALSE
      /\ history' = [history EXCEPT !.runs = @ + 1]
      /\ Phase' = Phase /\ Generated' = Generated
  BY <1>1 DEF Run, Idle, TypeOK, Histories, Phase, Generated
<1>3. /\ history' \in Histories
      /\ history'.ran = history.ran /\ history'.repeatable = history.repeatable
      /\ history'.responses = history.responses /\ history'.others = history.others
      /\ history'.unknown = history.unknown
      /\ history'.miscounted = history.miscounted
      /\ history'.deferred = history.deferred
  <2> DEFINE r == history.runs + 1
  <2>1. r \in Nat /\ history' = [history EXCEPT !.runs = r] /\ history \in Histories
    BY <1>1, <1>2 DEF TypeOK
  <2> HIDE DEF r
  <2> QED BY <2>1 DEF Histories
<1>4. \/ Phase = "none" /\ pc' = "loop"
      \/ Phase = "prepared" /\ pc' = "promoting"
      \/ Phase = "append_ready" /\ pc' = "reconciling"
      \/ Phase = "compaction_pending" /\ pc' = "compacting"
      \/ pc' = "threw"
  BY <1>1, StateFields DEF Run, Phase, Pending
<1>5. TypeOK'
  BY <1>1, <1>2, <1>3, <1>4 DEF TypeOK
<1>6. Recorded'
  BY <1>1, <1>2, <1>4 DEF Recorded
<1> QED BY <1>2, <1>3, <1>4, <1>5, <1>6, OnlyMoves

LEMMA SessionFailsStep ==
  ASSUME IInv, SessionFails
  PROVE  IInv'
<1>1. TypeOK /\ Recorded
  BY InvariantParts
<1>2. /\ pc' = "threw" /\ pc \in {"promoting", "reconciling", "compacting"}
      /\ UNCHANGED <<session, state, prepared, decisions, history>>
      /\ Phase' = Phase /\ Generated' = Generated
  BY DEF SessionFails, Phase, Generated
<1>3. TypeOK' /\ Recorded'
  BY <1>1, <1>2 DEF TypeOK, Recorded
<1> QED BY <1>2, <1>3, OnlyMoves

LEMMA ModelFailsStep ==
  ASSUME IInv, ModelFails
  PROVE  IInv'
<1>1. TypeOK /\ Recorded
  BY InvariantParts
<1>2. /\ pc' = "threw" /\ pc = "loop"
      /\ UNCHANGED <<session, state, prepared, decisions, history>>
      /\ Phase' = Phase /\ Generated' = Generated
  BY DEF ModelFails, Phase, Generated
<1>3. TypeOK' /\ Recorded'
  BY <1>1, <1>2 DEF TypeOK, Recorded
<1> QED BY <1>2, <1>3, OnlyMoves

LEMMA FinalizeAgainStep ==
  ASSUME IInv, FinalizeAgain
  PROVE  IInv'
<1>1. TypeOK /\ Recorded
  BY InvariantParts
<1>2. /\ pc' = "finalizing" /\ pc = "loop"
      /\ UNCHANGED <<session, state, prepared, decisions, history>>
      /\ Phase' = Phase /\ Generated' = Generated
  BY DEF FinalizeAgain, Phase, Generated
<1>3. TypeOK' /\ Recorded'
  BY <1>1, <1>2 DEF TypeOK, Recorded
<1> QED BY <1>2, <1>3, OnlyMoves

LEMMA FinalizeStep ==
  ASSUME IInv, Finalize
  PROVE  IInv'
<1>1. TypeOK /\ Recorded /\ Numbered /\ Answered /\ Saved /\ SavedOnce
  BY InvariantParts
<1>2. /\ pc = "finalizing" /\ Phase = "none"
      /\ pc' = "threw" \/ pc' = IF prepared THEN "promoting" ELSE "saving"
      /\ state' = IF prepared THEN Checkpoint(state) ELSE state
      /\ UNCHANGED <<session, prepared, decisions, history>>
  BY <1>1 DEF Finalize, Recorded
<1>3. /\ state' \in States
      /\ state'.generated = state.generated /\ state'.persisted = state.persisted
      /\ state'.step = state.step
      /\ Phase' = IF prepared THEN "prepared" ELSE "none"
      /\ prepared => /\ state'.pending.from = state.persisted
                     /\ state'.pending.to = Generated
  BY <1>1, <1>2, CheckpointOf DEF TypeOK, Phase, Generated
<1>4. /\ Made' = Made /\ Counted' = Counted /\ Unsaved' = Unsaved
      /\ Generated' = Generated /\ StoredTwice' = StoredTwice
      /\ prepared \in BOOLEAN /\ prepared' = prepared
      /\ ToSet(session) \subseteq ToSet(session) \cup (Made \ Requests(CallNumbers))
  BY <1>1, <1>2, <1>3, SameHistory DEF StoredTwice, Held, TypeOK
<1>5. TypeOK'
  BY <1>1, <1>2, <1>3 DEF TypeOK
<1>6. Recorded'
  BY <1>1, <1>2, <1>3, <1>4 DEF Recorded
<1>7. Numbered' /\ Answered'
  BY <1>1, <1>2, <1>3, <1>4, QuietStep
<1>8. Saved'
  BY <1>1, <1>2, <1>3, <1>4 DEF Saved
<1>9. SavedOnce'
  BY <1>1, <1>2, <1>3, <1>4 DEF SavedOnce, Apart
<1> QED BY <1>5, <1>6, <1>7, <1>8, <1>9 DEF IInv, SessionInv

------------------------------------------------------------------------------
(* The write-ahead record.                                                  *)

LEMMA PromoteStep ==
  ASSUME IInv, PromotePreparedWrite
  PROVE  IInv'
<1>1. TypeOK /\ Recorded /\ Numbered /\ Answered /\ Saved /\ SavedOnce
  BY InvariantParts
<1>2. /\ pc = "promoting" /\ pc' = "appending" /\ Phase = "prepared"
      /\ UNCHANGED <<session, prepared, decisions, history>>
  BY <1>1 DEF PromotePreparedWrite, Recorded
<1>3. /\ state' \in States
      /\ state'.generated = state.generated /\ state'.persisted = state.persisted
      /\ state'.step = state.step /\ Phase' = "append_ready"
      /\ state'.pending.from = state.pending.from
      /\ state'.pending.to = state.pending.to
      /\ state'.pending.before = session
  <2> DEFINE w == [state.pending EXCEPT !.phase = "append_ready", !.before = session]
  <2>1. state' = [state EXCEPT !.pending = w]
    BY DEF PromotePreparedWrite
  <2>2. state.pending \in Writes /\ session \in Seq(Items) /\ state \in States
    BY <1>1, StateFields DEF TypeOK
  <2>3. /\ w \in Writes /\ w.phase = "append_ready" /\ w.before = session
        /\ w.from = state.pending.from /\ w.to = state.pending.to
    BY <2>2 DEF Writes
  <2> HIDE DEF w
  <2> QED BY <2>1, <2>2, <2>3 DEF States, Phase
<1>4. /\ Made' = Made /\ Counted' = Counted /\ Unsaved' = Unsaved
      /\ Generated' = Generated /\ StoredTwice' = StoredTwice
      /\ ToSet(session) \subseteq ToSet(session) \cup (Made \ Requests(CallNumbers))
  BY <1>2, <1>3, SameHistory DEF StoredTwice, Held
<1>5. TypeOK'
  BY <1>1, <1>2, <1>3 DEF TypeOK
<1>6. Recorded'
  BY <1>1, <1>2, <1>3, <1>4 DEF Recorded
<1>7. Numbered' /\ Answered'
  BY <1>1, <1>2, <1>3, <1>4, QuietStep
<1>8. Saved'
  BY <1>1, <1>2, <1>3, <1>4 DEF Saved
<1>9. SavedOnce'
  BY <1>1, <1>2, <1>3, <1>4 DEF SavedOnce, Apart
<1> QED BY <1>5, <1>6, <1>7, <1>8, <1>9 DEF IInv, SessionInv

(* The session has come to hold what the record covers.                     *)
LEMMA CommittedStep ==
  ASSUME IInv, Phase = "append_ready", state' = Committed(state),
         pc' = "compacting",
         UNCHANGED <<prepared, decisions, history>>,
         session' \in Seq(Items),
         Unsaved \subseteq ToSet(session'),
         ToSet(session) \subseteq ToSet(session'),
         ToSet(session') \subseteq ToSet(session) \cup (Made \ Requests(CallNumbers)),
         history.miscounted \/ StoredTwice' \subseteq history.unknown
  PROVE  IInv'
<1>1. TypeOK /\ Recorded /\ Numbered /\ Answered /\ Saved
  BY InvariantParts
<1>2. /\ state' \in States
      /\ state'.generated = state.generated /\ state'.persisted = Generated
      /\ state'.step = state.step /\ Phase' = "compaction_pending"
      /\ state'.pending.to = Generated
  BY <1>1, CommittedOf DEF TypeOK, Phase, Recorded
<1>3. Made' = Made /\ Generated' = Generated
  BY <1>2, SameHistory
<1>4. TypeOK'
  BY <1>1, <1>2 DEF TypeOK
<1>5. /\ Recorded' /\ Generated \in Nat
  BY <1>1, <1>2, <1>3, HistoryParts DEF Recorded
<1>6. Numbered' /\ Answered'
  BY <1>1, <1>2, QuietStep
<1>7. /\ Uncounted' = {} /\ Counted' = Made /\ Unsaved' = {}
      /\ Made = Counted \cup Uncounted
  <2>1. Made = Counted \cup Uncounted
    BY <1>1, HistoryParts
  <2>2. Counted' = Made
    <3>1. DOMAIN state.generated = 1 .. Generated
      BY <1>1, StateFields DEF Generated
    <3> QED BY <1>2, <3>1 DEF Counted, Made, ToSet
  <2>3. Uncounted' = {}
    <3>1. Generated + 1 .. Generated = {}
      BY <1>5
    <3> QED BY <1>2, <1>3, <3>1 DEF Uncounted
  <2>4. Unsaved' = Uncounted' \ Requests(CallNumbers)
    BY DEF Unsaved, CallNumbers, Requests, Item
  <2> QED BY <2>1, <2>2, <2>3, <2>4
<1>8. Made \ Requests(CallNumbers) \subseteq ToSet(session')
  BY <1>1, <1>7 DEF Saved, Unsaved
<1>9. Saved'
  <2>1. (Counted \ Requests(CallNumbers) \subseteq ToSet(session))'
    BY <1>7, <1>8 DEF Requests, CallNumbers, Item
  <2>2. \A n \in CallNumbers : Item("result", n) \notin Requests(CallNumbers)
    BY ItemsDiffer DEF Requests
  <2> QED BY <1>3, <1>8, <2>1, <2>2 DEF Saved
<1>10. SavedOnce'
  BY <1>2, <1>7 DEF SavedOnce, Apart
<1> QED BY <1>4, <1>5, <1>6, <1>9, <1>10 DEF IInv, SessionInv

LEMMA ReconcileStep ==
  ASSUME IInv, ReconcilePendingWrite
  PROVE  IInv'
<1>1. TypeOK /\ Recorded /\ Numbered /\ Answered /\ Saved /\ SavedOnce
  BY InvariantParts
<1>2. /\ pc = "reconciling" /\ Phase = "append_ready"
      /\ UNCHANGED <<session, prepared, decisions, history>>
  BY <1>1 DEF ReconcilePendingWrite, Recorded
<1>3. CASE session = state.pending.before /\ pc' = "appending" /\ state' = state
  <2>1. /\ Made' = Made /\ Counted' = Counted /\ Unsaved' = Unsaved
        /\ Generated' = Generated /\ StoredTwice' = StoredTwice /\ Phase' = Phase
        /\ ToSet(session) \subseteq ToSet(session) \cup (Made \ Requests(CallNumbers))
    BY <1>2, <1>3, SameState DEF StoredTwice, Held
  <2>2. TypeOK' /\ Recorded'
    BY <1>1, <1>2, <1>3, <2>1 DEF TypeOK, Recorded
  <2>3. Numbered' /\ Answered'
    BY <1>1, <1>2, <1>3, <2>1, QuietStep
  <2>4. Saved'
    BY <1>1, <1>2, <1>3, <2>1 DEF Saved
  <2>5. SavedOnce'
    BY <1>1, <1>2, <1>3, <2>1 DEF SavedOnce, Apart
  <2> QED BY <2>2, <2>3, <2>4, <2>5 DEF IInv, SessionInv
<1>4. CASE /\ session = state.pending.before \o AppendItems
           /\ pc' = "compacting" /\ state' = Committed(state)
  <2>1. AppendItems \in Seq(Items) /\ ToSet(AppendItems) = Unsaved
    BY <1>1, <1>2, UnsavedItems
  <2>2. state.pending.before \in Seq(Items)
    BY <1>1, StateFields
  <2>3. Unsaved \subseteq ToSet(session)
    BY <1>4, <2>1, <2>2, ConcatIsUnion
  <2>4. /\ session' = session /\ session' \in Seq(Items)
        /\ StoredTwice' = StoredTwice
        /\ ToSet(session) \subseteq ToSet(session) \cup (Made \ Requests(CallNumbers))
    BY <1>1, <1>2 DEF TypeOK, StoredTwice, Held
  <2> QED BY <1>1, <1>2, <1>4, <2>3, <2>4, CommittedStep DEF SavedOnce, Apart
<1>5. CASE pc' = "threw" /\ state' = state
  <2>1. Phase' = Phase /\ Generated' = Generated
    BY <1>5, SameState
  <2>2. TypeOK' /\ Recorded'
    BY <1>1, <1>2, <1>5, <2>1 DEF TypeOK, Recorded
  <2> QED BY <1>2, <1>5, <2>2, OnlyMoves
<1> QED BY <1>3, <1>4, <1>5 DEF ReconcilePendingWrite

LEMMA PartStores ==
  ASSUME session \in Seq(Items), NEW items \in Seq(Items), IsInjective(items),
         NEW n \in 0 .. Len(items),
         session' = session \o SubSeq(items, 1, n)
  PROVE  /\ Stores(ToSet(SubSeq(items, 1, n)))
         /\ ToSet(SubSeq(items, 1, n)) \subseteq ToSet(items)
<1> DEFINE zero == 0
           part == SubSeq(items, zero + 1, n)
<1>1. zero \in Nat /\ n \in Nat /\ n <= Len(items) /\ zero + 1 = 1
  OBVIOUS
<1>5. part = SubSeq(items, 1, n)
  BY <1>1
<1>4. session' = session \o part
  BY <1>5
<1> HIDE DEF zero
<1>2. /\ part \in Seq(Items) /\ IsInjective(part)
      /\ ToSet(part) = {items[i] : i \in zero + 1 .. n}
  <2> DEFINE T == Items
             list == items
  <2>1. list \in Seq(T) /\ IsInjective(list) /\ n <= Len(list)
    BY <1>1
  <2> HIDE DEF T, list
  <2>2. /\ SubSeq(list, zero + 1, n) \in Seq(T)
        /\ IsInjective(SubSeq(list, zero + 1, n))
        /\ ToSet(SubSeq(list, zero + 1, n)) = {list[i] : i \in zero + 1 .. n}
    <3>1. zero \in Nat /\ n \in Nat
      BY <1>1
    <3>2. \A a \in Nat, b \in Nat : b <= Len(list) =>
            /\ SubSeq(list, a + 1, b) \in Seq(T)
            /\ ToSet(SubSeq(list, a + 1, b)) = {list[i] : i \in a + 1 .. b}
            /\ IsInjective(list) => IsInjective(SubSeq(list, a + 1, b))
      BY <2>1, PartOfList
    <3> QED BY <2>1, <3>1, <3>2
  <2> QED BY <2>2 DEF T, list
<1>3. ToSet(part) \subseteq ToSet(items)
  <2>1. \A i \in zero + 1 .. n : i \in DOMAIN items
    BY <1>1
  <2> QED BY <1>2, <2>1 DEF ToSet
<1> HIDE DEF part
<1> QED BY <1>2, <1>3, <1>4, <1>5, AppendStores

LEMMA AppendStep ==
  ASSUME IInv, AppendPreparedWrite
  PROVE  IInv'
<1>1. TypeOK /\ Recorded /\ Numbered /\ Answered /\ Saved /\ SavedOnce
  BY InvariantParts
<1>2. /\ pc = "appending" /\ Phase = "append_ready"
      /\ UNCHANGED <<prepared, decisions, history>> /\ session \in Seq(Items)
  BY <1>1 DEF AppendPreparedWrite, Recorded, TypeOK
<1>3. /\ AppendItems \in Seq(Items) /\ ToSet(AppendItems) = Unsaved
      /\ IsInjective(AppendItems)
      /\ Unsaved \subseteq Made \ Requests(CallNumbers)
  <2>1. Unsaved \subseteq Made \ Requests(CallNumbers)
    BY <1>1, HistoryParts DEF Unsaved
  <2> QED BY <1>1, <1>2, <2>1, UnsavedItems
<1>4. CASE /\ session' = session \o AppendItems
           /\ state' = Committed(state) /\ pc' = "compacting"
  <2>1. Stores(Unsaved)
    BY <1>2, <1>3, <1>4, AppendStores
  <2>2. history.miscounted \/ StoredTwice' \subseteq history.unknown
    BY <1>1, <1>2, <2>1 DEF Stores, SavedOnce, Apart
  <2> QED BY <1>2, <1>3, <1>4, <2>1, <2>2, CommittedStep DEF Stores
<1>5. CASE /\ \E n \in 0 .. Len(AppendItems) :
                session' = session \o SubSeq(AppendItems, 1, n)
           /\ pc' = "threw" /\ state' = state
  <2>1. PICK S \in SUBSET Unsaved : Stores(S)
    BY <1>2, <1>3, <1>5, PartStores
  <2>2. /\ Made' = Made /\ Counted' = Counted /\ Unsaved' = Unsaved
        /\ Generated' = Generated /\ Phase' = Phase
        /\ ToSet(session') \subseteq ToSet(session) \cup (Made \ Requests(CallNumbers))
        /\ ToSet(session) \subseteq ToSet(session')
        /\ session' \in Seq(Items)
        /\ StoredTwice' \subseteq StoredTwice \cup (ToSet(session) \cap Unsaved)
    BY <1>3, <1>5, <2>1, SameState DEF Stores
  <2>3. TypeOK' /\ Recorded'
    BY <1>1, <1>2, <1>5, <2>2 DEF TypeOK, Recorded
  <2>4. Numbered' /\ Answered'
    BY <1>1, <1>2, <1>5, <2>2, QuietStep
  <2>5. Saved'
    <3>1. (Counted \ Requests(CallNumbers))' = Counted \ Requests(CallNumbers)
      BY <2>2 DEF Requests, CallNumbers, Item
    <3> QED BY <1>1, <1>2, <1>5, <2>2, <3>1 DEF Saved
  <2>6. SavedOnce'
    BY <1>1, <1>2, <1>5, <2>2 DEF SavedOnce, Apart
  <2> QED BY <2>3, <2>4, <2>5, <2>6 DEF IInv, SessionInv
<1> QED BY <1>4, <1>5 DEF AppendPreparedWrite

LEMMA CompleteCompactionStep ==
  ASSUME IInv, CompleteCompaction
  PROVE  IInv'
<1>1. TypeOK /\ Recorded /\ Numbered /\ Answered /\ Saved /\ SavedOnce
  BY InvariantParts
<1>2. /\ pc = "compacting" /\ pc' \in {"returned", "loop", "threw"}
      /\ prepared' = FALSE
      /\ Phase = "compaction_pending" /\ state.persisted = Generated
      /\ UNCHANGED <<session, decisions, history>>
      /\ state' = [state EXCEPT !.pending = NoWrite]
  BY <1>1 DEF CompleteCompaction, Recorded
<1>3. /\ state' \in States
      /\ state'.generated = state.generated /\ state'.persisted = state.persisted
      /\ state'.step = state.step /\ Phase' = "none"
  <2>1. NoWrite \in Writes /\ NoWrite.phase = "none"
    BY DEF NoWrite, Writes
  <2> HIDE DEF NoWrite
  <2> QED BY <1>1, <1>2, <2>1 DEF TypeOK, States, Phase
<1>4. /\ Made' = Made /\ Counted' = Counted /\ Unsaved' = Unsaved
      /\ Generated' = Generated /\ StoredTwice' = StoredTwice
      /\ ToSet(session) \subseteq ToSet(session) \cup (Made \ Requests(CallNumbers))
  BY <1>2, <1>3, SameHistory DEF StoredTwice, Held
<1>5. TypeOK'
  BY <1>1, <1>2, <1>3 DEF TypeOK
<1>6. Recorded'
  BY <1>1, <1>2, <1>3, <1>4 DEF Recorded
<1>7. Numbered' /\ Answered'
  BY <1>1, <1>2, <1>3, <1>4, QuietStep
<1>8. Saved'
  BY <1>1, <1>2, <1>3, <1>4 DEF Saved
<1>9. SavedOnce'
  BY <1>1, <1>2, <1>3, <1>4 DEF SavedOnce, Apart
<1> QED BY <1>5, <1>6, <1>7, <1>8, <1>9 DEF IInv, SessionInv

------------------------------------------------------------------------------
(* The save at the end of a run, the others, and the application.           *)

LEMMA SaveStep ==
  ASSUME IInv, Save
  PROVE  IInv'
<1>1. TypeOK /\ Recorded /\ Numbered /\ Answered /\ Saved /\ SavedOnce
  BY InvariantParts
<1>2. /\ pc = "saving" /\ Phase = "none"
      /\ UNCHANGED <<prepared, decisions>> /\ session \in Seq(Items)
      /\ Made = Counted \cup Uncounted /\ Generated \in Nat
      /\ Unsaved \subseteq Made \ Requests(CallNumbers) /\ Unsaved \subseteq Items
  <2>1. Unsaved \subseteq Items
    BY <1>1, HistoryParts, RunItemsAreItems DEF Unsaved
  <2> QED BY <1>1, <2>1, HistoryParts DEF Save, Recorded, TypeOK, Unsaved
<1> DEFINE items == Slice(state.persisted, Generated)
<1>3. items \in Seq(Items) /\ ToSet(items) = Unsaved /\ IsInjective(items)
  BY <1>1, UnsavedItems
<1>4. \/ /\ session' = session \o items
         /\ state' = [state EXCEPT !.persisted = Generated]
         /\ pc' \in {"returned", "threw"} /\ history' = history
      \/ /\ \E n \in 0 .. Len(items) :
              /\ session' = session \o SubSeq(items, 1, n)
              /\ history' = [history EXCEPT
                               !.unknown = @ \cup ToSet(SubSeq(items, 1, n))]
         /\ pc' = "threw" /\ state' = state
  BY DEF Save
<1> HIDE DEF items
<1>5. CASE /\ session' = session \o items
           /\ state' = [state EXCEPT !.persisted = Generated]
           /\ pc' \in {"returned", "threw"} /\ history' = history
  <2>1. Stores(Unsaved)
    BY <1>2, <1>3, <1>5, AppendStores
  <2>2. /\ state' \in States
        /\ state'.generated = state.generated /\ state'.persisted = Generated
        /\ state'.step = state.step /\ Phase' = "none"
    BY <1>1, <1>2, <1>5 DEF TypeOK, States, Phase
  <2>3. /\ Made' = Made /\ Generated' = Generated
        /\ ToSet(session') \subseteq ToSet(session) \cup (Made \ Requests(CallNumbers))
        /\ ToSet(session) \subseteq ToSet(session')
        /\ Unsaved \subseteq ToSet(session')
    BY <1>2, <2>1, <2>2, SameHistory DEF Stores
  <2>4. Counted' = Made /\ Unsaved' = {}
    <3>1. DOMAIN state.generated = 1 .. Generated
      BY <1>1, StateFields DEF Generated
    <3>2. Generated + 1 .. Generated = {}
      BY <1>2
    <3>3. Uncounted' = {}
      BY <2>2, <2>3, <3>2 DEF Uncounted
    <3> QED BY <2>2, <3>1, <3>3 DEF Counted, Made, ToSet, Unsaved
  <2>5. TypeOK'
    BY <1>1, <1>2, <1>5, <2>1, <2>2 DEF TypeOK, Stores
  <2>6. Recorded'
    BY <1>1, <1>2, <1>5, <2>2, <2>3 DEF Recorded
  <2>7. Numbered' /\ Answered'
    BY <1>1, <1>2, <1>5, <2>2, <2>3, QuietStep
  <2>8. Saved'
    <3>1. Requests(CallNumbers)' = Requests(CallNumbers)
      BY DEF Requests, CallNumbers, Item
    <3>2. Made \ Requests(CallNumbers) \subseteq ToSet(session')
      BY <1>1, <1>2, <2>3 DEF Saved, Unsaved
    <3>3. \A n \in CallNumbers :
            decisions[n] = "approved" /\ Item("result", n) \in Made =>
              Item("result", n) \in ToSet(session')
      BY <3>2, ItemsDiffer DEF Requests
    <3> QED BY <1>2, <2>3, <2>4, <3>1, <3>2, <3>3 DEF Saved
  <2>9. SavedOnce'
    BY <1>1, <1>2, <1>5, <2>1, <2>2, <2>4 DEF SavedOnce, Apart, Stores
  <2> QED BY <2>5, <2>6, <2>7, <2>8, <2>9 DEF IInv, SessionInv
<1>6. CASE /\ \E n \in 0 .. Len(items) :
                /\ session' = session \o SubSeq(items, 1, n)
                /\ history' = [history EXCEPT
                                 !.unknown = @ \cup ToSet(SubSeq(items, 1, n))]
           /\ pc' = "threw" /\ state' = state
  <2>1. PICK n \in 0 .. Len(items) :
          /\ session' = session \o SubSeq(items, 1, n)
          /\ history' = [history EXCEPT
                           !.unknown = @ \cup ToSet(SubSeq(items, 1, n))]
    BY <1>6
  <2> DEFINE S == ToSet(SubSeq(items, 1, n))
             unknown == history.unknown \cup S
  <2>2. Stores(S) /\ S \subseteq Unsaved
    BY <1>2, <1>3, <2>1, PartStores
  <2>3. history' = [history EXCEPT !.unknown = unknown] /\ history \in Histories
    BY <1>1, <2>1 DEF TypeOK
  <2>4. unknown \in SUBSET Items
    BY <1>1, <1>2, <2>2, StateFields
  <2> HIDE DEF unknown
  <2>5. /\ history' \in Histories
        /\ history'.unknown = unknown /\ history'.miscounted = history.miscounted
        /\ history'.ran = history.ran /\ history'.repeatable = history.repeatable
        /\ history'.responses = history.responses
        /\ history'.others = history.others
        /\ history'.deferred = history.deferred
    BY <2>3, <2>4 DEF Histories
  <2>6. /\ Made' = Made /\ Counted' = Counted /\ Unsaved' = Unsaved
        /\ Generated' = Generated /\ Phase' = Phase
        /\ ToSet(session') \subseteq ToSet(session) \cup (Made \ Requests(CallNumbers))
        /\ ToSet(session) \subseteq ToSet(session')
        /\ session' \in Seq(Items)
        /\ ToSet(session') = ToSet(session) \cup S
        /\ StoredTwice' \subseteq StoredTwice \cup (ToSet(session) \cap Unsaved)
    BY <1>2, <1>6, <2>2, SameState DEF Stores
  <2>7. TypeOK' /\ Recorded'
    BY <1>1, <1>2, <1>6, <2>5, <2>6 DEF TypeOK, Recorded
  <2>8. Numbered' /\ Answered'
    BY <1>1, <1>2, <1>6, <2>5, <2>6, QuietStep
  <2>9. Saved'
    <3>1. Requests(CallNumbers)' = Requests(CallNumbers)
      BY DEF Requests, CallNumbers, Item
    <3> QED BY <1>1, <1>2, <1>6, <2>6, <3>1 DEF Saved
  <2>10. SavedOnce'
    <3>1. SUFFICES ASSUME ~history.miscounted PROVE Apart'
      BY <2>5 DEF SavedOnce
    <3>2. /\ StoredTwice \subseteq history.unknown
          /\ ToSet(session) \cap Unsaved \subseteq history.unknown
      BY <1>1, <1>2, <3>1 DEF SavedOnce, Apart
    <3>3. unknown = history.unknown \cup S
      BY DEF unknown
    <3>4. /\ StoredTwice' \subseteq unknown
          /\ ToSet(session') \cap Unsaved \subseteq unknown
      BY <2>6, <3>2, <3>3
    <3> QED BY <1>2, <2>5, <2>6, <3>4 DEF Apart
  <2> QED BY <2>7, <2>8, <2>9, <2>10 DEF IInv, SessionInv
<1> QED BY <1>4, <1>5, <1>6

LEMMA ReturnUnsavedStep ==
  ASSUME IInv, ReturnUnsaved
  PROVE  IInv'
<1>1. TypeOK /\ Recorded
  BY InvariantParts
<1>2. /\ pc' = "returned" /\ pc = "saving" /\ Deferred(state)
      /\ UNCHANGED <<session, state, prepared, decisions, history>>
      /\ Phase' = Phase /\ Generated' = Generated
  BY DEF ReturnUnsaved, Phase, Generated
<1>3. TypeOK' /\ Recorded'
  BY <1>1, <1>2 DEF TypeOK, Recorded, Deferred, Outputs
<1> QED BY <1>2, <1>3, OnlyMoves

LEMMA OthersAppendStep ==
  ASSUME IInv, OthersAppend
  PROVE  IInv'
<1>1. TypeOK /\ Recorded /\ Numbered /\ Answered /\ Saved /\ SavedOnce
  BY InvariantParts
<1> DEFINE h == history.others
           g == history.others + 1
           new == Item("other", g)
<1>2. /\ session \in Seq(Items) /\ h \in Nat /\ g \in Nat /\ g = h + 1
      /\ session' = Append(session, new) /\ UNCHANGED <<state, pc, prepared, decisions>>
      /\ history \in Histories
      /\ history' = [history EXCEPT !.others = g]
  BY <1>1, StateFields DEF OthersAppend, TypeOK
<1>3. /\ new \in Items \ RunItems /\ new # Item("input", 1)
      /\ new \notin {Item("other", n) : n \in 1 .. h}
  <2>1. \A n \in 1 .. h : n # g
    BY <1>2
  <2> HIDE DEF g, h
  <2> QED BY <1>2, <2>1, RunItemsAreItems, ItemsDiffer
<1> HIDE DEF g
<1>4. /\ history' \in Histories /\ history'.others = g
      /\ history'.unknown = history.unknown
      /\ history'.miscounted = history.miscounted
      /\ history'.ran = history.ran /\ history'.repeatable = history.repeatable
      /\ history'.responses = history.responses
  BY <1>2 DEF Histories
<1> HIDE DEF new
<1>5. /\ Made \subseteq RunItems /\ Unsaved \subseteq RunItems
  BY <1>1, HistoryParts DEF Unsaved
<1>6. new \notin ToSet(session)
  BY <1>1, <1>3, <1>5 DEF Numbered, h
<1>7. Stores({new})
  <2>1. /\ <<new>> \in Seq(Items) /\ IsInjective(<<new>>) /\ ToSet(<<new>>) = {new}
        /\ session' = session \o <<new>>
    BY <1>2, <1>3 DEF IsInjective, ToSet
  <2> QED BY <1>2, <2>1, AppendStores
<1>8. /\ Made' = Made /\ Counted' = Counted /\ Unsaved' = Unsaved
      /\ Generated' = Generated /\ Phase' = Phase
      /\ ToSet(session') = ToSet(session) \cup {new}
      /\ session' \in Seq(Items)
      /\ StoredTwice' \subseteq StoredTwice
  BY <1>2, <1>6, <1>7, SameState DEF Stores
<1>9. TypeOK' /\ Recorded'
  BY <1>1, <1>2, <1>4, <1>8 DEF TypeOK, Recorded
<1>10. Numbered'
  <2>1. new \in {Item("other", n) : n \in 1 .. g}
    BY <1>2 DEF new
  <2>2. {Item("other", n) : n \in 1 .. h} \subseteq {Item("other", n) : n \in 1 .. g}
    <3>1. \A n \in 1 .. h : n \in 1 .. g
      BY <1>2
    <3> QED BY <3>1
  <2>3. ToSet(session') \subseteq (Made \ Requests(CallNumbers))
                                 \cup {Item("input", 1)}
                                 \cup {Item("other", n) : n \in 1 .. g}
    BY <1>1, <1>8, <2>1, <2>2 DEF Numbered, h
  <2>4. \A n : Item("other", n)' = Item("other", n)
    BY DEF Item
  <2>5. /\ IsInjective(state.generated)'
        /\ (\A kind \in {"call", "approval", "result"}, n \in Nat :
              Item(kind, n) \in Made => n \in CallNumbers /\ decisions[n] # "none")'
        /\ (\A kind \in {"message", "tool", "output"}, n \in Nat :
              Item(kind, n) \in Made => n <= history.responses)'
        /\ (\E last \in 0 .. MaxCalls :
              \A n \in CallNumbers : decisions[n] # "none" <=> n <= last)'
    BY <1>1, <1>2, <1>4, <1>8 DEF Numbered
  <2>6. (ToSet(session) \subseteq (Made \ Requests(CallNumbers)) \cup {Item("input", 1)}
           \cup {Item("other", n) : n \in 1 .. history.others})'
    <3>1. Requests(CallNumbers)' = Requests(CallNumbers)
      BY DEF Requests, CallNumbers, Item
    <3> QED BY <1>4, <1>8, <2>3, <2>4, <3>1
  <2> QED BY <2>5, <2>6 DEF Numbered
<1>11. Answered'
  BY <1>1, <1>2, <1>4, <1>8 DEF Answered
<1>12. Saved'
  <2>1. Requests(CallNumbers)' = Requests(CallNumbers)
    BY DEF Requests, CallNumbers, Item
  <2> QED BY <1>1, <1>2, <1>8, <2>1 DEF Saved
<1>13. SavedOnce'
  <2>1. new \notin Unsaved
    BY <1>3, <1>5
  <2> QED BY <1>1, <1>2, <1>4, <1>8, <2>1 DEF SavedOnce, Apart
<1> QED BY <1>9, <1>10, <1>11, <1>12, <1>13 DEF IInv, SessionInv

LEMMA DecideStep ==
  ASSUME IInv, Decide
  PROVE  IInv'
<1>1. TypeOK /\ Recorded /\ Numbered /\ Answered /\ Saved /\ SavedOnce
  BY InvariantParts
<1>2. PICK i \in Approvals, decision \in {"approved", "rejected"} :
        /\ decisions[state.generated[i].n] = "pending"
        /\ decisions' = [decisions EXCEPT ![state.generated[i].n] = decision]
  BY DEF Decide
<1> DEFINE c == state.generated[i].n
<1>3. /\ state.generated[i] = Item("approval", c) /\ c \in CallNumbers
      /\ Item("approval", c) \in Made
  <2>1. /\ i \in DOMAIN state.generated /\ state.generated[i] \in RunItems
        /\ state.generated[i].kind = "approval"
    BY <1>1, StateFields DEF Approvals, Generated
  <2>2. PICK kind \in RunKinds, n \in Nat : state.generated[i] = Item(kind, n)
    BY <2>1 DEF RunItems
  <2>3. /\ state.generated[i] = Item("approval", c) /\ n = c
    BY <2>1, <2>2 DEF Item
  <2>4. Item("approval", c) \in Made
    BY <2>1, <2>3 DEF Made, ToSet
  <2> QED BY <1>1, <2>2, <2>3, <2>4 DEF Numbered
<1> HIDE DEF c
<1>4. /\ decisions[c] = "pending" /\ decisions' = [decisions EXCEPT ![c] = decision]
      /\ UNCHANGED <<session, state, pc, prepared, history>>
  BY <1>2 DEF Decide, c
<1>5. /\ Made' = Made /\ Counted' = Counted /\ Unsaved' = Unsaved
      /\ Generated' = Generated /\ Phase' = Phase
      /\ StoredTwice' = StoredTwice
  BY <1>4, SameState DEF StoredTwice, Held
<1>6. /\ decisions' \in [CallNumbers -> {"none", "pending", "approved", "rejected"}]
      /\ \A n \in CallNumbers : decisions[n] # "none" <=> decisions'[n] # "none"
      /\ decisions'[c] \in {"approved", "rejected"}
      /\ \A n \in CallNumbers : n # c => decisions'[n] = decisions[n]
  BY <1>1, <1>3, <1>4 DEF TypeOK
<1>7. TypeOK' /\ Recorded'
  BY <1>1, <1>4, <1>5, <1>6 DEF TypeOK, Recorded
<1>8. Numbered'
  BY <1>1, <1>4, <1>5, <1>6 DEF Numbered
<1>9. Answered'
  <2>1. \A n \in CallNumbers :
          /\ decisions'[n] = "pending" =>
               Item("approval", n) \in Made /\ Item("result", n) \notin Made
          /\ decisions'[n] \in {"approved", "rejected"} =>
               (Item("approval", n) \in Made) # (Item("result", n) \in Made)
          /\ history.ran[n] > 0 => decisions'[n] = "approved"
    <3> SUFFICES ASSUME NEW n \in CallNumbers
                 PROVE  /\ decisions'[n] = "pending" =>
                             Item("approval", n) \in Made /\ Item("result", n) \notin Made
                        /\ decisions'[n] \in {"approved", "rejected"} =>
                             (Item("approval", n) \in Made) # (Item("result", n) \in Made)
                        /\ history.ran[n] > 0 => decisions'[n] = "approved"
      OBVIOUS
    <3>1. CASE n = c
      BY <1>1, <1>3, <1>4, <1>6, <3>1 DEF Answered
    <3>2. CASE n # c
      BY <1>1, <1>6, <3>2 DEF Answered
    <3> QED BY <3>1, <3>2
  <2> QED BY <1>1, <1>4, <1>5, <2>1 DEF Answered
<1>10. Saved'
  <2>1. Requests(CallNumbers)' = Requests(CallNumbers)
    BY DEF Requests, CallNumbers, Item
  <2>2. Item("result", c) \notin Made
    BY <1>1, <1>3, <1>4 DEF Answered
  <2>3. \A n \in CallNumbers :
          decisions'[n] = "approved" /\ Item("result", n) \in Made =>
            decisions[n] = "approved"
    BY <1>6, <2>2
  <2> QED BY <1>1, <1>4, <1>5, <2>1, <2>3 DEF Saved
<1>11. SavedOnce'
  BY <1>1, <1>4, <1>5 DEF SavedOnce, Apart
<1> QED BY <1>7, <1>8, <1>9, <1>10, <1>11 DEF IInv, SessionInv

------------------------------------------------------------------------------
(* A resumed turn: its approval requests are replaced by results.           *)

(* The calls whose request is replaced.                                     *)
Answerable == {n \in CallNumbers :
                 decisions[n] # "pending" /\ Item("approval", n) \in Made}

Answers == {Item("result", n) : n \in Answerable}

LEMMA ApprovalItems ==
  ASSUME TypeOK, Numbered
  PROVE  /\ \A i \in Approvals :
              /\ i \in 1 .. Generated
              /\ state.generated[i].n \in CallNumbers
              /\ state.generated[i] = Item("approval", state.generated[i].n)
              /\ Item("approval", state.generated[i].n) \in Made
         /\ \A n \in CallNumbers : Item("approval", n) \in Made =>
              \E i \in Approvals :
                state.generated[i] = Item("approval", n) /\ state.generated[i].n = n
         /\ Execute \subseteq {n \in Answerable : decisions[n] = "approved"}
         /\ {n \in Answerable : decisions[n] = "approved"} \subseteq Execute
         /\ Made \cap ToRemove = {Item("approval", n) : n \in Answerable}
<1>1. /\ state.generated \in Seq(RunItems)
      /\ DOMAIN state.generated = 1 .. Generated
      /\ DOMAIN decisions = CallNumbers
  BY StateFields DEF Generated, TypeOK
<1>2. ASSUME NEW i \in Approvals
      PROVE  /\ i \in 1 .. Generated
             /\ state.generated[i].n \in CallNumbers
             /\ state.generated[i] = Item("approval", state.generated[i].n)
             /\ Item("approval", state.generated[i].n) \in Made
  <2>1. /\ i \in DOMAIN state.generated /\ state.generated[i] \in RunItems
        /\ state.generated[i].kind = "approval"
    <3>1. i \in 1 .. Generated /\ state.generated[i].kind = "approval"
      BY DEF Approvals
    <3>2. \A j \in 1 .. Generated : state.generated[j] \in RunItems
      BY <1>1 DEF Generated
    <3> QED BY <1>1, <3>1, <3>2
  <2>2. PICK kind \in RunKinds, n \in Nat : state.generated[i] = Item(kind, n)
    BY <2>1 DEF RunItems
  <2>3. state.generated[i] = Item("approval", n) /\ n = state.generated[i].n
    BY <2>1, <2>2 DEF Item
  <2>4. Item("approval", n) \in Made
    BY <2>1, <2>3 DEF Made, ToSet
  <2>5. n \in CallNumbers
    BY <2>2, <2>4 DEF Numbered
  <2> QED BY <1>1, <2>1, <2>3, <2>4, <2>5
<1>3. ASSUME NEW n \in CallNumbers, Item("approval", n) \in Made
      PROVE  \E i \in Approvals :
               state.generated[i] = Item("approval", n) /\ state.generated[i].n = n
  <2>1. PICK i \in 1 .. Generated : state.generated[i] = Item("approval", n)
    BY <1>1, <1>3 DEF Made, ToSet
  <2>2. state.generated[i].kind = "approval" /\ state.generated[i].n = n
    BY <2>1 DEF Item
  <2> QED BY <2>1, <2>2 DEF Approvals
<1>4. Execute \subseteq {n \in Answerable : decisions[n] = "approved"}
  BY <1>2 DEF Execute, Decided, Answerable
<1>5. ASSUME NEW n \in Answerable, decisions[n] = "approved"
      PROVE  n \in Execute
  <2>1. PICK i \in Approvals : state.generated[i].n = n
    BY <1>3 DEF Answerable
  <2> QED BY <1>5, <2>1 DEF Execute, Decided
<1>6. Made \cap ToRemove = {Item("approval", n) : n \in Answerable}
  BY <1>1 DEF ToRemove, Requests, Answerable
<1> QED BY <1>2, <1>3, <1>4, <1>5, <1>6

LEMMA ResultsOf ==
  ASSUME TypeOK, Numbered
  PROVE  /\ Results \in Seq(RunItems) /\ Len(Results) = Removed
         /\ ToSet(Results) = Answers /\ IsInjective(Results)
<1> DEFINE removed == Only(state.generated, ToRemove)
<1>1. /\ removed \in Seq(RunItems) /\ IsInjective(removed)
      /\ ToSet(removed) = {Item("approval", n) : n \in Answerable}
  <2>1. state.generated \in Seq(RunItems) /\ IsInjective(state.generated)
    BY StateFields DEF Numbered
  <2> QED BY <2>1, OnlyIsFilter, ApprovalItems DEF Made
<1>2. Results = [i \in DOMAIN removed |-> Item("result", removed[i].n)]
      /\ Removed = Len(removed)
  BY DEF Results, Removed
<1> HIDE DEF removed
<1>3. DOMAIN removed = 1 .. Len(removed) /\ Len(removed) \in Nat
  BY <1>1
<1>4. \A i \in DOMAIN removed :
        /\ removed[i].n \in Answerable
        /\ removed[i] = Item("approval", removed[i].n)
  BY <1>1 DEF ToSet, Item
<1>5. \A n \in Answerable : \E i \in DOMAIN removed : removed[i].n = n
  <2> SUFFICES ASSUME NEW n \in Answerable
               PROVE  \E i \in DOMAIN removed : removed[i].n = n
    OBVIOUS
  <2>1. PICK i \in DOMAIN removed : removed[i] = Item("approval", n)
    BY <1>1 DEF ToSet
  <2> QED BY <2>1 DEF Item
<1>6. \A n \in Answerable : Item("result", n) \in RunItems
  BY DEF Answerable, RunItems, RunKinds, CallNumbers
<1>7. Results \in Seq(RunItems) /\ Len(Results) = Removed
      /\ DOMAIN Results = DOMAIN removed
      /\ \A i \in DOMAIN removed : Results[i] = Item("result", removed[i].n)
  <2>1. \A i \in 1 .. Len(removed) : Item("result", removed[i].n) \in RunItems
    BY <1>3, <1>4, <1>6
  <2> QED BY <1>2, <1>3, <2>1
<1>8. ToSet(Results) = Answers
  BY <1>4, <1>5, <1>7 DEF ToSet, Answers
<1>9. IsInjective(Results)
  <2> SUFFICES ASSUME NEW i \in DOMAIN removed, NEW j \in DOMAIN removed,
                      Results[i] = Results[j]
               PROVE  i = j
    BY <1>7 DEF IsInjective
  <2>1. removed[i].n = removed[j].n
    BY <1>7, ItemsDiffer
  <2>2. removed[i] = removed[j]
    BY <1>4, <2>1
  <2> QED BY <1>1, <2>2 DEF IsInjective
<1> QED BY <1>7, <1>8, <1>9

LEMMA ResolvedOutcome ==
  ASSUME IInv, NEW next \in {"interruption", "run_again", "final"},
         NEW s, s = Resolved(next)
  PROVE  /\ s \in States /\ s.step = next /\ s.pending = state.pending
         /\ Len(s.generated) = Generated /\ s.persisted <= Generated
         /\ IsInjective(s.generated)
         /\ ToSet(s.generated) = (Made \ ToRemove) \cup Answers
         /\ {s.generated[i] : i \in 1 .. s.persisted} \subseteq Counted
         /\ ~Miscounts =>
              {s.generated[i] : i \in s.persisted + 1 .. Generated}
                \subseteq Uncounted \cup Answers
<1>1. TypeOK /\ Recorded /\ Numbered /\ Answered
  BY InvariantParts
<1> DEFINE gen  == state.generated
           kept == Without(state.generated, ToRemove)
           r    == Removed
           p    == state.persisted
           q    == Rewound
           m    == Generated
<1>2. /\ gen \in Seq(RunItems) /\ IsInjective(gen) /\ m \in Nat /\ p \in 0 .. m
      /\ m = Len(gen) /\ DOMAIN gen = 1 .. m /\ DOMAIN decisions = CallNumbers
  BY <1>1, StateFields, HistoryParts DEF Recorded, Numbered, Generated, TypeOK
<1>3. /\ s = [state EXCEPT !.generated = kept \o Results, !.persisted = q,
                           !.step = next]
      /\ state \in States
      /\ q = IF r > p THEN 0 ELSE p - r
  BY <1>1 DEF Resolved, Rewound, TypeOK
<1>4. /\ Len(kept) + r = m
      /\ \A k \in 1 .. Len(kept) :
           k + r <= p => \E i \in 1 .. p : kept[k] = gen[i]
      /\ (\A i \in p + 1 .. m : gen[i] \notin ToRemove) =>
           /\ r <= p
           /\ \A k \in 1 .. Len(kept) :
                k + r > p => \E i \in p + 1 .. m : kept[k] = gen[i]
  <2> DEFINE list == state.generated
             set  == ToRemove
             x    == state.persisted
  <2>3. list \in Seq(RunItems) /\ x \in 0 .. Len(list)
    BY <1>2
  <2> HIDE DEF list, set, x
  <2>1. /\ Len(Without(list, set)) + Len(Only(list, set)) = Len(list)
        /\ \A k \in 1 .. Len(Without(list, set)) :
             k + Len(Only(list, set)) <= x =>
               \E i \in 1 .. x : Without(list, set)[k] = list[i]
        /\ (\A i \in x + 1 .. Len(list) : list[i] \notin set) =>
             /\ Len(Only(list, set)) <= x
             /\ \A k \in 1 .. Len(Without(list, set)) :
                  k + Len(Only(list, set)) > x =>
                    \E i \in x + 1 .. Len(list) : Without(list, set)[k] = list[i]
    BY <2>3, FilterPositions
  <2>2. r = Len(Only(gen, ToRemove)) /\ m = Len(gen)
    BY <1>2 DEF Removed
  <2> QED BY <1>2, <2>1, <2>2 DEF list, set, x
<1>5. /\ kept \in Seq(RunItems) /\ IsInjective(kept)
      /\ ToSet(kept) = Made \ ToRemove
  BY <1>2, WithoutIsFilter DEF Made
<1>6. /\ Results \in Seq(RunItems) /\ Len(Results) = r
      /\ ToSet(Results) = Answers /\ IsInjective(Results)
  BY <1>1, ResultsOf
<1> DEFINE l == Len(kept)
<1>7. l \in Nat /\ r \in Nat /\ l + r = m
  BY <1>4, <1>5, <1>6
<1>8. Made \cap Answers = {}
  <2>1. ASSUME NEW n \in Answerable PROVE Item("result", n) \notin Made
    <3>1. n \in CallNumbers /\ decisions[n] # "pending" /\ Item("approval", n) \in Made
      BY DEF Answerable
    <3>2. decisions[n] \in {"approved", "rejected"}
      BY <1>1, <3>1 DEF Numbered, TypeOK, CallNumbers
    <3> QED BY <1>1, <3>1, <3>2 DEF Answered
  <2> QED BY <2>1 DEF Answers
<1> DEFINE new == kept \o Results
<1>9. /\ new \in Seq(RunItems) /\ IsInjective(new)
      /\ ToSet(new) = (Made \ ToRemove) \cup Answers
      /\ Len(new) = m
      /\ \A i \in 1 .. m : new[i] = IF i <= l THEN kept[i] ELSE Results[i - l]
  <2>1. ToSet(kept) \cap ToSet(Results) = {}
    BY <1>5, <1>6, <1>8
  <2>2. /\ new \in Seq(RunItems) /\ IsInjective(new)
        /\ ToSet(new) = (Made \ ToRemove) \cup Answers
    BY <1>5, <1>6, <2>1, ConcatIsUnion
  <2>3. /\ Len(new) = l + r
        /\ \A i \in 1 .. l + r : new[i] = IF i <= l THEN kept[i] ELSE Results[i - l]
    BY <1>5, <1>6
  <2> QED BY <1>7, <2>2, <2>3
<1>10. q \in Nat /\ q <= m /\ (\A i \in 1 .. q : i <= l /\ i + r <= p /\ i \in 1 .. m)
  <2> HIDE DEF l, r, p, q, m
  <2> QED BY <1>2, <1>3, <1>7
<1> HIDE DEF new, q, kept
<1>11. /\ s \in States /\ s.step = next /\ s.pending = state.pending
       /\ s.generated = new /\ s.persisted = q
  BY <1>3, <1>9, <1>10 DEF States, new
<1>12. {new[i] : i \in 1 .. q} \subseteq Counted
  <2> SUFFICES ASSUME NEW i \in 1 .. q PROVE new[i] \in Counted
    OBVIOUS
  <2>1. i \in 1 .. l /\ i + r <= p /\ new[i] = kept[i]
    BY <1>7, <1>9, <1>10
  <2>2. PICK j \in 1 .. p : kept[i] = gen[j]
    BY <1>4, <2>1
  <2> QED BY <2>1, <2>2 DEF Counted
<1>13. ASSUME ~Miscounts
       PROVE  {new[i] : i \in q + 1 .. m} \subseteq Uncounted \cup Answers
  <2>1. \A i \in p + 1 .. m : gen[i] \notin ToRemove
    <3> SUFFICES ASSUME NEW i \in p + 1 .. m, gen[i] \in ToRemove PROVE FALSE
      OBVIOUS
    <3>1. PICK n \in CallNumbers : gen[i] = Item("approval", n) /\ decisions[n] # "pending"
      BY <1>2 DEF ToRemove, Requests
    <3>2. gen[i].kind = "approval" /\ gen[i].n = n /\ i \in 1 .. Generated
      BY <1>2, <3>1 DEF Item
    <3>3. i \in Decided /\ i > state.persisted
      BY <1>2, <3>1, <3>2 DEF Decided, Approvals
    <3> QED BY <1>13, <3>3 DEF Miscounts
  <2>2. /\ r <= p /\ q = p - r
        /\ \A k \in 1 .. l : k + r > p => \E i \in p + 1 .. m : kept[k] = gen[i]
    <3>1. /\ r <= p
          /\ \A k \in 1 .. l : k + r > p => \E i \in p + 1 .. m : kept[k] = gen[i]
      BY <1>4, <2>1
    <3> QED BY <1>2, <1>3, <1>7, <3>1 DEF q
  <2> SUFFICES ASSUME NEW i \in q + 1 .. m PROVE new[i] \in Uncounted \cup Answers
    OBVIOUS
  <2>3. CASE i <= l
    <3>1. i \in 1 .. l /\ i + r > p /\ new[i] = kept[i]
      BY <1>2, <1>7, <1>9, <1>10, <2>2, <2>3
    <3>2. PICK j \in p + 1 .. m : kept[i] = gen[j]
      BY <2>2, <3>1
    <3> QED BY <3>1, <3>2 DEF Uncounted
  <2>4. CASE ~(i <= l)
    <3>1. i \in 1 .. m /\ new[i] = Results[i - l] /\ i - l \in 1 .. r
      BY <1>2, <1>7, <1>9, <1>10, <2>4
    <3>2. new[i] \in ToSet(Results)
      BY <1>6, <3>1 DEF ToSet
    <3> QED BY <1>6, <3>2
  <2> QED BY <2>3, <2>4
<1> QED BY <1>9, <1>10, <1>11, <1>12, <1>13

LEMMA RanOf ==
  ASSUME TypeOK, NEW tools
  PROVE  /\ Ran(tools) \in [CallNumbers -> Nat]
         /\ \A n \in CallNumbers :
              Ran(tools)[n] = IF n \in tools THEN history.ran[n] + 1 ELSE history.ran[n]
         /\ \A n \in CallNumbers : history.ran[n] \in Nat
BY StateFields DEF Ran

(* Tools ran, each for a call that was approved and has its request still;  *)
(* what ran without a result from it may be repeated.                       *)
LEMMA AnsweredTools ==
  ASSUME IInv, NEW tools \in SUBSET Execute
  PROVE  \A n \in CallNumbers :
           /\ Ran(tools)[n] > 0 => decisions[n] = "approved"
           /\ Ran(tools)[n] > 0 /\ Item("approval", n) \in Made /\ n \notin tools =>
                n \in history.repeatable
           /\ Ran(tools)[n] > 1 => n \in history.repeatable
<1>1. TypeOK /\ Numbered /\ Answered
  BY InvariantParts
<1>2. SUFFICES ASSUME NEW n \in CallNumbers
               PROVE  /\ Ran(tools)[n] > 0 => decisions[n] = "approved"
                      /\ Ran(tools)[n] > 0 /\ Item("approval", n) \in Made
                           /\ n \notin tools => n \in history.repeatable
                      /\ Ran(tools)[n] > 1 => n \in history.repeatable
  OBVIOUS
<1>3. /\ history.ran[n] > 0 => decisions[n] = "approved"
      /\ history.ran[n] > 0 /\ Item("approval", n) \in Made => n \in history.repeatable
      /\ history.ran[n] > 1 => n \in history.repeatable
      /\ history.ran[n] \in Nat
      /\ Ran(tools)[n] = IF n \in tools THEN history.ran[n] + 1 ELSE history.ran[n]
  BY <1>1, RanOf DEF Answered
<1>4. n \in tools => decisions[n] = "approved" /\ Item("approval", n) \in Made
  <2>1. Execute \subseteq {k \in Answerable : decisions[k] = "approved"}
    BY <1>1, ApprovalItems
  <2> QED BY <2>1 DEF Answerable
<1>5. CASE n \in tools
  BY <1>3, <1>4, <1>5
<1>6. CASE n \notin tools
  BY <1>3, <1>6
<1> QED BY <1>5, <1>6

LEMMA ResumeFailsStep ==
  ASSUME IInv, ResumeFails
  PROVE  IInv'
<1>1. TypeOK /\ Recorded /\ Numbered /\ Answered /\ Saved /\ SavedOnce
  BY InvariantParts
<1>2. PICK tools \in SUBSET Execute, persisted \in {state.persisted, Rewound} :
        /\ state' = [state EXCEPT !.persisted = persisted]
        /\ history' = [history EXCEPT
                         !.ran        = Ran(tools),
                         !.repeatable = @ \cup tools,
                         !.miscounted = @ \/ persisted # state.persisted]
  BY DEF ResumeFails
<1>3. /\ pc = "loop" /\ pc' = "threw" /\ Phase = "none"
      /\ state.step = "interruption"
      /\ UNCHANGED <<session, prepared, decisions>>
      /\ Execute \subseteq CallNumbers /\ state \in States /\ history \in Histories
  <2>1. Execute \subseteq CallNumbers
    BY <1>1, ApprovalItems DEF Answerable
  <2> QED BY <1>1, <2>1 DEF ResumeFails, Recorded, TypeOK
<1>4. persisted \in Nat /\ persisted <= state.persisted
  <2>1. state.persisted \in Nat /\ Removed \in Nat
    <3>1. Results \in Seq(RunItems) /\ Len(Results) = Removed
      BY <1>1, ResultsOf
    <3>2. Len(Results) \in Nat
      BY <3>1
    <3> QED BY <1>1, <3>1, <3>2, StateFields
  <2> QED BY <1>2, <2>1 DEF Rewound
<1>5. /\ state' \in States
      /\ state'.generated = state.generated /\ state'.persisted = persisted
      /\ state'.step = state.step /\ Phase' = "none"
  BY <1>2, <1>3, <1>4 DEF States, Phase
<1>6. /\ history' \in Histories
      /\ history'.others = history.others
      /\ history'.responses = history.responses
      /\ history'.unknown = history.unknown
      /\ history'.ran = Ran(tools)
      /\ history'.repeatable = history.repeatable \cup tools
      /\ history'.miscounted = (history.miscounted \/ persisted # state.persisted)
      /\ history'.deferred = history.deferred
  <2> DEFINE ran == Ran(tools)
             repeatable == history.repeatable \cup tools
             miscounted == history.miscounted \/ persisted # state.persisted
  <2>1. /\ ran \in [CallNumbers -> Nat] /\ repeatable \in SUBSET CallNumbers
        /\ miscounted \in BOOLEAN
    BY <1>1, <1>3, RanOf, StateFields
  <2>2. history' = [history EXCEPT !.ran = ran, !.repeatable = repeatable,
                                   !.miscounted = miscounted]
    BY <1>2
  <2> HIDE DEF ran, repeatable, miscounted
  <2>3. /\ history' \in Histories
        /\ history'.others = history.others
        /\ history'.responses = history.responses
        /\ history'.unknown = history.unknown
        /\ history'.ran = ran /\ history'.repeatable = repeatable
        /\ history'.miscounted = miscounted
        /\ history'.deferred = history.deferred
    BY <1>3, <2>1, <2>2 DEF Histories
  <2> QED BY <2>3 DEF ran, repeatable, miscounted
<1>7. /\ Made' = Made /\ Generated' = Generated /\ StoredTwice' = StoredTwice
      /\ Generated \in Nat /\ Counted' \subseteq Counted
      /\ persisted = state.persisted => Unsaved' = Unsaved
  <2>1. Generated \in Nat /\ state.persisted \in Nat
    BY <1>1, HistoryParts
  <2>2. \A i \in 1 .. persisted : i \in 1 .. state.persisted
    BY <1>4, <2>1
  <2>3. Counted' \subseteq Counted
    BY <1>5, <2>2 DEF Counted
  <2> QED BY <1>3, <1>5, <2>1, <2>3, SameHistory DEF StoredTwice, Held
<1>8. TypeOK'
  BY <1>1, <1>3, <1>5, <1>6 DEF TypeOK
<1>9. Recorded'
  <2>1. persisted <= Generated
    <3>1. state.persisted \in Nat /\ state.persisted <= Generated
      BY <1>1, HistoryParts DEF Recorded
    <3> QED BY <1>4, <1>7, <3>1
  <2> QED BY <1>3, <1>5, <1>7, <2>1 DEF Recorded
<1>10. Numbered'
  <2>1. Requests(CallNumbers)' = Requests(CallNumbers)
    BY DEF Requests, CallNumbers, Item
  <2> QED BY <1>1, <1>3, <1>5, <1>6, <1>7, <2>1 DEF Numbered
<1>11. Answered'
  <2>1. \A n \in CallNumbers :
          /\ Ran(tools)[n] > 0 => decisions[n] = "approved"
          /\ Ran(tools)[n] > 0 /\ Item("approval", n) \in Made =>
               n \in history'.repeatable
          /\ Ran(tools)[n] > 1 => n \in history'.repeatable
    BY <1>6, AnsweredTools
  <2> QED BY <1>1, <1>3, <1>5, <1>6, <1>7, <2>1 DEF Answered
<1>12. Saved'
  <2>1. Requests(CallNumbers)' = Requests(CallNumbers)
    BY DEF Requests, CallNumbers, Item
  <2> QED BY <1>1, <1>3, <1>5, <1>6, <1>7, <2>1 DEF Saved
<1>13. SavedOnce'
  BY <1>1, <1>3, <1>5, <1>6, <1>7 DEF SavedOnce, Apart
<1> QED BY <1>8, <1>9, <1>10, <1>11, <1>12, <1>13 DEF IInv, SessionInv

LEMMA ResumeStep ==
  ASSUME IInv, ResumeInterruptedTurn
  PROVE  IInv'
<1>1. TypeOK /\ Recorded /\ Numbered /\ Answered /\ Saved /\ SavedOnce
  BY InvariantParts
<1>2. PICK next \in NextSteps, written \in BOOLEAN, deferred \in SUBSET CallNumbers :
        /\ written = (next # "final" /\ Execute # {} /\ ~Deferred(Resolved(next)))
        /\ \/ written
           \/ history.deferred \subseteq deferred
        /\ ~written /\ next # "final" => Execute \subseteq deferred
        /\ IF written
           THEN state' = Checkpoint(Resolved(next)) /\ pc' = "promoting"
           ELSE /\ state' = Resolved(next)
                /\ pc' = CASE next = "final"        -> "finalizing"
                           [] next = "interruption" -> "saving"
                           [] next = "run_again"    -> "loop"
        /\ history' = [history EXCEPT !.ran        = Ran(Execute),
                                      !.miscounted = @ \/ Miscounts,
                                      !.deferred   = deferred]
  <2>1. PICK next \in NextSteps :
          LET written  == next # "final" /\ Execute # {} /\ ~Deferred(Resolved(next))
              deferred == CASE written -> {}
                            [] Deferred(Resolved(next)) -> history.deferred \cup Execute
                            [] OTHER -> history.deferred
          IN  /\ IF written
                 THEN state' = Checkpoint(Resolved(next)) /\ pc' = "promoting"
                 ELSE /\ state' = Resolved(next)
                      /\ pc' = CASE next = "final"        -> "finalizing"
                                 [] next = "interruption" -> "saving"
                                 [] next = "run_again"    -> "loop"
              /\ history' = [history EXCEPT !.ran        = Ran(Execute),
                                            !.miscounted = @ \/ Miscounts,
                                            !.deferred   = deferred]
    BY DEF ResumeInterruptedTurn
  <2> DEFINE written  == next # "final" /\ Execute # {} /\ ~Deferred(Resolved(next))
             deferred == CASE written -> {}
                           [] Deferred(Resolved(next)) -> history.deferred \cup Execute
                           [] OTHER -> history.deferred
  <2>2. written \in BOOLEAN
    OBVIOUS
  <2>3. /\ Execute \in SUBSET CallNumbers /\ history.deferred \in SUBSET CallNumbers
    BY <1>1, ApprovalItems, StateFields DEF Answerable
  <2>4. deferred \in {{}, history.deferred \cup Execute, history.deferred}
    BY Zenon
  <2>5. deferred \in SUBSET CallNumbers
    BY <2>3, <2>4
  <2>6. written \/ deferred \in {history.deferred \cup Execute, history.deferred}
    BY Zenon
  <2>7. ASSUME ~written, next # "final"
        PROVE  Execute \subseteq deferred
    <3>1. CASE Execute = {}
      BY <3>1
    <3>2. CASE Execute # {}
      <4>1. Deferred(Resolved(next))
        BY <2>7, <3>2
      <4>2. deferred = history.deferred \cup Execute
        BY <2>7, <4>1
      <4> QED BY <4>2
    <3> QED BY <3>1, <3>2
  <2>8. /\ IF written
           THEN state' = Checkpoint(Resolved(next)) /\ pc' = "promoting"
           ELSE /\ state' = Resolved(next)
                /\ pc' = CASE next = "final"        -> "finalizing"
                           [] next = "interruption" -> "saving"
                           [] next = "run_again"    -> "loop"
        /\ history' = [history EXCEPT !.ran        = Ran(Execute),
                                      !.miscounted = @ \/ Miscounts,
                                      !.deferred   = deferred]
    BY <2>1
  <2>9. written = (next # "final" /\ Execute # {} /\ ~Deferred(Resolved(next)))
    OBVIOUS
  <2> HIDE DEF written, deferred
  <2> QED BY <2>2, <2>5, <2>6, <2>7, <2>8, <2>9
<1>3. /\ pc = "loop" /\ Phase = "none" /\ state.step = "interruption"
      /\ prepared' = (Execute # {}) /\ UNCHANGED <<session, decisions>>
      /\ session \in Seq(Items) /\ history \in Histories
  BY <1>1 DEF ResumeInterruptedTurn, Recorded, TypeOK
<1>4. /\ next \in {"interruption", "run_again", "final"}
      /\ next # "interruption" => Decided = Approvals
  BY <1>2, SessionAssumption DEF NextSteps
<1> DEFINE s == Resolved(next)
<1>5. /\ s \in States /\ s.step = next /\ s.pending = state.pending
      /\ Len(s.generated) = Generated /\ s.persisted <= Generated
      /\ IsInjective(s.generated)
      /\ ToSet(s.generated) = (Made \ ToRemove) \cup Answers
      /\ {s.generated[i] : i \in 1 .. s.persisted} \subseteq Counted
      /\ ~Miscounts =>
           {s.generated[i] : i \in s.persisted + 1 .. Generated}
             \subseteq Uncounted \cup Answers
  BY <1>4, ResolvedOutcome
<1>6. \/ /\ written /\ next # "final"
         /\ state' = Checkpoint(s) /\ pc' = "promoting"
      \/ /\ ~written
         /\ state' = s
         /\ \/ next = "final" /\ pc' = "finalizing"
            \/ next = "interruption" /\ pc' = "saving"
            \/ next = "run_again" /\ pc' = "loop"
  BY <1>2, <1>4
<1> HIDE DEF s
<1>7. /\ state' \in States /\ state'.generated = s.generated
      /\ state'.persisted = s.persisted /\ state'.step = next
      /\ \/ /\ Phase' = "prepared" /\ pc' = "promoting"
            /\ state'.pending.from = s.persisted
            /\ state'.pending.to = Generated
         \/ /\ Phase' = "none" /\ pc' \in {"finalizing", "saving", "loop"}
            /\ ~written /\ (next = "final" => pc' = "finalizing")
  <2>1. CASE /\ written /\ next # "final"
             /\ state' = Checkpoint(s) /\ pc' = "promoting"
    BY <1>5, <2>1, CheckpointOf DEF Phase
  <2>2. CASE /\ ~written
             /\ state' = s
             /\ \/ next = "final" /\ pc' = "finalizing"
                \/ next = "interruption" /\ pc' = "saving"
                \/ next = "run_again" /\ pc' = "loop"
    BY <1>3, <1>5, <2>2 DEF Phase
  <2> QED BY <1>6, <2>1, <2>2
<1>8. /\ Generated' = Generated
      /\ Made' = (Made \ ToRemove) \cup Answers
      /\ Counted' \subseteq Counted
      /\ ~Miscounts => Uncounted' \subseteq Uncounted \cup Answers
  BY <1>5, <1>7 DEF Generated, Made, Counted, Uncounted
<1>9. /\ history' \in Histories
      /\ history'.others = history.others
      /\ history'.responses = history.responses
      /\ history'.unknown = history.unknown
      /\ history'.ran = Ran(Execute)
      /\ history'.repeatable = history.repeatable
      /\ history'.miscounted = (history.miscounted \/ Miscounts)
      /\ history'.deferred = deferred
  <2> DEFINE ran == Ran(Execute)
             miscounted == history.miscounted \/ Miscounts
  <2>1. ran \in [CallNumbers -> Nat] /\ miscounted \in BOOLEAN
    BY <1>1, RanOf
  <2>2. history' = [history EXCEPT !.ran = ran, !.miscounted = miscounted,
                                   !.deferred = deferred]
    BY <1>2
  <2> HIDE DEF ran, miscounted
  <2>3. /\ history' \in Histories
        /\ history'.others = history.others
        /\ history'.responses = history.responses
        /\ history'.unknown = history.unknown
        /\ history'.ran = ran /\ history'.repeatable = history.repeatable
        /\ history'.miscounted = miscounted /\ history'.deferred = deferred
    BY <1>3, <2>1, <2>2 DEF Histories
  <2> QED BY <2>3 DEF ran, miscounted
<1>10. /\ Execute = {n \in Answerable : decisions[n] = "approved"}
       /\ Made \cap ToRemove = {Item("approval", n) : n \in Answerable}
       /\ DOMAIN decisions = CallNumbers
       /\ next # "interruption" =>
            \A n \in CallNumbers : Item("approval", n) \in Made => n \in Answerable
  <2>1. /\ Execute = {n \in Answerable : decisions[n] = "approved"}
        /\ Made \cap ToRemove = {Item("approval", n) : n \in Answerable}
    BY <1>1, ApprovalItems
  <2>2. ASSUME next # "interruption", NEW n \in CallNumbers, Item("approval", n) \in Made
        PROVE  n \in Answerable
    <3>1. PICK i \in Approvals : state.generated[i].n = n
      BY <1>1, <2>2, ApprovalItems
    <3>2. decisions[n] # "pending"
      BY <1>4, <2>2, <3>1 DEF Decided
    <3> QED BY <2>2, <3>2 DEF Answerable
  <2> QED BY <1>1, <2>1, <2>2 DEF TypeOK
<1>11. \A n \in Answerable : Item("result", n) \notin Made
  <2> SUFFICES ASSUME NEW n \in Answerable PROVE Item("result", n) \notin Made
    OBVIOUS
  <2>1. n \in CallNumbers /\ decisions[n] # "pending" /\ Item("approval", n) \in Made
    BY DEF Answerable
  <2>2. decisions[n] \in {"approved", "rejected"}
    BY <1>1, <2>1 DEF Numbered, TypeOK, CallNumbers
  <2> QED BY <1>1, <2>1, <2>2 DEF Answered
<1>12. /\ \A n : Item("approval", n) \in Made' <=>
              Item("approval", n) \in Made /\ n \notin Answerable
       /\ \A n : Item("result", n) \in Made' <=>
              Item("result", n) \in Made \/ n \in Answerable
       /\ \A kind \in {"call", "message", "tool", "output"}, n \in Nat :
              Item(kind, n) \in Made' <=> Item(kind, n) \in Made
       /\ Made \ Requests(CallNumbers) \subseteq Made'
  <2>1. ToRemove \subseteq Requests(CallNumbers)
    BY <1>10 DEF ToRemove, Requests
  <2>2. \A kind \in {"call", "message", "tool", "output"}, n \in Nat :
          Item(kind, n) \notin ToRemove /\ Item(kind, n) \notin Answers
    BY <2>1, ItemsDiffer DEF Requests, Answers
  <2>3. \A n : /\ Item("result", n) \notin ToRemove
               /\ Item("approval", n) \notin Answers
               /\ Item("result", n) \in Answers <=> n \in Answerable
    BY <2>1, ItemsDiffer DEF Requests, Answers
  <2>4. \A n : Item("approval", n) \in Made =>
          (Item("approval", n) \in ToRemove <=> n \in Answerable)
    BY <1>10, ItemsDiffer
  <2> QED BY <1>8, <2>1, <2>2, <2>3, <2>4
<1>13. TypeOK'
  BY <1>1, <1>3, <1>7, <1>9 DEF TypeOK
<1>14. Recorded'
  BY <1>5, <1>7, <1>8 DEF Recorded
<1>15. Numbered'
  <2>1. Requests(CallNumbers)' = Requests(CallNumbers)
    BY DEF Requests, CallNumbers, Item
  <2>2. IsInjective(state.generated)'
    BY <1>5, <1>7
  <2>3. (\A kind \in {"call", "approval", "result"}, n \in Nat :
           Item(kind, n) \in Made => n \in CallNumbers /\ decisions[n] # "none")'
    <3>1. ASSUME NEW n \in Answerable PROVE n \in CallNumbers /\ decisions[n] # "none"
      BY <1>1 DEF Answerable, Numbered, CallNumbers
    <3> QED BY <1>1, <1>3, <1>12, <3>1 DEF Numbered
  <2>4. (\A kind \in {"message", "tool", "output"}, n \in Nat :
           Item(kind, n) \in Made => n <= history.responses)'
    BY <1>1, <1>9, <1>12 DEF Numbered
  <2>5. ToSet(session') \subseteq
          (Made' \ Requests(CallNumbers)) \cup {Item("input", 1)}
            \cup {Item("other", n) : n \in 1 .. history'.others}
    BY <1>1, <1>3, <1>9, <1>12 DEF Numbered
  <2> QED BY <1>1, <1>3, <2>1, <2>2, <2>3, <2>4, <2>5 DEF Numbered
<1>16. Answered'
  <2>1. ASSUME NEW n \in CallNumbers
        PROVE  /\ decisions[n] = "pending" =>
                    Item("approval", n) \in Made' /\ Item("result", n) \notin Made'
               /\ decisions[n] \in {"approved", "rejected"} =>
                    (Item("approval", n) \in Made') # (Item("result", n) \in Made')
    BY <1>1, <1>12, <2>1 DEF Answered, Answerable
  <2>2. ASSUME NEW n \in CallNumbers
        PROVE  /\ Ran(Execute)[n] > 0 => decisions[n] = "approved"
               /\ Ran(Execute)[n] > 0 /\ Item("approval", n) \in Made' =>
                    n \in history.repeatable
               /\ Ran(Execute)[n] > 1 => n \in history.repeatable
    <3>1. Execute \in SUBSET Execute
      OBVIOUS
    <3>2. Item("approval", n) \in Made' => Item("approval", n) \in Made /\ n \notin Execute
      BY <1>10, <1>12
    <3> QED BY <3>1, <3>2, AnsweredTools
  <2>3. state'.step # "interruption" =>
          \A n \in CallNumbers : Item("approval", n) \notin Made'
    BY <1>7, <1>10, <1>12
  <2> QED BY <1>3, <1>9, <2>1, <2>2, <2>3 DEF Answered
<1>17. Saved'
  <2>1. Requests(CallNumbers)' = Requests(CallNumbers)
    BY DEF Requests, CallNumbers, Item
  <2>2. (Counted \ Requests(CallNumbers) \subseteq ToSet(session))'
    BY <1>1, <1>3, <1>8, <2>1 DEF Saved
  <2>3. ASSUME NEW n \in CallNumbers, decisions[n] = "approved",
               Item("result", n) \in Made'
        PROVE  \/ Item("result", n) \in ToSet(session)
               \/ Phase' \in {"prepared", "append_ready"}
               \/ pc' = "finalizing" /\ prepared'
               \/ n \in history'.deferred
    <3>1. CASE Item("result", n) \in Made
      <4>1. Item("result", n) \in ToSet(session) \/ n \in history.deferred
        BY <1>1, <1>3, <2>3, <3>1 DEF Saved
      <4> QED BY <1>7, <1>9, <1>2, <4>1
    <3>2. CASE n \in Answerable
      <4>1. n \in Execute /\ prepared'
        BY <1>3, <1>10, <2>3, <3>2
      <4> QED BY <1>7, <1>9, <1>2, <4>1
    <3> QED BY <1>12, <2>3, <3>1, <3>2
  <2> QED BY <1>3, <2>2, <2>3 DEF Saved
<1>18. SavedOnce'
  <2> SUFFICES ASSUME ~history.miscounted, ~Miscounts PROVE Apart'
    BY <1>9 DEF SavedOnce
  <2>1. StoredTwice' = StoredTwice /\ StoredTwice \subseteq history.unknown
    BY <1>1, <1>3 DEF SavedOnce, Apart, StoredTwice, Held
  <2>2. ToSet(session) \cap Unsaved \subseteq history.unknown
    BY <1>1, <1>3 DEF SavedOnce, Apart
  <2>3. ToSet(session) \cap Answers = {}
    <3> SUFFICES ASSUME NEW n \in Answerable, Item("result", n) \in ToSet(session)
                 PROVE  FALSE
      BY DEF Answers
    <3>1. Item("result", n) # Item("input", 1)
          /\ \A k : Item("result", n) # Item("other", k)
      BY ItemsDiffer
    <3> QED BY <1>1, <1>11, <3>1 DEF Numbered
  <2>4. Unsaved' \subseteq Unsaved \cup Answers
    <3>1. Requests(CallNumbers)' = Requests(CallNumbers)
      BY DEF Requests, CallNumbers, Item
    <3> QED BY <1>8, <3>1 DEF Unsaved
  <2> QED BY <1>3, <1>7, <1>9, <2>1, <2>2, <2>3, <2>4 DEF Apart
<1> QED BY <1>13, <1>14, <1>15, <1>16, <1>17, <1>18 DEF IInv, SessionInv

------------------------------------------------------------------------------
(* A turn.                                                                  *)

LEMMA CallsSoFar ==
  ASSUME TypeOK, Numbered
  PROVE  /\ Calls \in 0 .. MaxCalls
         /\ \A n \in CallNumbers : decisions[n] # "none" <=> n <= Calls
<1>1. PICK last \in 0 .. MaxCalls :
        \A n \in CallNumbers : decisions[n] # "none" <=> n <= last
  BY DEF Numbered
<1>2. DOMAIN decisions = CallNumbers /\ MaxCalls \in Nat
  BY SessionAssumption DEF TypeOK
<1>3. {n \in DOMAIN decisions : decisions[n] # "none"} = 1 .. last
  BY <1>1, <1>2 DEF CallNumbers
<1>4. Cardinality(1 .. last) = last
  <2>1. 1 \in Int /\ last \in Int /\ last \in Nat
    BY <1>1, <1>2
  <2>2. Cardinality(1 .. last) = IF 1 > last THEN 0 ELSE last - 1 + 1
    BY <2>1, FS_Interval
  <2> QED BY <2>1, <2>2
<1> QED BY <1>1, <1>3, <1>4 DEF Calls

(* New items follow the history, and nothing else of it changes.            *)
LEMMA HistoryGrows ==
  ASSUME TypeOK, Recorded, Numbered, NEW items \in Seq(RunItems),
         IsInjective(items), ToSet(items) \cap Made = {},
         state'.generated = state.generated \o items,
         state'.persisted = state.persisted
  PROVE  /\ state'.generated \in Seq(RunItems) /\ IsInjective(state'.generated)
         /\ state'.persisted <= Generated'
         /\ Made' = Made \cup ToSet(items)
         /\ Counted' = Counted
         /\ Uncounted' \subseteq Uncounted \cup ToSet(items)
<1> DEFINE gen == state.generated
           new == state'.generated
           p   == state.persisted
           m   == Len(gen)
           k   == Len(items)
<1>1. /\ gen \in Seq(RunItems) /\ IsInjective(gen) /\ m \in Nat /\ p \in 0 .. m
      /\ k \in Nat /\ new = gen \o items
      /\ DOMAIN items = 1 .. k /\ ToSet(gen) = Made
  BY StateFields, HistoryParts DEF Recorded, Numbered, Generated, Made
<1>2. /\ new \in Seq(RunItems) /\ IsInjective(new)
      /\ ToSet(new) = Made \cup ToSet(items)
  <2>1. ToSet(gen) \cap ToSet(items) = {}
    BY <1>1
  <2> QED BY <1>1, <2>1, ConcatIsUnion
<1>3. /\ Len(new) = m + k
      /\ \A i \in 1 .. m + k : new[i] = IF i <= m THEN gen[i] ELSE items[i - m]
  BY <1>1
<1>4. Generated' = m + k /\ p <= m + k
  BY <1>1, <1>3 DEF Generated
<1>5. Counted' = Counted
  <2>1. \A i \in 1 .. p : i \in 1 .. m + k /\ i <= m
    BY <1>1
  <2> QED BY <1>3, <2>1 DEF Counted
<1>6. ASSUME NEW i \in p + 1 .. m + k
      PROVE  new[i] \in Uncounted \cup ToSet(items)
  <2>1. i \in 1 .. m + k
    BY <1>1
  <2>2. CASE i <= m
    BY <1>1, <1>3, <2>1, <2>2 DEF Uncounted, Generated
  <2>3. CASE ~(i <= m)
    <3>1. i - m \in DOMAIN items /\ new[i] = items[i - m]
      BY <1>1, <1>3, <2>1, <2>3
    <3> QED BY <3>1 DEF ToSet
  <2> QED BY <2>2, <2>3
<1>7. Uncounted' \subseteq Uncounted \cup ToSet(items)
  BY <1>4, <1>6 DEF Uncounted
<1>8. Made' = Made \cup ToSet(items)
  BY <1>2 DEF Made
<1> QED BY <1>2, <1>4, <1>5, <1>7, <1>8

LEMMA CallModelStep ==
  ASSUME IInv, CallModel
  PROVE  IInv'
<1>1. TypeOK /\ Recorded /\ Numbered /\ Answered /\ Saved /\ SavedOnce
  BY InvariantParts
<1> DEFINE n    == history.responses + 1
           call == Calls + 1
<1>2. /\ pc = "loop" /\ Phase = "none" /\ state.step = "run_again"
      /\ prepared' = FALSE /\ session' = session /\ session \in Seq(Items)
      /\ history' = [history EXCEPT !.responses = n] /\ history \in Histories
      /\ state \in States /\ history.responses \in Nat /\ n \in Nat
      /\ n > history.responses
  BY <1>1, StateFields DEF CallModel, Recorded, TypeOK
<1>3. /\ Calls \in 0 .. MaxCalls /\ Calls \in Nat /\ call \in Nat /\ MaxCalls \in Nat
      /\ \A c \in CallNumbers : decisions[c] # "none" <=> c <= Calls
  BY <1>1, CallsSoFar, SessionAssumption
<1> DEFINE Adds(items, step) == [state EXCEPT !.generated = @ \o items,
                                              !.start     = Generated,
                                              !.step      = step]
<1>4. \/ /\ state' = Adds(<<Item("message", n)>>, "final")
         /\ pc' = "finalizing" /\ decisions' = decisions
      \/ /\ state' = Adds(<<Item("tool", n), Item("output", n)>>, "run_again")
         /\ pc' = "loop" /\ decisions' = decisions
      \/ /\ call <= MaxCalls
         /\ \/ state' = Adds(<<Item("call", call), Item("approval", call)>>,
                             "interruption")
            \/ state' = Adds(<<Item("tool", n), Item("call", call),
                               Item("output", n), Item("approval", call)>>,
                             "interruption")
         /\ decisions' = [decisions EXCEPT ![call] = "pending"]
         /\ pc' = "saving"
  BY <1>2 DEF CallModel
<1>5. call \in CallNumbers => decisions[call] = "none" /\ call # 0
  BY <1>3
<1>6. call <= MaxCalls => call \in CallNumbers
  BY <1>3 DEF CallNumbers
<1>7. /\ history' \in Histories /\ history'.responses = n
      /\ history'.others = history.others /\ history'.unknown = history.unknown
      /\ history'.miscounted = history.miscounted
      /\ history'.ran = history.ran /\ history'.repeatable = history.repeatable
      /\ history'.deferred = history.deferred
  <2> DEFINE r == n
  <2>1. r \in Nat /\ history' = [history EXCEPT !.responses = r]
    BY <1>2
  <2> HIDE DEF r
  <2>2. /\ history' \in Histories /\ history'.responses = r
        /\ history'.others = history.others /\ history'.unknown = history.unknown
        /\ history'.miscounted = history.miscounted
        /\ history'.ran = history.ran /\ history'.repeatable = history.repeatable
        /\ history'.deferred = history.deferred
    BY <1>2, <2>1 DEF Histories
  <2> QED BY <2>2 DEF r
<1> HIDE DEF n, call
<1>8. /\ \A kind \in {"message", "tool", "output"} :
           Item(kind, n) \in RunItems /\ Item(kind, n) \notin Made
      /\ \A kind \in {"call", "approval", "result"} :
           call \in CallNumbers =>
             Item(kind, call) \in RunItems /\ Item(kind, call) \notin Made
  <2>1. \A kind \in {"message", "tool", "output"} : Item(kind, n) \notin Made
    BY <1>1, <1>2 DEF Numbered
  <2>2. \A kind \in {"call", "approval", "result"} :
          call \in CallNumbers => Item(kind, call) \notin Made
    BY <1>1, <1>3, <1>5 DEF Numbered
  <2> QED BY <1>2, <1>3, <2>1, <2>2 DEF RunItems, RunKinds
(* What the turn adds, and where it leads.                                  *)
<1>9. \E items \in Seq(RunItems), step \in {"final", "run_again", "interruption"} :
        /\ IsInjective(items) /\ ToSet(items) \cap Made = {}
        /\ state' = Adds(items, step)
        /\ \/ /\ ToSet(items) \subseteq {Item("message", n), Item("tool", n), Item("output", n)}
              /\ decisions' = decisions /\ step # "interruption"
              /\ pc' \in {"finalizing", "loop"}
           \/ /\ {Item("call", call), Item("approval", call)} \subseteq ToSet(items)
              /\ ToSet(items) \subseteq {Item("call", call), Item("approval", call),
                                        Item("tool", n), Item("output", n)}
              /\ call \in CallNumbers
              /\ decisions' = [decisions EXCEPT ![call] = "pending"]
              /\ step = "interruption" /\ pc' = "saving"
  <2> HIDE DEF Adds
  <2>1. CASE /\ state' = Adds(<<Item("message", n)>>, "final")
             /\ pc' = "finalizing" /\ decisions' = decisions
    <3> DEFINE a == Item("message", n)
    <3>1. a \in RunItems /\ a \notin Made
      BY <1>8
    <3>2. state' = Adds(<<a>>, "final")
      BY <2>1
    <3>3. a = Item("message", n)
      OBVIOUS
    <3> HIDE DEF a
    <3>4. /\ <<a>> \in Seq(RunItems) /\ IsInjective(<<a>>) /\ ToSet(<<a>>) = {a}
      BY <3>1 DEF IsInjective, ToSet
    <3> QED BY <2>1, <3>1, <3>2, <3>3, <3>4
  <2>2. CASE /\ state' = Adds(<<Item("tool", n), Item("output", n)>>, "run_again")
             /\ pc' = "loop" /\ decisions' = decisions
    <3> DEFINE a == Item("tool", n)
               b == Item("output", n)
    <3>1. /\ a \in RunItems /\ a \notin Made /\ b \in RunItems /\ b \notin Made /\ a # b
      BY <1>8, ItemsDiffer
    <3>2. state' = Adds(<<a, b>>, "run_again")
      BY <2>2
    <3>3. a = Item("tool", n) /\ b = Item("output", n)
      OBVIOUS
    <3> HIDE DEF a, b
    <3>4. /\ <<a, b>> \in Seq(RunItems) /\ IsInjective(<<a, b>>)
          /\ ToSet(<<a, b>>) = {a, b}
      BY <3>1 DEF IsInjective, ToSet
    <3> QED BY <2>2, <3>1, <3>2, <3>3, <3>4
  <2>3. CASE /\ call <= MaxCalls
             /\ state' = Adds(<<Item("call", call), Item("approval", call)>>,
                              "interruption")
             /\ decisions' = [decisions EXCEPT ![call] = "pending"]
             /\ pc' = "saving"
    <3> DEFINE a == Item("call", call)
               b == Item("approval", call)
    <3>1. /\ a \in RunItems /\ a \notin Made /\ b \in RunItems /\ b \notin Made /\ a # b
          /\ call \in CallNumbers
      BY <1>6, <1>8, <2>3, ItemsDiffer
    <3>2. state' = Adds(<<a, b>>, "interruption")
      BY <2>3
    <3>3. a = Item("call", call) /\ b = Item("approval", call)
      OBVIOUS
    <3> HIDE DEF a, b
    <3>4. /\ <<a, b>> \in Seq(RunItems) /\ IsInjective(<<a, b>>)
          /\ ToSet(<<a, b>>) = {a, b}
      BY <3>1 DEF IsInjective, ToSet
    <3> QED BY <2>3, <3>1, <3>2, <3>3, <3>4
  <2>4. CASE /\ call <= MaxCalls
             /\ state' = Adds(<<Item("tool", n), Item("call", call),
                                Item("output", n), Item("approval", call)>>,
                              "interruption")
             /\ decisions' = [decisions EXCEPT ![call] = "pending"]
             /\ pc' = "saving"
    <3> DEFINE a == Item("tool", n)
               b == Item("call", call)
               d == Item("output", n)
               e == Item("approval", call)
    <3>1. /\ {a, b, d, e} \subseteq RunItems /\ {a, b, d, e} \cap Made = {}
          /\ call \in CallNumbers
      BY <1>6, <1>8, <2>4
    <3>5. a # b /\ a # d /\ a # e /\ b # d /\ b # e /\ d # e
      BY ItemsDiffer
    <3>2. state' = Adds(<<a, b, d, e>>, "interruption")
      BY <2>4
    <3>3. /\ a = Item("tool", n) /\ b = Item("call", call)
          /\ d = Item("output", n) /\ e = Item("approval", call)
      OBVIOUS
    <3> HIDE DEF a, b, d, e
    <3>4. /\ <<a, b, d, e>> \in Seq(RunItems) /\ IsInjective(<<a, b, d, e>>)
          /\ ToSet(<<a, b, d, e>>) = {a, b, d, e}
      BY <3>1, <3>5 DEF IsInjective, ToSet
    <3> QED BY <2>4, <3>1, <3>2, <3>3, <3>4
  <2> QED BY <1>4, <2>1, <2>2, <2>3, <2>4
<1>10. PICK items \in Seq(RunItems), step \in {"final", "run_again", "interruption"} :
        /\ IsInjective(items) /\ ToSet(items) \cap Made = {}
        /\ state' = Adds(items, step)
        /\ \/ /\ ToSet(items) \subseteq {Item("message", n), Item("tool", n), Item("output", n)}
              /\ decisions' = decisions /\ step # "interruption"
              /\ pc' \in {"finalizing", "loop"}
           \/ /\ {Item("call", call), Item("approval", call)} \subseteq ToSet(items)
              /\ ToSet(items) \subseteq {Item("call", call), Item("approval", call),
                                        Item("tool", n), Item("output", n)}
              /\ call \in CallNumbers
              /\ decisions' = [decisions EXCEPT ![call] = "pending"]
              /\ step = "interruption" /\ pc' = "saving"
  BY <1>9
<1>11. /\ state'.generated = state.generated \o items
       /\ state'.persisted = state.persisted
       /\ state'.step = step /\ Phase' = "none" /\ state'.pending = state.pending
  BY <1>2, <1>10 DEF States, Phase
<1>12. /\ state'.generated \in Seq(RunItems) /\ IsInjective(state'.generated)
       /\ state'.persisted <= Generated'
       /\ Made' = Made \cup ToSet(items)
       /\ Counted' = Counted
       /\ Uncounted' \subseteq Uncounted \cup ToSet(items)
  BY <1>1, <1>10, <1>11, HistoryGrows
<1>13. state' \in States
  <2> DEFINE g == state.generated \o items
             m == Generated
  <2>1. /\ g \in Seq(RunItems) /\ m \in Nat
        /\ state' = [state EXCEPT !.generated = g, !.start = m, !.step = step]
    BY <1>1, <1>10, <1>11, <1>12, HistoryParts
  <2> HIDE DEF g, m
  <2> QED BY <1>2, <2>1 DEF States
<1>14. /\ decisions' \in [CallNumbers -> {"none", "pending", "approved", "rejected"}]
       /\ pc' \in {"finalizing", "loop", "saving"}
       /\ \A c \in CallNumbers :
            \/ decisions'[c] = decisions[c]
            \/ decisions'[c] = "pending" /\ decisions[c] = "none" /\ c = call
                 /\ Item("approval", c) \in ToSet(items)
       /\ \A c : Item("approval", c) \in ToSet(items) =>
            c = call /\ c \in CallNumbers /\ decisions'[c] = "pending"
       /\ \A c : Item("call", c) \in ToSet(items) =>
            c = call /\ c \in CallNumbers /\ decisions'[c] = "pending"
       /\ \A c : Item("result", c) \notin ToSet(items)
       /\ \A kind \in {"message", "tool", "output"} :
            \A c : Item(kind, c) \in ToSet(items) => c = n
       /\ step # "interruption" => \A c : Item("approval", c) \notin ToSet(items)
  <2>1. CASE /\ ToSet(items) \subseteq {Item("message", n), Item("tool", n), Item("output", n)}
             /\ decisions' = decisions /\ step # "interruption"
             /\ pc' \in {"finalizing", "loop"}
    BY <1>1, <2>1, ItemsDiffer DEF TypeOK
  <2>2. CASE /\ {Item("call", call), Item("approval", call)} \subseteq ToSet(items)
             /\ ToSet(items) \subseteq {Item("call", call), Item("approval", call),
                                       Item("tool", n), Item("output", n)}
             /\ call \in CallNumbers
             /\ decisions' = [decisions EXCEPT ![call] = "pending"]
             /\ step = "interruption" /\ pc' = "saving"
    BY <1>1, <1>5, <2>2, ItemsDiffer DEF TypeOK
  <2> QED BY <1>10, <2>1, <2>2
<1>15. TypeOK'
  BY <1>1, <1>2, <1>7, <1>13, <1>14 DEF TypeOK
<1>16. Recorded'
  BY <1>11, <1>12, <1>14 DEF Recorded
<1>17. Numbered'
  <2>1. Requests(CallNumbers)' = Requests(CallNumbers)
    BY DEF Requests, CallNumbers, Item
  <2>2. (\A kind \in {"call", "approval", "result"}, c \in Nat :
           Item(kind, c) \in Made => c \in CallNumbers /\ decisions[c] # "none")'
    <3> SUFFICES ASSUME NEW kind \in {"call", "approval", "result"}, NEW c \in Nat,
                        Item(kind, c) \in Made \cup ToSet(items)
                 PROVE  c \in CallNumbers /\ decisions'[c] # "none"
      BY <1>12
    <3>1. CASE Item(kind, c) \in Made
      BY <1>1, <1>14, <3>1 DEF Numbered
    <3>2. CASE Item(kind, c) \in ToSet(items)
      BY <1>14, <3>2
    <3> QED BY <3>1, <3>2
  <2>3. (\A kind \in {"message", "tool", "output"}, c \in Nat :
           Item(kind, c) \in Made => c <= history.responses)'
    <3> SUFFICES ASSUME NEW kind \in {"message", "tool", "output"}, NEW c \in Nat,
                        Item(kind, c) \in Made \cup ToSet(items)
                 PROVE  c <= n
      BY <1>7, <1>12
    <3>1. CASE Item(kind, c) \in Made
      BY <1>1, <1>2, <3>1 DEF Numbered
    <3>2. CASE Item(kind, c) \in ToSet(items)
      BY <1>2, <1>14, <3>2
    <3> QED BY <3>1, <3>2
  <2>4. \E last \in 0 .. MaxCalls :
          \A c \in CallNumbers : decisions'[c] # "none" <=> c <= last
    <3>1. CASE decisions' = decisions
      BY <1>3, <3>1
    <3>2. CASE call \in CallNumbers /\ decisions' = [decisions EXCEPT ![call] = "pending"]
      <4>1. call \in 0 .. MaxCalls /\ call = Calls + 1
        BY <1>3, <3>2 DEF CallNumbers, call
      <4>2. \A c \in CallNumbers : c <= call <=> c <= Calls \/ c = call
        BY <1>3, <4>1 DEF CallNumbers
      <4>3. \A c \in CallNumbers : decisions'[c] # "none" <=> c <= call
        BY <1>1, <1>3, <3>2, <4>2 DEF TypeOK
      <4> QED BY <4>1, <4>3
    <3> QED BY <1>10, <3>1, <3>2
  <2>5. ToSet(session') \subseteq
          (Made' \ Requests(CallNumbers)) \cup {Item("input", 1)}
            \cup {Item("other", k) : k \in 1 .. history'.others}
    BY <1>1, <1>2, <1>7, <1>12 DEF Numbered
  <2> QED BY <1>12, <2>1, <2>2, <2>3, <2>4, <2>5 DEF Numbered
<1>18. Answered'
  <2>1. ASSUME NEW c \in CallNumbers
        PROVE  /\ decisions'[c] = "pending" =>
                    Item("approval", c) \in Made' /\ Item("result", c) \notin Made'
               /\ decisions'[c] \in {"approved", "rejected"} =>
                    (Item("approval", c) \in Made') # (Item("result", c) \in Made')
               /\ history.ran[c] > 0 => decisions'[c] = "approved"
               /\ history.ran[c] > 0 /\ Item("approval", c) \in Made' =>
                    c \in history.repeatable
               /\ history.ran[c] > 1 => c \in history.repeatable
    <3>1. CASE decisions'[c] = decisions[c]
      <4>1. decisions'[c] \in {"approved", "rejected"} =>
              Item("approval", c) \notin ToSet(items)
        BY <1>14
      <4>2. Item("result", c) \in Made' <=> Item("result", c) \in Made
        BY <1>12, <1>14
      <4>3. decisions[c] = "approved" =>
              (Item("approval", c) \in Made' <=> Item("approval", c) \in Made)
        BY <1>12, <3>1, <4>1
      <4> QED BY <1>1, <1>12, <3>1, <4>1, <4>2, <4>3 DEF Answered
    <3>2. CASE decisions'[c] = "pending" /\ decisions[c] = "none" /\ c = call
                 /\ Item("approval", c) \in ToSet(items)
      <4>1. Item("result", c) \notin Made'
        BY <1>8, <1>12, <1>14, <3>2
      <4>2. Item("approval", c) \in Made'
        BY <1>12, <3>2
      <4>3. ~(history.ran[c] > 0) /\ (history.ran[c] > 1 => c \in history.repeatable)
        BY <1>1, <3>2 DEF Answered
      <4> QED BY <3>2, <4>1, <4>2, <4>3
    <3> QED BY <1>14, <3>1, <3>2
  <2>2. state'.step # "interruption" =>
          \A c \in CallNumbers : Item("approval", c) \notin Made'
    BY <1>1, <1>2, <1>11, <1>12, <1>14 DEF Answered
  <2> QED BY <1>7, <2>1, <2>2 DEF Answered
<1>19. Saved'
  <2>1. Requests(CallNumbers)' = Requests(CallNumbers)
    BY DEF Requests, CallNumbers, Item
  <2>2. ASSUME NEW c \in CallNumbers, decisions'[c] = "approved",
               Item("result", c) \in Made'
        PROVE  Item("result", c) \in ToSet(session) \/ c \in history.deferred
    <3>1. decisions[c] = "approved" /\ Item("result", c) \in Made
      BY <1>12, <1>14, <2>2
    <3> QED BY <1>1, <1>2, <3>1 DEF Saved
  <2> QED BY <1>1, <1>2, <1>7, <1>12, <2>1, <2>2 DEF Saved
<1>20. SavedOnce'
  <2> SUFFICES ASSUME ~history.miscounted PROVE Apart'
    BY <1>7 DEF SavedOnce
  <2>1. StoredTwice' = StoredTwice /\ StoredTwice \subseteq history.unknown
    BY <1>1, <1>2 DEF SavedOnce, Apart, StoredTwice, Held
  <2>2. ToSet(session) \cap Unsaved \subseteq history.unknown
    BY <1>1, <1>2 DEF SavedOnce, Apart
  <2>3. ToSet(session) \cap ToSet(items) = {}
    <3> SUFFICES ASSUME NEW e \in ToSet(items), e \in ToSet(session)
                 PROVE  FALSE
      OBVIOUS
    <3>1. e \in RunItems /\ e \notin Made
      BY <1>10 DEF ToSet
    <3>2. e = Item("input", 1) \/ \E k \in 1 .. history.others : e = Item("other", k)
      BY <1>1, <3>1 DEF Numbered
    <3> QED BY <3>1, <3>2, RunItemsAreItems
  <2>4. Unsaved' \subseteq Unsaved \cup ToSet(items)
    <3>1. Requests(CallNumbers)' = Requests(CallNumbers)
      BY DEF Requests, CallNumbers, Item
    <3> QED BY <1>12, <3>1 DEF Unsaved
  <2> QED BY <1>2, <1>7, <1>11, <2>1, <2>2, <2>3, <2>4 DEF Apart
<1> QED BY <1>15, <1>16, <1>17, <1>18, <1>19, <1>20 DEF IInv, SessionInv

------------------------------------------------------------------------------
(* The initial state, and the theorems.                                     *)

LEMMA InitInv ==
  ASSUME Init
  PROVE  IInv
<1>1. MaxCalls \in Nat \ {0}
  BY SessionAssumption
<1> DEFINE Of(kind, n) == [i \in 1 .. n |-> Item(kind, i)]
<1>2. PICK n \in 1 .. MaxCalls, guarded \in BOOLEAN :
        /\ session = <<Item("input", 1)>> \o Of("call", n)
        /\ state = [generated |-> Of("call", n) \o Of("approval", n),
                    start     |-> 0,
                    persisted |-> 2 * n,
                    step      |-> "interruption",
                    pending   |-> NoWrite,
                    guarded   |-> guarded]
        /\ decisions = [i \in 1 .. MaxCalls |-> IF i <= n THEN "pending" ELSE "none"]
  BY DEF Init
<1> DEFINE calls     == Of("call", n)
           approvals == Of("approval", n)
           input     == <<Item("input", 1)>>
<1>3. n \in Nat /\ n <= MaxCalls /\ 2 * n \in Nat /\ 2 * n = n + n
      /\ \A i \in 1 .. n : i \in CallNumbers /\ i \in Nat
  BY <1>1 DEF CallNumbers
<1>4. \A kind \in {"call", "approval"} :
        /\ Of(kind, n) \in Seq(RunItems) /\ Len(Of(kind, n)) = n
        /\ IsInjective(Of(kind, n))
        /\ ToSet(Of(kind, n)) = {Item(kind, i) : i \in 1 .. n}
  <2> SUFFICES ASSUME NEW kind \in {"call", "approval"}
               PROVE  /\ Of(kind, n) \in Seq(RunItems) /\ Len(Of(kind, n)) = n
                      /\ IsInjective(Of(kind, n))
                      /\ ToSet(Of(kind, n)) = {Item(kind, i) : i \in 1 .. n}
    OBVIOUS
  <2>1. \A i \in 1 .. n : Item(kind, i) \in RunItems
    BY <1>3 DEF RunItems, RunKinds
  <2>2. Of(kind, n) \in Seq(RunItems) /\ Len(Of(kind, n)) = n
    BY <1>3, <2>1
  <2>3. IsInjective(Of(kind, n))
    BY ItemsDiffer DEF IsInjective
  <2>4. ToSet(Of(kind, n)) = {Item(kind, i) : i \in 1 .. n}
    BY DEF ToSet
  <2> QED BY <2>2, <2>3, <2>4
<1> HIDE DEF Of
<1>5. /\ calls \in Seq(RunItems) /\ Len(calls) = n /\ IsInjective(calls)
      /\ ToSet(calls) = {Item("call", i) : i \in 1 .. n}
      /\ approvals \in Seq(RunItems) /\ Len(approvals) = n /\ IsInjective(approvals)
      /\ ToSet(approvals) = {Item("approval", i) : i \in 1 .. n}
      /\ ToSet(calls) \cap ToSet(approvals) = {}
  BY <1>4, ItemsDiffer
<1>6. /\ state.generated = calls \o approvals /\ state.persisted = n + n
      /\ state.step = "interruption" /\ state.pending = NoWrite
      /\ session = input \o calls
      /\ pc = "returned" /\ prepared = FALSE
      /\ history = [others |-> 0, runs |-> 0, responses |-> 0, unknown |-> {},
                    miscounted |-> FALSE, ran |-> [c \in 1 .. MaxCalls |-> 0],
                    repeatable |-> {}, deferred |-> {}]
  BY <1>2, <1>3 DEF Init
<1>7. Phase = "none" /\ NoWrite \in Writes
  BY <1>6 DEF Phase, NoWrite, Writes
<1> HIDE DEF calls, approvals
<1> DEFINE g == calls \o approvals
<1>8. /\ g \in Seq(RunItems) /\ IsInjective(g)
      /\ ToSet(g) = ToSet(calls) \cup ToSet(approvals)
  BY <1>5, ConcatIsUnion
<1>9. Len(g) = n + n /\ DOMAIN g = 1 .. n + n
  BY <1>3, <1>5
<1> HIDE DEF g
<1>10. /\ Generated = n + n /\ Made = ToSet(g) /\ state.generated = g
       /\ Uncounted = {} /\ Counted = Made
  <2>1. Generated = n + n /\ state.generated = g /\ Made = ToSet(g)
    BY <1>6, <1>9 DEF Generated, Made, g
  <2>2. Counted = Made
    BY <1>6, <1>9, <2>1 DEF Counted, Made, ToSet
  <2>3. n + n + 1 .. n + n = {}
    BY <1>3
  <2> QED BY <1>6, <2>1, <2>2, <2>3 DEF Uncounted
<1>11. /\ input \in Seq(Items) /\ ToSet(input) = {Item("input", 1)}
       /\ IsInjective(input)
  BY RunItemsAreItems DEF IsInjective, ToSet
<1> HIDE DEF input
<1>12. /\ session \in Seq(Items) /\ IsInjective(session)
       /\ ToSet(session) = {Item("input", 1)} \cup ToSet(calls)
  <2>1. calls \in Seq(Items)
    BY <1>5, RunItemsAreItems
  <2>2. ToSet(input) \cap ToSet(calls) = {}
    BY <1>5, <1>11, ItemsDiffer
  <2>3. /\ input \o calls \in Seq(Items) /\ IsInjective(input \o calls)
        /\ ToSet(input \o calls) = ToSet(input) \cup ToSet(calls)
    <3>1. IsInjective(input) /\ IsInjective(calls)
      BY <1>5, <1>11
    <3> QED BY <1>11, <2>1, <2>2, <3>1, ConcatIsUnion
  <2> QED BY <1>6, <1>11, <2>3
<1>13. /\ \A k, c : Item(k, c) \in Made <=> k \in {"call", "approval"} /\ c \in 1 .. n
  BY <1>5, <1>8, <1>10, ItemsDiffer
<1>14. /\ decisions \in [CallNumbers -> {"none", "pending", "approved", "rejected"}]
       /\ \A c \in CallNumbers : decisions[c] = IF c <= n THEN "pending" ELSE "none"
  BY <1>2 DEF CallNumbers
<1>15. history \in Histories /\ \A c \in CallNumbers : history.ran[c] = 0
  BY <1>6 DEF Histories, CallNumbers
<1>16. TypeOK
  <2>1. state \in States
    <3> DEFINE p == 2 * n
               w == NoWrite
    <3>1. /\ state = [generated |-> g, start |-> 0, persisted |-> p,
                      step |-> "interruption", pending |-> w, guarded |-> guarded]
          /\ p \in Nat /\ w \in Writes
      BY <1>2, <1>3, <1>7 DEF g, calls, approvals
    <3> HIDE DEF p, w
    <3> QED BY <1>8, <3>1 DEF States
  <2> QED BY <1>6, <1>12, <1>14, <1>15, <2>1 DEF TypeOK
<1>17. Recorded
  BY <1>3, <1>6, <1>7, <1>10 DEF Recorded
<1>18. Numbered
  <2>1. \A kind \in {"call", "approval", "result"}, c \in Nat :
          Item(kind, c) \in Made => c \in CallNumbers /\ decisions[c] # "none"
    BY <1>3, <1>13, <1>14
  <2>2. n \in 0 .. MaxCalls /\ \A c \in CallNumbers : decisions[c] # "none" <=> c <= n
    BY <1>3, <1>14
  <2>3. \A kind \in {"message", "tool", "output"}, c \in Nat :
          Item(kind, c) \notin Made
    BY <1>13
  <2>4. ToSet(calls) \subseteq Made \ Requests(CallNumbers)
    BY <1>5, <1>13, ItemsDiffer DEF Requests
  <2> QED BY <1>8, <1>10, <1>12, <2>1, <2>2, <2>3, <2>4 DEF Numbered
<1>19. Answered
  <2>1. ASSUME NEW c \in CallNumbers
        PROVE  /\ decisions[c] = "pending" =>
                    Item("approval", c) \in Made /\ Item("result", c) \notin Made
               /\ decisions[c] \notin {"approved", "rejected"}
               /\ ~(history.ran[c] > 0) /\ ~(history.ran[c] > 1)
    <3>1. decisions[c] = "pending" => c \in 1 .. n
      BY <1>3, <1>14 DEF CallNumbers
    <3> QED BY <1>13, <1>14, <1>15, <3>1
  <2> QED BY <1>6, <2>1 DEF Answered
<1>20. Saved
  <2>1. Made \ Requests(CallNumbers) \subseteq ToSet(session)
    <3>1. ToSet(approvals) \subseteq Requests(CallNumbers)
      BY <1>3, <1>5 DEF Requests
    <3> QED BY <1>8, <1>10, <1>12, <3>1
  <2>2. \A c \in CallNumbers : Item("result", c) \notin Made
    BY <1>13
  <2> QED BY <1>10, <2>1, <2>2 DEF Saved
<1>21. SavedOnce
  <2>1. StoredTwice = {}
    BY <1>12 DEF StoredTwice, IsInjective
  <2>2. Unsaved = {}
    BY <1>10 DEF Unsaved
  <2> QED BY <1>7, <2>1, <2>2 DEF SavedOnce, Apart
<1> QED BY <1>16, <1>17, <1>18, <1>19, <1>20, <1>21 DEF IInv, SessionInv

LEMMA NextInv ==
  ASSUME IInv, [Next]_vars
  PROVE  IInv'
<1>1. CASE Decide
  BY <1>1, DecideStep
<1>2. CASE OthersAppend
  BY <1>2, OthersAppendStep
<1>3. CASE Run
  BY <1>3, RunStep
<1>4. CASE PromotePreparedWrite
  BY <1>4, PromoteStep
<1>5. CASE ReconcilePendingWrite
  BY <1>5, ReconcileStep
<1>6. CASE AppendPreparedWrite
  BY <1>6, AppendStep
<1>7. CASE CompleteCompaction
  BY <1>7, CompleteCompactionStep
<1>8. CASE SessionFails
  BY <1>8, SessionFailsStep
<1>9. CASE ResumeInterruptedTurn
  BY <1>9, ResumeStep
<1>10. CASE ResumeFails
  BY <1>10, ResumeFailsStep
<1>11. CASE CallModel
  BY <1>11, CallModelStep
<1>12. CASE ModelFails
  BY <1>12, ModelFailsStep
<1>13. CASE FinalizeAgain
  BY <1>13, FinalizeAgainStep
<1>14. CASE Finalize
  BY <1>14, FinalizeStep
<1>15. CASE Save
  BY <1>15, SaveStep
<1>17. CASE ReturnUnsaved
  BY <1>17, ReturnUnsavedStep
<1>16. CASE UNCHANGED vars
  <2>1. /\ UNCHANGED <<session, state, pc, prepared, decisions, history>>
        /\ Phase' = Phase /\ Generated' = Generated
    BY <1>16 DEF vars, Phase, Generated
  <2>2. TypeOK /\ Recorded
    BY InvariantParts
  <2>3. TypeOK' /\ Recorded'
    BY <2>1, <2>2 DEF TypeOK, Recorded, Deferred, Outputs
  <2>4. pc' = "appending" => pc = "appending"
    BY <2>1
  <2> QED BY <2>1, <2>3, <2>4, OnlyMoves
<1> QED BY <1>1, <1>2, <1>3, <1>4, <1>5, <1>6, <1>7, <1>8, <1>9, <1>10, <1>11,
           <1>12, <1>13, <1>14, <1>15, <1>16, <1>17 DEF Next

(* The variables keep their types; the place where a run is agrees with the *)
(* write-ahead record and the count of persisted items, no item is twice in *)
(* the state, and each decided call has its request or its result.          *)
THEOREM StateIsSound == Spec => []SessionInv
<1>1. Init => IInv
  BY InitInv
<1>2. IInv /\ [Next]_vars => IInv'
  BY NextInv
<1>3. IInv => SessionInv
  BY DEF IInv
<1> QED BY <1>1, <1>2, <1>3, PTL DEF Spec

(* What the state counts as persisted is in the session, and a run that     *)
(* returns has saved everything, but for an interruption with an output     *)
(* that a guardrail may refuse: sessionPersistence.ts with the rewind of    *)
(* turnResolution.ts, for any number of calls, runs, responses and others.  *)
THEOREM WhatIsCountedIsStored == Spec => []NothingLost
<1>1. Init => IInv
  BY InitInv
<1>2. IInv /\ [Next]_vars => IInv'
  BY NextInv
<1>3. IInv => NothingLost
  <2> SUFFICES ASSUME IInv PROVE NothingLost
    OBVIOUS
  <2>1. TypeOK /\ Recorded /\ Numbered /\ Saved
    BY InvariantParts
  <2>2. /\ ToSet(Slice(0, state.persisted)) = Counted \ Requests(CallNumbers)
        /\ ToSet(Storable(state.generated)) = Made \ Requests(CallNumbers)
        /\ Made = Counted \cup Uncounted
        /\ state.persisted = Generated => Uncounted = {}
    BY <2>1, UnsavedItems, HistoryParts
  <2>3. pc = "returned" /\ ~Deferred(state) => Made = Counted
    BY <2>1, <2>2 DEF Recorded
  <2> QED BY <2>1, <2>2, <2>3 DEF NothingLost, Saved, Held
<1> QED BY <1>1, <1>2, <1>3, PTL DEF Spec

(* A run goes on to the model with the results of the approved tools in the *)
(* session, but for those of an interruption that was not saved, and a tool *)
(* whose result was known never runs again: the write-ahead record that     *)
(* run.ts reconciles before anything else.                                  *)
THEOREM EffectsReachTheSession == Spec => []EffectsAreRecorded
<1>1. Init => IInv
  BY InitInv
<1>2. IInv /\ [Next]_vars => IInv'
  BY NextInv
<1>3. IInv => EffectsAreRecorded
  <2> SUFFICES ASSUME IInv PROVE EffectsAreRecorded
    OBVIOUS
  <2>1. TypeOK /\ Recorded /\ Answered /\ Saved
    BY InvariantParts
  <2>2. DOMAIN decisions = CallNumbers
    BY <2>1 DEF TypeOK
  <2>3. ASSUME pc = "loop", state.step = "run_again",
               NEW n \in CallNumbers \ history.deferred, decisions[n] = "approved"
        PROVE  Item("result", n) \in Held
    <3>1. Phase = "none"
      BY <2>1, <2>3 DEF Recorded
    <3>2. Item("result", n) \in Made
      BY <2>1, <2>3 DEF Answered
    <3> QED BY <2>1, <2>3, <3>1, <3>2 DEF Saved, Held
  <2> QED BY <2>1, <2>2, <2>3 DEF EffectsAreRecorded, Answered
<1> QED BY <1>1, <1>2, <1>3, PTL DEF Spec

(* The session holds no item of the run twice, but for what a rejected save *)
(* without a record stored and what follows from a wrong count: appends may *)
(* fail after any part was stored, and runs be repeated, without end.       *)
THEOREM ItemsAreStoredOnce == Spec => []StoredOnce
<1>1. Init => IInv
  BY InitInv
<1>2. IInv /\ [Next]_vars => IInv'
  BY NextInv
<1>3. IInv => StoredOnce
  BY DEF IInv, SavedOnce, Apart, StoredOnce
<1> QED BY <1>1, <1>2, <1>3, PTL DEF Spec
=============================================================================
