------------------------- MODULE McpServers_proofs -------------------------
(***************************************************************************)
(* Proofs about McpServers, for every number of servers and every way in   *)
(* which they answer, late or never.  First what the model's operators do  *)
(* with lists: Only is recursive, so that its properties are proved by     *)
(* induction, as the least element of a set of numbers.                    *)
(***************************************************************************)
EXTENDS McpServers, WellFoundedInduction, TLAPS

(* A set of numbers with 0 and all successors is Nat.                       *)
LEMMA AllNumbers ==
  ASSUME NEW S \in SUBSET Nat, 0 \in S, \A n \in S : n + 1 \in S
  PROVE  S = Nat
<1> DEFINE Less == OpToRel(<, Nat)
           Rest == Nat \ S
<1>1. \A m, n \in Nat : m < n => <<m, n>> \in Less
  BY DEF OpToRel
<1>2. IsWellFoundedOn(Less, Nat)
  BY NatLessThanWellFounded
<1> SUFFICES ASSUME Rest # {} PROVE FALSE
  OBVIOUS
<1>3. Rest \subseteq Nat
  OBVIOUS
<1> HIDE DEF Less, Rest
<1>4. \E x \in Rest : \A y \in Rest : ~ (<<y, x>> \in Less)
  BY <1>2, <1>3, WFMin
<1>5. PICK x \in Rest : \A y \in Rest : ~ (<<y, x>> \in Less)
  BY <1>4
<1>6. x \in Nat /\ x \notin S
  BY DEF Rest
<1>7. x - 1 \in Nat /\ x - 1 < x /\ (x - 1) + 1 = x
  BY <1>6
<1>8. x - 1 \in S
  BY <1>1, <1>5, <1>6, <1>7 DEF Rest
<1> QED BY <1>6, <1>7, <1>8

(* What the recursion of Only computes for the first n elements.            *)
IsFilter(f, list, set, n) ==
  f = [i \in 0 .. n |->
        IF i = 0 THEN << >>
        ELSE IF list[i] \in set THEN Append(f[i - 1], list[i])
        ELSE f[i - 1]]

LEMMA FilterExists ==
  ASSUME NEW list, NEW set, NEW n \in Nat
  PROVE  \E f : IsFilter(f, list, set, n)
<1> DEFINE S == {m \in Nat : \E f : IsFilter(f, list, set, m)}
<1>1. 0 \in S
  <2>1. IsFilter([i \in 0 .. 0 |-> << >>], list, set, 0)
    BY DEF IsFilter
  <2> QED BY <2>1
<1>2. ASSUME NEW m \in S PROVE m + 1 \in S
  <2>1. PICK f : IsFilter(f, list, set, m)
    OBVIOUS
  <2> DEFINE last == IF list[m + 1] \in set THEN Append(f[m], list[m + 1]) ELSE f[m]
             g == [i \in 0 .. m + 1 |-> IF i = m + 1 THEN last ELSE f[i]]
  <2>2. m \in Nat /\ DOMAIN f = 0 .. m
    BY <2>1 DEF IsFilter
  <2>3. \A i \in 0 .. m :
          f[i] = IF i = 0 THEN << >>
                 ELSE IF list[i] \in set THEN Append(f[i - 1], list[i])
                 ELSE f[i - 1]
    BY <2>1, <2>2 DEF IsFilter
  <2>4. g[m + 1] = last /\ \A i \in 0 .. m : g[i] = f[i]
    BY <2>2
  <2>5. ASSUME NEW i \in 0 .. m + 1
        PROVE g[i] = IF i = 0 THEN << >>
                     ELSE IF list[i] \in set THEN Append(g[i - 1], list[i])
                     ELSE g[i - 1]
    <3>1. CASE i = m + 1
      <4>1. i # 0 /\ i - 1 = m /\ m \in 0 .. m
        BY <3>1, <2>2
      <4> QED BY <3>1, <4>1, <2>4
    <3>2. CASE i # m + 1
      <4>1. i \in 0 .. m /\ (i # 0 => i - 1 \in 0 .. m)
        BY <3>2, <2>2
      <4> HIDE DEF g, last
      <4> QED BY <4>1, <2>3, <2>4
    <3> QED BY <3>1, <3>2
  <2>6. IsFilter(g, list, set, m + 1)
    BY <2>5 DEF IsFilter
  <2> QED BY <2>6
<1> HIDE DEF S
<1>3. S = Nat
  BY <1>1, <1>2, AllNumbers DEF S
<1> QED BY <1>3 DEF S

(* Only, step by step.                                                      *)
LEMMA OnlyByStep ==
  ASSUME NEW T, NEW list \in Seq(T), NEW set
  PROVE  \E f : /\ Only(list, set) = f[Len(list)]
                /\ f[0] = << >>
                /\ \A i \in 1 .. Len(list) :
                     f[i] = IF list[i] \in set THEN Append(f[i - 1], list[i])
                            ELSE f[i - 1]
<1> DEFINE k == CHOOSE f : IsFilter(f, list, set, Len(list))
<1>1. Len(list) \in Nat
  OBVIOUS
<1>2. IsFilter(k, list, set, Len(list))
  BY <1>1, FilterExists
<1>3. Only(list, set) = k[Len(list)]
  BY <1>2 DEF Only, IsFilter
<1> HIDE DEF k
<1>4. k[0] = << >>
  BY <1>1, <1>2 DEF IsFilter
<1>5. ASSUME NEW i \in 1 .. Len(list)
      PROVE  k[i] = IF list[i] \in set THEN Append(k[i - 1], list[i]) ELSE k[i - 1]
  <2>1. i \in 0 .. Len(list) /\ i # 0
    BY <1>1
  <2> QED BY <2>1, <1>2 DEF IsFilter
<1> QED BY <1>3, <1>4, <1>5

(* One more element of a list without repetitions.                          *)
LEMMA AppendDistinct ==
  ASSUME NEW T, NEW list \in Seq(T), NEW e \in T
  PROVE  /\ Append(list, e) \in Seq(T)
         /\ ToSet(Append(list, e)) = ToSet(list) \cup {e}
         /\ IsInjective(list) /\ e \notin ToSet(list) => IsInjective(Append(list, e))
<1>1. Len(Append(list, e)) = Len(list) + 1 /\ Append(list, e)[Len(list) + 1] = e
  OBVIOUS
<1>2. \A i \in 1 .. Len(list) : Append(list, e)[i] = list[i]
  OBVIOUS
<1>3. DOMAIN Append(list, e) = 1 .. Len(list) + 1 /\ DOMAIN list = 1 .. Len(list)
  OBVIOUS
<1>4. ToSet(Append(list, e)) = ToSet(list) \cup {e}
  BY <1>1, <1>2, <1>3 DEF ToSet
<1>5. ASSUME IsInjective(list), e \notin ToSet(list)
      PROVE  IsInjective(Append(list, e))
  BY <1>1, <1>2, <1>3, <1>5 DEF IsInjective, ToSet
<1> QED BY <1>4, <1>5

(* Only keeps the elements that are in the set, each as often as it was.    *)
LEMMA OnlyIsFilter ==
  ASSUME NEW T, NEW list \in Seq(T), NEW set
  PROVE  /\ Only(list, set) \in Seq(T)
         /\ ToSet(Only(list, set)) = ToSet(list) \cap set
         /\ IsInjective(list) => IsInjective(Only(list, set))
<1>1. PICK f : /\ Only(list, set) = f[Len(list)]
               /\ f[0] = << >>
               /\ \A i \in 1 .. Len(list) :
                    f[i] = IF list[i] \in set THEN Append(f[i - 1], list[i])
                           ELSE f[i - 1]
  BY OnlyByStep
<1> DEFINE First(n) == {list[i] : i \in 1 .. n}
           Good(n) == /\ f[n] \in Seq(T)
                      /\ ToSet(f[n]) = First(n) \cap set
                      /\ IsInjective(list) => IsInjective(f[n])
           S == {n \in Nat : n <= Len(list) => Good(n)}
<1>2. Len(list) \in Nat /\ DOMAIN list = 1 .. Len(list)
  OBVIOUS
<1>3. 0 \in S
  <2>1. f[0] \in Seq(T) /\ DOMAIN f[0] = {} /\ First(0) = {}
    BY <1>1
  <2> QED BY <2>1 DEF ToSet, IsInjective
<1>4. ASSUME NEW n \in S PROVE n + 1 \in S
  <2> SUFFICES ASSUME n + 1 <= Len(list) PROVE Good(n + 1)
    OBVIOUS
  <2>1. n \in Nat /\ n + 1 \in 1 .. Len(list) /\ Good(n)
    BY <1>2
  <2> DEFINE e == list[n + 1]
  <2>2. f[n + 1] = IF e \in set THEN Append(f[n], e) ELSE f[n]
    BY <2>1, <1>1
  <2>3. e \in T /\ First(n + 1) = First(n) \cup {e}
    BY <2>1, <1>2
  <2>4. IsInjective(list) => e \notin First(n)
    BY <2>1, <1>2 DEF IsInjective
  <2>5. CASE e \in set
    <3>1. /\ Append(f[n], e) \in Seq(T)
          /\ ToSet(Append(f[n], e)) = ToSet(f[n]) \cup {e}
          /\ IsInjective(f[n]) /\ e \notin ToSet(f[n]) => IsInjective(Append(f[n], e))
      BY <2>1, <2>3, AppendDistinct
    <3> HIDE DEF e, First
    <3> QED BY <3>1, <2>1, <2>2, <2>3, <2>4, <2>5
  <2>6. CASE e \notin set
    <3> HIDE DEF e, First
    <3> QED BY <2>1, <2>2, <2>3, <2>4, <2>6
  <2> QED BY <2>5, <2>6
<1> HIDE DEF S, Good
<1>5. S = Nat
  BY <1>3, <1>4, AllNumbers DEF S
<1>6. Good(Len(list))
  BY <1>2, <1>5 DEF S
<1>7. First(Len(list)) = ToSet(list)
  BY <1>2 DEF ToSet
<1> QED BY <1>1, <1>6, <1>7 DEF Good

LEMMA ReverseIsSame ==
  ASSUME NEW T, NEW list \in Seq(T)
  PROVE  /\ Reverse(list) \in Seq(T)
         /\ ToSet(Reverse(list)) = ToSet(list)
         /\ list # << >> => Reverse(list) # << >>
<1>1. Len(list) \in Nat /\ DOMAIN list = 1 .. Len(list)
  OBVIOUS
<1>2. \A i \in 1 .. Len(list) : /\ Len(list) - i + 1 \in 1 .. Len(list)
                                /\ Len(list) - (Len(list) - i + 1) + 1 = i
  BY <1>1
<1>3. DOMAIN Reverse(list) = 1 .. Len(list) /\ Reverse(list) \in Seq(T)
  BY <1>1, <1>2 DEF Reverse
<1>4. ToSet(Reverse(list)) = ToSet(list)
  BY <1>1, <1>2, <1>3 DEF ToSet, Reverse
<1>5. ASSUME list # << >> PROVE Reverse(list) # << >>
  <2>1. Len(list) > 0
    BY <1>5, <1>1
  <2> QED BY <2>1, <1>3
<1> QED BY <1>3, <1>4, <1>5

LEMMA ConcatIsUnion ==
  ASSUME NEW T, NEW a \in Seq(T), NEW b \in Seq(T)
  PROVE  /\ a \o b \in Seq(T)
         /\ ToSet(a \o b) = ToSet(a) \cup ToSet(b)
         /\ IsInjective(a) /\ IsInjective(b) /\ ToSet(a) \cap ToSet(b) = {}
              => IsInjective(a \o b)
<1>1. /\ Len(a) \in Nat /\ DOMAIN a = 1 .. Len(a)
      /\ Len(b) \in Nat /\ DOMAIN b = 1 .. Len(b)
      /\ DOMAIN (a \o b) = 1 .. Len(a) + Len(b)
  OBVIOUS
<1>2. \A i \in 1 .. Len(a) : (a \o b)[i] = a[i]
  OBVIOUS
<1>3. \A i \in 1 .. Len(a) + Len(b) : i > Len(a) =>
        (a \o b)[i] = b[i - Len(a)] /\ i - Len(a) \in 1 .. Len(b)
  BY <1>1
<1>4. \A i \in 1 .. Len(b) :
        (a \o b)[Len(a) + i] = b[i] /\ Len(a) + i \in 1 .. Len(a) + Len(b)
  BY <1>1
<1>5. ToSet(a \o b) = ToSet(a) \cup ToSet(b)
  <2>1. ToSet(a \o b) \subseteq ToSet(a) \cup ToSet(b)
    BY <1>1, <1>2, <1>3 DEF ToSet
  <2>2. ToSet(a) \subseteq ToSet(a \o b)
    BY <1>1, <1>2 DEF ToSet
  <2>3. ToSet(b) \subseteq ToSet(a \o b)
    BY <1>1, <1>4 DEF ToSet
  <2> QED BY <2>1, <2>2, <2>3
<1>6. ASSUME IsInjective(a), IsInjective(b), ToSet(a) \cap ToSet(b) = {}
      PROVE  IsInjective(a \o b)
  <2> SUFFICES ASSUME NEW i \in 1 .. Len(a) + Len(b), NEW j \in 1 .. Len(a) + Len(b),
                      (a \o b)[i] = (a \o b)[j]
               PROVE  i = j
    BY <1>1 DEF IsInjective
  <2>1. CASE i <= Len(a) /\ j <= Len(a)
    BY <2>1, <1>1, <1>2, <1>6 DEF IsInjective
  <2>2. CASE i > Len(a) /\ j > Len(a)
    BY <2>2, <1>1, <1>3, <1>6 DEF IsInjective
  <2>3. CASE i <= Len(a) /\ j > Len(a)
    <3>1. (a \o b)[i] \in ToSet(a) /\ (a \o b)[j] \in ToSet(b)
      BY <2>3, <1>1, <1>2, <1>3 DEF ToSet
    <3> QED BY <3>1, <1>6
  <2>4. CASE i > Len(a) /\ j <= Len(a)
    <3>1. (a \o b)[i] \in ToSet(b) /\ (a \o b)[j] \in ToSet(a)
      BY <2>4, <1>1, <1>2, <1>3 DEF ToSet
    <3> QED BY <3>1, <1>6
  <2> QED BY <2>1, <2>2, <2>3, <2>4, <1>1
<1> QED BY <1>5, <1>6

LEMMA HeadAndTail ==
  ASSUME NEW T, NEW list \in Seq(T), list # << >>
  PROVE  /\ Head(list) \in T /\ Tail(list) \in Seq(T)
         /\ ToSet(list) = {Head(list)} \cup ToSet(Tail(list))
         /\ IsInjective(list) => /\ IsInjective(Tail(list))
                                 /\ Head(list) \notin ToSet(Tail(list))
         /\ Len(list) > 1 => Tail(list) # << >>
         /\ Len(list) = 1 => ToSet(list) = {Head(list)}
<1>1. Len(list) \in Nat /\ Len(list) >= 1 /\ DOMAIN list = 1 .. Len(list)
  OBVIOUS
<1>2. Head(list) = list[1] /\ Head(list) \in T /\ Tail(list) \in Seq(T)
  BY <1>1
<1>3. DOMAIN Tail(list) = 1 .. Len(list) - 1 /\ Len(Tail(list)) = Len(list) - 1
  BY <1>1
<1>4. \A i \in 1 .. Len(list) - 1 : Tail(list)[i] = list[i + 1] /\ i + 1 \in 1 .. Len(list)
  BY <1>1
<1>5. \A i \in 1 .. Len(list) : i # 1 =>
        list[i] = Tail(list)[i - 1] /\ i - 1 \in 1 .. Len(list) - 1
  BY <1>1
<1>6. ToSet(list) = {Head(list)} \cup ToSet(Tail(list))
  <2>1. ToSet(Tail(list)) \subseteq ToSet(list)
    BY <1>1, <1>3, <1>4 DEF ToSet
  <2>2. Head(list) \in ToSet(list)
    BY <1>1, <1>2 DEF ToSet
  <2>3. ASSUME NEW i \in 1 .. Len(list), i # 1
        PROVE  list[i] \in ToSet(Tail(list))
    <3>1. list[i] = Tail(list)[i - 1] /\ i - 1 \in DOMAIN Tail(list)
      BY <2>3, <1>3, <1>5
    <3> QED BY <3>1 DEF ToSet
  <2>4. ToSet(list) \subseteq {Head(list)} \cup ToSet(Tail(list))
    BY <2>3, <1>1, <1>2 DEF ToSet
  <2> QED BY <2>1, <2>2, <2>4
<1>7. ASSUME IsInjective(list)
      PROVE  IsInjective(Tail(list)) /\ Head(list) \notin ToSet(Tail(list))
  BY <1>1, <1>2, <1>3, <1>4, <1>7 DEF ToSet, IsInjective
<1>8. ASSUME Len(list) > 1 PROVE Tail(list) # << >>
  <2>1. Len(Tail(list)) # 0
    BY <1>1, <1>3, <1>8
  <2>2. Len(<< >>) = 0
    OBVIOUS
  <2> QED BY <2>1, <2>2
<1>9. Len(list) = 1 => ToSet(list) = {Head(list)}
  BY <1>1, <1>2 DEF ToSet
<1> QED BY <1>2, <1>6, <1>7, <1>8, <1>9

------------------------------------------------------------------------------
(* The first half of the invariant: which operation is in which phase, and  *)
(* what is being asked of each server.                                      *)

Phases ==
  /\ op.kind = "none" <=> op.phase = "none"
  /\ op.phase = "connecting" => op.kind # "close" /\ IsInjective(op.todo)
  /\ op.phase = "closing" => op.todo # << >>
  /\ op.kind = "open" /\ op.phase = "connecting" => op.closed = {}
  /\ IsInjective(op.targets)
  /\ opened = "no" <=> op.kind = "open"
  /\ opened = "failed" => op.kind = "none"
  /\ opened # "yes" => lifecycle = << >>

(* closeTask knows whether the server is closing, also after a timeout, and *)
(* a server that was closed has nothing to answer any more.                 *)
TaskKnows(s) ==
  /\ server[s].closes = IF closeTask[s] = "pending" THEN 1 ELSE 0
  /\ server[s].connects <= 1
  /\ closeTask[s] = "ok" => server[s].connects = 0

Awaited(s) ==
  /\ waiting[s] = "connect" =>
       op.phase = "connecting" /\ closeTask[s] = "none" /\ s \notin ToSet(op.todo)
  /\ waiting[s] \in {"close", "oldClose"} =>
       op.phase = "closing" /\ closeTask[s] = "pending" /\ s = Head(op.todo)

(* Only a server that is at rest is connected, or was closed.               *)
AtRest(s) ==
  /\ op.phase = "connecting" /\ s \in ToSet(op.todo) =>
       server[s].connects = 0 /\ closeTask[s] \in {"none", "ok"}
  /\ op.phase = "closing" /\ s \in op.closed => closeTask[s] = "ok"

Calls(s) == TaskKnows(s) /\ Awaited(s) /\ AtRest(s)

CallsInv == TypeOK /\ Phases /\ \A s \in Servers : Calls(s)

------------------------------------------------------------------------------
(* What an operation does next when a connect() is over, or a close().      *)

GoesOn(phase) ==
  /\ op' \in OpType
  /\ op'.kind = op.kind /\ op'.targets = op.targets /\ op'.phase = phase
  /\ opened' = opened

Ends(result) ==
  /\ op' = NoOp
  /\ opened' = IF op.kind = "open" THEN result ELSE opened

Waits == GoesOn(op.phase) /\ op'.todo = op.todo /\ op'.closed = op.closed

Cleans ==
  /\ op.kind = "open" /\ GoesOn("closing") /\ op'.closed = op.closed
  /\ op'.todo # << >>
  /\ ToSet(op'.todo) = connected' \cup ToSet(failed')

LastOfAll(s) == \A t \in Servers \ {s} : waiting[t] # "connect"

Results == {"ok", "error", "abort", "timeout"}

LEMMA ServersAreNumbers ==
  /\ NumServers \in Nat /\ NumServers > 0
  /\ AllServers \in Seq(Servers)
  /\ ToSet(AllServers) = Servers
  /\ IsInjective(AllServers)
  /\ AllServers # << >>
<1>1. NumServers \in Nat /\ NumServers > 0
  BY ServersAssumption
<1>2. AllServers \in Seq(Servers) /\ DOMAIN AllServers = Servers
  BY <1>1 DEF AllServers, Servers
<1>3. Len(AllServers) # 0
  BY <1>1 DEF AllServers, Servers
<1>4. ToSet(AllServers) = Servers /\ IsInjective(AllServers)
  BY <1>2 DEF AllServers, ToSet, IsInjective
<1> QED BY <1>1, <1>2, <1>3, <1>4

LEMMA WithFailuresIsUnion ==
  ASSUME NEW list \in Seq(Servers), NEW servers \in Seq(Servers)
  PROVE  /\ WithFailures(list, servers) \in Seq(Servers)
         /\ ToSet(WithFailures(list, servers)) = ToSet(list) \cup ToSet(servers)
         /\ IsInjective(list) /\ IsInjective(servers)
              => IsInjective(WithFailures(list, servers))
<1> DEFINE rest == Only(servers, Servers \ ToSet(list))
<1>1. /\ rest \in Seq(Servers)
      /\ ToSet(rest) = ToSet(servers) \cap (Servers \ ToSet(list))
      /\ IsInjective(servers) => IsInjective(rest)
  BY OnlyIsFilter
<1>2. ToSet(servers) \subseteq Servers
  BY DEF ToSet
<1> HIDE DEF rest
<1>3. /\ list \o rest \in Seq(Servers)
      /\ ToSet(list \o rest) = ToSet(list) \cup ToSet(rest)
      /\ IsInjective(list) /\ IsInjective(rest) /\ ToSet(list) \cap ToSet(rest) = {}
           => IsInjective(list \o rest)
  BY <1>1, ConcatIsUnion
<1>4. WithFailures(list, servers) = list \o rest
  BY DEF WithFailures, rest
<1> QED BY <1>1, <1>2, <1>3, <1>4

LEMMA NoOpIsOp == NoOp \in OpType
BY DEF NoOp, OpType, Operations

LEMMA ConnectOutcome ==
  ASSUME TypeOK, NEW s \in Servers, NEW result \in Results,
         ConnectResolved(s, result)
  PROVE  /\ waiting' = [waiting EXCEPT ![s] = "none"]
         /\ connected' = IF result = "ok" THEN connected \cup {s} ELSE connected
         /\ failed' \in Seq(Servers) /\ IsInjective(failed')
         /\ ToSet(failed') = IF result = "ok" THEN FailedSet \ {s}
                             ELSE FailedSet \cup {s}
         /\ errors' = IF result # "ok" THEN [errors EXCEPT ![s] = result]
                      ELSE IF s \in FailedSet THEN [errors EXCEPT ![s] = "none"]
                      ELSE errors
         /\ Waits \/ (LastOfAll(s) /\ (Cleans \/ Ends("yes")))
<1>1. waiting' = [waiting EXCEPT ![s] = "none"]
  BY DEF ConnectResolved
<1>2. /\ failed \in Seq(Servers) /\ IsInjective(failed)
      /\ op \in OpType
      /\ FailedSet \subseteq Servers
      /\ connected \subseteq Servers
  BY DEF TypeOK, FailedSet, ToSet
<1>3. \E throws \in BOOLEAN : NextConnect(s, throws)
  BY DEF ConnectResolved, ConnectSucceeded, ConnectFailed, TypeOK
<1>4. /\ connected' = IF result = "ok" THEN connected \cup {s} ELSE connected
      /\ errors' = IF result # "ok" THEN [errors EXCEPT ![s] = result]
                   ELSE IF s \in FailedSet THEN [errors EXCEPT ![s] = "none"]
                   ELSE errors
      /\ failed' = IF result = "ok" THEN Only(failed, Servers \ {s})
                   ELSE WithFailures(failed, <<s>>)
  BY DEF ConnectResolved, ConnectSucceeded, ConnectFailed
<1>5. /\ failed' \in Seq(Servers) /\ IsInjective(failed')
      /\ ToSet(failed') = IF result = "ok" THEN FailedSet \ {s}
                          ELSE FailedSet \cup {s}
  <2>1. CASE result = "ok"
    <3>1. /\ Only(failed, Servers \ {s}) \in Seq(Servers)
          /\ ToSet(Only(failed, Servers \ {s})) = ToSet(failed) \cap (Servers \ {s})
          /\ IsInjective(Only(failed, Servers \ {s}))
      BY <1>2, OnlyIsFilter
    <3> QED BY <2>1, <3>1, <1>2, <1>4 DEF FailedSet
  <2>2. CASE result # "ok"
    <3>1. <<s>> \in Seq(Servers) /\ ToSet(<<s>>) = {s} /\ IsInjective(<<s>>)
      BY DEF ToSet, IsInjective
    <3> QED BY <2>2, <3>1, <1>2, <1>4, WithFailuresIsUnion DEF FailedSet
  <2> QED BY <2>1, <2>2
<1>6. Waits \/ (LastOfAll(s) /\ (Cleans \/ Ends("yes")))
  <2>1. CASE ~LastOfAll(s)
    <3>1. PICK t \in Servers \ {s} : waiting[t] = "connect"
      BY <2>1 DEF LastOfAll
    <3>2. PICK throws \in BOOLEAN : NextConnect(s, throws)
      BY <1>3
    <3>3. /\ op' = [op EXCEPT !.threw = op.threw \/ throws]
          /\ opened' = opened
      BY <3>1, <3>2 DEF NextConnect
    <3>4. op' \in OpType
      BY <1>2, <3>3 DEF OpType
    <3> QED BY <1>2, <3>3, <3>4 DEF Waits, GoesOn, OpType
  <2>2. CASE LastOfAll(s) /\ ConnectingThrows
    <3>1. CASE op.kind # "open"
      BY <2>2, <3>1 DEF ConnectingThrows, Finish, Ends
    <3>2. CASE op.kind = "open"
      <4> DEFINE started == Only(AllServers, connected')
                 list    == WithFailures(started, failed')
      <4>1. started \in Seq(Servers) /\ ToSet(started) = Servers \cap connected'
        BY OnlyIsFilter, ServersAreNumbers
      <4>2. connected' \subseteq Servers
        BY <1>2, <1>4
      <4> HIDE DEF started
      <4>3. list \in Seq(Servers) /\ ToSet(list) = ToSet(started) \cup ToSet(failed')
        BY <1>5, <4>1, WithFailuresIsUnion
      <4> HIDE DEF list
      <4>4. /\ Reverse(list) \in Seq(Servers)
            /\ ToSet(Reverse(list)) = connected' \cup ToSet(failed')
        BY <4>1, <4>2, <4>3, ReverseIsSame
      <4>5. s \in connected' \cup ToSet(failed')
        BY <1>4, <1>5
      <4>6. Reverse(list) # << >>
        BY <4>4, <4>5 DEF ToSet
      <4>7. /\ op' = [op EXCEPT !.phase = "closing", !.todo = Reverse(list)]
            /\ opened' = opened
        BY <2>2, <3>2 DEF ConnectingThrows, Cleanup, list, started
      <4> HIDE DEF list
      <4>8. op' \in OpType
        BY <1>2, <4>4, <4>7 DEF OpType
      <4>9. Cleans
        BY <1>2, <3>2, <4>4, <4>6, <4>7, <4>8 DEF Cleans, GoesOn, OpType
      <4> QED BY <2>2, <4>9
    <3> QED BY <3>1, <3>2
  <2>3. CASE LastOfAll(s) /\ ~ConnectingThrows
    <3>1. \/ UNCHANGED <<op, opened>>
          \/ Finish(FALSE)
      BY <1>3, <2>3 DEF NextConnect, LastOfAll
    <3> QED BY <1>2, <2>3, <3>1 DEF Waits, GoesOn, Finish, Ends
  <2> QED BY <2>1, <2>2, <2>3
<1> QED BY <1>1, <1>4, <1>5, <1>6

Closed(s, result) == IF result = "ok" THEN op.closed \cup {s} ELSE op.closed

CloseErrors(s, result) ==
  IF result = "ok" THEN errors ELSE [errors EXCEPT ![s] = result]

Unmoved(s, result) == failed' = failed /\ errors' = CloseErrors(s, result)

Stops(s, result) ==
  ~options.suppressAbort /\ Ends("failed") /\ Unmoved(s, result)

ClosesNext(s, result) ==
  /\ GoesOn("closing")
  /\ Len(op.todo) > 1 /\ op'.todo = Tail(op.todo)
  /\ op'.closed = Closed(s, result)
  /\ Unmoved(s, result)

Over(s, result) ==
  /\ op.kind \in {"open", "close"} /\ ToSet(op.todo) = {s}
  /\ Ends("failed")
  /\ Unmoved(s, result)

Reopens(s, result) ==
  /\ op.kind \in {"reconnectFailed", "reconnectAll"} /\ ToSet(op.todo) = {s}
  /\ op.kind = "reconnectFailed" => Unmoved(s, result)
  /\ op.kind = "reconnectAll" =>
       /\ ToSet(failed') = ToSet(op.targets)
       /\ errors' = [t \in Servers |-> IF t \in Closed(s, result) THEN "closed"
                                       ELSE CloseErrors(s, result)[t]]
  /\ \/ Ends("failed")
     \/ /\ GoesOn("connecting")
        /\ IsInjective(op'.todo)
        /\ ToSet(op'.todo) = ToSet(op.targets) \cap Closed(s, result)

LEMMA CloseOutcome ==
  ASSUME TypeOK, Phases, NEW s \in Servers, NEW result \in Results,
         op.phase = "closing", s = Head(op.todo), CloseResolved(s, result)
  PROVE  /\ waiting' = [waiting EXCEPT ![s] = "none"]
         /\ connected' = connected \ {s}
         /\ failed' \in Seq(Servers) /\ IsInjective(failed')
         /\ \/ Stops(s, result) \/ ClosesNext(s, result)
            \/ Over(s, result) \/ Reopens(s, result)
<1> DEFINE closed == Closed(s, result)
           errs   == CloseErrors(s, result)
<1>1. /\ op \in OpType /\ op.todo # << >> /\ IsInjective(op.targets)
      /\ failed \in Seq(Servers) /\ IsInjective(failed)
  BY DEF TypeOK, Phases
<1>2. /\ op.todo \in Seq(Servers) /\ op.targets \in Seq(Servers)
      /\ op.closed \subseteq Servers
  BY <1>1 DEF OpType
<1>3. /\ waiting' = [waiting EXCEPT ![s] = "none"]
      /\ connected' = connected \ {s}
  BY DEF CloseResolved, ConnectedAfterClose
<1>4. closed \subseteq Servers
  BY <1>2 DEF Closed
<1>5. \/ CloseThrows(result) /\ Unmoved(s, result) /\ Finish(TRUE)
      \/ /\ Len(op.todo) > 1 /\ Unmoved(s, result)
         /\ op' = [op EXCEPT !.todo = Tail(op.todo), !.closed = closed]
         /\ opened' = opened
      \/ Len(op.todo) = 1 /\ AfterClosing(closed, errs)
  BY DEF CloseResolved, Unmoved, Closed, CloseErrors
<1> HIDE DEF closed, errs
<1>6. CASE CloseThrows(result) /\ Unmoved(s, result) /\ Finish(TRUE)
  <2>1. Stops(s, result)
    BY <1>6 DEF CloseThrows, Stops, Finish, Ends
  <2> QED BY <1>1, <1>3, <1>6, <2>1 DEF Unmoved
<1>7. CASE /\ Len(op.todo) > 1 /\ Unmoved(s, result)
           /\ op' = [op EXCEPT !.todo = Tail(op.todo), !.closed = closed]
           /\ opened' = opened
  <2>1. Tail(op.todo) \in Seq(Servers)
    BY <1>1, <1>2
  <2>2. op' \in OpType
    BY <1>1, <1>4, <1>7, <2>1 DEF OpType
  <2>3. ClosesNext(s, result)
    BY <1>1, <1>7, <2>2 DEF ClosesNext, GoesOn, OpType, closed
  <2> QED BY <1>1, <1>3, <1>7, <2>3 DEF Unmoved
<1>8. CASE Len(op.todo) = 1 /\ AfterClosing(closed, errs)
  <2>1. ToSet(op.todo) = {s}
    BY <1>1, <1>2, <1>8, HeadAndTail
  <2>2. CASE op.kind \in {"open", "close"}
    <3>1. errors' = errs /\ failed' = failed /\ Ends("failed")
      BY <1>8, <2>2 DEF AfterClosing, Finish, Ends
    <3>2. Over(s, result)
      BY <2>1, <2>2, <3>1 DEF Over, Unmoved, errs
    <3> QED BY <1>1, <1>3, <3>1, <3>2
  <2>3. CASE op.kind \in {"reconnectFailed", "reconnectAll"}
    <3>1. /\ ClosedTargets(closed) \in Seq(Servers)
          /\ ToSet(ClosedTargets(closed)) = ToSet(op.targets) \cap closed
          /\ IsInjective(ClosedTargets(closed))
      BY <1>1, <1>2, OnlyIsFilter DEF ClosedTargets
    <3>2. /\ FailuresAfterClosing(closed) \in Seq(Servers)
          /\ ToSet(FailuresAfterClosing(closed)) = ToSet(op.targets)
          /\ IsInjective(FailuresAfterClosing(closed))
      <4> DEFINE open == Only(op.targets, Servers \ closed)
      <4>1. /\ open \in Seq(Servers) /\ IsInjective(open)
            /\ ToSet(open) = ToSet(op.targets) \cap (Servers \ closed)
        BY <1>1, <1>2, OnlyIsFilter
      <4>2. ToSet(op.targets) \subseteq Servers
        BY <1>2 DEF ToSet
      <4>3. FailuresAfterClosing(closed) = open \o ClosedTargets(closed)
        BY DEF FailuresAfterClosing
      <4> HIDE DEF open
      <4>4. /\ open \o ClosedTargets(closed) \in Seq(Servers)
            /\ ToSet(open \o ClosedTargets(closed))
                 = ToSet(open) \cup ToSet(ClosedTargets(closed))
            /\ IsInjective(open \o ClosedTargets(closed))
        BY <3>1, <4>1, ConcatIsUnion
      <4> QED BY <3>1, <4>1, <4>2, <4>3, <4>4
    <3>3. /\ StartConnecting(ClosedTargets(closed))
          /\ op.kind = "reconnectFailed" => errors' = errs /\ failed' = failed
          /\ op.kind = "reconnectAll" =>
               /\ failed' = FailuresAfterClosing(closed)
               /\ errors' = [t \in Servers |-> IF t \in closed THEN "closed"
                                               ELSE errs[t]]
      BY <1>8, <2>3 DEF AfterClosing
    <3>4. failed' \in Seq(Servers) /\ IsInjective(failed')
      BY <1>1, <2>3, <3>2, <3>3
    <3>5. \/ Ends("failed")
          \/ /\ GoesOn("connecting")
             /\ IsInjective(op'.todo)
             /\ ToSet(op'.todo) = ToSet(op.targets) \cap closed
      <4>1. CASE Finish(FALSE)
        BY <2>3, <4>1 DEF Finish, Ends
      <4>2. CASE /\ op' = [op EXCEPT !.phase = "connecting",
                                     !.todo = ClosedTargets(closed)]
                 /\ opened' = opened
        <5>1. op' \in OpType
          BY <1>1, <3>1, <4>2 DEF OpType
        <5> QED BY <1>1, <3>1, <4>2, <5>1 DEF GoesOn, OpType
      <4> QED BY <3>3, <4>1, <4>2 DEF StartConnecting
    <3>6. Reopens(s, result)
      BY <2>1, <2>3, <3>2, <3>3, <3>5 DEF Reopens, Unmoved, closed, errs
    <3> QED BY <1>3, <3>4, <3>6
  <2> QED BY <1>8, <2>2, <2>3 DEF AfterClosing
<1> QED BY <1>5, <1>6, <1>7, <1>8

------------------------------------------------------------------------------
(* CallsInv is kept, first by the answer to a connect() or a close().       *)

CallStates == [Servers -> [connects : Nat, stale : Nat, closes : Nat, live : BOOLEAN]]
Tasks      == [Servers -> {"none", "pending", "ok", "failed"}]

LEMMA NothingElseAwaited ==
  ASSUME CallsInv, op.phase = "closing"
  PROVE  \A t \in Servers : waiting[t] # "none" => t = Head(op.todo)
<1> SUFFICES ASSUME NEW t \in Servers, waiting[t] # "none"
             PROVE  t = Head(op.todo)
  OBVIOUS
<1>1. Awaited(t) /\ waiting[t] \in {"none", "connect", "close", "oldClose"}
  BY DEF CallsInv, Calls, TypeOK
<1> QED BY <1>1 DEF Awaited

LEMMA ErrorsStayTyped ==
  ASSUME TypeOK, NEW s \in Servers,
         NEW e \in {"none", "error", "abort", "timeout", "closed"}
  PROVE  [errors EXCEPT ![s] = e]
           \in [Servers -> {"none", "error", "abort", "timeout", "closed"}]
BY DEF TypeOK

LEMMA ConnectAnswered ==
  ASSUME CallsInv, NEW s \in Servers, NEW result \in Results,
         waiting[s] = "connect", ConnectResolved(s, result),
         UNCHANGED <<options, lifecycle, calls, closeTask>>,
         server' \in CallStates,
         \A t \in Servers : /\ server'[t].closes = server[t].closes
                            /\ server'[t].connects <= server[t].connects
  PROVE  CallsInv'
<1>1. /\ TypeOK /\ Phases /\ op \in OpType /\ op.todo \in Seq(Servers)
      /\ \A t \in Servers : Calls(t)
  BY DEF CallsInv, TypeOK, OpType
<1>2. op.phase = "connecting" /\ s \notin ToSet(op.todo)
  BY <1>1 DEF Calls, Awaited
<1>3. /\ waiting' = [waiting EXCEPT ![s] = "none"]
      /\ connected' = IF result = "ok" THEN connected \cup {s} ELSE connected
      /\ failed' \in Seq(Servers) /\ IsInjective(failed')
      /\ ToSet(failed') = IF result = "ok" THEN FailedSet \ {s}
                          ELSE FailedSet \cup {s}
      /\ errors' = IF result # "ok" THEN [errors EXCEPT ![s] = result]
                   ELSE IF s \in FailedSet THEN [errors EXCEPT ![s] = "none"]
                   ELSE errors
      /\ Waits \/ (LastOfAll(s) /\ (Cleans \/ Ends("yes")))
  BY <1>1, ConnectOutcome
<1>4. op' \in OpType /\ opened' \in {"no", "yes", "failed"}
  BY <1>1, <1>3, NoOpIsOp DEF Waits, Cleans, Ends, GoesOn, TypeOK
<1>5. TypeOK'
  <2>1. errors' \in [Servers -> {"none", "error", "abort", "timeout", "closed"}]
    BY <1>1, <1>3, ErrorsStayTyped DEF TypeOK, Results
  <2>2. waiting' \in [Servers -> {"none", "connect", "close", "oldClose"}]
    BY <1>1, <1>3 DEF TypeOK
  <2>3. connected' \subseteq Servers
    BY <1>1, <1>3 DEF TypeOK
  <2> QED BY <1>1, <1>3, <1>4, <2>1, <2>2, <2>3 DEF TypeOK, CallStates
<1>6. Phases'
  <2>1. CASE Waits
    BY <1>1, <1>2, <2>1 DEF Waits, GoesOn, Phases
  <2>2. CASE Cleans
    BY <1>1, <1>2, <2>2 DEF Cleans, GoesOn, Phases
  <2>3. CASE Ends("yes")
    BY <1>1, <1>2, <2>3 DEF Ends, NoOp, Phases, IsInjective
  <2> QED BY <1>3, <2>1, <2>2, <2>3
<1>7. ASSUME NEW t \in Servers PROVE Calls(t)'
  <2>1. Calls(t) /\ waiting[t] \in {"none", "connect", "close", "oldClose"}
    BY <1>1 DEF TypeOK
  <2>2. /\ server[t].connects \in Nat /\ server[t].closes \in Nat
        /\ server'[t].connects \in Nat
        /\ server'[t].closes = server[t].closes
        /\ server'[t].connects <= server[t].connects
    BY <1>1 DEF TypeOK, CallStates
  <2>3. TaskKnows(t)'
    BY <2>1, <2>2 DEF Calls, TaskKnows
  <2>4. waiting'[t] = IF t = s THEN "none" ELSE waiting[t]
    BY <1>1, <1>3 DEF TypeOK
  <2>5. CASE Waits
    <3>1. Awaited(t)'
      BY <2>1, <2>4, <2>5 DEF Calls, Awaited, Waits, GoesOn
    <3>2. AtRest(t)'
      BY <2>1, <2>2, <2>5 DEF Calls, AtRest, Waits, GoesOn
    <3> QED BY <2>3, <3>1, <3>2 DEF Calls
  <2>6. CASE LastOfAll(s) /\ (Cleans \/ Ends("yes"))
    <3>1. waiting'[t] = "none"
      BY <1>2, <2>1, <2>4, <2>6 DEF LastOfAll, Calls, Awaited
    <3>2. Awaited(t)'
      BY <3>1 DEF Awaited
    <3>3. AtRest(t)'
      <4>1. CASE Cleans
        <5>1. op'.phase = "closing" /\ op'.closed = {}
          BY <4>1, <1>1, <1>2 DEF Cleans, GoesOn, Phases
        <5> QED BY <5>1 DEF AtRest
      <4>2. CASE Ends("yes")
        BY <4>2 DEF Ends, NoOp, AtRest
      <4> QED BY <2>6, <4>1, <4>2
    <3> QED BY <2>3, <3>2, <3>3 DEF Calls
  <2> QED BY <1>3, <2>5, <2>6
<1> QED BY <1>5, <1>6, <1>7 DEF CallsInv

LEMMA CloseAnswered ==
  ASSUME CallsInv, NEW s \in Servers, NEW result \in Results,
         op.phase = "closing", s = Head(op.todo), CloseResolved(s, result),
         UNCHANGED <<options, lifecycle, calls>>,
         server' \in CallStates, closeTask' \in Tasks,
         \A t \in Servers : TaskKnows(t)',
         \A t \in Servers : closeTask[t] = "ok" => closeTask'[t] = "ok",
         result = "ok" => closeTask'[s] = "ok"
  PROVE  CallsInv'
<1>1. /\ TypeOK /\ Phases /\ op \in OpType /\ op.todo \in Seq(Servers)
      /\ \A t \in Servers : Calls(t)
  BY DEF CallsInv, TypeOK, OpType
<1>2. /\ waiting' = [waiting EXCEPT ![s] = "none"]
      /\ connected' = connected \ {s}
      /\ failed' \in Seq(Servers) /\ IsInjective(failed')
      /\ \/ Stops(s, result) \/ ClosesNext(s, result)
         \/ Over(s, result) \/ Reopens(s, result)
  BY <1>1, CloseOutcome
<1>3. op' \in OpType /\ opened' \in {"no", "yes", "failed"}
  BY <1>1, <1>2, NoOpIsOp
  DEF Stops, ClosesNext, Over, Reopens, Ends, GoesOn, TypeOK
<1>4. TypeOK'
  <2>1. CloseErrors(s, result)
          \in [Servers -> {"none", "error", "abort", "timeout", "closed"}]
    BY <1>1, ErrorsStayTyped DEF CloseErrors, TypeOK, Results
  <2>2. errors' \in [Servers -> {"none", "error", "abort", "timeout", "closed"}]
    BY <1>2, <2>1 DEF Stops, ClosesNext, Over, Reopens, Unmoved
  <2>3. waiting' \in [Servers -> {"none", "connect", "close", "oldClose"}]
    BY <1>1, <1>2 DEF TypeOK
  <2> QED BY <1>1, <1>2, <1>3, <2>2, <2>3 DEF TypeOK, CallStates, Tasks
<1>5. Phases'
  <2>1. CASE Ends("failed")
    BY <1>1, <2>1 DEF Ends, NoOp, Phases, IsInjective
  <2>2. CASE ClosesNext(s, result)
    <3>1. Tail(op.todo) # << >>
      BY <1>1, <2>2, HeadAndTail DEF Phases, ClosesNext
    <3> QED BY <1>1, <2>2, <3>1 DEF ClosesNext, GoesOn, Phases
  <2>3. CASE Reopens(s, result) /\ ~Ends("failed")
    BY <1>1, <2>3 DEF Reopens, GoesOn, Phases
  <2> QED BY <1>2, <2>1, <2>2, <2>3 DEF Stops, Over
<1>6. ASSUME NEW t \in Servers PROVE Calls(t)'
  <2>1. Calls(t)
    BY <1>1
  <2>2. waiting'[t] = "none"
    BY <1>1, <1>2, NothingElseAwaited DEF TypeOK
  <2>3. t \in Closed(s, result) => closeTask'[t] = "ok"
    BY <2>1 DEF Closed, Calls, AtRest
  <2>4. TaskKnows(t)'
    OBVIOUS
  <2>5. AtRest(t)'
    <3>1. CASE Ends("failed")
      BY <3>1 DEF Ends, NoOp, AtRest
    <3>2. CASE ClosesNext(s, result)
      BY <2>3, <3>2 DEF ClosesNext, GoesOn, AtRest
    <3>3. CASE Reopens(s, result) /\ ~Ends("failed")
      BY <2>3, <2>4, <3>3 DEF Reopens, GoesOn, AtRest, TaskKnows
    <3> QED BY <1>2, <3>1, <3>2, <3>3 DEF Stops, Over
  <2> QED BY <2>2, <2>4, <2>5 DEF Calls, Awaited
<1> QED BY <1>4, <1>5, <1>6 DEF CallsInv

(* Then by each action.                                                     *)
LEMMA InitCalls == Init => CallsInv
<1> SUFFICES ASSUME Init PROVE CallsInv
  OBVIOUS
<1>1. /\ op \in OpType /\ op.kind = "open" /\ op.phase = "connecting"
      /\ op.todo = AllServers /\ op.targets = << >> /\ op.closed = {}
  <2>1. op = [kind |-> "open", phase |-> "connecting", todo |-> AllServers,
              targets |-> << >>, closed |-> {}, threw |-> FALSE]
    BY DEF Init, NoOp
  <2>2. AllServers \in Seq(Servers) /\ << >> \in Seq(Servers)
    BY ServersAreNumbers
  <2> QED BY <2>1, <2>2 DEF OpType, Operations
<1>2. IsInjective(<< >>) /\ << >> \in Seq(Servers)
  BY DEF IsInjective
<1>3. TypeOK
  BY <1>1, <1>2, ServersAssumption DEF Init, TypeOK
<1>4. Phases
  BY <1>1, <1>2, ServersAreNumbers DEF Init, Phases
<1>5. \A s \in Servers : Calls(s)
  BY <1>1 DEF Init, Calls, TaskKnows, Awaited, AtRest
<1> QED BY <1>3, <1>4, <1>5 DEF CallsInv

Kind == Head(lifecycle)

(* An operation starts with a list to close, or has nothing to do.          *)
LEMMA BeginOutcome ==
  ASSUME TypeOK, Phases, Begin
  PROVE  /\ op.kind = "none" /\ opened = "yes"
         /\ Kind \in Operations /\ lifecycle' \in Seq(Operations)
         /\ Targets(Kind) \in Seq(Servers) /\ IsInjective(Targets(Kind))
         /\ op' \in OpType
         /\ \/ op' = NoOp /\ Targets(Kind) = << >>
            \/ /\ op'.kind = Kind /\ op'.phase = "closing" /\ op'.todo # << >>
               /\ op'.targets = Targets(Kind) /\ op'.closed = {}
               /\ ToSet(op'.todo) = ToSet(Targets(Kind))
         /\ failed' \in Seq(Servers) /\ IsInjective(failed')
         /\ ToSet(failed') = IF Kind = "reconnectAll" THEN Servers ELSE FailedSet
         /\ errors' = IF Kind = "reconnectAll"
                      THEN [s \in Servers |-> IF s \in FailedSet THEN errors[s]
                                              ELSE "closed"]
                      ELSE errors
<1>1. /\ op.kind = "none" /\ lifecycle # << >> /\ lifecycle' = Tail(lifecycle)
      /\ op' = IF Targets(Kind) = << >> THEN NoOp
               ELSE [NoOp EXCEPT !.kind    = Kind,
                                 !.phase   = "closing",
                                 !.todo    = Reverse(Targets(Kind)),
                                 !.targets = Targets(Kind)]
  BY DEF Begin, Kind
<1>2. /\ opened = "yes"
      /\ Kind \in Operations /\ lifecycle' \in Seq(Operations)
      /\ failed \in Seq(Servers) /\ IsInjective(failed)
  BY <1>1 DEF Phases, TypeOK, Kind
<1>3. Targets(Kind) \in Seq(Servers) /\ IsInjective(Targets(Kind))
  BY <1>2, ServersAreNumbers DEF Targets
<1>4. Targets(Kind) # << >> =>
        /\ Reverse(Targets(Kind)) \in Seq(Servers)
        /\ ToSet(Reverse(Targets(Kind))) = ToSet(Targets(Kind))
        /\ Reverse(Targets(Kind)) # << >>
  BY <1>3, ReverseIsSame
<1>5. op' \in OpType
  BY <1>1, <1>2, <1>3, <1>4, NoOpIsOp DEF NoOp, OpType
<1>6. \/ op' = NoOp /\ Targets(Kind) = << >>
      \/ /\ op'.kind = Kind /\ op'.phase = "closing" /\ op'.todo # << >>
         /\ op'.targets = Targets(Kind) /\ op'.closed = {}
         /\ ToSet(op'.todo) = ToSet(Targets(Kind))
  BY <1>1, <1>4 DEF NoOp
<1>7. FailedSet \subseteq Servers
  BY <1>2 DEF FailedSet, ToSet
<1>8. CASE Kind = "reconnectAll"
  <2>1. /\ failed' = WithFailures(failed, AllServers)
        /\ errors' = [s \in Servers |-> IF s \in FailedSet THEN errors[s] ELSE "closed"]
    BY <1>8 DEF Begin, Kind
  <2>2. /\ WithFailures(failed, AllServers) \in Seq(Servers)
        /\ ToSet(WithFailures(failed, AllServers)) = FailedSet \cup Servers
        /\ IsInjective(WithFailures(failed, AllServers))
    BY <1>2, WithFailuresIsUnion, ServersAreNumbers DEF FailedSet
  <2> QED BY <1>1, <1>2, <1>3, <1>5, <1>6, <1>7, <1>8, <2>1, <2>2
<1>9. CASE Kind # "reconnectAll"
  <2>1. failed' = failed /\ errors' = errors
    BY <1>9 DEF Begin, Kind
  <2> QED BY <1>1, <1>2, <1>3, <1>5, <1>6, <1>9, <2>1 DEF FailedSet
<1> QED BY <1>8, <1>9

LEMMA BeginKeepsCalls ==
  ASSUME CallsInv, Begin, UNCHANGED options
  PROVE  CallsInv'
<1>1. /\ TypeOK /\ Phases /\ \A s \in Servers : Calls(s)
      /\ UNCHANGED <<calls, opened, connected, closeTask, waiting, server>>
  BY DEF CallsInv, Begin
<1>2. /\ op.kind = "none" /\ opened = "yes"
      /\ lifecycle' \in Seq(Operations) /\ Kind \in Operations
      /\ IsInjective(Targets(Kind))
      /\ op' \in OpType
      /\ \/ op' = NoOp
         \/ /\ op'.kind = Kind /\ op'.phase = "closing" /\ op'.todo # << >>
            /\ op'.targets = Targets(Kind) /\ op'.closed = {}
      /\ failed' \in Seq(Servers) /\ IsInjective(failed')
      /\ errors' = IF Kind = "reconnectAll"
                   THEN [s \in Servers |-> IF s \in FailedSet THEN errors[s]
                                           ELSE "closed"]
                   ELSE errors
  BY <1>1, BeginOutcome
<1>3. errors' \in [Servers -> {"none", "error", "abort", "timeout", "closed"}]
  BY <1>1, <1>2 DEF TypeOK
<1>4. TypeOK'
  BY <1>1, <1>2, <1>3 DEF TypeOK
<1>5. Phases'
  BY <1>1, <1>2 DEF Phases, NoOp, IsInjective, Operations
<1>6. ASSUME NEW s \in Servers PROVE Calls(s)'
  <2>1. Calls(s) /\ waiting[s] \in {"none", "connect", "close", "oldClose"}
    BY <1>1 DEF TypeOK
  <2>2. waiting[s] = "none"
    BY <1>1, <1>2, <2>1 DEF Phases, Calls, Awaited
  <2> QED BY <1>1, <1>2, <2>1, <2>2 DEF Calls, TaskKnows, Awaited, AtRest, NoOp
<1> QED BY <1>4, <1>5, <1>6 DEF CallsInv

LEMMA RequestKeepsCalls ==
  ASSUME CallsInv, NEW kind \in Operations, Request(kind), UNCHANGED options
  PROVE  CallsInv'
<1>1. TypeOK'
  <2>1. Append(lifecycle, kind) \in Seq(Operations) /\ calls + 1 \in 0 .. MaxOperations
    BY ServersAssumption DEF CallsInv, Request, TypeOK
  <2> QED BY <2>1 DEF CallsInv, Request, TypeOK
<1>2. Phases'
  BY DEF CallsInv, Request, Phases
<1>3. \A s \in Servers : Calls(s)'
  BY DEF CallsInv, Request, Calls, TaskKnows, Awaited, AtRest
<1> QED BY <1>1, <1>2, <1>3 DEF CallsInv

(* The servers that are connected now are the first, or all, of the list.   *)
LEMMA ConnectOne ==
  ASSUME CallsInv, Connect
  PROVE  /\ op.phase = "connecting" /\ Connecting \subseteq ToSet(op.todo)
         /\ op' \in OpType
         /\ op' = [op EXCEPT !.todo = op'.todo] /\ IsInjective(op'.todo)
         /\ ToSet(op'.todo) = ToSet(op.todo) \ Connecting
<1>1. op \in OpType /\ op.phase = "connecting" /\ op.todo # << >>
  BY DEF CallsInv, TypeOK, Connect
<1>2. op.todo \in Seq(Servers) /\ IsInjective(op.todo)
  BY <1>1 DEF CallsInv, Phases, OpType
<1>3. op' = [op EXCEPT !.todo = IF options.parallel THEN << >> ELSE Tail(op.todo)]
  BY DEF Connect
<1>4. CASE options.parallel
  <2>1. op' = [op EXCEPT !.todo = << >>] /\ Connecting = ToSet(op.todo)
    BY <1>3, <1>4 DEF Connecting
  <2>2. << >> \in Seq(Servers) /\ ToSet(<< >>) = {} /\ IsInjective(<< >>)
    BY DEF ToSet, IsInjective
  <2> QED BY <1>1, <2>1, <2>2 DEF OpType
<1>5. CASE ~options.parallel
  <2>1. op' = [op EXCEPT !.todo = Tail(op.todo)] /\ Connecting = {Head(op.todo)}
    BY <1>3, <1>5 DEF Connecting
  <2>2. /\ Tail(op.todo) \in Seq(Servers)
        /\ ToSet(op.todo) = {Head(op.todo)} \cup ToSet(Tail(op.todo))
        /\ IsInjective(Tail(op.todo)) /\ Head(op.todo) \notin ToSet(Tail(op.todo))
    BY <1>1, <1>2, HeadAndTail
  <2> QED BY <1>1, <2>1, <2>2 DEF OpType
<1> QED BY <1>4, <1>5

LEMMA ConnectKeepsCalls ==
  ASSUME CallsInv, Connect, UNCHANGED options
  PROVE  CallsInv'
<1>1. /\ TypeOK /\ Phases /\ \A s \in Servers : Calls(s)
      /\ UNCHANGED <<lifecycle, calls, opened, connected, failed, errors>>
      /\ \A s \in Servers : waiting[s] = "none"
      /\ waiting' = [s \in Servers |->
                      IF s \in Connecting THEN "connect" ELSE waiting[s]]
      /\ closeTask' = [s \in Servers |->
                        IF s \in Connecting THEN "none" ELSE closeTask[s]]
      /\ server' = [s \in Servers |->
                     IF s \in Connecting THEN [server[s] EXCEPT !.connects = @ + 1]
                                         ELSE server[s]]
  BY DEF CallsInv, Connect
<1>2. /\ op.phase = "connecting" /\ Connecting \subseteq ToSet(op.todo)
      /\ op' \in OpType
      /\ op' = [op EXCEPT !.todo = op'.todo] /\ IsInjective(op'.todo)
      /\ ToSet(op'.todo) = ToSet(op.todo) \ Connecting
  BY ConnectOne
<1>3. /\ op'.kind = op.kind /\ op'.phase = op.phase /\ op'.targets = op.targets
      /\ op'.closed = op.closed
  BY <1>1, <1>2 DEF TypeOK, OpType
<1>4. TypeOK'
  <2>1. \A s \in Servers : [server[s] EXCEPT !.connects = @ + 1]
                              \in [connects : Nat, stale : Nat, closes : Nat, live : BOOLEAN]
    <3>1. \A s \in Servers : server[s] \in [connects : Nat, stale : Nat, closes : Nat, live : BOOLEAN]
      BY <1>1 DEF TypeOK
    <3> QED BY <3>1
  <2>4. server' \in CallStates
    BY <1>1, <2>1 DEF TypeOK, CallStates
  <2>2. waiting' \in [Servers -> {"none", "connect", "close", "oldClose"}]
    BY <1>1 DEF TypeOK
  <2>3. closeTask' \in [Servers -> {"none", "pending", "ok", "failed"}]
    BY <1>1 DEF TypeOK
  <2> QED BY <1>1, <1>2, <2>2, <2>3, <2>4 DEF TypeOK, CallStates
<1>5. Phases'
  BY <1>1, <1>2, <1>3 DEF Phases
<1>6. ASSUME NEW s \in Servers PROVE Calls(s)'
  <2>1. Calls(s) /\ server[s] \in [connects : Nat, stale : Nat, closes : Nat, live : BOOLEAN]
    BY <1>1 DEF TypeOK
  <2>2. CASE s \in Connecting
    <3>1. /\ waiting'[s] = "connect" /\ closeTask'[s] = "none"
          /\ server'[s].connects = server[s].connects + 1
          /\ server'[s].closes = server[s].closes
      BY <1>1, <2>1, <2>2
    <3>2. server[s].connects = 0 /\ server[s].closes = 0
      BY <1>2, <2>1, <2>2 DEF Calls, AtRest, TaskKnows
    <3> QED BY <1>2, <1>3, <2>2, <3>1, <3>2 DEF Calls, TaskKnows, Awaited, AtRest
  <2>3. CASE s \notin Connecting
    <3>1. /\ waiting'[s] = "none" /\ closeTask'[s] = closeTask[s]
          /\ server'[s] = server[s]
      BY <1>1, <2>3
    <3> QED BY <1>2, <1>3, <2>1, <3>1 DEF Calls, TaskKnows, Awaited, AtRest
  <2> QED BY <2>2, <2>3
<1> QED BY <1>4, <1>5, <1>6 DEF CallsInv

LEMMA ServersAreTyped ==
  ASSUME TypeOK, NEW s \in Servers
  PROVE  /\ server[s] \in [connects : Nat, stale : Nat, closes : Nat, live : BOOLEAN]
         /\ server[s].connects \in Nat /\ server[s].closes \in Nat
         /\ server[s].stale \in Nat
         /\ server[s].live \in BOOLEAN
         /\ closeTask[s] \in {"none", "pending", "ok", "failed"}
         /\ waiting[s] \in {"none", "connect", "close", "oldClose"}
BY DEF TypeOK

(* close() is called on the server at the head of the list.                 *)
LEMMA CallCloseKeepsCalls ==
  ASSUME CallsInv, op.phase = "closing", NEW s \in Servers, s = Head(op.todo),
         CallClose(s), UNCHANGED <<options, lifecycle, calls, op, opened, connected>>,
         failed' = failed,
         errors' \in [Servers -> {"none", "error", "abort", "timeout", "closed"}],
         server' \in CallStates,
         server'[s].closes = 1, server'[s].connects = server[s].connects,
         closeTask[s] # "ok",
         \A t \in Servers \ {s} : server'[t] = server[t]
  PROVE  CallsInv'
<1>1. /\ TypeOK /\ Phases /\ \A t \in Servers : Calls(t)
      /\ waiting' = [waiting EXCEPT ![s] = "close"]
      /\ closeTask' = [closeTask EXCEPT ![s] = "pending"]
  BY DEF CallsInv, CallClose
<1>2. TypeOK'
  <2>1. waiting' \in [Servers -> {"none", "connect", "close", "oldClose"}]
    BY <1>1 DEF TypeOK
  <2>2. closeTask' \in [Servers -> {"none", "pending", "ok", "failed"}]
    BY <1>1 DEF TypeOK
  <2> QED BY <1>1, <2>1, <2>2 DEF TypeOK, CallStates
<1>3. Phases'
  BY <1>1 DEF Phases
<1>4. ASSUME NEW t \in Servers PROVE Calls(t)'
  <2>1. Calls(t)
    BY <1>1
  <2>2. CASE t = s
    <3>1. waiting'[t] = "close" /\ closeTask'[t] = "pending"
      BY <1>1, <2>2 DEF TypeOK
    <3>2. t \notin op.closed
      BY <2>1, <2>2 DEF Calls, AtRest
    <3> QED BY <2>1, <2>2, <3>1, <3>2 DEF Calls, TaskKnows, Awaited, AtRest
  <2>3. CASE t # s
    <3>1. waiting'[t] = waiting[t] /\ closeTask'[t] = closeTask[t]
          /\ server'[t] = server[t]
      BY <1>1, <2>3 DEF TypeOK
    <3> QED BY <2>1, <3>1 DEF Calls, TaskKnows, Awaited, AtRest
  <2> QED BY <2>2, <2>3
<1> QED BY <1>2, <1>3, <1>4 DEF CallsInv

LEMMA CloseServerKeepsCalls ==
  ASSUME CallsInv, CloseServer, UNCHANGED options
  PROVE  CallsInv'
<1> DEFINE s == Head(op.todo)
<1>1. /\ TypeOK /\ Phases /\ \A t \in Servers : Calls(t)
      /\ op.phase = "closing" /\ op.todo # << >> /\ op.todo \in Seq(Servers)
  BY DEF CallsInv, CloseServer, Phases, TypeOK, OpType
<1>2. s \in Servers
  BY <1>1
<1>3. /\ server[s] \in [connects : Nat, stale : Nat, closes : Nat, live : BOOLEAN]
      /\ server[s].closes \in Nat
      /\ closeTask[s] \in {"none", "pending", "ok", "failed"}
  BY <1>1, <1>2, ServersAreTyped
<1>4. CASE closeTask[s] = "ok"
  <2>1. /\ CloseResolved(s, "ok")
        /\ UNCHANGED <<lifecycle, calls, closeTask, server>>
    BY <1>4 DEF CloseServer
  <2>2. server' \in CallStates /\ closeTask' \in Tasks
    BY <1>1, <2>1 DEF TypeOK, CallStates, Tasks
  <2>3. \A t \in Servers : TaskKnows(t)'
    BY <1>1, <2>1 DEF Calls, TaskKnows
  <2> QED BY <1>1, <1>2, <1>4, <2>1, <2>2, <2>3, CloseAnswered DEF Results
<1>5. CASE closeTask[s] = "pending"
  <2>1. /\ waiting' = [waiting EXCEPT ![s] = "oldClose"]
        /\ UNCHANGED <<manager, closeTask, server>>
    BY <1>5 DEF CloseServer
  <2>2. TypeOK'
    BY <1>1, <1>2, <2>1 DEF TypeOK, manager
  <2>3. Phases'
    BY <1>1, <2>1 DEF Phases, manager
  <2>4. ASSUME NEW t \in Servers PROVE Calls(t)'
    BY <1>1, <1>2, <1>5, <2>1
    DEF Calls, TaskKnows, Awaited, AtRest, manager, TypeOK
  <2> QED BY <2>2, <2>3, <2>4 DEF CallsInv
<1>6. CASE closeTask[s] \in {"none", "failed"}
  <2>1. /\ CallClose(s)
        /\ server' = [server EXCEPT ![s].closes = @ + 1]
        /\ UNCHANGED manager
    BY <1>6 DEF CloseServer
  <2>2. server[s].closes = 0
    BY <1>1, <1>2, <1>6 DEF Calls, TaskKnows
  <2>3. server' \in CallStates
    <3>1. server \in CallStates
      BY <1>1 DEF TypeOK, CallStates
    <3>2. server' = [server EXCEPT ![s] = [server[s] EXCEPT !.closes = @ + 1]]
      BY <2>1
    <3>3. [server[s] EXCEPT !.closes = @ + 1]
            \in [connects : Nat, stale : Nat, closes : Nat, live : BOOLEAN]
      BY <1>3
    <3> HIDE DEF s
    <3> QED BY <1>2, <3>1, <3>2, <3>3 DEF CallStates
  <2>4. /\ server'[s].closes = 1 /\ server'[s].connects = server[s].connects
        /\ \A t \in Servers \ {s} : server'[t] = server[t]
    BY <1>1, <1>2, <1>3, <2>1, <2>2 DEF TypeOK
  <2>5. /\ UNCHANGED <<lifecycle, calls, op, opened, connected>>
        /\ failed' = failed
        /\ errors' \in [Servers -> {"none", "error", "abort", "timeout", "closed"}]
    BY <1>1, <2>1 DEF manager, TypeOK
  <2> HIDE DEF s
  <2> QED BY <1>1, <1>2, <1>6, <2>1, <2>3, <2>4, <2>5, CallCloseKeepsCalls DEF s
<1> QED BY <1>3, <1>4, <1>5, <1>6

LEMMA TimeoutsKeepCalls ==
  ASSUME CallsInv, NEW s \in Servers, ConnectTimesOut(s) \/ CloseTimesOut(s),
         UNCHANGED options
  PROVE  CallsInv'
<1>1. /\ TypeOK /\ Phases /\ \A t \in Servers : Calls(t)
      /\ UNCHANGED <<lifecycle, calls, closeTask, server>>
  BY DEF CallsInv, ConnectTimesOut, CloseTimesOut
<1>2. server' \in CallStates /\ closeTask' \in Tasks
  BY <1>1 DEF TypeOK, CallStates, Tasks
<1>3. CASE ConnectTimesOut(s)
  <2>1. waiting[s] = "connect" /\ ConnectResolved(s, "timeout")
    BY <1>3 DEF ConnectTimesOut
  <2>2. \A t \in Servers : server[t].connects \in Nat
    BY <1>1, ServersAreTyped
  <2> QED BY <1>1, <1>2, <2>1, <2>2, ConnectAnswered DEF Results
<1>4. CASE CloseTimesOut(s)
  <2>1. waiting[s] \in {"close", "oldClose"} /\ CloseResolved(s, "timeout")
    BY <1>4 DEF CloseTimesOut
  <2>2. op.phase = "closing" /\ s = Head(op.todo)
    BY <1>1, <2>1 DEF Calls, Awaited
  <2>3. \A t \in Servers : TaskKnows(t)'
    BY <1>1 DEF Calls, TaskKnows
  <2> QED BY <1>1, <1>2, <2>1, <2>2, <2>3, CloseAnswered DEF Results
<1> QED BY <1>3, <1>4

(* An answer that nobody awaits.                                            *)
LEMMA LateAnswerKeepsCalls ==
  ASSUME CallsInv,
         UNCHANGED <<options, lifecycle, calls, op, opened, connected, failed, waiting>>,
         errors' \in [Servers -> {"none", "error", "abort", "timeout", "closed"}],
         server' \in CallStates, closeTask' \in Tasks,
         \A t \in Servers : /\ TaskKnows(t)'
                            /\ server'[t].connects <= server[t].connects
                            /\ waiting[t] # "none" => closeTask'[t] = closeTask[t]
                            /\ closeTask'[t] = closeTask[t] \/
                                 /\ closeTask[t] = "pending"
                                 /\ closeTask'[t] \in {"ok", "failed"}
  PROVE  CallsInv'
<1>1. TypeOK /\ Phases /\ \A t \in Servers : Calls(t)
  BY DEF CallsInv
<1>2. TypeOK'
  BY <1>1 DEF TypeOK, CallStates, Tasks
<1>3. Phases'
  BY <1>1 DEF Phases
<1>4. ASSUME NEW t \in Servers PROVE Calls(t)'
  <2>1. /\ Calls(t) /\ TaskKnows(t)'
        /\ server[t].connects \in Nat /\ server'[t].connects \in Nat
    BY <1>1, ServersAreTyped DEF CallStates
  <2>2. Awaited(t)'
    BY <2>1 DEF Calls, Awaited
  <2>3. AtRest(t)'
    BY <2>1 DEF Calls, AtRest
  <2> QED BY <2>1, <2>2, <2>3 DEF Calls
<1> QED BY <1>2, <1>3, <1>4 DEF CallsInv

(* One server's calls change.                                               *)
LEMMA OneServer ==
  ASSUME TypeOK, NEW s \in Servers,
         NEW new \in [connects : Nat, stale : Nat, closes : Nat, live : BOOLEAN],
         server' = [server EXCEPT ![s] = new]
  PROVE  /\ server' \in CallStates /\ server'[s] = new
         /\ \A t \in Servers \ {s} : server'[t] = server[t]
BY DEF TypeOK, CallStates

LEMMA OneTask ==
  ASSUME TypeOK, NEW s \in Servers, NEW new \in {"none", "pending", "ok", "failed"},
         closeTask' = [closeTask EXCEPT ![s] = new]
  PROVE  /\ closeTask' \in Tasks /\ closeTask'[s] = new
         /\ \A t \in Servers \ {s} : closeTask'[t] = closeTask[t]
BY DEF TypeOK, Tasks

(* What a server does when it answers.                                      *)
LEMMA ServerConnectsOutcome ==
  ASSUME TypeOK, NEW s \in Servers, ServerConnects(s)
  PROVE  /\ UNCHANGED <<lifecycle, calls, closeTask>>
         /\ server' \in CallStates
         /\ server[s].connects > 0
         /\ server'[s].connects = server[s].connects - 1
         /\ server'[s].closes = server[s].closes
         /\ server[s].live => server'[s].live
         /\ \A t \in Servers \ {s} : server'[t] = server[t]
         /\ \/ /\ waiting[s] = "connect"
               /\ \E result \in Results : /\ ConnectResolved(s, result)
                                          /\ result = "ok" => server'[s].live
            \/ /\ waiting[s] # "connect"
               /\ UNCHANGED <<waiting, op, opened, connected, failed, errors>>
<1>1. PICK result \in {"ok", "error", "abort"} :
        /\ server[s].connects > 0
        /\ server' = [server EXCEPT ![s].connects = @ - 1,
                                    ![s].live = @ \/ result = "ok"]
        /\ \/ waiting[s] = "connect" /\ ConnectResolved(s, result)
           \/ /\ waiting[s] # "connect"
              /\ UNCHANGED <<waiting, op, opened, connected, failed, errors>>
        /\ UNCHANGED <<lifecycle, calls, closeTask>>
  BY DEF ServerConnects
<1>2. /\ server[s] \in [connects : Nat, stale : Nat, closes : Nat, live : BOOLEAN]
      /\ server \in [Servers -> [connects : Nat, stale : Nat, closes : Nat, live : BOOLEAN]]
  BY DEF TypeOK
<1> DEFINE live == server[s].live \/ result = "ok"
           less == [server[s] EXCEPT !.connects = server[s].connects - 1]
           new  == [less EXCEPT !.live = live]
<1>3. live \in BOOLEAN /\ (server[s].live => live) /\ (result = "ok" => live)
  OBVIOUS
<1>4. server' = [server EXCEPT ![s].connects = server[s].connects - 1, ![s].live = live]
  BY <1>1, <1>2
<1> HIDE DEF live
<1>5. server' = [server EXCEPT ![s] = new]
  BY <1>2, <1>4
<1>6. /\ new \in [connects : Nat, stale : Nat, closes : Nat, live : BOOLEAN]
      /\ new.connects = server[s].connects - 1 /\ new.closes = server[s].closes
      /\ new.live = live
  <2>1. server[s].connects - 1 \in Nat
    BY <1>1, <1>2
  <2>2. /\ less \in [connects : Nat, stale : Nat, closes : Nat, live : BOOLEAN]
        /\ less.connects = server[s].connects - 1 /\ less.closes = server[s].closes
    BY <1>2, <2>1
  <2> HIDE DEF less
  <2> QED BY <1>3, <2>2
<1> HIDE DEF new
<1>7. /\ server' \in CallStates /\ server'[s] = new
      /\ \A t \in Servers \ {s} : server'[t] = server[t]
  BY <1>5, <1>6, OneServer
<1>8. result \in Results
  BY DEF Results
<1> QED BY <1>1, <1>3, <1>6, <1>7, <1>8

LEMMA ServerConnectsKeepsCalls ==
  ASSUME CallsInv, NEW s \in Servers, ServerConnects(s), UNCHANGED options
  PROVE  CallsInv'
<1>1. TypeOK /\ Phases /\ \A t \in Servers : Calls(t)
  BY DEF CallsInv
<1>2. /\ UNCHANGED <<lifecycle, calls, closeTask>>
      /\ server' \in CallStates
      /\ server'[s].connects = server[s].connects - 1
      /\ server[s].connects > 0
      /\ server'[s].closes = server[s].closes
      /\ \A t \in Servers \ {s} : server'[t] = server[t]
      /\ \/ /\ waiting[s] = "connect"
            /\ \E result \in Results : ConnectResolved(s, result)
         \/ UNCHANGED <<waiting, op, opened, connected, failed, errors>>
  BY <1>1, ServerConnectsOutcome
<1>3. \A t \in Servers : server[t].connects \in Nat /\ server[t].closes \in Nat
  BY <1>1, ServersAreTyped
<1>4. \A t \in Servers : /\ server'[t].closes = server[t].closes
                         /\ server'[t].connects <= server[t].connects
  BY <1>2, <1>3
<1>5. CASE /\ waiting[s] = "connect"
           /\ \E result \in Results : ConnectResolved(s, result)
  BY <1>1, <1>2, <1>4, <1>5, ConnectAnswered
<1>6. CASE UNCHANGED <<waiting, op, opened, connected, failed, errors>>
  <2>1. closeTask' \in Tasks
        /\ errors' \in [Servers -> {"none", "error", "abort", "timeout", "closed"}]
    BY <1>1, <1>2, <1>6 DEF TypeOK, Tasks
  <2>2. \A t \in Servers : server'[t].connects \in Nat
    BY <1>2 DEF CallStates
  <2>3. \A t \in Servers : TaskKnows(t)'
    BY <1>1, <1>2, <1>3, <1>4, <2>2 DEF Calls, TaskKnows
  <2> QED BY <1>2, <1>4, <1>6, <2>1, <2>3, LateAnswerKeepsCalls
<1> QED BY <1>2, <1>5, <1>6

JustClosed(s) ==
  [connects |-> 0, stale |-> server[s].stale + server[s].connects,
   closes |-> 0, live |-> FALSE]

LEMMA ServerClosesOutcome ==
  ASSUME CallsInv, NEW s \in Servers, ServerCloses(s)
  PROVE  /\ UNCHANGED <<lifecycle, calls>>
         /\ closeTask[s] = "pending"
         /\ server' \in CallStates /\ closeTask' \in Tasks
         /\ server'[s] = JustClosed(s) /\ server'[s].connects = 0
         /\ server'[s].closes = 0 /\ ~server'[s].live
         /\ closeTask'[s] = "ok"
         /\ \A t \in Servers \ {s} : server'[t] = server[t] /\ closeTask'[t] = closeTask[t]
         /\ \/ /\ op.phase = "closing" /\ s = Head(op.todo)
               /\ CloseResolved(s, "ok")
            \/ /\ waiting[s] = "none"
               /\ UNCHANGED <<waiting, op, opened, connected, failed, errors>>
<1>1. /\ server[s].closes > 0
      /\ server' = [server EXCEPT ![s] =
                      [connects |-> 0,
                       stale    |-> server[s].stale + server[s].connects,
                       closes   |-> server[s].closes - 1,
                       live     |-> FALSE]]
      /\ closeTask' = [closeTask EXCEPT ![s] = "ok"]
      /\ \/ waiting[s] # "none" /\ CloseResolved(s, "ok")
         \/ /\ waiting[s] = "none"
            /\ UNCHANGED <<waiting, op, opened, connected, failed, errors>>
      /\ UNCHANGED <<lifecycle, calls>>
  BY DEF ServerCloses
<1>2. TypeOK /\ Calls(s)
  BY DEF CallsInv
<1>3. closeTask[s] = "pending" /\ server[s].closes = 1
  BY <1>1, <1>2 DEF Calls, TaskKnows
<1>4. server' = [server EXCEPT ![s] = JustClosed(s)]
  BY <1>1, <1>3 DEF JustClosed
<1>5. /\ server' \in CallStates
      /\ server'[s] = JustClosed(s)
      /\ \A t \in Servers \ {s} : server'[t] = server[t]
  <2>1. server[s].stale + server[s].connects \in Nat
    BY <1>2, ServersAreTyped
  <2>2. JustClosed(s) \in [connects : Nat, stale : Nat, closes : Nat, live : BOOLEAN]
    BY <2>1 DEF JustClosed
  <2> QED BY <1>2, <1>4, <2>2, OneServer
<1>8. server'[s].connects = 0 /\ server'[s].closes = 0 /\ ~server'[s].live
  BY <1>5 DEF JustClosed
<1>6. /\ closeTask' \in Tasks /\ closeTask'[s] = "ok"
      /\ \A t \in Servers \ {s} : closeTask'[t] = closeTask[t]
  BY <1>1, <1>2, OneTask
<1>7. waiting[s] # "none" => op.phase = "closing" /\ s = Head(op.todo)
  BY <1>2, <1>3, ServersAreTyped DEF Calls, Awaited
<1> QED BY <1>1, <1>3, <1>5, <1>6, <1>7, <1>8

LEMMA ServerClosesKeepsCalls ==
  ASSUME CallsInv, NEW s \in Servers, ServerCloses(s), UNCHANGED options
  PROVE  CallsInv'
<1>1. /\ UNCHANGED <<lifecycle, calls>>
      /\ closeTask[s] = "pending"
      /\ server' \in CallStates /\ closeTask' \in Tasks
      /\ server'[s].connects = 0 /\ server'[s].closes = 0
      /\ closeTask'[s] = "ok"
      /\ \A t \in Servers \ {s} : server'[t] = server[t] /\ closeTask'[t] = closeTask[t]
      /\ \/ /\ op.phase = "closing" /\ s = Head(op.todo)
            /\ CloseResolved(s, "ok")
         \/ /\ waiting[s] = "none"
            /\ UNCHANGED <<waiting, op, opened, connected, failed, errors>>
  BY ServerClosesOutcome
<1>2. TypeOK /\ \A t \in Servers : Calls(t)
  BY DEF CallsInv
<1>3. \A t \in Servers : server[t].connects \in Nat
  BY <1>2, ServersAreTyped
<1>4. \A t \in Servers : TaskKnows(t)'
  BY <1>1, <1>2 DEF Calls, TaskKnows
<1>5. \A t \in Servers : closeTask[t] = "ok" => closeTask'[t] = "ok"
  BY <1>1
<1>6. CASE /\ op.phase = "closing" /\ s = Head(op.todo)
           /\ CloseResolved(s, "ok")
  BY <1>1, <1>4, <1>5, <1>6, CloseAnswered DEF Results
<1>7. CASE /\ waiting[s] = "none"
           /\ UNCHANGED <<waiting, op, opened, connected, failed, errors>>
  <2>1. errors' \in [Servers -> {"none", "error", "abort", "timeout", "closed"}]
    BY <1>2, <1>7 DEF TypeOK
  <2>2. \A t \in Servers : /\ server'[t].connects <= server[t].connects
                           /\ waiting[t] # "none" => closeTask'[t] = closeTask[t]
                           /\ closeTask'[t] = closeTask[t] \/
                                /\ closeTask[t] = "pending"
                                /\ closeTask'[t] \in {"ok", "failed"}
    BY <1>1, <1>3, <1>7
  <2> QED BY <1>1, <1>4, <1>7, <2>1, <2>2, LateAnswerKeepsCalls
<1> QED BY <1>1, <1>6, <1>7

LEMMA StaleEndsOutcome ==
  ASSUME TypeOK, NEW s \in Servers, StaleConnectEnds(s)
  PROVE  /\ UNCHANGED <<lifecycle, op, calls, opened, connected, failed, errors,
                        closeTask, waiting>>
         /\ server' \in CallStates
         /\ \A t \in Servers : /\ server'[t].connects = server[t].connects
                               /\ server'[t].closes = server[t].closes
                               /\ server'[t].live = server[t].live
<1> DEFINE new == [server[s] EXCEPT !.stale = server[s].stale - 1]
<1>1. /\ server[s].stale > 0 /\ server' = [server EXCEPT ![s] = new]
      /\ UNCHANGED <<lifecycle, op, calls, opened, connected, failed, errors,
                     closeTask, waiting>>
  BY DEF StaleConnectEnds, manager
<1>2. /\ server[s] \in [connects : Nat, stale : Nat, closes : Nat, live : BOOLEAN]
      /\ server[s].stale - 1 \in Nat
  BY <1>1, ServersAreTyped
<1>3. /\ new \in [connects : Nat, stale : Nat, closes : Nat, live : BOOLEAN]
      /\ new.connects = server[s].connects /\ new.closes = server[s].closes
      /\ new.live = server[s].live
  BY <1>2
<1> HIDE DEF new
<1>4. /\ server' \in CallStates /\ server'[s] = new
      /\ \A t \in Servers \ {s} : server'[t] = server[t]
  BY <1>1, <1>3, OneServer
<1> QED BY <1>1, <1>3, <1>4

LEMMA StaleEndsKeepsCalls ==
  ASSUME CallsInv, NEW s \in Servers, StaleConnectEnds(s), UNCHANGED options
  PROVE  CallsInv'
<1>1. TypeOK /\ Phases /\ \A t \in Servers : Calls(t)
  BY DEF CallsInv
<1>2. /\ UNCHANGED <<lifecycle, op, calls, opened, connected, failed, errors,
                     closeTask, waiting>>
      /\ server' \in CallStates
      /\ \A t \in Servers : /\ server'[t].connects = server[t].connects
                            /\ server'[t].closes = server[t].closes
  BY <1>1, StaleEndsOutcome
<1>3. TypeOK' /\ Phases'
  BY <1>1, <1>2 DEF TypeOK, Phases, CallStates
<1>4. \A t \in Servers : Calls(t)'
  BY <1>1, <1>2 DEF Calls, TaskKnows, Awaited, AtRest
<1> QED BY <1>3, <1>4 DEF CallsInv

LEMMA ServerFailsOutcome ==
  ASSUME CallsInv, NEW s \in Servers, ServerFailsToClose(s)
  PROVE  \E error \in {"error", "abort"} :
           /\ UNCHANGED <<lifecycle, calls>>
           /\ closeTask[s] = "pending"
           /\ server' \in CallStates /\ closeTask' \in Tasks
           /\ \A t \in Servers \ {s} : server'[t] = server[t] /\ closeTask'[t] = closeTask[t]
           /\ server'[s].connects = server[s].connects
           /\ server'[s].live = server[s].live
           /\ \/ /\ op.phase = "closing" /\ s = Head(op.todo)
                 /\ waiting[s] = "oldClose" /\ CallClose(s)
                 /\ errors' = [errors EXCEPT ![s] = error]
                 /\ server'[s].closes = 1
                 /\ UNCHANGED <<op, opened, connected, failed>>
              \/ /\ closeTask'[s] = "failed" /\ server'[s].closes = 0
                 /\ \/ /\ op.phase = "closing" /\ s = Head(op.todo)
                       /\ CloseResolved(s, error)
                    \/ /\ waiting[s] = "none"
                       /\ errors' = [errors EXCEPT ![s] = error]
                       /\ UNCHANGED <<waiting, op, opened, connected, failed>>
<1>1. PICK error \in {"error", "abort"} :
        /\ server[s].closes > 0
        /\ \/ /\ waiting[s] = "oldClose"
              /\ CallClose(s)
              /\ errors' = [errors EXCEPT ![s] = error]
              /\ UNCHANGED <<server, op, opened, connected, failed>>
           \/ /\ waiting[s] # "oldClose"
              /\ closeTask' = [closeTask EXCEPT ![s] = "failed"]
              /\ server' = [server EXCEPT ![s].closes = @ - 1]
              /\ \/ waiting[s] = "close" /\ CloseResolved(s, error)
                 \/ /\ waiting[s] # "close"
                    /\ errors' = [errors EXCEPT ![s] = error]
                    /\ UNCHANGED <<waiting, op, opened, connected, failed>>
        /\ UNCHANGED <<lifecycle, calls>>
  BY DEF ServerFailsToClose
<1>2. TypeOK /\ Calls(s)
  BY DEF CallsInv
<1>3. /\ server[s] \in [connects : Nat, stale : Nat, closes : Nat, live : BOOLEAN]
      /\ waiting[s] \in {"none", "connect", "close", "oldClose"}
      /\ server \in CallStates
  BY <1>2, ServersAreTyped DEF TypeOK, CallStates
<1>4. closeTask[s] = "pending" /\ server[s].closes = 1
  BY <1>1, <1>2 DEF Calls, TaskKnows
<1>5. waiting[s] # "none" => op.phase = "closing" /\ s = Head(op.todo)
  BY <1>2, <1>3, <1>4 DEF Calls, Awaited
<1>6. CASE waiting[s] = "oldClose"
  <2>1. closeTask' = [closeTask EXCEPT ![s] = "pending"] /\ server' = server
    BY <1>1, <1>6 DEF CallClose
  <2>2. /\ closeTask' \in Tasks
        /\ \A t \in Servers \ {s} : closeTask'[t] = closeTask[t]
    BY <1>2, <2>1, OneTask
  <2> QED BY <1>1, <1>3, <1>4, <1>5, <1>6, <2>1, <2>2
<1>7. CASE waiting[s] # "oldClose"
  <2> DEFINE new == [server[s] EXCEPT !.closes = 0]
  <2>1. /\ server' = [server EXCEPT ![s] = new]
        /\ closeTask' = [closeTask EXCEPT ![s] = "failed"]
    BY <1>1, <1>3, <1>4, <1>7
  <2>2. /\ new \in [connects : Nat, stale : Nat, closes : Nat, live : BOOLEAN]
        /\ new.connects = server[s].connects /\ new.closes = 0
        /\ new.live = server[s].live
    BY <1>3
  <2> HIDE DEF new
  <2>3. /\ server' \in CallStates /\ server'[s] = new
        /\ \A t \in Servers \ {s} : server'[t] = server[t]
    BY <1>2, <2>1, <2>2, OneServer
  <2>4. /\ closeTask' \in Tasks /\ closeTask'[s] = "failed"
        /\ \A t \in Servers \ {s} : closeTask'[t] = closeTask[t]
    BY <1>2, <2>1, OneTask
  <2>5. waiting[s] # "close" => waiting[s] = "none"
    BY <1>2, <1>3, <1>4, <1>7 DEF Calls, Awaited
  <2> QED BY <1>1, <1>4, <1>5, <1>7, <2>2, <2>3, <2>4, <2>5
<1> QED BY <1>6, <1>7

LEMMA ServerFailsKeepsCalls ==
  ASSUME CallsInv, NEW s \in Servers, ServerFailsToClose(s), UNCHANGED options
  PROVE  CallsInv'
<1>1. PICK error \in {"error", "abort"} :
        /\ UNCHANGED <<lifecycle, calls>>
        /\ closeTask[s] = "pending"
        /\ server' \in CallStates /\ closeTask' \in Tasks
        /\ \A t \in Servers \ {s} : server'[t] = server[t] /\ closeTask'[t] = closeTask[t]
        /\ server'[s].connects = server[s].connects
        /\ \/ /\ op.phase = "closing" /\ s = Head(op.todo)
              /\ CallClose(s)
              /\ errors' = [errors EXCEPT ![s] = error]
              /\ server'[s].closes = 1
              /\ UNCHANGED <<op, opened, connected, failed>>
           \/ /\ closeTask'[s] = "failed" /\ server'[s].closes = 0
              /\ \/ /\ op.phase = "closing" /\ s = Head(op.todo)
                    /\ CloseResolved(s, error)
                 \/ /\ waiting[s] = "none"
                    /\ errors' = [errors EXCEPT ![s] = error]
                    /\ UNCHANGED <<waiting, op, opened, connected, failed>>
  BY ServerFailsOutcome
<1>2. TypeOK /\ \A t \in Servers : Calls(t)
  BY DEF CallsInv
<1>3. error \in Results /\ error # "ok"
  BY DEF Results
<1>4. [errors EXCEPT ![s] = error]
        \in [Servers -> {"none", "error", "abort", "timeout", "closed"}]
  BY <1>2, ErrorsStayTyped
<1>5. CASE /\ op.phase = "closing" /\ s = Head(op.todo)
           /\ CallClose(s)
           /\ errors' = [errors EXCEPT ![s] = error]
           /\ server'[s].closes = 1
           /\ UNCHANGED <<op, opened, connected, failed>>
  BY <1>1, <1>4, <1>5, CallCloseKeepsCalls
<1>6. CASE closeTask'[s] = "failed" /\ server'[s].closes = 0
  <2>1. \A t \in Servers : TaskKnows(t)'
    BY <1>1, <1>2, <1>6 DEF Calls, TaskKnows
  <2>2. \A t \in Servers : closeTask[t] = "ok" => closeTask'[t] = "ok"
    BY <1>1
  <2>3. CASE /\ op.phase = "closing" /\ s = Head(op.todo)
             /\ CloseResolved(s, error)
    BY <1>1, <1>3, <2>1, <2>2, <2>3, CloseAnswered
  <2>4. CASE /\ waiting[s] = "none"
             /\ errors' = [errors EXCEPT ![s] = error]
             /\ UNCHANGED <<waiting, op, opened, connected, failed>>
    <3>1. \A t \in Servers : server[t].connects \in Nat
      BY <1>2, ServersAreTyped
    <3>2. \A t \in Servers : /\ server'[t].connects <= server[t].connects
                             /\ waiting[t] # "none" => closeTask'[t] = closeTask[t]
                             /\ closeTask'[t] = closeTask[t] \/
                                  /\ closeTask[t] = "pending"
                                  /\ closeTask'[t] \in {"ok", "failed"}
      BY <1>1, <1>6, <2>4, <3>1
    <3> QED BY <1>1, <1>4, <2>1, <2>4, <3>2, LateAnswerKeepsCalls
  <2> QED BY <1>1, <1>6, <2>3, <2>4 DEF CallClose
<1> QED BY <1>1, <1>5, <1>6

(* For every number of servers: each part of the manager's state keeps its  *)
(* type, and whatever is late, an operation knows what each server is doing.*)
THEOREM CallsAreKnown == Spec => []CallsInv
<1>1. Init => CallsInv
  BY InitCalls
<1>2. CallsInv /\ [Next]_vars => CallsInv'
  <2> SUFFICES ASSUME CallsInv, [Next]_vars PROVE CallsInv'
    OBVIOUS
  <2>1. CASE Manager
    BY <2>1, BeginKeepsCalls, ConnectKeepsCalls, CloseServerKeepsCalls DEF Manager
  <2>2. CASE Timeouts
    BY <2>2, TimeoutsKeepCalls DEF Timeouts
  <2>3. CASE Environment
    BY <2>3, RequestKeepsCalls, ServerConnectsKeepsCalls, StaleEndsKeepsCalls,
       ServerClosesKeepsCalls, ServerFailsKeepsCalls DEF Environment
  <2>4. CASE UNCHANGED vars
    <3>1. UNCHANGED <<options, lifecycle, op, calls, opened, connected, failed,
                      errors, closeTask, waiting, server>>
      BY <2>4 DEF vars, manager
    <3>2. TypeOK' /\ Phases' /\ \A s \in Servers : Calls(s)'
      BY <3>1 DEF CallsInv, TypeOK, Phases, Calls, TaskKnows, Awaited, AtRest
    <3> QED BY <3>2 DEF CallsInv
  <2> QED BY <2>1, <2>2, <2>3, <2>4 DEF Next
<1> QED BY <1>1, <1>2, PTL DEF Spec

(* No server is asked to close or to connect while it is still closing, nor *)
(* to connect again before a close() that came in between was answered.     *)
THEOREM CallsDoNotOverlap == Spec => []NoOverlappingCalls
<1>1. CallsInv => NoOverlappingCalls
  <2> SUFFICES ASSUME CallsInv, NEW s \in Servers
               PROVE  /\ server[s].closes <= 1
                      /\ server[s].connects <= 1
                      /\ waiting[s] = "connect" => server[s].closes = 0
    BY DEF NoOverlappingCalls
  <2> QED BY DEF CallsInv, Calls, TaskKnows, Awaited
<1> QED BY <1>1, CallsAreKnown, PTL

(* Every part of the state keeps its type.                                  *)
THEOREM TypeCorrect == Spec => []TypeOK
<1>1. CallsInv => TypeOK
  BY DEF CallsInv
<1> QED BY <1>1, CallsAreKnown, PTL

------------------------------------------------------------------------------
(* The second half of the invariant: which servers are active and which     *)
(* have failed.                                                             *)

Reconnecting == op.kind \in {"reconnectFailed", "reconnectAll"}

(* A server that is about to be connected is not active, and if it has an   *)
(* error it is on the list of failed ones, where the success is seen.       *)
Blank(s) == s \notin connected /\ (s \in FailedSet \/ errors[s] = "none")

Sound(s) ==
  /\ waiting[s] = "connect" => Blank(s)
  /\ op.phase = "connecting" /\ s \in ToSet(op.todo) => Blank(s)
  /\ closeTask[s] = "ok" => ~server[s].live
  /\ s \in connected => /\ server[s].live
                        /\ closeTask[s] = "none" \/ waiting[s] = "close"

(* What is reconnected stays on the list of failed servers until it is      *)
(* connected.                                                               *)
Kept ==
  Reconnecting => /\ op.phase = "closing" => ToSet(op.targets) \subseteq FailedSet
                  /\ ToSet(op.targets) \subseteq connected \cup FailedSet

(* As long as abort-like errors are suppressed: an operation that closes    *)
(* every server gets to each one that is active; only while all of them are *)
(* reconnected is an active server on the list of failed ones; what close() *)
(* has passed is closed or has an error.                                    *)
Healthy ==
  /\ op.phase = "closing" /\ op.kind # "reconnectFailed" =>
       connected \subseteq ToSet(op.todo)
  /\ ~(op.kind = "reconnectAll" /\ op.phase = "closing") =>
       \A s \in connected : s \notin FailedSet /\ errors[s] = "none"
  /\ op.kind = "close" =>
       \A s \in Servers : \/ s \in ToSet(op.todo)
                          \/ closeTask[s] = "ok"
                          \/ errors[s] # "none"

SoundInv ==
  /\ \A s \in Servers : Sound(s)
  /\ Kept
  /\ options.suppressAbort => Healthy

(* What the action properties say of a step, whether it ends the operation  *)
(* or not.                                                                  *)
Remembers == Reconnecting => ToSet(op.targets) \subseteq connected' \cup ToSet(failed')

Completes ==
  op.kind = "close" /\ op'.kind = "none" /\ options.suppressAbort =>
    /\ connected' = {}
    /\ \A s \in Servers : server'[s].live => errors'[s] # "none"

Holds == SoundInv' /\ Remembers /\ Completes

LEMMA SetsAreServers ==
  ASSUME TypeOK
  PROVE  /\ connected \subseteq Servers /\ FailedSet \subseteq Servers
         /\ op \in OpType /\ op.todo \in Seq(Servers) /\ op.targets \in Seq(Servers)
         /\ ToSet(op.todo) \subseteq Servers /\ ToSet(op.targets) \subseteq Servers
         /\ FailedSet' = ToSet(failed')
BY DEF TypeOK, OpType, FailedSet, ToSet

LEMMA ConnectAnsweredWell ==
  ASSUME CallsInv, SoundInv, NEW s \in Servers, NEW result \in Results,
         waiting[s] = "connect", ConnectResolved(s, result),
         UNCHANGED <<options, closeTask>>,
         result = "ok" => server'[s].live,
         \A t \in Servers \ {s} : server'[t] = server[t]
  PROVE  Holds
<1>1. /\ TypeOK /\ Phases /\ \A t \in Servers : Calls(t) /\ Sound(t)
      /\ Kept /\ (options.suppressAbort => Healthy)
  BY DEF CallsInv, SoundInv
<1>2. /\ op.phase = "connecting" /\ s \notin ToSet(op.todo)
      /\ closeTask[s] = "none" /\ Blank(s)
  BY <1>1 DEF Calls, Awaited, Sound
<1>3. /\ waiting' = [waiting EXCEPT ![s] = "none"]
      /\ connected' = IF result = "ok" THEN connected \cup {s} ELSE connected
      /\ ToSet(failed') = IF result = "ok" THEN FailedSet \ {s}
                          ELSE FailedSet \cup {s}
      /\ errors' = IF result # "ok" THEN [errors EXCEPT ![s] = result]
                   ELSE IF s \in FailedSet THEN [errors EXCEPT ![s] = "none"]
                   ELSE errors
      /\ Waits \/ (LastOfAll(s) /\ (Cleans \/ Ends("yes")))
  BY <1>1, ConnectOutcome
<1>4. \A t \in Servers \ {s} : waiting'[t] = waiting[t] /\ errors'[t] = errors[t]
  BY <1>1, <1>3 DEF TypeOK
<1>5. waiting'[s] = "none" /\ (result = "ok" => errors'[s] = "none")
  BY <1>1, <1>2, <1>3 DEF TypeOK, Blank
<1>6. /\ connected \subseteq Servers /\ FailedSet \subseteq Servers
      /\ FailedSet' = ToSet(failed')
  BY <1>1, SetsAreServers
<1>7. ASSUME NEW t \in Servers PROVE Sound(t)'
  <2>1. Sound(t)
    BY <1>1
  <2>2. CASE t = s
    <3>1. op'.phase = "connecting" => op'.todo = op.todo
      BY <1>3 DEF Waits, Cleans, Ends, GoesOn, NoOp
    <3>2. s \in connected' => server'[s].live
      BY <1>2, <1>3 DEF Blank
    <3> QED BY <1>2, <1>5, <2>2, <3>1, <3>2 DEF Sound
  <2>3. CASE t # s
    <3>1. Blank(t) => Blank(t)'
      BY <1>3, <1>4, <1>6, <2>3 DEF Blank
    <3>2. op'.phase = "connecting" => op.phase = "connecting" /\ op'.todo = op.todo
      BY <1>2, <1>3 DEF Waits, Cleans, Ends, GoesOn, NoOp
    <3>3. t \in connected' => t \in connected
      BY <1>3, <2>3
    <3> QED BY <1>4, <2>1, <2>3, <3>1, <3>2, <3>3 DEF Sound
  <2> QED BY <2>2, <2>3
<1>8. Remembers
  BY <1>1, <1>3 DEF Remembers, Kept
<1>9. Kept'
  <2>1. CASE Waits
    BY <1>2, <1>6, <1>8, <2>1 DEF Waits, GoesOn, Kept, Remembers, Reconnecting
  <2>2. CASE Cleans \/ Ends("yes")
    BY <2>2 DEF Cleans, Ends, GoesOn, NoOp, Kept, Reconnecting
  <2> QED BY <1>3, <2>1, <2>2
<1>10. ASSUME options.suppressAbort PROVE Healthy'
  <2>1. \A t \in connected' : t \notin FailedSet' /\ errors'[t] = "none"
    <3> SUFFICES ASSUME NEW t \in connected'
                 PROVE  t \notin FailedSet' /\ errors'[t] = "none"
      OBVIOUS
    <3>1. CASE t = s
      BY <1>2, <1>3, <1>5, <1>6, <3>1 DEF Blank
    <3>2. CASE t # s
      <4>1. t \in connected /\ t \in Servers
        BY <1>3, <1>6, <3>2
      <4>2. t \notin FailedSet /\ errors[t] = "none"
        BY <1>1, <1>2, <1>10, <4>1 DEF Healthy
      <4> QED BY <1>3, <1>4, <1>6, <3>2, <4>1, <4>2
    <3> QED BY <3>1, <3>2
  <2>3. op'.kind # "close"
    BY <1>1, <1>2, <1>3 DEF Waits, Cleans, Ends, GoesOn, NoOp, Phases
  <2>4. op'.phase = "closing" => connected' \subseteq ToSet(op'.todo)
    BY <1>2, <1>3 DEF Waits, Cleans, Ends, GoesOn, NoOp
  <2> QED BY <2>1, <2>3, <2>4 DEF Healthy
<1>11. Completes
  BY <1>1, <1>2 DEF Completes, Phases
<1>12. SoundInv'
  BY <1>7, <1>9, <1>10 DEF SoundInv
<1> QED BY <1>8, <1>11, <1>12 DEF Holds

LEMMA CloseAnsweredWell ==
  ASSUME CallsInv, SoundInv, NEW s \in Servers, NEW result \in Results,
         op.phase = "closing", s = Head(op.todo), CloseResolved(s, result),
         UNCHANGED options,
         result = "ok" => closeTask'[s] = "ok",
         \A t \in Servers : closeTask'[t] = "ok" => ~server'[t].live,
         \A t \in Servers \ {s} : server'[t] = server[t] /\ closeTask'[t] = closeTask[t]
  PROVE  Holds
<1>1. /\ TypeOK /\ Phases /\ \A t \in Servers : Calls(t) /\ Sound(t)
      /\ Kept /\ (options.suppressAbort => Healthy)
      /\ op.todo # << >>
  BY DEF CallsInv, SoundInv, Phases
<1>2. /\ waiting' = [waiting EXCEPT ![s] = "none"]
      /\ connected' = connected \ {s}
      /\ \/ Stops(s, result) \/ ClosesNext(s, result)
         \/ Over(s, result) \/ Reopens(s, result)
  BY <1>1, CloseOutcome
<1>3. \A t \in Servers : waiting'[t] = "none" /\ (t # s => waiting[t] = "none")
  BY <1>1, <1>2, NothingElseAwaited DEF TypeOK
<1>4. /\ connected \subseteq Servers /\ ToSet(op.targets) \subseteq Servers
      /\ FailedSet' = ToSet(failed') /\ op.todo \in Seq(Servers)
  BY <1>1, SetsAreServers
<1>5. /\ CloseErrors(s, result)[s] = IF result = "ok" THEN errors[s] ELSE result
      /\ \A t \in Servers \ {s} : CloseErrors(s, result)[t] = errors[t]
  BY <1>1 DEF CloseErrors, TypeOK
<1>6. \A t \in Closed(s, result) : t \in Servers => t \notin connected'
  <2> SUFFICES ASSUME NEW t \in Servers, t \in Closed(s, result), t # s
               PROVE  t \notin connected
    BY <1>2
  <2>1. closeTask[t] = "ok" /\ waiting[t] = "none"
    BY <1>1, <1>3 DEF Closed, Calls, AtRest
  <2> QED BY <1>1, <2>1 DEF Sound
<1>7. Reconnecting => ToSet(op.targets) \subseteq FailedSet'
  BY <1>1, <1>2, <1>4
  DEF Kept, Stops, ClosesNext, Over, Reopens, Unmoved, Reconnecting, FailedSet
<1>8. Remembers
  BY <1>4, <1>7 DEF Remembers
<1>9. ASSUME NEW t \in Servers PROVE Sound(t)'
  <2>1. Sound(t)
    BY <1>1
  <2>2. t \in connected' => server'[t].live /\ closeTask'[t] = "none"
    BY <1>2, <1>3, <2>1 DEF Sound
  <2>3. ASSUME op'.phase = "connecting", t \in ToSet(op'.todo) PROVE Blank(t)'
    <3>1. Reopens(s, result) /\ ~Ends("failed")
      BY <1>2, <2>3 DEF Stops, ClosesNext, Over, Ends, GoesOn, NoOp
    <3>2. t \in ToSet(op.targets) /\ t \in Closed(s, result) /\ Reconnecting
      BY <2>3, <3>1 DEF Reopens, Reconnecting
    <3> QED BY <1>6, <1>7, <3>2 DEF Blank
  <2> QED BY <1>3, <2>2, <2>3 DEF Sound
<1>10. Kept'
  <2>1. CASE Ends("failed")
    BY <2>1 DEF Ends, NoOp, Kept, Reconnecting
  <2>2. CASE ClosesNext(s, result) \/ (Reopens(s, result) /\ ~Ends("failed"))
    <3>1. op'.kind = op.kind /\ op'.targets = op.targets
      BY <2>2 DEF ClosesNext, Reopens, GoesOn
    <3> QED BY <1>7, <3>1 DEF Kept, Reconnecting
  <2> QED BY <1>2, <2>1, <2>2 DEF Stops, Over
<1>11. ASSUME op.kind = "close", options.suppressAbort, NEW t \in Servers,
              t = s \/ t \notin ToSet(op.todo)
       PROVE  closeTask'[t] = "ok" \/ errors'[t] # "none"
  <2>1. errors' = CloseErrors(s, result)
    BY <1>2, <1>11 DEF Stops, ClosesNext, Over, Reopens, Unmoved
  <2>2. CASE t = s
    BY <1>5, <2>1, <2>2 DEF Results
  <2>3. CASE t # s
    <3>1. closeTask[t] = "ok" \/ errors[t] # "none"
      BY <1>1, <1>11, <2>3 DEF Healthy
    <3> QED BY <1>5, <2>1, <2>3, <3>1
  <2> QED BY <2>2, <2>3
<1>12. ASSUME options.suppressAbort, op.kind # "reconnectFailed", ToSet(op.todo) = {s}
       PROVE  connected' = {}
  BY <1>1, <1>2, <1>12 DEF Healthy
<1>13. ASSUME options.suppressAbort PROVE Healthy'
  <2>1. CASE ClosesNext(s, result)
    <3>1. /\ op'.kind = op.kind /\ op'.phase = "closing" /\ op'.todo = Tail(op.todo)
          /\ opened' = opened /\ failed' = failed /\ errors' = CloseErrors(s, result)
      BY <2>1 DEF ClosesNext, GoesOn, Unmoved
    <3>2. ToSet(op.todo) = {s} \cup ToSet(op'.todo)
      BY <1>1, <1>4, <3>1, HeadAndTail
    <3>3. op.kind # "reconnectFailed" => connected' \subseteq ToSet(op'.todo)
      BY <1>1, <1>2, <1>13, <3>2 DEF Healthy
    <3>5. op.kind # "reconnectAll" =>
            \A t \in connected' : t \notin FailedSet' /\ errors'[t] = "none"
      BY <1>1, <1>2, <1>4, <1>5, <1>13, <3>1 DEF Healthy, FailedSet
    <3>6. op.kind = "close" =>
            \A t \in Servers : \/ t \in ToSet(op'.todo)
                               \/ closeTask'[t] = "ok"
                               \/ errors'[t] # "none"
      BY <1>11, <1>13, <3>2
    <3> QED BY <3>1, <3>3, <3>5, <3>6 DEF Healthy
  <2>2. CASE Over(s, result)
    <3>1. connected' = {} /\ op'.kind = "none" /\ op'.phase = "none"
      BY <1>12, <1>13, <2>2 DEF Over, Ends, NoOp
    <3> QED BY <3>1 DEF Healthy
  <2>3. CASE Reopens(s, result)
    <3>1. /\ op.kind \in {"reconnectFailed", "reconnectAll"}
          /\ op'.phase # "closing" /\ op'.kind # "close"
      BY <1>1, <2>3 DEF Reopens, Ends, GoesOn, NoOp, Phases
    <3>2. \A t \in connected' : t \notin FailedSet' /\ errors'[t] = "none"
      <4>1. CASE op.kind = "reconnectAll"
        BY <1>12, <1>13, <2>3, <4>1 DEF Reopens
      <4>2. CASE op.kind = "reconnectFailed"
        <5>1. failed' = failed /\ errors' = CloseErrors(s, result)
          BY <2>3, <4>2 DEF Reopens, Unmoved
        <5> QED BY <1>1, <1>2, <1>4, <1>5, <1>13, <4>2, <5>1 DEF Healthy, FailedSet
      <4> QED BY <3>1, <4>1, <4>2
    <3> QED BY <3>1, <3>2 DEF Healthy
  <2> QED BY <1>2, <1>13, <2>1, <2>2, <2>3 DEF Stops
<1>14. Completes
  <2> SUFFICES ASSUME op.kind = "close", op'.kind = "none", options.suppressAbort
               PROVE  /\ connected' = {}
                      /\ \A t \in Servers : server'[t].live => errors'[t] # "none"
    BY DEF Completes
  <2>1. Over(s, result)
    BY <1>2 DEF Stops, ClosesNext, Reopens, GoesOn
  <2>2. connected' = {}
    BY <1>12, <2>1 DEF Over
  <2>3. \A t \in Servers : closeTask'[t] = "ok" \/ errors'[t] # "none"
    BY <1>11, <2>1 DEF Over
  <2> QED BY <2>2, <2>3
<1>15. SoundInv'
  BY <1>9, <1>10, <1>13 DEF SoundInv
<1> QED BY <1>8, <1>14, <1>15 DEF Holds

(* A step that leaves the operation and its lists alone.                    *)
LEMMA SameOperation ==
  ASSUME CallsInv, SoundInv,
         UNCHANGED <<options, op, opened, connected, failed>>,
         \A t \in Servers : waiting'[t] = "connect" => waiting[t] = "connect",
         \A t \in Servers : closeTask'[t] = "ok" => ~server'[t].live,
         \A t \in Servers : closeTask[t] = "ok" => closeTask'[t] = "ok" \/ errors'[t] # "none",
         \A t \in connected : /\ server'[t].live
                              /\ closeTask'[t] = "none" \/ waiting'[t] = "close"
                              /\ errors'[t] = errors[t],
         \A t \in Servers : \/ errors'[t] = errors[t]
                            \/ errors'[t] # "none" /\ closeTask[t] = "pending"
  PROVE  Holds
<1>1. /\ TypeOK /\ Phases /\ \A t \in Servers : Calls(t) /\ Sound(t)
      /\ Kept /\ (options.suppressAbort => Healthy)
  BY DEF CallsInv, SoundInv
<1>2. FailedSet' = FailedSet /\ connected \subseteq Servers
  BY <1>1, SetsAreServers DEF FailedSet
<1>3. ASSUME NEW t \in Servers PROVE Sound(t)'
  <2>1. Sound(t) /\ Calls(t)
    BY <1>1
  <2>2. waiting'[t] = "connect" => Blank(t)'
    BY <1>2, <2>1 DEF Sound, Calls, Awaited, Blank
  <2>3. op'.phase = "connecting" /\ t \in ToSet(op'.todo) => Blank(t)'
    BY <1>2, <2>1 DEF Sound, Calls, AtRest, Blank
  <2> QED BY <2>1, <2>2, <2>3 DEF Sound
<1>4. Kept' /\ Remembers
  BY <1>1, <1>2 DEF Kept, Reconnecting, Remembers, FailedSet
<1>5. ASSUME options.suppressAbort PROVE Healthy'
  BY <1>1, <1>2, <1>5 DEF Healthy
<1>6. Completes
  BY DEF Completes
<1> QED BY <1>3, <1>4, <1>5, <1>6 DEF Holds, SoundInv

LEMMA CloseServerWell ==
  ASSUME CallsInv, SoundInv, CloseServer, UNCHANGED options
  PROVE  Holds
<1> DEFINE s == Head(op.todo)
<1>1. /\ TypeOK /\ Phases /\ \A t \in Servers : Calls(t) /\ Sound(t)
      /\ op.phase = "closing" /\ op.todo # << >> /\ op.todo \in Seq(Servers)
      /\ waiting[s] = "none"
  BY DEF CallsInv, SoundInv, CloseServer, Phases, TypeOK, OpType
<1>2. s \in Servers
  BY <1>1
<1>3. /\ server[s] \in [connects : Nat, stale : Nat, closes : Nat, live : BOOLEAN]
      /\ closeTask[s] \in {"none", "pending", "ok", "failed"}
  BY <1>1, <1>2, ServersAreTyped
<1>4. \A t \in Servers : t # s => waiting[t] = "none"
  BY <1>1, NothingElseAwaited
<1>5. connected \subseteq Servers
  BY <1>1, SetsAreServers
<1>6. CASE closeTask[s] = "ok"
  <2>1. CloseResolved(s, "ok") /\ UNCHANGED <<closeTask, server>>
    BY <1>6 DEF CloseServer
  <2>2. \A t \in Servers : closeTask'[t] = "ok" => ~server'[t].live
    BY <1>1, <2>1 DEF Sound
  <2> QED BY <1>1, <1>2, <1>6, <2>1, <2>2, CloseAnsweredWell DEF Results
<1>7. CASE closeTask[s] = "pending"
  <2>1. /\ waiting' = [waiting EXCEPT ![s] = "oldClose"]
        /\ UNCHANGED <<op, opened, connected, failed, errors, closeTask, server>>
    BY <1>7 DEF CloseServer, manager
  <2>2. \A t \in Servers : waiting'[t] = IF t = s THEN "oldClose" ELSE "none"
    BY <1>1, <1>2, <1>4, <2>1 DEF TypeOK
  <2>3. \A t \in Servers : closeTask'[t] = "ok" => ~server'[t].live
    BY <1>1, <2>1 DEF Sound
  <2>4. s \notin connected
    BY <1>1, <1>2, <1>7 DEF Sound
  <2>5. \A t \in connected : server[t].live /\ closeTask[t] = "none"
    BY <1>1, <1>4, <1>5, <2>4 DEF Sound
  <2> HIDE DEF s
  <2> QED BY <2>1, <2>2, <2>3, <2>5, SameOperation
<1>8. CASE closeTask[s] \in {"none", "failed"}
  <2>1. /\ waiting' = [waiting EXCEPT ![s] = "close"]
        /\ closeTask' = [closeTask EXCEPT ![s] = "pending"]
        /\ server' = [server EXCEPT ![s].closes = @ + 1]
        /\ UNCHANGED <<op, opened, connected, failed, errors>>
    BY <1>8 DEF CloseServer, CallClose, manager
  <2>2. \A t \in Servers : /\ waiting'[t] = IF t = s THEN "close" ELSE "none"
                           /\ closeTask'[t] = IF t = s THEN "pending" ELSE closeTask[t]
    BY <1>1, <1>2, <1>4, <2>1 DEF TypeOK
  <2>3. \A t \in Servers : server'[t].live = server[t].live
    BY <1>1, <1>2, <1>3, <2>1 DEF TypeOK
  <2>4. \A t \in Servers : closeTask'[t] = "ok" => ~server'[t].live
    BY <1>1, <2>2, <2>3 DEF Sound
  <2>5. \A t \in connected : /\ server'[t].live
                             /\ closeTask'[t] = "none" \/ waiting'[t] = "close"
    BY <1>1, <1>4, <1>5, <2>2, <2>3 DEF Sound
  <2>6. \A t \in Servers : closeTask[t] = "ok" => closeTask'[t] = "ok"
    BY <1>8, <2>2
  <2>7. \A t \in Servers : waiting'[t] # "connect"
    BY <2>2
  <2> HIDE DEF s
  <2> QED BY <2>1, <2>4, <2>5, <2>6, <2>7, SameOperation
<1> QED BY <1>3, <1>6, <1>7, <1>8

LEMMA TimeoutsWell ==
  ASSUME CallsInv, SoundInv, NEW s \in Servers,
         ConnectTimesOut(s) \/ CloseTimesOut(s), UNCHANGED options
  PROVE  Holds
<1>1. /\ TypeOK /\ \A t \in Servers : Calls(t) /\ Sound(t)
      /\ UNCHANGED <<closeTask, server>>
  BY DEF CallsInv, SoundInv, ConnectTimesOut, CloseTimesOut
<1>2. CASE ConnectTimesOut(s)
  <2>1. waiting[s] = "connect" /\ ConnectResolved(s, "timeout")
    BY <1>2 DEF ConnectTimesOut
  <2> QED BY <1>1, <2>1, ConnectAnsweredWell DEF Results
<1>3. CASE CloseTimesOut(s)
  <2>1. waiting[s] \in {"close", "oldClose"} /\ CloseResolved(s, "timeout")
    BY <1>3 DEF CloseTimesOut
  <2>2. op.phase = "closing" /\ s = Head(op.todo)
    BY <1>1, <2>1 DEF Calls, Awaited
  <2>3. \A t \in Servers : closeTask'[t] = "ok" => ~server'[t].live
    BY <1>1 DEF Sound
  <2> QED BY <1>1, <2>1, <2>2, <2>3, CloseAnsweredWell DEF Results
<1> QED BY <1>2, <1>3

LEMMA ServerConnectsWell ==
  ASSUME CallsInv, SoundInv, NEW s \in Servers, ServerConnects(s), UNCHANGED options
  PROVE  Holds
<1>1. /\ TypeOK /\ \A t \in Servers : Calls(t) /\ Sound(t)
      /\ connected \subseteq Servers
  BY SetsAreServers DEF CallsInv, SoundInv
<1>2. /\ UNCHANGED closeTask
      /\ server[s].connects > 0
      /\ server[s].live => server'[s].live
      /\ \A t \in Servers \ {s} : server'[t] = server[t]
      /\ \/ /\ waiting[s] = "connect"
            /\ \E result \in Results : /\ ConnectResolved(s, result)
                                       /\ result = "ok" => server'[s].live
         \/ /\ waiting[s] # "connect"
            /\ UNCHANGED <<waiting, op, opened, connected, failed, errors>>
  BY <1>1, ServerConnectsOutcome
<1>3. CASE /\ waiting[s] = "connect"
           /\ \E result \in Results : /\ ConnectResolved(s, result)
                                      /\ result = "ok" => server'[s].live
  BY <1>2, <1>3, ConnectAnsweredWell
<1>4. CASE UNCHANGED <<waiting, op, opened, connected, failed, errors>>
  <2>1. closeTask[s] # "ok"
    BY <1>1, <1>2 DEF Calls, TaskKnows
  <2>2. \A t \in Servers : closeTask'[t] = "ok" => ~server'[t].live
    BY <1>1, <1>2, <2>1 DEF Sound
  <2>3. \A t \in connected : closeTask[t] # "pending" \/ waiting[t] = "close"
    BY <1>1 DEF Sound
  <2>4. \A t \in connected : /\ server'[t].live
                             /\ closeTask'[t] = "none" \/ waiting'[t] = "close"
    BY <1>1, <1>2, <1>4 DEF Sound
  <2> QED BY <1>2, <1>4, <2>2, <2>4, SameOperation
<1> QED BY <1>2, <1>3, <1>4

LEMMA ServerClosesWell ==
  ASSUME CallsInv, SoundInv, NEW s \in Servers, ServerCloses(s), UNCHANGED options
  PROVE  Holds
<1>1. /\ TypeOK /\ \A t \in Servers : Calls(t) /\ Sound(t)
      /\ connected \subseteq Servers
  BY SetsAreServers DEF CallsInv, SoundInv
<1>2. /\ closeTask[s] = "pending"
      /\ ~server'[s].live
      /\ closeTask'[s] = "ok"
      /\ \A t \in Servers \ {s} : server'[t] = server[t] /\ closeTask'[t] = closeTask[t]
      /\ \/ /\ op.phase = "closing" /\ s = Head(op.todo)
            /\ CloseResolved(s, "ok")
         \/ /\ waiting[s] = "none"
            /\ UNCHANGED <<waiting, op, opened, connected, failed, errors>>
  BY ServerClosesOutcome
<1>3. \A t \in Servers : closeTask'[t] = "ok" => ~server'[t].live
  <2> SUFFICES ASSUME NEW t \in Servers, t # s, closeTask'[t] = "ok"
               PROVE  ~server'[t].live
    BY <1>2
  <2>1. closeTask[t] = "ok" /\ server'[t] = server[t]
    BY <1>2
  <2> QED BY <1>1, <2>1 DEF Sound
<1>4. CASE /\ op.phase = "closing" /\ s = Head(op.todo)
           /\ CloseResolved(s, "ok")
  BY <1>2, <1>3, <1>4, CloseAnsweredWell DEF Results
<1>5. CASE /\ waiting[s] = "none"
           /\ UNCHANGED <<waiting, op, opened, connected, failed, errors>>
  <2>1. s \notin connected
    BY <1>1, <1>2, <1>5 DEF Sound
  <2>2. \A t \in connected : /\ server'[t].live
                             /\ closeTask'[t] = "none" \/ waiting'[t] = "close"
    BY <1>1, <1>2, <1>5, <2>1 DEF Sound
  <2>3. \A t \in Servers : closeTask[t] = "ok" => closeTask'[t] = "ok"
    BY <1>2
  <2> QED BY <1>3, <1>5, <2>2, <2>3, SameOperation
<1> QED BY <1>2, <1>4, <1>5

LEMMA ServerFailsWell ==
  ASSUME CallsInv, SoundInv, NEW s \in Servers, ServerFailsToClose(s),
         UNCHANGED options
  PROVE  Holds
<1>1. /\ TypeOK /\ \A t \in Servers : Calls(t) /\ Sound(t)
      /\ connected \subseteq Servers
  BY SetsAreServers DEF CallsInv, SoundInv
<1>2. PICK error \in {"error", "abort"} :
        /\ closeTask[s] = "pending" /\ closeTask' \in Tasks
        /\ \A t \in Servers \ {s} : server'[t] = server[t] /\ closeTask'[t] = closeTask[t]
        /\ server'[s].live = server[s].live
        /\ \/ /\ waiting[s] = "oldClose" /\ CallClose(s)
              /\ errors' = [errors EXCEPT ![s] = error]
              /\ UNCHANGED <<op, opened, connected, failed>>
           \/ /\ closeTask'[s] = "failed"
              /\ \/ /\ op.phase = "closing" /\ s = Head(op.todo)
                    /\ CloseResolved(s, error)
                 \/ /\ waiting[s] = "none"
                    /\ errors' = [errors EXCEPT ![s] = error]
                    /\ UNCHANGED <<waiting, op, opened, connected, failed>>
  BY ServerFailsOutcome
<1>3. \A t \in Servers : server'[t].live = server[t].live
  BY <1>2
<1>4. closeTask'[s] # "ok"
  BY <1>1, <1>2 DEF CallClose, TypeOK
<1>5. \A t \in Servers : closeTask'[t] = "ok" => ~server'[t].live
  BY <1>1, <1>2, <1>3, <1>4 DEF Sound
<1>6. CASE CloseResolved(s, error) /\ op.phase = "closing" /\ s = Head(op.todo)
  BY <1>2, <1>5, <1>6, CloseAnsweredWell DEF Results
<1>7. CASE /\ errors' = [errors EXCEPT ![s] = error]
           /\ UNCHANGED <<op, opened, connected, failed>>
           /\ \/ CallClose(s) /\ waiting[s] = "oldClose"
              \/ waiting[s] = "none" /\ waiting' = waiting
  <2>1. s \notin connected
    BY <1>1, <1>2, <1>7 DEF Sound
  <2>2. /\ errors'[s] = error
        /\ \A t \in Servers \ {s} : errors'[t] = errors[t] /\ waiting'[t] = waiting[t]
        /\ waiting'[s] # "connect"
    BY <1>1, <1>7 DEF TypeOK, CallClose
  <2>3. \A t \in connected : /\ server'[t].live
                             /\ closeTask'[t] = "none" \/ waiting'[t] = "close"
                             /\ errors'[t] = errors[t]
    BY <1>1, <1>2, <1>3, <2>1, <2>2 DEF Sound
  <2>4. \A t \in Servers : /\ closeTask[t] = "ok" => closeTask'[t] = "ok"
                           /\ waiting'[t] = "connect" => waiting[t] = "connect"
                           /\ \/ errors'[t] = errors[t]
                              \/ errors'[t] # "none" /\ closeTask[t] = "pending"
    BY <1>2, <2>2
  <2> QED BY <1>5, <1>7, <2>3, <2>4, SameOperation
<1> QED BY <1>2, <1>6, <1>7

LEMMA ConnectWell ==
  ASSUME CallsInv, SoundInv, Connect, UNCHANGED options
  PROVE  Holds
<1>1. /\ TypeOK /\ Phases /\ \A t \in Servers : Calls(t) /\ Sound(t)
      /\ Kept /\ (options.suppressAbort => Healthy)
      /\ UNCHANGED <<lifecycle, calls, opened, connected, failed, errors>>
      /\ \A s \in Servers : waiting[s] = "none"
      /\ waiting' = [s \in Servers |->
                      IF s \in Connecting THEN "connect" ELSE waiting[s]]
      /\ closeTask' = [s \in Servers |->
                        IF s \in Connecting THEN "none" ELSE closeTask[s]]
      /\ server' = [s \in Servers |->
                     IF s \in Connecting THEN [server[s] EXCEPT !.connects = @ + 1]
                                         ELSE server[s]]
  BY DEF CallsInv, SoundInv, Connect
<1>2. /\ op.phase = "connecting" /\ Connecting \subseteq ToSet(op.todo)
      /\ op' = [op EXCEPT !.todo = op'.todo]
      /\ ToSet(op'.todo) = ToSet(op.todo) \ Connecting
  BY ConnectOne
<1>3. /\ op'.kind = op.kind /\ op'.phase = op.phase /\ op'.targets = op.targets
      /\ FailedSet' = FailedSet
  BY <1>1, <1>2 DEF TypeOK, OpType, FailedSet
<1>4. \A t \in Servers : server'[t].live = server[t].live
  <2> SUFFICES ASSUME NEW t \in Servers PROVE server'[t].live = server[t].live
    OBVIOUS
  <2>1. server[t] \in [connects : Nat, stale : Nat, closes : Nat, live : BOOLEAN]
    BY <1>1 DEF TypeOK
  <2> QED BY <1>1, <2>1
<1>5. ASSUME NEW t \in Servers PROVE Sound(t)'
  <2>1. Sound(t) /\ (Blank(t) => Blank(t)')
    BY <1>1, <1>3 DEF Blank
  <2>2. t \in Connecting => Blank(t)
    BY <1>2, <2>1 DEF Sound
  <2>3. t \in connected => closeTask'[t] = "none"
    BY <1>1, <2>1 DEF Sound
  <2>4. closeTask'[t] = "ok" => closeTask[t] = "ok"
    BY <1>1
  <2>5. waiting'[t] = "connect" => t \in Connecting
    BY <1>1
  <2> QED BY <1>1, <1>2, <1>3, <1>4, <2>1, <2>2, <2>3, <2>4, <2>5 DEF Sound
<1>6. Kept' /\ Remembers
  BY <1>1, <1>2, <1>3 DEF Kept, Reconnecting, Remembers, FailedSet
<1>7. ASSUME options.suppressAbort PROVE Healthy'
  <2>1. op.kind # "close"
    BY <1>1, <1>2 DEF Phases
  <2> QED BY <1>1, <1>2, <1>3, <1>7, <2>1 DEF Healthy
<1>8. Completes
  BY <1>1, <1>2, <1>3 DEF Completes, Phases
<1> QED BY <1>5, <1>6, <1>7, <1>8 DEF Holds, SoundInv

LEMMA BeginWell ==
  ASSUME CallsInv, SoundInv, Begin, UNCHANGED options
  PROVE  Holds
<1>1. /\ TypeOK /\ Phases /\ \A t \in Servers : Calls(t) /\ Sound(t)
      /\ Kept /\ (options.suppressAbort => Healthy)
      /\ UNCHANGED <<calls, opened, connected, closeTask, waiting, server>>
  BY DEF CallsInv, SoundInv, Begin
<1>2. /\ op.kind = "none" /\ opened = "yes"
      /\ Kind \in Operations
      /\ Targets(Kind) \in Seq(Servers)
      /\ \/ op' = NoOp /\ Targets(Kind) = << >>
         \/ /\ op'.kind = Kind /\ op'.phase = "closing"
            /\ op'.targets = Targets(Kind)
            /\ ToSet(op'.todo) = ToSet(Targets(Kind))
      /\ ToSet(failed') = IF Kind = "reconnectAll" THEN Servers ELSE FailedSet
      /\ errors' = IF Kind = "reconnectAll"
                   THEN [s \in Servers |-> IF s \in FailedSet THEN errors[s]
                                           ELSE "closed"]
                   ELSE errors
  BY <1>1, BeginOutcome
<1>3. /\ connected \subseteq Servers /\ FailedSet' = ToSet(failed')
  BY <1>1, SetsAreServers
<1>4. ToSet(Targets(Kind)) = IF Kind = "reconnectFailed" THEN FailedSet ELSE Servers
  BY ServersAreNumbers DEF Targets, FailedSet
<1>5. \A t \in Servers : waiting[t] = "none"
  BY <1>1, <1>2, ServersAreTyped DEF Phases, Calls, Awaited
<1>6. op'.phase # "connecting"
  BY <1>2 DEF NoOp
<1>7. \A t \in Servers : Sound(t)'
  BY <1>1, <1>5, <1>6 DEF Sound
<1>8. CASE op' = NoOp /\ Targets(Kind) = << >>
  <2>1. Kind = "reconnectFailed"
    BY <1>8, ServersAreNumbers DEF Targets
  <2>2. errors' = errors /\ FailedSet' = FailedSet
    BY <1>2, <1>3, <2>1
  <2>3. op'.kind = "none" /\ op'.phase = "none"
    BY <1>8 DEF NoOp
  <2>4. options.suppressAbort => Healthy'
    BY <1>1, <1>2, <2>2, <2>3 DEF Healthy
  <2>5. Kept' /\ Remembers /\ Completes
    BY <1>2, <2>3 DEF Kept, Remembers, Reconnecting, Completes
  <2> QED BY <1>7, <2>4, <2>5 DEF Holds, SoundInv
<1>9. CASE /\ op'.kind = Kind /\ op'.phase = "closing"
           /\ op'.targets = Targets(Kind)
           /\ ToSet(op'.todo) = ToSet(Targets(Kind))
  <2>1. Kept'
    BY <1>2, <1>3, <1>4, <1>9 DEF Kept, Reconnecting
  <2>2. Remembers /\ Completes
    BY <1>2 DEF Remembers, Reconnecting, Completes
  <2>3. ASSUME options.suppressAbort PROVE Healthy'
    <3>1. Kind # "reconnectFailed" => connected' \subseteq ToSet(op'.todo)
      BY <1>1, <1>3, <1>4, <1>9
    <3>2. Kind # "reconnectAll" =>
            \A t \in connected' : t \notin FailedSet' /\ errors'[t] = "none"
      BY <1>1, <1>2, <1>3, <2>3 DEF Healthy
    <3>3. Kind = "close" => \A t \in Servers : t \in ToSet(op'.todo)
      BY <1>4, <1>9
    <3> QED BY <1>1, <1>2, <1>9, <3>1, <3>2, <3>3 DEF Healthy
  <2> QED BY <1>7, <2>1, <2>2, <2>3 DEF Holds, SoundInv
<1> QED BY <1>2, <1>8, <1>9

LEMMA InitSound == Init => SoundInv
<1> SUFFICES ASSUME Init PROVE SoundInv
  OBVIOUS
<1>1. op.kind = "open" /\ op.phase = "connecting"
  BY DEF Init, NoOp
<1>2. \A s \in Servers : Sound(s)
  BY <1>1 DEF Init, Sound, Blank
<1>3. Kept /\ Healthy
  BY <1>1 DEF Init, Kept, Reconnecting, Healthy
<1> QED BY <1>2, <1>3 DEF SoundInv

LEMMA StepsWell ==
  ASSUME CallsInv, SoundInv, [Next]_vars
  PROVE  Holds
<1>1. CASE Manager
  BY <1>1, BeginWell, ConnectWell, CloseServerWell DEF Manager
<1>2. CASE Timeouts
  BY <1>2, TimeoutsWell DEF Timeouts
<1>3. CASE Environment
  <2>1. ASSUME NEW kind \in Operations, Request(kind), UNCHANGED options PROVE Holds
    <3>1. /\ TypeOK /\ Kept /\ \A t \in Servers : Sound(t)
          /\ connected \subseteq Servers
      BY SetsAreServers DEF CallsInv, SoundInv
    <3>2. UNCHANGED <<op, opened, connected, failed, errors, closeTask, waiting, server>>
      BY <2>1 DEF Request
    <3>3. /\ \A t \in Servers : closeTask'[t] = "ok" => ~server'[t].live
          /\ \A t \in connected : /\ server'[t].live
                                  /\ closeTask'[t] = "none" \/ waiting'[t] = "close"
      BY <3>1, <3>2 DEF Sound
    <3> QED BY <2>1, <3>2, <3>3, SameOperation
  <2>2. ASSUME NEW s \in Servers, StaleConnectEnds(s), UNCHANGED options
        PROVE  Holds
    <3>1. /\ TypeOK /\ \A t \in Servers : Sound(t)
          /\ connected \subseteq Servers
      BY SetsAreServers DEF CallsInv, SoundInv
    <3>2. /\ UNCHANGED <<op, opened, connected, failed, errors, closeTask, waiting>>
          /\ \A t \in Servers : server'[t].live = server[t].live
      BY <2>2, <3>1, StaleEndsOutcome
    <3>3. /\ \A t \in Servers : closeTask'[t] = "ok" => ~server'[t].live
          /\ \A t \in connected : /\ server'[t].live
                                  /\ closeTask'[t] = "none" \/ waiting'[t] = "close"
      BY <3>1, <3>2 DEF Sound
    <3> QED BY <2>2, <3>2, <3>3, SameOperation
  <2> QED BY <1>3, <2>1, <2>2, ServerConnectsWell, ServerClosesWell, ServerFailsWell
          DEF Environment
<1>4. CASE UNCHANGED vars
  <2>1. /\ TypeOK /\ Kept /\ \A t \in Servers : Sound(t)
        /\ connected \subseteq Servers
    BY SetsAreServers DEF CallsInv, SoundInv
  <2>2. UNCHANGED <<options, op, opened, connected, failed, errors, closeTask,
                    waiting, server>>
    BY <1>4 DEF vars, manager
  <2>3. /\ \A t \in Servers : closeTask'[t] = "ok" => ~server'[t].live
        /\ \A t \in connected : /\ server'[t].live
                                /\ closeTask'[t] = "none" \/ waiting'[t] = "close"
    BY <2>1, <2>2 DEF Sound
  <2> QED BY <2>2, <2>3, SameOperation
<1> QED BY <1>1, <1>2, <1>3, <1>4 DEF Next

(* In every phase of an operation: what it is about to connect is not       *)
(* active, an active server is connected, what is to be reconnected stays   *)
(* on the list of failures until it is, and what close() has passed is      *)
(* closed or has an error (reconnectNow, attemptConnect and closeServer).   *)
THEOREM StateIsSound == Spec => []SoundInv
<1>1. Init => SoundInv
  BY InitSound
<1>2. CallsInv /\ SoundInv /\ [Next]_vars => SoundInv'
  BY StepsWell DEF Holds
<1> QED BY <1>1, <1>2, CallsAreKnown, PTL DEF Spec

------------------------------------------------------------------------------
(* What a failed open() has asked to close: all that it reached.            *)

Reached(s) == server[s].live \/ server[s].connects > 0

AskedInv ==
  /\ op.kind = "open" /\ op.phase = "connecting" =>
       \A s \in Servers : Reached(s) => \/ s \in connected \cup FailedSet
                                        \/ waiting[s] = "connect"
  /\ op.kind = "open" /\ op.phase = "closing" =>
       \A s \in Servers : Reached(s) => \/ s \in ToSet(op.todo)
                                        \/ closeTask[s] # "none"
  /\ opened = "failed" /\ options.suppressAbort =>
       \A s \in Servers : Reached(s) => closeTask[s] # "none"

LEMMA ConnectAnsweredAsks ==
  ASSUME CallsInv, AskedInv, NEW s \in Servers, NEW result \in Results,
         waiting[s] = "connect", ConnectResolved(s, result),
         UNCHANGED options,
         \A t \in Servers \ {s} : server'[t] = server[t]
  PROVE  AskedInv'
<1>1. /\ TypeOK /\ Phases /\ op.phase = "connecting"
      /\ connected \subseteq Servers /\ FailedSet' = ToSet(failed')
  BY SetsAreServers DEF CallsInv, Calls, Awaited
<1>2. /\ waiting' = [waiting EXCEPT ![s] = "none"]
      /\ connected' = IF result = "ok" THEN connected \cup {s} ELSE connected
      /\ ToSet(failed') = IF result = "ok" THEN FailedSet \ {s}
                          ELSE FailedSet \cup {s}
      /\ Waits \/ (LastOfAll(s) /\ (Cleans \/ Ends("yes")))
  BY <1>1, ConnectOutcome
<1>3. opened # "failed"
  BY <1>1 DEF Phases
<1>4. ASSUME op.kind = "open", NEW t \in Servers, Reached(t)'
      PROVE  t \in connected' \cup FailedSet' \/ (waiting'[t] = "connect" /\ t # s)
  <2>1. s \in connected' \cup FailedSet'
    BY <1>1, <1>2
  <2>2. CASE t # s
    <3>1. Reached(t) /\ waiting'[t] = waiting[t]
      BY <1>1, <1>2, <1>4, <2>2 DEF Reached, TypeOK
    <3>2. t \in connected \cup FailedSet \/ waiting[t] = "connect"
      BY <1>1, <1>4, <3>1 DEF AskedInv
    <3> QED BY <1>1, <1>2, <2>2, <3>1, <3>2
  <2> QED BY <2>1, <2>2
<1>5. CASE Waits
  BY <1>1, <1>3, <1>4, <1>5 DEF Waits, GoesOn, AskedInv
<1>6. CASE LastOfAll(s) /\ Cleans
  <2>1. \A t \in Servers \ {s} : waiting'[t] # "connect"
    BY <1>1, <1>2, <1>6 DEF LastOfAll, TypeOK
  <2> QED BY <1>1, <1>3, <1>4, <1>6, <2>1 DEF Cleans, GoesOn, AskedInv
<1>7. CASE Ends("yes")
  BY <1>3, <1>7 DEF Ends, NoOp, AskedInv
<1> QED BY <1>2, <1>5, <1>6, <1>7

LEMMA CloseAnsweredAsks ==
  ASSUME CallsInv, AskedInv, NEW s \in Servers, NEW result \in Results,
         op.phase = "closing", s = Head(op.todo), CloseResolved(s, result),
         UNCHANGED options, closeTask'[s] # "none",
         \A t \in Servers \ {s} : server'[t] = server[t] /\ closeTask'[t] = closeTask[t]
  PROVE  AskedInv'
<1>1. /\ TypeOK /\ Phases /\ op.todo # << >> /\ op.todo \in Seq(Servers)
      /\ opened # "failed" /\ (opened = "no" <=> op.kind = "open")
  BY SetsAreServers DEF CallsInv, Phases
<1>2. Stops(s, result) \/ ClosesNext(s, result) \/ Over(s, result) \/ Reopens(s, result)
  BY <1>1, CloseOutcome
<1>3. ASSUME op.kind = "open", NEW t \in Servers, Reached(t)'
      PROVE  t \in ToSet(op.todo) \ {s} \/ closeTask'[t] # "none"
  <2>1. CASE t # s
    BY <1>3, <2>1 DEF Reached, AskedInv
  <2> QED BY <2>1
<1>4. CASE Stops(s, result)
  BY <1>1, <1>4 DEF Stops, Ends, NoOp, AskedInv
<1>5. CASE ClosesNext(s, result)
  <2>1. ToSet(op.todo) \ {s} \subseteq ToSet(Tail(op.todo))
    BY <1>1, HeadAndTail
  <2> QED BY <1>1, <1>3, <1>5, <2>1 DEF ClosesNext, GoesOn, AskedInv
<1>6. CASE Over(s, result)
  BY <1>1, <1>3, <1>6 DEF Over, Ends, NoOp, AskedInv
<1>7. CASE Reopens(s, result)
  BY <1>1, <1>7 DEF Reopens, Ends, GoesOn, NoOp, AskedInv
<1> QED BY <1>2, <1>4, <1>5, <1>6, <1>7

LEMMA SameOperationAsks ==
  ASSUME AskedInv, UNCHANGED <<options, op, opened, connected, failed>>,
         \A t \in Servers : /\ Reached(t)' => Reached(t)
                            /\ waiting[t] = "connect" => waiting'[t] = "connect"
                            /\ closeTask[t] # "none" => closeTask'[t] # "none"
  PROVE  AskedInv'
BY DEF AskedInv, FailedSet

LEMMA StepsAsk ==
  ASSUME CallsInv, AskedInv, [Next]_vars
  PROVE  AskedInv'
<1>1. /\ TypeOK /\ Phases /\ \A t \in Servers : Calls(t)
  BY DEF CallsInv
<1>2. CASE Begin /\ UNCHANGED options
  <2>1. opened' = "yes" /\ (op'.kind = "none" \/ op'.kind \in Operations)
    BY <1>1, <1>2, BeginOutcome DEF Begin, NoOp
  <2> QED BY <2>1 DEF AskedInv, Operations
<1>3. CASE Connect /\ UNCHANGED options
  <2>1. /\ op.phase = "connecting" /\ op'.kind = op.kind /\ op'.phase = op.phase
        /\ opened' = opened /\ connected' = connected /\ FailedSet' = FailedSet
        /\ opened # "failed"
    BY <1>1, <1>3, ConnectOne DEF Connect, TypeOK, OpType, FailedSet, Phases
  <2>2. \A t \in Servers : \/ waiting'[t] = "connect"
                           \/ server'[t] = server[t] /\ waiting[t] = "none"
    BY <1>3 DEF Connect
  <2> QED BY <2>1, <2>2 DEF AskedInv, Reached
<1>4. CASE CloseServer /\ UNCHANGED options
  <2> DEFINE s == Head(op.todo)
  <2>1. /\ op.phase = "closing" /\ s \in Servers /\ waiting[s] = "none"
    BY <1>1, <1>4, SetsAreServers DEF CloseServer, Phases
  <2>2. CASE closeTask[s] = "ok"
    <3>1. CloseResolved(s, "ok") /\ closeTask' = closeTask /\ server' = server
      BY <1>4, <2>2 DEF CloseServer
    <3> QED BY <1>4, <2>1, <2>2, <3>1, CloseAnsweredAsks DEF Results
  <2>3. CASE closeTask[s] = "pending"
    <3>1. /\ UNCHANGED <<op, opened, connected, failed, closeTask, server>>
          /\ waiting' = [waiting EXCEPT ![s] = "oldClose"]
      BY <1>4, <2>3 DEF CloseServer, manager
    <3>2. \A t \in Servers : waiting[t] = "connect" => waiting'[t] = "connect"
      BY <1>1, <2>1, <3>1 DEF TypeOK
    <3> QED BY <1>4, <3>1, <3>2, SameOperationAsks DEF Reached
  <2>4. CASE closeTask[s] \in {"none", "failed"}
    <3>1. /\ UNCHANGED <<op, opened, connected, failed>>
          /\ waiting' = [waiting EXCEPT ![s] = "close"]
          /\ closeTask' = [closeTask EXCEPT ![s] = "pending"]
          /\ server' = [server EXCEPT ![s].closes = @ + 1]
      BY <1>4, <2>4 DEF CloseServer, CallClose, manager
    <3>2. \A t \in Servers : /\ waiting[t] = "connect" => waiting'[t] = "connect"
                             /\ closeTask[t] # "none" => closeTask'[t] # "none"
      BY <1>1, <2>1, <3>1 DEF TypeOK
    <3>3. \A t \in Servers : Reached(t)' => Reached(t)
      BY <1>1, <3>1 DEF TypeOK, Reached
    <3> QED BY <1>4, <3>1, <3>2, <3>3, SameOperationAsks
  <2> QED BY <1>1, <2>1, <2>2, <2>3, <2>4, ServersAreTyped
<1>5. ASSUME NEW s \in Servers, ConnectTimesOut(s) \/ CloseTimesOut(s),
             UNCHANGED options
      PROVE  AskedInv'
  <2>1. UNCHANGED <<closeTask, server>>
    BY <1>5 DEF ConnectTimesOut, CloseTimesOut
  <2>2. CASE ConnectTimesOut(s)
    BY <1>5, <2>1, <2>2, ConnectAnsweredAsks DEF ConnectTimesOut, Results
  <2>3. CASE CloseTimesOut(s)
    <3>1. /\ waiting[s] \in {"close", "oldClose"} /\ CloseResolved(s, "timeout")
          /\ op.phase = "closing" /\ closeTask[s] = "pending" /\ s = Head(op.todo)
      BY <1>1, <2>3 DEF CloseTimesOut, Calls, Awaited
    <3> QED BY <1>5, <2>1, <3>1, CloseAnsweredAsks DEF Results
  <2> QED BY <1>5, <2>2, <2>3
<1>6. ASSUME NEW kind \in Operations, Request(kind), UNCHANGED options
      PROVE  AskedInv'
  BY <1>6, SameOperationAsks DEF Request, Reached
<1>7. ASSUME NEW s \in Servers, ServerConnects(s), UNCHANGED options
      PROVE  AskedInv'
  <2>1. /\ closeTask' = closeTask
        /\ server[s].connects > 0
        /\ \A t \in Servers \ {s} : server'[t] = server[t]
        /\ \/ /\ waiting[s] = "connect"
              /\ \E result \in Results : ConnectResolved(s, result)
           \/ UNCHANGED <<waiting, op, opened, connected, failed, errors>>
    BY <1>1, <1>7, ServerConnectsOutcome
  <2>2. CASE waiting[s] = "connect" /\ \E result \in Results : ConnectResolved(s, result)
    BY <1>7, <2>1, <2>2, ConnectAnsweredAsks
  <2>3. CASE UNCHANGED <<waiting, op, opened, connected, failed, errors>>
    <3>1. \A t \in Servers : Reached(t)' => Reached(t)
      BY <2>1 DEF Reached
    <3> QED BY <1>7, <2>1, <2>3, <3>1, SameOperationAsks
  <2> QED BY <2>1, <2>2, <2>3
<1>8. ASSUME NEW s \in Servers, StaleConnectEnds(s), UNCHANGED options
      PROVE  AskedInv'
  <2>1. /\ UNCHANGED <<op, opened, connected, failed, closeTask, waiting>>
        /\ \A t \in Servers : /\ server'[t].connects = server[t].connects
                              /\ server'[t].live = server[t].live
    BY <1>1, <1>8, StaleEndsOutcome
  <2> QED BY <1>8, <2>1, SameOperationAsks DEF Reached
<1>9. ASSUME NEW s \in Servers, ServerCloses(s), UNCHANGED options
      PROVE  AskedInv'
  <2>1. /\ server'[s].connects = 0 /\ ~server'[s].live /\ closeTask'[s] = "ok"
        /\ \A t \in Servers \ {s} : server'[t] = server[t] /\ closeTask'[t] = closeTask[t]
        /\ \/ /\ op.phase = "closing" /\ s = Head(op.todo)
              /\ CloseResolved(s, "ok")
           \/ UNCHANGED <<waiting, op, opened, connected, failed, errors>>
    BY <1>9, ServerClosesOutcome
  <2>2. CASE /\ op.phase = "closing" /\ s = Head(op.todo)
             /\ CloseResolved(s, "ok")
    BY <1>9, <2>1, <2>2, CloseAnsweredAsks DEF Results
  <2>3. CASE UNCHANGED <<waiting, op, opened, connected, failed, errors>>
    <3>1. \A t \in Servers : /\ Reached(t)' => Reached(t)
                             /\ closeTask[t] # "none" => closeTask'[t] # "none"
      BY <2>1 DEF Reached
    <3> QED BY <1>9, <2>3, <3>1, SameOperationAsks
  <2> QED BY <2>1, <2>2, <2>3
<1>10. ASSUME NEW s \in Servers, ServerFailsToClose(s), UNCHANGED options
       PROVE  AskedInv'
  <2>1. PICK error \in {"error", "abort"} :
          /\ server'[s].connects = server[s].connects /\ server'[s].live = server[s].live
          /\ closeTask' \in Tasks
          /\ \A t \in Servers \ {s} : server'[t] = server[t] /\ closeTask'[t] = closeTask[t]
          /\ \/ /\ waiting[s] = "oldClose" /\ CallClose(s)
                /\ UNCHANGED <<op, opened, connected, failed>>
             \/ /\ closeTask'[s] = "failed"
                /\ \/ /\ op.phase = "closing" /\ s = Head(op.todo)
                      /\ CloseResolved(s, error)
                   \/ UNCHANGED <<waiting, op, opened, connected, failed>>
    BY <1>10, ServerFailsOutcome
  <2>2. \A t \in Servers : Reached(t)' => Reached(t)
    BY <2>1 DEF Reached
  <2>3. CASE CallClose(s) /\ waiting[s] = "oldClose"
                          /\ UNCHANGED <<op, opened, connected, failed>>
    <3>1. closeTask'[s] # "none" /\ \A t \in Servers \ {s} : waiting'[t] = waiting[t]
      BY <1>1, <2>3 DEF CallClose, TypeOK
    <3> QED BY <1>10, <2>1, <2>2, <2>3, <3>1, SameOperationAsks
  <2>4. CASE /\ closeTask'[s] = "failed" /\ op.phase = "closing" /\ s = Head(op.todo)
             /\ CloseResolved(s, error)
    BY <1>10, <2>1, <2>4, CloseAnsweredAsks DEF Results
  <2>5. CASE /\ closeTask'[s] = "failed"
             /\ UNCHANGED <<waiting, op, opened, connected, failed>>
    BY <1>10, <2>1, <2>2, <2>5, SameOperationAsks
  <2> QED BY <2>1, <2>3, <2>4, <2>5
<1>11. CASE UNCHANGED vars
  BY <1>11, SameOperationAsks DEF vars, manager, Reached
<1> QED BY <1>2, <1>3, <1>4, <1>5, <1>6, <1>7, <1>8, <1>9, <1>10, <1>11
        DEF Next, Manager, Timeouts, Environment

(* A server offered as active is connected, also when a close() that was    *)
(* given up ends late; and with the default of suppressAbortError a strict  *)
(* open() that failed has asked every connected server to close, and        *)
(* between operations no active server has failed.                          *)
THEOREM ActiveIsHealthy == Spec => []ActiveServersAreHealthy
<1>1. CallsInv /\ SoundInv /\ AskedInv => ActiveServersAreHealthy
  <2> SUFFICES ASSUME CallsInv, SoundInv, AskedInv PROVE ActiveServersAreHealthy
    OBVIOUS
  <2>1. TypeOK /\ Phases /\ connected \subseteq Servers
    BY SetsAreServers DEF CallsInv
  <2>2. \A s \in connected : server[s].live
    BY <2>1 DEF SoundInv, Sound
  <2>3. options.suppressAbort => /\ AllOrNothing
                                 /\ OnlyHealthyServersAreActive
                                 /\ Idle => \A s \in connected : errors[s] = "none"
    BY <2>1
    DEF SoundInv, Healthy, AskedInv, Reached, AllOrNothing,
        OnlyHealthyServersAreActive, Idle
  <2> QED BY <2>2, <2>3 DEF ActiveServersAreHealthy
<1>2. Init => AskedInv
  <2>1. Init => op.phase = "connecting" /\ opened = "no" /\ \A s \in Servers : ~Reached(s)
    BY DEF Init, NoOp, Reached
  <2> QED BY <2>1 DEF AskedInv
<1>3. CallsInv /\ AskedInv /\ [Next]_vars => AskedInv'
  BY StepsAsk
<1> QED BY <1>1, <1>2, <1>3, CallsAreKnown, StateIsSound, PTL DEF Spec

(* However a reconnection ends, each server it was about is active or on    *)
(* the list of failed servers.                                              *)
THEOREM ServersAreRemembered == Spec => NoServerForgotten
<1>1. CallsInv /\ SoundInv /\ [Next]_vars =>
        [op.kind \in {"reconnectFailed", "reconnectAll"} /\ op'.kind = "none"
           => ToSet(op.targets) \subseteq connected' \cup ToSet(failed')]_vars
  BY StepsWell DEF Holds, Remembers, Reconnecting
<1> QED BY <1>1, CallsAreKnown, StateIsSound, PTL DEF Spec, NoServerForgotten

(* After close() nothing is active, and a server that is still connected    *)
(* has an error.                                                            *)
THEOREM ClosesEverything == Spec => CloseIsComplete
<1>1. CallsInv /\ SoundInv /\ [Next]_vars =>
        [op.kind = "close" /\ op'.kind = "none" /\ options.suppressAbort
           => /\ connected' = {}
              /\ \A s \in Servers : server'[s].live => errors'[s] # "none"]_vars
  BY StepsWell DEF Holds, Completes
<1> QED BY <1>1, CallsAreKnown, StateIsSound, PTL DEF Spec, CloseIsComplete
=============================================================================
