------------------------ MODULE RealtimeSession_proofs ------------------------
(***************************************************************************)
(* Proofs about RealtimeSession, for every set of calls, every number of   *)
(* responses, handlers and connections.                                    *)
(***************************************************************************)
EXTENDS RealtimeSession, TLAPS

Stages == Working \cup {"idle", "waiting", "resuming"}

Handlers ==
  [stage : Stages, call : Calls \cup {NoOne}, agent : Agents \cup {NoOne},
   generation : Nat, on : Slots \cup {None}, outcome : Answers \cup {NoOne}]

Invocations ==
  [completed : [Keys -> Answers \cup {NoOne}], active : [Keys -> Slots \cup {None}],
   pending : SUBSET Keys]

Connections ==
  [generation : Nat, connected : Nat, opening : SUBSET Nat, attempt : Nat]

Servers ==
  [open : BOOLEAN, generation : Nat,
   response : [Responses -> {"none", "live", "done", "past"}],
   started : Nat, order : [Responses -> Nat],
   made : [Responses -> Agents \cup {NoOne}],
   callOf : [Calls -> Responses \cup {NoOne}], events : [Calls -> Nat],
   answers : [Calls -> SUBSET Answers],
   verdicts : SUBSET [key : Keys, verdict : {"yes", "no"}]]

Histories ==
  [runs : [Calls -> Nat], failed : [Calls -> Nat], misled : BOOLEAN,
   interrupts : [Responses -> Nat], misfired : BOOLEAN, before : Nat]

(* A handler that is not idle has a function call.                          *)
HandlersTyped ==
  /\ handler \in [Slots -> Handlers]
  /\ \A h \in Slots :
       handler[h].stage # "idle" => KeyOf(h) \in Agents \X FunctionCalls

TypeOK ==
  /\ connection \in Connections
  /\ agent \in Agents
  /\ turn \in [active : Responses \cup {NoOne}, generation : Nat,
               snapshot : [Responses -> Agents \cup {NoOne}]]
  /\ invocation \in Invocations
  /\ issued \subseteq [key : Keys, state : {"pending", "decided"},
                       generation : Nat]
  /\ approval \in [Keys -> {"none", "yes", "no"}]
  /\ HandlersTyped
  /\ checks \subseteq [response : Responses, source : {"text", "audio", "final"},
                       turn : Nat, started : Nat, generation : Nat]
  /\ tripped \subseteq Responses
  /\ server \in Servers
  /\ history \in Histories

------------------------------------------------------------------------------
(* A call that is answered once is not run again, and nobody waits for a    *)
(* handler that has gone: while a call of the connection is worked on, its  *)
(* entry names the handler, the call is neither answered nor pending, and   *)
(* whoever waits, waits for that handler.                                   *)
Works(h)   == handler[h].stage \in Working
Current(h) == handler[h].generation = connection.generation

ActiveInv ==
  \A k \in Keys : LET w == invocation.active[k] IN
    w # None => /\ Works(w) /\ Current(w) /\ KeyOf(w) = k
                /\ invocation.completed[k] = NoOne
                /\ k \notin invocation.pending

HandlerInv ==
  \A h \in Slots :
    /\ handler[h].generation <= connection.generation
    /\ Works(h) /\ Current(h) => invocation.active[KeyOf(h)] = h
    /\ Waits(h) => /\ handler[h].on \in Slots /\ Current(h)
                   /\ invocation.active[KeyOf(h)] = handler[h].on
    /\ /\ handler[h].stage = "resuming" /\ Current(h)
       /\ handler[h].outcome # NoOne
       => invocation.completed[KeyOf(h)] = handler[h].outcome

PendingInv ==
  \A k \in invocation.pending : invocation.completed[k] = NoOne

InvocationInv == ActiveInv /\ HandlerInv /\ PendingInv

------------------------------------------------------------------------------
(* A socket is of the attempt that opened it, and a session that is         *)
(* connected has the socket of its own generation; what speaks on that      *)
(* began after the reset.                                                   *)
Fresh == server.generation = connection.generation

SocketInv ==
  /\ connection.attempt <= connection.generation
  /\ \A g \in connection.opening : g <= connection.generation
  /\ server.generation <= connection.generation
  /\ connection.attempt # 0 =>
       /\ connection.attempt \notin connection.opening
       /\ server.open => server.generation = connection.attempt
  /\ Connected => /\ Fresh /\ connection.attempt = 0
                  /\ connection.generation \notin connection.opening
  /\ history.before <= server.started
  /\ \A r \in Responses :
       /\ server.order[r] <= server.started
       /\ Fresh /\ Live(r) => server.order[r] > history.before

------------------------------------------------------------------------------
(* All that is known of a call of the connection is kept under one key, as  *)
(* the response that made it belongs to one agent.                          *)
Known(k) ==
  \/ invocation.active[k] # None
  \/ invocation.completed[k] # NoOne
  \/ k \in invocation.pending

Own(k) == /\ server.callOf[k[2]] # NoOne
          /\ k[1] = server.made[server.callOf[k[2]]]

ResponseInv ==
  \A r \in Responses :
    /\ server.response[r] = "none" => turn.snapshot[r] = NoOne
    /\ Live(r) /\ server.order[r] > history.before =>
         server.made[r] \in Agents /\ turn.snapshot[r] = server.made[r]

KeyInv ==
  /\ \A k \in Keys : Known(k) => Connected /\ Own(k)
  /\ \A c \in Calls : server.callOf[c] # NoOne =>
       server.response[server.callOf[c]] # "none"
  /\ ~history.misled

OwnKeyInv == ResponseInv /\ KeyInv

------------------------------------------------------------------------------
(* What is counted, what was answered, and what was decided.                *)
Acts(h) == handler[h].stage \in {"acting", "handing"} /\ IsCurrent(h)

RunInv ==
  \A c \in Calls :
    /\ history.runs[c] <= history.failed[c] + 1
    /\ Fresh =>
         \/ history.runs[c] <= history.failed[c]
         \/ \E h \in Slots : Acts(h) /\ handler[h].call = c
         \/ \E k \in Keys : k[2] = c /\ invocation.completed[k] # NoOne

RecordInv ==
  \A k \in Keys : invocation.completed[k] # NoOne =>
    invocation.completed[k].generation = connection.generation

RecordedInv ==
  Fresh => \A c \in Calls : \A a \in server.answers[c] :
             \E k \in Keys : k[2] = c /\ invocation.completed[k] = a

AnswerInv == RecordInv /\ RecordedInv /\ OneAnswer

StageInv(h) ==
  Current(h) =>
    /\ handler[h].stage = "screening" => NeedsApproval(h) /\ Approval(h) = "none"
    /\ handler[h].stage \in {"guarding", "acting"} /\ NeedsApproval(h) =>
         Approval(h) = "yes"
    /\ handler[h].stage = "handing" => ~NeedsApproval(h)

ItemInv(i) ==
  /\ i.generation <= connection.generation
  /\ i.generation = connection.generation => Connected
  /\ i.generation = connection.generation /\ i.key[2] \in ApprovedTools =>
       /\ Own(i.key)
       /\ i.state = "pending" => i.key \in invocation.pending
       /\ i.state = "decided" => approval[i.key] # "none"

(* What was run was approved, of the agent that the call belongs to.        *)
RunApproved ==
  \A k \in Keys : k[2] \in ApprovedTools /\ history.runs[k[2]] > 0 =>
    /\ server.callOf[k[2]] # NoOne
    /\ Own(k) => approval[k] = "yes"

DecisionInv ==
  /\ \A i \in issued : ItemInv(i)
  /\ \A k \in invocation.pending : k[2] \in ApprovedTools /\ approval[k] = "none"
  /\ \A h \in Slots : StageInv(h)
  /\ RunApproved

VerdictInv ==
  /\ \A v \in server.verdicts :
       /\ [key |-> v.key, state |-> "decided",
           generation |-> server.generation] \in issued
       /\ [key |-> v.key, state |-> "pending",
           generation |-> server.generation] \notin issued
       /\ v.key[2] \in McpRequests
  /\ \A v, w \in server.verdicts : v.key = w.key => v = w

------------------------------------------------------------------------------
(* The turns that are counted are the responses that were started since the *)
(* reset; the last of them is the active one until it ends.                 *)
InterruptInv ==
  /\ turn.generation + history.before = server.started
  /\ \A r \in Responses :
       /\ /\ Live(r) /\ server.order[r] = server.started
          /\ server.started > history.before
          => turn.active = r
       /\ history.interrupts[r] <= 1
       /\ history.interrupts[r] > 0 => r \in tripped
  /\ \A check \in checks :
       /\ check.generation <= connection.generation
       /\ check.generation = connection.generation =>
            check.turn + history.before = check.started
  /\ ~history.misfired

------------------------------------------------------------------------------
(* The state keeps its type.                                                *)
LEMMA Basics ==
  /\ None \notin Slots /\ NoOne \notin Answers /\ NoOne \notin Agents
  /\ FunctionCalls \subseteq Calls /\ McpRequests \subseteq Calls
  /\ ApprovedTools \subseteq FunctionCalls
  /\ ApprovedTools \cap Handoffs = {} /\ McpRequests \cap FunctionCalls = {}
  /\ Agents \X FunctionCalls \subseteq Keys
  /\ NoOne \notin Responses
BY RealtimeAssumption DEF None, Agents, FunctionCalls, Calls, Keys

LEMMA IdleType == Idle \in Handlers
BY DEF Idle, Handlers, Stages, None

(* A handler keeps its type when it goes on, is woken or is given up.       *)
LEMMA HandlerTypes ==
  ASSUME HandlersTyped, NEW w \in Slots
  PROVE  /\ \A stage \in Stages :
              [handler[w] EXCEPT !.stage = stage] \in Handlers
         /\ \A outcome \in Answers \cup {NoOne} :
              [handler[w] EXCEPT !.stage = "resuming", !.outcome = outcome]
                \in Handlers
<1>1. handler[w] \in Handlers
  BY DEF HandlersTyped
<1>2. "resuming" \in Stages
  BY DEF Stages
<1> QED
  BY <1>1, <1>2 DEF Handlers

LEMMA ResolveType ==
  ASSUME HandlersTyped, NEW h, NEW outcome \in Answers \cup {NoOne}
  PROVE  /\ Resolve(handler, h, outcome) \in [Slots -> Handlers]
         /\ \A w \in Slots :
              /\ Resolve(handler, h, outcome)[w].call = handler[w].call
              /\ Resolve(handler, h, outcome)[w].agent = handler[w].agent
              /\ handler[w].stage = "idle" =>
                   Resolve(handler, h, outcome)[w].stage = "idle"
<1> DEFINE woken == Resolve(handler, h, outcome)
<1>1. ASSUME NEW w \in Slots
      PROVE  /\ woken[w] \in Handlers
             /\ woken[w].call = handler[w].call
             /\ woken[w].agent = handler[w].agent
             /\ handler[w].stage = "idle" => woken[w].stage = "idle"
  <2>1. handler[w] \in Handlers
    BY DEF HandlersTyped
  <2>2. CASE handler[w].stage = "waiting" /\ handler[w].on = h
    <3>1. woken[w] = [handler[w] EXCEPT !.stage = "resuming", !.outcome = outcome]
      BY <2>2 DEF Resolve
    <3> QED
      BY <2>1, <2>2, <3>1, HandlerTypes DEF Handlers
  <2>3. CASE ~(handler[w].stage = "waiting" /\ handler[w].on = h)
    BY <2>1, <2>3 DEF Resolve
  <2> QED
    BY <2>2, <2>3
<1> QED
  BY <1>1 DEF Resolve

LEMMA ResetType ==
  ASSUME TypeOK, ResetSession
  PROVE  /\ turn' \in [active : Responses \cup {NoOne}, generation : Nat,
                       snapshot : [Responses -> Agents \cup {NoOne}]]
         /\ invocation' \in Invocations
         /\ HandlersTyped'
         /\ tripped' = {} /\ history' \in Histories
<1>1. ASSUME NEW w \in Slots
      PROVE  /\ handler'[w] \in Handlers
             /\ handler'[w].call = handler[w].call
             /\ handler'[w].agent = handler[w].agent
             /\ handler[w].stage = "idle" => handler'[w].stage = "idle"
  <2>1. handler[w] \in Handlers
    BY DEF TypeOK, HandlersTyped
  <2>2. CASE Waits(w) /\ IsActive(handler[w].on)
    <3>1. handler'[w] = [handler[w] EXCEPT !.stage = "resuming", !.outcome = NoOne]
      BY <2>2 DEF ResetSession, ResetToolInvocationState
    <3> QED
      BY <2>1, <2>2, <3>1, HandlerTypes DEF Handlers, Waits, TypeOK
  <2>3. CASE ~(Waits(w) /\ IsActive(handler[w].on))
    BY <2>1, <2>3 DEF ResetSession, ResetToolInvocationState
  <2> QED
    BY <2>2, <2>3
<1>2. handler' \in [Slots -> Handlers]
  BY <1>1 DEF ResetSession, ResetToolInvocationState
<1>3. HandlersTyped'
  BY <1>1, <1>2 DEF HandlersTyped, KeyOf, TypeOK
<1>4. history' \in Histories
  BY DEF ResetSession, TypeOK, Histories, Servers
<1> QED
  BY <1>3, <1>4 DEF ResetSession, ResetToolInvocationState, NoTurn, NoInvocation,
                    Invocations

LEMMA NewTypes ==
  NewServer \in Servers /\ NoRuns \in Histories
BY DEF NewServer, NoRuns, Servers, Histories

LEMMA SocketTypes ==
  ASSUME TypeOK
  PROVE  /\ Past \in [Responses -> {"none", "past"}]
         /\ Closed \in Servers
         /\ SocketOpens => server' \in Servers /\ history' \in Histories
<1>1. Past \in [Responses -> {"none", "past"}]
  BY DEF Past
<1>2. server \in Servers /\ history \in Histories /\ connection \in Connections
  BY DEF TypeOK
<1>3. Closed \in Servers
  BY <1>1, <1>2 DEF Closed, Servers
<1>4. ASSUME SocketOpens PROVE server' \in Servers /\ history' \in Histories
  <2>1. server' = [NewServer EXCEPT
          !.open = TRUE, !.generation = connection.attempt,
          !.response = Past, !.started = server.started]
    BY <1>4 DEF SocketOpens
  <2>2. server' \in Servers
    <3>1. connection.attempt \in Nat /\ server.started \in Nat
      BY <1>2 DEF Connections, Servers
    <3>2. Past \in [Responses -> {"none", "live", "done", "past"}]
      BY <1>1
    <3> QED
      BY <2>1, <3>1, <3>2, NewTypes DEF Servers
  <2>3. history' \in Histories
    <3>1. history' = [history EXCEPT !.runs   = [c \in Calls |-> 0],
                                     !.failed = [c \in Calls |-> 0]]
      BY <1>4 DEF SocketOpens
    <3> QED
      BY <1>2, <3>1 DEF Histories
  <2> QED
    BY <2>2, <2>3
<1> QED
  BY <1>1, <1>3, <1>4

(* What the transport does to its attempt and its socket.                   *)
SocketStep ==
  \/ \E g \in connection.opening : ConnectTransport(g)
  \/ SocketOpens \/ ConnectEnds \/ SocketCloses

LEMMA SocketStepKeeps ==
  ASSUME TypeOK, SocketStep
  PROVE  /\ SessionKept
         /\ connection' \in Connections /\ agent' \in Agents
         /\ connection'.generation = connection.generation
         /\ Connected => Connected'
         /\ server' \in Servers /\ history' \in Histories
         /\ server'.started = server.started
         /\ \A r \in Responses :
              /\ Live(r)' => Live(r) /\ server'.order[r] = server.order[r]
              /\ server'.response[r] = "none" => server.response[r] = "none"
              /\ server.response[r] # "none" => server'.response[r] # "none"
         /\ history'.misled = history.misled
         /\ history'.interrupts = history.interrupts
         /\ history'.misfired = history.misfired
         /\ history'.before = history.before
         /\ \/ SocketOpens
            \/ /\ history' = history
               /\ server'.generation = server.generation
               /\ server'.order = server.order
               /\ server'.made = server.made
               /\ server'.callOf = server.callOf
               /\ server'.answers = server.answers
               /\ server'.verdicts = server.verdicts
<1>1. /\ server \in Servers /\ history \in Histories
      /\ connection \in Connections /\ agent \in Agents
  BY DEF TypeOK
<1>2. /\ SessionKept
      /\ connection' \in Connections /\ agent' \in Agents
      /\ connection'.generation = connection.generation
      /\ Connected => Connected'
  <2>1. CASE \E g \in connection.opening : ConnectTransport(g)
    BY <1>1, <2>1 DEF ConnectTransport, Connections, Connected, Agents
  <2>2. CASE SocketOpens
    BY <1>1, <2>2 DEF SocketOpens, Connected
  <2>3. CASE ConnectEnds
    <3>1. /\ SessionKept /\ agent' \in Agents
          /\ connection'.generation = connection.generation
      BY <1>1, <2>3 DEF ConnectEnds, Connections
    <3>2. /\ connection' \in Connections
          /\ connection'.connected \in {connection.connected, connection.generation}
      <4>1. PICK n \in {connection.connected, connection.generation} :
              connection' = [connection EXCEPT !.attempt = 0, !.connected = n]
        <5>1. CASE connection' = [connection EXCEPT !.attempt = 0]
          BY <1>1, <5>1 DEF Connections
        <5>2. CASE connection' = [connection EXCEPT
                     !.attempt   = 0,
                     !.connected = IF connection.attempt = connection.generation
                                   THEN connection.attempt ELSE @]
          BY <1>1, <5>2 DEF Connections
        <5> QED
          BY <2>3, <5>1, <5>2 DEF ConnectEnds
      <4>2. n \in Nat
        BY <1>1 DEF Connections
      <4> QED
        BY <1>1, <4>1, <4>2 DEF Connections
    <3> QED
      BY <3>1, <3>2 DEF Connected
  <2>4. CASE SocketCloses
    BY <1>1, <2>4 DEF SocketCloses, Connections, Connected
  <2> QED
    BY <2>1, <2>2, <2>3, <2>4 DEF SocketStep
<1>3. CASE SocketOpens
  <2>1. /\ server'.started = server.started
        /\ server'.response = Past
    BY <1>3 DEF SocketOpens, NewServer
  <2>2. server' \in Servers /\ history' \in Histories
    BY <1>3, SocketTypes
  <2>3. /\ history'.misled = history.misled
        /\ history'.interrupts = history.interrupts
        /\ history'.misfired = history.misfired
        /\ history'.before = history.before
    BY <1>1, <1>3 DEF SocketOpens, Histories
  <2> QED
    BY <1>2, <1>3, <2>1, <2>2, <2>3 DEF Live, Past
<1>4. CASE server' = server /\ history' = history
  BY <1>1, <1>2, <1>4 DEF Live
<1>5. CASE server' = Closed /\ history' = history
  <2>1. /\ server'.started = server.started
        /\ server'.response = Past
        /\ server'.generation = server.generation
        /\ server'.order = server.order
        /\ server'.made = server.made
        /\ server'.callOf = server.callOf
        /\ server'.answers = server.answers
        /\ server'.verdicts = server.verdicts
    BY <1>1, <1>5 DEF Closed, Servers
  <2> QED
    BY <1>1, <1>2, <1>5, <2>1, SocketTypes DEF Live, Past
<1> QED
  BY <1>3, <1>4, <1>5 DEF SocketStep, ConnectTransport, ConnectEnds, SocketCloses

LEMMA TypeInit == Init => TypeOK
BY IdleType, NewTypes
   DEF Init, TypeOK, Connections, HandlersTyped, Invocations, NoTurn, NoInvocation, Agents, Idle

LEMMA FinishType ==
  ASSUME HandlersTyped, NEW h \in Slots, NEW inv \in Invocations,
         KeyOf(h) \in Keys, Finish(h, inv)
  PROVE  HandlersTyped' /\ invocation' \in Invocations
<1> DEFINE outcome == inv.completed[KeyOf(h)]
           woken   == Resolve(handler, h, outcome)
<1>1. outcome \in Answers \cup {NoOne}
  BY DEF Invocations
<1>2. handler' = [woken EXCEPT ![h] = Idle]
  BY DEF Finish
<1>3. /\ woken \in [Slots -> Handlers]
      /\ \A w \in Slots : /\ woken[w].call = handler[w].call
                          /\ woken[w].agent = handler[w].agent
                          /\ handler[w].stage = "idle" => woken[w].stage = "idle"
  BY <1>1, ResolveType
<1>4. handler' \in [Slots -> Handlers]
  BY <1>2, <1>3, IdleType
<1>5. \A w \in Slots : w # h => handler'[w] = woken[w]
  BY <1>2, <1>3
<1>6. handler'[h].stage = "idle"
  BY <1>2, <1>3 DEF Idle
<1>7. HandlersTyped'
  BY <1>3, <1>4, <1>5, <1>6 DEF HandlersTyped, KeyOf
<1>8. invocation' \in Invocations
  BY DEF Finish, Invocations
<1> QED
  BY <1>7, <1>8

LEMMA SlotIsFree == Free # {} => Slot \in Free /\ Slot \in Slots
BY DEF Slot, Free

LEMMA RunType ==
  ASSUME TypeOK, NEW k \in Agents \X FunctionCalls,
         NEW stage \in {"enabling", "asking"},
         NEW inv \in Invocations, NEW srv \in Servers, Run(k, stage, inv, srv)
  PROVE  HandlersTyped' /\ invocation' \in Invocations /\ server' \in Servers
<1>1. k \in Keys /\ k[1] \in Agents /\ k[2] \in FunctionCalls /\ k[2] \in Calls
  BY Basics
<1>2. CASE inv.completed[k] # NoOne /\ invocation' = inv /\ handler' = handler
  <2>1. inv.completed[k] \in Answers
    BY <1>1, <1>2 DEF Invocations
  <2>2. HandlersTyped'
    BY <1>2 DEF TypeOK, HandlersTyped, KeyOf
  <2>3. \/ server' = srv
        \/ server' = [srv EXCEPT !.answers[k[2]] = @ \cup {inv.completed[k]}]
    BY <1>2, Basics DEF Run
  <2>4. server' \in Servers
    BY <1>1, <2>1, <2>3 DEF Servers
  <2> QED
    BY <1>2, <2>2, <2>4
<1>3. CASE inv.completed[k] = NoOne /\ Free # {} /\ server' = srv
  <2> DEFINE new == IF inv.active[k] # None
                    THEN NewHandler("waiting", k, inv.active[k])
                    ELSE NewHandler(stage, k, None)
  <2>1. new \in Handlers
    BY <1>1, Basics
       DEF NewHandler, Handlers, Stages, Working, Invocations, TypeOK, Connections
  <2>2. handler' = [handler EXCEPT ![Slot] = new]
    BY <1>3 DEF Run
  <2>3. handler' \in [Slots -> Handlers]
    BY <2>1, <2>2, SlotIsFree DEF TypeOK, HandlersTyped
  <2>4. \A w \in Slots : w # Slot => handler'[w] = handler[w]
    BY <2>2 DEF TypeOK, HandlersTyped
  <2>5. handler'[Slot] = new
    BY <1>3, <2>2, SlotIsFree DEF TypeOK, HandlersTyped
  <2>6. new.agent = k[1] /\ new.call = k[2]
    BY DEF NewHandler
  <2>7. HandlersTyped'
    BY <1>1, <2>3, <2>4, <2>5, <2>6 DEF TypeOK, HandlersTyped, KeyOf
  <2>8. invocation' \in Invocations
    BY <1>3, SlotIsFree DEF Run, Invocations
  <2> QED
    BY <1>3, <2>7, <2>8
<1> QED
  BY <1>2, <1>3 DEF Run

(* The steps of a handler that is at work on a call.                        *)
LEMMA StepTypes ==
  ASSUME TypeOK, NEW h \in Slots, Step(h), UNCHANGED options
  PROVE  TypeOK'
<1> DEFINE rest == <<connection, turn, issued, approval, checks, tripped>>
<1> USE Basics
<1>1. handler[h].stage # "idle" =>
        /\ KeyOf(h) \in Keys /\ handler[h].call \in Calls
        /\ handler[h].call \in FunctionCalls
  BY DEF TypeOK, HandlersTyped, KeyOf
<1>2. invocation \in Invocations
  BY DEF TypeOK
<1>3. handler[h].stage \in Working => handler[h].stage # "idle"
  BY DEF Working
<1>4. ASSUME UNCHANGED rest, agent' \in Agents, HandlersTyped',
             invocation' \in Invocations, server' \in Servers,
             history' \in Histories
      PROVE  TypeOK'
  BY <1>4 DEF TypeOK
<1>5. ASSUME Ends(h), handler[h].stage # "idle" PROVE TypeOK'
  BY <1>1, <1>2, <1>4, <1>5, FinishType DEF Ends, TypeOK
<1>6. ASSUME NEW what \in {"notFound", "rejection", "refusal", "result", "transfer"},
             AnswersCall(h, what), handler[h].stage # "idle",
             agent' \in Agents, history' = history
      PROVE  TypeOK'
  <2> DEFINE answer == Answer(what, h)
  <2>1. answer \in Answers
    BY <1>1, <1>6 DEF Answer, Answers, TypeOK, HandlersTyped, Handlers, Histories
  <2>2. Committed(KeyOf(h), answer) \in Invocations
    BY <1>1, <1>2, <2>1 DEF Committed, Invocations
  <2>3. server' \in Servers
    BY <1>1, <1>6, <2>1 DEF AnswersCall, Sent, TypeOK, Servers
  <2>4. HandlersTyped' /\ invocation' \in Invocations
    BY <1>1, <1>6, <2>2, FinishType DEF AnswersCall, TypeOK
  <2> QED
    BY <1>4, <1>6, <2>3, <2>4 DEF AnswersCall, TypeOK
<1>7. ASSUME NEW stage \in Working, GoesOn(h, stage), handler[h].stage # "idle",
             history' = history \/ Starts(h)
      PROVE  TypeOK'
  <2>1. handler' = [handler EXCEPT ![h].stage = stage]
    BY <1>7 DEF GoesOn
  <2>2. [handler[h] EXCEPT !.stage = stage] \in Handlers
    BY HandlerTypes DEF TypeOK, Stages
  <2>3. handler' \in [Slots -> Handlers]
    BY <2>1, <2>2 DEF TypeOK, HandlersTyped
  <2>4. \A w \in Slots : /\ handler'[w].call = handler[w].call
                         /\ handler'[w].agent = handler[w].agent
                         /\ w # h => handler'[w].stage = handler[w].stage
    BY <2>1 DEF TypeOK, HandlersTyped, Handlers
  <2>5. HandlersTyped'
    BY <1>7, <2>3, <2>4 DEF TypeOK, HandlersTyped, KeyOf
  <2>6. history' \in Histories
    BY <1>1, <1>7 DEF Starts, TypeOK, Histories
  <2> QED
    BY <1>4, <1>7, <2>5, <2>6 DEF GoesOn, TypeOK
<1>8. ASSUME RequestApproval(h), handler[h].stage # "idle" PROVE TypeOK'
  <2> DEFINE k     == KeyOf(h)
             woken == Resolve(handler, invocation.active[k], NoOne)
  <2>1. /\ woken \in [Slots -> Handlers]
        /\ \A w \in Slots : /\ woken[w].call = handler[w].call
                            /\ woken[w].agent = handler[w].agent
                            /\ handler[w].stage = "idle" => woken[w].stage = "idle"
    BY ResolveType DEF TypeOK
  <2>2. handler' = [woken EXCEPT ![h] = Idle]
    BY <1>8 DEF RequestApproval
  <2>3. handler' \in [Slots -> Handlers] /\ handler'[h].stage = "idle"
    BY <2>1, <2>2, IdleType DEF Idle
  <2>4. \A w \in Slots : w # h => handler'[w] = woken[w]
    BY <2>1, <2>2
  <2>5. HandlersTyped'
    BY <2>1, <2>3, <2>4 DEF TypeOK, HandlersTyped, KeyOf
  <2>6. invocation' \in Invocations
    BY <1>1, <1>2, <1>8 DEF RequestApproval, Invocations
  <2>7. issued' \subseteq [key : Keys, state : {"pending", "decided"},
                           generation : Nat]
    BY <1>1, <1>8 DEF RequestApproval, TypeOK, Connections
  <2> QED
    BY <1>8, <2>5, <2>6, <2>7 DEF RequestApproval, TypeOK
<1>9. CASE Abandon(h)
  BY <1>3, <1>5, <1>9 DEF Abandon
<1>10. CASE Enabled(h)
  BY <1>6, <1>7, <1>10 DEF Enabled, At, Working, TypeOK
<1>11. CASE Asked(h)
  BY <1>7, <1>8, <1>11 DEF Asked, At, Working
<1>12. CASE RejectionFormatted(h) \/ ToolReturns(h)
  BY <1>6, <1>12 DEF RejectionFormatted, ToolReturns, At, TypeOK
<1>13. CASE Screened(h)
  BY <1>6, <1>8, <1>13 DEF Screened, At, TypeOK
<1>14. CASE InputGuarded(h)
  BY <1>6, <1>7, <1>14 DEF InputGuarded, At, Working, TypeOK
<1>15. CASE HandoffEnds(h)
  BY <1>6, <1>15 DEF HandoffEnds, At, Agents
<1>16. CASE Fail(h)
  <2>1. history' \in Histories
    BY <1>1, <1>3, <1>16 DEF Fail, TypeOK, Histories
  <2>2. HandlersTyped' /\ invocation' \in Invocations
    BY <1>1, <1>2, <1>3, <1>16, FinishType DEF Fail, TypeOK
  <2> QED
    BY <1>4, <1>16, <2>1, <2>2 DEF Fail, TypeOK
<1>17. CASE Resume(h)
  <2>1. handler[h].outcome \in Answers \cup {NoOne} /\ handler[h].stage # "idle"
    BY <1>17 DEF Resume, TypeOK, HandlersTyped, Handlers
  <2>2. handler' = [handler EXCEPT ![h] = Idle]
    BY <1>17 DEF Resume
  <2>3. /\ handler' \in [Slots -> Handlers] /\ handler'[h].stage = "idle"
        /\ \A w \in Slots : w # h => handler'[w] = handler[w]
    BY <2>2, IdleType DEF TypeOK, HandlersTyped, Idle
  <2>4. HandlersTyped'
    BY <2>3 DEF TypeOK, HandlersTyped, KeyOf
  <2>5. invocation' \in Invocations
    BY <1>1, <1>2, <1>17, <2>1 DEF Resume, Committed, Invocations
  <2>6. server' \in Servers
    BY <1>1, <1>17, <2>1 DEF Resume, Sent, TypeOK, Servers
  <2> QED
    BY <1>4, <1>17, <2>4, <2>5, <2>6 DEF Resume, TypeOK
<1> QED
  BY <1>9, <1>10, <1>11, <1>12, <1>13, <1>14, <1>15, <1>16, <1>17 DEF Step

LEMMA TypeStep == TypeOK /\ [Next]_vars => TypeOK'
<1> SUFFICES ASSUME TypeOK, [Next]_vars PROVE TypeOK'
  OBVIOUS
<1> USE Basics
<1>0. /\ connection \in Connections
      /\ server \in Servers /\ history \in Histories /\ HandlersTyped
  BY DEF TypeOK
<1>1. CASE Connect \/ Close
  <2>1. ResetSession /\ connection.generation + 1 \in Nat
    BY <1>0, <1>1 DEF Connect, Close, Connections
  <2>2. connection' \in Connections /\ server' \in Servers
    <3>1. CASE Connect
      BY <1>0, <2>1, <3>1 DEF Connect, Connections
    <3>2. CASE Close
      BY <1>0, <2>1, <3>2, SocketTypes DEF Close, Connections
    <3> QED
      BY <1>1, <3>1, <3>2
  <2>3. UNCHANGED <<agent, issued, approval, checks>>
    BY <2>1 DEF ResetSession
  <2> QED
    BY <2>1, <2>2, <2>3, ResetType DEF TypeOK
<1>2. CASE SocketStep
  <2>1. HandlersTyped'
    BY <1>2, SocketStepKeeps DEF SessionKept, TypeOK, HandlersTyped, KeyOf
  <2> QED
    BY <1>2, <2>1, SocketStepKeeps DEF SessionKept, TypeOK
<1>3. \A r \in Responses : Capture(r) \in [Responses -> Agents \cup {NoOne}]
                           /\ Captured(r) \in Agents
  BY DEF Capture, Captured, TypeOK
<1>4. ASSUME UNCHANGED handler PROVE HandlersTyped'
  BY <1>4 DEF TypeOK, HandlersTyped, KeyOf
<1>5. ASSUME NEW r \in Responses, NEW source \in {"text", "audio", "final"},
             ScheduleOutputGuardrails(r, source)
      PROVE  checks' \subseteq [response : Responses,
                                source : {"text", "audio", "final"},
                                turn : Nat, started : Nat, generation : Nat]
  BY <1>5 DEF ScheduleOutputGuardrails, TypeOK, Servers, Connections
<1>6. ASSUME NEW r \in Responses, TurnStarted(r) PROVE TypeOK'
  <2>1. server' \in Servers
    <3>1. agent \in Agents /\ server.started + 1 \in Nat
      BY <1>0 DEF TypeOK, Servers
    <3> QED
      BY <1>0, <1>6, <3>1 DEF TurnStarted, Servers
  <2> QED
    BY <1>3, <1>4, <1>6, <2>1 DEF TurnStarted, TypeOK
<1>7. ASSUME NEW r \in Responses, TurnDone(r) PROVE TypeOK'
  <2>1. server' \in Servers
    BY <1>7 DEF TurnDone, TypeOK, Servers
  <2> QED
    BY <1>4, <1>5, <1>7, <2>1 DEF TurnDone, TypeOK
<1>8. ASSUME NEW r \in Responses, NEW source \in {"text", "audio"}, Delta(r, source)
      PROVE  TypeOK'
  BY <1>3, <1>4, <1>5, <1>8 DEF Delta, TypeOK
<1>9. ASSUME NEW check \in checks, GuardrailPasses(check) \/ GuardrailTrips(check)
      PROVE  TypeOK'
  <2>1. history' \in Histories /\ tripped' \subseteq Responses
    <3>1. CASE UNCHANGED <<tripped, history>>
      BY <1>0, <3>1 DEF TypeOK
    <3>2. CASE tripped' = tripped \cup {check.response}
      <4>1. /\ check.response \in Responses /\ tripped \subseteq Responses
            /\ history.interrupts[check.response] + 1 \in Nat
        BY <1>0 DEF TypeOK, Histories
      <4>2. \/ history' = history
            \/ \E b \in BOOLEAN :
                 history' = [history EXCEPT !.interrupts[check.response] = @ + 1,
                                            !.misfired = b]
        BY <1>0, <1>9, <3>2 DEF GuardrailPasses, GuardrailTrips, Histories
      <4>3. history' \in Histories
        <5>1. ASSUME NEW n \in Nat, NEW b \in BOOLEAN
              PROVE  [history EXCEPT !.interrupts[check.response] = n,
                                     !.misfired = b] \in Histories
          BY <1>0, <4>1 DEF Histories
        <5> QED
          BY <1>0, <4>1, <4>2, <5>1
      <4> QED
        BY <3>2, <4>1, <4>3
    <3> QED
      BY <1>9, <3>1, <3>2 DEF GuardrailPasses, GuardrailTrips
  <2> QED
    BY <1>4, <1>9, <2>1 DEF GuardrailPasses, GuardrailTrips, TypeOK
<1>10. ASSUME NEW c \in FunctionCalls, NEW r \in Responses, FunctionCall(c, r)
       PROVE  TypeOK'
  <2> DEFINE k   == <<Captured(r), c>>
             srv == [server EXCEPT !.callOf[c] = r, !.events[c] = @ + 1]
  <2>1. k \in Agents \X FunctionCalls /\ srv \in Servers
    <3>1. /\ c \in Calls /\ k \in Agents \X FunctionCalls
          /\ server.events[c] + 1 \in Nat
      BY <1>0, <1>3 DEF Servers
    <3> QED
      BY <1>0, <3>1 DEF Servers
  <2>2. history' \in Histories
    BY <1>10 DEF FunctionCall, TypeOK, Histories
  <2>3. HandlersTyped' /\ invocation' \in Invocations /\ server' \in Servers
    <3>1. CASE server' = srv /\ UNCHANGED <<invocation, handler>>
      BY <1>4, <2>1, <3>1 DEF TypeOK
    <3>2. CASE Run(k, "enabling", invocation, srv)
      BY <2>1, <3>2, RunType DEF TypeOK
    <3> QED
      BY <1>10, <3>1, <3>2 DEF FunctionCall
  <2> QED
    BY <1>3, <1>10, <2>2, <2>3 DEF FunctionCall, TypeOK
<1>11. ASSUME NEW c \in McpRequests, McpApprovalRequest(c) PROVE TypeOK'
  <2>1. server' \in Servers
    BY <1>11 DEF McpApprovalRequest, TypeOK, Servers
  <2>2. <<agent, c>> \in Keys
    BY DEF Keys, TypeOK
  <2> QED
    BY <1>4, <1>11, <2>1, <2>2 DEF McpApprovalRequest, TypeOK, Connections
<1>12. ASSUME NEW item \in issued, NEW verdict \in {"yes", "no"}
       PROVE  /\ item.key \in Keys /\ item.key[1] \in Agents /\ item.key[2] \in Calls
              /\ Decided(item) \subseteq [key : Keys, state : {"pending", "decided"},
                                          generation : Nat]
              /\ [approval EXCEPT ![item.key] = verdict]
                   \in [Keys -> {"none", "yes", "no"}]
  BY DEF Decided, TypeOK, Keys
<1>13. ASSUME NEW item \in issued, NEW verdict \in {"yes", "no"},
              DecideCall(item, verdict)
       PROVE  TypeOK'
  <2> DEFINE inv == [invocation EXCEPT !.pending = @ \ {item.key}]
  <2>1. inv \in Invocations /\ server \in Servers
    BY DEF TypeOK, Invocations
  <2>2. item.key \in Agents \X FunctionCalls
    BY <1>12, <1>13 DEF DecideCall, TypeOK, Keys
  <2>3. Run(item.key, "asking", inv, server)
    BY <1>13 DEF DecideCall
  <2>4. HandlersTyped' /\ invocation' \in Invocations /\ server' \in Servers
    BY <2>1, <2>2, <2>3, RunType
  <2> QED
    BY <1>12, <1>13, <2>4 DEF DecideCall, TypeOK
<1>14. ASSUME NEW item \in issued, NEW verdict \in {"yes", "no"},
              DecideMcp(item, verdict)
       PROVE  TypeOK'
  <2>1. server' \in Servers
    BY <1>12, <1>14 DEF DecideMcp, TypeOK, Servers
  <2> QED
    BY <1>4, <1>12, <1>14, <2>1 DEF DecideMcp, TypeOK
<1>15. CASE UNCHANGED vars
  BY <1>4, <1>15 DEF vars, TypeOK
<1> QED
  BY <1>1, <1>2, <1>6, <1>7, <1>8, <1>9, <1>10, <1>11, <1>13, <1>14, <1>15,
     StepTypes DEF Next, Event, SocketStep

(* Every part of a session's state keeps its type.                          *)
THEOREM TypeCorrect == Spec => []TypeOK
BY TypeInit, TypeStep, PTL DEF Spec

------------------------------------------------------------------------------
(* The bookkeeping of the calls that are worked on.                         *)
LEMMA InvocationSame ==
  ASSUME InvocationInv, UNCHANGED <<handler, invocation>>,
         connection'.generation = connection.generation
  PROVE  InvocationInv'
BY DEF InvocationInv, ActiveInv, HandlerInv, PendingInv, Works, Waits, Current, KeyOf

(* Nobody of an old connection waits, and nothing is left of it.            *)
LEMMA InvocationReset ==
  ASSUME TypeOK, InvocationInv, ResetSession,
         connection'.generation = connection.generation + 1
  PROVE  InvocationInv'
<1> USE DEF InvocationInv, Works, Waits, Current
<1>1. /\ \A k \in Keys : /\ invocation'.active[k] = None
                         /\ invocation'.completed[k] = NoOne
      /\ invocation'.pending = {}
  BY DEF ResetSession, ResetToolInvocationState, NoInvocation
<1>2. ASSUME NEW w \in Slots
      PROVE  /\ handler'[w].generation = handler[w].generation
             /\ handler'[w].stage # "waiting"
  <2>1. handler[w] \in Handlers
    BY DEF TypeOK, HandlersTyped
  <2>2. CASE Waits(w) /\ IsActive(handler[w].on)
    <3>1. handler'[w] = [handler[w] EXCEPT !.stage = "resuming", !.outcome = NoOne]
      BY <2>2 DEF ResetSession, ResetToolInvocationState
    <3> QED
      BY <2>1, <3>1 DEF Handlers
  <2>3. CASE ~(Waits(w) /\ IsActive(handler[w].on))
    <3>1. handler'[w] = handler[w]
      BY <2>3 DEF ResetSession, ResetToolInvocationState
    <3>2. Waits(w) => KeyOf(w) \in Keys
      BY Basics DEF TypeOK, HandlersTyped
    <3>3. ~Waits(w)
      BY <2>3, <3>2 DEF HandlerInv, IsActive
    <3> QED
      BY <3>1, <3>3
  <2> QED
    BY <2>2, <2>3
<1>3. \A w \in Slots : /\ handler'[w].generation < connection'.generation
                       /\ handler[w].generation \in Nat
  BY <1>2 DEF HandlerInv, TypeOK, HandlersTyped, Handlers, Connections
<1>4. connection.generation \in Nat /\ connection'.generation \in Nat
  BY DEF TypeOK, Connections
<1> QED
  BY <1>1, <1>2, <1>3, <1>4 DEF ActiveInv, HandlerInv, PendingInv

LEMMA InvocationRun ==
  ASSUME TypeOK, InvocationInv, UNCHANGED connection,
         NEW k \in Agents \X FunctionCalls, NEW stage \in {"enabling", "asking"},
         NEW inv \in Invocations, NEW srv,
         inv.completed = invocation.completed, inv.active = invocation.active,
         inv.pending \subseteq invocation.pending, k \notin inv.pending,
         Run(k, stage, inv, srv)
  PROVE  InvocationInv'
<1> USE DEF InvocationInv, Works, Waits, Current
<1>1. k \in Keys /\ k[1] \in Agents /\ k[2] \in FunctionCalls /\ k = <<k[1], k[2]>>
  BY Basics
<1>2. CASE invocation' = inv /\ handler' = handler
  BY <1>2 DEF ActiveInv, HandlerInv, PendingInv, KeyOf
<1>3. CASE inv.completed[k] = NoOne /\ Free # {}
  <2> DEFINE waits == inv.active[k] # None
             new   == IF waits THEN NewHandler("waiting", k, inv.active[k])
                               ELSE NewHandler(stage, k, None)
  <2>1. PICK s \in Slots : s = Slot /\ handler[s].stage = "idle"
    BY <1>3, SlotIsFree DEF Free
  <2>2. handler' = [handler EXCEPT ![s] = new]
    BY <1>3, <2>1 DEF Run
  <2>3. /\ \A w \in Slots : w # s => handler'[w] = handler[w]
        /\ handler'[s] = new
    BY <2>1, <2>2 DEF TypeOK, HandlersTyped
  <2>4. /\ new.call = k[2] /\ new.agent = k[1]
        /\ new.generation = connection.generation
        /\ new.stage = IF waits THEN "waiting" ELSE stage
        /\ waits => new.on = inv.active[k]
    BY DEF NewHandler
  <2>5. \A w \in Slots : w # s => KeyOf(w)' = KeyOf(w)
    BY <2>3 DEF KeyOf
  <2>6. KeyOf(s)' = k
    BY <1>1, <2>3, <2>4 DEF KeyOf
  <2>7. /\ invocation'.completed = invocation.completed
        /\ invocation'.pending = inv.pending
        /\ invocation'.active =
             IF waits THEN invocation.active
             ELSE [invocation.active EXCEPT ![k] = s]
    BY <1>3, <2>1 DEF Run, Invocations
  <2>8. \A j \in Keys : invocation.active[j] # s
    BY <2>1, Basics DEF ActiveInv, Working
  <2>9. stage \in Working /\ connection.generation \in Nat
    BY DEF Working, TypeOK, Connections
  <2>10. invocation.active \in [Keys -> Slots \cup {None}]
    BY DEF TypeOK, Invocations
  <2>11. ActiveInv'
    <3> SUFFICES ASSUME NEW j \in Keys, invocation'.active[j] # None
                 PROVE  /\ Works(invocation.active[j])'
                        /\ Current(invocation.active[j])'
                        /\ KeyOf(invocation.active[j])' = j
                        /\ invocation'.completed[j] = NoOne
                        /\ j \notin invocation'.pending
      BY DEF ActiveInv
    <3>1. CASE j = k /\ ~waits
      BY <1>1, <1>3, <2>3, <2>4, <2>6, <2>7, <2>9, <2>10, <3>1
    <3>2. CASE j # k \/ waits
      <4>1. invocation'.active[j] = invocation.active[j]
        BY <2>7, <2>10, <3>2
      <4>2. invocation.active[j] \in Slots /\ invocation.active[j] # s
        BY <2>8, <2>10, <4>1
      <4> QED
        BY <2>3, <2>5, <2>7, <4>1, <4>2 DEF ActiveInv
    <3> QED
      BY <3>1, <3>2
  <2>12. HandlerInv'
    <3>1. ASSUME NEW w \in Slots, w # s, Works(w) /\ Current(w)
          PROVE  invocation'.active[KeyOf(w)] = w
      <4>1. KeyOf(w) \in Keys
        BY <3>1, Basics DEF TypeOK, HandlersTyped, Working
      <4>2. invocation.active[KeyOf(w)] = w
        BY <3>1 DEF HandlerInv
      <4>3. w # None
        BY Basics
      <4> QED
        BY <2>7, <2>10, <4>1, <4>2, <4>3
    <3>2. ASSUME NEW w \in Slots, w # s, Waits(w)
          PROVE  invocation'.active[KeyOf(w)] = handler[w].on
      <4>1. KeyOf(w) \in Keys
        BY <3>2, Basics DEF TypeOK, HandlersTyped
      <4>2. invocation.active[KeyOf(w)] = handler[w].on /\ handler[w].on \in Slots
        BY <3>2 DEF HandlerInv
      <4>3. handler[w].on # None
        BY <4>2, Basics
      <4> QED
        BY <2>7, <2>10, <4>1, <4>2, <4>3
    <3>3. ASSUME NEW w \in Slots, w # s
          PROVE  /\ handler'[w].generation <= connection'.generation
                 /\ (Works(w) /\ Current(w))' => invocation'.active[KeyOf(w)'] = w
                 /\ Waits(w)' => /\ handler'[w].on \in Slots /\ Current(w)'
                                 /\ invocation'.active[KeyOf(w)'] = handler'[w].on
                 /\ /\ handler'[w].stage = "resuming" /\ Current(w)'
                    /\ handler'[w].outcome # NoOne
                    => invocation'.completed[KeyOf(w)'] = handler'[w].outcome
      BY <2>3, <2>5, <2>7, <3>1, <3>2, <3>3 DEF HandlerInv
    <3>4. /\ handler'[s].generation <= connection'.generation
          /\ (Works(s) /\ Current(s))' =>
               invocation'.active[KeyOf(s)'] = s
          /\ Waits(s)' => /\ handler'[s].on \in Slots /\ Current(s)'
                             /\ invocation'.active[KeyOf(s)'] = handler'[s].on
          /\ handler'[s].stage # "resuming"
      <4>1. waits => inv.active[k] \in Slots
        BY <1>1, <2>10
      <4>2. "waiting" \notin Working /\ stage # "waiting" /\ stage # "resuming"
        BY DEF Working
      <4> QED
        BY <1>1, <2>3, <2>4, <2>6, <2>7, <2>9, <2>10, <4>1, <4>2
    <3> QED
      BY <3>3, <3>4 DEF HandlerInv
  <2>13. PendingInv'
    BY <2>7 DEF PendingInv
  <2> QED
    BY <2>11, <2>12, <2>13
<1> QED
  BY <1>2, <1>3 DEF Run

(* A handler goes on to its next step.                                      *)
LEMMA InvocationGoesOn ==
  ASSUME TypeOK, InvocationInv, UNCHANGED connection, NEW h \in Slots, Works(h),
         NEW stage \in Working, GoesOn(h, stage)
  PROVE  InvocationInv'
<1> USE DEF InvocationInv, Works, Waits, Current
<1>1. handler' = [handler EXCEPT ![h].stage = stage] /\ invocation' = invocation
  BY DEF GoesOn
<1>2. \A w \in Slots :
        /\ handler'[w].generation = handler[w].generation
        /\ handler'[w].on = handler[w].on
        /\ handler'[w].outcome = handler[w].outcome
        /\ KeyOf(w)' = KeyOf(w)
        /\ w # h => handler'[w].stage = handler[w].stage
  BY <1>1 DEF TypeOK, HandlersTyped, Handlers, KeyOf
<1>3. handler'[h].stage = stage
  BY <1>1 DEF TypeOK, HandlersTyped, Handlers
<1>4. stage # "waiting" /\ stage # "resuming"
  BY DEF Working
<1>5. \A j \in Keys : invocation.active[j] \in Slots \cup {None}
  BY DEF TypeOK, Invocations
<1> QED
  BY <1>1, <1>2, <1>3, <1>4, <1>5 DEF ActiveInv, HandlerInv, PendingInv

(* A handler ends: its entry goes, with or without an answer that is        *)
(* recorded or a decision that is waited for, and it wakes its waiters.     *)
LEMMA InvocationFinish ==
  ASSUME TypeOK, InvocationInv, UNCHANGED connection, NEW h \in Slots, Works(h),
         NEW inv \in Invocations, Finish(h, inv),
         inv.active = invocation.active,
         \/ /\ inv.completed = invocation.completed
            /\ inv.pending = invocation.pending
         \/ /\ Current(h)
            /\ inv.pending = invocation.pending
            /\ \E answer \in Answers :
                 inv.completed = [invocation.completed EXCEPT ![KeyOf(h)] = answer]
         \/ /\ Current(h)
            /\ inv.completed = invocation.completed
            /\ inv.pending = invocation.pending \cup {KeyOf(h)}
  PROVE  InvocationInv'
<1> DEFINE k       == KeyOf(h)
           outcome == inv.completed[k]
           Woken(w) == Waits(w) /\ handler[w].on = h
<1> USE DEF InvocationInv, Works, Waits, Current
<1>1. k \in Keys
  BY Basics DEF TypeOK, HandlersTyped, Working
<1>2. /\ invocation.active \in [Keys -> Slots \cup {None}]
      /\ invocation.completed \in [Keys -> Answers \cup {NoOne}]
  BY DEF TypeOK, Invocations
<1>3. /\ outcome \in Answers \cup {NoOne}
      /\ \A j \in Keys : j # k => inv.completed[j] = invocation.completed[j]
  BY <1>1, <1>2 DEF Invocations
<1>4. /\ handler' = [Resolve(handler, h, outcome) EXCEPT ![h] = Idle]
      /\ invocation'.completed = inv.completed
      /\ invocation'.pending = inv.pending
      /\ invocation'.active = [invocation.active EXCEPT
                                 ![k] = IF @ = h THEN None ELSE @]
  BY <1>1, <1>2 DEF Finish, Invocations
<1>5. Resolve(handler, h, outcome) \in [Slots -> Handlers]
  BY <1>3, ResolveType DEF TypeOK
<1>6. handler'[h] = Idle
  BY <1>4, <1>5
<1>7. \A w \in Slots : w # h /\ ~Woken(w) => handler'[w] = handler[w]
  BY <1>4, <1>5 DEF Resolve
<1>8. ASSUME NEW w \in Slots, w # h, Woken(w)
      PROVE  /\ handler'[w].stage = "resuming"
             /\ handler'[w].outcome = outcome
             /\ handler'[w].generation = handler[w].generation
             /\ KeyOf(w)' = KeyOf(w)
  <2>1. handler'[w] = [handler[w] EXCEPT !.stage = "resuming", !.outcome = outcome]
    BY <1>4, <1>5, <1>8 DEF Resolve
  <2>2. handler[w] \in Handlers
    BY DEF TypeOK, HandlersTyped
  <2> QED
    BY <2>1, <2>2 DEF Handlers, KeyOf
<1>9. ASSUME NEW w \in Slots, w # h, Woken(w)
      PROVE  KeyOf(w) = k /\ invocation.completed[k] = NoOne
  <2>1. KeyOf(w) \in Keys
    BY <1>9, Basics DEF TypeOK, HandlersTyped
  <2>2. invocation.active[KeyOf(w)] = h /\ h # None
    BY <1>9, Basics DEF HandlerInv
  <2> QED
    BY <2>1, <2>2 DEF ActiveInv
<1>10. /\ \A j \in Keys : j # k => invocation'.active[j] = invocation.active[j]
       /\ \A j \in Keys : invocation'.active[j] # h
  <2>1. \A j \in Keys : invocation.active[j] = h => j = k
    BY Basics DEF ActiveInv
  <2> QED
    BY <1>1, <1>2, <1>4, <2>1, Basics
<1>11. \A j \in Keys : invocation'.active[j] # None =>
         invocation'.active[j] = invocation.active[j]
  BY <1>1, <1>2, <1>4
<1>12. ASSUME \/ inv.completed # invocation.completed
              \/ inv.pending # invocation.pending
       PROVE  /\ invocation.active[k] = h /\ invocation'.active[k] = None
              /\ invocation.completed[k] = NoOne /\ k \notin invocation.pending
  <2>1. invocation.active[k] = h /\ h # None
    BY <1>12, Basics DEF HandlerInv
  <2> QED
    BY <1>1, <1>2, <1>4, <2>1 DEF ActiveInv
<1>13. ActiveInv'
  <2> SUFFICES ASSUME NEW j \in Keys, invocation'.active[j] # None
               PROVE  /\ Works(invocation.active[j])'
                      /\ Current(invocation.active[j])'
                      /\ KeyOf(invocation.active[j])' = j
                      /\ invocation'.completed[j] = NoOne
                      /\ j \notin invocation'.pending
    BY <1>11 DEF ActiveInv
  <2>1. PICK w \in Slots : w = invocation.active[j] /\ w # h
    BY <1>2, <1>10, <1>11
  <2>2. Works(w) /\ Current(w) /\ KeyOf(w) = j
        /\ invocation.completed[j] = NoOne /\ j \notin invocation.pending
    BY <1>11, <2>1 DEF ActiveInv
  <2>3. handler'[w] = handler[w]
    BY <1>7, <2>1, <2>2 DEF Working
  <2>4. invocation'.completed[j] = NoOne /\ j \notin invocation'.pending
    BY <1>3, <1>4, <1>12, <2>2
  <2> QED
    BY <1>4, <1>11, <2>1, <2>2, <2>3, <2>4 DEF KeyOf
<1>14. HandlerInv'
  <2> SUFFICES ASSUME NEW w \in Slots
               PROVE  /\ handler'[w].generation <= connection'.generation
                      /\ (Works(w) /\ Current(w))' =>
                           invocation'.active[KeyOf(w)'] = w
                      /\ Waits(w)' =>
                           /\ handler'[w].on \in Slots /\ Current(w)'
                           /\ invocation'.active[KeyOf(w)'] = handler'[w].on
                      /\ /\ handler'[w].stage = "resuming" /\ Current(w)'
                         /\ handler'[w].outcome # NoOne
                         => invocation'.completed[KeyOf(w)'] = handler'[w].outcome
    BY DEF HandlerInv
  <2>1. CASE w = h
    BY <1>6, <2>1 DEF Idle, Working, TypeOK, Connections
  <2>2. CASE w # h /\ Woken(w)
    BY <1>4, <1>8, <1>9, <2>2 DEF HandlerInv, Working
  <2>3. CASE w # h /\ ~Woken(w)
    <3>1. handler'[w] = handler[w] /\ KeyOf(w)' = KeyOf(w)
      BY <1>7, <2>3 DEF KeyOf
    <3>2. handler[w].stage # "idle" => KeyOf(w) \in Keys
      BY Basics DEF TypeOK, HandlersTyped
    <3>3. CASE Works(w)
      <4>1. Current(w) => invocation.active[KeyOf(w)] = w /\ KeyOf(w) \in Keys
        BY <3>2, <3>3 DEF HandlerInv, Working
      <4>2. Current(w) => KeyOf(w) # k \/ invocation'.active[k] = w
        BY <1>1, <1>2, <1>4, <2>3, <4>1
      <4> QED
        BY <1>10, <2>3, <3>1, <3>3, <4>1, <4>2 DEF HandlerInv, Working
    <3>4. CASE Waits(w)
      <4>1. /\ handler[w].on \in Slots /\ handler[w].on # h /\ Current(w)
            /\ invocation.active[KeyOf(w)] = handler[w].on /\ KeyOf(w) \in Keys
        BY <2>3, <3>2, <3>4 DEF HandlerInv
      <4>2. invocation'.active[KeyOf(w)] = handler[w].on
        BY <1>1, <1>2, <1>4, <1>10, <4>1
      <4> QED
        BY <3>1, <3>4, <4>1, <4>2 DEF HandlerInv, Working
    <3>5. CASE handler[w].stage = "resuming"
      <4>1. Current(w) /\ handler[w].outcome # NoOne =>
              invocation.completed[KeyOf(w)] = handler[w].outcome
        BY <3>5 DEF HandlerInv
      <4>2. inv.completed # invocation.completed /\ Current(w)
            /\ handler[w].outcome # NoOne => KeyOf(w) # k
        BY <1>12, <4>1
      <4> QED
        BY <1>3, <1>4, <3>1, <3>2, <3>5, <4>1, <4>2 DEF HandlerInv, Working
    <3>6. CASE ~Works(w) /\ ~Waits(w) /\ handler[w].stage # "resuming"
      BY <3>1, <3>6 DEF HandlerInv
    <3> QED
      BY <3>3, <3>4, <3>5, <3>6
  <2> QED
    BY <2>1, <2>2, <2>3
<1>15. PendingInv'
  <2>1. ASSUME NEW j \in invocation.pending
        PROVE  inv.completed[j] = NoOne
    <3>1. j \in Keys /\ invocation.completed[j] = NoOne
      BY DEF TypeOK, Invocations, PendingInv
    <3> QED
      BY <1>3, <1>12, <3>1
  <2>2. inv.pending # invocation.pending =>
          inv.pending = invocation.pending \cup {k} /\ inv.completed[k] = NoOne
    BY <1>12
  <2> QED
    BY <1>4, <2>1, <2>2 DEF PendingInv
<1> QED
  BY <1>13, <1>14, <1>15

(* A handler that asks for an approval ends with a call that is pending.    *)
LEMMA InvocationRequestApproval ==
  ASSUME TypeOK, InvocationInv, NEW h \in Slots, Works(h), Current(h),
         RequestApproval(h)
  PROVE  InvocationInv'
<1> DEFINE k   == KeyOf(h)
           inv == [invocation EXCEPT !.pending = @ \cup {k}]
<1>1. k \in Keys
  BY Basics DEF TypeOK, HandlersTyped, Works, Working
<1>2. invocation \in Invocations
  BY DEF TypeOK
<1>3. /\ inv \in Invocations
      /\ inv.active = invocation.active /\ inv.completed = invocation.completed
      /\ inv.pending = invocation.pending \cup {k}
  BY <1>1, <1>2 DEF Invocations
<1>4. invocation.active[k] = h /\ h # None
  BY Basics DEF InvocationInv, HandlerInv
<1>5. invocation.completed[k] = NoOne
  BY <1>1, <1>4 DEF InvocationInv, ActiveInv
<1>6. invocation' = [inv EXCEPT !.active[k] = IF @ = h THEN None ELSE @]
  BY <1>1, <1>2, <1>4 DEF RequestApproval, Invocations
<1>7. Finish(h, inv)
  BY <1>3, <1>4, <1>5, <1>6 DEF RequestApproval, Finish
<1> QED
  BY <1>3, <1>7, InvocationFinish DEF RequestApproval

(* A handler that was woken is given what is recorded already.              *)
LEMMA ResumeKeepsRecord ==
  ASSUME TypeOK, InvocationInv, NEW h \in Slots, Resume(h)
  PROVE  invocation' = invocation
<1> DEFINE k == KeyOf(h)
<1>1. k \in Keys
  BY Basics DEF Resume, TypeOK, HandlersTyped
<1>2. CASE IsCurrent(h) /\ handler[h].outcome # NoOne
  <2>1. invocation.completed[k] = handler[h].outcome
    BY <1>2 DEF Resume, InvocationInv, HandlerInv, IsCurrent, Current
  <2>2. invocation' = [invocation EXCEPT !.completed[k] = handler[h].outcome]
    BY <1>2 DEF Resume, Committed
  <2> QED
    BY <1>1, <2>1, <2>2 DEF TypeOK, Invocations
<1> QED
  BY <1>2 DEF Resume

LEMMA InvocationResume ==
  ASSUME TypeOK, InvocationInv, NEW h \in Slots, Resume(h)
  PROVE  InvocationInv'
<1> USE DEF InvocationInv, Works, Waits, Current
<1>1. invocation' = invocation
  BY ResumeKeepsRecord
<1>2. /\ \A w \in Slots : w # h => handler'[w] = handler[w]
      /\ handler'[h] = Idle
  BY DEF Resume, TypeOK, HandlersTyped
<1>3. handler[h].stage = "resuming" /\ connection' = connection
  BY DEF Resume
<1>4. \A j \in Keys : invocation.active[j] # None =>
        invocation.active[j] \in Slots /\ invocation.active[j] # h
  BY <1>3 DEF ActiveInv, TypeOK, Invocations, Working
<1>5. connection.generation \in Nat
  BY DEF TypeOK, Connections
<1>6. \A w \in Slots : w # h => KeyOf(w)' = KeyOf(w)
  BY <1>2 DEF KeyOf
<1>7. ActiveInv'
  BY <1>1, <1>2, <1>3, <1>4, <1>6 DEF ActiveInv
<1>8. HandlerInv'
  BY <1>1, <1>2, <1>3, <1>5, <1>6 DEF HandlerInv, Idle, Working
<1>9. PendingInv'
  BY <1>1 DEF PendingInv
<1> QED
  BY <1>7, <1>8, <1>9

(* Every step of a handler keeps the bookkeeping.                           *)
LEMMA InvocationAnswers ==
  ASSUME TypeOK, InvocationInv, NEW h \in Slots, Works(h), Current(h),
         NEW what \in {"notFound", "rejection", "refusal", "result", "transfer"},
         AnswersCall(h, what)
  PROVE  InvocationInv'
<1> DEFINE answer == Answer(what, h)
           inv    == Committed(KeyOf(h), answer)
<1>1. KeyOf(h) \in Keys /\ handler[h].call \in Calls
  BY Basics DEF TypeOK, HandlersTyped, Works, Working, KeyOf
<1>2. answer \in Answers
  BY <1>1 DEF Answer, Answers, TypeOK, HandlersTyped, Handlers, Histories
<1>3. /\ inv \in Invocations
      /\ inv.active = invocation.active /\ inv.pending = invocation.pending
      /\ inv.completed = [invocation.completed EXCEPT ![KeyOf(h)] = answer]
  BY <1>1, <1>2 DEF Committed, TypeOK, Invocations
<1> QED
  BY <1>2, <1>3, InvocationFinish DEF AnswersCall

LEMMA InvocationStep ==
  ASSUME TypeOK, InvocationInv, NEW h \in Slots, Step(h)
  PROVE  InvocationInv'
<1>1. invocation \in Invocations
  BY DEF TypeOK
<1>2. CASE Abandon(h)
  BY <1>1, <1>2, InvocationFinish DEF Abandon, Ends, Works
<1>3. CASE Fail(h)
  BY <1>1, <1>3, InvocationFinish DEF Fail, Works
<1>4. ASSUME NEW stage, At(h, stage) PROVE Current(h)
  BY <1>4 DEF At, IsCurrent, Current
<1>5. ASSUME NEW stage \in Working, At(h, stage) PROVE Works(h)
  BY <1>5 DEF At, Works
<1>6. CASE Enabled(h)
  <2>1. At(h, "enabling") /\ "enabling" \in Working
        /\ "asking" \in Working /\ "handing" \in Working
    BY <1>6 DEF Enabled, Working
  <2> QED
    BY <1>4, <1>5, <1>6, <2>1, InvocationAnswers, InvocationGoesOn
       DEF Enabled, GoesOn
<1>7. CASE Asked(h)
  <2>1. At(h, "asking") /\ "asking" \in Working /\ "guarding" \in Working
        /\ "rejecting" \in Working /\ "screening" \in Working
    BY <1>7 DEF Asked, Working
  <2> QED
    BY <1>4, <1>5, <1>7, <2>1, InvocationGoesOn, InvocationRequestApproval
       DEF Asked, GoesOn
<1>8. CASE RejectionFormatted(h)
  <2>1. At(h, "rejecting") /\ "rejecting" \in Working
    BY <1>8 DEF RejectionFormatted, Working
  <2> QED
    BY <1>4, <1>5, <1>8, <2>1, InvocationAnswers DEF RejectionFormatted
<1>9. CASE Screened(h)
  <2>1. At(h, "screening") /\ "screening" \in Working
    BY <1>9 DEF Screened, Working
  <2> QED
    BY <1>4, <1>5, <1>9, <2>1, InvocationAnswers, InvocationRequestApproval
       DEF Screened
<1>10. CASE InputGuarded(h)
  <2>1. At(h, "guarding") /\ "guarding" \in Working /\ "acting" \in Working
    BY <1>10 DEF InputGuarded, Working
  <2> QED
    BY <1>4, <1>5, <1>10, <2>1, InvocationAnswers, InvocationGoesOn
       DEF InputGuarded, GoesOn
<1>11. CASE ToolReturns(h)
  <2>1. At(h, "acting") /\ "acting" \in Working
    BY <1>11 DEF ToolReturns, Working
  <2> QED
    BY <1>4, <1>5, <1>11, <2>1, InvocationAnswers DEF ToolReturns
<1>12. CASE HandoffEnds(h)
  <2>1. At(h, "handing") /\ "handing" \in Working
    BY <1>12 DEF HandoffEnds, Working
  <2> QED
    BY <1>4, <1>5, <1>12, <2>1, InvocationAnswers DEF HandoffEnds
<1>13. CASE Resume(h)
  BY <1>13, InvocationResume
<1> QED
  BY <1>2, <1>3, <1>6, <1>7, <1>8, <1>9, <1>10, <1>11, <1>12, <1>13 DEF Step

LEMMA NewConnection ==
  ASSUME TypeOK, Connect \/ Close
  PROVE  connection'.generation = connection.generation + 1
<1>1. CASE Connect
  BY <1>1 DEF Connect, TypeOK, Connections
<1>2. CASE Close
  BY <1>2 DEF Close, TypeOK, Connections
<1> QED
  BY <1>1, <1>2

LEMMA InvocationNext ==
  ASSUME TypeOK, InvocationInv, [Next]_vars
  PROVE  InvocationInv'
<1>1. CASE Connect \/ Close
  <2>1. connection'.generation = connection.generation + 1
    BY <1>1, NewConnection
  <2> QED
    BY <1>1, <2>1, InvocationReset DEF Connect, Close
<1>2. ASSUME NEW c \in FunctionCalls, NEW r \in Responses, FunctionCall(c, r)
      PROVE  InvocationInv'
  <2> DEFINE k   == <<Captured(r), c>>
             srv == [server EXCEPT !.callOf[c] = r, !.events[c] = @ + 1]
  <2>1. k \in Agents \X FunctionCalls
    BY DEF Captured, TypeOK
  <2>2. CASE k \in invocation.pending /\ UNCHANGED <<invocation, handler>>
    BY <1>2, <2>2, InvocationSame DEF FunctionCall
  <2>3. CASE k \notin invocation.pending /\ Run(k, "enabling", invocation, srv)
    <3>1. UNCHANGED connection /\ invocation \in Invocations
      BY <1>2 DEF FunctionCall, TypeOK
    <3> QED
      BY <2>1, <2>3, <3>1, InvocationRun
  <2> QED
    BY <1>2, <2>2, <2>3 DEF FunctionCall
<1>3. ASSUME NEW item \in issued, NEW verdict \in {"yes", "no"},
             DecideCall(item, verdict)
      PROVE  InvocationInv'
  <2> DEFINE k   == item.key
             inv == [invocation EXCEPT !.pending = @ \ {k}]
  <2>1. k \in Keys /\ k[2] \in FunctionCalls
    BY <1>3, Basics DEF DecideCall, TypeOK
  <2>2. k \in Agents \X FunctionCalls
    BY <2>1 DEF Keys
  <2>3. /\ inv \in Invocations /\ inv.completed = invocation.completed
        /\ inv.active = invocation.active
        /\ inv.pending = invocation.pending \ {k}
    BY DEF TypeOK, Invocations
  <2>4. Run(k, "asking", inv, server) /\ UNCHANGED connection
    BY <1>3 DEF DecideCall
  <2> QED
    BY <2>2, <2>3, <2>4, InvocationRun
<1>4. CASE UNCHANGED <<handler, invocation>>
           /\ connection'.generation = connection.generation
  BY <1>4, InvocationSame
<1>5. CASE SocketStep
  BY <1>4, <1>5, SocketStepKeeps DEF SessionKept
<1>6. ASSUME NEW r \in Responses, TurnStarted(r) \/ TurnDone(r)
      PROVE  InvocationInv'
  BY <1>4, <1>6 DEF TurnStarted, TurnDone
<1>7. ASSUME NEW r \in Responses, NEW source, Delta(r, source)
      PROVE  InvocationInv'
  BY <1>4, <1>7 DEF Delta
<1>8. ASSUME NEW check, GuardrailPasses(check) \/ GuardrailTrips(check)
      PROVE  InvocationInv'
  BY <1>4, <1>8 DEF GuardrailPasses, GuardrailTrips
<1>9. ASSUME NEW c, McpApprovalRequest(c) PROVE InvocationInv'
  BY <1>4, <1>9 DEF McpApprovalRequest
<1>10. ASSUME NEW item, NEW verdict, DecideMcp(item, verdict)
       PROVE  InvocationInv'
  BY <1>4, <1>10 DEF DecideMcp
<1>11. ASSUME NEW h \in Slots, Step(h) PROVE InvocationInv'
  BY <1>11, InvocationStep
<1>12. CASE UNCHANGED vars
  BY <1>4, <1>12 DEF vars
<1> QED
  BY <1>1, <1>2, <1>3, <1>5, <1>6, <1>7, <1>8, <1>9, <1>10, <1>11, <1>12
     DEF Next, Event, SocketStep

LEMMA InvocationInit == Init => InvocationInv
BY Basics
   DEF Init, InvocationInv, ActiveInv, HandlerInv, PendingInv, Works, Waits,
       Current, NoInvocation, Idle, Working

(* The bookkeeping of calls is right whatever the steps are.                *)
THEOREM InvocationCorrect == Spec => []InvocationInv
<1>1. InvocationInv /\ TypeOK /\ [Next]_vars => InvocationInv'
  BY InvocationNext
<1> QED
  BY <1>1, InvocationInit, TypeCorrect, PTL DEF Spec

(* A handler that waits for another one waits for one that goes on          *)
(* (NobodyWaitsInVain): its own entry in activeToolCalls names a handler of *)
(* the connection that is at work.                                          *)
THEOREM WaitersWake == Spec => []NobodyWaitsInVain
<1>1. TypeOK /\ InvocationInv => NobodyWaitsInVain
  <2> SUFFICES ASSUME TypeOK, InvocationInv, NEW h \in Slots, Waits(h)
               PROVE  handler[handler[h].on].stage \in Working
    BY DEF NobodyWaitsInVain
  <2>1. KeyOf(h) \in Keys
    BY Basics DEF TypeOK, HandlersTyped, Waits
  <2>2. /\ invocation.active[KeyOf(h)] = handler[h].on
        /\ handler[h].on \in Slots
    BY DEF InvocationInv, HandlerInv
  <2>3. handler[h].on # None
    BY <2>2, Basics
  <2> QED
    BY <2>1, <2>2, <2>3 DEF InvocationInv, ActiveInv, Works
<1> QED
  BY <1>1, TypeCorrect, InvocationCorrect, PTL

------------------------------------------------------------------------------
(* What a step of a handler leaves alone.                                   *)
LEMMA StepKeeps ==
  ASSUME TypeOK, NEW h \in Slots, Step(h)
  PROVE  /\ UNCHANGED <<connection, turn, approval, checks, tripped>>
         /\ server'.open = server.open
         /\ server'.generation = server.generation
         /\ server'.response = server.response
         /\ server'.started = server.started
         /\ server'.order = server.order
         /\ server'.made = server.made
         /\ server'.callOf = server.callOf
         /\ server'.verdicts = server.verdicts
         /\ history'.misled = history.misled
         /\ history'.interrupts = history.interrupts
         /\ history'.misfired = history.misfired
         /\ history'.before = history.before
<1> DEFINE ServerKept ==
             /\ server'.open = server.open
             /\ server'.generation = server.generation
             /\ server'.response = server.response
             /\ server'.started = server.started
             /\ server'.order = server.order
             /\ server'.made = server.made
             /\ server'.callOf = server.callOf
             /\ server'.verdicts = server.verdicts
           HistoryKept ==
             /\ history'.misled = history.misled
             /\ history'.interrupts = history.interrupts
             /\ history'.misfired = history.misfired
             /\ history'.before = history.before
           RestKept == UNCHANGED <<connection, turn, approval, checks, tripped>>
<1>1. server \in Servers /\ history \in Histories
  BY DEF TypeOK
<1>2. ASSUME NEW c, NEW answer, Sent(c, answer) PROVE ServerKept
  BY <1>1, <1>2 DEF Sent, Servers
<1>3. ASSUME NEW what, AnswersCall(h, what) PROVE ServerKept /\ RestKept
  BY <1>2, <1>3 DEF AnswersCall
<1>4. ASSUME Starts(h) PROVE HistoryKept
  BY <1>1, <1>4 DEF Starts, Histories
<1>5. CASE Abandon(h)
  BY <1>5 DEF Abandon, Ends
<1>6. CASE Fail(h)
  BY <1>1, <1>6 DEF Fail, Histories
<1>7. CASE Enabled(h)
  BY <1>3, <1>4, <1>7 DEF Enabled, GoesOn
<1>8. CASE Asked(h)
  BY <1>8 DEF Asked, GoesOn, RequestApproval
<1>9. CASE RejectionFormatted(h) \/ ToolReturns(h) \/ HandoffEnds(h)
  BY <1>3, <1>9 DEF RejectionFormatted, ToolReturns, HandoffEnds
<1>10. CASE Screened(h)
  BY <1>3, <1>10 DEF Screened, RequestApproval
<1>11. CASE InputGuarded(h)
  BY <1>3, <1>4, <1>11 DEF InputGuarded, GoesOn
<1>12. CASE Resume(h)
  BY <1>2, <1>12 DEF Resume
<1> QED
  BY <1>5, <1>6, <1>7, <1>8, <1>9, <1>10, <1>11, <1>12 DEF Step

(* What a delivery or a decision leaves alone when its call is run.         *)
LEMMA RunKeeps ==
  ASSUME NEW k, NEW stage, NEW inv, NEW srv \in Servers, Run(k, stage, inv, srv)
  PROVE  /\ server'.generation = srv.generation
         /\ server'.response = srv.response
         /\ server'.started = srv.started
         /\ server'.order = srv.order
         /\ server'.made = srv.made
         /\ server'.callOf = srv.callOf
         /\ server'.verdicts = srv.verdicts
BY DEF Run, Servers

------------------------------------------------------------------------------
(* Sockets and attempts.                                                    *)
LEMMA SocketSame ==
  ASSUME SocketInv, UNCHANGED connection, history'.before = history.before,
         server'.generation = server.generation, server'.open = server.open,
         server'.started = server.started, server'.order = server.order,
         \A r \in Responses : Live(r)' => Live(r)
  PROVE  SocketInv'
BY DEF SocketInv, Fresh, Connected

(* Events of the server, answers and guardrails.                            *)
LEMMA EventKeeps ==
  ASSUME TypeOK,
         \/ \E r \in Responses, source \in {"text", "audio"} : Delta(r, source)
         \/ \E check \in checks : GuardrailPasses(check) \/ GuardrailTrips(check)
         \/ \E c \in FunctionCalls, r \in Responses : FunctionCall(c, r)
         \/ \E c \in McpRequests : McpApprovalRequest(c)
         \/ \E item \in issued, verdict \in {"yes", "no"} :
              DecideCall(item, verdict) \/ DecideMcp(item, verdict)
  PROVE  /\ UNCHANGED connection
         /\ server'.open = server.open
         /\ server'.generation = server.generation
         /\ server'.started = server.started
         /\ server'.order = server.order
         /\ server'.response = server.response
         /\ history'.before = history.before
<1> DEFINE Kept(srv) ==
      /\ srv.open = server.open
      /\ srv.generation = server.generation
      /\ srv.started = server.started
      /\ srv.order = server.order
      /\ srv.response = server.response
<1>1. server \in Servers /\ history \in Histories
  BY DEF TypeOK
<1>2. ASSUME NEW srv \in Servers, Kept(srv), NEW k, NEW stage, NEW inv,
             Run(k, stage, inv, srv)
      PROVE  Kept(server')
  BY <1>2 DEF Run, Servers
<1>3. ASSUME NEW r \in Responses, NEW source, Delta(r, source)
      PROVE  /\ UNCHANGED connection /\ Kept(server')
             /\ history'.before = history.before
  BY <1>3 DEF Delta
<1>4. ASSUME NEW check \in checks, GuardrailPasses(check) \/ GuardrailTrips(check)
      PROVE  /\ UNCHANGED connection /\ Kept(server')
             /\ history'.before = history.before
  BY <1>1, <1>4 DEF GuardrailPasses, GuardrailTrips, Histories
<1>5. ASSUME NEW c \in FunctionCalls, NEW r \in Responses, FunctionCall(c, r)
      PROVE  /\ UNCHANGED connection /\ Kept(server')
             /\ history'.before = history.before
  <2> DEFINE srv == [server EXCEPT !.callOf[c] = r, !.events[c] = @ + 1]
  <2>1. srv \in Servers /\ Kept(srv)
    <3>1. c \in Calls /\ server.events[c] + 1 \in Nat
      BY <1>1, Basics DEF Servers
    <3> QED
      BY <1>1, <3>1 DEF Servers
  <2>2. PICK k : k = <<Captured(r), c>>
    OBVIOUS
  <2>3. \/ server' = srv
        \/ Run(k, "enabling", invocation, srv)
    BY <1>5, <2>2 DEF FunctionCall
  <2> HIDE DEF srv
  <2>4. Kept(server')
    BY <1>2, <2>1, <2>3
  <2> QED
    BY <1>1, <1>5, <2>4 DEF FunctionCall, Histories
<1>6. ASSUME NEW c, McpApprovalRequest(c)
      PROVE  /\ UNCHANGED connection /\ Kept(server')
             /\ history'.before = history.before
  BY <1>1, <1>6 DEF McpApprovalRequest, Servers
<1>7. ASSUME NEW item, NEW verdict, DecideCall(item, verdict)
      PROVE  /\ UNCHANGED connection /\ Kept(server')
             /\ history'.before = history.before
  <2>1. PICK k, inv : Run(k, "asking", inv, server)
    BY <1>7 DEF DecideCall
  <2>2. Kept(server')
    BY <1>1, <1>2, <2>1
  <2> QED
    BY <1>7, <2>2 DEF DecideCall
<1>8. ASSUME NEW item, NEW verdict, DecideMcp(item, verdict)
      PROVE  /\ UNCHANGED connection /\ Kept(server')
             /\ history'.before = history.before
  BY <1>1, <1>8 DEF DecideMcp, Servers
<1> QED
  BY <1>3, <1>4, <1>5, <1>6, <1>7, <1>8

LEMMA SocketNext ==
  ASSUME TypeOK, SocketInv, [Next]_vars
  PROVE  SocketInv'
<1>1. /\ server \in Servers /\ history \in Histories
      /\ connection \in Connections /\ connection.generation \in Nat
      /\ connection.attempt \in Nat /\ server.generation \in Nat
  BY DEF TypeOK, Connections, Servers
<1>2. server.started \in Nat /\ history.before \in Nat
      /\ \A r \in Responses : server.order[r] \in Nat
  BY <1>1 DEF Servers, Histories
<1>3. CASE Connect
  <2>1. /\ connection'.generation = connection.generation + 1
        /\ connection'.connected = 0
        /\ connection'.attempt = connection.attempt
        /\ connection'.opening =
             connection.opening \cup {connection.generation + 1}
        /\ server' = server
    BY <1>1, <1>3 DEF Connect, Connections
  <2>2. history'.before = server.started
    BY <1>1, <1>3 DEF Connect, ResetSession, Histories
  <2>3. ~Connected' /\ ~Fresh'
    BY <1>1, <2>1 DEF Connected, Fresh, SocketInv
  <2>4. \A g \in connection'.opening : g <= connection'.generation
    BY <1>1, <2>1 DEF SocketInv, Connections
  <2> QED
    BY <1>1, <1>2, <2>1, <2>2, <2>3, <2>4 DEF SocketInv
<1>4. CASE Close
  <2>1. /\ connection'.generation = connection.generation + 1
        /\ connection'.connected = 0
        /\ connection'.attempt = 0
        /\ connection'.opening = connection.opening
    BY <1>1, <1>4 DEF Close, Connections
  <2>2. /\ server'.generation = server.generation
        /\ server'.started = server.started
        /\ server'.order = server.order
    BY <1>1, <1>4 DEF Close, Closed, Servers
  <2>3. history'.before = server.started
    BY <1>1, <1>4 DEF Close, ResetSession, Histories
  <2>4. ~Connected' /\ ~Fresh'
    BY <1>1, <2>1, <2>2 DEF Connected, Fresh, SocketInv
  <2>5. \A g \in connection'.opening : g <= connection'.generation
    BY <1>1, <2>1 DEF SocketInv, Connections
  <2> QED
    BY <1>1, <1>2, <2>1, <2>2, <2>3, <2>4, <2>5 DEF SocketInv
<1>5. ASSUME NEW g \in connection.opening, ConnectTransport(g) PROVE SocketInv'
  <2>1. server' = server /\ history' = history
    BY <1>5 DEF ConnectTransport
  <2>2. /\ connection'.generation = connection.generation
        /\ connection'.connected = connection.connected
        /\ connection'.opening = connection.opening \ {g}
    BY <1>1, <1>5 DEF ConnectTransport, Connections
  <2>3. \/ connection'.attempt = connection.attempt
        \/ /\ connection'.attempt = g /\ g = connection.generation
           /\ ~server.open
    BY <1>1, <1>5 DEF ConnectTransport, Connections
  <2>4. Connected' <=> Connected
    BY <2>2 DEF Connected
  <2> QED
    BY <1>1, <2>1, <2>2, <2>3, <2>4 DEF SocketInv, Fresh, Live
<1>6. CASE SocketOpens
  <2>1. /\ connection' = connection /\ connection.attempt # 0
        /\ server'.open = TRUE
        /\ server'.generation = connection.attempt
        /\ server'.started = server.started
        /\ \A r \in Responses : server'.order[r] = 0 /\ ~Live(r)'
    BY <1>6 DEF SocketOpens, NewServer, Past, Live
  <2>2. history'.before = history.before
    BY <1>1, <1>6 DEF SocketOpens, Histories
  <2>3. ~Connected /\ ~Connected'
    BY <2>1 DEF SocketInv, Connected
  <2> QED
    BY <1>1, <1>2, <2>1, <2>2, <2>3 DEF SocketInv
<1>7. ASSUME server' = server \/ server' = Closed
      PROVE  /\ server'.generation = server.generation
             /\ server'.started = server.started
             /\ server'.order = server.order
             /\ server'.open => server.open
             /\ \A r \in Responses : Live(r)' => Live(r)
  <2>1. CASE server' = server
    BY <2>1 DEF Live
  <2>2. CASE server' = Closed
    BY <1>1, <2>2 DEF Closed, Past, Live, Servers
  <2> QED
    BY <1>7, <2>1, <2>2
<1>8. CASE ConnectEnds
  <2>1. /\ connection'.generation = connection.generation
        /\ connection'.opening = connection.opening
        /\ connection'.attempt = 0
        /\ server' = server \/ server' = Closed
        /\ history' = history
    BY <1>1, <1>8 DEF ConnectEnds, Connections
  <2>2. Connected' => /\ Fresh /\ connection.generation \notin connection.opening
    <3>1. CASE connection'.connected = connection.connected
      BY <2>1, <3>1 DEF SocketInv, Connected
    <3>2. CASE /\ server.open /\ connection.attempt # 0
               /\ connection.attempt = connection.generation
      BY <3>2 DEF SocketInv, Fresh
    <3> QED
      BY <1>1, <1>8, <3>1, <3>2 DEF ConnectEnds, Connections
  <2> QED
    BY <1>1, <1>7, <2>1, <2>2 DEF SocketInv, Fresh
<1>9. CASE SocketCloses
  <2>1. /\ connection'.generation = connection.generation
        /\ connection'.connected = connection.connected
        /\ connection'.opening = connection.opening
        /\ connection'.attempt = 0
        /\ server' = Closed
        /\ history' = history
    BY <1>1, <1>9 DEF SocketCloses, Connections
  <2> QED
    BY <1>1, <1>7, <2>1 DEF SocketInv, Fresh, Connected
<1>10. ASSUME NEW r \in Responses, TurnStarted(r) PROVE SocketInv'
  <2>1. /\ connection' = connection /\ history' = history
        /\ server'.open = server.open
        /\ server'.generation = server.generation
        /\ server'.started = server.started + 1
        /\ server'.order = [server.order EXCEPT ![r] = server.started + 1]
        /\ server'.response = [server.response EXCEPT ![r] = "live"]
    BY <1>1, <1>10 DEF TurnStarted, Servers
  <2>2. \A p \in Responses : p # r =>
          /\ server'.order[p] = server.order[p]
          /\ Live(p)' => Live(p)
    BY <1>1, <2>1 DEF Live, Servers
  <2>3. server'.order[r] = server.started + 1
    BY <1>1, <2>1 DEF Servers
  <2>4. history'.before <= server'.started
    BY <1>2, <2>1 DEF SocketInv
  <2>5. ASSUME NEW p \in Responses
        PROVE  /\ server'.order[p] <= server'.started
               /\ Fresh' /\ Live(p)' => server'.order[p] > history'.before
    BY <1>2, <2>1, <2>2, <2>3 DEF SocketInv, Fresh
  <2> QED
    BY <1>1, <2>1, <2>4, <2>5 DEF SocketInv, Fresh, Connected
<1>11. ASSUME NEW r \in Responses, TurnDone(r) PROVE SocketInv'
  <2>1. /\ connection' = connection /\ history' = history
        /\ server'.open = server.open
        /\ server'.generation = server.generation
        /\ server'.started = server.started
        /\ server'.order = server.order
        /\ \A p \in Responses : Live(p)' => Live(p)
    BY <1>1, <1>11 DEF TurnDone, Servers, Live
  <2> QED
    BY <2>1, SocketSame
<1>12. ASSUME NEW h \in Slots, Step(h) PROVE SocketInv'
  BY <1>12, StepKeeps, SocketSame DEF Live
<1>13. CASE UNCHANGED vars
  BY <1>13, SocketSame DEF vars, Live
<1>14. ASSUME
         \/ \E r \in Responses, source \in {"text", "audio"} : Delta(r, source)
         \/ \E check \in checks : GuardrailPasses(check) \/ GuardrailTrips(check)
         \/ \E c \in FunctionCalls, r \in Responses : FunctionCall(c, r)
         \/ \E c \in McpRequests : McpApprovalRequest(c)
         \/ \E item \in issued, verdict \in {"yes", "no"} :
              DecideCall(item, verdict) \/ DecideMcp(item, verdict)
       PROVE SocketInv'
  BY <1>14, EventKeeps, SocketSame DEF Live
<1> QED
  BY <1>3, <1>4, <1>5, <1>6, <1>8, <1>9, <1>10, <1>11, <1>12, <1>13, <1>14
     DEF Next, Event

(* A session that is connected has the socket that was opened for its       *)
(* generation, and what speaks on that began after the session was reset.   *)
THEOREM SocketsAreOwn == Spec => []SocketInv
<1>1. Init => SocketInv
  BY DEF Init, SocketInv, Connected, NewServer, NoRuns, Live
<1>2. SocketInv /\ TypeOK /\ [Next]_vars => SocketInv'
  BY SocketNext
<1> QED
  BY <1>1, <1>2, TypeCorrect, PTL DEF Spec

------------------------------------------------------------------------------
(* An output guardrail interrupts the response it judged.                   *)
LEMMA InterruptSame ==
  ASSUME InterruptInv, UNCHANGED <<turn, checks, tripped>>,
         connection'.generation = connection.generation,
         server'.response = server.response, server'.order = server.order,
         server'.started = server.started,
         history'.interrupts = history.interrupts,
         history'.misfired = history.misfired,
         history'.before = history.before
  PROVE  InterruptInv'
BY DEF InterruptInv, Live

LEMMA InterruptNext ==
  ASSUME TypeOK, SocketInv, InterruptInv, [Next]_vars
  PROVE  InterruptInv'
<1>1. /\ server \in Servers /\ history \in Histories
      /\ turn \in [active : Responses \cup {NoOne}, generation : Nat,
                   snapshot : [Responses -> Agents \cup {NoOne}]]
      /\ connection.generation \in Nat
      /\ server.started \in Nat /\ history.before \in Nat
      /\ \A r \in Responses : server.order[r] \in Nat
      /\ NoOne \notin Responses
  BY Basics DEF TypeOK, Connections, Servers, Histories
<1>2. CASE Connect \/ Close
  <2>1. connection'.generation = connection.generation + 1
    BY <1>2, NewConnection
  <2>2. ResetSession /\ checks' = checks
    BY <1>2 DEF Connect, Close, ResetSession
  <2>3. \A check \in checks : check.generation \in Nat
    BY DEF TypeOK
  <2>4. /\ history'.before = server.started
        /\ history'.misfired = history.misfired
        /\ \A r \in Responses : history'.interrupts[r] = 0
        /\ turn'.generation = 0
    BY <1>1, <2>2 DEF ResetSession, NoTurn, Histories
  <2>5. server'.started = server.started
    BY <1>1, <1>2 DEF Connect, Close, Closed, Servers
  <2>6. \A check \in checks : check.generation < connection'.generation
    BY <1>1, <2>1, <2>3 DEF InterruptInv
  <2> QED
    BY <1>1, <2>1, <2>2, <2>3, <2>4, <2>5, <2>6 DEF InterruptInv
<1>3. ASSUME NEW r \in Responses, TurnStarted(r) PROVE InterruptInv'
  <2>1. /\ server'.started = server.started + 1
        /\ server'.order = [server.order EXCEPT ![r] = server.started + 1]
        /\ server'.response = [server.response EXCEPT ![r] = "live"]
    BY <1>1, <1>3 DEF TurnStarted, Servers
  <2>2. turn'.active = r /\ turn'.generation = turn.generation + 1
    BY <1>3 DEF TurnStarted
  <2>3. /\ \A p \in Responses : server.order[p] \in Nat
        /\ server.started \in Nat
        /\ server.order \in [Responses -> Nat]
    BY <1>1 DEF Servers
  <2>4. turn'.generation + history'.before = server'.started
    BY <1>1, <1>3, <2>1, <2>2 DEF InterruptInv, TurnStarted
  <2>5. \A p \in Responses :
          server'.order[p] = server'.started => turn'.active = p
    BY <2>1, <2>2, <2>3 DEF SocketInv
  <2>6. /\ UNCHANGED <<connection, checks, tripped, history>>
        /\ \A check \in checks : check.generation <= connection.generation
    BY <1>3 DEF TurnStarted, InterruptInv
  <2> QED
    BY <2>4, <2>5, <2>6 DEF InterruptInv
<1>4. ASSUME NEW r \in Responses, NEW source, ScheduleOutputGuardrails(r, source),
             NEW check \in checks', UNCHANGED connection,
             history'.before = history.before
      PROVE  /\ check.generation <= connection'.generation
             /\ check.generation = connection'.generation =>
                  check.turn + history'.before = check.started
  BY <1>1, <1>4 DEF ScheduleOutputGuardrails, InterruptInv
<1>5. ASSUME NEW r \in Responses, TurnDone(r) PROVE InterruptInv'
  <2>1. /\ server'.started = server.started
        /\ server'.order = server.order
        /\ server'.response = [server.response EXCEPT ![r] = "done"]
    BY <1>1, <1>5 DEF TurnDone, Servers
  <2>2. /\ turn'.active = IF turn.active = r THEN NoOne ELSE turn.active
        /\ turn'.generation = turn.generation
    BY <1>1, <1>5 DEF TurnDone
  <2>3. /\ UNCHANGED <<connection, tripped, history>>
        /\ ScheduleOutputGuardrails(r, "final")
    BY <1>5 DEF TurnDone
  <2>4. \A p \in Responses : Live(p)' => Live(p) /\ p # r
    BY <1>1, <2>1 DEF Live, Servers
  <2> QED
    BY <1>4, <2>1, <2>2, <2>3, <2>4 DEF InterruptInv
<1>6. ASSUME NEW r \in Responses, NEW source, Delta(r, source)
      PROVE  InterruptInv'
  <2>1. /\ turn'.active = IF turn.active = NoOne THEN r ELSE turn.active
        /\ turn'.generation = turn.generation
    BY <1>1, <1>6 DEF Delta
  <2>2. /\ UNCHANGED <<connection, tripped, server, history>>
        /\ ScheduleOutputGuardrails(r, source)
    BY <1>6 DEF Delta
  <2> QED
    BY <1>1, <1>4, <2>1, <2>2 DEF InterruptInv, Live
<1>7. ASSUME NEW check \in checks, GuardrailPasses(check) PROVE InterruptInv'
  BY <1>7 DEF GuardrailPasses, InterruptInv, Live
<1>8. ASSUME NEW check \in checks, GuardrailTrips(check) PROVE InterruptInv'
  <2> DEFINE R == check.response
  <2>1. /\ UNCHANGED <<connection, turn, server>> /\ checks' \subseteq checks
        /\ R \in Responses
    BY <1>8 DEF GuardrailTrips, TypeOK
  <2>2. CASE UNCHANGED <<tripped, history>>
    BY <2>1, <2>2 DEF InterruptInv, Live
  <2>3. CASE ~Ignored(check) /\ ~Interrupts(check)
    <3>1. tripped' = tripped \cup {R} /\ history' = history
      BY <1>8, <2>3 DEF GuardrailTrips
    <3> QED
      BY <2>1, <3>1 DEF InterruptInv, Live
  <2>4. CASE ~Ignored(check) /\ Interrupts(check)
    <3>1. \A r \in Responses : ~Overtakes(r, check)
      <4>1. /\ check.generation = connection.generation
            /\ check.turn = turn.generation
            /\ turn.active \in {NoOne, R}
        BY <2>4 DEF Ignored, Interrupts, IsStale
      <4>2. check.started = server.started
        BY <4>1 DEF InterruptInv
      <4> QED
        BY <1>1, <4>1, <4>2 DEF SocketInv, InterruptInv, Overtakes
    <3>2. /\ tripped' = tripped \cup {R} /\ R \notin tripped
          /\ history'.interrupts =
               [history.interrupts EXCEPT ![R] = history.interrupts[R] + 1]
          /\ history'.misfired = history.misfired
          /\ history'.before = history.before
      <4>1. tripped' = tripped \cup {R} /\ R \notin tripped
        BY <1>8, <2>4 DEF GuardrailTrips, Ignored
      <4>2. history' = [history EXCEPT !.interrupts[R] = @ + 1,
                          !.misfired = @ \/ \E r \in Responses : Overtakes(r, check)]
        BY <1>8, <2>4 DEF GuardrailTrips
      <4>3. history'.interrupts =
              [history.interrupts EXCEPT ![R] = history.interrupts[R] + 1]
        BY <1>1, <4>2 DEF Histories
      <4>4. history'.misfired =
              (history.misfired \/ \E r \in Responses : Overtakes(r, check))
        BY <1>1, <4>2 DEF Histories
      <4>5. history'.before = history.before
        BY <1>1, <4>2 DEF Histories
      <4> QED
        BY <1>1, <3>1, <4>1, <4>3, <4>4, <4>5 DEF Histories
    <3>3. history.interrupts[R] = 0
      BY <1>1, <2>1, <3>2 DEF InterruptInv, Histories
    <3>4. \A r \in Responses : /\ history'.interrupts[r] <= 1
                               /\ history'.interrupts[r] > 0 => r \in tripped'
      BY <1>1, <2>1, <3>2, <3>3 DEF InterruptInv, Histories
    <3> QED
      BY <2>1, <3>2, <3>4 DEF InterruptInv, Live
  <2> QED
    BY <1>8, <2>2, <2>3, <2>4 DEF GuardrailTrips
<1>9. ASSUME NEW c \in FunctionCalls, NEW r \in Responses, FunctionCall(c, r)
      PROVE  InterruptInv'
  <2> DEFINE k   == <<Captured(r), c>>
             srv == [server EXCEPT !.callOf[c] = r, !.events[c] = @ + 1]
  <2>1. /\ srv \in Servers /\ srv.response = server.response
        /\ srv.started = server.started /\ srv.order = server.order
    <3>1. c \in Calls /\ server.events[c] + 1 \in Nat
      BY <1>1, Basics DEF Servers
    <3> QED
      BY <1>1, <3>1 DEF Servers
  <2>2. /\ server'.response = server.response /\ server'.order = server.order
        /\ server'.started = server.started
    BY <1>9, <2>1, RunKeeps DEF FunctionCall
  <2>3. /\ turn'.active = turn.active /\ turn'.generation = turn.generation
        /\ history'.interrupts = history.interrupts
        /\ history'.misfired = history.misfired
        /\ history'.before = history.before
        /\ UNCHANGED <<connection, checks, tripped>>
    BY <1>1, <1>9 DEF FunctionCall, Histories
  <2> QED
    BY <2>2, <2>3 DEF InterruptInv, Live
<1>10. ASSUME NEW item \in issued, NEW verdict, DecideCall(item, verdict)
       PROVE  InterruptInv'
  <2>1. /\ server'.response = server.response /\ server'.order = server.order
        /\ server'.started = server.started
    BY <1>1, <1>10, RunKeeps DEF DecideCall
  <2> QED
    BY <1>10, <2>1, InterruptSame DEF DecideCall
<1>11. ASSUME NEW item, NEW verdict, DecideMcp(item, verdict) PROVE InterruptInv'
  <2>1. /\ server'.response = server.response /\ server'.order = server.order
        /\ server'.started = server.started
    BY <1>1, <1>11 DEF DecideMcp, Servers
  <2> QED
    BY <1>11, <2>1, InterruptSame DEF DecideMcp
<1>12. ASSUME NEW c, McpApprovalRequest(c) PROVE InterruptInv'
  <2>1. /\ server'.response = server.response /\ server'.order = server.order
        /\ server'.started = server.started
    BY <1>1, <1>12 DEF McpApprovalRequest, Servers
  <2> QED
    BY <1>12, <2>1, InterruptSame DEF McpApprovalRequest
<1>13. CASE SocketStep
  BY <1>13, SocketStepKeeps DEF SessionKept, InterruptInv
<1>14. ASSUME NEW h \in Slots, Step(h) PROVE InterruptInv'
  BY <1>14, StepKeeps, InterruptSame
<1>15. CASE UNCHANGED vars
  BY <1>15, InterruptSame DEF vars
<1> QED
  BY <1>2, <1>3, <1>5, <1>6, <1>7, <1>8, <1>9, <1>10, <1>11, <1>12, <1>13,
     <1>14, <1>15 DEF Next, Event, SocketStep

(* Between two resets a guardrail interrupts its response once, and never   *)
(* another one that began last or after the judged text, or for a text from *)
(* before the reset (InterruptsItsResponse).                                *)
THEOREM InterruptionsHit == Spec => []InterruptsItsResponse
<1>1. Init => InterruptInv
  BY Basics DEF Init, InterruptInv, NewServer, NoTurn, NoRuns, Live
<1>2. InterruptInv /\ SocketInv /\ TypeOK /\ [Next]_vars => InterruptInv'
  BY InterruptNext
<1>3. InterruptInv => InterruptsItsResponse
  BY DEF InterruptInv, InterruptsItsResponse
<1> QED
  BY <1>1, <1>2, <1>3, SocketsAreOwn, TypeCorrect, PTL DEF Spec

------------------------------------------------------------------------------
(* What a step of a handler does to the record: it gives up, answers, goes  *)
(* on, asks for an approval, or was woken.                                  *)
Kinds == {"notFound", "rejection", "refusal", "result", "transfer"}

LEMMA StepKinds ==
  ASSUME NEW h \in Slots, Step(h)
  PROVE  \/ Works(h) /\ Finish(h, invocation) /\ UNCHANGED <<server, issued>>
         \/ Works(h) /\ Current(h) /\ \E what \in Kinds : AnswersCall(h, what)
         \/ /\ Works(h) /\ Current(h)
            /\ \E stage \in Working : GoesOn(h, stage)
         \/ Works(h) /\ Current(h) /\ RequestApproval(h)
         \/ Resume(h)
<1> USE DEF Works
<1>1. ASSUME NEW stage \in Working, At(h, stage) PROVE Works(h) /\ Current(h)
  BY <1>1 DEF At, IsCurrent, Current
<1>2. CASE Abandon(h) \/ Fail(h)
  BY <1>2 DEF Abandon, Fail, Ends
<1>3. CASE Enabled(h)
  BY <1>1, <1>3 DEF Enabled, Working, Kinds
<1>4. CASE Asked(h)
  BY <1>1, <1>4 DEF Asked, Working
<1>5. CASE RejectionFormatted(h)
  BY <1>1, <1>5 DEF RejectionFormatted, Working, Kinds
<1>6. CASE Screened(h)
  BY <1>1, <1>6 DEF Screened, Working, Kinds
<1>7. CASE InputGuarded(h)
  BY <1>1, <1>7 DEF InputGuarded, Working, Kinds
<1>8. CASE ToolReturns(h)
  BY <1>1, <1>8 DEF ToolReturns, Working, Kinds
<1>9. CASE HandoffEnds(h)
  BY <1>1, <1>9 DEF HandoffEnds, Working, Kinds
<1> QED
  BY <1>2, <1>3, <1>4, <1>5, <1>6, <1>7, <1>8, <1>9 DEF Step

LEMMA StepRecord ==
  ASSUME TypeOK, InvocationInv, NEW h \in Slots, Step(h)
  PROVE  /\ \A k \in Keys :
              /\ invocation.completed[k] # NoOne =>
                   invocation'.completed[k] = invocation.completed[k]
              /\ invocation'.completed[k] # NoOne =>
                   \/ invocation'.completed[k] = invocation.completed[k]
                   \/ invocation'.completed[k].generation = connection.generation
              /\ Known(k)' => Known(k)
              /\ k \in invocation.pending => k \in invocation'.pending
              /\ k \in invocation'.pending =>
                   \/ k \in invocation.pending
                   \/ k = KeyOf(h) /\ RequestApproval(h)
         /\ \A c \in Calls : \A a \in server'.answers[c] :
              \/ a \in server.answers[c]
              \/ /\ KeyOf(h) \in Keys /\ KeyOf(h)[2] = c
                 /\ invocation'.completed[KeyOf(h)] = a
<1> DEFINE k == KeyOf(h)
<1>1. /\ k \in Keys /\ handler[h].call \in Calls /\ k[2] = handler[h].call
  BY Basics DEF Resume, Works, Working, TypeOK, HandlersTyped, KeyOf,
     Step, Abandon, Enabled, Asked, RejectionFormatted, Screened, InputGuarded,
     ToolReturns, HandoffEnds, Fail, At
<1>2. /\ invocation.active \in [Keys -> Slots \cup {None}]
      /\ invocation.completed \in [Keys -> Answers \cup {NoOne}]
      /\ invocation \in Invocations
      /\ server \in Servers
      /\ server.answers \in [Calls -> SUBSET Answers]
      /\ history \in Histories
  BY DEF TypeOK, Invocations, Servers
<1>3. ASSUME NEW inv \in Invocations, Finish(h, inv)
      PROVE  /\ invocation'.completed = inv.completed
             /\ invocation'.pending = inv.pending
             /\ \A j \in Keys : invocation'.active[j] # None =>
                  invocation'.active[j] = inv.active[j]
  BY <1>1, <1>3 DEF Finish, Invocations
<1>4. Works(h) /\ Current(h) => /\ invocation.active[k] = h /\ h # None
                                /\ invocation.completed[k] = NoOne
  BY <1>1, Basics DEF InvocationInv, HandlerInv, ActiveInv
<1>5. CASE Finish(h, invocation) /\ server' = server
  BY <1>2, <1>3, <1>5 DEF Known
<1>6. ASSUME NEW what \in Kinds, AnswersCall(h, what), Works(h), Current(h)
      PROVE  /\ \A j \in Keys : j # k =>
                  invocation'.completed[j] = invocation.completed[j]
             /\ invocation'.completed[k] = Answer(what, h)
             /\ Answer(what, h).generation = connection.generation
             /\ invocation'.pending = invocation.pending
             /\ \A j \in Keys : invocation'.active[j] # None =>
                  invocation'.active[j] = invocation.active[j]
             /\ \A c \in Calls : \A a \in server'.answers[c] :
                  \/ a \in server.answers[c]
                  \/ c = handler[h].call /\ a = Answer(what, h)
  <2> DEFINE answer == Answer(what, h)
             inv    == Committed(k, answer)
  <2>1. answer \in Answers /\ answer.generation = connection.generation
    BY <1>1, <1>2, <1>6
       DEF Answer, Answers, TypeOK, HandlersTyped, Handlers, Histories, Kinds, Current
  <2>2. /\ inv \in Invocations
        /\ inv.active = invocation.active /\ inv.pending = invocation.pending
        /\ inv.completed = [invocation.completed EXCEPT ![k] = answer]
    BY <1>1, <1>2, <2>1 DEF Committed, Invocations
  <2>3. \A c \in Calls : \A a \in server'.answers[c] :
          \/ a \in server.answers[c]
          \/ c = handler[h].call /\ a = answer
    BY <1>1, <1>2, <1>6 DEF AnswersCall, Sent, Servers
  <2>4. Finish(h, inv)
    BY <1>6 DEF AnswersCall
  <2> QED
    BY <1>1, <1>2, <1>3, <2>1, <2>2, <2>3, <2>4
<1>7. CASE Works(h) /\ Current(h) /\ \E what \in Kinds : AnswersCall(h, what)
  BY <1>1, <1>4, <1>6, <1>7 DEF Known
<1>8. ASSUME NEW stage, GoesOn(h, stage)
      PROVE  invocation' = invocation /\ server' = server
  BY <1>8 DEF GoesOn
<1>9. CASE \E stage : GoesOn(h, stage)
  BY <1>8, <1>9 DEF Known
<1>10. CASE Works(h) /\ Current(h) /\ RequestApproval(h)
  <2>1. /\ invocation'.completed = invocation.completed
        /\ invocation'.pending = invocation.pending \cup {k}
        /\ invocation'.active = [invocation.active EXCEPT ![k] = None]
        /\ server' = server
    BY <1>2, <1>10 DEF RequestApproval, Invocations
  <2> QED
    BY <1>1, <1>2, <1>4, <1>10, <2>1 DEF Known
<1>11. CASE Resume(h)
  <2>1. invocation' = invocation
    BY <1>11, ResumeKeepsRecord
  <2>2. CASE IsCurrent(h) /\ handler[h].outcome # NoOne
    <3>1. invocation.completed[k] = handler[h].outcome
      BY <1>11, <2>2 DEF Resume, InvocationInv, HandlerInv, IsCurrent, Current
    <3>2. Sent(handler[h].call, handler[h].outcome)
      BY <1>11, <2>2 DEF Resume
    <3>3. \A c \in Calls : \A a \in server'.answers[c] :
            \/ a \in server.answers[c]
            \/ c = handler[h].call /\ a = handler[h].outcome
      BY <1>1, <1>2, <3>2 DEF Sent, Servers
    <3> QED
      BY <1>1, <2>1, <3>1, <3>3 DEF Known
  <2>3. CASE server' = server
    BY <2>1, <2>3 DEF Known
  <2> QED
    BY <1>11, <2>2, <2>3 DEF Resume
<1> QED
  BY <1>5, <1>7, <1>9, <1>10, <1>11, StepKinds

(* What a delivery or a decision does to the record when its call is run.   *)
LEMMA RunRecord ==
  ASSUME TypeOK, NEW k \in Keys, NEW stage, NEW inv \in Invocations,
         NEW srv \in Servers, Run(k, stage, inv, srv)
  PROVE  /\ invocation'.completed = inv.completed
         /\ invocation'.pending = inv.pending
         /\ \A j \in Keys : j # k => invocation'.active[j] = inv.active[j]
         /\ \A c \in Calls : \A a \in server'.answers[c] :
              \/ a \in srv.answers[c]
              \/ c = k[2] /\ a = inv.completed[k] /\ a # NoOne
<1>1. k[2] \in Calls
  BY DEF Keys
<1>2. CASE inv.completed[k] # NoOne
  <2>1. \/ server' = srv
        \/ server' = [srv EXCEPT !.answers[k[2]] = @ \cup {inv.completed[k]}]
    BY <1>2, Zenon DEF Run
  <2>2. invocation' = inv
    BY <1>2 DEF Run
  <2> QED
    BY <1>1, <1>2, <2>1, <2>2 DEF Servers
<1>3. CASE inv.completed[k] = NoOne
  <2>1. \/ invocation' = inv
        \/ invocation' = [inv EXCEPT !.active[k] = Slot]
    BY <1>3 DEF Run
  <2>2. server' = srv
    BY <1>3 DEF Run
  <2> QED
    BY <2>1, <2>2 DEF Invocations
<1> QED
  BY <1>2, <1>3

LEMMA DecideRecord ==
  ASSUME TypeOK, NEW item \in issued, NEW verdict, DecideCall(item, verdict)
  PROVE  /\ item.key \in Keys /\ item.key \in invocation.pending
         /\ invocation'.completed = invocation.completed
         /\ invocation'.pending = invocation.pending \ {item.key}
         /\ \A j \in Keys : Known(j)' => Known(j)
         /\ \A c \in Calls : \A a \in server'.answers[c] :
              \/ a \in server.answers[c]
              \/ /\ c = item.key[2] /\ a # NoOne
                 /\ invocation.completed[item.key] = a
<1> DEFINE k   == item.key
           inv == [invocation EXCEPT !.pending = @ \ {k}]
<1>1. k \in Keys /\ k \in invocation.pending
  BY DEF DecideCall, TypeOK
<1>2. inv \in Invocations
  BY DEF TypeOK, Invocations
<1>3. /\ inv.completed = invocation.completed
      /\ inv.active = invocation.active
      /\ inv.pending = invocation.pending \ {k}
  BY DEF TypeOK, Invocations
<1>4. Run(k, "asking", inv, server)
  BY DEF DecideCall
<1>5. server \in Servers
  BY DEF TypeOK
<1> HIDE DEF inv, k
<1>6. invocation'.completed = inv.completed
  BY <1>1, <1>2, <1>4, <1>5, RunRecord
<1>7. invocation'.pending = inv.pending
  BY <1>1, <1>2, <1>4, <1>5, RunRecord
<1>8. \A j \in Keys : j # k => invocation'.active[j] = inv.active[j]
  BY <1>1, <1>2, <1>4, <1>5, RunRecord
<1>9. \A c \in Calls : \A a \in server'.answers[c] :
        \/ a \in server.answers[c]
        \/ c = k[2] /\ a = inv.completed[k] /\ a # NoOne
  BY <1>1, <1>2, <1>4, <1>5, RunRecord
<1>10. ASSUME NEW j \in Keys, Known(j)' PROVE Known(j)
  <2>1. CASE j = k
    BY <1>1, <2>1 DEF Known
  <2>2. CASE j # k
    <3>1. /\ invocation'.completed[j] = invocation.completed[j]
          /\ j \in invocation'.pending => j \in invocation.pending
          /\ invocation'.active[j] = invocation.active[j]
      BY <1>3, <1>6, <1>7, <1>8, <2>2
    <3> QED
      BY <1>10, <3>1 DEF Known
  <2> QED
    BY <2>1, <2>2
<1> QED
  BY <1>1, <1>3, <1>6, <1>7, <1>9, <1>10 DEF k

LEMMA CallRecord ==
  ASSUME TypeOK, NEW c \in FunctionCalls, NEW r \in Responses, FunctionCall(c, r)
  PROVE  /\ invocation'.completed = invocation.completed
         /\ invocation'.pending = invocation.pending
         /\ \A d \in Calls : \A a \in server'.answers[d] :
              \/ a \in server.answers[d]
              \/ \E k \in Keys : k[2] = d /\ invocation.completed[k] = a
<1> DEFINE srv == [server EXCEPT !.callOf[c] = r, !.events[c] = @ + 1]
<1>1. server \in Servers /\ invocation \in Invocations
  BY DEF TypeOK
<1>2. srv \in Servers /\ srv.answers = server.answers
  <2>1. c \in Calls /\ server.events[c] + 1 \in Nat
    BY <1>1, Basics DEF Servers
  <2> QED
    BY <1>1, <2>1 DEF Servers
<1>3. PICK k \in Keys : k = <<Captured(r), c>>
  <2>1. Captured(r) \in Agents /\ c \in Calls
    BY Basics DEF Captured, TypeOK
  <2> QED
    BY <2>1 DEF Keys
<1>4. \/ server' = srv /\ UNCHANGED invocation
      \/ Run(k, "enabling", invocation, srv)
  BY <1>3 DEF FunctionCall
<1> HIDE DEF srv
<1>5. CASE server' = srv /\ UNCHANGED invocation
  BY <1>2, <1>5
<1>6. CASE Run(k, "enabling", invocation, srv)
  <2>1. invocation'.completed = invocation.completed
    BY <1>1, <1>2, <1>6, RunRecord
  <2>2. invocation'.pending = invocation.pending
    BY <1>1, <1>2, <1>6, RunRecord
  <2>3. \A d \in Calls : \A a \in server'.answers[d] :
          \/ a \in srv.answers[d]
          \/ d = k[2] /\ a = invocation.completed[k] /\ a # NoOne
    BY <1>1, <1>2, <1>6, RunRecord
  <2> QED
    BY <1>2, <2>1, <2>2, <2>3
<1> QED
  BY <1>4, <1>5, <1>6

------------------------------------------------------------------------------
(* Two keys of one call that the connection knows of are the same.          *)
LEMMA OneKey ==
  ASSUME KeyInv, NEW j \in Keys, NEW k \in Keys, Known(j), Known(k), j[2] = k[2]
  PROVE  j = k
<1>1. j[1] = k[1]
  BY DEF KeyInv, Own
<1> QED
  BY <1>1 DEF Keys

LEMMA OwnKeySame ==
  ASSUME OwnKeyInv, UNCHANGED <<turn, connection>>,
         server'.response = server.response, server'.order = server.order,
         server'.made = server.made, server'.callOf = server.callOf,
         history'.misled = history.misled, history'.before = history.before,
         \A k \in Keys : Known(k)' => Known(k)
  PROVE  OwnKeyInv'
BY DEF OwnKeyInv, ResponseInv, KeyInv, Own, Live, Connected

LEMMA OwnKeyNext ==
  ASSUME TypeOK, SocketInv, InvocationInv, OwnKeyInv, [Next]_vars
  PROVE  OwnKeyInv'
<1> USE DEF OwnKeyInv
<1>1. /\ server \in Servers /\ history \in Histories /\ invocation \in Invocations
      /\ turn \in [active : Responses \cup {NoOne}, generation : Nat,
                   snapshot : [Responses -> Agents \cup {NoOne}]]
      /\ agent \in Agents /\ NoOne \notin Agents
  BY Basics DEF TypeOK
<1>0. /\ server.started \in Nat /\ history.before \in Nat
      /\ \A r \in Responses : server.order[r] \in Nat
  BY <1>1 DEF Servers, Histories
<1>2. CASE Connect \/ Close
  <2>1. /\ turn' = NoTurn /\ invocation' = NoInvocation
        /\ history'.before = server.started /\ history'.misled = history.misled
    BY <1>1, <1>2
       DEF Connect, Close, ResetSession, ResetToolInvocationState, Histories
  <2>2. server' = server \/ server' = Closed
    BY <1>2 DEF Connect, Close
  <2>3. /\ server'.order = server.order /\ server'.callOf = server.callOf
        /\ \A r \in Responses :
             server.response[r] # "none" => server'.response[r] # "none"
    <3>1. CASE server' = Closed
      BY <1>1, <3>1 DEF Closed, Past, Servers
    <3> QED
      BY <2>2, <3>1
  <2>4. \A r \in Responses : ~(server'.order[r] > history'.before)
    BY <1>0, <2>1, <2>3 DEF SocketInv
  <2>5. ResponseInv'
    BY <2>1, <2>4 DEF ResponseInv, NoTurn
  <2>6. \A c \in Calls : server.callOf[c] \in Responses \cup {NoOne}
    BY <1>1 DEF Servers
  <2>7. KeyInv'
    BY <1>1, <2>1, <2>3, <2>6 DEF KeyInv, Known, NoInvocation
  <2> QED
    BY <2>5, <2>7
<1>3. ASSUME UNCHANGED invocation PROVE \A k \in Keys : Known(k)' => Known(k)
  BY <1>3 DEF Known
<1>4. ASSUME NEW r \in Responses, TurnStarted(r) PROVE OwnKeyInv'
  <2>1. /\ server'.response = [server.response EXCEPT ![r] = "live"]
        /\ server'.made = [server.made EXCEPT ![r] = agent]
        /\ server'.callOf = server.callOf
        /\ server'.order = [server.order EXCEPT ![r] = server.started + 1]
        /\ server.response[r] = "none"
    BY <1>1, <1>4 DEF TurnStarted, Servers
  <2>2. turn'.snapshot = [turn.snapshot EXCEPT ![r] = agent]
    BY <1>1, <1>4, <2>1 DEF TurnStarted, Capture, Captured, ResponseInv, Live
  <2>3. /\ server.response \in [Responses -> {"none", "live", "done", "past"}]
        /\ server.order \in [Responses -> Nat]
        /\ server.made \in [Responses -> Agents \cup {NoOne}]
        /\ turn.snapshot \in [Responses -> Agents \cup {NoOne}]
        /\ server.callOf \in [Calls -> Responses \cup {NoOne}]
    BY <1>1 DEF Servers
  <2>4. ResponseInv'
    BY <1>1, <1>4, <2>1, <2>2, <2>3 DEF ResponseInv, Live, TurnStarted
  <2>5. \A c \in Calls : server.callOf[c] # NoOne =>
          /\ server.callOf[c] # r /\ server.callOf[c] \in Responses
    BY <2>1, <2>3 DEF KeyInv
  <2>6. \A k \in Keys : Own(k) => Own(k)'
    BY <2>1, <2>3, <2>5 DEF Own, Keys
  <2>7. UNCHANGED <<invocation, history, connection>>
    BY <1>4 DEF TurnStarted
  <2>8. KeyInv'
    BY <1>3, <2>1, <2>3, <2>5, <2>6, <2>7 DEF KeyInv, Connected
  <2> QED
    BY <2>4, <2>8
<1>5. ASSUME NEW r \in Responses, TurnDone(r) PROVE OwnKeyInv'
  <2>1. /\ server'.response = [server.response EXCEPT ![r] = "done"]
        /\ server'.made = server.made
        /\ server'.callOf = server.callOf
        /\ server'.order = server.order
        /\ turn'.snapshot = [turn.snapshot EXCEPT ![r] = NoOne]
        /\ UNCHANGED <<invocation, history, connection>>
    BY <1>1, <1>5 DEF TurnDone, Servers
  <2>2. ResponseInv'
    BY <1>1, <2>1 DEF ResponseInv, Live, Servers
  <2>3. KeyInv'
    BY <1>1, <1>3, <2>1 DEF KeyInv, Own, Servers, Connected
  <2> QED
    BY <2>2, <2>3
<1>6. ASSUME NEW r \in Responses, Live(r)
      PROVE  /\ server.order[r] > history.before =>
                  /\ Capture(r) = turn.snapshot
                  /\ Captured(r) = server.made[r]
             /\ \A p \in Responses : p # r => Capture(r)[p] = turn.snapshot[p]
  BY <1>1, <1>6 DEF ResponseInv, Capture, Captured
<1>7. ASSUME NEW r \in Responses, NEW source, Delta(r, source)
      PROVE  OwnKeyInv'
  <2>1. /\ Live(r)
        /\ turn'.snapshot \in {turn.snapshot, Capture(r)}
        /\ UNCHANGED <<server, invocation, history, connection>>
    BY <1>1, <1>7 DEF Delta
  <2>2. ASSUME NEW p \in Responses
        PROVE  /\ server'.response[p] = "none" => turn'.snapshot[p] = NoOne
               /\ Live(p)' /\ server'.order[p] > history'.before =>
                    /\ server'.made[p] \in Agents
                    /\ turn'.snapshot[p] = server'.made[p]
    BY <1>6, <2>1 DEF ResponseInv, Live
  <2>3. ResponseInv'
    BY <2>2 DEF ResponseInv
  <2>4. KeyInv'
    BY <1>3, <2>1 DEF KeyInv, Own, Connected
  <2> QED
    BY <2>3, <2>4
<1>8. ASSUME NEW check, GuardrailPasses(check) \/ GuardrailTrips(check)
      PROVE  OwnKeyInv'
  <2>1. /\ history'.misled = history.misled
        /\ history'.before = history.before
        /\ UNCHANGED <<turn, server, invocation, connection>>
    BY <1>1, <1>8 DEF GuardrailPasses, GuardrailTrips, Histories
  <2> QED
    BY <1>3, <2>1, OwnKeySame
<1>9. ASSUME NEW c \in FunctionCalls, NEW r \in Responses, FunctionCall(c, r)
      PROVE  OwnKeyInv'
  <2> DEFINE srv == [server EXCEPT !.callOf[c] = r, !.events[c] = @ + 1]
  <2>1. /\ Live(r) /\ server.callOf[c] \in {NoOne, r}
        /\ Connected /\ Connected' /\ server.order[r] > history.before
    BY <1>9 DEF FunctionCall, SocketInv, Connected
  <2>2. PICK k \in Keys : k = <<Captured(r), c>> /\ k[1] = server.made[r] /\ k[2] = c
    <3>1. Captured(r) = server.made[r] /\ Captured(r) \in Agents /\ c \in Calls
      BY <1>6, <2>1, Basics DEF ResponseInv
    <3> DEFINE key == <<Captured(r), c>>
    <3>2. key \in Keys /\ key[1] = Captured(r) /\ key[2] = c
      BY <3>1 DEF Keys
    <3> QED
      BY <3>1, <3>2
  <2>3. /\ srv \in Servers /\ srv.response = server.response
        /\ srv.made = server.made /\ srv.order = server.order
        /\ srv.callOf = [server.callOf EXCEPT ![c] = r]
    <3>1. c \in Calls /\ server.events[c] + 1 \in Nat
      BY <1>1, Basics DEF Servers
    <3> QED
      BY <1>1, <3>1 DEF Servers
  <2>0. \/ server' = srv /\ UNCHANGED invocation
        \/ Run(k, "enabling", invocation, srv)
    BY <1>9, <2>2 DEF FunctionCall
  <2> HIDE DEF srv
  <2>4. /\ server'.response = server.response /\ server'.made = server.made
        /\ server'.order = server.order
        /\ server'.callOf = [server.callOf EXCEPT ![c] = r]
    <3>1. CASE server' = srv
      BY <2>3, <3>1
    <3>2. CASE Run(k, "enabling", invocation, srv)
      BY <2>3, <3>2, RunKeeps
    <3> QED
      BY <2>0, <3>1, <3>2
  <2>5. /\ turn'.snapshot = turn.snapshot
        /\ history'.misled = history.misled
        /\ history'.before = history.before
    <3>1. turn'.snapshot = turn.snapshot
      BY <1>1, <1>6, <1>9, <2>1 DEF FunctionCall
    <3>2. history'.misled = (history.misled \/ k[1] # server.made[r])
      BY <1>1, <1>9, <2>2 DEF FunctionCall, Histories
    <3>3. history'.before = history.before
      BY <1>1, <1>9 DEF FunctionCall, Histories
    <3> QED
      BY <1>1, <2>2, <3>1, <3>2, <3>3 DEF Histories
  <2>6. \A j \in Keys : j # k /\ Known(j)' => Known(j)
    <3>1. CASE UNCHANGED invocation
      BY <1>3, <3>1
    <3>2. CASE Run(k, "enabling", invocation, srv)
      BY <1>1, <2>2, <2>3, <3>2, RunRecord DEF Known
    <3> QED
      BY <2>0, <3>1, <3>2
  <2>7. server.callOf \in [Calls -> Responses \cup {NoOne}] /\ NoOne \notin Responses
    BY <1>1, Basics DEF Servers
  <2>8. Own(k)' /\ \A j \in Keys : Own(j) => Own(j)'
    <3>1. server'.callOf[c] = r /\ r # NoOne
      BY <2>4, <2>7, Basics
    <3>2. Own(k)'
      BY <2>2, <2>4, <3>1 DEF Own
    <3>3. ASSUME NEW j \in Keys, Own(j) PROVE server'.callOf[j[2]] = server.callOf[j[2]]
      BY <2>1, <2>2, <2>4, <2>7, <3>3 DEF Own, Keys
    <3> QED
      BY <2>4, <3>2, <3>3 DEF Own
  <2>9. ResponseInv'
    BY <2>4, <2>5 DEF ResponseInv, Live
  <2>10. \A d \in Calls : server'.callOf[d] # NoOne =>
           server'.response[server'.callOf[d]] # "none"
    BY <2>1, <2>4, <2>7 DEF KeyInv, Live
  <2>11. KeyInv'
    BY <2>1, <2>2, <2>5, <2>6, <2>8, <2>10 DEF KeyInv
  <2> QED
    BY <2>9, <2>11
<1>10. ASSUME NEW item \in issued, NEW verdict, DecideCall(item, verdict)
       PROVE  OwnKeyInv'
  <2>1. \A j \in Keys : Known(j)' => Known(j)
    BY <1>10, DecideRecord
  <2>2. /\ server'.response = server.response /\ server'.made = server.made
        /\ server'.callOf = server.callOf /\ server'.order = server.order
    BY <1>1, <1>10, RunKeeps DEF DecideCall
  <2> QED
    BY <1>10, <2>1, <2>2, OwnKeySame DEF DecideCall
<1>11. ASSUME NEW c, McpApprovalRequest(c) PROVE OwnKeyInv'
  <2>1. /\ server'.response = server.response /\ server'.made = server.made
        /\ server'.callOf = server.callOf /\ server'.order = server.order
        /\ UNCHANGED <<turn, invocation, history, connection>>
    BY <1>1, <1>11 DEF McpApprovalRequest, Servers
  <2> QED
    BY <1>3, <2>1, OwnKeySame
<1>12. ASSUME NEW item, NEW verdict, DecideMcp(item, verdict) PROVE OwnKeyInv'
  <2>1. /\ server'.response = server.response /\ server'.made = server.made
        /\ server'.callOf = server.callOf /\ server'.order = server.order
        /\ UNCHANGED <<turn, invocation, history, connection>>
    BY <1>1, <1>12 DEF DecideMcp, Servers
  <2> QED
    BY <1>3, <2>1, OwnKeySame
<1>13. CASE SocketStep
  <2>1. /\ UNCHANGED <<turn, invocation>>
        /\ history'.misled = history.misled
        /\ history'.before = history.before
    BY <1>13, SocketStepKeeps DEF SessionKept
  <2>2. CASE SocketOpens
    <3>1. /\ \A c \in Calls : server'.callOf[c] = NoOne
          /\ ~Connected /\ \A r \in Responses : ~Live(r)'
      BY <2>2 DEF SocketOpens, SocketInv, NewServer, Past, Live
    <3>2. ResponseInv'
      BY <1>13, <2>1, <3>1, SocketStepKeeps DEF ResponseInv
    <3>3. KeyInv'
      BY <1>3, <2>1, <3>1 DEF KeyInv
    <3> QED
      BY <3>2, <3>3
  <2>3. CASE ~SocketOpens
    <3>1. /\ server'.order = server.order /\ server'.made = server.made
          /\ server'.callOf = server.callOf
          /\ Connected => Connected'
      BY <1>13, <2>3, SocketStepKeeps
    <3>2. ResponseInv'
      BY <1>13, <2>1, <3>1, SocketStepKeeps DEF ResponseInv
    <3>3. \A c \in Calls : server.callOf[c] \in Responses \cup {NoOne}
      BY <1>1 DEF Servers
    <3>4. KeyInv'
      BY <1>3, <1>13, <2>1, <3>1, <3>3, SocketStepKeeps DEF KeyInv, Own
    <3> QED
      BY <3>2, <3>4
  <2> QED
    BY <2>2, <2>3
<1>14. ASSUME NEW h \in Slots, Step(h) PROVE OwnKeyInv'
  BY <1>14, StepKeeps, StepRecord, OwnKeySame
<1>15. CASE UNCHANGED vars
  BY <1>3, <1>15, OwnKeySame DEF vars
<1> QED
  BY <1>2, <1>4, <1>5, <1>7, <1>8, <1>9, <1>10, <1>11, <1>12, <1>13, <1>14,
     <1>15 DEF Next, Event, SocketStep

(* A call is kept under the key of the agent that its response was asked of.*)
THEOREM KeysAreOwn == Spec => []OwnKeyInv
<1>1. Init => OwnKeyInv
  BY Basics DEF Init, OwnKeyInv, ResponseInv, KeyInv, Known, Own, Live, NoTurn,
                NoInvocation, NewServer, NoRuns
<1>2. OwnKeyInv /\ SocketInv /\ InvocationInv /\ TypeOK /\ [Next]_vars =>
        OwnKeyInv'
  BY OwnKeyNext
<1> QED
  BY <1>1, <1>2, SocketsAreOwn, InvocationCorrect, TypeCorrect, PTL DEF Spec

(* What is known of a call is known on the socket of the connection.        *)
LEMMA KnownIsFresh ==
  ASSUME SocketInv, KeyInv, NEW k \in Keys, Known(k)
  PROVE  Fresh
BY DEF SocketInv, KeyInv

------------------------------------------------------------------------------
(* What the server was told of a call is what is recorded of it.            *)
LEMMA AnswerSame ==
  ASSUME AnswerInv, invocation'.completed = invocation.completed,
         connection'.generation = connection.generation,
         server'.generation = server.generation,
         server'.answers = server.answers
  PROVE  AnswerInv'
BY DEF AnswerInv, RecordInv, RecordedInv, OneAnswer, Fresh

(* A new answer is the recorded one, which is the only one.                 *)
LEMMA AnswerAdded ==
  ASSUME TypeOK', KeyInv', RecordInv', AnswerInv, UNCHANGED connection, Fresh,
         server'.generation = server.generation,
         \A k \in Keys : invocation.completed[k] # NoOne =>
                           invocation'.completed[k] = invocation.completed[k],
         \A c \in Calls : NoOne \notin server.answers[c],
         \A c \in Calls : \A a \in server'.answers[c] :
           \/ a \in server.answers[c]
           \/ \E k \in Keys : k[2] = c /\ invocation'.completed[k] = a
  PROVE  AnswerInv'
<1>1. \A c \in Calls : \A a \in server'.answers[c] :
        \E k \in Keys : k[2] = c /\ invocation'.completed[k] = a
  <2> SUFFICES ASSUME NEW c \in Calls, NEW a \in server.answers[c]
               PROVE  \E k \in Keys : k[2] = c /\ invocation'.completed[k] = a
    OBVIOUS
  <2>1. PICK k \in Keys : k[2] = c /\ invocation.completed[k] = a
    BY DEF AnswerInv, RecordedInv
  <2> QED
    BY <2>1
<1>2. \A c \in Calls : NoOne \notin server'.answers[c]
  BY Basics DEF TypeOK, Servers
<1>3. ASSUME NEW c \in Calls, NEW a \in server'.answers[c]
      PROVE  a.generation = server'.generation
  BY <1>1, <1>2 DEF RecordInv, Fresh
<1>4. ASSUME NEW c \in Calls, NEW a \in server'.answers[c],
             NEW b \in server'.answers[c]
      PROVE  a = b
  <2>1. PICK j \in Keys : j[2] = c /\ invocation'.completed[j] = a
    BY <1>1
  <2>2. PICK k \in Keys : k[2] = c /\ invocation'.completed[k] = b
    BY <1>1
  <2>3. Known(j)' /\ Known(k)'
    BY <1>2, <2>1, <2>2 DEF Known
  <2>4. Own(j)' /\ Own(k)'
    BY <2>3 DEF KeyInv
  <2>5. j = k
    BY <2>1, <2>2, <2>4 DEF Own, Keys
  <2> QED
    BY <2>1, <2>2, <2>5
<1>5. RecordedInv'
  BY <1>1 DEF RecordedInv
<1>6. OneAnswer'
  BY <1>3, <1>4 DEF OneAnswer
<1> QED
  BY <1>5, <1>6 DEF AnswerInv

LEMMA AnswerNext ==
  ASSUME TypeOK, SocketInv, InvocationInv, OwnKeyInv, AnswerInv, [Next]_vars
  PROVE  AnswerInv'
<1>1. /\ server \in Servers /\ connection.generation \in Nat
      /\ \A c \in Calls : NoOne \notin server.answers[c]
      /\ TypeOK' /\ KeyInv'
  BY Basics, TypeStep, OwnKeyNext DEF TypeOK, Connections, Servers, OwnKeyInv
<1>2. CASE Connect \/ Close
  <2>1. invocation' = NoInvocation
    BY <1>2 DEF Connect, Close, ResetSession, ResetToolInvocationState
  <2>2. /\ server'.generation = server.generation
        /\ server'.answers = server.answers
    BY <1>1, <1>2 DEF Connect, Close, Closed, Servers
  <2>3. connection'.generation = connection.generation + 1
    BY <1>2, NewConnection
  <2>4. ~Fresh'
    BY <1>1, <2>2, <2>3 DEF SocketInv, Fresh, Servers
  <2> QED
    BY <2>1, <2>2, <2>4
       DEF NoInvocation, AnswerInv, RecordInv, RecordedInv, OneAnswer
<1>3. ASSUME NEW r \in Responses, TurnStarted(r) \/ TurnDone(r)
      PROVE  AnswerInv'
  <2>1. /\ server'.answers = server.answers
        /\ server'.generation = server.generation
    BY <1>1, <1>3 DEF TurnStarted, TurnDone, Servers
  <2> QED
    BY <1>3, <2>1, AnswerSame DEF TurnStarted, TurnDone
<1>4. ASSUME NEW r, NEW source, Delta(r, source) PROVE AnswerInv'
  BY <1>4, AnswerSame DEF Delta
<1>5. ASSUME NEW check, GuardrailPasses(check) \/ GuardrailTrips(check)
      PROVE  AnswerInv'
  BY <1>5, AnswerSame DEF GuardrailPasses, GuardrailTrips
<1>6. ASSUME NEW c \in FunctionCalls, NEW r \in Responses, FunctionCall(c, r)
      PROVE  AnswerInv'
  <2>1. /\ invocation'.completed = invocation.completed
        /\ \A d \in Calls : \A a \in server'.answers[d] :
             \/ a \in server.answers[d]
             \/ \E k \in Keys : k[2] = d /\ invocation.completed[k] = a
    BY <1>6, CallRecord
  <2>2. UNCHANGED connection /\ Fresh /\ server'.generation = server.generation
    BY <1>6, EventKeeps DEF FunctionCall, SocketInv
  <2>3. RecordInv'
    BY <2>1, <2>2 DEF AnswerInv, RecordInv
  <2> QED
    BY <1>1, <2>1, <2>2, <2>3, AnswerAdded
<1>7. ASSUME NEW item \in issued, NEW verdict \in {"yes", "no"},
             DecideCall(item, verdict)
      PROVE  AnswerInv'
  <2>1. /\ item.key \in Keys
        /\ invocation'.completed = invocation.completed
        /\ \A c \in Calls : \A a \in server'.answers[c] :
             \/ a \in server.answers[c]
             \/ c = item.key[2] /\ invocation.completed[item.key] = a
    BY <1>7, DecideRecord
  <2>2. UNCHANGED connection /\ Fresh /\ server'.generation = server.generation
    BY <1>7, EventKeeps DEF DecideCall, Decidable, SocketInv
  <2>3. RecordInv'
    BY <2>1, <2>2 DEF AnswerInv, RecordInv
  <2> QED
    BY <1>1, <2>1, <2>2, <2>3, AnswerAdded
<1>8. ASSUME NEW c, McpApprovalRequest(c) PROVE AnswerInv'
  BY <1>1, <1>8, AnswerSame DEF McpApprovalRequest, Servers
<1>9. ASSUME NEW item, NEW verdict, DecideMcp(item, verdict) PROVE AnswerInv'
  BY <1>1, <1>9, AnswerSame DEF DecideMcp, Servers
<1>10. CASE SocketStep
  <2>1. /\ connection'.generation = connection.generation
        /\ invocation' = invocation
    BY <1>10, SocketStepKeeps DEF SessionKept
  <2>2. CASE SocketOpens
    <3>1. \A c \in Calls : server'.answers[c] = {}
      BY <2>2 DEF SocketOpens, NewServer
    <3> QED
      BY <2>1, <3>1 DEF AnswerInv, RecordInv, RecordedInv, OneAnswer
  <2>3. CASE ~SocketOpens
    BY <1>10, <2>1, <2>3, SocketStepKeeps, AnswerSame
  <2> QED
    BY <2>2, <2>3
<1>11. ASSUME NEW h \in Slots, Step(h) PROVE AnswerInv'
  <2>1. connection' = connection /\ server'.generation = server.generation
    BY <1>11, StepKeeps
  <2>2. \A k \in Keys :
          /\ invocation.completed[k] # NoOne =>
               invocation'.completed[k] = invocation.completed[k]
          /\ invocation'.completed[k] # NoOne =>
               \/ invocation'.completed[k] = invocation.completed[k]
               \/ invocation'.completed[k].generation = connection.generation
          /\ Known(k)' => Known(k)
    BY <1>11, StepRecord
  <2>3. \A c \in Calls : \A a \in server'.answers[c] :
          \/ a \in server.answers[c]
          \/ \E k \in Keys : k[2] = c /\ invocation'.completed[k] = a
    BY <1>11, StepRecord
  <2>4. RecordInv'
    BY <2>1, <2>2 DEF AnswerInv, RecordInv
  <2>5. CASE Fresh
    BY <1>1, <2>1, <2>2, <2>3, <2>4, <2>5, AnswerAdded
  <2>6. CASE ~Fresh
    <3>1. \A k \in Keys : ~Known(k) /\ ~Known(k)'
      BY <2>2, <2>6, KnownIsFresh DEF OwnKeyInv
    <3>2. \A c \in Calls : NoOne \notin server'.answers[c]
      BY <1>1, Basics DEF TypeOK, Servers
    <3>3. \A c \in Calls : server'.answers[c] \subseteq server.answers[c]
      BY <2>3, <3>1, <3>2 DEF Known
    <3>4. OneAnswer'
      BY <2>1, <3>3 DEF AnswerInv, OneAnswer
    <3>5. ~Fresh'
      BY <2>1, <2>6 DEF Fresh
    <3> QED
      BY <2>4, <3>4, <3>5 DEF AnswerInv, RecordedInv
  <2> QED
    BY <2>5, <2>6
<1>12. CASE UNCHANGED vars
  BY <1>12, AnswerSame DEF vars
<1> QED
  BY <1>2, <1>3, <1>4, <1>5, <1>6, <1>7, <1>8, <1>9, <1>10, <1>11, <1>12
     DEF Next, Event, SocketStep

(* The server was told of a call only what is recorded of it.               *)
THEOREM AnswersRecorded == Spec => []AnswerInv
<1>1. Init => AnswerInv
  BY DEF Init, AnswerInv, RecordInv, RecordedInv, OneAnswer, NoInvocation, NewServer
<1>2. AnswerInv /\ OwnKeyInv /\ SocketInv /\ InvocationInv /\ TypeOK
      /\ [Next]_vars => AnswerInv'
  BY AnswerNext
<1> QED
  BY <1>1, <1>2, SocketsAreOwn, KeysAreOwn, InvocationCorrect, TypeCorrect, PTL
     DEF Spec

(* All that the server is told of a call on a socket is one answer, computed*)
(* for the connection that opened it (OneAnswer): while the session has this*)
(* connection it is the recorded one, and the call has one record; later    *)
(* nothing is sent on the socket any more.                                  *)
THEOREM ServerHearsOneAnswer == Spec => []OneAnswer
<1>1. AnswerInv => OneAnswer
  BY DEF AnswerInv
<1> QED
  BY <1>1, AnswersRecorded, PTL

------------------------------------------------------------------------------
(* A handler's step wakes those that wait for it and leaves the others.     *)
LEMMA StepOthers ==
  ASSUME TypeOK, NEW h \in Slots, Step(h), NEW w \in Slots, w # h
  PROVE  \/ handler'[w] = handler[w]
         \/ handler[w].stage = "waiting" /\ handler'[w].stage = "resuming"
<1> DEFINE Kept == \/ handler'[w] = handler[w]
                   \/ /\ handler[w].stage = "waiting"
                      /\ handler'[w].stage = "resuming"
<1>1. handler \in [Slots -> Handlers] /\ handler[w] \in Handlers
  BY DEF TypeOK, HandlersTyped
<1>2. ASSUME NEW on, NEW outcome,
             handler' = [Resolve(handler, on, outcome) EXCEPT ![h] = Idle]
      PROVE  Kept
  <2>1. handler'[w] = Resolve(handler, on, outcome)[w]
    BY <1>2 DEF Resolve
  <2>2. CASE handler[w].stage = "waiting" /\ handler[w].on = on
    <3>1. handler'[w] = [handler[w] EXCEPT !.stage = "resuming", !.outcome = outcome]
      BY <2>1, <2>2 DEF Resolve
    <3> QED
      BY <1>1, <2>2, <3>1 DEF Handlers
  <2>3. CASE ~(handler[w].stage = "waiting" /\ handler[w].on = on)
    BY <2>1, <2>3 DEF Resolve
  <2> QED
    BY <2>2, <2>3
<1>3. ASSUME NEW inv, Finish(h, inv) PROVE Kept
  BY <1>2, <1>3 DEF Finish
<1>4. ASSUME NEW what, AnswersCall(h, what) PROVE Kept
  BY <1>3, <1>4 DEF AnswersCall
<1>5. ASSUME NEW stage, GoesOn(h, stage) PROVE Kept
  BY <1>1, <1>5 DEF GoesOn
<1>6. CASE RequestApproval(h)
  BY <1>2, <1>6 DEF RequestApproval
<1>7. CASE Resume(h)
  BY <1>1, <1>7 DEF Resume
<1> QED
  BY <1>3, <1>4, <1>5, <1>6, <1>7, StepKinds

LEMMA RunOthers ==
  ASSUME TypeOK, NEW k \in Keys, NEW stage, NEW inv, NEW srv,
         Run(k, stage, inv, srv), NEW w \in Slots
  PROVE  \/ handler'[w] = handler[w]
         \/ /\ handler[w].stage = "idle"
            /\ handler'[w].stage \in {stage, "waiting"}
<1>1. CASE handler' = handler
  BY <1>1
<1>2. CASE inv.completed[k] = NoOne /\ Free # {}
  <2>1. PICK s \in Slots : s = Slot /\ handler[s].stage = "idle"
    BY <1>2, SlotIsFree DEF Free
  <2> DEFINE new == IF inv.active[k] # None
                    THEN NewHandler("waiting", k, inv.active[k])
                    ELSE NewHandler(stage, k, None)
  <2>2. handler' = [handler EXCEPT ![s] = new]
    BY <1>2, <2>1 DEF Run
  <2>3. new.stage \in {stage, "waiting"}
    BY DEF NewHandler
  <2> QED
    BY <2>1, <2>2, <2>3 DEF TypeOK, HandlersTyped
<1> QED
  BY <1>1, <1>2 DEF Run

------------------------------------------------------------------------------
(* A call is run again only if it failed.                                   *)
LEMMA RunSame ==
  ASSUME RunInv, UNCHANGED <<connection, history>>,
         server'.generation = server.generation,
         \A k \in Keys : invocation.completed[k] # NoOne =>
                           invocation'.completed[k] # NoOne,
         \A w \in Slots : Acts(w) =>
           \/ handler'[w] = handler[w]
           \/ \E k \in Keys : /\ k[2] = handler[w].call
                              /\ invocation'.completed[k] # NoOne
  PROVE  RunInv'
<1>1. \A w \in Slots : Acts(w) =>
        \/ Acts(w)' /\ handler'[w].call = handler[w].call
        \/ \E k \in Keys : /\ k[2] = handler[w].call
                           /\ invocation'.completed[k] # NoOne
  BY DEF Acts, IsCurrent, Connected
<1> QED
  BY <1>1 DEF RunInv, Fresh

(* No other handler runs the call that a handler begins to run.             *)
LEMMA StartsAlone ==
  ASSUME TypeOK, InvocationInv, KeyInv, RunInv, Fresh, NEW h \in Slots,
         Works(h), Current(h), ~Acts(h)
  PROVE  history.runs[handler[h].call] <= history.failed[handler[h].call]
<1> DEFINE c == handler[h].call
<1>1. KeyOf(h) \in Keys /\ KeyOf(h)[2] = c /\ c \in Calls
  BY Basics DEF TypeOK, HandlersTyped, Works, Working, KeyOf
<1>2. /\ invocation.active[KeyOf(h)] = h /\ h # None
      /\ invocation.completed[KeyOf(h)] = NoOne
  BY <1>1, Basics DEF InvocationInv, HandlerInv, ActiveInv
<1>3. Known(KeyOf(h))
  BY <1>2 DEF Known
<1>4. ASSUME NEW w \in Slots, Acts(w), handler[w].call = c PROVE FALSE
  <2>1. Works(w) /\ Current(w)
    BY <1>4 DEF Acts, Works, Working, IsCurrent, Current
  <2>2. KeyOf(w) \in Keys /\ KeyOf(w)[2] = c
    BY <1>4, <2>1, Basics DEF TypeOK, HandlersTyped, Works, Working, KeyOf
  <2>3. invocation.active[KeyOf(w)] = w /\ w # None
    BY <2>1, Basics DEF InvocationInv, HandlerInv
  <2>4. KeyOf(w) = KeyOf(h)
    BY <1>1, <1>3, <2>2, <2>3, OneKey DEF Known
  <2> QED
    BY <1>2, <1>4, <2>3, <2>4
<1>5. ASSUME NEW k \in Keys, k[2] = c, invocation.completed[k] # NoOne
      PROVE  FALSE
  <2>1. k = KeyOf(h)
    BY <1>1, <1>3, <1>5, OneKey DEF Known
  <2> QED
    BY <1>2, <1>5, <2>1
<1> QED
  BY <1>1, <1>4, <1>5 DEF RunInv

LEMMA RunStarts ==
  ASSUME TypeOK, SocketInv, InvocationInv, KeyInv, RunInv, NEW h \in Slots,
         Works(h), IsCurrent(h), ~Acts(h),
         NEW stage \in {"acting", "handing"}, GoesOn(h, stage), Starts(h)
  PROVE  RunInv'
<1> DEFINE c == handler[h].call
<1>1. c \in Calls /\ history \in Histories /\ handler \in [Slots -> Handlers]
  BY Basics DEF TypeOK, HandlersTyped, Works, Working, KeyOf
<1>2. history.runs[c] <= history.failed[c] /\ Fresh
  BY StartsAlone DEF IsCurrent, Current, SocketInv
<1>3. /\ history'.runs = [history.runs EXCEPT ![c] = history.runs[c] + 1]
      /\ history'.failed = history.failed
  BY <1>1 DEF Starts, Histories
<1>4. /\ handler'[h].stage = stage /\ handler'[h].call = c
      /\ handler'[h].generation = handler[h].generation
      /\ \A w \in Slots : w # h => handler'[w] = handler[w]
      /\ UNCHANGED <<connection, invocation, server>>
  BY <1>1 DEF GoesOn, Handlers
<1>5. Acts(h)' /\ \A w \in Slots : Acts(w) => Acts(w)'
  BY <1>4 DEF Acts, IsCurrent, Connected
<1>6. history'.runs[c] <= history'.failed[c] + 1
  BY <1>1, <1>2, <1>3 DEF Histories
<1>7. \A d \in Calls : d # c => history'.runs[d] = history.runs[d]
  BY <1>1, <1>3 DEF Histories
<1>8. \A w \in Slots : w # h => handler'[w].call = handler[w].call
  BY <1>4
<1> QED
  BY <1>2, <1>3, <1>4, <1>5, <1>6, <1>7, <1>8 DEF RunInv

LEMMA RunStep ==
  ASSUME TypeOK, SocketInv, InvocationInv, KeyInv, RunInv, NEW h \in Slots, Step(h)
  PROVE  RunInv'
<1>1. connection' = connection /\ server'.generation = server.generation
  BY StepKeeps
<1>2. \A k \in Keys : invocation.completed[k] # NoOne =>
                        invocation'.completed[k] # NoOne
  BY StepRecord
<1>3. \A w \in Slots : w # h /\ Acts(w) => handler'[w] = handler[w]
  BY StepOthers DEF Acts
<1>4. ASSUME ~Acts(h), history' = history PROVE RunInv'
  BY <1>1, <1>2, <1>3, <1>4, RunSame
<1>5. ASSUME NEW what \in Kinds, AnswersCall(h, what), history' = history, Works(h)
      PROVE  RunInv'
  <2> DEFINE answer == Answer(what, h)
  <2>1. /\ KeyOf(h) \in Keys /\ KeyOf(h)[2] = handler[h].call
        /\ handler[h].call \in Calls
    BY <1>5, Basics DEF TypeOK, HandlersTyped, Works, Working, KeyOf
  <2>2. answer \in Answers
    BY <1>5, <2>1
       DEF Answer, Answers, TypeOK, HandlersTyped, Handlers, Histories, Kinds
  <2>3. invocation'.completed[KeyOf(h)] = answer
    BY <1>5, <2>1, <2>2 DEF AnswersCall, Finish, Committed, TypeOK, Invocations
  <2>4. PICK k \in Keys : k[2] = handler[h].call /\ invocation'.completed[k] # NoOne
    BY <2>1, <2>2, <2>3, Basics
  <2> QED
    BY <1>1, <1>2, <1>3, <1>5, <2>4, RunSame
<1>6. ASSUME NEW stage, At(h, stage), stage \in Working
      PROVE  Works(h) /\ IsCurrent(h) /\ handler[h].stage = stage
  BY <1>6 DEF At, Works
<1>7. CASE Abandon(h)
  BY <1>4, <1>7 DEF Abandon, Ends, Acts
<1>8. CASE Fail(h)
  <2>1. CASE Acts(h)
    <3> DEFINE c == handler[h].call
    <3>1. c \in Calls /\ history \in Histories
      BY <2>1, Basics DEF TypeOK, HandlersTyped, Acts, KeyOf
    <3>2. /\ history'.failed = [history.failed EXCEPT ![c] = history.failed[c] + 1]
          /\ history'.runs = history.runs
      BY <1>8, <2>1, <3>1 DEF Fail, Acts, Histories
    <3>3. history'.runs[c] <= history'.failed[c]
      BY <3>1, <3>2 DEF RunInv, Histories
    <3>4. \A d \in Calls : d # c => history'.failed[d] = history.failed[d]
      BY <3>1, <3>2 DEF Histories
    <3>5. \A w \in Slots : Acts(w) /\ handler[w].call # c =>
            Acts(w)' /\ handler'[w].call = handler[w].call
      BY <1>1, <1>3 DEF Acts, IsCurrent, Connected
    <3>6. \A d \in Calls : history'.runs[d] \in Nat /\ history'.failed[d] \in Nat
      BY <3>1, <3>2 DEF Histories
    <3> QED
      BY <1>1, <1>2, <3>1, <3>2, <3>3, <3>4, <3>5, <3>6 DEF RunInv, Fresh
  <2>2. CASE ~Acts(h)
    BY <1>4, <1>8, <2>2 DEF Fail, Acts
  <2> QED
    BY <2>1, <2>2
<1>9. CASE Enabled(h)
  <2>1. Works(h) /\ IsCurrent(h) /\ ~Acts(h)
    BY <1>6, <1>9 DEF Enabled, Working, Acts
  <2>2. CASE history' = history
    BY <1>4, <2>1, <2>2
  <2>3. CASE GoesOn(h, "handing") /\ Starts(h)
    BY <2>1, <2>3, RunStarts
  <2> QED
    BY <1>9, <2>2, <2>3 DEF Enabled
<1>10. CASE Asked(h)
  <2>1. ~Acts(h)
    BY <1>10 DEF Asked, At, Acts
  <2> QED
    BY <1>4, <1>10, <2>1 DEF Asked, RequestApproval
<1>11. CASE RejectionFormatted(h)
  BY <1>4, <1>11 DEF RejectionFormatted, At, Acts
<1>12. CASE Screened(h)
  BY <1>4, <1>12 DEF Screened, RequestApproval, At, Acts
<1>13. CASE InputGuarded(h)
  <2>1. Works(h) /\ IsCurrent(h) /\ ~Acts(h)
    BY <1>6, <1>13 DEF InputGuarded, Working, Acts
  <2>2. CASE history' = history
    BY <1>4, <2>1, <2>2
  <2>3. CASE GoesOn(h, "acting") /\ Starts(h)
    BY <2>1, <2>3, RunStarts
  <2> QED
    BY <1>13, <2>2, <2>3 DEF InputGuarded
<1>14. CASE ToolReturns(h)
  BY <1>5, <1>6, <1>14 DEF ToolReturns, Working, Kinds
<1>15. CASE HandoffEnds(h)
  BY <1>5, <1>6, <1>15 DEF HandoffEnds, Working, Kinds
<1>16. CASE Resume(h)
  BY <1>4, <1>16 DEF Resume, Acts
<1> QED
  BY <1>7, <1>8, <1>9, <1>10, <1>11, <1>12, <1>13, <1>14, <1>15, <1>16 DEF Step

(* The steps of others leave what the tools did, and who runs them.         *)
LEMMA RunQuiet ==
  ASSUME RunInv, UNCHANGED <<invocation, handler>>,
         history'.runs = history.runs, history'.failed = history.failed,
         Fresh' => Fresh, \A w \in Slots : IsCurrent(w) => IsCurrent(w)'
  PROVE  RunInv'
<1>1. \A w \in Slots : Acts(w) => Acts(w)' /\ handler'[w].call = handler[w].call
  BY DEF Acts
<1> QED
  BY <1>1 DEF RunInv

LEMMA RunNext ==
  ASSUME TypeOK, SocketInv, InvocationInv, OwnKeyInv, RunInv, [Next]_vars
  PROVE  RunInv'
<1>1. history \in Histories /\ server \in Servers
      /\ connection.generation \in Nat
  BY DEF TypeOK, Connections
<1>2. CASE Connect \/ Close
  <2>1. history'.runs = history.runs /\ history'.failed = history.failed
    BY <1>1, <1>2 DEF Connect, Close, ResetSession, Histories
  <2>2. server'.generation = server.generation
    BY <1>1, <1>2 DEF Connect, Close, Closed, Servers
  <2>3. connection'.generation = connection.generation + 1
    BY <1>2, NewConnection
  <2>4. ~Fresh'
    BY <1>1, <2>2, <2>3 DEF SocketInv, Fresh, Servers
  <2> QED
    BY <2>1, <2>4 DEF RunInv
<1>3. ASSUME connection' = connection
      PROVE  \A w \in Slots : handler'[w] = handler[w] /\ IsCurrent(w) => IsCurrent(w)'
  BY <1>3 DEF IsCurrent, Connected
<1>4. ASSUME UNCHANGED <<invocation, handler, history, connection>>,
             server'.generation = server.generation
      PROVE  RunInv'
  BY <1>3, <1>4, RunQuiet DEF Fresh
<1>5. ASSUME NEW r, TurnStarted(r) \/ TurnDone(r) PROVE RunInv'
  BY <1>1, <1>4, <1>5 DEF TurnStarted, TurnDone, Servers
<1>6. ASSUME NEW r, NEW source, Delta(r, source) PROVE RunInv'
  BY <1>4, <1>6 DEF Delta
<1>7. ASSUME NEW check, GuardrailPasses(check) \/ GuardrailTrips(check)
      PROVE  RunInv'
  <2>1. /\ history'.runs = history.runs /\ history'.failed = history.failed
        /\ UNCHANGED <<invocation, handler, connection, server>>
    BY <1>1, <1>7 DEF GuardrailPasses, GuardrailTrips, Histories
  <2> QED
    BY <1>3, <2>1, RunQuiet DEF Fresh
<1>8. ASSUME NEW k \in Keys, NEW stage \in {"enabling", "asking"}, NEW inv, NEW srv,
             Run(k, stage, inv, srv), invocation'.completed = invocation.completed,
             connection' = connection, server'.generation = server.generation,
             history'.runs = history.runs,
             history'.failed = history.failed
      PROVE  RunInv'
  <2>1. \A w \in Slots : Acts(w) => handler'[w] = handler[w]
    BY <1>8, RunOthers DEF Acts
  <2>2. \A w \in Slots : Acts(w) => Acts(w)' /\ handler'[w].call = handler[w].call
    BY <1>3, <1>8, <2>1 DEF Acts
  <2> QED
    BY <1>8, <2>2 DEF RunInv, Fresh
<1>9. ASSUME NEW c \in FunctionCalls, NEW r \in Responses, FunctionCall(c, r)
      PROVE  RunInv'
  <2>1. PICK k \in Keys : k = <<Captured(r), c>>
    <3>1. Captured(r) \in Agents /\ c \in Calls
      BY Basics DEF Captured, TypeOK
    <3> QED
      BY <3>1 DEF Keys
  <2>2. /\ history'.runs = history.runs /\ history'.failed = history.failed
        /\ connection' = connection
        /\ server'.generation = server.generation
        /\ invocation'.completed = invocation.completed
    BY <1>1, <1>9, CallRecord, EventKeeps DEF FunctionCall, Histories
  <2>3. \/ UNCHANGED <<invocation, handler>>
        \/ \E srv : Run(k, "enabling", invocation, srv)
    BY <1>9, <2>1 DEF FunctionCall
  <2> QED
    BY <1>3, <1>8, <2>2, <2>3, RunQuiet DEF Fresh
<1>10. ASSUME NEW item \in issued, NEW verdict \in {"yes", "no"},
              DecideCall(item, verdict)
       PROVE  RunInv'
  <2>1. /\ item.key \in Keys /\ invocation'.completed = invocation.completed
        /\ server'.generation = server.generation
    BY <1>10, DecideRecord, EventKeeps
  <2>2. UNCHANGED <<connection, history>>
        /\ \E inv : Run(item.key, "asking", inv, server)
    BY <1>10 DEF DecideCall
  <2> QED
    BY <1>8, <2>1, <2>2
<1>11. ASSUME NEW c, McpApprovalRequest(c) PROVE RunInv'
  BY <1>1, <1>4, <1>11 DEF McpApprovalRequest, Servers
<1>12. ASSUME NEW item, NEW verdict, DecideMcp(item, verdict) PROVE RunInv'
  BY <1>1, <1>4, <1>12 DEF DecideMcp, Servers
<1>13. CASE SocketStep
  <2>1. /\ UNCHANGED <<invocation, handler>>
        /\ connection'.generation = connection.generation
        /\ \A w \in Slots : IsCurrent(w) => IsCurrent(w)'
    BY <1>13, SocketStepKeeps DEF SessionKept, IsCurrent
  <2>2. CASE SocketOpens
    <3>1. \A c \in Calls : history'.runs[c] = 0 /\ history'.failed[c] = 0
      BY <1>1, <2>2 DEF SocketOpens, Histories
    <3> QED
      BY <3>1 DEF RunInv
  <2>3. CASE ~SocketOpens
    BY <1>13, <2>1, <2>3, SocketStepKeeps, RunQuiet DEF Fresh
  <2> QED
    BY <2>2, <2>3
<1>14. ASSUME NEW h \in Slots, Step(h) PROVE RunInv'
  BY <1>14, RunStep DEF OwnKeyInv
<1>15. CASE UNCHANGED vars
  BY <1>4, <1>15 DEF vars
<1> QED
  BY <1>2, <1>5, <1>6, <1>7, <1>9, <1>10, <1>11, <1>12, <1>13, <1>14, <1>15
     DEF Next, Event, SocketStep

(* A run of a call that has not failed is going on, or is recorded.         *)
THEOREM RunsCounted == Spec => []RunInv
<1>1. Init => RunInv
  BY DEF Init, RunInv, NoRuns
<1>2. RunInv /\ OwnKeyInv /\ SocketInv /\ InvocationInv /\ TypeOK
      /\ [Next]_vars => RunInv'
  BY RunNext
<1> QED
  BY <1>1, <1>2, InvocationCorrect, SocketsAreOwn, KeysAreOwn, TypeCorrect, PTL
     DEF Spec

(* A call is run once on a connection, and again only if it failed, by the  *)
(* agent that its response was asked of (CallsRunOnce).                     *)
THEOREM RunsOnce == Spec => []CallsRunOnce
<1>1. RunInv /\ OwnKeyInv => CallsRunOnce
  BY DEF RunInv, OwnKeyInv, KeyInv, CallsRunOnce
<1> QED
  BY <1>1, RunsCounted, KeysAreOwn, PTL

------------------------------------------------------------------------------
(* A handler at work has a call that belongs to its agent.                  *)
LEMMA WorkIsOwn ==
  ASSUME TypeOK, InvocationInv, KeyInv, NEW h \in Slots, Works(h), IsCurrent(h)
  PROVE  KeyOf(h) \in Keys /\ KeyOf(h)[2] = handler[h].call /\ Own(KeyOf(h))
<1>1. KeyOf(h) \in Keys /\ KeyOf(h)[2] = handler[h].call
  BY Basics DEF TypeOK, HandlersTyped, Works, Working, KeyOf
<1>2. invocation.active[KeyOf(h)] = h /\ h # None
  BY <1>1, Basics DEF InvocationInv, HandlerInv, ActiveInv, IsCurrent, Current
<1> QED
  BY <1>1, <1>2 DEF KeyInv, Known

(* An approval that is asked for is of a call that nobody decided on.       *)
LEMMA DecisionSame ==
  ASSUME DecisionInv, UNCHANGED <<issued, approval, handler, invocation>>,
         connection'.generation = connection.generation, Connected => Connected',
         history'.runs = history.runs, server'.callOf = server.callOf,
         \A k \in Keys : Own(k)' <=> Own(k), issued \subseteq [key : Keys,
           state : {"pending", "decided"}, generation : Nat]
  PROVE  DecisionInv'
<1>1. \A i \in issued : i.key \in Keys
  OBVIOUS
<1> QED
  BY <1>1 DEF DecisionInv, ItemInv, StageInv, RunApproved, Current, NeedsApproval,
              Approval, KeyOf

LEMMA DecisionStep ==
  ASSUME TypeOK, InvocationInv, KeyInv, DecisionInv, NEW h \in Slots, Step(h),
         UNCHANGED options
  PROVE  DecisionInv'
<1>1. /\ connection' = connection /\ approval' = approval
      /\ handler \in [Slots -> Handlers] /\ history \in Histories
      /\ connection.generation \in Nat
      /\ server'.callOf = server.callOf /\ server'.made = server.made
  BY StepKeeps DEF TypeOK, HandlersTyped, Connections
<1>0. /\ \A k : Own(k)' <=> Own(k)
      /\ Connected' = Connected
  BY <1>1 DEF Own, Connected
<1>2. \A k \in Keys :
        /\ k \in invocation.pending => k \in invocation'.pending
        /\ k \in invocation'.pending =>
             \/ k \in invocation.pending
             \/ k = KeyOf(h) /\ RequestApproval(h)
  BY StepRecord
<1>3. invocation.pending \subseteq Keys /\ invocation'.pending \subseteq Keys
  BY StepTypes DEF TypeOK, Invocations
<1>4. ASSUME NEW w \in Slots, w # h PROVE StageInv(w)'
  <2>1. CASE handler'[w] = handler[w]
    BY <1>1, <2>1 DEF DecisionInv, StageInv, Current, NeedsApproval, Approval, KeyOf
  <2>2. CASE handler'[w].stage = "resuming"
    BY <2>2 DEF StageInv
  <2> QED
    BY <1>4, <2>1, <2>2, StepOthers
<1>5. \A i \in issued : ItemInv(i)'
  BY <1>0, <1>1, <1>2, <1>3 DEF DecisionInv, ItemInv, TypeOK
<1>6. ASSUME issued' = issued, invocation'.pending = invocation.pending,
             StageInv(h)', RunApproved'
      PROVE  DecisionInv'
  BY <1>1, <1>4, <1>5, <1>6 DEF DecisionInv
<1>7. ASSUME handler'[h] = Idle, issued' = issued,
             invocation'.pending = invocation.pending,
             history'.runs = history.runs
      PROVE  DecisionInv'
  <2>1. StageInv(h)'
    BY <1>7 DEF StageInv, Idle
  <2>2. RunApproved'
    BY <1>0, <1>1, <1>7 DEF DecisionInv, RunApproved
  <2> QED
    BY <1>6, <1>7, <2>1, <2>2
<1>8. ASSUME NEW inv, Finish(h, inv) PROVE handler'[h] = Idle
  BY <1>8 DEF Finish, Resolve
<1>9. ASSUME NEW stage, GoesOn(h, stage),
             stage = "screening" => NeedsApproval(h) /\ Approval(h) = "none",
             stage \in {"guarding", "acting"} /\ NeedsApproval(h) =>
               Approval(h) = "yes",
             stage = "handing" => ~NeedsApproval(h)
      PROVE  StageInv(h)' /\ UNCHANGED <<issued, invocation>>
  <2>1. /\ handler'[h].stage = stage /\ handler'[h].call = handler[h].call
        /\ KeyOf(h)' = KeyOf(h)
        /\ UNCHANGED <<issued, invocation>>
    BY <1>1, <1>9 DEF GoesOn, Handlers, KeyOf
  <2> QED
    BY <1>1, <1>9, <2>1 DEF StageInv, NeedsApproval, Approval
<1>10. CASE Abandon(h) \/ Fail(h)
  <2>1. invocation'.pending = invocation.pending
    BY <1>10 DEF Abandon, Fail, Ends, Finish, TypeOK, Invocations
  <2>2. history'.runs = history.runs /\ issued' = issued
    BY <1>1, <1>10 DEF Abandon, Fail, Ends, Histories
  <2> QED
    BY <1>7, <1>8, <1>10, <2>1, <2>2 DEF Abandon, Fail, Ends
<1>11. ASSUME NEW what, AnswersCall(h, what), history' = history
       PROVE  DecisionInv'
  <2>1. invocation'.pending = invocation.pending
    BY <1>11 DEF AnswersCall, Finish, Committed, TypeOK, Invocations
  <2> QED
    BY <1>7, <1>8, <1>11, <2>1 DEF AnswersCall
<1>12. ASSUME NEW stage, GoesOn(h, stage), StageInv(h)', history' = history
       PROVE  DecisionInv'
  <2>1. UNCHANGED <<issued, invocation>>
    BY <1>12 DEF GoesOn
  <2>2. RunApproved'
    BY <1>0, <1>1, <1>12 DEF DecisionInv, RunApproved
  <2> QED
    BY <1>6, <1>12, <2>1, <2>2
<1>13. ASSUME NEW stage, GoesOn(h, stage), Starts(h), StageInv(h)', Works(h),
              IsCurrent(h), NeedsApproval(h) => Approval(h) = "yes"
       PROVE  DecisionInv'
  <2>1. history'.runs = [history.runs EXCEPT ![handler[h].call] = @ + 1]
    BY <1>1, <1>13 DEF Starts, Histories
  <2>4. KeyOf(h) \in Keys /\ KeyOf(h)[2] = handler[h].call /\ Own(KeyOf(h))
    BY <1>13, WorkIsOwn
  <2>5. \A k \in Keys : k[2] = handler[h].call /\ Own(k) => k = KeyOf(h)
    BY <2>4 DEF Own, Keys
  <2>6. \A c \in Calls : c # handler[h].call => history'.runs[c] = history.runs[c]
    BY <1>1, <2>1 DEF Histories
  <2>7. ASSUME NEW k \in Keys, k[2] \in ApprovedTools, history'.runs[k[2]] > 0
        PROVE  /\ server.callOf[k[2]] # NoOne
               /\ Own(k) => approval[k] = "yes"
    <3>1. CASE k[2] = handler[h].call
      BY <1>13, <2>4, <2>5, <2>7, <3>1 DEF Own, NeedsApproval, Approval
    <3>2. CASE k[2] # handler[h].call
      <4>1. k[2] \in Calls
        BY <2>7 DEF Keys
      <4> QED
        BY <2>6, <2>7, <3>2, <4>1 DEF DecisionInv, RunApproved
    <3> QED
      BY <3>1, <3>2
  <2>2. RunApproved'
    BY <1>0, <1>1, <2>7 DEF RunApproved
  <2>3. UNCHANGED <<issued, invocation>>
    BY <1>13 DEF GoesOn
  <2> QED
    BY <1>6, <1>13, <2>2, <2>3
<1>14. ASSUME RequestApproval(h), Works(h), IsCurrent(h), NeedsApproval(h),
              Approval(h) = "none"
       PROVE  DecisionInv'
  <2>1. PICK item : /\ item = [key |-> KeyOf(h), state |-> "pending",
                                generation |-> connection.generation]
                    /\ issued' = issued \cup {item} /\ history' = history
    BY <1>14 DEF RequestApproval
  <2>2. invocation'.pending = invocation.pending \cup {KeyOf(h)}
    BY <1>14 DEF RequestApproval, TypeOK, Invocations
  <2>3. handler'[h] = Idle
    BY <1>14 DEF RequestApproval, Resolve
  <2>4. StageInv(h)'
    BY <2>3 DEF StageInv, Idle
  <2>8. Own(KeyOf(h)) /\ Connected
    BY <1>14, WorkIsOwn DEF IsCurrent
  <2>5. ItemInv(item)'
    BY <1>0, <1>1, <2>1, <2>2, <2>8 DEF ItemInv
  <2>6. \A k \in invocation'.pending :
          k[2] \in ApprovedTools /\ approval[k] = "none"
    BY <1>14, <2>2 DEF DecisionInv, NeedsApproval, Approval, KeyOf
  <2>9. RunApproved'
    BY <1>0, <1>1, <2>1 DEF DecisionInv, RunApproved
  <2>7. \A i \in issued' : ItemInv(i)'
    BY <1>5, <2>1, <2>5
  <2> QED
    BY <1>1, <1>4, <2>1, <2>4, <2>6, <2>7, <2>9 DEF DecisionInv
<1>15. CASE Enabled(h)
  <2>1. GoesOn(h, "asking") => StageInv(h)'
    BY <1>9
  <2>2. GoesOn(h, "handing") /\ handler[h].call \in Handoffs =>
          StageInv(h)' /\ ~NeedsApproval(h)
    BY <1>9, Basics DEF NeedsApproval
  <2>3. Works(h) /\ IsCurrent(h)
    BY <1>15 DEF Enabled, At, Works, Working
  <2> QED
    BY <1>11, <1>12, <1>13, <1>15, <2>1, <2>2, <2>3 DEF Enabled
<1>16. CASE Asked(h)
  <2>1. GoesOn(h, "rejecting") => StageInv(h)'
    BY <1>9
  <2>2. GoesOn(h, "guarding") /\ (~NeedsApproval(h) \/ Approval(h) = "yes") =>
          StageInv(h)'
    BY <1>9
  <2>3. GoesOn(h, "screening") /\ NeedsApproval(h) /\ Approval(h) = "none" =>
          StageInv(h)'
    BY <1>9
  <2>4. Works(h) /\ IsCurrent(h)
    BY <1>16 DEF Asked, At, Works, Working
  <2> QED
    BY <1>12, <1>14, <1>16, <2>1, <2>2, <2>3, <2>4 DEF Asked
<1>17. CASE RejectionFormatted(h)
  BY <1>11, <1>17 DEF RejectionFormatted
<1>18. CASE Screened(h)
  <2>1. Works(h) /\ Current(h) /\ IsCurrent(h) /\ handler[h].stage = "screening"
    BY <1>18 DEF Screened, At, Works, Working, IsCurrent, Current
  <2>2. NeedsApproval(h) /\ Approval(h) = "none"
    BY <2>1 DEF DecisionInv, StageInv
  <2> QED
    BY <1>11, <1>14, <1>18, <2>1, <2>2 DEF Screened
<1>19. CASE InputGuarded(h)
  <2>1. /\ Works(h) /\ Current(h) /\ IsCurrent(h)
        /\ handler[h].stage = "guarding"
    BY <1>19 DEF InputGuarded, At, IsCurrent, Current, Works, Working
  <2>2. NeedsApproval(h) => Approval(h) = "yes"
    BY <2>1 DEF DecisionInv, StageInv
  <2>3. GoesOn(h, "acting") => StageInv(h)'
    BY <1>9, <2>2
  <2> QED
    BY <1>11, <1>13, <1>19, <2>1, <2>2, <2>3 DEF InputGuarded
<1>20. CASE ToolReturns(h) \/ HandoffEnds(h)
  BY <1>11, <1>20 DEF ToolReturns, HandoffEnds
<1>21. CASE Resume(h)
  <2>1. invocation' = invocation
    BY <1>21, ResumeKeepsRecord
  <2>2. handler'[h] = Idle /\ UNCHANGED <<issued, history>>
    BY <1>1, <1>21 DEF Resume
  <2> QED
    BY <1>7, <2>1, <2>2
<1> QED
  BY <1>10, <1>15, <1>16, <1>17, <1>18, <1>19, <1>20, <1>21 DEF Step

(* A decision takes the call out of those that wait for one.                *)
LEMMA DecisionDecide ==
  ASSUME TypeOK, InvocationInv, KeyInv, DecisionInv, NEW item \in issued,
         NEW verdict \in {"yes", "no"}, DecideCall(item, verdict)
  PROVE  DecisionInv'
<1> DEFINE k == item.key
<1>1. /\ k \in Keys /\ k \in invocation.pending
      /\ invocation'.pending = invocation.pending \ {k}
  BY DecideRecord
<1>2. /\ k[2] \in ApprovedTools /\ Decidable(item)
      /\ issued' = Decided(item)
      /\ approval' = [approval EXCEPT ![k] = verdict]
      /\ UNCHANGED <<connection, history>>
      /\ \E inv : Run(k, "asking", inv, server)
  BY DEF DecideCall
<1>3. /\ approval \in [Keys -> {"none", "yes", "no"}] /\ k[2] \in Calls
      /\ approval'[k] = verdict
      /\ \A j \in Keys : j # k => approval'[j] = approval[j]
      /\ invocation.pending \subseteq Keys
  BY <1>1, <1>2 DEF TypeOK, Keys, Invocations
<1>4. Own(k) /\ Connected
  BY <1>1 DEF Known, KeyInv
<1>5. /\ \A j : Own(j)' <=> Own(j)
      /\ server'.callOf = server.callOf
      /\ Connected' = Connected
  BY <1>2, RunKeeps DEF Own, TypeOK, Connected
<1>6. \A j \in invocation'.pending : /\ j[2] \in ApprovedTools
                                     /\ approval'[j] = "none"
  BY <1>1, <1>3 DEF DecisionInv
<1>7. RunApproved'
  <2>1. ~(history.runs[k[2]] > 0)
    BY <1>1, <1>2, <1>4 DEF DecisionInv, RunApproved
  <2> QED
    BY <1>2, <1>3, <1>5, <2>1 DEF DecisionInv, RunApproved
<1>8. ASSUME NEW w \in Slots PROVE StageInv(w)'
  <2>1. CASE handler'[w].stage \in {"asking", "waiting"}
    BY <2>1 DEF StageInv
  <2>2. CASE handler'[w] = handler[w] /\ ~(Works(w) /\ Current(w))
    BY <1>2, <2>2 DEF StageInv, Works, Working, Current
  <2>3. CASE handler'[w] = handler[w] /\ Works(w) /\ Current(w)
    <3>1. KeyOf(w) \in Keys /\ KeyOf(w)[2] = handler[w].call
          /\ handler[w].call \in Calls
      BY <2>3, Basics DEF TypeOK, HandlersTyped, Works, Working, KeyOf
    <3>2. /\ invocation.active[KeyOf(w)] = w /\ w # None
          /\ KeyOf(w) \notin invocation.pending
      BY <2>3, <3>1, Basics DEF InvocationInv, HandlerInv, ActiveInv
    <3>3. approval'[KeyOf(w)] = approval[KeyOf(w)]
      BY <1>1, <1>3, <3>1, <3>2
    <3> QED
      BY <1>2, <2>3, <3>3
         DEF DecisionInv, StageInv, Current, NeedsApproval, Approval, KeyOf
  <2>4. \/ handler'[w] = handler[w]
        \/ handler'[w].stage \in {"asking", "waiting"}
    BY <1>1, <1>2, RunOthers
  <2> QED
    BY <2>1, <2>2, <2>3, <2>4
<1>9. ASSUME NEW i \in issued' PROVE ItemInv(i)'
  <2>1. /\ item.state = "pending" /\ item.generation = connection.generation
        /\ item \in [key : Keys, state : {"pending", "decided"}, generation : Nat]
    BY <1>2 DEF Decidable, TypeOK
  <2>2. CASE i = [item EXCEPT !.state = "decided"]
    BY <1>2, <1>3, <1>4, <1>5, <2>1, <2>2 DEF ItemInv, DecisionInv
  <2>3. CASE i \in issued /\ i # item
    <3>1. /\ i \in [key : Keys, state : {"pending", "decided"}, generation : Nat]
          /\ i.key[2] \in Calls
      BY <2>3 DEF TypeOK, Keys
    <3>2. i.state = "pending" /\ i.generation = connection.generation => i.key # k
      BY <2>1, <2>3, <3>1
    <3>3. approval[i.key] # "none" => approval'[i.key] # "none"
      BY <1>3, <3>1
    <3> QED
      BY <1>1, <1>2, <1>5, <2>3, <3>2, <3>3 DEF DecisionInv, ItemInv
  <2> QED
    BY <1>2, <1>9, <2>2, <2>3 DEF Decided
<1> QED
  BY <1>6, <1>7, <1>8, <1>9 DEF DecisionInv

(* A call belongs to the response that it was first delivered of.           *)
LEMMA CallOwns ==
  ASSUME TypeOK, NEW c \in FunctionCalls, NEW r \in Responses, FunctionCall(c, r)
  PROVE  /\ server'.made = server.made
         /\ server'.callOf = [server.callOf EXCEPT ![c] = r]
         /\ server.callOf[c] \in {NoOne, r} /\ r # NoOne
<1> DEFINE srv == [server EXCEPT !.callOf[c] = r, !.events[c] = @ + 1]
<1>1. PICK k : k = <<Captured(r), c>>
  OBVIOUS
<1>2. server \in Servers /\ c \in Calls /\ server.events[c] + 1 \in Nat
  BY Basics DEF TypeOK, Servers
<1>3. /\ srv \in Servers /\ srv.made = server.made
      /\ srv.callOf = [server.callOf EXCEPT ![c] = r]
  BY <1>2 DEF Servers
<1>4. server' = srv \/ Run(k, "enabling", invocation, srv)
  BY <1>1 DEF FunctionCall
<1> HIDE DEF srv
<1>5. server'.made = srv.made /\ server'.callOf = srv.callOf
  BY <1>3, <1>4, RunKeeps
<1> QED
  BY <1>3, <1>5, Basics DEF FunctionCall

LEMMA DecisionNext ==
  ASSUME TypeOK, SocketInv, InvocationInv, OwnKeyInv, DecisionInv, [Next]_vars
  PROVE  DecisionInv'
<1>1. /\ history \in Histories /\ connection.generation \in Nat
      /\ handler \in [Slots -> Handlers]
      /\ ApprovedTools \cap McpRequests = {} /\ ApprovedTools \subseteq Calls
      /\ server \in Servers
      /\ issued \subseteq [key : Keys, state : {"pending", "decided"},
                           generation : Nat]
  BY Basics DEF TypeOK, HandlersTyped, Connections
<1>0. ASSUME server'.callOf = server.callOf, server'.made = server.made
      PROVE  \A k : Own(k)' <=> Own(k)
  BY <1>0 DEF Own
<1>2. CASE Connect \/ Close
  <2>1. /\ connection'.generation = connection.generation + 1
        /\ UNCHANGED <<issued, approval>>
        /\ InvocationInv'
    BY <1>2, NewConnection, InvocationNext DEF Connect, Close, ResetSession
  <2>2. /\ history'.runs = history.runs /\ invocation' = NoInvocation
    BY <1>1, <1>2
       DEF Connect, Close, ResetSession, ResetToolInvocationState, Histories
  <2>3. \A i \in issued : /\ i.generation <= connection.generation
                          /\ i.generation \in Nat
    BY DEF DecisionInv, ItemInv, TypeOK
  <2>4. \A i \in issued' : ItemInv(i)'
    BY <1>1, <2>1, <2>3 DEF ItemInv
  <2>6. /\ server'.callOf = server.callOf /\ server'.made = server.made
    BY <1>1, <1>2 DEF Connect, Close, Closed, Servers
  <2>7. RunApproved'
    BY <1>0, <2>1, <2>2, <2>6 DEF DecisionInv, RunApproved
  <2>5. ASSUME NEW w \in Slots PROVE StageInv(w)'
    <3>1. handler'[w].generation = handler[w].generation
      <4>1. \/ handler'[w] = handler[w]
            \/ handler'[w] =
                 [handler[w] EXCEPT !.stage = "resuming", !.outcome = NoOne]
        BY <1>2 DEF Connect, Close, ResetSession, ResetToolInvocationState
      <4> QED
        BY <1>1, <4>1 DEF Handlers
    <3>2. handler[w].generation <= connection.generation
          /\ handler[w].generation \in Nat
      BY <1>1 DEF InvocationInv, HandlerInv, Handlers
    <3> QED
      BY <1>1, <2>1, <3>1, <3>2 DEF StageInv, Current
  <2> QED
    BY <2>1, <2>2, <2>4, <2>5, <2>7 DEF DecisionInv, NoInvocation
<1>3. ASSUME NEW r, TurnStarted(r) \/ TurnDone(r) PROVE DecisionInv'
  <2>1. /\ server'.callOf = server.callOf
        /\ \/ server'.made = server.made
           \/ /\ server.response[r] = "none"
              /\ server'.made = [server.made EXCEPT ![r] = agent]
    BY <1>1, <1>3 DEF TurnStarted, TurnDone, Servers
  <2>2. \A k \in Keys : Own(k)' <=> Own(k)
    <3>1. \A k \in Keys : server.callOf[k[2]] # NoOne =>
            /\ server.callOf[k[2]] \in Responses
            /\ server.response[server.callOf[k[2]]] # "none"
      BY <1>1 DEF Servers, OwnKeyInv, KeyInv, Keys
    <3>2. server.made \in [Responses -> Agents \cup {NoOne}]
      BY <1>1 DEF Servers
    <3> QED
      BY <2>1, <3>1, <3>2 DEF Own
  <2> QED
    BY <1>1, <1>3, <2>1, <2>2, DecisionSame DEF TurnStarted, TurnDone, Connected
<1>4. ASSUME NEW r, NEW source, Delta(r, source) PROVE DecisionInv'
  BY <1>0, <1>1, <1>4, DecisionSame DEF Delta, Connected
<1>5. ASSUME NEW check, GuardrailPasses(check) \/ GuardrailTrips(check)
      PROVE  DecisionInv'
  <2>1. history'.runs = history.runs
    BY <1>1, <1>5 DEF GuardrailPasses, GuardrailTrips, Histories
  <2> QED
    BY <1>0, <1>1, <1>5, <2>1, DecisionSame
       DEF GuardrailPasses, GuardrailTrips, Connected
<1>6. ASSUME NEW c \in FunctionCalls, NEW r \in Responses, FunctionCall(c, r)
      PROVE  DecisionInv'
  <2>1. PICK k \in Keys : k = <<Captured(r), c>>
    <3>1. Captured(r) \in Agents /\ c \in Calls
      BY Basics DEF Captured, TypeOK
    <3> QED
      BY <3>1 DEF Keys
  <2>2. /\ UNCHANGED <<issued, approval, connection>>
        /\ history'.runs = history.runs
        /\ invocation'.pending = invocation.pending
    BY <1>1, <1>6, CallRecord DEF FunctionCall, Histories
  <2>3. \/ handler' = handler
        \/ \E srv : Run(k, "enabling", invocation, srv)
    BY <1>6, <2>1 DEF FunctionCall
  <2>4. \A w \in Slots : \/ handler'[w] = handler[w]
                         \/ handler'[w].stage \in {"enabling", "waiting"}
    BY <2>3, RunOthers
  <2>5. \A w \in Slots : StageInv(w)'
    BY <2>2, <2>4
       DEF DecisionInv, StageInv, Current, NeedsApproval, Approval, KeyOf
  <2>7. /\ server'.made = server.made
        /\ server'.callOf = [server.callOf EXCEPT ![c] = r]
        /\ server.callOf[c] \in {NoOne, r} /\ r # NoOne /\ c \in Calls
    BY <1>1, <1>6, CallOwns, Basics
  <2>8. /\ \A d \in Calls :
             /\ server.callOf[d] # NoOne => server'.callOf[d] = server.callOf[d]
             /\ d # c => server'.callOf[d] = server.callOf[d]
        /\ server'.callOf[c] # NoOne
    BY <1>1, <2>7 DEF Servers
  <2>9. \A j \in Keys : server.callOf[j[2]] # NoOne => (Own(j)' <=> Own(j))
    BY <2>7, <2>8 DEF Own, Keys
  <2>6. \A i \in issued' : ItemInv(i)'
    BY <1>1, <2>2, <2>9 DEF DecisionInv, ItemInv, Own, Connected
  <2>10. RunApproved'
    <3>1. ASSUME NEW j \in Keys, j[2] \in ApprovedTools, history'.runs[j[2]] > 0
          PROVE  /\ server'.callOf[j[2]] # NoOne
                 /\ Own(j)' => approval'[j] = "yes"
      <4>1. j[2] \in Calls
        BY DEF Keys
      <4>2. server.callOf[j[2]] # NoOne /\ (Own(j) => approval[j] = "yes")
        BY <2>2, <3>1 DEF DecisionInv, RunApproved
      <4>3. server'.callOf[j[2]] # NoOne
        BY <2>8, <4>1, <4>2
      <4>4. Own(j)' <=> Own(j)
        BY <2>9, <4>2
      <4> QED
        BY <2>2, <4>2, <4>3, <4>4
    <3> QED
      BY <3>1 DEF RunApproved
  <2> QED
    BY <2>2, <2>5, <2>6, <2>10 DEF DecisionInv
<1>7. ASSUME NEW item \in issued, NEW verdict \in {"yes", "no"},
             DecideCall(item, verdict)
      PROVE  DecisionInv'
  BY <1>7, DecisionDecide DEF OwnKeyInv
<1>8. ASSUME NEW c \in McpRequests, McpApprovalRequest(c) PROVE DecisionInv'
  <2>1. /\ UNCHANGED <<approval, connection, history, invocation, handler>>
        /\ server'.callOf = server.callOf /\ server'.made = server.made
        /\ Connected /\ Connected'
    BY <1>1, <1>8 DEF McpApprovalRequest, Servers, Connected
  <2>2. ASSUME NEW i \in issued' PROVE ItemInv(i)'
    <3>1. CASE i \in issued
      BY <1>0, <2>1, <3>1 DEF DecisionInv, ItemInv
    <3>2. CASE i.key = <<agent, c>> /\ i.generation = connection.generation
      BY <1>1, <2>1, <3>2 DEF ItemInv
    <3> QED
      BY <1>8, <2>2, <3>1, <3>2 DEF McpApprovalRequest
  <2> QED
    BY <1>0, <2>1, <2>2
       DEF DecisionInv, RunApproved, StageInv, Current, NeedsApproval, Approval, KeyOf
<1>9. ASSUME NEW item \in issued, NEW verdict, DecideMcp(item, verdict)
      PROVE  DecisionInv'
  <2>1. /\ UNCHANGED <<connection, history, invocation, handler>>
        /\ item.key[2] \in McpRequests
        /\ item.generation = connection.generation
        /\ server'.callOf = server.callOf /\ server'.made = server.made
        /\ Connected /\ Connected'
    BY <1>1, <1>9 DEF DecideMcp, Decidable, Servers, Connected
  <2>2. \A k \in Keys : k[2] \in ApprovedTools => approval'[k] = approval[k]
    BY <1>1, <1>9, <2>1 DEF DecideMcp
  <2>3. ASSUME NEW i \in issued' PROVE ItemInv(i)'
    <3>1. CASE i \in issued
      BY <1>0, <1>1, <2>1, <2>2, <3>1 DEF DecisionInv, ItemInv
    <3>2. CASE i = [item EXCEPT !.state = "decided"]
      <4>1. i.key = item.key /\ i.generation = item.generation
        BY <3>2 DEF TypeOK
      <4> QED
        BY <1>1, <2>1, <4>1 DEF ItemInv
    <3> QED
      BY <1>9, <2>3, <3>1, <3>2 DEF DecideMcp, Decided
  <2>4. ASSUME NEW w \in Slots PROVE StageInv(w)'
    <3>1. handler[w].stage # "idle" => KeyOf(w) \in Keys
      BY Basics DEF TypeOK, HandlersTyped
    <3>2. KeyOf(w)[2] = handler[w].call
      BY DEF KeyOf
    <3> QED
      BY <2>1, <2>2, <3>1, <3>2
         DEF DecisionInv, StageInv, Current, NeedsApproval, Approval, KeyOf
  <2>5. RunApproved'
    BY <1>0, <2>1, <2>2 DEF DecisionInv, RunApproved
  <2>6. invocation.pending \subseteq Keys
    BY DEF TypeOK, Invocations
  <2> QED
    BY <2>1, <2>2, <2>3, <2>4, <2>5, <2>6 DEF DecisionInv
<1>10. CASE SocketStep
  <2>1. /\ UNCHANGED <<issued, approval, handler, invocation>>
        /\ connection'.generation = connection.generation
        /\ Connected => Connected'
    BY <1>10, SocketStepKeeps DEF SessionKept
  <2>2. CASE ~SocketOpens
    <3>1. server'.callOf = server.callOf /\ server'.made = server.made
      BY <1>1, <1>10, <2>2
         DEF SocketStep, ConnectTransport, ConnectEnds, SocketCloses, Closed, Servers
    <3>2. history' = history
      BY <1>10, <2>2, SocketStepKeeps
    <3> QED
      BY <1>0, <1>1, <2>1, <3>1, <3>2, DecisionSame
  <2>3. CASE SocketOpens
    <3>1. \A c \in Calls : history'.runs[c] = 0
      BY <1>1, <2>3 DEF SocketOpens, Histories
    <3>2. ~Connected
      BY <2>3 DEF SocketOpens, SocketInv
    <3>3. \A i \in issued' : ItemInv(i)'
      BY <2>1, <3>2 DEF DecisionInv, ItemInv
    <3>4. \A h \in Slots : StageInv(h)'
      BY <2>1 DEF DecisionInv, StageInv, Current, NeedsApproval, Approval, KeyOf
    <3>5. RunApproved'
      BY <3>1 DEF RunApproved, Keys
    <3> QED
      BY <1>1, <2>1, <3>3, <3>4, <3>5 DEF DecisionInv
  <2> QED
    BY <2>2, <2>3
<1>11. ASSUME NEW h \in Slots, Step(h), UNCHANGED options PROVE DecisionInv'
  BY <1>11, DecisionStep DEF OwnKeyInv
<1>12. CASE UNCHANGED vars
  BY <1>0, <1>1, <1>12, DecisionSame DEF vars, Connected
<1> QED
  BY <1>2, <1>3, <1>4, <1>5, <1>6, <1>7, <1>8, <1>9, <1>10, <1>11, <1>12
     DEF Next, Event, SocketStep

------------------------------------------------------------------------------
(* An MCP request is answered once by each agent that it was put to.        *)
LEMMA VerdictSame ==
  ASSUME VerdictInv, UNCHANGED issued, server'.verdicts = server.verdicts,
         server'.generation = server.generation
  PROVE  VerdictInv'
BY DEF VerdictInv

(* An item of a call that is not an MCP request may come or change.         *)
LEMMA VerdictOther ==
  ASSUME VerdictInv, server'.verdicts = server.verdicts,
         server'.generation = server.generation,
         \A i : i.key[2] \in McpRequests => (i \in issued' <=> i \in issued)
  PROVE  VerdictInv'
<1>1. ASSUME NEW v \in server.verdicts, NEW state
      PROVE  [key |-> v.key, state |-> state,
              generation |-> server.generation] \in issued' <=>
             [key |-> v.key, state |-> state,
              generation |-> server.generation] \in issued
  BY DEF VerdictInv
<1> QED
  BY <1>1 DEF VerdictInv

LEMMA VerdictDecide ==
  ASSUME TypeOK, SocketInv, VerdictInv, NEW item \in issued,
         NEW verdict \in {"yes", "no"}, DecideMcp(item, verdict)
  PROVE  VerdictInv'
<1> DEFINE decided == [item EXCEPT !.state = "decided"]
           new     == [key |-> item.key, verdict |-> verdict]
<1>1. /\ item.state = "pending" /\ item.generation = connection.generation
      /\ item \in [key : Keys, state : {"pending", "decided"}, generation : Nat]
      /\ item.key[2] \in McpRequests
      /\ server.generation = connection.generation
      /\ server \in Servers
  BY DEF DecideMcp, Decidable, TypeOK, SocketInv, Fresh
<1>2. CASE UNCHANGED <<issued, server>>
  BY <1>1, <1>2, VerdictSame
<1>3. CASE /\ issued' = Decided(item)
           /\ server' = [server EXCEPT !.verdicts = @ \cup {new}]
  <2>1. /\ server'.verdicts = server.verdicts \cup {new}
        /\ server'.generation = server.generation
    BY <1>1, <1>3 DEF Servers
  <2>2. /\ item = [key |-> item.key, state |-> "pending",
                   generation |-> server.generation]
        /\ decided = [key |-> item.key, state |-> "decided",
                      generation |-> server.generation]
    BY <1>1
  <2>3. \A v \in server.verdicts : v.key # item.key
    BY <2>2 DEF VerdictInv
  <2>4. issued' = (issued \ {item}) \cup {decided} /\ item # decided
    BY <1>1, <1>3 DEF Decided
  <2>5. ASSUME NEW v \in server.verdicts
        PROVE  /\ [key |-> v.key, state |-> "decided",
                   generation |-> server.generation] \in issued'
               /\ [key |-> v.key, state |-> "pending",
                   generation |-> server.generation] \notin issued'
               /\ v.key[2] \in McpRequests
    <3>1. /\ [key |-> v.key, state |-> "decided",
              generation |-> server.generation] # item
          /\ [key |-> v.key, state |-> "pending",
              generation |-> server.generation] # decided
      BY <1>1, <2>2, <2>3
    <3> QED
      BY <2>4, <3>1 DEF VerdictInv
  <2>6. /\ decided \in issued' /\ item \notin issued'
        /\ new.key = item.key
    BY <2>4
  <2>7. \A v \in server'.verdicts :
          /\ [key |-> v.key, state |-> "decided",
              generation |-> server.generation] \in issued'
          /\ [key |-> v.key, state |-> "pending",
              generation |-> server.generation] \notin issued'
          /\ v.key[2] \in McpRequests
    BY <1>1, <2>1, <2>2, <2>5, <2>6
  <2>8. \A v, w \in server'.verdicts : v.key = w.key => v = w
    BY <2>1, <2>3, <2>6 DEF VerdictInv
  <2> QED
    BY <2>1, <2>7, <2>8 DEF VerdictInv
<1> QED
  BY <1>2, <1>3 DEF DecideMcp

LEMMA VerdictNext ==
  ASSUME TypeOK, SocketInv, VerdictInv, [Next]_vars
  PROVE  VerdictInv'
<1>1. /\ server \in Servers /\ McpRequests \cap FunctionCalls = {}
      /\ ApprovedTools \subseteq FunctionCalls
  BY Basics DEF TypeOK
<1>2. CASE Connect \/ Close
  <2>1. /\ server'.verdicts = server.verdicts
        /\ server'.generation = server.generation
        /\ issued' = issued
    BY <1>1, <1>2 DEF Connect, Close, ResetSession, Closed, Servers
  <2> QED
    BY <2>1, VerdictSame
<1>3. ASSUME NEW r, TurnStarted(r) \/ TurnDone(r) PROVE VerdictInv'
  <2>1. /\ server'.verdicts = server.verdicts
        /\ server'.generation = server.generation
    BY <1>1, <1>3 DEF TurnStarted, TurnDone, Servers
  <2> QED
    BY <1>3, <2>1, VerdictSame DEF TurnStarted, TurnDone
<1>4. ASSUME NEW r, NEW source, Delta(r, source) PROVE VerdictInv'
  BY <1>4, VerdictSame DEF Delta
<1>5. ASSUME NEW check, GuardrailPasses(check) \/ GuardrailTrips(check)
      PROVE  VerdictInv'
  BY <1>5, VerdictSame DEF GuardrailPasses, GuardrailTrips
<1>6. ASSUME NEW c \in FunctionCalls, NEW r \in Responses, FunctionCall(c, r)
      PROVE  VerdictInv'
  <2> DEFINE srv == [server EXCEPT !.callOf[c] = r, !.events[c] = @ + 1]
  <2>1. PICK k : k = <<Captured(r), c>>
    OBVIOUS
  <2>2. /\ srv \in Servers /\ srv.verdicts = server.verdicts
        /\ srv.generation = server.generation
    <3>1. c \in Calls /\ server.events[c] + 1 \in Nat
      BY <1>1, Basics DEF Servers
    <3> QED
      BY <1>1, <3>1 DEF Servers
  <2>3. server' = srv \/ Run(k, "enabling", invocation, srv)
    BY <1>6, <2>1 DEF FunctionCall
  <2> HIDE DEF srv
  <2>4. /\ server'.verdicts = server.verdicts
        /\ server'.generation = server.generation
    BY <2>2, <2>3, RunKeeps
  <2> QED
    BY <1>6, <2>4, VerdictSame DEF FunctionCall
<1>7. ASSUME NEW item \in issued, NEW verdict, DecideCall(item, verdict)
      PROVE  VerdictInv'
  <2>1. /\ server'.verdicts = server.verdicts
        /\ server'.generation = server.generation
    BY <1>1, <1>7, RunKeeps DEF DecideCall
  <2>2. /\ issued' = (issued \ {item}) \cup {[item EXCEPT !.state = "decided"]}
        /\ item.key[2] \notin McpRequests
        /\ [item EXCEPT !.state = "decided"].key = item.key
    BY <1>1, <1>7 DEF DecideCall, Decided, TypeOK
  <2> QED
    BY <2>1, <2>2, VerdictOther
<1>8. ASSUME NEW c \in McpRequests, McpApprovalRequest(c) PROVE VerdictInv'
  <2> DEFINE new == [key |-> <<agent, c>>, state |-> "pending",
                     generation |-> connection.generation]
  <2>1. /\ server'.verdicts = server.verdicts
        /\ server'.generation = server.generation
        /\ server.generation = connection.generation
    BY <1>1, <1>8 DEF McpApprovalRequest, Servers, SocketInv, Fresh
  <2>2. CASE issued' = issued
    BY <2>1, <2>2, VerdictSame
  <2>3. CASE /\ ~ \E i \in issued : /\ i.key = <<agent, c>>
                                    /\ i.generation = connection.generation
             /\ issued' = issued \cup {new}
    <3>1. ASSUME NEW v \in server.verdicts PROVE v.key # <<agent, c>>
      BY <2>1, <2>3 DEF VerdictInv
    <3>2. ASSUME NEW v \in server.verdicts
          PROVE  [key |-> v.key, state |-> "pending",
                  generation |-> server.generation] # new
      BY <3>1
    <3> QED
      BY <2>1, <2>3, <3>2 DEF VerdictInv
  <2> QED
    BY <1>8, <2>2, <2>3 DEF McpApprovalRequest
<1>9. ASSUME NEW item \in issued, NEW verdict \in {"yes", "no"},
             DecideMcp(item, verdict)
      PROVE  VerdictInv'
  BY <1>9, VerdictDecide
<1>10. CASE SocketStep
  <2>1. issued' = issued
    BY <1>10, SocketStepKeeps DEF SessionKept
  <2>2. CASE SocketOpens
    BY <2>2 DEF SocketOpens, NewServer, VerdictInv
  <2>3. CASE ~SocketOpens
    BY <1>10, <2>1, <2>3, SocketStepKeeps, VerdictSame
  <2> QED
    BY <2>2, <2>3
<1>11. ASSUME NEW h \in Slots, Step(h) PROVE VerdictInv'
  <2>1. /\ server'.verdicts = server.verdicts
        /\ server'.generation = server.generation
    BY <1>11, StepKeeps
  <2>2. CASE issued' = issued
    BY <2>1, <2>2, VerdictSame
  <2>3. CASE RequestApproval(h) /\ Works(h)
    <3>1. PICK new : /\ issued' = issued \cup {new}
                     /\ new = [key |-> KeyOf(h), state |-> "pending",
                               generation |-> connection.generation]
      BY <2>3 DEF RequestApproval
    <3>2. new.key[2] \notin McpRequests
      BY <1>1, <2>3, <3>1 DEF TypeOK, HandlersTyped, Works, Working, KeyOf
    <3> QED
      BY <2>1, <3>1, <3>2, VerdictOther
  <2> QED
    BY <1>11, <2>2, <2>3, StepKinds
       DEF Finish, AnswersCall, GoesOn, Resume, RequestApproval
<1>12. CASE UNCHANGED vars
  BY <1>12, VerdictSame DEF vars
<1> QED
  BY <1>2, <1>3, <1>4, <1>5, <1>6, <1>7, <1>8, <1>9, <1>10, <1>11, <1>12
     DEF Next, Event, SocketStep

(* The first decision on an item is the only one (FirstDecisionStands).     *)
THEOREM DecisionsStand == Spec => []FirstDecisionStands
<1>1. Init => DecisionInv /\ VerdictInv
  BY DEF Init, DecisionInv, VerdictInv, ItemInv, StageInv, RunApproved, Keys,
         NoInvocation, NewServer, NoRuns, Idle, Calls, FunctionCalls
<1>2. DecisionInv /\ OwnKeyInv /\ SocketInv /\ InvocationInv /\ TypeOK
      /\ [Next]_vars => DecisionInv'
  BY DecisionNext
<1>3. VerdictInv /\ SocketInv /\ TypeOK /\ [Next]_vars => VerdictInv'
  BY VerdictNext
<1>4. DecisionInv /\ VerdictInv /\ AnswerInv /\ OwnKeyInv /\ SocketInv
      /\ InvocationInv /\ TypeOK => FirstDecisionStands
  <2> SUFFICES ASSUME DecisionInv, AnswerInv, KeyInv, SocketInv, InvocationInv,
                      TypeOK, NEW item \in issued,
                      item.generation = connection.generation,
                      item.key[2] \in ApprovedTools
               PROVE  /\ item.state = "pending" =>
                           /\ history.runs[item.key[2]] = 0
                           /\ server.answers[item.key[2]] = {}
                      /\ approval[item.key] = "no" =>
                           history.runs[item.key[2]] = 0
    BY DEF FirstDecisionStands, VerdictInv, OwnKeyInv
  <2> DEFINE c == item.key[2]
  <2>1. c \in Calls /\ item.key \in Keys /\ history.runs[c] \in Nat
    BY Basics DEF TypeOK, Histories
  <2>2. approval[item.key] # "yes" => history.runs[c] = 0
    BY <2>1 DEF DecisionInv, ItemInv, RunApproved
  <2>3. ASSUME item.state = "pending"
        PROVE  item.key \in invocation.pending /\ approval[item.key] = "none"
    BY <2>3 DEF DecisionInv, ItemInv
  <2>4. ASSUME item.state = "pending", NEW a \in server.answers[c] PROVE FALSE
    <3>0. Fresh
      BY <2>1, <2>3, <2>4, KnownIsFresh DEF Known
    <3>1. PICK k \in Keys : k[2] = c /\ invocation.completed[k] = a
      BY <2>1, <2>4, <3>0 DEF AnswerInv, RecordedInv
    <3>2. a # NoOne
      BY <2>1, <2>4, Basics DEF TypeOK, Servers
    <3>3. k = item.key
      BY <2>1, <2>3, <2>4, <3>1, <3>2, OneKey DEF Known
    <3> QED
      BY <2>3, <2>4, <3>1, <3>2, <3>3 DEF InvocationInv, PendingInv
  <2> QED
    BY <2>2, <2>3, <2>4
<1> QED
  BY <1>1, <1>2, <1>3, <1>4, AnswersRecorded, InvocationCorrect, SocketsAreOwn,
     KeysAreOwn, TypeCorrect, PTL DEF Spec
=============================================================================
