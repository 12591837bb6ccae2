--------------------------- MODULE RealtimeSession ---------------------------
(***************************************************************************)
(* A realtime session's tool calls, approvals and output guardrails        *)
(* (agents-realtime/src/realtimeSession.ts, RealtimeSession) over several  *)
(* connections: every handler of an event awaits the application's code    *)
(* and goes on only if the connection is still the one it began on.        *)
(*                                                                         *)
(* The server is the environment: it repeats calls and approval requests,  *)
(* overlaps responses, and turn_done is the last event of a response.  The *)
(* transport is the WebSocket (openaiRealtimeWebsocket.ts): it refuses to  *)
(* connect while it has a socket, and the events of that socket go on to   *)
(* arrive at a session whose connect() has reset it.                       *)
(* What a send's listeners do while it sends is left out, as are approval  *)
(* items the session did not issue, decisions for all later calls,         *)
(* updateAgent(), turns without a response id, and the history.            *)
(***************************************************************************)
EXTENDS Naturals, FiniteSets

CONSTANTS
  Tools,           \* calls of the server: of a tool,
  ApprovedTools,   \* of a tool that needs an approval,
  Handoffs,        \* of a handoff,
  McpRequests,     \* and approval requests for hosted MCP tools
  Responses,       \* response ids
  Traffics,        \* bound: kinds of sessions, see Traffic
  MaxTurns,        \* bound: responses on a socket where none is judged
  MaxChecks,       \* bound: output guardrails that run at a time
  Slots,           \* bound: handlers that run at a time
  MaxGenerations,  \* bound: calls of connect() and close()
  MaxEvents        \* bound: deliveries of a call on a connection

CONSTANT NoOne  \* no response, no agent, no answer

Answers == [what : {"notFound", "rejection", "refusal", "result", "transfer"},
            run : Nat, generation : Nat]

ASSUME RealtimeAssumption ==
  /\ Tools \cap ApprovedTools = {} /\ Tools \cap Handoffs = {}
  /\ ApprovedTools \cap Handoffs = {}
  /\ McpRequests \cap (Tools \cup ApprovedTools \cup Handoffs) = {}
  /\ Traffics \subseteq {"calls", "requests", "guarded"}
  /\ Slots \subseteq Nat \ {0}
  /\ MaxGenerations \in Nat /\ MaxEvents \in Nat
  /\ MaxChecks \in Nat /\ MaxTurns \in Nat
  /\ Responses # {}
  /\ NoOne \notin Responses /\ NoOne \notin {"initial", "target"}
  /\ NoOne \notin Answers

VARIABLES
  options,     \* the session's preApprovalInputGuardrails, and its traffic
  connection,  \* connectionGeneration, connectedGeneration, the connect() calls
               \* under way and the one that the transport attempts
  agent,       \* currentAgent
  turn,        \* activeResponseId, responseGeneration and the responses' snapshots
  invocation,  \* completedToolCalls, activeToolCalls and pendingFunctionCalls
  issued,      \* the approval items the application was given
  approval,    \* the decisions that the context holds, of an agent on a call
  handler,     \* the handlers of function calls and of decisions
  checks,      \* the output guardrails that run
  tripped,     \* interruptedByGuardrail
  server,      \* the socket, and what the server sent and received on it
  history      \* what the tools and guardrails did, for the properties

vars == <<options, connection, agent, turn, invocation, issued, approval, handler,
          checks, tripped, server, history>>

FunctionCalls == Tools \cup ApprovedTools \cup Handoffs
Calls         == FunctionCalls \cup McpRequests

(* The agents: the session starts with the first, handoffs lead to the      *)
(* other.  Each has tools under all the names.                              *)
Agents == {"initial", "target"}
Keys   == Agents \X Calls

None == 0

(* Bound: what the server sends in a session.  Tool calls, MCP requests and *)
(* responses to judge share nothing but the connection and the agent, which *)
(* handoffs change.                                                         *)
Sends(c) ==
  CASE options.traffic = "calls"    -> c \in FunctionCalls
    [] options.traffic = "requests" -> c \in Handoffs \cup McpRequests
    [] options.traffic = "guarded"  -> FALSE

IsGuarded == options.traffic = "guarded"

------------------------------------------------------------------------------
(* connect() and close().                                                   *)
Connected ==
  connection.generation > 0 /\ connection.connected = connection.generation

(* Deviation: it is enough that there is a connection.                      *)
IsConnected(h) == Connected

IsCurrent(h) == Connected /\ handler[h].generation = connection.generation

Idle == [stage |-> "idle", call |-> NoOne, agent |-> NoOne, generation |-> 0,
         on |-> None, outcome |-> NoOne]

NoTurn == [active |-> NoOne, generation |-> 0,
           snapshot |-> [r \in Responses |-> NoOne]]

NoInvocation ==
  [completed |-> [k \in Keys |-> NoOne], active |-> [k \in Keys |-> None],
   pending |-> {}]

NewServer ==
  [open     |-> FALSE, generation |-> 0,
   response |-> [r \in Responses |-> "none"],
   started  |-> 0,
   order    |-> [r \in Responses |-> 0],
   made     |-> [r \in Responses |-> NoOne],
   callOf   |-> [c \in Calls |-> NoOne],
   events   |-> [c \in Calls |-> 0],
   answers  |-> [c \in Calls |-> {}],
   verdicts |-> {}]

NoRuns == [runs |-> [c \in Calls |-> 0], failed |-> [c \in Calls |-> 0],
           misled |-> FALSE, interrupts |-> [r \in Responses |-> 0],
           misfired |-> FALSE, before |-> 0]

(* Deviation: only an answer ends the wait.                                 *)
ResolveAnswered(handlers, h, outcome) ==
  [w \in Slots |->
     IF handlers[w].stage = "waiting" /\ handlers[w].on = h /\ outcome # NoOne
     THEN [handlers[w] EXCEPT !.stage = "resuming", !.outcome = outcome]
     ELSE handlers[w]]

(* The handlers that wait for the completion of h are given its outcome.    *)
Resolve(handlers, h, outcome) ==
  [w \in Slots |->
     IF handlers[w].stage = "waiting" /\ handlers[w].on = h
     THEN [handlers[w] EXCEPT !.stage = "resuming", !.outcome = outcome]
     ELSE handlers[w]]

Waits(w) == handler[w].stage = "waiting"
IsActive(h) == \E k \in Keys : invocation.active[k] = h

ResetToolInvocationState ==
  /\ invocation' = NoInvocation
  /\ handler' = [w \in Slots |->
       IF Waits(w) /\ IsActive(handler[w].on)
       THEN [handler[w] EXCEPT !.stage = "resuming", !.outcome = NoOne]
       ELSE handler[w]]

ResetSession ==
  /\ turn' = NoTurn
  /\ tripped' = {}
  /\ ResetToolInvocationState
  /\ history' = [history EXCEPT !.interrupts = [r \in Responses |-> 0],
                                !.before = server.started]
  /\ UNCHANGED <<agent, issued, approval, checks>>

(* The socket, if there is one, is kept.                                    *)
Connect ==
  /\ connection.generation < MaxGenerations
  /\ connection' = [connection EXCEPT
       !.generation = @ + 1, !.connected = 0,
       !.opening    = @ \cup {connection.generation + 1}]
  /\ ResetSession
  /\ UNCHANGED server

SessionKept == UNCHANGED <<turn, invocation, issued, approval, handler, checks,
                           tripped>>

(* The initial agent is prepared and set, even for a connect() that has     *)
(* been overtaken; preparing the others may fail.  The transport begins     *)
(* unless it has a socket or an attempt under way: then it throws.          *)
ConnectTransport(g) ==
  /\ g \in connection.opening
  /\ agent' = "initial"
  /\ \E begins \in BOOLEAN :
       /\ begins => /\ g = connection.generation
                    /\ connection.attempt = 0 /\ ~server.open
       /\ connection' = [connection EXCEPT
            !.opening = @ \ {g}, !.attempt = IF begins THEN g ELSE @]
  /\ SessionKept /\ UNCHANGED <<server, history>>

(* Response ids are never used again; nothing arrives on a closed socket.   *)
Past == [r \in Responses |->
           IF server.response[r] = "none" THEN "none" ELSE "past"]

Closed == [server EXCEPT !.open = FALSE, !.response = Past]

SocketOpens ==
  /\ connection.attempt # 0 /\ ~server.open
  /\ server' = [NewServer EXCEPT
       !.open = TRUE, !.generation = connection.attempt,
       !.response = Past, !.started = server.started]
  /\ history' = [history EXCEPT !.runs   = [c \in Calls |-> 0],
                                !.failed = [c \in Calls |-> 0]]
  /\ SessionKept /\ UNCHANGED <<connection, agent>>

ConnectEnds ==
  /\ connection.attempt # 0
  /\ \/ /\ server.open
        /\ connection' = [connection EXCEPT
             !.attempt   = 0,
             !.connected = IF connection.attempt = connection.generation
                           THEN connection.attempt ELSE @]
        /\ UNCHANGED server
     \/ /\ connection' = [connection EXCEPT !.attempt = 0]
        /\ server' = Closed
  /\ SessionKept /\ UNCHANGED <<agent, history>>

(* The session is not told; an attempt that has not ended fails.            *)
SocketCloses ==
  /\ server.open
  /\ server' = Closed
  /\ connection' = [connection EXCEPT !.attempt = 0]
  /\ SessionKept /\ UNCHANGED <<agent, history>>

Close ==
  /\ connection.generation < MaxGenerations
  /\ connection' = [connection EXCEPT !.generation = @ + 1, !.connected = 0,
                                      !.attempt = 0]
  /\ ResetSession
  /\ server' = Closed

------------------------------------------------------------------------------
(* Responses: the first event of one captures the agent it is dispatched to.*)
(* Whether the session is connected is not asked of their events.           *)
Live(r) == server.response[r] = "live"

Captured(r) == IF turn.snapshot[r] # NoOne THEN turn.snapshot[r] ELSE agent

Capture(r) == [turn.snapshot EXCEPT ![r] = Captured(r)]

(* Bound: ids are taken in one order, as nothing tells them apart.          *)
NextId == CHOOSE r \in Responses : server.response[r] = "none"

InBounds ==
  IsGuarded \/ Cardinality({r \in Responses :
                   server.response[r] \in {"live", "done"}}) < MaxTurns

TurnStarted(r) ==
  /\ server.open /\ InBounds
  /\ server.response[r] = "none" /\ r = NextId
  /\ server' = [server EXCEPT !.response[r] = "live", !.made[r] = agent,
                              !.started = @ + 1, !.order[r] = server.started + 1]
  /\ turn' = [active |-> r, generation |-> turn.generation + 1,
              snapshot |-> Capture(r)]
  /\ UNCHANGED <<connection, agent, invocation, issued, approval, handler,
                 checks, tripped, history>>

ScheduleOutputGuardrails(r, source) ==
  checks' = IF IsGuarded
            THEN checks \cup {[response |-> r, source |-> source,
                               turn |-> turn.generation, started |-> server.started,
                               generation |-> connection.generation]}
            ELSE checks

CanSchedule == Cardinality(checks) < MaxChecks

Delta(r, source) ==
  /\ IsGuarded /\ CanSchedule
  /\ Live(r)
  /\ turn' = IF turn.active = NoOne
             THEN [turn EXCEPT !.active = r, !.snapshot = Capture(r)]
             ELSE turn
  /\ ScheduleOutputGuardrails(r, source)
  /\ UNCHANGED <<connection, agent, invocation, issued, approval, handler,
                 tripped, server, history>>

TurnDone(r) ==
  /\ CanSchedule
  /\ Live(r)
  /\ server' = [server EXCEPT !.response[r] = "done"]
  /\ turn' = [turn EXCEPT !.active      = IF @ = r THEN NoOne ELSE @,
                          !.snapshot[r] = NoOne]
  /\ ScheduleOutputGuardrails(r, "final")
  /\ UNCHANGED <<connection, agent, invocation, issued, approval, handler,
                 tripped, history>>

(* An output guardrail run ends.  A tripwire interrupts only the response   *)
(* it judged: by a cancel if text was judged, else the playing audio.       *)
IsStale(check) ==
  \/ check.turn # turn.generation
  \/ turn.active \notin {NoOne, check.response}

Interrupts(check) ==
  ~IsStale(check) /\ (check.source # "text" \/ turn.active = check.response)

GuardrailPasses(check) ==
  /\ checks' = checks \ {check}
  /\ UNCHANGED <<connection, agent, turn, invocation, issued, approval, handler,
                 tripped, server, history>>

(* What an interruption must not hit: any response once the session was     *)
(* reset, one that began after the text was judged, or another one that     *)
(* began last since the reset.                                              *)
Overtakes(r, check) ==
  /\ Live(r)
  /\ \/ check.generation # connection.generation
     \/ server.order[r] > check.started
     \/ /\ r # check.response
        /\ server.order[r] = server.started /\ server.started > history.before

(* Deviation: a response that was interrupted is interrupted again.         *)
IgnoredOnlyIfOld(check) == check.generation # connection.generation

Ignored(check) ==
  check.generation # connection.generation \/ check.response \in tripped

GuardrailTrips(check) ==
  /\ checks' = checks \ {check}
  /\ IF Ignored(check) THEN UNCHANGED <<tripped, history>>
     ELSE /\ tripped' = tripped \cup {check.response}
          /\ history' = IF ~Interrupts(check) THEN history
                        ELSE [history EXCEPT
                          !.interrupts[check.response] = @ + 1,
                          !.misfired = @ \/ \E r \in Responses : Overtakes(r, check)]
  /\ UNCHANGED <<connection, agent, turn, invocation, issued, approval, handler,
                 server>>

------------------------------------------------------------------------------
(* Committed outputs.  An output is recorded before it is sent; sending it  *)
(* may throw.                                                               *)
Answer(what, h) == [what |-> what, run |-> history.runs[handler[h].call],
                    generation |-> handler[h].generation]

Sent(c, answer) ==
  \E delivered \in BOOLEAN :
    server' = IF delivered /\ server.open
              THEN [server EXCEPT !.answers[c] = @ \cup {answer}] ELSE server

(* Deviation: an output is sent and not recorded.                           *)
Uncommitted(k, answer) == invocation

Committed(k, answer) == [invocation EXCEPT !.completed[k] = answer]

KeyOf(h) == <<handler[h].agent, handler[h].call>>

(* The invocation of handler h is over: whoever waits for it gets what is   *)
(* recorded of the call, and the entry is removed if it is still its own.   *)
Finish(h, inv) ==
  LET k == KeyOf(h)
  IN  /\ handler' = [Resolve(handler, h, inv.completed[k]) EXCEPT ![h] = Idle]
      /\ invocation' = [inv EXCEPT !.active[k] = IF @ = h THEN None ELSE @]

(* A step of handler h that ends it, with an answer or without.             *)
Ends(h) ==
  /\ Finish(h, invocation)
  /\ UNCHANGED <<connection, agent, turn, issued, approval, checks, tripped,
                 server, history>>

AnswersCall(h, what) ==
  LET answer == Answer(what, h)
  IN  /\ Sent(handler[h].call, answer)
      /\ Finish(h, Committed(KeyOf(h), answer))
      /\ UNCHANGED <<connection, turn, issued, approval, checks, tripped>>

GoesOn(h, stage) ==
  /\ handler' = [handler EXCEPT ![h].stage = stage]
  /\ UNCHANGED <<connection, agent, turn, invocation, issued, approval, checks,
                 tripped, server>>

------------------------------------------------------------------------------
(* runRealtimeToolInvocation: a call is answered from the record, waits for *)
(* the handler that runs it, or is run in a free slot.                      *)
Free == {w \in Slots : handler[w].stage = "idle"}

Slot == CHOOSE w \in Free : TRUE

NewHandler(stage, k, on) ==
  [stage |-> stage, call |-> k[2], agent |-> k[1],
   generation |-> connection.generation, on |-> on, outcome |-> NoOne]

Run(k, stage, inv, srv) ==
  \/ /\ inv.completed[k] # NoOne
     /\ invocation' = inv
     /\ UNCHANGED handler
     /\ \E delivered \in BOOLEAN :
          server' = IF delivered /\ srv.open
                    THEN [srv EXCEPT !.answers[k[2]] = @ \cup {inv.completed[k]}]
                    ELSE srv
  \/ /\ inv.completed[k] = NoOne
     /\ Free # {}
     /\ IF inv.active[k] # None
        THEN /\ handler' = [handler EXCEPT
                              ![Slot] = NewHandler("waiting", k, inv.active[k])]
             /\ invocation' = inv
        ELSE /\ handler' = [handler EXCEPT ![Slot] = NewHandler(stage, k, None)]
             /\ invocation' = [inv EXCEPT !.active[k] = Slot]
     /\ server' = srv

(* The function_call event, of a response that has not ended.               *)
FunctionCall(c, r) ==
  LET k   == <<Captured(r), c>>
      srv == [server EXCEPT !.callOf[c] = r, !.events[c] = @ + 1]
  IN  /\ Sends(c)
      /\ Connected /\ Live(r)
      /\ server.callOf[c] \in {NoOne, r}
      /\ server.events[c] < MaxEvents
      /\ turn' = [turn EXCEPT !.snapshot = Capture(r)]
      /\ history' = [history EXCEPT !.misled = @ \/ k[1] # server.made[r]]
      /\ IF k \in invocation.pending
         THEN server' = srv /\ UNCHANGED <<invocation, handler>>
         ELSE Run(k, "enabling", invocation, srv)
      /\ UNCHANGED <<connection, agent, issued, approval, checks, tripped>>

(* The call that was waited for has been answered, or has not.              *)
Resume(h) ==
  /\ handler[h].stage = "resuming"
  /\ handler' = [handler EXCEPT ![h] = Idle]
  /\ IF IsCurrent(h) /\ handler[h].outcome # NoOne
     THEN /\ invocation' = Committed(KeyOf(h), handler[h].outcome)
          /\ Sent(handler[h].call, handler[h].outcome)
     ELSE UNCHANGED <<invocation, server>>
  /\ UNCHANGED <<connection, agent, turn, issued, approval, checks, tripped,
                 history>>

------------------------------------------------------------------------------
(* executeFunctionToolCall and handleHandoff, from one await to the next.   *)
(* The decision on a call has removed its pending entry before it is run.   *)
Working == {"enabling", "asking", "rejecting", "screening", "guarding",
            "acting", "handing"}

At(h, stage) == handler[h].stage = stage /\ IsCurrent(h)

Starts(h) == history' = [history EXCEPT !.runs[handler[h].call] = @ + 1]

(* The connection is not the one the handler began on.                      *)
Abandon(h) ==
  /\ handler[h].stage \in Working /\ ~IsCurrent(h)
  /\ Ends(h)

(* The application's code throws: the error is emitted, and the call can be *)
(* run again.                                                               *)
Fail(h) ==
  /\ handler[h].stage \in Working
  /\ Finish(h, invocation)
  /\ history' = IF IsCurrent(h) /\ handler[h].stage \in {"acting", "handing"}
                THEN [history EXCEPT !.failed[handler[h].call] = @ + 1]
                ELSE history
  /\ UNCHANGED <<connection, agent, turn, issued, approval, checks, tripped,
                 server>>

Enabled(h) ==
  /\ At(h, "enabling")
  /\ \/ AnswersCall(h, "notFound") /\ UNCHANGED <<agent, history>>
     \/ /\ handler[h].call \notin Handoffs
        /\ GoesOn(h, "asking") /\ UNCHANGED history
     \/ /\ handler[h].call \in Handoffs
        /\ GoesOn(h, "handing") /\ Starts(h)

RequestApproval(h) ==
  LET k == KeyOf(h)
  IN  /\ issued' = issued \cup {[key |-> k, state |-> "pending",
                                 generation |-> connection.generation]}
      /\ handler' = [Resolve(handler, invocation.active[k], NoOne)
                       EXCEPT ![h] = Idle]
      /\ invocation' = [invocation EXCEPT !.pending   = @ \cup {k},
                                          !.active[k] = None]
      /\ UNCHANGED <<connection, agent, turn, approval, checks, tripped, server,
                     history>>

NeedsApproval(h) == handler[h].call \in ApprovedTools
Approval(h)      == approval[KeyOf(h)]

Asked(h) ==
  /\ At(h, "asking")
  /\ \/ /\ ~NeedsApproval(h) \/ Approval(h) = "yes"
        /\ GoesOn(h, "guarding") /\ UNCHANGED history
     \/ /\ NeedsApproval(h) /\ Approval(h) = "no"
        /\ GoesOn(h, "rejecting") /\ UNCHANGED history
     \/ /\ NeedsApproval(h) /\ Approval(h) = "none"
        /\ IF options.preApproval THEN GoesOn(h, "screening") /\ UNCHANGED history
                          ELSE RequestApproval(h)

RejectionFormatted(h) ==
  /\ At(h, "rejecting")
  /\ AnswersCall(h, "rejection")
  /\ UNCHANGED <<agent, history>>

Screened(h) ==
  /\ At(h, "screening")
  /\ \/ RequestApproval(h)
     \/ AnswersCall(h, "refusal") /\ UNCHANGED <<agent, history>>

InputGuarded(h) ==
  /\ At(h, "guarding")
  /\ \/ GoesOn(h, "acting") /\ Starts(h)
     \/ AnswersCall(h, "refusal") /\ UNCHANGED <<agent, history>>

ToolReturns(h) ==
  /\ At(h, "acting")
  /\ AnswersCall(h, "result")
  /\ UNCHANGED <<agent, history>>

HandoffEnds(h) ==
  /\ At(h, "handing")
  /\ agent' = "target"
  /\ AnswersCall(h, "transfer")
  /\ UNCHANGED history

------------------------------------------------------------------------------
(* Approvals: approve() and reject() of an issued item.                     *)
McpApprovalRequest(c) ==
  LET k == <<agent, c>>
  IN  /\ Sends(c)
      /\ Connected /\ server.open
      /\ server.events[c] < MaxEvents
      /\ server' = [server EXCEPT !.events[c] = @ + 1]
      /\ issued' = IF \E i \in issued : i.key = k
                                     /\ i.generation = connection.generation
                   THEN issued
                   ELSE issued \cup {[key |-> k, state |-> "pending",
                                      generation |-> connection.generation]}
      /\ UNCHANGED <<connection, agent, turn, invocation, approval, handler,
                     checks, tripped, history>>

(* Deviation: an item that was decided on is decided on again.              *)
DecidableAgain(item) ==
  Connected /\ item.generation = connection.generation

Decidable(item) ==
  /\ Connected /\ item.generation = connection.generation
  /\ item.state = "pending"

Decided(item) == (issued \ {item}) \cup {[item EXCEPT !.state = "decided"]}

DecideCall(item, verdict) ==
  LET k == item.key
  IN  /\ Decidable(item)
      /\ k[2] \in ApprovedTools
      /\ k \in invocation.pending
      /\ issued' = Decided(item)
      /\ approval' = [approval EXCEPT ![k] = verdict]
      /\ Run(k, "asking", [invocation EXCEPT !.pending = @ \ {k}], server)
      /\ UNCHANGED <<connection, agent, turn, checks, tripped, history>>

(* The response to an MCP request is sent, or the send throws and the item  *)
(* can be decided again.  The decision is kept for all agents.              *)
DecideMcp(item, verdict) ==
  /\ Decidable(item)
  /\ item.key[2] \in McpRequests
  /\ approval' = [k \in Keys |-> IF k[2] = item.key[2] THEN verdict
                                 ELSE approval[k]]
  /\ \/ UNCHANGED <<issued, server>>
     \/ /\ server.open
        /\ issued' = Decided(item)
        /\ server' = [server EXCEPT !.verdicts =
                        @ \cup {[key |-> item.key, verdict |-> verdict]}]
  /\ UNCHANGED <<connection, agent, turn, invocation, handler, checks, tripped,
                 history>>

------------------------------------------------------------------------------
Init ==
  /\ options \in [preApproval : BOOLEAN, traffic : Traffics]
  /\ connection = [generation |-> 0, connected |-> 0, opening |-> {},
                   attempt |-> 0]
  /\ agent = "initial"
  /\ turn = NoTurn
  /\ invocation = NoInvocation
  /\ issued = {}
  /\ approval = [k \in Keys |-> "none"]
  /\ handler = [w \in Slots |-> Idle]
  /\ checks = {}
  /\ tripped = {}
  /\ server = NewServer
  /\ history = NoRuns

Step(h) ==
  \/ Abandon(h)
  \/ Enabled(h)
  \/ Asked(h)
  \/ RejectionFormatted(h)
  \/ Screened(h)
  \/ InputGuarded(h)
  \/ ToolReturns(h)
  \/ HandoffEnds(h)
  \/ Fail(h)
  \/ Resume(h)

Event ==
  \/ Connect
  \/ \E g \in connection.opening : ConnectTransport(g)
  \/ SocketOpens
  \/ ConnectEnds
  \/ SocketCloses
  \/ Close
  \/ \E r \in Responses : TurnStarted(r) \/ TurnDone(r)
  \/ \E r \in Responses, source \in {"text", "audio"} : Delta(r, source)
  \/ \E check \in checks : GuardrailPasses(check) \/ GuardrailTrips(check)
  \/ \E c \in FunctionCalls, r \in Responses : FunctionCall(c, r)
  \/ \E c \in McpRequests : McpApprovalRequest(c)
  \/ \E item \in issued, verdict \in {"yes", "no"} :
       DecideCall(item, verdict) \/ DecideMcp(item, verdict)
  \/ \E h \in Slots : Step(h)

Next == Event /\ UNCHANGED options

Spec == Init /\ [][Next]_vars

------------------------------------------------------------------------------
(* On a connection a call is run once, however often it is delivered, while *)
(* it waits for a decision, runs, or is answered; again only if it failed.  *)
(* The agent that runs it is the one that the response was asked of,        *)
(* whatever handoffs have been made since.                                  *)
CallsRunOnce ==
  /\ \A c \in Calls : history.runs[c] <= history.failed[c] + 1
  /\ ~history.misled

(* All that the server is told about a call on a socket is one answer,      *)
(* which was computed for the connection that opened this socket.           *)
OneAnswer ==
  \A c \in Calls :
    /\ \A a, b \in server.answers[c] : a = b
    /\ \A answer \in server.answers[c] :
         answer.generation = server.generation

(* The first decision on an item is the only one: a call that waits for a   *)
(* decision is not run, one that was rejected is never run, and an MCP      *)
(* request is answered once by each agent that it was put to.               *)
FirstDecisionStands ==
  /\ \A item \in issued :
       /\ item.generation = connection.generation
       /\ item.key[2] \in ApprovedTools
       => LET c == item.key[2]
          IN  /\ item.state = "pending" =>
                   history.runs[c] = 0 /\ server.answers[c] = {}
              /\ approval[item.key] = "no" => history.runs[c] = 0
  /\ \A v, w \in server.verdicts : v.key = w.key => v = w

(* Between two resets of the session by connect() or close(), guardrails    *)
(* interrupt a response at most once; and they never interrupt while another*)
(* one is under way that began last, or one that began after the judged     *)
(* text, nor for a text from before the reset.  What was under way when     *)
(* connect() reset a session whose socket was open is not known to have     *)
(* begun any more: an older response that speaks may then pass for the last.*)
InterruptsItsResponse ==
  /\ \A r \in Responses : history.interrupts[r] <= 1
  /\ ~history.misfired

(* A handler that waits for another one waits for one that goes on, so that *)
(* it is woken when that one's callback ends, whatever became of the call.  *)
NobodyWaitsInVain ==
  \A h \in Slots : Waits(h) => handler[handler[h].on].stage \in Working
=============================================================================
