------------------------------ MODULE McpServers ------------------------------
(***************************************************************************)
(* The lifecycle manager of several MCP servers (agents-core/src/          *)
(* mcpServers.ts, class MCPServers with its ServerWorker).                 *)
(*                                                                         *)
(* open() connects the servers, reconnect() and close() run one after the  *)
(* other on lifecycleTail.  A connect() or close() that times out is given *)
(* up by the manager but goes on in the server: a late answer arrives when *)
(* another operation is already running.                                   *)
(*                                                                         *)
(* The servers are the environment: they answer in any order, with success,*)
(* an error or an abort-like error, late or never.  A server that closes   *)
(* does not end a connect() that is still pending.  That call is stale from*)
(* then on and connects nothing: NodeMCPServerStreamableHttp discards what *)
(* it brings, the servers over stdio and SSE have closed its transport.    *)
(* What becomes of a connection on its own is left out.  Servers are       *)
(* numbered in the order in which they were given.  The serial path's      *)
(* serialCloseTasks and the worker's closing are one variable, closeTask;  *)
(* suppressedAbortFailures is left out, as it is only read where every     *)
(* other failure has thrown.                                               *)
(***************************************************************************)
EXTENDS Lists

CONSTANTS
  NumServers,    \* how many servers there are
  MaxOperations  \* bound: calls of reconnect() and close()

ASSUME ServersAssumption == NumServers \in Nat \ {0} /\ MaxOperations \in Nat

VARIABLES
  options,    \* connectInParallel, strict and suppressAbortError
  lifecycle,  \* lifecycleTail: the operations that wait for their turn
  op,         \* the operation in progress
  calls,      \* how many calls of reconnect() and close() there were
  opened,     \* what became of open()
  connected,  \* connectedServerSet
  failed,     \* failedServers
  errors,     \* errorsByServer
  closeTask,  \* the close() of each server that is being tracked
  waiting,    \* what the operation awaits from each server
  server      \* the servers themselves: their connect() calls since the last
              \* close(), the stale ones, their close() calls, and whether
              \* what was answered of these left them connected

manager == <<lifecycle, op, calls, opened, connected, failed, errors>>
vars    == <<options, manager, closeTask, waiting, server>>

Servers    == 1 .. NumServers
AllServers == [s \in Servers |-> s]
Operations == {"reconnectFailed", "reconnectAll", "close"}
NoOp       == [kind |-> "none", phase |-> "none", todo |-> << >>,
               targets |-> << >>, closed |-> {}, threw |-> FALSE]

FailedSet == ToSet(failed)

(* storeFailure, for a list of servers with the same error.                 *)
WithFailures(list, servers) == list \o Only(servers, Servers \ ToSet(list))

------------------------------------------------------------------------------
(* attemptConnect, and what the caller does when it returns or throws.      *)

Finish(threw) ==
  /\ op' = NoOp
  /\ opened' = IF op.kind # "open" THEN opened
               ELSE IF threw THEN "failed" ELSE "yes"

Cleanup(started, failures) == Reverse(WithFailures(started, failures))

(* A failed open() closes what it had connected and what had failed.        *)
ConnectingThrows ==
  \/ /\ op.kind = "open"
     /\ op' = [op EXCEPT !.phase = "closing",
                         !.todo  = Cleanup(Only(AllServers, connected'), failed')]
     /\ UNCHANGED opened
  \/ op.kind # "open" /\ Finish(TRUE)

(* One server after the other, or all at once and awaited together: then    *)
(* the first rejection is thrown when the last server has been heard.       *)
NextConnect(s, throws) ==
  LET others == \E t \in Servers \ {s} : waiting[t] = "connect"
      threw  == op.threw \/ throws
  IN  \/ others /\ op' = [op EXCEPT !.threw = threw] /\ UNCHANGED opened
      \/ ~others /\ threw /\ ConnectingThrows
      \/ ~others /\ ~threw /\ op.todo # << >> /\ UNCHANGED <<op, opened>>
      \/ ~others /\ ~threw /\ op.todo = << >> /\ Finish(FALSE)

ConnectSucceeded(s) ==
  /\ connected' = connected \cup {s}
  /\ failed' = Only(failed, Servers \ {s})
  /\ errors' = IF s \in FailedSet THEN [errors EXCEPT ![s] = "none"] ELSE errors
  /\ NextConnect(s, FALSE)

ConnectFailed(s, error) ==
  LET ignored == error = "abort" /\ options.suppressAbort
  IN  /\ failed' = WithFailures(failed, <<s>>)
      /\ errors' = [errors EXCEPT ![s] = error]
      /\ UNCHANGED connected
      /\ NextConnect(s, IF error = "abort" THEN ~ignored ELSE options.strict)

ConnectResolved(s, result) ==
  /\ waiting' = [waiting EXCEPT ![s] = "none"]
  /\ \/ result = "ok" /\ ConnectSucceeded(s)
     \/ result # "ok" /\ ConnectFailed(s, result)

(* runConnect, for one server or for all of them.                           *)
Connecting == IF options.parallel THEN ToSet(op.todo) ELSE {Head(op.todo)}

Connect ==
  /\ op.phase = "connecting"
  /\ op.todo # << >>
  /\ \A s \in Servers : waiting[s] = "none"
  /\ op' = [op EXCEPT !.todo = IF options.parallel THEN << >> ELSE Tail(@)]
  /\ waiting' = [s \in Servers |->
                  IF s \in Connecting THEN "connect" ELSE waiting[s]]
  /\ closeTask' = [s \in Servers |->
                    IF s \in Connecting THEN "none" ELSE closeTask[s]]
  /\ server' = [s \in Servers |->
                 IF s \in Connecting THEN [server[s] EXCEPT !.connects = @ + 1]
                                     ELSE server[s]]
  /\ UNCHANGED <<lifecycle, calls, opened, connected, failed, errors>>

ConnectTimesOut(s) ==
  /\ waiting[s] = "connect"
  /\ ConnectResolved(s, "timeout")
  /\ UNCHANGED <<lifecycle, calls, closeTask, server>>

------------------------------------------------------------------------------
(* closeServer, and what the caller does when the last server is closed.    *)

StartConnecting(servers) ==
  \/ servers = << >> /\ Finish(FALSE)
  \/ /\ servers # << >>
     /\ op' = [op EXCEPT !.phase = "connecting", !.todo = servers]
     /\ UNCHANGED opened

(* The servers that were closed are connected again.                        *)
ClosedTargets(closed) == Only(op.targets, closed)

(* Deviation: the failures of the closing phase are not stored again.       *)
FailuresForgotten(closed) == ClosedTargets(closed)

(* A full reconnection keeps what could not be closed as failed, and the    *)
(* rest as failed until it is connected.                                    *)
FailuresAfterClosing(closed) ==
  Only(op.targets, Servers \ closed) \o ClosedTargets(closed)

AfterClosing(closed, errs) ==
  \/ /\ op.kind \in {"open", "close"}
     /\ errors' = errs
     /\ UNCHANGED failed
     /\ Finish(op.kind = "open")
  \/ /\ op.kind = "reconnectFailed"
     /\ errors' = errs
     /\ UNCHANGED failed
     /\ StartConnecting(ClosedTargets(closed))
  \/ /\ op.kind = "reconnectAll"
     /\ errors' = [s \in Servers |-> IF s \in closed THEN "closed" ELSE errs[s]]
     /\ failed' = FailuresAfterClosing(closed)
     /\ StartConnecting(ClosedTargets(closed))

(* Deviation: an abort-like error is thrown although it is suppressed.      *)
CloseAlwaysThrows(result) == result = "abort"

CloseThrows(result) == result = "abort" /\ ~options.suppressAbort

(* Deviation: only a server that was closed stops being active.             *)
StillConnected(s, result) == IF result = "ok" THEN connected \ {s} ELSE connected

ConnectedAfterClose(s, result) == connected \ {s}

CloseResolved(s, result) ==
  LET closed == IF result = "ok" THEN op.closed \cup {s} ELSE op.closed
      errs   == IF result = "ok" THEN errors ELSE [errors EXCEPT ![s] = result]
  IN  /\ connected' = ConnectedAfterClose(s, result)
      /\ waiting' = [waiting EXCEPT ![s] = "none"]
      /\ \/ /\ CloseThrows(result)
            /\ errors' = errs
            /\ UNCHANGED failed
            /\ Finish(TRUE)
         \/ /\ ~CloseThrows(result) /\ Len(op.todo) > 1
            /\ errors' = errs
            /\ op' = [op EXCEPT !.todo = Tail(@), !.closed = closed]
            /\ UNCHANGED <<opened, failed>>
         \/ /\ ~CloseThrows(result) /\ Len(op.todo) = 1
            /\ AfterClosing(closed, errs)

CallClose(s) ==
  /\ closeTask' = [closeTask EXCEPT ![s] = "pending"]
  /\ waiting' = [waiting EXCEPT ![s] = "close"]

(* Deviation: a close() that is still pending is not looked for.            *)
CloseServerAnew ==
  LET s == Head(op.todo) IN
  /\ op.phase = "closing"
  /\ waiting[s] = "none"
  /\ CallClose(s)
  /\ server' = [server EXCEPT ![s].closes = @ + 1]
  /\ UNCHANGED manager

(* runClose: a server that was closed is not closed again, and a close()    *)
(* that is still pending is awaited instead of called.                      *)
CloseServer ==
  LET s == Head(op.todo) IN
  /\ op.phase = "closing"
  /\ waiting[s] = "none"
  /\ \/ /\ closeTask[s] = "ok"
        /\ CloseResolved(s, "ok")
        /\ UNCHANGED <<lifecycle, calls, closeTask, server>>
     \/ /\ closeTask[s] = "pending"
        /\ waiting' = [waiting EXCEPT ![s] = "oldClose"]
        /\ UNCHANGED <<manager, closeTask, server>>
     \/ /\ closeTask[s] \in {"none", "failed"}
        /\ CallClose(s)
        /\ server' = [server EXCEPT ![s].closes = @ + 1]
        /\ UNCHANGED manager

(* Deviation: the wait for a close() that was already pending has no limit. *)
OwnCloseTimesOut(s) ==
  /\ waiting[s] = "close"
  /\ CloseResolved(s, "timeout")
  /\ UNCHANGED <<lifecycle, calls, closeTask, server>>

CloseTimesOut(s) ==
  /\ waiting[s] \in {"close", "oldClose"}
  /\ CloseResolved(s, "timeout")
  /\ UNCHANGED <<lifecycle, calls, closeTask, server>>

------------------------------------------------------------------------------
(* enqueueLifecycle: reconnect() and close() wait for their turn.            *)
Request(kind) ==
  /\ opened = "yes"
  /\ calls < MaxOperations
  /\ calls' = calls + 1
  /\ lifecycle' = Append(lifecycle, kind)
  /\ UNCHANGED <<op, opened, connected, failed, errors, closeTask,
                 waiting, server>>

Targets(kind) == IF kind = "reconnectFailed" THEN failed ELSE AllServers

(* reconnectNow and closeAll; with nothing to do they are over at once.  A  *)
(* full reconnection stores every server as failed before it closes any.    *)
Begin ==
  LET kind == Head(lifecycle) IN
  /\ op.kind = "none"
  /\ lifecycle # << >>
  /\ lifecycle' = Tail(lifecycle)
  /\ op' = IF Targets(kind) = << >> THEN NoOp
           ELSE [NoOp EXCEPT !.kind    = kind,
                             !.phase   = "closing",
                             !.todo    = Reverse(Targets(kind)),
                             !.targets = Targets(kind)]
  /\ IF kind = "reconnectAll"
     THEN /\ failed' = WithFailures(failed, AllServers)
          /\ errors' = [s \in Servers |->
                          IF s \in FailedSet THEN errors[s] ELSE "closed"]
     ELSE UNCHANGED <<failed, errors>>
  /\ UNCHANGED <<calls, opened, connected, closeTask, waiting, server>>

------------------------------------------------------------------------------
(* The servers answer.                                                      *)
ServerConnects(s) ==
  \E result \in {"ok", "error", "abort"} :
    /\ server[s].connects > 0
    /\ server' = [server EXCEPT ![s].connects = @ - 1,
                                ![s].live = @ \/ result = "ok"]
    /\ \/ waiting[s] = "connect" /\ ConnectResolved(s, result)
       \/ /\ waiting[s] # "connect"
          /\ UNCHANGED <<waiting, op, opened, connected, failed, errors>>
    /\ UNCHANGED <<lifecycle, calls, closeTask>>

StaleConnectEnds(s) ==
  /\ server[s].stale > 0
  /\ server' = [server EXCEPT ![s].stale = @ - 1]
  /\ UNCHANGED <<manager, closeTask, waiting>>

ServerCloses(s) ==
  /\ server[s].closes > 0
  /\ server' = [server EXCEPT ![s] = [connects |-> 0,
                                      stale    |-> @.stale + @.connects,
                                      closes   |-> @.closes - 1,
                                      live     |-> FALSE]]
  /\ closeTask' = [closeTask EXCEPT ![s] = "ok"]
  /\ \/ waiting[s] # "none" /\ CloseResolved(s, "ok")
     \/ /\ waiting[s] = "none"
        /\ UNCHANGED <<waiting, op, opened, connected, failed, errors>>
  /\ UNCHANGED <<lifecycle, calls>>

(* A failure is stored when it comes, also by a close() that was given up;  *)
(* whoever was awaiting an earlier close() calls it again.                  *)
ServerFailsToClose(s) ==
  \E error \in {"error", "abort"} :
    /\ server[s].closes > 0
    /\ \/ /\ waiting[s] = "oldClose"
          /\ CallClose(s)
          /\ errors' = [errors EXCEPT ![s] = error]
          /\ UNCHANGED <<server, op, opened, connected, failed>>
       \/ /\ waiting[s] # "oldClose"
          /\ closeTask' = [closeTask EXCEPT ![s] = "failed"]
          /\ server' = [server EXCEPT ![s].closes = @ - 1]
          /\ \/ waiting[s] = "close" /\ CloseResolved(s, error)
             \/ /\ waiting[s] # "close"
                /\ errors' = [errors EXCEPT ![s] = error]
                /\ UNCHANGED <<waiting, op, opened, connected, failed>>
    /\ UNCHANGED <<lifecycle, calls>>

------------------------------------------------------------------------------
Init ==
  /\ options \in [parallel : BOOLEAN, strict : BOOLEAN, suppressAbort : BOOLEAN]
  /\ lifecycle = << >>
  /\ op = [NoOp EXCEPT !.kind = "open", !.phase = "connecting", !.todo = AllServers]
  /\ calls = 0
  /\ opened = "no"
  /\ connected = {}
  /\ failed = << >>
  /\ errors = [s \in Servers |-> "none"]
  /\ closeTask = [s \in Servers |-> "none"]
  /\ waiting = [s \in Servers |-> "none"]
  /\ server = [s \in Servers |->
                 [connects |-> 0, stale |-> 0, closes |-> 0, live |-> FALSE]]

Manager == (Begin \/ Connect \/ CloseServer) /\ UNCHANGED options

Timeouts ==
  /\ \E s \in Servers : ConnectTimesOut(s) \/ CloseTimesOut(s)
  /\ UNCHANGED options

Environment ==
  /\ \/ \E kind \in Operations : Request(kind)
     \/ \E s \in Servers : \/ ServerConnects(s) \/ StaleConnectEnds(s)
                          \/ ServerCloses(s) \/ ServerFailsToClose(s)
  /\ UNCHANGED options

Next == Manager \/ Timeouts \/ Environment

Spec == Init /\ [][Next]_vars

(* Continuations and timers run; nothing is assumed of the servers.         *)
FairSpec == Spec /\ WF_vars(Manager) /\ WF_vars(Timeouts)

------------------------------------------------------------------------------
OpType ==
  [kind : Operations \cup {"none", "open"},
   phase : {"none", "connecting", "closing"}, todo : Seq(Servers),
   targets : Seq(Servers), closed : SUBSET Servers, threw : BOOLEAN]

(* Type invariant.                                                          *)
TypeOK ==
  /\ options \in [parallel : BOOLEAN, strict : BOOLEAN, suppressAbort : BOOLEAN]
  /\ lifecycle \in Seq(Operations)
  /\ op \in OpType
  /\ calls \in 0 .. MaxOperations
  /\ opened \in {"no", "yes", "failed"}
  /\ connected \subseteq Servers
  /\ failed \in Seq(Servers) /\ IsInjective(failed)
  /\ errors \in [Servers -> {"none", "error", "abort", "timeout", "closed"}]
  /\ closeTask \in [Servers -> {"none", "pending", "ok", "failed"}]
  /\ waiting \in [Servers -> {"none", "connect", "close", "oldClose"}]
  /\ server \in [Servers -> [connects : Nat, stale : Nat, closes : Nat,
                             live : BOOLEAN]]

Idle == op.kind = "none"

(* However late the servers answer, one is never asked to close while it is *)
(* still closing, and never asked to connect then.  A connect() that was    *)
(* given up may go on for ever; the next one is asked for only after a      *)
(* close() in between that was answered.                                    *)
NoOverlappingCalls ==
  \A s \in Servers :
    /\ server[s].closes <= 1
    /\ server[s].connects <= 1
    /\ waiting[s] = "connect" => server[s].closes = 0

(* Between operations "only healthy servers" are active: none of them is on *)
(* the list of failed servers.                                              *)
OnlyHealthyServersAreActive == Idle => connected \cap FailedSet = {}

(* No reconnection forgets a server, also one that ends with an exception:  *)
(* each server it was about is then active, or failed and can be retried.   *)
NoServerForgotten ==
  [][op.kind \in {"reconnectFailed", "reconnectAll"} /\ op'.kind = "none"
       => ToSet(op.targets) \subseteq connected' \cup ToSet(failed')]_vars

(* close() leaves no server connected without an error that says so, unless*)
(* it was stopped by an abort-like error that is not suppressed.            *)
CloseIsComplete ==
  [][op.kind = "close" /\ op'.kind = "none" /\ options.suppressAbort
       => /\ connected' = {}
          /\ \A s \in Servers : server'[s].live => errors'[s] # "none"]_vars

(* "A strict all or nothing connection": after a strict open() has thrown,  *)
(* every server that is connected was asked to close.  (It stays connected  *)
(* if its close() fails; that is not in the manager's hand.)                *)
AllOrNothing ==
  options.strict /\ opened = "failed" =>
    \A s \in Servers : server[s].live => closeTask[s] # "none"

(* A server offered as active did connect, and has not closed since: also a *)
(* close() that was given up and ends late does not leave it active.  As    *)
(* long as abort-like errors are suppressed, which is the default, a strict *)
(* open() that throws has asked every server that is connected to close,    *)
(* also those that connect late, and between operations an active server    *)
(* has no failure or error.                                                 *)
ActiveServersAreHealthy ==
  /\ \A s \in connected : server[s].live
  /\ options.suppressAbort =>
       /\ AllOrNothing
       /\ OnlyHealthyServersAreActive
       /\ Idle => \A s \in connected : errors[s] = "none"

(* Whatever the servers do, also if they never answer, every operation ends *)
(* and the ones that wait behind it get their turn.                         *)
OperationsEnd ==
  (op.kind # "none" \/ lifecycle # << >>) ~> (op.kind = "none" /\ lifecycle = << >>)
=============================================================================
