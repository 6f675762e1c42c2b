--------------------------- MODULE ServerLifecycle ----------------------------
(***************************************************************************)
(* The life of the proxy's HTTP server: the plugins the runner's helper is *)
(* given (cmd/proxy/runner/helper.go), the runnable it registers and the   *)
(* goroutines of HttpServer (pkg/server/runserver.go), until the manager's *)
(* context is cancelled and the server is shut down.                       *)
(*                                                                         *)
(* Concurrent are the goroutine that runs the runnable, the watcher it     *)
(* starts, net/http's connections, and the manager.  The handlers are what *)
(* ServingContract promises of them, which InferenceProxy implements; the  *)
(* server cancels them through BaseContext.  The cancellation reaches a    *)
(* handler in its calls of the director and of the model servers, but not  *)
(* in a read of the request's body or a write to the client: the server    *)
(* sets no timeouts, so such a call takes as long as the client likes.     *)
(*                                                                         *)
(* Abstractions.  A connection carries one request: one kept alive is, for *)
(* Shutdown, like a new one.  TLS is the question whether the certificate  *)
(* can be had.  net/http's Serve and Shutdown are modelled to the steps    *)
(* their callers can tell apart.                                           *)
(***************************************************************************)
EXTENDS Naturals, Sequences

CONSTANTS
  Requests,               \* client requests, each on a connection of its own
  OrchestrationPlugins,   \* plugins that are an OrchestrationPlugin
  OtherPlugins,           \* other plugins
  MaxPlugins,             \* bound on the plugins that are configured
  SecureServing,          \* the option of that name
  Null                    \* Go's nil

ASSUME LifecycleAssumption ==
  /\ SecureServing \in BOOLEAN
  /\ MaxPlugins \in Nat
  /\ Null \notin OrchestrationPlugins
  /\ OrchestrationPlugins \cap OtherPlugins = {}

Plugins == OrchestrationPlugins \cup OtherPlugins

VARIABLES
  added,          \* the plugins the configuration named, in order
  orchestrator,   \* ProxyRunnerHelper.orchestrator
  handler,        \* inferenceProxy.orchestrator
  leader,         \* this replica is the leader
  ctxDone,        \* the manager's context is cancelled
  start,          \* where the runnable is
  serveErr,       \* what Serve returned
  result,         \* what the runnable returned
  failure,        \* some call of the environment failed
  listener,       \* lis
  doneCh,         \* doneCh is closed
  watcher,        \* the goroutine that waits for the context
  inShutdown,     \* http.Server.inShutdown
  conn,           \* each request's connection
  blocked,        \* handlers in a read from or a write to their client
  stage, answer   \* the handlers, see ServingContract

envVars    == <<added, orchestrator, handler, leader, ctxDone>>
returnVars == <<serveErr, result, failure>>
watchVars  == <<doneCh, watcher, inShutdown>>
connVars   == <<conn, blocked, stage, answer>>
serverVars == <<envVars, start, returnVars, listener, watchVars>>
vars       == <<serverVars, connVars>>

Handlers == INSTANCE ServingContract

TypeOK ==
  /\ added \in Seq(Plugins)
  /\ {orchestrator, handler} \subseteq OrchestrationPlugins \cup {Null}
  /\ {leader, ctxDone, failure, doneCh, inShutdown} \subseteq BOOLEAN
  /\ start \in {"configuring", "registered", "listen", "serve", "accepting",
                "acceptError", "served", "returned"}
  /\ serveErr \in {"none", "ErrServerClosed", "other"}
  /\ result \in {"none", "terminated", "error"}
  /\ listener \in {"none", "open", "closed"}       \* Serve is given one that is not nil:
  /\ start \in {"serve", "accepting", "acceptError", "served"} => listener # "none"
  /\ watcher \in {"none", "select", "draining", "ended"}
  /\ conn \in [Requests -> {"none", "new", "active", "closed"}]
  /\ blocked \subseteq Requests
  /\ Handlers!TypeOK

Init ==
  /\ added = <<>>
  /\ orchestrator = Null
  /\ handler = Null
  /\ leader = FALSE
  /\ ctxDone = FALSE
  /\ start = "configuring"
  /\ serveErr = "none"
  /\ result = "none"
  /\ failure = FALSE
  /\ listener = "none"
  /\ doneCh = FALSE
  /\ watcher = "none"
  /\ inShutdown = FALSE
  /\ conn = [r \in Requests |-> "none"]
  /\ blocked = {}
  /\ Handlers!Init

------------------------------------------------------------------------------
(* The runner's helper. *)

Goto(from, to) == start = from /\ start' = to

(* The first orchestration plugin stays. *)
InstallFirst(h, plugin) ==
  IF h = Null /\ plugin \in OrchestrationPlugins THEN plugin ELSE h

(* The body of the loop of AddPlugins: the type assertion. *)
Install(h, plugin) == IF plugin \in OrchestrationPlugins THEN plugin ELSE h

(* A call with several plugins is the same as several calls: the loop keeps *)
(* nothing but the field.                                                   *)
AddPlugins ==
  /\ start = "configuring"
  /\ Len(added) < MaxPlugins
  /\ \E plugin \in Plugins :
       /\ added' = Append(added, plugin)
       /\ orchestrator' = Install(orchestrator, plugin)
  /\ UNCHANGED <<handler, leader, ctxDone, start, returnVars, listener, watchVars, connVars>>

(* The runnable is made with the orchestrator known by now. *)
CreateAndRegisterServer ==
  /\ Goto("configuring", "registered")
  /\ handler' = orchestrator
  /\ UNCHANGED <<added, orchestrator, leader, ctxDone, returnVars, listener, watchVars,
                 connVars>>

------------------------------------------------------------------------------
(* The runnable: AsRunnable and HttpServer. *)

(* The function returns an error, before there is a watcher. *)
Fail(from) ==
  /\ Goto(from, "returned")
  /\ result' = "error"
  /\ failure' = TRUE
  /\ UNCHANGED <<envVars, serveErr, listener, watchVars, connVars>>

RegistrationFails == Fail("configuring")

(* NoLeaderElection: the manager starts the runnable on every replica. *)
NeedLeaderElection == FALSE

MayStart == NeedLeaderElection => leader

AsRunnable ==
  /\ MayStart
  /\ Goto("registered", "listen")
  /\ UNCHANGED <<envVars, returnVars, listener, watchVars, connVars>>

(* The certificate cannot be loaded or made, or the reloader not be started.*)
CertificateFails == MayStart /\ SecureServing /\ Fail("registered")

(* The error of net.Listen is not returned: Serve gets a nil listener. *)
ListenFailureIgnored ==
  /\ Goto("listen", "serve")
  /\ watcher' = "select"
  /\ failure' = TRUE
  /\ UNCHANGED <<envVars, serveErr, result, listener, doneCh, inShutdown, connVars>>

ListenFails == Fail("listen")

(* The port is open, and the watcher runs. *)
Listen ==
  /\ Goto("listen", "serve")
  /\ listener' = "open"
  /\ watcher' = "select"
  /\ UNCHANGED <<envVars, returnVars, doneCh, inShutdown, connVars>>

(* Serve does not look whether the server was shut down before. *)
ServeAnyway ==
  /\ Goto("serve", "accepting")
  /\ UNCHANGED <<envVars, returnVars, listener, watchVars, connVars>>

(* Serve or ServeTLS begins; a server already shut down is not served. *)
Serve ==
  /\ \/ ~inShutdown /\ Goto("serve", "accepting") /\ UNCHANGED <<serveErr, listener>>
     \/ /\ inShutdown
        /\ Goto("serve", "served")
        /\ serveErr' = "ErrServerClosed"
        /\ listener' = "closed"
  /\ UNCHANGED <<envVars, result, failure, watchVars, connVars>>

(* Accept fails by itself, or because the listener was closed. *)
AcceptFails ==
  /\ Goto("accepting", "acceptError")
  /\ failure' = (failure \/ listener = "open")
  /\ UNCHANGED <<envVars, serveErr, result, listener, watchVars, connVars>>

(* Serve returns, and closes the listener. *)
ServeReturns ==
  /\ Goto("acceptError", "served")
  /\ serveErr' = IF inShutdown THEN "ErrServerClosed" ELSE "other"
  /\ listener' = "closed"
  /\ UNCHANGED <<envVars, result, failure, watchVars, connVars>>

(* Every error of Serve is one of the runnable. *)
AnyError(err) == "error"

(* ErrServerClosed is no error. *)
ResultOf(err) == IF err = "ErrServerClosed" THEN "terminated" ELSE "error"

(* doneCh is not closed. *)
StartReturnsWithoutClose ==
  /\ Goto("served", "returned")
  /\ result' = ResultOf(serveErr)
  /\ UNCHANGED <<envVars, serveErr, failure, listener, watchVars, connVars>>

(* The function returns; the deferred call closes doneCh. *)
StartReturns ==
  /\ Goto("served", "returned")
  /\ result' = ResultOf(serveErr)
  /\ doneCh' = TRUE
  /\ UNCHANGED <<envVars, serveErr, failure, listener, watcher, inShutdown, connVars>>

------------------------------------------------------------------------------
(* The watcher.  Both cases of the select may be ready: either is taken. *)

Watch(from, to) ==
  /\ watcher = from
  /\ watcher' = to
  /\ UNCHANGED <<envVars, start, returnVars, doneCh, connVars>>

(* Shutdown closes the listener, if Serve has registered it. *)
WatcherShutsDown ==
  /\ ctxDone
  /\ Watch("select", "draining")
  /\ inShutdown' = TRUE
  /\ listener' = IF start = "accepting" THEN "closed" ELSE listener

WatcherReleased == doneCh /\ Watch("select", "ended") /\ UNCHANGED <<inShutdown, listener>>

(* Shutdown, without a deadline, waits for the accept loop to end and then  *)
(* until no connection is left.                                             *)
ShutdownReturns ==
  /\ start \notin {"accepting", "acceptError"}
  /\ \A r \in Requests : conn[r] \in {"none", "closed"}
  /\ Watch("draining", "ended")
  /\ UNCHANGED <<inShutdown, listener>>

------------------------------------------------------------------------------
(* Connections and handlers. *)

SetConn(r, before, after) ==
  /\ conn[r] = before
  /\ conn' = [conn EXCEPT ![r] = after]

Accept(r) ==
  /\ start = "accepting"
  /\ listener = "open"
  /\ SetConn(r, "none", "new")
  /\ UNCHANGED <<serverVars, blocked, stage, answer>>

(* The request's header arrived: the handler starts, whatever the server's  *)
(* state is by now, and reads the body.                                     *)
HandlerStarts(r) ==
  /\ SetConn(r, "new", "active")
  /\ Handlers!Accept(r)
  /\ blocked' = blocked \cup {r}
  /\ UNCHANGED serverVars

(* The client leaves; or Shutdown closes a connection that is not used.     *)
ConnCloses(r) ==
  /\ SetConn(r, "new", "closed")
  /\ UNCHANGED <<serverVars, blocked, stage, answer>>

(* The client sends the rest of the body, or takes what was written. *)
ClientMoves(r) ==
  /\ r \in blocked
  /\ blocked' = blocked \ {r}
  /\ UNCHANGED <<serverVars, conn, stage, answer>>

(* A write of a part of the answer waits for the client to take it. *)
WriteBlocks(r) ==
  /\ stage[r] = "serving"
  /\ r \notin blocked
  /\ blocked' = blocked \cup {r}
  /\ UNCHANGED <<serverVars, conn, stage, answer>>

(* Only an orchestration plugin asks a prefill server. *)
HandlerAdvances(r) ==
  /\ r \notin blocked
  /\ (handler # Null /\ Handlers!Prefill(r)) \/ Handlers!Serve(r)
  /\ UNCHANGED <<serverVars, conn, blocked>>

(* A blocked handler ends only if its client leaves. *)
HandlerEnds(r) ==
  /\ SetConn(r, "active", "closed")
  /\ Handlers!Close(r)
  /\ r \in blocked => answer'[r] # "model"
  /\ blocked' = blocked \ {r}
  /\ UNCHANGED serverVars

(* The handlers' contexts do not derive from the manager's. *)
CancelledNever(r) == FALSE /\ HandlerEnds(r)

(* BaseContext: the handlers' contexts end with the manager's, and with     *)
(* them the calls of the director and of the servers.                       *)
CancelledEnds(r) == ctxDone /\ r \notin blocked /\ HandlerEnds(r)

------------------------------------------------------------------------------
(* The manager (external). *)

Elected ==
  /\ ~leader
  /\ leader' = TRUE
  /\ UNCHANGED <<added, orchestrator, handler, ctxDone, start, returnVars, listener, watchVars,
                 connVars>>

Cancel ==
  /\ ~ctxDone
  /\ ctxDone' = TRUE
  /\ UNCHANGED <<added, orchestrator, handler, leader, start, returnVars, listener, watchVars,
                 connVars>>

------------------------------------------------------------------------------

RunnableStep ==
  \/ AsRunnable \/ CertificateFails \/ Listen \/ ListenFails \/ Serve
  \/ (listener = "closed" /\ AcceptFails)
  \/ ServeReturns \/ StartReturns

WatcherStep == WatcherShutsDown \/ WatcherReleased \/ ShutdownReturns

ConnStep(r) ==
  \/ Accept(r) \/ HandlerStarts(r) \/ ConnCloses(r)
  \/ ClientMoves(r) \/ WriteBlocks(r) \/ HandlerAdvances(r) \/ HandlerEnds(r)

(* The runnable returned, and its goroutines have ended. *)
Finished ==
  /\ ctxDone /\ leader
  /\ start = "returned" /\ watcher \in {"none", "ended"}
  /\ UNCHANGED vars

Next ==
  \/ AddPlugins \/ CreateAndRegisterServer \/ RegistrationFails
  \/ RunnableStep \/ AcceptFails
  \/ WatcherStep
  \/ (\E r \in Requests : ConnStep(r))
  \/ Elected \/ Cancel
  \/ Finished

Spec == Init /\ [][Next]_vars

(* Goroutines keep running while they can; the manager starts what it may   *)
(* start; a connection without a request is closed by Shutdown; a cancelled *)
(* handler ends if it comes back from its client again and again, because   *)
(* what it calls next fails.  Nothing is assumed of the clients, of         *)
(* elections, or of handlers that are not cancelled.                        *)
FairSpec ==
  /\ Spec
  /\ WF_vars(RunnableStep)
  /\ WF_vars(WatcherStep)
  /\ \A r \in Requests :
       /\ WF_vars(watcher = "draining" /\ ConnCloses(r))
       /\ SF_vars(CancelledEnds(r))

------------------------------------------------------------------------------
(* Properties. *)

(* The handlers run with the last orchestration plugin that was configured, *)
(* however the plugins are spread over calls of AddPlugins, and without one *)
(* only if there was none (AddPlugins, CreateAndRegisterServer).            *)
LastOrchestratorServes ==
  listener # "none" =>
    \/ /\ handler = Null
       /\ \A i \in DOMAIN added : added[i] \in OtherPlugins
    \/ \E i \in DOMAIN added :
         /\ added[i] = handler
         /\ \A j \in i + 1 .. Len(added) : added[j] \in OtherPlugins

(* The runnable reports an error only if something failed, and a normal end *)
(* only after a shutdown the manager asked for, whichever of the watcher    *)
(* and the accept loop was first (runserver.go, lines 105-136).             *)
ResultIsTrue ==
  /\ result = "error" => failure
  /\ result = "terminated" => inShutdown /\ ctxDone

(* Once Shutdown has returned nothing is served any more, also when it ran  *)
(* before Serve; and the port is free once the runnable returned            *)
(* (runserver.go, lines 117-131).                                           *)
NothingAfterShutdown ==
  /\ inShutdown /\ watcher = "ended" =>
       \A r \in Requests : conn[r] \in {"none", "closed"}
  /\ start = "returned" => listener # "open"

(* No client keeps its handler waiting forever. *)
ClientsKeepMoving == \A r \in Requests : []<>(r \notin blocked)

(* Then the watcher ends after the runnable, also if the context is never   *)
(* cancelled and only doneCh releases it (runserver.go, lines 115-124).     *)
WatcherEnds ==
  ClientsKeepMoving => (start = "returned" ~> watcher \in {"none", "ended"})

(* And once the context is cancelled a server that runs comes to its end:   *)
(* Shutdown has no deadline, so each handler must be cancelled for it to    *)
(* return (BaseContext, lines 100-102 and 121).                             *)
ShutdownCompletes ==
  ClientsKeepMoving =>
    (ctxDone /\ watcher # "none" ~>
       /\ start = "returned"
       /\ watcher = "ended"
       /\ \A r \in Requests : stage[r] \in {"new", "closed"})

------------------------------------------------------------------------------
(* What the repository says and the code does not do. *)

(* The watcher ends after the runnable, whatever the clients do: "Make sure *)
(* the goroutine does not leak." (runserver.go:114).                        *)
WatcherDoesNotLeak == start = "returned" ~> watcher \in {"none", "ended"}
==============================================================================
