------------------------- MODULE ServerLifecycleProofs ------------------------
(***************************************************************************)
(* Proofs about ServerLifecycle, for any number of requests and plugins:   *)
(* what the runnable reports is true, nothing is served after the          *)
(* shutdown, and the handlers run with the last orchestration plugin.      *)
(***************************************************************************)
EXTENDS ServerLifecycle, SequenceTheorems, TLAPS

USE DEF envVars, returnVars, watchVars, connVars, serverVars, Goto, Watch, SetConn

------------------------------------------------------------------------------
(* The inductive invariant. *)

(* Before the port is opened there is neither a watcher nor a listener, and *)
(* before the accept loop runs there is no connection.                      *)
BeforeServing ==
  /\ start \in {"configuring", "registered", "listen"} =>
       watcher = "none" /\ listener = "none" /\ ~inShutdown
  /\ start = "serve" => listener = "open"
  /\ start \in {"configuring", "registered", "listen", "serve"} =>
       \A r \in Requests : conn[r] = "none"

(* Only the watcher shuts the server down, and only after a cancellation.   *)
ShutdownTracked ==
  inShutdown => ctxDone /\ watcher \in {"draining", "ended"}

(* While the accept loop runs, the listener is closed by Shutdown alone:    *)
(* an accept that fails tells of a shutdown or of a failure.                *)
AcceptTracked ==
  /\ start = "accepting" => listener = (IF inShutdown THEN "closed" ELSE "open")
  /\ start = "acceptError" => failure \/ inShutdown

(* What Serve returned tells whether the server was shut down. *)
ServeTracked ==
  /\ serveErr = "ErrServerClosed" => inShutdown
  /\ start = "served" =>
       listener = "closed" /\ (serveErr # "ErrServerClosed" => failure)

(* A watcher that has shut the server down leaves no accept loop behind. *)
LoopEnded ==
  inShutdown /\ watcher = "ended" => start \notin {"accepting", "acceptError"}

LifecycleInv ==
  /\ conn \in [Requests -> {"none", "new", "active", "closed"}]
  /\ BeforeServing
  /\ ShutdownTracked
  /\ AcceptTracked
  /\ ServeTracked
  /\ LoopEnded
  /\ ResultIsTrue
  /\ NothingAfterShutdown

USE DEF LifecycleInv, BeforeServing, ShutdownTracked, AcceptTracked, ServeTracked,
        LoopEnded, ResultIsTrue, NothingAfterShutdown

------------------------------------------------------------------------------

LEMMA InitLifecycle == Init => LifecycleInv
BY DEF Init

(* Steps of the runner's helper and of the runnable. *)
LEMMA RunnableKeepsInv ==
  LifecycleInv
  /\ (AddPlugins \/ CreateAndRegisterServer \/ RegistrationFails \/ RunnableStep \/ AcceptFails)
  => LifecycleInv'
<1> SUFFICES ASSUME LifecycleInv PROVE
      AddPlugins \/ CreateAndRegisterServer \/ RegistrationFails \/ RunnableStep \/ AcceptFails
      => LifecycleInv'
  OBVIOUS
<1>1. CASE AddPlugins
  BY <1>1 DEF AddPlugins
<1>2. CASE CreateAndRegisterServer
  BY <1>2 DEF CreateAndRegisterServer
<1>3. ASSUME NEW from \in {"configuring", "registered", "listen"}, Fail(from)
      PROVE  LifecycleInv'
  BY <1>3 DEF Fail
<1>4. CASE RegistrationFails
  BY <1>3, <1>4 DEF RegistrationFails
<1>5. CASE AsRunnable
  BY <1>5 DEF AsRunnable
<1>6. CASE CertificateFails \/ ListenFails
  BY <1>3, <1>6 DEF CertificateFails, ListenFails
<1>7. CASE Listen
  BY <1>7 DEF Listen
<1>8. CASE Serve
  BY <1>8 DEF Serve
<1>9. CASE AcceptFails
  BY <1>9 DEF AcceptFails
<1>10. CASE ServeReturns
  BY <1>10 DEF ServeReturns
<1>11. CASE StartReturns
  BY <1>11 DEF StartReturns, ResultOf
<1> QED
  BY <1>1, <1>2, <1>4, <1>5, <1>6, <1>7, <1>8, <1>9, <1>10, <1>11 DEF RunnableStep

(* Steps of the watcher. *)
LEMMA WatcherKeepsInv == LifecycleInv /\ WatcherStep => LifecycleInv'
<1> SUFFICES ASSUME LifecycleInv PROVE WatcherStep => LifecycleInv'
  OBVIOUS
<1>1. CASE WatcherShutsDown
  BY <1>1 DEF WatcherShutsDown
<1>2. CASE WatcherReleased
  BY <1>2 DEF WatcherReleased
<1>3. CASE ShutdownReturns
  BY <1>3 DEF ShutdownReturns
<1> QED
  BY <1>1, <1>2, <1>3 DEF WatcherStep

(* Steps of a connection: only Accept makes one from nothing, and only an   *)
(* open listener lets it.                                                   *)
LEMMA ConnKeepsInv ==
  ASSUME LifecycleInv, NEW r \in Requests, ConnStep(r)
  PROVE  LifecycleInv'
<1>1. CASE Accept(r)
  BY <1>1 DEF Accept
<1>2. CASE HandlerStarts(r)
  BY <1>2 DEF HandlerStarts
<1>3. CASE ConnCloses(r)
  BY <1>3 DEF ConnCloses
<1>4. CASE ClientMoves(r) \/ WriteBlocks(r) \/ HandlerAdvances(r)
  BY <1>4 DEF ClientMoves, WriteBlocks, HandlerAdvances
<1>5. CASE HandlerEnds(r)
  BY <1>5 DEF HandlerEnds
<1> QED
  BY <1>1, <1>2, <1>3, <1>4, <1>5, ConnStep(r) DEF ConnStep

LEMMA NextKeepsInv == LifecycleInv /\ [Next]_vars => LifecycleInv'
<1> SUFFICES ASSUME LifecycleInv, [Next]_vars PROVE LifecycleInv'
  OBVIOUS
<1>1. CASE Elected
  BY <1>1 DEF Elected
<1>2. CASE Cancel
  BY <1>2 DEF Cancel
<1>3. CASE UNCHANGED vars
  BY <1>3 DEF vars
<1> QED
  BY <1>1, <1>2, <1>3, RunnableKeepsInv, WatcherKeepsInv, ConnKeepsInv DEF Next, Finished

HIDE DEF LifecycleInv, ResultIsTrue, NothingAfterShutdown

(* LifecycleInv is an invariant of the specification. *)
THEOREM LifecycleInvariant == Spec => []LifecycleInv
BY InitLifecycle, NextKeepsInv, PTL DEF Spec

------------------------------------------------------------------------------

(* Whatever the order of the watcher, the accept loop and the failures, the *)
(* runnable reports an error only if something failed, and a normal end     *)
(* only after a shutdown that was asked for (HttpServer, lines 105-136).    *)
THEOREM ResultReported == Spec => []ResultIsTrue
<1>1. LifecycleInv => ResultIsTrue
  BY DEF LifecycleInv
<1> QED
  BY <1>1, LifecycleInvariant, PTL

(* With any number of connections nothing is served once Shutdown has       *)
(* returned, and a runnable that returned has freed the port (HttpServer,   *)
(* lines 104-131).                                                          *)
THEOREM ShutdownIsFinal == Spec => []NothingAfterShutdown
<1>1. LifecycleInv => NothingAfterShutdown
  BY DEF LifecycleInv
<1> QED
  BY <1>1, LifecycleInvariant, PTL

------------------------------------------------------------------------------
(* The types, and the orchestration plugin.                                 *)

LEMMA InitTypes == Init => TypeOK
<1> SUFFICES ASSUME Init PROVE TypeOK
  OBVIOUS
<1>1. added \in Seq(Plugins)
  BY DEF Init
<1>2. Handlers!TypeOK
  BY DEF Init, Handlers!Init, Handlers!TypeOK, Handlers!Stages, Handlers!Answers
<1> QED
  BY <1>1, <1>2 DEF Init, TypeOK

(* The handlers' steps keep the types of their own state. *)
LEMMA HandlersKeepTypes ==
  ASSUME NEW r \in Requests, Handlers!TypeOK,
         Handlers!Accept(r) \/ Handlers!Prefill(r) \/ Handlers!Serve(r) \/ Handlers!Close(r)
  PROVE  Handlers!TypeOK'
<1> USE DEF Handlers!TypeOK, Handlers!Stages, Handlers!Answers
<1>1. CASE Handlers!Accept(r)
  BY <1>1 DEF Handlers!Accept, Handlers!Advance
<1>2. CASE Handlers!Prefill(r)
  BY <1>2 DEF Handlers!Prefill, Handlers!Advance
<1>3. CASE Handlers!Serve(r)
  BY <1>3 DEF Handlers!Serve, Handlers!Advance
<1>4. CASE Handlers!Close(r)
  <2>1. PICK a \in Handlers!AllowedAnswers[stage[r]] : answer' = [answer EXCEPT ![r] = a]
    BY <1>4 DEF Handlers!Close
  <2>2. a \in Handlers!Answers
    BY <1>4, <2>1 DEF Handlers!Close, Handlers!AllowedAnswers
  <2> QED
    BY <1>4, <2>1, <2>2 DEF Handlers!Close
<1> QED
  BY <1>1, <1>2, <1>3, <1>4

LEMMA NextKeepsTypes == TypeOK /\ [Next]_vars => TypeOK'
<1> SUFFICES ASSUME TypeOK, [Next]_vars PROVE TypeOK'
  OBVIOUS
<1> USE DEF TypeOK
<1>0. (stage' = stage /\ answer' = answer) => Handlers!TypeOK'
  BY DEF Handlers!TypeOK
<1>1. CASE AddPlugins
  <2>1. PICK plugin \in Plugins : /\ added' = Append(added, plugin)
                                  /\ orchestrator' = Install(orchestrator, plugin)
    BY <1>1 DEF AddPlugins
  <2>2. added' \in Seq(Plugins)
    BY <2>1, AppendProperties
  <2>3. orchestrator' \in OrchestrationPlugins \cup {Null}
    BY <2>1 DEF Install
  <2> QED
    BY <1>0, <1>1, <2>2, <2>3 DEF AddPlugins
<1>2. CASE CreateAndRegisterServer
  BY <1>0, <1>2 DEF CreateAndRegisterServer
<1>3. ASSUME NEW from, Fail(from) PROVE TypeOK'
  BY <1>0, <1>3 DEF Fail
<1>4. CASE RegistrationFails \/ CertificateFails \/ ListenFails
  BY <1>3, <1>4 DEF RegistrationFails, CertificateFails, ListenFails
<1>5. CASE AsRunnable
  BY <1>0, <1>5 DEF AsRunnable
<1>6. CASE Listen
  BY <1>0, <1>6 DEF Listen
<1>7. CASE Serve
  BY <1>0, <1>7 DEF Serve
<1>8. CASE AcceptFails
  BY <1>0, <1>8 DEF AcceptFails
<1>9. CASE ServeReturns
  BY <1>0, <1>9 DEF ServeReturns
<1>10. CASE StartReturns
  BY <1>0, <1>10 DEF StartReturns, ResultOf
<1>11. CASE WatcherShutsDown
  BY <1>0, <1>11 DEF WatcherShutsDown
<1>12. CASE WatcherReleased \/ ShutdownReturns
  BY <1>0, <1>12 DEF WatcherReleased, ShutdownReturns
<1>13. ASSUME NEW r \in Requests, ConnStep(r) PROVE TypeOK'
  <2>1. CASE Accept(r) \/ ConnCloses(r) \/ ClientMoves(r) \/ WriteBlocks(r)
    BY <1>0, <2>1 DEF Accept, ConnCloses, ClientMoves, WriteBlocks
  <2>2. CASE HandlerStarts(r) \/ HandlerEnds(r)
    <3>1. Handlers!TypeOK'
      BY <2>2, HandlersKeepTypes DEF HandlerStarts, HandlerEnds
    <3> QED
      BY <2>2, <3>1 DEF HandlerStarts, HandlerEnds
  <2>3. CASE HandlerAdvances(r)
    <3>1. Handlers!TypeOK'
      BY <2>3, HandlersKeepTypes DEF HandlerAdvances
    <3> QED
      BY <2>3, <3>1 DEF HandlerAdvances
  <2> QED
    BY <1>13, <2>1, <2>2, <2>3 DEF ConnStep
<1>14. CASE Elected \/ Cancel
  BY <1>0, <1>14 DEF Elected, Cancel
<1>15. CASE UNCHANGED vars
  BY <1>0, <1>15 DEF vars
<1> QED
  BY <1>1, <1>2, <1>4, <1>5, <1>6, <1>7, <1>8, <1>9, <1>10, <1>11, <1>12, <1>13, <1>14, <1>15
     DEF Next, RunnableStep, WatcherStep, Finished

(* Every field of the helper, the server and the connections keeps its      *)
(* type, for any number of plugins and requests.                            *)
THEOREM LifecycleTypes == Spec => []TypeOK
BY InitTypes, NextKeepsTypes, PTL DEF Spec

(* h is the last orchestration plugin that was added, or there was none. *)
IsLast(h) ==
  \/ /\ h = Null
     /\ \A i \in DOMAIN added : added[i] \in OtherPlugins
  \/ \E i \in DOMAIN added :
       /\ added[i] = h
       /\ \A j \in i + 1 .. Len(added) : added[j] \in OtherPlugins

(* The helper's field is the last one at any time; the handlers were given  *)
(* it when the runnable was made, after which no plugin is added.           *)
OrchestratorTracked ==
  /\ IsLast(orchestrator)
  /\ listener # "none" \/ start \notin {"configuring", "returned"} => handler = orchestrator
  /\ start = "configuring" => listener = "none"

(* One more plugin: it is the last orchestration plugin, or changes nothing.*)
LEMMA AddKeepsLast ==
  ASSUME TypeOK, IsLast(orchestrator), NEW plugin \in Plugins,
         added' = Append(added, plugin), orchestrator' = Install(orchestrator, plugin)
  PROVE  IsLast(orchestrator)'
<1>1. /\ added \in Seq(Plugins)
      /\ DOMAIN added = 1 .. Len(added) /\ Len(added) \in Nat
      /\ DOMAIN added' = 1 .. Len(added) + 1 /\ Len(added') = Len(added) + 1
      /\ added'[Len(added) + 1] = plugin
      /\ \A i \in 1 .. Len(added) : added'[i] = added[i]
  BY AppendProperties, LenProperties DEF TypeOK
<1>2. CASE plugin \in OrchestrationPlugins
  <2>1. added'[Len(added) + 1] = orchestrator'
    BY <1>1, <1>2 DEF Install
  <2> QED
    BY <1>1, <2>1 DEF IsLast
<1>3. CASE plugin \notin OrchestrationPlugins
  <2>1. plugin \in OtherPlugins /\ orchestrator' = orchestrator
    BY <1>3 DEF Install, Plugins
  <2>2. CASE orchestrator = Null /\ \A i \in DOMAIN added : added[i] \in OtherPlugins
    BY <1>1, <2>1, <2>2 DEF IsLast
  <2>3. CASE \E i \in DOMAIN added :
               /\ added[i] = orchestrator
               /\ \A j \in i + 1 .. Len(added) : added[j] \in OtherPlugins
    <3>1. PICK i \in DOMAIN added : /\ added[i] = orchestrator
                                    /\ \A j \in i + 1 .. Len(added) : added[j] \in OtherPlugins
      BY <2>3
    <3>2. i \in DOMAIN added' /\ added'[i] = orchestrator'
      BY <1>1, <2>1, <3>1
    <3>3. ASSUME NEW j \in i + 1 .. Len(added) + 1 PROVE added'[j] \in OtherPlugins
      BY <1>1, <2>1, <3>1
    <3> QED
      BY <1>1, <3>2, <3>3 DEF IsLast
  <2> QED
    BY <2>2, <2>3 DEF IsLast
<1> QED
  BY <1>2, <1>3

LEMMA NextKeepsOrchestrator ==
  TypeOK /\ OrchestratorTracked /\ [Next]_vars => OrchestratorTracked'
<1> SUFFICES ASSUME TypeOK, OrchestratorTracked, [Next]_vars PROVE OrchestratorTracked'
  OBVIOUS
<1>1. CASE AddPlugins
  <2>1. IsLast(orchestrator)'
    BY <1>1, AddKeepsLast DEF AddPlugins, OrchestratorTracked
  <2> QED
    BY <1>1, <2>1 DEF AddPlugins, OrchestratorTracked
<1>2. ASSUME UNCHANGED <<added, orchestrator>> PROVE IsLast(orchestrator)'
  BY <1>2 DEF IsLast, OrchestratorTracked
<1> USE DEF OrchestratorTracked
<1>3. CASE CreateAndRegisterServer
  BY <1>2, <1>3 DEF CreateAndRegisterServer
<1>4. ASSUME NEW from, Fail(from) PROVE OrchestratorTracked'
  BY <1>2, <1>4 DEF Fail
<1>5. CASE RegistrationFails \/ CertificateFails \/ ListenFails
  BY <1>4, <1>5 DEF RegistrationFails, CertificateFails, ListenFails
<1>6. CASE AsRunnable \/ Listen
  BY <1>2, <1>6 DEF AsRunnable, Listen
<1>7. CASE Serve \/ AcceptFails \/ ServeReturns \/ StartReturns
  BY <1>2, <1>7 DEF Serve, AcceptFails, ServeReturns, StartReturns
<1>8. CASE WatcherStep
  BY <1>2, <1>8 DEF WatcherStep, WatcherShutsDown, WatcherReleased, ShutdownReturns
<1>9. CASE \E r \in Requests : ConnStep(r)
  BY <1>2, <1>9 DEF ConnStep, Accept, HandlerStarts, ConnCloses, ClientMoves, WriteBlocks,
                    HandlerAdvances, HandlerEnds
<1>10. CASE Elected \/ Cancel
  BY <1>2, <1>10 DEF Elected, Cancel
<1>11. CASE UNCHANGED vars
  BY <1>2, <1>11 DEF vars
<1> QED
  BY <1>1, <1>3, <1>5, <1>6, <1>7, <1>8, <1>9, <1>10, <1>11
     DEF Next, RunnableStep, Finished

LEMMA InitOrchestrator == Init => OrchestratorTracked
<1> SUFFICES ASSUME Init PROVE OrchestratorTracked
  OBVIOUS
<1>1. DOMAIN added = {}
  BY DEF Init
<1> QED
  BY <1>1 DEF Init, OrchestratorTracked, IsLast

(* However many plugins are configured, and in whatever order, a server     *)
(* that listens serves with the last orchestration plugin, and without one  *)
(* only if there was none (AddPlugins, CreateAndRegisterServer).            *)
THEOREM OrchestratorChosen == Spec => []LastOrchestratorServes
<1>1. OrchestratorTracked => LastOrchestratorServes
  BY DEF OrchestratorTracked, IsLast, LastOrchestratorServes
<1> QED
  BY <1>1, InitOrchestrator, NextKeepsOrchestrator, LifecycleTypes, PTL DEF Spec
==============================================================================
