# Verification of the llm-d inference proxy

TLA+ modules for the inference proxy in `src/`, the TLC configurations that
check them on small instances, and TLAPS proofs of the results that matter
most for every instance.

## 1. The system

The proxy is one Go process.  It takes OpenAI-style HTTP requests, asks the
*director* of the gateway inference extension (a library) for a model server,
and relays the server's answer.  With an *orchestration* plugin a request is
first sent to a *prefill* server, which fills a KV cache and returns
`kv_transfer_params`, and then to a *decode* server, which gets these
parameters and answers the client.  Without such a plugin the scheduler can
still pick a prefill worker, and hands its address to the decode worker's
sidecar in a header.

| Component | State | Operations | Hard behaviour |
|---|---|---|---|
| HTTP handler (`pkg/handlers/proxy.go`) | the orchestration plugin | `ServeHTTP`: request ID, prepare, orchestrate | an error returned half way; one goroutine per request |
| Request context (`pkg/orchestrations/{orchestration,standard,plugin_api}.go`) | header map, body, target, scheduling request, response state | `PrepareRequest`, `DetermineTargets`, `SendRequest`, `SendRequestAndResponse`, `StandardProcessing`, `handleEndOfResponse` | map iteration order, two spellings of a key, cancellation, panics |
| P/D orchestration (`pkg/plugins/orchestration`) | saved body fields | non-deferred and deferred prefill/decode | the shared body is changed in place and restored |
| Response writers (`response_writer.go`) | collected body, streaming flag | tee to the client; collect the prefill reply | break-offs in the middle of a body, 1xx headers, event streams |
| P/D profile handler (`pkg/plugins/profile/pd_profile_handler.go`) | parameters | `Pick`, `ProcessResults` | the scheduler loops until `Pick` returns nothing; floating point at the threshold |
| Prefill header handler (`pkg/plugins/pre-request`) | header map | `PreRequest` | nil results, stale headers |
| Label filters (`pkg/plugins/filter`) | label, values; selector | `Filter`, what the factories accept | missing label versus empty label |
| HTTP server (`pkg/server/runserver.go`, `leader_election.go`) | listener, `doneCh`, context, `inShutdown` | start, serve, watcher goroutine, shutdown | shutdown before, while or after the accept loop runs, and while handlers run or wait for their clients; a goroutine that must not leak |
| Runner (`cmd/proxy/runner/helper.go`) | the orchestration plugin | `AddPlugins`, `CreateAndRegisterServer` | which plugin is known when the server is registered |
| Metrics, TLS, registration | – | wiring | – |

Handlers of different requests interleave; what they share is the state that
scheduler plugins keep per request ID.  Everything else that is concurrent is
outside the handler: the client may hang up, and a server may answer, break
off or never answer, at any moment.

What makes the parts correct:

* handler and orchestrations: the serving server is asked what the client
  asked; the client is answered once, by the serving server or with an error;
  the prefill stays invisible; requests do not disturb one another through
  their IDs; a handler whose client left ends;
* response writers: both sides of the tee agree; completion hooks and token
  counts match the response that was relayed;
* scheduling: the decision follows the threshold and is taken once; the cycle
  ends; the header names the worker that was picked; roles are respected;
* server: the last orchestration plugin configured serves; what the server
  reports is what happened; a shutdown comes to its end, leaves no goroutine
  behind, and after it nothing is served.

## 2. Modules

| Module | Models | Checked by |
|---|---|---|
| `ServingContract` | abstract: what one request is promised (prefilled at most once, then served at most once; which answers are possible after which stage) | as property `ImplementsContract` of `InferenceProxy`; its actions drive the handlers of `ServerLifecycle` |
| `RelayContract` | abstract: what the relay of one response does to the client (one final status, then a body to its end or cut; or a 502 and nothing else) | as properties `ImplementsRelay` of `ResponseRelay` and `RelaysAsPromised` of `InferenceProxy` |
| `InferenceProxy` | handler, request context, both P/D orchestrations | `MCInferenceProxy`, two passing and three violation runs |
| `InferenceProxyProofs`, `ServingContractProofs`, `RequestIdProofs` (each extends the one before) | theorems about `InferenceProxy` | TLAPS |
| `ResponseRelay` | `CopyingResponseWriter`, its handlers, `handleEndOfResponse`, chunk by chunk | one passing run, one violation run; `ResponseRelayProofs` |
| `LabelFilter` | `ByLabel`, the role filters and `ByLabelSelector`, as operators | through `PdScheduling` |
| `PdScheduling` | `Pick`, `ProcessResults`, `PreRequest` around the scheduler's loop | `MCPdScheduling`, one passing and two violation runs; `PdSchedulingProofs` |
| `ServerLifecycle` | the runner's helper, the runnable, the watcher and the shutdown, around net/http's connections | one passing run, one violation run; `ServerLifecycleProofs` |

The modules are put together by the two contracts.  `InferenceProxy` implements
`ServingContract`, and `ServerLifecycle` runs handlers that do what
`ServingContract` allows.  `InferenceProxy` and
`ResponseRelay` both implement `RelayContract`: the few steps the relay is in
the one promise the client what the chunk-wise relay of the other keeps.

### InferenceProxy

One control location `pc[r]` per request.  Steps are cut where the code blocks
or hands over: reading the body, the director, the prefill round trip, the
decode round trip, the copying of the body.  Everything between two such points
is one action, because only the request's own goroutine sees that state; the
plugin state, which is shared, is read and written inside the director call and
inside `commonSendRequest`.

| Variables | Code |
|---|---|
| `orchestrator` | `inferenceProxy.orchestrator`, with `deferredDecode` |
| `clientId`, `clientBody`, `gone` | `o.req`: the ID header, the body, the context |
| `headers`, `body`, `targetEndpoint`, `schedId` | `reqCtx.Request.Headers` / `.Body`, `reqCtx.TargetEndpoint`, `reqCtx.SchedulingRequest.RequestId` |
| `saved`, `kvParams` | locals of `sendPrefillRequest` |
| `targets` | the scheduling results of the two profiles |
| `sent` | what each server was asked |
| `pluginState`, `missed` | plugins' state per request ID; the `PreRequest` runs that found none |
| `err`, `status`, `writes`, `from`, `conn` | the returned error and the client's connection |

A body is a function of the fields the prefill touches, and `"prompt"` for all
others; a header map keeps the two spellings of the ID's key.  The model keeps
`x-request-id` (what the Go code writes) apart from `X-Request-Id` (what
net/http delivers), because the header map does.

### ResponseRelay

The detail of `RelayHeader`, `RelayEnd`, `RelayBroken` and `DecodeUnreachable`.
`served` is what came from the server, `collected` what the writer kept,
`relayed` what went on to the client.  Hooks and metrics are counters.

### PdScheduling

One cycle, with the handler's parameters, the profiles' filters, the labels, the
prompt length and the prefix hits chosen initially.  The filters say who may
prefill and who may decode in four ways: by the role filters, by `by-label` with
unlabelled decode workers, by `by-label` with the empty string among the valid
values and "both" workers in both profiles, and by label selectors.  The branch of
`PreRequest` that clears a header is in the model and is not taken in a cycle:
the header map has canonical keys when it comes from net/http, nothing but
`PreRequest` writes the lower-case key, and without an orchestration plugin it
runs once; with one the scheduling result has no prefill profile
(`plugin_api.go:92-99`).  The threshold decision is arithmetic on
integers; where the code's float64 product can land just below an integer it
equals, both outcomes are allowed (`ShortOutcomes`).  An example is a 5-byte
prompt, 4 bytes cached and threshold 1: `(1.0-4/5.0)*5` is less than 1.

### ServerLifecycle

Five kinds of actors: the runnable, the watcher, the handlers with their
connections, the clients and the manager.  `start` is where the runnable is (configuring,
registered, about to listen, about to serve, accepting, returned), `watcher` the
goroutine of `runserver.go:117`, `conn` the connections, and the manager elects
and cancels.

| Variables | Code |
|---|---|
| `added`, `orchestrator` | the plugins given to `AddPlugins`; `ProxyRunnerHelper.orchestrator` |
| `handler` | the orchestrator `NewProxy` was given |
| `ctxDone`, `leader` | the manager's context; whether this replica was elected |
| `listener`, `doneCh`, `inShutdown` | `lis`, `doneCh` (closed or not), the server's flag |
| `serveErr`, `result`, `failure` | what `Serve` and the runnable returned; whether a call of the environment failed |
| `stage`, `answer` | the handlers, as in `ServingContract` |
| `blocked` | the handlers in a call only their client can end: the read of the body (`orchestration.go:114`), a write of the answer (`response_writer.go:60`) |

The cuts are where another goroutine can see the difference: the listener is
open before `Serve` looks at `inShutdown`, `Accept` fails before `Serve` decides
which error that is, and `Shutdown` closes the listener before it waits.  Both
cases of the watcher's `select` can be ready at once; either is taken.

### External parts

net/http (the status line, recovery of panics, context cancellation, `Serve`,
`Shutdown` and their connections), controller-runtime's manager,
`httputil.ReverseProxy` (502 on a failed round trip, a panic on a broken body,
the final header) and the director, scheduler and its plugins are modelled from
how `src/` uses them.  That `PreRequest` plugins drop the state they read is
the behaviour `src/proxy.log` shows for the prefix plugin: the second run of a
request reports that its state cannot be read.

## 3. Runs

| Run | Shows |
|---|---|
| `single` | One request; all 64 combinations of the body's fields, all three orchestrations, every failure.  The serving server gets the client's body plus the prefill's `kv_transfer_params` (`DecodeBodyIntact`), at most one status line is written (`OneStatusLine`), no request is sent to a nil target (`TypeOK`), both contracts hold (`ImplementsContract`, `RelaysAsPromised`), and a handler whose client hung up ends, wherever it was (`HangUpReleases`). |
| `pair` | Two requests in every interleaving, with equal, different, empty and missing IDs: a request with an ID of its own finds its plugin state (`PluginStateFound`); without a client's ID both servers get one ID that nobody else has (`IdSharedByBothServers`). |
| `relay` | Responses of up to three chunks and two 1xx headers with every break-off: `TeeAgrees`, `CompletionHookOnce`, `TokensMatchReply`, and the relay contract holds (`ImplementsRelay`). |
| `scheduling` | With and without a threshold and Data Parallel: prefill is left out exactly for a suffix smaller than the threshold, but for the case of `threshold_rounding` (`ThresholdDecides`); one decision is taken (`OneDecision`); the request that leaves the proxy names the prefill worker, but for the case of `stale_header` (`PrefillWorkerHandedOver`); the workers have the roles they are used in (`WorkersHaveTheirRoles`); and the cycle ends (`CycleEnds`). |
| `lifecycle` | From the first plugin to the end of the shutdown, with every failure: the last orchestration plugin serves (`LastOrchestratorServes`), the reported result is true (`ResultIsTrue`), nothing is served and the port is free afterwards (`NothingAfterShutdown`); and as long as no client keeps its handler waiting forever the watcher ends (`WatcherEnds`) and the shutdown ends (`ShutdownCompletes`). |

Runs that are expected to fail, because the repository says one thing and the
code does another (quotations in `PROJECT.json`, `findings`):

| Run | Shows |
|---|---|
| `dropped_error` | `ServeHTTP` drops the error of `Orchestrate`; the client gets an empty 200. |
| `lost_uuid` | When the client sent an ID, map iteration order decides whether a server gets it or the generated UUID. |
| `lost_state` | Non-deferred: the `PreRequest` plugins run twice on one scheduling request; the second run finds no state. |
| `stream_usage` | The usage reported in an event stream is never recorded: nothing sets `isStreaming`, and `content-type` is compared with a canonical key. |
| `threshold_rounding` | A suffix that equals the threshold is taken for a smaller one: the quotient was rounded. |
| `stale_header` | A prefill header from the client is under another key and is not cleared. |
| `watcher_leak` | A client that stops in the middle of its request keeps the watcher in `Shutdown` forever; the runnable has reported the end of the server by then. |

Seen while modelling, without a run of their own: with a third profile
configured `Pick` returns the prefill profile forever, because the number of
results never equals the number of profiles (`pd_profile_handler.go:138`; TLC shows
`CycleEnds` violated when `Profiles` has a third member); the server reports its end
while handlers run, client or no client, because nothing waits for the watcher's
`Shutdown` (the last states of `watcher_leak`); with "" among its valid values
`by-label` lets unlabelled pods through although `allowsNoLabel` is false
(`by_label.go:95`); an event stream is kept in
memory to its end for the same reason as in `stream_usage`; the writer hides
`Flush`; a reply whose `usage` has another shape panics the handler after it
was relayed (action `UsagePanics`); the latency of a JSON response is recorded
twice (`orchestration.go:232` and `:245`); a 1xx header marks the request as a
model server error, also when a 200 follows; a cut connection never calls the completion hook
(`CompletionHookOnce` states it); `NewPrefillRole` does not accept workers
labelled "both"; a malformed body is answered 500; of a header with several
values only the first is passed on (`orchestration.go:96`), and headers the
reverse proxy removes as hop-by-hop are set again from the map
(`orchestration.go:156`); the fairness, objective and rewrite headers are looked
for under the library's spelling among canonical keys (`orchestration.go:97-104`);
the message of a certificate that cannot be loaded speaks of a self-signed one
(`runserver.go:63`).

### Bounds

* `single`: one request, two endpoints, one value per body field.  No action
  compares two values of a field or two endpoints, so presence and identity are
  all that counts.
* `pair`: two requests are enough for every pairwise property; one client ID
  makes collisions happen, and the empty and the missing ID are always there.
  One body, since `single` covers the bodies.
* `relay`: `MaxChunks = 3`, `MaxInformational = 2`; usage and end marker fall
  into one chunk, into two, in either order, or are missing.
* `scheduling`: two pods, prompts below, at and above the threshold 5, blocks
  of 4 bytes and up to 3 hits, so the cached part can be nothing, less than the
  prompt and more than the prompt.  `MaxDecisions = 2` is one more than
  `OneDecision` allows.  Pods carry each role, the empty label or none.
  `threshold_rounding` has one prompt, block size and threshold for which float64
  arithmetic is known to go below: the model allows both outcomes at every such
  point, and there the code takes the wrong one.
* `lifecycle`: two connections, so that one may be active while another is new;
  two orchestration plugins and another one, up to `MaxPlugins = 2` of them, one
  after the other (`AddPlugins` takes its list plugin by plugin and keeps
  nothing else between them), so that order, repetition and absence occur.  Secure
  serving is on: the certificate's failure is one more way, not another one.

Deadlock is checked in all runs; the `Finished` disjuncts stand for a system
with nothing left to do.

### Fairness

* `InferenceProxy`: weak fairness of each handler's own steps (the Go scheduler
  runs runnable goroutines) and of `Cancelled`, the return of a call whose client
  is gone: the read of the body fails with the client's connection, the director
  and the round trips carry the request's context, which net/http cancels.
  Nothing is assumed of clients and servers.
* `PdScheduling`: weak fairness of `Step`, one goroutine that nothing blocks.
* `ServerLifecycle`: weak fairness of the runnable (an accept that fails is only
  assumed of a closed listener) and of the watcher; of `Shutdown` closing a
  connection that has no request, which net/http does after five seconds.  Strong
  fairness of `CancelledEnds`, the end of a handler whose context is cancelled
  and that is not waiting for its client: whenever it comes back from the client
  the next read from a server or call of the director fails with the context, but
  another write may come in between.  The cancellation does not reach a
  handler that waits for its client, so nothing is assumed of `ClientMoves` or of
  the end of such a handler: that the shutdown ends rests on `BaseContext` and on
  `ClientsKeepMoving`, the hypothesis of `WatcherEnds` and `ShutdownCompletes`,
  without which `watcher_leak` refutes them.  Nothing is assumed of elections and
  of handlers that are not cancelled.

## 4. Proofs

Every invariant, every action property and every refinement that a passing run
checks is also a theorem.  Each proof follows one plan: an invariant that is
inductive and implies the property, a lemma that the initial states satisfy it,
a lemma with one step per action that the actions keep it, and the theorem that
combines them.  All the invariants named below were checked with TLC on the
instance of the corresponding run before they were proved.

The assumptions are those of the modules, about constants only:

| Assumption | Says |
|---|---|
| `ConstantsAssumption` | the markers `Absent` and `Null` are no values of a client, no IDs and no endpoints; statuses are HTTP statuses |
| `RelayAssumption` | statuses are HTTP statuses; the bounds are natural numbers |
| `PdAssumption` | thresholds, ports and the block size are integers (not yet validated); a prompt is not empty; the decode profile is configured, and the prefill profile too unless it is the only one; a pod is an address and a port; `Null` and `NotRun` are different and no pods; the counter's bound is at least 1 |
| `LifecycleAssumption` | a plugin is an orchestration or it is not; nil is no plugin |

So requests, endpoints, pods, bodies, IDs, plugins, statuses and bounds are
arbitrary, and the sets need not be finite.

### InferenceProxy

`InferenceProxyProofs`:

* `TypeCorrect`: `Spec => []TypeOK`.  `TypeOK` says that requests go to
  endpoints only, never to nil, which is not inductive: a nil result is legal
  until it is used.  `TargetsReady` ties the location to the result (a handler
  about to send to a server has a target for it).
* `BodyReachesServer`: `Spec => []DecodeBodyIntact`.  The body differs from the
  expected one while the prefill is under way.  `BodyTracked` says, by location,
  what body and saved fields are: the client's, the prefill's version of it, or
  the restored one.  The lemma `RestoreUndoesPrefill` carries the algebra:
  restoring the saved fields into the prefill's body gives back the client's,
  field by field, whatever the client had sent.
* `AnsweredOnce`: `Spec => []OneStatusLine`.  `StatusTracked` says that nothing
  has been written at any location from which a step may still write.

`ServingContractProofs`:

* `ContractImplemented`: `Spec => ImplementsContract`, the refinement of
  `ServingContract`.  Every action is first reduced to a *move*: what it does to
  the five variables the contract can see (`StepIsMove`).  `ContractInv` ties
  the location to what was sent (`SentTracked`) and to what the client was given
  (`AnswerTracked`); it is needed because which answers may close a request
  depends on the stage, and the stage on who was sent the request many steps
  earlier.  `MoveKeepsInv` shows it inductive, `MoveRefines` maps each move to a
  step of the contract or to a stutter.  The contract allows an empty 200 for a
  request that was not served yet: that this happens is the run `dropped_error`.
* `RelaysImplemented`: `Spec => RelaysAsPromised`, the refinement of
  `RelayContract` by each request, from the same moves and the same invariant
  (`MoveRelays`).  That a request is unanswered when it is passed on, and that a
  handler that returns after it was passed on has written a status, are
  conjuncts of `AnswerTracked`.

`RequestIdProofs`, for any number of handlers that run at once:

* `StateIsFound`: `Spec => []PluginStateFound`.  State is stored by one step and
  looked up by a later one, and any number of other handlers may store and drop
  state in between.  `IdsTracked` says that every ID a handler knows or is
  scheduled under is one of its request's *own* (`OwnIds`: the two made for it,
  and the one its client chose); `OwnIdsDisjoint` that a request whose client
  did not choose another client's ID shares none with any other.  So what another
  handler drops is not this request's state (`OthersKeepState`), and
  `StateTracked` says at which locations it is still there.
* `IdsAreShared`: `Spec => []IdSharedByBothServers`.  `UuidTracked` says that
  after a prefill was sent the UUID made for it is the value of the lower-case
  key, also once `sendPrefillRequest` has set it again.  Without a client's ID it
  is the only value, so the order of the map's iteration makes no difference.

### ResponseRelay

`ResponseRelayProofs`, for responses of any length and any number of 1xx headers.
`RelayInv` has the type invariant (`RelayTypes`) and four parts: nothing ever
counts as a stream (`NotStreaming`); what was collected is what was served, and
the client lacks at most the last chunk, and then the connection is aborted
(`TeeTracked`); where the handler is says whether a header, a body and an end
were seen (`PlaceTracked`); nothing is reported before the end, and then what
the reply says (`EndTracked`).  From it:

* `TeeIsExact` (`TeeAgrees`), `HookRunsOnce` (`CompletionHookOnce`),
  `TokensAreReported` (`TokensMatchReply`);
* `RelayContractImplemented`: `Spec => ImplementsRelay`.  Together with
  `RelaysImplemented` both levels of the relay keep the one contract.

### PdScheduling

`PdSchedulingProofs`, for any pods, labels, prompts, hits, thresholds and ports.
`PdInv` adds to the type invariant (`SchedulingTypes`) that the decode profile
runs first and the prefill profile only for a decode worker (`DecodeFirst`), that
what a profile picked passed its filter (`PickedByRole`), and that result and
headers are copies of what was picked, but for the outgoing header, which may be
the client's (`OutTracked`).  From it:

* `ThresholdRespected` (`ThresholdDecides`), with lemmas on the arithmetic: what
  `Pick` multiplies and compares is the uncached suffix of the prompt
  (`SuffixIsCompared`), and the comparison is strict unless the suffix equals the
  threshold after a division (`ShortIsShort`, `LongIsLong`);
* `RolesRespected` (`WorkersHaveTheirRoles`), from `FiltersSeparate`: each of the
  four ways to write the filters keeps workers that only prefill from decoding,
  and workers that cannot prefill from prefilling, for every label a pod may carry
  or lack;
* `HeaderNamesPrefiller` (`PrefillWorkerHandedOver`);
* `DecisionIsOne`: `TwoProfiles => (Spec => []OneDecision)`.  The hypothesis says
  that no profile but decode and prefill is configured, as in the run
  `scheduling`.  It cannot be dropped: `Pick` stops by comparing the number of
  results with the number of profiles, and with a third profile it decides again
  each time it is called.

### ServerLifecycle

`ServerLifecycleProofs`, for any requests and plugins:

* `ResultReported`: `Spec => []ResultIsTrue`, and `ShutdownIsFinal`:
  `Spec => []NothingAfterShutdown`.  Neither is inductive: what `Serve` returns
  is decided steps after the accept failed, and a connection may turn up as long
  as the listener is open.  `LifecycleInv` adds that only the watcher shuts the
  server down and only after a cancellation (`ShutdownTracked`), that while the
  accept loop runs the listener is closed exactly if the server is being shut
  down (`AcceptTracked`), that `ErrServerClosed` means a shutdown and any other
  end a failure (`ServeTracked`), and that no accept loop outlives `Shutdown`
  (`LoopEnded`).  The handlers' own steps play no part, nor does who waits for
  whom.
* `OrchestratorChosen`: `Spec => []LastOrchestratorServes`.
  `OrchestratorTracked` says that the helper holds the last orchestration plugin
  of what was added so far, at any time, and that the handlers were given it when
  the runnable was made, after which no plugin is added; `AddKeepsLast` is the
  step for one more plugin.
* `LifecycleTypes`: `Spec => []TypeOK`, with which `Serve` is never given a nil
  listener.

### Only model-checked

Liveness under fairness, which is out of the prover's reach: `HangUpReleases`,
`CycleEnds`, `WatcherEnds`, `ShutdownCompletes`.  The
runs that are expected to fail are counterexamples, and need no proof.

## 5. Not modelled

* The registration of the plugins' factories and the parsing of their
  parameters; what the factories accept is modelled.
* The making of a self-signed certificate and its reloading: calls of the crypto
  library, of which only the failure matters to the server.
* Other headers of the request (fairness ID, objective, model rewrite) and most
  metrics: they are handed to the library, and nothing in the repository says
  what should come of them.
* The moment at which net/http sends out what it buffers, and memory.
* The metrics logger `AsRunnable` starts: a goroutine of the library.

## 6. Plan

Done: `InferenceProxy` with its contract, `ResponseRelay` and the relay contract
that ties the two together, `PdScheduling` with the filters, `ServerLifecycle`,
and the theorems of section 4.  Next:

1. the safety facts that the liveness properties rest on: a handler that is
   cancelled is at a location from which a step of `Cancelled` or a local step
   leads on, and each such step comes closer to the end;
2. the handlers of `ServerLifecycle` as a refinement of `ServingContract`, so
   that the composition of the two modules is itself a theorem;
3. what the violation runs leave true: under which conditions on the client's ID
   and the orchestration the three statements about IDs and state do hold.
