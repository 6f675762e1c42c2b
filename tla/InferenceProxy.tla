---------------------------- MODULE InferenceProxy ----------------------------
(***************************************************************************)
(* The life of the client requests inside the proxy: the HTTP handler      *)
(* (pkg/handlers/proxy.go), the request context it builds                  *)
(* (pkg/orchestrations), the standard processing and the two prefill /     *)
(* decode (P/D) orchestrations (pkg/plugins/orchestration).                *)
(*                                                                         *)
(* Each request is a goroutine of its own; they interleave, and share only *)
(* the per-request state that scheduler plugins keep under the request ID. *)
(* A request is a sequence of local steps between the calls that block: the*)
(* body being read, the director, the prefill server, the serving server.  *)
(* What a server answers is chosen from all its possible outcomes.         *)
(*                                                                         *)
(* Abstractions.  A body is a function from the fields the orchestration   *)
(* touches (and "prompt", for every other field) to values; Absent marks a *)
(* key that is not in the map, Null a JSON null / Go nil.  Of the headers, *)
(* only the request ID is kept, under the two spellings of its key that    *)
(* the header map can hold.  Relaying the serving server's response is two *)
(* steps here; module ResponseRelay has it chunk by chunk.                 *)
(***************************************************************************)
EXTENDS Naturals

CONSTANTS
  Requests,       \* client requests, each with a connection of its own
  Endpoints,      \* model servers the scheduler may pick
  ClientIds,      \* values clients put in the X-Request-Id header
  ClientValues,   \* values clients put in body fields
  ClientBodies,   \* the bodies clients send
  KVParams,       \* kv_transfer_params values a prefill server returns
  ModelStatuses,  \* HTTP statuses model servers answer with
  Absent,         \* no such key in a map
  Null            \* Go's nil

------------------------------------------------------------------------------
(* Body fields and values. *)

KVField      == "kv_transfer_params"
SavedFields  == {"stream", "stream_options", "max_tokens", "max_completion_tokens"}
Fields       == SavedFields \cup {KVField, "prompt"}

(* The values sendPrefillRequest writes into the body. *)
StreamOff    == "stream: false"
OneToken     == "tokens: 1"
RemoteDecode == "do_remote_decode"

FieldValues  == ClientValues \cup KVParams
                  \cup {StreamOff, OneToken, RemoteDecode, Null, Absent}
Body         == [Fields -> FieldValues]

------------------------------------------------------------------------------
(* Request IDs and the two spellings of the header map's key: the Go code   *)
(* writes the lower-case one, net/http delivers the canonical one.          *)

LowerKey     == "x-request-id"
CanonicalKey == "X-Request-Id"
Spellings    == {LowerKey, CanonicalKey}

EmptyId        == [src |-> "empty", of |-> Null]      \* the header is there, with value ""
ClientId(c)    == [src |-> "client", of |-> c]
GeneratedId(r) == [src |-> "generated", of |-> r]     \* uuid.NewString in ServeHTTP
PrefillUuid(r) == [src |-> "prefill", of |-> r]       \* uuid.NewUUID in sendPrefillRequest

SuppliedIds == {EmptyId} \cup {ClientId(c) : c \in ClientIds}
Ids         == SuppliedIds \cup {GeneratedId(r) : r \in Requests}
                           \cup {PrefillUuid(r) : r \in Requests}
HeaderMap   == [Spellings -> Ids \cup {Absent}]

------------------------------------------------------------------------------

Roles         == {"prefill", "decode"}  \* "decode": the server that answers the client
Orchestrators == {"none", "nonDeferred", "deferred"}
Outgoing      == [to : Endpoints, id : Ids, body : Body]  \* never to a nil target

Labels == {"idle", "prepare", "schedule", "sendPrefill", "prefillWait",
           "scheduleDecode", "sendDecode", "decodeWait", "relay", "returning", "done"}

Origins == {"none", "proxy", "prefill", "decode"}

(* The constants are what the code can meet: a client never sends the       *)
(* markers Absent and Null as values, and some server statuses exist.       *)
ASSUME ConstantsAssumption ==
  /\ ClientBodies \subseteq [Fields -> ClientValues \cup {Absent}]
  /\ Absent \notin ClientValues \cup KVParams \cup {Null, StreamOff, OneToken, RemoteDecode}
  /\ Absent \notin Ids
  /\ Absent \notin Outgoing
  /\ Null \notin Endpoints
  /\ ModelStatuses \subseteq 200..599

------------------------------------------------------------------------------

VARIABLES
  orchestrator,    \* inferenceProxy.orchestrator (and its deferredDecode)
  pc,              \* where the handler of request r is
  clientId,        \* the X-Request-Id value on o.req, Absent if there is none
  clientBody,      \* the body on o.req, decoded
  gone,            \* the request's context is cancelled: the client hung up
  headers,         \* reqCtx.Request.Headers
  body,            \* reqCtx.Request.Body
  saved,           \* locals of sendPrefillRequest: the fields it will restore
  kvParams,        \* pKVTransferParams, Absent until the prefill server answered
  targets,         \* the scheduling results, per role
  targetEndpoint,  \* reqCtx.TargetEndpoint
  schedId,         \* reqCtx.SchedulingRequest.RequestId
  sent,            \* the request each server was sent, Absent if none
  pluginState,     \* IDs under which scheduler plugins hold per-request state
  missed,          \* roles whose PreRequest run found no state
  err,             \* the handling of the request ended with a Go error
  status,          \* http.ResponseWriter: the status written, 0 if none
  writes,          \* http.ResponseWriter: number of final WriteHeader calls
  from,            \* who made the bytes written to the client
  conn             \* the client's connection

reqVars   == <<orchestrator, clientId, clientBody>>
ctxVars   == <<headers, body, saved, kvParams>>
schedVars == <<targets, schedId>>
sendVars  == <<targetEndpoint, sent, missed>>
connVars  == <<status, writes, from, conn>>

vars == <<reqVars, ctxVars, schedVars, sendVars, connVars, pc, gone, pluginState, err>>

TypeOK ==
  /\ orchestrator   \in Orchestrators
  /\ pc             \in [Requests -> Labels]
  /\ clientId       \in [Requests -> SuppliedIds \cup {Absent}]
  /\ clientBody     \in [Requests -> Body]
  /\ gone           \in [Requests -> BOOLEAN]
  /\ headers        \in [Requests -> HeaderMap]
  /\ body           \in [Requests -> Body]
  /\ saved          \in [Requests -> [SavedFields -> FieldValues]]
  /\ kvParams       \in [Requests -> KVParams \cup {Null, Absent}]
  /\ targets        \in [Requests -> [Roles -> Endpoints \cup {Null}]]
  /\ targetEndpoint \in [Requests -> Endpoints \cup {Null}]
  /\ schedId        \in [Requests -> Ids \cup {Absent}]
  /\ sent           \in [Requests -> [Roles -> Outgoing \cup {Absent}]]
  /\ pluginState    \in SUBSET (Ids \cup {Absent})
  /\ missed         \in [Requests -> SUBSET Roles]
  /\ err            \in [Requests -> BOOLEAN]
  /\ status         \in [Requests -> {0} \cup 200..599]
  /\ writes         \in [Requests -> Nat]
  /\ from           \in [Requests -> Origins]
  /\ conn           \in [Requests -> {"open", "closed", "aborted"}]

EmptyBody == [f \in Fields |-> Absent]

Init ==
  /\ orchestrator   \in Orchestrators
  /\ pc             = [r \in Requests |-> "idle"]
  /\ clientId       = [r \in Requests |-> Absent]
  /\ clientBody     = [r \in Requests |-> EmptyBody]
  /\ gone           = [r \in Requests |-> FALSE]
  /\ headers        = [r \in Requests |-> [s \in Spellings |-> Absent]]
  /\ body           = [r \in Requests |-> EmptyBody]
  /\ saved          = [r \in Requests |-> [f \in SavedFields |-> Absent]]
  /\ kvParams       = [r \in Requests |-> Absent]
  /\ targets        = [r \in Requests |-> [role \in Roles |-> Null]]
  /\ targetEndpoint = [r \in Requests |-> Null]
  /\ schedId        = [r \in Requests |-> Absent]
  /\ sent           = [r \in Requests |-> [role \in Roles |-> Absent]]
  /\ pluginState    = {}
  /\ missed         = [r \in Requests |-> {}]
  /\ err            = [r \in Requests |-> FALSE]
  /\ status         = [r \in Requests |-> 0]
  /\ writes         = [r \in Requests |-> 0]
  /\ from           = [r \in Requests |-> "none"]
  /\ conn           = [r \in Requests |-> "open"]

------------------------------------------------------------------------------
(* Building blocks. *)

Goto(r, label) == pc' = [pc EXCEPT ![r] = label]

(* http.ResponseWriter.WriteHeader: the first status stays. *)
WriteHeader(r, s) ==
  /\ status' = [status EXCEPT ![r] = IF @ = 0 THEN s ELSE @]
  /\ writes' = [writes EXCEPT ![r] = @ + 1]

(* sendError: status 500 and the error's text. *)
SendError(r) ==
  /\ WriteHeader(r, 500)
  /\ from' = [from EXCEPT ![r] = "proxy"]
  /\ UNCHANGED conn

(* The handling of r ends with a Go error.  Orchestrate's error is dropped  *)
(* by ServeHTTP, so nothing is sent to the client here.                     *)
ReturnError(r) ==
  /\ err' = [err EXCEPT ![r] = TRUE]
  /\ Goto(r, "returning")

(* A panic of the handler: net/http drops the connection. *)
Panic(r, writer) ==
  /\ conn' = [conn EXCEPT ![r] = "aborted"]
  /\ from' = [from EXCEPT ![r] = writer]
  /\ Goto(r, "done")
  /\ UNCHANGED <<status, writes>>

------------------------------------------------------------------------------
(* ServeHTTP and PrepareRequest. *)

(* A client that sent no ID is given none. *)
RequestIDNotGenerated(r, id) == IF id = Absent THEN EmptyId ELSE id

(* ServeHTTP: the request's ID, generated when the header is missing or "". *)
RequestID(r, id) ==
  IF id \in {Absent, EmptyId} THEN GeneratedId(r) ELSE id

(* net/http calls ServeHTTP, which builds the Orchestration. *)
ServeHTTP(r) ==
  /\ pc[r] = "idle"
  /\ \E id \in SuppliedIds \cup {Absent}, b \in ClientBodies :
       /\ clientId'   = [clientId EXCEPT ![r] = id]
       /\ clientBody' = [clientBody EXCEPT ![r] = b]
       /\ headers'    = [headers EXCEPT ![r][LowerKey] = RequestID(r, id)]
  /\ Goto(r, "prepare")
  /\ UNCHANGED <<orchestrator, body, saved, kvParams, schedVars, sendVars, connVars,
                 gone, pluginState, err>>

(* PrepareRequest copies the client's headers under their canonical keys,   *)
(* next to the lower-case ID, before it reads the body.                     *)
CopyHeaders(r) == headers' = [headers EXCEPT ![r][CanonicalKey] = clientId[r]]

PrepareRequest(r) ==
  /\ pc[r] = "prepare"
  /\ CopyHeaders(r)
  /\ body' = [body EXCEPT ![r] = clientBody[r]]
  /\ Goto(r, "schedule")
  /\ UNCHANGED <<reqVars, saved, kvParams, schedVars, sendVars, connVars,
                 gone, pluginState, err>>

(* ServeHTTP goes on after it sent the error. *)
PrepareFailureIgnored(r) ==
  /\ pc[r] = "prepare"
  /\ CopyHeaders(r)
  /\ SendError(r)
  /\ Goto(r, "schedule")
  /\ UNCHANGED <<reqVars, body, saved, kvParams, schedVars, sendVars,
                 gone, pluginState, err>>

(* The body cannot be read, or is not a JSON object. *)
PrepareRequestFails(r) ==
  /\ pc[r] = "prepare"
  /\ CopyHeaders(r)
  /\ SendError(r)
  /\ ReturnError(r)
  /\ UNCHANGED <<reqVars, body, saved, kvParams, schedVars, sendVars,
                 gone, pluginState>>

------------------------------------------------------------------------------
(* Scheduling: the director, called by StandardProcessing (HandleRequest)   *)
(* and by DetermineTargets (HandleRequestHelper).                           *)

(* The director builds the scheduling request under the lower-case ID; data *)
(* preparation stores the plugins' state under it.                          *)
Schedule(r, t) ==
  /\ targets'     = [targets EXCEPT ![r] = t]
  /\ schedId'     = [schedId EXCEPT ![r] = headers[r][LowerKey]]
  /\ pluginState' = pluginState \cup {headers[r][LowerKey]}
  /\ UNCHANGED <<reqVars, ctxVars, sendVars, connVars, gone>>

(* The director refuses the request, before or after data preparation. *)
DirectorRefuses(r) ==
  /\ pc[r] \in {"schedule", "scheduleDecode"}
  /\ pluginState' \in {pluginState, pluginState \cup {headers[r][LowerKey]}}
  /\ SendError(r)
  /\ ReturnError(r)
  /\ UNCHANGED <<reqVars, ctxVars, schedVars, sendVars, gone>>

(* OrchestrationProfileHandler hands on every profile's result; that of a   *)
(* profile that failed to run is nil.                                       *)
ProfileResult == Endpoints \cup {Null}

StandardSchedule(r) ==
  /\ orchestrator = "none"
  /\ pc[r] = "schedule"
  /\ \E e \in Endpoints : Schedule(r, [targets[r] EXCEPT !["decode"] = e])
  /\ Goto(r, "sendDecode")
  /\ UNCHANGED err

(* The decode result is used without the nil check. *)
NonDeferredScheduleUnchecked(r) ==
  /\ orchestrator = "nonDeferred"
  /\ pc[r] = "schedule"
  /\ \E t \in [Roles -> ProfileResult] :
       /\ Schedule(r, t)
       /\ Goto(r, IF t["prefill"] # Null THEN "sendPrefill" ELSE "sendDecode")
  /\ UNCHANGED err

(* nonDeferredDecodePD: both profiles at once. *)
NonDeferredSchedule(r) ==
  /\ orchestrator = "nonDeferred"
  /\ pc[r] = "schedule"
  /\ \E t \in [Roles -> ProfileResult] :
       /\ Schedule(r, t)
       /\ \/ /\ t["decode"] = Null
             /\ ReturnError(r)
          \/ /\ t["decode"] # Null
             /\ Goto(r, IF t["prefill"] # Null THEN "sendPrefill" ELSE "sendDecode")
             /\ UNCHANGED err

(* deferredDecodePD: first the prefill profile alone ... *)
DeferredSchedulePrefill(r) ==
  /\ orchestrator = "deferred"
  /\ pc[r] = "schedule"
  /\ \E e \in ProfileResult :
       /\ Schedule(r, [targets[r] EXCEPT !["prefill"] = e])
       /\ Goto(r, IF e # Null THEN "sendPrefill" ELSE "scheduleDecode")
  /\ UNCHANGED err

(* ... and, once the prefill is over, the decode profile. *)
DeferredScheduleDecode(r) ==
  /\ pc[r] = "scheduleDecode"
  /\ \E e \in ProfileResult :
       /\ Schedule(r, [targets[r] EXCEPT !["decode"] = e])
       /\ \/ e = Null /\ ReturnError(r)
          \/ e # Null /\ Goto(r, "sendDecode") /\ UNCHANGED err

------------------------------------------------------------------------------
(* Sending a request to a model server. *)

(* updateOutgoingRequest iterates over a Go map, in any order, and sets the *)
(* canonical header from every spelling it meets: the last one stays.       *)
OutgoingIds(h) == {h[s] : s \in Spellings} \ {Absent}

(* commonSendRequest and the rewrite: the PreRequest plugins read and drop  *)
(* the state of the scheduling request; the request goes to the reqCtx's    *)
(* target with the current headers and body.                                *)
CommonSendRequest(r, role, h, b) ==
  /\ targetEndpoint' = [targetEndpoint EXCEPT ![r] = targets[r][role]]
  /\ missed' = IF schedId[r] \in pluginState
                 THEN missed ELSE [missed EXCEPT ![r] = @ \cup {role}]
  /\ pluginState' = pluginState \ {schedId[r]}
  /\ \E id \in OutgoingIds(h) :
       sent' = [sent EXCEPT ![r][role] =
                  [to |-> targetEndpoint'[r], id |-> id, body |-> b]]

------------------------------------------------------------------------------
(* sendPrefillRequest. *)

(* The body the prefill server gets: no streaming, one token, and a request *)
(* to keep the KV cache for a remote decode.                                *)
PrefillBody(b) ==
  [b EXCEPT ![KVField]                 = RemoteDecode,
            !["stream"]                = StreamOff,
            !["stream_options"]        = Absent,
            !["max_tokens"]            = OneToken,
            !["max_completion_tokens"] = OneToken]

(* Restores only the fields the client had sent; deletes nothing. *)
RestoreBodyWithoutDelete(b, s, kv) ==
  [f \in Fields |-> IF f = KVField THEN kv
                    ELSE IF f \in SavedFields /\ s[f] # Absent THEN s[f] ELSE b[f]]

(* The body after the prefill: each field is deleted and, if the client had *)
(* sent it, put back.  "stream_options", deleted before the prefill, is     *)
(* only put back.  The prefill server's kv_transfer_params are taken over.  *)
RestoreBody(b, s, kv) ==
  [b EXCEPT ![KVField]                 = kv,
            !["stream"]                = s["stream"],
            !["stream_options"]        = IF s["stream_options"] # Absent
                                           THEN s["stream_options"] ELSE @,
            !["max_tokens"]            = s["max_tokens"],
            !["max_completion_tokens"] = s["max_completion_tokens"]]

(* SendRequest, up to the round trip: the ID is replaced under the          *)
(* lower-case key, the body saved and changed in place, and sent.           *)
SendPrefillRequest(r) ==
  LET h == [headers[r] EXCEPT ![LowerKey] = PrefillUuid(r)]
      b == PrefillBody(body[r])
  IN  /\ pc[r] = "sendPrefill"
      /\ headers' = [headers EXCEPT ![r] = h]
      /\ saved'   = [saved EXCEPT ![r] = [f \in SavedFields |-> body[r][f]]]
      /\ body'    = [body EXCEPT ![r] = b]
      /\ CommonSendRequest(r, "prefill", h, b)
      /\ Goto(r, "prefillWait")
      /\ UNCHANGED <<reqVars, kvParams, schedVars, connVars, gone, err>>

(* uuid.NewUUID fails. *)
PrefillUuidFails(r) ==
  /\ pc[r] = "sendPrefill"
  /\ ReturnError(r)
  /\ UNCHANGED <<reqVars, ctxVars, schedVars, sendVars, connVars, gone, pluginState>>

(* The prefill server's reply is copied to the client's connection. *)
CopyReply(r) ==
  /\ WriteHeader(r, 200)
  /\ from' = [from EXCEPT ![r] = "prefill"]
  /\ UNCHANGED conn

(* CollectingResponseWriter keeps the reply to itself. *)
CollectReply(r) == UNCHANGED connVars

(* The prefill server answered with a JSON object, whatever its status; kv  *)
(* is Null when the object has no kv_transfer_params.                       *)
PrefillAnswered(r) ==
  /\ pc[r] = "prefillWait"
  /\ CollectReply(r)
  /\ \E kv \in KVParams \cup {Null} :
       /\ kvParams' = [kvParams EXCEPT ![r] = kv]
       /\ body'     = [body EXCEPT ![r] = RestoreBody(@, saved[r], kv)]
  /\ headers' = [headers EXCEPT ![r][LowerKey] = PrefillUuid(r)]
  /\ Goto(r, IF orchestrator = "deferred" THEN "scheduleDecode" ELSE "sendDecode")
  /\ UNCHANGED <<reqVars, saved, schedVars, sendVars, gone, pluginState, err>>

(* The prefill server is not reachable (the reverse proxy then writes an    *)
(* empty 502), or its answer is not a JSON object.                          *)
PrefillFailed(r) ==
  /\ pc[r] = "prefillWait"
  /\ CollectReply(r)
  /\ ReturnError(r)
  /\ UNCHANGED <<reqVars, ctxVars, schedVars, sendVars, gone, pluginState>>

(* The prefill server's body breaks off: ReverseProxy panics. *)
PrefillBroken(r) ==
  /\ pc[r] = "prefillWait"
  /\ Panic(r, from[r])
  /\ UNCHANGED <<reqVars, ctxVars, schedVars, sendVars, gone, pluginState, err>>

------------------------------------------------------------------------------
(* sendDecodeRequest, and StandardProcessing once a target is known. *)

SendDecodeRequest(r) ==
  /\ pc[r] = "sendDecode"
  /\ CommonSendRequest(r, "decode", headers[r], body[r])
  /\ Goto(r, "decodeWait")
  /\ UNCHANGED <<reqVars, ctxVars, schedVars, connVars, gone, err>>

(* The serving server's final header is relayed. *)
RelayHeader(r) ==
  /\ pc[r] = "decodeWait"
  /\ \E s \in ModelStatuses : WriteHeader(r, s)
  /\ Goto(r, "relay")
  /\ UNCHANGED <<reqVars, ctxVars, schedVars, sendVars, gone, pluginState, err, from, conn>>

(* The error handler's answer is taken for the server's. *)
DecodeUnreachableRelayed(r) ==
  /\ pc[r] = "decodeWait"
  /\ WriteHeader(r, 502)
  /\ Goto(r, "relay")
  /\ UNCHANGED <<reqVars, ctxVars, schedVars, sendVars, gone, pluginState, err, from, conn>>

(* The round trip fails: ReverseProxy's error handler answers 502. *)
DecodeUnreachable(r) ==
  /\ pc[r] = "decodeWait"
  /\ WriteHeader(r, 502)
  /\ Goto(r, "returning")
  /\ UNCHANGED <<reqVars, ctxVars, schedVars, sendVars, gone, pluginState, err, from, conn>>

(* The whole body was relayed and handleEndOfResponse returned. *)
RelayEnd(r) ==
  /\ pc[r] = "relay"
  /\ from' = [from EXCEPT ![r] = "decode"]
  /\ Goto(r, "returning")
  /\ UNCHANGED <<reqVars, ctxVars, schedVars, sendVars, gone, pluginState, err,
                 status, writes, conn>>

(* The server's body broke off, or handleEndOfResponse panicked. *)
RelayBroken(r) ==
  /\ pc[r] = "relay"
  /\ Panic(r, "decode")
  /\ UNCHANGED <<reqVars, ctxVars, schedVars, sendVars, gone, pluginState, err>>

------------------------------------------------------------------------------
(* The end of the handler, and the client hanging up. *)

(* ServeHTTP returns; net/http writes status 200 if the handler wrote none. *)
HandlerReturns(r) ==
  /\ pc[r] = "returning"
  /\ status' = [status EXCEPT ![r] = IF @ = 0 THEN 200 ELSE @]
  /\ conn'   = [conn EXCEPT ![r] = "closed"]
  /\ Goto(r, "done")
  /\ UNCHANGED <<reqVars, ctxVars, schedVars, sendVars, gone, pluginState, err,
                 writes, from>>

(* net/http cancels the request's context, which o.req carries. *)
ClientHangsUp(r) ==
  /\ pc[r] \notin {"idle", "done"}
  /\ ~gone[r]
  /\ gone' = [gone EXCEPT ![r] = TRUE]
  /\ UNCHANGED <<reqVars, ctxVars, schedVars, sendVars, connVars, pc, pluginState, err>>

(* The cancellation reaches only the serving server's round trip. *)
CancelledOnlyInDecode(r) ==
  /\ gone[r]
  /\ DecodeUnreachable(r) \/ RelayBroken(r)

(* What a blocked handler does once its client is gone: the read of the     *)
(* body fails with the connection, the pending round trip with the          *)
(* request's context, which net/http cancels.                               *)
Cancelled(r) ==
  /\ gone[r]
  /\ PrepareRequestFails(r) \/ PrefillFailed(r) \/ DecodeUnreachable(r) \/ RelayBroken(r)

(* The steps a handler takes by itself, never waiting for a server. *)
LocalStep(r) ==
  \/ StandardSchedule(r) \/ NonDeferredSchedule(r)
  \/ DeferredSchedulePrefill(r) \/ DeferredScheduleDecode(r)
  \/ DirectorRefuses(r)
  \/ SendPrefillRequest(r) \/ PrefillUuidFails(r) \/ SendDecodeRequest(r)
  \/ HandlerReturns(r)

(* The steps that follow what a client or a server does. *)
RemoteStep(r) ==
  \/ ServeHTTP(r) \/ PrepareRequest(r) \/ PrepareRequestFails(r)
  \/ PrefillAnswered(r) \/ PrefillFailed(r) \/ PrefillBroken(r)
  \/ RelayHeader(r) \/ DecodeUnreachable(r) \/ RelayEnd(r) \/ RelayBroken(r)
  \/ ClientHangsUp(r)

(* Every handler has ended. *)
Finished == (\A r \in Requests : pc[r] = "done") /\ UNCHANGED vars

Next == (\E r \in Requests : LocalStep(r) \/ RemoteStep(r)) \/ Finished

Spec == Init /\ [][Next]_vars

(* Handlers keep running while they can, and a client that is gone ends     *)
(* what they wait for.  Nothing is assumed of clients and servers.          *)
FairSpec ==
  /\ Spec
  /\ \A r \in Requests : WF_vars(LocalStep(r)) /\ WF_vars(Cancelled(r))

------------------------------------------------------------------------------
(* Properties. *)

(* The client's body with the prefill server's kv_transfer_params put in,   *)
(* once that server answered.                                               *)
ExpectedBody(r) ==
  IF kvParams[r] = Absent THEN clientBody[r]
  ELSE [clientBody[r] EXCEPT ![KVField] = kvParams[r]]

(* The prefill leaves no other trace in what the serving server is asked    *)
(* (sendPrefillRequest, lines 168-217): it gets the expected body.          *)
DecodeBodyIntact ==
  \A r \in Requests :
    sent[r]["decode"] # Absent => sent[r]["decode"].body = ExpectedBody(r)

(* Request r has an ID no other client supplied too. *)
OwnId(r) ==
  \/ clientId[r] \in {Absent, EmptyId}
  \/ \A q \in Requests \ {r} : clientId[q] # clientId[r]

(* A request with an ID of its own is never the one whose plugin state is   *)
(* missing when the PreRequest plugins run for its first target, however    *)
(* the handlers interleave; under the deferred orchestration, which         *)
(* schedules again, not even when they run for the decode target            *)
(* (commonSendRequest; the IDs of ServeHTTP and sendPrefillRequest).        *)
PluginStateFound ==
  \A r \in Requests : OwnId(r) =>
    /\ "prefill" \notin missed[r]
    /\ "decode" \in missed[r] =>
         orchestrator = "nonDeferred" /\ sent[r]["prefill"] # Absent

(* Unless the client chose the ID, both servers are sent one and the same   *)
(* ID, and no request of another client carries it (ServeHTTP, lines 36-42; *)
(* sendPrefillRequest, lines 159-166 and 200).                              *)
IdSharedByBothServers ==
  \A r \in Requests : clientId[r] = Absent =>
    /\ \A role \in Roles, q \in Requests \ {r}, other \in Roles :
         sent[r][role] # Absent /\ sent[q][other] # Absent =>
           sent[r][role].id # sent[q][other].id
    /\ sent[r]["prefill"] # Absent /\ sent[r]["decode"] # Absent =>
         sent[r]["prefill"].id = sent[r]["decode"].id

(* The client's status line is written at most once: the error paths that   *)
(* answer by themselves (sendError in DetermineTargets, StandardProcessing  *)
(* and ServeHTTP, the reverse proxy's 502) never overlap.                   *)
OneStatusLine == \A r \in Requests : writes[r] <= 1

(* A handler whose client hung up ends, wherever it is: the body is read    *)
(* from the client's connection, and every other blocking call is made with *)
(* the request's own context.                                               *)
HangUpReleases == \A r \in Requests : gone[r] ~> pc[r] = "done"

(* The contract every request is served under. *)
StageOf(r) ==
  CASE pc[r] = "idle" -> "new"
    [] pc[r] = "done" -> "closed"
    [] pc[r] \notin {"idle", "done"} /\ sent[r]["decode"] # Absent -> "serving"
    [] pc[r] \notin {"idle", "done"} /\ sent[r]["decode"] = Absent
         /\ sent[r]["prefill"] # Absent -> "prefilled"
    [] OTHER -> "accepted"

AnswerOf(r) ==
  CASE pc[r] # "done" -> "none"
    [] pc[r] = "done" /\ conn[r] = "aborted" -> "cut"
    [] pc[r] = "done" /\ conn[r] # "aborted" /\ from[r] = "decode" -> "model"
    [] pc[r] = "done" /\ conn[r] # "aborted" /\ from[r] = "prefill" -> "leak"
    [] pc[r] = "done" /\ conn[r] # "aborted" /\ from[r] \in {"none", "proxy"} ->
         IF status[r] = 200 THEN "empty" ELSE "error"
    [] OTHER -> "none"

Contract == INSTANCE ServingContract WITH
  stage  <- [r \in Requests |-> StageOf(r)],
  answer <- [r \in Requests |-> AnswerOf(r)]

(* Whatever the orchestration, a request is prefilled at most once and only *)
(* before it is served, only the serving server answers the client, and     *)
(* nothing of the prefill server's reply reaches it.                        *)
ImplementsContract == Contract!Spec

(* What the client sees of the relay of the serving server's response.      *)
PhaseOf(r) ==
  CASE sent[r]["decode"] = Absent \/ pc[r] = "decodeWait" -> "waiting"
    [] sent[r]["decode"] # Absent /\ pc[r] = "relay" -> "body"
    [] sent[r]["decode"] # Absent /\ pc[r] \in {"returning", "done"} ->
         IF conn[r] = "aborted" THEN "cut" ELSE "ended"
    [] OTHER -> "waiting"

Relay(r) == INSTANCE RelayContract WITH
  phase  <- PhaseOf(r),
  status <- IF sent[r]["decode"] = Absent THEN 0 ELSE status[r]

(* The steps that stand for the relay keep the promise ResponseRelay keeps  *)
(* chunk by chunk: a request that is passed on to the serving server has    *)
(* not been answered, and is then given that server's answer or a 502 and   *)
(* nothing else (SendRequestAndResponse, lines 66-78).                      *)
RelaysAsPromised ==
  /\ \A r \in Requests : Relay(r)!Init
  /\ [][\A r \in Requests : [Relay(r)!Next]_(Relay(r)!vars)]_vars

------------------------------------------------------------------------------
(* What the repository says and the code does not do. *)

(* A request whose handling ended with an error is not answered 200: "Using *)
(* the standard 'err' var will send an immediate error response back to the *)
(* caller" (orchestration.go:214).                                          *)
ErrorIsAnswered ==
  \A r \in Requests : err[r] /\ conn[r] = "closed" => status[r] # 200

(* The servers of a P/D request are sent the unique ID generated for it     *)
(* (the header set at lines 166 and 200): "Generate unique request UUID"    *)
(* (pd_orchestration.go:159).                                               *)
PrefillUuidIsUsed ==
  \A r \in Requests, role \in Roles :
    sent[r]["prefill"] # Absent /\ sent[r][role] # Absent =>
      sent[r][role].id = PrefillUuid(r)

(* The state kept per request is there whenever the plugins run for one of  *)
(* its targets: "request ID is a must for maintaining a state per request   *)
(* in plugins that hold internal state" (proxy.go:37).                      *)
StateKeptPerRequest == \A r \in Requests : OwnId(r) => missed[r] = {}
==============================================================================
