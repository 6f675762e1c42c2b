--------------------------- MODULE RequestIdProofs ----------------------------
(***************************************************************************)
(* Proofs about the request IDs of InferenceProxy, for any number of       *)
(* concurrent requests: whose IDs leave the proxy, and whose plugin state  *)
(* is found.                                                               *)
(***************************************************************************)
EXTENDS ServingContractProofs

(* Every step is about what it changes and what it leaves unchanged. *)
USE DEF reqVars, ctxVars, schedVars, sendVars, connVars, Goto, ProfileResult

(* The IDs a request may have: two are made for it, one its client chose.   *)
OwnIds(r) == {GeneratedId(r), PrefillUuid(r)} \cup ({clientId[r]} \ {Absent, EmptyId})

------------------------------------------------------------------------------
(* The inductive invariant. *)

(* The IDs a handler knows, sent and scheduled under are its request's own; *)
(* the canonical spelling is the client's value, also if it is empty.       *)
IdsTracked ==
  \A r \in Requests :
    /\ pc[r] = "idle" => clientId[r] = Absent
    /\ pc[r] # "idle" => headers[r][LowerKey] \in OwnIds(r)
    /\ headers[r][CanonicalKey] \in {Absent, clientId[r]}
    /\ schedId[r] \in OwnIds(r) \cup {Absent}
    /\ pc[r] \in {"sendPrefill", "prefillWait", "sendDecode"} => schedId[r] # Absent
    /\ \A role \in Roles : sent[r][role] # Absent =>
         sent[r][role].id \in OwnIds(r) \cup ({clientId[r]} \ {Absent})

(* Once a prefill was sent, the ID made for it is the one in lower case, so *)
(* the only one if the client sent none.                                    *)
UuidTracked ==
  \A r \in Requests : sent[r]["prefill"] # Absent =>
    /\ headers[r][LowerKey] = PrefillUuid(r)
    /\ clientId[r] = Absent =>
         \A role \in Roles : sent[r][role] # Absent => sent[r][role].id = PrefillUuid(r)

(* The state of a request with an ID of its own is there until its handler  *)
(* first sends; the deferred orchestration stores it again.                 *)
StateTracked ==
  \A r \in Requests :
    /\ pc[r] \in {"sendPrefill", "prefillWait"} => orchestrator # "none"
    /\ pc[r] \in {"idle", "prepare", "schedule", "sendPrefill"} => missed[r] = {}
    /\ OwnId(r) =>
         /\ pc[r] = "sendPrefill" => schedId[r] \in pluginState
         /\ pc[r] = "sendDecode" =>
              \/ schedId[r] \in pluginState
              \/ orchestrator = "nonDeferred" /\ sent[r]["prefill"] # Absent

IdInv == ContractInv /\ IdsTracked /\ UuidTracked /\ StateTracked /\ PluginStateFound

------------------------------------------------------------------------------
(* The IDs. *)

(* What a request's own IDs can be. *)
LEMMA OwnIdTypes ==
  ASSUME TypeOK, NEW r \in Requests
  PROVE  /\ clientId[r] = Absent \/ clientId[r] = EmptyId
              \/ \E c \in ClientIds : clientId[r] = ClientId(c)
         /\ OwnIds(r) \subseteq Ids /\ Absent \notin OwnIds(r)
<1>1. clientId[r] \in SuppliedIds \cup {Absent}
  BY DEF TypeOK
<1>2. GeneratedId(r) \in Ids /\ PrefillUuid(r) \in Ids /\ SuppliedIds \subseteq Ids
  BY DEF Ids
<1> QED
  BY <1>1, <1>2, ConstantsAssumption DEF OwnIds, SuppliedIds

(* IDs from different sources, or made for different requests, differ. *)
LEMMA IdsDiffer ==
  ASSUME NEW q, NEW r
  PROVE  /\ GeneratedId(r) # PrefillUuid(q)
         /\ q # r => GeneratedId(r) # GeneratedId(q) /\ PrefillUuid(r) # PrefillUuid(q)
         /\ \A c : ClientId(c) \notin {GeneratedId(r), PrefillUuid(r)}
         /\ EmptyId \notin {GeneratedId(r), PrefillUuid(r)}
BY DEF GeneratedId, PrefillUuid, ClientId, EmptyId

(* A request with an ID of its own shares none with another one. *)
LEMMA OwnIdsDisjoint ==
  ASSUME TypeOK, NEW r \in Requests, NEW q \in Requests \ {r}, OwnId(r)
  PROVE  OwnIds(r) \cap OwnIds(q) = {}
<1> SUFFICES ASSUME NEW id \in OwnIds(r), id \in OwnIds(q) PROVE FALSE
  OBVIOUS
<1>1. \/ id \in {GeneratedId(r), PrefillUuid(r)}
      \/ id = clientId[r] /\ id \notin {Absent, EmptyId}
  BY DEF OwnIds
<1>2. \/ id \in {GeneratedId(q), PrefillUuid(q)}
      \/ id = clientId[q] /\ id \notin {Absent, EmptyId}
  BY DEF OwnIds
<1>3. \A p \in {q, r} : clientId[p] \in {Absent, EmptyId}
         \/ \E c \in ClientIds : clientId[p] = ClientId(c)
  BY OwnIdTypes
<1>4. CASE id = clientId[r] /\ id = clientId[q] /\ id \notin {Absent, EmptyId}
  BY <1>4 DEF OwnId
<1>5. CASE id \in {GeneratedId(r), PrefillUuid(r)}
  BY <1>2, <1>3, <1>5, IdsDiffer
<1>6. CASE id \in {GeneratedId(q), PrefillUuid(q)}
  BY <1>1, <1>3, <1>6, IdsDiffer
<1> QED
  BY <1>1, <1>2, <1>4, <1>5, <1>6

------------------------------------------------------------------------------
(* The steps of a handler, reduced to what happens to the IDs. *)

SameIds(q) ==
  /\ clientId'[q] = clientId[q] /\ headers'[q] = headers[q] /\ schedId'[q] = schedId[q]
  /\ sent'[q] = sent[q] /\ missed'[q] = missed[q]
SameRequest(q) == pc'[q] = pc[q] /\ SameIds(q)

Arrives(r) ==
  /\ pc[r] = "idle" /\ pc'[r] = "prepare"
  /\ headers'[r][LowerKey] = RequestID(r, clientId'[r])
  /\ headers'[r][CanonicalKey] = headers[r][CanonicalKey]
  /\ schedId'[r] = schedId[r] /\ sent'[r] = sent[r] /\ missed'[r] = missed[r]
Copies(r) ==
  /\ pc[r] = "prepare" /\ pc'[r] \in {"schedule", "returning"}
  /\ headers'[r][LowerKey] = headers[r][LowerKey]
  /\ headers'[r][CanonicalKey] = clientId[r]
  /\ clientId'[r] = clientId[r] /\ schedId'[r] = schedId[r]
  /\ sent'[r] = sent[r] /\ missed'[r] = missed[r]
Schedules(r) ==
  /\ pc[r] \in {"schedule", "scheduleDecode"}
  /\ \/ pc'[r] \in {"scheduleDecode", "sendDecode", "returning"}
     \/ pc[r] = "schedule" /\ pc'[r] = "sendPrefill" /\ orchestrator # "none"
  /\ schedId'[r] = headers[r][LowerKey] /\ schedId'[r] \in pluginState'
  /\ clientId'[r] = clientId[r] /\ headers'[r] = headers[r]
  /\ sent'[r] = sent[r] /\ missed'[r] = missed[r]
Sends(r, role) ==
  /\ headers'[r][CanonicalKey] = headers[r][CanonicalKey]
  /\ clientId'[r] = clientId[r] /\ schedId'[r] = schedId[r]
  /\ sent'[r][role] # Absent
  /\ sent'[r][role].id \in {headers'[r][LowerKey], headers[r][CanonicalKey]} \ {Absent}
  /\ \A other \in Roles \ {role} : sent'[r][other] = sent[r][other]
  /\ missed'[r] = IF schedId[r] \in pluginState THEN missed[r] ELSE missed[r] \cup {role}
SendsPrefill(r) ==
  /\ pc[r] = "sendPrefill" /\ pc'[r] = "prefillWait"
  /\ headers'[r][LowerKey] = PrefillUuid(r)
  /\ Sends(r, "prefill")
SendsDecode(r) ==
  /\ pc[r] = "sendDecode" /\ pc'[r] = "decodeWait"
  /\ headers'[r][LowerKey] = headers[r][LowerKey]
  /\ Sends(r, "decode")
Answered(r) ==
  /\ pc[r] = "prefillWait"
  /\ pc'[r] \in {"scheduleDecode", "sendDecode"}
  /\ pc'[r] = "sendDecode" => orchestrator # "deferred"
  /\ headers'[r][LowerKey] = PrefillUuid(r)
  /\ headers'[r][CanonicalKey] = headers[r][CanonicalKey]
  /\ clientId'[r] = clientId[r] /\ schedId'[r] = schedId[r]
  /\ sent'[r] = sent[r] /\ missed'[r] = missed[r]
GoesOn(r) ==
  /\ SameIds(r)
  /\ \/ pc'[r] = pc[r]
     \/ pc[r] # "idle" /\ pc'[r] \in {"relay", "returning", "done"}

IdMove(r) ==
  \/ Arrives(r) \/ Copies(r) \/ Schedules(r) \/ SendsPrefill(r) \/ SendsDecode(r)
  \/ Answered(r) \/ GoesOn(r)

(* What a step does to the state of the plugins: only one that sends drops  *)
(* any, and only its own.                                                   *)
DropsOwn(r) ==
  \/ pluginState \subseteq pluginState'
  \/ /\ SendsPrefill(r) \/ SendsDecode(r)
     /\ pluginState' = pluginState \ {schedId[r]}

(* What TypeOK says of the variables the IDs are in. *)
IdTypesOK ==
  /\ pc       \in [Requests -> Labels]
  /\ clientId \in [Requests -> SuppliedIds \cup {Absent}]
  /\ headers  \in [Requests -> [Spellings -> Ids \cup {Absent}]]
  /\ schedId  \in [Requests -> Ids \cup {Absent}]
  /\ sent     \in [Requests -> [Roles -> Outgoing \cup {Absent}]]
  /\ missed   \in [Requests -> SUBSET Roles]

(* Sending, in terms of the record that is sent. *)
LEMMA CommonSendIds ==
  ASSUME TypeInv, NEW r \in Requests, NEW role \in Roles, NEW h \in HeaderMap,
         NEW b \in Body, targets[r][role] # Null, CommonSendRequest(r, role, h, b)
  PROVE  /\ \E out \in Outgoing :
              /\ sent' = [sent EXCEPT ![r][role] = out]
              /\ out.id \in {h[LowerKey], h[CanonicalKey]} \ {Absent}
         /\ pluginState' = pluginState \ {schedId[r]}
         /\ missed' = IF schedId[r] \in pluginState
                        THEN missed ELSE [missed EXCEPT ![r] = @ \cup {role}]
<1>1. PICK id \in OutgoingIds(h) :
        sent' = [sent EXCEPT ![r][role] = [to |-> targetEndpoint'[r], id |-> id, body |-> b]]
  BY DEF CommonSendRequest
<1>2. id \in Ids /\ id \in {h[LowerKey], h[CanonicalKey]} \ {Absent}
  BY OutgoingIdsType DEF OutgoingIds, Spellings
<1>3. targetEndpoint'[r] \in Endpoints
  BY DEF CommonSendRequest, TypeInv, TypeOK
<1>4. [to |-> targetEndpoint'[r], id |-> id, body |-> b] \in Outgoing
  BY <1>2, <1>3 DEF Outgoing
<1> QED
  BY <1>1, <1>2, <1>4 DEF CommonSendRequest

(* What writing one spelling of the header does to the header maps. *)
LEMMA WriteLower ==
  ASSUME headers \in [Requests -> HeaderMap], NEW r \in Requests, NEW v,
         headers' = [headers EXCEPT ![r][LowerKey] = v]
  PROVE  /\ headers'[r][LowerKey] = v
         /\ headers'[r][CanonicalKey] = headers[r][CanonicalKey]
         /\ \A q \in Requests \ {r} : headers'[q] = headers[q]
BY DEF HeaderMap, Spellings, LowerKey, CanonicalKey

LEMMA WriteCanonical ==
  ASSUME headers \in [Requests -> HeaderMap], NEW r \in Requests, CopyHeaders(r)
  PROVE  /\ headers'[r][CanonicalKey] = clientId[r]
         /\ headers'[r][LowerKey] = headers[r][LowerKey]
         /\ \A q \in Requests \ {r} : headers'[q] = headers[q]
BY DEF CopyHeaders, HeaderMap, Spellings, LowerKey, CanonicalKey

(* Every step of a handler is one of the moves, and leaves the IDs of the   *)
(* other requests alone.                                                    *)
LEMMA StepIsIdMove ==
  ASSUME TypeInv, NEW r \in Requests, LocalStep(r) \/ RemoteStep(r)
  PROVE  /\ IdMove(r) /\ DropsOwn(r) /\ orchestrator' = orchestrator
         /\ \A q \in Requests \ {r} : SameRequest(q)
<1> DEFINE Goal == /\ IdMove(r) /\ DropsOwn(r) /\ orchestrator' = orchestrator
                   /\ \A q \in Requests \ {r} : SameRequest(q)
<1> USE DEF SameRequest, SameIds
<1>1. IdTypesOK /\ headers \in [Requests -> HeaderMap]
  BY DEF TypeInv, TypeOK, IdTypesOK, HeaderMap
<1>2. ASSUME ServeHTTP(r) PROVE Goal
  <2>1. PICK id \in SuppliedIds \cup {Absent}, b \in ClientBodies : ServeHTTP(r)!2!(id, b)
    BY <1>2 DEF ServeHTTP
  <2>2. /\ pc[r] = "idle" /\ pc' = [pc EXCEPT ![r] = "prepare"]
        /\ clientId' = [clientId EXCEPT ![r] = id]
        /\ UNCHANGED <<orchestrator, schedId, sent, missed, pluginState>>
    BY <1>2, <2>1 DEF ServeHTTP
  <2>3. /\ headers'[r][LowerKey] = RequestID(r, id)
        /\ headers'[r][CanonicalKey] = headers[r][CanonicalKey]
        /\ \A q \in Requests \ {r} : headers'[q] = headers[q]
    BY <1>1, <2>1, WriteLower
  <2>4. Arrives(r)
    BY <1>1, <2>2, <2>3 DEF IdTypesOK, Arrives
  <2> QED
    BY <1>1, <2>2, <2>3, <2>4 DEF IdTypesOK, IdMove, DropsOwn
<1>3. ASSUME PrepareRequest(r) \/ PrepareRequestFails(r) PROVE Goal
  <2>1. /\ pc[r] = "prepare"
        /\ pc' = [pc EXCEPT ![r] = "schedule"] \/ pc' = [pc EXCEPT ![r] = "returning"]
        /\ CopyHeaders(r)
        /\ UNCHANGED <<orchestrator, clientId, schedId, sent, missed, pluginState>>
    BY <1>3 DEF PrepareRequest, PrepareRequestFails, ReturnError
  <2>2. /\ headers'[r][CanonicalKey] = clientId[r]
        /\ headers'[r][LowerKey] = headers[r][LowerKey]
        /\ \A q \in Requests \ {r} : headers'[q] = headers[q]
    BY <1>1, <2>1, WriteCanonical
  <2>3. Copies(r)
    BY <1>1, <2>1, <2>2 DEF IdTypesOK, Copies
  <2> QED
    BY <1>1, <2>1, <2>2, <2>3 DEF IdTypesOK, IdMove, DropsOwn
<1>4. ASSUME \/ StandardSchedule(r) \/ NonDeferredSchedule(r)
             \/ DeferredSchedulePrefill(r) \/ DeferredScheduleDecode(r)
      PROVE  Goal
  <2>1. /\ schedId' = [schedId EXCEPT ![r] = headers[r][LowerKey]]
        /\ pluginState' = pluginState \cup {headers[r][LowerKey]}
        /\ UNCHANGED <<orchestrator, clientId, headers, sent, missed>>
    BY <1>4 DEF StandardSchedule, NonDeferredSchedule, DeferredSchedulePrefill,
                DeferredScheduleDecode, Schedule
  <2>2. \E l \in Labels :
          /\ pc' = [pc EXCEPT ![r] = l] /\ pc[r] \in {"schedule", "scheduleDecode"}
          /\ \/ l \in {"scheduleDecode", "sendDecode", "returning"}
             \/ pc[r] = "schedule" /\ l = "sendPrefill" /\ orchestrator # "none"
    BY <1>4 DEF StandardSchedule, NonDeferredSchedule, DeferredSchedulePrefill,
                DeferredScheduleDecode, ReturnError, Labels
  <2>3. Schedules(r)
    BY <1>1, <2>1, <2>2 DEF IdTypesOK, Schedules
  <2> QED
    BY <1>1, <2>1, <2>2, <2>3 DEF IdTypesOK, IdMove, DropsOwn
<1>5. ASSUME SendPrefillRequest(r) PROVE Goal
  <2> DEFINE h == [headers[r] EXCEPT ![LowerKey] = PrefillUuid(r)]
  <2>1. h \in HeaderMap /\ PrefillBody(body[r]) \in Body
    BY PrefillBodyType, IdTypes, SpellingTypes DEF TypeInv, TypeOK, HeaderMap
  <2>2. /\ pc[r] = "sendPrefill" /\ pc' = [pc EXCEPT ![r] = "prefillWait"]
        /\ headers' = [headers EXCEPT ![r] = h]
        /\ CommonSendRequest(r, "prefill", h, PrefillBody(body[r]))
        /\ UNCHANGED <<orchestrator, clientId, schedId>>
    BY <1>5 DEF SendPrefillRequest
  <2>3. /\ headers'[r] = h /\ h[LowerKey] = PrefillUuid(r)
        /\ h[CanonicalKey] = headers[r][CanonicalKey]
        /\ \A q \in Requests \ {r} : headers'[q] = headers[q]
    BY <1>1, <2>2 DEF HeaderMap, Spellings, LowerKey, CanonicalKey
  <2>4. PICK out \in Outgoing :
          /\ sent' = [sent EXCEPT ![r]["prefill"] = out]
          /\ out.id \in {h[LowerKey], h[CanonicalKey]} \ {Absent}
          /\ pluginState' = pluginState \ {schedId[r]}
          /\ missed' = IF schedId[r] \in pluginState
                         THEN missed ELSE [missed EXCEPT ![r] = @ \cup {"prefill"}]
    <3>1. "prefill" \in Roles /\ targets[r]["prefill"] # Null
      BY <2>2 DEF Roles, TypeInv, TargetsReady
    <3> HIDE DEF h
    <3> QED
      BY <2>1, <2>2, <3>1, CommonSendIds
  <2>5. out # Absent
    BY ConstantsAssumption
  <2>6. /\ sent'[r]["prefill"] = out /\ sent'[r]["decode"] = sent[r]["decode"]
        /\ \A q \in Requests \ {r} : sent'[q] = sent[q]
    BY <1>1, <2>4 DEF IdTypesOK, Roles
  <2>7. /\ missed'[r] = IF schedId[r] \in pluginState
                         THEN missed[r] ELSE missed[r] \cup {"prefill"}
        /\ \A q \in Requests \ {r} : missed'[q] = missed[q]
    BY <1>1, <2>4 DEF IdTypesOK
  <2>8. /\ pc'[r] = "prefillWait" /\ schedId'[r] = schedId[r] /\ clientId'[r] = clientId[r]
        /\ \A q \in Requests \ {r} : pc'[q] = pc[q]
    BY <1>1, <2>2 DEF IdTypesOK
  <2> HIDE DEF h
  <2>9. SendsPrefill(r)
    BY <2>2, <2>3, <2>4, <2>5, <2>6, <2>7, <2>8 DEF SendsPrefill, Sends, Roles
  <2> QED
    BY <2>2, <2>3, <2>4, <2>6, <2>7, <2>8, <2>9 DEF IdMove, DropsOwn
<1>6. ASSUME SendDecodeRequest(r) PROVE Goal
  <2>1. headers[r] \in HeaderMap /\ body[r] \in Body
    BY DEF TypeInv, TypeOK
  <2>2. /\ pc[r] = "sendDecode" /\ pc' = [pc EXCEPT ![r] = "decodeWait"]
        /\ CommonSendRequest(r, "decode", headers[r], body[r])
        /\ UNCHANGED <<orchestrator, clientId, schedId, headers>>
    BY <1>6 DEF SendDecodeRequest
  <2>3. PICK out \in Outgoing :
          /\ sent' = [sent EXCEPT ![r]["decode"] = out]
          /\ out.id \in {headers[r][LowerKey], headers[r][CanonicalKey]} \ {Absent}
          /\ pluginState' = pluginState \ {schedId[r]}
          /\ missed' = IF schedId[r] \in pluginState
                         THEN missed ELSE [missed EXCEPT ![r] = @ \cup {"decode"}]
    <3>1. "decode" \in Roles /\ targets[r]["decode"] # Null
      BY <2>2 DEF Roles, TypeInv, TargetsReady
    <3> QED
      BY <2>1, <2>2, <3>1, CommonSendIds
  <2>4. out # Absent
    BY ConstantsAssumption
  <2>5. /\ sent'[r]["decode"] = out /\ sent'[r]["prefill"] = sent[r]["prefill"]
        /\ \A q \in Requests \ {r} : sent'[q] = sent[q]
    BY <1>1, <2>3 DEF IdTypesOK, Roles
  <2>6. /\ missed'[r] = IF schedId[r] \in pluginState
                         THEN missed[r] ELSE missed[r] \cup {"decode"}
        /\ \A q \in Requests \ {r} : missed'[q] = missed[q]
    BY <1>1, <2>3 DEF IdTypesOK
  <2>7. pc'[r] = "decodeWait" /\ \A q \in Requests \ {r} : pc'[q] = pc[q]
    BY <1>1, <2>2 DEF IdTypesOK
  <2>8. SendsDecode(r)
    BY <2>2, <2>3, <2>4, <2>5, <2>6, <2>7 DEF SendsDecode, Sends, Roles
  <2> QED
    BY <2>2, <2>3, <2>5, <2>6, <2>7, <2>8 DEF IdMove, DropsOwn
<1>7. ASSUME PrefillAnswered(r) PROVE Goal
  <2>1. /\ pc[r] = "prefillWait"
        /\ pc' = [pc EXCEPT ![r] =
                    IF orchestrator = "deferred" THEN "scheduleDecode" ELSE "sendDecode"]
        /\ headers' = [headers EXCEPT ![r][LowerKey] = PrefillUuid(r)]
        /\ UNCHANGED <<orchestrator, clientId, schedId, sent, missed, pluginState>>
    BY <1>7 DEF PrefillAnswered
  <2>2. /\ headers'[r][LowerKey] = PrefillUuid(r)
        /\ headers'[r][CanonicalKey] = headers[r][CanonicalKey]
        /\ \A q \in Requests \ {r} : headers'[q] = headers[q]
    BY <1>1, <2>1, WriteLower
  <2>3. Answered(r)
    BY <1>1, <2>1, <2>2 DEF IdTypesOK, Answered
  <2> QED
    BY <1>1, <2>1, <2>2, <2>3 DEF IdTypesOK, IdMove, DropsOwn
<1>8. ASSUME \/ DirectorRefuses(r) \/ PrefillUuidFails(r) \/ PrefillFailed(r)
             \/ PrefillBroken(r) \/ RelayHeader(r) \/ DecodeUnreachable(r)
             \/ RelayEnd(r) \/ RelayBroken(r) \/ HandlerReturns(r) \/ ClientHangsUp(r)
      PROVE  Goal
  <2>1. UNCHANGED <<orchestrator, clientId, headers, schedId, sent, missed>>
    BY <1>8 DEF DirectorRefuses, PrefillUuidFails, PrefillFailed, PrefillBroken,
                RelayHeader, DecodeUnreachable, RelayEnd, RelayBroken, HandlerReturns,
                ClientHangsUp
  <2>2. \/ UNCHANGED pc
        \/ /\ pc[r] # "idle"
           /\ \E l \in {"relay", "returning", "done"} : pc' = [pc EXCEPT ![r] = l]
    BY <1>8 DEF DirectorRefuses, PrefillUuidFails, PrefillFailed, PrefillBroken,
                RelayHeader, DecodeUnreachable, RelayEnd, RelayBroken, HandlerReturns,
                ClientHangsUp, ReturnError, Panic
  <2>3. pluginState \subseteq pluginState'
    BY <1>8 DEF DirectorRefuses, PrefillUuidFails, PrefillFailed, PrefillBroken,
                RelayHeader, DecodeUnreachable, RelayEnd, RelayBroken, HandlerReturns,
                ClientHangsUp
  <2>4. GoesOn(r)
    BY <1>1, <2>1, <2>2 DEF IdTypesOK, GoesOn
  <2> QED
    BY <1>1, <2>1, <2>2, <2>3, <2>4 DEF IdTypesOK, IdMove, DropsOwn
<1> QED
  BY <1>2, <1>3, <1>4, <1>5, <1>6, <1>7, <1>8 DEF LocalStep, RemoteStep

------------------------------------------------------------------------------
(* The moves keep the invariant. *)

(* A client's ID is there from the first step of its handler on: a step     *)
(* gives no request an ID of its own that had none, and takes none away.    *)
LEMMA OwnIdsKept ==
  ASSUME IdsTracked, NEW r \in Requests, IdMove(r),
         \A p \in Requests \ {r} : SameRequest(p), NEW q \in Requests
  PROVE  /\ OwnId(q)' => OwnId(q)
         /\ OwnIds(q) \subseteq OwnIds(q)'
         /\ clientId'[q] = clientId[q] \/ (q = r /\ Arrives(r) /\ clientId[r] = Absent)
<1>1. \A p \in Requests : clientId'[p] = clientId[p]
        \/ (p = r /\ Arrives(r) /\ clientId[r] = Absent)
  BY DEF IdsTracked, IdMove, Arrives, Copies, Schedules, SendsPrefill, SendsDecode, Sends,
         Answered, GoesOn, SameRequest, SameIds
<1>2. OwnIds(q) \subseteq OwnIds(q)'
  BY <1>1 DEF OwnIds
<1>3. ASSUME OwnId(q)', ~OwnId(q) PROVE FALSE
  <2>1. clientId[q] \notin {Absent, EmptyId}
    BY <1>3 DEF OwnId
  <2>2. PICK p \in Requests \ {q} : clientId[p] = clientId[q]
    BY <1>3 DEF OwnId
  <2>3. clientId'[q] = clientId[q] /\ clientId'[p] = clientId[p]
    BY <1>1, <2>1, <2>2
  <2> QED
    BY <1>3, <2>1, <2>2, <2>3 DEF OwnId
<1> QED
  BY <1>1, <1>2, <1>3

(* A handler's IDs stay its request's own. *)
LEMMA MoveKeepsIds ==
  ASSUME IdInv, NEW r \in Requests, IdMove(r), \A q \in Requests \ {r} : SameRequest(q)
  PROVE  IdsTracked'
<1>1. IdsTracked /\ SentTracked /\ IdTypesOK
  BY DEF IdInv, ContractInv, TypeInv, TypeOK, IdTypesOK, HeaderMap
<1>2. ASSUME NEW q \in Requests \ {r} PROVE IdsTracked!(q)'
  BY <1>1, <1>2 DEF IdsTracked, OwnIds, SameRequest, SameIds
<1>3. IdsTracked!(r)'
  <2>1. IdsTracked!(r) /\ SentTracked!(r)
    BY <1>1 DEF IdsTracked, SentTracked
  <2>2. CASE Arrives(r)
    <3>1. headers'[r][LowerKey] \in OwnIds(r)'
      BY <2>2 DEF Arrives, RequestID, OwnIds
    <3>2. schedId'[r] \in OwnIds(r)' \cup {Absent}
      BY <1>1, <2>1, <2>2, OwnIdsKept DEF Arrives
    <3>3. \A role \in Roles : sent'[r][role] = Absent
      BY <2>1, <2>2 DEF Arrives, Roles
    <3> QED
      BY <2>1, <2>2, <3>1, <3>2, <3>3 DEF Arrives
  <2>3. ASSUME clientId'[r] = clientId[r] PROVE OwnIds(r)' = OwnIds(r)
    BY <2>3 DEF OwnIds
  <2>4. CASE Copies(r) \/ Schedules(r) \/ Answered(r)
    <3>1. OwnIds(r)' = OwnIds(r) /\ PrefillUuid(r) \in OwnIds(r)
      BY <2>3, <2>4 DEF Copies, Schedules, Answered, OwnIds
    <3>2. Absent \notin OwnIds(r)
      BY OwnIdTypes DEF IdInv, ContractInv, TypeInv
    <3>3. CASE Copies(r)
      BY <2>1, <3>1, <3>3 DEF Copies
    <3>4. CASE Schedules(r)
      BY <2>1, <3>1, <3>2, <3>4 DEF Schedules
    <3>5. CASE Answered(r)
      BY <2>1, <3>1, <3>5 DEF Answered
    <3> QED
      BY <2>4, <3>3, <3>4, <3>5
  <2>5. CASE SendsPrefill(r) \/ SendsDecode(r)
    <3>1. OwnIds(r)' = OwnIds(r) /\ PrefillUuid(r) \in OwnIds(r)
      BY <2>3, <2>5 DEF SendsPrefill, SendsDecode, Sends, OwnIds
    <3>2. headers'[r][LowerKey] \in OwnIds(r)
      BY <2>1, <2>5, <3>1 DEF SendsPrefill, SendsDecode
    <3>3. ASSUME NEW role \in Roles, sent'[r][role] # Absent
          PROVE  sent'[r][role].id \in OwnIds(r) \cup ({clientId[r]} \ {Absent})
      BY <2>1, <2>5, <3>2, <3>3 DEF SendsPrefill, SendsDecode, Sends
    <3> QED
      BY <2>1, <2>5, <3>1, <3>2, <3>3 DEF SendsPrefill, SendsDecode, Sends
  <2>6. CASE GoesOn(r)
    BY <2>1, <2>3, <2>6 DEF GoesOn, SameIds
  <2> QED
    BY <2>2, <2>4, <2>5, <2>6 DEF IdMove
<1> QED
  BY <1>2, <1>3 DEF IdsTracked

(* The prefill's ID stays the one in lower case. *)
LEMMA MoveKeepsUuid ==
  ASSUME IdInv, NEW r \in Requests, IdMove(r), \A q \in Requests \ {r} : SameRequest(q)
  PROVE  UuidTracked'
<1>1. ASSUME NEW q \in Requests \ {r} PROVE UuidTracked!(q)'
  BY <1>1 DEF IdInv, UuidTracked, SameRequest, SameIds
<1>2. UuidTracked!(r)'
  <2>1. IdsTracked!(r) /\ UuidTracked!(r) /\ SentTracked!(r)
    BY DEF IdInv, ContractInv, IdsTracked, UuidTracked, SentTracked
  <2>2. CASE Arrives(r)
    BY <2>1, <2>2 DEF Arrives
  <2>3. CASE Copies(r) \/ Schedules(r) \/ Answered(r) \/ GoesOn(r)
    BY <2>1, <2>3 DEF Copies, Schedules, Answered, GoesOn, SameIds
  <2>4. CASE SendsPrefill(r)
    BY <2>1, <2>4 DEF SendsPrefill, Sends, Roles
  <2>5. CASE SendsDecode(r)
    BY <2>1, <2>5 DEF SendsDecode, Sends, Roles
  <2> QED
    BY <2>2, <2>3, <2>4, <2>5 DEF IdMove
<1> QED
  BY <1>1, <1>2 DEF UuidTracked

(* Another handler that sends does not drop this request's state. *)
LEMMA OthersKeepState ==
  ASSUME IdInv, NEW r \in Requests, DropsOwn(r), NEW q \in Requests \ {r}, OwnId(q),
         pc[q] \in {"sendPrefill", "sendDecode"}, schedId[q] \in pluginState
  PROVE  schedId[q] \in pluginState'
<1>1. CASE pluginState \subseteq pluginState'
  BY <1>1
<1>2. CASE /\ SendsPrefill(r) \/ SendsDecode(r)
           /\ pluginState' = pluginState \ {schedId[r]}
  <2>1. schedId[r] \in OwnIds(r) /\ schedId[q] \in OwnIds(q)
    BY <1>2 DEF IdInv, IdsTracked, SendsPrefill, SendsDecode
  <2>2. OwnIds(q) \cap OwnIds(r) = {}
    BY OwnIdsDisjoint DEF IdInv, ContractInv, TypeInv
  <2> QED
    BY <1>2, <2>1, <2>2
<1> QED
  BY <1>1, <1>2 DEF DropsOwn

(* State stored for a request is there when its handler sends. *)
LEMMA MoveKeepsState ==
  ASSUME IdInv, NEW r \in Requests, IdMove(r), DropsOwn(r), orchestrator' = orchestrator,
         \A q \in Requests \ {r} : SameRequest(q)
  PROVE  StateTracked' /\ PluginStateFound'
<1>1. \A q \in Requests : OwnId(q)' => OwnId(q)
  BY OwnIdsKept DEF IdInv
<1>2. \A q \in Requests : StateTracked!(q) /\ PluginStateFound!(q)
  BY DEF IdInv, StateTracked, PluginStateFound
<1>3. ASSUME NEW q \in Requests \ {r} PROVE StateTracked!(q)' /\ PluginStateFound!(q)'
  <2>1. /\ pc'[q] = pc[q] /\ missed'[q] = missed[q]
        /\ sent'[q] = sent[q] /\ schedId'[q] = schedId[q]
    BY DEF SameRequest, SameIds
  <2>2. OwnId(q) /\ pc[q] \in {"sendPrefill", "sendDecode"} /\ schedId[q] \in pluginState
          => schedId[q] \in pluginState'
    BY OthersKeepState
  <2>3. StateTracked!(q) /\ PluginStateFound!(q)
    BY <1>2
  <2> QED
    BY <1>1, <2>1, <2>2, <2>3
<1>4. StateTracked!(r)' /\ PluginStateFound!(r)'
  <2>1. StateTracked!(r) /\ PluginStateFound!(r) /\ (OwnId(r)' => OwnId(r))
    BY <1>1, <1>2
  <2>2. CASE Arrives(r) \/ Copies(r)
    BY <2>1, <2>2 DEF Arrives, Copies
  <2>3. CASE Schedules(r)
    BY <2>1, <2>3 DEF Schedules
  <2>4. CASE SendsPrefill(r)
    BY <2>1, <2>4 DEF SendsPrefill, Sends
  <2>5. CASE SendsDecode(r)
    <3>1. sent'[r]["prefill"] = sent[r]["prefill"]
      BY <2>5 DEF SendsDecode, Sends, Roles
    <3> QED
      BY <2>1, <2>5, <3>1 DEF SendsDecode, Sends
  <2>6. CASE Answered(r)
    <3>1. orchestrator \in {"none", "nonDeferred", "deferred"} /\ sent[r]["prefill"] # Absent
      BY <2>6 DEF Answered, IdInv, ContractInv, SentTracked, TypeInv, TypeOK, Orchestrators
    <3> QED
      BY <2>1, <2>6, <3>1 DEF Answered
  <2>7. CASE GoesOn(r)
    <3>1. pc'[r] = pc[r] /\ pc[r] \in {"sendPrefill", "sendDecode"} =>
            pluginState \subseteq pluginState'
      BY DEF DropsOwn, SendsPrefill, SendsDecode
    <3> QED
      BY <2>1, <2>7, <3>1 DEF GoesOn, SameIds
  <2> QED
    BY <2>2, <2>3, <2>4, <2>5, <2>6, <2>7 DEF IdMove
<1> QED
  BY <1>3, <1>4 DEF StateTracked, PluginStateFound

LEMMA InitIdInv == Init => IdInv
<1> SUFFICES ASSUME Init PROVE IdInv
  OBVIOUS
<1>1. \A r \in Requests :
        /\ pc[r] = "idle" /\ clientId[r] = Absent /\ headers[r][CanonicalKey] = Absent
        /\ schedId[r] = Absent /\ missed[r] = {}
        /\ \A role \in Roles : sent[r][role] = Absent
  BY SpellingTypes DEF Init
<1>2. IdsTracked /\ UuidTracked
  BY <1>1 DEF IdsTracked, UuidTracked, Roles
<1>3. StateTracked /\ PluginStateFound
  BY <1>1 DEF StateTracked, PluginStateFound
<1> QED
  BY <1>2, <1>3, InitContractInv DEF IdInv

LEMMA StepIdInv == IdInv /\ [Next]_vars => IdInv'
<1> SUFFICES ASSUME IdInv, [Next]_vars
             PROVE  IdsTracked' /\ UuidTracked' /\ StateTracked' /\ PluginStateFound'
  BY StepContractInv DEF IdInv
<1>1. ASSUME NEW r \in Requests, LocalStep(r) \/ RemoteStep(r)
      PROVE  IdsTracked' /\ UuidTracked' /\ StateTracked' /\ PluginStateFound'
  <2>1. /\ IdMove(r) /\ DropsOwn(r) /\ orchestrator' = orchestrator
        /\ \A q \in Requests \ {r} : SameRequest(q)
    BY <1>1, StepIsIdMove DEF IdInv, ContractInv
  <2> QED
    BY <2>1, MoveKeepsIds, MoveKeepsUuid, MoveKeepsState
<1>2. CASE UNCHANGED vars
  BY <1>2 DEF vars, IdInv, IdsTracked, UuidTracked, StateTracked, PluginStateFound,
              OwnId, OwnIds
<1> QED
  BY <1>1, <1>2 DEF Next, Finished

(* The invariant, for any number of handlers that run at once. *)
THEOREM IdInvariant == Spec => []IdInv
BY InitIdInv, StepIdInv, PTL DEF Spec

------------------------------------------------------------------------------
(* The theorems. *)

(* However the handlers interleave, a request with an ID of its own finds   *)
(* the state its scheduling stored when the plugins run for its first       *)
(* target, and under the deferred orchestration for its second one too      *)
(* (commonSendRequest; the IDs of ServeHTTP and sendPrefillRequest).        *)
THEOREM StateIsFound == Spec => []PluginStateFound
<1>1. IdInv => PluginStateFound
  BY DEF IdInv
<1> QED
  BY <1>1, IdInvariant, PTL

(* A request whose client sent no ID goes to its servers under one ID,      *)
(* which no request of another client carries (ServeHTTP, lines 36-42;      *)
(* sendPrefillRequest, lines 159-166 and 200).                              *)
THEOREM IdsAreShared == Spec => []IdSharedByBothServers
<1>1. ASSUME IdInv PROVE IdSharedByBothServers
  <2>1. IdsTracked /\ UuidTracked /\ TypeOK
    BY <1>1 DEF IdInv, ContractInv, TypeInv
  <2>2. ASSUME NEW r \in Requests, clientId[r] = Absent,
               NEW role \in Roles, NEW q \in Requests \ {r}, NEW other \in Roles,
               sent[r][role] # Absent, sent[q][other] # Absent
        PROVE  sent[r][role].id # sent[q][other].id
    <3>1. sent[r][role].id \in {GeneratedId(r), PrefillUuid(r)}
      BY <2>1, <2>2 DEF IdsTracked, OwnIds
    <3>2. sent[q][other].id \in {GeneratedId(q), PrefillUuid(q), EmptyId}
                                   \cup {ClientId(c) : c \in ClientIds}
      <4>1. sent[q][other].id \in {GeneratedId(q), PrefillUuid(q)} \cup ({clientId[q]} \ {Absent})
        BY <2>1, <2>2 DEF IdsTracked, OwnIds
      <4>2. \/ clientId[q] = Absent \/ clientId[q] = EmptyId
            \/ \E c \in ClientIds : clientId[q] = ClientId(c)
        BY <2>1, OwnIdTypes
      <4> QED
        BY <4>1, <4>2
    <3> QED
      BY <3>1, <3>2, IdsDiffer
  <2>3. ASSUME NEW r \in Requests, clientId[r] = Absent,
               sent[r]["prefill"] # Absent, sent[r]["decode"] # Absent
        PROVE  sent[r]["prefill"].id = sent[r]["decode"].id
    BY <2>1, <2>3 DEF UuidTracked, Roles
  <2> QED
    BY <2>2, <2>3 DEF IdSharedByBothServers
<1> QED
  BY <1>1, IdInvariant, PTL
==============================================================================
