------------------------ MODULE InferenceProxyProofs ---------------------------
(***************************************************************************)
(* Proofs about InferenceProxy, for any requests, endpoints, bodies, IDs   *)
(* and server answers.                                                     *)
(***************************************************************************)
EXTENDS InferenceProxy, TLAPS

(* A handler that is about to send has a target; outside the deferred       *)
(* orchestration a handler that prefills already has its decode target.     *)
TargetsReady ==
  \A r \in Requests :
    /\ pc[r] = "sendPrefill" => targets[r]["prefill"] # Null
    /\ pc[r] = "sendDecode"  => targets[r]["decode"]  # Null
    /\ pc[r] \in {"sendPrefill", "prefillWait"} /\ orchestrator # "deferred" =>
         targets[r]["decode"] # Null

TypeInv == TypeOK /\ TargetsReady

(* Every step is about what it changes and what it leaves unchanged. *)
USE DEF reqVars, ctxVars, schedVars, sendVars, connVars, Goto, ProfileResult

------------------------------------------------------------------------------
(* The operators the steps are built from. *)

(* The IDs the code makes up, and those it is given, are IDs. *)
LEMMA IdTypes ==
  ASSUME NEW r \in Requests
  PROVE  /\ PrefillUuid(r) \in Ids
         /\ SuppliedIds \subseteq Ids
         /\ \A id \in SuppliedIds \cup {Absent} : RequestID(r, id) \in Ids
BY DEF RequestID, Ids

(* Setting one spelling of the ID header keeps the header maps' type. *)
LEMMA SetHeaderType ==
  ASSUME NEW hs \in [Requests -> HeaderMap], NEW r \in Requests,
         NEW key \in Spellings, NEW v \in Ids \cup {Absent}
  PROVE  /\ hs[r][key] \in Ids \cup {Absent}
         /\ [hs EXCEPT ![r][key] = v] \in [Requests -> HeaderMap]
BY DEF HeaderMap

(* Both spellings are keys of the header map. *)
LEMMA SpellingTypes == LowerKey \in Spellings /\ CanonicalKey \in Spellings
BY DEF Spellings

(* The steps that write the ID header keep the header maps' type. *)
LEMMA HeaderWriteTypes ==
  ASSUME TypeOK, NEW r \in Requests
  PROVE  /\ CopyHeaders(r) => headers' \in [Requests -> HeaderMap]
         /\ [headers EXCEPT ![r][LowerKey] = PrefillUuid(r)] \in [Requests -> HeaderMap]
<1>1. headers \in [Requests -> HeaderMap] /\ clientId[r] \in SuppliedIds \cup {Absent}
  BY DEF TypeOK
<1>2. clientId[r] \in Ids \cup {Absent} /\ PrefillUuid(r) \in Ids \cup {Absent}
  BY <1>1, IdTypes
<1>3. [headers EXCEPT ![r][CanonicalKey] = clientId[r]] \in [Requests -> HeaderMap]
  BY <1>1, <1>2, SetHeaderType, SpellingTypes
<1>4. [headers EXCEPT ![r][LowerKey] = PrefillUuid(r)] \in [Requests -> HeaderMap]
  BY <1>1, <1>2, SetHeaderType, SpellingTypes
<1> QED
  BY <1>3, <1>4 DEF CopyHeaders

(* Of the header map's values only IDs leave the proxy. *)
LEMMA OutgoingIdsType ==
  ASSUME NEW h \in HeaderMap
  PROVE  OutgoingIds(h) \subseteq Ids
BY DEF OutgoingIds, HeaderMap

(* The bodies made for the prefill and after it are bodies. *)
LEMMA PrefillBodyType ==
  ASSUME NEW b \in Body
  PROVE  PrefillBody(b) \in Body
BY DEF PrefillBody, Body, Fields, FieldValues, KVField, SavedFields

LEMMA RestoreBodyType ==
  ASSUME NEW b \in Body, NEW s \in [SavedFields -> FieldValues],
         NEW kv \in KVParams \cup {Null}
  PROVE  RestoreBody(b, s, kv) \in Body
BY DEF RestoreBody, Body, Fields, FieldValues, KVField, SavedFields

(* What a client sends is a body. *)
LEMMA ClientBodyType == ClientBodies \subseteq Body
BY ConstantsAssumption DEF Body, FieldValues

(* What scheduling stores has its type, when the targets do. *)
SchedTypes ==
  /\ targets     \in [Requests -> [Roles -> Endpoints \cup {Null}]]
  /\ schedId     \in [Requests -> Ids \cup {Absent}]
  /\ pluginState \in SUBSET (Ids \cup {Absent})

LEMMA ScheduleType ==
  ASSUME TypeOK, NEW r \in Requests, NEW t \in [Roles -> Endpoints \cup {Null}],
         Schedule(r, t)
  PROVE  SchedTypes' /\ targets' = [targets EXCEPT ![r] = t]
<1>1. headers[r][LowerKey] \in Ids \cup {Absent}
  BY SetHeaderType, SpellingTypes DEF TypeOK
<1> QED
  BY <1>1 DEF Schedule, SchedTypes, TypeOK

------------------------------------------------------------------------------
(* Type correctness. *)

(* A request that is sent to a server has its type, when its target is known. *)
SendTypes ==
  /\ targetEndpoint \in [Requests -> Endpoints \cup {Null}]
  /\ sent           \in [Requests -> [Roles -> Outgoing \cup {Absent}]]
  /\ pluginState    \in SUBSET (Ids \cup {Absent})
  /\ missed         \in [Requests -> SUBSET Roles]

LEMMA CommonSendType ==
  ASSUME TypeOK, NEW r \in Requests, NEW to \in Roles, NEW h \in HeaderMap,
         NEW b \in Body, targets[r][to] # Null, CommonSendRequest(r, to, h, b)
  PROVE  /\ SendTypes'
         /\ \E out \in Outgoing : sent' = [sent EXCEPT ![r][to] = out]
<1>1. targets[r][to] \in Endpoints
  BY DEF TypeOK
<1>2. targetEndpoint' \in [Requests -> Endpoints \cup {Null}]
      /\ targetEndpoint'[r] = targets[r][to]
  BY <1>1 DEF CommonSendRequest, TypeOK
<1>3. PICK id \in OutgoingIds(h) :
        sent' = [sent EXCEPT ![r][to] = [to |-> targetEndpoint'[r], id |-> id, body |-> b]]
  BY DEF CommonSendRequest
<1>4. id \in Ids
  BY OutgoingIdsType
<1>5. [to |-> targetEndpoint'[r], id |-> id, body |-> b] \in Outgoing
  BY <1>1, <1>2, <1>4 DEF Outgoing
<1>6. sent' \in [Requests -> [Roles -> Outgoing \cup {Absent}]]
  BY <1>3, <1>5 DEF TypeOK
<1>7. missed' \in [Requests -> SUBSET Roles]
  BY DEF CommonSendRequest, TypeOK
<1>8. pluginState' \in SUBSET (Ids \cup {Absent})
  BY DEF CommonSendRequest, TypeOK
<1> QED
  BY <1>2, <1>3, <1>5, <1>6, <1>7, <1>8 DEF SendTypes

LEMMA InitTypeInv == Init => TypeInv
BY DEF Init, TypeInv, TypeOK, TargetsReady, Labels, Orchestrators,
       HeaderMap, Body,
       EmptyBody, FieldValues, Origins

(* One step per action. *)
LEMMA StepTypeInv == TypeInv /\ [Next]_vars => TypeInv'
<1> SUFFICES ASSUME TypeInv, [Next]_vars PROVE TypeInv'
  OBVIOUS
<1>1. ASSUME NEW r \in Requests, ServeHTTP(r) PROVE TypeInv'
  <2>1. PICK id \in SuppliedIds \cup {Absent}, b \in ClientBodies : ServeHTTP(r)!2!(id, b)
    BY <1>1 DEF ServeHTTP
  <2>2. headers' \in [Requests -> HeaderMap]
    BY <2>1, IdTypes, SetHeaderType, SpellingTypes DEF TypeInv, TypeOK
  <2>3. TypeOK'
    BY <1>1, <2>1, <2>2, ClientBodyType DEF ServeHTTP, TypeInv, TypeOK, Labels
  <2>4. TargetsReady'
    BY <1>1, <2>1, <2>2, ClientBodyType
       DEF ServeHTTP, TypeInv, TypeOK, TargetsReady, Labels
  <2> QED
    BY <2>3, <2>4 DEF TypeInv
<1>2. ASSUME NEW r \in Requests, PrepareRequest(r) PROVE TypeInv'
  <2>1. headers' \in [Requests -> HeaderMap]
    BY <1>2, HeaderWriteTypes DEF PrepareRequest, TypeInv
  <2>2. TypeOK'
    <3>1. body' \in [Requests -> Body] /\ pc' \in [Requests -> Labels]
      BY <1>2 DEF PrepareRequest, TypeInv, TypeOK, Labels
    <3>2. UNCHANGED <<reqVars, saved, kvParams, schedVars, sendVars, connVars,
                      gone, pluginState, err>>
      BY <1>2 DEF PrepareRequest
    <3> QED
      BY <2>1, <3>1, <3>2 DEF TypeInv, TypeOK
  <2>3. TargetsReady'
    BY <1>2 DEF PrepareRequest, TypeInv, TypeOK, TargetsReady
  <2> QED
    BY <2>2, <2>3 DEF TypeInv
<1>3. ASSUME NEW r \in Requests, PrepareRequestFails(r) PROVE TypeInv'
  <2>1. headers' \in [Requests -> HeaderMap]
    BY <1>3, HeaderWriteTypes DEF PrepareRequestFails, TypeInv
  <2>2. status' \in [Requests -> {0} \cup 200..599] /\ writes' \in [Requests -> Nat]
    BY <1>3 DEF PrepareRequestFails, SendError, WriteHeader, TypeInv, TypeOK
  <2>3. TypeOK'
    <3>1. /\ pc' \in [Requests -> Labels]
          /\ err' \in [Requests -> BOOLEAN]
          /\ from' \in [Requests -> Origins]
      BY <1>3 DEF PrepareRequestFails, SendError, ReturnError, TypeInv, TypeOK,
                  Labels, Origins
    <3>2. UNCHANGED <<reqVars, body, saved, kvParams, schedVars, sendVars,
                      gone, pluginState, conn>>
      BY <1>3 DEF PrepareRequestFails, SendError
    <3> QED
      BY <2>1, <2>2, <3>1, <3>2 DEF TypeInv, TypeOK
  <2>4. TargetsReady'
    BY <1>3 DEF PrepareRequestFails, ReturnError, TypeInv, TypeOK, TargetsReady
  <2> QED
    BY <2>3, <2>4 DEF TypeInv
<1>4. ASSUME NEW r \in Requests, DirectorRefuses(r) PROVE TypeInv'
  <2>1. headers[r][LowerKey] \in Ids \cup {Absent}
    BY SetHeaderType, SpellingTypes DEF TypeInv, TypeOK
  <2>2. TypeOK'
    BY <1>4, <2>1
       DEF DirectorRefuses, TypeInv, TypeOK, Labels, WriteHeader, SendError,
           ReturnError, Origins
  <2>3. TargetsReady'
    BY <1>4, <2>1
       DEF DirectorRefuses, TypeInv, TypeOK, TargetsReady, Labels,
           WriteHeader, SendError, ReturnError, Origins
  <2> QED
    BY <2>2, <2>3 DEF TypeInv
<1>5. ASSUME NEW r \in Requests, StandardSchedule(r) PROVE TypeInv'
  <2>1. PICK e \in Endpoints : Schedule(r, [targets[r] EXCEPT !["decode"] = e])
    BY <1>5 DEF StandardSchedule
  <2>2. [targets[r] EXCEPT !["decode"] = e] \in [Roles -> Endpoints \cup {Null}]
    BY DEF TypeInv, TypeOK, Roles
  <2>3. SchedTypes'
    BY <2>1, <2>2, ScheduleType DEF TypeInv
  <2>4. TypeOK'
    BY <1>5, <2>1, <2>2, <2>3
       DEF StandardSchedule, TypeInv, TypeOK, Labels, Schedule, SchedTypes,
           Roles
  <2>5. TargetsReady'
    BY <1>5, <2>1, <2>2, <2>3, ConstantsAssumption
       DEF StandardSchedule, TypeInv, TypeOK, TargetsReady, Labels,
           Schedule, SchedTypes, Roles
  <2> QED
    BY <2>4, <2>5 DEF TypeInv
<1>6. ASSUME NEW r \in Requests, NonDeferredSchedule(r) PROVE TypeInv'
  <2>1. PICK t \in [Roles -> Endpoints \cup {Null}] : NonDeferredSchedule(r)!3!(t)
    BY <1>6 DEF NonDeferredSchedule
  <2>2. SchedTypes'
    BY <2>1, ScheduleType DEF TypeInv
  <2>3. TypeOK'
    <3>1. \E label \in Labels : pc' = [pc EXCEPT ![r] = label]
      BY <2>1 DEF Labels, ReturnError
    <3>2. err' \in {err, [err EXCEPT ![r] = TRUE]}
      BY <2>1 DEF ReturnError
    <3>3. pc \in [Requests -> Labels] /\ err \in [Requests -> BOOLEAN]
      BY DEF TypeInv, TypeOK
    <3>4. pc' \in [Requests -> Labels] /\ err' \in [Requests -> BOOLEAN]
      BY <3>1, <3>2, <3>3
    <3> QED
      BY <2>1, <2>2, <3>4 DEF TypeInv, TypeOK, Schedule, SchedTypes
  <2>4. TargetsReady'
    BY <1>6, <2>1, <2>2
       DEF NonDeferredSchedule, TypeInv, TypeOK, TargetsReady, Labels,
           ReturnError, Schedule, SchedTypes, Roles
  <2> QED
    BY <2>3, <2>4 DEF TypeInv
<1>7. ASSUME NEW r \in Requests, DeferredSchedulePrefill(r) PROVE TypeInv'
  <2>1. PICK e \in Endpoints \cup {Null} : DeferredSchedulePrefill(r)!3!(e)
    BY <1>7 DEF DeferredSchedulePrefill
  <2>2. [targets[r] EXCEPT !["prefill"] = e] \in [Roles -> Endpoints \cup {Null}]
    BY DEF TypeInv, TypeOK, Roles
  <2>3. SchedTypes'
    BY <2>1, <2>2, ScheduleType DEF TypeInv
  <2>4. TypeOK'
    BY <1>7, <2>1, <2>2, <2>3
       DEF DeferredSchedulePrefill, TypeInv, TypeOK, Labels, Schedule,
           SchedTypes, Roles
  <2>5. TargetsReady'
    BY <1>7, <2>1, <2>2, <2>3
       DEF DeferredSchedulePrefill, TypeInv, TypeOK, TargetsReady, Labels,
           Schedule, SchedTypes, Roles
  <2> QED
    BY <2>4, <2>5 DEF TypeInv
<1>8. ASSUME NEW r \in Requests, DeferredScheduleDecode(r) PROVE TypeInv'
  <2>1. PICK e \in Endpoints \cup {Null} : DeferredScheduleDecode(r)!2!(e)
    BY <1>8 DEF DeferredScheduleDecode
  <2>2. [targets[r] EXCEPT !["decode"] = e] \in [Roles -> Endpoints \cup {Null}]
    BY DEF TypeInv, TypeOK, Roles
  <2>3. SchedTypes'
    BY <2>1, <2>2, ScheduleType DEF TypeInv
  <2>4. TypeOK'
    <3>1. \E label \in Labels : pc' = [pc EXCEPT ![r] = label]
      BY <2>1 DEF Labels, ReturnError
    <3>2. err' \in {err, [err EXCEPT ![r] = TRUE]}
      BY <2>1 DEF ReturnError
    <3>3. pc \in [Requests -> Labels] /\ err \in [Requests -> BOOLEAN]
      BY DEF TypeInv, TypeOK
    <3>4. pc' \in [Requests -> Labels] /\ err' \in [Requests -> BOOLEAN]
      BY <3>1, <3>2, <3>3
    <3> QED
      BY <2>1, <2>3, <3>4 DEF TypeInv, TypeOK, Schedule, SchedTypes
  <2>5. TargetsReady'
    BY <1>8, <2>1, <2>2, <2>3
       DEF DeferredScheduleDecode, TypeInv, TypeOK, TargetsReady, Labels,
           ReturnError, Schedule, SchedTypes, Roles
  <2> QED
    BY <2>4, <2>5 DEF TypeInv
<1>9. ASSUME NEW r \in Requests, SendPrefillRequest(r) PROVE TypeInv'
  <2>1. body[r] \in Body /\ PrefillBody(body[r]) \in Body
    BY PrefillBodyType DEF TypeInv, TypeOK
  <2>2. headers' \in [Requests -> HeaderMap] /\ [headers[r] EXCEPT ![LowerKey] = PrefillUuid(r)] \in HeaderMap
    BY <1>9, IdTypes, SpellingTypes
       DEF SendPrefillRequest, TypeInv, TypeOK, HeaderMap
  <2>3. SendTypes'
    BY <1>9, <2>1, <2>2, CommonSendType
       DEF SendPrefillRequest, TypeInv, TargetsReady, Roles
  <2>4. saved' \in [Requests -> [SavedFields -> FieldValues]] /\ body' \in [Requests -> Body]
    BY <1>9, <2>1 DEF SendPrefillRequest, TypeInv, TypeOK, Body, Fields
  <2>5. TypeOK'
    BY <1>9, <2>1, <2>2, <2>3, <2>4
       DEF SendPrefillRequest, TypeInv, TypeOK, Labels, SendTypes
  <2>6. TargetsReady'
    BY <1>9, <2>1, <2>2, <2>3, <2>4
       DEF SendPrefillRequest, TypeInv, TypeOK, TargetsReady, Labels,
           SendTypes
  <2> QED
    BY <2>5, <2>6 DEF TypeInv
<1>10. ASSUME NEW r \in Requests, PrefillUuidFails(r) PROVE TypeInv'
  BY <1>10
     DEF PrefillUuidFails, TypeInv, TypeOK, TargetsReady, Labels,
         ReturnError
<1>11. ASSUME NEW r \in Requests, PrefillAnswered(r) PROVE TypeInv'
  <2>1. PICK kv \in KVParams \cup {Null} : PrefillAnswered(r)!3!(kv)
    BY <1>11 DEF PrefillAnswered
  <2>2. body' \in [Requests -> Body]
    <3>1. body \in [Requests -> Body] /\ saved[r] \in [SavedFields -> FieldValues]
      BY DEF TypeInv, TypeOK
    <3>2. RestoreBody(body[r], saved[r], kv) \in Body
      BY <3>1, RestoreBodyType
    <3> QED
      BY <2>1, <3>1, <3>2
  <2>3. headers' \in [Requests -> HeaderMap]
    BY <1>11, HeaderWriteTypes DEF PrefillAnswered, TypeInv
  <2>4. TypeOK'
    BY <1>11, <2>1, <2>2, <2>3
       DEF PrefillAnswered, TypeInv, TypeOK, Labels, CollectReply
  <2>5. TargetsReady'
    BY <1>11, <2>1, <2>2, <2>3
       DEF PrefillAnswered, TypeInv, TypeOK, TargetsReady, Labels,
           CollectReply
  <2> QED
    BY <2>4, <2>5 DEF TypeInv
<1>12. ASSUME NEW r \in Requests, PrefillFailed(r) PROVE TypeInv'
  BY <1>12
     DEF PrefillFailed, TypeInv, TypeOK, TargetsReady, Labels, CollectReply,
         ReturnError
<1>13. ASSUME NEW r \in Requests, PrefillBroken(r) PROVE TypeInv'
  BY <1>13
     DEF PrefillBroken, TypeInv, TypeOK, TargetsReady, Labels, Panic,
         Origins
<1>14. ASSUME NEW r \in Requests, SendDecodeRequest(r) PROVE TypeInv'
  <2>1. SendTypes'
    BY <1>14, CommonSendType
       DEF SendDecodeRequest, TypeInv, TypeOK, TargetsReady, Roles
  <2>2. TypeOK'
    BY <1>14, <2>1 DEF SendDecodeRequest, TypeInv, TypeOK, Labels, SendTypes
  <2>3. TargetsReady'
    BY <1>14, <2>1
       DEF SendDecodeRequest, TypeInv, TypeOK, TargetsReady, Labels,
           SendTypes
  <2> QED
    BY <2>2, <2>3 DEF TypeInv
<1>15. ASSUME NEW r \in Requests, RelayHeader(r) PROVE TypeInv'
  BY <1>15, ConstantsAssumption
     DEF RelayHeader, TypeInv, TypeOK, TargetsReady, Labels, WriteHeader
<1>16. ASSUME NEW r \in Requests, DecodeUnreachable(r) PROVE TypeInv'
  BY <1>16
     DEF DecodeUnreachable, TypeInv, TypeOK, TargetsReady, Labels,
         WriteHeader
<1>17. ASSUME NEW r \in Requests, RelayEnd(r) PROVE TypeInv'
  BY <1>17 DEF RelayEnd, TypeInv, TypeOK, TargetsReady, Labels, Origins
<1>18. ASSUME NEW r \in Requests, RelayBroken(r) PROVE TypeInv'
  BY <1>18
     DEF RelayBroken, TypeInv, TypeOK, TargetsReady, Labels, Panic, Origins
<1>19. ASSUME NEW r \in Requests, HandlerReturns(r) PROVE TypeInv'
  BY <1>19 DEF HandlerReturns, TypeInv, TypeOK, TargetsReady, Labels
<1>20. ASSUME NEW r \in Requests, ClientHangsUp(r) PROVE TypeInv'
  BY <1>20 DEF ClientHangsUp, TypeInv, TypeOK, TargetsReady, Labels
<1>21. CASE UNCHANGED vars
  BY <1>21 DEF TypeInv, TypeOK, TargetsReady, vars
<1> QED
  BY <1>1, <1>2, <1>3, <1>4, <1>5, <1>6, <1>7, <1>8, <1>9, <1>10, <1>11, <1>12, <1>13, <1>14, <1>15, <1>16, <1>17, <1>18, <1>19, <1>20, <1>21
     DEF Next, LocalStep, RemoteStep, Finished

(* Every variable keeps its type; in particular no request is ever sent to  *)
(* a nil target, whatever the profiles return (nonDeferredDecodePD,         *)
(* deferredDecodePD: the nil checks before the targets are used).           *)
THEOREM TypeCorrect == Spec => []TypeOK
<1>1. Spec => []TypeInv
  BY InitTypeInv, StepTypeInv, PTL DEF Spec
<1>2. TypeInv => TypeOK
  BY DEF TypeInv
<1> QED
  BY <1>1, <1>2, PTL

------------------------------------------------------------------------------
(* The serving server gets the client's body. *)

(* RestoreBody undoes PrefillBody, field by field, but for the              *)
(* kv_transfer_params: also for a field that the client did not send, and   *)
(* for "stream_options", which is not deleted again after the prefill.      *)
LEMMA RestoreUndoesPrefill ==
  ASSUME NEW b \in Body, NEW kv \in KVParams \cup {Null}
  PROVE  RestoreBody(PrefillBody(b), [f \in SavedFields |-> b[f]], kv)
           = [b EXCEPT ![KVField] = kv]
BY DEF RestoreBody, PrefillBody, Body, Fields, SavedFields, KVField

BeforeDecode  == {"idle", "prepare", "schedule", "sendPrefill", "prefillWait",
                  "scheduleDecode", "sendDecode"}
BeforeRestore == {"idle", "prepare", "schedule", "sendPrefill", "prefillWait"}

(* What the body in the request context is, step by step. *)
BodyTracked ==
  \A r \in Requests :
    /\ pc[r] \in BeforeDecode => sent[r]["decode"] = Absent
    /\ pc[r] \in BeforeRestore => kvParams[r] = Absent
    /\ pc[r] \in {"schedule", "sendPrefill"} => body[r] = clientBody[r]
    /\ pc[r] = "prefillWait" =>
         /\ body[r]  = PrefillBody(clientBody[r])
         /\ saved[r] = [f \in SavedFields |-> clientBody[r][f]]
    /\ pc[r] \in {"scheduleDecode", "sendDecode"} => body[r] = ExpectedBody(r)

BodyInv == TypeInv /\ BodyTracked /\ DecodeBodyIntact

LEMMA InitBodyInv == Init => BodyInv
<1> SUFFICES ASSUME Init PROVE BodyInv
  OBVIOUS
<1>1. BodyTracked
  BY DEF Init, BodyTracked, Roles, BeforeDecode, BeforeRestore
<1>2. DecodeBodyIntact
  BY DEF Init, DecodeBodyIntact, Roles
<1> QED
  BY <1>1, <1>2, InitTypeInv DEF BodyInv

(* A step that touches neither the bodies nor what was sent, and moves one  *)
(* handler to a place where nothing more is asked of its body, is harmless. *)
bodyVars == <<clientBody, body, saved, kvParams, sent>>

LEMMA LeavingKeepsBodies ==
  ASSUME BodyInv, NEW r \in Requests, UNCHANGED bodyVars,
         NEW l \in {"decodeWait", "relay", "returning", "done"}, Goto(r, l)
  PROVE  BodyTracked' /\ DecodeBodyIntact'
BY DEF BodyInv, TypeInv, TypeOK, BodyTracked, DecodeBodyIntact, ExpectedBody, bodyVars,
       BeforeDecode, BeforeRestore

(* Scheduling moves a handler on with the body it has. *)
LEMMA SchedulingKeepsBodies ==
  ASSUME BodyInv, NEW r \in Requests, UNCHANGED bodyVars,
         \/ pc[r] = "schedule" /\ Goto(r, "sendPrefill")
         \/ pc[r] = "schedule" /\ Goto(r, "scheduleDecode")
         \/ pc[r] = "schedule" /\ Goto(r, "sendDecode")
         \/ pc[r] = "scheduleDecode" /\ Goto(r, "sendDecode")
  PROVE  BodyTracked' /\ DecodeBodyIntact'
BY DEF BodyInv, TypeInv, TypeOK, BodyTracked, DecodeBodyIntact, ExpectedBody, bodyVars,
       BeforeDecode, BeforeRestore
LEMMA StepBodyInv == BodyInv /\ [Next]_vars => BodyInv'
<1> SUFFICES ASSUME BodyInv, [Next]_vars PROVE BodyTracked' /\ DecodeBodyIntact'
  BY StepTypeInv DEF BodyInv
<1>1. ASSUME NEW r \in Requests, ServeHTTP(r) PROVE BodyTracked' /\ DecodeBodyIntact'
  <2>1. PICK id \in SuppliedIds \cup {Absent}, b \in ClientBodies : ServeHTTP(r)!2!(id, b)
    BY <1>1 DEF ServeHTTP
  <2>2. sent'[r]["decode"] = Absent /\ pc'[r] = "prepare" /\ kvParams'[r] = Absent
    BY <1>1 DEF ServeHTTP, BodyInv, TypeInv, TypeOK, BodyTracked, BeforeDecode,
                BeforeRestore
  <2>3. \A q \in Requests \ {r} :
          clientBody'[q] = clientBody[q] /\ pc'[q] = pc[q]
            /\ ExpectedBody(q)' = ExpectedBody(q)
    BY <1>1, <2>1 DEF ServeHTTP, BodyInv, TypeInv, TypeOK, ExpectedBody
  <2>4. UNCHANGED <<body, saved, kvParams, sent>>
    BY <1>1 DEF ServeHTTP
  <2>5. BodyTracked'
    BY <2>2, <2>3, <2>4 DEF BodyInv, BodyTracked, BeforeDecode, BeforeRestore
  <2>6. DecodeBodyIntact'
    BY <2>2, <2>3, <2>4 DEF BodyInv, DecodeBodyIntact
  <2> QED
    BY <2>5, <2>6
<1>2. ASSUME NEW r \in Requests, PrepareRequest(r) PROVE BodyTracked' /\ DecodeBodyIntact'
  BY <1>2 DEF PrepareRequest, BodyInv, TypeInv, TypeOK, BodyTracked, DecodeBodyIntact,
              ExpectedBody, BeforeDecode, BeforeRestore
<1>3. ASSUME NEW r \in Requests,
             \/ PrepareRequestFails(r) \/ DirectorRefuses(r)
             \/ PrefillUuidFails(r) \/ PrefillFailed(r) \/ PrefillBroken(r)
             \/ RelayHeader(r) \/ DecodeUnreachable(r) \/ RelayEnd(r) \/ RelayBroken(r)
             \/ HandlerReturns(r)
      PROVE  BodyTracked' /\ DecodeBodyIntact'
  <2>1. UNCHANGED bodyVars
    BY <1>3 DEF PrepareRequestFails, DirectorRefuses, PrefillUuidFails, PrefillFailed,
                PrefillBroken, RelayHeader, DecodeUnreachable, RelayEnd, RelayBroken,
                HandlerReturns, bodyVars
  <2>2. Goto(r, "relay") \/ Goto(r, "returning") \/ Goto(r, "done")
    BY <1>3 DEF PrepareRequestFails, DirectorRefuses, PrefillUuidFails, PrefillFailed,
                PrefillBroken, RelayHeader, DecodeUnreachable, RelayEnd, RelayBroken,
                HandlerReturns, ReturnError, Panic
  <2> QED
    BY <2>1, <2>2, LeavingKeepsBodies
<1>4. ASSUME NEW r \in Requests,
             \/ StandardSchedule(r) \/ NonDeferredSchedule(r)
             \/ DeferredSchedulePrefill(r) \/ DeferredScheduleDecode(r)
      PROVE  BodyTracked' /\ DecodeBodyIntact'
  <2>1. UNCHANGED bodyVars
    BY <1>4 DEF StandardSchedule, NonDeferredSchedule, DeferredSchedulePrefill,
                DeferredScheduleDecode, Schedule, bodyVars
  <2>2. \/ Goto(r, "returning")
        \/ pc[r] = "schedule" /\ Goto(r, "sendPrefill")
        \/ pc[r] = "schedule" /\ Goto(r, "scheduleDecode")
        \/ pc[r] = "schedule" /\ Goto(r, "sendDecode")
        \/ pc[r] = "scheduleDecode" /\ Goto(r, "sendDecode")
    BY <1>4 DEF StandardSchedule, NonDeferredSchedule, DeferredSchedulePrefill,
                DeferredScheduleDecode, ReturnError
  <2> QED
    BY <2>1, <2>2, LeavingKeepsBodies, SchedulingKeepsBodies
<1>5. ASSUME NEW r \in Requests, SendPrefillRequest(r)
      PROVE  BodyTracked' /\ DecodeBodyIntact'
  <2>1. PICK out : sent' = [sent EXCEPT ![r]["prefill"] = out]
    BY <1>5 DEF SendPrefillRequest, CommonSendRequest
  <2>2. \A q \in Requests : sent'[q]["decode"] = sent[q]["decode"]
    BY <2>1 DEF BodyInv, TypeInv, TypeOK, Roles
  <2>3. body[r] = clientBody[r] /\ pc[r] = "sendPrefill"
    BY <1>5 DEF SendPrefillRequest, BodyInv, BodyTracked
  <2>4. /\ body'  = [body EXCEPT ![r] = PrefillBody(clientBody[r])]
        /\ saved' = [saved EXCEPT ![r] = [f \in SavedFields |-> clientBody[r][f]]]
        /\ pc'    = [pc EXCEPT ![r] = "prefillWait"]
        /\ UNCHANGED <<clientBody, kvParams>>
    BY <1>5, <2>3 DEF SendPrefillRequest
  <2>5. \A q \in Requests : ExpectedBody(q)' = ExpectedBody(q)
    BY <2>4 DEF ExpectedBody
  <2>6. BodyTracked'
    <3>1. BodyTracked!(r)'
      <4>1. /\ body'[r] = PrefillBody(clientBody[r])
            /\ saved'[r] = [f \in SavedFields |-> clientBody[r][f]]
            /\ pc'[r] = "prefillWait"
        BY <2>4 DEF BodyInv, TypeInv, TypeOK
      <4>2. kvParams[r] = Absent /\ sent[r]["decode"] = Absent
        BY <2>3 DEF BodyInv, BodyTracked, BeforeDecode, BeforeRestore
      <4> QED
        BY <2>2, <2>4, <4>1, <4>2 DEF BodyTracked, BeforeDecode, BeforeRestore
    <3>2. \A q \in Requests \ {r} :
            body'[q] = body[q] /\ saved'[q] = saved[q] /\ pc'[q] = pc[q]
      BY <2>4 DEF BodyInv, TypeInv, TypeOK
    <3>3. \A q \in Requests \ {r} : BodyTracked!(q)'
      BY <2>2, <2>4, <2>5, <3>2 DEF BodyInv, BodyTracked
    <3> QED
      BY <3>1, <3>3 DEF BodyTracked
  <2>7. DecodeBodyIntact'
    BY <2>2, <2>5 DEF BodyInv, DecodeBodyIntact
  <2> QED
    BY <2>6, <2>7
<1>6. ASSUME NEW r \in Requests, PrefillAnswered(r)
      PROVE  BodyTracked' /\ DecodeBodyIntact'
  <2>1. PICK kv \in KVParams \cup {Null} : PrefillAnswered(r)!3!(kv)
    BY <1>6 DEF PrefillAnswered
  <2>2. kv # Absent
    BY ConstantsAssumption
  <2>3. body' = [body EXCEPT ![r] = [clientBody[r] EXCEPT ![KVField] = kv]]
    <3>1. /\ body[r]  = PrefillBody(clientBody[r])
          /\ saved[r] = [f \in SavedFields |-> clientBody[r][f]]
          /\ clientBody[r] \in Body
      BY <1>6 DEF PrefillAnswered, BodyInv, TypeInv, TypeOK, BodyTracked
    <3>2. RestoreBody(body[r], saved[r], kv) = [clientBody[r] EXCEPT ![KVField] = kv]
      BY <3>1, RestoreUndoesPrefill
    <3> QED
      BY <2>1, <3>2
  <2>4. body'[r] = ExpectedBody(r)'
    BY <1>6, <2>1, <2>2, <2>3 DEF PrefillAnswered, BodyInv, TypeInv, TypeOK, ExpectedBody
  <2>5. \A q \in Requests \ {r} : body'[q] = body[q] /\ ExpectedBody(q)' = ExpectedBody(q)
    BY <1>6, <2>1, <2>3 DEF PrefillAnswered, BodyInv, TypeInv, TypeOK, ExpectedBody
  <2> QED
    BY <1>6, <2>1, <2>2, <2>4, <2>5
       DEF PrefillAnswered, BodyInv, TypeInv, TypeOK, BodyTracked, DecodeBodyIntact,
           BeforeDecode, BeforeRestore
<1>7. ASSUME NEW r \in Requests, SendDecodeRequest(r)
      PROVE  BodyTracked' /\ DecodeBodyIntact'
  <2>1. PICK to, id : sent' = [sent EXCEPT ![r]["decode"] =
                                [to |-> to, id |-> id, body |-> body[r]]]
    BY <1>7 DEF SendDecodeRequest, CommonSendRequest
  <2>2. /\ sent'[r]["decode"] = [to |-> to, id |-> id, body |-> body[r]]
        /\ \A q \in Requests \ {r} : sent'[q] = sent[q]
    BY <2>1 DEF BodyInv, TypeInv, TypeOK, Roles
  <2>3. body[r] = ExpectedBody(r)
    BY <1>7 DEF SendDecodeRequest, BodyInv, BodyTracked
  <2>4. pc' = [pc EXCEPT ![r] = "decodeWait"] /\ UNCHANGED <<clientBody, body, saved, kvParams>>
    BY <1>7 DEF SendDecodeRequest
  <2>5. \A q \in Requests : ExpectedBody(q)' = ExpectedBody(q)
    BY <2>4 DEF ExpectedBody
  <2>6. BodyTracked'
    BY <2>2, <2>4, <2>5 DEF BodyInv, TypeInv, TypeOK, BodyTracked, BeforeDecode,
                            BeforeRestore
  <2>7. DecodeBodyIntact'
    BY <2>2, <2>3, <2>5 DEF BodyInv, DecodeBodyIntact
  <2> QED
    BY <2>6, <2>7
<1>8. ASSUME NEW r \in Requests, ClientHangsUp(r)
      PROVE  BodyTracked' /\ DecodeBodyIntact'
  BY <1>8 DEF ClientHangsUp, BodyInv, BodyTracked, DecodeBodyIntact, ExpectedBody
<1>9. CASE UNCHANGED vars
  BY <1>9 DEF vars, BodyInv, BodyTracked, DecodeBodyIntact, ExpectedBody
<1> QED
  BY <1>1, <1>2, <1>3, <1>4, <1>5, <1>6, <1>7, <1>8, <1>9
     DEF Next, LocalStep, RemoteStep, Finished

(* Whatever the prefill does to the body in the request context, the        *)
(* serving server is asked what the client asked, plus the prefill server's *)
(* kv_transfer_params (sendPrefillRequest, sendDecodeRequest).              *)
THEOREM BodyReachesServer == Spec => []DecodeBodyIntact
<1>1. Spec => []BodyInv
  BY InitBodyInv, StepBodyInv, PTL DEF Spec
<1>2. BodyInv => DecodeBodyIntact
  BY DEF BodyInv
<1> QED
  BY <1>1, <1>2, PTL

------------------------------------------------------------------------------
(* The client is answered once. *)

(* Nothing has been written while an error answer is still possible. *)
Unanswered == BeforeDecode \cup {"decodeWait"}

StatusTracked ==
  \A r \in Requests : pc[r] \in Unanswered => writes[r] = 0

StatusInv == TypeInv /\ StatusTracked /\ OneStatusLine

LEMMA InitStatusInv == Init => StatusInv
BY InitTypeInv DEF Init, StatusInv, StatusTracked, OneStatusLine

(* A step writes nothing, or writes the first status and leaves the places  *)
(* where another one may be written.                                        *)
LEMMA QuietStep ==
  ASSUME StatusInv, NEW r \in Requests, NEW l \in Labels, Goto(r, l), UNCHANGED writes,
         l \in Unanswered => pc[r] \in Unanswered
  PROVE  StatusTracked' /\ OneStatusLine'
BY DEF StatusInv, TypeInv, TypeOK, StatusTracked, OneStatusLine

LEMMA AnsweringStep ==
  ASSUME StatusInv, NEW r \in Requests, NEW l \in Labels \ Unanswered, Goto(r, l),
         pc[r] \in Unanswered, writes' = [writes EXCEPT ![r] = @ + 1]
  PROVE  StatusTracked' /\ OneStatusLine'
BY DEF StatusInv, TypeInv, TypeOK, StatusTracked, OneStatusLine

LEMMA StepStatusInv == StatusInv /\ [Next]_vars => StatusInv'
<1> SUFFICES ASSUME StatusInv, [Next]_vars PROVE StatusTracked' /\ OneStatusLine'
  BY StepTypeInv DEF StatusInv
<1>1. ASSUME NEW r \in Requests,
             \/ PrepareRequestFails(r) \/ DirectorRefuses(r)
             \/ RelayHeader(r) \/ DecodeUnreachable(r)
      PROVE  StatusTracked' /\ OneStatusLine'
  <2>1. /\ pc[r] \in Unanswered
        /\ writes' = [writes EXCEPT ![r] = @ + 1]
        /\ Goto(r, "relay") \/ Goto(r, "returning")
    BY <1>1 DEF PrepareRequestFails, DirectorRefuses, RelayHeader, DecodeUnreachable,
                SendError, ReturnError, WriteHeader, Unanswered, BeforeDecode
  <2>2. {"relay", "returning"} \subseteq Labels \ Unanswered
    BY DEF Labels, Unanswered, BeforeDecode
  <2> QED
    BY <2>1, <2>2, AnsweringStep
<1>2. ASSUME NEW r \in Requests,
             \/ ServeHTTP(r) \/ PrepareRequest(r)
             \/ StandardSchedule(r) \/ NonDeferredSchedule(r)
             \/ DeferredSchedulePrefill(r) \/ DeferredScheduleDecode(r)
             \/ SendPrefillRequest(r) \/ PrefillUuidFails(r)
             \/ PrefillAnswered(r) \/ PrefillFailed(r) \/ PrefillBroken(r)
             \/ SendDecodeRequest(r) \/ RelayEnd(r) \/ RelayBroken(r)
             \/ HandlerReturns(r)
      PROVE  StatusTracked' /\ OneStatusLine'
  <2>1. UNCHANGED writes
    BY <1>2 DEF ServeHTTP, PrepareRequest, StandardSchedule, NonDeferredSchedule,
                DeferredSchedulePrefill, DeferredScheduleDecode, Schedule,
                SendPrefillRequest, PrefillUuidFails, PrefillAnswered, CollectReply,
                PrefillFailed, PrefillBroken, SendDecodeRequest, RelayEnd, RelayBroken,
                HandlerReturns, Panic
  <2>2. \/ pc[r] \in BeforeDecode /\ \E l \in Labels : Goto(r, l)
        \/ \E l \in {"returning", "done"} : Goto(r, l)
    BY <1>2 DEF ServeHTTP, PrepareRequest, StandardSchedule, NonDeferredSchedule,
                DeferredSchedulePrefill, DeferredScheduleDecode, ReturnError,
                SendPrefillRequest, PrefillUuidFails, PrefillAnswered,
                PrefillFailed, PrefillBroken, SendDecodeRequest, RelayEnd, RelayBroken,
                HandlerReturns, Panic, BeforeDecode, Labels
  <2>3. {"returning", "done"} \subseteq Labels \ Unanswered
    BY DEF Labels, Unanswered, BeforeDecode
  <2> QED
    BY <2>1, <2>2, <2>3, QuietStep DEF Unanswered
<1>3. ASSUME NEW r \in Requests, ClientHangsUp(r)
      PROVE  StatusTracked' /\ OneStatusLine'
  BY <1>3 DEF ClientHangsUp, StatusInv, StatusTracked, OneStatusLine
<1>4. CASE UNCHANGED vars
  BY <1>4 DEF vars, StatusInv, StatusTracked, OneStatusLine
<1> QED
  BY <1>1, <1>2, <1>3, <1>4 DEF Next, LocalStep, RemoteStep, Finished

(* The client's status line is written at most once, on whichever of the    *)
(* error paths or by the relay (sendError in ServeHTTP, DetermineTargets    *)
(* and StandardProcessing; the reverse proxy).                              *)
THEOREM AnsweredOnce == Spec => []OneStatusLine
<1>1. Spec => []StatusInv
  BY InitStatusInv, StepStatusInv, PTL DEF Spec
<1>2. StatusInv => OneStatusLine
  BY DEF StatusInv
<1> QED
  BY <1>1, <1>2, PTL
================================================================================
