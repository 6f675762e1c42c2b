------------------------ MODULE ServingContractProofs -------------------------
(***************************************************************************)
(* InferenceProxy implements ServingContract and, for each request, the    *)
(* RelayContract, for any requests, endpoints, bodies, IDs and server      *)
(* answers.                                                                *)
(***************************************************************************)
EXTENDS InferenceProxyProofs

(* Every step is about what it changes and what it leaves unchanged. *)
USE DEF reqVars, ctxVars, schedVars, sendVars, connVars, Goto, ProfileResult

(* Which servers a handler has sent the request to, by where it is. *)
SentTracked ==
  \A r \in Requests :
    /\ pc[r] \in {"idle", "prepare", "schedule", "sendPrefill"} =>
         sent[r]["prefill"] = Absent /\ sent[r]["decode"] = Absent
    /\ pc[r] = "prefillWait" => sent[r]["prefill"] # Absent /\ sent[r]["decode"] = Absent
    /\ pc[r] \in {"scheduleDecode", "sendDecode"} => sent[r]["decode"] = Absent
    /\ pc[r] \in {"decodeWait", "relay"} => sent[r]["decode"] # Absent

(* What a client has been given, by where its handler is: nothing until an  *)
(* error or the serving server's header is written; at the end, an answer   *)
(* that fits what was sent.                                                 *)
AnswerTracked ==
  \A r \in Requests :
    /\ pc[r] # "done" => conn[r] = "open"
    /\ pc[r] \notin {"relay", "returning", "done"} => status[r] = 0
    /\ pc[r] = "relay" => status[r] # 0
    /\ pc[r] \notin {"returning", "done"} => from[r] = "none"
    /\ pc[r] = "returning" =>
         IF sent[r]["decode"] # Absent
           THEN status[r] # 0 /\ (from[r] = "decode" \/ (from[r] = "none" /\ status[r] = 502))
           ELSE from[r] \in {"none", "proxy"} /\ (from[r] = "none" <=> status[r] = 0)

ContractInv == TypeInv /\ SentTracked /\ AnswerTracked

------------------------------------------------------------------------------
(* The steps of a handler, reduced to what the contract sees of them. *)

(* Request q looks to the contract as it did before the step. *)
SameSent(q)   == sent'[q] = sent[q]
SameAnswer(q) == conn'[q] = conn[q] /\ from'[q] = from[q] /\ status'[q] = status[q]
SameView(q)   == pc'[q] = pc[q] /\ SameSent(q) /\ SameAnswer(q)

(* The moves that leave servers and client alone. *)
QuietMove(a, b) ==
  \/ a = "idle" /\ b = "prepare"
  \/ a = "prepare" /\ b = "schedule"
  \/ a = "schedule" /\ b \in {"sendPrefill", "scheduleDecode", "sendDecode", "returning"}
  \/ a = "sendPrefill" /\ b = "returning"
  \/ a = "prefillWait" /\ b \in {"scheduleDecode", "sendDecode", "returning"}
  \/ a = "scheduleDecode" /\ b \in {"sendDecode", "returning"}

Quiet(r)   == QuietMove(pc[r], pc'[r]) /\ SameSent(r) /\ SameAnswer(r)
Refused(r) ==
  /\ pc[r] \in {"prepare", "schedule", "scheduleDecode"} /\ pc'[r] = "returning"
  /\ SameSent(r) /\ conn'[r] = conn[r] /\ from'[r] = "proxy" /\ status'[r] # 0
ToPrefill(r) ==
  /\ pc[r] = "sendPrefill" /\ pc'[r] = "prefillWait"
  /\ sent'[r]["prefill"] # Absent /\ sent'[r]["decode"] = sent[r]["decode"]
  /\ SameAnswer(r)
ToDecode(r) ==
  /\ pc[r] = "sendDecode" /\ pc'[r] = "decodeWait"
  /\ sent'[r]["decode"] # Absent
  /\ SameAnswer(r)
Headed(r) ==
  /\ pc[r] = "decodeWait" /\ pc'[r] = "relay"
  /\ SameSent(r) /\ conn'[r] = conn[r] /\ from'[r] = from[r]
  /\ status[r] = 0 => status'[r] \in ModelStatuses
Unserved(r) ==
  /\ pc[r] = "decodeWait" /\ pc'[r] = "returning"
  /\ SameSent(r) /\ conn'[r] = conn[r] /\ from'[r] = from[r]
  /\ status[r] = 0 => status'[r] = 502
Served(r) ==
  /\ pc[r] = "relay" /\ pc'[r] = "returning"
  /\ SameSent(r) /\ conn'[r] = conn[r] /\ from'[r] = "decode" /\ status'[r] = status[r]
Cut(r) ==
  /\ pc[r] \in {"prefillWait", "relay"} /\ pc'[r] = "done"
  /\ SameSent(r) /\ conn'[r] = "aborted" /\ status'[r] = status[r]
Closed(r) ==
  /\ pc[r] = "returning" /\ pc'[r] = "done"
  /\ SameSent(r) /\ conn'[r] = "closed" /\ from'[r] = from[r]
  /\ status'[r] = IF status[r] = 0 THEN 200 ELSE status[r]

Move(r) ==
  \/ Quiet(r) \/ Refused(r) \/ ToPrefill(r) \/ ToDecode(r) \/ Headed(r)
  \/ Unserved(r) \/ Served(r) \/ Cut(r) \/ Closed(r) \/ SameView(r)

(* What TypeOK says of the variables the contract looks at. *)
ViewTypes ==
  /\ pc     \in [Requests -> Labels]
  /\ sent   \in [Requests -> [Roles -> Outgoing \cup {Absent}]]
  /\ conn   \in [Requests -> {"open", "closed", "aborted"}]
  /\ from   \in [Requests -> Origins]
  /\ status \in [Requests -> {0} \cup 200..599]

(* Every step of a handler is one of the moves, and leaves the other        *)
(* requests alone.                                                          *)
LEMMA StepIsMove ==
  ASSUME TypeInv, TypeInv', NEW r \in Requests, LocalStep(r) \/ RemoteStep(r)
  PROVE  Move(r) /\ \A q \in Requests \ {r} : SameView(q)
<1> DEFINE Goal == Move(r) /\ \A q \in Requests \ {r} : SameView(q)
<1> USE DEF SameView, SameSent, SameAnswer
<1>1. ViewTypes
  BY DEF TypeInv, TypeOK, ViewTypes
<1>2. ASSUME \/ ServeHTTP(r) \/ PrepareRequest(r)
             \/ StandardSchedule(r) \/ NonDeferredSchedule(r)
             \/ DeferredSchedulePrefill(r) \/ DeferredScheduleDecode(r)
             \/ PrefillUuidFails(r) \/ PrefillAnswered(r) \/ PrefillFailed(r)
      PROVE  Goal
  <2>1. UNCHANGED <<sent, conn, from, status>>
    BY <1>2 DEF ServeHTTP, PrepareRequest, StandardSchedule, NonDeferredSchedule,
                DeferredSchedulePrefill, DeferredScheduleDecode, Schedule,
                PrefillUuidFails, PrefillAnswered, PrefillFailed, CollectReply
  <2>2. \E l \in Labels : pc' = [pc EXCEPT ![r] = l] /\ QuietMove(pc[r], l)
    BY <1>2 DEF ServeHTTP, PrepareRequest, StandardSchedule, NonDeferredSchedule,
                DeferredSchedulePrefill, DeferredScheduleDecode, ReturnError,
                PrefillUuidFails, PrefillAnswered, PrefillFailed, QuietMove, Labels
  <2> QED
    BY <1>1, <2>1, <2>2 DEF ViewTypes, Move, Quiet
<1>3. ASSUME PrepareRequestFails(r) \/ DirectorRefuses(r) PROVE Goal
  <2>1. /\ pc[r] \in {"prepare", "schedule", "scheduleDecode"}
        /\ pc' = [pc EXCEPT ![r] = "returning"]
        /\ from' = [from EXCEPT ![r] = "proxy"]
        /\ status' = [status EXCEPT ![r] = IF @ = 0 THEN 500 ELSE @]
        /\ UNCHANGED <<sent, conn>>
    BY <1>3 DEF PrepareRequestFails, DirectorRefuses, SendError, ReturnError, WriteHeader
  <2> QED
    BY <1>1, <2>1 DEF ViewTypes, Move, Refused
<1>4. ASSUME SendPrefillRequest(r) PROVE Goal
  <2>1. /\ [headers[r] EXCEPT ![LowerKey] = PrefillUuid(r)] \in HeaderMap
        /\ PrefillBody(body[r]) \in Body
    BY PrefillBodyType, IdTypes, SpellingTypes DEF TypeInv, TypeOK, HeaderMap
  <2>2. PICK out \in Outgoing : sent' = [sent EXCEPT ![r]["prefill"] = out]
    BY <1>4, <2>1, CommonSendType DEF SendPrefillRequest, TypeInv, TargetsReady, Roles
  <2>3. out # Absent
    BY ConstantsAssumption
  <2>4. /\ pc[r] = "sendPrefill"
        /\ pc' = [pc EXCEPT ![r] = "prefillWait"]
        /\ UNCHANGED <<conn, from, status>>
    BY <1>4 DEF SendPrefillRequest
  <2> QED
    BY <1>1, <2>2, <2>3, <2>4 DEF ViewTypes, Roles, Move, ToPrefill
<1>5. ASSUME SendDecodeRequest(r) PROVE Goal
  <2>1. headers[r] \in HeaderMap /\ body[r] \in Body
    BY DEF TypeInv, TypeOK
  <2>2. PICK out \in Outgoing : sent' = [sent EXCEPT ![r]["decode"] = out]
    BY <1>5, <2>1, CommonSendType DEF SendDecodeRequest, TypeInv, TargetsReady, Roles
  <2>3. out # Absent
    BY ConstantsAssumption
  <2>4. /\ pc[r] = "sendDecode"
        /\ pc' = [pc EXCEPT ![r] = "decodeWait"]
        /\ UNCHANGED <<conn, from, status>>
    BY <1>5 DEF SendDecodeRequest
  <2> QED
    BY <1>1, <2>2, <2>3, <2>4 DEF ViewTypes, Roles, Move, ToDecode
<1>6. ASSUME RelayHeader(r) PROVE Goal
  BY <1>1, <1>6 DEF RelayHeader, WriteHeader, ViewTypes, Move, Headed
<1>7. ASSUME DecodeUnreachable(r) PROVE Goal
  BY <1>1, <1>7 DEF DecodeUnreachable, WriteHeader, ViewTypes, Move, Unserved
<1>8. ASSUME RelayEnd(r) PROVE Goal
  BY <1>1, <1>8 DEF RelayEnd, ViewTypes, Move, Served
<1>9. ASSUME PrefillBroken(r) \/ RelayBroken(r) PROVE Goal
  BY <1>1, <1>9 DEF PrefillBroken, RelayBroken, Panic, ViewTypes, Move, Cut
<1>10. ASSUME HandlerReturns(r) PROVE Goal
  BY <1>1, <1>10 DEF HandlerReturns, ViewTypes, Move, Closed
<1>11. ASSUME ClientHangsUp(r) PROVE Goal
  BY <1>11 DEF ClientHangsUp, Move
<1> QED
  BY <1>2, <1>3, <1>4, <1>5, <1>6, <1>7, <1>8, <1>9, <1>10, <1>11
     DEF LocalStep, RemoteStep

------------------------------------------------------------------------------
(* The invariant. *)

LEMMA InitContractInv == Init => ContractInv
BY InitTypeInv DEF Init, ContractInv, SentTracked, AnswerTracked, Roles

(* A move keeps the handler's answer and what it sent in step with where it *)
(* is.                                                                      *)
LEMMA MoveKeepsInv ==
  ASSUME ContractInv, NEW r \in Requests, Move(r),
         \A q \in Requests \ {r} : SameView(q)
  PROVE  SentTracked' /\ AnswerTracked'
<1> USE DEF SameView, SameSent, SameAnswer
<1>1. ASSUME NEW q \in Requests, SameView(q)
      PROVE  SentTracked!(q)' /\ AnswerTracked!(q)'
  BY <1>1 DEF ContractInv, SentTracked, AnswerTracked
<1>2. SentTracked!(r)'
  BY DEF ContractInv, SentTracked, Move, Quiet, QuietMove, Refused, ToPrefill, ToDecode,
         Headed, Unserved, Served, Cut, Closed
<1>3. AnswerTracked!(r)'
  <2>1. SentTracked!(r) /\ AnswerTracked!(r)
    BY DEF ContractInv, SentTracked, AnswerTracked
  <2>2. CASE Quiet(r)
    BY <2>1, <2>2 DEF Quiet, QuietMove
  <2>3. CASE Refused(r)
    BY <2>1, <2>3 DEF Refused
  <2>4. CASE ToPrefill(r) \/ ToDecode(r) \/ Headed(r)
    <3>1. 0 \notin ModelStatuses
      BY ConstantsAssumption
    <3> QED
      BY <2>1, <2>4, <3>1 DEF ToPrefill, ToDecode, Headed
  <2>5. CASE Unserved(r) \/ Served(r)
    BY <2>1, <2>5 DEF Unserved, Served
  <2>6. CASE Cut(r) \/ Closed(r)
    BY <2>6 DEF Cut, Closed
  <2>7. CASE SameView(r)
    BY <1>1, <2>7
  <2> QED
    BY <2>2, <2>3, <2>4, <2>5, <2>6, <2>7 DEF Move
<1> QED
  BY <1>1, <1>2, <1>3 DEF SentTracked, AnswerTracked

LEMMA StepContractInv == ContractInv /\ [Next]_vars => ContractInv'
<1> SUFFICES ASSUME ContractInv, [Next]_vars PROVE SentTracked' /\ AnswerTracked'
  BY StepTypeInv DEF ContractInv
<1>1. TypeInv /\ TypeInv'
  BY StepTypeInv DEF ContractInv
<1>2. ASSUME NEW r \in Requests, LocalStep(r) \/ RemoteStep(r)
      PROVE  SentTracked' /\ AnswerTracked'
  BY <1>1, <1>2, StepIsMove, MoveKeepsInv
<1>3. CASE UNCHANGED vars
  BY <1>3 DEF vars, ContractInv, SentTracked, AnswerTracked
<1> QED
  BY <1>2, <1>3 DEF Next, Finished

------------------------------------------------------------------------------
(* The refinement. *)

LEMMA InitRefines == Init => Contract!Init
BY DEF Init, Contract!Init, StageOf, AnswerOf

(* A request whose view did not change has its stage and its answer. *)
LEMMA SameViewSameStage ==
  ASSUME NEW q \in Requests, SameView(q)
  PROVE  StageOf(q)' = StageOf(q) /\ AnswerOf(q)' = AnswerOf(q)
BY DEF SameView, SameSent, SameAnswer, StageOf, AnswerOf

(* When only request r changes, the contract's variables change at r. *)
LEMMA ChangeAt ==
  ASSUME NEW r \in Requests, \A q \in Requests \ {r} : SameView(q)
  PROVE  /\ [q \in Requests |-> StageOf(q)]' =
              [[q \in Requests |-> StageOf(q)] EXCEPT ![r] = StageOf(r)']
         /\ [q \in Requests |-> AnswerOf(q)]' =
              [[q \in Requests |-> AnswerOf(q)] EXCEPT ![r] = AnswerOf(r)']
BY SameViewSameStage

LEMMA AdvanceRefines ==
  ASSUME NEW r \in Requests, \A q \in Requests \ {r} : SameView(q),
         NEW before, NEW after,
         StageOf(r) \in before, StageOf(r)' = after, AnswerOf(r)' = AnswerOf(r)
  PROVE  Contract!Advance(r, before, after)
BY ChangeAt DEF Contract!Advance

LEMMA CloseRefines ==
  ASSUME NEW r \in Requests, \A q \in Requests \ {r} : SameView(q),
         StageOf(r) \in {"accepted", "prefilled", "serving"}, StageOf(r)' = "closed",
         AnswerOf(r)' \in Contract!AllowedAnswers[StageOf(r)]
  PROVE  Contract!Close(r)
BY ChangeAt DEF Contract!Close

LEMMA StutterRefines ==
  ASSUME NEW r \in Requests, \A q \in Requests \ {r} : SameView(q),
         StageOf(r)' = StageOf(r), AnswerOf(r)' = AnswerOf(r)
  PROVE  UNCHANGED Contract!vars
BY ChangeAt DEF Contract!vars

(* Each move is a step of the contract, or none. *)
LEMMA MoveRefines ==
  ASSUME ContractInv, NEW r \in Requests, Move(r),
         \A q \in Requests \ {r} : SameView(q)
  PROVE  Contract!Next \/ UNCHANGED Contract!vars
<1> USE DEF SameView, SameSent, SameAnswer
<1>1. SentTracked!(r) /\ AnswerTracked!(r)
  BY DEF ContractInv, SentTracked, AnswerTracked
<1>2. CASE pc[r] = "idle" /\ Quiet(r)
  <2>1. StageOf(r) \in {"new"} /\ StageOf(r)' = "accepted" /\ AnswerOf(r)' = AnswerOf(r)
    BY <1>1, <1>2 DEF Quiet, QuietMove, StageOf, AnswerOf
  <2>2. Contract!Accept(r)
    BY <2>1, AdvanceRefines DEF Contract!Accept
  <2> QED
    BY <2>2 DEF Contract!Next
<1>3. CASE ToPrefill(r)
  <2>1. /\ StageOf(r) \in {"accepted"} /\ StageOf(r)' = "prefilled"
        /\ AnswerOf(r)' = AnswerOf(r)
    BY <1>1, <1>3 DEF ToPrefill, StageOf, AnswerOf
  <2>2. Contract!Prefill(r)
    BY <2>1, AdvanceRefines DEF Contract!Prefill
  <2> QED
    BY <2>2 DEF Contract!Next
<1>4. CASE ToDecode(r)
  <2>1. /\ StageOf(r) \in {"accepted", "prefilled"} /\ StageOf(r)' = "serving"
        /\ AnswerOf(r)' = AnswerOf(r)
    BY <1>1, <1>4 DEF ToDecode, StageOf, AnswerOf
  <2>2. Contract!Serve(r)
    BY <2>1, AdvanceRefines DEF Contract!Serve
  <2> QED
    BY <2>2 DEF Contract!Next
<1>5. CASE Cut(r)
  <2>1. /\ StageOf(r) \in {"prefilled", "serving"} /\ StageOf(r)' = "closed"
        /\ AnswerOf(r)' = "cut"
    BY <1>1, <1>5 DEF Cut, StageOf, AnswerOf
  <2>2. Contract!Close(r)
    BY <2>1, CloseRefines DEF Contract!AllowedAnswers
  <2> QED
    BY <2>2 DEF Contract!Next
<1>6. CASE Closed(r)
  <2>1. StageOf(r)' = "closed"
    BY <1>6 DEF Closed, StageOf
  <2>2. CASE sent[r]["decode"] # Absent
    <3>1. StageOf(r) = "serving"
      BY <1>6, <2>2 DEF Closed, StageOf
    <3>2. AnswerOf(r)' \in {"model", "error"}
      BY <1>1, <1>6, <2>2 DEF Closed, AnswerOf
    <3> QED
      BY <2>1, <3>1, <3>2, CloseRefines DEF Contract!AllowedAnswers, Contract!Next
  <2>3. CASE sent[r]["decode"] = Absent
    <3>1. StageOf(r) \in {"accepted", "prefilled"}
      BY <1>6, <2>3 DEF Closed, StageOf
    <3>2. AnswerOf(r)' \in {"empty", "error"}
      BY <1>1, <1>6, <2>3 DEF Closed, AnswerOf
    <3> QED
      BY <2>1, <3>1, <3>2, CloseRefines DEF Contract!AllowedAnswers, Contract!Next
  <2> QED
    BY <2>2, <2>3
<1>7. CASE (pc[r] # "idle" /\ Quiet(r)) \/ Refused(r) \/ Headed(r) \/ Unserved(r) \/ Served(r)
  <2>1. pc[r] \notin {"idle", "done"} /\ pc'[r] \notin {"idle", "done"} /\ sent'[r] = sent[r]
    BY <1>7 DEF Quiet, QuietMove, Refused, Headed, Unserved, Served
  <2>2. StageOf(r)' = StageOf(r) /\ AnswerOf(r)' = AnswerOf(r)
    BY <2>1 DEF StageOf, AnswerOf
  <2> QED
    BY <2>2, StutterRefines
<1>8. CASE SameView(r)
  BY <1>8, SameViewSameStage, StutterRefines
<1> QED
  BY <1>2, <1>3, <1>4, <1>5, <1>6, <1>7, <1>8 DEF Move

LEMMA StepRefines == ContractInv /\ [Next]_vars => [Contract!Next]_(Contract!vars)
<1> SUFFICES ASSUME ContractInv, [Next]_vars PROVE Contract!Next \/ UNCHANGED Contract!vars
  OBVIOUS
<1>1. TypeInv /\ TypeInv'
  BY StepTypeInv DEF ContractInv
<1>2. ASSUME NEW r \in Requests, LocalStep(r) \/ RemoteStep(r)
      PROVE  Contract!Next \/ UNCHANGED Contract!vars
  BY <1>1, <1>2, StepIsMove, MoveRefines
<1>3. CASE UNCHANGED vars
  BY <1>3 DEF vars, Contract!vars, StageOf, AnswerOf
<1> QED
  BY <1>2, <1>3 DEF Next, Finished

(* ContractInv is an invariant of the specification. *)
THEOREM ContractInvariant == Spec => []ContractInv
BY InitContractInv, StepContractInv, PTL DEF Spec

(* Whatever the orchestration and the failures, every request is prefilled  *)
(* at most once and before it is served, and is closed with an answer its   *)
(* stage allows; no byte of the prefill server reaches the client           *)
(* (ServeHTTP, Orchestrate, SendRequest, SendRequestAndResponse).           *)
THEOREM ContractImplemented == Spec => ImplementsContract
BY ContractInvariant, InitRefines, StepRefines, PTL DEF Spec, ImplementsContract, Contract!Spec

------------------------------------------------------------------------------
(* The relay of each request's response. *)

LEMMA InitRelays == Init => \A r \in Requests : Relay(r)!Init
BY DEF Init, Relay!Init, PhaseOf, Roles

LEMMA SameViewSameRelay ==
  ASSUME NEW q \in Requests, SameView(q)
  PROVE  [Relay(q)!Next]_(Relay(q)!vars)
BY DEF SameView, SameSent, SameAnswer, PhaseOf, Relay!vars

(* Only what follows the request to the serving server is a step of the     *)
(* relay, and that request finds the client unanswered.                     *)
LEMMA MoveRelays ==
  ASSUME ContractInv, NEW r \in Requests, Move(r)
  PROVE  [Relay(r)!Next]_(Relay(r)!vars)
<1> USE DEF SameSent, SameAnswer
<1>1. SentTracked!(r) /\ AnswerTracked!(r)
  BY DEF ContractInv, SentTracked, AnswerTracked
<1>2. ASSUME sent[r]["decode"] = Absent, sent'[r]["decode"] = Absent
      PROVE  [Relay(r)!Next]_(Relay(r)!vars)
  BY <1>2 DEF PhaseOf, Relay!vars
<1>3. CASE Quiet(r) \/ Refused(r) \/ ToPrefill(r)
  BY <1>1, <1>2, <1>3 DEF Quiet, QuietMove, Refused, ToPrefill
<1>4. CASE ToDecode(r)
  BY <1>1, <1>4 DEF ToDecode, PhaseOf, Relay!vars
<1>5. CASE Headed(r)
  BY <1>1, <1>5 DEF Headed, PhaseOf, Relay!Next, Relay!Header
<1>6. CASE Unserved(r)
  BY <1>1, <1>6 DEF Unserved, PhaseOf, Relay!Next, Relay!BadGateway
<1>7. CASE Served(r)
  BY <1>1, <1>7 DEF Served, PhaseOf, Relay!Next, Relay!End
<1>8. CASE Cut(r) /\ pc[r] = "prefillWait"
  BY <1>1, <1>2, <1>8 DEF Cut
<1>9. CASE Cut(r) /\ pc[r] = "relay"
  BY <1>1, <1>9 DEF Cut, PhaseOf, Relay!Next, Relay!Cut
<1>10. CASE Closed(r)
  BY <1>1, <1>10 DEF Closed, PhaseOf, Relay!vars
<1>11. CASE SameView(r)
  BY <1>11, SameViewSameRelay
<1> QED
  BY <1>3, <1>4, <1>5, <1>6, <1>7, <1>8, <1>9, <1>10, <1>11 DEF Move, Cut

LEMMA StepRelays ==
  ContractInv /\ [Next]_vars => [\A r \in Requests : [Relay(r)!Next]_(Relay(r)!vars)]_vars
<1> SUFFICES ASSUME ContractInv, [Next]_vars, ~UNCHANGED vars, NEW q \in Requests
             PROVE  [Relay(q)!Next]_(Relay(q)!vars)
  OBVIOUS
<1>1. TypeInv /\ TypeInv'
  BY StepTypeInv DEF ContractInv
<1>2. PICK r \in Requests : LocalStep(r) \/ RemoteStep(r)
  BY DEF Next, Finished
<1>3. Move(r) /\ \A p \in Requests \ {r} : SameView(p)
  BY <1>1, <1>2, StepIsMove
<1>4. CASE q = r
  BY <1>3, <1>4, MoveRelays
<1>5. CASE q # r
  BY <1>3, <1>5, SameViewSameRelay
<1> QED
  BY <1>4, <1>5

(* A request that is passed on to the serving server has not been answered, *)
(* and is then given that server's answer or a 502 and nothing else, for    *)
(* all requests at once: what InferenceProxy has in two steps is what       *)
(* ResponseRelay does chunk by chunk (SendRequestAndResponse, lines 66-78). *)
THEOREM RelaysImplemented == Spec => RelaysAsPromised
BY ContractInvariant, InitRelays, StepRelays, PTL DEF Spec, RelaysAsPromised
===============================================================================
