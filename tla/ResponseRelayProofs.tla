------------------------- MODULE ResponseRelayProofs --------------------------
(***************************************************************************)
(* Proofs about ResponseRelay, for any number of chunks, informational     *)
(* headers and statuses: the two sides of the tee agree, the end of the    *)
(* response is reported once and with the reply's usage, and the relay     *)
(* implements RelayContract.                                               *)
(***************************************************************************)
EXTENDS ResponseRelay, SequenceTheorems, TLAPS

USE DEF serverVars, writerVars, ctxVars, headerVars, hookVars

------------------------------------------------------------------------------
(* The inductive invariant. *)

(* The writer was made with isStreaming false; and no header's key is in    *)
(* lower case, so the response is not taken for a stream either.            *)
NotStreaming == isStreaming = FALSE /\ modelServerStreaming = FALSE

(* Until a write fails, the client has what was collected. *)
TeeTracked ==
  /\ collected = served
  /\ \/ relayed = served
     \/ conn = "aborted" /\ \E chunk \in Chunks : served = Append(relayed, chunk)

(* The handler's place, the connection and the header. *)
PlaceTracked ==
  /\ pc = "done" <=> conn # "open"
  /\ pc = "roundTrip" <=> status = 0
  /\ whole => pc \in {"end", "done"}
  /\ pc = "roundTrip" \/ (pc = "end" /\ ~whole) => served = <<>>

(* Nothing is reported before the end of the response. *)
EndTracked ==
  /\ conn # "closed" =>
       tokens = <<>> /\ usage = "zero" /\ complete = 0 /\ responseComplete = FALSE
  /\ conn = "closed" =>
       /\ complete = 1 /\ responseComplete
       /\ usage = (IF ParsedReply = "usage" THEN "reported" ELSE "zero")
       /\ tokens \in {<<>>, <<usage>>}

RelayInv ==
  TypeOK /\ NotStreaming /\ TeeTracked /\ PlaceTracked /\ EndTracked

USE DEF NotStreaming, PlaceTracked

------------------------------------------------------------------------------

LEMMA InitRelay == Init => RelayInv
<1> SUFFICES ASSUME Init PROVE RelayInv
  OBVIOUS
<1>1. TypeOK
  <2>1. {whole, isStreaming, modelError, modelServerStreaming, responseComplete} \subseteq BOOLEAN
    BY DEF Init
  <2>2. 0 \in 0..MaxInformational
    BY RelayAssumption
  <2>3. tokens \in Seq(Usages) /\ usage \in Usages
    BY DEF Init, Usages
  <2> QED
    BY <2>1, <2>2, <2>3 DEF Init, TypeOK
<1>2. TeeTracked /\ EndTracked
  BY DEF Init, TeeTracked, EndTracked
<1>3. NotStreaming /\ PlaceTracked
  BY DEF Init
<1> QED
  BY <1>1, <1>2, <1>3 DEF RelayInv

(* One more chunk in the collected body, as long as nothing is streamed. *)
LEMMA TeeCollects ==
  ASSUME RelayInv, NEW chunk, TeeChunk(chunk)
  PROVE  collected' = Append(collected, chunk) /\ UNCHANGED <<usage, responseComplete, tokens>>
BY DEF TeeChunk, RelayInv

LEMMA AppendType ==
  ASSUME NEW S, NEW s \in Seq(S), NEW e \in S
  PROVE  Append(s, e) \in Seq(S) /\ Append(s, e) # <<>>
BY AppendProperties

(* Neither kind of header has a key in lower case. *)
LEMMA HeaderKeys == "content-type" \notin DOMAIN NoHeaders \cup DOMAIN ResponseHeaders
BY DEF NoHeaders, ResponseHeaders

(* So the handler marks errors, and takes nothing for a stream. *)
LEMMA HeaderHandled ==
  ASSUME RelayInv, NEW code, NEW headers, "content-type" \notin DOMAIN headers,
         ResponseHeaderHandler(code, headers)
  PROVE  /\ {modelError, modelServerStreaming}' \subseteq BOOLEAN
         /\ modelServerStreaming' = FALSE
         /\ received' = received + 1
<1>1. modelServerStreaming' = FALSE /\ received' = received + 1
  BY DEF RelayInv, ResponseHeaderHandler
<1>2. modelError' \in BOOLEAN
  BY DEF ResponseHeaderHandler
<1> QED
  BY <1>1, <1>2

(* What a header leaves alone keeps the invariant. *)
LEMMA HeaderKeepsRest ==
  ASSUME RelayInv, conn' = conn, UNCHANGED <<served, serverVars, writerVars>>,
         UNCHANGED <<responseComplete, usage, complete, latencies, tokens>>
  PROVE  TeeTracked' /\ EndTracked'
BY DEF RelayInv, TeeTracked, EndTracked, ParsedReply

(* An informational header, or the 502. *)
LEMMA ErrorHandled ==
  ASSUME RelayInv,
         ResponseHeaderHandler(103, NoHeaders) \/ ResponseHeaderHandler(502, NoHeaders)
  PROVE  /\ {modelError, modelServerStreaming}' \subseteq BOOLEAN
         /\ modelServerStreaming' = FALSE
         /\ received' = received + 1
<1>1. modelError' \in BOOLEAN
  BY DEF ResponseHeaderHandler
<1>2. modelServerStreaming' = FALSE /\ received' = received + 1
  BY HeaderKeys DEF RelayInv, ResponseHeaderHandler
<1> QED
  BY <1>1, <1>2

LEMMA HeadersKeepInv ==
  RelayInv /\ (Informational \/ FinalHeader \/ Unreachable) => RelayInv'
<1>1. ASSUME RelayInv, Informational PROVE RelayInv'
  <2>1. /\ {modelError, modelServerStreaming}' \subseteq BOOLEAN
        /\ modelServerStreaming' = FALSE
        /\ received' = received + 1
    BY <1>1, ErrorHandled DEF Informational
  <2>2. TeeTracked' /\ EndTracked'
    BY <1>1, HeaderKeepsRest DEF Informational
  <2>3. TypeOK'
    BY <1>1, <2>1, RelayAssumption DEF Informational, RelayInv, TypeOK
  <2> QED
    BY <1>1, <2>1, <2>2, <2>3 DEF Informational, RelayInv, TypeOK
<1>2. ASSUME RelayInv, FinalHeader PROVE RelayInv'
  <2>1. PICK s \in ModelStatuses : WriteHeader(s, ResponseHeaders)
    BY <1>2 DEF FinalHeader
  <2>2. s \in 200..599 /\ s # 0
    BY RelayAssumption
  <2>3. /\ {modelError, modelServerStreaming}' \subseteq BOOLEAN
        /\ modelServerStreaming' = FALSE
        /\ received' = received + 1 /\ status' = s
    BY <1>2, <2>1, HeaderKeys, HeaderHandled DEF WriteHeader
  <2>4. TeeTracked' /\ EndTracked'
    BY <1>2, HeaderKeepsRest DEF FinalHeader
  <2>5. TypeOK'
    BY <1>2, <2>2, <2>3 DEF FinalHeader, RelayInv, TypeOK
  <2> QED
    BY <1>2, <2>2, <2>3, <2>4, <2>5 DEF FinalHeader, RelayInv, TypeOK
<1>3. ASSUME RelayInv, Unreachable PROVE RelayInv'
  <2>1. /\ {modelError, modelServerStreaming}' \subseteq BOOLEAN
        /\ modelServerStreaming' = FALSE
        /\ received' = received + 1 /\ status' = 502
    BY <1>3, ErrorHandled DEF Unreachable, WriteHeader
  <2>2. TeeTracked' /\ EndTracked'
    BY <1>3, HeaderKeepsRest DEF Unreachable
  <2>3. TypeOK'
    BY <1>3, <2>1 DEF Unreachable, RelayInv, TypeOK
  <2> QED
    BY <1>3, <2>1, <2>2, <2>3 DEF Unreachable, RelayInv, TypeOK
<1> QED
  BY <1>1, <1>2, <1>3

LEMMA BodyKeepsInv ==
  RelayInv /\ (CopyChunk \/ WriteFails \/ ServerBreaks \/ BodyEnds) => RelayInv'
<1> SUFFICES ASSUME RelayInv
             PROVE  CopyChunk \/ WriteFails \/ ServerBreaks \/ BodyEnds => RelayInv'
  OBVIOUS
<1> USE DEF RelayInv, TypeOK, TeeTracked, EndTracked, ParsedReply
<1>1. CASE CopyChunk
  <2>1. PICK chunk \in Chunks : /\ served'  = Append(served, chunk)
                                /\ relayed' = Append(relayed, chunk)
                                /\ TeeChunk(chunk)
    BY <1>1 DEF CopyChunk
  <2>2. /\ collected' = Append(collected, chunk) /\ collected' = served' /\ relayed' = served'
        /\ UNCHANGED <<usage, responseComplete, tokens>>
    BY <1>1, <2>1, TeeCollects DEF CopyChunk
  <2>3. served' \in Seq(Chunks)
    BY <2>1, AppendType
  <2> QED
    BY <1>1, <2>2, <2>3 DEF CopyChunk
<1>2. CASE WriteFails
  <2>1. PICK chunk \in Chunks : served' = Append(served, chunk) /\ TeeChunk(chunk)
    BY <1>2 DEF WriteFails
  <2>2. collected' = Append(collected, chunk) /\ UNCHANGED <<usage, responseComplete, tokens>>
    BY <2>1, TeeCollects
  <2>3. served' \in Seq(Chunks) /\ collected' = served'
    BY <2>1, <2>2, AppendType
  <2>4. served' = Append(relayed', chunk)
    BY <1>2, <2>1 DEF WriteFails
  <2> QED
    BY <1>2, <2>2, <2>3, <2>4 DEF WriteFails, Panic
<1>3. CASE ServerBreaks
  BY <1>3 DEF ServerBreaks, Panic
<1>4. CASE BodyEnds
  BY <1>4 DEF BodyEnds
<1> QED
  BY <1>1, <1>2, <1>3, <1>4

LEMMA EndKeepsInv == RelayInv /\ (HandleEndOfResponse \/ UsagePanics) => RelayInv'
<1> SUFFICES ASSUME RelayInv PROVE HandleEndOfResponse \/ UsagePanics => RelayInv'
  OBVIOUS
<1> USE DEF RelayInv, TypeOK, TeeTracked, EndTracked, Usages
<1>1. CASE HandleEndOfResponse
  <2>1. CompleteBody /\ HandlerReturns
    BY <1>1 DEF HandleEndOfResponse
  <2>2. ParsedReply' = ParsedReply
    BY <1>1 DEF HandleEndOfResponse, ParsedReply
  <2>3. /\ usage' = (IF ParsedReply = "usage" THEN "reported" ELSE "zero")
        /\ usage' \in Usages
        /\ complete' = 1 /\ responseComplete' = TRUE
    BY <1>1, <2>1 DEF CompleteBody, HandleEndOfResponse
  <2>4. tokens' \in {<<>>, <<usage'>>} /\ latencies' \in Nat
    BY <1>1, <2>1 DEF CompleteBody, HandleEndOfResponse
  <2>5. tokens' \in Seq(Usages)
    <3>1. <<>> \in Seq(Usages) /\ <<usage'>> \in Seq(Usages)
      BY <2>3
    <3> QED
      BY <2>4, <3>1
  <2> QED
    BY <1>1, <2>1, <2>2, <2>3, <2>4, <2>5 DEF HandleEndOfResponse, HandlerReturns
<1>2. CASE UsagePanics
  BY <1>2 DEF UsagePanics, Panic, ParsedReply
<1> QED
  BY <1>1, <1>2

LEMMA NextKeepsInv == RelayInv /\ [Next]_vars => RelayInv'
<1> SUFFICES ASSUME RelayInv, [Next]_vars PROVE RelayInv'
  OBVIOUS
<1>1. CASE UNCHANGED vars
  BY <1>1 DEF vars, RelayInv, TypeOK, TeeTracked, EndTracked, ParsedReply
<1> QED
  BY <1>1, HeadersKeepInv, BodyKeepsInv, EndKeepsInv DEF Next, Finished

HIDE DEF NotStreaming, PlaceTracked

(* RelayInv is an invariant of the specification. *)
THEOREM RelayInvariant == Spec => []RelayInv
BY InitRelay, NextKeepsInv, PTL DEF Spec

(* Every field of the writer, the request context and the hooks keeps its   *)
(* type, for any number of chunks.                                          *)
THEOREM RelayTypes == Spec => []TypeOK
<1>1. RelayInv => TypeOK
  BY DEF RelayInv
<1> QED
  BY <1>1, RelayInvariant, PTL

------------------------------------------------------------------------------

(* All but the last element. *)
LEMMA PrefixOfAppend ==
  ASSUME NEW S, NEW s \in Seq(S), NEW e \in S
  PROVE  SubSeq(Append(s, e), 1, Len(s)) = s
<1> DEFINE t == Append(s, e)
<1>1. t \in Seq(S) /\ Len(t) = Len(s) + 1 /\ \A i \in 1 .. Len(s) : t[i] = s[i]
  BY AppendProperties
<1>2. Len(s) \in Nat
  BY LenProperties
<1> HIDE DEF t
<1>3. /\ SubSeq(t, 1, Len(s)) \in Seq(S)
      /\ Len(SubSeq(t, 1, Len(s))) = Len(s)
      /\ \A i \in 1 .. Len(s) : SubSeq(t, 1, Len(s))[i] = t[i]
  BY <1>1, <1>2, SubSeqProperties
<1>4. SubSeq(t, 1, Len(s)) = s
  BY <1>1, <1>3, SeqEqual
<1> QED
  BY <1>4 DEF t

LEMMA PrefixOfSelf ==
  ASSUME NEW S, NEW s \in Seq(S)
  PROVE  SubSeq(s, 1, Len(s)) = s
<1>1. Len(s) \in Nat
  BY LenProperties
<1>2. /\ SubSeq(s, 1, Len(s)) \in Seq(S)
      /\ Len(SubSeq(s, 1, Len(s))) = Len(s)
      /\ \A i \in 1 .. Len(s) : SubSeq(s, 1, Len(s))[i] = s[i]
  BY <1>1, SubSeqProperties
<1> QED
  BY <1>2, SeqEqual

(* However many chunks there are, and whichever write fails, the client was *)
(* written a prefix of what was collected that lacks at most one chunk, and *)
(* what handleEndOfResponse parses is all the server sent                   *)
(* (CopyingResponseWriter.Write).                                           *)
THEOREM TeeIsExact == Spec => []TeeAgrees
<1>1. ASSUME RelayInv PROVE TeeAgrees
  <2>1. /\ relayed \in Seq(Chunks) /\ collected = served
        /\ pc = "end" \/ conn = "closed" => conn # "aborted"
    BY <1>1 DEF RelayInv, TypeOK, TeeTracked, PlaceTracked
  <2>2. CASE relayed = served
    BY <2>1, <2>2, PrefixOfSelf DEF TeeAgrees
  <2>3. CASE conn = "aborted" /\ \E chunk \in Chunks : served = Append(relayed, chunk)
    <3>1. PICK chunk \in Chunks : served = Append(relayed, chunk)
      BY <2>3
    <3>2. Len(served) = Len(relayed) + 1
      BY <2>1, <3>1, AppendProperties
    <3>3. relayed = SubSeq(collected, 1, Len(relayed))
      BY <2>1, <3>1, PrefixOfAppend
    <3> QED
      BY <2>1, <2>3, <3>2, <3>3 DEF TeeAgrees
  <2> QED
    BY <1>1, <2>2, <2>3 DEF RelayInv, TeeTracked
<1> QED
  BY <1>1, RelayInvariant, PTL

(* The completion hook runs exactly once for a response that ends in order, *)
(* and never for one that is cut (handleEndOfResponse, HandleResponseBody). *)
THEOREM HookRunsOnce == Spec => []CompletionHookOnce
<1>1. RelayInv => CompletionHookOnce
  BY DEF RelayInv, EndTracked, CompletionHookOnce
<1> QED
  BY <1>1, RelayInvariant, PTL

(* Tokens are recorded at most once, after the completion hook, and those   *)
(* of a JSON response are the ones its reply reports (handleEndOfResponse). *)
THEOREM TokensAreReported == Spec => []TokensMatchReply
<1>1. ASSUME RelayInv PROVE TokensMatchReply
  <2>1. tokens = <<>> \/ (conn = "closed" /\ tokens = <<usage>>)
    BY <1>1 DEF RelayInv, EndTracked
  <2>2. CASE tokens = <<>>
    BY <1>1, <2>2 DEF RelayInv, EndTracked, TypeOK, TokensMatchReply
  <2>3. CASE conn = "closed" /\ tokens = <<usage>>
    <3>1. /\ complete = 1
          /\ usage = (IF reply = "usage" /\ collected # <<>> THEN "reported" ELSE "zero")
      BY <1>1, <2>3 DEF RelayInv, EndTracked, ParsedReply
    <3> QED
      BY <2>3, <3>1 DEF TokensMatchReply
  <2> QED
    BY <2>1, <2>2, <2>3
<1> QED
  BY <1>1, RelayInvariant, PTL

------------------------------------------------------------------------------
(* The refinement of RelayContract. *)

USE DEF PlaceTracked

(* Phase by the handler's place. *)
PhaseByPlace ==
  /\ pc = "roundTrip" => Phase = "waiting"
  /\ pc = "copy" => Phase = "body"
  /\ pc = "end" => Phase = IF whole THEN "body" ELSE "ended"
  /\ conn = "closed" => Phase = "ended"
  /\ conn = "aborted" => Phase = "cut"

LEMMA Phases == RelayInv => PhaseByPlace
<1> SUFFICES ASSUME RelayInv PROVE PhaseByPlace
  OBVIOUS
<1>1. whole \in BOOLEAN
  BY DEF RelayInv, TypeOK
<1> QED
  BY <1>1 DEF RelayInv, TypeOK, Phase, PhaseByPlace

LEMMA InitRefines == Init => Contract!Init
BY DEF Init, Contract!Init, Phase

(* Nothing but the header and the end of a response is a step the client    *)
(* sees; the reply of a response with no byte cannot make the handler panic.*)
LEMMA NextRefines == RelayInv /\ RelayInv' /\ [Next]_vars => [Contract!Next]_(Contract!vars)
<1> SUFFICES ASSUME RelayInv, RelayInv', [Next]_vars PROVE [Contract!Next]_(Contract!vars)
  OBVIOUS
<1>1. PhaseByPlace /\ PhaseByPlace'
  BY Phases, PTL
<1>2. ASSUME Phase' = Phase, status' = status PROVE [Contract!Next]_(Contract!vars)
  BY <1>2 DEF Contract!vars
<1>3. CASE Informational
  BY <1>1, <1>2, <1>3 DEF Informational, PhaseByPlace
<1>4. CASE FinalHeader
  <2>1. Contract!Header
    BY <1>1, <1>4 DEF FinalHeader, WriteHeader, PhaseByPlace, Contract!Header
  <2> QED
    BY <2>1 DEF Contract!Next
<1>5. CASE Unreachable
  <2>1. Phase = "waiting" /\ Phase' = "ended" /\ status' = 502
    BY <1>1, <1>5 DEF Unreachable, WriteHeader, PhaseByPlace, RelayInv
  <2> QED
    BY <2>1 DEF Contract!Next, Contract!BadGateway
<1>6. CASE CopyChunk
  BY <1>1, <1>2, <1>6 DEF CopyChunk, PhaseByPlace
<1>7. CASE BodyEnds
  BY <1>1, <1>2, <1>7 DEF BodyEnds, PhaseByPlace
<1>8. ASSUME Phase = "body", Phase' \in {"cut", "ended"}, status' = status
      PROVE  [Contract!Next]_(Contract!vars)
  BY <1>8 DEF Contract!Next, Contract!Cut, Contract!End
<1>9. CASE WriteFails \/ ServerBreaks
  BY <1>1, <1>8, <1>9 DEF WriteFails, ServerBreaks, Panic, PhaseByPlace
<1>10. CASE UsagePanics
  <2>1. whole
    BY <1>10 DEF UsagePanics, ParsedReply, RelayInv, TeeTracked
  <2> QED
    BY <1>1, <1>8, <1>10, <2>1 DEF UsagePanics, Panic, PhaseByPlace
<1>11. CASE HandleEndOfResponse
  <2>1. pc = "end" /\ conn' = "closed" /\ status' = status
    BY <1>11 DEF HandleEndOfResponse, EndOfStream, HandlerReturns
  <2>2. Phase \in {"body", "ended"} /\ Phase' = "ended"
    BY <1>1, <2>1 DEF PhaseByPlace
  <2> QED
    BY <1>2, <1>8, <2>1, <2>2
<1>12. CASE UNCHANGED vars
  <2>1. Phase' = Phase /\ status' = status
    BY <1>12 DEF vars, Phase
  <2> QED
    BY <1>2, <2>1
<1> QED
  BY <1>3, <1>4, <1>5, <1>6, <1>7, <1>9, <1>10, <1>11, <1>12 DEF Next, Finished

(* The relay, chunk by chunk and with every way to fail, gives the client   *)
(* what RelayContract promises: one final status, then the server's body to *)
(* its end or cut, and nothing after a 502 of the proxy's own.              *)
THEOREM RelayContractImplemented == Spec => ImplementsRelay
BY InitRefines, NextRefines, RelayInvariant, PTL DEF Spec, ImplementsRelay, Contract!Spec
==============================================================================
