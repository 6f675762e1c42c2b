---------------------------- MODULE ResponseRelay -----------------------------
(***************************************************************************)
(* The relay of the serving server's response to the client:               *)
(* CopyingResponseWriter (response_writer.go), the handlers it calls       *)
(* (standard.go) and handleEndOfResponse (orchestration.go), as            *)
(* SendRequestAndResponse and StandardProcessing use them.  It is the      *)
(* detail of the steps RelayHeader, RelayEnd, RelayBroken and              *)
(* DecodeUnreachable of module InferenceProxy.                             *)
(*                                                                         *)
(* httputil.ReverseProxy drives the writer: informational headers while it *)
(* waits for the round trip, one final header, the body chunk by chunk; a  *)
(* body it cannot read or write to the end makes it panic.  Of the metrics *)
(* only the number of records and the recorded token usage are kept.       *)
(***************************************************************************)
EXTENDS Naturals, Sequences

CONSTANTS
  ModelStatuses,     \* final statuses a model server answers with
  MaxInformational,  \* bound on the 1xx headers of one response
  MaxChunks          \* bound on the chunks of one response

ASSUME RelayAssumption ==
  /\ ModelStatuses \subseteq 200..599
  /\ MaxInformational \in Nat
  /\ MaxChunks \in Nat

ContentTypes == {"json", "sse"}

(* What a chunk of an event stream carries. *)
Chunks == {"text", "usage", "[DONE]"}

(* What the whole body is, parsed as JSON: an object with a well-formed     *)
(* "usage", without one, with one of an unexpected shape, or no object.     *)
Replies == {"usage", "noUsage", "oddUsage", "notObject"}

VARIABLES
  pc,                    \* where the handler is
  contentType, reply,    \* the server's response
  served,                \* chunks the reverse proxy has read from the server
  whole,                 \* the server's body has been read to its end
  collected,             \* crw.body
  isStreaming,           \* crw.isStreaming
  relayed,               \* chunks written to targetRW
  status,                \* the final status on targetRW, 0 if none
  informational,         \* number of 1xx headers
  modelError,            \* reqCtx.ResponseStatusCode is ModelServerError
  modelServerStreaming,  \* reqCtx.ModelServerStreaming
  responseComplete,      \* reqCtx.ResponseComplete
  usage,                 \* reqCtx.Usage: "zero" or "reported"
  received, complete,    \* calls of HandleResponseReceived / HandleResponseBodyComplete
  latencies,             \* number of latency records
  tokens,                \* the usage of each token record, in order
  conn                   \* the client's connection

serverVars == <<contentType, reply, whole>>
writerVars == <<collected, isStreaming, relayed>>
ctxVars    == <<modelError, modelServerStreaming, responseComplete, usage>>
headerVars == <<status, informational>>
hookVars   == <<received, complete, latencies, tokens>>

vars == <<pc, served, conn, serverVars, writerVars, ctxVars, headerVars, hookVars>>

Usages == {"zero", "reported"}

TypeOK ==
  /\ pc \in {"roundTrip", "copy", "end", "done"}
  /\ contentType \in ContentTypes
  /\ reply \in Replies
  /\ served \in Seq(Chunks)
  /\ collected \in Seq(Chunks)
  /\ relayed \in Seq(Chunks)
  /\ status \in {0} \cup 200..599
  /\ informational \in 0..MaxInformational
  /\ {whole, isStreaming, modelError, modelServerStreaming, responseComplete} \subseteq BOOLEAN
  /\ usage \in Usages
  /\ received \in Nat
  /\ complete \in Nat
  /\ latencies \in Nat
  /\ tokens \in Seq(Usages)
  /\ conn \in {"open", "closed", "aborted"}

(* NewCopyingResponseWriter: isStreaming is left false, and nothing sets it.*)
Init ==
  /\ pc = "roundTrip"
  /\ contentType \in ContentTypes
  /\ reply \in Replies
  /\ contentType = "sse" => reply = "notObject"   \* an event stream is no JSON object
  /\ served = <<>>
  /\ whole = FALSE
  /\ collected = <<>>
  /\ isStreaming = FALSE
  /\ relayed = <<>>
  /\ status = 0
  /\ informational = 0
  /\ modelError = FALSE
  /\ modelServerStreaming = FALSE
  /\ responseComplete = FALSE
  /\ usage = "zero"
  /\ received = 0
  /\ complete = 0
  /\ latencies = 0
  /\ tokens = <<>>
  /\ conn = "open"

------------------------------------------------------------------------------
(* The header. *)

(* http.Header as the reverse proxy fills it: its keys are canonical.  1xx  *)
(* responses and the proxy's own 502 have no Content-Type.                  *)
NoHeaders       == [key \in {} |-> ""]
ResponseHeaders == [key \in {"Content-Type"} |-> contentType]

(* standardResponseHeaderHandler: any status but 200 marks an error, also   *)
(* the 1xx ones, and the mark stays; the key is compared in lower case.     *)
ResponseHeaderHandler(statusCode, headers) ==
  /\ modelError' = (modelError \/ statusCode # 200)
  /\ modelServerStreaming' =
       (modelServerStreaming \/ \E key \in DOMAIN headers :
          key = "content-type" /\ headers[key] = "sse")
  /\ received' = received + 1

(* CopyingResponseWriter.WriteHeader with a final status. *)
WriteHeader(statusCode, headers) ==
  /\ status' = statusCode
  /\ ResponseHeaderHandler(statusCode, headers)

(* A 1xx status is taken for the final one. *)
InformationalIsFinal ==
  /\ pc = "roundTrip"
  /\ informational < MaxInformational
  /\ informational' = informational + 1
  /\ WriteHeader(103, NoHeaders)
  /\ UNCHANGED <<pc, served, conn, serverVars, writerVars, responseComplete, usage,
                 complete, latencies, tokens>>

(* A 1xx response while the round trip is pending: targetRW sends it at     *)
(* once, and the header handler runs for it too.                            *)
Informational ==
  /\ pc = "roundTrip"
  /\ informational < MaxInformational
  /\ informational' = informational + 1
  /\ ResponseHeaderHandler(103, NoHeaders)
  /\ UNCHANGED <<pc, served, conn, serverVars, writerVars, responseComplete, usage,
                 status, complete, latencies, tokens>>

FinalHeader ==
  /\ pc = "roundTrip"
  /\ \E s \in ModelStatuses : WriteHeader(s, ResponseHeaders)
  /\ pc' = "copy"
  /\ UNCHANGED <<served, conn, serverVars, writerVars, responseComplete, usage,
                 informational, complete, latencies, tokens>>

(* The round trip fails: the reverse proxy's error handler writes 502. *)
Unreachable ==
  /\ pc = "roundTrip"
  /\ WriteHeader(502, NoHeaders)
  /\ pc' = "end"
  /\ UNCHANGED <<served, conn, serverVars, writerVars, responseComplete, usage,
                 informational, complete, latencies, tokens>>
------------------------------------------------------------------------------
(* The body. *)

(* standardStreamingHandler: parses each chunk for the usage, and records   *)
(* the tokens with the end marker.                                          *)
StreamingHandler(chunk) ==
  /\ usage' = IF chunk = "usage" THEN "reported" ELSE usage
  /\ responseComplete' = (responseComplete \/ chunk = "[DONE]")
  /\ tokens' = IF chunk = "[DONE]" THEN Append(tokens, usage') ELSE tokens

(* Each chunk replaces the one before it. *)
KeepLastChunk(chunk) ==
  /\ collected' = <<chunk>>
  /\ UNCHANGED <<usage, responseComplete, tokens>>

(* What CopyingResponseWriter.Write does before it writes to targetRW. *)
TeeChunk(chunk) ==
  IF isStreaming
    THEN StreamingHandler(chunk) /\ UNCHANGED collected
    ELSE /\ collected' = Append(collected, chunk)
         /\ UNCHANGED <<usage, responseComplete, tokens>>

(* A chunk is read from the server and written to the client. *)
CopyChunk ==
  /\ pc = "copy"
  /\ Len(served) < MaxChunks
  /\ \E chunk \in Chunks :
       /\ served'  = Append(served, chunk)
       /\ relayed' = Append(relayed, chunk)
       /\ TeeChunk(chunk)
  /\ UNCHANGED <<pc, conn, serverVars, isStreaming, modelError, modelServerStreaming,
                 headerVars, received, complete, latencies>>

(* The reverse proxy, or the handler, panics: net/http cuts the connection. *)
Panic ==
  /\ pc' = "done"
  /\ conn' = "aborted"

(* The write to the client fails, after the chunk was taken. *)
WriteFails ==
  /\ pc = "copy"
  /\ Len(served) < MaxChunks
  /\ \E chunk \in Chunks :
       /\ served' = Append(served, chunk)
       /\ TeeChunk(chunk)
  /\ Panic
  /\ UNCHANGED <<serverVars, isStreaming, relayed, modelError, modelServerStreaming,
                 headerVars, received, complete, latencies>>

(* The server's body breaks off. *)
ServerBreaks ==
  /\ pc = "copy"
  /\ Panic
  /\ UNCHANGED <<served, serverVars, collected, isStreaming, relayed, ctxVars,
                 headerVars, hookVars>>

BodyEnds ==
  /\ pc = "copy"
  /\ pc' = "end"
  /\ whole' = TRUE
  /\ UNCHANGED <<served, conn, contentType, reply, writerVars, ctxVars, headerVars,
                 hookVars>>

------------------------------------------------------------------------------
(* handleEndOfResponse. *)

(* json.Unmarshal of what was collected; no byte is no object. *)
ParsedReply == IF collected = <<>> THEN "notObject" ELSE reply

(* The handler returns: net/http ends the response. *)
HandlerReturns ==
  /\ pc' = "done"
  /\ conn' = "closed"

(* The streaming branch: the tokens were recorded with the end marker. *)
EndOfStream ==
  /\ responseComplete' = TRUE
  /\ complete' = complete + 1
  /\ latencies' = latencies + 1
  /\ HandlerReturns
  /\ UNCHANGED <<usage, tokens>>

(* The completion hook is called once more after the metrics. *)
CompleteBodyTwice ==
  /\ usage' = IF ParsedReply = "usage" THEN "reported" ELSE usage
  /\ responseComplete' = TRUE
  /\ complete' = complete + 2
  /\ latencies' = latencies + 2
  /\ tokens' = Append(tokens, usage')

(* The metrics are recorded before the reply's usage is taken over. *)
RecordBeforeParsing ==
  /\ usage' = IF ParsedReply = "usage" THEN "reported" ELSE usage
  /\ responseComplete' = TRUE
  /\ complete' = complete + 1
  /\ latencies' = latencies + 2
  /\ tokens' = Append(tokens, usage)

(* HandleResponseBody: the usage is taken over, the completion hook runs;   *)
(* its error, if any, ends the handling, otherwise the metrics are recorded *)
(* (the latency twice).                                                     *)
CompleteBody ==
  /\ usage' = IF ParsedReply = "usage" THEN "reported" ELSE usage
  /\ responseComplete' = TRUE
  /\ complete' = complete + 1
  /\ \/ UNCHANGED <<latencies, tokens>>
     \/ latencies' = latencies + 2 /\ tokens' = Append(tokens, usage')

(* A usage of an unexpected shape fails a type assertion. *)
HandleEndOfResponse ==
  /\ pc = "end"
  /\ modelServerStreaming \/ ParsedReply # "oddUsage"
  /\ IF modelServerStreaming THEN EndOfStream ELSE CompleteBody /\ HandlerReturns
  /\ UNCHANGED <<served, serverVars, collected, isStreaming, relayed, modelError,
                 modelServerStreaming, headerVars, received>>

(* A missing usage fails the assertion too. *)
UsagePanicsIfMissing ==
  /\ pc = "end"
  /\ ~modelServerStreaming
  /\ ParsedReply # "usage"
  /\ Panic
  /\ UNCHANGED <<served, serverVars, collected, isStreaming, relayed, ctxVars,
                 headerVars, hookVars>>

UsagePanics ==
  /\ pc = "end"
  /\ ~modelServerStreaming
  /\ ParsedReply = "oddUsage"
  /\ Panic
  /\ UNCHANGED <<served, serverVars, collected, isStreaming, relayed, ctxVars,
                 headerVars, hookVars>>

Finished == pc = "done" /\ UNCHANGED vars

Next ==
  \/ Informational \/ FinalHeader \/ Unreachable
  \/ CopyChunk \/ WriteFails \/ ServerBreaks \/ BodyEnds
  \/ HandleEndOfResponse \/ UsagePanics
  \/ Finished

Spec == Init /\ [][Next]_vars

------------------------------------------------------------------------------
(* Properties. *)

(* The two sides of the tee agree: the client was written a prefix of what  *)
(* was collected, which lacks at most the chunk it could not take; and what *)
(* handleEndOfResponse parses is all the server sent, and all the client    *)
(* was written (CopyingResponseWriter.Write).                               *)
TeeAgrees ==
  /\ Len(collected) \in {Len(relayed), Len(relayed) + 1}
  /\ relayed = SubSeq(collected, 1, Len(relayed))
  /\ pc = "end" \/ conn = "closed" => collected = served /\ relayed = served

(* The director's plugins hear of the end of a response exactly once if it  *)
(* was closed in order, and never if the connection was cut                 *)
(* (handleEndOfResponse, HandleResponseBody).                               *)
CompletionHookOnce ==
  /\ complete = (IF conn = "closed" THEN 1 ELSE 0)
  /\ complete = 1 => responseComplete

(* What the client sees of the relay.  A body that was relayed to its end   *)
(* is not done before handleEndOfResponse is: that may still panic.         *)
Phase ==
  CASE pc = "roundTrip" -> "waiting"
    [] pc = "copy" \/ (pc = "end" /\ whole) -> "body"
    [] (pc = "end" /\ ~whole) \/ conn = "closed" -> "ended"
    [] OTHER -> "cut"

Contract == INSTANCE RelayContract WITH phase <- Phase

(* The client is given one final status and then the server's body, to its  *)
(* end or cut; after a 502 of the proxy's own there is nothing to cut: what *)
(* handleEndOfResponse does with an empty body cannot fail.                 *)
ImplementsRelay == Contract!Spec

(* The tokens of a JSON response are recorded at most once, after its       *)
(* completion hook, and are those the reply reports (handleEndOfResponse).  *)
TokensMatchReply ==
  /\ Len(tokens) <= complete
  /\ contentType = "json" /\ tokens # <<>> =>
       tokens[1] = IF reply = "usage" /\ collected # <<>> THEN "reported" ELSE "zero"

------------------------------------------------------------------------------
(* What the repository says and the code does not do. *)

(* The tokens recorded for an event stream are those one of its chunks      *)
(* reports: "Parse usage on EVERY chunk to catch split streams (where usage *)
(* and [DONE] are in different chunks)" (orchestration.go:179).             *)
StreamedUsageRecorded ==
  contentType = "sse" /\ tokens # <<>> =>
    ((\E i \in 1..Len(served) : served[i] = "usage") => tokens[1] = "reported")
==============================================================================
