--------------------------- MODULE ServingContract ---------------------------
(***************************************************************************)
(* What the proxy promises about one client request, whatever the          *)
(* orchestration: the request is handed to at most one prefill server and  *)
(* then to at most one serving server, in that order; only the serving     *)
(* server's bytes may answer the client; and a connection is cut only once *)
(* a server is involved.                                                   *)
(*                                                                         *)
(* InferenceProxy implements this specification.                           *)
(***************************************************************************)

CONSTANT Requests  \* the client requests

VARIABLES
  stage,   \* stage[r]: how far request r has been handed on
  answer   \* answer[r]: what the client was given when r was closed

vars == <<stage, answer>>

Stages == {"new", "accepted", "prefilled", "serving", "closed"}

(* "error": a status made up by the proxy; "empty": no byte and status 200; *)
(* "model": the serving server's answer; "cut": the connection is dropped.  *)
Answers == {"none", "error", "empty", "model", "cut"}

TypeOK ==
  /\ stage  \in [Requests -> Stages]
  /\ answer \in [Requests -> Answers]

Init ==
  /\ stage  = [r \in Requests |-> "new"]
  /\ answer = [r \in Requests |-> "none"]

Advance(r, before, after) ==
  /\ stage[r] \in before
  /\ stage' = [stage EXCEPT ![r] = after]
  /\ UNCHANGED answer

Accept(r)  == Advance(r, {"new"}, "accepted")
Prefill(r) == Advance(r, {"accepted"}, "prefilled")
Serve(r)   == Advance(r, {"accepted", "prefilled"}, "serving")

(* The answers with which a request may be closed from each stage. *)
AllowedAnswers ==
  [ accepted  |-> {"error", "empty"},
    prefilled |-> {"error", "empty", "cut"},
    serving   |-> {"model", "error", "cut"} ]

Close(r) ==
  /\ stage[r] \in {"accepted", "prefilled", "serving"}
  /\ stage' = [stage EXCEPT ![r] = "closed"]
  /\ \E a \in AllowedAnswers[stage[r]] : answer' = [answer EXCEPT ![r] = a]

Next == \E r \in Requests : Accept(r) \/ Prefill(r) \/ Serve(r) \/ Close(r)

Spec == Init /\ [][Next]_vars
==============================================================================
