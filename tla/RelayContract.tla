---------------------------- MODULE RelayContract -----------------------------
(***************************************************************************)
(* What the relay of one serving server's response does to the client: at  *)
(* most one final status, the server's or the reverse proxy's own 502; the *)
(* server's status is followed by its body, to the end or cut off; the 502 *)
(* is the end by itself.                                                   *)
(*                                                                         *)
(* ResponseRelay implements it chunk by chunk.  InferenceProxy, where the  *)
(* relay is two steps of a longer handler, implements it too: this is what *)
(* makes the one module the detail of the other.                           *)
(***************************************************************************)

CONSTANT ModelStatuses  \* final statuses a model server answers with

VARIABLES
  phase,   \* how far the relay is
  status   \* the client's status line, 0 if there is none

vars == <<phase, status>>

Init == phase = "waiting" /\ status = 0

Header ==
  /\ phase = "waiting" /\ phase' = "body"
  /\ status' \in ModelStatuses

BadGateway ==
  /\ phase = "waiting" /\ phase' = "ended"
  /\ status' = 502

End == phase = "body" /\ phase' = "ended" /\ UNCHANGED status

Cut == phase = "body" /\ phase' = "cut" /\ UNCHANGED status

Next == Header \/ BadGateway \/ End \/ Cut

Spec == Init /\ [][Next]_vars
==============================================================================
