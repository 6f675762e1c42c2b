---------------------------- MODULE MCPdScheduling ----------------------------
(* PdScheduling instantiated for TLC. *)
EXTENDS PdScheduling

Pod(a, n) == [addr |-> a, port |-> n]

TwoPods == {Pod("a", 1), Pod("b", 2)}
==============================================================================
