--------------------------- MODULE MCInferenceProxy ---------------------------
(* InferenceProxy instantiated for TLC. *)
EXTENDS InferenceProxy

(* Every combination of present and absent fields. *)
AllBodies == [Fields -> ClientValues \cup {Absent}]

(* The prompt alone, and a streaming request with a token limit. *)
PromptOnly == [f \in Fields |-> IF f = "prompt" THEN "given" ELSE Absent]
Streaming  == [f \in Fields |-> IF f \in {"prompt", "stream", "max_tokens"}
                                  THEN "given" ELSE Absent]
OneBody    == {PromptOnly}
TwoBodies  == {PromptOnly, Streaming}
==============================================================================
