---------------------------- MODULE MCLLMRouter -----------------------------
(* Instances of LLMRouter for TLC.                                         *)
EXTENDS LLMRouter

CONSTANTS anthropic, openai, summary, embed

(* Two classes that share a provider, as defaultPriorities does.           *)
MCPriorities == [cl \in {summary, embed} |->
                    IF cl = summary THEN <<anthropic, openai>> ELSE <<openai>>]
MCOneClass == [cl \in {summary} |-> <<anthropic, openai>>]
=============================================================================
