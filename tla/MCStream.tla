------------------------------ MODULE MCStream ------------------------------
(***************************************************************************)
(* Instances of Stream for TLC: a request to whom much is said and one     *)
(* that competes with it for the only connection and may stop reading.     *)
(***************************************************************************)
EXTENDS Stream

CONSTANTS r1, r2, Long

MCMaxItems == [r \in Requests |-> IF r = r1 THEN Long ELSE 1]
MCAnthropicReasons == {"tool_use", "max_tokens", "refusal", None}
MCDictReasons == {"length"}
=============================================================================
