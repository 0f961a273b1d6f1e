----------------------------- MODULE Normalize -----------------------------
(***************************************************************************)
(* server/_normalize.py: what a provider's response, or one event of its   *)
(* stream, becomes for the client.  Of a response its pieces of text and   *)
(* why it stopped are kept; ids, roles, timestamps and usage are left out. *)
(***************************************************************************)
EXTENDS Naturals, Sequences

CONSTANT None      \* Python's None, or a key that is absent

(* The shapes the adapters return: parsed SSE lines (Ollama, llama.cpp),   *)
(* ChatCompletionChunk and RawMessageStreamEvent.                          *)
Shapes == {"dict", "openai", "anthropic"}

(* The finish reasons of Anthropic's stop reasons are in two tables.  That *)
(* for a response tells any other reason, and None, as "stop".             *)
ResponseFinishReasons ==
    [end_turn |-> "stop", max_tokens |-> "length", stop_sequence |-> "stop",
     tool_use |-> "tool_calls"]

ResponseFinish(reason) ==
    IF reason \in DOMAIN ResponseFinishReasons THEN ResponseFinishReasons[reason]
    ELSE "stop"

(* The table for chunks has not followed the other one: a mutant.          *)
ChunkFinishReasonsBehind ==
    [end_turn |-> "stop", max_tokens |-> "length", stop_sequence |-> "stop"]

(* That for an event of a stream has no finish reason for None.            *)
ChunkFinishReasons ==
    [end_turn |-> "stop", max_tokens |-> "length", stop_sequence |-> "stop",
     tool_use |-> "tool_calls"]

ChunkFinish(reason) ==
    CASE reason = None -> None
      [] reason # None /\ reason \in DOMAIN ChunkFinishReasons -> ChunkFinishReasons[reason]
      [] OTHER -> "stop"

(* An event of a stream: a piece of text, a reason to stop, or anything    *)
(* else.                                                                   *)
TextChunk(n) == [text |-> n, finish |-> None]
StopChunk(reason) == [text |-> None, finish |-> reason]
EmptyChunk == [text |-> None, finish |-> None]

TranslateAnthropicChunk(event) ==
    CASE event.type = "text" -> TextChunk(event.value)
      [] event.type = "stop" /\ ChunkFinish(event.value) # None ->
             StopChunk(ChunkFinish(event.value))
      [] OTHER -> None

(* The chunk for an event, or None when the client gets nothing of it.     *)
ToOpenAIChunk(shape, event) ==
    IF shape = "anthropic" THEN TranslateAnthropicChunk(event)
    ELSE CASE event.type = "text" -> TextChunk(event.value)
           [] event.type = "stop" -> StopChunk(event.value)
           [] OTHER -> EmptyChunk

(* The response for a whole answer with those pieces of text.              *)
ToOpenAIResponse(shape, texts, stop) ==
    [texts |-> texts,
     finish |-> CASE shape = "anthropic" -> ResponseFinish(stop)
                  [] shape = "dict" /\ stop = None -> "stop"
                  [] OTHER -> stop]

=============================================================================
