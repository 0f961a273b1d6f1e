------------------------------- MODULE Stream -------------------------------
(***************************************************************************)
(* Streamed chat completions: _stream_response of server/app.py over the   *)
(* adapters' chat(stream=True), which for Ollama and llama.cpp is          *)
(* _stream_chat over aiter_sse_deltas, two generators below the server's.  *)
(* External: the provider and its connection (httpx and the SDKs: a pool   *)
(* of connections, every wait in it has a timeout), the ASGI server (a     *)
(* client that does not read stops the generator at its yield; when the    *)
(* client disconnects the task is cancelled), and Python's finalizer of    *)
(* generators nobody holds any more.                                       *)
(***************************************************************************)
EXTENDS Normalize, Integers, FiniteSets, SequencesExt, Selection

CONSTANTS
    Requests,        \* the streamed requests, all to one adapter
    Shape,           \* what its adapter's stream yields
    MaxConnections,  \* the limit of the adapter's connection pool
    MaxItems,        \* bound: how much the provider says to each request
    StopReasons,     \* why the provider may stop
    MayStall         \* the requests whose client may stop reading

(* What generate frames: a piece of text, or why the text ends, or neither.*)
Chunks == [text : Nat \cup {None},
           finish : StopReasons \cup {"stop", "length", "tool_calls", None}]

ASSUME StreamAssumption ==
    /\ Shape \in Shapes
    /\ MaxConnections \in Nat \ {0}
    /\ MaxItems \in [Requests -> Nat]
    /\ MayStall \subseteq Requests
    /\ None \notin Nat /\ None \notin Chunks
    /\ None \notin {"stop", "length", "tool_calls"}

VARIABLES
    pc,         \* where each request is
    connected,  \* the requests that hold a connection
    line,       \* what the provider says: "silent", "open", "closed" or "cut"
    said,       \* the items it has said
    pos,        \* how many of them were read
    held,       \* the chunk at the yield of generate
    frames,     \* what the client has received
    client      \* "reads", "stalls" or "gone"

vars == <<pc, connected, line, said, pos, held, frames, client>>

-----------------------------------------------------------------------------

Labels == {"idle", "connect", "status", "read", "write", "finish",
           "orphan", "done", "failed", "cancelled"}

Over == {"done", "failed", "cancelled"}

(* What a provider says: a piece of text, a piece that is not JSON, why it *)
(* stops, another event, a line that is no event (a comment, a keep-alive, *)
(* another SSE field), or [DONE] (message_stop).  Pieces are numbered.     *)
Items ==
    [type : {"text", "bad"}, value : Nat \ {0}]
        \cup [type : {"stop"}, value : StopReasons]
        \cup [type : {"meta", "skip", "done"}, value : {None}]

DoneFrame == [data |-> "[DONE]"]

(* The pieces among some items, in order.                                  *)
PiecesIn(items) == Column(items, [type : {"text", "bad"}, value : Nat \ {0}], "value")

Goto(r, label) == pc' = [pc EXCEPT ![r] = label]

(* Nothing but the exit of async with gives the connection back.           *)
LeaveOpen(r, label) == Goto(r, label) /\ UNCHANGED connected

(* The stream's async with block is left, by its end or an exception.      *)
Leave(r, label) == Goto(r, label) /\ connected' = connected \ {r}

(* An await on the client: a send to one that is gone does nothing.        *)
Send(r, frame) ==
    /\ client[r] # "stalls"
    /\ frames' = IF client[r] = "gone" THEN frames
                 ELSE [frames EXCEPT ![r] = Append(@, frame)]

-----------------------------------------------------------------------------
(* The server's generator and the adapter's below it.                      *)

(* The response starts and its generator calls the adapter.                *)
Begin(r) ==
    /\ pc[r] = "idle"
    /\ Goto(r, "connect")
    /\ UNCHANGED <<connected, line, said, pos, held, frames, client>>

(* The pool has no limit on the wait for a connection: a mutant.           *)
ConnectUnlessFull(r) ==
    /\ pc[r] = "connect"
    /\ Cardinality(connected) < MaxConnections
    /\ \/ Goto(r, "status") /\ connected' = connected \cup {r}
       \/ Goto(r, "failed") /\ UNCHANGED connected
    /\ UNCHANGED <<line, said, pos, held, frames, client>>

(* A connection from the pool, or an exception: the provider is not        *)
(* reached or the wait for a connection timed out.                         *)
Connect(r) ==
    /\ pc[r] = "connect"
    /\ \/ /\ Cardinality(connected) < MaxConnections
          /\ Goto(r, "status")
          /\ connected' = connected \cup {r}
       \/ Goto(r, "failed") /\ UNCHANGED connected
    /\ UNCHANGED <<line, said, pos, held, frames, client>>

(* raise_for_status, after which the provider may speak.                   *)
CheckStatus(r) ==
    /\ pc[r] = "status"
    /\ \/ Goto(r, "read") /\ line' = [line EXCEPT ![r] = "open"] /\ UNCHANGED connected
       \/ Leave(r, "failed") /\ UNCHANGED line
    /\ UNCHANGED <<said, pos, held, frames, client>>

NextItem(r) == said[r][pos[r] + 1]

HasNext(r) == pc[r] = "read" /\ pos[r] < Len(said[r])

Advance(r) == pos' = [pos EXCEPT ![r] = @ + 1]

(* Lines that are no events are skipped by the parser.                     *)
ReadSkip(r) ==
    /\ HasNext(r) /\ NextItem(r).type = "skip"
    /\ Advance(r)
    /\ UNCHANGED <<pc, connected, line, said, held, frames, client>>

(* Generate frames what to_openai_chunk returned, None too: a mutant.      *)
ReadEventUnfiltered(r) ==
    /\ HasNext(r)
    /\ NextItem(r).type \in {"text", "stop", "meta"} \cup (IF Shape = "anthropic" THEN {"done"} ELSE {})
    /\ Advance(r)
    /\ held' = [held EXCEPT ![r] = ToOpenAIChunk(Shape, NextItem(r))]
    /\ Goto(r, "write")
    /\ UNCHANGED <<connected, line, said, frames, client>>

(* An event is yielded to generate, which frames a chunk for it or not.    *)
ReadEvent(r) ==
    /\ HasNext(r)
    /\ NextItem(r).type \in {"text", "stop", "meta"} \cup (IF Shape = "anthropic" THEN {"done"} ELSE {})
    /\ Advance(r)
    /\ LET chunk == ToOpenAIChunk(Shape, NextItem(r))
       IN  IF chunk = None THEN UNCHANGED <<pc, held>>
           ELSE held' = [held EXCEPT ![r] = chunk] /\ Goto(r, "write")
    /\ UNCHANGED <<connected, line, said, frames, client>>

(* [DONE] ends the stream whatever follows it; Anthropic has no sentinel.  *)
ReadDone(r) ==
    /\ HasNext(r) /\ NextItem(r).type = "done" /\ Shape # "anthropic"
    /\ Advance(r)
    /\ Leave(r, "finish")
    /\ UNCHANGED <<line, said, held, frames, client>>

(* A piece that is not JSON is dropped: a mutant.                          *)
ReadBadSkipping(r) ==
    /\ HasNext(r) /\ NextItem(r).type = "bad"
    /\ Advance(r)
    /\ UNCHANGED <<pc, connected, line, said, held, frames, client>>

(* JSONDecodeError goes up through both generators and ends the response.  *)
ReadBad(r) ==
    /\ HasNext(r) /\ NextItem(r).type = "bad"
    /\ Advance(r)
    /\ Leave(r, "failed")
    /\ UNCHANGED <<line, said, held, frames, client>>

(* A broken connection looks like the end of the stream: a mutant.         *)
ReadEndAnyhow(r) ==
    /\ pc[r] = "read" /\ pos[r] = Len(said[r]) /\ line[r] \in {"closed", "cut"}
    /\ Leave(r, "finish")
    /\ UNCHANGED <<line, said, pos, held, frames, client>>

(* The provider closed the stream, with or without [DONE].                 *)
ReadEnd(r) ==
    /\ pc[r] = "read" /\ pos[r] = Len(said[r]) /\ line[r] = "closed"
    /\ Leave(r, "finish")
    /\ UNCHANGED <<line, said, pos, held, frames, client>>

(* httpx raises: the connection broke, or nothing came for too long.       *)
ReadFails(r) ==
    /\ pc[r] = "read" /\ pos[r] = Len(said[r]) /\ line[r] # "closed"
    /\ Leave(r, "failed")
    /\ UNCHANGED <<line, said, pos, held, frames, client>>

(* yield sse_data(chunk), and back to the adapter's generator.             *)
Write(r) ==
    /\ pc[r] = "write"
    /\ Send(r, held[r])
    /\ held' = [held EXCEPT ![r] = None]
    /\ Goto(r, "read")
    /\ UNCHANGED <<connected, line, said, pos, client>>

(* yield sse_done().                                                       *)
WriteDone(r) ==
    /\ pc[r] = "finish"
    /\ Send(r, DoneFrame)
    /\ Goto(r, "done")
    /\ UNCHANGED <<connected, line, said, pos, held, client>>

(* The task is cancelled.  In an await of the adapter the exception leaves *)
(* its async with; at a yield it does not reach the adapter's generator,   *)
(* which keeps the connection until it is finalized.                       *)
Cancel(r) ==
    /\ client[r] = "gone"
    /\ \/ pc[r] \in {"connect", "status", "read", "finish"} /\ Leave(r, "cancelled")
       \/ pc[r] = "write" /\ LeaveOpen(r, "orphan")
    /\ held' = [held EXCEPT ![r] = None]
    /\ UNCHANGED <<line, said, pos, frames, client>>

(* An abandoned generator is never closed: a mutant.                       *)
FinalizeNever(r) == pc[r] = "orphan" /\ UNCHANGED vars

Finalize(r) ==
    /\ pc[r] = "orphan"
    /\ Leave(r, "cancelled")
    /\ UNCHANGED <<line, said, pos, held, frames, client>>

Step(r) ==
    \/ Connect(r) \/ CheckStatus(r)
    \/ ReadSkip(r) \/ ReadEvent(r) \/ ReadDone(r) \/ ReadBad(r) \/ ReadEnd(r) \/ ReadFails(r)
    \/ Write(r) \/ WriteDone(r)
    \/ Cancel(r) \/ Finalize(r)

-----------------------------------------------------------------------------
(* Providers and clients.                                                  *)

Types(r) == {said[r][i].type : i \in DOMAIN said[r]}

(* A provider speaks until it stops, and may say anything after [DONE]     *)
(* but message_stop, which is its last word.                               *)
Say(r) ==
    /\ line[r] = "open" /\ r \in connected
    /\ Len(said[r]) < MaxItems[r]
    /\ \E item \in
           [type : {"meta", "skip", "done"}, value : {None}]
             \cup [type : {"text", "bad"}, value : {Len(PiecesIn(said[r])) + 1}]
             \cup [type : {"stop"}, value : StopReasons] :
          /\ item.type \in {"text", "bad", "stop"} => "stop" \notin Types(r)
          /\ "done" \in Types(r) => Shape # "anthropic"
          /\ said' = [said EXCEPT ![r] = Append(@, item)]
    /\ UNCHANGED <<pc, connected, line, pos, held, frames, client>>

Hangup(r) ==
    /\ line[r] = "open" /\ r \in connected
    /\ \E how \in {"closed", "cut"} : line' = [line EXCEPT ![r] = how]
    /\ UNCHANGED <<pc, connected, said, pos, held, frames, client>>

Stall(r) ==
    /\ r \in MayStall /\ client[r] = "reads"
    /\ client' = [client EXCEPT ![r] = "stalls"]
    /\ UNCHANGED <<pc, connected, line, said, pos, held, frames>>

Disconnect(r) ==
    /\ client[r] # "gone" /\ pc[r] \notin {"idle"} \cup Over
    /\ client' = [client EXCEPT ![r] = "gone"]
    /\ UNCHANGED <<pc, connected, line, said, pos, held, frames>>

(* Every stream is over, or waits for a client that does not read.         *)
AllDone ==
    /\ \A r \in Requests :
          pc[r] \in Over \/ (pc[r] \in {"write", "finish"} /\ client[r] = "stalls")
    /\ UNCHANGED vars

-----------------------------------------------------------------------------

Init ==
    /\ pc = [r \in Requests |-> "idle"]
    /\ connected = {}
    /\ line = [r \in Requests |-> "silent"]
    /\ said = [r \in Requests |-> <<>>]
    /\ pos = [r \in Requests |-> 0]
    /\ held = [r \in Requests |-> None]
    /\ frames = [r \in Requests |-> <<>>]
    /\ client = [r \in Requests |-> "reads"]

Next ==
    \/ \E r \in Requests : Begin(r) \/ Step(r)
    \/ \E r \in Requests : Say(r) \/ Hangup(r) \/ Stall(r) \/ Disconnect(r)
    \/ AllDone

(* The event loop resumes every task whose wait is over; httpx ends every  *)
(* wait in time; abandoned generators are finalized.  Neither the provider *)
(* nor the client has to do anything.                                      *)
Fairness == \A r \in Requests : WF_vars(Step(r))

Spec == Init /\ [][Next]_vars /\ Fairness

-----------------------------------------------------------------------------
(* Properties.                                                             *)

(* What was said before the first [DONE], and the pieces of it.            *)
UpToDone(items) ==
    LET ends == {i \in DOMAIN items : items[i].type = "done"}
    IN  IF ends = {} THEN items ELSE SubSeq(items, 1, Min(ends) - 1)

BeforeDone(r) == UpToDone(said[r])

Spoken(r) == PiecesIn(BeforeDone(r))

(* The pieces in the frames a client received.                             *)
HeardIn(fs) == Column(fs, {chunk \in Chunks : chunk.text # None}, "text")

Heard(r) == HeardIn(frames[r])

Ending(r) ==
    IF DoneFrame \in ToSet(frames[r]) THEN "complete"
    ELSE IF pc[r] = "failed" \/ client[r] = "gone" THEN "broken" ELSE "open"

Client == INSTANCE Completion WITH
    Values <- UNION {1..MaxItems[r] : r \in Requests},
    said <- [r \in Requests |-> Spoken(r)],
    heard <- [r \in Requests |-> Heard(r)],
    ending <- [r \in Requests |-> Ending(r)]

(* Every variable holds values of the kind the code puts there; what       *)
(* generate holds at its yield is a chunk (never None).                    *)
TypeOK ==
    /\ pc \in [Requests -> Labels]
    /\ connected \subseteq Requests
    /\ line \in [Requests -> {"silent", "open", "closed", "cut"}]
    /\ said \in [Requests -> Seq(Items)]
    /\ pos \in [Requests -> Nat]
    /\ held \in [Requests -> Chunks \cup {None}]
    /\ frames \in [Requests -> Seq(Chunks \cup {DoneFrame})]
    /\ client \in [Requests -> {"reads", "stalls", "gone"}]
    /\ \A r \in Requests : pos[r] <= Len(said[r]) /\ (held[r] # None <=> pc[r] = "write")

(* The reasons to stop that a provider gave, and the finish reasons that a *)
(* client was told.                                                        *)
Reasons(items) == {item.value : item \in {it \in ToSet(items) : it.type = "stop"}} \ {None}

Told(fs) == {frame.finish : frame \in ToSet(fs) \ {DoneFrame}} \ {None}

(* A stream that was ended by [DONE] told its client the finish reason of  *)
(* the response without stream=True, and no other.  The code has a table   *)
(* for each: _translate_anthropic_chunk and _translate_anthropic_message.  *)
StreamAgreesWithResponse ==
    \A r \in Requests : DoneFrame \in ToSet(frames[r]) =>
        Told(frames[r]) = {ToOpenAIResponse(Shape, Spoken(r), reason).finish :
                              reason \in Reasons(BeforeDone(r))}

(* "data: [DONE] is emitted after the last chunk" (server/_sse.py): once,  *)
(* as the last frame, and never after an error or a broken connection.     *)
DoneIsTheEnd ==
    \A r \in Requests : \A i \in DOMAIN frames[r] : frames[r][i] = DoneFrame =>
        /\ i = Len(frames[r])
        /\ pc[r] = "done"
        /\ line[r] # "cut" \/ "done" \in Types(r)

(* A connection is held only by a request that is going to give it back:   *)
(* it is being read, or its client is being written to, or its generator   *)
(* waits for its finalizer (the async with blocks of _stream_chat).        *)
ConnectionsInUse ==
    \A r \in Requests : r \in connected <=> pc[r] \in {"status", "read", "write", "orphan"}

(* A request ends although another one's client, which holds the last      *)
(* connection of the pool, never reads again: only its own can stop it.    *)
StreamEnds == \A r \in Requests : pc[r] = "connect" ~> (pc[r] \in Over \/ client[r] = "stalls")

(* A connection is given back on every path, also when the task is         *)
(* cancelled at a yield, unless the client neither reads nor leaves.       *)
ConnectionFreed ==
    \A r \in Requests : r \in connected ~> (r \notin connected \/ client[r] = "stalls")

(* The client gets what a streamed completion promises.                    *)
ImplementsCompletion == Client!Spec

=============================================================================
