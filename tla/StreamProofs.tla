---------------------------- MODULE StreamProofs ----------------------------
(***************************************************************************)
(* The safety properties of Stream, proved for every number of requests    *)
(* and connections and everything providers and clients may do.            *)
(***************************************************************************)
EXTENDS StreamInvariant, SelectionProofs

-----------------------------------------------------------------------------
(* Items, chunks and frames.                                               *)

Speech == [type : {"text", "bad"}, value : Nat \ {0}]

Frames == Chunks \cup {DoneFrame}

TextFrames == {chunk \in Chunks : chunk.text # None}

(* What is spoken is numbered.                                             *)
LEMMA SpeechFits == Fits(Items, Speech, "value", Nat \ {0})
BY DEF Fits, Speech

(* Text in a frame is a piece of text.                                     *)
LEMMA FramesFit == Fits(Frames, TextFrames, "text", Nat)
BY DEF Fits, TextFrames, Chunks

(* The pieces among some items are numbers, no more than the items.        *)
LEMMA PiecesInType ==
    ASSUME NEW items \in Seq(Items)
    PROVE  /\ PiecesIn(items) \in Seq(Nat \ {0})
           /\ Len(PiecesIn(items)) \in Nat /\ Len(PiecesIn(items)) <= Len(items)
<1>1. /\ Column(items, Speech, "value") \in Seq(Nat \ {0})
      /\ Len(Column(items, Speech, "value")) = Len(Only(items, Speech))
      /\ Len(Only(items, Speech)) \in Nat /\ Len(Only(items, Speech)) <= Len(items)
    BY SpeechFits, ColumnType
<1>. QED
    BY <1>1 DEF PiecesIn, Speech

(* A piece that is said is one piece more; anything else is none.          *)
LEMMA PiecesInAppend ==
    ASSUME NEW items \in Seq(Items), NEW item \in Items
    PROVE  PiecesIn(Append(items, item)) =
               IF item.type \in {"text", "bad"} THEN Append(PiecesIn(items), item.value)
               ELSE PiecesIn(items)
<1>1. item \in Speech <=> item.type \in {"text", "bad"}
    BY DEF Items, Speech
<1>2. Column(Append(items, item), Speech, "value") =
          IF item \in Speech THEN Append(Column(items, Speech, "value"), item["value"])
          ELSE Column(items, Speech, "value")
    BY SpeechFits, ColumnAppend
<1>. QED
    BY <1>1, <1>2 DEF PiecesIn, Speech

(* The pieces of a prefix are a prefix of the pieces.                      *)
LEMMA PiecesInPrefix ==
    ASSUME NEW items \in Seq(Items), NEW k \in 0..Len(items)
    PROVE  \E j \in 0..Len(PiecesIn(items)) :
              PiecesIn(SubSeq(items, 1, k)) = SubSeq(PiecesIn(items), 1, j)
<1>1. \E j \in 0..Len(Column(items, Speech, "value")) :
          Column(SubSeq(items, 1, k), Speech, "value")
              = SubSeq(Column(items, Speech, "value"), 1, j)
    BY SpeechFits, ColumnPrefix
<1>. QED
    BY <1>1 DEF PiecesIn, Speech

(* [DONE] is no chunk.                                                     *)
LEMMA DoneIsNoChunk == DoneFrame \notin Chunks
<1>1. \A chunk \in Chunks : DOMAIN chunk = {"text", "finish"}
    BY DEF Chunks
<1>2. DOMAIN DoneFrame = {"data"}
    BY DEF DoneFrame
<1>. QED
    BY <1>1, <1>2

(* A chunk with text is one piece more; another one, or [DONE], is none.   *)
LEMMA HeardInAppend ==
    ASSUME NEW fs \in Seq(Frames), NEW frame \in Frames
    PROVE  HeardIn(Append(fs, frame)) =
               IF frame \in Chunks /\ frame.text # None THEN Append(HeardIn(fs), frame.text)
               ELSE HeardIn(fs)
<1>1. frame \in TextFrames <=> frame \in Chunks /\ frame.text # None
    BY DEF TextFrames
<1>2. Column(Append(fs, frame), TextFrames, "text") =
          IF frame \in TextFrames THEN Append(Column(fs, TextFrames, "text"), frame["text"])
          ELSE Column(fs, TextFrames, "text")
    BY FramesFit, ColumnAppend
<1>. QED
    BY <1>1, <1>2 DEF HeardIn, TextFrames

(* What frames let a client hear are pieces.                               *)
LEMMA HeardInType ==
    ASSUME NEW fs \in Seq(Frames)
    PROVE  HeardIn(fs) \in Seq(Nat) /\ Len(HeardIn(fs)) \in Nat
<1>1. Column(fs, TextFrames, "text") \in Seq(Nat)
    BY FramesFit, ColumnType
<1>. QED
    BY <1>1, LenProperties DEF HeardIn, TextFrames

(* What the client is told of a reason to stop.                            *)
LEMMA FinishType ==
    ASSUME NEW reason \in StopReasons, reason # None
    PROVE  StopChunk(Finish(reason)) \in Chunks /\ Finish(reason) # None
<1>1. ChunkFinish(reason) \in {"stop", "length", "tool_calls"}
    BY DEF ChunkFinish, ChunkFinishReasons
<1>2. Finish(reason) \in {reason, "stop", "length", "tool_calls"}
    BY <1>1 DEF Finish
<1>3. StopChunk(Finish(reason)) \in Chunks
    BY <1>2 DEF StopChunk, Chunks
<1>4. {"stop", "length", "tool_calls"} \cap {None} = {}
    BY StreamAssumption
<1>. QED
    BY <1>2, <1>3, <1>4

Event == {"text", "stop", "meta", "done"}

(* The chunk of an event: its text, its reason to stop, or neither.        *)
LEMMA ChunkOfEvent ==
    ASSUME NEW item \in Items, item.type \in Event
    PROVE  LET chunk == ToOpenAIChunk(Shape, item)
           IN  /\ chunk \in Chunks \cup {None}
               /\ item.type = "text" => chunk # None /\ chunk.text = item.value /\ chunk.text # None
               /\ item.type # "text" => chunk = None \/ chunk.text = None
               /\ item.type = "stop" /\ item.value # None =>
                     chunk # None /\ chunk.finish = Finish(item.value) /\ chunk.finish # None
               /\ ~ (item.type = "stop" /\ item.value # None) =>
                     chunk = None \/ chunk.finish = None
<1>. DEFINE chunk == ToOpenAIChunk(Shape, item)
<1>1. CASE item.type = "text"
    <2>1. chunk = TextChunk(item.value) /\ item.value \in Nat
        BY <1>1 DEF ToOpenAIChunk, TranslateAnthropicChunk, Items
    <2>2. chunk \in Chunks /\ chunk.text = item.value /\ chunk.finish = None
        BY <2>1 DEF TextChunk, Chunks
    <2>. HIDE DEF chunk
    <2>3. chunk # None /\ item.value # None
        BY <2>1, <2>2, StreamAssumption
    <2>. QED
        BY <1>1, <2>2, <2>3 DEF chunk
<1>2. CASE item.type = "stop" /\ item.value # None
    <2>1. item.value \in StopReasons
        BY <1>2 DEF Items
    <2>2. chunk = StopChunk(Finish(item.value))
        <3>1. Finish(item.value) # None
            BY <1>2, <2>1, FinishType
        <3>2. CASE Shape = "anthropic"
            BY <1>2, <3>1, <3>2 DEF ToOpenAIChunk, TranslateAnthropicChunk, Finish
        <3>3. CASE Shape # "anthropic"
            BY <1>2, <3>3 DEF ToOpenAIChunk, Finish
        <3>. QED
            BY <3>2, <3>3
    <2>3. chunk \in Chunks
        BY <1>2, <2>1, <2>2, FinishType
    <2>4. chunk.text = None /\ chunk.finish = Finish(item.value) /\ chunk.finish # None
        <3>1. Finish(item.value) # None
            BY <1>2, <2>1, FinishType
        <3>. HIDE DEF chunk
        <3>. QED
            BY <2>2, <3>1 DEF StopChunk
    <2>. HIDE DEF chunk
    <2>5. chunk # None
        BY <2>3, StreamAssumption
    <2>. QED
        BY <1>2, <2>2, <2>3, <2>4, <2>5 DEF chunk
<1>3. CASE item.type = "stop" /\ item.value = None
    <2>1. chunk \in {None, EmptyChunk}
        BY <1>3 DEF ToOpenAIChunk, TranslateAnthropicChunk, ChunkFinish, StopChunk, EmptyChunk
    <2>. QED
        BY <1>3, <2>1 DEF EmptyChunk, Chunks
<1>4. CASE item.type \in {"meta", "done"}
    <2>1. chunk \in {None, EmptyChunk}
        BY <1>4 DEF ToOpenAIChunk, TranslateAnthropicChunk
    <2>. QED
        BY <1>4, <2>1 DEF EmptyChunk, Chunks
<1>. QED
    BY <1>1, <1>2, <1>3, <1>4 DEF Event

-----------------------------------------------------------------------------
(* What some frames tell a client of some items.                           *)

(* What is appended to a sequence is one value more.                       *)
LEMMA ToSetAppend ==
    ASSUME NEW S, NEW s \in Seq(S), NEW e \in S
    PROVE  ToSet(Append(s, e)) = ToSet(s) \cup {e}
<1>1. /\ Len(s) \in Nat /\ DOMAIN s = 1..Len(s)
      /\ DOMAIN Append(s, e) = 1..(Len(s) + 1)
      /\ \A i \in 1..Len(s) : Append(s, e)[i] = s[i]
      /\ Append(s, e)[Len(s) + 1] = e
    BY AppendProperties, LenProperties
<1>2. \A i \in 1..(Len(s) + 1) : i \in 1..Len(s) \/ i = Len(s) + 1
    BY <1>1
<1>3. Len(s) + 1 \in 1..(Len(s) + 1) /\ 1..Len(s) \subseteq 1..(Len(s) + 1)
    BY <1>1
<1>. QED
    BY <1>1, <1>2, <1>3 DEF ToSet

(* A frame tells its finish reason, if it has one.                         *)
LEMMA ToldAppend ==
    ASSUME NEW fs \in Seq(Frames), NEW frame \in Frames
    PROVE  Told(Append(fs, frame)) =
               IF frame \in Chunks THEN Told(fs) \cup ({frame.finish} \ {None}) ELSE Told(fs)
<1>1. ToSet(Append(fs, frame)) = ToSet(fs) \cup {frame}
    BY ToSetAppend
<1>2. frame \in Chunks <=> frame # DoneFrame
    BY DoneIsNoChunk DEF Frames
<1>. QED
    BY <1>1, <1>2 DEF Told

(* An item gives its reason to stop, if it has one.                        *)
LEMMA ReasonsAppend ==
    ASSUME NEW items \in Seq(Items), NEW item \in Items
    PROVE  Reasons(Append(items, item)) =
               IF item.type = "stop" /\ item.value # None THEN Reasons(items) \cup {item.value}
               ELSE Reasons(items)
<1>1. ToSet(Append(items, item)) = ToSet(items) \cup {item}
    BY ToSetAppend
<1>. QED
    BY <1>1 DEF Reasons

(* No frames tell a client of no items.                                    *)
LEMMA ConveysNothing == Conveys(<<>>, <<>>)
<1>1. PiecesIn(<<>>) = <<>> /\ HeardIn(<<>>) = <<>>
    BY ColumnEmpty DEF PiecesIn, HeardIn
<1>2. ToSet(<<>>) = {}
    BY EmptySeq DEF ToSet
<1>3. Told(<<>>) = {} /\ Reasons(<<>>) = {}
    BY <1>2 DEF Told, Reasons
<1>. QED
    BY <1>1, <1>3 DEF Conveys

(* The client needs no frame for an item that is not for it.               *)
LEMMA ConveysSilent ==
    ASSUME NEW fs, NEW items \in Seq(Items), NEW item \in Items, Conveys(fs, items),
           item.type \notin {"text", "bad"}, ~ (item.type = "stop" /\ item.value # None)
    PROVE  Conveys(fs, Append(items, item))
<1>1. PiecesIn(Append(items, item)) = PiecesIn(items)
    BY PiecesInAppend
<1>2. Reasons(Append(items, item)) = Reasons(items)
    BY ReasonsAppend
<1>. QED
    BY <1>1, <1>2 DEF Conveys

(* One frame for an item that has a chunk.                                 *)
LEMMA ConveysChunk ==
    ASSUME NEW fs \in Seq(Frames), NEW items \in Seq(Items), NEW item \in Items,
           Conveys(fs, items), item.type \in Event,
           ToOpenAIChunk(Shape, item) # None
    PROVE  Conveys(Append(fs, ToOpenAIChunk(Shape, item)), Append(items, item))
<1>. DEFINE more == Append(items, item)
            chunk == ToOpenAIChunk(Shape, item)
            gs == Append(fs, chunk)
<1>1. /\ chunk \in Chunks
      /\ item.type = "text" => chunk.text = item.value /\ chunk.text # None
      /\ item.type # "text" => chunk.text = None
      /\ item.type = "stop" /\ item.value # None =>
            chunk.finish = Finish(item.value) /\ chunk.finish # None
      /\ ~ (item.type = "stop" /\ item.value # None) => chunk.finish = None
    BY ChunkOfEvent
<1>2. chunk \in Frames /\ item.type # "bad"
    BY <1>1 DEF Frames, Event
<1>3. /\ HeardIn(gs) = IF chunk.text # None THEN Append(HeardIn(fs), chunk.text) ELSE HeardIn(fs)
      /\ Told(gs) = Told(fs) \cup ({chunk.finish} \ {None})
    <2>. HIDE DEF chunk
    <2>. QED
        BY <1>1, <1>2, HeardInAppend, ToldAppend
<1>4. PiecesIn(more) = IF item.type = "text" THEN Append(PiecesIn(items), item.value)
                       ELSE PiecesIn(items)
    BY <1>2, PiecesInAppend
<1>5. Reasons(more) = IF item.type = "stop" /\ item.value # None
                      THEN Reasons(items) \cup {item.value} ELSE Reasons(items)
    BY ReasonsAppend
<1>. HIDE DEF chunk, gs, more
<1>6. HeardIn(gs) = PiecesIn(more)
    BY <1>1, <1>3, <1>4 DEF Conveys
<1>7. Told(gs) = {Finish(reason) : reason \in Reasons(more)}
    <2>1. Told(fs) = {Finish(reason) : reason \in Reasons(items)}
        BY DEF Conveys
    <2>2. CASE item.type = "stop" /\ item.value # None
        <3>1. Told(gs) = Told(fs) \cup {Finish(item.value)}
            BY <1>1, <1>3, <2>2
        <3>. QED
            BY <1>5, <2>1, <2>2, <3>1
    <2>3. CASE ~ (item.type = "stop" /\ item.value # None)
        BY <1>1, <1>3, <1>5, <2>1, <2>3
    <2>. QED
        BY <2>2, <2>3
<1>. QED
    BY <1>6, <1>7 DEF Conveys, gs, more, chunk

(* [DONE] tells nothing of the items.                                      *)
LEMMA ConveysDone ==
    ASSUME NEW fs \in Seq(Frames), NEW items, Conveys(fs, items)
    PROVE  Conveys(Append(fs, DoneFrame), items)
<1>1. DoneFrame \in Frames /\ DoneFrame \notin Chunks
    BY DoneIsNoChunk DEF Frames
<1>2. HeardIn(Append(fs, DoneFrame)) = HeardIn(fs)
    BY <1>1, HeardInAppend
<1>3. Told(Append(fs, DoneFrame)) = Told(fs)
    BY <1>1, ToldAppend
<1>. QED
    BY <1>2, <1>3 DEF Conveys

-----------------------------------------------------------------------------
(* Types.                                                                  *)

(* Every variable starts with its type.                                    *)
LEMMA TypeInit == Init => TypeOK
<1>. SUFFICES ASSUME Init PROVE TypeOK
    OBVIOUS
<1>1. <<>> \in Seq(Items) /\ <<>> \in Seq(Chunks \cup {DoneFrame}) /\ Len(<<>>) = 0
    BY EmptySeq
<1>. QED
    BY <1>1 DEF Init, TypeOK, Labels

(* What a provider can say.                                                *)
LEMMA SaidIsItem ==
    ASSUME TypeOK, NEW r \in Requests
    PROVE  [type : {"meta", "skip", "done"}, value : {None}]
             \cup [type : {"text", "bad"}, value : {Len(PiecesIn(said[r])) + 1}]
             \cup [type : {"stop"}, value : StopReasons] \subseteq Items
<1>1. Len(PiecesIn(said[r])) + 1 \in Nat \ {0}
    BY PiecesInType DEF TypeOK
<1>. QED
    BY <1>1 DEF Items

(* There is an item to read where the code reads one.                      *)
LEMMA NextItemIsItem ==
    ASSUME TypeOK, NEW r \in Requests, HasNext(r)
    PROVE  /\ NextItem(r) \in Items
           /\ pos[r] \in 0..(Len(said[r]) - 1) /\ pos[r] + 1 <= Len(said[r])
<1>1. said[r] \in Seq(Items) /\ pos[r] \in Nat /\ pos[r] < Len(said[r]) /\ Len(said[r]) \in Nat
    BY LenProperties DEF TypeOK, HasNext
<1>. QED
    BY <1>1, ElementOfSeq DEF NextItem

(* Every step keeps the types.                                             *)
LEMMA TypeStep == IInv /\ [Next]_vars => TypeOK'
<1>. SUFFICES ASSUME IInv, [Next]_vars PROVE TypeOK'
    OBVIOUS
<1>. TypeOK
    BY DEF IInv
<1>. USE DEF TypeOK, Goto, Leave, LeaveOpen, Advance, Labels
<1>1. ASSUME NEW r \in Requests, Begin(r) PROVE TypeOK'
    BY <1>1 DEF Begin
<1>2. ASSUME NEW r \in Requests, Connect(r) PROVE TypeOK'
    BY <1>2 DEF Connect
<1>3. ASSUME NEW r \in Requests, CheckStatus(r) PROVE TypeOK'
    BY <1>3 DEF CheckStatus
<1>4. ASSUME NEW r \in Requests, ReadSkip(r) PROVE TypeOK'
    BY <1>4, NextItemIsItem DEF ReadSkip, HasNext
<1>5. ASSUME NEW r \in Requests, ReadEvent(r) PROVE TypeOK'
    <2>. DEFINE chunk == ToOpenAIChunk(Shape, NextItem(r))
    <2>1. NextItem(r) \in Items /\ pos[r] + 1 <= Len(said[r]) /\ HasNext(r)
        BY <1>5, NextItemIsItem DEF ReadEvent
    <2>2. NextItem(r).type \in Event
        BY <1>5 DEF ReadEvent, Event
    <2>3. chunk \in Chunks \cup {None}
        BY <2>1, <2>2, ChunkOfEvent
    <2>4. /\ IF chunk = None THEN UNCHANGED <<pc, held>>
             ELSE held' = [held EXCEPT ![r] = chunk] /\ pc' = [pc EXCEPT ![r] = "write"]
          /\ pos' = [pos EXCEPT ![r] = @ + 1]
          /\ UNCHANGED <<connected, line, said, frames, client>>
        BY <1>5 DEF ReadEvent
    <2>. HIDE DEF chunk
    <2>5. CASE chunk = None
        BY <2>1, <2>4, <2>5
    <2>6. CASE chunk # None
        <3>1. pc' = [pc EXCEPT ![r] = "write"] /\ held' = [held EXCEPT ![r] = chunk]
            BY <2>4, <2>6
        <3>2. \A v \in Requests : held'[v] # None <=> pc'[v] = "write"
            BY <2>6, <3>1
        <3>. QED
            BY <2>1, <2>3, <2>4, <3>1, <3>2
    <2>. QED
        BY <2>5, <2>6
<1>6. ASSUME NEW r \in Requests, ReadDone(r) PROVE TypeOK'
    BY <1>6, NextItemIsItem DEF ReadDone, HasNext
<1>7. ASSUME NEW r \in Requests, ReadBad(r) PROVE TypeOK'
    BY <1>7, NextItemIsItem DEF ReadBad, HasNext
<1>8. ASSUME NEW r \in Requests, ReadEnd(r) PROVE TypeOK'
    BY <1>8 DEF ReadEnd
<1>9. ASSUME NEW r \in Requests, ReadFails(r) PROVE TypeOK'
    BY <1>9 DEF ReadFails
<1>10. ASSUME NEW r \in Requests, Write(r) \/ WriteDone(r) PROVE TypeOK'
    <2>. DEFINE frame == IF pc[r] = "write" THEN held[r] ELSE DoneFrame
    <2>1. frame \in Chunks \cup {DoneFrame}
        BY <1>10 DEF Write, WriteDone
    <2>2. Append(frames[r], frame) \in Seq(Chunks \cup {DoneFrame})
        BY <2>1, AppendProperties
    <2>3. Send(r, frame)
        BY <1>10 DEF Write, WriteDone
    <2>. HIDE DEF frame
    <2>4. frames' \in [Requests -> Seq(Chunks \cup {DoneFrame})]
        BY <2>2, <2>3 DEF Send
    <2>5. CASE Write(r)
        <3>1. /\ pc' = [pc EXCEPT ![r] = "read"] /\ held' = [held EXCEPT ![r] = None]
              /\ UNCHANGED <<connected, line, said, pos, client>>
            BY <2>5 DEF Write
        <3>. QED
            BY <2>4, <3>1
    <2>6. CASE WriteDone(r)
        <3>1. /\ pc[r] = "finish" /\ pc' = [pc EXCEPT ![r] = "done"]
              /\ UNCHANGED <<connected, line, said, pos, held, client>>
            BY <2>6 DEF WriteDone
        <3>. QED
            BY <2>4, <3>1
    <2>. QED
        BY <1>10, <2>5, <2>6
<1>11. ASSUME NEW r \in Requests, Cancel(r) PROVE TypeOK'
    BY <1>11 DEF Cancel
<1>12. ASSUME NEW r \in Requests, Finalize(r) PROVE TypeOK'
    BY <1>12 DEF Finalize
<1>13. ASSUME NEW r \in Requests, Say(r) PROVE TypeOK'
    <2>1. PICK item \in Items : said' = [said EXCEPT ![r] = Append(@, item)]
        BY <1>13, SaidIsItem DEF Say
    <2>2. /\ Append(said[r], item) \in Seq(Items)
          /\ Len(Append(said[r], item)) = Len(said[r]) + 1 /\ Len(said[r]) \in Nat
        BY AppendProperties, LenProperties
    <2>3. said' \in [Requests -> Seq(Items)] /\ \A v \in Requests : Len(said[v]) <= Len(said'[v])
        BY <2>1, <2>2, LenProperties
    <2>4. \A v \in Requests : Len(said[v]) \in Nat /\ Len(said'[v]) \in Nat
        BY <2>3, LenProperties
    <2>. QED
        BY <1>13, <2>3, <2>4 DEF Say
<1>14. ASSUME NEW r \in Requests, Hangup(r) PROVE TypeOK'
    BY <1>14 DEF Hangup
<1>15. ASSUME NEW r \in Requests, Stall(r) \/ Disconnect(r) PROVE TypeOK'
    BY <1>15 DEF Stall, Disconnect
<1>16. CASE AllDone \/ UNCHANGED vars
    BY <1>16 DEF AllDone, vars
<1>. QED
    BY <1>1, <1>2, <1>3, <1>4, <1>5, <1>6, <1>7, <1>8, <1>9, <1>10, <1>11, <1>12, <1>13,
       <1>14, <1>15, <1>16 DEF Next, Step

-----------------------------------------------------------------------------
(* A step of one request, or about it, leaves the others alone.            *)

Acts(r) ==
    \/ Begin(r) \/ Step(r) \/ Say(r) \/ Hangup(r) \/ Stall(r) \/ Disconnect(r)

Untouched(r) ==
    /\ pc'[r] = pc[r] /\ (r \in connected' <=> r \in connected)
    /\ line'[r] = line[r] /\ said'[r] = said[r] /\ pos'[r] = pos[r]
    /\ held'[r] = held[r] /\ frames'[r] = frames[r] /\ client'[r] = client[r]

(* A request that acts leaves every other one as it is.                    *)
LEMMA OthersUntouched ==
    ASSUME TypeOK, NEW r \in Requests, Acts(r), NEW v \in Requests, v # r
    PROVE  Untouched(v)
<1>. USE DEF TypeOK, Untouched, Goto, Leave, LeaveOpen, Advance
<1>1. CASE Begin(r) \/ Connect(r) \/ CheckStatus(r)
    BY <1>1 DEF Begin, Connect, CheckStatus
<1>2. CASE ReadSkip(r) \/ ReadDone(r) \/ ReadBad(r) \/ ReadEnd(r) \/ ReadFails(r)
    BY <1>2 DEF ReadSkip, ReadDone, ReadBad, ReadEnd, ReadFails
<1>3. CASE ReadEvent(r)
    BY <1>3 DEF ReadEvent
<1>4. CASE Write(r) \/ WriteDone(r)
    BY <1>4 DEF Write, WriteDone, Send
<1>5. CASE Cancel(r) \/ Finalize(r)
    BY <1>5 DEF Cancel, Finalize
<1>6. CASE Say(r) \/ Hangup(r) \/ Stall(r) \/ Disconnect(r)
    BY <1>6 DEF Say, Hangup, Stall, Disconnect
<1>. QED
    BY <1>1, <1>2, <1>3, <1>4, <1>5, <1>6 DEF Acts, Step

(* In a step a request acts or is left as it is.                           *)
LEMMA RequestStep ==
    ASSUME TypeOK, [Next]_vars, NEW r \in Requests
    PROVE  Acts(r) \/ Untouched(r)
<1>1. CASE AllDone \/ UNCHANGED vars
    BY <1>1 DEF AllDone, vars, Untouched
<1>2. ASSUME NEW v \in Requests, Acts(v) PROVE Acts(r) \/ Untouched(r)
    BY <1>2, OthersUntouched
<1>. QED
    BY <1>1, <1>2 DEF Next, Acts

(* Where a request needs its connection.                                   *)
InUse == {"status", "read", "write", "orphan"}

(* Connections stay with the requests that use them.                       *)
LEMMA InUseStep == IInv /\ [Next]_vars => ConnectionsInUse'
<1>. SUFFICES ASSUME IInv, [Next]_vars, NEW r \in Requests
              PROVE  r \in connected' <=> pc'[r] \in InUse
    BY DEF ConnectionsInUse, InUse
<1>. TypeOK
    BY DEF IInv
<1>1. r \in connected <=> pc[r] \in InUse
    BY DEF IInv, ConnectionsInUse, InUse
<1>2. CASE Untouched(r)
    BY <1>1, <1>2 DEF Untouched
<1>. USE DEF TypeOK, InUse, Goto, Leave, LeaveOpen
<1>3. CASE Begin(r) \/ Connect(r) \/ CheckStatus(r)
    BY <1>1, <1>3 DEF Begin, Connect, CheckStatus
<1>4. CASE ReadSkip(r) \/ ReadDone(r) \/ ReadBad(r) \/ ReadEnd(r) \/ ReadFails(r)
    BY <1>1, <1>4 DEF ReadSkip, ReadDone, ReadBad, ReadEnd, ReadFails, HasNext
<1>5. CASE ReadEvent(r)
    BY <1>1, <1>5 DEF ReadEvent, HasNext
<1>6. CASE Write(r) \/ WriteDone(r)
    BY <1>1, <1>6 DEF Write, WriteDone
<1>7. CASE Cancel(r) \/ Finalize(r)
    BY <1>1, <1>7 DEF Cancel, Finalize
<1>8. CASE Say(r) \/ Hangup(r) \/ Stall(r) \/ Disconnect(r)
    BY <1>1, <1>8 DEF Say, Hangup, Stall, Disconnect
<1>. QED
    BY <1>2, <1>3, <1>4, <1>5, <1>6, <1>7, <1>8, RequestStep DEF Acts, Step

(* The clauses of a request that only depend on what is its own.           *)
LEMMA UntouchedStep ==
    ASSUME NEW r, SentinelOK(r), DoneOK(r), DeliveryOK(r), Untouched(r)
    PROVE  SentinelOK(r)' /\ DoneOK(r)' /\ DeliveryOK(r)'
BY DEF Untouched, SentinelOK, DoneOK, DeliveryOK, AllRead, Delivered, ReadSoFar

(* What the read of an item finds.                                         *)
LEMMA BeforeItem ==
    ASSUME IInv, NEW r \in Requests, HasNext(r)
    PROVE  \A i \in 1..pos[r] : said[r][i].type # "done"
<1>. TypeOK /\ SentinelOK(r)
    BY DEF IInv
<1>1. pos[r] \in Nat /\ pos[r] < Len(said[r]) /\ DOMAIN said[r] = 1..Len(said[r])
         /\ Len(said[r]) \in Nat /\ pc[r] = "read"
    BY LenProperties DEF HasNext, TypeOK
<1>2. CASE Shape = "anthropic"
    BY <1>1, <1>2 DEF SentinelOK
<1>3. CASE Shape # "anthropic"
    BY <1>1, <1>3 DEF SentinelOK
<1>. QED
    BY <1>2, <1>3

(* An item is said.                                                        *)
LEMMA SayStep ==
    ASSUME IInv, NEW r \in Requests, Say(r)
    PROVE  \E item \in Items :
              /\ said'[r] = Append(said[r], item)
              /\ said'[r] \in Seq(Items) /\ Len(said'[r]) = Len(said[r]) + 1
              /\ Len(said[r]) \in Nat /\ Len(said[r]) < MaxItems[r]
              /\ \A i \in 1..Len(said[r]) : said'[r][i] = said[r][i]
              /\ said'[r][Len(said[r]) + 1] = item
              /\ item.type \in {"text", "bad"} => item.value = Len(PiecesIn(said[r])) + 1
              /\ Shape = "anthropic" => \A i \in 1..Len(said[r]) : said[r][i].type # "done"
<1>. TypeOK
    BY DEF IInv
<1>. DEFINE All == [type : {"meta", "skip", "done"}, value : {None}]
                     \cup [type : {"text", "bad"}, value : {Len(PiecesIn(said[r])) + 1}]
                     \cup [type : {"stop"}, value : StopReasons]
<1>1. PICK item \in All :
          /\ "done" \in Types(r) => Shape # "anthropic"
          /\ said' = [said EXCEPT ![r] = Append(@, item)]
    BY DEF Say
<1>2. All \subseteq Items
    BY SaidIsItem
<1>3. item.type \in {"text", "bad"} => item.value = Len(PiecesIn(said[r])) + 1
    OBVIOUS
<1>. HIDE DEF All
<1>4. said[r] \in Seq(Items) /\ said'[r] = Append(said[r], item) /\ item \in Items
    BY <1>1, <1>2 DEF TypeOK
<1>5. Shape = "anthropic" => \A i \in 1..Len(said[r]) : said[r][i].type # "done"
    BY <1>1, <1>4, LenProperties DEF Types
<1>6. /\ said'[r] \in Seq(Items) /\ Len(said'[r]) = Len(said[r]) + 1 /\ Len(said[r]) \in Nat
      /\ \A i \in 1..Len(said[r]) : said'[r][i] = said[r][i]
      /\ said'[r][Len(said[r]) + 1] = item
    BY <1>4, AppendProperties, LenProperties
<1>7. Len(said[r]) < MaxItems[r]
    BY DEF Say
<1>. QED
    BY <1>3, <1>4, <1>5, <1>6, <1>7

(* Where a request has not met the end of its stream.                      *)
Ahead == {"idle", "connect", "status", "read", "write"}

(* No request reads past [DONE].                                           *)
LEMMA SentinelStep ==
    ASSUME IInv, [Next]_vars, NEW r \in Requests
    PROVE  SentinelOK(r)'
<1>. USE DEF Ahead
<1>. TypeOK /\ SentinelOK(r)
    BY DEF IInv
<1>1. pos[r] \in Nat /\ pos[r] <= Len(said[r]) /\ Len(said[r]) \in Nat
         /\ DOMAIN said[r] = 1..Len(said[r])
    BY LenProperties DEF TypeOK
<1>2. CASE Untouched(r)
    BY <1>2 DEF Untouched, SentinelOK
<1>3. CASE Begin(r) \/ Connect(r) \/ CheckStatus(r)
    <2>1. UNCHANGED <<said, pos>> /\ pc[r] \in Ahead
        BY <1>3 DEF Begin, Connect, CheckStatus
    <2>. QED
        BY <2>1 DEF SentinelOK
<1>4. CASE ReadSkip(r) \/ ReadEvent(r) \/ ReadDone(r) \/ ReadBad(r)
    <2>1. /\ HasNext(r) /\ pos' = [pos EXCEPT ![r] = @ + 1] /\ UNCHANGED said
          /\ pc'[r] \in Ahead /\ Shape # "anthropic" => said[r][pos[r] + 1].type # "done"
        <3>1. CASE ReadSkip(r)
            BY <3>1 DEF ReadSkip, Advance, NextItem
        <3>2. CASE ReadEvent(r)
            BY <3>2 DEF ReadEvent, Advance, NextItem
        <3>3. CASE ReadDone(r) \/ ReadBad(r)
            BY <3>3 DEF ReadDone, ReadBad, Advance, Leave, Goto, TypeOK, HasNext
        <3>. QED
            BY <1>4, <3>1, <3>2, <3>3
    <2>2. \A i \in 1..pos[r] : said[r][i].type # "done"
        BY <2>1, BeforeItem
    <2>3. /\ pos'[r] = pos[r] + 1 /\ said'[r] = said[r]
          /\ \A i \in 1..(pos'[r] - 1) : i \in 1..pos[r]
          /\ \A i \in 1..pos'[r] : i \in 1..pos[r] \/ i = pos[r] + 1
        BY <1>1, <2>1 DEF TypeOK
    <2>4. \A i \in 1..(pos'[r] - 1) : said'[r][i].type # "done"
        BY <2>2, <2>3
    <2>5. pc'[r] \in Ahead /\ Shape # "anthropic" => \A i \in 1..pos'[r] : said'[r][i].type # "done"
        BY <2>1, <2>2, <2>3
    <2>6. Shape = "anthropic" =>
              \A i \in DOMAIN said'[r] : said'[r][i].type = "done" => i = Len(said'[r])
        BY <2>3 DEF SentinelOK
    <2>. QED
        BY <2>4, <2>5, <2>6 DEF SentinelOK
<1>5. CASE ReadEnd(r) \/ ReadFails(r) \/ Write(r) \/ WriteDone(r) \/ Cancel(r) \/ Finalize(r)
           \/ Hangup(r) \/ Stall(r) \/ Disconnect(r)
    <2>1. UNCHANGED <<said, pos>> /\ (pc'[r] \in Ahead => pc[r] \in Ahead)
        BY <1>5 DEF ReadEnd, ReadFails, Write, WriteDone, Cancel, Finalize, Hangup, Stall,
                    Disconnect, Leave, LeaveOpen, Goto, TypeOK
    <2>. QED
        BY <2>1 DEF SentinelOK
<1>6. CASE Say(r)
    <2>1. PICK item \in Items :
              /\ said'[r] \in Seq(Items) /\ Len(said'[r]) = Len(said[r]) + 1
              /\ \A i \in 1..Len(said[r]) : said'[r][i] = said[r][i]
              /\ Shape = "anthropic" => \A i \in 1..Len(said[r]) : said[r][i].type # "done"
        BY <1>6, SayStep
    <2>2. pos'[r] = pos[r] /\ pc'[r] = pc[r]
        BY <1>6 DEF Say
    <2>3. DOMAIN said'[r] = 1..(Len(said[r]) + 1)
        BY <2>1, LenProperties
    <2>4. /\ \A i \in 1..pos[r] : i \in 1..Len(said[r])
          /\ \A i \in 1..(pos[r] - 1) : i \in 1..Len(said[r])
          /\ \A i \in 1..(Len(said[r]) + 1) : i \in 1..Len(said[r]) \/ i = Len(said[r]) + 1
        BY <1>1
    <2>5. \A i \in 1..(pos'[r] - 1) : said'[r][i].type # "done"
        BY <2>1, <2>2, <2>4 DEF SentinelOK
    <2>6. pc'[r] \in Ahead /\ Shape # "anthropic" => \A i \in 1..pos'[r] : said'[r][i].type # "done"
        BY <2>1, <2>2, <2>4 DEF SentinelOK
    <2>7. Shape = "anthropic" =>
              \A i \in DOMAIN said'[r] : said'[r][i].type = "done" => i = Len(said'[r])
        BY <2>1, <2>3, <2>4
    <2>. QED
        BY <2>5, <2>6, <2>7 DEF SentinelOK
<1>. QED
    BY <1>2, <1>3, <1>4, <1>5, <1>6, RequestStep DEF Acts, Step

(* [DONE] is written at the end of what was read, and after everything.    *)
LEMMA DoneStep ==
    ASSUME IInv, [Next]_vars, NEW r \in Requests
    PROVE  DoneOK(r)'
<1>. TypeOK /\ DoneOK(r) /\ SentinelOK(r)
    BY DEF IInv
<1>. DEFINE NoDone(fs) == \A i \in DOMAIN fs : fs[i] # DoneFrame
<1>1. pos[r] \in Nat /\ pos[r] <= Len(said[r]) /\ Len(said[r]) \in Nat
         /\ DOMAIN said[r] = 1..Len(said[r])
    BY LenProperties DEF TypeOK
<1>2. pc[r] # "done" => NoDone(frames[r])
    BY DEF DoneOK
<1>3. /\ frames[r] \in Seq(Chunks \cup {DoneFrame})
      /\ Len(frames[r]) \in Nat /\ DOMAIN frames[r] = 1..Len(frames[r])
    BY LenProperties DEF TypeOK
<1>4. CASE Untouched(r)
    BY <1>4 DEF Untouched, DoneOK, AllRead
<1>5. CASE Begin(r) \/ Connect(r) \/ CheckStatus(r) \/ ReadSkip(r) \/ ReadEvent(r) \/ ReadBad(r)
           \/ ReadFails(r) \/ Cancel(r) \/ Finalize(r)
    <2>1. pc[r] # "done" /\ pc'[r] \notin {"finish", "done"} /\ UNCHANGED frames
        BY <1>5 DEF Begin, Connect, CheckStatus, ReadSkip, ReadEvent, ReadBad, ReadFails, Cancel,
                    Finalize, HasNext, Leave, LeaveOpen, Goto, TypeOK
    <2>. QED
        BY <1>2, <2>1 DEF DoneOK
<1>6. CASE ReadDone(r) \/ ReadEnd(r)
    <2>1. pc[r] = "read" /\ UNCHANGED <<frames, said, line>>
        BY <1>6 DEF ReadDone, ReadEnd, HasNext
    <2>2. AllRead(r)'
        BY <1>1, <1>6, <2>1 DEF ReadDone, ReadEnd, NextItem, Advance, AllRead, TypeOK
    <2>. QED
        BY <1>2, <2>1, <2>2 DEF DoneOK
<1>7. CASE Write(r)
    <2>1. pc[r] = "write" /\ pc'[r] = "read" /\ held[r] \in Chunks
        BY <1>7 DEF Write, Goto, TypeOK
    <2>2. frames'[r] = frames[r] \/ frames'[r] = Append(frames[r], held[r])
        BY <1>7 DEF Write, Send, TypeOK
    <2>3. held[r] # DoneFrame
        BY <2>1, DoneIsNoChunk
    <2>4. CASE frames'[r] = Append(frames[r], held[r])
        <3>1. /\ DOMAIN frames'[r] = 1..(Len(frames[r]) + 1)
              /\ \A i \in 1..Len(frames[r]) : frames'[r][i] = frames[r][i]
              /\ frames'[r][Len(frames[r]) + 1] = held[r]
            BY <1>3, <2>1, <2>4, AppendProperties, LenProperties
        <3>2. \A i \in 1..(Len(frames[r]) + 1) : i \in 1..Len(frames[r]) \/ i = Len(frames[r]) + 1
            BY <1>3
        <3>3. NoDone(frames'[r])
            BY <1>2, <1>3, <2>1, <2>3, <3>1, <3>2
        <3>. QED
            BY <2>1, <3>3 DEF DoneOK
    <2>. QED
        BY <1>2, <2>1, <2>2, <2>4 DEF DoneOK
<1>8. CASE WriteDone(r)
    <2>1. pc[r] = "finish" /\ pc'[r] = "done" /\ UNCHANGED <<client, line, said, pos>>
        BY <1>8 DEF WriteDone, Goto, TypeOK
    <2>2. AllRead(r)'
        BY <2>1 DEF DoneOK, AllRead
    <2>3. CASE client[r] = "gone"
        <3>1. frames' = frames
            BY <1>8, <2>3 DEF WriteDone, Send
        <3>. QED
            BY <1>2, <2>1, <2>2, <3>1 DEF DoneOK
    <2>4. CASE client[r] # "gone"
        <3>1. frames'[r] = Append(frames[r], DoneFrame)
            BY <1>8, <2>4 DEF WriteDone, Send, TypeOK
        <3>2. /\ DOMAIN frames'[r] = 1..(Len(frames[r]) + 1) /\ Len(frames'[r]) = Len(frames[r]) + 1
              /\ \A i \in 1..Len(frames[r]) : frames'[r][i] = frames[r][i]
            BY <1>3, <3>1, AppendProperties, LenProperties
        <3>3. \A i \in 1..(Len(frames[r]) + 1) : i \in 1..Len(frames[r]) \/ i = Len(frames[r]) + 1
            BY <1>3
        <3>4. \A i \in DOMAIN frames'[r] : frames'[r][i] = DoneFrame => i = Len(frames'[r])
            BY <1>2, <1>3, <2>1, <3>2, <3>3
        <3>. QED
            BY <2>1, <2>2, <2>4, <3>4 DEF DoneOK
    <2>. QED
        BY <2>3, <2>4
<1>9. CASE Say(r)
    <2>1. PICK item \in Items :
              /\ said'[r] \in Seq(Items)
              /\ \A i \in 1..Len(said[r]) : said'[r][i] = said[r][i]
        BY <1>9, SayStep
    <2>2. UNCHANGED <<pos, pc, line, frames, client>> /\ line[r] = "open"
        BY <1>9 DEF Say
    <2>3. pc[r] \in {"finish", "done"} => AllRead(r)'
        BY <1>1, <2>1, <2>2 DEF DoneOK, AllRead
    <2>. QED
        BY <2>2, <2>3 DEF DoneOK
<1>10. CASE Hangup(r) \/ Stall(r)
    <2>1. UNCHANGED <<pos, pc, said, frames>> /\ (line[r] = "closed" => line'[r] = "closed")
             /\ (client[r] # "gone" => client'[r] # "gone")
        BY <1>10 DEF Hangup, Stall, TypeOK
    <2>. QED
        BY <2>1 DEF DoneOK, AllRead
<1>11. CASE Disconnect(r)
    <2>1. UNCHANGED <<pos, pc, said, frames, line>> /\ pc[r] # "done"
        BY <1>11 DEF Disconnect, Over
    <2>. QED
        BY <1>2, <2>1 DEF DoneOK, AllRead
<1>. QED
    BY <1>4, <1>5, <1>6, <1>7, <1>8, <1>9, <1>10, <1>11, RequestStep DEF Acts, Step

-----------------------------------------------------------------------------
(* What was read is delivered.                                             *)

Lost == {"failed", "cancelled", "orphan"}

(* Nothing that the clause of a request depends on is changed.             *)
LEMMA DeliveryKept ==
    ASSUME NEW r \in Requests, DeliveryOK(r), pc[r] \notin Lost, client'[r] # "gone" => client[r] # "gone",
           ReadSoFar(r)' = ReadSoFar(r), Delivered(r)' = Delivered(r)
    PROVE  DeliveryOK(r)'
BY DEF DeliveryOK, Lost

(* What is read of a stream.                                               *)
LEMMA ReadNext ==
    ASSUME IInv, NEW r \in Requests, HasNext(r), Advance(r), said'[r] = said[r]
    PROVE  /\ ReadSoFar(r) \in Seq(Items) /\ NextItem(r) \in Items
           /\ ReadSoFar(r)' = Append(ReadSoFar(r), NextItem(r))
<1>. TypeOK
    BY DEF IInv
<1>1. pos[r] \in 0..(Len(said[r]) - 1) /\ said[r] \in Seq(Items)
    BY NextItemIsItem DEF TypeOK
<1>2. pos'[r] = pos[r] + 1
    BY DEF Advance, TypeOK
<1>3. /\ SubSeq(said[r], 1, pos[r]) \in Seq(Items) /\ said[r][pos[r] + 1] \in Items
      /\ SubSeq(said[r], 1, pos[r] + 1) = Append(SubSeq(said[r], 1, pos[r]), said[r][pos[r] + 1])
    BY <1>1, LongerPrefix
<1>. QED
    BY <1>2, <1>3 DEF ReadSoFar, NextItem

(* What a step reads it holds or frames, and what it held it frames.       *)
LEMMA DeliveryStep ==
    ASSUME IInv, [Next]_vars, NEW r \in Requests
    PROVE  DeliveryOK(r)'
<1>. TypeOK /\ DeliveryOK(r)
    BY DEF IInv
<1>1. frames[r] \in Seq(Frames)
    BY DEF TypeOK, Frames
<1>2. CASE Untouched(r)
    BY <1>2 DEF Untouched, DeliveryOK, Delivered, ReadSoFar
<1>3. CASE Begin(r) \/ Connect(r) \/ CheckStatus(r) \/ ReadEnd(r) \/ Hangup(r) \/ Stall(r)
    <2>1. /\ UNCHANGED <<said, pos, held, frames>>
          /\ pc'[r] \notin {"failed"} => (pc[r] = "write" <=> pc'[r] = "write")
          /\ pc[r] \in Lost => pc'[r] = pc[r]
          /\ client'[r] # "gone" => client[r] # "gone"
        BY <1>3 DEF Begin, Connect, CheckStatus, ReadEnd, Hangup, Stall, Leave, Goto, TypeOK, Lost
    <2>2. CASE pc'[r] \in Lost
        BY <2>2 DEF DeliveryOK, Lost
    <2>3. CASE pc'[r] \notin Lost
        <3>1. pc[r] \notin Lost
            BY <2>1, <2>3
        <3>2. ReadSoFar(r)' = ReadSoFar(r)
            BY <2>1 DEF ReadSoFar
        <3>3. Delivered(r)' = Delivered(r)
            BY <2>1, <2>3 DEF Delivered, Lost
        <3>. QED
            BY <2>1, <3>1, <3>2, <3>3, DeliveryKept
    <2>. QED
        BY <2>2, <2>3
<1>4. CASE ReadSkip(r) \/ ReadDone(r)
    <2>1. /\ HasNext(r) /\ Advance(r) /\ UNCHANGED <<said, held, frames, client>>
          /\ NextItem(r).type \in {"skip", "done"} /\ pc[r] = "read" /\ pc'[r] # "write"
        BY <1>4 DEF ReadSkip, ReadDone, HasNext, Leave, Goto, TypeOK
    <2>2. /\ ReadSoFar(r) \in Seq(Items) /\ NextItem(r) \in Items
          /\ ReadSoFar(r)' = Append(ReadSoFar(r), NextItem(r))
        BY <2>1, ReadNext
    <2>3. Delivered(r) = frames[r] /\ Delivered(r)' = frames[r]
        BY <2>1 DEF Delivered
    <2>4. client[r] # "gone" => Conveys(frames[r], ReadSoFar(r))
        BY <2>1, <2>3 DEF DeliveryOK
    <2>5. client[r] # "gone" => Conveys(frames[r], Append(ReadSoFar(r), NextItem(r)))
        BY <2>1, <2>2, <2>4, ConveysSilent
    <2>. QED
        BY <2>1, <2>2, <2>3, <2>5 DEF DeliveryOK
<1>5. CASE ReadEvent(r)
    <2>. DEFINE chunk == ToOpenAIChunk(Shape, NextItem(r))
    <2>1. /\ HasNext(r) /\ Advance(r) /\ UNCHANGED <<said, frames, client>>
          /\ NextItem(r).type \in Event /\ pc[r] = "read"
        BY <1>5 DEF ReadEvent, HasNext, Event
    <2>2. /\ ReadSoFar(r) \in Seq(Items) /\ NextItem(r) \in Items
          /\ ReadSoFar(r)' = Append(ReadSoFar(r), NextItem(r))
        BY <2>1, ReadNext
    <2>3. client[r] # "gone" => Conveys(frames[r], ReadSoFar(r))
        BY <2>1 DEF DeliveryOK, Delivered
    <2>4. CASE chunk = None
        <3>1. pc'[r] = "read"
            BY <1>5, <2>1, <2>4 DEF ReadEvent
        <3>2. NextItem(r).type # "text" /\ ~ (NextItem(r).type = "stop" /\ NextItem(r).value # None)
            BY <2>1, <2>2, <2>4, ChunkOfEvent
        <3>3. NextItem(r).type \notin {"text", "bad"}
            BY <2>1, <3>2 DEF Event
        <3>4. client[r] # "gone" => Conveys(frames[r], Append(ReadSoFar(r), NextItem(r)))
            BY <2>2, <2>3, <3>2, <3>3, ConveysSilent
        <3>. QED
            BY <2>1, <2>2, <3>1, <3>4 DEF DeliveryOK, Delivered
    <2>5. CASE chunk # None
        <3>1. pc'[r] = "write" /\ held'[r] = chunk
            BY <1>5, <2>5 DEF ReadEvent, Goto, TypeOK
        <3>2. client[r] # "gone" =>
                  Conveys(Append(frames[r], chunk), Append(ReadSoFar(r), NextItem(r)))
            BY <1>1, <2>1, <2>2, <2>3, <2>5, ConveysChunk
        <3>. HIDE DEF chunk
        <3>3. Delivered(r)' = Append(frames[r], chunk)
            BY <2>1, <3>1 DEF Delivered
        <3>. QED
            BY <2>1, <2>2, <3>1, <3>2, <3>3 DEF DeliveryOK
    <2>. QED
        BY <2>4, <2>5
<1>6. CASE Write(r)
    <2>1. UNCHANGED <<said, pos, client>> /\ pc[r] = "write" /\ pc'[r] = "read"
        BY <1>6 DEF Write, Goto, TypeOK
    <2>2. client[r] # "gone" => frames'[r] = Append(frames[r], held[r])
        BY <1>6 DEF Write, Send, TypeOK
    <2>3. client[r] # "gone" => Delivered(r)' = Delivered(r)
        BY <2>1, <2>2 DEF Delivered
    <2>4. ReadSoFar(r)' = ReadSoFar(r)
        BY <2>1 DEF ReadSoFar
    <2>. QED
        BY <2>1, <2>3, <2>4 DEF DeliveryOK
<1>7. CASE WriteDone(r)
    <2>1. UNCHANGED <<said, pos, client>> /\ pc[r] = "finish" /\ pc'[r] = "done"
        BY <1>7 DEF WriteDone, Goto, TypeOK
    <2>2. client[r] # "gone" => frames'[r] = Append(frames[r], DoneFrame)
        BY <1>7 DEF WriteDone, Send, TypeOK
    <2>3. client[r] # "gone" => Conveys(frames[r], ReadSoFar(r))
        BY <2>1 DEF DeliveryOK, Delivered
    <2>4. client[r] # "gone" => Conveys(Append(frames[r], DoneFrame), ReadSoFar(r))
        BY <1>1, <2>3, ConveysDone
    <2>5. ReadSoFar(r)' = ReadSoFar(r) /\ Delivered(r)' = frames'[r]
        BY <2>1 DEF ReadSoFar, Delivered
    <2>. QED
        BY <2>1, <2>2, <2>4, <2>5 DEF DeliveryOK
<1>8. CASE ReadBad(r) \/ ReadFails(r) \/ Cancel(r) \/ Finalize(r)
    <2>1. pc'[r] \in Lost
        BY <1>8 DEF ReadBad, ReadFails, Cancel, Finalize, Leave, LeaveOpen, Goto, TypeOK, Lost
    <2>. QED
        BY <2>1 DEF DeliveryOK, Lost
<1>9. CASE Disconnect(r)
    <2>1. client'[r] = "gone"
        BY <1>9 DEF Disconnect, TypeOK
    <2>. QED
        BY <2>1 DEF DeliveryOK
<1>10. CASE Say(r)
    <2>1. UNCHANGED <<pc, pos, held, frames, client>>
        BY <1>10 DEF Say
    <2>2. PICK item \in Items : said'[r] = Append(said[r], item)
        BY <1>10, SayStep
    <2>3. said[r] \in Seq(Items) /\ pos[r] \in 0..Len(said[r])
        BY LenProperties DEF TypeOK
    <2>4. SubSeq(Append(said[r], item), 1, pos[r]) = SubSeq(said[r], 1, pos[r])
        BY <2>3, PrefixOfAppend
    <2>5. ReadSoFar(r)' = ReadSoFar(r) /\ Delivered(r)' = Delivered(r)
        BY <2>1, <2>2, <2>4 DEF ReadSoFar, Delivered
    <2>. QED
        BY <2>1, <2>5 DEF DeliveryOK
<1>. QED
    BY <1>2, <1>3, <1>4, <1>5, <1>6, <1>7, <1>8, <1>9, <1>10, RequestStep DEF Acts, Step

-----------------------------------------------------------------------------
(* The invariant.                                                          *)

(* The invariant holds at the start.                                       *)
LEMMA InvariantInit == Init => IInv
<1>. SUFFICES ASSUME Init PROVE IInv
    OBVIOUS
<1>1. TypeOK
    BY TypeInit
<1>2. ASSUME NEW r \in Requests
      PROVE  SentinelOK(r) /\ DoneOK(r) /\ DeliveryOK(r)
    <2>1. /\ pc[r] = "idle" /\ said[r] = <<>> /\ pos[r] = 0 /\ frames[r] = <<>>
        BY DEF Init
    <2>2. DOMAIN <<>> = {} /\ <<>> \in Seq(Items)
        BY EmptySeq
    <2>3. ReadSoFar(r) = <<>> /\ Delivered(r) = <<>>
        BY <2>1, <2>2, SubSeqProperties DEF ReadSoFar, Delivered
    <2>4. SentinelOK(r) /\ DoneOK(r)
        BY <2>1, <2>2 DEF SentinelOK, DoneOK
    <2>. QED
        BY <2>3, <2>4, ConveysNothing DEF DeliveryOK
<1>3. ConnectionsInUse
    BY DEF Init, ConnectionsInUse
<1>. QED
    BY <1>1, <1>2, <1>3 DEF IInv

(* Every step keeps the invariant.                                         *)
LEMMA InvariantStep == IInv /\ [Next]_vars => IInv'
BY TypeStep, InUseStep, SentinelStep, DoneStep, DeliveryStep DEF IInv

(* The inductive invariant holds in every reachable state.                 *)
THEOREM Invariance == Spec => []IInv
BY InvariantInit, InvariantStep, PTL DEF Spec

(* Whatever providers and clients do, every variable keeps the kind of     *)
(* value the code puts there, and generate never writes None (held by      *)
(* to_openai_chunk returning None only for what is not sent).              *)
THEOREM TypeCorrect == Spec => []TypeOK
BY Invariance, PTL DEF IInv

(* The pool's connections are those of the requests being read, written or *)
(* awaiting a finalizer: none is lost, whatever limit the pool has.        *)
THEOREM ConnectionsHeldInUse == Spec => []ConnectionsInUse
BY Invariance, PTL DEF IInv

-----------------------------------------------------------------------------
(* The end of a stream.                                                    *)

NoneDone(items) == \A i \in DOMAIN items : items[i].type # "done"

(* k is the place of the first [DONE].                                     *)
FirstDone(items, k) ==
    /\ k \in 1..Len(items) /\ items[k].type = "done"
    /\ \A i \in 1..(k - 1) : items[i].type # "done"

(* Without a [DONE] everything counts.                                     *)
LEMMA UpToNone ==
    ASSUME NEW items \in Seq(Items), NoneDone(items)
    PROVE  UpToDone(items) = items
BY DEF UpToDone, NoneDone

(* With one, what precedes the first counts.                               *)
LEMMA UpToFirst ==
    ASSUME NEW items \in Seq(Items), NEW k, FirstDone(items, k)
    PROVE  UpToDone(items) = SubSeq(items, 1, k - 1)
<1>. DEFINE ends == {i \in DOMAIN items : items[i].type = "done"}
<1>1. Len(items) \in Nat /\ DOMAIN items = 1..Len(items) /\ k \in 1..Len(items)
    BY LenProperties DEF FirstDone
<1>2. k \in ends
    BY <1>1 DEF FirstDone
<1>3. \A i \in ends : k <= i
    BY <1>1 DEF FirstDone
<1>4. \A i \in ends : (\A j \in ends : i <= j) => i = k
    <2>1. \A i \in ends : i \in Nat
        BY <1>1
    <2>. QED
        BY <1>1, <1>2, <1>3, <2>1
<1>. HIDE DEF ends
<1>5. Min(ends) = k
    BY <1>2, <1>3, <1>4 DEF Min
<1>. QED
    BY <1>2, <1>5 DEF UpToDone, ends

(* There is no [DONE], or a first one.                                     *)
LEMMA FirstOrNone ==
    ASSUME NEW items \in Seq(Items)
    PROVE  NoneDone(items) \/ \E k \in 1..Len(items) : FirstDone(items, k)
<1>. DEFINE ends == {i \in DOMAIN items : items[i].type = "done"}
<1>1. Len(items) \in Nat /\ DOMAIN items = 1..Len(items) /\ ends \in SUBSET Nat
    BY LenProperties
<1>2. CASE ends = {}
    BY <1>2 DEF NoneDone
<1>3. CASE ends # {}
    <2>1. PICK k \in ends : \A i \in ends : k <= i
        BY <1>1, <1>3, LeastOf
    <2>2. \A i \in 1..(k - 1) : i \in DOMAIN items /\ i \notin ends
        BY <1>1, <2>1
    <2>3. FirstDone(items, k)
        BY <1>1, <2>1, <2>2 DEF FirstDone
    <2>. QED
        BY <1>1, <2>1, <2>3
<1>. QED
    BY <1>2, <1>3

(* When the end was read, all that was said before [DONE] was.             *)
LEMMA AllIsRead ==
    ASSUME IInv, NEW r \in Requests, AllRead(r)
    PROVE  /\ PiecesIn(ReadSoFar(r)) = Spoken(r)
           /\ Reasons(ReadSoFar(r)) = Reasons(BeforeDone(r))
<1>. TypeOK /\ SentinelOK(r)
    BY DEF IInv
<1>1. /\ said[r] \in Seq(Items) /\ pos[r] \in 0..Len(said[r])
      /\ Len(said[r]) \in Nat /\ DOMAIN said[r] = 1..Len(said[r])
    BY LenProperties DEF TypeOK
<1>2. CASE pos[r] > 0 /\ said[r][pos[r]].type = "done"
    <2>. DEFINE k == pos[r] - 1
                before == SubSeq(said[r], 1, k)
                end == said[r][pos[r]]
    <2>1. FirstDone(said[r], pos[r])
        BY <1>1, <1>2 DEF FirstDone, SentinelOK
    <2>2. BeforeDone(r) = before
        BY <1>1, <2>1, UpToFirst DEF BeforeDone
    <2>3. k \in 0..(Len(said[r]) - 1) /\ k + 1 = pos[r]
        BY <1>1, <1>2
    <2>. HIDE DEF k
    <2>4. before \in Seq(Items) /\ end \in Items /\ ReadSoFar(r) = Append(before, end)
        <3>1. /\ before \in Seq(Items) /\ said[r][k + 1] \in Items
              /\ SubSeq(said[r], 1, k + 1) = Append(before, said[r][k + 1])
            BY <1>1, <2>3, LongerPrefix
        <3>. QED
            BY <2>3, <3>1 DEF ReadSoFar
    <2>. HIDE DEF before, end
    <2>5. end.type = "done"
        BY <1>2 DEF end
    <2>6. PiecesIn(Append(before, end)) = PiecesIn(before)
        BY <2>4, <2>5, PiecesInAppend
    <2>7. Reasons(Append(before, end)) = Reasons(before)
        BY <2>4, <2>5, ReasonsAppend
    <2>. QED
        BY <2>2, <2>4, <2>6, <2>7 DEF Spoken
<1>3. CASE ~ (pos[r] > 0 /\ said[r][pos[r]].type = "done")
    <2>1. pos[r] = Len(said[r])
        BY <1>3 DEF AllRead
    <2>2. NoneDone(said[r])
        <3>1. \A i \in 1..pos[r] : i \in 1..(pos[r] - 1) \/ i = pos[r]
            BY <1>1
        <3>. QED
            BY <1>1, <1>3, <2>1, <3>1 DEF NoneDone, SentinelOK
    <2>3. BeforeDone(r) = said[r] /\ ReadSoFar(r) = said[r]
        BY <1>1, <2>1, <2>2, UpToNone, SubSeqFull DEF BeforeDone, ReadSoFar
    <2>. QED
        BY <2>3 DEF Spoken
<1>. QED
    BY <1>2, <1>3

-----------------------------------------------------------------------------
(* What [DONE] tells a client.                                             *)

(* The invariant says what [DONE] means.                                   *)
LEMMA DoneHolds == IInv => DoneIsTheEnd
<1>. SUFFICES ASSUME IInv, NEW r \in Requests, NEW i \in DOMAIN frames[r], frames[r][i] = DoneFrame
              PROVE  i = Len(frames[r]) /\ pc[r] = "done" /\ (line[r] # "cut" \/ "done" \in Types(r))
    BY DEF DoneIsTheEnd
<1>1. i = Len(frames[r]) /\ pc[r] = "done" /\ AllRead(r)
    BY DEF IInv, DoneOK
<1>2. pos[r] > 0 => pos[r] \in DOMAIN said[r]
    BY LenProperties DEF IInv, TypeOK
<1>. QED
    BY <1>1, <1>2 DEF AllRead, Types

(* "data: [DONE]" is written once, as the last frame, to a request that is *)
(* over, and never after a broken connection: generate of server/app.py    *)
(* gets there only when the adapter's generator ends.                      *)
THEOREM DoneEndsTheStream == Spec => []DoneIsTheEnd
BY Invariance, DoneHolds, PTL

(* The two tables agree on every reason that is given.                     *)
LEMMA TablesAgree ==
    ASSUME NEW reason, reason # None, NEW texts
    PROVE  ToOpenAIResponse(Shape, texts, reason).finish = Finish(reason)
<1>1. ResponseFinish(reason) = ChunkFinish(reason)
    BY DEF ResponseFinish, ResponseFinishReasons, ChunkFinish, ChunkFinishReasons
<1>. QED
    BY <1>1 DEF ToOpenAIResponse, Finish

(* With the invariant, a client that got [DONE] was told what the response *)
(* would have told it.                                                     *)
LEMMA AgreesHolds == IInv => StreamAgreesWithResponse
<1>. SUFFICES ASSUME IInv, NEW r \in Requests, DoneFrame \in ToSet(frames[r])
              PROVE  Told(frames[r]) = {ToOpenAIResponse(Shape, Spoken(r), reason).finish :
                                           reason \in Reasons(BeforeDone(r))}
    BY DEF StreamAgreesWithResponse
<1>1. pc[r] = "done" /\ client[r] # "gone" /\ AllRead(r)
    BY DEF IInv, DoneOK, ToSet
<1>2. Conveys(frames[r], ReadSoFar(r))
    BY <1>1 DEF IInv, DeliveryOK, Delivered
<1>3. Reasons(ReadSoFar(r)) = Reasons(BeforeDone(r))
    BY <1>1, AllIsRead
<1>4. Told(frames[r]) = {Finish(reason) : reason \in Reasons(BeforeDone(r))}
    BY <1>2, <1>3 DEF Conveys
<1>5. \A reason \in Reasons(BeforeDone(r)) :
          ToOpenAIResponse(Shape, Spoken(r), reason).finish = Finish(reason)
    BY TablesAgree DEF Reasons
<1>. QED
    BY <1>4, <1>5

(* A stream that was ended by [DONE] told its client the finish reason of  *)
(* the response without stream=True and no other, although the code has a  *)
(* table for each (_translate_anthropic_chunk and                          *)
(* _translate_anthropic_message) and a chunk tells it on its way.          *)
THEOREM StreamAgrees == Spec => []StreamAgreesWithResponse
BY Invariance, AgreesHolds, PTL

-----------------------------------------------------------------------------
(* The stream implements Completion, step by step: how the step of one     *)
(* request looks to its client.                                            *)

StutterStep(r) == Spoken(r)' = Spoken(r) /\ Heard(r)' = Heard(r) /\ Ending(r)' = Ending(r)

SayingStep(r) ==
    /\ Ending(r) # "complete"
    /\ \E piece \in 1..MaxItems[r] : Spoken(r)' = Append(Spoken(r), piece)
    /\ Heard(r)' = Heard(r) /\ Ending(r)' = Ending(r)

HearingStep(r) ==
    /\ Ending(r) = "open"
    /\ Len(Heard(r)) < Len(Spoken(r))
    /\ Heard(r)' = Append(Heard(r), Spoken(r)[Len(Heard(r)) + 1])
    /\ Spoken(r)' = Spoken(r) /\ Ending(r)' = Ending(r)

CompletingStep(r) ==
    /\ Ending(r) = "open" /\ Heard(r) = Spoken(r)
    /\ Ending(r)' = "complete"
    /\ Spoken(r)' = Spoken(r) /\ Heard(r)' = Heard(r)

BreakingStep(r) ==
    /\ Ending(r) = "open" /\ Ending(r)' = "broken"
    /\ Spoken(r)' = Spoken(r) /\ Heard(r)' = Heard(r)

ClientStep(r) ==
    \/ StutterStep(r) \/ SayingStep(r) \/ HearingStep(r) \/ CompletingStep(r) \/ BreakingStep(r)

(* Completion's variables are functions of the requests.                   *)
LEMMA ClientStepIsAbstract ==
    ASSUME NEW r \in Requests, ClientStep(r), \A v \in Requests \ {r} : StutterStep(v)
    PROVE  [Client!Next]_<<[v \in Requests |-> Spoken(v)], [v \in Requests |-> Heard(v)],
                           [v \in Requests |-> Ending(v)]>>
<1>. DEFINE spoken == [v \in Requests |-> Spoken(v)]
            heard == [v \in Requests |-> Heard(v)]
            ending == [v \in Requests |-> Ending(v)]
<1>1. /\ Spoken(r)' = Spoken(r) => spoken' = spoken
      /\ Heard(r)' = Heard(r) => heard' = heard
      /\ Ending(r)' = Ending(r) => ending' = ending
      /\ spoken' = [spoken EXCEPT ![r] = Spoken(r)']
      /\ heard' = [heard EXCEPT ![r] = Heard(r)']
      /\ ending' = [ending EXCEPT ![r] = Ending(r)']
      /\ spoken[r] = Spoken(r) /\ heard[r] = Heard(r) /\ ending[r] = Ending(r)
    BY DEF StutterStep
<1>. HIDE DEF spoken, heard, ending
<1>2. CASE StutterStep(r)
    BY <1>1, <1>2 DEF StutterStep, spoken, heard, ending
<1>3. CASE SayingStep(r)
    <2>1. PICK piece \in 1..MaxItems[r] : Spoken(r)' = Append(Spoken(r), piece)
        BY <1>3 DEF SayingStep
    <2>2. piece \in UNION {1..MaxItems[v] : v \in Requests}
        OBVIOUS
    <2>3. spoken' = [spoken EXCEPT ![r] = Append(@, piece)]
        BY <1>1, <2>1
    <2>4. Client!Say(r)
        BY <1>1, <1>3, <2>2, <2>3 DEF SayingStep, Client!Say, spoken, heard, ending
    <2>. QED
        BY <2>4 DEF Client!Next
<1>4. CASE HearingStep(r)
    <2>1. heard' = [heard EXCEPT ![r] = Append(@, spoken[r][Len(@) + 1])]
        BY <1>1, <1>4 DEF HearingStep
    <2>2. Client!Hear(r)
        BY <1>1, <1>4, <2>1 DEF HearingStep, Client!Hear, Client!Open, spoken, heard, ending
    <2>. QED
        BY <2>2 DEF Client!Next
<1>5. CASE CompletingStep(r)
    <2>1. Client!Complete(r)
        BY <1>1, <1>5 DEF CompletingStep, Client!Complete, Client!Open, spoken, heard, ending
    <2>. QED
        BY <2>1 DEF Client!Next
<1>6. CASE BreakingStep(r)
    <2>1. Client!Break(r)
        BY <1>1, <1>6 DEF BreakingStep, Client!Break, Client!Open, spoken, heard, ending
    <2>. QED
        BY <2>1 DEF Client!Next
<1>. QED
    BY <1>2, <1>3, <1>4, <1>5, <1>6 DEF ClientStep

(* How a stream ended is told by [DONE], an error or the client's leaving. *)
LEMMA NotComplete ==
    ASSUME IInv, NEW r \in Requests, pc[r] # "done"
    PROVE  DoneFrame \notin ToSet(frames[r])
BY DEF IInv, DoneOK, ToSet

(* A step that neither the provider nor the client hears of.               *)
LEMMA QuietStep ==
    ASSUME NEW r \in Requests, said'[r] = said[r], frames'[r] = frames[r],
           pc[r] = "failed" => pc'[r] = "failed",
           client[r] = "gone" => client'[r] = "gone"
    PROVE  StutterStep(r) \/ BreakingStep(r)
<1>1. Spoken(r)' = Spoken(r) /\ Heard(r)' = Heard(r)
    BY DEF Spoken, BeforeDone, Heard
<1>2. Ending(r)' = Ending(r) \/ (Ending(r) = "open" /\ Ending(r)' = "broken")
    BY DEF Ending
<1>. QED
    BY <1>1, <1>2 DEF StutterStep, BreakingStep

(* What is said counts, unless it is said after [DONE] or is no piece.     *)
LEMMA SayIsHeardOf ==
    ASSUME IInv, NEW r \in Requests, Say(r)
    PROVE  StutterStep(r) \/ SayingStep(r)
<1>. TypeOK
    BY DEF IInv
<1>1. /\ said[r] \in Seq(Items) /\ Len(said[r]) \in Nat /\ DOMAIN said[r] = 1..Len(said[r])
      /\ MaxItems[r] \in Nat
    BY StreamAssumption, LenProperties DEF TypeOK
<1>2. UNCHANGED <<pc, frames, client>> /\ pc[r] # "done"
    BY DEF Say, IInv, ConnectionsInUse
<1>3. Heard(r)' = Heard(r) /\ Ending(r)' = Ending(r) /\ Ending(r) # "complete"
    BY <1>2, NotComplete DEF Heard, Ending
<1>4. PICK item \in Items :
          /\ said'[r] = Append(said[r], item)
          /\ said'[r] \in Seq(Items) /\ Len(said'[r]) = Len(said[r]) + 1
          /\ Len(said[r]) < MaxItems[r]
          /\ \A i \in 1..Len(said[r]) : said'[r][i] = said[r][i]
          /\ said'[r][Len(said[r]) + 1] = item
          /\ item.type \in {"text", "bad"} => item.value = Len(PiecesIn(said[r])) + 1
    BY SayStep
<1>5. CASE \E k \in 1..Len(said[r]) : FirstDone(said[r], k)
    <2>1. PICK k \in 1..Len(said[r]) : FirstDone(said[r], k)
        BY <1>5
    <2>2. /\ k \in 1..Len(said'[r])
          /\ \A i \in 1..(k - 1) : i \in 1..Len(said[r])
        BY <1>1, <1>4
    <2>3. FirstDone(said'[r], k)
        BY <1>4, <2>1, <2>2 DEF FirstDone
    <2>4. k - 1 \in 0..Len(said[r])
        BY <1>1
    <2>5. SubSeq(Append(said[r], item), 1, k - 1) = SubSeq(said[r], 1, k - 1)
        BY <1>1, <2>4, PrefixOfAppend
    <2>6. UpToDone(said'[r]) = UpToDone(said[r])
        BY <1>1, <1>4, <2>1, <2>3, <2>5, UpToFirst
    <2>. QED
        BY <1>3, <2>6 DEF Spoken, BeforeDone, StutterStep
<1>6. CASE NoneDone(said[r])
    <2>1. UpToDone(said[r]) = said[r]
        BY <1>1, <1>6, UpToNone
    <2>2. \A i \in 1..(Len(said[r]) + 1) : i \in 1..Len(said[r]) \/ i = Len(said[r]) + 1
        BY <1>1
    <2>3. DOMAIN said'[r] = 1..(Len(said[r]) + 1)
        BY <1>4, LenProperties
    <2>4. CASE item.type = "done"
        <3>1. /\ Len(said[r]) + 1 \in 1..Len(said'[r])
              /\ (Len(said[r]) + 1) - 1 = Len(said[r])
            BY <1>1, <1>4
        <3>2. FirstDone(said'[r], Len(said[r]) + 1)
            BY <1>1, <1>4, <1>6, <2>4, <3>1 DEF FirstDone, NoneDone
        <3>3. UpToDone(said'[r]) = SubSeq(said'[r], 1, Len(said[r]))
            BY <1>4, <3>1, <3>2, UpToFirst
        <3>4. SubSeq(said[r], 1, Len(said[r])) = said[r] /\ Len(said[r]) \in 0..Len(said[r])
            BY <1>1, SubSeqFull
        <3>5. SubSeq(Append(said[r], item), 1, Len(said[r])) = said[r]
            BY <1>1, <3>4, PrefixOfAppend
        <3>. QED
            BY <1>3, <1>4, <2>1, <3>3, <3>5 DEF Spoken, BeforeDone, StutterStep
    <2>5. CASE item.type # "done"
        <3>1. NoneDone(said'[r])
            BY <1>1, <1>4, <1>6, <2>2, <2>3, <2>5 DEF NoneDone
        <3>2. UpToDone(said'[r]) = Append(said[r], item)
            BY <1>4, <3>1, UpToNone
        <3>3. Spoken(r)' = PiecesIn(Append(said[r], item)) /\ Spoken(r) = PiecesIn(said[r])
            BY <2>1, <3>2 DEF Spoken, BeforeDone
        <3>4. CASE item.type \in {"text", "bad"}
            <4>1. Len(PiecesIn(said[r])) \in Nat /\ Len(PiecesIn(said[r])) <= Len(said[r])
                BY <1>1, PiecesInType
            <4>2. item.value \in 1..MaxItems[r]
                BY <1>1, <1>4, <3>4, <4>1
            <4>3. Spoken(r)' = Append(Spoken(r), item.value)
                BY <1>1, <3>3, <3>4, PiecesInAppend
            <4>. QED
                BY <1>3, <4>2, <4>3 DEF SayingStep
        <3>5. CASE item.type \notin {"text", "bad"}
            <4>1. Spoken(r)' = Spoken(r)
                BY <1>1, <3>3, <3>5, PiecesInAppend
            <4>. QED
                BY <1>3, <4>1 DEF StutterStep
        <3>. QED
            BY <3>4, <3>5
    <2>. QED
        BY <2>4, <2>5
<1>. QED
    BY <1>1, <1>5, <1>6, FirstOrNone

(* What was read of the pieces is what was spoken, up to some piece.       *)
LEMMA ReadIsSpoken ==
    ASSUME IInv, NEW r \in Requests
    PROVE  \E j \in 0..Len(Spoken(r)) : PiecesIn(ReadSoFar(r)) = SubSeq(Spoken(r), 1, j)
<1>. TypeOK /\ SentinelOK(r)
    BY DEF IInv
<1>1. /\ said[r] \in Seq(Items) /\ pos[r] \in 0..Len(said[r])
      /\ Len(said[r]) \in Nat /\ DOMAIN said[r] = 1..Len(said[r])
    BY LenProperties DEF TypeOK
<1>2. CASE pos[r] > 0 /\ said[r][pos[r]].type = "done"
    <2>1. FirstDone(said[r], pos[r])
        BY <1>1, <1>2 DEF FirstDone, SentinelOK
    <2>2. BeforeDone(r) \in Seq(Items)
        <3>1. BeforeDone(r) = SubSeq(said[r], 1, pos[r] - 1)
            BY <1>1, <2>1, UpToFirst DEF BeforeDone
        <3>2. \A i \in 1..(pos[r] - 1) : said[r][i] \in Items
            BY <1>1, ElementOfSeq
        <3>. QED
            BY <1>1, <3>1, <3>2, SubSeqProperties
    <2>3. Spoken(r) \in Seq(Nat \ {0})
        BY <2>2, PiecesInType DEF Spoken
    <2>4. PiecesIn(ReadSoFar(r)) = Spoken(r)
        BY <1>2, AllIsRead DEF AllRead
    <2>5. SubSeq(Spoken(r), 1, Len(Spoken(r))) = Spoken(r) /\ Len(Spoken(r)) \in 0..Len(Spoken(r))
        BY <2>3, SubSeqFull, LenProperties
    <2>. QED
        BY <2>4, <2>5
<1>3. CASE ~ (pos[r] > 0 /\ said[r][pos[r]].type = "done")
    <2>1. \A i \in 1..pos[r] : i \in 1..(pos[r] - 1) \/ i = pos[r]
        BY <1>1
    <2>2. \A i \in 1..pos[r] : said[r][i].type # "done"
        BY <1>1, <1>3, <2>1 DEF SentinelOK
    <2>3. CASE NoneDone(said[r])
        <3>1. BeforeDone(r) = said[r]
            BY <1>1, <2>3, UpToNone DEF BeforeDone
        <3>. QED
            BY <1>1, <3>1, PiecesInPrefix DEF Spoken, ReadSoFar
    <2>4. ASSUME NEW k \in 1..Len(said[r]), FirstDone(said[r], k)
          PROVE  \E j \in 0..Len(Spoken(r)) : PiecesIn(ReadSoFar(r)) = SubSeq(Spoken(r), 1, j)
        <3>. DEFINE before == SubSeq(said[r], 1, k - 1)
        <3>1. BeforeDone(r) = before
            BY <1>1, <2>4, UpToFirst DEF BeforeDone
        <3>2. pos[r] \in 0..(k - 1)
            BY <1>1, <2>2, <2>4 DEF FirstDone
        <3>3. /\ before \in Seq(Items) /\ Len(before) = k - 1
              /\ \A i \in 1..(k - 1) : before[i] = said[r][i]
            <4>1. \A i \in 1..(k - 1) : said[r][i] \in Items
                BY <1>1, ElementOfSeq
            <4>. QED
                BY <1>1, <4>1, SubSeqProperties
        <3>. HIDE DEF before
        <3>4. /\ ReadSoFar(r) \in Seq(Items) /\ Len(ReadSoFar(r)) = pos[r]
              /\ \A i \in 1..pos[r] : ReadSoFar(r)[i] = said[r][i]
            <4>1. \A i \in 1..pos[r] : said[r][i] \in Items
                BY <1>1, ElementOfSeq
            <4>. QED
                BY <1>1, <4>1, SubSeqProperties DEF ReadSoFar
        <3>5. /\ SubSeq(before, 1, pos[r]) \in Seq(Items) /\ Len(SubSeq(before, 1, pos[r])) = pos[r]
              /\ \A i \in 1..pos[r] : SubSeq(before, 1, pos[r])[i] = before[i]
            <4>1. \A i \in 1..pos[r] : before[i] \in Items
                BY <1>1, <3>2, <3>3, ElementOfSeq
            <4>. QED
                BY <1>1, <4>1, SubSeqProperties
        <3>6. \A i \in 1..pos[r] : i \in 1..(k - 1)
            BY <1>1, <3>2
        <3>7. \A i \in 1..pos[r] : ReadSoFar(r)[i] = SubSeq(before, 1, pos[r])[i]
            BY <3>3, <3>4, <3>5, <3>6
        <3>8. ReadSoFar(r) = SubSeq(before, 1, pos[r])
            BY <3>4, <3>5, <3>7, SeqEqual
        <3>9. pos[r] \in 0..Len(before)
            BY <3>2, <3>3
        <3>10. \E j \in 0..Len(PiecesIn(before)) :
                  PiecesIn(SubSeq(before, 1, pos[r])) = SubSeq(PiecesIn(before), 1, j)
            BY <3>3, <3>9, PiecesInPrefix
        <3>. QED
            BY <3>1, <3>8, <3>10 DEF Spoken
    <2>. QED
        BY <1>1, <2>3, <2>4, FirstOrNone
<1>. QED
    BY <1>2, <1>3

(* What was spoken are pieces.                                             *)
LEMMA SpokenType ==
    ASSUME IInv, NEW r \in Requests
    PROVE  Spoken(r) \in Seq(Nat) /\ Len(Spoken(r)) \in Nat
<1>1. said[r] \in Seq(Items)
    BY DEF IInv, TypeOK
<1>2. BeforeDone(r) \in Seq(Items)
    <2>1. CASE NoneDone(said[r])
        BY <1>1, <2>1, UpToNone DEF BeforeDone
    <2>2. ASSUME NEW k \in 1..Len(said[r]), FirstDone(said[r], k)
          PROVE  BeforeDone(r) \in Seq(Items)
        <3>1. BeforeDone(r) = SubSeq(said[r], 1, k - 1)
            BY <1>1, <2>2, UpToFirst DEF BeforeDone
        <3>2. \A i \in 1..(k - 1) : said[r][i] \in Items
            BY <1>1, ElementOfSeq, LenProperties
        <3>. QED
            BY <3>1, <3>2, SubSeqProperties
    <2>. QED
        BY <1>1, <2>1, <2>2, FirstOrNone
<1>3. Spoken(r) \in Seq(Nat \ {0})
    BY <1>2, PiecesInType DEF Spoken
<1>4. ASSUME NEW A, NEW B, A \subseteq B PROVE Seq(A) \subseteq Seq(B)
    BY <1>4
<1>5. Seq(Nat \ {0}) \subseteq Seq(Nat)
    BY <1>4
<1>. QED
    BY <1>3, <1>5, LenProperties

(* A frame for a client that is there is the next piece it hears, or none. *)
LEMMA WriteIsHeardOf ==
    ASSUME IInv, NEW r \in Requests, Write(r)
    PROVE  StutterStep(r) \/ HearingStep(r)
<1>. TypeOK
    BY DEF IInv
<1>1. UNCHANGED <<said, client>> /\ pc[r] = "write" /\ pc'[r] = "read"
    BY DEF Write, Goto, TypeOK
<1>2. /\ frames[r] \in Seq(Frames) /\ held[r] \in Chunks /\ held[r] \in Frames
      /\ DoneFrame \notin ToSet(frames[r])
    BY <1>1, NotComplete DEF TypeOK, Frames
<1>3. Spoken(r)' = Spoken(r)
    BY <1>1 DEF Spoken, BeforeDone
<1>4. CASE client[r] = "gone"
    <2>1. frames' = frames
        BY <1>4 DEF Write, Send
    <2>. QED
        BY <1>1, <1>3, <1>4, <2>1 DEF StutterStep, Heard, Ending
<1>5. CASE client[r] # "gone"
    <2>1. frames'[r] = Append(frames[r], held[r])
        BY <1>5 DEF Write, Send, TypeOK
    <2>2. held[r] # DoneFrame
        BY <1>2, DoneIsNoChunk
    <2>3. DoneFrame \notin ToSet(frames'[r])
        <3>1. /\ DOMAIN frames[r] = 1..Len(frames[r]) /\ Len(frames[r]) \in Nat
              /\ DOMAIN Append(frames[r], held[r]) = 1..(Len(frames[r]) + 1)
              /\ \A i \in 1..Len(frames[r]) : Append(frames[r], held[r])[i] = frames[r][i]
              /\ Append(frames[r], held[r])[Len(frames[r]) + 1] = held[r]
            BY <1>2, AppendProperties, LenProperties
        <3>2. \A i \in 1..(Len(frames[r]) + 1) : i \in 1..Len(frames[r]) \/ i = Len(frames[r]) + 1
            BY <3>1
        <3>. QED
            BY <1>2, <2>1, <2>2, <3>1, <3>2 DEF ToSet
    <2>4. Ending(r) = "open" /\ Ending(r)' = "open"
        BY <1>1, <1>2, <1>5, <2>3 DEF Ending
    <2>5. Heard(r)' = IF held[r].text # None THEN Append(Heard(r), held[r].text) ELSE Heard(r)
        BY <1>2, <2>1, HeardInAppend DEF Heard
    <2>6. Heard(r)' = PiecesIn(ReadSoFar(r))
        <3>1. Delivered(r) = frames'[r]
            BY <1>1, <2>1 DEF Delivered
        <3>2. Conveys(Delivered(r), ReadSoFar(r))
            BY <1>1, <1>5 DEF IInv, DeliveryOK
        <3>. QED
            BY <3>1, <3>2 DEF Conveys, Heard
    <2>7. CASE held[r].text = None
        BY <1>3, <2>4, <2>5, <2>7 DEF StutterStep
    <2>8. CASE held[r].text # None
        <3>1. PICK j \in 0..Len(Spoken(r)) : Heard(r)' = SubSeq(Spoken(r), 1, j)
            BY <2>6, ReadIsSpoken
        <3>2. Spoken(r) \in Seq(Nat) /\ Len(Spoken(r)) \in Nat
            BY SpokenType
        <3>3. /\ Len(SubSeq(Spoken(r), 1, j)) = j
              /\ \A i \in 1..j : SubSeq(Spoken(r), 1, j)[i] = Spoken(r)[i]
            <4>1. \A i \in 1..j : Spoken(r)[i] \in Nat
                BY <3>2, ElementOfSeq
            <4>. QED
                BY <3>2, <4>1, SubSeqProperties
        <3>4. /\ Heard(r) \in Seq(Nat) /\ Len(Heard(r)) \in Nat
              /\ held[r].text \in Nat
            BY <1>2, <2>8, HeardInType DEF Heard, Chunks
        <3>5. /\ Len(Append(Heard(r), held[r].text)) = Len(Heard(r)) + 1
              /\ Append(Heard(r), held[r].text)[Len(Heard(r)) + 1] = held[r].text
            BY <3>4, AppendProperties
        <3>6. j = Len(Heard(r)) + 1 /\ Spoken(r)[j] = held[r].text
            BY <2>5, <2>8, <3>1, <3>2, <3>3, <3>4, <3>5
        <3>7. Len(Heard(r)) < Len(Spoken(r))
            BY <3>2, <3>4, <3>6
        <3>. QED
            BY <1>3, <2>4, <2>5, <2>8, <3>6, <3>7 DEF HearingStep
    <2>. QED
        BY <2>7, <2>8
<1>. QED
    BY <1>4, <1>5

(* [DONE] for a client that is there tells it that it heard everything.    *)
LEMMA WriteDoneIsHeardOf ==
    ASSUME IInv, NEW r \in Requests, WriteDone(r)
    PROVE  StutterStep(r) \/ CompletingStep(r)
<1>. TypeOK
    BY DEF IInv
<1>1. UNCHANGED <<said, client>> /\ pc[r] = "finish" /\ pc'[r] = "done" /\ AllRead(r)
    BY DEF WriteDone, Goto, TypeOK, IInv, DoneOK
<1>2. frames[r] \in Seq(Frames) /\ DoneFrame \in Frames /\ DoneFrame \notin ToSet(frames[r])
    BY <1>1, NotComplete DEF TypeOK, Frames
<1>3. Spoken(r)' = Spoken(r)
    BY <1>1 DEF Spoken, BeforeDone
<1>4. CASE client[r] = "gone"
    <2>1. frames' = frames
        BY <1>4 DEF WriteDone, Send
    <2>. QED
        BY <1>1, <1>3, <1>4, <2>1 DEF StutterStep, Heard, Ending
<1>5. CASE client[r] # "gone"
    <2>1. frames'[r] = Append(frames[r], DoneFrame)
        BY <1>5 DEF WriteDone, Send, TypeOK
    <2>2. DoneFrame \in ToSet(frames'[r])
        <3>1. /\ DOMAIN Append(frames[r], DoneFrame) = 1..(Len(frames[r]) + 1)
              /\ Len(frames[r]) \in Nat
              /\ Append(frames[r], DoneFrame)[Len(frames[r]) + 1] = DoneFrame
            BY <1>2, AppendProperties, LenProperties
        <3>2. Len(frames[r]) + 1 \in DOMAIN Append(frames[r], DoneFrame)
            BY <3>1
        <3>. QED
            BY <2>1, <3>1, <3>2 DEF ToSet
    <2>3. Ending(r) = "open" /\ Ending(r)' = "complete"
        BY <1>1, <1>2, <1>5, <2>2 DEF Ending
    <2>4. Heard(r)' = Heard(r)
        BY <1>2, <2>1, HeardInAppend, DoneIsNoChunk DEF Heard
    <2>5. Heard(r) = Spoken(r)
        <3>1. Conveys(frames[r], ReadSoFar(r))
            BY <1>1, <1>5 DEF IInv, DeliveryOK, Delivered
        <3>2. PiecesIn(ReadSoFar(r)) = Spoken(r)
            BY <1>1, AllIsRead
        <3>. QED
            BY <3>1, <3>2 DEF Conveys, Heard
    <2>. QED
        BY <1>3, <2>3, <2>4, <2>5 DEF CompletingStep
<1>. QED
    BY <1>4, <1>5

(* Every step of a request is one its client may see, or sees nothing of.  *)
LEMMA ActsIsHeardOf ==
    ASSUME IInv, NEW r \in Requests, Acts(r)
    PROVE  ClientStep(r)
<1>. TypeOK
    BY DEF IInv
<1>. USE DEF ClientStep
<1>1. CASE Begin(r) \/ Connect(r) \/ CheckStatus(r)
    BY <1>1, QuietStep DEF Begin, Connect, CheckStatus
<1>2. CASE ReadSkip(r) \/ ReadEvent(r) \/ ReadDone(r) \/ ReadBad(r) \/ ReadEnd(r) \/ ReadFails(r)
    BY <1>2, QuietStep DEF ReadSkip, ReadEvent, ReadDone, ReadBad, ReadEnd, ReadFails, HasNext
<1>3. CASE Cancel(r) \/ Finalize(r)
    BY <1>3, QuietStep DEF Cancel, Finalize
<1>4. CASE Hangup(r) \/ Stall(r) \/ Disconnect(r)
    <2>1. /\ said' = said /\ frames' = frames /\ pc' = pc
          /\ client[r] = "gone" => client'[r] = "gone"
        BY <1>4 DEF Hangup, Stall, Disconnect, TypeOK
    <2>. QED
        BY <2>1, QuietStep
<1>5. CASE Say(r)
    BY <1>5, SayIsHeardOf
<1>6. CASE Write(r)
    BY <1>6, WriteIsHeardOf
<1>7. CASE WriteDone(r)
    BY <1>7, WriteDoneIsHeardOf
<1>. QED
    BY <1>1, <1>2, <1>3, <1>4, <1>5, <1>6, <1>7 DEF Acts, Step

(* A stream starts as a completion does.                                   *)
LEMMA ClientInit == Init => Client!Init
<1>. SUFFICES ASSUME Init, NEW r \in Requests
              PROVE  Spoken(r) = <<>> /\ Heard(r) = <<>> /\ Ending(r) = "open"
    BY DEF Client!Init
<1>1. DOMAIN <<>> = {}
    BY EmptySeq
<1>2. said[r] = <<>> /\ frames[r] = <<>> /\ pc[r] = "idle" /\ client[r] = "reads"
    BY DEF Init
<1>3. UpToDone(<<>>) = <<>>
    BY <1>1 DEF UpToDone
<1>4. PiecesIn(<<>>) = <<>> /\ HeardIn(<<>>) = <<>>
    BY ColumnEmpty DEF PiecesIn, HeardIn
<1>5. DoneFrame \notin ToSet(<<>>)
    BY <1>1 DEF ToSet
<1>. QED
    BY <1>2, <1>3, <1>4, <1>5 DEF Spoken, BeforeDone, Heard, Ending

(* A step of a stream is a step of its completion, or none.                *)
LEMMA ClientNext ==
    IInv /\ [Next]_vars =>
        [Client!Next]_<<[r \in Requests |-> Spoken(r)], [r \in Requests |-> Heard(r)],
                        [r \in Requests |-> Ending(r)]>>
<1>. SUFFICES ASSUME IInv, [Next]_vars
              PROVE  [Client!Next]_<<[r \in Requests |-> Spoken(r)], [r \in Requests |-> Heard(r)],
                                     [r \in Requests |-> Ending(r)]>>
    OBVIOUS
<1>. TypeOK
    BY DEF IInv
<1>1. ASSUME NEW r \in Requests, Untouched(r) PROVE StutterStep(r)
    BY <1>1 DEF Untouched, StutterStep, Spoken, BeforeDone, Heard, Ending
<1>2. ASSUME NEW r \in Requests, Acts(r)
      PROVE  [Client!Next]_<<[v \in Requests |-> Spoken(v)], [v \in Requests |-> Heard(v)],
                             [v \in Requests |-> Ending(v)]>>
    <2>1. ClientStep(r)
        BY <1>2, ActsIsHeardOf
    <2>2. \A v \in Requests \ {r} : StutterStep(v)
        BY <1>1, <1>2, OthersUntouched
    <2>. QED
        BY <2>1, <2>2, ClientStepIsAbstract
<1>3. CASE AllDone \/ UNCHANGED vars
    <2>1. \A r \in Requests : Spoken(r)' = Spoken(r) /\ Heard(r)' = Heard(r) /\ Ending(r)' = Ending(r)
        BY <1>3 DEF AllDone, vars, Spoken, BeforeDone, Heard, Ending
    <2>. QED
        BY <2>1
<1>. QED
    BY <1>2, <1>3 DEF Next, Acts

(* A client hears what the provider says before [DONE], in order and each  *)
(* piece once, and [DONE] tells it that it heard everything; otherwise the *)
(* stream breaks off (the chain of generators from aiter_sse_deltas to     *)
(* _stream_response).                                                      *)
THEOREM Refinement == Spec => ImplementsCompletion
<1>1. Spec => Client!Init
    BY ClientInit, PTL DEF Spec
<1>2. Spec => [][Next]_vars
    BY PTL DEF Spec
<1>. QED
    BY <1>1, <1>2, Invariance, ClientNext, PTL DEF ImplementsCompletion, Client!Spec

=============================================================================
