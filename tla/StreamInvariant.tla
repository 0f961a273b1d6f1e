-------------------------- MODULE StreamInvariant --------------------------
(***************************************************************************)
(* The inductive invariant of Stream: what the client has, with the chunk  *)
(* at the yield, is what was read of the provider's stream, and [DONE] is  *)
(* written when all of it was read.                                        *)
(***************************************************************************)
EXTENDS Stream

ReadSoFar(r) == SubSeq(said[r], 1, pos[r])

(* The frames the client has when generate's yield returns.                *)
Delivered(r) == IF pc[r] = "write" THEN Append(frames[r], held[r]) ELSE frames[r]

(* No request got past [DONE]; message_stop is the last word.              *)
SentinelOK(r) ==
    /\ \A i \in 1..(pos[r] - 1) : said[r][i].type # "done"
    /\ Shape = "anthropic" =>
          \A i \in DOMAIN said[r] : said[r][i].type = "done" => i = Len(said[r])
    /\ pc[r] \in {"idle", "connect", "status", "read", "write"} /\ Shape # "anthropic" =>
          \A i \in 1..pos[r] : said[r][i].type # "done"

(* The end was read: [DONE], or everything on a stream that was closed.    *)
AllRead(r) ==
    \/ line[r] = "closed" /\ pos[r] = Len(said[r])
    \/ pos[r] > 0 /\ said[r][pos[r]].type = "done"

(* [DONE] is only written, as the last frame, to a client that is there.   *)
DoneOK(r) ==
    /\ pc[r] \in {"finish", "done"} => AllRead(r)
    /\ \A i \in DOMAIN frames[r] : frames[r][i] = DoneFrame =>
          i = Len(frames[r]) /\ pc[r] = "done" /\ client[r] # "gone"

Finish(reason) == IF Shape = "anthropic" THEN ChunkFinish(reason) ELSE reason

(* What some frames tell a client is what some items say.                  *)
Conveys(fs, items) ==
    /\ HeardIn(fs) = PiecesIn(items)
    /\ Told(fs) = {Finish(reason) : reason \in Reasons(items)}

(* Everything read was delivered, while the client was there to receive it.*)
DeliveryOK(r) ==
    client[r] # "gone" /\ pc[r] \notin {"failed", "cancelled", "orphan"} =>
        Conveys(Delivered(r), ReadSoFar(r))

IInv ==
    /\ TypeOK
    /\ ConnectionsInUse
    /\ \A r \in Requests : SentinelOK(r) /\ DoneOK(r) /\ DeliveryOK(r)

=============================================================================
