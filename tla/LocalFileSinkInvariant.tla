----------------------- MODULE LocalFileSinkInvariant -----------------------
(***************************************************************************)
(* The inductive invariant of LocalFileSink: how far the line of each      *)
(* thread's row has come, in its buffer, in the file and on the disk.      *)
(***************************************************************************)
EXTENDS LocalFileSink

Emitting == {"lock"} \cup Critical

HeadOf(r) == [row |-> r, part |-> "head"]
TailOf(r) == [row |-> r, part |-> "tail"]

NoPieceOf(r) == \A i \in DOMAIN file : file[i].row # r

OnDisk(r) == \E i \in 1..synced : file[i] = TailOf(r)

(* A thread has something in its buffer between open and close.            *)
BufferOK(w) ==
    /\ pc[w] \in {"flush", "close"} <=> left[w] > 0
    /\ failed[w] => pc[w] \in {"close", "release"}
    /\ pc[w] = "close" => failed[w]

(* What was told of a row, where its thread is and whether it is in the    *)
(* file.                                                                   *)
FateOK(w) ==
    \A n \in 1..MaxRows[w] :
        /\ fate[<<w, n>>] = "none" <=> n > count[w]
        /\ fate[<<w, n>>] = "pending" <=> n = count[w] /\ pc[w] \in Emitting
        /\ fate[<<w, n>>] = "none" => NoPieceOf(<<w, n>>)
        /\ fate[<<w, n>>] = "acked" => OnDisk(<<w, n>>)

(* How much of the line a thread is writing is in the file.                *)
LineOK(w) ==
    /\ pc[w] \in Emitting => count[w] > 0
    /\ pc[w] \in {"lock", "open"} => NoPieceOf(RowOf(w))
    /\ pc[w] \in {"flush", "close"} /\ left[w] = 2 => NoPieceOf(RowOf(w))
    /\ pc[w] \in {"flush", "close"} /\ left[w] = 1 =>
          file # <<>> /\ file[Len(file)] = HeadOf(RowOf(w))
    /\ pc[w] = "sync" => file # <<>> /\ file[Len(file)] = TailOf(RowOf(w))
    /\ pc[w] = "release" /\ ~ failed[w] => OnDisk(RowOf(w))

IInv ==
    /\ TypeOK
    /\ OneWriterAtATime
    /\ RowsNeverInterleave
    /\ \A w \in Writers : BufferOK(w) /\ FateOK(w) /\ LineOK(w)

=============================================================================
