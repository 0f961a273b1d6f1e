---------------------- MODULE LocalFileSinkRefinement ----------------------
(***************************************************************************)
(* LocalFileSink implements AuditLog, step by step: the rows with a        *)
(* complete line are the log, and each step of a thread or of the          *)
(* environment is a step of the log or leaves it alone.                    *)
(***************************************************************************)
EXTENDS LocalFileSinkProofs, SelectionProofs

-----------------------------------------------------------------------------
(* The rows a reader finds in a file, and how they follow it.              *)

Tails == [row : Rows, part : {"tail"}]

LEMMA TailsHaveRows == Fits(Piece, Tails, "row", Rows)
BY DEF Fits, Tails

(* A row is in the log when its last piece is in the file, and not before. *)
LEMMA RowsInAppend ==
    ASSUME NEW f \in Seq(Piece), NEW p \in Piece
    PROVE  RowsIn(Append(f, p)) =
               IF p.part = "tail" THEN Append(RowsIn(f), p.row) ELSE RowsIn(f)
<1>1. p \in Tails <=> p.part = "tail"
    BY DEF Piece, Tails
<1>2. Column(Append(f, p), Tails, "row") =
          IF p \in Tails THEN Append(Column(f, Tails, "row"), p["row"]) ELSE Column(f, Tails, "row")
    BY TailsHaveRows, ColumnAppend
<1>. QED
    BY <1>1, <1>2 DEF RowsIn, Tails

(* A row is in the log if and only if its last piece is in the file.       *)
LEMMA RowsInMembers ==
    ASSUME NEW f \in Seq(Piece), NEW r \in Rows
    PROVE  r \in ToSet(RowsIn(f)) <=> \E i \in DOMAIN f : f[i] = TailOf(r)
<1>1. (\E i \in DOMAIN Column(f, Tails, "row") : Column(f, Tails, "row")[i] = r)
          <=> Shows(f, Tails, "row", r)
    BY ColumnMembers
<1>2. \A p : p \in Tails /\ p["row"] = r <=> p = TailOf(r)
    BY DEF Tails, TailOf
<1>3. RowsIn(f) = Column(f, Tails, "row")
    BY DEF RowsIn, Tails
<1>. QED
    BY <1>1, <1>2, <1>3 DEF ToSet, Shows

(* The first pieces of a file hold the first rows of the log.              *)
LEMMA RowsInPrefix ==
    ASSUME NEW f \in Seq(Piece), NEW k \in 0..Len(f)
    PROVE  \E j \in 0..Len(RowsIn(f)) : RowsIn(SubSeq(f, 1, k)) = SubSeq(RowsIn(f), 1, j)
<1>1. \E j \in 0..Len(Column(f, Tails, "row")) :
          Column(SubSeq(f, 1, k), Tails, "row") = SubSeq(Column(f, Tails, "row"), 1, j)
    BY TailsHaveRows, ColumnPrefix
<1>. QED
    BY <1>1 DEF RowsIn, Tails

-----------------------------------------------------------------------------
(* The steps of the log.                                                   *)

(* A row a thread is emitting is pending.                                  *)
LEMMA EmittingIsPending ==
    ASSUME IInv, NEW w \in Writers, pc[w] \in Emitting
    PROVE  RowOf(w) \in Rows /\ fate[RowOf(w)] = "pending"
<1>. TypeOK /\ LineOK(w) /\ FateOK(w)
    BY DEF IInv
<1>1. count[w] > 0 /\ count[w] \in Nat /\ count[w] <= MaxRows[w] /\ MaxRows[w] \in Nat
    BY SinkAssumption DEF LineOK, TypeOK
<1>2. count[w] \in 1..MaxRows[w]
    BY <1>1
<1>. QED
    BY <1>1, <1>2, RowOfEmitting DEF FateOK, RowOf

(* The line of an acknowledged row is complete.                            *)
LEMMA AckedIsComplete ==
    ASSUME IInv, NEW r \in Rows, fate[r] = "acked"
    PROVE  \E i \in 1..synced : file[i] = TailOf(r)
BY InvariantDurable DEF AckedIsDurable, TailOf

(* What flush and close append is nothing new, or the end of a row's line. *)
LEMMA PieceAdds ==
    ASSUME NEW f \in Seq(Piece), NEW r \in Rows, fate[r] = "pending",
           ~ \E i \in DOMAIN f : f[i] = TailOf(r)
    PROVE  /\ RowsIn(Append(f, HeadOf(r))) = RowsIn(f)
           /\ RowsIn(Append(f, TailOf(r))) = Append(RowsIn(f), r)
           /\ r \notin ToSet(RowsIn(f))
<1>1. HeadOf(r) \in Piece /\ TailOf(r) \in Piece
    BY DEF HeadOf, TailOf, Piece
<1>. QED
    BY <1>1, RowsInAppend, RowsInMembers DEF HeadOf, TailOf

(* A write of flush or close adds one row to the log, or nothing.          *)
LEMMA GrowsAdds ==
    ASSUME IInv, NEW w \in Writers, FileGrows(w), UNCHANGED fate
    PROVE  UNCHANGED CompleteRows \/ Log!Add(RowOf(w))
<1>. TypeOK /\ BufferOK(w)
    BY DEF IInv
<1>. DEFINE r == RowOf(w)
<1>1. pc[w] \in {"flush", "close"} /\ left[w] \in 1..2 /\ file \in Seq(Piece)
    BY DEF FileGrows, BufferOK, TypeOK
<1>2. r \in Rows /\ fate[r] = "pending"
    BY <1>1, EmittingIsPending DEF Emitting, Critical
<1>3. ~ \E i \in DOMAIN file : file[i] = TailOf(r)
    BY FreshPieces
<1>4. PICK n \in 0..left[w] : Grows(w, n)
    BY DEF FileGrows
<1>5. /\ file' \in Seq(Piece) /\ Len(file') = Len(file) + n /\ Len(file) \in Nat /\ n \in 0..2
      /\ \A i \in 1..Len(file) : file'[i] = file[i]
      /\ \A j \in 1..n : file'[Len(file) + j] =
                               IF left[w] = 2 /\ j = 1 THEN HeadOf(r) ELSE TailOf(r)
    BY <1>1, <1>4, LenProperties DEF Grows
<1>6. HeadOf(r) \in Piece /\ TailOf(r) \in Piece
    BY <1>2 DEF HeadOf, TailOf, Piece
<1>. HIDE DEF r
<1>7. CASE n = 0
    <2>1. file' = file
        BY <1>1, <1>5, <1>7, SeqEqual
    <2>. QED
        BY <2>1 DEF CompleteRows
<1>8. ASSUME NEW p \in Piece
      PROVE  /\ Append(file, p) \in Seq(Piece) /\ Len(Append(file, p)) = Len(file) + 1
             /\ \A i \in 1..Len(file) : Append(file, p)[i] = file[i]
             /\ Append(file, p)[Len(file) + 1] = p
    BY <1>1, AppendProperties
<1>9. CASE n = 1
    <2>1. file'[Len(file) + 1] \in {HeadOf(r), TailOf(r)}
        BY <1>5, <1>9
    <2>2. ASSUME NEW p \in Piece, file'[Len(file) + 1] = p PROVE file' = Append(file, p)
        <3>1. \A i \in 1..(Len(file) + 1) : i \in 1..Len(file) \/ i = Len(file) + 1
            BY <1>5
        <3>2. \A i \in 1..(Len(file) + 1) : file'[i] = Append(file, p)[i]
            BY <1>5, <1>8, <2>2, <3>1
        <3>. QED
            BY <1>5, <1>8, <1>9, <3>2, SeqEqual
    <2>3. file' = Append(file, HeadOf(r)) \/ file' = Append(file, TailOf(r))
        BY <1>6, <2>1, <2>2
    <2>. QED
        BY <1>1, <1>2, <1>3, <2>3, PieceAdds DEF CompleteRows, r, Log!Add, Log!ToSet, ToSet
<1>10. CASE n = 2
    <2>. DEFINE f == Append(file, HeadOf(r))
                g == Append(f, TailOf(r))
    <2>1. left[w] = 2
        BY <1>1, <1>4, <1>10
    <2>2. /\ f \in Seq(Piece) /\ Len(f) = Len(file) + 1
          /\ \A i \in 1..Len(file) : f[i] = file[i]
          /\ f[Len(file) + 1] = HeadOf(r)
        BY <1>6, <1>8
    <2>3. \A i \in 1..(Len(file) + 1) : i \in 1..Len(file) \/ i = Len(file) + 1
        BY <1>5
    <2>4. HeadOf(r) # TailOf(r)
        BY DEF HeadOf, TailOf
    <2>5. ~ \E i \in DOMAIN f : f[i] = TailOf(r)
        <3>1. DOMAIN f = 1..(Len(file) + 1) /\ DOMAIN file = 1..Len(file)
            BY <1>1, <2>2, LenProperties
        <3>. QED
            BY <1>3, <2>2, <2>3, <2>4, <3>1
    <2>. HIDE DEF f
    <2>6. /\ g \in Seq(Piece) /\ Len(g) = Len(file) + 2
          /\ \A i \in 1..(Len(file) + 1) : g[i] = f[i]
          /\ g[Len(file) + 2] = TailOf(r)
        BY <1>5, <1>6, <2>2, AppendProperties
    <2>7. file' = g
        <3>1. file'[Len(file) + 1] = HeadOf(r) /\ file'[Len(file) + 2] = TailOf(r)
            BY <1>5, <1>10, <2>1
        <3>2. \A i \in 1..(Len(file) + 2) : i \in 1..(Len(file) + 1) \/ i = Len(file) + 2
            BY <1>5
        <3>3. \A i \in 1..(Len(file) + 2) : file'[i] = g[i]
            BY <1>5, <2>2, <2>3, <2>6, <3>1, <3>2
        <3>. QED
            BY <1>5, <1>10, <2>6, <3>3, SeqEqual
    <2>8. RowsIn(f) = RowsIn(file)
        BY <1>1, <1>2, <1>3, PieceAdds DEF f
    <2>9. RowsIn(g) = Append(RowsIn(f), r) /\ r \notin ToSet(RowsIn(f))
        BY <1>2, <2>2, <2>5, PieceAdds
    <2>. QED
        BY <1>2, <2>7, <2>8, <2>9 DEF CompleteRows, r, Log!Add, Log!ToSet, ToSet
<1>. QED
    BY <1>1, <1>4, <1>7, <1>9, <1>10

(* The end of an emit tells what became of the row.                        *)
LEMMA ReleaseTells ==
    ASSUME IInv, NEW w \in Writers, Release(w)
    PROVE  Log!Ack(RowOf(w)) \/ Log!Drop(RowOf(w))
<1>. TypeOK /\ LineOK(w)
    BY DEF IInv
<1>1. pc[w] = "release" /\ UNCHANGED file
      /\ fate' = [fate EXCEPT ![RowOf(w)] = IF failed[w] THEN "dropped" ELSE "acked"]
    BY DEF Release, At
<1>2. RowOf(w) \in Rows /\ fate[RowOf(w)] = "pending"
    BY <1>1, EmittingIsPending DEF Emitting, Critical
<1>3. CASE failed[w]
    BY <1>1, <1>2, <1>3 DEF Log!Drop, Log!Move, CompleteRows
<1>4. CASE ~ failed[w]
    <2>1. file \in Seq(Piece) /\ DOMAIN file = 1..Len(file) /\ synced \in 0..Len(file)
        BY LenProperties DEF TypeOK
    <2>2. PICK i \in 1..synced : file[i] = TailOf(RowOf(w))
        BY <1>1, <1>4 DEF LineOK, OnDisk
    <2>3. RowOf(w) \in ToSet(CompleteRows)
        BY <1>2, <2>1, <2>2, RowsInMembers, LenProperties DEF CompleteRows
    <2>. QED
        BY <1>1, <1>2, <1>4, <2>3 DEF Log!Ack, Log!Move, Log!ToSet, ToSet, CompleteRows
<1>. QED
    BY <1>3, <1>4

(* A crash loses the rows of the dead, and takes back no acknowledged one. *)
LEMMA DieLoses ==
    ASSUME IInv, NEW dead \in SUBSET Writers, Die(dead),
           NEW k \in synced..Len(file), file' = SubSeq(file, 1, k)
    PROVE  Log!Crash
<1>. TypeOK
    BY DEF IInv
<1>. DEFINE lost == {r \in Rows : r[1] \in dead /\ fate[r] = "pending"}
<1>1. /\ file \in Seq(Piece) /\ Len(file) \in Nat /\ synced \in Nat
      /\ k \in 0..Len(file) /\ synced <= k
    BY LenProperties DEF TypeOK
<1>2. /\ lost \in SUBSET {r \in Rows : fate[r] = "pending"}
      /\ fate' = [r \in Rows |-> IF r \in lost THEN "lost" ELSE fate[r]]
    BY DEF Die
<1>3. PICK j \in 0..Len(CompleteRows) : CompleteRows' = SubSeq(CompleteRows, 1, j)
    BY <1>1, RowsInPrefix DEF CompleteRows
<1>4. ASSUME NEW r \in Rows, fate[r] = "acked" PROVE r \in ToSet(CompleteRows')
    <2>1. PICK i \in 1..synced : file[i] = TailOf(r)
        BY <1>4, AckedIsComplete
    <2>2. file' \in Seq(Piece) /\ Len(file') = k /\ \A n \in 1..k : file'[n] = file[n]
        BY LossShrinks
    <2>3. i \in DOMAIN file' /\ file'[i] = TailOf(r)
        BY <1>1, <2>1, <2>2, LenProperties
    <2>. QED
        BY <2>2, <2>3, RowsInMembers DEF CompleteRows
<1>. HIDE DEF lost
<1>. QED
    BY <1>2, <1>3, <1>4 DEF Log!Crash, Log!ToSet, ToSet

(* The file starts empty, and so does the log.                             *)
LEMMA LogInit == Init => Log!Init
BY ColumnEmpty DEF Init, Log!Init, CompleteRows, RowsIn

(* Every step of the sink is one of the log or a stutter.                  *)
LEMMA LogStep == IInv /\ [Next]_vars => [Log!Next]_<<CompleteRows, fate>>
<1>. SUFFICES ASSUME IInv, [Next]_vars PROVE Log!Next \/ UNCHANGED <<CompleteRows, fate>>
    OBVIOUS
<1>. TypeOK
    BY DEF IInv
<1>1. ASSUME NEW w \in Writers, Emit(w) PROVE Log!Next
    <2>. DEFINE r == <<w, count[w] + 1>>
    <2>1. count[w] + 1 \in 1..MaxRows[w] /\ count[w] + 1 > count[w]
        <3>1. count[w] < MaxRows[w]
            BY <1>1 DEF Emit
        <3>2. count[w] \in Nat /\ MaxRows[w] \in Nat
            BY SinkAssumption DEF TypeOK
        <3>. QED
            BY <3>1, <3>2
    <2>2. r \in Rows /\ fate[r] = "none"
        BY <2>1, RowsOf DEF IInv, FateOK
    <2>3. Log!Begin(r)
        BY <1>1, <2>2 DEF Emit, Log!Begin, Log!Move, CompleteRows
    <2>. QED
        BY <2>2, <2>3 DEF Log!Next
<1>2. ASSUME NEW w \in Writers, LockTimeout(w) PROVE Log!Next
    <2>1. RowOf(w) \in Rows /\ fate[RowOf(w)] = "pending"
        BY <1>2, EmittingIsPending DEF LockTimeout, At, Emitting
    <2>2. Log!Drop(RowOf(w))
        BY <1>2, <2>1 DEF LockTimeout, Log!Drop, Log!Move, CompleteRows
    <2>. QED
        BY <2>1, <2>2 DEF Log!Next
<1>3. ASSUME NEW w \in Writers, Flush(w) \/ Close(w)
      PROVE  Log!Next \/ UNCHANGED <<CompleteRows, fate>>
    <2>1. UNCHANGED fate
        BY <1>3 DEF Flush, Close
    <2>2. RowOf(w) \in Rows
        BY <1>3, EmittingIsPending DEF Flush, Close, At, Emitting, Critical
    <2>3. FileGrows(w) \/ UNCHANGED file
        BY <1>3, GrowsOrNot
    <2>4. CASE FileGrows(w)
        BY <2>1, <2>2, <2>4, GrowsAdds DEF Log!Next
    <2>5. CASE UNCHANGED file
        BY <2>1, <2>5 DEF CompleteRows
    <2>. QED
        BY <2>3, <2>4, <2>5
<1>4. ASSUME NEW w \in Writers, Release(w) PROVE Log!Next
    <2>1. RowOf(w) \in Rows
        BY <1>4, EmittingIsPending DEF Release, At, Emitting, Critical
    <2>. QED
        BY <1>4, <2>1, ReleaseTells DEF Log!Next
<1>5. ASSUME NEW p \in Processes, Kill(p) PROVE Log!Next
    <2>1. Die(Threads(p)) /\ UNCHANGED file /\ Threads(p) \in SUBSET Writers
        BY <1>5 DEF Kill, Threads
    <2>2. file \in Seq(Piece) /\ file' = SubSeq(file, 1, Len(file)) /\ Len(file) \in synced..Len(file)
        BY <2>1, SubSeqFull, LenProperties DEF TypeOK
    <2>. QED
        BY <2>1, <2>2, DieLoses DEF Log!Next
<1>6. CASE PowerLoss
    <2>1. Die(Writers) /\ \E k \in synced..Len(file) : file' = SubSeq(file, 1, k)
        BY <1>6 DEF PowerLoss
    <2>. QED
        BY <2>1, DieLoses DEF Log!Next
<1>7. ASSUME NEW w \in Writers, Acquire(w) \/ OpenFile(w) \/ Fsync(w)
      PROVE  UNCHANGED <<CompleteRows, fate>>
    BY <1>7 DEF Acquire, OpenFile, Fsync, CompleteRows
<1>8. ASSUME NEW p \in Processes, Restart(p) \/ Hang(p)
      PROVE  UNCHANGED <<CompleteRows, fate>>
    BY <1>8 DEF Restart, Hang, CompleteRows
<1>9. CASE AllDone \/ UNCHANGED vars
    BY <1>9 DEF AllDone, vars, CompleteRows
<1>. QED
    BY <1>1, <1>2, <1>3, <1>4, <1>5, <1>6, <1>7, <1>8, <1>9 DEF Next, Step

(* The file, its lock and its crashes keep the promise of an audit log.    *)
THEOREM Refinement == Spec => ImplementsAuditLog
<1>1. Spec => Log!Init
    BY LogInit, PTL DEF Spec
<1>2. Spec => [][Next]_vars
    BY PTL DEF Spec
<1>. QED
    BY <1>1, <1>2, Invariance, LogStep, PTL DEF ImplementsAuditLog

=============================================================================
