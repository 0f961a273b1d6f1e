------------------------ MODULE LocalFileSinkProofs ------------------------
(***************************************************************************)
(* The safety properties of LocalFileSink, proved for every number of      *)
(* threads, processes, rows and crashes.                                   *)
(***************************************************************************)
EXTENDS LocalFileSinkInvariant, SequenceTheorems, TLAPS

-----------------------------------------------------------------------------
(* Data.                                                                   *)

LEMMA RowsOf ==
    /\ \A w \in Writers : \A n \in 1..MaxRows[w] : <<w, n>> \in Rows
    /\ \A r \in Rows : r[1] \in Writers /\ r[2] \in 1..MaxRows[r[1]] /\ r = <<r[1], r[2]>>
BY DEF Rows

(* The row a thread is emitting.                                           *)
LEMMA RowOfEmitting ==
    ASSUME TypeOK, NEW w \in Writers, count[w] > 0
    PROVE  RowOf(w) \in Rows
BY RowsOf, SinkAssumption DEF RowOf, TypeOK

(* The two pieces of its line, and those that are left in its buffer.      *)
LEMMA LineOfRow ==
    ASSUME TypeOK, NEW w \in Writers, RowOf(w) \in Rows
    PROVE  /\ Pieces(w) \in Seq(Piece) /\ Len(Pieces(w)) = 2
           /\ Pieces(w)[1] = HeadOf(RowOf(w)) /\ Pieces(w)[2] = TailOf(RowOf(w))
<1>1. \A n \in 1..2 : [row |-> RowOf(w), part |-> IF n = 1 THEN "head" ELSE "tail"] \in Piece
    BY DEF Piece
<1>2. Pieces(w) \in Seq(Piece)
    BY <1>1, IsASeq DEF Pieces
<1>3. Len(Pieces(w)) = 2
    BY <1>2, LenProperties DEF Pieces
<1>. QED
    BY <1>2, <1>3 DEF Pieces, HeadOf, TailOf

LEMMA BufferOfRow ==
    ASSUME TypeOK, NEW w \in Writers, RowOf(w) \in Rows, left[w] \in 1..2
    PROVE  /\ Buffer(w) \in Seq(Piece) /\ Len(Buffer(w)) = left[w]
           /\ \A j \in 1..left[w] : Buffer(w)[j] = Pieces(w)[2 - left[w] + j]
<1>. DEFINE first == 3 - left[w]
<1>1. Pieces(w) \in Seq(Piece) /\ Len(Pieces(w)) = 2
    BY LineOfRow
<1>2. first \in Int /\ first \in 1..2 /\ left[w] = 3 - first
    OBVIOUS
<1>3. Buffer(w) = SubSeq(Pieces(w), first, 2)
    BY DEF Buffer
<1>. HIDE DEF first
<1>4. ASSUME NEW i \in first..2 PROVE Pieces(w)[i] \in Piece
    <2>1. i \in 1..Len(Pieces(w))
        BY <1>1, <1>2
    <2>. QED
        BY <1>1, <2>1, ElementOfSeq
<1>5. /\ Buffer(w) \in Seq(Piece)
      /\ Len(Buffer(w)) = IF first <= 2 THEN 2 - first + 1 ELSE 0
      /\ \A j \in 1..(2 - first + 1) : Buffer(w)[j] = Pieces(w)[first + j - 1]
    BY <1>2, <1>3, <1>4, SubSeqProperties
<1>. QED
    BY <1>2, <1>5

-----------------------------------------------------------------------------
(* How the file changes: a thread appends n of the pieces it has left.     *)

Grows(w, n) ==
    /\ n \in 0..left[w]
    /\ file' \in Seq(Piece)
    /\ Len(file') = Len(file) + n
    /\ \A i \in DOMAIN file : file'[i] = file[i]
    /\ \A j \in 1..n :
          file'[Len(file) + j] =
              IF left[w] = 2 /\ j = 1 THEN HeadOf(RowOf(w)) ELSE TailOf(RowOf(w))

LEMMA FlushGrows ==
    ASSUME TypeOK, NEW w \in Writers, RowOf(w) \in Rows, left[w] \in 1..2,
           file' = Append(file, Buffer(w)[1])
    PROVE  Grows(w, 1)
<1>1. /\ Buffer(w)[1] = IF left[w] = 2 THEN HeadOf(RowOf(w)) ELSE TailOf(RowOf(w))
      /\ Buffer(w)[1] \in Piece
    BY BufferOfRow, LineOfRow, ElementOfSeq
<1>2. file \in Seq(Piece)
    BY DEF TypeOK
<1>. QED
    BY <1>1, <1>2, AppendProperties DEF Grows

LEMMA CloseGrows ==
    ASSUME TypeOK, NEW w \in Writers, RowOf(w) \in Rows, left[w] \in 1..2,
           NEW n \in 0..left[w], file' = file \o SubSeq(Buffer(w), 1, n)
    PROVE  Grows(w, n)
<1>. DEFINE rest == SubSeq(Buffer(w), 1, n)
<1>1. file \in Seq(Piece)
    BY DEF TypeOK
<1>2. /\ rest \in Seq(Piece) /\ Len(rest) = n
      /\ \A j \in 1..n : rest[j] = Buffer(w)[j]
    BY BufferOfRow, SubSeqProperties
<1>3. ASSUME NEW j \in 1..n
      PROVE  rest[j] = IF left[w] = 2 /\ j = 1 THEN HeadOf(RowOf(w)) ELSE TailOf(RowOf(w))
    <2>1. Buffer(w)[j] = Pieces(w)[2 - left[w] + j]
        BY BufferOfRow
    <2>. QED
        BY <1>2, <2>1, LineOfRow
<1>. HIDE DEF rest
<1>4. /\ file \o rest \in Seq(Piece)
      /\ Len(file \o rest) = Len(file) + n
      /\ \A i \in 1..Len(file) : (file \o rest)[i] = file[i]
      /\ \A j \in 1..n : (file \o rest)[Len(file) + j] = rest[j]
    BY <1>1, <1>2, ConcatProperties
<1>5. file' = file \o rest
    BY DEF rest
<1>. QED
    BY <1>1, <1>3, <1>4, <1>5, LenProperties DEF Grows

(* A power loss keeps the first k pieces.                                  *)
LEMMA LossShrinks ==
    ASSUME TypeOK, NEW k \in synced..Len(file), file' = SubSeq(file, 1, k)
    PROVE  /\ file' \in Seq(Piece) /\ Len(file') = k
           /\ \A i \in 1..k : file'[i] = file[i]
<1>1. file \in Seq(Piece) /\ k \in Nat /\ k <= Len(file)
    BY DEF TypeOK
<1>2. \A i \in 1..k : file[i] \in Piece
    BY <1>1, ElementOfSeq
<1>. QED
    BY <1>1, <1>2, SubSeqProperties

(* Everything a step may do to the file and to what is synced of it.       *)
FileGrows(w) ==
    /\ Flush(w) \/ Close(w)
    /\ pc[w] \in {"flush", "close"}
    /\ \E n \in 0..left[w] : Grows(w, n)
    /\ UNCHANGED synced

FileSyncs(w) ==
    /\ pc[w] = "sync" /\ pc'[w] = "release"
    /\ UNCHANGED file
    /\ synced' = Len(file) \/ UNCHANGED synced

FileShrinks ==
    /\ \A w \in Writers : pc'[w] = "down"
    /\ \E k \in synced..Len(file) : file' = SubSeq(file, 1, k) /\ synced' = k

(* A failed write appends nothing; any other appends what is left, or less.*)
LEMMA GrowsOrNot ==
    ASSUME IInv, NEW w \in Writers, Flush(w) \/ Close(w)
    PROVE  FileGrows(w) \/ UNCHANGED <<file, synced>>
<1>. TypeOK
    BY DEF IInv
<1>1. pc[w] \in {"flush", "close"} /\ BufferOK(w) /\ LineOK(w)
    BY DEF Flush, Close, At, IInv
<1>2. left[w] \in 1..2 /\ RowOf(w) \in Rows
    BY <1>1, RowOfEmitting DEF BufferOK, LineOK, Emitting, Critical, TypeOK
<1>3. CASE Flush(w)
    BY <1>1, <1>2, <1>3, FlushGrows DEF Flush, FileGrows
<1>4. CASE Close(w)
    BY <1>1, <1>2, <1>4, CloseGrows DEF Close, FileGrows
<1>. QED
    BY <1>3, <1>4

LEMMA FileStep ==
    ASSUME IInv, [Next]_vars
    PROVE  \/ UNCHANGED <<file, synced>>
           \/ \E w \in Writers : FileGrows(w) \/ FileSyncs(w)
           \/ FileShrinks
<1>. TypeOK
    BY DEF IInv
<1>1. ASSUME NEW w \in Writers, Flush(w) \/ Close(w)
      PROVE  FileGrows(w) \/ UNCHANGED <<file, synced>>
    BY <1>1, GrowsOrNot
<1>2. ASSUME NEW w \in Writers, Fsync(w) PROVE FileSyncs(w)
    BY <1>2 DEF Fsync, FileSyncs, At, Goto, TypeOK
<1>3. CASE PowerLoss
    BY <1>3 DEF PowerLoss, Die, FileShrinks
<1>4. ASSUME NEW w \in Writers,
             Emit(w) \/ Acquire(w) \/ LockTimeout(w) \/ OpenFile(w) \/ Release(w)
      PROVE  UNCHANGED <<file, synced>>
    BY <1>4 DEF Emit, Acquire, LockTimeout, OpenFile, Release
<1>5. ASSUME NEW p \in Processes, Kill(p) \/ Restart(p) \/ Hang(p)
      PROVE  UNCHANGED <<file, synced>>
    BY <1>5 DEF Kill, Restart, Hang
<1>6. CASE AllDone \/ UNCHANGED vars
    BY <1>6 DEF AllDone, vars
<1>. QED
    BY <1>1, <1>2, <1>3, <1>4, <1>5, <1>6 DEF Next, Step

(* What is on the disk stays there.                                        *)
LEMMA DiskStep ==
    ASSUME IInv, [Next]_vars
    PROVE  /\ file' \in Seq(Piece) /\ synced' \in synced..Len(file')
           /\ \A i \in 1..synced : file'[i] = file[i]
           /\ \A r : OnDisk(r) => OnDisk(r)'
<1>. TypeOK
    BY DEF IInv
<1>1. file \in Seq(Piece) /\ synced \in 0..Len(file) /\ Len(file) \in Nat
    BY DEF TypeOK
<1>. DEFINE Kept == /\ file' \in Seq(Piece) /\ synced' \in synced..Len(file')
                    /\ \A i \in 1..synced : file'[i] = file[i]
<1>2. Kept
    <2>1. CASE UNCHANGED <<file, synced>>
        BY <1>1, <2>1
    <2>2. ASSUME NEW w \in Writers, FileGrows(w)
          PROVE  Kept
        BY <1>1, <2>2 DEF FileGrows, Grows, TypeOK
    <2>3. ASSUME NEW w \in Writers, FileSyncs(w)
          PROVE  Kept
        BY <1>1, <2>3 DEF FileSyncs
    <2>4. CASE FileShrinks
        BY <1>1, <2>4, LossShrinks DEF FileShrinks
    <2>. QED
        BY <2>1, <2>2, <2>3, <2>4, FileStep
<1>3. ASSUME NEW r, OnDisk(r) PROVE OnDisk(r)'
    BY <1>1, <1>2, <1>3 DEF OnDisk, TailOf
<1>. QED
    BY <1>2, <1>3

-----------------------------------------------------------------------------
(* The invariant, clause by clause.                                        *)

(* What a thread appends is not in the file yet.                           *)
LEMMA FreshPieces ==
    ASSUME IInv, NEW w \in Writers, FileGrows(w), NEW i \in DOMAIN file
    PROVE  /\ left[w] = 2 => file[i].row # RowOf(w)
           /\ file[i] # TailOf(RowOf(w))
<1>. TypeOK /\ RowsNeverInterleave /\ BufferOK(w) /\ LineOK(w)
    BY DEF IInv
<1>1. pc[w] \in {"flush", "close"} /\ left[w] \in 1..2
    BY DEF FileGrows, BufferOK, TypeOK
<1>2. CASE left[w] = 2
    <2>1. file[i].row # RowOf(w)
        BY <1>1, <1>2 DEF LineOK, NoPieceOf
    <2>. QED
        BY <2>1 DEF TailOf
<1>3. CASE left[w] = 1
    <2>1. file \in Seq(Piece) /\ file # <<>> /\ file[Len(file)] = HeadOf(RowOf(w))
        BY <1>1, <1>3 DEF LineOK, TypeOK
    <2>2. Len(file) \in DOMAIN file /\ DOMAIN file = 1..Len(file)
        BY <2>1, LenProperties, EmptySeq
    <2>3. ASSUME file[i] = TailOf(RowOf(w)) PROVE FALSE
        <3>1. i > 1 /\ file[i - 1] = HeadOf(RowOf(w))
            BY <2>3 DEF RowsNeverInterleave, TailOf, HeadOf
        <3>2. i - 1 \in DOMAIN file
            BY <2>2, <3>1
        <3>3. i - 1 = Len(file)
            BY <2>1, <2>2, <3>1, <3>2 DEF RowsNeverInterleave
        <3>. QED
            BY <2>1, <2>2, <3>3, LenProperties
    <2>. QED
        BY <1>3, <2>3
<1>. QED
    BY <1>1, <1>2, <1>3

LEMMA InterleaveStep ==
    ASSUME IInv, [Next]_vars
    PROVE  RowsNeverInterleave'
<1>. TypeOK /\ RowsNeverInterleave
    BY DEF IInv
<1>1. file \in Seq(Piece) /\ Len(file) \in Nat /\ DOMAIN file = 1..Len(file)
    BY LenProperties DEF TypeOK
<1>2. CASE UNCHANGED <<file, synced>>
    BY <1>2 DEF RowsNeverInterleave
<1>3. ASSUME NEW w \in Writers, FileGrows(w), NEW n \in 0..left[w], Grows(w, n)
      PROVE  RowsNeverInterleave'
    <2>1. left[w] \in 1..2 /\ pc[w] \in {"flush", "close"} /\ LineOK(w)
        BY <1>3 DEF FileGrows, IInv, BufferOK, TypeOK
    <2>2. DOMAIN file' = 1..(Len(file) + n)
        BY <1>3, LenProperties DEF Grows
    <2>3. \A i \in 1..Len(file) : file'[i] = file[i]
        BY <1>1, <1>3 DEF Grows
    <2>4. HeadOf(RowOf(w)) # TailOf(RowOf(w)) /\ HeadOf(RowOf(w)).part # "tail"
        BY DEF HeadOf, TailOf
    <2>5. n >= 1 => file'[Len(file) + 1] = IF left[w] = 2 THEN HeadOf(RowOf(w))
                                                          ELSE TailOf(RowOf(w))
        BY <1>3, <2>1 DEF Grows
    <2>6. n = 2 => left[w] = 2 /\ file'[Len(file) + 2] = TailOf(RowOf(w))
        BY <1>3, <2>1 DEF Grows
    <2>7. \A i \in 1..Len(file) :
             /\ left[w] = 2 => file[i] # HeadOf(RowOf(w))
             /\ file[i] # TailOf(RowOf(w))
        BY <1>1, <1>3, FreshPieces DEF HeadOf
    <2>8. n \in 0..2
        BY <1>3, <2>1
    <2>9. \A i, j \in DOMAIN file' : file'[i] = file'[j] => i = j
        <3>1. \A i, j \in 1..Len(file) : file'[i] = file'[j] => i = j
            BY <1>1, <2>3 DEF RowsNeverInterleave
        <3>2. n >= 1 => \A i \in 1..Len(file) : file'[i] # file'[Len(file) + 1]
            BY <2>3, <2>5, <2>7
        <3>3. n = 2 => /\ \A i \in 1..Len(file) : file'[i] # file'[Len(file) + 2]
                       /\ file'[Len(file) + 1] # file'[Len(file) + 2]
            BY <2>3, <2>4, <2>5, <2>6, <2>7
        <3>4. \A i \in DOMAIN file' :
                 i \in 1..Len(file) \/ (n >= 1 /\ i = Len(file) + 1) \/ (n = 2 /\ i = Len(file) + 2)
            BY <1>1, <2>2, <2>8
        <3>. QED
            BY <3>1, <3>2, <3>3, <3>4
    <2>10. ASSUME NEW i \in DOMAIN file', file'[i].part = "tail"
           PROVE  i > 1 /\ file'[i - 1] = [row |-> file'[i].row, part |-> "head"]
        <3>1. CASE i \in 1..Len(file)
            <4>1. file[i].part = "tail" /\ file'[i] = file[i]
                BY <2>3, <2>10, <3>1
            <4>2. i > 1 /\ file[i - 1] = [row |-> file[i].row, part |-> "head"]
                BY <1>1, <3>1, <4>1 DEF RowsNeverInterleave
            <4>3. file'[i - 1] = file[i - 1]
                BY <2>3, <3>1, <4>2
            <4>. QED
                BY <4>1, <4>2, <4>3
        <3>2. CASE n >= 1 /\ i = Len(file) + 1
            <4>1. left[w] = 1
                BY <2>1, <2>4, <2>5, <2>10, <3>2
            <4>2. file # <<>> /\ file[Len(file)] = HeadOf(RowOf(w))
                BY <2>1, <4>1 DEF LineOK
            <4>3. Len(file) > 0
                BY <1>1, <4>2, EmptySeq
            <4>4. file'[i - 1] = HeadOf(RowOf(w)) /\ i > 1
                BY <1>1, <2>3, <3>2, <4>2, <4>3
            <4>5. file'[i] = TailOf(RowOf(w))
                BY <2>5, <3>2, <4>1
            <4>. QED
                BY <4>4, <4>5 DEF HeadOf, TailOf
        <3>3. CASE n = 2 /\ i = Len(file) + 2
            <4>1. file'[i - 1] = HeadOf(RowOf(w)) /\ i > 1
                BY <1>1, <2>5, <2>6, <3>3
            <4>2. file'[i] = TailOf(RowOf(w))
                BY <2>6, <3>3
            <4>. QED
                BY <4>1, <4>2 DEF HeadOf, TailOf
        <3>. QED
            BY <1>1, <2>2, <2>8, <3>1, <3>2, <3>3
    <2>. QED
        BY <2>9, <2>10 DEF RowsNeverInterleave
<1>4. ASSUME NEW w \in Writers, FileSyncs(w) PROVE RowsNeverInterleave'
    BY <1>4 DEF FileSyncs, RowsNeverInterleave
<1>5. CASE FileShrinks
    <2>1. PICK k \in synced..Len(file) : file' = SubSeq(file, 1, k)
        BY <1>5 DEF FileShrinks
    <2>2. /\ k \in Nat /\ k <= Len(file) /\ DOMAIN file' = 1..k
          /\ \A i \in 1..k : file'[i] = file[i]
        BY <1>1, <2>1, LossShrinks, LenProperties DEF TypeOK
    <2>. QED
        BY <1>1, <2>2 DEF RowsNeverInterleave
<1>. QED
    BY <1>2, <1>3, <1>4, <1>5, FileStep DEF FileGrows

LEMMA TypeInit == Init => TypeOK
BY SinkAssumption, EmptySeq DEF Init, TypeOK, Labels, Log!Fates

LEMMA DieType ==
    ASSUME TypeOK, NEW dead \in SUBSET Writers, Die(dead)
    PROVE  /\ pc' \in [Writers -> Labels] /\ left' \in [Writers -> 0..2]
           /\ failed' \in [Writers -> BOOLEAN] /\ fate' \in [Rows -> Log!Fates]
           /\ lock' \in Writers \cup {None} /\ crashes' \in 0..MaxCrashes
           /\ count' = count
<1>1. pc' \in [Writers -> Labels]
    BY DEF Die, TypeOK, Labels
<1>2. /\ left' \in [Writers -> 0..2]
      /\ failed' \in [Writers -> BOOLEAN]
    <2>1. left' = [w \in Writers |-> IF w \in dead THEN 0 ELSE left[w]]
        BY DEF Die
    <2>2. failed' = [w \in Writers |-> IF w \in dead THEN FALSE ELSE failed[w]]
        BY DEF Die
    <2>3. left \in [Writers -> 0..2] /\ failed \in [Writers -> BOOLEAN]
        BY DEF TypeOK
    <2>4. left' \in [Writers -> 0..2]
        BY <2>1, <2>3
    <2>5. failed' \in [Writers -> BOOLEAN]
        BY <2>2, <2>3, Zenon
    <2>. QED
        BY <2>4, <2>5
<1>3. fate' \in [Rows -> Log!Fates]
    BY DEF Die, TypeOK, Log!Fates
<1>4. lock' \in Writers \cup {None} /\ crashes' \in 0..MaxCrashes
    BY SinkAssumption DEF Die, TypeOK
<1>. QED
    BY <1>1, <1>2, <1>3, <1>4 DEF Die

(* What TypeOK says of the variables other than the file.                  *)
OtherTypes ==
    /\ lock \in Writers \cup {None}
    /\ pc \in [Writers -> Labels]
    /\ count \in [Writers -> Nat] /\ \A w \in Writers : count[w] <= MaxRows[w]
    /\ left \in [Writers -> 0..2]
    /\ failed \in [Writers -> BOOLEAN]
    /\ fate \in [Rows -> Log!Fates]
    /\ hung \subseteq Processes
    /\ crashes \in 0..MaxCrashes

LEMMA TypeStep == IInv /\ [Next]_vars => TypeOK'
<1>. SUFFICES ASSUME IInv, [Next]_vars PROVE TypeOK'
    OBVIOUS
<1>. TypeOK
    BY DEF IInv
<1>1. file' \in Seq(Piece) /\ synced' \in 0..Len(file')
    BY DiskStep DEF TypeOK
<1>2. ASSUME NEW w \in Writers, Emit(w) PROVE OtherTypes'
    <2>1. /\ count \in [Writers -> Nat] /\ count' = [count EXCEPT ![w] = @ + 1]
          /\ count[w] < MaxRows[w] /\ \A v \in Writers : count[v] <= MaxRows[v] /\ MaxRows[v] \in Nat
        BY <1>2, SinkAssumption DEF Emit, TypeOK
    <2>2. count' \in [Writers -> Nat]
        BY <2>1
    <2>3. \A v \in Writers : count'[v] <= MaxRows[v]
        BY <2>1
    <2>4. fate' \in [Rows -> Log!Fates]
        BY <1>2 DEF Emit, TypeOK, Log!Fates
    <2>5. pc' \in [Writers -> Labels]
        BY <1>2 DEF Emit, Goto, TypeOK, Labels
    <2>. QED
        BY <1>2, <2>2, <2>3, <2>4, <2>5 DEF Emit, TypeOK, OtherTypes
<1>3. ASSUME NEW w \in Writers, Acquire(w) PROVE OtherTypes'
    BY <1>3 DEF Acquire, Goto, TypeOK, Labels, OtherTypes
<1>4. ASSUME NEW w \in Writers, LockTimeout(w) PROVE OtherTypes'
    BY <1>4 DEF LockTimeout, Goto, TypeOK, Labels, Log!Fates, OtherTypes
<1>5. ASSUME NEW w \in Writers, OpenFile(w) PROVE OtherTypes'
    <2>1. pc' \in [Writers -> Labels]
        BY <1>5 DEF OpenFile, Goto, TypeOK, Labels
    <2>2. left' \in [Writers -> 0..2]
        BY <1>5 DEF OpenFile, TypeOK
    <2>3. failed' \in [Writers -> BOOLEAN]
        BY <1>5 DEF OpenFile, TypeOK
    <2>. QED
        BY <1>5, <2>1, <2>2, <2>3 DEF OpenFile, TypeOK, OtherTypes
<1>6. ASSUME NEW w \in Writers, Flush(w) PROVE OtherTypes'
    <2>1. left[w] \in 1..2
        BY <1>6 DEF Flush, At, IInv, BufferOK, TypeOK
    <2>2. left' \in [Writers -> 0..2]
        <3>1. left \in [Writers -> 0..2] /\ left[w] - 1 \in 0..2
            BY <2>1 DEF TypeOK
        <3>2. left' = left \/ left' = [left EXCEPT ![w] = left[w] - 1]
            BY <1>6 DEF Flush
        <3>. QED
            BY <3>1, <3>2
    <2>3. failed' \in [Writers -> BOOLEAN]
        BY <1>6 DEF Flush, TypeOK
    <2>4. pc' \in [Writers -> Labels]
        BY <1>6 DEF Flush, Goto, TypeOK, Labels
    <2>. QED
        BY <1>6, <2>2, <2>3, <2>4 DEF Flush, TypeOK, OtherTypes
<1>7. ASSUME NEW w \in Writers, Close(w) PROVE OtherTypes'
    BY <1>7 DEF Close, Goto, TypeOK, Labels, OtherTypes
<1>8. ASSUME NEW w \in Writers, Fsync(w) PROVE OtherTypes'
    BY <1>8 DEF Fsync, Goto, TypeOK, Labels, OtherTypes
<1>9. ASSUME NEW w \in Writers, Release(w) PROVE OtherTypes'
    BY <1>9 DEF Release, Goto, TypeOK, Labels, Log!Fates, OtherTypes
<1>10. ASSUME NEW p \in Processes, Kill(p) PROVE OtherTypes'
    BY <1>10, DieType DEF Kill, Threads, TypeOK, OtherTypes
<1>11. ASSUME PowerLoss PROVE OtherTypes'
    BY <1>11, DieType DEF PowerLoss, TypeOK, OtherTypes
<1>12. ASSUME NEW p \in Processes, Restart(p) PROVE OtherTypes'
    BY <1>12 DEF Restart, TypeOK, Labels, OtherTypes
<1>13. ASSUME NEW p \in Processes, Hang(p) PROVE OtherTypes'
    BY <1>13 DEF Hang, TypeOK, OtherTypes
<1>14. ASSUME AllDone \/ UNCHANGED vars PROVE OtherTypes'
    BY <1>14 DEF AllDone, vars, TypeOK, OtherTypes
<1>15. ASSUME NEW w \in Writers, Emit(w) \/ Step(w) PROVE OtherTypes'
    BY <1>2, <1>3, <1>4, <1>5, <1>6, <1>7, <1>8, <1>9, <1>15 DEF Step
<1>16. ASSUME NEW p \in Processes, Kill(p) \/ Restart(p) \/ Hang(p) PROVE OtherTypes'
    BY <1>10, <1>12, <1>13, <1>16
<1>17. ASSUME Next PROVE OtherTypes'
    BY <1>11, <1>14, <1>15, <1>16, <1>17 DEF Next
<1>18. OtherTypes'
    BY <1>14, <1>17
<1>. QED
    BY <1>1, <1>18 DEF TypeOK, OtherTypes

(* A thread enters the with block when it takes the lock and leaves it     *)
(* when it gives the lock back or dies.                                    *)
LEMMA WriterStep == IInv /\ [Next]_vars => OneWriterAtATime'
<1>. SUFFICES ASSUME IInv, [Next]_vars PROVE OneWriterAtATime'
    OBVIOUS
<1>. TypeOK /\ OneWriterAtATime
    BY DEF IInv
<1>. USE DEF OneWriterAtATime, Critical, TypeOK, Goto, At
<1>1. ASSUME NEW w \in Writers, Acquire(w) PROVE OneWriterAtATime'
    BY <1>1, SinkAssumption DEF Acquire
<1>2. ASSUME NEW w \in Writers, Release(w) PROVE OneWriterAtATime'
    BY <1>2, SinkAssumption DEF Release
<1>3. ASSUME NEW w \in Writers, Emit(w) \/ LockTimeout(w) PROVE OneWriterAtATime'
    BY <1>3 DEF Emit, LockTimeout
<1>4. ASSUME NEW w \in Writers, OpenFile(w) \/ Flush(w) PROVE OneWriterAtATime'
    BY <1>4 DEF OpenFile, Flush
<1>5. ASSUME NEW w \in Writers, Close(w) \/ Fsync(w) PROVE OneWriterAtATime'
    BY <1>5 DEF Close, Fsync
<1>6. ASSUME NEW dead \in SUBSET Writers, Die(dead) PROVE OneWriterAtATime'
    BY <1>6, SinkAssumption DEF Die
<1>7. ASSUME NEW p \in Processes, Restart(p) \/ Hang(p) PROVE OneWriterAtATime'
    BY <1>7 DEF Restart, Hang, Threads
<1>8. CASE AllDone \/ UNCHANGED vars
    BY <1>8 DEF AllDone, vars
<1>. QED
    BY <1>1, <1>2, <1>3, <1>4, <1>5, <1>6, <1>7, <1>8
       DEF Next, Step, Kill, PowerLoss, Threads

-----------------------------------------------------------------------------
(* One thread's view of a step: it acts, it is killed, its process is      *)
(* restarted, or nothing of it changes.                                    *)

Acts(v) == Emit(v) \/ Step(v)

Untouched(v) ==
    /\ pc'[v] = pc[v] /\ count'[v] = count[v] /\ left'[v] = left[v] /\ failed'[v] = failed[v]
    /\ \A n \in 1..MaxRows[v] : fate'[<<v, n>>] = fate[<<v, n>>]

Killed(v) ==
    /\ pc'[v] = "down" /\ count'[v] = count[v] /\ left'[v] = 0 /\ ~ failed'[v]
    /\ \A n \in 1..MaxRows[v] :
          fate'[<<v, n>>] = IF fate[<<v, n>>] = "pending" THEN "lost" ELSE fate[<<v, n>>]

Restarted(v) ==
    /\ pc[v] = "down" /\ pc'[v] = "idle"
    /\ count'[v] = count[v] /\ left'[v] = left[v] /\ failed'[v] = failed[v]
    /\ \A n \in 1..MaxRows[v] : fate'[<<v, n>>] = fate[<<v, n>>]

LEMMA OthersUntouched ==
    ASSUME TypeOK, NEW w \in Writers, Acts(w), NEW v \in Writers, v # w
    PROVE  Untouched(v)
<1>1. \A n \in 1..MaxRows[v] : <<v, n>> \in Rows /\ <<v, n>> # RowOf(w) /\ <<v, n>> # <<w, count[w] + 1>>
    BY RowsOf DEF RowOf
<1>. USE <1>1 DEF Untouched, TypeOK, Goto
<1>2. CASE Emit(w)
    BY <1>2 DEF Emit
<1>3. CASE Acquire(w)
    BY <1>3 DEF Acquire
<1>4. CASE LockTimeout(w)
    BY <1>4 DEF LockTimeout
<1>5. CASE OpenFile(w)
    BY <1>5 DEF OpenFile
<1>6. CASE Flush(w)
    BY <1>6 DEF Flush
<1>7. CASE Close(w)
    BY <1>7 DEF Close
<1>8. CASE Fsync(w)
    BY <1>8 DEF Fsync
<1>9. CASE Release(w)
    BY <1>9 DEF Release
<1>. QED
    BY <1>2, <1>3, <1>4, <1>5, <1>6, <1>7, <1>8, <1>9 DEF Acts, Step

LEMMA DieThread ==
    ASSUME TypeOK, NEW dead \in SUBSET Writers, Die(dead), NEW v \in Writers
    PROVE  IF v \in dead THEN Killed(v) ELSE Untouched(v)
<1>1. \A n \in 1..MaxRows[v] : <<v, n>> \in Rows /\ <<v, n>>[1] = v
    BY RowsOf
<1>2. CASE v \in dead
    BY <1>1, <1>2 DEF Die, Killed, TypeOK
<1>3. CASE v \notin dead
    BY <1>1, <1>3 DEF Die, Untouched, TypeOK
<1>. QED
    BY <1>2, <1>3

LEMMA ThreadStep ==
    ASSUME IInv, [Next]_vars, NEW v \in Writers, ~ Acts(v)
    PROVE  Untouched(v) \/ Killed(v) \/ Restarted(v)
<1>. TypeOK
    BY DEF IInv
<1>1. ASSUME NEW w \in Writers, Acts(w) PROVE Untouched(v)
    BY <1>1, OthersUntouched
<1>2. ASSUME NEW p \in Processes, Kill(p) PROVE Untouched(v) \/ Killed(v)
    BY <1>2, DieThread DEF Kill, Threads
<1>3. ASSUME PowerLoss PROVE Killed(v)
    BY <1>3, DieThread DEF PowerLoss
<1>4. ASSUME NEW p \in Processes, Restart(p) PROVE Untouched(v) \/ Restarted(v)
    BY <1>4 DEF Restart, Threads, Untouched, Restarted, TypeOK
<1>5. ASSUME NEW p \in Processes, Hang(p) PROVE Untouched(v)
    BY <1>5 DEF Hang, Untouched
<1>6. ASSUME AllDone \/ UNCHANGED vars PROVE Untouched(v)
    BY <1>6 DEF AllDone, vars, Untouched
<1>. QED
    BY <1>1, <1>2, <1>3, <1>4, <1>5, <1>6 DEF Next, Acts

(* The pieces of a row are written by its thread only.                     *)
LEMMA NoPieceStep ==
    ASSUME IInv, [Next]_vars, NEW r \in Rows, NoPieceOf(r),
           \A w \in Writers : FileGrows(w) => r # RowOf(w)
    PROVE  NoPieceOf(r)'
<1>. TypeOK
    BY DEF IInv
<1>1. file \in Seq(Piece) /\ Len(file) \in Nat /\ DOMAIN file = 1..Len(file)
    BY LenProperties DEF TypeOK
<1>2. CASE UNCHANGED <<file, synced>>
    BY <1>2 DEF NoPieceOf
<1>3. ASSUME NEW w \in Writers, FileGrows(w) PROVE NoPieceOf(r)'
    <2>1. PICK n \in 0..left[w] : Grows(w, n)
        BY <1>3 DEF FileGrows
    <2>2. n \in Nat /\ DOMAIN file' = 1..(Len(file) + n) /\ \A i \in 1..Len(file) : file'[i] = file[i]
        BY <1>1, <2>1, LenProperties DEF Grows, TypeOK
    <2>3. \A j \in 1..n : file'[Len(file) + j].row = RowOf(w)
        BY <2>1 DEF Grows, HeadOf, TailOf
    <2>4. \A i \in 1..(Len(file) + n) : i \in 1..Len(file) \/ (i - Len(file) \in 1..n /\ i = Len(file) + (i - Len(file)))
        BY <1>1, <2>2
    <2>5. r # RowOf(w)
        BY <1>3
    <2>6. \A i \in 1..Len(file) : file'[i].row # r
        BY <1>1, <2>2 DEF NoPieceOf
    <2>7. ASSUME NEW i \in 1..(Len(file) + n) PROVE file'[i].row # r
        BY <2>3, <2>4, <2>5, <2>6
    <2>. QED
        BY <2>2, <2>7 DEF NoPieceOf
<1>4. ASSUME NEW w \in Writers, FileSyncs(w) PROVE NoPieceOf(r)'
    BY <1>4 DEF FileSyncs, NoPieceOf
<1>5. CASE FileShrinks
    <2>1. PICK k \in synced..Len(file) : file' = SubSeq(file, 1, k)
        BY <1>5 DEF FileShrinks
    <2>2. /\ k \in Nat /\ k <= Len(file) /\ DOMAIN file' = 1..k
          /\ \A i \in 1..k : file'[i] = file[i]
        BY <1>1, <2>1, LossShrinks, LenProperties DEF TypeOK
    <2>. QED
        BY <1>1, <2>2 DEF NoPieceOf
<1>. QED
    BY <1>2, <1>3, <1>4, <1>5, FileStep

(* Only the thread that holds the lock changes the end of the file.        *)
LEMMA EndOfFile ==
    ASSUME IInv, [Next]_vars, NEW v \in Writers, pc[v] \in Critical, ~ FileGrows(v)
    PROVE  file' = file \/ pc'[v] = "down"
<1>1. ASSUME NEW w \in Writers, FileGrows(w) PROVE w = v
    BY <1>1 DEF FileGrows, IInv, OneWriterAtATime, Critical
<1>. QED
    BY <1>1, FileStep DEF FileSyncs, FileShrinks

(* What a step of a thread does to its own place, row and buffer.          *)
LEMMA BufferStep ==
    ASSUME IInv, [Next]_vars, NEW v \in Writers
    PROVE  BufferOK(v)'
<1>. TypeOK /\ BufferOK(v)
    BY DEF IInv
<1>1. CASE ~ Acts(v)
    BY <1>1, ThreadStep DEF Untouched, Killed, Restarted, BufferOK, TypeOK
<1>. USE DEF BufferOK, TypeOK, Goto, At
<1>2. CASE Emit(v)
    BY <1>2 DEF Emit
<1>3. CASE Acquire(v)
    BY <1>3 DEF Acquire
<1>4. CASE LockTimeout(v)
    BY <1>4 DEF LockTimeout
<1>5. CASE OpenFile(v)
    BY <1>5 DEF OpenFile
<1>6. CASE Flush(v)
    <2>1. pc[v] = "flush" /\ left[v] \in 1..2 /\ ~ failed[v]
        BY <1>6 DEF Flush
    <2>2. CASE UNCHANGED failed /\ left' = [left EXCEPT ![v] = @ - 1]
                 /\ Goto(v, IF left[v] = 1 THEN "sync" ELSE "flush")
        BY <2>1, <2>2
    <2>3. CASE failed' = [failed EXCEPT ![v] = TRUE] /\ UNCHANGED left /\ Goto(v, "close")
        BY <2>1, <2>3
    <2>. QED
        BY <1>6, <2>2, <2>3 DEF Flush
<1>7. CASE Close(v)
    BY <1>7 DEF Close
<1>8. CASE Fsync(v)
    BY <1>8 DEF Fsync
<1>9. CASE Release(v)
    BY <1>9 DEF Release
<1>. QED
    BY <1>1, <1>2, <1>3, <1>4, <1>5, <1>6, <1>7, <1>8, <1>9 DEF Acts, Step

(* How the fate of a row changes: it becomes pending when its emit starts, *)
(* and acknowledged only at the end of an emit that did not fail.          *)
FateMoves(v, n) ==
    /\ fate'[<<v, n>>] = "none" <=> n > count'[v]
    /\ fate'[<<v, n>>] = "pending" <=> n = count'[v] /\ pc'[v] \in Emitting
    /\ fate'[<<v, n>>] = "none" => fate[<<v, n>>] = "none"
    /\ fate'[<<v, n>>] = "acked" =>
          \/ fate[<<v, n>>] = "acked"
          \/ n = count[v] /\ pc[v] = "release" /\ ~ failed[v]

LEMMA FateMovesStep ==
    ASSUME IInv, [Next]_vars, NEW v \in Writers, NEW n \in 1..MaxRows[v]
    PROVE  FateMoves(v, n)
<1>. TypeOK
    BY DEF IInv
<1>1. /\ <<v, n>> \in Rows /\ n \in Nat /\ count[v] \in Nat
      /\ <<v, n>> = RowOf(v) <=> n = count[v]
      /\ <<v, n>> = <<v, count[v] + 1>> <=> n = count[v] + 1
    BY RowsOf, SinkAssumption DEF TypeOK, RowOf
<1>2. /\ fate[<<v, n>>] = "none" <=> n > count[v]
      /\ fate[<<v, n>>] = "pending" <=> n = count[v] /\ pc[v] \in Emitting
    BY DEF IInv, FateOK
<1>3. CASE ~ Acts(v)
    BY <1>1, <1>2, <1>3, ThreadStep
       DEF Untouched, Killed, Restarted, FateMoves, Emitting, Critical
<1>. USE <1>1, <1>2 DEF FateMoves, Emitting, Critical, TypeOK, Goto, At
<1>4. CASE Emit(v)
    BY <1>4 DEF Emit
<1>5. CASE Acquire(v)
    BY <1>5 DEF Acquire
<1>6. CASE LockTimeout(v)
    BY <1>6 DEF LockTimeout
<1>7. CASE OpenFile(v)
    BY <1>7 DEF OpenFile
<1>8. CASE Flush(v)
    BY <1>8 DEF Flush
<1>9. CASE Close(v)
    BY <1>9 DEF Close
<1>10. CASE Fsync(v)
    BY <1>10 DEF Fsync
<1>11. CASE Release(v)
    BY <1>11 DEF Release
<1>. QED
    BY <1>3, <1>4, <1>5, <1>6, <1>7, <1>8, <1>9, <1>10, <1>11 DEF Acts, Step

LEMMA FateStep ==
    ASSUME IInv, [Next]_vars, NEW v \in Writers
    PROVE  FateOK(v)'
<1>. TypeOK /\ FateOK(v) /\ LineOK(v)
    BY DEF IInv
<1>1. SUFFICES ASSUME NEW n \in 1..MaxRows[v]
      PROVE  /\ FateMoves(v, n)
             /\ fate'[<<v, n>>] = "none" => NoPieceOf(<<v, n>>)'
             /\ fate'[<<v, n>>] = "acked" => OnDisk(<<v, n>>)'
    BY DEF FateOK, FateMoves
<1>2. FateMoves(v, n)
    BY FateMovesStep
<1>3. ASSUME fate'[<<v, n>>] = "none" PROVE NoPieceOf(<<v, n>>)'
    <2>1. n > count[v] /\ NoPieceOf(<<v, n>>) /\ <<v, n>> \in Rows
        BY <1>2, <1>3, RowsOf DEF FateMoves, FateOK
    <2>2. \A w \in Writers : <<v, n>> # RowOf(w)
        BY <2>1 DEF RowOf, TypeOK
    <2>. QED
        BY <2>1, <2>2, NoPieceStep
<1>4. ASSUME fate'[<<v, n>>] = "acked" PROVE OnDisk(<<v, n>>)'
    <2>1. OnDisk(<<v, n>>)
        BY <1>2, <1>4 DEF FateMoves, FateOK, LineOK, RowOf
    <2>. QED
        BY <2>1, DiskStep
<1>. QED
    BY <1>2, <1>3, <1>4

LEMMA LineStep ==
    ASSUME IInv, [Next]_vars, NEW v \in Writers
    PROVE  LineOK(v)'
<1>. TypeOK /\ BufferOK(v) /\ FateOK(v) /\ LineOK(v)
    BY DEF IInv
<1>1. file \in Seq(Piece) /\ Len(file) \in Nat /\ DOMAIN file = 1..Len(file)
    BY LenProperties DEF TypeOK
<1>2. CASE ~ Acts(v)
    <2>1. ~ FileGrows(v)
        BY <1>2 DEF FileGrows, Acts, Step
    <2>2. CASE Killed(v) \/ Restarted(v)
        BY <2>2 DEF Killed, Restarted, LineOK, Emitting, Critical
    <2>3. CASE Untouched(v)
        <3>1. RowOf(v)' = RowOf(v)
            BY <2>3 DEF Untouched, RowOf
        <3>2. ASSUME pc[v] \in Emitting, NoPieceOf(RowOf(v)) PROVE NoPieceOf(RowOf(v))'
            <4>1. RowOf(v) \in Rows
                BY <3>2, RowOfEmitting DEF LineOK
            <4>2. \A w \in Writers : FileGrows(w) => RowOf(v) # RowOf(w)
                BY <2>1 DEF RowOf
            <4>3. \A r : r = RowOf(v) => (r \in Rows /\ NoPieceOf(r)
                                          /\ \A w \in Writers : FileGrows(w) => r # RowOf(w))
                BY <3>2, <4>1, <4>2
            <4>4. \A r : r = RowOf(v) => NoPieceOf(r)'
                BY <4>3, NoPieceStep
            <4>. QED
                BY <3>1, <4>4 DEF NoPieceOf
        <3>3. pc[v] \in Critical => file' = file
            BY <2>1, <2>3, EndOfFile DEF Untouched, Critical
        <3>4. ASSUME OnDisk(RowOf(v)) PROVE OnDisk(RowOf(v))'
            <4>1. \A r : r = RowOf(v) => OnDisk(r)'
                BY <3>4, DiskStep
            <4>. QED
                BY <3>1, <4>1 DEF OnDisk, TailOf
        <3>. QED
            BY <2>3, <3>1, <3>2, <3>3, <3>4
               DEF Untouched, LineOK, Emitting, Critical, HeadOf, TailOf
    <2>. QED
        BY <1>2, <2>2, <2>3, ThreadStep
<1>3. CASE Emit(v)
    <2>1. count[v] + 1 \in 1..MaxRows[v] /\ count[v] \in Nat
        <3>1. count[v] < MaxRows[v] /\ count[v] \in Nat /\ MaxRows[v] \in Nat
            BY <1>3, SinkAssumption DEF Emit, TypeOK
        <3>. QED
            BY <3>1
    <2>2. pc'[v] = "lock" /\ count'[v] = count[v] + 1 /\ UNCHANGED file
        BY <1>3 DEF Emit, Goto, TypeOK
    <2>3. NoPieceOf(<<v, count[v] + 1>>)
        BY <2>1 DEF FateOK
    <2>4. NoPieceOf(RowOf(v))'
        BY <2>2, <2>3 DEF NoPieceOf, RowOf
    <2>. QED
        BY <2>1, <2>2, <2>4 DEF LineOK
<1>4. CASE Acquire(v) \/ LockTimeout(v)
    BY <1>4 DEF Acquire, LockTimeout, At, Goto, TypeOK, LineOK, NoPieceOf, RowOf, Emitting, Critical
<1>5. CASE OpenFile(v)
    <2>1. /\ pc[v] = "open" /\ UNCHANGED <<file, count>>
          /\ (pc'[v] = "flush" /\ left'[v] = 2) \/ (pc'[v] = "release" /\ failed'[v])
        <3>1. pc[v] = "open" /\ UNCHANGED <<file, count>>
            BY <1>5 DEF OpenFile, At
        <3>2. CASE left' = [left EXCEPT ![v] = 2] /\ Goto(v, "flush")
            BY <3>1, <3>2 DEF Goto, TypeOK
        <3>3. CASE failed' = [failed EXCEPT ![v] = TRUE] /\ Goto(v, "release")
            BY <3>1, <3>3 DEF Goto, TypeOK
        <3>. QED
            BY <1>5, <3>1, <3>2, <3>3 DEF OpenFile
    <2>. QED
        BY <2>1 DEF LineOK, NoPieceOf, RowOf, Emitting, Critical
<1>6. CASE Flush(v)
    <2>1. pc[v] = "flush" /\ left[v] \in 1..2 /\ count'[v] = count[v] /\ count[v] > 0
        BY <1>6 DEF Flush, At, BufferOK, TypeOK, LineOK, Emitting, Critical
    <2>2. RowOf(v)' = RowOf(v)
        BY <2>1 DEF RowOf
    <2>3. file' = Append(file, Buffer(v)[1]) => Grows(v, 1)
        BY <2>1, RowOfEmitting, FlushGrows
    <2>4. Grows(v, 1) => file' # file
        BY <1>1 DEF Grows
    <2>5. CASE UNCHANGED file
        <3>1. pc'[v] = "close" /\ left'[v] = left[v]
            BY <1>6, <2>3, <2>4, <2>5 DEF Flush, Goto, TypeOK
        <3>. QED
            BY <2>1, <2>2, <2>5, <3>1 DEF LineOK, NoPieceOf, HeadOf
    <2>6. CASE file' = Append(file, Buffer(v)[1])
        <3>1. file' # file
            BY <2>3, <2>4, <2>6
        <3>2. left'[v] = left[v] - 1 /\ pc'[v] = IF left[v] = 1 THEN "sync" ELSE "flush"
            BY <1>6, <3>1 DEF Flush, Goto, TypeOK
        <3>3. Grows(v, 1)
            BY <2>3, <2>6
        <3>4. /\ file' # <<>>
              /\ file'[Len(file')] = IF left[v] = 2 THEN HeadOf(RowOf(v)) ELSE TailOf(RowOf(v))
            BY <1>1, <3>3, EmptySeq DEF Grows
        <3>. QED
            BY <2>1, <2>2, <3>2, <3>4 DEF LineOK, HeadOf, TailOf
    <2>. QED
        BY <1>6, <2>5, <2>6 DEF Flush
<1>7. CASE Close(v)
    BY <1>7 DEF Close, At, Goto, TypeOK, BufferOK, LineOK, Emitting, Critical
<1>8. CASE Fsync(v)
    <2>1. /\ pc[v] = "sync" /\ ~ failed[v] /\ UNCHANGED <<file, count>> /\ pc'[v] = "release"
          /\ synced' = Len(file) \/ failed'[v]
        BY <1>8 DEF Fsync, At, Goto, TypeOK, BufferOK
    <2>2. Len(file) \in 1..Len(file) /\ file[Len(file)] = TailOf(RowOf(v))
        BY <1>1, <2>1, EmptySeq DEF LineOK
    <2>3. synced' = Len(file) => OnDisk(RowOf(v))'
        BY <2>1, <2>2 DEF OnDisk, RowOf, TailOf
    <2>. QED
        BY <2>1, <2>3 DEF LineOK, Emitting, Critical
<1>9. CASE Release(v)
    BY <1>9 DEF Release, Goto, TypeOK, LineOK, Emitting, Critical
<1>. QED
    BY <1>2, <1>3, <1>4, <1>5, <1>6, <1>7, <1>8, <1>9 DEF Acts, Step

-----------------------------------------------------------------------------
(* The invariant is inductive and has the safety properties as parts.      *)

LEMMA InvariantInit == Init => IInv
<1>. SUFFICES ASSUME Init PROVE IInv
    OBVIOUS
<1>1. TypeOK
    BY TypeInit
<1>2. DOMAIN file = {}
    BY EmptySeq DEF Init
<1>3. OneWriterAtATime /\ RowsNeverInterleave
    BY <1>2, SinkAssumption DEF Init, OneWriterAtATime, RowsNeverInterleave, Critical
<1>4. ASSUME NEW w \in Writers PROVE BufferOK(w) /\ FateOK(w) /\ LineOK(w)
    <2>1. /\ pc[w] = "idle" /\ count[w] = 0 /\ left[w] = 0 /\ failed[w] = FALSE
          /\ \A n \in 1..MaxRows[w] : fate[<<w, n>>] = "none"
        BY RowsOf DEF Init
    <2>2. \A n \in 1..MaxRows[w] : n > 0
        BY SinkAssumption
    <2>. QED
        BY <1>2, <2>1, <2>2 DEF BufferOK, FateOK, LineOK, NoPieceOf, Emitting, Critical
<1>. QED
    BY <1>1, <1>3, <1>4 DEF IInv

LEMMA InvariantStep == IInv /\ [Next]_vars => IInv'
<1>. SUFFICES ASSUME IInv, [Next]_vars PROVE IInv'
    OBVIOUS
<1>1. \A w \in Writers : BufferOK(w)' /\ FateOK(w)' /\ LineOK(w)'
    BY BufferStep, FateStep, LineStep
<1>. QED
    BY <1>1, TypeStep, WriterStep, InterleaveStep DEF IInv

LEMMA InvariantDurable == IInv => AckedIsDurable
BY RowsOf DEF IInv, FateOK, OnDisk, TailOf, AckedIsDurable

LEMMA DiskGrowsStep ==
    IInv /\ [Next]_vars => [synced' >= synced /\ IsPrefix(SubSeq(file, 1, synced), file')]_vars
<1>. SUFFICES ASSUME IInv, [Next]_vars
              PROVE  synced' >= synced /\ IsPrefix(SubSeq(file, 1, synced), file')
    OBVIOUS
<1>. DEFINE disk == SubSeq(file, 1, synced)
            kept == SubSeq(file', 1, synced)
<1>1. file \in Seq(Piece) /\ synced \in Nat /\ synced <= Len(file) /\ Len(file) \in Nat
    BY LenProperties DEF IInv, TypeOK
<1>2. /\ file' \in Seq(Piece) /\ Len(file') \in Nat /\ synced <= Len(file') /\ synced' >= synced
      /\ \A i \in 1..synced : file'[i] = file[i]
    BY <1>1, DiskStep, LenProperties
<1>3. disk \in Seq(Piece) /\ Len(disk) = synced /\ \A i \in 1..synced : disk[i] = file[i]
    BY <1>1, ElementOfSeq, SubSeqProperties
<1>4. kept \in Seq(Piece) /\ Len(kept) = synced /\ \A i \in 1..synced : kept[i] = file'[i]
    <2>1. \A i \in 1..synced : file'[i] \in Piece
        BY <1>1, <1>2, ElementOfSeq
    <2>. QED
        BY <1>1, <1>2, <2>1, SubSeqProperties
<1>5. SubSeq(disk, 1, synced) \in Seq(Piece) /\ Len(SubSeq(disk, 1, synced)) = synced
      /\ \A i \in 1..synced : SubSeq(disk, 1, synced)[i] = disk[i]
    <2>. HIDE DEF disk
    <2>. QED
        BY <1>1, <1>3, ElementOfSeq, SubSeqProperties
<1>6. SubSeq(disk, 1, synced) = kept
    <2>. HIDE DEF disk, kept
    <2>. QED
        BY <1>2, <1>3, <1>4, <1>5, SeqEqual
<1>. QED
    BY <1>2, <1>3, <1>6 DEF IsPrefix

-----------------------------------------------------------------------------
(* The theorems.                                                           *)

(* The invariant holds in every reachable state: how far each thread's     *)
(* line has come, whatever fails and whoever dies in between.              *)
THEOREM Invariance == Spec => []IInv
BY InvariantInit, InvariantStep, PTL DEF Spec

(* Every variable keeps the kind of value sinks.py puts there.             *)
THEOREM TypeCorrect == Spec => []TypeOK
<1>1. IInv => TypeOK
    BY DEF IInv
<1>. QED
    BY <1>1, Invariance, PTL

(* The lock's holder, and it alone, is in the with block of emit.          *)
THEOREM MutualExclusion == Spec => []OneWriterAtATime
<1>1. IInv => OneWriterAtATime
    BY DEF IInv
<1>. QED
    BY <1>1, Invariance, PTL

(* Two threads never interleave their lines and none is written twice,     *)
(* also after failed writes and crashes (LocalFileSink).                   *)
THEOREM NoInterleaving == Spec => []RowsNeverInterleave
<1>1. IInv => RowsNeverInterleave
    BY DEF IInv
<1>. QED
    BY <1>1, Invariance, PTL

(* A row whose emit returned is on the disk with its whole line, and stays *)
(* there (LocalFileSink.emit).                                             *)
THEOREM Durability == Spec => []AckedIsDurable
BY InvariantDurable, Invariance, PTL

(* The part of the file that is on the disk never changes.                 *)
THEOREM AppendOnly == Spec => DiskOnlyGrows
<1>1. Spec => [][Next]_vars
    BY PTL DEF Spec
<1>. QED
    BY <1>1, Invariance, DiskGrowsStep, PTL DEF DiskOnlyGrows

=============================================================================
