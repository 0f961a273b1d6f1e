--------------------------- MODULE LocalFileSink ---------------------------
(***************************************************************************)
(* LocalFileSink.emit and safe_emit (audit/sinks.py): threads of several   *)
(* processes append rows to one file under a file lock.                    *)
(*                                                                         *)
(* A row's line is two pieces, "head" and "tail" (the newline is in the    *)
(* tail), because a write may stop half way.  The file is what the kernel  *)
(* has; its first synced pieces survive a power loss.  External: the       *)
(* advisory lock (filelock: the kernel frees it when its holder dies, and  *)
(* a thread that waited 10 s while it was held gives up), the disk, and    *)
(* whoever kills or stops processes.                                       *)
(***************************************************************************)
EXTENDS Integers, Sequences, SequencesExt, FiniteSets, Selection

CONSTANTS
    None,         \* Python's None
    Processes,
    Writers,      \* the threads that emit rows
    ProcessOf,    \* the process of each thread
    MaxRows,      \* bound: how many rows each thread emits
    MaxCrashes,   \* bound: crashes and power losses
    MayHang       \* the processes that may be stopped for good

ASSUME SinkAssumption ==
    /\ ProcessOf \in [Writers -> Processes]
    /\ MaxRows \in [Writers -> Nat] /\ MaxCrashes \in Nat
    /\ MayHang \subseteq Processes
    /\ None \notin Writers

VARIABLES
    file,      \* the pieces in the file
    synced,    \* how many of them are on the disk
    lock,      \* the thread that holds the file lock, or None
    pc,        \* where each thread is
    count,     \* the number of the row each thread emits, or emitted last
    left,      \* the pieces of it that are still in the thread's buffer
    failed,    \* an OSError is on its way out of emit
    fate,      \* what became of each row, as its thread was told
    hung,      \* the processes that are stopped
    crashes    \* how many crashes there were

vars == <<file, synced, lock, pc, count, left, failed, fate, hung, crashes>>

-----------------------------------------------------------------------------

Rows == UNION {{w} \X (1..MaxRows[w]) : w \in Writers}

RowOf(w) == <<w, count[w]>>

Piece == [row : Rows, part : {"head", "tail"}]

Pieces(w) == [n \in 1..2 |-> [row |-> RowOf(w), part |-> IF n = 1 THEN "head" ELSE "tail"]]

(* What is left in w's buffer: the last left[w] pieces of its line.        *)
Buffer(w) == SubSeq(Pieces(w), 3 - left[w], 2)

Labels == {"idle", "lock", "open", "flush", "close", "sync", "release", "down"}

(* The with blocks of emit: the file lock is held from "open" on.          *)
Critical == {"open", "flush", "close", "sync", "release"}

Threads(p) == {w \in Writers : ProcessOf[w] = p}

Goto(w, label) == pc' = [pc EXCEPT ![w] = label]

(* w is where label says and its process is not stopped.                   *)
At(w, label) == pc[w] = label /\ ProcessOf[w] \notin hung

-----------------------------------------------------------------------------
(* The steps of emit.                                                      *)

(* safe_emit is called with a row: the line is formatted, outside the lock.*)
Emit(w) ==
    /\ At(w, "idle")
    /\ count[w] < MaxRows[w]
    /\ count' = [count EXCEPT ![w] = @ + 1]
    /\ fate' = [fate EXCEPT ![<<w, count[w] + 1>>] = "pending"]
    /\ Goto(w, "lock")
    /\ UNCHANGED <<file, synced, lock, left, failed, hung, crashes>>

(* A lock that only excludes the threads of other processes: a mutant.     *)
AcquirePerProcess(w) ==
    /\ At(w, "lock")
    /\ lock \notin {v \in Writers : ProcessOf[v] # ProcessOf[w]}
    /\ lock' = w
    /\ Goto(w, "open")
    /\ UNCHANGED <<file, synced, count, left, failed, fate, hung, crashes>>

Acquire(w) ==
    /\ At(w, "lock")
    /\ lock = None
    /\ lock' = w
    /\ Goto(w, "open")
    /\ UNCHANGED <<file, synced, count, left, failed, fate, hung, crashes>>

(* No timeout on the lock: a mutant.                                       *)
LockTimeoutNever(w) == At(w, "lock") /\ lock # None /\ UNCHANGED vars

(* filelock raises Timeout: safe_emit logs it and the row is dropped.      *)
LockTimeout(w) ==
    /\ At(w, "lock")
    /\ lock # None
    /\ fate' = [fate EXCEPT ![RowOf(w)] = "dropped"]
    /\ Goto(w, "idle")
    /\ UNCHANGED <<file, synced, lock, count, left, failed, hung, crashes>>

(* open(path, "w"), which empties the kernel's file: a mutant.             *)
OpenFileTruncating(w) ==
    /\ At(w, "open")
    /\ file' = <<>>
    /\ left' = [left EXCEPT ![w] = 2]
    /\ Goto(w, "flush")
    /\ UNCHANGED <<synced, lock, count, failed, fate, hung, crashes>>

(* An open that fails returns without giving the lock back: a mutant.      *)
OpenFileLeaking(w) ==
    /\ At(w, "open")
    /\ \/ left' = [left EXCEPT ![w] = 2] /\ Goto(w, "flush") /\ UNCHANGED fate
       \/ /\ fate' = [fate EXCEPT ![RowOf(w)] = "dropped"]
          /\ Goto(w, "idle")
          /\ UNCHANGED left
    /\ UNCHANGED <<file, synced, lock, count, failed, hung, crashes>>

(* open(path, "a") and write, which only fills the buffer.                 *)
OpenFile(w) ==
    /\ At(w, "open")
    /\ \/ left' = [left EXCEPT ![w] = 2] /\ Goto(w, "flush") /\ UNCHANGED failed
       \/ failed' = [failed EXCEPT ![w] = TRUE] /\ Goto(w, "release") /\ UNCHANGED left
    /\ UNCHANGED <<file, synced, lock, count, fate, hung, crashes>>

(* flush appends the buffer piece by piece, and any write may fail: then   *)
(* the rest stays in the buffer and the file is closed.                    *)
Flush(w) ==
    /\ At(w, "flush")
    /\ \/ /\ file' = Append(file, Buffer(w)[1])
          /\ left' = [left EXCEPT ![w] = @ - 1]
          /\ Goto(w, IF left[w] = 1 THEN "sync" ELSE "flush")
          /\ UNCHANGED failed
       \/ /\ failed' = [failed EXCEPT ![w] = TRUE]
          /\ Goto(w, "close")
          /\ UNCHANGED <<file, left>>
    /\ UNCHANGED <<synced, lock, count, fate, hung, crashes>>

(* Closing the file after a failed write tries to flush what is left.      *)
Close(w) ==
    /\ At(w, "close")
    /\ \E n \in 0..left[w] : file' = file \o SubSeq(Buffer(w), 1, n)
    /\ left' = [left EXCEPT ![w] = 0]
    /\ Goto(w, "release")
    /\ UNCHANGED <<synced, lock, count, failed, fate, hung, crashes>>

(* No fsync: a mutant.                                                     *)
FsyncNever(w) ==
    /\ At(w, "sync")
    /\ Goto(w, "release")
    /\ UNCHANGED <<file, synced, lock, count, left, failed, fate, hung, crashes>>

(* The fsync puts the whole file on the disk, or fails; the with block     *)
(* closes the file, whose buffer is empty.                                 *)
Fsync(w) ==
    /\ At(w, "sync")
    /\ \/ synced' = Len(file) /\ UNCHANGED failed
       \/ failed' = [failed EXCEPT ![w] = TRUE] /\ UNCHANGED synced
    /\ Goto(w, "release")
    /\ UNCHANGED <<file, lock, count, left, fate, hung, crashes>>

(* The row counts as recorded although its emit failed: a mutant.          *)
ReleaseAlways(w) ==
    /\ At(w, "release")
    /\ lock' = None
    /\ fate' = [fate EXCEPT ![RowOf(w)] = "acked"]
    /\ failed' = [failed EXCEPT ![w] = FALSE]
    /\ Goto(w, "idle")
    /\ UNCHANGED <<file, synced, count, left, hung, crashes>>

(* The lock is given back; emit returns, or its OSError reaches safe_emit. *)
Release(w) ==
    /\ At(w, "release")
    /\ lock' = None
    /\ fate' = [fate EXCEPT ![RowOf(w)] = IF failed[w] THEN "dropped" ELSE "acked"]
    /\ failed' = [failed EXCEPT ![w] = FALSE]
    /\ Goto(w, "idle")
    /\ UNCHANGED <<file, synced, count, left, hung, crashes>>

Step(w) ==
    \/ Acquire(w) \/ LockTimeout(w)
    \/ OpenFile(w) \/ Flush(w) \/ Close(w) \/ Fsync(w) \/ Release(w)

-----------------------------------------------------------------------------
(* What happens to the processes.                                          *)

(* The threads of dead are gone, with the buffers and the lock they held.  *)
Die(dead) ==
    /\ crashes < MaxCrashes
    /\ crashes' = crashes + 1
    /\ pc' = [w \in Writers |-> IF w \in dead THEN "down" ELSE pc[w]]
    /\ left' = [w \in Writers |-> IF w \in dead THEN 0 ELSE left[w]]
    /\ failed' = [w \in Writers |-> IF w \in dead THEN FALSE ELSE failed[w]]
    /\ fate' = [r \in Rows |-> IF r[1] \in dead /\ fate[r] = "pending"
                               THEN "lost" ELSE fate[r]]
    /\ lock' = IF lock \in dead THEN None ELSE lock
    /\ UNCHANGED count

(* One process is killed: what it wrote stays in the kernel's file.        *)
Kill(p) ==
    /\ \E w \in Threads(p) : pc[w] # "down"
    /\ Die(Threads(p))
    /\ hung' = hung \ {p}
    /\ UNCHANGED <<file, synced>>

(* The power fails: any part of the file that was not synced may go.       *)
PowerLoss ==
    /\ Die(Writers)
    /\ hung' = {}
    /\ \E k \in synced..Len(file) : file' = SubSeq(file, 1, k) /\ synced' = k

Restart(p) ==
    /\ \A w \in Threads(p) : pc[w] = "down"
    /\ pc' = [w \in Writers |-> IF w \in Threads(p) THEN "idle" ELSE pc[w]]
    /\ UNCHANGED <<file, synced, lock, count, left, failed, fate, hung, crashes>>

(* A process is stopped and never continues (unless it is killed).         *)
Hang(p) ==
    /\ p \in MayHang \ hung
    /\ hung' = hung \cup {p}
    /\ UNCHANGED <<file, synced, lock, pc, count, left, failed, fate, crashes>>

(* Every thread has emitted its rows, or is stopped.                       *)
AllDone ==
    /\ \A w \in Writers : (pc[w] = "idle" /\ count[w] = MaxRows[w]) \/ ProcessOf[w] \in hung
    /\ UNCHANGED vars

-----------------------------------------------------------------------------

Init ==
    /\ file = <<>>
    /\ synced = 0
    /\ lock = None
    /\ pc = [w \in Writers |-> "idle"]
    /\ count = [w \in Writers |-> 0]
    /\ left = [w \in Writers |-> 0]
    /\ failed = [w \in Writers |-> FALSE]
    /\ fate = [r \in Rows |-> "none"]
    /\ hung = {}
    /\ crashes = 0

Next ==
    \/ \E w \in Writers : Emit(w) \/ Step(w)
    \/ \E p \in Processes : Kill(p) \/ Restart(p) \/ Hang(p)
    \/ PowerLoss
    \/ AllDone

(* A thread of a running process is scheduled; filelock polls until its    *)
(* timeout, so a waiting thread takes a step whether the lock is free or   *)
(* not.                                                                    *)
Fairness == \A w \in Writers : WF_vars(Step(w))

Spec == Init /\ [][Next]_vars /\ Fairness

-----------------------------------------------------------------------------
(* Properties.                                                             *)

(* The rows with a complete line, in the order of the file.                *)
RowsIn(f) == Column(f, [row : Rows, part : {"tail"}], "row")

CompleteRows == RowsIn(file)

Log == INSTANCE AuditLog WITH rows <- CompleteRows

(* Every variable holds values of the kind sinks.py puts there.            *)
TypeOK ==
    /\ file \in Seq(Piece)
    /\ synced \in 0..Len(file)
    /\ lock \in Writers \cup {None}
    /\ pc \in [Writers -> Labels]
    /\ count \in [Writers -> Nat] /\ \A w \in Writers : count[w] <= MaxRows[w]
    /\ left \in [Writers -> 0..2]
    /\ failed \in [Writers -> BOOLEAN]
    /\ fate \in [Rows -> Log!Fates]
    /\ hung \subseteq Processes
    /\ crashes \in 0..MaxCrashes

(* Only the holder of the lock is between open and close, whichever        *)
(* processes died or timed out: the with self._lock of emit.               *)
OneWriterAtATime == \A w \in Writers : pc[w] \in Critical <=> lock = w

(* "Two processes writing the same path never interleave rows": the second *)
(* part of a line follows its first part, also after failed writes and     *)
(* crashes, and no part is written twice (LocalFileSink).                  *)
RowsNeverInterleave ==
    /\ \A i \in DOMAIN file :
          file[i].part = "tail" =>
              i > 1 /\ file[i - 1] = [row |-> file[i].row, part |-> "head"]
    /\ \A i, j \in DOMAIN file : file[i] = file[j] => i = j

(* "A row that returns is on disk": the whole line of a row whose emit     *)
(* returned is in the part of the file that survives a power loss.         *)
AckedIsDurable ==
    \A r \in Rows : fate[r] = "acked" =>
        \E i \in 1..synced : file[i] = [row |-> r, part |-> "tail"]

(* What is on the disk stays there: no emit, failure or crash ever changes *)
(* the part of the file that was synced (the file is opened to append).    *)
DiskOnlyGrows == [][synced' >= synced /\ IsPrefix(SubSeq(file, 1, synced), file')]_vars

(* An emit never blocks the request path for good: a thread that waits for *)
(* the lock gets it or gives up, even when the holder's process is stopped *)
(* for good, unless its own process is.                                    *)
EmitEnds ==
    \A w \in Writers :
        pc[w] = "lock" ~> (pc[w] \in {"idle", "down"} \/ ProcessOf[w] \in hung)

(* The lock is always given back, on every error path of emit and when its *)
(* holder is killed, unless its holder's process is stopped.               *)
LockFreed == lock # None ~> (lock = None \/ ProcessOf[lock] \in hung)

(* The sink keeps the promise of an audit log.                             *)
ImplementsAuditLog == Log!Init /\ [][Log!Next]_<<CompleteRows, fate>>

(* "Appends one JSON line per row" (LocalFileSink): the line of a row      *)
(* whose emit returned starts where a line starts.                         *)
AckedIsALine ==
    \A i \in DOMAIN file :
        file[i].part = "head" /\ fate[file[i].row] = "acked" =>
            i = 1 \/ file[i - 1].part = "tail"

=============================================================================
