------------------------------ MODULE AuditLog ------------------------------
(***************************************************************************)
(* What an audit log promises to those who emit rows to it, whatever file, *)
(* lock and disk are under it: a row is in the log at most once, a row     *)
(* whose emit returned is in it for good, and rows are only ever added at  *)
(* the end, except that a crash may take back rows nobody was told of.     *)
(***************************************************************************)
EXTENDS Sequences, SequencesExt

CONSTANT Rows       \* the rows that may be emitted, each of them once

VARIABLES
    rows,           \* the rows in the log, oldest first
    fate            \* what the emitter of each row knows

Fates == {"none", "pending", "acked", "dropped", "lost"}

Move(r, from, to) == fate[r] = from /\ fate' = [fate EXCEPT ![r] = to]

Begin(r) == Move(r, "none", "pending") /\ UNCHANGED rows

Add(r) ==
    /\ fate[r] = "pending"
    /\ r \notin ToSet(rows)
    /\ rows' = Append(rows, r)
    /\ UNCHANGED fate

Ack(r) == r \in ToSet(rows) /\ Move(r, "pending", "acked") /\ UNCHANGED rows

(* A row that was dropped may be in the log nevertheless.                  *)
Drop(r) == Move(r, "pending", "dropped") /\ UNCHANGED rows

(* Some emitters die, and the end of the log with them, but for the rows   *)
(* that were acknowledged.                                                 *)
Crash ==
    /\ \E dead \in SUBSET {r \in Rows : fate[r] = "pending"} :
          fate' = [r \in Rows |-> IF r \in dead THEN "lost" ELSE fate[r]]
    /\ \E k \in 0..Len(rows) :
          /\ rows' = SubSeq(rows, 1, k)
          /\ \A r \in Rows : fate[r] = "acked" => r \in ToSet(rows')

Init == rows = <<>> /\ fate = [r \in Rows |-> "none"]

Next == Crash \/ \E r \in Rows : Begin(r) \/ Add(r) \/ Ack(r) \/ Drop(r)

Spec == Init /\ [][Next]_<<rows, fate>>

=============================================================================
