----------------------------- MODULE Selection -----------------------------
(***************************************************************************)
(* The elements of a sequence that lie in a set, in their order: SelectSeq *)
(* with a set for its test, written as a recursive function so that what   *)
(* it does to a growing sequence can be proved (SelectionProofs).  The     *)
(* views a reader of the file or of a stream has of it are such selections.*)
(***************************************************************************)
EXTENDS Integers, Sequences

Only(s, T) ==
    LET kept[n \in 0..Len(s)] ==
            IF n = 0 THEN <<>>
            ELSE IF s[n] \in T THEN Append(kept[n - 1], s[n]) ELSE kept[n - 1]
    IN  kept[Len(s)]

(* A field of the records among them.                                      *)
Column(s, T, field) ==
    LET chosen == Only(s, T) IN [i \in DOMAIN chosen |-> chosen[i][field]]

=============================================================================
