-------------------------- MODULE MCLocalFileSink --------------------------
(***************************************************************************)
(* An instance of LocalFileSink for TLC: two threads of one process and a  *)
(* thread of another, which alone may be stopped and which emits again     *)
(* after a restart.                                                        *)
(***************************************************************************)
EXTENDS LocalFileSink

CONSTANTS w1, w2, w3, p1, p2

MCProcessOf == [w \in Writers |-> IF w = w3 THEN p2 ELSE p1]
MCMaxRows == [w \in Writers |-> IF w = w3 THEN 2 ELSE 1]
=============================================================================
