----------------------------- MODULE Completion -----------------------------
(***************************************************************************)
(* What a client of a streamed completion relies on, whatever adapter,     *)
(* provider and network are behind it: it hears the pieces that were said, *)
(* in order and each once, and is told "all of it" only when it heard      *)
(* them all; otherwise the stream breaks off, which it can see.            *)
(***************************************************************************)
EXTENDS Naturals, Sequences

CONSTANTS Requests, Values

VARIABLES
    said,       \* the pieces the provider has said to each request
    heard,      \* those of them its client has heard
    ending      \* how its client saw the stream end

Endings == {"open", "complete", "broken"}

Open(r) == ending[r] = "open"

(* The provider may still speak to a client that is gone.                  *)
Say(r) ==
    /\ ending[r] # "complete"
    /\ \E piece \in Values : said' = [said EXCEPT ![r] = Append(@, piece)]
    /\ UNCHANGED <<heard, ending>>

Hear(r) ==
    /\ Open(r)
    /\ Len(heard[r]) < Len(said[r])
    /\ heard' = [heard EXCEPT ![r] = Append(@, said[r][Len(@) + 1])]
    /\ UNCHANGED <<said, ending>>

Complete(r) ==
    /\ Open(r)
    /\ heard[r] = said[r]
    /\ ending' = [ending EXCEPT ![r] = "complete"]
    /\ UNCHANGED <<said, heard>>

Break(r) == Open(r) /\ ending' = [ending EXCEPT ![r] = "broken"] /\ UNCHANGED <<said, heard>>

Init ==
    /\ said = [r \in Requests |-> <<>>]
    /\ heard = [r \in Requests |-> <<>>]
    /\ ending = [r \in Requests |-> "open"]

Next == \E r \in Requests : Say(r) \/ Hear(r) \/ Complete(r) \/ Break(r)

Spec == Init /\ [][Next]_<<said, heard, ending>>

=============================================================================
