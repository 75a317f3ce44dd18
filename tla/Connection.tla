------------------------------ MODULE Connection ------------------------------
(***************************************************************************)
(* What a ConnectedClient promises its owner: it hands over what the       *)
(* remote client said, in order, without gaps and unaltered; it tells the  *)
(* owner when the client has gone; and it is silent once it was released.  *)
(***************************************************************************)
EXTENDS Integers, Sequences

CONSTANT Utterances  \* what the remote client can say

VARIABLES
    said,     \* what the remote client said
    heard,    \* what the owner was given
    told,     \* was the owner told that the client has disconnected?
    released  \* did the owner let go of the connection?

absVars == <<said, heard, told, released>>

Init ==
    /\ said = <<>>
    /\ heard = <<>>
    /\ told = FALSE
    /\ released = FALSE

Say(u) ==
    /\ said' = Append(said, u)
    /\ UNCHANGED <<heard, told, released>>

\* The owner may let go of the connection while it is being called.
Hear ==
    /\ ~released
    /\ Len(heard) < Len(said)
    /\ heard' = Append(heard, said[Len(heard) + 1])
    /\ released' \in BOOLEAN
    /\ UNCHANGED <<said, told>>

Tell ==
    /\ ~released
    /\ told' = TRUE
    /\ released' \in BOOLEAN
    /\ UNCHANGED <<said, heard>>

Release ==
    /\ released' = TRUE
    /\ UNCHANGED <<said, heard, told>>

Next == Hear \/ Tell \/ Release \/ \E u \in Utterances : Say(u)

Spec == Init /\ [][Next]_absVars
=============================================================================
