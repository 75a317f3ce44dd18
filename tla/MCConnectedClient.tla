--------------------------- MODULE MCConnectedClient ---------------------------
(* Instances of ConnectedClient for TLC. *)
EXTENDS ClientConnection

\* Words whose bytes differ, so that a wrong byte order shows.
MCMessages ==
    {[msg_id    |-> <<240, 0, 0, 1>>,
      recipient |-> <<1, 2, 3, 4, 5, 6, 7, 8>>,
      sender    |-> <<0, 0, 0, 0, 0, 0, 0, 255>>,
      text      |-> <<>>],
     [msg_id    |-> <<1, 0, 0, 0>>,
      recipient |-> <<0, 0, 0, 0, 0, 0, 0, 0>>,
      sender    |-> <<9, 0, 0, 0, 0, 0, 0, 0>>,
      text      |-> <<104, 105>>]}

\* Wrong identifier, nonzero fourth byte, sizes above the limit and below the
\* length of the header, and a packet without a body.
MCBadFrames ==
    {<<127, 4, 0, 0>>, <<128, 4, 0, 1>>, <<128, 0, 144, 0>>, <<128, 3, 0, 0>>,
     <<128, 4, 0, 0>>}

\* The theorems about what is heard apply to this instance.
ASSUME PacketsAssumption == MessagesFit /\ OthersAreRefused
=============================================================================
