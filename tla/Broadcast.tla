------------------------------ MODULE Broadcast -------------------------------
(***************************************************************************)
(* What the message server promises its clients, without sockets, reference *)
(* counts or handlers: there is one sequence of messages, 1 to published,  *)
(* and the stream to a client is a gapless run of it that starts with the  *)
(* first message published after the client joined.  A client that left    *)
(* gets nothing more.                                                      *)
(***************************************************************************)
EXTENDS Integers, Sequences

CONSTANT Clients

VARIABLES
    members,   \* clients that get messages
    past,      \* clients that joined, members or not
    published, \* number of messages published
    since,     \* per client: published when it joined
    stream     \* per client: the messages delivered to it

absVars == <<members, past, published, since, stream>>

Init ==
    /\ members = {}
    /\ past = {}
    /\ published = 0
    /\ since = [c \in Clients |-> 0]
    /\ stream = [c \in Clients |-> <<>>]

Join(c) ==
    /\ c \notin past
    /\ members' = members \union {c}
    /\ past' = past \union {c}
    /\ since' = [since EXCEPT ![c] = published]
    /\ UNCHANGED <<published, stream>>

Publish ==
    /\ published' = published + 1
    /\ UNCHANGED <<members, past, since, stream>>

Deliver(c) ==
    /\ c \in members
    /\ since[c] + Len(stream[c]) < published
    /\ stream' = [stream EXCEPT ![c] = Append(@, since[c] + Len(@) + 1)]
    /\ UNCHANGED <<members, past, published, since>>

Leave(c) ==
    /\ c \in members
    /\ members' = members \ {c}
    /\ UNCHANGED <<past, published, since, stream>>

\* The server ends and all its clients leave with it.
Close ==
    /\ members' = {}
    /\ UNCHANGED <<past, published, since, stream>>

Next ==
    \/ Publish \/ Close
    \/ \E c \in Clients : Join(c) \/ Deliver(c) \/ Leave(c)

Spec == Init /\ [][Next]_absVars
=============================================================================
