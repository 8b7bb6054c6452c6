------------------------------- MODULE Channel -------------------------------
(* What the proxy promises a client and a server, told without the proxy: for *)
(* each direction a first-in first-out channel. Lines arrive in the order     *)
(* they were sent, and none is altered, invented, skipped or overtaken. While *)
(* the connection lasts, a receiver sees the end of the stream only after     *)
(* every line of it. The connection may break, at any point: then both        *)
(* receivers see an end, wherever they are, and nothing moves any more.       *)
EXTENDS Naturals, Sequences

CONSTANTS
    Dir,    \* the directions, each a channel of its own
    Line    \* what may be sent

VARIABLES
    broken,     \* BOOLEAN: the connection is no more
    accepted,   \* [Dir -> Seq(Line)]: what the sender put in
    closed,     \* [Dir -> BOOLEAN]: the sender will put in no more
    delivered,  \* [Dir -> Seq(Line)]: what came out
    ended       \* [Dir -> BOOLEAN]: the receiver was told there is no more

channelVars == <<broken, accepted, closed, delivered, ended>>

Init ==
    /\ broken = FALSE
    /\ accepted = [d \in Dir |-> <<>>]
    /\ closed = [d \in Dir |-> FALSE]
    /\ delivered = [d \in Dir |-> <<>>]
    /\ ended = [d \in Dir |-> FALSE]

Accept(d) ==
    /\ ~broken /\ ~closed[d]
    /\ \E l \in Line : accepted' = [accepted EXCEPT ![d] = Append(@, l)]
    /\ UNCHANGED <<broken, closed, delivered, ended>>

Close(d) ==
    /\ ~broken /\ ~closed[d]
    /\ closed' = [closed EXCEPT ![d] = TRUE]
    /\ UNCHANGED <<broken, accepted, delivered, ended>>

Deliver(d) ==
    LET next == Len(delivered[d]) + 1 IN
    /\ ~broken /\ ~ended[d]
    /\ next <= Len(accepted[d])
    /\ delivered' = [delivered EXCEPT ![d] = Append(@, accepted[d][next])]
    /\ UNCHANGED <<broken, accepted, closed, ended>>

End(d) ==
    /\ ~broken /\ closed[d] /\ ~ended[d]
    /\ Len(delivered[d]) = Len(accepted[d])
    /\ ended' = [ended EXCEPT ![d] = TRUE]
    /\ UNCHANGED <<broken, accepted, closed, delivered>>

Break ==
    /\ ~broken
    /\ broken' = TRUE
    /\ ended' = [d \in Dir |-> TRUE]
    /\ UNCHANGED <<accepted, closed, delivered>>

Next == Break \/ \E d \in Dir : Accept(d) \/ Close(d) \/ Deliver(d) \/ End(d)

Spec == Init /\ [][Next]_channelVars
==============================================================================
