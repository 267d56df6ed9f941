---------------------------- MODULE PacketQueue ----------------------------
(***************************************************************************)
(* What the packet writer (server/packetwriter.c) promises the server: the *)
(* packets it accepts, numbered 1, 2, ... in the order in which they were  *)
(* accepted, are handed to the remote in that order, each one once, some   *)
(* of them at a time.                                                      *)
(***************************************************************************)
EXTENDS Naturals, Sequences

VARIABLES
    accepted,  \* number of packets accepted
    handed     \* the packets handed to the remote, in order

vars == <<accepted, handed>>

Init ==
    /\ accepted = 0
    /\ handed = <<>>

\* A packet is accepted.
Accept ==
    /\ accepted' = accepted + 1
    /\ UNCHANGED handed

\* The next n packets that wait are handed to the remote.
Hand(n) ==
    /\ Len(handed) + n <= accepted
    /\ handed' = handed \o [i \in 1..n |-> Len(handed) + i]
    /\ UNCHANGED accepted

Next == Accept \/ \E n \in 1..accepted : Hand(n)

Spec == Init /\ [][Next]_vars

=============================================================================
