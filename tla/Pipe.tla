-------------------------------- MODULE Pipe --------------------------------
(***************************************************************************)
(* What a session promises one of its destinations: the packets of the      *)
(* stream in the order they were received, each at most once, and none lost *)
(* while less than Room is on its way. Packets are PacketSize bytes (188 in *)
(* the program) and bytes are numbered from 1 in the order they arrive.     *)
(***************************************************************************)
EXTENDS Naturals, Sequences

CONSTANTS
    PacketSize,
    Room,
    MaxBytes    \* bound: how much of a stream is received

VARIABLES
    next,    \* the number of the next byte
    queue,   \* the bytes on their way
    out      \* the bytes delivered

vars == <<next, queue, out>>

Packet(n) == [i \in 1 .. PacketSize |-> n + i - 1]

Drop(s, n) == SubSeq(s, n + 1, Len(s))

Init == next = 1 /\ queue = <<>> /\ out = <<>>

\* A packet arrives; without room those that arrived last may be lost.
Put ==
    /\ next <= MaxBytes
    /\ \E kept \in 0 .. Len(queue) :
          /\ kept = Len(queue) \/ Len(queue) + PacketSize >= Room
          /\ queue' = SubSeq(queue, 1, kept) \o Packet(next)
    /\ next' = next + PacketSize
    /\ UNCHANGED out

\* Without room the oldest may be lost.
Lose ==
    /\ Len(queue) >= Room
    /\ \E n \in 1 .. Len(queue) : queue' = Drop(queue, n)
    /\ UNCHANGED <<next, out>>

Deliver ==
    /\ \E n \in 1 .. Len(queue) :
          /\ out' = out \o SubSeq(queue, 1, n)
          /\ queue' = Drop(queue, n)
    /\ UNCHANGED next

Next == Put \/ Lose \/ Deliver

Spec == Init /\ [][Next]_vars

-----------------------------------------------------------------------------
\* The stream reaches its destination in order, no byte twice.
InOrder ==
    LET all == out \o queue IN
    \A i, j \in 1 .. Len(all) : i < j => all[i] < all[j]
=============================================================================
