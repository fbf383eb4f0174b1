------------------------------ MODULE Delivery ------------------------------
(***************************************************************************)
(* How the stream of a session reaches one of its destinations: the hardware*)
(* thread puts the packets into the session's buffer (session_write), the   *)
(* session's buffer threads take the buffer over and pass what they took to *)
(* the destination (destination_process), which has a buffer of its own and *)
(* empties it as its kind does: UDP and multicast datagrams, blocks of a    *)
(* file, or the reads of a web connection.                                  *)
(*                                                                         *)
(* Both buffers are written under their locks, so an access to one is one   *)
(* action; session_write looks for room in the session's buffer before it   *)
(* takes the lock. destination_process runs under the destination list's    *)
(* lock as a whole. Sizes are in bytes, of which a packet has PacketSize.   *)
(***************************************************************************)
EXTENDS Integers, Sequences, FiniteSets, SequencesExt

CONSTANTS
    PacketSize,    \* 188
    SessionCap,    \* the session's buffer, 1024*1024
    DestCap,       \* bufferSize
    UdpMark,       \* a datagram is sent when there is more than this (188*4),
    UdpSize,       \* and has this size (188*3)
    McastMark,     \* 188*10
    MaxDatagram,   \* the largest datagram sendto accepts
    Block,         \* 4096
    HttpMark,      \* 188*50
    MaxRead,       \* the most a web connection asks for at a time (4096)
    Kinds,         \* the kinds of destination looked at
    ThreadSets,    \* the buffer threads: two if the session took its tuner, or one
    MaxBytes       \* bound: how much of a stream is received

ASSUME SizesAssumption ==
    /\ {PacketSize, SessionCap, DestCap, UdpSize, Block, MaxRead} \subseteq Nat \ {0}
    /\ {UdpMark, McastMark, MaxDatagram, HttpMark, MaxBytes} \subseteq Nat
    /\ UdpSize <= UdpMark /\ PacketSize < SessionCap
ASSUME DatagramAssumption == UdpSize % PacketSize = 0
ASSUME KindsAssumption ==
    /\ Kinds \subseteq {"udp", "mcast", "file", "http"}
    /\ \A threads \in ThreadSets : IsFiniteSet(threads) /\ threads # {}

VARIABLES
    kind,     \* of the destination
    next,     \* the number of the next byte of the stream
    hw,       \* session_write: "check" or "write"
    fits,     \* what it found
    sbuf,     \* session->buffer, its first bufferPtr bytes
    pc,       \* each buffer thread: "copy" or "process"
    temp,     \* its inTempBuffer
    dbuf,     \* destination->buffer, its first bufptr bytes
    out       \* what has left the program for the destination

vars == <<kind, next, hw, fits, sbuf, pc, temp, dbuf, out>>

Packet(n) == [i \in 1 .. PacketSize |-> n + i - 1]

Drop(s, n) == SubSeq(s, n + 1, Len(s))

Init ==
    /\ kind \in Kinds
    /\ next = 1 /\ hw = "check" /\ fits = TRUE
    /\ sbuf = <<>> /\ dbuf = <<>> /\ out = <<>>
    /\ \E threads \in ThreadSets :
          pc = [t \in threads |-> "copy"] /\ temp = [t \in threads |-> <<>>]

Threads == DOMAIN pc

-----------------------------------------------------------------------------
(* session_write, of one packet.                                           *)

\* Seeded fault: the length of the packet is not counted in.
HwCheckIgnoresLength ==
    /\ hw = "check" /\ next <= MaxBytes
    /\ fits' = (Len(sbuf) < SessionCap)
    /\ hw' = "write"
    /\ UNCHANGED <<kind, next, sbuf, pc, temp, dbuf, out>>

\* Without the lock.
HwCheck ==
    /\ hw = "check" /\ next <= MaxBytes
    /\ fits' = (Len(sbuf) + PacketSize < SessionCap)
    /\ hw' = "write"
    /\ UNCHANGED <<kind, next, sbuf, pc, temp, dbuf, out>>

\* With it: the packet is appended, or replaces all there is.
HwWrite ==
    /\ hw = "write"
    /\ sbuf' = (IF fits THEN sbuf ELSE <<>>) \o Packet(next)
    /\ next' = next + PacketSize
    /\ hw' = "check"
    /\ UNCHANGED <<kind, fits, pc, temp, dbuf, out>>

-----------------------------------------------------------------------------
(* destination_thread_run.                                                 *)

\* Seeded fault: bufferPtr is not reset.
BufCopyKeeps(t) ==
    /\ pc[t] = "copy"
    /\ temp' = [temp EXCEPT ![t] = sbuf]
    /\ pc' = [pc EXCEPT ![t] = "process"]
    /\ UNCHANGED <<kind, next, hw, fits, sbuf, dbuf, out>>

BufCopy(t) ==
    /\ pc[t] = "copy"
    /\ temp' = [temp EXCEPT ![t] = sbuf]
    /\ sbuf' = <<>>
    /\ pc' = [pc EXCEPT ![t] = "process"]
    /\ UNCHANGED <<kind, next, hw, fits, dbuf, out>>

\* destination_addToBuffer: what does not fit is dropped with all there is.
AddToBuffer(data) == IF Len(data) + Len(dbuf) < DestCap THEN dbuf \o data ELSE <<>>

\* Seeded fault: a datagram ends inside a packet.
DatagramTorn(buffer) ==
    IF kind = "udp" THEN {n \in {0, UdpSize - 1} : n > 0 => Len(buffer) > UdpMark} ELSE {0}

\* Seeded fault: a datagram is only sent when there is twice as much.
DatagramLate(buffer) ==
    IF kind = "udp" THEN {n \in {0, UdpSize} : n > 0 => Len(buffer) > UdpMark + UdpSize} ELSE {0}

\* How much destination_processUDP and destination_processMCAST may send off the
\* front of the buffer: sendto may fail, and does if there is too much for it.
Datagram(buffer) ==
    CASE kind = "udp" -> {n \in {0, UdpSize} : n > 0 => Len(buffer) > UdpMark}
      [] kind = "mcast" ->
            {n \in {0, Len(buffer)} : n > 0 => Len(buffer) > McastMark /\ Len(buffer) <= MaxDatagram}
      [] OTHER -> {0}

\* destination_processFILE: whole blocks. "if ((dest->fd > 0) && (write_data=1))"
\* assigns, so that neither file_write_time nor the fill of the buffer matters.
Blocks(buffer) == (Len(buffer) \div Block) * Block

BufProcess(t) ==
    LET buffer == AddToBuffer(temp[t]) IN
    /\ pc[t] = "process"
    /\ \E n \in IF kind = "file" THEN {Blocks(buffer)} ELSE Datagram(buffer) :
          /\ out' = out \o SubSeq(buffer, 1, n)
          /\ dbuf' = Drop(buffer, n)
    /\ temp' = [temp EXCEPT ![t] = <<>>]
    /\ pc' = [pc EXCEPT ![t] = "copy"]
    /\ UNCHANGED <<kind, next, hw, fits, sbuf>>

BufStep(t) == BufCopy(t) \/ BufProcess(t)

-----------------------------------------------------------------------------
\* stream_buffer_reader and destination_getDatafromBuffer.
HttpRead ==
    /\ kind = "http" /\ Len(dbuf) >= HttpMark /\ dbuf # <<>>
    /\ \E max \in 1 .. MaxRead :
          LET n == IF max > Len(dbuf) THEN Len(dbuf) ELSE max IN
          /\ out' = out \o SubSeq(dbuf, 1, n)
          /\ dbuf' = Drop(dbuf, n)
    /\ UNCHANGED <<kind, next, hw, fits, sbuf, pc, temp>>

-----------------------------------------------------------------------------
Next == HwCheck \/ HwWrite \/ (\E t \in Threads : BufStep(t)) \/ HttpRead

Spec == Init /\ [][Next]_vars

\* The buffer threads loop as long as the session lives; sendto fails for a
\* while, not for ever.
Fairness ==
    \A t \in UNION ThreadSets :
        /\ WF_vars(t \in Threads /\ BufStep(t))
        /\ SF_vars(t \in Threads /\ BufProcess(t) /\ out' # out)

FairSpec == Spec /\ Fairness

-----------------------------------------------------------------------------
Bytes == 1 .. MaxBytes + PacketSize

TypeOK ==
    /\ kind \in Kinds /\ hw \in {"check", "write"} /\ fits \in BOOLEAN
    /\ next \in Bytes
    /\ \A s \in {sbuf, dbuf, out} \cup {temp[t] : t \in Threads} :
          Len(s) <= MaxBytes + PacketSize /\ \A i \in DOMAIN s : s[i] \in Bytes
    /\ Threads \in ThreadSets /\ DOMAIN temp = Threads
    /\ \A t \in Threads : pc[t] \in {"copy", "process"}

\* Neither buffer is overrun, although session_write looks for room without the
\* lock and has the answer when the buffer has changed.
NoOverrun == Len(sbuf) < SessionCap /\ Len(dbuf) < DestCap

StartsPacket(s) == s = <<>> \/ Head(s) % PacketSize = 1 % PacketSize

\* A datagram starts with the start of a packet, and holds whole packets, also
\* after buffers have been dumped.
WholePackets ==
    kind \in {"udp", "mcast"} =>
        /\ \A s \in {sbuf, dbuf} \cup {temp[t] : t \in Threads} :
              StartsPacket(s) /\ Len(s) % PacketSize = 0
        /\ Len(out) % PacketSize = 0

\* Nothing is delivered twice, and nothing comes back: also not when two threads
\* take turns at the session's buffer.
AtMostOnce ==
    LET places == <<sbuf, dbuf, out>>
        Has(s, b) == \E i \in DOMAIN s : s[i] = b
    IN  \A b \in 1 .. next - 1 :
            /\ Cardinality({i \in DOMAIN out : out[i] = b}) <= 1
            /\ \A i, j \in 1 .. 3 : Has(places[i], b) /\ Has(places[j], b) => i = j
            /\ \A t \in Threads : Has(temp[t], b) => \A i \in 1 .. 3 : ~Has(places[i], b)

TheThread == CHOOSE t \in Threads : TRUE

Smaller(a, b) == IF a < b THEN a ELSE b

\* With one buffer thread, session and destination are a pipe that keeps the
\* order and loses nothing while there is room. (With two, the thread that took
\* later data may pass it on first.)
P == INSTANCE Pipe WITH queue <- dbuf \o temp[TheThread] \o sbuf,
                        Room <- Smaller(SessionCap, DestCap)

PipeSteps == P!Init /\ [][Cardinality(Threads) = 1 => P!Next]_(P!vars)

\* A backlog of datagrams is sent when the stream stops, down to the mark.
Drains ==
    kind = "udp" => <>[](sbuf = <<>> /\ Len(dbuf) <= UdpMark /\ \A t \in Threads : temp[t] = <<>>)

-----------------------------------------------------------------------------
(* The inductive invariant behind NoOverrun and PipeSteps.                  *)

Typed ==
    /\ kind \in Kinds /\ hw \in {"check", "write"} /\ fits \in BOOLEAN /\ next \in Nat
    /\ sbuf \in Seq(Nat) /\ dbuf \in Seq(Nat) /\ out \in Seq(Nat)
    /\ Threads \in ThreadSets
    /\ pc \in [Threads -> {"copy", "process"}]
    /\ temp \in [Threads -> Seq(Nat)]

\* What session_write found out about the session's buffer may be out of date
\* when it takes the lock, but only because the buffer has been emptied.
RoomSeen ==
    hw = "write" =>
        /\ next <= MaxBytes
        /\ fits => Len(sbuf) + PacketSize < SessionCap
        /\ ~fits => sbuf = <<>> \/ Len(sbuf) + PacketSize >= SessionCap

TempEmpty == \A t \in Threads : pc[t] = "copy" => temp[t] = <<>>

IInv == Typed /\ RoomSeen /\ TempEmpty /\ NoOverrun

\* What is behind AtMostOnce: every byte has one place, also among the copies of
\* several threads.
Once(s) == \A i, j \in DOMAIN s : s[i] = s[j] => i = j
Disjoint(s, t) == ToSet(s) \cap ToSet(t) = {}

Apart ==
    /\ next \in 1 .. MaxBytes + PacketSize
    /\ \A s \in {sbuf, dbuf, out} \cup {temp[t] : t \in Threads} :
          Once(s) /\ ToSet(s) \subseteq 1 .. next - 1
    /\ Disjoint(sbuf, dbuf) /\ Disjoint(sbuf, out) /\ Disjoint(dbuf, out)
    /\ \A t \in Threads :
          /\ Disjoint(temp[t], sbuf) /\ Disjoint(temp[t], dbuf) /\ Disjoint(temp[t], out)
          /\ \A u \in Threads \ {t} : Disjoint(temp[t], temp[u])

\* And behind WholePackets: where a byte stands in a buffer tells where it stood
\* in its packet.
Whole(n) == n % PacketSize = 0
Aligned(s) == Whole(Len(s)) /\ \A i \in DOMAIN s : Whole(s[i] - i)

InPackets ==
    kind \in {"udp", "mcast"} =>
        /\ Whole(next - 1) /\ Whole(Len(out))
        /\ \A s \in {sbuf, dbuf} \cup {temp[t] : t \in Threads} : Aligned(s)
=============================================================================
