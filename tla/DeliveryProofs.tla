--------------------------- MODULE DeliveryProofs ---------------------------
(***************************************************************************)
(* Proofs about the delivery, for every size of packet, buffer and block,   *)
(* every mark, and every number of buffer threads.                          *)
(***************************************************************************)
EXTENDS Delivery, Integers, SequenceTheorems, FiniteSetTheorems, TLAPS

\* The pipe with what is proved about it.
Q == INSTANCE PipeProofs WITH queue <- dbuf \o temp[TheThread] \o sbuf,
                              Room <- Smaller(SessionCap, DestCap)

LEMMA DivisionRoundsDown ==
    ASSUME NEW a \in Nat, NEW b \in Nat \ {0}
    PROVE  (a \div b) * b \in Nat /\ (a \div b) * b <= a
<1>1. a \div b \in Nat
  BY SMT
<1>2. (a \div b) * b <= a
  BY SMT
<1>3. (a \div b) * b \in Nat
  BY <1>1, SMT
<1> QED
  BY <1>2, <1>3

\* What destination_addToBuffer leaves fits the buffer.
LEMMA AddedFits ==
    ASSUME NEW data \in Seq(Nat), dbuf \in Seq(Nat)
    PROVE  AddToBuffer(data) \in Seq(Nat) /\ Len(AddToBuffer(data)) < DestCap
<1>1. dbuf \o data \in Seq(Nat) /\ Len(dbuf \o data) = Len(data) + Len(dbuf)
  BY ConcatProperties, LenProperties
<1>2. <<>> \in Seq(Nat) /\ Len(<<>>) = 0
  BY EmptySeq
<1> QED
  BY <1>1, <1>2, SizesAssumption DEF AddToBuffer

Sendable(buffer) == IF kind = "file" THEN {Blocks(buffer)} ELSE Datagram(buffer)

\* What is sent is in the buffer.
LEMMA SendableFacts ==
    ASSUME NEW buffer \in Seq(Nat), NEW n \in Sendable(buffer), kind \in Kinds
    PROVE  n \in Nat /\ n <= Len(buffer)
<1>1. Len(buffer) \in Nat
  BY LenProperties
<1>2. CASE kind = "file"
  BY <1>1, <1>2, DivisionRoundsDown, SizesAssumption DEF Sendable, Blocks
<1>3. CASE kind = "udp"
  BY <1>1, <1>3, SizesAssumption DEF Sendable, Datagram
<1>4. CASE kind = "mcast"
  BY <1>1, <1>4 DEF Sendable, Datagram
<1>5. CASE kind = "http"
  BY <1>1, <1>5 DEF Sendable, Datagram
<1> QED
  BY <1>2, <1>3, <1>4, <1>5, KindsAssumption

LEMMA PacketIsSeq == ASSUME NEW n \in Nat PROVE Packet(n) \in Seq(Nat) /\ Len(Packet(n)) = PacketSize
<1>1. Packet(n) \in [1 .. PacketSize -> Nat]
  BY SizesAssumption DEF Packet
<1> QED
  BY <1>1, SizesAssumption

\* Taking the front off a buffer.
LEMMA DropFacts ==
    ASSUME NEW s \in Seq(Nat), NEW n \in Nat, n <= Len(s)
    PROVE  Drop(s, n) \in Seq(Nat) /\ Len(Drop(s, n)) <= Len(s)
BY Q!RestOf, LenProperties DEF Drop

-----------------------------------------------------------------------------
LEMMA InitInv == Init => IInv
<1> SUFFICES ASSUME Init PROVE IInv
  OBVIOUS
<1>1. PICK threads \in ThreadSets : pc = [t \in threads |-> "copy"] /\ temp = [t \in threads |-> <<>>]
  BY DEF Init
<1>2. <<>> \in Seq(Nat) /\ Len(<<>>) = 0
  BY EmptySeq
<1>3. Threads = threads
  BY <1>1 DEF Threads
<1>4. Typed
  BY <1>1, <1>2, <1>3 DEF Init, Typed
<1> QED
  BY <1>1, <1>2, <1>3, <1>4, SizesAssumption DEF Init, IInv, RoomSeen, TempEmpty, NoOverrun

LEMMA StepInv == IInv /\ [Next]_vars => IInv'
<1> SUFFICES ASSUME IInv, [Next]_vars PROVE IInv'
  OBVIOUS
<1> USE DEF IInv
<1>t. /\ Len(sbuf) \in Nat /\ Len(dbuf) \in Nat
      /\ <<>> \in Seq(Nat) /\ Len(<<>>) = 0
  BY EmptySeq, LenProperties DEF Typed
<1>1. CASE HwCheck
  <2>1. Typed' /\ TempEmpty' /\ NoOverrun'
    BY <1>1 DEF HwCheck, Typed, TempEmpty, NoOverrun, Threads
  <2>2. RoomSeen'
    <3>1. sbuf' = sbuf /\ next' = next /\ next <= MaxBytes
      BY <1>1 DEF HwCheck
    <3>2. fits' <=> Len(sbuf) + PacketSize < SessionCap
      BY <1>1 DEF HwCheck
    <3>3. ~(Len(sbuf) + PacketSize < SessionCap) => Len(sbuf) + PacketSize >= SessionCap
      BY <1>t, SizesAssumption
    <3> QED
      BY <3>1, <3>2, <3>3, Zenon DEF RoomSeen
  <2> QED
    BY <2>1, <2>2
<1>2. CASE HwWrite
  <2> DEFINE before == IF fits THEN sbuf ELSE <<>>
  <2>1. before \in Seq(Nat) /\ Len(before) + PacketSize < SessionCap
    BY <1>2, <1>t, SizesAssumption DEF HwWrite, Typed, RoomSeen
  <2>2. sbuf' = before \o Packet(next) /\ next' = next + PacketSize
    BY <1>2 DEF HwWrite
  <2> HIDE DEF before
  <2>3. sbuf' \in Seq(Nat) /\ Len(sbuf') < SessionCap
    BY <2>1, <2>2, PacketIsSeq, ConcatProperties DEF Typed
  <2>4. Typed'
    <3>1. PacketSize \in Nat /\ next \in Nat
      BY SizesAssumption DEF Typed
    <3>2. next' \in Nat
      BY <2>2, <3>1
    <3> QED
      BY <1>2, <2>3, <3>2 DEF HwWrite, Typed, Threads
  <2> QED
    BY <1>2, <2>3, <2>4 DEF HwWrite, RoomSeen, TempEmpty, NoOverrun, Threads
<1>3. ASSUME NEW t \in Threads, BufCopy(t) PROVE IInv'
  <2>1. Threads' = Threads
    BY <1>3 DEF BufCopy, Typed, Threads
  <2>2. Typed'
    BY <1>3, <1>t, <2>1 DEF BufCopy, Typed
  <2>3. TempEmpty'
    BY <1>3, <2>1 DEF BufCopy, Typed, TempEmpty
  <2> QED
    BY <1>3, <1>t, <2>2, <2>3, SizesAssumption DEF BufCopy, RoomSeen, NoOverrun
<1>4. ASSUME NEW t \in Threads, BufProcess(t) PROVE IInv'
  <2> DEFINE buffer == AddToBuffer(temp[t])
  <2>1. buffer \in Seq(Nat) /\ Len(buffer) < DestCap /\ Len(buffer) \in Nat
    BY AddedFits, LenProperties DEF Typed
  <2>2. PICK n \in Sendable(buffer) : out' = out \o SubSeq(buffer, 1, n) /\ dbuf' = Drop(buffer, n)
    BY <1>4 DEF BufProcess, Sendable
  <2> HIDE DEF buffer
  <2>3. n \in Nat /\ n <= Len(buffer)
    BY <2>1, <2>2, SendableFacts DEF Typed
  <2>4. dbuf' \in Seq(Nat) /\ Len(dbuf') \in Nat /\ Len(dbuf') < DestCap
    <3>1. dbuf' \in Seq(Nat) /\ Len(dbuf') <= Len(buffer)
      BY <2>1, <2>2, <2>3, DropFacts
    <3>2. DestCap \in Nat /\ Len(dbuf') \in Nat
      BY <3>1, LenProperties, SizesAssumption
    <3> QED
      BY <2>1, <3>1, <3>2
  <2>5. out' \in Seq(Nat)
    <3>1. SubSeq(buffer, 1, n) \in Seq(Nat)
      BY <2>1, <2>3, Q!FrontOf
    <3> QED
      BY <2>2, <3>1, ConcatProperties DEF Typed
  <2>6. Threads' = Threads
    BY <1>4 DEF BufProcess, Typed, Threads
  <2>7. Typed'
    BY <1>4, <1>t, <2>4, <2>5, <2>6 DEF BufProcess, Typed
  <2>8. TempEmpty'
    BY <1>4, <2>6 DEF BufProcess, Typed, TempEmpty
  <2> QED
    BY <1>4, <2>4, <2>7, <2>8 DEF BufProcess, RoomSeen, NoOverrun
<1>5. CASE HttpRead
  <2>1. PICK n \in Nat : /\ n <= Len(dbuf)
                         /\ out' = out \o SubSeq(dbuf, 1, n) /\ dbuf' = Drop(dbuf, n)
    <3>1. PICK max \in 1 .. MaxRead :
             LET n == IF max > Len(dbuf) THEN Len(dbuf) ELSE max IN
             out' = out \o SubSeq(dbuf, 1, n) /\ dbuf' = Drop(dbuf, n)
      BY <1>5 DEF HttpRead
    <3> DEFINE n == IF max > Len(dbuf) THEN Len(dbuf) ELSE max
    <3>2. max \in Nat /\ Len(dbuf) \in Nat
      BY <1>t, SizesAssumption
    <3>3. n \in Nat /\ n <= Len(dbuf)
      BY <3>2
    <3>4. out' = out \o SubSeq(dbuf, 1, n) /\ dbuf' = Drop(dbuf, n)
      BY <3>1
    <3> HIDE DEF n
    <3> QED
      BY <3>3, <3>4
  <2>2. dbuf' \in Seq(Nat) /\ Len(dbuf') \in Nat /\ Len(dbuf') < DestCap
    <3>1. dbuf' \in Seq(Nat) /\ Len(dbuf') <= Len(dbuf)
      BY <2>1, DropFacts DEF Typed
    <3>2. DestCap \in Nat /\ Len(dbuf') \in Nat
      BY <3>1, LenProperties, SizesAssumption
    <3> QED
      BY <1>t, <3>1, <3>2 DEF NoOverrun
  <2>3. out' \in Seq(Nat)
    <3>1. SubSeq(dbuf, 1, n) \in Seq(Nat)
      BY <2>1, Q!FrontOf DEF Typed
    <3> QED
      BY <2>1, <3>1, ConcatProperties DEF Typed
  <2> QED
    <3>1. UNCHANGED <<kind, next, hw, fits, sbuf, pc, temp>> /\ Threads' = Threads
      BY <1>5 DEF HttpRead, Threads
    <3>2. Typed'
      BY <2>2, <2>3, <3>1 DEF Typed
    <3> QED
      BY <2>2, <3>1, <3>2 DEF RoomSeen, TempEmpty, NoOverrun
<1>6. CASE UNCHANGED vars
  BY <1>6 DEF vars, Typed, RoomSeen, TempEmpty, NoOverrun, Threads
<1> QED
  BY <1>1, <1>2, <1>3, <1>4, <1>5, <1>6 DEF Next, BufStep

THEOREM Inductive == Spec => []IInv
BY InitInv, StepInv, PTL DEF Spec

\* Neither the session's nor the destination's buffer is overrun, whatever
\* their sizes and however many threads empty the session's.
THEOREM BuffersHold == Spec => []NoOverrun
<1>1. IInv => NoOverrun
  BY DEF IInv
<1> QED
  BY <1>1, Inductive, PTL

-----------------------------------------------------------------------------
(* With one buffer thread th, the bytes on their way are queue: those of the *)
(* destination's buffer, of the thread's copy and of the session's buffer.   *)

Way(th) == (dbuf \o temp[th]) \o sbuf

\* The refinement mapping, for the one thread there is.
LEMMA Mapping ==
    ASSUME IInv, [Next]_vars, NEW th, Threads = {th}
    PROVE  /\ P!vars = <<next, Way(th), out>>
           /\ (P!vars)' = <<next', Way(th)', out'>>
           /\ TheThread = th /\ TheThread' = th
<1>1. Threads' = Threads
  <2>1. ASSUME NEW t \in Threads, BufStep(t) PROVE Threads' = Threads
    BY <2>1 DEF BufStep, BufCopy, BufProcess, IInv, Typed, Threads
  <2> QED
    BY <2>1 DEF Next, HwCheck, HwWrite, HttpRead, vars, Threads
<1>2. TheThread = th /\ TheThread' = th
  BY <1>1 DEF TheThread
<1> QED
  BY <1>2 DEF P!vars, Way

\* What Drop and SubSeq take off the front of the way, if it is in s.
LEMMA FrontOfWay ==
    ASSUME NEW s \in Seq(Nat), NEW t \in Seq(Nat), NEW n \in Nat, n <= Len(s)
    PROVE  /\ Drop(s \o t, n) = Drop(s, n) \o t
           /\ SubSeq(s \o t, 1, n) = SubSeq(s, 1, n)
BY Q!FrontOfConcat, Q!RestOfConcat DEF Drop

LEMMA WriteIsPut ==
    ASSUME IInv, NEW th \in Threads, HwWrite, Way(th)' = (dbuf \o temp[th]) \o sbuf'
    PROVE  /\ next <= MaxBytes /\ next' = next + PacketSize /\ out' = out
           /\ \E kept \in 0 .. Len(Way(th)) :
                 /\ kept = Len(Way(th)) \/ Len(Way(th)) + PacketSize >= Smaller(SessionCap, DestCap)
                 /\ Way(th)' = SubSeq(Way(th), 1, kept) \o Packet(next)
<1> DEFINE front == dbuf \o temp[th]
<1>1. /\ front \in Seq(Nat) /\ sbuf \in Seq(Nat) /\ Packet(next) \in Seq(Nat)
      /\ Len(front) \in Nat /\ Len(sbuf) \in Nat
  BY PacketIsSeq, ConcatProperties, LenProperties DEF IInv, Typed
<1>2. Way(th) = front \o sbuf /\ Way(th)' = front \o sbuf'
  BY DEF Way
<1> HIDE DEF front
<1>3. Way(th) \in Seq(Nat) /\ Len(Way(th)) = Len(front) + Len(sbuf)
  BY <1>1, <1>2, ConcatProperties
<1>4. CASE fits
  <2>1. sbuf' = sbuf \o Packet(next)
    BY <1>4 DEF HwWrite
  <2>2. Way(th)' = Way(th) \o Packet(next)
    <3>1. (front \o sbuf) \o Packet(next) = front \o (sbuf \o Packet(next))
      BY ONLY <1>1, Q!Associative
    <3>2. Way(th)' = front \o (sbuf \o Packet(next))
      BY <1>2, <2>1
    <3> QED
      BY <1>2, <3>1, <3>2
  <2>3. Way(th) = SubSeq(Way(th), 1, Len(Way(th)))
    BY <1>3, SubSeqFull
  <2>4. Len(Way(th)) \in 0 .. Len(Way(th))
    BY <1>1, <1>3
  <2>5. next <= MaxBytes /\ next' = next + PacketSize /\ out' = out
    BY DEF HwWrite, IInv, RoomSeen
  <2> QED
    BY <2>2, <2>3, <2>4, <2>5
<1>5. CASE ~fits
  <2>1. sbuf' = Packet(next)
    BY <1>1, <1>5, ConcatEmptySeq DEF HwWrite
  <2>2. SubSeq(Way(th), 1, Len(front)) = front
    BY <1>1, <1>2, Q!FrontOfConcat, SubSeqFull
  <2>3. Way(th)' = SubSeq(Way(th), 1, Len(front)) \o Packet(next)
    BY <1>2, <2>1, <2>2
  <2>4. Len(front) \in 0 .. Len(Way(th))
    BY <1>1, <1>3
  <2>5. sbuf = <<>> \/ Len(sbuf) + PacketSize >= SessionCap
    BY <1>5 DEF HwWrite, IInv, RoomSeen
  <2>6. Len(front) = Len(Way(th)) \/ Len(Way(th)) + PacketSize >= Smaller(SessionCap, DestCap)
    <3>1. CASE sbuf = <<>>
      BY <1>1, <1>3, <3>1, EmptySeq
    <3>2. CASE Len(sbuf) + PacketSize >= SessionCap
      <4>1. Smaller(SessionCap, DestCap) \in Nat /\ Smaller(SessionCap, DestCap) <= SessionCap
        BY SizesAssumption DEF Smaller
      <4>3. Len(Way(th)) \in Nat /\ PacketSize \in Nat /\ SessionCap \in Nat
        BY <1>1, <1>3, SizesAssumption
      <4>2. Len(Way(th)) + PacketSize >= SessionCap
        BY <1>1, <1>3, <3>2, <4>3
      <4> QED
        BY <4>1, <4>2, <4>3
    <3> QED
      BY <2>5, <3>1, <3>2
  <2> QED
    BY <2>3, <2>4, <2>6 DEF HwWrite, IInv, RoomSeen
<1> QED
  BY <1>4, <1>5

\* Sending off the front, or dumping, when the thread has processed its copy.
LEMMA ProcessIsDeliverOrLose ==
    ASSUME IInv, NEW th \in Threads, BufProcess(th)
    PROVE  /\ next' = next
           /\ \/ Way(th)' = Way(th) /\ out' = out
              \/ \E n \in 1 .. Len(Way(th)) :
                    /\ out' = out \o SubSeq(Way(th), 1, n)
                    /\ Way(th)' = Drop(Way(th), n)
              \/ /\ Len(Way(th)) >= Smaller(SessionCap, DestCap) /\ out' = out
                 /\ \E n \in 1 .. Len(Way(th)) : Way(th)' = Drop(Way(th), n)
<1> DEFINE front == dbuf \o temp[th]
<1> DEFINE buffer == AddToBuffer(temp[th])
<1>1. /\ front \in Seq(Nat) /\ sbuf \in Seq(Nat) /\ temp[th] \in Seq(Nat) /\ out \in Seq(Nat)
      /\ Len(front) \in Nat /\ Len(sbuf) \in Nat /\ Len(front) = Len(dbuf) + Len(temp[th])
      /\ <<>> \in Seq(Nat) /\ Len(<<>>) = 0
  BY ConcatProperties, LenProperties, EmptySeq DEF IInv, Typed
<1>2. buffer \in Seq(Nat) /\ buffer = IF Len(front) < DestCap THEN front ELSE <<>>
  <2>1. Len(temp[th]) + Len(dbuf) = Len(front)
    BY <1>1, LenProperties DEF IInv, Typed
  <2> QED
    BY <1>1, <2>1, AddedFits DEF IInv, Typed, AddToBuffer
<1>3. PICK n \in Sendable(buffer) : out' = out \o SubSeq(buffer, 1, n) /\ dbuf' = Drop(buffer, n)
  BY DEF BufProcess, Sendable
<1>4. temp'[th] = <<>> /\ sbuf' = sbuf /\ next' = next
  BY DEF BufProcess, IInv, Typed
<1>5. Way(th) = front \o sbuf /\ Way(th)' = (dbuf' \o <<>>) \o sbuf
  BY <1>4 DEF Way
<1> HIDE DEF front, buffer
<1>6. n \in Nat /\ n <= Len(buffer)
  BY <1>2, <1>3, SendableFacts DEF IInv, Typed
<1>7. Way(th)' = Drop(buffer, n) \o sbuf
  BY <1>1, <1>2, <1>3, <1>5, <1>6, DropFacts, ConcatEmptySeq
<1>8. /\ front \o sbuf \in Seq(Nat)
      /\ Len(front \o sbuf) = Len(front) + Len(sbuf)
  BY <1>1, ConcatProperties
<1>9. CASE Len(front) < DestCap
  <2>1. buffer = front
    BY <1>2, <1>9
  <2>2. Way(th)' = Drop(Way(th), n) /\ out' = out \o SubSeq(Way(th), 1, n)
    <3>1. /\ Drop(front \o sbuf, n) = Drop(front, n) \o sbuf
          /\ SubSeq(front \o sbuf, 1, n) = SubSeq(front, 1, n)
      BY <1>1, <1>6, <2>1, FrontOfWay
    <3> QED
      BY <1>3, <1>5, <1>7, <2>1, <3>1
  <2>3. CASE n = 0
    <3>1. Way(th) \in Seq(Nat)
      BY <1>5, <1>8
    <3>2. Drop(Way(th), 0) = Way(th) /\ SubSeq(Way(th), 1, 0) = <<>>
      BY <3>1, Q!NoPart DEF Drop
    <3> QED
      BY <1>1, <1>4, <2>2, <2>3, <3>2, ConcatEmptySeq
  <2>4. CASE n # 0
    <3>1. n \in 1 .. Len(Way(th))
      BY <1>1, <1>5, <1>6, <1>8, <2>1, <2>4
    <3> QED
      BY <1>4, <2>2, <3>1
  <2> QED
    BY <2>3, <2>4
<1>10. CASE ~(Len(front) < DestCap)
  <2>1. buffer = <<>> /\ n = 0
    BY <1>1, <1>2, <1>6, <1>10
  <2>2. out' = out
    BY <1>1, <1>3, <2>1, Q!NoPart, ConcatEmptySeq
  <2>3. Way(th)' = sbuf
    BY <1>1, <1>7, <2>1, Q!NoPart, ConcatEmptySeq DEF Drop
  <2>4. Drop(front, Len(front)) = <<>>
    BY <1>1, SubSeqEmpty DEF Drop
  <2>5. Drop(Way(th), Len(front)) = sbuf
    <3>0. Len(front) \in Nat /\ Len(front) <= Len(front)
      BY <1>1
    <3>1. Drop(front \o sbuf, Len(front)) = Drop(front, Len(front)) \o sbuf
      BY <1>1, <3>0, FrontOfWay
    <3>2. <<>> \o sbuf = sbuf
      BY <1>1, ConcatEmptySeq
    <3> QED
      BY <1>5, <2>4, <3>1, <3>2
  <2>6. /\ Len(front) \in 1 .. Len(Way(th))
        /\ Len(Way(th)) >= Smaller(SessionCap, DestCap)
    <3>1. Smaller(SessionCap, DestCap) \in Nat /\ Smaller(SessionCap, DestCap) <= DestCap
      BY SizesAssumption DEF Smaller
    <3>2. DestCap \in Nat \ {0}
      BY SizesAssumption
    <3>3. Len(Way(th)) = Len(front) + Len(sbuf)
      BY <1>5, <1>8
    <3> QED
      BY <1>1, <1>10, <3>1, <3>2, <3>3
  <2> QED
    BY <1>4, <2>2, <2>3, <2>5, <2>6
<1> QED
  BY <1>9, <1>10

\* Reading off the front by a web connection.
LEMMA ReadIsDeliver ==
    ASSUME IInv, NEW th \in Threads, HttpRead
    PROVE  /\ next' = next
           /\ \E n \in 1 .. Len(Way(th)) :
                 /\ out' = out \o SubSeq(Way(th), 1, n)
                 /\ Way(th)' = Drop(Way(th), n)
<1> DEFINE front == dbuf \o temp[th]
<1>1. /\ dbuf \in Seq(Nat) /\ temp[th] \in Seq(Nat) /\ sbuf \in Seq(Nat) /\ front \in Seq(Nat)
      /\ Len(dbuf) \in Nat /\ Len(temp[th]) \in Nat /\ Len(sbuf) \in Nat
      /\ Len(front) = Len(dbuf) + Len(temp[th])
      /\ Len(front \o sbuf) = Len(front) + Len(sbuf)
      /\ dbuf # <<>> => Len(dbuf) # 0
  BY ConcatProperties, LenProperties, EmptySeq DEF IInv, Typed
<1>2. PICK n \in 1 .. Len(dbuf) : out' = out \o SubSeq(dbuf, 1, n) /\ dbuf' = Drop(dbuf, n)
  <2>1. PICK max \in 1 .. MaxRead :
           LET n == IF max > Len(dbuf) THEN Len(dbuf) ELSE max IN
           out' = out \o SubSeq(dbuf, 1, n) /\ dbuf' = Drop(dbuf, n)
    BY DEF HttpRead
  <2> DEFINE n == IF max > Len(dbuf) THEN Len(dbuf) ELSE max
  <2>2. n \in 1 .. Len(dbuf)
    <3>1. max \in Nat \ {0} /\ Len(dbuf) \in Nat \ {0}
      <4>1. dbuf # <<>>
        BY DEF HttpRead
      <4> QED
        BY <1>1, <4>1, SizesAssumption
    <3> QED
      BY <3>1
  <2>3. out' = out \o SubSeq(dbuf, 1, n) /\ dbuf' = Drop(dbuf, n)
    BY <2>1
  <2> QED
    BY <2>2, <2>3
<1>3. next' = next /\ temp' = temp /\ sbuf' = sbuf
  BY DEF HttpRead
<1>4. n \in Nat /\ n <= Len(dbuf) /\ n <= Len(front) /\ n \in 1 .. Len(front \o sbuf)
  BY <1>1, <1>2
<1>5. Drop(front, n) = dbuf' \o temp[th] /\ SubSeq(front, 1, n) = SubSeq(dbuf, 1, n)
  BY <1>1, <1>2, <1>4, FrontOfWay
<1>6. Drop(front \o sbuf, n) = Drop(front, n) \o sbuf /\ SubSeq(front \o sbuf, 1, n) = SubSeq(front, 1, n)
  BY <1>1, <1>4, FrontOfWay
<1>7. Way(th) = front \o sbuf /\ Way(th)' = (dbuf' \o temp[th]) \o sbuf
  BY <1>3 DEF Way
<1> HIDE DEF front
<1> QED
  BY <1>2, <1>3, <1>4, <1>5, <1>6, <1>7

\* Taking the session's buffer over changes nothing of the way.
LEMMA CopyIsStutter ==
    ASSUME IInv, NEW th \in Threads, BufCopy(th)
    PROVE  Way(th)' = Way(th) /\ next' = next /\ out' = out
<1>1. /\ temp[th] = <<>> /\ temp'[th] = sbuf /\ sbuf' = <<>>
      /\ dbuf' = dbuf /\ next' = next /\ out' = out
  BY DEF BufCopy, IInv, Typed, TempEmpty
<1>2. dbuf \in Seq(Nat) /\ sbuf \in Seq(Nat) /\ dbuf \o sbuf \in Seq(Nat)
  BY ConcatProperties DEF IInv, Typed
<1>3. Way(th) = (dbuf \o <<>>) \o sbuf /\ Way(th)' = (dbuf \o sbuf) \o <<>>
  BY <1>1 DEF Way
<1> QED
  BY <1>1, <1>2, <1>3, ConcatEmptySeq

LEMMA PipeInit ==
    ASSUME Init
    PROVE  P!Init
<1>1. PICK threads \in ThreadSets : pc = [t \in threads |-> "copy"] /\ temp = [t \in threads |-> <<>>]
  BY DEF Init
<1>2. Threads = threads /\ TheThread \in Threads
  BY <1>1, KindsAssumption DEF Threads, TheThread
<1>3. temp[TheThread] = <<>> /\ dbuf = <<>> /\ sbuf = <<>>
  BY <1>1, <1>2 DEF Init
<1>4. (<<>> \o <<>>) \o <<>> = <<>>
  BY EmptySeq, ConcatEmptySeq
<1> QED
  BY <1>3, <1>4 DEF Init, P!Init

LEMMA PipeStep ==
    ASSUME IInv, [Next]_vars
    PROVE  [Cardinality(Threads) = 1 => P!Next]_(P!vars)
<1> SUFFICES ASSUME Cardinality(Threads) = 1 PROVE P!Next \/ (P!vars)' = P!vars
  OBVIOUS
<1>1. PICK th : Threads = {th}
  BY FS_Singleton, KindsAssumption DEF IInv, Typed
<1>2. /\ P!vars = <<next, Way(th), out>>
      /\ (P!vars)' = <<next', Way(th)', out'>>
      /\ TheThread = th /\ TheThread' = th
  BY <1>1, Mapping
<1>3. CASE HwWrite
  <2>1. Way(th)' = (dbuf \o temp[th]) \o sbuf'
    BY <1>3 DEF HwWrite, Way
  <2> QED
    BY <1>1, <1>2, <1>3, <2>1, WriteIsPut DEF P!Next, P!Put, P!Packet, Packet, Way
<1>4. CASE BufCopy(th)
  BY <1>1, <1>2, <1>4, CopyIsStutter
<1>5. CASE BufProcess(th)
  BY <1>1, <1>2, <1>5, ProcessIsDeliverOrLose
  DEF P!Next, P!Lose, P!Deliver, P!Drop, Drop, Way
<1>6. CASE HttpRead
  BY <1>1, <1>2, <1>6, ReadIsDeliver DEF P!Next, P!Deliver, P!Drop, Drop, Way
<1>7. CASE HwCheck \/ UNCHANGED vars
  BY <1>2, <1>7 DEF HwCheck, vars, Way
<1> QED
  BY <1>1, <1>3, <1>4, <1>5, <1>6, <1>7 DEF Next, BufStep

\* With one buffer thread, the session and the destination are a pipe, whatever
\* the sizes: order is kept, and nothing is lost while there is room.
THEOREM IsAPipe == Spec => PipeSteps
<1>1. IInv /\ [Next]_vars => [Cardinality(Threads) = 1 => P!Next]_(P!vars)
  BY PipeStep
<1>2. Init => P!Init
  BY PipeInit
<1> QED
  BY <1>1, <1>2, Inductive, PTL DEF Spec, PipeSteps

-----------------------------------------------------------------------------
\* The pipe's definitions under both names.
LEMMA SamePipe ==
    /\ P!Init => Q!Init
    /\ [P!Next]_(P!vars) => [Q!Next]_(Q!vars)
    /\ Q!InOrder => P!InOrder
BY DEF P!Init, Q!Init, P!Next, Q!Next, P!vars, Q!vars, P!Put, Q!Put, P!Lose, Q!Lose,
       P!Deliver, Q!Deliver, P!Packet, Q!Packet, P!Drop, Q!Drop, P!InOrder, Q!InOrder

OneThread == Cardinality(Threads) = 1

LEMMA ThreadsStay ==
    ASSUME IInv, [Next]_vars
    PROVE  Threads' = Threads
<1>1. ASSUME NEW t \in Threads, BufStep(t) PROVE Threads' = Threads
  BY <1>1 DEF BufStep, BufCopy, BufProcess, IInv, Typed, Threads
<1> QED
  BY <1>1 DEF Next, HwCheck, HwWrite, HttpRead, vars, Threads

\* What leaves a session with one buffer thread for a destination of any kind,
\* and what is on its way there after it, is numbered upwards: no byte is
\* swapped with another or comes twice.
THEOREM OneThreadKeepsOrder == Spec => [](OneThread => P!InOrder)
<1> DEFINE Inv == IInv /\ (OneThread => Q!Sorted)
<1>1. Init => Inv
  <2>1. Q!Init => Q!Sorted
    BY Q!SortedInit
  <2> QED
    BY <2>1, InitInv, PipeInit, SamePipe
<1>2. Inv /\ [Next]_vars => Inv'
  <2> SUFFICES ASSUME Inv, [Next]_vars PROVE Inv'
    OBVIOUS
  <2>1. OneThread' => OneThread
    BY ThreadsStay DEF OneThread
  <2>2. OneThread => [Q!Next]_(Q!vars)
    BY PipeStep, SamePipe DEF OneThread
  <2>3. PacketSize \in Nat \ {0}
    BY SizesAssumption
  <2>4. OneThread => (Q!Sorted)'
    BY <2>2, <2>3, Q!SortedStep
  <2> QED
    BY <2>1, <2>4, StepInv
<1>3. Inv => (OneThread => P!InOrder)
  BY Q!SortedIsInOrder, SamePipe
<1> QED
  BY <1>1, <1>2, <1>3, PTL DEF Spec

-----------------------------------------------------------------------------
(* Every byte has one place.                                                *)

LEMMA Contents ==
    ASSUME NEW s \in Seq(Nat)
    PROVE  /\ DOMAIN s = 1 .. Len(s) /\ Len(s) \in Nat
           /\ \A i \in 1 .. Len(s) : s[i] \in ToSet(s)
           /\ \A b \in ToSet(s) : b \in Nat /\ \E i \in 1 .. Len(s) : s[i] = b
<1>1. DOMAIN s = 1 .. Len(s) /\ Len(s) \in Nat /\ \A i \in 1 .. Len(s) : s[i] \in Nat
  BY LenProperties, ElementOfSeq
<1> QED
  BY <1>1 DEF ToSet

LEMMA NothingInEmpty == Once(<<>>) /\ ToSet(<<>>) = {}
BY DEF Once, ToSet

LEMMA OnceJoined ==
    ASSUME NEW s \in Seq(Nat), NEW t \in Seq(Nat), Once(s), Once(t), Disjoint(s, t)
    PROVE  s \o t \in Seq(Nat) /\ Once(s \o t) /\ ToSet(s \o t) = ToSet(s) \cup ToSet(t)
<1> DEFINE u == s \o t
<1>1. /\ u \in Seq(Nat) /\ Len(u) = Len(s) + Len(t) /\ Len(s) \in Nat /\ Len(t) \in Nat
      /\ \A i \in 1 .. Len(s) + Len(t) : u[i] = IF i <= Len(s) THEN s[i] ELSE t[i - Len(s)]
  BY ConcatProperties, LenProperties
<1> HIDE DEF u
<1>2. ASSUME NEW i \in 1 .. Len(u)
      PROVE  \/ i \in 1 .. Len(s) /\ u[i] = s[i] /\ u[i] \in ToSet(s)
             \/ /\ i - Len(s) \in 1 .. Len(t) /\ u[i] = t[i - Len(s)] /\ u[i] \in ToSet(t)
                /\ i \notin 1 .. Len(s)
  <2>1. CASE i <= Len(s)
    BY <1>1, <2>1, Contents
  <2>2. CASE ~(i <= Len(s))
    <3>1. i - Len(s) \in 1 .. Len(t) /\ u[i] = t[i - Len(s)] /\ i \notin 1 .. Len(s)
      BY <1>1, <2>2
    <3> QED
      BY <3>1, Contents
  <2> QED
    BY <2>1, <2>2
<1>3. Once(u)
  <2>1. DOMAIN u = 1 .. Len(u)
    BY <1>1, Contents
  <2>2. ASSUME NEW i \in 1 .. Len(u), NEW j \in 1 .. Len(u), u[i] = u[j] PROVE i = j
    <3>1. CASE i \in 1 .. Len(s) /\ j \in 1 .. Len(s)
      <4>1. u[i] = s[i] /\ u[j] = s[j]
        BY <1>2, <3>1
      <4> QED
        BY <2>2, <3>1, <4>1, Contents DEF Once
    <3>2. CASE i \notin 1 .. Len(s) /\ j \notin 1 .. Len(s)
      <4>1. /\ i - Len(s) \in 1 .. Len(t) /\ j - Len(s) \in 1 .. Len(t)
            /\ t[i - Len(s)] = t[j - Len(s)]
        BY <1>2, <2>2, <3>2
      <4>2. i - Len(s) = j - Len(s)
        BY <4>1, Contents DEF Once
      <4> QED
        BY <1>1, <4>2
    <3>3. CASE (i \in 1 .. Len(s)) # (j \in 1 .. Len(s))
      <4>1. u[i] \in ToSet(s) /\ u[i] \in ToSet(t)
        BY <1>2, <2>2, <3>3
      <4> QED
        BY <4>1 DEF Disjoint
    <3> QED
      BY <3>1, <3>2, <3>3
  <2> QED
    BY <2>1, <2>2 DEF Once
<1>4. ASSUME NEW b \in ToSet(u) PROVE b \in ToSet(s) \cup ToSet(t)
  <2>1. PICK i \in 1 .. Len(u) : u[i] = b
    BY <1>1, Contents
  <2> QED
    BY <1>2, <2>1
<1>5. ToSet(s) \cup ToSet(t) \subseteq ToSet(u)
  <2>1. ASSUME NEW i \in 1 .. Len(s) PROVE s[i] \in ToSet(u)
    <3>1. i \in 1 .. Len(u) /\ u[i] = s[i]
      BY <1>1
    <3> QED
      BY <1>1, <3>1, Contents
  <2>2. ASSUME NEW i \in 1 .. Len(t) PROVE t[i] \in ToSet(u)
    <3>1. PICK k \in Nat : k = Len(s) + i
      BY <1>1
    <3>2. k \in 1 .. Len(s) + Len(t) /\ ~(k <= Len(s)) /\ k - Len(s) = i
      BY <1>1, <3>1
    <3>3. k \in 1 .. Len(u) /\ u[k] = t[i]
      BY <1>1, <3>2
    <3> QED
      BY <1>1, <3>3, Contents
  <2> QED
    BY <2>1, <2>2, Contents
<1> QED
  BY <1>1, <1>3, <1>4, <1>5 DEF u

LEMMA OnceParted ==
    ASSUME NEW s \in Seq(Nat), Once(s), NEW n \in Nat, n <= Len(s)
    PROVE  LET front == SubSeq(s, 1, n)
               rest == Drop(s, n)
           IN  /\ front \in Seq(Nat) /\ Once(front) /\ ToSet(front) \subseteq ToSet(s)
               /\ rest \in Seq(Nat) /\ Once(rest) /\ ToSet(rest) \subseteq ToSet(s)
               /\ Disjoint(front, rest)
<1> DEFINE front == SubSeq(s, 1, n)
<1> DEFINE rest == Drop(s, n)
<1>1. /\ Len(s) \in Nat
      /\ front \in Seq(Nat) /\ Len(front) = n /\ \A i \in 1 .. n : front[i] = s[i]
      /\ rest \in Seq(Nat) /\ Len(rest) = Len(s) - n
      /\ \A i \in 1 .. Len(s) - n : rest[i] = s[n + i]
  BY Q!FrontOf, Q!RestOf, LenProperties DEF Drop
<1>2. \A i, j \in 1 .. Len(s) : s[i] = s[j] => i = j
  BY Contents DEF Once
<1> HIDE DEF front, rest
<1>3. Once(front) /\ ToSet(front) \subseteq ToSet(s)
  <2>1. \A i \in 1 .. n : i \in 1 .. Len(s)
    BY <1>1
  <2>2. DOMAIN front = 1 .. n /\ \A b \in ToSet(front) : \E i \in 1 .. n : front[i] = b
    BY <1>1, Contents
  <2>3. \A i \in 1 .. Len(s) : s[i] \in ToSet(s)
    BY Contents
  <2>4. Once(front)
    BY <1>1, <1>2, <2>1, <2>2 DEF Once
  <2>5. ASSUME NEW b \in ToSet(front) PROVE b \in ToSet(s)
    <3>1. PICK i \in 1 .. n : front[i] = b
      BY <2>2
    <3>2. i \in 1 .. Len(s) /\ s[i] = b
      BY <1>1, <2>1, <3>1
    <3> QED
      BY <2>3, <3>2
  <2> QED
    BY <2>4, <2>5
<1>4. Once(rest) /\ ToSet(rest) \subseteq ToSet(s)
  <2>1. \A i \in 1 .. Len(s) - n : n + i \in 1 .. Len(s)
    BY <1>1
  <2>2. DOMAIN rest = 1 .. Len(s) - n /\ \A b \in ToSet(rest) : \E i \in 1 .. Len(s) - n : rest[i] = b
    BY <1>1, Contents
  <2>3. \A i \in 1 .. Len(s) : s[i] \in ToSet(s)
    BY Contents
  <2>4. ASSUME NEW i \in 1 .. Len(s) - n, NEW j \in 1 .. Len(s) - n, rest[i] = rest[j]
        PROVE  i = j
    <3>1. PICK k \in 1 .. Len(s), m \in 1 .. Len(s) : k = n + i /\ m = n + j
      BY <2>1
    <3>2. s[k] = s[m]
      BY <1>1, <2>4, <3>1
    <3>3. k = m
      BY <1>2, <3>2
    <3> QED
      BY <1>1, <3>1, <3>3
  <2>5. Once(rest)
    BY <2>2, <2>4 DEF Once
  <2>6. ASSUME NEW b \in ToSet(rest) PROVE b \in ToSet(s)
    <3>1. PICK i \in 1 .. Len(s) - n : rest[i] = b
      BY <2>2
    <3>2. PICK k \in 1 .. Len(s) : k = n + i
      BY <2>1
    <3>3. s[k] = b
      BY <1>1, <3>1, <3>2
    <3> QED
      BY <2>3, <3>3
  <2> QED
    BY <2>5, <2>6
<1>5. Disjoint(front, rest)
  <2> SUFFICES ASSUME NEW b \in ToSet(front), b \in ToSet(rest) PROVE FALSE
    BY DEF Disjoint
  <2>1. PICK i \in 1 .. n : front[i] = b
    BY <1>1, Contents
  <2>2. PICK j \in 1 .. Len(s) - n : rest[j] = b
    BY <1>1, Contents
  <2>3. PICK k \in 1 .. Len(s) : k = n + j
    BY <1>1
  <2>4. s[k] = b
    BY <1>1, <2>2, <2>3
  <2>5. s[i] = b
    BY <1>1, <2>1
  <2>6. i \in 1 .. Len(s) /\ i # k
    BY <1>1, <2>3
  <2> QED
    BY <1>2, <2>4, <2>5, <2>6
<1> QED
  BY <1>1, <1>3, <1>4, <1>5 DEF front, rest

LEMMA PacketOnce ==
    ASSUME NEW n \in Nat
    PROVE  /\ Packet(n) \in Seq(Nat) /\ Once(Packet(n))
           /\ ToSet(Packet(n)) \subseteq n .. n + PacketSize - 1
<1>1. /\ PacketSize \in Nat /\ Packet(n) \in Seq(Nat) /\ Len(Packet(n)) = PacketSize
      /\ \A i \in 1 .. PacketSize : Packet(n)[i] = n + i - 1
  BY PacketIsSeq, SizesAssumption DEF Packet
<1>2. /\ DOMAIN Packet(n) = 1 .. PacketSize
      /\ \A b \in ToSet(Packet(n)) : \E i \in 1 .. PacketSize : Packet(n)[i] = b
  BY <1>1, Contents
<1> QED
  BY <1>1, <1>2 DEF Once

\* What leaves the buffer: n bytes of from, which is what the buffer held or
\* would have held.
Sends(from, n) ==
    /\ n \in Nat /\ n <= Len(from)
    /\ out' = out \o SubSeq(from, 1, n) /\ dbuf' = Drop(from, n)

LEMMA ProcessSends ==
    ASSUME IInv, NEW th \in Threads, BufProcess(th)
    PROVE  /\ \E n \in Sendable(AddToBuffer(temp[th])) : Sends(AddToBuffer(temp[th]), n)
           /\ AddToBuffer(temp[th]) \in {dbuf \o temp[th], <<>>}
<1> DEFINE buffer == AddToBuffer(temp[th])
<1>1. buffer \in Seq(Nat) /\ buffer \in {dbuf \o temp[th], <<>>}
  BY AddedFits DEF IInv, Typed, AddToBuffer
<1>2. PICK n \in Sendable(buffer) : out' = out \o SubSeq(buffer, 1, n) /\ dbuf' = Drop(buffer, n)
  BY DEF BufProcess, Sendable
<1> HIDE DEF buffer
<1>3. n \in Nat /\ n <= Len(buffer)
  BY <1>1, <1>2, SendableFacts DEF IInv, Typed
<1> QED
  BY <1>1, <1>2, <1>3 DEF buffer, Sends

LEMMA ReadSends ==
    ASSUME IInv, HttpRead
    PROVE  \E n : Sends(dbuf, n)
<1>1. PICK max \in 1 .. MaxRead :
         LET n == IF max > Len(dbuf) THEN Len(dbuf) ELSE max IN
         out' = out \o SubSeq(dbuf, 1, n) /\ dbuf' = Drop(dbuf, n)
  BY DEF HttpRead
<1> DEFINE n == IF max > Len(dbuf) THEN Len(dbuf) ELSE max
<1>2. max \in Nat /\ Len(dbuf) \in Nat
  BY LenProperties, SizesAssumption DEF IInv, Typed
<1>3. n \in Nat /\ n <= Len(dbuf)
  BY <1>2
<1>4. out' = out \o SubSeq(dbuf, 1, n) /\ dbuf' = Drop(dbuf, n)
  BY <1>1
<1> HIDE DEF n
<1> QED
  BY <1>3, <1>4 DEF Sends

\* A buffer of bytes received so far, none of them twice.
Own(s, n) == Once(s) /\ ToSet(s) \subseteq 1 .. n - 1

LEMMA ApartIs ==
    Apart <=> /\ next \in 1 .. MaxBytes + PacketSize
              /\ Own(sbuf, next) /\ Own(dbuf, next) /\ Own(out, next)
              /\ \A t \in Threads : Own(temp[t], next)
              /\ Disjoint(sbuf, dbuf) /\ Disjoint(sbuf, out) /\ Disjoint(dbuf, out)
              /\ \A t \in Threads :
                    Disjoint(temp[t], sbuf) /\ Disjoint(temp[t], dbuf) /\ Disjoint(temp[t], out)
              /\ \A t \in Threads : \A u \in Threads \ {t} : Disjoint(temp[t], temp[u])
BY DEF Apart, Own

LEMMA ApartNext ==
    ASSUME Threads' = Threads, next' \in 1 .. MaxBytes + PacketSize,
           Own(sbuf', next'), Own(dbuf', next'), Own(out', next'),
           \A t \in Threads : Own(temp'[t], next'),
           Disjoint(sbuf', dbuf'), Disjoint(sbuf', out'), Disjoint(dbuf', out'),
           \A t \in Threads :
              Disjoint(temp'[t], sbuf') /\ Disjoint(temp'[t], dbuf') /\ Disjoint(temp'[t], out'),
           \A t \in Threads : \A u \in Threads \ {t} : Disjoint(temp'[t], temp'[u])
    PROVE  Apart'
BY DEF Apart, Own

LEMMA ApartInit == Init => Apart
<1> SUFFICES ASSUME Init PROVE Apart
  OBVIOUS
<1>1. PICK threads \in ThreadSets : pc = [t \in threads |-> "copy"] /\ temp = [t \in threads |-> <<>>]
  BY DEF Init
<1>2. next \in 1 .. MaxBytes + PacketSize
  BY SizesAssumption DEF Init
<1>3. sbuf = <<>> /\ dbuf = <<>> /\ out = <<>> /\ \A t \in Threads : temp[t] = <<>>
  BY <1>1 DEF Init, Threads
<1>4. Own(<<>>, next) /\ Disjoint(<<>>, <<>>)
  BY NothingInEmpty DEF Own, Disjoint
<1> QED
  BY <1>2, <1>3, <1>4, ApartIs

\* What a step that sends leaves of from, which no other place has a byte of.
LEMMA SentOnce ==
    ASSUME Apart, out \in Seq(Nat), NEW from \in Seq(Nat), NEW n, Sends(from, n),
           Own(from, next), Disjoint(from, out)
    PROVE  /\ Own(out', next) /\ Own(dbuf', next) /\ Disjoint(dbuf', out')
           /\ ToSet(out') \subseteq ToSet(out) \cup ToSet(from)
           /\ ToSet(dbuf') \subseteq ToSet(from)
<1> DEFINE front == SubSeq(from, 1, n)
<1> DEFINE rest == Drop(from, n)
<1>1. /\ front \in Seq(Nat) /\ Once(front) /\ ToSet(front) \subseteq ToSet(from)
      /\ rest \in Seq(Nat) /\ Once(rest) /\ ToSet(rest) \subseteq ToSet(from)
      /\ Disjoint(front, rest)
  BY OnceParted DEF Sends, Own
<1>2. out' = out \o front /\ dbuf' = rest
  BY DEF Sends
<1> HIDE DEF front, rest
<1>3. Own(out, next)
  BY ApartIs
<1>4. Disjoint(out, front)
  BY <1>1 DEF Disjoint
<1>5. Once(out') /\ ToSet(out') = ToSet(out) \cup ToSet(front)
  BY <1>1, <1>2, <1>3, <1>4, OnceJoined DEF Own
<1> QED
  BY <1>1, <1>2, <1>3, <1>5 DEF Own, Disjoint

LEMMA ApartStep ==
    ASSUME IInv, Apart, [Next]_vars
    PROVE  Apart'
<1>0. Threads' = Threads
  BY ThreadsStay
<1>1. /\ sbuf \in Seq(Nat) /\ dbuf \in Seq(Nat) /\ out \in Seq(Nat) /\ next \in Nat
      /\ temp \in [Threads -> Seq(Nat)] /\ <<>> \in Seq(Nat)
  BY EmptySeq DEF IInv, Typed
<1>2. /\ next \in 1 .. MaxBytes + PacketSize
      /\ Own(sbuf, next) /\ Own(dbuf, next) /\ Own(out, next) /\ Own(<<>>, next)
      /\ \A t \in Threads : Own(temp[t], next)
      /\ Disjoint(sbuf, dbuf) /\ Disjoint(sbuf, out) /\ Disjoint(dbuf, out)
      /\ \A t \in Threads :
            Disjoint(temp[t], sbuf) /\ Disjoint(temp[t], dbuf) /\ Disjoint(temp[t], out)
      /\ \A t \in Threads : \A u \in Threads \ {t} : Disjoint(temp[t], temp[u])
  BY ApartIs, NothingInEmpty DEF Own
<1>3. \A s : Disjoint(<<>>, s) /\ Disjoint(s, <<>>)
  BY NothingInEmpty DEF Disjoint
<1>4. CASE HwWrite
  <2> DEFINE before == IF fits THEN sbuf ELSE <<>>
  <2> DEFINE new == Packet(next)
  <2>1. sbuf' = before \o new /\ next' = next + PacketSize /\ next <= MaxBytes
    BY <1>4 DEF HwWrite, IInv, RoomSeen
  <2>2. UNCHANGED <<dbuf, out, temp>>
    BY <1>4 DEF HwWrite
  <2>3. before \in Seq(Nat) /\ Own(before, next) /\ ToSet(before) \subseteq ToSet(sbuf)
    BY <1>1, <1>2, NothingInEmpty
  <2>4. new \in Seq(Nat) /\ Once(new) /\ ToSet(new) \subseteq next .. next + PacketSize - 1
    BY <1>1, PacketOnce
  <2>5. PacketSize \in Nat \ {0} /\ MaxBytes \in Nat
    BY SizesAssumption
  <2> HIDE DEF before, new
  <2>6. \A s : Own(s, next) => Disjoint(s, new) /\ Disjoint(new, s) /\ Own(s, next')
    BY <1>1, <2>1, <2>4, <2>5 DEF Own, Disjoint
  <2>7. Once(sbuf') /\ ToSet(sbuf') = ToSet(before) \cup ToSet(new)
    BY <2>1, <2>3, <2>4, <2>6, OnceJoined DEF Own
  <2>8. Own(new, next')
    BY <1>1, <1>2, <2>1, <2>4, <2>5 DEF Own
  <2>9. Own(sbuf', next') /\ next' \in 1 .. MaxBytes + PacketSize
    BY <1>1, <1>2, <2>1, <2>3, <2>5, <2>6, <2>7, <2>8 DEF Own
  <2>10. \A s : Own(s, next) /\ Disjoint(s, sbuf) => Disjoint(s, sbuf') /\ Disjoint(sbuf', s)
    BY <2>3, <2>6, <2>7 DEF Disjoint
  <2>11. Disjoint(dbuf, sbuf) /\ Disjoint(out, sbuf)
    BY <1>2 DEF Disjoint
  <2> QED
    BY <1>0, <1>2, <2>2, <2>6, <2>9, <2>10, <2>11, ApartNext
<1>5. ASSUME NEW th \in Threads, BufCopy(th) PROVE Apart'
  <2>1. /\ temp' = [temp EXCEPT ![th] = sbuf] /\ sbuf' = <<>>
        /\ UNCHANGED <<next, dbuf, out>>
    BY <1>5 DEF BufCopy
  <2>2. temp'[th] = sbuf /\ \A t \in Threads \ {th} : temp'[t] = temp[t]
    BY <1>1, <2>1
  <2>3. \A s, t : Disjoint(s, t) => Disjoint(t, s)
    BY DEF Disjoint
  <2>4. \A t \in Threads : Own(temp'[t], next)
    BY <1>2, <2>2
  <2>5. \A t \in Threads :
           Disjoint(temp'[t], sbuf') /\ Disjoint(temp'[t], dbuf) /\ Disjoint(temp'[t], out)
    BY <1>2, <1>3, <2>1, <2>2
  <2>6. \A t \in Threads : \A u \in Threads \ {t} : Disjoint(temp'[t], temp'[u])
    <3> SUFFICES ASSUME NEW t \in Threads, NEW u \in Threads \ {t}
                 PROVE  Disjoint(temp'[t], temp'[u])
      OBVIOUS
    <3>1. CASE t = th
      BY <1>2, <2>2, <2>3, <3>1
    <3>2. CASE u = th
      BY <1>2, <2>2, <2>3, <3>2
    <3>3. CASE t # th /\ u # th
      BY <1>2, <2>2, <3>3
    <3> QED
      BY <3>1, <3>2, <3>3
  <2> QED
    BY <1>0, <1>2, <1>3, <2>1, <2>4, <2>5, <2>6, ApartNext
<1>6. ASSUME NEW th \in Threads, BufProcess(th) PROVE Apart'
  <2> DEFINE buffer == AddToBuffer(temp[th])
  <2>1. PICK n : Sends(buffer, n)
    BY <1>6, ProcessSends
  <2>2. buffer \in {dbuf \o temp[th], <<>>}
    BY <1>6, ProcessSends
  <2> HIDE DEF buffer
  <2>3. /\ temp' = [temp EXCEPT ![th] = <<>>] /\ UNCHANGED <<next, sbuf>>
    BY <1>6 DEF BufProcess
  <2>4. temp'[th] = <<>> /\ \A t \in Threads \ {th} : temp'[t] = temp[t]
    BY <1>1, <2>3
  <2>5. /\ Disjoint(dbuf, temp[th]) /\ temp[th] \in Seq(Nat)
        /\ dbuf \o temp[th] \in Seq(Nat) /\ Once(dbuf \o temp[th])
        /\ ToSet(dbuf \o temp[th]) = ToSet(dbuf) \cup ToSet(temp[th])
    <3>1. Disjoint(dbuf, temp[th]) /\ temp[th] \in Seq(Nat)
      BY <1>1, <1>2 DEF Disjoint
    <3> QED
      BY <1>1, <1>2, <3>1, OnceJoined DEF Own
  <2>6. /\ buffer \in Seq(Nat) /\ Own(buffer, next)
        /\ ToSet(buffer) \subseteq ToSet(dbuf) \cup ToSet(temp[th])
    BY <1>1, <1>2, <2>2, <2>5, NothingInEmpty DEF Own
  <2>7. \A s : Disjoint(s, dbuf) /\ Disjoint(s, temp[th])
                  => Disjoint(s, buffer) /\ Disjoint(buffer, s)
    BY <2>6 DEF Disjoint
  <2>8. \A s, t : Disjoint(s, t) => Disjoint(t, s)
    BY DEF Disjoint
  <2>9. /\ Disjoint(buffer, out) /\ Disjoint(sbuf, buffer)
        /\ \A t \in Threads \ {th} : Disjoint(temp[t], buffer)
    BY <1>2, <2>7, <2>8
  <2>10. /\ Own(out', next) /\ Own(dbuf', next) /\ Disjoint(dbuf', out')
         /\ ToSet(out') \subseteq ToSet(out) \cup ToSet(buffer)
         /\ ToSet(dbuf') \subseteq ToSet(buffer)
    BY <1>1, <2>1, <2>6, <2>9, SentOnce
  <2>11. \A s : Disjoint(s, buffer) => Disjoint(s, dbuf')
    BY <2>10 DEF Disjoint
  <2>12. \A s : Disjoint(s, buffer) /\ Disjoint(s, out) => Disjoint(s, out')
    BY <2>10 DEF Disjoint
  <2>13. \A t \in Threads : Own(temp'[t], next)
    BY <1>2, <2>4
  <2>14. \A t \in Threads :
            Disjoint(temp'[t], sbuf) /\ Disjoint(temp'[t], dbuf') /\ Disjoint(temp'[t], out')
    BY <1>2, <1>3, <2>4, <2>9, <2>11, <2>12
  <2>15. \A t \in Threads : \A u \in Threads \ {t} : Disjoint(temp'[t], temp'[u])
    BY <1>2, <1>3, <2>4
  <2>16. Disjoint(sbuf, dbuf') /\ Disjoint(sbuf, out')
    BY <1>2, <2>9, <2>11, <2>12
  <2> QED
    BY <1>0, <1>2, <2>3, <2>10, <2>13, <2>14, <2>15, <2>16, ApartNext
<1>7. CASE HttpRead
  <2>1. PICK n : Sends(dbuf, n)
    BY <1>7, ReadSends
  <2>2. UNCHANGED <<next, sbuf, temp>>
    BY <1>7 DEF HttpRead
  <2>3. /\ Own(out', next) /\ Own(dbuf', next) /\ Disjoint(dbuf', out')
        /\ ToSet(out') \subseteq ToSet(out) \cup ToSet(dbuf)
        /\ ToSet(dbuf') \subseteq ToSet(dbuf)
    BY <1>1, <1>2, <2>1, SentOnce
  <2>4. \A s : Disjoint(s, dbuf) /\ Disjoint(s, out) => Disjoint(s, dbuf') /\ Disjoint(s, out')
    BY <2>3 DEF Disjoint
  <2> QED
    BY <1>0, <1>2, <2>2, <2>3, <2>4, ApartNext
<1>8. CASE HwCheck \/ UNCHANGED vars
  <2>1. UNCHANGED <<next, sbuf, dbuf, out, temp>>
    BY <1>8 DEF HwCheck, vars
  <2> QED
    BY <1>0, <1>2, <2>1, ApartNext
<1> QED
  BY <1>4, <1>5, <1>6, <1>7, <1>8 DEF Next, BufStep

THEOREM BytesAreApart == Spec => [](IInv /\ Apart)
<1>1. IInv /\ Apart /\ [Next]_vars => (IInv /\ Apart)'
  BY StepInv, ApartStep
<1>2. Init => IInv /\ Apart
  BY InitInv, ApartInit
<1> QED
  BY <1>1, <1>2, PTL DEF Spec

\* Nothing is delivered twice, and nothing that has left a buffer comes back to
\* it, however many threads take turns at the session's buffer.
THEOREM DeliveredOnce == Spec => []AtMostOnce
<1>1. IInv /\ Apart => AtMostOnce
  <2> SUFFICES ASSUME IInv, Apart PROVE AtMostOnce
    OBVIOUS
  <2> DEFINE places == <<sbuf, dbuf, out>>
  <2> DEFINE Has(s, b) == \E i \in DOMAIN s : s[i] = b
  <2>1. \A s, b : Has(s, b) <=> b \in ToSet(s)
    BY DEF ToSet
  <2>2. /\ Disjoint(sbuf, dbuf) /\ Disjoint(sbuf, out) /\ Disjoint(dbuf, out) /\ Once(out)
        /\ \A t \in Threads :
              Disjoint(temp[t], sbuf) /\ Disjoint(temp[t], dbuf) /\ Disjoint(temp[t], out)
    BY ApartIs DEF Own
  <2> SUFFICES ASSUME NEW b \in 1 .. next - 1
               PROVE  /\ Cardinality({i \in DOMAIN out : out[i] = b}) <= 1
                      /\ \A i, j \in 1 .. 3 : Has(places[i], b) /\ Has(places[j], b) => i = j
                      /\ \A t \in Threads : Has(temp[t], b) => \A i \in 1 .. 3 : ~Has(places[i], b)
    BY DEF AtMostOnce
  <2>3. Cardinality({i \in DOMAIN out : out[i] = b}) <= 1
    <3>1. CASE {i \in DOMAIN out : out[i] = b} = {}
      BY <3>1, FS_EmptySet
    <3>2. CASE {i \in DOMAIN out : out[i] = b} # {}
      <4>1. PICK k \in DOMAIN out : out[k] = b
        BY <3>2
      <4>2. {i \in DOMAIN out : out[i] = b} = {k}
        BY <2>2, <4>1 DEF Once
      <4>3. Cardinality({k}) = 1
        BY FS_Singleton
      <4> QED
        BY <4>2, <4>3
    <3> QED
      BY <3>1, <3>2
  <2>4. places[1] = sbuf /\ places[2] = dbuf /\ places[3] = out /\ 1 .. 3 = {1, 2, 3}
    OBVIOUS
  <2> HIDE DEF places, Has
  <2>5. \A i, j \in {1, 2, 3} : Has(places[i], b) /\ Has(places[j], b) => i = j
    BY <2>1, <2>2, <2>4 DEF Disjoint
  <2>6. \A t \in Threads : Has(temp[t], b) => \A i \in {1, 2, 3} : ~Has(places[i], b)
    BY <2>1, <2>2, <2>4 DEF Disjoint
  <2> QED
    BY <2>3, <2>4, <2>5, <2>6
<1> QED
  BY <1>1, BytesAreApart, PTL

\* A buffer of different bytes is no longer than there are bytes.
LEMMA OnceIsShort ==
    ASSUME NEW s \in Seq(Nat), NEW n \in Nat \ {0}, Own(s, n)
    PROVE  Len(s) <= n - 1
<1>1. /\ Len(s) \in Nat /\ DOMAIN s = 1 .. Len(s)
      /\ \A i \in 1 .. Len(s) : s[i] \in 1 .. n - 1
  BY Contents DEF Own
<1>2. /\ IsFiniteSet(1 .. Len(s)) /\ Cardinality(1 .. Len(s)) = Len(s)
      /\ IsFiniteSet(1 .. n - 1) /\ Cardinality(1 .. n - 1) = n - 1
  <2>1. 1 \in Int /\ n - 1 \in Int /\ Len(s) \in Int
    BY <1>1
  <2>2. /\ Cardinality(1 .. Len(s)) = IF 1 > Len(s) THEN 0 ELSE Len(s) - 1 + 1
        /\ Cardinality(1 .. n - 1) = IF 1 > n - 1 THEN 0 ELSE n - 1 - 1 + 1
        /\ IsFiniteSet(1 .. Len(s)) /\ IsFiniteSet(1 .. n - 1)
    BY <2>1, FS_Interval
  <2> QED
    BY <1>1, <2>2
<1> DEFINE f == [i \in 1 .. Len(s) |-> s[i]]
<1>3. f \in [1 .. Len(s) -> 1 .. n - 1]
  BY <1>1
<1>4. CASE ~(Len(s) <= n - 1)
  <2>1. Cardinality(1 .. n - 1) < Cardinality(1 .. Len(s))
    BY <1>1, <1>2, <1>4
  <2> DEFINE S == 1 .. Len(s)
  <2> DEFINE T == 1 .. n - 1
  <2>a. /\ IsFiniteSet(S) /\ IsFiniteSet(T) /\ Cardinality(T) < Cardinality(S)
        /\ f \in [S -> T]
    BY <1>2, <1>3, <2>1
  <2> HIDE DEF f, S, T
  <2>b. \E x, y \in S : x # y /\ f[x] = f[y]
    BY <2>a, FS_PigeonHole
  <2>2. \E x, y \in 1 .. Len(s) : x # y /\ f[x] = f[y]
    BY <2>b DEF S
  <2>3. \E x, y \in 1 .. Len(s) : x # y /\ s[x] = s[y]
    BY <2>2 DEF f
  <2> QED
    BY <1>1, <2>3 DEF Own, Once
<1> QED
  BY <1>4

\* The state is well typed for any sizes; what is on its way and what has been
\* delivered is never more than was received.
THEOREM TypeCorrect == Spec => []TypeOK
<1>1. IInv /\ Apart => TypeOK
  <2> SUFFICES ASSUME IInv, Apart PROVE TypeOK
    OBVIOUS
  <2>1. next \in Bytes /\ next \in Nat \ {0} /\ MaxBytes + PacketSize \in Nat
    BY SizesAssumption DEF Apart, Bytes
  <2>2. \A s \in {sbuf, dbuf, out} \cup {temp[t] : t \in Threads} : s \in Seq(Nat) /\ Own(s, next)
    BY ApartIs DEF IInv, Typed
  <2>3. ASSUME NEW s \in Seq(Nat), Own(s, next)
        PROVE  Len(s) <= MaxBytes + PacketSize /\ \A i \in DOMAIN s : s[i] \in Bytes
    <3>1. Len(s) <= next - 1 /\ Len(s) \in Nat
      BY <2>1, <2>3, OnceIsShort, LenProperties
    <3>2. \A i \in DOMAIN s : s[i] \in 1 .. next - 1
      BY <2>3, Contents DEF Own
    <3> QED
      BY <2>1, <3>1, <3>2 DEF Bytes
  <2> QED
    BY <2>1, <2>2, <2>3 DEF IInv, Typed, TypeOK
<1> QED
  BY <1>1, BytesAreApart, PTL

-----------------------------------------------------------------------------
(* Datagrams hold whole packets.                                            *)

LEMMA AtLeastOnce ==
    ASSUME NEW p \in Nat \ {0}, NEW d \in Int
    PROVE  (d >= 1 => d * p >= p) /\ (d <= -1 => d * p <= -p)
<1>1. CASE d >= 1
  <2>1. (d - 1) * p >= 0
    BY <1>1
  <2> QED
    BY <2>1
<1>2. CASE d <= -1
  <2>1. (d + 1) * p <= 0
    BY <1>2
  <2> QED
    BY <2>1, <1>2
<1> QED
  BY <1>1, <1>2

LEMMA Divided ==
    ASSUME NEW p \in Nat \ {0}, NEW a \in Int
    PROVE  a \div p \in Int /\ a % p \in 0 .. p - 1 /\ a = (a \div p) * p + (a % p)
BY SMT

LEMMA Remainder ==
    ASSUME NEW p \in Nat \ {0}, NEW k \in Int, NEW r \in 0 .. p - 1
    PROVE  (k * p + r) % p = r
<1> DEFINE a == k * p + r
<1> DEFINE q == a \div p
<1> DEFINE m == a % p
<1>1. a \in Int
  BY SMT
<1>2. q \in Int /\ m \in 0 .. p - 1 /\ a = q * p + m
  BY <1>1, Divided
<1> HIDE DEF q, m
<1>3. (k - q) * p = m - r
  BY <1>2, SMT
<1>4. m - r > -p /\ m - r < p
  BY <1>2
<1>5. k - q \in Int
  BY <1>2
<1>6. k - q = 0
  BY <1>3, <1>4, <1>5, AtLeastOnce
<1>7. 0 * p = 0
  OBVIOUS
<1>8. m = r
  BY <1>2, <1>3, <1>6, <1>7
<1> QED
  BY <1>8 DEF m

LEMMA WholeIs ==
    ASSUME NEW n \in Int
    PROVE  Whole(n) <=> \E k \in Int : n = k * PacketSize
<1>1. PacketSize \in Nat \ {0} /\ 0 \in 0 .. PacketSize - 1
  BY SizesAssumption
<1>2. ASSUME NEW k \in Int, n = k * PacketSize PROVE n % PacketSize = 0
  <2>1. (k * PacketSize + 0) % PacketSize = 0
    BY <1>1, Remainder
  <2>2. k * PacketSize + 0 = k * PacketSize
    BY <1>1
  <2> QED
    BY <1>2, <2>1, <2>2
<1>3. ASSUME n % PacketSize = 0 PROVE \E k \in Int : n = k * PacketSize
  <2>1. n \div PacketSize \in Int /\ n = (n \div PacketSize) * PacketSize + 0
    BY <1>1, <1>3, Divided
  <2>2. (n \div PacketSize) * PacketSize \in Int
    BY <1>1, <2>1
  <2> QED
    BY <2>1, <2>2
<1> QED
  BY <1>2, <1>3 DEF Whole

LEMMA WholeSum ==
    ASSUME NEW m \in Int, NEW n \in Int, Whole(m), Whole(n)
    PROVE  Whole(m + n) /\ Whole(m - n)
<1>1. PICK j \in Int, k \in Int : m = j * PacketSize /\ n = k * PacketSize
  BY WholeIs
<1>2. PacketSize \in Nat
  BY SizesAssumption
<1>3. m + n = (j + k) * PacketSize /\ m - n = (j - k) * PacketSize
  BY <1>1, <1>2, SMT
<1>4. j + k \in Int /\ j - k \in Int /\ m + n \in Int /\ m - n \in Int
  OBVIOUS
<1> QED
  BY <1>3, <1>4, WholeIs

LEMMA WholeSizes == Whole(0) /\ Whole(PacketSize) /\ Whole(UdpSize)
<1>1. PacketSize \in Nat \ {0}
  BY SizesAssumption
<1>2. 0 = 0 * PacketSize /\ PacketSize = 1 * PacketSize
  BY <1>1
<1> QED
  BY <1>1, <1>2, WholeIs, DatagramAssumption DEF Whole

LEMMA FirstOfPacket ==
    ASSUME NEW a \in Int, Whole(a - 1)
    PROVE  a % PacketSize = 1 % PacketSize
<1>1. PacketSize \in Nat \ {0}
  BY SizesAssumption
<1>2. PICK k \in Int : a - 1 = k * PacketSize
  BY WholeIs
<1>3. CASE PacketSize = 1
  BY <1>3
<1>4. CASE PacketSize > 1
  <2>1. 1 \in 0 .. PacketSize - 1
    BY <1>1, <1>4
  <2>2. (k * PacketSize + 1) % PacketSize = 1
    BY <1>1, <2>1, Remainder
  <2>3. k * PacketSize \in Int
    BY <1>1
  <2>4. a = k * PacketSize + 1
    BY <1>2, <2>3
  <2>5. (0 * PacketSize + 1) % PacketSize = 1 /\ 0 * PacketSize + 1 = 1
    BY <1>1, <2>1, Remainder
  <2> QED
    BY <2>2, <2>4, <2>5
<1> QED
  BY <1>1, <1>3, <1>4

LEMMA AlignedEmpty == Aligned(<<>>)
BY WholeSizes DEF Aligned

LEMMA AlignedIs ==
    ASSUME NEW s \in Seq(Nat)
    PROVE  Aligned(s) <=> Whole(Len(s)) /\ \A i \in 1 .. Len(s) : Whole(s[i] - i)
BY Contents DEF Aligned

LEMMA AlignedJoined ==
    ASSUME NEW s \in Seq(Nat), NEW t \in Seq(Nat), Aligned(s), Aligned(t)
    PROVE  Aligned(s \o t)
<1> DEFINE u == s \o t
<1>1. /\ u \in Seq(Nat) /\ Len(u) = Len(s) + Len(t) /\ Len(s) \in Nat /\ Len(t) \in Nat
      /\ \A i \in 1 .. Len(s) + Len(t) : u[i] = IF i <= Len(s) THEN s[i] ELSE t[i - Len(s)]
  BY ConcatProperties, LenProperties
<1> HIDE DEF u
<1>2. Whole(Len(s)) /\ Whole(Len(t))
  BY DEF Aligned
<1>3. ASSUME NEW i \in 1 .. Len(u) PROVE Whole(u[i] - i)
  <2>1. CASE i <= Len(s)
    <3>1. i \in 1 .. Len(s) /\ u[i] = s[i]
      BY <1>1, <2>1
    <3> QED
      BY <3>1, AlignedIs
  <2>2. CASE ~(i <= Len(s))
    <3>1. PICK j \in 1 .. Len(t) : j = i - Len(s)
      BY <1>1, <2>2
    <3>2. u[i] = t[j] /\ i = j + Len(s)
      BY <1>1, <2>2, <3>1
    <3>a. Len(s) \in Int
      BY <1>1
    <3>b. t[j] \in Nat
      BY ElementOfSeq
    <3>c. Whole(t[j] - j)
      BY AlignedIs
    <3>3. t[j] \in Nat /\ Whole(t[j] - j) /\ Len(s) \in Int
      BY <3>a, <3>b, <3>c
    <3>4. PICK a \in Int : a = t[j] - j /\ Whole(a) /\ u[i] - i = a - Len(s)
      BY <3>2, <3>3
    <3>5. Whole(a - Len(s))
      BY <1>2, <3>3, <3>4, WholeSum, Zenon
    <3> QED
      BY <3>4, <3>5
  <2> QED
    BY <2>1, <2>2
<1>4. Whole(Len(u))
  BY <1>1, <1>2, WholeSum
<1>5. Aligned(u)
  BY <1>1, <1>3, <1>4, AlignedIs
<1> QED
  BY <1>5 DEF u

LEMMA AlignedRest ==
    ASSUME NEW s \in Seq(Nat), NEW n \in Nat, n <= Len(s), Aligned(s), Whole(n)
    PROVE  Aligned(Drop(s, n))
<1> DEFINE rest == Drop(s, n)
<1>1. /\ Len(s) \in Nat /\ rest \in Seq(Nat) /\ Len(rest) = Len(s) - n
      /\ \A i \in 1 .. Len(s) - n : rest[i] = s[n + i]
  BY Q!RestOf, LenProperties DEF Drop
<1> HIDE DEF rest
<1>2. Whole(Len(rest))
  BY <1>1, WholeSum DEF Aligned
<1>3. ASSUME NEW i \in 1 .. Len(rest) PROVE Whole(rest[i] - i)
  <2>1. PICK j \in 1 .. Len(s) : j = n + i
    BY <1>1
  <2>2. rest[i] = s[j] /\ s[j] \in Nat /\ Whole(s[j] - j)
    BY <1>1, <2>1, AlignedIs, ElementOfSeq
  <2>3. PICK a \in Int : a = s[j] - j /\ Whole(a) /\ rest[i] - i = a + n
    BY <2>1, <2>2
  <2>4. Whole(a + n)
    <3>1. n \in Int
      OBVIOUS
    <3> QED
      BY <2>3, <3>1, WholeSum, Zenon
  <2> QED
    BY <2>3, <2>4
<1>4. Aligned(rest)
  BY <1>1, <1>2, <1>3, AlignedIs
<1> QED
  BY <1>4 DEF rest

LEMMA AlignedPacket ==
    ASSUME NEW n \in Nat, Whole(n - 1)
    PROVE  Aligned(Packet(n))
<1>1. Packet(n) \in Seq(Nat) /\ Len(Packet(n)) = PacketSize
  BY PacketIsSeq
<1>2. ASSUME NEW i \in 1 .. PacketSize PROVE Packet(n)[i] - i = n - 1
  <2>1. Packet(n)[i] = n + i - 1
    BY DEF Packet
  <2> QED
    BY <2>1, SizesAssumption
<1> QED
  BY <1>1, <1>2, WholeSizes, AlignedIs

-----------------------------------------------------------------------------
Datagrams == kind \in {"udp", "mcast"}

LEMMA InPacketsIs ==
    InPackets <=> (Datagrams => /\ Whole(next - 1) /\ Whole(Len(out))
                               /\ Aligned(sbuf) /\ Aligned(dbuf)
                               /\ \A t \in Threads : Aligned(temp[t]))
BY DEF InPackets, Datagrams

LEMMA InPacketsNext ==
    ASSUME Threads' = Threads, kind' = kind,
           Datagrams => /\ Whole(next' - 1) /\ Whole(Len(out'))
                        /\ Aligned(sbuf') /\ Aligned(dbuf')
                        /\ \A t \in Threads : Aligned(temp'[t])
    PROVE  InPackets'
BY DEF InPackets, Datagrams

LEMMA InPacketsInit == Init => InPackets
<1> SUFFICES ASSUME Init PROVE InPackets
  OBVIOUS
<1>1. PICK threads \in ThreadSets : pc = [t \in threads |-> "copy"] /\ temp = [t \in threads |-> <<>>]
  BY DEF Init
<1>2. next - 1 = 0 /\ out = <<>> /\ sbuf = <<>> /\ dbuf = <<>> /\ \A t \in Threads : temp[t] = <<>>
  BY <1>1 DEF Init, Threads
<1>3. Len(<<>>) = 0
  OBVIOUS
<1> QED
  BY <1>2, <1>3, AlignedEmpty, WholeSizes, InPacketsIs

LEMMA InPacketsStep ==
    ASSUME IInv, InPackets, [Next]_vars
    PROVE  InPackets'
<1>0. Threads' = Threads
  BY ThreadsStay
<1>1. /\ sbuf \in Seq(Nat) /\ dbuf \in Seq(Nat) /\ out \in Seq(Nat) /\ next \in Nat
      /\ temp \in [Threads -> Seq(Nat)] /\ <<>> \in Seq(Nat)
  BY EmptySeq DEF IInv, Typed
<1>2. kind' = kind
  <2>1. ASSUME NEW t \in Threads, BufStep(t) PROVE kind' = kind
    BY <2>1 DEF BufStep, BufCopy, BufProcess
  <2> QED
    BY <2>1 DEF Next, HwCheck, HwWrite, HttpRead, vars
<1> SUFFICES ASSUME Datagrams
             PROVE  /\ Whole(next' - 1) /\ Whole(Len(out'))
                    /\ Aligned(sbuf') /\ Aligned(dbuf')
                    /\ \A t \in Threads : Aligned(temp'[t])
  BY <1>0, <1>2, InPacketsNext
<1>3. /\ Whole(next - 1) /\ Whole(Len(out))
      /\ Aligned(sbuf) /\ Aligned(dbuf) /\ \A t \in Threads : Aligned(temp[t])
  BY InPacketsIs
<1>4. CASE HwWrite
  <2> DEFINE before == IF fits THEN sbuf ELSE <<>>
  <2>1. sbuf' = before \o Packet(next) /\ next' = next + PacketSize
    BY <1>4 DEF HwWrite
  <2>2. UNCHANGED <<dbuf, out, temp>>
    BY <1>4 DEF HwWrite
  <2>3. before \in Seq(Nat) /\ Aligned(before)
    BY <1>1, <1>3, AlignedEmpty
  <2> HIDE DEF before
  <2>4. Aligned(sbuf')
    BY <1>1, <1>3, <2>1, <2>3, PacketIsSeq, AlignedPacket, AlignedJoined
  <2>5. Whole(next' - 1)
    <3>a. next \in Nat /\ PacketSize \in Nat
      BY SizesAssumption DEF IInv, Typed
    <3>b. next' = next + PacketSize
      BY <2>1
    <3>1. next - 1 \in Int /\ PacketSize \in Int /\ next' - 1 = (next - 1) + PacketSize
      BY <3>a, <3>b
    <3>2. PICK a \in Int : a = next - 1 /\ Whole(a) /\ next' - 1 = a + PacketSize
      <4> DEFINE a == next - 1
      <4>1. a \in Int /\ Whole(a) /\ next' - 1 = a + PacketSize
        BY <1>3, <3>1
      <4> HIDE DEF a
      <4> QED
        BY <4>1 DEF a
    <3>3. Whole(a + PacketSize)
      BY <3>1, <3>2, WholeSizes, WholeSum, Zenon
    <3> QED
      BY <3>2, <3>3
  <2> QED
    BY <1>3, <2>2, <2>4, <2>5
<1>5. ASSUME NEW th \in Threads, BufCopy(th)
      PROVE  /\ Whole(next' - 1) /\ Whole(Len(out'))
             /\ Aligned(sbuf') /\ Aligned(dbuf')
             /\ \A t \in Threads : Aligned(temp'[t])
  <2>1. /\ temp' = [temp EXCEPT ![th] = sbuf] /\ sbuf' = <<>>
        /\ UNCHANGED <<next, dbuf, out>>
    BY <1>5 DEF BufCopy
  <2>2. temp'[th] = sbuf /\ \A t \in Threads \ {th} : temp'[t] = temp[t]
    BY <1>1, <2>1
  <2> QED
    BY <1>3, <2>1, <2>2, AlignedEmpty
<1>6. ASSUME NEW th \in Threads, BufProcess(th)
      PROVE  /\ Whole(next' - 1) /\ Whole(Len(out'))
             /\ Aligned(sbuf') /\ Aligned(dbuf')
             /\ \A t \in Threads : Aligned(temp'[t])
  <2> DEFINE buffer == AddToBuffer(temp[th])
  <2>1. PICK n \in Sendable(buffer) : Sends(buffer, n)
    BY <1>6, ProcessSends
  <2>2. buffer \in {dbuf \o temp[th], <<>>}
    BY <1>6, ProcessSends
  <2> HIDE DEF buffer
  <2>3. temp' = [temp EXCEPT ![th] = <<>>] /\ UNCHANGED <<next, sbuf>>
    BY <1>6 DEF BufProcess
  <2>4. temp'[th] = <<>> /\ \A t \in Threads \ {th} : temp'[t] = temp[t]
    BY <1>1, <2>3
  <2>5. buffer \in Seq(Nat) /\ Aligned(buffer) /\ Len(buffer) \in Nat
    <3>1. temp[th] \in Seq(Nat) /\ dbuf \o temp[th] \in Seq(Nat)
      BY <1>1, ConcatProperties
    <3> QED
      BY <1>1, <1>3, <2>2, <3>1, AlignedJoined, AlignedEmpty, LenProperties
  <2>6. Whole(n)
    <3>1. n \in {0, UdpSize, Len(buffer)}
      BY <2>1 DEF Datagrams, Sendable, Datagram
    <3> QED
      BY <2>5, <3>1, WholeSizes DEF Aligned
  <2>7. Aligned(dbuf')
    BY <2>1, <2>5, <2>6, AlignedRest DEF Sends
  <2>8. Whole(Len(out'))
    <3>1. SubSeq(buffer, 1, n) \in Seq(Nat) /\ Len(SubSeq(buffer, 1, n)) = n /\ n \in Nat
      BY <2>1, <2>5, Q!FrontOf DEF Sends
    <3>2. Len(out') = Len(out) + n /\ Len(out) \in Nat
      BY <1>1, <2>1, <3>1, ConcatProperties, LenProperties DEF Sends
    <3> QED
      BY <1>3, <2>6, <3>1, <3>2, WholeSum
  <2> QED
    BY <1>3, <2>3, <2>4, <2>7, <2>8, AlignedEmpty
<1>7. CASE HttpRead
  BY <1>7 DEF HttpRead, Datagrams
<1>8. CASE HwCheck \/ UNCHANGED vars
  BY <1>3, <1>8 DEF HwCheck, vars
<1> QED
  BY <1>4, <1>5, <1>6, <1>7, <1>8 DEF Next, BufStep

\* Every datagram starts with the start of a packet and holds whole packets, for
\* any sizes and marks and any number of buffer threads, also after the session
\* or the destination had to dump its buffer.
THEOREM PacketsStayWhole == Spec => []WholePackets
<1>1. IInv /\ InPackets => WholePackets
  <2> SUFFICES ASSUME IInv, InPackets, Datagrams
               PROVE  /\ \A s \in {sbuf, dbuf} \cup {temp[t] : t \in Threads} :
                            StartsPacket(s) /\ Len(s) % PacketSize = 0
                      /\ Len(out) % PacketSize = 0
    BY DEF WholePackets, Datagrams
  <2>1. ASSUME NEW s \in Seq(Nat), Aligned(s)
        PROVE  StartsPacket(s) /\ Len(s) % PacketSize = 0
    <3>1. CASE s = <<>>
      BY <2>1, <3>1 DEF StartsPacket, Aligned, Whole
    <3>2. CASE s # <<>>
      <4>1. 1 \in 1 .. Len(s) /\ Head(s) = s[1] /\ s[1] \in Nat
        BY <3>2, EmptySeq, LenProperties, ElementOfSeq
      <4>2. Whole(s[1] - 1)
        BY <2>1, <4>1, AlignedIs
      <4>3. s[1] % PacketSize = 1 % PacketSize
        BY <4>1, <4>2, FirstOfPacket
      <4> QED
        BY <2>1, <4>1, <4>3 DEF StartsPacket, Aligned, Whole
    <3> QED
      BY <3>1, <3>2
  <2>2. \A s \in {sbuf, dbuf} \cup {temp[t] : t \in Threads} : s \in Seq(Nat) /\ Aligned(s)
    BY InPacketsIs DEF IInv, Typed
  <2>3. Whole(Len(out))
    BY InPacketsIs
  <2> QED
    BY <2>1, <2>2, <2>3 DEF Whole
<1>2. IInv /\ InPackets /\ [Next]_vars => (IInv /\ InPackets)'
  BY StepInv, InPacketsStep
<1>3. Init => IInv /\ InPackets
  BY InitInv, InPacketsInit
<1> QED
  BY <1>1, <1>2, <1>3, PTL DEF Spec
=============================================================================
