----------------------------- MODULE PipeProofs -----------------------------
(***************************************************************************)
(* Proof that a pipe keeps the order of its bytes, for every size of packet *)
(* and of room, and the facts about parts of sequences it rests on.         *)
(***************************************************************************)
EXTENDS Pipe, Integers, SequenceTheorems, TLAPS

LEMMA Associative ==
    ASSUME NEW s \in Seq(Nat), NEW t \in Seq(Nat), NEW u \in Seq(Nat)
    PROVE  (s \o t) \o u = s \o (t \o u)
BY SMT

\* A part of a sequence has the elements of the sequence, in its order.
LEMMA PartOf ==
    ASSUME NEW s \in Seq(Nat), NEW m \in Nat \ {0}, NEW n \in Nat, n <= Len(s)
    PROVE  /\ SubSeq(s, m, n) \in Seq(Nat)
           /\ Len(SubSeq(s, m, n)) = IF m <= n THEN n - m + 1 ELSE 0
           /\ \A i \in 1 .. Len(SubSeq(s, m, n)) :
                  m + i - 1 \in 1 .. n /\ SubSeq(s, m, n)[i] = s[m + i - 1]
<1>1. \A i \in m .. n : s[i] \in Nat
  BY ElementOfSeq, LenProperties
<1>2. /\ SubSeq(s, m, n) \in Seq(Nat)
      /\ Len(SubSeq(s, m, n)) = IF m <= n THEN n - m + 1 ELSE 0
      /\ \A i \in 1 .. n - m + 1 : SubSeq(s, m, n)[i] = s[m + i - 1]
  BY <1>1, SubSeqProperties
<1> QED
  BY <1>2

\* The first n elements, and all but the first n.
LEMMA FrontOf ==
    ASSUME NEW s \in Seq(Nat), NEW n \in Nat, n <= Len(s)
    PROVE  /\ SubSeq(s, 1, n) \in Seq(Nat)
           /\ Len(SubSeq(s, 1, n)) = n
           /\ \A i \in 1 .. n : SubSeq(s, 1, n)[i] = s[i]
<1>1. /\ SubSeq(s, 1, n) \in Seq(Nat)
      /\ Len(SubSeq(s, 1, n)) = n
      /\ \A i \in 1 .. Len(SubSeq(s, 1, n)) : SubSeq(s, 1, n)[i] = s[1 + i - 1]
  BY PartOf
<1>2. \A i \in 1 .. n : 1 + i - 1 = i
  OBVIOUS
<1> QED
  BY <1>1, <1>2

LEMMA RestOf ==
    ASSUME NEW s \in Seq(Nat), NEW n \in Nat, n <= Len(s)
    PROVE  /\ SubSeq(s, n + 1, Len(s)) \in Seq(Nat)
           /\ Len(SubSeq(s, n + 1, Len(s))) = Len(s) - n
           /\ \A i \in 1 .. Len(s) - n : SubSeq(s, n + 1, Len(s))[i] = s[n + i]
<1>1. n + 1 \in Nat \ {0} /\ Len(s) \in Nat
  BY LenProperties
<1>2. /\ SubSeq(s, n + 1, Len(s)) \in Seq(Nat)
      /\ Len(SubSeq(s, n + 1, Len(s))) = IF n + 1 <= Len(s) THEN Len(s) - (n + 1) + 1 ELSE 0
      /\ \A i \in 1 .. Len(SubSeq(s, n + 1, Len(s))) :
            SubSeq(s, n + 1, Len(s))[i] = s[(n + 1) + i - 1]
  BY <1>1, PartOf
<1>3. Len(SubSeq(s, n + 1, Len(s))) = Len(s) - n
  BY <1>1, <1>2
<1>4. \A i \in 1 .. Len(s) - n : (n + 1) + i - 1 = n + i
  BY <1>1
<1> QED
  BY <1>2, <1>3, <1>4

\* The front of s \o t, up to the length of s, is the front of s.
LEMMA FrontOfConcat ==
    ASSUME NEW s \in Seq(Nat), NEW t \in Seq(Nat), NEW n \in Nat, n <= Len(s)
    PROVE  SubSeq(s \o t, 1, n) = SubSeq(s, 1, n)
<1> DEFINE u == s \o t
<1> DEFINE a == SubSeq(u, 1, n)
<1> DEFINE b == SubSeq(s, 1, n)
<1>1. /\ u \in Seq(Nat) /\ Len(s) \in Nat /\ Len(t) \in Nat
      /\ Len(u) = Len(s) + Len(t)
      /\ \A i \in 1 .. Len(s) + Len(t) : u[i] = IF i <= Len(s) THEN s[i] ELSE t[i - Len(s)]
  BY ConcatProperties, LenProperties
<1>2. n <= Len(u)
  BY <1>1
<1> HIDE DEF u
<1>3. /\ a \in Seq(Nat) /\ Len(a) = n
      /\ \A i \in 1 .. n : a[i] = u[i]
  BY <1>1, <1>2, FrontOf
<1>4. /\ b \in Seq(Nat) /\ Len(b) = n
      /\ \A i \in 1 .. n : b[i] = s[i]
  BY FrontOf
<1> HIDE DEF a, b
<1>5. \A i \in 1 .. Len(a) : a[i] = b[i]
  <2>1. \A i \in 1 .. n : i \in 1 .. Len(s) + Len(t) /\ i <= Len(s)
    BY <1>1
  <2> QED
    BY <1>1, <1>3, <1>4, <2>1
<1> QED
  BY <1>3, <1>4, <1>5, SeqEqual DEF a, b, u

\* What remains of s \o t when some of s is dropped.
LEMMA RestOfConcat ==
    ASSUME NEW s \in Seq(Nat), NEW t \in Seq(Nat), NEW n \in Nat, n <= Len(s)
    PROVE  SubSeq(s \o t, n + 1, Len(s \o t)) = SubSeq(s, n + 1, Len(s)) \o t
<1> DEFINE u == s \o t
<1> DEFINE a == SubSeq(u, n + 1, Len(u))
<1> DEFINE r == SubSeq(s, n + 1, Len(s))
<1> DEFINE b == r \o t
<1>1. /\ u \in Seq(Nat) /\ Len(s) \in Nat /\ Len(t) \in Nat
      /\ Len(u) = Len(s) + Len(t)
      /\ \A i \in 1 .. Len(s) + Len(t) : u[i] = IF i <= Len(s) THEN s[i] ELSE t[i - Len(s)]
  BY ConcatProperties, LenProperties
<1> HIDE DEF u
<1>2. /\ a \in Seq(Nat) /\ Len(a) = Len(u) - n
      /\ \A i \in 1 .. Len(u) - n : a[i] = u[n + i]
  <2>1. n <= Len(u)
    BY <1>1
  <2> QED
    BY <1>1, <2>1, RestOf
<1>3. /\ r \in Seq(Nat) /\ Len(r) = Len(s) - n
      /\ \A i \in 1 .. Len(s) - n : r[i] = s[n + i]
  BY RestOf
<1> HIDE DEF a, r
<1>4. /\ b \in Seq(Nat) /\ Len(b) = Len(r) + Len(t)
      /\ \A i \in 1 .. Len(r) + Len(t) : b[i] = IF i <= Len(r) THEN r[i] ELSE t[i - Len(r)]
  BY <1>3, ConcatProperties
<1> HIDE DEF b
<1>5. Len(a) = Len(b)
  BY <1>1, <1>2, <1>3, <1>4
<1>6. ASSUME NEW i \in 1 .. Len(a) PROVE a[i] = b[i]
  <2>1. i \in 1 .. (Len(s) + Len(t)) - n /\ a[i] = u[n + i]
    BY <1>1, <1>2, <1>6
  <2>2. CASE i <= Len(r)
    <3>1. i \in 1 .. Len(s) - n /\ n + i \in 1 .. Len(s) + Len(t) /\ n + i <= Len(s)
      BY <1>1, <1>3, <2>1, <2>2
    <3>2. a[i] = s[n + i]
      BY <1>1, <2>1, <3>1
    <3>3. b[i] = r[i]
      BY <1>1, <1>3, <1>4, <2>1, <2>2
    <3> QED
      BY <1>3, <3>1, <3>2, <3>3
  <2>3. CASE ~(i <= Len(r))
    <3>0. n + i \in 1 .. Len(s) + Len(t) /\ ~(n + i <= Len(s))
      BY <1>1, <1>3, <2>1, <2>3
    <3>1. a[i] = t[n + i - Len(s)]
      BY <1>1, <2>1, <3>0
    <3>2. b[i] = t[i - Len(r)]
      BY <1>1, <1>3, <1>4, <2>1, <2>3
    <3>3. n + i - Len(s) = i - Len(r)
      BY <1>1, <1>3, <2>1
    <3> QED
      BY <3>1, <3>2, <3>3
  <2> QED
    BY <2>2, <2>3
<1> QED
  BY <1>2, <1>4, <1>5, <1>6, SeqEqual DEF a, b, r, u

\* Dropping nothing, and taking nothing.
LEMMA NoPart ==
    ASSUME NEW s \in Seq(Nat)
    PROVE  /\ SubSeq(s, 1, 0) = <<>>
           /\ SubSeq(s, 1, Len(s)) = s
           /\ SubSeq(s, 0 + 1, Len(s)) = s
BY SubSeqEmpty, SubSeqFull, LenProperties

-----------------------------------------------------------------------------

Increasing(s) == \A i, j \in 1 .. Len(s) : i < j => s[i] < s[j]

\* Every byte of s comes before every byte of t.
Before(s, t) == \A i \in 1 .. Len(s), j \in 1 .. Len(t) : s[i] < t[j]

Below(s, n) == \A i \in 1 .. Len(s) : s[i] < n

\* The inductive invariant.
Sorted ==
    /\ next \in Nat /\ queue \in Seq(Nat) /\ out \in Seq(Nat)
    /\ Increasing(out) /\ Increasing(queue) /\ Before(out, queue)
    /\ Below(out, next) /\ Below(queue, next)

-----------------------------------------------------------------------------
LEMMA PartIncreases ==
    ASSUME NEW s \in Seq(Nat), NEW m \in Nat \ {0}, NEW n \in Nat, n <= Len(s), Increasing(s)
    PROVE  Increasing(SubSeq(s, m, n))
<1> DEFINE p == SubSeq(s, m, n)
<1>1. /\ Len(p) \in Nat
      /\ \A i \in 1 .. Len(p) : m + i - 1 \in 1 .. n /\ p[i] = s[m + i - 1]
  BY PartOf, LenProperties
<1> HIDE DEF p
<1>2. SUFFICES ASSUME NEW i \in 1 .. Len(p), NEW j \in 1 .. Len(p), i < j
               PROVE  p[i] < p[j]
  BY DEF Increasing, p
<1>3. /\ m + i - 1 \in 1 .. Len(s) /\ m + j - 1 \in 1 .. Len(s)
      /\ m + i - 1 < m + j - 1
  BY <1>1, <1>2, LenProperties
<1> QED
  BY <1>1, <1>3 DEF Increasing

LEMMA PacketIncreases ==
    ASSUME PacketSize \in Nat \ {0}, NEW n \in Nat
    PROVE  /\ Packet(n) \in Seq(Nat)
           /\ Increasing(Packet(n))
           /\ \A i \in 1 .. Len(Packet(n)) : n <= Packet(n)[i] /\ Packet(n)[i] < n + PacketSize
<1>1. Packet(n) \in [1 .. PacketSize -> Nat]
  BY DEF Packet
<1>2. Packet(n) \in Seq(Nat) /\ Len(Packet(n)) = PacketSize
  BY <1>1
<1> QED
  BY <1>2 DEF Packet, Increasing

\* What is put behind keeps the order if all of it comes later.
LEMMA Joined ==
    ASSUME NEW s \in Seq(Nat), NEW t \in Seq(Nat), Increasing(s), Increasing(t), Before(s, t)
    PROVE  Increasing(s \o t)
<1>1. SUFFICES ASSUME NEW i \in 1 .. Len(s \o t), NEW j \in 1 .. Len(s \o t), i < j
               PROVE  (s \o t)[i] < (s \o t)[j]
  BY DEF Increasing
<1>2. /\ Len(s) \in Nat /\ Len(t) \in Nat
      /\ Len(s \o t) = Len(s) + Len(t)
      /\ \A k \in 1 .. Len(s) + Len(t) :
            (s \o t)[k] = IF k <= Len(s) THEN s[k] ELSE t[k - Len(s)]
  BY ConcatProperties, LenProperties
<1>3. CASE j <= Len(s)
  BY <1>1, <1>2, <1>3 DEF Increasing
<1>4. CASE i <= Len(s) /\ ~(j <= Len(s))
  <2>1. i \in 1 .. Len(s) /\ j - Len(s) \in 1 .. Len(t)
    BY <1>2, <1>4
  <2> QED
    BY <2>1, <1>2, <1>4 DEF Before
<1>5. CASE ~(i <= Len(s))
  <2>1. i - Len(s) \in 1 .. Len(t) /\ j - Len(s) \in 1 .. Len(t) /\ i - Len(s) < j - Len(s)
    BY <1>1, <1>2, <1>5
  <2>2. ~(j <= Len(s))
    BY <1>1, <1>2, <1>5
  <2> QED
    BY <2>1, <2>2, <1>2, <1>5 DEF Increasing
<1> QED
  BY <1>1, <1>2, <1>3, <1>4, <1>5

\* What holds of each byte of two sequences holds of each byte of the whole.
LEMMA BelowJoined ==
    ASSUME NEW s \in Seq(Nat), NEW t \in Seq(Nat), NEW n \in Nat, Below(s, n), Below(t, n)
    PROVE  Below(s \o t, n)
<1>1. /\ Len(s) \in Nat /\ Len(t) \in Nat
      /\ Len(s \o t) = Len(s) + Len(t)
      /\ \A k \in 1 .. Len(s) + Len(t) :
            (s \o t)[k] = IF k <= Len(s) THEN s[k] ELSE t[k - Len(s)]
  BY ConcatProperties, LenProperties
<1>2. ASSUME NEW k \in 1 .. Len(s \o t) PROVE (s \o t)[k] < n
  BY <1>1, <1>2 DEF Below
<1> QED
  BY <1>2 DEF Below

-----------------------------------------------------------------------------
LEMMA SortedStep ==
    ASSUME PacketSize \in Nat \ {0}, Sorted, [Next]_vars
    PROVE  Sorted'
<1> USE DEF Sorted
<1>q. Len(queue) \in Nat /\ Len(out) \in Nat
  BY LenProperties
<1>1. CASE Put
  <2>1. PICK kept \in 0 .. Len(queue) : queue' = SubSeq(queue, 1, kept) \o Packet(next)
    BY <1>1 DEF Put
  <2> DEFINE old == SubSeq(queue, 1, kept)
  <2>2. /\ old \in Seq(Nat) /\ Len(old) \in Nat
        /\ \A i \in 1 .. Len(old) : i \in 1 .. Len(queue) /\ old[i] = queue[i]
        /\ Increasing(old)
    BY <1>q, PartOf, PartIncreases, LenProperties
  <2>3. /\ Packet(next) \in Seq(Nat)
        /\ Increasing(Packet(next))
        /\ \A i \in 1 .. Len(Packet(next)) :
              next <= Packet(next)[i] /\ Packet(next)[i] < next + PacketSize
    BY PacketIncreases
  <2>4. queue' = old \o Packet(next) /\ next' = next + PacketSize /\ out' = out
    BY <1>1, <2>1 DEF Put
  <2> HIDE DEF old
  <2>5. Before(old, Packet(next))
    <3>1. ASSUME NEW i \in 1 .. Len(old), NEW j \in 1 .. Len(Packet(next))
          PROVE  old[i] < Packet(next)[j]
      <4>1. old[i] < next /\ old[i] \in Nat
        BY <2>2, <3>1, ElementOfSeq DEF Below
      <4>2. next <= Packet(next)[j] /\ Packet(next)[j] \in Nat
        BY <2>3, <3>1, ElementOfSeq
      <4> QED
        BY <4>1, <4>2
    <3> QED
      BY <3>1 DEF Before
  <2>6. queue' \in Seq(Nat) /\ Increasing(queue')
    BY <2>2, <2>3, <2>4, <2>5, Joined, ConcatProperties
  <2>7. Below(queue', next')
    <3>1. ASSUME NEW i \in 1 .. Len(old) PROVE old[i] < next + PacketSize
      <4>1. i \in 1 .. Len(queue) /\ old[i] = queue[i] /\ queue[i] < next
        BY <2>2 DEF Below
      <4>2. queue[i] \in Nat
        BY <4>1, ElementOfSeq
      <4> QED
        BY <4>1, <4>2
    <3>2. Below(old, next + PacketSize) /\ Below(Packet(next), next + PacketSize)
      BY <2>3, <3>1 DEF Below
    <3> QED
      BY <2>2, <2>3, <2>4, <3>2, BelowJoined
  <2>8. Below(out', next')
    <3>1. ASSUME NEW i \in 1 .. Len(out) PROVE out[i] < next + PacketSize
      <4>1. out[i] < next
        BY DEF Below
      <4>2. out[i] \in Nat
        BY ElementOfSeq
      <4> QED
        BY <4>1, <4>2
    <3> QED
      BY <2>4, <3>1 DEF Below
  <2>9. Before(out', queue')
    <3>1. ASSUME NEW i \in 1 .. Len(out), NEW j \in 1 .. Len(queue') PROVE out[i] < queue'[j]
      <4>1. out[i] \in Nat /\ out[i] < next
        BY <3>1, ElementOfSeq DEF Below
      <4>2. /\ j \in 1 .. Len(old) + Len(Packet(next))
            /\ queue'[j] = IF j <= Len(old) THEN old[j] ELSE Packet(next)[j - Len(old)]
        BY <2>2, <2>3, <2>4, <3>1, ConcatProperties
      <4>3. CASE j <= Len(old)
        BY <2>2, <3>1, <4>2, <4>3 DEF Before
      <4>4. CASE ~(j <= Len(old))
        <5>1. j - Len(old) \in 1 .. Len(Packet(next))
          BY <2>2, <2>3, <4>2, <4>4, LenProperties
        <5>2. next <= Packet(next)[j - Len(old)] /\ Packet(next)[j - Len(old)] \in Nat
          BY <2>3, <5>1, ElementOfSeq
        <5> QED
          BY <4>1, <4>2, <4>4, <5>2
      <4> QED
        BY <4>3, <4>4
    <3> QED
      BY <2>4, <3>1 DEF Before
  <2> QED
    BY <2>4, <2>6, <2>7, <2>8, <2>9 DEF Increasing
<1>2. ASSUME NEW n \in 1 .. Len(queue), queue' = Drop(queue, n)
      PROVE  /\ queue' \in Seq(Nat) /\ Increasing(queue')
             /\ \A i \in 1 .. Len(queue') : n + i \in 1 .. Len(queue) /\ queue'[i] = queue[n + i]
  <2>1. n + 1 \in Nat \ {0} /\ queue' = SubSeq(queue, n + 1, Len(queue))
    BY <1>q, <1>2 DEF Drop
  <2>2. queue' \in Seq(Nat) /\ Increasing(queue') /\ Len(queue') \in Nat
    BY <1>q, <2>1, PartOf, PartIncreases, LenProperties
  <2>3. \A i \in 1 .. Len(queue') :
           (n + 1) + i - 1 \in 1 .. Len(queue) /\ queue'[i] = queue[(n + 1) + i - 1]
    BY <1>q, <2>1, PartOf
  <2>4. \A i \in 1 .. Len(queue') : (n + 1) + i - 1 = n + i
    BY <2>2
  <2> QED
    BY <2>2, <2>3, <2>4
<1>3. CASE Lose
  <2>1. PICK n \in 1 .. Len(queue) : queue' = Drop(queue, n)
    BY <1>3 DEF Lose
  <2>2. next' = next /\ out' = out
    BY <1>3 DEF Lose
  <2>3. Below(queue', next') /\ Before(out', queue')
    BY <1>2, <2>1, <2>2 DEF Before, Below
  <2> QED
    BY <1>2, <2>1, <2>2, <2>3
<1>4. CASE Deliver
  <2>1. PICK n \in 1 .. Len(queue) : out' = out \o SubSeq(queue, 1, n) /\ queue' = Drop(queue, n)
    BY <1>4 DEF Deliver
  <2> DEFINE sent == SubSeq(queue, 1, n)
  <2>2. /\ sent \in Seq(Nat) /\ Increasing(sent) /\ Len(sent) = n
        /\ \A i \in 1 .. Len(sent) : i \in 1 .. n /\ sent[i] = queue[i]
    BY <1>q, PartOf, PartIncreases
  <2>3. next' = next /\ out' = out \o sent
    BY <1>4, <2>1 DEF Deliver
  <2> HIDE DEF sent
  <2>4. Before(out, sent)
    <3>1. ASSUME NEW i \in 1 .. Len(out), NEW j \in 1 .. Len(sent) PROVE out[i] < sent[j]
      <4>1. j \in 1 .. Len(queue) /\ sent[j] = queue[j]
        BY <1>q, <2>2, <3>1
      <4> QED
        BY <4>1 DEF Before
    <3> QED
      BY <3>1 DEF Before
  <2>5. Below(sent, next)
    BY <1>q, <2>2 DEF Below
  <2>6. out' \in Seq(Nat) /\ Increasing(out') /\ Below(out', next)
    BY <2>2, <2>3, <2>4, <2>5, Joined, BelowJoined, ConcatProperties
  <2>7. Below(queue', next)
    BY <1>2, <2>1 DEF Below
  <2>8. Before(out', queue')
    <3>1. ASSUME NEW i \in 1 .. Len(out'), NEW j \in 1 .. Len(queue') PROVE out'[i] < queue'[j]
      <4>1. n + j \in 1 .. Len(queue) /\ queue'[j] = queue[n + j]
        BY <1>2, <2>1, <3>1
      <4>2. /\ i \in 1 .. Len(out) + Len(sent)
            /\ out'[i] = IF i <= Len(out) THEN out[i] ELSE sent[i - Len(out)]
        BY <2>2, <2>3, <3>1, ConcatProperties
      <4>3. CASE i <= Len(out)
        BY <1>q, <4>1, <4>2, <4>3 DEF Before
      <4>4. CASE ~(i <= Len(out))
        <5>0. Len(queue) \in Nat /\ Len(out) \in Nat /\ n \in 1 .. Len(queue) /\ j \in Nat \ {0}
          BY <1>q, <2>2, <3>1, LenProperties
        <5>1. i - Len(out) \in 1 .. n
          BY <2>2, <4>2, <4>4, <5>0
        <5>2. i - Len(out) \in 1 .. Len(queue) /\ i - Len(out) < n + j
          BY <5>0, <5>1
        <5>3. out'[i] = queue[i - Len(out)]
          BY <2>2, <4>2, <4>4, <5>1
        <5> QED
          BY <4>1, <5>2, <5>3 DEF Increasing
      <4> QED
        BY <4>3, <4>4
    <3> QED
      BY <3>1 DEF Before
  <2> QED
    BY <1>2, <2>1, <2>3, <2>6, <2>7, <2>8 DEF Increasing, Below
<1>5. CASE UNCHANGED vars
  BY <1>5 DEF vars, Increasing, Before, Below
<1> QED
  BY <1>1, <1>3, <1>4, <1>5 DEF Next

LEMMA SortedInit == Init => Sorted
BY DEF Init, Sorted, Increasing, Before, Below

LEMMA SortedIsInOrder == Sorted => InOrder
BY Joined DEF Sorted, InOrder, Increasing

\* A pipe never swaps, repeats or invents bytes: what has come out, and what is
\* still to come after it, are numbered upwards.
THEOREM Ordered ==
    ASSUME PacketSize \in Nat \ {0}
    PROVE  Spec => []InOrder
<1>1. Sorted /\ [Next]_vars => Sorted'
  BY SortedStep
<1> QED
  BY <1>1, SortedInit, SortedIsInOrder, PTL DEF Spec
=============================================================================
