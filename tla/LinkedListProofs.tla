-------------------------- MODULE LinkedListProofs --------------------------
(***************************************************************************)
(* The linked list is well linked, for any number of nodes, items and       *)
(* threads, and implements ItemList.                                        *)
(***************************************************************************)
EXTENDS LinkedList, SequenceTheorems, TLAPS

\* An element more at the end, one more at the front, one less.
LEMMA Appended ==
    ASSUME NEW S, NEW s \in Seq(S), NEW e \in S
    PROVE  /\ Append(s, e) \in Seq(S)
           /\ Len(Append(s, e)) = Len(s) + 1
           /\ \A i \in 1 .. Len(s) + 1 : Append(s, e)[i] = IF i = Len(s) + 1 THEN e ELSE s[i]
OBVIOUS

LEMMA Prepended ==
    ASSUME NEW S, NEW s \in Seq(S), NEW e \in S
    PROVE  /\ <<e>> \o s \in Seq(S)
           /\ Len(<<e>> \o s) = Len(s) + 1
           /\ \A i \in 1 .. Len(s) + 1 : (<<e>> \o s)[i] = IF i = 1 THEN e ELSE s[i - 1]
<1>1. <<e>> \in Seq(S) /\ Len(<<e>>) = 1 /\ <<e>>[1] = e
  OBVIOUS
<1>2. /\ <<e>> \o s \in Seq(S)
      /\ Len(<<e>> \o s) = Len(<<e>>) + Len(s)
      /\ \A i \in 1 .. Len(<<e>>) + Len(s) :
            (<<e>> \o s)[i] = IF i <= Len(<<e>>) THEN <<e>>[i] ELSE s[i - Len(<<e>>)]
  BY <1>1, ConcatProperties
<1>3. Len(s) \in Nat
  BY LenProperties
<1>4. ASSUME NEW i \in 1 .. Len(s) + 1 PROVE (<<e>> \o s)[i] = IF i = 1 THEN e ELSE s[i - 1]
  <2>1. (<<e>> \o s)[i] = IF i <= 1 THEN <<e>>[i] ELSE s[i - 1]
    BY <1>1, <1>2, <1>3
  <2>2. i <= 1 <=> i = 1
    BY <1>3
  <2> QED
    BY <1>1, <2>1, <2>2
<1> QED
  BY <1>1, <1>2, <1>3, <1>4

LEMMA Removed ==
    ASSUME NEW S, NEW s \in Seq(S), NEW k \in 1 .. Len(s)
    PROVE  /\ RemoveAt(s, k) \in Seq(S)
           /\ Len(RemoveAt(s, k)) = Len(s) - 1
           /\ \A i \in 1 .. Len(s) - 1 : RemoveAt(s, k)[i] = IF i < k THEN s[i] ELSE s[i + 1]
<1> DEFINE a == SubSeq(s, 1, k - 1)
<1> DEFINE b == SubSeq(s, k + 1, Len(s))
<1>1. RemoveAt(s, k) = a \o b
  BY DEF RemoveAt
<1>2. a \in Seq(S) /\ Len(a) = k - 1 /\ \A i \in 1 .. k - 1 : a[i] = s[i]
  OBVIOUS
<1>3. b \in Seq(S) /\ Len(b) = Len(s) - k /\ \A i \in 1 .. Len(s) - k : b[i] = s[k + i]
  OBVIOUS
<1> HIDE DEF a, b
<1>4. /\ a \o b \in Seq(S) /\ Len(a \o b) = Len(a) + Len(b)
      /\ \A i \in 1 .. Len(a) + Len(b) : (a \o b)[i] = IF i <= Len(a) THEN a[i] ELSE b[i - Len(a)]
  BY <1>2, <1>3, ConcatProperties
<1>5. Len(s) \in Nat /\ Len(a) + Len(b) = Len(s) - 1
  BY <1>2, <1>3, LenProperties
<1>6. ASSUME NEW i \in 1 .. Len(s) - 1
      PROVE  (a \o b)[i] = IF i < k THEN s[i] ELSE s[i + 1]
  <2>1. (a \o b)[i] = IF i <= k - 1 THEN a[i] ELSE b[i - (k - 1)]
    BY <1>2, <1>4, <1>5
  <2>2. i < k => i \in 1 .. k - 1
    BY <1>5
  <2>3. ~(i < k) => i - (k - 1) \in 1 .. Len(s) - k /\ k + (i - (k - 1)) = i + 1 /\ ~(i <= k - 1)
    BY <1>5
  <2> QED
    BY <1>2, <1>3, <2>1, <2>2, <2>3
<1> QED
  BY <1>1, <1>4, <1>5, <1>6

-----------------------------------------------------------------------------
\* The state of the list is well typed and well linked, and the iterator
\* stands in it: this is inductive, the parts are not.
Inv == TypeOK /\ WellLinked /\ IteratorStands

LEMMA InitInv == Init => Inv
<1> SUFFICES ASSUME Init PROVE Inv
  OBVIOUS
<1>1. Len(order) = 0 /\ order \in Seq(Nodes)
  BY DEF Init
<1>2. TypeOK
  BY <1>1 DEF Init, TypeOK, NodeOrNull, NoItr
<1>3. WellLinked
  BY <1>1 DEF Init, WellLinked, Chained, Accounted, NodeAt
<1>4. IteratorStands
  BY <1>1 DEF Init, IteratorStands
<1> QED
  BY <1>2, <1>3, <1>4 DEF Inv

\* What the invariant says of the two ends.
LEMMA Ends ==
    ASSUME Inv
    PROVE  /\ Len(order) \in Nat
           /\ \A i \in 1 .. Len(order) : order[i] \in Nodes /\ order[i] \in used /\ order[i] # Null
           /\ headerPtr = Null <=> Len(order) = 0
           /\ Len(order) > 0 => headerPtr = order[1] /\ footerPtr = order[Len(order)]
           /\ Len(order) = 0 => footerPtr = Null
<1>1. Len(order) \in Nat
  BY LenProperties DEF Inv, TypeOK
<1>2. \A i \in 1 .. Len(order) : order[i] \in Nodes /\ order[i] \in used /\ order[i] # Null
  BY ElementOfSeq, NullAssumption DEF Inv, TypeOK, WellLinked, Accounted
<1>3. headerPtr = NodeAt(1) /\ footerPtr = NodeAt(Len(order))
  BY DEF Inv, WellLinked, Chained
<1> QED
  BY <1>1, <1>2, <1>3 DEF NodeAt

LEMMA AppendInv ==
    ASSUME Inv, NEW d \in Items, AppendItem(d)
    PROVE  Inv'
<1> USE Ends
<1>1. PICK n \in Nodes \ used :
          /\ used' = used \cup {n}
          /\ data' = [data EXCEPT ![n] = d]
          /\ prev' = [prev EXCEPT ![n] = footerPtr]
          /\ IF headerPtr = Null
                THEN headerPtr' = n /\ next' = [next EXCEPT ![n] = Null]
                ELSE next' = [next EXCEPT ![n] = Null, ![footerPtr] = n] /\ UNCHANGED headerPtr
          /\ footerPtr' = n
          /\ order' = Append(order, n)
  BY DEF AppendItem
<1>2. Lock = Nobody /\ count' = count + 1 /\ UNCHANGED <<Lock, itr, ret, pos>>
  BY DEF AppendItem
<1>3. /\ order' \in Seq(Nodes)
      /\ Len(order') = Len(order) + 1
      /\ \A i \in 1 .. Len(order) + 1 : order'[i] = IF i = Len(order) + 1 THEN n ELSE order[i]
  BY <1>1, Appended DEF Inv, TypeOK
<1>4. \A i \in 1 .. Len(order) : order[i] # n
  BY <1>1
<1>5. TypeOK'
  BY <1>1, <1>2, <1>3 DEF Inv, TypeOK, NodeOrNull
<1>6. Chained'
  <2>1. headerPtr' = NodeAt(1)' /\ footerPtr' = NodeAt(Len(order))'
    BY <1>1, <1>3, NullAssumption DEF NodeAt
  <2>2. ASSUME NEW i \in 1 .. Len(order')
        PROVE  next'[order'[i]] = NodeAt(i + 1)' /\ prev'[order'[i]] = NodeAt(i - 1)'
    <3>1. CASE i = Len(order) + 1
      BY <1>1, <1>3, <1>4, <2>2, <3>1 DEF Inv, TypeOK, WellLinked, Chained, NodeAt
    <3>2. CASE i # Len(order) + 1
      BY <1>1, <1>3, <1>4, <2>2, <3>2 DEF Inv, TypeOK, WellLinked, Chained, Accounted, NodeAt
    <3> QED
      BY <3>1, <3>2
  <2> QED
    BY <2>1, <2>2 DEF Chained
<1>7. Accounted'
  BY <1>1, <1>2, <1>3, <1>4 DEF Inv, TypeOK, WellLinked, Accounted
<1>8. IteratorStands'
  BY <1>2, <1>3 DEF Inv, IteratorStands
<1> QED
  BY <1>5, <1>6, <1>7, <1>8 DEF Inv, WellLinked

LEMMA InsertInv ==
    ASSUME Inv, NEW d \in Items, InsertItem(d)
    PROVE  Inv'
<1> USE Ends
<1>1. PICK n \in Nodes \ used :
          /\ used' = used \cup {n}
          /\ data' = [data EXCEPT ![n] = d]
          /\ next' = [next EXCEPT ![n] = headerPtr]
          /\ IF headerPtr = Null
                THEN footerPtr' = n /\ prev' = [prev EXCEPT ![n] = Null]
                ELSE prev' = [prev EXCEPT ![n] = Null, ![headerPtr] = n] /\ UNCHANGED footerPtr
          /\ headerPtr' = n
          /\ order' = <<n>> \o order
  BY DEF InsertItem
<1>2. Lock = Nobody /\ count' = count + 1 /\ UNCHANGED <<Lock, itr, ret, pos>>
  BY DEF InsertItem
<1>3. /\ order' \in Seq(Nodes)
      /\ Len(order') = Len(order) + 1
      /\ \A i \in 1 .. Len(order) + 1 : order'[i] = IF i = 1 THEN n ELSE order[i - 1]
  BY <1>1, Prepended DEF Inv, TypeOK
<1>4. \A i \in 1 .. Len(order) : order[i] # n
  BY <1>1
<1>5. TypeOK'
  BY <1>1, <1>2, <1>3 DEF Inv, TypeOK, NodeOrNull
<1>6. Chained'
  <2>1. headerPtr' = NodeAt(1)' /\ footerPtr' = NodeAt(Len(order))'
    BY <1>1, <1>3, NullAssumption DEF NodeAt
  <2>2. ASSUME NEW i \in 1 .. Len(order')
        PROVE  next'[order'[i]] = NodeAt(i + 1)' /\ prev'[order'[i]] = NodeAt(i - 1)'
    <3>1. CASE i = 1
      BY <1>1, <1>3, <1>4, <2>2, <3>1 DEF Inv, TypeOK, WellLinked, Chained, NodeAt
    <3>2. CASE i # 1
      <4> DEFINE j == i - 1
      <4>1. j \in 1 .. Len(order) /\ order'[i] = order[j] /\ order[j] # n
        BY <1>3, <1>4, <2>2, <3>2
      <4>2. next'[order[j]] = NodeAt(j + 1) /\ NodeAt(j + 1) = NodeAt(i + 1)'
        <5>1. next'[order[j]] = next[order[j]]
          BY <1>1, <4>1 DEF Inv, TypeOK
        <5>2. NodeAt(j + 1) = NodeAt(i + 1)'
          BY <1>3, <4>1 DEF NodeAt
        <5> QED
          BY <4>1, <5>1, <5>2 DEF Inv, WellLinked, Chained
      <4>3. CASE j = 1
        <5>1. headerPtr = order[j] /\ headerPtr # Null /\ headerPtr \in Nodes
          BY <4>1, <4>3
        <5>2. prev'[order[j]] = n
          BY <1>1, <5>1, <4>1 DEF Inv, TypeOK
        <5>3. NodeAt(i - 1)' = n
          BY <1>3, <4>1, <4>3 DEF NodeAt
        <5> QED
          BY <4>1, <4>2, <5>2, <5>3
      <4>4. CASE j # 1
        <5>1. order[j] # headerPtr
          BY <4>1, <4>4 DEF Inv, WellLinked, Accounted
        <5>2. prev'[order[j]] = prev[order[j]]
          BY <1>1, <4>1, <5>1 DEF Inv, TypeOK
        <5>3. prev[order[j]] = NodeAt(j - 1)
          BY <4>1 DEF Inv, WellLinked, Chained
        <5>4. NodeAt(j - 1) = NodeAt(i - 1)'
          BY <1>3, <4>1, <4>4 DEF NodeAt
        <5> QED
          BY <4>1, <4>2, <5>2, <5>3, <5>4
      <4> QED
        BY <4>1, <4>2, <4>3, <4>4
    <3> QED
      BY <3>1, <3>2
  <2> QED
    BY <2>1, <2>2 DEF Chained
<1>7. Accounted'
  <2>1. used' = {order'[i] : i \in 1 .. Len(order')}
    <3>1. \A i \in 1 .. Len(order) : i + 1 \in 1 .. Len(order') /\ order'[i + 1] = order[i]
      BY <1>3
    <3>2. \A i \in 1 .. Len(order') : i = 1 \/ i - 1 \in 1 .. Len(order)
      BY <1>3
    <3> QED
      BY <1>1, <1>3, <3>1, <3>2 DEF Inv, WellLinked, Accounted
  <2>2. \A i, j \in 1 .. Len(order') : order'[i] = order'[j] => i = j
    BY <1>1, <1>3, <1>4 DEF Inv, WellLinked, Accounted
  <2>3. \A i \in 1 .. Len(order') : data'[order'[i]] \in Items
    BY <1>1, <1>3, <1>4 DEF Inv, TypeOK, WellLinked, Accounted
  <2> QED
    BY <1>2, <1>3, <2>1, <2>2, <2>3 DEF Inv, WellLinked, Accounted
<1>8. IteratorStands'
  BY <1>2, <1>3 DEF Inv, IteratorStands
<1> QED
  BY <1>5, <1>6, <1>7, <1>8 DEF Inv, WellLinked

\* The steps that leave the list alone.
LEMMA SameLinks ==
    ASSUME WellLinked, UNCHANGED links
    PROVE  WellLinked'
BY DEF WellLinked, Chained, Accounted, NodeAt, links, fields

LEMMA CreateInv ==
    ASSUME Inv, NEW t \in Threads, CreateIterator(t)
    PROVE  Inv'
<1> USE Ends
<1>1. UNCHANGED links /\ Lock' = t
  BY DEF CreateIterator
<1>2. TypeOK'
  BY <1>1 DEF Inv, TypeOK, CreateIterator, links, fields, NodeOrNull, DataOf, Accounted, WellLinked
<1>3. WellLinked'
  BY <1>1, SameLinks DEF Inv
<1>4. IteratorStands'
  BY <1>1, NobodyAssumption
  DEF Inv, TypeOK, CreateIterator, IteratorStands, WellLinked, Chained, NodeAt, NoItr, links, fields
<1> QED
  BY <1>2, <1>3, <1>4 DEF Inv

\* A walk that is not over stands on a node, with its neighbours.
LEMMA Standing ==
    ASSUME Inv
    PROVE  /\ pos \in Nat /\ pos <= Len(order)
           /\ itr.current = Null <=> pos = 0
           /\ pos = 0 => itr = NoItr
           /\ pos > 0 => itr.current = order[pos] /\ itr.prev = NodeAt(pos - 1)
           /\ itr.next = IF pos \in 1 .. Len(order) - 1 THEN order[pos + 1] ELSE Null
<1>1. pos \in 0 .. Len(order) /\ Len(order) \in Nat
  BY Ends DEF Inv, IteratorStands
<1>2. CASE pos = 0
  BY <1>1, <1>2 DEF Inv, IteratorStands, NoItr
<1>3. CASE pos > 0
  <2>1. /\ itr.current = NodeAt(pos) /\ itr.prev = NodeAt(pos - 1) /\ itr.next = NodeAt(pos + 1)
    BY <1>1, <1>3 DEF Inv, IteratorStands
  <2> QED
    BY <1>1, <1>3, <2>1, Ends DEF NodeAt
<1> QED
  BY <1>1, <1>2, <1>3

LEMMA IterateInv ==
    ASSUME Inv, Iterate
    PROVE  Inv'
<1> USE Ends, Standing
<1>1. UNCHANGED links /\ UNCHANGED Lock /\ Lock # Nobody
  BY DEF Iterate
<1>3. WellLinked'
  BY <1>1, SameLinks DEF Inv
<1>4. CASE itr.next = Null
  <2>1. ret' = Null /\ UNCHANGED <<itr, pos>>
    BY <1>4 DEF Iterate
  <2>2. TypeOK'
    BY <1>1, <2>1 DEF Inv, TypeOK, links, fields
  <2>3. IteratorStands'
    BY <1>1, <2>1 DEF Inv, IteratorStands, NodeAt, links, fields
  <2> QED
    BY <1>3, <2>2, <2>3 DEF Inv
<1>5. CASE itr.next # Null
  <2>1. /\ itr' = [current |-> itr.next, prev |-> prev[itr.next], next |-> next[itr.next]]
        /\ ret' = data[itr.next]
        /\ pos' = pos + 1
    BY <1>5 DEF Iterate
  <2>2. pos + 1 \in 1 .. Len(order) /\ pos > 0 /\ itr.next = order[pos + 1]
    BY <1>5
  <2>3. itr' = [current |-> NodeAt(pos + 1), next |-> NodeAt(pos + 2), prev |-> NodeAt(pos)]
    BY <2>1, <2>2 DEF Inv, WellLinked, Chained, NodeAt
  <2>4. TypeOK'
    BY <1>1, <2>1, <2>2 DEF Inv, TypeOK, WellLinked, Accounted, NodeOrNull, links, fields
  <2>5. IteratorStands'
    <3>1. Len(order') = Len(order) /\ \A i \in Nat : NodeAt(i)' = NodeAt(i)
      BY <1>1 DEF NodeAt, links
    <3>2. pos' \in 0 .. Len(order') /\ pos' # 0 /\ Lock' # Nobody
      BY <1>1, <2>1, <2>2, <3>1
    <3>3. itr' = [current |-> NodeAt(pos)', next |-> NodeAt(pos + 1)', prev |-> NodeAt(pos - 1)']
      BY <2>1, <2>2, <2>3, <3>1
    <3> QED
      BY <3>2, <3>3 DEF IteratorStands
  <2> QED
    BY <1>3, <2>4, <2>5 DEF Inv
<1> QED
  BY <1>4, <1>5

\* The removal of a node from the list and of the walk's place in it.
LEMMA RemoveInv ==
    ASSUME Inv, RemoveCurrent
    PROVE  Inv'
<1>0. PICK len \in Nat : len = Len(order)
  BY Ends
<1> DEFINE c == itr.current
<1> DEFINE p == itr.prev
<1> DEFINE n == itr.next
<1>1. /\ Lock # Nobody /\ c # Null
      /\ Relink(c, p, n)
      /\ itr' = Moved(c, p, n)
      /\ used' = used \ {c}
      /\ count' = count - 1
      /\ ret' = DataOf(n)
      /\ order' = RemoveAt(order, pos)
      /\ pos' = IF pos < len THEN pos ELSE 0
      /\ UNCHANGED <<data, Lock>>
  BY <1>0 DEF RemoveCurrent
<1>2. pos \in 1 .. len /\ len \in Nat /\ c = order[pos] /\ c \in Nodes
  BY <1>0, <1>1, Ends, Standing
<1>3. /\ p = NodeAt(pos - 1) /\ n = NodeAt(pos + 1)
      /\ prev[c] = p /\ next[c] = n
      /\ c = headerPtr <=> pos = 1
      /\ c = footerPtr <=> pos = len
  <2>1. p = NodeAt(pos - 1) /\ n = NodeAt(pos + 1)
    BY <1>0, <1>2, Standing DEF NodeAt
  <2>2. prev[c] = NodeAt(pos - 1) /\ next[c] = NodeAt(pos + 1)
    BY <1>0, <1>2 DEF Inv, WellLinked, Chained
  <2>3. c = headerPtr <=> pos = 1
    BY <1>0, <1>2, Ends DEF Inv, WellLinked, Accounted
  <2>4. c = footerPtr <=> pos = len
    BY <1>0, <1>2, Ends DEF Inv, WellLinked, Accounted
  <2> QED
    BY <2>1, <2>2, <2>3, <2>4
<1>4. /\ order' \in Seq(Nodes)
      /\ Len(order') = len - 1
      /\ \A i \in 1 .. len - 1 : order'[i] = IF i < pos THEN order[i] ELSE order[i + 1]
  BY <1>0, <1>1, <1>2, Removed DEF Inv, TypeOK
<1>5. /\ p = Null <=> pos = 1
      /\ n = Null <=> pos = len
      /\ pos > 1 => p = order[pos - 1] /\ p \in Nodes
      /\ pos < len => n = order[pos + 1] /\ n \in Nodes
  BY <1>0, <1>2, <1>3, Ends DEF NodeAt
<1>21. headerPtr = order[1] /\ footerPtr = order[len]
  BY <1>0, <1>2, Ends
<1> HIDE DEF c, p, n
\* Only the neighbours' pointers change.
<1>6. /\ headerPtr' = IF pos = 1 THEN n ELSE headerPtr
      /\ footerPtr' = IF pos = len THEN p ELSE footerPtr
      /\ next' = IF pos > 1 THEN [next EXCEPT ![p] = n] ELSE next
      /\ prev' = IF pos < len THEN [prev EXCEPT ![n] = p] ELSE prev
  <2>1. CASE pos = 1 /\ pos = len
    <3>1. p = Null /\ c = headerPtr /\ next[c] = n /\ prev[c] = p
      BY <1>3, <1>5, <2>1
    <3>2. n = Null /\ c = footerPtr
      BY <1>2, <1>3, <1>5, <2>1
    <3>3. headerPtr' = n /\ footerPtr' = p
      BY <1>1, <3>1, <3>2 DEF Relink
    <3>4. next' = next /\ prev' = prev
      BY <1>1, <3>1, <3>2 DEF Relink
    <3> QED
      BY <2>1, <3>1, <3>2, <3>3, <3>4
  <2>2. CASE pos = 1 /\ pos < len
    <3>1. p = Null /\ c = headerPtr /\ next[c] = n /\ prev[c] = p
      BY <1>3, <1>5, <2>2
    <3>2. n # Null /\ c # footerPtr
      BY <1>2, <1>3, <1>5, <2>2
    <3>3. headerPtr' = n /\ footerPtr' = footerPtr
      BY <1>1, <3>1, <3>2 DEF Relink
    <3>4. next' = next /\ prev' = [prev EXCEPT ![n] = Null]
      BY <1>1, <3>1, <3>2 DEF Relink
    <3>5. prev' = [prev EXCEPT ![n] = p]
      BY <3>1, <3>4
    <3>6. ~(pos > 1) /\ pos # len
      BY <1>2, <2>2
    <3>7. headerPtr' = (IF pos = 1 THEN n ELSE headerPtr) /\ footerPtr' = (IF pos = len THEN p ELSE footerPtr)
      BY <2>2, <3>3, <3>6
    <3>8. next' = IF pos > 1 THEN [next EXCEPT ![p] = n] ELSE next
      BY <3>4, <3>6
    <3>9. prev' = IF pos < len THEN [prev EXCEPT ![n] = p] ELSE prev
      BY <2>2, <3>5
    <3> QED
      BY <3>7, <3>8, <3>9
  <2>3. CASE pos > 1 /\ pos = len
    <3>1. n = Null /\ c = footerPtr /\ next[c] = n /\ prev[c] = p
      BY <1>3, <1>5, <2>3
    <3>2. p # Null /\ c # headerPtr /\ ~(pos < len) /\ pos # 1
      BY <1>2, <1>3, <1>5, <2>3
    <3>3. headerPtr' = headerPtr /\ footerPtr' = p
      BY <1>1, <3>1, <3>2 DEF Relink
    <3>4. next' = [next EXCEPT ![p] = Null] /\ prev' = prev
      BY <1>1, <3>1, <3>2 DEF Relink
    <3>5. next' = [next EXCEPT ![p] = n]
      BY <3>1, <3>4
    <3>7. headerPtr' = (IF pos = 1 THEN n ELSE headerPtr) /\ footerPtr' = (IF pos = len THEN p ELSE footerPtr)
      BY <2>3, <3>2, <3>3
    <3>8. next' = IF pos > 1 THEN [next EXCEPT ![p] = n] ELSE next
      BY <2>3, <3>5
    <3>9. prev' = IF pos < len THEN [prev EXCEPT ![n] = p] ELSE prev
      BY <3>2, <3>4
    <3> QED
      BY <3>7, <3>8, <3>9
  <2>4. CASE pos > 1 /\ pos < len
    BY <1>1, <1>2, <1>3, <1>5, <2>4 DEF Relink
  <2> QED
    BY <1>2, <2>1, <2>2, <2>3, <2>4
\* Where the nodes that stay come from.
<1>7. ASSUME NEW i \in 1 .. len - 1
      PROVE  /\ i < pos => order'[i] = order[i] /\ i \in 1 .. len
             /\ ~(i < pos) => order'[i] = order[i + 1] /\ i + 1 \in 1 .. len
  BY <1>2, <1>4
<1>8. \A i, j \in 1 .. len : order[i] = order[j] => i = j
  BY <1>0 DEF Inv, WellLinked, Accounted
<1>9. \A i \in 1 .. len : next[order[i]] = NodeAt(i + 1) /\ prev[order[i]] = NodeAt(i - 1)
  BY <1>0 DEF Inv, WellLinked, Chained
<1>10. \A i \in 1 .. len : order[i] \in Nodes
  BY <1>0, Ends
<1>11. next \in [Nodes -> NodeOrNull] /\ prev \in [Nodes -> NodeOrNull]
  BY <1>0 DEF Inv, TypeOK
<1>12. \A i \in 0 .. len - 1 : NodeAt(i)' = IF i = 0 THEN Null ELSE order'[i]
  BY <1>0, <1>2, <1>4 DEF NodeAt
<1>13. NodeAt(len)' = Null
  BY <1>0, <1>2, <1>4 DEF NodeAt
<1>14. \A i \in 1 .. len : NodeAt(i) = order[i]
  BY <1>0 DEF NodeAt
<1>15. NodeAt(0) = Null /\ NodeAt(len + 1) = Null
  BY <1>0, <1>2 DEF NodeAt
<1>16. Chained'
  <2>1. headerPtr' = NodeAt(1)'
    <3>1. CASE pos = 1 /\ len = 1
      BY <1>5, <1>6, <1>13, <3>1
    <3>2. CASE pos = 1 /\ len > 1
      BY <1>2, <1>5, <1>6, <1>7, <1>12, <3>2
    <3>3. CASE pos > 1
      BY <1>2, <1>6, <1>7, <1>12, <1>21, <3>3
    <3> QED
      BY <1>2, <3>1, <3>2, <3>3
  <2>2. footerPtr' = NodeAt(Len(order))'
    <3>1. CASE len = 1
      BY <1>2, <1>4, <1>5, <1>6, <1>12, <3>1
    <3>2. CASE pos = len /\ len > 1
      BY <1>2, <1>4, <1>5, <1>6, <1>7, <1>12, <3>2
    <3>3. CASE pos < len
      BY <1>2, <1>4, <1>6, <1>7, <1>12, <1>21, <3>3
    <3> QED
      BY <1>2, <3>1, <3>2, <3>3
  <2>3. ASSUME NEW i \in 1 .. len - 1 PROVE next'[order'[i]] = NodeAt(i + 1)'
    <3>1. CASE i < pos - 1
      <4>1. order'[i] = order[i] /\ order[i] # p /\ order[i] \in Nodes
        BY <1>2, <1>5, <1>7, <1>8, <1>10, <3>1
      <4>2. next'[order'[i]] = order[i + 1]
        BY <1>2, <1>6, <1>9, <1>11, <1>14, <3>1, <4>1
      <4> QED
        BY <1>2, <1>7, <1>12, <3>1, <4>2
    <3>2. CASE i = pos - 1
      <4>1. order'[i] = p /\ p \in Nodes /\ pos > 1
        BY <1>2, <1>5, <1>7, <3>2
      <4>2. next'[order'[i]] = n
        BY <1>6, <1>11, <4>1
      <4>3. CASE pos = len
        BY <1>5, <1>13, <3>2, <4>2, <4>3, <1>2
      <4>4. CASE pos < len
        <5>1. order'[pos] = order[pos + 1]
          BY <1>2, <1>7, <4>4
        <5> QED
          BY <1>2, <1>5, <1>12, <3>2, <4>2, <4>4, <5>1
      <4> QED
        BY <1>2, <4>3, <4>4
    <3>3. CASE i >= pos
      <4>1. order'[i] = order[i + 1] /\ i + 1 \in 1 .. len /\ order[i + 1] \in Nodes
        BY <1>2, <1>7, <1>10, <3>3
      <4>2. pos > 1 => order[i + 1] # p
        BY <1>2, <1>5, <1>8, <3>3, <4>1
      <4>3. next'[order'[i]] = NodeAt(i + 2)
        <5>1. next'[order'[i]] = next[order[i + 1]]
          BY <1>6, <1>11, <4>1, <4>2
        <5>2. next[order[i + 1]] = NodeAt((i + 1) + 1) /\ (i + 1) + 1 = i + 2
          BY <1>9, <4>1
        <5> QED
          BY <5>1, <5>2
      <4>4. CASE i = len - 1
        BY <1>2, <1>13, <1>15, <4>3, <4>4
      <4>5. CASE i < len - 1
        BY <1>2, <1>7, <1>12, <1>14, <3>3, <4>3, <4>5
      <4> QED
        BY <1>2, <4>4, <4>5
    <3> QED
      BY <1>2, <3>1, <3>2, <3>3
  <2>4. ASSUME NEW i \in 1 .. len - 1 PROVE prev'[order'[i]] = NodeAt(i - 1)'
    <3>1. CASE i < pos
      <4>1. order'[i] = order[i] /\ order[i] \in Nodes /\ (pos < len => order[i] # n)
        BY <1>2, <1>5, <1>7, <1>8, <1>10, <3>1
      <4>2. prev'[order'[i]] = NodeAt(i - 1)
        BY <1>2, <1>6, <1>9, <1>11, <3>1, <4>1
      <4>3. CASE i = 1
        BY <1>2, <1>12, <1>15, <4>2, <4>3
      <4>4. CASE i > 1
        BY <1>2, <1>7, <1>12, <1>14, <3>1, <4>2, <4>4
      <4> QED
        BY <4>3, <4>4
    <3>2. CASE i = pos
      <4>1. order'[i] = n /\ n \in Nodes /\ pos < len
        BY <1>2, <1>5, <1>7, <3>2
      <4>2. prev'[order'[i]] = p
        BY <1>6, <1>11, <4>1
      <4>3. CASE i = 1
        BY <1>2, <1>5, <1>12, <3>2, <4>2, <4>3
      <4>4. CASE i > 1
        BY <1>2, <1>5, <1>7, <1>12, <3>2, <4>2, <4>4
      <4> QED
        BY <4>3, <4>4
    <3>3. CASE i > pos
      <4>1. order'[i] = order[i + 1] /\ i + 1 \in 1 .. len /\ order[i + 1] \in Nodes /\ pos < len
        BY <1>2, <1>7, <1>10, <3>3
      <4>2. order[i + 1] # n
        BY <1>2, <1>5, <1>8, <3>3, <4>1
      <4>3. prev'[order'[i]] = order[i]
        <5>1. prev'[order'[i]] = prev[order[i + 1]]
          BY <1>6, <1>11, <4>1, <4>2
        <5>2. prev[order[i + 1]] = NodeAt((i + 1) - 1) /\ (i + 1) - 1 = i
          BY <1>9, <4>1
        <5> QED
          BY <1>2, <1>14, <5>1, <5>2
      <4>4. i - 1 \in 1 .. len - 1 /\ ~(i - 1 < pos) /\ (i - 1) + 1 = i
        BY <1>2, <3>3
      <4> QED
        BY <1>2, <1>7, <1>12, <4>3, <4>4
    <3> QED
      BY <1>2, <3>1, <3>2, <3>3
  <2> QED
    BY <1>0, <1>4, <2>1, <2>2, <2>3, <2>4 DEF Chained
<1>17. Accounted'
  <2>1. \A i, j \in 1 .. len - 1 : order'[i] = order'[j] => i = j
    BY <1>2, <1>7, <1>8
  <2>2. used' = {order'[i] : i \in 1 .. len - 1}
    <3>1. used = {order[i] : i \in 1 .. len}
      BY <1>0 DEF Inv, WellLinked, Accounted
    <3>2. \A i \in 1 .. len : i # pos => \E j \in 1 .. len - 1 : order'[j] = order[i]
      <4>1. ASSUME NEW i \in 1 .. len, i < pos PROVE i \in 1 .. len - 1 /\ order'[i] = order[i]
        BY <1>2, <1>7, <4>1
      <4>2. ASSUME NEW i \in 1 .. len, i > pos PROVE i - 1 \in 1 .. len - 1 /\ order'[i - 1] = order[i]
        <5>1. i - 1 \in 1 .. len - 1 /\ ~(i - 1 < pos) /\ (i - 1) + 1 = i
          BY <1>2, <4>2
        <5> QED
          BY <1>7, <5>1
      <4> QED
        BY <1>2, <4>1, <4>2
    <3>3. \A j \in 1 .. len - 1 : \E i \in 1 .. len : i # pos /\ order'[j] = order[i]
      BY <1>2, <1>7
    <3>4. used' = {order[i] : i \in {j \in 1 .. len : j # pos}}
      BY <1>1, <1>2, <1>8, <3>1
    <3> QED
      BY <3>2, <3>3, <3>4
  <2>3. \A i \in 1 .. len - 1 : data'[order'[i]] \in Items
    BY <1>0, <1>1, <1>2, <1>7 DEF Inv, WellLinked, Accounted
  <2>4. count' = len - 1
    BY <1>0, <1>1 DEF Inv, WellLinked, Accounted
  <2> QED
    BY <1>0, <1>4, <2>1, <2>2, <2>3, <2>4 DEF Accounted
\* The iterator: on to the next node, if there is one.
<1>18. itr' = IF pos = len THEN NoItr
              ELSE [current |-> n, next |-> next[n], prev |-> p]
  BY <1>0, <1>1, <1>2, <1>3, <1>5 DEF Moved, NoItr
<1>19. IteratorStands'
  <2>1. CASE pos = len
    BY <1>0, <1>1, <1>2, <1>4, <1>18, <2>1 DEF IteratorStands
  <2>2. CASE pos < len
    <3>1. pos' = pos /\ Lock' # Nobody
      BY <1>0, <1>1, <2>2
    <3>2. n = NodeAt(pos)'
      BY <1>2, <1>5, <1>7, <1>12, <2>2, <3>1
    <3>3. p = NodeAt(pos - 1)'
      <4>1. CASE pos = 1
        BY <1>2, <1>5, <1>12, <2>2, <3>1, <4>1
      <4>2. CASE pos > 1
        BY <1>2, <1>5, <1>7, <1>12, <2>2, <3>1, <4>2
      <4> QED
        BY <1>2, <4>1, <4>2
    <3>4. next[n] = NodeAt(pos + 1)'
      <4>1. next[n] = NodeAt(pos + 2)
        <5>1. pos + 1 \in 1 .. len /\ (pos + 1) + 1 = pos + 2
          BY <1>2, <2>2
        <5> QED
          BY <1>5, <1>9, <2>2, <5>1
      <4>2. CASE pos = len - 1
        BY <1>2, <1>13, <1>15, <3>1, <4>1, <4>2
      <4>3. CASE pos < len - 1
        BY <1>2, <1>7, <1>12, <1>14, <3>1, <4>1, <4>3
      <4> QED
        BY <1>2, <2>2, <4>2, <4>3
    <3>5. pos' \in 0 .. Len(order') /\ pos' # 0
      BY <1>2, <1>4, <2>2, <3>1
    <3>6. itr' = [current |-> NodeAt(pos)', next |-> NodeAt(pos + 1)', prev |-> NodeAt(pos - 1)']
      BY <1>2, <1>18, <2>2, <3>1, <3>2, <3>3, <3>4
    <3> QED
      BY <1>0, <3>1, <3>5, <3>6 DEF IteratorStands
  <2> QED
    BY <1>2, <2>1, <2>2
<1>20. TypeOK'
  <2>1. used' \subseteq Nodes /\ data' \in [Nodes -> Items \cup {Null}] /\ Lock' \in Threads \cup {Nobody}
    BY <1>0, <1>1 DEF Inv, TypeOK
  <2>2. n \in NodeOrNull /\ p \in NodeOrNull
    BY <1>2, <1>5 DEF NodeOrNull
  <2>3. next' \in [Nodes -> NodeOrNull] /\ prev' \in [Nodes -> NodeOrNull]
    BY <1>6, <1>11, <2>2
  <2>4. headerPtr' \in NodeOrNull /\ footerPtr' \in NodeOrNull
    BY <1>0, <1>6, <2>2 DEF Inv, TypeOK
  <2>5. count' \in Nat /\ pos' \in Nat
    BY <1>0, <1>1, <1>2 DEF Inv, WellLinked, Accounted
  <2>6. itr' \in [current : NodeOrNull, next : NodeOrNull, prev : NodeOrNull]
    BY <1>2, <1>5, <1>11, <1>18, <2>2 DEF NoItr, NodeOrNull
  <2>7. ret' \in Items \cup {Null}
    BY <1>0, <1>1, <1>2, <1>5 DEF Inv, WellLinked, Accounted, DataOf
  <2> QED
    BY <1>4, <2>1, <2>3, <2>4, <2>5, <2>6, <2>7 DEF TypeOK
<1> QED
  BY <1>0, <1>16, <1>17, <1>19, <1>20 DEF Inv, WellLinked

LEMMA NothingInv ==
    ASSUME Inv, RemoveNone \/ ReleaseIterator \/ UNCHANGED vars
    PROVE  Inv'
<1>1. UNCHANGED links
  BY DEF RemoveNone, ReleaseIterator, vars
<1>2. \/ Lock' = Lock /\ Lock # Nobody /\ itr' = itr /\ ret' = Null /\ pos' = pos
      \/ Lock' = Nobody /\ itr' = NoItr /\ ret' = Null /\ pos' = 0
      \/ Lock' = Lock /\ itr' = itr /\ ret' = ret /\ pos' = pos
  BY DEF RemoveNone, ReleaseIterator, vars
<1>3. WellLinked'
  BY <1>1, SameLinks DEF Inv
<1>4. TypeOK'
  BY <1>1, <1>2 DEF Inv, TypeOK, links, fields, NoItr, NodeOrNull
<1>5. IteratorStands'
  BY <1>1, <1>2, LenProperties DEF Inv, TypeOK, IteratorStands, NodeAt, links
<1> QED
  BY <1>3, <1>4, <1>5 DEF Inv

LEMMA StepInv ==
    ASSUME Inv, [Next]_vars
    PROVE  Inv'
<1>1. ASSUME NEW d \in Items, AppendItem(d) PROVE Inv'
  BY <1>1, AppendInv
<1>2. ASSUME NEW d \in Items, InsertItem(d) PROVE Inv'
  BY <1>2, InsertInv
<1>3. ASSUME NEW t \in Threads, CreateIterator(t) PROVE Inv'
  BY <1>3, CreateInv
<1>4. CASE Iterate
  BY <1>4, IterateInv
<1>5. CASE RemoveCurrent
  BY <1>5, RemoveInv
<1>6. CASE RemoveNone \/ ReleaseIterator \/ UNCHANGED vars
  BY <1>6, NothingInv
<1> QED
  BY <1>1, <1>2, <1>3, <1>4, <1>5, <1>6 DEF Next

\* Inv is inductive: the links can only be shown to stay right together with
\* the place of the iterator, whose copies of the pointers a removal relinks by.
THEOREM Inductive == Spec => []Inv
<1>1. Init => Inv
  BY InitInv
<1>2. Inv /\ [Next]_vars => Inv'
  BY StepInv
<1> QED
  BY <1>1, <1>2, PTL DEF Spec

\* The state of every list, with any number of nodes, is of its type.
THEOREM TypeCorrect == Spec => []TypeOK
<1>1. Inv => TypeOK
  BY DEF Inv
<1> QED
  BY <1>1, Inductive, PTL

\* Every list is well linked in both directions, each node in it once and
\* counted, whatever was appended, inserted and removed.
THEOREM LinksAreWell == Spec => []WellLinked
<1>1. Inv => WellLinked
  BY DEF Inv
<1> QED
  BY <1>1, Inductive, PTL

\* No pointer of a list or of its iterator leads into a freed node.
THEOREM NothingDangles == Spec => []NoDangling
<1>1. ASSUME Inv PROVE NoDangling
  <2>1. {headerPtr, footerPtr} \subseteq used \cup {Null}
    BY <1>1, Ends
  <2>2. {itr.current, itr.next, itr.prev} \subseteq used \cup {Null}
    <3>1. \A i \in Nat : NodeAt(i) \in used \cup {Null}
      BY <1>1, Ends DEF NodeAt
    <3>2. CASE pos = 0
      BY <1>1, <3>2 DEF Inv, IteratorStands, NoItr
    <3>3. CASE pos > 0
      <4>1. pos \in Nat /\ pos - 1 \in Nat /\ pos + 1 \in Nat
        BY <1>1, <3>3, Standing
      <4>2. itr.current = NodeAt(pos) /\ itr.next = NodeAt(pos + 1) /\ itr.prev = NodeAt(pos - 1)
        BY <1>1, <3>3 DEF Inv, IteratorStands
      <4> QED
        BY <3>1, <4>1, <4>2
    <3> QED
      BY <1>1, <3>2, <3>3, Standing
  <2> QED
    BY <2>1, <2>2 DEF NoDangling
<1> QED
  BY <1>1, Inductive, PTL

-----------------------------------------------------------------------------
(* The refinement.                                                          *)

\* What the nodes of a sequence hold is a sequence of items.
LEMMA Mapped ==
    ASSUME NEW o \in Seq(Nodes), NEW m, \A i \in 1 .. Len(o) : m[o[i]] \in Items
    PROVE  /\ [i \in 1 .. Len(o) |-> m[o[i]]] \in Seq(Items)
           /\ Len([i \in 1 .. Len(o) |-> m[o[i]]]) = Len(o)
           /\ \A i \in 1 .. Len(o) : [j \in 1 .. Len(o) |-> m[o[j]]][i] = m[o[i]]
<1>1. Len(o) \in Nat
  BY LenProperties
<1> QED
  BY <1>1

LEMMA Contents ==
    ASSUME Inv
    PROVE  /\ contents \in Seq(Items) /\ Len(contents) = Len(order)
           /\ \A i \in 1 .. Len(order) : contents[i] = data[order[i]]
BY Mapped DEF Inv, TypeOK, WellLinked, Accounted, contents

LEMMA ContentsNext ==
    ASSUME Inv'
    PROVE  /\ contents' \in Seq(Items) /\ Len(contents') = Len(order')
           /\ \A i \in 1 .. Len(order') : contents'[i] = data'[order'[i]]
BY Mapped DEF Inv, TypeOK, WellLinked, Accounted, contents

LEMMA AddMaps ==
    ASSUME Inv, Inv', NEW d \in Items, AppendItem(d) \/ InsertItem(d)
    PROVE  L!Add
<1>0. Lock = Nobody /\ UNCHANGED <<Lock, itr, ret, pos>>
  BY DEF AppendItem, InsertItem
<1>1. PICK n \in Nodes \ used :
          /\ data' = [data EXCEPT ![n] = d]
          /\ order' = Append(order, n) \/ order' = <<n>> \o order
  BY DEF AppendItem, InsertItem
<1>2. data \in [Nodes -> Items \cup {Null}] /\ order \in Seq(Nodes)
  BY DEF Inv, TypeOK
<1>3. \A i \in 1 .. Len(order) : order[i] # n /\ order[i] \in Nodes
  BY <1>1, Ends
<1>4. Len(order) \in Nat
  BY Ends
<1>5. \A i \in 1 .. Len(order) : data'[order[i]] = contents[i]
  BY <1>1, <1>2, <1>3, Contents
<1>6. data'[n] = d
  BY <1>1, <1>2
<1>7. CASE order' = Append(order, n)
  <2>1. /\ Len(order') = Len(order) + 1
        /\ \A i \in 1 .. Len(order) + 1 : order'[i] = IF i = Len(order) + 1 THEN n ELSE order[i]
    BY <1>2, <1>7, Appended
  <2>2. /\ Append(contents, d) \in Seq(Items) /\ Len(Append(contents, d)) = Len(order) + 1
        /\ \A i \in 1 .. Len(order) + 1 :
              Append(contents, d)[i] = IF i = Len(order) + 1 THEN d ELSE contents[i]
    BY Appended, Contents
  <2>3. \A i \in 1 .. Len(order) + 1 : contents'[i] = Append(contents, d)[i]
    BY <1>4, <1>5, <1>6, <2>1, <2>2, ContentsNext
  <2>4. contents' = Append(contents, d)
    BY <2>1, <2>2, <2>3, ContentsNext, SeqEqual
  <2> QED
    BY <1>0, <2>4 DEF L!Add
<1>8. CASE order' = <<n>> \o order
  <2>1. /\ Len(order') = Len(order) + 1
        /\ \A i \in 1 .. Len(order) + 1 : order'[i] = IF i = 1 THEN n ELSE order[i - 1]
    BY <1>2, <1>8, Prepended
  <2>2. /\ <<d>> \o contents \in Seq(Items) /\ Len(<<d>> \o contents) = Len(order) + 1
        /\ \A i \in 1 .. Len(order) + 1 : (<<d>> \o contents)[i] = IF i = 1 THEN d ELSE contents[i - 1]
    BY Prepended, Contents
  <2>3. \A i \in 1 .. Len(order) + 1 : contents'[i] = (<<d>> \o contents)[i]
    BY <1>4, <1>5, <1>6, <2>1, <2>2, ContentsNext
  <2>4. contents' = <<d>> \o contents
    <3> DEFINE more == <<d>> \o contents
    <3>1. /\ contents' \in Seq(Items) /\ more \in Seq(Items) /\ Len(contents') = Len(more)
          /\ \A i \in 1 .. Len(contents') : contents'[i] = more[i]
      BY <2>1, <2>2, <2>3, ContentsNext
    <3> HIDE DEF more
    <3>2. contents' = more
      BY <3>1, SeqEqual
    <3> QED
      BY <3>2 DEF more
  <2> QED
    BY <1>0, <2>4 DEF L!Add
<1> QED
  BY <1>1, <1>7, <1>8

\* The item at a place of the list.
LEMMA ItemAt ==
    ASSUME Inv, NEW i \in Nat
    PROVE  L!At(i) = IF i \in 1 .. Len(order) THEN data[order[i]] ELSE Null
BY Contents DEF L!At

LEMMA RemoveMaps ==
    ASSUME Inv, Inv', RemoveCurrent
    PROVE  L!TakeOut
<1>1. /\ Lock # Nobody /\ itr.current # Null /\ Lock' = Lock
      /\ data' = data
      /\ ret' = DataOf(itr.next)
      /\ order' = RemoveAt(order, pos)
      /\ pos' = IF pos < Len(order) THEN pos ELSE 0
  BY DEF RemoveCurrent
<1>2. pos \in 1 .. Len(order) /\ Len(order) \in Nat /\ order \in Seq(Nodes)
  BY <1>1, Ends, Standing DEF Inv, TypeOK
<1>3. /\ Len(order') = Len(order) - 1
      /\ \A i \in 1 .. Len(order) - 1 : order'[i] = IF i < pos THEN order[i] ELSE order[i + 1]
  BY <1>1, <1>2, Removed
<1>4. /\ RemoveAt(contents, pos) \in Seq(Items)
      /\ Len(RemoveAt(contents, pos)) = Len(order) - 1
      /\ \A i \in 1 .. Len(order) - 1 :
            RemoveAt(contents, pos)[i] = IF i < pos THEN contents[i] ELSE contents[i + 1]
  BY <1>2, Contents, Removed
<1>5. \A i \in 1 .. Len(order) - 1 : contents'[i] = RemoveAt(contents, pos)[i]
  <2>1. ASSUME NEW i \in 1 .. Len(order) - 1
        PROVE  i \in 1 .. Len(order) /\ i + 1 \in 1 .. Len(order) /\ i \in 1 .. Len(order')
    BY <1>2, <1>3
  <2>2. ASSUME NEW i \in 1 .. Len(order) - 1
        PROVE  contents'[i] = data[IF i < pos THEN order[i] ELSE order[i + 1]]
    BY <1>1, <1>3, <2>1, ContentsNext
  <2>3. ASSUME NEW i \in 1 .. Len(order) - 1
        PROVE  RemoveAt(contents, pos)[i] = data[IF i < pos THEN order[i] ELSE order[i + 1]]
    BY <1>4, <2>1, Contents
  <2> QED
    BY <2>2, <2>3
<1>6. contents' = RemoveAt(contents, pos)
  BY <1>3, <1>4, <1>5, ContentsNext, SeqEqual
<1>7. ret' = L!At(pos + 1)
  <2>1. L!At(pos + 1) = IF pos + 1 \in 1 .. Len(order) THEN data[order[pos + 1]] ELSE Null
    BY <1>2, ItemAt
  <2>2. CASE pos < Len(order)
    BY <1>1, <1>2, <2>1, <2>2, Ends, Standing DEF DataOf
  <2>3. CASE pos = Len(order)
    BY <1>1, <1>2, <2>1, <2>3, Standing DEF DataOf
  <2> QED
    BY <1>2, <2>2, <2>3
<1>8. pos' = IF pos < Len(contents) THEN pos ELSE 0
  BY <1>1, Contents
<1> QED
  BY <1>1, <1>2, <1>6, <1>7, <1>8 DEF L!TakeOut, RemoveAt, L!RemoveAt

LEMMA WalkMaps ==
    ASSUME Inv, Inv', (\E t \in Threads : CreateIterator(t)) \/ Iterate \/ RemoveNone \/ ReleaseIterator
    PROVE  L!Begin \/ L!Advance \/ L!TakeNothing \/ L!End
<1>1. UNCHANGED links /\ contents' = contents
  BY DEF CreateIterator, Iterate, RemoveNone, ReleaseIterator, links, fields, contents
<1>2. CASE \E t \in Threads : CreateIterator(t)
  <2>1. /\ Lock = Nobody /\ Lock' \in Threads
        /\ ret' = DataOf(headerPtr)
        /\ pos' = IF headerPtr = Null THEN 0 ELSE 1
    BY <1>2 DEF CreateIterator
  <2>2. headerPtr = Null <=> contents = <<>>
    BY Contents, Ends, EmptySeq
  <2>3. L!At(1) = IF 1 \in 1 .. Len(order) THEN data[order[1]] ELSE Null
    BY ItemAt
  <2>4. ret' = L!At(1)
    BY <2>1, <2>3, Ends DEF DataOf
  <2> QED
    BY <1>1, <2>1, <2>2, <2>4 DEF L!Begin
<1>3. CASE Iterate
  <2>1. Lock # Nobody /\ Lock' = Lock
    BY <1>3 DEF Iterate
  <2>2. pos \in Nat /\ Len(order) \in Nat /\ pos <= Len(order)
    BY Ends, Standing
  <2>3. L!At(pos + 1) = IF pos + 1 \in 1 .. Len(order) THEN data[order[pos + 1]] ELSE Null
    BY <2>2, ItemAt
  <2>4. CASE pos \in 1 .. Len(order) - 1
    <3>1. itr.next = order[pos + 1] /\ itr.next # Null
      BY <2>2, <2>4, Ends, Standing
    <3>2. ret' = data[order[pos + 1]] /\ pos' = pos + 1
      BY <1>3, <3>1 DEF Iterate
    <3> QED
      BY <1>1, <2>1, <2>2, <2>3, <2>4, <3>2, Contents DEF L!Advance
  <2>5. CASE pos \notin 1 .. Len(order) - 1
    <3>1. ret' = Null /\ pos' = pos
      BY <1>3, <2>5, Standing DEF Iterate
    <3>2. pos = 0 \/ pos + 1 \notin 1 .. Len(order)
      BY <2>2, <2>5
    <3> QED
      BY <1>1, <2>1, <2>2, <2>3, <2>5, <3>1, <3>2, Contents DEF L!Advance
  <2> QED
    BY <2>4, <2>5
<1>4. CASE RemoveNone
  BY <1>1, <1>4, Standing DEF RemoveNone, L!TakeNothing
<1>5. CASE ReleaseIterator
  BY <1>1, <1>5 DEF ReleaseIterator, L!End
<1> QED
  BY <1>2, <1>3, <1>4, <1>5

\* The doubly linked list is, to its users, a sequence of items with a lock and
\* a walk: every step of the pointers is a step of ItemList or none at all.
THEOREM Refinement == Spec => AListOfItems
<1>1. Init => L!Init
  <2> SUFFICES ASSUME Init PROVE L!Init
    OBVIOUS
  <2>1. contents = <<>>
    <3>1. Inv /\ Len(order) = 0
      BY InitInv DEF Init
    <3> QED
      BY <3>1, Contents, EmptySeq
  <2> QED
    BY <2>1 DEF Init, L!Init
<1>2. Inv /\ Inv' /\ [Next]_vars => [L!Next]_(L!vars)
  <2> SUFFICES ASSUME Inv, Inv', [Next]_vars PROVE [L!Next]_(L!vars)
    OBVIOUS
  <2>1. ASSUME NEW d \in Items, AppendItem(d) \/ InsertItem(d) PROVE L!Next
    BY <2>1, AddMaps DEF L!Next
  <2>2. CASE RemoveCurrent
    BY <2>2, RemoveMaps DEF L!Next
  <2>3. CASE (\E t \in Threads : CreateIterator(t)) \/ Iterate \/ RemoveNone \/ ReleaseIterator
    BY <2>3, WalkMaps DEF L!Next
  <2>4. CASE UNCHANGED vars
    BY <2>4 DEF vars, links, fields, contents, L!vars
  <2> QED
    BY <2>1, <2>2, <2>3, <2>4 DEF Next
<1> QED
  BY <1>1, <1>2, Inductive, PTL DEF Spec, L!Spec, AListOfItems
=============================================================================
