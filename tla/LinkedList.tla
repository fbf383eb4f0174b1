----------------------------- MODULE LinkedList -----------------------------
(***************************************************************************)
(* linkedlist.c: the doubly linked list that holds the tuners' frequencies, *)
(* their channels, the sessions, the destinations, and the telnet users and *)
(* commands. Several threads use a list; an append or an insert is one      *)
(* critical section of its lock, and a walk keeps the lock from             *)
(* linkedList_create_iterator to linkedList_release_iterator.               *)
(*                                                                         *)
(* Every list of the program is made without a compare function: scan, find *)
(* and remove by value return at once and change nothing.                   *)
(***************************************************************************)
EXTENDS Naturals, Sequences, SequencesExt

CONSTANTS
    Nodes,    \* addresses malloc gives a linked_node
    Items,    \* what the data pointers point to
    Threads, Nobody, Null

ASSUME NullAssumption == Null \notin Nodes /\ Null \notin Items
ASSUME NobodyAssumption == Nobody \notin Threads

VARIABLES
    used,       \* the nodes that are allocated
    next, prev, data,       \* their fields; a freed node keeps them
    headerPtr, footerPtr, count,
    Lock,       \* who holds the lock of the list
    itr,        \* the holder's linked_iterator: [current, next, prev]
    ret,        \* what the last call of its walk returned
    order,      \* history: the nodes, first to last
    pos         \* history: the place of the walk among them; 0 when it is over

fields == <<next, prev, data>>
links == <<used, fields, headerPtr, footerPtr, count, order>>
vars == <<links, Lock, itr, ret, pos>>

NoItr == [current |-> Null, next |-> Null, prev |-> Null]

Init ==
    /\ used = {}
    /\ next = [n \in Nodes |-> Null] /\ prev = [n \in Nodes |-> Null]
    /\ data = [n \in Nodes |-> Null]
    /\ headerPtr = Null /\ footerPtr = Null /\ count = 0
    /\ Lock = Nobody /\ itr = NoItr /\ ret = Null
    /\ order = <<>> /\ pos = 0

\* Seeded fault: the node instead of what it holds.
DataOfNode(n) == n

\* The data of a node, as the calls return it.
DataOf(n) == IF n = Null THEN Null ELSE data[n]

-----------------------------------------------------------------------------
\* linkedList_append_internal. Without memory for the node nothing happens.
AppendItem(d) ==
    /\ Lock = Nobody
    /\ \E n \in Nodes \ used :
          /\ used' = used \cup {n}
          /\ data' = [data EXCEPT ![n] = d]
          /\ prev' = [prev EXCEPT ![n] = footerPtr]
          /\ IF headerPtr = Null
                THEN headerPtr' = n /\ next' = [next EXCEPT ![n] = Null]
                ELSE next' = [next EXCEPT ![n] = Null, ![footerPtr] = n] /\ UNCHANGED headerPtr
          /\ footerPtr' = n
          /\ order' = Append(order, n)
    /\ count' = count + 1
    /\ UNCHANGED <<Lock, itr, ret, pos>>

\* linkedList_insert_internal.
InsertItem(d) ==
    /\ Lock = Nobody
    /\ \E n \in Nodes \ used :
          /\ used' = used \cup {n}
          /\ data' = [data EXCEPT ![n] = d]
          /\ next' = [next EXCEPT ![n] = headerPtr]
          /\ IF headerPtr = Null
                THEN footerPtr' = n /\ prev' = [prev EXCEPT ![n] = Null]
                ELSE prev' = [prev EXCEPT ![n] = Null, ![headerPtr] = n] /\ UNCHANGED footerPtr
          /\ headerPtr' = n
          /\ order' = <<n>> \o order
    /\ count' = count + 1
    /\ UNCHANGED <<Lock, itr, ret, pos>>

-----------------------------------------------------------------------------
(* A walk by the thread that holds the lock.                                *)

CreateIterator(t) ==
    /\ Lock = Nobody /\ Lock' = t
    /\ itr' = [current |-> headerPtr, prev |-> Null,
               next |-> IF headerPtr = Null THEN Null ELSE next[headerPtr]]
    /\ ret' = DataOf(headerPtr)
    /\ pos' = IF headerPtr = Null THEN 0 ELSE 1
    /\ UNCHANGED links

\* At the end the iterator keeps its place.
Iterate ==
    /\ Lock # Nobody
    /\ IF itr.next = Null
          THEN ret' = Null /\ UNCHANGED <<itr, pos>>
          ELSE /\ itr' = [current |-> itr.next, prev |-> prev[itr.next], next |-> next[itr.next]]
               /\ ret' = data[itr.next]
               /\ pos' = pos + 1
    /\ UNCHANGED <<links, Lock>>

\* Seeded fault: the node after one removed keeps its pointer to it.
RelinkForward(c, p, n) ==
    LET between == n # Null /\ p # Null IN
    /\ headerPtr' = IF c = headerPtr THEN next[c] ELSE headerPtr
    /\ footerPtr' = IF c = footerPtr THEN prev[c] ELSE footerPtr
    /\ UNCHANGED prev
    /\ next' = IF between THEN [next EXCEPT ![p] = n]
               ELSE IF c = footerPtr /\ prev[c] # Null THEN [next EXCEPT ![p] = Null] ELSE next

\* What remains of the list is linked together again: a new header has no
\* predecessor, a new footer no successor, and neighbours see each other.
Relink(c, p, n) ==
    LET between == n # Null /\ p # Null IN
    /\ headerPtr' = IF c = headerPtr THEN next[c] ELSE headerPtr
    /\ footerPtr' = IF c = footerPtr THEN prev[c] ELSE footerPtr
    /\ prev' = IF between THEN [prev EXCEPT ![n] = p]
               ELSE IF c = headerPtr /\ next[c] # Null THEN [prev EXCEPT ![n] = Null] ELSE prev
    /\ next' = IF between THEN [next EXCEPT ![p] = n]
               ELSE IF c = footerPtr /\ prev[c] # Null THEN [next EXCEPT ![p] = Null] ELSE next

\* Seeded fault: the iterator's idea of the next node is left as it was.
MovedLazily(c, p, n) ==
    [current |-> next[c], next |-> n, prev |-> IF c = headerPtr \/ next[c] = Null THEN Null ELSE p]

\* Seeded fault: the iterator is left where it was.
MovedNot(c, p, n) == [current |-> c, next |-> n, prev |-> p]

\* The iterator moves to the node after the one removed.
Moved(c, p, n) ==
    [current |-> next[c],
     next |-> IF c = footerPtr \/ n = Null THEN Null ELSE next[n],
     prev |-> IF c = headerPtr \/ next[c] = Null THEN Null ELSE p]

\* linkedList_iterator_remove_internal.
RemoveCurrent ==
    LET c == itr.current IN
    /\ Lock # Nobody /\ c # Null
    /\ Relink(c, itr.prev, itr.next)
    /\ itr' = Moved(c, itr.prev, itr.next)
    /\ used' = used \ {c}
    /\ count' = count - 1
    /\ ret' = DataOf(itr.next)
    /\ order' = RemoveAt(order, pos)
    /\ pos' = IF pos < Len(order) THEN pos ELSE 0
    /\ UNCHANGED <<data, Lock>>

\* ... with nothing to remove.
RemoveNone ==
    /\ Lock # Nobody /\ itr.current = Null
    /\ ret' = Null
    /\ UNCHANGED <<links, Lock, itr, pos>>

ReleaseIterator ==
    /\ Lock # Nobody /\ Lock' = Nobody
    /\ itr' = NoItr /\ ret' = Null /\ pos' = 0
    /\ UNCHANGED links

-----------------------------------------------------------------------------
Next ==
    \/ \E d \in Items : AppendItem(d) \/ InsertItem(d)
    \/ \E t \in Threads : CreateIterator(t)
    \/ Iterate \/ RemoveCurrent \/ RemoveNone \/ ReleaseIterator

Spec == Init /\ [][Next]_vars

-----------------------------------------------------------------------------
NodeOrNull == Nodes \cup {Null}

TypeOK ==
    /\ used \subseteq Nodes
    /\ next \in [Nodes -> NodeOrNull] /\ prev \in [Nodes -> NodeOrNull]
    /\ data \in [Nodes -> Items \cup {Null}]
    /\ headerPtr \in NodeOrNull /\ footerPtr \in NodeOrNull
    /\ count \in Nat
    /\ Lock \in Threads \cup {Nobody}
    /\ itr \in [current : NodeOrNull, next : NodeOrNull, prev : NodeOrNull]
    /\ ret \in Items \cup {Null}
    /\ order \in Seq(Nodes) /\ pos \in Nat

\* The node at place i, counted as the pointers do.
NodeAt(i) == IF i \in 1 .. Len(order) THEN order[i] ELSE Null

Chained ==
    /\ headerPtr = NodeAt(1) /\ footerPtr = NodeAt(Len(order))
    /\ \A i \in 1 .. Len(order) : next[order[i]] = NodeAt(i + 1) /\ prev[order[i]] = NodeAt(i - 1)

\* Each node is in the list once; what left it is freed; linkedList_item_count,
\* by which the reaper decides that a session has no destinations and
\* linkedList_destroy that the list may go, counts them.
Accounted ==
    /\ \A i, j \in 1 .. Len(order) : order[i] = order[j] => i = j
    /\ used = {order[i] : i \in 1 .. Len(order)}
    /\ \A i \in 1 .. Len(order) : data[order[i]] \in Items
    /\ count = Len(order)

\* The iterator stands on a node of the list, with that node's neighbours, or
\* on nothing.
IteratorStands ==
    /\ pos \in 0 .. Len(order)
    /\ itr = IF pos = 0 THEN NoItr
             ELSE [current |-> NodeAt(pos), next |-> NodeAt(pos + 1), prev |-> NodeAt(pos - 1)]
    /\ Lock = Nobody => pos = 0 /\ ret = Null

\* The list is well linked in both directions whatever was appended, inserted
\* and removed in the middle of walks: linkedList_iterator_remove_internal
\* relinks by the iterator's copies of the pointers (linkedlist.c:323-390).
WellLinked == Chained /\ Accounted

\* No call follows a pointer into a freed node: the iterator, which outlives
\* removals, points into the list.
NoDangling ==
    {itr.current, itr.next, itr.prev, headerPtr, footerPtr} \subseteq used \cup {Null}

\* What the list's users see is module ItemList: the walk of session_thread_run
\* and its like visits every item once, and goes on with the item after the one
\* removed.
contents == [i \in 1 .. Len(order) |-> data[order[i]]]
L == INSTANCE ItemList WITH items <- contents
AListOfItems == L!Spec
=============================================================================
