------------------------------ MODULE ItemList ------------------------------
(***************************************************************************)
(* What a list of linkedlist.h promises its users: a sequence of items, one *)
(* lock, and for whoever holds it a walk over the items from the first to   *)
(* the last, on which the item at hand may be removed; the walk then goes on*)
(* with the item after it. Every call hands out the item the walk is at, or *)
(* Null at its end.                                                         *)
(***************************************************************************)
EXTENDS Naturals, Sequences, SequencesExt

CONSTANTS
    Items,    \* what the list holds pointers to
    Threads, Nobody, Null

VARIABLES
    items,    \* the list
    Lock,     \* who walks over it
    pos,      \* where the walk is; 0 when it is over
    ret       \* what the last call of the walk returned

vars == <<items, Lock, pos, ret>>

Init == items = <<>> /\ Lock = Nobody /\ pos = 0 /\ ret = Null

\* The item at place i.
At(i) == IF i \in 1 .. Len(items) THEN items[i] ELSE Null

Add ==
    /\ Lock = Nobody
    /\ \E d \in Items : items' = Append(items, d) \/ items' = <<d>> \o items
    /\ UNCHANGED <<Lock, pos, ret>>

Begin ==
    /\ Lock = Nobody /\ Lock' \in Threads
    /\ pos' = IF items = <<>> THEN 0 ELSE 1
    /\ ret' = At(1)
    /\ UNCHANGED items

\* At the last item the walk stays there and says Null.
Advance ==
    /\ Lock # Nobody
    /\ pos' = IF pos \in 1 .. Len(items) - 1 THEN pos + 1 ELSE pos
    /\ ret' = IF pos = 0 THEN Null ELSE At(pos + 1)
    /\ UNCHANGED <<items, Lock>>

TakeOut ==
    /\ Lock # Nobody /\ pos # 0
    /\ items' = RemoveAt(items, pos)
    /\ pos' = IF pos < Len(items) THEN pos ELSE 0
    /\ ret' = At(pos + 1)
    /\ UNCHANGED Lock

\* Over: there is nothing to remove.
TakeNothing ==
    /\ Lock # Nobody /\ pos = 0
    /\ ret' = Null
    /\ UNCHANGED <<items, Lock, pos>>

End ==
    /\ Lock # Nobody /\ Lock' = Nobody
    /\ pos' = 0 /\ ret' = Null
    /\ UNCHANGED items

Next == Add \/ Begin \/ Advance \/ TakeOut \/ TakeNothing \/ End

Spec == Init /\ [][Next]_vars
=============================================================================
