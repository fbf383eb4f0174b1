---------------------------- MODULE MCLinkedList ----------------------------
(* A small list for TLC.                                                    *)
EXTENDS LinkedList

CONSTANTS n1, n2, n3, n4, d1, d2, t1

MCNodes == {n1, n2, n3, n4}
MCItems == {d1, d2}
MCThreads == {t1}
=============================================================================
