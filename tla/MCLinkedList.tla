---------------------------- MODULE MCLinkedList ----------------------------
(***************************************************************************)
(* LinkedList with small instances for TLC.                                *)
(***************************************************************************)
EXTENDS LinkedList

FiveNodes == 1 .. 5

=============================================================================
