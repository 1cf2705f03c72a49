------------------------------ MODULE ListSpec ------------------------------
(***************************************************************************)
(* What the class LinkedList of LinxSrvc/include/Structures.h keeps, as a  *)
(* sequence: its operations work from the element that the list was made   *)
(* with, wherever that is by now.  Some calls end in undefined behaviour,  *)
(* which is part of what a client has to know.                             *)
(***************************************************************************)
EXTENDS Integers, Sequences, SequencesExt, FiniteSetsExt

CONSTANTS Elems, MaxSize, Null

VARIABLES
  items,   \* the elements
  at,      \* where the list's own pointer is among them
  state    \* ok, crashed, or dangling: the element at the pointer has been removed

listVars == <<items, at, state>>

Undefined == "undefined"

\* The first of a set of positions, or nothing.
Least(positions) == IF positions = {} THEN 0 ELSE Min(positions)

\* The nearest to the left, the list's own included, before those to the right.
PlaceOf(e) ==
  LET hits == {i \in DOMAIN items : items[i] = e}
      left == {i \in hits : i <= at}
  IN IF left # {} THEN Max(left) ELSE Least(hits)

ListInit ==
  /\ \E e \in Elems : items = <<e>>
  /\ at = 1 /\ state = "ok"

\* After position i; but before the first element, if it is not the last as well.
PutAfter(i, e) ==
  LET where == IF i = 1 /\ Len(items) > 1 THEN 1 ELSE i + 1
  IN /\ items' = InsertAt(items, where, e)
     /\ at' = IF where <= at THEN at + 1 ELSE at
     /\ UNCHANGED state

ListInsert(i, e) == i \in DOMAIN items /\ PutAfter(i, e)

ListAdd(e) == PutAfter(at, e)

ListRemove(e) ==
  LET i == PlaceOf(e)
  IN IF i = 0 THEN UNCHANGED listVars
     ELSE IF i = Len(items) THEN state' = "crashed" /\ UNCHANGED <<items, at>>
     ELSE IF i = at THEN state' = "dangling" /\ items' = <<>> /\ at' = 0
     ELSE /\ items' = RemoveAt(items, i) /\ at' = IF i < at THEN at - 1 ELSE at
          /\ UNCHANGED state

\* The queries.
HasElem(e) == \E i \in DOMAIN items : items[i] = e
Previous(e) == IF PlaceOf(e) > 1 THEN items[PlaceOf(e) - 1] ELSE Null
FirstElem == items[1]
LastElem == items[Len(items)]

\* Counted from the list's own element, up to the last.
Get(n) == IF n < Len(items) THEN items[Min({at + n, Len(items)})] ELSE Null

\* Counted likewise; that an element is not there is found out only if the list's own
\* element is the first.
IndexOf(e) ==
  LET hits == {i \in DOMAIN items : i >= at /\ items[i] = e}
  IN IF hits # {} THEN Min(hits) - at ELSE IF at = 1 THEN -1 ELSE Undefined

ListNext ==
  /\ state = "ok"
  /\ \E e \in Elems :
       \/ \E i \in 1 .. MaxSize : ListInsert(i, e)
       \/ ListAdd(e) \/ ListRemove(e)

ListIsSequence == ListInit /\ [][ListNext]_listVars

=============================================================================
