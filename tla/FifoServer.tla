----------------------------- MODULE FifoServer -----------------------------
(***************************************************************************)
(* What the worker queue of the gSOAP server promises: requests wait in a  *)
(* bounded first-in first-out line, each is given to one worker, and after *)
(* closing time only end markers join the line, so that every request is   *)
(* handed out before any worker is sent home.                              *)
(***************************************************************************)
EXTENDS Naturals, Sequences

CONSTANTS Requests, Workers, Capacity, End, Nothing

VARIABLES line,    \* requests and end markers waiting, oldest first
          hand,    \* what each worker holds
          closed,  \* TRUE from closing time on
          answered \* requests that have been answered

vars == <<line, hand, closed, answered>>

Init ==
  /\ line = <<>> /\ hand = [w \in Workers |-> Nothing]
  /\ closed = FALSE /\ answered = {}

\* A request joins the line while the server is open, an end marker after.
Join(x) ==
  /\ Len(line) < Capacity
  /\ IF closed THEN x = End ELSE x \in Requests
  /\ line' = Append(line, x)
  /\ UNCHANGED <<hand, closed, answered>>

Close == ~ closed /\ closed' = TRUE /\ UNCHANGED <<line, hand, answered>>

\* A free worker takes the oldest entry.
Take(w) ==
  /\ hand[w] = Nothing /\ line # <<>>
  /\ hand' = [hand EXCEPT ![w] = Head(line)] /\ line' = Tail(line)
  /\ UNCHANGED <<closed, answered>>

\* A worker answers its request; one that holds an end marker never does.
Answer(w) ==
  /\ hand[w] \in Requests
  /\ hand' = [hand EXCEPT ![w] = Nothing]
  /\ answered' = answered \cup {hand[w]}
  /\ UNCHANGED <<line, closed>>

Next ==
  \/ \E x \in Requests \cup {End} : Join(x)
  \/ Close
  \/ \E w \in Workers : Take(w) \/ Answer(w)

Spec == Init /\ [][Next]_vars

=============================================================================
