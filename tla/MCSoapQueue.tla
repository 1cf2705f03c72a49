---------------------------- MODULE MCSoapQueue -----------------------------
(***************************************************************************)
(* SoapQueue with small instances for TLC.                                 *)
(***************************************************************************)
EXTENDS SoapQueue

CONSTANT Stuck   \* clients that never let their worker go

FairSpec == Spec /\ Fairness(Stuck)

\* Every accepted connection whose client is not stuck is served in the end.
Served == AcceptedIsServed(Stuck)

\* The shutdown ends unless a stuck client holds a worker.
Ends == ShutdownEnds(Stuck)

=============================================================================
