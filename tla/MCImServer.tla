----------------------------- MODULE MCImServer -----------------------------
(***************************************************************************)
(* ImServer with small instances for TLC.                                  *)
(***************************************************************************)
EXTENDS ImServer

CONSTANTS a, b, c1, c2, c3

\* Two clients that come and go, and what the operator does.
Two(first, commands) ==
  [uses |-> [c \in Conns |-> IF c = c1 THEN first ELSE IF c = c2 THEN {a, b} ELSE {}],
   goers |-> Conns, commands |-> commands]

\* Three clients that stay, two of them the same user's.
Three ==
  [uses |-> [c \in Conns |-> IF c = c1 THEN {b} ELSE {a}], goers |-> {}, commands |-> {}]

TwoOrThree == {Three, Two({a, Nobody}, {})} \cup {Two({a}, {what}) : what \in {"kick", "quit", "-x"}}
TwoCleared == {Two({a, Nobody}, {"-x"})}
TwoAlone == {Two({a}, {})}

=============================================================================
