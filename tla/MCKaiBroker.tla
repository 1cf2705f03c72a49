---------------------------- MODULE MCKaiBroker -----------------------------
(***************************************************************************)
(* KaiBroker with small instances for TLC.                                 *)
(***************************************************************************)
EXTENDS KaiBroker

CONSTANTS s1, s2, p1, p2, news, chat

\* Everybody is interested in news, except the second publisher.
OneOff == [c \in {s1, s2, p1, p2} |-> IF c = p2 THEN chat ELSE news]

\* The address of m_network.IP sets no bit of the descriptor's.
SameBits == [f \in 1 .. 4 |-> f]

OrHasty == {{}, {p1}, {s1}}

=============================================================================
