---------------------------- MODULE MCChatClient ----------------------------
(***************************************************************************)
(* ChatClient with two clients, each the other's peer.                     *)
(***************************************************************************)
EXTENDS ChatClient

CONSTANTS a, b

Run(typesA, peerA, typesB, socks, limit) ==
  [c \in Clients |->
     IF c = a THEN [types |-> typesA, peer |-> peerA, socks |-> socks, cuts |-> limit]
     ELSE [types |-> typesB, peer |-> a, socks |-> 1, cuts |-> 0]]

\* A client alone, without and with reads that end within a message; two that chat; one that
\* looks for another; one that looks for itself, which is what the address in the reply makes
\* of it anyway; one that talks to itself.
Fetching == Run(<<"login", "image", "online", "logout">>, b, <<>>, 1, 0)
Refetching == Run(<<"login", "image", "image", "online">>, b, <<>>, 1, 0)
Shifted == Run(<<"login", "image">>, b, <<>>, 1, 1)
Garbled == Run(<<"image">>, b, <<>>, 1, 2)
Chatting == Run(<<"login", "ndt">>, b, <<"login", "ndt">>, 1, 0)
Seeking == Run(<<"login", "peer">>, b, <<"login">>, 1, 0)
Crossing == Run(<<"login", "peer", "online">>, a, <<>>, 1, 0)
Circling == Run(<<"login", "peer">>, a, <<>>, 2, 0)
Soliloquy == Run(<<"login", "ndt", "online">>, a, <<>>, 1, 0)

AllScripts == {Fetching, Refetching, Shifted, Garbled, Chatting, Crossing, Circling, Soliloquy}
JustSeeking == {Seeking}

=============================================================================
