-------------------------- MODULE ChatClientProofs --------------------------
(***************************************************************************)
(* Proofs about ChatClient for every set of clients, every script and all  *)
(* bounds.                                                                 *)
(***************************************************************************)
EXTENDS ChatClient, FiniteSetTheorems, SequenceTheorems, TLAPS

-----------------------------------------------------------------------------
(* The inductive invariant: types, calls of p2pMessage *)

Links == {"none", "connecting", "up", "mute", "lost"}
Statuses == {"err", "scc", "tcp", "p2p", "ndt"}
Asking == {"askfill", "askcopy", "asksend"}
Calling == Asking \cup {"try", "await"}
Orders == Contents \cup {Rest}
States == [flag : {-1, 0, 1, 2, 64}, count : Nat, status : Statuses]
Mains == [pc : {"poll", "prompt", "mark", "fill", "copy", "send", "ended"},
          received : Statuses, cmd : Commands, typed : Nat]
Receivers == [pc : {"unborn", "recv", "note", "act", "exit"} \cup Calling, msg : Sights,
              tries : 0 .. MAXRETRY - 1, fw : 0 .. MaxBlocks, dig : Contents]
Callers == [pc : {"unborn", "loop", "blocked", "spins", "left"}, frame : BOOLEAN,
            socks : 0 .. MaxSocks]

NetTypes ==
  /\ online \subseteq Clients /\ conn \in [Clients -> Links]
  /\ toServer \in [Clients -> Seq(Orders)] /\ toClient \in [Clients -> Seq(Pieces)]
ClientTypes ==
  /\ client \in [Clients -> States] /\ content \in [Clients -> Contents]
  /\ main \in [Clients -> Mains] /\ rcv \in [Clients -> Receivers]
  /\ p2p \in [Clients -> Callers]
  /\ \A c \in Clients : main[c].typed <= Len(script[c].types)
GhostTypes ==
  /\ script \in Scripts /\ called \subseteq Clients
  /\ cuts \in [Clients -> Nat] /\ missing \subseteq Clients

\* p2pMessage runs for a message that names a client.
CallInv ==
  \A c \in Clients : rcv[c].pc \in Calling =>
    /\ rcv[c].msg.kind \in {"addr", "dig"} /\ rcv[c].msg.of \in Clients

ShapeInv == NetTypes /\ ClientTypes /\ GhostTypes /\ CallInv

\* Tries that a call of p2pMessage has still to come.
TriesToCome(c) ==
  IF rcv[c].pc \in Asking THEN MAXRETRY
  ELSE IF rcv[c].pc = "try" THEN MAXRETRY - rcv[c].tries
  ELSE IF rcv[c].pc = "await" THEN MAXRETRY - rcv[c].tries - 1 ELSE 0

CountInv == \A c \in Clients : client[c].count + TriesToCome(c) <= MAXRETRY * p2p[c].socks

Inv == ShapeInv /\ CountInv

-----------------------------------------------------------------------------
(* Messages *)

\* The kinds are disjoint, and a message has the fields of its kind.
LEMMA MessageKinds ==
  /\ {Plain, Beat, Closed, Chat, Ack, End} \subseteq Messages
  /\ \A n \in 0 .. MaxBlocks : Image(n) \in Messages /\ Image(n).kind = "image"
                               /\ Image(n).len = n
  /\ \A k \in {"addr", "dig"}, u, a \in Users : Address(k, u, a) \in Messages
  /\ \A m \in Messages :
       /\ m.kind = "image" => m.len \in 0 .. MaxBlocks
       /\ m.kind \in {"addr", "dig"} => m.of \in Users /\ m.name \in Users
       /\ m.kind \in {"plain", "beat", "e8", "chat", "ack", "end", "image", "addr", "dig"}
<1>1. {Plain, Beat, Closed, Chat, Ack, End} \subseteq Messages
  BY DEF Messages
<1>2. \A n \in 0 .. MaxBlocks : Image(n) \in Messages /\ Image(n).kind = "image"
                               /\ Image(n).len = n
  <2>1. \A n \in 0 .. MaxBlocks : Image(n) \in Messages
    BY DEF Messages
  <2>2. QED BY <2>1 DEF Image
<1>3. \A k \in {"addr", "dig"}, u, a \in Users : Address(k, u, a) \in Messages
  BY DEF Messages
<1>4. ASSUME NEW m \in Messages
      PROVE  /\ m.kind = "image" => m.len \in 0 .. MaxBlocks
             /\ m.kind \in {"addr", "dig"} => m.of \in Users /\ m.name \in Users
             /\ m.kind \in {"plain", "beat", "e8", "chat", "ack", "end", "image", "addr", "dig"}
  <2>1. CASE m \in {Plain, Beat, Closed, Chat, Ack, End}
    BY <2>1 DEF Plain, Beat, Closed, Chat, Ack, End
  <2>2. ASSUME NEW n \in 0 .. MaxBlocks, m = Image(n)
        PROVE  m.kind = "image" /\ m.len \in 0 .. MaxBlocks
    BY <2>2 DEF Image
  <2>3. ASSUME NEW k \in {"addr", "dig"}, NEW u \in Users, NEW a \in Users,
               m = Address(k, u, a)
        PROVE  m.kind \in {"addr", "dig"} /\ m.of \in Users /\ m.name \in Users
    BY <2>3 DEF Address
  <2>4. QED BY <1>4, <2>1, <2>2, <2>3 DEF Messages
<1>5. QED BY <1>1, <1>2, <1>3, <1>4

LEMMA SightKinds ==
  /\ Rest \notin Messages
  /\ \A m \in Sights :
       /\ m \in Messages \/ m.kind = "stray"
       /\ m.kind \in {"image", "stray"} => m.len \in 0 .. MaxBlocks
       /\ m.kind \in {"addr", "dig"} => m.of \in Users /\ m.name \in Users
<1>1. Rest \notin Messages
  BY MessageKinds DEF Rest
<1>2. ASSUME NEW m \in Sights
      PROVE  /\ m \in Messages \/ m.kind = "stray"
             /\ m.kind \in {"image", "stray"} => m.len \in 0 .. MaxBlocks
             /\ m.kind \in {"addr", "dig"} => m.of \in Users /\ m.name \in Users
  <2>1. CASE m \in Messages
    BY <2>1, MessageKinds
  <2>2. ASSUME NEW n \in 0 .. MaxBlocks, m = Stray(n)
        PROVE  m.kind = "stray" /\ m.len \in 0 .. MaxBlocks
    BY <2>2 DEF Stray
  <2>3. QED BY <2>1, <2>2 DEF Sights
<1>3. QED BY <1>1, <1>2

LEMMA ContentKinds ==
  /\ \A m \in Contents : /\ m.cmd \in Commands \cup {"dig"} /\ m.me \in Users /\ m.to \in Users
                         /\ Cleared(m) \in Contents
  /\ \A k \in Commands \cup {"dig"}, u, v \in Users :
       [cmd |-> k, me |-> u, to |-> v] \in Contents
  /\ "dig" \notin Commands
  BY DEF Contents, Cleared, Users, Commands

-----------------------------------------------------------------------------
(* Types *)

LEMMA ScriptTypes ==
  ASSUME ShapeInv, NEW c \in Clients
  PROVE  /\ script[c].types \in Seq(Commands) /\ Len(script[c].types) \in Nat
         /\ script[c].peer \in Clients /\ None \notin Clients
         /\ \A i \in 1 .. Len(script[c].types) : script[c].types[i] \in Commands
         /\ MaxSocks \in Nat \ {0} /\ MAXRETRY \in Nat \ {0} /\ MaxMerge \in Nat \ {0}
         /\ MaxBlocks \in Nat \ {0} /\ script[c].socks \in 1 .. MaxSocks
         /\ script[c].cuts \in Nat
<1>1. script \in Scripts
  BY DEF ShapeInv, GhostTypes
<1>2. /\ script[c].types \in Seq(Commands) /\ script[c].peer \in Clients /\ None \notin Clients
      /\ script[c].socks \in 1 .. MaxSocks /\ script[c].cuts \in Nat
  BY <1>1, ChatAssumption
<1>3. {MAXRETRY, MaxCount, MaxSocks, MaxBlocks, MaxMerge} \subseteq Nat \ {0}
  BY ChatAssumption
<1>4. /\ Len(script[c].types) \in Nat
      /\ \A i \in 1 .. Len(script[c].types) : script[c].types[i] \in Commands
  BY <1>2, ElementOfSeq, LenProperties
<1>5. QED BY <1>2, <1>3, <1>4

\* The end of a client's process.
LEMMA ExitTypes ==
  ASSUME ShapeInv, NEW c \in Clients, Exit(c)
  PROVE  /\ NetTypes' /\ main' \in [Clients -> Mains]
         /\ \A d \in Clients : main'[d].typed = main[d].typed
<1> USE DEF ShapeInv, NetTypes, ClientTypes, Exit, MainTo
<1>1. <<>> \in Seq(Orders) /\ <<>> \in Seq(Pieces)
  OBVIOUS
<1>2. NetTypes'
  BY <1>1 DEF Links
<1>3. main' \in [Clients -> Mains] /\ \A d \in Clients : main'[d].typed = main[d].typed
  BY DEF Mains
<1>4. QED BY <1>2, <1>3

\* The steps that only move main, rcv or p2p, or set the status.
LEMMA LocalTypes ==
  ASSUME ShapeInv, NEW c \in Clients
  PROVE  /\ \A k \in {"poll", "prompt", "mark", "fill", "copy", "send", "ended"} :
              MainTo(c, k) => /\ main' \in [Clients -> Mains]
                              /\ \A d \in Clients : main'[d].typed = main[d].typed
         /\ \A k \in {"unborn", "recv", "note", "act", "exit"} \cup Calling :
              RcvTo(c, k) => rcv' \in [Clients -> Receivers]
         /\ \A k \in Statuses : SetRecvState(c, k) => client' \in [Clients -> States]
<1>0. /\ main \in [Clients -> Mains] /\ rcv \in [Clients -> Receivers]
      /\ client \in [Clients -> States]
  BY DEF ShapeInv, ClientTypes
<1>1. ASSUME NEW k \in {"poll", "prompt", "mark", "fill", "copy", "send", "ended"}, MainTo(c, k)
      PROVE  /\ main' \in [Clients -> Mains]
             /\ \A d \in Clients : main'[d].typed = main[d].typed
  BY <1>0, <1>1 DEF MainTo, Mains
<1>2. ASSUME NEW k \in {"unborn", "recv", "note", "act", "exit"} \cup Calling, RcvTo(c, k)
      PROVE  rcv' \in [Clients -> Receivers]
  <2>1. rcv' = [rcv EXCEPT ![c] = [rcv[c] EXCEPT !.pc = k]]
    BY <1>2 DEF RcvTo
  <2>2. ASSUME NEW r \in Receivers
        PROVE  [r EXCEPT !.pc = k] \in Receivers
    BY <1>2 DEF Receivers
  <2>3. QED BY <1>0, <2>1, <2>2
<1>3. ASSUME NEW k \in Statuses, SetRecvState(c, k)
      PROVE  client' \in [Clients -> States]
  BY <1>0, <1>3 DEF SetRecvState, States
<1>4. QED BY <1>1, <1>2, <1>3

\* A step of the receiving thread; into p2pMessage only from within.
LEMMA Moved ==
  ASSUME ShapeInv, NEW c \in Clients, 
         NEW k \in {"unborn", "recv", "note", "act", "exit"} \cup Calling, RcvTo(c, k),
         k \in Calling => rcv[c].pc \in Calling
  PROVE  /\ rcv' \in [Clients -> Receivers] /\ CallInv'
         /\ rcv'[c].pc = k /\ rcv'[c].msg = rcv[c].msg /\ rcv'[c].fw = rcv[c].fw
         /\ rcv'[c].tries = rcv[c].tries /\ rcv'[c].dig = rcv[c].dig
         /\ \A d \in Clients \ {c} : rcv'[d] = rcv[d]
<1>1. rcv \in [Clients -> Receivers] /\ rcv' = [rcv EXCEPT ![c] = [rcv[c] EXCEPT !.pc = k]]
  BY DEF RcvTo, ShapeInv, ClientTypes
<1>2. ASSUME NEW r \in Receivers
      PROVE  /\ [r EXCEPT !.pc = k] \in Receivers
             /\ [r EXCEPT !.pc = k].pc = k /\ [r EXCEPT !.pc = k].msg = r.msg
             /\ [r EXCEPT !.pc = k].fw = r.fw /\ [r EXCEPT !.pc = k].tries = r.tries
             /\ [r EXCEPT !.pc = k].dig = r.dig
  BY DEF Receivers
<1>3. rcv' \in [Clients -> Receivers] /\ rcv[c] \in Receivers
      /\ rcv'[c] = [rcv[c] EXCEPT !.pc = k] /\ \A d \in Clients \ {c} : rcv'[d] = rcv[d]
  BY <1>1, <1>2
<1>4. /\ rcv'[c].pc = k /\ rcv'[c].msg = rcv[c].msg /\ rcv'[c].fw = rcv[c].fw
      /\ rcv'[c].tries = rcv[c].tries /\ rcv'[c].dig = rcv[c].dig
  BY <1>2, <1>3
<1>5. CallInv'
  BY <1>3, <1>4 DEF ShapeInv, CallInv
<1>6. QED BY <1>3, <1>4, <1>5

\* A change of the flag, or of the count.
LEMMA FlagTypes ==
  ASSUME ShapeInv, NEW c \in Clients
  PROVE  /\ \A f \in {-1, 0, 1, 2, 64} :
              client' = [client EXCEPT ![c].flag = f] => client' \in [Clients -> States]
         /\ client' = [client EXCEPT ![c].count = @ + 1] => client' \in [Clients -> States]
<1>1. client \in [Clients -> States]
  BY DEF ShapeInv, ClientTypes
<1>2. ASSUME NEW f \in {-1, 0, 1, 2, 64}, client' = [client EXCEPT ![c].flag = f]
      PROVE  client' \in [Clients -> States]
  BY <1>1, <1>2 DEF States
<1>3. ASSUME client' = [client EXCEPT ![c].count = @ + 1]
      PROVE  client' \in [Clients -> States]
  BY <1>1, <1>3 DEF States
<1>4. QED BY <1>2, <1>3

\* The main thread's record after a command is typed.
LEMMA TypeSets ==
  ASSUME main \in [Clients -> Mains], NEW c \in Clients, NEW k \in Commands,
         main' = [main EXCEPT ![c].pc = "mark", ![c].typed = @ + 1, ![c].cmd = k]
  PROVE  /\ main' \in [Clients -> Mains] /\ main'[c].typed = main[c].typed + 1
         /\ \A d \in Clients : main'[d].typed = main[d].typed \/ d = c
<1>1. ASSUME NEW m \in Mains
      PROVE  /\ [m EXCEPT !.pc = "mark", !.typed = @ + 1, !.cmd = k] \in Mains
             /\ [m EXCEPT !.pc = "mark", !.typed = @ + 1, !.cmd = k].typed = m.typed + 1
  BY DEF Mains
<1>2. main' = [main EXCEPT ![c] = [main[c] EXCEPT !.pc = "mark", !.typed = @ + 1, !.cmd = k]]
  OBVIOUS
<1>3. main[c] \in Mains
  OBVIOUS
<1>4. /\ main' \in [Clients -> Mains]
      /\ main'[c] = [main[c] EXCEPT !.pc = "mark", !.typed = @ + 1, !.cmd = k]
  BY <1>1, <1>2, <1>3
<1>5. \A d \in Clients \ {c} : main'[d] = main[d]
  BY <1>2
<1>6. QED BY <1>1, <1>3, <1>4, <1>5

LEMMA TypedSets ==
  ASSUME ShapeInv, NEW c \in Clients, Type(c)
  PROVE  /\ main' \in [Clients -> Mains] /\ main'[c].typed <= Len(script[c].types)
         /\ \A d \in Clients : main'[d].typed = main[d].typed \/ d = c
<1>1. main \in [Clients -> Mains] /\ "ndt" \in Commands
  BY DEF ShapeInv, ClientTypes, Commands
<1>2. script[c].types[main[c].typed + 1] \in Commands
  BY <1>1, ScriptTypes DEF Type, Mains
<1>3. PICK k \in Commands :
        main' = [main EXCEPT ![c].pc = "mark", ![c].typed = @ + 1, ![c].cmd = k]
  BY <1>1, <1>2 DEF Type
<1>4. /\ main' \in [Clients -> Mains] /\ main'[c].typed = main[c].typed + 1
      /\ \A d \in Clients : main'[d].typed = main[d].typed \/ d = c
  BY <1>1, <1>3, TypeSets
<1>5. main'[c].typed <= Len(script[c].types)
  <2>1. main[c].typed < Len(script[c].types)
    BY DEF Type
  <2>2. main[c].typed \in Nat /\ Len(script[c].types) \in Nat
    BY <1>1, ScriptTypes DEF Mains
  <2>3. QED BY <1>4, <2>1, <2>2
<1>6. QED BY <1>4, <1>5

\* Chat_Msg and the main thread.
LEMMA MainTypes ==
  ASSUME ShapeInv, NEW c \in Clients,
         \/ Connecting(c) \/ Connected(c) \/ ConnectFails(c) \/ Type(c) \/ Quit(c) \/ MainStep(c)
  PROVE  ShapeInv'
<1> USE DEF ShapeInv, GhostTypes, CallInv, net, ghosts
<1>1. CASE Connecting(c) \/ Connected(c)
  BY <1>1 DEF Connecting, Connected, NetTypes, ClientTypes, Links
<1>2. CASE ConnectFails(c) \/ Quit(c)
  BY <1>2, ExitTypes DEF ConnectFails, Quit, ClientTypes
<1>3. CASE Poll(c)
  <2>1. CASE Exit(c)
    BY <1>3, <2>1, ExitTypes DEF Poll, ClientTypes
  <2>2. CASE main' = [main EXCEPT ![c].pc = "prompt", ![c].received = client[c].status]
    <3>1. /\ main' \in [Clients -> Mains]
          /\ \A d \in Clients : main'[d].typed = main[d].typed
      <4>1. client[c].status \in Statuses /\ main \in [Clients -> Mains]
        BY DEF ClientTypes, States
      <4>2. ASSUME NEW m \in Mains, NEW k \in Statuses
            PROVE  /\ [m EXCEPT !.pc = "prompt", !.received = k] \in Mains
                   /\ [m EXCEPT !.pc = "prompt", !.received = k].typed = m.typed
        BY DEF Mains
      <4>3. main' = [main EXCEPT ![c] = [main[c] EXCEPT !.pc = "prompt",
                                                        !.received = client[c].status]]
        BY <2>2
      <4>4. QED BY <4>1, <4>2, <4>3
    <3>2. UNCHANGED net
      BY <1>3, <2>2 DEF Poll, Exit, MainTo, ClientTypes, Mains
    <3>3. QED BY <1>3, <3>1, <3>2 DEF Poll, ClientTypes, NetTypes
  <2>3. QED BY <1>3, <2>1, <2>2 DEF Poll
<1>4. CASE Type(c)
  <2>1. /\ main' \in [Clients -> Mains] /\ main'[c].typed <= Len(script[c].types)
        /\ \A d \in Clients : main'[d].typed = main[d].typed \/ d = c
    BY <1>4, TypedSets
  <2>2. QED BY <1>4, <2>1 DEF Type, ClientTypes, NetTypes
<1>5. CASE Mark(c)
  BY <1>5, LocalTypes DEF Mark, Statuses, ClientTypes, NetTypes
<1>6. CASE Fill(c)
  <2>1. CASE Exit(c) /\ UNCHANGED content
    BY <1>6, <2>1, ExitTypes DEF Fill, ClientTypes
  <2>2. CASE /\ MainTo(c, "copy") /\ UNCHANGED net
             /\ content' = [content EXCEPT ![c] = Cleared(@)]
    <3>1. content' \in [Clients -> Contents]
      BY <2>2, ContentKinds DEF ClientTypes
    <3>2. QED BY <1>6, <2>2, <3>1, LocalTypes DEF Fill, ClientTypes, NetTypes
  <2>3. QED BY <1>6, <2>1, <2>2 DEF Fill
<1>7. CASE Copy(c)
  <2>1. [cmd |-> main[c].cmd, me |-> c, to |-> script[c].peer] \in Contents
    BY ContentKinds, ScriptTypes DEF ClientTypes, Mains, Users
  <2>2. QED BY <1>7, <2>1, LocalTypes DEF Copy, ClientTypes, NetTypes
<1>8. CASE Send(c)
  <2>1. CASE Transmit(c) /\ MainTo(c, "poll") /\ UNCHANGED <<conn, online, toClient>>
    <3>1. toServer' \in [Clients -> Seq(Orders)]
      BY <2>1 DEF Transmit, NetTypes, ClientTypes, Orders
    <3>2. QED BY <1>8, <2>1, <3>1, LocalTypes DEF Send, ClientTypes, NetTypes
  <2>2. CASE Exit(c)
    BY <1>8, <2>2, ExitTypes DEF Send, ClientTypes
  <2>3. QED BY <1>8, <2>1, <2>2 DEF Send
<1>9. QED BY <1>1, <1>2, <1>3, <1>4, <1>5, <1>6, <1>7, <1>8 DEF MainStep

\* What is left of a queue when its first messages have been taken.
LEMMA Taken ==
  ASSUME NEW S, NEW q \in Seq(S), NEW n \in Nat \ {0}, n <= Len(q)
  PROVE  /\ q[1] \in S /\ SubSeq(q, n + 1, Len(q)) \in Seq(S)
         /\ Len(SubSeq(q, n + 1, Len(q))) = Len(q) - n
         /\ \A k \in 1 .. Len(q) - n : SubSeq(q, n + 1, Len(q))[k] = q[n + k]
<1>1. Len(q) \in Nat /\ \A k \in 1 .. Len(q) : q[k] \in S
  BY ElementOfSeq, LenProperties
<1>2. \A k \in n + 1 .. Len(q) : q[k] \in S
  BY <1>1
<1>3. /\ SubSeq(q, n + 1, Len(q)) \in Seq(S)
      /\ Len(SubSeq(q, n + 1, Len(q))) =
           IF n + 1 <= Len(q) THEN Len(q) - (n + 1) + 1 ELSE 0
      /\ \A k \in 1 .. Len(q) - (n + 1) + 1 : SubSeq(q, n + 1, Len(q))[k] = q[(n + 1) + k - 1]
  <2>1. n + 1 \in Int /\ Len(q) \in Int
    BY <1>1
  <2>2. QED BY <1>2, <2>1, SubSeqProperties
<1>4. Len(SubSeq(q, n + 1, Len(q))) = Len(q) - n
  BY <1>1, <1>3
<1>5. ASSUME NEW k \in 1 .. Len(q) - n
      PROVE  SubSeq(q, n + 1, Len(q))[k] = q[n + k]
  <2>1. k \in 1 .. Len(q) - (n + 1) + 1 /\ (n + 1) + k - 1 = n + k
    BY <1>1
  <2>2. QED BY <1>3, <2>1
<1>6. QED BY <1>1, <1>3, <1>4, <1>5

\* What a read leaves, with what is left of a message in front.
LEMMA LeftTypes ==
  ASSUME NEW S, Rest \in S, NEW q \in Seq(S), NEW n \in Nat \ {0}, n <= Len(q),
         NEW whole \in BOOLEAN
  PROVE  Left(q, n, whole) \in Seq(S) /\ q[1] \in S
<1>1. q[1] \in S /\ SubSeq(q, n + 1, Len(q)) \in Seq(S)
  BY Taken
<1>2. (IF whole THEN <<>> ELSE <<Rest>>) \in Seq(S)
  OBVIOUS
<1>3. QED BY <1>1, <1>2, ConcatProperties DEF Left

LEMMA LeftWhole ==
  ASSUME NEW S, NEW q \in Seq(S), NEW n \in Nat \ {0}, n <= Len(q)
  PROVE  Left(q, n, TRUE) = SubSeq(q, n + 1, Len(q))
<1>1. SubSeq(q, n + 1, Len(q)) \in Seq(S)
  BY Taken
<1>2. QED BY <1>1, ConcatEmptySeq DEF Left

LEMMA BorderTypes ==
  ASSUME ShapeInv, NEW c \in Clients, NEW whole \in BOOLEAN, Border(c, whole)
  PROVE  /\ cuts' \in [Clients -> Nat] /\ \A d \in Clients \ {c} : cuts'[d] = cuts[d]
         /\ whole => cuts'[c] = cuts[c]
         /\ ~ whole => cuts'[c] = cuts[c] + 1
BY DEF Border, ShapeInv, GhostTypes

\* What a read of the client is taken for.
LEMMA LooksTypes ==
  ASSUME ChatAssumption, NEW q, NEW n, NEW whole \in BOOLEAN, q[1] \in Pieces
  PROVE  Looks(q, n, whole) \subseteq Sights
<1>0. Messages \subseteq Sights /\ None \in Users
  BY DEF Sights, Users
<1>1. Strays \subseteq Sights
  <2>1. {Plain, Beat, Closed, Chat, Ack} \subseteq Sights
    BY <1>0, MessageKinds
  <2>2. {Address("addr", None, u) : u \in Users} \subseteq Sights
    BY <1>0, MessageKinds
  <2>3. {Image(k) : k \in 0 .. MaxBlocks} \subseteq Sights
    BY <1>0, MessageKinds
  <2>4. {Stray(k) : k \in 0 .. MaxBlocks} \subseteq Sights
    BY DEF Sights
  <2>5. QED BY <2>1, <2>2, <2>3, <2>4 DEF Strays
<1>2. ASSUME NEW m \in Messages
      PROVE  Parts(m) \subseteq Sights
  <2>1. {Plain, m, Ack} \subseteq Sights
    BY <1>0, MessageKinds
  <2>2. CASE m.kind = "chat"
    BY <2>1, <2>2 DEF Parts
  <2>3. CASE m.kind = "image"
    <3>1. Parts(m) = {Plain, m} \cup {Image(k) : k \in 0 .. m.len}
      BY <2>3 DEF Parts
    <3>2. \A k \in 0 .. m.len : k \in 0 .. MaxBlocks
      BY <2>3, MessageKinds, ChatAssumption
    <3>3. {Image(k) : k \in 0 .. m.len} \subseteq Sights
      BY <1>0, <3>2, MessageKinds
    <3>4. QED BY <2>1, <3>1, <3>3
  <2>4. CASE m.kind \in {"addr", "dig"}
    <3>1. Parts(m) = {Plain, m} \cup {Address(m.kind, m.name, None)}
      BY <2>4 DEF Parts
    <3>2. Address(m.kind, m.name, None) \in Sights
      BY <1>0, <2>4, MessageKinds
    <3>3. QED BY <2>1, <3>1, <3>2
  <2>5. CASE m.kind \notin {"chat", "image", "addr", "dig"}
    BY <2>1, <2>5 DEF Parts
  <2>6. QED BY <2>2, <2>3, <2>4, <2>5
<1>3. q[1] # Rest => q[1] \in Messages
  BY DEF Pieces
<1>4. QED BY <1>0, <1>1, <1>2, <1>3 DEF Looks

\* The receiving thread reads: what is left, and what it takes the read for.
LEMMA TakeEffect ==
  ASSUME ShapeInv, NEW c \in Clients, Take(c)
  PROVE  /\ toClient' \in [Clients -> Seq(Pieces)] /\ cuts' \in [Clients -> Nat]
         /\ \A d \in Clients \ {c} : toClient'[d] = toClient[d] /\ cuts'[d] = cuts[d]
         /\ cuts'[c] >= cuts[c]
         /\ \/ UNCHANGED rcv
            \/ \E m \in Sights : rcv' = [rcv EXCEPT ![c].pc = "note", ![c].msg = m]
<1>1. PICK n \in 1 .. MaxMerge, whole \in BOOLEAN :
        /\ Returns(toClient[c], n, whole)
        /\ toClient' = [toClient EXCEPT ![c] = Left(@, n, whole)]
        /\ Border(c, whole)
        /\ \E m \in Looks(toClient[c], n, whole) :
             IF m = Beat /\ n = 1 /\ whole THEN UNCHANGED rcv
             ELSE rcv' = [rcv EXCEPT ![c].pc = "note", ![c].msg = IF m = Beat THEN Plain ELSE m]
  BY DEF Take
<1>2. n \in Nat \ {0} /\ toClient \in [Clients -> Seq(Pieces)] /\ n <= Len(toClient[c])
  BY <1>1, ScriptTypes DEF ShapeInv, NetTypes, Returns
<1>3. Left(toClient[c], n, whole) \in Seq(Pieces) /\ toClient[c][1] \in Pieces
  <2>1. Rest \in Pieces
    BY DEF Pieces
  <2>2. QED BY <1>2, <2>1, LeftTypes
<1>4. /\ toClient' \in [Clients -> Seq(Pieces)]
      /\ \A d \in Clients \ {c} : toClient'[d] = toClient[d]
  BY <1>1, <1>2, <1>3
<1>5. Looks(toClient[c], n, whole) \subseteq Sights /\ Plain \in Sights
  <2>1. Plain \in Sights
    BY MessageKinds DEF Sights
  <2>2. QED BY <1>3, <2>1, LooksTypes, ChatAssumption
<1>6. \/ UNCHANGED rcv
      \/ \E m \in Sights : rcv' = [rcv EXCEPT ![c].pc = "note", ![c].msg = m]
  <2>1. PICK m \in Looks(toClient[c], n, whole) :
          IF m = Beat /\ n = 1 /\ whole THEN UNCHANGED rcv
          ELSE rcv' = [rcv EXCEPT ![c].pc = "note", ![c].msg = IF m = Beat THEN Plain ELSE m]
    BY <1>1
  <2>2. m \in Sights
    BY <1>5
  <2>3. CASE m = Beat /\ n = 1 /\ whole
    BY <2>1, <2>3
  <2>4. CASE m = Beat /\ ~ (n = 1 /\ whole)
    <3>1. rcv' = [rcv EXCEPT ![c].pc = "note", ![c].msg = Plain]
      BY <2>1, <2>4
    <3>2. QED BY <1>5, <3>1
  <2>5. CASE m # Beat
    <3>1. rcv' = [rcv EXCEPT ![c].pc = "note", ![c].msg = m]
      BY <2>1, <2>5
    <3>2. QED BY <2>2, <3>1
  <2>6. QED BY <2>3, <2>4, <2>5
<1>7. /\ cuts' \in [Clients -> Nat] /\ \A d \in Clients \ {c} : cuts'[d] = cuts[d]
      /\ cuts'[c] >= cuts[c]
  <2>1. cuts[c] \in Nat
    BY DEF ShapeInv, GhostTypes
  <2>2. QED BY <1>1, <2>1, BorderTypes
<1>8. QED BY <1>4, <1>6, <1>7

LEMMA NotedTypes ==
  ASSUME ShapeInv, NEW c \in Clients, NEW m \in Sights,
         rcv' = [rcv EXCEPT ![c].pc = "note", ![c].msg = m]
  PROVE  /\ rcv' \in [Clients -> Receivers] /\ rcv'[c].pc = "note" /\ rcv'[c].msg = m
         /\ rcv'[c].fw = rcv[c].fw /\ rcv'[c].tries = rcv[c].tries
         /\ \A d \in Clients \ {c} : rcv'[d] = rcv[d]
<1>1. rcv \in [Clients -> Receivers]
  BY DEF ShapeInv, ClientTypes
<1>2. rcv' = [rcv EXCEPT ![c] = [rcv[c] EXCEPT !.pc = "note", !.msg = m]]
  OBVIOUS
<1>3. ASSUME NEW r \in Receivers
      PROVE  /\ [r EXCEPT !.pc = "note", !.msg = m] \in Receivers
             /\ [r EXCEPT !.pc = "note", !.msg = m].pc = "note"
             /\ [r EXCEPT !.pc = "note", !.msg = m].msg = m
             /\ [r EXCEPT !.pc = "note", !.msg = m].fw = r.fw
             /\ [r EXCEPT !.pc = "note", !.msg = m].tries = r.tries
  BY DEF Receivers
<1>4. rcv[c] \in Receivers /\ rcv'[c] = [rcv[c] EXCEPT !.pc = "note", !.msg = m]
      /\ \A d \in Clients \ {c} : rcv'[d] = rcv[d]
  BY <1>1, <1>2
<1>5. [rcv[c] EXCEPT !.pc = "note", !.msg = m] \in Receivers
  BY <1>3, <1>4
<1>6. rcv' \in [Clients -> Receivers]
  BY <1>1, <1>2, <1>5
<1>7. QED BY <1>3, <1>4, <1>6

\* What parseRcvMsg does with a message, but for p2pMessage.
LEMMA ReceiverTypes ==
  ASSUME ShapeInv, NEW c \in Clients,
         \/ StartReceiver(c) \/ Take(c) \/ TakeEnd(c) \/ Note(c)
         \/ ActPlain(c) \/ ActChat(c) \/ ActImage(c) \/ ActEnd(c) \/ ExitLost(c)
  PROVE  ShapeInv'
<1> USE DEF ShapeInv, GhostTypes, CallInv, net, ghosts
<1>0. /\ client \in [Clients -> States] /\ rcv \in [Clients -> Receivers]
      /\ toClient \in [Clients -> Seq(Pieces)]
  BY DEF ClientTypes, NetTypes
<1>1. CASE StartReceiver(c)
  <2>1. client' \in [Clients -> States]
    BY <1>1, FlagTypes DEF StartReceiver
  <2>2. rcv' \in [Clients -> Receivers] /\ CallInv'
    BY <1>1, Moved DEF StartReceiver, Calling, Asking
  <2>3. QED BY <1>1, <2>1, <2>2 DEF StartReceiver, ClientTypes, NetTypes
<1>2. CASE Take(c)
  <2>2. /\ toClient' \in [Clients -> Seq(Pieces)] /\ cuts' \in [Clients -> Nat]
        /\ \/ UNCHANGED rcv
           \/ \E m \in Sights : rcv' = [rcv EXCEPT ![c].pc = "note", ![c].msg = m]
    BY <1>2, TakeEffect
  <2>3. rcv' \in [Clients -> Receivers] /\ CallInv'
    <3>1. CASE UNCHANGED rcv
      BY <1>0, <3>1
    <3>2. ASSUME NEW m \in Sights, rcv' = [rcv EXCEPT ![c].pc = "note", ![c].msg = m]
          PROVE  rcv' \in [Clients -> Receivers] /\ CallInv'
      <4>1. /\ rcv' \in [Clients -> Receivers] /\ rcv'[c].pc = "note"
            /\ \A d \in Clients \ {c} : rcv'[d] = rcv[d]
        BY <3>2, NotedTypes
      <4>2. "note" \notin Calling
        BY DEF Calling, Asking
      <4>3. CallInv'
        BY <4>1, <4>2
      <4>4. QED BY <4>1, <4>3
    <3>3. QED BY <2>2, <3>1, <3>2
  <2>4. QED BY <1>2, <2>2, <2>3 DEF Take, ClientTypes, NetTypes
<1>3. CASE TakeEnd(c)
  <2>1. rcv' \in [Clients -> Receivers] /\ CallInv'
    <3>1. rcv' = [rcv EXCEPT ![c].pc = "note", ![c].msg = End] /\ End \in Sights
      BY <1>3, MessageKinds DEF TakeEnd, Sights
    <3>2. /\ rcv' \in [Clients -> Receivers] /\ rcv'[c].pc = "note"
          /\ \A d \in Clients \ {c} : rcv'[d] = rcv[d]
      BY <3>1, NotedTypes
    <3>3. "note" \notin Calling
      BY DEF Calling, Asking
    <3>4. CallInv'
      BY <3>2, <3>3
    <3>5. QED BY <3>2, <3>4
  <2>2. QED BY <1>3, <2>1 DEF TakeEnd, ClientTypes, NetTypes
<1>4. CASE Note(c) \/ ActPlain(c) \/ ActChat(c)
  <2>1. client' \in [Clients -> States]
    BY <1>0, <1>4, LocalTypes DEF Note, ActPlain, ActChat, Statuses
  <2>2. PICK k \in {"act", "recv"} : RcvTo(c, k)
    BY <1>4 DEF Note, ActPlain, ActChat
  <2>3. rcv' \in [Clients -> Receivers] /\ CallInv'
    BY <2>2, Moved DEF Calling, Asking
  <2>4. QED BY <1>4, <2>1, <2>3 DEF Note, ActPlain, ActChat, ClientTypes, NetTypes
<1>5. CASE ActImage(c)
  <2>1. client' \in [Clients -> States]
    BY <1>0, <1>5, LocalTypes DEF ActImage, Statuses
  <2>2. rcv[c].msg.len \in 0 .. MaxBlocks
    <3>1. rcv[c].msg \in Sights /\ rcv[c].msg.kind \in {"image", "stray"}
      BY <1>0, <1>5 DEF ActImage, Receivers
    <3>2. QED BY <3>1, SightKinds
  <2>3. rcv' \in [Clients -> Receivers] /\ CallInv'
    <3>1. CASE RcvTo(c, "recv")
      BY <3>1, Moved DEF Calling, Asking
    <3>2. CASE rcv' = [rcv EXCEPT ![c].pc = "recv", ![c].fw = rcv[c].msg.len]
      <4>1. [rcv[c] EXCEPT !.pc = "recv", !.fw = rcv[c].msg.len] \in Receivers
        <5>1. ASSUME NEW r \in Receivers, NEW f \in 0 .. MaxBlocks
              PROVE  [r EXCEPT !.pc = "recv", !.fw = f] \in Receivers
          BY DEF Receivers
        <5>2. QED BY <1>0, <2>2, <5>1
      <4>2. rcv' = [rcv EXCEPT ![c] = [rcv[c] EXCEPT !.pc = "recv", !.fw = rcv[c].msg.len]]
        BY <3>2
      <4>3. rcv'[c].pc = "recv" /\ \A d \in Clients \ {c} : rcv'[d] = rcv[d]
        BY <1>0, <4>2 DEF Receivers
      <4>4. QED BY <1>0, <4>1, <4>2, <4>3 DEF Calling, Asking
    <3>3. QED BY <1>5, <3>1, <3>2 DEF ActImage
  <2>4. QED BY <1>5, <2>1, <2>3 DEF ActImage, ClientTypes, NetTypes
<1>6. CASE ActEnd(c)
  <2>1. client' \in [Clients -> States]
    BY <1>6, FlagTypes DEF ActEnd
  <2>2. rcv' \in [Clients -> Receivers] /\ CallInv'
    BY <1>6, Moved DEF ActEnd, Calling, Asking
  <2>3. QED BY <1>6, <2>1, <2>2 DEF ActEnd, ClientTypes, NetTypes
<1>7. CASE ExitLost(c)
  BY <1>7, ExitTypes DEF ExitLost, ClientTypes
<1>8. QED BY <1>1, <1>2, <1>3, <1>4, <1>5, <1>6, <1>7

\* p2pMessage and the thread for datagrams.
LEMMA CallTypes ==
  ASSUME ShapeInv, NEW c \in Clients,
         \/ P2PStart(c) \/ AskFill(c) \/ AskCopy(c) \/ AskSend(c) \/ Try(c) \/ Await(c)
         \/ Loop(c) \/ Datagram(c)
  PROVE  ShapeInv'
<1> USE DEF ShapeInv, GhostTypes, CallInv, net, ghosts
<1>0. /\ client \in [Clients -> States] /\ rcv \in [Clients -> Receivers]
      /\ content \in [Clients -> Contents] /\ p2p \in [Clients -> Callers]
      /\ main \in [Clients -> Mains]
  BY DEF ClientTypes
<1>1. CASE P2PStart(c)
  <2>9. /\ rcv[c].msg.of \in Clients /\ rcv[c].msg.name \in Users
        /\ rcv[c].msg.kind \in {"addr", "dig"}
    <3>1. /\ rcv[c].msg \in Sights /\ rcv[c].msg.kind \in {"addr", "dig"}
          /\ rcv[c].msg.of # None
      BY <1>0, <1>1 DEF P2PStart, Receivers
    <3>2. QED BY <3>1, SightKinds DEF Users
  <2>0. ASSUME Free(c), p2p' = [p2p EXCEPT ![c].socks = @ + 1]
        PROVE  p2p' \in [Clients -> Callers]
    <3>1. p2p' = [p2p EXCEPT ![c] = [p2p[c] EXCEPT !.socks = @ + 1]]
      BY <2>0
    <3>2. ASSUME NEW k \in Callers, k.socks < script[c].socks
          PROVE  [k EXCEPT !.socks = @ + 1] \in Callers
      <4>1. MaxSocks \in Nat /\ script[c].socks \in 1 .. MaxSocks
        BY ScriptTypes
      <4>2. k.socks + 1 \in 0 .. MaxSocks
        BY <3>2, <4>1 DEF Callers
      <4>3. QED BY <4>2 DEF Callers
    <3>3. QED BY <1>0, <2>0, <3>1, <3>2 DEF Free
  <2>1. CASE /\ SetRecvState(c, "p2p") /\ RcvTo(c, "recv")
             /\ p2p' = [p2p EXCEPT ![c].socks = IF Free(c) THEN @ + 1 ELSE @]
    <3>0. p2p' \in [Clients -> Callers]
      <4>1. CASE Free(c)
        BY <2>0, <2>1, <4>1
      <4>2. CASE ~ Free(c)
        BY <1>0, <2>1, <4>2 DEF Callers
      <4>3. QED BY <4>1, <4>2
    <3>1. client' \in [Clients -> States] /\ rcv' \in [Clients -> Receivers]
      BY <2>1, LocalTypes DEF Statuses
    <3>2. CallInv'
      BY <1>0, <2>1 DEF RcvTo, Receivers, Calling, Asking
    <3>3. QED BY <1>1, <2>1, <3>0, <3>1, <3>2 DEF P2PStart, ClientTypes, NetTypes
  <2>2. ASSUME Free(c), p2p' = [p2p EXCEPT ![c].socks = @ + 1], UNCHANGED client,
               NEW k \in Calling, NEW g \in Contents,
               rcv' = [rcv EXCEPT ![c].tries = 0, ![c].pc = k, ![c].dig = g]
        PROVE  ShapeInv'
    <3>1. p2p' \in [Clients -> Callers]
      BY <2>0, <2>2
    <3>2. rcv[c].msg.of \in Clients /\ rcv[c].msg.kind \in {"addr", "dig"}
      BY <2>9
    <3>3. ASSUME NEW r \in Receivers
          PROVE  /\ [r EXCEPT !.tries = 0, !.pc = k, !.dig = g] \in Receivers
                 /\ [r EXCEPT !.tries = 0, !.pc = k, !.dig = g].msg = r.msg
      <4>1. 0 \in 0 .. MAXRETRY - 1
        BY ScriptTypes
      <4>2. k \in {"unborn", "recv", "note", "act", "exit"} \cup Calling
        BY <2>2
      <4>3. QED BY <2>2, <4>1, <4>2 DEF Receivers
    <3>4. rcv' = [rcv EXCEPT ![c] = [rcv[c] EXCEPT !.tries = 0, !.pc = k, !.dig = g]]
      BY <2>2
    <3>5. rcv' \in [Clients -> Receivers] /\ rcv'[c].msg = rcv[c].msg
          /\ \A d \in Clients \ {c} : rcv'[d] = rcv[d]
      BY <1>0, <3>3, <3>4
    <3>6. CallInv'
      BY <3>2, <3>5
    <3>7. QED BY <1>1, <2>2, <3>1, <3>5, <3>6 DEF P2PStart, ClientTypes, NetTypes
  <2>3. [cmd |-> "dig", me |-> content[c].me, to |-> rcv[c].msg.name] \in Contents
    <3>1. content[c].me \in Users
      BY <1>0, ContentKinds
    <3>2. QED BY <2>9, <3>1, ContentKinds
  <2>4. \A f : (IF f = 2 THEN "try" ELSE "askfill") \in Calling
    BY DEF Calling, Asking
  <2>5. CASE Free(c) /\ p2p' = [p2p EXCEPT ![c].socks = @ + 1] /\ UNCHANGED client
             /\ rcv' = [rcv EXCEPT ![c].tries = 0,
                  ![c].pc = IF client[c].flag = 2 THEN "try" ELSE "askfill",
                  ![c].dig = [cmd |-> "dig", me |-> content[c].me, to |-> rcv[c].msg.name]]
    <3> DEFINE k == IF client[c].flag = 2 THEN "try" ELSE "askfill"
               g == [cmd |-> "dig", me |-> content[c].me, to |-> rcv[c].msg.name]
    <3>1. k \in Calling /\ g \in Contents
      BY <2>3, <2>4
    <3>2. rcv' = [rcv EXCEPT ![c].tries = 0, ![c].pc = k, ![c].dig = g]
      BY <2>5
    <3> HIDE DEF k, g
    <3>3. QED BY <2>2, <2>5, <3>1, <3>2
  <2>6. QED BY <1>1, <2>1, <2>5 DEF P2PStart
<1>2. CASE AskFill(c) \/ AskCopy(c)
  <2>1. content' \in [Clients -> Contents]
    BY <1>0, <1>2, ContentKinds DEF AskFill, AskCopy, Receivers
  <2>2. rcv' \in [Clients -> Receivers] /\ CallInv'
    <3>1. PICK k \in {"askcopy", "asksend"} : RcvTo(c, k) /\ rcv[c].pc \in Calling
      BY <1>2 DEF AskFill, AskCopy, Receives, Calling, Asking
    <3>2. k \in Calling
      BY DEF Calling, Asking
    <3>3. QED BY <3>1, <3>2, Moved
  <2>3. QED BY <1>2, <2>1, <2>2 DEF AskFill, AskCopy, ClientTypes, NetTypes
<1>3. CASE AskSend(c)
  <2>1. rcv' \in [Clients -> Receivers] /\ CallInv'
    BY <1>3, Moved DEF AskSend, Receives, Calling, Asking
  <2>2. CASE Transmit(c) /\ UNCHANGED <<conn, online, toClient, main>>
    <3>1. toServer' \in [Clients -> Seq(Orders)]
      BY <2>2 DEF Transmit, NetTypes, ClientTypes, Orders
    <3>2. QED BY <1>3, <2>1, <2>2, <3>1 DEF AskSend, ClientTypes, NetTypes
  <2>3. CASE Exit(c)
    BY <1>3, <2>1, <2>3, ExitTypes DEF AskSend, ClientTypes
  <2>4. QED BY <1>3, <2>2, <2>3 DEF AskSend
<1>4. CASE Try(c)
  <2>1. rcv' \in [Clients -> Receivers] /\ CallInv' /\ rcv[c].msg.of \in Clients
    BY <1>4, Moved DEF Try, Receives, Calling, Asking
  <2>2. p2p' \in [Clients -> Callers]
    <3>1. \A r \in Callers : /\ [r EXCEPT !.pc = "loop", !.frame = TRUE] \in Callers
                              /\ [r EXCEPT !.frame = FALSE] \in Callers
      BY DEF Callers
    <3>2. \/ p2p' = p2p
          \/ p2p' = [p2p EXCEPT ![c] = [p2p[c] EXCEPT !.pc = "loop", !.frame = TRUE]]
          \/ p2p' = [p2p EXCEPT ![c] = [p2p[c] EXCEPT !.frame = FALSE]]
      BY <1>4 DEF Try
    <3>3. p2p \in [Clients -> Callers] /\ p2p[c] \in Callers
      BY <1>0
    <3>4. /\ [p2p[c] EXCEPT !.pc = "loop", !.frame = TRUE] \in Callers
          /\ [p2p[c] EXCEPT !.frame = FALSE] \in Callers
      BY <3>1, <3>3
    <3>5. QED BY <3>2, <3>3, <3>4
  <2>3. client' \in [Clients -> States]
    <3>1. CASE client' = [client EXCEPT ![c].count = @ + 1]
      BY <3>1, FlagTypes
    <3>2. CASE client' = client
      BY <1>0, <3>2
    <3>3. QED BY <1>4, <3>1, <3>2 DEF Try
  <2>4. called' \subseteq Clients
    BY <1>4, <2>1 DEF Try
  <2>5. QED BY <1>4, <2>1, <2>2, <2>3, <2>4 DEF Try, ClientTypes, NetTypes
<1>5. CASE Await(c)
  <2>1. client' \in [Clients -> States]
    BY <1>0, <1>5, LocalTypes DEF Await, Statuses
  <2>2. CASE RcvTo(c, "recv") /\ p2p' = [p2p EXCEPT ![c].frame = FALSE]
    <3>1. rcv' \in [Clients -> Receivers] /\ CallInv'
      BY <2>2, Moved DEF Calling, Asking
    <3>2. p2p' \in [Clients -> Callers]
      BY <1>0, <2>2 DEF Callers
    <3>3. QED BY <1>5, <2>1, <3>1, <3>2 DEF Await, ClientTypes, NetTypes
  <2>3. CASE /\ rcv[c].tries + 1 # MAXRETRY /\ UNCHANGED p2p
             /\ rcv' = [rcv EXCEPT ![c].pc = "try", ![c].tries = @ + 1]
    <3>1. rcv[c].tries + 1 \in 0 .. MAXRETRY - 1
      BY <1>0, <2>3, ScriptTypes DEF Receivers
    <3>2. ASSUME NEW r \in Receivers, r.tries + 1 \in 0 .. MAXRETRY - 1
          PROVE  /\ [r EXCEPT !.pc = "try", !.tries = @ + 1] \in Receivers
                 /\ [r EXCEPT !.pc = "try", !.tries = @ + 1].msg = r.msg
      BY <3>2 DEF Receivers, Calling
    <3>3. rcv' = [rcv EXCEPT ![c] = [rcv[c] EXCEPT !.pc = "try", !.tries = @ + 1]]
      BY <2>3
    <3>4. rcv' \in [Clients -> Receivers] /\ rcv'[c].msg = rcv[c].msg
          /\ \A d \in Clients \ {c} : rcv'[d] = rcv[d]
      BY <1>0, <3>1, <3>2, <3>3
    <3>5. CallInv'
      BY <1>5, <3>4 DEF Await, Receives, Calling
    <3>6. QED BY <1>5, <2>1, <2>3, <3>4, <3>5 DEF Await, ClientTypes, NetTypes
  <2>4. QED BY <1>5, <2>2, <2>3 DEF Await
<1>6. CASE Loop(c)
  <2>1. p2p' \in [Clients -> Callers]
    BY <1>0, <1>6 DEF Loop, Callers
  <2>2. QED BY <1>6, <2>1 DEF Loop, ClientTypes, NetTypes
<1>7. CASE Datagram(c)
  <2>1. p2p' \in [Clients -> Callers] /\ client' \in [Clients -> States]
    BY <1>0, <1>7 DEF Datagram, Callers, States
  <2>2. QED BY <1>7, <2>1 DEF Datagram, ClientTypes, NetTypes
<1>8. QED BY <1>1, <1>2, <1>3, <1>4, <1>5, <1>6, <1>7

-----------------------------------------------------------------------------
(* What the server sends *)

Late == {<<>>, <<Beat>>}

\* What is passed on to client d, and what the sender of a command gets.
Passed(d) == {<<>>, <<Chat>>} \cup {<<Address("dig", u, d)>> : u \in Users}
Replies(cmd) ==
  CASE cmd \in {"login", "logout", "online"} -> {<<Plain>>, <<Closed>>}
    [] cmd = "image" -> {<<Image(0)>>} \cup {Blocks(n) : n \in 1 .. MaxBlocks}
    [] cmd = "ndt" -> {<<Ack>>}
    [] cmd = "peer" -> {<<Address("addr", u, a)>> : u \in Users, a \in Users}
    [] cmd = "dig" -> {<<>>, <<Address("addr", None, None)>>}

LEMMA BlockTypes ==
  ASSUME ChatAssumption, NEW n \in 1 .. MaxBlocks
  PROVE  /\ Blocks(n) \in Seq(Messages) /\ Len(Blocks(n)) = n + 1
         /\ \A k \in 1 .. n + 1 : Blocks(n)[k] = Image(IF k <= n THEN k ELSE n)
<1>1. MaxBlocks \in Nat \ {0}
  BY ChatAssumption
<1>2. \A k \in 1 .. n + 1 : Image(IF k <= n THEN k ELSE n) \in Messages
  BY <1>1, MessageKinds
<1>3. Blocks(n) = [k \in 1 .. n + 1 |-> Image(IF k <= n THEN k ELSE n)]
  BY DEF Blocks
<1>4. n + 1 \in Nat
  BY <1>1
<1>5. QED BY <1>2, <1>3, <1>4, SeqDef

LEMMA SentTypes ==
  ASSUME ChatAssumption
  PROVE  /\ \A m \in Messages : <<m>> \in Seq(Messages)
         /\ Late \subseteq Seq(Messages) /\ <<>> \in Seq(Messages)
         /\ \A d \in Clients : Passed(d) \subseteq Seq(Messages)
         /\ \A k \in Commands \cup {"dig"} : Replies(k) \subseteq Seq(Messages)
         /\ Seq(Messages) \subseteq Seq(Pieces)
<1>1. \A m \in Messages : <<m>> \in Seq(Messages)
  OBVIOUS
<1>2. <<>> \in Seq(Messages)
  OBVIOUS
<1>3. Late \subseteq Seq(Messages)
  BY <1>1, <1>2, MessageKinds DEF Late
<1>4. ASSUME NEW d \in Clients
      PROVE  Passed(d) \subseteq Seq(Messages)
  <2>1. \A u \in Users : Address("dig", u, d) \in Messages
    BY MessageKinds DEF Users
  <2>2. \A u \in Users : <<Address("dig", u, d)>> \in Seq(Messages)
    BY <1>1, <2>1
  <2>3. <<Chat>> \in Seq(Messages)
    BY <1>1, MessageKinds
  <2>4. QED BY <1>2, <2>2, <2>3 DEF Passed
<1>5. ASSUME NEW k \in Commands \cup {"dig"}
      PROVE  Replies(k) \subseteq Seq(Messages)
  <2>1. CASE k \in {"login", "logout", "online"}
    <3>1. Replies(k) = {<<Plain>>, <<Closed>>}
      BY <2>1 DEF Replies
    <3>2. QED BY <1>1, <3>1, MessageKinds
  <2>2. CASE k = "image"
    <3>1. Image(0) \in Messages
      BY MessageKinds, ChatAssumption
    <3>2. \A n \in 1 .. MaxBlocks : Blocks(n) \in Seq(Messages)
      BY BlockTypes, ChatAssumption
    <3>3. Replies(k) = {<<Image(0)>>} \cup {Blocks(n) : n \in 1 .. MaxBlocks}
      BY <2>2 DEF Replies
    <3>4. QED BY <1>1, <3>1, <3>2, <3>3
  <2>3. CASE k = "ndt"
    BY <1>1, <2>3, MessageKinds DEF Replies
  <2>4. CASE k = "peer"
    <3>1. Replies(k) = {<<Address("addr", u, a)>> : u \in Users, a \in Users}
      BY <2>4 DEF Replies
    <3>2. \A u, a \in Users : Address("addr", u, a) \in Messages
      BY MessageKinds
    <3>3. \A u, a \in Users : <<Address("addr", u, a)>> \in Seq(Messages)
      BY <1>1, <3>2
    <3>4. ASSUME NEW x \in Replies(k)
          PROVE  x \in Seq(Messages)
      <4>1. \E u, a \in Users : x = <<Address("addr", u, a)>>
        BY <3>1, <3>4
      <4>2. QED BY <3>3, <4>1
    <3>5. QED BY <3>4
  <2>5. CASE k = "dig"
    BY <1>1, <1>2, <2>5, MessageKinds DEF Replies, Users
  <2>6. QED BY <1>5, <2>1, <2>2, <2>3, <2>4, <2>5 DEF Commands
<1>6. Seq(Messages) \subseteq Seq(Pieces)
  <2>1. ASSUME NEW q \in Seq(Messages)
        PROVE  q \in Seq(Pieces)
    <3>1. /\ Len(q) \in Nat /\ q = [i \in 1 .. Len(q) |-> q[i]]
          /\ \A i \in 1 .. Len(q) : q[i] \in Pieces
      BY LenProperties, ElementOfSeq DEF Pieces
    <3>2. QED BY <3>1, SeqDef
  <2>2. QED BY <2>1
<1>7. QED BY <1>1, <1>2, <1>3, <1>4, <1>5, <1>6

\* The replies to the command m of client c, of which the server has the connection.
\* Passed on, if anything, is something to the client that m names.
Replied(c, m) ==
  /\ conn' = conn \/ conn' = [conn EXCEPT ![c] = "mute"]
  /\ online' \subseteq Clients /\ online' \ {c} = online \ {c}
  /\ missing \subseteq missing' /\ missing' \subseteq Clients
  /\ \A d \in Clients \ {c} : \E pre \in Passed(d) :
       /\ toClient'[d] = toClient[d] \o pre
       /\ pre # <<>> => m.to = d /\ m.cmd \in {"ndt", "dig"} /\ d \in online
  /\ \E pre \in Passed(c), r \in Replies(m.cmd), l \in Late :
       /\ toClient'[c] = (toClient[c] \o pre) \o (r \o l)
       /\ pre # <<>> => m.to = c /\ m.cmd \in {"ndt", "dig"}
       /\ r = <<Image(0)>> => c \in missing'
       /\ r = <<Closed>> => conn' = [conn EXCEPT ![c] = "mute"]

\* Replies that go to the sender alone.
LEMMA ReplyEffect ==
  ASSUME ShapeInv, NEW c \in Clients, NEW m \in Contents,
         NEW r \in Replies(m.cmd), NEW l \in Late, Reply(c, r \o l),
         conn' = conn \/ conn' = [conn EXCEPT ![c] = "mute"],
         online' \subseteq Clients, online' \ {c} = online \ {c},
         missing \subseteq missing', missing' \subseteq Clients,
         r = <<Image(0)>> => c \in missing',
         r = <<Closed>> => conn' = [conn EXCEPT ![c] = "mute"]
  PROVE  Replied(c, m) /\ toClient' \in [Clients -> Seq(Pieces)]
<1>1. toClient \in [Clients -> Seq(Pieces)] /\ m.cmd \in Commands \cup {"dig"}
  BY ContentKinds DEF ShapeInv, NetTypes
<1>2. r \in Seq(Pieces) /\ l \in Seq(Pieces)
  BY <1>1, SentTypes, ChatAssumption
<1>3. r \o l \in Seq(Pieces)
  BY <1>2, ConcatProperties
<1>4. \A d \in Clients : toClient[d] \o <<>> = toClient[d]
  BY <1>1, ConcatEmptySeq
<1>5. toClient[c] \o (r \o l) \in Seq(Pieces)
  BY <1>1, <1>3, ConcatProperties
<1>6. toClient' = [toClient EXCEPT ![c] = toClient[c] \o (r \o l)]
  BY DEF Reply
<1>7. toClient' \in [Clients -> Seq(Pieces)]
  BY <1>1, <1>5, <1>6
<1>8. \A d \in Clients : <<>> \in Passed(d)
  BY DEF Passed
<1>9. toClient'[c] = (toClient[c] \o <<>>) \o (r \o l)
  BY <1>1, <1>4, <1>6
<1>10. \A d \in Clients \ {c} : toClient'[d] = toClient[d] \o <<>>
  BY <1>1, <1>4, <1>6
<1>11. \E pre \in Passed(c), x \in Replies(m.cmd), y \in Late :
         /\ toClient'[c] = (toClient[c] \o pre) \o (x \o y)
         /\ pre # <<>> => m.to = c /\ m.cmd \in {"ndt", "dig"}
         /\ x = <<Image(0)>> => c \in missing'
         /\ x = <<Closed>> => conn' = [conn EXCEPT ![c] = "mute"]
  BY <1>8, <1>9
<1>12. \A d \in Clients \ {c} : \E pre \in Passed(d) :
         /\ toClient'[d] = toClient[d] \o pre
         /\ pre # <<>> => m.to = d /\ m.cmd \in {"ndt", "dig"} /\ d \in online
  BY <1>8, <1>10
<1>13. QED BY <1>7, <1>11, <1>12 DEF Replied

LEMMA ServeEffect ==
  ASSUME ShapeInv, NEW c \in Clients, NEW m \in Contents, NEW late \in Late,
         c \in online, Serve(c, m, late)
  PROVE  Replied(c, m) /\ toClient' \in [Clients -> Seq(Pieces)]
<1>0. /\ toClient \in [Clients -> Seq(Pieces)] /\ online \subseteq Clients
      /\ missing \subseteq Clients /\ m.cmd \in Commands \cup {"dig"}
      /\ m.me \in Users /\ m.to \in Users
  BY ContentKinds DEF ShapeInv, NetTypes, GhostTypes
<1>1. conn' = conn /\ online' \subseteq Clients /\ online' \ {c} = online \ {c}
  BY <1>0 DEF Serve
<1>2. late \in Seq(Pieces) /\ <<>> \in Late
  BY SentTypes, ChatAssumption DEF Late
<1>3. CASE m.cmd \in {"login", "logout", "online"}
  <2>1. \E l \in Late : Reply(c, <<Plain>> \o l) /\ UNCHANGED missing
    BY <1>2, <1>3 DEF Serve
  <2>2. Replies(m.cmd) = {<<Plain>>, <<Closed>>}
    BY <1>3 DEF Replies
  <2>3. <<Plain>> # <<Closed>> /\ <<Plain>> # <<Image(0)>>
    BY DEF Plain, Closed, Image
  <2>4. QED BY <1>0, <1>1, <2>1, <2>2, <2>3, ReplyEffect
<1>4. CASE m.cmd = "image"
  <2>1. Replies(m.cmd) = {<<Image(0)>>} \cup {Blocks(n) : n \in 1 .. MaxBlocks}
    BY <1>4 DEF Replies
  <2>2. Image(0) # Closed
    BY DEF Closed, Image
  <2>3. \A n \in 1 .. MaxBlocks : Blocks(n) # <<Image(0)>> /\ Blocks(n) # <<Closed>>
    <3>1. TAKE n \in 1 .. MaxBlocks
    <3>2. Len(Blocks(n)) = n + 1 /\ n + 1 # 1 /\ Len(<<Image(0)>>) = 1 /\ Len(<<Closed>>) = 1
      BY BlockTypes, ChatAssumption
    <3>3. QED BY <3>2
  <2>4. CASE Reply(c, <<Image(0)>> \o late) /\ missing' = missing \cup {c}
    BY <1>0, <1>1, <2>1, <2>2, <2>4, ReplyEffect
  <2>5. ASSUME NEW n \in 1 .. MaxBlocks, Reply(c, Blocks(n) \o late), UNCHANGED missing
        PROVE  Replied(c, m) /\ toClient' \in [Clients -> Seq(Pieces)]
    BY <1>0, <1>1, <2>1, <2>3, <2>5, ReplyEffect
  <2>6. QED BY <1>4, <2>4, <2>5 DEF Serve
<1>5. CASE m.cmd = "peer"
  <2>1. Replies(m.cmd) = {<<Address("addr", u, a)>> : u \in Users, a \in Users}
    BY <1>5 DEF Replies
  <2>2. PICK a \in Users : Reply(c, <<Address("addr", m.me, a)>> \o late) /\ UNCHANGED missing
    BY <1>0, <1>5 DEF Serve, Users
  <2>3. /\ Address("addr", m.me, a) # Closed /\ Address("addr", m.me, a) # Image(0)
        /\ <<Address("addr", m.me, a)>> \in Replies(m.cmd)
    BY <1>0, <2>1 DEF Address, Closed, Image
  <2>4. QED BY <1>0, <1>1, <2>2, <2>3, ReplyEffect
<1>6. CASE m.cmd \in {"ndt", "dig"}
  <2> DEFINE Pre(d) == IF d = m.to /\ d \in online
                       THEN IF m.cmd = "ndt" THEN <<Chat>> ELSE <<Address("dig", m.me, d)>>
                       ELSE <<>>
             Own == IF m.cmd = "ndt" THEN <<Ack>> ELSE <<>>
  <2>1. \A d \in Clients : Pre(d) \in Passed(d) /\ (Pre(d) # <<>> => m.to = d /\ d \in online)
    BY <1>0 DEF Passed
  <2>2. Own \in Replies(m.cmd) /\ Own # <<Image(0)>> /\ Own # <<Closed>>
    BY <1>6 DEF Replies, Ack, Image, Closed
  <2>3. \A d \in Clients : Pre(d) \in Seq(Pieces)
    BY <2>1, SentTypes, ChatAssumption
  <2>4. Own \in Seq(Pieces)
    BY <1>0, <2>2, SentTypes, ChatAssumption
  <2>5. Own \o late \in Seq(Pieces)
    BY <1>2, <2>4, ConcatProperties
  <2>6. \A d \in Clients : toClient[d] \o Pre(d) \in Seq(Pieces)
    BY <1>0, <2>3, ConcatProperties
  <2>7. \A d \in Clients : (toClient[d] \o Pre(d)) \o <<>> = toClient[d] \o Pre(d)
    BY <2>6, ConcatEmptySeq
  <2>8. <<>> \o late = late
    BY <1>2, ConcatEmptySeq
  <2>9. /\ UNCHANGED missing
        /\ toClient' = [d \in Clients |->
                         (toClient[d] \o Pre(d)) \o (IF d = c THEN Own \o late ELSE <<>>)]
    <3>1. CASE m.cmd = "ndt"
      BY <3>1 DEF Serve
    <3>2. CASE m.cmd = "dig"
      BY <2>8, <3>2 DEF Serve
    <3>3. QED BY <1>6, <3>1, <3>2
  <2> HIDE DEF Pre, Own
  <2>10. /\ \A d \in Clients \ {c} : toClient'[d] = toClient[d] \o Pre(d)
         /\ toClient'[c] = (toClient[c] \o Pre(c)) \o (Own \o late)
    BY <2>7, <2>9
  <2>11. (toClient[c] \o Pre(c)) \o (Own \o late) \in Seq(Pieces)
    BY <2>5, <2>6, ConcatProperties
  <2>12. \A d \in Clients : toClient'[d] \in Seq(Pieces)
    BY <2>6, <2>10, <2>11
  <2>13. toClient' \in [Clients -> Seq(Pieces)]
    BY <2>9, <2>12
  <2>14. \E pre \in Passed(c), r \in Replies(m.cmd), l \in Late :
           /\ toClient'[c] = (toClient[c] \o pre) \o (r \o l)
           /\ pre # <<>> => m.to = c /\ m.cmd \in {"ndt", "dig"}
           /\ r = <<Image(0)>> => c \in missing'
           /\ r = <<Closed>> => conn' = [conn EXCEPT ![c] = "mute"]
    BY <1>6, <2>1, <2>2, <2>10
  <2>15. \A d \in Clients \ {c} : \E pre \in Passed(d) :
           /\ toClient'[d] = toClient[d] \o pre
           /\ pre # <<>> => m.to = d /\ m.cmd \in {"ndt", "dig"} /\ d \in online
    BY <1>6, <2>1, <2>10
  <2>16. QED BY <1>0, <1>1, <2>9, <2>13, <2>14, <2>15 DEF Replied
<1>7. QED BY <1>0, <1>3, <1>4, <1>5, <1>6 DEF Commands

LEMMA AdmitEffect ==
  ASSUME ShapeInv, NEW c \in Clients, NEW m \in Contents, c \notin online, Admit(c, m)
  PROVE  Replied(c, m) /\ toClient' \in [Clients -> Seq(Pieces)]
<1>0. /\ toClient \in [Clients -> Seq(Pieces)] /\ online \subseteq Clients
      /\ missing \subseteq Clients /\ m.cmd \in Commands \cup {"dig"}
  BY ContentKinds DEF ShapeInv, NetTypes, GhostTypes
<1>1. /\ missing \subseteq missing' /\ missing' \subseteq Clients
      /\ m.cmd = "image" => c \in missing'
  BY <1>0 DEF Admit
<1>2. <<>> \in Late /\ \A r \in Messages : <<r>> \in Seq(Pieces) /\ <<r>> \o <<>> = <<r>>
  BY SentTypes, ConcatEmptySeq, ChatAssumption DEF Late
<1>3. CASE m.cmd = "login" /\ Reply(c, <<Plain>>) /\ UNCHANGED conn /\ online' = online \cup {c}
  <2>1. <<Plain>> \in Replies(m.cmd) /\ <<Plain>> # <<Closed>> /\ <<Plain>> # <<Image(0)>>
    BY <1>3 DEF Replies, Plain, Closed, Image
  <2>2. Reply(c, <<Plain>> \o <<>>)
    BY <1>2, <1>3, MessageKinds
  <2>3. QED BY <1>0, <1>1, <1>2, <1>3, <2>1, <2>2, ReplyEffect
<1>4. CASE m.cmd = "login" /\ Reply(c, <<Closed>>) /\ conn' = [conn EXCEPT ![c] = "mute"]
           /\ UNCHANGED online
  <2>1. <<Closed>> \in Replies(m.cmd) /\ <<Closed>> # <<Image(0)>>
    BY <1>4 DEF Replies, Closed, Image
  <2>2. Reply(c, <<Closed>> \o <<>>)
    BY <1>2, <1>4, MessageKinds
  <2>3. QED BY <1>0, <1>1, <1>2, <1>4, <2>1, <2>2, ReplyEffect
<1>5. CASE Reply(c, <<Refusal(m.cmd)>>) /\ UNCHANGED <<conn, online>>
  <2>1. /\ Refusal(m.cmd) \in Messages /\ <<Refusal(m.cmd)>> \in Replies(m.cmd)
        /\ <<Refusal(m.cmd)>> # <<Closed>>
        /\ <<Refusal(m.cmd)>> = <<Image(0)>> => m.cmd = "image"
    <3>0. /\ Address("addr", None, None) # Image(0) /\ Ack # Image(0) /\ Plain # Image(0)
          /\ Address("addr", None, None) # Closed /\ Ack # Closed /\ Plain # Closed
          /\ Image(0) # Closed /\ None \in Users
      BY DEF Address, Image, Ack, Plain, Closed, Users
    <3>1. CASE m.cmd \in {"login", "logout", "online"}
      BY <3>0, <3>1, MessageKinds DEF Refusal, Replies
    <3>2. CASE m.cmd = "image"
      <4>1. 0 \in 0 .. MaxBlocks
        BY ChatAssumption
      <4>2. QED BY <3>0, <3>2, <4>1, MessageKinds DEF Refusal, Replies
    <3>3. CASE m.cmd = "ndt"
      BY <3>0, <3>3, MessageKinds DEF Refusal, Replies
    <3>4. CASE m.cmd = "peer"
      <4>1. Refusal(m.cmd) = Address("addr", None, None)
        BY <3>4 DEF Refusal
      <4>2. Replies(m.cmd) = {<<Address("addr", u, a)>> : u \in Users, a \in Users}
        BY <3>4 DEF Replies
      <4>3. QED BY <3>0, <4>1, <4>2, MessageKinds
    <3>5. CASE m.cmd = "dig"
      BY <3>0, <3>5, MessageKinds DEF Refusal, Replies
    <3>6. QED BY <1>0, <3>1, <3>2, <3>3, <3>4, <3>5 DEF Commands
  <2>2. Reply(c, <<Refusal(m.cmd)>> \o <<>>)
    BY <1>2, <1>5, <2>1
  <2>3. QED BY <1>0, <1>1, <1>2, <1>5, <2>1, <2>2, ReplyEffect
<1>6. QED BY <1>3, <1>4, <1>5 DEF Admit

\* What a read of the server is taken for.
LEMMA ReadsTypes ==
  ASSUME NEW q, NEW n, NEW whole \in BOOLEAN, q[1] \in Orders
  PROVE  Reads(q, n, whole) \subseteq Orders /\ Rest \notin Contents
<1>1. \A k \in Commands \cup {"dig"} : Nameless(k) \in Contents
  BY ContentKinds DEF Nameless, Users
<1>2. q[1] # Rest => q[1] \in Contents /\ q[1].cmd \in Commands \cup {"dig"}
                     /\ Cleared(q[1]) \in Contents
  BY ContentKinds DEF Orders
<1>3. Reads(q, n, whole) \subseteq Orders
  BY <1>1, <1>2 DEF Reads, Orders
<1>4. ASSUME NEW m \in Contents
      PROVE  m # Rest
  <2>1. DOMAIN m = {"cmd", "me", "to"} /\ DOMAIN Rest = {"kind"}
    BY DEF Contents, Rest
  <2>2. QED BY <2>1
<1>5. QED BY <1>3, <1>4

LEMMA AnswerEffect ==
  ASSUME ShapeInv, NEW c \in Clients, Answer(c)
  PROVE  /\ toServer[c] # <<>> /\ conn[c] = "up"
         /\ toServer' \in [Clients -> Seq(Orders)] /\ toClient' \in [Clients -> Seq(Pieces)]
         /\ cuts' \in [Clients -> Nat]
         /\ \A d \in Clients \ {c} : toServer'[d] = toServer[d] /\ cuts'[d] = cuts[d]
         /\ cuts'[c] >= cuts[c]
         /\ \/ UNCHANGED <<conn, online, toClient, missing>>
            \/ \E m \in Contents : Replied(c, m)
<1>1. PICK n \in 1 .. MaxMerge, whole \in BOOLEAN :
        /\ n <= Len(toServer[c])
        /\ toServer' = [toServer EXCEPT ![c] = Left(@, n, whole)]
        /\ Border(c, whole)
        /\ \E m \in Reads(toServer[c], n, whole) :
             IF m = Rest THEN c \in online /\ UNCHANGED <<conn, online, toClient, missing>>
             ELSE IF c \in online THEN \E late \in {<<>>, <<Beat>>} : Serve(c, m, late)
             ELSE Admit(c, m)
  BY DEF Answer
<1>2. n \in Nat \ {0} /\ toServer \in [Clients -> Seq(Orders)]
      /\ toClient \in [Clients -> Seq(Pieces)]
  BY <1>1, ScriptTypes DEF ShapeInv, NetTypes
<1>3. toServer[c][1] \in Orders /\ Left(toServer[c], n, whole) \in Seq(Orders)
  <2>1. Rest \in Orders
    BY DEF Orders
  <2>2. QED BY <1>1, <1>2, <2>1, LeftTypes
<1>4. /\ toServer' \in [Clients -> Seq(Orders)]
      /\ \A d \in Clients \ {c} : toServer'[d] = toServer[d]
  BY <1>1, <1>2, <1>3
<1>5. /\ toClient' \in [Clients -> Seq(Pieces)]
      /\ \/ UNCHANGED <<conn, online, toClient, missing>>
         \/ \E m \in Contents : Replied(c, m)
  <2>1. PICK m \in Reads(toServer[c], n, whole) :
          IF m = Rest THEN c \in online /\ UNCHANGED <<conn, online, toClient, missing>>
          ELSE IF c \in online THEN \E late \in {<<>>, <<Beat>>} : Serve(c, m, late)
          ELSE Admit(c, m)
    BY <1>1
  <2>2. CASE m = Rest
    BY <1>2, <2>1, <2>2
  <2>3. ASSUME m # Rest
        PROVE  Replied(c, m) /\ toClient' \in [Clients -> Seq(Pieces)] /\ m \in Contents
    <3>1. m \in Contents
      BY <1>3, <2>3, ReadsTypes DEF Orders
    <3>2. CASE c \in online
      <4>1. PICK late \in Late : Serve(c, m, late)
        BY <2>1, <2>3, <3>2 DEF Late
      <4>2. QED BY <3>1, <3>2, <4>1, ServeEffect
    <3>3. CASE c \notin online
      BY <2>1, <2>3, <3>1, <3>3, AdmitEffect
    <3>4. QED BY <3>1, <3>2, <3>3
  <2>4. QED BY <2>2, <2>3
<1>6. /\ cuts' \in [Clients -> Nat] /\ \A d \in Clients \ {c} : cuts'[d] = cuts[d]
      /\ cuts'[c] >= cuts[c]
  <2>1. cuts[c] \in Nat
    BY DEF ShapeInv, GhostTypes
  <2>2. QED BY <1>1, <2>1, BorderTypes
<1>7. toServer[c] # <<>> /\ conn[c] = "up"
  BY DEF Answer
<1>8. QED BY <1>4, <1>5, <1>6, <1>7

\* The server, and a connection that breaks.
LEMMA ServerTypes ==
  ASSUME ShapeInv, NEW c \in Clients, Answer(c) \/ Drop(c)
  PROVE  ShapeInv'
<1> USE DEF ShapeInv, GhostTypes, CallInv, ghosts
<1>1. CASE Answer(c)
  <2>1. conn' \in [Clients -> Links]
    <3>1. conn' = conn \/ conn' = [conn EXCEPT ![c] = "mute"]
      BY <1>1, AnswerEffect DEF Replied
    <3>2. QED BY <3>1 DEF NetTypes, Links
  <2>2. NetTypes' /\ missing' \subseteq Clients /\ cuts' \in [Clients -> Nat]
    BY <1>1, <2>1, AnswerEffect DEF NetTypes, Replied
  <2>3. QED BY <1>1, <2>2 DEF Answer, ClientTypes
<1>2. CASE Drop(c)
  <2>1. conn' \in [Clients -> Links] /\ toServer' \in [Clients -> Seq(Orders)]
    <3>1. <<>> \in Seq(Orders)
      OBVIOUS
    <3>2. QED BY <1>2, <3>1 DEF Drop, NetTypes, Links
  <2>2. QED BY <1>2, <2>1 DEF Drop, NetTypes, ClientTypes
<1>3. QED BY <1>1, <1>2

LEMMA ShapeStep ==
  ASSUME ShapeInv, Next
  PROVE  ShapeInv'
BY MainTypes, ReceiverTypes, CallTypes, ServerTypes DEF Next, Receiver

LEMMA ShapeInit ==
  ASSUME Init
  PROVE  ShapeInv
<1> USE ChatAssumption
    DEF Init, NetTypes, ClientTypes, GhostTypes, CallInv, Links, States, Statuses, Mains,
        Receivers, Callers, Calling, Asking, Commands
<1>1. NetTypes
  <2>1. <<>> \in Seq(Pieces) /\ <<>> \in Seq(Orders)
    OBVIOUS
  <2>2. QED BY <2>1
<1>2. client \in [Clients -> States]
  OBVIOUS
<1>3. content \in [Clients -> Contents]
  BY ContentKinds DEF Users
<1>4. main \in [Clients -> Mains] /\ \A c \in Clients : main[c].typed = 0
  OBVIOUS
<1>5. rcv \in [Clients -> Receivers] /\ \A c \in Clients : rcv[c].pc = "unborn"
  <2>1. /\ Plain \in Sights /\ 0 \in 0 .. MAXRETRY - 1 /\ 0 \in 0 .. MaxBlocks
        /\ [cmd |-> "dig", me |-> None, to |-> None] \in Contents
    BY ContentKinds, MessageKinds DEF Users, Sights
  <2>2. QED BY <2>1
<1>6. p2p \in [Clients -> Callers]
  OBVIOUS
<1>7. \A c \in Clients : main[c].typed <= Len(script[c].types)
  <2>1. \A c \in Clients : Len(script[c].types) \in Nat
    BY LenProperties
  <2>2. QED BY <1>4, <2>1
<1>8. GhostTypes
  OBVIOUS
<1>9. QED BY <1>1, <1>2, <1>3, <1>4, <1>5, <1>6, <1>7, <1>8 DEF ShapeInv

-----------------------------------------------------------------------------
(* Tries of p2pMessage *)

\* The values that the sums are made of.
LEMMA Amounts ==
  ASSUME ShapeInv, NEW c \in Clients
  PROVE  /\ client[c].count \in Nat /\ p2p[c].socks \in Nat
         /\ p2p[c].socks <= MaxSocks /\ rcv[c].tries \in Nat /\ rcv[c].tries <= MAXRETRY - 1
         /\ MAXRETRY \in Nat /\ MaxSocks \in Nat
BY ScriptTypes DEF ShapeInv, ClientTypes, GhostTypes, States, Callers, Receivers

\* Outside p2pMessage and Send nothing is added to them.
OutOfCall(c) ==
  \/ Connecting(c) \/ Connected(c) \/ ConnectFails(c) \/ Type(c) \/ Quit(c)
  \/ Poll(c) \/ Mark(c) \/ Fill(c) \/ Copy(c)
  \/ StartReceiver(c) \/ Take(c) \/ TakeEnd(c) \/ Note(c)
  \/ ActPlain(c) \/ ActChat(c) \/ ActImage(c) \/ ActEnd(c) \/ ExitLost(c)
  \/ Loop(c) \/ Datagram(c) \/ Answer(c) \/ Drop(c)

LEMMA OutOfCallKeeps ==
  ASSUME ShapeInv, NEW c \in Clients, OutOfCall(c)
  PROVE  \A d \in Clients :
           /\ client'[d].count = client[d].count /\ p2p'[d].socks = p2p[d].socks
           /\ \/ rcv'[d] = rcv[d]
              \/ rcv[d].pc \notin Calling /\ rcv'[d].pc \notin Calling
<1>0. /\ client \in [Clients -> States] /\ p2p \in [Clients -> Callers]
      /\ rcv \in [Clients -> Receivers]
  BY DEF ShapeInv, ClientTypes
<1> USE DEF ghosts
<1>2. \/ client' = client \/ \E s : client' = [client EXCEPT ![c].status = s]
      \/ \E f : client' = [client EXCEPT ![c].flag = f]
  BY DEF OutOfCall, Connecting, Connected, ConnectFails, Type, Quit, Poll, Mark, Fill, Copy,
     StartReceiver, Take, TakeEnd, Note, ActPlain, ActChat, ActImage, ActEnd, ExitLost, Loop,
     Datagram, Answer, Drop, SetRecvState
<1>3. p2p' = p2p \/ \E k : p2p' = [p2p EXCEPT ![c].pc = k]
  BY DEF OutOfCall, Connecting, Connected, ConnectFails, Type, Quit, Poll, Mark, Fill, Copy,
     StartReceiver, Take, TakeEnd, Note, ActPlain, ActChat, ActImage, ActEnd, ExitLost, Loop,
     Datagram, Answer, Drop
<1>4. \/ rcv' = rcv
      \/ rcv[c].pc \notin Calling /\ rcv'[c].pc \notin Calling
         /\ \A d \in Clients \ {c} : rcv'[d] = rcv[d]
  <2>1. ASSUME NEW k \in {"recv", "note", "act", "exit"}, RcvTo(c, k)
        PROVE  rcv'[c].pc \notin Calling /\ \A d \in Clients \ {c} : rcv'[d] = rcv[d]
    BY <2>1, Moved DEF Calling, Asking
  <2>2. ASSUME NEW m \in Sights, rcv' = [rcv EXCEPT ![c].pc = "note", ![c].msg = m]
        PROVE  rcv'[c].pc \notin Calling /\ \A d \in Clients \ {c} : rcv'[d] = rcv[d]
    <3>1. rcv'[c].pc = "note" /\ \A d \in Clients \ {c} : rcv'[d] = rcv[d]
      BY <2>2, NotedTypes
    <3>2. QED BY <3>1 DEF Calling, Asking
  <2>3. CASE StartReceiver(c) \/ Note(c) \/ ActPlain(c) \/ ActChat(c) \/ ActEnd(c)
    <3>1. rcv[c].pc \notin Calling /\ \E k \in {"recv", "act", "exit"} : RcvTo(c, k)
      BY <2>3 DEF StartReceiver, Note, ActPlain, ActChat, ActEnd, Receives, Calling, Asking
    <3>2. QED BY <2>1, <3>1
  <2>4. CASE Take(c)
    <3>1. rcv[c].pc \notin Calling
      BY <2>4 DEF Take, Receives, Calling, Asking
    <3>2. QED BY <2>2, <2>4, <3>1, TakeEffect
  <2>5. CASE TakeEnd(c)
    <3>1. rcv[c].pc \notin Calling
      BY <2>5 DEF TakeEnd, Receives, Calling, Asking
    <3>2. QED BY <2>2, <2>5, <3>1, MessageKinds DEF TakeEnd, Sights
  <2>6. CASE ActImage(c)
    <3>1. rcv[c].pc \notin Calling
      BY <2>6 DEF ActImage, Receives, Calling, Asking
    <3>2. CASE RcvTo(c, "recv")
      BY <2>1, <3>1, <3>2
    <3>3. CASE rcv' = [rcv EXCEPT ![c].pc = "recv", ![c].fw = rcv[c].msg.len]
      <4>1. rcv'[c].pc = "recv" /\ \A d \in Clients \ {c} : rcv'[d] = rcv[d]
        BY <1>0, <3>3 DEF Receivers
      <4>2. QED BY <3>1, <4>1 DEF Calling, Asking
    <3>4. QED BY <2>6, <3>2, <3>3 DEF ActImage
  <2>7. CASE ~ (\/ StartReceiver(c) \/ Take(c) \/ TakeEnd(c) \/ Note(c)
                \/ ActPlain(c) \/ ActChat(c) \/ ActImage(c) \/ ActEnd(c))
    BY <2>7 DEF OutOfCall, Connecting, Connected, ConnectFails, Type, Quit, Poll, Mark, Fill,
       Copy, ExitLost, Loop, Datagram, Answer, Drop
  <2>8. QED BY <2>3, <2>4, <2>5, <2>6, <2>7
<1>5. \A d \in Clients : client'[d].count = client[d].count
  BY <1>0, <1>2 DEF States
<1>6. \A d \in Clients : p2p'[d].socks = p2p[d].socks
  BY <1>0, <1>3 DEF Callers
<1>7. QED BY <1>4, <1>5, <1>6

\* The steps of p2pMessage, and Send: what they change of the sums.
LEMMA CallKeeps ==
  ASSUME ShapeInv, NEW c \in Clients,
         \/ P2PStart(c) \/ AskFill(c) \/ AskCopy(c) \/ AskSend(c) \/ Try(c) \/ Await(c)
         \/ Send(c)
  PROVE  \A d \in Clients \ {c} :
           /\ client'[d] = client[d] /\ p2p'[d] = p2p[d] /\ rcv'[d] = rcv[d]
           /\ main'[d] = main[d] /\ content'[d] = content[d]
<1> USE DEF ghosts
<1>0. /\ client \in [Clients -> States] /\ p2p \in [Clients -> Callers]
      /\ rcv \in [Clients -> Receivers]
      /\ main \in [Clients -> Mains] /\ content \in [Clients -> Contents]
  BY DEF ShapeInv, ClientTypes
<1>1. CASE P2PStart(c)
  BY <1>0, <1>1 DEF P2PStart, SetRecvState, RcvTo
<1>2. CASE AskFill(c) \/ AskCopy(c)
  BY <1>0, <1>2 DEF AskFill, AskCopy, RcvTo
<1>3. CASE AskSend(c) \/ Send(c)
  BY <1>0, <1>3 DEF AskSend, Send, RcvTo, MainTo, Exit
<1>4. CASE Try(c)
  BY <1>0, <1>4 DEF Try, RcvTo
<1>5. CASE Await(c)
  BY <1>0, <1>5 DEF Await, RcvTo, SetRecvState
<1>6. QED BY <1>1, <1>2, <1>3, <1>4, <1>5

LEMMA NextSplits ==
  ASSUME Next
  PROVE  \E c \in Clients :
           \/ OutOfCall(c)
           \/ P2PStart(c) \/ AskFill(c) \/ AskCopy(c) \/ AskSend(c) \/ Try(c) \/ Await(c)
           \/ Send(c)
BY DEF Next, MainStep, Receiver, OutOfCall

LEMMA CountStep ==
  ASSUME ShapeInv, CountInv, Next
  PROVE  CountInv'
<1>0. ShapeInv'
  BY ShapeStep
<1>1. PICK c \in Clients :
         \/ OutOfCall(c)
         \/ P2PStart(c) \/ AskFill(c) \/ AskCopy(c) \/ AskSend(c) \/ Try(c) \/ Await(c)
         \/ Send(c)
  BY NextSplits
<1>2. CASE OutOfCall(c)
  <2>1. \A d \in Clients : TriesToCome(d)' = TriesToCome(d)
    BY <1>2, OutOfCallKeeps DEF TriesToCome, Calling, Asking
  <2>2. QED BY <1>2, <2>1, OutOfCallKeeps DEF CountInv
<1>3. CASE ~ OutOfCall(c)
  <2>1. \A d \in Clients \ {c} : client'[d].count + TriesToCome(d)' <= MAXRETRY * p2p'[d].socks
    BY <1>1, <1>3, CallKeeps DEF TriesToCome, CountInv
  <2>2. /\ client[c].count + TriesToCome(c) <= MAXRETRY * p2p[c].socks
        /\ client[c].count \in Nat /\ p2p[c].socks \in Nat /\ rcv[c].tries \in Nat
        /\ rcv[c].tries <= MAXRETRY - 1 /\ MAXRETRY \in Nat
        /\ client \in [Clients -> States] /\ p2p \in [Clients -> Callers]
        /\ rcv \in [Clients -> Receivers]
    BY Amounts DEF CountInv, ShapeInv, ClientTypes
  <2>3. client'[c].count + TriesToCome(c)' <= MAXRETRY * p2p'[c].socks
    <3>1. CASE P2PStart(c)
      <4>1. rcv[c].pc = "act" /\ TriesToCome(c) = 0
        BY <3>1 DEF P2PStart, Receives, TriesToCome, Asking
      <4>2. CASE /\ SetRecvState(c, "p2p") /\ RcvTo(c, "recv")
                 /\ p2p' = [p2p EXCEPT ![c].socks = IF Free(c) THEN @ + 1 ELSE @]
        <5>1. client'[c].count = client[c].count /\ rcv'[c].pc = "recv"
          BY <2>2, <4>2, Moved DEF SetRecvState, States, Calling, Asking
        <5>2. TriesToCome(c)' = 0
          BY <5>1 DEF TriesToCome, Asking
        <5>3. p2p'[c].socks \in {p2p[c].socks, p2p[c].socks + 1}
          BY <2>2, <4>2 DEF Callers
        <5>4. MAXRETRY * (p2p[c].socks + 1) = MAXRETRY * p2p[c].socks + MAXRETRY
          BY <2>2
        <5>5. MAXRETRY * p2p[c].socks \in Nat
          BY <2>2
        <5>6. client[c].count <= MAXRETRY * p2p[c].socks
          BY <2>2, <4>1
        <5>7. CASE p2p'[c].socks = p2p[c].socks
          BY <2>2, <5>1, <5>2, <5>6, <5>7
        <5>8. CASE p2p'[c].socks = p2p[c].socks + 1
          BY <2>2, <5>1, <5>2, <5>4, <5>5, <5>6, <5>8
        <5>9. QED BY <5>3, <5>7, <5>8
      <4>3. CASE /\ p2p' = [p2p EXCEPT ![c].socks = @ + 1] /\ UNCHANGED client
                 /\ \E k \in {"try", "askfill"} : \E g :
                      rcv' = [rcv EXCEPT ![c].tries = 0, ![c].pc = k, ![c].dig = g]
        <5>1. /\ p2p'[c].socks = p2p[c].socks + 1
              /\ rcv'[c].tries = 0 /\ rcv'[c].pc \in {"try", "askfill"}
          BY <2>2, <4>3 DEF Callers, Receivers
        <5>2. TriesToCome(c)' = MAXRETRY
          BY <2>2, <5>1 DEF TriesToCome, Asking
        <5>3. MAXRETRY * (p2p[c].socks + 1) = MAXRETRY * p2p[c].socks + MAXRETRY
          BY <2>2
        <5>4. MAXRETRY * p2p[c].socks \in Nat
          BY <2>2
        <5>5. QED BY <2>2, <4>1, <4>3, <5>1, <5>2, <5>3, <5>4
      <4>4. QED BY <3>1, <4>2, <4>3 DEF P2PStart
    <3>2. CASE AskFill(c) \/ AskCopy(c) \/ AskSend(c)
      <4>1. /\ client' = client /\ p2p' = p2p /\ rcv[c].pc \in Asking
            /\ \E k \in {"askcopy", "asksend", "try"} : RcvTo(c, k)
        BY <3>2 DEF AskFill, AskCopy, AskSend, Receives, Asking
      <4>2. rcv'[c].tries = rcv[c].tries /\ rcv'[c].pc \in {"askcopy", "asksend", "try"}
        BY <4>1, Moved DEF Calling, Asking
      <4>3. TriesToCome(c) = MAXRETRY /\ TriesToCome(c)' \in {MAXRETRY, MAXRETRY - rcv[c].tries}
        BY <4>1, <4>2 DEF TriesToCome, Asking
      <4>4. MAXRETRY * p2p[c].socks \in Nat
        BY <2>2
      <4>5. QED BY <2>2, <4>1, <4>3, <4>4
    <3>3. CASE Try(c)
      <4>1. rcv[c].pc = "try" /\ TriesToCome(c) = MAXRETRY - rcv[c].tries
        BY <3>3 DEF Try, Receives, TriesToCome, Asking
      <4>2. MAXRETRY * p2p[c].socks \in Nat
        BY <2>2
      <4>3. CASE /\ RcvTo(c, "await") /\ client' = [client EXCEPT ![c].count = @ + 1]
                 /\ p2p' = p2p \/ p2p' = [p2p EXCEPT ![c].pc = "loop", ![c].frame = TRUE]
        <5>1. rcv'[c].pc = "await" /\ rcv'[c].tries = rcv[c].tries
          BY <4>1, <4>3, Moved DEF Calling, Asking
        <5>2. p2p'[c].socks = p2p[c].socks /\ client'[c].count = client[c].count + 1
          BY <2>2, <4>3 DEF Callers, States
        <5>3. TriesToCome(c)' = MAXRETRY - rcv[c].tries - 1
          BY <5>1 DEF TriesToCome, Asking
        <5>4. QED BY <2>2, <4>1, <4>2, <5>2, <5>3
      <4>4. CASE /\ RcvTo(c, "recv") /\ UNCHANGED client
                 /\ p2p' = [p2p EXCEPT ![c].frame = FALSE]
        <5>1. TriesToCome(c)' = 0
          BY <4>4, Moved DEF TriesToCome, Calling, Asking
        <5>2. p2p'[c].socks = p2p[c].socks
          BY <2>2, <4>4 DEF Callers
        <5>3. QED BY <2>2, <4>1, <4>2, <4>4, <5>1, <5>2
      <4>5. QED BY <3>3, <4>3, <4>4 DEF Try
    <3>4. CASE Await(c)
      <4>1. p2p'[c].socks = p2p[c].socks /\ client'[c].count = client[c].count
        BY <2>2, <3>4 DEF Await, Callers, States, SetRecvState
      <4>2. rcv[c].pc = "await" /\ TriesToCome(c) = MAXRETRY - rcv[c].tries - 1
        BY <3>4 DEF Await, Receives, TriesToCome, Asking
      <4>3. TriesToCome(c)' \in {0, MAXRETRY - (rcv[c].tries + 1)}
        <5>1. CASE RcvTo(c, "recv")
          BY <5>1, Moved DEF TriesToCome, Calling, Asking
        <5>2. CASE rcv' = [rcv EXCEPT ![c].pc = "try", ![c].tries = @ + 1]
          <6>1. rcv'[c].pc = "try" /\ rcv'[c].tries = rcv[c].tries + 1
            BY <2>2, <5>2 DEF Receivers
          <6>2. QED BY <6>1 DEF TriesToCome, Asking
        <5>3. QED BY <3>4, <5>1, <5>2 DEF Await
      <4>4. MAXRETRY * p2p[c].socks \in Nat
        BY <2>2
      <4>5. QED BY <2>2, <4>1, <4>2, <4>3, <4>4
    <3>5. CASE Send(c)
      BY <2>2, <3>5 DEF Send, TriesToCome
    <3>6. QED BY <1>1, <1>3, <3>1, <3>2, <3>3, <3>4, <3>5
  <2>4. QED BY <2>1, <2>3 DEF CountInv
<1>4. QED BY <1>2, <1>3

LEMMA InitInv ==
  ASSUME Init
  PROVE  Inv
<1>1. ShapeInv
  BY ShapeInit
<1>2. \A c \in Clients : client[c].count = 0 /\ p2p[c].socks = 0 /\ rcv[c].pc = "unborn"
  BY DEF Init
<1>3. \A c \in Clients : TriesToCome(c) = 0
  BY <1>2 DEF TriesToCome, Asking
<1>4. MAXRETRY * 0 = 0
  BY ChatAssumption
<1>5. CountInv
  BY <1>2, <1>3, <1>4 DEF CountInv
<1>6. QED BY <1>1, <1>5 DEF Inv

LEMMA StutterInv ==
  ASSUME Inv, UNCHANGED vars
  PROVE  Inv'
BY DEF Inv, ShapeInv, NetTypes, ClientTypes, GhostTypes, CallInv, CountInv, TriesToCome,
   vars, net, ghosts

\* The shared records, the queues and the locals of all threads keep their types, and
\* the tries stay within what the sockets opened so far allow.
THEOREM Invariance == Spec => []Inv
<1>1. Init => Inv
  BY InitInv
<1>2. Inv /\ [Next]_vars => Inv'
  BY ShapeStep, CountStep, StutterInv DEF Inv
<1>3. QED BY <1>1, <1>2, PTL DEF Spec

-----------------------------------------------------------------------------
(* Turns: what is under way *)

Images(q) == {i \in DOMAIN q : q[i].kind = "image"}
InHand(c) == rcv[c].pc \in {"note", "act"} /\ rcv[c].msg.kind = "image"
Held(c) == IF InHand(c) THEN rcv[c].msg.len ELSE rcv[c].fw

\* The last image in q has the length of the one before it, which is h if it is the first.
LastTwice(q, h) ==
  \A i \in Images(q) : (\A j \in Images(q) : j <= i) =>
    \/ (\A j \in Images(q) : j = i) /\ q[i].len = h
    \/ \E j \in Images(q) : /\ j < i /\ q[j].len = q[i].len
                            /\ \A k \in Images(q) : k <= j \/ i <= k

\* While no read has ended within a message, the streams consist of whole ones, and the
\* receiving thread has a whole one in hand.
Unbroken(c) ==
  toServer[c] \in Seq(Contents) /\ toClient[c] \in Seq(Messages) /\ rcv[c].msg \in Messages
\* Without a socket there has been no call of p2pMessage.
SocksInv(c) ==
  p2p[c].socks = 0 =>
    /\ rcv[c].pc \notin Calling /\ content[c].cmd # "dig"
    /\ \A i \in DOMAIN toServer[c] : toServer[c][i].cmd # "dig"
\* Before there is a connection nothing has used up the turn.
EarlyInv(c) ==
  conn[c] \in {"none", "connecting"} =>
    /\ rcv[c].pc = "unborn"
    /\ main[c].pc = "poll" => client[c].status # "err"
\* An image that has begun to arrive ends with a length that comes twice.
ImageInv(c) ==
  Alive(c) /\ ~ Excepted(c) =>
    /\ LastTwice(toClient[c], Held(c))
    /\ Images(toClient[c]) = {} /\ InHand(c) => rcv[c].msg.len = rcv[c].fw
Owed(c) ==
  \/ toServer[c] # <<>> \/ Pending(c) # {}
  \/ rcv[c].pc = "note"
  \/ rcv[c].pc = "act" /\ rcv[c].msg.kind \in {"chat", "ack", "image"}
OwedInv(c) ==
  At(c, "poll") /\ client[c].status = "err" /\ conn[c] = "up" /\ ~ Excepted(c) => Owed(c)

LostInv ==
  \A c \in Clients : cuts[c] = 0 =>
    Unbroken(c) /\ SocksInv(c) /\ EarlyInv(c) /\ ImageInv(c) /\ OwedInv(c)

-----------------------------------------------------------------------------
(* Turns: a client that is alone *)

\* Who types nothing is not there.
AbsentInv ==
  \A c \in Clients : script[c].types = <<>> => main[c].pc = "ended" /\ conn[c] = "none"

Waiting(c) == main[c].pc = "poll" /\ client[c].status = "err"
Sending == {"fill", "copy", "send"}
Asks == {"mark"} \cup Sending
ImageTyped(c) == \E i \in 1 .. main[c].typed : script[c].types[i] = "image"

\* The receiving thread has nothing in hand that sets the status; a heartbeat at most is
\* on its way.
Resting(c) ==
  \/ rcv[c].pc \in {"unborn", "recv", "exit"}
  \/ rcv[c].pc = "act" /\ rcv[c].msg.kind \in {"plain", "e8", "end"}
Ended(c) == rcv[c].pc = "note" /\ rcv[c].msg = End /\ conn[c] = "lost"
Quiet(q) == Len(q) <= 1 /\ \A i \in 1 .. Len(q) : q[i] = Beat

\* After the first k messages, a single reply, or the blocks of an image of n blocks
\* without the first p; and a heartbeat at most.
ReplyFrom(q, k) ==
  /\ Len(q) \in {k + 1, k + 2} /\ q[k + 1] \in {Plain, Closed, Ack}
  /\ Len(q) = k + 2 => q[k + 2] = Beat
BlocksFrom(q, k, n, p) ==
  /\ Len(q) \in {k + n + 1 - p, k + n + 2 - p}
  /\ \A i \in 1 .. n + 1 - p : q[k + i] = Image(IF p + i <= n THEN p + i ELSE n)
  /\ Len(q) = k + n + 2 - p => q[Len(q)] = Beat

Idle(c) == toServer[c] = <<>> /\ Quiet(toClient[c]) /\ (Resting(c) \/ Ended(c))
Asked(c) ==
  /\ Waiting(c) /\ Resting(c) /\ conn[c] = "up" /\ Quiet(toClient[c])
  /\ Len(toServer[c]) = 1
  /\ toServer[c][1].cmd = "image" => rcv[c].fw = 0 /\ ImageTyped(c)
Answered(c) ==
  /\ Waiting(c) /\ Resting(c) /\ toServer[c] = <<>>
  /\ \E k \in {0, 1} :
       /\ k = 1 => toClient[c][1] = Beat
       /\ \/ ReplyFrom(toClient[c], k)
          \/ /\ ImageTyped(c)
             /\ \E n \in 0 .. MaxBlocks : \E p \in 0 .. n :
                  BlocksFrom(toClient[c], k, n, p) /\ rcv[c].fw = p
HoldsReply(c) ==
  /\ Waiting(c) /\ toServer[c] = <<>> /\ Quiet(toClient[c])
  /\ \/ rcv[c].pc = "note" /\ rcv[c].msg \in {Plain, Closed, Ack}
     \/ rcv[c].pc = "act" /\ rcv[c].msg = Ack
HoldsBlock(c) ==
  /\ Waiting(c) /\ toServer[c] = <<>> /\ rcv[c].pc \in {"note", "act"} /\ ImageTyped(c)
  /\ \E n \in 0 .. MaxBlocks : \E p \in 0 .. n :
       /\ BlocksFrom(toClient[c], 0, n, p + 1)
       /\ rcv[c].msg = Image(IF p + 1 <= n THEN p + 1 ELSE n) /\ rcv[c].fw = p

Stage(c) == Idle(c) \/ Asked(c) \/ Answered(c) \/ HoldsReply(c) \/ HoldsBlock(c)

\* What the main thread has in mind, and what it has sent.
IntentInv(c) ==
  /\ p2p[c].socks = 0 /\ main[c].received # "ndt" /\ client[c].status # "ndt"
  /\ main[c].pc \in Asks => /\ main[c].typed > 0
                            /\ main[c].cmd = script[c].types[main[c].typed]
                            /\ main[c].cmd = "image" => rcv[c].fw = 0
  /\ main[c].pc \in Sending /\ conn[c] # "lost" => client[c].status = "err"
  /\ main[c].pc = "send" => content[c] = [cmd |-> main[c].cmd, me |-> c, to |-> script[c].peer]
  /\ ~ ImageTyped(c) => rcv[c].fw = 0
  /\ \A i \in 1 .. Len(toServer[c]) :
       /\ toServer[c][i].to = script[c].peer
       /\ \E j \in 1 .. main[c].typed : toServer[c][i].cmd = script[c].types[j]

AloneInv ==
  \A c \in Clients : Alone(c) /\ Alive(c) /\ cuts[c] = 0 => IntentInv(c) /\ Stage(c)

TurnInv == LostInv /\ AbsentInv /\ AloneInv

-----------------------------------------------------------------------------
(* What a step of a client, or of its connection, changes for that client *)

Kept(c) ==
  /\ script' = script /\ cuts'[c] = cuts[c]
  /\ p2p'[c].socks = p2p[c].socks /\ (c \in missing' <=> c \in missing)
SameMind(c) ==
  /\ main'[c].cmd = main[c].cmd /\ main'[c].typed = main[c].typed
  /\ main'[c].received = main[c].received
SameMain(c) == main'[c] = main[c] /\ content'[c] = content[c]
SameStatus(c) == client'[c].status = client[c].status
SameQueues(c) == toServer'[c] = toServer[c] /\ toClient'[c] = toClient[c]
SameNet(c) == conn'[c] = conn[c] /\ SameQueues(c)
\* The receiving thread goes to k; nothing else of it.
Goes(c, k) ==
  /\ rcv'[c].pc = k /\ rcv'[c].msg = rcv[c].msg /\ rcv'[c].fw = rcv[c].fw
  /\ SameMain(c) /\ Kept(c)
\* The process ends.
Ends(c) ==
  /\ main'[c].pc = "ended" /\ conn'[c] = "lost" /\ toServer'[c] = <<>> /\ toClient'[c] = <<>>
  /\ content'[c] = content[c] /\ Kept(c)

LEMMA ExitEffect ==
  ASSUME ShapeInv, NEW c \in Clients, Exit(c)
  PROVE  /\ main'[c].pc = "ended" /\ conn'[c] = "lost" /\ toServer'[c] = <<>>
         /\ toClient'[c] = <<>>
BY DEF ShapeInv, NetTypes, ClientTypes, Mains, Exit, MainTo

\* The network, and the thread that receives datagrams.
LEMMA ConnectEffect ==
  ASSUME ShapeInv, NEW c \in Clients, Connecting(c) \/ Connected(c)
  PROVE  /\ \/ conn[c] = "none" /\ conn'[c] = "connecting"
            \/ conn[c] = "connecting" /\ conn'[c] = "up"
         /\ Alive(c) /\ SameQueues(c) /\ SameMain(c) /\ rcv'[c] = rcv[c] /\ SameStatus(c)
         /\ Kept(c)
<1> USE DEF Kept, SameMain, SameMind, SameStatus, SameQueues, SameNet, ghosts, net
<1>0. conn \in [Clients -> Links]
  BY DEF ShapeInv, NetTypes
<1>1. CASE Connecting(c)
  BY <1>0, <1>1 DEF Connecting
<1>2. CASE Connected(c)
  BY <1>0, <1>2 DEF Connected
<1>3. QED BY <1>1, <1>2

LEMMA DropEffect ==
  ASSUME ShapeInv, NEW c \in Clients, Drop(c)
  PROVE  /\ conn[c] \in {"up", "mute"} /\ conn'[c] = "lost"
         /\ toServer'[c] = <<>> /\ toClient'[c] = toClient[c]
         /\ SameMain(c) /\ rcv'[c] = rcv[c] /\ SameStatus(c) /\ Kept(c)
BY DEF ShapeInv, NetTypes, Drop, Kept, SameMain, SameStatus, ghosts

LEMMA DatagramEffect ==
  ASSUME ShapeInv, NEW c \in Clients, Loop(c) \/ Datagram(c)
  PROVE  /\ Alive(c) /\ SameNet(c) /\ SameMain(c) /\ rcv'[c] = rcv[c] /\ SameStatus(c)
         /\ Kept(c)
<1> USE DEF Kept, SameMain, SameMind, SameStatus, SameQueues, SameNet, ghosts, net
<1>0. client \in [Clients -> States] /\ p2p \in [Clients -> Callers]
  BY DEF ShapeInv, ClientTypes
<1>1. CASE Loop(c)
  BY <1>0, <1>1 DEF Loop, Callers
<1>2. CASE Datagram(c)
  <2>1. client'[c].status = client[c].status
    BY <1>0, <1>2 DEF Datagram, States
  <2>2. p2p'[c].socks = p2p[c].socks
    BY <1>0, <1>2 DEF Datagram, Callers
  <2>3. QED BY <1>2, <2>1, <2>2 DEF Datagram
<1>3. QED BY <1>1, <1>2

\* The main thread.
LEMMA MindKept ==
  ASSUME ShapeInv, NEW c \in Clients, NEW k, MainTo(c, k)
  PROVE  main'[c].pc = k /\ SameMind(c)
BY DEF ShapeInv, ClientTypes, MainTo, Mains, SameMind

LEMMA EndsEffect ==
  ASSUME ShapeInv, NEW c \in Clients, Exit(c), UNCHANGED <<script, content, p2p, ghosts>>
  PROVE  Ends(c)
BY ExitEffect DEF Ends, Kept, ghosts

LEMMA PollEffect ==
  ASSUME ShapeInv, NEW c \in Clients, Poll(c)
  PROVE  \/ Ends(c) /\ rcv'[c] = rcv[c]
         \/ /\ main[c].pc = "poll" /\ client[c].status # "err"
            /\ main'[c].pc = "prompt" /\ main'[c].received = client[c].status
            /\ main'[c].typed = main[c].typed /\ content'[c] = content[c]
            /\ rcv'[c] = rcv[c] /\ SameNet(c) /\ SameStatus(c) /\ Kept(c)
<1> USE DEF Kept, SameMain, SameMind, SameStatus, SameQueues, SameNet, ghosts, net
<1>1. CASE Exit(c)
  BY <1>1, EndsEffect DEF Poll
<1>2. CASE /\ main' = [main EXCEPT ![c].pc = "prompt", ![c].received = client[c].status]
           /\ client[c].status # "err" /\ UNCHANGED net
  <2>1. /\ main'[c].pc = "prompt" /\ main'[c].received = client[c].status
        /\ main'[c].typed = main[c].typed
    BY <1>2 DEF ShapeInv, ClientTypes, Mains
  <2>2. QED BY <1>2, <2>1 DEF Poll, At
<1>3. QED BY <1>1, <1>2 DEF Poll

LEMMA TypeEffect ==
  ASSUME ShapeInv, NEW c \in Clients, Type(c)
  PROVE  /\ main[c].pc = "prompt" /\ main[c].typed < Len(script[c].types)
         /\ main'[c].pc = "mark" /\ main'[c].typed = main[c].typed + 1
         /\ main'[c].cmd = IF main[c].received = "ndt" THEN "ndt"
                           ELSE script[c].types[main[c].typed + 1]
         /\ main'[c].received = main[c].received /\ content'[c] = content[c]
         /\ rcv'[c] = rcv[c] /\ SameNet(c) /\ SameStatus(c) /\ Kept(c)
<1> USE DEF Kept, SameMain, SameMind, SameStatus, SameQueues, SameNet, ghosts, net
<1>1. PICK k : /\ main' = [main EXCEPT ![c].pc = "mark", ![c].typed = @ + 1, ![c].cmd = k]
               /\ k = IF main[c].received = "ndt" THEN "ndt"
                      ELSE script[c].types[main[c].typed + 1]
  BY DEF Type
<1>2. /\ main'[c].pc = "mark" /\ main'[c].typed = main[c].typed + 1
      /\ main'[c].cmd = k /\ main'[c].received = main[c].received
  BY <1>1 DEF ShapeInv, ClientTypes, Mains
<1>3. QED BY <1>1, <1>2 DEF Type, At

LEMMA MarkEffect ==
  ASSUME ShapeInv, NEW c \in Clients, Mark(c)
  PROVE  /\ main[c].pc = "mark" /\ main'[c].pc = "fill" /\ SameMind(c)
         /\ client'[c].status = "err" /\ content'[c] = content[c]
         /\ rcv'[c] = rcv[c] /\ SameNet(c) /\ Kept(c)
<1>1. main'[c].pc = "fill" /\ SameMind(c)
  BY MindKept DEF Mark
<1>2. client'[c].status = "err"
  BY DEF Mark, SetRecvState, States, ShapeInv, ClientTypes
<1>3. QED BY <1>1, <1>2 DEF Mark, At, Kept, SameNet, SameQueues, net, ghosts

LEMMA FillEffect ==
  ASSUME ShapeInv, NEW c \in Clients, Fill(c)
  PROVE  \/ Ends(c) /\ rcv'[c] = rcv[c]
         \/ /\ main[c].pc = "fill" /\ main'[c].pc = "copy" /\ SameMind(c)
            /\ content'[c] = Cleared(content[c])
            /\ rcv'[c] = rcv[c] /\ SameNet(c) /\ SameStatus(c) /\ Kept(c)
<1>1. CASE Exit(c) /\ UNCHANGED content
  BY <1>1, EndsEffect DEF Fill, ghosts
<1>2. CASE /\ MainTo(c, "copy") /\ UNCHANGED net
           /\ content' = [content EXCEPT ![c] = Cleared(@)]
  <2>1. main'[c].pc = "copy" /\ SameMind(c)
    BY <1>2, MindKept
  <2>2. content'[c] = Cleared(content[c])
    BY <1>2 DEF ShapeInv, ClientTypes
  <2>3. QED BY <1>2, <2>1, <2>2 DEF Fill, At, Kept, SameNet, SameQueues, SameStatus, net, ghosts
<1>3. QED BY <1>1, <1>2 DEF Fill

LEMMA CopyEffect ==
  ASSUME ShapeInv, NEW c \in Clients, Copy(c)
  PROVE  /\ main[c].pc = "copy" /\ main'[c].pc = "send" /\ SameMind(c)
         /\ content'[c] = [cmd |-> main[c].cmd, me |-> c, to |-> script[c].peer]
         /\ rcv'[c] = rcv[c] /\ SameNet(c) /\ SameStatus(c) /\ Kept(c)
<1>1. main'[c].pc = "send" /\ SameMind(c)
  BY MindKept DEF Copy
<1>2. content'[c] = [cmd |-> main[c].cmd, me |-> c, to |-> script[c].peer]
  BY DEF Copy, ShapeInv, ClientTypes
<1>3. QED BY <1>1, <1>2 DEF Copy, At, Kept, SameNet, SameQueues, SameStatus, net, ghosts

LEMMA SendEffect ==
  ASSUME ShapeInv, NEW c \in Clients, Send(c)
  PROVE  \/ Ends(c) /\ rcv'[c] = rcv[c]
         \/ /\ main[c].pc = "send" /\ main'[c].pc = "poll" /\ SameMind(c)
            /\ conn[c] \in {"up", "mute", "lost"} /\ conn'[c] = conn[c]
            /\ toServer'[c] = IF conn[c] = "up" THEN Append(toServer[c], content[c])
                              ELSE toServer[c]
            /\ toClient'[c] = toClient[c] /\ content'[c] = content[c]
            /\ rcv'[c] = rcv[c] /\ SameStatus(c) /\ Kept(c)
<1>1. CASE Exit(c)
  BY <1>1, EndsEffect DEF Send
<1>2. CASE /\ conn[c] \in {"up", "mute", "lost"} /\ Transmit(c) /\ MainTo(c, "poll")
           /\ UNCHANGED <<conn, online, toClient>>
  <2>1. main'[c].pc = "poll" /\ SameMind(c)
    BY <1>2, MindKept
  <2>2. toServer'[c] = IF conn[c] = "up" THEN Append(toServer[c], content[c]) ELSE toServer[c]
    BY <1>2 DEF Transmit, ShapeInv, NetTypes
  <2>3. QED BY <1>2, <2>1, <2>2 DEF Send, At, Kept, SameStatus, ghosts
<1>3. QED BY <1>1, <1>2 DEF Send

LEMMA LeaveEffect ==
  ASSUME ShapeInv, NEW c \in Clients, Quit(c) \/ ConnectFails(c) \/ ExitLost(c)
  PROVE  Ends(c) /\ rcv'[c] = rcv[c]
BY EndsEffect DEF Quit, ConnectFails, ExitLost, ghosts

\* The receiving thread.
LEMMA StartEffect ==
  ASSUME ShapeInv, NEW c \in Clients, StartReceiver(c)
  PROVE  /\ Alive(c) /\ rcv[c].pc = "unborn" /\ conn[c] \notin {"none", "connecting"}
         /\ Goes(c, "recv") /\ SameNet(c) /\ SameStatus(c)
<1>1. RcvTo(c, "recv") /\ rcv[c].pc \notin Calling
  BY DEF StartReceiver, Receives, Calling, Asking
<1>2. /\ rcv'[c].pc = "recv" /\ rcv'[c].msg = rcv[c].msg /\ rcv'[c].fw = rcv[c].fw
  BY <1>1, Moved DEF Calling, Asking
<1>3. client'[c].status = client[c].status
  BY DEF StartReceiver, ShapeInv, ClientTypes, States
<1>4. QED BY <1>2, <1>3 DEF StartReceiver, Receives, Goes, Kept, SameMain, SameNet, SameQueues,
          SameStatus, net, ghosts

\* A read of whole messages.
LEMMA TakenEffect ==
  ASSUME ShapeInv, NEW c \in Clients, Take(c), cuts'[c] = 0, Unbroken(c)
  PROVE  /\ Alive(c) /\ rcv[c].pc = "recv" /\ SameMain(c) /\ SameStatus(c) /\ Kept(c)
         /\ conn'[c] = conn[c] /\ toServer'[c] = toServer[c] /\ rcv'[c].fw = rcv[c].fw
         /\ Unbroken(c)'
         /\ \E n \in Nat \ {0} :
              /\ n <= Len(toClient[c])
              /\ n > 1 => \A i \in 1 .. n : toClient[c][i].kind # "image"
              /\ toClient'[c] = SubSeq(toClient[c], n + 1, Len(toClient[c]))
              /\ \/ n = 1 /\ toClient[c][1] = Beat /\ rcv'[c] = rcv[c]
                 \/ /\ rcv'[c].pc = "note"
                    /\ IF toClient[c][1] = Beat THEN n > 1 /\ rcv'[c].msg = Plain
                       ELSE rcv'[c].msg = toClient[c][1]
<1>1. PICK n \in 1 .. MaxMerge, whole \in BOOLEAN :
         /\ Returns(toClient[c], n, whole)
         /\ toClient' = [toClient EXCEPT ![c] = Left(@, n, whole)]
         /\ Border(c, whole)
         /\ \E m \in Looks(toClient[c], n, whole) :
              IF m = Beat /\ n = 1 /\ whole THEN UNCHANGED rcv
              ELSE rcv' = [rcv EXCEPT ![c].pc = "note", ![c].msg = IF m = Beat THEN Plain ELSE m]
  BY DEF Take
<1>2. /\ n \in Nat \ {0} /\ n <= Len(toClient[c]) /\ cuts[c] \in Nat
      /\ toClient[c] \in Seq(Messages) /\ toClient \in [Clients -> Seq(Pieces)]
  BY <1>1, ScriptTypes DEF Returns, Unbroken, ShapeInv, GhostTypes, NetTypes
<1>3. whole /\ cuts'[c] = cuts[c]
  <2>1. ~ whole => cuts'[c] = cuts[c] + 1
    BY <1>1, BorderTypes
  <2>2. whole => cuts'[c] = cuts[c]
    BY <1>1, BorderTypes
  <2>3. QED BY <1>2, <2>1, <2>2
<1>4. /\ toClient'[c] = SubSeq(toClient[c], n + 1, Len(toClient[c]))
      /\ toClient'[c] \in Seq(Messages) /\ toClient[c][1] \in Messages
  <2>1. toClient'[c] = Left(toClient[c], n, TRUE)
    BY <1>1, <1>2, <1>3
  <2>2. ASSUME NEW q \in Seq(Messages), n <= Len(q)
        PROVE  /\ Left(q, n, TRUE) = SubSeq(q, n + 1, Len(q))
               /\ SubSeq(q, n + 1, Len(q)) \in Seq(Messages) /\ q[1] \in Messages
    BY <1>2, <2>2, LeftWhole, Taken
  <2>3. QED BY <1>2, <2>1, <2>2
<1>5. n > 1 => \A i \in 1 .. n : toClient[c][i].kind # "image"
  BY <1>1, <1>3 DEF Returns
<1>6. Looks(toClient[c], n, whole) = {toClient[c][1]}
  BY <1>3, <1>4, SightKinds DEF Looks
<1>7. \/ n = 1 /\ toClient[c][1] = Beat /\ rcv'[c] = rcv[c]
      \/ /\ rcv'[c].pc = "note" /\ rcv'[c].fw = rcv[c].fw
         /\ IF toClient[c][1] = Beat THEN n > 1 /\ rcv'[c].msg = Plain
            ELSE rcv'[c].msg = toClient[c][1]
  <2> DEFINE m == IF toClient[c][1] = Beat THEN Plain ELSE toClient[c][1]
  <2>1. IF toClient[c][1] = Beat /\ n = 1 THEN UNCHANGED rcv
        ELSE rcv' = [rcv EXCEPT ![c].pc = "note", ![c].msg = m]
    BY <1>1, <1>3, <1>6
  <2>2. m \in Sights
    BY <1>4, MessageKinds DEF Sights
  <2>3. CASE toClient[c][1] = Beat /\ n = 1
    BY <2>1, <2>3
  <2>4. CASE ~ (toClient[c][1] = Beat /\ n = 1)
    <3>1. rcv' = [rcv EXCEPT ![c].pc = "note", ![c].msg = m]
      BY <2>1, <2>4
    <3> HIDE DEF m
    <3>2. rcv'[c].pc = "note" /\ rcv'[c].msg = m /\ rcv'[c].fw = rcv[c].fw
      BY <2>2, <3>1, NotedTypes
    <3>3. QED BY <1>2, <2>4, <3>2 DEF m
  <2>5. QED BY <2>3, <2>4
<1>8. rcv'[c].fw = rcv[c].fw
  BY <1>7
<1>9. /\ Alive(c) /\ rcv[c].pc = "recv" /\ SameMain(c) /\ SameStatus(c) /\ Kept(c)
      /\ conn'[c] = conn[c] /\ toServer'[c] = toServer[c]
  BY <1>3 DEF Take, Receives, SameMain, SameStatus, Kept
<1>10. Unbroken(c)'
  <2>1. rcv'[c].msg \in Messages
    BY <1>4, <1>7, MessageKinds DEF Unbroken
  <2>2. QED BY <1>4, <1>9, <2>1 DEF Unbroken
<1>11. QED BY <1>2, <1>4, <1>5, <1>7, <1>8, <1>9, <1>10

LEMMA TakeEndEffect ==
  ASSUME ShapeInv, NEW c \in Clients, TakeEnd(c)
  PROVE  /\ Alive(c) /\ rcv[c].pc = "recv" /\ conn[c] = "lost" /\ toClient[c] = <<>>
         /\ rcv'[c].pc = "note" /\ rcv'[c].msg = End /\ rcv'[c].fw = rcv[c].fw
         /\ SameMain(c) /\ SameNet(c) /\ SameStatus(c) /\ Kept(c)
<1>1. rcv'[c].pc = "note" /\ rcv'[c].msg = End /\ rcv'[c].fw = rcv[c].fw
  <2>1. rcv' = [rcv EXCEPT ![c].pc = "note", ![c].msg = End] /\ End \in Sights
    BY MessageKinds DEF TakeEnd, Sights
  <2>2. QED BY <2>1, NotedTypes
<1>2. QED BY <1>1 DEF TakeEnd, Receives, SameMain, SameNet, SameQueues, SameStatus, Kept, net,
          ghosts

\* A status that is set, and one that is left.
LEMMA StatusSet ==
  ASSUME ShapeInv, NEW c \in Clients, NEW k, SetRecvState(c, k)
  PROVE  client'[c].status = k
BY DEF ShapeInv, ClientTypes, States, SetRecvState

LEMMA NoteEffect ==
  ASSUME ShapeInv, NEW c \in Clients, Note(c)
  PROVE  /\ Alive(c) /\ rcv[c].pc = "note" /\ Goes(c, "act") /\ SameNet(c)
         /\ client'[c].status = IF rcv[c].msg.kind \in {"chat", "ack", "image"} THEN "err"
                                ELSE "tcp"
<1>1. RcvTo(c, "act") /\ rcv[c].pc \notin Calling
  BY DEF Note, Receives, Calling, Asking
<1>2. rcv'[c].pc = "act" /\ rcv'[c].msg = rcv[c].msg /\ rcv'[c].fw = rcv[c].fw
  BY <1>1, Moved DEF Calling, Asking
<1>3. client'[c].status = IF rcv[c].msg.kind \in {"chat", "ack", "image"} THEN "err" ELSE "tcp"
  BY StatusSet DEF Note
<1>4. QED BY <1>2, <1>3 DEF Note, Receives, Goes, Kept, SameMain, SameNet, SameQueues, net, ghosts

LEMMA ActPlainEffect ==
  ASSUME ShapeInv, NEW c \in Clients, ActPlain(c)
  PROVE  /\ Alive(c) /\ rcv[c].pc = "act" /\ rcv[c].msg.kind \in {"plain", "addr", "dig"}
         /\ Goes(c, "recv") /\ SameNet(c) /\ SameStatus(c)
<1>1. RcvTo(c, "recv") /\ rcv[c].pc \notin Calling
  BY DEF ActPlain, Receives, Calling, Asking
<1>2. rcv'[c].pc = "recv" /\ rcv'[c].msg = rcv[c].msg /\ rcv'[c].fw = rcv[c].fw
  BY <1>1, Moved DEF Calling, Asking
<1>3. QED BY <1>2 DEF ActPlain, Receives, Goes, Kept, SameMain, SameNet, SameQueues, SameStatus,
          net, ghosts

LEMMA ActChatEffect ==
  ASSUME ShapeInv, NEW c \in Clients, ActChat(c)
  PROVE  /\ Alive(c) /\ rcv[c].pc = "act" /\ rcv[c].msg.kind \in {"chat", "ack"}
         /\ Goes(c, "recv") /\ SameNet(c)
         /\ client'[c].status = IF rcv[c].msg.kind = "chat" THEN "ndt" ELSE "tcp"
<1>1. RcvTo(c, "recv") /\ rcv[c].pc \notin Calling
  BY DEF ActChat, Receives, Calling, Asking
<1>2. rcv'[c].pc = "recv" /\ rcv'[c].msg = rcv[c].msg /\ rcv'[c].fw = rcv[c].fw
  BY <1>1, Moved DEF Calling, Asking
<1>3. client'[c].status = IF rcv[c].msg.kind = "chat" THEN "ndt" ELSE "tcp"
  BY StatusSet DEF ActChat
<1>4. QED BY <1>2, <1>3 DEF ActChat, Receives, Goes, Kept, SameMain, SameNet, SameQueues, net,
          ghosts

LEMMA ActImageEffect ==
  ASSUME ShapeInv, NEW c \in Clients, ActImage(c)
  PROVE  /\ Alive(c) /\ rcv[c].pc = "act" /\ rcv[c].msg.kind \in {"image", "stray"}
         /\ rcv'[c].pc = "recv" /\ rcv'[c].msg = rcv[c].msg
         /\ rcv'[c].fw = IF Free(c) THEN rcv[c].msg.len ELSE rcv[c].fw
         /\ client'[c].status = IF Free(c) /\ rcv[c].fw = rcv[c].msg.len
                                THEN "scc" ELSE client[c].status
         /\ SameMain(c) /\ SameNet(c) /\ Kept(c)
<1>1. /\ rcv'[c].pc = "recv" /\ rcv'[c].msg = rcv[c].msg
      /\ rcv'[c].fw = IF Free(c) THEN rcv[c].msg.len ELSE rcv[c].fw
  <2>1. CASE Free(c)
    <3>1. rcv' = [rcv EXCEPT ![c].pc = "recv", ![c].fw = rcv[c].msg.len]
      BY <2>1 DEF ActImage
    <3>2. QED BY <2>1, <3>1 DEF ShapeInv, ClientTypes, Receivers
  <2>2. CASE ~ Free(c)
    <3>1. RcvTo(c, "recv") /\ rcv[c].pc \notin Calling
      BY <2>2 DEF ActImage, Receives, Calling, Asking
    <3>2. QED BY <2>2, <3>1, Moved DEF Calling, Asking
  <2>3. QED BY <2>1, <2>2
<1>2. client'[c].status = IF Free(c) /\ rcv[c].fw = rcv[c].msg.len
                          THEN "scc" ELSE client[c].status
  BY StatusSet DEF ActImage
<1>3. QED BY <1>1, <1>2 DEF ActImage, Receives, Kept, SameMain, SameNet, SameQueues, net, ghosts

LEMMA ActEndEffect ==
  ASSUME ShapeInv, NEW c \in Clients, ActEnd(c)
  PROVE  /\ Alive(c) /\ rcv[c].pc = "act" /\ rcv[c].msg.kind \in {"e8", "end"}
         /\ Goes(c, "exit") /\ SameNet(c) /\ SameStatus(c)
<1>1. RcvTo(c, "exit") /\ rcv[c].pc \notin Calling
  BY DEF ActEnd, Receives, Calling, Asking
<1>2. rcv'[c].pc = "exit" /\ rcv'[c].msg = rcv[c].msg /\ rcv'[c].fw = rcv[c].fw
  BY <1>1, Moved DEF Calling, Asking
<1>3. client'[c].status = client[c].status
  <2>1. PICK f : client' = [client EXCEPT ![c].flag = f]
    BY DEF ActEnd
  <2>2. QED BY <2>1 DEF ShapeInv, ClientTypes, States
<1>4. QED BY <1>2, <1>3 DEF ActEnd, Receives, Goes, Kept, SameMain, SameNet, SameQueues,
          SameStatus, net, ghosts

\* p2pMessage: there is a socket after each of its steps, if there was one before those
\* that follow the first.
LEMMA CallEffect ==
  ASSUME ShapeInv, NEW c \in Clients,
         P2PStart(c) \/ AskFill(c) \/ AskCopy(c) \/ AskSend(c) \/ Try(c) \/ Await(c)
  PROVE  /\ \/ rcv[c].pc \in Calling /\ p2p'[c].socks = p2p[c].socks
            \/ /\ rcv[c].pc = "act" /\ rcv[c].msg.kind \in {"addr", "dig"}
               /\ p2p'[c].socks # 0
         /\ conn'[c] \in {conn[c], "lost"} /\ script' = script /\ UNCHANGED ghosts
         /\ main'[c] = main[c] \/ main'[c].pc = "ended"
         /\ rcv'[c].msg = rcv[c].msg /\ toClient'[c] \in {toClient[c], <<>>}
         /\ toServer'[c] \in {toServer[c], <<>>, Append(toServer[c], content[c])}
<1> USE DEF net, ghosts
<1>0. /\ p2p \in [Clients -> Callers] /\ script[c].socks \in Nat \ {0}
      /\ p2p[c].socks \in Nat /\ conn \in [Clients -> Links]
      /\ rcv \in [Clients -> Receivers] /\ toServer \in [Clients -> Seq(Orders)]
      /\ toClient \in [Clients -> Seq(Pieces)]
  BY ScriptTypes DEF ShapeInv, ClientTypes, NetTypes, Callers
<1>1. CASE P2PStart(c)
  <2>1. p2p'[c].socks # 0
    <3>2. CASE p2p' = [p2p EXCEPT ![c].socks = @ + 1]
      <4>1. p2p'[c].socks = p2p[c].socks + 1
        BY <1>0, <3>2 DEF Callers
      <4>2. QED BY <1>0, <4>1
    <3>3. CASE ~ Free(c) /\ p2p' = [p2p EXCEPT ![c].socks = @]
      BY <1>0, <3>3 DEF Free, Callers
    <3>4. QED BY <1>1, <3>2, <3>3 DEF P2PStart
  <2>2. rcv'[c].msg = rcv[c].msg
    BY <1>0, <1>1 DEF P2PStart, RcvTo, Receivers
  <2>3. QED BY <1>1, <2>1, <2>2 DEF P2PStart, Receives
<1>2. CASE AskFill(c) \/ AskCopy(c)
  <2>1. rcv'[c].msg = rcv[c].msg
    BY <1>0, <1>2 DEF AskFill, AskCopy, RcvTo, Receivers
  <2>2. QED BY <1>2, <2>1 DEF AskFill, AskCopy, Receives, Calling, Asking
<1>3. CASE AskSend(c)
  <2>1. rcv'[c].msg = rcv[c].msg
    BY <1>0, <1>3 DEF AskSend, RcvTo, Receivers
  <2>2. CASE Exit(c)
    BY <1>3, <2>1, <2>2, ExitEffect DEF AskSend, Receives, Calling, Asking
  <2>3. CASE Transmit(c) /\ UNCHANGED <<conn, online, toClient, main>>
    <3>1. toServer'[c] \in {toServer[c], Append(toServer[c], content[c])}
      BY <1>0, <2>3 DEF Transmit
    <3>2. QED BY <1>3, <2>1, <2>3, <3>1 DEF AskSend, Receives, Calling, Asking
  <2>4. QED BY <1>3, <2>2, <2>3 DEF AskSend
<1>4. CASE Try(c)
  <2>1. p2p'[c].socks = p2p[c].socks
    BY <1>0, <1>4 DEF Try, Callers
  <2>2. rcv'[c].msg = rcv[c].msg
    BY <1>0, <1>4 DEF Try, RcvTo, Receivers
  <2>3. QED BY <1>4, <2>1, <2>2 DEF Try, Receives, Calling
<1>5. CASE Await(c)
  <2>1. p2p'[c].socks = p2p[c].socks
    BY <1>0, <1>5 DEF Await, Callers
  <2>2. rcv'[c].msg = rcv[c].msg
    BY <1>0, <1>5 DEF Await, RcvTo, Receivers
  <2>3. QED BY <1>5, <2>1, <2>2 DEF Await, Receives, Calling
<1>6. QED BY <1>1, <1>2, <1>3, <1>4, <1>5

\* The server: an answer to the first command, and perhaps another's message before it.
LEMMA AnsweredEffect ==
  ASSUME ShapeInv, NEW c \in Clients, Answer(c), cuts'[c] = 0, Unbroken(c)
  PROVE  /\ conn[c] = "up" /\ toServer[c] # <<>> /\ toServer[c][1] \in Contents
         /\ Replied(c, toServer[c][1])
         /\ \E n \in Nat \ {0} : /\ n <= Len(toServer[c])
                                 /\ toServer'[c] = SubSeq(toServer[c], n + 1, Len(toServer[c]))
         /\ SameMain(c) /\ rcv'[c] = rcv[c] /\ SameStatus(c)
         /\ script' = script /\ p2p'[c].socks = p2p[c].socks /\ cuts'[c] = cuts[c]
<1>1. PICK n \in 1 .. MaxMerge, whole \in BOOLEAN :
        /\ n <= Len(toServer[c])
        /\ toServer' = [toServer EXCEPT ![c] = Left(@, n, whole)]
        /\ Border(c, whole)
        /\ \E m \in Reads(toServer[c], n, whole) :
             IF m = Rest THEN c \in online /\ UNCHANGED <<conn, online, toClient, missing>>
             ELSE IF c \in online THEN \E late \in {<<>>, <<Beat>>} : Serve(c, m, late)
             ELSE Admit(c, m)
  BY DEF Answer
<1>2. /\ n \in Nat \ {0} /\ cuts[c] \in Nat
      /\ toServer[c] \in Seq(Contents) /\ toServer \in [Clients -> Seq(Orders)]
  BY <1>1, ScriptTypes DEF Unbroken, ShapeInv, GhostTypes, NetTypes
<1>3. whole /\ cuts'[c] = cuts[c]
  <2>1. ~ whole => cuts'[c] = cuts[c] + 1
    BY <1>1, BorderTypes
  <2>2. whole => cuts'[c] = cuts[c]
    BY <1>1, BorderTypes
  <2>3. QED BY <1>2, <2>1, <2>2
<1>4. /\ toServer'[c] = SubSeq(toServer[c], n + 1, Len(toServer[c]))
      /\ toServer[c][1] \in Contents
  <2>1. toServer'[c] = Left(toServer[c], n, TRUE)
    BY <1>1, <1>2, <1>3
  <2>2. QED BY <1>1, <1>2, <2>1, LeftWhole, Taken
<1>5. toServer[c][1] # Rest /\ Reads(toServer[c], n, whole) = {toServer[c][1]}
  BY <1>3, <1>4, ReadsTypes DEF Reads, Orders
<1>6. Replied(c, toServer[c][1])
  <2>1. CASE c \in online
    <3>1. PICK late \in Late : Serve(c, toServer[c][1], late)
      BY <1>1, <1>5, <2>1 DEF Late
    <3>2. QED BY <1>4, <2>1, <3>1, ServeEffect
  <2>2. CASE c \notin online
    <3>1. Admit(c, toServer[c][1])
      BY <1>1, <1>5, <2>2
    <3>2. QED BY <1>4, <2>2, <3>1, AdmitEffect
  <2>3. QED BY <2>1, <2>2
<1>7. /\ SameMain(c) /\ rcv'[c] = rcv[c] /\ SameStatus(c)
      /\ script' = script /\ p2p'[c].socks = p2p[c].socks
      /\ conn[c] = "up" /\ toServer[c] # <<>>
  BY DEF Answer, SameMain, SameStatus
<1>8. QED BY <1>1, <1>2, <1>3, <1>4, <1>6, <1>7

-----------------------------------------------------------------------------
(* What a step of another client changes for a client *)

Untouched(c) ==
  /\ SameMain(c) /\ rcv'[c] = rcv[c] /\ SameStatus(c) /\ SameNet(c) /\ Kept(c)

LEMMA ExitElsewhere ==
  ASSUME ShapeInv, NEW c \in Clients, NEW e \in Clients \ {c}, Exit(e),
         UNCHANGED <<script, content, ghosts, client, p2p>>, rcv'[c] = rcv[c]
  PROVE  Untouched(c)
BY DEF Exit, MainTo, Untouched, SameMain, SameStatus, SameNet, SameQueues, Kept, ShapeInv,
   ClientTypes, NetTypes, ghosts

\* But for what the server passes on.
LEMMA ElsewhereEffect ==
  ASSUME ShapeInv, NEW c \in Clients, NEW e \in Clients \ {c},
         \/ OutOfCall(e) /\ ~ Answer(e)
         \/ P2PStart(e) \/ AskFill(e) \/ AskCopy(e) \/ AskSend(e) \/ Try(e) \/ Await(e)
         \/ Send(e)
  PROVE  Untouched(c)
<1> USE DEF Untouched, SameMain, SameStatus, SameNet, SameQueues, Kept, net, ghosts
<1>0. /\ client \in [Clients -> States] /\ main \in [Clients -> Mains]
      /\ p2p \in [Clients -> Callers] /\ content \in [Clients -> Contents]
      /\ rcv \in [Clients -> Receivers]
      /\ conn \in [Clients -> Links] /\ toServer \in [Clients -> Seq(Orders)]
      /\ toClient \in [Clients -> Seq(Pieces)]
  BY DEF ShapeInv, ClientTypes, NetTypes
<1>1. CASE ConnectFails(e) \/ Quit(e) \/ ExitLost(e)
  BY <1>1, ExitElsewhere DEF ConnectFails, Quit, ExitLost
<1>2. CASE Connecting(e) \/ Connected(e) \/ Drop(e)
  BY <1>0, <1>2 DEF Connecting, Connected, Drop
<1>3. CASE Poll(e)
  <2>1. CASE Exit(e)
    BY <1>3, <2>1, ExitElsewhere DEF Poll
  <2>2. CASE /\ main' = [main EXCEPT ![e].pc = "prompt", ![e].received = client[e].status]
             /\ UNCHANGED net
    BY <1>0, <1>3, <2>2 DEF Poll
  <2>3. QED BY <1>3, <2>1, <2>2 DEF Poll
<1>4. CASE Fill(e)
  <2>1. CASE Exit(e) /\ UNCHANGED content
    BY <1>4, <2>1, ExitElsewhere DEF Fill
  <2>2. CASE /\ MainTo(e, "copy") /\ UNCHANGED net
             /\ content' = [content EXCEPT ![e] = Cleared(@)]
    BY <1>0, <1>4, <2>2 DEF Fill, MainTo
  <2>3. QED BY <1>4, <2>1, <2>2 DEF Fill
<1>5. CASE Type(e) \/ Mark(e) \/ Copy(e)
  BY <1>0, <1>5 DEF Type, Mark, Copy, MainTo, SetRecvState
<1>6. CASE StartReceiver(e) \/ TakeEnd(e) \/ Note(e)
  BY <1>0, <1>6 DEF StartReceiver, TakeEnd, Note, RcvTo, SetRecvState
<1>7. CASE Take(e)
  <2>1. /\ toClient'[c] = toClient[c] /\ cuts'[c] = cuts[c]
        /\ \/ UNCHANGED rcv
           \/ \E m \in Sights : rcv' = [rcv EXCEPT ![e].pc = "note", ![e].msg = m]
    BY <1>7, TakeEffect
  <2>2. rcv'[c] = rcv[c]
    BY <1>0, <2>1
  <2>3. QED BY <1>7, <2>1, <2>2 DEF Take
<1>8. CASE ActPlain(e) \/ ActChat(e) \/ ActImage(e)
  BY <1>0, <1>8 DEF ActPlain, ActChat, ActImage, RcvTo, SetRecvState
<1>9. CASE ActEnd(e)
  BY <1>0, <1>9 DEF ActEnd, RcvTo
<1>10. CASE Loop(e) \/ Datagram(e)
  BY <1>0, <1>10 DEF Loop, Datagram
<1>11. CASE P2PStart(e) \/ AskFill(e) \/ AskCopy(e) \/ Try(e) \/ Await(e)
  <2>1. /\ client'[c] = client[c] /\ p2p'[c] = p2p[c] /\ rcv'[c] = rcv[c]
        /\ main'[c] = main[c] /\ content'[c] = content[c]
    BY <1>11, CallKeeps
  <2>2. QED BY <1>11, <2>1 DEF P2PStart, AskFill, AskCopy, Try, Await
<1>12. CASE AskSend(e) \/ Send(e)
  <2>1. /\ client'[c] = client[c] /\ p2p'[c] = p2p[c] /\ rcv'[c] = rcv[c]
        /\ main'[c] = main[c] /\ content'[c] = content[c]
    BY <1>12, CallKeeps
  <2>2. /\ script' = script /\ UNCHANGED ghosts
        /\ Exit(e) \/ (Transmit(e) /\ UNCHANGED <<conn, online, toClient>>)
    BY <1>12 DEF AskSend, Send
  <2>3. conn'[c] = conn[c] /\ toServer'[c] = toServer[c] /\ toClient'[c] = toClient[c]
    BY <1>0, <2>2 DEF Exit, Transmit
  <2>4. QED BY <2>1, <2>2, <2>3
<1>13. QED BY <1>1, <1>2, <1>3, <1>4, <1>5, <1>6, <1>7, <1>8, <1>9, <1>10, <1>11, <1>12
           DEF OutOfCall

LEMMA PassedEffect ==
  ASSUME ShapeInv, NEW c \in Clients, NEW e \in Clients \ {c}, Answer(e)
  PROVE  /\ SameMain(c) /\ rcv'[c] = rcv[c] /\ SameStatus(c) /\ script' = script
         /\ p2p'[c].socks = p2p[c].socks /\ (c \in missing => c \in missing')
         /\ conn'[c] = conn[c] /\ toServer'[c] = toServer[c] /\ cuts'[c] = cuts[c]
         /\ \E pre \in Passed(c) : toClient'[c] = toClient[c] \o pre
<1>1. /\ \/ UNCHANGED <<conn, online, toClient, missing>> \/ \E m \in Contents : Replied(e, m)
      /\ toServer'[c] = toServer[c] /\ cuts'[c] = cuts[c]
  BY AnswerEffect
<1>2. CASE UNCHANGED <<conn, online, toClient, missing>>
  <2>1. <<>> \in Passed(c) /\ toClient[c] \o <<>> = toClient[c]
    BY ConcatEmptySeq DEF Passed, ShapeInv, NetTypes
  <2>2. QED BY <1>1, <1>2, <2>1 DEF Answer, SameMain, SameStatus
<1>3. ASSUME NEW m \in Contents, Replied(e, m)
      PROVE  /\ conn'[c] = conn[c] /\ missing \subseteq missing'
             /\ \E pre \in Passed(c) : toClient'[c] = toClient[c] \o pre
  <2>1. /\ conn' = conn \/ conn' = [conn EXCEPT ![e] = "mute"]
        /\ missing \subseteq missing'
        /\ \E pre \in Passed(c) : toClient'[c] = toClient[c] \o pre
    BY <1>3 DEF Replied
  <2>2. QED BY <2>1 DEF ShapeInv, NetTypes
<1>4. QED BY <1>1, <1>2, <1>3 DEF Answer, SameMain, SameStatus

-----------------------------------------------------------------------------
(* Images in a queue *)

LEMMA Joined ==
  ASSUME NEW q \in Seq(Messages), NEW s \in Seq(Messages)
  PROVE  /\ q \o s \in Seq(Messages) /\ Len(q \o s) = Len(q) + Len(s)
         /\ \A i \in 1 .. Len(q) + Len(s) :
              (q \o s)[i] = IF i <= Len(q) THEN q[i] ELSE s[i - Len(q)]
BY ConcatProperties

\* A queue t that q becomes when its first n messages are taken.
LEMMA ImagesTaken ==
  ASSUME NEW q \in Seq(Messages), NEW n \in Nat \ {0}, n <= Len(q)
  PROVE  LET t == SubSeq(q, n + 1, Len(q))
         IN
         /\ t \in Seq(Messages) /\ Len(t) = Len(q) - n
         /\ \A i \in Images(t) : i \in Nat \ {0} /\ n + i \in Images(q) /\ t[i] = q[n + i]
         /\ \A j \in Images(q) : /\ j \in 1 .. Len(q)
                                 /\ j > n => j - n \in Images(t) /\ t[j - n] = q[j]
<1> DEFINE t == SubSeq(q, n + 1, Len(q))
<1>1. /\ t \in Seq(Messages) /\ Len(t) = Len(q) - n
      /\ \A k \in 1 .. Len(q) - n : t[k] = q[n + k]
  BY Taken
<1> HIDE DEF t
<1>2. Len(q) \in Nat /\ DOMAIN q = 1 .. Len(q) /\ DOMAIN t = 1 .. Len(q) - n
  BY <1>1, LenProperties
<1>3. ASSUME NEW i \in Images(t)
      PROVE  i \in Nat \ {0} /\ n + i \in Images(q) /\ t[i] = q[n + i]
  <2>1. i \in 1 .. Len(q) - n /\ t[i].kind = "image"
    BY <1>2 DEF Images
  <2>2. n + i \in 1 .. Len(q) /\ t[i] = q[n + i]
    <3>1. t[i] = q[n + i]
      BY <1>1, <2>1
    <3>2. n + i \in 1 .. Len(q)
      BY <1>2, <2>1
    <3>3. QED BY <3>1, <3>2
  <2>3. QED BY <1>2, <2>1, <2>2 DEF Images
<1>4. ASSUME NEW j \in Images(q), j > n
      PROVE  j - n \in Images(t) /\ t[j - n] = q[j]
  <2>1. j - n \in 1 .. Len(q) - n /\ n + (j - n) = j
    BY <1>2, <1>4 DEF Images
  <2>2. QED BY <1>1, <1>2, <1>4, <2>1 DEF Images
<1>5. \A j \in Images(q) : j \in 1 .. Len(q)
  BY <1>2 DEF Images
<1>6. QED BY <1>1, <1>3, <1>4, <1>5 DEF t

LEMMA ImagesStay ==
  ASSUME NEW q \in Seq(Messages), NEW n \in Nat \ {0}, n <= Len(q), NEW h,
         \A i \in 1 .. n : q[i].kind # "image", LastTwice(q, h)
  PROVE  /\ LastTwice(SubSeq(q, n + 1, Len(q)), h)
         /\ Images(SubSeq(q, n + 1, Len(q))) = {} => Images(q) = {}
<1> DEFINE t == SubSeq(q, n + 1, Len(q))
<1>1. /\ \A i \in Images(t) : i \in Nat \ {0} /\ n + i \in Images(q) /\ t[i] = q[n + i]
      /\ \A j \in Images(q) : /\ j \in 1 .. Len(q)
                              /\ j > n => j - n \in Images(t) /\ t[j - n] = q[j]
  BY ImagesTaken
<1> HIDE DEF t
<1>2. \A j \in Images(q) : j \in Nat /\ j > n /\ j - n \in Images(t) /\ t[j - n] = q[j]
  BY <1>1 DEF Images
<1>3. ASSUME NEW i \in Images(t), \A j \in Images(t) : j <= i
      PROVE  \/ (\A j \in Images(t) : j = i) /\ t[i].len = h
             \/ \E j \in Images(t) : /\ j < i /\ t[j].len = t[i].len
                                     /\ \A k \in Images(t) : k <= j \/ i <= k
  <2>1. i \in Nat /\ n + i \in Images(q) /\ t[i] = q[n + i]
    BY <1>1
  <2>2. \A j \in Images(q) : j <= n + i
    BY <1>2, <1>3, <2>1
  <2>3. CASE (\A j \in Images(q) : j = n + i) /\ q[n + i].len = h
    BY <1>1, <2>1, <2>3
  <2>4. ASSUME NEW j \in Images(q), j < n + i, q[j].len = q[n + i].len,
               \A k \in Images(q) : k <= j \/ n + i <= k
        PROVE  \E l \in Images(t) : /\ l < i /\ t[l].len = t[i].len
                                    /\ \A k \in Images(t) : k <= l \/ i <= k
    <3>1. j - n \in Images(t) /\ j - n < i /\ t[j - n].len = t[i].len
      BY <1>2, <2>1, <2>4
    <3>2. ASSUME NEW k \in Images(t)
          PROVE  k <= j - n \/ i <= k
      <4>1. n + k \in Images(q) /\ k \in Nat /\ j \in Nat
        BY <1>1, <1>2
      <4>2. n + k <= j \/ n + i <= n + k
        BY <2>4, <4>1
      <4>3. QED BY <2>1, <4>1, <4>2
    <3>3. QED BY <3>1, <3>2
  <2>5. QED BY <2>1, <2>2, <2>3, <2>4 DEF LastTwice
<1>4. Images(t) = {} => Images(q) = {}
  BY <1>2
<1>5. QED BY <1>3, <1>4 DEF LastTwice, t

\* The image that is taken takes over the place of h.
LEMMA ImageTaken ==
  ASSUME NEW q \in Seq(Messages), Len(q) > 0, q[1].kind = "image", NEW h, LastTwice(q, h)
  PROVE  /\ LastTwice(SubSeq(q, 2, Len(q)), q[1].len)
         /\ Images(SubSeq(q, 2, Len(q))) = {} => q[1].len = h
<1> DEFINE t == SubSeq(q, 1 + 1, Len(q))
<1>0. Len(q) \in Nat /\ 1 <= Len(q) /\ DOMAIN q = 1 .. Len(q)
  BY LenProperties
<1>1. /\ \A i \in Images(t) : i \in Nat \ {0} /\ 1 + i \in Images(q) /\ t[i] = q[1 + i]
      /\ \A j \in Images(q) : /\ j \in 1 .. Len(q)
                              /\ j > 1 => j - 1 \in Images(t) /\ t[j - 1] = q[j]
  <2>1. ASSUME NEW n \in Nat \ {0}, n <= Len(q)
        PROVE  LET u == SubSeq(q, n + 1, Len(q))
               IN  /\ \A i \in Images(u) : /\ i \in Nat \ {0} /\ n + i \in Images(q)
                                           /\ u[i] = q[n + i]
                   /\ \A j \in Images(q) : /\ j \in 1 .. Len(q)
                                           /\ j > n => j - n \in Images(u) /\ u[j - n] = q[j]
    BY <2>1, ImagesTaken
  <2>2. 1 \in Nat \ {0}
    OBVIOUS
  <2>3. QED BY <1>0, <2>1, <2>2
<1>2. 1 \in Images(q) /\ t = SubSeq(q, 2, Len(q))
  BY <1>0 DEF Images
<1> HIDE DEF t
<1>3. \A i \in Images(t) : i >= 1
  BY <1>0, <1>1
<1>4. ASSUME NEW i \in Images(t), \A j \in Images(t) : j <= i
      PROVE  \/ (\A j \in Images(t) : j = i) /\ t[i].len = q[1].len
             \/ \E j \in Images(t) : /\ j < i /\ t[j].len = t[i].len
                                     /\ \A k \in Images(t) : k <= j \/ i <= k
  <2>1. i \in Nat /\ i >= 1 /\ 1 + i \in Images(q) /\ t[i] = q[1 + i] /\ 1 + i # 1
    BY <1>1, <1>3
  <2>2. \A j \in Images(q) : j <= 1 + i
    BY <1>1, <1>4, <2>1
  <2>3. PICK j \in Images(q) : /\ j < 1 + i /\ q[j].len = q[1 + i].len
                               /\ \A k \in Images(q) : k <= j \/ 1 + i <= k
    BY <1>2, <2>1, <2>2 DEF LastTwice
  <2>4. CASE j = 1
    <3>1. \A k \in Images(t) : k = i
      BY <1>1, <1>3, <1>4, <2>1, <2>3, <2>4
    <3>2. QED BY <2>1, <2>3, <2>4, <3>1
  <2>5. CASE j # 1
    <3>1. j \in Nat /\ j > 1
      BY <1>1, <2>5
    <3>2. j - 1 \in Images(t) /\ j - 1 < i /\ t[j - 1].len = t[i].len
      BY <1>1, <2>1, <2>3, <3>1
    <3>3. \A k \in Images(t) : k <= j - 1 \/ i <= k
      BY <1>1, <2>1, <2>3, <3>1
    <3>4. QED BY <3>2, <3>3
  <2>6. QED BY <2>4, <2>5
<1>5. ASSUME Images(t) = {}
      PROVE  q[1].len = h
  <2>1. \A j \in Images(q) : j = 1
    BY <1>1, <1>5
  <2>2. QED BY <1>2, <2>1 DEF LastTwice
<1>6. QED BY <1>2, <1>4, <1>5 DEF LastTwice

LEMMA ImagesAppended ==
  ASSUME NEW q \in Seq(Messages), NEW s \in Seq(Messages), NEW h, LastTwice(q, h),
         \A i \in 1 .. Len(s) : s[i].kind # "image"
  PROVE  LastTwice(q \o s, h) /\ Images(q \o s) = Images(q)
<1>1. /\ Len(q) \in Nat /\ Len(s) \in Nat /\ DOMAIN q = 1 .. Len(q)
      /\ q \o s \in Seq(Messages) /\ Len(q \o s) = Len(q) + Len(s)
      /\ \A i \in 1 .. Len(q) + Len(s) :
           (q \o s)[i] = IF i <= Len(q) THEN q[i] ELSE s[i - Len(q)]
  BY Joined, LenProperties
<1> DEFINE t == q \o s
<1>2. DOMAIN t = 1 .. Len(q) + Len(s)
  BY <1>1, LenProperties
<1>3. \A i \in Images(t) : i \in Images(q)
  BY <1>1, <1>2 DEF Images
<1>4. \A i \in Images(q) : i \in Images(t) /\ t[i] = q[i]
  BY <1>1, <1>2 DEF Images
<1>5. Images(t) = Images(q)
  BY <1>3, <1>4
<1> HIDE DEF t
<1>6. LastTwice(t, h)
  BY <1>4, <1>5 DEF LastTwice
<1>7. QED BY <1>5, <1>6 DEF t

LEMMA BlocksAppended ==
  ASSUME ChatAssumption, NEW q \in Seq(Messages), NEW n \in 1 .. MaxBlocks, NEW late \in Late,
         NEW h
  PROVE  LastTwice(q \o (Blocks(n) \o late), h) /\ Images(q \o (Blocks(n) \o late)) # {}
<1> DEFINE b == Blocks(n) \o late
           t == q \o b
           last == Len(q) + n + 1
<1>1. /\ Blocks(n) \in Seq(Messages) /\ Len(Blocks(n)) = n + 1 /\ n \in Nat \ {0}
      /\ \A k \in 1 .. n + 1 : Blocks(n)[k] = Image(IF k <= n THEN k ELSE n)
  BY BlockTypes, ChatAssumption
<1>2. late \in Seq(Messages) /\ Len(late) \in Nat /\ Len(q) \in Nat
      /\ \A i \in 1 .. Len(late) : late[i] = Beat
  <2>1. late \in Seq(Messages)
    BY SentTypes
  <2>2. QED BY <2>1, LenProperties DEF Late
<1>3. /\ b \in Seq(Messages) /\ Len(b) = n + 1 + Len(late)
      /\ \A i \in 1 .. n + 1 + Len(late) :
           b[i] = IF i <= n + 1 THEN Blocks(n)[i] ELSE late[i - (n + 1)]
  <2>1. /\ b \in Seq(Messages) /\ Len(b) = Len(Blocks(n)) + Len(late)
        /\ \A i \in 1 .. Len(Blocks(n)) + Len(late) :
             b[i] = IF i <= Len(Blocks(n)) THEN Blocks(n)[i] ELSE late[i - Len(Blocks(n))]
    BY <1>1, <1>2, Joined
  <2>2. Len(Blocks(n)) = n + 1
    BY <1>1
  <2> HIDE DEF b
  <2>3. QED BY <2>1, <2>2
<1> HIDE DEF b
<1>4. /\ t \in Seq(Messages) /\ Len(t) = Len(q) + (n + 1 + Len(late))
      /\ \A i \in 1 .. Len(q) + (n + 1 + Len(late)) :
           t[i] = IF i <= Len(q) THEN q[i] ELSE b[i - Len(q)]
  <2>1. b \in Seq(Messages) /\ Len(b) = n + 1 + Len(late)
    BY <1>3
  <2>2. /\ t \in Seq(Messages) /\ Len(t) = Len(q) + Len(b)
        /\ \A i \in 1 .. Len(q) + Len(b) :
             t[i] = IF i <= Len(q) THEN q[i] ELSE b[i - Len(q)]
    BY <2>1, Joined
  <2> HIDE DEF t
  <2>3. QED BY <2>1, <2>2
<1>5. DOMAIN t = 1 .. Len(q) + (n + 1 + Len(late))
  BY <1>4, LenProperties
<1> HIDE DEF t
<1>6. t[last] = Image(n) /\ t[last - 1] = Image(n)
  <2>1. t[last] = b[n + 1] /\ t[last - 1] = b[n]
    <3>1. /\ last \in 1 .. Len(q) + (n + 1 + Len(late)) /\ last - Len(q) = n + 1
          /\ last - 1 \in 1 .. Len(q) + (n + 1 + Len(late)) /\ last - 1 - Len(q) = n
          /\ ~ (last <= Len(q)) /\ ~ (last - 1 <= Len(q))
      BY <1>1, <1>2
    <3> HIDE DEF last
    <3>2. QED BY <1>4, <3>1
  <2>2. /\ n + 1 \in 1 .. n + 1 + Len(late) /\ n \in 1 .. n + 1 + Len(late)
        /\ n + 1 \in 1 .. n + 1 /\ n \in 1 .. n + 1
        /\ n + 1 <= n + 1 /\ n <= n + 1 /\ n <= n /\ ~ (n + 1 <= n)
    BY <1>1, <1>2
  <2>3. b[n + 1] = Blocks(n)[n + 1] /\ b[n] = Blocks(n)[n]
    BY <1>3, <2>2
  <2>4. Blocks(n)[n + 1] = Image(n) /\ Blocks(n)[n] = Image(n)
    BY <1>1, <2>2
  <2>5. QED BY <2>1, <2>3, <2>4
<1>7. \A i \in last + 1 .. Len(q) + (n + 1 + Len(late)) : t[i] = Beat
  <2>1. TAKE i \in last + 1 .. Len(q) + (n + 1 + Len(late))
  <2>0. /\ i \in 1 .. Len(q) + (n + 1 + Len(late)) /\ ~ (i <= Len(q))
        /\ i - Len(q) \in 1 .. n + 1 + Len(late) /\ ~ (i - Len(q) <= n + 1)
    <3>1. n \in Nat /\ Len(late) \in Nat /\ Len(q) \in Nat
      BY <1>1, <1>2
    <3>2. QED BY <3>1
  <2>2. t[i] = b[i - Len(q)]
    BY <1>4, <2>0
  <2>3. b[i - Len(q)] = late[i - Len(q) - (n + 1)]
    BY <1>3, <2>0
  <2>4. i - Len(q) - (n + 1) \in 1 .. Len(late)
    <3>1. n \in Nat /\ Len(late) \in Nat /\ Len(q) \in Nat /\ last = Len(q) + (n + 1)
      BY <1>1, <1>2
    <3> HIDE DEF last
    <3>2. QED BY <3>1
  <2>5. QED BY <1>2, <2>2, <2>3, <2>4
<1>8. Image(n).kind = "image" /\ Beat.kind # "image"
  BY DEF Image, Beat
<1>9. last \in Images(t) /\ last - 1 \in Images(t)
  BY <1>1, <1>2, <1>5, <1>6, <1>8 DEF Images
<1>10. \A i \in Images(t) : i \in Nat /\ i <= last
  <2>1. TAKE i \in Images(t)
  <2>2. i \in 1 .. Len(q) + (n + 1 + Len(late)) /\ t[i].kind = "image"
    BY <1>5 DEF Images
  <2>3. i \notin last + 1 .. Len(q) + (n + 1 + Len(late))
    BY <1>7, <1>8, <2>2
  <2>4. QED BY <1>1, <1>2, <2>2, <2>3
<1>11. ASSUME NEW i \in Images(t), \A j \in Images(t) : j <= i
       PROVE  \E j \in Images(t) : /\ j < i /\ t[j].len = t[i].len
                                   /\ \A k \in Images(t) : k <= j \/ i <= k
  <2>1. i = last /\ last - 1 < i
    BY <1>1, <1>2, <1>9, <1>10, <1>11
  <2>2. \A k \in Images(t) : k <= last - 1 \/ i <= k
    BY <1>1, <1>2, <1>10, <2>1
  <2>3. QED BY <1>6, <1>9, <2>1, <2>2
<1>12. QED BY <1>9, <1>11 DEF LastTwice, t, b

-----------------------------------------------------------------------------
(* No reply is spent on nothing *)

LostAt(c) == Unbroken(c) /\ SocksInv(c) /\ EarlyInv(c) /\ ImageInv(c) /\ OwedInv(c)

LEMMA LostAtEnd ==
  ASSUME NEW c \in Clients, LostAt(c), Ends(c), rcv'[c] = rcv[c]
  PROVE  LostAt(c)'
<1>1. SocksInv(c)'
  BY DEF LostAt, Ends, Kept, SocksInv
<1>2. EarlyInv(c)'
  BY DEF Ends, EarlyInv
<1>3. ImageInv(c)' /\ OwedInv(c)'
  BY DEF Ends, ImageInv, OwedInv, At, Alive
<1>4. Unbroken(c)'
  <2>1. <<>> \in Seq(Contents) /\ <<>> \in Seq(Messages)
    OBVIOUS
  <2>2. QED BY <2>1 DEF Ends, LostAt, Unbroken
<1>5. QED BY <1>1, <1>2, <1>3, <1>4 DEF LostAt

\* A step that leaves the receiving thread and the queue of replies alone.
LEMMA LostMain ==
  ASSUME ShapeInv, NEW c \in Clients, LostAt(c), rcv'[c] = rcv[c],
         toClient'[c] = toClient[c], Kept(c), Alive(c),
         content'[c] = content[c] \/ content'[c].cmd # "dig",
         conn'[c] = conn[c], toServer'[c] = toServer[c], main'[c].pc \notin {"poll", "ended"}
  PROVE  LostAt(c)'
<1>1. SocksInv(c)' /\ EarlyInv(c)'
  BY DEF LostAt, SocksInv, EarlyInv, Kept
<1>2. InHand(c)' = InHand(c) /\ Held(c)' = Held(c) /\ Excepted(c)' = Excepted(c) /\ Alive(c)'
  BY DEF InHand, Held, Excepted, Kept, Alive
<1>3. ImageInv(c)'
  BY <1>2 DEF LostAt, ImageInv
<1>4. OwedInv(c)'
  BY DEF OwedInv, At
<1>5. QED BY <1>1, <1>3, <1>4 DEF LostAt, Unbroken

LEMMA LostMainStep ==
  ASSUME ShapeInv, NEW c \in Clients, LostAt(c),
         Poll(c) \/ Type(c) \/ Mark(c) \/ Fill(c) \/ Copy(c)
  PROVE  LostAt(c)'
<1>0. Alive(c)
  BY DEF Poll, Type, Mark, Fill, Copy, At
<1>1. CASE Ends(c) /\ rcv'[c] = rcv[c]
  BY <1>1, LostAtEnd
<1>2. CASE Poll(c)
  BY <1>0, <1>1, <1>2, PollEffect, LostMain DEF SameNet, SameQueues
<1>3. CASE Type(c)
  BY <1>0, <1>3, TypeEffect, LostMain DEF SameNet, SameQueues
<1>4. CASE Mark(c)
  BY <1>0, <1>4, MarkEffect, LostMain DEF SameNet, SameQueues
<1>5. CASE Fill(c)
  <2>1. Cleared(content[c]).cmd # "dig"
    BY DEF Cleared
  <2>2. QED BY <1>0, <1>1, <1>5, <2>1, FillEffect, LostMain DEF SameNet, SameQueues
<1>6. CASE Copy(c)
  <2>1. main[c].cmd # "dig"
    BY ContentKinds DEF ShapeInv, ClientTypes, Mains
  <2>2. content'[c] = [cmd |-> main[c].cmd, me |-> c, to |-> script[c].peer]
    BY <1>6, CopyEffect
  <2>3. content'[c].cmd # "dig"
    BY <2>1, <2>2
  <2>4. QED BY <1>0, <1>6, <2>3, CopyEffect, LostMain DEF SameNet, SameQueues
<1>7. QED BY <1>2, <1>3, <1>4, <1>5, <1>6

LEMMA LostSend ==
  ASSUME ShapeInv, NEW c \in Clients, LostAt(c), Send(c)
  PROVE  LostAt(c)'
<1>0. Alive(c) /\ toServer[c] \in Seq(Contents) /\ content[c] \in Contents
  BY DEF Send, At, ShapeInv, ClientTypes, LostAt, Unbroken
<1>1. CASE Ends(c) /\ rcv'[c] = rcv[c]
  BY <1>1, LostAtEnd
<1>2. CASE /\ main[c].pc = "send" /\ main'[c].pc = "poll" /\ SameMind(c)
           /\ conn[c] \in {"up", "mute", "lost"} /\ conn'[c] = conn[c]
           /\ toServer'[c] = IF conn[c] = "up" THEN Append(toServer[c], content[c])
                             ELSE toServer[c]
           /\ toClient'[c] = toClient[c] /\ content'[c] = content[c]
           /\ rcv'[c] = rcv[c] /\ SameStatus(c) /\ Kept(c)
  <2>1. /\ Append(toServer[c], content[c]) # <<>>
        /\ Append(toServer[c], content[c]) \in Seq(Contents)
        /\ \A i \in DOMAIN Append(toServer[c], content[c]) :
             Append(toServer[c], content[c])[i] \in
               {toServer[c][k] : k \in DOMAIN toServer[c]} \cup {content[c]}
    <3>1. /\ Append(toServer[c], content[c]) \in Seq(Contents)
          /\ Append(toServer[c], content[c]) # <<>>
          /\ Len(Append(toServer[c], content[c])) = Len(toServer[c]) + 1
          /\ \A i \in 1 .. Len(toServer[c]) :
               Append(toServer[c], content[c])[i] = toServer[c][i]
          /\ Append(toServer[c], content[c])[Len(toServer[c]) + 1] = content[c]
      BY <1>0, AppendProperties
    <3>2. /\ DOMAIN Append(toServer[c], content[c]) = 1 .. Len(toServer[c]) + 1
          /\ DOMAIN toServer[c] = 1 .. Len(toServer[c]) /\ Len(toServer[c]) \in Nat
      BY <1>0, <3>1, LenProperties
    <3>3. \A i \in 1 .. Len(toServer[c]) + 1 :
            i \in 1 .. Len(toServer[c]) \/ i = Len(toServer[c]) + 1
      BY <3>2
    <3>4. QED BY <3>1, <3>2, <3>3
  <2>2. SocksInv(c)'
    <3>1. ASSUME p2p'[c].socks = 0
          PROVE  \A i \in DOMAIN toServer'[c] : toServer'[c][i].cmd # "dig"
      <4>1. /\ p2p[c].socks = 0 /\ content[c].cmd # "dig"
            /\ \A k \in DOMAIN toServer[c] : toServer[c][k].cmd # "dig"
        BY <1>2, <3>1 DEF LostAt, SocksInv, Kept
      <4>2. CASE conn[c] = "up"
        BY <1>2, <2>1, <4>1, <4>2
      <4>3. CASE conn[c] # "up"
        BY <1>2, <4>1, <4>3
      <4>4. QED BY <4>2, <4>3
    <3>2. QED BY <1>2, <3>1 DEF LostAt, SocksInv, Kept
  <2>3. EarlyInv(c)'
    BY <1>2 DEF EarlyInv
  <2>4. InHand(c)' = InHand(c) /\ Held(c)' = Held(c) /\ Excepted(c)' = Excepted(c)
    BY <1>2 DEF InHand, Held, Excepted, Kept
  <2>5. ImageInv(c)'
    BY <1>0, <1>2, <2>4 DEF LostAt, ImageInv
  <2>6. OwedInv(c)'
    BY <1>2, <2>1 DEF OwedInv, Owed
  <2>7. Unbroken(c)'
    BY <1>0, <1>2, <2>1 DEF LostAt, Unbroken
  <2>8. QED BY <2>2, <2>3, <2>5, <2>6, <2>7 DEF LostAt
<1>3. QED BY <1>1, <1>2, SendEffect

LEMMA LostLink ==
  ASSUME ShapeInv, NEW c \in Clients, LostAt(c),
         Connecting(c) \/ Connected(c) \/ Drop(c) \/ Loop(c) \/ Datagram(c)
  PROVE  LostAt(c)'
<1>1. /\ toClient'[c] = toClient[c] /\ SameMain(c) /\ rcv'[c] = rcv[c] /\ SameStatus(c)
      /\ Kept(c)
  BY ConnectEffect, DropEffect, DatagramEffect DEF SameNet, SameQueues
<1>2. \/ conn'[c] = "lost" /\ toServer'[c] = <<>>
      \/ conn'[c] = conn[c] /\ toServer'[c] = toServer[c]
      \/ conn[c] = "none" /\ conn'[c] = "connecting" /\ toServer'[c] = toServer[c]
      \/ conn[c] = "connecting" /\ conn'[c] = "up" /\ toServer'[c] = toServer[c]
  BY ConnectEffect, DropEffect, DatagramEffect DEF SameNet, SameQueues
<1>3. SocksInv(c)'
  BY <1>1, <1>2 DEF LostAt, SocksInv, SameMain, Kept
<1>4. EarlyInv(c)'
  BY <1>1, <1>2 DEF LostAt, EarlyInv, SameMain, SameStatus
<1>5. /\ InHand(c)' = InHand(c) /\ Held(c)' = Held(c) /\ Excepted(c)' = Excepted(c)
      /\ Alive(c)' = Alive(c) /\ Pending(c)' = Pending(c)
  BY <1>1 DEF InHand, Held, Excepted, Kept, Alive, SameMain, Pending
<1>6. ImageInv(c)'
  BY <1>1, <1>5 DEF LostAt, ImageInv
<1>7. OwedInv(c)'
  <2>1. CASE conn'[c] = "lost" \/ conn'[c] = "connecting"
    BY <2>1 DEF OwedInv
  <2>2. CASE conn[c] = "connecting" /\ conn'[c] = "up"
    BY <1>1, <2>2 DEF LostAt, EarlyInv, OwedInv, At, SameMain, SameStatus
  <2>3. CASE conn'[c] = conn[c] /\ toServer'[c] = toServer[c]
    BY <1>1, <1>5, <2>3 DEF LostAt, OwedInv, Owed, At, SameMain, SameStatus
  <2>4. QED BY <1>2, <2>1, <2>2, <2>3
<1>8. Unbroken(c)'
  <2>1. <<>> \in Seq(Contents)
    OBVIOUS
  <2>2. QED BY <1>1, <1>2, <2>1 DEF LostAt, Unbroken
<1>9. QED BY <1>3, <1>4, <1>6, <1>7, <1>8 DEF LostAt

\* The receiving thread, outside p2pMessage.
LEMMA LostReceive ==
  ASSUME ShapeInv, NEW c \in Clients, LostAt(c), Alive(c), SameMain(c), Kept(c),
         conn'[c] = conn[c], toServer'[c] = toServer[c],
         rcv[c].pc # "unborn" \/ conn[c] \notin {"none", "connecting"},
         rcv'[c].pc \notin Calling, toClient'[c] \in Seq(Messages), rcv'[c].msg \in Messages,
         ~ Excepted(c) => /\ LastTwice(toClient'[c], Held(c)')
                          /\ Images(toClient'[c]) = {} /\ InHand(c)' =>
                               rcv'[c].msg.len = rcv'[c].fw,
         At(c, "poll") /\ client'[c].status = "err" /\ conn[c] = "up" /\ ~ Excepted(c) => Owed(c)'
  PROVE  LostAt(c)'
<1>1. conn[c] \notin {"none", "connecting"}
  BY DEF LostAt, EarlyInv
<1>2. Excepted(c)' = Excepted(c) /\ Alive(c)' /\ At(c, "poll")' = At(c, "poll")
  BY DEF Excepted, Kept, Alive, At, SameMain
<1>3. SocksInv(c)' /\ EarlyInv(c)'
  BY <1>1 DEF LostAt, SocksInv, EarlyInv, Kept, SameMain
<1>4. ImageInv(c)'
  BY <1>2 DEF ImageInv
<1>5. OwedInv(c)'
  BY <1>2 DEF OwedInv
<1>6. QED BY <1>3, <1>4, <1>5 DEF LostAt, Unbroken

LEMMA LostTake ==
  ASSUME ShapeInv, NEW c \in Clients, LostAt(c), Take(c), cuts'[c] = 0
  PROVE  LostAt(c)'
<1> DEFINE q == toClient[c]
<1>1. /\ Alive(c) /\ rcv[c].pc = "recv" /\ SameMain(c) /\ SameStatus(c) /\ Kept(c)
      /\ conn'[c] = conn[c] /\ toServer'[c] = toServer[c] /\ rcv'[c].fw = rcv[c].fw
      /\ toClient'[c] \in Seq(Messages) /\ rcv'[c].msg \in Messages
  BY TakenEffect DEF LostAt, Unbroken
<1>2. PICK n \in Nat \ {0} :
        /\ n <= Len(q)
        /\ n > 1 => \A i \in 1 .. n : q[i].kind # "image"
        /\ toClient'[c] = SubSeq(q, n + 1, Len(q))
        /\ \/ n = 1 /\ q[1] = Beat /\ rcv'[c] = rcv[c]
           \/ /\ rcv'[c].pc = "note"
              /\ IF q[1] = Beat THEN n > 1 /\ rcv'[c].msg = Plain ELSE rcv'[c].msg = q[1]
  BY TakenEffect DEF LostAt
<1>3. q \in Seq(Messages) /\ Len(q) \in Nat /\ DOMAIN q = 1 .. Len(q)
  BY LenProperties DEF LostAt, Unbroken
<1>4. Beat.kind # "image" /\ Plain.kind # "image"
  BY DEF Beat, Plain
<1> HIDE DEF q
<1>5. ~ InHand(c) /\ Held(c) = rcv[c].fw
  BY <1>1 DEF InHand, Held
<1>6. rcv'[c].pc \notin Calling
  BY <1>1, <1>2 DEF Calling, Asking
<1>7. ASSUME ~ Excepted(c)
      PROVE  /\ LastTwice(toClient'[c], Held(c)')
             /\ Images(toClient'[c]) = {} /\ InHand(c)' => rcv'[c].msg.len = rcv'[c].fw
  <2>0. LastTwice(q, rcv[c].fw)
    BY <1>1, <1>5, <1>7 DEF LostAt, ImageInv, q
  <2>1. CASE q[1].kind = "image"
    <3>1. n = 1
      BY <1>2, <2>1
    <3>2. rcv'[c].pc = "note" /\ rcv'[c].msg = q[1]
      BY <1>2, <1>4, <2>1
    <3>3. InHand(c)' /\ Held(c)' = q[1].len
      BY <2>1, <3>2 DEF InHand, Held
    <3>4. Len(q) > 0 /\ toClient'[c] = SubSeq(q, 2, Len(q))
      BY <1>2, <1>3, <3>1
    <3>5. /\ LastTwice(SubSeq(q, 2, Len(q)), q[1].len)
          /\ Images(SubSeq(q, 2, Len(q))) = {} => q[1].len = rcv[c].fw
      BY <1>3, <2>0, <2>1, <3>4, ImageTaken
    <3>6. QED BY <1>1, <3>2, <3>3, <3>4, <3>5
  <2>2. CASE q[1].kind # "image"
    <3>1. \A i \in 1 .. n : q[i].kind # "image"
      BY <1>2, <2>2
    <3>2. ~ InHand(c)' /\ Held(c)' = rcv[c].fw
      BY <1>1, <1>2, <1>4, <2>2 DEF InHand, Held
    <3>3. LastTwice(toClient'[c], rcv[c].fw)
      BY <1>2, <1>3, <2>0, <3>1, ImagesStay
    <3>4. QED BY <3>2, <3>3
  <2>3. QED BY <2>1, <2>2
<1>8. ASSUME At(c, "poll"), client'[c].status = "err", conn[c] = "up", ~ Excepted(c)
      PROVE  Owed(c)'
  <2>1. Owed(c)
    BY <1>1, <1>8 DEF LostAt, OwedInv, SameStatus
  <2>2. CASE rcv'[c].pc = "note"
    BY <2>2 DEF Owed
  <2>3. CASE n = 1 /\ q[1] = Beat /\ rcv'[c] = rcv[c]
    <3>1. CASE toServer[c] # <<>>
      BY <1>1, <3>1 DEF Owed
    <3>2. CASE Pending(c) # {}
      <4>1. PICK i \in 1 .. Len(q) : q[i] # Beat
        BY <1>3, <3>2 DEF Pending, q
      <4>2. /\ toClient'[c] \in Seq(Messages) /\ Len(toClient'[c]) = Len(q) - 1
            /\ \A k \in 1 .. Len(q) - 1 : toClient'[c][k] = q[1 + k]
        BY <1>2, <1>3, <2>3, Taken
      <4>3. i - 1 \in 1 .. Len(q) - 1 /\ 1 + (i - 1) = i
        BY <1>3, <2>3, <4>1
      <4>4. i - 1 \in DOMAIN toClient'[c] /\ toClient'[c][i - 1] # Beat
        BY <4>1, <4>2, <4>3, LenProperties
      <4>5. QED BY <4>4 DEF Owed, Pending
    <3>3. QED BY <1>1, <2>1, <3>1, <3>2 DEF Owed
  <2>4. QED BY <1>2, <2>2, <2>3
<1>9. QED BY <1>1, <1>6, <1>7, <1>8, LostReceive

LEMMA LostTakeEnd ==
  ASSUME ShapeInv, NEW c \in Clients, LostAt(c), TakeEnd(c)
  PROVE  LostAt(c)'
<1>1. /\ Alive(c) /\ rcv[c].pc = "recv" /\ conn[c] = "lost"
      /\ rcv'[c].pc = "note" /\ rcv'[c].msg = End /\ rcv'[c].fw = rcv[c].fw
      /\ SameMain(c) /\ conn'[c] = conn[c] /\ toServer'[c] = toServer[c]
      /\ toClient'[c] = toClient[c] /\ Kept(c)
  BY TakeEndEffect DEF SameNet, SameQueues
<1>2. ~ InHand(c)' /\ Held(c)' = rcv[c].fw /\ ~ InHand(c) /\ Held(c) = rcv[c].fw
  BY <1>1 DEF InHand, Held, End
<1>3. ~ Excepted(c) => LastTwice(toClient'[c], Held(c)')
  BY <1>1, <1>2 DEF LostAt, ImageInv
<1>4. rcv'[c].pc \notin Calling
  BY <1>1 DEF Calling, Asking
<1>5. toClient'[c] \in Seq(Messages) /\ rcv'[c].msg \in Messages
  BY <1>1, MessageKinds DEF LostAt, Unbroken
<1>6. QED BY <1>1, <1>2, <1>3, <1>4, <1>5, LostReceive

LEMMA LostNote ==
  ASSUME ShapeInv, NEW c \in Clients, LostAt(c), Note(c)
  PROVE  LostAt(c)'
<1>1. /\ Alive(c) /\ rcv[c].pc = "note" /\ rcv'[c].pc = "act" /\ rcv'[c].msg = rcv[c].msg
      /\ rcv'[c].fw = rcv[c].fw /\ SameMain(c) /\ Kept(c) /\ conn'[c] = conn[c]
      /\ toServer'[c] = toServer[c] /\ toClient'[c] = toClient[c]
      /\ client'[c].status = IF rcv[c].msg.kind \in {"chat", "ack", "image"} THEN "err"
                             ELSE "tcp"
  BY NoteEffect DEF Goes, SameNet, SameQueues
<1>2. InHand(c)' = InHand(c) /\ Held(c)' = Held(c)
  BY <1>1 DEF InHand, Held
<1>3. ~ Excepted(c) => /\ LastTwice(toClient'[c], Held(c)')
                       /\ Images(toClient'[c]) = {} /\ InHand(c)' =>
                            rcv'[c].msg.len = rcv'[c].fw
  BY <1>1, <1>2 DEF LostAt, ImageInv
<1>4. client'[c].status = "err" => Owed(c)'
  BY <1>1 DEF Owed
<1>5. rcv'[c].pc \notin Calling
  BY <1>1 DEF Calling, Asking
<1>6. toClient'[c] \in Seq(Messages) /\ rcv'[c].msg \in Messages
  BY <1>1 DEF LostAt, Unbroken
<1>7. QED BY <1>1, <1>3, <1>4, <1>5, <1>6, LostReceive

LEMMA LostAct ==
  ASSUME ShapeInv, NEW c \in Clients, LostAt(c),
         StartReceiver(c) \/ ActPlain(c) \/ ActChat(c) \/ ActEnd(c)
  PROVE  LostAt(c)'
<1>1. /\ Alive(c) /\ SameMain(c) /\ Kept(c) /\ conn'[c] = conn[c]
      /\ toServer'[c] = toServer[c] /\ toClient'[c] = toClient[c]
      /\ rcv'[c].pc \in {"recv", "exit"} /\ rcv'[c].msg = rcv[c].msg /\ rcv'[c].fw = rcv[c].fw
      /\ rcv[c].pc # "unborn" \/ conn[c] \notin {"none", "connecting"}
  BY StartEffect, ActPlainEffect, ActChatEffect, ActEndEffect DEF Goes, SameNet, SameQueues
<1>2. \/ rcv[c].pc = "unborn" /\ SameStatus(c)
      \/ /\ rcv[c].pc = "act" /\ rcv[c].msg.kind \in {"plain", "addr", "dig", "e8", "end"}
         /\ SameStatus(c)
      \/ rcv[c].pc = "act" /\ rcv[c].msg.kind \in {"chat", "ack"} /\ client'[c].status # "err"
  BY StartEffect, ActPlainEffect, ActChatEffect, ActEndEffect
<1>3. ~ InHand(c) /\ ~ InHand(c)' /\ Held(c)' = Held(c)
  BY <1>1, <1>2 DEF InHand, Held
<1>4. ~ Excepted(c) => LastTwice(toClient'[c], Held(c)')
  BY <1>1, <1>3 DEF LostAt, ImageInv
<1>5. ASSUME At(c, "poll"), client'[c].status = "err", conn[c] = "up", ~ Excepted(c)
      PROVE  Owed(c)'
  <2>1. Owed(c) /\ rcv[c].pc # "note"
        /\ ~ (rcv[c].pc = "act" /\ rcv[c].msg.kind \in {"chat", "ack", "image"})
    BY <1>2, <1>5 DEF LostAt, OwedInv, SameStatus
  <2>2. toServer[c] # <<>> \/ Pending(c) # {}
    BY <2>1 DEF Owed
  <2>3. QED BY <1>1, <2>2 DEF Owed, Pending
<1>6. rcv'[c].pc \notin Calling
  BY <1>1 DEF Calling, Asking
<1>7. toClient'[c] \in Seq(Messages) /\ rcv'[c].msg \in Messages
  BY <1>1 DEF LostAt, Unbroken
<1>8. QED BY <1>1, <1>3, <1>4, <1>5, <1>6, <1>7, LostReceive

LEMMA LostImage ==
  ASSUME ShapeInv, NEW c \in Clients, LostAt(c), ActImage(c)
  PROVE  LostAt(c)'
<1>1. /\ Alive(c) /\ rcv[c].pc = "act" /\ rcv[c].msg.kind = "image"
      /\ rcv'[c].pc = "recv" /\ rcv'[c].msg = rcv[c].msg
      /\ rcv'[c].fw = IF Free(c) THEN rcv[c].msg.len ELSE rcv[c].fw
      /\ client'[c].status = IF Free(c) /\ rcv[c].fw = rcv[c].msg.len
                             THEN "scc" ELSE client[c].status
      /\ SameMain(c) /\ Kept(c) /\ conn'[c] = conn[c]
      /\ toServer'[c] = toServer[c] /\ toClient'[c] = toClient[c]
  <2>1. rcv[c].msg.kind # "stray"
    BY MessageKinds DEF LostAt, Unbroken
  <2>2. QED BY <2>1, ActImageEffect DEF SameNet, SameQueues
<1>2. InHand(c) /\ Held(c) = rcv[c].msg.len /\ ~ InHand(c)' /\ Held(c)' = rcv'[c].fw
  BY <1>1 DEF InHand, Held
<1>3. ASSUME ~ Excepted(c)
      PROVE  rcv'[c].fw = rcv[c].msg.len
             /\ (client'[c].status = "err" => rcv[c].fw # rcv[c].msg.len)
  <2>1. Free(c)
    BY <1>3, ScriptTypes DEF Excepted, Free, ShapeInv, ClientTypes, Callers
  <2>2. QED BY <1>1, <2>1
<1>4. ~ Excepted(c) => LastTwice(toClient'[c], Held(c)')
  BY <1>1, <1>2, <1>3 DEF LostAt, ImageInv
<1>5. ASSUME client'[c].status = "err", ~ Excepted(c)
      PROVE  Owed(c)'
  <2>1. Images(toClient[c]) # {}
    BY <1>1, <1>2, <1>3, <1>5 DEF LostAt, ImageInv
  <2>2. PICK i \in DOMAIN toClient[c] : toClient[c][i].kind = "image"
    BY <2>1 DEF Images
  <2>3. toClient[c][i] # Beat
    BY <2>2 DEF Beat
  <2>4. QED BY <1>1, <2>3 DEF Owed, Pending
<1>6. rcv'[c].pc \notin Calling
  BY <1>1 DEF Calling, Asking
<1>7. toClient'[c] \in Seq(Messages) /\ rcv'[c].msg \in Messages
  BY <1>1 DEF LostAt, Unbroken
<1>8. QED BY <1>1, <1>2, <1>4, <1>5, <1>6, <1>7, LostReceive

LEMMA LostCall ==
  ASSUME ShapeInv, NEW c \in Clients, LostAt(c),
         P2PStart(c) \/ AskFill(c) \/ AskCopy(c) \/ AskSend(c) \/ Try(c) \/ Await(c)
  PROVE  LostAt(c)'
<1>0. p2p[c].socks \in Nat /\ p2p'[c].socks \in Nat
  <2>1. ShapeInv'
    BY CallTypes
  <2>2. QED BY <2>1, Amounts DEF ShapeInv, ClientTypes, Callers
<1>1. p2p'[c].socks # 0 /\ rcv[c].pc # "unborn" /\ conn'[c] \in {conn[c], "lost"}
  <2>1. rcv[c].pc \in Calling => p2p[c].socks # 0
    BY DEF LostAt, SocksInv
  <2>2. "unborn" \notin Calling
    BY DEF Calling, Asking
  <2>3. QED BY <2>1, <2>2, CallEffect
<1>2. Excepted(c)'
  BY <1>0, <1>1 DEF Excepted
<1>3. conn[c] \notin {"none", "connecting"}
  BY <1>1 DEF LostAt, EarlyInv
<1>4. Unbroken(c)'
  <2>1. /\ rcv'[c].msg = rcv[c].msg /\ toClient'[c] \in {toClient[c], <<>>}
        /\ toServer'[c] \in {toServer[c], <<>>, Append(toServer[c], content[c])}
    BY CallEffect
  <2>2. /\ <<>> \in Seq(Messages) /\ <<>> \in Seq(Contents)
        /\ Append(toServer[c], content[c]) \in Seq(Contents)
    BY AppendProperties DEF LostAt, Unbroken, ShapeInv, ClientTypes
  <2>3. QED BY <2>1, <2>2 DEF LostAt, Unbroken
<1>5. QED BY <1>1, <1>2, <1>3, <1>4 DEF LostAt, SocksInv, EarlyInv, ImageInv, OwedInv

\* What is passed on contains no image; a reply is an image or contains none, and only a
\* request for a hole has none.
LEMMA PassedKinds ==
  ASSUME ChatAssumption, NEW d \in Clients, NEW pre \in Passed(d)
  PROVE  pre \in Seq(Messages) /\ \A i \in 1 .. Len(pre) : pre[i].kind # "image"
<1>1. pre \in Seq(Messages)
  BY SentTypes
<1>2. \A i \in 1 .. Len(pre) : pre[i].kind # "image"
  <2>1. CASE pre = <<>>
    BY <2>1
  <2>2. CASE pre = <<Chat>>
    BY <2>2 DEF Chat
  <2>3. ASSUME NEW u \in Users, pre = <<Address("dig", u, d)>>
        PROVE  \A i \in 1 .. Len(pre) : pre[i].kind # "image"
    BY <2>3 DEF Address
  <2>4. QED BY <2>1, <2>2, <2>3 DEF Passed
<1>3. QED BY <1>1, <1>2

LEMMA ReplyKinds ==
  ASSUME ChatAssumption, NEW k \in Commands \cup {"dig"}, NEW r \in Replies(k)
  PROVE  /\ r \in Seq(Messages) /\ Len(r) \in Nat
         /\ \/ r = <<Image(0)>>
            \/ \E n \in 1 .. MaxBlocks : r = Blocks(n)
            \/ \A i \in 1 .. Len(r) : r[i].kind # "image"
         /\ k # "dig" => 1 \in 1 .. Len(r) /\ r[1] # Beat
<1>1. r \in Seq(Messages) /\ Len(r) \in Nat
  <2>1. r \in Seq(Messages)
    BY SentTypes
  <2>2. QED BY <2>1, LenProperties
<1>2. ASSUME NEW m, m.kind \notin {"beat", "image"}, r = <<m>>
      PROVE  (\A i \in 1 .. Len(r) : r[i].kind # "image") /\ 1 \in 1 .. Len(r) /\ r[1] # Beat
  BY <1>2 DEF Beat
<1>3. CASE k \in {"login", "logout", "online"}
  <2>1. r = <<Plain>> \/ r = <<Closed>>
    BY <1>3 DEF Replies
  <2>2. Plain.kind \notin {"beat", "image"} /\ Closed.kind \notin {"beat", "image"}
    BY DEF Plain, Closed
  <2>3. QED BY <1>1, <1>2, <2>1, <2>2
<1>4. CASE k = "image"
  <2>1. Replies(k) = {<<Image(0)>>} \cup {Blocks(n) : n \in 1 .. MaxBlocks}
    BY <1>4 DEF Replies
  <2>2. CASE r = <<Image(0)>>
    BY <1>1, <2>2 DEF Image, Beat
  <2>3. ASSUME NEW n \in 1 .. MaxBlocks, r = Blocks(n)
        PROVE  1 \in 1 .. Len(r) /\ r[1] # Beat
    <3>1. /\ Len(Blocks(n)) = n + 1
          /\ \A i \in 1 .. n + 1 : Blocks(n)[i] = Image(IF i <= n THEN i ELSE n)
      BY BlockTypes
    <3>2. n \in Nat \ {0} /\ 1 \in 1 .. n + 1
      BY ChatAssumption
    <3>3. r[1] = Image(1)
      BY <2>3, <3>1, <3>2
    <3>4. Image(1) # Beat
      BY DEF Image, Beat
    <3>5. QED BY <2>3, <3>1, <3>2, <3>3, <3>4
  <2>4. QED BY <1>1, <2>1, <2>2, <2>3
<1>5. CASE k = "ndt"
  <2>1. r = <<Ack>> /\ Ack.kind \notin {"beat", "image"}
    BY <1>5 DEF Replies, Ack
  <2>2. QED BY <1>1, <1>2, <2>1
<1>6. CASE k = "peer"
  <2>1. PICK u \in Users, a \in Users : r = <<Address("addr", u, a)>>
    <3>1. Replies(k) = {<<Address("addr", u, a)>> : u \in Users, a \in Users}
      BY <1>6 DEF Replies
    <3>2. QED BY <3>1
  <2>2. Address("addr", u, a).kind \notin {"beat", "image"}
    BY DEF Address
  <2>3. QED BY <1>1, <1>2, <2>1, <2>2
<1>7. CASE k = "dig"
  <2>1. r = <<>> \/ r = <<Address("addr", None, None)>>
    BY <1>7 DEF Replies
  <2>2. Address("addr", None, None).kind \notin {"beat", "image"}
    BY DEF Address
  <2>3. CASE r = <<>>
    BY <1>1, <1>7, <2>3
  <2>4. QED BY <1>1, <1>2, <2>1, <2>2, <2>3
<1>8. QED BY <1>3, <1>4, <1>5, <1>6, <1>7 DEF Commands

LEMMA PendingAppended ==
  ASSUME NEW q \in Seq(Messages), NEW s \in Seq(Messages),
         \/ \E i \in DOMAIN q : q[i] # Beat
         \/ \E i \in 1 .. Len(s) : s[i] # Beat
  PROVE  \E i \in DOMAIN (q \o s) : (q \o s)[i] # Beat
<1>1. /\ Len(q) \in Nat /\ Len(s) \in Nat /\ DOMAIN q = 1 .. Len(q)
      /\ q \o s \in Seq(Messages) /\ Len(q \o s) = Len(q) + Len(s)
      /\ \A i \in 1 .. Len(q) + Len(s) :
           (q \o s)[i] = IF i <= Len(q) THEN q[i] ELSE s[i - Len(q)]
  BY Joined, LenProperties
<1>2. DOMAIN (q \o s) = 1 .. Len(q) + Len(s)
  BY <1>1, LenProperties
<1>3. ASSUME NEW i \in 1 .. Len(q), q[i] # Beat
      PROVE  \E k \in DOMAIN (q \o s) : (q \o s)[k] # Beat
  <2>1. i \in 1 .. Len(q) + Len(s) /\ (q \o s)[i] = q[i]
    BY <1>1
  <2>2. QED BY <1>2, <1>3, <2>1
<1>4. ASSUME NEW i \in 1 .. Len(s), s[i] # Beat
      PROVE  \E k \in DOMAIN (q \o s) : (q \o s)[k] # Beat
  <2>1. /\ Len(q) + i \in 1 .. Len(q) + Len(s) /\ ~ (Len(q) + i <= Len(q))
        /\ Len(q) + i - Len(q) = i
    BY <1>1
  <2>2. (q \o s)[Len(q) + i] = s[i]
    BY <1>1, <2>1
  <2>3. QED BY <1>2, <1>4, <2>1, <2>2
<1>5. QED BY <1>1, <1>3, <1>4

LEMMA LostAnswer ==
  ASSUME ShapeInv, NEW c \in Clients, LostAt(c), Answer(c), cuts'[c] = 0
  PROVE  LostAt(c)'
<1> DEFINE q == toClient[c]
           m == toServer[c][1]
<1>0. ChatAssumption
  BY ChatAssumption
<1>1. /\ conn[c] = "up" /\ toServer[c] # <<>> /\ m \in Contents
      /\ SameMain(c) /\ rcv'[c] = rcv[c] /\ SameStatus(c)
      /\ script' = script /\ p2p'[c].socks = p2p[c].socks /\ cuts'[c] = cuts[c]
  BY AnsweredEffect DEF LostAt
<1>2. PICK n \in Nat \ {0} : /\ n <= Len(toServer[c])
                             /\ toServer'[c] = SubSeq(toServer[c], n + 1, Len(toServer[c]))
  BY AnsweredEffect DEF LostAt
<1>3. /\ conn' = conn \/ conn' = [conn EXCEPT ![c] = "mute"]
      /\ missing \subseteq missing'
  BY AnsweredEffect DEF Replied, LostAt
<1>4. PICK pre \in Passed(c), r \in Replies(m.cmd), l \in Late :
        /\ toClient'[c] = (q \o pre) \o (r \o l)
        /\ pre # <<>> => m.to = c /\ m.cmd \in {"ndt", "dig"}
        /\ r = <<Image(0)>> => c \in missing'
        /\ r = <<Closed>> => conn' = [conn EXCEPT ![c] = "mute"]
  <2>1. Replied(c, m)
    BY AnsweredEffect DEF LostAt
  <2> HIDE DEF m
  <2>2. QED BY <2>1 DEF Replied
<1>5. /\ q \in Seq(Messages) /\ conn'[c] \in {"up", "mute"} /\ m.cmd \in Commands \cup {"dig"}
      /\ toServer[c] \in Seq(Contents)
  BY <1>1, <1>3, ContentKinds DEF ShapeInv, NetTypes, LostAt, Unbroken
<1>6. /\ pre \in Seq(Messages) /\ \A i \in 1 .. Len(pre) : pre[i].kind # "image"
  BY <1>0, PassedKinds
<1>7. /\ l \in Seq(Messages) /\ Len(l) \in Nat /\ \A i \in 1 .. Len(l) : l[i].kind # "image"
  <2>1. l \in Seq(Messages)
    BY <1>0, SentTypes
  <2>2. QED BY <2>1, LenProperties DEF Late, Beat
<1>8. q \o pre \in Seq(Messages)
  BY <1>5, <1>6, Joined
<1>9. /\ r \in Seq(Messages) /\ Len(r) \in Nat
      /\ \/ r = <<Image(0)>>
         \/ \E k \in 1 .. MaxBlocks : r = Blocks(k)
         \/ \A i \in 1 .. Len(r) : r[i].kind # "image"
      /\ m.cmd # "dig" => 1 \in 1 .. Len(r) /\ r[1] # Beat
  BY <1>0, <1>5, ReplyKinds
<1>10. /\ r \o l \in Seq(Messages) /\ Len(r \o l) = Len(r) + Len(l)
       /\ \A i \in 1 .. Len(r) + Len(l) :
            (r \o l)[i] = IF i <= Len(r) THEN r[i] ELSE l[i - Len(r)]
  BY <1>7, <1>9, Joined
<1>11. 1 \in 1 .. Len(toServer[c]) /\ DOMAIN toServer[c] = 1 .. Len(toServer[c])
  <2>1. /\ Len(toServer[c]) \in Nat /\ DOMAIN toServer[c] = 1 .. Len(toServer[c])
        /\ n \in Nat \ {0} /\ n <= Len(toServer[c])
    BY <1>2, <1>5, LenProperties
  <2>2. QED BY <2>1
<1>12. SocksInv(c)'
  <2>1. /\ toServer'[c] \in Seq(Contents) /\ Len(toServer'[c]) = Len(toServer[c]) - n
        /\ \A k \in 1 .. Len(toServer[c]) - n : toServer'[c][k] = toServer[c][n + k]
    <3>1. ASSUME NEW s \in Seq(Contents), n <= Len(s)
          PROVE  /\ SubSeq(s, n + 1, Len(s)) \in Seq(Contents)
                 /\ Len(SubSeq(s, n + 1, Len(s))) = Len(s) - n
                 /\ \A k \in 1 .. Len(s) - n : SubSeq(s, n + 1, Len(s))[k] = s[n + k]
      BY <3>1, Taken
    <3>2. QED BY <1>2, <1>5, <3>1
  <2>2. DOMAIN toServer'[c] = 1 .. Len(toServer[c]) - n /\ Len(toServer[c]) \in Nat
    BY <1>5, <2>1, LenProperties
  <2>3. \A k \in 1 .. Len(toServer[c]) - n : n + k \in 1 .. Len(toServer[c])
    BY <2>2
  <2>4. \A k \in DOMAIN toServer'[c] : \E i \in DOMAIN toServer[c] :
          toServer'[c][k] = toServer[c][i]
    BY <1>11, <2>1, <2>2, <2>3
  <2>5. QED BY <1>1, <2>4 DEF LostAt, SocksInv, SameMain
<1>13. EarlyInv(c)'
  BY <1>5 DEF EarlyInv
<1>14. InHand(c)' = InHand(c) /\ Held(c)' = Held(c) /\ (Excepted(c) => Excepted(c)')
       /\ Alive(c)' = Alive(c)
  BY <1>1, <1>3 DEF InHand, Held, Excepted, SameMain, Alive
<1>15. ASSUME Alive(c), ~ Excepted(c)'
       PROVE  /\ LastTwice(toClient'[c], Held(c))
              /\ Images(toClient'[c]) = {} => Images(q) = {}
  <2>1. LastTwice(q, Held(c))
    BY <1>14, <1>15 DEF LostAt, ImageInv
  <2>2. LastTwice(q \o pre, Held(c)) /\ Images(q \o pre) = Images(q)
    BY <1>5, <1>6, <2>1, ImagesAppended
  <2>3. r # <<Image(0)>>
    BY <1>4, <1>15 DEF Excepted
  <2>4. ASSUME NEW k \in 1 .. MaxBlocks, r = Blocks(k)
        PROVE  LastTwice(toClient'[c], Held(c)) /\ Images(toClient'[c]) # {}
    <3>1. /\ LastTwice((q \o pre) \o (Blocks(k) \o l), Held(c))
          /\ Images((q \o pre) \o (Blocks(k) \o l)) # {}
      BY <1>0, <1>8, BlocksAppended
    <3>2. toClient'[c] = (q \o pre) \o (Blocks(k) \o l)
      BY <1>4, <2>4
    <3>3. QED BY <3>1, <3>2
  <2>5. ASSUME \A i \in 1 .. Len(r) : r[i].kind # "image"
        PROVE  LastTwice(toClient'[c], Held(c)) /\ Images(toClient'[c]) = Images(q)
    <3>1. \A i \in 1 .. Len(r) + Len(l) : (r \o l)[i].kind # "image"
      <4>1. TAKE i \in 1 .. Len(r) + Len(l)
      <4>2. CASE i <= Len(r)
        BY <1>9, <1>10, <2>5, <4>2
      <4>3. CASE ~ (i <= Len(r))
        <5>1. i - Len(r) \in 1 .. Len(l)
          BY <1>7, <1>9, <4>3
        <5>2. QED BY <1>7, <1>10, <4>3, <5>1
      <4>4. QED BY <4>2, <4>3
    <3>2. QED BY <1>4, <1>8, <1>10, <2>2, <3>1, ImagesAppended
  <2>6. QED BY <1>9, <2>3, <2>4, <2>5
<1>16. ImageInv(c)'
  BY <1>1, <1>14, <1>15 DEF LostAt, ImageInv
<1>17. OwedInv(c)'
  <2>1. ASSUME ~ Excepted(c)'
        PROVE  Pending(c)' # {}
    <3>1. p2p[c].socks = 0
      <4>1. p2p[c].socks \in Nat
        BY Amounts
      <4>2. QED BY <1>1, <2>1, <4>1 DEF Excepted
    <3>2. m.cmd # "dig"
      BY <1>11, <3>1 DEF LostAt, SocksInv
    <3>3. 1 \in 1 .. Len(r \o l) /\ (r \o l)[1] # Beat
      <4>1. 1 \in 1 .. Len(r) + Len(l) /\ 1 <= Len(r)
        BY <1>7, <1>9, <3>2
      <4>2. QED BY <1>9, <1>10, <3>2, <4>1
    <3>4. \E i \in 1 .. Len(r \o l) : (r \o l)[i] # Beat
      BY <3>3
    <3>5. \E i \in DOMAIN ((q \o pre) \o (r \o l)) : ((q \o pre) \o (r \o l))[i] # Beat
      BY <1>8, <1>10, <3>4, PendingAppended
    <3>6. \E i \in DOMAIN toClient'[c] : toClient'[c][i] # Beat
      BY <1>4, <3>5
    <3>7. QED BY <3>6 DEF Pending
  <2>2. QED BY <2>1 DEF OwedInv, Owed
<1>18. Unbroken(c)'
  <2>1. toClient'[c] \in Seq(Messages)
    BY <1>4, <1>8, <1>10, Joined
  <2>2. toServer'[c] \in Seq(Contents)
    BY <1>2, <1>5, Taken
  <2>3. QED BY <1>1, <2>1, <2>2 DEF LostAt, Unbroken
<1>19. QED BY <1>12, <1>13, <1>16, <1>17, <1>18 DEF LostAt

LEMMA LostElsewhere ==
  ASSUME ShapeInv, NEW c \in Clients, LostAt(c), NEW e \in Clients \ {c},
         \/ OutOfCall(e)
         \/ P2PStart(e) \/ AskFill(e) \/ AskCopy(e) \/ AskSend(e) \/ Try(e) \/ Await(e)
         \/ Send(e)
  PROVE  LostAt(c)'
<1>1. CASE ~ Answer(e)
  <2>1. Untouched(c)
    BY <1>1, ElsewhereEffect
  <2>2. /\ InHand(c)' = InHand(c) /\ Held(c)' = Held(c) /\ Excepted(c)' = Excepted(c)
        /\ Alive(c)' = Alive(c) /\ Pending(c)' = Pending(c) /\ Owed(c)' = Owed(c)
        /\ toClient'[c] = toClient[c] /\ toServer'[c] = toServer[c] /\ conn'[c] = conn[c]
    BY <2>1 DEF InHand, Held, Excepted, Kept, Alive, SameMain, Pending, Owed, Untouched,
       SameNet, SameQueues
  <2>3. SocksInv(c)' /\ EarlyInv(c)'
    BY <2>1, <2>2 DEF LostAt, SocksInv, EarlyInv, Untouched, SameMain, SameStatus, Kept
  <2>4. ImageInv(c)'
    BY <2>1, <2>2 DEF LostAt, ImageInv, Untouched
  <2>5. OwedInv(c)'
    BY <2>1, <2>2 DEF LostAt, OwedInv, Untouched, SameMain, SameStatus, At
  <2>6. Unbroken(c)'
    BY <2>1, <2>2 DEF LostAt, Unbroken, Untouched
  <2>7. QED BY <2>3, <2>4, <2>5, <2>6 DEF LostAt
<1>2. CASE Answer(e)
  <2>1. /\ SameMain(c) /\ rcv'[c] = rcv[c] /\ SameStatus(c) /\ script' = script
        /\ p2p'[c].socks = p2p[c].socks /\ (c \in missing => c \in missing')
        /\ conn'[c] = conn[c] /\ toServer'[c] = toServer[c] /\ cuts'[c] = cuts[c]
    BY <1>2, PassedEffect
  <2>2. PICK pre \in Passed(c) : toClient'[c] = toClient[c] \o pre
    BY <1>2, PassedEffect
  <2>3. /\ pre \in Seq(Messages) /\ toClient[c] \in Seq(Messages)
        /\ \A i \in 1 .. Len(pre) : pre[i].kind # "image"
    BY ChatAssumption, PassedKinds DEF LostAt, Unbroken
  <2>4. InHand(c)' = InHand(c) /\ Held(c)' = Held(c) /\ (Excepted(c) => Excepted(c)')
        /\ Alive(c)' = Alive(c)
    BY <2>1 DEF InHand, Held, Excepted, SameMain, Alive
  <2>5. SocksInv(c)' /\ EarlyInv(c)'
    BY <2>1 DEF LostAt, SocksInv, EarlyInv, SameMain, SameStatus
  <2>6. ASSUME LastTwice(toClient[c], Held(c))
        PROVE  LastTwice(toClient'[c], Held(c)) /\ Images(toClient'[c]) = Images(toClient[c])
    BY <2>2, <2>3, <2>6, ImagesAppended
  <2>7. ImageInv(c)'
    BY <2>1, <2>4, <2>6 DEF LostAt, ImageInv
  <2>8. Pending(c) # {} => Pending(c)' # {}
    BY <2>2, <2>3, PendingAppended DEF Pending
  <2>9. Owed(c) => Owed(c)'
    BY <2>1, <2>8 DEF Owed
  <2>10. OwedInv(c)'
    BY <2>1, <2>4, <2>9 DEF LostAt, OwedInv, At, SameMain, SameStatus, Alive
  <2>11. Unbroken(c)'
    BY <2>1, <2>2, <2>3, Joined DEF LostAt, Unbroken
  <2>12. QED BY <2>5, <2>7, <2>10, <2>11 DEF LostAt
<1>3. QED BY <1>1, <1>2, ElsewhereEffect

\* A connection whose messages have been whole up to a step was so before it.
LEMMA CutsGrow ==
  ASSUME ShapeInv, Next, NEW c \in Clients, cuts'[c] = 0
  PROVE  cuts[c] = 0
<1>1. PICK e \in Clients :
        \/ OutOfCall(e)
        \/ P2PStart(e) \/ AskFill(e) \/ AskCopy(e) \/ AskSend(e) \/ Try(e) \/ Await(e)
        \/ Send(e)
  BY NextSplits
<1>2. cuts[c] \in Nat
  BY DEF ShapeInv, GhostTypes
<1>3. CASE Take(e) \/ Answer(e)
  <2>1. PICK whole \in BOOLEAN : Border(e, whole)
    BY <1>3 DEF Take, Answer
  <2>2. cuts'[c] = cuts[c] \/ cuts'[c] = cuts[c] + 1
    BY <2>1, BorderTypes
  <2>3. QED BY <1>2, <2>2
<1>4. CASE ~ (Take(e) \/ Answer(e))
  BY <1>1, <1>4 DEF OutOfCall, Connecting, Connected, ConnectFails, Type, Quit, Poll, Mark, Fill,
     Copy, StartReceiver, TakeEnd, Note, ActPlain, ActChat, ActImage, ActEnd, ExitLost, Loop,
     Datagram, Drop, P2PStart, AskFill, AskCopy, AskSend, Try, Await, Send, ghosts
<1>5. QED BY <1>3, <1>4

LEMMA LostStep ==
  ASSUME ShapeInv, LostInv, Next
  PROVE  LostInv'
<1>1. PICK e \in Clients :
        \/ OutOfCall(e)
        \/ P2PStart(e) \/ AskFill(e) \/ AskCopy(e) \/ AskSend(e) \/ Try(e) \/ Await(e)
        \/ Send(e)
  BY NextSplits
<1>2. ASSUME NEW c \in Clients, cuts'[c] = 0
      PROVE  LostAt(c)'
  <2>0. LostAt(c)
    BY <1>2, CutsGrow DEF LostInv, LostAt
  <2>1. CASE c # e
    BY <1>1, <2>0, <2>1, LostElsewhere
  <2>2. CASE c = e
    <3>1. CASE ConnectFails(c) \/ Quit(c) \/ ExitLost(c)
      BY <2>0, <3>1, LeaveEffect, LostAtEnd
    <3>2. CASE ~ (ConnectFails(c) \/ Quit(c) \/ ExitLost(c))
      BY <1>1, <1>2, <2>0, <2>2, <3>2, LostMainStep, LostSend, LostLink, LostTake, LostTakeEnd,
         LostNote, LostAct, LostImage, LostCall, LostAnswer DEF OutOfCall
    <3>3. QED BY <3>1, <3>2
  <2>3. QED BY <2>1, <2>2
<1>3. QED BY <1>2 DEF LostInv, LostAt

LEMMA LostInit ==
  ASSUME Init
  PROVE  LostInv
<1>1. \A c \in Clients :
        /\ conn[c] = "none" /\ toServer[c] = <<>> /\ toClient[c] = <<>>
        /\ client[c].status = "tcp" /\ content[c].cmd = "online" /\ rcv[c].pc = "unborn"
  BY DEF Init
<1>2. \A c \in Clients : Images(toClient[c]) = {} /\ ~ InHand(c)
  BY <1>1 DEF Images, InHand
<1>3. \A c \in Clients : Unbroken(c)
  <2>1. <<>> \in Seq(Contents) /\ <<>> \in Seq(Messages) /\ Plain \in Messages
    BY MessageKinds
  <2>2. \A c \in Clients : rcv[c].msg = Plain
    BY DEF Init
  <2>3. QED BY <1>1, <2>1, <2>2 DEF Unbroken
<1>4. QED BY <1>1, <1>2, <1>3 DEF LostInv, SocksInv, EarlyInv, ImageInv, OwedInv, LastTwice,
          Calling, Asking

-----------------------------------------------------------------------------
(* A client that is alone *)

\* Who is not there does nothing.
LEMMA ActsAlive ==
  ASSUME NEW e \in Clients,
         \/ OutOfCall(e)
         \/ P2PStart(e) \/ AskFill(e) \/ AskCopy(e) \/ AskSend(e) \/ Try(e) \/ Await(e)
         \/ Send(e)
  PROVE  Alive(e) \/ conn[e] \in {"up", "mute"}
<1>1. CASE P2PStart(e) \/ AskFill(e) \/ AskCopy(e) \/ AskSend(e) \/ Try(e) \/ Await(e)
  BY <1>1 DEF P2PStart, AskFill, AskCopy, AskSend, Try, Await, Receives
<1>2. CASE Connecting(e) \/ Connected(e) \/ ConnectFails(e) \/ Loop(e) \/ Datagram(e)
           \/ Answer(e) \/ Drop(e)
  BY <1>2 DEF Connecting, Connected, ConnectFails, Loop, Datagram, Answer, Drop
<1>3. CASE Type(e) \/ Quit(e) \/ Poll(e) \/ Mark(e) \/ Fill(e) \/ Copy(e) \/ Send(e)
  BY <1>3 DEF Type, Quit, Poll, Mark, Fill, Copy, Send, At
<1>4. CASE StartReceiver(e) \/ Take(e) \/ TakeEnd(e) \/ Note(e) \/ ActPlain(e) \/ ActChat(e)
           \/ ActImage(e) \/ ActEnd(e) \/ ExitLost(e)
  BY <1>4 DEF StartReceiver, Take, TakeEnd, Note, ActPlain, ActChat, ActImage, ActEnd, ExitLost,
     Receives
<1>5. QED BY <1>1, <1>2, <1>3, <1>4 DEF OutOfCall

LEMMA ScriptKept ==
  ASSUME Next
  PROVE  script' = script
<1>1. PICK e \in Clients :
        \/ OutOfCall(e)
        \/ P2PStart(e) \/ AskFill(e) \/ AskCopy(e) \/ AskSend(e) \/ Try(e) \/ Await(e)
        \/ Send(e)
  BY NextSplits
<1>2. QED BY <1>1 DEF OutOfCall, Connecting, Connected, ConnectFails, Type, Quit, Poll, Mark, Fill,
          Copy, StartReceiver, Take, TakeEnd, Note, ActPlain, ActChat, ActImage, ActEnd, ExitLost,
          Loop, Datagram, Answer, Drop, P2PStart, AskFill, AskCopy, AskSend, Try, Await, Send

LEMMA AbsentStep ==
  ASSUME ShapeInv, AbsentInv, Next
  PROVE  AbsentInv'
<1>1. PICK e \in Clients :
        \/ OutOfCall(e)
        \/ P2PStart(e) \/ AskFill(e) \/ AskCopy(e) \/ AskSend(e) \/ Try(e) \/ Await(e)
        \/ Send(e)
  BY NextSplits
<1>2. script[e].types # <<>>
  BY <1>1, ActsAlive DEF AbsentInv, Alive
<1>3. ASSUME NEW c \in Clients, c # e
      PROVE  main'[c] = main[c] /\ conn'[c] = conn[c]
  <2>1. CASE Answer(e)
    BY <1>3, <2>1, PassedEffect DEF SameMain
  <2>2. CASE ~ Answer(e)
    BY <1>1, <1>3, <2>2, ElsewhereEffect DEF Untouched, SameMain, SameNet
  <2>3. QED BY <2>1, <2>2
<1>4. script' = script
  BY ScriptKept
<1>5. QED BY <1>2, <1>3, <1>4 DEF AbsentInv

LEMMA Apart ==
  /\ Beat # Plain /\ Beat # Closed /\ Beat # Ack /\ Beat.kind # "image"
  /\ Plain.kind = "plain" /\ Closed.kind = "e8" /\ Ack.kind = "ack" /\ End.kind = "end"
  /\ \A n \in Nat : Image(n).kind = "image" /\ Image(n).len = n /\ Image(n) # Beat
BY DEF Beat, Plain, Closed, Ack, End, Image

\* Who does not wait for a reply has none under way.
LEMMA BusyIdle ==
  ASSUME NEW c \in Clients, Stage(c), ~ Waiting(c)
  PROVE  Idle(c)
BY DEF Stage, Asked, Answered, HoldsReply, HoldsBlock

LEMMA StageHands ==
  ASSUME NEW c \in Clients, Stage(c)
  PROVE  /\ rcv[c].pc \in {"unborn", "recv", "exit", "note", "act"}
         /\ rcv[c].pc = "act" => rcv[c].msg.kind \in {"plain", "e8", "end", "ack", "image"}
<1>1. CASE Idle(c) \/ Asked(c) \/ Answered(c)
  BY <1>1 DEF Idle, Asked, Answered, Resting, Ended
<1>2. CASE HoldsReply(c)
  BY <1>2, Apart DEF HoldsReply
<1>3. CASE HoldsBlock(c)
  <2>1. rcv[c].msg.kind = "image"
    BY <1>3 DEF HoldsBlock, Image
  <2>2. QED BY <1>3, <2>1 DEF HoldsBlock
<1>4. QED BY <1>1, <1>2, <1>3 DEF Stage

AloneAt(c) == IntentInv(c) /\ Stage(c)

\* Steps of the receiving thread, the network and the server.
LEMMA IntentKept ==
  ASSUME NEW c \in Clients, IntentInv(c), SameMain(c), script' = script,
         p2p'[c].socks = p2p[c].socks, rcv'[c].fw = rcv[c].fw,
         \/ SameStatus(c)
         \/ main[c].pc \notin Sending /\ client'[c].status # "ndt"
         \/ conn'[c] = "lost" /\ client'[c].status # "ndt",
         conn'[c] = "lost" \/ conn[c] # "lost",
         toServer'[c] = toServer[c] \/ toServer'[c] = <<>>
  PROVE  IntentInv(c)'
<1>1. ImageTyped(c)' = ImageTyped(c)
  BY DEF ImageTyped, SameMain
<1>2. client'[c].status # "ndt"
  BY DEF IntentInv, SameStatus
<1>3. main'[c].pc \in Sending /\ conn'[c] # "lost" => client'[c].status = "err"
  BY DEF IntentInv, SameMain, SameStatus
<1>4. \A i \in 1 .. Len(toServer'[c]) :
        /\ toServer'[c][i].to = script[c].peer
        /\ \E j \in 1 .. main[c].typed : toServer'[c][i].cmd = script[c].types[j]
  <2>1. CASE toServer'[c] = toServer[c]
    BY <2>1 DEF IntentInv
  <2>2. CASE toServer'[c] = <<>>
    BY <2>2
  <2>3. QED BY <2>1, <2>2
<1>5. QED BY <1>1, <1>2, <1>3, <1>4 DEF IntentInv, SameMain

\* The main thread leaves the rest as it is, unless it sends.
LEMMA IdleKept ==
  ASSUME NEW c \in Clients, Idle(c), rcv'[c] = rcv[c], SameNet(c)
  PROVE  Stage(c)'
BY DEF Idle, Stage, Resting, Ended, SameNet, SameQueues, Quiet

LEMMA AlonePoll ==
  ASSUME ShapeInv, NEW c \in Clients, AloneAt(c), Poll(c), Alive(c)'
  PROVE  AloneAt(c)'
<1>1. /\ main[c].pc = "poll" /\ client[c].status # "err"
      /\ main'[c].pc = "prompt" /\ main'[c].received = client[c].status
      /\ main'[c].typed = main[c].typed /\ content'[c] = content[c]
      /\ rcv'[c] = rcv[c] /\ SameNet(c) /\ SameStatus(c) /\ Kept(c)
  BY PollEffect DEF Ends, Alive
<1>2. Stage(c)'
  BY <1>1, BusyIdle, IdleKept DEF AloneAt, Waiting
<1>3. IntentInv(c)'
  BY <1>1 DEF AloneAt, IntentInv, Asks, Sending, ImageTyped, SameNet, SameQueues, SameStatus, Kept
<1>4. QED BY <1>2, <1>3 DEF AloneAt

LEMMA AloneType ==
  ASSUME ShapeInv, NEW c \in Clients, Alone(c), AloneAt(c), Type(c)
  PROVE  AloneAt(c)'
<1> DEFINE t == script[c].types
           n == main[c].typed
<1>1. /\ main[c].pc = "prompt" /\ n < Len(t)
      /\ main'[c].pc = "mark" /\ main'[c].typed = n + 1
      /\ main'[c].cmd = IF main[c].received = "ndt" THEN "ndt" ELSE t[n + 1]
      /\ main'[c].received = main[c].received /\ content'[c] = content[c]
      /\ rcv'[c] = rcv[c] /\ SameNet(c) /\ SameStatus(c) /\ Kept(c)
  BY TypeEffect
<1>2. Idle(c)
  BY <1>1, BusyIdle DEF AloneAt, Waiting
<1>3. Stage(c)'
  BY <1>1, <1>2, IdleKept
<1>4. n \in Nat /\ Len(t) \in Nat /\ DOMAIN t = 1 .. Len(t)
  BY ScriptTypes, LenProperties DEF ShapeInv, ClientTypes, Mains
<1>5. main'[c].cmd = t[n + 1]
  BY <1>1 DEF AloneAt, IntentInv
<1>6. t[n + 1] = "image" => ~ ImageTyped(c)
  <2>1. SUFFICES ASSUME t[n + 1] = "image", NEW i \in 1 .. n, t[i] = "image"
                 PROVE  FALSE
    BY DEF ImageTyped
  <2>2. Cardinality({k \in DOMAIN t : t[k] = "image"}) <= 1
    BY DEF Alone
  <2> DEFINE I == {k \in DOMAIN t : t[k] = "image"}
  <2>3. i \in I /\ n + 1 \in I /\ i # n + 1
    BY <1>1, <1>4, <2>1
  <2>4. IsFiniteSet(I) /\ I \subseteq 1 .. Len(t)
    <3>1. IsFiniteSet(1 .. Len(t))
      <4>1. \A k \in Nat : IsFiniteSet(1 .. k)
        BY FS_Interval
      <4>2. QED BY <1>4, <4>1
    <3>2. I \subseteq 1 .. Len(t)
      BY <1>4
    <3>3. QED BY <3>1, <3>2, FS_Subset
  <2>5. Cardinality({i, n + 1}) = 2
    <3>1. IsFiniteSet({i}) /\ Cardinality({i}) = 1 /\ n + 1 \notin {i}
      BY <2>3, FS_Singleton
    <3>2. Cardinality({i} \cup {n + 1}) = 2
      <4>1. \A S, x : IsFiniteSet(S) /\ x \notin S =>
                        Cardinality(S \cup {x}) = Cardinality(S) + 1
        BY FS_AddElement
      <4>2. Cardinality({i} \cup {n + 1}) = Cardinality({i}) + 1
        BY <3>1, <4>1
      <4>3. QED BY <3>1, <4>2
    <3>3. {i} \cup {n + 1} = {i, n + 1}
      OBVIOUS
    <3>4. QED BY <3>2, <3>3
  <2> HIDE DEF I
  <2>6. {i, n + 1} \subseteq I
    BY <2>3
  <2>7. Cardinality({i, n + 1}) <= Cardinality(I) /\ Cardinality(I) \in Nat
    BY <2>4, <2>6, FS_Subset, FS_CardinalityType
  <2>8. Cardinality(I) <= 1
    BY <2>2 DEF I
  <2>9. QED BY <2>5, <2>7, <2>8
<1>7. t[n + 1] = "image" => rcv'[c].fw = 0
  BY <1>1, <1>6 DEF AloneAt, IntentInv
<1>8. ImageTyped(c) => ImageTyped(c)'
  <2>1. \A i \in 1 .. n : i \in 1 .. n + 1
    BY <1>4
  <2>2. QED BY <1>1, <2>1 DEF ImageTyped, Kept
<1>9. toServer'[c] = <<>>
  BY <1>1, <1>2 DEF Idle, SameNet, SameQueues
<1>10. /\ p2p'[c].socks = 0 /\ main'[c].received # "ndt" /\ client'[c].status # "ndt"
       /\ ~ ImageTyped(c)' => rcv'[c].fw = 0
  BY <1>1, <1>8 DEF AloneAt, IntentInv, SameStatus, Kept
<1>11. main'[c].typed > 0 /\ script' = script
  BY <1>1, <1>4 DEF Kept
<1>12. IntentInv(c)'
  BY <1>1, <1>5, <1>7, <1>9, <1>10, <1>11 DEF IntentInv, Sending
<1>13. QED BY <1>3, <1>12 DEF AloneAt

LEMMA AloneCompose ==
  ASSUME ShapeInv, NEW c \in Clients, AloneAt(c), Mark(c) \/ Fill(c) \/ Copy(c), Alive(c)'
  PROVE  AloneAt(c)'
<1>1. /\ main[c].pc \in Asks /\ main[c].pc # "send" /\ main'[c].pc \in Sending /\ SameMind(c)
      /\ rcv'[c] = rcv[c] /\ SameNet(c) /\ Kept(c)
      /\ \/ client'[c].status = "err"
         \/ main[c].pc \in Sending /\ SameStatus(c)
      /\ main'[c].pc = "send" =>
           content'[c] = [cmd |-> main[c].cmd, me |-> c, to |-> script[c].peer]
  BY MarkEffect, FillEffect, CopyEffect DEF Ends, Alive, Asks, Sending
<1>2. Idle(c)
  BY <1>1, BusyIdle DEF AloneAt, Waiting, Asks, Sending
<1>3. Stage(c)'
  BY <1>1, <1>2, IdleKept
<1>4. main[c].typed = main'[c].typed /\ ImageTyped(c)' = ImageTyped(c)
  BY <1>1 DEF ImageTyped, SameMind, Kept
<1>5. /\ main'[c].typed > 0 /\ main'[c].cmd = script[c].types[main'[c].typed]
      /\ main'[c].cmd = "image" => rcv'[c].fw = 0
  BY <1>1 DEF AloneAt, IntentInv, SameMind
<1>6. /\ client'[c].status # "ndt"
      /\ conn'[c] # "lost" => client'[c].status = "err"
  BY <1>1 DEF AloneAt, IntentInv, SameNet, SameStatus
<1>7. IntentInv(c)'
  BY <1>1, <1>4, <1>5, <1>6 DEF AloneAt, IntentInv, SameNet, SameQueues, SameMind, Kept
<1>8. QED BY <1>3, <1>7 DEF AloneAt

LEMMA AloneSend ==
  ASSUME ShapeInv, NEW c \in Clients, AloneAt(c), Send(c), Alive(c)'
  PROVE  AloneAt(c)'
<1>1. /\ main[c].pc = "send" /\ main'[c].pc = "poll" /\ SameMind(c)
      /\ conn[c] \in {"up", "mute", "lost"} /\ conn'[c] = conn[c]
      /\ toServer'[c] = IF conn[c] = "up" THEN Append(toServer[c], content[c]) ELSE toServer[c]
      /\ toClient'[c] = toClient[c] /\ content'[c] = content[c]
      /\ rcv'[c] = rcv[c] /\ SameStatus(c) /\ Kept(c)
  BY SendEffect DEF Ends, Alive
<1>2. Idle(c)
  BY <1>1, BusyIdle DEF AloneAt, Waiting
<1>3. /\ main[c].typed \in Nat \ {0} /\ main[c].cmd = script[c].types[main[c].typed]
      /\ main[c].cmd = "image" => rcv[c].fw = 0
      /\ content[c] = [cmd |-> main[c].cmd, me |-> c, to |-> script[c].peer]
      /\ conn[c] # "lost" => client[c].status = "err"
  BY <1>1 DEF AloneAt, IntentInv, Asks, Sending, ShapeInv, ClientTypes, Mains
<1>4. ImageTyped(c)' = ImageTyped(c)
  BY <1>1 DEF ImageTyped, SameMind, Kept
<1>5. IntentInv(c)'
  <2>1. \A i \in 1 .. Len(toServer'[c]) :
          /\ toServer'[c][i].to = script[c].peer
          /\ \E j \in 1 .. main[c].typed : toServer'[c][i].cmd = script[c].types[j]
    <3>1. CASE conn[c] = "up"
      <4>1. toServer'[c] = <<content[c]>>
        BY <1>1, <1>2, <3>1 DEF Idle
      <4>2. content[c].to = script[c].peer /\ content[c].cmd = script[c].types[main[c].typed]
        BY <1>3
      <4>3. main[c].typed \in 1 .. main[c].typed
        BY <1>3
      <4>4. QED BY <4>1, <4>2, <4>3
    <3>2. CASE conn[c] # "up"
      BY <1>1, <1>2, <3>2 DEF Idle
    <3>3. QED BY <3>1, <3>2
  <2>2. /\ p2p'[c].socks = 0 /\ main'[c].received # "ndt" /\ client'[c].status # "ndt"
        /\ ~ ImageTyped(c)' => rcv'[c].fw = 0
    BY <1>1, <1>4 DEF AloneAt, IntentInv, SameStatus, SameMind, Kept
  <2>3. script' = script /\ main'[c].typed = main[c].typed
    BY <1>1 DEF Kept, SameMind
  <2>4. QED BY <1>1, <2>1, <2>2, <2>3 DEF IntentInv, Asks, Sending
<1>6. CASE conn[c] = "up"
  <2>1. toServer'[c] = <<content[c]>> /\ Quiet(toClient[c])
    BY <1>1, <1>2, <1>6 DEF Idle
  <2>2. Waiting(c)' /\ Resting(c)'
    BY <1>1, <1>2, <1>3, <1>6 DEF Waiting, Idle, Resting, Ended, SameStatus
  <2>3. content[c].cmd = "image" => rcv'[c].fw = 0 /\ ImageTyped(c)'
    <3>1. content[c].cmd = main[c].cmd
      BY <1>3
    <3>2. main[c].typed \in 1 .. main[c].typed
      BY <1>3
    <3>3. main[c].cmd = "image" => ImageTyped(c)
      BY <1>3, <3>2 DEF ImageTyped
    <3>4. QED BY <1>1, <1>3, <1>4, <3>1, <3>3
  <2>4. Asked(c)'
    <3>1. Len(toServer'[c]) = 1 /\ toServer'[c][1] = content[c]
      BY <2>1
    <3>2. QED BY <1>1, <1>6, <2>1, <2>2, <2>3, <3>1 DEF Asked
  <2>5. QED BY <1>5, <2>4 DEF AloneAt, Stage
<1>7. CASE conn[c] # "up"
  <2>1. SameNet(c)
    BY <1>1, <1>7 DEF SameNet, SameQueues
  <2>2. QED BY <1>1, <1>2, <1>5, <2>1, IdleKept DEF AloneAt
<1>8. QED BY <1>6, <1>7

LEMMA AloneLink ==
  ASSUME ShapeInv, NEW c \in Clients, AloneAt(c),
         Connecting(c) \/ Connected(c) \/ Drop(c) \/ Loop(c) \/ Datagram(c)
  PROVE  AloneAt(c)'
<1>1. /\ toClient'[c] = toClient[c] /\ SameMain(c) /\ rcv'[c] = rcv[c] /\ SameStatus(c)
      /\ Kept(c)
  BY ConnectEffect, DropEffect, DatagramEffect DEF SameNet, SameQueues
<1>2. \/ conn[c] # "lost" /\ conn'[c] = "lost" /\ toServer'[c] = <<>>
      \/ conn'[c] = conn[c] /\ toServer'[c] = toServer[c]
      \/ conn[c] \notin {"up", "lost"} /\ conn'[c] # "lost" /\ toServer'[c] = toServer[c]
  BY ConnectEffect, DropEffect, DatagramEffect DEF SameNet, SameQueues
<1>3. IntentInv(c)'
  BY <1>1, <1>2, IntentKept DEF AloneAt, Kept
<1>4. /\ Waiting(c)' = Waiting(c) /\ Resting(c)' = Resting(c) /\ ImageTyped(c)' = ImageTyped(c)
  BY <1>1 DEF Waiting, Resting, ImageTyped, SameMain, SameStatus, Kept
<1>5. ASSUME Idle(c)
      PROVE  Stage(c)'
  <2>1. conn[c] = "lost" => conn'[c] = "lost"
    BY <1>2
  <2>2. toServer'[c] = <<>>
    BY <1>2, <1>5 DEF Idle
  <2>3. QED BY <1>1, <1>4, <1>5, <2>1, <2>2 DEF Idle, Ended, Stage
<1>6. ASSUME Asked(c)
      PROVE  Stage(c)'
  <2>1. CASE toServer'[c] = <<>>
    BY <1>1, <1>4, <1>6, <2>1 DEF Asked, Idle, Stage
  <2>2. CASE conn'[c] = conn[c] /\ toServer'[c] = toServer[c]
    BY <1>1, <1>4, <1>6, <2>2 DEF Asked, Stage
  <2>3. QED BY <1>2, <1>6, <2>1, <2>2 DEF Asked
<1>7. ASSUME Answered(c)
      PROVE  Stage(c)'
  <2>1. toServer'[c] = <<>>
    BY <1>2, <1>7 DEF Answered
  <2>2. Answered(c)'
    BY <1>1, <1>4, <1>7, <2>1 DEF Answered
  <2>3. QED BY <2>2 DEF Stage
<1>8. ASSUME HoldsReply(c) \/ HoldsBlock(c)
      PROVE  Stage(c)'
  <2>1. toServer'[c] = <<>>
    BY <1>2, <1>8 DEF HoldsReply, HoldsBlock
  <2>2. QED BY <1>1, <1>4, <1>8, <2>1 DEF HoldsReply, HoldsBlock, Stage
<1>9. QED BY <1>3, <1>5, <1>6, <1>7, <1>8 DEF AloneAt, Stage

\* The receiving thread: start, the end of the connection, replies that change nothing.
LEMMA AloneStart ==
  ASSUME ShapeInv, NEW c \in Clients, AloneAt(c),
         StartReceiver(c) \/ ActPlain(c) \/ ActEnd(c)
  PROVE  AloneAt(c)'
<1>1. /\ SameMain(c) /\ Kept(c) /\ SameNet(c) /\ SameStatus(c)
      /\ rcv'[c].pc \in {"recv", "exit"} /\ rcv'[c].fw = rcv[c].fw
      /\ \/ rcv[c].pc = "unborn"
         \/ rcv[c].pc = "act" /\ rcv[c].msg.kind \in {"plain", "addr", "dig", "e8", "end"}
  BY StartEffect, ActPlainEffect, ActEndEffect DEF Goes
<1>2. IntentInv(c)'
  BY <1>1, IntentKept DEF AloneAt, SameNet, SameQueues, Kept
<1>3. /\ Waiting(c)' = Waiting(c) /\ Resting(c)' /\ ImageTyped(c)' = ImageTyped(c)
      /\ toServer'[c] = toServer[c] /\ toClient'[c] = toClient[c] /\ conn'[c] = conn[c]
  BY <1>1 DEF Waiting, Resting, ImageTyped, SameMain, SameStatus, Kept, SameNet, SameQueues
<1>4. ASSUME Idle(c)
      PROVE  Stage(c)'
  BY <1>3, <1>4 DEF Idle, Stage
<1>5. ASSUME Asked(c)
      PROVE  Stage(c)'
  BY <1>1, <1>3, <1>5 DEF Asked, Stage
<1>6. ASSUME Answered(c)
      PROVE  Stage(c)'
  <2>1. Answered(c)'
    BY <1>1, <1>3, <1>6 DEF Answered
  <2>2. QED BY <2>1 DEF Stage
<1>7. ~ HoldsReply(c)
  BY <1>1, Apart DEF HoldsReply
<1>8. ~ HoldsBlock(c)
  <2>1. HoldsBlock(c) => rcv[c].pc # "unborn" /\ rcv[c].msg.kind = "image"
    BY DEF HoldsBlock, Image
  <2>2. QED BY <1>1, <2>1
<1>9. QED BY <1>2, <1>4, <1>5, <1>6, <1>7, <1>8 DEF AloneAt, Stage

LEMMA AloneTakeEnd ==
  ASSUME ShapeInv, NEW c \in Clients, AloneAt(c), TakeEnd(c)
  PROVE  AloneAt(c)'
<1>1. /\ rcv[c].pc = "recv" /\ conn[c] = "lost" /\ toClient[c] = <<>>
      /\ rcv'[c].pc = "note" /\ rcv'[c].msg = End /\ rcv'[c].fw = rcv[c].fw
      /\ SameMain(c) /\ SameNet(c) /\ SameStatus(c) /\ Kept(c)
  BY TakeEndEffect
<1>2. IntentInv(c)'
  BY <1>1, IntentKept DEF AloneAt, SameNet, SameQueues, Kept
<1>3. ~ Asked(c) /\ ~ HoldsReply(c) /\ ~ HoldsBlock(c)
  BY <1>1 DEF Asked, HoldsReply, HoldsBlock
<1>4. ~ Answered(c)
  <2>1. SUFFICES ASSUME NEW k \in {0, 1},
                        \/ ReplyFrom(<<>>, k)
                        \/ \E n \in 0 .. MaxBlocks : \E p \in 0 .. n : BlocksFrom(<<>>, k, n, p)
                 PROVE  FALSE
    BY <1>1 DEF Answered
  <2>2. ~ ReplyFrom(<<>>, k)
    BY DEF ReplyFrom
  <2>3. ASSUME NEW n \in 0 .. MaxBlocks, NEW p \in 0 .. n
        PROVE  ~ BlocksFrom(<<>>, k, n, p)
    <3>1. n \in Nat /\ p \in Nat /\ p <= n
      BY ScriptTypes
    <3>2. QED BY <3>1 DEF BlocksFrom
  <2>4. QED BY <2>1, <2>2, <2>3
<1>5. Idle(c)
  BY <1>3, <1>4 DEF AloneAt, Stage
<1>6. Idle(c)'
  BY <1>1, <1>5 DEF Idle, Ended, SameNet, SameQueues
<1>7. QED BY <1>2, <1>6 DEF AloneAt, Stage

\* After the last block there is a heartbeat at most.
LEMMA BeatLeft ==
  ASSUME NEW q \in Seq(Messages), Len(q) \in {0, 1}, Len(q) = 1 => q[1] = Beat
  PROVE  Quiet(q)
<1>1. \A n \in {0, 1} : n <= 1 /\ \A i \in 1 .. n : n = 1 /\ i = 1
  OBVIOUS
<1>2. QED BY <1>1 DEF Quiet

LEMMA AloneNote ==
  ASSUME ShapeInv, NEW c \in Clients, AloneAt(c), Note(c)
  PROVE  AloneAt(c)'
<1>1. /\ rcv[c].pc = "note" /\ rcv'[c].pc = "act" /\ rcv'[c].msg = rcv[c].msg
      /\ rcv'[c].fw = rcv[c].fw /\ SameMain(c) /\ Kept(c) /\ conn'[c] = conn[c]
      /\ toServer'[c] = toServer[c] /\ toClient'[c] = toClient[c]
      /\ client'[c].status = IF rcv[c].msg.kind \in {"chat", "ack", "image"} THEN "err"
                             ELSE "tcp"
  BY NoteEffect DEF Goes, SameNet, SameQueues
<1>2. ImageTyped(c)' = ImageTyped(c)
  BY <1>1 DEF ImageTyped, SameMain, Kept
<1>3. ~ Asked(c) /\ ~ Answered(c)
  BY <1>1 DEF Asked, Answered, Resting
<1>4. ASSUME Idle(c)
      PROVE  conn[c] = "lost" /\ Idle(c)'
  <2>1. conn[c] = "lost" /\ rcv[c].msg = End
    BY <1>1, <1>4 DEF Idle, Resting, Ended
  <2>2. Resting(c)'
    BY <1>1, <2>1, Apart DEF Resting
  <2>3. QED BY <1>1, <1>4, <2>1, <2>2 DEF Idle
<1>5. ASSUME HoldsReply(c)
      PROVE  main[c].pc = "poll" /\ Stage(c)'
  <2>1. /\ main[c].pc = "poll" /\ toServer'[c] = <<>> /\ Quiet(toClient[c])
        /\ rcv[c].msg \in {Plain, Closed, Ack}
    BY <1>1, <1>5 DEF HoldsReply, Waiting
  <2>2. CASE rcv[c].msg = Ack
    <3>1. Waiting(c)'
      BY <1>1, <2>1, <2>2, Apart DEF Waiting, SameMain
    <3>2. HoldsReply(c)'
      BY <1>1, <2>1, <2>2, <3>1 DEF HoldsReply
    <3>3. QED BY <2>1, <3>2 DEF Stage
  <2>3. CASE rcv[c].msg \in {Plain, Closed}
    <3>1. Resting(c)'
      BY <1>1, <2>3, Apart DEF Resting
    <3>2. Idle(c)'
      BY <1>1, <2>1, <3>1 DEF Idle
    <3>3. QED BY <2>1, <3>2 DEF Stage
  <2>4. QED BY <2>1, <2>2, <2>3
<1>6. ASSUME HoldsBlock(c)
      PROVE  main[c].pc = "poll" /\ Stage(c)'
  <2>1. main[c].pc = "poll" /\ rcv[c].msg.kind = "image"
    BY <1>6 DEF HoldsBlock, Waiting, Image
  <2>2. Waiting(c)'
    BY <1>1, <2>1 DEF Waiting, SameMain
  <2>3. HoldsBlock(c)'
    BY <1>1, <1>2, <1>6, <2>2 DEF HoldsBlock
  <2>4. QED BY <2>1, <2>3 DEF Stage
<1>7. Stage(c)' /\ (conn[c] = "lost" \/ main[c].pc = "poll")
  BY <1>3, <1>4, <1>5, <1>6 DEF AloneAt, Stage
<1>8. client'[c].status # "ndt" /\ "poll" \notin Sending
  BY <1>1 DEF Sending
<1>9. IntentInv(c)'
  BY <1>1, <1>7, <1>8, IntentKept DEF AloneAt, Kept
<1>10. QED BY <1>7, <1>9 DEF AloneAt

LEMMA AloneChat ==
  ASSUME ShapeInv, NEW c \in Clients, AloneAt(c), ActChat(c)
  PROVE  AloneAt(c)'
<1>1. /\ rcv[c].pc = "act" /\ rcv[c].msg.kind \in {"chat", "ack"}
      /\ rcv'[c].pc = "recv" /\ rcv'[c].fw = rcv[c].fw
      /\ SameMain(c) /\ Kept(c) /\ conn'[c] = conn[c]
      /\ toServer'[c] = toServer[c] /\ toClient'[c] = toClient[c]
      /\ client'[c].status = IF rcv[c].msg.kind = "chat" THEN "ndt" ELSE "tcp"
  BY ActChatEffect DEF Goes, SameNet, SameQueues
<1>2. ~ Idle(c) /\ ~ Asked(c) /\ ~ Answered(c)
  BY <1>1 DEF Idle, Asked, Answered, Resting, Ended
<1>3. ~ HoldsBlock(c)
  <2>1. HoldsBlock(c) => rcv[c].msg.kind = "image"
    BY DEF HoldsBlock, Image
  <2>2. QED BY <1>1, <2>1
<1>4. HoldsReply(c)
  BY <1>2, <1>3 DEF AloneAt, Stage
<1>5. /\ main[c].pc = "poll" /\ toServer[c] = <<>> /\ Quiet(toClient[c])
      /\ rcv[c].msg.kind = "ack"
  BY <1>1, <1>4, Apart DEF HoldsReply, Waiting
<1>6. Idle(c)'
  BY <1>1, <1>5 DEF Idle, Resting
<1>7. client'[c].status # "ndt" /\ "poll" \notin Sending
  BY <1>1, <1>5 DEF Sending
<1>8. IntentInv(c)'
  BY <1>1, <1>5, <1>7, IntentKept DEF AloneAt, Kept
<1>9. QED BY <1>6, <1>8 DEF AloneAt, Stage

LEMMA AloneImage ==
  ASSUME ShapeInv, NEW c \in Clients, AloneAt(c), Unbroken(c), ActImage(c)
  PROVE  AloneAt(c)'
<1>1. /\ rcv[c].pc = "act" /\ rcv[c].msg.kind = "image"
      /\ rcv'[c].pc = "recv" /\ rcv'[c].msg = rcv[c].msg
      /\ rcv'[c].fw = IF Free(c) THEN rcv[c].msg.len ELSE rcv[c].fw
      /\ client'[c].status = IF Free(c) /\ rcv[c].fw = rcv[c].msg.len
                             THEN "scc" ELSE client[c].status
      /\ SameMain(c) /\ Kept(c) /\ conn'[c] = conn[c]
      /\ toServer'[c] = toServer[c] /\ toClient'[c] = toClient[c]
  BY ActImageEffect, StageHands DEF AloneAt, SameNet, SameQueues
<1>2. ~ Idle(c) /\ ~ Asked(c) /\ ~ Answered(c) /\ ~ HoldsReply(c)
  BY <1>1, Apart DEF Idle, Asked, Answered, HoldsReply, Resting, Ended
<1>3. HoldsBlock(c)
  BY <1>2 DEF AloneAt, Stage
<1>4. PICK n \in 0 .. MaxBlocks : \E p \in 0 .. n :
        /\ BlocksFrom(toClient[c], 0, n, p + 1)
        /\ rcv[c].msg = Image(IF p + 1 <= n THEN p + 1 ELSE n) /\ rcv[c].fw = p
  BY <1>3 DEF HoldsBlock
<1>5. PICK p \in 0 .. n :
        /\ BlocksFrom(toClient[c], 0, n, p + 1)
        /\ rcv[c].msg = Image(IF p + 1 <= n THEN p + 1 ELSE n) /\ rcv[c].fw = p
  BY <1>4
<1>6. n \in Nat /\ p \in Nat /\ p <= n
  BY ScriptTypes
<1>7. /\ Waiting(c) /\ toServer[c] = <<>> /\ ImageTyped(c) /\ main[c].pc = "poll"
  BY <1>3 DEF HoldsBlock, Waiting
<1>8. Free(c)
  <2>1. p2p[c].socks = 0 /\ script[c].socks \in Nat \ {0}
    BY ScriptTypes DEF AloneAt, IntentInv, ShapeInv
  <2>2. QED BY <2>1 DEF Free
<1>9. rcv[c].msg.len = IF p + 1 <= n THEN p + 1 ELSE n
  BY <1>5 DEF Image
<1>10. rcv'[c].fw = rcv[c].msg.len /\ Resting(c)' /\ ImageTyped(c)'
  BY <1>1, <1>7, <1>8 DEF Resting, ImageTyped, SameMain, Kept
<1>11. CASE p = n
  <2>1. toClient[c] = toClient'[c] /\ Quiet(toClient[c])
    <3>0. 0 + n + 1 - (p + 1) = 0 /\ 0 + n + 2 - (p + 1) = 1
      BY <1>6, <1>11
    <3>1. Len(toClient[c]) \in {0, 1} /\ (Len(toClient[c]) = 1 => toClient[c][1] = Beat)
      BY <1>5, <3>0 DEF BlocksFrom
    <3>2. toClient[c] \in Seq(Messages)
      BY DEF Unbroken
    <3>3. QED BY <1>1, <3>1, <3>2, BeatLeft
  <2>2. Idle(c)'
    BY <1>1, <1>7, <1>10, <2>1 DEF Idle
  <2>3. Stage(c)'
    BY <2>2 DEF Stage
  <2>4. client'[c].status = "scc"
    BY <1>1, <1>5, <1>6, <1>8, <1>9, <1>11
  <2>5. IntentInv(c)'
    BY <1>1, <1>7, <1>10, <2>4 DEF AloneAt, IntentInv, SameMain, Kept, Asks, Sending
  <2>6. QED BY <2>3, <2>5 DEF AloneAt
<1>12. CASE p # n
  <2>1. p + 1 \in 0 .. n /\ rcv'[c].fw = p + 1 /\ rcv[c].fw # rcv[c].msg.len
    BY <1>5, <1>6, <1>9, <1>10, <1>12
  <2>2. client'[c].status = client[c].status
    BY <1>1, <2>1
  <2>3. Waiting(c)' /\ toServer'[c] = <<>>
    BY <1>1, <1>7, <2>2 DEF Waiting, SameMain
  <2>4. BlocksFrom(toClient'[c], 0, n, p + 1)
    BY <1>1, <1>5
  <2>5. Answered(c)'
    BY <1>10, <2>1, <2>3, <2>4 DEF Answered
  <2>6. Stage(c)'
    BY <2>5 DEF Stage
  <2>7. IntentInv(c)'
    BY <1>1, <1>7, <1>10, <2>2 DEF AloneAt, IntentInv, SameMain, Kept, Asks, Sending
  <2>8. QED BY <2>6, <2>7 DEF AloneAt
<1>13. QED BY <1>11, <1>12

\* The replies under way, less the first messages.
LEMMA ReplyTaken ==
  ASSUME NEW q \in Seq(Messages), NEW k \in {0, 1}, k = 1 => q[1] = Beat, ReplyFrom(q, k),
         NEW n \in Nat \ {0}, n <= Len(q)
  PROVE  LET t == SubSeq(q, n + 1, Len(q))
         IN  /\ k = 0 => q[1] \in {Plain, Closed, Ack} /\ Quiet(t)
             /\ k = 1 => q[1] = Beat /\ (n = 1 => ReplyFrom(t, 0)) /\ (n > 1 => Quiet(t))
<1> DEFINE t == SubSeq(q, n + 1, Len(q))
<1>1. /\ t \in Seq(Messages) /\ Len(t) = Len(q) - n
      /\ \A i \in 1 .. Len(q) - n : t[i] = q[n + i]
  BY Taken
<1>2. Len(q) \in Nat
  BY LenProperties
<1> HIDE DEF t
<1>3. /\ Len(q) \in {k + 1, k + 2} /\ q[k + 1] \in {Plain, Closed, Ack}
      /\ Len(q) = k + 2 => q[k + 2] = Beat
  BY DEF ReplyFrom
<1>4. ASSUME n > k
      PROVE  Quiet(t)
  <2>1. Len(t) \in {0, 1} /\ (Len(t) = 1 => Len(q) = k + 2 /\ n + 1 = k + 2)
    BY <1>1, <1>2, <1>3, <1>4
  <2>2. Len(t) = 1 => t[1] = Beat
    <3>1. SUFFICES ASSUME Len(t) = 1
                   PROVE  t[1] = Beat
      OBVIOUS
    <3>2. t[1] = q[n + 1]
      <4>1. Len(q) - n = 1
        BY <1>1, <3>1
      <4>2. 1 \in 1 .. Len(q) - n
        BY <4>1
      <4>3. QED BY <1>1, <4>2
    <3>3. QED BY <1>3, <2>1, <3>1, <3>2
  <2>3. QED BY <1>1, <2>1, <2>2, BeatLeft
<1>5. ASSUME k = 1, n = 1
      PROVE  ReplyFrom(t, 0)
  <2>1. Len(t) \in {1, 2} /\ (Len(t) = 2 => Len(q) = 3) /\ Len(t) = Len(q) - 1
    BY <1>1, <1>2, <1>3, <1>5
  <2>2. t[1] = q[2]
    <3>1. 1 \in 1 .. Len(q) - n /\ n + 1 = 2
      BY <1>2, <1>3, <1>5
    <3>2. QED BY <1>1, <3>1
  <2>3. ASSUME Len(t) = 2
        PROVE  t[2] = q[3]
    <3>1. 2 \in 1 .. Len(q) - n /\ n + 2 = 3
      <4>1. Len(q) = 3
        BY <2>1, <2>3
      <4>2. QED BY <1>5, <4>1
    <3>2. QED BY <1>1, <3>1
  <2>4. q[2] \in {Plain, Closed, Ack} /\ (Len(q) = 3 => q[3] = Beat)
    BY <1>3, <1>5
  <2>5. QED BY <2>1, <2>2, <2>3, <2>4 DEF ReplyFrom
<1>6. k = 0 => q[1] \in {Plain, Closed, Ack} /\ n > k
  BY <1>3
<1>7. k = 1 /\ n > 1 => n > k
  OBVIOUS
<1>8. QED BY <1>4, <1>5, <1>6, <1>7 DEF t

LEMMA BlocksTaken ==
  ASSUME NEW q \in Seq(Messages), NEW k \in {0, 1}, NEW n \in Nat, NEW p \in 0 .. n,
         BlocksFrom(q, k, n, p)
  PROVE  LET t == SubSeq(q, 2, Len(q))
         IN  /\ q[k + 1] = Image(IF p + 1 <= n THEN p + 1 ELSE n) /\ k + 1 <= Len(q)
             /\ k = 0 => BlocksFrom(t, 0, n, p + 1)
             /\ k = 1 => BlocksFrom(t, 0, n, p)
<1> DEFINE t == SubSeq(q, 1 + 1, Len(q))
<1>0. Len(q) \in Nat /\ p \in Nat /\ p <= n
  BY LenProperties
<1>1. /\ Len(q) \in {k + n + 1 - p, k + n + 2 - p}
      /\ \A i \in 1 .. n + 1 - p : q[k + i] = Image(IF p + i <= n THEN p + i ELSE n)
      /\ Len(q) = k + n + 2 - p => q[Len(q)] = Beat
  BY DEF BlocksFrom
<1>2. 1 <= Len(q) /\ k + 1 <= Len(q)
  BY <1>0, <1>1
<1>3. /\ t \in Seq(Messages) /\ Len(t) = Len(q) - 1
      /\ \A i \in 1 .. Len(q) - 1 : t[i] = q[1 + i]
  <2>1. ASSUME NEW j \in Nat \ {0}, j <= Len(q)
        PROVE  /\ SubSeq(q, j + 1, Len(q)) \in Seq(Messages)
               /\ Len(SubSeq(q, j + 1, Len(q))) = Len(q) - j
               /\ \A i \in 1 .. Len(q) - j : SubSeq(q, j + 1, Len(q))[i] = q[j + i]
    BY <2>1, Taken
  <2>2. 1 \in Nat \ {0}
    OBVIOUS
  <2>3. QED BY <1>2, <2>1, <2>2
<1>4. t = SubSeq(q, 2, Len(q))
  OBVIOUS
<1> HIDE DEF t
<1>5. q[k + 1] = Image(IF p + 1 <= n THEN p + 1 ELSE n)
  <2>1. 1 \in 1 .. n + 1 - p
    BY <1>0
  <2>2. QED BY <1>1, <2>1
<1>6. ASSUME Len(q) = k + n + 2 - p
      PROVE  t[Len(t)] = Beat
  <2>1. Len(t) \in 1 .. Len(q) - 1 /\ 1 + Len(t) = Len(q)
    BY <1>0, <1>3, <1>6
  <2>2. t[Len(t)] = q[1 + Len(t)]
    BY <1>3, <2>1
  <2>3. QED BY <1>1, <1>6, <2>1, <2>2
<1>7. ASSUME k = 0
      PROVE  BlocksFrom(t, 0, n, p + 1)
  <2>1. /\ Len(t) \in {0 + n + 1 - (p + 1), 0 + n + 2 - (p + 1)}
        /\ Len(t) = 0 + n + 2 - (p + 1) => Len(q) = k + n + 2 - p
    <3>1. Len(q) = n + 1 - p \/ Len(q) = n + 2 - p
      BY <1>0, <1>1, <1>7
    <3>2. /\ 0 + n + 1 - (p + 1) = n - p /\ 0 + n + 2 - (p + 1) = n + 1 - p
          /\ k + n + 2 - p = n + 2 - p
      BY <1>0, <1>7
    <3>3. QED BY <1>0, <1>3, <3>1, <3>2
  <2>2. ASSUME NEW i \in 1 .. n + 1 - (p + 1)
        PROVE  t[0 + i] = Image(IF p + 1 + i <= n THEN p + 1 + i ELSE n)
    <3>1. /\ i \in 1 .. Len(q) - 1 /\ i + 1 \in 1 .. n + 1 - p /\ 0 + i = i
          /\ k + (i + 1) = 1 + i /\ p + (i + 1) = p + 1 + i
      BY <1>0, <1>1, <1>7
    <3>2. t[i] = q[1 + i]
      BY <1>3, <3>1
    <3>3. q[1 + i] = Image(IF p + 1 + i <= n THEN p + 1 + i ELSE n)
      BY <1>1, <3>1
    <3>4. QED BY <3>1, <3>2, <3>3
  <2>3. QED BY <1>6, <2>1, <2>2 DEF BlocksFrom
<1>8. ASSUME k = 1
      PROVE  BlocksFrom(t, 0, n, p)
  <2>1. /\ Len(t) \in {0 + n + 1 - p, 0 + n + 2 - p}
        /\ Len(t) = 0 + n + 2 - p => Len(q) = k + n + 2 - p
    BY <1>0, <1>1, <1>3, <1>8
  <2>2. ASSUME NEW i \in 1 .. n + 1 - p
        PROVE  t[0 + i] = Image(IF p + i <= n THEN p + i ELSE n)
    <3>1. i \in 1 .. Len(q) - 1 /\ 0 + i = i /\ k + i = 1 + i
      BY <1>0, <1>1, <1>8
    <3>2. QED BY <1>1, <1>3, <3>1
  <2>3. QED BY <1>6, <2>1, <2>2 DEF BlocksFrom
<1>9. QED BY <1>2, <1>4, <1>5, <1>7, <1>8

\* The receiving thread takes what follows.
LEMMA AloneTake ==
  ASSUME ShapeInv, NEW c \in Clients, AloneAt(c), Unbroken(c), Take(c), cuts'[c] = 0
  PROVE  AloneAt(c)'
<1> DEFINE q == toClient[c]
<1>1. /\ rcv[c].pc = "recv" /\ SameMain(c) /\ SameStatus(c) /\ Kept(c)
      /\ conn'[c] = conn[c] /\ toServer'[c] = toServer[c] /\ rcv'[c].fw = rcv[c].fw
  BY TakenEffect
<1>2. PICK n \in Nat \ {0} :
        /\ n <= Len(q)
        /\ n > 1 => \A i \in 1 .. n : q[i].kind # "image"
        /\ toClient'[c] = SubSeq(q, n + 1, Len(q))
        /\ \/ n = 1 /\ q[1] = Beat /\ rcv'[c] = rcv[c]
           \/ /\ rcv'[c].pc = "note"
              /\ IF q[1] = Beat THEN n > 1 /\ rcv'[c].msg = Plain ELSE rcv'[c].msg = q[1]
  BY TakenEffect
<1>3. q \in Seq(Messages) /\ Len(q) \in Nat
  BY LenProperties DEF Unbroken
<1> HIDE DEF q
<1>4. IntentInv(c)'
  BY <1>1, IntentKept DEF AloneAt, Kept
<1>5. /\ Waiting(c)' = Waiting(c) /\ ImageTyped(c)' = ImageTyped(c)
      /\ ~ HoldsReply(c) /\ ~ HoldsBlock(c)
  BY <1>1 DEF Waiting, ImageTyped, SameMain, SameStatus, Kept, HoldsReply, HoldsBlock
<1>6. rcv'[c] = rcv[c] => Resting(c)'
  BY <1>1 DEF Resting
<1>7. ASSUME Quiet(q)
      PROVE  rcv'[c] = rcv[c] /\ Quiet(toClient'[c])
  <2>1. n = 1 /\ Len(q) = 1 /\ q[1] = Beat
    <3>1. n = 1 /\ Len(q) = 1
      <4>1. Len(q) \in Nat /\ Len(q) <= 1 /\ n <= Len(q) /\ n \in Nat \ {0}
        BY <1>2, <1>3, <1>7 DEF Quiet
      <4>2. \A k \in Nat, m \in Nat \ {0} : m <= k /\ k <= 1 => m = 1 /\ k = 1
        OBVIOUS
      <4>3. QED BY <4>1, <4>2
    <3>2. 1 \in 1 .. Len(q)
      BY <3>1
    <3>3. QED BY <1>7, <3>1, <3>2 DEF Quiet
  <2>2. toClient'[c] \in Seq(Messages) /\ Len(toClient'[c]) = 0
    BY <1>2, <1>3, <2>1, Taken
  <2>3. Quiet(toClient'[c])
    BY <2>2 DEF Quiet
  <2>4. QED BY <1>2, <2>1, <2>3
<1>8. ASSUME Idle(c) \/ Asked(c)
      PROVE  Stage(c)'
  <2>1. rcv'[c] = rcv[c] /\ Quiet(toClient'[c])
    BY <1>7, <1>8 DEF Idle, Asked, q
  <2>2. QED BY <1>1, <1>5, <1>6, <1>8, <2>1 DEF Idle, Asked, Stage
<1>9. ASSUME Answered(c)
      PROVE  Stage(c)'
  <2>1. Waiting(c)' /\ toServer'[c] = <<>>
    BY <1>1, <1>5, <1>9 DEF Answered
  <2>2. PICK k \in {0, 1} :
          /\ k = 1 => q[1] = Beat
          /\ \/ ReplyFrom(q, k)
             \/ /\ ImageTyped(c)
                /\ \E m \in 0 .. MaxBlocks : \E p \in 0 .. m :
                     BlocksFrom(q, k, m, p) /\ rcv[c].fw = p
    BY <1>9 DEF Answered, q
  <2>3. CASE ReplyFrom(q, k)
    <3>1. /\ k = 0 => q[1] \in {Plain, Closed, Ack} /\ Quiet(toClient'[c])
          /\ k = 1 => /\ q[1] = Beat
                      /\ n = 1 => ReplyFrom(toClient'[c], 0)
                      /\ n > 1 => Quiet(toClient'[c])
      BY <1>2, <1>3, <2>2, <2>3, ReplyTaken
    <3>2. CASE k = 1 /\ n = 1
      <4>1. rcv'[c] = rcv[c] /\ ReplyFrom(toClient'[c], 0)
        BY <1>2, <3>1, <3>2
      <4>2. Answered(c)'
        BY <1>6, <2>1, <4>1 DEF Answered
      <4>3. QED BY <4>2 DEF Stage
    <3>3. CASE ~ (k = 1 /\ n = 1)
      <4>1. Quiet(toClient'[c]) /\ rcv'[c].pc = "note" /\ rcv'[c].msg \in {Plain, Closed, Ack}
        BY <1>2, <2>2, <3>1, <3>3, Apart
      <4>2. HoldsReply(c)'
        BY <2>1, <4>1 DEF HoldsReply
      <4>3. QED BY <4>2 DEF Stage
    <3>4. QED BY <3>2, <3>3
  <2>4. ASSUME ImageTyped(c), NEW m \in 0 .. MaxBlocks, NEW p \in 0 .. m,
               BlocksFrom(q, k, m, p), rcv[c].fw = p
        PROVE  Stage(c)'
    <3>0. m \in Nat /\ p \in Nat /\ p <= m
      BY ScriptTypes
    <3>1. /\ q[k + 1] = Image(IF p + 1 <= m THEN p + 1 ELSE m) /\ k + 1 <= Len(q)
          /\ k = 0 => BlocksFrom(SubSeq(q, 2, Len(q)), 0, m, p + 1)
          /\ k = 1 => BlocksFrom(SubSeq(q, 2, Len(q)), 0, m, p)
      BY <1>3, <2>4, <3>0, BlocksTaken
    <3>2. q[k + 1].kind = "image" /\ q[k + 1] # Beat
      BY <3>0, <3>1, Apart
    <3>3. n <= 1
      BY <1>2, <3>2, <2>2
    <3>4. n = 1 /\ toClient'[c] = SubSeq(q, 2, Len(q))
      BY <1>2, <3>3
    <3>5. CASE k = 0
      <4>1. rcv'[c].pc = "note" /\ rcv'[c].msg = Image(IF p + 1 <= m THEN p + 1 ELSE m)
        BY <1>2, <3>1, <3>2, <3>5
      <4>2. BlocksFrom(toClient'[c], 0, m, p + 1) /\ rcv'[c].fw = p /\ ImageTyped(c)'
        BY <1>1, <1>5, <2>4, <3>1, <3>4, <3>5
      <4>3. HoldsBlock(c)'
        BY <2>1, <4>1, <4>2 DEF HoldsBlock
      <4>4. QED BY <4>3 DEF Stage
    <3>6. CASE k = 1
      <4>1. rcv'[c] = rcv[c]
        BY <1>2, <2>2, <3>4, <3>6
      <4>2. BlocksFrom(toClient'[c], 0, m, p) /\ rcv'[c].fw = p /\ ImageTyped(c)'
        BY <1>1, <1>5, <2>4, <3>1, <3>4, <3>6
      <4>3. Answered(c)'
        BY <1>6, <2>1, <4>1, <4>2 DEF Answered
      <4>4. QED BY <4>3 DEF Stage
    <3>7. QED BY <3>5, <3>6
  <2>5. QED BY <2>2, <2>3, <2>4
<1>10. QED BY <1>4, <1>5, <1>8, <1>9 DEF AloneAt, Stage

\* What the server sends to who is alone.
LEMMA AnswerQueue ==
  ASSUME ChatAssumption, NEW q \in Seq(Messages), Quiet(q), NEW l \in Late,
         NEW r \in Seq(Messages)
  PROVE  /\ Len(q) \in {0, 1} /\ (Len(q) = 1 => q[1] = Beat /\ (q \o (r \o l))[1] = Beat)
         /\ Len(q \o (r \o l)) \in {Len(q) + Len(r), Len(q) + Len(r) + 1}
         /\ \A i \in 1 .. Len(r) : (q \o (r \o l))[Len(q) + i] = r[i]
         /\ Len(q \o (r \o l)) = Len(q) + Len(r) + 1 =>
              (q \o (r \o l))[Len(q) + Len(r) + 1] = Beat
<1>1. l \in Seq(Messages) /\ Len(l) \in {0, 1} /\ (Len(l) = 1 => l[1] = Beat)
  <2>1. l \in Seq(Messages)
    BY SentTypes
  <2>2. CASE l = <<>>
    BY <2>1, <2>2
  <2>3. CASE l = <<Beat>>
    BY <2>1, <2>3
  <2>4. QED BY <2>2, <2>3 DEF Late
<1>2. Len(q) \in Nat /\ Len(r) \in Nat
  BY LenProperties
<1> DEFINE t == r \o l
<1>3. /\ t \in Seq(Messages) /\ Len(t) = Len(r) + Len(l)
      /\ \A i \in 1 .. Len(r) + Len(l) : t[i] = IF i <= Len(r) THEN r[i] ELSE l[i - Len(r)]
  BY <1>1, Joined
<1> HIDE DEF t
<1> DEFINE u == q \o t
<1>4. /\ Len(u) = Len(q) + Len(t)
      /\ \A i \in 1 .. Len(q) + Len(t) : u[i] = IF i <= Len(q) THEN q[i] ELSE t[i - Len(q)]
  BY <1>3, Joined
<1> HIDE DEF u
<1>5. Len(q) \in {0, 1} /\ (Len(q) = 1 => q[1] = Beat /\ u[1] = Beat)
  <2>1. Len(q) \in {0, 1}
    <3>1. Len(q) \in Nat /\ Len(q) <= 1
      BY <1>2 DEF Quiet
    <3>2. \A k \in Nat : k <= 1 => k \in {0, 1}
      OBVIOUS
    <3>3. QED BY <3>1, <3>2
  <2>2. ASSUME Len(q) = 1
        PROVE  q[1] = Beat /\ u[1] = Beat
    <3>1. 1 \in 1 .. Len(q) /\ 1 <= Len(q) /\ 1 \in 1 .. Len(q) + Len(t)
      BY <1>1, <1>2, <1>3, <2>2
    <3>2. QED BY <1>4, <3>1 DEF Quiet
  <2>3. QED BY <2>1, <2>2
<1>6. Len(u) = Len(q) + Len(r) + Len(l)
  BY <1>1, <1>2, <1>3, <1>4
<1>7. \A i \in 1 .. Len(r) : u[Len(q) + i] = r[i]
  <2>1. TAKE i \in 1 .. Len(r)
  <2>2. /\ Len(q) + i \in 1 .. Len(q) + Len(t) /\ ~ (Len(q) + i <= Len(q))
        /\ Len(q) + i - Len(q) = i /\ i \in 1 .. Len(r) + Len(l) /\ i <= Len(r)
    BY <1>1, <1>2, <1>3
  <2>3. u[Len(q) + i] = t[i]
    BY <1>4, <2>2
  <2>4. QED BY <1>3, <2>2, <2>3
<1>8. ASSUME Len(l) = 1
      PROVE  u[Len(q) + Len(r) + 1] = Beat
  <2> DEFINE i == Len(r) + 1
  <2>2. /\ Len(q) + i \in 1 .. Len(q) + Len(t) /\ ~ (Len(q) + i <= Len(q))
        /\ Len(q) + i - Len(q) = i /\ i \in 1 .. Len(r) + Len(l) /\ ~ (i <= Len(r))
        /\ i - Len(r) = 1 /\ Len(q) + i = Len(q) + Len(r) + 1
    BY <1>2, <1>3, <1>8
  <2> HIDE DEF i
  <2>3. u[Len(q) + i] = t[i]
    BY <1>4, <2>2
  <2>4. t[i] = l[1]
    BY <1>3, <2>2
  <2>5. QED BY <1>1, <1>8, <2>2, <2>3, <2>4
<1>9. /\ Len(u) \in {Len(q) + Len(r), Len(q) + Len(r) + 1}
      /\ Len(u) = Len(q) + Len(r) + 1 => Len(l) = 1
  <2>1. Len(l) = 0 \/ Len(l) = 1
    BY <1>1
  <2>2. Len(q) + Len(r) + 0 = Len(q) + Len(r) /\ Len(q) + Len(r) # Len(q) + Len(r) + 1
    BY <1>2
  <2>3. QED BY <1>6, <2>1, <2>2
<1>10. QED BY <1>5, <1>7, <1>8, <1>9 DEF t, u

LEMMA AloneAnswer ==
  ASSUME ShapeInv, NEW c \in Clients, Alone(c), AloneAt(c), Unbroken(c), Answer(c),
         cuts'[c] = 0
  PROVE  AloneAt(c)'
<1> DEFINE q == toClient[c]
           m == toServer[c][1]
           t == toClient'[c]
<1>0. ChatAssumption
  BY ChatAssumption
<1>1. /\ conn[c] = "up" /\ toServer[c] # <<>>
      /\ SameMain(c) /\ rcv'[c] = rcv[c] /\ SameStatus(c)
      /\ script' = script /\ p2p'[c].socks = p2p[c].socks /\ Replied(c, m)
  BY AnsweredEffect
<1>2. PICK n \in Nat \ {0} : /\ n <= Len(toServer[c])
                             /\ toServer'[c] = SubSeq(toServer[c], n + 1, Len(toServer[c]))
  BY AnsweredEffect
<1>3. Asked(c)
  BY <1>1 DEF AloneAt, Stage, Idle, Answered, HoldsReply, HoldsBlock
<1>4. /\ q \in Seq(Messages) /\ toServer[c] \in Seq(Contents)
  BY DEF Unbroken
<1>5. toServer'[c] = <<>>
  <2>1. Len(toServer[c]) = 1 /\ n = 1
    BY <1>2, <1>3 DEF Asked
  <2>2. toServer'[c] \in Seq(Contents) /\ Len(toServer'[c]) = 0
    BY <1>2, <1>4, <2>1, Taken
  <2>3. QED BY <2>2, EmptySeq
<1>6. /\ m.to = script[c].peer
      /\ m.cmd \in Commands /\ m.cmd # "peer" /\ (m.cmd = "ndt" => script[c].peer # c)
  <2>1. 1 \in 1 .. Len(toServer[c])
    BY <1>3 DEF Asked
  <2>2. /\ m.to = script[c].peer
        /\ \E j \in 1 .. main[c].typed : m.cmd = script[c].types[j]
    BY <2>1 DEF AloneAt, IntentInv
  <2>3. PICK j \in 1 .. main[c].typed : m.cmd = script[c].types[j]
    BY <2>2
  <2>4. main[c].typed \in Nat /\ main[c].typed <= Len(script[c].types)
    BY DEF ShapeInv, ClientTypes, Mains
  <2>5. j \in 1 .. Len(script[c].types) /\ j \in DOMAIN script[c].types
    BY <2>4, ScriptTypes, LenProperties
  <2>6. script[c].types[j] \in Commands
    BY <2>5, ScriptTypes
  <2>7. script[c].types[j] # "peer" /\ (script[c].types[j] = "ndt" => script[c].peer # c)
    BY <2>5 DEF Alone
  <2>8. QED BY <2>2, <2>3, <2>6, <2>7
<1>7. IntentInv(c)'
  BY <1>1, <1>5, IntentKept DEF AloneAt, Replied
<1>8. PICK r \in Replies(m.cmd), l \in Late : t = q \o (r \o l)
  <2>1. Replied(c, m)
    BY <1>1
  <2>2. "dig" \notin Commands
    BY ContentKinds
  <2> HIDE DEF m
  <2>3. PICK pre \in Passed(c), r \in Replies(m.cmd), l \in Late :
          /\ toClient'[c] = (toClient[c] \o pre) \o (r \o l)
          /\ pre # <<>> => m.to = c /\ m.cmd \in {"ndt", "dig"}
          /\ r = <<Image(0)>> => c \in missing'
          /\ r = <<Closed>> => conn' = [conn EXCEPT ![c] = "mute"]
    BY <2>1 DEF Replied
  <2>4. pre = <<>>
    BY <1>6, <2>2, <2>3
  <2>5. toClient[c] \o pre = toClient[c]
    BY <1>4, <2>4, ConcatEmptySeq
  <2>6. QED BY <2>3, <2>5
<1>9. r \in Seq(Messages)
  BY <1>0, <1>6, SentTypes
<1>10. Quiet(q)
  BY <1>3 DEF Asked
<1>11. /\ Len(q) \in {0, 1} /\ (Len(q) = 1 => t[1] = Beat)
       /\ Len(t) \in {Len(q) + Len(r), Len(q) + Len(r) + 1}
       /\ \A i \in 1 .. Len(r) : t[Len(q) + i] = r[i]
       /\ Len(t) = Len(q) + Len(r) + 1 => t[Len(q) + Len(r) + 1] = Beat
  <2> DEFINE u == q \o (r \o l)
  <2>1. t = u
    BY <1>8
  <2>2. q \in Seq(Messages) /\ Quiet(q)
    BY <1>4, <1>10
  <2> HIDE DEF q, t
  <2>3. /\ Len(q) \in {0, 1} /\ (Len(q) = 1 => q[1] = Beat /\ u[1] = Beat)
        /\ Len(u) \in {Len(q) + Len(r), Len(q) + Len(r) + 1}
        /\ \A i \in 1 .. Len(r) : u[Len(q) + i] = r[i]
        /\ Len(u) = Len(q) + Len(r) + 1 => u[Len(q) + Len(r) + 1] = Beat
    BY <1>0, <1>9, <2>2, AnswerQueue
  <2> HIDE DEF u
  <2>4. QED BY <2>1, <2>3
<1>12. /\ Waiting(c)' /\ Resting(c)'
       /\ m.cmd = "image" => rcv'[c].fw = 0 /\ ImageTyped(c)'
  BY <1>1, <1>3 DEF Asked, Waiting, Resting, ImageTyped, SameMain, SameStatus
<1> HIDE DEF q, m, t
<1>13. ASSUME NEW a \in {Plain, Closed, Ack}, r = <<a>>
       PROVE  ReplyFrom(t, Len(q))
  <2>1. Len(r) = 1 /\ r[1] = a /\ 1 \in 1 .. Len(r)
    BY <1>13
  <2>2. t[Len(q) + 1] = a
    BY <1>11, <2>1
  <2>3. Len(q) + Len(r) = Len(q) + 1 /\ Len(q) + Len(r) + 1 = Len(q) + 2
    BY <1>11, <2>1
  <2>4. QED BY <1>11, <1>13, <2>2, <2>3 DEF ReplyFrom
<1>14. ASSUME NEW n1 \in 0 .. MaxBlocks, Len(r) = n1 + 1,
              \A i \in 1 .. n1 + 1 : r[i] = Image(IF i <= n1 THEN i ELSE n1)
       PROVE  BlocksFrom(t, Len(q), n1, 0)
  <2>0. n1 \in Nat
    OBVIOUS
  <2>1. /\ Len(q) + Len(r) = Len(q) + n1 + 1 - 0
        /\ Len(q) + Len(r) + 1 = Len(q) + n1 + 2 - 0 /\ n1 + 1 - 0 = n1 + 1
    BY <1>11, <1>14, <2>0
  <2>2. \A i \in 1 .. n1 + 1 : 0 + i = i
    OBVIOUS
  <2>3. QED BY <1>11, <1>14, <2>1, <2>2 DEF BlocksFrom
<1>15. \/ \E a \in {Plain, Closed, Ack} : r = <<a>>
       \/ /\ m.cmd = "image"
          /\ \E n1 \in 0 .. MaxBlocks :
               /\ Len(r) = n1 + 1
               /\ \A i \in 1 .. n1 + 1 : r[i] = Image(IF i <= n1 THEN i ELSE n1)
  <2>1. CASE m.cmd \in {"login", "logout", "online"}
    BY <1>8, <2>1 DEF Replies
  <2>2. CASE m.cmd = "ndt"
    BY <1>8, <2>2 DEF Replies
  <2>3. CASE m.cmd = "image"
    <3>1. r = <<Image(0)>> \/ \E k \in 1 .. MaxBlocks : r = Blocks(k)
      BY <1>8, <2>3 DEF Replies
    <3>2. MaxBlocks \in Nat
      BY ScriptTypes
    <3>3. CASE r = <<Image(0)>>
      <4>1. Len(r) = 0 + 1 /\ \A i \in 1 .. 0 + 1 : r[i] = Image(IF i <= 0 THEN i ELSE 0)
        BY <3>3
      <4>2. 0 \in 0 .. MaxBlocks
        BY <3>2
      <4>3. QED BY <2>3, <4>1, <4>2
    <3>4. ASSUME NEW k \in 1 .. MaxBlocks, r = Blocks(k)
          PROVE  \E n1 \in 0 .. MaxBlocks :
                   /\ Len(r) = n1 + 1
                   /\ \A i \in 1 .. n1 + 1 : r[i] = Image(IF i <= n1 THEN i ELSE n1)
      <4>1. /\ Len(r) = k + 1
            /\ \A i \in 1 .. k + 1 : r[i] = Image(IF i <= k THEN i ELSE k)
        BY <1>0, <3>4, BlockTypes
      <4>2. k \in 0 .. MaxBlocks
        BY <3>2
      <4>3. QED BY <4>1, <4>2
    <3>5. QED BY <2>3, <3>1, <3>3, <3>4
  <2>4. QED BY <1>6, <2>1, <2>2, <2>3 DEF Commands, m
<1>16. Answered(c)'
  <2>1. Len(q) \in {0, 1} /\ (Len(q) = 1 => t[1] = Beat)
    BY <1>11
  <2>2. CASE \E a \in {Plain, Closed, Ack} : r = <<a>>
    <3>1. ReplyFrom(t, Len(q))
      BY <1>13, <2>2
    <3>2. QED BY <1>5, <1>12, <2>1, <3>1 DEF Answered, t
  <2>3. ASSUME m.cmd = "image", NEW n1 \in 0 .. MaxBlocks, Len(r) = n1 + 1,
               \A i \in 1 .. n1 + 1 : r[i] = Image(IF i <= n1 THEN i ELSE n1)
        PROVE  Answered(c)'
    <3>1. BlocksFrom(t, Len(q), n1, 0)
      BY <1>14, <2>3
    <3>2. 0 \in 0 .. n1 /\ rcv'[c].fw = 0 /\ ImageTyped(c)'
      BY <1>12, <2>3
    <3>3. QED BY <1>5, <1>12, <2>1, <3>1, <3>2 DEF Answered, t
  <2>4. QED BY <1>15, <2>2, <2>3
<1>17. QED BY <1>7, <1>16 DEF AloneAt, Stage

LEMMA AloneStep ==
  ASSUME ShapeInv, LostInv, AbsentInv, AloneInv, Next
  PROVE  AloneInv'
<1>1. PICK e \in Clients :
        \/ OutOfCall(e)
        \/ P2PStart(e) \/ AskFill(e) \/ AskCopy(e) \/ AskSend(e) \/ Try(e) \/ Await(e)
        \/ Send(e)
  BY NextSplits
<1>2. script' = script
  BY ScriptKept
<1>3. ASSUME NEW c \in Clients, Alone(c)', Alive(c)', cuts'[c] = 0
      PROVE  AloneAt(c)'
  <2>0. cuts[c] = 0 /\ Unbroken(c)
    BY <1>3, CutsGrow DEF LostInv
  <2>1. Alone(c)
    BY <1>2, <1>3 DEF Alone
  <2>2. e = c
    <3>1. script[e].types # <<>>
      BY <1>1, ActsAlive DEF AbsentInv, Alive
    <3>2. QED BY <2>1, <3>1 DEF Alone
  <2>3. Alive(c)
    <3>1. CASE Answer(c)
      BY <1>3, <3>1 DEF Alive, Answer
    <3>2. CASE Drop(c)
      BY <1>3, <3>2, DropEffect DEF Alive, SameMain
    <3>3. CASE OutOfCall(c) /\ ~ Answer(c) /\ ~ Drop(c)
      BY <3>3 DEF OutOfCall, Connecting, Connected, ConnectFails, Type, Quit, Poll, Mark, Fill,
         Copy, StartReceiver, Take, TakeEnd, Note, ActPlain, ActChat, ActImage, ActEnd, ExitLost,
         Loop, Datagram, At, Receives
    <3>4. CASE P2PStart(c) \/ AskFill(c) \/ AskCopy(c) \/ AskSend(c) \/ Try(c) \/ Await(c)
               \/ Send(c)
      BY <3>4 DEF P2PStart, AskFill, AskCopy, AskSend, Try, Await, Send, At, Receives
    <3>5. QED BY <1>1, <2>2, <3>1, <3>2, <3>3, <3>4
  <2>4. AloneAt(c)
    BY <2>0, <2>1, <2>3 DEF AloneInv, AloneAt
  <2>5. ~ (P2PStart(c) \/ AskFill(c) \/ AskCopy(c) \/ AskSend(c) \/ Try(c) \/ Await(c))
    <3>1. /\ rcv[c].pc \in {"unborn", "recv", "exit", "note", "act"}
          /\ rcv[c].pc = "act" => rcv[c].msg.kind \in {"plain", "e8", "end", "ack", "image"}
      BY <2>4, StageHands DEF AloneAt
    <3>2. QED BY <3>1 DEF P2PStart, AskFill, AskCopy, AskSend, Try, Await, Receives
  <2>6. ~ (ConnectFails(c) \/ Quit(c) \/ ExitLost(c))
    BY <1>3, LeaveEffect DEF Ends, Alive
  <2>7. CASE Poll(c) \/ Type(c) \/ Mark(c) \/ Fill(c) \/ Copy(c) \/ Send(c)
    BY <1>3, <2>1, <2>4, <2>7, AlonePoll, AloneType, AloneCompose, AloneSend
  <2>8. CASE Connecting(c) \/ Connected(c) \/ Drop(c) \/ Loop(c) \/ Datagram(c) \/ Answer(c)
    BY <1>3, <2>0, <2>1, <2>4, <2>8, AloneLink, AloneAnswer
  <2>9. CASE StartReceiver(c) \/ Take(c) \/ TakeEnd(c) \/ Note(c) \/ ActPlain(c) \/ ActChat(c)
             \/ ActImage(c) \/ ActEnd(c)
    BY <1>3, <2>0, <2>4, <2>9, AloneStart, AloneTake, AloneTakeEnd, AloneNote, AloneChat,
       AloneImage
  <2>10. QED BY <1>1, <2>2, <2>5, <2>6, <2>7, <2>8, <2>9 DEF OutOfCall
<1>4. QED BY <1>3 DEF AloneInv, AloneAt

LEMMA TurnInit ==
  ASSUME Init
  PROVE  TurnInv
<1>1. LostInv
  BY LostInit
<1>2. /\ \A c \in Clients :
            /\ conn[c] = "none" /\ toServer[c] = <<>> /\ toClient[c] = <<>>
            /\ client[c].status = "tcp" /\ rcv[c].pc = "unborn" /\ rcv[c].fw = 0
            /\ p2p[c].socks = 0 /\ main[c].received = "tcp"
            /\ main[c].pc = IF script[c].types = <<>> THEN "ended" ELSE "poll"
  BY DEF Init
<1>3. AbsentInv
  BY <1>2 DEF AbsentInv
<1>4. ASSUME NEW c \in Clients, Alive(c)
      PROVE  IntentInv(c) /\ Stage(c)
  <2>1. main[c].pc = "poll"
    BY <1>2, <1>4 DEF Alive
  <2>2. IntentInv(c)
    BY <1>2, <2>1 DEF IntentInv, Asks, Sending
  <2>3. Idle(c)
    BY <1>2 DEF Idle, Quiet, Resting
  <2>4. QED BY <2>2, <2>3 DEF Stage
<1>5. QED BY <1>1, <1>3, <1>4 DEF TurnInv, AloneInv

LEMMA TurnStutter ==
  ASSUME TurnInv, UNCHANGED vars
  PROVE  TurnInv'
<1> USE DEF vars, net, ghosts
<1>1. LostInv'
  <2>1. \A c \in Clients : /\ SocksInv(c)' = SocksInv(c) /\ EarlyInv(c)' = EarlyInv(c)
                           /\ OwedInv(c)' = OwedInv(c)
    BY DEF SocksInv, EarlyInv, OwedInv, Owed, Pending, Excepted, Alive, At
  <2>2. \A c \in Clients : ImageInv(c)' = ImageInv(c) /\ Unbroken(c)' = Unbroken(c)
    BY DEF ImageInv, InHand, Held, Excepted, Alive, Unbroken
  <2>3. QED BY <2>1, <2>2 DEF TurnInv, LostInv
<1>2. AbsentInv'
  BY DEF TurnInv, AbsentInv
<1>3. \A c \in Clients : /\ Alone(c)' = Alone(c) /\ Alive(c)' = Alive(c)
                         /\ IntentInv(c)' = IntentInv(c)
  BY DEF Alone, Alive, IntentInv, ImageTyped
<1>4. \A c \in Clients : /\ Waiting(c)' = Waiting(c) /\ ImageTyped(c)' = ImageTyped(c)
                         /\ Resting(c)' = Resting(c) /\ Ended(c)' = Ended(c)
  BY DEF Waiting, ImageTyped, Resting, Ended
<1>5. \A c \in Clients : Stage(c)' = Stage(c)
  BY <1>4 DEF Stage, Idle, Asked, Answered, HoldsReply, HoldsBlock
<1>6. AloneInv'
  BY <1>3, <1>5 DEF TurnInv, AloneInv
<1>7. QED BY <1>1, <1>2, <1>6 DEF TurnInv

LEMMA TurnImplied ==
  ASSUME Inv, TurnInv
  PROVE  Turns
<1>1. TypeOK
  <2>1. client \in [Clients -> [flag : {-1, 0, 1, 2, 64}, count : 0 .. MAXRETRY * MaxSocks,
                               status : {"err", "scc", "tcp", "p2p", "ndt"}]]
    <3>1. ASSUME NEW c \in Clients
          PROVE  client[c].count \in 0 .. MAXRETRY * MaxSocks
      <4>1. /\ client[c].count \in Nat /\ p2p[c].socks \in Nat /\ p2p[c].socks <= MaxSocks
            /\ MAXRETRY \in Nat /\ MaxSocks \in Nat /\ rcv[c].tries \in Nat
            /\ rcv[c].tries <= MAXRETRY - 1
        BY Amounts DEF Inv
      <4>2. TriesToCome(c) \in Nat
        BY <4>1 DEF TriesToCome
      <4>3. client[c].count + TriesToCome(c) <= MAXRETRY * p2p[c].socks
        BY DEF Inv, CountInv
      <4>4. MAXRETRY * p2p[c].socks <= MAXRETRY * MaxSocks
        BY <4>1
      <4>5. MAXRETRY * p2p[c].socks \in Nat /\ MAXRETRY * MaxSocks \in Nat
        BY <4>1
      <4>6. QED BY <4>1, <4>2, <4>3, <4>4, <4>5
    <3>2. client \in [Clients -> States]
      BY DEF Inv, ShapeInv, ClientTypes
    <3>3. QED BY <3>1, <3>2 DEF States, Statuses
  <2>2. \A c \in Clients :
          /\ \A i \in DOMAIN toServer[c] : toServer[c][i] \in Contents \cup {Rest}
          /\ \A i \in DOMAIN toClient[c] : toClient[c][i] \in Pieces
    <3>1. ASSUME NEW c \in Clients
          PROVE  toServer[c] \in Seq(Contents \cup {Rest}) /\ toClient[c] \in Seq(Pieces)
      BY DEF Inv, ShapeInv, NetTypes, Orders
    <3>2. ASSUME NEW S, NEW q \in Seq(S)
          PROVE  \A i \in DOMAIN q : q[i] \in S
      BY <3>2, ElementOfSeq, LenProperties
    <3>3. QED BY <3>1, <3>2
  <2>3. \A c \in Clients :
          /\ main[c].pc \in {"poll", "prompt", "mark", "fill", "copy", "send", "ended"}
          /\ main[c].typed \in 0 .. Len(script[c].types) /\ main[c].cmd \in Commands
    BY ScriptTypes DEF Inv, ShapeInv, ClientTypes, Mains
  <2>4. \A c \in Clients :
          /\ rcv[c].pc \in {"unborn", "recv", "note", "act", "exit", "askfill", "askcopy",
                            "asksend", "try", "await"}
          /\ rcv[c].msg \in Sights /\ rcv[c].tries \in 0 .. MAXRETRY - 1
          /\ rcv[c].fw \in 0 .. MaxBlocks /\ rcv[c].dig \in Contents
          /\ p2p[c].pc \in {"unborn", "loop", "blocked", "spins", "left"}
          /\ p2p[c].socks \in 0 .. MaxSocks
    BY DEF Inv, ShapeInv, ClientTypes, Receivers, Callers, Calling, Asking
  <2>5. QED BY <2>1, <2>2, <2>3, <2>4 DEF TypeOK, Inv, ShapeInv, NetTypes, ClientTypes,
            GhostTypes, Links
<1>2. InTurn
  <2>1. SUFFICES ASSUME NEW c \in Clients, Alone(c), cuts[c] = 0,
                        main[c].pc \in {"prompt", "mark", "fill", "copy", "send"}
                 PROVE  /\ toServer[c] = <<>> /\ Pending(c) = {}
                        /\ rcv[c].pc = "note" => rcv[c].msg = End
    BY DEF InTurn
  <2>2. Idle(c)
    BY <2>1, BusyIdle DEF TurnInv, AloneInv, Alive, Waiting
  <2>3. Pending(c) = {}
    <3>1. DOMAIN toClient[c] = 1 .. Len(toClient[c])
      BY <2>1, LenProperties DEF TurnInv, LostInv, Unbroken
    <3>2. QED BY <2>2, <3>1 DEF Idle, Quiet, Pending
  <2>4. QED BY <2>2, <2>3 DEF Idle, Resting, Ended
<1>3. NoLostTurn
  <2>1. SUFFICES ASSUME NEW c \in Clients, At(c, "poll"), client[c].status = "err",
                        conn[c] = "up", ~ Excepted(c)
                 PROVE  \/ toServer[c] # <<>> \/ Pending(c) # {}
                        \/ rcv[c].pc = "note"
                        \/ rcv[c].pc = "act" /\ rcv[c].msg.kind \in {"chat", "ack", "image"}
    BY DEF NoLostTurn
  <2>2. cuts[c] = 0
    <3>1. cuts[c] \in Nat
      BY DEF Inv, ShapeInv, GhostTypes
    <3>2. QED BY <2>1, <3>1 DEF Excepted
  <2>3. OwedInv(c)
    BY <2>2 DEF TurnInv, LostInv
  <2>4. QED BY <2>1, <2>3 DEF OwedInv, Owed
<1>4. QED BY <1>1, <1>2, <1>3 DEF Turns

\* Commands and replies take turns: no reply is spent on nothing, and a client that is alone
\* is asked for its next command when nothing of the last is under way.
THEOREM TurnsKept == Spec => []Turns
<1>1. Init => Inv /\ TurnInv
  BY InitInv, TurnInit
<1>2. Inv /\ TurnInv /\ [Next]_vars => (Inv /\ TurnInv)'
  <2>1. SUFFICES ASSUME Inv, TurnInv, [Next]_vars
                 PROVE  Inv' /\ TurnInv'
    OBVIOUS
  <2>2. CASE Next
    <3>1. Inv'
      BY <2>1, <2>2, ShapeStep, CountStep DEF Inv
    <3>2. LostInv' /\ AbsentInv' /\ AloneInv'
      BY <2>1, <2>2, LostStep, AbsentStep, AloneStep DEF Inv, TurnInv
    <3>3. QED BY <3>1, <3>2 DEF TurnInv
  <2>3. CASE UNCHANGED vars
    BY <2>1, <2>3, StutterInv, TurnStutter
  <2>4. QED BY <2>1, <2>2, <2>3
<1>3. Inv /\ TurnInv => Turns
  BY TurnImplied
<1>4. QED BY <1>1, <1>2, <1>3, PTL DEF Spec

=============================================================================
