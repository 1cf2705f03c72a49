----------------------------- MODULE ChatClient -----------------------------
(***************************************************************************)
(* The console chat client: WinNTKline/IMclient/imclient.cpp over          *)
(* WinNTKline/KlineUtil/IM/client.cc, as LinxSrvc/IM/Makefile builds it    *)
(* (Linux, _DEBUG), together with what LinxSrvc/IM/IM.cc answers.          *)
(*                                                                         *)
(* A client has a main thread that prompts for commands and sends them, a  *)
(* thread that receives (parseRcvMsg, which also runs p2pMessage), and a   *)
(* thread that receives datagrams (RecvThreadProc).  They share g_client   *)
(* and g_content without a lock.                                           *)
(*                                                                         *)
(* Both ends take what one recv of 256 bytes returns for one message.  The *)
(* connection is a stream: a read may return several messages, of which    *)
(* the program looks at the first, or end within one, and the next read    *)
(* then begins in the middle.  A message is cut at most once.              *)
(***************************************************************************)
EXTENDS Integers, Sequences, FiniteSets

CONSTANTS
  Clients,
  Scripts,    \* per client, what the user types, the peer that NETNDT and PEER2P name, and
              \* two bounds: socks, descriptors to be had; cuts, reads that end within a message
  MAXRETRY,   \* tries of p2pMessage
  MaxCount,   \* number of tries after which failures end RecvThreadProc (30)
  MaxSocks,   \* bound on the datagram sockets until descriptors run out; none is closed
  MaxBlocks,  \* bound on the blocks of an image
  MaxMerge,   \* bound on the messages that one read returns
  None        \* no user

Commands == {"login", "logout", "online", "image", "ndt", "peer"}

ASSUME ChatAssumption ==
  /\ None \notin Clients
  /\ \A s \in Scripts, c \in Clients :
       /\ s[c].types \in Seq(Commands) /\ s[c].peer \in Clients
       /\ s[c].socks \in 1 .. MaxSocks /\ s[c].cuts \in Nat
  /\ {MAXRETRY, MaxCount, MaxSocks, MaxBlocks, MaxMerge} \subseteq Nat \ {0}

VARIABLES
  script,     \* one of Scripts, all along; who types nothing is not there
  conn,       \* connection: none, connecting, up, mute (the server has left it) or lost
  online,     \* the users that the server takes for logged in
  toServer, toClient,
  client,     \* g_client: flag, status, count
  content,    \* g_content: the command, the sender's name, the name of the peer
  main,       \* main thread: pc, received and cmd (its locals), typed (commands so far)
  rcv,        \* receiving thread: pc, msg, tries, fw (fw_len), dig (MessageHost)
  p2p,        \* datagram thread: pc; frame: does pp_sock exist; socks: sockets opened
  called,     \* clients to which a datagram has been sent
  cuts,       \* per client, the reads on its connection that have ended within a message
  missing     \* clients that have been told that there is no image

net == <<conn, online, toServer, toClient>>
ghosts == <<cuts, missing>>
vars == <<script, net, client, content, main, rcv, p2p, called, ghosts>>

Plain == [kind |-> "plain"]   \* any reply that is only printed
Beat == [kind |-> "beat"]     \* two zero bytes
Closed == [kind |-> "e8"]     \* "Logging status invalid, we will close this connect."
Chat == [kind |-> "chat"]     \* a message of another client, status 200
Ack == [kind |-> "ack"]       \* the reply to NETNDT, without that status
Image(n) == [kind |-> "image", len |-> n]
\* kind addr: the reply to PEER2P; dig: a request passed on.  No port if of is None.
Address(kind, name, user) == [kind |-> kind, name |-> name, of |-> user]
Stray(n) == [kind |-> "stray", len |-> n]   \* data whose second byte is above 15
End == [kind |-> "end"]       \* nothing received: size <= 0
Rest == [kind |-> "rest"]     \* in a stream: what is left of a message

Users == Clients \cup {None}
Contents == [cmd : Commands \cup {"dig"}, me : Users, to : Users]
Messages == {Plain, Beat, Closed, Chat, Ack, End} \cup {Image(n) : n \in 0 .. MaxBlocks}
  \cup {Address(k, u, a) : k \in {"addr", "dig"}, u \in Users, a \in Users}
Pieces == Messages \cup {Rest}     \* of the stream to a client
Sights == Messages \cup {Stray(n) : n \in 0 .. MaxBlocks}     \* what a read is taken for

Init ==
  /\ script \in Scripts
  /\ conn = [c \in Clients |-> "none"] /\ online = {}
  /\ toServer = [c \in Clients |-> <<>>] /\ toClient = [c \in Clients |-> <<>>]
  /\ client = [c \in Clients |-> [flag |-> 0, status |-> "tcp", count |-> 0]]
  /\ content = [c \in Clients |-> [cmd |-> "online", me |-> None, to |-> None]]
  /\ main = [c \in Clients |-> [pc |-> IF script[c].types = <<>> THEN "ended" ELSE "poll",
                                received |-> "tcp", cmd |-> "online", typed |-> 0]]
  /\ rcv = [c \in Clients |-> [pc |-> "unborn", msg |-> Plain, tries |-> 0, fw |-> 0,
                               dig |-> [cmd |-> "dig", me |-> None, to |-> None]]]
  /\ p2p = [c \in Clients |-> [pc |-> "unborn", frame |-> FALSE, socks |-> 0]]
  /\ called = {} /\ cuts = [c \in Clients |-> 0] /\ missing = {}

Alive(c) == main[c].pc # "ended"
At(c, pc) == Alive(c) /\ main[c].pc = pc
Receives(c, pc) == Alive(c) /\ rcv[c].pc = pc
MainTo(c, pc) == main' = [main EXCEPT ![c].pc = pc]
RcvTo(c, pc) == rcv' = [rcv EXCEPT ![c].pc = pc]
Free(c) == p2p[c].socks < script[c].socks     \* a descriptor can still be had
SetRecvState(c, s) == client' = [client EXCEPT ![c].status = s]

\* exit, return from main, or a fatal signal: all threads end and the connection is gone.
Exit(c) ==
  /\ MainTo(c, "ended")
  /\ conn' = [conn EXCEPT ![c] = "lost"] /\ online' = online \ {c}
  /\ toServer' = [toServer EXCEPT ![c] = <<>>] /\ toClient' = [toClient EXCEPT ![c] = <<>>]

-----------------------------------------------------------------------------
(* Chat_Msg, in a thread of its own *)

Connecting(c) ==
  /\ Alive(c) /\ conn[c] = "none" /\ conn' = [conn EXCEPT ![c] = "connecting"]
  /\ UNCHANGED <<script, online, toServer, toClient, client, content, main, rcv, p2p, called, ghosts>>

Connected(c) ==
  /\ Alive(c) /\ conn[c] = "connecting" /\ conn' = [conn EXCEPT ![c] = "up"]
  /\ UNCHANGED <<script, online, toServer, toClient, client, content, main, rcv, p2p, called, ghosts>>

ConnectFails(c) ==
  /\ Alive(c) /\ conn[c] = "connecting" /\ Exit(c)
  /\ UNCHANGED <<script, client, content, rcv, p2p, called, ghosts>>

StartReceiver(c) ==
  /\ Receives(c, "unborn") /\ conn[c] \notin {"none", "connecting"}
  /\ client' = [client EXCEPT ![c].flag = 1] /\ RcvTo(c, "recv")
  /\ UNCHANGED <<script, net, content, main, p2p, called, ghosts>>

-----------------------------------------------------------------------------
(* The main thread *)

\* The head of the loop.  With RCV_ERR there is nothing to do but to look again.
Poll(c) ==
  /\ At(c, "poll")
  /\ \/ client[c].flag < 0 /\ Exit(c)
     \/ /\ client[c].flag >= 0 /\ client[c].status # "err"
        /\ main' = [main EXCEPT ![c].pc = "prompt", ![c].received = client[c].status]
        /\ UNCHANGED net
  /\ UNCHANGED <<script, client, content, rcv, p2p, called, ghosts>>

\* The user answers the prompt; after RCV_NDT the command is NETNDT whatever it was.
Type(c) ==
  /\ At(c, "prompt") /\ main[c].typed < Len(script[c].types)
  /\ main' = [main EXCEPT ![c].pc = "mark", ![c].typed = @ + 1,
       ![c].cmd = IF main[c].received = "ndt" THEN "ndt" ELSE script[c].types[main[c].typed + 1]]
  /\ UNCHANGED <<script, net, client, content, rcv, p2p, called, ghosts>>

\* Mutant of Mark: the state is left as it is.
MarkNot(c) ==
  /\ At(c, "mark") /\ MainTo(c, "fill")
  /\ UNCHANGED <<script, net, client, content, rcv, p2p, called, ghosts>>

Mark(c) ==
  /\ At(c, "mark") /\ SetRecvState(c, "err") /\ MainTo(c, "fill")
  /\ UNCHANGED <<script, net, content, rcv, p2p, called, ghosts>>

\* SendClientMessage clears all but the command, then copies, then sends.
Cleared(m) == [cmd |-> IF m.cmd = "dig" THEN "peer" ELSE m.cmd, me |-> None, to |-> None]

Fill(c) ==
  /\ At(c, "fill")
  /\ \/ client[c].flag < 0 /\ Exit(c) /\ UNCHANGED content
     \/ /\ client[c].flag >= 0 /\ MainTo(c, "copy") /\ UNCHANGED net
        /\ content' = [content EXCEPT ![c] = Cleared(@)]
  /\ UNCHANGED <<script, client, rcv, p2p, called, ghosts>>

Copy(c) ==
  /\ At(c, "copy") /\ MainTo(c, "send")
  /\ content' = [content EXCEPT ![c] = [cmd |-> main[c].cmd, me |-> c, to |-> script[c].peer]]
  /\ UNCHANGED <<script, net, client, rcv, p2p, called, ghosts>>

\* What is sent is what the shared g_content holds by now.
Transmit(c) ==
  toServer' = [toServer EXCEPT ![c] = IF conn[c] = "up" THEN Append(@, content[c]) ELSE @]

\* On a socket that was never connected, or whose peer has gone, send may be fatal.
Send(c) ==
  /\ At(c, "send")
  /\ \/ /\ conn[c] \in {"up", "mute", "lost"} /\ Transmit(c) /\ MainTo(c, "poll")
        /\ UNCHANGED <<conn, online, toClient>>
     \/ /\ conn[c] \in {"none", "lost"} /\ Exit(c)
  /\ UNCHANGED <<script, client, content, rcv, p2p, called, ghosts>>

\* The prompt is answered with something that is no number.
Quit(c) ==
  /\ At(c, "prompt") /\ Exit(c)
  /\ UNCHANGED <<script, client, content, rcv, p2p, called, ghosts>>

MainStep(c) == Poll(c) \/ Mark(c) \/ Fill(c) \/ Copy(c) \/ Send(c)

-----------------------------------------------------------------------------
(* parseRcvMsg *)

\* What the first bytes of a stream q look like when a read ends with (whole) or within
\* the n-th message.  Data in the place of a header can be taken for any command.
Parts(m) ==
  {Plain, m} \cup CASE m.kind = "chat" -> {Ack}
                    [] m.kind = "image" -> {Image(n) : n \in 0 .. m.len}
                    [] m.kind \in {"addr", "dig"} -> {Address(m.kind, m.name, None)}
                    [] OTHER -> {}
Strays ==
  {Plain, Beat, Closed, Chat, Ack} \cup {Address("addr", None, u) : u \in Users}
    \cup {Image(n) : n \in 0 .. MaxBlocks} \cup {Stray(n) : n \in 0 .. MaxBlocks}
Looks(q, n, whole) ==
  IF q[1] = Rest THEN Strays ELSE IF n = 1 /\ ~ whole THEN Parts(q[1]) ELSE {q[1]}

\* A block of an image fills a read.
Returns(q, n, whole) ==
  /\ n <= Len(q) /\ (whole \/ q[n] # Rest)
  /\ \A i \in 1 .. n : q[i].kind = "image" => i = n /\ (n = 1 \/ ~ whole)
Border(c, whole) ==
  \/ whole /\ UNCHANGED cuts
  \/ ~ whole /\ cuts[c] < script[c].cuts /\ cuts' = [cuts EXCEPT ![c] = @ + 1]
Left(q, n, whole) == (IF whole THEN <<>> ELSE <<Rest>>) \o SubSeq(q, n + 1, Len(q))

\* Mutant of Take: what follows a heartbeat in the same read is skipped with it.
TakeSkipping(c) ==
  /\ Receives(c, "recv") /\ client[c].flag # 0
  /\ \E n \in 1 .. MaxMerge, whole \in BOOLEAN :
       /\ Returns(toClient[c], n, whole)
       /\ toClient' = [toClient EXCEPT ![c] = Left(@, n, whole)]
       /\ Border(c, whole)
       /\ \E m \in Looks(toClient[c], n, whole) :
            IF m = Beat THEN UNCHANGED rcv
            ELSE rcv' = [rcv EXCEPT ![c].pc = "note", ![c].msg = m]
  /\ UNCHANGED <<script, conn, online, toServer, client, content, main, p2p, called, missing>>

\* One recv; a lone heartbeat is skipped.
Take(c) ==
  /\ Receives(c, "recv") /\ client[c].flag # 0
  /\ \E n \in 1 .. MaxMerge, whole \in BOOLEAN :
       /\ Returns(toClient[c], n, whole)
       /\ toClient' = [toClient EXCEPT ![c] = Left(@, n, whole)]
       /\ Border(c, whole)
       /\ \E m \in Looks(toClient[c], n, whole) :
            IF m = Beat /\ n = 1 /\ whole THEN UNCHANGED rcv
            ELSE rcv' = [rcv EXCEPT ![c].pc = "note", ![c].msg = IF m = Beat THEN Plain ELSE m]
  /\ UNCHANGED <<script, conn, online, toServer, client, content, main, p2p, called, missing>>

TakeEnd(c) ==
  /\ Receives(c, "recv") /\ client[c].flag # 0 /\ conn[c] = "lost" /\ toClient[c] = <<>>
  /\ rcv' = [rcv EXCEPT ![c].pc = "note", ![c].msg = End]
  /\ UNCHANGED <<script, net, client, content, main, p2p, called, ghosts>>

\* The part of the function that _DEBUG brings in.
Note(c) ==
  /\ Receives(c, "note") /\ RcvTo(c, "act")
  /\ SetRecvState(c, IF rcv[c].msg.kind \in {"chat", "ack", "image"} THEN "err" ELSE "tcp")
  /\ UNCHANGED <<script, net, content, main, p2p, called, ghosts>>

\* Nothing more to do.
ActPlain(c) ==
  /\ Receives(c, "act")
  /\ \/ rcv[c].msg.kind = "plain"
     \/ rcv[c].msg.kind \in {"addr", "dig"} /\ rcv[c].msg.of = None
  /\ RcvTo(c, "recv")
  /\ UNCHANGED <<script, net, client, content, main, p2p, called, ghosts>>

ActChat(c) ==
  /\ Receives(c, "act") /\ rcv[c].msg.kind \in {"chat", "ack"}
  /\ SetRecvState(c, IF rcv[c].msg.kind = "chat" THEN "ndt" ELSE "tcp") /\ RcvTo(c, "recv")
  /\ UNCHANGED <<script, net, content, main, p2p, called, ghosts>>

\* Mutant of ActImage: the length is not kept.
ImageForgets(c) ==
  /\ Receives(c, "act") /\ rcv[c].msg.kind \in {"image", "stray"} /\ Free(c)
  /\ RcvTo(c, "recv")
  /\ IF rcv[c].fw = rcv[c].msg.len THEN SetRecvState(c, "scc") ELSE UNCHANGED client
  /\ UNCHANGED <<script, net, content, main, p2p, called, ghosts>>

\* A block of an image; the last length comes twice.  Without a descriptor for the
\* file the block is dropped.
ActImage(c) ==
  /\ Receives(c, "act") /\ rcv[c].msg.kind \in {"image", "stray"}
  /\ IF Free(c)
     THEN rcv' = [rcv EXCEPT ![c].pc = "recv", ![c].fw = rcv[c].msg.len]
     ELSE RcvTo(c, "recv")
  /\ IF Free(c) /\ rcv[c].fw = rcv[c].msg.len
     THEN SetRecvState(c, "scc") ELSE UNCHANGED client
  /\ UNCHANGED <<script, net, content, main, p2p, called, ghosts>>

\* SetChatActive(size), then exit; size is positive after "e8".
ActEnd(c) ==
  /\ Receives(c, "act") /\ rcv[c].msg.kind \in {"e8", "end"}
  /\ \E size \in IF rcv[c].msg.kind = "e8" THEN {64} ELSE {0, -1} :
       client' = [client EXCEPT ![c].flag = size]
  /\ RcvTo(c, "exit")
  /\ UNCHANGED <<script, net, content, main, p2p, called, ghosts>>

\* Mutant of ExitLost: after an orderly close the thread goes back to recv.
ExitOnError(c) ==
  /\ Receives(c, "exit") /\ client[c].flag # 0 /\ Exit(c)
  /\ UNCHANGED <<script, client, content, rcv, p2p, called, ghosts>>

ExitLost(c) ==
  /\ Receives(c, "exit") /\ Exit(c)
  /\ UNCHANGED <<script, client, content, rcv, p2p, called, ghosts>>

-----------------------------------------------------------------------------
(* p2pMessage, on the receiving thread *)

\* A socket that is never closed.  Without one, or when it cannot be bound, the call ends
\* with 0, which is taken for no answer.
P2PStart(c) ==
  /\ Receives(c, "act") /\ rcv[c].msg.kind \in {"addr", "dig"} /\ rcv[c].msg.of # None
  /\ \/ /\ SetRecvState(c, "p2p") /\ RcvTo(c, "recv")
        /\ p2p' = [p2p EXCEPT ![c].socks = IF Free(c) THEN @ + 1 ELSE @]
     \/ /\ Free(c)
        /\ p2p' = [p2p EXCEPT ![c].socks = @ + 1]
        /\ rcv' = [rcv EXCEPT ![c].tries = 0,
             ![c].pc = IF client[c].flag = 2 THEN "try" ELSE "askfill",
             ![c].dig = [cmd |-> "dig", me |-> content[c].me, to |-> rcv[c].msg.name]]
        /\ UNCHANGED client
  /\ UNCHANGED <<script, net, content, main, called, ghosts>>

\* The request for the server, through SendClientMessage.
AskFill(c) ==
  /\ Receives(c, "askfill") /\ RcvTo(c, "askcopy")
  /\ content' = [content EXCEPT ![c] = Cleared(@)]
  /\ UNCHANGED <<script, net, client, main, p2p, called, ghosts>>

AskCopy(c) ==
  /\ Receives(c, "askcopy") /\ RcvTo(c, "asksend")
  /\ content' = [content EXCEPT ![c] = rcv[c].dig]
  /\ UNCHANGED <<script, net, client, main, p2p, called, ghosts>>

AskSend(c) ==
  /\ Receives(c, "asksend") /\ RcvTo(c, "try")
  /\ \/ Transmit(c) /\ UNCHANGED <<conn, online, toClient, main>>
     \/ conn[c] = "lost" /\ Exit(c)
  /\ UNCHANGED <<script, client, content, p2p, called, ghosts>>

\* Two datagrams.  If one cannot be sent the call ends at once, with a negative value.
\* The first try of all starts the thread that waits for an answer, with the address of
\* the local pp_sock.
Try(c) ==
  /\ Receives(c, "try")
  /\ \/ /\ RcvTo(c, "await") /\ called' = called \cup {rcv[c].msg.of}
        /\ p2p' = IF client[c].count = 0 THEN [p2p EXCEPT ![c].pc = "loop", ![c].frame = TRUE] ELSE p2p
        /\ client' = [client EXCEPT ![c].count = @ + 1]
     \/ /\ RcvTo(c, "recv") /\ called' \in {called, called \cup {rcv[c].msg.of}}
        /\ p2p' = [p2p EXCEPT ![c].frame = FALSE] /\ UNCHANGED client
  /\ UNCHANGED <<script, net, content, main, ghosts>>

\* Mutant of Await: one try too many.
AwaitLate(c) ==
  /\ Receives(c, "await")
  /\ LET answered == client[c].flag = 2
         last == rcv[c].tries = MAXRETRY
     IN /\ IF answered \/ last
           THEN RcvTo(c, "recv") /\ p2p' = [p2p EXCEPT ![c].frame = FALSE]
           ELSE rcv' = [rcv EXCEPT ![c].pc = "try", ![c].tries = @ + 1] /\ UNCHANGED p2p
        /\ IF last /\ ~ answered THEN SetRecvState(c, "p2p") ELSE UNCHANGED client
  /\ UNCHANGED <<script, net, content, main, called, ghosts>>

\* An answer ends the call with -1; a try without one is repeated, and the last ends it with 0.
Await(c) ==
  /\ Receives(c, "await")
  /\ LET answered == client[c].flag = 2
         last == rcv[c].tries + 1 = MAXRETRY
     IN /\ IF answered \/ last
           THEN RcvTo(c, "recv") /\ p2p' = [p2p EXCEPT ![c].frame = FALSE]
           ELSE rcv' = [rcv EXCEPT ![c].pc = "try", ![c].tries = @ + 1] /\ UNCHANGED p2p
        /\ IF last /\ ~ answered THEN SetRecvState(c, "p2p") ELSE UNCHANGED client
  /\ UNCHANGED <<script, net, content, main, called, ghosts>>

Receiver(c) ==
  \/ StartReceiver(c) \/ Take(c) \/ TakeEnd(c) \/ Note(c)
  \/ ActPlain(c) \/ ActChat(c) \/ ActImage(c) \/ ActEnd(c) \/ ExitLost(c)
  \/ P2PStart(c) \/ AskFill(c) \/ AskCopy(c) \/ AskSend(c) \/ Try(c) \/ Await(c)

-----------------------------------------------------------------------------
(* RecvThreadProc *)

\* While p2pMessage runs, pp_sock names the socket; later it is whatever the stack
\* holds: a descriptor to wait on, zero, or one on which recvfrom fails again and again.
Loop(c) ==
  /\ Alive(c) /\ p2p[c].pc = "loop" /\ client[c].flag # 0
  /\ \E to \in IF p2p[c].frame THEN {"blocked"}
               ELSE {"blocked", "spins"} \cup IF client[c].count > MaxCount THEN {"left"} ELSE {} :
       p2p' = [p2p EXCEPT ![c].pc = to]
  /\ UNCHANGED <<script, net, client, content, main, rcv, called, ghosts>>

\* A datagram gets through.
Datagram(c) ==
  /\ Alive(c) /\ p2p[c].pc = "blocked" /\ c \in called
  /\ client' = [client EXCEPT ![c].flag = 2] /\ p2p' = [p2p EXCEPT ![c].pc = "loop"]
  /\ UNCHANGED <<script, net, content, main, rcv, called, ghosts>>

-----------------------------------------------------------------------------
(* The server, one process per connection *)

\* Replies to those who have not logged in repeat the command.
Refusal(cmd) ==
  CASE cmd \in {"peer", "dig"} -> Address("addr", None, None)
    [] cmd = "image" -> Image(0)
    [] cmd = "ndt" -> Ack
    [] OTHER -> Plain

\* The blocks of an image of n blocks; the last length is sent again.
Blocks(n) == [i \in 1 .. n + 1 |-> IF i <= n THEN Image(i) ELSE Image(n)]

Reply(c, msgs) == toClient' = [toClient EXCEPT ![c] = @ \o msgs]

\* The command m of a client that has logged in, and a heartbeat if it was late.  Who asks
\* for a hole gets no reply.
Serve(c, m, late) ==
  /\ conn' = conn
  /\ online' = IF m.cmd = "logout" THEN online \ {c} ELSE online
  /\ \/ /\ m.cmd \in {"login", "logout", "online"} /\ UNCHANGED missing
        /\ Reply(c, <<Plain>> \o IF m.cmd = "logout" THEN <<>> ELSE late)
     \/ /\ m.cmd = "image"
        /\ \/ Reply(c, <<Image(0)>> \o late) /\ missing' = missing \cup {c}
           \/ (\E n \in 1 .. MaxBlocks : Reply(c, Blocks(n) \o late)) /\ UNCHANGED missing
     \/ /\ m.cmd = "ndt" /\ UNCHANGED missing
        /\ toClient' = [d \in Clients |-> toClient[d]
             \o (IF d = m.to /\ d \in online THEN <<Chat>> ELSE <<>>)
             \o (IF d = c THEN <<Ack>> \o late ELSE <<>>)]
     \/ /\ m.cmd = "peer" /\ UNCHANGED missing
        /\ Reply(c, <<Address("addr", m.me, IF m.to \in online THEN m.to ELSE None)>> \o late)
     \/ /\ m.cmd = "dig" /\ UNCHANGED missing
        /\ toClient' = [d \in Clients |-> toClient[d]
             \o (IF d = m.to /\ d \in online THEN <<Address("dig", m.me, d)>> ELSE <<>>)
             \o (IF d = c THEN late ELSE <<>>)]

\* A client that has not logged in: a login succeeds, fails, or is refused because the
\* table has the user already, and then the process leaves the connection.
Admit(c, m) ==
  /\ missing' = IF m.cmd = "image" THEN missing \cup {c} ELSE missing
  /\ \/ /\ m.cmd = "login" /\ m.me = c /\ online' = online \cup {c} /\ Reply(c, <<Plain>>)
        /\ UNCHANGED conn
     \/ /\ m.cmd = "login" /\ m.me = c /\ conn' = [conn EXCEPT ![c] = "mute"] /\ Reply(c, <<Closed>>)
        /\ UNCHANGED online
     \/ Reply(c, <<Refusal(m.cmd)>>) /\ UNCHANGED <<conn, online>>

\* A command that is cut may have lost its names, and the mark of a request to dig (less
\* than 8 bytes end the process, as in Drop); what begins within one is taken for any
\* command, or, its first byte not being zero, passed over.
Nameless(cmd) == [cmd |-> cmd, me |-> None, to |-> None]
Reads(q, n, whole) ==
  IF q[1] = Rest THEN {Rest} \cup {Nameless(k) : k \in Commands \cup {"dig"}}
  ELSE IF n = 1 /\ ~ whole THEN {q[1], Nameless(q[1].cmd), Cleared(q[1])} ELSE {q[1]}

\* One recv of the process that serves c: of the messages it returns only the first is
\* looked at.
Answer(c) ==
  /\ conn[c] = "up" /\ toServer[c] # <<>>
  /\ \E n \in 1 .. MaxMerge, whole \in BOOLEAN :
       /\ n <= Len(toServer[c]) /\ (whole \/ toServer[c][n] # Rest)
       /\ toServer' = [toServer EXCEPT ![c] = Left(@, n, whole)]
       /\ Border(c, whole)
       /\ \E m \in Reads(toServer[c], n, whole) :
            IF m = Rest THEN c \in online /\ UNCHANGED <<conn, online, toClient, missing>>
            ELSE IF c \in online THEN \E late \in {<<>>, <<Beat>>} : Serve(c, m, late)
            ELSE Admit(c, m)
  /\ UNCHANGED <<script, client, content, main, rcv, p2p, called>>

\* The connection breaks; what was sent before may still be read.
Drop(c) ==
  /\ conn[c] \in {"up", "mute"} /\ conn' = [conn EXCEPT ![c] = "lost"]
  /\ online' = online \ {c} /\ toServer' = [toServer EXCEPT ![c] = <<>>]
  /\ UNCHANGED <<script, toClient, client, content, main, rcv, p2p, called, ghosts>>

Next == \E c \in Clients :
  \/ Connecting(c) \/ Connected(c) \/ ConnectFails(c) \/ Type(c) \/ Quit(c) \/ MainStep(c)
  \/ Receiver(c) \/ Loop(c) \/ Datagram(c) \/ Answer(c) \/ Drop(c)

Spec == Init /\ [][Next]_vars

\* Threads and server processes run; users and the network need not act, and users are
\* also waited for between Mark and Fill, where ParseChatData reads names and messages.
FairSpec == Spec /\ \A c \in Clients :
  /\ WF_vars(Poll(c)) /\ WF_vars(Receiver(c)) /\ WF_vars(Answer(c))

-----------------------------------------------------------------------------
(* Properties *)

TypeOK ==
  /\ script \in Scripts /\ online \subseteq Clients /\ called \subseteq Clients
  /\ conn \in [Clients -> {"none", "connecting", "up", "mute", "lost"}]
  /\ \A c \in Clients :
       /\ \A i \in DOMAIN toServer[c] : toServer[c][i] \in Contents \cup {Rest}
       /\ \A i \in DOMAIN toClient[c] : toClient[c][i] \in Pieces
  /\ client \in [Clients -> [flag : {-1, 0, 1, 2, 64}, count : 0 .. MAXRETRY * MaxSocks,
                             status : {"err", "scc", "tcp", "p2p", "ndt"}]]
  /\ content \in [Clients -> Contents]
  /\ \A c \in Clients :
       /\ main[c].pc \in {"poll", "prompt", "mark", "fill", "copy", "send", "ended"}
       /\ main[c].typed \in 0 .. Len(script[c].types) /\ main[c].cmd \in Commands
       /\ rcv[c].pc \in {"unborn", "recv", "note", "act", "exit", "askfill", "askcopy",
                         "asksend", "try", "await"}
       /\ rcv[c].msg \in Sights /\ rcv[c].tries \in 0 .. MAXRETRY - 1
       /\ rcv[c].fw \in 0 .. MaxBlocks /\ rcv[c].dig \in Contents
       /\ p2p[c].pc \in {"unborn", "loop", "blocked", "spins", "left"}
       /\ p2p[c].socks \in 0 .. MaxSocks
  /\ cuts \in [Clients -> Nat] /\ missing \subseteq Clients

\* Between its commands and the replies to them a client that is alone keeps time: while
\* the user is asked, and until the command is sent, nothing of an earlier one is under
\* way.  (Alone: no other client is logged in, no datagrams, no message to itself,
\* which comes back before the reply and ends the wait for it, no second image, whose
\* first block is taken for the end if its length is that of the last.  And no read on its
\* connection has ended within a message: from then on data can be taken for commands, in
\* the middle of an image, and the user is asked while the rest of it comes.)
Alone(c) ==
  /\ \A d \in Clients \ {c} : script[d].types = <<>>
  /\ LET types == script[c].types
     IN /\ \A i \in DOMAIN types :
             types[i] # "peer" /\ (types[i] = "ndt" => script[c].peer # c)
        /\ Cardinality({i \in DOMAIN types : types[i] = "image"}) <= 1
Pending(c) == {i \in DOMAIN toClient[c] : toClient[c][i] # Beat}
InTurn ==
  \A c \in Clients :
    Alone(c) /\ cuts[c] = 0 /\ main[c].pc \in {"prompt", "mark", "fill", "copy", "send"} =>
      /\ toServer[c] = <<>> /\ Pending(c) = {}
      /\ rcv[c].pc = "note" => rcv[c].msg = End

\* No reply is spent on nothing: while the main thread waits in vain for a state above
\* RCV_ERR, a command or a message is still under way.  Excepted: after p2pMessage, whose
\* sockets leave no descriptor for a file, and whose request may have been sent in the
\* place of the command; an image that is gone after one has been fetched; and reads that
\* end within a message, as the rest of it is taken for another.
Excepted(c) == p2p[c].socks > 0 \/ c \in missing \/ cuts[c] > 0
NoLostTurn ==
  \A c \in Clients :
    At(c, "poll") /\ client[c].status = "err" /\ conn[c] = "up" /\ ~ Excepted(c) =>
      \/ toServer[c] # <<>> \/ Pending(c) # {}
      \/ rcv[c].pc = "note"
      \/ rcv[c].pc = "act" /\ rcv[c].msg.kind \in {"chat", "ack", "image"}

\* Commands and replies take turns, over variables of their types (flag and status of
\* g_client, which three threads set).
Turns == TypeOK /\ InTurn /\ NoLostTurn

\* So the user is asked again, whatever the other client sends meanwhile.
TurnComesBack ==
  \A c \in Clients : At(c, "poll") ~> ~ At(c, "poll") \/ Excepted(c)

\* A client whose connection is lost ends, also while its receiving thread is in p2pMessage.
LostEnds == \A c \in Clients : conn[c] = "lost" ~> ~ Alive(c)

\* Not kept by the code, and not in a run (the script for both is JustSeeking).
\* "then the server asks that client to send this host the message that digs the hole"
\* (client.cc:296): a request that is passed on reaches another client than its sender.
HoleFromPeer ==
  \A c \in Clients : \A i \in DOMAIN toClient[c] :
    toClient[c][i].kind = "dig" => toClient[c][i].name # c

\* "repeat this MAXRETRY times" (client.cc:297), of a flow in which a try that times out is
\* followed by a request to the server for a hole: before each new try it is asked again.
AsksAgain == [][\A c \in Clients : rcv'[c].tries > rcv[c].tries => rcv'[c].pc = "askfill"]_vars

=============================================================================
