----------------------------- MODULE KaiBroker ------------------------------
(***************************************************************************)
(* The message broker of LinxSrvc/IM/KaiSocket.cc (epoll build): start()   *)
(* accepts connections one per edge of the listening socket and detaches   *)
(* for each a thread that calls recv() again and again; recv() reads one   *)
(* message, stores it, and passes it on to the subscriber that registered  *)
(* last, if it has the same topic.                                         *)
(*                                                                         *)
(* All threads share m_network, the connection accepted last: recv() reads *)
(* from it, takes topic and role of the message at hand from it, and       *)
(* handleNotify(m_network) closes it.  m_lock is held inside handleNotify, *)
(* produce, consume and checkSsid only.  A pass over m_networks is one     *)
(* step here; what a pass does while another thread changes the vector is  *)
(* undefined and not modelled.  m_msgQue stores the addresses of local     *)
(* variables of recv(), so that only its length is defined: what consume   *)
(* finds there is any message.                                             *)
(***************************************************************************)
EXTENDS Naturals, Sequences, FiniteSets

CONSTANTS
  Subscribers, Publishers,  \* clients; each connects once
  TopicOf,                  \* their topics
  HastySets,                \* which clients may be hasty
  MaxFd,                    \* descriptors for connections: 1 .. MaxFd
  SocketBits,               \* what checkSsid finds in an ssid, by descriptor
  None

Clients == Subscribers \cup Publishers
Topics == {TopicOf[c] : c \in Clients}
Fds == 1 .. MaxFd

ASSUME BrokerAssumption ==
  /\ MaxFd \in Nat \ {0} /\ SocketBits \in [Fds -> Nat]
  /\ Subscribers \cap Publishers = {} /\ None \notin Clients /\ None \notin Fds
  /\ IsFiniteSet(Clients)
  /\ DOMAIN TopicOf = Clients /\ HastySets \subseteq SUBSET Clients

VARIABLES
  hasty,                    \* clients that act at any time, the others in turn: when
                            \* the broker is idle and the last subscriber registered
  arrived, left,            \* clients that have connected, and closed
  given, registered,        \* the descriptor in a client's ssid; who sent it back
  stream,                   \* what a client has sent and nobody has read
  backlog, edge,            \* the listening socket, and its event in epoll
  mpc,                      \* control of start()
  fds,                      \* the client behind each descriptor
  mnet, networks, prsid,    \* m_network, m_networks, and recv's static prsid
  stored,                   \* the length of m_msgQue
  tpc, conn, head, errno,   \* threads, one per client: control, the connection
                            \* and the header they hold, their errno
  inbox,                    \* whose messages a client has been sent
  disorder,                 \* a client left that was not m_network
  short,                    \* a read has returned less than it asked for
  garbled                   \* a thread has read something else than it took it for

client == <<arrived, left, given, registered, stream>>
listener == <<backlog, edge, mpc>>
route == <<mnet, networks, prsid>>
thread == <<tpc, conn, head, errno>>
seen == <<inbox, disorder, short, garbled>>
vars == <<hasty, client, listener, fds, route, stored, thread, seen>>

Init ==
  /\ hasty \in HastySets
  /\ arrived = {} /\ left = {}
  /\ given = [c \in Clients |-> None] /\ registered = {}
  /\ stream = [c \in Clients |-> <<>>]
  /\ backlog = <<>> /\ edge = FALSE /\ mpc = "epoll"
  /\ fds = [f \in Fds |-> None]
  /\ mnet = [sock |-> None, ssid |-> None, role |-> "none", topic |-> None]
  /\ networks = {} /\ prsid = None /\ stored = 0
  /\ tpc = [c \in Clients |-> "none"]
  /\ conn = [c \in Clients |-> None] /\ head = [c \in Clients |-> None]
  /\ errno = [c \in Clients |-> "0"]
  /\ inbox = [c \in Clients |-> <<>>] /\ disorder = FALSE
  /\ short = FALSE /\ garbled = FALSE

-----------------------------------------------------------------------------
(* The clients, external to the broker: Publisher() and Subscriber() *)

\* Every thread is blocked in recv, and so is start() in epoll_wait.
Idle ==
  /\ mpc = "epoll" /\ ~ edge
  /\ \A t \in Clients :
       \/ tpc[t] \in {"none", "ended"}
       \/ tpc[t] \in {"head", "body"} /\ stream[conn[t]] = <<>> /\ conn[t] \notin left

\* A subscriber that has its ssid answers with its registration at once.
Answered == arrived \cap Subscribers \subseteq registered \cup left

\* A publisher sends as soon as the kernel has connected it, accepted or not.
Connect(c) ==
  /\ c \notin arrived /\ (c \in hasty \/ (Idle /\ Answered))
  /\ arrived' = arrived \cup {c}
  /\ backlog' = Append(backlog, c) /\ edge' = TRUE
  /\ stream' = IF c \in Publishers THEN [stream EXCEPT ![c] = <<"head", "body">>]
                                   ELSE stream
  /\ UNCHANGED <<hasty, left, given, registered, mpc, fds, route, stored, thread, seen>>

\* A subscriber registers with the ssid that the broker has sent to it.
Subscribe(c) ==
  /\ c \in Subscribers \ (left \cup registered) /\ given[c] # None
  /\ (c \in hasty \/ Idle)
  /\ registered' = registered \cup {c}
  /\ stream' = [stream EXCEPT ![c] = <<"head", "body">>]
  /\ UNCHANGED <<hasty, arrived, left, given, listener, fds, route, stored, thread,
                 seen>>

Leave(c) ==
  /\ c \in arrived \ left /\ (c \in hasty \/ Idle)
  /\ left' = left \cup {c}
  /\ disorder' = (disorder \/ \A f \in Fds : fds[f] = c => f # mnet.sock)
  /\ UNCHANGED <<hasty, arrived, given, registered, stream, listener, fds, route,
                 stored, thread, inbox, short, garbled>>

-----------------------------------------------------------------------------
(* start() *)

\* The event is edge triggered: it is there again only after a new connection.
EpollWait ==
  /\ mpc = "epoll" /\ edge
  /\ edge' = FALSE /\ mpc' = "accept"
  /\ UNCHANGED <<hasty, client, backlog, fds, route, stored, thread, seen>>

Free == {f \in Fds : fds[f] = None}

\* The lowest descriptor that is free.
Accept ==
  /\ mpc = "accept"
  /\ \E f \in Free :
       /\ \A g \in Free : f <= g
       /\ fds' = [fds EXCEPT ![f] = Head(backlog)]
       /\ mnet' = [mnet EXCEPT !.sock = f]
  /\ mpc' = "register"
  /\ UNCHANGED <<hasty, client, backlog, edge, networks, prsid, stored, thread, seen>>

\* How many connections have been given an entry.
Entered == Cardinality({c \in Clients : given[c] # None})

\* The entry for the new connection inherits role and topic of the message that
\* was handled last. The ssid goes to the client, and a thread is detached.
Register ==
  /\ mpc = "register"
  /\ mnet' = [mnet EXCEPT !.ssid = Head(backlog)]
  /\ given' = [given EXCEPT ![Head(backlog)] = mnet.sock]
  /\ networks' = networks \cup {[sock |-> mnet.sock, ssid |-> Head(backlog),
                                role |-> mnet.role, topic |-> mnet.topic, at |-> Entered]}
  /\ tpc' = [tpc EXCEPT ![Head(backlog)] = "recv"]
  /\ backlog' = Tail(backlog) /\ mpc' = "epoll"
  /\ UNCHANGED <<hasty, arrived, left, registered, stream, edge, fds, prsid, stored,
                 conn, head, errno, seen>>

-----------------------------------------------------------------------------
(* A thread: runCallback, proxyHook and recv() *)

At(t, pc) == tpc[t] = pc /\ ~ garbled
ThreadTo(t, pc) == tpc' = [tpc EXCEPT ![t] = pc]

Entries(sock) == {n \in networks : n.sock = sock}

\* EBADF, from before or from closing a descriptor twice, makes the loop of
\* handleNotify take every entry from there on.
Swept(sock, badf) ==
  {n \in networks : badf \/ (fds[sock] = None /\ \E h \in Entries(sock) : h.at <= n.at)}

Close(lost) ==
  /\ networks' = networks \ lost
  /\ fds' = [f \in Fds |-> IF \E n \in lost : n.sock = f THEN None ELSE fds[f]]

\* handleNotify(m_network): the entries with that descriptor are closed and erased.
\* One is made first if there is none.
handleNotify(sock, badf) ==
  LET lost == Entries(sock) \cup Swept(sock, badf)
  IN  /\ networks' = networks \ lost
      /\ fds' = [f \in Fds |-> IF f = sock \/ \E n \in lost : n.sock = f THEN None
                                                                         ELSE fds[f]]

\* Mutant of GiveUp: the connection stays in m_networks.
GiveUpQuietly(t, badf) ==
  /\ fds' = [fds EXCEPT ![mnet.sock] = None] /\ ThreadTo(t, "ended")
  /\ UNCHANGED <<hasty, client, listener, mnet, networks, prsid, stored, conn, head,
                 errno, seen>>

\* recv() fails, or finds its peer gone: it closes m_network, and the thread ends.
GiveUp(t, badf) ==
  /\ handleNotify(mnet.sock, badf) /\ ThreadTo(t, "ended")
  /\ UNCHANGED <<hasty, client, listener, mnet, prsid, stored, conn, head, errno, seen>>

\* ::recv on m_network as it is now: pc is where the thread then blocks.
ReadFrom(t, pc) ==
  \/ fds[mnet.sock] = None /\ GiveUp(t, TRUE)
  \/ /\ fds[mnet.sock] # None
     /\ conn' = [conn EXCEPT ![t] = fds[mnet.sock]] /\ ThreadTo(t, pc)
     /\ UNCHANGED <<hasty, client, listener, fds, route, stored, head, errno, seen>>

CallRecv(t) ==
  /\ At(t, "recv")
  /\ \/ networks = {} /\ GiveUp(t, errno[t] = "EBADF")
     \/ networks # {} /\ ReadFrom(t, "head")

PeerGone(t) ==
  /\ At(t, "head") \/ At(t, "body")
  /\ stream[conn[t]] = <<>> /\ conn[t] \in left
  /\ GiveUp(t, errno[t] = "EBADF")

\* The header arrives, or a first piece of it: the rest is then taken for zeros, and read
\* as a body. A thread that has not read a whole header here is out of step with the
\* connection; the model stops there.
ReadHead(t) ==
  /\ At(t, "head") /\ stream[conn[t]] # <<>>
  /\ stream' = [stream EXCEPT ![conn[t]] = Tail(@)]
  /\ \E whole \in BOOLEAN :
       /\ short' = (short \/ ~ whole)
       /\ garbled' = (~ whole \/ Head(stream[conn[t]]) # "head")
  /\ head' = [head EXCEPT ![t] = conn[t]] /\ ThreadTo(t, "match")
  /\ UNCHANGED <<hasty, arrived, left, given, registered, listener, fds, route, stored,
                 conn, errno, inbox, disorder>>

Role(c) == IF c \in Publishers THEN "producer" ELSE "consumer"

\* A subscriber's header carries its ssid, a publisher's none.  setSsid keeps eight bits of
\* the descriptor, and may set more of them: what it takes for the address are the bytes
\* of a std::string, the pointer in them, of which a second part falls on these bits.
checkSsid(key, c) == c \in Subscribers /\ key = SocketBits[given[c]]

\* Mutant of Match: the network does not get the topic.
MatchNoTopic(t) ==
  /\ At(t, "match") /\ UNCHANGED networks
  /\ prsid' = IF \E n \in networks : checkSsid(n.sock, head[t])
              THEN head[t] ELSE prsid
  /\ mnet' = [mnet EXCEPT !.role = Role(head[t]), !.topic = TopicOf[head[t]]]
  /\ ThreadTo(t, "readbody")
  /\ UNCHANGED <<hasty, client, listener, fds, stored, conn, head, errno, seen>>

\* The network with the descriptor in the ssid becomes the one that consumes;
\* m_network takes role and topic of the message in any case.
Match(t) ==
  /\ At(t, "match")
  /\ networks' = {IF checkSsid(n.sock, head[t])
                  THEN [n EXCEPT !.role = Role(head[t]), !.topic = TopicOf[head[t]]]
                  ELSE n : n \in networks}
  /\ prsid' = IF \E n \in networks : checkSsid(n.sock, head[t])
              THEN head[t] ELSE prsid
  /\ mnet' = [mnet EXCEPT !.role = Role(head[t]), !.topic = TopicOf[head[t]]]
  /\ ThreadTo(t, "readbody")
  /\ UNCHANGED <<hasty, client, listener, fds, stored, conn, head, errno, seen>>

\* Mutant of CallRecvBody: what follows the header is not read.
SkipBody(t) ==
  /\ At(t, "readbody") /\ ThreadTo(t, "dispatch")
  /\ UNCHANGED <<hasty, client, listener, fds, route, stored, conn, head, errno, seen>>

CallRecvBody(t) == At(t, "readbody") /\ ReadFrom(t, "body")

\* One recv: if the body is longer than what has come, the rest stays in the stream.
ReadBody(t) ==
  /\ At(t, "body") /\ stream[conn[t]] # <<>>
  /\ \E whole \in BOOLEAN :
       /\ short' = (short \/ ~ whole)
       /\ stream' = IF whole THEN [stream EXCEPT ![conn[t]] = Tail(@)] ELSE stream
  /\ garbled' = (Head(stream[conn[t]]) # "body" \/ conn[t] # head[t])
  /\ ThreadTo(t, "dispatch")
  /\ UNCHANGED <<hasty, arrived, left, given, registered, listener, fds, route, stored,
                 conn, head, errno, inbox, disorder>>

\* Mutant of Dispatch: consume does not look whether the queue is empty.
DispatchUnchecked(t) ==
  /\ At(t, "dispatch") /\ ThreadTo(t, "forward")
  /\ stored' = IF Role(head[t]) = "producer" THEN stored + 1 ELSE stored - 1
  /\ UNCHANGED <<hasty, client, listener, fds, route, conn, head, errno, seen>>

\* produce and consume. A publisher's message is stored even if it can be passed
\* on, and a subscriber that finds the queue empty is given up. What consume
\* takes from the front it drops: rsync looks for a mark that no message has.
Dispatch(t) ==
  /\ At(t, "dispatch")
  /\ \/ /\ Role(head[t]) = "producer" /\ stored' = stored + 1
        /\ ThreadTo(t, "forward") /\ UNCHANGED <<fds, networks>>
     \/ /\ Role(head[t]) = "consumer" /\ stored > 0 /\ stored' \in {stored - 1, stored}
        /\ ThreadTo(t, "forward") /\ UNCHANGED <<fds, networks>>
     \/ /\ Role(head[t]) = "consumer" /\ stored = 0 /\ UNCHANGED stored
        /\ handleNotify(mnet.sock, errno[t] = "EBADF") /\ ThreadTo(t, "ended")
  /\ UNCHANGED <<hasty, client, listener, mnet, prsid, conn, head, errno, seen>>

\* Mutant of Targets: the topic is not compared.
TargetsAnyTopic == {n \in networks : n.role = "consumer" /\ n.ssid = prsid}

\* Mutant of Targets: every consumer of the topic.
TargetsAll == {n \in networks : n.role = "consumer" /\ n.topic = mnet.topic}

\* The networks a message goes to, by what m_network says of it.
Targets ==
  {n \in networks : n.role = "consumer" /\ n.ssid = prsid /\ n.topic = mnet.topic}

Deliver(t, c) ==
  /\ inbox' = [inbox EXCEPT ![c] = Append(@, head[t])]
  /\ UNCHANGED <<fds, networks, stored, errno, disorder, short, garbled>>

\* The network that handleNotify is called with by writes() is a reference into m_networks:
\* each erase moves the next entry there, and that is closed too. All of these have run_01,
\* which start() sets in m_network before it copies that again. (Then the loop of recv goes
\* on over slots that the vector has given up. They hold copies of the last entry, which is
\* none of prsid, unless there are no more slots.)
ClosedWith(n) == {m \in networks : m.at >= n.at}

\* writes() fails: it closes the network. After an EPIPE it does nothing. An earlier entry
\* with the same descriptor would be found first, and the reference moved away under the
\* search: the model stops there.
WriteFails(t, n) ==
  /\ \/ /\ fds[n.sock] = None /\ Close(networks)
        /\ errno' = [errno EXCEPT ![t] = "EBADF"] /\ UNCHANGED garbled
     \/ /\ fds[n.sock] # None /\ Close(ClosedWith(n))
        /\ IF \E m \in ClosedWith(n) : fds[m.sock] = None
           THEN errno' = [errno EXCEPT ![t] = "EBADF"]
           ELSE \E e \in {"EPIPE", "ECONNRESET"} : errno' = [errno EXCEPT ![t] = e]
        /\ garbled' = \E m \in Entries(n.sock) : m.at < n.at
  /\ UNCHANGED <<stored, inbox, disorder, short>>

\* A message that nobody takes is stored (again).
Forward(t) ==
  /\ At(t, "forward")
  /\ \/ /\ Targets = {} /\ stored' = stored + 1
        /\ UNCHANGED <<fds, networks, errno, seen>>
     \/ \E n \in Targets :
          LET c == fds[n.sock]
          IN  IF errno[t] = "EPIPE" \/ c \in left
              THEN \/ UNCHANGED <<fds, networks, stored, errno, seen>>
                   \/ errno[t] # "EPIPE" /\ WriteFails(t, n)
              ELSE IF c = None THEN WriteFails(t, n) ELSE Deliver(t, c)
  /\ ThreadTo(t, IF Role(head[t]) = "consumer" THEN "rsync" ELSE "recv")
  /\ UNCHANGED <<hasty, client, listener, mnet, prsid, conn, head>>

\* rsync() consumes as long as there is a consumer's message in front.
rsync(t) ==
  /\ At(t, "rsync") /\ stored' \in 0 .. stored /\ ThreadTo(t, "recv")
  /\ UNCHANGED <<hasty, client, listener, fds, route, conn, head, errno, seen>>

-----------------------------------------------------------------------------
ClientStep(c) == Connect(c) \/ Subscribe(c) \/ Leave(c)

Start == EpollWait \/ Accept \/ Register

ThreadStep(t) ==
  \/ CallRecv(t) \/ PeerGone(t) \/ ReadHead(t) \/ Match(t) \/ CallRecvBody(t)
  \/ ReadBody(t) \/ Dispatch(t) \/ Forward(t) \/ rsync(t)

Next == Start \/ \E c \in Clients : ClientStep(c) \/ ThreadStep(c)

Spec == Init /\ [][Next]_vars

-----------------------------------------------------------------------------
(* Properties *)

Roles == {"none", "producer", "consumer"}
Network == [sock : Fds \cup {None}, ssid : Clients \cup {None}, role : Roles,
            topic : Topics \cup {None}]
\* An entry of m_networks, with its place: the vector keeps the order of arrival.
Entry == [sock : Fds, ssid : Clients, role : Roles, topic : Topics \cup {None}, at : Nat]

TypeOK ==
  /\ arrived \subseteq Clients /\ left \subseteq arrived
  /\ given \in [Clients -> Fds \cup {None}] /\ registered \subseteq Subscribers
  /\ mpc \in {"epoll", "accept", "register"}
  /\ mpc = "accept" => backlog # <<>>
  /\ fds \in [Fds -> Clients \cup {None}]
  /\ mnet \in Network /\ networks \subseteq Entry
  /\ prsid \in Subscribers \cup {None} /\ stored \in Nat
  /\ tpc \in [Clients -> {"none", "recv", "head", "match", "readbody", "body",
                          "dispatch", "forward", "rsync", "ended"}]
  /\ conn \in [Clients -> Clients \cup {None}] /\ head \in [Clients -> Clients \cup {None}]
  /\ errno \in [Clients -> {"0", "EPIPE", "ECONNRESET", "EBADF"}]

\* Clients act one after the other, and so far every read has returned all it asked for.
Orderly == hasty = {} /\ ~ short

\* Although every thread reads from the connection accepted last, and asks for it again
\* between header and body, no thread reads another connection's body or a body for a
\* header, as long as clients act one after the other and messages arrive in one piece.
\* After a read that was short nothing brings a thread back into step.
InStep == Orderly => ~ garbled

\* Between two clients' actions the connections of m_networks, the open
\* descriptors and the threads blocked in recv correspond to each other: none
\* leaks, none is listed twice or after it was closed, and every client that is
\* still there and connected has its own thread.
OneThreadEach ==
  Orderly /\ Idle =>
    /\ \A n \in networks : fds[n.sock] = n.ssid
    /\ \A f \in Fds : fds[f] # None =>
         /\ Cardinality(Entries(f)) = 1
         /\ fds[f] \in left \/ (tpc[fds[f]] = "head" /\ conn[fds[f]] = fds[f])

\* The books of start, recv and handleNotify are right, of entries that have their types.
Bookkeeping == TypeOK /\ OneThreadEach

\* A new connection inherits role and topic of the last message, also that of a
\* subscriber; still no message is sent to a client that has not registered, even
\* if one client does not wait for its turn (with three that do not, a thread may
\* close the connection that start() is about to enter, and its descriptor is used
\* again under the old entry).
OnlySubscribers ==
  Cardinality(hasty) <= 1 => \A c \in Clients : inbox[c] # <<>> => c \in registered

\* A message only goes to a subscriber of its topic, though the topic is taken
\* from m_network, where each thread puts its own (clients in turn).
RightTopic ==
  Orderly => \A c \in Clients : \A n \in DOMAIN inbox[c] :
               TopicOf[inbox[c][n]] = TopicOf[c]

\* As long as only the connection accepted last is ever closed by its client,
\* the subscriber that registered last keeps its entry, its topic, its
\* descriptor and its thread: the next message on its topic reaches it.
LastStaysReachable ==
  Orderly /\ Idle /\ ~ disorder /\ prsid # None /\ prsid \notin left
  /\ tpc[prsid] = "head"
  => \E n \in networks :
       /\ n.ssid = prsid /\ fds[n.sock] = prsid
       /\ n.role = "consumer" /\ n.topic = TopicOf[prsid]

\* Not kept by the code, and not in a run.  recv(): "delete this publisher network" when
\* the peer has shut down - so the connection that is closed is the one that was being read.
OwnNetworkDeleted ==
  [][\A t \in Clients : \A f \in Fds :
       PeerGone(t) /\ fds'[f] # fds[f] => fds[f] = conn[t]]_vars

=============================================================================
