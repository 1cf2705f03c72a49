--------------------------- MODULE KaiBrokerProofs ---------------------------
(***************************************************************************)
(* Proofs about the broker for every number of clients, topics and         *)
(* descriptors: that its books have their types whatever the clients do,   *)
(* what holds if at most one client is hasty, and what of clients in turn  *)
(* as long as no read has been short.                                      *)
(***************************************************************************)
EXTENDS KaiBroker, FiniteSetTheorems, SequenceTheorems, TLAPS

-----------------------------------------------------------------------------
(* The inductive invariant: whatever the clients do *)

Serving == {"match", "readbody", "body", "dispatch", "forward", "rsync"}

ListenInv ==
  /\ backlog \in Seq(Clients) /\ edge \in BOOLEAN
  /\ edge \/ mpc # "epoll" => backlog # <<>>
  /\ edge /\ mpc # "epoll" => Len(backlog) >= 2

HoldInv ==
  \A t \in Clients :
    /\ tpc[t] # "none" => mnet.sock \in Fds
    /\ tpc[t] \in {"head", "body"} => conn[t] \in Clients
    /\ tpc[t] \in Serving => head[t] \in Clients

TypeInv ==
  /\ TypeOK /\ ListenInv /\ HoldInv
  /\ hasty \in SUBSET Clients
  /\ stream \in [Clients -> Seq({"head", "body"})]
  /\ inbox \in [Clients -> Seq(Clients)] /\ disorder \in BOOLEAN
  /\ short \in BOOLEAN /\ garbled \in BOOLEAN
  /\ mpc = "register" => mnet.sock \in Fds

-----------------------------------------------------------------------------
(* The inductive invariant: at most one client is hasty *)

\* The broker knows of clients that have connected, and a subscriber sends nothing
\* before it registers.
KnownInv ==
  /\ backlog \in Seq(arrived)
  /\ \A f \in Fds : fds[f] \in arrived \cup {None}
  /\ \A t \in Clients : conn[t] \in arrived \cup {None} /\ (given[t] # None => t \in arrived)
  /\ \A c \in Subscribers : stream[c] # <<>> => c \in registered
  /\ \A t \in Clients : tpc[t] = "match" /\ head[t] \in Subscribers => head[t] \in registered

\* Nothing that a hasty client does wakes this thread.
Resting(t) ==
  \/ tpc[t] \in {"none", "ended"}
  \/ tpc[t] \in {"head", "body"} /\ stream[conn[t]] = <<>> /\ conn[t] \notin left \cup hasty

\* Until the hasty client comes no thread is at work while a connection is accepted, and
\* nobody else can come while one is.
RestInv ==
  /\ hasty \cap arrived = {} /\ (edge \/ mpc # "epoll") => \A t \in Clients : Resting(t)
  /\ edge /\ mpc # "epoll" => hasty \cap arrived # {} /\ \A t \in Clients : Resting(t)

\* There will be no connection before all threads rest.
Late == ~ edge /\ hasty \subseteq arrived

\* An entry has its descriptor, unless that was closed before start() made the entry. Then
\* the thread of the new connection is the next to use it, and sweeps all entries away.
SockInv ==
  /\ \A n, m \in networks : n.sock = m.sock => n = m
  /\ \A n \in networks :
       \/ fds[n.sock] = n.ssid
       \/ fds[n.sock] = None /\ n.sock = mnet.sock /\ tpc[n.ssid] = "recv" /\ mpc = "epoll" /\ Late
  /\ mpc = "register" => /\ \A n \in networks : n.sock # mnet.sock
                         /\ fds[mnet.sock] = Head(backlog) \/ (fds[mnet.sock] = None /\ Late)

\* Messages go to who registered last.
RouteInv ==
  /\ prsid \in registered \cup {None}
  /\ \A c \in Clients : inbox[c] # <<>> => c \in registered

OneHasty == \A c, d \in hasty : c = d
HastyInv == KnownInv /\ RestInv /\ SockInv /\ RouteInv

-----------------------------------------------------------------------------
(* The inductive invariant: clients in turn, and no read has been short *)

Both == <<"head", "body">>

\* A thread reads from the connection it was made for, and finds there what it
\* expects.
OwnInv ==
  \A t \in Clients :
    /\ tpc[t] \in {"head", "body"} => conn[t] = t
    /\ tpc[t] \in Serving => head[t] = t
StreamInv ==
  \A t \in Clients :
    /\ tpc[t] \in {"none", "recv", "head"} => stream[t] \in {<<>>, Both}
    /\ tpc[t] \in {"match", "readbody", "body"} => stream[t] = <<"body">>
    /\ tpc[t] \in {"dispatch", "forward", "rsync"} => stream[t] = <<>>
    /\ t \in Subscribers \ registered => stream[t] = <<>> /\ tpc[t] \notin Serving

\* One thing is done at a time: a thread is at work, or a connection is accepted,
\* or a client acts; and no client connects before a subscriber has answered.
AtWork(t) == tpc[t] \notin {"none", "ended"} /\ (tpc[t] = "head" => stream[t] # <<>>)
Active(t) == AtWork(t) \/ (tpc[t] = "head" /\ t \in left)
Asked(c) == c \in Subscribers /\ given[c] # None /\ c \notin registered \cup left
TurnInv ==
  /\ \A t, u \in Clients : Active(t) /\ Active(u) => t = u
  /\ edge \/ mpc # "epoll" => \A t \in Clients : ~ Active(t)
  /\ Len(backlog) <= 1 /\ (backlog # <<>> => edge \/ mpc # "epoll")
  /\ backlog # <<>> => /\ Head(backlog) \in arrived \ left /\ given[Head(backlog)] = None
                       /\ \A c \in Clients : ~ Asked(c)
  /\ \A c \in Clients : /\ given[c] # None => c \in arrived
                        /\ given[c] = None <=> tpc[c] = "none"
  /\ \A c \in registered : given[c] # None

\* Who is at work, or has been asked to register, was accepted last; m_network is
\* its connection as long as that is open.
LastInv ==
  \A t \in Clients : AtWork(t) \/ Asked(t) =>
    given[t] = mnet.sock /\ fds[mnet.sock] \in {t, None}

\* Entries and open descriptors correspond.
BookInv ==
  /\ \A n \in networks : fds[n.sock] = n.ssid /\ given[n.ssid] = n.sock
  /\ \A n, m \in networks : n.sock = m.sock => n = m
  /\ \A f \in Fds : fds[f] # None /\ ~ (mpc = "register" /\ f = mnet.sock) =>
       \E n \in networks : n.sock = f
  /\ mpc = "register" => /\ fds[mnet.sock] = Head(backlog)
                         /\ \A n \in networks : n.sock # mnet.sock
  /\ \A t \in Clients : errno[t] # "EBADF"

\* An open connection has its thread, unless its client has left.
AliveInv ==
  \A n \in networks : n.ssid \in left \/ tpc[n.ssid] # "ended"

InTurn ==
  /\ OwnInv /\ StreamInv /\ TurnInv /\ LastInv /\ BookInv /\ AliveInv
  /\ ~ garbled

\* Messages go to subscribers of their topic.
TopicInv ==
  /\ \A n \in networks : n.ssid = prsid => n.role = "consumer" /\ n.topic = TopicOf[prsid]
  /\ \A t \in Clients :
       tpc[t] \in {"readbody", "body", "dispatch", "forward"} => mnet.topic = TopicOf[t]
  /\ \A c \in Clients : \A k \in DOMAIN inbox[c] : TopicOf[inbox[c][k]] = TopicOf[c]

\* As long as only the connection accepted last was ever closed by its client,
\* every thread has its entry.
StayInv ==
  ~ disorder =>
    /\ \A t \in Clients : tpc[t] \notin {"none", "ended"} => \E n \in networks : n.ssid = t
    /\ \A n \in networks : n.ssid \in left =>
         n.sock = mnet.sock /\ tpc[n.ssid] = "head" /\ stream[n.ssid] = <<>>

\* checkSsid finds in an ssid what setSsid has put there.
Legible == \A f \in Fds : SocketBits[f] = f

Inv ==
  /\ TypeInv
  /\ OneHasty => HastyInv
  /\ Orderly => InTurn /\ StayInv
  /\ Orderly /\ Legible => TopicInv

-----------------------------------------------------------------------------
(* Types, whatever the clients do *)

LEMMA Constants ==
  /\ Clients = Subscribers \cup Publishers /\ Subscribers \cap Publishers = {}
  /\ None \notin Clients /\ None \notin Fds /\ Fds \subseteq Nat /\ IsFiniteSet(Clients)
  /\ \A c \in Clients : TopicOf[c] \in Topics
BY BrokerAssumption DEF Clients, Fds, Topics

\* Appending to and taking from a sequence of clients, or of parts of messages.
LEMMA Queues ==
  ASSUME NEW S, NEW q \in Seq(S)
  PROVE  /\ \A x \in S : /\ Append(q, x) \in Seq(S) /\ Append(q, x) # <<>>
                         /\ Len(Append(q, x)) = Len(q) + 1
         /\ q # <<>> => /\ Head(q) \in S /\ Tail(q) \in Seq(S)
                        /\ Len(Tail(q)) = Len(q) - 1 /\ Len(q) >= 1
         /\ Len(q) \in Nat /\ (Len(q) = 0 <=> q = <<>>)
<1>1. \A x \in S : /\ Append(q, x) \in Seq(S) /\ Append(q, x) # <<>>
                   /\ Len(Append(q, x)) = Len(q) + 1
  BY AppendProperties
<1>2. Len(q) \in Nat /\ (Len(q) = 0 <=> q = <<>>)
  OBVIOUS
<1>3. q # <<>> => Head(q) \in S /\ Tail(q) \in Seq(S)
  BY HeadTailProperties
<1>4. q # <<>> => Len(Tail(q)) = Len(q) - 1 /\ Len(q) >= 1
  BY <1>2, HeadTailProperties
<1>5. QED BY <1>1, <1>2, <1>3, <1>4

\* Closing connections: what is left is as it was.
LEMMA ClosingTypes ==
  ASSUME TypeOK, NEW sock, NEW badf, handleNotify(sock, badf)
  PROVE  /\ networks' \subseteq Entry /\ networks' \subseteq networks
         /\ fds' \in [Fds -> Clients \cup {None}]
  BY DEF TypeOK, handleNotify

LEMMA RecvTypes ==
  ASSUME TypeInv, NEW t \in Clients, tpc[t] # "none"
  PROVE  /\ \A badf : GiveUp(t, badf) => TypeInv'
         /\ \A pc \in {"head", "body"} :
              (pc = "body" => head[t] \in Clients) /\ ReadFrom(t, pc) => TypeInv'
<1> USE DEF TypeInv, TypeOK, ListenInv, HoldInv, Serving, ThreadTo, client, listener, route, thread, seen
<1>1. ASSUME NEW badf, GiveUp(t, badf) PROVE TypeInv'
  <2>1. networks' \subseteq Entry /\ fds' \in [Fds -> Clients \cup {None}]
    BY <1>1, ClosingTypes DEF GiveUp
  <2>2. /\ tpc' = [tpc EXCEPT ![t] = "ended"]
        /\ UNCHANGED <<hasty, arrived, left, given, registered, stream, backlog, edge, mpc,
                       mnet, prsid, stored, conn, head, errno, inbox, disorder, short, garbled>>
    BY <1>1 DEF GiveUp
  <2>3. QED BY <2>1, <2>2
<1>2. ASSUME NEW pc \in {"head", "body"}, pc = "body" => head[t] \in Clients, ReadFrom(t, pc)
      PROVE  TypeInv'
  <2>1. CASE fds[mnet.sock] = None
    BY <1>1, <1>2, <2>1 DEF ReadFrom
  <2>2. CASE fds[mnet.sock] # None
    <3>1. mnet.sock \in Fds
      OBVIOUS
    <3>1a. PICK c \in Clients : c = fds[mnet.sock]
      BY <2>2, <3>1
    <3>2. /\ tpc' = [tpc EXCEPT ![t] = pc] /\ conn' = [conn EXCEPT ![t] = c]
          /\ UNCHANGED <<hasty, arrived, left, given, registered, stream, backlog, edge, mpc,
                         mnet, networks, prsid, fds, stored, head, errno, inbox, disorder,
                         short,
                         garbled>>
      BY <1>2, <2>2, <3>1a DEF ReadFrom
    <3>3. conn' \in [Clients -> Clients \cup {None}] /\ conn'[t] = c
          /\ \A u \in Clients : u # t => conn'[u] = conn[u] /\ tpc'[u] = tpc[u]
      BY <3>2
    <3>4. tpc'[t] = pc
          /\ tpc' \in [Clients -> {"none", "recv", "head", "match", "readbody", "body",
                                  "dispatch", "forward", "rsync", "ended"}]
      BY <3>2
    <3>5. HoldInv'
      BY <1>2, <3>2, <3>3, <3>4
    <3>6. TypeOK'
      BY <3>2, <3>3, <3>4
    <3>7. QED BY <3>2, <3>5, <3>6
  <2>3. QED BY <2>1, <2>2
<1>3. QED BY <1>1, <1>2

LEMMA CloseTypes ==
  ASSUME TypeOK, NEW lost, Close(lost)
  PROVE  /\ networks' \subseteq Entry /\ networks' \subseteq networks
         /\ fds' \in [Fds -> Clients \cup {None}]
  BY DEF TypeOK, Close

\* What Forward does with a target.
ForwardTo(t, n) ==
  IF errno[t] = "EPIPE" \/ fds[n.sock] \in left
  THEN \/ UNCHANGED <<fds, networks, stored, errno, seen>>
       \/ errno[t] # "EPIPE" /\ WriteFails(t, n)
  ELSE IF fds[n.sock] = None THEN WriteFails(t, n) ELSE Deliver(t, fds[n.sock])

LEMMA ForwardIs ==
  ASSUME NEW t, Forward(t)
  PROVE  \/ Targets = {} /\ stored' = stored + 1 /\ UNCHANGED <<fds, networks, errno, seen>>
         \/ \E n \in Targets : ForwardTo(t, n)
BY Zenon DEF Forward, ForwardTo

LEMMA WriteTypes ==
  ASSUME TypeInv, NEW t \in Clients, NEW n \in networks, WriteFails(t, n)
  PROVE  /\ \E lost : Close(lost)
         /\ networks' \subseteq Entry /\ fds' \in [Fds -> Clients \cup {None}]
         /\ errno' \in [Clients -> {"0", "EPIPE", "ECONNRESET", "EBADF"}]
         /\ garbled' \in BOOLEAN /\ UNCHANGED <<stored, inbox, disorder, short>>
<1>1. PICK lost : Close(lost)
  BY Zenon DEF WriteFails
<1>2. networks' \subseteq Entry /\ fds' \in [Fds -> Clients \cup {None}]
  BY <1>1, CloseTypes DEF TypeInv
<1>3. \E e \in {"EPIPE", "ECONNRESET", "EBADF"} : errno' = [errno EXCEPT ![t] = e]
  BY Zenon DEF WriteFails
<1>4. errno' \in [Clients -> {"0", "EPIPE", "ECONNRESET", "EBADF"}]
  BY <1>3 DEF TypeInv, TypeOK
<1>5. garbled' \in BOOLEAN
  <2>1. garbled \in BOOLEAN
    BY DEF TypeInv
  <2>2. garbled' = garbled \/ garbled' = (\E m \in Entries(n.sock) : m.at < n.at)
    BY Zenon DEF WriteFails
  <2>3. QED BY <2>1, <2>2
<1>6. UNCHANGED <<stored, inbox, disorder, short>>
  BY DEF WriteFails
<1>7. QED BY <1>1, <1>2, <1>4, <1>5, <1>6

LEMMA ForwardTypes ==
  ASSUME TypeInv, NEW t \in Clients, head[t] \in Clients, Forward(t)
  PROVE  /\ networks' \subseteq Entry /\ fds' \in [Fds -> Clients \cup {None}]
         /\ stored' \in Nat /\ inbox' \in [Clients -> Seq(Clients)]
         /\ errno' \in [Clients -> {"0", "EPIPE", "ECONNRESET", "EBADF"}]
         /\ garbled' \in BOOLEAN /\ disorder' = disorder /\ short' = short
<1>1. CASE Targets = {} /\ stored' = stored + 1 /\ UNCHANGED <<fds, networks, errno, seen>>
  BY <1>1 DEF TypeInv, TypeOK, seen
<1>2. CASE UNCHANGED <<fds, networks, stored, errno, seen>>
  BY <1>2 DEF TypeInv, TypeOK, seen
<1>3. ASSUME NEW n \in Targets, WriteFails(t, n)
      PROVE  /\ networks' \subseteq Entry /\ fds' \in [Fds -> Clients \cup {None}]
             /\ stored' \in Nat /\ inbox' \in [Clients -> Seq(Clients)]
             /\ errno' \in [Clients -> {"0", "EPIPE", "ECONNRESET", "EBADF"}]
             /\ garbled' \in BOOLEAN /\ disorder' = disorder /\ short' = short
  <2>1. /\ networks' \subseteq Entry /\ fds' \in [Fds -> Clients \cup {None}]
        /\ errno' \in [Clients -> {"0", "EPIPE", "ECONNRESET", "EBADF"}]
        /\ garbled' \in BOOLEAN /\ UNCHANGED <<stored, inbox, disorder, short>>
    BY <1>3, WriteTypes DEF Targets
  <2>2. stored \in Nat /\ inbox \in [Clients -> Seq(Clients)]
    BY DEF TypeInv, TypeOK
  <2>3. QED BY <2>1, <2>2
<1>4. ASSUME NEW c \in Clients, Deliver(t, c)
      PROVE  /\ inbox' \in [Clients -> Seq(Clients)]
             /\ UNCHANGED <<fds, networks, stored, errno, disorder, short, garbled>>
  BY <1>4, Queues DEF Deliver, TypeInv
<1>5. ASSUME NEW n \in Targets, ForwardTo(t, n)
      PROVE  \/ UNCHANGED <<fds, networks, stored, errno, seen>> \/ WriteFails(t, n)
             \/ fds[n.sock] \in Clients /\ Deliver(t, fds[n.sock])
  <2>1. n.sock \in Fds /\ fds[n.sock] \in Clients \cup {None}
    BY DEF Targets, TypeInv, TypeOK, Entry
  <2>2. QED BY Zenon, <1>5, <2>1 DEF ForwardTo
<1>6. CASE \E n \in Targets : ForwardTo(t, n)
  BY <1>2, <1>3, <1>4, <1>5, <1>6 DEF TypeInv, TypeOK
<1>7. QED BY <1>1, <1>6, ForwardIs

\* What Match makes of an entry.
Marked(n, c) ==
  IF checkSsid(n.sock, c) THEN [n EXCEPT !.role = Role(c), !.topic = TopicOf[c]] ELSE n

LEMMA MarkedIs ==
  ASSUME NEW n \in Entry, NEW c \in Clients
  PROVE  /\ Marked(n, c) \in Entry /\ Marked(n, c).sock = n.sock
         /\ Marked(n, c).ssid = n.ssid
         /\ checkSsid(n.sock, c) =>
              Marked(n, c).role = Role(c) /\ Marked(n, c).topic = TopicOf[c]
         /\ ~ checkSsid(n.sock, c) => Marked(n, c) = n
<1>1. CASE checkSsid(n.sock, c)
  <2>1. TopicOf[c] \in Topics /\ Role(c) \in Roles
    BY Constants DEF Role, Roles
  <2>2. QED BY <1>1, <2>1 DEF Marked, Entry
<1>2. CASE ~ checkSsid(n.sock, c)
  BY <1>2 DEF Marked
<1>3. QED BY <1>1, <1>2

LEMMA MatchMarks ==
  ASSUME NEW t, Match(t)
  PROVE  networks' = {Marked(n, head[t]) : n \in networks}
  BY DEF Match, Marked

LEMMA TypesKept ==
  ASSUME TypeInv, Next
  PROVE  TypeInv'
<1> USE Constants
    DEF TypeInv, TypeOK, ListenInv, HoldInv, Serving, At, ThreadTo, client, listener, route,
       thread,
        seen
<1>1. CASE EpollWait
  BY <1>1, Queues DEF EpollWait
<1>2. CASE Accept
  <2>1. PICK f \in Fds :
          fds' = [fds EXCEPT ![f] = Head(backlog)] /\ mnet' = [mnet EXCEPT !.sock = f]
    BY <1>2 DEF Accept, Free
  <2>2. mnet' \in Network /\ mnet'.sock = f /\ Head(backlog) \in Clients
    BY <1>2, <2>1, Queues DEF Network, Accept
  <2>3. fds' \in [Fds -> Clients \cup {None}]
    BY <2>1, <2>2
  <2>4. /\ mpc = "accept" /\ mpc' = "register"
        /\ UNCHANGED <<hasty, arrived, left, given, registered, stream, backlog, edge,
                       networks, prsid, stored, tpc, conn, head, errno, inbox, disorder, short,
                       garbled>>
    BY <1>2 DEF Accept
  <2>5. QED BY <2>2, <2>3, <2>4
<1>3. CASE Register
  <2>1. Head(backlog) \in Clients /\ mpc = "register" /\ mnet.sock \in Fds
    BY <1>3, Queues DEF Register
  <2>2. PICK c \in Clients : c = Head(backlog)
    BY <2>1
  <2>3. Entered \in Nat
    BY FS_Subset, FS_CardinalityType DEF Entered
  <2>4. networks' \subseteq Entry
    BY <1>3, <2>1, <2>3 DEF Register, Entry, Network
  <2>5. mnet' \in Network /\ mnet'.sock = mnet.sock
    BY <1>3, <2>1 DEF Register, Network
  <2>6. backlog' \in Seq(Clients) /\ mpc' = "epoll" /\ edge' = edge
        /\ (edge => backlog' # <<>>)
    <3>1. backlog # <<>> /\ backlog' = Tail(backlog) /\ mpc' = "epoll" /\ edge' = edge
      BY <1>3 DEF Register
    <3>2. backlog' \in Seq(Clients) /\ Len(backlog') = Len(backlog) - 1
      BY <3>1, Queues
    <3>3. ASSUME edge PROVE backlog' # <<>>
      BY <2>1, <3>2, <3>3, Queues
    <3>4. QED BY <3>1, <3>2, <3>3
  <2>7. /\ given' = [given EXCEPT ![c] = mnet.sock] /\ tpc' = [tpc EXCEPT ![c] = "recv"]
        /\ UNCHANGED <<hasty, arrived, left, registered, stream, fds, prsid, stored, conn,
                       head, errno, inbox, disorder, short, garbled>>
    BY <1>3, <2>2 DEF Register
  <2>8. /\ given' \in [Clients -> Fds \cup {None}]
        /\ tpc' \in [Clients -> {"none", "recv", "head", "match", "readbody", "body",
                                "dispatch", "forward", "rsync", "ended"}]
    BY <2>1, <2>7
  <2>9. HoldInv'
    BY <2>1, <2>5, <2>7
  <2>10. TypeOK'
    BY <2>4, <2>5, <2>6, <2>7, <2>8
  <2>11. ListenInv'
    BY <2>6
  <2>12. QED BY <2>1, <2>5, <2>6, <2>7, <2>9, <2>10, <2>11
<1>4. ASSUME NEW c \in Clients, Connect(c) PROVE TypeInv'
  <2>1. /\ arrived' = arrived \cup {c} /\ backlog' = Append(backlog, c) /\ edge' = TRUE
        /\ UNCHANGED <<hasty, left, given, registered, mpc, fds, route, stored, thread, seen>>
    BY <1>4 DEF Connect
  <2>2. /\ backlog' \in Seq(Clients) /\ backlog' # <<>> /\ Len(backlog) \in Nat
        /\ Len(backlog') = Len(backlog) + 1 /\ (backlog # <<>> => Len(backlog) >= 1)
    BY SMTT(30), <2>1, Queues
  <2>3. stream' \in [Clients -> Seq({"head", "body"})]
    <3>1. <<"head", "body">> \in Seq({"head", "body"})
      OBVIOUS
    <3>2. QED BY <1>4, <3>1 DEF Connect
  <2>4. ListenInv'
    BY <2>1, <2>2
  <2>5. HoldInv'
    BY <2>1
  <2>6. TypeOK'
    BY <2>1, <2>2
  <2>7. QED BY <2>1, <2>3, <2>4, <2>5, <2>6
<1>5. ASSUME NEW c \in Clients, Subscribe(c) PROVE TypeInv'
  BY <1>5, Queues DEF Subscribe
<1>6. ASSUME NEW c \in Clients, Leave(c) PROVE TypeInv'
  BY <1>6, Queues DEF Leave
<1>7. ASSUME NEW t \in Clients, CallRecv(t) PROVE TypeInv'
  BY <1>7, Queues, RecvTypes DEF CallRecv
<1>8. ASSUME NEW t \in Clients, PeerGone(t) PROVE TypeInv'
  BY <1>8, Queues, RecvTypes DEF PeerGone
<1>9. ASSUME NEW t \in Clients, ReadHead(t) PROVE TypeInv'
  BY <1>9, Queues, RecvTypes DEF ReadHead
<1>10. ASSUME NEW t \in Clients, Match(t) PROVE TypeInv'
  <2>1. /\ tpc[t] = "match" /\ tpc' = [tpc EXCEPT ![t] = "readbody"] /\ head[t] \in Clients
        /\ UNCHANGED <<hasty, arrived, left, given, registered, stream, backlog, edge, mpc,
                       fds, stored, conn, head, errno, inbox, disorder, short, garbled>>
    BY <1>10 DEF Match
  <2>2. Role(head[t]) \in Roles /\ TopicOf[head[t]] \in Topics \cup {None}
    BY <2>1 DEF Role, Roles
  <2>3. networks' \subseteq Entry
    BY <1>10, <2>1, MatchMarks, MarkedIs
  <2>4. mnet' \in Network /\ mnet'.sock = mnet.sock
    BY <1>10, <2>2 DEF Match, Network
  <2>5. prsid' \in Subscribers \cup {None}
    BY <1>10 DEF Match, checkSsid
  <2>6. HoldInv'
    BY <2>1, <2>4
  <2>7. TypeOK'
    BY <2>1, <2>3, <2>4, <2>5
  <2>8. QED BY <2>1, <2>4, <2>6, <2>7
<1>11. ASSUME NEW t \in Clients, CallRecvBody(t) PROVE TypeInv'
  BY <1>11, RecvTypes DEF CallRecvBody
<1>12. ASSUME NEW t \in Clients, ReadBody(t) PROVE TypeInv'
  BY <1>12, Queues, RecvTypes DEF ReadBody
<1>13. ASSUME NEW t \in Clients, Dispatch(t) PROVE TypeInv'
  <2>1. /\ tpc[t] = "dispatch" /\ head[t] \in Clients
        /\ UNCHANGED <<hasty, arrived, left, given, registered, stream, backlog, edge, mpc,
                       mnet, prsid, conn, head, errno, inbox, disorder, short, garbled>>
    BY <1>13 DEF Dispatch
  <2>2. stored' \in Nat
    BY <1>13 DEF Dispatch
  <2>3. \/ networks' = networks /\ fds' = fds
        \/ handleNotify(mnet.sock, errno[t] = "EBADF")
    BY <1>13 DEF Dispatch
  <2>4. networks' \subseteq Entry /\ fds' \in [Fds -> Clients \cup {None}]
    BY <2>3, ClosingTypes
  <2>5. PICK pc \in {"forward", "ended"} : tpc' = [tpc EXCEPT ![t] = pc]
    BY <1>13 DEF Dispatch
  <2>6. QED BY <2>1, <2>2, <2>4, <2>5
<1>14. ASSUME NEW t \in Clients, Forward(t) PROVE TypeInv'
  <2>1. /\ tpc[t] = "forward" /\ head[t] \in Clients
        /\ UNCHANGED <<hasty, arrived, left, given, registered, stream, backlog, edge, mpc,
                       mnet, prsid, conn, head>>
    BY <1>14 DEF Forward
  <2>2. PICK pc \in {"rsync", "recv"} : tpc' = [tpc EXCEPT ![t] = pc]
    BY <1>14 DEF Forward
  <2>3. /\ networks' \subseteq Entry /\ fds' \in [Fds -> Clients \cup {None}]
        /\ stored' \in Nat /\ inbox' \in [Clients -> Seq(Clients)]
        /\ errno' \in [Clients -> {"0", "EPIPE", "ECONNRESET", "EBADF"}]
        /\ garbled' \in BOOLEAN /\ disorder' = disorder /\ short' = short
    BY <1>14, <2>1, ForwardTypes
  <2>4. QED BY <2>1, <2>2, <2>3
<1>15. ASSUME NEW t \in Clients, rsync(t) PROVE TypeInv'
  BY <1>15, Queues, RecvTypes DEF rsync
<1>16. QED
  BY <1>1, <1>2, <1>3, <1>4, <1>5, <1>6, <1>7, <1>8, <1>9, <1>10, <1>11, <1>12, <1>13, <1>14,
     <1>15
  DEF Next, Start, ClientStep, ThreadStep

-----------------------------------------------------------------------------
(* Clients in turn *)

\* While a thread is at work nothing is accepted.
LEMMA Alone ==
  ASSUME TypeInv, InTurn, NEW t \in Clients, Active(t)
  PROVE  /\ mpc = "epoll" /\ edge = FALSE /\ backlog = <<>> /\ mnet.sock \in Fds
         /\ tpc[t] \notin {"none", "ended"} /\ given[t] # None
         /\ \A u \in Clients : Active(u) => u = t
<1>1. tpc[t] \notin {"none", "ended"}
  BY DEF Active, AtWork
<1>2. mpc = "epoll" /\ edge = FALSE
  BY DEF InTurn, TurnInv, TypeInv, ListenInv
<1>3. backlog = <<>>
  BY <1>2 DEF InTurn, TurnInv
<1>4. mnet.sock \in Fds /\ given[t] # None
  BY <1>1 DEF InTurn, TurnInv, TypeInv, HoldInv
<1>5. \A u \in Clients : Active(u) => u = t
  BY DEF InTurn, TurnInv
<1>6. QED BY <1>1, <1>2, <1>3, <1>4, <1>5

\* When the broker is idle every thread has ended or waits for a header.
LEMMA Quiet ==
  ASSUME TypeInv, InTurn, Idle
  PROVE  /\ mpc = "epoll" /\ edge = FALSE /\ backlog = <<>>
         /\ \A u \in Clients :
              /\ ~ Active(u)
              /\ \/ tpc[u] \in {"none", "ended"}
                 \/ tpc[u] = "head" /\ stream[u] = <<>> /\ u \notin left
<1>1. mpc = "epoll" /\ edge = FALSE
  BY DEF Idle, TypeInv, ListenInv
<1>2. backlog = <<>>
  BY <1>1 DEF InTurn, TurnInv
<1>3. ASSUME NEW u \in Clients
      PROVE  \/ tpc[u] \in {"none", "ended"}
             \/ tpc[u] = "head" /\ stream[u] = <<>> /\ u \notin left
  BY DEF Idle, InTurn, OwnInv, StreamInv
<1>4. \A u \in Clients : ~ Active(u)
  BY <1>3 DEF Active, AtWork
<1>5. QED BY <1>1, <1>2, <1>3, <1>4

\* Closing connections keeps the books.
LEMMA Closing ==
  ASSUME TypeInv, BookInv, mpc = "epoll", NEW sock \in Fds, NEW badf \in BOOLEAN,
         handleNotify(sock, badf)
  PROVE  /\ networks' \subseteq networks
         /\ \A n \in networks' : fds'[n.sock] = fds[n.sock] /\ n.sock # sock
         /\ \A f \in Fds : /\ fds'[f] \in {fds[f], None}
                           /\ fds'[f] # None => \E n \in networks' : n.sock = f
         /\ fds'[sock] = None
         /\ ~ badf => \A n \in networks : n.sock # sock => n \in networks'
<1> DEFINE lost == Entries(sock) \cup Swept(sock, badf)
<1>1. /\ networks' = networks \ lost
      /\ fds' = [f \in Fds |-> IF f = sock \/ \E n \in lost : n.sock = f THEN None ELSE fds[f]]
  BY DEF handleNotify
<1>2. lost \subseteq networks /\ \A n \in networks : n.sock = sock => n \in lost
  BY DEF Entries, Swept
<1>3. ~ badf => \A n \in lost : n.sock = sock
  <2>1. \A h \in Entries(sock) : fds[sock] = h.ssid /\ h.ssid # None
    BY Constants DEF Entries, BookInv, TypeInv, TypeOK, Entry
  <2>2. QED BY <2>1 DEF Entries, Swept
<1> HIDE DEF lost
<1>4. \A n \in networks : n.sock \in Fds /\ fds[n.sock] = n.ssid
  BY DEF BookInv, TypeInv, TypeOK, Entry
<1>5. \A n, m \in networks : n.sock = m.sock => n = m
  BY DEF BookInv
<1>6. \A f \in Fds : fds[f] # None => \E n \in networks : n.sock = f
  BY DEF BookInv
<1>7. \A n \in networks' : n \in networks /\ n.sock # sock /\ n \notin lost
  BY <1>1, <1>2
<1>8. \A n \in networks' : fds'[n.sock] = fds[n.sock]
  BY <1>1, <1>2, <1>4, <1>5, <1>7
<1>9. \A f \in Fds : fds'[f] \in {fds[f], None}
  BY <1>1
<1>10. ASSUME NEW f \in Fds, fds'[f] # None PROVE \E n \in networks' : n.sock = f
  <2>1. fds[f] # None /\ ~ \E n \in lost : n.sock = f
    BY <1>1, <1>10
  <2>2. PICK n \in networks : n.sock = f
    BY <2>1, <1>6
  <2>3. QED BY <2>1, <2>2, <1>1
<1>11. fds'[sock] = None
  BY <1>1
<1>12. ~ badf => \A n \in networks : n.sock # sock => n \in networks'
  BY <1>1, <1>3
<1>13. QED BY <1>7, <1>8, <1>9, <1>10, <1>11, <1>12

\* A thread goes on: what is said of all threads and entries stays.
LEMMA GoesOn ==
  ASSUME TypeInv, InTurn, NEW t \in Clients, AtWork(t), NEW pc, pc \notin {"none", "ended"},
         ThreadTo(t, pc), UNCHANGED <<arrived, left, given, registered, listener>>, mnet'.sock = mnet.sock,
         \A u \in Clients \ {t} : stream'[u] = stream[u],
         \A f \in Fds : fds'[f] \in {fds[f], None},
         \A m \in networks' : \E n \in networks : n.ssid = m.ssid /\ n.sock = m.sock,
         networks' \subseteq Entry
  PROVE  TurnInv' /\ LastInv' /\ AliveInv'
<1>1. Active(t)
  BY DEF Active
<1>2. /\ mpc = "epoll" /\ edge = FALSE /\ backlog = <<>> /\ mnet.sock \in Fds
      /\ tpc[t] \notin {"none", "ended"} /\ given[t] # None
      /\ \A u \in Clients : Active(u) => u = t
  BY <1>1, Alone
<1>3. /\ tpc'[t] = pc /\ \A u \in Clients \ {t} : tpc'[u] = tpc[u]
      /\ mnet'.sock = mnet.sock
      /\ UNCHANGED <<arrived, left, given, registered, backlog, edge, mpc>>
  BY DEF ThreadTo, TypeInv, TypeOK, listener
<1>4. \A u \in Clients : Active(u)' => u = t
  BY <1>2, <1>3 DEF Active, AtWork
<1>5. TurnInv'
  BY <1>2, <1>3, <1>4 DEF InTurn, TurnInv, Asked
<1>6. \A u \in Clients : Asked(u)' => Asked(u)
  BY <1>3 DEF Asked
<1>7. \A u \in Clients : AtWork(u)' => u = t
  BY <1>4 DEF Active
<1>8. ASSUME NEW u \in Clients, AtWork(u)' \/ Asked(u)'
      PROVE  given'[u] = mnet'.sock /\ fds'[mnet'.sock] \in {u, None}
  <2>1. AtWork(u) \/ Asked(u)
    BY <1>6, <1>7, <1>8
  <2>2. given[u] = mnet.sock /\ fds[mnet.sock] \in {u, None}
    BY <2>1 DEF InTurn, LastInv
  <2>3. QED BY <1>2, <1>3, <2>2
<1>9. LastInv'
  BY <1>8 DEF LastInv
<1>10. ASSUME NEW m \in networks' PROVE m.ssid \in left' \/ tpc'[m.ssid] # "ended"
  <2>1. PICK n \in networks : n.ssid = m.ssid
    OBVIOUS
  <2>2. n.ssid \in Clients /\ (n.ssid \in left \/ tpc[n.ssid] # "ended")
    BY DEF InTurn, AliveInv, TypeInv, TypeOK, Entry
  <2>3. QED BY <1>3, <2>1, <2>2
<1>11. AliveInv'
  BY <1>10 DEF AliveInv
<1>12. QED BY <1>5, <1>9, <1>11

\* A thread gives up.
LEMMA GaveUp ==
  ASSUME TypeInv, InTurn, NEW t \in Clients, Active(t), NEW badf \in BOOLEAN,
         GiveUp(t, badf)
  PROVE  InTurn'
<1>1. /\ mpc = "epoll" /\ edge = FALSE /\ backlog = <<>> /\ mnet.sock \in Fds
      /\ tpc[t] \notin {"none", "ended"} /\ given[t] # None
      /\ \A u \in Clients : Active(u) => u = t
  BY Alone
<1>2. /\ tpc'[t] = "ended" /\ \A u \in Clients \ {t} : tpc'[u] = tpc[u]
      /\ UNCHANGED <<arrived, left, given, registered, stream, backlog, edge, mpc, mnet,
                     conn, head, errno, garbled>>
  BY DEF GiveUp, ThreadTo, TypeInv, TypeOK, client, listener, seen
<1>3. /\ networks' \subseteq networks
      /\ \A n \in networks' : fds'[n.sock] = fds[n.sock] /\ n.sock # mnet.sock
      /\ \A f \in Fds : /\ fds'[f] \in {fds[f], None}
                        /\ fds'[f] # None => \E n \in networks' : n.sock = f
      /\ fds'[mnet.sock] = None
  BY <1>1, Closing DEF GiveUp, InTurn
<1>4. OwnInv' /\ StreamInv'
  BY <1>2 DEF InTurn, OwnInv, StreamInv, Serving
<1>5. \A u \in Clients : ~ Active(u)' /\ ~ AtWork(u)'
  BY <1>1, <1>2 DEF Active, AtWork
<1>6. TurnInv'
  BY <1>1, <1>2, <1>5 DEF InTurn, TurnInv, Asked
<1>7. LastInv'
  BY <1>1, <1>2, <1>3, <1>5 DEF InTurn, LastInv, Asked
<1>8. BookInv'
  BY <1>1, <1>2, <1>3 DEF InTurn, BookInv
<1>9. ASSUME NEW n \in networks' PROVE n.ssid \in left' \/ tpc'[n.ssid] # "ended"
  <2>1. n \in networks /\ n.ssid \in Clients /\ n.sock # mnet.sock
    BY <1>3 DEF TypeInv, TypeOK, Entry
  <2>2. n.ssid \in left \/ tpc[n.ssid] # "ended"
    BY <2>1 DEF InTurn, AliveInv
  <2>3. CASE n.ssid # t
    BY <1>2, <2>1, <2>2, <2>3
  <2>4. CASE n.ssid = t
    <3>1. given[t] # mnet.sock
      BY <2>1, <2>4 DEF InTurn, BookInv
    <3>2. ~ AtWork(t)
      BY <3>1 DEF InTurn, LastInv
    <3>3. t \in left
      BY <3>2 DEF Active
    <3>4. QED BY <1>2, <2>4, <3>3
  <2>5. QED BY <2>3, <2>4
<1>10. AliveInv'
  BY <1>9 DEF AliveInv
<1>11. QED BY <1>2, <1>4, <1>6, <1>7, <1>8, <1>10 DEF InTurn

\* A thread reads from the connection that it was made for.
LEMMA Reads ==
  ASSUME TypeInv, InTurn, TypeInv', NEW t \in Clients, NEW pc \in {"head", "body"},
         tpc[t] = IF pc = "head" THEN "recv" ELSE "readbody", ReadFrom(t, pc)
  PROVE  InTurn'
<1>1. AtWork(t)
  BY DEF AtWork
<1>2. Active(t)
  BY <1>1 DEF Active
<1>3. CASE fds[mnet.sock] = None
  BY <1>2, <1>3, GaveUp DEF ReadFrom
<1>4. CASE fds[mnet.sock] # None
  <2>1. fds[mnet.sock] = t
    BY <1>1, <1>4 DEF InTurn, LastInv
  <2>2. /\ conn' = [conn EXCEPT ![t] = t] /\ ThreadTo(t, pc)
        /\ UNCHANGED <<arrived, left, given, registered, stream, listener, mnet, networks,
                       fds, head, errno, garbled>>
    BY <1>4, <2>1 DEF ReadFrom, client, route, seen
  <2>3. /\ tpc'[t] = pc /\ conn'[t] = t
        /\ \A u \in Clients \ {t} : tpc'[u] = tpc[u] /\ conn'[u] = conn[u]
    BY <2>2 DEF ThreadTo, TypeInv, TypeOK
  <2>4. OwnInv'
    BY <2>2, <2>3 DEF InTurn, OwnInv, Serving
  <2>5. StreamInv'
    BY <2>2, <2>3 DEF InTurn, StreamInv, Serving
  <2>6. BookInv'
    BY <2>2 DEF InTurn, BookInv, listener
  <2>7. TurnInv' /\ LastInv' /\ AliveInv'
    BY <1>1, <2>2, GoesOn DEF TypeInv, TypeOK
  <2>8. QED BY <2>2, <2>4, <2>5, <2>6, <2>7 DEF InTurn
<1>5. QED BY <1>3, <1>4

LEMMA CallRecvTurn ==
  ASSUME TypeInv, InTurn, TypeInv', NEW t \in Clients, CallRecv(t)
  PROVE  InTurn'
<1>1. tpc[t] = "recv" /\ Active(t)
  BY DEF CallRecv, At, Active, AtWork
<1>2. QED BY <1>1, Reads, GaveUp DEF CallRecv

LEMMA PeerGoneTurn ==
  ASSUME TypeInv, InTurn, NEW t \in Clients, PeerGone(t)
  PROVE  Active(t) /\ InTurn'
<1>1. Active(t)
  BY DEF PeerGone, At, Active, AtWork, InTurn, OwnInv
<1>2. QED BY <1>1, GaveUp DEF PeerGone

LEMMA ReadHeadTurn ==
  ASSUME TypeInv, InTurn, TypeInv', NEW t \in Clients, ReadHead(t), ~ short'
  PROVE  InTurn'
<1>1. tpc[t] = "head" /\ conn[t] = t /\ stream[t] # <<>>
  BY DEF ReadHead, At, InTurn, OwnInv
<1>2. stream[t] = Both /\ t \notin Subscribers \ registered
  BY <1>1 DEF InTurn, StreamInv
<1>3. Head(Both) = "head" /\ Tail(Both) = <<"body">>
  BY DEF Both
<1>3a. PICK whole \in BOOLEAN : /\ short' = (short \/ ~ whole)
                                /\ garbled' = (~ whole \/ Head(stream[conn[t]]) # "head")
  BY DEF ReadHead
<1>3b. ~ garbled'
  <2>1. Head(stream[conn[t]]) = "head"
    BY <1>1, <1>2, <1>3
  <2>2. QED BY <1>3a, <2>1
<1>4. /\ stream' = [stream EXCEPT ![t] = <<"body">>] /\ ~ garbled'
      /\ head' = [head EXCEPT ![t] = t] /\ ThreadTo(t, "match")
      /\ UNCHANGED <<arrived, left, given, registered, listener, fds, mnet, networks, conn,
                     errno>>
  BY <1>1, <1>2, <1>3, <1>3b DEF ReadHead, route
<1>5. /\ tpc'[t] = "match" /\ head'[t] = t /\ stream'[t] = <<"body">>
      /\ \A u \in Clients \ {t} :
           tpc'[u] = tpc[u] /\ head'[u] = head[u] /\ stream'[u] = stream[u]
  BY <1>4 DEF ThreadTo, TypeInv, TypeOK
<1>6. OwnInv'
  BY <1>1, <1>4, <1>5 DEF InTurn, OwnInv, Serving
<1>7. StreamInv'
  BY <1>2, <1>4, <1>5 DEF InTurn, StreamInv, Serving
<1>8. BookInv'
  BY <1>4 DEF InTurn, BookInv, listener
<1>9. AtWork(t)
  BY <1>1 DEF AtWork
<1>10. TurnInv' /\ LastInv' /\ AliveInv'
  BY <1>4, <1>5, <1>9, GoesOn DEF TypeInv, TypeOK
<1>11. QED BY <1>4, <1>6, <1>7, <1>8, <1>10 DEF InTurn

LEMMA MatchTurn ==
  ASSUME TypeInv, InTurn, TypeInv', NEW t \in Clients, Match(t)
  PROVE  InTurn'
<1>1. tpc[t] = "match" /\ head[t] = t
  BY DEF Match, At, InTurn, OwnInv, Serving
<1>2. networks' = {Marked(n, t) : n \in networks}
  BY <1>1, MatchMarks
<1>3. \A n \in networks :
        n \in Entry /\ Marked(n, t).sock = n.sock /\ Marked(n, t).ssid = n.ssid
  BY MarkedIs DEF TypeInv, TypeOK
<1>4. /\ ThreadTo(t, "readbody") /\ mnet'.sock = mnet.sock
      /\ UNCHANGED <<arrived, left, given, registered, stream, listener, fds, conn, head,
                     errno, garbled>>
  BY DEF Match, client, seen, TypeInv, TypeOK, Network
<1>5. tpc'[t] = "readbody" /\ \A u \in Clients \ {t} : tpc'[u] = tpc[u]
  BY <1>4 DEF ThreadTo, TypeInv, TypeOK
<1>6. OwnInv'
  BY <1>1, <1>4, <1>5 DEF InTurn, OwnInv, Serving
<1>7. StreamInv'
  BY <1>1, <1>4, <1>5 DEF InTurn, StreamInv, Serving
<1>8. BookInv'
  <2>1. \A m \in networks' : fds'[m.sock] = m.ssid /\ given'[m.ssid] = m.sock
    BY <1>2, <1>3, <1>4 DEF InTurn, BookInv
  <2>2. ASSUME NEW m \in networks', NEW k \in networks', m.sock = k.sock PROVE m = k
    <3>1. PICK a \in networks : m = Marked(a, t)
      BY <1>2
    <3>2. PICK b \in networks : k = Marked(b, t)
      BY <1>2
    <3>3. a = b
      BY <1>3, <2>2, <3>1, <3>2 DEF InTurn, BookInv
    <3>4. QED BY <3>1, <3>2, <3>3
  <2>3. ASSUME NEW f \in Fds, fds'[f] # None, ~ (mpc' = "register" /\ f = mnet'.sock)
        PROVE  \E m \in networks' : m.sock = f
    <3>1. PICK n \in networks : n.sock = f
      BY <1>4, <2>3 DEF InTurn, BookInv, listener
    <3>2. QED BY <1>2, <1>3, <3>1
  <2>4. mpc' # "register"
    BY <1>1, <1>4, Alone DEF Active, AtWork, listener
  <2>5. \A u \in Clients : errno'[u] # "EBADF"
    BY <1>4 DEF InTurn, BookInv
  <2>6. QED BY <2>1, <2>2, <2>3, <2>4, <2>5 DEF BookInv
<1>9. AtWork(t)
  BY <1>1 DEF AtWork
<1>10. TurnInv' /\ LastInv' /\ AliveInv'
  <2>1. \A m \in networks' : \E n \in networks : n.ssid = m.ssid /\ n.sock = m.sock
    BY <1>2, <1>3
  <2>2. QED BY <1>4, <1>9, <2>1, GoesOn DEF TypeInv, TypeOK
<1>11. QED BY <1>4, <1>6, <1>7, <1>8, <1>10 DEF InTurn

LEMMA ReadBodyTurn ==
  ASSUME TypeInv, InTurn, TypeInv', NEW t \in Clients, ReadBody(t), ~ short'
  PROVE  InTurn'
<1>1. tpc[t] = "body" /\ conn[t] = t /\ head[t] = t /\ stream[t] = <<"body">>
  BY DEF ReadBody, At, InTurn, OwnInv, StreamInv, Serving
<1>2. Head(<<"body">>) = "body" /\ Tail(<<"body">>) = <<>>
  OBVIOUS
<1>2a. stream' = [stream EXCEPT ![t] = <<>>]
  <2>1. PICK whole \in BOOLEAN :
          /\ short' = (short \/ ~ whole)
          /\ stream' = IF whole THEN [stream EXCEPT ![conn[t]] = Tail(@)] ELSE stream
    BY DEF ReadBody
  <2>2. whole
    BY <2>1
  <2>3. QED BY <1>1, <1>2, <2>1, <2>2
<1>2b. ~ garbled'
  BY <1>1, <1>2 DEF ReadBody
<1>3. /\ stream' = [stream EXCEPT ![t] = <<>>] /\ ~ garbled' /\ ThreadTo(t, "dispatch")
      /\ UNCHANGED <<arrived, left, given, registered, listener, fds, mnet, networks, conn,
                     head, errno>>
  BY <1>1, <1>2a, <1>2b DEF ReadBody, route
<1>4. /\ tpc'[t] = "dispatch" /\ stream'[t] = <<>>
      /\ \A u \in Clients \ {t} : tpc'[u] = tpc[u] /\ stream'[u] = stream[u]
  BY <1>3 DEF ThreadTo, TypeInv, TypeOK
<1>5. OwnInv'
  BY <1>1, <1>3, <1>4 DEF InTurn, OwnInv, Serving
<1>6. StreamInv'
  BY <1>1, <1>3, <1>4 DEF InTurn, StreamInv, Serving
<1>7. BookInv'
  BY <1>3 DEF InTurn, BookInv, listener
<1>8. AtWork(t)
  BY <1>1 DEF AtWork
<1>9. TurnInv' /\ LastInv' /\ AliveInv'
  BY <1>3, <1>4, <1>8, GoesOn DEF TypeInv, TypeOK
<1>10. QED BY <1>3, <1>5, <1>6, <1>7, <1>9 DEF InTurn

\* After the body, and before the thread calls recv again, nothing is read.
LEMMA Handles ==
  ASSUME TypeInv, InTurn, NEW t \in Clients, tpc[t] \in {"dispatch", "forward", "rsync"},
         NEW pc \in {"forward", "rsync", "recv"}, ThreadTo(t, pc),
         UNCHANGED <<client, listener, mnet, conn, head, garbled>>
  PROVE  AtWork(t) /\ OwnInv' /\ StreamInv'
<1>1. /\ tpc'[t] = pc /\ \A u \in Clients \ {t} : tpc'[u] = tpc[u]
      /\ UNCHANGED <<conn, head, stream, registered>>
  BY DEF ThreadTo, TypeInv, TypeOK, client
<1>2. OwnInv'
  BY <1>1 DEF InTurn, OwnInv, Serving
<1>3. StreamInv'
  BY <1>1 DEF InTurn, StreamInv, Serving
<1>4. QED BY <1>2, <1>3 DEF AtWork

LEMMA HandlesQuietly ==
  ASSUME TypeInv, InTurn, NEW t \in Clients, tpc[t] \in {"dispatch", "forward", "rsync"},
         NEW pc \in {"forward", "rsync", "recv"}, ThreadTo(t, pc),
         UNCHANGED <<client, listener, mnet, conn, head, garbled, fds, networks, errno>>
  PROVE  InTurn'
<1>1. AtWork(t) /\ OwnInv' /\ StreamInv'
  BY Handles
<1>2. BookInv'
  BY DEF InTurn, BookInv, client, listener
<1>3. TurnInv' /\ LastInv' /\ AliveInv'
  BY <1>1, GoesOn DEF TypeInv, TypeOK, client
<1>4. QED BY <1>1, <1>2, <1>3 DEF InTurn

LEMMA DispatchTurn ==
  ASSUME TypeInv, InTurn, NEW t \in Clients, Dispatch(t)
  PROVE  \/ GiveUp(t, errno[t] = "EBADF") /\ InTurn'
         \/ UNCHANGED <<fds, networks>> /\ ThreadTo(t, "forward") /\ InTurn'
<1>1. tpc[t] = "dispatch" /\ Active(t)
  BY DEF Dispatch, At, Active, AtWork
<1>2. \/ GiveUp(t, errno[t] = "EBADF")
      \/ UNCHANGED <<fds, networks>> /\ ThreadTo(t, "forward")
  BY DEF Dispatch, GiveUp
<1>3. CASE GiveUp(t, errno[t] = "EBADF")
  BY <1>1, <1>3, GaveUp
<1>4. CASE UNCHANGED <<fds, networks>> /\ ThreadTo(t, "forward")
  <2>1. UNCHANGED <<client, listener, mnet, conn, head, garbled, errno>>
    BY DEF Dispatch, seen
  <2>2. QED BY <1>1, <1>4, <2>1, HandlesQuietly
<1>5. QED BY <1>2, <1>3, <1>4

\* Closing entries of m_networks keeps the books, too.
LEMMA ClosingEntries ==
  ASSUME TypeInv, BookInv, mpc = "epoll", NEW lost, lost \subseteq networks, Close(lost)
  PROVE  /\ networks' \subseteq networks
         /\ \A n \in networks' : fds'[n.sock] = fds[n.sock] /\ n \notin lost
         /\ \A f \in Fds : /\ fds'[f] \in {fds[f], None}
                           /\ fds'[f] # None => \E n \in networks' : n.sock = f
         /\ \A n \in lost : fds'[n.sock] = None
<1>1. /\ networks' = networks \ lost
      /\ fds' = [f \in Fds |-> IF \E n \in lost : n.sock = f THEN None ELSE fds[f]]
  BY DEF Close
<1>2. \A n \in networks : n.sock \in Fds
  BY DEF TypeInv, TypeOK, Entry
<1>3. \A n, m \in networks : n.sock = m.sock => n = m
  BY DEF BookInv
<1>4. \A f \in Fds : fds[f] # None => \E n \in networks : n.sock = f
  BY DEF BookInv
<1>5. \A n \in networks' : n \in networks /\ n \notin lost
  BY <1>1
<1>6. \A n \in networks' : fds'[n.sock] = fds[n.sock]
  BY <1>1, <1>2, <1>3, <1>5
<1>7. ASSUME NEW f \in Fds, fds'[f] # None PROVE \E n \in networks' : n.sock = f
  <2>1. fds[f] # None /\ ~ \E n \in lost : n.sock = f
    BY <1>1, <1>7
  <2>2. PICK n \in networks : n.sock = f
    BY <2>1, <1>4
  <2>3. QED BY <2>1, <2>2, <1>1
<1>8. \A n \in lost : fds'[n.sock] = None
  BY <1>1, <1>2
<1>9. \A f \in Fds : fds'[f] \in {fds[f], None}
  BY <1>1
<1>10. QED BY <1>5, <1>6, <1>7, <1>8, <1>9

\* What Forward does, in turn: nothing, a delivery, or closing the subscriber that left,
\* and who came after it.
Refused(t, n) ==
  /\ fds[n.sock] \in left /\ Close(ClosedWith(n)) /\ UNCHANGED inbox
  /\ \E e \in {"EPIPE", "ECONNRESET"} : errno' = [errno EXCEPT ![t] = e]

LEMMA Forwards ==
  ASSUME TypeInv, InTurn, NEW t \in Clients, Forward(t)
  PROVE  /\ tpc[t] = "forward" /\ (ThreadTo(t, "rsync") \/ ThreadTo(t, "recv"))
         /\ UNCHANGED <<client, listener, mnet, prsid, conn, head, disorder, short, garbled>>
         /\ \/ UNCHANGED <<fds, networks, errno, inbox>>
            \/ \E n \in Targets : Deliver(t, n.ssid)
            \/ \E n \in Targets : Refused(t, n)
<1>1. \A n \in networks : /\ n.ssid \in Clients /\ n.at \in Nat /\ fds[n.sock] = n.ssid
                           /\ fds[n.sock] # None
  BY Constants DEF InTurn, BookInv, TypeInv, TypeOK, Entry
<1>2. \A n \in Targets : n \in networks
  BY DEF Targets
<1>3. tpc[t] = "forward" /\ (ThreadTo(t, "rsync") \/ ThreadTo(t, "recv"))
  BY DEF Forward, At
<1>4. UNCHANGED <<client, listener, mnet, prsid, conn, head>>
  BY DEF Forward
<1>5. ASSUME NEW n \in Targets, WriteFails(t, n), fds[n.sock] \in left
      PROVE  Refused(t, n) /\ UNCHANGED <<disorder, short, garbled>>
  <2>1. /\ Close(ClosedWith(n))
        /\ IF \E m \in ClosedWith(n) : fds[m.sock] = None
           THEN errno' = [errno EXCEPT ![t] = "EBADF"]
           ELSE \E e \in {"EPIPE", "ECONNRESET"} : errno' = [errno EXCEPT ![t] = e]
        /\ garbled' = \E m \in Entries(n.sock) : m.at < n.at
        /\ UNCHANGED <<inbox, disorder, short>>
    BY Zenon, <1>1, <1>2, <1>5 DEF WriteFails
  <2>2. ~ \E m \in ClosedWith(n) : fds[m.sock] = None
    BY <1>1 DEF ClosedWith
  <2>3. ~ garbled'
    <3>1. \A m \in Entries(n.sock) : m = n
      BY <1>2 DEF Entries, InTurn, BookInv
    <3>2. ~ (n.at < n.at)
      BY <1>1, <1>2
    <3>3. ~ \E m \in Entries(n.sock) : m.at < n.at
      BY Zenon, <3>1, <3>2
    <3>4. QED BY Zenon, <2>1, <3>3
  <2>4. ~ garbled
    BY DEF InTurn
  <2>5. garbled' = garbled
    BY <2>3, <2>4, <2>1 DEF TypeInv
  <2>6. QED BY Zenon, <1>5, <2>1, <2>2, <2>5 DEF Refused
<1>6. ASSUME NEW n \in Targets, ForwardTo(t, n)
      PROVE  /\ UNCHANGED <<disorder, short, garbled>>
             /\ \/ UNCHANGED <<fds, networks, errno, inbox>>
                \/ Deliver(t, n.ssid)
                \/ Refused(t, n)
  <2>1. \/ UNCHANGED <<fds, networks, stored, errno, seen>>
        \/ fds[n.sock] \in left /\ WriteFails(t, n)
        \/ Deliver(t, n.ssid)
    BY Zenon, <1>1, <1>2, <1>6 DEF ForwardTo
  <2>2. CASE UNCHANGED <<fds, networks, stored, errno, seen>>
    BY <2>2 DEF seen
  <2>3. CASE fds[n.sock] \in left /\ WriteFails(t, n)
    BY <1>5, <2>3
  <2>4. CASE Deliver(t, n.ssid)
    BY <2>4 DEF Deliver
  <2>5. QED BY <2>1, <2>2, <2>3, <2>4
<1>7. CASE Targets = {} /\ stored' = stored + 1 /\ UNCHANGED <<fds, networks, errno, seen>>
  BY <1>3, <1>4, <1>7 DEF seen
<1>8. CASE \E n \in Targets : ForwardTo(t, n)
  BY <1>3, <1>4, <1>6, <1>8
<1>9. QED BY <1>7, <1>8, ForwardIs

LEMMA ForwardTurn ==
  ASSUME TypeInv, InTurn, TypeInv', NEW t \in Clients, Forward(t)
  PROVE  InTurn'
<1>1. tpc[t] = "forward" /\ (ThreadTo(t, "rsync") \/ ThreadTo(t, "recv"))
  BY Forwards
<1>2. UNCHANGED <<client, listener, mnet, conn, head, garbled>>
  BY Forwards
<1>3. CASE UNCHANGED <<fds, networks, errno, inbox>>
  BY <1>1, <1>2, <1>3, HandlesQuietly
<1>4. ASSUME NEW n \in Targets, Deliver(t, n.ssid) PROVE InTurn'
  BY <1>1, <1>2, <1>4, HandlesQuietly DEF Deliver
<1>5. ASSUME NEW n \in Targets, Refused(t, n) PROVE InTurn'
  <2>1. AtWork(t) /\ OwnInv' /\ StreamInv'
    BY <1>1, <1>2, Handles
  <2>2. mpc = "epoll" /\ n.sock \in Fds
    BY <2>1, Alone DEF Active, Targets, TypeInv, TypeOK, Entry
  <2>3. /\ networks' \subseteq networks
        /\ \A m \in networks' : fds'[m.sock] = fds[m.sock]
        /\ \A f \in Fds : /\ fds'[f] \in {fds[f], None}
                          /\ fds'[f] # None => \E m \in networks' : m.sock = f
    <3>1. ClosedWith(n) \subseteq networks /\ Close(ClosedWith(n))
      BY <1>5 DEF Refused, ClosedWith
    <3>2. QED BY <2>2, <3>1, ClosingEntries DEF InTurn
  <2>4. \A u \in Clients : errno'[u] # "EBADF"
    <3>1. PICK e \in {"EPIPE", "ECONNRESET"} : errno' = [errno EXCEPT ![t] = e]
      BY <1>5 DEF Refused
    <3>2. QED BY <3>1 DEF InTurn, BookInv, TypeInv, TypeOK
  <2>5. BookInv'
    BY <1>2, <2>2, <2>3, <2>4 DEF InTurn, BookInv, client, listener
  <2>6. \A m \in networks' : \E k \in networks : k.ssid = m.ssid /\ k.sock = m.sock
    BY <2>3
  <2>7. UNCHANGED <<arrived, left, given, registered, stream>>
    BY <1>2 DEF client
  <2>8. TurnInv' /\ LastInv' /\ AliveInv'
    BY <1>1, <1>2, <2>1, <2>3, <2>6, <2>7, GoesOn DEF TypeInv, TypeOK
  <2>9. QED BY <1>2, <2>1, <2>5, <2>8 DEF InTurn
<1>6. QED BY <1>3, <1>4, <1>5, Forwards

LEMMA ThreadTurn ==
  ASSUME TypeInv, InTurn, TypeInv', NEW t \in Clients, ThreadStep(t), ~ short'
  PROVE  InTurn'
<1>1. CASE CallRecvBody(t)
  BY <1>1, Reads DEF CallRecvBody, At
<1>2. CASE rsync(t)
  BY <1>2, HandlesQuietly DEF rsync, At, route, seen
<1>3. QED
  BY <1>1, <1>2, CallRecvTurn, PeerGoneTurn, ReadHeadTurn, MatchTurn, ReadBodyTurn,
     DispatchTurn,
     ForwardTurn
  DEF ThreadStep

LEMMA EpollWaitTurn ==
  ASSUME TypeInv, InTurn, EpollWait
  PROVE  InTurn'
<1>1. /\ edge /\ mpc = "epoll" /\ edge' = FALSE /\ mpc' = "accept"
      /\ UNCHANGED <<arrived, left, given, registered, stream, backlog, fds, mnet, networks,
                     tpc, conn, head, errno, garbled>>
  BY DEF EpollWait, client, route, thread, seen
<1>2. OwnInv' /\ StreamInv' /\ LastInv' /\ BookInv' /\ AliveInv'
  BY <1>1 DEF InTurn, OwnInv, StreamInv, LastInv, BookInv, AliveInv, AtWork, Asked
<1>3. TurnInv'
  BY <1>1 DEF InTurn, TurnInv, Active, AtWork, Asked
<1>4. QED BY <1>1, <1>2, <1>3 DEF InTurn

\* While a connection is accepted no thread is at work and no subscriber is asked.
LEMMA NobodyElse ==
  ASSUME TypeInv, InTurn, mpc # "epoll"
  PROVE  /\ edge = FALSE /\ backlog # <<>> /\ Len(backlog) = 1 /\ Head(backlog) \in Clients
         /\ Head(backlog) \in arrived \ left /\ given[Head(backlog)] = None
         /\ tpc[Head(backlog)] = "none" /\ Head(backlog) \notin registered
         /\ \A u \in Clients : ~ Active(u) /\ ~ AtWork(u) /\ ~ Asked(u)
<1>1. backlog # <<>>
  BY DEF TypeInv, ListenInv
<1>2. Len(backlog) \in Nat /\ Len(backlog) >= 1 /\ Head(backlog) \in Clients
  BY <1>1, Queues DEF TypeInv, ListenInv
<1>3. Len(backlog) <= 1
  BY DEF InTurn, TurnInv
<1>4. Len(backlog) = 1
  BY <1>2, <1>3
<1>5. edge = FALSE
  <2>1. edge => Len(backlog) >= 2
    BY DEF TypeInv, ListenInv
  <2>2. edge \in BOOLEAN
    BY DEF TypeInv, ListenInv
  <2>3. QED BY <1>4, <2>1, <2>2
<1>6. /\ Head(backlog) \in arrived \ left /\ given[Head(backlog)] = None
      /\ \A u \in Clients : ~ Asked(u) /\ ~ Active(u)
  BY <1>1 DEF InTurn, TurnInv
<1>7. tpc[Head(backlog)] = "none" /\ Head(backlog) \notin registered
  BY <1>2, <1>6 DEF InTurn, TurnInv
<1>8. QED BY <1>1, <1>2, <1>4, <1>5, <1>6, <1>7 DEF Active

LEMMA AcceptTurn ==
  ASSUME TypeInv, InTurn, Accept
  PROVE  InTurn'
<1>1. PICK f \in Fds : /\ fds[f] = None /\ fds' = [fds EXCEPT ![f] = Head(backlog)]
                       /\ mnet' = [mnet EXCEPT !.sock = f]
  BY DEF Accept, Free
<1>2. PICK c \in Clients : c = Head(backlog)
  BY NobodyElse DEF Accept
<1>3. /\ fds'[f] = c /\ \A g \in Fds \ {f} : fds'[g] = fds[g]
      /\ mnet'.sock = f /\ mpc = "accept" /\ mpc' = "register"
      /\ UNCHANGED <<arrived, left, given, registered, stream, backlog, edge, networks, tpc,
                     conn, head, errno, garbled>>
  BY <1>1, <1>2 DEF Accept, client, thread, seen, TypeInv, TypeOK, Network
<1>4. edge = FALSE /\ backlog # <<>> /\ \A u \in Clients : ~ Active(u) /\ ~ AtWork(u) /\ ~ Asked(u)
  BY <1>3, NobodyElse
<1>5. \A u \in Clients : ~ Active(u)' /\ ~ AtWork(u)' /\ ~ Asked(u)'
  BY <1>3, <1>4 DEF Active, AtWork, Asked
<1>6. OwnInv' /\ StreamInv' /\ AliveInv'
  BY <1>3 DEF InTurn, OwnInv, StreamInv, AliveInv
<1>7. TurnInv'
  BY <1>3, <1>4, <1>5 DEF InTurn, TurnInv
<1>8. LastInv'
  BY <1>5 DEF LastInv
<1>9. BookInv'
  <2>1. \A n \in networks : n.sock \in Fds /\ n.ssid \in Clients /\ fds[n.sock] = n.ssid
    BY DEF InTurn, BookInv, TypeInv, TypeOK, Entry
  <2>2. \A n \in networks : n.sock # f
    BY <1>1, <2>1, Constants
  <2>3. \A g \in Fds \ {f} : fds'[g] # None => \E n \in networks : n.sock = g
    BY <1>3 DEF InTurn, BookInv
  <2>4. QED BY <1>2, <1>3, <2>1, <2>2, <2>3 DEF InTurn, BookInv
<1>10. QED BY <1>3, <1>6, <1>7, <1>8, <1>9 DEF InTurn

LEMMA RegisterTurn ==
  ASSUME TypeInv, InTurn, Register
  PROVE  InTurn'
<1>1. mpc = "register" /\ mnet.sock \in Fds
  BY DEF Register, TypeInv
<1>2. PICK c \in Clients : c = Head(backlog)
  BY <1>1, NobodyElse
<1>3. /\ edge = FALSE /\ Len(backlog) = 1 /\ given[c] = None /\ tpc[c] = "none" /\ c \in arrived
      /\ c \notin registered
      /\ \A u \in Clients : ~ Active(u) /\ ~ AtWork(u) /\ ~ Asked(u)
  BY <1>1, <1>2, NobodyElse
<1>4. backlog' = <<>>
  <2>1. backlog' = Tail(backlog) /\ backlog # <<>> /\ backlog \in Seq(Clients)
    BY <1>1, NobodyElse DEF Register, TypeInv, ListenInv
  <2>2. backlog' \in Seq(Clients) /\ Len(backlog') = 0
    BY <1>3, <2>1, Queues
  <2>3. QED BY <2>2, Queues
<1>5. PICK e \in Entry :
        e.sock = mnet.sock /\ e.ssid = c /\ networks' = networks \cup {e}
  <2>1. Entered \in Nat
    BY Constants, FS_Subset, FS_CardinalityType DEF Entered
  <2>2. [sock |-> mnet.sock, ssid |-> c, role |-> mnet.role, topic |-> mnet.topic,
         at |-> Entered] \in Entry
    BY <1>1, <2>1 DEF TypeInv, TypeOK, Network, Entry
  <2>3. QED BY <1>2, <2>2 DEF Register
<1>6. /\ given'[c] = mnet.sock /\ tpc'[c] = "recv"
      /\ \A u \in Clients \ {c} : given'[u] = given[u] /\ tpc'[u] = tpc[u]
      /\ mnet'.sock = mnet.sock /\ mpc' = "epoll"
      /\ UNCHANGED <<arrived, left, registered, stream, edge, fds, conn, head, errno, garbled>>
  BY <1>1, <1>2 DEF Register, seen, TypeInv, TypeOK, Network
<1>7. \A u \in Clients \ {c} : ~ Active(u)' /\ ~ AtWork(u)' /\ ~ Asked(u)'
  BY <1>3, <1>6 DEF Active, AtWork, Asked
<1>8. OwnInv'
  BY <1>6 DEF InTurn, OwnInv, Serving
<1>9. StreamInv'
  BY <1>3, <1>6 DEF InTurn, StreamInv, Serving
<1>10. TurnInv'
  <2>1. \A u \in Clients : /\ given'[u] # None => u \in arrived'
                           /\ given'[u] = None <=> tpc'[u] = "none"
    BY <1>1, <1>3, <1>6, Constants DEF InTurn, TurnInv
  <2>2. \A u \in registered' : given'[u] # None
    BY <1>3, <1>6 DEF InTurn, TurnInv, TypeInv, TypeOK, Clients
  <2>3. Len(backlog') = 0
    BY <1>4
  <2>4. ~ (edge' \/ mpc' # "epoll")
    BY <1>3, <1>6
  <2>5. QED BY <1>4, <1>7, <2>1, <2>2, <2>3, <2>4 DEF TurnInv
<1>11. LastInv'
  BY <1>1, <1>2, <1>6, <1>7 DEF InTurn, LastInv, BookInv
<1>12. BookInv'
  <2>1. \A n \in networks : /\ n \in Entry /\ n.sock # mnet.sock /\ n.ssid # c
                            /\ fds[n.sock] = n.ssid /\ given[n.ssid] = n.sock
    BY <1>1, <1>3, Constants DEF InTurn, BookInv, TypeInv, TypeOK, Entry
  <2>2. fds[mnet.sock] = c
    BY <1>1, <1>2 DEF InTurn, BookInv
  <2>3. \A n \in networks' : fds'[n.sock] = n.ssid /\ given'[n.ssid] = n.sock
    BY <1>5, <1>6, <2>1, <2>2 DEF Entry
  <2>4. \A n, m \in networks' : n.sock = m.sock => n = m
    BY <1>5, <2>1 DEF InTurn, BookInv
  <2>5. \A f \in Fds : fds'[f] # None => \E n \in networks' : n.sock = f
    BY <1>5, <1>6 DEF InTurn, BookInv
  <2>6. QED BY <1>6, <2>3, <2>4, <2>5 DEF InTurn, BookInv
<1>13. AliveInv'
  BY <1>5, <1>6 DEF InTurn, AliveInv, TypeInv, TypeOK, Entry
<1>14. QED BY <1>6, <1>8, <1>9, <1>10, <1>11, <1>12, <1>13 DEF InTurn

LEMMA ConnectTurn ==
  ASSUME TypeInv, InTurn, NEW c \in Clients, Idle, Answered, Connect(c)
  PROVE  InTurn'
<1>1. /\ mpc = "epoll" /\ edge = FALSE /\ backlog = <<>>
      /\ \A u \in Clients : ~ Active(u) /\ ~ AtWork(u)
  BY Quiet DEF Active
<1>2. c \notin arrived /\ c \notin left /\ given[c] = None /\ tpc[c] = "none"
  BY DEF Connect, InTurn, TurnInv, TypeInv, TypeOK
<1>3. /\ arrived' = arrived \cup {c} /\ edge' = TRUE
      /\ UNCHANGED <<left, given, registered, mpc, fds, mnet, networks, tpc, conn, head, errno,
                     garbled>>
  BY DEF Connect, route, thread, seen
<1>4. backlog' = <<c>> /\ backlog' # <<>> /\ Len(backlog') = 1 /\ Head(backlog') = c
  BY <1>1 DEF Connect
<1>5. /\ \A u \in Clients \ {c} : stream'[u] = stream[u]
      /\ c \in Publishers => stream'[c] = Both
      /\ c \notin Publishers => stream'[c] = stream[c]
  BY DEF Connect, Both, TypeInv
<1>6. OwnInv' /\ AliveInv'
  BY <1>3 DEF InTurn, OwnInv, AliveInv
<1>7. StreamInv'
  BY <1>2, <1>3, <1>5, Constants DEF InTurn, StreamInv
<1>8. \A u \in Clients : ~ AtWork(u)' /\ ~ Active(u)'
  BY <1>1, <1>2, <1>3, <1>5 DEF Active, AtWork
<1>9. \A u \in Clients : ~ Asked(u)'
  BY <1>3 DEF Asked, Answered, InTurn, TurnInv
<1>10. TurnInv'
  BY <1>2, <1>3, <1>4, <1>8, <1>9 DEF InTurn, TurnInv
<1>11. LastInv'
  BY <1>8, <1>9 DEF LastInv
<1>12. BookInv'
  BY <1>1, <1>3 DEF InTurn, BookInv
<1>13. QED BY <1>3, <1>6, <1>7, <1>10, <1>11, <1>12 DEF InTurn

LEMMA SubscribeTurn ==
  ASSUME TypeInv, InTurn, NEW c \in Clients, Idle, Subscribe(c)
  PROVE  InTurn'
<1>1. /\ mpc = "epoll" /\ edge = FALSE /\ backlog = <<>>
      /\ \A u \in Clients : /\ ~ Active(u) /\ ~ AtWork(u)
                            /\ tpc[u] \in {"none", "ended", "head"}
  BY Quiet DEF Active
<1>2. Asked(c) /\ tpc[c] # "none"
  BY DEF Asked, Subscribe, InTurn, TurnInv
<1>3. /\ registered' = registered \cup {c}
      /\ UNCHANGED <<arrived, left, given, backlog, edge, mpc, fds, mnet, networks, tpc, conn,
                     head, errno, garbled>>
  BY DEF Subscribe, listener, route, thread, seen
<1>4. stream'[c] = Both /\ \A u \in Clients \ {c} : stream'[u] = stream[u]
  BY DEF Subscribe, Both, TypeInv
<1>5. OwnInv' /\ AliveInv'
  BY <1>3 DEF InTurn, OwnInv, AliveInv
<1>6. StreamInv'
  BY <1>1, <1>3, <1>4 DEF InTurn, StreamInv, Serving
<1>7. \A u \in Clients \ {c} : ~ AtWork(u)' /\ ~ Active(u)'
  BY <1>1, <1>3, <1>4 DEF Active, AtWork
<1>8. TurnInv'
  <2>1. given[c] # None
    BY <1>2 DEF Asked
  <2>2. \A u \in registered' : given'[u] # None
    BY <1>3, <2>1 DEF InTurn, TurnInv
  <2>3. QED BY <1>1, <1>3, <1>7, <2>2 DEF InTurn, TurnInv
<1>9. LastInv'
  BY <1>2, <1>3, <1>7 DEF InTurn, LastInv, Asked
<1>10. BookInv'
  BY <1>1, <1>3 DEF InTurn, BookInv
<1>11. QED BY <1>3, <1>5, <1>6, <1>8, <1>9, <1>10 DEF InTurn

LEMMA LeaveTurn ==
  ASSUME TypeInv, InTurn, NEW c \in Clients, Idle, Leave(c)
  PROVE  InTurn'
<1>1. /\ mpc = "epoll" /\ edge = FALSE /\ backlog = <<>>
      /\ \A u \in Clients : ~ Active(u) /\ ~ AtWork(u)
  BY Quiet DEF Active
<1>2. /\ left' = left \cup {c}
      /\ UNCHANGED <<arrived, given, registered, stream, backlog, edge, mpc, fds, mnet, networks,
                     tpc, conn, head, errno, garbled>>
  BY DEF Leave, listener, route, thread
<1>3. OwnInv' /\ StreamInv' /\ AliveInv'
  BY <1>2 DEF InTurn, OwnInv, StreamInv, AliveInv
<1>4. \A u \in Clients : (Active(u)' => u = c) /\ ~ AtWork(u)'
  BY <1>1, <1>2 DEF Active, AtWork
<1>5. TurnInv'
  BY <1>1, <1>2, <1>4 DEF InTurn, TurnInv
<1>6. LastInv'
  BY <1>2, <1>4 DEF InTurn, LastInv, Asked
<1>7. BookInv'
  BY <1>1, <1>2 DEF InTurn, BookInv
<1>8. QED BY <1>2, <1>3, <1>5, <1>6, <1>7 DEF InTurn

\* In turn a client acts when the broker is idle.
LEMMA TakeTurns ==
  ASSUME hasty = {}, NEW c \in Clients
  PROVE  /\ Connect(c) => Idle /\ Answered
         /\ Subscribe(c) \/ Leave(c) => Idle
  BY DEF Connect, Subscribe, Leave

LEMMA TurnKept ==
  ASSUME TypeInv, InTurn, TypeInv', hasty = {}, Next, ~ short'
  PROVE  InTurn'
  BY EpollWaitTurn, AcceptTurn, RegisterTurn, TakeTurns, ConnectTurn, SubscribeTurn, LeaveTurn,
     ThreadTurn
  DEF Next, Start, ClientStep

-----------------------------------------------------------------------------
(* At most one client is hasty *)

\* What a match does not touch.
LEMMA MatchKeeps ==
  ASSUME TypeInv, NEW t \in Clients, Match(t)
  PROVE  /\ tpc[t] = "match" /\ ThreadTo(t, "readbody") /\ mnet'.sock = mnet.sock
         /\ UNCHANGED <<hasty, arrived, left, given, registered, stream, backlog, edge, mpc,
                        fds, stored, conn, head, inbox>>
<1>1. mnet' = [mnet EXCEPT !.role = Role(head[t]), !.topic = TopicOf[head[t]]]
  BY Zenon DEF Match
<1>2. mnet'.sock = mnet.sock
  BY <1>1 DEF TypeInv, TypeOK, Network
<1>3. QED BY Zenon, <1>2 DEF Match, At, client, listener, seen

\* A thread's step, seen from the others.
LEMMA ThreadMoves ==
  ASSUME TypeInv, NEW t \in Clients, ThreadStep(t)
  PROVE  /\ UNCHANGED <<hasty, arrived, left, given, registered, backlog, edge, mpc>>
         /\ mnet'.sock = mnet.sock
         /\ \A u \in Clients \ {t} : tpc'[u] = tpc[u]
         /\ \A c \in Clients : stream[c] = <<>> => stream'[c] = <<>>
<1> USE DEF TypeInv, TypeOK, ThreadTo, client, listener, route, thread, seen
<1>1. CASE ReadHead(t) \/ ReadBody(t)
  BY <1>1 DEF ReadHead, ReadBody
<1>2. CASE Match(t)
  BY <1>2, MatchKeeps
<1>3. CASE CallRecv(t) \/ PeerGone(t) \/ CallRecvBody(t)
  BY <1>3 DEF CallRecv, PeerGone, CallRecvBody, ReadFrom, GiveUp
<1>4. CASE Dispatch(t) \/ Forward(t) \/ rsync(t)
  BY <1>4 DEF Dispatch, Forward, rsync
<1>5. QED BY <1>1, <1>2, <1>3, <1>4 DEF ThreadStep

\* The step itself: it closes something, marks entries, or does neither.
LEMMA ThreadCloses ==
  ASSUME TypeInv, NEW t \in Clients, ThreadStep(t)
  PROVE  \/ UNCHANGED <<fds, networks>>
         \/ fds' = fds /\ Match(t)
         \/ \E sock, badf : handleNotify(sock, badf)
         \/ \E lost : lost \subseteq networks /\ Close(lost)
<1> USE DEF route, seen
<1>1. CASE CallRecv(t) \/ PeerGone(t) \/ CallRecvBody(t)
  BY <1>1 DEF CallRecv, PeerGone, CallRecvBody, ReadFrom, GiveUp
<1>2. CASE ReadHead(t) \/ ReadBody(t) \/ rsync(t)
  <2>1. UNCHANGED <<fds, networks>>
    BY <1>2 DEF ReadHead, ReadBody, rsync
  <2>2. QED BY <2>1
<1>3. CASE Match(t)
  <2>1. fds' = fds
    BY <1>3, MatchKeeps
  <2>2. QED BY <1>3, <2>1
<1>4. CASE Dispatch(t)
  BY <1>4 DEF Dispatch
<1>5. CASE Forward(t)
  <2>1. ASSUME NEW n \in Targets, WriteFails(t, n)
        PROVE  \E lost : lost \subseteq networks /\ Close(lost)
    <3>1. Close(networks) \/ Close(ClosedWith(n))
      BY Zenon, <2>1 DEF WriteFails
    <3>2. ClosedWith(n) \subseteq networks
      BY DEF ClosedWith
    <3>3. QED BY <3>1, <3>2
  <2>2. ASSUME NEW n \in Targets, ForwardTo(t, n)
        PROVE  UNCHANGED <<fds, networks>> \/ WriteFails(t, n)
    BY <2>2 DEF ForwardTo, Deliver
  <2>3. QED BY <1>5, <2>1, <2>2, ForwardIs
<1>6. QED BY <1>1, <1>2, <1>3, <1>4, <1>5 DEF ThreadStep

\* A thread that rests does not step.
LEMMA RestingStays ==
  ASSUME TypeInv, NEW t \in Clients, ThreadStep(t)
  PROVE  ~ Resting(t)
<1>1. CASE ReadHead(t) \/ ReadBody(t)
  BY <1>1 DEF ReadHead, ReadBody, At, Resting
<1>2. CASE PeerGone(t)
  BY <1>2 DEF PeerGone, At, Resting
<1>3. ASSUME tpc[t] \in {"recv", "match", "readbody", "dispatch", "forward", "rsync"}
      PROVE  ~ Resting(t)
  BY <1>3 DEF Resting
<1>4. QED
  BY <1>1, <1>2, <1>3, MatchKeeps DEF ThreadStep, CallRecv, CallRecvBody, Dispatch, Forward,
     rsync, At

LEMMA KnownThread ==
  ASSUME TypeInv, KnownInv, NEW t \in Clients, ThreadStep(t)
  PROVE  KnownInv'
<1> USE DEF TypeInv, TypeOK
<1>1. /\ UNCHANGED <<arrived, given, registered, backlog>>
      /\ \A u \in Clients \ {t} : tpc'[u] = tpc[u]
      /\ \A c \in Clients : stream[c] = <<>> => stream'[c] = <<>>
  BY ThreadMoves
<1>2. \A f \in Fds : fds'[f] \in arrived' \cup {None}
  <2>1. CASE fds' = fds
    BY <1>1, <2>1 DEF KnownInv
  <2>2. ASSUME NEW sock, NEW badf, handleNotify(sock, badf)
        PROVE  \A f \in Fds : fds'[f] \in arrived' \cup {None}
    BY <1>1, <2>2 DEF handleNotify, KnownInv
  <2>3. ASSUME NEW lost, Close(lost)
        PROVE  \A f \in Fds : fds'[f] \in arrived' \cup {None}
    BY <1>1, <2>3 DEF Close, KnownInv
  <2>4. QED BY <2>1, <2>2, <2>3, ThreadCloses
<1>3. \A u \in Clients : conn'[u] \in arrived' \cup {None}
  <2>1. CASE conn' = conn
    BY <1>1, <2>1 DEF KnownInv
  <2>2. ASSUME NEW pc, ReadFrom(t, pc), tpc[t] # "none"
        PROVE  \A u \in Clients : conn'[u] \in arrived' \cup {None}
    <3>1. conn' = conn \/ conn' = [conn EXCEPT ![t] = fds[mnet.sock]]
      BY <2>2 DEF ReadFrom, GiveUp
    <3>2. mnet.sock \in Fds
      BY <2>2 DEF HoldInv
    <3>3. QED BY <1>1, <3>1, <3>2 DEF KnownInv
  <2>3. CASE CallRecv(t) \/ CallRecvBody(t)
    BY <2>1, <2>2, <2>3 DEF CallRecv, CallRecvBody, At, GiveUp
  <2>4. CASE ~ CallRecv(t) /\ ~ CallRecvBody(t)
    <3>1. conn' = conn
      BY <2>4, MatchKeeps
      DEF ThreadStep, PeerGone, ReadHead, ReadBody, Dispatch, Forward, rsync, GiveUp
    <3>2. QED BY <2>1, <3>1
  <2>5. QED BY <2>3, <2>4
<1>4. ASSUME NEW u \in Clients, tpc'[u] = "match", head'[u] \in Subscribers
      PROVE  head'[u] \in registered'
  <2>1. CASE ReadHead(t)
    <3>1. /\ tpc[t] = "head" /\ stream[conn[t]] # <<>>
          /\ head' = [head EXCEPT ![t] = conn[t]]
      BY <2>1 DEF ReadHead, At
    <3>2. CASE u = t
      BY <1>1, <1>4, <3>1, <3>2 DEF KnownInv, HoldInv
    <3>3. CASE u # t
      BY <1>1, <1>4, <3>1, <3>3 DEF KnownInv
    <3>4. QED BY <3>2, <3>3
  <2>2. CASE ~ ReadHead(t)
    <3> SUFFICES head' = head /\ tpc'[t] # "match"
      BY <1>1, <1>4 DEF KnownInv
    <3>1. CASE CallRecv(t) \/ PeerGone(t) \/ CallRecvBody(t)
      BY <3>1 DEF CallRecv, PeerGone, CallRecvBody, ReadFrom, GiveUp, ThreadTo
    <3>2. CASE Match(t) \/ ReadBody(t) \/ rsync(t)
      BY <3>2, MatchKeeps DEF ReadBody, rsync, ThreadTo
    <3>3. CASE Dispatch(t) \/ Forward(t)
      BY <3>3 DEF Dispatch, Forward, ThreadTo
    <3>4. QED BY <2>2, <3>1, <3>2, <3>3 DEF ThreadStep
  <2>3. QED BY <2>1, <2>2
<1>5. QED BY <1>1, <1>2, <1>3, <1>4, Constants DEF KnownInv

LEMMA KnownStart ==
  ASSUME TypeInv, KnownInv, Start
  PROVE  KnownInv'
<1> USE DEF TypeInv, TypeOK, ListenInv, client, listener, route, thread, seen
<1>1. CASE EpollWait
  BY <1>1 DEF EpollWait, KnownInv
<1>2. CASE Accept
  <2>1. Head(backlog) \in arrived
    BY <1>2, Queues DEF Accept, KnownInv
  <2>2. PICK f \in Fds : fds' = [fds EXCEPT ![f] = Head(backlog)]
    BY <1>2 DEF Accept, Free
  <2>3. UNCHANGED <<arrived, given, registered, stream, backlog, tpc, conn, head>>
    BY <1>2 DEF Accept
  <2>4. QED BY <2>1, <2>2, <2>3 DEF KnownInv
<1>3. CASE Register
  <2>1. Head(backlog) \in arrived /\ Tail(backlog) \in Seq(arrived)
    BY <1>3, Queues DEF Register, KnownInv
  <2>2. /\ given' = [given EXCEPT ![Head(backlog)] = mnet.sock] /\ backlog' = Tail(backlog)
        /\ tpc' = [tpc EXCEPT ![Head(backlog)] = "recv"]
        /\ UNCHANGED <<arrived, registered, stream, fds, conn, head>>
    BY <1>3 DEF Register
  <2>3. QED BY <2>1, <2>2 DEF KnownInv
<1>4. QED BY <1>1, <1>2, <1>3 DEF Start

LEMMA KnownClient ==
  ASSUME TypeInv, KnownInv, NEW c \in Clients, ClientStep(c)
  PROVE  KnownInv'
<1> USE Constants DEF TypeInv, TypeOK, ListenInv, listener, thread, seen
<1>1. CASE Connect(c)
  <2>1. /\ arrived' = arrived \cup {c} /\ backlog' = Append(backlog, c)
        /\ UNCHANGED <<given, registered, fds, tpc, conn, head>>
        /\ \A d \in Subscribers : stream'[d] = stream[d]
    BY <1>1 DEF Connect
  <2>2. backlog \in Seq(arrived')
    BY <2>1 DEF KnownInv
  <2>3. backlog' \in Seq(arrived')
    BY <2>1, <2>2, Queues
  <2>4. QED BY <2>1, <2>3 DEF KnownInv
<1>2. CASE Subscribe(c)
  BY <1>2 DEF Subscribe, KnownInv
<1>3. CASE Leave(c)
  BY <1>3 DEF Leave, KnownInv
<1>4. QED BY <1>1, <1>2, <1>3 DEF ClientStep

LEMMA RestKept ==
  ASSUME TypeInv, KnownInv, RestInv, OneHasty, Next
  PROVE  RestInv'
<1> USE DEF TypeInv, TypeOK, client, listener, thread
<1>1. ASSUME NEW t \in Clients, ThreadStep(t) PROVE RestInv'
  <2>1. UNCHANGED <<hasty, arrived, edge, mpc>>
    BY <1>1, ThreadMoves
  <2>2. ~ Resting(t)
    BY <1>1, RestingStays
  <2>3. QED BY <2>1, <2>2 DEF RestInv
<1>2. ASSUME Start, NEW t \in Clients, Resting(t), ~ Register PROVE Resting(t)'
  BY <1>2 DEF Start, EpollWait, Accept, Resting
<1>3. CASE EpollWait
  BY <1>2, <1>3 DEF EpollWait, Start, Register, RestInv
<1>4. CASE Accept
  BY <1>2, <1>4 DEF Accept, Start, Register, RestInv
<1>5. CASE Register
  BY <1>5 DEF Register, RestInv
<1>6. ASSUME NEW c \in Clients, ClientStep(c) PROVE RestInv'
  <2>1. UNCHANGED <<hasty, mpc, tpc, conn>>
    BY <1>6 DEF ClientStep, Connect, Subscribe, Leave
  <2>2. CASE Connect(c)
    <3>1. /\ c \notin arrived /\ arrived' = arrived \cup {c} /\ edge' = TRUE /\ left' = left
          /\ \A d \in Clients \ {c} : stream'[d] = stream[d]
      BY <2>2 DEF Connect
    <3>2. ASSUME NEW t \in Clients, Resting(t) PROVE Resting(t)'
      <4>1. tpc[t] \in {"head", "body"} => conn[t] \in Clients /\ conn[t] # c
        BY <3>1, Constants DEF HoldInv, KnownInv
      <4>2. QED BY <2>1, <3>1, <3>2, <4>1 DEF Resting
    <3>3. CASE c \in hasty
      <4>1. hasty \cap arrived = {} /\ hasty' \cap arrived' # {}
        BY <2>1, <3>1, <3>3 DEF OneHasty
      <4>2. QED BY <2>1, <3>2, <4>1 DEF RestInv
    <3>4. CASE c \notin hasty
      <4>1. Idle /\ mpc = "epoll"
        BY <2>2, <3>4 DEF Connect, Idle
      <4>2. ASSUME hasty \cap arrived = {}, NEW t \in Clients PROVE Resting(t)
        <5>1. tpc[t] \in {"head", "body"} => conn[t] \in Clients /\ conn[t] \notin hasty
          BY <4>2, Constants DEF HoldInv, KnownInv
        <5>2. QED BY <4>1, <5>1 DEF Idle, Resting
      <4>3. QED BY <2>1, <3>1, <3>2, <4>1, <4>2 DEF RestInv
    <3>5. QED BY <3>3, <3>4
  <2>3. CASE Subscribe(c) \/ Leave(c)
    <3>1. UNCHANGED <<arrived, edge>> /\ c \in arrived
      BY <2>3 DEF Subscribe, Leave, KnownInv
    <3>2. CASE c \notin hasty
      <4>1. mpc = "epoll" /\ ~ edge
        BY <2>3, <3>2 DEF Subscribe, Leave, Idle
      <4>2. QED BY <2>1, <3>1, <4>1 DEF RestInv
    <3>3. CASE c \in hasty
      <4>1. hasty \cap arrived # {}
        BY <3>1, <3>3
      <4>2. ASSUME NEW t \in Clients, Resting(t) PROVE Resting(t)'
        <5>1. /\ \A d \in Clients \ {c} : stream'[d] = stream[d]
              /\ left' \subseteq left \cup {c}
          BY <2>3 DEF Subscribe, Leave
        <5>2. tpc[t] \in {"head", "body"} => conn[t] \in Clients
          BY DEF HoldInv
        <5>3. QED BY <2>1, <3>3, <4>2, <5>1, <5>2 DEF Resting
      <4>3. QED BY <2>1, <3>1, <4>1, <4>2 DEF RestInv
    <3>4. QED BY <3>2, <3>3
  <2>4. QED BY <1>6, <2>2, <2>3 DEF ClientStep
<1>7. QED BY <1>1, <1>3, <1>4, <1>5, <1>6 DEF Next, Start

\* The entries that a thread leaves keep their descriptors, and a descriptor its connection
\* until it is closed.
LEMMA EntriesStay ==
  ASSUME TypeInv, SockInv, NEW t \in Clients, ThreadStep(t)
  PROVE  /\ \A m \in networks' :
              /\ \E n \in networks : n.sock = m.sock /\ n.ssid = m.ssid
              /\ fds'[m.sock] = fds[m.sock]
         /\ \A m, n \in networks' : m.sock = n.sock => m = n
         /\ \A f \in Fds : fds'[f] = fds[f] \/ fds'[f] = None
<1>1. CASE UNCHANGED <<fds, networks>>
  BY <1>1 DEF SockInv
<1>2. CASE fds' = fds /\ Match(t)
  <2>1. networks' = {Marked(n, head[t]) : n \in networks} /\ head[t] \in Clients
    BY <1>2, MatchMarks, MatchKeeps DEF TypeInv, HoldInv, Serving
  <2>2. \A n \in networks : Marked(n, head[t]).sock = n.sock /\ Marked(n, head[t]).ssid = n.ssid
    BY <2>1, MarkedIs DEF TypeInv, TypeOK
  <2>3. \A m \in networks' : \E n \in networks : n.sock = m.sock /\ n.ssid = m.ssid
    BY <2>1, <2>2
  <2>4. ASSUME NEW m \in networks', NEW n \in networks', m.sock = n.sock PROVE m = n
    <3>1. PICK x \in networks, y \in networks : m = Marked(x, head[t]) /\ n = Marked(y, head[t])
      BY <2>1
    <3>2. x = y
      BY <2>2, <2>4, <3>1 DEF SockInv
    <3>3. QED BY <3>1, <3>2
  <2>5. QED BY <1>2, <2>3, <2>4
<1>3. ASSUME NEW sock, NEW badf, handleNotify(sock, badf)
      PROVE  /\ networks' \subseteq networks
             /\ \A m \in networks' : fds'[m.sock] = fds[m.sock]
             /\ \A f \in Fds : fds'[f] = fds[f] \/ fds'[f] = None
  <2> DEFINE lost == Entries(sock) \cup Swept(sock, badf)
  <2>1. /\ networks' = networks \ lost
        /\ fds' = [f \in Fds |-> IF f = sock \/ \E n \in lost : n.sock = f THEN None ELSE fds[f]]
    BY <1>3 DEF handleNotify
  <2>2. lost \subseteq networks /\ Entries(sock) \subseteq lost
    BY DEF Entries, Swept
  <2> HIDE DEF lost
  <2>3. ASSUME NEW m \in networks' PROVE fds'[m.sock] = fds[m.sock]
    <3>1. m \in networks /\ m \notin lost /\ m.sock \in Fds
      BY <2>1, <2>3 DEF TypeInv, TypeOK, Entry
    <3>2. m.sock # sock
      BY <2>2, <3>1 DEF Entries
    <3>3. ~ \E n \in lost : n.sock = m.sock
      BY <2>2, <3>1 DEF SockInv
    <3>4. QED BY <2>1, <3>1, <3>2, <3>3
  <2>4. QED BY <2>1, <2>3
<1>4. ASSUME NEW lost, lost \subseteq networks, Close(lost)
      PROVE  /\ networks' \subseteq networks
             /\ \A m \in networks' : fds'[m.sock] = fds[m.sock]
             /\ \A f \in Fds : fds'[f] = fds[f] \/ fds'[f] = None
  <2>1. /\ networks' = networks \ lost
        /\ fds' = [f \in Fds |-> IF \E n \in lost : n.sock = f THEN None ELSE fds[f]]
    BY <1>4 DEF Close
  <2>2. ASSUME NEW m \in networks' PROVE fds'[m.sock] = fds[m.sock]
    <3>1. m \in networks /\ m \notin lost /\ m.sock \in Fds
      BY <2>1, <2>2 DEF TypeInv, TypeOK, Entry
    <3>2. ~ \E n \in lost : n.sock = m.sock
      BY <1>4, <3>1 DEF SockInv
    <3>3. QED BY <2>1, <3>1, <3>2
  <2>3. QED BY <2>1, <2>2
<1>5. QED BY <1>1, <1>2, <1>3, <1>4, ThreadCloses DEF SockInv

\* The thread of an entry whose descriptor is closed sweeps all entries away.
LEMMA Sweeps ==
  ASSUME TypeInv, NEW n \in networks, tpc[n.ssid] = "recv", fds[mnet.sock] = None,
         ThreadStep(n.ssid)
  PROVE  networks' = {}
<1>1. CallRecv(n.ssid)
  BY MatchKeeps
  DEF ThreadStep, PeerGone, ReadHead, CallRecvBody, ReadBody, Dispatch, Forward, rsync, At,
      TypeInv, TypeOK, Entry
<1>2. GiveUp(n.ssid, TRUE)
  BY <1>1 DEF CallRecv, ReadFrom
<1>3. Swept(mnet.sock, TRUE) = networks
  BY DEF Swept
<1>4. QED BY <1>2, <1>3 DEF GiveUp, handleNotify

LEMMA SockThread ==
  ASSUME TypeInv, RestInv, SockInv, OneHasty, NEW t \in Clients, ThreadStep(t)
  PROVE  SockInv'
<1>1. /\ UNCHANGED <<hasty, arrived, backlog, edge, mpc>> /\ mnet'.sock = mnet.sock
      /\ \A u \in Clients \ {t} : tpc'[u] = tpc[u]
  BY ThreadMoves
<1>2. mpc = "register" => Late /\ mnet.sock \in Fds
  <2>1. ~ Resting(t)
    BY RestingStays
  <2>2. QED BY <2>1 DEF RestInv, Late, OneHasty, TypeInv
<1>3. ASSUME NEW m \in networks', fds'[m.sock] # m.ssid
      PROVE  /\ fds'[m.sock] = None /\ m.sock = mnet'.sock /\ tpc'[m.ssid] = "recv"
             /\ mpc' = "epoll" /\ Late'
  <2>1. PICK n \in networks : n.sock = m.sock /\ n.ssid = m.ssid
    BY EntriesStay
  <2>2. fds'[m.sock] = fds[n.sock]
    BY <2>1, EntriesStay
  <2>3. /\ fds[n.sock] = None /\ n.sock = mnet.sock /\ tpc[n.ssid] = "recv"
        /\ mpc = "epoll" /\ Late
    BY <1>3, <2>1, <2>2 DEF SockInv
  <2>4. n.ssid # t
    BY <1>3, <2>3, Sweeps
  <2>5. n.ssid \in Clients
    BY DEF TypeInv, TypeOK, Entry
  <2>6. QED BY <1>1, <2>1, <2>2, <2>3, <2>4, <2>5 DEF Late
<1>4. ASSUME mpc' = "register"
      PROVE  /\ \A m \in networks' : m.sock # mnet'.sock
             /\ fds'[mnet'.sock] = Head(backlog') \/ (fds'[mnet'.sock] = None /\ Late')
  <2>1. \A m \in networks' : m.sock # mnet'.sock
    BY <1>1, <1>4, EntriesStay DEF SockInv
  <2>2. fds'[mnet.sock] = fds[mnet.sock] \/ fds'[mnet.sock] = None
    BY <1>1, <1>2, <1>4, EntriesStay
  <2>3. QED BY <1>1, <1>2, <1>4, <2>1, <2>2 DEF SockInv, Late
<1>5. QED BY <1>3, <1>4, EntriesStay DEF SockInv

LEMMA SockStart ==
  ASSUME TypeInv, RestInv, SockInv, OneHasty, Start
  PROVE  SockInv'
<1> USE DEF TypeInv, TypeOK, client, listener, route, thread
<1>1. CASE EpollWait
  BY <1>1 DEF EpollWait, SockInv, Late
<1>2. CASE Accept
  <2>1. PICK f \in Free :
          fds' = [fds EXCEPT ![f] = Head(backlog)] /\ mnet' = [mnet EXCEPT !.sock = f]
    BY <1>2 DEF Accept
  <2>2. f \in Fds /\ fds[f] = None /\ mnet'.sock = f /\ fds'[f] = Head(backlog)
    BY <2>1 DEF Free, Network
  <2>3. mpc = "accept" /\ UNCHANGED <<networks, backlog>>
    BY <1>2 DEF Accept
  <2>4. \A n \in networks : fds[n.sock] = n.ssid /\ n.ssid # None /\ n.sock \in Fds
    BY <2>3, Constants DEF SockInv, Entry
  <2>5. \A n \in networks : n.sock # f /\ fds'[n.sock] = n.ssid
    BY <2>1, <2>2, <2>4
  <2>6. QED BY <2>2, <2>3, <2>5 DEF SockInv
<1>3. CASE Register
  <2>1. PICK c \in Clients : c = Head(backlog)
    BY <1>3, Queues DEF Register, ListenInv
  <2> DEFINE e == [sock |-> mnet.sock, ssid |-> c, role |-> mnet.role, topic |-> mnet.topic,
                   at |-> Entered]
  <2>2. networks' = networks \cup {e} /\ e.sock = mnet.sock /\ e.ssid = c
    BY <1>3, <2>1 DEF Register
  <2> HIDE DEF e
  <2>3. /\ mpc = "register" /\ mpc' = "epoll" /\ tpc' = [tpc EXCEPT ![c] = "recv"]
        /\ mnet'.sock = mnet.sock /\ UNCHANGED <<hasty, arrived, edge, fds>>
    BY <1>3, <2>1 DEF Register, Network
  <2>4. \A n \in networks : fds[n.sock] = n.ssid /\ n.sock # e.sock
    BY <2>2, <2>3 DEF SockInv
  <2>5. fds[e.sock] = c \/ (fds[e.sock] = None /\ Late)
    BY <2>1, <2>2, <2>3 DEF SockInv
  <2>6. QED BY <2>2, <2>3, <2>4, <2>5 DEF SockInv, Late
<1>4. QED BY <1>1, <1>2, <1>3 DEF Start

LEMMA SockClient ==
  ASSUME TypeInv, SockInv, NEW c \in Clients, ClientStep(c)
  PROVE  SockInv'
<1> USE DEF TypeInv, TypeOK, client, listener, route, thread, seen
<1>1. CASE Connect(c)
  <2>1. /\ c \notin arrived /\ (c \in hasty \/ Idle) /\ backlog' = Append(backlog, c)
        /\ UNCHANGED <<hasty, mpc, fds, mnet, networks, tpc>>
    BY <1>1 DEF Connect
  <2>2. ASSUME Late PROVE Idle
    BY <2>1, <2>2 DEF Late
  <2>3. ASSUME NEW n \in networks PROVE fds[n.sock] = n.ssid
    <3>1. n.ssid \in Clients
      BY DEF Entry
    <3>2. QED BY <2>2, <3>1 DEF SockInv, Idle
  <2>4. mpc = "register" => fds[mnet.sock] = Head(backlog) /\ Head(backlog') = Head(backlog)
    <3>1. mpc = "register" => backlog # <<>> /\ fds[mnet.sock] = Head(backlog)
      BY <2>2 DEF ListenInv, SockInv, Idle
    <3>2. backlog # <<>> => Head(backlog') = Head(backlog)
      BY <2>1 DEF ListenInv
    <3>3. QED BY <3>1, <3>2
  <2>5. QED BY <2>1, <2>3, <2>4 DEF SockInv
<1>2. CASE Subscribe(c) \/ Leave(c)
  BY <1>2 DEF Subscribe, Leave, SockInv, Late
<1>3. QED BY <1>1, <1>2 DEF ClientStep

LEMMA RouteKept ==
  ASSUME TypeInv, KnownInv, SockInv, RouteInv, Next
  PROVE  RouteInv'
<1>1. ASSUME registered \subseteq registered', UNCHANGED <<prsid, inbox>> PROVE RouteInv'
  BY <1>1 DEF RouteInv
<1>2. CASE Start
  BY <1>1, <1>2 DEF Start, EpollWait, Accept, Register, client, route, seen
<1>3. ASSUME NEW c \in Clients, ClientStep(c) PROVE RouteInv'
  BY <1>1, <1>3 DEF ClientStep, Connect, Subscribe, Leave, route, seen
<1>4. ASSUME NEW t \in Clients, Match(t) PROVE RouteInv'
  <2>1. UNCHANGED <<registered, inbox>> /\ tpc[t] = "match"
    BY <1>4, MatchKeeps
  <2>2. prsid' = prsid \/ (prsid' = head[t] /\ head[t] \in Subscribers)
    BY Zenon, <1>4 DEF Match, checkSsid
  <2>3. QED BY <2>1, <2>2 DEF RouteInv, KnownInv
<1>5. ASSUME NEW t \in Clients, Forward(t) PROVE RouteInv'
  <2>1. UNCHANGED <<registered, prsid>>
    BY <1>5 DEF Forward, client
  <2>2. CASE UNCHANGED inbox
    BY <1>1, <2>1, <2>2
  <2>3. ASSUME NEW n \in Targets, fds[n.sock] # None, Deliver(t, fds[n.sock]) PROVE RouteInv'
    <3>1. n \in networks /\ n.ssid \in Clients /\ n.ssid = prsid
      BY DEF Targets, TypeInv, TypeOK, Entry
    <3>2. fds[n.sock] = n.ssid
      BY <2>3, <3>1 DEF SockInv
    <3>3. n.ssid \in registered
      BY <3>1, Constants DEF RouteInv
    <3>4. \A u \in Clients : u # n.ssid => inbox'[u] = inbox[u]
      BY <2>3, <3>2 DEF Deliver, TypeInv
    <3>5. QED BY <2>1, <3>3, <3>4 DEF RouteInv
  <2>4. inbox' = inbox \/ \E n \in Targets : fds[n.sock] # None /\ Deliver(t, fds[n.sock])
    <3>1. ASSUME NEW n \in Targets, ForwardTo(t, n)
          PROVE  inbox' = inbox \/ (fds[n.sock] # None /\ Deliver(t, fds[n.sock]))
      BY <3>1 DEF ForwardTo, WriteFails, seen
    <3>2. QED BY <1>5, <3>1, ForwardIs DEF seen
  <2>5. QED BY <2>2, <2>3, <2>4
<1>6. ASSUME NEW t \in Clients, ThreadStep(t), ~ Match(t), ~ Forward(t) PROVE RouteInv'
  <2>1. UNCHANGED <<registered, prsid, inbox>>
    BY <1>6
    DEF ThreadStep, CallRecv, PeerGone, ReadHead, CallRecvBody, ReadBody, Dispatch, rsync,
        ReadFrom, GiveUp, client, route, seen
  <2>2. QED BY <1>1, <2>1
<1>7. QED BY <1>2, <1>3, <1>4, <1>5, <1>6 DEF Next

LEMMA HastyKept ==
  ASSUME TypeInv, HastyInv, OneHasty, Next
  PROVE  HastyInv'
<1>1. KnownInv'
  BY KnownThread, KnownStart, KnownClient DEF HastyInv, Next
<1>2. RestInv' /\ RouteInv'
  BY RestKept, RouteKept DEF HastyInv
<1>3. SockInv'
  BY SockThread, SockStart, SockClient DEF HastyInv, Next
<1>4. QED BY <1>1, <1>2, <1>3 DEF HastyInv

-----------------------------------------------------------------------------
(* A match, of clients in turn *)

\* A subscriber whose header is matched has registered.
LEMMA MatchRoute ==
  ASSUME TypeInv, InTurn, NEW t \in Clients, Match(t)
  PROVE  /\ tpc[t] = "match" /\ head[t] = t
         /\ prsid' = prsid \/ (prsid' = t /\ t \in registered)
<1>1. tpc[t] = "match" /\ head[t] = t
  BY DEF Match, At, InTurn, OwnInv, Serving
<1>2. t \in Subscribers => t \in registered
  BY <1>1 DEF InTurn, StreamInv, Serving
<1>3. QED BY <1>1, <1>2 DEF Match, checkSsid

-----------------------------------------------------------------------------
(* Every thread keeps its entry *)

LEMMA StayGoesOn ==
  ASSUME TypeInv, StayInv, NEW t \in Clients, AtWork(t), NEW pc, ThreadTo(t, pc),
         UNCHANGED <<left, disorder>>, mnet'.sock = mnet.sock, networks' \subseteq Entry,
         \A u \in Clients \ {t} : stream'[u] = stream[u],
         \A m \in networks' : \E n \in networks : n.ssid = m.ssid /\ n.sock = m.sock,
         \A n \in networks : \E m \in networks' : n.ssid = m.ssid /\ n.sock = m.sock
  PROVE  StayInv'
<1> SUFFICES ASSUME ~ disorder' PROVE StayInv'
  BY DEF StayInv
<1>1. tpc'[t] = pc /\ tpc[t] \notin {"none", "ended"}
      /\ \A u \in Clients \ {t} : tpc'[u] = tpc[u]
  BY DEF ThreadTo, TypeInv, TypeOK, AtWork
<1>2. ASSUME NEW u \in Clients, tpc'[u] \notin {"none", "ended"}
      PROVE  \E m \in networks' : m.ssid = u
  <2>1. PICK n \in networks : n.ssid = u
    BY <1>1, <1>2 DEF StayInv
  <2>2. QED BY <2>1
<1>3. ASSUME NEW m \in networks', m.ssid \in left'
      PROVE  m.sock = mnet'.sock /\ tpc'[m.ssid] = "head" /\ stream'[m.ssid] = <<>>
  <2>1. PICK n \in networks : n.ssid = m.ssid /\ n.sock = m.sock
    OBVIOUS
  <2>2. n.sock = mnet.sock /\ tpc[n.ssid] = "head" /\ stream[n.ssid] = <<>>
    BY <1>3, <2>1 DEF StayInv
  <2>3. n.ssid # t
    BY <2>2 DEF AtWork
  <2>4. n.ssid \in Clients
    BY DEF TypeInv, TypeOK, Entry
  <2>5. QED BY <1>1, <2>1, <2>2, <2>3, <2>4
<1>4. QED BY <1>2, <1>3 DEF StayInv

LEMMA StayGaveUp ==
  ASSUME TypeInv, InTurn, StayInv, NEW t \in Clients, Active(t), NEW badf \in BOOLEAN,
         badf => AtWork(t) /\ fds[mnet.sock] = None, GiveUp(t, badf)
  PROVE  StayInv'
<1> SUFFICES ASSUME ~ disorder' PROVE StayInv'
  BY DEF StayInv
<1>1. /\ tpc'[t] = "ended" /\ \A u \in Clients \ {t} : tpc'[u] = tpc[u]
      /\ UNCHANGED <<left, stream, mnet, disorder>>
  BY DEF GiveUp, ThreadTo, TypeInv, TypeOK, client, seen
<1>2. mpc = "epoll" /\ mnet.sock \in Fds /\ tpc[t] \notin {"none", "ended"}
  BY Alone
<1>3. PICK e \in networks : e.ssid = t
  BY <1>1, <1>2 DEF StayInv
<1>4. e.sock = mnet.sock /\ given[t] = e.sock /\ fds[e.sock] = t
  <2>1. given[t] = e.sock /\ fds[e.sock] = t
    BY <1>3 DEF InTurn, BookInv
  <2>2. CASE AtWork(t)
    BY <2>1, <2>2 DEF InTurn, LastInv
  <2>3. CASE t \in left
    BY <1>1, <1>3, <2>1, <2>3 DEF StayInv
  <2>4. QED BY <2>1, <2>2, <2>3 DEF Active
<1>5. ~ badf
  BY <1>4, Constants
<1>6. /\ networks' \subseteq networks
      /\ \A n \in networks' : n.sock # mnet.sock
      /\ \A n \in networks : n.sock # mnet.sock => n \in networks'
  BY <1>2, <1>5, Closing DEF GiveUp, InTurn
<1>7. ASSUME NEW u \in Clients, tpc'[u] \notin {"none", "ended"}
      PROVE  \E m \in networks' : m.ssid = u
  <2>1. u # t /\ tpc[u] \notin {"none", "ended"}
    BY <1>1, <1>7
  <2>2. PICK n \in networks : n.ssid = u
    BY <1>1, <2>1 DEF StayInv
  <2>3. n.sock # mnet.sock
    BY <1>3, <1>4, <2>1, <2>2 DEF InTurn, BookInv
  <2>4. QED BY <1>6, <2>2, <2>3
<1>8. \A n \in networks' : n.ssid \notin left'
  BY <1>1, <1>6 DEF StayInv
<1>9. QED BY <1>7, <1>8 DEF StayInv

LEMMA StayReads ==
  ASSUME TypeInv, InTurn, TypeInv', StayInv, NEW t \in Clients, NEW pc, AtWork(t), ReadFrom(t, pc)
  PROVE  StayInv'
<1>1. CASE fds[mnet.sock] = None
  BY <1>1, StayGaveUp DEF ReadFrom, Active
<1>2. CASE fds[mnet.sock] # None
  <2>1. ThreadTo(t, pc) /\ UNCHANGED <<left, disorder, mnet, networks, stream>>
    BY <1>2 DEF ReadFrom, client, route, seen
  <2>2. QED BY <2>1, StayGoesOn DEF TypeInv, TypeOK
<1>3. QED BY <1>1, <1>2

\* No write fails, as the subscriber that registered last has left only if it was
\* accepted last, and then its own thread is at work.
LEMMA NoWriteFails ==
  ASSUME TypeInv, InTurn, StayInv, ~ disorder, NEW t \in Clients, AtWork(t),
         tpc[t] # "head", NEW n \in networks
  PROVE  fds[n.sock] \notin left
<1>1. SUFFICES ASSUME fds[n.sock] \in left PROVE FALSE
  OBVIOUS
<1>2. n.ssid \in left /\ fds[n.sock] = n.ssid /\ n.ssid \in Clients
  BY <1>1 DEF InTurn, BookInv, TypeInv, TypeOK, Entry
<1>3. n.sock = mnet.sock /\ tpc[n.ssid] = "head"
  BY <1>2 DEF StayInv
<1>4. fds[mnet.sock] \in {t, None}
  BY DEF InTurn, LastInv
<1>5. QED BY <1>2, <1>3, <1>4, Constants

LEMMA StayThread ==
  ASSUME TypeInv, InTurn, TypeInv', StayInv, NEW t \in Clients, ThreadStep(t)
  PROVE  StayInv'
<1> SUFFICES ASSUME ~ disorder' PROVE StayInv'
  BY DEF StayInv
<1>1. CASE CallRecv(t)
  <2>1. AtWork(t) /\ Active(t) /\ errno[t] # "EBADF"
    BY <1>1 DEF CallRecv, At, Active, AtWork, InTurn, BookInv
  <2>2. QED BY <1>1, <2>1, StayReads, StayGaveUp DEF CallRecv
<1>2. CASE PeerGone(t)
  <2>1. Active(t) /\ errno[t] # "EBADF"
    BY <1>2, PeerGoneTurn DEF InTurn, BookInv
  <2>2. QED BY <1>2, <2>1, StayGaveUp DEF PeerGone
<1>3. CASE CallRecvBody(t)
  BY <1>3, StayReads DEF CallRecvBody, At, AtWork
<1>4. CASE ReadHead(t)
  <2>1. AtWork(t) /\ conn[t] = t
    BY <1>4 DEF ReadHead, At, AtWork, InTurn, OwnInv
  <2>2. ThreadTo(t, "match") /\ UNCHANGED <<left, disorder, mnet, networks>>
        /\ \A u \in Clients \ {t} : stream'[u] = stream[u]
    BY <1>4, <2>1 DEF ReadHead, route, TypeInv
  <2>3. QED BY <2>1, <2>2, StayGoesOn DEF TypeInv, TypeOK
<1>5. CASE ReadBody(t)
  <2>1. AtWork(t) /\ conn[t] = t
    BY <1>5 DEF ReadBody, At, AtWork, InTurn, OwnInv
  <2>2. ThreadTo(t, "dispatch") /\ UNCHANGED <<left, disorder, mnet, networks>>
        /\ \A u \in Clients \ {t} : stream'[u] = stream[u]
    BY <1>5, <2>1 DEF ReadBody, route, TypeInv
  <2>3. QED BY <2>1, <2>2, StayGoesOn DEF TypeInv, TypeOK
<1>6. CASE Match(t)
  <2>1. AtWork(t) /\ head[t] = t
    BY <1>6, MatchRoute DEF AtWork
  <2>2. networks' = {Marked(n, t) : n \in networks}
    BY <1>6, <2>1, MatchMarks
  <2>3. \A n \in networks : Marked(n, t).sock = n.sock /\ Marked(n, t).ssid = n.ssid
    BY MarkedIs DEF TypeInv, TypeOK
  <2>4. ThreadTo(t, "readbody") /\ UNCHANGED <<left, disorder, stream>> /\ mnet'.sock = mnet.sock
    BY <1>6 DEF Match, client, seen, TypeInv, TypeOK, Network
  <2>5. /\ \A m \in networks' : \E n \in networks : n.ssid = m.ssid /\ n.sock = m.sock
        /\ \A n \in networks : \E m \in networks' : n.ssid = m.ssid /\ n.sock = m.sock
    BY <2>2, <2>3
  <2>6. networks' \subseteq Entry
    BY DEF TypeInv, TypeOK
  <2>7. QED BY <2>1, <2>4, <2>5, <2>6, StayGoesOn
<1>7. CASE Dispatch(t)
  <2>1. AtWork(t) /\ Active(t) /\ errno[t] # "EBADF"
    BY <1>7 DEF Dispatch, At, Active, AtWork, InTurn, BookInv
  <2>2. CASE GiveUp(t, errno[t] = "EBADF")
    BY <2>1, <2>2, StayGaveUp
  <2>3. CASE UNCHANGED <<fds, networks>> /\ ThreadTo(t, "forward")
    <3>1. UNCHANGED <<left, disorder, mnet, networks, stream>>
      BY <1>7, <2>3 DEF Dispatch, client, seen
    <3>2. QED BY <2>1, <2>3, <3>1, StayGoesOn DEF TypeInv, TypeOK
  <2>4. QED BY <1>7, <2>2, <2>3, DispatchTurn
<1>8. CASE Forward(t)
  <2>1. /\ AtWork(t) /\ tpc[t] # "head" /\ (ThreadTo(t, "rsync") \/ ThreadTo(t, "recv"))
        /\ UNCHANGED <<left, disorder, mnet, stream>>
    BY <1>8, Forwards DEF AtWork, client
  <2>2. networks' = networks
    <3>1. \A n \in Targets : fds[n.sock] \notin left
      BY <2>1, NoWriteFails DEF Targets
    <3>2. QED BY <1>8, <3>1, Forwards DEF Refused, Deliver
  <2>3. QED BY <2>1, <2>2, StayGoesOn DEF TypeInv, TypeOK
<1>9. CASE rsync(t)
  <2>1. AtWork(t) /\ ThreadTo(t, "recv") /\ UNCHANGED <<left, disorder, mnet, networks, stream>>
    BY <1>9 DEF rsync, At, AtWork, client, route, seen
  <2>2. QED BY <2>1, StayGoesOn DEF TypeInv, TypeOK
<1>10. QED
  BY <1>1, <1>2, <1>3, <1>4, <1>5, <1>6, <1>7, <1>8, <1>9 DEF ThreadStep

LEMMA StayStart ==
  ASSUME TypeInv, InTurn, StayInv, Start
  PROVE  StayInv'
<1> SUFFICES ASSUME ~ disorder' PROVE StayInv'
  BY DEF StayInv
<1>1. CASE EpollWait
  BY <1>1 DEF EpollWait, StayInv, client, route, thread, seen
<1>2. ASSUME mpc # "epoll", NEW n \in networks PROVE n.ssid \notin left
  <2>1. n.ssid \in Clients
    BY DEF TypeInv, TypeOK, Entry
  <2>2. n.ssid \in left => Active(n.ssid)
    BY <2>1 DEF Active, AtWork, InTurn, AliveInv, StayInv, Start, EpollWait, Accept,
       Register, seen
  <2>3. QED BY <1>2, <2>1, <2>2, NobodyElse
<1>3. CASE Accept
  <2>1. UNCHANGED <<left, disorder, networks, tpc>> /\ mpc # "epoll"
    BY <1>3 DEF Accept, client, thread, seen
  <2>2. QED BY <1>2, <2>1 DEF StayInv
<1>4. CASE Register
  <2>1. PICK c \in Clients : c = Head(backlog) /\ c \notin left
    BY <1>4, NobodyElse DEF Register
  <2>2. mpc # "epoll" /\ UNCHANGED <<left, disorder>> /\ tpc' = [tpc EXCEPT ![c] = "recv"]
    BY <1>4, <2>1 DEF Register, seen
  <2>3. PICK e : e.ssid = c /\ networks' = networks \cup {e}
    BY <1>4, <2>1 DEF Register
  <2>4. \A n \in networks' : n.ssid \notin left'
    BY <1>2, <2>1, <2>2, <2>3
  <2>5. \A u \in Clients : tpc'[u] \notin {"none", "ended"} => \E n \in networks' : n.ssid = u
    BY <2>2, <2>3 DEF StayInv, TypeInv, TypeOK
  <2>6. QED BY <2>4, <2>5 DEF StayInv
<1>5. QED BY <1>1, <1>3, <1>4 DEF Start

LEMMA StayClient ==
  ASSUME TypeInv, InTurn, StayInv, hasty = {}, NEW c \in Clients, ClientStep(c)
  PROVE  StayInv'
<1> SUFFICES ASSUME ~ disorder' PROVE StayInv'
  BY DEF StayInv
<1>1. CASE Connect(c)
  <2>1. c \notin left /\ UNCHANGED <<left, disorder, networks, mnet, tpc>>
    BY <1>1 DEF Connect, route, thread, seen, TypeInv, TypeOK
  <2>2. \A u \in Clients \ {c} : stream'[u] = stream[u]
    BY <1>1 DEF Connect, TypeInv
  <2>3. \A n \in networks : n.ssid \in Clients
    BY DEF TypeInv, TypeOK, Entry
  <2>4. QED BY <2>1, <2>2, <2>3 DEF StayInv
<1>2. CASE Subscribe(c)
  <2>1. c \notin left /\ UNCHANGED <<left, disorder, networks, mnet, tpc>>
    BY <1>2 DEF Subscribe, route, thread, seen
  <2>2. \A u \in Clients \ {c} : stream'[u] = stream[u]
    BY <1>2 DEF Subscribe, TypeInv
  <2>3. \A n \in networks : n.ssid \in Clients
    BY DEF TypeInv, TypeOK, Entry
  <2>4. QED BY <2>1, <2>2, <2>3 DEF StayInv
<1>3. CASE Leave(c)
  <2>1. /\ Idle /\ left' = left \cup {c} /\ c \notin left
        /\ UNCHANGED <<networks, mnet, tpc, stream>>
    BY <1>3, TakeTurns DEF Leave, route, thread
  <2>2. mpc = "epoll" /\ \A u \in Clients :
           \/ tpc[u] \in {"none", "ended"}
           \/ tpc[u] = "head" /\ stream[u] = <<>> /\ u \notin left
    BY <2>1, Quiet
  <2>3. ~ disorder /\ mnet.sock \in Fds /\ fds[mnet.sock] = c
    <3>1. disorder' = (disorder \/ \A f \in Fds : fds[f] = c => f # mnet.sock)
      BY <1>3 DEF Leave
    <3>2. QED BY <3>1
  <2>4. PICK e \in networks : e.sock = mnet.sock /\ e.ssid = c /\ given[c] = mnet.sock
    <3>1. fds[mnet.sock] # None /\ mpc # "register"
      BY <2>2, <2>3, Constants
    <3>2. PICK e \in networks : e.sock = mnet.sock
      BY <2>3, <3>1 DEF InTurn, BookInv
    <3>3. fds[e.sock] = e.ssid /\ given[e.ssid] = e.sock
      BY DEF InTurn, BookInv
    <3>4. QED BY <2>3, <3>2, <3>3
  <2>5. ASSUME NEW n \in networks, n.ssid = c
        PROVE  n.sock = mnet.sock /\ tpc[c] = "head" /\ stream[c] = <<>>
    <3>1. n.sock = mnet.sock
      BY <2>4, <2>5 DEF InTurn, BookInv
    <3>2. tpc[c] # "none" /\ tpc[c] # "ended"
      BY <2>1, <2>3, <2>4, <2>5, Constants DEF InTurn, TurnInv, AliveInv
    <3>3. QED BY <2>2, <3>1, <3>2
  <2>6. QED BY <2>1, <2>3, <2>5 DEF StayInv
<1>4. QED BY <1>1, <1>2, <1>3 DEF ClientStep

LEMMA StayKept ==
  ASSUME TypeInv, InTurn, TypeInv', StayInv, hasty = {}, Next
  PROVE  StayInv'
  BY StayStart, StayClient, StayThread DEF Next

-----------------------------------------------------------------------------
(* Every message goes to a subscriber of its topic *)

LEMMA TopicRest ==
  ASSUME TypeInv, TopicInv, UNCHANGED <<prsid, inbox, networks, tpc>>, mnet'.topic = mnet.topic
  PROVE  TopicInv'
  BY DEF TopicInv

LEMMA TopicThread ==
  ASSUME TypeInv, TopicInv, NEW t \in Clients, NEW pc, ThreadTo(t, pc),
         pc \in {"body", "dispatch", "forward"} => tpc[t] \in {"readbody", "body", "dispatch"},
         pc # "readbody",
         UNCHANGED <<prsid, inbox, mnet>>, networks' \subseteq networks
  PROVE  TopicInv'
<1>1. tpc'[t] = pc /\ \A u \in Clients \ {t} : tpc'[u] = tpc[u]
  BY DEF ThreadTo, TypeInv, TypeOK
<1>2. \A u \in Clients : tpc'[u] \in {"readbody", "body", "dispatch", "forward"} =>
                         mnet'.topic = TopicOf[u]
  BY <1>1 DEF TopicInv
<1>3. QED BY <1>2 DEF TopicInv

LEMMA TopicGaveUp ==
  ASSUME TypeInv, TopicInv, NEW t \in Clients, NEW badf, GiveUp(t, badf)
  PROVE  TopicInv'
<1>1. networks' \subseteq networks
  BY ClosingTypes DEF GiveUp, TypeInv
<1>2. ThreadTo(t, "ended") /\ UNCHANGED <<prsid, inbox, mnet>>
  BY DEF GiveUp, seen
<1>3. QED BY <1>1, <1>2, TopicThread

LEMMA TopicReads ==
  ASSUME TypeInv, TopicInv, NEW t \in Clients, NEW pc \in {"head", "body"},
         tpc[t] = IF pc = "head" THEN "recv" ELSE "readbody", ReadFrom(t, pc)
  PROVE  TopicInv'
<1>1. CASE fds[mnet.sock] = None
  BY <1>1, TopicGaveUp DEF ReadFrom
<1>2. CASE fds[mnet.sock] # None
  <2>1. ThreadTo(t, pc) /\ UNCHANGED <<prsid, inbox, mnet, networks>>
    BY <1>2 DEF ReadFrom, route, seen
  <2>2. QED BY <2>1, TopicThread
<1>3. QED BY <1>1, <1>2

\* The ssid that a subscriber sends back fits its own entry and no other.
LEMMA OwnEntry ==
  ASSUME TypeInv, InTurn, Legible, NEW t \in Clients, AtWork(t), NEW n \in networks
  PROVE  checkSsid(n.sock, t) <=> t \in Subscribers /\ n.ssid = t
<1>1. tpc[t] # "none"
  BY DEF AtWork
<1>2. given[t] \in Fds
  BY <1>1 DEF InTurn, TurnInv, TypeInv, TypeOK
<1>3. SocketBits[given[t]] = given[t]
  BY <1>2 DEF Legible
<1>4. given[t] = mnet.sock /\ fds[mnet.sock] \in {t, None}
  BY DEF InTurn, LastInv
<1>5. fds[n.sock] = n.ssid /\ given[n.ssid] = n.sock /\ n.ssid \in Clients
  BY DEF InTurn, BookInv, TypeInv, TypeOK, Entry
<1>6. n.sock = given[t] <=> n.ssid = t
  BY <1>4, <1>5, Constants
<1>7. QED BY <1>3, <1>6 DEF checkSsid

LEMMA TopicMatch ==
  ASSUME TypeInv, InTurn, TopicInv, Legible, NEW t \in Clients, Match(t)
  PROVE  TopicInv'
<1>1. tpc[t] = "match" /\ head[t] = t /\ AtWork(t)
  BY MatchRoute DEF AtWork
<1>2. networks' = {Marked(n, t) : n \in networks}
  BY <1>1, MatchMarks
<1>3. \A n \in networks :
        /\ Marked(n, t).ssid = n.ssid
        /\ checkSsid(n.sock, t) => Marked(n, t).role = Role(t) /\ Marked(n, t).topic = TopicOf[t]
        /\ ~ checkSsid(n.sock, t) => Marked(n, t) = n
  BY MarkedIs DEF TypeInv, TypeOK
<1>4. \A n \in networks : checkSsid(n.sock, t) <=> t \in Subscribers /\ n.ssid = t
  BY <1>1, OwnEntry
<1>5. t \in Subscribers => Role(t) = "consumer"
  BY Constants DEF Role
<1>6. prsid' = IF \E n \in networks : checkSsid(n.sock, t) THEN t ELSE prsid
  BY <1>1 DEF Match
<1>7. ASSUME NEW n \in networks, n.ssid = prsid'
      PROVE  Marked(n, t).role = "consumer" /\ Marked(n, t).topic = TopicOf[prsid']
  <2>1. CASE checkSsid(n.sock, t)
    BY <1>3, <1>4, <1>5, <1>7, <2>1
  <2>2. CASE ~ checkSsid(n.sock, t)
    <3>1. prsid' = prsid
      BY <1>4, <1>6, <1>7, <2>2
    <3>2. QED BY <1>3, <1>7, <2>2, <3>1 DEF TopicInv
  <2>3. QED BY <2>1, <2>2
<1>8. \A m \in networks' : m.ssid = prsid' => m.role = "consumer" /\ m.topic = TopicOf[prsid']
  BY <1>2, <1>3, <1>7
<1>9. ASSUME NEW u \in Clients, tpc'[u] \in {"readbody", "body", "dispatch", "forward"}
      PROVE  mnet'.topic = TopicOf[u]
  <2>1. mnet'.topic = TopicOf[t] /\ \A v \in Clients \ {t} : tpc'[v] = tpc[v]
    BY <1>1 DEF Match, ThreadTo, TypeInv, TypeOK, Network
  <2>2. u = t
    BY <1>1, <1>9, <2>1, Alone DEF Active, AtWork
  <2>3. QED BY <2>1, <2>2
<1>10. UNCHANGED inbox
  BY DEF Match, seen
<1>11. QED BY <1>8, <1>9, <1>10 DEF TopicInv

LEMMA TopicForward ==
  ASSUME TypeInv, InTurn, TopicInv, NEW t \in Clients, Forward(t)
  PROVE  TopicInv'
<1>1. /\ tpc[t] = "forward" /\ (ThreadTo(t, "rsync") \/ ThreadTo(t, "recv"))
      /\ UNCHANGED <<mnet, prsid>>
  BY Forwards
<1>2. CASE UNCHANGED <<networks, inbox>>
  BY <1>1, <1>2, TopicThread
<1>3. ASSUME NEW n \in Targets, Refused(t, n) PROVE TopicInv'
  <2>1. networks' \subseteq networks /\ UNCHANGED inbox
    BY <1>3, CloseTypes DEF Refused, TypeInv
  <2>2. QED BY <1>1, <2>1, TopicThread
<1>4. ASSUME NEW n \in Targets, Deliver(t, n.ssid) PROVE TopicInv'
  <2>1. head[t] = t
    BY <1>1 DEF InTurn, OwnInv, Serving
  <2>2. n.ssid \in Clients /\ TopicOf[t] = TopicOf[n.ssid]
    BY <1>1 DEF Targets, TopicInv, TypeInv, TypeOK, Entry
  <2>3. /\ inbox'[n.ssid] = Append(inbox[n.ssid], t) /\ UNCHANGED networks
        /\ \A c \in Clients \ {n.ssid} : inbox'[c] = inbox[c]
    BY <1>4, <2>1, <2>2 DEF Deliver, TypeInv
  <2>4. ASSUME NEW c \in Clients, NEW k \in DOMAIN inbox'[c]
        PROVE  TopicOf[inbox'[c][k]] = TopicOf[c]
    <3>1. CASE c # n.ssid
      BY <2>3, <3>1 DEF TopicInv
    <3>2. CASE c = n.ssid
      <4>1. inbox[c] \in Seq(Clients) /\ k \in 1 .. Len(inbox[c]) + 1
        BY <2>3, <3>2 DEF TypeInv
      <4>2. inbox'[c][k] = IF k = Len(inbox[c]) + 1 THEN t ELSE inbox[c][k]
        BY <2>3, <3>2, <4>1
      <4>3. k # Len(inbox[c]) + 1 => k \in DOMAIN inbox[c]
        BY <4>1
      <4>4. QED BY <2>2, <3>2, <4>2, <4>3 DEF TopicInv
    <3>3. QED BY <3>1, <3>2
  <2>5. ASSUME NEW u \in Clients, tpc'[u] \in {"readbody", "body", "dispatch", "forward"}
        PROVE  mnet'.topic = TopicOf[u]
    BY <1>1, <2>5 DEF TopicInv, ThreadTo, TypeInv, TypeOK
  <2>6. QED BY <1>1, <2>3, <2>4, <2>5 DEF TopicInv
<1>5. QED BY <1>2, <1>3, <1>4, Forwards

LEMMA TopicStart ==
  ASSUME TypeInv, InTurn, RouteInv, TopicInv, Start
  PROVE  TopicInv'
<1>1. CASE EpollWait
  BY <1>1, TopicRest DEF EpollWait, route, thread, seen
<1>2. CASE Accept
  <2>1. mnet'.topic = mnet.topic
    BY <1>2 DEF Accept, TypeInv, TypeOK, Network
  <2>2. QED BY <1>2, <2>1, TopicRest DEF Accept, thread, seen
<1>3. CASE Register
  <2>1. PICK c \in Clients : c = Head(backlog) /\ given[c] = None /\ c \notin registered
    BY <1>3, NobodyElse DEF Register
  <2>2. c # prsid
    BY <2>1, Constants DEF RouteInv
  <2>3. PICK e : e.ssid = c /\ networks' = networks \cup {e}
    BY <1>3, <2>1 DEF Register
  <2>4. /\ tpc' = [tpc EXCEPT ![c] = "recv"] /\ mnet'.topic = mnet.topic
        /\ UNCHANGED <<prsid, inbox>>
    BY <1>3, <2>1 DEF Register, seen, TypeInv, TypeOK, Network
  <2>5. \A n \in networks' :
          n.ssid = prsid' => n.role = "consumer" /\ n.topic = TopicOf[prsid']
    BY <2>2, <2>3, <2>4 DEF TopicInv
  <2>6. \A u \in Clients : tpc'[u] \in {"readbody", "body", "dispatch", "forward"} =>
                           mnet'.topic = TopicOf[u]
    BY <2>4 DEF TopicInv, TypeInv, TypeOK
  <2>7. QED BY <2>4, <2>5, <2>6 DEF TopicInv
<1>4. QED BY <1>1, <1>2, <1>3 DEF Start

LEMMA TopicThreads ==
  ASSUME TypeInv, InTurn, TopicInv, Legible, NEW t \in Clients, ThreadStep(t)
  PROVE  TopicInv'
<1>1. CASE CallRecv(t)
  BY <1>1, TopicReads, TopicGaveUp DEF CallRecv, At
<1>2. CASE PeerGone(t)
  BY <1>2, TopicGaveUp DEF PeerGone
<1>3. CASE ReadHead(t)
  BY <1>3, TopicThread DEF ReadHead, route
<1>4. CASE Match(t)
  BY <1>4, TopicMatch
<1>5. CASE CallRecvBody(t)
  BY <1>5, TopicReads DEF CallRecvBody, At
<1>6. CASE ReadBody(t)
  BY <1>6, TopicThread DEF ReadBody, At, route
<1>7. CASE Dispatch(t)
  <2>1. CASE GiveUp(t, errno[t] = "EBADF")
    BY <2>1, TopicGaveUp
  <2>2. CASE UNCHANGED <<fds, networks>> /\ ThreadTo(t, "forward")
    BY <1>7, <2>2, TopicThread DEF Dispatch, At, seen
  <2>3. QED BY <1>7, <2>1, <2>2, DispatchTurn
<1>8. CASE Forward(t)
  BY <1>8, TopicForward
<1>9. CASE rsync(t)
  BY <1>9, TopicThread DEF rsync, route, seen
<1>10. QED
  BY <1>1, <1>2, <1>3, <1>4, <1>5, <1>6, <1>7, <1>8, <1>9 DEF ThreadStep

LEMMA TopicKept ==
  ASSUME TypeInv, InTurn, RouteInv, TopicInv, Legible, Next
  PROVE  TopicInv'
<1>1. ASSUME NEW c \in Clients, ClientStep(c) PROVE TopicInv'
  BY <1>1, TopicRest DEF ClientStep, Connect, Subscribe, Leave, route, thread, seen
<1>2. QED BY <1>1, TopicStart, TopicThreads DEF Next

-----------------------------------------------------------------------------
(* The invariant and what follows from it *)

LEMMA InvInit ==
  ASSUME Init
  PROVE  Inv
<1> USE Constants DEF Init
<1>1. TypeInv
  <2>1. hasty \in SUBSET Clients
    BY BrokerAssumption
  <2>2. mnet \in Network
    BY DEF Network, Roles
  <2>3. TypeOK
    BY <2>2 DEF TypeOK
  <2>4. \A S : <<>> \in Seq(S)
    OBVIOUS
  <2>5. ListenInv
    BY <2>4 DEF ListenInv
  <2>6. HoldInv
    BY DEF HoldInv, Serving
  <2>7. stream \in [Clients -> Seq({"head", "body"})] /\ inbox \in [Clients -> Seq(Clients)]
    BY <2>4
  <2>8. QED BY <2>1, <2>3, <2>5, <2>6, <2>7 DEF TypeInv
<1>2. OwnInv /\ StreamInv
  BY DEF OwnInv, StreamInv, Serving
<1>3. TurnInv /\ LastInv
  BY DEF TurnInv, LastInv, Active, AtWork, Asked
<1>4. BookInv /\ AliveInv
  BY DEF BookInv, AliveInv
<1>5. RouteInv /\ StayInv /\ TopicInv
  BY DEF RouteInv, StayInv, TopicInv
<1>6. KnownInv /\ RestInv /\ SockInv
  <2>1. \A S : <<>> \in Seq(S)
    OBVIOUS
  <2>2. QED BY <2>1 DEF KnownInv, RestInv, SockInv, Resting
<1>7. QED BY <1>1, <1>2, <1>3, <1>4, <1>5, <1>6 DEF Inv, InTurn, HastyInv

\* A read that was short is not undone.
LEMMA ShortStays ==
  ASSUME Next, short
  PROVE  short'
<1> USE DEF seen
<1>1. CASE Start
  BY <1>1 DEF Start, EpollWait, Accept, Register
<1>2. ASSUME NEW c \in Clients, ClientStep(c) PROVE short'
  BY <1>2 DEF ClientStep, Connect, Subscribe, Leave
<1>3. ASSUME NEW t \in Clients, ReadHead(t) \/ ReadBody(t) PROVE short'
  BY <1>3 DEF ReadHead, ReadBody
<1>4. ASSUME NEW t \in Clients, Forward(t) PROVE short'
  <2>1. ASSUME NEW n \in Targets, ForwardTo(t, n) PROVE short'
    BY <2>1 DEF ForwardTo, WriteFails, Deliver
  <2>2. QED BY <1>4, <2>1, ForwardIs
<1>5. ASSUME NEW t \in Clients, CallRecv(t) \/ PeerGone(t) \/ CallRecvBody(t) PROVE short'
  BY <1>5 DEF CallRecv, PeerGone, CallRecvBody, ReadFrom, GiveUp
<1>6. ASSUME NEW t \in Clients, Match(t) \/ Dispatch(t) \/ rsync(t) PROVE short'
  BY <1>6 DEF Match, Dispatch, rsync
<1>7. QED BY <1>1, <1>2, <1>3, <1>4, <1>5, <1>6 DEF Next, ThreadStep

LEMMA InvStep ==
  ASSUME Inv, [Next]_vars
  PROVE  Inv'
<1>1. CASE Next
  <2>1. TypeInv /\ TypeInv'
    BY <1>1, TypesKept DEF Inv
  <2>2. hasty' = hasty
    BY <1>1
    DEF Next, Start, EpollWait, Accept, Register, ClientStep, Connect, Subscribe, Leave,
        ThreadStep, CallRecv, PeerGone, ReadHead, Match, CallRecvBody, ReadBody, Dispatch,
        Forward, rsync, ReadFrom, GiveUp
  <2>3. ASSUME OneHasty PROVE HastyInv'
    BY <1>1, <2>1, <2>3, HastyKept DEF Inv
  <2>3a. ASSUME Orderly' PROVE Orderly /\ ~ short' /\ hasty = {}
    BY <1>1, <2>2, <2>3a, ShortStays DEF Orderly
  <2>4. ASSUME Orderly' PROVE InTurn' /\ StayInv'
    BY <1>1, <2>1, <2>3a, <2>4, TurnKept, StayKept DEF Inv
  <2>5. ASSUME Orderly', Legible PROVE TopicInv'
    <3>1. RouteInv
      BY <2>3a, <2>5 DEF Inv, OneHasty, HastyInv
    <3>2. QED BY <1>1, <2>1, <2>3a, <2>5, <3>1, TopicKept DEF Inv
  <2>6. (Legible)' => Legible
    BY DEF Legible
  <2>7. QED BY <2>1, <2>2, <2>3, <2>4, <2>5, <2>6 DEF Inv, OneHasty
<1>2. CASE UNCHANGED vars
  <2> USE <1>2 DEF vars, client, listener, route, thread, seen
  <2>1. TypeInv'
    BY DEF Inv, TypeInv, TypeOK, ListenInv, HoldInv
  <2>2. ASSUME Orderly' PROVE Orderly
    BY <2>2 DEF Orderly
  <2>3. ASSUME Orderly' PROVE InTurn'
    BY <2>2, <2>3 DEF Inv, InTurn, OwnInv, StreamInv, TurnInv, LastInv, BookInv, AliveInv,
                      Active, AtWork, Asked
  <2>4. ASSUME Orderly' PROVE StayInv'
    BY <2>2, <2>4 DEF Inv, StayInv
  <2>5. ASSUME Orderly', (Legible)' PROVE TopicInv'
    BY <2>2, <2>5 DEF Inv, TopicInv, Legible
  <2>6. ASSUME OneHasty PROVE HastyInv'
    BY <2>6 DEF Inv, HastyInv, KnownInv, RestInv, Resting, SockInv, Late, RouteInv
  <2>7. QED BY <2>1, <2>3, <2>4, <2>5, <2>6 DEF Inv, OneHasty
<1>3. QED BY <1>1, <1>2

THEOREM Invariance == Spec => []Inv
  BY InvInit, InvStep, PTL DEF Spec

LEMMA InvBooks ==
  ASSUME Inv
  PROVE  Bookkeeping
<1>1. TypeOK
  BY DEF Inv, TypeInv
<1> SUFFICES ASSUME Orderly, Idle PROVE OneThreadEach
  BY <1>1 DEF Bookkeeping, OneThreadEach
<1>2. TypeInv /\ InTurn
  BY DEF Inv
<1>3. mpc = "epoll" /\ \A u \in Clients :
         tpc[u] \in {"none", "ended"} \/ tpc[u] = "head"
  BY <1>2, Quiet
<1>4. \A n \in networks : fds[n.sock] = n.ssid
  BY <1>2 DEF InTurn, BookInv
<1>5. ASSUME NEW f \in Fds, fds[f] # None
      PROVE  /\ Cardinality(Entries(f)) = 1
             /\ fds[f] \in left \/ (tpc[fds[f]] = "head" /\ conn[fds[f]] = fds[f])
  <2>1. PICK n \in networks : n.sock = f
    BY <1>2, <1>3, <1>5 DEF InTurn, BookInv
  <2>2. Entries(f) = {n}
    BY <1>2, <2>1 DEF Entries, InTurn, BookInv
  <2>3. Cardinality(Entries(f)) = 1
    BY <2>2, FS_Singleton
  <2>4. /\ n.ssid \in Clients /\ fds[f] = n.ssid /\ given[n.ssid] = f
        /\ (n.ssid \in left \/ tpc[n.ssid] # "ended")
    BY <1>2, <2>1 DEF InTurn, BookInv, AliveInv, TypeInv, TypeOK, Entry
  <2>5. tpc[n.ssid] # "none"
    BY <1>2, <2>4, Constants DEF InTurn, TurnInv
  <2>6. tpc[n.ssid] = "head" => conn[n.ssid] = n.ssid
    BY <1>2, <2>4 DEF InTurn, OwnInv
  <2>7. QED BY <1>3, <2>3, <2>4, <2>5, <2>6
<1>6. QED BY <1>4, <1>5 DEF OneThreadEach

\* Whatever the clients do, the broker's state has its types; and in turn, as long as no
\* read has been short, between two clients' actions m_networks, the open descriptors and
\* the threads that wait for a message correspond: nothing leaks, nothing is listed twice
\* (start, recv and handleNotify, which closes all that follows in the vector when a write
\* has failed), for any number of clients, topics and descriptors.
THEOREM BooksAreKept == Spec => []Bookkeeping
  BY Invariance, InvBooks, PTL

\* Clients in turn, and no read has returned less than it asked for: no thread reads
\* another connection's body or a body for a header, although every recv() reads from the
\* connection accepted last. A short read, which recv() only logs, ends this.
THEOREM StaysInStep == Spec => []InStep
<1>1. Inv => InStep
  BY DEF Inv, InTurn, InStep
<1>2. QED BY <1>1, Invariance, PTL

\* No message is sent to a client that has not registered, although a new connection
\* inherits the role of the last message, and a connection may be closed before start()
\* has made its entry: of all clients one may act at any time, however many there are.
THEOREM OnlyRegistered == Spec => []OnlySubscribers
<1>1. ASSUME Inv PROVE OnlySubscribers
  <2>1. SUFFICES ASSUME Cardinality(hasty) <= 1
                 PROVE  \A c \in Clients : inbox[c] # <<>> => c \in registered
    BY DEF OnlySubscribers
  <2>2. OneHasty
    <3>1. IsFiniteSet(hasty)
      BY <1>1, Constants, FS_Subset DEF Inv, TypeInv
    <3>2. CASE Cardinality(hasty) = 0
      BY <3>1, <3>2, FS_EmptySet DEF OneHasty
    <3>3. CASE Cardinality(hasty) = 1
      <4>1. PICK h : hasty = {h}
        BY <3>1, <3>3, FS_Singleton
      <4>2. QED BY <4>1 DEF OneHasty
    <3>4. QED BY <2>1, <3>1, <3>2, <3>3, FS_CardinalityType
  <2>3. QED BY <1>1, <2>2 DEF Inv, HastyInv, RouteInv
<1>2. QED BY <1>1, Invariance, PTL

\* Clients in turn, no short read: a message goes to a subscriber of its topic, if
\* checkSsid finds in an ssid the descriptor that setSsid was given.
THEOREM TopicsMatch ==
  ASSUME Legible
  PROVE  Spec => []RightTopic
<1>1. Inv => RightTopic
  BY DEF Inv, TopicInv, RightTopic
<1>2. QED BY <1>1, Invariance, PTL

\* Clients in turn, no short read, and only the client accepted last ever leaves: the
\* subscriber that registered last, if its thread waits for a message, has its entry with
\* role and topic, if checkSsid finds in an ssid the descriptor that setSsid was given.
THEOREM LastReachable ==
  ASSUME Legible
  PROVE  Spec => []LastStaysReachable
<1>1. ASSUME Inv PROVE LastStaysReachable
  <2>1. SUFFICES ASSUME Orderly, Idle, ~ disorder, prsid # None, tpc[prsid] = "head"
                 PROVE  \E n \in networks :
                          /\ n.ssid = prsid /\ fds[n.sock] = prsid
                          /\ n.role = "consumer" /\ n.topic = TopicOf[prsid]
    BY DEF LastStaysReachable
  <2>2. TypeInv /\ InTurn /\ StayInv /\ TopicInv
    BY <1>1, <2>1 DEF Inv
  <2>3. prsid \in Clients
    BY <2>1, <2>2 DEF TypeInv, TypeOK, Clients
  <2>4. PICK n \in networks : n.ssid = prsid
    BY <2>1, <2>2, <2>3 DEF StayInv
  <2>5. QED BY <2>2, <2>4 DEF InTurn, BookInv, TopicInv
<1>2. QED BY <1>1, Invariance, PTL

=============================================================================
