----------------------------- MODULE LinkedList -----------------------------
(***************************************************************************)
(* The class LinkedList of LinxSrvc/include/Structures.h: nodes with two   *)
(* pointers, a pointer m_list to the node that the list was made with, and *)
(* a count.  The calls of test/tests/test2_struct.cpp, in any order.       *)
(***************************************************************************)
EXTENDS Integers, Sequences, FiniteSets, FiniteSetsExt

CONSTANTS
  Elems,    \* elements: pointers to the client's objects
  Nodes,    \* addresses of nodes
  Null

ASSUME ListAssumption ==
  Nodes \subseteq Nat /\ IsFiniteSet(Nodes) /\ Nodes # {} /\ Null \notin Nodes \cup Elems

VARIABLES
  alive,    \* the nodes that are allocated
  addr, prev, next,
  m_list, m_count,
  state     \* ok; crashed: a null pointer was followed; dangling: m_list points to a deleted node

nodeVars == <<alive, addr, prev, next, m_list, m_count, state>>

Undefined == "undefined"

MaxSize == Cardinality(Nodes)

NodesInit ==
  /\ \E e \in Elems : addr = [n \in Nodes |-> IF n = Min(Nodes) THEN e ELSE Null]
  /\ alive = {Min(Nodes)} /\ m_list = Min(Nodes) /\ m_count = 1
  /\ prev = [n \in Nodes |-> Null] /\ next = [n \in Nodes |-> Null]
  /\ state = "ok"

Follow(pointer, n) == IF n = Null THEN Null ELSE pointer[n]

\* The node k steps from one along a pointer, or Null.
Along(pointer, from, k) ==
  LET node[i \in 0 .. k] == IF i = 0 THEN from ELSE Follow(pointer, node[i - 1])
  IN node[k]

\* The first node with the element along a pointer from m_list, in m_count steps.
Search(pointer, e) ==
  LET hits == {k \in 0 .. m_count : LET n == Along(pointer, m_list, k)
                                    IN n # Null /\ addr[n] = e}
  IN IF hits = {} THEN Null ELSE Along(pointer, m_list, Min(hits))

\* Mutant of find: it looks only one way.
FindForward(e) == Search(next, e)

\* Backwards from m_list, then forwards.
find(e) == IF Search(prev, e) # Null THEN Search(prev, e) ELSE Search(next, e)

\* Back to a node without a predecessor, in at most m_count steps.
first ==
  LET ends == {k \in 0 .. m_count : LET n == Along(prev, m_list, k) IN n # Null /\ prev[n] = Null}
  IN IF ends = {} THEN Along(prev, m_list, m_count) ELSE Along(prev, m_list, Min(ends))

\* Mutant of add: the successor keeps its predecessor.
AddHalf(node, e, posp) ==
  /\ alive' = alive \cup {node} /\ addr' = [addr EXCEPT ![node] = e]
  /\ IF next[posp] = Null
     THEN prev' = [prev EXCEPT ![node] = posp] /\ next' = [next EXCEPT ![posp] = node]
     ELSE IF prev[posp] = Null
     THEN next' = [next EXCEPT ![node] = posp] /\ prev' = [prev EXCEPT ![posp] = node]
     ELSE /\ prev' = [prev EXCEPT ![node] = posp]
          /\ next' = [next EXCEPT ![node] = next[posp], ![posp] = node]
  /\ m_count' = m_count + 1
  /\ UNCHANGED <<m_list, state>>

\* A new node after the last, before the first, or after one that has two neighbours.
add(node, e, posp) ==
  /\ alive' = alive \cup {node} /\ addr' = [addr EXCEPT ![node] = e]
  /\ IF next[posp] = Null
     THEN prev' = [prev EXCEPT ![node] = posp] /\ next' = [next EXCEPT ![posp] = node]
     ELSE IF prev[posp] = Null
     THEN next' = [next EXCEPT ![node] = posp] /\ prev' = [prev EXCEPT ![posp] = node]
     ELSE /\ prev' = [prev EXCEPT ![node] = posp, ![next[posp]] = node]
          /\ next' = [next EXCEPT ![node] = next[posp], ![posp] = node]
  /\ m_count' = m_count + 1
  /\ UNCHANGED <<m_list, state>>

\* Bound: as many nodes as there are addresses.
New == Min(Nodes \ alive)
HasRoom == alive # Nodes

insert(index, e) ==
  /\ HasRoom /\ index \in 1 .. m_count
  /\ add(New, e, Along(next, first, index - 1))

Add(e) == HasRoom /\ add(New, e, m_list)

\* Mutant of Unlink: counted by remove and by Delete.
UnlinkTwice(node) ==
  /\ alive' = alive \ {node} /\ addr' = [addr EXCEPT ![node] = Null]
  /\ next' = [n \in Nodes |-> IF n = node THEN Null ELSE IF n = prev[node] THEN next[node] ELSE next[n]]
  /\ prev' = [n \in Nodes |-> IF n = node THEN Null ELSE IF n = next[node] THEN prev[node] ELSE prev[n]]
  /\ m_count' = m_count - 2

\* Mutant of Unlink: the node is unlinked, and stays allocated.
UnlinkKept(node) ==
  /\ next' = [n \in Nodes |-> IF n = prev[node] THEN next[node] ELSE next[n]]
  /\ prev' = [n \in Nodes |-> IF n = next[node] THEN prev[node] ELSE prev[n]]
  /\ m_count' = m_count - 1 /\ UNCHANGED <<alive, addr>>

\* A node with a successor is unlinked and freed.
Unlink(node) ==
  /\ alive' = alive \ {node} /\ addr' = [addr EXCEPT ![node] = Null]
  /\ next' = [n \in Nodes |-> IF n = node THEN Null ELSE IF n = prev[node] THEN next[node] ELSE next[n]]
  /\ prev' = [n \in Nodes |-> IF n = node THEN Null ELSE IF n = next[node] THEN prev[node] ELSE prev[n]]
  /\ m_count' = m_count - 1

\* The successor is used without a test, and m_list is not moved.
remove(e) ==
  LET posp == find(e)
  IN IF posp = Null THEN UNCHANGED nodeVars
     ELSE IF next[posp] = Null
     THEN state' = "crashed" /\ UNCHANGED <<alive, addr, prev, next, m_list, m_count>>
     ELSE /\ Unlink(posp) /\ UNCHANGED m_list
          /\ state' = IF posp = m_list THEN "dangling" ELSE state

contains(e) == find(e) # Null
find_previous(e) ==
  LET posp == find(e) IN IF posp = Null \/ prev[posp] = Null THEN Null ELSE addr[prev[posp]]

\* num steps forwards, or as many as there are.
get(num) ==
  LET ends == {k \in 0 .. num : LET n == Along(next, m_list, k) IN n # Null /\ next[n] = Null}
  IN IF num < m_count THEN addr[Along(next, m_list, Min(ends \cup {num}))] ELSE Null

last == get(m_count - 1)

\* m_count nodes forwards; the node after the last is followed without a test.
indexOf(e) ==
  LET node == [k \in 0 .. m_count - 1 |-> Along(next, m_list, k)]
      hits == {k \in DOMAIN node : node[k] # Null /\ addr[node[k]] = e}
  IN IF hits # {} THEN Min(hits) ELSE IF node[m_count - 1] = Null THEN Undefined ELSE -1

NodesNext ==
  /\ state = "ok"
  /\ \E e \in Elems :
       \/ \E index \in 1 .. MaxSize : insert(index, e)
       \/ Add(e) \/ remove(e)

NodesSpec == NodesInit /\ [][NodesNext]_nodeVars

-----------------------------------------------------------------------------
(* Properties *)

Pointer == Nodes \cup {Null}

\* Types of the variables.
NodeTypes ==
  /\ alive \subseteq Nodes /\ addr \in [Nodes -> Elems \cup {Null}]
  /\ prev \in [Nodes -> Pointer] /\ next \in [Nodes -> Pointer]
  /\ m_list \in Nodes /\ m_count \in 1 .. MaxSize
  /\ state \in {"ok", "crashed", "dangling"}

\* The two pointers agree, and no node points to one that is freed: insert and add relink
\* up to four pointers, remove two (add, remove).
DoublyLinked ==
  \A p \in alive :
    /\ next[p] # Null => next[p] \in alive /\ prev[next[p]] = p
    /\ prev[p] # Null => prev[p] \in alive /\ next[prev[p]] = p

\* Every allocated node is reached from the first, and m_count is how many there are: no
\* node is leaked, and the searches, which m_count bounds, see the whole list.
AllReached ==
  state = "ok" =>
    LET start == first
    IN alive = {Along(next, start, k) : k \in 0 .. m_count - 1} /\ Cardinality(alive) = m_count

\* What insert, add and remove must leave behind for the next call.
WellFormed == NodeTypes /\ DoublyLinked /\ AllReached

\* The position of m_list, counted in steps back.
StepsBack == Min({k \in 0 .. MaxSize : Along(prev, m_list, k) = first})

\* The list read from its first node; there is no reading it once m_list dangles.
Contents ==
  LET start == first
  IN IF state = "dangling" THEN <<>> ELSE [i \in 1 .. m_count |-> addr[Along(next, start, i - 1)]]

Abstract == INSTANCE ListSpec WITH
  items <- Contents, at <- IF state = "dangling" THEN 0 ELSE StepsBack + 1

\* What the class promises its clients: every call changes the list as the sequence is
\* changed, until a call of remove that ends in undefined behaviour (insert, add, remove).
ImplementsList == Abstract!ListIsSequence

\* And every query returns what it does for the sequence, wherever m_list has come to be
\* in it, undefined results included (find, find_previous, first, last, get, indexOf, size).
AnswersForSequence ==
  state = "ok" =>
    /\ addr[first] = Abstract!FirstElem /\ last = Abstract!LastElem /\ m_count = Len(Contents)
    /\ \A e \in Elems : /\ contains(e) = Abstract!HasElem(e)
                        /\ find_previous(e) = Abstract!Previous(e)
                        /\ indexOf(e) = Abstract!IndexOf(e)
    /\ \A num \in 0 .. MaxSize : get(num) = Abstract!Get(num)

=============================================================================
