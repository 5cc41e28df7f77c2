--------------------------- MODULE LinkedContainers ---------------------------
(***************************************************************************)
(* queue.c, stack.c and simple_list.c of quic_probe, with the pointers of  *)
(* their containers in one heap: each of the three structures, an          *)
(* enumerator over the list, and the calls that the engine makes of them.  *)
(*                                                                         *)
(* A container that was freed holds nothing that may be read.  The caller  *)
(* keeps to what simple_list.c asks of it without a test: no position      *)
(* behind the end is inserted at or read, and the container at which an    *)
(* enumerator stands is not removed.                                       *)
(***************************************************************************)
EXTENDS Integers, Sequences

CONSTANTS
    Nodes,  \* the addresses of containers on the heap
    First,  \* the address of first_container, in struct simple_list
    Data, NULL

ASSUME LinkedContainersAssumption ==
    First \notin Nodes /\ NULL \notin Nodes \cup {First} \cup Data

VARIABLES
    node,       \* the containers of all three structures
    allocated,  \* those on the heap
    queue,      \* struct queue: start, end, length
    stack,      \* struct primitive_stack: next_node, elements_left
    size,       \* of struct simple_list
    enumerator, \* its next_container, or NULL without an enumerator
    alive,      \* the structures not destroyed yet
    freed,      \* data that destroy_stack and destroy_simple_list freed
    result,     \* what the last call returned
    queued,     \* history: the containers in the queue, the one put first first
    stacked,    \* history: those in the stack, the one put last first
    listed      \* history: those in the list

structVars == <<queue, stack, size, enumerator>>
historyVars == <<queued, stacked, listed>>
vars == <<node, allocated, structVars, alive, freed, result, historyVars>>

Container == [next : Nodes \cup {NULL}, previous : Nodes \cup {NULL}, data : Data \cup {NULL}]
Empty == [next |-> NULL, previous |-> NULL, data |-> NULL]

\* The result of malloc for a container.
Fresh == Nodes \ allocated

Alive(kind) == kind \in alive

\* init_queue, init_stack, init_simple_list
Init ==
    \E start, end \in Nodes :
        /\ start # end
        /\ node = [n \in Nodes \cup {First} |->
                      IF n = start THEN [Empty EXCEPT !.next = end]
                      ELSE IF n = end THEN [Empty EXCEPT !.previous = start]
                      ELSE Empty]
        /\ allocated = {start, end}
        /\ queue = [start |-> start, end |-> end, length |-> 0]
        /\ stack = [next_node |-> NULL, elements_left |-> 0]
        /\ size = 0 /\ enumerator = NULL
        /\ alive = {"queue", "stack", "list"} /\ freed = {} /\ result = NULL
        /\ queued = <<>> /\ stacked = <<>> /\ listed = <<>>
-----------------------------------------------------------------------------
(* queue.c *)

\* Mutation of Linked: the container behind the new one still points to start.
LinkedOneWay(n, d) ==
    LET next == node[queue.start].next
    IN  [node EXCEPT ![n] = [next |-> next, previous |-> queue.start, data |-> d],
                     ![queue.start].next = n]

\* The heap with a new container n behind start.
Linked(n, d) ==
    LET next == node[queue.start].next
    IN  [node EXCEPT ![n] = [next |-> next, previous |-> queue.start, data |-> d],
                     ![next].previous = n,
                     ![queue.start].next = n]

QueuePutData(n, d) ==
    /\ Alive("queue") /\ n \in Fresh
    /\ node' = Linked(n, d)
    /\ allocated' = allocated \cup {n}
    /\ queue' = [queue EXCEPT !.length = @ + 1]
    /\ queued' = Append(queued, n)
    /\ UNCHANGED <<stack, size, enumerator, alive, freed, result, stacked, listed>>

QueuePullEmpty ==
    /\ Alive("queue") /\ queue.length = 0
    /\ result' = NULL
    /\ UNCHANGED <<node, allocated, structVars, alive, freed, historyVars>>

QueuePullData ==
    /\ Alive("queue") /\ queue.length # 0
    /\ LET last == node[queue.end].previous
       IN  /\ node' = [node EXCEPT ![node[last].previous].next = queue.end,
                                   ![queue.end].previous = node[last].previous,
                                   ![last] = Empty]
           /\ allocated' = allocated \ {last}
           /\ result' = node[last].data
    /\ queue' = [queue EXCEPT !.length = @ - 1]
    /\ queued' = Tail(queued)
    /\ UNCHANGED <<stack, size, enumerator, alive, freed, stacked, listed>>
-----------------------------------------------------------------------------
(* stack.c *)

PutStackElement(n, d) ==
    /\ Alive("stack") /\ n \in Fresh
    /\ node' = [node EXCEPT ![n] = [Empty EXCEPT !.next = stack.next_node, !.data = d]]
    /\ allocated' = allocated \cup {n}
    /\ stack' = [next_node |-> n, elements_left |-> stack.elements_left + 1]
    /\ stacked' = <<n>> \o stacked
    /\ UNCHANGED <<queue, size, enumerator, alive, freed, result, queued, listed>>

PullStackEmpty ==
    /\ Alive("stack") /\ stack.elements_left = 0
    /\ result' = NULL
    /\ UNCHANGED <<node, allocated, structVars, alive, freed, historyVars>>

PullStackElement ==
    /\ Alive("stack") /\ stack.elements_left # 0
    /\ LET top == stack.next_node
       IN  /\ stack' = [next_node     |-> node[top].next,
                        elements_left |-> stack.elements_left - 1]
           /\ result' = node[top].data
           /\ node' = [node EXCEPT ![top] = Empty]
           /\ allocated' = allocated \ {top}
    /\ stacked' = Tail(stacked)
    /\ UNCHANGED <<queue, size, enumerator, alive, freed, queued, listed>>
-----------------------------------------------------------------------------
(* simple_list.c *)

\* The container that is reached from n after k links.
After(n, k) ==
    LET reached[j \in 0..k] == IF j = 0 THEN n ELSE node[reached[j - 1]].next
    IN  reached[k]

\* Mutation of GetContainer: the first container counts.
GetContainerCountsFirst(pos) == IF pos >= size THEN NULL ELSE After(First, IF pos < 0 THEN 0 ELSE pos)

\* get_container: the first container does not count, and is at position -1.
GetContainer(pos) == IF pos >= size THEN NULL ELSE After(First, pos + 1)

InsertListElement(n, pos, d) ==
    /\ Alive("list") /\ n \in Fresh
    /\ LET prev == GetContainer(pos - 1)
       IN  /\ prev # NULL
           /\ node' = [node EXCEPT ![n] = [Empty EXCEPT !.next = node[prev].next, !.data = d],
                                   ![prev].next = n]
    /\ allocated' = allocated \cup {n}
    /\ size' = size + 1
    /\ listed' = SubSeq(listed, 1, pos) \o <<n>> \o SubSeq(listed, pos + 1, Len(listed))
    /\ UNCHANGED <<queue, stack, enumerator, alive, freed, result, queued, stacked>>

\* The container at pos goes, which is behind prev, and its data is returned.
RemoveContainer(prev, pos) ==
    LET gone == node[prev].next
    IN  /\ gone # enumerator
        /\ node' = [node EXCEPT ![prev].next = node[gone].next, ![gone] = Empty]
        /\ allocated' = allocated \ {gone}
        /\ result' = node[gone].data
        /\ size' = size - 1
        /\ listed' = SubSeq(listed, 1, pos) \o SubSeq(listed, pos + 2, Len(listed))
        /\ UNCHANGED <<queue, stack, enumerator, alive, freed, queued, stacked>>

NothingRemoved ==
    /\ result' = NULL
    /\ UNCHANGED <<node, allocated, structVars, alive, freed, historyVars>>

RemoveListElement(pos) ==
    /\ Alive("list")
    /\ \/ pos >= size /\ NothingRemoved
       \/ pos < size /\ RemoveContainer(GetContainer(pos - 1), pos)

\* The search from first_container stops at the first container with this data.
RemoveListElementByData(d) ==
    /\ Alive("list")
    /\ LET found == {k \in 0..(size - 1) : node[After(First, k + 1)].data = d}
       IN  \/ found = {} /\ NothingRemoved
           \/ \E k \in found : (\A j \in found : k <= j) /\ RemoveContainer(After(First, k), k)

GetListElement(pos) ==
    /\ Alive("list") /\ GetContainer(pos) # NULL
    /\ result' = node[GetContainer(pos)].data
    /\ UNCHANGED <<node, allocated, structVars, alive, freed, historyVars>>

GetEnumerator ==
    /\ Alive("list") /\ enumerator = NULL
    /\ enumerator' = First
    /\ UNCHANGED <<node, allocated, queue, stack, size, alive, freed, result, historyVars>>

GetNextElement ==
    /\ enumerator # NULL
    /\ LET next == node[enumerator].next
       IN  /\ enumerator' = IF next = NULL THEN enumerator ELSE next
           /\ result' = IF next = NULL THEN NULL ELSE node[next].data
    /\ UNCHANGED <<node, allocated, queue, stack, size, alive, freed, historyVars>>

\* The caller frees the enumerator.
FreeEnumerator ==
    /\ enumerator # NULL /\ enumerator' = NULL
    /\ UNCHANGED <<node, allocated, queue, stack, size, alive, freed, result, historyVars>>
-----------------------------------------------------------------------------
(* The ends of the structures. *)

\* Containers that were freed.
Without(gone) == [n \in Nodes \cup {First} |-> IF n \in gone THEN Empty ELSE node[n]]

\* The containers that the pulls of destroy_queue free, from the end on.
Behind(k) ==
    LET reached[j \in 0..k] == IF j = 0 THEN queue.end ELSE node[reached[j - 1]].previous
    IN  reached[k]

DestroyQueue ==
    /\ Alive("queue") /\ enumerator = NULL
    /\ LET gone == {Behind(k) : k \in 0..queue.length} \cup {queue.start}
       IN  node' = Without(gone) /\ allocated' = allocated \ gone
    /\ alive' = alive \ {"queue"}
    /\ queue' = [queue EXCEPT !.length = 0] /\ queued' = <<>>
    /\ UNCHANGED <<stack, size, enumerator, freed, result, stacked, listed>>

DestroyStack ==
    /\ Alive("stack") /\ enumerator = NULL
    /\ LET gone == {After(stack.next_node, k) : k \in 0..(stack.elements_left - 1)}
       IN  /\ node' = Without(gone) /\ allocated' = allocated \ gone
           /\ freed' = freed \cup {node[n].data : n \in gone}
    /\ alive' = alive \ {"stack"}
    /\ stack' = [next_node |-> NULL, elements_left |-> 0] /\ stacked' = <<>>
    /\ UNCHANGED <<queue, size, enumerator, result, queued, listed>>

DestroySimpleList ==
    /\ Alive("list") /\ enumerator = NULL
    /\ LET gone == {After(First, k) : k \in 1..size}
       IN  /\ node' = Without(gone \cup {First}) /\ allocated' = allocated \ gone
           /\ freed' = freed \cup {node[n].data : n \in gone}
    /\ alive' = alive \ {"list"}
    /\ size' = 0 /\ listed' = <<>>
    /\ UNCHANGED <<queue, stack, enumerator, result, queued, stacked>>

Finished == alive = {} /\ UNCHANGED vars

Next ==
    \/ \E n \in Nodes, d \in Data :
          \/ QueuePutData(n, d) \/ PutStackElement(n, d)
          \/ \E pos \in 0..size : InsertListElement(n, pos, d)
    \/ QueuePullEmpty \/ QueuePullData \/ PullStackEmpty \/ PullStackElement
    \/ \E pos \in 0..size : RemoveListElement(pos) \/ GetListElement(pos)
    \/ \E d \in Data : RemoveListElementByData(d)
    \/ GetEnumerator \/ GetNextElement \/ FreeEnumerator
    \/ DestroyQueue \/ DestroyStack \/ DestroySimpleList
    \/ Finished

Spec == Init /\ [][Next]_vars
-----------------------------------------------------------------------------
(* Properties. *)

NoRepeats(s) == \A j, k \in DOMAIN s : s[j] = s[k] => j = k
NodesIn(s) == {s[k] : k \in DOMAIN s}

\* The links lead from n along s and then to last.
Leads(n, s, last) ==
    \A k \in 0..Len(s) :
        node[IF k = 0 THEN n ELSE s[k]].next = (IF k = Len(s) THEN last ELSE s[k + 1])

\* The containers on the heap are those that the three structures hold, each in one place
\* of one of them: none is lost, none is used after it was freed.  The links of the queue
\* are the same both ways, every chain ends, the counters count, and the enumerator is at
\* a container of the list.
HeapExact ==
    LET all == queued \o stacked \o listed
              \o (IF Alive("queue") THEN <<queue.start, queue.end>> ELSE <<>>)
    IN  /\ NoRepeats(all) /\ NodesIn(all) = allocated
        /\ queue.length = Len(queued) /\ stack.elements_left = Len(stacked)
        /\ size = Len(listed)
        /\ Alive("queue") => Leads(queue.start, [k \in DOMAIN queued |->
                                                    queued[Len(queued) + 1 - k]], queue.end)
        /\ Alive("queue") => \A n \in NodesIn(queued) \cup {queue.end} :
                                node[node[n].previous].next = n
        /\ stack.next_node = (IF stacked = <<>> THEN NULL ELSE stacked[1])
        /\ stacked # <<>> => Leads(stacked[1], Tail(stacked), NULL)
        /\ Leads(First, listed, NULL)
        /\ enumerator \in NodesIn(listed) \cup {First, NULL}

DataOf(s) == [k \in DOMAIN s |-> node[s[k]].data]

\* The position in the list at which the enumerator stands, 0 before the first.
Cursor ==
    IF enumerator = NULL THEN -1
    ELSE IF enumerator = First THEN 0
    ELSE CHOOSE k \in DOMAIN listed : listed[k] = enumerator

Abstract ==
    INSTANCE Containers WITH
        queue  <- DataOf(queued),
        stack  <- DataOf(stacked),
        list   <- DataOf(listed),
        cursor <- Cursor

\* The three structures behave as a first-in first-out queue, a last-in first-out stack and
\* a list that is enumerated in its order, whatever else is done to it between two elements.
ImplementsContainers == Abstract!Spec
=============================================================================
