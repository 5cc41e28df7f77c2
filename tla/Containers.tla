------------------------------ MODULE Containers ------------------------------
(***************************************************************************)
(* What quic_probe expects of its containers: the queue of requests (or of *)
(* free ports) is first in, first out; the stack of results is last in,    *)
(* first out; the lists of connections and streams keep their order while  *)
(* they change, also under an enumerator.                                  *)
(***************************************************************************)
EXTENDS Integers, Sequences

CONSTANTS
    Data,  \* what the containers hold
    NULL

VARIABLES
    queue,  \* oldest first
    stack,  \* newest first
    list,
    cursor, \* elements of list the enumerator has passed, or NoEnumerator
    alive,  \* the containers not destroyed yet
    freed,  \* data that a container freed when it was destroyed
    result  \* what the last call returned

vars == <<queue, stack, list, cursor, alive, freed, result>>

Kinds == {"queue", "stack", "list"}
NoEnumerator == -1

Elements(s) == {s[k] : k \in DOMAIN s}

Init ==
    /\ queue = <<>> /\ stack = <<>> /\ list = <<>>
    /\ cursor = NoEnumerator
    /\ alive = Kinds /\ freed = {} /\ result = NULL

Alive(kind) == kind \in alive

QueuePut(d) ==
    /\ Alive("queue")
    /\ queue' = Append(queue, d)
    /\ UNCHANGED <<stack, list, cursor, alive, freed, result>>

\* What a pull of s returns and leaves: an empty container gives NULL.
FirstOf(s) == IF s = <<>> THEN NULL ELSE Head(s)
RestOf(s) == IF s = <<>> THEN <<>> ELSE Tail(s)

QueuePull ==
    /\ Alive("queue")
    /\ result' = FirstOf(queue) /\ queue' = RestOf(queue)
    /\ UNCHANGED <<stack, list, cursor, alive, freed>>

StackPut(d) ==
    /\ Alive("stack")
    /\ stack' = <<d>> \o stack
    /\ UNCHANGED <<queue, list, cursor, alive, freed, result>>

StackPull ==
    /\ Alive("stack")
    /\ result' = FirstOf(stack) /\ stack' = RestOf(stack)
    /\ UNCHANGED <<queue, list, cursor, alive, freed>>

\* d comes behind the first pos elements.
Insert(pos, d) ==
    /\ Alive("list") /\ pos \in 0..Len(list)
    /\ list' = SubSeq(list, 1, pos) \o <<d>> \o SubSeq(list, pos + 1, Len(list))
    /\ cursor' = IF pos < cursor THEN cursor + 1 ELSE cursor
    /\ UNCHANGED <<queue, stack, alive, freed, result>>

\* The element at k goes, which is not the one that was enumerated last.
Remove(k) ==
    /\ k \in DOMAIN list /\ k # cursor
    /\ list' = SubSeq(list, 1, k - 1) \o SubSeq(list, k + 1, Len(list))
    /\ cursor' = IF k < cursor THEN cursor - 1 ELSE cursor
    /\ result' = list[k]

NotFound == result' = NULL /\ UNCHANGED <<list, cursor>>

RemoveAt(pos) ==
    /\ Alive("list") /\ pos \in Nat
    /\ \/ Remove(pos + 1)
       \/ pos >= Len(list) /\ NotFound
    /\ UNCHANGED <<queue, stack, alive, freed>>

\* The first element that is d goes.
RemoveData(d) ==
    /\ Alive("list")
    /\ \/ \E k \in DOMAIN list :
              /\ list[k] = d /\ \A j \in 1..(k - 1) : list[j] # d
              /\ Remove(k)
       \/ d \notin Elements(list) /\ NotFound
    /\ UNCHANGED <<queue, stack, alive, freed>>

Get(pos) ==
    /\ Alive("list") /\ pos + 1 \in DOMAIN list
    /\ result' = list[pos + 1]
    /\ UNCHANGED <<queue, stack, list, cursor, alive, freed>>

Enumerate ==
    /\ Alive("list") /\ cursor = NoEnumerator /\ cursor' = 0
    /\ UNCHANGED <<queue, stack, list, alive, freed, result>>

NextElement ==
    /\ cursor # NoEnumerator
    /\ \/ cursor = Len(list) /\ result' = NULL /\ UNCHANGED cursor
       \/ cursor < Len(list) /\ result' = list[cursor + 1] /\ cursor' = cursor + 1
    /\ UNCHANGED <<queue, stack, list, alive, freed>>

Enumerated ==
    /\ cursor # NoEnumerator /\ cursor' = NoEnumerator
    /\ UNCHANGED <<queue, stack, list, alive, freed, result>>

\* The stack and the list own what they hold, the queue does not.
Destroy(kind) ==
    /\ Alive(kind) /\ cursor = NoEnumerator
    /\ alive' = alive \ {kind}
    /\ queue' = IF kind = "queue" THEN <<>> ELSE queue
    /\ stack' = IF kind = "stack" THEN <<>> ELSE stack
    /\ list' = IF kind = "list" THEN <<>> ELSE list
    /\ freed' = freed \cup (CASE kind = "queue" -> {}
                              [] kind = "stack" -> Elements(stack)
                              [] kind = "list" -> Elements(list))
    /\ UNCHANGED <<cursor, result>>

Next ==
    \/ \E d \in Data : QueuePut(d) \/ StackPut(d) \/ RemoveData(d)
    \/ QueuePull \/ StackPull
    \/ \E pos \in 0..Len(list) :
          RemoveAt(pos) \/ Get(pos) \/ \E d \in Data : Insert(pos, d)
    \/ Enumerate \/ NextElement \/ Enumerated
    \/ \E kind \in Kinds : Destroy(kind)

Spec == Init /\ [][Next]_vars
=============================================================================
