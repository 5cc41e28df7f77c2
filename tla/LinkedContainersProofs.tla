------------------------ MODULE LinkedContainersProofs ------------------------
(***************************************************************************)
(* No order of calls of the queue, the stack, the list and its enumerator  *)
(* loses a container, uses one that was freed, or changes what another     *)
(* structure holds; and the three are what Containers promises.  For any   *)
(* number of containers on the heap.                                       *)
(***************************************************************************)
EXTENDS LinkedContainers, NaturalsInduction, WellFoundedInduction, SequenceTheorems, TLAPS

-----------------------------------------------------------------------------
(* The inductive invariant. *)

\* The containers of the queue from end to start, as queue_pull_data meets them.
QueueAt(k) ==
    IF k = 0 THEN queue.end ELSE IF k = Len(queued) + 1 THEN queue.start ELSE queued[k]

\* The containers of the stack from the top, and the NULL behind the last.
StackAt(k) == IF k = Len(stacked) + 1 THEN NULL ELSE stacked[k]

\* The containers of the list from first_container, and the NULL behind the last.
ListAt(k) == IF k = 0 THEN First ELSE IF k = Len(listed) + 1 THEN NULL ELSE listed[k]

\* What each structure has on the heap.
QueueNodes ==
    NodesIn(queued) \cup (IF Alive("queue") THEN {queue.start, queue.end} ELSE {})
StackNodes == NodesIn(stacked)
ListNodes == NodesIn(listed)

HeapType ==
    /\ node \in [Nodes \cup {First} -> Container]
    /\ allocated \subseteq Nodes
    /\ queue \in [start : Nodes, end : Nodes, length : Nat]
    /\ stack \in [next_node : Nodes \cup {NULL}, elements_left : Nat]
    /\ size \in Nat
    /\ enumerator \in Nodes \cup {First, NULL}
    /\ queued \in Seq(Nodes) /\ stacked \in Seq(Nodes) /\ listed \in Seq(Nodes)

\* The links of the queue are the same both ways.
QueueShape ==
    /\ queue.length = Len(queued) /\ NoRepeats(queued)
    /\ Alive("queue") =>
          /\ queue.start # queue.end
          /\ queue.start \notin NodesIn(queued) /\ queue.end \notin NodesIn(queued)
          /\ \A k \in 0..Len(queued) :
                node[QueueAt(k + 1)].next = QueueAt(k) /\ node[QueueAt(k)].previous = QueueAt(k + 1)

StackShape ==
    /\ stack.elements_left = Len(stacked) /\ NoRepeats(stacked)
    /\ stack.next_node = StackAt(1)
    /\ \A k \in 1..Len(stacked) : node[StackAt(k)].next = StackAt(k + 1)

ListShape ==
    /\ size = Len(listed) /\ NoRepeats(listed)
    /\ \A k \in 0..Len(listed) : node[ListAt(k)].next = ListAt(k + 1)
    /\ enumerator \in ListNodes \cup {First, NULL}

\* No container is in two structures, and the heap holds no other.
Separate ==
    /\ QueueNodes \cap StackNodes = {} /\ QueueNodes \cap ListNodes = {}
    /\ StackNodes \cap ListNodes = {}
    /\ allocated = QueueNodes \cup StackNodes \cup ListNodes

HeapInv == HeapType /\ QueueShape /\ StackShape /\ ListShape /\ Separate
-----------------------------------------------------------------------------
(* The walks along the links. *)

\* Numbers have a least one.
LEMMA LeastElement ==
    ASSUME NEW T \in SUBSET Nat, T # {}
    PROVE  \E x \in T : \A y \in T : x <= y
<1>1. \E x \in T : \A y \in T : ~ (<<y, x>> \in OpToRel(<, Nat))
  BY WFMin, NatLessThanWellFounded, Zenon
<1>2. \E x \in T : \A y \in T : ~(y < x)
  BY <1>1, Zenon DEF OpToRel
<1> QED
  BY <1>2

\* A property of the numbers up to n, as the set T of those that have it.
LEMMA UpTo ==
    ASSUME NEW n \in Nat, NEW T, 0 \in T, \A i \in 1..n : i - 1 \in T => i \in T
    PROVE  0..n \subseteq T
<1> SUFFICES ASSUME (0..n) \ T # {} PROVE FALSE
  OBVIOUS
<1>1. (0..n) \ T \in SUBSET Nat
  OBVIOUS
<1>2. PICK x \in (0..n) \ T : \A y \in (0..n) \ T : x <= y
  BY <1>1, LeastElement
<1>3. x \in 1..n /\ x - 1 \in 0..n /\ x - 1 \in T
  BY <1>2
<1> QED
  BY <1>2, <1>3

\* Links that follow a path lead where it leads.
LEMMA AfterIs ==
    ASSUME NEW n, NEW k \in Nat, NEW path, path[0] = n,
           \A j \in 1..k : path[j] = node[path[j - 1]].next
    PROVE  After(n, k) = path[k]
<1> DEFINE Reached(f) == f = [j \in 0..k |-> IF j = 0 THEN n ELSE node[f[j - 1]].next]
           reached == CHOOSE f : Reached(f)
           walk == [j \in 0..k |-> path[j]]
           T == {j \in 0..k : reached[j] = path[j]}
<1>1. walk = [j \in 0..k |-> IF j = 0 THEN n ELSE node[walk[j - 1]].next]
  OBVIOUS
<1>2. Reached(reached)
  <2>1. Reached(walk)
    BY <1>1
  <2> HIDE DEF Reached, walk
  <2> QED
    BY <2>1
<1> HIDE DEF reached
<1>3. \A j \in 0..k : reached[j] = IF j = 0 THEN n ELSE node[reached[j - 1]].next
  BY <1>2
<1>4. 0..k \subseteq T
  <2>1. 0 \in T
    BY <1>3
  <2>2. ASSUME NEW j \in 1..k, j - 1 \in T PROVE j \in T
    BY <1>3, <2>2
  <2> HIDE DEF T
  <2> QED
    BY <2>1, <2>2, UpTo
<1>5. After(n, k) = reached[k]
  BY DEF After, reached
<1> QED
  BY <1>4, <1>5

LEMMA BehindIs ==
    ASSUME NEW k \in Nat, NEW path, path[0] = queue.end,
           \A j \in 1..k : path[j] = node[path[j - 1]].previous
    PROVE  Behind(k) = path[k]
<1> DEFINE Reached(f) == f = [j \in 0..k |-> IF j = 0 THEN queue.end ELSE node[f[j - 1]].previous]
           reached == CHOOSE f : Reached(f)
           walk == [j \in 0..k |-> path[j]]
           T == {j \in 0..k : reached[j] = path[j]}
<1>1. walk = [j \in 0..k |-> IF j = 0 THEN queue.end ELSE node[walk[j - 1]].previous]
  OBVIOUS
<1>2. Reached(reached)
  <2>1. Reached(walk)
    BY <1>1
  <2> HIDE DEF Reached, walk
  <2> QED
    BY <2>1
<1> HIDE DEF reached
<1>3. \A j \in 0..k : reached[j] = IF j = 0 THEN queue.end ELSE node[reached[j - 1]].previous
  BY <1>2
<1>4. 0..k \subseteq T
  <2>1. 0 \in T
    BY <1>3
  <2>2. ASSUME NEW j \in 1..k, j - 1 \in T PROVE j \in T
    BY <1>3, <2>2
  <2> HIDE DEF T
  <2> QED
    BY <2>1, <2>2, UpTo
<1>5. Behind(k) = reached[k]
  BY DEF Behind, reached
<1> QED
  BY <1>4, <1>5

\* get_container, and the walks of the search and of the ends.
LEMMA Walks ==
    ASSUME HeapInv
    PROVE  /\ \A k \in 0..Len(listed) : After(First, k) = ListAt(k)
           /\ \A pos \in -1..Len(listed) :
                 GetContainer(pos) = IF pos < Len(listed) THEN ListAt(pos + 1) ELSE NULL
           /\ \A k \in 0..(Len(stacked) - 1) : After(stack.next_node, k) = StackAt(k + 1)
           /\ Alive("queue") => \A k \in 0..Len(queued) : Behind(k) = QueueAt(k)
<1>0. Len(listed) \in Nat /\ Len(stacked) \in Nat /\ Len(queued) \in Nat
  BY DEF HeapInv, HeapType
<1>1. ASSUME NEW k \in 0..Len(listed) PROVE After(First, k) = ListAt(k)
  <2> DEFINE path == [j \in 0..k |-> ListAt(j)]
  <2>1. path[0] = First
    BY <1>0 DEF ListAt
  <2>2. \A j \in 0..Len(listed) : node[ListAt(j)].next = ListAt(j + 1)
    BY DEF HeapInv, ListShape
  <2>3. ASSUME NEW j \in 1..k PROVE path[j] = node[path[j - 1]].next
    <3>1. j - 1 \in 0..Len(listed) /\ j - 1 + 1 = j
      BY <1>0
    <3>2. node[ListAt(j - 1)].next = ListAt(j)
      BY <2>2, <3>1
    <3> QED
      BY <3>2
  <2> HIDE DEF path
  <2>4. After(First, k) = path[k]
    BY <1>0, <2>1, <2>3, AfterIs
  <2> QED
    BY <1>0, <2>4 DEF path
<1>2. ASSUME NEW pos \in -1..Len(listed)
      PROVE  GetContainer(pos) = IF pos < Len(listed) THEN ListAt(pos + 1) ELSE NULL
  <2>1. size = Len(listed)
    BY DEF HeapInv, ListShape
  <2>2. CASE pos < Len(listed)
    <3>1. pos + 1 \in 0..Len(listed)
      BY <1>0, <2>2
    <3> QED
      BY <1>0, <1>1, <2>1, <2>2, <3>1 DEF GetContainer
  <2>3. CASE pos >= Len(listed)
    BY <1>0, <2>1, <2>3 DEF GetContainer
  <2> QED
    BY <1>0, <2>2, <2>3
<1>3. ASSUME NEW k \in 0..(Len(stacked) - 1) PROVE After(stack.next_node, k) = StackAt(k + 1)
  <2> DEFINE path == [j \in 0..k |-> StackAt(j + 1)]
  <2>1. path[0] = stack.next_node
    BY <1>0 DEF HeapInv, StackShape
  <2>2. \A j \in 1..Len(stacked) : node[StackAt(j)].next = StackAt(j + 1)
    BY DEF HeapInv, StackShape
  <2>3. ASSUME NEW j \in 1..k PROVE path[j] = node[path[j - 1]].next
    <3>1. j \in 1..Len(stacked) /\ j - 1 + 1 = j
      BY <1>0
    <3>2. node[StackAt(j)].next = StackAt(j + 1)
      BY <2>2, <3>1
    <3> QED
      BY <3>1, <3>2
  <2> HIDE DEF path
  <2>4. After(stack.next_node, k) = path[k]
    BY <1>0, <2>1, <2>3, AfterIs
  <2> QED
    BY <1>0, <2>4 DEF path
<1>4. ASSUME Alive("queue"), NEW k \in 0..Len(queued) PROVE Behind(k) = QueueAt(k)
  <2> DEFINE path == [j \in 0..k |-> QueueAt(j)]
  <2>1. path[0] = queue.end
    BY <1>0 DEF QueueAt
  <2>2. \A j \in 0..Len(queued) : node[QueueAt(j)].previous = QueueAt(j + 1)
    BY <1>4 DEF HeapInv, QueueShape
  <2>3. ASSUME NEW j \in 1..k PROVE path[j] = node[path[j - 1]].previous
    <3>1. j - 1 \in 0..Len(queued) /\ j - 1 + 1 = j
      BY <1>0
    <3>2. node[QueueAt(j - 1)].previous = QueueAt(j)
      BY <2>2, <3>1
    <3> QED
      BY <3>2
  <2> HIDE DEF path
  <2>4. Behind(k) = path[k]
    BY <1>0, <2>1, <2>3, BehindIs
  <2> QED
    BY <1>0, <2>4 DEF path
<1> QED
  BY <1>1, <1>2, <1>3, <1>4
-----------------------------------------------------------------------------
(* Sequences of containers and of what they hold. *)

\* What the containers of s hold in the heap h.
Held(h, s) == [k \in DOMAIN s |-> h[s[k]].data]

Inserted(s, pos, n) == SubSeq(s, 1, pos) \o <<n>> \o SubSeq(s, pos + 1, Len(s))
Removed(s, k) == SubSeq(s, 1, k - 1) \o SubSeq(s, k + 1, Len(s))

LEMMA InsertedIs ==
    ASSUME NEW S, NEW s \in Seq(S), NEW pos \in 0..Len(s), NEW n \in S
    PROVE  /\ Inserted(s, pos, n) \in Seq(S) /\ Len(Inserted(s, pos, n)) = Len(s) + 1
           /\ \A k \in 1..(Len(s) + 1) : Inserted(s, pos, n)[k]
                = IF k <= pos THEN s[k] ELSE IF k = pos + 1 THEN n ELSE s[k - 1]
<1> DEFINE a == SubSeq(s, 1, pos)
           b == SubSeq(s, pos + 1, Len(s))
<1>0. Len(s) \in Nat /\ pos \in Nat
  OBVIOUS
<1>1. a \in Seq(S) /\ Len(a) = pos /\ \A k \in 1..pos : a[k] = s[k]
  <2>1. 1 \in Int /\ pos \in Int /\ \A i \in 1..pos : s[i] \in S
    BY <1>0
  <2>2. /\ a \in Seq(S) /\ Len(a) = (IF 1 <= pos THEN pos - 1 + 1 ELSE 0)
        /\ \A i \in 1..(pos - 1 + 1) : a[i] = s[1 + i - 1]
    BY <2>1, SubSeqProperties
  <2> HIDE DEF a
  <2> QED
    BY <1>0, <2>2
<1>2. b \in Seq(S) /\ Len(b) = Len(s) - pos /\ \A k \in 1..(Len(s) - pos) : b[k] = s[pos + k]
  <2>1. pos + 1 \in Int /\ Len(s) \in Int /\ \A i \in (pos + 1)..Len(s) : s[i] \in S
    BY <1>0
  <2>2. /\ b \in Seq(S)
        /\ Len(b) = (IF pos + 1 <= Len(s) THEN Len(s) - (pos + 1) + 1 ELSE 0)
        /\ \A i \in 1..(Len(s) - (pos + 1) + 1) : b[i] = s[pos + 1 + i - 1]
    BY <2>1, SubSeqProperties
  <2> HIDE DEF b
  <2> QED
    BY <1>0, <2>2
<1>3. <<n>> \in Seq(S) /\ Len(<<n>>) = 1 /\ <<n>>[1] = n
  OBVIOUS
<1> HIDE DEF a, b
<1>4. /\ a \o <<n>> \in Seq(S) /\ Len(a \o <<n>>) = pos + 1
      /\ \A k \in 1..(pos + 1) : (a \o <<n>>)[k] = IF k <= pos THEN s[k] ELSE n
  <2>1. /\ a \o <<n>> \in Seq(S) /\ Len(a \o <<n>>) = Len(a) + Len(<<n>>)
        /\ \A i \in 1..(Len(a) + Len(<<n>>)) :
              (a \o <<n>>)[i] = IF i <= Len(a) THEN a[i] ELSE <<n>>[i - Len(a)]
    BY <1>1, <1>3, ConcatProperties
  <2> QED
    BY <1>0, <1>1, <1>3, <2>1
<1>5. /\ (a \o <<n>>) \o b \in Seq(S) /\ Len((a \o <<n>>) \o b) = Len(s) + 1
      /\ \A k \in 1..(Len(s) + 1) : ((a \o <<n>>) \o b)[k]
            = IF k <= pos THEN s[k] ELSE IF k = pos + 1 THEN n ELSE s[k - 1]
  <2> DEFINE c == a \o <<n>>
  <2>0. /\ c \in Seq(S) /\ Len(c) = pos + 1
        /\ \A k \in 1..(pos + 1) : c[k] = IF k <= pos THEN s[k] ELSE n
    BY <1>4
  <2> HIDE DEF c
  <2>1. /\ c \o b \in Seq(S) /\ Len(c \o b) = Len(c) + Len(b)
        /\ \A i \in 1..(Len(c) + Len(b)) : (c \o b)[i] = IF i <= Len(c) THEN c[i] ELSE b[i - Len(c)]
    BY <1>2, <2>0, ConcatProperties
  <2>2. /\ Len(c \o b) = Len(s) + 1
        /\ \A k \in 1..(Len(s) + 1) : (c \o b)[k]
              = IF k <= pos THEN s[k] ELSE IF k = pos + 1 THEN n ELSE s[k - 1]
    <3>1. Len(c) + Len(b) = Len(s) + 1 /\ Len(c) = pos + 1
      BY <1>0, <1>2, <2>0
    <3>2. Len(c \o b) = Len(s) + 1
      BY <2>1, <3>1
    <3>3. ASSUME NEW k \in 1..(Len(s) + 1)
          PROVE  (c \o b)[k] = IF k <= pos THEN s[k] ELSE IF k = pos + 1 THEN n ELSE s[k - 1]
      <4>1. (c \o b)[k] = IF k <= pos + 1 THEN c[k] ELSE b[k - (pos + 1)]
        BY <2>1, <3>1
      <4>2. CASE k <= pos + 1
        <5>1. k \in 1..(pos + 1)
          BY <1>0, <4>2
        <5>2. c[k] = IF k <= pos THEN s[k] ELSE n
          BY <2>0, <5>1
        <5> QED
          BY <1>0, <4>1, <4>2, <5>2
      <4>3. CASE k > pos + 1
        <5>1. k - (pos + 1) \in 1..(Len(s) - pos) /\ pos + (k - (pos + 1)) = k - 1
          BY <1>0, <4>3
        <5>2. b[k - (pos + 1)] = s[k - 1]
          BY <1>2, <5>1
        <5> QED
          BY <1>0, <4>1, <4>3, <5>2
      <4>4. k <= pos + 1 \/ k > pos + 1
        BY <1>0
      <4> QED
        BY <4>2, <4>3, <4>4, Zenon
    <3> QED
      BY <3>2, <3>3
  <2> QED
    BY <2>1, <2>2 DEF c
<1> QED
  BY <1>5 DEF Inserted, a, b

LEMMA RemovedIs ==
    ASSUME NEW S, NEW s \in Seq(S), NEW k \in 1..Len(s)
    PROVE  /\ Removed(s, k) \in Seq(S) /\ Len(Removed(s, k)) = Len(s) - 1
           /\ \A j \in 1..(Len(s) - 1) : Removed(s, k)[j] = IF j < k THEN s[j] ELSE s[j + 1]
<1> DEFINE a == SubSeq(s, 1, k - 1)
           b == SubSeq(s, k + 1, Len(s))
<1>0. Len(s) \in Nat /\ k \in Nat
  OBVIOUS
<1>1. a \in Seq(S) /\ Len(a) = k - 1 /\ \A j \in 1..(k - 1) : a[j] = s[j]
  <2>1. 1 \in Int /\ k - 1 \in Int /\ \A i \in 1..(k - 1) : s[i] \in S
    BY <1>0
  <2>2. /\ a \in Seq(S) /\ Len(a) = (IF 1 <= k - 1 THEN k - 1 - 1 + 1 ELSE 0)
        /\ \A i \in 1..(k - 1 - 1 + 1) : a[i] = s[1 + i - 1]
    BY <2>1, SubSeqProperties
  <2> HIDE DEF a
  <2> QED
    BY <1>0, <2>2
<1>2. b \in Seq(S) /\ Len(b) = Len(s) - k /\ \A j \in 1..(Len(s) - k) : b[j] = s[k + j]
  <2>1. k + 1 \in Int /\ Len(s) \in Int /\ \A i \in (k + 1)..Len(s) : s[i] \in S
    BY <1>0
  <2>2. /\ b \in Seq(S)
        /\ Len(b) = (IF k + 1 <= Len(s) THEN Len(s) - (k + 1) + 1 ELSE 0)
        /\ \A i \in 1..(Len(s) - (k + 1) + 1) : b[i] = s[k + 1 + i - 1]
    BY <2>1, SubSeqProperties
  <2> HIDE DEF b
  <2> QED
    BY <1>0, <2>2
<1> HIDE DEF a, b
<1>3. /\ a \o b \in Seq(S) /\ Len(a \o b) = Len(a) + Len(b)
      /\ \A i \in 1..(Len(a) + Len(b)) : (a \o b)[i] = IF i <= Len(a) THEN a[i] ELSE b[i - Len(a)]
  BY <1>1, <1>2, ConcatProperties
<1>4. /\ Len(a \o b) = Len(s) - 1
      /\ \A j \in 1..(Len(s) - 1) : (a \o b)[j] = IF j < k THEN s[j] ELSE s[j + 1]
  BY <1>0, <1>1, <1>2, <1>3
<1> QED
  BY <1>3, <1>4 DEF Removed, a, b

\* The elements of a sequence in which one comes or goes.
LEMMA InsertedNodes ==
    ASSUME NEW S, NEW s \in Seq(S), NEW pos \in 0..Len(s), NEW n \in S,
           NoRepeats(s), n \notin NodesIn(s)
    PROVE  /\ NoRepeats(Inserted(s, pos, n))
           /\ NodesIn(Inserted(s, pos, n)) = NodesIn(s) \cup {n}
<1> DEFINE t == Inserted(s, pos, n)
           At(k) == IF k <= pos THEN s[k] ELSE IF k = pos + 1 THEN n ELSE s[k - 1]
<1>0. Len(s) \in Nat /\ pos \in Nat /\ DOMAIN s = 1..Len(s)
  OBVIOUS
<1>1. t \in Seq(S) /\ Len(t) = Len(s) + 1 /\ \A k \in 1..(Len(s) + 1) : t[k] = At(k)
  BY InsertedIs
<1> HIDE DEF t
<1>2. DOMAIN t = 1..(Len(s) + 1)
  BY <1>1
<1>3. \A k \in 1..Len(s) : s[k] # n
  BY <1>0 DEF NodesIn
<1>4. \A j, k \in 1..Len(s) : s[j] = s[k] => j = k
  BY <1>0 DEF NoRepeats
<1>5. \A j, k \in 1..(Len(s) + 1) : At(j) = At(k) => j = k
  BY <1>0, <1>3, <1>4
<1>6. NoRepeats(t)
  BY <1>1, <1>2, <1>5 DEF NoRepeats
<1>7. \A k \in 1..(Len(s) + 1) : At(k) \in NodesIn(s) \cup {n}
  BY <1>0 DEF NodesIn
<1>8. \A k \in 1..Len(s) : \E j \in 1..(Len(s) + 1) : At(j) = s[k]
  <2> TAKE k \in 1..Len(s)
  <2>1. CASE k <= pos
    BY <1>0, <2>1
  <2>2. CASE k > pos
    <3>1. k + 1 \in 1..(Len(s) + 1) /\ At(k + 1) = s[k]
      BY <1>0, <2>2
    <3> QED
      BY <3>1
  <2> QED
    BY <1>0, <2>1, <2>2
<1>9. pos + 1 \in 1..(Len(s) + 1) /\ At(pos + 1) = n
  BY <1>0
<1> HIDE DEF At
<1>10. NodesIn(t) = NodesIn(s) \cup {n}
  <2>1. NodesIn(t) = {t[k] : k \in 1..(Len(s) + 1)} /\ NodesIn(s) = {s[k] : k \in 1..Len(s)}
    BY <1>0, <1>2 DEF NodesIn
  <2>2. \A x \in NodesIn(t) : x \in NodesIn(s) \cup {n}
    BY <1>1, <1>7, <2>1
  <2>3. \A x \in NodesIn(s) : x \in NodesIn(t)
    BY <1>1, <1>8, <2>1
  <2>4. n \in NodesIn(t)
    BY <1>1, <1>9, <2>1
  <2> QED
    BY <2>2, <2>3, <2>4
<1> QED
  BY <1>6, <1>10 DEF t

LEMMA RemovedNodes ==
    ASSUME NEW S, NEW s \in Seq(S), NEW k \in 1..Len(s), NoRepeats(s)
    PROVE  NoRepeats(Removed(s, k)) /\ NodesIn(Removed(s, k)) = NodesIn(s) \ {s[k]}
<1> DEFINE t == Removed(s, k)
           At(j) == IF j < k THEN s[j] ELSE s[j + 1]
<1>0. Len(s) \in Nat /\ k \in Nat /\ DOMAIN s = 1..Len(s)
  OBVIOUS
<1>1. t \in Seq(S) /\ Len(t) = Len(s) - 1 /\ \A j \in 1..(Len(s) - 1) : t[j] = At(j)
  BY RemovedIs
<1> HIDE DEF t
<1>2. DOMAIN t = 1..(Len(s) - 1)
  BY <1>1
<1>4. \A i, j \in 1..Len(s) : s[i] = s[j] => i = j
  BY <1>0 DEF NoRepeats
<1>5. \A i, j \in 1..(Len(s) - 1) : At(i) = At(j) => i = j
  BY <1>0, <1>4
<1>6. NoRepeats(t)
  BY <1>1, <1>2, <1>5 DEF NoRepeats
<1>7. \A j \in 1..(Len(s) - 1) : At(j) \in NodesIn(s) \ {s[k]}
  BY <1>0, <1>4 DEF NodesIn
<1>8. \A i \in 1..Len(s) : i # k => \E j \in 1..(Len(s) - 1) : At(j) = s[i]
  <2> SUFFICES ASSUME NEW i \in 1..Len(s), i # k PROVE \E j \in 1..(Len(s) - 1) : At(j) = s[i]
    OBVIOUS
  <2>1. CASE i < k
    BY <1>0, <2>1
  <2>2. CASE i > k
    <3>1. i - 1 \in 1..(Len(s) - 1) /\ At(i - 1) = s[i]
      BY <1>0, <2>2
    <3> QED
      BY <3>1
  <2> QED
    BY <1>0, <2>1, <2>2
<1> HIDE DEF At
<1>9. NodesIn(t) = NodesIn(s) \ {s[k]}
  <2>1. NodesIn(t) = {t[j] : j \in 1..(Len(s) - 1)} /\ NodesIn(s) = {s[j] : j \in 1..Len(s)}
    BY <1>0, <1>2 DEF NodesIn
  <2>2. \A x \in NodesIn(t) : x \in NodesIn(s) \ {s[k]}
    BY <1>1, <1>7, <2>1
  <2>3. \A x \in NodesIn(s) \ {s[k]} : x \in NodesIn(t)
    BY <1>1, <1>8, <2>1
  <2> QED
    BY <2>2, <2>3
<1> QED
  BY <1>6, <1>9 DEF t

\* What a sequence of containers holds is a sequence.
LEMMA HeldIs ==
    ASSUME NEW h \in [Nodes \cup {First} -> Container], NEW s \in Seq(Nodes)
    PROVE  /\ Held(h, s) \in Seq(Data \cup {NULL}) /\ Len(Held(h, s)) = Len(s)
           /\ \A k \in 1..Len(s) : Held(h, s)[k] = h[s[k]].data
<1>1. DOMAIN s = 1..Len(s) /\ Len(s) \in Nat /\ \A k \in 1..Len(s) : s[k] \in Nodes
  OBVIOUS
<1>2. \A k \in 1..Len(s) : h[s[k]].data \in Data \cup {NULL}
  BY <1>1 DEF Container
<1>3. Held(h, s) \in [1..Len(s) -> Data \cup {NULL}]
  BY <1>1, <1>2 DEF Held
<1>4. Held(h, s) \in Seq(Data \cup {NULL})
  BY <1>1, <1>3
<1>5. Len(Held(h, s)) = Len(s)
  BY <1>1, <1>3, <1>4
<1> QED
  BY <1>1, <1>4, <1>5 DEF Held

LEMMA HeldSame ==
    ASSUME NEW h, NEW g, NEW s, \A k \in DOMAIN s : g[s[k]].data = h[s[k]].data
    PROVE  Held(g, s) = Held(h, s)
BY DEF Held

LEMMA HeldInserted ==
    ASSUME NEW h \in [Nodes \cup {First} -> Container], NEW g \in [Nodes \cup {First} -> Container],
           NEW s \in Seq(Nodes), NEW pos \in 0..Len(s), NEW n \in Nodes, 
           \A k \in 1..Len(s) : g[s[k]].data = h[s[k]].data
    PROVE  Held(g, Inserted(s, pos, n)) = Inserted(Held(h, s), pos, g[n].data)
<1> DEFINE D == Data \cup {NULL}
           t == Inserted(s, pos, n)
           old == Held(h, s)
           new == Inserted(old, pos, g[n].data)
<1>0. g[n].data \in D
  BY DEF Container
<1>1. old \in Seq(D) /\ Len(old) = Len(s) /\ \A k \in 1..Len(s) : old[k] = h[s[k]].data
  BY HeldIs
<1>2. /\ t \in Seq(Nodes) /\ Len(t) = Len(s) + 1
      /\ \A k \in 1..(Len(s) + 1) :
            t[k] = IF k <= pos THEN s[k] ELSE IF k = pos + 1 THEN n ELSE s[k - 1]
  BY InsertedIs
<1> HIDE DEF t, old
<1>3. Held(g, t) \in Seq(D) /\ Len(Held(g, t)) = Len(t) /\ \A k \in 1..Len(t) : Held(g, t)[k] = g[t[k]].data
  BY <1>2, HeldIs
<1>4. /\ new \in Seq(D) /\ Len(new) = Len(old) + 1
      /\ \A k \in 1..(Len(old) + 1) : new[k]
            = IF k <= pos THEN old[k] ELSE IF k = pos + 1 THEN g[n].data ELSE old[k - 1]
  <2> HIDE DEF D
  <2>1. pos \in 0..Len(old) /\ old \in Seq(D)
    BY <1>1
  <2>2. \A d \in D :
           /\ Inserted(old, pos, d) \in Seq(D) /\ Len(Inserted(old, pos, d)) = Len(old) + 1
           /\ \A k \in 1..(Len(old) + 1) : Inserted(old, pos, d)[k]
                = IF k <= pos THEN old[k] ELSE IF k = pos + 1 THEN d ELSE old[k - 1]
    BY <2>1, InsertedIs
  <2> QED
    BY <1>0, <2>2, Zenon
<1> HIDE DEF new, D
<1>5. ASSUME NEW k \in 1..(Len(s) + 1) PROVE Held(g, t)[k] = new[k]
  <2>0. Len(s) \in Nat /\ pos \in Nat
    OBVIOUS
  <2>1. Held(g, t)[k] = g[t[k]].data
    BY <1>2, <1>3
  <2>2. CASE k <= pos
    <3>1. k \in 1..Len(s) /\ t[k] = s[k] /\ new[k] = old[k]
      BY <1>1, <1>2, <1>4, <2>0, <2>2
    <3> QED
      BY <1>1, <2>1, <3>1
  <2>3. CASE k = pos + 1
    <3>1. t[k] = n /\ new[k] = g[n].data
      BY <1>1, <1>2, <1>4, <2>0, <2>3
    <3> QED
      BY <2>1, <3>1
  <2>4. CASE k > pos + 1
    <3>1. k - 1 \in 1..Len(s) /\ t[k] = s[k - 1] /\ new[k] = old[k - 1]
      BY <1>1, <1>2, <1>4, <2>0, <2>4
    <3> QED
      BY <1>1, <2>1, <3>1
  <2>5. k <= pos \/ k = pos + 1 \/ k > pos + 1
    BY <2>0
  <2> QED
    BY <2>2, <2>3, <2>4, <2>5, Zenon
<1>6. Len(Held(g, t)) = Len(new) /\ \A k \in 1..Len(Held(g, t)) : Held(g, t)[k] = new[k]
  BY <1>1, <1>2, <1>3, <1>4, <1>5
<1>7. Held(g, t) = new
  BY <1>3, <1>4, <1>6, SeqEqual
<1> QED
  BY <1>7 DEF t, new, old

LEMMA HeldRemoved ==
    ASSUME NEW h \in [Nodes \cup {First} -> Container], NEW g \in [Nodes \cup {First} -> Container],
           NEW s \in Seq(Nodes), NEW k \in 1..Len(s),
           \A j \in 1..Len(s) : j # k => g[s[j]].data = h[s[j]].data
    PROVE  Held(g, Removed(s, k)) = Removed(Held(h, s), k)
<1> DEFINE D == Data \cup {NULL}
           t == Removed(s, k)
           old == Held(h, s)
           new == Removed(old, k)
<1>1. old \in Seq(D) /\ Len(old) = Len(s) /\ \A j \in 1..Len(s) : old[j] = h[s[j]].data
  BY HeldIs
<1>2. /\ t \in Seq(Nodes) /\ Len(t) = Len(s) - 1
      /\ \A j \in 1..(Len(s) - 1) : t[j] = IF j < k THEN s[j] ELSE s[j + 1]
  BY RemovedIs
<1> HIDE DEF t, old
<1>3. Held(g, t) \in Seq(D) /\ Len(Held(g, t)) = Len(t) /\ \A j \in 1..Len(t) : Held(g, t)[j] = g[t[j]].data
  BY <1>2, HeldIs
<1>4. /\ new \in Seq(D) /\ Len(new) = Len(old) - 1
      /\ \A j \in 1..(Len(old) - 1) : new[j] = IF j < k THEN old[j] ELSE old[j + 1]
  <2> HIDE DEF D
  <2>1. k \in 1..Len(old)
    BY <1>1
  <2> QED
    BY <1>1, <2>1, RemovedIs
<1> HIDE DEF new, D
<1>5. ASSUME NEW j \in 1..(Len(s) - 1) PROVE Held(g, t)[j] = new[j]
  <2>0. Len(s) \in Nat /\ k \in Nat
    OBVIOUS
  <2>1. Held(g, t)[j] = g[t[j]].data
    BY <1>2, <1>3
  <2>2. CASE j < k
    <3>1. j \in 1..Len(s) /\ j # k /\ t[j] = s[j] /\ new[j] = old[j]
      BY <1>1, <1>2, <1>4, <2>0, <2>2
    <3> QED
      BY <1>1, <2>1, <3>1
  <2>3. CASE j >= k
    <3>1. j + 1 \in 1..Len(s) /\ j + 1 # k /\ t[j] = s[j + 1] /\ new[j] = old[j + 1]
      BY <1>1, <1>2, <1>4, <2>0, <2>3
    <3> QED
      BY <1>1, <2>1, <3>1
  <2>4. j < k \/ j >= k
    BY <2>0
  <2> QED
    BY <2>2, <2>3, <2>4, Zenon
<1>6. Len(Held(g, t)) = Len(new) /\ \A j \in 1..Len(Held(g, t)) : Held(g, t)[j] = new[j]
  BY <1>1, <1>2, <1>3, <1>4, <1>5
<1>7. Held(g, t) = new
  BY <1>3, <1>4, <1>6, SeqEqual
<1> QED
  BY <1>7 DEF t, new, old

\* The ends of a sequence are the other places of insertion and removal.
LEMMA EndsOfSequence ==
    ASSUME NEW S, NEW s \in Seq(S)
    PROVE  /\ \A n \in S : Append(s, n) = Inserted(s, Len(s), n) /\ <<n>> \o s = Inserted(s, 0, n)
           /\ s # <<>> => Tail(s) = Removed(s, 1) /\ Head(s) = s[1]
           /\ s = <<>> <=> Len(s) = 0
<1>0. Len(s) \in Nat
  OBVIOUS
<1>1. ASSUME NEW n \in S PROVE Append(s, n) = Inserted(s, Len(s), n)
  <2>0. Len(s) \in 0..Len(s)
    BY <1>0
  <2>1. /\ Inserted(s, Len(s), n) \in Seq(S) /\ Len(Inserted(s, Len(s), n)) = Len(s) + 1
        /\ \A k \in 1..(Len(s) + 1) : Inserted(s, Len(s), n)[k]
              = IF k <= Len(s) THEN s[k] ELSE IF k = Len(s) + 1 THEN n ELSE s[k - 1]
    <3>1. \A q \in 0..Len(s) :
             /\ Inserted(s, q, n) \in Seq(S) /\ Len(Inserted(s, q, n)) = Len(s) + 1
             /\ \A k \in 1..(Len(s) + 1) : Inserted(s, q, n)[k]
                  = IF k <= q THEN s[k] ELSE IF k = q + 1 THEN n ELSE s[k - 1]
      BY InsertedIs
    <3> QED
      BY <2>0, <3>1, Zenon
  <2>2. /\ Append(s, n) \in Seq(S) /\ Len(Append(s, n)) = Len(s) + 1
        /\ \A k \in 1..Len(s) : Append(s, n)[k] = s[k]
        /\ Append(s, n)[Len(s) + 1] = n
    BY AppendProperties
  <2> DEFINE a == Append(s, n)
             b == Inserted(s, Len(s), n)
  <2> HIDE DEF a, b
  <2>3. \A k \in 1..Len(a) : a[k] = b[k]
    BY <1>0, <2>1, <2>2 DEF a, b
  <2>4. a = b
    BY <2>1, <2>2, <2>3, SeqEqual DEF a, b
  <2> QED
    BY <2>4 DEF a, b
<1>2. ASSUME NEW n \in S PROVE <<n>> \o s = Inserted(s, 0, n)
  <2>0. 0 \in 0..Len(s) /\ <<n>> \in Seq(S) /\ Len(<<n>>) = 1 /\ <<n>>[1] = n
    BY <1>0
  <2>1. /\ Inserted(s, 0, n) \in Seq(S) /\ Len(Inserted(s, 0, n)) = Len(s) + 1
        /\ \A k \in 1..(Len(s) + 1) : Inserted(s, 0, n)[k]
              = IF k <= 0 THEN s[k] ELSE IF k = 0 + 1 THEN n ELSE s[k - 1]
    BY <2>0, InsertedIs
  <2>2. /\ <<n>> \o s \in Seq(S) /\ Len(<<n>> \o s) = Len(<<n>>) + Len(s)
        /\ \A k \in 1..(Len(<<n>>) + Len(s)) :
              (<<n>> \o s)[k] = IF k <= Len(<<n>>) THEN <<n>>[k] ELSE s[k - Len(<<n>>)]
    BY <2>0, ConcatProperties
  <2> DEFINE a == <<n>> \o s
             b == Inserted(s, 0, n)
  <2> HIDE DEF a, b
  <2>3. Len(a) = Len(b) /\ \A k \in 1..Len(a) : a[k] = b[k]
    BY <1>0, <2>0, <2>1, <2>2 DEF a, b
  <2>4. a = b
    BY <2>1, <2>2, <2>3, SeqEqual DEF a, b
  <2> QED
    BY <2>4 DEF a, b
<1>3. ASSUME s # <<>> PROVE Tail(s) = Removed(s, 1) /\ Head(s) = s[1]
  <2>0. 1 \in 1..Len(s)
    BY <1>3
  <2>1. /\ Removed(s, 1) \in Seq(S) /\ Len(Removed(s, 1)) = Len(s) - 1
        /\ \A j \in 1..(Len(s) - 1) : Removed(s, 1)[j] = IF j < 1 THEN s[j] ELSE s[j + 1]
    BY <2>0, RemovedIs
  <2>2. /\ Tail(s) \in Seq(S) /\ Len(Tail(s)) = Len(s) - 1
        /\ \A i \in 1..Len(Tail(s)) : Tail(s)[i] = s[i + 1]
    BY <1>3, HeadTailProperties
  <2> DEFINE a == Tail(s)
             b == Removed(s, 1)
  <2> HIDE DEF a, b
  <2>3. Len(a) = Len(b) /\ \A k \in 1..Len(a) : a[k] = b[k]
    BY <1>0, <2>1, <2>2 DEF a, b
  <2>4. a = b
    BY <2>1, <2>2, <2>3, SeqEqual DEF a, b
  <2> QED
    BY <1>3, <2>4 DEF a, b
<1>4. s = <<>> <=> Len(s) = 0
  BY EmptySeq
<1> QED
  BY <1>1, <1>2, <1>3, <1>4
-----------------------------------------------------------------------------
(* The structures that a step leaves alone. *)

LEMMA DataIsHeld ==
    /\ DataOf(queued) = Held(node, queued) /\ DataOf(queued)' = Held(node', queued')
    /\ DataOf(stacked) = Held(node, stacked) /\ DataOf(stacked)' = Held(node', stacked')
    /\ DataOf(listed) = Held(node, listed) /\ DataOf(listed)' = Held(node', listed')
BY DEF DataOf, Held

\* The places of the queue are different containers, and all that the queue has.
LEMMA QueuePlaces ==
    ASSUME HeapInv, Alive("queue")
    PROVE  /\ \A k \in 0..(Len(queued) + 1) : QueueAt(k) \in QueueNodes /\ QueueAt(k) \in Nodes
           /\ \A j, k \in 0..(Len(queued) + 1) : QueueAt(j) = QueueAt(k) => j = k
           /\ \A n \in QueueNodes : \E k \in 0..(Len(queued) + 1) : QueueAt(k) = n
           /\ \A k \in 1..Len(queued) : QueueAt(k) = queued[k]
           /\ QueueAt(0) = queue.end /\ QueueAt(Len(queued) + 1) = queue.start
<1>0. /\ Len(queued) \in Nat /\ DOMAIN queued = 1..Len(queued)
      /\ \A k \in 1..Len(queued) : queued[k] \in Nodes
      /\ queue.start \in Nodes /\ queue.end \in Nodes
  BY DEF HeapInv, HeapType
<1>1. /\ queue.start # queue.end
      /\ queue.start \notin NodesIn(queued) /\ queue.end \notin NodesIn(queued)
      /\ \A j, k \in 1..Len(queued) : queued[j] = queued[k] => j = k
  BY <1>0 DEF HeapInv, QueueShape, NoRepeats
<1>2. /\ NodesIn(queued) = {queued[k] : k \in 1..Len(queued)}
      /\ QueueNodes = NodesIn(queued) \cup {queue.start, queue.end}
  BY <1>0 DEF NodesIn, QueueNodes
<1>3. \A k \in 1..Len(queued) : QueueAt(k) = queued[k]
  BY <1>0 DEF QueueAt
<1>4. QueueAt(0) = queue.end /\ QueueAt(Len(queued) + 1) = queue.start
  BY <1>0 DEF QueueAt
<1>5. \A k \in 0..(Len(queued) + 1) : k = 0 \/ k = Len(queued) + 1 \/ k \in 1..Len(queued)
  BY <1>0
<1>6. \A k \in 0..(Len(queued) + 1) : QueueAt(k) \in QueueNodes /\ QueueAt(k) \in Nodes
  BY <1>0, <1>2, <1>3, <1>4, <1>5
<1>7. \A j, k \in 0..(Len(queued) + 1) : QueueAt(j) = QueueAt(k) => j = k
  BY <1>1, <1>2, <1>3, <1>4, <1>5
<1>8. \A n \in QueueNodes : \E k \in 0..(Len(queued) + 1) : QueueAt(k) = n
  <2>1. 0 \in 0..(Len(queued) + 1) /\ Len(queued) + 1 \in 0..(Len(queued) + 1)
        /\ 1..Len(queued) \subseteq 0..(Len(queued) + 1)
    BY <1>0
  <2> QED
    BY <1>2, <1>3, <1>4, <2>1
<1> QED
  BY <1>3, <1>4, <1>6, <1>7, <1>8

LEMMA QueueKept ==
    ASSUME HeapInv, UNCHANGED <<queue, queued>>, Alive("queue")' <=> Alive("queue"),
           \A n \in QueueNodes : node'[n] = node[n]
    PROVE  QueueShape' /\ QueueNodes' = QueueNodes /\ DataOf(queued)' = DataOf(queued)
<1>0. Len(queued) \in Nat /\ NodesIn(queued) \subseteq QueueNodes /\ DOMAIN queued = 1..Len(queued)
  BY DEF HeapInv, HeapType, QueueNodes
<1>1. QueueNodes' = QueueNodes
  BY DEF QueueNodes, NodesIn
<1>2. DataOf(queued)' = DataOf(queued)
  <2>1. \A k \in DOMAIN queued : node'[queued[k]].data = node[queued[k]].data
    BY <1>0 DEF NodesIn
  <2> QED
    BY <2>1, DataIsHeld, HeldSame
<1>3. QueueShape'
  <2>1. queue'.length = Len(queued') /\ NoRepeats(queued)'
    BY DEF HeapInv, QueueShape, NoRepeats
  <2>2. ASSUME Alive("queue")
        PROVE  /\ queue.start # queue.end
               /\ queue.start \notin NodesIn(queued) /\ queue.end \notin NodesIn(queued)
               /\ \A k \in 0..Len(queued) : /\ node'[QueueAt(k + 1)].next = QueueAt(k)
                                            /\ node'[QueueAt(k)].previous = QueueAt(k + 1)
    <3>1. /\ queue.start # queue.end
          /\ queue.start \notin NodesIn(queued) /\ queue.end \notin NodesIn(queued)
          /\ \A k \in 0..Len(queued) :
                node[QueueAt(k + 1)].next = QueueAt(k) /\ node[QueueAt(k)].previous = QueueAt(k + 1)
      BY <2>2 DEF HeapInv, QueueShape
    <3>2. \A k \in 0..Len(queued) : k \in 0..(Len(queued) + 1) /\ k + 1 \in 0..(Len(queued) + 1)
      BY <1>0
    <3>3. \A k \in 0..(Len(queued) + 1) : node'[QueueAt(k)] = node[QueueAt(k)]
      BY <2>2, QueuePlaces
    <3> QED
      BY <3>1, <3>2, <3>3
  <2>3. \A k : QueueAt(k)' = QueueAt(k)
    BY DEF QueueAt
  <2>4. NodesIn(queued)' = NodesIn(queued)
    BY DEF NodesIn
  <2> QED
    BY <2>1, <2>2, <2>3, <2>4 DEF QueueShape
<1> QED
  BY <1>1, <1>2, <1>3

LEMMA StackKept ==
    ASSUME HeapInv, UNCHANGED <<stack, stacked>>, \A n \in StackNodes : node'[n] = node[n]
    PROVE  StackShape' /\ StackNodes' = StackNodes /\ DataOf(stacked)' = DataOf(stacked)
<1>0. Len(stacked) \in Nat /\ DOMAIN stacked = 1..Len(stacked)
  BY DEF HeapInv, HeapType
<1>1. StackNodes' = StackNodes
  BY DEF StackNodes, NodesIn
<1>2. \A k \in DOMAIN stacked : node'[stacked[k]] = node[stacked[k]]
  BY DEF StackNodes, NodesIn
<1>3. DataOf(stacked)' = DataOf(stacked)
  BY <1>2, DataIsHeld, HeldSame
<1>4. \A k : StackAt(k)' = StackAt(k)
  BY DEF StackAt
<1>5. \A k \in 1..Len(stacked) : node'[StackAt(k)].next = StackAt(k + 1)
  <2>1. \A k \in 1..Len(stacked) : StackAt(k) = stacked[k]
    BY <1>0 DEF StackAt
  <2> QED
    BY <1>0, <1>2, <2>1 DEF HeapInv, StackShape
<1>6. StackShape'
  BY <1>4, <1>5 DEF StackShape, HeapInv, NoRepeats
<1> QED
  BY <1>1, <1>3, <1>6

\* Where the enumerator stands may change.
LEMMA ListKept ==
    ASSUME HeapInv, UNCHANGED <<size, listed>>, enumerator' \in ListNodes \cup {First, NULL},
           \A n \in ListNodes \cup {First} : node'[n] = node[n]
    PROVE  /\ ListShape' /\ ListNodes' = ListNodes /\ DataOf(listed)' = DataOf(listed)
           /\ enumerator' = enumerator => Cursor' = Cursor
<1>0. Len(listed) \in Nat /\ DOMAIN listed = 1..Len(listed)
  BY DEF HeapInv, HeapType
<1>1. ListNodes' = ListNodes
  BY DEF ListNodes, NodesIn
<1>2. \A k \in DOMAIN listed : node'[listed[k]] = node[listed[k]]
  BY DEF ListNodes, NodesIn
<1>3. DataOf(listed)' = DataOf(listed)
  BY <1>2, DataIsHeld, HeldSame
<1>4. \A k : ListAt(k)' = ListAt(k)
  BY DEF ListAt
<1>5. \A k \in 0..Len(listed) : node'[ListAt(k)].next = ListAt(k + 1)
  <2>1. \A k \in 0..Len(listed) : ListAt(k) = IF k = 0 THEN First ELSE listed[k]
    BY <1>0 DEF ListAt
  <2>2. \A k \in 0..Len(listed) : k = 0 \/ k \in DOMAIN listed
    BY <1>0
  <2>3. \A k \in 0..Len(listed) : node'[ListAt(k)] = node[ListAt(k)]
    BY <1>2, <2>1, <2>2
  <2> QED
    BY <2>3 DEF HeapInv, ListShape
<1>6. ListShape'
  BY <1>1, <1>4, <1>5 DEF ListShape, HeapInv, NoRepeats
<1>7. enumerator' = enumerator => Cursor' = Cursor
  BY DEF Cursor
<1> QED
  BY <1>1, <1>3, <1>6, <1>7

\* The places of the list and the enumerator's place among them.
LEMMA ListPlaces ==
    ASSUME HeapInv
    PROVE  /\ \A k \in 1..Len(listed) : ListAt(k) = listed[k] /\ ListAt(k) \in ListNodes
           /\ ListAt(0) = First /\ ListAt(Len(listed) + 1) = NULL
           /\ \A j, k \in 0..(Len(listed) + 1) : ListAt(j) = ListAt(k) => j = k
           /\ ListNodes \subseteq Nodes
           /\ Cursor \in -1..Len(listed)
           /\ enumerator = NULL <=> Cursor = -1
           /\ Cursor # -1 => enumerator = ListAt(Cursor)
<1>0. /\ Len(listed) \in Nat /\ DOMAIN listed = 1..Len(listed)
      /\ \A k \in 1..Len(listed) : listed[k] \in Nodes
  BY DEF HeapInv, HeapType
<1>1. \A j, k \in 1..Len(listed) : listed[j] = listed[k] => j = k
  BY <1>0 DEF HeapInv, ListShape, NoRepeats
<1>2. ListNodes = {listed[k] : k \in 1..Len(listed)}
  BY <1>0 DEF NodesIn, ListNodes
<1>3. \A k \in 1..Len(listed) : ListAt(k) = listed[k] /\ ListAt(k) \in ListNodes
  BY <1>0, <1>2 DEF ListAt
<1>4. ListAt(0) = First /\ ListAt(Len(listed) + 1) = NULL
  BY <1>0 DEF ListAt
<1>5. First \notin Nodes /\ NULL \notin Nodes /\ NULL # First
  BY LinkedContainersAssumption
<1>6. \A j, k \in 0..(Len(listed) + 1) : ListAt(j) = ListAt(k) => j = k
  <2>1. \A k \in 0..(Len(listed) + 1) : k = 0 \/ k = Len(listed) + 1 \/ k \in 1..Len(listed)
    BY <1>0
  <2> QED
    BY <1>0, <1>1, <1>3, <1>4, <1>5, <2>1
<1>7. ListNodes \subseteq Nodes
  BY <1>0, <1>2
<1>8. enumerator \in ListNodes \cup {First, NULL}
  BY DEF HeapInv, ListShape
<1>9. /\ enumerator = NULL => Cursor = -1
      /\ Cursor \in -1..Len(listed)
      /\ Cursor = -1 => enumerator = NULL
      /\ Cursor # -1 => enumerator = ListAt(Cursor)
  <2>1. enumerator = NULL => Cursor = -1
    BY DEF Cursor
  <2>2. CASE enumerator = NULL
    BY <1>0, <2>1, <2>2
  <2>3. CASE enumerator = First
    <3>1. Cursor = 0
      BY <1>5, <2>3 DEF Cursor
    <3> QED
      BY <1>0, <1>4, <1>5, <2>3, <3>1
  <2>4. CASE enumerator \in ListNodes
    <3>1. enumerator # NULL /\ enumerator # First
      BY <1>5, <1>7, <2>4
    <3>2. \E k \in DOMAIN listed : listed[k] = enumerator
      BY <1>0, <1>2, <2>4
    <3>3. Cursor = CHOOSE k \in DOMAIN listed : listed[k] = enumerator
      BY <3>1 DEF Cursor
    <3>4. Cursor \in 1..Len(listed) /\ listed[Cursor] = enumerator
      BY <1>0, <3>2, <3>3
    <3> QED
      BY <1>0, <1>3, <3>1, <3>4
  <2> QED
    BY <1>8, <2>2, <2>3, <2>4
<1> QED
  BY <1>3, <1>4, <1>6, <1>7, <1>9
-----------------------------------------------------------------------------
(* The queue. *)

\* What an assignment to a field of a container changes.
LEMMA Fields ==
    ASSUME NEW x \in Container
    PROVE  /\ \A m \in Nodes \cup {NULL} :
                 /\ [x EXCEPT !.next = m] \in Container
                 /\ [x EXCEPT !.next = m].next = m
                 /\ [x EXCEPT !.next = m].previous = x.previous
                 /\ [x EXCEPT !.next = m].data = x.data
                 /\ [x EXCEPT !.previous = m] \in Container
                 /\ [x EXCEPT !.previous = m].previous = m
                 /\ [x EXCEPT !.previous = m].next = x.next
                 /\ [x EXCEPT !.previous = m].data = x.data
           /\ x.next \in Nodes \cup {NULL} /\ x.previous \in Nodes \cup {NULL}
           /\ x.data \in Data \cup {NULL}
BY DEF Container

LEMMA EmptyIs == Empty \in Container /\ Empty.next = NULL /\ Empty.previous = NULL /\ Empty.data = NULL
BY DEF Empty, Container

\* malloc returns a container that no structure has.
LEMMA FreshIs ==
    ASSUME HeapInv, NEW n \in Fresh
    PROVE  /\ n \in Nodes /\ n # First /\ n \notin QueueNodes
           /\ n \notin StackNodes /\ n \notin ListNodes
BY LinkedContainersAssumption DEF Fresh, HeapInv, Separate

LEMMA PutInQueue ==
    ASSUME HeapInv, NEW n \in Nodes, NEW d \in Data, QueuePutData(n, d)
    PROVE  HeapInv' /\ Abstract!QueuePut(d)
<1>a. PICK L : L = Len(queued)
  OBVIOUS
<1>0. /\ L = Len(queued) /\ L \in Nat /\ Alive("queue") /\ n \in Fresh
      /\ queued \in Seq(Nodes) /\ queue.start \in Nodes /\ queue.end \in Nodes
      /\ node \in [Nodes \cup {First} -> Container] /\ allocated \subseteq Nodes
      /\ queue \in [start : Nodes, end : Nodes, length : Nat]
  BY <1>a DEF HeapInv, HeapType, QueuePutData
<1>1. /\ \A k \in 0..(L + 1) : QueueAt(k) \in QueueNodes /\ QueueAt(k) \in Nodes
      /\ \A j, k \in 0..(L + 1) : QueueAt(j) = QueueAt(k) => j = k
      /\ QueueAt(0) = queue.end /\ QueueAt(L + 1) = queue.start
  BY <1>0, QueuePlaces
<1>2. /\ \A k \in 0..L : node[QueueAt(k + 1)].next = QueueAt(k) /\ node[QueueAt(k)].previous = QueueAt(k + 1)
      /\ queue.length = L /\ NoRepeats(queued)
      /\ queue.start # queue.end
      /\ queue.start \notin NodesIn(queued) /\ queue.end \notin NodesIn(queued)
  BY <1>0 DEF HeapInv, QueueShape
<1>3. n \in Nodes /\ n # First /\ n \notin QueueNodes /\ n \notin StackNodes /\ n \notin ListNodes
  BY <1>0, FreshIs
<1>4. PICK next : next = node[queue.start].next
  OBVIOUS
<1>5. next = QueueAt(L) /\ next \in QueueNodes /\ next \in Nodes /\ next # queue.start
  <2>1. L \in 0..L /\ L \in 0..(L + 1) /\ L + 1 \in 0..(L + 1) /\ L # L + 1
    BY <1>0
  <2> QED
    BY <1>1, <1>2, <1>4, <2>1
<1>6. queue.start \in QueueNodes /\ queue.start # First /\ next # First
  BY <1>0, <1>5, LinkedContainersAssumption DEF QueueNodes
<1>7. node' = [node EXCEPT ![n] = [next |-> next, previous |-> queue.start, data |-> d],
                           ![next].previous = n,
                           ![queue.start].next = n]
  BY <1>4 DEF QueuePutData, Linked
<1>8. [next |-> next, previous |-> queue.start, data |-> d] \in Container
  BY <1>0, <1>5 DEF Container
<1>9. /\ node' \in [Nodes \cup {First} -> Container]
      /\ node'[n].next = next /\ node'[n].previous = queue.start /\ node'[n].data = d
      /\ node'[next].next = node[next].next /\ node'[next].previous = n
      /\ node'[next].data = node[next].data
      /\ node'[queue.start].next = n /\ node'[queue.start].previous = node[queue.start].previous
      /\ node'[queue.start].data = node[queue.start].data
      /\ \A m \in Nodes \cup {First} : m \notin {n, next, queue.start} => node'[m] = node[m]
  <2>1. node[next] \in Container /\ node[queue.start] \in Container
    BY <1>0, <1>5
  <2>2. n # next /\ n # queue.start
    BY <1>3, <1>5, <1>6
  <2>3. /\ node'[n] = [next |-> next, previous |-> queue.start, data |-> d]
        /\ node'[next] = [node[next] EXCEPT !.previous = n]
        /\ node'[queue.start] = [node[queue.start] EXCEPT !.next = n]
        /\ \A m \in Nodes \cup {First} : m \notin {n, next, queue.start} => node'[m] = node[m]
        /\ DOMAIN node' = Nodes \cup {First} /\ node' = [m \in Nodes \cup {First} |-> node'[m]]
    BY <1>0, <1>3, <1>5, <1>7, <2>2
  <2>4. [node[next] EXCEPT !.previous = n] \in Container /\ [node[queue.start] EXCEPT !.next = n] \in Container
    BY <1>3, <2>1, Fields
  <2>5. \A m \in Nodes \cup {First} : node'[m] \in Container
    BY <1>0, <1>8, <2>3, <2>4
  <2>6. node' \in [Nodes \cup {First} -> Container]
    BY <2>3, <2>5
  <2>7. /\ node'[next].next = node[next].next /\ node'[next].previous = n
        /\ node'[next].data = node[next].data
        /\ node'[queue.start].next = n /\ node'[queue.start].previous = node[queue.start].previous
        /\ node'[queue.start].data = node[queue.start].data
    BY <1>3, <2>1, <2>3, Fields
  <2> QED
    BY <2>3, <2>6, <2>7
<1>10. queued' = Inserted(queued, L, n) /\ queued' = Append(queued, n)
  BY <1>0, <1>3, EndsOfSequence DEF QueuePutData
<1>11. /\ queued' \in Seq(Nodes) /\ Len(queued') = L + 1 
       /\ \A k \in 1..L : queued'[k] = queued[k]
       /\ queued'[L + 1] = n
  BY <1>0, <1>3, <1>10, AppendProperties
<1>12. NoRepeats(queued') /\ NodesIn(queued') = NodesIn(queued) \cup {n}
  <2>1. n \notin NodesIn(queued) /\ L \in 0..L
    BY <1>0, <1>3 DEF QueueNodes
  <2>2. L \in 0..Len(queued) /\ queued \in Seq(Nodes) /\ NoRepeats(queued)
    BY <1>0, <1>2
  <2>3. /\ NoRepeats(Inserted(queued, L, n))
        /\ NodesIn(Inserted(queued, L, n)) = NodesIn(queued) \cup {n}
    BY <1>3, <2>1, <2>2, InsertedNodes
  <2> QED
    BY <1>10, <2>3
<1>13. /\ UNCHANGED <<stack, size, enumerator, alive, freed, result, stacked, listed>>
       /\ allocated' = allocated \cup {n}
       /\ queue'.start = queue.start /\ queue'.end = queue.end /\ queue'.length = L + 1
       /\ queue' \in [start : Nodes, end : Nodes, length : Nat]
  <2>1. queue' = [queue EXCEPT !.length = @ + 1]
    BY DEF QueuePutData
  <2>2. /\ queue'.start = queue.start /\ queue'.end = queue.end /\ queue'.length = L + 1
        /\ queue' \in [start : Nodes, end : Nodes, length : Nat]
    BY <1>0, <1>2, <2>1
  <2> QED
    BY <2>2 DEF QueuePutData
<1>14. Alive("queue")' <=> Alive("queue")
  BY <1>13 DEF Alive
<1>15. QueueNodes' = QueueNodes \cup {n}
  BY <1>0, <1>12, <1>13, <1>14 DEF QueueNodes, NodesIn
<1>16. /\ \A k \in 0..L : QueueAt(k)' = QueueAt(k)
       /\ QueueAt(L + 1)' = n /\ QueueAt(L + 2)' = queue.start
  BY <1>0, <1>11, <1>13 DEF QueueAt
<1>17. ASSUME NEW k \in 0..(L + 1)
       PROVE  node'[QueueAt(k + 1)'].next = QueueAt(k)' /\ node'[QueueAt(k)'].previous = QueueAt(k + 1)'
  <2>1. CASE k < L
    <3>1. k \in 0..L /\ k + 1 \in 0..L /\ k # L /\ k + 1 # L + 1 /\ k \in 0..(L + 1) /\ k + 1 \in 0..(L + 1)
          /\ k # L + 1 /\ L \in 0..(L + 1) /\ L + 1 \in 0..(L + 1)
      BY <1>0, <2>1
    <3>2. QueueAt(k)' = QueueAt(k) /\ QueueAt(k + 1)' = QueueAt(k + 1)
      BY <1>16, <3>1
    <3>3. QueueAt(k) # next /\ QueueAt(k) # queue.start /\ QueueAt(k) # n
          /\ QueueAt(k + 1) # queue.start /\ QueueAt(k + 1) # n
      BY <1>1, <1>3, <1>5, <3>1
    <3>4. node'[QueueAt(k)] = node[QueueAt(k)]
      BY <1>1, <1>9, <3>1, <3>3
    <3>5. node'[QueueAt(k + 1)].next = node[QueueAt(k + 1)].next
      BY <1>1, <1>9, <3>1, <3>3
    <3> QED
      BY <1>2, <3>1, <3>2, <3>4, <3>5
  <2>2. CASE k = L
    <3>1. QueueAt(k)' = next /\ QueueAt(k + 1)' = n
      BY <1>0, <1>5, <1>16, <2>2
    <3> QED
      BY <1>9, <3>1
  <2>3. CASE k = L + 1
    <3>1. QueueAt(k)' = n /\ QueueAt(k + 1)' = queue.start
      BY <1>0, <1>16, <2>3
    <3> QED
      BY <1>9, <3>1
  <2>4. k < L \/ k = L \/ k = L + 1
    BY <1>0
  <2> QED
    BY <2>1, <2>2, <2>3, <2>4, Zenon
<1>18. QueueShape'
  <2>1. queue'.length = Len(queued') /\ NoRepeats(queued)'
    BY <1>11, <1>12, <1>13 DEF NoRepeats
  <2>2. queue'.start # queue'.end /\ queue'.start \notin NodesIn(queued') /\ queue'.end \notin NodesIn(queued')
    BY <1>0, <1>2, <1>3, <1>12, <1>13 DEF QueueNodes
  <2>3. 0..Len(queued') = 0..(L + 1)
    BY <1>11
  <2> QED
    BY <1>17, <2>1, <2>2, <2>3 DEF QueueShape, NodesIn
<1>19. \A m \in Nodes \cup {First} : m \notin QueueNodes /\ m # n => node'[m] = node[m]
  BY <1>5, <1>6, <1>9
<1>20. StackShape' /\ StackNodes' = StackNodes /\ DataOf(stacked)' = DataOf(stacked)
  <2>1. \A m \in StackNodes : m \in Nodes /\ m \notin QueueNodes /\ m # n
    BY <1>0, <1>3 DEF HeapInv, Separate
  <2>2. \A m \in StackNodes : node'[m] = node[m]
    BY <1>19, <2>1
  <2> QED
    BY <1>13, <2>2, StackKept
<1>21. /\ ListShape' /\ ListNodes' = ListNodes /\ DataOf(listed)' = DataOf(listed)
       /\ Cursor' = Cursor
  <2>1. \A m \in ListNodes \cup {First} : m \in Nodes \cup {First} /\ m \notin QueueNodes /\ m # n
    <3>1. ListNodes \subseteq Nodes /\ QueueNodes \subseteq Nodes /\ ListNodes \cap QueueNodes = {}
      BY <1>0 DEF HeapInv, Separate
    <3> QED
      BY <1>3, <3>1, LinkedContainersAssumption
  <2>2. \A m \in ListNodes \cup {First} : node'[m] = node[m]
    BY <1>19, <2>1
  <2>3. enumerator' \in ListNodes \cup {First, NULL}
    BY <1>13 DEF HeapInv, ListShape
  <2> QED
    BY <1>13, <2>2, <2>3, ListKept
<1>22. Separate'
  BY <1>3, <1>13, <1>15, <1>20, <1>21 DEF HeapInv, Separate
<1>23. HeapType'
  BY <1>0, <1>3, <1>9, <1>11, <1>13 DEF HeapInv, HeapType
<1>24. DataOf(queued)' = Append(DataOf(queued), d)
  <2>1. \A k \in 1..L : node'[queued[k]].data = node[queued[k]].data
    <3>1. \A k \in 1..L : queued[k] \in Nodes
      BY <1>0
    <3>2. \A m \in Nodes : m # n => node'[m].data = node[m].data
      BY <1>9
    <3>3. \A k \in 1..L : queued[k] # n
      BY <1>0, <1>3 DEF QueueNodes, NodesIn
    <3> QED
      BY <3>1, <3>2, <3>3
  <2>2. /\ node \in [Nodes \cup {First} -> Container] /\ node' \in [Nodes \cup {First} -> Container]
        /\ queued \in Seq(Nodes) /\ L \in 0..Len(queued)
        /\ \A k \in 1..Len(queued) : node'[queued[k]].data = node[queued[k]].data
    BY <1>0, <1>9, <2>1
  <2>3. Held(node', Inserted(queued, L, n)) = Inserted(Held(node, queued), L, node'[n].data)
    <3>1. PICK h, g, s : h = node /\ g = node' /\ s = queued
      OBVIOUS
    <3>2. /\ h \in [Nodes \cup {First} -> Container] /\ g \in [Nodes \cup {First} -> Container]
          /\ s \in Seq(Nodes) /\ L \in 0..Len(s)
          /\ \A k \in 1..Len(s) : g[s[k]].data = h[s[k]].data
      BY <2>2, <3>1
    <3>3. Held(g, Inserted(s, L, n)) = Inserted(Held(h, s), L, g[n].data)
      BY <3>2, HeldInserted
    <3> QED
      BY <3>1, <3>3
  <2>4. /\ Held(node, queued) \in Seq(Data \cup {NULL}) /\ Len(Held(node, queued)) = L
    BY <1>0, HeldIs
  <2>5. Inserted(Held(node, queued), L, d) = Append(Held(node, queued), d)
    <3>1. \A x \in Data \cup {NULL} :
             Append(Held(node, queued), x) = Inserted(Held(node, queued), Len(Held(node, queued)), x)
      BY <2>4, EndsOfSequence
    <3>2. d \in Data \cup {NULL}
      OBVIOUS
    <3> QED
      BY <2>4, <3>1, <3>2
  <2> QED
    BY <1>9, <1>10, <2>3, <2>5, DataIsHeld
<1>25. Abstract!QueuePut(d)
  <2>1. Abstract!Alive("queue")
    BY <1>0 DEF Abstract!Alive, Alive
  <2> QED
    BY <1>13, <1>20, <1>21, <1>24, <2>1 DEF Abstract!QueuePut
<1> QED
  BY <1>18, <1>20, <1>21, <1>22, <1>23, <1>25 DEF HeapInv

\* A step of the queue that changes only containers of the queue.
LEMMA QueueAlone ==
    ASSUME HeapInv, UNCHANGED <<stack, size, enumerator, stacked, listed>>,
           \A m \in Nodes \cup {First} : m \notin QueueNodes => node'[m] = node[m]
    PROVE  /\ StackShape' /\ StackNodes' = StackNodes /\ DataOf(stacked)' = DataOf(stacked)
           /\ ListShape' /\ ListNodes' = ListNodes /\ DataOf(listed)' = DataOf(listed)
           /\ Cursor' = Cursor
<1>1. /\ QueueNodes \subseteq Nodes /\ StackNodes \subseteq Nodes /\ ListNodes \subseteq Nodes
      /\ QueueNodes \cap StackNodes = {} /\ QueueNodes \cap ListNodes = {}
  BY DEF HeapInv, HeapType, Separate
<1>2. \A m \in StackNodes : node'[m] = node[m]
  BY <1>1
<1>3. \A m \in ListNodes \cup {First} : node'[m] = node[m]
  BY <1>1, LinkedContainersAssumption
<1>4. enumerator' \in ListNodes \cup {First, NULL}
  BY DEF HeapInv, ListShape
<1> QED
  BY <1>2, <1>3, <1>4, StackKept, ListKept

LEMMA PulledFromQueue ==
    ASSUME HeapInv, QueuePullData
    PROVE  HeapInv' /\ Abstract!QueuePull
<1>a. PICK L : L = Len(queued)
  OBVIOUS
<1>0. /\ L = Len(queued) /\ L \in Nat /\ Alive("queue") /\ queue.length # 0
      /\ queued \in Seq(Nodes) /\ queue.start \in Nodes /\ queue.end \in Nodes
      /\ node \in [Nodes \cup {First} -> Container] /\ allocated \subseteq Nodes
      /\ queue \in [start : Nodes, end : Nodes, length : Nat]
  BY <1>a DEF HeapInv, HeapType, QueuePullData
<1>1. /\ \A k \in 0..(L + 1) : QueueAt(k) \in QueueNodes /\ QueueAt(k) \in Nodes
      /\ \A j, k \in 0..(L + 1) : QueueAt(j) = QueueAt(k) => j = k
      /\ QueueAt(0) = queue.end /\ QueueAt(L + 1) = queue.start
      /\ \A k \in 1..L : QueueAt(k) = queued[k]
  BY <1>0, QueuePlaces
<1>2. /\ \A k \in 0..L : node[QueueAt(k + 1)].next = QueueAt(k) /\ node[QueueAt(k)].previous = QueueAt(k + 1)
      /\ queue.length = L /\ NoRepeats(queued)
      /\ queue.start # queue.end
      /\ queue.start \notin NodesIn(queued) /\ queue.end \notin NodesIn(queued)
  BY <1>0 DEF HeapInv, QueueShape
<1>3. L >= 1 /\ queued # <<>>
  BY <1>0, <1>2, EmptySeq
<1>4. PICK last, before : last = node[queue.end].previous /\ before = node[last].previous
  OBVIOUS
<1>5. /\ last = QueueAt(1) /\ last = queued[1] /\ before = QueueAt(2)
      /\ last \in Nodes /\ before \in Nodes /\ last \in QueueNodes /\ before \in QueueNodes
      /\ last # queue.end /\ before # queue.end /\ before # last /\ last # queue.start
  <2>1. 0 \in 0..L /\ 1 \in 0..L /\ 0 + 1 = 1 /\ 1 + 1 = 2 /\ 1 \in 1..L
        /\ 0 \in 0..(L + 1) /\ 1 \in 0..(L + 1) /\ 2 \in 0..(L + 1) /\ L + 1 \in 0..(L + 1) /\ 1 # L + 1
    BY <1>0, <1>3
  <2>2. last = QueueAt(1) /\ last = queued[1]
    BY <1>1, <1>2, <1>4, <2>1
  <2>3. before = QueueAt(2)
    BY <1>2, <1>4, <2>1, <2>2
  <2> QED
    BY <1>1, <2>1, <2>2, <2>3
<1>6. queue.end \in QueueNodes /\ queue.end # First /\ last # First /\ before # First
  BY <1>0, <1>5, LinkedContainersAssumption DEF QueueNodes
<1>7. /\ node' = [node EXCEPT ![before].next = queue.end, ![queue.end].previous = before, ![last] = Empty]
      /\ allocated' = allocated \ {last}
      /\ result' = node[last].data
      /\ queue' = [queue EXCEPT !.length = @ - 1] /\ queued' = Tail(queued)
      /\ UNCHANGED <<stack, size, enumerator, alive, freed, stacked, listed>>
  BY <1>4 DEF QueuePullData
<1>8. /\ node' \in [Nodes \cup {First} -> Container]
      /\ node'[before].next = queue.end /\ node'[before].previous = node[before].previous
      /\ node'[before].data = node[before].data
      /\ node'[queue.end].next = node[queue.end].next /\ node'[queue.end].previous = before
      /\ \A m \in Nodes \cup {First} : m \notin {before, queue.end, last} => node'[m] = node[m]
  <2>1. node[before] \in Container /\ node[queue.end] \in Container
    BY <1>0, <1>5
  <2>2. /\ node'[last] = Empty
        /\ node'[before] = [node[before] EXCEPT !.next = queue.end]
        /\ node'[queue.end] = [node[queue.end] EXCEPT !.previous = before]
        /\ \A m \in Nodes \cup {First} : m \notin {before, queue.end, last} => node'[m] = node[m]
        /\ DOMAIN node' = Nodes \cup {First} /\ node' = [m \in Nodes \cup {First} |-> node'[m]]
    BY <1>0, <1>5, <1>7
  <2>3. [node[before] EXCEPT !.next = queue.end] \in Container
        /\ [node[queue.end] EXCEPT !.previous = before] \in Container
    BY <1>0, <1>5, <2>1, Fields
  <2>4. \A m \in Nodes \cup {First} : node'[m] \in Container
    BY <1>0, <2>2, <2>3, EmptyIs
  <2>5. node' \in [Nodes \cup {First} -> Container]
    BY <2>2, <2>4
  <2>6. /\ node'[before].next = queue.end /\ node'[before].previous = node[before].previous
        /\ node'[before].data = node[before].data
        /\ node'[queue.end].next = node[queue.end].next /\ node'[queue.end].previous = before
    BY <1>0, <1>5, <2>1, <2>2, Fields
  <2> QED
    BY <2>2, <2>5, <2>6
<1>9. queued' = Removed(queued, 1)
  BY <1>0, <1>3, <1>7, EndsOfSequence
<1>10. /\ queued' \in Seq(Nodes) /\ Len(queued') = L - 1
       /\ \A k \in 1..(L - 1) : queued'[k] = queued[k + 1]
  <2>1. /\ Tail(queued) \in Seq(Nodes) /\ Len(Tail(queued)) = L - 1
        /\ \A i \in 1..Len(Tail(queued)) : Tail(queued)[i] = queued[i + 1]
    BY <1>0, <1>3, HeadTailProperties
  <2> QED
    BY <1>7, <2>1
<1>11. NoRepeats(queued') /\ NodesIn(queued') = NodesIn(queued) \ {last}
  <2>1. 1 \in 1..Len(queued) /\ queued \in Seq(Nodes) /\ NoRepeats(queued)
    BY <1>0, <1>2, <1>3
  <2>2. NoRepeats(Removed(queued, 1)) /\ NodesIn(Removed(queued, 1)) = NodesIn(queued) \ {queued[1]}
    BY <2>1, RemovedNodes
  <2> QED
    BY <1>5, <1>9, <2>2
<1>12. /\ queue'.start = queue.start /\ queue'.end = queue.end /\ queue'.length = L - 1
       /\ queue' \in [start : Nodes, end : Nodes, length : Nat]
       /\ (Alive("queue")' <=> Alive("queue"))
  BY <1>0, <1>2, <1>3, <1>7 DEF Alive
<1>13. QueueNodes' = QueueNodes \ {last}
  BY <1>0, <1>5, <1>11, <1>12 DEF QueueNodes, NodesIn
<1>14. /\ QueueAt(0)' = queue.end
       /\ \A k \in 1..L : QueueAt(k)' = QueueAt(k + 1)
  <2>1. QueueAt(0)' = queue.end
    BY <1>12 DEF QueueAt
  <2>2. \A k \in 1..(L - 1) : QueueAt(k)' = queued[k + 1] /\ QueueAt(k + 1) = queued[k + 1]
    BY <1>0, <1>10, <1>12 DEF QueueAt
  <2>3. QueueAt(L)' = queue.start /\ QueueAt(L + 1) = queue.start
    BY <1>0, <1>3, <1>10, <1>12 DEF QueueAt
  <2>4. \A k \in 1..L : k \in 1..(L - 1) \/ k = L
    BY <1>0
  <2> QED
    BY <2>1, <2>2, <2>3, <2>4
<1>15. ASSUME NEW k \in 0..(L - 1)
       PROVE  node'[QueueAt(k + 1)'].next = QueueAt(k)' /\ node'[QueueAt(k)'].previous = QueueAt(k + 1)'
  <2>1. CASE k = 0
    <3>1. QueueAt(k)' = queue.end /\ QueueAt(k + 1)' = before
      BY <1>0, <1>3, <1>5, <1>14, <2>1
    <3> QED
      BY <1>8, <3>1
  <2>2. CASE k # 0
    <3>1. /\ k \in 1..L /\ k + 1 \in 1..L /\ k + 1 \in 0..L /\ k + 1 + 1 \in 0..(L + 1)
          /\ k + 1 \in 0..(L + 1) /\ k + 1 # 0 /\ k + 1 # 1 /\ k + 1 + 1 # 0 /\ k + 1 + 1 # 1
          /\ k + 1 + 1 # 2 /\ 0 \in 0..(L + 1) /\ 1 \in 0..(L + 1) /\ 2 \in 0..(L + 1)
      BY <1>0, <2>2
    <3>2. QueueAt(k)' = QueueAt(k + 1) /\ QueueAt(k + 1)' = QueueAt(k + 1 + 1)
      BY <1>14, <3>1
    <3>3. QueueAt(k + 1) # queue.end /\ QueueAt(k + 1) # last
          /\ QueueAt(k + 1 + 1) # queue.end /\ QueueAt(k + 1 + 1) # last /\ QueueAt(k + 1 + 1) # before
      BY <1>1, <1>5, <3>1
    <3>4. /\ node'[QueueAt(k + 1)].previous = node[QueueAt(k + 1)].previous
          /\ node'[QueueAt(k + 1 + 1)] = node[QueueAt(k + 1 + 1)]
      BY <1>1, <1>8, <3>1, <3>3
    <3> QED
      BY <1>2, <3>1, <3>2, <3>4
  <2> QED
    BY <2>1, <2>2, Zenon
<1>16. QueueShape'
  <2>1. queue'.length = Len(queued') /\ NoRepeats(queued)'
    BY <1>10, <1>11, <1>12 DEF NoRepeats
  <2>2. queue'.start # queue'.end /\ queue'.start \notin NodesIn(queued') /\ queue'.end \notin NodesIn(queued')
    BY <1>2, <1>11, <1>12
  <2>3. 0..Len(queued') = 0..(L - 1)
    BY <1>10
  <2> QED
    BY <1>15, <2>1, <2>2, <2>3 DEF QueueShape, NodesIn
<1>17. /\ StackShape' /\ StackNodes' = StackNodes /\ DataOf(stacked)' = DataOf(stacked)
       /\ ListShape' /\ ListNodes' = ListNodes /\ DataOf(listed)' = DataOf(listed)
       /\ Cursor' = Cursor
  BY <1>5, <1>6, <1>7, <1>8, QueueAlone
<1>18. Separate'
  BY <1>5, <1>7, <1>13, <1>17 DEF HeapInv, Separate
<1>19. HeapType'
  BY <1>0, <1>7, <1>8, <1>10, <1>12 DEF HeapInv, HeapType
<1>20. /\ DataOf(queued) # <<>> /\ Head(DataOf(queued)) = node[last].data
       /\ DataOf(queued)' = Tail(DataOf(queued))
  <2>1. PICK h, g, s : h = node /\ g = node' /\ s = queued
    OBVIOUS
  <2>2. /\ h \in [Nodes \cup {First} -> Container] /\ g \in [Nodes \cup {First} -> Container]
        /\ s \in Seq(Nodes) /\ 1 \in 1..Len(s)
        /\ \A k \in 1..Len(s) : k # 1 => g[s[k]].data = h[s[k]].data
    <3>1. \A k \in 1..Len(s) : k # 1 => s[k] # last /\ s[k] # queue.end
      BY <1>0, <1>2, <1>5, <2>1 DEF NoRepeats, NodesIn
    <3>2. \A m \in Nodes : m # last /\ m # queue.end => g[m].data = h[m].data
      BY <1>8, <2>1
    <3> QED
      BY <1>0, <1>3, <1>8, <2>1, <3>1, <3>2
  <2>3. Held(g, Removed(s, 1)) = Removed(Held(h, s), 1)
    BY <2>2, HeldRemoved
  <2>4. /\ Held(h, s) \in Seq(Data \cup {NULL}) /\ Len(Held(h, s)) = Len(s)
        /\ Held(h, s)[1] = h[s[1]].data
    BY <2>2, HeldIs
  <2>5. Held(h, s) # <<>>
    BY <2>2, <2>4
  <2>6. Tail(Held(h, s)) = Removed(Held(h, s), 1) /\ Head(Held(h, s)) = Held(h, s)[1]
    BY <2>4, <2>5, EndsOfSequence
  <2> QED
    BY <1>5, <1>9, <2>1, <2>3, <2>4, <2>5, <2>6, DataIsHeld
<1>21. Abstract!QueuePull
  <2>1. Abstract!Alive("queue")
    BY <1>0 DEF Abstract!Alive, Alive
  <2> QED
    BY <1>7, <1>17, <1>20, <2>1 DEF Abstract!QueuePull, Abstract!FirstOf, Abstract!RestOf
<1> QED
  BY <1>16, <1>17, <1>18, <1>19, <1>21 DEF HeapInv

\* destroy_queue pulls what it holds, then frees its ends.
LEMMA QueueDestroyed ==
    ASSUME HeapInv, DestroyQueue
    PROVE  HeapInv' /\ Abstract!Destroy("queue")
<1>a. PICK L : L = Len(queued)
  OBVIOUS
<1>0. /\ L = Len(queued) /\ L \in Nat /\ Alive("queue") /\ queue.length = L
      /\ enumerator = NULL
      /\ node \in [Nodes \cup {First} -> Container] /\ allocated \subseteq Nodes
      /\ queue \in [start : Nodes, end : Nodes, length : Nat]
  BY <1>a DEF HeapInv, HeapType, QueueShape, DestroyQueue
<1>1. {Behind(k) : k \in 0..queue.length} \cup {queue.start} = QueueNodes
  <2>1. /\ \A k \in 0..(L + 1) : QueueAt(k) \in QueueNodes
        /\ \A n \in QueueNodes : \E k \in 0..(L + 1) : QueueAt(k) = n
        /\ QueueAt(L + 1) = queue.start
    BY <1>0, QueuePlaces
  <2>2. \A k \in 0..L : Behind(k) = QueueAt(k)
    BY <1>0, Walks
  <2>3. \A k \in 0..(L + 1) : k \in 0..L \/ k = L + 1
    BY <1>0
  <2>4. L + 1 \in 0..(L + 1) /\ \A k \in 0..L : k \in 0..(L + 1)
    BY <1>0
  <2> QED
    BY <1>0, <2>1, <2>2, <2>3, <2>4
<1>2. /\ node' = Without(QueueNodes) /\ allocated' = allocated \ QueueNodes
      /\ alive' = alive \ {"queue"}
      /\ queue' = [queue EXCEPT !.length = 0] /\ queued' = <<>>
      /\ UNCHANGED <<stack, size, enumerator, freed, result, stacked, listed>>
  BY <1>1 DEF DestroyQueue
<1>3. /\ node' \in [Nodes \cup {First} -> Container]
      /\ \A m \in Nodes \cup {First} : m \notin QueueNodes => node'[m] = node[m]
  BY <1>0, <1>2, EmptyIs DEF Without
<1>4. /\ StackShape' /\ StackNodes' = StackNodes /\ DataOf(stacked)' = DataOf(stacked)
      /\ ListShape' /\ ListNodes' = ListNodes /\ DataOf(listed)' = DataOf(listed)
      /\ Cursor' = Cursor
  BY <1>2, <1>3, QueueAlone
<1>5. /\ ~Alive("queue")' /\ queued' \in Seq(Nodes) /\ Len(queued') = 0 /\ DOMAIN queued' = {}
      /\ queue' \in [start : Nodes, end : Nodes, length : Nat] /\ queue'.length = 0
  BY <1>0, <1>2 DEF Alive
<1>6. QueueShape' /\ QueueNodes' = {}
  BY <1>5 DEF QueueShape, QueueNodes, NoRepeats, NodesIn
<1>7. Separate'
  BY <1>2, <1>4, <1>6 DEF HeapInv, Separate
<1>8. HeapType'
  BY <1>0, <1>2, <1>3, <1>5 DEF HeapInv, HeapType
<1>9. DataOf(queued)' = <<>>
  <2>1. DataOf(queued)' \in [1..0 -> Data] /\ 1..0 = {}
    BY <1>5 DEF DataOf
  <2>2. Len(DataOf(queued)') = 0 /\ DataOf(queued)' \in Seq(Data)
    BY <2>1
  <2> QED
    BY <2>2, EmptySeq
<1>10. Cursor = -1
  BY <1>0 DEF Cursor
<1>11. Abstract!Destroy("queue")
  BY <1>0, <1>2, <1>4, <1>9, <1>10 DEF Abstract!Destroy, Abstract!Alive, Abstract!NoEnumerator, Alive
<1> QED
  BY <1>4, <1>6, <1>7, <1>8, <1>11 DEF HeapInv
-----------------------------------------------------------------------------
(* The stack. *)

LEMMA PutFirst ==
    ASSUME NEW S, NEW s \in Seq(S), NEW n \in S
    PROVE  /\ <<n>> \o s \in Seq(S) /\ Len(<<n>> \o s) = Len(s) + 1
           /\ (<<n>> \o s)[1] = n /\ \A k \in 1..Len(s) : (<<n>> \o s)[k + 1] = s[k]
<1>1. Len(s) \in Nat /\ <<n>> \in Seq(S) /\ Len(<<n>>) = 1 /\ <<n>>[1] = n
  OBVIOUS
<1>2. PICK t, one : t = one \o s /\ one = <<n>>
  OBVIOUS
<1>3. /\ t \in Seq(S) /\ Len(t) = Len(one) + Len(s)
      /\ \A k \in 1..(Len(one) + Len(s)) : t[k] = IF k <= Len(one) THEN one[k] ELSE s[k - Len(one)]
  BY <1>1, <1>2, ConcatProperties
<1>4. Len(t) = Len(s) + 1 /\ t[1] = n
  BY <1>1, <1>2, <1>3
<1>5. \A k \in 1..Len(s) : t[k + 1] = s[k]
  <2> TAKE k \in 1..Len(s)
  <2>1. k + 1 \in 1..(Len(one) + Len(s)) /\ ~(k + 1 <= Len(one)) /\ k + 1 - Len(one) = k
    BY <1>1, <1>2
  <2> QED
    BY <1>3, <2>1
<1> QED
  BY <1>2, <1>3, <1>4, <1>5

\* A step of the stack that changes only containers of the stack, and fresh ones.
LEMMA StackAlone ==
    ASSUME HeapInv, UNCHANGED <<queue, size, enumerator, queued, listed>>,
           Alive("queue")' <=> Alive("queue"),
           \A m \in QueueNodes \cup ListNodes \cup {First} : node'[m] = node[m]
    PROVE  /\ QueueShape' /\ QueueNodes' = QueueNodes /\ DataOf(queued)' = DataOf(queued)
           /\ ListShape' /\ ListNodes' = ListNodes /\ DataOf(listed)' = DataOf(listed)
           /\ Cursor' = Cursor
<1>1. enumerator' \in ListNodes \cup {First, NULL}
  BY DEF HeapInv, ListShape
<1> QED
  BY <1>1, QueueKept, ListKept

LEMMA PutInStack ==
    ASSUME HeapInv, NEW n \in Nodes, NEW d \in Data, PutStackElement(n, d)
    PROVE  HeapInv' /\ Abstract!StackPut(d)
<1>a. PICK L : L = Len(stacked)
  OBVIOUS
<1>0. /\ L = Len(stacked) /\ L \in Nat /\ Alive("stack") /\ n \in Fresh
      /\ stacked \in Seq(Nodes) /\ DOMAIN stacked = 1..L /\ NoRepeats(stacked)
      /\ node \in [Nodes \cup {First} -> Container] /\ allocated \subseteq Nodes
      /\ stack.elements_left = L /\ stack.next_node = StackAt(1)
      /\ stack.next_node \in Nodes \cup {NULL}
      /\ \A k \in 1..L : node[StackAt(k)].next = StackAt(k + 1)
  BY <1>a DEF HeapInv, HeapType, StackShape, PutStackElement
<1>1. n \in Nodes /\ n # First /\ n \notin QueueNodes /\ n \notin StackNodes /\ n \notin ListNodes
  BY <1>0, FreshIs
<1>2. /\ node' = [node EXCEPT ![n] = [Empty EXCEPT !.next = stack.next_node, !.data = d]]
      /\ allocated' = allocated \cup {n}
      /\ stack' = [next_node |-> n, elements_left |-> L + 1]
      /\ stacked' = <<n>> \o stacked
      /\ UNCHANGED <<queue, size, enumerator, alive, freed, result, queued, listed>>
  BY <1>0 DEF PutStackElement
<1>3. /\ node' \in [Nodes \cup {First} -> Container]
      /\ node'[n].next = stack.next_node /\ node'[n].data = d
      /\ \A m \in Nodes \cup {First} : m # n => node'[m] = node[m]
  BY <1>0, <1>1, <1>2 DEF Empty, Container
<1>4. stacked' = Inserted(stacked, 0, n)
  BY <1>0, <1>2, EndsOfSequence
<1>5. /\ stacked' \in Seq(Nodes) /\ Len(stacked') = L + 1
      /\ stacked'[1] = n /\ \A k \in 1..L : stacked'[k + 1] = stacked[k]
  <2>1. PICK s : s = stacked
    OBVIOUS
  <2>2. /\ <<n>> \o s \in Seq(Nodes) /\ Len(<<n>> \o s) = Len(s) + 1
        /\ (<<n>> \o s)[1] = n /\ \A k \in 1..Len(s) : (<<n>> \o s)[k + 1] = s[k]
    BY <1>0, <2>1, PutFirst
  <2> QED
    BY <1>0, <1>2, <2>1, <2>2
<1>6. NoRepeats(stacked') /\ NodesIn(stacked') = NodesIn(stacked) \cup {n}
  <2>1. 0 \in 0..Len(stacked) /\ n \notin NodesIn(stacked)
    BY <1>0, <1>1 DEF StackNodes
  <2>2. /\ NoRepeats(Inserted(stacked, 0, n))
        /\ NodesIn(Inserted(stacked, 0, n)) = NodesIn(stacked) \cup {n}
    BY <1>0, <2>1, InsertedNodes
  <2> QED
    BY <1>4, <2>2
<1>7. \A k \in 1..(L + 1) : StackAt(k + 1)' = StackAt(k) /\ StackAt(1)' = n
  <2>1. \A k \in 1..L : StackAt(k + 1)' = stacked[k] /\ StackAt(k) = stacked[k]
    BY <1>0, <1>5 DEF StackAt
  <2>2. StackAt(L + 1 + 1)' = NULL /\ StackAt(L + 1) = NULL
    BY <1>0, <1>5 DEF StackAt
  <2>3. StackAt(1)' = n
    BY <1>0, <1>5 DEF StackAt
  <2>4. \A k \in 1..(L + 1) : k \in 1..L \/ k = L + 1
    BY <1>0
  <2> QED
    BY <2>1, <2>2, <2>3, <2>4
<1>8. ASSUME NEW k \in 1..(L + 1) PROVE node'[StackAt(k)'].next = StackAt(k + 1)'
  <2>1. CASE k = 1
    BY <1>0, <1>3, <1>7, <2>1
  <2>2. CASE k # 1
    <3>1. PICK j : j = k - 1
      OBVIOUS
    <3>2. j \in 1..L /\ j + 1 = k /\ j \in 1..(L + 1)
      BY <1>0, <2>2, <3>1
    <3>3. StackAt(j + 1)' = StackAt(j) /\ StackAt(k + 1)' = StackAt(k)
      BY <1>7, <3>2
    <3>4. StackAt(j) = stacked[j] /\ stacked[j] \in Nodes /\ stacked[j] # n
      BY <1>0, <1>1, <3>2 DEF StackAt, StackNodes, NodesIn
    <3>5. node'[StackAt(j)] = node[StackAt(j)]
      BY <1>3, <3>4
    <3>6. node[StackAt(j)].next = StackAt(k)
      BY <1>0, <3>2
    <3>7. StackAt(k)' = StackAt(j)
      BY <3>2, <3>3
    <3> QED
      BY <3>3, <3>5, <3>6, <3>7
  <2> QED
    BY <2>1, <2>2, Zenon
<1>9. StackShape' /\ StackNodes' = StackNodes \cup {n}
  <2>1. 1 \in 1..(L + 1) /\ 1..Len(stacked') = 1..(L + 1)
    BY <1>0, <1>5
  <2>2. stack'.next_node = StackAt(1)' /\ stack'.elements_left = Len(stacked')
    BY <1>2, <1>5, <1>7, <2>1
  <2> QED
    BY <1>6, <1>8, <2>1, <2>2 DEF StackShape, StackNodes, NodesIn, NoRepeats
<1>10. /\ QueueShape' /\ QueueNodes' = QueueNodes /\ DataOf(queued)' = DataOf(queued)
       /\ ListShape' /\ ListNodes' = ListNodes /\ DataOf(listed)' = DataOf(listed)
       /\ Cursor' = Cursor
  <2>1. \A m \in QueueNodes \cup ListNodes \cup {First} : node'[m] = node[m]
    BY <1>0, <1>1, <1>3 DEF HeapInv, Separate
  <2>2. Alive("queue")' <=> Alive("queue")
    BY <1>2 DEF Alive
  <2> QED
    BY <1>2, <2>1, <2>2, StackAlone
<1>11. Separate'
  BY <1>1, <1>2, <1>9, <1>10 DEF HeapInv, Separate
<1>12. HeapType'
  <2>1. stack' \in [next_node : Nodes \cup {NULL}, elements_left : Nat]
    BY <1>0, <1>2
  <2> QED
    BY <1>0, <1>2, <1>3, <1>5, <2>1 DEF HeapInv, HeapType
<1>13. DataOf(stacked)' = <<d>> \o DataOf(stacked)
  <2>1. PICK h, g, s : h = node /\ g = node' /\ s = stacked
    OBVIOUS
  <2>2. /\ h \in [Nodes \cup {First} -> Container] /\ g \in [Nodes \cup {First} -> Container]
        /\ s \in Seq(Nodes) /\ 0 \in 0..Len(s)
        /\ \A k \in 1..Len(s) : g[s[k]].data = h[s[k]].data
    <3>1. \A k \in 1..Len(s) : s[k] \in Nodes /\ s[k] # n
      BY <1>0, <1>1, <2>1 DEF StackNodes, NodesIn
    <3> QED
      BY <1>0, <1>3, <2>1, <3>1
  <2>3. Held(g, Inserted(s, 0, n)) = Inserted(Held(h, s), 0, g[n].data)
    BY <2>2, HeldInserted
  <2>4. Held(h, s) \in Seq(Data \cup {NULL})
    BY <2>2, HeldIs
  <2>5. \A x \in Data \cup {NULL} : <<x>> \o Held(h, s) = Inserted(Held(h, s), 0, x)
    BY <2>4, EndsOfSequence
  <2>6. g[n].data = d /\ d \in Data \cup {NULL}
    BY <1>3, <2>1
  <2> QED
    BY <1>4, <2>1, <2>3, <2>5, <2>6, DataIsHeld
<1>14. Abstract!StackPut(d)
  <2>1. Abstract!Alive("stack")
    BY <1>0 DEF Abstract!Alive, Alive
  <2> QED
    BY <1>2, <1>10, <1>13, <2>1 DEF Abstract!StackPut
<1> QED
  BY <1>9, <1>10, <1>11, <1>12, <1>14 DEF HeapInv

LEMMA PulledFromStack ==
    ASSUME HeapInv, PullStackElement
    PROVE  HeapInv' /\ Abstract!StackPull
<1>a. PICK L : L = Len(stacked)
  OBVIOUS
<1>0. /\ L = Len(stacked) /\ L \in Nat /\ Alive("stack") /\ L # 0
      /\ stacked \in Seq(Nodes) /\ DOMAIN stacked = 1..L /\ NoRepeats(stacked)
      /\ node \in [Nodes \cup {First} -> Container] /\ allocated \subseteq Nodes
      /\ stack.elements_left = L /\ stack.next_node = StackAt(1)
      /\ \A k \in 1..L : node[StackAt(k)].next = StackAt(k + 1)
      /\ \A k \in 1..L : StackAt(k) = stacked[k] /\ stacked[k] \in Nodes
  BY <1>a DEF HeapInv, HeapType, StackShape, PullStackElement, StackAt
<1>1. L >= 1 /\ stacked # <<>> /\ 1 \in 1..L
  BY <1>0, EmptySeq
<1>2. PICK top : top = stack.next_node
  OBVIOUS
<1>3. top = stacked[1] /\ top \in Nodes /\ top \in StackNodes /\ node[top].next = StackAt(2)
  <2>1. top = stacked[1] /\ top \in Nodes /\ top \in StackNodes
    BY <1>0, <1>1, <1>2 DEF StackNodes, NodesIn
  <2>2. node[StackAt(1)].next = StackAt(1 + 1) /\ 1 + 1 = 2
    BY <1>0, <1>1
  <2> QED
    BY <1>0, <1>2, <2>1, <2>2
<1>4. /\ stack' = [next_node |-> StackAt(2), elements_left |-> L - 1]
      /\ result' = node[top].data
      /\ node' = [node EXCEPT ![top] = Empty]
      /\ allocated' = allocated \ {top}
      /\ stacked' = Tail(stacked)
      /\ UNCHANGED <<queue, size, enumerator, alive, freed, queued, listed>>
  BY <1>0, <1>2, <1>3 DEF PullStackElement
<1>5. /\ node' \in [Nodes \cup {First} -> Container]
      /\ \A m \in Nodes \cup {First} : m # top => node'[m] = node[m]
  BY <1>0, <1>3, <1>4, EmptyIs
<1>6. stacked' = Removed(stacked, 1)
  BY <1>0, <1>1, <1>4, EndsOfSequence
<1>7. /\ stacked' \in Seq(Nodes) /\ Len(stacked') = L - 1
      /\ \A k \in 1..(L - 1) : stacked'[k] = stacked[k + 1]
  <2>1. /\ Tail(stacked) \in Seq(Nodes) /\ Len(Tail(stacked)) = L - 1
        /\ \A i \in 1..Len(Tail(stacked)) : Tail(stacked)[i] = stacked[i + 1]
    BY <1>0, <1>1, HeadTailProperties
  <2> QED
    BY <1>4, <2>1
<1>8. NoRepeats(stacked') /\ NodesIn(stacked') = NodesIn(stacked) \ {top}
  <2>1. 1 \in 1..Len(stacked)
    BY <1>0, <1>1
  <2>2. NoRepeats(Removed(stacked, 1)) /\ NodesIn(Removed(stacked, 1)) = NodesIn(stacked) \ {stacked[1]}
    BY <1>0, <2>1, RemovedNodes
  <2> QED
    BY <1>3, <1>6, <2>2
<1>9. \A k \in 1..L : StackAt(k)' = StackAt(k + 1)
  <2>1. \A k \in 1..(L - 1) : StackAt(k)' = stacked[k + 1] /\ StackAt(k + 1) = stacked[k + 1]
    BY <1>0, <1>7 DEF StackAt
  <2>2. StackAt(L)' = NULL /\ StackAt(L + 1) = NULL
    BY <1>0, <1>7 DEF StackAt
  <2>3. \A k \in 1..L : k \in 1..(L - 1) \/ k = L
    BY <1>0
  <2> QED
    BY <2>1, <2>2, <2>3
<1>10. ASSUME NEW k \in 1..(L - 1) PROVE node'[StackAt(k)'].next = StackAt(k + 1)'
  <2>1. k \in 1..L /\ k + 1 \in 1..L /\ k + 1 # 1
    BY <1>0
  <2>2. StackAt(k)' = StackAt(k + 1) /\ StackAt(k + 1)' = StackAt(k + 1 + 1)
    BY <1>9, <2>1
  <2>3. StackAt(k + 1) \in Nodes /\ StackAt(k + 1) # top
    BY <1>0, <1>1, <1>3, <2>1 DEF NoRepeats
  <2>4. node'[StackAt(k + 1)] = node[StackAt(k + 1)]
    BY <1>5, <2>3
  <2> QED
    BY <1>0, <2>1, <2>2, <2>4
<1>11. StackShape' /\ StackNodes' = StackNodes \ {top}
  <2>1. 1..Len(stacked') = 1..(L - 1) /\ stack'.elements_left = Len(stacked')
    BY <1>0, <1>4, <1>7
  <2>2. stack'.next_node = StackAt(1)'
    <3>1. StackAt(1)' = StackAt(1 + 1) /\ 1 + 1 = 2
      BY <1>1, <1>9
    <3> QED
      BY <1>4, <3>1
  <2> QED
    BY <1>8, <1>10, <2>1, <2>2 DEF StackShape, StackNodes, NodesIn, NoRepeats
<1>12. /\ QueueShape' /\ QueueNodes' = QueueNodes /\ DataOf(queued)' = DataOf(queued)
       /\ ListShape' /\ ListNodes' = ListNodes /\ DataOf(listed)' = DataOf(listed)
       /\ Cursor' = Cursor
  <2>1. \A m \in QueueNodes \cup ListNodes \cup {First} : m \in Nodes \cup {First} /\ m # top
    BY <1>0, <1>3, LinkedContainersAssumption DEF HeapInv, Separate
  <2>2. \A m \in QueueNodes \cup ListNodes \cup {First} : node'[m] = node[m]
    BY <1>5, <2>1
  <2>3. Alive("queue")' <=> Alive("queue")
    BY <1>4 DEF Alive
  <2> QED
    BY <1>4, <2>2, <2>3, StackAlone
<1>13. Separate'
  BY <1>3, <1>4, <1>11, <1>12 DEF HeapInv, Separate
<1>14. HeapType'
  <2>1. 2 = L + 1 \/ 2 \in 1..L
    BY <1>0, <1>1
  <2>2. StackAt(2) \in Nodes \cup {NULL}
    BY <1>0, <2>1 DEF StackAt
  <2>3. stack' \in [next_node : Nodes \cup {NULL}, elements_left : Nat]
    BY <1>0, <1>1, <1>4, <2>2
  <2> QED
    BY <1>0, <1>4, <1>5, <1>7, <2>3 DEF HeapInv, HeapType
<1>15. /\ DataOf(stacked) # <<>> /\ Head(DataOf(stacked)) = node[top].data
       /\ DataOf(stacked)' = Tail(DataOf(stacked))
  <2>1. PICK h, g, s : h = node /\ g = node' /\ s = stacked
    OBVIOUS
  <2>2. /\ h \in [Nodes \cup {First} -> Container] /\ g \in [Nodes \cup {First} -> Container]
        /\ s \in Seq(Nodes) /\ 1 \in 1..Len(s)
        /\ \A k \in 1..Len(s) : k # 1 => g[s[k]].data = h[s[k]].data
    <3>1. \A k \in 1..Len(s) : k # 1 => s[k] # top /\ s[k] \in Nodes
      BY <1>0, <1>1, <1>3, <2>1 DEF NoRepeats
    <3> QED
      BY <1>0, <1>1, <1>5, <2>1, <3>1
  <2>3. Held(g, Removed(s, 1)) = Removed(Held(h, s), 1)
    BY <2>2, HeldRemoved
  <2>4. /\ Held(h, s) \in Seq(Data \cup {NULL}) /\ Len(Held(h, s)) = Len(s)
        /\ Held(h, s)[1] = h[s[1]].data
    BY <2>2, HeldIs
  <2>5. Held(h, s) # <<>>
    BY <2>2, <2>4
  <2>6. Tail(Held(h, s)) = Removed(Held(h, s), 1) /\ Head(Held(h, s)) = Held(h, s)[1]
    BY <2>4, <2>5, EndsOfSequence
  <2> QED
    BY <1>3, <1>6, <2>1, <2>3, <2>4, <2>5, <2>6, DataIsHeld
<1>16. Abstract!StackPull
  <2>1. Abstract!Alive("stack")
    BY <1>0 DEF Abstract!Alive, Alive
  <2> QED
    BY <1>4, <1>12, <1>15, <2>1 DEF Abstract!StackPull, Abstract!FirstOf, Abstract!RestOf
<1> QED
  BY <1>11, <1>12, <1>13, <1>14, <1>16 DEF HeapInv

\* destroy_stack pulls what it holds and frees the data.
LEMMA StackDestroyed ==
    ASSUME HeapInv, DestroyStack
    PROVE  HeapInv' /\ Abstract!Destroy("stack")
<1>a. PICK L : L = Len(stacked)
  OBVIOUS
<1>0. /\ L = Len(stacked) /\ L \in Nat /\ Alive("stack") /\ stack.elements_left = L
      /\ enumerator = NULL /\ DOMAIN stacked = 1..L
      /\ node \in [Nodes \cup {First} -> Container] /\ allocated \subseteq Nodes
      /\ \A k \in 1..L : StackAt(k) = stacked[k]
  BY <1>a DEF HeapInv, HeapType, StackShape, DestroyStack, StackAt
<1>1. {After(stack.next_node, k) : k \in 0..(stack.elements_left - 1)} = StackNodes
  <2>1. \A k \in 0..(L - 1) : After(stack.next_node, k) = stacked[k + 1]
    <3>1. \A k \in 0..(L - 1) : After(stack.next_node, k) = StackAt(k + 1)
      BY <1>0, Walks
    <3>2. \A k \in 0..(L - 1) : k + 1 \in 1..L
      BY <1>0
    <3> QED
      BY <1>0, <3>1, <3>2
  <2>2. StackNodes = {stacked[k] : k \in 1..L}
    BY <1>0 DEF StackNodes, NodesIn
  <2>3. \A k \in 1..L : k - 1 \in 0..(L - 1) /\ k - 1 + 1 = k
    BY <1>0
  <2>4. \A k \in 0..(L - 1) : k + 1 \in 1..L
    BY <1>0
  <2>5. \A x \in StackNodes : \E k \in 0..(L - 1) : x = After(stack.next_node, k)
    BY <2>1, <2>2, <2>3
  <2>6. \A k \in 0..(L - 1) : After(stack.next_node, k) \in StackNodes
    BY <2>1, <2>2, <2>4
  <2> QED
    BY <1>0, <2>5, <2>6
<1>2. /\ node' = Without(StackNodes) /\ allocated' = allocated \ StackNodes
      /\ freed' = freed \cup {node[n].data : n \in StackNodes}
      /\ alive' = alive \ {"stack"}
      /\ stack' = [next_node |-> NULL, elements_left |-> 0] /\ stacked' = <<>>
      /\ UNCHANGED <<queue, size, enumerator, result, queued, listed>>
  BY <1>1 DEF DestroyStack
<1>3. /\ node' \in [Nodes \cup {First} -> Container]
      /\ \A m \in Nodes \cup {First} : m \notin StackNodes => node'[m] = node[m]
  BY <1>0, <1>2, EmptyIs DEF Without
<1>4. /\ QueueShape' /\ QueueNodes' = QueueNodes /\ DataOf(queued)' = DataOf(queued)
      /\ ListShape' /\ ListNodes' = ListNodes /\ DataOf(listed)' = DataOf(listed)
      /\ Cursor' = Cursor
  <2>1. \A m \in QueueNodes \cup ListNodes \cup {First} : m \in Nodes \cup {First} /\ m \notin StackNodes
    BY <1>0, LinkedContainersAssumption DEF HeapInv, Separate
  <2>2. \A m \in QueueNodes \cup ListNodes \cup {First} : node'[m] = node[m]
    BY <1>3, <2>1
  <2>3. Alive("queue")' <=> Alive("queue")
    BY <1>2 DEF Alive
  <2> QED
    BY <1>2, <2>2, <2>3, StackAlone
<1>5. /\ stacked' \in Seq(Nodes) /\ Len(stacked') = 0 /\ DOMAIN stacked' = {}
      /\ stack' \in [next_node : Nodes \cup {NULL}, elements_left : Nat]
      /\ StackAt(1)' = NULL
  BY <1>2 DEF StackAt
<1>6. StackShape' /\ StackNodes' = {}
  BY <1>2, <1>5 DEF StackShape, StackNodes, NoRepeats, NodesIn
<1>7. Separate'
  BY <1>2, <1>4, <1>6 DEF HeapInv, Separate
<1>8. HeapType'
  BY <1>0, <1>2, <1>3, <1>5 DEF HeapInv, HeapType
<1>9. DataOf(stacked)' = <<>>
  <2>1. DataOf(stacked)' \in [1..0 -> Data] /\ 1..0 = {}
    BY <1>5 DEF DataOf
  <2>2. Len(DataOf(stacked)') = 0 /\ DataOf(stacked)' \in Seq(Data)
    BY <2>1
  <2> QED
    BY <2>2, EmptySeq
<1>10. Cursor = -1
  BY <1>0 DEF Cursor
<1>11. {node[n].data : n \in StackNodes} = Abstract!Elements(DataOf(stacked))
  BY DEF Abstract!Elements, DataOf, StackNodes, NodesIn
<1>12. Abstract!Destroy("stack")
  BY <1>0, <1>2, <1>4, <1>9, <1>10, <1>11
     DEF Abstract!Destroy, Abstract!Alive, Abstract!NoEnumerator, Alive
<1> QED
  BY <1>4, <1>6, <1>7, <1>8, <1>12 DEF HeapInv
-----------------------------------------------------------------------------
(* The list. *)

\* A step of the list that changes only containers of the list, and fresh ones.
LEMMA ListAlone ==
    ASSUME HeapInv, UNCHANGED <<queue, stack, queued, stacked>>,
           Alive("queue")' <=> Alive("queue"),
           \A m \in QueueNodes \cup StackNodes : node'[m] = node[m]
    PROVE  /\ QueueShape' /\ QueueNodes' = QueueNodes /\ DataOf(queued)' = DataOf(queued)
           /\ StackShape' /\ StackNodes' = StackNodes /\ DataOf(stacked)' = DataOf(stacked)
BY QueueKept, StackKept

\* Where an enumerator at e stands in s.
PlaceOf(e, s) ==
    IF e = NULL THEN -1 ELSE IF e = First THEN 0 ELSE CHOOSE k \in DOMAIN s : s[k] = e

LEMMA PlaceIs ==
    ASSUME NEW s \in Seq(Nodes), NoRepeats(s)
    PROVE  /\ PlaceOf(NULL, s) = -1 /\ PlaceOf(First, s) = 0
           /\ \A k \in 1..Len(s) : PlaceOf(s[k], s) = k
<1>1. First \notin Nodes /\ NULL \notin Nodes /\ NULL # First
  BY LinkedContainersAssumption
<1>2. PlaceOf(NULL, s) = -1 /\ PlaceOf(First, s) = 0
  BY <1>1 DEF PlaceOf
<1>3. ASSUME NEW k \in 1..Len(s) PROVE PlaceOf(s[k], s) = k
  <2>1. s[k] \in Nodes /\ DOMAIN s = 1..Len(s)
    OBVIOUS
  <2>2. s[k] # NULL /\ s[k] # First
    BY <1>1, <2>1
  <2>3. PlaceOf(s[k], s) = CHOOSE j \in DOMAIN s : s[j] = s[k]
    BY <2>2 DEF PlaceOf
  <2>4. \E j \in DOMAIN s : s[j] = s[k]
    BY <2>1
  <2>5. PlaceOf(s[k], s) \in DOMAIN s /\ s[PlaceOf(s[k], s)] = s[k]
    BY <2>3, <2>4
  <2> QED
    BY <2>1, <2>5 DEF NoRepeats
<1> QED
  BY <1>2, <1>3

LEMMA CursorIsPlace ==
    Cursor = PlaceOf(enumerator, listed) /\ Cursor' = PlaceOf(enumerator', listed')
BY DEF Cursor, PlaceOf

LEMMA InsertedInList ==
    ASSUME HeapInv, NEW n \in Nodes, NEW d \in Data, NEW pos \in 0..size,
           InsertListElement(n, pos, d)
    PROVE  HeapInv' /\ Abstract!Insert(pos, d)
<1>a. PICK L : L = Len(listed)
  OBVIOUS
<1>0. /\ L = Len(listed) /\ L \in Nat /\ Alive("list") /\ n \in Fresh /\ size = L
      /\ listed \in Seq(Nodes) /\ DOMAIN listed = 1..L /\ NoRepeats(listed)
      /\ node \in [Nodes \cup {First} -> Container] /\ allocated \subseteq Nodes
      /\ \A k \in 0..L : node[ListAt(k)].next = ListAt(k + 1)
      /\ enumerator \in ListNodes \cup {First, NULL}
      /\ pos \in 0..L
  BY <1>a DEF HeapInv, HeapType, ListShape, InsertListElement
<1>1. n \in Nodes /\ n # First /\ n \notin QueueNodes /\ n \notin StackNodes /\ n \notin ListNodes
  BY <1>0, FreshIs
<1>2. /\ \A k \in 1..L : ListAt(k) = listed[k] /\ ListAt(k) \in ListNodes
      /\ ListAt(0) = First /\ ListAt(L + 1) = NULL
      /\ \A j, k \in 0..(L + 1) : ListAt(j) = ListAt(k) => j = k
      /\ ListNodes \subseteq Nodes
  BY <1>0, ListPlaces
<1>3. PICK prev : prev = GetContainer(pos - 1)
  OBVIOUS
<1>4. prev = ListAt(pos) /\ prev \in Nodes \cup {First} /\ prev # n
      /\ (prev = First \/ prev \in ListNodes)
  <2>1. pos - 1 \in -1..L /\ pos - 1 < L /\ pos - 1 + 1 = pos
    BY <1>0
  <2>2. prev = ListAt(pos)
    BY <1>0, <1>3, <2>1, Walks
  <2>3. pos = 0 \/ pos \in 1..L
    BY <1>0
  <2> QED
    BY <1>1, <1>2, <2>2, <2>3
<1>5. node[prev].next = ListAt(pos + 1) /\ ListAt(pos + 1) \in Nodes \cup {NULL}
  <2>1. node[prev].next = ListAt(pos + 1)
    BY <1>0, <1>4
  <2>2. pos + 1 = L + 1 \/ pos + 1 \in 1..L
    BY <1>0
  <2> QED
    BY <1>2, <2>1, <2>2
<1>6. /\ node' = [node EXCEPT ![n] = [Empty EXCEPT !.next = node[prev].next, !.data = d],
                              ![prev].next = n]
      /\ allocated' = allocated \cup {n}
      /\ size' = L + 1
      /\ listed' = Inserted(listed, pos, n)
      /\ UNCHANGED <<queue, stack, enumerator, alive, freed, result, queued, stacked>>
  BY <1>0, <1>3 DEF InsertListElement, Inserted
<1>7. /\ node' \in [Nodes \cup {First} -> Container]
      /\ node'[n].next = ListAt(pos + 1) /\ node'[n].data = d
      /\ node'[prev].next = n /\ node'[prev].data = node[prev].data
      /\ \A m \in Nodes \cup {First} : m # n /\ m # prev => node'[m] = node[m]
  <2>1. PICK new : new = [Empty EXCEPT !.next = node[prev].next, !.data = d]
    OBVIOUS
  <2>2. new \in Container /\ new.next = ListAt(pos + 1) /\ new.data = d
    BY <1>5, <2>1 DEF Empty, Container
  <2>3. node[prev] \in Container
    BY <1>0, <1>4
  <2>4. /\ node'[n] = new /\ node'[prev] = [node[prev] EXCEPT !.next = n]
        /\ \A m \in Nodes \cup {First} : m # n /\ m # prev => node'[m] = node[m]
        /\ DOMAIN node' = Nodes \cup {First} /\ node' = [m \in Nodes \cup {First} |-> node'[m]]
    BY <1>0, <1>1, <1>4, <1>6, <2>1
  <2>5. [node[prev] EXCEPT !.next = n] \in Container
        /\ node'[prev].next = n /\ node'[prev].data = node[prev].data
    <3>1. PICK old : old = node[prev]
      OBVIOUS
    <3>2. /\ [old EXCEPT !.next = n] \in Container
          /\ [old EXCEPT !.next = n].next = n /\ [old EXCEPT !.next = n].data = old.data
      BY <2>3, <3>1 DEF Container
    <3> QED
      BY <2>4, <3>1, <3>2
  <2>6. \A m \in Nodes \cup {First} : node'[m] \in Container
    BY <1>0, <2>2, <2>4, <2>5
  <2>7. node' \in [Nodes \cup {First} -> Container]
    BY <2>4, <2>6
  <2> QED
    BY <2>2, <2>4, <2>5, <2>7
<1>8. /\ listed' \in Seq(Nodes) /\ Len(listed') = L + 1
      /\ \A k \in 1..(L + 1) : listed'[k]
            = IF k <= pos THEN listed[k] ELSE IF k = pos + 1 THEN n ELSE listed[k - 1]
      /\ NoRepeats(listed') /\ NodesIn(listed') = NodesIn(listed) \cup {n}
  <2>1. PICK s : s = listed
    OBVIOUS
  <2>2. s \in Seq(Nodes) /\ pos \in 0..Len(s) /\ NoRepeats(s) /\ n \notin NodesIn(s)
    BY <1>0, <1>1, <2>1 DEF ListNodes
  <2>3. /\ Inserted(s, pos, n) \in Seq(Nodes) /\ Len(Inserted(s, pos, n)) = Len(s) + 1
        /\ \A k \in 1..(Len(s) + 1) : Inserted(s, pos, n)[k]
              = IF k <= pos THEN s[k] ELSE IF k = pos + 1 THEN n ELSE s[k - 1]
    BY <2>2, InsertedIs
  <2>4. NoRepeats(Inserted(s, pos, n)) /\ NodesIn(Inserted(s, pos, n)) = NodesIn(s) \cup {n}
    BY <2>2, InsertedNodes
  <2> QED
    BY <1>0, <1>6, <2>1, <2>3, <2>4
<1>9. /\ \A k \in 0..pos : ListAt(k)' = ListAt(k)
      /\ ListAt(pos + 1)' = n
      /\ \A k \in (pos + 1)..(L + 1) : ListAt(k + 1)' = ListAt(k)
  <2>1. ListAt(0)' = ListAt(0)
    BY <1>0 DEF ListAt
  <2>2. \A k \in 1..pos : ListAt(k)' = ListAt(k)
    BY <1>0, <1>8 DEF ListAt
  <2>3. ListAt(pos + 1)' = n
    BY <1>0, <1>8 DEF ListAt
  <2>4. \A k \in (pos + 1)..L : ListAt(k + 1)' = ListAt(k)
    BY <1>0, <1>8 DEF ListAt
  <2>5. ListAt(L + 1 + 1)' = NULL
    BY <1>0, <1>8 DEF ListAt
  <2>6. \A k \in 0..pos : k = 0 \/ k \in 1..pos
    BY <1>0
  <2>7. \A k \in (pos + 1)..(L + 1) : k \in (pos + 1)..L \/ k = L + 1
    BY <1>0
  <2> QED
    BY <1>2, <2>1, <2>2, <2>3, <2>4, <2>5, <2>6, <2>7
<1>10. ASSUME NEW k \in 0..(L + 1) PROVE node'[ListAt(k)'].next = ListAt(k + 1)'
  <2>1. CASE k < pos
    <3>1. k \in 0..pos /\ k + 1 \in 0..pos /\ k \in 0..L /\ k \in 0..(L + 1) /\ pos \in 0..(L + 1) /\ k # pos
      BY <1>0, <2>1
    <3>2. ListAt(k) # prev /\ (k = 0 \/ k \in 1..L)
      BY <1>0, <1>2, <1>4, <3>1
    <3>3. ListAt(k) \in Nodes \cup {First} /\ ListAt(k) # n
      BY <1>1, <1>2, <3>2
    <3> QED
      BY <1>0, <1>7, <1>9, <3>1, <3>2, <3>3
  <2>2. CASE k = pos
    <3>1. ListAt(k)' = prev /\ ListAt(k + 1)' = n
      BY <1>0, <1>4, <1>9, <2>2
    <3> QED
      BY <1>7, <3>1
  <2>3. CASE k = pos + 1
    <3>1. ListAt(k)' = n /\ ListAt(k + 1)' = ListAt(pos + 1)
      BY <1>0, <1>9, <2>3
    <3> QED
      BY <1>7, <3>1
  <2>4. CASE k > pos + 1
    <3>1. PICK j : j = k - 1
      OBVIOUS
    <3>2. /\ j \in (pos + 1)..(L + 1) /\ j + 1 = k /\ k \in (pos + 1)..(L + 1) /\ j \in 1..L
          /\ j \in 0..L /\ j \in 0..(L + 1) /\ pos \in 0..(L + 1) /\ j # pos
      BY <1>0, <2>4, <3>1
    <3>3. ListAt(j + 1)' = ListAt(j) /\ ListAt(k + 1)' = ListAt(k)
      BY <1>9, <3>2
    <3>4. ListAt(j) # prev /\ ListAt(j) \in Nodes /\ ListAt(j) # n
      BY <1>1, <1>2, <1>4, <3>2
    <3>5. node'[ListAt(j)] = node[ListAt(j)] /\ node[ListAt(j)].next = ListAt(k)
      BY <1>0, <1>7, <3>2, <3>4
    <3>6. ListAt(k)' = ListAt(j)
      BY <3>2, <3>3
    <3> QED
      BY <3>3, <3>5, <3>6
  <2>5. k < pos \/ k = pos \/ k = pos + 1 \/ k > pos + 1
    BY <1>0
  <2> QED
    BY <2>1, <2>2, <2>3, <2>4, <2>5, Zenon
<1>11. ListNodes' = ListNodes \cup {n}
  BY <1>8 DEF ListNodes, NodesIn
<1>12. ListShape'
  <2>1. 0..Len(listed') = 0..(L + 1) /\ size' = Len(listed')
    BY <1>6, <1>8
  <2>2. enumerator' \in ListNodes' \cup {First, NULL}
    BY <1>0, <1>6, <1>11
  <2>3. NoRepeats(listed)'
    BY <1>8 DEF NoRepeats
  <2> QED
    BY <1>10, <2>1, <2>2, <2>3 DEF ListShape
<1>13. /\ QueueShape' /\ QueueNodes' = QueueNodes /\ DataOf(queued)' = DataOf(queued)
       /\ StackShape' /\ StackNodes' = StackNodes /\ DataOf(stacked)' = DataOf(stacked)
  <2>1. \A m \in QueueNodes \cup StackNodes : m \in Nodes /\ m # n /\ m # prev
    BY <1>0, <1>1, <1>4, LinkedContainersAssumption DEF HeapInv, Separate
  <2>2. \A m \in QueueNodes \cup StackNodes : node'[m] = node[m]
    BY <1>7, <2>1
  <2>3. Alive("queue")' <=> Alive("queue")
    BY <1>6 DEF Alive
  <2> QED
    BY <1>6, <2>2, <2>3, ListAlone
<1>14. Separate'
  BY <1>1, <1>6, <1>11, <1>13 DEF HeapInv, Separate
<1>15. HeapType'
  <2>1. allocated' \subseteq Nodes /\ size' \in Nat
    BY <1>0, <1>6
  <2> QED
    BY <1>6, <1>7, <1>8, <2>1 DEF HeapInv, HeapType
<1>16. DataOf(listed)' = Inserted(DataOf(listed), pos, d) /\ Len(DataOf(listed)) = L
  <2>1. PICK h, g, s : h = node /\ g = node' /\ s = listed
    OBVIOUS
  <2>2. /\ h \in [Nodes \cup {First} -> Container] /\ g \in [Nodes \cup {First} -> Container]
        /\ s \in Seq(Nodes) /\ pos \in 0..Len(s)
        /\ \A k \in 1..Len(s) : g[s[k]].data = h[s[k]].data
    <3>1. \A k \in 1..Len(s) : s[k] \in Nodes /\ s[k] # n
      BY <1>0, <1>1, <2>1 DEF ListNodes, NodesIn
    <3>2. \A m \in Nodes : m # n => node'[m].data = node[m].data
      BY <1>7
    <3> QED
      BY <1>0, <1>7, <2>1, <3>1, <3>2
  <2>3. Held(g, Inserted(s, pos, n)) = Inserted(Held(h, s), pos, g[n].data)
    BY <2>2, HeldInserted
  <2>4. Len(Held(h, s)) = Len(s)
    BY <2>2, HeldIs
  <2> QED
    BY <1>0, <1>6, <1>7, <2>1, <2>3, <2>4, DataIsHeld
<1>17. Cursor' = IF pos < Cursor THEN Cursor + 1 ELSE Cursor
  <2>1. PICK e, s, t : e = enumerator /\ s = listed /\ t = listed'
    OBVIOUS
  <2>2. /\ PlaceOf(NULL, s) = -1 /\ PlaceOf(First, s) = 0
        /\ \A k \in 1..Len(s) : PlaceOf(s[k], s) = k
    BY <1>0, <2>1, PlaceIs
  <2>3. /\ PlaceOf(NULL, t) = -1 /\ PlaceOf(First, t) = 0
        /\ \A k \in 1..Len(t) : PlaceOf(t[k], t) = k
    BY <1>8, <2>1, PlaceIs
  <2>4. Cursor = PlaceOf(e, s) /\ Cursor' = PlaceOf(e, t)
    BY <1>6, <2>1, CursorIsPlace
  <2>5. CASE e = NULL \/ e = First
    BY <1>0, <2>2, <2>3, <2>4, <2>5
  <2>6. CASE e \in ListNodes
    <3>1. PICK k \in 1..L : e = s[k]
      BY <1>0, <2>1, <2>6 DEF ListNodes, NodesIn
    <3>2. Cursor = k
      BY <1>0, <2>1, <2>2, <2>4, <3>1
    <3>3. CASE k <= pos
      <4>1. k \in 1..(L + 1) /\ t[k] = e
        BY <1>0, <1>8, <2>1, <3>1, <3>3
      <4>2. Cursor' = k
        BY <1>8, <2>1, <2>3, <2>4, <4>1
      <4> QED
        BY <1>0, <3>2, <3>3, <4>2
    <3>4. CASE k > pos
      <4>1. k + 1 \in 1..(L + 1) /\ t[k + 1] = e
        BY <1>0, <1>8, <2>1, <3>1, <3>4
      <4>2. Cursor' = k + 1
        BY <1>8, <2>1, <2>3, <2>4, <4>1
      <4> QED
        BY <1>0, <3>2, <3>4, <4>2
    <3>5. k <= pos \/ k > pos
      BY <1>0
    <3> QED
      BY <3>3, <3>4, <3>5, Zenon
  <2>7. e \in ListNodes \/ e = First \/ e = NULL
    BY <1>0, <2>1
  <2> QED
    BY <2>5, <2>6, <2>7, Zenon
<1>18. Abstract!Insert(pos, d)
  <2>1. Abstract!Alive("list")
    BY <1>0 DEF Abstract!Alive, Alive
  <2> QED
    BY <1>0, <1>6, <1>13, <1>16, <1>17, <2>1 DEF Abstract!Insert, Inserted
<1> QED
  BY <1>12, <1>13, <1>14, <1>15, <1>18 DEF HeapInv

LEMMA RemovedFromList ==
    ASSUME HeapInv, NEW pos \in Nat, pos < Len(listed), RemoveContainer(ListAt(pos), pos)
    PROVE  /\ HeapInv' /\ Abstract!Remove(pos + 1)
           /\ UNCHANGED <<DataOf(queued), DataOf(stacked), alive, freed>>
<1>a. PICK L : L = Len(listed)
  OBVIOUS
<1>0. /\ L = Len(listed) /\ L \in Nat /\ size = L
      /\ listed \in Seq(Nodes) /\ DOMAIN listed = 1..L /\ NoRepeats(listed)
      /\ node \in [Nodes \cup {First} -> Container] /\ allocated \subseteq Nodes
      /\ \A k \in 0..L : node[ListAt(k)].next = ListAt(k + 1)
      /\ enumerator \in ListNodes \cup {First, NULL}
      /\ pos \in 0..(L - 1)
  BY <1>a DEF HeapInv, HeapType, ListShape
<1>b. PICK K : K = pos + 1
  OBVIOUS
<1>1. K = pos + 1 /\ K \in 1..L /\ K - 1 = pos /\ K + 1 = pos + 2
  BY <1>0, <1>b
<1>2. /\ \A k \in 1..L : ListAt(k) = listed[k] /\ ListAt(k) \in ListNodes
      /\ ListAt(0) = First /\ ListAt(L + 1) = NULL
      /\ \A j, k \in 0..(L + 1) : ListAt(j) = ListAt(k) => j = k
      /\ ListNodes \subseteq Nodes
  BY <1>0, ListPlaces
<1>3. PICK prev, gone : prev = ListAt(pos) /\ gone = node[prev].next
  OBVIOUS
<1>4. /\ gone = ListAt(K) /\ gone = listed[K] /\ gone \in ListNodes /\ gone \in Nodes
      /\ prev \in Nodes \cup {First} /\ prev # gone /\ (prev = First \/ prev \in ListNodes)
      /\ node[gone].next = ListAt(K + 1) /\ ListAt(K + 1) \in Nodes \cup {NULL}
  <2>1. /\ pos \in 0..L /\ K \in 0..L /\ pos \in 0..(L + 1) /\ K \in 0..(L + 1) /\ pos # K
        /\ (pos = 0 \/ pos \in 1..L) /\ (K + 1 = L + 1 \/ K + 1 \in 1..L)
    BY <1>0, <1>1
  <2>2. gone = ListAt(K)
    BY <1>0, <1>1, <1>3, <2>1
  <2>3. gone = listed[K] /\ gone \in ListNodes /\ gone \in Nodes
    BY <1>1, <1>2, <2>2
  <2>4. prev \in Nodes \cup {First} /\ prev # gone /\ (prev = First \/ prev \in ListNodes)
    BY <1>2, <1>3, <2>1, <2>2
  <2>5. node[gone].next = ListAt(K + 1) /\ ListAt(K + 1) \in Nodes \cup {NULL}
    BY <1>0, <1>2, <2>1, <2>2
  <2> QED
    BY <2>2, <2>3, <2>4, <2>5
<1>5. /\ gone # enumerator
      /\ node' = [node EXCEPT ![prev].next = node[gone].next, ![gone] = Empty]
      /\ allocated' = allocated \ {gone}
      /\ result' = node[gone].data
      /\ size' = L - 1
      /\ listed' = Removed(listed, K)
      /\ UNCHANGED <<queue, stack, enumerator, alive, freed, queued, stacked>>
  BY <1>0, <1>1, <1>3 DEF RemoveContainer, Removed
<1>6. /\ node' \in [Nodes \cup {First} -> Container]
      /\ node'[prev].next = ListAt(K + 1) /\ node'[prev].data = node[prev].data
      /\ \A m \in Nodes \cup {First} : m # gone /\ m # prev => node'[m] = node[m]
  <2>1. PICK old, next : old = node[prev] /\ next = ListAt(K + 1)
    OBVIOUS
  <2>2. old \in Container /\ next \in Nodes \cup {NULL}
    BY <1>0, <1>4, <2>1
  <2>3. /\ [old EXCEPT !.next = next] \in Container
        /\ [old EXCEPT !.next = next].next = next /\ [old EXCEPT !.next = next].data = old.data
    BY <2>2 DEF Container
  <2>4. /\ node'[prev] = [old EXCEPT !.next = next] /\ node'[gone] = Empty
        /\ \A m \in Nodes \cup {First} : m # gone /\ m # prev => node'[m] = node[m]
        /\ DOMAIN node' = Nodes \cup {First} /\ node' = [m \in Nodes \cup {First} |-> node'[m]]
    BY <1>0, <1>4, <1>5, <2>1
  <2>5. \A m \in Nodes \cup {First} : node'[m] \in Container
    BY <1>0, <2>3, <2>4, EmptyIs
  <2>6. node' \in [Nodes \cup {First} -> Container]
    BY <2>4, <2>5
  <2> QED
    BY <2>1, <2>3, <2>4, <2>6
<1>7. /\ listed' \in Seq(Nodes) /\ Len(listed') = L - 1
      /\ \A k \in 1..(L - 1) : listed'[k] = IF k < K THEN listed[k] ELSE listed[k + 1]
      /\ NoRepeats(listed') /\ NodesIn(listed') = NodesIn(listed) \ {gone}
  <2>1. PICK s : s = listed
    OBVIOUS
  <2>2. s \in Seq(Nodes) /\ K \in 1..Len(s) /\ NoRepeats(s)
    BY <1>0, <1>1, <2>1
  <2>3. /\ Removed(s, K) \in Seq(Nodes) /\ Len(Removed(s, K)) = Len(s) - 1
        /\ \A j \in 1..(Len(s) - 1) : Removed(s, K)[j] = IF j < K THEN s[j] ELSE s[j + 1]
    BY <2>2, RemovedIs
  <2>4. NoRepeats(Removed(s, K)) /\ NodesIn(Removed(s, K)) = NodesIn(s) \ {s[K]}
    BY <2>2, RemovedNodes
  <2> QED
    BY <1>0, <1>4, <1>5, <2>1, <2>3, <2>4
<1>8. /\ \A k \in 0..pos : ListAt(k)' = ListAt(k)
      /\ \A k \in K..L : ListAt(k)' = ListAt(k + 1)
  <2>1. ListAt(0)' = ListAt(0)
    BY <1>0 DEF ListAt
  <2>2. ASSUME NEW k \in 1..pos PROVE ListAt(k)' = ListAt(k)
    <3>1. k \in 1..(L - 1) /\ k < K /\ k # 0 /\ k # L + 1 /\ k # L
      BY <1>0, <1>1
    <3>2. listed'[k] = listed[k] /\ k # Len(listed) + 1 /\ k # Len(listed') + 1
      BY <1>0, <1>7, <3>1
    <3> QED
      BY <3>1, <3>2 DEF ListAt
  <2>3. \A k \in K..(L - 1) : ListAt(k)' = ListAt(k + 1)
    BY <1>0, <1>1, <1>7 DEF ListAt
  <2>4. ListAt(L)' = NULL
    BY <1>0, <1>1, <1>7 DEF ListAt
  <2>5. \A k \in 0..pos : k = 0 \/ k \in 1..pos
    BY <1>0
  <2>6. \A k \in K..L : k \in K..(L - 1) \/ k = L
    BY <1>0, <1>1
  <2> QED
    BY <1>2, <2>1, <2>2, <2>3, <2>4, <2>5, <2>6
<1>9. ASSUME NEW k \in 0..(L - 1) PROVE node'[ListAt(k)'].next = ListAt(k + 1)'
  <2>1. CASE k < pos
    <3>1. /\ k \in 0..pos /\ k + 1 \in 0..pos /\ k \in 0..L /\ k \in 0..(L + 1) /\ pos \in 0..(L + 1)
          /\ K \in 0..(L + 1) /\ k # pos /\ k # K /\ (k = 0 \/ k \in 1..L)
      BY <1>0, <1>1, <2>1
    <3>2. ListAt(k) # prev /\ ListAt(k) # gone /\ ListAt(k) \in Nodes \cup {First}
      BY <1>2, <1>3, <1>4, <3>1
    <3> QED
      BY <1>0, <1>6, <1>8, <3>1, <3>2
  <2>2. CASE k = pos
    <3>1. pos \in 0..pos /\ k + 1 = K /\ K \in K..L
      BY <1>0, <1>1, <2>2
    <3>2. ListAt(k)' = prev /\ ListAt(k + 1)' = ListAt(K + 1)
      BY <1>3, <1>8, <2>2, <3>1
    <3> QED
      BY <1>6, <3>2
  <2>3. CASE k > pos
    <3>1. /\ k \in K..L /\ k + 1 \in K..L /\ k + 1 \in 1..L /\ k + 1 \in 0..L
          /\ k + 1 \in 0..(L + 1) /\ K \in 0..(L + 1) /\ pos \in 0..(L + 1) /\ k + 1 # K /\ k + 1 # pos
      BY <1>0, <1>1, <2>3
    <3>2. ListAt(k)' = ListAt(k + 1) /\ ListAt(k + 1)' = ListAt(k + 1 + 1)
      BY <1>8, <3>1
    <3>3. ListAt(k + 1) # prev /\ ListAt(k + 1) # gone /\ ListAt(k + 1) \in Nodes
      BY <1>2, <1>3, <1>4, <3>1
    <3>4. node'[ListAt(k + 1)] = node[ListAt(k + 1)] /\ node[ListAt(k + 1)].next = ListAt(k + 1 + 1)
      BY <1>0, <1>6, <3>1, <3>3
    <3> QED
      BY <3>2, <3>4
  <2>4. k < pos \/ k = pos \/ k > pos
    BY <1>0
  <2> QED
    BY <2>1, <2>2, <2>3, <2>4, Zenon
<1>10. ListNodes' = ListNodes \ {gone}
  BY <1>7 DEF ListNodes, NodesIn
<1>11. ListShape'
  <2>1. 0..Len(listed') = 0..(L - 1) /\ size' = Len(listed')
    BY <1>5, <1>7
  <2>2. enumerator' \in ListNodes' \cup {First, NULL}
    BY <1>0, <1>5, <1>10
  <2>3. NoRepeats(listed)'
    BY <1>7 DEF NoRepeats
  <2> QED
    BY <1>9, <2>1, <2>2, <2>3 DEF ListShape
<1>12. /\ QueueShape' /\ QueueNodes' = QueueNodes /\ DataOf(queued)' = DataOf(queued)
       /\ StackShape' /\ StackNodes' = StackNodes /\ DataOf(stacked)' = DataOf(stacked)
  <2>1. \A m \in QueueNodes \cup StackNodes : m \in Nodes /\ m # gone /\ m # prev
    BY <1>0, <1>4, LinkedContainersAssumption DEF HeapInv, Separate
  <2>2. \A m \in QueueNodes \cup StackNodes : node'[m] = node[m]
    BY <1>6, <2>1
  <2>3. Alive("queue")' <=> Alive("queue")
    BY <1>5 DEF Alive
  <2> QED
    BY <1>5, <2>2, <2>3, ListAlone
<1>13. Separate'
  BY <1>4, <1>5, <1>10, <1>12 DEF HeapInv, Separate
<1>14. HeapType'
  <2>1. allocated' \subseteq Nodes /\ size' \in Nat
    BY <1>0, <1>5
  <2> QED
    BY <1>5, <1>6, <1>7, <2>1 DEF HeapInv, HeapType
<1>15. /\ DataOf(listed)' = Removed(DataOf(listed), K) /\ Len(DataOf(listed)) = L
       /\ DOMAIN DataOf(listed) = 1..L
       /\ DataOf(listed)[K] = node[gone].data
  <2>1. PICK h, g, s : h = node /\ g = node' /\ s = listed
    OBVIOUS
  <2>2. /\ h \in [Nodes \cup {First} -> Container] /\ g \in [Nodes \cup {First} -> Container]
        /\ s \in Seq(Nodes) /\ K \in 1..Len(s)
        /\ \A k \in 1..Len(s) : k # K => g[s[k]].data = h[s[k]].data
    <3>1. \A k \in 1..Len(s) : k # K => s[k] \in Nodes /\ s[k] # gone
      BY <1>0, <1>1, <1>4, <2>1 DEF NoRepeats
    <3>2. \A m \in Nodes : m # gone => node'[m].data = node[m].data
      BY <1>6
    <3> QED
      BY <1>0, <1>1, <1>6, <2>1, <3>1, <3>2
  <2>3. Held(g, Removed(s, K)) = Removed(Held(h, s), K)
    BY <2>2, HeldRemoved
  <2>4. Len(Held(h, s)) = Len(s) /\ Held(h, s)[K] = h[s[K]].data
    BY <2>2, HeldIs
  <2>5. DOMAIN Held(h, s) = DOMAIN s
    BY DEF Held
  <2> QED
    BY <1>0, <1>4, <1>5, <2>1, <2>3, <2>4, <2>5, DataIsHeld
<1>16. /\ K # Cursor
       /\ Cursor' = IF K < Cursor THEN Cursor - 1 ELSE Cursor
  <2>1. PICK e, s, t : e = enumerator /\ s = listed /\ t = listed'
    OBVIOUS
  <2>2. /\ PlaceOf(NULL, s) = -1 /\ PlaceOf(First, s) = 0
        /\ \A k \in 1..Len(s) : PlaceOf(s[k], s) = k
    BY <1>0, <2>1, PlaceIs
  <2>3. /\ PlaceOf(NULL, t) = -1 /\ PlaceOf(First, t) = 0
        /\ \A k \in 1..Len(t) : PlaceOf(t[k], t) = k
    BY <1>7, <2>1, PlaceIs
  <2>4. Cursor = PlaceOf(e, s) /\ Cursor' = PlaceOf(e, t)
    BY <1>5, <2>1, CursorIsPlace
  <2>5. CASE e = NULL \/ e = First
    BY <1>0, <1>1, <2>2, <2>3, <2>4, <2>5
  <2>6. CASE e \in ListNodes
    <3>1. PICK k \in 1..L : e = s[k]
      BY <1>0, <2>1, <2>6 DEF ListNodes, NodesIn
    <3>2. Cursor = k
      BY <1>0, <2>1, <2>2, <2>4, <3>1
    <3>3. k # K
      BY <1>4, <1>5, <2>1, <3>1
    <3>4. CASE k < K
      <4>1. k \in 1..(L - 1) /\ t[k] = e
        BY <1>0, <1>1, <1>7, <2>1, <3>1, <3>4
      <4>2. Cursor' = k
        BY <1>7, <2>1, <2>3, <2>4, <4>1
      <4> QED
        BY <1>1, <3>2, <3>4, <4>2
    <3>5. CASE k > K
      <4>1. PICK j : j = k - 1
        OBVIOUS
      <4>2. j \in 1..(L - 1) /\ ~(j < K) /\ j + 1 = k
        BY <1>0, <1>1, <3>5, <4>1
      <4>3. t[j] = e
        BY <1>7, <2>1, <3>1, <4>2
      <4>4. Cursor' = j
        BY <1>7, <2>1, <2>3, <2>4, <4>2, <4>3
      <4> QED
        BY <1>1, <3>2, <3>5, <4>1, <4>4
    <3>6. k < K \/ k > K
      BY <1>1, <3>3
    <3> QED
      BY <3>4, <3>5, <3>6, Zenon
  <2>7. e \in ListNodes \/ e = First \/ e = NULL
    BY <1>0, <2>1
  <2> QED
    BY <2>5, <2>6, <2>7, Zenon
<1>17. Abstract!Remove(K)
  BY <1>1, <1>5, <1>15, <1>16 DEF Abstract!Remove, Removed
<1>18. Abstract!Remove(pos + 1)
  BY <1>1, <1>17
<1> QED
  BY <1>5, <1>11, <1>12, <1>13, <1>14, <1>18 DEF HeapInv

\* A step that changes no container.
LEMMA SameHeap ==
    ASSUME HeapInv, UNCHANGED <<node, allocated, queue, stack, size, alive, historyVars>>,
           enumerator' \in ListNodes \cup {First, NULL}
    PROVE  /\ HeapInv'
           /\ UNCHANGED <<DataOf(queued), DataOf(stacked), DataOf(listed)>>
           /\ enumerator' = enumerator => Cursor' = Cursor
<1>1. Alive("queue")' <=> Alive("queue")
  BY DEF Alive
<1>2. /\ QueueShape' /\ QueueNodes' = QueueNodes /\ DataOf(queued)' = DataOf(queued)
  BY <1>1, QueueKept DEF historyVars
<1>3. StackShape' /\ StackNodes' = StackNodes /\ DataOf(stacked)' = DataOf(stacked)
  BY StackKept DEF historyVars
<1>4. /\ ListShape' /\ ListNodes' = ListNodes /\ DataOf(listed)' = DataOf(listed)
      /\ enumerator' = enumerator => Cursor' = Cursor
  BY ListKept DEF historyVars
<1>5. HeapType'
  <2>1. enumerator' \in Nodes \cup {First, NULL}
    BY ListPlaces
  <2> QED
    BY <2>1 DEF HeapInv, HeapType, historyVars
<1>6. Separate'
  BY <1>2, <1>3, <1>4 DEF HeapInv, Separate
<1> QED
  BY <1>2, <1>3, <1>4, <1>5, <1>6 DEF HeapInv

LEMMA ListDestroyed ==
    ASSUME HeapInv, DestroySimpleList
    PROVE  HeapInv' /\ Abstract!Destroy("list")
<1>a. PICK L : L = Len(listed)
  OBVIOUS
<1>0. /\ L = Len(listed) /\ L \in Nat /\ Alive("list") /\ size = L
      /\ enumerator = NULL /\ DOMAIN listed = 1..L
      /\ node \in [Nodes \cup {First} -> Container] /\ allocated \subseteq Nodes
  BY <1>a DEF HeapInv, HeapType, ListShape, DestroySimpleList
<1>1. {After(First, k) : k \in 1..size} = ListNodes
  <2>1. \A k \in 1..L : After(First, k) = listed[k]
    <3>1. \A k \in 0..L : After(First, k) = ListAt(k)
      BY <1>0, Walks
    <3>2. \A k \in 1..L : ListAt(k) = listed[k] /\ k \in 0..L
      BY <1>0, ListPlaces
    <3> QED
      BY <3>1, <3>2
  <2>2. ListNodes = {listed[k] : k \in 1..L}
    BY <1>0 DEF ListNodes, NodesIn
  <2> QED
    BY <1>0, <2>1, <2>2
<1>2. /\ node' = Without(ListNodes \cup {First}) /\ allocated' = allocated \ ListNodes
      /\ freed' = freed \cup {node[n].data : n \in ListNodes}
      /\ alive' = alive \ {"list"}
      /\ size' = 0 /\ listed' = <<>>
      /\ UNCHANGED <<queue, stack, enumerator, result, queued, stacked>>
  BY <1>1 DEF DestroySimpleList
<1>3. /\ node' \in [Nodes \cup {First} -> Container]
      /\ node'[First] = Empty
      /\ \A m \in Nodes : m \notin ListNodes => node'[m] = node[m]
  BY <1>0, <1>2, EmptyIs, LinkedContainersAssumption DEF Without
<1>4. /\ QueueShape' /\ QueueNodes' = QueueNodes /\ DataOf(queued)' = DataOf(queued)
      /\ StackShape' /\ StackNodes' = StackNodes /\ DataOf(stacked)' = DataOf(stacked)
  <2>1. \A m \in QueueNodes \cup StackNodes : m \in Nodes /\ m \notin ListNodes
    BY <1>0 DEF HeapInv, Separate
  <2>2. \A m \in QueueNodes \cup StackNodes : node'[m] = node[m]
    BY <1>3, <2>1
  <2>3. Alive("queue")' <=> Alive("queue")
    BY <1>2 DEF Alive
  <2> QED
    BY <1>2, <2>2, <2>3, ListAlone
<1>5. /\ listed' \in Seq(Nodes) /\ Len(listed') = 0 /\ DOMAIN listed' = {} /\ size' \in Nat
      /\ ListAt(0)' = First /\ ListAt(1)' = NULL
  BY <1>2 DEF ListAt
<1>6. ListShape' /\ ListNodes' = {}
  <2>1. ListNodes' = {}
    BY <1>5 DEF ListNodes, NodesIn
  <2>2. NoRepeats(listed)'
    BY <1>5 DEF NoRepeats
  <2>3. \A k \in 0..Len(listed') : k = 0 /\ k + 1 = 1
    BY <1>5
  <2>4. \A k \in 0..Len(listed') : node'[ListAt(k)'].next = ListAt(k + 1)'
    BY <1>3, <1>5, <2>3, EmptyIs
  <2>5. size' = Len(listed') /\ enumerator' = NULL
    BY <1>0, <1>2, <1>5
  <2> QED
    BY <2>1, <2>2, <2>4, <2>5 DEF ListShape
<1>7. Separate'
  BY <1>2, <1>4, <1>6 DEF HeapInv, Separate
<1>8. HeapType'
  BY <1>0, <1>2, <1>3, <1>5 DEF HeapInv, HeapType
<1>9. DataOf(listed)' = <<>>
  <2>1. DataOf(listed)' \in [1..0 -> Data] /\ 1..0 = {}
    BY <1>5 DEF DataOf
  <2>2. Len(DataOf(listed)') = 0 /\ DataOf(listed)' \in Seq(Data)
    BY <2>1
  <2> QED
    BY <2>2, EmptySeq
<1>10. Cursor = -1 /\ Cursor' = -1
  BY <1>0, <1>2 DEF Cursor
<1>11. {node[n].data : n \in ListNodes} = Abstract!Elements(DataOf(listed))
  BY DEF Abstract!Elements, DataOf, ListNodes, NodesIn
<1>12. Abstract!Destroy("list")
  BY <1>0, <1>2, <1>4, <1>9, <1>10, <1>11
     DEF Abstract!Destroy, Abstract!Alive, Abstract!NoEnumerator, Alive
<1> QED
  BY <1>4, <1>6, <1>7, <1>8, <1>12 DEF HeapInv

\* What the list holds, at each of its places.
LEMMA DataInList ==
    ASSUME HeapInv
    PROVE  /\ Len(DataOf(listed)) = Len(listed) /\ DOMAIN DataOf(listed) = 1..Len(listed)
           /\ \A k \in 1..Len(listed) : DataOf(listed)[k] = node[ListAt(k)].data
<1>1. Len(listed) \in Nat /\ DOMAIN listed = 1..Len(listed)
  BY DEF HeapInv, HeapType
<1>2. DOMAIN DataOf(listed) = 1..Len(listed)
  BY <1>1 DEF DataOf
<1>3. \A k \in 1..Len(listed) : DataOf(listed)[k] = node[listed[k]].data
  BY <1>1 DEF DataOf
<1>4. \A k \in 1..Len(listed) : ListAt(k) = listed[k]
  BY ListPlaces
<1>5. Len(DataOf(listed)) = Len(listed)
  <2>1. PICK h, s : h = node /\ s = listed
    OBVIOUS
  <2>2. DataOf(listed) = [k \in 1..Len(s) |-> h[s[k]].data] /\ Len(s) \in Nat
    BY <1>1, <2>1 DEF DataOf
  <2> QED
    BY <2>1, <2>2
<1> QED
  BY <1>2, <1>3, <1>4, <1>5

LEMMA RemovedAtPosition ==
    ASSUME HeapInv, NEW pos \in 0..size, RemoveListElement(pos)
    PROVE  HeapInv' /\ Abstract!RemoveAt(pos)
<1>1. size = Len(listed) /\ size \in Nat /\ pos \in Nat /\ Alive("list")
  BY DEF HeapInv, HeapType, ListShape, RemoveListElement
<1>2. Abstract!Alive("list")
  BY <1>1 DEF Abstract!Alive, Alive
<1>3. CASE pos >= size /\ NothingRemoved
  <2>1. /\ HeapInv' /\ UNCHANGED <<DataOf(queued), DataOf(stacked), DataOf(listed)>>
        /\ Cursor' = Cursor
    BY <1>3, SameHeap DEF NothingRemoved, structVars, HeapInv, ListShape
  <2>2. pos >= Len(DataOf(listed)) /\ Abstract!NotFound
    BY <1>1, <1>3, <2>1, DataInList DEF Abstract!NotFound, NothingRemoved
  <2> QED
    BY <1>1, <1>2, <1>3, <2>1, <2>2 DEF Abstract!RemoveAt, NothingRemoved
<1>4. CASE pos < size /\ RemoveContainer(GetContainer(pos - 1), pos)
  <2>1. pos - 1 \in -1..Len(listed) /\ pos - 1 < Len(listed) /\ pos - 1 + 1 = pos
    BY <1>1
  <2>2. GetContainer(pos - 1) = ListAt(pos)
    BY <2>1, Walks
  <2>3. RemoveContainer(ListAt(pos), pos)
    BY <1>4, <2>2
  <2>4. /\ HeapInv' /\ Abstract!Remove(pos + 1)
        /\ UNCHANGED <<DataOf(queued), DataOf(stacked), alive, freed>>
    BY <1>1, <1>4, <2>3, RemovedFromList
  <2> QED
    BY <1>1, <1>2, <2>4 DEF Abstract!RemoveAt
<1> QED
  BY <1>3, <1>4 DEF RemoveListElement

LEMMA RemovedWithData ==
    ASSUME HeapInv, NEW d \in Data, RemoveListElementByData(d)
    PROVE  HeapInv' /\ Abstract!RemoveData(d)
<1>a. PICK L : L = Len(listed)
  OBVIOUS
<1>1. /\ L = Len(listed) /\ size = L /\ L \in Nat /\ Alive("list")
  BY <1>a DEF HeapInv, HeapType, ListShape, RemoveListElementByData
<1>2. Abstract!Alive("list")
  BY <1>1 DEF Abstract!Alive, Alive
<1>3. PICK found : found = {k \in 0..(size - 1) : node[After(First, k + 1)].data = d}
  OBVIOUS
<1>4. /\ Len(DataOf(listed)) = L /\ DOMAIN DataOf(listed) = 1..L
      /\ \A k \in 1..L : DataOf(listed)[k] = node[ListAt(k)].data
  BY <1>1, DataInList
<1>5. \A k \in 0..L : After(First, k) = ListAt(k)
  BY <1>1, Walks
<1>6. \A k \in 0..(L - 1) : k \in found <=> DataOf(listed)[k + 1] = d
  <2>1. \A k \in 0..(L - 1) : k + 1 \in 1..L /\ k + 1 \in 0..L
    BY <1>1
  <2> QED
    BY <1>1, <1>3, <1>4, <1>5, <2>1
<1>7. CASE found = {} /\ NothingRemoved
  <2>1. /\ HeapInv' /\ UNCHANGED <<DataOf(queued), DataOf(stacked), DataOf(listed)>>
        /\ Cursor' = Cursor
    BY <1>7, SameHeap DEF NothingRemoved, structVars, HeapInv, ListShape
  <2>2. \A k \in 1..L : DataOf(listed)[k] # d
    <3>1. \A k \in 1..L : k - 1 \in 0..(L - 1) /\ k - 1 + 1 = k
      BY <1>1
    <3> QED
      BY <1>6, <1>7, <3>1
  <2>3. d \notin Abstract!Elements(DataOf(listed)) /\ Abstract!NotFound
    BY <1>4, <1>7, <2>1, <2>2 DEF Abstract!Elements, Abstract!NotFound, NothingRemoved
  <2> QED
    BY <1>2, <1>7, <2>1, <2>3 DEF Abstract!RemoveData, NothingRemoved
<1>8. ASSUME NEW k \in found, \A j \in found : k <= j, RemoveContainer(After(First, k), k)
      PROVE  HeapInv' /\ Abstract!RemoveData(d)
  <2>1. k \in 0..(L - 1) /\ k \in Nat /\ k \in 0..L /\ k < L
    BY <1>1, <1>3
  <2>2. RemoveContainer(ListAt(k), k)
    BY <1>5, <1>8, <2>1
  <2>3. /\ HeapInv' /\ Abstract!Remove(k + 1)
        /\ UNCHANGED <<DataOf(queued), DataOf(stacked), alive, freed>>
    BY <1>1, <2>1, <2>2, RemovedFromList
  <2>4. PICK K : K = k + 1
    OBVIOUS
  <2>5. K \in DOMAIN DataOf(listed) /\ DataOf(listed)[K] = d
    BY <1>1, <1>4, <1>6, <2>1, <2>4
  <2>6. \A j \in 1..(K - 1) : DataOf(listed)[j] # d
    <3>1. \A j \in 1..(K - 1) : j - 1 \in 0..(L - 1) /\ j - 1 + 1 = j /\ ~(k <= j - 1)
      BY <1>1, <2>1, <2>4
    <3> QED
      BY <1>6, <1>8, <3>1
  <2>7. Abstract!Remove(K)
    BY <2>3, <2>4
  <2> QED
    BY <1>2, <2>3, <2>5, <2>6, <2>7 DEF Abstract!RemoveData
<1> QED
  BY <1>3, <1>7, <1>8 DEF RemoveListElementByData

LEMMA Got ==
    ASSUME HeapInv, NEW pos \in 0..size, GetListElement(pos)
    PROVE  HeapInv' /\ Abstract!Get(pos)
<1>1. /\ size = Len(listed) /\ size \in Nat /\ Alive("list")
      /\ NULL \notin Nodes \cup {First}
  BY LinkedContainersAssumption DEF HeapInv, HeapType, ListShape, GetListElement
<1>2. Abstract!Alive("list")
  BY <1>1 DEF Abstract!Alive, Alive
<1>3. pos < Len(listed) /\ GetContainer(pos) = ListAt(pos + 1)
  <2>1. pos \in -1..Len(listed) /\ GetContainer(pos) # NULL
    BY <1>1 DEF GetListElement
  <2> QED
    BY <1>1, <2>1, Walks
<1>4. pos + 1 \in 1..Len(listed)
  BY <1>1, <1>3
<1>5. /\ HeapInv' /\ UNCHANGED <<DataOf(queued), DataOf(stacked), DataOf(listed)>>
      /\ Cursor' = Cursor
  BY SameHeap DEF GetListElement, structVars, HeapInv, ListShape
<1>6. result' = DataOf(listed)[pos + 1] /\ pos + 1 \in DOMAIN DataOf(listed)
  BY <1>3, <1>4, DataInList DEF GetListElement
<1> QED
  BY <1>2, <1>5, <1>6 DEF Abstract!Get, GetListElement

LEMMA EmptyPulled ==
    ASSUME HeapInv
    PROVE  /\ QueuePullEmpty => HeapInv' /\ Abstract!QueuePull
           /\ PullStackEmpty => HeapInv' /\ Abstract!StackPull
<1>1. /\ queue.length = Len(queued) /\ Len(queued) \in Nat /\ queued \in Seq(Nodes)
      /\ stack.elements_left = Len(stacked) /\ Len(stacked) \in Nat /\ stacked \in Seq(Nodes)
      /\ enumerator \in ListNodes \cup {First, NULL}
      /\ node \in [Nodes \cup {First} -> Container]
  BY DEF HeapInv, HeapType, QueueShape, StackShape, ListShape
<1>2. ASSUME QueuePullEmpty PROVE HeapInv' /\ Abstract!QueuePull
  <2>1. /\ HeapInv' /\ UNCHANGED <<DataOf(queued), DataOf(stacked), DataOf(listed)>>
        /\ Cursor' = Cursor
    BY <1>1, <1>2, SameHeap DEF QueuePullEmpty, structVars
  <2>2. DataOf(queued) = <<>>
    <3>1. Len(queued) = 0
      BY <1>1, <1>2 DEF QueuePullEmpty
    <3>2. PICK h, s : h = node /\ s = queued
      OBVIOUS
    <3>3. h \in [Nodes \cup {First} -> Container] /\ s \in Seq(Nodes) /\ Len(s) = 0
      BY <1>1, <3>1, <3>2
    <3>4. Held(h, s) \in Seq(Data \cup {NULL}) /\ Len(Held(h, s)) = 0
      BY <3>3, HeldIs
    <3>5. Held(h, s) = <<>>
      BY <3>4, EmptySeq
    <3> QED
      BY <3>2, <3>5, DataIsHeld
  <2>3. DataOf(queued)' = Abstract!RestOf(DataOf(queued)) /\ result' = Abstract!FirstOf(DataOf(queued))
    BY <1>2, <2>1, <2>2 DEF Abstract!RestOf, Abstract!FirstOf, QueuePullEmpty
  <2> QED
    BY <1>2, <2>1, <2>3 DEF Abstract!QueuePull, Abstract!Alive, Alive, QueuePullEmpty
<1>3. ASSUME PullStackEmpty PROVE HeapInv' /\ Abstract!StackPull
  <2>1. /\ HeapInv' /\ UNCHANGED <<DataOf(queued), DataOf(stacked), DataOf(listed)>>
        /\ Cursor' = Cursor
    BY <1>1, <1>3, SameHeap DEF PullStackEmpty, structVars
  <2>2. DataOf(stacked) = <<>>
    <3>1. Len(stacked) = 0
      BY <1>1, <1>3 DEF PullStackEmpty
    <3>2. PICK h, s : h = node /\ s = stacked
      OBVIOUS
    <3>3. h \in [Nodes \cup {First} -> Container] /\ s \in Seq(Nodes) /\ Len(s) = 0
      BY <1>1, <3>1, <3>2
    <3>4. Held(h, s) \in Seq(Data \cup {NULL}) /\ Len(Held(h, s)) = 0
      BY <3>3, HeldIs
    <3>5. Held(h, s) = <<>>
      BY <3>4, EmptySeq
    <3> QED
      BY <3>2, <3>5, DataIsHeld
  <2>3. DataOf(stacked)' = Abstract!RestOf(DataOf(stacked)) /\ result' = Abstract!FirstOf(DataOf(stacked))
    BY <1>3, <2>1, <2>2 DEF Abstract!RestOf, Abstract!FirstOf, PullStackEmpty
  <2> QED
    BY <1>3, <2>1, <2>3 DEF Abstract!StackPull, Abstract!Alive, Alive, PullStackEmpty
<1> QED
  BY <1>2, <1>3

\* The calls of the enumerator.
LEMMA Enumerating ==
    ASSUME HeapInv
    PROVE  /\ GetEnumerator => HeapInv' /\ Abstract!Enumerate
           /\ GetNextElement => HeapInv' /\ Abstract!NextElement
           /\ FreeEnumerator => HeapInv' /\ Abstract!Enumerated
<1>a. PICK L : L = Len(listed)
  OBVIOUS
<1>0. /\ L = Len(listed) /\ L \in Nat /\ listed \in Seq(Nodes) /\ NoRepeats(listed)
      /\ NULL \notin Nodes \cup {First}
      /\ \A k \in 0..L : node[ListAt(k)].next = ListAt(k + 1)
  BY <1>a, LinkedContainersAssumption DEF HeapInv, HeapType, ListShape
<1>1. /\ \A k \in 1..L : ListAt(k) = listed[k] /\ ListAt(k) \in ListNodes
      /\ ListAt(0) = First /\ ListAt(L + 1) = NULL
      /\ ListNodes \subseteq Nodes
      /\ Cursor \in -1..L
      /\ enumerator = NULL <=> Cursor = -1
      /\ Cursor # -1 => enumerator = ListAt(Cursor)
  BY <1>0, ListPlaces
<1>2. ASSUME GetEnumerator PROVE HeapInv' /\ Abstract!Enumerate
  <2>1. HeapInv' /\ UNCHANGED <<DataOf(queued), DataOf(stacked), DataOf(listed)>>
    BY <1>2, SameHeap DEF GetEnumerator
  <2>2. Cursor = -1 /\ Cursor' = 0
    BY <1>0, <1>2 DEF GetEnumerator, Cursor
  <2> QED
    BY <1>2, <2>1, <2>2
       DEF Abstract!Enumerate, Abstract!Alive, Abstract!NoEnumerator, Alive, GetEnumerator
<1>3. ASSUME FreeEnumerator PROVE HeapInv' /\ Abstract!Enumerated
  <2>1. HeapInv' /\ UNCHANGED <<DataOf(queued), DataOf(stacked), DataOf(listed)>>
    BY <1>3, SameHeap DEF FreeEnumerator
  <2>2. Cursor # -1 /\ Cursor' = -1
    BY <1>1, <1>3 DEF FreeEnumerator, Cursor
  <2> QED
    BY <1>3, <2>1, <2>2
       DEF Abstract!Enumerated, Abstract!NoEnumerator, FreeEnumerator
<1>4. ASSUME GetNextElement PROVE HeapInv' /\ Abstract!NextElement
  <2>1. PICK c : c = Cursor
    OBVIOUS
  <2>2. c \in 0..L /\ enumerator = ListAt(c) /\ c # -1
    BY <1>0, <1>1, <1>4, <2>1 DEF GetNextElement
  <2>3. PICK next : next = node[enumerator].next
    OBVIOUS
  <2>4. next = ListAt(c + 1)
    BY <1>0, <2>2, <2>3
  <2>5. /\ Len(DataOf(listed)) = L
        /\ \A k \in 1..L : DataOf(listed)[k] = node[ListAt(k)].data
    BY <1>0, DataInList
  <2>6. CASE c = L
    <3>1. next = NULL
      BY <1>1, <2>4, <2>6
    <3>2. enumerator' = enumerator /\ result' = NULL
      BY <1>4, <2>3, <3>1 DEF GetNextElement
    <3>3. /\ HeapInv' /\ UNCHANGED <<DataOf(queued), DataOf(stacked), DataOf(listed)>>
          /\ Cursor' = Cursor
      BY <1>4, <3>2, SameHeap DEF GetNextElement, HeapInv, ListShape
    <3> QED
      BY <1>4, <2>1, <2>2, <2>5, <2>6, <3>2, <3>3
         DEF Abstract!NextElement, Abstract!NoEnumerator, GetNextElement
  <2>7. CASE c < L
    <3>1. c + 1 \in 1..L
      BY <1>0, <2>2, <2>7
    <3>2. next = listed[c + 1] /\ next \in ListNodes /\ next # NULL
      BY <1>0, <1>1, <2>4, <3>1
    <3>3. enumerator' = next /\ result' = node[next].data
      BY <1>4, <2>3, <3>2 DEF GetNextElement
    <3>4. HeapInv' /\ UNCHANGED <<DataOf(queued), DataOf(stacked), DataOf(listed)>>
      BY <1>4, <3>2, <3>3, SameHeap DEF GetNextElement
    <3>5. Cursor' = c + 1
      <4>1. PICK s, k : s = listed /\ k = c + 1
        OBVIOUS
      <4>2. PlaceOf(s[k], s) = k
        BY <1>0, <3>1, <4>1, PlaceIs
      <4>3. Cursor' = PlaceOf(enumerator', listed') /\ listed' = s /\ enumerator' = s[k]
        BY <1>4, <3>2, <3>3, <4>1, CursorIsPlace DEF GetNextElement, historyVars
      <4> QED
        BY <4>1, <4>2, <4>3
    <3>6. result' = DataOf(listed)[c + 1]
      BY <2>4, <2>5, <3>1, <3>3
    <3> QED
      BY <1>4, <2>1, <2>2, <2>5, <2>7, <3>4, <3>5, <3>6
         DEF Abstract!NextElement, Abstract!NoEnumerator, GetNextElement
  <2>8. c = L \/ c < L
    BY <1>0, <2>2
  <2> QED
    BY <2>6, <2>7, <2>8, Zenon
<1> QED
  BY <1>2, <1>3, <1>4
-----------------------------------------------------------------------------
(* The invariant and the refinement. *)

LEMMA HeapInitially ==
    ASSUME Init
    PROVE  HeapInv /\ Abstract!Init
<1>1. PICK start, end \in Nodes :
        /\ start # end
        /\ node = [n \in Nodes \cup {First} |->
                      IF n = start THEN [Empty EXCEPT !.next = end]
                      ELSE IF n = end THEN [Empty EXCEPT !.previous = start]
                      ELSE Empty]
        /\ allocated = {start, end}
        /\ queue = [start |-> start, end |-> end, length |-> 0]
  BY DEF Init
<1>2. /\ stack = [next_node |-> NULL, elements_left |-> 0]
      /\ size = 0 /\ enumerator = NULL
      /\ alive = {"queue", "stack", "list"} /\ freed = {} /\ result = NULL
      /\ queued = <<>> /\ stacked = <<>> /\ listed = <<>>
  BY DEF Init
<1>3. start # First /\ end # First /\ First # NULL
  BY LinkedContainersAssumption
<1>4. /\ [Empty EXCEPT !.next = end] \in Container /\ [Empty EXCEPT !.next = end].next = end
      /\ [Empty EXCEPT !.previous = start] \in Container
      /\ [Empty EXCEPT !.previous = start].previous = start
  BY EmptyIs, Fields
<1>5. /\ node[start].next = end /\ node[end].previous = start /\ node[First].next = NULL
      /\ node \in [Nodes \cup {First} -> Container]
  BY <1>1, <1>3, <1>4, EmptyIs
<1>6. HeapType
  BY <1>1, <1>2, <1>5 DEF HeapType
<1>7. Len(queued) = 0 /\ Len(stacked) = 0 /\ Len(listed) = 0
      /\ NodesIn(queued) = {} /\ NodesIn(stacked) = {} /\ NodesIn(listed) = {}
      /\ NoRepeats(queued) /\ NoRepeats(stacked) /\ NoRepeats(listed)
  BY <1>2 DEF NodesIn, NoRepeats
<1>8. QueueShape
  <2>1. QueueAt(0) = end /\ QueueAt(1) = start
    BY <1>1, <1>7 DEF QueueAt
  <2>2. \A k \in 0..Len(queued) : k = 0 /\ k + 1 = 1
    BY <1>7
  <2>3. \A k \in 0..Len(queued) :
            node[QueueAt(k + 1)].next = QueueAt(k) /\ node[QueueAt(k)].previous = QueueAt(k + 1)
    BY <1>5, <2>1, <2>2
  <2> QED
    BY <1>1, <1>7, <2>3 DEF QueueShape
<1>9. StackShape
  BY <1>2, <1>7 DEF StackShape, StackAt
<1>10. ListShape
  <2>1. ListAt(0) = First /\ ListAt(1) = NULL
    BY <1>7 DEF ListAt
  <2>2. \A k \in 0..Len(listed) : k = 0 /\ k + 1 = 1
    BY <1>7
  <2>3. \A k \in 0..Len(listed) : node[ListAt(k)].next = ListAt(k + 1)
    BY <1>5, <2>1, <2>2
  <2> QED
    BY <1>2, <1>7, <2>3 DEF ListShape
<1>11. Separate
  BY <1>1, <1>2, <1>7 DEF Separate, QueueNodes, StackNodes, ListNodes, Alive
<1>12. DataOf(queued) = <<>> /\ DataOf(stacked) = <<>> /\ DataOf(listed) = <<>>
  <2>1. DataOf(<<>>) \in [1..0 -> Data] /\ 1..0 = {}
    BY DEF DataOf
  <2>2. Len(DataOf(<<>>)) = 0 /\ DataOf(<<>>) \in Seq(Data)
    BY <2>1
  <2>3. DataOf(<<>>) = <<>>
    BY <2>2, EmptySeq
  <2> QED
    BY <1>2, <2>3
<1>13. Cursor = -1
  BY <1>2 DEF Cursor
<1>14. Abstract!Init
  BY <1>2, <1>12, <1>13 DEF Abstract!Init, Abstract!Kinds, Abstract!NoEnumerator
<1> QED
  BY <1>6, <1>8, <1>9, <1>10, <1>11, <1>14 DEF HeapInv

LEMMA HeapStep ==
    ASSUME HeapInv, [Next]_vars
    PROVE  HeapInv' /\ [Abstract!Next]_(Abstract!vars)
<1>1. size \in Nat /\ Len(DataOf(listed)) = size
  BY DataInList DEF HeapInv, HeapType, ListShape
<1>2. CASE \E n \in Nodes, d \in Data : QueuePutData(n, d)
  BY <1>2, PutInQueue DEF Abstract!Next
<1>3. CASE \E n \in Nodes, d \in Data : PutStackElement(n, d)
  BY <1>3, PutInStack DEF Abstract!Next
<1>4. CASE \E n \in Nodes, d \in Data : \E pos \in 0..size : InsertListElement(n, pos, d)
  BY <1>1, <1>4, InsertedInList DEF Abstract!Next
<1>5. CASE QueuePullEmpty \/ PullStackEmpty
  BY <1>5, EmptyPulled DEF Abstract!Next
<1>6. CASE QueuePullData
  BY <1>6, PulledFromQueue DEF Abstract!Next
<1>7. CASE PullStackElement
  BY <1>7, PulledFromStack DEF Abstract!Next
<1>8. CASE \E pos \in 0..size : RemoveListElement(pos)
  BY <1>1, <1>8, RemovedAtPosition DEF Abstract!Next
<1>9. CASE \E pos \in 0..size : GetListElement(pos)
  BY <1>1, <1>9, Got DEF Abstract!Next
<1>10. CASE \E d \in Data : RemoveListElementByData(d)
  BY <1>10, RemovedWithData DEF Abstract!Next
<1>11. CASE GetEnumerator \/ GetNextElement \/ FreeEnumerator
  BY <1>11, Enumerating DEF Abstract!Next
<1>12. CASE DestroyQueue \/ DestroyStack \/ DestroySimpleList
  BY <1>12, QueueDestroyed, StackDestroyed, ListDestroyed DEF Abstract!Next, Abstract!Kinds
<1>13. CASE Finished \/ UNCHANGED vars
  <2>1. /\ UNCHANGED <<node, allocated, queue, stack, size, enumerator, alive, freed, result>>
        /\ UNCHANGED historyVars
    BY <1>13 DEF Finished, vars, structVars
  <2>2. /\ HeapInv' /\ UNCHANGED <<DataOf(queued), DataOf(stacked), DataOf(listed)>>
        /\ Cursor' = Cursor
    BY <2>1, SameHeap DEF HeapInv, ListShape
  <2>3. UNCHANGED Abstract!vars
    BY <2>1, <2>2 DEF Abstract!vars
  <2> QED
    BY <2>2, <2>3
<1> QED
  BY <1>2, <1>3, <1>4, <1>5, <1>6, <1>7, <1>8, <1>9, <1>10, <1>11, <1>12, <1>13 DEF Next

\* Two sequences without a repetition and without a common element are one.
LEMMA JoinedNodes ==
    ASSUME NEW S, NEW s \in Seq(S), NEW t \in Seq(S), NoRepeats(s), NoRepeats(t),
           NodesIn(s) \cap NodesIn(t) = {}
    PROVE  s \o t \in Seq(S) /\ NoRepeats(s \o t) /\ NodesIn(s \o t) = NodesIn(s) \cup NodesIn(t)
<1>a. PICK M, N, u : M = Len(s) /\ N = Len(t) /\ u = s \o t
  OBVIOUS
<1>0. /\ M \in Nat /\ N \in Nat /\ DOMAIN s = 1..M /\ DOMAIN t = 1..N
      /\ \A i \in 1..M : s[i] \in NodesIn(s)
      /\ \A i \in 1..N : t[i] \in NodesIn(t)
  <2>1. M \in Nat /\ N \in Nat /\ DOMAIN s = 1..M /\ DOMAIN t = 1..N
    BY <1>a
  <2> QED
    BY <2>1 DEF NodesIn
<1>1. /\ u \in Seq(S) /\ Len(u) = M + N
      /\ \A i \in 1..(M + N) : u[i] = IF i <= M THEN s[i] ELSE t[i - M]
  BY <1>a, ConcatProperties
<1>2. DOMAIN u = 1..(M + N)
  BY <1>1
<1>3. ASSUME NEW i \in 1..M PROVE i \in DOMAIN u /\ u[i] = s[i]
  <2>1. i \in 1..(M + N) /\ i <= M
    BY <1>0
  <2> QED
    BY <1>1, <1>2, <2>1
<1>4. ASSUME NEW i \in 1..N PROVE M + i \in DOMAIN u /\ u[M + i] = t[i]
  <2>1. PICK k : k = M + i
    OBVIOUS
  <2>2. k \in 1..(M + N) /\ ~(k <= M) /\ k - M = i
    BY <1>0, <2>1
  <2>3. k \in DOMAIN u /\ u[k] = t[i]
    BY <1>1, <1>2, <2>2
  <2> QED
    BY <2>1, <2>3
<1>5. ASSUME NEW k \in DOMAIN u PROVE k \in 1..M \/ \E i \in 1..N : k = M + i
  <2>1. CASE k <= M
    BY <1>0, <1>2, <2>1
  <2>2. CASE ~(k <= M)
    <3>1. PICK i : i = k - M
      OBVIOUS
    <3>2. i \in 1..N /\ k = M + i
      BY <1>0, <1>2, <2>2, <3>1
    <3> QED
      BY <3>2
  <2> QED
    BY <2>1, <2>2
<1>6. NoRepeats(u)
  <2> SUFFICES ASSUME NEW j \in DOMAIN u, NEW k \in DOMAIN u, u[j] = u[k] PROVE j = k
    BY DEF NoRepeats
  <2>1. CASE j \in 1..M /\ k \in 1..M
    BY <1>0, <1>3, <2>1 DEF NoRepeats
  <2>2. ASSUME NEW i \in 1..N, NEW l \in 1..N, j = M + i, k = M + l PROVE j = k
    <3>1. t[i] = t[l]
      BY <1>4, <2>2
    <3>2. i = l
      BY <1>0, <3>1 DEF NoRepeats
    <3> QED
      BY <2>2, <3>2
  <2>3. ASSUME j \in 1..M, NEW l \in 1..N, k = M + l PROVE FALSE
    BY <1>0, <1>3, <1>4, <2>3
  <2>4. ASSUME k \in 1..M, NEW l \in 1..N, j = M + l PROVE FALSE
    BY <1>0, <1>3, <1>4, <2>4
  <2> QED
    BY <1>5, <2>1, <2>2, <2>3, <2>4
<1>7. NodesIn(u) = NodesIn(s) \cup NodesIn(t)
  <2>1. ASSUME NEW k \in DOMAIN u PROVE u[k] \in NodesIn(s) \cup NodesIn(t)
    BY <1>0, <1>3, <1>4, <1>5
  <2>2. NodesIn(s) \subseteq NodesIn(u)
    BY <1>0, <1>3 DEF NodesIn
  <2>3. NodesIn(t) \subseteq NodesIn(u)
    BY <1>0, <1>4 DEF NodesIn
  <2>4. NodesIn(u) \subseteq NodesIn(s) \cup NodesIn(t)
    <3>1. NodesIn(u) = {u[k] : k \in DOMAIN u}
      BY DEF NodesIn
    <3> QED
      BY <2>1, <3>1
  <2> QED
    BY <2>2, <2>3, <2>4
<1> QED
  BY <1>a, <1>1, <1>6, <1>7

LEMMA HeapIsExact ==
    ASSUME HeapInv
    PROVE  HeapExact
<1>a. PICK q, s, l : q = queued /\ s = stacked /\ l = listed
  OBVIOUS
<1>0. /\ q \in Seq(Nodes) /\ s \in Seq(Nodes) /\ l \in Seq(Nodes)
      /\ Len(q) \in Nat /\ Len(s) \in Nat /\ Len(l) \in Nat
      /\ NoRepeats(q) /\ NoRepeats(s) /\ NoRepeats(l)
      /\ queue.start \in Nodes /\ queue.end \in Nodes
      /\ queue.length = Len(q) /\ stack.elements_left = Len(s) /\ size = Len(l)
      /\ DOMAIN q = 1..Len(q) /\ DOMAIN s = 1..Len(s) /\ DOMAIN l = 1..Len(l)
  BY <1>a DEF HeapInv, HeapType, QueueShape, StackShape, ListShape
<1>b. PICK ends : ends = IF Alive("queue") THEN <<queue.start, queue.end>> ELSE <<>>
  OBVIOUS
<1>1. /\ ends \in Seq(Nodes) /\ NoRepeats(ends)
      /\ NodesIn(ends) = IF Alive("queue") THEN {queue.start, queue.end} ELSE {}
      /\ NodesIn(ends) \cap NodesIn(q) = {}
  <2>1. CASE Alive("queue")
    <3>1. ends = <<queue.start, queue.end>> /\ DOMAIN ends = {1, 2}
          /\ ends[1] = queue.start /\ ends[2] = queue.end /\ ends \in Seq(Nodes)
      BY <1>0, <1>b, <2>1
    <3>2. /\ queue.start # queue.end
          /\ queue.start \notin NodesIn(q) /\ queue.end \notin NodesIn(q)
      BY <1>a, <2>1 DEF HeapInv, QueueShape
    <3>3. NoRepeats(ends) /\ NodesIn(ends) = {queue.start, queue.end}
      BY <3>1, <3>2 DEF NoRepeats, NodesIn
    <3> QED
      BY <2>1, <3>1, <3>2, <3>3
  <2>2. CASE ~Alive("queue")
    <3>1. ends = <<>> /\ DOMAIN ends = {} /\ ends \in Seq(Nodes)
      BY <1>b, <2>2
    <3> QED
      BY <2>2, <3>1 DEF NoRepeats, NodesIn
  <2> QED
    BY <2>1, <2>2
<1>2. /\ QueueNodes = NodesIn(q) \cup NodesIn(ends)
      /\ StackNodes = NodesIn(s) /\ ListNodes = NodesIn(l)
      /\ QueueNodes \cap StackNodes = {} /\ QueueNodes \cap ListNodes = {}
      /\ StackNodes \cap ListNodes = {}
      /\ allocated = QueueNodes \cup StackNodes \cup ListNodes
  BY <1>1, <1>a DEF QueueNodes, StackNodes, ListNodes, HeapInv, Separate
<1>3. NoRepeats(q \o s \o l \o ends) /\ NodesIn(q \o s \o l \o ends) = allocated
  <2>1. q \o s \in Seq(Nodes) /\ NoRepeats(q \o s) /\ NodesIn(q \o s) = NodesIn(q) \cup NodesIn(s)
    BY <1>0, <1>2, JoinedNodes
  <2>2. PICK a : a = q \o s
    OBVIOUS
  <2>3. NodesIn(a) \cap NodesIn(l) = {} /\ a \in Seq(Nodes) /\ NoRepeats(a)
        /\ NodesIn(a) = NodesIn(q) \cup NodesIn(s)
    BY <1>2, <2>1, <2>2
  <2>4. a \o l \in Seq(Nodes) /\ NoRepeats(a \o l) /\ NodesIn(a \o l) = NodesIn(a) \cup NodesIn(l)
    BY <1>0, <2>3, JoinedNodes
  <2>5. PICK b : b = a \o l
    OBVIOUS
  <2>6. NodesIn(b) \cap NodesIn(ends) = {} /\ b \in Seq(Nodes) /\ NoRepeats(b)
        /\ NodesIn(b) = NodesIn(q) \cup NodesIn(s) \cup NodesIn(l)
    BY <1>1, <1>2, <2>3, <2>4, <2>5
  <2>7. NoRepeats(b \o ends) /\ NodesIn(b \o ends) = NodesIn(b) \cup NodesIn(ends)
    BY <1>1, <2>6, JoinedNodes
  <2> QED
    BY <1>2, <2>2, <2>5, <2>6, <2>7
<1>4. ASSUME Alive("queue")
      PROVE  /\ Leads(queue.start, [k \in DOMAIN queued |-> queued[Len(queued) + 1 - k]], queue.end)
             /\ \A n \in NodesIn(queued) \cup {queue.end} : node[node[n].previous].next = n
  <2>0. /\ \A k \in 0..Len(q) :
               node[QueueAt(k + 1)].next = QueueAt(k) /\ node[QueueAt(k)].previous = QueueAt(k + 1)
        /\ \A k \in 1..Len(q) : QueueAt(k) = q[k]
        /\ QueueAt(0) = queue.end /\ QueueAt(Len(q) + 1) = queue.start
    BY <1>4, <1>a, QueuePlaces DEF HeapInv, QueueShape
  <2>1. PICK r : r = [k \in DOMAIN queued |-> queued[Len(queued) + 1 - k]]
    OBVIOUS
  <2>2. /\ DOMAIN r = 1..Len(q) /\ Len(r) = Len(q)
        /\ \A k \in 1..Len(q) : r[k] = QueueAt(Len(q) + 1 - k)
    <3>1. r = [k \in 1..Len(q) |-> q[Len(q) + 1 - k]]
      BY <1>0, <1>a, <2>1
    <3>2. \A k \in 1..Len(q) : Len(q) + 1 - k \in 1..Len(q)
      BY <1>0
    <3> QED
      BY <1>0, <2>0, <3>1, <3>2
  <2>3. ASSUME NEW k \in 0..Len(q)
        PROVE  node[IF k = 0 THEN queue.start ELSE r[k]].next
                 = (IF k = Len(q) THEN queue.end ELSE r[k + 1])
    <3>1. PICK M, j : M = Len(q) /\ j = M - k
      OBVIOUS
    <3>a. M \in Nat /\ k \in 0..M
      BY <1>0, <3>1
    <3>b. /\ j \in 0..M /\ M + 1 - k = j + 1 /\ (k = M <=> j = 0)
          /\ (k = 0 => j + 1 = M + 1)
      BY <3>1, <3>a
    <3>c. k # 0 => k \in 1..M
      BY <3>a
    <3>d. k # M => k + 1 \in 1..M /\ M + 1 - (k + 1) = j
      BY <3>1, <3>a
    <3>2. /\ j \in 0..Len(q) /\ Len(q) + 1 - k = j + 1 /\ (k = Len(q) <=> j = 0)
          /\ (k = 0 => j + 1 = Len(q) + 1)
          /\ (k # 0 => k \in 1..Len(q))
          /\ (k # Len(q) => k + 1 \in 1..Len(q) /\ Len(q) + 1 - (k + 1) = j)
      BY <3>1, <3>b, <3>c, <3>d
    <3>3. (IF k = 0 THEN queue.start ELSE r[k]) = QueueAt(j + 1)
      BY <2>0, <2>2, <3>2
    <3>4. (IF k = Len(q) THEN queue.end ELSE r[k + 1]) = QueueAt(j)
      BY <2>0, <2>2, <3>2
    <3> QED
      BY <2>0, <3>2, <3>3, <3>4
  <2>4. Leads(queue.start, r, queue.end)
    BY <2>2, <2>3 DEF Leads
  <2>5. \A n \in NodesIn(q) \cup {queue.end} : \E k \in 0..Len(q) : n = QueueAt(k)
    <3>1. \A k \in 1..Len(q) : k \in 0..Len(q)
      BY <1>0
    <3>2. 0 \in 0..Len(q)
      BY <1>0
    <3> QED
      BY <1>0, <2>0, <3>1, <3>2 DEF NodesIn
  <2>6. \A n \in NodesIn(q) \cup {queue.end} : node[node[n].previous].next = n
    BY <2>0, <2>5
  <2> QED
    BY <1>a, <2>1, <2>4, <2>6
<1>5. /\ stack.next_node = (IF stacked = <<>> THEN NULL ELSE stacked[1])
      /\ stacked # <<>> => Leads(stacked[1], Tail(stacked), NULL)
  <2>0. /\ stack.next_node = StackAt(1)
        /\ \A k \in 1..Len(s) : node[StackAt(k)].next = StackAt(k + 1)
        /\ s = <<>> <=> Len(s) = 0
    BY <1>0, <1>a, EmptySeq DEF HeapInv, StackShape
  <2>1. StackAt(1) = IF s = <<>> THEN NULL ELSE s[1]
    <3>1. 1 = Len(stacked) + 1 <=> Len(s) = 0
      BY <1>0, <1>a
    <3> QED
      BY <1>a, <2>0, <3>1 DEF StackAt
  <2>2. ASSUME s # <<>> PROVE Leads(s[1], Tail(s), NULL)
    <3>0. \A k \in 1..Len(s) : StackAt(k) = s[k]
      BY <1>0, <1>a DEF StackAt
    <3>1. StackAt(Len(s) + 1) = NULL
      BY <1>a DEF StackAt
    <3>2. PICK t : t = Tail(s)
      OBVIOUS
    <3>3. Len(t) = Len(s) - 1 /\ \A k \in 1..(Len(s) - 1) : t[k] = s[k + 1]
      BY <1>0, <2>0, <2>2, <3>2
    <3>4. Len(s) >= 1
      BY <1>0, <2>0, <2>2
    <3>5. ASSUME NEW k \in 0..Len(t)
          PROVE  node[IF k = 0 THEN s[1] ELSE t[k]].next = (IF k = Len(t) THEN NULL ELSE t[k + 1])
      <4>a. PICK N : N = Len(s)
        OBVIOUS
      <4>b. N \in Nat /\ N >= 1 /\ k \in 0..(N - 1) /\ Len(t) = N - 1
        BY <1>0, <3>3, <3>4, <4>a
      <4>c. k + 1 \in 1..N /\ (k = N - 1 => k + 1 + 1 = N + 1)
        BY <4>b
      <4>d. (k # 0 => k \in 1..(N - 1)) /\ (k = 0 => k + 1 = 1)
        BY <4>b
      <4>e. k # N - 1 => k + 1 \in 1..(N - 1) /\ k + 1 + 1 \in 1..N
        BY <4>b
      <4>1. /\ k + 1 \in 1..Len(s) /\ (k = Len(t) => k + 1 + 1 = Len(s) + 1)
            /\ (k # 0 => k \in 1..(Len(s) - 1))
            /\ (k = 0 => k + 1 = 1)
            /\ (k # Len(t) => k + 1 \in 1..(Len(s) - 1) /\ k + 1 + 1 \in 1..Len(s))
        BY <4>a, <4>b, <4>c, <4>d, <4>e
      <4>2. (IF k = 0 THEN s[1] ELSE t[k]) = StackAt(k + 1)
        BY <3>0, <3>3, <4>1
      <4>3. (IF k = Len(t) THEN NULL ELSE t[k + 1]) = StackAt(k + 1 + 1)
        BY <3>0, <3>1, <3>3, <4>1
      <4> QED
        BY <2>0, <4>1, <4>2, <4>3
    <3> QED
      BY <3>2, <3>5 DEF Leads
  <2> QED
    BY <1>a, <2>0, <2>1, <2>2
<1>6. Leads(First, listed, NULL)
  <2>0. /\ \A k \in 0..Len(l) : node[ListAt(k)].next = ListAt(k + 1)
        /\ \A k \in 1..Len(l) : ListAt(k) = l[k]
        /\ ListAt(0) = First /\ ListAt(Len(l) + 1) = NULL
    BY <1>a, ListPlaces DEF HeapInv, ListShape
  <2>1. ASSUME NEW k \in 0..Len(l)
        PROVE  node[IF k = 0 THEN First ELSE l[k]].next = (IF k = Len(l) THEN NULL ELSE l[k + 1])
    <3>1. /\ (k # 0 => k \in 1..Len(l)) /\ (k # Len(l) => k + 1 \in 1..Len(l))
          /\ (k = Len(l) => k + 1 = Len(l) + 1)
      BY <1>0
    <3>2. (IF k = 0 THEN First ELSE l[k]) = ListAt(k)
      BY <2>0, <3>1
    <3>3. (IF k = Len(l) THEN NULL ELSE l[k + 1]) = ListAt(k + 1)
      BY <2>0, <3>1
    <3> QED
      BY <2>0, <3>2, <3>3
  <2> QED
    BY <1>a, <2>1 DEF Leads
<1>7. enumerator \in NodesIn(listed) \cup {First, NULL}
  BY DEF HeapInv, ListShape, ListNodes
<1>8. /\ NoRepeats(queued \o stacked \o listed \o ends)
      /\ NodesIn(queued \o stacked \o listed \o ends) = allocated
  BY <1>3, <1>a
<1> HIDE DEF HeapInv
<1> QED
  BY <1>0, <1>4, <1>5, <1>6, <1>7, <1>8, <1>a, <1>b DEF HeapExact

\* No order of the calls loses a container, uses one that was freed or breaks a link, a
\* chain or a counter of another structure, as queue.c, stack.c and simple_list.c.
THEOREM HeapStaysExact == Spec => []HeapExact
<1>1. Init => HeapInv
  BY HeapInitially
<1>2. HeapInv /\ [Next]_vars => HeapInv'
  BY HeapStep
<1>3. HeapInv => HeapExact
  BY HeapIsExact
<1> QED
  BY <1>1, <1>2, <1>3, PTL DEF Spec

\* The linked structures of queue.c, stack.c and simple_list.c are the queue, the stack and
\* the enumerated list that Containers promises: each call is its abstract call.
THEOREM LinkedContainersImplement == Spec => ImplementsContainers
<1>1. Init => HeapInv /\ Abstract!Init
  BY HeapInitially
<1>2. HeapInv /\ [Next]_vars => HeapInv' /\ [Abstract!Next]_(Abstract!vars)
  BY HeapStep
<1> QED
  BY <1>1, <1>2, PTL DEF Spec, ImplementsContainers, Abstract!Spec
=============================================================================
