-------------------------- MODULE HeaderReaderProofs --------------------------
(***************************************************************************)
(* The reader of an answer finds the end of any header, wherever the reads *)
(* cut it, and what it gives to the caller is the body.                    *)
(***************************************************************************)
EXTENDS HeaderReader, NaturalsInduction, WellFoundedInduction, SequenceTheorems, TLAPS

-----------------------------------------------------------------------------
(* check_end_sequence *)

\* A number of the set is the least one.
LEMMA LeastElement ==
    ASSUME NEW T \in SUBSET Nat, T # {}
    PROVE  \E x \in T : \A y \in T : x <= y
<1>1. \E x \in T : \A y \in T : ~ (<<y, x>> \in OpToRel(<, Nat))
  BY WFMin, NatLessThanWellFounded, Zenon
<1>2. \E x \in T : \A y \in T : ~(y < x)
  BY <1>1, Zenon DEF OpToRel
<1> QED
  BY <1>2

LEMMA EndHeaderIs ==
    /\ EndHeaderSize = 4
    /\ EndHeader[1] = "\r" /\ EndHeader[2] = "\n" /\ EndHeader[3] = "\r" /\ EndHeader[4] = "\n"
BY DEF EndHeader, EndHeaderSize

\* The byte k of the end sequence is there when the sequence begins behind start.
Matches(data, start, k) == data[start + k + 1] = EndHeader[k + 1]

\* From the start on, the bytes behind the first seq are those of the end sequence.
Rest(data, start, seq) ==
    /\ start + 4 <= Len(data)
    /\ \A k \in seq..3 : Matches(data, start, k)

\* f is what the recursion of EndSearch defines.
IsSearch(data, f) ==
    f = [at \in (0..Len(data)) \X (0..(EndHeaderSize - 1)) |->
            LET start == at[1]
                seq   == at[2]
            IN  IF start + seq >= Len(data) THEN 0
                ELSE IF data[start + seq + 1] # EndHeader[seq + 1] THEN f[<<start + 1, 0>>]
                ELSE IF seq + 1 = EndHeaderSize THEN start + EndHeaderSize
                ELSE f[<<start, seq + 1>>]]

\* One step of the search.
LEMMA SearchStep ==
    ASSUME NEW data \in Seq(STRING), NEW f, IsSearch(data, f),
           NEW start \in 0..Len(data), NEW seq \in 0..3
    PROVE  f[<<start, seq>>] =
              IF start + seq >= Len(data) THEN 0
              ELSE IF ~Matches(data, start, seq) THEN f[<<start + 1, 0>>]
              ELSE IF seq = 3 THEN start + 4
              ELSE f[<<start, seq + 1>>]
<1> DEFINE at == <<start, seq>>
<1>1. at \in (0..Len(data)) \X (0..(EndHeaderSize - 1))
  BY EndHeaderIs
<1>2. at[1] = start /\ at[2] = seq
  OBVIOUS
<1> HIDE DEF at
<1>3. f[at] = IF start + seq >= Len(data) THEN 0
              ELSE IF ~Matches(data, start, seq) THEN f[<<start + 1, 0>>]
              ELSE IF seq + 1 = EndHeaderSize THEN start + EndHeaderSize
              ELSE f[<<start, seq + 1>>]
  BY <1>1, <1>2 DEF IsSearch, Matches
<1> QED
  BY <1>3, EndHeaderIs DEF at

\* Where the sequence begins from a on, and what a search from there finds.
Found(data, a) == {p \in a..Len(data) : Rest(data, p, 0)}
First(data, a) ==
    IF Found(data, a) = {} THEN 0
    ELSE 4 + CHOOSE p \in Found(data, a) : \A q \in Found(data, a) : p <= q

LEMMA FirstIs ==
    ASSUME NEW data \in Seq(STRING), NEW a \in Nat
    PROVE  \/ First(data, a) = 0 /\ \A p \in a..Len(data) : ~Rest(data, p, 0)
           \/ \E p \in a..Len(data) :
                 /\ First(data, a) = p + 4 /\ Rest(data, p, 0)
                 /\ \A q \in a..(p - 1) : ~Rest(data, q, 0)
<1>1. CASE Found(data, a) = {}
  BY <1>1 DEF First, Found
<1>2. CASE Found(data, a) # {}
  <2>1. Found(data, a) \in SUBSET Nat
    BY DEF Found
  <2>2. \E p \in Found(data, a) : \A q \in Found(data, a) : p <= q
    BY <1>2, <2>1, LeastElement
  <2>3. PICK p \in Found(data, a) : /\ First(data, a) = 4 + p
                                    /\ \A q \in Found(data, a) : p <= q
    BY <1>2, <2>2 DEF First
  <2>4. p \in a..Len(data) /\ Rest(data, p, 0)
    BY <2>3 DEF Found
  <2>5. \A q \in a..(p - 1) : ~Rest(data, q, 0)
    <3> SUFFICES ASSUME NEW q \in a..(p - 1), Rest(data, q, 0) PROVE FALSE
      OBVIOUS
    <3>1. q \in Found(data, a)
      BY <2>4 DEF Found
    <3> QED
      BY <2>3, <2>4, <3>1
  <2>6. First(data, a) = p + 4
    BY <2>3, <2>4
  <2> QED
    BY <2>4, <2>5, <2>6
<1> QED
  BY <1>1, <1>2

\* The search from a on begins at a.
LEMMA FirstStep ==
    ASSUME NEW data \in Seq(STRING), NEW a \in Nat, a <= Len(data)
    PROVE  First(data, a) = IF Rest(data, a, 0) THEN a + 4 ELSE First(data, a + 1)
<1>0. Len(data) \in Nat
  OBVIOUS
<1>1. CASE Rest(data, a, 0)
  <2>1. \A p \in a..Len(data) : a \in a..(p - 1) \/ p = a
    BY <1>0
  <2> QED
    BY <1>0, <1>1, <2>1, FirstIs
<1>2. CASE ~Rest(data, a, 0)
  <2>1. Found(data, a) = Found(data, a + 1)
    BY <1>0, <1>2 DEF Found
  <2> QED
    BY <1>2, <2>1 DEF First
<1> QED
  BY <1>1, <1>2

\* What the search finds, said without a recursion.
Finds(data, start, seq) ==
    IF Rest(data, start, seq) THEN start + 4 ELSE First(data, start + 1)

LEMMA FindsStep ==
    ASSUME NEW data \in Seq(STRING), NEW start \in 0..Len(data), NEW seq \in 0..3
    PROVE  Finds(data, start, seq) =
              IF start + seq >= Len(data) THEN 0
              ELSE IF ~Matches(data, start, seq) THEN Finds(data, start + 1, 0)
              ELSE IF seq = 3 THEN start + 4
              ELSE Finds(data, start, seq + 1)
<1>0. Len(data) \in Nat
  OBVIOUS
<1>1. CASE start + seq >= Len(data)
  <2>1. ~Rest(data, start, seq) /\ \A p \in (start + 1)..Len(data) : ~Rest(data, p, 0)
    BY <1>0, <1>1 DEF Rest
  <2>2. First(data, start + 1) = 0
    BY <1>0, <2>1, FirstIs
  <2> QED
    BY <1>1, <2>1, <2>2 DEF Finds
<1>2. CASE start + seq < Len(data) /\ ~Matches(data, start, seq)
  <2>1. ~Rest(data, start, seq)
    BY <1>2 DEF Rest
  <2>2. First(data, start + 1) = Finds(data, start + 1, 0)
    BY <1>0, <1>2, FirstStep DEF Finds
  <2> QED
    BY <1>0, <1>2, <2>1, <2>2 DEF Finds
<1>3. CASE start + seq < Len(data) /\ Matches(data, start, seq) /\ seq = 3
  <2>1. Rest(data, start, seq)
    BY <1>0, <1>3 DEF Rest
  <2> QED
    BY <1>0, <1>3, <2>1 DEF Finds
<1>4. CASE start + seq < Len(data) /\ Matches(data, start, seq) /\ seq # 3
  <2>1. Rest(data, start, seq) <=> Rest(data, start, seq + 1)
    BY <1>0, <1>4 DEF Rest
  <2> QED
    BY <1>0, <1>4, <2>1 DEF Finds
<1> QED
  BY <1>0, <1>1, <1>2, <1>3, <1>4

\* The recursion defines a function, for a search never comes back.
LEMMA SearchExists ==
    ASSUME NEW data \in Seq(STRING)
    PROVE  IsSearch(data, EndSearch(data))
<1> DEFINE D == (0..Len(data)) \X (0..(EndHeaderSize - 1))
           f == [at \in D |-> Finds(data, at[1], at[2])]
<1>0. Len(data) \in Nat
  OBVIOUS
<1>1. \A start \in 0..Len(data), seq \in 0..3 : f[<<start, seq>>] = Finds(data, start, seq)
  BY EndHeaderIs
<1> HIDE DEF f
<1>2. ASSUME NEW at \in D
      PROVE  Finds(data, at[1], at[2]) =
                LET start == at[1]
                    seq   == at[2]
                IN  IF start + seq >= Len(data) THEN 0
                    ELSE IF ~Matches(data, start, seq) THEN f[<<start + 1, 0>>]
                    ELSE IF seq + 1 = EndHeaderSize THEN start + EndHeaderSize
                    ELSE f[<<start, seq + 1>>]
  <2>1. at[1] \in 0..Len(data) /\ at[2] \in 0..3
    BY EndHeaderIs
  <2> DEFINE start == at[1]
             seq   == at[2]
  <2> HIDE DEF start, seq, D
  <2>2. start \in 0..Len(data) /\ seq \in 0..3
    BY <2>1 DEF start, seq
  <2>3. start + seq < Len(data) => f[<<start + 1, 0>>] = Finds(data, start + 1, 0)
    <3>1. start + seq < Len(data) => start + 1 \in 0..Len(data)
      BY <1>0, <2>2
    <3>2. 0 \in 0..3
      OBVIOUS
    <3> QED
      BY <1>1, <3>1, <3>2, Zenon
  <2>4. seq # 3 => f[<<start, seq + 1>>] = Finds(data, start, seq + 1)
    <3>1. seq # 3 => seq + 1 \in 0..3
      BY <2>2
    <3> QED
      BY <1>1, <2>2, <3>1, Zenon
  <2>5. Finds(data, start, seq) =
           IF start + seq >= Len(data) THEN 0
           ELSE IF ~Matches(data, start, seq) THEN f[<<start + 1, 0>>]
           ELSE IF seq + 1 = EndHeaderSize THEN start + EndHeaderSize
           ELSE f[<<start, seq + 1>>]
    BY <1>0, <2>2, <2>3, <2>4, FindsStep, EndHeaderIs
  <2> QED
    BY <2>5 DEF start, seq
<1>3. IsSearch(data, f)
  BY <1>2 DEF f, IsSearch, Matches
<1> QED
  BY <1>3 DEF IsSearch, EndSearch

\* It is the only such function.
LEMMA SearchUnique ==
    ASSUME NEW data \in Seq(STRING), NEW f, IsSearch(data, f),
           NEW start \in 0..Len(data), NEW seq \in 0..3
    PROVE  f[<<start, seq>>] = Finds(data, start, seq)
<1> DEFINE Wrong == {d \in 0..Len(data) :
                        \E q \in 0..3 : f[<<Len(data) - d, q>>] # Finds(data, Len(data) - d, q)}
<1>0. Len(data) \in Nat
  OBVIOUS
<1>1. SUFFICES Wrong = {}
  <2>1. Len(data) - start \in 0..Len(data) /\ Len(data) - (Len(data) - start) = start
    BY <1>0
  <2> QED
    BY <1>1, <2>1
<1>2. SUFFICES ASSUME Wrong # {} PROVE FALSE
  OBVIOUS
<1>3. PICK d \in Wrong : \A e \in Wrong : d <= e
  <2>1. Wrong \in SUBSET Nat
    BY <1>0
  <2> QED
    BY <1>2, <2>1, LeastElement
<1> DEFINE s == Len(data) - d
<1>4. s \in 0..Len(data) /\ d \in 0..Len(data)
  BY <1>0, <1>3
<1>5. s < Len(data) => f[<<s + 1, 0>>] = Finds(data, s + 1, 0)
  <2> SUFFICES ASSUME s < Len(data) PROVE f[<<s + 1, 0>>] = Finds(data, s + 1, 0)
    OBVIOUS
  <2>1. d - 1 \in 0..Len(data) /\ Len(data) - (d - 1) = s + 1
    BY <1>0, <1>3
  <2>2. d - 1 \notin Wrong
    <3> HIDE DEF Wrong
    <3>1. d \in Nat /\ ~(d <= d - 1)
      BY <1>0, <1>4 DEF Wrong
    <3> QED
      BY <1>3, <3>1
  <2>3. 0 \in 0..3
    OBVIOUS
  <2> QED
    BY <2>1, <2>2, <2>3, Zenon
<1>6. \E q \in 0..3 : f[<<s, q>>] # Finds(data, s, q)
  BY <1>3
<1>7. \A q \in 0..3 : q \in {0, 1, 2, 3}
  OBVIOUS
<1> HIDE DEF s, Wrong
<1>8. ASSUME NEW q \in 0..3, q # 3 => f[<<s, q + 1>>] = Finds(data, s, q + 1)
      PROVE  f[<<s, q>>] = Finds(data, s, q)
  <2>1. s + q < Len(data) => s < Len(data)
    BY <1>0, <1>4
  <2>2. f[<<s, q>>] = IF s + q >= Len(data) THEN 0
                      ELSE IF ~Matches(data, s, q) THEN f[<<s + 1, 0>>]
                      ELSE IF q = 3 THEN s + 4
                      ELSE f[<<s, q + 1>>]
    BY <1>4, SearchStep
  <2>3. Finds(data, s, q) = IF s + q >= Len(data) THEN 0
                      ELSE IF ~Matches(data, s, q) THEN Finds(data, s + 1, 0)
                      ELSE IF q = 3 THEN s + 4
                      ELSE Finds(data, s, q + 1)
    BY <1>4, FindsStep
  <2> QED
    BY <1>0, <1>4, <1>5, <1>8, <2>1, <2>2, <2>3
<1>9. f[<<s, 3>>] = Finds(data, s, 3)
  BY <1>8
<1>10. f[<<s, 2>>] = Finds(data, s, 2)
  BY <1>8, <1>9
<1>11. f[<<s, 1>>] = Finds(data, s, 1)
  BY <1>8, <1>10
<1>12. f[<<s, 0>>] = Finds(data, s, 0)
  BY <1>8, <1>11
<1> QED
  BY <1>6, <1>7, <1>9, <1>10, <1>11, <1>12, Zenon

\* Where a text has the end sequence.
LEMMA EndsAtIs ==
    ASSUME NEW data \in Seq(STRING), NEW p \in Nat, p <= Len(data)
    PROVE  EndsAt(data, p) <=> p >= 4 /\ Rest(data, p - 4, 0)
<1>1. CASE p >= 4
  <2> DEFINE sub == SubSeq(data, p - 3, p)
  <2>1. /\ Len(sub) = 4
        /\ sub[1] = data[p - 3] /\ sub[2] = data[p - 2] /\ sub[3] = data[p - 1] /\ sub[4] = data[p]
        /\ sub \in Seq(STRING)
    <3>1. p - 3 \in Int /\ p \in Int /\ \A i \in (p - 3)..p : data[i] \in STRING
      BY <1>1
    <3>2. /\ sub \in Seq(STRING)
          /\ Len(sub) = IF p - 3 <= p THEN p - (p - 3) + 1 ELSE 0
          /\ \A i \in 1..(p - (p - 3) + 1) : sub[i] = data[p - 3 + i - 1]
      BY <3>1, SubSeqProperties
    <3> HIDE DEF sub
    <3>3. p - (p - 3) + 1 = 4 /\ p - 3 <= p
      OBVIOUS
    <3>4. \A i \in 1..4 : sub[i] = data[p - 3 + i - 1]
      BY <3>2, <3>3
    <3>5. sub[1] = data[p - 3 + 1 - 1] /\ sub[2] = data[p - 3 + 2 - 1]
          /\ sub[3] = data[p - 3 + 3 - 1] /\ sub[4] = data[p - 3 + 4 - 1]
      BY <3>4
    <3> QED
      BY <3>2, <3>3, <3>5
  <2>2. EndsAt(data, p) <=> sub = EndHeader
    BY <1>1, EndHeaderIs DEF EndsAt
  <2> HIDE DEF sub
  <2>3. ASSUME NEW a, NEW b, sub[1] = a /\ sub[2] = b /\ sub[3] = a /\ sub[4] = b
        PROVE  sub = <<a, b, a, b>>
    BY <2>1, <2>3
  <2>4. sub = EndHeader
        <=> sub[1] = "\r" /\ sub[2] = "\n" /\ sub[3] = "\r" /\ sub[4] = "\n"
    BY <2>3, EndHeaderIs, Zenon DEF EndHeader
  <2>5. sub[1] = "\r" /\ sub[2] = "\n" /\ sub[3] = "\r" /\ sub[4] = "\n"
        <=> /\ data[p - 3] = "\r" /\ data[p - 2] = "\n" /\ data[p - 1] = "\r" /\ data[p] = "\n"
    BY <2>1
  <2>6. Rest(data, p - 4, 0)
        <=> /\ data[p - 3] = "\r" /\ data[p - 2] = "\n" /\ data[p - 1] = "\r" /\ data[p] = "\n"
    BY <1>1, EndHeaderIs DEF Rest, Matches
  <2> QED
    BY <1>1, <2>2, <2>4, <2>5, <2>6
<1>2. CASE p < 4
  BY <1>2, EndHeaderIs DEF EndsAt
<1> QED
  BY <1>1, <1>2

\* check_end_sequence finds the first end sequence of any data, if there is one.
LEMMA CheckEndSequenceFinds ==
    ASSUME NEW data \in Seq(STRING)
    PROVE  \/ /\ CheckEndSequence(data) = 0
              /\ \A p \in 1..Len(data) : ~EndsAt(data, p)
           \/ /\ CheckEndSequence(data) \in 4..Len(data)
              /\ EndsAt(data, CheckEndSequence(data))
              /\ \A p \in 1..(CheckEndSequence(data) - 1) : ~EndsAt(data, p)
<1> DEFINE found == CheckEndSequence(data)
<1>0. Len(data) \in Nat
  OBVIOUS
<1>1. found = First(data, 0)
  <2>1. found = Finds(data, 0, 0)
    <3>1. 0 \in 0..Len(data) /\ 0 \in 0..3
      BY <1>0
    <3>2. IsSearch(data, EndSearch(data))
      BY SearchExists, Zenon
    <3> QED
      BY <3>1, <3>2, SearchUnique, Zenon DEF CheckEndSequence
  <2> QED
    BY <1>0, <2>1, FirstStep DEF Finds
<1> HIDE DEF found
<1>2. CASE found = 0 /\ \A p \in 0..Len(data) : ~Rest(data, p, 0)
  <2>1. \A p \in 1..Len(data) : ~EndsAt(data, p)
    <3> SUFFICES ASSUME NEW p \in 1..Len(data) PROVE ~EndsAt(data, p)
      OBVIOUS
    <3>1. p >= 4 => p - 4 \in 0..Len(data)
      BY <1>0
    <3> QED
      BY <1>2, <3>1, EndsAtIs
  <2> QED
    BY <1>2, <2>1 DEF found
<1>3. ASSUME NEW a \in 0..Len(data), found = a + 4, Rest(data, a, 0),
             \A q \in 0..(a - 1) : ~Rest(data, q, 0)
      PROVE  /\ found \in 4..Len(data) /\ EndsAt(data, found)
             /\ \A p \in 1..(found - 1) : ~EndsAt(data, p)
  <2>1. found \in 4..Len(data)
    BY <1>0, <1>3 DEF Rest
  <2>2. EndsAt(data, found)
    BY <1>3, <2>1, EndsAtIs
  <2>3. \A p \in 1..(found - 1) : ~EndsAt(data, p)
    <3> SUFFICES ASSUME NEW p \in 1..(found - 1) PROVE ~EndsAt(data, p)
      OBVIOUS
    <3>1. p >= 4 => p - 4 \in 0..(a - 1)
      BY <1>0, <1>3
    <3>2. p \in Nat /\ p <= Len(data)
      BY <2>1
    <3> QED
      BY <1>3, <3>1, <3>2, EndsAtIs
  <2> QED
    BY <2>1, <2>2, <2>3
<1>4. \/ found = 0 /\ \A p \in 0..Len(data) : ~Rest(data, p, 0)
      \/ \E p \in 0..Len(data) : /\ found = p + 4 /\ Rest(data, p, 0)
                                 /\ \A q \in 0..(p - 1) : ~Rest(data, q, 0)
  BY <1>1, FirstIs
<1> QED
  BY <1>2, <1>3, <1>4 DEF found
-----------------------------------------------------------------------------
(* The end of the header among the bytes read. *)

LEMMA EndsInPart ==
    ASSUME NEW data \in Seq(STRING), NEW m \in Nat, NEW n \in Nat, m <= n, n <= Len(data),
           NEW p \in 1..(n - m)
    PROVE  EndsAt(SubSeq(data, m + 1, n), p) <=> p >= 4 /\ EndsAt(data, m + p)
<1>1. CASE p >= 4
  <2>1. SubSeq(SubSeq(data, m + 1, n), p - 3, p) = SubSeq(data, m + p - 3, m + p)
    <3>1. /\ m + 1 \in 1..Len(data) /\ n \in 1..Len(data)
          /\ p - 3 \in 1..(n - (m + 1) + 1) /\ p \in 1..(n - (m + 1) + 1)
          /\ (m + 1) + (p - 3) - 1 = m + p - 3 /\ (m + 1) + p - 1 = m + p
      BY <1>1
    <3>2. SubSeq(SubSeq(data, m + 1, n), p - 3, p)
          = SubSeq(data, (m + 1) + (p - 3) - 1, (m + 1) + p - 1)
      BY <3>1, SubSeqOfSubSeq
    <3> QED
      BY <3>1, <3>2
  <2>2. /\ p - EndHeaderSize + 1 = p - 3 /\ (m + p) - EndHeaderSize + 1 = m + p - 3
        /\ p >= EndHeaderSize /\ m + p >= EndHeaderSize
    BY <1>1, EndHeaderIs
  <2> QED
    BY <1>1, <2>1, <2>2, Zenon DEF EndsAt
<1>2. CASE p < 4
  BY <1>2, EndHeaderIs DEF EndsAt
<1> QED
  BY <1>1, <1>2

LEMMA EndsInFront ==
    ASSUME NEW s \in Seq(STRING), NEW t \in Seq(STRING), NEW p \in 1..Len(s)
    PROVE  EndsAt(s \o t, p) <=> EndsAt(s, p)
<1>1. CASE p >= 4
  <2>1. p - 3 \in 1..Len(s) /\ p - EndHeaderSize + 1 = p - 3
    BY <1>1, EndHeaderIs
  <2>2. SubSeq(s \o t, p - 3, p) = SubSeq(s, p - 3, p)
    BY <2>1, SubSeqOfConcat1
  <2> QED
    BY <2>1, <2>2 DEF EndsAt
<1>2. CASE p < 4
  BY <1>2, EndHeaderIs DEF EndsAt
<1> QED
  BY <1>1, <1>2

\* The answer of the peer, and where its header ends.
LEMMA AnswerIs ==
    ASSUME response \in Responses
    PROVE  /\ response.header \in Seq(STRING) /\ response.body \in Seq(STRING)
           /\ response.code \in 100..599
           /\ Sent \in Seq(STRING) /\ HeaderSize \in Nat
           /\ HeaderSize >= StatusSize + 7 /\ StatusSize \in Nat
           /\ Len(Sent) = HeaderSize + Len(response.body) /\ Len(response.body) \in Nat
           /\ \A p \in 1..HeaderSize : EndsAt(Sent, p) <=> p = HeaderSize
<1>1. response \in Response
  BY HeaderReaderAssumption
<1>2. response.header \in Seq(STRING) /\ response.body \in Seq(STRING)
  BY <1>1 DEF Response
<1>3. response.code \in 100..599
  BY <1>1 DEF Response
<1>4. /\ Sent \in Seq(STRING) /\ HeaderSize \in Nat /\ Len(response.body) \in Nat
      /\ Len(Sent) = HeaderSize + Len(response.body)
  BY <1>2, ConcatProperties DEF Sent, HeaderSize
<1>5. StatusSize \in Nat /\ HeaderSize >= StatusSize + 7
  BY HeaderReaderAssumption, EndHeaderIs DEF HeaderSize, CodeSize
<1>6. \A p \in 1..HeaderSize : EndsAt(Sent, p) <=> p = HeaderSize
  <2>1. \A p \in 1..HeaderSize : EndsAt(Sent, p) <=> EndsAt(response.header, p)
    BY <1>2, EndsInFront DEF Sent, HeaderSize
  <2>2. \A p \in 1..HeaderSize : EndsAt(response.header, p) <=> p = HeaderSize
    BY HeaderReaderAssumption, Zenon DEF HeaderSize
  <2> QED
    BY <2>1, <2>2
<1> QED
  BY <1>2, <1>3, <1>4, <1>5, <1>6

\* With n bytes more, the end of the header is found exactly when it is there.
LEMMA HeaderEndIs ==
    ASSUME response \in Responses, used_temp_buffer \in Nat, used_temp_buffer < HeaderSize,
           NEW n \in Nat, n > 0, used_temp_buffer + n <= Len(Sent)
    PROVE  \/ HeaderLen(n) = 0 /\ used_temp_buffer + n < HeaderSize
           \/ /\ HeaderLen(n) \in 4..HeaderSize /\ HeaderSize <= used_temp_buffer + n
              /\ DataStart(n) = HeaderSize
              /\ used_temp_buffer = 0 => HeaderLen(n) = HeaderSize
<1> DEFINE upto == used_temp_buffer + n
           from == SearchedFrom
           data == SubSeq(Sent, from + 1, upto)
           found == CheckEndSequence(data)
<1>1. /\ from \in Nat /\ from <= used_temp_buffer /\ used_temp_buffer - from <= 4
      /\ from > 0 => used_temp_buffer - from = 4
      /\ used_temp_buffer = 0 => from = 0
  BY EndHeaderIs DEF SearchedFrom, Least
<1>2. /\ Sent \in Seq(STRING) /\ Len(Sent) \in Nat /\ HeaderSize \in Nat /\ HeaderSize >= 7
      /\ \A p \in 1..HeaderSize : EndsAt(Sent, p) <=> p = HeaderSize
  BY AnswerIs
<1>3. upto \in Nat /\ from < upto /\ upto <= Len(Sent)
  BY <1>1
<1> HIDE DEF from, upto
<1>4. SubSeq(Filled(n), from + 1, upto) = data
  <2>1. /\ 1 \in 1..Len(Sent) /\ upto \in 1..Len(Sent)
        /\ from + 1 \in 1..(upto - 1 + 1) /\ upto \in 1..(upto - 1 + 1)
        /\ 1 + (from + 1) - 1 = from + 1 /\ 1 + upto - 1 = upto
    BY <1>1, <1>2, <1>3
  <2>2. SubSeq(SubSeq(Sent, 1, upto), from + 1, upto)
        = SubSeq(Sent, 1 + (from + 1) - 1, 1 + upto - 1)
    BY <1>2, <2>1, SubSeqOfSubSeq
  <2> QED
    BY <2>1, <2>2 DEF Filled, upto
<1>5. HeaderLen(n) = found
  BY <1>4 DEF HeaderLen, from, upto
<1>6. data \in Seq(STRING) /\ Len(data) = upto - from
  <2>1. \A i \in (from + 1)..upto : Sent[i] \in STRING
    BY <1>1, <1>2, <1>3
  <2> QED
    BY <1>1, <1>3, <2>1, SubSeqProperties
<1>7. \A p \in 1..(upto - from) : EndsAt(data, p) <=> p >= 4 /\ EndsAt(Sent, from + p)
  BY <1>1, <1>2, <1>3, EndsInPart
<1>8. \/ found = 0 /\ \A p \in 1..(upto - from) : ~EndsAt(data, p)
      \/ /\ found \in 4..(upto - from) /\ EndsAt(data, found)
         /\ \A p \in 1..(found - 1) : ~EndsAt(data, p)
  BY <1>6, CheckEndSequenceFinds
<1> HIDE DEF data, found
<1>9. CASE upto < HeaderSize
  <2>1. ASSUME NEW p \in 1..(upto - from), EndsAt(data, p) PROVE FALSE
    <3>1. EndsAt(Sent, from + p) /\ from + p \in 1..HeaderSize /\ from + p # HeaderSize
      BY <1>1, <1>2, <1>3, <1>7, <1>9, <2>1
    <3> QED
      BY <1>2, <3>1
  <2>2. found \in 4..(upto - from) => found \in 1..(upto - from)
    BY <1>1, <1>3
  <2> QED
    BY <1>5, <1>8, <1>9, <2>1, <2>2 DEF upto
<1>10. CASE HeaderSize <= upto
  <2> DEFINE end == HeaderSize - from
  <2>1. end \in 4..(upto - from) /\ end \in 1..(upto - from) /\ from + end = HeaderSize
    <3>1. from > 0 => end > 4
      BY <1>1, <1>2
    <3> QED
      BY <1>1, <1>2, <1>3, <1>10, <3>1
  <2> HIDE DEF end
  <2>2. EndsAt(data, end)
    BY <1>2, <1>7, <2>1
  <2>3. found \in 4..(upto - from) /\ EndsAt(data, found) /\ ~(end \in 1..(found - 1))
    BY <1>8, <2>1, <2>2
  <2>4. found <= end
    BY <1>1, <1>3, <2>1, <2>3
  <2>5. from + found \in 1..HeaderSize /\ EndsAt(Sent, from + found)
    <3>1. found \in 1..(upto - from)
      BY <1>1, <1>3, <2>3
    <3>2. EndsAt(Sent, from + found)
      BY <1>7, <2>3, <3>1
    <3> QED
      BY <1>1, <1>2, <1>3, <2>1, <2>4, <3>1, <3>2
  <2>6. from + found = HeaderSize
    BY <1>2, <2>5
  <2>7. found \in 4..HeaderSize /\ (from = 0 => found = HeaderSize)
    BY <1>1, <1>2, <1>3, <2>3, <2>6
  <2>8. DataStart(n) = from + found
    BY <1>5 DEF DataStart, from
  <2> QED
    BY <1>1, <1>5, <1>10, <2>6, <2>7, <2>8 DEF upto
<1> QED
  BY <1>2, <1>3, <1>9, <1>10
-----------------------------------------------------------------------------
(* The invariant. *)

ReaderType ==
    /\ response \in Responses /\ request \in Requests
    /\ request.header_only => response.body = <<>>
    /\ arrived \in Nat /\ arrived <= Len(Sent)
    /\ taken \in Nat /\ taken <= arrived
    /\ place \in {"wait", "reading", "overrun", "crashed"}
    /\ used_temp_buffer \in Nat /\ buffer_left \in Int
    /\ out \in Seq(STRING)
    /\ fin \in BOOLEAN /\ data_pointer \in BOOLEAN /\ closed \in BOOLEAN /\ split \in BOOLEAN

\* The header that was parsed: all of it, unless reads have split it.
Parsed(info) ==
    \E size \in 4..HeaderSize : /\ info = GetResponseHeader(size)
                                /\ ~split => size = HeaderSize

\* Until the header is found its bytes are in temp_buffer, and it is not complete; from then
\* on all that was read behind it is written.
BodyInv ==
    /\ header_info = NoInfo => out = <<>>
    /\ header_info = NoInfo /\ posted = <<>> =>
          used_temp_buffer = taken /\ taken < HeaderSize /\ (~split => taken = 0)
    /\ header_info # NoInfo => taken >= HeaderSize /\ Parsed(header_info)
    /\ header_info # NoInfo /\ place # "overrun" => out = SubSeq(Sent, HeaderSize + 1, taken)
    /\ place = "overrun" => out = <<>> /\ posted = <<>>

Codes == {"OK", "redirect", "BAD_RESPONSE", "BUFFER_OVERFLOW", "CONNECTION_FAIL"}

\* The bad answers.
IsBad ==
    \/ response.code \notin 200..399
    \/ response.code \in 300..399 /\ ~Seen("location", HeaderSize)

\* What a result tells of the header and of the stream.
Tells(result) ==
    /\ result.code = "OK" =>
          /\ closed /\ header_info # NoInfo /\ Success(header_info.response_code)
          /\ header_info.response_code = 200 => fin /\ taken = arrived
          /\ result.size = IF request.header_only THEN header_info.content_length
                           ELSE Len(out)
    /\ result.code = "redirect" => header_info # NoInfo /\ header_info.redirect
    /\ result.code = "BAD_RESPONSE" /\ ~split => IsBad

\* There is one result at most; a callback that goes on after it finds its stream closed.
PostInv ==
    /\ posted \in Seq([code : Codes, size : Int])
    /\ data_pointer <=> posted = <<>>
    /\ posted # <<>> => /\ Len(posted) = 1 /\ Tells(posted[1])
                        /\ place = "reading" => closed /\ header_info # NoInfo

ReaderInv == ReaderType /\ BodyInv /\ PostInv

LEMMA RequestIs ==
    ASSUME request \in Requests
    PROVE  /\ request.allocated_size \in Nat /\ request.max_write_size \in Nat \ {0}
           /\ request.header_only \in BOOLEAN
<1>1. request \in Request
  BY HeaderReaderAssumption
<1> QED
  BY <1>1 DEF Request

\* The code in a part of the header: all of its digits, or fewer.
LEMMA CodeIs ==
    ASSUME response \in Responses, NEW size \in Nat
    PROVE  /\ Code(size) \in Int
           /\ Code(size) >= 100 => Code(size) = response.code
           /\ size = HeaderSize => Code(size) = response.code
<1>1. response.code \in 100..599 /\ StatusSize \in Nat /\ HeaderSize >= StatusSize + 7
      /\ HeaderSize \in Nat
  BY AnswerIs
<1>2. /\ CodeDigits(size) \in Int /\ CodeDigits(size) <= 3
      /\ size = HeaderSize => CodeDigits(size) = 3
  BY <1>1 DEF CodeDigits, Least, CodeSize
<1> DEFINE code == response.code
<1> HIDE DEF code
<1>3. Code(size) = CASE CodeDigits(size) <= 0 -> -1
                     [] CodeDigits(size) = 1  -> code \div 100
                     [] CodeDigits(size) = 2  -> code \div 10
                     [] OTHER                 -> code
  BY DEF Code, code
<1>4. /\ code \div 100 \in Int /\ code \div 10 \in Int
      /\ code \div 100 < 100 /\ code \div 10 < 100
  BY <1>1 DEF code
<1>5. CASE CodeDigits(size) <= 0
  BY <1>1, <1>2, <1>3, <1>5 DEF code
<1>6. CASE CodeDigits(size) = 1
  BY <1>1, <1>2, <1>3, <1>4, <1>6 DEF code
<1>7. CASE CodeDigits(size) = 2
  BY <1>1, <1>2, <1>3, <1>4, <1>7 DEF code
<1>8. CASE CodeDigits(size) = 3
  BY <1>1, <1>2, <1>3, <1>8 DEF code
<1> QED
  BY <1>2, <1>5, <1>6, <1>7, <1>8

\* What was parsed of a header that is not NoInfo.
LEMMA ParsedIs ==
    ASSUME response \in Responses, NEW info, info # NoInfo, Parsed(info)
    PROVE  /\ info.response_code \in Int
           /\ info.response_code >= 100 => info.response_code = response.code
           /\ info.redirect <=> info.response_code \in 300..399
           /\ info.content_length \in Int
           /\ ~split => info = GetResponseHeader(HeaderSize)
           /\ ~split => info.response_code = response.code
<1>1. PICK size \in 4..HeaderSize : /\ info = GetResponseHeader(size)
                                    /\ ~split => size = HeaderSize
  BY DEF Parsed
<1>2. info.response_code = Code(size) /\ info.redirect = (Code(size) \in 300..399)
  BY <1>1 DEF GetResponseHeader
<1>3. size \in Nat
  BY <1>1
<1>4. info.content_length \in Int
  <2>1. response \in Response
    BY HeaderReaderAssumption
  <2>2. response.length \in Int
    BY <2>1 DEF Response
  <2> QED
    BY <1>1, <2>2 DEF GetResponseHeader
<1>5. info.redirect <=> info.response_code \in 300..399
  BY <1>2, Zenon
<1> QED
  BY <1>1, <1>2, <1>3, <1>4, <1>5, CodeIs

\* The answer and the request do not change, nor does what a header says.
LEMMA AnswerStays ==
    ASSUME response' = response, request' = request
    PROVE  /\ Sent' = Sent /\ HeaderSize' = HeaderSize
           /\ (IsBad' <=> IsBad)
           /\ \A size : GetResponseHeader(size)' = GetResponseHeader(size)
           /\ split' = split => \A info : (Parsed(info)' <=> Parsed(info))
<1>1. Sent' = Sent /\ HeaderSize' = HeaderSize
  BY DEF Sent, HeaderSize
<1>2. \A field, size : (Seen(field, size)' <=> Seen(field, size))
  BY DEF Seen
<1>3. \A size : Code(size)' = Code(size)
  BY DEF Code
<1>4. IsBad' <=> IsBad
  BY <1>1, <1>2 DEF IsBad
<1>5. \A size : GetResponseHeader(size)' = GetResponseHeader(size)
  BY <1>2, <1>3 DEF GetResponseHeader
<1>6. split' = split => \A info : (Parsed(info)' <=> Parsed(info))
  BY <1>1, <1>5 DEF Parsed
<1> QED
  BY <1>1, <1>4, <1>5, <1>6

\* The result that is put on the stack.
LEMMA PostIs ==
    ASSUME posted = <<>>, NEW code \in Codes, NEW size \in Int, Post(code, size),
           Tells([code |-> code, size |-> size])',
           place' = "reading" => closed' /\ header_info' # NoInfo
    PROVE  PostInv'
<1> DEFINE result == [code |-> code, size |-> size]
<1>1. result \in [code : Codes, size : Int]
  OBVIOUS
<1>2. posted' = Append(posted, result) /\ data_pointer' = FALSE
  BY DEF Post
<1>3. Tells(result)'
  OBVIOUS
<1> HIDE DEF result
<1>4. posted' = <<result>>
  BY <1>2
<1>5. /\ posted' \in Seq([code : Codes, size : Int]) /\ posted' # <<>>
      /\ Len(posted') = 1 /\ posted'[1] = result
  BY <1>1, <1>4
<1> QED
  BY <1>2, <1>3, <1>5 DEF PostInv

\* A result that says nothing of the header.
LEMMA PlainPost ==
    ASSUME posted = <<>>, NEW code \in Codes, Post(code, 0),
           code \notin {"OK", "redirect", "BAD_RESPONSE"},
           place' = "reading" => closed' /\ header_info' # NoInfo
    PROVE  PostInv'
<1>1. Tells([code |-> code, size |-> 0])'
  BY DEF Tells
<1> QED
  BY <1>1, PostIs

\* Without a step of the reader, nothing changes that the invariant tells of results.
LEMMA PostStays ==
    ASSUME PostInv, response' = response, request' = request, posted' = posted,
           data_pointer' = data_pointer, posted # <<>> =>
               /\ header_info' = header_info /\ closed' = closed /\ split' = split
               /\ out' = out /\ fin' = fin /\ taken' = taken /\ arrived' = arrived,
           place' = "reading" => place = "reading" \/ posted = <<>>
    PROVE  PostInv'
<1>1. IsBad' <=> IsBad
  BY AnswerStays
<1>2. posted # <<>> => Tells(posted[1])'
  BY <1>1 DEF PostInv, Tells
<1> QED
  BY <1>2 DEF PostInv

\* process_finished_stream makes the right result of a header that was parsed.
LEMMA FinishKeeps ==
    ASSUME ReaderInv, posted = <<>>, NEW info, NEW bytes \in Seq(STRING), Finish(info, bytes),
           info = header_info', bytes = out',
           response' = response, request' = request, split' = split,
           info # NoInfo => Parsed(info),
           info # NoInfo /\ info.response_code = 200 => fin' /\ taken' = arrived'
    PROVE  PostInv' /\ place' \in {"wait", "crashed"} /\ closed' /\ data_pointer' \in BOOLEAN
<1>1. closed' = TRUE /\ data_pointer = TRUE
  BY DEF Finish, ReaderInv, PostInv, ReaderType
<1>2. CASE info = NoInfo
  <2>1. place' = "crashed" /\ posted' = posted /\ data_pointer' = data_pointer
    BY <1>2 DEF Finish
  <2>2. posted' \in Seq([code : Codes, size : Int])
    BY <2>1 DEF ReaderInv, PostInv
  <2> QED
    BY <1>1, <2>1, <2>2 DEF PostInv
<1>3. CASE info # NoInfo
  <2>1. response \in Responses
    BY DEF ReaderInv, ReaderType
  <2>2. /\ info.response_code \in Int /\ info.content_length \in Int
        /\ info.redirect <=> info.response_code \in 300..399
        /\ ~split => info.response_code = response.code
    BY <1>3, <2>1, ParsedIs
  <2>3. PICK code \in Codes : code = IF Success(info.response_code) THEN "OK"
                                    ELSE IF info.redirect THEN "redirect" ELSE "BAD_RESPONSE"
    BY DEF Codes
  <2>4. PICK size \in Int : size = IF request.header_only THEN info.content_length
                                   ELSE Len(bytes)
    <3>1. Len(bytes) \in Int
      OBVIOUS
    <3> QED
      BY <2>2, <3>1, Zenon
  <2>5. place' = "wait" /\ Post(code, size)
    BY <1>1, <1>3, <2>3, <2>4 DEF Finish
  <2>6. /\ code = "OK" => Success(info.response_code)
        /\ code = "redirect" => info.redirect
    BY <2>3
  <2>7. code = "BAD_RESPONSE" /\ ~split => IsBad
    <3> SUFFICES ASSUME code = "BAD_RESPONSE", ~split PROVE IsBad
      OBVIOUS
    <3>1. ~Success(info.response_code) /\ ~info.redirect
      BY <2>3
    <3>2. info.response_code \notin 300..399
      BY <2>2, <3>1, Zenon
    <3>3. response.code \in Int /\ response.code \notin 200..299 /\ response.code \notin 300..399
      <4>1. info.response_code \in Int /\ info.response_code = response.code
        BY <2>2
      <4>2. info.response_code \notin 200..299
        BY <3>1, Zenon DEF Success
      <4> QED
        BY <3>2, <4>1, <4>2
    <3> QED
      BY <3>3 DEF IsBad
  <2>8. IsBad' <=> IsBad
    BY AnswerStays
  <2>9. Tells([code |-> code, size |-> size])'
    <3>1. size = IF request'.header_only THEN header_info'.content_length ELSE Len(out')
      BY <2>4
    <3>2. Success(header_info.response_code)' <=> Success(info.response_code)
      BY DEF Success
    <3>3. code = "OK" => /\ closed' /\ header_info' # NoInfo /\ Success(header_info.response_code)'
                         /\ header_info'.response_code = 200 => fin' /\ taken' = arrived'
                         /\ size = IF request'.header_only THEN header_info'.content_length
                                   ELSE Len(out')
      BY <1>1, <1>3, <2>6, <3>1, <3>2, Zenon
    <3>4. code = "redirect" => header_info' # NoInfo /\ header_info'.redirect
      BY <1>3, <2>6, Zenon
    <3>5. code = "BAD_RESPONSE" /\ ~split' => IsBad'
      BY <2>7, <2>8, Zenon
    <3>6. [code |-> code, size |-> size].code = code /\ [code |-> code, size |-> size].size = size
      OBVIOUS
    <3> QED
      BY <3>3, <3>4, <3>5, <3>6, Zenon DEF Tells
  <2>10. PostInv'
    <3>1. place' # "reading"
      BY <2>5
    <3> QED
      BY <2>5, <2>9, <3>1, PostIs
  <2> QED
    BY <1>1, <2>5, <2>10 DEF Post
<1> QED
  BY <1>2, <1>3
-----------------------------------------------------------------------------
(* Every step keeps the invariant. *)

\* A callback that reads the header, and a next part of it.
LEMMA InHeaderIs ==
    ASSUME ReaderInv, InHeader
    PROVE  /\ posted = <<>> /\ data_pointer = TRUE /\ out = <<>>
           /\ used_temp_buffer = taken /\ taken < HeaderSize
           /\ ~split => taken = 0
BY DEF ReaderInv, ReaderType, BodyInv, PostInv, InHeader, Reading

LEMMA ReadsHeaderIs ==
    ASSUME ReaderInv, ReadsHeader
    PROVE  /\ HeaderBytes \in Nat /\ HeaderBytes > 0 /\ taken + HeaderBytes <= arrived
           /\ taken' = taken + HeaderBytes /\ used_temp_buffer' = taken'
           /\ \/ HeaderLen(HeaderBytes) = 0 /\ taken' < HeaderSize
              \/ /\ HeaderLen(HeaderBytes) \in 4..HeaderSize /\ HeaderSize <= taken'
                 /\ DataStart(HeaderBytes) = HeaderSize
                 /\ ~split => HeaderLen(HeaderBytes) = HeaderSize
<1>1. InHeader /\ HeaderBytes > 0 /\ taken' = taken + HeaderBytes
      /\ used_temp_buffer' = used_temp_buffer + HeaderBytes
  BY DEF ReadsHeader
<1>2. used_temp_buffer = taken /\ taken < HeaderSize /\ (~split => taken = 0)
  BY <1>1, InHeaderIs
<1>3. /\ response \in Responses /\ request \in Requests
      /\ arrived \in Nat /\ taken \in Nat /\ arrived <= Len(Sent) /\ taken <= arrived
  BY DEF ReaderInv, ReaderType
<1>4. HeaderBytes \in Int /\ HeaderBytes <= arrived - taken
  <2>1. request.max_write_size \in Int /\ MaxHttpHeaderSize \in Int
    BY <1>3, RequestIs, HeaderReaderAssumption
  <2>2. Least(MaxHttpHeaderSize - used_temp_buffer, request.max_write_size) \in Int
    BY <1>2, <1>3, <2>1 DEF Least
  <2> QED
    BY <1>3, <2>2 DEF HeaderBytes, ReadLen, Available, Least
<1>5. Len(Sent) \in Nat
  BY <1>3, AnswerIs
<1> DEFINE n == HeaderBytes
<1> HIDE DEF n
<1>6. n \in Nat /\ n > 0 /\ used_temp_buffer + n <= Len(Sent)
  BY <1>1, <1>2, <1>3, <1>4, <1>5 DEF n
<1>7. \/ HeaderLen(n) = 0 /\ used_temp_buffer + n < HeaderSize
      \/ /\ HeaderLen(n) \in 4..HeaderSize /\ HeaderSize <= used_temp_buffer + n
         /\ DataStart(n) = HeaderSize
         /\ used_temp_buffer = 0 => HeaderLen(n) = HeaderSize
  BY <1>2, <1>3, <1>6, HeaderEndIs
<1> QED
  BY <1>1, <1>2, <1>3, <1>4, <1>6, <1>7 DEF n

\* copy_header_remainder_to_buffer gives what was read behind the header.
LEMMA RemainderIs ==
    ASSUME ReaderInv, ReadsHeader, HeaderLen(HeaderBytes) > 0
    PROVE  /\ Remainder(HeaderBytes) = SubSeq(Sent, HeaderSize + 1, taken')
           /\ Remainder(HeaderBytes) \in Seq(STRING)
<1> DEFINE n == HeaderBytes
           upto == taken + n
<1>1. /\ response \in Responses /\ arrived \in Nat /\ taken \in Nat /\ arrived <= Len(Sent)
      /\ request.header_only => response.body = <<>>
  BY DEF ReaderInv, ReaderType
<1>2. /\ Sent \in Seq(STRING) /\ HeaderSize \in Nat /\ Len(Sent) = HeaderSize + Len(response.body)
      /\ HeaderSize >= 7 /\ Len(response.body) \in Nat
  BY <1>1, AnswerIs
<1>3. used_temp_buffer = taken
  BY InHeaderIs DEF ReadsHeader
<1>4. /\ n \in Nat /\ upto <= arrived /\ taken' = upto
      /\ HeaderSize <= upto /\ DataStart(n) = HeaderSize
  BY ReadsHeaderIs
<1> HIDE DEF n
<1>5. SubSeq(Sent, HeaderSize + 1, upto) \in Seq(STRING)
  <2>1. \A i \in (HeaderSize + 1)..upto : Sent[i] \in STRING
    BY <1>1, <1>2, <1>4
  <2> QED
    BY <1>1, <1>2, <1>4, <2>1, SubSeqProperties
<1>6. CASE request.header_only \/ upto = HeaderSize
  <2>1. upto = HeaderSize
    <3>1. request.header_only => Len(Sent) = HeaderSize
      BY <1>1, <1>2
    <3> QED
      BY <1>1, <1>2, <1>4, <1>6, <3>1
  <2>2. SubSeq(Sent, HeaderSize + 1, upto) = <<>>
    BY <1>2, <2>1, SubSeqEmpty
  <2>3. SubSeq(Filled(n), HeaderSize + 1, upto) = <<>>
    BY <1>2, <2>1, SubSeqEmpty
  <2> QED
    BY <1>3, <1>4, <1>5, <2>2, <2>3 DEF Remainder, n
<1>7. CASE ~request.header_only /\ upto > HeaderSize
  <2>1. /\ 1 \in 1..Len(Sent) /\ upto \in 1..Len(Sent)
        /\ HeaderSize + 1 \in 1..(upto - 1 + 1) /\ upto \in 1..(upto - 1 + 1)
        /\ 1 + (HeaderSize + 1) - 1 = HeaderSize + 1 /\ 1 + upto - 1 = upto
    BY <1>1, <1>2, <1>4, <1>7
  <2>2. SubSeq(SubSeq(Sent, 1, upto), HeaderSize + 1, upto)
        = SubSeq(Sent, 1 + (HeaderSize + 1) - 1, 1 + upto - 1)
    BY <1>2, <2>1, SubSeqOfSubSeq
  <2>3. SubSeq(Filled(n), HeaderSize + 1, upto) = SubSeq(Sent, HeaderSize + 1, upto)
    BY <1>3, <2>1, <2>2 DEF Filled
  <2> QED
    BY <1>3, <1>4, <1>5, <1>7, <2>3 DEF Remainder, n
<1> QED
  BY <1>1, <1>2, <1>4, <1>6, <1>7

\* The steps that neither read nor parse.
LEMMA ArriveKeeps ==
    ASSUME ReaderInv, Arrive
    PROVE  ReaderInv'
<1>1. /\ response' = response /\ request' = request /\ split' = split
      /\ place = "wait" /\ ~closed /\ arrived' \in arrived..Len(Sent) /\ fin' \in BOOLEAN
  BY DEF Arrive
<1>2. UNCHANGED <<taken, place, used_temp_buffer, header_info, buffer_left, data_pointer,
                  closed, posted, out>>
  BY DEF Arrive
<1>3. Sent' = Sent /\ HeaderSize' = HeaderSize
      /\ \A info : (Parsed(info)' <=> Parsed(info))
  BY <1>1, AnswerStays
<1>4. Len(Sent) \in Nat
  BY AnswerIs DEF ReaderInv, ReaderType
<1>5. ReaderType'
  BY <1>1, <1>2, <1>3, <1>4 DEF ReaderInv, ReaderType
<1>6. Parsed(header_info)' <=> Parsed(header_info)
  BY <1>1, <1>2, AnswerStays DEF Parsed
<1>7. BodyInv'
  BY <1>1, <1>2, <1>3, <1>6 DEF ReaderInv, BodyInv
<1>8. PostInv'
  <2>1. IsBad' <=> IsBad
    BY <1>1, AnswerStays
  <2>2. posted # <<>> => Tells(posted[1])'
    BY <1>1, <1>2, <2>1 DEF ReaderInv, PostInv, Tells
  <2> QED
    BY <1>1, <1>2, <2>2 DEF ReaderInv, PostInv
<1> QED
  BY <1>5, <1>7, <1>8 DEF ReaderInv

\* The steps that leave the bytes and the header alone.
LEMMA BytesStay ==
    ASSUME ReaderInv, UNCHANGED <<peerVars, taken, used_temp_buffer, header_info, buffer_left,
                                  out, split>>,
           place # "overrun", place' \in {"wait", "reading", "crashed"},
           posted' = <<>> => posted = <<>>,
           data_pointer' \in BOOLEAN, closed' \in BOOLEAN
    PROVE  ReaderType' /\ BodyInv'
<1>1. /\ response' = response /\ request' = request /\ split' = split
      /\ UNCHANGED <<arrived, fin, taken, used_temp_buffer, header_info, buffer_left, out>>
  BY DEF peerVars
<1>2. Sent' = Sent /\ HeaderSize' = HeaderSize
  BY <1>1, AnswerStays
<1>3. Parsed(header_info)' <=> Parsed(header_info)
  BY <1>1, AnswerStays DEF Parsed
<1>4. ReaderType'
  BY <1>1, <1>2 DEF ReaderInv, ReaderType
<1>5. BodyInv'
  BY <1>1, <1>2, <1>3 DEF ReaderInv, BodyInv
<1> QED
  BY <1>4, <1>5

LEMMA ReadingIs ==
    ASSUME ReaderInv, Reading, ~closed
    PROVE  posted = <<>> /\ data_pointer = TRUE /\ place # "overrun"
BY DEF ReaderInv, ReaderType, PostInv, Reading

LEMMA OnReadKeeps ==
    ASSUME ReaderInv, OnRead
    PROVE  ReaderInv'
<1>1. /\ UNCHANGED <<peerVars, taken, used_temp_buffer, header_info, buffer_left, out, split>>
      /\ UNCHANGED <<data_pointer, closed, posted>>
      /\ place = "wait" /\ place' = "reading" /\ data_pointer
  BY DEF OnRead
<1>2. data_pointer' \in BOOLEAN /\ closed' \in BOOLEAN
  BY <1>1 DEF ReaderInv, ReaderType
<1>3. ReaderType' /\ BodyInv'
  BY <1>1, <1>2, BytesStay
<1>4. posted = <<>>
  BY <1>1 DEF ReaderInv, PostInv
<1>5. PostInv'
  BY <1>1, <1>4 DEF ReaderInv, PostInv
<1> QED
  BY <1>3, <1>5 DEF ReaderInv

LEMMA QuietKeeps ==
    ASSUME ReaderInv, WouldBlock \/ ReadClosed
    PROVE  ReaderInv'
<1>1. /\ UNCHANGED <<peerVars, taken, used_temp_buffer, header_info, buffer_left, out, split>>
      /\ UNCHANGED <<data_pointer, closed, posted>>
      /\ place = "reading" /\ place' \in {"wait", "crashed"}
  BY DEF WouldBlock, ReadClosed, OutOfData, Reading
<1>2. data_pointer' \in BOOLEAN /\ closed' \in BOOLEAN
  BY <1>1 DEF ReaderInv, ReaderType
<1>3. ReaderType' /\ BodyInv'
  BY <1>1, <1>2, BytesStay
<1>4. response' = response /\ request' = request /\ arrived' = arrived /\ fin' = fin
  BY <1>1 DEF peerVars
<1>5. PostInv'
  BY <1>1, <1>4, PostStays DEF ReaderInv
<1> QED
  BY <1>3, <1>5 DEF ReaderInv

LEMMA ReadErrorKeeps ==
    ASSUME ReaderInv, ReadError
    PROVE  ReaderInv'
<1>1. /\ UNCHANGED <<peerVars, taken, used_temp_buffer, header_info, buffer_left, out, split>>
      /\ Post("CONNECTION_FAIL", 0) /\ closed' = TRUE /\ place' = "wait"
      /\ Reading /\ ~closed
  BY DEF ReadError
<1>2. posted = <<>> /\ place # "overrun"
  BY <1>1, ReadingIs
<1>3. data_pointer' \in BOOLEAN /\ closed' \in BOOLEAN
  BY <1>1 DEF Post
<1>4. ReaderType' /\ BodyInv'
  BY <1>1, <1>2, <1>3, BytesStay
<1>5. PostInv'
  BY <1>1, <1>2, PlainPost DEF Codes
<1> QED
  BY <1>4, <1>5 DEF ReaderInv

LEMMA HeaderTooLongKeeps ==
    ASSUME ReaderInv, HeaderTooLong
    PROVE  ReaderInv'
<1>1. /\ UNCHANGED <<peerVars, taken, used_temp_buffer, header_info, buffer_left, out, split>>
      /\ Post("BUFFER_OVERFLOW", 0) /\ closed' = TRUE /\ place' \in {"wait", "crashed"}
      /\ InHeader
  BY DEF HeaderTooLong, GivesUp
<1>2. posted = <<>> /\ place # "overrun"
  BY <1>1, InHeaderIs DEF InHeader, Reading
<1>3. data_pointer' \in BOOLEAN /\ closed' \in BOOLEAN
  BY <1>1 DEF Post
<1>4. ReaderType' /\ BodyInv'
  BY <1>1, <1>2, <1>3, BytesStay
<1>5. PostInv'
  BY <1>1, <1>2, PlainPost DEF Codes
<1> QED
  BY <1>4, <1>5 DEF ReaderInv

LEMMA EndOfStreamKeeps ==
    ASSUME ReaderInv, EndOfStream
    PROVE  ReaderInv'
<1>1. /\ UNCHANGED <<peerVars, taken, used_temp_buffer, header_info, buffer_left, out, split>>
      /\ Finish(header_info, out) /\ fin /\ Reading /\ ~closed /\ arrived - taken = 0
  BY DEF EndOfStream, OutOfData, Available
<1>2. posted = <<>> /\ data_pointer = TRUE /\ place # "overrun"
  BY <1>1, ReadingIs
<1>3. response' = response /\ request' = request /\ arrived' = arrived /\ fin' = fin
      /\ split' = split /\ header_info' = header_info /\ out' = out /\ taken' = taken
  BY <1>1 DEF peerVars
<1>4. arrived = taken /\ out \in Seq(STRING)
  BY <1>1 DEF ReaderInv, ReaderType
<1>5. header_info # NoInfo => Parsed(header_info)
  BY DEF ReaderInv, BodyInv
<1>6. PostInv' /\ place' \in {"wait", "crashed"} /\ closed' /\ data_pointer' \in BOOLEAN
  BY <1>1, <1>2, <1>3, <1>4, <1>5, FinishKeeps
<1>7. closed' = TRUE
  BY <1>1 DEF Finish
<1>8. ReaderType' /\ BodyInv'
  BY <1>1, <1>2, <1>6, <1>7, BytesStay
<1> QED
  BY <1>6, <1>8 DEF ReaderInv

\* A next part of the header, or the last.
LEMMA HeaderGoesOnKeeps ==
    ASSUME ReaderInv, HeaderGoesOn
    PROVE  ReaderInv'
<1>1. /\ ReadsHeader /\ HeaderLen(HeaderBytes) = 0 /\ split' = TRUE
      /\ UNCHANGED <<response, request, arrived, fin, place, header_info, buffer_left, out,
                     posted, data_pointer, closed>>
  BY DEF HeaderGoesOn, Stays, peerVars
<1>2. /\ posted = <<>> /\ data_pointer = TRUE /\ out = <<>> /\ header_info = NoInfo
      /\ place = "reading"
  BY <1>1, InHeaderIs DEF ReadsHeader, InHeader, Reading
<1>3. /\ taken' = taken + HeaderBytes /\ used_temp_buffer' = taken' /\ HeaderBytes \in Nat
      /\ taken + HeaderBytes <= arrived /\ taken' < HeaderSize
  BY <1>1, ReadsHeaderIs
<1>4. Sent' = Sent /\ HeaderSize' = HeaderSize
  BY <1>1, AnswerStays
<1>5. taken' \in Nat /\ taken' <= arrived
  BY <1>3 DEF ReaderInv, ReaderType
<1>6. ReaderType'
  BY <1>1, <1>3, <1>4, <1>5 DEF ReaderInv, ReaderType
<1>7. BodyInv'
  BY <1>1, <1>2, <1>3, <1>4 DEF BodyInv
<1>8. PostInv'
  BY <1>1, <1>2 DEF ReaderInv, PostInv
<1> QED
  BY <1>6, <1>7, <1>8 DEF ReaderInv

LEMMA BadHeaderKeeps ==
    ASSUME ReaderInv, BadHeader
    PROVE  ReaderInv'
<1>1. /\ ReadsHeader /\ HeaderLen(HeaderBytes) > 0
      /\ Post("BAD_RESPONSE", 0) /\ place' \in {"wait", "crashed"}
      /\ UNCHANGED <<response, request, arrived, fin, header_info, buffer_left, out, closed, split>>
  BY DEF BadHeader, GivesUp, peerVars
<1>2. /\ posted = <<>> /\ out = <<>> /\ header_info = NoInfo
  BY <1>1, InHeaderIs DEF ReadsHeader, InHeader
<1>3. /\ taken' = taken + HeaderBytes /\ used_temp_buffer' = taken' /\ HeaderBytes \in Nat
      /\ taken + HeaderBytes <= arrived
      /\ ~split => HeaderLen(HeaderBytes) = HeaderSize
  BY <1>1, ReadsHeaderIs
<1>4. Sent' = Sent /\ HeaderSize' = HeaderSize /\ (IsBad' <=> IsBad)
  BY <1>1, AnswerStays
<1>5. taken' \in Nat /\ taken' <= arrived
  BY <1>3 DEF ReaderInv, ReaderType
<1>6. ReaderType'
  BY <1>1, <1>3, <1>4, <1>5 DEF ReaderInv, ReaderType, Post
<1>7. posted' # <<>>
  <2>1. posted' = <<[code |-> "BAD_RESPONSE", size |-> 0]>>
    BY <1>1, <1>2 DEF Post
  <2> QED
    BY <2>1
<1>8. BodyInv'
  BY <1>1, <1>2, <1>7 DEF BodyInv
<1>9. ~split => IsBad
  <2> SUFFICES ASSUME ~split PROVE IsBad
    OBVIOUS
  <2> DEFINE info == GetResponseHeader(HeaderSize)
  <2>1. info = NoInfo \/ info.response_code < 0
    BY <1>1, <1>3 DEF BadHeader
  <2>2. HeaderSize \in Nat /\ response.code \in 100..599 /\ response \in Responses
    BY AnswerIs DEF ReaderInv, ReaderType
  <2>3. Code(HeaderSize) = response.code
    BY <2>2, CodeIs
  <2>4. CASE response.code \in 300..399 /\ ~Seen("location", HeaderSize)
    BY <2>4 DEF IsBad
  <2>5. CASE ~(response.code \in 300..399 /\ ~Seen("location", HeaderSize))
    <3>1. info.response_code = response.code
      BY <2>3, <2>5 DEF GetResponseHeader
    <3>2. info # NoInfo
      BY <2>2, <3>1 DEF NoInfo
    <3> QED
      BY <2>1, <2>2, <3>1, <3>2
  <2> QED
    BY <2>4, <2>5
<1>10. PostInv'
  <2>1. Tells([code |-> "BAD_RESPONSE", size |-> 0])'
    BY <1>1, <1>4, <1>9 DEF Tells
  <2>2. place' # "reading"
    BY <1>1
  <2>3. "BAD_RESPONSE" \in Codes /\ 0 \in Int
    BY DEF Codes
  <2> QED
    BY <1>1, <1>2, <2>1, <2>2, <2>3, PostIs
<1> QED
  BY <1>6, <1>8, <1>10 DEF ReaderInv

LEMMA HeaderEndsKeeps ==
    ASSUME ReaderInv, HeaderEnds
    PROVE  ReaderInv'
<1> DEFINE size  == HeaderLen(HeaderBytes)
           info  == GetResponseHeader(size)
           bytes == Remainder(HeaderBytes)
<1>1. /\ ReadsHeader /\ size > 0
      /\ info # NoInfo /\ info.response_code >= 0 /\ header_info' = info
      /\ UNCHANGED <<response, request, arrived, fin, split>>
  BY DEF HeaderEnds, peerVars
<1>2. /\ posted = <<>> /\ data_pointer = TRUE /\ out = <<>> /\ header_info = NoInfo
      /\ place = "reading"
  BY <1>1, InHeaderIs DEF ReadsHeader, InHeader, Reading
<1>3. /\ taken' = taken + HeaderBytes /\ used_temp_buffer' = taken' /\ HeaderBytes \in Nat
      /\ taken + HeaderBytes <= arrived /\ HeaderSize <= taken'
      /\ size \in 4..HeaderSize
      /\ ~split => size = HeaderSize
  BY <1>1, ReadsHeaderIs
<1>4. bytes = SubSeq(Sent, HeaderSize + 1, taken') /\ bytes \in Seq(STRING)
  BY <1>1, RemainderIs
<1>5. Sent' = Sent /\ HeaderSize' = HeaderSize
      /\ \A i : (Parsed(i)' <=> Parsed(i))
  BY <1>1, AnswerStays
<1>6. Parsed(info)
  BY <1>3 DEF Parsed
<1>7. taken' \in Nat /\ taken' <= arrived
  BY <1>3 DEF ReaderInv, ReaderType
<1>8. CASE Overruns(bytes)
  <2>1. place' = "overrun" /\ UNCHANGED <<out, buffer_left, posted, data_pointer, closed>>
    BY <1>8 DEF HeaderEnds, Stays
  <2>2. ReaderType'
    BY <1>1, <1>3, <1>5, <1>7, <2>1 DEF ReaderInv, ReaderType
  <2>3. Parsed(header_info)'
    BY <1>1, <1>5, <1>6
  <2>4. BodyInv'
    BY <1>1, <1>2, <1>3, <1>5, <2>1, <2>3 DEF BodyInv
  <2>5. PostInv'
    BY <1>2, <2>1 DEF ReaderInv, PostInv
  <2> QED
    BY <2>2, <2>4, <2>5 DEF ReaderInv
<1>9. CASE ~Overruns(bytes)
  <2>1. Write(bytes)
    BY <1>9 DEF HeaderEnds
  <2>2. out' = bytes /\ buffer_left' \in Int
    <3>1. out' = bytes
      BY <1>2, <1>4, <2>1, ConcatEmptySeq DEF Write
    <3>2. buffer_left \in Int /\ Len(bytes) \in Int
      BY <1>4 DEF ReaderInv, ReaderType
    <3>3. buffer_left' \in Int
      BY <2>1, <3>2 DEF Write
    <3> QED
      BY <3>1, <3>3
  <2>3. \/ Fills(bytes) /\ Post("BUFFER_OVERFLOW", 0) /\ closed' = TRUE
           /\ place' \in {"crashed", "reading"}
        \/ HasEndCode(info) /\ Finish(info, out')
        \/ ~HasEndCode(info) /\ place' = "reading"
           /\ UNCHANGED <<posted, data_pointer, closed>>
    BY <1>9 DEF HeaderEnds, Stays
  <2>4. /\ PostInv' /\ place' \in {"wait", "reading", "crashed"}
        /\ data_pointer' \in BOOLEAN /\ closed' \in BOOLEAN
    <3>1. CASE Fills(bytes) /\ Post("BUFFER_OVERFLOW", 0) /\ closed' = TRUE
               /\ place' \in {"crashed", "reading"}
      <4>1. PostInv'
        BY <1>1, <1>2, <3>1, PlainPost DEF Codes
      <4> QED
        BY <3>1, <4>1 DEF Post
    <3>2. CASE HasEndCode(info) /\ Finish(info, out')
      <4>1. info.response_code # 200
        BY <3>2 DEF HasEndCode
      <4>2. PostInv' /\ place' \in {"wait", "crashed"} /\ closed' /\ data_pointer' \in BOOLEAN
        BY <1>1, <1>2, <1>4, <1>6, <2>2, <3>2, <4>1, FinishKeeps
      <4>3. closed' = TRUE
        BY <3>2 DEF Finish
      <4> QED
        BY <4>2, <4>3
    <3>3. CASE ~HasEndCode(info) /\ place' = "reading"
               /\ UNCHANGED <<posted, data_pointer, closed>>
      <4>1. PostInv'
        BY <1>2, <3>3 DEF ReaderInv, PostInv
      <4> QED
        BY <3>3, <4>1 DEF ReaderInv, ReaderType
    <3> QED
      BY <2>3, <3>1, <3>2, <3>3
  <2>5. ReaderType'
    BY <1>1, <1>3, <1>4, <1>5, <1>7, <2>2, <2>4 DEF ReaderInv, ReaderType
  <2>6. Parsed(header_info)'
    BY <1>1, <1>5, <1>6
  <2>7. BodyInv'
    BY <1>1, <1>3, <1>4, <1>5, <2>2, <2>4, <2>6 DEF BodyInv
  <2> QED
    BY <2>4, <2>5, <2>7 DEF ReaderInv
<1> QED
  BY <1>8, <1>9

\* A part of the body.
LEMMA ReadBodyKeeps ==
    ASSUME ReaderInv, ReadBody
    PROVE  ReaderInv'
<1> DEFINE upto  == taken + BodyBytes
           bytes == SubSeq(Sent, taken + 1, upto)
<1>1. /\ Reading /\ header_info # NoInfo /\ ~closed /\ BodyBytes > 0 /\ taken' = upto
      /\ Write(bytes)
      /\ \/ Post("BUFFER_OVERFLOW", 0) /\ closed' = TRUE /\ place' \in {"wait", "crashed"}
         \/ UNCHANGED <<posted, data_pointer, closed, place>>
      /\ UNCHANGED <<response, request, arrived, fin, used_temp_buffer, header_info, split>>
  BY DEF ReadBody, peerVars, GivesUp, Stays
<1>2. posted = <<>> /\ data_pointer = TRUE /\ place = "reading"
  BY <1>1, ReadingIs DEF Reading
<1>3. /\ Sent \in Seq(STRING) /\ Len(Sent) \in Nat /\ HeaderSize \in Nat
      /\ taken \in Nat /\ arrived \in Nat /\ taken <= arrived /\ arrived <= Len(Sent)
      /\ buffer_left \in Int /\ request \in Requests
  BY AnswerIs DEF ReaderInv, ReaderType
<1>4. BodyBytes \in Int /\ BodyBytes <= arrived - taken
  <2>1. request.max_write_size \in Int /\ MaxHttpHeaderSize \in Int
    BY <1>3, RequestIs, HeaderReaderAssumption
  <2>2. Least(buffer_left, request.max_write_size) \in Int
    BY <1>3, <2>1 DEF Least
  <2> QED
    BY <1>3, <2>1, <2>2 DEF BodyBytes, ReadLen, Available, Least
<1>5. upto \in Nat /\ taken < upto /\ upto <= arrived
  BY <1>1, <1>3, <1>4
<1> HIDE DEF upto
<1>6. bytes \in Seq(STRING)
  <2>1. \A i \in (taken + 1)..upto : Sent[i] \in STRING
    BY <1>3, <1>5
  <2> QED
    BY <1>3, <1>5, <2>1, SubSeqProperties
<1>7. taken >= HeaderSize /\ Parsed(header_info) /\ out = SubSeq(Sent, HeaderSize + 1, taken)
      /\ out \in Seq(STRING)
  BY <1>1, <1>2 DEF ReaderInv, BodyInv, ReaderType
<1>8. out' = SubSeq(Sent, HeaderSize + 1, upto) /\ out' \in Seq(STRING)
  <2>1. out' = out \o bytes
    BY <1>1 DEF Write
  <2>2. HeaderSize + 1 \in 1..(Len(Sent) + 1) /\ taken \in ((HeaderSize + 1) - 1)..Len(Sent)
        /\ upto \in taken..Len(Sent)
    BY <1>3, <1>5, <1>7
  <2>3. SubSeq(Sent, HeaderSize + 1, taken) \o SubSeq(Sent, taken + 1, upto)
        = SubSeq(Sent, HeaderSize + 1, upto)
    BY <1>3, <2>2, ConcatAdjacentSubSeq
  <2>4. out' \in Seq(STRING)
    BY <1>6, <1>7, <2>1, ConcatProperties
  <2> QED
    BY <1>7, <2>1, <2>3, <2>4
<1>9. buffer_left' \in Int
  <2>1. Len(bytes) \in Int
    BY <1>6
  <2> HIDE DEF bytes
  <2>2. buffer_left' = buffer_left \/ buffer_left' = buffer_left - Len(bytes)
    BY <1>1 DEF Write
  <2> QED
    BY <1>3, <2>1, <2>2
<1>10. Sent' = Sent /\ HeaderSize' = HeaderSize /\ (Parsed(header_info)' <=> Parsed(header_info))
  BY <1>1, AnswerStays DEF Parsed
<1>11. /\ PostInv' /\ place' \in {"wait", "reading", "crashed"}
       /\ data_pointer' \in BOOLEAN /\ closed' \in BOOLEAN
  <2>1. CASE Post("BUFFER_OVERFLOW", 0) /\ closed' = TRUE /\ place' \in {"wait", "crashed"}
    <3>1. PostInv'
      BY <1>2, <2>1, PlainPost DEF Codes
    <3> QED
      BY <2>1, <3>1 DEF Post
  <2>2. CASE UNCHANGED <<posted, data_pointer, closed, place>>
    <3>1. PostInv'
      BY <1>2, <2>2 DEF ReaderInv, PostInv
    <3> QED
      BY <1>2, <2>2, <3>1 DEF ReaderInv, ReaderType
  <2> QED
    BY <1>1, <2>1, <2>2
<1>12. ReaderType'
  BY <1>1, <1>3, <1>5, <1>8, <1>9, <1>10, <1>11 DEF ReaderInv, ReaderType
<1>13. BodyInv'
  BY <1>1, <1>5, <1>3, <1>7, <1>8, <1>10, <1>11 DEF BodyInv
<1> QED
  BY <1>11, <1>12, <1>13 DEF ReaderInv
-----------------------------------------------------------------------------
(* The theorems. *)

LEMMA InitReader ==
    ASSUME Init
    PROVE  ReaderInv
<1>1. /\ Len(Sent) \in Nat /\ HeaderSize \in Nat /\ HeaderSize > 0
      /\ request.allocated_size \in Nat
  BY AnswerIs, RequestIs DEF Init
<1>2. ReaderType
  <2>1. out \in Seq(STRING) /\ buffer_left \in Int
    BY <1>1 DEF Init
  <2>2. /\ response \in Responses /\ request \in Requests
        /\ request.header_only => response.body = <<>>
    BY DEF Init
  <2>3. arrived = 0 /\ taken = 0 /\ used_temp_buffer = 0
    BY DEF Init
  <2>4. /\ place = "wait"
        /\ fin = FALSE /\ data_pointer = TRUE /\ closed = FALSE /\ split = FALSE
    BY DEF Init
  <2>5. place \in {"wait", "reading", "overrun", "crashed"}
    BY <2>4
  <2>6. /\ fin \in BOOLEAN /\ data_pointer \in BOOLEAN /\ closed \in BOOLEAN
        /\ split \in BOOLEAN
    BY <2>4
  <2>7. /\ arrived \in Nat /\ arrived <= Len(Sent) /\ taken \in Nat /\ taken <= arrived
        /\ used_temp_buffer \in Nat
    BY <1>1, <2>3
  <2> QED
    BY <2>1, <2>2, <2>5, <2>6, <2>7, Zenon DEF ReaderType
<1>3. BodyInv
  BY <1>1 DEF Init, BodyInv
<1>4. PostInv
  BY DEF Init, PostInv
<1> QED
  BY <1>2, <1>3, <1>4 DEF ReaderInv

LEMMA NextReader ==
    ASSUME ReaderInv, [Next]_vars
    PROVE  ReaderInv'
<1>1. CASE Arrive
  BY <1>1, ArriveKeeps
<1>2. CASE OnRead
  BY <1>2, OnReadKeeps
<1>3. CASE ReadRuns
  <2>1. CASE HeaderTooLong
    BY <2>1, HeaderTooLongKeeps
  <2>2. CASE HeaderGoesOn
    BY <2>2, HeaderGoesOnKeeps
  <2>3. CASE BadHeader
    BY <2>3, BadHeaderKeeps
  <2>4. CASE HeaderEnds
    BY <2>4, HeaderEndsKeeps
  <2>5. CASE ReadBody
    BY <2>5, ReadBodyKeeps
  <2>6. CASE ReadClosed \/ WouldBlock
    BY <2>6, QuietKeeps
  <2>7. CASE EndOfStream
    BY <2>7, EndOfStreamKeeps
  <2> QED
    BY <1>3, <2>1, <2>2, <2>3, <2>4, <2>5, <2>6, <2>7 DEF ReadRuns
<1>4. CASE ReadError
  BY <1>4, ReadErrorKeeps
<1>5. CASE UNCHANGED vars
  <2>1. /\ UNCHANGED <<response, request, arrived, fin, taken, place, used_temp_buffer,
                       header_info, buffer_left, data_pointer, closed, posted, out, split>>
    BY <1>5 DEF vars, peerVars
  <2>2. Sent' = Sent /\ HeaderSize' = HeaderSize
        /\ (Parsed(header_info)' <=> Parsed(header_info))
    BY <2>1, AnswerStays DEF Parsed
  <2>3. ReaderType'
    BY <2>1, <2>2 DEF ReaderInv, ReaderType
  <2>4. BodyInv'
    BY <2>1, <2>2 DEF ReaderInv, BodyInv
  <2>5. PostInv'
    BY <2>1, PostStays DEF ReaderInv
  <2> QED
    BY <2>3, <2>4, <2>5 DEF ReaderInv
<1> QED
  BY <1>1, <1>2, <1>3, <1>4, <1>5 DEF Next, Finished

\* The reader's variables keep their types, what was written follows from what was read, and
\* a result from the header and the end of the stream.
THEOREM ReaderInvariant == Spec => []ReaderInv
<1>1. Init => ReaderInv
  BY InitReader
<1>2. ReaderInv /\ [Next]_vars => ReaderInv'
  BY NextReader
<1> QED
  BY <1>1, <1>2, PTL DEF Spec

\* What was written for the caller is the beginning of the body, wherever the reads have cut
\* the answer: no byte of the header, no byte twice and none left out.
THEOREM BodyIsExact == Spec => []BodyExact
<1>1. ASSUME ReaderInv PROVE BodyExact
  <2>1. /\ response.header \in Seq(STRING) /\ response.body \in Seq(STRING)
        /\ HeaderSize \in Nat /\ Len(response.body) \in Nat
        /\ Len(Sent) = HeaderSize + Len(response.body)
        /\ taken \in Nat /\ arrived \in Nat /\ taken <= arrived /\ arrived <= Len(Sent)
    BY <1>1, AnswerIs DEF ReaderInv, ReaderType
  <2>2. CASE out = <<>>
    <3>1. SubSeq(response.body, 1, 0) = <<>> /\ Len(<<>>) = 0
      BY SubSeqEmpty
    <3> QED
      BY <2>1, <2>2, <3>1 DEF BodyExact
  <2>3. CASE out # <<>>
    <3>1. taken >= HeaderSize /\ out = SubSeq(Sent, HeaderSize + 1, taken)
      BY <1>1, <2>3 DEF ReaderInv, BodyInv
    <3>2. taken > HeaderSize
      <4>1. taken = HeaderSize => SubSeq(Sent, HeaderSize + 1, taken) = <<>>
        BY <2>1, SubSeqEmpty
      <4> QED
        BY <2>1, <2>3, <3>1, <4>1
    <3> DEFINE n == taken - HeaderSize
    <3>3. n \in 1..Len(response.body)
      BY <2>1, <3>2
    <3>4. out = SubSeq(response.body, 1, n)
      <4>1. HeaderSize = Len(response.header) /\ Sent = response.header \o response.body
        BY DEF HeaderSize, Sent
      <4>2. /\ HeaderSize + 1 \in (HeaderSize + 1)..(HeaderSize + Len(response.body))
            /\ taken \in (HeaderSize + 1)..(HeaderSize + Len(response.body))
            /\ (HeaderSize + 1) - HeaderSize = 1
        BY <2>1, <3>2, <3>3
      <4>3. ASSUME NEW h, h = Len(response.header),
                   h + 1 \in (h + 1)..(h + Len(response.body)),
                   taken \in (h + 1)..(h + Len(response.body))
            PROVE  SubSeq(response.header \o response.body, h + 1, taken)
                   = SubSeq(response.body, (h + 1) - h, taken - h)
        BY <2>1, <4>3, SubSeqOfConcat2
      <4>4. SubSeq(Sent, HeaderSize + 1, taken)
            = SubSeq(response.body, (HeaderSize + 1) - HeaderSize, taken - HeaderSize)
        BY <4>1, <4>2, <4>3, Zenon
      <4> QED
        BY <3>1, <4>2, <4>4
    <3> HIDE DEF n
    <3>5. Len(out) = n
      <4>1. \A i \in 1..n : response.body[i] \in STRING
        BY <2>1, <3>3
      <4>2. 1 \in Int /\ n \in Int /\ 1 <= n /\ n - 1 + 1 = n
        BY <3>3
      <4>3. Len(SubSeq(response.body, 1, n)) = n - 1 + 1
        BY <4>1, <4>2, SubSeqProperties
      <4> QED
        BY <3>4, <4>2, <4>3
    <3> QED
      BY <2>1, <3>3, <3>4, <3>5 DEF BodyExact
  <2> QED
    BY <2>2, <2>3
<1> QED
  BY <1>1, ReaderInvariant, PTL

\* The end sequence of the header is found by the read that brings its last byte, also when
\* it began in an earlier one, and nothing before it is taken for the end.
THEOREM HeaderEndIsFound == Spec => []HeaderEndFound
<1>1. ASSUME ReaderInv PROVE HeaderEndFound
  <2>1. taken \in Nat /\ HeaderSize \in Nat
    BY <1>1, AnswerIs DEF ReaderInv, ReaderType
  <2> QED
    BY <1>1, <2>1 DEF ReaderInv, BodyInv, HeaderEndFound
<1> QED
  BY <1>1, ReaderInvariant, PTL

\* Among the results there is but the one that PostInv tells of.
LEMMA OneResult ==
    ASSUME ReaderInv
    PROVE  /\ Len(posted) <= 1
           /\ \A k \in DOMAIN posted : Tells(posted[k])
<1>1. posted \in Seq([code : Codes, size : Int]) /\ (posted # <<>> => Len(posted) = 1 /\ Tells(posted[1]))
  BY DEF ReaderInv, PostInv
<1>2. CASE posted = <<>>
  BY <1>2
<1>3. CASE posted # <<>>
  <2>1. \A k \in DOMAIN posted : k = 1
    BY <1>1, <1>3
  <2>2. Tells(posted[1]) /\ Len(posted) = 1
    BY <1>1, <1>3
  <2>3. ASSUME NEW k \in DOMAIN posted PROVE Tells(posted[k])
    <3>1. posted[k] = posted[1]
      BY <2>1
    <3> QED
      BY <2>2, <3>1
  <2>4. Len(posted) <= 1
    BY <2>2
  <2> QED
    BY <2>3, <2>4
<1> QED
  BY <1>2, <1>3

\* A success for an answer of 200 comes after the end of the stream and with every byte that
\* the peer sent before it.
THEOREM OkIsComplete == Spec => []OkMeansComplete
<1>1. ASSUME ReaderInv PROVE OkMeansComplete
  <2> SUFFICES ASSUME NEW k \in DOMAIN posted,
                      posted[k].code = "OK", header_info.response_code = 200
               PROVE  /\ fin
                      /\ out = SubSeq(Sent, HeaderSize + 1, arrived)
                      /\ IF request.header_only
                         THEN ~split /\ Seen("content-length", HeaderSize) =>
                                  posted[k].size = response.length
                         ELSE posted[k].size = Len(out)
    BY DEF OkMeansComplete
  <2>1. /\ header_info # NoInfo /\ fin /\ taken = arrived
        /\ posted[k].size = IF request.header_only THEN header_info.content_length ELSE Len(out)
    BY <1>1, OneResult DEF Tells
  <2>2. Parsed(header_info) /\ response \in Responses
    BY <1>1, <2>1 DEF ReaderInv, BodyInv, ReaderType
  <2>3. out = SubSeq(Sent, HeaderSize + 1, arrived)
    <3>1. CASE place # "overrun"
      BY <1>1, <2>1, <3>1 DEF ReaderInv, BodyInv
    <3>2. CASE place = "overrun"
      <4>1. posted = <<>>
        BY <1>1, <3>2 DEF ReaderInv, BodyInv
      <4> QED
        BY <4>1
    <3> QED
      BY <3>1, <3>2
  <2>4. ASSUME request.header_only, ~split, Seen("content-length", HeaderSize)
        PROVE  header_info.content_length = response.length
    <3>1. header_info = GetResponseHeader(HeaderSize)
      BY <2>1, <2>2, <2>4, ParsedIs
    <3> QED
      BY <2>1, <2>4, <3>1 DEF GetResponseHeader
  <2> QED
    BY <2>1, <2>3, <2>4
<1> QED
  BY <1>1, ReaderInvariant, PTL

\* A request gets at most one result, a success or a redirection only for an answer that is
\* one, and a bad response in error only when reads have split the header.
THEOREM OutcomeIsRight == Spec => []RightOutcome
<1>1. ASSUME ReaderInv PROVE RightOutcome
  <2>1. ASSUME header_info # NoInfo
        PROVE  /\ Success(header_info.response_code) => response.code \in 200..299
               /\ header_info.redirect => response.code \in 300..399
    <3>1. Parsed(header_info) /\ response \in Responses
      BY <1>1, <2>1 DEF ReaderInv, BodyInv, ReaderType
    <3>2. /\ header_info.response_code \in Int
          /\ header_info.response_code >= 100 => header_info.response_code = response.code
          /\ header_info.redirect <=> header_info.response_code \in 300..399
      BY <2>1, <3>1, ParsedIs
    <3>3. Success(header_info.response_code) => response.code \in 200..299
      BY <3>2 DEF Success
    <3>4. header_info.response_code \in 300..399 => response.code \in 300..399
      BY <3>2
    <3> QED
      BY <3>2, <3>3, <3>4, Zenon
  <2>2. Len(posted) <= 1 /\ \A k \in DOMAIN posted : Tells(posted[k])
    BY <1>1, OneResult
  <2>3. ASSUME NEW k \in DOMAIN posted
        PROVE  /\ posted[k].code = "OK" => response.code \in 200..299
               /\ posted[k].code = "redirect" => response.code \in 300..399
               /\ posted[k].code = "BAD_RESPONSE" /\ ~split => IsBad
    <3>1. Tells(posted[k])
      BY <2>2
    <3> QED
      BY <2>1, <3>1, Zenon DEF Tells
  <2> QED
    BY <2>2, <2>3, Zenon DEF RightOutcome, IsBad
<1> QED
  BY <1>1, ReaderInvariant, PTL
=============================================================================
