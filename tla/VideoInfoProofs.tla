--------------------------- MODULE VideoInfoProofs ---------------------------
(***************************************************************************)
(* What split_urls and findformat make of any text of a page: every piece  *)
(* that is kept becomes one entry, which says what the piece says, and     *)
(* sorting loses none.                                                     *)
(***************************************************************************)
EXTENDS VideoInfo, FiniteSetTheorems, FunctionTheorems, SequenceTheorems, TLAPS

-----------------------------------------------------------------------------
(* Induction by the least counterexample. *)

\* Numbers have a least one.
LEMMA LeastElement ==
    ASSUME NEW T \in SUBSET Nat, T # {}
    PROVE  \E x \in T : \A y \in T : x <= y
<1>1. \E x \in T : \A y \in T : ~ (<<y, x>> \in OpToRel(<, Nat))
  BY WFMin, NatLessThanWellFounded, Zenon
<1>2. \E x \in T : \A y \in T : ~(y < x)
  BY <1>1, Zenon DEF OpToRel
<1> QED
  BY <1>2

\* A property of the numbers up to n, as the set T of those that have it.
LEMMA UpTo ==
    ASSUME NEW n \in Nat, NEW T, 0 \in T, \A i \in 1..n : i - 1 \in T => i \in T
    PROVE  0..n \subseteq T
<1> SUFFICES ASSUME (0..n) \ T # {} PROVE FALSE
  OBVIOUS
<1>1. (0..n) \ T \in SUBSET Nat
  OBVIOUS
<1>2. PICK x \in (0..n) \ T : \A y \in (0..n) \ T : x <= y
  BY <1>1, LeastElement
<1>3. x \in 1..n /\ x - 1 \in 0..n /\ x - 1 \in T
  BY <1>2
<1> QED
  BY <1>2, <1>3
-----------------------------------------------------------------------------
(* split_urls *)

\* split is what the recursion of SplitPasses defines.
Split(pieces, adaptive, split) ==
    split = [i \in 0..Len(pieces) |->
                IF i = 0 THEN [list |-> <<>>, slot |-> EmptyEntry]
                ELSE SplitPiece(split[i - 1], pieces[i], adaptive)]

\* There is such a function.
LEMMA SplitDefined ==
    ASSUME NEW S, NEW pieces \in Seq(S), NEW adaptive
    PROVE  Split(pieces, adaptive, SplitPasses(pieces, adaptive))
<1> DEFINE start == [list |-> <<>>, slot |-> EmptyEntry]
           step(i, split) == SplitPiece(split, pieces[i], adaptive)
           ToN(n, f) == f = [i \in 0..n |-> IF i = 0 THEN start ELSE step(i, f[i - 1])]
           T == {n \in 0..Len(pieces) : \E f : ToN(n, f)}
<1>0. Len(pieces) \in Nat
  OBVIOUS
<1>1. 0 \in T
  <2> DEFINE f == [i \in 0..0 |-> start]
  <2>0. 0..0 = {0}
    OBVIOUS
  <2> HIDE DEF start, step
  <2>1. ToN(0, f)
    BY <2>0
  <2> HIDE DEF ToN
  <2> QED
    BY <1>0, <2>1
<1>2. ASSUME NEW n \in 1..Len(pieces), n - 1 \in T PROVE n \in T
  <2> HIDE DEF start, step
  <2>1. PICK f : ToN(n - 1, f)
    BY <1>2
  <2> DEFINE g == [i \in 0..n |-> IF i = n THEN step(n, f[n - 1]) ELSE f[i]]
  <2>2. \A i \in 0..(n - 1) : f[i] = IF i = 0 THEN start ELSE step(i, f[i - 1])
    BY <2>1
  <2>3. \A i \in 0..(n - 1) : g[i] = f[i]
    OBVIOUS
  <2>4. g[n] = step(n, g[n - 1])
    OBVIOUS
  <2>5. \A i \in 0..n : g[i] = IF i = 0 THEN start ELSE step(i, g[i - 1])
    <3> SUFFICES ASSUME NEW i \in 0..n
                 PROVE  g[i] = IF i = 0 THEN start ELSE step(i, g[i - 1])
      OBVIOUS
    <3>1. CASE i = n
      BY <2>4, <3>1
    <3>2. CASE i # n /\ i # 0
      <4>1. i \in 0..(n - 1) /\ i - 1 \in 0..(n - 1)
        BY <3>2
      <4>2. g[i] = f[i] /\ g[i - 1] = f[i - 1]
        BY <2>3, <4>1
      <4> HIDE DEF g
      <4> QED
        BY <2>2, <3>2, <4>1, <4>2
    <3>3. CASE i = 0
      <4>1. g[0] = f[0]
        BY <2>3
      <4> QED
        BY <2>2, <3>3, <4>1
    <3> QED
      BY <3>1, <3>2, <3>3
  <2>6. ToN(n, g)
    <3>1. g = [i \in 0..n |-> g[i]]
      OBVIOUS
    <3> HIDE DEF g
    <3> QED
      BY <2>5, <3>1
  <2> HIDE DEF ToN, g
  <2> QED
    BY <1>0, <2>6
<1>3. Len(pieces) \in T
  <2> HIDE DEF T
  <2>1. \A n \in 1..Len(pieces) : n - 1 \in T => n \in T
    BY <1>2
  <2>2. 0..Len(pieces) \subseteq T
    BY <1>0, <1>1, <2>1, UpTo
  <2> QED
    BY <1>0, <2>2
<1>4. \E f : Split(pieces, adaptive, f)
  BY <1>3 DEF Split
<1>5. SplitPasses(pieces, adaptive) = CHOOSE f : Split(pieces, adaptive, f)
  BY DEF SplitPasses, Split
<1> QED
  BY <1>4, <1>5

\* One more element at the end of an enumeration.
LEMMA BijectionGrows ==
    ASSUME NEW n \in Nat, NEW A, NEW f \in Bijection(1..n, A), NEW x, x \notin A
    PROVE  [k \in 1..(n + 1) |-> IF k = n + 1 THEN x ELSE f[k]] \in Bijection(1..(n + 1), A \cup {x})
<1> DEFINE g == [k \in 1..(n + 1) |-> IF k = n + 1 THEN x ELSE f[k]]
<1>1. /\ f \in [1..n -> A]
      /\ \A a, b \in 1..n : f[a] = f[b] => a = b
      /\ \A t \in A : \E a \in 1..n : f[a] = t
  BY Fun_BijectionProperties
<1>2. g \in [1..(n + 1) -> A \cup {x}]
  BY <1>1
<1>3. \A a, b \in 1..(n + 1) : g[a] = g[b] => a = b
  BY <1>1
<1>4. \A t \in A \cup {x} : \E a \in 1..(n + 1) : g[a] = t
  <2> SUFFICES ASSUME NEW t \in A \cup {x} PROVE \E a \in 1..(n + 1) : g[a] = t
    OBVIOUS
  <2>1. CASE t = x
    BY <2>1
  <2>2. CASE t \in A
    BY <1>1, <2>2
  <2> QED
    BY <2>1, <2>2
<1> HIDE DEF g
<1>5. g \in Bijection(1..(n + 1), A \cup {x})
  BY <1>2, <1>3, <1>4, Fun_IsBij
<1> QED
  BY <1>5 DEF g

\* The url of the entry is that of the piece, and in the adaptive list the rest as well.
Tells(pieces, adaptive, i, entry) ==
    Names(pieces, i, entry) /\ (adaptive => Says(pieces, i, entry))

\* The next entry holds at most what cut off pieces left there after the last one kept.
Left(pieces, i, slot) ==
    /\ slot.url = ""
    /\ \/ slot.type = NoType
       \/ \E j \in CutBefore(pieces, i + 1) : slot.type = pieces[j].type
    /\ \/ slot.bitrate = 0
       \/ \E j \in CutBefore(pieces, i + 1) : slot.bitrate = pieces[j].bitrate

\* After i passes of the loop of split_urls: the list has one entry for each piece that was
\* kept.
SplitInv(pieces, adaptive, i, list, slot) ==
    /\ list \in Seq(EntryType) /\ slot \in EntryType
    /\ Left(pieces, i, slot)
    /\ \E source \in Bijection(1..Len(list), {k \in KeptPieces(pieces) : k <= i}) :
          ~FreesForeign(pieces) =>
              \A k \in 1..Len(list) : Tells(pieces, adaptive, source[k], list[k])

LEMMA EmptyEntryType ==
    EmptyEntry \in EntryType /\ \A pieces, i : Left(pieces, i, EmptyEntry)
<1> NoType \in PieceType
  BY DEF PieceType
<1> QED
  BY DEF EmptyEntry, EntryType, Left

\* A piece that is not kept leaves what was left, and if it is cut off itself.
LEMMA CutBeforeGrows ==
    ASSUME NEW pieces, NEW i \in Nat, i \notin KeptPieces(pieces)
    PROVE  /\ CutBefore(pieces, i) \subseteq CutBefore(pieces, i + 1)
           /\ i > 0 /\ pieces[i].itag /\ pieces[i].url = "cut" => i \in CutBefore(pieces, i + 1)
<1>1. ASSUME NEW j \in 1..(i - 1), \A k \in j..(i - 1) : k \notin KeptPieces(pieces)
      PROVE  j \in 1..i /\ \A k \in j..i : k \notin KeptPieces(pieces)
  <2>1. \A k \in j..i : k \in j..(i - 1) \/ k = i
    OBVIOUS
  <2> QED
    BY <1>1, <2>1
<1>2. i + 1 - 1 = i /\ (i > 0 => i \in 1..i) /\ \A k \in i..i : k = i
  OBVIOUS
<1> QED
  BY <1>1, <1>2 DEF CutBefore

\* What Fill makes of an entry.
LEMMA FillType ==
    ASSUME NEW slot \in EntryType, NEW piece \in Piece, NEW adaptive
    PROVE  /\ Fill(slot, piece, adaptive) \in EntryType
           /\ Fill(slot, piece, adaptive).type =
                 IF piece.type = NoType THEN slot.type ELSE piece.type
           /\ Fill(slot, piece, adaptive).url =
                 IF piece.url \in NoUrls THEN slot.url ELSE piece.url
           /\ Fill(slot, piece, adaptive).bitrate =
                 IF adaptive /\ piece.bitrate # NoBitrate THEN piece.bitrate ELSE slot.bitrate
<1>1. /\ piece.type \in PieceType /\ piece.url \in STRING
      /\ piece.bitrate \in Nat \cup {NoBitrate}
  BY DEF Piece
<1>2. slot.type \in PieceType /\ slot.url \in STRING \cup {""} /\ slot.bitrate \in Nat
  BY DEF EntryType
<1>3. \A t \in PieceType, b \in Nat, u \in STRING \cup {""} : [type |-> t, bitrate |-> b, url |-> u] \in EntryType
  BY DEF EntryType
<1>4. (IF piece.type = NoType THEN slot.type ELSE piece.type) \in PieceType
  BY <1>1, <1>2
<1>5. (IF piece.url \in NoUrls THEN slot.url ELSE piece.url) \in STRING \cup {""}
  BY <1>1, <1>2
<1>6. (IF adaptive /\ piece.bitrate # NoBitrate THEN piece.bitrate ELSE slot.bitrate) \in Nat
  BY <1>1, <1>2
<1> QED
  BY <1>3, <1>4, <1>5, <1>6, Zenon DEF Fill

\* One pass.
LEMMA SplitStep ==
    ASSUME NEW pieces \in Seq(Piece), NEW adaptive \in BOOLEAN, NEW i \in 1..Len(pieces),
           NEW list, NEW slot, SplitInv(pieces, adaptive, i - 1, list, slot)
    PROVE  \E l, s : /\ SplitPiece([list |-> list, slot |-> slot], pieces[i], adaptive)
                            = [list |-> l, slot |-> s]
                     /\ SplitInv(pieces, adaptive, i, l, s)
<1> DEFINE piece == pieces[i]
           e == Fill(slot, piece, adaptive)
           split == [list |-> list, slot |-> slot]
           Kept(n) == {k \in KeptPieces(pieces) : k <= n}
<1>0. /\ i \in Nat /\ i \in DOMAIN pieces /\ piece \in Piece /\ DOMAIN pieces \subseteq Nat
  OBVIOUS
<1>1. /\ list \in Seq(EntryType) /\ slot \in EntryType /\ slot.url = ""
      /\ \/ slot.type = NoType
         \/ \E j \in CutBefore(pieces, i) : slot.type = pieces[j].type
      /\ \/ slot.bitrate = 0
         \/ \E j \in CutBefore(pieces, i) : slot.bitrate = pieces[j].bitrate
  <2>1. i - 1 + 1 = i
    BY <1>0
  <2> QED
    BY <2>1 DEF SplitInv, Left
<1>2. PICK source \in Bijection(1..Len(list), Kept(i - 1)) :
          ~FreesForeign(pieces) =>
              \A k \in 1..Len(list) : Tells(pieces, adaptive, source[k], list[k])
  BY DEF SplitInv
<1>3. /\ e \in EntryType
      /\ e.type = IF piece.type = NoType THEN slot.type ELSE piece.type
      /\ e.url = IF piece.url \in NoUrls THEN slot.url ELSE piece.url
      /\ e.bitrate = IF adaptive /\ piece.bitrate # NoBitrate THEN piece.bitrate ELSE slot.bitrate
  <2>1. slot \in EntryType /\ piece \in Piece
    BY <1>0, <1>1
  <2> QED
    BY <2>1, FillType
<1> HIDE DEF e
<1>4. i \in KeptPieces(pieces) <=> piece.itag /\ piece.url # "cut"
  BY <1>0 DEF KeptPieces
<1>5. i \notin KeptPieces(pieces) => Kept(i) = Kept(i - 1)
  BY <1>0 DEF KeptPieces
<1>6. i \in KeptPieces(pieces) => Kept(i) = Kept(i - 1) \cup {i}
  BY <1>0 DEF KeptPieces
<1>7. CASE ~piece.itag
  <2>1. SplitPiece(split, piece, adaptive) = split
    BY <1>7 DEF SplitPiece
  <2>2. SplitInv(pieces, adaptive, i, list, slot)
    <3>1. Kept(i) = Kept(i - 1)
      BY <1>4, <1>5, <1>7
    <3> HIDE DEF Kept
    <3>2. \E s \in Bijection(1..Len(list), Kept(i)) :
              ~FreesForeign(pieces) =>
                  \A k \in 1..Len(list) : Tells(pieces, adaptive, s[k], list[k])
      BY <1>2, <3>1
    <3>3. Left(pieces, i, slot)
      BY <1>0, <1>1, <1>4, <1>7, CutBeforeGrows DEF Left
    <3> QED
      BY <1>1, <3>2, <3>3 DEF SplitInv, Kept
  <2> QED
    BY <2>1, <2>2
<1>8. CASE piece.itag /\ Rejected(piece)
  <2>1. SplitPiece(split, piece, adaptive) = [list |-> list, slot |-> e]
    BY <1>8 DEF SplitPiece, e
  <2>2. piece.url = "cut"
    BY <1>8 DEF Rejected
  <2>3. Left(pieces, i, e)
    <3>1. e.url = ""
      BY <1>1, <1>3, <2>2 DEF NoUrls
    <3>2. i \in CutBefore(pieces, i + 1) /\ CutBefore(pieces, i) \subseteq CutBefore(pieces, i + 1)
      BY <1>0, <1>4, <1>8, <2>2, CutBeforeGrows
    <3>3. e.type = NoType \/ \E j \in CutBefore(pieces, i + 1) : e.type = pieces[j].type
      BY <1>1, <1>3, <3>2
    <3>4. e.bitrate = 0 \/ \E j \in CutBefore(pieces, i + 1) : e.bitrate = pieces[j].bitrate
      BY <1>1, <1>3, <3>2
    <3> QED
      BY <3>1, <3>3, <3>4 DEF Left
  <2>4. SplitInv(pieces, adaptive, i, list, e)
    <3>1. Kept(i) = Kept(i - 1)
      BY <1>4, <1>5, <2>2
    <3> HIDE DEF Kept
    <3>2. \E s \in Bijection(1..Len(list), Kept(i)) :
              ~FreesForeign(pieces) =>
                  \A k \in 1..Len(list) : Tells(pieces, adaptive, s[k], list[k])
      BY <1>2, <3>1
    <3> QED
      BY <1>1, <1>3, <2>3, <3>2 DEF SplitInv, Kept
  <2> QED
    BY <2>1, <2>4
<1>9. CASE piece.itag /\ ~Rejected(piece)
  <2> DEFINE more == Append(list, e)
  <2>1. SplitPiece(split, piece, adaptive) = [list |-> more, slot |-> EmptyEntry]
    BY <1>9 DEF SplitPiece, e
  <2>2. piece.url # "cut" /\ i \in KeptPieces(pieces)
    BY <1>4, <1>9 DEF Rejected
  <2>3. /\ more \in Seq(EntryType) /\ Len(more) = Len(list) + 1 /\ Len(list) \in Nat
        /\ more[Len(list) + 1] = e
        /\ \A k \in 1..Len(list) : more[k] = list[k]
    <3>1. list \in Seq(EntryType) /\ e \in EntryType
      BY <1>1, <1>3
    <3> QED
      BY <3>1, AppendProperties
  <2> HIDE DEF more
  <2>4. EmptyEntry \in EntryType /\ Left(pieces, i, EmptyEntry)
    BY EmptyEntryType
  <2>5. ASSUME ~FreesForeign(pieces) PROVE Tells(pieces, adaptive, i, e)
    <3>1. piece.url # "bare"
      BY <1>0, <1>9, <2>5 DEF FreesForeign
    <3>2. e.url = IF piece.url = "none" THEN "" ELSE piece.url
      BY <1>1, <1>3, <2>2, <3>1 DEF NoUrls
    <3>3. adaptive /\ piece.bitrate # NoBitrate => e.bitrate = piece.bitrate
      BY <1>3
    <3>4. piece.type # NoType => e.type = piece.type
      BY <1>3
    <3>5. \/ e.type \in {NoType, piece.type}
          \/ \E j \in CutBefore(pieces, i) : e.type = pieces[j].type
      BY <1>1, <1>3
    <3>6. \/ e.bitrate \in {0, piece.bitrate}
          \/ \E j \in CutBefore(pieces, i) : e.bitrate = pieces[j].bitrate
      BY <1>1, <1>3
    <3> QED
      BY <3>2, <3>3, <3>4, <3>5, <3>6 DEF Tells, Names, Says
  <2> DEFINE n == Len(list)
             grown == [k \in 1..(n + 1) |-> IF k = n + 1 THEN i ELSE source[k]]
  <2>6. grown \in Bijection(1..(n + 1), Kept(i))
    <3>1. Kept(i) = Kept(i - 1) \cup {i} /\ i \notin Kept(i - 1)
      BY <1>0, <1>6, <2>2
    <3> HIDE DEF Kept, n
    <3>2. n \in Nat /\ source \in Bijection(1..n, Kept(i - 1))
      BY <1>2, <2>3 DEF n
    <3> QED
      BY <3>1, <3>2, BijectionGrows
  <2>7. ASSUME ~FreesForeign(pieces), NEW k \in 1..(n + 1)
        PROVE  Tells(pieces, adaptive, grown[k], more[k])
    <3>1. CASE k = n + 1
      BY <2>3, <2>5, <2>7, <3>1
    <3>2. CASE k # n + 1
      <4>1. k \in 1..n /\ grown[k] = source[k] /\ more[k] = list[k]
        BY <2>3, <3>2
      <4> QED
        BY <1>2, <2>7, <4>1
    <3> QED
      BY <3>1, <3>2
  <2>8. SplitInv(pieces, adaptive, i, more, EmptyEntry)
    <3> HIDE DEF grown, Kept, n
    <3>1. \E s \in Bijection(1..(n + 1), Kept(i)) :
              ~FreesForeign(pieces) =>
                  \A k \in 1..(n + 1) : Tells(pieces, adaptive, s[k], more[k])
      BY <2>6, <2>7
    <3>2. Len(more) = n + 1
      BY <2>3 DEF n
    <3> QED
      BY <2>3, <2>4, <3>1, <3>2 DEF SplitInv, Kept
  <2> QED
    BY <2>1, <2>8
<1> QED
  BY <1>7, <1>8, <1>9

\* split_urls makes an entry of each piece that it keeps, and of no other.
LEMMA SplitSound ==
    ASSUME NEW pieces \in Seq(Piece), NEW adaptive \in BOOLEAN
    PROVE  \E slot : SplitInv(pieces, adaptive, Len(pieces), SplitUrls(pieces, adaptive), slot)
<1> DEFINE split == SplitPasses(pieces, adaptive)
           Good(i) == \E l, s : split[i] = [list |-> l, slot |-> s] /\ SplitInv(pieces, adaptive, i, l, s)
           T == {i \in 0..Len(pieces) : Good(i)}
<1>0. Len(pieces) \in Nat
  OBVIOUS
<1>1. \A i \in 0..Len(pieces) :
          split[i] = IF i = 0 THEN [list |-> <<>>, slot |-> EmptyEntry]
                     ELSE SplitPiece(split[i - 1], pieces[i], adaptive)
  BY SplitDefined DEF Split
<1> HIDE DEF split
<1>2. Good(0)
  <2>1. split[0] = [list |-> <<>>, slot |-> EmptyEntry]
    BY <1>0, <1>1
  <2>2. <<>> \in Seq(EntryType) /\ EmptyEntry \in EntryType /\ Left(pieces, 0, EmptyEntry)
        /\ Len(<<>>) = 0
    BY EmptyEntryType, EmptySeq
  <2>3. {k \in KeptPieces(pieces) : k <= 0} = {} /\ 1..0 = {}
    BY DEF KeptPieces
  <2>4. <<>> \in Bijection({}, {})
    <3>1. <<>> \in [{} -> {}]
      OBVIOUS
    <3> QED
      BY <3>1, Fun_IsBij
  <2>5. SplitInv(pieces, adaptive, 0, <<>>, EmptyEntry)
    BY <2>2, <2>3, <2>4 DEF SplitInv
  <2> QED
    BY <2>1, <2>5
<1>3. ASSUME NEW i \in 1..Len(pieces), Good(i - 1) PROVE Good(i)
  <2>1. PICK l, s : split[i - 1] = [list |-> l, slot |-> s] /\ SplitInv(pieces, adaptive, i - 1, l, s)
    BY <1>3
  <2>2. split[i] = SplitPiece(split[i - 1], pieces[i], adaptive)
    BY <1>0, <1>1
  <2>3. \E l2, s2 : /\ SplitPiece([list |-> l, slot |-> s], pieces[i], adaptive)
                            = [list |-> l2, slot |-> s2]
                    /\ SplitInv(pieces, adaptive, i, l2, s2)
    BY <2>1, SplitStep, Zenon
  <2>4. PICK l2, s2 : /\ SplitPiece([list |-> l, slot |-> s], pieces[i], adaptive)
                            = [list |-> l2, slot |-> s2]
                      /\ SplitInv(pieces, adaptive, i, l2, s2)
    BY <2>3, Zenon
  <2>5. split[i] = [list |-> l2, slot |-> s2]
    BY <2>1, <2>2, <2>4, Zenon
  <2> QED
    BY <2>4, <2>5, Zenon
<1> HIDE DEF Good
<1>4. 0 \in T /\ \A i \in 1..Len(pieces) : i - 1 \in T => i \in T
  BY <1>0, <1>2, <1>3
<1> HIDE DEF T
<1>5. Len(pieces) \in T
  <2>1. 0..Len(pieces) \subseteq T
    BY <1>0, <1>4, UpTo
  <2> QED
    BY <1>0, <2>1
<1>6. PICK l, s : split[Len(pieces)] = [list |-> l, slot |-> s]
                   /\ SplitInv(pieces, adaptive, Len(pieces), l, s)
  BY <1>5 DEF T, Good
<1>7. SplitUrls(pieces, adaptive) = l
  BY <1>6 DEF SplitUrls, split
<1> QED
  BY <1>6, <1>7

\* What is sorted are the chosen entries, no more and no less.
LEMMA SortedIs ==
    ASSUME NEW S, NEW list \in Seq(S), NEW chosen \in SUBSET DOMAIN list,
           NEW s \in Sorted(list, chosen)
    PROVE  /\ s \in Seq(S) /\ Descending(s)
           /\ Cardinality(chosen) \in Nat /\ Len(s) = Cardinality(chosen)
           /\ DOMAIN s = 1..Len(s)
           /\ \A k \in DOMAIN s : \E j \in chosen : s[k] = list[j]
           /\ \A j \in chosen : \E k \in DOMAIN s : s[k] = list[j]
<1> DEFINE n == Cardinality(chosen)
<1>1. n \in Nat
  <2>1. IsFiniteSet(DOMAIN list)
    <3>1. DOMAIN list = 1..Len(list) /\ Len(list) \in Nat
      OBVIOUS
    <3> QED
      BY <3>1, FS_Interval
  <2>2. IsFiniteSet(chosen)
    BY <2>1, FS_Subset
  <2> QED
    BY <2>2, FS_CardinalityType
<1>2. PICK order \in Bijection(1..n, chosen) :
          s = [k \in 1..n |-> list[order[k]]] /\ Descending(s)
  BY DEF Sorted
<1> HIDE DEF n
<1>3. /\ order \in [1..n -> chosen]
      /\ \A t \in chosen : \E a \in 1..n : order[a] = t
  <2>1. order \in [1..n -> chosen]
    BY Fun_BijectionProperties
  <2>2. order \in Surjection(1..n, chosen)
    BY Fun_BijectionProperties
  <2> QED
    BY <2>1, <2>2 DEF Surjection
<1>4. \A j \in chosen : list[j] \in S
  OBVIOUS
<1>5. s \in [1..n -> S]
  BY <1>2, <1>3, <1>4
<1>6. s \in Seq(S) /\ Len(s) = n /\ DOMAIN s = 1..Len(s)
  BY <1>1, <1>5
<1> QED
  BY <1>1, <1>2, <1>3, <1>6 DEF n
-----------------------------------------------------------------------------
(* findformat *)

\* What the list of split_urls holds, whatever is left in its next entry.
LEMMA SplitList ==
    ASSUME NEW pieces \in Seq(Piece), NEW adaptive \in BOOLEAN
    PROVE  LET list == SplitUrls(pieces, adaptive)
           IN  /\ list \in Seq(EntryType)
               /\ \E source \in Bijection(1..Len(list), KeptPieces(pieces)) :
                     ~FreesForeign(pieces) =>
                         \A k \in 1..Len(list) : Tells(pieces, adaptive, source[k], list[k])
<1> DEFINE list == SplitUrls(pieces, adaptive)
<1>1. PICK slot : SplitInv(pieces, adaptive, Len(pieces), list, slot)
  BY SplitSound
<1>2. {k \in KeptPieces(pieces) : k <= Len(pieces)} = KeptPieces(pieces)
  BY DEF KeptPieces
<1> HIDE DEF list
<1>3. list \in Seq(EntryType)
  BY <1>1 DEF SplitInv
<1>4. \E source \in Bijection(1..Len(list), KeptPieces(pieces)) :
          ~FreesForeign(pieces) =>
              \A k \in 1..Len(list) : Tells(pieces, adaptive, source[k], list[k])
  BY <1>1, <1>2 DEF SplitInv
<1> QED
  BY <1>3, <1>4 DEF list

\* The lists of a kind hold what the page tells of it.
LEMMA AdaptiveTells ==
    ASSUME NEW pieces \in Seq(Piece), ~FreesForeign(pieces), NEW kind \in {"video", "audio"},
           NEW s \in Sorted(SplitUrls(pieces, TRUE), OfKind(SplitUrls(pieces, TRUE), kind))
    PROVE  /\ s \in Seq(EntryType) /\ Descending(s)
           /\ \A i \in KeptPieces(pieces) :
                 pieces[i].type.kind = kind => \E k \in DOMAIN s : Says(pieces, i, s[k])
           /\ \A k \in DOMAIN s : \E i \in KeptPieces(pieces) : Says(pieces, i, s[k])
<1> DEFINE list == SplitUrls(pieces, TRUE)
           chosen == OfKind(list, kind)
<1>1. list \in Seq(EntryType)
  BY SplitList
<1>2. PICK source \in Bijection(1..Len(list), KeptPieces(pieces)) :
          \A k \in 1..Len(list) : Tells(pieces, TRUE, source[k], list[k])
  BY SplitList
<1> HIDE DEF list
<1>3. chosen \in SUBSET DOMAIN list /\ s \in Sorted(list, chosen)
  BY DEF OfKind, list
<1> HIDE DEF chosen
<1>4. /\ s \in Seq(EntryType) /\ Descending(s)
      /\ \A k \in DOMAIN s : \E j \in chosen : s[k] = list[j]
      /\ \A j \in chosen : \E k \in DOMAIN s : s[k] = list[j]
  BY <1>1, <1>3, SortedIs
<1>5. DOMAIN list = 1..Len(list)
  BY <1>1
<1>6. source \in [1..Len(list) -> KeptPieces(pieces)]
  BY Fun_BijectionProperties
<1>7. source \in Surjection(1..Len(list), KeptPieces(pieces))
  BY Fun_BijectionProperties
<1>8. \A j \in 1..Len(list) : source[j] \in KeptPieces(pieces) /\ Says(pieces, source[j], list[j])
  BY <1>2, <1>6 DEF Tells
<1>9. ASSUME NEW i \in KeptPieces(pieces), pieces[i].type.kind = kind
      PROVE  \E k \in DOMAIN s : Says(pieces, i, s[k])
  <2>1. PICK j \in 1..Len(list) : source[j] = i
    BY <1>7 DEF Surjection
  <2>2. Says(pieces, i, list[j])
    BY <1>8, <2>1
  <2>3. pieces[i].type # NoType
    BY <1>9 DEF NoType
  <2>4. list[j].type.kind = kind
    BY <1>9, <2>2, <2>3 DEF Says, Names
  <2>5. j \in chosen
    BY <1>5, <2>4 DEF chosen, OfKind
  <2> QED
    BY <1>4, <2>2, <2>5
<1>10. ASSUME NEW k \in DOMAIN s PROVE \E i \in KeptPieces(pieces) : Says(pieces, i, s[k])
  BY <1>3, <1>4, <1>5, <1>8
<1> QED
  BY <1>4, <1>9, <1>10

LEMMA FirstNumbers ==
    ASSUME NEW n \in Nat
    PROVE  IsFiniteSet(1..n) /\ Cardinality(1..n) = n
<1>1. IsFiniteSet(1..n) /\ Cardinality(1..n) = IF 1 > n THEN 0 ELSE n - 1 + 1
  BY FS_Interval
<1> QED
  BY <1>1

LEMMA Quotient ==
    \A a, b \in Int : a > 0 /\ b > 0 => a \div b \in Nat
OBVIOUS

\* The measured and sorted list of files has one entry for each piece that was kept, with the
\* bitrate of its size.
LEMMA PlainTells ==
    ASSUME NEW pieces \in Seq(Piece), NEW duration \in Int, ~FreesForeign(pieces),
           \A i \in DOMAIN pieces : pieces[i].url \notin NoUrls => FileSizes[pieces[i].url] \in Int,
           Measurable(SplitUrls(pieces, FALSE), duration),
           NEW s \in Sorted(Measured(SplitUrls(pieces, FALSE), duration),
                            DOMAIN SplitUrls(pieces, FALSE))
    PROVE  /\ s \in Seq(EntryType) /\ Descending(s)
           /\ Cardinality(KeptPieces(pieces)) = Len(s)
           /\ \A i \in KeptPieces(pieces) : \E k \in DOMAIN s : SaysFile(pieces, duration, i, s[k])
           /\ \A k \in DOMAIN s : \E i \in KeptPieces(pieces) : SaysFile(pieces, duration, i, s[k])
<1> DEFINE list == SplitUrls(pieces, FALSE)
           measured == Measured(list, duration)
<1>1. list \in Seq(EntryType)
  BY SplitList
<1>2. PICK source \in Bijection(1..Len(list), KeptPieces(pieces)) :
          \A k \in 1..Len(list) : Tells(pieces, FALSE, source[k], list[k])
  BY SplitList
<1>3. Measurable(list, duration) /\ s \in Sorted(measured, DOMAIN list)
  OBVIOUS
<1> HIDE DEF list
<1>4. DOMAIN list = 1..Len(list) /\ Len(list) \in Nat
  BY <1>1
<1>5. source \in [1..Len(list) -> KeptPieces(pieces)]
  BY Fun_BijectionProperties
<1>6. ASSUME NEW i \in DOMAIN list
      PROVE  measured[i] \in EntryType /\ SaysFile(pieces, duration, source[i], measured[i])
  <2>0. list # <<>>
    BY <1>4
  <2>1. list[i].url # "" /\ FileSizes[list[i].url] > 0 /\ duration > 0
    BY <1>3, <2>0 DEF Measurable
  <2>2. source[i] \in KeptPieces(pieces) /\ Tells(pieces, FALSE, source[i], list[i])
    BY <1>2, <1>4, <1>5
  <2>3. source[i] \in DOMAIN pieces /\ pieces[source[i]].itag /\ pieces[source[i]].url # "cut"
    BY <2>2 DEF KeptPieces
  <2>4. list[i].url = pieces[source[i]].url /\ pieces[source[i]].url # "none"
    BY <2>1, <2>2 DEF Tells, Names
  <2>5. pieces[source[i]].url # "bare"
    BY <2>3 DEF FreesForeign
  <2>6. FileSizes[list[i].url] \in Int
    <3>1. pieces[source[i]].url \notin NoUrls
      BY <2>3, <2>4, <2>5 DEF NoUrls
    <3> QED
      BY <2>3, <2>4, <3>1
  <2>7. FileSizes[list[i].url] \div duration \in Nat
    BY <2>1, <2>6, Quotient, Zenon
  <2>8. list[i] \in EntryType
    BY <1>1
  <2>9. measured[i] = [list[i] EXCEPT !.bitrate = FileSizes[list[i].url] \div duration]
    BY DEF Measured
  <2>10. measured[i] \in EntryType /\ measured[i].url = list[i].url
         /\ measured[i].type = list[i].type
         /\ measured[i].bitrate = FileSizes[list[i].url] \div duration
    BY <2>7, <2>8, <2>9 DEF EntryType
  <2> QED
    BY <2>2, <2>10 DEF Tells, Names, SaysFile
<1>7. measured \in Seq(EntryType) /\ DOMAIN measured = DOMAIN list /\ Len(measured) = Len(list)
  <2>1. measured = [i \in 1..Len(list) |-> measured[i]]
    BY <1>4 DEF Measured
  <2>2. measured \in [1..Len(list) -> EntryType]
    BY <1>4, <1>6, <2>1
  <2> HIDE DEF measured
  <2> QED
    BY <1>4, <2>2
<1> HIDE DEF measured
<1>8. /\ s \in Seq(EntryType) /\ Descending(s) /\ Len(s) = Cardinality(DOMAIN list)
      /\ \A k \in DOMAIN s : \E j \in DOMAIN list : s[k] = measured[j]
      /\ \A j \in DOMAIN list : \E k \in DOMAIN s : s[k] = measured[j]
  <2>1. measured \in Seq(EntryType) /\ DOMAIN list \in SUBSET DOMAIN measured
    BY <1>7
  <2>2. s \in Sorted(measured, DOMAIN list)
    BY <1>3
  <2> QED
    BY <2>1, <2>2, SortedIs
<1>9. Cardinality(DOMAIN list) = Len(list) /\ Cardinality(KeptPieces(pieces)) = Len(list)
  <2>1. IsFiniteSet(1..Len(list)) /\ Cardinality(1..Len(list)) = Len(list)
    BY <1>4, FirstNumbers
  <2>2. ExistsBijection(1..Len(list), KeptPieces(pieces))
    BY <1>2 DEF ExistsBijection
  <2>3. Cardinality(KeptPieces(pieces)) = Cardinality(1..Len(list))
    BY <2>1, <2>2, FS_Bijection
  <2> QED
    BY <1>4, <2>1, <2>3
<1>10. ASSUME NEW i \in KeptPieces(pieces)
       PROVE  \E k \in DOMAIN s : SaysFile(pieces, duration, i, s[k])
  <2>1. source \in Surjection(1..Len(list), KeptPieces(pieces))
    BY Fun_BijectionProperties
  <2>2. PICK j \in 1..Len(list) : source[j] = i
    BY <2>1 DEF Surjection
  <2> QED
    BY <1>4, <1>6, <1>8, <2>2
<1>11. ASSUME NEW k \in DOMAIN s
       PROVE  \E i \in KeptPieces(pieces) : SaysFile(pieces, duration, i, s[k])
  BY <1>4, <1>5, <1>6, <1>8
<1> QED
  BY <1>8, <1>9, <1>10, <1>11
=============================================================================
