------------------------ MODULE QuicEngineServiceProofs ------------------------
(* A request has at most one outcome, and the engine implements the service *)
(* of DownloadService; and while nothing fails (Undisturbed), the count of  *)
(* streams is exact, requests are conserved, and NULL means that nothing is *)
(* owed but what was redirected.  For every value of the constants.         *)
EXTENDS QuicEngineProofs

-----------------------------------------------------------------------------
(* The entries about one request in a queue, a stack or a history. *)

LEMMA EntriesType ==
    ASSUME NEW S, NEW s \in Seq(S), NEW r
    PROVE  /\ IsFiniteSet({i \in DOMAIN s : s[i].req = r}) /\ EntriesFor(s, r) \in Nat
<1>1. IsFiniteSet(1..Len(s)) /\ DOMAIN s = 1..Len(s)
  BY FS_Interval, LenProperties
<1>2. IsFiniteSet({i \in DOMAIN s : s[i].req = r})
  BY <1>1, FS_Subset
<1> QED
  BY <1>2, FS_CardinalityType DEF EntriesFor

LEMMA EntriesNone ==
    ASSUME NEW s, NEW r, \A i \in DOMAIN s : s[i].req # r
    PROVE  EntriesFor(s, r) = 0
<1>1. {i \in DOMAIN s : s[i].req = r} = {}
  OBVIOUS
<1> QED
  BY <1>1, FS_EmptySet DEF EntriesFor

LEMMA EntriesOne ==
    ASSUME NEW s, NEW r, NEW k \in DOMAIN s, s[k].req = r,
           \A i \in DOMAIN s : s[i].req = r => i = k
    PROVE  EntriesFor(s, r) = 1
<1>1. {i \in DOMAIN s : s[i].req = r} = {k}
  OBVIOUS
<1> QED
  BY <1>1, FS_Singleton DEF EntriesFor

LEMMA EntriesConcat ==
    ASSUME NEW S, NEW s \in Seq(S), NEW t \in Seq(S), NEW r
    PROVE  EntriesFor(s \o t, r) = EntriesFor(s, r) + EntriesFor(t, r)
<1> DEFINE m == Len(s)
           n == Len(t)
           A == {i \in 1..m : s[i].req = r}
           B == {i \in 1..n : t[i].req = r}
           C == {i \in 1..m+n : (s \o t)[i].req = r}
           shift == [i \in B |-> i+m]
           D == {shift[i] : i \in B}
<1>1. m \in Nat /\ n \in Nat /\ DOMAIN s = 1..m /\ DOMAIN t = 1..n
  BY LenProperties
<1>2. /\ DOMAIN (s \o t) = 1..m+n
      /\ \A i \in 1..m+n : (s \o t)[i] = IF i <= m THEN s[i] ELSE t[i-m]
  BY ConcatProperties, LenProperties
<1>3. EntriesFor(s, r) = Cardinality(A) /\ EntriesFor(t, r) = Cardinality(B)
      /\ EntriesFor(s \o t, r) = Cardinality(C)
  BY <1>1, <1>2 DEF EntriesFor
<1> HIDE DEF m, n
<1>4. /\ IsFiniteSet(A) /\ IsFiniteSet(B)
      /\ Cardinality(A) \in Nat /\ Cardinality(B) \in Nat
  <2>1. IsFiniteSet(1..m) /\ IsFiniteSet(1..n)
    BY <1>1, FS_Interval
  <2>2. IsFiniteSet(A) /\ IsFiniteSet(B)
    BY <2>1, FS_Subset
  <2> QED
    BY <2>2, FS_CardinalityType
<1>5. IsFiniteSet(D) /\ Cardinality(D) = Cardinality(B)
  <2>1. shift \in [B -> D] /\ \A d \in D : \E i \in B : shift[i] = d
    OBVIOUS
  <2>2. \A i, j \in B : shift[i] = shift[j] => i = j
    BY <1>1
  <2>3. shift \in Bijection(B, D)
    BY <2>1, <2>2 DEF Bijection, Injection, Surjection, IsInjective
  <2> QED
    BY <1>4, <2>3, FS_Bijection DEF ExistsBijection
<1>6. A \cap D = {}
  <2>1. ASSUME NEW i \in B PROVE shift[i] \notin 1..m
    BY <1>1
  <2> QED
    BY <2>1
<1>7. C = A \cup D
  <2>1. ASSUME NEW i \in A PROVE i \in C
    <3>1. i \in 1..m+n /\ i <= m
      BY <1>1
    <3> QED
      BY <1>2, <3>1
  <2>2. ASSUME NEW i \in B PROVE i+m \in C
    <3>1. i+m \in 1..m+n /\ ~(i+m <= m) /\ (i+m)-m = i
      BY <1>1
    <3> QED
      BY <1>2, <3>1
  <2>3. ASSUME NEW i \in C, i <= m PROVE i \in A
    <3>1. i \in 1..m
      BY <1>1, <2>3
    <3> QED
      BY <1>2, <2>3, <3>1
  <2>4. ASSUME NEW i \in C, ~(i <= m) PROVE i \in D
    <3>1. i-m \in 1..n /\ (i-m)+m = i
      BY <1>1, <2>4
    <3>2. i-m \in B
      BY <1>2, <2>4, <3>1
    <3>3. shift[i-m] = i
      BY <3>1, <3>2
    <3> QED
      BY <3>2, <3>3
  <2> QED
    BY <2>1, <2>2, <2>3, <2>4
<1> HIDE DEF A, B, C, D, shift
<1>8. Cardinality(A \cup D) = Cardinality(A) + Cardinality(D) - Cardinality(A \cap D)
  BY <1>4, <1>5, FS_Union
<1>9. Cardinality(A \cap D) = 0
  BY <1>6, FS_EmptySet
<1> QED
  BY <1>3, <1>4, <1>5, <1>7, <1>8, <1>9

LEMMA EntriesSingle ==
    ASSUME NEW e, NEW r
    PROVE  EntriesFor(<<e>>, r) = IF e.req = r THEN 1 ELSE 0
<1>1. DOMAIN <<e>> = {1} /\ <<e>>[1] = e
  OBVIOUS
<1>2. CASE e.req = r
  BY <1>1, <1>2, EntriesOne
<1>3. CASE e.req # r
  BY <1>1, <1>3, EntriesNone
<1> QED
  BY <1>2, <1>3

LEMMA EntriesAppend ==
    ASSUME NEW S, NEW s \in Seq(S), NEW e \in S, NEW r
    PROVE  EntriesFor(Append(s, e), r) = EntriesFor(s, r) + (IF e.req = r THEN 1 ELSE 0)
<1>1. Append(s, e) = s \o <<e>>
  BY AppendIsConcat
<1>2. <<e>> \in Seq(S)
  OBVIOUS
<1>3. EntriesFor(s \o <<e>>, r) = EntriesFor(s, r) + EntriesFor(<<e>>, r)
  BY <1>2, EntriesConcat
<1>4. EntriesFor(<<e>>, r) = IF e.req = r THEN 1 ELSE 0
  BY EntriesSingle
<1> QED
  BY <1>1, <1>3, <1>4

LEMMA EntriesCons ==
    ASSUME NEW S, NEW s \in Seq(S), NEW e \in S, NEW r
    PROVE  EntriesFor(Cons(e, s), r) = EntriesFor(s, r) + (IF e.req = r THEN 1 ELSE 0)
<1>1. <<e>> \in Seq(S)
  OBVIOUS
<1>2. EntriesFor(<<e>> \o s, r) = EntriesFor(<<e>>, r) + EntriesFor(s, r)
  BY <1>1, EntriesConcat
<1>3. EntriesFor(<<e>>, r) = IF e.req = r THEN 1 ELSE 0
  BY EntriesSingle
<1>4. EntriesFor(s, r) \in Nat
  BY EntriesType
<1> QED
  BY <1>2, <1>3, <1>4 DEF Cons

LEMMA EntriesTail ==
    ASSUME NEW S, NEW s \in Seq(S), s # <<>>, NEW r
    PROVE  EntriesFor(Tail(s), r) = EntriesFor(s, r) - (IF Head(s).req = r THEN 1 ELSE 0)
<1>1. /\ Head(s) \in S /\ Tail(s) \in Seq(S) /\ Len(Tail(s)) = Len(s)-1
      /\ \A i \in 1..Len(Tail(s)) : Tail(s)[i] = s[i+1]
      /\ Head(s) = s[1] /\ Len(s) \in Nat /\ Len(s) # 0
  BY HeadTailProperties, LenProperties, EmptySeq
<1>2. <<Head(s)>> \in Seq(S) /\ Len(<<Head(s)>>) = 1 /\ <<Head(s)>>[1] = s[1]
  BY <1>1
<1>3. s = <<Head(s)>> \o Tail(s)
  <2>1. /\ <<Head(s)>> \o Tail(s) \in Seq(S) /\ Len(<<Head(s)>> \o Tail(s)) = Len(s)
        /\ \A i \in 1..Len(s) : (<<Head(s)>> \o Tail(s))[i] =
               IF i <= 1 THEN <<Head(s)>>[i] ELSE Tail(s)[i-1]
    BY <1>1, <1>2, ConcatProperties
  <2>2. ASSUME NEW i \in 1..Len(s) PROVE s[i] = (<<Head(s)>> \o Tail(s))[i]
    <3>1. CASE i = 1
      BY <1>1, <1>2, <2>1, <3>1
    <3>2. CASE i # 1
      <4>1. i-1 \in 1..Len(Tail(s)) /\ ~(i <= 1) /\ (i-1)+1 = i
        BY <1>1, <3>2
      <4> QED
        BY <1>1, <2>1, <4>1
    <3> QED
      BY <3>1, <3>2
  <2> QED
    BY <2>1, <2>2, SeqEqual
<1> DEFINE h == <<Head(s)>>
           t == Tail(s)
<1>4. EntriesFor(h, r) = IF Head(s).req = r THEN 1 ELSE 0
  BY EntriesSingle
<1>5. s = h \o t /\ h \in Seq(S) /\ t \in Seq(S)
  BY <1>1, <1>2, <1>3
<1> HIDE DEF h, t
<1>6. EntriesFor(h \o t, r) = EntriesFor(h, r) + EntriesFor(t, r)
  BY <1>5, EntriesConcat
<1>7. EntriesFor(s, r) = EntriesFor(h, r) + EntriesFor(t, r)
  BY <1>5, <1>6
<1>8. EntriesFor(t, r) \in Nat
  BY <1>5, EntriesType
<1> QED
  BY <1>4, <1>7, <1>8 DEF t

\* One entry for each member of an ordered set.
LEMMA EntriesOfOrder ==
    ASSUME NEW T, IsFiniteSet(T), NEW order \in SetToSeqs(T), NEW s, DOMAIN s = DOMAIN order,
           \A i \in DOMAIN order : s[i].req = order[i], NEW r
    PROVE  EntriesFor(s, r) = IF r \in T THEN 1 ELSE 0
<1>1. Range(order) = T /\ IsInjective(order)
  BY OrderType, OrderApart
<1>2. CASE r \in T
  <2>1. PICK k \in DOMAIN order : order[k] = r
    BY <1>1, <1>2 DEF Range
  <2>2. \A i \in DOMAIN s : s[i].req = r => i = k
    BY <1>1, <2>1 DEF IsInjective
  <2> QED
    BY <1>2, <2>1, <2>2, EntriesOne
<1>3. CASE r \notin T
  <2>1. \A i \in DOMAIN s : s[i].req # r
    BY <1>1, <1>3 DEF Range
  <2> QED
    BY <1>3, <2>1, EntriesNone
<1> QED
  BY <1>2, <1>3
-----------------------------------------------------------------------------
(* What the steps do to the copies of a request. *)

LEMMA CopiesType ==
    ASSUME TypeOK, NEW r
    PROVE  /\ EntriesFor(queue, r) \in Nat /\ EntriesFor(output, r) \in Nat
           /\ EntriesFor(delivered, r) \in Nat /\ Copies(r) \in Nat
<1>1. /\ EntriesFor(queue, r) \in Nat /\ EntriesFor(output, r) \in Nat
      /\ EntriesFor(delivered, r) \in Nat
  BY EntriesType DEF TypeOK
<1> QED
  BY <1>1 DEF Copies

LEMMA CopiesTypeNext ==
    ASSUME TypeOK', NEW r
    PROVE  /\ EntriesFor(queue', r) \in Nat /\ EntriesFor(output', r) \in Nat
           /\ EntriesFor(delivered', r) \in Nat /\ Copies(r)' \in Nat
<1>1. /\ EntriesFor(queue', r) \in Nat /\ EntriesFor(output', r) \in Nat
      /\ EntriesFor(delivered', r) \in Nat
  BY EntriesType DEF TypeOK
<1> QED
  BY <1>1 DEF Copies, EntriesFor

LEMMA CopiesNext ==
    ASSUME NEW r
    PROVE  Copies(r)' = EntriesFor(queue', r) + (IF OnStream(r)' THEN 1 ELSE 0)
                        + EntriesFor(output', r) + EntriesFor(delivered', r)
BY DEF Copies, EntriesFor

\* The stream of r is left alone, ended, or still points to its request.
StillSendable(r) ==
    \/ stream'[r] = stream[r] \/ stream'[r].has_data \/ stream'[r].is_read
    \/ stream'[r].phase \notin {"delayed", "created"}

LEMMA UnsentKeeps ==
    ASSUME UnsentHasData, \A r \in Requests : StillSendable(r)
    PROVE  UnsentHasData'
BY DEF UnsentHasData, StillSendable, Listed

\* A step that makes no copy.
LEMMA OutcomeKeeps ==
    ASSUME OutcomeInv, CountInv', accepted' = accepted,
           \A r \in Requests : StillSendable(r),
           \A r \in Requests : Copies(r)' <= Copies(r)
    PROVE  OutcomeInv'
<1>1. \A r \in Requests : Copies(r) \in Nat
  BY CopiesType DEF OutcomeInv, CountInv
<1>2. \A r \in Requests : Copies(r)' \in Nat
  BY CopiesTypeNext DEF CountInv
<1>3. OneOutcome'
  BY <1>1, <1>2 DEF OutcomeInv, OneOutcome
<1> QED
  BY <1>3, UnsentKeeps DEF OutcomeInv

\* A step that moves no answer, whatever it does to streams without one.
LEMMA QuietKeeps ==
    ASSUME OutcomeInv, CountInv', UNCHANGED <<queue, output, delivered, accepted>>,
           \A r \in Requests : StillSendable(r) /\ (OnStream(r)' => OnStream(r))
    PROVE  OutcomeInv'
<1>1. ASSUME NEW r \in Requests PROVE Copies(r)' <= Copies(r)
  BY CopiesType, CopiesNext DEF Copies, OutcomeInv, CountInv
<1> QED
  BY <1>1, OutcomeKeeps

\* report_error about r, or about no request.
LEMMA ReportCopies ==
    ASSUME TypeOK, NEW s \in Requests \cup {NoReq}, NEW code \in Codes, Report(s, code), NEW r
    PROVE  EntriesFor(output', r) = EntriesFor(output, r) + (IF s = r THEN 1 ELSE 0)
<1> DEFINE e == [req |-> s, code |-> code]
<1>1. e \in Output /\ e.req = s /\ output \in Seq(Output) /\ output' = Cons(e, output)
  BY DEF Output, TypeOK, Report
<1> HIDE DEF e
<1> QED
  BY <1>1, EntriesCons

\* An error of the engine concerns no request.
LEMMA EngineErrorCopies ==
    ASSUME TypeOK, NEW code \in Codes, ReportEngineError(code), NEW r \in Requests
    PROVE  EntriesFor(output', r) = EntriesFor(output, r)
<1>1. EntriesFor(output', r) = EntriesFor(output, r) + (IF NoReq = r THEN 1 ELSE 0)
  BY ReportCopies DEF ReportEngineError
<1>2. NoReq # r
  BY ConstantsAssumption
<1> QED
  BY <1>1, <1>2, CopiesType

LEMMA ErrorKeeps ==
    ASSUME OutcomeInv, CountInv', NEW code \in Codes, ReportEngineError(code),
           UNCHANGED <<queue, delivered, accepted, stream>>
    PROVE  OutcomeInv'
<1>1. ASSUME NEW r \in Requests PROVE Copies(r)' <= Copies(r)
  <2>1. EntriesFor(output', r) = EntriesFor(output, r)
    BY EngineErrorCopies DEF OutcomeInv, CountInv
  <2> QED
    BY <2>1, CopiesType, CopiesNext DEF Copies, OnStream, OutcomeInv, CountInv
<1> QED
  BY <1>1, OutcomeKeeps DEF StillSendable

\* The stream of s, which points to its request, gives its answer to the output stack
\* and points to it no more.
LEMMA AnswerCopies ==
    ASSUME TypeOK, NEW s \in Requests, NEW code \in Codes, Report(s, code),
           UNCHANGED <<queue, delivered>>, stream[s].has_data,
           ~stream'[s].has_data, stream'[s].phase # "attaching",
           \A q \in Requests : q # s => stream'[q] = stream[q], NEW r \in Requests
    PROVE  Copies(r)' = Copies(r)
<1>1. EntriesFor(output', r) = EntriesFor(output, r) + (IF s = r THEN 1 ELSE 0)
  BY ReportCopies
<1>2. CASE r = s
  <2>1. OnStream(r) /\ ~OnStream(r)'
    BY <1>2 DEF OnStream
  <2> QED
    BY <1>1, <1>2, <2>1, CopiesType, CopiesNext DEF Copies
<1>3. CASE r # s
  <2>1. OnStream(r)' = OnStream(r)
    BY <1>3 DEF OnStream
  <2> QED
    BY <1>1, <1>3, <2>1, CopiesType, CopiesNext DEF Copies
<1> QED
  BY <1>2, <1>3

LEMMA AnswerKeeps ==
    ASSUME OutcomeInv, CountInv', NEW s \in Requests, NEW code \in Codes, Report(s, code),
           UNCHANGED <<queue, delivered, accepted>>, stream[s].has_data,
           ~stream'[s].has_data, stream'[s].phase # "attaching",
           \A r \in Requests : r # s => stream'[r] = stream[r],
           StillSendable(s)
    PROVE  OutcomeInv'
<1>1. ASSUME NEW r \in Requests PROVE Copies(r)' <= Copies(r)
  <2>1. Copies(r)' = Copies(r) /\ Copies(r) \in Nat
    BY AnswerCopies, CopiesType DEF OutcomeInv, CountInv
  <2> QED
    BY <2>1
<1> QED
  BY <1>1, OutcomeKeeps DEF StillSendable
-----------------------------------------------------------------------------
(* The actions. *)

\* get_download_result moves the top of the output stack to its caller.
LEMMA ReturnCopies ==
    ASSUME TypeOK, ReturnResult, NEW r
    PROVE  EntriesFor(output', r) + EntriesFor(delivered', r)
           = EntriesFor(output, r) + EntriesFor(delivered, r)
<1>1. CASE output = <<>>
  BY <1>1 DEF ReturnResult
<1>2. CASE output # <<>>
  <2>1. /\ output \in Seq(Output) /\ delivered \in Seq(Output) /\ Head(output) \in Output
        /\ output' = Tail(output) /\ delivered' = Append(delivered, Head(output))
    BY <1>2, HeadTailProperties DEF TypeOK, ReturnResult
  <2>2. EntriesFor(output', r) = EntriesFor(output, r) - (IF Head(output).req = r THEN 1 ELSE 0)
    BY <1>2, <2>1, EntriesTail
  <2>3. EntriesFor(delivered', r)
        = EntriesFor(delivered, r) + (IF Head(output).req = r THEN 1 ELSE 0)
    BY <2>1, EntriesAppend
  <2> QED
    BY <2>2, <2>3, CopiesType
<1> QED
  BY <1>1, <1>2

LEMMA ReturnOutcome ==
    ASSUME OutcomeInv, CountInv', ReturnResult, UNCHANGED <<queue, stream, accepted>>
    PROVE  OutcomeInv'
<1>1. ASSUME NEW r \in Requests PROVE Copies(r)' <= Copies(r)
  <2>1. OnStream(r)' = OnStream(r) /\ queue' = queue /\ TypeOK
    BY DEF OnStream, OutcomeInv, CountInv
  <2>2. EntriesFor(output', r) + EntriesFor(delivered', r)
        = EntriesFor(output, r) + EntriesFor(delivered, r)
    BY <2>1, ReturnCopies
  <2>3. EntriesFor(output', r) \in Nat /\ EntriesFor(delivered', r) \in Nat
    BY CopiesTypeNext DEF CountInv
  <2> QED
    BY <2>1, <2>2, <2>3, CopiesType, CopiesNext DEF Copies
<1> QED
  BY <1>1, OutcomeKeeps DEF StillSendable

\* start_downloading queues requests that were never accepted, each once.
LEMMA StartCopies ==
    ASSUME TypeOK, NEW batch \in Batches, StartDownloading(batch)
    PROVE  \E S \in SUBSET (Requests \ accepted) :
              /\ accepted' = accepted \cup S
              /\ \A r \in Requests : Copies(r)' = Copies(r) + (IF r \in S THEN 1 ELSE 0)
<1>1. PICK S \in SUBSET (Requests \ accepted) : batch \in SetToSeqs(S)
  BY DEF Batches
<1>2. IsFiniteSet(S) /\ S \subseteq Requests
  BY FS_Subset, ConstantsAssumption
<1>3. batch \in Seq(Requests) /\ Range(batch) = S
  BY <1>1, <1>2, OrderType
<1> DEFINE new == [i \in DOMAIN batch |-> [req |-> batch[i], url |-> UrlOf[batch[i]]]]
<1>4. new \in Seq([req : Requests, url : Urls])
  <2>1. batch \in [1..Len(batch) -> Requests] /\ Len(batch) \in Nat
    BY <1>3, LenProperties
  <2>2. \A i \in 1..Len(batch) : UrlOf[batch[i]] \in Urls
    BY <2>1, ConstantsAssumption
  <2>3. new \in [1..Len(batch) -> [req : Requests, url : Urls]]
    BY <2>1, <2>2
  <2> QED
    BY <2>1, <2>3, SeqDef
<1>5. ASSUME NEW r PROVE EntriesFor(new, r) = IF r \in S THEN 1 ELSE 0
  <2>1. DOMAIN new = DOMAIN batch /\ \A i \in DOMAIN batch : new[i].req = batch[i]
    OBVIOUS
  <2> HIDE DEF new
  <2> QED
    BY <1>1, <1>2, <2>1, EntriesOfOrder
<1>6. /\ queue' = queue \o new /\ accepted' = accepted \cup S
      /\ UNCHANGED <<output, delivered, stream>>
  BY <1>3 DEF StartDownloading, netVars
<1> HIDE DEF new
<1>7. ASSUME NEW r \in Requests PROVE Copies(r)' = Copies(r) + (IF r \in S THEN 1 ELSE 0)
  <2>1. EntriesFor(queue', r) = EntriesFor(queue, r) + (IF r \in S THEN 1 ELSE 0)
    <3>1. EntriesFor(queue', r) = EntriesFor(queue, r) + EntriesFor(new, r)
      BY <1>4, <1>6, EntriesConcat DEF TypeOK
    <3> QED
      BY <1>5, <3>1
  <2>2. OnStream(r)' = OnStream(r)
    BY <1>6 DEF OnStream
  <2> QED
    BY <1>6, <2>1, <2>2, CopiesType, CopiesNext DEF Copies
<1> QED
  BY <1>6, <1>7

LEMMA StartOutcome ==
    ASSUME OutcomeInv, CountInv', NEW batch \in Batches, StartDownloading(batch)
    PROVE  OutcomeInv'
<1>1. PICK S \in SUBSET (Requests \ accepted) :
              /\ accepted' = accepted \cup S
              /\ \A r \in Requests : Copies(r)' = Copies(r) + (IF r \in S THEN 1 ELSE 0)
  BY StartCopies DEF OutcomeInv, CountInv
<1>2. ASSUME NEW r \in Requests PROVE Copies(r)' <= (IF r \in accepted' THEN 1 ELSE 0)
  <2>1. Copies(r) <= (IF r \in accepted THEN 1 ELSE 0) /\ Copies(r) \in Nat
    BY CopiesType DEF OutcomeInv, CountInv, OneOutcome
  <2>2. Copies(r)' = Copies(r) + (IF r \in S THEN 1 ELSE 0)
    BY <1>1
  <2>3. r \in S => r \notin accepted
    BY <1>1
  <2>4. r \in accepted' <=> r \in accepted \/ r \in S
    BY <1>1
  <2> QED
    BY <2>1, <2>2, <2>3, <2>4
<1>3. UnsentHasData'
  BY UnsentKeeps DEF OutcomeInv, StillSendable, StartDownloading, netVars
<1> QED
  BY <1>2, <1>3 DEF OutcomeInv, OneOutcome

LEMMA UserOutcome == OutcomeInv /\ CountInv' /\ UserStep => OutcomeInv'
<1> SUFFICES ASSUME OutcomeInv, CountInv', UserStep PROVE OutcomeInv'
  OBVIOUS
<1>1. CASE GetWithoutWaiting
  <2>1. UNCHANGED <<queue, stream, accepted>>
    BY <1>1 DEF GetWithoutWaiting, netVars
  <2>2. CASE ReturnResult
    BY <2>1, <2>2, ReturnOutcome
  <2>3. CASE UNCHANGED <<output, delivered>>
    BY <2>1, <2>3, QuietKeeps DEF StillSendable, OnStream
  <2> QED
    BY <1>1, <2>2, <2>3 DEF GetWithoutWaiting
<1>2. CASE GetByWaiting \/ DestroyClient
  <2>1. UNCHANGED <<queue, output, delivered, accepted, stream>>
    BY <1>2 DEF GetByWaiting, DestroyClient, engineVars, netVars, userVars
  <2> QED
    BY <2>1, QuietKeeps DEF StillSendable, OnStream
<1> QED
  BY <1>1, <1>2, StartOutcome DEF UserStep

\* run_timeout moves the answer of every listed stream to the output stack.
LEMMA TimerCopies ==
    ASSUME TypeOK, TimerEndsStreams, NEW r \in Requests
    PROVE  Copies(r)' = Copies(r)
<1>1. IsFiniteSet(Listed) /\ Listed \subseteq Requests
  BY FS_Subset, ConstantsAssumption DEF Listed
<1>2. PICK order \in SetToSeqs(Listed) :
         output' = [i \in DOMAIN order |-> [req |-> order[i], code |-> "TIMEOUT"]] \o output
  BY DEF TimerEndsStreams
<1> DEFINE new == [i \in DOMAIN order |-> [req |-> order[i], code |-> "TIMEOUT"]]
<1>3. new \in Seq(Output)
  <2>1. order \in Seq(Requests)
    BY <1>1, OrderType
  <2>2. order \in [1..Len(order) -> Requests] /\ Len(order) \in Nat
    BY <2>1, LenProperties
  <2>3. new \in [1..Len(order) -> Output]
    BY <2>2 DEF Output, Codes
  <2> QED
    BY <2>2, <2>3, SeqDef
<1>4. EntriesFor(new, r) = IF r \in Listed THEN 1 ELSE 0
  <2>1. DOMAIN new = DOMAIN order /\ \A i \in DOMAIN order : new[i].req = order[i]
    OBVIOUS
  <2> HIDE DEF new
  <2> QED
    BY <1>1, <2>1, EntriesOfOrder
<1>5. output' = new \o output
  BY <1>2
<1> HIDE DEF new
<1>6. /\ UNCHANGED <<queue, delivered>> /\ \A q \in Listed : stream[q].has_data
      /\ \A q \in Listed : ~stream'[q].has_data /\ stream'[q].phase = stream[q].phase
      /\ \A q \in Requests : q \notin Listed => stream'[q] = stream[q]
  BY <1>1 DEF TimerEndsStreams, userVars, StreamWith
<1>7. EntriesFor(output', r) = EntriesFor(output, r) + (IF r \in Listed THEN 1 ELSE 0)
  <2>1. EntriesFor(output', r) = EntriesFor(new, r) + EntriesFor(output, r)
    BY <1>3, <1>5, EntriesConcat DEF TypeOK
  <2>2. EntriesFor(output, r) \in Nat
    BY CopiesType
  <2> QED
    BY <1>4, <2>1, <2>2
<1>8. CASE r \in Listed
  <2>1. OnStream(r) /\ ~OnStream(r)'
    BY <1>6, <1>8 DEF OnStream, Listed
  <2> QED
    BY <1>6, <1>7, <1>8, <2>1, CopiesType, CopiesNext DEF Copies
<1>9. CASE r \notin Listed
  <2>1. OnStream(r)' = OnStream(r)
    BY <1>6, <1>9 DEF OnStream
  <2> QED
    BY <1>6, <1>7, <1>9, <2>1, CopiesType, CopiesNext DEF Copies
<1> QED
  BY <1>8, <1>9

LEMMA TimerOutcome ==
    ASSUME OutcomeInv, CountInv', TimerEndsStreams
    PROVE  OutcomeInv'
<1>1. /\ accepted' = accepted /\ \A r \in Listed : stream'[r].is_read
      /\ \A r \in Requests : r \notin Listed => stream'[r] = stream[r]
  BY DEF TimerEndsStreams, userVars, StreamWith, Listed
<1>2. ASSUME NEW r \in Requests PROVE Copies(r)' <= Copies(r)
  <2>1. Copies(r)' = Copies(r) /\ Copies(r) \in Nat
    BY TimerCopies, CopiesType DEF OutcomeInv, CountInv
  <2> QED
    BY <2>1
<1> QED
  BY <1>1, <1>2, OutcomeKeeps DEF StillSendable

LEMMA LoopOutcome == OutcomeInv /\ CountInv' /\ LoopStep => OutcomeInv'
<1> SUFFICES ASSUME OutcomeInv, CountInv', LoopStep PROVE OutcomeInv'
  OBVIOUS
<1>1. ASSUME UNCHANGED <<queue, output, delivered, accepted, stream>> PROVE OutcomeInv'
  BY <1>1, QuietKeeps DEF StillSendable, OnStream
<1>2. CASE PollSome(FALSE) \/ PollSome(TRUE) \/ PollAgain \/ TimerIdle \/ TimerCrashes
  <2>1. UNCHANGED <<queue, output, delivered, accepted, stream>>
    BY <1>2 DEF PollSome, Poll, PollAgain, TimerIdle, TimerCrashes, Crash,
                engineVars, netVars, userVars
  <2> QED
    BY <1>1, <2>1
<1>3. CASE LeaveLoop
  BY <1>3, ReturnOutcome DEF LeaveLoop, netVars
<1>4. ASSUME NEW c \in Conns, ReadSocket(c) PROVE OutcomeInv'
  <2>1. UNCHANGED <<queue, delivered, accepted, stream>>
    BY <1>4 DEF ReadSocket, netVars, userVars
  <2>2. ASSUME NEW code \in Codes, ReportEngineError(code) PROVE OutcomeInv'
    BY <2>1, <2>2, ErrorKeeps
  <2> QED
    BY <1>1, <1>4, <2>1, <2>2 DEF ReadSocket, Codes
<1> QED
  BY <1>2, <1>3, <1>4, TimerOutcome DEF LoopStep

\* connect_event_handler takes r off the queue: its copy may go on to a stream.
LEMMA TakenKeeps ==
    ASSUME OutcomeInv, CountInv', NEW r \in Requests, NEW url, Connecting(r, url),
           UNCHANGED <<delivered, accepted>>,
           \A s \in Requests : EntriesFor(output', s) = EntriesFor(output, s),
           \A s \in Requests : s # r => stream'[s] = stream[s],
           StillSendable(r)
    PROVE  OutcomeInv'
<1>1. TypeOK
  BY DEF OutcomeInv, CountInv
<1>2. ASSUME NEW s \in Requests PROVE Copies(s)' <= Copies(s)
  <2>1. EntriesFor(queue', s) = EntriesFor(queue, s) - (IF r = s THEN 1 ELSE 0)
    BY <1>1, EntriesTail DEF Connecting, TypeOK
  <2>2. s # r => OnStream(s)' = OnStream(s)
    BY DEF OnStream
  <2> QED
    BY <1>1, <2>1, <2>2, CopiesType, CopiesNext DEF Copies
<1> QED
  BY <1>2, OutcomeKeeps DEF StillSendable

LEMMA ConnectOutcome == OutcomeInv /\ CountInv' /\ ConnectStep => OutcomeInv'
<1> SUFFICES ASSUME OutcomeInv, CountInv', ConnectStep PROVE OutcomeInv'
  OBVIOUS
<1>1. stream \in [Requests -> StreamRecord]
  BY DEF OutcomeInv, CountInv, TypeOK
<1>2. CASE RunConnectEvent \/ QueueDrained
  <2>1. UNCHANGED <<queue, output, delivered, accepted, stream>>
    BY <1>2 DEF RunConnectEvent, QueueDrained, engineVars, netVars, userVars
  <2> QED
    BY <2>1, QuietKeeps DEF StillSendable, OnStream
<1>3. ASSUME NEW r \in Requests, NEW url, QuicConnectRefused(r, url) PROVE OutcomeInv'
  BY <1>3, TakenKeeps DEF QuicConnectRefused, netVars, userVars, StillSendable
<1>4. ASSUME NEW r \in Requests, NEW url, QuicConnectFails(r, url) PROVE OutcomeInv'
  <2>1. \A s \in Requests : EntriesFor(output', s) = EntriesFor(output, s)
    BY <1>4, EngineErrorCopies DEF QuicConnectFails, Codes, OutcomeInv, CountInv
  <2> QED
    BY <1>4, <2>1, TakenKeeps DEF QuicConnectFails, NeedsConnection, userVars, StillSendable
<1>5. ASSUME NEW r \in Requests, NEW url, NEW c \in Conns, QuicConnectShared(r, url, c)
      PROVE  OutcomeInv'
  <2>1. stream'[r].has_data /\ \A s \in Requests : s # r => stream'[s] = stream[s]
    BY <1>1, <1>5 DEF QuicConnectShared, Insert
  <2> QED
    BY <1>5, <2>1, TakenKeeps DEF QuicConnectShared, userVars, StillSendable
<1>6. ASSUME NEW r \in Requests, NEW url, NEW c \in Conns, QuicConnectNew(r, url, c)
      PROVE  OutcomeInv'
  <2>1. stream'[r].phase = "attaching" /\ \A s \in Requests : s # r => stream'[s] = stream[s]
    BY <1>1, <1>6 DEF QuicConnectNew
  <2> QED
    BY <1>6, <2>1, TakenKeeps DEF QuicConnectNew, NeedsConnection, userVars, StillSendable
<1> QED
  BY <1>2, <1>3, <1>4, <1>5, <1>6 DEF ConnectStep

\* The callbacks that write, a reset, and on_new_stream: only a send_header that fails
\* answers, on a stream that still points to its request.
LEMMA WriteOutcome ==
    ASSUME OutcomeInv, CountInv', NEW r \in Requests,
           StreamReset(r) \/ OnNewStream(r) \/ OnWriteHeader(r) \/ OnWriteShutdown(r)
    PROVE  OutcomeInv'
<1>1. /\ r \in Listed /\ ~stream[r].is_read
      /\ Serving(r) => stream[r].phase \in {"created", "sent", "reading"}
      /\ stream \in [Requests -> StreamRecord]
  BY ServedUnread DEF StreamReset, OnWriteHeader, OnWriteShutdown, OutcomeInv, CountInv, TypeOK
<1>2. stream[r].phase # "attaching"
  BY <1>1 DEF Listed
<1>3. ASSUME NEW p, p # "attaching", NEW i, NEW k,
             stream' = [stream EXCEPT ![r] = StreamWith(r, p, i, stream[r].has_data, k)],
             UNCHANGED <<queue, output, delivered, accepted>>,
             p \in {"delayed", "created"} => stream[r].has_data
      PROVE  OutcomeInv'
  <2>1. /\ stream'[r].has_data = stream[r].has_data /\ stream'[r].phase = p
        /\ \A s \in Requests : s # r => stream'[s] = stream[s]
    BY <1>1, <1>3 DEF StreamWith
  <2>2. \A s \in Requests : StillSendable(s) /\ (OnStream(s)' => OnStream(s))
    BY <1>3, <2>1 DEF StillSendable, OnStream
  <2> QED
    BY <1>3, <2>2, QuietKeeps
<1>4. CASE StreamReset(r)
  <2>1. stream[r].phase \in {"delayed", "created"} => stream[r].has_data
    BY <1>1 DEF OutcomeInv, UnsentHasData
  <2> QED
    BY <1>2, <1>3, <1>4, <2>1 DEF StreamReset, engineVars, userVars
<1>5. CASE OnNewStream(r)
  <2>1. stream[r].has_data
    BY <1>1, <1>5 DEF OutcomeInv, UnsentHasData, OnNewStream
  <2> QED
    BY <1>3, <1>5, <2>1 DEF OnNewStream, engineVars, userVars
<1>6. CASE OnWriteHeader(r)
  <2>1. PICK failed \in BOOLEAN :
          /\ IF failed THEN "sendHeaders" \in Faults /\ Report(r, "SOCKET_FAIL")
                       ELSE UNCHANGED output
          /\ stream' = [stream EXCEPT ![r] = StreamWith(r, "sent", stream[r].is_read,
                                stream[r].has_data /\ ~failed, stream[r].closing)]
    BY <1>6 DEF OnWriteHeader
  <2>2. stream[r].has_data
    BY <1>1, <1>6 DEF OutcomeInv, UnsentHasData, OnWriteHeader
  <2>3. /\ stream'[r].phase = "sent" /\ (stream'[r].has_data <=> ~failed)
        /\ \A s \in Requests : s # r => stream'[s] = stream[s]
    BY <1>1, <2>1, <2>2 DEF StreamWith
  <2>4. UNCHANGED <<queue, delivered, accepted>>
    BY <1>6 DEF OnWriteHeader, userVars
  <2>5. CASE failed
    BY <2>1, <2>2, <2>3, <2>4, <2>5, AnswerKeeps DEF Codes, StillSendable
  <2>6. CASE ~failed
    <3>1. \A s \in Requests : StillSendable(s) /\ (OnStream(s)' => OnStream(s))
      BY <2>2, <2>3, <2>6 DEF StillSendable, OnStream
    <3> QED
      BY <2>1, <2>4, <2>6, <3>1, QuietKeeps
  <2> QED
    BY <2>5, <2>6
<1>7. CASE OnWriteShutdown(r)
  <2>1. /\ stream' = [stream EXCEPT ![r] =
              StreamWith(r, "reading", stream[r].is_read, stream[r].has_data, stream[r].closing)]
        /\ UNCHANGED <<queue, output, delivered, accepted>>
    BY <1>7 DEF OnWriteShutdown, engineVars, userVars
  <2>2. "reading" # "attaching" /\ "reading" \notin {"delayed", "created"}
    OBVIOUS
  <2> QED
    BY <1>3, <2>1, <2>2
<1> QED
  BY <1>4, <1>5, <1>6, <1>7

\* A stream about to leave its list gives its answer to the output stack, or none.
LEMMA StreamCloseOutcome ==
    ASSUME OutcomeInv, CountInv', NEW r \in Requests, OnStreamClose(r)
    PROVE  OutcomeInv'
<1>1. r \in Listed /\ stream \in [Requests -> StreamRecord] /\ UNCHANGED <<queue, delivered, accepted>>
  BY DEF OnStreamClose, Created, Crash, engineVars, userVars, OutcomeInv, CountInv, TypeOK
<1>2. ASSUME stream' = [stream EXCEPT ![r] = AbsentStream]
      PROVE  /\ ~stream'[r].has_data /\ stream'[r].phase = "absent"
             /\ \A s \in Requests : s # r => stream'[s] = stream[s]
  BY <1>1, <1>2 DEF AbsentStream
<1>3. CASE stream' = [stream EXCEPT ![r] = AbsentStream] /\ output' = output
  <2>1. \A s \in Requests : StillSendable(s) /\ (OnStream(s)' => OnStream(s))
    BY <1>2, <1>3 DEF StillSendable, OnStream
  <2> QED
    BY <1>1, <1>3, <2>1, QuietKeeps
<1>4. CASE /\ stream[r].has_data /\ Report(r, "CONNECTION_FAIL")
           /\ stream' = [stream EXCEPT ![r] = AbsentStream]
  BY <1>1, <1>2, <1>4, AnswerKeeps DEF Codes, StillSendable
<1>5. CASE UNCHANGED <<output, stream>>
  BY <1>1, <1>5, QuietKeeps DEF StillSendable, OnStream
<1> QED
  BY <1>3, <1>4, <1>5 DEF OnStreamClose, engineVars

\* A redirect moves the request from its stream to the queue.
LEMMA RedirectCopies ==
    ASSUME TypeOK, NEW s \in Requests, NEW url \in RedirectTo, OnReadRedirect(s, url),
           NEW r \in Requests
    PROVE  Copies(r)' = Copies(r)
<1> DEFINE e == [req |-> s, url |-> url]
<1>1. e \in [req : Requests, url : Urls] /\ e.req = s
  BY ConstantsAssumption
<1>2. queue' = Append(queue, e) /\ UNCHANGED <<output, delivered>> /\ stream[s].has_data
      /\ stream[s].phase = "reading"
      /\ stream' = [stream EXCEPT ![s] = StreamWith(s, stream[s].phase, TRUE, FALSE, TRUE)]
  BY DEF OnReadRedirect, EndOfRead, Reading
<1> HIDE DEF e
<1>3. /\ ~stream'[s].has_data /\ stream'[s].phase = "reading"
      /\ \A q \in Requests : q # s => stream'[q] = stream[q]
  BY <1>2 DEF StreamWith, TypeOK
<1>4. EntriesFor(queue', r) = EntriesFor(queue, r) + (IF s = r THEN 1 ELSE 0)
  <2>1. queue \in Seq([req : Requests, url : Urls])
    BY DEF TypeOK
  <2>2. EntriesFor(Append(queue, e), r) = EntriesFor(queue, r) + (IF e.req = r THEN 1 ELSE 0)
    BY <1>1, <2>1, EntriesAppend
  <2> QED
    BY <1>1, <1>2, <2>2
<1>5. CASE r = s
  <2>1. OnStream(r) /\ ~OnStream(r)'
    BY <1>2, <1>3, <1>5 DEF OnStream
  <2> QED
    BY <1>2, <1>4, <1>5, <2>1, CopiesType, CopiesNext DEF Copies
<1>6. CASE r # s
  <2>1. OnStream(r)' = OnStream(r)
    BY <1>3, <1>6 DEF OnStream
  <2> QED
    BY <1>2, <1>4, <1>6, <2>1, CopiesType, CopiesNext DEF Copies
<1> QED
  BY <1>5, <1>6

\* http_client_on_read: the answer goes to the output stack, the redirect to the queue.
LEMMA ReadOutcome ==
    ASSUME OutcomeInv, CountInv', NEW r \in Requests,
           \/ \E code \in Codes : OnReadAnswer(r, code)
           \/ \E url \in RedirectTo : OnReadRedirect(r, url)
           \/ OnReadError(r) \/ OnReadBadHeader(r) \/ OnReadOverflow(r) \/ OnReadEarlyFin(r)
    PROVE  OutcomeInv'
<1>1. Reading(r) /\ UNCHANGED <<delivered, accepted>>
  BY DEF OnReadAnswer, OnReadRedirect, OnReadError, OnReadBadHeader, OnReadOverflow,
         OnReadGivesUp, OnReadEarlyFin, Crash, userVars
<1>2. /\ stream[r].phase = "reading" /\ stream[r].has_data
      /\ stream \in [Requests -> StreamRecord]
  BY <1>1 DEF Reading, OutcomeInv, CountInv, TypeOK
<1>3. ASSUME NEW i, NEW k, stream' = [stream EXCEPT ![r] =
                               StreamWith(r, stream[r].phase, i, FALSE, k)]
      PROVE  /\ ~stream'[r].has_data /\ stream'[r].phase = "reading"
             /\ \A s \in Requests : s # r => stream'[s] = stream[s]
  BY <1>2, <1>3 DEF StreamWith
<1>4. ASSUME NEW i, NEW k, NEW code \in Codes, Report(r, code), queue' = queue,
             stream' = [stream EXCEPT ![r] = StreamWith(r, stream[r].phase, i, FALSE, k)]
      PROVE  OutcomeInv'
  BY <1>1, <1>2, <1>3, <1>4, AnswerKeeps DEF StillSendable
<1>5. CASE (\E code \in Codes : OnReadAnswer(r, code)) \/ OnReadError(r)
  <2>1. PICK code \in Codes : Report(r, code) /\ EndOfRead(r) /\ queue' = queue
    BY <1>5 DEF OnReadAnswer, OnReadError, Codes
  <2> QED
    BY <1>4, <2>1 DEF EndOfRead
<1>6. CASE OnReadBadHeader(r) \/ OnReadOverflow(r)
  <2>1. PICK code \in Codes, k \in BOOLEAN : OnReadGivesUp(r, code, k)
    BY <1>6 DEF OnReadBadHeader, OnReadOverflow, Codes
  <2>2. queue' = queue
    BY <2>1 DEF OnReadGivesUp, Crash
  <2> QED
    BY <1>4, <2>1, <2>2 DEF OnReadGivesUp
<1>7. CASE \E url \in RedirectTo : OnReadRedirect(r, url)
  <2>1. PICK url \in RedirectTo : OnReadRedirect(r, url)
    BY <1>7
  <2>2. \A q \in Requests : StillSendable(q)
    BY <1>3, <2>1 DEF OnReadRedirect, EndOfRead, StillSendable
  <2>3. ASSUME NEW q \in Requests PROVE Copies(q)' <= Copies(q)
    <3>1. Copies(q)' = Copies(q) /\ Copies(q) \in Nat
      BY <2>1, RedirectCopies, CopiesType DEF OutcomeInv, CountInv
    <3> QED
      BY <3>1
  <2> QED
    BY <1>1, <2>2, <2>3, OutcomeKeeps
<1>8. CASE OnReadEarlyFin(r)
  <2>1. UNCHANGED <<queue, output, stream>>
    BY <1>8 DEF OnReadEarlyFin, Crash
  <2> QED
    BY <1>1, <2>1, QuietKeeps DEF StillSendable, OnStream
<1> QED
  BY <1>5, <1>6, <1>7, <1>8

\* process_conns returns: quic_connect turns the stream it holds into a listed one,
\* a timeout that found nothing to report posts errors that concern no request.
LEMMA ConnsReturnOutcome ==
    ASSUME OutcomeInv, CountInv', ConnsReturn
    PROVE  OutcomeInv'
<1>1. UNCHANGED <<delivered, accepted>> /\ stream \in [Requests -> StreamRecord] /\ TypeOK
  BY DEF ConnsReturn, userVars, OutcomeInv, CountInv, TypeOK
<1>2. CASE UNCHANGED <<queue, output, stream>>
  BY <1>1, <1>2, QuietKeeps DEF StillSendable, OnStream
<1>3. CASE caller = "timer_handler" /\ output' # output
  <2>1. output = <<>> /\ output' = [i \in 1..count |-> [req |-> NoReq, code |-> "TIMEOUT"]]
        /\ UNCHANGED <<queue, stream>>
    BY <1>3 DEF ConnsReturn, TimerFinish
  <2>2. ASSUME NEW r \in Requests PROVE Copies(r)' <= Copies(r)
    <3>1. NoReq # r
      BY ConstantsAssumption
    <3>2. EntriesFor(output', r) = 0
      BY <2>1, <3>1, EntriesNone
    <3> QED
      BY <1>1, <2>1, <3>2, CopiesType, CopiesNext DEF Copies, OnStream
  <2> QED
    BY <1>1, <2>1, <2>2, OutcomeKeeps DEF StillSendable
<1>4. CASE caller = "quic_connect"
  <2>1. PICK r \in Requests : stream[r].phase = "attaching" /\ Insert(r, stream[r].conn)
    BY <1>4 DEF ConnsReturn
  <2>2. /\ stream'[r].has_data /\ UNCHANGED <<queue, output>>
        /\ \A s \in Requests : s # r => stream'[s] = stream[s]
    BY <1>1, <1>4, <2>1 DEF ConnsReturn, Insert
  <2>3. \A s \in Requests : StillSendable(s) /\ (OnStream(s)' => OnStream(s))
    BY <2>1, <2>2 DEF StillSendable, OnStream
  <2> QED
    BY <1>1, <2>2, <2>3, QuietKeeps
<1>5. CASE caller = "destroy_engine"
  <2>1. output' = <<>> /\ queue' = <<>> /\ stream' = stream
    BY <1>5 DEF ConnsReturn
  <2>2. ASSUME NEW r \in Requests PROVE Copies(r)' <= Copies(r)
    <3>1. EntriesFor(output', r) = 0 /\ EntriesFor(queue', r) = 0
      BY <2>1, EntriesNone
    <3> QED
      BY <1>1, <2>1, <3>1, CopiesType, CopiesNext DEF Copies, OnStream
  <2> QED
    BY <1>1, <2>1, <2>2, OutcomeKeeps DEF StillSendable
<1> QED
  BY <1>2, <1>3, <1>4, <1>5 DEF ConnsReturn, engineVars, TimerFinish

LEMMA ConnsOutcome == OutcomeInv /\ CountInv' /\ ConnsStep => OutcomeInv'
<1> SUFFICES ASSUME OutcomeInv, CountInv', ConnsStep PROVE OutcomeInv'
  OBVIOUS
<1>1. ASSUME UNCHANGED <<queue, output, delivered, accepted, stream>> PROVE OutcomeInv'
  BY <1>1, QuietKeeps DEF StillSendable, OnStream
<1>2. ASSUME NEW c \in Conns, NEW ok \in BOOLEAN, OnHandshake(c, ok) PROVE OutcomeInv'
  <2>1. UNCHANGED <<queue, delivered, accepted, stream>>
    BY <1>2 DEF OnHandshake, userVars
  <2>2. output' = output \/ ReportEngineError("CONNECTION_FAIL")
    BY <1>2 DEF OnHandshake
  <2> QED
    BY <1>1, <2>1, <2>2, ErrorKeeps DEF Codes
<1>3. ASSUME NEW c \in Conns, ConnLost(c) PROVE OutcomeInv'
  BY <1>1, <1>3 DEF ConnLost, engineVars, userVars
<1>4. ASSUME NEW c \in Conns, OnConnClosed(c) PROVE OutcomeInv'
  <2>1. \A s \in Requests : stream'[s] = AbsentStream \/ stream'[s] = stream[s]
    BY <1>4 DEF OnConnClosed
  <2>2. \A s \in Requests : StillSendable(s) /\ (OnStream(s)' => OnStream(s))
    BY <2>1 DEF StillSendable, OnStream, AbsentStream
  <2> QED
    BY <1>4, <2>2, QuietKeeps DEF OnConnClosed, engineVars, userVars
<1>5. CASE PacketsOutFail
  BY <1>5, ErrorKeeps DEF PacketsOutFail, netVars, userVars, Codes
<1> QED
  BY <1>2, <1>3, <1>4, <1>5, WriteOutcome, ReadOutcome, StreamCloseOutcome, ConnsReturnOutcome
     DEF ConnsStep

LEMMA OutcomeInit == Init => OutcomeInv
<1> SUFFICES ASSUME Init PROVE OutcomeInv
  OBVIOUS
<1>1. CountInv
  BY CountInit
<1>2. queue = <<>> /\ output = <<>> /\ delivered = <<>>
      /\ \A r \in Requests : ~stream[r].has_data /\ stream[r].phase = "absent"
  BY DEF Init, AbsentStream
<1>3. ASSUME NEW r \in Requests PROVE Copies(r) = 0
  <2>1. EntriesFor(<<>>, r) = 0
    BY EntriesNone
  <2> QED
    BY <1>2, <2>1 DEF Copies, OnStream
<1> QED
  BY <1>1, <1>2, <1>3 DEF OutcomeInv, OneOutcome, UnsentHasData, Listed

LEMMA OutcomeStep == OutcomeInv /\ [Next]_vars => OutcomeInv'
<1> SUFFICES ASSUME OutcomeInv, [Next]_vars PROVE OutcomeInv'
  OBVIOUS
<1>1. CountInv'
  BY CountStep DEF OutcomeInv
<1>2. CASE UNCHANGED vars
  BY <1>1, <1>2, QuietKeeps DEF vars, engineVars, netVars, userVars, StillSendable, OnStream
<1>3. CASE Next
  BY <1>1, <1>2, <1>3, UserOutcome, LoopOutcome, ConnectOutcome, ConnsOutcome
     DEF Next, EngineStep, Finished
<1> QED
  BY <1>2, <1>3

\* A request is in at most one place, once: the request queue, a stream that points to
\* it, the output stack or what get_download_result returned.  No order of timeouts,
\* resets, redirects and answers reports it twice, or tries again what was reported.
THEOREM OneOutcomeEach == Spec => []OneOutcome
<1>1. OutcomeInv => OneOutcome
  BY DEF OutcomeInv
<1> QED
  BY <1>1, OutcomeInit, OutcomeStep, PTL DEF Spec
-----------------------------------------------------------------------------
(* Only a closed engine reports errors that concern no request. *)

LEMMA EntriesZero ==
    ASSUME NEW S, NEW s \in Seq(S), NEW r
    PROVE  EntriesFor(s, r) = 0 <=> \A i \in DOMAIN s : s[i].req # r
<1>1. IsFiniteSet({i \in DOMAIN s : s[i].req = r})
  BY EntriesType
<1>2. EntriesFor(s, r) = 0 <=> {i \in DOMAIN s : s[i].req = r} = {}
  BY <1>1, FS_EmptySet DEF EntriesFor
<1> QED
  BY <1>2

LEMMA ErrorsCounted ==
    ASSUME TypeOK
    PROVE  EngineErrorsCloseIt <=> isClosed \/ EntriesFor(output, NoReq) = 0
BY EntriesZero DEF TypeOK, EngineErrorsCloseIt

LEMMA ErrorsCountedNext ==
    ASSUME TypeOK'
    PROVE  EngineErrorsCloseIt' <=> isClosed' \/ EntriesFor(output', NoReq) = 0
<1>1. output' \in Seq(Output)
  BY DEF TypeOK
<1>2. EntriesFor(output', NoReq) = 0 <=> \A i \in DOMAIN output' : output'[i].req # NoReq
  BY <1>1, EntriesZero
<1> QED
  BY <1>2 DEF EngineErrorsCloseIt

\* The engine reports an error that concerns no request only as it closes.
LEMMA NoNewErrors ==
    ASSUME TypeOK, TypeOK', EngineErrorsCloseIt, isClosed => isClosed',
           EntriesFor(output', NoReq) <= EntriesFor(output, NoReq)
    PROVE  EngineErrorsCloseIt'
BY ErrorsCounted, ErrorsCountedNext, CopiesType, CopiesTypeNext

LEMMA ReportNoError ==
    ASSUME TypeOK, NEW r \in Requests, NEW code \in Codes, Report(r, code)
    PROVE  EntriesFor(output', NoReq) <= EntriesFor(output, NoReq)
<1>1. EntriesFor(output', NoReq) = EntriesFor(output, NoReq) + (IF r = NoReq THEN 1 ELSE 0)
  BY ReportCopies
<1> QED
  BY <1>1, ConstantsAssumption, CopiesType

LEMMA ReturnNoError ==
    ASSUME TypeOK, TypeOK', ReturnResult
    PROVE  EntriesFor(output', NoReq) <= EntriesFor(output, NoReq)
<1>1. CASE output = <<>>
  BY <1>1, CopiesType DEF ReturnResult
<1>2. CASE output # <<>>
  <2>1. EntriesFor(Tail(output), NoReq)
        = EntriesFor(output, NoReq) - (IF Head(output).req = NoReq THEN 1 ELSE 0)
    BY <1>2, EntriesTail DEF TypeOK
  <2> QED
    <3>1. EntriesFor(output, NoReq) \in Nat /\ output' = Tail(output)
      BY <1>2, CopiesType DEF ReturnResult
    <3> QED
      BY <2>1, <3>1
<1> QED
  BY <1>1, <1>2

LEMMA TimerNoError ==
    ASSUME TypeOK, TimerEndsStreams
    PROVE  EntriesFor(output', NoReq) <= EntriesFor(output, NoReq)
<1>1. IsFiniteSet(Listed) /\ Listed \subseteq Requests
  BY FS_Subset, ConstantsAssumption DEF Listed
<1>2. PICK order \in SetToSeqs(Listed) :
         output' = [i \in DOMAIN order |-> [req |-> order[i], code |-> "TIMEOUT"]] \o output
  BY DEF TimerEndsStreams
<1> DEFINE new == [i \in DOMAIN order |-> [req |-> order[i], code |-> "TIMEOUT"]]
<1>3. order \in [1..Len(order) -> Requests] /\ Len(order) \in Nat
  BY <1>1, OrderType, LenProperties
<1>4. new \in Seq(Output)
  <2>1. new \in [1..Len(order) -> Output]
    BY <1>3 DEF Output, Codes
  <2> QED
    BY <1>3, <2>1, SeqDef
<1>5. EntriesFor(new, NoReq) = 0
  <2>1. \A i \in DOMAIN new : new[i].req # NoReq
    BY <1>3, ConstantsAssumption
  <2> QED
    BY <2>1, EntriesNone
<1>6. output' = new \o output
  BY <1>2
<1> HIDE DEF new
<1>7. EntriesFor(output', NoReq) = EntriesFor(new, NoReq) + EntriesFor(output, NoReq)
  BY <1>4, <1>6, EntriesConcat DEF TypeOK
<1> QED
  BY <1>5, <1>7, CopiesType

\* What every step does to the output stack, and that no step opens a closed engine.
LEMMA OutputClasses ==
    ASSUME OutcomeInv, [Next]_vars
    PROVE  /\ isClosed => isClosed'
           /\ \/ isClosed' \/ output' = output
              \/ ReturnResult \/ TimerEndsStreams
              \/ \E r \in Requests, code \in Codes : Report(r, code)
<1> DEFINE Class == /\ isClosed => isClosed'
                    /\ \/ isClosed' \/ output' = output
                       \/ ReturnResult \/ TimerEndsStreams
                       \/ \E r \in Requests, code \in Codes : Report(r, code)
<1> SUFFICES Class
  OBVIOUS
<1>1. ASSUME NEW code, ReportEngineError(code) PROVE Class
  BY <1>1 DEF ReportEngineError
<1>2. CASE UNCHANGED vars
  BY <1>2 DEF vars, engineVars
<1>3. CASE UserStep
  <2>1. ASSUME NEW batch, StartDownloading(batch) PROVE Class
    BY <2>1 DEF StartDownloading
  <2>2. CASE GetWithoutWaiting
    BY <2>2 DEF GetWithoutWaiting
  <2>3. CASE GetByWaiting \/ DestroyClient
    BY <2>3 DEF GetByWaiting, DestroyClient, engineVars
  <2> QED
    BY <1>3, <2>1, <2>2, <2>3 DEF UserStep
<1>4. CASE LoopStep
  <2>1. ASSUME NEW c \in Conns, ReadSocket(c) PROVE Class
    BY <1>1, <2>1 DEF ReadSocket
  <2>2. CASE TimerEndsStreams
    BY <2>2 DEF TimerEndsStreams
  <2>3. CASE LeaveLoop
    BY <2>3 DEF LeaveLoop
  <2> QED
    BY <1>4, <2>1, <2>2, <2>3 DEF LoopStep, PollSome, Poll, PollAgain, TimerIdle, TimerCrashes,
                                  Crash, engineVars
<1>5. CASE ConnectStep
  <2>1. ASSUME NEW r, NEW url, QuicConnectFails(r, url) PROVE Class
    BY <1>1, <2>1 DEF QuicConnectFails
  <2> QED
    BY <1>5, <2>1 DEF ConnectStep, RunConnectEvent, QueueDrained, QuicConnectRefused,
                      QuicConnectShared, QuicConnectNew, engineVars
<1>6. CASE ConnsStep
  <2>1. ASSUME NEW c, NEW ok, OnHandshake(c, ok) PROVE Class
    BY <1>1, <2>1 DEF OnHandshake
  <2>2. CASE PacketsOutFail
    BY <1>1, <2>2 DEF PacketsOutFail
  <2>3. CASE ConnsReturn
    BY <2>3 DEF ConnsReturn, TimerFinish, engineVars
  <2>4. ASSUME NEW c, ConnLost(c) \/ OnConnClosed(c) PROVE Class
    BY <2>4 DEF ConnLost, OnConnClosed, engineVars
  <2>5. ASSUME NEW r \in Requests, NEW code \in Codes, Report(r, code), isClosed' = isClosed
        PROVE  Class
    BY <2>5
  <2>6. ASSUME NEW r \in Requests,
               \/ StreamReset(r) \/ OnNewStream(r) \/ OnWriteShutdown(r) \/ OnReadEarlyFin(r)
               \/ \E url \in RedirectTo : OnReadRedirect(r, url)
        PROVE  Class
    <3>1. UNCHANGED <<output, isClosed>>
      BY <2>6 DEF StreamReset, OnNewStream, OnWriteShutdown, OnReadEarlyFin, OnReadRedirect,
                  Crash, engineVars
    <3> QED
      BY <3>1
  <2>7. ASSUME NEW r \in Requests,
               \/ OnWriteHeader(r) \/ OnStreamClose(r)
               \/ \E code \in Codes : OnReadAnswer(r, code)
               \/ OnReadError(r) \/ OnReadBadHeader(r) \/ OnReadOverflow(r)
        PROVE  Class
    <3>1. isClosed' = isClosed
      BY <2>7 DEF OnWriteHeader, OnStreamClose, OnReadAnswer, OnReadError, OnReadBadHeader,
                  OnReadOverflow, OnReadGivesUp, Crash, engineVars
    <3>2. output' = output \/ \E code \in Codes : Report(r, code)
      BY <2>7 DEF OnWriteHeader, OnStreamClose, OnReadAnswer, OnReadError, OnReadBadHeader,
                  OnReadOverflow, OnReadGivesUp, engineVars, Codes
    <3> QED
      BY <2>5, <3>1, <3>2
  <2> QED
    BY <1>6, <2>1, <2>2, <2>3, <2>4, <2>6, <2>7 DEF ConnsStep
<1> QED
  BY <1>2, <1>3, <1>4, <1>5, <1>6 DEF Next, EngineStep, Finished

LEMMA ServiceInvStep == ServiceInv /\ [Next]_vars => ServiceInv'
<1> SUFFICES ASSUME ServiceInv, [Next]_vars PROVE ServiceInv'
  OBVIOUS
<1>1. OutcomeInv' /\ OutcomeInv /\ TypeOK /\ TypeOK' /\ EngineErrorsCloseIt
  BY OutcomeStep DEF ServiceInv, OutcomeInv, CountInv
<1>2. CASE isClosed'
  BY <1>1, <1>2 DEF ServiceInv, EngineErrorsCloseIt
<1>3. CASE output' = output
  BY <1>1, <1>3, OutputClasses DEF ServiceInv, EngineErrorsCloseIt
<1>4. CASE ReturnResult
  BY <1>1, <1>4, ReturnNoError, OutputClasses, NoNewErrors DEF ServiceInv
<1>5. CASE TimerEndsStreams
  BY <1>1, <1>5, TimerNoError, OutputClasses, NoNewErrors DEF ServiceInv
<1>6. CASE \E r \in Requests, code \in Codes : Report(r, code)
  BY <1>1, <1>6, ReportNoError, OutputClasses, NoNewErrors DEF ServiceInv
<1> QED
  BY <1>1, <1>2, <1>3, <1>4, <1>5, <1>6, OutputClasses
-----------------------------------------------------------------------------
(* The engine implements the service. *)

\* What DownloadService sees of a history of results.
Reqs(s) == [i \in DOMAIN s |-> s[i].req]

\* What DownloadService sees as a call that waits.
WaitingCall == \/ ctl \in {"poll", "run", "connect"}
               \/ ctl \in {"conns", "crashed"} /\ caller # "destroy_engine"

LEMMA ReqsAppend ==
    ASSUME NEW s \in Seq(Output), NEW e \in Output
    PROVE  Reqs(Append(s, e)) = Append(Reqs(s), e.req)
<1> DEFINE R == Requests \cup {NoReq}
<1>1. /\ Len(s) \in Nat /\ DOMAIN s = 1..Len(s)
      /\ \A i \in 1..Len(s) : s[i] \in Output
      /\ Append(s, e) \in Seq(Output) /\ DOMAIN Append(s, e) = 1..Len(s)+1
      /\ \A i \in 1..Len(s)+1 : Append(s, e)[i] = IF i <= Len(s) THEN s[i] ELSE e
  BY LenProperties, AppendProperties
<1>2. e.req \in R /\ \A x \in Output : x.req \in R
  BY DEF Output
<1>3. Reqs(s) \in Seq(R) /\ Len(Reqs(s)) = Len(s)
  <2>1. Reqs(s) \in [1..Len(s) -> R]
    BY <1>1, <1>2 DEF Reqs
  <2> QED
    BY <1>1, <2>1, SeqDef, LenProperties
<1>4. Reqs(Append(s, e)) \in Seq(R) /\ Len(Reqs(Append(s, e))) = Len(s)+1
  <2>1. \A i \in 1..Len(s)+1 : Append(s, e)[i] \in Output
    BY <1>1
  <2>2. Reqs(Append(s, e)) \in [1..Len(s)+1 -> R]
    BY <1>1, <1>2, <2>1 DEF Reqs
  <2> QED
    BY <1>1, <2>2, SeqDef, LenProperties
<1>5. /\ Append(Reqs(s), e.req) \in Seq(R) /\ Len(Append(Reqs(s), e.req)) = Len(s)+1
      /\ \A i \in 1..Len(s)+1 :
            Append(Reqs(s), e.req)[i] = IF i <= Len(s) THEN Reqs(s)[i] ELSE e.req
  BY <1>2, <1>3, AppendProperties
<1>6. ASSUME NEW i \in 1..Len(s)+1 PROVE Reqs(Append(s, e))[i] = Append(Reqs(s), e.req)[i]
  <2>1. Reqs(Append(s, e))[i] = Append(s, e)[i].req
    BY <1>1 DEF Reqs
  <2>2. CASE i <= Len(s)
    <3>1. i \in 1..Len(s)
      BY <1>1, <2>2
    <3> QED
      BY <1>1, <1>5, <2>1, <2>2, <3>1 DEF Reqs
  <2>3. CASE ~(i <= Len(s))
    BY <1>1, <1>5, <2>1, <2>3
  <2> QED
    BY <2>2, <2>3
<1> QED
  BY <1>4, <1>5, <1>6, SeqEqual

\* A step of the engine that the user does not see, or that breaks the service.
LEMMA ServiceQuiet ==
    ASSUME TypeOK, TypeOK', UNCHANGED <<accepted, delivered>>, WaitingCall' <=> WaitingCall,
           isClosed => isClosed'
    PROVE  [Service!Next]_(Service!svars)
<1>1. isClosed \in BOOLEAN /\ isClosed' \in BOOLEAN
  BY DEF TypeOK
<1>2. CASE isClosed' = isClosed
  BY <1>2 DEF Service!svars, WaitingCall
<1>3. CASE isClosed' # isClosed
  <2>1. ~isClosed /\ isClosed'
    BY <1>1, <1>3
  <2>2. Service!Break
    BY <2>1 DEF Service!Break, WaitingCall
  <2> QED
    BY <2>2 DEF Service!Next
<1> QED
  BY <1>2, <1>3

\* The call that waited ends without a result.
LEMMA ServiceGivesUp ==
    ASSUME UNCHANGED <<accepted, delivered, isClosed>>, WaitingCall, ~WaitingCall'
    PROVE  [Service!Next]_(Service!svars)
<1>1. Service!GiveUp
  BY DEF Service!GiveUp, WaitingCall
<1> QED
  BY <1>1 DEF Service!Next

\* get_download_result returns the top of the output stack: an answer that was asked
\* for and not given yet, or the error of an engine that is closed.
LEMMA ServiceReturns ==
    ASSUME ServiceInv, output # <<>>, ReturnResult, UNCHANGED <<accepted, isClosed>>,
           ~isClosed \/ WaitingCall, ~WaitingCall'
    PROVE  [Service!Next]_(Service!svars)
<1>0. PICK r : r = Head(output).req
  OBVIOUS
<1>1. TypeOK
  BY DEF ServiceInv, OutcomeInv, CountInv
<1>2. /\ output \in Seq(Output) /\ delivered \in Seq(Output)
      /\ Head(output) \in Output /\ 1 \in DOMAIN output /\ Head(output) = output[1]
      /\ delivered' = Append(delivered, Head(output))
  BY <1>1, HeadTailProperties, LenProperties DEF TypeOK, ReturnResult
<1>3. Reqs(delivered') = Append(Reqs(delivered), r)
  BY <1>0, <1>2, ReqsAppend
<1>4. CASE r = NoReq
  <2>1. isClosed /\ WaitingCall
    BY <1>0, <1>2, <1>4 DEF ServiceInv, EngineErrorsCloseIt
  <2>2. Service!Fail
    BY <1>3, <1>4, <2>1 DEF Service!Fail, WaitingCall, Reqs
  <2> QED
    BY <2>2 DEF Service!Next
<1>5. CASE r # NoReq
  <2>1. r \in Requests
    BY <1>0, <1>2, <1>5 DEF Output
  <2>2. EntriesFor(output, r) # 0
    BY <1>0, <1>2, EntriesZero
  <2>3. r \in accepted /\ EntriesFor(delivered, r) = 0
    <3>1. /\ EntriesFor(queue, r) \in Nat /\ EntriesFor(output, r) \in Nat
          /\ EntriesFor(delivered, r) \in Nat
      BY <1>1, CopiesType
    <3>2. Copies(r) <= (IF r \in accepted THEN 1 ELSE 0)
      BY <2>1 DEF ServiceInv, OutcomeInv, OneOutcome
    <3> QED
      BY <2>2, <3>1, <3>2 DEF Copies
  <2>4. \A i \in DOMAIN delivered : delivered[i].req # r
    BY <1>2, <2>3, EntriesZero
  <2>5. r \notin Service!Answered
    <3>1. Len(Reqs(delivered)) = Len(delivered) /\ DOMAIN delivered = 1..Len(delivered)
      <4>1. Len(delivered) \in Nat /\ DOMAIN delivered = 1..Len(delivered)
        BY <1>2, LenProperties
      <4> QED
        BY <4>1 DEF Reqs
    <3>2. \A i \in 1..Len(delivered) : Reqs(delivered)[i] # r
      BY <2>4, <3>1 DEF Reqs
    <3> QED
      BY <3>1, <3>2 DEF Service!Answered, Reqs
  <2>6. Service!Answer(r)
    BY <1>3, <2>3, <2>5 DEF Service!Answer, WaitingCall, Reqs
  <2>7. \E q \in Requests : Service!Answer(q)
    BY <2>1, <2>6
  <2> QED
    BY <2>7 DEF Service!Next
<1> QED
  BY <1>4, <1>5

LEMMA UserService ==
    ASSUME ServiceInv, TypeOK', UserStep
    PROVE  [Service!Next]_(Service!svars)
<1>1. TypeOK
  BY DEF ServiceInv, OutcomeInv, CountInv
<1>2. ASSUME NEW batch \in Batches, StartDownloading(batch) PROVE [Service!Next]_(Service!svars)
  <2>1. PICK S \in SUBSET (Requests \ accepted) : batch \in SetToSeqs(S)
    BY DEF Batches
  <2>2. IsFiniteSet(S) /\ S \subseteq Requests
    BY FS_Subset, ConstantsAssumption
  <2>3. Range(batch) = S
    BY <2>1, <2>2, OrderType
  <2>4. /\ accepted' = accepted \cup S /\ ctl = "app" /\ ~isClosed
        /\ UNCHANGED <<ctl, caller, isClosed, delivered>>
    BY <1>2, <2>3 DEF StartDownloading
  <2>5. Service!Ask(S)
    BY <2>4 DEF Service!Ask
  <2> QED
    BY <2>2, <2>5 DEF Service!Next
<1>3. CASE GetWithoutWaiting
  <2>1. /\ ctl = "app" /\ UNCHANGED <<ctl, caller, isClosed, accepted>>
        /\ ~WaitingCall /\ ~WaitingCall'
    BY <1>3 DEF GetWithoutWaiting, loopVars, WaitingCall
  <2>2. CASE delivered' = delivered
    BY <1>1, <2>1, <2>2, ServiceQuiet
  <2>3. CASE delivered' # delivered
    <3>1. ~isClosed /\ ReturnResult /\ output # <<>>
      BY <1>3, <2>3 DEF GetWithoutWaiting, ReturnResult
    <3> QED
      BY <2>1, <3>1, ServiceReturns
  <2> QED
    BY <2>2, <2>3
<1>4. CASE GetByWaiting
  <2>1. Service!Wait
    BY <1>4 DEF Service!Wait, GetByWaiting, engineVars
  <2> QED
    BY <2>1 DEF Service!Next
<1>5. CASE DestroyClient
  <2>1. ~WaitingCall /\ ~WaitingCall' /\ UNCHANGED <<accepted, delivered, isClosed>>
    BY <1>5 DEF DestroyClient, WaitingCall, engineVars, userVars
  <2> QED
    BY <1>1, <2>1, ServiceQuiet
<1> QED
  BY <1>2, <1>3, <1>4, <1>5 DEF UserStep

LEMMA LoopService ==
    ASSUME ServiceInv, TypeOK', LoopStep, isClosed => isClosed'
    PROVE  [Service!Next]_(Service!svars)
<1>1. TypeOK
  BY DEF ServiceInv, OutcomeInv, CountInv
<1>2. CASE PollSome(FALSE) \/ PollSome(TRUE) \/ PollAgain \/ TimerIdle \/ TimerEndsStreams
  <2>1. WaitingCall /\ WaitingCall' /\ UNCHANGED <<accepted, delivered>>
    BY <1>2 DEF PollSome, Poll, PollAgain, TimerIdle, TimerEndsStreams, Running, WaitingCall,
                userVars
  <2> QED
    BY <1>1, <2>1, ServiceQuiet
<1>3. ASSUME NEW c \in Conns, ReadSocket(c) PROVE [Service!Next]_(Service!svars)
  <2>1. WaitingCall /\ WaitingCall' /\ UNCHANGED <<accepted, delivered>>
    BY <1>3 DEF ReadSocket, Running, WaitingCall, userVars
  <2> QED
    BY <1>1, <2>1, ServiceQuiet
<1>4. CASE LeaveLoop
  <2>1. WaitingCall /\ ~WaitingCall' /\ UNCHANGED <<accepted, isClosed>> /\ ReturnResult
    BY <1>4 DEF LeaveLoop, WaitingCall
  <2>2. CASE output = <<>>
    BY <2>1, <2>2, ServiceGivesUp DEF ReturnResult
  <2> QED
    BY <2>1, <2>2, ServiceReturns
<1>5. CASE TimerCrashes
  <2>1. WaitingCall /\ UNCHANGED <<accepted, delivered, isClosed>>
    BY <1>5 DEF TimerCrashes, Running, Crash, WaitingCall, userVars
  <2>2. CASE WaitingCall'
    BY <1>1, <2>1, <2>2, ServiceQuiet
  <2>3. CASE ~WaitingCall'
    BY <2>1, <2>3, ServiceGivesUp
  <2> QED
    BY <2>2, <2>3
<1> QED
  BY <1>2, <1>3, <1>4, <1>5 DEF LoopStep

LEMMA ConnectService ==
    ASSUME ServiceInv, TypeOK', ConnectStep, isClosed => isClosed'
    PROVE  [Service!Next]_(Service!svars)
<1>1. TypeOK
  BY DEF ServiceInv, OutcomeInv, CountInv
<1>2. WaitingCall /\ WaitingCall' /\ UNCHANGED <<accepted, delivered>>
  <2>1. CASE RunConnectEvent \/ QueueDrained
    BY <2>1 DEF RunConnectEvent, QueueDrained, Running, WaitingCall, userVars
  <2>2. ASSUME NEW r, NEW url, \/ QuicConnectRefused(r, url) \/ QuicConnectFails(r, url)
                                \/ \E c \in Conns : QuicConnectShared(r, url, c)
        PROVE  WaitingCall /\ WaitingCall' /\ UNCHANGED <<accepted, delivered>>
    BY <2>2 DEF QuicConnectRefused, QuicConnectFails, QuicConnectShared, NeedsConnection,
                Connecting, WaitingCall, loopVars, userVars
  <2>3. ASSUME NEW r, NEW url, NEW c, QuicConnectNew(r, url, c)
        PROVE  WaitingCall /\ WaitingCall' /\ UNCHANGED <<accepted, delivered>>
    BY <2>3 DEF QuicConnectNew, NeedsConnection, Connecting, WaitingCall, userVars
  <2> QED
    BY <2>1, <2>2, <2>3 DEF ConnectStep
<1> QED
  BY <1>1, <1>2, ServiceQuiet

LEMMA ConnsService ==
    ASSUME ServiceInv, TypeOK', ConnsStep, isClosed => isClosed'
    PROVE  [Service!Next]_(Service!svars)
<1>1. TypeOK
  BY DEF ServiceInv, OutcomeInv, CountInv
<1>2. CASE ConnsReturn
  <2>1. UNCHANGED <<accepted, delivered, caller>> /\ ctl = "conns"
    BY <1>2 DEF ConnsReturn, userVars
  <2>2. WaitingCall' <=> WaitingCall
    BY <1>2, <2>1 DEF ConnsReturn, WaitingCall
  <2> QED
    BY <1>1, <2>1, <2>2, ServiceQuiet
<1>3. CASE ~ConnsReturn
  <2>1. /\ ctl = "conns" /\ ctl' \in {"conns", "crashed"}
        /\ UNCHANGED <<caller, accepted, delivered>>
    <3>1. ASSUME NEW c, \/ OnHandshake(c, TRUE) \/ OnHandshake(c, FALSE) \/ ConnLost(c)
                        \/ OnConnClosed(c) \/ PacketsOutFail
          PROVE  /\ ctl = "conns" /\ ctl' \in {"conns", "crashed"}
                 /\ UNCHANGED <<caller, accepted, delivered>>
      BY <3>1 DEF OnHandshake, ConnLost, OnConnClosed, PacketsOutFail, loopVars, userVars
    <3>2. ASSUME NEW r, \/ StreamReset(r) \/ OnNewStream(r) \/ OnWriteHeader(r)
                        \/ OnWriteShutdown(r) \/ OnStreamClose(r)
          PROVE  /\ ctl = "conns" /\ ctl' \in {"conns", "crashed"}
                 /\ UNCHANGED <<caller, accepted, delivered>>
      BY <3>2 DEF StreamReset, OnNewStream, OnWriteHeader, OnWriteShutdown, OnStreamClose,
                  Serving, Crash, loopVars, userVars
    <3>3. ASSUME NEW r, \/ \E code \in Codes : OnReadAnswer(r, code)
                        \/ \E url \in RedirectTo : OnReadRedirect(r, url)
                        \/ OnReadError(r) \/ OnReadBadHeader(r) \/ OnReadOverflow(r)
                        \/ OnReadEarlyFin(r)
          PROVE  /\ ctl = "conns" /\ ctl' \in {"conns", "crashed"}
                 /\ UNCHANGED <<caller, accepted, delivered>>
      BY <3>3 DEF OnReadAnswer, OnReadRedirect, OnReadError, OnReadBadHeader, OnReadOverflow,
                  OnReadGivesUp, OnReadEarlyFin, Reading, Serving, Crash, loopVars, userVars
    <3> QED
      BY <1>3, <3>1, <3>2, <3>3 DEF ConnsStep
  <2>2. WaitingCall' <=> WaitingCall
    BY <2>1 DEF WaitingCall
  <2> QED
    BY <1>1, <2>1, <2>2, ServiceQuiet
<1> QED
  BY <1>2, <1>3

\* The engine keeps the promises of DownloadService, whatever the environment does: an
\* accepted request is answered at most once, no other is, and an engine that closed
\* returns at most one result more, to the get_download_result that was waiting.
THEOREM EngineImplementsService == Spec => ImplementsService
<1>1. Init => Service!Init
  <2> SUFFICES ASSUME Init PROVE Service!Init
    OBVIOUS
  <2>1. [i \in DOMAIN delivered |-> delivered[i].req] = <<>>
    BY DEF Init
  <2> QED
    BY <2>1 DEF Init, Service!Init
<1>2. ServiceInv /\ [Next]_vars => [Service!Next]_(Service!svars)
  <2> SUFFICES ASSUME ServiceInv, [Next]_vars PROVE [Service!Next]_(Service!svars)
    OBVIOUS
  <2>1. TypeOK /\ TypeOK' /\ (isClosed => isClosed')
    BY OutputClasses, TypeStep DEF ServiceInv, OutcomeInv, CountInv
  <2>2. CASE UNCHANGED vars
    <3>1. UNCHANGED <<ctl, caller, isClosed, accepted, delivered>>
      BY <2>2 DEF vars, loopVars, engineVars, userVars
    <3>2. WaitingCall' <=> WaitingCall
      BY <3>1 DEF WaitingCall
    <3> QED
      BY <2>1, <3>1, <3>2, ServiceQuiet
  <2>3. CASE Next
    BY <2>1, <2>2, <2>3, UserService, LoopService, ConnectService, ConnsService
       DEF Next, EngineStep, Finished
  <2> QED
    BY <2>2, <2>3
<1>3. Init => ServiceInv
  <2>1. Init => EngineErrorsCloseIt
    BY DEF Init, EngineErrorsCloseIt
  <2> QED
    BY <2>1, OutcomeInit DEF ServiceInv
<1> QED
  BY <1>1, <1>2, <1>3, ServiceInvStep, PTL DEF Spec, ImplementsService, Service!Spec
-----------------------------------------------------------------------------
(* The arithmetic of an exact count. *)

LEMMA OneLess ==
    ASSUME CountExact, NEW r \in Unread, Unread' = Unread \ {r}, count' = count - 1
    PROVE  CountExact' /\ (count = 1 => Unread' = {})
<1>1. /\ IsFiniteSet(Unread \ {r}) /\ Cardinality(Unread \ {r}) = Cardinality(Unread) - 1
      /\ Cardinality(Unread) \in Nat
  BY UnreadFinite, FS_RemoveElement
<1>2. count' = Cardinality(Unread')
  BY <1>1 DEF CountExact
<1>3. count = 1 => Unread' = {}
  BY <1>1, FS_EmptySet DEF CountExact
<1> QED
  BY <1>2, <1>3 DEF CountExact

LEMMA OneMore ==
    ASSUME CountExact, NEW r, r \notin Unread, Unread' = Unread \cup {r}, count' = count + 1
    PROVE  CountExact'
<1>1. Cardinality(Unread \cup {r}) = Cardinality(Unread) + 1
  BY UnreadFinite, FS_AddElement
<1> QED
  BY <1>1 DEF CountExact

LEMMA ZeroMeansNone ==
    ASSUME CountExact
    PROVE  count = 0 <=> Unread = {}
BY UnreadFinite, FS_EmptySet DEF CountExact
-----------------------------------------------------------------------------
(* The classes of steps. *)

\* What the step must still show of the thread and of the loopbreak.
ThreadKept == BreakLeavesNone' /\ NothingReadByUser'

\* A step that changes no stream and closes no connection with an unread one.
LEMMA SameStreamsExact ==
    ASSUME ExactInv, OutcomeInv', stream' = stream, count' = count, ThreadKept,
           Unread = {} \/ \A c \in Conns : conn'[c].phase = "closing" => conn[c].phase = "closing"
    PROVE  ExactInv'
<1>1. Listed' = Listed /\ Unread' = Unread /\ CountExact'
  BY DEF Listed, Unread, ExactInv, CountExact
<1>2. Pointing'
  BY <1>1 DEF Pointing, ExactInv
<1>3. ASSUME NEW r \in Unread
      PROVE  ~stream'[r].closing /\ conn'[stream'[r].conn].phase # "closing"
  <2>1. stream[r].conn \in Conns
    BY DEF Unread, ExactInv, OutcomeInv, CountInv, StreamsOnConns, LiveConns
  <2> QED
    BY <2>1 DEF ExactInv, UnreadStayOpen
<1>4. UnreadStayOpen'
  BY <1>1, <1>3 DEF UnreadStayOpen
<1> QED
  BY <1>1, <1>2, <1>4 DEF ExactInv, ThreadKept

\* A step that changes or frees one listed stream and keeps the thread.
LEMMA OneStreamExact ==
    ASSUME ExactInv, OutcomeInv', NEW r \in Listed, NEW v, stream' = [stream EXCEPT ![r] = v],
           UNCHANGED <<ctl, caller, conn>>, ctl = "conns",
           \/ v.phase = "absent"
           \/ /\ v.phase # "attaching" /\ v.conn = stream[r].conn
              /\ v.has_data <=> ~v.is_read
              /\ ~v.is_read => ~v.closing /\ r \in Unread,
           \/ /\ count' = count /\ breaking' = breaking
              /\ r \in Unread <=> (v.phase # "absent" /\ ~v.is_read)
           \/ /\ count' = count - 1 /\ r \in Unread /\ (v.phase = "absent" \/ v.is_read)
              /\ breaking' = breaking \/ breaking' = (breaking \/ count = 1)
              /\ caller # "quic_connect"
    PROVE  ExactInv'
<1>1. /\ r \in Requests /\ stream'[r] = v
      /\ \A s \in Requests : s # r => stream'[s] = stream[s]
  BY DEF Listed, ExactInv, OutcomeInv, CountInv, TypeOK
<1>2. Listed' \subseteq Listed /\ \A s \in Listed' : s # r \/ v.phase # "absent"
  BY <1>1 DEF Listed
<1>3. Pointing'
  BY <1>1, <1>2 DEF Pointing, ExactInv, Listed
<1>4. Unread' = Unread \ {r} \/ Unread' = Unread
  BY <1>1 DEF Unread, Listed
<1>5. UnreadStayOpen'
  <2>1. ASSUME NEW s \in Unread'
        PROVE  ~stream'[s].closing /\ conn'[stream'[s].conn].phase # "closing"
    <3>1. s \in Unread
      BY <1>4, <2>1
    <3>2. CASE s = r
      <4>1. stream'[s].conn = stream[s].conn /\ ~stream'[s].closing
        BY <1>1, <2>1, <3>2 DEF Unread, Listed
      <4> QED
        BY <3>1, <4>1 DEF ExactInv, UnreadStayOpen
    <3>3. CASE s # r
      BY <1>1, <3>1, <3>3 DEF ExactInv, UnreadStayOpen, Unread, Listed
    <3> QED
      BY <3>2, <3>3
  <2> QED
    BY <2>1 DEF UnreadStayOpen
<1>6. CASE /\ count' = count /\ breaking' = breaking
           /\ r \in Unread <=> (v.phase # "absent" /\ ~v.is_read)
  <2>1. Unread' = Unread
    BY <1>1, <1>6 DEF Unread, Listed
  <2>2. CountExact' /\ BreakLeavesNone' /\ NothingReadByUser'
    BY <1>6, <2>1 DEF ExactInv, CountExact, BreakLeavesNone, NothingReadByUser, Destroying
  <2> QED
    BY <1>3, <1>5, <2>2 DEF ExactInv
<1>7. CASE /\ count' = count - 1 /\ r \in Unread /\ (v.phase = "absent" \/ v.is_read)
           /\ breaking' = breaking \/ breaking' = (breaking \/ count = 1)
           /\ caller # "quic_connect"
  <2>1. Unread' = Unread \ {r}
    BY <1>1, <1>7 DEF Unread, Listed
  <2>2. CountExact' /\ (count = 1 => Unread' = {})
    BY <1>7, <2>1, OneLess DEF ExactInv
  <2>3. ~breaking /\ ~Destroying
    BY <1>7 DEF ExactInv, BreakLeavesNone, NothingReadByUser
  <2>4. BreakLeavesNone'
    <3>1. breaking' => Unread' = {}
      <4>1. CASE breaking' = breaking
        BY <2>3, <4>1
      <4>2. CASE breaking' = (breaking \/ count = 1)
        BY <2>2, <2>3, <4>2
      <4> QED
        BY <1>7, <4>1, <4>2
    <3>2. ctl' = "conns" /\ caller' # "quic_connect"
      BY <1>7
    <3> QED
      BY <3>1, <3>2 DEF BreakLeavesNone
  <2>5. NothingReadByUser'
    BY <2>3 DEF NothingReadByUser, Destroying
  <2> QED
    BY <1>3, <1>5, <2>2, <2>4, <2>5 DEF ExactInv
<1> QED
  BY <1>6, <1>7

\* A stream that was not read before is inserted.
LEMMA InsertExact ==
    ASSUME ExactInv, OutcomeInv', NEW r \in Requests, r \notin Unread, NEW c \in LiveConns,
           Insert(r, c), conn' = conn, conn[c].phase # "closing", ~breaking, breaking' = breaking,
           ctl' = "connect"
    PROVE  ExactInv'
<1>1. /\ stream'[r].phase \in {"delayed", "created"} /\ stream'[r].conn = c
      /\ ~stream'[r].is_read /\ stream'[r].has_data /\ ~stream'[r].closing
      /\ \A s \in Requests : s # r => stream'[s] = stream[s]
      /\ count' = count + 1
  BY DEF ExactInv, OutcomeInv, CountInv, TypeOK, Insert
<1>2. Listed' = Listed \cup {r} /\ Unread' = Unread \cup {r}
  BY <1>1 DEF Listed, Unread
<1>3. CountExact'
  BY <1>1, <1>2, OneMore DEF ExactInv
<1>4. Pointing'
  BY <1>1, <1>2 DEF Pointing, ExactInv, Listed
<1>5. UnreadStayOpen'
  BY <1>1, <1>2 DEF UnreadStayOpen, ExactInv, Unread, Listed
<1>6. BreakLeavesNone' /\ NothingReadByUser'
  BY DEF BreakLeavesNone, NothingReadByUser, Destroying
<1> QED
  BY <1>3, <1>4, <1>5, <1>6 DEF ExactInv

\* A request in the queue is on no stream that was not read.
LEMMA QueuedNotUnread ==
    ASSUME ExactInv, NEW r \in Requests, NEW url, Connecting(r, url)
    PROVE  r \notin Unread /\ ~OnStream(r) /\ EntriesFor(queue, r) = 1
<1>1. TypeOK
  BY DEF ExactInv, OutcomeInv, CountInv
<1>2. queue \in Seq([req : Requests, url : Urls]) /\ 1 \in DOMAIN queue /\ queue[1].req = r
  BY <1>1, HeadTailProperties, LenProperties DEF TypeOK, Connecting
<1>3. EntriesFor(queue, r) # 0
  BY <1>2, EntriesZero
<1>4. Copies(r) <= (IF r \in accepted THEN 1 ELSE 0)
  BY DEF ExactInv, OutcomeInv, OneOutcome
<1>5. ~OnStream(r) /\ EntriesFor(queue, r) = 1
  BY <1>1, <1>3, <1>4, CopiesType DEF Copies
<1>6. r \notin Unread
  BY <1>5 DEF OnStream, Unread, Pointing, ExactInv
<1> QED
  BY <1>5, <1>6
-----------------------------------------------------------------------------
(* The count is exact: the actions. *)

LEMMA UserExact == ExactInv /\ OutcomeInv' /\ UserStep => ExactInv'
<1> SUFFICES ASSUME ExactInv, OutcomeInv', UserStep PROVE ExactInv'
  OBVIOUS
<1>1. /\ ctl = "app" /\ stream' = stream /\ count' = count /\ ctl' \in {"app", "poll", "conns"}
      /\ ctl' = "conns" => caller' = "destroy_engine"
      /\ breaking' = breaking \/ ~breaking'
  BY DEF UserStep, StartDownloading, GetWithoutWaiting, GetByWaiting, DestroyClient, loopVars,
         netVars, engineVars
<1>2. Unread = {}
  BY <1>1 DEF ExactInv, NothingReadByUser
<1>3. Unread' = {}
  BY <1>1, <1>2 DEF Unread, Listed
<1>4. ThreadKept
  BY <1>1, <1>3 DEF ThreadKept, BreakLeavesNone, NothingReadByUser
<1> QED
  BY <1>1, <1>2, <1>4, SameStreamsExact

\* run_timeout leaves nothing to read and counts every stream off.
LEMMA TimerExact ==
    ASSUME ExactInv, OutcomeInv', TimerEndsStreams
    PROVE  ExactInv'
<1>1. /\ ctl = "run" /\ count' = count - Cardinality(Listed)
      /\ \A r \in Listed : /\ stream'[r].phase = stream[r].phase /\ stream'[r].is_read
                           /\ ~stream'[r].has_data
      /\ \A r \in Requests \ Listed : stream'[r] = stream[r]
      /\ ctl' = "conns" /\ caller' = "timer_handler"
  BY DEF TimerEndsStreams, Running, Listed, StreamWith
<1>2. Listed = Unread
  <2>1. ASSUME NEW r \in Listed, stream[r].is_read PROVE FALSE
    <3>1. stream[r].closing \/ conn[stream[r].conn].phase = "closing"
      BY <2>1 DEF ExactInv, OutcomeInv, CountInv, ReadIsClosing
    <3>2. stream[r].conn \in Conns /\ r \in Requests
      BY <2>1 DEF ExactInv, OutcomeInv, CountInv, StreamsOnConns, LiveConns, Listed
    <3> QED
      BY <1>1, <3>1, <3>2 DEF ExactInv, OutcomeInv, CountInv, Settled
  <2> QED
    BY <2>1 DEF Unread
<1>3. Listed' = Listed /\ Unread' = {}
  BY <1>1 DEF Listed, Unread
<1>4. CountExact'
  <2>1. count' = 0
    BY <1>1, <1>2, UnreadFinite DEF ExactInv, CountExact
  <2> QED
    BY <1>3, <2>1, FS_EmptySet DEF CountExact
<1>5. Pointing'
  BY <1>1, <1>3 DEF Pointing
<1>6. UnreadStayOpen' /\ BreakLeavesNone' /\ NothingReadByUser'
  BY <1>1, <1>3 DEF UnreadStayOpen, BreakLeavesNone, NothingReadByUser
<1> QED
  BY <1>4, <1>5, <1>6 DEF ExactInv

LEMMA LoopExact == Undisturbed /\ ExactInv /\ OutcomeInv' /\ LoopStep => ExactInv'
<1> SUFFICES ASSUME Undisturbed, ExactInv, OutcomeInv', LoopStep PROVE ExactInv'
  OBVIOUS
<1>1. ASSUME UNCHANGED <<stream, conn, count>>, ThreadKept PROVE ExactInv'
  BY <1>1, SameStreamsExact
<1>2. ASSUME UNCHANGED <<stream, breaking>>, ctl' \in {"poll", "run", "crashed"} \/
             (ctl' = "conns" /\ caller' = "read_socket_packet")
      PROVE  ThreadKept
  <2>1. Unread' = Unread
    BY <1>2 DEF Unread, Listed
  <2> QED
    BY <1>2, <2>1 DEF ThreadKept, BreakLeavesNone, NothingReadByUser, Destroying, ExactInv
<1>3. CASE PollSome(FALSE) \/ PollSome(TRUE) \/ PollAgain \/ TimerCrashes
  <2>1. UNCHANGED <<stream, conn, count, breaking>> /\ ctl' \in {"poll", "run", "crashed"}
    BY <1>3 DEF PollSome, Poll, PollAgain, TimerCrashes, Crash, engineVars, netVars
  <2> QED
    BY <1>1, <1>2, <2>1
<1>4. ASSUME NEW c \in Conns, ReadSocket(c) PROVE ExactInv'
  <2>1. /\ UNCHANGED <<stream, conn, count, breaking>>
        /\ ctl' = "conns" /\ caller' = "read_socket_packet"
    BY <1>4 DEF ReadSocket, netVars, Undisturbed
  <2> QED
    BY <1>1, <1>2, <2>1
<1>5. CASE LeaveLoop
  <2>1. UNCHANGED <<stream, conn, count, breaking>> /\ ctl' = "app"
    BY <1>5 DEF LeaveLoop, netVars
  <2>2. Unread = {}
    <3>1. CASE breaking
      BY <3>1 DEF ExactInv, BreakLeavesNone
    <3>2. CASE LiveConns = {}
      BY <3>2 DEF ExactInv, OutcomeInv, CountInv, StreamsOnConns, Unread
    <3> QED
      BY <1>5, <3>1, <3>2 DEF LeaveLoop
  <2>3. Unread' = {}
    BY <2>1, <2>2 DEF Unread, Listed
  <2>4. ThreadKept
    BY <2>1, <2>3 DEF ThreadKept, BreakLeavesNone, NothingReadByUser
  <2> QED
    BY <1>1, <2>1, <2>4
<1>6. CASE TimerIdle
  <2>1. UNCHANGED <<stream, conn, count>> /\ ctl' = "conns" /\ caller' = "timer_handler" /\ count = 0
    BY <1>6 DEF TimerIdle, netVars, engineVars
  <2>2. Unread = {}
    BY <2>1, ZeroMeansNone DEF ExactInv
  <2>3. Unread' = {}
    BY <2>1, <2>2 DEF Unread, Listed
  <2>4. ThreadKept
    BY <2>1, <2>3 DEF ThreadKept, BreakLeavesNone, NothingReadByUser
  <2> QED
    BY <1>1, <2>1, <2>4
<1> QED
  BY <1>3, <1>4, <1>5, <1>6, TimerExact DEF LoopStep

\* While nothing fails, a connection can be opened.
LEMMA NeverFails == Undisturbed /\ TypeOK => \A r, url : ~QuicConnectFails(r, url)
<1> SUFFICES ASSUME Undisturbed, TypeOK, NEW r, NEW url, QuicConnectFails(r, url) PROVE FALSE
  OBVIOUS
<1>1. "dns" \notin Faults /\ "socket" \notin Faults
  BY DEF Undisturbed
<1>2. NextPort \notin bound
  BY DEF TypeOK, Undisturbed
<1> QED
  BY <1>1, <1>2 DEF QuicConnectFails

LEMMA ConnectExact == Undisturbed /\ ExactInv /\ OutcomeInv' /\ ConnectStep => ExactInv'
<1> SUFFICES ASSUME Undisturbed, ExactInv, OutcomeInv', ConnectStep PROVE ExactInv'
  OBVIOUS
<1>1. ~breaking
  BY DEF ConnectStep, RunConnectEvent, Running, QueueDrained, QuicConnectRefused,
         QuicConnectFails, QuicConnectShared, QuicConnectNew, NeedsConnection, Connecting,
         ExactInv, BreakLeavesNone
<1>2. ASSUME UNCHANGED <<stream, conn, count, breaking>>, ctl' \in {"connect", "conns"},
             ctl' = "conns" => caller' = "connect_event_handler"
      PROVE  ExactInv'
  <2>1. Unread' = Unread
    BY <1>2 DEF Unread, Listed
  <2>2. ThreadKept
    BY <1>1, <1>2, <2>1 DEF ThreadKept, BreakLeavesNone, NothingReadByUser, Destroying
  <2> QED
    BY <1>2, <2>2, SameStreamsExact
<1>3. CASE RunConnectEvent \/ QueueDrained
  BY <1>2, <1>3 DEF RunConnectEvent, QueueDrained, engineVars, netVars
<1>4. ASSUME NEW r \in Requests, NEW url, QuicConnectRefused(r, url) PROVE ExactInv'
  BY <1>2, <1>4 DEF QuicConnectRefused, Connecting, loopVars, netVars
<1>5. ASSUME NEW r \in Requests, NEW url, NEW c \in Conns, QuicConnectShared(r, url, c)
      PROVE  ExactInv'
  <2>1. /\ c \in LiveConns /\ Insert(r, c) /\ conn' = conn /\ ctl = "connect" /\ ctl' = "connect"
        /\ breaking' = breaking /\ Connecting(r, url)
    BY <1>5 DEF QuicConnectShared, Usable, LiveConns, Connecting, loopVars
  <2>2. conn[c].phase # "closing"
    BY <2>1 DEF ExactInv, OutcomeInv, CountInv, Settled
  <2>3. r \notin Unread
    BY <2>1, QueuedNotUnread
  <2> QED
    BY <1>1, <2>1, <2>2, <2>3, InsertExact
<1>6. ASSUME NEW r \in Requests, NEW url, NEW c \in Conns, QuicConnectNew(r, url, c)
      PROVE  ExactInv'
  <2>1. /\ Connecting(r, url) /\ ctl' = "conns" /\ caller' = "quic_connect"
        /\ count' = count /\ breaking' = breaking
        /\ stream'[r].phase = "attaching"
        /\ \A s \in Requests : s # r => stream'[s] = stream[s]
        /\ conn[c].phase = "absent" /\ \A d \in Conns : d # c => conn'[d] = conn[d]
    BY <1>6 DEF QuicConnectNew, NeedsConnection, ExactInv, OutcomeInv, CountInv, TypeOK
  <2>2. r \notin Unread
    BY <2>1, QueuedNotUnread
  <2>3. Unread' = Unread /\ Listed' = Listed \ {r}
    BY <2>1, <2>2 DEF Unread, Listed
  <2>4. CountExact' /\ Pointing'
    <3>1. CountExact'
      BY <2>1, <2>3 DEF ExactInv, CountExact
    <3>2. \A s \in Listed' : s \in Listed /\ stream'[s] = stream[s]
      BY <2>1, <2>3 DEF Listed
    <3> QED
      BY <3>1, <3>2 DEF ExactInv, Pointing
  <2>5. UnreadStayOpen'
    <3>1. ASSUME NEW s \in Unread
          PROVE  ~stream'[s].closing /\ conn'[stream'[s].conn].phase # "closing"
      <4>1. s # r /\ s \in Requests /\ stream[s].conn \in LiveConns
        BY <2>2, <3>1 DEF Unread, Listed, ExactInv, OutcomeInv, CountInv, StreamsOnConns
      <4>2. stream'[s] = stream[s] /\ conn'[stream[s].conn] = conn[stream[s].conn]
        BY <2>1, <4>1 DEF LiveConns
      <4> QED
        BY <3>1, <4>2 DEF ExactInv, UnreadStayOpen
    <3> QED
      BY <2>3, <3>1 DEF UnreadStayOpen
  <2>6. BreakLeavesNone' /\ NothingReadByUser'
    BY <1>1, <2>1 DEF BreakLeavesNone, NothingReadByUser, Destroying
  <2> QED
    BY <2>4, <2>5, <2>6 DEF ExactInv
<1> QED
  BY <1>3, <1>4, <1>5, <1>6, NeverFails DEF ConnectStep, ExactInv, OutcomeInv, CountInv

\* While nothing fails, these callbacks do not happen.
LEMMA NoFailures ==
    ASSUME Undisturbed
    PROVE  /\ \A c : ~OnHandshake(c, FALSE) /\ ~ConnLost(c)
           /\ ~PacketsOutFail
           /\ \A r : /\ ~StreamReset(r) /\ ~OnReadError(r) /\ ~OnReadBadHeader(r)
                     /\ ~OnReadOverflow(r) /\ ~OnReadEarlyFin(r)
BY DEF Undisturbed, OnHandshake, ConnLost, PacketsOutFail, StreamReset, OnReadError,
       OnReadBadHeader, OnReadOverflow, OnReadEarlyFin

\* The stream of the callbacks that write, and of on_new_stream, stays unread.
LEMMA WriteExact ==
    ASSUME Undisturbed, ExactInv, OutcomeInv', NEW r \in Requests,
           OnNewStream(r) \/ OnWriteHeader(r) \/ OnWriteShutdown(r)
    PROVE  ExactInv'
<1>1. Serving(r) \/ OnNewStream(r)
  BY DEF OnWriteHeader, OnWriteShutdown
<1>2. /\ ctl = "conns" /\ r \in Unread /\ r \in Listed /\ stream[r].is_read = FALSE
      /\ stream[r].closing = FALSE /\ stream[r].has_data = TRUE
  <2>1. stream[r] \in StreamRecord
    BY DEF ExactInv, OutcomeInv, CountInv, TypeOK
  <2> QED
    BY <1>1, <2>1, ServedUnread DEF ExactInv, OutcomeInv, Pointing, StreamRecord
<1>3. PICK p \in {"created", "sent", "reading"} :
         stream' = [stream EXCEPT ![r] = StreamWith(r, p, FALSE, TRUE, FALSE)]
  <2>1. CASE OnNewStream(r)
    BY <1>2, <2>1 DEF OnNewStream
  <2>2. CASE OnWriteHeader(r)
    BY <1>2, <2>2 DEF OnWriteHeader, Undisturbed
  <2>3. CASE OnWriteShutdown(r)
    BY <1>2, <2>3 DEF OnWriteShutdown
  <2> QED
    BY <2>1, <2>2, <2>3
<1>4. UNCHANGED <<ctl, caller, conn, count, breaking>>
  BY DEF OnNewStream, OnWriteHeader, OnWriteShutdown, loopVars, engineVars
<1> DEFINE v == StreamWith(r, p, FALSE, TRUE, FALSE)
<1>5. /\ v.phase = p /\ v.conn = stream[r].conn /\ v.has_data = TRUE /\ v.is_read = FALSE
      /\ v.closing = FALSE
  BY DEF StreamWith
<1>6. stream' = [stream EXCEPT ![r] = v]
  BY <1>3
<1> HIDE DEF v
<1> QED
  BY <1>2, <1>4, <1>5, <1>6, OneStreamExact

\* http_client_on_read: the stream was unread and is read now.
LEMMA ReadExact ==
    ASSUME ExactInv, OutcomeInv', NEW r \in Requests,
           \/ \E code \in Codes : OnReadAnswer(r, code)
           \/ \E url \in RedirectTo : OnReadRedirect(r, url)
    PROVE  ExactInv'
<1>1. /\ Serving(r) /\ EndOfRead(r) /\ UNCHANGED <<ctl, caller, conn>> /\ count' = count - 1
      /\ breaking' = breaking \/ breaking' = (breaking \/ count = 1)
      /\ caller = "read_socket_packet"
  BY DEF OnReadAnswer, OnReadRedirect, Reading, FromPeer, OneStreamDone
<1>2. ctl = "conns" /\ r \in Unread /\ r \in Listed /\ stream[r].phase \in {"created", "sent", "reading"}
  BY <1>1, ServedUnread DEF ExactInv, OutcomeInv
<1> DEFINE v == StreamWith(r, stream[r].phase, TRUE, FALSE, TRUE)
<1>3. /\ v.phase = stream[r].phase /\ v.conn = stream[r].conn /\ v.has_data = FALSE
      /\ v.is_read = TRUE
  BY DEF StreamWith
<1>4. stream' = [stream EXCEPT ![r] = v]
  BY <1>1 DEF EndOfRead
<1> HIDE DEF v
<1> QED
  BY <1>1, <1>2, <1>3, <1>4, OneStreamExact

\* on_close comes only to streams that were read.
LEMMA StreamCloseRead ==
    ASSUME ExactInv, NEW r \in Requests, OnStreamClose(r)
    PROVE  /\ r \in Listed /\ r \notin Unread /\ stream[r].is_read
           /\ stream' = [stream EXCEPT ![r] = AbsentStream]
           /\ UNCHANGED <<loopVars, engineVars, freePorts, bound, conn, userVars>>
<1>1. r \in Listed /\ (stream[r].closing \/ conn[stream[r].conn].phase = "closing")
  BY DEF OnStreamClose, Created
<1>2. r \notin Unread
  BY <1>1 DEF ExactInv, UnreadStayOpen
<1>3. stream[r].is_read
  BY <1>1, <1>2 DEF Unread
<1> QED
  BY <1>1, <1>2, <1>3 DEF OnStreamClose

LEMMA StreamCloseExact ==
    ASSUME ExactInv, OutcomeInv', NEW r \in Requests, OnStreamClose(r)
    PROVE  ExactInv'
<1>1. AbsentStream.phase = "absent"
  BY DEF AbsentStream
<1>2. ctl = "conns" /\ UNCHANGED <<ctl, caller, conn, count, breaking>>
  BY StreamCloseRead DEF OnStreamClose, loopVars, engineVars
<1> QED
  BY <1>1, <1>2, StreamCloseRead, OneStreamExact

\* A connection that goes carries no stream that was not read.
LEMMA ConnClosedExact ==
    ASSUME ExactInv, OutcomeInv', NEW c \in Conns, OnConnClosed(c)
    PROVE  ExactInv'
<1>1. /\ ctl = "conns" /\ conn[c].phase = "closing"
      /\ \A r \in Requests : stream'[r] = IF r \in StreamList(c) THEN AbsentStream ELSE stream[r]
      /\ \A d \in Conns : d # c => conn'[d] = conn[d]
      /\ UNCHANGED <<ctl, caller, breaking, count>>
  BY DEF OnConnClosed, engineVars, ExactInv, OutcomeInv, CountInv, TypeOK
<1>2. \A r \in Unread : r \notin StreamList(c)
  BY <1>1 DEF ExactInv, UnreadStayOpen, StreamList
<1>3. Unread' = Unread /\ Listed' \subseteq Listed
  BY <1>1, <1>2 DEF Unread, Listed, AbsentStream
<1>4. CountExact'
  BY <1>1, <1>3 DEF ExactInv, CountExact
<1>5. Pointing'
  <2>1. \A r \in Listed' : stream'[r] = stream[r]
    BY <1>1 DEF Listed, AbsentStream
  <2> QED
    BY <1>3, <2>1 DEF ExactInv, Pointing
<1>6. UnreadStayOpen'
  <2>1. ASSUME NEW r \in Unread
        PROVE  ~stream'[r].closing /\ conn'[stream'[r].conn].phase # "closing"
    <3>1. stream'[r] = stream[r] /\ r \in Listed
      BY <1>1, <1>2, <2>1 DEF Unread, Listed
    <3>2. stream[r].conn \in Conns /\ stream[r].conn # c
      BY <1>2, <2>1, <3>1 DEF ExactInv, OutcomeInv, CountInv, StreamsOnConns, LiveConns, StreamList
    <3> QED
      BY <1>1, <2>1, <3>1, <3>2 DEF ExactInv, UnreadStayOpen
  <2> QED
    BY <1>3, <2>1 DEF UnreadStayOpen
<1>7. BreakLeavesNone' /\ NothingReadByUser'
  BY <1>1, <1>3 DEF ExactInv, BreakLeavesNone, NothingReadByUser, Destroying
<1> QED
  BY <1>4, <1>5, <1>6, <1>7 DEF ExactInv

\* The timeout finds a result or nothing to wait for, so that the end of timer_handler
\* posts no error.
LEMMA TimerFinishIdle ==
    ASSUME ExactInv, ConnsReturn, caller = "timer_handler"
    PROVE  UNCHANGED <<output, isClosed, count>>
<1>1. Unread = {}
  BY DEF ConnsReturn, ExactInv, OutcomeInv, CountInv, TimerLeavesNone
<1>2. count = 0
  BY <1>1, ZeroMeansNone DEF ExactInv
<1> QED
  BY <1>2 DEF ConnsReturn, TimerFinish

LEMMA ReturnExact ==
    ASSUME ExactInv, OutcomeInv', ConnsReturn
    PROVE  ExactInv'
<1>1. ctl = "conns" /\ UNCHANGED <<caller, breaking, conn>> /\ \A c \in Conns : conn[c].phase # "closing"
  BY DEF ConnsReturn
<1>2. CASE caller = "quic_connect"
  <2>1. PICK r \in Requests : stream[r].phase = "attaching" /\ Insert(r, stream[r].conn)
    BY <1>2 DEF ConnsReturn
  <2>2. stream[r].conn \in LiveConns /\ conn[stream[r].conn].phase = "handshake" /\ r \notin Unread
    BY <2>1 DEF ExactInv, OutcomeInv, CountInv, HeldByQuicConnect, Attaching, LiveConns,
                Unread, Listed
  <2>3. ctl' = "connect" /\ ~breaking
    BY <1>1, <1>2 DEF ConnsReturn, ExactInv, BreakLeavesNone
  <2> QED
    BY <1>1, <2>1, <2>2, <2>3, InsertExact
<1>3. CASE caller # "quic_connect"
  <2>1. stream' = stream /\ count' = count
    BY <1>3, TimerFinishIdle DEF ConnsReturn, engineVars
  <2>2. Unread' = Unread
    BY <2>1 DEF Unread, Listed
  <2>3. ctl' = "run" \/ (ctl' = "destroyed" /\ caller = "destroy_engine")
    BY <1>3 DEF ConnsReturn
  <2>4. ThreadKept
    BY <1>1, <2>2, <2>3 DEF ThreadKept, BreakLeavesNone, NothingReadByUser, Destroying, ExactInv
  <2> QED
    BY <1>1, <2>1, <2>4, SameStreamsExact
<1> QED
  BY <1>2, <1>3

LEMMA ConnsExact == Undisturbed /\ ExactInv /\ OutcomeInv' /\ ConnsStep => ExactInv'
<1> SUFFICES ASSUME Undisturbed, ExactInv, OutcomeInv', ConnsStep PROVE ExactInv'
  OBVIOUS
<1>1. ASSUME NEW c \in Conns, OnHandshake(c, TRUE) PROVE ExactInv'
  <2>1. /\ UNCHANGED <<stream, count, ctl, caller, breaking>>
        /\ conn' = [conn EXCEPT ![c] = InPhase(c, "up")]
    BY <1>1 DEF OnHandshake
  <2>2. \A d \in Conns : conn'[d].phase = "closing" => conn[d].phase = "closing"
    BY <2>1 DEF InPhase, ExactInv, OutcomeInv, CountInv, TypeOK
  <2>3. ThreadKept
    BY <2>1 DEF ThreadKept, BreakLeavesNone, NothingReadByUser, Destroying, ExactInv, Unread, Listed
  <2> QED
    BY <2>1, <2>2, <2>3, SameStreamsExact
<1> QED
  BY <1>1, NoFailures, WriteExact, ReadExact, StreamCloseExact, ConnClosedExact, ReturnExact
     DEF ConnsStep

LEMMA ExactInit == Init => ExactInv
<1> SUFFICES ASSUME Init PROVE ExactInv
  OBVIOUS
<1>1. Listed = {} /\ Unread = {}
  BY DEF Init, Listed, Unread, AbsentStream
<1>2. CountExact
  BY <1>1, FS_EmptySet DEF Init, CountExact
<1>3. Pointing /\ UnreadStayOpen /\ BreakLeavesNone /\ NothingReadByUser
  BY <1>1 DEF Init, Pointing, UnreadStayOpen, BreakLeavesNone, NothingReadByUser
<1> QED
  BY <1>2, <1>3, OutcomeInit DEF ExactInv

LEMMA ExactStep == Undisturbed /\ ExactInv /\ [Next]_vars => ExactInv'
<1> SUFFICES ASSUME Undisturbed, ExactInv, [Next]_vars PROVE ExactInv'
  OBVIOUS
<1>1. OutcomeInv'
  BY OutcomeStep DEF ExactInv
<1>2. CASE UNCHANGED vars
  <2>1. UNCHANGED <<stream, conn, count, ctl, caller, breaking>>
    BY <1>2 DEF vars, loopVars, engineVars, netVars
  <2>2. ThreadKept
    BY <2>1 DEF ThreadKept, BreakLeavesNone, NothingReadByUser, Destroying, ExactInv, Unread, Listed
  <2> QED
    BY <1>1, <2>1, <2>2, SameStreamsExact
<1>3. CASE Next
  BY <1>1, <1>2, <1>3, UserExact, LoopExact, ConnectExact, ConnsExact
     DEF Next, EngineStep, Finished
<1> QED
  BY <1>2, <1>3

\* While nothing fails, reading_streams_count is what engine_structs.h says of it: the
\* number of streams that have a connection and were not read, whatever time-outs,
\* redirects and error answers come between.
THEOREM CountIsExact == ASSUME Undisturbed PROVE Spec => []CountExact
<1>1. ExactInv => CountExact
  BY DEF ExactInv
<1>2. ExactInv /\ [Next]_vars => ExactInv'
  BY ExactStep
<1> QED
  BY <1>1, <1>2, ExactInit, PTL DEF Spec
-----------------------------------------------------------------------------
(* No request is forgotten. *)

\* A step that neither makes nor loses a copy, outside and inside destroy_client.
CopiesKept ==
    /\ accepted' = accepted
    /\ Destroying => Destroying'
    /\ Destroying' \/ \A r \in Requests : Copies(r)' = Copies(r)

LEMMA ConservedKeeps ==
    ASSUME TypeOK, RequestsConserved, CopiesKept
    PROVE  RequestsConserved'
BY DEF TypeOK, RequestsConserved, CopiesKept

\* A step that moves no answer, and the streams of which work for whom they worked.
LEMMA QuietCopies ==
    ASSUME UNCHANGED <<queue, output, delivered>>, NEW r, OnStream(r)' <=> OnStream(r)
    PROVE  Copies(r)' = Copies(r)
BY DEF Copies, EntriesFor

LEMMA StillCopies ==
    ASSUME UNCHANGED <<queue, output, delivered, stream>>
    PROVE  \A r \in Requests : Copies(r)' = Copies(r)
BY QuietCopies DEF OnStream

LEMMA ReturnedCopies ==
    ASSUME TypeOK, TypeOK', ReturnResult, UNCHANGED <<queue, stream>>, NEW r
    PROVE  Copies(r)' = Copies(r)
<1>1. EntriesFor(output', r) + EntriesFor(delivered', r)
      = EntriesFor(output, r) + EntriesFor(delivered, r)
  BY ReturnCopies
<1>2. OnStream(r)' <=> OnStream(r)
  BY DEF OnStream
<1> QED
  BY <1>1, <1>2, CopiesType, CopiesTypeNext, CopiesNext DEF Copies

LEMMA UserConserved ==
    ASSUME ConservedInv, TypeOK', UserStep
    PROVE  RequestsConserved'
<1>1. ctl = "app" /\ TypeOK /\ RequestsConserved /\ OneOutcome
  BY DEF UserStep, StartDownloading, GetWithoutWaiting, GetByWaiting, DestroyClient,
         ConservedInv, ExactInv, OutcomeInv, CountInv
<1>2. ~Destroying
  BY <1>1 DEF Destroying
<1>3. ASSUME NEW batch \in Batches, StartDownloading(batch) PROVE RequestsConserved'
  <2>1. PICK S \in SUBSET (Requests \ accepted) :
              /\ accepted' = accepted \cup S
              /\ \A r \in Requests : Copies(r)' = Copies(r) + (IF r \in S THEN 1 ELSE 0)
    BY <1>1, <1>3, StartCopies
  <2>2. ASSUME NEW r \in accepted' PROVE Copies(r)' = 1
    <3>1. r \in Requests /\ Copies(r) \in Nat /\ Copies(r)' = Copies(r) + (IF r \in S THEN 1 ELSE 0)
      BY <1>1, <2>1, <2>2, CopiesType DEF TypeOK
    <3>2. CASE r \in S
      BY <1>1, <2>1, <3>1, <3>2 DEF OneOutcome
    <3>3. CASE r \notin S
      BY <1>1, <1>2, <2>1, <3>1, <3>3 DEF RequestsConserved
    <3> QED
      BY <3>2, <3>3
  <2> QED
    BY <2>2 DEF RequestsConserved
<1>4. CASE GetWithoutWaiting
  <2>1. UNCHANGED <<queue, stream, accepted>> /\ (ReturnResult \/ UNCHANGED <<output, delivered>>)
    BY <1>4 DEF GetWithoutWaiting, netVars
  <2>2. \A r \in Requests : Copies(r)' = Copies(r)
    BY <1>1, <2>1, ReturnedCopies, StillCopies
  <2> QED
    BY <1>1, <1>2, <2>1, <2>2, ConservedKeeps DEF CopiesKept
<1>5. CASE GetByWaiting
  BY <1>1, <1>2, <1>5, StillCopies, ConservedKeeps DEF CopiesKept, GetByWaiting, engineVars, netVars
<1>6. CASE DestroyClient
  BY <1>6 DEF DestroyClient, RequestsConserved, Destroying
<1> QED
  BY <1>3, <1>4, <1>5, <1>6 DEF UserStep

LEMMA LoopConserved ==
    ASSUME Undisturbed, ConservedInv, TypeOK', LoopStep
    PROVE  RequestsConserved'
<1>1. /\ ~Destroying /\ TypeOK /\ RequestsConserved
      /\ accepted' = accepted
  BY DEF LoopStep, PollSome, Poll, PollAgain, LeaveLoop, TimerIdle, TimerEndsStreams, TimerCrashes,
         Crash, ReadSocket, Running, Destroying, userVars, ConservedInv, ExactInv, OutcomeInv, CountInv
<1>2. ASSUME \A r \in Requests : Copies(r)' = Copies(r) PROVE RequestsConserved'
  BY <1>1, <1>2, ConservedKeeps DEF CopiesKept
<1>3. CASE LeaveLoop
  BY <1>1, <1>2, <1>3, ReturnedCopies DEF LeaveLoop, netVars
<1>4. CASE TimerEndsStreams
  BY <1>1, <1>2, <1>4, TimerCopies
<1>5. CASE PollSome(FALSE) \/ PollSome(TRUE) \/ PollAgain \/ TimerIdle \/ TimerCrashes
           \/ \E c \in Conns : ReadSocket(c)
  <2>1. UNCHANGED <<queue, output, delivered, stream>>
    BY <1>5 DEF PollSome, Poll, PollAgain, TimerIdle, TimerCrashes, Crash, ReadSocket, Undisturbed,
                engineVars, netVars, userVars
  <2> QED
    BY <1>2, <2>1, StillCopies
<1> QED
  BY <1>3, <1>4, <1>5 DEF LoopStep

\* The head of the queue can be connected to: quic_connect neither drops it nor fails.
LEMMA ConnectsHead ==
    ASSUME Undisturbed, ConservedInv, NEW r \in Requests, NEW url
    PROVE  ~QuicConnectRefused(r, url) /\ ~QuicConnectFails(r, url)
<1>1. ASSUME QuicConnectRefused(r, url) PROVE FALSE
  <2>1. queue # <<>> /\ queue \in Seq([req : Requests, url : Urls]) /\ Head(queue).url = url
        /\ ctl = "connect"
    BY <1>1 DEF QuicConnectRefused, Connecting, ConservedInv, ExactInv, OutcomeInv, CountInv, TypeOK
  <2>2. 1 \in DOMAIN queue /\ queue[1] = Head(queue)
    BY <2>1, HeadTailProperties, LenProperties
  <2> QED
    BY <1>1, <2>1, <2>2 DEF QuicConnectRefused, ConservedInv, OpenForAll, QueueConnects
<1> QED
  BY <1>1, NeverFails DEF ConservedInv, ExactInv, OutcomeInv, CountInv

\* The request leaves the queue for its stream.
LEMMA TakenCopies ==
    ASSUME ExactInv, NEW r \in Requests, NEW url, Connecting(r, url),
           UNCHANGED <<output, delivered>>, OnStream(r)',
           \A s \in Requests : s # r => stream'[s] = stream[s], NEW s \in Requests
    PROVE  Copies(s)' = Copies(s)
<1>1. TypeOK /\ queue \in Seq([req : Requests, url : Urls])
  BY DEF ExactInv, OutcomeInv, CountInv, TypeOK
<1>2. EntriesFor(queue', s) = EntriesFor(queue, s) - (IF r = s THEN 1 ELSE 0)
  BY <1>1, EntriesTail DEF Connecting
<1>3. CASE s = r
  BY <1>1, <1>2, <1>3, QueuedNotUnread, CopiesType, CopiesNext DEF Copies
<1>4. CASE s # r
  <2>1. OnStream(s)' <=> OnStream(s)
    BY <1>4 DEF OnStream
  <2> QED
    BY <1>1, <1>2, <1>4, <2>1, CopiesType, CopiesNext DEF Copies
<1> QED
  BY <1>3, <1>4

LEMMA ConnectConserved ==
    ASSUME Undisturbed, ConservedInv, ConnectStep
    PROVE  RequestsConserved'
<1>1. TypeOK /\ ExactInv /\ RequestsConserved
  BY DEF ConservedInv, ExactInv, OutcomeInv, CountInv
<1>2. ctl # "destroyed" /\ ctl # "conns" /\ accepted' = accepted
  BY DEF ConnectStep, RunConnectEvent, Running, QueueDrained, QuicConnectRefused, QuicConnectFails,
         QuicConnectShared, QuicConnectNew, NeedsConnection, Connecting, userVars
<1>3. ASSUME \A r \in Requests : Copies(r)' = Copies(r) PROVE RequestsConserved'
  BY <1>1, <1>2, <1>3, ConservedKeeps DEF CopiesKept, Destroying
<1>4. CASE RunConnectEvent \/ QueueDrained
  <2>1. UNCHANGED <<queue, output, delivered, stream>>
    BY <1>4 DEF RunConnectEvent, QueueDrained, engineVars, netVars, userVars
  <2> QED
    BY <1>3, <2>1, StillCopies
<1>5. ASSUME NEW r \in Requests, NEW url, NEW c \in Conns,
             QuicConnectShared(r, url, c) \/ QuicConnectNew(r, url, c)
      PROVE  RequestsConserved'
  <2>1. /\ Connecting(r, url) /\ UNCHANGED <<output, delivered>>
        /\ stream'[r].has_data \/ stream'[r].phase = "attaching"
        /\ \A s \in Requests : s # r => stream'[s] = stream[s]
    BY <1>1, <1>5 DEF QuicConnectShared, QuicConnectNew, NeedsConnection, Insert, TypeOK, userVars
  <2>2. OnStream(r)'
    BY <2>1 DEF OnStream
  <2> QED
    BY <1>1, <1>3, <2>1, <2>2, TakenCopies
<1> QED
  BY <1>4, <1>5, ConnectsHead DEF ConnectStep

\* The callbacks of a stream.
LEMMA StreamConserved ==
    ASSUME Undisturbed, ExactInv, ExactInv', NEW r \in Requests,
           \/ OnNewStream(r) \/ OnWriteHeader(r) \/ OnWriteShutdown(r) \/ OnStreamClose(r)
           \/ \E code \in Codes : OnReadAnswer(r, code)
           \/ \E url \in RedirectTo : OnReadRedirect(r, url)
    PROVE  CopiesKept
<1>1. TypeOK /\ stream \in [Requests -> StreamRecord]
  BY DEF ExactInv, OutcomeInv, CountInv, TypeOK
<1>2. ASSUME \A s \in Requests : Copies(s)' = Copies(s), UNCHANGED <<ctl, caller, accepted>>
      PROVE  CopiesKept
  BY <1>2 DEF CopiesKept, Destroying
<1>3. ASSUME NEW v, stream' = [stream EXCEPT ![r] = v], stream[r].phase # "attaching",
             v.phase # "attaching", v.has_data <=> stream[r].has_data,
             UNCHANGED <<queue, output, delivered, ctl, caller, accepted>>
      PROVE  CopiesKept
  <2>1. \A s \in Requests : OnStream(s)' <=> OnStream(s)
    BY <1>1, <1>3 DEF OnStream
  <2> QED
    BY <1>2, <1>3, <2>1, QuietCopies
<1>4. ASSUME NEW phase, NEW read, NEW closes,
             phase # "attaching", stream[r].phase # "attaching",
             stream' = [stream EXCEPT ![r] = StreamWith(r, phase, read, stream[r].has_data, closes)],
             UNCHANGED <<queue, output, delivered, ctl, caller, accepted>>
      PROVE  CopiesKept
  <2> DEFINE v == StreamWith(r, phase, read, stream[r].has_data, closes)
  <2>1. v.phase = phase /\ v.has_data = stream[r].has_data
    BY DEF StreamWith
  <2>2. stream' = [stream EXCEPT ![r] = v]
    BY <1>4
  <2> HIDE DEF v
  <2> QED
    BY <1>3, <1>4, <2>1, <2>2
<1>5. CASE OnNewStream(r)
  <2>1. /\ stream' = [stream EXCEPT ![r] =
              StreamWith(r, "created", FALSE, stream[r].has_data, stream[r].closing)]
        /\ UNCHANGED <<queue, output, delivered, ctl, caller, accepted>>
        /\ stream[r].phase = "delayed"
    BY <1>5 DEF OnNewStream, loopVars, engineVars, userVars
  <2> QED
    BY <1>4, <2>1
<1>6. CASE OnWriteHeader(r)
  <2>1. r \in Listed
    BY <1>6, ServedUnread DEF OnWriteHeader, ExactInv, OutcomeInv, CountInv
  <2>2. /\ stream' = [stream EXCEPT ![r] = StreamWith(r, "sent", stream[r].is_read,
                                                     stream[r].has_data, stream[r].closing)]
        /\ UNCHANGED <<queue, output, delivered, ctl, caller, accepted>>
    <3>1. stream[r].has_data \in BOOLEAN
      BY <1>1 DEF StreamRecord
    <3> QED
      BY <1>6, <3>1 DEF OnWriteHeader, Undisturbed, loopVars, userVars
  <2> QED
    BY <1>4, <2>1, <2>2 DEF Listed
<1>7. CASE OnWriteShutdown(r)
  <2>1. /\ stream' = [stream EXCEPT ![r] = StreamWith(r, "reading", stream[r].is_read,
                                                     stream[r].has_data, stream[r].closing)]
        /\ UNCHANGED <<queue, output, delivered, ctl, caller, accepted>>
        /\ stream[r].phase = "sent"
    BY <1>7 DEF OnWriteShutdown, loopVars, engineVars, userVars
  <2> QED
    BY <1>4, <2>1
<1>8. CASE OnStreamClose(r)
  <2>1. /\ r \in Listed /\ ~stream[r].has_data /\ stream' = [stream EXCEPT ![r] = AbsentStream]
        /\ UNCHANGED <<queue, output, delivered, ctl, caller, accepted>>
    BY <1>8, StreamCloseRead DEF ExactInv, Pointing, loopVars, engineVars, userVars
  <2>2. AbsentStream.phase = "absent" /\ ~AbsentStream.has_data
    BY DEF AbsentStream
  <2>3. stream[r].phase # "attaching"
    BY <2>1 DEF Listed
  <2> QED
    BY <1>3, <2>1, <2>2, <2>3
<1>9. CASE \E code \in Codes : OnReadAnswer(r, code)
  <2>1. PICK code \in Codes : OnReadAnswer(r, code)
    BY <1>9
  <2>2. /\ Report(r, code) /\ UNCHANGED <<queue, delivered, ctl, caller, accepted>>
        /\ stream[r].has_data /\ stream[r].phase = "reading"
        /\ stream' = [stream EXCEPT ![r] = StreamWith(r, stream[r].phase, TRUE, FALSE, TRUE)]
    BY <2>1 DEF OnReadAnswer, Reading, EndOfRead, userVars
  <2>3. /\ ~stream'[r].has_data /\ stream'[r].phase # "attaching"
        /\ \A q \in Requests : q # r => stream'[q] = stream[q]
    BY <1>1, <2>2 DEF StreamWith
  <2> QED
    BY <1>1, <1>2, <2>2, <2>3, AnswerCopies
<1>10. CASE \E url \in RedirectTo : OnReadRedirect(r, url)
  BY <1>1, <1>2, <1>10, RedirectCopies DEF OnReadRedirect
<1> QED
  BY <1>5, <1>6, <1>7, <1>8, <1>9, <1>10

LEMMA ReturnConserved ==
    ASSUME ExactInv, ConnsReturn
    PROVE  CopiesKept
<1>1. ctl = "conns" /\ UNCHANGED <<caller, accepted, delivered>> /\ stream \in [Requests -> StreamRecord]
  BY DEF ConnsReturn, userVars, ExactInv, OutcomeInv, CountInv, TypeOK
<1>2. CASE caller = "destroy_engine"
  BY <1>1, <1>2 DEF ConnsReturn, CopiesKept, Destroying
<1>3. CASE caller # "destroy_engine"
  <2>1. ~Destroying
    BY <1>1, <1>3 DEF Destroying
  <2>2. UNCHANGED <<queue, output>> /\ \A r \in Requests : OnStream(r)' <=> OnStream(r)
    <3>1. CASE caller = "quic_connect"
      <4>1. PICK r \in Requests : stream[r].phase = "attaching" /\ Insert(r, stream[r].conn)
        BY <3>1 DEF ConnsReturn
      <4>2. stream'[r].has_data /\ \A s \in Requests : s # r => stream'[s] = stream[s]
        BY <1>1, <4>1 DEF Insert
      <4> QED
        BY <3>1, <4>1, <4>2 DEF ConnsReturn, OnStream
    <3>2. CASE caller # "quic_connect"
      BY <1>3, <3>2, TimerFinishIdle DEF ConnsReturn, OnStream, engineVars
    <3> QED
      BY <3>1, <3>2
  <2> QED
    BY <1>1, <2>1, <2>2, QuietCopies DEF CopiesKept
<1> QED
  BY <1>2, <1>3

LEMMA ConnsConserved ==
    ASSUME Undisturbed, ConservedInv, ExactInv', ConnsStep
    PROVE  RequestsConserved'
<1>1. TypeOK /\ ExactInv /\ RequestsConserved
  BY DEF ConservedInv, ExactInv, OutcomeInv, CountInv
<1>2. ASSUME NEW c \in Conns, OnHandshake(c, TRUE) PROVE CopiesKept
  <2>1. UNCHANGED <<queue, output, delivered, stream, ctl, caller, accepted>>
    BY <1>2 DEF OnHandshake, userVars
  <2> QED
    BY <2>1, StillCopies DEF CopiesKept, Destroying
<1>3. ASSUME NEW c \in Conns, OnConnClosed(c) PROVE CopiesKept
  <2>1. /\ UNCHANGED <<queue, output, delivered, ctl, caller, accepted>>
        /\ conn[c].phase = "closing"
        /\ \A r \in Requests : stream'[r] = IF r \in StreamList(c) THEN AbsentStream ELSE stream[r]
    BY <1>3 DEF OnConnClosed, engineVars, userVars
  <2>2. \A r \in StreamList(c) : ~OnStream(r)
    BY <1>1, <2>1 DEF ExactInv, UnreadStayOpen, Pointing, StreamList, Unread, OnStream, Listed
  <2>3. \A r \in Requests : OnStream(r)' <=> OnStream(r)
    BY <2>1, <2>2 DEF OnStream, AbsentStream
  <2> QED
    BY <2>1, <2>3, QuietCopies DEF CopiesKept, Destroying
<1>4. CopiesKept
  BY <1>1, <1>2, <1>3, NoFailures, StreamConserved, ReturnConserved DEF ConnsStep
<1> QED
  BY <1>1, <1>4, ConservedKeeps

\* Nothing closes the engine but destroy_client.
LEMMA OpenStep ==
    ASSUME Undisturbed, ExactInv, OpenForAll, [Next]_vars
    PROVE  OpenForAll'
<1>1. TypeOK
  BY DEF ExactInv, OutcomeInv, CountInv
<1>2. ASSUME isClosed' = isClosed, ctl = "destroyed" => ctl' = "destroyed" PROVE OpenForAll'
  BY <1>2 DEF OpenForAll
<1>3. CASE UserStep \/ Finished \/ UNCHANGED vars
  BY <1>2, <1>3 DEF UserStep, StartDownloading, GetWithoutWaiting, GetByWaiting, DestroyClient,
                    Finished, vars, loopVars, engineVars
<1>4. CASE LoopStep
  BY <1>2, <1>4 DEF LoopStep, PollSome, Poll, PollAgain, LeaveLoop, TimerIdle, TimerEndsStreams,
                    TimerCrashes, Crash, ReadSocket, Running, Undisturbed, engineVars
<1>5. CASE ConnectStep
  <2>1. ~\E r \in Requests, url \in Urls : QuicConnectFails(r, url)
    BY <1>1, NeverFails
  <2> QED
    BY <1>2, <1>5, <2>1 DEF ConnectStep, RunConnectEvent, Running, QueueDrained,
       QuicConnectRefused, QuicConnectShared, QuicConnectNew, NeedsConnection, Connecting,
       loopVars, engineVars
<1>6. CASE ConnsReturn
  <2>1. isClosed' = isClosed \/ ctl' = "destroyed"
    BY <1>6, TimerFinishIdle DEF ConnsReturn, engineVars
  <2>2. ctl = "conns"
    BY <1>6 DEF ConnsReturn
  <2> QED
    BY <1>2, <2>1, <2>2 DEF OpenForAll
<1>7. CASE ConnsStep /\ ~ConnsReturn
  <2>1. ctl = "conns" /\ isClosed' = isClosed
    BY <1>7, NoFailures, StreamCloseRead DEF ConnsStep, OnHandshake, OnConnClosed, OnNewStream,
       OnWriteHeader, OnWriteShutdown, OnReadAnswer, OnReadRedirect, OnStreamClose, Reading, Serving, engineVars
  <2> QED
    BY <1>2, <2>1
<1> QED
  BY <1>3, <1>4, <1>5, <1>6, <1>7 DEF Next, EngineStep

\* Every url that enters the queue parses.
LEMMA QueueStep ==
    ASSUME UrlsParse, TypeOK, QueueConnects, [Next]_vars
    PROVE  QueueConnects'
<1>1. queue \in Seq([req : Requests, url : Urls])
  BY DEF TypeOK
<1>2. CASE queue' = queue
  BY <1>2 DEF QueueConnects
<1>3. CASE queue' = <<>>
  BY <1>3 DEF QueueConnects
<1>4. CASE queue # <<>> /\ queue' = Tail(queue)
  <2>1. /\ Len(queue') = Len(queue) - 1 /\ Len(queue) \in Nat /\ queue' \in Seq([req : Requests, url : Urls])
        /\ \A i \in 1..Len(queue') : queue'[i] = queue[i + 1]
    BY <1>1, <1>4, HeadTailProperties, LenProperties
  <2>2. DOMAIN queue = 1..Len(queue) /\ DOMAIN queue' = 1..Len(queue')
    BY <1>1, <2>1, LenProperties
  <2>3. ASSUME NEW i \in DOMAIN queue' PROVE queue'[i].url # BadUrl
    <3>1. i + 1 \in DOMAIN queue /\ queue'[i] = queue[i + 1]
      BY <2>1, <2>2, <2>3
    <3> QED
      BY <3>1 DEF QueueConnects
  <2> QED
    BY <2>3 DEF QueueConnects
<1>5. ASSUME NEW r \in Requests, NEW url \in RedirectTo, OnReadRedirect(r, url)
      PROVE  QueueConnects'
  <2> DEFINE e == [req |-> r, url |-> url]
  <2>1. e \in [req : Requests, url : Urls] /\ e.url # BadUrl
    BY ConstantsAssumption DEF UrlsParse
  <2>2. queue' = Append(queue, e)
    BY <1>5 DEF OnReadRedirect
  <2> HIDE DEF e
  <2>3. /\ Len(queue) \in Nat /\ DOMAIN queue = 1..Len(queue) /\ DOMAIN queue' = 1..(Len(queue) + 1)
        /\ queue'[Len(queue) + 1] = e /\ \A i \in 1..Len(queue) : queue'[i] = queue[i]
    BY <1>1, <2>1, <2>2, AppendProperties, LenProperties
  <2>4. ASSUME NEW i \in DOMAIN queue' PROVE queue'[i].url # BadUrl
    <3>1. i \in DOMAIN queue \/ i = Len(queue) + 1
      BY <2>3, <2>4
    <3> QED
      BY <2>1, <2>3, <3>1 DEF QueueConnects
  <2> QED
    BY <2>4 DEF QueueConnects
<1>6. ASSUME NEW batch \in Batches, StartDownloading(batch) PROVE QueueConnects'
  <2>1. PICK S \in SUBSET Requests : batch \in SetToSeqs(S)
    BY DEF Batches
  <2>2. batch \in Seq(Requests)
    BY <2>1, OrderType, FS_Subset, ConstantsAssumption
  <2> DEFINE new == [i \in DOMAIN batch |-> [req |-> batch[i], url |-> UrlOf[batch[i]]]]
  <2>3. batch \in [1..Len(batch) -> Requests] /\ Len(batch) \in Nat
    BY <2>2, LenProperties
  <2>4. new \in Seq([req : Requests, url : Urls]) /\ \A i \in DOMAIN new : new[i].url # BadUrl
    <3>1. \A q \in Requests : UrlOf[q] \in Urls /\ UrlOf[q] # BadUrl
      BY ConstantsAssumption DEF UrlsParse
    <3>2. new \in [1..Len(batch) -> [req : Requests, url : Urls]]
      BY <2>3, <3>1
    <3> QED
      BY <2>3, <3>1, <3>2, SeqDef
  <2>5. queue' = queue \o new
    BY <1>6 DEF StartDownloading
  <2> HIDE DEF new
  <2>6. /\ queue \o new \in Seq([req : Requests, url : Urls])
        /\ Len(queue \o new) = Len(queue) + Len(new) /\ Len(queue) \in Nat /\ Len(new) \in Nat
        /\ \A i \in 1..(Len(queue) + Len(new)) :
              (queue \o new)[i] = IF i <= Len(queue) THEN queue[i] ELSE new[i - Len(queue)]
    BY <1>1, <2>4, ConcatProperties, LenProperties
  <2>7. ASSUME NEW i \in DOMAIN (queue \o new) PROVE (queue \o new)[i].url # BadUrl
    <3>1. /\ DOMAIN (queue \o new) = 1..(Len(queue) + Len(new))
          /\ DOMAIN queue = 1..Len(queue) /\ DOMAIN new = 1..Len(new)
      BY <1>1, <2>4, <2>6, LenProperties
    <3>2. i \in 1..(Len(queue) + Len(new))
      BY <2>7, <3>1
    <3>3. CASE i <= Len(queue)
      BY <2>6, <3>1, <3>2, <3>3 DEF QueueConnects
    <3>4. CASE i > Len(queue)
      <4>1. i - Len(queue) \in 1..Len(new) /\ (queue \o new)[i] = new[i - Len(queue)]
        BY <2>6, <3>2, <3>4
      <4> QED
        BY <2>4, <3>1, <4>1
    <3> QED
      BY <2>6, <3>2, <3>3, <3>4
  <2> QED
    BY <2>5, <2>7 DEF QueueConnects
<1>7. \/ queue' = queue \/ queue' = <<>> \/ (queue # <<>> /\ queue' = Tail(queue))
      \/ \E r \in Requests, url \in RedirectTo : OnReadRedirect(r, url)
      \/ \E batch \in Batches : StartDownloading(batch)
  <2>1. CASE UserStep \/ Finished \/ UNCHANGED vars
    BY <2>1 DEF UserStep, GetWithoutWaiting, GetByWaiting, DestroyClient, Finished, vars, engineVars
  <2>2. CASE LoopStep
    BY <2>2 DEF LoopStep, PollSome, Poll, PollAgain, LeaveLoop, TimerIdle, TimerEndsStreams,
                TimerCrashes, Crash, ReadSocket, engineVars
  <2>3. CASE ConnectStep
    BY <2>3 DEF ConnectStep, RunConnectEvent, QueueDrained, QuicConnectRefused, QuicConnectFails,
                QuicConnectShared, QuicConnectNew, NeedsConnection, Connecting, engineVars
  <2>4. CASE ConnsStep
    BY <2>4 DEF ConnsStep, OnHandshake, ConnLost, OnConnClosed, PacketsOutFail, StreamReset,
       OnNewStream, OnWriteHeader, OnWriteShutdown, OnReadAnswer, OnReadError, OnReadBadHeader,
       OnReadOverflow, OnReadGivesUp, OnReadEarlyFin, OnStreamClose, ConnsReturn, Crash, engineVars
  <2> QED
    BY <2>1, <2>2, <2>3, <2>4 DEF Next, EngineStep
<1> QED
  BY <1>2, <1>3, <1>4, <1>5, <1>6, <1>7

LEMMA ConservedInit == Init => ConservedInv
BY ExactInit DEF Init, ConservedInv, OpenForAll, QueueConnects, RequestsConserved

LEMMA ConservedStep == Undisturbed /\ UrlsParse /\ ConservedInv /\ [Next]_vars => ConservedInv'
<1> SUFFICES ASSUME Undisturbed, UrlsParse, ConservedInv, [Next]_vars PROVE ConservedInv'
  OBVIOUS
<1>1. ExactInv' /\ TypeOK' /\ OpenForAll' /\ QueueConnects'
  BY ExactStep, OpenStep, QueueStep DEF ConservedInv, ExactInv, OutcomeInv, CountInv
<1>2. RequestsConserved'
  <2>1. CASE UNCHANGED vars
    <3>1. UNCHANGED <<queue, output, delivered, stream, ctl, caller, accepted>>
      BY <2>1 DEF vars, loopVars, engineVars, netVars, userVars
    <3> QED
      BY <3>1, StillCopies, ConservedKeeps
         DEF CopiesKept, Destroying, ConservedInv, ExactInv, OutcomeInv, CountInv
  <2>2. CASE Next
    BY <1>1, <2>1, <2>2, UserConserved, LoopConserved, ConnectConserved, ConnsConserved
       DEF Next, EngineStep, Finished
  <2> QED
    BY <2>1, <2>2
<1> QED
  BY <1>1, <1>2 DEF ConservedInv

\* While nothing fails and every url parses, a request that was accepted is in exactly one
\* place until destroy_client: no time-out, redirect, shared connection or loopbreak loses it.
THEOREM RequestsAreConserved ==
    ASSUME Undisturbed, UrlsParse PROVE Spec => []RequestsConserved
<1>1. ConservedInv => RequestsConserved
  BY DEF ConservedInv
<1>2. ConservedInv /\ [Next]_vars => ConservedInv'
  BY ConservedStep
<1> QED
  BY <1>1, <1>2, ConservedInit, PTL DEF Spec
-----------------------------------------------------------------------------
(* NULL means that nothing is owed. *)

\* What the operations on libevent's queue do to the order of its permanent events.
LEMMA FirstTail ==
    ASSUME NEW S, NEW s \in Seq(S), s # <<>>, ConnectFirst(s)
    PROVE  ConnectFirst(Tail(s))
<1>1. /\ Len(Tail(s)) = Len(s) - 1 /\ Len(s) \in Nat /\ Tail(s) \in Seq(S)
      /\ \A i \in 1..Len(Tail(s)) : Tail(s)[i] = s[i + 1]
  BY HeadTailProperties, LenProperties
<1>2. DOMAIN Tail(s) = 1..(Len(s) - 1) /\ DOMAIN s = 1..Len(s)
  BY <1>1, LenProperties
<1>3. ASSUME NEW i \in DOMAIN Tail(s), NEW j \in DOMAIN Tail(s),
             Tail(s)[i] = ConnectEvent, Tail(s)[j] = TimeoutEvent
      PROVE  i < j
  <2>1. i + 1 \in DOMAIN s /\ j + 1 \in DOMAIN s /\ s[i + 1] = ConnectEvent /\ s[j + 1] = TimeoutEvent
    BY <1>1, <1>2, <1>3
  <2>2. i + 1 < j + 1 /\ i \in Int /\ j \in Int
    BY <1>2, <2>1 DEF ConnectFirst
  <2> QED
    BY <2>2
<1> QED
  BY <1>3 DEF ConnectFirst

LEMMA FirstWithout ==
    ASSUME NEW S, NEW s \in Seq(S), NEW e, ConnectFirst(s)
    PROVE  ConnectFirst(Without(s, e))
<1>1. CASE e \notin Range(s)
  BY <1>1 DEF Without
<1>2. CASE e \in Range(s)
  <2>1. PICK k \in 1..Len(s) :
              /\ DOMAIN Without(s, e) = 1..(Len(s) - 1)
              /\ \A i \in 1..(Len(s) - 1) :
                    Without(s, e)[i] = IF i < k THEN s[i] ELSE s[i + 1]
    BY <1>2, WithoutShifts
  <2>2. Len(s) \in Nat /\ DOMAIN s = 1..Len(s)
    BY LenProperties
  <2>3. ASSUME NEW i \in 1..(Len(s) - 1), NEW j \in 1..(Len(s) - 1),
               Without(s, e)[i] = ConnectEvent, Without(s, e)[j] = TimeoutEvent
        PROVE  i < j
    <3> DEFINE x == IF i < k THEN i ELSE i + 1
               y == IF j < k THEN j ELSE j + 1
    <3>1. x \in DOMAIN s /\ y \in DOMAIN s
      BY <2>2, <2>3
    <3>2. s[x] = ConnectEvent /\ s[y] = TimeoutEvent
      BY <2>1, <2>3
    <3>3. x < y
      BY <3>1, <3>2 DEF ConnectFirst
    <3> QED
      BY <2>1, <2>2, <2>3, <3>3
  <2> QED
    BY <2>1, <2>3 DEF ConnectFirst
<1> QED
  BY <1>1, <1>2

\* Events that join the end of the queue come after the connect event in it.
LEMMA FirstConcat ==
    ASSUME NEW S, NEW s \in Seq(S), NEW t \in Seq(S), ConnectFirst(s),
           ConnectEvent \in Range(s), IsInjective(s \o t)
    PROVE  ConnectFirst(s \o t)
<1>1. /\ s \o t \in Seq(S) /\ Len(s \o t) = Len(s) + Len(t) /\ Len(s) \in Nat /\ Len(t) \in Nat
      /\ \A i \in 1..Len(s) : (s \o t)[i] = s[i]
  BY ConcatProperties, LenProperties
<1>2. DOMAIN (s \o t) = 1..(Len(s) + Len(t)) /\ DOMAIN s = 1..Len(s)
  BY <1>1, LenProperties
<1>3. PICK k \in 1..Len(s) : s[k] = ConnectEvent
  BY <1>2 DEF Range
<1>4. ASSUME NEW i \in DOMAIN (s \o t), NEW j \in DOMAIN (s \o t),
             (s \o t)[i] = ConnectEvent, (s \o t)[j] = TimeoutEvent
      PROVE  i < j
  <2>1. k \in DOMAIN (s \o t) /\ (s \o t)[k] = ConnectEvent
    BY <1>1, <1>2, <1>3
  <2>2. i = k
    BY <1>4, <2>1 DEF IsInjective
  <2>3. CASE j \in 1..Len(s)
    BY <1>1, <1>2, <1>3, <1>4, <2>2, <2>3 DEF ConnectFirst
  <2>4. CASE j \notin 1..Len(s)
    BY <1>1, <1>2, <1>3, <1>4, <2>2, <2>4
  <2> QED
    BY <2>3, <2>4
<1> QED
  BY <1>4 DEF ConnectFirst

\* A step that queues nothing, reads nothing new, breaks no loop and keeps the order.
LEMMA QueueFrame ==
    ASSUME QueueFirst, queue' = queue \/ queue' = <<>>, Served => Served',
           Unread' \subseteq Unread,
           ctl' # "app" /\ breaking' => ctl # "app" /\ breaking,
           ConnectFirst(active) => ConnectFirst(active')
    PROVE  QueueFirst'
BY DEF QueueFirst, ConnectFirst

LEMMA UserFirst ==
    ASSUME NullInv, redirects = 0, ExactInv', UserStep
    PROVE  QueueFirst'
<1>1. ctl = "app" /\ UNCHANGED <<stream, count>> /\ TypeOK /\ Unread = {} /\ ~Served
  BY DEF UserStep, StartDownloading, GetWithoutWaiting, GetByWaiting, DestroyClient, netVars,
         engineVars, NullInv, ExactInv, NothingReadByUser, OutcomeInv, CountInv, Served
<1>2. Unread' = {}
  BY <1>1 DEF Unread, Listed
<1>3. ASSUME NEW batch \in Batches, StartDownloading(batch) PROVE QueueFirst'
  <2>1. active \in Seq(Event) /\ ConnectEvent \in Event /\ IsInjective(active)
    BY DEF NullInv, EventInv, TypeOK, Event
  <2>2. /\ Activate(active, ConnectEvent) \in Seq(Event)
        /\ IsInjective(Activate(active, ConnectEvent))
    BY <2>1, ActivateApart
  <2>3. TimeoutEvent \notin Range(active')
    BY <1>3, <2>2, WithoutApart DEF StartDownloading
  <2>4. ConnectFirst(active')
    BY <2>3 DEF ConnectFirst, Range
  <2>5. ctl' = "app"
    BY <1>1, <1>3 DEF StartDownloading
  <2>6. ConnectFirst(active)'
    BY <2>4 DEF ConnectFirst
  <2> QED
    BY <1>2, <2>5, <2>6 DEF QueueFirst
<1>4. CASE GetWithoutWaiting \/ GetByWaiting
  <2>1. queue' = queue /\ active' = active /\ (ctl' = "app" \/ ~breaking')
    BY <1>1, <1>4 DEF GetWithoutWaiting, GetByWaiting, loopVars, engineVars
  <2> QED
    BY <1>1, <1>2, <2>1, QueueFrame DEF NullInv
<1>5. CASE DestroyClient
  BY <1>5 DEF DestroyClient, QueueFirst, Served
<1> QED
  BY <1>3, <1>4, <1>5 DEF UserStep

LEMMA PollFirst ==
    ASSUME NullInv, redirects = 0, EventInv', NEW expired \in BOOLEAN, PollSome(expired)
    PROVE  QueueFirst'
<1>1. PICK sockets \in SUBSET Conns : Poll(sockets, expired)
  BY DEF PollSome, LiveConns
<1>2. PICK order \in SetToSeqs(sockets) :
         active' = active \o order \o (IF expired THEN <<TimeoutEvent>> ELSE <<>>)
  BY <1>1 DEF Poll
<1>3. order \in Seq(Event)
  BY <1>2, OrderType, FS_Subset, ConstantsAssumption DEF Event
<1> DEFINE t == IF expired THEN <<TimeoutEvent>> ELSE <<>>
<1>4. t \in Seq(Event) /\ active \in Seq(Event)
  <2>1. active \in Seq(Event) /\ TimeoutEvent \in Event
    BY DEF NullInv, EventInv, TypeOK, Event
  <2>2. <<TimeoutEvent>> \in Seq(Event) /\ <<>> \in Seq(Event)
    BY <2>1
  <2> QED
    BY <2>1, <2>2
<1>5. active' = active \o order \o t
  BY <1>2
<1> HIDE DEF t
<1>6. order \o t \in Seq(Event) /\ active' = active \o (order \o t)
  BY <1>3, <1>4, <1>5, ConcatAssociative, ConcatProperties
<1>7. /\ ctl = "poll" /\ ctl' = "run" /\ UNCHANGED <<queue, stream, breaking>>
  BY <1>1 DEF Poll, engineVars, netVars
<1>8. CASE queue = <<>>
  BY <1>7, <1>8 DEF QueueFirst
<1>9. CASE queue # <<>>
  <2>1. ~Served /\ ConnectEvent \in Range(active)
    BY <1>7, <1>9 DEF Served, NullInv, WakeupInv
  <2>2. IsInjective(active')
    BY DEF EventInv
  <2>3. Unread = {} /\ ~breaking /\ ConnectFirst(active)
    BY <1>7, <1>9, <2>1 DEF NullInv, QueueFirst
  <2>4. ConnectFirst(active \o (order \o t))
    BY <1>4, <1>6, <2>1, <2>2, <2>3, FirstConcat
  <2>5. ConnectFirst(active)' /\ Unread' = Unread
    BY <1>6, <1>7, <2>4 DEF ConnectFirst, Unread, Listed
  <2> QED
    BY <1>7, <2>3, <2>5 DEF QueueFirst
<1> QED
  BY <1>8, <1>9

\* A timeout runs only when the queue is empty.
LEMMA TimerFirst ==
    ASSUME NullInv, redirects = 0, Running(TimeoutEvent)
    PROVE  queue = <<>>
<1> SUFFICES ASSUME queue # <<>> PROVE FALSE
  OBVIOUS
<1>1. active \in Seq(Event) /\ active # <<>> /\ Head(active) = TimeoutEvent /\ ctl = "run"
  BY DEF Running, NullInv, EventInv, TypeOK
<1>2. ~Served
  BY <1>1 DEF Served
<1>3. ConnectEvent \in Range(active) /\ ConnectFirst(active)
  BY <1>2 DEF NullInv, WakeupInv, QueueFirst
<1>4. DOMAIN active = 1..Len(active) /\ Len(active) \in Nat /\ 1 \in 1..Len(active)
      /\ active[1] = TimeoutEvent
  BY <1>1, HeadTailProperties, LenProperties
<1>5. PICK i \in 1..Len(active) : active[i] = ConnectEvent
  BY <1>3, <1>4 DEF Range
<1> QED
  BY <1>3, <1>4, <1>5 DEF ConnectFirst

LEMMA LoopFirst ==
    ASSUME Undisturbed, NullInv, redirects = 0, EventInv', LoopStep
    PROVE  QueueFirst'
<1>1. ASSUME UNCHANGED <<queue, stream, active, breaking>>, ctl \in {"run", "poll"},
             ctl' \in {"app", "poll", "crashed"}
      PROVE  QueueFirst'
  <2>1. ~Served /\ Unread' = Unread
    BY <1>1 DEF Served, Unread, Listed
  <2> QED
    BY <1>1, <2>1, QueueFrame DEF NullInv
<1>2. CASE PollAgain \/ LeaveLoop \/ TimerCrashes
  BY <1>1, <1>2 DEF PollAgain, LeaveLoop, TimerCrashes, Crash, Running, engineVars, netVars
<1>3. CASE TimerIdle \/ TimerEndsStreams
  <2>1. queue' = queue /\ Running(TimeoutEvent)
    BY <1>3 DEF TimerIdle, TimerEndsStreams, engineVars
  <2> QED
    BY <2>1, TimerFirst DEF QueueFirst
<1>4. ASSUME NEW c \in Conns, ReadSocket(c) PROVE QueueFirst'
  <2>1. /\ UNCHANGED <<queue, stream, breaking>> /\ active' = Tail(active) /\ active # <<>>
        /\ ctl = "run" /\ ~Served
    BY <1>4 DEF ReadSocket, Running, Undisturbed, netVars, Served
  <2>2. active \in Seq(Event)
    BY DEF NullInv, EventInv, TypeOK
  <2>3. ConnectFirst(active) => ConnectFirst(active')
    BY <2>1, <2>2, FirstTail
  <2>4. Unread' = Unread
    BY <2>1 DEF Unread, Listed
  <2> QED
    BY <2>1, <2>3, <2>4, QueueFrame DEF NullInv
<1> QED
  BY <1>2, <1>3, <1>4, PollFirst DEF LoopStep

LEMMA ConnectFirstStep == ConnectStep => QueueFirst'
<1> SUFFICES ASSUME ConnectStep PROVE QueueFirst'
  OBVIOUS
<1>1. CASE QueueDrained
  BY <1>1 DEF QueueDrained, engineVars, QueueFirst
<1>2. CASE ~QueueDrained
  <2>1. Served'
    BY <1>2 DEF ConnectStep, RunConnectEvent, QuicConnectRefused, QuicConnectFails,
                QuicConnectShared, QuicConnectNew, NeedsConnection, Connecting, Served, loopVars
  <2> QED
    BY <2>1 DEF QueueFirst
<1> QED
  BY <1>1, <1>2

LEMMA ConnsFirst ==
    ASSUME Undisturbed, NullInv, redirects = 0, redirects' = 0, ConnsStep
    PROVE  QueueFirst'
<1>1. TypeOK /\ ExactInv /\ CountInv /\ stream \in [Requests -> StreamRecord]
  BY DEF NullInv, ExactInv, OutcomeInv, CountInv, TypeOK
<1>2. ASSUME UNCHANGED <<ctl, caller, queue, active>>, ctl = "conns", Unread' \subseteq Unread,
             breaking' = breaking \/ Unread # {}
      PROVE  QueueFirst'
  BY <1>2 DEF QueueFirst, Served, NullInv, ConnectFirst
<1>3. ASSUME NEW c \in Conns, OnHandshake(c, TRUE) PROVE QueueFirst'
  <2>1. UNCHANGED <<ctl, caller, queue, active, stream, breaking>> /\ ctl = "conns"
    BY <1>3 DEF OnHandshake
  <2> QED
    BY <1>2, <2>1 DEF Unread, Listed
<1>4. ASSUME NEW c \in Conns, OnConnClosed(c) PROVE QueueFirst'
  <2>1. /\ UNCHANGED <<ctl, caller, queue, breaking>> /\ active' = Without(active, c)
        /\ \A r \in Requests : stream'[r] = AbsentStream \/ stream'[r] = stream[r]
        /\ ctl = "conns"
    BY <1>4 DEF OnConnClosed, ActiveAfterClose, engineVars
  <2>2. Unread' \subseteq Unread
    BY <2>1 DEF Unread, Listed, AbsentStream
  <2>3. ConnectFirst(active) => ConnectFirst(active')
    BY <1>1, <2>1, FirstWithout DEF TypeOK
  <2>4. Served => Served'
    BY <2>1 DEF Served
  <2> QED
    BY <2>1, <2>2, <2>3, <2>4, QueueFrame DEF NullInv
<1>5. ASSUME NEW r \in Requests,
             \/ OnNewStream(r) \/ OnWriteHeader(r) \/ OnWriteShutdown(r)
             \/ \E code \in Codes : OnReadAnswer(r, code)
      PROVE  QueueFirst'
  <2>1. ctl = "conns" /\ r \in Unread
    BY <1>1, <1>5, ServedUnread DEF OnWriteHeader, OnWriteShutdown, OnReadAnswer, Reading
  <2>2. UNCHANGED <<ctl, caller, queue, active>>
    BY <1>5 DEF OnNewStream, OnWriteHeader, OnWriteShutdown, OnReadAnswer, loopVars, engineVars
  <2>3. \A s \in Requests : s # r => stream'[s] = stream[s]
    BY <1>1, <1>5 DEF OnNewStream, OnWriteHeader, OnWriteShutdown, OnReadAnswer, EndOfRead
  <2>4. Unread' \subseteq Unread
    BY <2>1, <2>3 DEF Unread, Listed
  <2> QED
    BY <1>2, <2>1, <2>2, <2>4
<1>6. ASSUME NEW r \in Requests, OnStreamClose(r) PROVE QueueFirst'
  <2>1. /\ stream' = [stream EXCEPT ![r] = AbsentStream]
        /\ UNCHANGED <<ctl, caller, queue, active, breaking>> /\ ctl = "conns"
    BY <1>1, <1>6, StreamCloseRead DEF OnStreamClose, loopVars, engineVars
  <2>2. Unread' \subseteq Unread
    BY <1>1, <2>1 DEF Unread, Listed, AbsentStream
  <2> QED
    BY <1>2, <2>1, <2>2
<1>7. CASE ConnsReturn
  <2>1. ctl = "conns" /\ UNCHANGED <<active, breaking, caller>>
    BY <1>7 DEF ConnsReturn
  <2>2. CASE caller \in {"quic_connect", "destroy_engine"}
    BY <1>7, <2>2 DEF ConnsReturn, Served, QueueFirst
  <2>3. CASE caller \notin {"quic_connect", "destroy_engine"}
    <3>1. ~Served /\ UNCHANGED <<queue, stream>>
      BY <1>7, <2>1, <2>3 DEF ConnsReturn, Served, engineVars
    <3>2. Unread' = Unread
      BY <3>1 DEF Unread, Listed
    <3> QED
      BY <2>1, <3>1, <3>2, QueueFrame DEF NullInv
  <2> QED
    BY <2>2, <2>3
<1>8. ~ \E r \in Requests, target \in RedirectTo : OnReadRedirect(r, target)
  BY DEF OnReadRedirect
<1> QED
  BY <1>1, <1>3, <1>4, <1>5, <1>6, <1>7, <1>8, NoFailures DEF ConnsStep

\* Redirects are never forgotten.
LEMMA RedirectsStay ==
    ASSUME TypeOK, [Next]_vars, redirects' = 0
    PROVE  redirects = 0
<1> SUFFICES ASSUME redirects # 0 PROVE FALSE
  OBVIOUS
<1>1. redirects \in Nat /\ redirects' # redirects
  BY DEF TypeOK
<1>2. ~UserStep
  BY <1>1 DEF UserStep, StartDownloading, GetWithoutWaiting, ReturnResult, GetByWaiting, DestroyClient,
       userVars
<1>3. ~LoopStep
  BY <1>1 DEF LoopStep, PollSome, Poll, PollAgain, LeaveLoop, ReturnResult, TimerIdle,
       TimerEndsStreams, TimerCrashes, Crash, ReadSocket, userVars
<1>4. ~ConnectStep
  BY <1>1 DEF ConnectStep, RunConnectEvent, QueueDrained, QuicConnectRefused, QuicConnectFails,
       QuicConnectShared, QuicConnectNew, NeedsConnection, Connecting, userVars
<1>5. ~ConnsStep
  <2>1. ~ \E c \in Conns : OnHandshake(c, TRUE) \/ OnHandshake(c, FALSE) \/ ConnLost(c) \/ OnConnClosed(c)
    BY <1>1 DEF OnHandshake, ConnLost, OnConnClosed, userVars
  <2>2. ~PacketsOutFail /\ ~ConnsReturn
    BY <1>1 DEF PacketsOutFail, ConnsReturn, userVars
  <2>3. ASSUME NEW r \in Requests
        PROVE  ~(StreamReset(r) \/ OnNewStream(r) \/ OnWriteHeader(r) \/ OnWriteShutdown(r) \/ OnStreamClose(r))
    BY <1>1 DEF StreamReset, OnNewStream, OnWriteHeader, OnWriteShutdown, OnStreamClose, Crash,
         userVars
  <2>4. ASSUME NEW r \in Requests, NEW code, OnReadAnswer(r, code) PROVE FALSE
    BY <1>1, <2>4 DEF OnReadAnswer, userVars
  <2>5. ASSUME NEW r \in Requests, NEW url, OnReadRedirect(r, url) PROVE FALSE
    BY <1>1, <2>5 DEF OnReadRedirect
  <2>6. ASSUME NEW r \in Requests
        PROVE  ~(OnReadError(r) \/ OnReadBadHeader(r) \/ OnReadOverflow(r) \/ OnReadEarlyFin(r))
    BY <1>1 DEF OnReadError, OnReadBadHeader, OnReadOverflow, OnReadGivesUp, OnReadEarlyFin, Crash,
         userVars
  <2> QED
    BY <2>1, <2>2, <2>3, <2>4, <2>5, <2>6 DEF ConnsStep
<1> QED
  BY <1>1, <1>2, <1>3, <1>4, <1>5 DEF Next, EngineStep, Finished, vars, userVars

LEMMA NullStep ==
    ASSUME NullInv, ExactInv', [Next]_vars
    PROVE  NullMeansIdle'
<1>1. CASE ctl' # "app"
  BY <1>1 DEF NullMeansIdle
<1>2. CASE ctl' = "app" /\ (Finished \/ UNCHANGED vars)
  <2>1. UNCHANGED <<ctl, reply, queue, stream, output, redirects>>
    BY <1>2 DEF Finished, vars, loopVars, engineVars, netVars, userVars
  <2> QED
    BY <2>1 DEF NullInv, NullMeansIdle, Unread, Listed
<1>3. CASE ctl' = "app" /\ UserStep
  <2>1. CASE \E batch \in Batches : StartDownloading(batch)
    BY <2>1 DEF StartDownloading, NullMeansIdle
  <2>2. CASE GetWithoutWaiting
    <3>1. ~isClosed /\ ReturnResult /\ (output # <<>> \/ (count = 0 /\ queue = <<>>))
      BY <2>2 DEF GetWithoutWaiting, NullInv, OpenForAll
    <3>2. UNCHANGED <<queue, stream>>
      BY <2>2 DEF GetWithoutWaiting, netVars
    <3>3. CASE output # <<>>
      BY <3>1, <3>3 DEF ReturnResult, NullMeansIdle
    <3>4. CASE output = <<>>
      <4>1. queue' = <<>> /\ output' = <<>> /\ Unread = {}
        BY <3>1, <3>2, <3>4, ZeroMeansNone DEF ReturnResult, NullInv, ExactInv
      <4>2. Unread' = {}
        BY <3>2, <4>1 DEF Unread, Listed
      <4> QED
        BY <4>1, <4>2 DEF NullMeansIdle
    <3> QED
      BY <3>3, <3>4
  <2>3. ~GetByWaiting /\ ~DestroyClient
    BY <1>3 DEF GetByWaiting, DestroyClient
  <2> QED
    BY <1>3, <2>1, <2>2, <2>3 DEF UserStep
<1>4. CASE ctl' = "app" /\ EngineStep
  <2>1. LeaveLoop
    BY <1>4 DEF EngineStep, LoopStep, PollSome, Poll, PollAgain, TimerIdle, TimerEndsStreams,
       TimerCrashes, Crash, ReadSocket, Running, ConnectStep, RunConnectEvent, QueueDrained,
       QuicConnectRefused, QuicConnectFails, QuicConnectShared, QuicConnectNew, NeedsConnection,
       Connecting, ConnsStep, OnHandshake, ConnLost, OnConnClosed, PacketsOutFail, StreamReset,
       OnNewStream, OnWriteHeader, OnWriteShutdown, OnReadAnswer, OnReadRedirect, OnReadError,
       OnReadBadHeader, OnReadOverflow, OnReadGivesUp, OnReadEarlyFin, OnStreamClose,
       ConnsReturn, Serving, Reading, FromPeer, loopVars
  <2>2. queue' = queue /\ ReturnResult
    BY <2>1 DEF LeaveLoop
  <2>3. Unread' = {}
    BY <1>4 DEF ExactInv, NothingReadByUser
  <2>4. redirects = 0 => queue = <<>>
    <3> SUFFICES ASSUME redirects = 0, queue # <<>> PROVE FALSE
      OBVIOUS
    <3>1. ctl \in {"run", "poll"}
      BY <2>1 DEF LeaveLoop
    <3>2. ~Served
      BY <3>1 DEF Served
    <3>3. ~breaking /\ ConnectEvent \in Range(active)
      BY <3>1, <3>2 DEF NullInv, QueueFirst, WakeupInv
    <3>4. active = <<>>
      BY <2>1, <3>3 DEF LeaveLoop
    <3> QED
      BY <3>3, <3>4 DEF Range
  <2>5. reply' = "null" => output' = <<>>
    BY <2>2 DEF ReturnResult
  <2>6. redirects' = redirects /\ redirects \in Nat
    BY <2>1 DEF LeaveLoop, NullInv, ExactInv, OutcomeInv, CountInv, TypeOK
  <2> QED
    BY <2>2, <2>3, <2>4, <2>5, <2>6 DEF NullMeansIdle
<1> QED
  BY <1>1, <1>2, <1>3, <1>4 DEF Next

LEMMA NullInvStep ==
    Undisturbed /\ NullInv /\ [Next]_vars => NullInv'
<1> SUFFICES ASSUME Undisturbed, NullInv, [Next]_vars PROVE NullInv'
  OBVIOUS
<1>1. ExactInv' /\ EventInv' /\ WakeupInv' /\ OpenForAll'
  BY ExactStep, EventStep, WakeupStep, OpenStep DEF NullInv
<1>2. ASSUME redirects' = 0 PROVE QueueFirst'
  <2> redirects = 0
    BY <1>2, RedirectsStay DEF NullInv, ExactInv, OutcomeInv, CountInv
  <2>1. CASE UNCHANGED vars
    <3>1. UNCHANGED <<queue, stream, active, breaking, ctl, caller>>
      BY <2>1 DEF vars, loopVars, engineVars, netVars
    <3> QED
      BY <3>1 DEF NullInv, QueueFirst, ConnectFirst, Served, Unread, Listed
  <2>2. CASE Next
    BY <1>1, <1>2, <2>1, <2>2, UserFirst, LoopFirst, ConnectFirstStep, ConnsFirst
       DEF Next, EngineStep, Finished
  <2> QED
    BY <2>1, <2>2
<1> QED
  BY <1>1, <1>2, NullStep DEF NullInv

\* While nothing fails, get_download_result answers NULL only when no request is on a stream
\* or on the output stack, and none is queued until a server redirects: the connect event then
\* runs before a timeout that would break the loop, and the count is exact.
THEOREM NullIsIdle ==
    ASSUME Undisturbed PROVE Spec => []NullMeansIdle
<1>1. NullInv => NullMeansIdle
  BY DEF NullInv
<1>2. NullInv /\ [Next]_vars => NullInv'
  BY NullInvStep
<1>3. Init => NullInv
  BY ExactInit, EventInit, WakeupInit DEF Init, NullInv, QueueFirst, OpenForAll, NullMeansIdle
<1> QED
  BY <1>1, <1>2, <1>3, PTL DEF Spec
=============================================================================
