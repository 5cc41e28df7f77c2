-------------------------- MODULE QuicEngineProofs --------------------------
(* The state of the engine, for every value of its constants: types; the    *)
(* count of streams, for which steps are sorted by what they do to streams, *)
(* connections and the count; the event queue, where no wakeup is lost and  *)
(* nothing dangles; ports that are kept apart; and connections that are     *)
(* shared as is_one_conn_per_stream says.                                   *)
EXTENDS QuicEngineProps, FiniteSetTheorems, SequenceTheorems, TLAPS

-----------------------------------------------------------------------------
(* Facts about the helpers. *)

\* Removing an event leaves a sequence of events.
LEMMA WithoutType ==
    ASSUME NEW S, NEW s \in Seq(S), NEW e
    PROVE  Without(s, e) \in Seq(S)
<1>1. CASE e \notin Range(s)
  BY <1>1 DEF Without
<1>2. CASE e \in Range(s)
  <2> DEFINE k == CHOOSE i \in DOMAIN s : s[i] = e
  <2>1. k \in DOMAIN s
    BY <1>2 DEF Range
  <2>2. k \in 1..Len(s)
    BY <2>1
  <2> HIDE DEF k
  <2>3. SubSeq(s, 1, k-1) \in Seq(S) /\ SubSeq(s, k+1, Len(s)) \in Seq(S)
    BY <2>2
  <2>4. RemoveAt(s, k) \in Seq(S)
    BY <2>3 DEF RemoveAt
  <2> QED
    BY <1>2, <2>4 DEF Without, k
<1> QED
  BY <1>1, <1>2

\* An ordering of a subset of S is a sequence over S.
LEMMA OrderType ==
    ASSUME NEW S, NEW T \in SUBSET S, IsFiniteSet(T), NEW s \in SetToSeqs(T)
    PROVE  s \in Seq(S) /\ Range(s) = T
<1>1. Cardinality(T) \in Nat
  BY FS_CardinalityType
<1>2. s \in [1..Cardinality(T) -> T]
  BY DEF SetToSeqs
<1>3. s \in Seq(S)
  BY <1>1, <1>2
<1>4. Range(s) = T
  <2> DEFINE n == Cardinality(T)
  <2>1. s \in Injection(1..n, T)
    BY <1>2 DEF SetToSeqs, Injection, IsInjective
  <2>2. Cardinality(1..n) = n
    BY <1>1, FS_Interval
  <2>3. s \in Surjection(1..n, T)
    BY <2>1, <2>2, FS_Injection
  <2> QED
    BY <2>3, <1>2 DEF Surjection, Range
<1> QED
  BY <1>3, <1>4

-----------------------------------------------------------------------------
(* TypeOK is inductive. *)

LEMMA TypeInit == Init => TypeOK
<1> SUFFICES ASSUME Init PROVE TypeOK
  OBVIOUS
<1>1. freePorts \in Seq(Ports)
  BY OrderType, ConstantsAssumption DEF Init
<1>2. conn \in [Conns -> ConnRecord]
  BY DEF Init, ConnRecord, AbsentConn
<1>3. stream \in [Requests -> StreamRecord]
  BY DEF Init, StreamRecord, AbsentStream
<1>4. ctl \in Places /\ caller \in Callers /\ breaking \in BOOLEAN /\ armed \in BOOLEAN
      /\ isClosed \in BOOLEAN
  BY DEF Init, Places, Callers
<1>5. count \in Int /\ bound \subseteq Ports /\ accepted \subseteq Requests
  BY DEF Init
<1>6. reply \in {"none", "null", "result"} /\ redirects \in Nat
  BY DEF Init
<1>7. active \in Seq(Event) /\ output \in Seq(Output) /\ delivered \in Seq(Output)
      /\ queue \in Seq([req : Requests, url : Urls])
  BY EmptySeq DEF Init
<1> QED
  BY <1>1, <1>2, <1>3, <1>4, <1>5, <1>6, <1>7 DEF TypeOK

\* The pieces of actions that several of them share keep the types.
LEMMA ReportType ==
    ASSUME TypeOK, NEW r \in Requests \cup {NoReq}, NEW code \in Codes, Report(r, code)
    PROVE  output' \in Seq(Output)
BY DEF TypeOK, Report, Output, Cons

LEMMA StreamType ==
    ASSUME TypeOK, NEW r \in Requests, NEW v \in StreamRecord,
           stream' = [stream EXCEPT ![r] = v]
    PROVE  stream' \in [Requests -> StreamRecord]
BY DEF TypeOK

LEMMA InsertType ==
    ASSUME TypeOK, NEW r \in Requests, NEW c \in Conns, Insert(r, c)
    PROVE  stream' \in [Requests -> StreamRecord] /\ count' \in Int
<1>1. count' \in Int
  BY DEF TypeOK, Insert
<1>2. PICK phase \in {"delayed", "created"} :
         stream' = [stream EXCEPT ![r] =
              [phase |-> phase, conn |-> c, is_read |-> FALSE, has_data |-> TRUE,
               closing |-> FALSE]]
  BY DEF Insert
<1>3. [phase |-> phase, conn |-> c, is_read |-> FALSE, has_data |-> TRUE, closing |-> FALSE]
         \in StreamRecord
  BY DEF StreamRecord
<1> QED
  BY <1>1, <1>2, <1>3, StreamType

LEMMA ReturnType ==
    ASSUME TypeOK, ReturnResult
    PROVE  output' \in Seq(Output) /\ delivered' \in Seq(Output)
           /\ reply' \in {"none", "null", "result"}
<1>1. CASE output = <<>>
  BY <1>1 DEF TypeOK, ReturnResult
<1>2. CASE output # <<>>
  <2>1. Head(output) \in Output /\ Tail(output) \in Seq(Output)
    BY <1>2, HeadTailProperties DEF TypeOK
  <2>2. Append(delivered, Head(output)) \in Seq(Output)
    BY <2>1, AppendProperties DEF TypeOK
  <2> QED
    BY <1>2, <2>1, <2>2 DEF ReturnResult
<1> QED
  BY <1>1, <1>2

LEMMA UserType == TypeOK /\ UserStep => TypeOK'
<1> SUFFICES ASSUME TypeOK, UserStep PROVE TypeOK'
  OBVIOUS
<1>1. ASSUME NEW batch \in Batches, StartDownloading(batch) PROVE TypeOK'
  <2>1. PICK S \in SUBSET Requests : batch \in SetToSeqs(S)
    BY DEF Batches
  <2>2. batch \in Seq(Requests) /\ Range(batch) \subseteq Requests
    <3>1. IsFiniteSet(S)
      BY FS_Subset, ConstantsAssumption
    <3> QED
      BY <2>1, <3>1, OrderType
  <2>3. [i \in DOMAIN batch |-> [req |-> batch[i], url |-> UrlOf[batch[i]]]]
           \in Seq([req : Requests, url : Urls])
    <3>1. batch \in [1..Len(batch) -> Requests] /\ Len(batch) \in Nat
      BY <2>2, LenProperties
    <3>2. \A i \in 1..Len(batch) : UrlOf[batch[i]] \in Urls
      BY <3>1, ConstantsAssumption
    <3>3. [i \in 1..Len(batch) |-> [req |-> batch[i], url |-> UrlOf[batch[i]]]]
             \in [1..Len(batch) -> [req : Requests, url : Urls]]
      BY <3>1, <3>2
    <3> QED
      BY <3>1, <3>3, SeqDef
  <2>4. queue' \in Seq([req : Requests, url : Urls])
    BY <1>1, <2>3 DEF StartDownloading, TypeOK
  <2>5. Activate(active, ConnectEvent) \in Seq(Event)
    BY DEF TypeOK, Activate, Event
  <2>6. active' \in Seq(Event)
    BY <1>1, <2>5, WithoutType DEF StartDownloading
  <2> QED
    BY <1>1, <2>2, <2>4, <2>6 DEF StartDownloading, TypeOK, netVars
<1>2. CASE GetWithoutWaiting
  BY <1>2, ReturnType DEF GetWithoutWaiting, TypeOK, loopVars, netVars
<1>3. CASE GetByWaiting
  BY <1>3 DEF GetByWaiting, TypeOK, Places, engineVars, netVars
<1>4. CASE DestroyClient
  <2>1. conn' \in [Conns -> ConnRecord]
    BY <1>4 DEF DestroyClient, TypeOK, ConnRecord, AllConnsClosing, InPhase
  <2> QED
    BY <1>4, <2>1 DEF DestroyClient, TypeOK, Places, Callers, engineVars, userVars
<1> QED
  BY <1>1, <1>2, <1>3, <1>4 DEF UserStep

\* Taking the first element of the active events.
LEMMA RunType ==
    ASSUME TypeOK, NEW e, Running(e)
    PROVE  Tail(active) \in Seq(Event) /\ e \in Event
BY HeadTailProperties DEF TypeOK, Running

LEMMA TimerType == TypeOK /\ TimerEndsStreams => TypeOK'
<1> SUFFICES ASSUME TypeOK, TimerEndsStreams PROVE TypeOK'
  OBVIOUS
<1>1. IsFiniteSet(Listed)
  BY FS_Subset, ConstantsAssumption DEF Listed
<1>2. Cardinality(Listed) \in Nat
  BY <1>1, FS_CardinalityType
<1>3. count' \in Int
  BY <1>2 DEF TimerEndsStreams, TypeOK
<1>4. output' \in Seq(Output)
  <2>1. PICK order \in SetToSeqs(Listed) :
           output' = [i \in DOMAIN order |-> [req |-> order[i], code |-> "TIMEOUT"]] \o output
    BY DEF TimerEndsStreams
  <2>2. order \in Seq(Requests)
    BY <1>1, OrderType DEF Listed
  <2>3. order \in [1..Len(order) -> Requests] /\ Len(order) \in Nat
    BY <2>2, LenProperties
  <2>4. [i \in 1..Len(order) |-> [req |-> order[i], code |-> "TIMEOUT"]]
           \in [1..Len(order) -> Output]
    BY <2>3 DEF Output, Codes
  <2>5. [i \in DOMAIN order |-> [req |-> order[i], code |-> "TIMEOUT"]] \in Seq(Output)
    BY <2>3, <2>4, SeqDef
  <2> QED
    BY <2>1, <2>5, ConcatProperties DEF TypeOK
<1>5. conn' \in [Conns -> ConnRecord]
  BY DEF TimerEndsStreams, TypeOK, ConnRecord, AllConnsClosing, InPhase
<1>6. stream' \in [Requests -> StreamRecord]
  BY DEF TimerEndsStreams, TypeOK, StreamRecord, StreamWith
<1>7. active' \in Seq(Event) /\ ctl' \in Places /\ caller' \in Callers
  BY RunType DEF TimerEndsStreams, Places, Callers
<1> QED
  BY <1>3, <1>4, <1>5, <1>6, <1>7 DEF TimerEndsStreams, TypeOK, userVars

LEMMA LoopType == TypeOK /\ LoopStep => TypeOK'
<1> SUFFICES ASSUME TypeOK, LoopStep PROVE TypeOK'
  OBVIOUS
<1>1. ASSUME NEW expired \in BOOLEAN, PollSome(expired) PROVE TypeOK'
  <2>1. PICK sockets \in SUBSET Conns : Poll(sockets, expired)
    BY <1>1 DEF PollSome, LiveConns
  <2>2. IsFiniteSet(sockets)
    BY FS_Subset, ConstantsAssumption
  <2>3. PICK order \in SetToSeqs(sockets) :
           active' = active \o order \o (IF expired THEN <<TimeoutEvent>> ELSE <<>>)
    BY <2>1 DEF Poll
  <2>4. order \in Seq(Event)
    BY <2>2, OrderType DEF Event
  <2>5. active \in Seq(Event) /\ <<TimeoutEvent>> \in Seq(Event) /\ <<>> \in Seq(Event)
    BY DEF TypeOK, Event
  <2>6. active' \in Seq(Event)
    BY <2>3, <2>4, <2>5, ConcatProperties
  <2>7. ctl' \in Places /\ armed' \in BOOLEAN
    BY <2>1 DEF Poll, Places
  <2> QED
    BY <2>1, <2>6, <2>7 DEF Poll, TypeOK, engineVars, netVars, userVars
<1>2. CASE PollAgain
  BY <1>2 DEF PollAgain, TypeOK, Places, engineVars, netVars, userVars
<1>3. CASE LeaveLoop
  BY <1>3, ReturnType DEF LeaveLoop, TypeOK, Places, netVars
<1>4. CASE TimerIdle
  BY <1>4, RunType DEF TimerIdle, TypeOK, Places, Callers, engineVars, netVars, userVars
<1>5. CASE TimerEndsStreams
  BY <1>5, TimerType
<1>6. CASE TimerCrashes
  BY <1>6 DEF TimerCrashes, Crash, TypeOK, Places, userVars
<1>7. ASSUME NEW c \in Conns, ReadSocket(c) PROVE TypeOK'
  <2>1. active' \in Seq(Event)
    BY <1>7, RunType DEF ReadSocket
  <2>2. ctl' \in Places /\ caller' \in Callers
    BY <1>7 DEF ReadSocket, TypeOK, Places, Callers
  <2>3. output' \in Seq(Output)
    BY <1>7, ReportType DEF ReadSocket, ReportEngineError, Codes, TypeOK
  <2>4. breaking' \in BOOLEAN /\ isClosed' \in BOOLEAN
    BY <1>7 DEF ReadSocket, ReportEngineError, TypeOK
  <2> QED
    BY <1>7, <2>1, <2>2, <2>3, <2>4 DEF ReadSocket, TypeOK, netVars, userVars
<1> QED
  BY <1>1, <1>2, <1>3, <1>4, <1>5, <1>6, <1>7 DEF LoopStep

LEMMA ConnectType == TypeOK /\ ConnectStep => TypeOK'
<1> SUFFICES ASSUME TypeOK, ConnectStep PROVE TypeOK'
  OBVIOUS
<1>1. CASE RunConnectEvent
  BY <1>1, RunType DEF RunConnectEvent, TypeOK, Places, engineVars, netVars, userVars
<1>2. CASE QueueDrained
  BY <1>2 DEF QueueDrained, TypeOK, Places, Callers, engineVars, netVars, userVars
<1>3. ASSUME NEW r \in Requests, NEW url \in Urls, Connecting(r, url)
      PROVE  queue' \in Seq([req : Requests, url : Urls])
  BY <1>3, HeadTailProperties DEF Connecting, TypeOK
<1>4. ASSUME NEW r \in Requests, NEW url \in Urls, QuicConnectRefused(r, url) PROVE TypeOK'
  BY <1>4, <1>3 DEF QuicConnectRefused, TypeOK, loopVars, netVars, userVars
<1>5. RestPorts \in Seq(Ports) /\ NextPort \in Ports \cup {NoPort}
  BY HeadTailProperties DEF TypeOK, RestPorts, NextPort
<1>6. ASSUME NEW r \in Requests, NEW url \in Urls, QuicConnectFails(r, url) PROVE TypeOK'
  <2>1. queue' \in Seq([req : Requests, url : Urls])
    BY <1>6, <1>3 DEF QuicConnectFails, NeedsConnection
  <2>2. output' \in Seq(Output)
    BY <1>6, ReportType DEF QuicConnectFails, ReportEngineError, Codes
  <2>3. breaking' \in BOOLEAN /\ isClosed' \in BOOLEAN
    BY <1>6 DEF QuicConnectFails, ReportEngineError
  <2>4. freePorts' \in Seq(Ports) /\ bound' \subseteq Ports
    BY <1>6, <1>5 DEF QuicConnectFails, TypeOK
  <2> QED
    BY <1>6, <2>1, <2>2, <2>3, <2>4 DEF QuicConnectFails, TypeOK, userVars
<1>7. ASSUME NEW r \in Requests, NEW url \in Urls, NEW c \in Conns, QuicConnectShared(r, url, c)
      PROVE  TypeOK'
  BY <1>7, <1>3, InsertType DEF QuicConnectShared, TypeOK, loopVars, userVars
<1>8. ASSUME NEW r \in Requests, NEW url \in Urls, NEW c \in Conns, QuicConnectNew(r, url, c)
      PROVE  TypeOK'
  <2>1. queue' \in Seq([req : Requests, url : Urls])
    BY <1>8, <1>3 DEF QuicConnectNew, NeedsConnection
  <2>2. freePorts' \in Seq(Ports) /\ bound' \subseteq Ports
    BY <1>8, <1>5 DEF QuicConnectNew, TypeOK
  <2>3. url \in Hosts
    BY <1>8 DEF QuicConnectNew, NeedsConnection, Urls
  <2>4. conn' \in [Conns -> ConnRecord]
    BY <1>8, <1>5, <2>3 DEF QuicConnectNew, TypeOK, ConnRecord
  <2>5. [phase |-> "attaching", conn |-> c, is_read |-> FALSE, has_data |-> FALSE,
         closing |-> FALSE] \in StreamRecord
    BY DEF StreamRecord
  <2>6. stream' \in [Requests -> StreamRecord]
    BY <1>8, <2>5, StreamType DEF QuicConnectNew
  <2>7. ctl' \in Places /\ caller' \in Callers
    BY <1>8 DEF QuicConnectNew, Places, Callers
  <2> QED
    BY <1>8, <2>1, <2>2, <2>4, <2>6, <2>7 DEF QuicConnectNew, TypeOK, userVars
<1> QED
  BY <1>1, <1>2, <1>4, <1>6, <1>7, <1>8 DEF ConnectStep

\* Changing one stream or the phase of one connection keeps the types.
LEMMA StreamWithType ==
    ASSUME TypeOK, NEW r \in Requests, NEW p \in {"delayed", "created", "sent", "reading"},
           NEW read \in BOOLEAN, NEW data \in BOOLEAN, NEW closes \in BOOLEAN
    PROVE  StreamWith(r, p, read, data, closes) \in StreamRecord
<1>1. stream[r].conn \in Conns \cup {NoConn}
  BY DEF TypeOK, StreamRecord
<1> QED
  BY <1>1 DEF StreamWith, StreamRecord

LEMMA InPhaseType ==
    ASSUME TypeOK, NEW c \in Conns, NEW p \in {"absent", "handshake", "up", "closing"}
    PROVE  [conn EXCEPT ![c] = InPhase(c, p)] \in [Conns -> ConnRecord]
<1>1. conn[c].host \in Hosts \cup {NoHost} /\ conn[c].port \in Ports \cup {NoPort}
  BY DEF TypeOK, ConnRecord
<1>2. InPhase(c, p) \in ConnRecord
  BY <1>1 DEF InPhase, ConnRecord
<1> QED
  BY <1>2 DEF TypeOK

\* The callbacks about one connection.
LEMMA ConnCallbackType ==
    ASSUME TypeOK, NEW c \in Conns,
           OnHandshake(c, TRUE) \/ OnHandshake(c, FALSE) \/ ConnLost(c) \/ OnConnClosed(c)
    PROVE  TypeOK'
<1>1. ASSUME NEW ok \in BOOLEAN, OnHandshake(c, ok) PROVE TypeOK'
  <2>1. conn' \in [Conns -> ConnRecord]
    BY <1>1, InPhaseType DEF OnHandshake
  <2>2. output' \in Seq(Output)
    BY <1>1, ReportType DEF OnHandshake, ReportEngineError, Codes, TypeOK
  <2>3. breaking' \in BOOLEAN /\ isClosed' \in BOOLEAN
    BY <1>1 DEF OnHandshake, ReportEngineError, TypeOK
  <2> QED
    BY <1>1, <2>1, <2>2, <2>3 DEF OnHandshake, TypeOK, userVars
<1>2. CASE ConnLost(c)
  <2>1. conn' \in [Conns -> ConnRecord]
    BY <1>2, InPhaseType DEF ConnLost
  <2> QED
    BY <1>2, <2>1 DEF ConnLost, TypeOK, loopVars, engineVars, userVars
<1>3. CASE OnConnClosed(c)
  <2>1. conn' \in [Conns -> ConnRecord]
    BY <1>3 DEF OnConnClosed, AbsentConn, ConnRecord, TypeOK
  <2>2. stream' \in [Requests -> StreamRecord]
    BY <1>3 DEF OnConnClosed, TypeOK, StreamRecord, AbsentStream
  <2>3. freePorts' \in Seq(Ports)
    <3>1. conn[c].port \in Ports \cup {NoPort}
      BY DEF TypeOK, ConnRecord
    <3> QED
      BY <1>3, <3>1, AppendProperties DEF OnConnClosed, FreedPorts, TypeOK
  <2>4. active' \in Seq(Event)
    BY <1>3, WithoutType DEF OnConnClosed, ActiveAfterClose, TypeOK
  <2> QED
    BY <1>3, <2>1, <2>2, <2>3, <2>4 DEF OnConnClosed, TypeOK, engineVars, userVars
<1> QED
  BY <1>1, <1>2, <1>3

\* The callbacks about one stream that read nothing.
LEMMA StreamCallbackType ==
    ASSUME TypeOK, NEW r \in Requests,
           \/ StreamReset(r) \/ OnNewStream(r) \/ OnWriteHeader(r) \/ OnWriteShutdown(r)
           \/ OnStreamClose(r)
    PROVE  TypeOK'
<1>1. stream' \in [Requests -> StreamRecord]
  <2>1. CASE OnStreamClose(r)
    <3>1. stream' = [stream EXCEPT ![r] = AbsentStream] \/ stream' = stream
      BY <2>1 DEF OnStreamClose
    <3>2. AbsentStream \in StreamRecord
      BY DEF AbsentStream, StreamRecord
    <3> QED
      BY <3>1, <3>2, StreamType DEF TypeOK
  <2>2. CASE StreamReset(r) \/ OnNewStream(r) \/ OnWriteHeader(r) \/ OnWriteShutdown(r)
    <3>1. stream[r].is_read \in BOOLEAN /\ stream[r].has_data \in BOOLEAN
          /\ stream[r].closing \in BOOLEAN
      BY DEF TypeOK, StreamRecord
    <3>2. PICK v \in StreamRecord : stream' = [stream EXCEPT ![r] = v]
      <4>1. CASE StreamReset(r)
        <5>1. stream[r].phase \in {"delayed", "created", "sent", "reading"}
          BY <4>1 DEF StreamReset, Serving, Created, Listed, TypeOK, StreamRecord
        <5> QED
          BY <4>1, <5>1, <3>1, StreamWithType DEF StreamReset
      <4>2. CASE OnNewStream(r)
        BY <4>2, <3>1, StreamWithType DEF OnNewStream
      <4>3. CASE OnWriteHeader(r)
        BY <4>3, <3>1, StreamWithType DEF OnWriteHeader
      <4>4. CASE OnWriteShutdown(r)
        BY <4>4, <3>1, StreamWithType DEF OnWriteShutdown
      <4> QED
        BY <2>2, <4>1, <4>2, <4>3, <4>4
    <3> QED
      BY <3>2, StreamType
  <2> QED
    BY <2>1, <2>2
<1>2. output' \in Seq(Output)
  BY ReportType DEF StreamReset, OnNewStream, OnWriteHeader, OnWriteShutdown, OnStreamClose,
                    engineVars, TypeOK, Codes
<1>3. ctl' \in Places /\ breaking' \in BOOLEAN /\ count' \in Int
  <2>1. ctl' \in Places
    BY DEF StreamReset, OnNewStream, OnWriteHeader, OnWriteShutdown, OnStreamClose,
           loopVars, TypeOK, Crash, Places
  <2>2. breaking' \in BOOLEAN
    BY DEF StreamReset, OnNewStream, OnWriteHeader, OnWriteShutdown, OnStreamClose,
           loopVars, TypeOK, OneStreamDone
  <2>3. count' = count \/ count' = count - 1
    BY DEF StreamReset, OnNewStream, OnWriteHeader, OnWriteShutdown, OnStreamClose,
           engineVars, OneStreamDone
  <2>4. count' \in Int
    BY <2>3 DEF TypeOK
  <2> QED
    BY <2>1, <2>2, <2>4
<1>4. UNCHANGED <<caller, active, armed, isClosed, queue, freePorts, bound, conn, userVars>>
  BY DEF StreamReset, OnNewStream, OnWriteHeader, OnWriteShutdown, OnStreamClose,
         loopVars, engineVars, Crash, userVars
<1> QED
  BY <1>1, <1>2, <1>3, <1>4 DEF TypeOK, userVars

\* The outcomes of http_client_on_read.
LEMMA ReadType ==
    ASSUME TypeOK, NEW r \in Requests,
           \/ \E code \in Codes : OnReadAnswer(r, code)
           \/ \E url \in RedirectTo : OnReadRedirect(r, url)
           \/ OnReadError(r) \/ OnReadBadHeader(r) \/ OnReadOverflow(r) \/ OnReadEarlyFin(r)
    PROVE  TypeOK'
<1>0. Reading(r) => stream[r].phase = "reading" /\ stream[r].is_read \in BOOLEAN
  BY DEF Reading, TypeOK, StreamRecord
<1>1. ASSUME Reading(r), EndOfRead(r) PROVE stream' \in [Requests -> StreamRecord]
  BY <1>0, <1>1, StreamWithType, StreamType DEF EndOfRead
<1>2. ASSUME NEW code \in Codes, OnReadAnswer(r, code) PROVE TypeOK'
  <2>1. stream' \in [Requests -> StreamRecord] /\ output' \in Seq(Output)
    BY <1>1, <1>2, ReportType DEF OnReadAnswer
  <2>2. breaking' \in BOOLEAN
    BY <1>2 DEF OnReadAnswer, OneStreamDone
  <2>3. count' \in Int
    BY <1>2 DEF OnReadAnswer, OneStreamDone, TypeOK
  <2> QED
    BY <1>2, <2>1, <2>2, <2>3 DEF OnReadAnswer, TypeOK, userVars
<1>3. ASSUME NEW url \in RedirectTo, OnReadRedirect(r, url) PROVE TypeOK'
  <2>1. stream' \in [Requests -> StreamRecord]
    BY <1>1, <1>3 DEF OnReadRedirect
  <2>2. queue' \in Seq([req : Requests, url : Urls])
    BY <1>3, ConstantsAssumption, AppendProperties DEF OnReadRedirect, TypeOK
  <2>3. active' \in Seq(Event)
    BY <1>3, AppendProperties DEF OnReadRedirect, TypeOK, Activate, Event
  <2>4. count' \in Int /\ redirects' \in Nat
    BY <1>3 DEF OnReadRedirect, TypeOK
  <2> QED
    BY <1>3, <2>1, <2>2, <2>3, <2>4 DEF OnReadRedirect, TypeOK
<1>4. CASE OnReadError(r)
  <2>1. stream' \in [Requests -> StreamRecord] /\ output' \in Seq(Output)
    BY <1>1, <1>4, ReportType DEF OnReadError, Codes
  <2> QED
    BY <1>4, <2>1 DEF OnReadError, TypeOK, loopVars, userVars
<1>5. ASSUME NEW code \in Codes, NEW closes \in BOOLEAN, OnReadGivesUp(r, code, closes)
      PROVE  TypeOK'
  <2>1. stream' \in [Requests -> StreamRecord]
    BY <1>0, <1>5, StreamWithType, StreamType DEF OnReadGivesUp
  <2>2. output' \in Seq(Output)
    BY <1>5, ReportType DEF OnReadGivesUp
  <2>3. ctl' \in Places
    BY <1>5 DEF OnReadGivesUp, Crash, TypeOK, Places
  <2>4. UNCHANGED <<caller, active, breaking, armed, isClosed, queue, count, freePorts, bound,
                    conn, userVars>>
    BY <1>5 DEF OnReadGivesUp, Crash, userVars
  <2> QED
    BY <2>1, <2>2, <2>3, <2>4 DEF TypeOK, userVars
<1>6. CASE OnReadBadHeader(r) \/ OnReadOverflow(r)
  BY <1>5, <1>6 DEF OnReadBadHeader, OnReadOverflow, Codes
<1>7. CASE OnReadEarlyFin(r)
  BY <1>7 DEF OnReadEarlyFin, Crash, TypeOK, Places, userVars
<1> QED
  BY <1>2, <1>3, <1>4, <1>6, <1>7

LEMMA ReturnFromConnsType == TypeOK /\ ConnsReturn => TypeOK'
<1> SUFFICES ASSUME TypeOK, ConnsReturn PROVE TypeOK'
  OBVIOUS
<1>1. ctl' \in Places
  BY DEF ConnsReturn, Places
<1>2. stream' \in [Requests -> StreamRecord] /\ count' \in Int
  <2>1. CASE caller = "quic_connect"
    <3>1. PICK r \in Requests : Insert(r, stream[r].conn)
      BY <2>1 DEF ConnsReturn
    <3>2. count' \in Int
      BY <3>1 DEF Insert, TypeOK
    <3>3. stream[r].conn \in Conns \cup {NoConn}
      BY DEF TypeOK, StreamRecord
    <3>4. PICK phase \in {"delayed", "created"} :
            stream' = [stream EXCEPT ![r] =
                 [phase |-> phase, conn |-> stream[r].conn, is_read |-> FALSE,
                  has_data |-> TRUE, closing |-> FALSE]]
      BY <3>1 DEF Insert
    <3>5. [phase |-> phase, conn |-> stream[r].conn, is_read |-> FALSE, has_data |-> TRUE,
           closing |-> FALSE] \in StreamRecord
      BY <3>3 DEF StreamRecord
    <3> QED
      BY <3>2, <3>4, <3>5, StreamType
  <2>2. CASE caller # "quic_connect"
    <3>1. stream' = stream
      BY <2>2 DEF ConnsReturn
    <3>2. count' = count \/ count' = 0
      BY <2>2 DEF ConnsReturn, TimerFinish, engineVars
    <3> QED
      BY <3>1, <3>2 DEF TypeOK
  <2> QED
    BY <2>1, <2>2
<1>3. isClosed' \in BOOLEAN
  BY DEF ConnsReturn, TimerFinish, engineVars, TypeOK
<1>4. queue' \in Seq([req : Requests, url : Urls])
  BY EmptySeq DEF ConnsReturn, engineVars, TypeOK
<1>5. output' \in Seq(Output)
  <2>1. ASSUME count > 0
        PROVE  [i \in 1..count |-> [req |-> NoReq, code |-> "TIMEOUT"]] \in Seq(Output)
    <3>1. [i \in 1..count |-> [req |-> NoReq, code |-> "TIMEOUT"]] \in [1..count -> Output]
      BY DEF Output, Codes
    <3>2. count \in Nat
      BY <2>1 DEF TypeOK
    <3> QED
      BY <3>1, <3>2, SeqDef
  <2>2. output \in Seq(Output) /\ <<>> \in Seq(Output)
    BY EmptySeq DEF TypeOK
  <2> QED
    BY <2>1, <2>2 DEF ConnsReturn, TimerFinish, engineVars
<1> QED
  BY <1>1, <1>2, <1>3, <1>4, <1>5 DEF ConnsReturn, TypeOK, userVars

LEMMA ConnsType == TypeOK /\ ConnsStep => TypeOK'
<1> SUFFICES ASSUME TypeOK, ConnsStep PROVE TypeOK'
  OBVIOUS
<1>1. CASE PacketsOutFail
  <2>1. output' \in Seq(Output)
    BY <1>1, ReportType DEF PacketsOutFail, ReportEngineError, Codes
  <2>2. breaking' \in BOOLEAN /\ isClosed' \in BOOLEAN
    BY <1>1 DEF PacketsOutFail, ReportEngineError
  <2> QED
    BY <1>1, <2>1, <2>2 DEF PacketsOutFail, TypeOK, netVars, userVars
<1> QED
  BY <1>1, ConnCallbackType, StreamCallbackType, ReadType, ReturnFromConnsType DEF ConnsStep

\* Every step keeps every variable in its domain.
LEMMA TypeStep == TypeOK /\ [Next]_vars => TypeOK'
<1> SUFFICES ASSUME TypeOK, [Next]_vars PROVE TypeOK'
  OBVIOUS
<1>1. CASE UNCHANGED vars
  BY <1>1 DEF TypeOK, vars, loopVars, engineVars, netVars, userVars
<1> QED
  BY <1>1, UserType, LoopType, ConnectType, ConnsType DEF Next, EngineStep, Finished

\* The engine never leaves the domains of its variables (no negative index, no
\* event, port or output that does not exist), whatever the program, the peers and
\* the kernel do.
THEOREM TypeCorrect == Spec => []TypeOK
<1>1. Init => TypeOK
  BY TypeInit
<1>2. TypeOK /\ [Next]_vars => TypeOK'
  BY TypeStep
<1> QED
  BY <1>1, <1>2, PTL DEF Spec
-----------------------------------------------------------------------------
(* reading_streams_count covers every unread stream: classes of steps. *)

\* The step leaves streams, connections and the count alone.
StillStep == UNCHANGED <<stream, conn, count>>

\* A callback changes or frees the listed stream r.
StreamStep(r, v) ==
    /\ ctl = "conns" /\ ctl' \in {"conns", "crashed"}
    /\ UNCHANGED <<caller, conn>>
    /\ r \in Listed /\ v \in StreamRecord
    /\ stream' = [stream EXCEPT ![r] = v]
    /\ \/ v.phase = "absent"
       \/ /\ v.phase \in {"created", "sent", "reading"} /\ v.conn = stream[r].conn
          /\ v.is_read => v.closing \/ (stream[r].is_read /\ ~stream[r].closing)
    /\ \/ count' = count /\ (v.phase = "absent" \/ v.is_read \/ r \in Unread)
       \/ count' = count - 1 /\ r \in Unread /\ (v.phase = "absent" \/ v.is_read)

\* A callback moves a connection that holds no attaching stream to phase p.
ConnStep(c, p) ==
    /\ ctl = "conns" /\ UNCHANGED <<ctl, caller, stream, count>>
    /\ p \in {"up", "closing"} /\ conn[c].phase \in {"handshake", "up"}
    /\ \A r \in Attaching : stream[r].conn # c
    /\ conn' = [conn EXCEPT ![c] = InPhase(c, p)]

-----------------------------------------------------------------------------
(* The arithmetic of the count. *)

LEMMA UnreadFinite == IsFiniteSet(Unread) /\ Cardinality(Unread) \in Nat
BY FS_Subset, FS_CardinalityType, ConstantsAssumption DEF Unread, Listed

\* The successor state has finitely many unread streams, too.
LEMMA UnreadFiniteNext == IsFiniteSet(Unread') /\ Cardinality(Unread') \in Nat
BY FS_Subset, FS_CardinalityType, ConstantsAssumption DEF Unread, Listed

LEMMA FewerUnread ==
    ASSUME TypeOK, CountCoversUnread, Unread' \subseteq Unread, count' = count
    PROVE  CountCoversUnread'
<1>1. Cardinality(Unread') <= Cardinality(Unread)
  BY UnreadFinite, FS_Subset
<1>2. Cardinality(Unread) \in Nat /\ Cardinality(Unread') \in Nat
  BY UnreadFinite, UnreadFiniteNext
<1>3. count >= Cardinality(Unread') /\ count \in Int
  BY <1>1, <1>2 DEF TypeOK, CountCoversUnread
<1> QED
  BY <1>3 DEF CountCoversUnread

LEMMA OneUnreadLess ==
    ASSUME TypeOK, CountCoversUnread, NEW r \in Unread, Unread' \subseteq Unread \ {r},
           count' = count - 1
    PROVE  CountCoversUnread'
<1>1. Cardinality(Unread \ {r}) = Cardinality(Unread) - 1 /\ IsFiniteSet(Unread \ {r})
  BY UnreadFinite, FS_RemoveElement
<1>2. Cardinality(Unread') <= Cardinality(Unread \ {r})
  BY <1>1, FS_Subset
<1>3. Cardinality(Unread) \in Nat /\ Cardinality(Unread') \in Nat
  BY UnreadFinite, UnreadFiniteNext
<1>4. count - 1 >= Cardinality(Unread') /\ count \in Int
  BY <1>1, <1>2, <1>3 DEF TypeOK, CountCoversUnread
<1> QED
  BY <1>4 DEF CountCoversUnread

LEMMA OneUnreadMore ==
    ASSUME TypeOK, CountCoversUnread, NEW r, Unread' \subseteq Unread \cup {r},
           count' = count + 1
    PROVE  CountCoversUnread'
<1>1. IsFiniteSet(Unread \cup {r}) /\ Cardinality(Unread \cup {r}) <= Cardinality(Unread) + 1
  <2>1. IsFiniteSet(Unread \cup {r})
    BY UnreadFinite, FS_AddElement
  <2>2. CASE r \in Unread
    <3>1. Cardinality(Unread \cup {r}) = Cardinality(Unread)
      BY <2>2, UnreadFinite, FS_AddElement
    <3> QED
      BY <2>1, <3>1, UnreadFinite
  <2>3. CASE r \notin Unread
    <3>1. Cardinality(Unread \cup {r}) = Cardinality(Unread) + 1
      BY <2>3, UnreadFinite, FS_AddElement
    <3> QED
      BY <2>1, <3>1, UnreadFinite
  <2> QED
    BY <2>2, <2>3
<1>2. Cardinality(Unread') <= Cardinality(Unread \cup {r})
  BY <1>1, FS_Subset
<1>3. /\ Cardinality(Unread) \in Nat /\ Cardinality(Unread') \in Nat
      /\ Cardinality(Unread \cup {r}) \in Nat
  BY <1>1, UnreadFinite, UnreadFiniteNext, FS_CardinalityType
<1>4. count + 1 >= Cardinality(Unread') /\ count \in Int
  BY <1>1, <1>2, <1>3 DEF TypeOK, CountCoversUnread
<1> QED
  BY <1>4 DEF CountCoversUnread

LEMMA NoneUnread ==
    ASSUME Unread' = {}, count' >= 0
    PROVE  CountCoversUnread'
BY FS_EmptySet DEF CountCoversUnread

-----------------------------------------------------------------------------
(* The classes of steps. *)

\* Nothing modelled here changes but who holds the thread.
LEMMA StillKeeps ==
    ASSUME CountInv, TypeOK', StillStep,
           Attaching = {} \/ (ctl' \in {"conns", "crashed"} /\ caller' = caller),
           ctl' \in {"app", "poll", "run", "connect"} =>
              /\ \A r \in Requests : ~stream[r].closing
              /\ \A c \in Conns : conn[c].phase # "closing",
           ctl' = "conns" /\ caller' = "timer_handler" => Unread = {}
    PROVE  CountInv'
<1>1. Listed' = Listed /\ Unread' = Unread /\ Attaching' = Attaching /\ LiveConns' = LiveConns
  BY DEF StillStep, Listed, Unread, Attaching, LiveConns
<1>2. HeldByQuicConnect'
  BY <1>1 DEF CountInv, HeldByQuicConnect, StillStep
<1>3. StreamsOnConns' /\ ReadIsClosing' /\ DelayedNotClosed'
  BY <1>1 DEF CountInv, StreamsOnConns, ReadIsClosing, DelayedNotClosed, StillStep
<1>4. Settled'
  BY DEF Settled, StillStep
<1>5. TimerLeavesNone'
  BY <1>1 DEF TimerLeavesNone
<1>6. CountCoversUnread'
  BY <1>1, FewerUnread DEF CountInv, StillStep
<1> QED
  BY <1>2, <1>3, <1>4, <1>5, <1>6 DEF CountInv

LEMMA StreamKeeps ==
    ASSUME CountInv, TypeOK', NEW r \in Requests, NEW v, StreamStep(r, v)
    PROVE  CountInv'
<1>1. /\ stream \in [Requests -> StreamRecord] /\ stream'[r] = v
      /\ \A s \in Requests : s # r => stream'[s] = stream[s]
  BY DEF CountInv, TypeOK, StreamStep
<1>2. Listed' \subseteq Listed /\ Attaching' = Attaching /\ LiveConns' = LiveConns
  BY <1>1 DEF StreamStep, Listed, Attaching, LiveConns
<1>3. HeldByQuicConnect'
  <2>1. \A s \in Attaching : s # r
    BY DEF StreamStep, Listed, Attaching
  <2> QED
    BY <1>1, <1>2, <2>1 DEF CountInv, HeldByQuicConnect, StreamStep, Attaching
<1>4. StreamsOnConns'
  <2>1. ASSUME NEW s \in Listed' PROVE stream'[s].conn = stream[s].conn
    BY <1>1, <1>2 DEF StreamStep, Listed
  <2> QED
    BY <1>2, <2>1 DEF CountInv, StreamsOnConns
<1>5. ReadIsClosing'
  <2>1. ASSUME NEW s \in Listed', stream'[s].is_read
        PROVE  stream'[s].closing \/ conn'[stream'[s].conn].phase = "closing"
    <3>1. s \in Requests /\ s \in Listed /\ conn' = conn
      BY <1>2 DEF Listed, StreamStep
    <3>2. CASE s # r
      BY <1>1, <2>1, <3>1, <3>2 DEF CountInv, ReadIsClosing
    <3>3. CASE s = r
      BY <1>1, <2>1, <3>1, <3>3 DEF CountInv, ReadIsClosing, StreamStep, Listed
    <3> QED
      BY <3>2, <3>3
  <2> QED
    BY <2>1 DEF ReadIsClosing
<1>6. DelayedNotClosed'
  BY <1>1 DEF CountInv, DelayedNotClosed, StreamStep
<1>7. Settled'
  BY DEF Settled, StreamStep
<1>8. Unread' \subseteq Unread
  BY <1>1, <1>2 DEF StreamStep, Unread, Listed
<1>9. TimerLeavesNone'
  BY <1>8 DEF CountInv, TimerLeavesNone, StreamStep
<1>10. CountCoversUnread'
  <2>1. CASE count' = count
    BY <1>8, <2>1, FewerUnread DEF CountInv
  <2>2. CASE count' = count - 1 /\ r \in Unread /\ (v.phase = "absent" \/ v.is_read)
    <3>1. r \notin Unread'
      BY <1>1, <2>2 DEF Unread, Listed
    <3> QED
      BY <1>8, <2>2, <3>1, OneUnreadLess DEF CountInv
  <2> QED
    BY <2>1, <2>2 DEF StreamStep
<1> QED
  BY <1>3, <1>4, <1>5, <1>6, <1>7, <1>9, <1>10 DEF CountInv
\* A connection comes up or starts to close.
LEMMA ConnKeeps ==
    ASSUME CountInv, TypeOK', NEW c \in Conns, NEW p, ConnStep(c, p)
    PROVE  CountInv'
<1>1. /\ conn'[c].phase = p
      /\ \A d \in Conns : d # c => conn'[d] = conn[d]
  BY DEF CountInv, TypeOK, ConnStep, InPhase
<1>2. /\ Listed' = Listed /\ Unread' = Unread /\ Attaching' = Attaching
      /\ LiveConns' = LiveConns
  BY <1>1 DEF ConnStep, Listed, Unread, Attaching, LiveConns
<1>3. HeldByQuicConnect'
  <2>1. \A r \in Attaching : stream[r].conn \in Conns /\ stream[r].conn # c
    BY DEF CountInv, HeldByQuicConnect, ConnStep
  <2> QED
    BY <1>1, <1>2, <2>1 DEF CountInv, HeldByQuicConnect, ConnStep
<1>4. StreamsOnConns' /\ DelayedNotClosed'
  BY <1>2 DEF CountInv, StreamsOnConns, DelayedNotClosed, ConnStep
<1>5. ReadIsClosing'
  <2>1. \A r \in Listed : stream[r].conn \in Conns
    BY DEF CountInv, StreamsOnConns, LiveConns
  <2> QED
    BY <1>1, <1>2, <2>1 DEF CountInv, ReadIsClosing, ConnStep
<1>6. Settled'
  BY DEF Settled, ConnStep
<1>7. TimerLeavesNone' /\ CountCoversUnread'
  BY <1>2, FewerUnread DEF CountInv, TimerLeavesNone, ConnStep
<1> QED
  BY <1>3, <1>4, <1>5, <1>6, <1>7 DEF CountInv

\* A closed connection takes its list of streams with it.
LEMMA ConnClosedKeeps ==
    ASSUME CountInv, TypeOK', NEW c \in Conns, OnConnClosed(c)
    PROVE  CountInv'
<1>1. /\ conn'[c].phase = "absent" /\ \A d \in Conns : d # c => conn'[d] = conn[d]
      /\ \A r \in Requests : r \in StreamList(c) => stream'[r] = AbsentStream
      /\ \A r \in Requests : r \notin StreamList(c) => stream'[r] = stream[r]
      /\ ctl = "conns" /\ ctl' = ctl /\ caller' = caller /\ count' = count
      /\ conn[c].phase = "closing"
  BY DEF CountInv, TypeOK, OnConnClosed, AbsentConn, engineVars
<1>2. Listed' = Listed \ StreamList(c) /\ Unread' \subseteq Unread
  BY <1>1 DEF Listed, StreamList, Unread, AbsentStream
<1>3. Attaching' = Attaching
  BY <1>1 DEF Attaching, StreamList, Listed, AbsentStream
<1>4. \A r \in Attaching : stream'[r] = stream[r] /\ stream[r].conn # c
  <2>1. \A r \in Attaching : r \in Requests /\ r \notin StreamList(c)
    BY DEF Attaching, StreamList, Listed
  <2> QED
    BY <1>1, <2>1 DEF CountInv, HeldByQuicConnect
<1>5. HeldByQuicConnect'
  BY <1>1, <1>3, <1>4 DEF CountInv, HeldByQuicConnect
<1>6. \A r \in Listed' : /\ r \in Listed /\ r \in Requests /\ stream'[r] = stream[r]
                         /\ stream[r].conn \in LiveConns /\ stream[r].conn # c
  BY <1>1, <1>2 DEF CountInv, StreamsOnConns, StreamList, Listed
<1>7. StreamsOnConns'
  BY <1>1, <1>6 DEF StreamsOnConns, LiveConns
<1>8. ReadIsClosing'
  BY <1>1, <1>6 DEF CountInv, ReadIsClosing, LiveConns
<1>9. DelayedNotClosed'
  BY <1>1 DEF CountInv, DelayedNotClosed, AbsentStream
<1>10. Settled'
  BY <1>1 DEF Settled
<1>11. TimerLeavesNone' /\ CountCoversUnread'
  BY <1>1, <1>2, FewerUnread DEF CountInv, TimerLeavesNone
<1> QED
  BY <1>5, <1>7, <1>8, <1>9, <1>10, <1>11 DEF CountInv

\* A stream joins the list of an open connection and is counted.
LEMMA InsertKeeps ==
    ASSUME CountInv, TypeOK', NEW r \in Requests, NEW c \in LiveConns, Insert(r, c),
           Attaching \subseteq {r}, conn' = conn, ctl' = "connect",
           \A s \in Requests : ~stream[s].closing,
           \A d \in Conns : conn[d].phase # "closing"
    PROVE  CountInv'
<1>1. /\ stream'[r].phase \in {"delayed", "created"} /\ stream'[r].conn = c
      /\ ~stream'[r].is_read /\ ~stream'[r].closing
      /\ \A s \in Requests : s # r => stream'[s] = stream[s]
      /\ count' = count + 1
  BY DEF CountInv, TypeOK, Insert
<1>2. /\ Attaching' = {} /\ LiveConns' = LiveConns
      /\ Listed' \subseteq Listed \cup {r} /\ Unread' \subseteq Unread \cup {r}
  BY <1>1 DEF Attaching, LiveConns, Listed, Unread
<1>3. HeldByQuicConnect'
  BY <1>2 DEF HeldByQuicConnect
<1>4. StreamsOnConns'
  BY <1>1, <1>2 DEF CountInv, StreamsOnConns, Listed
<1>5. ReadIsClosing'
  BY <1>1, <1>2 DEF CountInv, ReadIsClosing, Listed
<1>6. DelayedNotClosed' /\ Settled'
  BY <1>1 DEF CountInv, DelayedNotClosed, Settled
<1>7. TimerLeavesNone'
  BY DEF TimerLeavesNone
<1>8. CountCoversUnread'
  BY <1>1, <1>2, OneUnreadMore DEF CountInv
<1> QED
  BY <1>3, <1>4, <1>5, <1>6, <1>7, <1>8 DEF CountInv

\* quic_connect opens a connection and keeps the stream for it.
LEMMA QuicConnectNewKeeps ==
    ASSUME CountInv, TypeOK', NEW r \in Requests, NEW url \in Urls, NEW c \in Conns,
           QuicConnectNew(r, url, c)
    PROVE  CountInv'
<1>1. /\ stream'[r].phase = "attaching" /\ stream'[r].conn = c /\ ~stream'[r].closing
      /\ \A s \in Requests : s # r => stream'[s] = stream[s]
      /\ conn[c].phase = "absent" /\ conn'[c].phase = "handshake"
      /\ \A d \in Conns : d # c => conn'[d] = conn[d]
      /\ ctl = "connect" /\ ctl' = "conns" /\ caller' = "quic_connect" /\ count' = count
  BY DEF CountInv, TypeOK, QuicConnectNew, NeedsConnection, Connecting
<1>2. Attaching = {}
  BY <1>1 DEF CountInv, HeldByQuicConnect
<1>3. Attaching' = {r} /\ LiveConns \subseteq LiveConns'
  BY <1>1, <1>2 DEF Attaching, LiveConns
<1>4. Unread' \subseteq Unread
  BY <1>1 DEF Unread, Listed
<1>5. HeldByQuicConnect'
  BY <1>1, <1>3 DEF HeldByQuicConnect
<1>6. \A s \in Listed' : s \in Listed /\ stream'[s] = stream[s] /\ stream[s].conn # c
  BY <1>1 DEF CountInv, StreamsOnConns, Listed, LiveConns
<1>7. StreamsOnConns'
  BY <1>3, <1>6 DEF CountInv, StreamsOnConns
<1>8. ReadIsClosing'
  BY <1>1, <1>6 DEF CountInv, ReadIsClosing, StreamsOnConns, LiveConns
<1>9. DelayedNotClosed' /\ Settled'
  BY <1>1 DEF CountInv, DelayedNotClosed, Settled
<1>10. TimerLeavesNone' /\ CountCoversUnread'
  BY <1>1, <1>4, FewerUnread DEF CountInv, TimerLeavesNone
<1> QED
  BY <1>5, <1>7, <1>8, <1>9, <1>10 DEF CountInv
-----------------------------------------------------------------------------
(* The actions. *)

LEMMA NothingAttached ==
    ASSUME CountInv, ctl \notin {"conns", "crashed"} \/ caller # "quic_connect"
    PROVE  Attaching = {}
BY DEF CountInv, HeldByQuicConnect

LEMMA CountInit == Init => CountInv
<1> SUFFICES ASSUME Init PROVE CountInv
  OBVIOUS
<1>1. Listed = {} /\ Attaching = {} /\ Unread = {}
  BY DEF Init, Listed, Attaching, Unread, AbsentStream
<1>2. HeldByQuicConnect /\ StreamsOnConns /\ ReadIsClosing /\ TimerLeavesNone
  BY <1>1 DEF HeldByQuicConnect, StreamsOnConns, ReadIsClosing, TimerLeavesNone
<1>3. DelayedNotClosed /\ Settled
  BY DEF Init, DelayedNotClosed, Settled, AbsentStream, AbsentConn
<1>4. CountCoversUnread
  BY <1>1, FS_EmptySet DEF CountCoversUnread, Init
<1> QED
  BY <1>2, <1>3, <1>4, TypeInit DEF CountInv

LEMMA UserCount == CountInv /\ TypeOK' /\ UserStep => CountInv'
<1> SUFFICES ASSUME CountInv, TypeOK', UserStep PROVE CountInv'
  OBVIOUS
<1>1. ctl = "app"
  BY DEF UserStep, StartDownloading, GetWithoutWaiting, GetByWaiting, DestroyClient
<1>2. /\ \A r \in Requests : ~stream[r].closing
      /\ \A c \in Conns : conn[c].phase # "closing"
  BY <1>1 DEF CountInv, Settled
<1>3. Attaching = {}
  BY <1>1, NothingAttached
<1>4. CASE ~DestroyClient
  <2>1. StillStep /\ ctl' # "conns"
    BY <1>4 DEF UserStep, StartDownloading, GetWithoutWaiting, GetByWaiting, StillStep,
                netVars, engineVars, loopVars
  <2> QED
    BY <1>2, <1>3, <2>1, StillKeeps
<1>5. CASE DestroyClient
  <2>1. /\ ctl' = "conns" /\ caller' = "destroy_engine" /\ stream' = stream /\ count' = count
        /\ conn' = AllConnsClosing
    BY <1>5 DEF DestroyClient, engineVars
  <2>2. \A c \in LiveConns : conn'[c].phase = "closing"
    BY <2>1 DEF AllConnsClosing, InPhase, LiveConns
  <2>3. /\ LiveConns \subseteq LiveConns' /\ Listed' = Listed /\ Unread' = Unread
        /\ Attaching' = {}
    BY <1>3, <2>1, <2>2 DEF LiveConns, Listed, Unread, Attaching
  <2>4. HeldByQuicConnect' /\ StreamsOnConns' /\ ReadIsClosing'
    BY <2>1, <2>2, <2>3 DEF CountInv, HeldByQuicConnect, StreamsOnConns, ReadIsClosing
  <2>5. DelayedNotClosed' /\ Settled' /\ TimerLeavesNone'
    BY <1>2, <2>1 DEF DelayedNotClosed, Settled, TimerLeavesNone
  <2>6. CountCoversUnread'
    BY <2>1, <2>3, FewerUnread DEF CountInv
  <2> QED
    BY <2>4, <2>5, <2>6 DEF CountInv
<1> QED
  BY <1>4, <1>5

\* run_timeout: outside process_conns every listed stream is unread, so the count
\* covers all the streams it takes off.
LEMMA TimerEndsStreamsCount == CountInv /\ TypeOK' /\ TimerEndsStreams => CountInv'
<1> SUFFICES ASSUME CountInv, TypeOK', TimerEndsStreams PROVE CountInv'
  OBVIOUS
<1>1. ctl = "run" /\ ctl' = "conns" /\ caller' = "timer_handler"
  BY DEF TimerEndsStreams, Running
<1>2. /\ \A r \in Requests : ~stream[r].closing
      /\ \A c \in Conns : conn[c].phase # "closing"
  BY <1>1 DEF CountInv, Settled
<1>3. \A r \in Listed : stream[r].conn \in LiveConns /\ r \in Requests
  BY DEF CountInv, StreamsOnConns, Listed
<1>4. Unread = Listed
  BY <1>2, <1>3 DEF CountInv, ReadIsClosing, Unread, LiveConns
<1>5. /\ \A r \in Listed : /\ stream'[r].is_read /\ stream'[r].phase = stream[r].phase
                           /\ stream'[r].conn = stream[r].conn
                           /\ stream'[r].closing = (stream[r].phase # "delayed")
      /\ \A r \in Requests : r \notin Listed => stream'[r] = stream[r]
  BY <1>3 DEF TimerEndsStreams, StreamWith
<1>6. \A c \in LiveConns : conn'[c].phase = "closing"
  BY DEF TimerEndsStreams, AllConnsClosing, InPhase, LiveConns
<1>7. Listed' = Listed /\ Unread' = {}
  BY <1>3, <1>5 DEF Listed, Unread
<1>8. Attaching' = {}
  BY <1>1, <1>3, <1>5, NothingAttached DEF Attaching, Listed
<1>9. HeldByQuicConnect' /\ TimerLeavesNone' /\ Settled'
  BY <1>1, <1>7, <1>8 DEF HeldByQuicConnect, TimerLeavesNone, Settled
<1>10. StreamsOnConns' /\ ReadIsClosing'
  BY <1>3, <1>5, <1>6, <1>7 DEF StreamsOnConns, ReadIsClosing, LiveConns
<1>11. DelayedNotClosed'
  BY <1>2, <1>5 DEF DelayedNotClosed
<1>12. CountCoversUnread'
  <2>1. count' = count - Cardinality(Unread) /\ count >= Cardinality(Unread)
    BY <1>4 DEF TimerEndsStreams, CountInv, CountCoversUnread
  <2>2. count' >= 0
    BY <2>1, UnreadFinite DEF CountInv, TypeOK
  <2> QED
    BY <1>7, <2>2, NoneUnread
<1> QED
  BY <1>9, <1>10, <1>11, <1>12 DEF CountInv

LEMMA LoopCount == CountInv /\ TypeOK' /\ LoopStep => CountInv'
<1> SUFFICES ASSUME CountInv, TypeOK', LoopStep PROVE CountInv'
  OBVIOUS
<1>1. CASE TimerEndsStreams
  BY <1>1, TimerEndsStreamsCount
<1>2. CASE ~TimerEndsStreams
  <2>1. StillStep /\ ctl \in {"poll", "run"}
    BY <1>2 DEF LoopStep, PollSome, Poll, PollAgain, LeaveLoop, TimerIdle, TimerCrashes, Crash,
                ReadSocket, Running, StillStep, netVars, engineVars
  <2>2. /\ \A r \in Requests : ~stream[r].closing
        /\ \A c \in Conns : conn[c].phase # "closing"
    BY <2>1 DEF CountInv, Settled
  <2>3. Attaching = {}
    BY <2>1, NothingAttached
  <2>4. ctl' = "conns" /\ caller' = "timer_handler" => Unread = {}
    <3>1. ctl' = "conns" /\ caller' = "timer_handler" => count = 0
      BY <1>2 DEF LoopStep, PollSome, Poll, PollAgain, LeaveLoop, TimerIdle, TimerCrashes, Crash,
                  ReadSocket, Running
    <3>2. count = 0 => Unread = {}
      <4>1. count = 0 => Cardinality(Unread) = 0
        BY UnreadFinite DEF CountInv, CountCoversUnread
      <4> QED
        BY <4>1, UnreadFinite, FS_EmptySet
    <3> QED
      BY <3>1, <3>2
  <2> QED
    BY <2>1, <2>2, <2>3, <2>4, StillKeeps
<1> QED
  BY <1>1, <1>2

LEMMA ConnectCount == CountInv /\ TypeOK' /\ ConnectStep => CountInv'
<1> SUFFICES ASSUME CountInv, TypeOK', ConnectStep PROVE CountInv'
  OBVIOUS
<1>1. ctl \in {"run", "connect"}
  BY DEF ConnectStep, RunConnectEvent, Running, QueueDrained, QuicConnectRefused,
         QuicConnectFails, QuicConnectShared, QuicConnectNew, NeedsConnection, Connecting
<1>2. /\ \A r \in Requests : ~stream[r].closing
      /\ \A c \in Conns : conn[c].phase # "closing"
  BY <1>1 DEF CountInv, Settled
<1>3. Attaching = {}
  BY <1>1, NothingAttached
<1>4. ASSUME StillStep, ctl' = "conns" => caller' # "timer_handler" PROVE CountInv'
  BY <1>2, <1>3, <1>4, StillKeeps
<1>5. CASE RunConnectEvent \/ QueueDrained
  BY <1>4, <1>5 DEF RunConnectEvent, QueueDrained, StillStep, netVars, engineVars
<1>6. ASSUME NEW r \in Requests, NEW url \in Urls,
             QuicConnectRefused(r, url) \/ QuicConnectFails(r, url)
      PROVE  CountInv'
  <2>1. ctl = "connect" /\ ctl' = ctl /\ StillStep
    BY <1>6 DEF QuicConnectRefused, QuicConnectFails, NeedsConnection, Connecting, StillStep,
                netVars, loopVars
  <2> QED
    BY <1>4, <2>1
<1>7. ASSUME NEW r \in Requests, NEW url \in Urls, NEW c \in Conns, QuicConnectShared(r, url, c)
      PROVE  CountInv'
  <2>1. c \in LiveConns /\ Insert(r, c) /\ conn' = conn /\ ctl' = "connect"
    BY <1>7 DEF QuicConnectShared, Usable, LiveConns, Connecting, loopVars
  <2> QED
    BY <1>2, <1>3, <2>1, InsertKeeps
<1> QED
  BY <1>5, <1>6, <1>7, QuicConnectNewKeeps DEF ConnectStep
\* A stream on which lsquic reads and writes is unread, and so is one it makes.
LEMMA ServedUnread ==
    ASSUME CountInv, NEW r \in Requests, Serving(r) \/ OnNewStream(r)
    PROVE  /\ ctl = "conns" /\ r \in Unread /\ r \in Listed
           /\ ~stream[r].is_read /\ ~stream[r].closing
           /\ Serving(r) => stream[r].phase \in {"created", "sent", "reading"}
<1>1. stream[r] \in StreamRecord
  BY DEF CountInv, TypeOK
<1>2. ctl = "conns" /\ r \in Listed /\ conn[stream[r].conn].phase = "up"
  BY DEF Serving, OnNewStream, Created, Listed
<1>3. ~stream[r].closing
  BY DEF Serving, OnNewStream, CountInv, DelayedNotClosed
<1>4. ~stream[r].is_read
  BY <1>2, <1>3 DEF CountInv, ReadIsClosing
<1>5. Serving(r) => stream[r].phase \in {"created", "sent", "reading"}
  BY <1>1 DEF Serving, Created, Listed, StreamRecord
<1> QED
  BY <1>2, <1>3, <1>4, <1>5 DEF Unread

LEMMA ChangedStream ==
    ASSUME CountInv, TypeOK', NEW r \in Requests, NEW v, stream' = [stream EXCEPT ![r] = v]
    PROVE  v \in StreamRecord
BY DEF CountInv, TypeOK

\* The callbacks that write, a reset, and on_new_stream leave the stream unread.
LEMMA WriteCallbackCount ==
    ASSUME CountInv, TypeOK', NEW r \in Requests,
           StreamReset(r) \/ OnNewStream(r) \/ OnWriteHeader(r) \/ OnWriteShutdown(r)
    PROVE  CountInv'
<1>1. Serving(r) \/ OnNewStream(r)
  BY DEF StreamReset, OnWriteHeader, OnWriteShutdown
<1>2. PICK p \in {"created", "sent", "reading"}, data \in BOOLEAN, closes \in BOOLEAN :
         stream' = [stream EXCEPT ![r] = StreamWith(r, p, FALSE, data, closes)]
  <2>1. stream[r].is_read = FALSE /\ stream[r].has_data \in BOOLEAN /\ stream[r].closing = FALSE
    BY <1>1, ServedUnread DEF CountInv, TypeOK, StreamRecord
  <2>2. CASE StreamReset(r)
    BY <2>1, <2>2, <1>1, ServedUnread DEF StreamReset
  <2>3. CASE OnNewStream(r)
    BY <2>1, <2>3 DEF OnNewStream
  <2>4. CASE OnWriteHeader(r)
    BY <2>1, <2>4 DEF OnWriteHeader
  <2>5. CASE OnWriteShutdown(r)
    BY <2>1, <2>5 DEF OnWriteShutdown
  <2> QED
    BY <2>2, <2>3, <2>4, <2>5
<1>3. UNCHANGED <<ctl, caller, conn, count>>
  BY DEF StreamReset, OnNewStream, OnWriteHeader, OnWriteShutdown, loopVars, engineVars
<1>4. StreamStep(r, StreamWith(r, p, FALSE, data, closes))
  BY <1>1, <1>2, <1>3, ServedUnread, ChangedStream DEF StreamStep, StreamWith
<1> QED
  BY <1>4, StreamKeeps

\* http_client_on_stream_close
LEMMA StreamCloseCount ==
    ASSUME CountInv, TypeOK', NEW r \in Requests, OnStreamClose(r)
    PROVE  CountInv'
<1>1. ctl = "conns" /\ r \in Listed
  BY DEF OnStreamClose, Created
<1>2. CASE stream' = [stream EXCEPT ![r] = AbsentStream]
  <2>1. AbsentStream \in StreamRecord /\ AbsentStream.phase = "absent"
    BY DEF AbsentStream, StreamRecord
  <2>2. UNCHANGED <<caller, conn>> /\ ctl' \in {"conns", "crashed"}
    BY <1>1 DEF OnStreamClose, Crash, loopVars
  <2>3. count' = count \/ (count' = count - 1 /\ r \in Unread)
    BY <1>1 DEF OnStreamClose, OneStreamDone, engineVars, Unread
  <2>4. StreamStep(r, AbsentStream)
    BY <1>1, <1>2, <2>1, <2>2, <2>3 DEF StreamStep
  <2> QED
    BY <2>4, StreamKeeps
<1>3. CASE Crash /\ UNCHANGED <<count, stream>>
  BY <1>3, StillKeeps DEF StillStep, Crash
<1> QED
  BY <1>2, <1>3 DEF OnStreamClose

\* http_client_on_read
LEMMA ReadCount ==
    ASSUME CountInv, TypeOK', NEW r \in Requests,
           \/ \E code \in Codes : OnReadAnswer(r, code)
           \/ \E url \in RedirectTo : OnReadRedirect(r, url)
           \/ OnReadError(r) \/ OnReadBadHeader(r) \/ OnReadOverflow(r) \/ OnReadEarlyFin(r)
    PROVE  CountInv'
<1>1. Reading(r) /\ Serving(r) /\ stream[r].phase = "reading"
  BY DEF OnReadAnswer, OnReadRedirect, OnReadError, OnReadBadHeader, OnReadOverflow,
         OnReadGivesUp, OnReadEarlyFin, Reading
<1>2. ctl = "conns" /\ r \in Unread /\ r \in Listed /\ ~stream[r].is_read /\ ~stream[r].closing
  BY <1>1, ServedUnread
<1>3. ASSUME EndOfRead(r), UNCHANGED <<ctl, caller, conn>>, count' = count \/ count' = count - 1
      PROVE  CountInv'
  <2>1. StreamStep(r, StreamWith(r, stream[r].phase, TRUE, FALSE, TRUE))
    BY <1>1, <1>2, <1>3, ChangedStream DEF EndOfRead, StreamStep, StreamWith
  <2> QED
    BY <2>1, StreamKeeps
<1>4. CASE \E code \in Codes : OnReadAnswer(r, code)
  BY <1>3, <1>4 DEF OnReadAnswer, OneStreamDone
<1>5. CASE \E url \in RedirectTo : OnReadRedirect(r, url)
  BY <1>3, <1>5 DEF OnReadRedirect
<1>6. CASE OnReadError(r)
  BY <1>3, <1>6 DEF OnReadError, loopVars
<1>7. ASSUME NEW code, NEW closes, OnReadGivesUp(r, code, closes) PROVE CountInv'
  <2>1. ctl' \in {"conns", "crashed"} /\ UNCHANGED <<caller, conn, count>>
    BY <1>2, <1>7 DEF OnReadGivesUp, Crash
  <2>2. StreamStep(r, StreamWith(r, stream[r].phase, stream[r].is_read, FALSE, closes))
    BY <1>1, <1>2, <1>7, <2>1, ChangedStream DEF OnReadGivesUp, StreamStep, StreamWith
  <2> QED
    BY <2>2, StreamKeeps
<1>8. CASE OnReadBadHeader(r) \/ OnReadOverflow(r)
  BY <1>7, <1>8 DEF OnReadBadHeader, OnReadOverflow
<1>9. CASE OnReadEarlyFin(r)
  BY <1>9, StillKeeps DEF OnReadEarlyFin, StillStep, Crash
<1> QED
  BY <1>4, <1>5, <1>6, <1>8, <1>9

\* process_conns returns.
LEMMA ReturnCount == CountInv /\ TypeOK' /\ ConnsReturn => CountInv'
<1> SUFFICES ASSUME CountInv, TypeOK', ConnsReturn PROVE CountInv'
  OBVIOUS
<1>1. /\ ctl = "conns" /\ ctl' # "conns" /\ caller' = caller /\ conn' = conn
      /\ \A r \in Requests : ~stream[r].closing
      /\ \A c \in Conns : conn[c].phase # "closing"
  BY DEF ConnsReturn
<1>2. CASE caller = "quic_connect"
  <2>1. PICK r \in Requests : stream[r].phase = "attaching" /\ Insert(r, stream[r].conn)
    BY <1>2 DEF ConnsReturn
  <2>2. /\ stream[r].conn \in LiveConns /\ Attaching \subseteq {r}
        /\ ctl' = "connect"
    BY <1>2, <2>1 DEF CountInv, HeldByQuicConnect, Attaching, LiveConns, ConnsReturn
  <2> QED
    BY <1>1, <2>1, <2>2, InsertKeeps
<1>3. CASE caller = "timer_handler"
  <2>1. Unread = {} /\ Attaching = {} /\ stream' = stream
    BY <1>1, <1>3, NothingAttached DEF CountInv, TimerLeavesNone, ConnsReturn
  <2>2. count' = count \/ count' = 0
    BY <1>3 DEF ConnsReturn, TimerFinish
  <2>3. CASE count' = count
    BY <1>1, <2>1, <2>3, StillKeeps DEF StillStep
  <2>4. CASE count' = 0
    <3>1. /\ Listed' = Listed /\ Unread' = {} /\ Attaching' = {} /\ LiveConns' = LiveConns
      BY <1>1, <2>1 DEF Listed, Unread, Attaching, LiveConns
    <3>2. HeldByQuicConnect' /\ StreamsOnConns' /\ ReadIsClosing' /\ DelayedNotClosed'
      BY <1>1, <2>1, <3>1 DEF CountInv, HeldByQuicConnect, StreamsOnConns, ReadIsClosing,
                              DelayedNotClosed
    <3>3. Settled' /\ TimerLeavesNone'
      BY <1>1, <2>1 DEF Settled, TimerLeavesNone
    <3>4. CountCoversUnread'
      BY <2>4, <3>1, NoneUnread
    <3> QED
      BY <3>2, <3>3, <3>4 DEF CountInv
  <2> QED
    BY <2>2, <2>3, <2>4
<1>4. CASE caller \notin {"quic_connect", "timer_handler"}
  <2>1. StillStep /\ Attaching = {}
    BY <1>1, <1>4, NothingAttached DEF ConnsReturn, StillStep, engineVars
  <2> QED
    BY <1>1, <2>1, StillKeeps
<1> QED
  BY <1>2, <1>3, <1>4

LEMMA ConnsCount == CountInv /\ TypeOK' /\ ConnsStep => CountInv'
<1> SUFFICES ASSUME CountInv, TypeOK', ConnsStep PROVE CountInv'
  OBVIOUS
<1>1. CASE PacketsOutFail
  <2>1. StillStep /\ ctl = "conns" /\ ctl' = ctl /\ caller' = caller
    BY <1>1 DEF PacketsOutFail, StillStep, netVars
  <2> QED
    BY <2>1, StillKeeps DEF CountInv, TimerLeavesNone
<1>2. ASSUME NEW c \in Conns, NEW ok \in BOOLEAN, OnHandshake(c, ok) PROVE CountInv'
  <2>1. \A r \in Attaching : stream[r].conn # c
    BY <1>2 DEF OnHandshake, JustOpened, Attaching
  <2>2. ConnStep(c, IF ok THEN "up" ELSE "closing")
    BY <1>2, <2>1 DEF OnHandshake, ConnStep
  <2> QED
    BY <2>2, ConnKeeps
<1>3. ASSUME NEW c \in Conns, ConnLost(c) PROVE CountInv'
  <2>1. \A r \in Attaching : stream[r].conn # c
    BY <1>3 DEF ConnLost, CountInv, HeldByQuicConnect
  <2>2. ConnStep(c, "closing")
    BY <1>3, <2>1 DEF ConnLost, ConnStep, loopVars, engineVars
  <2> QED
    BY <2>2, ConnKeeps
<1> QED
  BY <1>1, <1>2, <1>3, ConnClosedKeeps, WriteCallbackCount, StreamCloseCount, ReadCount,
     ReturnCount DEF ConnsStep

LEMMA CountStep == CountInv /\ [Next]_vars => CountInv'
<1> SUFFICES ASSUME CountInv, [Next]_vars PROVE CountInv'
  OBVIOUS
<1>1. TypeOK'
  BY TypeStep DEF CountInv
<1>2. CASE UNCHANGED vars
  <2>1. StillStep /\ UNCHANGED <<ctl, caller>>
    BY <1>2 DEF vars, loopVars, engineVars, netVars, StillStep
  <2>2. Attaching = {} \/ ctl' \in {"conns", "crashed"}
    BY <2>1 DEF CountInv, HeldByQuicConnect
  <2> QED
    BY <1>1, <2>1, <2>2, StillKeeps DEF CountInv, Settled, TimerLeavesNone
<1>3. CASE Next
  BY <1>1, <1>2, <1>3, UserCount, LoopCount, ConnectCount, ConnsCount
     DEF Next, EngineStep, Finished
<1> QED
  BY <1>2, <1>3

\* The counter reading_streams_count of engine_structs.h, an unsigned in the code,
\* is never decremented below the number of streams that still owe a result: the
\* timeout handler and get_download_result never take unfinished work for none.
THEOREM CountCovers == Spec => []CountCoversUnread
<1>1. CountInv => CountCoversUnread
  BY DEF CountInv
<1> QED
  BY <1>1, CountInit, CountStep, PTL DEF Spec
-----------------------------------------------------------------------------
(* What the queue operations of libevent keep in the queue. *)

LEMMA TailKeeps ==
    ASSUME NEW S, NEW s \in Seq(S), s # <<>>, NEW e \in Range(s), e # Head(s)
    PROVE  e \in Range(Tail(s))
<1>1. PICK i \in 1..Len(s) : s[i] = e
  BY DEF Range
<1>2. i # 1 /\ Len(s) \in Nat
  BY <1>1, LenProperties
<1>3. i-1 \in 1..Len(Tail(s)) /\ Tail(s)[i-1] = s[i]
  BY <1>1, <1>2
<1>4. DOMAIN Tail(s) = 1..Len(Tail(s))
  BY HeadTailProperties, LenProperties
<1> QED
  BY <1>1, <1>3, <1>4 DEF Range

LEMMA ConcatKeeps ==
    ASSUME NEW S, NEW s \in Seq(S), NEW t \in Seq(S), NEW e \in Range(s)
    PROVE  e \in Range(s \o t)
<1>1. PICK i \in 1..Len(s) : s[i] = e
  BY DEF Range
<1>2. i \in DOMAIN (s \o t) /\ (s \o t)[i] = e
  BY <1>1, ConcatProperties, LenProperties
<1> QED
  BY <1>2 DEF Range

LEMMA ActivateKeeps ==
    ASSUME NEW S, NEW s \in Seq(S), NEW e \in S
    PROVE  e \in Range(Activate(s, e)) /\ Range(s) \subseteq Range(Activate(s, e))
<1>1. CASE e \in Range(s)
  BY <1>1 DEF Activate
<1>2. CASE e \notin Range(s)
  <2>1. DOMAIN Append(s, e) = 1..Len(s)+1 /\ Len(s) \in Nat
    BY AppendProperties, LenProperties
  <2>2. Append(s, e)[Len(s)+1] = e /\ \A i \in 1..Len(s) : Append(s, e)[i] = s[i]
    BY AppendProperties
  <2>3. DOMAIN s \subseteq DOMAIN Append(s, e)
    BY <2>1
  <2>4. e \in Range(Append(s, e))
    BY <2>1, <2>2 DEF Range
  <2>5. Range(s) \subseteq Range(Append(s, e))
    BY <2>2, <2>3 DEF Range
  <2> QED
    BY <1>2, <2>4, <2>5 DEF Activate
<1> QED
  BY <1>1, <1>2

\* Taking an event off the queue moves the later ones one place down.
LEMMA WithoutShifts ==
    ASSUME NEW S, NEW s \in Seq(S), NEW e \in Range(s)
    PROVE  \E k \in 1..Len(s) :
              /\ s[k] = e
              /\ DOMAIN Without(s, e) = 1..(Len(s) - 1)
              /\ \A i \in 1..(Len(s) - 1) :
                    Without(s, e)[i] = IF i < k THEN s[i] ELSE s[i + 1]
<1> DEFINE k == CHOOSE i \in DOMAIN s : s[i] = e
           a == SubSeq(s, 1, k-1)
           b == SubSeq(s, k+1, Len(s))
<1>1. k \in 1..Len(s) /\ s[k] = e /\ Len(s) \in Nat
  BY LenProperties DEF Range
<1>2. Without(s, e) = a \o b
  BY DEF Without, RemoveAt
<1> HIDE DEF k
<1>3. a \in Seq(S) /\ b \in Seq(S)
  BY <1>1
<1>4. /\ Len(a) = k-1 /\ Len(b) = Len(s)-k
      /\ \A j \in 1..k-1 : a[j] = s[j]
      /\ \A j \in 1..Len(s)-k : b[j] = s[k+j]
  BY <1>1
<1> HIDE DEF a, b
<1>5. /\ a \o b \in Seq(S) /\ Len(a \o b) = Len(a) + Len(b)
      /\ \A i \in 1..(Len(a) + Len(b)) :
            (a \o b)[i] = IF i <= Len(a) THEN a[i] ELSE b[i - Len(a)]
  BY <1>3, ConcatProperties
<1>6. DOMAIN (a \o b) = 1..(Len(s) - 1)
  <2>1. Len(a) + Len(b) = Len(s) - 1
    BY <1>1, <1>4
  <2> QED
    BY <1>5, <2>1, LenProperties
<1>7. ASSUME NEW i \in 1..(Len(s) - 1)
      PROVE  (a \o b)[i] = IF i < k THEN s[i] ELSE s[i + 1]
  <2>1. CASE i < k
    <3>1. i \in 1..k-1 /\ i \in 1..(Len(a) + Len(b)) /\ i <= Len(a)
      BY <1>1, <1>4, <1>7, <2>1
    <3> QED
      BY <1>4, <1>5, <2>1, <3>1
  <2>2. CASE ~(i < k)
    <3>1. /\ i - (k-1) \in 1..Len(s)-k /\ i \in 1..(Len(a) + Len(b)) /\ ~(i <= Len(a))
          /\ k + (i - (k-1)) = i + 1
      BY <1>1, <1>4, <1>7, <2>2
    <3>2. (a \o b)[i] = b[i - (k-1)] /\ b[i - (k-1)] = s[i + 1]
      BY <1>4, <1>5, <3>1
    <3> QED
      BY <2>2, <3>2
  <2> QED
    BY <2>1, <2>2
<1> QED
  BY <1>1, <1>2, <1>6, <1>7

LEMMA WithoutKeeps ==
    ASSUME NEW S, NEW s \in Seq(S), NEW f, NEW e \in Range(s), e # f
    PROVE  e \in Range(Without(s, f))
<1>1. CASE f \notin Range(s)
  BY <1>1 DEF Without
<1>2. CASE f \in Range(s)
  <2>1. PICK k \in 1..Len(s) :
              /\ s[k] = f
              /\ DOMAIN Without(s, f) = 1..(Len(s) - 1)
              /\ \A i \in 1..(Len(s) - 1) :
                    Without(s, f)[i] = IF i < k THEN s[i] ELSE s[i + 1]
    BY <1>2, WithoutShifts
  <2>2. PICK i \in 1..Len(s) : s[i] = e
    BY LenProperties DEF Range
  <2>3. i # k /\ Len(s) \in Nat
    BY <2>1, <2>2, LenProperties
  <2>4. CASE i < k
    <3>1. i \in 1..(Len(s) - 1) /\ Without(s, f)[i] = e
      BY <2>1, <2>2, <2>3, <2>4
    <3> QED
      BY <2>1, <3>1 DEF Range
  <2>5. CASE i > k
    <3>1. i - 1 \in 1..(Len(s) - 1) /\ ~(i - 1 < k) /\ (i - 1) + 1 = i
      BY <2>1, <2>2, <2>3, <2>5
    <3>2. Without(s, f)[i - 1] = e
      BY <2>1, <2>2, <3>1
    <3> QED
      BY <2>1, <3>1, <3>2 DEF Range
  <2> QED
    BY <2>1, <2>2, <2>3, <2>4, <2>5
<1> QED
  BY <1>1, <1>2
-----------------------------------------------------------------------------
(* The steps. *)

\* Who holds the thread still has to serve the queue or is told to by the event.
LEMMA WakeupFrame ==
    ASSUME WakeupInv, TypeOK', queue' = queue \/ queue' = <<>>,
           Served => Served' \/ queue' = <<>>,
           ConnectEvent \in Range(active) => ConnectEvent \in Range(active') \/ Served'
    PROVE  WakeupInv'
BY DEF WakeupInv

LEMMA UserWakeup == WakeupInv /\ TypeOK' /\ UserStep => WakeupInv'
<1> SUFFICES ASSUME WakeupInv, TypeOK', UserStep PROVE WakeupInv'
  OBVIOUS
<1>1. ASSUME NEW batch \in Batches, StartDownloading(batch) PROVE WakeupInv'
  <2>1. active \in Seq(Event) /\ ConnectEvent \in Event
    BY DEF WakeupInv, TypeOK, Event
  <2>2. Activate(active, ConnectEvent) \in Seq(Event)
    BY <2>1, AppendProperties DEF Activate
  <2>3. ConnectEvent \in Range(Without(Activate(active, ConnectEvent), TimeoutEvent))
    BY <2>1, <2>2, ActivateKeeps, WithoutKeeps DEF ConnectEvent, TimeoutEvent
  <2> QED
    BY <1>1, <2>3 DEF StartDownloading, WakeupInv
<1>2. CASE GetWithoutWaiting \/ GetByWaiting
  BY <1>2, WakeupFrame DEF GetWithoutWaiting, GetByWaiting, Served, loopVars, engineVars
<1>3. CASE DestroyClient
  BY <1>3, WakeupFrame DEF DestroyClient, Served, engineVars
<1> QED
  BY <1>1, <1>2, <1>3 DEF UserStep

\* An event other than the connect event starts to run.
LEMMA RunKeeps ==
    ASSUME TypeOK, NEW e, e # ConnectEvent, Running(e), ConnectEvent \in Range(active)
    PROVE  ConnectEvent \in Range(Tail(active))
BY TailKeeps DEF Running, TypeOK

LEMMA LoopWakeup == WakeupInv /\ TypeOK' /\ LoopStep => WakeupInv'
<1> SUFFICES ASSUME WakeupInv, TypeOK', LoopStep PROVE WakeupInv'
  OBVIOUS
<1>1. ASSUME NEW expired \in BOOLEAN, PollSome(expired) PROVE WakeupInv'
  <2>1. PICK sockets \in SUBSET Conns : Poll(sockets, expired)
    BY <1>1 DEF PollSome, LiveConns
  <2>2. PICK order \in SetToSeqs(sockets) :
           active' = active \o order \o (IF expired THEN <<TimeoutEvent>> ELSE <<>>)
    BY <2>1 DEF Poll
  <2>3. order \in Seq(Event)
    BY <2>1, OrderType, FS_Subset, ConstantsAssumption DEF Event
  <2>4. /\ active \in Seq(Event) /\ active \o order \in Seq(Event)
        /\ (IF expired THEN <<TimeoutEvent>> ELSE <<>>) \in Seq(Event)
    <3>1. active \in Seq(Event) /\ TimeoutEvent \in Event
      BY DEF WakeupInv, TypeOK, Event
    <3>2. active \o order \in Seq(Event)
      BY <2>3, <3>1, ConcatProperties
    <3>3. <<TimeoutEvent>> \in Seq(Event) /\ <<>> \in Seq(Event)
      BY <3>1
    <3> QED
      BY <3>1, <3>2, <3>3
  <2>5. ConnectEvent \in Range(active) => ConnectEvent \in Range(active')
    BY <2>2, <2>3, <2>4, ConcatKeeps
  <2> QED
    BY <2>1, <2>5, WakeupFrame DEF Poll, Served, engineVars
<1>2. CASE PollAgain
  BY <1>2, WakeupFrame DEF PollAgain, Served, engineVars
<1>3. CASE LeaveLoop
  BY <1>3, WakeupFrame DEF LeaveLoop, Served
<1>4. CASE TimerIdle \/ TimerEndsStreams
  <2>1. Running(TimeoutEvent) /\ active' = Tail(active) /\ queue' = queue /\ ctl = "run"
    BY <1>4 DEF TimerIdle, TimerEndsStreams, engineVars, Running
  <2>2. ConnectEvent \in Range(active) => ConnectEvent \in Range(active')
    BY <2>1, RunKeeps DEF WakeupInv, ConnectEvent, TimeoutEvent
  <2> QED
    BY <2>1, <2>2, WakeupFrame DEF Served
<1>5. CASE TimerCrashes
  BY <1>5, WakeupFrame DEF TimerCrashes, Crash, Served
<1>6. ASSUME NEW c \in Conns, ReadSocket(c) PROVE WakeupInv'
  <2>1. Running(c) /\ active' = Tail(active) /\ queue' = queue /\ ctl = "run"
    BY <1>6 DEF ReadSocket, Running
  <2>2. ConnectEvent \in Range(active) => ConnectEvent \in Range(active')
    BY <2>1, RunKeeps, ConstantsAssumption DEF WakeupInv
  <2> QED
    BY <2>1, <2>2, WakeupFrame DEF Served
<1> QED
  BY <1>1, <1>2, <1>3, <1>4, <1>5, <1>6 DEF LoopStep

LEMMA ConnectWakeup == WakeupInv /\ TypeOK' /\ ConnectStep => WakeupInv'
<1> SUFFICES ASSUME WakeupInv, TypeOK', ConnectStep PROVE WakeupInv'
  OBVIOUS
<1>1. CASE QueueDrained
  BY <1>1 DEF QueueDrained, WakeupInv, engineVars
<1>2. CASE ~QueueDrained
  <2>1. Served'
    BY <1>2 DEF ConnectStep, RunConnectEvent, QuicConnectRefused, QuicConnectFails,
                QuicConnectShared, QuicConnectNew, NeedsConnection, Connecting, Served, loopVars
  <2> QED
    BY <2>1 DEF WakeupInv
<1> QED
  BY <1>1, <1>2

\* Callbacks of process_conns queue a request only with the event.
LEMMA ConnsWakeup == WakeupInv /\ TypeOK' /\ ConnsStep => WakeupInv'
<1> SUFFICES ASSUME WakeupInv, TypeOK', ConnsStep PROVE WakeupInv'
  OBVIOUS
<1>1. active \in Seq(Event) /\ ConnectEvent \in Event /\ ctl = "conns"
  BY DEF WakeupInv, TypeOK, Event, ConnsStep, OnHandshake, ConnLost, OnConnClosed, PacketsOutFail,
         StreamReset, OnNewStream, OnWriteHeader, OnWriteShutdown, OnReadAnswer, OnReadRedirect,
         OnReadError, OnReadBadHeader, OnReadOverflow, OnReadGivesUp, OnReadEarlyFin, Reading,
         OnStreamClose, ConnsReturn, Serving, FromPeer
<1>2. ASSUME NEW r \in Requests, NEW url \in RedirectTo, OnReadRedirect(r, url) PROVE WakeupInv'
  <2>1. ConnectEvent \in Range(active')
    BY <1>1, <1>2, ActivateKeeps DEF OnReadRedirect
  <2> QED
    BY <2>1 DEF WakeupInv
<1>3. ASSUME NEW c \in Conns, OnConnClosed(c) PROVE WakeupInv'
  <2>1. ConnectEvent \in Range(active) => ConnectEvent \in Range(active')
    BY <1>1, <1>3, WithoutKeeps, ConstantsAssumption DEF OnConnClosed, ActiveAfterClose
  <2> QED
    BY <1>3, <2>1, WakeupFrame DEF OnConnClosed, engineVars, Served
<1>4. CASE ConnsReturn
  <2>1. active' = active
    BY <1>4 DEF ConnsReturn
  <2>2. \/ queue' = queue /\ caller \notin {"quic_connect", "destroy_engine"}
        \/ Served'
    BY <1>4 DEF ConnsReturn, Served, engineVars
  <2>3. CASE Served'
    BY <2>3 DEF WakeupInv
  <2>4. CASE queue' = queue /\ caller \notin {"quic_connect", "destroy_engine"}
    BY <1>1, <2>1, <2>4, WakeupFrame DEF Served
  <2> QED
    BY <2>2, <2>3, <2>4
<1>5. ASSUME queue' = queue, active' = active, ctl' = "crashed" \/ ctl' = ctl, caller' = caller
      PROVE  WakeupInv'
  BY <1>1, <1>5, WakeupFrame DEF Served
<1>6. ASSUME NEW c \in Conns, OnHandshake(c, TRUE) \/ OnHandshake(c, FALSE) \/ ConnLost(c)
      PROVE  WakeupInv'
  BY <1>5, <1>6 DEF OnHandshake, ConnLost, loopVars, engineVars
<1>7. CASE PacketsOutFail
  BY <1>5, <1>7 DEF PacketsOutFail
<1>8. ASSUME NEW r \in Requests,
             \/ StreamReset(r) \/ OnNewStream(r) \/ OnWriteHeader(r) \/ OnWriteShutdown(r)
             \/ \E code \in Codes : OnReadAnswer(r, code)
             \/ OnReadError(r) \/ OnReadBadHeader(r) \/ OnReadOverflow(r) \/ OnReadEarlyFin(r)
             \/ OnStreamClose(r)
      PROVE  WakeupInv'
  BY <1>5, <1>8 DEF StreamReset, OnNewStream, OnWriteHeader, OnWriteShutdown, OnReadAnswer,
         OnReadError, OnReadBadHeader, OnReadOverflow, OnReadGivesUp, OnReadEarlyFin,
         OnStreamClose, Crash, loopVars, engineVars
<1> QED
  BY <1>2, <1>3, <1>4, <1>6, <1>7, <1>8 DEF ConnsStep

LEMMA WakeupInit == Init => WakeupInv
BY TypeInit DEF Init, WakeupInv

LEMMA WakeupStep == WakeupInv /\ [Next]_vars => WakeupInv'
<1> SUFFICES ASSUME WakeupInv, [Next]_vars PROVE WakeupInv'
  OBVIOUS
<1>1. TypeOK'
  BY TypeStep DEF WakeupInv
<1>2. CASE UNCHANGED vars
  BY <1>1, <1>2, WakeupFrame DEF vars, loopVars, engineVars, Served
<1> QED
  BY <1>1, <1>2, UserWakeup, LoopWakeup, ConnectWakeup, ConnsWakeup
     DEF Next, EngineStep, Finished

\* Whenever the application holds the thread, or the event loop waits or is about to
\* run a callback, a request in request_queue has its event_connect_queue_ref
\* activated: the event_active calls of charge_request suffice.
THEOREM WakeupNeverLost == Spec => []NoLostWakeup
<1>1. WakeupInv => NoLostWakeup
  BY DEF WakeupInv, NoLostWakeup, Served
<1> QED
  BY <1>1, WakeupInit, WakeupStep, PTL DEF Spec
-----------------------------------------------------------------------------
(* What the queue operations keep out of a queue without duplicates. *)

LEMMA TailApart ==
    ASSUME NEW S, NEW s \in Seq(S), s # <<>>, IsInjective(s)
    PROVE  /\ Tail(s) \in Seq(S) /\ IsInjective(Tail(s))
           /\ Range(Tail(s)) \subseteq Range(s) \ {Head(s)}
           /\ Range(s) \ {Head(s)} \subseteq Range(Tail(s))
           /\ Head(s) \in Range(s)
<1>1. /\ Len(s) \in Nat /\ DOMAIN s = 1..Len(s) /\ Len(s) # 0
  BY LenProperties, EmptySeq
<1>2. /\ Tail(s) \in Seq(S) /\ DOMAIN Tail(s) = 1..Len(s)-1
      /\ \A i \in 1..Len(s)-1 : Tail(s)[i] = s[i+1]
  BY HeadTailProperties, LenProperties
<1>3. \A i \in 1..Len(s)-1 : i+1 \in DOMAIN s /\ 1 \in DOMAIN s /\ i+1 # 1
  BY <1>1
<1>4. Head(s) = s[1]
  OBVIOUS
<1>5. IsInjective(Tail(s))
  <2> SUFFICES ASSUME NEW i \in DOMAIN Tail(s), NEW j \in DOMAIN Tail(s), Tail(s)[i] = Tail(s)[j]
               PROVE  i = j
    BY DEF IsInjective
  <2>1. i+1 = j+1
    BY <1>2, <1>3 DEF IsInjective
  <2> QED
    BY <1>1, <1>2, <2>1
<1>6. Range(Tail(s)) \subseteq Range(s) \ {Head(s)}
  BY <1>2, <1>3, <1>4 DEF Range, IsInjective
<1>7. Range(s) \ {Head(s)} \subseteq Range(Tail(s))
  BY TailKeeps
<1>8. Head(s) \in Range(s)
  BY <1>1, <1>4 DEF Range
<1> QED
  BY <1>2, <1>5, <1>6, <1>7, <1>8

LEMMA ConcatApart ==
    ASSUME NEW S, NEW s \in Seq(S), NEW t \in Seq(S)
    PROVE  /\ s \o t \in Seq(S) /\ Range(s \o t) = Range(s) \cup Range(t)
           /\ IsInjective(s) /\ IsInjective(t) /\ Range(s) \cap Range(t) = {}
              => IsInjective(s \o t)
<1> DEFINE m == Len(s)
           n == Len(t)
<1>1. m \in Nat /\ n \in Nat /\ DOMAIN s = 1..m /\ DOMAIN t = 1..n
  BY LenProperties
<1>2. /\ s \o t \in Seq(S) /\ DOMAIN (s \o t) = 1..m+n
      /\ \A i \in 1..m+n : (s \o t)[i] = IF i <= m THEN s[i] ELSE t[i-m]
  BY ConcatProperties, LenProperties
<1> HIDE DEF m, n
<1>3. ASSUME NEW i \in 1..m PROVE i \in 1..m+n /\ (s \o t)[i] = s[i]
  <2>1. i \in 1..m+n /\ i <= m
    BY <1>1
  <2> QED
    BY <1>2, <2>1
<1>4. ASSUME NEW i \in 1..n PROVE i+m \in 1..m+n /\ (s \o t)[i+m] = t[i]
  <2>1. i+m \in 1..m+n /\ ~(i+m <= m) /\ (i+m)-m = i
    BY <1>1
  <2> QED
    BY <1>2, <2>1
<1>5. ASSUME NEW i \in 1..m+n
      PROVE  \/ i \in 1..m /\ (s \o t)[i] = s[i]
             \/ i-m \in 1..n /\ (s \o t)[i] = t[i-m]
  <2>1. CASE i <= m
    <3>1. i \in 1..m
      BY <1>1, <2>1
    <3> QED
      BY <1>2, <2>1, <3>1
  <2>2. CASE ~(i <= m)
    <3>1. i-m \in 1..n
      BY <1>1, <2>2
    <3> QED
      BY <1>2, <2>2, <3>1
  <2> QED
    BY <2>1, <2>2
<1>6. Range(s \o t) = Range(s) \cup Range(t)
  <2>1. ASSUME NEW i \in 1..m PROVE s[i] \in Range(s \o t)
    BY <1>2, <1>3 DEF Range
  <2>2. ASSUME NEW i \in 1..n PROVE t[i] \in Range(s \o t)
    BY <1>2, <1>4 DEF Range
  <2>3. Range(s \o t) \subseteq Range(s) \cup Range(t)
    BY <1>1, <1>2, <1>5 DEF Range
  <2>4. Range(s) \subseteq Range(s \o t) /\ Range(t) \subseteq Range(s \o t)
    BY <1>1, <2>1, <2>2 DEF Range
  <2> QED
    BY <2>3, <2>4
<1>7. ASSUME IsInjective(s), IsInjective(t), Range(s) \cap Range(t) = {}
      PROVE  IsInjective(s \o t)
  <2> SUFFICES ASSUME NEW i \in 1..m+n, NEW j \in 1..m+n, (s \o t)[i] = (s \o t)[j]
               PROVE  i = j
    BY <1>2 DEF IsInjective
  <2>1. CASE i \in 1..m /\ j \in 1..m /\ s[i] = s[j]
    BY <1>1, <1>7, <2>1 DEF IsInjective
  <2>2. CASE i-m \in 1..n /\ j-m \in 1..n /\ t[i-m] = t[j-m]
    <3>1. i-m = j-m
      BY <1>1, <1>7, <2>2 DEF IsInjective
    <3> QED
      BY <1>1, <3>1
  <2>3. ASSUME NEW k \in 1..m, NEW l \in 1..n, s[k] = t[l] PROVE FALSE
    BY <1>1, <1>7, <2>3 DEF Range
  <2> QED
    BY <1>5, <2>1, <2>2, <2>3
<1> QED
  BY <1>2, <1>6, <1>7

LEMMA AppendApart ==
    ASSUME NEW S, NEW s \in Seq(S), NEW e \in S
    PROVE  /\ Append(s, e) \in Seq(S) /\ Range(Append(s, e)) = Range(s) \cup {e}
           /\ IsInjective(s) /\ e \notin Range(s) => IsInjective(Append(s, e))
<1>1. <<e>> \in Seq(S) /\ DOMAIN <<e>> = {1} /\ <<e>>[1] = e
  OBVIOUS
<1>2. Range(<<e>>) = {e} /\ IsInjective(<<e>>)
  BY <1>1 DEF Range, IsInjective
<1>3. Append(s, e) = s \o <<e>>
  BY AppendIsConcat
<1>4. /\ s \o <<e>> \in Seq(S) /\ Range(s \o <<e>>) = Range(s) \cup Range(<<e>>)
      /\ IsInjective(s) /\ IsInjective(<<e>>) /\ Range(s) \cap Range(<<e>>) = {}
         => IsInjective(s \o <<e>>)
  BY <1>1, ConcatApart
<1>5. e \notin Range(s) => Range(s) \cap Range(<<e>>) = {}
  BY <1>2
<1> QED
  BY <1>2, <1>3, <1>4, <1>5

LEMMA ActivateApart ==
    ASSUME NEW S, NEW s \in Seq(S), NEW e \in S, IsInjective(s)
    PROVE  /\ Activate(s, e) \in Seq(S) /\ IsInjective(Activate(s, e))
           /\ Range(Activate(s, e)) = Range(s) \cup {e}
<1>1. CASE e \in Range(s)
  BY <1>1 DEF Activate
<1>2. CASE e \notin Range(s)
  BY <1>2, AppendApart DEF Activate
<1> QED
  BY <1>1, <1>2

\* event_del of an event that is queued once takes it off the queue.
LEMMA WithoutApart ==
    ASSUME NEW S, NEW s \in Seq(S), NEW e, IsInjective(s)
    PROVE  /\ Without(s, e) \in Seq(S) /\ IsInjective(Without(s, e))
           /\ Range(Without(s, e)) \subseteq Range(s) \ {e}
<1>1. CASE e \notin Range(s)
  BY <1>1 DEF Without
<1>2. CASE e \in Range(s)
  <2>1. PICK k \in 1..Len(s) :
              /\ s[k] = e
              /\ DOMAIN Without(s, e) = 1..(Len(s) - 1)
              /\ \A i \in 1..(Len(s) - 1) :
                    Without(s, e)[i] = IF i < k THEN s[i] ELSE s[i + 1]
    BY <1>2, WithoutShifts
  <2>2. Len(s) \in Nat /\ DOMAIN s = 1..Len(s)
    BY LenProperties
  <2> DEFINE g(i) == IF i < k THEN i ELSE i + 1
  <2>3. ASSUME NEW i \in 1..(Len(s) - 1)
        PROVE  g(i) \in DOMAIN s /\ g(i) # k /\ Without(s, e)[i] = s[g(i)]
    BY <2>1, <2>2, <2>3
  <2>4. IsInjective(Without(s, e))
    <3> SUFFICES ASSUME NEW i \in 1..(Len(s) - 1), NEW j \in 1..(Len(s) - 1),
                        Without(s, e)[i] = Without(s, e)[j]
                 PROVE  i = j
      BY <2>1 DEF IsInjective
    <3>1. g(i) = g(j)
      <4> HIDE DEF g
      <4> QED
        BY <2>3 DEF IsInjective
    <3> QED
      BY <2>1, <2>2, <3>1
  <2>5. ASSUME NEW i \in 1..(Len(s) - 1) PROVE Without(s, e)[i] \in Range(s) \ {e}
    <3> HIDE DEF g
    <3>1. s[g(i)] # s[k] /\ g(i) \in DOMAIN s
      BY <2>2, <2>3 DEF IsInjective
    <3> QED
      BY <2>1, <2>3, <3>1 DEF Range
  <2>6. Range(Without(s, e)) \subseteq Range(s) \ {e}
    BY <2>1, <2>5 DEF Range
  <2> QED
    BY <2>4, <2>6, WithoutType
<1> QED
  BY <1>1, <1>2

LEMMA OrderApart ==
    ASSUME NEW T, NEW s \in SetToSeqs(T)
    PROVE  IsInjective(s)
BY DEF SetToSeqs, IsInjective
-----------------------------------------------------------------------------
(* Nothing dangles: the events. *)

\* The queue loses events, and no connection goes.
LEMMA EventFrame ==
    ASSUME EventInv, TypeOK', IsInjective(active'), Range(active') \subseteq Range(active),
           armed' => armed, LiveConns \subseteq LiveConns'
    PROVE  EventInv'
BY DEF EventInv

\* A step that leaves the event base alone.
LEMMA EventStill ==
    ASSUME EventInv, TypeOK', UNCHANGED <<active, armed>>, LiveConns \subseteq LiveConns'
    PROVE  EventInv'
BY DEF EventInv

\* The event at the head of the queue is taken to run it.
LEMMA EventRuns ==
    ASSUME EventInv, TypeOK', NEW e, Running(e), active' = Tail(active), armed' = armed,
           LiveConns \subseteq LiveConns'
    PROVE  EventInv'
<1>1. active \in Seq(Event) /\ active # <<>>
  BY DEF EventInv, TypeOK, Running
<1>2. IsInjective(active') /\ Range(active') \subseteq Range(active)
  BY <1>1, TailApart DEF EventInv
<1> QED
  BY <1>2, EventFrame

\* Closing every connection frees none.
LEMMA AllClosingLive ==
    ASSUME conn' = AllConnsClosing
    PROVE  LiveConns \subseteq LiveConns'
BY DEF AllConnsClosing, LiveConns, InPhase

LEMMA UserEvents == EventInv /\ TypeOK' /\ UserStep => EventInv'
<1> SUFFICES ASSUME EventInv, TypeOK', UserStep PROVE EventInv'
  OBVIOUS
<1>1. ASSUME NEW batch \in Batches, StartDownloading(batch) PROVE EventInv'
  <2> DEFINE a == Activate(active, ConnectEvent)
  <2>1. active \in Seq(Event) /\ IsInjective(active) /\ ConnectEvent \in Event
    BY DEF EventInv, TypeOK, Event
  <2>2. a \in Seq(Event) /\ IsInjective(a) /\ Range(a) = Range(active) \cup {ConnectEvent}
    BY <2>1, ActivateApart
  <2>3. active' = Without(a, TimeoutEvent) /\ conn' = conn
    BY <1>1 DEF StartDownloading, netVars
  <2> HIDE DEF a
  <2>4. IsInjective(active') /\ Range(active') \subseteq Range(a) \ {TimeoutEvent}
    BY <2>2, <2>3, WithoutApart
  <2>5. LiveConns' = LiveConns
    BY <2>3 DEF LiveConns
  <2>6. Range(active') \cap Conns \subseteq LiveConns'
    BY <2>2, <2>4, <2>5, ConstantsAssumption DEF EventInv
  <2> QED
    BY <2>4, <2>6 DEF EventInv
<1>2. CASE GetWithoutWaiting \/ GetByWaiting
  <2>1. UNCHANGED <<active, armed, conn>>
    BY <1>2 DEF GetWithoutWaiting, GetByWaiting, loopVars, netVars
  <2> QED
    BY <2>1, EventStill DEF LiveConns
<1>3. CASE DestroyClient
  BY <1>3, EventStill, AllClosingLive DEF DestroyClient
<1> QED
  BY <1>1, <1>2, <1>3 DEF UserStep

\* Sockets that are readable and an expired timeout join the queue.
LEMMA PollEvents ==
    ASSUME EventInv, TypeOK', NEW expired \in BOOLEAN, PollSome(expired)
    PROVE  EventInv'
<1>1. PICK sockets \in SUBSET (LiveConns \ Range(active)) : Poll(sockets, expired)
  BY DEF PollSome
<1> DEFINE last == IF expired THEN <<TimeoutEvent>> ELSE <<>>
<1>2. PICK order \in SetToSeqs(sockets) : active' = (active \o order) \o last
  BY <1>1 DEF Poll
<1>3. /\ active \in Seq(Event) /\ IsInjective(active)
      /\ sockets \subseteq Conns /\ sockets \subseteq LiveConns
      /\ sockets \cap Range(active) = {}
      /\ LiveConns' = LiveConns /\ armed' = (armed /\ ~expired) /\ (expired => armed)
  BY <1>1 DEF EventInv, TypeOK, LiveConns, Poll, netVars
<1>4. order \in Seq(Event) /\ Range(order) = sockets /\ IsInjective(order)
  <2>1. IsFiniteSet(sockets) /\ sockets \in SUBSET Event
    BY <1>3, FS_Subset, ConstantsAssumption DEF Event
  <2> QED
    BY <2>1, OrderType, OrderApart
<1>5. /\ active \o order \in Seq(Event) /\ IsInjective(active \o order)
      /\ Range(active \o order) = Range(active) \cup sockets
  BY <1>3, <1>4, ConcatApart
<1>6. /\ last \in Seq(Event) /\ IsInjective(last)
      /\ Range(last) = IF expired THEN {TimeoutEvent} ELSE {}
  <2>1. /\ <<TimeoutEvent>> \in Seq(Event) /\ Range(<<TimeoutEvent>>) = {TimeoutEvent}
        /\ IsInjective(<<TimeoutEvent>>)
    BY DEF Event, Range, IsInjective
  <2>2. <<>> \in Seq(Event) /\ Range(<<>>) = {} /\ IsInjective(<<>>)
    BY DEF Range, IsInjective
  <2> QED
    BY <2>1, <2>2
<1> DEFINE first == active \o order
<1> HIDE DEF first, last
<1>7. expired => TimeoutEvent \notin Range(first)
  BY <1>3, <1>5, ConstantsAssumption DEF EventInv, first
<1>8. /\ first \in Seq(Event) /\ IsInjective(first) /\ Range(first) = Range(active) \cup sockets
      /\ Range(first) \cap Range(last) = {} /\ active' = first \o last
  BY <1>2, <1>5, <1>6, <1>7 DEF first
<1>9. IsInjective(active') /\ Range(active') = (Range(active) \cup sockets) \cup Range(last)
  BY <1>6, <1>8, ConcatApart
<1>10. armed' => TimeoutEvent \notin Range(active')
  BY <1>3, <1>6, <1>9, ConstantsAssumption DEF EventInv
<1>11. Range(active') \cap Conns \subseteq LiveConns'
  BY <1>3, <1>6, <1>9, ConstantsAssumption DEF EventInv
<1> QED
  BY <1>9, <1>10, <1>11 DEF EventInv

LEMMA LoopEvents == EventInv /\ TypeOK' /\ LoopStep => EventInv'
<1> SUFFICES ASSUME EventInv, TypeOK', LoopStep PROVE EventInv'
  OBVIOUS
<1>1. CASE PollAgain \/ LeaveLoop \/ TimerCrashes
  <2>1. UNCHANGED <<active, armed, conn>>
    BY <1>1 DEF PollAgain, LeaveLoop, TimerCrashes, Crash, netVars
  <2> QED
    BY <2>1, EventStill DEF LiveConns
<1>2. CASE TimerIdle
  BY <1>2, EventRuns DEF TimerIdle, netVars, LiveConns
<1>3. CASE TimerEndsStreams
  BY <1>3, EventRuns, AllClosingLive DEF TimerEndsStreams
<1>4. ASSUME NEW c \in Conns, ReadSocket(c) PROVE EventInv'
  BY <1>4, EventRuns DEF ReadSocket, netVars, LiveConns
<1> QED
  BY <1>1, <1>2, <1>3, <1>4, PollEvents DEF LoopStep

LEMMA ConnectEvents == EventInv /\ TypeOK' /\ ConnectStep => EventInv'
<1> SUFFICES ASSUME EventInv, TypeOK', ConnectStep PROVE EventInv'
  OBVIOUS
<1>1. CASE RunConnectEvent
  BY <1>1, EventRuns DEF RunConnectEvent, netVars, LiveConns
<1>2. CASE ~RunConnectEvent
  <2>1. UNCHANGED <<active, armed>>
    BY <1>2 DEF ConnectStep, QueueDrained, QuicConnectRefused, QuicConnectFails,
                QuicConnectShared, QuicConnectNew, loopVars
  <2>2. \/ conn' = conn
        \/ \E c \in Conns : \E v : v.phase = "handshake" /\ conn' = [conn EXCEPT ![c] = v]
    BY <1>2 DEF ConnectStep, QueueDrained, QuicConnectRefused, QuicConnectFails,
                QuicConnectShared, QuicConnectNew, netVars
  <2>3. LiveConns \subseteq LiveConns'
    BY <2>2 DEF LiveConns, EventInv, TypeOK
  <2> QED
    BY <2>1, <2>3, EventStill
<1> QED
  BY <1>1, <1>2

LEMMA ConnsEvents == EventInv /\ TypeOK' /\ ConnsStep => EventInv'
<1> SUFFICES ASSUME EventInv, TypeOK', ConnsStep PROVE EventInv'
  OBVIOUS
<1>1. ASSUME NEW c \in Conns, OnConnClosed(c) PROVE EventInv'
  <2>1. /\ active' = Without(active, c) /\ armed' = armed
        /\ conn' = [conn EXCEPT ![c] = AbsentConn]
    BY <1>1 DEF OnConnClosed, ActiveAfterClose
  <2>2. active \in Seq(Event) /\ IsInjective(active)
    BY DEF EventInv, TypeOK
  <2>3. IsInjective(active') /\ Range(active') \subseteq Range(active) \ {c}
    BY <2>1, <2>2, WithoutApart
  <2>4. LiveConns \ {c} \subseteq LiveConns'
    BY <2>1 DEF LiveConns, EventInv, TypeOK
  <2> QED
    BY <2>1, <2>3, <2>4 DEF EventInv
<1>2. ASSUME NEW r \in Requests, NEW url \in RedirectTo, OnReadRedirect(r, url) PROVE EventInv'
  <2>1. active' = Activate(active, ConnectEvent) /\ armed' = armed /\ conn' = conn
    BY <1>2 DEF OnReadRedirect
  <2>2. active \in Seq(Event) /\ IsInjective(active) /\ ConnectEvent \in Event
    BY DEF EventInv, TypeOK, Event
  <2>3. IsInjective(active') /\ Range(active') = Range(active) \cup {ConnectEvent}
    BY <2>1, <2>2, ActivateApart
  <2>4. ConnectEvent # TimeoutEvent /\ LiveConns' = LiveConns
    BY <2>1 DEF ConnectEvent, TimeoutEvent, LiveConns
  <2> QED
    BY <2>1, <2>3, <2>4, ConstantsAssumption DEF EventInv
<1>3. ASSUME NEW c \in Conns, OnHandshake(c, TRUE) \/ OnHandshake(c, FALSE) \/ ConnLost(c)
      PROVE  EventInv'
  <2>1. /\ UNCHANGED <<active, armed>> /\ conn[c].phase # "absent"
        /\ conn' = [conn EXCEPT ![c] = InPhase(c, "up")]
           \/ conn' = [conn EXCEPT ![c] = InPhase(c, "closing")]
    BY <1>3 DEF OnHandshake, ConnLost, loopVars
  <2>2. conn \in [Conns -> ConnRecord] /\ conn'[c].phase # "absent"
        /\ \A d \in Conns : d # c => conn'[d] = conn[d]
    BY <2>1 DEF EventInv, TypeOK, InPhase
  <2>3. LiveConns \subseteq LiveConns'
    BY <2>2 DEF LiveConns
  <2> QED
    BY <2>1, <2>3, EventStill
<1>4. ASSUME UNCHANGED <<active, armed, conn>> PROVE EventInv'
  BY <1>4, EventStill DEF LiveConns
<1>5. CASE PacketsOutFail \/ ConnsReturn
  BY <1>4, <1>5 DEF PacketsOutFail, ConnsReturn, netVars
<1>6. ASSUME NEW r \in Requests,
             \/ StreamReset(r) \/ OnNewStream(r) \/ OnWriteHeader(r) \/ OnWriteShutdown(r)
             \/ \E code \in Codes : OnReadAnswer(r, code)
             \/ OnReadError(r) \/ OnReadBadHeader(r) \/ OnReadOverflow(r) \/ OnReadEarlyFin(r)
             \/ OnStreamClose(r)
      PROVE  EventInv'
  BY <1>4, <1>6 DEF StreamReset, OnNewStream, OnWriteHeader, OnWriteShutdown, OnReadAnswer,
         OnReadError, OnReadBadHeader, OnReadOverflow, OnReadGivesUp, OnReadEarlyFin,
         OnStreamClose, Crash, loopVars
<1> QED
  BY <1>1, <1>2, <1>3, <1>5, <1>6 DEF ConnsStep

LEMMA EventInit == Init => EventInv
<1> SUFFICES ASSUME Init PROVE EventInv
  OBVIOUS
<1>1. active = <<>> /\ ~armed
  BY DEF Init
<1>2. IsInjective(active) /\ Range(active) = {}
  BY <1>1 DEF IsInjective, Range
<1> QED
  BY <1>1, <1>2, TypeInit DEF EventInv

LEMMA EventStep == EventInv /\ [Next]_vars => EventInv'
<1> SUFFICES ASSUME EventInv, [Next]_vars PROVE EventInv'
  OBVIOUS
<1>1. TypeOK'
  BY TypeStep DEF EventInv
<1>2. CASE UNCHANGED vars
  BY <1>1, <1>2, EventStill DEF vars, loopVars, netVars, LiveConns
<1> QED
  BY <1>1, <1>2, UserEvents, LoopEvents, ConnectEvents, ConnsEvents
     DEF Next, EngineStep, Finished

\* No stream points to a connection that http_client_on_conn_closed freed, and
\* libevent never runs the read event of one: event_free takes the event off the
\* queue, which holds it at most once, whatever was readable when the connection died.
THEOREM NothingLeftDangling == Spec => []NothingDangles
<1>1. CountInv /\ EventInv => NothingDangles
  <2> SUFFICES ASSUME CountInv, EventInv, NEW r \in Requests, stream[r].phase # "absent"
               PROVE  stream[r].conn \in LiveConns
    BY DEF NothingDangles, EventInv
  <2>1. CASE r \in Listed
    BY <2>1 DEF CountInv, StreamsOnConns
  <2>2. CASE r \in Attaching
    BY <2>2 DEF CountInv, HeldByQuicConnect, LiveConns
  <2> QED
    BY <2>1, <2>2 DEF Listed, Attaching
<1> QED
  BY <1>1, CountInit, CountStep, EventInit, EventStep, PTL DEF Spec
-----------------------------------------------------------------------------
(* Connections and their ports. *)

\* Connections change their phase at most, no port is taken or returned, and a
\* closed engine stays closed.
SameConns ==
    /\ freePorts' = freePorts /\ (isClosed => isClosed')
    /\ LiveConns' = LiveConns
    /\ \A c \in LiveConns : conn'[c].host = conn[c].host /\ conn'[c].port = conn[c].port

LEMMA SameWhenUnchanged ==
    ASSUME UNCHANGED <<freePorts, conn>>, isClosed => isClosed'
    PROVE  SameConns
BY DEF SameConns, LiveConns

\* Every step but the opening and the end of a connection is of that kind.
LEMMA ConnClasses ==
    ASSUME TypeOK, [Next]_vars
    PROVE  \/ SameConns
           \/ \E r \in Requests, url \in Urls : QuicConnectFails(r, url)
           \/ \E r \in Requests, url \in Urls, c \in Conns : QuicConnectNew(r, url, c)
           \/ \E c \in Conns : OnConnClosed(c)
<1>1. CASE UNCHANGED vars
  BY <1>1, SameWhenUnchanged DEF vars, engineVars, netVars
<1>2. CASE UserStep
  <2>1. CASE ~DestroyClient
    <3>1. UNCHANGED <<freePorts, conn, isClosed>>
      BY <1>2, <2>1 DEF UserStep, StartDownloading, GetWithoutWaiting, GetByWaiting,
                        engineVars, netVars
    <3> QED
      BY <3>1, SameWhenUnchanged
  <2>2. CASE DestroyClient
    BY <2>2 DEF DestroyClient, SameConns, AllConnsClosing, InPhase, LiveConns, engineVars
  <2> QED
    BY <2>1, <2>2
<1>3. CASE LoopStep
  <2>1. CASE ~TimerEndsStreams
    <3>1. UNCHANGED <<freePorts, conn>>
      BY <1>3, <2>1 DEF LoopStep, PollSome, Poll, PollAgain, LeaveLoop, TimerIdle, TimerCrashes,
                        Crash, ReadSocket, netVars
    <3>2. isClosed => isClosed'
      BY <1>3, <2>1 DEF LoopStep, PollSome, Poll, PollAgain, LeaveLoop, TimerIdle, TimerCrashes,
                        Crash, ReadSocket, ReportEngineError, engineVars
    <3> QED
      BY <3>1, <3>2, SameWhenUnchanged
  <2>2. CASE TimerEndsStreams
    BY <2>2 DEF TimerEndsStreams, SameConns, AllConnsClosing, InPhase, LiveConns
  <2> QED
    BY <2>1, <2>2
<1>4. CASE ConnectStep
  <2>1. ASSUME \/ RunConnectEvent \/ QueueDrained
               \/ \E r \in Requests, url \in Urls :
                     \/ QuicConnectRefused(r, url)
                     \/ \E c \in Conns : QuicConnectShared(r, url, c)
        PROVE  SameConns
    BY <2>1, SameWhenUnchanged DEF RunConnectEvent, QueueDrained, QuicConnectRefused,
                                   QuicConnectShared, engineVars, netVars
  <2> QED
    BY <1>4, <2>1 DEF ConnectStep
<1>5. CASE ConnsStep
  <2>1. ASSUME NEW c \in Conns, OnHandshake(c, TRUE) \/ OnHandshake(c, FALSE) \/ ConnLost(c)
        PROVE  SameConns
    <3>1. /\ freePorts' = freePorts /\ (isClosed => isClosed') /\ conn[c].phase # "absent"
          /\ conn' = [conn EXCEPT ![c] = InPhase(c, "up")]
             \/ conn' = [conn EXCEPT ![c] = InPhase(c, "closing")]
      BY <2>1 DEF OnHandshake, ConnLost, ReportEngineError, engineVars
    <3>2. /\ conn'[c].phase # "absent" /\ conn'[c].host = conn[c].host
          /\ conn'[c].port = conn[c].port
          /\ \A d \in Conns : d # c => conn'[d] = conn[d]
      BY <3>1 DEF TypeOK, InPhase
    <3> QED
      BY <3>1, <3>2 DEF SameConns, LiveConns
  <2>2. CASE PacketsOutFail
    BY <2>2, SameWhenUnchanged DEF PacketsOutFail, ReportEngineError, netVars
  <2>3. CASE ConnsReturn
    BY <2>3, SameWhenUnchanged DEF ConnsReturn, TimerFinish, engineVars
  <2>4. ASSUME NEW r \in Requests,
               \/ StreamReset(r) \/ OnNewStream(r) \/ OnWriteHeader(r) \/ OnWriteShutdown(r)
               \/ OnStreamClose(r)
        PROVE  UNCHANGED <<freePorts, conn, isClosed>>
    BY <2>4 DEF StreamReset, OnNewStream, OnWriteHeader, OnWriteShutdown, OnStreamClose, Crash,
                engineVars
  <2>5. ASSUME NEW r \in Requests,
               \/ \E code \in Codes : OnReadAnswer(r, code)
               \/ \E url \in RedirectTo : OnReadRedirect(r, url)
               \/ OnReadError(r) \/ OnReadBadHeader(r) \/ OnReadOverflow(r) \/ OnReadEarlyFin(r)
        PROVE  UNCHANGED <<freePorts, conn, isClosed>>
    BY <2>5 DEF OnReadAnswer, OnReadRedirect, OnReadError, OnReadBadHeader, OnReadOverflow,
                OnReadGivesUp, OnReadEarlyFin, Crash
  <2> QED
    BY <1>5, <2>1, <2>2, <2>3, <2>4, <2>5, SameWhenUnchanged DEF ConnsStep
<1> QED
  BY <1>1, <1>2, <1>3, <1>4, <1>5 DEF Next, EngineStep, Finished

\* occupy_port takes the first port off the queue.
LEMMA PortTaken ==
    ASSUME TypeOK, IsInjective(freePorts)
    PROVE  /\ RestPorts \in Seq(Ports) /\ IsInjective(RestPorts)
           /\ \/ /\ freePorts = <<>> /\ NextPort = NoPort
                 /\ Range(freePorts) = {} /\ Range(RestPorts) = {}
              \/ /\ NextPort \in Range(freePorts) /\ NextPort \in Ports
                 /\ Range(RestPorts) = Range(freePorts) \ {NextPort}
<1>1. CASE freePorts = <<>>
  BY <1>1 DEF RestPorts, NextPort, IsInjective, Range
<1>2. CASE freePorts # <<>>
  <2>1. freePorts \in Seq(Ports) /\ Head(freePorts) \in Ports
    BY <1>2, HeadTailProperties DEF TypeOK
  <2>2. RestPorts = Tail(freePorts) /\ NextPort = Head(freePorts)
    BY <1>2 DEF RestPorts, NextPort
  <2> QED
    BY <1>2, <2>1, <2>2, TailApart
<1> QED
  BY <1>1, <1>2

LEMMA PortsSame ==
    ASSUME TypeOK, PortsKeptApart, SameConns
    PROVE  PortsKeptApart'
<1>1. {conn[c].port : c \in LiveConns}' = {conn[c].port : c \in LiveConns}
  BY DEF SameConns
<1> QED
  BY <1>1 DEF PortsKeptApart, SameConns

LEMMA PortsFail ==
    ASSUME TypeOK, PortsKeptApart, NEW r, NEW url, QuicConnectFails(r, url)
    PROVE  PortsKeptApart'
<1>1. conn' = conn /\ isClosed' /\ (freePorts' = freePorts \/ freePorts' = RestPorts)
  BY DEF QuicConnectFails, ReportEngineError
<1>2. LiveConns' = LiveConns
  BY <1>1 DEF LiveConns
<1>3. IsInjective(freePorts') /\ Range(freePorts') \subseteq Range(freePorts)
  BY <1>1, PortTaken DEF PortsKeptApart
<1> QED
  BY <1>1, <1>2, <1>3 DEF PortsKeptApart

LEMMA PortsNew ==
    ASSUME TypeOK, PortsKeptApart, NEW r, NEW url, NEW c \in Conns, QuicConnectNew(r, url, c)
    PROVE  PortsKeptApart'
<1>1. /\ conn' = [conn EXCEPT ![c] = [phase |-> "handshake", host |-> url, port |-> NextPort]]
      /\ freePorts' = RestPorts /\ isClosed' = isClosed /\ c \notin LiveConns
  BY DEF QuicConnectNew, LiveConns
<1>2. /\ conn'[c].port = NextPort /\ conn'[c].phase = "handshake"
      /\ \A d \in Conns : d # c => conn'[d] = conn[d]
  BY <1>1 DEF TypeOK
<1>3. LiveConns' = LiveConns \cup {c}
  BY <1>1, <1>2 DEF LiveConns
<1>4. \A d \in LiveConns : d \in Conns /\ d # c /\ conn'[d] = conn[d]
  BY <1>1, <1>2 DEF LiveConns
<1>5. IsInjective(freePorts')
  BY <1>1, PortTaken DEF PortsKeptApart
<1>6. NextPort \notin Range(RestPorts) /\ Range(RestPorts) \subseteq Range(freePorts)
  BY PortTaken DEF PortsKeptApart
<1>7. \A d \in LiveConns' : conn'[d].port \notin Range(freePorts')
  BY <1>1, <1>2, <1>3, <1>4, <1>6 DEF PortsKeptApart
<1>8. \A d \in LiveConns : NextPort # NoPort => conn[d].port # NextPort
  BY PortTaken DEF PortsKeptApart
<1>9. \A d, e \in LiveConns' : conn'[d].port = conn'[e].port /\ conn'[d].port # NoPort => d = e
  BY <1>2, <1>3, <1>4, <1>8 DEF PortsKeptApart
<1>10. {conn'[d].port : d \in LiveConns'} = {conn[d].port : d \in LiveConns} \cup {NextPort}
  BY <1>2, <1>3, <1>4
<1>11. ~isClosed' => Ports = Range(freePorts') \cup ({conn'[d].port : d \in LiveConns'} \ {NoPort})
  BY <1>1, <1>10, PortTaken, ConstantsAssumption DEF PortsKeptApart
<1> QED
  BY <1>5, <1>7, <1>9, <1>11 DEF PortsKeptApart

LEMMA PortsClosed ==
    ASSUME TypeOK, PortsKeptApart, NEW c \in Conns, OnConnClosed(c)
    PROVE  PortsKeptApart'
<1> DEFINE p == conn[c].port
<1>1. /\ conn' = [conn EXCEPT ![c] = AbsentConn] /\ isClosed' = isClosed /\ c \in LiveConns
      /\ freePorts' = IF p = NoPort THEN freePorts ELSE Append(freePorts, p)
  BY DEF OnConnClosed, engineVars, FreedPorts, LiveConns
<1>2. LiveConns' = LiveConns \ {c} /\ \A d \in LiveConns' : conn'[d] = conn[d]
  BY <1>1 DEF TypeOK, LiveConns, AbsentConn
<1>3. p \in Ports \cup {NoPort}
  BY DEF TypeOK, ConnRecord
<1>4. IsInjective(freePorts') /\ Range(freePorts') = Range(freePorts) \cup ({p} \ {NoPort})
  <2>1. CASE p = NoPort
    BY <1>1, <2>1 DEF PortsKeptApart
  <2>2. CASE p # NoPort
    <3>1. p \notin Range(freePorts) /\ freePorts \in Seq(Ports) /\ p \in Ports
      BY <1>1, <1>3, <2>2 DEF PortsKeptApart, TypeOK
    <3>2. IsInjective(freePorts)
      BY DEF PortsKeptApart
    <3> QED
      BY <1>1, <2>2, <3>1, <3>2, AppendApart
  <2> QED
    BY <2>1, <2>2
<1>5. \A d \in LiveConns' : conn[d].port = p => p = NoPort
  BY <1>1, <1>2 DEF PortsKeptApart
<1>6. \A d \in LiveConns' : conn'[d].port \notin Range(freePorts')
  BY <1>2, <1>4, <1>5 DEF PortsKeptApart
<1>7. \A d, e \in LiveConns' : conn'[d].port = conn'[e].port /\ conn'[d].port # NoPort => d = e
  BY <1>2 DEF PortsKeptApart
<1>8. {conn[d].port : d \in LiveConns} = {conn'[d].port : d \in LiveConns'} \cup {p}
  BY <1>1, <1>2
<1>9. ~isClosed' => Ports = Range(freePorts') \cup ({conn'[d].port : d \in LiveConns'} \ {NoPort})
  BY <1>1, <1>4, <1>8 DEF PortsKeptApart
<1> QED
  BY <1>4, <1>6, <1>7, <1>9 DEF PortsKeptApart

\* A configured local port is never in free_ports_queue twice, nor there while a
\* connection uses it, and two connections never share one; and while the engine is
\* open every configured port is in one of these two places: occupy_port and
\* http_client_on_conn_closed lose none.
THEOREM PortsStayApart == Spec => []PortsKeptApart
<1>1. Init => TypeOK /\ PortsKeptApart
  <2> SUFFICES ASSUME Init PROVE PortsKeptApart
    BY TypeInit
  <2>1. LiveConns = {}
    BY DEF Init, LiveConns, AbsentConn
  <2>2. IsInjective(freePorts) /\ Range(freePorts) = Ports
    BY OrderType, OrderApart, ConstantsAssumption DEF Init
  <2> QED
    BY <2>1, <2>2 DEF PortsKeptApart
<1>2. TypeOK /\ PortsKeptApart /\ [Next]_vars => TypeOK' /\ PortsKeptApart'
  BY TypeStep, ConnClasses, PortsSame, PortsFail, PortsNew, PortsClosed
<1> QED
  BY <1>1, <1>2, PTL DEF Spec

\* Without is_one_conn_per_stream find_connection returns the live connection to a
\* host if there is one, so that quic_connect never opens a second.
THEOREM HostsShareConnections == Spec => []OneConnectionPerHost
<1>1. Init => TypeOK /\ OneConnectionPerHost
  BY TypeInit DEF Init, OneConnectionPerHost, LiveConns, AbsentConn
<1>2. TypeOK /\ OneConnectionPerHost /\ [Next]_vars => TypeOK' /\ OneConnectionPerHost'
  <2> SUFFICES ASSUME TypeOK, OneConnectionPerHost, [Next]_vars PROVE OneConnectionPerHost'
    BY TypeStep
  <2>1. CASE SameConns
    BY <2>1 DEF SameConns, OneConnectionPerHost
  <2>2. ASSUME NEW r, NEW url, QuicConnectFails(r, url) PROVE OneConnectionPerHost'
    <3>1. conn' = conn
      BY <2>2 DEF QuicConnectFails
    <3> QED
      BY <3>1 DEF OneConnectionPerHost, LiveConns
  <2>3. ASSUME NEW r, NEW url, NEW c \in Conns, QuicConnectNew(r, url, c)
        PROVE  OneConnectionPerHost'
    <3>1. conn' = [conn EXCEPT ![c] = [phase |-> "handshake", host |-> url, port |-> NextPort]]
      BY <2>3 DEF QuicConnectNew
    <3>2. conn'[c].host = url /\ \A d \in Conns : d # c => conn'[d] = conn[d]
      BY <3>1 DEF TypeOK
    <3>3. LiveConns' \subseteq LiveConns \cup {c}
      BY <3>2 DEF LiveConns
    <3>4. ~Dedicated => \A d \in LiveConns : conn[d].host # url
      BY <2>3, ConstantsAssumption DEF QuicConnectNew, NeedsConnection, Usable, LiveConns
    <3> QED
      BY <3>2, <3>3, <3>4 DEF OneConnectionPerHost, LiveConns
  <2>4. ASSUME NEW c \in Conns, OnConnClosed(c) PROVE OneConnectionPerHost'
    <3>1. conn' = [conn EXCEPT ![c] = AbsentConn]
      BY <2>4 DEF OnConnClosed
    <3>2. LiveConns' \subseteq LiveConns /\ \A d \in LiveConns' : conn'[d] = conn[d]
      BY <3>1 DEF LiveConns, AbsentConn, TypeOK
    <3> QED
      BY <3>2 DEF OneConnectionPerHost
  <2> QED
    BY <2>1, <2>2, <2>3, <2>4, ConnClasses
<1> QED
  BY <1>1, <1>2, PTL DEF Spec
-----------------------------------------------------------------------------
(* Dedicated connections. *)

\* No stream joins a list or starts to attach, none changes its connection.
SameStreams ==
    \A r \in Requests :
        \/ stream'[r].phase = "absent"
        \/ /\ stream'[r].conn = stream[r].conn
           /\ r \in Listed' => r \in Listed
           /\ r \in Attaching' => r \in Attaching

LEMMA AloneSame ==
    ASSUME AloneInv, SameStreams
    PROVE  Alone'
<1>1. \A r \in Listed' : r \in Listed /\ stream'[r].conn = stream[r].conn
  BY DEF SameStreams, Listed
<1>2. \A r \in Attaching' : r \in Attaching /\ stream'[r].conn = stream[r].conn
  BY DEF SameStreams, Attaching
<1>3. Dedicated => \A r \in Attaching' : StreamList(stream[r].conn)' = {}
  BY <1>1, <1>2 DEF AloneInv, Alone, StreamList
<1> QED
  BY <1>1, <1>2, <1>3 DEF AloneInv, Alone, StreamList

\* A stream joins an empty list, and none is attaching any more.
LEMMA AloneInsert ==
    ASSUME AloneInv, NEW r \in Requests, NEW c, Insert(r, c), Dedicated => StreamList(c) = {},
           Attaching \subseteq {r}
    PROVE  Alone'
<1>1. /\ stream'[r].phase \in {"delayed", "created"} /\ stream'[r].conn = c
      /\ \A s \in Requests : s # r => stream'[s] = stream[s]
  BY DEF Insert, AloneInv, CountInv, TypeOK
<1>2. Attaching' = {}
  BY <1>1 DEF Attaching
<1>3. \A s \in Listed' : s # r => s \in Listed /\ s \in Requests /\ stream'[s].conn = stream[s].conn
  BY <1>1 DEF Listed
<1>4. Dedicated => \A s \in Listed' : s # r => stream'[s].conn # c
  BY <1>3 DEF StreamList
<1> QED
  BY <1>1, <1>2, <1>3, <1>4 DEF AloneInv, Alone

LEMMA AloneNew ==
    ASSUME AloneInv, NEW r \in Requests, NEW url, NEW c \in Conns, QuicConnectNew(r, url, c)
    PROVE  Alone'
<1>1. /\ stream'[r].phase = "attaching" /\ stream'[r].conn = c
      /\ \A s \in Requests : s # r => stream'[s] = stream[s]
      /\ ctl = "connect" /\ c \notin LiveConns
  BY DEF QuicConnectNew, NeedsConnection, Connecting, LiveConns, AloneInv, CountInv, TypeOK
<1>2. Attaching' = {r}
  BY <1>1, NothingAttached DEF AloneInv, Attaching
<1>3. \A s \in Listed' : /\ s \in Listed /\ stream'[s].conn = stream[s].conn
                          /\ stream[s].conn # c
  BY <1>1 DEF Listed, AloneInv, CountInv, StreamsOnConns
<1>4. StreamList(c)' = {}
  BY <1>3 DEF StreamList
<1> QED
  BY <1>1, <1>2, <1>3, <1>4 DEF AloneInv, Alone

\* Every step but the three that bring a stream to a connection is of the first kind.
LEMMA StreamClasses ==
    ASSUME TypeOK, [Next]_vars
    PROVE  \/ SameStreams
           \/ \E r \in Requests, url \in Urls, c \in Conns :
                 QuicConnectShared(r, url, c) \/ QuicConnectNew(r, url, c)
           \/ ConnsReturn /\ caller = "quic_connect"
<1>1. ASSUME stream' = stream PROVE SameStreams
  BY <1>1 DEF SameStreams, Listed, Attaching
<1>2. ASSUME NEW r \in Requests, NEW v, stream' = [stream EXCEPT ![r] = v],
             v.phase = "absent"
             \/ (v.phase # "attaching" /\ r \in Listed /\ v.conn = stream[r].conn)
      PROVE  SameStreams
  <2>1. stream'[r] = v /\ \A s \in Requests : s # r => stream'[s] = stream[s]
    BY <1>2 DEF TypeOK
  <2> QED
    BY <1>2, <2>1 DEF SameStreams, Listed, Attaching
<1>3. CASE UNCHANGED vars
  BY <1>1, <1>3 DEF vars, netVars
<1>4. CASE UserStep
  <2>1. stream' = stream
    BY <1>4 DEF UserStep, StartDownloading, GetWithoutWaiting, GetByWaiting, DestroyClient, netVars
  <2> QED
    BY <1>1, <2>1
<1>5. CASE LoopStep
  <2>1. CASE ~TimerEndsStreams
    <3>1. stream' = stream
      BY <1>5, <2>1 DEF LoopStep, PollSome, Poll, PollAgain, LeaveLoop, TimerIdle, TimerCrashes,
                        ReadSocket, netVars
    <3> QED
      BY <1>1, <3>1
  <2>2. CASE TimerEndsStreams
    <3>1. \A r \in Requests : /\ stream'[r].phase = stream[r].phase
                               /\ stream'[r].conn = stream[r].conn
      BY <2>2 DEF TimerEndsStreams, StreamWith
    <3> QED
      BY <3>1 DEF SameStreams, Listed, Attaching
  <2> QED
    BY <2>1, <2>2
<1>6. CASE ConnectStep
  <2>1. ASSUME \/ RunConnectEvent \/ QueueDrained
               \/ \E r \in Requests, url \in Urls :
                     QuicConnectRefused(r, url) \/ QuicConnectFails(r, url)
        PROVE  stream' = stream
    BY <2>1 DEF RunConnectEvent, QueueDrained, QuicConnectRefused, QuicConnectFails, netVars
  <2> QED
    BY <1>1, <1>6, <2>1 DEF ConnectStep
<1>7. CASE ConnsStep
  <2>1. ASSUME \/ \E c \in Conns : \/ OnHandshake(c, TRUE) \/ OnHandshake(c, FALSE) \/ ConnLost(c)
               \/ PacketsOutFail
               \/ ConnsReturn /\ caller # "quic_connect"
        PROVE  stream' = stream
    BY <2>1 DEF OnHandshake, ConnLost, PacketsOutFail, ConnsReturn, netVars
  <2>2. ASSUME NEW c \in Conns, OnConnClosed(c) PROVE SameStreams
    <3>1. \A r \in Requests : stream'[r] = AbsentStream \/ stream'[r] = stream[r]
      BY <2>2 DEF OnConnClosed
    <3> QED
      BY <3>1 DEF SameStreams, AbsentStream, Listed, Attaching
  <2>3. ASSUME NEW r \in Requests, Serving(r) \/ OnNewStream(r), NEW p, p # "attaching",
               NEW i, NEW d, NEW k, stream' = [stream EXCEPT ![r] = StreamWith(r, p, i, d, k)]
        PROVE  SameStreams
    <3>1. r \in Listed
      BY <2>3 DEF Serving, OnNewStream, Created, Listed
    <3>2. StreamWith(r, p, i, d, k).phase = p /\ StreamWith(r, p, i, d, k).conn = stream[r].conn
      BY DEF StreamWith
    <3> QED
      BY <1>2, <2>3, <3>1, <3>2
  <2>4. ASSUME NEW r \in Requests, StreamReset(r) PROVE SameStreams
    <3>1. stream[r].phase # "attaching"
      BY <2>4 DEF StreamReset, Serving, Created, Listed
    <3> QED
      BY <2>3, <2>4, <3>1 DEF StreamReset
  <2>5. ASSUME NEW r \in Requests, OnNewStream(r) PROVE SameStreams
    BY <2>3, <2>5 DEF OnNewStream
  <2>6. ASSUME NEW r \in Requests, OnWriteHeader(r) PROVE SameStreams
    <3>1. PICK d : stream' = [stream EXCEPT ![r] =
                       StreamWith(r, "sent", stream[r].is_read, d, stream[r].closing)]
      BY <2>6 DEF OnWriteHeader
    <3>2. Serving(r)
      BY <2>6 DEF OnWriteHeader
    <3> QED
      BY <2>3, <3>1, <3>2
  <2>7. ASSUME NEW r \in Requests, OnWriteShutdown(r) PROVE SameStreams
    BY <2>3, <2>7 DEF OnWriteShutdown
  <2>8. ASSUME NEW r \in Requests, Reading(r),
               EndOfRead(r) \/ \E code, closes : OnReadGivesUp(r, code, closes)
        PROVE  SameStreams
    <3>1. Serving(r) /\ stream[r].phase = "reading"
      BY <2>8 DEF Reading
    <3>2. CASE EndOfRead(r)
      BY <2>3, <3>1, <3>2 DEF EndOfRead
    <3>3. ASSUME NEW code, NEW closes, OnReadGivesUp(r, code, closes) PROVE SameStreams
      BY <2>3, <3>1, <3>3 DEF OnReadGivesUp
    <3> QED
      BY <2>8, <3>2, <3>3
  <2>9. ASSUME NEW r \in Requests,
               \/ \E code \in Codes : OnReadAnswer(r, code)
               \/ \E url \in RedirectTo : OnReadRedirect(r, url)
               \/ OnReadError(r) \/ OnReadBadHeader(r) \/ OnReadOverflow(r)
        PROVE  SameStreams
    <3>1. Reading(r)
      BY <2>9 DEF OnReadAnswer, OnReadRedirect, OnReadError, OnReadBadHeader, OnReadOverflow,
                  OnReadGivesUp
    <3>2. EndOfRead(r) \/ \E code, closes : OnReadGivesUp(r, code, closes)
      BY <2>9 DEF OnReadAnswer, OnReadRedirect, OnReadError, OnReadBadHeader, OnReadOverflow
    <3> QED
      BY <2>8, <3>1, <3>2
  <2>10. ASSUME NEW r \in Requests, OnReadEarlyFin(r) \/ OnStreamClose(r) PROVE SameStreams
    <3>1. stream' = stream \/ stream' = [stream EXCEPT ![r] = AbsentStream]
      BY <2>10 DEF OnReadEarlyFin, OnStreamClose, netVars
    <3>2. AbsentStream.phase = "absent"
      BY DEF AbsentStream
    <3> QED
      BY <1>1, <1>2, <3>1, <3>2
  <2> QED
    BY <1>1, <1>7, <2>1, <2>2, <2>4, <2>5, <2>6, <2>7, <2>9, <2>10 DEF ConnsStep
<1> QED
  BY <1>3, <1>4, <1>5, <1>6, <1>7 DEF Next, EngineStep, Finished

LEMMA AloneStep == AloneInv /\ [Next]_vars => AloneInv'
<1> SUFFICES ASSUME AloneInv, [Next]_vars PROVE AloneInv'
  OBVIOUS
<1>1. CountInv' /\ TypeOK
  BY CountStep DEF AloneInv, CountInv
<1>2. CASE SameStreams
  BY <1>1, <1>2, AloneSame DEF AloneInv, Alone
<1>3. ASSUME NEW r \in Requests, NEW url, NEW c \in Conns, QuicConnectShared(r, url, c)
      PROVE  AloneInv'
  <2>1. Insert(r, c) /\ (Dedicated => StreamList(c) = {}) /\ ctl = "connect"
    BY <1>3 DEF QuicConnectShared, Usable, Connecting
  <2> QED
    BY <1>1, <2>1, AloneInsert, NothingAttached DEF AloneInv, Alone
<1>4. CASE ConnsReturn /\ caller = "quic_connect"
  <2>1. PICK r \in Requests : stream[r].phase = "attaching" /\ Insert(r, stream[r].conn)
    BY <1>4 DEF ConnsReturn
  <2>2. Attaching \subseteq {r} /\ r \in Attaching
    BY <2>1 DEF AloneInv, CountInv, HeldByQuicConnect, Attaching
  <2>3. Dedicated => StreamList(stream[r].conn) = {}
    BY <2>2 DEF AloneInv, Alone
  <2> QED
    BY <1>1, <2>1, <2>2, <2>3, AloneInsert DEF AloneInv
<1> QED
  BY <1>1, <1>2, <1>3, <1>4, StreamClasses, AloneNew DEF AloneInv, Alone

\* With is_one_conn_per_stream a connection never carries two streams, although
\* find_connection reuses one as soon as its stream_list is empty and the stream of a
\* new connection joins that list only after the process_conns call in between.
THEOREM StreamsStayAlone == Spec => []OneStreamPerConnection
<1>1. Init => AloneInv
  BY CountInit DEF AloneInv, Alone, Init, Listed, Attaching, AbsentStream
<1>2. AloneInv => OneStreamPerConnection
  <2> SUFFICES ASSUME AloneInv, Dedicated, NEW c \in Conns
               PROVE  Cardinality(StreamList(c)) <= 1
    BY DEF OneStreamPerConnection
  <2>1. CASE StreamList(c) = {}
    BY <2>1, FS_EmptySet
  <2>2. CASE StreamList(c) # {}
    <3>1. PICK r : StreamList(c) = {r}
      BY <2>2 DEF AloneInv, Alone, StreamList
    <3> QED
      BY <3>1, FS_Singleton
  <2> QED
    BY <2>1, <2>2
<1> QED
  BY <1>1, <1>2, AloneStep, PTL DEF Spec
=============================================================================
