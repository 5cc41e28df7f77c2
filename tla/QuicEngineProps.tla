--------------------------- MODULE QuicEngineProps --------------------------
(* What the engine of QuicEngine promises its user and itself.             *)
EXTENDS QuicEngine

\* Every variable stays in its domain.
TypeOK ==
    /\ ctl \in Places /\ caller \in Callers
    /\ active \in Seq(Event)
    /\ breaking \in BOOLEAN /\ armed \in BOOLEAN /\ isClosed \in BOOLEAN
    /\ queue \in Seq([req : Requests, url : Urls])
    /\ count \in Int
    /\ output \in Seq(Output)
    /\ freePorts \in Seq(Ports) /\ bound \subseteq Ports
    /\ conn \in [Conns -> ConnRecord]
    /\ stream \in [Requests -> StreamRecord]
    /\ accepted \subseteq Requests
    /\ delivered \in Seq(Output)
    /\ reply \in {"none", "null", "result"}
    /\ redirects \in Nat

\* reading_streams_count covers every stream whose result is still owed: the
\* unsigned counter never passes below zero, and get_download_result and
\* on_timeout, which take a zero for "nothing to wait for", never overlook one.
CountCoversUnread == count >= Cardinality(Unread)

\* The entries about r in a queue, a stack or a history of results.
EntriesFor(s, r) == Cardinality({i \in DOMAIN s : s[i].req = r})

\* A stream, or the quic_connect call that will insert one, works for r.
OnStream(r) == stream[r].has_data \/ stream[r].phase = "attaching"

\* Where the answer to a request may be, with how many copies of it.
Copies(r) ==
    EntriesFor(queue, r) + (IF OnStream(r) THEN 1 ELSE 0)
    + EntriesFor(output, r) + EntriesFor(delivered, r)

\* A request is in at most one place (queued, on a stream, on the output stack,
\* handed out), once, whatever order timeouts, resets and answers come in: no
\* request is answered twice, and none is answered and then tried again.
OneOutcome == \A r \in Requests : Copies(r) <= (IF r \in accepted THEN 1 ELSE 0)

\* No port is free twice, none is both free and used by a connection, and only
\* sockets bound to it explain why a port is neither.
PortsKeptApart ==
    /\ IsInjective(freePorts)
    /\ \A c \in LiveConns : conn[c].port \notin Range(freePorts)
    /\ \A c, d \in LiveConns : conn[c].port = conn[d].port /\ conn[c].port # NoPort => c = d
    /\ ~isClosed => Ports = Range(freePorts) \cup ({conn[c].port : c \in LiveConns} \ {NoPort})

\* Without is_one_conn_per_stream the streams of a host share one connection.
OneConnectionPerHost ==
    ~Dedicated => \A c, d \in LiveConns : conn[c].host = conn[d].host => c = d

\* With is_one_conn_per_stream a connection never carries two streams, although
\* connections are reused as soon as their list is empty.
OneStreamPerConnection == Dedicated => \A c \in Conns : Cardinality(StreamList(c)) <= 1

\* Nothing points to a connection that was freed: no stream, whichever of
\* on_close and the death of the connection comes first, and no activated event.
NothingDangles ==
    /\ \A r \in Requests : stream[r].phase # "absent" => stream[r].conn \in LiveConns
    /\ Range(active) \cap Conns \subseteq LiveConns

\* A request in the queue has an activated connect event that will serve it, even
\* when a loopbreak ended the call that queued it: no wakeup is lost.
NoLostWakeup ==
    ctl \in {"app", "poll", "run"} /\ queue # <<>> => ConnectEvent \in Range(active)

\* The engine keeps the promises of DownloadService.
Service == INSTANCE DownloadService WITH
    asked   <- accepted,
    answers <- [i \in DOMAIN delivered |-> delivered[i].req],
    open    <- ~isClosed,
    waiting <- ctl \in {"poll", "run", "connect"}
               \/ (ctl \in {"conns", "crashed"} /\ caller # "destroy_engine")

ImplementsService == Service!Spec
-----------------------------------------------------------------------------
(* Why the count covers the unread streams: the inductive invariant. *)

Attaching == {r \in Requests : stream[r].phase = "attaching"}

\* The stream that quic_connect holds is alone, and its connection cannot close.
HeldByQuicConnect ==
    /\ \A r, s \in Attaching : r = s
    /\ \A r \in Attaching : /\ ctl \in {"conns", "crashed"} /\ caller = "quic_connect"
                            /\ stream[r].conn \in Conns
                            /\ conn[stream[r].conn].phase = "handshake"

StreamsOnConns == \A r \in Listed : stream[r].conn \in LiveConns

\* A stream whose end was processed is about to leave its list.
ReadIsClosing ==
    \A r \in Listed : stream[r].is_read =>
        stream[r].closing \/ conn[stream[r].conn].phase = "closing"

DelayedNotClosed == \A r \in Requests : stream[r].phase = "delayed" => ~stream[r].closing

\* Outside process_conns nothing is closing.
Settled ==
    ctl \in {"app", "poll", "run", "connect"} =>
        /\ \A r \in Requests : ~stream[r].closing
        /\ \A c \in Conns : conn[c].phase # "closing"

\* timer_handler calls process_conns with nothing left to read.
TimerLeavesNone == ctl = "conns" /\ caller = "timer_handler" => Unread = {}

CountInv ==
    /\ TypeOK
    /\ HeldByQuicConnect /\ StreamsOnConns /\ ReadIsClosing /\ DelayedNotClosed
    /\ Settled /\ TimerLeavesNone /\ CountCoversUnread
-----------------------------------------------------------------------------
(* Why no wakeup is lost: the inductive invariant. *)

\* connect_event_handler itself serves the queue, also while one of its quic_connect
\* calls runs process_conns; everybody else relies on the activated event.
Served == \/ ctl = "connect" \/ ctl \in {"crashed", "destroyed"}
          \/ ctl = "conns" /\ caller \in {"quic_connect", "destroy_engine"}

WakeupInv ==
    /\ TypeOK
    /\ Served \/ queue = <<>> \/ ConnectEvent \in Range(active)
-----------------------------------------------------------------------------
(* Why nothing dangles: the inductive invariant of libevent's queue. *)

\* No event is queued twice, the timeout is not queued while it is pending, and
\* only connections that exist have a read event in the queue.
EventInv ==
    /\ TypeOK
    /\ IsInjective(active)
    /\ armed => TimeoutEvent \notin Range(active)
    /\ Range(active) \cap Conns \subseteq LiveConns
-----------------------------------------------------------------------------
(* Why dedicated connections carry one stream: the inductive invariant. *)

\* The connection that quic_connect opens for a stream carries no other.
Alone ==
    Dedicated => /\ \A r, s \in Listed : stream[r].conn = stream[s].conn => r = s
                 /\ \A r \in Attaching : StreamList(stream[r].conn) = {}

AloneInv == CountInv /\ Alone
-----------------------------------------------------------------------------
(* Why a request has one outcome: the inductive invariant. *)

\* A stream whose request was not sent yet still points to its request.
UnsentHasData ==
    \A r \in Listed : ~stream[r].is_read /\ stream[r].phase \in {"delayed", "created"}
        => stream[r].has_data

OutcomeInv == CountInv /\ UnsentHasData /\ OneOutcome

\* Only a closed engine reports errors that concern no request.
EngineErrorsCloseIt == \A i \in DOMAIN output : output[i].req = NoReq => isClosed

ServiceInv == OutcomeInv /\ EngineErrorsCloseIt
-----------------------------------------------------------------------------
(* Promises kept only while the environment spares the engine some failures. *)

\* Nothing fails but what a server answers, and no port is configured that could be taken.
Undisturbed == Faults \subseteq {"httpError"} /\ Ports = {}

\* The program and the servers name urls that parse.
UrlsParse == BadUrl \notin RedirectTo /\ \A r \in Requests : UrlOf[r] # BadUrl

\* engine_structs.h calls the counter "streams that have a connection and between
\* initialized and read state": exactly the unread ones, not more.
CountExact == count = Cardinality(Unread)

Destroying == ctl = "destroyed" \/ (ctl = "conns" /\ caller = "destroy_engine")

\* An accepted request is never forgotten: it is queued, on a stream, on the
\* output stack or handed out, through timeouts and redirects.
RequestsConserved == \A r \in accepted : Destroying \/ Copies(r) = 1

\* get_download_result answers NULL only when nothing is owed any more, but for requests that
\* a redirect has put back into the queue, where a timeout finds nothing to wait for.
NullMeansIdle ==
    ctl = "app" /\ reply = "null" =>
        /\ Unread = {} /\ output = <<>>
        /\ queue # <<>> => redirects > 0
-----------------------------------------------------------------------------
(* Why they are kept: the inductive invariants of an undisturbed engine. *)

\* A stream that was not read is not about to leave its list.
UnreadStayOpen ==
    \A r \in Unread : ~stream[r].closing /\ conn[stream[r].conn].phase # "closing"

\* A loop that was broken has nothing left to read, and no quic_connect breaks one.
BreakLeavesNone ==
    /\ breaking => Unread = {}
    /\ ctl = "connect" \/ (ctl = "conns" /\ caller = "quic_connect") => ~breaking

\* The user holds the thread, or destroys the client, only after all streams were read.
NothingReadByUser == ctl = "app" \/ Destroying => Unread = {}

\* A listed stream points to its request until it was read.
Pointing == \A r \in Listed : stream[r].has_data <=> ~stream[r].is_read

ExactInv ==
    /\ OutcomeInv
    /\ CountExact /\ Pointing /\ UnreadStayOpen /\ BreakLeavesNone /\ NothingReadByUser

\* The engine closes only with its client, and every queued url can be connected to.
OpenForAll == isClosed => ctl = "destroyed"
QueueConnects == \A i \in DOMAIN queue : queue[i].url # BadUrl

ConservedInv == ExactInv /\ OpenForAll /\ QueueConnects /\ RequestsConserved

\* Until a server redirects, requests wait in the queue only before anything else is read,
\* and the connect event runs before the timeout that would break the loop.
ConnectFirst(s) ==
    \A i, j \in DOMAIN s : s[i] = ConnectEvent /\ s[j] = TimeoutEvent => i < j

QueueFirst ==
    queue # <<>> /\ ~Served =>
        Unread = {} /\ (ctl # "app" => ~breaking) /\ ConnectFirst(active)

NullInv ==
    /\ ExactInv /\ EventInv /\ WakeupInv /\ OpenForAll /\ NullMeansIdle
    /\ redirects = 0 => QueueFirst
-----------------------------------------------------------------------------
(* Promises of a run in which TLC finds a failure, and of liveness. *)

\* The failures of a download, its timeout among them, are reported and never end
\* the process.
NeverCrashes == ctl # "crashed"

Returned == ctl \in {"app", "crashed"}

\* The timeout is still to come, or about to run.
Timed == armed \/ TimeoutEvent \in Range(active)

\* get_download_result waits without a timeout, for which there must have been a redirect.
WaitsUntimed == ctl = "poll" /\ ~Timed /\ redirects > 0

\* A get_download_result that waits returns, however silent the servers are, unless it
\* waits without a timeout.
TimedWaitEnds == ctl = "poll" /\ ~WaitsUntimed ~> Returned

\* "try handshake to 0 to end stream by timeout event" (set_lsquic_settings): whatever
\* get_download_result waits for, the timeout event ends the wait.
WaitEnds == ctl = "poll" ~> Returned

\* A program that keeps calling get_download_result gets an answer for each of
\* its requests, unless it comes to wait without a timeout.
EveryRequestAnswered ==
    \A r \in Requests :
        r \in accepted ~> \/ \E i \in DOMAIN delivered : delivered[i].req = r
                          \/ ctl \in {"crashed", "destroyed"}
                          \/ WaitsUntimed
=============================================================================
