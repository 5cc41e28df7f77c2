----------------------------- MODULE QuicEngine -----------------------------
(***************************************************************************)
(* The engine of the QUIC client library (quic_probe): start_downloading   *)
(* and get_download_result of quic_downloader.c, the libevent callbacks    *)
(* they run (connect, timeout, socket readable) and the lsquic callbacks   *)
(* that lsquic_engine_process_conns makes in turn.                         *)
(*                                                                         *)
(* The library is single threaded: ctl says which function holds the       *)
(* thread, and one action is one callback (or one pass of a loop that      *)
(* calls into lsquic).  What the network, lsquic and the kernel decide is  *)
(* a nondeterministic choice; Faults names the failures they may choose.   *)
(* A request's bytes are abstracted to how reading them ends; the address  *)
(* lists are sets, so "the first that matches" is "one that matches".      *)
(***************************************************************************)
EXTENDS Integers, SequencesExt

CONSTANTS
    Requests,     \* download_request structures; each is submitted at most once
    Hosts,        \* host names of well-formed urls
    BadUrl,       \* a url that parse_url rejects
    UrlOf,        \* the host, or BadUrl, in the url_request of each request
    Conns,        \* identities for connection_parameters, reused after free
    Ports,        \* the values in program_args.local_port_numbers
    Dedicated,    \* program_args.is_one_conn_per_stream
    RedirectTo,   \* the hosts (or BadUrl) a 3xx answer may name
    Faults,       \* the failures the environment may produce
    MaxRedirects, \* bound on the 3xx answers of a behaviour
    MaxOutput,    \* bound on the output stack while sendmsg keeps failing
    NoConn, NoHost, NoPort, NoReq

AllFaults == {"dns", "socket", "send", "recv", "decrypt", "handshake",
              "connClose", "reset", "sendHeaders", "badHeader", "overflow",
              "earlyFin", "httpError"}

\* The QUIC_CLIENT_CODE_* values of args_data.h.
Codes == {"OK", "TIMEOUT", "CONNECTION_FAIL", "SOCKET_FAIL",
          "BUFFER_OVERFLOW", "BAD_RESPONSE"}

Urls == Hosts \cup {BadUrl}

\* The two permanent events of the event base; any other is the read event of
\* the connection it is named after.
ConnectEvent == "event_connect_queue_ref"
TimeoutEvent == "event_timeout_ref"

ASSUME ConstantsAssumption ==
    /\ IsFiniteSet(Requests) /\ IsFiniteSet(Conns) /\ IsFiniteSet(Ports)
    /\ UrlOf \in [Requests -> Urls]
    /\ BadUrl \notin Hosts
    /\ RedirectTo \subseteq Urls
    /\ Dedicated \in BOOLEAN
    /\ Faults \subseteq AllFaults
    /\ MaxRedirects \in Nat /\ MaxOutput \in Nat
    /\ NoConn \notin Conns /\ NoHost \notin Hosts
    /\ NoPort \notin Ports /\ NoReq \notin Requests
    /\ ConnectEvent \notin Conns /\ TimeoutEvent \notin Conns

VARIABLES
    ctl,       \* the function that holds the thread, see Places
    caller,    \* who called lsquic_engine_process_conns
    active,    \* libevent's queue of activated events, first to run first
    breaking,  \* event_base_loopbreak was called in this event_base_loop
    armed,     \* event_timeout_ref is pending
    isClosed,  \* quic_engine_shell.is_closed
    queue,     \* quic_engine_shell.request_queue: requests with their url
    count,     \* quic_engine_shell.reading_streams_count
    output,    \* quic_engine_shell.output_stack_ref, top first
    freePorts, \* quic_engine_shell.free_ports_queue
    bound,     \* ports some open descriptor of the process is bound to
    conn,      \* quic_engine_shell.connections and the lsquic side of each
    stream,    \* the stream_parameters_t of each request
    accepted,  \* requests for which start_downloading returned 0
    delivered, \* what get_download_result returned, oldest first
    reply,     \* how the last get_download_result ended
    redirects  \* 3xx answers so far, bounded by MaxRedirects

loopVars   == <<ctl, caller, active, breaking, armed>>
engineVars == <<isClosed, queue, count, output>>
netVars    == <<freePorts, bound, conn, stream>>
userVars   == <<accepted, delivered, reply, redirects>>
vars       == <<loopVars, engineVars, netVars, userVars>>

\* "app": the caller of the library; "poll", "run": event_base_loop waiting and
\* running callbacks; "connect": connect_event_handler draining the queue;
\* "conns": lsquic_engine_process_conns; "crashed", "destroyed": the end.
Places == {"app", "poll", "run", "connect", "conns", "crashed", "destroyed"}

Callers == {"quic_connect", "connect_event_handler", "timer_handler",
            "read_socket_packet", "destroy_engine"}

Event == {ConnectEvent, TimeoutEvent} \cup Conns

Output == [req : Requests \cup {NoReq}, code : Codes]

\* phase "closing": lsquic_conn_close was called, or lsquic gave the connection
\* up, and on_conn_closed has not run yet.
ConnRecord == [phase : {"absent", "handshake", "up", "closing"},
               host : Hosts \cup {NoHost}, port : Ports \cup {NoPort}]

\* phase "attaching": quic_connect holds the stream, not yet in a stream_list;
\* "delayed": in the list, is_created = 0; "created", "sent", "reading": on_new_stream
\* ran, is_header_sent was set, wantread was set.  closing: lsquic_stream_close was
\* called and on_close has not run.  has_data: data_pointer is not NULL.
StreamRecord == [phase : {"absent", "attaching", "delayed", "created", "sent", "reading"},
                 conn : Conns \cup {NoConn}, is_read : BOOLEAN,
                 has_data : BOOLEAN, closing : BOOLEAN]

AbsentConn   == [phase |-> "absent", host |-> NoHost, port |-> NoPort]
AbsentStream == [phase |-> "absent", conn |-> NoConn, is_read |-> FALSE,
                 has_data |-> FALSE, closing |-> FALSE]
-----------------------------------------------------------------------------
(* Helpers over the state. *)

\* event_del of an activated event; the queue holds each event at most once.
Without(s, e) ==
    IF e \in Range(s) THEN RemoveAt(s, CHOOSE i \in DOMAIN s : s[i] = e) ELSE s

\* event_active: an event that is already active is not queued again.
Activate(s, e) == IF e \in Range(s) THEN s ELSE Append(s, e)

LiveConns == {c \in Conns : conn[c].phase # "absent"}

\* Connection c in another phase, and lsquic_conn_close on every connection.
InPhase(c, phase) == [phase |-> phase, host |-> conn[c].host, port |-> conn[c].port]

AllConnsClosing ==
    [c \in Conns |-> IF c \in LiveConns THEN InPhase(c, "closing") ELSE conn[c]]

\* The stream_lists of all connections, and of one.
Listed == {r \in Requests : stream[r].phase \notin {"absent", "attaching"}}
StreamList(c) == {r \in Listed : stream[r].conn = c}

\* The streams whose end nobody has processed yet.
Unread == {r \in Listed : ~stream[r].is_read}

\* Streams on which lsquic ran on_new_stream and has not run on_close.
Created == {r \in Listed : stream[r].phase # "delayed"}

\* The stream of r, on its connection, with new values in the other fields.
StreamWith(r, phase, is_read, has_data, closing) ==
    [phase |-> phase, conn |-> stream[r].conn, is_read |-> is_read,
     has_data |-> has_data, closing |-> closing]

\* lsquic makes on_write and on_read callbacks on r.
Serving(r) == /\ ctl = "conns" /\ r \in Created
              /\ ~stream[r].closing /\ conn[stream[r].conn].phase = "up"

\* report_error: the output goes on top of the stack.
Report(r, code) == output' = Cons([req |-> r, code |-> code], output)

\* report_engine_error
ReportEngineError(code) ==
    /\ Report(NoReq, code)
    /\ isClosed' = TRUE
    /\ breaking' = TRUE

\* Mutation of OneStreamDone: the loop is broken, the stream is not counted off.
OneStreamDoneUncounted ==
    /\ UNCHANGED count
    /\ breaking' = (breaking \/ count = 1)

\* reading_streams_count-- and the loopbreak that follows a count of zero.
OneStreamDone ==
    /\ count' = count - 1
    /\ breaking' = (breaking \/ count = 1)

\* A NULL data_pointer or header_info is dereferenced.
Crash == /\ ctl' = "crashed"
         /\ UNCHANGED <<caller, active, armed, isClosed, queue, freePorts, bound,
                        conn, userVars>>
-----------------------------------------------------------------------------
(* create_client *)

Init ==
    /\ ctl = "app" /\ caller = "destroy_engine"
    /\ active = <<>> /\ breaking = FALSE /\ armed = FALSE
    /\ isClosed = FALSE /\ queue = <<>> /\ count = 0 /\ output = <<>>
    /\ freePorts \in SetToSeqs(Ports) /\ bound = {}
    /\ conn = [c \in Conns |-> AbsentConn]
    /\ stream = [r \in Requests |-> AbsentStream]
    /\ accepted = {} /\ delivered = <<>> /\ reply = "none" /\ redirects = 0
-----------------------------------------------------------------------------
(* The calls of the program that uses the library. *)

\* Mutation of StartDownloading: schedule_engine is not called.
StartDownloadingUntimed(batch) ==
    /\ ctl = "app" /\ ~isClosed
    /\ queue' = queue \o [i \in DOMAIN batch |-> [req |-> batch[i], url |-> UrlOf[batch[i]]]]
    /\ active' = Activate(active, ConnectEvent)
    /\ accepted' = accepted \cup Range(batch)
    /\ reply' = "none"
    /\ UNCHANGED <<ctl, caller, breaking, armed, isClosed, count, output, netVars,
                   delivered, redirects>>

\* One batch.  Each charge_request queues a request and activates the connect
\* event; schedule_engine then re-arms the timeout, which also takes a timeout
\* that fired but has not run yet off the active queue.
StartDownloading(batch) ==
    /\ ctl = "app" /\ ~isClosed
    /\ queue' = queue \o [i \in DOMAIN batch |-> [req |-> batch[i], url |-> UrlOf[batch[i]]]]
    /\ active' = Without(Activate(active, ConnectEvent), TimeoutEvent)
    /\ armed' = TRUE
    /\ accepted' = accepted \cup Range(batch)
    /\ reply' = "none"
    /\ UNCHANGED <<ctl, caller, breaking, isClosed, count, output, netVars,
                   delivered, redirects>>

Batches == UNION {SetToSeqs(S) : S \in SUBSET (Requests \ accepted) \ {{}}}

\* Mutation of ReturnResult: the element stays on the stack.
ReturnResultKept ==
    IF output = <<>>
    THEN reply' = "null" /\ UNCHANGED <<output, delivered>>
    ELSE /\ reply' = "result"
         /\ delivered' = Append(delivered, Head(output))
         /\ UNCHANGED output

\* pull_stack_element and the return to the caller.
ReturnResult ==
    IF output = <<>>
    THEN reply' = "null" /\ UNCHANGED <<output, delivered>>
    ELSE /\ reply' = "result"
         /\ delivered' = Append(delivered, Head(output))
         /\ output' = Tail(output)

\* Mutation of GetWithoutWaiting: the request queue is not looked at.
GetWithoutWaitingQueueIgnored ==
    /\ ctl = "app"
    /\ \/ isClosed /\ reply' = "null" /\ UNCHANGED <<output, delivered>>
       \/ ~isClosed /\ (output # <<>> \/ count = 0) /\ ReturnResult
    /\ UNCHANGED <<loopVars, isClosed, queue, count, netVars, accepted, redirects>>

\* A closed engine, a waiting result or an idle engine: no event_base_loop.
GetWithoutWaiting ==
    /\ ctl = "app"
    /\ \/ isClosed /\ reply' = "null" /\ UNCHANGED <<output, delivered>>
       \/ /\ ~isClosed
          /\ output # <<>> \/ (count = 0 /\ queue = <<>>)
          /\ ReturnResult
    /\ UNCHANGED <<loopVars, isClosed, queue, count, netVars, accepted, redirects>>

\* event_base_loop clears an old loopbreak and starts to wait.
GetByWaiting ==
    /\ ctl = "app" /\ ~isClosed /\ output = <<>>
    /\ count # 0 \/ queue # <<>>
    /\ ctl' = "poll" /\ breaking' = FALSE /\ reply' = "none"
    /\ UNCHANGED <<caller, active, armed, engineVars, netVars, accepted, delivered, redirects>>

\* destroy_client: lsquic_engine_destroy closes every connection, callbacks
\* included, before the queues and the stack are freed.
DestroyClient ==
    /\ ctl = "app"
    /\ ctl' = "conns" /\ caller' = "destroy_engine"
    /\ conn' = AllConnsClosing
    /\ UNCHANGED <<active, breaking, armed, engineVars, freePorts, bound, stream, userVars>>
-----------------------------------------------------------------------------
(* event_base_loop *)

\* The wait ends: sockets that are readable, then an expired timeout, join the
\* events that are active already.
Poll(sockets, expired) ==
    /\ ctl = "poll"
    /\ expired => armed
    /\ active # <<>> \/ sockets # {} \/ expired
    /\ \E order \in SetToSeqs(sockets) :
          active' = active \o order \o (IF expired THEN <<TimeoutEvent>> ELSE <<>>)
    /\ armed' = (armed /\ ~expired)
    /\ ctl' = "run"
    /\ UNCHANGED <<caller, breaking, engineVars, netVars, userVars>>

PollSome(expired) == \E sockets \in SUBSET (LiveConns \ Range(active)) : Poll(sockets, expired)

\* All active events ran and none of them broke the loop.
PollAgain ==
    /\ ctl = "run" /\ active = <<>> /\ ~breaking
    /\ ctl' = "poll"
    /\ UNCHANGED <<caller, active, breaking, armed, engineVars, netVars, userVars>>

\* The loop ends after a loopbreak, or when no event is pending or active.
LeaveLoop ==
    /\ \/ ctl = "run" /\ breaking
       \/ ctl = "poll" /\ active = <<>> /\ ~armed /\ LiveConns = {}
    /\ ctl' = "app"
    /\ ReturnResult
    /\ UNCHANGED <<caller, active, breaking, armed, isClosed, queue, count, netVars,
                   accepted, redirects>>

Running(e) == ctl = "run" /\ ~breaking /\ active # <<>> /\ Head(active) = e
-----------------------------------------------------------------------------
(* connect_event_handler and quic_connect *)

RunConnectEvent ==
    /\ Running(ConnectEvent)
    /\ active' = Tail(active)
    /\ ctl' = "connect"
    /\ UNCHANGED <<caller, breaking, armed, engineVars, netVars, userVars>>

\* Mutation of Connecting: one request is served, the rest of the queue dropped.
ConnectingOnce(r, url) ==
    /\ ctl = "connect" /\ queue # <<>>
    /\ Head(queue) = [req |-> r, url |-> url]
    /\ queue' = <<>>

\* queue_pull_data of the next request
Connecting(r, url) ==
    /\ ctl = "connect" /\ queue # <<>>
    /\ Head(queue) = [req |-> r, url |-> url]
    /\ queue' = Tail(queue)

\* Mutations of Usable: is_one_conn_per_stream is not looked at, or inverted.
UsableAlways(c, host) == conn[c].phase # "absent" /\ conn[c].host = host

UsableInverted(c, host) ==
    /\ conn[c].phase # "absent" /\ conn[c].host = host
    /\ Dedicated \/ StreamList(c) = {}

\* find_connection: same host and, for dedicated connections, no stream on it.
Usable(c, host) ==
    /\ conn[c].phase # "absent" /\ conn[c].host = host
    /\ Dedicated => StreamList(c) = {}

\* A closed engine or a url that does not parse: the request is dropped.
QuicConnectRefused(r, url) ==
    /\ Connecting(r, url)
    /\ isClosed \/ url = BadUrl
    /\ UNCHANGED <<loopVars, isClosed, count, output, netVars, userVars>>

\* Mutation of Insert: only a stream on a connection that is up is counted.
InsertUncounted(r, c) ==
    /\ \E phase \in {"delayed"} \cup (IF conn[c].phase = "up" THEN {"created"} ELSE {}) :
          stream' = [stream EXCEPT ![r] =
              [phase |-> phase, conn |-> c, is_read |-> FALSE, has_data |-> TRUE,
               closing |-> FALSE]]
    /\ count' = IF conn[c].phase = "up" THEN count + 1 ELSE count

\* The stream joins the list of c and lsquic is asked to make it: on_new_stream
\* runs at once on an established connection, or when lsquic gets to it.
Insert(r, c) ==
    /\ \E phase \in {"delayed"} \cup (IF conn[c].phase = "up" THEN {"created"} ELSE {}) :
          stream' = [stream EXCEPT ![r] =
              [phase |-> phase, conn |-> c, is_read |-> FALSE, has_data |-> TRUE,
               closing |-> FALSE]]
    /\ count' = count + 1

QuicConnectShared(r, url, c) ==
    /\ Connecting(r, url) /\ ~isClosed
    /\ Usable(c, url)
    /\ Insert(r, c)
    /\ UNCHANGED <<loopVars, isClosed, output, freePorts, bound, conn, userVars>>

NeedsConnection(r, url) ==
    /\ Connecting(r, url) /\ ~isClosed /\ url # BadUrl
    /\ \A c \in Conns : ~Usable(c, url)

\* The port of occupy_port: the next configured one, or any (port 0).
NextPort == IF freePorts = <<>> THEN NoPort ELSE Head(freePorts)

\* Mutation of RestPorts: the port is looked at and stays in the queue.
RestPortsPeeked == freePorts

RestPorts == IF freePorts = <<>> THEN <<>> ELSE Tail(freePorts)

\* get_sockaddr fails, or open_socket does: it must when the port is still bound,
\* and may after its bind, whose descriptor stays open.
QuicConnectFails(r, url) ==
    /\ NeedsConnection(r, url)
    /\ \/ "dns" \in Faults /\ UNCHANGED <<freePorts, bound>>
       \/ /\ "socket" \in Faults \/ NextPort \in bound
          /\ freePorts' = RestPorts
          /\ \/ UNCHANGED bound
             \/ "socket" \in Faults /\ bound' = bound \cup ({NextPort} \ {NoPort})
    /\ ReportEngineError("SOCKET_FAIL")
    /\ UNCHANGED <<ctl, caller, active, armed, count, conn, stream, userVars>>

\* create_connection and open_new_connection up to the process_conns call that
\* sends the first packet; the stream is inserted when that call returns.
QuicConnectNew(r, url, c) ==
    /\ NeedsConnection(r, url)
    /\ NextPort \notin bound
    /\ conn[c].phase = "absent"
    /\ conn' = [conn EXCEPT ![c] = [phase |-> "handshake", host |-> url, port |-> NextPort]]
    /\ freePorts' = RestPorts
    /\ bound' = bound \cup ({NextPort} \ {NoPort})
    /\ stream' = [stream EXCEPT ![r] =
          [phase |-> "attaching", conn |-> c, is_read |-> FALSE, has_data |-> FALSE,
           closing |-> FALSE]]
    /\ ctl' = "conns" /\ caller' = "quic_connect"
    /\ UNCHANGED <<active, breaking, armed, isClosed, count, output, userVars>>

QueueDrained ==
    /\ ctl = "connect" /\ queue = <<>>
    /\ ctl' = "conns" /\ caller' = "connect_event_handler"
    /\ UNCHANGED <<active, breaking, armed, engineVars, netVars, userVars>>
-----------------------------------------------------------------------------
(* timer_handler *)

\* on_timeout found nothing to end.
TimerIdle ==
    /\ Running(TimeoutEvent) /\ count = 0
    /\ active' = Tail(active) /\ breaking' = TRUE
    /\ ctl' = "conns" /\ caller' = "timer_handler"
    /\ UNCHANGED <<armed, engineVars, netVars, userVars>>

\* run_timeout: every stream of every connection is reported and closed, and
\* every connection is closed.
TimerEndsStreams ==
    /\ Running(TimeoutEvent) /\ count # 0
    /\ \A r \in Listed : stream[r].has_data
    /\ \E order \in SetToSeqs(Listed) :
          output' = [i \in DOMAIN order |-> [req |-> order[i], code |-> "TIMEOUT"]] \o output
    /\ count' = count - Cardinality(Listed)
    /\ stream' = [r \in Requests |->
          IF r \in Listed
          THEN StreamWith(r, stream[r].phase, TRUE, FALSE, stream[r].phase # "delayed")
          ELSE stream[r]]
    /\ conn' = AllConnsClosing
    /\ active' = Tail(active) /\ breaking' = TRUE
    /\ ctl' = "conns" /\ caller' = "timer_handler"
    /\ UNCHANGED <<armed, isClosed, queue, freePorts, bound, userVars>>

\* report_stream_error on a NULL data_pointer; or lsquic_stream_close of a stream
\* that was not created, whose stream_ref malloc left uninitialised: a wild
\* pointer kills the process, or points to memory that looks like a closed
\* stream, which is TimerEndsStreams.
TimerCrashes ==
    /\ Running(TimeoutEvent) /\ count # 0
    /\ \E r \in Listed : ~stream[r].has_data \/ stream[r].phase = "delayed"
    /\ Crash
    /\ UNCHANGED <<breaking, count, output, stream>>

\* The end of timer_handler, after process_conns.
TimerFinish ==
    IF output = <<>> /\ count > 0
    THEN /\ output' = [i \in 1..count |-> [req |-> NoReq, code |-> "TIMEOUT"]]
         /\ isClosed' = TRUE /\ count' = 0
    ELSE UNCHANGED <<output, isClosed, count>>
-----------------------------------------------------------------------------
(* read_socket_packet *)

ReadSocket(c) ==
    /\ Running(c)
    /\ active' = Tail(active)
    /\ \/ /\ "recv" \in Faults
          /\ ReportEngineError("SOCKET_FAIL")
          /\ UNCHANGED <<ctl, caller>>
       \/ /\ "decrypt" \in Faults
          /\ ReportEngineError("CONNECTION_FAIL")
          /\ ctl' = "conns" /\ caller' = "read_socket_packet"
       \/ /\ UNCHANGED <<breaking, isClosed, output>>
          /\ ctl' = "conns" /\ caller' = "read_socket_packet"
    /\ UNCHANGED <<armed, queue, count, netVars, userVars>>
-----------------------------------------------------------------------------
(* lsquic_engine_process_conns: the callbacks it makes before it returns. *)

FromPeer == ctl = "conns" /\ caller = "read_socket_packet"

\* The stream in whose quic_connect call c was opened is not in its list yet.
JustOpened(c) == \E r \in Requests : stream[r].phase = "attaching" /\ stream[r].conn = c

\* http_client_on_connection_handshake; lsquic may give a handshake up by itself.
OnHandshake(c, ok) ==
    /\ ctl = "conns" /\ conn[c].phase = "handshake" /\ ~JustOpened(c)
    /\ \/ /\ ok /\ FromPeer
          /\ conn' = [conn EXCEPT ![c] = InPhase(c, "up")]
          /\ UNCHANGED <<isClosed, output, breaking>>
       \/ /\ ~ok /\ "handshake" \in Faults
          /\ ReportEngineError("CONNECTION_FAIL")
          /\ conn' = [conn EXCEPT ![c] = InPhase(c, "closing")]
    /\ UNCHANGED <<ctl, caller, active, armed, queue, count, freePorts, bound, stream, userVars>>

\* The peer, or lsquic's idle timer, ends an established connection; one that is
\* not established yet fails its handshake.
ConnLost(c) ==
    /\ ctl = "conns" /\ "connClose" \in Faults
    /\ conn[c].phase = "up"
    /\ conn' = [conn EXCEPT ![c] = InPhase(c, "closing")]
    /\ UNCHANGED <<loopVars, engineVars, freePorts, bound, stream, userVars>>

\* The peer resets a stream and lsquic closes it without a read.
StreamReset(r) ==
    /\ FromPeer /\ Serving(r) /\ "reset" \in Faults
    /\ stream' = [stream EXCEPT ![r] =
          StreamWith(r, stream[r].phase, stream[r].is_read, stream[r].has_data, TRUE)]
    /\ UNCHANGED <<loopVars, engineVars, freePorts, bound, conn, userVars>>

\* on_packets_out: sendmsg fails.
PacketsOutFail ==
    /\ ctl = "conns" /\ caller # "destroy_engine" /\ "send" \in Faults
    /\ Len(output) < MaxOutput
    /\ ReportEngineError("SOCKET_FAIL")
    /\ UNCHANGED <<ctl, caller, active, armed, queue, count, netVars, userVars>>

\* http_client_on_new_stream, for a stream lsquic could not make at once
OnNewStream(r) ==
    /\ ctl = "conns" /\ stream[r].phase = "delayed"
    /\ conn[stream[r].conn].phase = "up"
    /\ stream' = [stream EXCEPT ![r] =
          StreamWith(r, "created", FALSE, stream[r].has_data, stream[r].closing)]
    /\ UNCHANGED <<loopVars, engineVars, freePorts, bound, conn, userVars>>

\* http_client_on_write, first call: send_header, which may fail
OnWriteHeader(r) ==
    /\ Serving(r) /\ stream[r].phase = "created"
    /\ \E failed \in BOOLEAN :
          /\ IF failed THEN "sendHeaders" \in Faults /\ Report(r, "SOCKET_FAIL")
                       ELSE UNCHANGED output
          /\ stream' = [stream EXCEPT ![r] = StreamWith(r, "sent", stream[r].is_read,
                                stream[r].has_data /\ ~failed, stream[r].closing)]
    /\ UNCHANGED <<loopVars, isClosed, queue, count, freePorts, bound, conn, userVars>>

\* http_client_on_write, second call: shutdown of the write side, wantread
OnWriteShutdown(r) ==
    /\ Serving(r) /\ stream[r].phase = "sent"
    /\ stream' = [stream EXCEPT ![r] =
          StreamWith(r, "reading", stream[r].is_read, stream[r].has_data, stream[r].closing)]
    /\ UNCHANGED <<loopVars, engineVars, freePorts, bound, conn, userVars>>

\* http_client_on_read past its test of data_pointer.  A call that runs out of
\* data (EWOULDBLOCK) changes nothing modelled here.
Reading(r) == /\ FromPeer /\ Serving(r)
              /\ stream[r].phase = "reading" /\ stream[r].has_data

\* Mutation of EndOfRead: the posted data_pointer is not cleared.
EndOfReadKeepsData(r) ==
    stream' = [stream EXCEPT ![r] = StreamWith(r, stream[r].phase, TRUE, TRUE, TRUE)]

EndOfRead(r) ==
    stream' = [stream EXCEPT ![r] = StreamWith(r, stream[r].phase, TRUE, FALSE, TRUE)]

\* process_finished_stream: a 2xx answer, or one that is neither 2xx nor 3xx
OnReadAnswer(r, code) ==
    /\ Reading(r)
    /\ code = "OK" \/ (code = "BAD_RESPONSE" /\ "httpError" \in Faults)
    /\ Report(r, code)
    /\ EndOfRead(r)
    /\ OneStreamDone
    /\ UNCHANGED <<ctl, caller, active, armed, isClosed, queue, freePorts, bound, conn, userVars>>

\* Mutation of OnReadRedirect: the connect event is not activated.
OnReadRedirectSilent(r, url) ==
    /\ Reading(r) /\ redirects < MaxRedirects
    /\ queue' = Append(queue, [req |-> r, url |-> url])
    /\ EndOfRead(r)
    /\ count' = count - 1
    /\ redirects' = redirects + 1
    /\ UNCHANGED <<ctl, caller, active, breaking, armed, isClosed, output, freePorts, bound,
                   conn, accepted, delivered, reply>>

\* process_finished_stream: a 3xx answer goes back to the request queue
OnReadRedirect(r, url) ==
    /\ Reading(r) /\ redirects < MaxRedirects
    /\ queue' = Append(queue, [req |-> r, url |-> url])
    /\ active' = Activate(active, ConnectEvent)
    /\ EndOfRead(r)
    /\ count' = count - 1
    /\ redirects' = redirects + 1
    /\ UNCHANGED <<ctl, caller, breaking, armed, isClosed, output, freePorts, bound, conn,
                   accepted, delivered, reply>>

\* lsquic_stream_read fails: the stream is closed, the count keeps it.
OnReadError(r) ==
    /\ Reading(r) /\ "reset" \in Faults
    /\ Report(r, "CONNECTION_FAIL")
    /\ EndOfRead(r)
    /\ UNCHANGED <<loopVars, isClosed, queue, count, freePorts, bound, conn, userVars>>

\* read_header or on_read_to_buffer reported the stream and returned -1.  errno
\* is whatever an earlier call left: EWOULDBLOCK ends the callback, any other
\* value, or another pass of the read loop, uses the NULL data_pointer.
OnReadGivesUp(r, code, closes) ==
    /\ Reading(r)
    /\ Report(r, code)
    /\ stream' = [stream EXCEPT ![r] =
          StreamWith(r, stream[r].phase, stream[r].is_read, FALSE, closes)]
    /\ UNCHANGED <<breaking, count>>
    /\ Crash \/ UNCHANGED <<ctl, caller, active, armed, isClosed, queue, freePorts, bound,
                            conn, userVars>>

OnReadBadHeader(r) == "badHeader" \in Faults /\ OnReadGivesUp(r, "BAD_RESPONSE", FALSE)
OnReadOverflow(r)  == "overflow" \in Faults /\ OnReadGivesUp(r, "BUFFER_OVERFLOW", TRUE)

\* The stream ends before its header does: process_finished_stream uses the
\* header_info that does not exist.
OnReadEarlyFin(r) ==
    /\ Reading(r) /\ "earlyFin" \in Faults
    /\ Crash
    /\ UNCHANGED <<breaking, count, output, stream>>

\* http_client_on_stream_close
OnStreamClose(r) ==
    /\ ctl = "conns" /\ r \in Created
    /\ stream[r].closing \/ conn[stream[r].conn].phase = "closing"
    /\ \/ /\ stream[r].is_read
          /\ stream' = [stream EXCEPT ![r] = AbsentStream]
          /\ UNCHANGED <<loopVars, engineVars, freePorts, bound, conn, userVars>>
       \/ /\ ~stream[r].is_read /\ stream[r].has_data
          /\ Report(r, "CONNECTION_FAIL")
          /\ OneStreamDone
          /\ stream' = [stream EXCEPT ![r] = AbsentStream]
          /\ UNCHANGED <<ctl, caller, active, armed, isClosed, queue, freePorts, bound,
                         conn, userVars>>
       \/ /\ ~stream[r].is_read /\ ~stream[r].has_data
          /\ Crash
          /\ UNCHANGED <<breaking, count, output, stream>>

\* Mutation of FreedPorts: a connection without a configured port is not told apart.
FreedPortsUnchecked(c) == Append(freePorts, conn[c].port)

FreedPorts(c) == IF conn[c].port = NoPort THEN freePorts ELSE Append(freePorts, conn[c].port)

\* Mutation of ActiveAfterClose: the read event outlives its connection.
ActiveAfterCloseKept(c) == active

\* event_free of the read event
ActiveAfterClose(c) == Without(active, c)

\* http_client_on_conn_closed, after on_close of the connection's streams.  The
\* socket is shut down, not closed; streams that were never created are freed
\* with the list; the port returns to the queue; the read event is gone.
OnConnClosed(c) ==
    /\ ctl = "conns" /\ conn[c].phase = "closing"
    /\ StreamList(c) \cap Created = {}
    /\ freePorts' = FreedPorts(c)
    /\ stream' = [r \in Requests |-> IF r \in StreamList(c) THEN AbsentStream ELSE stream[r]]
    /\ conn' = [conn EXCEPT ![c] = AbsentConn]
    /\ active' = ActiveAfterClose(c)
    /\ UNCHANGED <<ctl, caller, breaking, armed, engineVars, bound, userVars>>

\* process_conns returns when nothing waits to be closed.
ConnsReturn ==
    /\ ctl = "conns"
    /\ \A r \in Requests : ~stream[r].closing
    /\ \A c \in Conns : conn[c].phase # "closing"
    /\ \/ /\ caller \in {"read_socket_packet", "connect_event_handler"}
          /\ ctl' = "run"
          /\ UNCHANGED <<engineVars, stream>>
       \/ /\ caller = "timer_handler"
          /\ TimerFinish
          /\ ctl' = "run"
          /\ UNCHANGED <<queue, stream>>
       \/ /\ caller = "quic_connect"
          /\ \E r \in Requests : stream[r].phase = "attaching" /\ Insert(r, stream[r].conn)
          /\ ctl' = "connect"
          /\ UNCHANGED <<isClosed, queue, output>>
       \/ /\ caller = "destroy_engine"
          /\ ctl' = "destroyed" /\ isClosed' = TRUE /\ output' = <<>> /\ queue' = <<>>
          /\ UNCHANGED <<count, stream>>
    /\ UNCHANGED <<caller, active, breaking, armed, freePorts, bound, conn, userVars>>
-----------------------------------------------------------------------------
(* The specification. *)

UserStep ==
    \/ \E batch \in Batches : StartDownloading(batch)
    \/ GetWithoutWaiting
    \/ GetByWaiting
    \/ DestroyClient

ConnectStep ==
    \/ RunConnectEvent
    \/ QueueDrained
    \/ \E r \in Requests, url \in Urls :
          \/ QuicConnectRefused(r, url)
          \/ QuicConnectFails(r, url)
          \/ \E c \in Conns : QuicConnectShared(r, url, c) \/ QuicConnectNew(r, url, c)

ConnsStep ==
    \/ \E c \in Conns : OnHandshake(c, TRUE) \/ OnHandshake(c, FALSE) \/ ConnLost(c) \/ OnConnClosed(c)
    \/ PacketsOutFail
    \/ \E r \in Requests :
          \/ StreamReset(r) \/ OnNewStream(r) \/ OnWriteHeader(r) \/ OnWriteShutdown(r)
          \/ \E code \in Codes : OnReadAnswer(r, code)
          \/ \E url \in RedirectTo : OnReadRedirect(r, url)
          \/ OnReadError(r) \/ OnReadBadHeader(r) \/ OnReadOverflow(r) \/ OnReadEarlyFin(r)
          \/ OnStreamClose(r)
    \/ ConnsReturn

LoopStep ==
    \/ PollSome(FALSE) \/ PollSome(TRUE) \/ PollAgain \/ LeaveLoop
    \/ TimerIdle \/ TimerEndsStreams \/ TimerCrashes
    \/ \E c \in Conns : ReadSocket(c)

EngineStep == LoopStep \/ ConnectStep \/ ConnsStep

\* The process ended, or the client was destroyed.
Finished == ctl \in {"crashed", "destroyed"} /\ UNCHANGED vars

Next == UserStep \/ EngineStep \/ Finished

Spec == Init /\ [][Next]_vars

\* A thread inside the library keeps running, and epoll reports a timeout that
\* stays expired: libevent checks the timers in every pass of its loop.
FairSpec == Spec /\ WF_vars(EngineStep) /\ SF_vars(PollSome(TRUE))

\* The program calls get_download_result again and again.
DrainingSpec == FairSpec /\ WF_vars(GetWithoutWaiting) /\ WF_vars(GetByWaiting)
=============================================================================
