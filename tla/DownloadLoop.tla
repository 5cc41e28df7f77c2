---------------------------- MODULE DownloadLoop ----------------------------
(***************************************************************************)
(* downloadfiles of download_ops.c: one attempt to download a video, as    *)
(* two streams (video and audio) or as one file that holds both.  Chunks   *)
(* are asked of the QUIC client library, whose results arrive in any order *)
(* (DownloadService); every packet that arrives moves the playout.         *)
(*                                                                         *)
(* A packet of PacketSize bytes holds one unit of playing time of its      *)
(* track, so that a bitrate is that size for every track in the file.      *)
(***************************************************************************)
EXTENDS Playout, FiniteSets

CONSTANTS
    ChunkMinimum,  \* LEN_CHUNK_MINIMUM
    ChunkFetch,    \* LEN_CHUNK_FETCH
    BufferSeconds, \* metric.playout_buffer_seconds
    MaxTestTime,   \* program_arguments.max_test_time
    Length,        \* playing time of the video, per track
    PacketSize,    \* bytes in a packet, more than one
    LoopFaults,    \* what the library and the server may answer
    MaxNow         \* bound on the time at which the network still lets time pass

\* "cut": an answer ends early; "timeout", "failure": a request fails; "range": a range
\* behind the end of the file is refused; "engine": the whole engine fails.
AllLoopFaults == {"cut", "timeout", "failure", "engine", "range"}

ASSUME LoopAssumption ==
    /\ ChunkMinimum \in Nat \ {0} /\ ChunkFetch \in Nat \ {0}
    /\ BufferSeconds \in Nat /\ BufferSeconds >= ChunkMinimum \* check_buffer_len
    /\ MaxTestTime \in Nat /\ MaxNow \in Nat
    /\ Length \in [Streams -> Nat \ {0}]
    /\ PacketSize \in Nat \ {0, 1}
    /\ LoopFaults \subseteq AllLoopFaults

VARIABLES
    loop,         \* where downloadfiles is, see LoopPlaces
    numofstreams, \* metric.numofstreams
    url,          \* metric.url: the range asked last, and whether more is wanted
    inflight,     \* streams with a request that get_download_result has not returned
    used,         \* buffer.used_size of the request of each stream
    first,        \* process_outputs has not had a result yet
    received,     \* history: the bytes its parser got of each stream, without a gap
    torn,         \* history: streams whose parser got a gap
    cut           \* history: streams that had an answer that ended early

historyVars == <<received, torn, cut>>
loopVars == <<loop, numofstreams, url, inflight, used, first, historyVars>>

\* "idle": before an attempt; "top": the head of the while loop; "get": inside
\* get_download_result; "break": the loop ended; "done": downloadfiles returned;
\* "exited": the parser called exit; "crashed": the process died.
LoopPlaces == {"idle", "top", "get", "break", "done", "exited", "crashed"}

VideoUrl == [range0 : Nat, range1 : Nat, playing : BOOLEAN]
FreshUrl == [range0 |-> 0, range1 |-> 0, playing |-> FALSE]

Indices == {i \in Streams : i < numofstreams}
-----------------------------------------------------------------------------
(* The files. *)

\* A single file holds both tracks.
Tracks(i) == IF numofstreams = 2 THEN {i} ELSE Streams

Bitrate(i) == PacketSize * Cardinality(Tracks(i))

\* A single file alternates the packets of its tracks until the shorter one ends.
FileSize(i) ==
    PacketSize * (IF numofstreams = 2 THEN Length[i] ELSE Length[0] + Length[1])

Shorter == Least(Length)

\* The track of the nth packet of file i, and its timestamp.
TrackOf(i, n) ==
    IF numofstreams = 2 THEN i
    ELSE IF n <= 2 * Shorter THEN (n + 1) % 2
    ELSE IF Length[0] > Length[1] THEN 0 ELSE 1

TimestampOf(i, n) ==
    IF numofstreams = 2 THEN n
    ELSE IF n <= 2 * Shorter THEN (n + 1) \div 2 ELSE n - Shorter
-----------------------------------------------------------------------------
(* downloadfiles up to its loop. *)

\* Mutation of StartAttempt: the metrics of the last attempt are not restarted.
StartAttemptOnOldMetrics(streams, fail) ==
    /\ loop = "idle"
    /\ metric' = [metric EXCEPT !.stime = now, !.fail_on_stall = fail]
    /\ errorcode' = "0" /\ UNCHANGED <<now, minbuffer>>
    /\ loop' = "top" /\ numofstreams' = streams
    /\ url' = [i \in Streams |-> FreshUrl]
    /\ inflight' = {} /\ used' = [i \in Streams |-> 0] /\ first' = FALSE
    /\ received' = [i \in Streams |-> 0] /\ torn' = {} /\ cut' = {}

StartAttempt(streams, fail) ==
    /\ loop = "idle"
    /\ NewAttempt(fail)
    /\ loop' = "top" /\ numofstreams' = streams
    /\ url' = [i \in Streams |-> FreshUrl]
    /\ inflight' = {} /\ used' = [i \in Streams |-> 0] /\ first' = FALSE
    /\ received' = [i \in Streams |-> 0] /\ torn' = {} /\ cut' = {}
-----------------------------------------------------------------------------
(* The head of the loop, and load_streams. *)

\* select waits until the buffer is down to its limit.
Awake ==
    LET buffer == PlayoutBuffer(metric.TSnow, now)
    IN  IF buffer > BufferSeconds THEN now + (buffer - BufferSeconds) ELSE now

\* adjust_range: the first range makes the stream play.
Playing(i) == url[i].playing \/ url[i].range1 = 0

\* Mutation of NextRange0: a byte is skipped between two ranges.
NextRange0Skips(i) == IF url[i].range1 > 0 THEN url[i].range1 + 2 ELSE 0

NextRange0(i) == IF url[i].range1 > 0 THEN url[i].range1 + 1 ELSE 0

\* Stream i has room in its buffer when the loop is awake again.
Wants(i) == Playing(i) /\ PlayoutBuffer(metric.TSlist[i], Awake) <= BufferSeconds

\* Mutation of RangeAddition: every chunk has the size of the first.
RangeAdditionFixed(i) == Bitrate(i) * ChunkMinimum

\* The bytes of the next chunk.
RangeAddition(i) ==
    LET free == BufferSeconds - PlayoutBuffer(metric.TSlist[i], Awake)
    IN  Bitrate(i) * (IF free >= ChunkMinimum THEN ChunkMinimum ELSE ChunkFetch)

\* Every stream that asks gets an empty buffer (reset_buffer).
LoadStreams ==
    /\ loop = "top"
    /\ TimePasses(Awake - now)
    /\ url' = [i \in Streams |->
          IF i \in Indices
          THEN [range0  |-> NextRange0(i),
                range1  |-> url[i].range1 + (IF Wants(i) THEN RangeAddition(i) ELSE 0),
                playing |-> Playing(i)]
          ELSE url[i]]
    /\ inflight' = {i \in Indices : Wants(i)}
    /\ used' = [i \in Streams |-> IF i \in inflight' THEN 0 ELSE used[i]]
    /\ torn' = torn \cup {i \in inflight' : /\ NextRange0(i) # received[i]
                                            /\ NextRange0(i) < FileSize(i)}
    /\ loop' = IF \E i \in Indices : Playing(i) THEN "get" ELSE "break"
    /\ first' = TRUE
    /\ UNCHANGED <<numofstreams, received, cut>>
-----------------------------------------------------------------------------
(* get_download_result: packets, results, time. *)

\* The bytes that the server has of the range of stream i.
Offered(i) ==
    LET end == IF url[i].range1 < FileSize(i) THEN url[i].range1 + 1 ELSE FileSize(i)
    IN  IF end > url[i].range0 THEN end - url[i].range0 ELSE 0

Awaited(i) == loop = "get" /\ i \in inflight

\* write_data gets the bytes of stream i up to the end of a packet, which the parser
\* then reads, or up to the end of the range.
Packet(i) ==
    /\ Awaited(i) /\ i \notin torn
    /\ used[i] < Offered(i)
    /\ LET n   == ((url[i].range0 + used[i]) \div PacketSize) + 1
           end == n * PacketSize
       IN  IF end <= url[i].range0 + Offered(i)
           THEN /\ used' = [used EXCEPT ![i] = end - url[i].range0]
                /\ received' = [received EXCEPT ![i] = end]
                /\ Frame(TrackOf(i, n), TimestampOf(i, n))
           ELSE /\ used' = [used EXCEPT ![i] = Offered(i)]
                /\ received' = [received EXCEPT ![i] = url[i].range0 + Offered(i)]
                /\ UNCHANGED playoutVars
    /\ UNCHANGED <<loop, numofstreams, url, inflight, first, torn, cut>>

\* The parser makes no packet of bytes that do not follow those before.  It gives up
\* at some point: avformat_open_input fails and it exits, or it returns where nothing
\* is to return to.
TornBytes(i) ==
    /\ Awaited(i) /\ i \in torn
    /\ used[i] < Offered(i)
    /\ used' = [used EXCEPT ![i] = Offered(i)]
    /\ loop' \in {"get", "exited", "crashed"}
    /\ UNCHANGED <<playoutVars, numofstreams, url, inflight, first, historyVars>>

\* Mutation of Short: the size is compared with the last byte of the range.
ShortOfEnd(i) == used[i] < url[i].range1

\* Fewer bytes than asked for, of a range counted without its first byte.
Short(i) == used[i] < url[i].range1 - url[i].range0

\* Mutation of TakeResult: the next result is never asked for.
TakeResultKept(i) ==
    /\ url' = [url EXCEPT ![i].playing = @ /\ ~Short(i)]
    /\ first' = FALSE
    /\ UNCHANGED <<playoutVars, loop, numofstreams, inflight, used, received, torn>>

\* A result without an error: check_errors passes, update_stream_progress ends a stream
\* that came short.
TakeResult(i) ==
    /\ url' = [url EXCEPT ![i].playing = @ /\ ~Short(i)]
    /\ inflight' = inflight \ {i} /\ first' = FALSE
    /\ UNCHANGED <<playoutVars, loop, numofstreams, used, received, torn>>

Result(i) ==
    /\ Awaited(i) /\ used[i] = Offered(i)
    /\ TakeResult(i) /\ UNCHANGED cut

\* The server ends its answer early, or the library ends it after the read that completed
\* the header, for a 2xx that is not 200: there is no error either way.  Answers end where
\* a packet does; one of them lacks the last byte of its range alone, as every range but
\* the last ends one byte into a packet.
CutResult(i) ==
    /\ "cut" \in LoopFaults
    /\ Awaited(i) /\ used[i] < Offered(i)
    /\ TakeResult(i) /\ cut' = cut \cup {i}

\* check_errors ends process_outputs with the first failed request: a timeout, a
\* broken transfer, or a range behind the end of the file.
ResultError(i, code) ==
    /\ Awaited(i)
    /\ \/ code = "LSQUIC_TIMEOUT_ERROR" /\ "timeout" \in LoopFaults
       \/ code = "LSQUIC_ENGINE_ERROR" /\ "failure" \in LoopFaults
       \/ /\ code = "LSQUIC_ENGINE_ERROR" /\ "range" \in LoopFaults
          /\ url[i].range0 >= FileSize(i)
    /\ errorcode' = code /\ loop' = "break"
    /\ UNCHANGED <<now, metric, minbuffer, numofstreams, url, inflight, used, first,
                   historyVars>>

\* A failure of the whole engine: the request_args of its result were never set.
\* find_request_index reads through them: the process dies, or a stale or wild
\* pointer lets it go on to check_errors.
ResultOfEngine ==
    /\ loop = "get" /\ inflight # {} /\ "engine" \in LoopFaults
    /\ \/ loop' = "crashed" /\ UNCHANGED errorcode
       \/ /\ loop' = "break"
          /\ errorcode' \in {"LSQUIC_ENGINE_ERROR", "LSQUIC_TIMEOUT_ERROR"}
    /\ UNCHANGED <<now, metric, minbuffer, numofstreams, url, inflight, used, first,
                   historyVars>>

\* check_max_test_time
TooLong == Started /\ now - (metric.stime + metric.initialprebuftime) > MaxTestTime

\* get_download_result returns NULL: the end of process_outputs.
NoResult ==
    /\ loop = "get" /\ inflight = {}
    /\ errorcode' = IF TooLong THEN "MAXTESTRUNTIME"
                    ELSE IF first THEN "LSQUIC_ENGINE_ERROR" ELSE errorcode
    /\ loop' = IF errorcode' = "0" THEN "top" ELSE "break"
    /\ UNCHANGED <<now, metric, minbuffer, numofstreams, url, inflight, used, first,
                   historyVars>>

Wait ==
    /\ loop = "get" /\ inflight # {} /\ now < MaxNow
    /\ TimePasses(1)
    /\ UNCHANGED loopVars
-----------------------------------------------------------------------------
(* cleanup_download_loop(prog, numofstreams, ITWORKED, 200) *)

\* A playout that does not run is un-paused for a stream that still plays; without
\* an error the attempt worked.
Cleanup ==
    /\ loop = "break" /\ loop' = "done"
    /\ LET unpause == /\ errorcode = "0" /\ metric.Tmin < 0
                      /\ \E i \in Indices : url[i].playing
       IN  /\ metric' = IF unpause THEN CheckedMetric(metric.TSlist, TRUE) ELSE metric
           /\ minbuffer' = IF unpause THEN CheckedMinbuffer(metric.TSlist, TRUE) ELSE minbuffer
    /\ errorcode' = IF errorcode = "0" THEN "ITWORKED" ELSE errorcode
    /\ UNCHANGED <<now, numofstreams, url, inflight, used, first, historyVars>>

\* A stream that received nothing has no parser yet: the stack that is unmapped is
\* whatever malloc left in prog, at best an address that munmap refuses.
CleanupUnmaps ==
    /\ loop = "break" /\ \E i \in Indices : received[i] = 0
    /\ loop' = "crashed"
    /\ UNCHANGED <<playoutVars, numofstreams, url, inflight, used, first, historyVars>>

LoopInit ==
    /\ PlayoutInit
    /\ loop = "idle" /\ numofstreams = 0
    /\ url = [i \in Streams |-> FreshUrl]
    /\ inflight = {} /\ used = [i \in Streams |-> 0] /\ first = FALSE
    /\ received = [i \in Streams |-> 0] /\ torn = {} /\ cut = {}

LoopStep ==
    \/ LoadStreams
    \/ \E i \in Streams : Packet(i) \/ TornBytes(i) \/ Result(i) \/ CutResult(i)
    \/ \E i \in Streams, code \in ErrorCodes : ResultError(i, code)
    \/ ResultOfEngine
    \/ NoResult
    \/ Wait
    \/ Cleanup
    \/ CleanupUnmaps
=============================================================================
