------------------------------- MODULE TcpLoop -------------------------------
(***************************************************************************)
(* downloadfiles of curlops.c: one attempt of youtube_tcp_test to download *)
(* a video, with one libcurl transfer at a time for each of its streams.   *)
(* libcurl delivers the bytes of the transfers in any order while          *)
(* curl_multi_perform runs, and queues a message for each that has ended.  *)
(*                                                                         *)
(* As in DownloadLoop, a packet of PacketSize bytes holds one unit of      *)
(* playing time of its track.                                              *)
(***************************************************************************)
EXTENDS Playout, FiniteSets

CONSTANTS
    ChunkMinimum,  \* LEN_CHUNK_MINIMUM
    ChunkFetch,    \* LEN_CHUNK_FETCH
    BufferSeconds, \* metric.playout_buffer_seconds
    MaxTestTime,   \* program_arguments.max_test_time
    Length,        \* playing time of the video, per track
    PacketSize,    \* bytes in a packet, more than one
    Faults,        \* what the network, the servers and libcurl may do wrong
    MaxNow         \* bound on the time at which the network still lets time pass

\* "cut": a transfer ends early; "page": an error page comes instead of the bytes;
\* "multi": a function of libcurl's multi interface fails.  The last three are of
\* TcpPlayer: the page of the video, a HEAD request, a signal.
LoopFaults == {"cut", "page", "multi"}
AllFaults == LoopFaults \cup {"first", "head", "signal"}

ASSUME TcpLoopAssumption ==
    /\ ChunkMinimum \in Nat \ {0} /\ ChunkFetch \in Nat \ {0}
    /\ BufferSeconds \in Nat /\ BufferSeconds >= ChunkMinimum \* check_buffer_len
    /\ MaxTestTime \in Nat /\ MaxNow \in Nat
    /\ Length \in [Streams -> Nat \ {0}]
    /\ PacketSize \in Nat \ {0, 1}
    /\ Faults \subseteq AllFaults

VARIABLES
    loop,         \* where downloadfiles is, see LoopPlaces
    numofstreams, \* metric.numofstreams
    file,         \* what is behind the url of each stream, and its bitrate field
    url,          \* metric.url: the range asked last, and whether more is wanted
    active,       \* streams whose transfer runs
    ended,        \* streams whose transfer ended, its message not read yet
    got,          \* CURLINFO_SIZE_DOWNLOAD of the last transfer of each stream
    totalbytes,   \* metric.totalbytes
    received,     \* history: the bytes its parser got of each stream, without a gap
    torn,         \* history: streams whose parser got a gap, or bytes of no video
    failed,       \* history: streams that had a transfer that failed
    before        \* history: totalbytes when the attempt began

transferVars == <<active, ended, got>>
historyVars == <<received, torn, failed, before>>
loopVars == <<loop, numofstreams, file, url, transferVars, totalbytes, historyVars>>

\* "idle": before an attempt; "top": the head of the while loop; "run": inside
\* curl_multi_perform or process_running; "select": there, with no transfer; "break": the loop ended; "done":
\* downloadfiles returned; "exited": the parser called exit; "crashed": the process
\* died.
LoopPlaces ==
    {"idle", "top", "run", "select", "break", "done", "exited", "crashed"}

File == [tracks : SUBSET Streams, bitrate : Nat]
NoFile == [tracks |-> {}, bitrate |-> 0]

VideoUrl == [range0 : Nat, range1 : Nat, playing : BOOLEAN]
FreshUrl == [range0 |-> 0, range1 |-> 0, playing |-> FALSE]

Indices == {i \in Streams : i < numofstreams}
-----------------------------------------------------------------------------
(* The files. *)

Shorter == Least(Length)

FileSize(i) ==
    PacketSize * (IF file[i].tracks = Streams THEN Length[0] + Length[1]
                  ELSE IF file[i].tracks = {} THEN 0
                  ELSE Length[CHOOSE t \in file[i].tracks : TRUE])

\* The track of the nth packet of file i, and its timestamp.  A single file alternates
\* the packets of its tracks until the shorter one ends.
TrackOf(i, n) ==
    IF file[i].tracks # Streams THEN CHOOSE t \in file[i].tracks : TRUE
    ELSE IF n <= 2 * Shorter THEN (n + 1) % 2
    ELSE IF Length[0] > Length[1] THEN 0 ELSE 1

TimestampOf(i, n) ==
    IF file[i].tracks # Streams THEN n
    ELSE IF n <= 2 * Shorter THEN (n + 1) \div 2 ELSE n - Shorter
-----------------------------------------------------------------------------
(* downloadfiles up to its loop. *)

\* Mutation of StartAttempt: the metrics of the last attempt are not restarted.
StartAttemptOnOldMetrics(streams, files, fail) ==
    /\ loop = "idle"
    /\ metric' = [metric EXCEPT !.stime = now, !.fail_on_stall = fail]
    /\ errorcode' = "0" /\ UNCHANGED <<now, minbuffer>>
    /\ loop' = "top" /\ numofstreams' = streams /\ file' = files
    /\ url' = [i \in Streams |-> FreshUrl]
    /\ active' = {} /\ ended' = {} /\ got' = [i \in Streams |-> 0]
    /\ received' = [i \in Streams |-> 0] /\ torn' = {} /\ failed' = {}
    /\ before' = totalbytes
    /\ UNCHANGED totalbytes

\* The urls come from the lists, with the range fields that memzero cleared.
StartAttempt(streams, files, fail) ==
    /\ loop = "idle"
    /\ NewAttempt(fail)
    /\ loop' = "top" /\ numofstreams' = streams /\ file' = files
    /\ url' = [i \in Streams |-> FreshUrl]
    /\ active' = {} /\ ended' = {} /\ got' = [i \in Streams |-> 0]
    /\ received' = [i \in Streams |-> 0] /\ torn' = {} /\ failed' = {}
    /\ before' = totalbytes
    /\ UNCHANGED totalbytes
-----------------------------------------------------------------------------
(* The head of the loop, load_streams and initialize_curl_handle. *)

\* select waits until the buffer is down to its limit.
Awake ==
    LET buffer == PlayoutBuffer(metric.TSnow, now)
    IN  IF buffer > BufferSeconds THEN now + (buffer - BufferSeconds) ELSE now

\* The first range makes the stream play.
Playing(i) == url[i].playing \/ url[i].range1 = 0

\* Mutation of NextRange0: a byte is skipped between two ranges.
NextRange0Skips(i) == IF url[i].range1 > 0 THEN url[i].range1 + 2 ELSE 0

NextRange0(i) == IF url[i].range1 > 0 THEN url[i].range1 + 1 ELSE 0

\* Mutation of Wants: the room in the buffer is measured before the wait.
WantsUnchecked(i) == Playing(i)

\* Stream i has room in its buffer when the loop is awake again.
Wants(i) == Playing(i) /\ PlayoutBuffer(metric.TSlist[i], Awake) <= BufferSeconds

\* The bytes of the next chunk.
RangeAddition(i) ==
    LET free == BufferSeconds - PlayoutBuffer(metric.TSlist[i], Awake)
    IN  file[i].bitrate * (IF free >= ChunkMinimum THEN ChunkMinimum ELSE ChunkFetch)

\* Every stream that wants more gets a new easy handle, in the same multi handle.
LoadStreams ==
    /\ loop = "top"
    /\ TimePasses(Awake - now)
    /\ url' = [i \in Streams |->
          IF i \in Indices
          THEN [range0  |-> NextRange0(i),
                range1  |-> url[i].range1 + (IF Wants(i) THEN RangeAddition(i) ELSE 0),
                playing |-> Playing(i)]
          ELSE url[i]]
    /\ active' = {i \in Indices : Wants(i)}
    /\ got' = [i \in Streams |-> IF i \in active' THEN 0 ELSE got[i]]
    /\ torn' = torn \cup {i \in active' : /\ NextRange0(i) # received[i]
                                          /\ NextRange0(i) < FileSize(i)}
    /\ loop' = IF \A i \in Indices : ~Playing(i) THEN "break"
                ELSE IF active' = {} THEN "select" ELSE "run"
    /\ UNCHANGED <<numofstreams, file, ended, totalbytes, received, failed, before>>
-----------------------------------------------------------------------------
(* curl_multi_perform: bytes, ends of transfers. *)

\* The bytes that the server sends for the range of stream i.
Offered(i) ==
    LET end == IF url[i].range1 < FileSize(i) THEN url[i].range1 + 1 ELSE FileSize(i)
    IN  IF end > url[i].range0 THEN end - url[i].range0 ELSE 0

Transferring(i) == loop = "run" /\ i \in active

\* write_data gets the bytes of stream i up to the end of a packet, which mm_parser
\* then reads, or up to the end of the range.
Packet(i) ==
    /\ Transferring(i) /\ i \notin torn
    /\ got[i] < Offered(i)
    /\ LET n   == ((url[i].range0 + got[i]) \div PacketSize) + 1
           end == n * PacketSize
       IN  IF end <= url[i].range0 + Offered(i)
           THEN /\ got' = [got EXCEPT ![i] = end - url[i].range0]
                /\ received' = [received EXCEPT ![i] = end]
                /\ Frame(TrackOf(i, n), TimestampOf(i, n))
           ELSE /\ got' = [got EXCEPT ![i] = Offered(i)]
                /\ received' = [received EXCEPT ![i] = url[i].range0 + Offered(i)]
                /\ UNCHANGED playoutVars
    /\ UNCHANGED <<loop, numofstreams, file, url, active, ended, totalbytes,
                   torn, failed, before>>

\* The parser makes no packet of bytes that do not follow those before.  It gives up
\* at some point: avformat_open_input fails and it exits, or it returns where nothing
\* is to return to.
TornBytes(i) ==
    /\ Transferring(i) /\ i \in torn
    /\ got[i] < Offered(i)
    /\ got' = [got EXCEPT ![i] = Offered(i)]
    /\ loop' \in {"run", "exited", "crashed"}
    /\ UNCHANGED <<playoutVars, numofstreams, file, url, active, ended, totalbytes,
                   historyVars>>

EndTransfer(i) == active' = active \ {i} /\ ended' = ended \cup {i}

Done(i) ==
    /\ Transferring(i) /\ got[i] = Offered(i)
    /\ EndTransfer(i)
    /\ UNCHANGED <<playoutVars, loop, numofstreams, file, url, got, totalbytes, historyVars>>

\* The connection breaks, or the transfer runs into its time limit: the result in the
\* message is never looked at.
Cut(i) ==
    /\ "cut" \in Faults
    /\ Transferring(i) /\ got[i] < Offered(i)
    /\ EndTransfer(i)
    /\ failed' = failed \cup {i}
    /\ UNCHANGED <<playoutVars, loop, numofstreams, file, url, got, totalbytes,
                   received, torn, before>>

\* An error page of one byte is fed to the parser as if it were video.  It is shorter than
\* what was asked for.
ErrorPage(i) ==
    /\ "page" \in Faults
    /\ Transferring(i) /\ got[i] = 0 /\ url[i].range1 - url[i].range0 > 1
    /\ EndTransfer(i)
    /\ got' = [got EXCEPT ![i] = 1]
    /\ failed' = failed \cup {i} /\ torn' = torn \cup {i}
    /\ loop' \in {"run", "exited", "crashed"}
    /\ UNCHANGED <<playoutVars, numofstreams, file, url, totalbytes, received, before>>

Wait ==
    /\ loop = "run" /\ active # {} /\ now < MaxNow
    /\ TimePasses(1)
    /\ UNCHANGED loopVars
-----------------------------------------------------------------------------
(* process_running *)

\* Mutation of Short: the size is compared with the last byte of the range.
ShortOfEnd(i) == got[i] < url[i].range1

\* Fewer bytes than asked for, of a range counted without its first byte.
Short(i) == got[i] < url[i].range1 - url[i].range0

\* check_max_test_time, at time t
TooLong(t) == Started /\ t - (metric.stime + metric.initialprebuftime) > MaxTestTime

\* Mutation of Counted: the totals are those of the last transfer.
CountedAnew(streams) == [i \in Streams |-> IF i \in streams THEN got[i] ELSE totalbytes[i]]

\* update_curl_progress of each of the streams
Counted(streams) ==
    [i \in Streams |-> totalbytes[i] + IF i \in streams THEN got[i] ELSE 0]

\* With nothing to wait for, select takes its full second.
SelectIdle ==
    /\ loop = "select" /\ loop' = "run"
    /\ TimePasses(1)
    /\ UNCHANGED <<numofstreams, file, url, transferVars, totalbytes, historyVars>>

\* Mutation of Progress: the pass goes on when no transfer runs any more.
ProgressStays ==
    /\ loop = "run"
    /\ errorcode' = IF TooLong(now) THEN "MAXTESTRUNTIME" ELSE errorcode
    /\ url' = [i \in Streams |->
          [url[i] EXCEPT !.playing = @ /\ ~(i \in ended /\ Short(i))]]
    /\ totalbytes' = Counted({i \in ended : url[i].playing})
    /\ ended' = {}
    /\ loop' = IF errorcode' # "0" THEN "break" ELSE "run"
    /\ UNCHANGED <<now, metric, minbuffer, numofstreams, file, active, got, historyVars>>

\* One pass: the messages of all transfers that ended, then the test of time and errors;
\* the while loop goes on when no transfer runs.  A pass that changes nothing is no step.
Progress ==
    /\ loop = "run"
    /\ errorcode' = IF TooLong(now) THEN "MAXTESTRUNTIME" ELSE errorcode
    /\ ended # {} \/ active = {} \/ errorcode' # "0"
    /\ url' = [i \in Streams |->
          [url[i] EXCEPT !.playing = @ /\ ~(i \in ended /\ Short(i))]]
    /\ totalbytes' = Counted({i \in ended : url[i].playing})
    /\ ended' = {}
    /\ loop' = IF errorcode' # "0" THEN "break" ELSE IF active = {} THEN "top" ELSE "run"
    /\ UNCHANGED <<now, metric, minbuffer, numofstreams, file, active, got, historyVars>>
-----------------------------------------------------------------------------
(* my_curl_cleanup *)

\* A stream that never received a byte has no parser: the stack that is unmapped is
\* whatever malloc left in prog.
NeverFed(i) == got[i] = 0 /\ totalbytes[i] = before[i]

\* my_curl_cleanup(..., code): what still plays is counted (once more, if its transfer
\* has ended), and code is the result if there is no error yet.
CurlCleanup(code) ==
    /\ totalbytes' = Counted({i \in Indices : url[i].playing})
    /\ loop' = "done"
    /\ errorcode' = IF errorcode = "0" THEN code ELSE errorcode
    /\ UNCHANGED <<now, numofstreams, file, url, transferVars, historyVars>>

\* A playout that does not run is un-paused for a stream that still plays.
Cleanup ==
    /\ loop = "break"
    /\ CurlCleanup("ITWORKED")
    /\ LET unpause == /\ errorcode = "0" /\ metric.Tmin < 0
                      /\ \E i \in Indices : url[i].playing
       IN  /\ metric' = IF unpause THEN CheckedMetric(metric.TSlist, TRUE) ELSE metric
           /\ minbuffer' = IF unpause THEN CheckedMinbuffer(metric.TSlist, TRUE) ELSE minbuffer

\* The first curl_multi_perform fails, and downloadfiles returns.
PerformFails ==
    /\ "multi" \in Faults /\ loop = "run"
    /\ CurlCleanup("CURLERROR")
    /\ UNCHANGED <<metric, minbuffer>>

Dies ==
    /\ loop' = "crashed"
    /\ UNCHANGED <<playoutVars, numofstreams, file, url, transferVars, totalbytes, historyVars>>

\* load_streams or process_running has cleaned up and returned, and downloadfiles goes
\* on with what it has freed.
RunsOnFreed == "multi" \in Faults /\ loop = "run" /\ Dies

CleanupUnmaps == loop = "break" /\ (\E i \in Indices : NeverFed(i)) /\ Dies

LoopInit ==
    /\ PlayoutInit
    /\ loop = "idle" /\ numofstreams = 0
    /\ file = [i \in Streams |-> NoFile]
    /\ url = [i \in Streams |-> FreshUrl]
    /\ active = {} /\ ended = {} /\ got = [i \in Streams |-> 0]
    /\ totalbytes = [i \in Streams |-> 0] /\ before = [i \in Streams |-> 0]
    /\ received = [i \in Streams |-> 0] /\ torn = {} /\ failed = {}

\* What downloadfiles and libcurl do by themselves.
LoopRuns ==
    \/ LoadStreams
    \/ \E i \in Streams : Packet(i) \/ TornBytes(i) \/ Done(i)
    \/ SelectIdle
    \/ Progress
    \/ Cleanup
    \/ CleanupUnmaps

\* What may go wrong, or take time.
LoopSuffers ==
    \/ \E i \in Streams : Cut(i) \/ ErrorPage(i)
    \/ PerformFails
    \/ RunsOnFreed
    \/ Wait
=============================================================================
