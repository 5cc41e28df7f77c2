------------------------------- MODULE Playout -------------------------------
(***************************************************************************)
(* The playout that youtube_test and youtube_tcp_test simulate while they  *)
(* download a video (the files are the same in both): checkstall of        *)
(* metrics.c, the calls mm_parser.c makes of it, and what restart_metrics  *)
(* of youtube-dl.c leaves of one attempt for the next.                     *)
(*                                                                         *)
(* Clock values and timestamps are in one unit (the code multiplies its    *)
(* milliseconds by 1000 before it compares them).  Gettimelong is now; it  *)
(* starts at a Unix time, far from zero.                                   *)
(***************************************************************************)
EXTENDS Integers

CONSTANTS
    MinPrebuffer,    \* MIN_PREBUFFER
    MinStallbuffer,  \* MIN_STALLBUFFER
    Epoch            \* the time at which the program starts

ASSUME PlayoutAssumption ==
    /\ MinPrebuffer \in Nat \ {0} /\ MinStallbuffer \in Nat \ {0}
    /\ Epoch \in Nat \ {0}

\* STREAM_VIDEO and STREAM_AUDIO
Streams == {0, 1}

\* The values of metric.errorcode that the downloads of the two programs and their
\* ladders set: the second line is of youtube_test, the third of youtube_tcp_test.
ErrorCodes == {"0", "ITWORKED", "ERROR_STALL", "MAXTESTRUNTIME", "TOO_FAST",
               "LSQUIC_ENGINE_ERROR", "LSQUIC_TIMEOUT_ERROR",
               "CURLERROR", "FIRSTRESPONSERROR", "ACCESS_DENIED", "SIGNALHIT"}

VARIABLES
    now,       \* gettimelong
    metric,    \* the fields of the global metric that the playout uses
    minbuffer, \* the global of metrics.c
    errorcode  \* metric.errorcode

playoutVars == <<now, metric, minbuffer, errorcode>>

Metric == [TSlist : [Streams -> Int], TSnow : Int, TS0 : Int,
           T0 : Int, Tmin : Int, Tmin0 : Int, stime : Int,
           initialprebuftime : Int, numofstalls : Int, totalstalltime : Int,
           fail_on_stall : BOOLEAN]
-----------------------------------------------------------------------------
(* checkstall *)

\* The highest timestamp up to which every stream can be played.
Least(list) == IF list[0] > list[1] THEN list[1] ELSE list[0]

\* The first timestamp of an attempt starts its prebuffering.
FirstPacket(m) ==
    IF m.T0 < 0 THEN [m EXCEPT !.T0 = now, !.Tmin0 = now, !.TS0 = m.TSnow] ELSE m

\* Mutation of Stalls: a timestamp that is just due counts as late as well.
StallsEarly(m) == m.Tmin >= 0 /\ m.TSnow - m.TS0 <= now - m.Tmin + 1

\* Playout would have needed TSnow before it arrived.
Stalls(m) == m.Tmin >= 0 /\ m.TSnow - m.TS0 <= now - m.Tmin

\* Mutation of Stall: the stall begins when it is seen.
StallSeen(m) == [m EXCEPT !.Tmin0 = now, !.Tmin = -1, !.TS0 = m.TSnow]

\* Playout stopped when it reached TSnow, and waits for a buffer again.
Stall(m) ==
    [m EXCEPT !.Tmin0 = m.Tmin + (m.TSnow - m.TS0), !.Tmin = -1, !.TS0 = m.TSnow]

\* Playout starts, or goes on after a stall.
StartPlayout(m) ==
    IF m.initialprebuftime < 0
    THEN [m EXCEPT !.Tmin = now, !.initialprebuftime = now - m.stime]
    ELSE [m EXCEPT !.Tmin = now, !.numofstalls = m.numofstalls + 1,
                   !.totalstalltime = m.totalstalltime + (now - m.Tmin0)]

\* checkstall(end) after the timestamps of the streams became list, in two parts:
\* the stall is judged, then the buffer of a playout that does not run.
Arrived(list) == FirstPacket([metric EXCEPT !.TSlist = list, !.TSnow = Least(list)])
Judged(list) == IF Stalls(Arrived(list)) THEN Stall(Arrived(list)) ELSE Arrived(list)

Starts(list, end) ==
    /\ Judged(list).Tmin < 0
    /\ Judged(list).TSnow - Judged(list).TS0 >= minbuffer \/ end

CheckedMetric(list, end) ==
    IF Starts(list, end) THEN StartPlayout(Judged(list)) ELSE Judged(list)

\* Stalls need a shorter buffer than the start of the video.
CheckedMinbuffer(list, end) ==
    IF Starts(list, end) /\ Judged(list).initialprebuftime < 0
    THEN MinStallbuffer ELSE minbuffer

Checkstall(list, end) ==
    /\ metric' = CheckedMetric(list, end)
    /\ minbuffer' = CheckedMinbuffer(list, end)
    /\ errorcode' = IF Stalls(Arrived(list)) /\ metric.fail_on_stall
                    THEN "ERROR_STALL" ELSE errorcode

\* get_curr_playoutbuf_len_for_ts, at time t
PlayoutBuffer(ts, t) ==
    IF metric.Tmin < 0 THEN 0 ELSE (ts - metric.TS0) - (t - metric.Tmin)
-----------------------------------------------------------------------------
(* The life of the metrics. *)

\* init_metrics clears the whole structure and sets what must not be zero.
InitMetrics(t) ==
    [TSlist |-> [i \in Streams |-> 0], TSnow |-> 0, TS0 |-> 0,
     T0 |-> -1, Tmin |-> 0, Tmin0 |-> -1, stime |-> t,
     initialprebuftime |-> -1, numofstalls |-> 0, totalstalltime |-> 0,
     fail_on_stall |-> TRUE]

\* Mutation of RestartMetrics: TS0 is not reset.
RestartMetricsKeepsTS0(m, t, fail) ==
    [m EXCEPT !.Tmin0 = -1, !.T0 = -1, !.initialprebuftime = -1, !.numofstalls = 0,
              !.totalstalltime = 0, !.TSnow = 0, !.TSlist = [i \in Streams |-> 0],
              !.stime = t, !.fail_on_stall = fail]

\* restart_metrics, the choice of fail_on_stall, and stime set by downloadfiles:
\* Tmin stays as the last attempt left it.
RestartMetrics(m, t, fail) ==
    [m EXCEPT !.Tmin0 = -1, !.T0 = -1, !.initialprebuftime = -1, !.numofstalls = 0,
              !.totalstalltime = 0, !.TSnow = 0, !.TSlist = [i \in Streams |-> 0],
              !.TS0 = 0, !.stime = t, !.fail_on_stall = fail]

PlayoutInit ==
    /\ now = Epoch
    /\ metric = InitMetrics(Epoch)
    /\ minbuffer = MinPrebuffer
    /\ errorcode = "0"

\* mm_parser read a packet of stream i with a positive decoding timestamp.
Frame(i, ts) ==
    /\ ts \in Nat \ {0} /\ ts >= metric.TSlist[i]
    /\ Checkstall([metric.TSlist EXCEPT ![i] = ts], FALSE)
    /\ UNCHANGED now

\* The end of the video un-pauses a playout that is still buffering.
EndOfVideo ==
    /\ metric.Tmin < 0
    /\ Checkstall(metric.TSlist, TRUE)
    /\ UNCHANGED now

NewAttempt(fail) ==
    /\ metric' = RestartMetrics(metric, now, fail)
    /\ errorcode' = "0"
    /\ UNCHANGED <<now, minbuffer>>

TimePasses(d) ==
    /\ d \in Nat
    /\ now' = now + d
    /\ UNCHANGED <<metric, minbuffer, errorcode>>

\* The download or the ladder sets the error code.
ReportCode == errorcode' \in ErrorCodes /\ UNCHANGED <<now, metric, minbuffer>>

\* The timestamp of a packet and the time that passes are any; they are named by
\* what they lead to.
PlayoutNext ==
    \/ \E i \in Streams : Frame(i, metric'.TSlist[i])
    \/ EndOfVideo
    \/ \E fail \in BOOLEAN : NewAttempt(fail)
    \/ TimePasses(now' - now)
    \/ ReportCode

PlayoutSpec == PlayoutInit /\ [][PlayoutNext]_playoutVars
-----------------------------------------------------------------------------
(* What the measurements mean. *)

PlayoutTypeOK ==
    /\ now \in Nat
    /\ metric \in Metric
    /\ minbuffer \in {MinPrebuffer, MinStallbuffer}
    /\ errorcode \in ErrorCodes

Started == metric.initialprebuftime >= 0

\* The unsigned subtractions of timestamps never wrap: what a stream has received
\* is never behind what can be played, nor that behind where playout resumed.
TimestampsOrdered ==
    /\ 0 <= metric.TS0 /\ metric.TS0 <= metric.TSnow
    /\ \A i \in Streams : metric.TSnow <= metric.TSlist[i]

\* Since playout started, wall-clock time went into the video up to TS0 and into
\* the stalls that are reported, and into nothing else: at the last (re)start when
\* playing, at the moment playout ran dry when stalled.
StallAccounting ==
    Started =>
        LET reference == IF metric.Tmin >= 0 THEN metric.Tmin ELSE metric.Tmin0
        IN  reference - (metric.stime + metric.initialprebuftime)
                = metric.TS0 + metric.totalstalltime

\* No stall is reported with a negative length, or one that has not begun.
StallsInThePast ==
    /\ metric.totalstalltime >= 0
    /\ metric.Tmin <= now /\ metric.Tmin0 <= now
    /\ metric.numofstalls = 0 => metric.totalstalltime = 0
=============================================================================
