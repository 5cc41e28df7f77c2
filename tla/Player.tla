------------------------------- MODULE Player -------------------------------
(***************************************************************************)
(* main of youtube_test from the lists of urls to the exit line:           *)
(* process_adaptive tries the pairs of a video and an audio url from the   *)
(* highest bitrate down, process_nonadaptive the files that hold both.     *)
(***************************************************************************)
EXTENDS DownloadLoop, Sequences

CONSTANTS
    AdaptiveLists,  \* what may be the bitrates of the adaptive pairs of urls
    PlainLists,     \* what may be the bitrates of the urls of single files
    MaxBitrate,     \* program_arguments.max_bitrate
    OneBitrate,     \* program_arguments.one_bitrate
    MinTestTime     \* program_arguments.min_test_time is not zero

ASSUME LadderAssumption ==
    /\ \A s \in AdaptiveLists \cup PlainLists : s \in Seq(Nat)
    /\ MaxBitrate \in Nat
    /\ OneBitrate \in BOOLEAN /\ MinTestTime \in BOOLEAN

VARIABLES
    adaptive, \* bitrates of metric.adap_videourl with the audio that fits
    plain,  \* bitrates of metric.no_adap_url
    ladder, \* "adaptive", "plain": the function that runs; "exit": after the exit line
    level,  \* the index i of that function, from 1
    lines   \* the error code of every line that printvalues printed

listVars == <<adaptive, plain>>
ladderVars == <<listVars, ladder, level, lines>>
vars == <<playoutVars, loopVars, ladderVars>>

Rates == IF ladder = "adaptive" THEN adaptive ELSE plain

Init ==
    /\ LoopInit
    /\ adaptive \in AdaptiveLists /\ plain \in PlainLists
    /\ ladder = "adaptive" /\ level = 1 /\ lines = <<>>
-----------------------------------------------------------------------------
(* process_adaptive and process_nonadaptive *)

\* Mutation of ExitLine: mainexit prints whatever the code is.
ExitLineUnset(code) == <<code>>

\* printvalues at exit; an error code that was never set is WERSCREWED.
ExitLine(code) == <<IF code = "0" THEN "WERSCREWED" ELSE code>>

\* The iteration ends with code and i is increased.  After the last pair of urls
\* process_nonadaptive starts, after the last file the program exits.
NextLevel(report, code) ==
    \/ /\ level < Len(Rates)
       /\ level' = level + 1 /\ lines' = lines \o report /\ UNCHANGED <<listVars, ladder>>
    \/ /\ level >= Len(Rates) /\ ladder = "adaptive"
       /\ ladder' = "plain" /\ level' = 1 /\ lines' = lines \o report
       /\ UNCHANGED listVars
    \/ /\ level >= Len(Rates) /\ ladder = "plain"
       /\ ladder' = "exit" /\ lines' = lines \o report \o ExitLine(code)
       /\ UNCHANGED <<listVars, level>>

Choosing == loop = "idle" /\ ladder # "exit"

\* The bitrate is above the limit: the metrics were restarted already.
SkipLevel ==
    /\ Choosing /\ Rates # <<>> /\ Rates[level] > MaxBitrate
    /\ NewAttempt(TRUE)
    /\ NextLevel(<<>>, "0")
    /\ UNCHANGED loopVars

\* Without an adaptive url strstr finds no type, and what follows it is compared.
NoAdaptiveUrl ==
    /\ Choosing /\ ladder = "adaptive" /\ adaptive = <<>>
    /\ loop' = "crashed"
    /\ UNCHANGED <<playoutVars, numofstreams, url, inflight, used, first, historyVars,
                   ladderVars>>

\* Without a plain url there is an attempt all the same, at the bitrate 0: quic_connect
\* drops the request of the empty url, and the library has no result.
NoPlainUrl ==
    /\ Choosing /\ ladder = "plain" /\ plain = <<>>
    /\ NewAttempt(~OneBitrate)
    /\ loop' = "get" /\ numofstreams' = 1 /\ first' = TRUE
    /\ url' = [i \in Streams |-> [FreshUrl EXCEPT !.playing = (i = 0)]]
    /\ inflight' = {} /\ used' = [i \in Streams |-> 0]
    /\ received' = [i \in Streams |-> 0] /\ torn' = {} /\ cut' = {}
    /\ UNCHANGED ladderVars

\* The stall is ignored when --onebitrate is given, or when a url is left: in
\* process_adaptive, one in each of the two lists.
UrlsLeft == level < Len(Rates) /\ plain # <<>>

TryLevel ==
    /\ Choosing /\ Rates # <<>> /\ Rates[level] <= MaxBitrate
    /\ StartAttempt(IF ladder = "adaptive" THEN 2 ELSE 1, ~(UrlsLeft \/ OneBitrate))
    /\ UNCHANGED ladderVars

Retries(code) == metric.fail_on_stall /\ code \in {"ERROR_STALL", "TOO_FAST"}

\* check_process_errors, and the exit line of an attempt that stands.
JudgeAttempt ==
    /\ loop = "done" /\ loop' = "idle"
    /\ \/ UNCHANGED errorcode
       \/ MinTestTime /\ errorcode = "ITWORKED" /\ errorcode' = "TOO_FAST"
    /\ \/ Retries(errorcode') /\ NextLevel(<<errorcode'>>, errorcode')
       \/ /\ ~Retries(errorcode')
          /\ ladder' = "exit" /\ lines' = lines \o ExitLine(errorcode')
          /\ UNCHANGED <<listVars, level>>
    /\ UNCHANGED <<now, metric, minbuffer, numofstreams, url, inflight, used, first,
                   historyVars>>

\* exit runs mainexit.
ParserExits ==
    /\ loop = "exited" /\ ladder # "exit"
    /\ ladder' = "exit" /\ lines' = lines \o ExitLine(errorcode)
    /\ UNCHANGED <<playoutVars, loopVars, listVars, level>>

LadderStep ==
    SkipLevel \/ NoAdaptiveUrl \/ NoPlainUrl \/ TryLevel \/ JudgeAttempt \/ ParserExits

Ended == ladder = "exit" \/ loop = "crashed"

Finished == Ended /\ UNCHANGED vars

Next == (LoopStep /\ UNCHANGED ladderVars) \/ LadderStep \/ Finished

Spec == Init /\ [][Next]_vars

\* The player runs while it can; the library delivers what a request waits for
\* (QuicEngineProps!EveryRequestAnswered, which redirects may break: WaitEnds).
PlayerRuns ==
    \/ LadderStep
    \/ /\ \/ LoadStreams \/ NoResult \/ Cleanup \/ CleanupUnmaps
          \/ \E i \in Streams : Packet(i) \/ TornBytes(i) \/ Result(i)
       /\ UNCHANGED ladderVars

FairSpec == Spec /\ WF_vars(PlayerRuns)
-----------------------------------------------------------------------------
(* Properties. *)

\* Every variable stays in its domain; no line is printed without an error code.
TypeOK ==
    /\ PlayoutTypeOK
    /\ loop \in LoopPlaces /\ numofstreams \in 0..2
    /\ url \in [Streams -> VideoUrl]
    /\ inflight \subseteq Streams
    /\ used \in [Streams -> Nat] /\ first \in BOOLEAN
    /\ received \in [Streams -> Nat]
    /\ torn \subseteq Streams /\ cut \subseteq Streams
    /\ adaptive \in AdaptiveLists /\ plain \in PlainLists
    /\ ladder \in {"adaptive", "plain", "exit"} /\ level \in Nat \ {0}
    /\ lines \in Seq((ErrorCodes \ {"0"}) \cup {"WERSCREWED"})

\* The attempts of the ladder, and everything else the player does, move the
\* playout only in the ways of Playout.
ImplementsPlayout == PlayoutSpec

\* Only an answer that ended early may leave a gap, or an overlap, in what the parser gets:
\* the ranges of a stream continue each other, whatever chunk sizes the buffer called for.
TornOnlyByCut == torn \subseteq cut

\* A stream of an attempt that is reported as worked was downloaded to its end, unless one
\* of its answers ended early, which the library does not tell.
WorkedMeansComplete ==
    loop = "done" /\ errorcode = "ITWORKED" =>
        \A i \in Indices \ cut : received[i] = FileSize(i)

\* The playout buffer: what is downloaded ahead of the playout.
Ahead(i) == PlayoutBuffer(metric.TSlist[i], now)

\* While the video plays, no stream is downloaded further ahead than the buffer of
\* the program arguments and one chunk that refills it.
BufferBounded ==
    Started /\ metric.Tmin >= 0 => \A i \in Streams : Ahead(i) <= BufferSeconds + ChunkFetch

\* The program comes to its exit line, whatever the network does.
ExitReached == <>Ended

\* "if Tmin is -1 this playout has not started so no need to check": a stall is
\* only judged once the video plays.
NoFalseStall == errorcode = "ERROR_STALL" => Started
=============================================================================
