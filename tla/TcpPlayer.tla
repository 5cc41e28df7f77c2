------------------------------ MODULE TcpPlayer ------------------------------
(***************************************************************************)
(* main of youtube_tcp_test: the page of the video is read into lists of   *)
(* urls (VideoInfo), process_adaptive tries the pairs of a video and an    *)
(* audio url from the highest bitrate down, process_nonadaptive the files  *)
(* that hold both (TcpLoop).                                               *)
(***************************************************************************)
EXTENDS TcpLoop, VideoInfo

CONSTANTS
    Pages,          \* what may be on the page of the video
    MaxBitrate,     \* program_arguments.max_bitrate
    OneBitrate,     \* program_arguments.one_bitrate
    MinTestTime     \* program_arguments.min_test_time is not zero

\* URLLISTSIZE
UrlListSize == 24

\* The duration is -1 when the page tells none.
ASSUME TcpPlayerAssumption ==
    /\ \A page \in Pages :
          /\ page.duration \in Nat \cup {-1}
          /\ page.plain \in Seq(Piece) /\ Len(page.plain) < UrlListSize
          /\ page.adaptive \in Seq(Piece) /\ Len(page.adaptive) < UrlListSize
          /\ \A i \in DOMAIN page.plain :
                page.plain[i].url \notin NoUrls => FileSizes[page.plain[i].url] \in Int
    /\ MaxBitrate \in Nat
    /\ OneBitrate \in BOOLEAN /\ MinTestTime \in BOOLEAN

VARIABLES
    page,   \* the page that the video site sends
    videos, \* metric.adap_videourl
    audios, \* metric.adap_audiourl
    plains, \* metric.no_adap_url
    stage,  \* "page", "measure": in extract_media_urls; "adaptive", "plain": the function
            \* that tries levels; "exit": after the exit line
    level,  \* the index i of that function, from 1
    audio,  \* metric.url[STREAM_AUDIO].bitrate
    lines   \* the error code of every line that printvalues printed

listVars == <<page, videos, audios, plains>>
mainVars == <<listVars, stage, level, audio, lines>>
vars == <<playoutVars, loopVars, mainVars>>

Stages == {"page", "measure", "adaptive", "plain", "exit"}

Init ==
    /\ LoopInit
    /\ page \in Pages
    /\ videos = <<>> /\ audios = <<>> /\ plains = <<>>
    /\ stage = "page" /\ level = 1 /\ audio = 0 /\ lines = <<>>
-----------------------------------------------------------------------------
(* The exit. *)

\* Mutation of ExitLine: mainexit prints whatever the code is.
ExitLineUnset(code) == <<code>>

\* mainexit: an error code that was never set is WERSCREWED.
ExitLine(code) == <<IF code = "0" THEN "WERSCREWED" ELSE code>>

\* exit runs mainexit.
ExitWith(code) == stage' = "exit" /\ lines' = lines \o ExitLine(code)

Alive == stage # "exit" /\ loop # "crashed"

In(s) == stage = s /\ loop # "crashed"

\* signal_handler
Signal ==
    /\ "signal" \in Faults /\ Alive
    /\ errorcode' = "SIGNALHIT"
    /\ ExitWith("SIGNALHIT")
    /\ UNCHANGED <<now, metric, minbuffer, loopVars, listVars, level, audio>>

ParserExits ==
    /\ loop = "exited" /\ stage # "exit"
    /\ ExitWith(errorcode)
    /\ UNCHANGED <<playoutVars, loopVars, listVars, level, audio>>
-----------------------------------------------------------------------------
(* extract_media_urls *)

MainDies ==
    /\ loop' = "crashed"
    /\ UNCHANGED <<playoutVars, numofstreams, file, url, transferVars, totalbytes,
                   historyVars, mainVars>>

\* extract_media_urls fails, with the code of its last step.
NoMedia(code) ==
    /\ errorcode' = code /\ ExitWith(code)
    /\ UNCHANGED <<now, metric, minbuffer, loopVars, listVars, level, audio>>

\* download_to_memory fails, or the server does not answer with 200.
PageFails == In("page") /\ "first" \in Faults /\ NoMedia("FIRSTRESPONSERROR")

ReadPage ==
    /\ In("page")
    /\ ~FreesForeign(page.plain) /\ ~FreesForeign(page.adaptive)
    /\ plains' = SplitUrls(page.plain, FALSE)
    /\ stage' = "measure"
    /\ UNCHANGED <<playoutVars, loopVars, page, videos, audios, level, audio, lines>>

ReadPageDies ==
    /\ In("page")
    /\ FreesForeign(page.plain) \/ FreesForeign(page.adaptive)
    /\ MainDies

\* The plain urls are measured, then all lists are sorted.
Measure ==
    /\ In("measure")
    /\ Measurable(plains, page.duration)
    /\ plains' \in Sorted(Measured(plains, page.duration), DOMAIN plains)
    /\ LET adaptive == SplitUrls(page.adaptive, TRUE)
       IN  /\ audios' \in Sorted(adaptive, OfKind(adaptive, "audio"))
           /\ videos' \in Sorted(adaptive, OfKind(adaptive, "video"))
    /\ stage' = "adaptive"
    /\ UNCHANGED <<playoutVars, loopVars, page, level, audio, lines>>

\* One bitrate that cannot be told ends the program: there is no duration, no url, or no
\* size, or (HeadFails) no answer to the request for it.
Unmeasurable ==
    /\ In("measure")
    /\ ~Measurable(plains, page.duration) /\ ~DividesByZero(plains, page.duration)
    /\ NoMedia("0")

HeadFails ==
    /\ In("measure") /\ plains # <<>> /\ "head" \in Faults
    /\ \E code \in {"0", "ACCESS_DENIED"} : NoMedia(code)

MeasureDies ==
    /\ In("measure")
    /\ DividesByZero(plains, page.duration)
    /\ MainDies
-----------------------------------------------------------------------------
(* process_adaptive and process_nonadaptive *)

Choosing == loop = "idle" /\ stage \in {"adaptive", "plain"}

List == IF stage = "adaptive" THEN videos ELSE plains

\* Mutation of MoreLevels: the list is taken to end one entry early.
MoreLevelsShort == IsUrlLeft(List, level + 2)

MoreLevels == IsUrlLeft(List, level + 1)

\* The iteration ends with code and i is increased; the audio entry of this level stays
\* in metric.url[1].  After the last pair of urls process_nonadaptive resets the audio
\* stream (reset_adaptive_metric) and starts; after the last file the program exits.
NextLevel(report, code, rate) ==
    \/ /\ MoreLevels
       /\ level' = level + 1 /\ lines' = lines \o report /\ audio' = rate
       /\ UNCHANGED <<stage, totalbytes>>
    \/ /\ ~MoreLevels /\ stage = "adaptive"
       /\ stage' = "plain" /\ level' = 1 /\ lines' = lines \o report
       /\ audio' = 0 /\ totalbytes' = [totalbytes EXCEPT ![1] = 0]
    \/ /\ ~MoreLevels /\ stage = "plain"
       /\ stage' = "exit" /\ lines' = lines \o report \o ExitLine(code) /\ audio' = rate
       /\ UNCHANGED <<level, totalbytes>>

\* Without an adaptive url of each kind strstr finds no type, and what follows it is
\* compared.
NoAdaptiveUrl ==
    /\ Choosing /\ stage = "adaptive" /\ (videos = <<>> \/ audios = <<>>)
    /\ MainDies

CanChoose == Choosing /\ (stage = "adaptive" => videos # <<>> /\ audios # <<>>)

HasAudio == stage = "adaptive" /\ AudioMatches(videos, level, audios) # {}

\* The first audio entry that matches.
AudioIndex == LET matches == AudioMatches(videos, level, audios)
              IN  CHOOSE j \in matches : \A k \in matches : j <= k

\* Without a match metric.url[1] is still the audio entry of an earlier level.
AudioBitrate == IF HasAudio THEN audios[AudioIndex].bitrate ELSE audio

\* The entry of the level; no_adap_url[0] is cleared when there is no plain url.
Entry == IF List = <<>> THEN EmptyEntry ELSE List[level]

LevelBitrate == Entry.bitrate + (IF stage = "adaptive" THEN AudioBitrate ELSE 0)

\* The bitrate is above the limit: the metrics were restarted already.
SkipLevel ==
    /\ CanChoose /\ LevelBitrate > MaxBitrate
    /\ NewAttempt(TRUE)
    /\ NextLevel(<<>>, "0", AudioBitrate)
    /\ UNCHANGED <<loop, numofstreams, file, url, transferVars, historyVars, listVars>>

\* The file of an entry that is to hold these tracks.  Sizes are scaled: any bitrate but
\* zero is one packet for each track and unit of time.
FileOf(entry, tracks) ==
    [tracks  |-> IF entry.url = "" THEN {} ELSE tracks,
     bitrate |-> IF entry.bitrate = 0 THEN 0 ELSE PacketSize * Cardinality(tracks)]

Files == [i \in Streams |->
             IF stage = "plain" THEN IF i = 0 THEN FileOf(Entry, Streams) ELSE NoFile
             ELSE IF i = 0 THEN FileOf(Entry, {0})
             ELSE IF HasAudio THEN FileOf(audios[AudioIndex], {1}) ELSE NoFile]

\* Whether the stall of this level is ignored, because another url is left: in
\* process_adaptive, one in each of the two lists.
UrlsLeft == MoreLevels /\ (stage = "adaptive" => IsUrlLeft(plains, 1))

TryLevel ==
    /\ CanChoose /\ LevelBitrate <= MaxBitrate
    /\ StartAttempt(IF HasAudio THEN 2 ELSE 1, Files, ~(UrlsLeft \/ OneBitrate))
    /\ audio' = AudioBitrate
    /\ UNCHANGED <<listVars, stage, level, lines>>

Retries(code) == metric.fail_on_stall /\ code \in {"ERROR_STALL", "TOO_FAST"}

\* check_process_errors, and the return from main with an attempt that stands.  The time
\* that the downloads of all attempts took is any.
JudgeAttempt ==
    /\ loop = "done" /\ loop' = "idle" /\ stage # "exit"
    /\ \/ UNCHANGED errorcode
       \/ MinTestTime /\ errorcode = "ITWORKED" /\ errorcode' = "TOO_FAST"
    /\ \/ Retries(errorcode') /\ NextLevel(<<errorcode'>>, errorcode', audio)
       \/ ~Retries(errorcode') /\ ExitWith(errorcode') /\ UNCHANGED <<level, audio, totalbytes>>
    /\ UNCHANGED <<now, metric, minbuffer, numofstreams, file, url, transferVars,
                   historyVars, listVars>>

\* The steps of main that the environment has no part in.
MainRuns ==
    \/ ReadPage \/ ReadPageDies \/ Measure \/ Unmeasurable \/ MeasureDies
    \/ NoAdaptiveUrl \/ SkipLevel \/ TryLevel \/ JudgeAttempt \/ ParserExits

Downloading == stage \in {"adaptive", "plain"}

\* The player runs while it can.  libcurl delivers what a transfer waits for or ends it:
\* each has a time limit (CURLOPT_TIMEOUT).
PlayerRuns ==
    \/ MainRuns
    \/ Downloading /\ LoopRuns /\ UNCHANGED mainVars

Finished == ~Alive /\ UNCHANGED vars

Next ==
    \/ PlayerRuns
    \/ Downloading /\ LoopSuffers /\ UNCHANGED mainVars
    \/ PageFails \/ HeadFails \/ Signal
    \/ Finished

Spec == Init /\ [][Next]_vars

FairSpec == Spec /\ WF_vars(PlayerRuns)
-----------------------------------------------------------------------------
(* Properties. *)

\* Every variable stays in its domain; no line is printed without an error code.
TypeOK ==
    /\ PlayoutTypeOK
    /\ loop \in LoopPlaces /\ numofstreams \in 0..2
    /\ file \in [Streams -> File] /\ url \in [Streams -> VideoUrl]
    /\ active \subseteq Streams /\ ended \subseteq Streams
    /\ got \in [Streams -> Nat] /\ totalbytes \in [Streams -> Nat]
    /\ received \in [Streams -> Nat] /\ before \in [Streams -> Nat]
    /\ torn \subseteq Streams /\ failed \subseteq Streams
    /\ page \in Pages
    /\ \A list \in {videos, audios, plains} : list \in Seq(EntryType)
    /\ stage \in Stages /\ level \in Nat \ {0} /\ audio \in Nat
    /\ lines \in Seq((ErrorCodes \ {"0"}) \cup {"WERSCREWED"})

\* Everything the player does moves the playout only in the ways of Playout.
ImplementsPlayout == PlayoutSpec

\* What an attempt that worked adds to the totals are the bytes that the parsers got, every
\* one counted once, whatever number of transfers brought them.  The total that is printed
\* is another matter, see SizeOfVideo.
AddedExact ==
    loop = "done" /\ errorcode = "ITWORKED" =>
        \A i \in Indices \ torn : totalbytes[i] - before[i] = received[i]

\* "Size of the Video in bytes" (print_help_output): what the line of a test that worked
\* says of the video are the bytes of the video that was played.
SizeOfVideo ==
    stage = "exit" /\ errorcode = "ITWORKED" /\ 0 \notin torn => totalbytes[0] = received[0]

\* A stream of an attempt that worked was downloaded to its end, unless one of its
\* transfers failed.
WorkedMeansComplete ==
    loop = "done" /\ errorcode = "ITWORKED" =>
        \A i \in Indices \ failed : received[i] = FileSize(i)

\* The first byte is all that an entry without a bitrate asks for, again and again.
Unranged == {i \in Streams : file[i].bitrate = 0}

\* Only a failed transfer may leave a gap in what the parser gets: the ranges of a stream
\* with a bitrate continue each other, whatever chunk sizes the buffer called for.
TornOnlyByFailure == torn \subseteq failed \cup Unranged

\* The playout buffer: what is downloaded ahead of the playout.
Ahead(i) == PlayoutBuffer(metric.TSlist[i], now)

\* While the video plays, no stream is downloaded further ahead than the buffer of the
\* program arguments and one chunk that refills it.
BufferBounded ==
    Started /\ metric.Tmin >= 0 => \A i \in Streams : Ahead(i) <= BufferSeconds + ChunkFetch

\* The lists are what the page holds, the highest bitrate first: every piece with an itag
\* that is not cut off becomes an entry with the url, the type and the bitrate of that piece,
\* and no entry comes from elsewhere.  A piece without a type or a bitrate can only have those
\* of a cut off piece right before it; the bitrate of a single file is its size over the
\* duration, and each file has one entry.
ListsTellPage ==
    stage \in {"adaptive", "plain"} =>
        /\ Descending(plains)
        /\ Cardinality(KeptPieces(page.plain)) = Len(plains)
        /\ \A i \in KeptPieces(page.plain) :
              \E k \in DOMAIN plains : SaysFile(page.plain, page.duration, i, plains[k])
        /\ \A k \in DOMAIN plains :
              \E i \in KeptPieces(page.plain) : SaysFile(page.plain, page.duration, i, plains[k])
        /\ \A kind \in {"video", "audio"} :
              LET list == IF kind = "video" THEN videos ELSE audios
              IN  /\ Descending(list)
                  /\ \A i \in KeptPieces(page.adaptive) :
                        page.adaptive[i].type.kind = kind =>
                            \E k \in DOMAIN list : Says(page.adaptive, i, list[k])
                  /\ \A k \in DOMAIN list :
                        \E i \in KeptPieces(page.adaptive) : Says(page.adaptive, i, list[k])

\* The audio of an attempt has the format of its video, none of that format has a higher
\* bitrate, and the two together respect --maxbitrate.
AudioIsBest ==
    stage = "adaptive" /\ loop # "idle" /\ numofstreams = 2 =>
        /\ videos[level].bitrate + audio <= MaxBitrate
        /\ \E j \in DOMAIN audios :
              /\ audios[j].bitrate = audio
              /\ audios[j].type.format = videos[level].type.format
        /\ (\A k \in DOMAIN audios : audios[k].url # "") =>
              \A k \in DOMAIN audios :
                  audios[k].type.format = videos[level].type.format =>
                      audios[k].bitrate <= audio

\* A stall is only the result of the test when no url is left: it came in an attempt of
\* one stream, and the list of the files has no url behind it.  A test that was too fast is
\* another matter: with urls left fail_on_stall is false, check_process_errors does not go
\* on, and the program ends at that level.
GivesUpLast ==
    stage = "exit" /\ loop # "exited" /\ errorcode = "ERROR_STALL" =>
        numofstreams = 1 /\ ~IsUrlLeft(plains, level + 1)

\* The program comes to its exit line, whatever the network does.
ExitReached == <>~Alive
=============================================================================
