----------------------------- MODULE YoutubeTest -----------------------------
(***************************************************************************)
(* main of youtube_test as a whole: the QUIC client is created, fetches    *)
(* the page of the video and tells the size of each single file, one       *)
(* request after the other; what is left are the lists of Player.  A       *)
(* signal ends the program in any place.                                   *)
(*                                                                         *)
(* The page is that of VideoInfo, whose text the program shares with       *)
(* youtube_tcp_test.                                                       *)
(***************************************************************************)
EXTENDS Player, VideoInfo

CONSTANTS
    Pages,      \* what may be on the page of the video
    Hosts,      \* what getifaddrs may tell of the host: a sequence of addresses
    IpVersion,  \* program_arguments.ip_version
    MainFaults  \* what may happen to main

AllMainFaults == {"client", "page", "head", "null", "signal"}

\* What one interface adds to the result of get_ip_version_support.  The IPv4 loopback is
\* compared in the wrong byte order, so that it counts; of IPv6 only global multicast does.
Support == [loopback |-> {"IPv4"}, inet |-> {"IPv4"}, inet6 |-> {}, multicast6 |-> {"IPv6"},
            packet |-> {}, null |-> {}]

\* The two lists of a page (extract_url_list).
PlainEntries(p) == SplitUrls(p.plain, FALSE)
AdaptiveEntries(p) == SplitUrls(p.adaptive, TRUE)

\* The adaptive entries as findformat sorts them; a video goes with the first audio that
\* has its format (process_adaptive).
VideosOf(p) == Sorted(AdaptiveEntries(p), OfKind(AdaptiveEntries(p), "video"))
AudiosOf(p) == Sorted(AdaptiveEntries(p), OfKind(AdaptiveEntries(p), "audio"))

Pairs(videos, audios) ==
    IF audios = <<>> THEN <<>>
    ELSE [i \in DOMAIN videos |->
             LET matches == AudioMatches(videos, i, audios)
             IN  videos[i].bitrate
                     + audios[CHOOSE j \in matches : \A k \in matches : j <= k].bitrate]

AdaptiveOf(p) == {Pairs(v, a) : v \in VideosOf(p), a \in AudiosOf(p)}

BitratesOf(list) == [i \in DOMAIN list |-> list[i].bitrate]

\* What the measured plain urls become.
PlainOf(list, duration) == {BitratesOf(s) : s \in Sorted(Measured(list, duration), DOMAIN list)}

\* The duration is -1 where the page tells none.  Bitrates and adaptive urls are not
\* missing, and a video comes with an audio of its format, if there is any audio at all.
\* AdaptiveLists and PlainLists are what the pages lead to.
ASSUME MainAssumption ==
    /\ <<>> \in AdaptiveLists /\ <<>> \in PlainLists
    /\ Hosts \subseteq Seq(DOMAIN Support)
    /\ IpVersion \in {"SYSTEM", "IPv4", "IPv6"}
    /\ MainFaults \subseteq AllMainFaults
    /\ \A p \in Pages :
          LET pieces == AdaptiveEntries(p)
              list   == PlainEntries(p)
          IN  /\ p.duration \in Nat \cup {-1}
              /\ p.plain \in Seq(Piece) /\ p.adaptive \in Seq(Piece)
              /\ \A i \in DOMAIN pieces : pieces[i].url # "" /\ pieces[i].bitrate > 0
              /\ \A v \in VideosOf(p), a \in AudiosOf(p) :
                    a = <<>> \/ \A i \in DOMAIN v : AudioMatches(v, i, a) # {}
              /\ AdaptiveOf(p) \subseteq AdaptiveLists
              /\ Measurable(list, p.duration) =>
                    /\ PlainOf(list, p.duration) \subseteq PlainLists
                    /\ \A rates \in PlainOf(list, p.duration) : 0 \notin Range(rates)

VARIABLES
    page,     \* the page that the video site sends
    host,     \* the addresses of the host
    client,   \* quic_client: "none", "up", "destroyed"
    stage,    \* "library": in init_libraries; "page", "measure": in extract_media_urls;
              \* "play": in the ladder
    entries,  \* url_list of findformat
    measured  \* how many of the entries have been measured

fixedVars == <<page, host>>
mainVars == <<fixedVars, client, stage, entries, measured>>
allVars == <<vars, mainVars>>

MainInit ==
    /\ LoopInit
    /\ adaptive = <<>> /\ plain = <<>>
    /\ ladder = "adaptive" /\ level = 1 /\ lines = <<>>
    /\ page \in Pages /\ host \in Hosts
    /\ client = "none" /\ stage = "library" /\ entries = <<>> /\ measured = 0
-----------------------------------------------------------------------------
(* Ways to end before the ladder. *)

At(s) == stage = s /\ ~Ended

\* exit with this error code runs mainexit.
ExitsWith(code) ==
    /\ errorcode' = code
    /\ ladder' = "exit" /\ lines' = lines \o ExitLine(code)
    /\ UNCHANGED <<now, metric, minbuffer, loopVars, listVars, level>>

Dies ==
    /\ loop' = "crashed"
    /\ UNCHANGED <<playoutVars, numofstreams, url, inflight, used, first, historyVars,
                   ladderVars, mainVars>>

\* signal_handler: the client is not destroyed.
Signal ==
    /\ "signal" \in MainFaults /\ ~Ended
    /\ ExitsWith("SIGNALHIT")
    /\ UNCHANGED mainVars

\* get_download_result returns NULL, which its caller does not expect.
ResultIsNull ==
    /\ "null" \in MainFaults
    /\ At("page") \/ (At("measure") /\ measured < Len(entries))
    /\ Dies
-----------------------------------------------------------------------------
(* init_libraries *)

\* get_ip_version_support reads the interfaces in their order, and none after both versions.
Supported(n) == UNION {Support[host[i]] : i \in 1..n}
LocalSupport == Supported(Len(host))

\* Without an option only a host that has both kinds of address, or none, makes the program
\* assign is_ipv4: the default is IPv6.  Otherwise it is zero, as all of quic_arguments was.
IsIpv4 ==
    IF IpVersion = "SYSTEM" /\ LocalSupport \in {{}, {"IPv4", "IPv6"}} THEN FALSE
    ELSE IpVersion = "IPv4"

\* An interface without an address is read all the same.
CanAsk ==
    IpVersion = "SYSTEM" =>
        \A n \in DOMAIN host : host[n] = "null" => Supported(n) = {"IPv4", "IPv6"}

InitDies ==
    /\ At("library") /\ ~CanAsk
    /\ Dies

InitClient ==
    /\ At("library") /\ CanAsk
    /\ client' = "up" /\ stage' = "page"
    /\ UNCHANGED <<vars, fixedVars, entries, measured>>

\* create_client fails; the metrics are still those of a program that just started.
ClientFails ==
    /\ At("library") /\ CanAsk /\ "client" \in MainFaults
    /\ ExitsWith("0")
    /\ UNCHANGED mainVars
-----------------------------------------------------------------------------
(* extract_media_urls *)

\* The host has an address of the version that the client uses.
Reaches == (IF IsIpv4 THEN "inet" ELSE "inet6") \in Range(host)

\* download_to_memory fails: the site cannot be reached, there is an error or another code than 200.
PageMissing ==
    /\ ExitsWith("FIRSTRESPONSERROR")
    /\ client' = "destroyed" /\ UNCHANGED <<fixedVars, stage, entries, measured>>

PageOutOfReach == At("page") /\ ~Reaches /\ PageMissing

PageFails == At("page") /\ "page" \in MainFaults /\ PageMissing

\* Both lists are split before the first url is measured.
ReadPage ==
    /\ At("page") /\ Reaches
    /\ ~FreesForeign(page.plain) /\ ~FreesForeign(page.adaptive)
    /\ entries' = PlainEntries(page)
    /\ stage' = "measure"
    /\ UNCHANGED <<vars, fixedVars, client, measured>>

ReadPageDies ==
    /\ At("page") /\ Reaches
    /\ FreesForeign(page.plain) \/ FreesForeign(page.adaptive)
    /\ Dies

\* getbitrate asks for the size of the next url.
Measuring == At("measure") /\ measured < Len(entries)
Asked == entries[measured + 1].url

\* quic_connect drops the request of an empty url: there is no result to read.
NoUrlToMeasure == Measuring /\ Asked = "" /\ Dies

MeasureUrl ==
    /\ Measuring /\ Asked # "" /\ FileSizes[Asked] > 0 /\ page.duration > 0
    /\ measured' = measured + 1
    /\ UNCHANGED <<vars, fixedVars, client, stage, entries>>

DivisionByZero ==
    /\ Measuring /\ Asked # "" /\ FileSizes[Asked] > 0 /\ page.duration = 0
    /\ Dies

\* A file without a size, or a page without a duration: the bitrate is negative and findformat
\* gives up, but the client lives on.
NoBitrateToTell ==
    /\ Measuring /\ Asked # "" /\ (FileSizes[Asked] = 0 \/ page.duration < 0)
    /\ ExitsWith("0")
    /\ UNCHANGED mainVars

\* getfilesize fails: an error, or a code that is not 200.
HeadFails ==
    /\ Measuring /\ Asked # "" /\ "head" \in MainFaults
    /\ \E code \in {"0", "ACCESS_DENIED"} : ExitsWith(code)
    /\ client' = "destroyed" /\ UNCHANGED <<fixedVars, stage, entries, measured>>

\* The rest of findformat; the ladder begins.
SortLists ==
    /\ At("measure") /\ measured = Len(entries)
    /\ plain' \in PlainOf(entries, page.duration)
    /\ adaptive' \in AdaptiveOf(page)
    /\ stage' = "play"
    /\ UNCHANGED <<playoutVars, loopVars, ladder, level, lines, fixedVars, client, entries,
                   measured>>
-----------------------------------------------------------------------------
\* destroy_libraries comes after the ladder, before the exit line; exit does not call it.
Plays(step) ==
    /\ At("play") /\ step
    /\ client' = IF ladder' = "exit" /\ loop # "exited" THEN "destroyed" ELSE client
    /\ UNCHANGED <<fixedVars, stage, entries, measured>>

\* The steps of main that the environment has no part in, but for answers that come.
MainRuns ==
    \/ InitDies \/ InitClient \/ PageOutOfReach \/ ReadPage \/ ReadPageDies
    \/ NoUrlToMeasure \/ MeasureUrl \/ DivisionByZero \/ NoBitrateToTell \/ SortLists

MainFinished == Ended /\ UNCHANGED allVars

MainNext ==
    \/ MainRuns
    \/ ClientFails \/ PageFails \/ HeadFails \/ ResultIsNull \/ Signal
    \/ Plays(LoopStep /\ UNCHANGED ladderVars)
    \/ Plays(LadderStep)
    \/ MainFinished

MainSpec == MainInit /\ [][MainNext]_allVars

\* As in Player: the thread runs, and the library answers or times out.
MainFairSpec == MainSpec /\ WF_allVars(MainRuns \/ Plays(PlayerRuns))
-----------------------------------------------------------------------------
(* Properties. *)

\* Every variable stays in its domain, from the start of the program to its exit line, and
\* no line is printed without an error code.
MainTypeOK ==
    /\ TypeOK
    /\ page \in Pages /\ host \in Hosts
    /\ client \in {"none", "up", "destroyed"}
    /\ stage \in {"library", "page", "measure", "play"}
    /\ measured \in Nat
=============================================================================
