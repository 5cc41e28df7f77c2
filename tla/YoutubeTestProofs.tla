-------------------------- MODULE YoutubeTestProofs --------------------------
(***************************************************************************)
(* The player implements the playout: what is proved of Playout for every  *)
(* arrival of packets holds of every download, with any bitrates, chunk    *)
(* sizes, buffers and failures.  What is proved of the ladder alone        *)
(* (Player) holds of the whole program: whatever the page says, whichever  *)
(* step before the ladder fails, and wherever a signal arrives.  The       *)
(* downloads stay near the playout if a chunk fills what a playout waits   *)
(* for and the tracks of a single file end together.                       *)
(***************************************************************************)
EXTENDS YoutubeTest, PlayoutProofs, VideoInfoProofs

\* A loop that ended without an error ended because no stream plays: the branch of
\* cleanup_download_loop that un-pauses the video is never taken.
Stopped == loop = "break" /\ errorcode = "0" => \A i \in Indices : ~url[i].playing

LoopType ==
    /\ loop \in LoopPlaces /\ numofstreams \in 0..2
    /\ url \in [Streams -> VideoUrl]
    /\ inflight \subseteq Streams
    /\ used \in [Streams -> Nat] /\ first \in BOOLEAN
    /\ received \in [Streams -> Nat]
    /\ torn \subseteq Streams /\ cut \subseteq Streams

LadderType ==
    /\ adaptive \in AdaptiveLists /\ plain \in PlainLists
    /\ ladder \in {"adaptive", "plain", "exit"} /\ level \in Nat \ {0}
    /\ lines \in Seq((ErrorCodes \ {"0"}) \cup {"WERSCREWED"})

PlayerInv == IInv /\ LoopType /\ LadderType /\ Stopped
-----------------------------------------------------------------------------
(* The sizes of downloadfiles are natural numbers. *)

LEMMA Products == \A a, b \in Nat : a * b \in Nat
OBVIOUS

LEMMA BitrateType == \A i \in Streams : Bitrate(i) \in Nat
<1> SUFFICES ASSUME NEW i \in Streams PROVE Bitrate(i) \in Nat
  OBVIOUS
<1>1. Tracks(i) = {i} \/ Tracks(i) = {0} \cup {1}
  BY DEF Tracks, Streams
<1>2. Cardinality({i}) \in Nat /\ Cardinality({0} \cup {1}) \in Nat
  BY FS_Singleton, FS_Union, FS_CardinalityType
<1>3. Cardinality(Tracks(i)) \in Nat
  BY <1>1, <1>2
<1> QED
  BY <1>3, Products, LoopAssumption DEF Bitrate

LEMMA FileSizeType == \A i \in Streams : FileSize(i) \in Nat
<1> SUFFICES ASSUME NEW i \in Streams PROVE FileSize(i) \in Nat
  OBVIOUS
<1>1. Length[i] \in Nat /\ Length[0] + Length[1] \in Nat
  BY LoopAssumption DEF Streams
<1> QED
  BY <1>1, Products, LoopAssumption DEF FileSize

LEMMA FileSizeTypeNext == (\A i \in Streams : FileSize(i) \in Nat)'
BY FileSizeType, PTL

\* The end of the packet that holds byte x.
LEMMA PacketEnd == \A x \in Nat : ((x \div PacketSize) + 1) * PacketSize > x
<1> SUFFICES ASSUME NEW x \in Nat PROVE ((x \div PacketSize) + 1) * PacketSize > x
  OBVIOUS
<1>1. PacketSize \in Nat /\ PacketSize > 0
  BY LoopAssumption
<1> DEFINE q == x \div PacketSize
           r == x % PacketSize
<1>2. q \in Nat /\ r \in Nat /\ r < PacketSize /\ x = PacketSize * q + r
  BY <1>1
<1> HIDE DEF q, r
<1>3. (q + 1) * PacketSize = PacketSize * q + PacketSize
  BY <1>1, <1>2
<1>4. PacketSize * q \in Nat
  BY <1>1, <1>2, Products
<1>5. (q + 1) * PacketSize > x
  BY <1>1, <1>2, <1>3, <1>4
<1> QED
  BY <1>5 DEF q

\* The bytes of the file up to the end of the range.
RangeEnd(i) == IF url[i].range1 < FileSize(i) THEN url[i].range1 + 1 ELSE FileSize(i)

LEMMA SizesType ==
    ASSUME LoopType, NEW i \in Streams
    PROVE  /\ url[i] \in VideoUrl /\ received[i] \in Nat /\ used[i] \in Nat
           /\ url[i].range0 \in Nat /\ url[i].range1 \in Nat /\ url[i].playing \in BOOLEAN
           /\ FileSize(i) \in Nat /\ RangeEnd(i) \in Nat /\ RangeEnd(i) <= FileSize(i)
           /\ RangeEnd(i) <= url[i].range1 + 1
<1>1. /\ url[i] \in VideoUrl /\ received[i] \in Nat /\ used[i] \in Nat
      /\ url[i].range0 \in Nat /\ url[i].range1 \in Nat /\ url[i].playing \in BOOLEAN
  BY DEF LoopType, VideoUrl
<1>2. FileSize(i) \in Nat
  BY FileSizeType
<1> QED
  BY <1>1, <1>2 DEF RangeEnd

\* What the server has of a range ends where the range does.
LEMMA OfferedType ==
    ASSUME LoopType, NEW i \in Streams
    PROVE  /\ Offered(i) \in Nat
           /\ Offered(i) > 0 => /\ url[i].range0 + Offered(i) = RangeEnd(i)
                                /\ url[i].range0 < FileSize(i)
           /\ url[i].range0 < FileSize(i) /\ url[i].range0 <= url[i].range1 => Offered(i) > 0
           /\ url[i].range0 >= FileSize(i) => Offered(i) = 0
<1>1. Offered(i) = IF RangeEnd(i) > url[i].range0 THEN RangeEnd(i) - url[i].range0 ELSE 0
  BY DEF Offered, RangeEnd
<1> QED
  BY <1>1, SizesType DEF RangeEnd

LEMMA RangeAdditionType ==
    ASSUME metric \in Metric, Awake \in Int
    PROVE  \A i \in Streams : RangeAddition(i) \in Nat
<1> SUFFICES ASSUME NEW i \in Streams PROVE RangeAddition(i) \in Nat
  OBVIOUS
<1> QED
  BY BitrateType, Products, LoopAssumption DEF RangeAddition
-----------------------------------------------------------------------------
(* The steps of downloadfiles. *)

\* select never waits a negative time.
LEMMA AwakeType ==
    ASSUME IInv
    PROVE  Awake \in Int /\ Awake >= now
<1>1. /\ now \in Nat /\ metric.TSnow \in Int /\ metric.TS0 \in Int /\ metric.Tmin \in Int
  BY DEF IInv, Sound, Metric
<1>2. PlayoutBuffer(metric.TSnow, now) \in Int
  BY <1>1 DEF PlayoutBuffer
<1> QED
  BY <1>1, <1>2, LoopAssumption DEF Awake

LEMMA LoadStreamsRefines ==
    ASSUME IInv, LoopType, LoadStreams
    PROVE  TimePasses(now' - now) /\ LoopType' /\ Stopped'
<1>1. now \in Nat /\ metric \in Metric /\ Awake \in Int /\ Awake >= now
  BY AwakeType DEF IInv, Sound
<1>2. TimePasses(Awake - now)
  BY DEF LoadStreams
<1>3. Awake - now = now' - now
  BY <1>1, <1>2 DEF TimePasses
<1>4. TimePasses(now' - now)
  BY <1>2, <1>3
<1>5. LoopType'
  <2>1. \A i \in Streams : url'[i] \in VideoUrl
    <3> SUFFICES ASSUME NEW i \in Streams PROVE url'[i] \in VideoUrl
      OBVIOUS
    <3>1. url[i] \in VideoUrl /\ url[i].range1 \in Nat
      BY DEF LoopType, VideoUrl
    <3>2. url'[i] = IF i \in Indices
                   THEN [range0  |-> NextRange0(i),
                         range1  |-> url[i].range1 + (IF Wants(i) THEN RangeAddition(i) ELSE 0),
                         playing |-> Playing(i)]
                   ELSE url[i]
      BY DEF LoadStreams
    <3>3. NextRange0(i) \in Nat
      BY <3>1 DEF NextRange0
    <3>4. url[i].range1 + (IF Wants(i) THEN RangeAddition(i) ELSE 0) \in Nat
      BY <1>1, <3>1, RangeAdditionType
    <3>5. Playing(i) \in BOOLEAN
      BY <3>1 DEF Playing, VideoUrl
    <3>6. \A a, b \in Nat, c \in BOOLEAN :
              [range0 |-> a, range1 |-> b, playing |-> c] \in VideoUrl
      BY DEF VideoUrl
    <3> QED
      BY <3>1, <3>2, <3>3, <3>4, <3>5, <3>6, Zenon
  <2>2. url' \in [Streams -> VideoUrl]
    <3>1. url' = [i \in Streams |-> url'[i]]
      BY DEF LoadStreams
    <3> QED
      BY <2>1, <3>1
  <2>3. used' \in [Streams -> Nat]
    BY DEF LoadStreams, LoopType
  <2>4. inflight' \subseteq Streams /\ torn' \subseteq Streams
    BY DEF LoadStreams, LoopType, Indices
  <2>5. loop' \in LoopPlaces /\ first' \in BOOLEAN
    BY DEF LoadStreams, LoopPlaces
  <2>6. numofstreams' = numofstreams /\ received' = received /\ cut' = cut
    BY DEF LoadStreams
  <2> QED
    BY <2>2, <2>3, <2>4, <2>5, <2>6 DEF LoopType
<1>6. Stopped'
  <2>1. loop' = IF \E i \in Indices : Playing(i) THEN "get" ELSE "break"
    BY DEF LoadStreams
  <2>2. Indices' = Indices
    BY DEF LoadStreams, Indices
  <2>3. \A i \in Indices : url'[i].playing = Playing(i)
    BY DEF LoadStreams, Indices
  <2> QED
    BY <2>1, <2>2, <2>3 DEF Stopped
<1> QED
  BY <1>4, <1>5, <1>6

\* A packet that reaches its end is a frame, at the timestamp it has in the file.
LEMMA PacketRefines ==
    ASSUME IInv, LoopType, NEW i \in Streams, Packet(i)
    PROVE  \/ \E k \in Streams : Frame(k, metric'.TSlist[k])
           \/ UNCHANGED playoutVars
<1> DEFINE n == ((url[i].range0 + used[i]) \div PacketSize) + 1
           k == TrackOf(i, n)
           ts == TimestampOf(i, n)
<1>1. CASE UNCHANGED playoutVars
  BY <1>1
<1>2. CASE Frame(k, ts)
  <2> HIDE DEF ts
  <2>1. k \in Streams
    <3>1. n \in Int
      BY SizesType, LoopAssumption
    <3> HIDE DEF n
    <3> QED
      BY <3>1 DEF TrackOf, Streams
  <2> HIDE DEF k
  <2>2. metric' = CheckedMetric([metric.TSlist EXCEPT ![k] = ts], FALSE)
    BY <1>2 DEF Frame, Checkstall
  <2>3. metric \in Metric /\ metric.TSlist \in [Streams -> Int]
    BY DEF IInv, Sound, Metric
  <2>4. metric'.TSlist = [metric.TSlist EXCEPT ![k] = ts]
    BY <2>2, <2>3, CheckedList
  <2>5. metric'.TSlist[k] = ts
    BY <2>1, <2>3, <2>4
  <2> QED
    BY <1>2, <2>1, <2>5
<1> QED
  BY <1>1, <1>2 DEF Packet

\* What a packet adds to the buffer and to what the parser has.
LEMMA PacketMoves ==
    ASSUME LoopType, NEW i \in Streams, Packet(i)
    PROVE  /\ loop' = loop /\ loop = "get" /\ i \in inflight /\ i \notin torn
           /\ UNCHANGED <<numofstreams, url, inflight, first, torn, cut>>
           /\ \E g \in Nat : /\ g > used[i] /\ g <= Offered(i)
                             /\ used' = [used EXCEPT ![i] = g]
                             /\ received' = [received EXCEPT ![i] = url[i].range0 + g]
<1> DEFINE n == ((url[i].range0 + used[i]) \div PacketSize) + 1
           end == n * PacketSize
<1>1. /\ loop' = loop /\ loop = "get" /\ i \in inflight /\ i \notin torn
      /\ UNCHANGED <<numofstreams, url, inflight, first, torn, cut>>
  BY DEF Packet, Awaited
<1>2. /\ used[i] \in Nat /\ url[i].range0 \in Nat /\ Offered(i) \in Nat
      /\ used[i] < Offered(i)
  BY SizesType, OfferedType DEF Packet
<1>3. n \in Nat /\ end > url[i].range0 + used[i]
  <2>1. url[i].range0 + used[i] \in Nat
    BY <1>2
  <2>2. n \in Nat
    BY <2>1, LoopAssumption
  <2> QED
    BY <2>1, <2>2, PacketEnd
<1>4. \/ /\ end <= url[i].range0 + Offered(i)
         /\ used' = [used EXCEPT ![i] = end - url[i].range0]
         /\ received' = [received EXCEPT ![i] = end]
      \/ /\ used' = [used EXCEPT ![i] = Offered(i)]
         /\ received' = [received EXCEPT ![i] = url[i].range0 + Offered(i)]
  BY DEF Packet
<1> HIDE DEF n
<1>5. end \in Nat
  BY <1>3, Products, LoopAssumption
<1> HIDE DEF end
<1>6. CASE /\ end <= url[i].range0 + Offered(i)
           /\ used' = [used EXCEPT ![i] = end - url[i].range0]
           /\ received' = [received EXCEPT ![i] = end]
  <2> DEFINE g == end - url[i].range0
  <2>1. /\ g \in Nat /\ g > used[i] /\ g <= Offered(i) /\ url[i].range0 + g = end
    BY <1>2, <1>3, <1>5, <1>6
  <2> QED
    BY <1>1, <1>6, <2>1
<1>7. CASE /\ used' = [used EXCEPT ![i] = Offered(i)]
           /\ received' = [received EXCEPT ![i] = url[i].range0 + Offered(i)]
  <2>1. Offered(i) \in Nat /\ Offered(i) > used[i] /\ Offered(i) <= Offered(i)
    BY <1>2
  <2> HIDE DEF end
  <2> QED
    BY <1>1, <1>7, <2>1
<1> QED
  BY <1>4, <1>6, <1>7

\* The bytes received stay a natural number.
LEMMA PacketType ==
    ASSUME LoopType, NEW i \in Streams, Packet(i)
    PROVE  LoopType' /\ loop' = "get"
<1>1. PICK g \in Nat : /\ used' = [used EXCEPT ![i] = g]
                       /\ received' = [received EXCEPT ![i] = url[i].range0 + g]
  BY PacketMoves
<1>2. url[i].range0 + g \in Nat
  BY SizesType
<1>3. used' \in [Streams -> Nat] /\ received' \in [Streams -> Nat]
  BY <1>1, <1>2 DEF LoopType
<1>4. /\ loop' = loop /\ loop = "get"
      /\ UNCHANGED <<numofstreams, url, inflight, first, torn, cut>>
  BY PacketMoves
<1> QED
  BY <1>3, <1>4 DEF LoopType

\* What the parser cannot use only fills the buffer, or ends the program.
LEMMA TornBytesType ==
    ASSUME LoopType, Stopped, NEW i \in Streams, TornBytes(i)
    PROVE  UNCHANGED playoutVars /\ LoopType' /\ Stopped'
<1>1. /\ used' = [used EXCEPT ![i] = Offered(i)] /\ loop' \in {"get", "exited", "crashed"}
      /\ UNCHANGED <<playoutVars, numofstreams, url, inflight, first, received, torn, cut>>
  BY DEF TornBytes, historyVars
<1>2. used' \in [Streams -> Nat]
  BY <1>1, OfferedType DEF LoopType
<1> QED
  BY <1>1, <1>2 DEF LoopType, LoopPlaces, Stopped

\* A result ends a request, and a stream that came short.
LEMMA ResultType ==
    ASSUME LoopType, NEW i \in Streams, TakeResult(i), loop = "get", cut' \subseteq Streams
    PROVE  UNCHANGED playoutVars /\ LoopType' /\ Stopped'
<1>1. url' \in [Streams -> VideoUrl]
  <2> DEFINE p == url[i].playing /\ ~Short(i)
  <2>1. url' = [url EXCEPT ![i].playing = p]
    BY DEF TakeResult
  <2>2. p \in BOOLEAN /\ url \in [Streams -> VideoUrl]
    BY DEF LoopType, VideoUrl
  <2> HIDE DEF p
  <2> QED
    BY <2>1, <2>2, Zenon DEF VideoUrl
<1> QED
  BY <1>1 DEF LoopType, Stopped, TakeResult

\* Every step of downloadfiles moves the playout as Playout does, or not at all.
LEMMA LoopStepRefines ==
    ASSUME IInv, LoopType, Stopped, LoopStep
    PROVE  [PlayoutNext]_playoutVars /\ LoopType' /\ Stopped'
<1>0. errorcode \in ErrorCodes
  BY DEF IInv
<1>1. CASE LoadStreams
  BY <1>1, LoadStreamsRefines DEF PlayoutNext
<1>2. ASSUME NEW i \in Streams, Packet(i)
      PROVE  [PlayoutNext]_playoutVars /\ LoopType' /\ Stopped'
  BY <1>2, PacketRefines, PacketType DEF PlayoutNext, Stopped
<1>3. ASSUME NEW i \in Streams, Result(i) \/ CutResult(i)
      PROVE  [PlayoutNext]_playoutVars /\ LoopType' /\ Stopped'
  <2>1. TakeResult(i) /\ loop = "get" /\ cut' \subseteq Streams
    BY <1>3 DEF Result, CutResult, Awaited, LoopType
  <2> QED
    BY <2>1, ResultType
<1>4. ASSUME NEW i \in Streams, NEW code \in ErrorCodes, ResultError(i, code)
      PROVE  [PlayoutNext]_playoutVars /\ LoopType' /\ Stopped'
  <2>1. ReportCode /\ errorcode' # "0"
    BY <1>4 DEF ResultError, ReportCode
  <2> QED
    BY <1>4, <2>1 DEF ResultError, historyVars, LoopType, LoopPlaces, Stopped, PlayoutNext
<1>5. CASE ResultOfEngine
  <2>1. ReportCode /\ (loop' = "break" => errorcode' # "0")
    BY <1>0, <1>5 DEF ResultOfEngine, ReportCode, ErrorCodes
  <2> QED
    BY <1>5, <2>1 DEF ResultOfEngine, historyVars, LoopType, LoopPlaces, Stopped, PlayoutNext
<1>6. CASE NoResult
  <2>1. ReportCode /\ (loop' = "break" => errorcode' # "0")
    BY <1>0, <1>6 DEF NoResult, ReportCode, ErrorCodes
  <2> QED
    BY <1>6, <2>1 DEF NoResult, historyVars, LoopType, LoopPlaces, Stopped, PlayoutNext
<1>7. CASE Wait
  <2>1. TimePasses(1) /\ UNCHANGED loopVars /\ loop = "get"
    BY <1>7 DEF Wait
  <2>2. now' - now = 1
    BY <2>1 DEF TimePasses, IInv
  <2> QED
    BY <2>1, <2>2 DEF PlayoutNext, loopVars, historyVars, LoopType, Stopped
<1>8. CASE Cleanup
  <2>1. errorcode = "0" => ~\E i \in Indices : url[i].playing
    BY <1>8 DEF Cleanup, Stopped
  <2>2. ReportCode
    BY <1>0, <1>8, <2>1 DEF Cleanup, ReportCode, ErrorCodes
  <2> QED
    BY <1>8, <2>2 DEF Cleanup, historyVars, LoopType, LoopPlaces, Stopped, PlayoutNext
<1>9. CASE CleanupUnmaps
  BY <1>9 DEF CleanupUnmaps, historyVars, LoopType, LoopPlaces, Stopped
<1>10. ASSUME NEW i \in Streams, TornBytes(i)
       PROVE  [PlayoutNext]_playoutVars /\ LoopType' /\ Stopped'
  BY <1>10, TornBytesType
<1> QED
  BY <1>1, <1>2, <1>3, <1>4, <1>5, <1>6, <1>7, <1>8, <1>9, <1>10 DEF LoopStep
-----------------------------------------------------------------------------
(* The steps of the ladder. *)

\* The exit line is printed with a code.
LEMMA ExitLineType ==
    ASSUME lines \in Seq((ErrorCodes \ {"0"}) \cup {"WERSCREWED"}), NEW code \in ErrorCodes
    PROVE  lines \o ExitLine(code) \in Seq((ErrorCodes \ {"0"}) \cup {"WERSCREWED"})
<1> DEFINE L == (ErrorCodes \ {"0"}) \cup {"WERSCREWED"}
<1>1. (IF code = "0" THEN "WERSCREWED" ELSE code) \in L
  OBVIOUS
<1> HIDE DEF L
<1>2. ExitLine(code) \in Seq(L) /\ lines \in Seq(L)
  BY <1>1 DEF ExitLine, L
<1>3. lines \o ExitLine(code) \in Seq(L)
  BY <1>2, ConcatProperties
<1> QED
  BY <1>3 DEF L

\* Whatever the reports of an iteration, the ladder stays in its domain.
LEMMA NextLevelType ==
    ASSUME LadderType, NEW report, NEW code \in ErrorCodes, NextLevel(report, code),
           report \in Seq((ErrorCodes \ {"0"}) \cup {"WERSCREWED"})
    PROVE  LadderType'
<1> DEFINE L == (ErrorCodes \ {"0"}) \cup {"WERSCREWED"}
<1>1. ExitLine(code) \in Seq(L)
  <2>1. (IF code = "0" THEN "WERSCREWED" ELSE code) \in L
    OBVIOUS
  <2> HIDE DEF L
  <2> QED
    BY <2>1 DEF ExitLine
<1>2. lines \in Seq(L) /\ report \in Seq(L)
  BY DEF LadderType
<1> HIDE DEF L
<1>3. lines \o report \in Seq(L) /\ (lines \o report) \o ExitLine(code) \in Seq(L)
  BY <1>1, <1>2, ConcatProperties
<1>4. lines' = lines \o report \/ lines' = (lines \o report) \o ExitLine(code)
  BY DEF NextLevel
<1>5. lines' \in Seq(L)
  BY <1>3, <1>4
<1>6. /\ adaptive' = adaptive /\ plain' = plain
      /\ ladder' \in {"adaptive", "plain", "exit"} /\ level' \in Nat \ {0}
  BY DEF NextLevel, LadderType, listVars
<1> QED
  BY <1>5, <1>6 DEF LadderType, L

\* What every attempt starts from.
LEMMA FreshType == [i \in Streams |-> FreshUrl] \in [Streams -> VideoUrl]
BY DEF FreshUrl, VideoUrl

\* A step of the ladder restarts the playout, sets its error code, or leaves it.
LEMMA LadderStepRefines ==
    ASSUME IInv, LoopType, LadderType, LadderStep
    PROVE  [PlayoutNext]_playoutVars /\ LoopType' /\ LadderType' /\ Stopped'
<1>0. errorcode \in ErrorCodes
  BY DEF IInv
<1>1. CASE SkipLevel
  <2>1. /\ NewAttempt(TRUE) /\ NextLevel(<<>>, "0") /\ UNCHANGED loopVars
        /\ loop = "idle"
    BY <1>1 DEF SkipLevel, Choosing
  <2>2. <<>> \in Seq((ErrorCodes \ {"0"}) \cup {"WERSCREWED"}) /\ "0" \in ErrorCodes
    BY DEF ErrorCodes
  <2>3. LadderType'
    BY <2>1, <2>2, NextLevelType
  <2> QED
    BY <2>1, <2>3 DEF PlayoutNext, loopVars, historyVars, LoopType, Stopped
<1>2. CASE NoAdaptiveUrl
  BY <1>2 DEF NoAdaptiveUrl, historyVars, LoopType, LoopPlaces, LadderType, ladderVars, listVars, Stopped
<1>3. CASE NoPlainUrl
  <2>1. \E fail \in BOOLEAN : NewAttempt(fail)
    <3>1. (~OneBitrate) \in BOOLEAN
      OBVIOUS
    <3> QED
      BY <1>3, <3>1, Zenon DEF NoPlainUrl
  <2>2. url' \in [Streams -> VideoUrl]
    BY <1>3 DEF NoPlainUrl, FreshUrl, VideoUrl
  <2>3. LoopType' /\ Stopped'
    BY <1>3, <2>2 DEF NoPlainUrl, LoopType, LoopPlaces, Stopped
  <2>4. LadderType'
    BY <1>3 DEF NoPlainUrl, LadderType, ladderVars, listVars
  <2> QED
    BY <2>1, <2>3, <2>4 DEF PlayoutNext
<1>4. CASE TryLevel
  <2>1. PICK n \in 1..2, fail \in BOOLEAN : StartAttempt(n, fail)
    <3> DEFINE n == IF ladder = "adaptive" THEN 2 ELSE 1
               fail == ~(UrlsLeft \/ OneBitrate)
    <3>1. n \in 1..2 /\ fail \in BOOLEAN
      OBVIOUS
    <3>2. StartAttempt(n, fail)
      BY <1>4, Zenon DEF TryLevel
    <3> HIDE DEF n, fail
    <3> QED
      BY <3>1, <3>2, Zenon
  <2>2. /\ loop' = "top" /\ numofstreams' = n /\ url' = [i \in Streams |-> FreshUrl]
        /\ inflight' = {} /\ used' = [i \in Streams |-> 0] /\ first' = FALSE
        /\ received' = [i \in Streams |-> 0] /\ torn' = {} /\ cut' = {}
        /\ NewAttempt(fail)
    BY <2>1 DEF StartAttempt
  <2>3. /\ url' \in [Streams -> VideoUrl]
        /\ used' \in [Streams -> Nat] /\ received' \in [Streams -> Nat]
    BY <2>2, FreshType
  <2>4. LoopType' /\ Stopped'
    <3>1. numofstreams' \in 0..2 /\ loop' # "break" /\ loop' \in LoopPlaces
      BY <2>2 DEF LoopPlaces
    <3> QED
      BY <2>2, <2>3, <3>1 DEF LoopType, Stopped
  <2>5. LadderType'
    BY <1>4 DEF TryLevel, LadderType, ladderVars, listVars
  <2> QED
    BY <2>2, <2>4, <2>5 DEF PlayoutNext
<1>5. CASE JudgeAttempt
  <2>1. errorcode' \in ErrorCodes
    BY <1>0, <1>5 DEF JudgeAttempt, ErrorCodes
  <2>2. ReportCode /\ LoopType' /\ Stopped'
    BY <1>5, <2>1 DEF JudgeAttempt, historyVars, ReportCode, LoopType, LoopPlaces, Stopped
  <2>3. CASE Retries(errorcode') /\ NextLevel(<<errorcode'>>, errorcode')
    <3>1. errorcode' \in (ErrorCodes \ {"0"}) \cup {"WERSCREWED"}
      BY <2>3 DEF Retries, ErrorCodes
    <3>2. <<errorcode'>> \in Seq((ErrorCodes \ {"0"}) \cup {"WERSCREWED"})
      BY <3>1
    <3>3. LadderType'
      BY <2>1, <2>3, <3>2, NextLevelType
    <3> QED
      BY <2>2, <3>3 DEF PlayoutNext
  <2>4. CASE ladder' = "exit" /\ lines' = lines \o ExitLine(errorcode')
             /\ UNCHANGED <<listVars, level>>
    <3> DEFINE L == (ErrorCodes \ {"0"}) \cup {"WERSCREWED"}
    <3>1. (IF errorcode' = "0" THEN "WERSCREWED" ELSE errorcode') \in L
      BY <2>1
    <3>2. lines \in Seq(L)
      BY DEF LadderType
    <3> HIDE DEF L
    <3>3. lines' \in Seq(L)
      BY <2>4, <3>1, <3>2, ConcatProperties DEF ExitLine
    <3>4. LadderType'
      BY <2>4, <3>3 DEF LadderType, L, listVars
    <3> QED
      BY <2>2, <3>4 DEF PlayoutNext
  <2> QED
    BY <1>5, <2>3, <2>4 DEF JudgeAttempt
<1>6. CASE ParserExits
  <2>1. UNCHANGED playoutVars /\ LoopType' /\ Stopped'
    BY <1>6 DEF ParserExits, loopVars, historyVars, LoopType, Stopped
  <2>2. lines' \in Seq((ErrorCodes \ {"0"}) \cup {"WERSCREWED"})
    BY <1>0, <1>6, ExitLineType DEF ParserExits, LadderType
  <2>3. LadderType'
    BY <1>6, <2>2 DEF ParserExits, LadderType, listVars
  <2> QED
    BY <2>1, <2>3
<1> QED
  BY <1>1, <1>2, <1>3, <1>4, <1>5, <1>6 DEF LadderStep
-----------------------------------------------------------------------------
(* The ranges of a stream. *)

\* What the parser got of stream i: all of the ranges before the request in flight, and
\* what is in the buffer of that one.  A stream stops only when its file is complete.
\* A byte that an answer left out is never asked for again: what is sent of the stream
\* from then on tears it.
Ranged(i) ==
    /\ url[i].range1 = 0 => url[i].range0 = 0 /\ received[i] = 0 /\ i \notin cut
    /\ i \in inflight =>
          /\ url[i].playing /\ url[i].range1 > 0 /\ url[i].range0 <= url[i].range1
          /\ used[i] <= Offered(i)
    /\ i \in inflight \ torn =>
          \/ url[i].range0 < FileSize(i) /\ received[i] = url[i].range0 + used[i]
          \/ url[i].range0 >= FileSize(i) /\ used[i] = 0
    /\ i \notin torn => received[i] <= RangeEnd(i)
    /\ i \notin cut /\ i \notin inflight /\ url[i].range1 > 0 => received[i] = RangeEnd(i)
    /\ i \in inflight \ cut => url[i].range0 < FileSize(i) \/ received[i] = FileSize(i)
    /\ i \notin cut /\ url[i].range1 > 0 /\ ~url[i].playing => received[i] = FileSize(i)
    /\ i \in cut \ torn =>
          received[i] <= url[i].range1 /\ (i \in inflight => url[i].range0 >= FileSize(i))

Ranges ==
    /\ inflight \subseteq Indices /\ TornOnlyByCut /\ cut \subseteq Indices
    /\ \A i \in Indices : Ranged(i)

\* A loop that ended without an error has asked for every file, and got it.
Codes ==
    /\ loop = "top" => inflight = {}
    /\ loop \in {"top", "get", "break"} => errorcode # "ITWORKED"
    /\ loop = "break" /\ errorcode = "0" =>
          \A i \in Indices : url[i].range1 > 0 /\ ~url[i].playing
    /\ WorkedMeansComplete

DownloadInv == Ranges /\ Codes

LEMMA BitratePositive == \A i \in Streams : Bitrate(i) \in Nat \ {0}
<1> SUFFICES ASSUME NEW i \in Streams PROVE Bitrate(i) \in Nat \ {0}
  OBVIOUS
<1>1. Tracks(i) = {i} \/ Tracks(i) = {0, 1}
  BY DEF Tracks, Streams
<1>2. Cardinality({i}) = 1 /\ Cardinality({0, 1}) \in Nat \ {0}
  <2>1. Cardinality({i}) = 1
    BY FS_Singleton
  <2>2. {0, 1} = {0} \cup {1} /\ IsFiniteSet({0, 1})
    <3>1. {0, 1} = {0} \cup {1}
      OBVIOUS
    <3>2. IsFiniteSet({0}) /\ IsFiniteSet({1})
      BY FS_Singleton
    <3> QED
      BY <3>1, <3>2, FS_Union, Zenon
  <2>3. Cardinality({0, 1}) # 0
    <3>1. {0, 1} # {}
      OBVIOUS
    <3> QED
      BY <2>2, <3>1, FS_EmptySet, Zenon
  <2> QED
    BY <2>1, <2>2, <2>3, FS_CardinalityType
<1>3. Cardinality(Tracks(i)) \in Nat \ {0}
  BY <1>1, <1>2
<1>4. \A a, b \in Nat \ {0} : a * b \in Nat \ {0}
  OBVIOUS
<1> QED
  BY <1>3, <1>4, LoopAssumption DEF Bitrate

LEMMA RangeAdditionPositive ==
    ASSUME metric \in Metric, Awake \in Int
    PROVE  \A i \in Streams : RangeAddition(i) \in Nat \ {0}
<1> SUFFICES ASSUME NEW i \in Streams PROVE RangeAddition(i) \in Nat \ {0}
  OBVIOUS
<1> DEFINE chunk == IF BufferSeconds - PlayoutBuffer(metric.TSlist[i], Awake) >= ChunkMinimum
                    THEN ChunkMinimum ELSE ChunkFetch
<1>1. chunk \in Nat \ {0}
  BY LoopAssumption
<1>2. RangeAddition(i) = Bitrate(i) * chunk
  BY DEF RangeAddition
<1> HIDE DEF chunk
<1>3. \A a, b \in Nat \ {0} : a * b \in Nat \ {0}
  OBVIOUS
<1> QED
  BY <1>1, <1>2, <1>3, BitratePositive

LEMMA IndicesAreStreams == Indices \subseteq Streams
BY DEF Indices

\* What does not touch a stream keeps what is known of it.
LEMMA RangedKept ==
    ASSUME NEW i \in Streams, Ranged(i), numofstreams' = numofstreams, url'[i] = url[i],
           received'[i] = received[i], used'[i] = used[i], (i \in inflight') = (i \in inflight),
           (i \in torn') = (i \in torn), (i \in cut') = (i \in cut)
    PROVE  Ranged(i)'
<1>1. FileSize(i)' = FileSize(i)
  BY DEF FileSize
<1>2. RangeEnd(i)' = RangeEnd(i) /\ Offered(i)' = Offered(i)
  BY <1>1 DEF RangeEnd, Offered
<1> QED
  BY <1>1, <1>2 DEF Ranged

LEMMA RangesKept ==
    ASSUME Ranges, UNCHANGED <<numofstreams, url, inflight, used, received, torn, cut>>
    PROVE  Ranges' /\ Indices' = Indices /\ (\A i \in Streams : FileSize(i)' = FileSize(i))
<1>1. Indices' = Indices /\ Indices \subseteq Streams
  BY DEF Indices
<1>2. \A i \in Indices : Ranged(i)'
  <2> SUFFICES ASSUME NEW i \in Indices PROVE Ranged(i)'
    OBVIOUS
  <2>1. i \in Streams /\ Ranged(i)
    BY <1>1 DEF Ranges
  <2> QED
    BY <2>1, RangedKept
<1>3. \A i \in Streams : FileSize(i)' = FileSize(i)
  BY DEF FileSize
<1> QED
  BY <1>1, <1>2, <1>3 DEF Ranges, TornOnlyByCut

\* A stream asks for what follows its last range, and nothing of it is there yet.
LEMMA LoadsStream ==
    ASSUME IInv, LoopType, DownloadInv, LoadStreams, NEW i \in Indices
    PROVE  Ranged(i)' /\ url'[i].playing = Playing(i)
           /\ (~Playing(i) => url'[i].range1 > 0) /\ (i \in torn' => i \in cut)
<1> USE DEF DownloadInv
<1> DEFINE more == IF Wants(i) THEN RangeAddition(i) ELSE 0
<1>0. metric \in Metric /\ Awake \in Int
  BY AwakeType DEF IInv, Sound
<1>1. i \in Streams /\ Ranged(i) /\ i \notin inflight /\ torn \subseteq cut
  BY IndicesAreStreams DEF Ranges, LoadStreams, Codes, TornOnlyByCut
<1>2. url'[i] = [range0 |-> NextRange0(i), range1 |-> url[i].range1 + more,
                 playing |-> Playing(i)]
  BY <1>1 DEF LoadStreams
<1>3. more \in Nat /\ (Wants(i) => more > 0) /\ (~Wants(i) => more = 0)
  BY <1>0, <1>1, RangeAdditionPositive
<1> HIDE DEF more
<1>4. /\ url'[i].range0 = NextRange0(i) /\ url'[i].range1 = url[i].range1 + more
      /\ url'[i].playing = Playing(i)
  BY <1>2
<1>5. /\ received[i] \in Nat /\ url[i].range0 \in Nat /\ url[i].range1 \in Nat
      /\ FileSize(i) \in Nat /\ RangeEnd(i) \in Nat
  BY <1>1, SizesType
<1>6. /\ numofstreams' = numofstreams /\ received' = received /\ cut' = cut
      /\ inflight' = {j \in Indices : Wants(j)}
      /\ used' = [j \in Streams |-> IF j \in inflight' THEN 0 ELSE used[j]]
      /\ torn' = torn \cup {j \in inflight' : /\ NextRange0(j) # received[j]
                                              /\ NextRange0(j) < FileSize(j)}
  BY DEF LoadStreams
<1>7. FileSize(i)' = FileSize(i)
  BY <1>6 DEF FileSize
<1>8. /\ RangeEnd(i)' = IF url[i].range1 + more < FileSize(i)
                        THEN url[i].range1 + more + 1 ELSE FileSize(i)
      /\ RangeEnd(i)' \in Nat /\ RangeEnd(i)' >= RangeEnd(i)
  BY <1>3, <1>4, <1>5, <1>7 DEF RangeEnd
<1>9. /\ i \in inflight' <=> Wants(i)
      /\ i \in inflight' => used'[i] = 0
      /\ i \in torn' <=> \/ i \in torn
                         \/ Wants(i) /\ NextRange0(i) # received[i] /\ NextRange0(i) < FileSize(i)
  BY <1>1, <1>6
<1>10. Offered(i)' \in Nat
  <2>1. /\ RangeEnd(i)' \in Nat /\ url'[i].range0 \in Nat
        /\ Offered(i)' = IF RangeEnd(i)' > url'[i].range0 THEN RangeEnd(i)' - url'[i].range0 ELSE 0
    BY <1>4, <1>5, <1>8 DEF NextRange0, Offered, RangeEnd
  <2> QED
    BY <2>1
<1>11. CASE url[i].range1 = 0
  <2>1. NextRange0(i) = 0 /\ Playing(i) /\ received[i] = 0 /\ i \notin cut
    BY <1>1, <1>11 DEF Ranged, NextRange0, Playing
  <2>2. i \notin torn' /\ i \notin cut'
    BY <1>1, <1>6, <1>9, <2>1
  <2>3. Ranged(i)'
    BY <1>1, <1>3, <1>4, <1>5, <1>6, <1>7, <1>8, <1>9, <1>10, <1>11, <2>1, <2>2 DEF Ranged
  <2> QED
    BY <1>4, <2>1, <2>2, <2>3
<1>12. CASE url[i].range1 > 0
  <2>1. NextRange0(i) = url[i].range1 + 1 /\ Playing(i) = url[i].playing
    BY <1>1, <1>12, SizesType DEF NextRange0, Playing
  <2>2. url'[i].range1 > 0
    BY <1>3, <1>4, <1>5, <1>12
  <2>3. CASE i \notin cut
    <3>1. received[i] = IF url[i].range1 < FileSize(i) THEN url[i].range1 + 1 ELSE FileSize(i)
      BY <1>1, <1>12, <2>3 DEF Ranged, RangeEnd
    <3>2. ~url[i].playing => received[i] = FileSize(i)
      BY <1>1, <1>12, <2>3 DEF Ranged
    <3>3. i \notin torn' /\ i \notin cut'
      BY <1>1, <1>5, <1>6, <1>9, <2>1, <2>3, <3>1
    <3>4. Ranged(i)'
      BY <1>3, <1>4, <1>5, <1>6, <1>7, <1>8, <1>9, <1>10, <1>12, <2>1, <3>1, <3>2, <3>3
         DEF Ranged, Wants
    <3> QED
      BY <1>4, <2>2, <3>3, <3>4
  <2>4. CASE i \in cut
    <3>1. i \notin torn => received[i] <= url[i].range1 /\ received[i] <= RangeEnd(i)
      BY <1>1, <2>4 DEF Ranged
    <3>2. i \notin torn' => /\ received[i] <= url[i].range1 /\ received[i] <= RangeEnd(i)
                            /\ Wants(i) => NextRange0(i) >= FileSize(i)
      BY <1>5, <1>9, <2>1, <3>1
    <3>3. Ranged(i)'
      BY <1>3, <1>4, <1>5, <1>6, <1>7, <1>8, <1>9, <1>10, <1>12, <2>1, <2>2, <2>4, <3>2
         DEF Ranged, Wants
    <3> QED
      BY <1>4, <2>2, <2>4, <3>3
  <2> QED
    BY <2>3, <2>4
<1> QED
  BY <1>5, <1>11, <1>12

LEMMA LoadStreamsRanges ==
    ASSUME IInv, LoopType, DownloadInv, LoadStreams
    PROVE  DownloadInv'
<1> USE DEF DownloadInv
<1>1. /\ loop = "top" /\ numofstreams' = numofstreams /\ cut' = cut
      /\ inflight' = {i \in Indices : Wants(i)} /\ errorcode' = errorcode
      /\ errorcode # "ITWORKED"
      /\ loop' = IF \E i \in Indices : Playing(i) THEN "get" ELSE "break"
  BY DEF LoadStreams, TimePasses, Codes
<1>2. Indices' = Indices
  BY <1>1 DEF Indices
<1>3. \A i \in Indices : /\ Ranged(i)' /\ url'[i].playing = Playing(i)
                         /\ ~Playing(i) => url'[i].range1 > 0
  BY LoadsStream
<1>4. TornOnlyByCut'
  <2> SUFFICES ASSUME NEW i \in torn' PROVE i \in cut
    BY <1>1 DEF TornOnlyByCut
  <2>1. i \in torn \/ i \in Indices
    BY <1>1 DEF LoadStreams
  <2> QED
    BY <2>1, LoadsStream DEF Ranges, TornOnlyByCut
<1>5. Ranges'
  BY <1>1, <1>2, <1>3, <1>4 DEF Ranges
<1>6. Codes'
  BY <1>1, <1>2, <1>3 DEF Codes, WorkedMeansComplete
<1> QED
  BY <1>5, <1>6

\* What arrives stays inside of the range.
LEMMA PacketRanges ==
    ASSUME LoopType, DownloadInv, NEW i \in Streams, Packet(i)
    PROVE  DownloadInv' /\ i \notin cut /\ received[i] = url[i].range0 + used[i]
<1> USE DEF DownloadInv
<1>1. /\ loop = "get" /\ loop' = "get" /\ i \in inflight /\ i \notin torn
      /\ UNCHANGED <<numofstreams, url, inflight, torn, cut>>
  BY PacketMoves
<1>2. PICK g \in Nat : /\ g > used[i] /\ g <= Offered(i)
                       /\ used' = [used EXCEPT ![i] = g]
                       /\ received' = [received EXCEPT ![i] = url[i].range0 + g]
  BY PacketMoves
<1>3. /\ used[i] \in Nat /\ url[i].range0 \in Nat /\ url[i].range1 \in Nat
      /\ FileSize(i) \in Nat /\ RangeEnd(i) \in Nat /\ Offered(i) \in Nat
      /\ url[i].range0 + Offered(i) = RangeEnd(i) /\ url[i].range0 < FileSize(i)
  BY <1>2, SizesType, OfferedType
<1>4. i \in Indices /\ Ranged(i)
  BY <1>1 DEF Ranges
<1>5. /\ i \notin cut /\ received[i] = url[i].range0 + used[i]
      /\ url[i].playing /\ url[i].range1 > 0 /\ url[i].range0 <= url[i].range1
  BY <1>1, <1>3, <1>4 DEF Ranged
<1>6. errorcode' # "ITWORKED"
  <2>1. errorcode' = errorcode \/ errorcode' = "ERROR_STALL"
    BY DEF Packet, Frame, Checkstall, playoutVars
  <2> QED
    BY <1>1, <2>1 DEF Codes
<1>7. \A j \in Indices : Ranged(j)'
  <2> SUFFICES ASSUME NEW j \in Indices PROVE Ranged(j)'
    OBVIOUS
  <2>1. /\ j \in Streams /\ Ranged(j)
        /\ received \in [Streams -> Nat] /\ used \in [Streams -> Nat]
    BY IndicesAreStreams DEF Ranges, LoopType
  <2>2. CASE j # i
    <3>1. received'[j] = received[j] /\ used'[j] = used[j]
      BY <1>2, <2>1, <2>2
    <3> QED
      BY <1>1, <2>1, <3>1, RangedKept
  <2>3. CASE j = i
    <3>1. received'[i] = url[i].range0 + g /\ used'[i] = g
      BY <1>2, <2>1
    <3>2. FileSize(i)' = FileSize(i) /\ RangeEnd(i)' = RangeEnd(i) /\ Offered(i)' = Offered(i)
      BY <1>1 DEF FileSize, RangeEnd, Offered
    <3> QED
      BY <1>1, <1>2, <1>3, <1>5, <2>3, <3>1, <3>2 DEF Ranged
  <2> QED
    BY <2>2, <2>3
<1>8. Ranges'
  BY <1>1, <1>7 DEF Ranges, Indices, TornOnlyByCut
<1> QED
  BY <1>1, <1>5, <1>6, <1>8 DEF Codes, WorkedMeansComplete

\* Bytes that the parser cannot use change nothing of what it got.
LEMMA TornBytesRanges ==
    ASSUME LoopType, DownloadInv, NEW i \in Streams, TornBytes(i)
    PROVE  DownloadInv'
<1> USE DEF DownloadInv
<1>1. /\ loop = "get" /\ loop' \in {"get", "exited", "crashed"} /\ i \in inflight /\ i \in torn
      /\ used' = [used EXCEPT ![i] = Offered(i)]
      /\ UNCHANGED <<numofstreams, url, inflight, received, torn, cut, errorcode>>
  BY DEF TornBytes, Awaited, historyVars, playoutVars
<1>2. \A j \in Indices : Ranged(j)'
  <2> SUFFICES ASSUME NEW j \in Indices PROVE Ranged(j)'
    OBVIOUS
  <2>1. j \in Streams /\ Ranged(j) /\ used \in [Streams -> Nat]
    BY IndicesAreStreams DEF Ranges, LoopType
  <2>2. CASE j # i
    <3>1. used'[j] = used[j]
      BY <1>1, <2>1, <2>2
    <3> QED
      BY <1>1, <2>1, <3>1, RangedKept
  <2>3. CASE j = i
    <3>1. used'[i] = Offered(i) /\ Offered(i) \in Nat
      BY <1>1, <2>1, OfferedType
    <3>2. FileSize(i)' = FileSize(i) /\ RangeEnd(i)' = RangeEnd(i) /\ Offered(i)' = Offered(i)
      BY <1>1 DEF FileSize, RangeEnd, Offered
    <3> QED
      BY <1>1, <2>1, <2>3, <3>1, <3>2 DEF Ranged
  <2> QED
    BY <2>2, <2>3
<1>3. Ranges'
  BY <1>1, <1>2 DEF Ranges, Indices, TornOnlyByCut
<1> QED
  BY <1>1, <1>3 DEF Codes, WorkedMeansComplete

\* A range that was delivered is short only at the end of the file.
LEMMA EndOfRange ==
    ASSUME LoopType, NEW i \in Streams, used[i] = Offered(i),
           url[i].range0 < FileSize(i), url[i].range0 <= url[i].range1, Short(i)
    PROVE  RangeEnd(i) = FileSize(i)
<1>1. /\ url[i].range0 \in Nat /\ url[i].range1 \in Nat /\ FileSize(i) \in Nat
  BY SizesType
<1>2. used[i] = RangeEnd(i) - url[i].range0
  BY <1>1, OfferedType, SizesType
<1>3. CASE url[i].range1 < FileSize(i)
  <2>1. RangeEnd(i) = url[i].range1 + 1
    BY <1>3 DEF RangeEnd
  <2> QED
    BY <1>1, <1>2, <2>1 DEF Short
<1> QED
  BY <1>3 DEF RangeEnd

\* The stream of a result: without a cut it has its range, with one a byte is missing.
LEMMA ResultRanged ==
    ASSUME LoopType, NEW i \in Indices, Ranged(i), i \in inflight, TakeResult(i),
           torn \subseteq cut,
           \/ used[i] = Offered(i) /\ cut' = cut
           \/ used[i] < Offered(i) /\ cut' = cut \cup {i}
    PROVE  Ranged(i)'
<1> DEFINE p == url[i].playing /\ ~Short(i)
<1>1. /\ url' = [url EXCEPT ![i].playing = p] /\ inflight' = inflight \ {i}
      /\ UNCHANGED <<numofstreams, used, received, torn>>
  BY DEF TakeResult
<1>2. /\ i \in Streams /\ url \in [Streams -> VideoUrl] /\ url[i] \in VideoUrl
      /\ used[i] \in Nat /\ url[i].range0 \in Nat /\ url[i].range1 \in Nat
      /\ received[i] \in Nat /\ FileSize(i) \in Nat /\ RangeEnd(i) \in Nat
      /\ RangeEnd(i) <= FileSize(i) /\ RangeEnd(i) <= url[i].range1 + 1
  BY IndicesAreStreams, SizesType DEF LoopType
<1>3. /\ url[i].playing /\ url[i].range1 > 0 /\ url[i].range0 <= url[i].range1
  BY DEF Ranged
<1>4. ~p => Short(i)
  BY <1>3
<1> HIDE DEF p
<1>5. url'[i] = [url[i] EXCEPT !.playing = p]
  BY <1>1, <1>2
<1>6. /\ url'[i].range0 = url[i].range0 /\ url'[i].range1 = url[i].range1
      /\ url'[i].playing = p
  BY <1>2, <1>5 DEF VideoUrl
<1>7. FileSize(i)' = FileSize(i) /\ RangeEnd(i)' = RangeEnd(i)
  BY <1>1, <1>6 DEF FileSize, RangeEnd
<1>8. i \notin inflight' /\ torn' = torn /\ received'[i] = received[i]
  BY <1>1
<1>9. CASE i \in torn
  <2>1. i \in cut'
    BY <1>9
  <2> QED
    BY <1>3, <1>6, <1>8, <1>9, <2>1 DEF Ranged
<1>10. CASE i \notin torn /\ i \notin cut'
  <2>1. used[i] = Offered(i) /\ i \notin cut
    BY <1>10
  <2>2. received[i] = RangeEnd(i) /\ (Short(i) => RangeEnd(i) = FileSize(i))
    <3>1. CASE url[i].range0 < FileSize(i)
      <4>1. received[i] = url[i].range0 + used[i]
        BY <1>2, <1>10, <3>1 DEF Ranged
      <4>2. url[i].range0 + Offered(i) = RangeEnd(i)
        BY <1>2, <1>3, <3>1, OfferedType
      <4> QED
        BY <1>2, <1>3, <2>1, <3>1, <4>1, <4>2, EndOfRange
    <3>2. CASE url[i].range0 >= FileSize(i)
      <4>1. received[i] = FileSize(i)
        BY <1>2, <2>1, <3>2 DEF Ranged
      <4>2. RangeEnd(i) = FileSize(i)
        BY <1>2, <1>3, <3>2 DEF RangeEnd
      <4> QED
        BY <4>1, <4>2
    <3> QED
      BY <1>2, <3>1, <3>2
  <2> QED
    BY <1>2, <1>3, <1>4, <1>6, <1>7, <1>8, <1>10, <2>2 DEF Ranged
<1>11. CASE i \notin torn /\ i \in cut'
  <2>1. received[i] <= url[i].range1 /\ received[i] <= RangeEnd(i)
    <3>1. CASE i \in cut
      BY <1>11, <3>1 DEF Ranged
    <3>2. CASE used[i] < Offered(i)
      <4>1. url[i].range0 + Offered(i) = RangeEnd(i) /\ url[i].range0 < FileSize(i)
            /\ Offered(i) \in Nat
        BY <1>2, <3>2, OfferedType
      <4>2. received[i] = url[i].range0 + used[i]
        BY <1>2, <1>11, <4>1 DEF Ranged
      <4> QED
        BY <1>2, <3>2, <4>1, <4>2
    <3> QED
      BY <1>11, <3>1, <3>2
  <2> QED
    BY <1>3, <1>6, <1>7, <1>8, <1>11, <2>1 DEF Ranged
<1> QED
  BY <1>9, <1>10, <1>11

LEMMA ResultRanges ==
    ASSUME LoopType, DownloadInv, NEW i \in Streams, Result(i) \/ CutResult(i)
    PROVE  DownloadInv'
<1> USE DEF DownloadInv
<1>1. /\ loop = "get" /\ loop' = loop /\ i \in inflight /\ TakeResult(i)
      /\ inflight' = inflight \ {i} /\ errorcode' = errorcode
      /\ UNCHANGED <<numofstreams, used, received, torn>>
  BY DEF Result, CutResult, TakeResult, Awaited, playoutVars
<1>2. \/ used[i] = Offered(i) /\ cut' = cut
      \/ used[i] < Offered(i) /\ cut' = cut \cup {i}
  BY DEF Result, CutResult
<1>3. i \in Indices /\ torn \subseteq cut /\ Indices' = Indices
  BY <1>1 DEF Ranges, TornOnlyByCut, Indices
<1>4. \A j \in Indices : Ranged(j)'
  <2> SUFFICES ASSUME NEW j \in Indices PROVE Ranged(j)'
    OBVIOUS
  <2>1. j \in Streams /\ Ranged(j) /\ url \in [Streams -> VideoUrl]
    BY IndicesAreStreams DEF Ranges, LoopType
  <2>2. CASE j # i
    <3> DEFINE p == url[i].playing /\ ~Short(i)
    <3>1. url' = [url EXCEPT ![i].playing = p]
      BY <1>1 DEF TakeResult
    <3> HIDE DEF p
    <3>2. /\ url'[j] = url[j] /\ (j \in inflight') = (j \in inflight)
          /\ (j \in cut') = (j \in cut)
      BY <1>1, <1>2, <2>1, <2>2, <3>1
    <3> QED
      BY <1>1, <2>1, <3>2, RangedKept
  <2>3. CASE j = i
    BY <1>1, <1>2, <1>3, <2>1, <2>3, ResultRanged
  <2> QED
    BY <2>2, <2>3
<1>5. Ranges'
  BY <1>1, <1>2, <1>3, <1>4 DEF Ranges, TornOnlyByCut
<1> QED
  BY <1>1, <1>5 DEF Codes, WorkedMeansComplete

LEMMA LoopStepRanges ==
    ASSUME IInv, LoopType, DownloadInv, LoopStep
    PROVE  DownloadInv'
<1> USE DEF DownloadInv
<1>1. CASE LoadStreams
  BY <1>1, LoadStreamsRanges
<1>2. ASSUME NEW i \in Streams, Packet(i) PROVE DownloadInv'
  BY <1>2, PacketRanges
<1>3. ASSUME NEW i \in Streams, Result(i) \/ CutResult(i) PROVE DownloadInv'
  BY <1>3, ResultRanges
<1>4. ASSUME NEW i \in Streams, NEW code \in ErrorCodes, ResultError(i, code)
      PROVE  DownloadInv'
  <2>1. /\ UNCHANGED <<numofstreams, url, inflight, used, received, torn, cut>>
        /\ loop' = "break" /\ errorcode' \notin {"0", "ITWORKED"}
    BY <1>4 DEF ResultError, historyVars
  <2> QED
    BY <2>1, RangesKept DEF Codes, WorkedMeansComplete
<1>5. CASE ResultOfEngine
  <2>1. /\ UNCHANGED <<numofstreams, url, inflight, used, received, torn, cut>>
        /\ loop' = "crashed" \/ (loop' = "break" /\ errorcode' \notin {"0", "ITWORKED"})
    BY <1>5 DEF ResultOfEngine, historyVars
  <2> QED
    BY <2>1, RangesKept DEF Codes, WorkedMeansComplete
<1>6. CASE NoResult
  <2>1. /\ UNCHANGED <<numofstreams, url, inflight, used, received, torn, cut>>
        /\ inflight = {}
        /\ \/ loop' = "top" /\ errorcode' = "0"
           \/ loop' = "break" /\ errorcode' \notin {"0", "ITWORKED"}
    BY <1>6 DEF NoResult, Codes, historyVars
  <2> QED
    BY <2>1, RangesKept DEF Codes, WorkedMeansComplete
<1>7. CASE Wait
  <2>1. /\ UNCHANGED <<numofstreams, url, inflight, used, received, torn, cut, errorcode>>
        /\ loop = "get" /\ loop' = "get"
    BY <1>7 DEF Wait, TimePasses, loopVars, historyVars
  <2> QED
    BY <2>1, RangesKept DEF Codes, WorkedMeansComplete
<1>8. CASE Cleanup
  <2>1. /\ UNCHANGED <<numofstreams, url, inflight, used, received, torn, cut>>
        /\ loop = "break" /\ loop' = "done"
        /\ errorcode' = "ITWORKED" => errorcode = "0"
    BY <1>8 DEF Cleanup, Codes, historyVars
  <2>2. errorcode = "0" => \A i \in Indices \ cut : received[i] = FileSize(i)
    <3> SUFFICES ASSUME errorcode = "0", NEW i \in Indices \ cut
                 PROVE  received[i] = FileSize(i)
      OBVIOUS
    <3>1. url[i].range1 > 0 /\ ~url[i].playing
      BY <2>1 DEF Codes
    <3> QED
      BY <3>1 DEF Ranges, Ranged
  <2>3. Ranges' /\ Indices' = Indices /\ (\A i \in Streams : FileSize(i)' = FileSize(i))
    BY <2>1, RangesKept
  <2>4. WorkedMeansComplete'
    BY <2>1, <2>2, <2>3, IndicesAreStreams DEF WorkedMeansComplete
  <2> QED
    BY <2>1, <2>3, <2>4 DEF Codes
<1>9. CASE CleanupUnmaps
  <2>1. /\ UNCHANGED <<numofstreams, url, inflight, used, received, torn, cut>>
        /\ loop' = "crashed"
    BY <1>9 DEF CleanupUnmaps, historyVars
  <2> QED
    BY <2>1, RangesKept DEF Codes, WorkedMeansComplete
<1>10. ASSUME NEW i \in Streams, TornBytes(i) PROVE DownloadInv'
  BY <1>10, TornBytesRanges
<1> QED
  BY <1>1, <1>2, <1>3, <1>4, <1>5, <1>6, <1>7, <1>8, <1>9, <1>10 DEF LoopStep

LEMMA LadderStepRanges ==
    ASSUME DownloadInv, LadderStep
    PROVE  DownloadInv'
<1> USE DEF DownloadInv
<1>1. CASE SkipLevel \/ NoAdaptiveUrl \/ JudgeAttempt \/ ParserExits
  <2>1. /\ UNCHANGED <<numofstreams, url, inflight, used, received, torn, cut>>
        /\ loop' \in {"idle", "crashed", "exited"}
    BY <1>1 DEF SkipLevel, NoAdaptiveUrl, JudgeAttempt, ParserExits, Choosing, loopVars,
                historyVars
  <2> QED
    BY <2>1, RangesKept DEF Codes, WorkedMeansComplete
<1>2. CASE NoPlainUrl \/ TryLevel
  <2>1. /\ loop' \in {"get", "top"} /\ inflight' = {} /\ torn' = {} /\ cut' = {}
        /\ \A i \in Streams : url'[i].range0 = 0 /\ url'[i].range1 = 0 /\ received'[i] = 0
        /\ errorcode' = "0"
    <3>1. CASE NoPlainUrl
      BY <3>1 DEF NoPlainUrl, NewAttempt, FreshUrl
    <3>2. CASE TryLevel
      <4>1. PICK n, fail : StartAttempt(n, fail)
        BY <3>2, Zenon DEF TryLevel
      <4> QED
        BY <4>1 DEF StartAttempt, NewAttempt, FreshUrl
    <3> QED
      BY <1>2, <3>1, <3>2
  <2>2. \A i \in Streams : (FileSize(i) \in Nat)'
    BY FileSizeTypeNext
  <2>3. \A i \in Streams : Ranged(i)'
    <3> SUFFICES ASSUME NEW i \in Streams PROVE Ranged(i)'
      OBVIOUS
    <3>1. (RangeEnd(i) \in Nat)'
      BY <2>1, <2>2 DEF RangeEnd
    <3> QED
      BY <2>1, <3>1 DEF Ranged
  <2>4. Ranges'
    <3>1. Indices' \subseteq Streams
      BY DEF Indices
    <3> QED
      BY <2>1, <2>3, <3>1 DEF Ranges, TornOnlyByCut
  <2> QED
    BY <2>1, <2>4 DEF Codes, WorkedMeansComplete
<1> QED
  BY <1>1, <1>2 DEF LadderStep

LEMMA DownloadStarts == LoopInit => DownloadInv
<1> SUFFICES ASSUME LoopInit PROVE DownloadInv
  OBVIOUS
<1>1. inflight = {} /\ torn = {} /\ cut = {} /\ loop = "idle" /\ numofstreams = 0
  BY DEF LoopInit
<1>2. Indices = {}
  BY <1>1 DEF Indices, Streams
<1> QED
  BY <1>1, <1>2 DEF DownloadInv, Ranges, Codes, TornOnlyByCut, WorkedMeansComplete

LEMMA DownloadNext ==
    ASSUME PlayerInv, DownloadInv, [Next]_vars
    PROVE  DownloadInv'
<1>1. CASE LoopStep
  BY <1>1, LoopStepRanges DEF PlayerInv
<1>2. CASE LadderStep
  BY <1>2, LadderStepRanges
<1>3. CASE UNCHANGED vars
  <2>1. UNCHANGED <<numofstreams, url, inflight, used, received, torn, cut, loop, errorcode>>
    BY <1>3 DEF vars, loopVars, historyVars, playoutVars
  <2>2. Ranges' /\ Indices' = Indices /\ (\A i \in Streams : FileSize(i)' = FileSize(i))
    BY <2>1, RangesKept DEF DownloadInv
  <2> QED
    BY <2>1, <2>2, IndicesAreStreams DEF DownloadInv, Codes, WorkedMeansComplete
<1> QED
  BY <1>1, <1>2, <1>3 DEF Next, Finished

LEMMA RangesContiguous == DownloadInv => TornOnlyByCut /\ WorkedMeansComplete
BY DEF DownloadInv, Ranges, Codes
-----------------------------------------------------------------------------
(* How far the downloads are ahead of the playout. *)

\* LEN_CHUNK_MINIMUM is no less than MIN_PREBUFFER, nor LEN_CHUNK_FETCH than
\* MIN_STALLBUFFER (youtube-dl.h).
ChunksFillBuffers == MinPrebuffer <= ChunkMinimum /\ MinStallbuffer <= ChunkFetch

\* The bitrate of a single file is that of both of its tracks up to its end.
TracksEndTogether == EndTogether(Length)

\* The file of a track.
OneFile == numofstreams = 1
FileOf(k) == IF OneFile THEN 0 ELSE k

\* The tracks of which everything was read, and those of which nothing more is: an answer
\* with their file ended early.
Over == {k \in Streams : metric.TSlist[k] >= Length[k]}
Lost == {k \in Streams : FileOf(k) \in cut}
Dry == Over \cup Lost

\* The playing time that was asked of a file, and how far a track comes with that.
Units(i) == url[i].range1 \div Bitrate(i)
GoalOf(k) ==
    IF k \in Lost THEN metric.TSlist[k]
    ELSE IF Units(FileOf(k)) < Length[k] THEN Units(FileOf(k)) ELSE Length[k]
Goal == [k \in Streams |-> GoalOf(k)]

\* Ranges hold whole chunks.
WholeChunks ==
    \A i \in Indices : /\ url[i].range1 = Bitrate(i) * Units(i)
                       /\ Units(i) = 0 \/ Units(i) >= ChunkMinimum

\* A track was read up to the last packet that was received of it.
ReadToEnd ==
    \A k \in Streams \ Lost :
        metric.TSlist[k] = Reached(OneFile, Length, k, received[FileOf(k)] \div PacketSize)

\* A track that goes on was asked for no less far than the other, and has not fallen
\* behind of it by more than the buffer and a chunk.
Even == \A s, k \in Streams : k \in Lost \/ Goal[k] = Length[k] \/ Goal[s] <= Goal[k]
Near ==
    \A s, k \in Streams :
        k \in Dry \/ Goal[s] - metric.TSlist[k] <= BufferSeconds + ChunkFetch

\* What is asked for does not overfill the buffer, whenever it arrives.
Filling ==
    /\ numofstreams \in {1, 2} /\ WholeChunks /\ ReadToEnd /\ Even /\ Near
    /\ Fits(metric, now, minbuffer, Goal, Dry, BufferSeconds + ChunkFetch)

BufferInv ==
    /\ Buffering /\ BufferBounded
    /\ loop \in {"top", "get"} => Filling

LEMMA BitrateIs ==
    ASSUME NEW i \in Streams, numofstreams \in {1, 2}
    PROVE  Bitrate(i) = IF OneFile THEN PacketSize * 2 ELSE PacketSize
<1>1. Cardinality({i}) = 1 /\ Cardinality({0, 1}) = 2
  <2>1. Cardinality({i}) = 1 /\ Cardinality({0}) = 1 /\ IsFiniteSet({0})
    BY FS_Singleton
  <2>2. Cardinality({0} \cup {1}) = IF 1 \in {0} THEN Cardinality({0}) ELSE Cardinality({0}) + 1
    BY <2>1, FS_AddElement
  <2>3. {0} \cup {1} = {0, 1} /\ 1 \notin {0}
    OBVIOUS
  <2> QED
    BY <2>1, <2>2, <2>3
<1>2. Tracks(i) = IF OneFile THEN {0, 1} ELSE {i}
  BY DEF Tracks, OneFile, Streams
<1>3. CASE OneFile
  BY <1>1, <1>2, <1>3 DEF Bitrate
<1>4. CASE ~OneFile
  <2>1. PacketSize * 1 = PacketSize
    BY LoopAssumption
  <2> QED
    BY <1>1, <1>2, <1>4, <2>1 DEF Bitrate
<1> QED
  BY <1>3, <1>4

LEMMA BitratePositiveNext == (\A i \in Streams : Bitrate(i) \in Nat \ {0})'
BY BitratePositive, PTL

LEMMA UnitsType == LoopType => \A i \in Streams : Units(i) \in Nat /\ FileOf(i) \in Streams
<1> SUFFICES ASSUME LoopType, NEW i \in Streams PROVE Units(i) \in Nat /\ FileOf(i) \in Streams
  OBVIOUS
<1>1. url[i].range1 \in Nat /\ Bitrate(i) \in Nat \ {0}
  BY SizesType, BitratePositive
<1> QED
  BY <1>1 DEF Units, FileOf, Streams

LEMMA GoalType ==
    ASSUME IInv, LoopType
    PROVE  /\ Goal \in [Streams -> Int]
           /\ \A k \in Streams : Goal[k] = GoalOf(k)
           /\ \A k \in Streams \ Lost :
                 /\ Units(FileOf(k)) \in Nat /\ Length[k] \in Nat
                 /\ Goal[k] = IF Units(FileOf(k)) < Length[k] THEN Units(FileOf(k)) ELSE Length[k]
           /\ \A k \in Lost : Goal[k] = metric.TSlist[k]
<1>1. \A k \in Streams : metric.TSlist[k] \in Int /\ Length[k] \in Nat
  BY LoopAssumption DEF IInv, Sound, Metric
<1>2. \A k \in Streams : Units(FileOf(k)) \in Nat
  BY UnitsType
<1>3. \A k \in Streams : GoalOf(k) \in Int
  BY <1>1, <1>2 DEF GoalOf
<1>4. Lost \subseteq Streams
  BY DEF Lost
<1> QED
  BY <1>1, <1>2, <1>3, <1>4 DEF Goal, GoalOf

\* A track is read as far as its file was received: never beyond what was asked for, and
\* up to there when the request was answered.
LEMMA ReadAsAsked ==
    ASSUME TracksEndTogether
    PROVE  IInv /\ LoopType /\ Ranges /\ Filling =>
               \A k \in Streams :
                   /\ metric.TSlist[k] <= Goal[k]
                   /\ FileOf(k) \notin inflight \/ k \in Lost => metric.TSlist[k] = Goal[k]
<1> SUFFICES ASSUME IInv, LoopType, Ranges, Filling, NEW k \in Streams
             PROVE  /\ metric.TSlist[k] <= Goal[k]
                    /\ FileOf(k) \notin inflight \/ k \in Lost => metric.TSlist[k] = Goal[k]
  OBVIOUS
<1>1. CASE k \in Lost
  <2>1. Goal[k] = metric.TSlist[k] /\ metric.TSlist[k] \in Int
    BY <1>1, GoalType DEF IInv, Sound, Metric
  <2> QED
    BY <2>1
<1>2. CASE k \notin Lost
  <2> DEFINE i == FileOf(k)
             u == Units(i)
             a == IF OneFile THEN 2 * u ELSE u
             l == Packets(OneFile, Length, k)
             n == received[i] \div PacketSize
  <2>1. i \in Indices /\ i \in Streams /\ numofstreams \in {1, 2}
    BY DEF Filling, FileOf, OneFile, Indices, Streams
  <2>2. Ranged(i) /\ url[i].range1 = Bitrate(i) * u /\ i \notin cut /\ i \notin torn
    BY <1>2, <2>1 DEF Ranges, Filling, WholeChunks, Lost, TornOnlyByCut
  <2>3. /\ u \in Nat /\ a \in Nat
        /\ Goal[k] = IF u < Length[k] THEN u ELSE Length[k]
    BY <1>2, GoalType
  <2>4. /\ PacketSize \in Nat \ {0, 1} /\ Length \in [Streams -> Nat]
        /\ Length[0] \in Nat /\ Length[1] \in Nat /\ Length[k] \in Nat
    BY LoopAssumption DEF Streams
  <2>5. l \in Nat
    BY <2>4 DEF Packets
  <2>6. FileSize(i) = PacketSize * l
    BY <2>1 DEF FileSize, Packets, OneFile, FileOf
  <2>7. url[i].range1 = PacketSize * a
    <3>1. (PacketSize * 2) * u = PacketSize * (2 * u)
      BY <2>3, <2>4
    <3>2. CASE OneFile
      BY <2>1, <2>2, <3>1, <3>2, BitrateIs
    <3>3. CASE ~OneFile
      BY <2>1, <2>2, <3>3, BitrateIs
    <3> QED
      BY <3>2, <3>3
  <2>8. RangeEnd(i) \div PacketSize = IF a < l THEN a ELSE l
    <3>1. RangeEnd(i) = IF PacketSize * a < PacketSize * l THEN PacketSize * a + 1
                        ELSE PacketSize * l
      BY <2>6, <2>7 DEF RangeEnd
    <3> HIDE DEF a, l
    <3> QED
      BY <2>3, <2>4, <2>5, <3>1, PacketsOfRange
  <2>9. OneFile \in BOOLEAN /\ EndTogether(Length)
    BY DEF OneFile, TracksEndTogether
  <2>10. Reached(OneFile, Length, k, IF a < l THEN a ELSE l) = Goal[k]
    <3>1. Reached(OneFile, Length, k, IF a < l THEN a ELSE l)
              = IF u < Length[k] THEN u ELSE Length[k]
      <4> HIDE DEF u
      <4> QED
        BY <2>3, <2>4, <2>9, ReachedChunks
    <3> QED
      BY <2>3, <3>1
  <2>11. metric.TSlist[k] = Reached(OneFile, Length, k, n)
    BY <1>2 DEF Filling, ReadToEnd
  <2>12. /\ received[i] \in Nat /\ RangeEnd(i) \in Nat /\ received[i] <= RangeEnd(i)
         /\ url[i].range1 \in Nat
    BY <2>1, <2>2, SizesType DEF Ranged
  <2>13. n \in Nat /\ n <= RangeEnd(i) \div PacketSize
    <3> DEFINE x == received[i]
               y == RangeEnd(i)
    <3>1. x \in Nat /\ y \in Nat /\ x <= y /\ PacketSize \in Nat \ {0}
      BY <2>4, <2>12
    <3> HIDE DEF x, y
    <3>2. x \div PacketSize <= y \div PacketSize /\ x \div PacketSize \in Nat
      BY <3>1, PacketsGrow
    <3> QED
      BY <3>2 DEF x, y
  <2>14. metric.TSlist[k] <= Goal[k]
    <3> DEFINE m == IF a < l THEN a ELSE l
    <3>1. m \in Nat /\ n <= m
      BY <2>3, <2>5, <2>8, <2>13
    <3> HIDE DEF m, n
    <3>2. Reached(OneFile, Length, k, n) <= Reached(OneFile, Length, k, m)
      BY <2>4, <2>9, <2>13, <3>1, ReachedGrows
    <3> QED
      BY <2>10, <2>11, <3>2 DEF m
  <2>15. ASSUME i \notin inflight PROVE metric.TSlist[k] = Goal[k]
    <3>1. CASE url[i].range1 > 0
      <4>1. received[i] = RangeEnd(i)
        BY <2>2, <2>15, <3>1 DEF Ranged
      <4> QED
        BY <2>8, <2>10, <2>11, <4>1
    <3>2. CASE url[i].range1 = 0
      <4>1. n = 0
        BY <2>2, <2>4, <3>2 DEF Ranged
      <4>2. u = 0
        BY <2>1, <3>2, BitratePositive DEF Units
      <4>3. Reached(OneFile, Length, k, 0) = 0
        BY <2>4 DEF Reached, Least
      <4>4. Goal[k] = 0
        BY <2>3, <2>4, <4>2
      <4> HIDE DEF n
      <4> QED
        BY <2>11, <4>1, <4>3, <4>4
    <3> QED
      BY <2>12, <3>1, <3>2
  <2> QED
    BY <1>2, <2>14, <2>15
<1> QED
  BY <1>1, <1>2

\* The buffer is bounded while the video plays.
LEMMA FillingBounded ==
    ASSUME TracksEndTogether
    PROVE  IInv /\ LoopType /\ Ranges /\ Filling => BufferBounded
<1> SUFFICES ASSUME IInv, LoopType, Ranges, Filling, Started, metric.Tmin >= 0,
                    NEW k \in Streams
             PROVE  Ahead(k) <= BufferSeconds + ChunkFetch
  BY DEF BufferBounded
<1>1. /\ metric.TSlist[k] \in Int /\ metric.TS0 \in Int /\ metric.Tmin \in Int /\ now \in Int
      /\ metric.initialprebuftime \in Int
  BY DEF IInv, Sound, Metric
<1>2. Goal[k] \in Int /\ metric.TSlist[k] <= Goal[k]
  BY GoalType, ReadAsAsked
<1>3. ~Paused(metric)
  BY <1>1 DEF Started, Paused
<1>4. Goal[k] - metric.TS0 - (now - metric.Tmin) <= BufferSeconds + ChunkFetch
  BY <1>3 DEF Filling, Fits
<1>5. Ahead(k) = (metric.TSlist[k] - metric.TS0) - (now - metric.Tmin)
  BY <1>1 DEF Ahead, PlayoutBuffer
<1> QED
  BY <1>1, <1>2, <1>4, <1>5, LoopAssumption

LEMMA FillingBoundedNext ==
    ASSUME TracksEndTogether
    PROVE  (IInv /\ LoopType /\ Ranges /\ Filling => BufferBounded)'
BY FillingBounded, PTL

\* Time passes, results are taken, or an answer ends early: what was asked for of the tracks
\* that are lost with it does not come any more.
LEMMA FillingKept ==
    ASSUME TracksEndTogether, IInv, LoopType, Ranges, Filling,
           UNCHANGED <<numofstreams, received, metric, minbuffer>>,
           \A i \in Streams : url'[i].range1 = url[i].range1,
           cut \subseteq cut', now' \in Int, now' >= now
    PROVE  Filling'
<1> DEFINE cap == BufferSeconds + ChunkFetch
<1>1. /\ OneFile' = OneFile /\ Indices' = Indices /\ Indices \subseteq Streams
      /\ \A k \in Streams : FileOf(k)' = FileOf(k) /\ FileOf(k) \in Streams
  BY DEF OneFile, Indices, FileOf, Streams
<1>2. \A i \in Streams : Bitrate(i)' = Bitrate(i)
  BY DEF Bitrate, Tracks
<1>3. /\ Lost \subseteq Lost' /\ Lost' \in SUBSET Streams /\ Lost \in SUBSET Streams
      /\ Over' = Over /\ Over \in SUBSET Streams
  BY <1>1 DEF Lost, Over
<1>4. /\ Dry \subseteq Dry' /\ Dry' \in SUBSET Streams /\ Dry \in SUBSET Streams
      /\ \A k \in Streams : k \notin Dry' => k \notin Dry
  BY <1>3 DEF Dry
<1>5. \A i \in Streams : Units(i)' = Units(i)
  BY <1>2 DEF Units
<1>6. /\ Goal \in [Streams -> Int] /\ \A k \in Streams : Goal[k] = GoalOf(k)
      /\ metric \in Metric /\ metric.TSlist \in [Streams -> Int] /\ now \in Int /\ cap \in Int
  BY GoalType, LoopAssumption DEF IInv, Sound, Metric
<1>7. \A k \in Streams : metric.TSlist[k] <= Goal[k]
  BY ReadAsAsked
<1>8. \A k \in Streams : /\ Goal'[k] = IF k \in Lost' THEN metric.TSlist[k] ELSE Goal[k]
                         /\ Goal'[k] <= Goal[k] /\ Goal'[k] \in Int
  <2> SUFFICES ASSUME NEW k \in Streams
               PROVE  /\ Goal'[k] = IF k \in Lost' THEN metric.TSlist[k] ELSE Goal[k]
                      /\ Goal'[k] <= Goal[k] /\ Goal'[k] \in Int
    OBVIOUS
  <2>1. Goal'[k] = IF k \in Lost' THEN metric.TSlist[k]
                   ELSE IF Units(FileOf(k)) < Length[k] THEN Units(FileOf(k)) ELSE Length[k]
    BY <1>1, <1>5 DEF Goal, GoalOf
  <2>2. k \notin Lost' =>
            Goal[k] = IF Units(FileOf(k)) < Length[k] THEN Units(FileOf(k)) ELSE Length[k]
    BY <1>3, <1>6 DEF GoalOf
  <2> QED
    BY <1>6, <1>7, <2>1, <2>2
<1>9. Goal' \in [Streams -> Int]
  <2>1. Goal' = [k \in Streams |-> Goal'[k]]
    BY DEF Goal
  <2> QED
    BY <1>8, <2>1
<1>10. WholeChunks'
  BY <1>1, <1>2, <1>5 DEF Filling, WholeChunks
<1>11. ReadToEnd'
  BY <1>1, <1>3 DEF Filling, ReadToEnd
<1>12. Even'
  <2> SUFFICES ASSUME NEW s \in Streams, NEW k \in Streams, k \notin Lost', Goal'[k] # Length[k]
               PROVE  Goal'[s] <= Goal'[k]
    BY DEF Even
  <2>1. k \notin Lost /\ Goal'[k] = Goal[k]
    BY <1>3, <1>8
  <2>2. Goal[s] <= Goal[k]
    BY <2>1 DEF Filling, Even
  <2> QED
    BY <1>6, <1>8, <2>1, <2>2
<1>13. Near'
  <2> SUFFICES ASSUME NEW s \in Streams, NEW k \in Streams, k \notin Dry'
               PROVE  Goal'[s] - metric.TSlist[k] <= cap
    BY DEF Near
  <2>1. Goal[s] - metric.TSlist[k] <= cap
    BY <1>4 DEF Filling, Near
  <2> QED
    BY <1>6, <1>8, <2>1
<1>14. Fits(metric', now', minbuffer', Goal', Dry', cap)
  <2>1. Fits(metric, now, minbuffer, Goal, Dry, cap)
    BY DEF Filling
  <2> HIDE DEF cap
  <2> QED
    BY <1>4, <1>6, <1>8, <1>9, <2>1, FitsLess
<1> QED
  BY <1>10, <1>11, <1>12, <1>13, <1>14 DEF Filling

\* Nothing was asked for yet.
LEMMA FillingStarts ==
    ASSUME LoopType', numofstreams' \in {1, 2}, cut' = {},
           \A i \in Streams : url'[i].range1 = 0 /\ received'[i] = 0,
           metric'.TSlist = [i \in Streams |-> 0], metric'.TS0 = 0,
           metric'.initialprebuftime = -1
    PROVE  Filling'
<1>1. \A i \in Streams : Units(i)' = 0
  <2> SUFFICES ASSUME NEW i \in Streams PROVE Units(i)' = 0
    OBVIOUS
  <2>1. Bitrate(i)' \in Nat \ {0}
    BY BitratePositiveNext
  <2> QED
    BY <2>1 DEF Units
<1>2. /\ \A k \in Streams : FileOf(k)' \in Streams /\ Length[k] \in Nat
      /\ \A i \in Streams : Bitrate(i)' \in Nat
      /\ BufferSeconds + ChunkFetch \in Nat
  BY BitratePositiveNext, LoopAssumption DEF FileOf, Streams
<1>3. \A k \in Streams : GoalOf(k)' = 0
  BY <1>1, <1>2 DEF GoalOf, Lost
<1>4. \A k \in Streams : Goal'[k] = 0
  BY <1>3 DEF Goal
<1>5. WholeChunks'
  BY <1>1, <1>2 DEF WholeChunks, Indices
<1>6. ReadToEnd'
  <2>1. \A k \in Streams : received'[FileOf(k)'] \div PacketSize = 0
    BY <1>2, LoopAssumption
  <2>2. \A both \in BOOLEAN, k \in Streams : Reached(both, Length, k, 0) = 0
    BY LoopAssumption DEF Reached, Least, Streams
  <2>3. OneFile' \in BOOLEAN
    BY DEF OneFile
  <2> QED
    BY <2>1, <2>2, <2>3 DEF ReadToEnd
<1>7. Even' /\ Near'
  BY <1>2, <1>4 DEF Even, Near
<1>8. Fits(metric', now', minbuffer', Goal', Dry', BufferSeconds + ChunkFetch)
  BY <1>2, <1>4 DEF Fits, Paused
<1> QED
  BY <1>5, <1>6, <1>7, <1>8 DEF Filling

\* A packet moves the track that it is of.
LEMMA FillingPacket ==
    ASSUME IInv, LoopType, DownloadInv, Filling, TracksEndTogether,
           NEW i \in Streams, Packet(i)
    PROVE  Filling'
<1> USE DEF DownloadInv
<1> DEFINE n == (received[i] \div PacketSize) + 1
           end == n * PacketSize
           t == TrackOf(i, n)
           ts == TimestampOf(i, n)
           cap == BufferSeconds + ChunkFetch
<1>0. /\ i \in inflight /\ i \in Indices /\ numofstreams \in {1, 2} /\ i \notin cut
      /\ received[i] = url[i].range0 + used[i]
      /\ UNCHANGED <<numofstreams, url, cut>>
  BY PacketMoves, PacketRanges DEF Ranges, Filling
<1>1. /\ received[i] \in Nat /\ RangeEnd(i) \in Nat /\ FileSize(i) \in Nat
      /\ RangeEnd(i) <= FileSize(i) /\ url[i].range0 + Offered(i) = RangeEnd(i)
      /\ received[i] < RangeEnd(i)
      /\ received \in [Streams -> Nat] /\ PacketSize \in Nat \ {0, 1}
  <2>1. used[i] < Offered(i)
    BY DEF Packet
  <2> QED
    BY <1>0, <2>1, SizesType, OfferedType, LoopAssumption DEF LoopType
<1>2. n \in Nat \ {0} /\ end \in Nat /\ end > received[i] /\ received[i] \div PacketSize = n - 1
  <2>1. n \in Nat \ {0} /\ received[i] \div PacketSize = n - 1
    BY <1>1
  <2>2. end > received[i]
    BY <1>1, PacketEnd
  <2> HIDE DEF n
  <2>3. end \in Nat
    BY <1>1, <2>1, Products
  <2> QED
    BY <2>1, <2>2, <2>3
<1>3. /\ OneFile' = OneFile /\ Indices' = Indices /\ Indices \subseteq Streams
      /\ Lost' = Lost /\ Lost \in SUBSET Streams
      /\ \A k \in Streams : FileOf(k)' = FileOf(k) /\ FileOf(k) \in Streams
  BY <1>0 DEF OneFile, Indices, Lost, FileOf, Streams
<1>4. \A k \in Streams : Bitrate(k)' = Bitrate(k) /\ Units(k)' = Units(k)
  BY <1>0 DEF Bitrate, Tracks, Units
<1>5. /\ metric \in Metric /\ metric.TSlist \in [Streams -> Int] /\ now \in Int
      /\ Goal \in [Streams -> Int] /\ Over \in SUBSET Streams /\ Dry \in SUBSET Streams
      /\ cap \in Int /\ Length \in [Streams -> Nat]
  BY <1>3, GoalType, LoopAssumption DEF IInv, Sound, Metric, Over, Dry
<1>6. \A k \in Streams \ Lost :
          metric.TSlist[k] = Reached(OneFile, Length, k, received[FileOf(k)] \div PacketSize)
  BY DEF Filling, ReadToEnd
<1>7. WholeChunks'
  BY <1>0, <1>3, <1>4 DEF Filling, WholeChunks
<1>8. CASE end > RangeEnd(i)
  <2>1. received' = [received EXCEPT ![i] = RangeEnd(i)] /\ UNCHANGED playoutVars
    BY <1>0, <1>1, <1>2, <1>8 DEF Packet
  <2>2. RangeEnd(i) \div PacketSize = n - 1
    <3> DEFINE y == RangeEnd(i)
    <3>1. y \in Nat /\ received[i] <= y /\ y < n * PacketSize
      BY <1>1, <1>2, <1>8
    <3> HIDE DEF y, n
    <3>2. y \div PacketSize >= n - 1
      BY <1>1, <1>2, <3>1, PacketsGrow
    <3>3. y \div PacketSize < n
      BY <1>1, <1>2, <3>1
    <3> QED
      BY <1>1, <1>2, <3>1, <3>2, <3>3 DEF y
  <2>3. \A j \in Streams : received'[j] \div PacketSize = received[j] \div PacketSize
    BY <1>1, <1>2, <2>1, <2>2
  <2>4. metric' = metric /\ now' = now /\ minbuffer' = minbuffer
    BY <2>1 DEF playoutVars
  <2>5. ReadToEnd'
    BY <1>3, <1>6, <2>3, <2>4 DEF ReadToEnd
  <2>6. Goal' = Goal /\ Dry' = Dry
    BY <1>3, <1>4, <2>4 DEF Goal, GoalOf, Dry, Over
  <2>7. Even' /\ Near' /\ Fits(metric', now', minbuffer', Goal', Dry', cap)
    BY <1>3, <2>4, <2>6 DEF Filling, Even, Near
  <2> QED
    BY <1>0, <1>7, <2>5, <2>7 DEF Filling
<1>9. CASE end <= RangeEnd(i)
  <2>1. received' = [received EXCEPT ![i] = end] /\ Frame(t, ts)
    BY <1>0, <1>1, <1>9 DEF Packet
  <2>2. end \div PacketSize = n
    <3>1. (PacketSize * n + 0) \div PacketSize = n
      BY <1>1, <1>2, ProductQuotient
    <3> HIDE DEF n
    <3>2. end = PacketSize * n + 0
      BY <1>1, <1>2
    <3> QED
      BY <3>1, <3>2
  <2>3. /\ t \in Streams /\ FileOf(t) = i /\ \A k \in Streams \ {t} : FileOf(k) = i => OneFile
        /\ OneFile \in BOOLEAN
        /\ OneFile => \A k \in Streams : FileOf(k) = i
    <3> HIDE DEF n
    <3>1. CASE numofstreams = 2
      BY <1>0, <3>1 DEF TrackOf, FileOf, OneFile, Streams
    <3>2. CASE numofstreams = 1
      BY <1>0, <1>2, <3>2 DEF TrackOf, FileOf, OneFile, Indices, Streams
    <3> QED
      BY <1>0, <3>1, <3>2
  <2>4. n <= Packets(OneFile, Length, t)
    <3> DEFINE l == Packets(OneFile, Length, t)
    <3>1. FileSize(i) = PacketSize * l /\ l \in Nat
      BY <1>0, <1>5, <2>3 DEF FileSize, Packets, OneFile, FileOf, Streams
    <3>2. n * PacketSize <= FileSize(i)
      BY <1>1, <1>2, <1>9
    <3> HIDE DEF l, n
    <3> QED
      BY <1>1, <1>2, <3>1, <3>2, PacketInFile DEF l
  <2>5. /\ OneFile => /\ EndTogether(Length)
                      /\ t = IF n <= 2 * Least(Length) THEN (n + 1) % 2
                             ELSE IF Length[0] > Length[1] THEN 0 ELSE 1
        /\ ts = IF ~OneFile THEN n
                ELSE IF n <= 2 * Least(Length) THEN (n + 1) \div 2 ELSE n - Least(Length)
    BY <1>0 DEF OneFile, TrackOf, TimestampOf, Shorter, TracksEndTogether
  <2> HIDE DEF t, ts, n
  <2>6. /\ Reached(OneFile, Length, t, n) = ts
        /\ Reached(OneFile, Length, t, n - 1) < Length[t]
        /\ OneFile => \A k \in Streams \ {t} :
              Reached(OneFile, Length, k, n) = Reached(OneFile, Length, k, n - 1)
    BY <1>2, <1>5, <2>3, <2>4, <2>5, ReachedPacket
  <2>7. t \notin Lost /\ t \notin Dry
    <3>1. t \notin Lost
      BY <1>0, <2>3 DEF Lost
    <3>2. metric.TSlist[t] < Length[t]
      BY <1>2, <1>6, <2>3, <2>6, <3>1
    <3> QED
      BY <1>5, <2>3, <3>1, <3>2 DEF Over, Dry
  <2>8. /\ metric'.TSlist = [metric.TSlist EXCEPT ![t] = ts]
        /\ ts \in Nat /\ ts >= metric.TSlist[t] /\ now' = now
    BY <1>5, <2>1, CheckedList DEF Frame, Checkstall
  <2>9. ReadToEnd'
    <3> SUFFICES ASSUME NEW k \in Streams \ Lost
                 PROVE  metric'.TSlist[k]
                            = Reached(OneFile, Length, k, received'[FileOf(k)] \div PacketSize)
      BY <1>3 DEF ReadToEnd
    <3>1. CASE k = t
      BY <1>1, <1>5, <2>1, <2>2, <2>3, <2>6, <2>8, <3>1
    <3>2. CASE k # t /\ FileOf(k) = i
      BY <1>1, <1>2, <1>5, <1>6, <2>1, <2>2, <2>3, <2>6, <2>8, <3>2
    <3>3. CASE k # t /\ FileOf(k) # i
      BY <1>1, <1>3, <1>5, <1>6, <2>1, <2>8, <3>3
    <3> QED
      BY <3>1, <3>2, <3>3
  <2>10. Goal' = Goal
    <3>1. ASSUME NEW k \in Streams PROVE GoalOf(k)' = GoalOf(k)
      <4>1. CASE k \in Lost
        BY <1>3, <1>5, <2>7, <2>8, <4>1 DEF GoalOf
      <4>2. CASE k \notin Lost
        BY <1>3, <1>4, <4>2 DEF GoalOf
      <4> QED
        BY <4>1, <4>2
    <3> QED
      BY <3>1 DEF Goal
  <2>11. Dry \subseteq Dry' /\ Dry' \in SUBSET Streams
    <3>1. Over \subseteq Over' /\ Over' \in SUBSET Streams
      BY <1>5, <2>7, <2>8 DEF Over, Dry
    <3> QED
      BY <1>3, <3>1 DEF Dry
  <2>12. \A s, k \in Streams : k \in Dry' \/ Goal[s] - metric'.TSlist[k] <= cap
    <3> SUFFICES ASSUME NEW s \in Streams, NEW k \in Streams, k \notin Dry'
                 PROVE  Goal[s] - metric'.TSlist[k] <= cap
      OBVIOUS
    <3>1. k \notin Dry /\ Goal[s] \in Int
      BY <1>5, <2>11
    <3>2. Goal[s] - metric.TSlist[k] <= cap
      BY <3>1 DEF Filling, Near
    <3>3. metric'.TSlist[k] >= metric.TSlist[k] /\ metric'.TSlist[k] \in Int
          /\ metric.TSlist[k] \in Int
      BY <1>5, <2>8
    <3> QED
      BY <1>5, <3>1, <3>2, <3>3
  <2>13. Fits(metric', now', minbuffer', Goal, Dry', cap)
    <3>1. Fits(metric, now, minbuffer, Goal, Dry, cap)
      BY DEF Filling
    <3> QED
      BY <1>5, <2>1, <2>3, <2>7, <2>11, <2>12, <3>1, FrameFits
  <2>14. Even' /\ Near'
    BY <1>3, <2>10, <2>12 DEF Filling, Even, Near
  <2> QED
    BY <1>0, <1>7, <2>9, <2>10, <2>13, <2>14 DEF Filling
<1> QED
  BY <1>1, <1>2, <1>8, <1>9

\* load_streams asks for the next chunk of every file that has room in the buffer.
LEMMA FillingLoads ==
    ASSUME ChunksFillBuffers, TracksEndTogether, IInv, Buffering, LoopType, Ranges, Filling,
           inflight = {}, LoadStreams
    PROVE  Filling'
<1> DEFINE list == metric.TSlist
           Buffered(i) == PlayoutBuffer(list[i], Awake)
           Chunk(i) == IF BufferSeconds - Buffered(i) >= ChunkMinimum
                       THEN ChunkMinimum ELSE ChunkFetch
           More(i) == IF Wants(i) THEN Chunk(i) ELSE 0
           Full(k) == list[k] + Chunk(k)
<1>1. /\ metric' = metric /\ minbuffer' = minbuffer /\ numofstreams' = numofstreams
      /\ received' = received /\ cut' = cut /\ now' = Awake /\ Awake \in Int /\ Awake >= now
      /\ now \in Nat /\ metric \in Metric
  BY AwakeType DEF LoadStreams, TimePasses, IInv, Sound
<1>2. /\ Indices' = Indices /\ Indices \subseteq Streams /\ OneFile' = OneFile
      /\ Over' = Over /\ Lost' = Lost /\ Dry' = Dry
      /\ Over \in SUBSET Streams /\ Lost \in SUBSET Streams /\ Dry \in SUBSET Streams
      /\ \A k \in Streams : FileOf(k)' = FileOf(k) /\ FileOf(k) \in Indices
      /\ numofstreams \in {1, 2}
  BY <1>1 DEF Indices, OneFile, Over, Lost, Dry, FileOf, Filling, Streams
<1>3. \A k \in Streams : list[k] = Goal[k]
  BY ReadAsAsked
<1>4. /\ Goal \in [Streams -> Int] /\ list \in [Streams -> Int] /\ Length \in [Streams -> Nat]
      /\ \A k \in Streams : list[k] \in Int /\ Length[k] \in Nat /\ Units(k) \in Nat
      /\ \A k \in Streams \ Lost :
            list[k] = IF Units(FileOf(k)) < Length[k] THEN Units(FileOf(k)) ELSE Length[k]
      /\ metric.TS0 \in Int /\ metric.Tmin \in Int
  BY <1>1, <1>3, GoalType, UnitsType, LoopAssumption DEF Metric
<1>5. \A i \in Streams : Buffered(i) \in Int /\ Chunk(i) \in {ChunkMinimum, ChunkFetch}
  BY <1>1, <1>4 DEF PlayoutBuffer
<1>6. \A i \in Streams : More(i) \in Nat /\ Chunk(i) \in Nat
  BY <1>5, LoopAssumption
<1>7. \A i \in Indices :
          /\ url'[i].range1 = Bitrate(i) * (Units(i) + More(i))
          /\ Bitrate(i)' = Bitrate(i) /\ Units(i)' = Units(i) + More(i)
  <2> SUFFICES ASSUME NEW i \in Indices
               PROVE  /\ url'[i].range1 = Bitrate(i) * (Units(i) + More(i))
                      /\ Bitrate(i)' = Bitrate(i) /\ Units(i)' = Units(i) + More(i)
    OBVIOUS
  <2>1. i \in Streams /\ Bitrate(i) \in Nat \ {0} /\ Bitrate(i)' = Bitrate(i)
    BY <1>1, <1>2, BitratePositive DEF Bitrate, Tracks
  <2>2. url'[i].range1 = url[i].range1 + (IF Wants(i) THEN Bitrate(i) * Chunk(i) ELSE 0)
    BY <2>1 DEF LoadStreams, RangeAddition
  <2>3. url[i].range1 = Bitrate(i) * Units(i)
    BY DEF Filling, WholeChunks
  <2>4. url'[i].range1 = Bitrate(i) * (Units(i) + More(i))
    <3> DEFINE b == Bitrate(i)
               u == Units(i)
               c == Chunk(i)
    <3>1. b \in Nat /\ u \in Nat /\ c \in Nat
      BY <1>4, <1>6, <2>1
    <3>2. url'[i].range1 = b * u + (IF Wants(i) THEN b * c ELSE 0)
      BY <2>2, <2>3
    <3>3. More(i) = IF Wants(i) THEN c ELSE 0
      OBVIOUS
    <3> HIDE DEF b, u, c, More
    <3>4. b * (u + c) = b * u + b * c /\ b * (u + 0) = b * u /\ b * u \in Nat
      BY <3>1, Products
    <3>5. url'[i].range1 = b * (u + More(i))
      BY <3>1, <3>2, <3>3, <3>4
    <3> QED
      BY <3>5 DEF b, u
  <2>5. Units(i)' = Units(i) + More(i)
    <3> DEFINE b == Bitrate(i)
               v == Units(i) + More(i)
    <3>1. b \in Nat /\ 0 < b /\ v \in Nat
      BY <1>2, <1>4, <1>6, <2>1
    <3>2. url'[i].range1 = b * v /\ Units(i)' = url'[i].range1 \div b
      BY <2>1, <2>4 DEF Units
    <3> HIDE DEF b, v
    <3>3. (b * v + 0) \div b = v /\ b * v + 0 = b * v
      BY <3>1, ProductQuotient
    <3> QED
      BY <3>2, <3>3 DEF v
  <2> QED
    BY <2>1, <2>4, <2>5
<1>8. \A k \in Streams :
          Goal'[k] = IF k \in Lost THEN list[k]
                     ELSE IF Units(FileOf(k)) + More(FileOf(k)) < Length[k]
                     THEN Units(FileOf(k)) + More(FileOf(k)) ELSE Length[k]
  BY <1>1, <1>2, <1>7 DEF Goal, GoalOf
<1>9. \A k \in Streams \ Dry :
          list[k] < Length[k] /\ Units(FileOf(k)) = list[k] /\ list[FileOf(k)] = list[k]
  <2> SUFFICES ASSUME NEW k \in Streams, k \notin Dry
               PROVE  /\ list[k] < Length[k] /\ Units(FileOf(k)) = list[k]
                      /\ list[FileOf(k)] = list[k]
    OBVIOUS
  <2>1. list[k] < Length[k] /\ k \notin Lost
    BY <1>4 DEF Over, Dry
  <2>2. Units(FileOf(k)) = list[k] /\ Units(FileOf(k)) \in Nat
    BY <1>2, <1>4, <2>1
  <2>3. CASE ~OneFile
    BY <2>1, <2>2, <2>3 DEF FileOf
  <2>4. CASE OneFile
    <3>1. FileOf(k) = 0 /\ FileOf(0) = 0 /\ 0 \in Streams /\ 1 \in Streams /\ 0 \notin Lost
      BY <2>1, <2>4 DEF FileOf, Lost, Streams
    <3>2. list[0] = IF list[k] < Length[0] THEN list[k] ELSE Length[0]
      BY <1>4, <2>2, <3>1
    <3>3. list[k] <= Length[0]
      BY <1>4, <2>1, <3>1 DEF TracksEndTogether, EndTogether, Streams
    <3> QED
      BY <1>4, <2>1, <2>2, <3>1, <3>2, <3>3
  <2> QED
    BY <2>3, <2>4
<1>10. \A k \in Streams \ Dry : Playing(FileOf(k))
  <2> SUFFICES ASSUME NEW k \in Streams, k \notin Lost, ~Playing(FileOf(k)) PROVE k \in Over
    BY DEF Dry
  <2> DEFINE i == FileOf(k)
             l == Packets(OneFile, Length, k)
             u == Length[0] + Length[1]
             a == IF OneFile THEN 2 * u ELSE u
  <2>1. i \in Indices /\ i \in Streams /\ url[i].range1 > 0 /\ ~url[i].playing
    BY <1>2, SizesType DEF Playing
  <2>2. received[i] = FileSize(i)
    BY <2>1 DEF Ranges, Ranged, Lost
  <2>3. /\ Length \in [Streams -> Nat] /\ u \in Nat /\ u >= Length[k] /\ l \in Nat /\ l <= u
        /\ PacketSize \in Nat \ {0, 1}
    BY <1>4, LoopAssumption DEF Packets, Streams
  <2>4. FileSize(i) = PacketSize * l
    BY <1>2 DEF FileSize, Packets, OneFile, FileOf
  <2>5. received[i] \div PacketSize = l
    <3> HIDE DEF l
    <3>1. (PacketSize * l + 0) \div PacketSize = l /\ PacketSize * l + 0 = PacketSize * l
      BY <2>3, ProductQuotient
    <3> QED
      BY <2>2, <2>4, <3>1
  <2>6. Reached(OneFile, Length, k, l) = Length[k]
    <3>1. OneFile \in BOOLEAN /\ EndTogether(Length)
      BY DEF OneFile, TracksEndTogether
    <3>2. a \in Nat /\ a >= u
      BY <2>3
    <3> HIDE DEF u
    <3>3. Reached(OneFile, Length, k, IF a < Packets(OneFile, Length, k) THEN a
                                      ELSE Packets(OneFile, Length, k))
              = IF u < Length[k] THEN u ELSE Length[k]
      BY <2>3, <3>1, <3>2, ReachedChunks
    <3>4. ~(a < l)
      BY <2>3, <3>2
    <3> HIDE DEF a
    <3> QED
      BY <1>4, <2>3, <3>3, <3>4
  <2>7. list[k] = Length[k]
    BY <2>5, <2>6 DEF Filling, ReadToEnd
  <2> QED
    BY <1>4, <2>7 DEF Over
<1>11. \A s \in Streams :
           Goal'[s] = IF s \in Dry \/ Buffered(s) > BufferSeconds THEN list[s]
                      ELSE IF Full(s) < Length[s] THEN Full(s) ELSE Length[s]
  <2> SUFFICES ASSUME NEW s \in Streams
               PROVE  Goal'[s] = IF s \in Dry \/ Buffered(s) > BufferSeconds THEN list[s]
                                 ELSE IF Full(s) < Length[s] THEN Full(s) ELSE Length[s]
    OBVIOUS
  <2>0. FileOf(s) \in Streams /\ Units(FileOf(s)) \in Nat /\ More(FileOf(s)) \in Nat
    BY <1>2, <1>4, <1>6
  <2>1. CASE s \in Lost
    BY <1>8, <2>1 DEF Dry
  <2>2. CASE s \in Over /\ s \notin Lost
    <3>1. list[s] >= Length[s]
      BY <2>2 DEF Over
    <3>2. Units(FileOf(s)) >= Length[s] /\ list[s] = Length[s]
      BY <1>4, <2>0, <2>2, <3>1
    <3>3. s \in Dry
      BY <2>2 DEF Dry
    <3> HIDE DEF More, list
    <3> QED
      BY <1>4, <1>8, <2>0, <2>2, <3>2, <3>3
  <2>3. CASE s \notin Dry
    <3>1. /\ list[s] < Length[s] /\ Units(FileOf(s)) = list[s]
          /\ list[FileOf(s)] = list[s] /\ Playing(FileOf(s))
      BY <1>9, <1>10, <2>3
    <3>2. Buffered(FileOf(s)) = Buffered(s) /\ Chunk(FileOf(s)) = Chunk(s)
      BY <3>1
    <3>3. Wants(FileOf(s)) = (Buffered(s) <= BufferSeconds)
      BY <3>1, <3>2 DEF Wants
    <3>4. More(FileOf(s)) = IF Buffered(s) <= BufferSeconds THEN Chunk(s) ELSE 0
      BY <3>2, <3>3
    <3>5. (Buffered(s) > BufferSeconds) = ~(Buffered(s) <= BufferSeconds)
      BY <1>5, LoopAssumption
    <3>6. s \notin Lost
      BY <2>3 DEF Dry
    <3> HIDE DEF More, Buffered, Chunk, list
    <3> QED
      BY <1>4, <1>8, <2>3, <3>1, <3>4, <3>5, <3>6
  <2> QED
    BY <2>1, <2>2, <2>3 DEF Dry
<1>12. \A s, k \in Streams : k \in Dry \/ list[s] <= list[k]
  <2> SUFFICES ASSUME NEW s \in Streams, NEW k \in Streams, k \notin Dry
               PROVE  list[s] <= list[k]
    OBVIOUS
  <2>1. k \notin Lost /\ Goal[k] # Length[k]
    BY <1>3, <1>4, <1>9 DEF Dry
  <2> QED
    BY <1>3, <2>1 DEF Filling, Even
<1>13. \A s \in Streams : s \in Dry \/ list[s] = 0 \/ list[s] >= ChunkMinimum
  <2> SUFFICES ASSUME NEW s \in Streams, s \notin Dry
               PROVE  list[s] = 0 \/ list[s] >= ChunkMinimum
    OBVIOUS
  <2>1. Units(FileOf(s)) = list[s] /\ FileOf(s) \in Indices
    BY <1>2, <1>9
  <2> QED
    BY <2>1 DEF Filling, WholeChunks
<1>14. Fits(metric, now, minbuffer, list, Dry, BufferSeconds + ChunkFetch)
  <2>1. list = Goal
    BY <1>3, <1>4
  <2> QED
    BY <2>1 DEF Filling
<1>15. Goal' \in [Streams -> Int]
  <2>1. \A k \in Streams : Goal'[k] \in Int
    <3> HIDE DEF More, list
    <3> QED
      BY <1>2, <1>4, <1>6, <1>8
  <2>2. Goal' = [k \in Streams |-> Goal'[k]]
    BY DEF Goal
  <2> QED
    BY <2>1, <2>2
<1>16. /\ Fits(metric, Awake, minbuffer, Goal', Dry, BufferSeconds + ChunkFetch)
       /\ \A s, k \in Streams : k \in Dry \/ Goal'[k] = Length[k] \/ Goal'[s] <= Goal'[k]
       /\ \A s, k \in Streams : k \in Dry \/ Goal'[s] - list[k] <= BufferSeconds + ChunkFetch
  <2>1. /\ BufferSeconds \in Nat /\ ChunkMinimum \in Nat \ {0} /\ ChunkFetch \in Nat \ {0}
        /\ ChunkMinimum <= BufferSeconds
        /\ MinPrebuffer <= ChunkMinimum /\ MinStallbuffer <= ChunkFetch
    BY LoopAssumption DEF ChunksFillBuffers
  <2>2. \A s \in Streams : s \notin Dry => metric.TSlist[s] < Length[s]
    BY <1>9
  <2>3. Refilled(Goal', Awake, Length, Dry, BufferSeconds, ChunkMinimum, ChunkFetch)
    BY <1>11 DEF Refilled
  <2>4. /\ ~Started => \A s \in Streams :
               s \in Dry \/ metric.TSlist[s] = 0 \/ metric.TSlist[s] >= ChunkMinimum
        /\ \A s, k \in Streams : k \in Dry \/ metric.TSlist[s] <= metric.TSlist[k]
        /\ Fits(metric, now, minbuffer, metric.TSlist, Dry, BufferSeconds + ChunkFetch)
    BY <1>12, <1>13, <1>14
  <2>5. Length \in [Streams -> Nat] /\ Dry \in SUBSET Streams /\ Awake \in Int /\ Awake >= now
    BY <1>1, <1>2, <1>4
  <2> QED
    BY <1>15, <2>1, <2>2, <2>3, <2>4, <2>5, RefillFits
<1>17. WholeChunks'
  <2> SUFFICES ASSUME NEW i \in Indices
               PROVE  /\ url'[i].range1 = Bitrate(i)' * Units(i)'
                      /\ Units(i)' = 0 \/ Units(i)' >= ChunkMinimum
    BY <1>2 DEF WholeChunks
  <2>1. i \in Streams /\ Units(i) \in Nat /\ More(i) \in Nat
    BY <1>2, <1>4, <1>6
  <2>2. CASE Units(i) >= ChunkMinimum
    <3> HIDE DEF More
    <3> QED
      BY <1>7, <2>1, <2>2, LoopAssumption
  <2>3. CASE Units(i) = 0
    <3>1. FileOf(i) = i
      BY <1>2 DEF FileOf, OneFile, Indices, Streams
    <3>2. url[i].range1 = 0
      BY <2>1, <2>3, BitratePositive DEF Filling, WholeChunks
    <3>3. i \notin Lost
      BY <3>1, <3>2 DEF Ranges, Ranged, Lost
    <3>8. list[i] = 0
      BY <1>4, <2>1, <2>3, <3>1, <3>3
    <3>9. metric.TS0 = 0 /\ metric.Tmin <= now
      BY <1>1, <1>4, <2>1, <3>8 DEF IInv, Sound, Ordered, NotAhead, Metric, Streams
    <3>4. Buffered(i) <= 0
      BY <1>1, <1>4, <3>8, <3>9 DEF PlayoutBuffer
    <3>5. Chunk(i) = ChunkMinimum
      BY <1>5, <2>1, <3>4, LoopAssumption
    <3>6. More(i) = 0 \/ More(i) = ChunkMinimum
      BY <3>5
    <3> HIDE DEF More
    <3> QED
      BY <1>7, <2>1, <2>3, <3>6, LoopAssumption
  <2>4. Units(i) = 0 \/ Units(i) >= ChunkMinimum
    BY DEF Filling, WholeChunks
  <2> QED
    BY <2>2, <2>3, <2>4
<1>18. ReadToEnd'
  BY <1>1, <1>2 DEF Filling, ReadToEnd
<1>19. Even' /\ Near'
  <2>1. \A k \in Over : k \in Lost \/ Goal'[k] = Length[k]
    <3> SUFFICES ASSUME NEW k \in Over, k \notin Lost PROVE Goal'[k] = Length[k]
      OBVIOUS
    <3>1. k \in Streams /\ list[k] >= Length[k] /\ k \in Dry
      BY DEF Over, Dry
    <3>2. list[k] = Length[k] /\ Units(FileOf(k)) \in Nat
      BY <1>2, <1>4, <3>1
    <3> QED
      BY <1>11, <3>1, <3>2
  <2> QED
    BY <1>1, <1>2, <1>16, <2>1 DEF Even, Near, Dry
<1> QED
  BY <1>1, <1>2, <1>16, <1>17, <1>18, <1>19 DEF Filling

\* What does not touch the playout does not fill its buffer.
LEMMA BoundKept == BufferBounded /\ UNCHANGED <<metric, now>> => BufferBounded'
BY DEF BufferBounded, Started, Ahead, PlayoutBuffer

LEMMA LoopStepBuffer ==
    ASSUME ChunksFillBuffers, TracksEndTogether, IInv, LoopType, DownloadInv, Stopped,
           BufferInv, LoopStep, IInv', LoopType', DownloadInv', Buffering'
    PROVE  BufferInv'
<1> USE DEF DownloadInv
<1>0. IInv' /\ LoopType' /\ Ranges' /\ Filling' => BufferBounded'
  BY FillingBoundedNext
<1>1. CASE LoadStreams
  <2>1. loop = "top" /\ inflight = {}
    BY <1>1 DEF LoadStreams, Codes
  <2>2. Filling'
    BY <1>1, <2>1, FillingLoads DEF BufferInv
  <2> QED
    BY <1>0, <2>2 DEF BufferInv
<1>2. ASSUME NEW i \in Streams, Packet(i) PROVE BufferInv'
  <2>1. loop = "get"
    BY <1>2 DEF Packet, Awaited
  <2>2. Filling'
    BY <1>2, <2>1, FillingPacket DEF BufferInv
  <2> QED
    BY <1>0, <2>2 DEF BufferInv
<1>3. ASSUME NEW i \in Streams, Result(i) \/ CutResult(i) PROVE BufferInv'
  <2> DEFINE p == url[i].playing /\ ~Short(i)
  <2>1. /\ loop = "get" /\ UNCHANGED <<now, metric, minbuffer, numofstreams, received>>
        /\ url' = [url EXCEPT ![i].playing = p] /\ cut \subseteq cut'
    BY <1>3 DEF Result, CutResult, TakeResult, Awaited, playoutVars
  <2> HIDE DEF p
  <2>2. \A j \in Streams : url'[j].range1 = url[j].range1
    <3>1. url \in [Streams -> VideoUrl]
      BY DEF LoopType
    <3> QED
      BY <2>1, <3>1 DEF VideoUrl
  <2>3. now \in Int
    BY DEF IInv
  <2>4. Filling'
    BY <2>1, <2>2, <2>3, FillingKept DEF BufferInv
  <2> QED
    BY <1>0, <2>4 DEF BufferInv
<1>4. ASSUME NEW i \in Streams, NEW code \in ErrorCodes, ResultError(i, code)
      PROVE  BufferInv'
  <2>1. loop' = "break" /\ UNCHANGED <<metric, now>>
    BY <1>4 DEF ResultError
  <2> QED
    BY <2>1, BoundKept DEF BufferInv
<1>5. CASE ResultOfEngine
  <2>1. loop' \in {"break", "crashed"} /\ UNCHANGED <<metric, now>>
    BY <1>5 DEF ResultOfEngine
  <2> QED
    BY <2>1, BoundKept DEF BufferInv
<1>6. CASE NoResult
  <2>1. /\ loop = "get"
        /\ UNCHANGED <<now, metric, minbuffer, numofstreams, url, received, cut>>
    BY <1>6 DEF NoResult, historyVars
  <2>2. now \in Int
    BY DEF IInv
  <2>3. Filling'
    BY <2>1, <2>2, FillingKept DEF BufferInv
  <2> QED
    BY <1>0, <2>3 DEF BufferInv
<1>7. CASE Wait
  <2>1. /\ loop = "get" /\ now' = now + 1
        /\ UNCHANGED <<metric, minbuffer, numofstreams, url, received, cut>>
    BY <1>7 DEF Wait, TimePasses, loopVars, historyVars
  <2>2. now \in Int
    BY DEF IInv
  <2>3. Filling'
    BY <2>1, <2>2, FillingKept DEF BufferInv
  <2> QED
    BY <1>0, <2>3 DEF BufferInv
<1>8. CASE Cleanup
  <2>1. loop' = "done" /\ UNCHANGED <<metric, now>>
    BY <1>8 DEF Cleanup, Stopped
  <2> QED
    BY <2>1, BoundKept DEF BufferInv
<1>9. CASE CleanupUnmaps
  <2>1. loop' = "crashed" /\ UNCHANGED <<metric, now>>
    BY <1>9 DEF CleanupUnmaps, playoutVars
  <2> QED
    BY <2>1, BoundKept DEF BufferInv
<1>10. ASSUME NEW i \in Streams, TornBytes(i) PROVE BufferInv'
  <2>1. /\ loop = "get" /\ loop' \in {"get", "exited", "crashed"}
        /\ UNCHANGED <<now, metric, minbuffer, numofstreams, url, received, cut>>
    BY <1>10 DEF TornBytes, Awaited, historyVars, playoutVars
  <2>2. now \in Int
    BY DEF IInv
  <2>3. Filling'
    BY <2>1, <2>2, FillingKept DEF BufferInv
  <2> QED
    BY <1>0, <2>3 DEF BufferInv
<1> QED
  BY <1>1, <1>2, <1>3, <1>4, <1>5, <1>6, <1>7, <1>8, <1>9, <1>10 DEF LoopStep

\* An attempt begins with an empty buffer.
LEMMA RestartBuffer ==
    ASSUME IInv, NEW fail, NewAttempt(fail)
    PROVE  /\ metric'.TSlist = [i \in Streams |-> 0] /\ metric'.TS0 = 0
           /\ metric'.initialprebuftime = -1 /\ BufferBounded'
<1>1. metric \in Metric /\ metric' = RestartMetrics(metric, now, fail)
  BY DEF IInv, Sound, NewAttempt
<1>2. /\ metric'.TSlist = [i \in Streams |-> 0] /\ metric'.TS0 = 0
      /\ metric'.initialprebuftime = -1
  BY <1>1 DEF RestartMetrics, Metric
<1> QED
  BY <1>2 DEF BufferBounded, Started

LEMMA LadderStepBuffer ==
    ASSUME IInv, BufferInv, LadderStep, LoopType', Buffering'
    PROVE  BufferInv'
<1>1. CASE SkipLevel
  <2>1. NewAttempt(TRUE) /\ loop' = "idle"
    BY <1>1 DEF SkipLevel, Choosing, loopVars
  <2> QED
    BY <2>1, RestartBuffer DEF BufferInv
<1>2. CASE NoAdaptiveUrl
  <2>1. loop' = "crashed" /\ UNCHANGED <<metric, now>>
    BY <1>2 DEF NoAdaptiveUrl, playoutVars
  <2> QED
    BY <2>1, BoundKept DEF BufferInv
<1>3. CASE NoPlainUrl
  <2>1. PICK fail : NewAttempt(fail)
    BY <1>3, Zenon DEF NoPlainUrl
  <2>2. /\ numofstreams' = 1 /\ cut' = {}
        /\ \A i \in Streams : url'[i].range1 = 0 /\ received'[i] = 0
    BY <1>3 DEF NoPlainUrl, FreshUrl
  <2>3. Filling' /\ BufferBounded'
    BY <2>1, <2>2, RestartBuffer, FillingStarts
  <2> QED
    BY <2>3 DEF BufferInv
<1>4. CASE TryLevel
  <2> DEFINE n == IF ladder = "adaptive" THEN 2 ELSE 1
  <2>0. n \in {1, 2}
    OBVIOUS
  <2>1. PICK fail : StartAttempt(n, fail)
    BY <1>4, Zenon DEF TryLevel
  <2> HIDE DEF n
  <2>2. NewAttempt(fail)
    BY <2>1 DEF StartAttempt
  <2>3. /\ numofstreams' \in {1, 2} /\ cut' = {}
        /\ \A i \in Streams : url'[i].range1 = 0 /\ received'[i] = 0
    BY <2>0, <2>1 DEF StartAttempt, FreshUrl
  <2>4. Filling' /\ BufferBounded'
    BY <2>2, <2>3, RestartBuffer, FillingStarts
  <2> QED
    BY <2>4 DEF BufferInv
<1>5. CASE JudgeAttempt
  <2>1. loop' = "idle" /\ UNCHANGED <<metric, now>>
    BY <1>5 DEF JudgeAttempt
  <2> QED
    BY <2>1, BoundKept DEF BufferInv
<1>6. CASE ParserExits
  <2>1. loop' = "exited" /\ UNCHANGED <<metric, now>>
    BY <1>6 DEF ParserExits, loopVars, playoutVars
  <2> QED
    BY <2>1, BoundKept DEF BufferInv
<1> QED
  BY <1>1, <1>2, <1>3, <1>4, <1>5, <1>6 DEF LadderStep

\* Steps that leave the download where it is, or end it.
LEMMA IdleBuffer ==
    ASSUME TracksEndTogether, IInv, LoopType, Ranges, BufferInv, Buffering',
           UNCHANGED <<metric, now, minbuffer>>,
           \/ loop' \in {"idle", "crashed"}
           \/ loop' = loop /\ UNCHANGED <<numofstreams, url, received, cut>>
    PROVE  BufferInv'
<1>1. BufferBounded'
  BY BoundKept DEF BufferInv
<1>2. CASE loop' \in {"idle", "crashed"}
  BY <1>1, <1>2 DEF BufferInv
<1>3. CASE loop' = loop /\ UNCHANGED <<numofstreams, url, received, cut>>
  <2>1. now \in Int
    BY DEF IInv
  <2>2. loop \in {"top", "get"} => Filling'
    BY <1>3, <2>1, FillingKept DEF BufferInv
  <2> QED
    BY <1>1, <1>3, <2>2 DEF BufferInv
<1> QED
  BY <1>2, <1>3

LEMMA BufferStarts == LoopInit => BufferInv
<1> SUFFICES ASSUME LoopInit PROVE BufferInv
  OBVIOUS
<1>1. loop = "idle" /\ Buffering /\ metric.initialprebuftime = -1
  BY BufferingInit DEF LoopInit, PlayoutInit, InitMetrics
<1> QED
  BY <1>1 DEF BufferInv, BufferBounded, Started

-----------------------------------------------------------------------------
(* The theorems. *)

LEMMA PlayerInit == Init => PlayoutInit /\ PlayerInv
<1> SUFFICES ASSUME Init PROVE PlayoutInit /\ PlayerInv
  OBVIOUS
<1>1. PlayoutInit /\ IInv
  BY InitInvariant DEF Init, LoopInit
<1>2. LoopType /\ Stopped
  <2>1. /\ url \in [Streams -> VideoUrl]
        /\ used \in [Streams -> Nat] /\ received \in [Streams -> Nat]
    BY FreshType DEF Init, LoopInit
  <2>2. numofstreams \in 0..2 /\ loop # "break" /\ loop \in LoopPlaces
    BY DEF Init, LoopInit, LoopPlaces
  <2> QED
    BY <2>1, <2>2 DEF Init, LoopInit, LoopType, Stopped
<1>3. LadderType
  BY DEF Init, LadderType
<1> QED
  BY <1>1, <1>2, <1>3 DEF PlayerInv

LEMMA PlayerNext ==
    PlayerInv /\ [Next]_vars => [PlayoutNext]_playoutVars /\ PlayerInv'
<1> SUFFICES ASSUME PlayerInv, [Next]_vars
             PROVE  [PlayoutNext]_playoutVars /\ PlayerInv'
  OBVIOUS
<1> USE DEF PlayerInv
<1>1. CASE LoopStep /\ UNCHANGED ladderVars
  <2>1. [PlayoutNext]_playoutVars /\ LoopType' /\ Stopped'
    BY <1>1, LoopStepRefines
  <2>2. LadderType'
    BY <1>1 DEF LadderType, ladderVars, listVars
  <2>3. IInv'
    BY <2>1, NextInvariant
  <2> QED
    BY <2>1, <2>2, <2>3
<1>2. CASE LadderStep
  <2>1. [PlayoutNext]_playoutVars /\ LoopType' /\ LadderType' /\ Stopped'
    BY <1>2, LadderStepRefines
  <2> QED
    BY <2>1, NextInvariant
<1>3. CASE UNCHANGED vars
  <2>1. UNCHANGED playoutVars /\ UNCHANGED loopVars /\ UNCHANGED ladderVars
    BY <1>3 DEF vars
  <2>2. LoopType' /\ Stopped'
    BY <2>1 DEF loopVars, historyVars, playoutVars, LoopType, Stopped, Indices
  <2>3. LadderType'
    BY <2>1 DEF ladderVars, listVars, LadderType
  <2> QED
    BY <2>1, <2>2, <2>3, NextInvariant
<1> QED
  BY <1>1, <1>2, <1>3 DEF Next, Finished

\* downloadfiles and the ladder move the playout only in the ways of Playout: the
\* measurements of a download are those of a playout.
THEOREM PlayerImplementsPlayout == Spec => ImplementsPlayout
<1>1. PlayerInv /\ [Next]_vars => PlayerInv' /\ [PlayoutNext]_playoutVars
  BY PlayerNext
<1>2. Init => PlayoutInit /\ PlayerInv
  BY PlayerInit
<1> QED
  BY <1>1, <1>2, PTL DEF Spec, PlayoutSpec, ImplementsPlayout

\* Every variable of the player stays in its domain, and no line that it prints
\* lacks an error code.
THEOREM PlayerTypeCorrect == Spec => []TypeOK
<1>1. PlayerInv => TypeOK
  BY InvariantImplies DEF PlayerInv, LoopType, LadderType, TypeOK
<1>2. PlayerInv /\ [Next]_vars => PlayerInv'
  BY PlayerNext
<1>3. Init => PlayerInv
  BY PlayerInit
<1> QED
  BY <1>1, <1>2, <1>3, PTL DEF Spec

\* The stalls that the program reports account for the time of every attempt.
THEOREM PlayerStallsAccounted == Spec => []StallAccounting
BY PlayerImplementsPlayout, StallsAccounted DEF ImplementsPlayout

LEMMA PlayerDownloads == Spec => []DownloadInv
<1>1. Init => PlayerInv /\ DownloadInv
  BY PlayerInit, DownloadStarts DEF Init
<1>2. PlayerInv /\ DownloadInv /\ [Next]_vars => PlayerInv' /\ DownloadInv'
  BY PlayerNext, DownloadNext
<1> QED
  BY <1>1, <1>2, PTL DEF Spec

\* The ranges of a stream continue each other, whatever chunk sizes the buffer called for: the
\* parser gets every byte once and in order, until an answer ends early without an error.
THEOREM PlayerRangesContinue == Spec => []TornOnlyByCut
BY PlayerDownloads, RangesContiguous, PTL

\* An attempt is reported as worked only when every file was downloaded to its end, but for
\* files of which an answer ended early: the library does not tell, and neither does the report.
THEOREM PlayerWorkedIsComplete == Spec => []WorkedMeansComplete
BY PlayerDownloads, RangesContiguous, PTL

LEMMA BufferNext ==
    ASSUME ChunksFillBuffers, TracksEndTogether, PlayerInv, DownloadInv, BufferInv, [Next]_vars
    PROVE  BufferInv'
<1>1. /\ IInv /\ LoopType /\ Stopped /\ [PlayoutNext]_playoutVars
      /\ IInv' /\ LoopType' /\ DownloadInv'
  BY PlayerNext, DownloadNext DEF PlayerInv
<1>2. Buffering'
  BY <1>1, BufferingNext DEF BufferInv
<1>3. CASE LoopStep
  BY <1>1, <1>2, <1>3, LoopStepBuffer
<1>4. CASE LadderStep
  BY <1>1, <1>2, <1>4, LadderStepBuffer
<1>5. CASE UNCHANGED vars
  <2>1. UNCHANGED <<metric, now, minbuffer, loop, numofstreams, url, received, cut>>
    BY <1>5 DEF vars, playoutVars, loopVars, historyVars
  <2> QED
    BY <1>1, <1>2, <2>1, IdleBuffer DEF DownloadInv
<1> QED
  BY <1>3, <1>4, <1>5 DEF Next, Finished

\* While the video plays, no packet is ahead of the playout by more than the buffer of the
\* arguments and one chunk, whichever chunk sizes download_ops.c asked for, however late
\* the packets are and however often the playout stalls.
THEOREM PlayerBufferIsBounded ==
    ASSUME ChunksFillBuffers, TracksEndTogether
    PROVE  Spec => []BufferBounded
<1>1. Init => PlayerInv /\ DownloadInv /\ BufferInv
  BY PlayerInit, DownloadStarts, BufferStarts DEF Init
<1>2. PlayerInv /\ DownloadInv /\ BufferInv /\ [Next]_vars
          => PlayerInv' /\ DownloadInv' /\ BufferInv'
  BY PlayerNext, DownloadNext, BufferNext
<1>3. BufferInv => BufferBounded
  BY DEF BufferInv
<1> QED
  BY <1>1, <1>2, <1>3, PTL DEF Spec
-----------------------------------------------------------------------------
(* The whole program. *)

MainType ==
    /\ page \in Pages /\ host \in Hosts
    /\ client \in {"none", "up", "destroyed"}
    /\ stage \in {"library", "page", "measure", "play"}
    /\ measured \in Nat

\* Nothing is downloaded before the ladder.
BeforePlay == stage # "play" => loop \in {"idle", "crashed"}

\* What is measured are the urls of the page, and those that were measured could be.
Entered ==
    /\ stage \in {"measure", "play"} => entries = PlainEntries(page)
    /\ stage \in {"library", "page"} => measured = 0
    /\ \A i \in 1..measured :
          page.duration > 0 /\ entries[i].url # "" /\ FileSizes[entries[i].url] > 0

MainInv == PlayerInv /\ MainType /\ BeforePlay /\ Entered
-----------------------------------------------------------------------------
(* The ways to end. *)

\* An exit sets the error code, and no loop that ended by itself lacks one after it.
LEMMA ExitsRefine ==
    ASSUME PlayerInv, NEW code \in ErrorCodes, ExitsWith(code), code # "0" \/ loop # "break"
    PROVE  [PlayoutNext]_playoutVars /\ PlayerInv' /\ loop' = loop
<1> USE DEF PlayerInv
<1>1. ReportCode
  BY DEF ExitsWith, ReportCode
<1>2. LoopType' /\ loop' = loop
  BY DEF ExitsWith, loopVars, historyVars, LoopType
<1>3. Stopped'
  BY <1>2 DEF ExitsWith, Stopped
<1>4. LadderType'
  <2>1. lines' \in Seq((ErrorCodes \ {"0"}) \cup {"WERSCREWED"})
    BY ExitLineType DEF ExitsWith, LadderType
  <2> QED
    BY <2>1 DEF ExitsWith, LadderType, listVars
<1>5. [PlayoutNext]_playoutVars
  BY <1>1 DEF PlayoutNext
<1> QED
  BY <1>2, <1>3, <1>4, <1>5, NextInvariant

LEMMA DiesRefines ==
    ASSUME MainInv, Dies
    PROVE  [PlayoutNext]_playoutVars /\ MainInv'
<1> USE DEF MainInv, PlayerInv
<1>1. UNCHANGED playoutVars /\ IInv'
  BY NextInvariant DEF Dies
<1>2. LoopType' /\ Stopped'
  BY DEF Dies, historyVars, LoopType, LoopPlaces, Stopped
<1>3. LadderType'
  BY DEF Dies, LadderType, ladderVars, listVars
<1>4. MainType' /\ BeforePlay' /\ Entered'
  BY DEF Dies, MainType, BeforePlay, Entered, mainVars, fixedVars
<1> QED
  BY <1>1, <1>2, <1>3, <1>4

\* A step that leaves Player's variables alone.
LEMMA StutterKeeps ==
    ASSUME PlayerInv, UNCHANGED vars
    PROVE  [PlayoutNext]_playoutVars /\ PlayerInv' /\ loop' = loop
<1>1. UNCHANGED playoutVars /\ loop' = loop
  BY DEF vars, loopVars
<1> QED
  BY <1>1, PlayerNext
-----------------------------------------------------------------------------
(* The steps before the ladder. *)

\* The lists with which the ladder begins are lists that a page can lead to.
LEMMA SortListsRefines ==
    ASSUME MainInv, SortLists
    PROVE  [PlayoutNext]_playoutVars /\ MainInv'
<1> USE DEF MainInv, PlayerInv
<1> DEFINE list == PlainEntries(page)
<1>1. /\ page \in Pages /\ entries = list /\ measured = Len(entries)
      /\ UNCHANGED <<playoutVars, loopVars, ladder, level, lines, fixedVars, client,
                     entries, measured>>
      /\ stage' = "play"
  BY DEF SortLists, At, MainType, Entered
<1>2. /\ list \in Seq(EntryType) /\ AdaptiveOf(page) \subseteq AdaptiveLists
      /\ Measurable(list, page.duration) =>
            PlainOf(list, page.duration) \subseteq PlainLists
  <2>1. page.plain \in Seq(Piece)
    BY <1>1, MainAssumption
  <2>2. list \in Seq(EntryType)
    BY <2>1, SplitList DEF PlainEntries
  <2> QED
    BY <1>1, <2>2, MainAssumption
<1>3. Measurable(list, page.duration)
  <2> HIDE DEF list
  <2>1. DOMAIN list = 1..Len(list) /\ Len(list) \in Nat
    BY <1>2
  <2>2. \A i \in DOMAIN list :
            page.duration > 0 /\ list[i].url # "" /\ FileSizes[list[i].url] > 0
    BY <1>1, <2>1 DEF Entered
  <2>3. list # <<>> => 1 \in DOMAIN list
    BY <1>2, <2>1
  <2> QED
    BY <2>2, <2>3 DEF Measurable
<1>4. adaptive' \in AdaptiveLists /\ plain' \in PlainLists
  BY <1>1, <1>2, <1>3 DEF SortLists
<1>5. LoopType' /\ Stopped' /\ UNCHANGED playoutVars
  BY <1>1 DEF LoopType, Stopped, Indices, loopVars, historyVars, playoutVars
<1>6. LadderType'
  BY <1>1, <1>4 DEF LadderType
<1>7. MainType' /\ BeforePlay' /\ Entered'
  BY <1>1 DEF MainType, BeforePlay, Entered, fixedVars
<1>8. IInv'
  BY <1>5, NextInvariant
<1> QED
  BY <1>5, <1>6, <1>7, <1>8

LEMMA MainRunsRefines ==
    ASSUME MainInv, MainRuns
    PROVE  [PlayoutNext]_playoutVars /\ MainInv'
<1> USE DEF MainInv
<1>0. "0" \in ErrorCodes /\ "FIRSTRESPONSERROR" \in ErrorCodes
  BY DEF ErrorCodes
<1>1. CASE InitDies
  BY <1>1, DiesRefines DEF InitDies
<1>2. CASE InitClient
  <2>1. UNCHANGED vars /\ loop' = loop
    BY <1>2 DEF InitClient, vars, loopVars
  <2>2. MainType' /\ BeforePlay' /\ Entered'
    BY <1>2, <2>1 DEF InitClient, At, MainType, BeforePlay, Entered, fixedVars
  <2> QED
    BY <2>1, <2>2, StutterKeeps
<1>3. CASE PageOutOfReach
  <2>1. ExitsWith("FIRSTRESPONSERROR")
    BY <1>3 DEF PageOutOfReach, PageMissing
  <2>2. [PlayoutNext]_playoutVars /\ PlayerInv' /\ loop' = loop
    BY <1>0, <2>1, ExitsRefine
  <2>3. MainType' /\ BeforePlay' /\ Entered'
    BY <1>3, <2>2 DEF PageOutOfReach, PageMissing, MainType, BeforePlay, Entered, fixedVars
  <2> QED
    BY <2>2, <2>3
<1>4. CASE ReadPage
  <2>1. UNCHANGED vars /\ loop' = loop
    BY <1>4 DEF ReadPage, vars, loopVars
  <2>2. /\ stage = "page" /\ stage' = "measure" /\ page' = page /\ host' = host
        /\ client' = client /\ measured' = measured
        /\ entries' = PlainEntries(page)
    BY <1>4 DEF ReadPage, At, fixedVars
  <2>3. MainType' /\ BeforePlay'
    BY <2>1, <2>2 DEF MainType, BeforePlay
  <2>4. Entered'
    <3>1. measured' = 0 /\ entries' = PlainEntries(page')
      BY <2>2 DEF Entered
    <3>2. \A i \in 1..measured' : FALSE
      BY <3>1
    <3> QED
      BY <2>2, <3>1, <3>2 DEF Entered
  <2> QED
    BY <2>1, <2>3, <2>4, StutterKeeps
<1>5. CASE ReadPageDies
  BY <1>5, DiesRefines DEF ReadPageDies
<1>6. CASE NoUrlToMeasure
  BY <1>6, DiesRefines DEF NoUrlToMeasure
<1>7. CASE MeasureUrl
  <2>1. UNCHANGED vars /\ loop' = loop
    BY <1>7 DEF MeasureUrl, vars, loopVars
  <2>2. /\ stage = "measure" /\ stage' = stage /\ page' = page /\ host' = host
        /\ client' = client /\ entries' = entries /\ measured' = measured + 1
    BY <1>7 DEF MeasureUrl, Measuring, At, fixedVars
  <2>3. /\ page.duration > 0 /\ entries[measured + 1].url # ""
        /\ FileSizes[entries[measured + 1].url] > 0
    BY <1>7 DEF MeasureUrl, Asked
  <2>4. measured \in Nat
    BY DEF MainType
  <2>5. MainType' /\ BeforePlay'
    BY <2>1, <2>2, <2>4 DEF MainType, BeforePlay
  <2>6. Entered'
    <3>1. \A i \in 1..measured' : i \in 1..measured \/ i = measured + 1
      BY <2>2, <2>4
    <3>2. \A i \in 1..measured' :
              page.duration > 0 /\ entries[i].url # "" /\ FileSizes[entries[i].url] > 0
      BY <2>3, <3>1 DEF Entered
    <3> QED
      BY <2>2, <3>2 DEF Entered
  <2> QED
    BY <2>1, <2>5, <2>6, StutterKeeps
<1>8. CASE DivisionByZero
  BY <1>8, DiesRefines DEF DivisionByZero
<1>9. CASE NoBitrateToTell
  <2>1. ExitsWith("0") /\ UNCHANGED mainVars /\ loop # "break"
    BY <1>9 DEF NoBitrateToTell, Measuring, At, BeforePlay
  <2>2. [PlayoutNext]_playoutVars /\ PlayerInv' /\ loop' = loop
    BY <1>0, <2>1, ExitsRefine
  <2>3. MainType' /\ BeforePlay' /\ Entered'
    BY <2>1, <2>2 DEF MainType, BeforePlay, Entered, mainVars, fixedVars
  <2> QED
    BY <2>2, <2>3
<1>10. CASE SortLists
  BY <1>10, SortListsRefines
<1> QED
  BY <1>1, <1>2, <1>3, <1>4, <1>5, <1>6, <1>7, <1>8, <1>9, <1>10 DEF MainRuns
-----------------------------------------------------------------------------
(* The program. *)

LEMMA MainStarts == MainInit => PlayoutInit /\ MainInv
<1> SUFFICES ASSUME MainInit PROVE PlayoutInit /\ MainInv
  OBVIOUS
<1>1. PlayoutInit /\ IInv
  BY InitInvariant DEF MainInit, LoopInit
<1>2. LoopType /\ Stopped
  <2>1. /\ url \in [Streams -> VideoUrl]
        /\ used \in [Streams -> Nat] /\ received \in [Streams -> Nat]
    BY FreshType DEF MainInit, LoopInit
  <2>2. numofstreams \in 0..2 /\ loop # "break" /\ loop \in LoopPlaces
    BY DEF MainInit, LoopInit, LoopPlaces
  <2> QED
    BY <2>1, <2>2 DEF MainInit, LoopInit, LoopType, Stopped
<1>3. LadderType
  <2>1. <<>> \in AdaptiveLists /\ <<>> \in PlainLists
    BY MainAssumption, Zenon
  <2> QED
    BY <2>1 DEF MainInit, LadderType
<1>4. MainType /\ BeforePlay
  BY DEF MainInit, LoopInit, MainType, BeforePlay
<1>5. Entered
  <2>1. measured = 0 /\ stage = "library"
    BY DEF MainInit
  <2>2. \A i \in 1..measured : FALSE
    BY <2>1
  <2> QED
    BY <2>1, <2>2 DEF Entered
<1> QED
  BY <1>1, <1>2, <1>3, <1>4, <1>5 DEF MainInv, PlayerInv

LEMMA MainSteps ==
    MainInv /\ [MainNext]_allVars => [PlayoutNext]_playoutVars /\ MainInv'
<1> SUFFICES ASSUME MainInv, [MainNext]_allVars
             PROVE  [PlayoutNext]_playoutVars /\ MainInv'
  OBVIOUS
<1> USE DEF MainInv
<1>0. {"0", "FIRSTRESPONSERROR", "ACCESS_DENIED", "SIGNALHIT"} \subseteq ErrorCodes
  BY DEF ErrorCodes
<1>1. CASE MainRuns
  BY <1>1, MainRunsRefines
<1>2. CASE ClientFails
  <2>1. ExitsWith("0") /\ UNCHANGED mainVars /\ loop # "break"
    BY <1>2 DEF ClientFails, At, BeforePlay
  <2>2. [PlayoutNext]_playoutVars /\ PlayerInv' /\ loop' = loop
    BY <1>0, <2>1, ExitsRefine
  <2>3. MainType' /\ BeforePlay' /\ Entered'
    BY <2>1, <2>2 DEF MainType, BeforePlay, Entered, mainVars, fixedVars
  <2> QED
    BY <2>2, <2>3
<1>3. CASE PageFails
  <2>1. ExitsWith("FIRSTRESPONSERROR")
    BY <1>3 DEF PageFails, PageMissing
  <2>2. [PlayoutNext]_playoutVars /\ PlayerInv' /\ loop' = loop
    BY <1>0, <2>1, ExitsRefine
  <2>3. MainType' /\ BeforePlay' /\ Entered'
    BY <1>3, <2>2 DEF PageFails, PageMissing, MainType, BeforePlay, Entered, fixedVars
  <2> QED
    BY <2>2, <2>3
<1>4. CASE HeadFails
  <2>1. PICK code \in {"0", "ACCESS_DENIED"} : ExitsWith(code)
    BY <1>4 DEF HeadFails
  <2>2. loop # "break"
    BY <1>4 DEF HeadFails, Measuring, At, BeforePlay
  <2>3. [PlayoutNext]_playoutVars /\ PlayerInv' /\ loop' = loop
    BY <1>0, <2>1, <2>2, ExitsRefine
  <2>4. MainType' /\ BeforePlay' /\ Entered'
    BY <1>4, <2>3 DEF HeadFails, MainType, BeforePlay, Entered, fixedVars
  <2> QED
    BY <2>3, <2>4
<1>5. CASE ResultIsNull
  BY <1>5, DiesRefines DEF ResultIsNull
<1>6. CASE Signal
  <2>1. ExitsWith("SIGNALHIT") /\ UNCHANGED mainVars
    BY <1>6 DEF Signal
  <2>2. [PlayoutNext]_playoutVars /\ PlayerInv' /\ loop' = loop
    BY <1>0, <2>1, ExitsRefine
  <2>3. MainType' /\ BeforePlay' /\ Entered'
    BY <2>1, <2>2 DEF MainType, BeforePlay, Entered, mainVars, fixedVars
  <2> QED
    BY <2>2, <2>3
<1>7. CASE Plays(LoopStep /\ UNCHANGED ladderVars) \/ Plays(LadderStep)
  <2>1. [PlayoutNext]_playoutVars /\ PlayerInv'
    BY <1>7, PlayerNext DEF Plays, Next
  <2>2. MainType' /\ BeforePlay' /\ Entered'
    BY <1>7 DEF Plays, At, MainType, BeforePlay, Entered, fixedVars
  <2> QED
    BY <2>1, <2>2
<1>8. CASE UNCHANGED allVars
  <2>1. UNCHANGED vars /\ UNCHANGED mainVars
    BY <1>8 DEF allVars
  <2>2. [PlayoutNext]_playoutVars /\ PlayerInv' /\ loop' = loop
    BY <2>1, StutterKeeps
  <2>3. MainType' /\ BeforePlay' /\ Entered'
    BY <2>1, <2>2 DEF MainType, BeforePlay, Entered, mainVars, fixedVars
  <2> QED
    BY <2>2, <2>3
<1> QED
  BY <1>1, <1>2, <1>3, <1>4, <1>5, <1>6, <1>7, <1>8 DEF MainNext, MainFinished

LEMMA MainDownloadNext ==
    ASSUME MainInv, DownloadInv, [MainNext]_allVars
    PROVE  DownloadInv'
<1>1. CASE Plays(LoopStep /\ UNCHANGED ladderVars) \/ Plays(LadderStep)
  BY <1>1, DownloadNext DEF Plays, Next, MainInv
<1>2. ASSUME UNCHANGED <<numofstreams, url, inflight, used, received, torn, cut>>,
             \/ loop' \in {"idle", "crashed"}
             \/ loop' = loop /\ errorcode' = errorcode
             \/ loop' = loop /\ errorcode' \notin {"0", "ITWORKED"}
      PROVE  DownloadInv'
  <2>1. Ranges' /\ Indices' = Indices /\ (\A i \in Streams : FileSize(i)' = FileSize(i))
    BY <1>2, RangesKept DEF DownloadInv
  <2> QED
    BY <1>2, <2>1, IndicesAreStreams DEF DownloadInv, Codes, WorkedMeansComplete
<1>3. CASE PageOutOfReach \/ PageFails \/ Signal
  <2>1. ExitsWith("FIRSTRESPONSERROR") \/ ExitsWith("SIGNALHIT")
    BY <1>3 DEF PageOutOfReach, PageFails, PageMissing, Signal
  <2> QED
    BY <1>2, <2>1 DEF ExitsWith, loopVars, historyVars
<1>4. CASE ClientFails \/ NoBitrateToTell \/ HeadFails
  <2>1. stage # "play" /\ loop # "crashed" /\ (\E code : ExitsWith(code))
    BY <1>4 DEF ClientFails, NoBitrateToTell, HeadFails, Measuring, At, Ended
  <2>2. UNCHANGED <<numofstreams, url, inflight, used, received, torn, cut>> /\ loop' = loop
    BY <2>1 DEF ExitsWith, loopVars, historyVars
  <2>3. loop = "idle"
    BY <2>1 DEF MainInv, BeforePlay
  <2> QED
    BY <1>2, <2>2, <2>3
<1>5. CASE InitDies \/ ReadPageDies \/ NoUrlToMeasure \/ DivisionByZero \/ ResultIsNull
  <2>1. Dies
    BY <1>5 DEF InitDies, ReadPageDies, NoUrlToMeasure, DivisionByZero, ResultIsNull
  <2> QED
    BY <1>2, <2>1 DEF Dies, historyVars
<1>6. CASE InitClient \/ ReadPage \/ MeasureUrl \/ SortLists \/ UNCHANGED allVars
  <2>1. UNCHANGED playoutVars /\ UNCHANGED loopVars
    BY <1>6 DEF InitClient, ReadPage, MeasureUrl, SortLists, allVars, vars
  <2> QED
    BY <1>2, <2>1 DEF playoutVars, loopVars, historyVars
<1> QED
  BY <1>1, <1>3, <1>4, <1>5, <1>6 DEF MainNext, MainRuns, MainFinished

LEMMA MainBufferNext ==
    ASSUME ChunksFillBuffers, TracksEndTogether, MainInv, DownloadInv, BufferInv,
           [MainNext]_allVars
    PROVE  BufferInv'
<1>1. IInv /\ LoopType /\ Ranges /\ [PlayoutNext]_playoutVars
  BY MainSteps DEF MainInv, PlayerInv, DownloadInv
<1>2. Buffering'
  BY <1>1, BufferingNext DEF BufferInv
<1>3. CASE Plays(LoopStep /\ UNCHANGED ladderVars) \/ Plays(LadderStep)
  BY <1>3, BufferNext DEF Plays, Next, MainInv
<1>4. CASE \E code : ExitsWith(code)
  <2>1. UNCHANGED <<metric, now, minbuffer, loop, numofstreams, url, received, cut>>
    BY <1>4 DEF ExitsWith, playoutVars, loopVars, historyVars
  <2> QED
    BY <1>1, <1>2, <2>1, IdleBuffer
<1>5. CASE Dies
  <2>1. UNCHANGED <<metric, now, minbuffer>> /\ loop' = "crashed"
    BY <1>5 DEF Dies, playoutVars
  <2> QED
    BY <1>1, <1>2, <2>1, IdleBuffer
<1>6. CASE UNCHANGED playoutVars /\ UNCHANGED loopVars
  BY <1>1, <1>2, <1>6, IdleBuffer DEF playoutVars, loopVars, historyVars
<1>7. CASE PageOutOfReach \/ PageFails \/ Signal \/ ClientFails \/ NoBitrateToTell \/ HeadFails
  <2>1. \E code : ExitsWith(code)
    BY <1>7 DEF PageOutOfReach, PageFails, PageMissing, Signal, ClientFails,
                NoBitrateToTell, HeadFails
  <2> QED
    BY <1>4, <2>1
<1>8. CASE InitDies \/ ReadPageDies \/ NoUrlToMeasure \/ DivisionByZero \/ ResultIsNull
  BY <1>5, <1>8 DEF InitDies, ReadPageDies, NoUrlToMeasure, DivisionByZero, ResultIsNull
<1>9. CASE InitClient \/ ReadPage \/ MeasureUrl \/ SortLists \/ UNCHANGED allVars
  BY <1>6, <1>9 DEF InitClient, ReadPage, MeasureUrl, SortLists, allVars, vars
<1> QED
  BY <1>3, <1>7, <1>8, <1>9 DEF MainNext, MainRuns, MainFinished

LEMMA MainDownloads == MainSpec => []DownloadInv
<1>1. MainInit => MainInv /\ DownloadInv
  BY MainStarts, DownloadStarts DEF MainInit
<1>2. MainInv /\ DownloadInv /\ [MainNext]_allVars => MainInv' /\ DownloadInv'
  BY MainSteps, MainDownloadNext
<1> QED
  BY <1>1, <1>2, PTL DEF MainSpec

\* From its start to its exit line youtube_test moves the playout only in the ways of
\* Playout, whatever the page says and wherever a failure or a signal ends it.
THEOREM TestImplementsPlayout == MainSpec => ImplementsPlayout
BY MainStarts, MainSteps, PTL DEF MainSpec, PlayoutSpec, ImplementsPlayout

\* Every variable of youtube_test stays in its domain, and no line that it prints
\* lacks an error code.
THEOREM TestTypeCorrect == MainSpec => []MainTypeOK
<1>1. MainInv => MainTypeOK
  BY InvariantImplies DEF MainInv, PlayerInv, MainType, LoopType, LadderType, TypeOK, MainTypeOK
<1> QED
  BY <1>1, MainStarts, MainSteps, PTL DEF MainSpec

\* The stalls that the program reports account for the time of every attempt.
THEOREM TestStallsAccounted == MainSpec => []StallAccounting
BY TestImplementsPlayout, StallsAccounted DEF ImplementsPlayout

\* The ranges of a stream continue each other, whatever chunk sizes the buffer called for: the
\* parser gets every byte once and in order, until an answer ends early without an error.
THEOREM TestRangesContinue == MainSpec => []TornOnlyByCut
BY MainDownloads, RangesContiguous, PTL

\* An attempt is reported as worked only when every file was downloaded to its end, but for
\* files of which an answer ended early; also when a signal hits it.
THEOREM TestWorkedIsComplete == MainSpec => []WorkedMeansComplete
BY MainDownloads, RangesContiguous, PTL

\* While the video plays, no packet is ahead of the playout by more than the buffer of the
\* arguments and one chunk, in every attempt of youtube_test.
THEOREM TestBufferIsBounded ==
    ASSUME ChunksFillBuffers, TracksEndTogether
    PROVE  MainSpec => []BufferBounded
<1>1. MainInit => MainInv /\ DownloadInv /\ BufferInv
  BY MainStarts, DownloadStarts, BufferStarts DEF MainInit
<1>2. MainInv /\ DownloadInv /\ BufferInv /\ [MainNext]_allVars
          => MainInv' /\ DownloadInv' /\ BufferInv'
  BY MainSteps, MainDownloadNext, MainBufferNext
<1>3. BufferInv => BufferBounded
  BY DEF BufferInv
<1> QED
  BY <1>1, <1>2, <1>3, PTL DEF MainSpec
=============================================================================
