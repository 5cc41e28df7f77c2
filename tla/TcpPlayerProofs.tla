--------------------------- MODULE TcpPlayerProofs ---------------------------
(***************************************************************************)
(* What youtube_tcp_test does is proved here for any page, any bitrates,   *)
(* files, chunk sizes and failures: that it implements the playout, that   *)
(* its ranges leave no gap, that a result that worked is complete and      *)
(* counted once, that the lists tell what the page does, how its levels    *)
(* are chosen and given up, and that its downloads stay near the playout.  *)
(***************************************************************************)
EXTENDS TcpPlayer, PlayoutProofs, VideoInfoProofs

LoopType ==
    /\ loop \in LoopPlaces /\ numofstreams \in 0..2
    /\ file \in [Streams -> File] /\ url \in [Streams -> VideoUrl]
    /\ active \subseteq Streams /\ ended \subseteq Streams
    /\ got \in [Streams -> Nat] /\ totalbytes \in [Streams -> Nat]
    /\ received \in [Streams -> Nat] /\ before \in [Streams -> Nat]
    /\ torn \subseteq Streams /\ failed \subseteq Streams

\* The transfer of the stream runs, or its message was not read yet.
Moving(i) == i \in active \cup ended

\* A range is empty only if it is at its start, which only an entry without a bitrate
\* can stay at.
Ranged(i) ==
    /\ url[i].range0 <= url[i].range1 + 1
    /\ url[i].range1 = 0 => url[i].range0 = 0
    /\ file[i].bitrate = 0 => url[i].range1 = 0
    /\ Moving(i) /\ file[i].bitrate # 0 => url[i].range1 > 0

\* A stream without a gap: what was counted is what the parser got but for the transfer
\* that moves, which continues it or asks for bytes behind the end of the file.
Fed(i) ==
    /\ received[i] <= FileSize(i)
    /\ totalbytes[i] = before[i] + received[i] - (IF Moving(i) THEN got[i] ELSE 0)
    /\ Moving(i) =>
          /\ url[i].playing
          /\ got[i] <= Offered(i)
          /\ \/ url[i].range0 < FileSize(i) /\ received[i] = url[i].range0 + got[i]
             \/ url[i].range0 >= FileSize(i) /\ got[i] = 0

\* A stream none of whose transfers failed: its next range continues the last one or
\* lies behind the end, and it stops only at the end.
Whole(i) ==
    /\ i \in ended => got[i] = Offered(i)
    /\ Moving(i) /\ url[i].range0 >= FileSize(i) => received[i] = FileSize(i)
    /\ ~Moving(i) /\ Playing(i) =>
          \/ NextRange0(i) = received[i]
          \/ NextRange0(i) >= FileSize(i) /\ received[i] = FileSize(i)
    /\ ~Moving(i) /\ ~Playing(i) => received[i] = FileSize(i)

StreamInv(i) ==
    /\ Ranged(i)
    /\ i \notin torn => Fed(i)
    /\ i \notin failed \cup Unranged => Whole(i)

\* Between two passes of the loop no transfer moves.
Phases ==
    /\ loop \in {"top", "select"} => active = {} /\ ended = {}
    /\ active \cap ended = {}

\* A loop that ended without an error ended because no stream plays: the clean-up never
\* un-pauses the video, and counts no transfer a second time.
Stopped ==
    \/ loop = "break" /\ errorcode = "0"
    \/ loop = "done" /\ errorcode = "ITWORKED"
    => active = {} /\ ended = {} /\ \A i \in Indices : ~Playing(i)

NotYetWorked == loop \in {"top", "run", "select", "break"} => errorcode # "ITWORKED"

\* The transfers of the attempt are in order, until an error ends it.
InOrder ==
    \/ loop \in {"top", "run", "select", "break"}
    \/ loop = "done" /\ errorcode = "ITWORKED"

TransferInv ==
    /\ TornOnlyByFailure
    /\ Phases
    /\ InOrder => \A i \in Streams : StreamInv(i)
    /\ Stopped /\ NotYetWorked

\* The page is read before the first attempt.
PageFirst == stage \in {"page", "measure"} => loop \in {"idle", "crashed"}

LoopInv == LoopType /\ TransferInv
TcpInv == IInv /\ LoopInv /\ PageFirst

\* What an exit line reports.
Reported == (ErrorCodes \ {"0"}) \cup {"WERSCREWED"}

\* The lists of the page, from split_urls to the end.
ListsInv ==
    /\ page \in Pages
    /\ videos \in Seq(EntryType) /\ audios \in Seq(EntryType) /\ plains \in Seq(EntryType)
    /\ stage = "measure" =>
          /\ plains = SplitUrls(page.plain, FALSE)
          /\ ~FreesForeign(page.plain) /\ ~FreesForeign(page.adaptive)
    /\ ListsTellPage

\* Nothing is downloaded of the cleared entry that is tried when no plain url is there.
NoPlainUrl ==
    stage = "plain" /\ plains = <<>> /\ loop # "idle" =>
        /\ file = [i \in Streams |-> NoFile]
        /\ errorcode \notin {"ERROR_STALL", "TOO_FAST"}

\* A file that holds both tracks is downloaded alone.
PlainAlone == stage = "plain" /\ loop # "idle" => numofstreams = 1

\* checkstall sets ERROR_STALL only for an attempt that is to fail.
StallFails == errorcode = "ERROR_STALL" => metric.fail_on_stall

\* The level of an attempt.  Nothing is downloaded where a kind of adaptive url is missing.
LevelInv ==
    /\ stage \in Stages /\ level \in Nat \ {0} /\ audio \in Nat
    /\ lines \in Seq(Reported)
    /\ stage \in {"page", "measure"} => numofstreams = 0
    /\ stage = "adaptive" /\ (videos = <<>> \/ audios = <<>>) => numofstreams = 0
    /\ stage = "plain" /\ plains # <<>> => level \in DOMAIN plains
    /\ NoPlainUrl /\ PlainAlone /\ StallFails
    /\ AudioIsBest /\ GivesUpLast

MainInv == TcpInv /\ ListsInv /\ LevelInv
-----------------------------------------------------------------------------
(* Sizes. *)

LEMMA Products ==
    \A a, b \in Nat : a * b \in Nat /\ (a # 0 /\ b # 0 => a * b > 0)
OBVIOUS

LEMMA FileSizeType == LoopType => \A i \in Streams : FileSize(i) \in Nat
<1> SUFFICES ASSUME LoopType, NEW i \in Streams PROVE FileSize(i) \in Nat
  OBVIOUS
<1> DEFINE tracks == file[i].tracks
           one == CHOOSE t \in tracks : TRUE
           length == IF tracks = Streams THEN Length[0] + Length[1]
                     ELSE IF tracks = {} THEN 0 ELSE Length[one]
<1>1. tracks \in SUBSET Streams
  BY DEF LoopType, File
<1>2. tracks # {} => one \in Streams
  BY <1>1
<1>3. \A t \in Streams : Length[t] \in Nat
  BY TcpLoopAssumption
<1>4. 0 \in Streams /\ 1 \in Streams
  BY DEF Streams
<1>5. FileSize(i) = PacketSize * length
  BY DEF FileSize
<1>6. length \in Nat
  BY <1>2, <1>3, <1>4
<1> HIDE DEF length
<1> QED
  BY <1>5, <1>6, Products, TcpLoopAssumption

LEMMA FileSizeTypeNext == (LoopType => \A i \in Streams : FileSize(i) \in Nat)'
BY FileSizeType, PTL

LEMMA OfferedType ==
    LoopType => \A i \in Streams :
        /\ Offered(i) \in Nat
        /\ Offered(i) > 0 => url[i].range0 + Offered(i) <= FileSize(i)
<1> SUFFICES ASSUME LoopType, NEW i \in Streams
             PROVE  /\ Offered(i) \in Nat
                    /\ Offered(i) > 0 => url[i].range0 + Offered(i) <= FileSize(i)
  OBVIOUS
<1>1. url[i].range0 \in Nat /\ url[i].range1 \in Nat
  BY DEF LoopType, VideoUrl
<1>2. FileSize(i) \in Nat
  BY FileSizeType
<1> QED
  BY <1>1, <1>2 DEF Offered

\* The next chunk is empty only for an entry without a bitrate.
LEMMA RangeAdditionType ==
    ASSUME LoopType, NEW i \in Streams
    PROVE  /\ RangeAddition(i) \in Nat
           /\ file[i].bitrate = 0 => RangeAddition(i) = 0
           /\ file[i].bitrate # 0 => RangeAddition(i) > 0
<1> DEFINE chunk == IF BufferSeconds - PlayoutBuffer(metric.TSlist[i], Awake) >= ChunkMinimum
                    THEN ChunkMinimum ELSE ChunkFetch
<1>1. chunk \in Nat /\ chunk # 0
  BY TcpLoopAssumption
<1>2. RangeAddition(i) = file[i].bitrate * chunk
  BY DEF RangeAddition
<1> HIDE DEF chunk
<1>3. file[i].bitrate \in Nat
  BY DEF LoopType, File
<1> QED
  BY <1>1, <1>2, <1>3, Products

LEMMA IndicesAreStreams == Indices \subseteq Streams
BY DEF Indices
-----------------------------------------------------------------------------
(* The steps of downloadfiles. *)

\* A stream that a step leaves alone stays in order.
LEMMA StreamKept ==
    ASSUME NEW i \in Streams, StreamInv(i),
           file' = file, url'[i] = url[i], got'[i] = got[i], received'[i] = received[i],
           totalbytes'[i] = totalbytes[i], before'[i] = before[i],
           Moving(i)' <=> Moving(i), i \in ended' => i \in ended,
           i \in torn => i \in torn', i \in failed => i \in failed'
    PROVE  StreamInv(i)'
<1>1. Ranged(i)'
  BY DEF StreamInv, Ranged
<1>2. FileSize(i)' = FileSize(i)
  BY DEF FileSize
<1>3. Offered(i)' = Offered(i)
  BY <1>2 DEF Offered
<1>4. Fed(i) => Fed(i)'
  BY <1>2, <1>3 DEF Fed
<1>5. Playing(i)' = Playing(i) /\ NextRange0(i)' = NextRange0(i)
  BY DEF Playing, NextRange0
<1>6. Whole(i) => Whole(i)'
  BY <1>2, <1>3, <1>5 DEF Whole
<1>7. Unranged' = Unranged
  BY DEF Unranged
<1> QED
  BY <1>1, <1>4, <1>6, <1>7 DEF StreamInv

\* The rest of the transfer invariant, of a step inside of curl_multi_perform.
LEMMA RunKept ==
    ASSUME LoopInv, loop = "run", loop' \in {"run", "exited", "crashed"},
           errorcode' # "ITWORKED", file' = file,
           torn' \subseteq failed' \cup Unranged, active' \cap ended' = {},
           \A i \in Streams : StreamInv(i)'
    PROVE  TransferInv'
<1>1. Unranged' = Unranged
  BY DEF Unranged
<1> QED
  BY <1>1 DEF TransferInv, TornOnlyByFailure, Phases, Stopped, NotYetWorked

\* A frame keeps the error code, or sets the one of a stall.
LEMMA FrameCode ==
    ASSUME NEW i, NEW ts, Frame(i, ts)
    PROVE  errorcode' = errorcode \/ errorcode' = "ERROR_STALL"
BY DEF Frame, Checkstall

\* The end of the packet that holds byte x.
LEMMA PacketEnd == \A x \in Nat : ((x \div PacketSize) + 1) * PacketSize > x
<1> SUFFICES ASSUME NEW x \in Nat PROVE ((x \div PacketSize) + 1) * PacketSize > x
  OBVIOUS
<1>1. PacketSize \in Nat /\ PacketSize > 0
  BY TcpLoopAssumption
<1> DEFINE q == x \div PacketSize
           r == x % PacketSize
<1>2. q \in Nat /\ r \in Nat /\ r < PacketSize /\ x = PacketSize * q + r
  BY <1>1
<1> HIDE DEF q, r
<1>3. (q + 1) * PacketSize = PacketSize * q + PacketSize
  BY <1>1, <1>2
<1>4. PacketSize * q \in Nat
  BY <1>1, <1>2, Products
<1>5. (q + 1) * PacketSize > x
  BY <1>1, <1>2, <1>3, <1>4
<1> QED
  BY <1>5 DEF q

\* A packet continues what the parser got, inside of what the server sends.
LEMMA PacketMoves ==
    ASSUME LoopType, NEW i \in Streams, Packet(i), url[i].range0 + got[i] = received[i]
    PROVE  \E g \in Nat :
              /\ g <= Offered(i)
              /\ got' = [got EXCEPT ![i] = g]
              /\ received' = [received EXCEPT ![i] = url[i].range0 + g]
<1> DEFINE n == ((url[i].range0 + got[i]) \div PacketSize) + 1
           end == n * PacketSize
<1>1. url[i].range0 \in Nat /\ got[i] \in Nat /\ Offered(i) \in Nat
  BY OfferedType DEF LoopType, VideoUrl
<1>2. n \in Nat
  BY <1>1, TcpLoopAssumption
<1>3. end > url[i].range0 + got[i]
  BY <1>1, PacketEnd
<1>4. \/ /\ end <= url[i].range0 + Offered(i)
         /\ got' = [got EXCEPT ![i] = end - url[i].range0]
         /\ received' = [received EXCEPT ![i] = end]
      \/ /\ got' = [got EXCEPT ![i] = Offered(i)]
         /\ received' = [received EXCEPT ![i] = url[i].range0 + Offered(i)]
  BY DEF Packet
<1> HIDE DEF n
<1>5. end \in Nat
  BY <1>2, Products, TcpLoopAssumption
<1> HIDE DEF end
<1>6. CASE /\ end <= url[i].range0 + Offered(i)
           /\ got' = [got EXCEPT ![i] = end - url[i].range0]
           /\ received' = [received EXCEPT ![i] = end]
  <2> DEFINE g == end - url[i].range0
  <2>1. g \in Nat /\ g <= Offered(i) /\ url[i].range0 + g = end
    BY <1>1, <1>3, <1>5, <1>6
  <2>2. got' = [got EXCEPT ![i] = g]
    BY <1>6
  <2> HIDE DEF g
  <2> QED
    BY <1>6, <2>1, <2>2
<1> QED
  BY <1>1, <1>4, <1>6

\* A packet is a frame of the playout, at the timestamp it has in the file.
LEMMA PacketRefines ==
    ASSUME IInv, LoopType, NEW i \in Streams, Packet(i)
    PROVE  \/ \E k \in Streams : Frame(k, metric'.TSlist[k])
           \/ UNCHANGED playoutVars
<1> DEFINE n == ((url[i].range0 + got[i]) \div PacketSize) + 1
           k == TrackOf(i, n)
           ts == TimestampOf(i, n)
<1>1. CASE UNCHANGED playoutVars
  BY <1>1
<1>2. CASE Frame(k, ts)
  <2> HIDE DEF ts
  <2>1. n \in Int
    BY TcpLoopAssumption DEF LoopType, VideoUrl
  <2> HIDE DEF n
  <2>2. file[i].tracks # {}
    <3>1. Offered(i) > 0
      BY OfferedType DEF Packet, LoopType
    <3>2. FileSize(i) > 0
      BY <3>1, OfferedType, FileSizeType DEF LoopType, VideoUrl
    <3>3. ASSUME file[i].tracks = {} PROVE FALSE
      <4>1. {} # Streams
        BY DEF Streams
      <4> QED
        BY <3>2, <3>3, <4>1, TcpLoopAssumption DEF FileSize
    <3> QED
      BY <3>3
  <2>3. file[i].tracks \in SUBSET Streams
    BY DEF LoopType, File
  <2>4. (CHOOSE t \in file[i].tracks : TRUE) \in Streams
    BY <2>2, <2>3
  <2>5. k \in Streams
    BY <2>1, <2>4 DEF TrackOf, Streams
  <2> HIDE DEF k
  <2>6. metric' = CheckedMetric([metric.TSlist EXCEPT ![k] = ts], FALSE)
    BY <1>2 DEF Frame, Checkstall
  <2>7. metric \in Metric /\ metric.TSlist \in [Streams -> Int]
    BY DEF IInv, Sound, Metric
  <2>8. metric'.TSlist = [metric.TSlist EXCEPT ![k] = ts]
    BY <2>6, <2>7, CheckedList
  <2>9. metric'.TSlist[k] = ts
    BY <2>5, <2>7, <2>8
  <2> QED
    BY <1>2, <2>5, <2>9
<1> QED
  BY <1>1, <1>2 DEF Packet

LEMMA PacketKeeps ==
    ASSUME IInv, LoopInv, NEW i \in Streams, Packet(i)
    PROVE  LoopInv'
<1> USE DEF LoopInv
<1>1. StreamInv(i) /\ Fed(i) /\ Moving(i) /\ Ranged(i) /\ loop = "run" /\ i \notin ended
  BY DEF Packet, Transferring, TransferInv, InOrder, StreamInv, Moving, Phases
<1>2. /\ got[i] \in Nat /\ Offered(i) \in Nat /\ FileSize(i) \in Nat /\ received[i] \in Nat
      /\ url[i].range0 \in Nat /\ got[i] < Offered(i)
      /\ url[i].range0 + Offered(i) <= FileSize(i)
      /\ totalbytes[i] \in Nat /\ before[i] \in Nat
  BY OfferedType, FileSizeType DEF LoopType, VideoUrl, Packet
<1>3. url[i].range0 < FileSize(i) /\ received[i] = url[i].range0 + got[i]
  BY <1>1, <1>2 DEF Fed
<1>4. PICK g \in Nat : /\ g <= Offered(i)
                       /\ got' = [got EXCEPT ![i] = g]
                       /\ received' = [received EXCEPT ![i] = url[i].range0 + g]
  BY <1>3, PacketMoves
<1>5. LoopType'
  BY <1>2, <1>4 DEF LoopType, Packet
<1>6. StreamInv(i)'
  <2>1. /\ FileSize(i)' = FileSize(i) /\ Offered(i)' = Offered(i)
        /\ Moving(i)' = Moving(i) /\ Ranged(i)' /\ Unranged' = Unranged
    BY <1>1 DEF Packet, FileSize, Offered, Moving, Ranged, Unranged
  <2>2. got'[i] = g /\ received'[i] = url[i].range0 + g
    BY <1>4 DEF LoopType
  <2>3. /\ totalbytes' = totalbytes /\ before' = before /\ url' = url
        /\ ended' = ended /\ torn' = torn /\ failed' = failed
    BY DEF Packet
  <2>4. Fed(i)'
    <3>1. totalbytes[i] = before[i] + received[i] - got[i] /\ url[i].playing
      BY <1>1 DEF Fed
    <3>2. totalbytes[i] = before[i] + (url[i].range0 + g) - g
      BY <1>2, <1>3, <3>1
    <3>3. url[i].range0 + g <= FileSize(i)
      BY <1>2, <1>4
    <3> QED
      BY <1>1, <1>3, <1>4, <2>1, <2>2, <2>3, <3>1, <3>2, <3>3 DEF Fed
  <2>5. Whole(i)'
    BY <1>1, <1>2, <1>3, <2>1, <2>3 DEF Whole
  <2> QED
    BY <2>1, <2>4, <2>5 DEF StreamInv
<1>7. \A j \in Streams : StreamInv(j)'
  <2> SUFFICES ASSUME NEW j \in Streams, j # i PROVE StreamInv(j)'
    BY <1>6
  <2>1. StreamInv(j)
    BY <1>1 DEF TransferInv, InOrder
  <2>2. got'[j] = got[j] /\ received'[j] = received[j]
    BY <1>4 DEF LoopType
  <2>3. Moving(j)' <=> Moving(j)
    BY DEF Packet, Moving
  <2> QED
    BY <2>1, <2>2, <2>3, StreamKept DEF Packet
<1>8. errorcode' # "ITWORKED"
  <2>1. errorcode # "ITWORKED"
    BY <1>1 DEF TransferInv, NotYetWorked
  <2>2. errorcode' = errorcode \/ errorcode' = "ERROR_STALL"
    BY FrameCode DEF Packet, playoutVars
  <2> QED
    BY <2>1, <2>2
<1>9. TransferInv'
  BY <1>1, <1>7, <1>8, RunKept DEF Packet, TransferInv, TornOnlyByFailure, Phases
<1> QED
  BY <1>5, <1>9

LEMMA TornBytesKeeps ==
    ASSUME LoopInv, NEW i \in Streams, TornBytes(i)
    PROVE  LoopInv'
<1> USE DEF LoopInv
<1>1. loop = "run" /\ i \in torn /\ errorcode # "ITWORKED"
  BY DEF TornBytes, Transferring, TransferInv, NotYetWorked
<1>2. \A j \in Streams : StreamInv(j)
  BY <1>1 DEF TransferInv, InOrder
<1>3. LoopType'
  BY OfferedType DEF TornBytes, LoopType, LoopPlaces, historyVars
<1>4. ASSUME NEW j \in Streams PROVE StreamInv(j)'
  <2>1. CASE j = i
    <3>1. Ranged(i)'
      BY <1>2 DEF StreamInv, Ranged, TornBytes, Moving
    <3>2. i \in torn' /\ i \in failed' \cup Unranged'
      BY <1>1 DEF TransferInv, TornOnlyByFailure, TornBytes, historyVars, Unranged
    <3> QED
      BY <2>1, <3>1, <3>2 DEF StreamInv
  <2>2. CASE j # i
    <3>1. got'[j] = got[j]
      BY <2>2 DEF TornBytes, LoopType
    <3>2. Moving(j)' <=> Moving(j)
      BY DEF TornBytes, Moving
    <3> QED
      BY <1>2, <3>1, <3>2, StreamKept DEF TornBytes, historyVars
  <2> QED
    BY <2>1, <2>2
<1>5. TransferInv'
  BY <1>1, <1>4, RunKept
  DEF TornBytes, TransferInv, TornOnlyByFailure, Phases, historyVars, playoutVars
<1> QED
  BY <1>3, <1>5

LEMMA DoneKeeps ==
    ASSUME LoopInv, NEW i \in Streams, Done(i)
    PROVE  LoopInv'
<1> USE DEF LoopInv
<1>1. loop = "run" /\ i \in active /\ errorcode # "ITWORKED" /\ got[i] = Offered(i)
  BY DEF Done, Transferring, TransferInv, NotYetWorked
<1>2. \A j \in Streams : StreamInv(j)
  BY <1>1 DEF TransferInv, InOrder
<1>3. LoopType'
  BY DEF Done, EndTransfer, LoopType, historyVars
<1>4. ASSUME NEW j \in Streams PROVE StreamInv(j)'
  <2>1. Moving(j)' <=> Moving(j)
    BY <1>1 DEF Done, EndTransfer, Moving
  <2>2. CASE j = i
    <3>1. Ranged(i)'
      BY <1>2, <2>1, <2>2 DEF StreamInv, Ranged, Done
    <3>2. FileSize(i)' = FileSize(i) /\ Offered(i)' = Offered(i)
      BY DEF Done, FileSize, Offered
    <3>3. Fed(i) => Fed(i)'
      BY <2>1, <2>2, <3>2 DEF Fed, Done, historyVars
    <3>4. Whole(i) => Whole(i)'
      BY <1>1, <2>1, <2>2, <3>2 DEF Whole, Done, historyVars, Moving
    <3> QED
      BY <1>2, <2>2, <3>1, <3>3, <3>4 DEF StreamInv, Done, historyVars, Unranged
  <2>3. CASE j # i
    BY <1>2, <2>1, <2>3, StreamKept DEF Done, EndTransfer, historyVars
  <2> QED
    BY <2>2, <2>3
<1>5. TransferInv'
  BY <1>1, <1>4, RunKept
  DEF Done, EndTransfer, TransferInv, TornOnlyByFailure, Phases, historyVars, playoutVars
<1> QED
  BY <1>3, <1>5

LEMMA CutKeeps ==
    ASSUME LoopInv, NEW i \in Streams, Cut(i)
    PROVE  LoopInv'
<1> USE DEF LoopInv
<1>1. loop = "run" /\ i \in active /\ errorcode # "ITWORKED"
  BY DEF Cut, Transferring, TransferInv, NotYetWorked
<1>2. \A j \in Streams : StreamInv(j)
  BY <1>1 DEF TransferInv, InOrder
<1>3. LoopType'
  BY DEF Cut, EndTransfer, LoopType
<1>4. ASSUME NEW j \in Streams PROVE StreamInv(j)'
  <2>1. Moving(j)' <=> Moving(j)
    BY <1>1 DEF Cut, EndTransfer, Moving
  <2>2. CASE j = i
    <3>1. Ranged(i)'
      BY <1>2, <2>1, <2>2 DEF StreamInv, Ranged, Cut
    <3>2. FileSize(i)' = FileSize(i) /\ Offered(i)' = Offered(i)
      BY DEF Cut, FileSize, Offered
    <3>3. Fed(i) => Fed(i)'
      BY <2>1, <2>2, <3>2 DEF Fed, Cut
    <3> QED
      BY <1>2, <2>2, <3>1, <3>3 DEF StreamInv, Cut
  <2>3. CASE j # i
    BY <1>2, <2>1, <2>3, StreamKept DEF Cut, EndTransfer
  <2> QED
    BY <2>2, <2>3
<1>5. TransferInv'
  BY <1>1, <1>4, RunKept
  DEF Cut, EndTransfer, TransferInv, TornOnlyByFailure, Phases, playoutVars
<1> QED
  BY <1>3, <1>5

LEMMA ErrorPageKeeps ==
    ASSUME LoopInv, NEW i \in Streams, ErrorPage(i)
    PROVE  LoopInv'
<1> USE DEF LoopInv
<1>1. loop = "run" /\ i \in active /\ errorcode # "ITWORKED"
  BY DEF ErrorPage, Transferring, TransferInv, NotYetWorked
<1>2. \A j \in Streams : StreamInv(j)
  BY <1>1 DEF TransferInv, InOrder
<1>3. LoopType'
  BY DEF ErrorPage, EndTransfer, LoopType, LoopPlaces
<1>4. ASSUME NEW j \in Streams PROVE StreamInv(j)'
  <2>1. Moving(j)' <=> Moving(j)
    BY <1>1 DEF ErrorPage, EndTransfer, Moving
  <2>2. CASE j = i
    <3>1. Ranged(i)'
      BY <1>2, <2>1, <2>2 DEF StreamInv, Ranged, ErrorPage
    <3> QED
      BY <2>2, <3>1 DEF StreamInv, ErrorPage
  <2>3. CASE j # i
    <3>1. got'[j] = got[j]
      BY <2>3 DEF ErrorPage, LoopType
    <3> QED
      BY <1>2, <2>1, <2>3, <3>1, StreamKept DEF ErrorPage, EndTransfer
  <2> QED
    BY <2>2, <2>3
<1>5. TransferInv'
  BY <1>1, <1>4, RunKept
  DEF ErrorPage, EndTransfer, TransferInv, TornOnlyByFailure, Phases, playoutVars
<1> QED
  BY <1>3, <1>5

\* Time that passes changes nothing of the transfers.
LEMMA WaitKeeps ==
    ASSUME LoopInv, Wait \/ SelectIdle
    PROVE  LoopInv'
<1> USE DEF LoopInv
<1>1. /\ loop \in {"run", "select"} /\ loop' = "run"
      /\ errorcode' = errorcode /\ errorcode # "ITWORKED"
      /\ UNCHANGED <<numofstreams, file, url, transferVars, totalbytes, historyVars>>
  BY DEF Wait, SelectIdle, TimePasses, TransferInv, NotYetWorked, loopVars
<1>2. LoopType'
  BY <1>1 DEF LoopType, LoopPlaces, transferVars, historyVars
<1>3. ASSUME NEW j \in Streams PROVE StreamInv(j)'
  <2>1. StreamInv(j)
    BY <1>1 DEF TransferInv, InOrder
  <2>2. Moving(j)' <=> Moving(j)
    BY <1>1 DEF transferVars, Moving
  <2> QED
    BY <1>1, <2>1, <2>2, StreamKept DEF transferVars, historyVars
<1>4. TransferInv'
  BY <1>1, <1>3
  DEF TransferInv, TornOnlyByFailure, Unranged, Phases, Stopped, NotYetWorked,
      transferVars, historyVars
<1> QED
  BY <1>2, <1>4

\* select never waits a negative time, so that the time that passes is named.
LEMMA LoadStreamsRefines ==
    ASSUME IInv, LoadStreams
    PROVE  TimePasses(now' - now)
<1>1. /\ now \in Nat /\ metric.TSnow \in Int /\ metric.TS0 \in Int /\ metric.Tmin \in Int
  BY DEF IInv, Sound, Metric
<1>2. PlayoutBuffer(metric.TSnow, now) \in Int
  BY <1>1 DEF PlayoutBuffer
<1>3. Awake \in Int
  BY <1>1, <1>2, TcpLoopAssumption DEF Awake
<1>4. TimePasses(Awake - now)
  BY DEF LoadStreams
<1>5. Awake - now = now' - now
  BY <1>1, <1>3, <1>4 DEF TimePasses
<1> QED
  BY <1>4, <1>5

\* What load_streams does with one stream that is used.
LEMMA LoadsStream ==
    ASSUME LoopType, LoadStreams, NEW i \in Indices
    PROVE  /\ url'[i].range0 = NextRange0(i)
           /\ url'[i].range1 = url[i].range1 + (IF Wants(i) THEN RangeAddition(i) ELSE 0)
           /\ url'[i].playing = Playing(i)
           /\ i \in active' <=> Wants(i)
           /\ got'[i] = IF Wants(i) THEN 0 ELSE got[i]
           /\ Wants(i) => Playing(i)
           /\ i \in torn' <=> \/ i \in torn
                              \/ Wants(i) /\ NextRange0(i) # received[i]
                                         /\ NextRange0(i) < FileSize(i)
<1>1. i \in Streams
  BY IndicesAreStreams
<1>2. url'[i] = [range0  |-> NextRange0(i),
                range1  |-> url[i].range1 + (IF Wants(i) THEN RangeAddition(i) ELSE 0),
                playing |-> Playing(i)]
  BY <1>1 DEF LoadStreams
<1>3. i \in active' <=> Wants(i)
  BY DEF LoadStreams
<1>4. got'[i] = IF i \in active' THEN 0 ELSE got[i]
  BY <1>1 DEF LoadStreams
<1>5. Wants(i) => Playing(i)
  BY DEF Wants
<1>6. i \in torn' <=> \/ i \in torn
                      \/ i \in active' /\ NextRange0(i) # received[i]
                                       /\ NextRange0(i) < FileSize(i)
  BY <1>1 DEF LoadStreams
<1> QED
  BY <1>2, <1>3, <1>4, <1>5, <1>6

LEMMA LoadStreamsType ==
    ASSUME LoopInv, LoadStreams
    PROVE  LoopType'
<1> USE DEF LoopInv
<1>1. \A i \in Streams : url'[i] \in VideoUrl
  <2> SUFFICES ASSUME NEW i \in Streams PROVE url'[i] \in VideoUrl
    OBVIOUS
  <2>1. url[i] \in VideoUrl /\ url[i].range1 \in Nat /\ url[i].playing \in BOOLEAN
    BY DEF LoopType, VideoUrl
  <2>2. url'[i] = IF i \in Indices
                 THEN [range0  |-> NextRange0(i),
                       range1  |-> url[i].range1 + (IF Wants(i) THEN RangeAddition(i) ELSE 0),
                       playing |-> Playing(i)]
                 ELSE url[i]
    BY DEF LoadStreams
  <2>3. NextRange0(i) \in Nat
    BY <2>1 DEF NextRange0
  <2>4. url[i].range1 + (IF Wants(i) THEN RangeAddition(i) ELSE 0) \in Nat
    BY <2>1, RangeAdditionType
  <2>5. Playing(i) \in BOOLEAN
    BY <2>1 DEF Playing
  <2>6. \A a, b \in Nat, c \in BOOLEAN :
            [range0 |-> a, range1 |-> b, playing |-> c] \in VideoUrl
    BY DEF VideoUrl
  <2> QED
    BY <2>1, <2>2, <2>3, <2>4, <2>5, <2>6, Zenon
<1>2. url' \in [Streams -> VideoUrl]
  <2>1. url' = [i \in Streams |-> url'[i]]
    BY DEF LoadStreams
  <2> QED
    BY <1>1, <2>1
<1>3. got' \in [Streams -> Nat]
  BY DEF LoadStreams, LoopType
<1>4. active' \subseteq Streams /\ torn' \subseteq Streams
  BY IndicesAreStreams DEF LoadStreams, LoopType
<1>5. loop' \in LoopPlaces
  BY DEF LoadStreams, LoopPlaces
<1> QED
  BY <1>2, <1>3, <1>4, <1>5 DEF LoadStreams, LoopType

\* A stream that gets a new range continues the last one.
LEMMA LoadsStreamInOrder ==
    ASSUME LoopInv, LoadStreams, NEW i \in Indices, StreamInv(i)
    PROVE  StreamInv(i)'
<1> USE DEF LoopInv
<1>0. i \in Streams
  BY IndicesAreStreams
<1>1. ~Moving(i) /\ ended = {} /\ ended' = {} /\ file' = file
  BY DEF LoadStreams, TransferInv, Phases, Moving
<1>2. Moving(i)' <=> Wants(i)
  BY <1>1, LoadsStream DEF Moving
<1>3. /\ received' = received /\ totalbytes' = totalbytes /\ before' = before
      /\ failed' = failed
  BY DEF LoadStreams
<1>4. /\ url[i].range0 \in Nat /\ url[i].range1 \in Nat /\ FileSize(i) \in Nat
      /\ received[i] \in Nat /\ totalbytes[i] \in Nat /\ before[i] \in Nat
      /\ RangeAddition(i) \in Nat /\ got[i] \in Nat
  BY <1>0, FileSizeType, RangeAdditionType DEF LoopType, VideoUrl
<1>5. FileSize(i)' = FileSize(i) /\ Unranged' = Unranged
  BY <1>1 DEF FileSize, Unranged
<1>6. Offered(i)' \in Nat
  <2>1. url'[i].range0 \in Nat /\ url'[i].range1 \in Nat
    BY <1>0, LoadStreamsType DEF LoopType, VideoUrl
  <2> QED
    BY <1>4, <1>5, <2>1 DEF Offered
<1>7. /\ url'[i].range1 \in Nat /\ url'[i].range1 >= url[i].range1
      /\ url'[i].range1 = 0 => url[i].range1 = 0
      /\ ~Wants(i) => url'[i].range1 = url[i].range1
  BY <1>4, LoadsStream
<1>8. NextRange0(i) = IF url[i].range1 > 0 THEN url[i].range1 + 1 ELSE 0
  BY DEF NextRange0
<1>9. Ranged(i)'
  <2>1. Ranged(i)
    BY DEF StreamInv
  <2>2. url'[i].range0 = NextRange0(i)
    BY LoadsStream
  <2>3. url'[i].range0 <= url'[i].range1 + 1
    BY <1>4, <1>7, <1>8, <2>2
  <2>4. url'[i].range1 = 0 => url'[i].range0 = 0
    BY <1>4, <1>7, <1>8, <2>2
  <2>5. file[i].bitrate = 0 => url'[i].range1 = 0
    BY <1>0, <1>4, <2>1, LoadsStream, RangeAdditionType DEF Ranged
  <2>6. Wants(i) /\ file[i].bitrate # 0 => url'[i].range1 > 0
    BY <1>0, <1>4, LoadsStream, RangeAdditionType
  <2> QED
    BY <1>1, <1>2, <2>3, <2>4, <2>5, <2>6 DEF Ranged
<1>10. ASSUME i \notin torn' PROVE Fed(i)'
  <2>1. Fed(i) /\ (Wants(i) => NextRange0(i) = received[i] \/ NextRange0(i) >= FileSize(i))
    <3>1. NextRange0(i) \in Nat
      BY <1>4, <1>8
    <3> QED
      BY <1>4, <1>10, <3>1, LoadsStream DEF StreamInv
  <2>2. received[i] <= FileSize(i) /\ totalbytes[i] = before[i] + received[i]
    BY <1>1, <1>4, <2>1 DEF Fed
  <2>3. CASE Wants(i)
    <3>1. got'[i] = 0 /\ url'[i].playing /\ url'[i].range0 = NextRange0(i)
      BY <2>3, LoadsStream
    <3>2. \/ url'[i].range0 < FileSize(i) /\ received[i] = url'[i].range0 + got'[i]
          \/ url'[i].range0 >= FileSize(i) /\ got'[i] = 0
      BY <1>4, <1>8, <2>1, <2>3, <3>1
    <3>3. totalbytes[i] = before[i] + received[i] - got'[i]
      BY <1>4, <2>2, <3>1
    <3>4. got'[i] <= Offered(i)'
      BY <1>6, <3>1
    <3> QED
      BY <1>2, <1>3, <1>5, <2>2, <2>3, <3>1, <3>2, <3>3, <3>4 DEF Fed
  <2>4. CASE ~Wants(i)
    <3>1. totalbytes[i] = before[i] + received[i] - 0
      BY <1>4, <2>2
    <3> QED
      BY <1>2, <1>3, <1>5, <2>2, <2>4, <3>1 DEF Fed
  <2> QED
    BY <2>3, <2>4
<1>11. ASSUME i \notin failed \cup Unranged PROVE Whole(i)'
  <2>1. Whole(i)
    BY <1>11 DEF StreamInv
  <2>2. CASE Wants(i)
    <3>1. Playing(i) /\ url'[i].range0 = NextRange0(i)
      BY <2>2, LoadsStream
    <3>2. \/ NextRange0(i) = received[i]
          \/ NextRange0(i) >= FileSize(i) /\ received[i] = FileSize(i)
      BY <1>1, <2>1, <3>1 DEF Whole
    <3>3. Fed(i)
      BY <1>11 DEF StreamInv, TransferInv, TornOnlyByFailure
    <3>4. received[i] <= FileSize(i)
      BY <3>3 DEF Fed
    <3>5. url'[i].range0 >= FileSize(i) => received[i] = FileSize(i)
      BY <1>4, <1>8, <3>1, <3>2, <3>4
    <3> QED
      BY <1>1, <1>2, <1>3, <1>5, <2>2, <3>5 DEF Whole
  <2>3. CASE ~Wants(i)
    <3>1. Playing(i)' = Playing(i)
      BY <1>7, <2>3, LoadsStream DEF Playing
    <3>2. NextRange0(i)' = NextRange0(i)
      BY <1>7, <2>3 DEF NextRange0
    <3> QED
      BY <1>1, <1>2, <1>3, <1>5, <2>1, <2>3, <3>1, <3>2 DEF Whole
  <2> QED
    BY <2>2, <2>3
<1> QED
  BY <1>3, <1>5, <1>9, <1>10, <1>11 DEF StreamInv

LEMMA LoadStreamsKeeps ==
    ASSUME LoopInv, LoadStreams
    PROVE  LoopInv'
<1> USE DEF LoopInv
<1>1. /\ loop = "top" /\ active = {} /\ ended = {} /\ ended' = {} /\ file' = file
      /\ errorcode' = errorcode /\ errorcode # "ITWORKED"
  BY DEF LoadStreams, TimePasses, TransferInv, Phases, NotYetWorked
<1>2. \A i \in Streams : StreamInv(i)
  BY <1>1 DEF TransferInv, InOrder
<1>3. ASSUME NEW i \in Streams PROVE StreamInv(i)'
  <2>1. CASE i \in Indices
    BY <1>2, <2>1, LoadsStreamInOrder
  <2>2. CASE i \notin Indices
    <3>1. i \notin active'
      BY <2>2 DEF LoadStreams
    <3>2. url'[i] = url[i] /\ got'[i] = got[i]
      BY <2>2, <3>1 DEF LoadStreams
    <3>3. i \in torn => i \in torn'
      BY DEF LoadStreams
    <3>4. Moving(i)' <=> Moving(i)
      BY <1>1, <3>1 DEF Moving
    <3> QED
      BY <1>1, <1>2, <3>2, <3>3, <3>4, StreamKept DEF LoadStreams
  <2> QED
    BY <2>1, <2>2
<1>4. Unranged' = Unranged /\ Indices' = Indices
  BY <1>1 DEF Unranged, Indices, LoadStreams
<1>5. TornOnlyByFailure'
  <2>1. ASSUME NEW i \in active', NextRange0(i) # received[i], NextRange0(i) < FileSize(i)
        PROVE  i \in failed \cup Unranged
    <3> SUFFICES ASSUME i \notin failed \cup Unranged PROVE FALSE
      OBVIOUS
    <3>1. i \in Indices /\ i \in Streams /\ Playing(i)
      BY <2>1, IndicesAreStreams DEF LoadStreams, Wants
    <3>2. Whole(i) /\ ~Moving(i)
      BY <1>1, <1>2, <3>1 DEF StreamInv, Moving
    <3>3. FileSize(i) \in Nat /\ NextRange0(i) \in Nat
      BY <3>1, FileSizeType DEF LoopType, NextRange0, VideoUrl
    <3> QED
      BY <2>1, <3>1, <3>2, <3>3 DEF Whole
  <2>2. torn' = torn \cup {i \in active' : /\ NextRange0(i) # received[i]
                                          /\ NextRange0(i) < FileSize(i)}
    BY DEF LoadStreams
  <2>3. failed' = failed /\ torn \subseteq failed \cup Unranged
    BY DEF LoadStreams, TransferInv, TornOnlyByFailure
  <2> QED
    BY <1>4, <2>1, <2>2, <2>3 DEF TornOnlyByFailure
<1>6. active' # {} => \E i \in Indices : Playing(i)
  BY DEF LoadStreams, Wants
<1>7. loop' = "break" => active' = {} /\ \A i \in Indices : ~Playing(i)'
  <2> SUFFICES ASSUME loop' = "break" PROVE active' = {} /\ \A i \in Indices : ~Playing(i)'
    OBVIOUS
  <2>1. \A i \in Indices : ~Playing(i)
    BY DEF LoadStreams
  <2>2. ASSUME NEW i \in Indices PROVE ~Playing(i)'
    <3>1. ~Playing(i) /\ url[i].range1 # 0
      BY <2>1 DEF Playing
    <3>2. ~Wants(i) /\ url[i].range1 \in Nat
      BY <3>1, IndicesAreStreams DEF Wants, LoopType, VideoUrl
    <3>3. url'[i].playing = Playing(i) /\ url'[i].range1 = url[i].range1
      BY <3>2, LoadsStream
    <3> QED
      BY <3>1, <3>3 DEF Playing
  <2> QED
    BY <1>6, <2>1, <2>2
<1>8. loop' \in {"break", "select", "run"} /\ (loop' = "select" => active' = {})
  BY DEF LoadStreams
<1>9. TransferInv'
  BY <1>1, <1>3, <1>4, <1>5, <1>7, <1>8 DEF TransferInv, Phases, Stopped, NotYetWorked
<1> QED
  BY <1>9, LoadStreamsType

\* What a pass of process_running does with one stream.
LEMMA ProgressStream ==
    ASSUME LoopType, Progress, NEW i \in Streams
    PROVE  /\ url'[i].range0 = url[i].range0 /\ url'[i].range1 = url[i].range1
           /\ url'[i].playing <=> url[i].playing /\ ~(i \in ended /\ Short(i))
           /\ i \notin ended => url'[i].playing = url[i].playing
           /\ totalbytes'[i] = totalbytes[i]
                                 + IF i \in ended /\ url[i].playing THEN got[i] ELSE 0
<1>1. url'[i] = [url[i] EXCEPT !.playing = @ /\ ~(i \in ended /\ Short(i))]
  BY DEF Progress
<1>2. url[i] \in VideoUrl
  BY DEF LoopType
<1>3. totalbytes' = Counted({j \in ended : url[j].playing})
  BY DEF Progress
<1>4. i \in {j \in ended : url[j].playing} <=> i \in ended /\ url[i].playing
  OBVIOUS
<1>5. /\ url'[i].range0 = url[i].range0 /\ url'[i].range1 = url[i].range1
      /\ url'[i].playing = (url[i].playing /\ ~(i \in ended /\ Short(i)))
  BY <1>1, <1>2, Zenon DEF VideoUrl
<1>6. totalbytes'[i] = totalbytes[i] + IF i \in ended /\ url[i].playing THEN got[i] ELSE 0
  BY <1>3, <1>4 DEF Counted
<1>7. /\ url'[i].playing <=> url[i].playing /\ ~(i \in ended /\ Short(i))
      /\ i \notin ended => url'[i].playing = url[i].playing
  BY <1>2, <1>5, Zenon DEF VideoUrl
<1> QED
  BY <1>5, <1>6, <1>7

\* The end of a transfer that did not fail: the range was delivered up to its end or up
\* to the end of the file, and only the latter is short.
LEMMA EndOfTransfer ==
    ASSUME LoopType, NEW i \in Streams, i \in ended, Ranged(i), Fed(i), Whole(i),
           url[i].range1 > 0
    PROVE  /\ Short(i) => received[i] = FileSize(i)
           /\ ~Short(i) => \/ url[i].range1 + 1 = received[i]
                           \/ /\ url[i].range1 + 1 >= FileSize(i)
                              /\ received[i] = FileSize(i)
<1>1. /\ url[i].range0 \in Nat /\ url[i].range1 \in Nat /\ FileSize(i) \in Nat
      /\ received[i] \in Nat /\ got[i] \in Nat
  BY FileSizeType DEF LoopType, VideoUrl
<1>2. Moving(i) /\ got[i] = Offered(i) /\ url[i].range0 <= url[i].range1 + 1
  BY DEF Moving, Whole, Ranged
<1>3. CASE url[i].range0 >= FileSize(i)
  BY <1>1, <1>2, <1>3 DEF Whole
<1>4. CASE url[i].range0 < FileSize(i) /\ url[i].range1 >= FileSize(i)
  BY <1>1, <1>2, <1>4 DEF Fed, Offered
<1>5. CASE url[i].range0 < FileSize(i) /\ url[i].range1 < FileSize(i)
  <2>1. received[i] = url[i].range0 + got[i]
    BY <1>1, <1>2, <1>5 DEF Fed
  <2>2. got[i] = url[i].range1 + 1 - url[i].range0
    BY <1>1, <1>2, <1>5 DEF Offered
  <2> QED
    BY <1>1, <2>1, <2>2 DEF Short
<1> QED
  BY <1>1, <1>3, <1>4, <1>5

\* A stream whose transfer ended is counted, and is played on unless it is at its end.
LEMMA ProgressStreamInOrder ==
    ASSUME LoopInv, Progress, NEW i \in Streams, StreamInv(i)
    PROVE  StreamInv(i)'
<1> USE DEF LoopInv
<1>1. /\ received' = received /\ before' = before /\ failed' = failed /\ torn' = torn
      /\ got' = got /\ active' = active /\ ended' = {} /\ file' = file
      /\ active \cap ended = {}
  BY DEF Progress, historyVars, TransferInv, Phases
<1>2. Moving(i)' <=> i \in active
  BY <1>1 DEF Moving
<1>3. i \in active => Moving(i) /\ i \notin ended
  BY <1>1 DEF Moving
<1>4. i \in ended => Moving(i)
  BY DEF Moving
<1>5. /\ url[i].range0 \in Nat /\ url[i].range1 \in Nat /\ FileSize(i) \in Nat
      /\ received[i] \in Nat /\ totalbytes[i] \in Nat /\ before[i] \in Nat
      /\ got[i] \in Nat
  BY FileSizeType DEF LoopType, VideoUrl
<1>6. /\ FileSize(i)' = FileSize(i) /\ Unranged' = Unranged
      /\ NextRange0(i)' = NextRange0(i)
  BY <1>1, ProgressStream DEF FileSize, Unranged, NextRange0
<1>7. Offered(i)' = Offered(i)
  BY <1>6, ProgressStream DEF Offered
<1>8. Ranged(i)'
  BY <1>1, <1>2, <1>3, ProgressStream DEF StreamInv, Ranged
<1>9. ASSUME i \notin torn PROVE Fed(i)'
  <2>1. Fed(i)
    BY <1>9 DEF StreamInv
  <2>2. CASE i \in ended
    <3>1. totalbytes'[i] = totalbytes[i] + got[i]
      BY <1>4, <2>1, <2>2, ProgressStream DEF Fed
    <3>2. totalbytes[i] = before[i] + received[i] - got[i]
      BY <1>4, <2>1, <2>2 DEF Fed
    <3>3. totalbytes'[i] = before[i] + received[i] - 0
      BY <1>5, <3>1, <3>2
    <3> QED
      BY <1>1, <1>2, <1>3, <1>6, <2>1, <2>2, <3>3 DEF Fed
  <2>3. CASE i \notin ended
    <3>1. totalbytes'[i] = totalbytes[i] /\ url'[i].playing = url[i].playing
      <4>1. totalbytes'[i] = totalbytes[i] + 0
        BY <2>3, ProgressStream
      <4> QED
        BY <1>5, <2>3, <4>1, ProgressStream
    <3>2. Moving(i)' <=> Moving(i)
      BY <1>2, <2>3 DEF Moving
    <3> QED
      BY <1>1, <1>6, <1>7, <2>1, <3>1, <3>2, ProgressStream DEF Fed
  <2> QED
    BY <2>2, <2>3
<1>10. ASSUME i \notin failed \cup Unranged PROVE Whole(i)'
  <2>1. Whole(i) /\ Ranged(i) /\ Fed(i)
    BY <1>10 DEF StreamInv, TransferInv, TornOnlyByFailure
  <2>2. CASE i \in ended
    <3>1. url[i].range1 > 0
      BY <1>4, <1>10, <2>1, <2>2 DEF Ranged, Unranged
    <3>2. /\ Short(i) => received[i] = FileSize(i)
          /\ ~Short(i) => \/ url[i].range1 + 1 = received[i]
                          \/ /\ url[i].range1 + 1 >= FileSize(i)
                             /\ received[i] = FileSize(i)
      BY <2>1, <2>2, <3>1, EndOfTransfer
    <3>3. ~Moving(i)' /\ url[i].playing
      BY <1>2, <1>3, <1>4, <2>1, <2>2 DEF Fed
    <3>4. Playing(i)' <=> ~Short(i)
      BY <1>5, <2>2, <3>1, <3>3, ProgressStream DEF Playing
    <3>5. NextRange0(i) = url[i].range1 + 1
      BY <3>1 DEF NextRange0
    <3> QED
      BY <1>1, <1>6, <3>2, <3>3, <3>4, <3>5 DEF Whole
  <2>3. CASE i \notin ended
    <3>1. url'[i].playing = url[i].playing
      BY <2>3, ProgressStream
    <3>2. Playing(i)' = Playing(i)
      BY <3>1, ProgressStream DEF Playing
    <3>3. Moving(i)' <=> Moving(i)
      BY <1>2, <2>3 DEF Moving
    <3> QED
      BY <1>1, <1>6, <1>7, <2>1, <3>2, <3>3, ProgressStream DEF Whole
  <2> QED
    BY <2>2, <2>3
<1> QED
  BY <1>1, <1>6, <1>8, <1>9, <1>10 DEF StreamInv

LEMMA ProgressKeeps ==
    ASSUME LoopInv, Progress
    PROVE  LoopInv'
<1> USE DEF LoopInv
<1>1. /\ loop = "run" /\ errorcode # "ITWORKED" /\ file' = file /\ active' = active
      /\ ended' = {} /\ torn' = torn /\ failed' = failed
      /\ errorcode' \in {errorcode, "MAXTESTRUNTIME"}
      /\ loop' = IF errorcode' # "0" THEN "break" ELSE IF active = {} THEN "top" ELSE "run"
  BY DEF Progress, TransferInv, NotYetWorked, historyVars
<1>2. url' \in [Streams -> VideoUrl]
  <2>1. ASSUME NEW i \in Streams PROVE url'[i] \in VideoUrl
    <3> DEFINE p == url[i].playing /\ ~(i \in ended /\ Short(i))
    <3>1. url'[i] = [url[i] EXCEPT !.playing = p]
      BY DEF Progress
    <3>2. p \in BOOLEAN /\ url[i] \in VideoUrl
      BY DEF LoopType, VideoUrl
    <3> HIDE DEF p
    <3> QED
      BY <3>1, <3>2, Zenon DEF VideoUrl
  <2>2. url' = [i \in Streams |-> url'[i]]
    BY DEF Progress
  <2> QED
    BY <2>1, <2>2
<1>3. totalbytes' \in [Streams -> Nat]
  BY DEF Progress, Counted, LoopType
<1>4. LoopType'
  BY <1>1, <1>2, <1>3 DEF Progress, LoopType, LoopPlaces, historyVars
<1>5. \A i \in Streams : StreamInv(i)'
  BY <1>1, ProgressStreamInOrder DEF TransferInv, InOrder
<1>6. TransferInv'
  BY <1>1, <1>5
  DEF TransferInv, TornOnlyByFailure, Unranged, Phases, Stopped, NotYetWorked
<1> QED
  BY <1>4, <1>6

\* The clean-up of a loop that ended without an error counts nothing again.
LEMMA CleanupKeeps ==
    ASSUME IInv, LoopInv, Cleanup
    PROVE  ReportCode /\ LoopInv'
<1> USE DEF LoopInv
<1>1. /\ loop = "break" /\ loop' = "done" /\ errorcode # "ITWORKED" /\ errorcode \in ErrorCodes
      /\ errorcode' = IF errorcode = "0" THEN "ITWORKED" ELSE errorcode
      /\ UNCHANGED <<now, numofstreams, file, url, transferVars, historyVars>>
  BY DEF Cleanup, CurlCleanup, TransferInv, NotYetWorked, IInv
<1>2. errorcode = "0" => \A i \in Indices : ~Playing(i)
  BY <1>1 DEF TransferInv, Stopped
<1>3. errorcode = "0" => \A i \in Indices : ~url[i].playing
  BY <1>2 DEF Playing
<1>4. ReportCode
  <2>1. metric' = metric /\ minbuffer' = minbuffer
    BY <1>3 DEF Cleanup
  <2>2. errorcode' \in ErrorCodes
    BY <1>1 DEF ErrorCodes
  <2> QED
    BY <1>1, <2>1, <2>2 DEF ReportCode
<1>5. totalbytes' = Counted({i \in Indices : url[i].playing})
  BY DEF Cleanup, CurlCleanup
<1>6. LoopType'
  BY <1>1, <1>5 DEF Counted, LoopType, LoopPlaces, transferVars, historyVars
<1>7. ASSUME errorcode = "0", NEW i \in Streams PROVE StreamInv(i)'
  <2>1. totalbytes'[i] = totalbytes[i] + 0
    BY <1>3, <1>5, <1>7 DEF Counted
  <2>2. totalbytes'[i] = totalbytes[i]
    BY <2>1 DEF LoopType
  <2>3. StreamInv(i)
    BY <1>1 DEF TransferInv, InOrder
  <2>4. Moving(i)' <=> Moving(i)
    BY <1>1 DEF transferVars, Moving
  <2> QED
    BY <1>1, <2>2, <2>3, <2>4, StreamKept DEF transferVars, historyVars
<1>8. TransferInv'
  <2>1. Unranged' = Unranged /\ Indices' = Indices /\ \A i \in Indices : Playing(i)' = Playing(i)
    BY <1>1 DEF Unranged, Indices, Playing
  <2>2. Stopped'
    BY <1>1, <2>1 DEF TransferInv, Stopped, transferVars
  <2>3. InOrder' => errorcode = "0"
    BY <1>1 DEF InOrder
  <2> QED
    BY <1>1, <1>7, <2>1, <2>2, <2>3
    DEF TransferInv, TornOnlyByFailure, Phases, NotYetWorked, transferVars, historyVars
<1> QED
  BY <1>4, <1>6, <1>8

\* A failure of libcurl ends the attempt with an error.
LEMMA PerformFailsKeeps ==
    ASSUME IInv, LoopInv, PerformFails
    PROVE  ReportCode /\ LoopInv'
<1> USE DEF LoopInv
<1>1. /\ loop = "run" /\ loop' = "done" /\ errorcode # "ITWORKED" /\ errorcode \in ErrorCodes
      /\ errorcode' = IF errorcode = "0" THEN "CURLERROR" ELSE errorcode
      /\ UNCHANGED <<now, metric, minbuffer, numofstreams, file, url, transferVars,
                     historyVars>>
  BY DEF PerformFails, CurlCleanup, TransferInv, NotYetWorked, IInv
<1>2. ReportCode
  BY <1>1 DEF ReportCode, ErrorCodes
<1>3. totalbytes' = Counted({i \in Indices : url[i].playing})
  BY DEF PerformFails, CurlCleanup
<1>4. LoopType'
  BY <1>1, <1>3 DEF Counted, LoopType, LoopPlaces, transferVars, historyVars
<1>5. TransferInv'
  BY <1>1
  DEF TransferInv, TornOnlyByFailure, Unranged, Phases, Stopped, NotYetWorked, InOrder,
      transferVars, historyVars
<1> QED
  BY <1>2, <1>4, <1>5

\* A process that dies leaves everything as it is.
LEMMA DiesKeeps ==
    ASSUME LoopInv, loop' = "crashed",
           UNCHANGED <<playoutVars, numofstreams, file, url, transferVars, totalbytes,
                       historyVars>>
    PROVE  LoopInv'
BY DEF LoopInv, LoopType, LoopPlaces, TransferInv, TornOnlyByFailure, Unranged, Phases,
       Stopped, NotYetWorked, InOrder, transferVars, historyVars

\* Every step of downloadfiles moves the playout as Playout does, or not at all.
LEMMA LoopStepRefines ==
    ASSUME IInv, LoopInv, LoopRuns \/ LoopSuffers
    PROVE  [PlayoutNext]_playoutVars /\ LoopInv'
<1>1. CASE LoadStreams
  BY <1>1, LoadStreamsRefines, LoadStreamsKeeps DEF PlayoutNext
<1>2. ASSUME NEW i \in Streams, Packet(i)
      PROVE  [PlayoutNext]_playoutVars /\ LoopInv'
  BY <1>2, PacketRefines, PacketKeeps DEF PlayoutNext, LoopInv
<1>3. ASSUME NEW i \in Streams, TornBytes(i) \/ Done(i) \/ Cut(i) \/ ErrorPage(i)
      PROVE  [PlayoutNext]_playoutVars /\ LoopInv'
  <2>1. UNCHANGED playoutVars
    BY <1>3 DEF TornBytes, Done, Cut, ErrorPage
  <2> QED
    BY <1>3, <2>1, TornBytesKeeps, DoneKeeps, CutKeeps, ErrorPageKeeps
<1>4. CASE SelectIdle \/ Wait
  <2>1. TimePasses(1) /\ now \in Nat
    BY <1>4 DEF SelectIdle, Wait, IInv
  <2>2. now' - now = 1
    BY <2>1 DEF TimePasses
  <2> QED
    BY <1>4, <2>1, <2>2, WaitKeeps DEF PlayoutNext
<1>5. CASE Progress
  <2>1. ReportCode
    BY <1>5 DEF Progress, ReportCode, ErrorCodes, IInv
  <2> QED
    BY <1>5, <2>1, ProgressKeeps DEF PlayoutNext
<1>6. CASE Cleanup
  BY <1>6, CleanupKeeps DEF PlayoutNext
<1>7. CASE PerformFails
  BY <1>7, PerformFailsKeeps DEF PlayoutNext
<1>8. CASE CleanupUnmaps \/ RunsOnFreed
  BY <1>8, DiesKeeps DEF CleanupUnmaps, RunsOnFreed, Dies
<1> QED
  BY <1>1, <1>2, <1>3, <1>4, <1>5, <1>6, <1>7, <1>8 DEF LoopRuns, LoopSuffers
-----------------------------------------------------------------------------
(* The steps of main. *)

\* Between two attempts there is nothing to keep but the totals.
LEMMA IdleKeeps ==
    ASSUME LoopInv, loop' = "idle", totalbytes' \in [Streams -> Nat],
           UNCHANGED <<numofstreams, file, url, transferVars, historyVars>>
    PROVE  LoopInv'
BY DEF LoopInv, LoopType, LoopPlaces, TransferInv, TornOnlyByFailure, Unranged, Phases,
       Stopped, NotYetWorked, InOrder, transferVars, historyVars

LEMMA NextLevelTotals ==
    ASSUME LoopType, NEW report, NEW code, NEW rate, NextLevel(report, code, rate)
    PROVE  totalbytes' \in [Streams -> Nat]
<1>1. totalbytes' = totalbytes \/ totalbytes' = [totalbytes EXCEPT ![1] = 0]
  BY DEF NextLevel
<1> QED
  BY <1>1 DEF LoopType

LEMMA FilesType == Files \in [Streams -> File]
<1>1. \A entry : FileOf(entry, Streams) \in File /\ FileOf(entry, {0}) \in File
                   /\ FileOf(entry, {1}) \in File
  <2> SUFFICES ASSUME NEW entry, NEW tracks \in {Streams, {0}, {1}}
               PROVE  FileOf(entry, tracks) \in File
    OBVIOUS
  <2>1. Cardinality({0}) \in Nat /\ Cardinality({1}) \in Nat
    BY FS_Singleton
  <2>2. Cardinality({0} \cup {1}) \in Nat
    BY FS_Singleton, FS_Union, FS_CardinalityType
  <2>3. {0} \cup {1} = Streams
    BY DEF Streams
  <2>4. Cardinality(tracks) \in Nat /\ tracks \in SUBSET Streams
    BY <2>1, <2>2, <2>3 DEF Streams
  <2>5. PacketSize * Cardinality(tracks) \in Nat
    BY <2>4, Products, TcpLoopAssumption
  <2> QED
    BY <2>4, <2>5 DEF FileOf, File
<1>2. NoFile \in File
  BY DEF NoFile, File
<1> QED
  BY <1>1, <1>2 DEF Files

\* A signal, or a step that leaves downloadfiles alone, keeps it in order.
LEMMA UnchangedKeeps ==
    ASSUME LoopInv, UNCHANGED loopVars, errorcode' \in {errorcode, "SIGNALHIT"}
    PROVE  LoopInv'
<1> USE DEF LoopInv
<1>1. UNCHANGED <<loop, numofstreams, file, url, transferVars, totalbytes, historyVars>>
  BY DEF loopVars
<1>2. LoopType'
  BY <1>1 DEF LoopType, transferVars, historyVars
<1>3. ASSUME NEW i \in Streams, StreamInv(i) PROVE StreamInv(i)'
  <2>1. Moving(i)' <=> Moving(i)
    BY <1>1 DEF Moving, transferVars
  <2> QED
    BY <1>1, <1>3, <2>1, StreamKept DEF transferVars, historyVars
<1>4. Unranged' = Unranged /\ Indices' = Indices /\ \A i \in Indices : Playing(i)' = Playing(i)
  BY <1>1 DEF Unranged, Indices, Playing
<1>5. Stopped' /\ (InOrder' => InOrder)
  BY <1>1, <1>4 DEF TransferInv, Stopped, InOrder, transferVars
<1>6. TransferInv'
  BY <1>1, <1>3, <1>4, <1>5
  DEF TransferInv, TornOnlyByFailure, Phases, NotYetWorked, transferVars, historyVars
<1> QED
  BY <1>2, <1>6

\* A new attempt begins with every stream at the start of its file.
LEMMA StartAttemptKeeps ==
    ASSUME LoopInv, NEW streams \in 1..2, NEW files \in [Streams -> File], NEW fail,
           StartAttempt(streams, files, fail)
    PROVE  LoopInv'
<1> USE DEF LoopInv
<1>1. /\ loop' = "top" /\ numofstreams' = streams /\ file' = files
      /\ url' = [i \in Streams |-> FreshUrl]
      /\ active' = {} /\ ended' = {} /\ got' = [i \in Streams |-> 0]
      /\ received' = [i \in Streams |-> 0] /\ torn' = {} /\ failed' = {}
      /\ before' = totalbytes /\ totalbytes' = totalbytes /\ errorcode' = "0"
  BY DEF StartAttempt, NewAttempt
<1>2. LoopType'
  <2>1. FreshUrl \in VideoUrl
    BY DEF FreshUrl, VideoUrl
  <2>2. url' \in [Streams -> VideoUrl]
    BY <1>1, <2>1
  <2>3. got' \in [Streams -> Nat] /\ received' \in [Streams -> Nat]
    BY <1>1
  <2>4. numofstreams' \in 0..2 /\ loop' \in LoopPlaces
    BY <1>1 DEF LoopPlaces
  <2> QED
    BY <1>1, <2>2, <2>3, <2>4 DEF LoopType
<1>3. ASSUME NEW i \in Streams PROVE StreamInv(i)'
  <2>1. /\ url'[i].range0 = 0 /\ url'[i].range1 = 0 /\ ~Moving(i)'
        /\ received'[i] = 0 /\ totalbytes'[i] = before'[i] /\ totalbytes'[i] \in Nat
    BY <1>1 DEF FreshUrl, Moving, LoopType
  <2>2. FileSize(i)' \in Nat
    BY <1>2, FileSizeTypeNext
  <2>3. Ranged(i)'
    BY <2>1 DEF Ranged
  <2>4. Fed(i)'
    BY <2>1, <2>2 DEF Fed
  <2>5. Playing(i)' /\ NextRange0(i)' = 0
    BY <2>1 DEF Playing, NextRange0
  <2>6. Whole(i)'
    BY <1>1, <2>1, <2>5 DEF Whole, Moving
  <2> QED
    BY <2>3, <2>4, <2>6 DEF StreamInv
<1>4. TransferInv'
  BY <1>1, <1>3 DEF TransferInv, TornOnlyByFailure, Phases, Stopped, NotYetWorked
<1> QED
  BY <1>2, <1>4

\* A step of main restarts the playout, sets its error code, or leaves it.
LEMMA MainStepRefines ==
    ASSUME TcpInv, MainRuns \/ PageFails \/ HeadFails \/ Signal
    PROVE  [PlayoutNext]_playoutVars /\ LoopInv' /\ PageFirst'
<1> USE DEF TcpInv
<1>0. errorcode \in ErrorCodes
  BY DEF IInv
<1>1. CASE Signal
  <2>1. ReportCode /\ errorcode' = "SIGNALHIT" /\ UNCHANGED loopVars /\ stage' = "exit"
    BY <1>1 DEF Signal, ReportCode, ErrorCodes, ExitWith
  <2>2. LoopInv'
    BY <2>1, UnchangedKeeps
  <2> QED
    BY <2>1, <2>2 DEF PlayoutNext, PageFirst
<1>2. ASSUME NEW code \in ErrorCodes, NoMedia(code), In("page") \/ In("measure")
      PROVE  [PlayoutNext]_playoutVars /\ LoopInv' /\ PageFirst'
  <2>1. ReportCode /\ UNCHANGED loopVars /\ stage' = "exit"
    BY <1>2 DEF NoMedia, ReportCode, ExitWith
  <2>2. loop = "idle"
    BY <1>2 DEF PageFirst, In
  <2>3. LoopInv'
    BY <2>1, <2>2, IdleKeeps DEF LoopInv, LoopType, loopVars
  <2> QED
    BY <2>1, <2>3 DEF PlayoutNext, PageFirst
<1>3. CASE PageFails \/ Unmeasurable \/ HeadFails
  BY <1>2, <1>3 DEF PageFails, Unmeasurable, HeadFails, ErrorCodes
<1>4. CASE ReadPage \/ Measure
  <2>1. UNCHANGED playoutVars /\ UNCHANGED loopVars /\ loop = "idle"
    BY <1>4 DEF ReadPage, Measure, In, PageFirst
  <2>2. LoopInv'
    BY <2>1, IdleKeeps DEF LoopInv, LoopType, loopVars
  <2> QED
    BY <2>1, <2>2 DEF PageFirst, loopVars
<1>5. CASE ReadPageDies \/ MeasureDies \/ NoAdaptiveUrl
  <2>1. MainDies
    BY <1>5 DEF ReadPageDies, MeasureDies, NoAdaptiveUrl
  <2>2. LoopInv'
    BY <2>1, DiesKeeps DEF MainDies
  <2> QED
    BY <2>1, <2>2 DEF MainDies, PageFirst
<1>6. CASE ParserExits
  <2>1. UNCHANGED playoutVars /\ UNCHANGED loopVars /\ stage' = "exit"
    BY <1>6 DEF ParserExits, ExitWith
  <2>2. LoopInv'
    BY <2>1, UnchangedKeeps DEF playoutVars
  <2> QED
    BY <2>1, <2>2 DEF PageFirst
<1>7. CASE SkipLevel
  <2>1. /\ NewAttempt(TRUE) /\ NextLevel(<<>>, "0", AudioBitrate) /\ loop = "idle"
        /\ UNCHANGED <<loop, numofstreams, file, url, transferVars, historyVars, listVars>>
    BY <1>7 DEF SkipLevel, CanChoose, Choosing
  <2>2. totalbytes' \in [Streams -> Nat]
    BY <2>1, NextLevelTotals DEF LoopInv
  <2>3. LoopInv'
    BY <2>1, <2>2, IdleKeeps
  <2> QED
    BY <2>1, <2>3 DEF PlayoutNext, PageFirst
<1>8. CASE TryLevel
  <2>1. PICK streams \in 1..2, fail \in BOOLEAN : StartAttempt(streams, Files, fail)
    <3> DEFINE streams == IF HasAudio THEN 2 ELSE 1
               fail == ~(UrlsLeft \/ OneBitrate)
    <3>1. streams \in 1..2 /\ fail \in BOOLEAN
      OBVIOUS
    <3>2. StartAttempt(streams, Files, fail)
      BY <1>8, Zenon DEF TryLevel
    <3> HIDE DEF streams, fail
    <3> QED
      BY <3>1, <3>2, Zenon
  <2>2. LoopInv'
    BY <2>1, FilesType, StartAttemptKeeps
  <2>3. NewAttempt(fail)
    BY <2>1 DEF StartAttempt
  <2>4. stage' = stage /\ stage \in {"adaptive", "plain"}
    BY <1>8 DEF TryLevel, CanChoose, Choosing
  <2> QED
    BY <2>2, <2>3, <2>4 DEF PlayoutNext, PageFirst
<1>9. CASE JudgeAttempt
  <2>1. errorcode' \in ErrorCodes
    BY <1>0, <1>9 DEF JudgeAttempt, ErrorCodes
  <2>2. ReportCode /\ loop' = "idle"
    BY <1>9, <2>1 DEF JudgeAttempt, ReportCode
  <2>3. totalbytes' \in [Streams -> Nat]
    BY <1>9, NextLevelTotals DEF JudgeAttempt, LoopInv, LoopType
  <2>4. LoopInv'
    BY <1>9, <2>2, <2>3, IdleKeeps DEF JudgeAttempt
  <2> QED
    BY <2>2, <2>4 DEF PlayoutNext, PageFirst
<1> QED
  BY <1>1, <1>3, <1>4, <1>5, <1>6, <1>7, <1>8, <1>9 DEF MainRuns
-----------------------------------------------------------------------------
(* The invariant of the downloads. *)

LEMMA TcpInit == Init => PlayoutInit /\ TcpInv
<1> SUFFICES ASSUME Init PROVE PlayoutInit /\ TcpInv
  OBVIOUS
<1>1. PlayoutInit /\ IInv
  BY InitInvariant DEF Init, LoopInit
<1>2. FreshUrl \in VideoUrl /\ NoFile \in File
  BY DEF FreshUrl, VideoUrl, NoFile, File
<1>3. url \in [Streams -> VideoUrl] /\ file \in [Streams -> File]
  BY <1>2 DEF Init, LoopInit
<1>4. loop = "idle" /\ loop \in LoopPlaces /\ numofstreams \in 0..2
  BY DEF Init, LoopInit, LoopPlaces
<1>5. LoopType
  BY <1>3, <1>4 DEF Init, LoopInit, LoopType
<1>6. TransferInv
  BY <1>4 DEF Init, LoopInit, TransferInv, TornOnlyByFailure, Phases, Stopped,
              NotYetWorked, InOrder
<1> QED
  BY <1>1, <1>4, <1>5, <1>6 DEF TcpInv, LoopInv, PageFirst

LEMMA TcpNext == TcpInv /\ [Next]_vars => [PlayoutNext]_playoutVars /\ TcpInv'
<1> SUFFICES ASSUME TcpInv, [Next]_vars PROVE [PlayoutNext]_playoutVars /\ TcpInv'
  OBVIOUS
<1>1. CASE Downloading /\ (LoopRuns \/ LoopSuffers) /\ UNCHANGED mainVars
  <2>1. [PlayoutNext]_playoutVars /\ LoopInv'
    BY <1>1, LoopStepRefines DEF TcpInv
  <2>2. PageFirst'
    BY <1>1 DEF Downloading, mainVars, PageFirst
  <2> QED
    BY <2>1, <2>2, NextInvariant DEF TcpInv
<1>2. CASE MainRuns \/ PageFails \/ HeadFails \/ Signal
  <2>1. [PlayoutNext]_playoutVars /\ LoopInv' /\ PageFirst'
    BY <1>2, MainStepRefines
  <2> QED
    BY <2>1, NextInvariant DEF TcpInv
<1>3. CASE UNCHANGED vars
  <2>1. UNCHANGED playoutVars /\ UNCHANGED loopVars /\ UNCHANGED mainVars
    BY <1>3 DEF vars
  <2>2. LoopInv'
    BY <2>1, UnchangedKeeps DEF TcpInv, playoutVars
  <2>3. PageFirst'
    BY <2>1 DEF TcpInv, PageFirst, loopVars, mainVars
  <2> QED
    BY <2>1, <2>2, <2>3, NextInvariant DEF TcpInv
<1> QED
  BY <1>1, <1>2, <1>3 DEF Next, PlayerRuns, Finished

LEMMA TcpInvariant == Spec => []TcpInv
<1>1. TcpInv /\ [Next]_vars => TcpInv'
  BY TcpNext
<1>2. Init => TcpInv
  BY TcpInit
<1> QED
  BY <1>1, <1>2, PTL DEF Spec

\* In an attempt that worked no transfer moves, every stream has a bitrate, and no
\* stream wants more.
LEMMA WorkedAttempt ==
    ASSUME TcpInv, loop = "done", errorcode = "ITWORKED", NEW i \in Indices
    PROVE  StreamInv(i) /\ ~Moving(i) /\ ~Playing(i) /\ i \notin Unranged
<1>1. i \in Streams /\ StreamInv(i)
  BY IndicesAreStreams DEF TcpInv, LoopInv, TransferInv, InOrder
<1>2. ~Moving(i) /\ ~Playing(i)
  BY DEF TcpInv, LoopInv, TransferInv, Stopped, Moving
<1>3. i \notin Unranged
  BY <1>1, <1>2 DEF StreamInv, Ranged, Playing, Unranged
<1> QED
  BY <1>1, <1>2, <1>3
-----------------------------------------------------------------------------
(* How far the downloads are ahead of the playout. *)

\* LEN_CHUNK_MINIMUM is no less than MIN_PREBUFFER, nor LEN_CHUNK_FETCH than
\* MIN_STALLBUFFER (youtube-dl.h).
ChunksFillBuffers == MinPrebuffer <= ChunkMinimum /\ MinStallbuffer <= ChunkFetch

\* The bitrate of a single file is that of both of its tracks up to its end.
TracksEndTogether == EndTogether(Length)

\* The stream that carries a track, and whether one carries both.
Carrier(k) == IF numofstreams = 2 THEN k ELSE 0
Both == file[0].tracks = Streams

\* What is behind the urls of a level.
Media ==
    /\ numofstreams \in {1, 2}
    /\ \A i \in Streams :
          /\ \/ file[i].tracks = {}
             \/ i \in Indices /\ file[i].tracks = {i}
             \/ numofstreams = 1 /\ i = 0 /\ file[i].tracks = Streams
          /\ file[i].tracks # {} =>
                file[i].bitrate \in {0, PacketSize * Cardinality(file[i].tracks)}

\* A track that is not downloaded any more, or never was: no stream carries it, its entry
\* has no bitrate, or a transfer failed.
Lost == {k \in Streams : \/ k \notin file[Carrier(k)].tracks
                         \/ file[Carrier(k)].bitrate = 0
                         \/ Carrier(k) \in failed}

\* The tracks of which everything was read, and those that will not move.
Over == {k \in Streams : metric.TSlist[k] >= Length[k]}
Dry == Over \cup Lost

\* The playing time that was asked of the file of a track, and how far the track comes
\* with that.
Asked(k) == url[Carrier(k)].range1 \div file[Carrier(k)].bitrate
GoalOf(k) ==
    IF k \in Lost THEN metric.TSlist[k]
    ELSE IF Asked(k) < Length[k] THEN Asked(k) ELSE Length[k]
Goal == [k \in Streams |-> GoalOf(k)]

\* The parser got nothing that was not asked for.  Where a transfer failed, a byte is
\* missing that is not asked for again: what is sent of the stream from then on tears it.
Behind ==
    \A i \in Streams \ torn :
        /\ received[i] <= url[i].range1 + 1
        /\ i \in failed \ Unranged =>
              /\ url[i].range1 > 0 /\ received[i] <= url[i].range1
              /\ i \in active => url[i].range0 >= FileSize(i)

\* Ranges hold whole chunks.
WholeChunks ==
    \A k \in Streams \ Lost :
        /\ url[Carrier(k)].range1 = file[Carrier(k)].bitrate * Asked(k)
        /\ Asked(k) = 0 \/ Asked(k) >= ChunkMinimum

\* A track was read up to the last packet that was received of it.
ReadToEnd ==
    \A k \in Streams \ Lost :
        metric.TSlist[k] = Reached(Both, Length, k, received[Carrier(k)] \div PacketSize)

\* A track that goes on was asked for no less far than the other, and has not fallen
\* behind of it by more than the buffer and a chunk.
Even == \A s, k \in Streams : k \in Lost \/ Goal[k] = Length[k] \/ Goal[s] <= Goal[k]
Near ==
    \A s, k \in Streams :
        k \in Dry \/ Goal[s] - metric.TSlist[k] <= BufferSeconds + ChunkFetch

\* What is asked for does not overfill the buffer, whenever it arrives.
Filling ==
    /\ Media /\ Behind /\ WholeChunks /\ ReadToEnd /\ Even /\ Near
    /\ Fits(metric, now, minbuffer, Goal, Dry, BufferSeconds + ChunkFetch)

BufferInv ==
    /\ Buffering /\ BufferBounded
    /\ loop \in {"top", "run", "select"} => Filling

LEMMA CardinalityOfTracks ==
    /\ Cardinality({0}) = 1 /\ Cardinality({1}) = 1 /\ Cardinality(Streams) = 2
<1>1. Cardinality({0}) = 1 /\ Cardinality({1}) = 1 /\ IsFiniteSet({0})
  BY FS_Singleton
<1>2. Cardinality({0} \cup {1}) = IF 1 \in {0} THEN Cardinality({0}) ELSE Cardinality({0}) + 1
  BY <1>1, FS_AddElement
<1>3. {0} \cup {1} = Streams /\ 1 \notin {0}
  BY DEF Streams
<1> QED
  BY <1>1, <1>2, <1>3

\* A track that is not lost is in the file of its stream, whose bitrate is that of its
\* packets.
LEMMA TrackIsThere ==
    ASSUME LoopType, Media, NEW k \in Streams, k \notin Lost
    PROVE  /\ Carrier(k) \in Indices /\ Carrier(k) \in Streams
           /\ Carrier(k) \notin failed \cup Unranged
           /\ file[Carrier(k)].bitrate = (IF Both THEN PacketSize * 2 ELSE PacketSize)
           /\ file[Carrier(k)].bitrate \in Nat \ {0}
           /\ FileSize(Carrier(k)) = PacketSize * Packets(Both, Length, k)
           /\ Both => numofstreams = 1 /\ \A j \in Streams : Carrier(j) = Carrier(k) /\ j \notin Lost
           /\ ~Both => Carrier(k) = k
<1> DEFINE i == Carrier(k)
<1>1. i \in Streams /\ i \in Indices /\ numofstreams \in {1, 2}
  BY DEF Carrier, Indices, Media, Streams
<1>2. k \in file[i].tracks /\ file[i].bitrate # 0 /\ i \notin failed
  BY DEF Lost
<1>3. i \notin Unranged
  BY <1>2 DEF Unranged
<1>4. file[i].tracks = {i} \/ (numofstreams = 1 /\ i = 0 /\ file[i].tracks = Streams)
  BY <1>1, <1>2 DEF Media
<1>5. file[i].bitrate = PacketSize * Cardinality(file[i].tracks)
  BY <1>1, <1>2 DEF Media
<1>6. PacketSize \in Nat /\ PacketSize * 1 = PacketSize /\ PacketSize * 2 \in Nat
  BY TcpLoopAssumption
<1>7. {0} # Streams /\ {1} # Streams /\ 0 \in Streams
  BY DEF Streams
<1>8. CASE file[i].tracks = {i}
  <2>1. k = i
    BY <1>2, <1>8
  <2>2. ~Both
    <3>1. CASE numofstreams = 2
      BY <1>7, <3>1 DEF Both, Media
    <3>2. CASE numofstreams = 1
      <4>1. i = 0
        BY <3>2 DEF Carrier
      <4> QED
        BY <1>7, <1>8, <4>1 DEF Both
    <3> QED
      BY <1>1, <3>1, <3>2
  <2>3. file[i].bitrate = PacketSize
    <3>1. Cardinality({i}) = 1
      BY <1>1, CardinalityOfTracks DEF Streams
    <3> QED
      BY <1>5, <1>6, <1>8, <3>1
  <2>4. FileSize(i) = PacketSize * Length[i]
    <3>1. (CHOOSE t \in {i} : TRUE) = i
      OBVIOUS
    <3>2. {i} # Streams /\ {i} # {}
      BY <1>1, <1>7 DEF Streams
    <3> QED
      BY <1>8, <3>1, <3>2 DEF FileSize
  <2> QED
    BY <1>1, <1>2, <1>3, <1>6, <2>1, <2>2, <2>3, <2>4 DEF Packets
<1>9. CASE numofstreams = 1 /\ i = 0 /\ file[i].tracks = Streams
  <2>1. Both /\ \A j \in Streams : Carrier(j) = 0
    BY <1>9 DEF Both, Carrier
  <2>2. file[i].bitrate = PacketSize * 2
    BY <1>5, <1>9, CardinalityOfTracks
  <2>3. FileSize(i) = PacketSize * (Length[0] + Length[1])
    BY <1>9 DEF FileSize
  <2>4. \A j \in Streams : j \notin Lost
    BY <1>2, <1>9, <2>1 DEF Lost
  <2> QED
    BY <1>1, <1>2, <1>3, <1>6, <1>9, <2>1, <2>2, <2>3, <2>4 DEF Packets
<1> QED
  BY <1>4, <1>8, <1>9

LEMMA GoalType ==
    ASSUME IInv, LoopType, Media
    PROVE  /\ Goal \in [Streams -> Int]
           /\ \A k \in Streams : Goal[k] = GoalOf(k)
           /\ \A k \in Streams \ Lost :
                 /\ Asked(k) \in Nat /\ Length[k] \in Nat
                 /\ Goal[k] = IF Asked(k) < Length[k] THEN Asked(k) ELSE Length[k]
           /\ \A k \in Lost : Goal[k] = metric.TSlist[k]
<1>1. \A k \in Streams : metric.TSlist[k] \in Int /\ Length[k] \in Nat
  BY TcpLoopAssumption DEF IInv, Sound, Metric
<1>2. ASSUME NEW k \in Streams \ Lost PROVE Asked(k) \in Nat
  <2>1. Carrier(k) \in Streams /\ file[Carrier(k)].bitrate \in Nat \ {0}
    BY TrackIsThere
  <2>2. url[Carrier(k)].range1 \in Nat
    BY <2>1 DEF LoopType, VideoUrl
  <2> QED
    BY <2>1, <2>2 DEF Asked
<1>3. \A k \in Streams : GoalOf(k) \in Int
  BY <1>1, <1>2 DEF GoalOf
<1>4. Goal = [k \in Streams |-> GoalOf(k)]
  BY DEF Goal
<1>5. Lost \subseteq Streams
  BY DEF Lost
<1> QED
  BY <1>1, <1>2, <1>3, <1>4, <1>5 DEF GoalOf

\* The bytes of the file up to the end of the range.
RangeEnd(i) == IF url[i].range1 < FileSize(i) THEN url[i].range1 + 1 ELSE FileSize(i)

\* What the parser got of a stream without a gap and without a failure: never more than
\* was asked for, and all of it when no transfer moves.
LEMMA ReceivedAsAsked ==
    ASSUME LoopType, NEW i \in Streams, Fed(i), Whole(i),
           received[i] <= url[i].range1 + 1
    PROVE  /\ received[i] \in Nat /\ RangeEnd(i) \in Nat /\ received[i] <= RangeEnd(i)
           /\ ~Moving(i) => received[i] = IF url[i].range1 = 0 THEN 0 ELSE RangeEnd(i)
           /\ ~Moving(i) /\ ~Playing(i) => received[i] = FileSize(i)
<1>1. /\ url[i].range1 \in Nat /\ FileSize(i) \in Nat /\ received[i] \in Nat
      /\ received[i] <= FileSize(i)
  BY FileSizeType DEF LoopType, VideoUrl, Fed
<1>2. RangeEnd(i) \in Nat /\ received[i] <= RangeEnd(i)
  BY <1>1 DEF RangeEnd
<1>3. ASSUME ~Moving(i), url[i].range1 > 0 PROVE received[i] = RangeEnd(i)
  <2>1. NextRange0(i) = url[i].range1 + 1
    BY <1>3 DEF NextRange0
  <2>2. \/ url[i].range1 + 1 = received[i]
        \/ url[i].range1 + 1 >= FileSize(i) /\ received[i] = FileSize(i)
        \/ received[i] = FileSize(i)
    BY <1>3, <2>1 DEF Whole
  <2> QED
    BY <1>1, <2>2 DEF RangeEnd
<1>4. ASSUME ~Moving(i), url[i].range1 = 0 PROVE received[i] = 0
  <2>1. Playing(i) /\ NextRange0(i) = 0
    BY <1>4 DEF Playing, NextRange0
  <2>2. \/ received[i] = 0
        \/ 0 >= FileSize(i) /\ received[i] = FileSize(i)
    BY <1>4, <2>1 DEF Whole
  <2> QED
    BY <1>1, <2>2
<1>5. ~Moving(i) /\ ~Playing(i) => received[i] = FileSize(i)
  BY DEF Whole
<1> QED
  BY <1>1, <1>2, <1>3, <1>4, <1>5

\* The stream of a track that is not lost is in order.
LEMMA CarrierInOrder ==
    ASSUME LoopType, TornOnlyByFailure, \A j \in Streams : StreamInv(j),
           Media, Behind, NEW k \in Streams, k \notin Lost
    PROVE  /\ Ranged(Carrier(k)) /\ Fed(Carrier(k)) /\ Whole(Carrier(k))
           /\ received[Carrier(k)] <= url[Carrier(k)].range1 + 1
<1>1. Carrier(k) \in Streams /\ Carrier(k) \notin failed \cup Unranged
  BY TrackIsThere
<1>2. Carrier(k) \notin torn
  BY <1>1 DEF TornOnlyByFailure
<1> QED
  BY <1>1, <1>2 DEF StreamInv, Behind

\* A track is read as far as its file was received: never beyond what was asked for, and
\* up to there when no transfer moves.
LEMMA ReadAsAsked ==
    ASSUME TracksEndTogether
    PROVE  IInv /\ LoopType /\ TornOnlyByFailure /\ (\A j \in Streams : StreamInv(j))
             /\ Filling =>
               \A k \in Streams :
                   /\ metric.TSlist[k] <= Goal[k]
                   /\ ~Moving(Carrier(k)) \/ k \in Lost => metric.TSlist[k] = Goal[k]
<1> SUFFICES ASSUME IInv, LoopType, TornOnlyByFailure, \A j \in Streams : StreamInv(j),
                    Filling, NEW k \in Streams
             PROVE  /\ metric.TSlist[k] <= Goal[k]
                    /\ ~Moving(Carrier(k)) \/ k \in Lost => metric.TSlist[k] = Goal[k]
  OBVIOUS
<1>0. Media /\ Behind
  BY DEF Filling
<1>1. CASE k \in Lost
  <2>1. Goal[k] = metric.TSlist[k] /\ metric.TSlist[k] \in Int
    BY <1>0, <1>1, GoalType DEF IInv, Sound, Metric
  <2> QED
    BY <2>1
<1>2. CASE k \notin Lost
  <2> DEFINE i == Carrier(k)
             u == Asked(k)
             a == IF Both THEN 2 * u ELSE u
             l == Packets(Both, Length, k)
             n == received[i] \div PacketSize
  <2>1. /\ i \in Streams /\ FileSize(i) = PacketSize * l
        /\ file[i].bitrate = IF Both THEN PacketSize * 2 ELSE PacketSize
    BY <1>0, <1>2, TrackIsThere
  <2>2. url[i].range1 = file[i].bitrate * u
    BY <1>2 DEF Filling, WholeChunks
  <2>3. /\ u \in Nat /\ a \in Nat
        /\ Goal[k] = IF u < Length[k] THEN u ELSE Length[k]
    BY <1>0, <1>2, GoalType
  <2>4. /\ PacketSize \in Nat \ {0, 1} /\ Length \in [Streams -> Nat]
        /\ Length[0] \in Nat /\ Length[1] \in Nat /\ Length[k] \in Nat
    BY TcpLoopAssumption DEF Streams
  <2>5. l \in Nat
    BY <2>4 DEF Packets
  <2>6. url[i].range1 = PacketSize * a
    <3>1. (PacketSize * 2) * u = PacketSize * (2 * u)
      BY <2>3, <2>4
    <3> QED
      BY <2>1, <2>2, <3>1
  <2>7. RangeEnd(i) \div PacketSize = IF a < l THEN a ELSE l
    <3>1. RangeEnd(i) = IF PacketSize * a < PacketSize * l THEN PacketSize * a + 1
                        ELSE PacketSize * l
      BY <2>1, <2>6 DEF RangeEnd
    <3> HIDE DEF a, l
    <3> QED
      BY <2>3, <2>4, <2>5, <3>1, PacketsOfRange
  <2>8. Both \in BOOLEAN /\ EndTogether(Length)
    BY DEF Both, TracksEndTogether
  <2>9. Reached(Both, Length, k, IF a < l THEN a ELSE l) = Goal[k]
    <3>1. Reached(Both, Length, k, IF a < l THEN a ELSE l)
              = IF u < Length[k] THEN u ELSE Length[k]
      <4> HIDE DEF u
      <4> QED
        BY <2>3, <2>4, <2>8, ReachedChunks
    <3> QED
      BY <2>3, <3>1
  <2>10. metric.TSlist[k] = Reached(Both, Length, k, n)
    BY <1>2 DEF Filling, ReadToEnd
  <2>11. /\ received[i] \in Nat /\ RangeEnd(i) \in Nat /\ received[i] <= RangeEnd(i)
         /\ ~Moving(i) => received[i] = IF url[i].range1 = 0 THEN 0 ELSE RangeEnd(i)
    BY <1>0, <1>2, <2>1, CarrierInOrder, ReceivedAsAsked
  <2>12. n \in Nat /\ n <= RangeEnd(i) \div PacketSize
    <3> DEFINE x == received[i]
               y == RangeEnd(i)
    <3>1. x \in Nat /\ y \in Nat /\ x <= y /\ PacketSize \in Nat \ {0}
      BY <2>4, <2>11
    <3> HIDE DEF x, y
    <3>2. x \div PacketSize <= y \div PacketSize /\ x \div PacketSize \in Nat
      BY <3>1, PacketsGrow
    <3> QED
      BY <3>2 DEF x, y
  <2>13. metric.TSlist[k] <= Goal[k]
    <3> DEFINE m == IF a < l THEN a ELSE l
    <3>1. m \in Nat /\ n <= m
      BY <2>3, <2>5, <2>7, <2>12
    <3> HIDE DEF m, n
    <3>2. Reached(Both, Length, k, n) <= Reached(Both, Length, k, m)
      BY <2>4, <2>8, <2>12, <3>1, ReachedGrows
    <3> QED
      BY <2>9, <2>10, <3>2 DEF m
  <2>14. ASSUME ~Moving(i) PROVE metric.TSlist[k] = Goal[k]
    <3>1. CASE url[i].range1 # 0
      BY <2>7, <2>9, <2>10, <2>11, <2>14, <3>1
    <3>2. CASE url[i].range1 = 0
      <4>1. n = 0
        BY <2>4, <2>11, <2>14, <3>2
      <4>2. u = 0
        BY <1>0, <1>2, <2>3, <3>2, TrackIsThere DEF Asked
      <4>3. Reached(Both, Length, k, 0) = 0
        BY <2>4 DEF Reached, Least
      <4>4. Goal[k] = 0
        BY <2>3, <2>4, <4>2
      <4> HIDE DEF n
      <4> QED
        BY <2>10, <4>1, <4>3, <4>4
    <3> QED
      BY <3>1, <3>2
  <2> QED
    BY <1>2, <2>13, <2>14
<1> QED
  BY <1>1, <1>2

\* The buffer is bounded while the video plays.
LEMMA FillingBounded ==
    ASSUME TracksEndTogether
    PROVE  IInv /\ LoopType /\ TornOnlyByFailure /\ (\A j \in Streams : StreamInv(j))
             /\ Filling => BufferBounded
<1> SUFFICES ASSUME IInv, LoopType, TornOnlyByFailure, \A j \in Streams : StreamInv(j),
                    Filling, Started, metric.Tmin >= 0, NEW k \in Streams
             PROVE  Ahead(k) <= BufferSeconds + ChunkFetch
  BY DEF BufferBounded
<1>1. /\ metric.TSlist[k] \in Int /\ metric.TS0 \in Int /\ metric.Tmin \in Int /\ now \in Int
      /\ metric.initialprebuftime \in Int
  BY DEF IInv, Sound, Metric
<1>2. Goal[k] \in Int /\ metric.TSlist[k] <= Goal[k]
  BY GoalType, ReadAsAsked DEF Filling
<1>3. ~Paused(metric)
  BY <1>1 DEF Started, Paused
<1>4. Goal[k] - metric.TS0 - (now - metric.Tmin) <= BufferSeconds + ChunkFetch
  BY <1>3 DEF Filling, Fits
<1>5. Ahead(k) = (metric.TSlist[k] - metric.TS0) - (now - metric.Tmin)
  BY <1>1 DEF Ahead, PlayoutBuffer
<1> QED
  BY <1>1, <1>2, <1>4, <1>5, TcpLoopAssumption

LEMMA FillingBoundedNext ==
    ASSUME TracksEndTogether
    PROVE  (IInv /\ LoopType /\ TornOnlyByFailure /\ (\A j \in Streams : StreamInv(j))
              /\ Filling => BufferBounded)'
BY FillingBounded, PTL

\* Transfers that end, or tear their stream, leave no other bytes out.
LEMMA BehindKept ==
    ASSUME Behind, file' = file, received' = received, torn \subseteq torn',
           \A i \in Streams : /\ url'[i].range0 = url[i].range0
                              /\ url'[i].range1 = url[i].range1,
           active' \subseteq active, failed' \subseteq failed \cup torn'
    PROVE  Behind'
<1>1. Unranged' = Unranged
  BY DEF Unranged
<1>2. \A i \in Streams : FileSize(i)' = FileSize(i)
  BY DEF FileSize
<1> QED
  BY <1>1, <1>2 DEF Behind

\* Time passes, a pass takes the results, or a transfer fails: what was asked for of the
\* tracks that are lost with it does not come any more.
LEMMA FillingKept ==
    ASSUME TracksEndTogether, IInv, LoopType, TornOnlyByFailure,
           \A j \in Streams : StreamInv(j), Filling, Behind',
           UNCHANGED <<numofstreams, file, received, metric, minbuffer>>,
           \A i \in Streams : url'[i].range1 = url[i].range1,
           failed \subseteq failed', now' \in Int, now' >= now
    PROVE  Filling'
<1> DEFINE cap == BufferSeconds + ChunkFetch
<1>1. Media /\ Media' /\ Both' = Both /\ \A k \in Streams : Carrier(k)' = Carrier(k)
  BY DEF Filling, Media, Indices, Both, Carrier
<1>2. \A k \in Streams : Carrier(k) \in Streams
  BY DEF Carrier, Streams
<1>3. /\ Lost \subseteq Lost' /\ Lost' \in SUBSET Streams /\ Lost \in SUBSET Streams
      /\ Over' = Over /\ Over \in SUBSET Streams
  BY <1>1 DEF Lost, Over
<1>4. /\ Dry \subseteq Dry' /\ Dry' \in SUBSET Streams /\ Dry \in SUBSET Streams
      /\ \A k \in Streams : k \notin Dry' => k \notin Dry
  BY <1>3 DEF Dry
<1>5. \A k \in Streams : Asked(k)' = Asked(k)
  BY <1>1, <1>2 DEF Asked
<1>6. /\ Goal \in [Streams -> Int] /\ \A k \in Streams : Goal[k] = GoalOf(k)
      /\ metric \in Metric /\ metric.TSlist \in [Streams -> Int] /\ now \in Int /\ cap \in Int
  BY <1>1, GoalType, TcpLoopAssumption DEF IInv, Sound, Metric
<1>7. \A k \in Streams : metric.TSlist[k] <= Goal[k]
  BY ReadAsAsked
<1>8. \A k \in Streams : /\ Goal'[k] = IF k \in Lost' THEN metric.TSlist[k] ELSE Goal[k]
                         /\ Goal'[k] <= Goal[k] /\ Goal'[k] \in Int
  <2> SUFFICES ASSUME NEW k \in Streams
               PROVE  /\ Goal'[k] = IF k \in Lost' THEN metric.TSlist[k] ELSE Goal[k]
                      /\ Goal'[k] <= Goal[k] /\ Goal'[k] \in Int
    OBVIOUS
  <2>1. Goal'[k] = IF k \in Lost' THEN metric.TSlist[k]
                   ELSE IF Asked(k) < Length[k] THEN Asked(k) ELSE Length[k]
    BY <1>5 DEF Goal, GoalOf
  <2>2. k \notin Lost' => Goal[k] = IF Asked(k) < Length[k] THEN Asked(k) ELSE Length[k]
    BY <1>3, <1>6 DEF GoalOf
  <2> QED
    BY <1>6, <1>7, <2>1, <2>2
<1>9. Goal' \in [Streams -> Int]
  <2>1. Goal' = [k \in Streams |-> Goal'[k]]
    BY DEF Goal
  <2> QED
    BY <1>8, <2>1
<1>10. WholeChunks'
  <2> SUFFICES ASSUME NEW k \in Streams \ Lost'
               PROVE  /\ url'[Carrier(k)].range1 = file[Carrier(k)].bitrate * Asked(k)
                      /\ Asked(k) = 0 \/ Asked(k) >= ChunkMinimum
    BY <1>1, <1>5 DEF WholeChunks
  <2> QED
    BY <1>2, <1>3 DEF Filling, WholeChunks
<1>11. ReadToEnd'
  BY <1>1, <1>3 DEF Filling, ReadToEnd
<1>12. Even'
  <2> SUFFICES ASSUME NEW s \in Streams, NEW k \in Streams, k \notin Lost', Goal'[k] # Length[k]
               PROVE  Goal'[s] <= Goal'[k]
    BY DEF Even
  <2>1. k \notin Lost /\ Goal'[k] = Goal[k]
    BY <1>3, <1>8
  <2>2. Goal[s] <= Goal[k]
    BY <2>1 DEF Filling, Even
  <2> QED
    BY <1>6, <1>8, <2>1, <2>2
<1>13. Near'
  <2> SUFFICES ASSUME NEW s \in Streams, NEW k \in Streams, k \notin Dry'
               PROVE  Goal'[s] - metric.TSlist[k] <= cap
    BY DEF Near
  <2>1. Goal[s] - metric.TSlist[k] <= cap
    BY <1>4 DEF Filling, Near
  <2> QED
    BY <1>6, <1>8, <2>1
<1>14. Fits(metric', now', minbuffer', Goal', Dry', cap)
  <2>1. Fits(metric, now, minbuffer, Goal, Dry, cap)
    BY DEF Filling
  <2> HIDE DEF cap
  <2> QED
    BY <1>4, <1>6, <1>8, <1>9, <2>1, FitsLess
<1> QED
  BY <1>1, <1>10, <1>11, <1>12, <1>13, <1>14 DEF Filling

\* Nothing was asked for yet.
LEMMA FillingStarts ==
    ASSUME LoopType', Media', IInv', failed' = {}, active' = {},
           \A i \in Streams : url'[i].range1 = 0 /\ received'[i] = 0,
           metric'.TSlist = [i \in Streams |-> 0], metric'.TS0 = 0,
           metric'.initialprebuftime = -1
    PROVE  Filling'
<1>1. \A k \in Streams : Carrier(k)' \in Streams /\ Length[k] \in Nat
  BY TcpLoopAssumption DEF Carrier, Streams
<1>2. BufferSeconds + ChunkFetch \in Nat /\ ChunkMinimum \in Nat /\ PacketSize \in Nat \ {0, 1}
  BY TcpLoopAssumption
<1>3. \A k \in Streams \ Lost' :
          Asked(k)' = 0 /\ file'[Carrier(k)'].bitrate \in Nat \ {0}
  <2> SUFFICES ASSUME NEW k \in Streams \ Lost'
               PROVE  Asked(k)' = 0 /\ file'[Carrier(k)'].bitrate \in Nat \ {0}
    OBVIOUS
  <2>1. file'[Carrier(k)'].bitrate \in Nat \ {0}
    BY <1>1 DEF Lost, LoopType, File
  <2>2. url'[Carrier(k)'].range1 = 0
    BY <1>1
  <2> QED
    BY <2>1, <2>2 DEF Asked
<1>4. \A k \in Streams : Goal'[k] = 0
  BY <1>1, <1>3 DEF Goal, GoalOf
<1>5. Behind'
  BY DEF Behind
<1>6. WholeChunks'
  BY <1>1, <1>3 DEF WholeChunks
<1>7. ReadToEnd'
  <2>1. \A k \in Streams : received'[Carrier(k)'] \div PacketSize = 0
    BY <1>1, <1>2
  <2>2. \A both \in BOOLEAN, k \in Streams : Reached(both, Length, k, 0) = 0
    BY TcpLoopAssumption DEF Reached, Least, Streams
  <2>3. Both' \in BOOLEAN
    BY DEF Both
  <2> QED
    BY <2>1, <2>2, <2>3 DEF ReadToEnd
<1>8. Even' /\ Near'
  BY <1>2, <1>4 DEF Even, Near
<1>9. Fits(metric', now', minbuffer', Goal', Dry', BufferSeconds + ChunkFetch)
  BY <1>2, <1>4 DEF Fits, Paused
<1> QED
  BY <1>5, <1>6, <1>7, <1>8, <1>9 DEF Filling

\* A transfer that breaks off leaves a byte of its range out.
LEMMA BehindCut ==
    ASSUME LoopInv, Behind, NEW i \in Streams, Cut(i)
    PROVE  Behind'
<1> USE DEF LoopInv
<1>1. /\ i \in active /\ got[i] < Offered(i) /\ active' = active \ {i} /\ failed' = failed \cup {i}
      /\ UNCHANGED <<file, url, received, torn>> /\ StreamInv(i)
  BY DEF Cut, Transferring, EndTransfer, TransferInv, InOrder
<1>2. Unranged' = Unranged /\ \A j \in Streams : FileSize(j)' = FileSize(j)
  BY <1>1 DEF Unranged, FileSize
<1>3. ASSUME i \notin torn, i \notin Unranged
      PROVE  url[i].range1 > 0 /\ received[i] <= url[i].range1
  <2>1. Ranged(i) /\ Fed(i) /\ Moving(i)
    BY <1>1, <1>3 DEF StreamInv, Moving
  <2>2. url[i].range1 > 0
    BY <1>3, <2>1 DEF Ranged, Unranged
  <2>3. /\ url[i].range0 \in Nat /\ url[i].range1 \in Nat /\ got[i] \in Nat
        /\ FileSize(i) \in Nat
    BY FileSizeType DEF LoopType, VideoUrl
  <2>4. url[i].range0 < FileSize(i) /\ url[i].range0 + got[i] <= url[i].range1
    BY <1>1, <2>3 DEF Offered
  <2>5. received[i] = url[i].range0 + got[i]
    BY <2>1, <2>3, <2>4 DEF Fed
  <2> QED
    BY <2>2, <2>4, <2>5
<1>4. ASSUME NEW j \in Streams \ torn
      PROVE  /\ received[j] <= url[j].range1 + 1
             /\ j \in (failed \cup {i}) \ Unranged =>
                   /\ url[j].range1 > 0 /\ received[j] <= url[j].range1
                   /\ j \in active \ {i} => url[j].range0 >= FileSize(j)
  BY <1>3 DEF Behind
<1> QED
  BY <1>1, <1>2, <1>4 DEF Behind

\* The next range of a stream where a transfer failed begins behind the missing byte.
LEMMA BehindLoads ==
    ASSUME LoopInv, Behind, LoadStreams
    PROVE  Behind'
<1> USE DEF LoopInv
<1>1. /\ loop = "top" /\ active = {} /\ file' = file /\ received' = received /\ failed' = failed
  BY DEF LoadStreams, TransferInv, Phases
<1>2. Unranged' = Unranged /\ \A j \in Streams : FileSize(j)' = FileSize(j)
  BY <1>1 DEF Unranged, FileSize
<1> SUFFICES ASSUME NEW i \in Streams, i \notin torn'
             PROVE  /\ received[i] <= url'[i].range1 + 1
                    /\ i \in failed \ Unranged =>
                          /\ url'[i].range1 > 0 /\ received[i] <= url'[i].range1
                          /\ i \in active' => url'[i].range0 >= FileSize(i)
  BY <1>1, <1>2 DEF Behind
<1>3. i \notin torn
  BY DEF LoadStreams
<1>4. /\ received[i] \in Nat /\ url[i].range1 \in Nat /\ RangeAddition(i) \in Nat
      /\ FileSize(i) \in Nat
  BY RangeAdditionType, FileSizeType DEF LoopType, VideoUrl
<1>5. /\ received[i] <= url[i].range1 + 1
      /\ i \in failed \ Unranged => url[i].range1 > 0 /\ received[i] <= url[i].range1
  BY <1>3 DEF Behind
<1>6. CASE i \notin Indices
  <2>1. url'[i] = url[i] /\ i \notin active'
    BY <1>6 DEF LoadStreams
  <2> QED
    BY <1>5, <2>1
<1>7. CASE i \in Indices
  <2>1. url'[i].range1 \in Nat /\ url'[i].range1 >= url[i].range1
    BY <1>4, <1>7, LoadsStream
  <2>2. ASSUME i \in failed \ Unranged, i \in active' PROVE url'[i].range0 >= FileSize(i)
    <3>1. NextRange0(i) = url[i].range1 + 1 /\ NextRange0(i) # received[i]
      BY <1>4, <1>5, <2>2 DEF NextRange0
    <3>2. NextRange0(i) >= FileSize(i) /\ url'[i].range0 = NextRange0(i)
      BY <1>4, <1>7, <2>2, <3>1, LoadsStream
    <3> QED
      BY <3>2
  <2> QED
    BY <1>4, <1>5, <2>1, <2>2
<1> QED
  BY <1>6, <1>7

\* No packet comes from a stream where a transfer failed.
LEMMA BehindPacket ==
    ASSUME LoopInv, Behind, NEW i \in Streams, Packet(i)
    PROVE  /\ Behind' /\ i \notin failed \ Unranged
           /\ url[i].range0 < FileSize(i) /\ received[i] = url[i].range0 + got[i]
<1> USE DEF LoopInv
<1>1. /\ i \in active /\ i \notin torn /\ got[i] < Offered(i) /\ StreamInv(i)
      /\ UNCHANGED <<file, url, active, torn, failed>>
  BY DEF Packet, Transferring, TransferInv, InOrder
<1>2. /\ url[i].range0 \in Nat /\ url[i].range1 \in Nat /\ got[i] \in Nat
      /\ FileSize(i) \in Nat /\ received[i] \in Nat
  BY FileSizeType DEF LoopType, VideoUrl
<1>3. url[i].range0 < FileSize(i) /\ url[i].range0 + Offered(i) <= url[i].range1 + 1
      /\ Offered(i) \in Nat
  BY <1>1, <1>2 DEF Offered
<1>4. received[i] = url[i].range0 + got[i]
  BY <1>1, <1>2, <1>3 DEF StreamInv, Fed, Moving
<1>5. i \notin failed \ Unranged
  BY <1>1, <1>2, <1>3 DEF Behind
<1>6. PICK g \in Nat : /\ g <= Offered(i)
                       /\ received' = [received EXCEPT ![i] = url[i].range0 + g]
  BY <1>4, PacketMoves
<1>7. received'[i] <= url[i].range1 + 1 /\ \A j \in Streams \ {i} : received'[j] = received[j]
  BY <1>2, <1>3, <1>6 DEF LoopType
<1>8. Unranged' = Unranged /\ \A j \in Streams : FileSize(j)' = FileSize(j)
  BY <1>1 DEF Unranged, FileSize
<1>9. Behind'
  <2> SUFFICES ASSUME NEW j \in Streams \ torn
               PROVE  /\ received'[j] <= url[j].range1 + 1
                      /\ j \in failed \ Unranged =>
                            /\ url[j].range1 > 0 /\ received'[j] <= url[j].range1
                            /\ j \in active => url[j].range0 >= FileSize(j)
    BY <1>1, <1>8 DEF Behind
  <2>1. CASE j = i
    BY <1>5, <1>7, <2>1
  <2>2. CASE j # i
    BY <1>7, <2>2 DEF Behind
  <2> QED
    BY <2>1, <2>2
<1> QED
  BY <1>3, <1>4, <1>5, <1>9

\* The track of a packet is not lost, and its stream carries it.
LEMMA PacketTrack ==
    ASSUME LoopInv, Media, Behind, NEW i \in Streams, Packet(i), NEW n \in Nat \ {0},
           n * PacketSize <= url[i].range0 + Offered(i)
    PROVE  /\ TrackOf(i, n) \in Streams \ Lost /\ Carrier(TrackOf(i, n)) = i
           /\ Both = (file[i].tracks = Streams)
<1> USE DEF LoopInv
<1>1. /\ i \notin failed \ Unranged /\ url[i].range0 < FileSize(i) /\ got[i] < Offered(i)
      /\ i \in active /\ StreamInv(i)
  BY BehindPacket DEF Packet, Transferring, TransferInv, InOrder
<1>2. /\ url[i].range0 \in Nat /\ url[i].range1 \in Nat /\ FileSize(i) \in Nat
      /\ got[i] \in Nat /\ PacketSize \in Nat \ {0, 1} /\ Offered(i) \in Nat
  BY FileSizeType, OfferedType, TcpLoopAssumption DEF LoopType, VideoUrl
<1>3. file[i].tracks # {}
  <2>1. {} # Streams
    BY DEF Streams
  <2>2. PacketSize * 0 = 0
    BY <1>2
  <2> QED
    BY <1>1, <1>2, <2>1, <2>2 DEF FileSize
<1>4. file[i].bitrate # 0
  <2> SUFFICES ASSUME file[i].bitrate = 0 PROVE FALSE
    OBVIOUS
  <2>1. url[i].range1 = 0 /\ url[i].range0 = 0
    BY <1>1 DEF StreamInv, Ranged
  <2>2. Offered(i) <= 1
    BY <1>2, <2>1 DEF Offered
  <2>3. n * PacketSize >= PacketSize
    <3>1. n - 1 \in Nat /\ n * PacketSize = (n - 1) * PacketSize + PacketSize
      BY <1>2
    <3>2. (n - 1) * PacketSize \in Nat
      BY <1>2, <3>1, Products
    <3> QED
      BY <1>2, <3>1, <3>2
  <2> QED
    BY <1>2, <2>1, <2>2, <2>3
<1>5. i \notin failed
  BY <1>1, <1>4 DEF Unranged
<1>6. {0} # Streams /\ {1} # Streams
  BY DEF Streams
<1>7. CASE i \in Indices /\ file[i].tracks = {i}
  <2>1. TrackOf(i, n) = i
    <3>1. (CHOOSE t \in {i} : TRUE) = i /\ {i} # Streams
      BY <1>6 DEF Streams
    <3> QED
      BY <1>7, <3>1 DEF TrackOf
  <2>2. Carrier(i) = i
    BY <1>7 DEF Carrier, Indices, Streams, Media
  <2>3. Both = (file[i].tracks = Streams)
    <3>1. file[i].tracks # Streams
      BY <1>6, <1>7 DEF Streams
    <3>2. file[0].tracks # Streams
      <4>1. CASE i = 0
        BY <3>1, <4>1
      <4>2. CASE i = 1
        <5>1. numofstreams = 2
          BY <1>7, <4>2 DEF Indices, Media
        <5> QED
          BY <1>6, <5>1 DEF Media, Streams
      <4> QED
        BY <4>1, <4>2 DEF Streams
    <3> QED
      BY <3>1, <3>2 DEF Both
  <2> QED
    BY <1>4, <1>5, <1>7, <2>1, <2>2, <2>3 DEF Lost
<1>8. CASE numofstreams = 1 /\ i = 0 /\ file[i].tracks = Streams
  <2>1. TrackOf(i, n) \in Streams
    BY <1>8 DEF TrackOf, Streams
  <2>2. Carrier(TrackOf(i, n)) = i
    BY <1>8 DEF Carrier
  <2> QED
    BY <1>4, <1>5, <1>8, <2>1, <2>2 DEF Lost, Both
<1> QED
  BY <1>3, <1>7, <1>8 DEF Media

\* A packet moves the track that it is of.
LEMMA FillingPacket ==
    ASSUME IInv, LoopInv, Filling, TracksEndTogether, NEW i \in Streams, Packet(i)
    PROVE  Filling'
<1> USE DEF LoopInv
<1> DEFINE n == (received[i] \div PacketSize) + 1
           end == n * PacketSize
           t == TrackOf(i, n)
           ts == TimestampOf(i, n)
           cap == BufferSeconds + ChunkFetch
<1>0. Media /\ Behind /\ \A j \in Streams : StreamInv(j)
  BY DEF Filling, Packet, Transferring, TransferInv, InOrder
<1>1. /\ Behind' /\ url[i].range0 < FileSize(i) /\ received[i] = url[i].range0 + got[i]
      /\ UNCHANGED <<numofstreams, file, url, failed>> /\ got[i] < Offered(i)
  BY <1>0, BehindPacket DEF Packet
<1>2. /\ received[i] \in Nat /\ FileSize(i) \in Nat /\ url[i].range0 \in Nat
      /\ Offered(i) \in Nat /\ url[i].range0 + Offered(i) <= FileSize(i) /\ got[i] \in Nat
      /\ received \in [Streams -> Nat] /\ PacketSize \in Nat \ {0, 1}
  BY <1>1, OfferedType, FileSizeType, TcpLoopAssumption DEF LoopType, VideoUrl
<1>3. n \in Nat \ {0} /\ end \in Nat /\ end > received[i] /\ received[i] \div PacketSize = n - 1
  <2>1. n \in Nat \ {0} /\ received[i] \div PacketSize = n - 1
    BY <1>2
  <2>2. end > received[i]
    BY <1>2, PacketEnd
  <2> HIDE DEF n
  <2>3. end \in Nat
    BY <1>2, <2>1, Products
  <2> QED
    BY <2>1, <2>2, <2>3
<1>4. /\ Media' /\ Both' = Both /\ Lost' = Lost /\ Lost \in SUBSET Streams
      /\ \A k \in Streams : Carrier(k)' = Carrier(k) /\ Carrier(k) \in Streams
  BY <1>0, <1>1 DEF Media, Indices, Both, Lost, Carrier, Streams
<1>5. /\ metric \in Metric /\ metric.TSlist \in [Streams -> Int] /\ now \in Int
      /\ Goal \in [Streams -> Int] /\ Over \in SUBSET Streams /\ Dry \in SUBSET Streams
      /\ cap \in Int /\ Length \in [Streams -> Nat]
  BY <1>0, <1>4, GoalType, TcpLoopAssumption DEF IInv, Sound, Metric, Over, Dry
<1>6. \A k \in Streams : Asked(k)' = Asked(k)
  BY <1>1, <1>4 DEF Asked
<1>7. WholeChunks'
  BY <1>1, <1>4, <1>6 DEF Filling, WholeChunks
<1>8. \A k \in Streams \ Lost :
          metric.TSlist[k] = Reached(Both, Length, k, received[Carrier(k)] \div PacketSize)
  BY DEF Filling, ReadToEnd
<1>9. CASE end > url[i].range0 + Offered(i)
  <2> DEFINE last == url[i].range0 + Offered(i)
  <2>1. received' = [received EXCEPT ![i] = last] /\ UNCHANGED playoutVars
    BY <1>1, <1>2, <1>3, <1>9 DEF Packet
  <2>2. last \div PacketSize = n - 1
    <3>1. last \in Nat /\ received[i] <= last /\ last < n * PacketSize
      BY <1>1, <1>2, <1>3, <1>9
    <3> HIDE DEF last, n
    <3>2. last \div PacketSize >= n - 1
      BY <1>2, <1>3, <3>1, PacketsGrow
    <3>3. last \div PacketSize < n
      BY <1>2, <1>3, <3>1
    <3> QED
      BY <1>2, <1>3, <3>1, <3>2, <3>3
  <2>3. \A j \in Streams : received'[j] \div PacketSize = received[j] \div PacketSize
    BY <1>2, <1>3, <2>1, <2>2
  <2>4. /\ metric' = metric /\ now' = now /\ minbuffer' = minbuffer
    BY <2>1 DEF playoutVars
  <2>5. ReadToEnd'
    BY <1>4, <1>8, <2>3, <2>4 DEF ReadToEnd
  <2>6. Goal' = Goal /\ Dry' = Dry
    BY <1>4, <1>6, <2>4 DEF Goal, GoalOf, Dry, Over
  <2>7. Even' /\ Near' /\ Fits(metric', now', minbuffer', Goal', Dry', cap)
    BY <1>4, <2>4, <2>6 DEF Filling, Even, Near
  <2> QED
    BY <1>1, <1>4, <1>7, <2>5, <2>7 DEF Filling
<1>10. CASE end <= url[i].range0 + Offered(i)
  <2>1. received' = [received EXCEPT ![i] = end] /\ Frame(t, ts)
    BY <1>1, <1>10 DEF Packet
  <2>2. end \div PacketSize = n
    <3>1. (PacketSize * n + 0) \div PacketSize = n
      BY <1>2, <1>3, ProductQuotient
    <3> HIDE DEF n
    <3>2. end = PacketSize * n + 0
      BY <1>2, <1>3
    <3> QED
      BY <3>1, <3>2
  <2>3. t \in Streams \ Lost /\ Carrier(t) = i /\ Both = (file[i].tracks = Streams)
    <3> HIDE DEF n
    <3> QED
      BY <1>0, <1>3, <1>10, PacketTrack
  <2>4. /\ Both \in BOOLEAN /\ FileSize(i) = PacketSize * Packets(Both, Length, t)
        /\ ~Both => i = t
        /\ \A k \in Streams \ Lost : Carrier(k) = i => k = t \/ Both
    <3>1. \A k \in Streams \ Lost : ~Both => Carrier(k) = k
      BY <1>0, TrackIsThere
    <3>2. FileSize(i) = PacketSize * Packets(Both, Length, t)
      <4> HIDE DEF t
      <4> QED
        BY <1>0, <2>3, TrackIsThere
    <3> HIDE DEF t
    <3> QED
      BY <2>3, <3>1, <3>2
  <2>5. n <= Packets(Both, Length, t)
    <3> DEFINE l == Packets(Both, Length, t)
    <3>1. FileSize(i) = PacketSize * l /\ l \in Nat
      <4> HIDE DEF t
      <4> QED
        BY <1>5, <2>3, <2>4 DEF Packets, Streams
    <3>2. n * PacketSize <= FileSize(i)
      BY <1>2, <1>3, <1>10
    <3> HIDE DEF l, n
    <3> QED
      BY <1>2, <1>3, <3>1, <3>2, PacketInFile DEF l
  <2>6. /\ Both => /\ EndTogether(Length)
                   /\ t = IF n <= 2 * Least(Length) THEN (n + 1) % 2
                          ELSE IF Length[0] > Length[1] THEN 0 ELSE 1
        /\ ts = IF ~Both THEN n
                ELSE IF n <= 2 * Least(Length) THEN (n + 1) \div 2 ELSE n - Least(Length)
    BY <2>3 DEF TrackOf, TimestampOf, Shorter, TracksEndTogether
  <2> HIDE DEF t, ts, n
  <2>7. /\ Reached(Both, Length, t, n) = ts
        /\ Reached(Both, Length, t, n - 1) < Length[t]
        /\ Both => \A k \in Streams \ {t} :
              Reached(Both, Length, k, n) = Reached(Both, Length, k, n - 1)
    <3>1. n \in Nat \ {0} /\ Length \in [Streams -> Nat] /\ t \in Streams /\ Both \in BOOLEAN
      BY <1>3, <1>5, <2>3, <2>4
    <3> QED
      BY <2>5, <2>6, <3>1, ReachedPacket
  <2>8. t \notin Dry
    <3>1. metric.TSlist[t] < Length[t]
      BY <1>3, <1>8, <2>3, <2>7
    <3> QED
      BY <1>5, <2>3, <3>1 DEF Over, Dry
  <2>9. /\ metric'.TSlist = [metric.TSlist EXCEPT ![t] = ts]
        /\ ts \in Nat /\ ts >= metric.TSlist[t] /\ now' = now
    BY <1>5, <2>1, CheckedList DEF Frame, Checkstall
  <2>10. ReadToEnd'
    <3> SUFFICES ASSUME NEW k \in Streams \ Lost
                 PROVE  metric'.TSlist[k]
                            = Reached(Both, Length, k, received'[Carrier(k)] \div PacketSize)
      BY <1>4 DEF ReadToEnd
    <3>1. CASE k = t
      BY <1>2, <1>5, <2>1, <2>2, <2>3, <2>7, <2>9, <3>1
    <3>2. CASE k # t /\ Carrier(k) = i
      BY <1>2, <1>3, <1>5, <1>8, <2>1, <2>2, <2>3, <2>4, <2>7, <2>9, <3>2
    <3>3. CASE k # t /\ Carrier(k) # i
      BY <1>2, <1>4, <1>5, <1>8, <2>1, <2>3, <2>9, <3>3
    <3> QED
      BY <3>1, <3>2, <3>3
  <2>11. Goal' = Goal
    <3>1. ASSUME NEW k \in Streams PROVE GoalOf(k)' = GoalOf(k)
      <4>1. CASE k \in Lost
        <5>1. metric'.TSlist[k] = metric.TSlist[k]
          BY <1>5, <2>3, <2>9, <4>1
        <5> QED
          BY <1>4, <4>1, <5>1 DEF GoalOf
      <4>2. CASE k \notin Lost
        BY <1>4, <1>6, <4>2 DEF GoalOf
      <4> QED
        BY <4>1, <4>2
    <3> QED
      BY <3>1 DEF Goal
  <2>12. Dry \subseteq Dry' /\ Dry' \in SUBSET Streams
    <3>1. Over \subseteq Over' /\ Over' \in SUBSET Streams
      BY <1>5, <2>3, <2>8, <2>9 DEF Over, Dry
    <3> QED
      BY <1>4, <3>1 DEF Dry
  <2>13. \A s, k \in Streams : k \in Dry' \/ Goal[s] - metric'.TSlist[k] <= cap
    <3> SUFFICES ASSUME NEW s \in Streams, NEW k \in Streams, k \notin Dry'
                 PROVE  Goal[s] - metric'.TSlist[k] <= cap
      OBVIOUS
    <3>1. k \notin Dry /\ Goal[s] \in Int
      BY <1>5, <2>12
    <3>2. Goal[s] - metric.TSlist[k] <= cap
      BY <3>1 DEF Filling, Near
    <3>3. metric'.TSlist[k] >= metric.TSlist[k] /\ metric'.TSlist[k] \in Int
          /\ metric.TSlist[k] \in Int
      BY <1>5, <2>9
    <3> QED
      BY <1>5, <3>1, <3>2, <3>3
  <2>14. Fits(metric', now', minbuffer', Goal, Dry', cap)
    <3>1. Fits(metric, now, minbuffer, Goal, Dry, cap)
      BY DEF Filling
    <3> QED
      BY <1>5, <2>1, <2>3, <2>8, <2>12, <2>13, <3>1, FrameFits
  <2>15. Even' /\ Near'
    BY <1>4, <2>11, <2>13 DEF Filling, Even, Near
  <2> QED
    BY <1>1, <1>4, <1>7, <2>10, <2>11, <2>14, <2>15 DEF Filling
<1> QED
  BY <1>2, <1>3, <1>9, <1>10

LEMMA AwakeType ==
    ASSUME IInv
    PROVE  Awake \in Int /\ Awake >= now
<1>1. /\ now \in Nat /\ metric.TSnow \in Int /\ metric.TS0 \in Int /\ metric.Tmin \in Int
  BY DEF IInv, Sound, Metric
<1>2. PlayoutBuffer(metric.TSnow, now) \in Int
  BY <1>1 DEF PlayoutBuffer
<1> QED
  BY <1>1, <1>2, TcpLoopAssumption DEF Awake

\* load_streams asks for the next chunk of every stream that has room in the buffer.
LEMMA FillingLoads ==
    ASSUME ChunksFillBuffers, TracksEndTogether, IInv, Buffering, LoopInv, Filling,
           LoadStreams
    PROVE  Filling'
<1> USE DEF LoopInv
<1> DEFINE list == metric.TSlist
           Buffered(i) == PlayoutBuffer(list[i], Awake)
           Chunk(i) == IF BufferSeconds - Buffered(i) >= ChunkMinimum
                       THEN ChunkMinimum ELSE ChunkFetch
           More(i) == IF Wants(i) THEN Chunk(i) ELSE 0
           Full(k) == list[k] + Chunk(k)
<1>0. /\ Media /\ Behind /\ (\A j \in Streams : StreamInv(j)) /\ TornOnlyByFailure
      /\ \A i \in Streams : ~Moving(i)
  BY DEF Filling, LoadStreams, TransferInv, InOrder, Phases, Moving
<1>1. /\ metric' = metric /\ minbuffer' = minbuffer /\ now' = Awake
      /\ UNCHANGED <<numofstreams, file, failed, received>>
      /\ Awake \in Int /\ Awake >= now /\ now \in Nat /\ metric \in Metric
  BY AwakeType DEF LoadStreams, TimePasses, IInv, Sound
<1>2. /\ Media' /\ Both' = Both /\ Lost' = Lost /\ Over' = Over /\ Dry' = Dry
      /\ Lost \in SUBSET Streams /\ Over \in SUBSET Streams /\ Dry \in SUBSET Streams
      /\ \A k \in Streams : Carrier(k)' = Carrier(k) /\ Carrier(k) \in Streams
  BY <1>0, <1>1 DEF Media, Indices, Both, Lost, Over, Dry, Carrier, Streams
<1>3. \A k \in Streams : list[k] = Goal[k]
  BY <1>0, <1>2, ReadAsAsked
<1>4. /\ Goal \in [Streams -> Int] /\ list \in [Streams -> Int] /\ Length \in [Streams -> Nat]
      /\ \A k \in Streams : list[k] \in Int /\ Length[k] \in Nat
      /\ \A k \in Streams \ Lost :
            Asked(k) \in Nat /\ list[k] = IF Asked(k) < Length[k] THEN Asked(k) ELSE Length[k]
      /\ metric.TS0 \in Int /\ metric.Tmin \in Int
  BY <1>0, <1>1, <1>3, GoalType, TcpLoopAssumption DEF Metric
<1>5. \A i \in Streams : Buffered(i) \in Int /\ Chunk(i) \in {ChunkMinimum, ChunkFetch}
  BY <1>1, <1>4 DEF PlayoutBuffer
<1>6. \A i \in Streams : More(i) \in Nat /\ Chunk(i) \in Nat
  BY <1>5, TcpLoopAssumption
<1>7. \A k \in Streams \ Lost :
          /\ url'[Carrier(k)].range1 = file[Carrier(k)].bitrate * (Asked(k) + More(Carrier(k)))
          /\ Asked(k)' = Asked(k) + More(Carrier(k))
  <2> SUFFICES ASSUME NEW k \in Streams \ Lost
               PROVE  /\ url'[Carrier(k)].range1
                             = file[Carrier(k)].bitrate * (Asked(k) + More(Carrier(k)))
                      /\ Asked(k)' = Asked(k) + More(Carrier(k))
    OBVIOUS
  <2> DEFINE i == Carrier(k)
             b == file[i].bitrate
             u == Asked(k)
             c == Chunk(i)
             v == u + More(i)
  <2>1. i \in Streams /\ i \in Indices /\ b \in Nat \ {0}
    BY <1>0, TrackIsThere
  <2>2. url'[i].range1 = url[i].range1 + (IF Wants(i) THEN b * c ELSE 0)
    BY <2>1, LoadsStream DEF RangeAddition
  <2>3. url[i].range1 = b * u
    BY DEF Filling, WholeChunks
  <2>4. b \in Nat /\ 0 < b /\ u \in Nat /\ c \in Nat /\ v \in Nat
    BY <1>4, <1>6, <2>1
  <2>5. v = u + (IF Wants(i) THEN c ELSE 0)
    OBVIOUS
  <2>6. Asked(k)' = url'[i].range1 \div b
    BY <1>1, <1>2 DEF Asked
  <2>7. url'[i].range1 = b * v
    <3> HIDE DEF b, u, c, v
    <3>1. b * (u + c) = b * u + b * c /\ b * (u + 0) = b * u /\ b * u \in Nat
      BY <2>4, Products
    <3> QED
      BY <2>2, <2>3, <2>4, <2>5, <3>1
  <2>8. Asked(k)' = v
    <3> HIDE DEF b, v
    <3>1. (b * v + 0) \div b = v /\ b * v + 0 = b * v
      BY <2>4, ProductQuotient
    <3> QED
      BY <2>6, <2>7, <3>1
  <2> QED
    BY <2>7, <2>8
<1>8. \A k \in Streams :
          Goal'[k] = IF k \in Lost THEN list[k]
                     ELSE IF Asked(k) + More(Carrier(k)) < Length[k]
                     THEN Asked(k) + More(Carrier(k)) ELSE Length[k]
  BY <1>1, <1>2, <1>7 DEF Goal, GoalOf
<1>9. \A k \in Streams \ Dry :
          list[k] < Length[k] /\ Asked(k) = list[k] /\ list[Carrier(k)] = list[k]
  <2> SUFFICES ASSUME NEW k \in Streams, k \notin Dry
               PROVE  /\ list[k] < Length[k] /\ Asked(k) = list[k]
                      /\ list[Carrier(k)] = list[k]
    OBVIOUS
  <2>1. list[k] < Length[k] /\ k \notin Lost
    BY <1>4 DEF Over, Dry
  <2>2. Asked(k) = list[k]
    BY <1>4, <2>1
  <2>3. CASE ~Both
    BY <1>0, <2>1, <2>2, <2>3, TrackIsThere
  <2>4. CASE Both
    <3>1. numofstreams = 1 /\ \A j \in Streams : j \notin Lost
      BY <1>0, <2>1, <2>4, TrackIsThere
    <3>2. Carrier(k) = 0 /\ Asked(0) = Asked(k) /\ 0 \in Streams /\ 1 \in Streams
      BY <3>1 DEF Carrier, Asked, Streams
    <3>3. list[0] = IF list[k] < Length[0] THEN list[k] ELSE Length[0]
      BY <1>4, <2>2, <3>1, <3>2
    <3>4. list[k] <= Length[0]
      BY <1>4, <2>1, <3>2 DEF TracksEndTogether, EndTogether, Streams
    <3> QED
      BY <1>4, <2>1, <2>2, <3>2, <3>3, <3>4
  <2> QED
    BY <2>3, <2>4
<1>10. \A k \in Streams \ Dry : Playing(Carrier(k))
  <2> SUFFICES ASSUME NEW k \in Streams, k \notin Lost, ~Playing(Carrier(k)) PROVE k \in Over
    BY DEF Dry
  <2> DEFINE i == Carrier(k)
             l == Packets(Both, Length, k)
             u == Length[0] + Length[1]
             a == IF Both THEN 2 * u ELSE u
  <2>1. received[i] = FileSize(i) /\ FileSize(i) = PacketSize * l
    BY <1>0, CarrierInOrder, TrackIsThere DEF Whole
  <2>2. /\ u \in Nat /\ u >= Length[k] /\ l \in Nat /\ l <= u
        /\ PacketSize \in Nat \ {0, 1} /\ a \in Nat /\ a >= u
    BY <1>4, TcpLoopAssumption DEF Packets, Streams
  <2>3. received[i] \div PacketSize = l
    <3> HIDE DEF l
    <3>1. (PacketSize * l + 0) \div PacketSize = l /\ PacketSize * l + 0 = PacketSize * l
      BY <2>2, ProductQuotient
    <3> QED
      BY <2>1, <3>1
  <2>4. Reached(Both, Length, k, l) = Length[k]
    <3>1. Both \in BOOLEAN /\ EndTogether(Length)
      BY DEF Both, TracksEndTogether
    <3> HIDE DEF u
    <3>2. Reached(Both, Length, k, IF a < Packets(Both, Length, k) THEN a
                                   ELSE Packets(Both, Length, k))
              = IF u < Length[k] THEN u ELSE Length[k]
      BY <1>4, <2>2, <3>1, ReachedChunks
    <3>3. ~(a < l)
      BY <2>2
    <3> HIDE DEF a
    <3> QED
      BY <1>4, <2>2, <3>2, <3>3
  <2>5. list[k] = Length[k]
    BY <2>3, <2>4 DEF Filling, ReadToEnd
  <2> QED
    BY <1>4, <2>5 DEF Over
<1>11. \A s \in Streams :
           Goal'[s] = IF s \in Dry \/ Buffered(s) > BufferSeconds THEN list[s]
                      ELSE IF Full(s) < Length[s] THEN Full(s) ELSE Length[s]
  <2> SUFFICES ASSUME NEW s \in Streams
               PROVE  Goal'[s] = IF s \in Dry \/ Buffered(s) > BufferSeconds THEN list[s]
                                 ELSE IF Full(s) < Length[s] THEN Full(s) ELSE Length[s]
    OBVIOUS
  <2>0. Carrier(s) \in Streams /\ More(Carrier(s)) \in Nat
    BY <1>2, <1>6
  <2>1. CASE s \in Lost
    BY <1>8, <2>1 DEF Dry
  <2>2. CASE s \in Over /\ s \notin Lost
    <3>1. list[s] >= Length[s]
      BY <2>2 DEF Over
    <3>2. Asked(s) >= Length[s] /\ list[s] = Length[s] /\ Asked(s) \in Nat
      BY <1>4, <2>2, <3>1
    <3>3. s \in Dry
      BY <2>2 DEF Dry
    <3> HIDE DEF More, list
    <3> QED
      BY <1>4, <1>8, <2>0, <2>2, <3>2, <3>3
  <2>3. CASE s \notin Dry
    <3>1. /\ list[s] < Length[s] /\ Asked(s) = list[s]
          /\ list[Carrier(s)] = list[s] /\ Playing(Carrier(s))
      BY <1>9, <1>10, <2>3
    <3>2. Buffered(Carrier(s)) = Buffered(s) /\ Chunk(Carrier(s)) = Chunk(s)
      BY <3>1
    <3>3. Wants(Carrier(s)) = (Buffered(s) <= BufferSeconds)
      BY <3>1, <3>2 DEF Wants
    <3>4. More(Carrier(s)) = IF Buffered(s) <= BufferSeconds THEN Chunk(s) ELSE 0
      BY <3>2, <3>3
    <3>5. (Buffered(s) > BufferSeconds) = ~(Buffered(s) <= BufferSeconds)
      BY <1>5, TcpLoopAssumption
    <3>6. s \notin Lost
      BY <2>3 DEF Dry
    <3> HIDE DEF More, Buffered, Chunk, list
    <3> QED
      BY <1>4, <1>8, <2>3, <3>1, <3>4, <3>5, <3>6
  <2> QED
    BY <2>1, <2>2, <2>3 DEF Dry
<1>12. \A s, k \in Streams : k \in Dry \/ list[s] <= list[k]
  <2> SUFFICES ASSUME NEW s \in Streams, NEW k \in Streams, k \notin Dry
               PROVE  list[s] <= list[k]
    OBVIOUS
  <2>1. k \notin Lost /\ Goal[k] # Length[k]
    BY <1>3, <1>4, <1>9 DEF Dry
  <2> QED
    BY <1>3, <2>1 DEF Filling, Even
<1>13. \A s \in Streams : s \in Dry \/ list[s] = 0 \/ list[s] >= ChunkMinimum
  <2> SUFFICES ASSUME NEW s \in Streams, s \notin Dry
               PROVE  list[s] = 0 \/ list[s] >= ChunkMinimum
    OBVIOUS
  <2>1. s \notin Lost /\ Asked(s) = list[s]
    BY <1>9 DEF Dry
  <2> QED
    BY <2>1 DEF Filling, WholeChunks
<1>14. Fits(metric, now, minbuffer, list, Dry, BufferSeconds + ChunkFetch)
  <2>1. list = Goal
    BY <1>3, <1>4
  <2> QED
    BY <2>1 DEF Filling
<1>15. Goal' \in [Streams -> Int]
  <2>1. \A k \in Streams : Goal'[k] \in Int
    <3> HIDE DEF More, list
    <3> QED
      BY <1>2, <1>4, <1>6, <1>8
  <2>2. Goal' = [k \in Streams |-> Goal'[k]]
    BY DEF Goal
  <2> QED
    BY <2>1, <2>2
<1>16. /\ Fits(metric, Awake, minbuffer, Goal', Dry, BufferSeconds + ChunkFetch)
       /\ \A s, k \in Streams : k \in Dry \/ Goal'[k] = Length[k] \/ Goal'[s] <= Goal'[k]
       /\ \A s, k \in Streams : k \in Dry \/ Goal'[s] - list[k] <= BufferSeconds + ChunkFetch
  <2>1. /\ BufferSeconds \in Nat /\ ChunkMinimum \in Nat \ {0} /\ ChunkFetch \in Nat \ {0}
        /\ ChunkMinimum <= BufferSeconds
        /\ MinPrebuffer <= ChunkMinimum /\ MinStallbuffer <= ChunkFetch
    BY TcpLoopAssumption DEF ChunksFillBuffers
  <2>2. \A s \in Streams : s \notin Dry => metric.TSlist[s] < Length[s]
    BY <1>9
  <2>3. Refilled(Goal', Awake, Length, Dry, BufferSeconds, ChunkMinimum, ChunkFetch)
    BY <1>11 DEF Refilled
  <2>4. /\ ~Started => \A s \in Streams :
               s \in Dry \/ metric.TSlist[s] = 0 \/ metric.TSlist[s] >= ChunkMinimum
        /\ \A s, k \in Streams : k \in Dry \/ metric.TSlist[s] <= metric.TSlist[k]
        /\ Fits(metric, now, minbuffer, metric.TSlist, Dry, BufferSeconds + ChunkFetch)
    BY <1>12, <1>13, <1>14
  <2>5. Length \in [Streams -> Nat] /\ Dry \in SUBSET Streams /\ Awake \in Int /\ Awake >= now
    BY <1>1, <1>2, <1>4
  <2> QED
    BY <1>15, <2>1, <2>2, <2>3, <2>4, <2>5, RefillFits
<1>17. WholeChunks'
  <2> SUFFICES ASSUME NEW k \in Streams \ Lost
               PROVE  /\ url'[Carrier(k)].range1 = file[Carrier(k)].bitrate * Asked(k)'
                      /\ Asked(k)' = 0 \/ Asked(k)' >= ChunkMinimum
    BY <1>1, <1>2 DEF WholeChunks
  <2>1. Asked(k) \in Nat /\ More(Carrier(k)) \in Nat /\ ChunkMinimum \in Nat
    BY <1>2, <1>4, <1>6, TcpLoopAssumption
  <2>2. url'[Carrier(k)].range1 = file[Carrier(k)].bitrate * Asked(k)'
    BY <1>7
  <2>3. Asked(k) = 0 \/ Asked(k) >= ChunkMinimum
    BY DEF Filling, WholeChunks
  <2>4. Asked(k)' = Asked(k) + More(Carrier(k))
    BY <1>7
  <2>5. CASE Asked(k) = 0
    <3>1. Length[k] # 0
      BY TcpLoopAssumption
    <3>2. list[k] = 0 /\ k \notin Dry
      BY <1>4, <2>5, <3>1 DEF Dry, Over
    <3>3. list[Carrier(k)] = 0
      BY <1>9, <3>2
    <3>4. metric.TS0 = 0 /\ metric.Tmin <= now
      BY <1>1, <1>4, <3>2 DEF IInv, Sound, Ordered, NotAhead, Metric, Streams
    <3>5. Buffered(Carrier(k)) <= 0
      BY <1>1, <1>4, <3>3, <3>4 DEF PlayoutBuffer
    <3>6. Chunk(Carrier(k)) = ChunkMinimum
      BY <1>2, <1>5, <3>5, TcpLoopAssumption
    <3>7. More(Carrier(k)) = 0 \/ More(Carrier(k)) = ChunkMinimum
      BY <3>6
    <3> HIDE DEF More
    <3> QED
      BY <2>1, <2>2, <2>4, <2>5, <3>7
  <2>6. CASE Asked(k) >= ChunkMinimum
    <3> HIDE DEF More
    <3> QED
      BY <2>1, <2>2, <2>4, <2>6
  <2> QED
    BY <2>3, <2>5, <2>6
<1>18. ReadToEnd'
  BY <1>1, <1>2 DEF Filling, ReadToEnd
<1>19. Even' /\ Near'
  <2>1. \A k \in Over : k \in Lost \/ Goal'[k] = Length[k]
    <3> SUFFICES ASSUME NEW k \in Over, k \notin Lost PROVE Goal'[k] = Length[k]
      OBVIOUS
    <3>1. k \in Streams /\ list[k] >= Length[k] /\ k \in Dry
      BY DEF Over, Dry
    <3>2. list[k] = Length[k]
      BY <1>4, <3>1
    <3> QED
      BY <1>11, <3>1, <3>2
  <2> QED
    BY <1>1, <1>2, <1>16, <2>1 DEF Even, Near, Dry
<1>20. Behind'
  BY <1>0, BehindLoads
<1> QED
  BY <1>1, <1>2, <1>16, <1>17, <1>18, <1>19, <1>20 DEF Filling

\* What does not touch the playout does not fill its buffer.
LEMMA BoundKept == BufferBounded /\ UNCHANGED <<metric, now>> => BufferBounded'
BY DEF BufferBounded, Started, Ahead, PlayoutBuffer

\* While it loops, downloadfiles keeps the buffer bounded.
LEMMA LoopingBuffer ==
    ASSUME TracksEndTogether, IInv', LoopInv', Buffering', Filling',
           loop' \in {"top", "run", "select"}
    PROVE  BufferInv'
<1>1. TornOnlyByFailure' /\ (\A j \in Streams : StreamInv(j))'
  BY DEF LoopInv, TransferInv, InOrder
<1>2. BufferBounded'
  BY <1>1, FillingBoundedNext DEF LoopInv
<1> QED
  BY <1>2 DEF BufferInv

\* A step that asks for nothing new: it takes time, ends transfers, or ends the loop.
LEMMA QuietBuffer ==
    ASSUME TracksEndTogether, IInv, LoopInv, BufferInv, loop \in {"top", "run", "select"},
           IInv', LoopInv', Buffering',
           UNCHANGED <<numofstreams, file, received, metric, minbuffer>>,
           \A i \in Streams : /\ url'[i].range0 = url[i].range0
                              /\ url'[i].range1 = url[i].range1,
           \/ now' = now
           \/ loop' \in {"top", "run", "select"} /\ now' = now + 1,
           failed \subseteq failed', Behind'
    PROVE  BufferInv'
<1>1. TornOnlyByFailure /\ (\A j \in Streams : StreamInv(j)) /\ Filling /\ LoopType
  BY DEF LoopInv, TransferInv, InOrder, BufferInv
<1>2. now \in Int
  BY DEF IInv
<1>3. Filling'
  BY <1>1, <1>2, FillingKept
<1>4. CASE loop' \in {"top", "run", "select"}
  BY <1>3, <1>4, LoopingBuffer
<1>5. CASE loop' \notin {"top", "run", "select"} /\ now' = now
  BY <1>5, BoundKept DEF BufferInv
<1> QED
  BY <1>4, <1>5

\* Steps after the loop, or that leave it for good.
LEMMA LeftBuffer ==
    ASSUME BufferInv, Buffering', UNCHANGED <<metric, now>>,
           loop' \notin {"top", "run", "select"}
    PROVE  BufferInv'
BY BoundKept DEF BufferInv

LEMMA LoopStepBuffer ==
    ASSUME ChunksFillBuffers, TracksEndTogether, IInv, LoopInv, BufferInv,
           LoopRuns \/ LoopSuffers, IInv', LoopInv', Buffering'
    PROVE  BufferInv'
<1>1. loop \in {"top", "run", "select"} => Filling /\ Behind
  BY DEF BufferInv, Filling
<1>2. CASE LoadStreams
  <2>1. Filling'
    BY <1>1, <1>2, FillingLoads DEF BufferInv, LoadStreams
  <2>2. CASE loop' \in {"run", "select"}
    BY <2>1, <2>2, LoopingBuffer
  <2>3. CASE loop' = "break"
    <3>1. loop = "top" /\ TornOnlyByFailure' /\ LoopType'
      BY <1>2 DEF LoadStreams, LoopInv, TransferInv
    <3>2. (\A j \in Streams : StreamInv(j))'
      BY <2>3 DEF LoopInv, TransferInv, InOrder
    <3>3. BufferBounded'
      BY <2>1, <3>1, <3>2, FillingBoundedNext
    <3> QED
      BY <2>3, <3>3 DEF BufferInv
  <2> QED
    BY <1>2, <2>2, <2>3 DEF LoadStreams
<1>3. ASSUME NEW i \in Streams, Packet(i) PROVE BufferInv'
  <2>1. loop = "run" /\ loop' = "run"
    BY <1>3 DEF Packet, Transferring
  <2>2. Filling'
    BY <1>1, <1>3, <2>1, FillingPacket
  <2> QED
    BY <2>1, <2>2, LoopingBuffer
<1>4. ASSUME NEW i \in Streams, TornBytes(i) \/ Done(i) \/ ErrorPage(i) PROVE BufferInv'
  <2>1. /\ loop = "run"
        /\ UNCHANGED <<numofstreams, file, url, received, metric, minbuffer, now>>
        /\ torn \subseteq torn' /\ active' \subseteq active
        /\ failed \subseteq failed' /\ failed' \subseteq failed \cup torn'
    BY <1>4 DEF TornBytes, Done, ErrorPage, EndTransfer, Transferring, historyVars, playoutVars
  <2>2. Behind'
    BY <1>1, <2>1, BehindKept
  <2> QED
    BY <2>1, <2>2, QuietBuffer
<1>5. ASSUME NEW i \in Streams, Cut(i) PROVE BufferInv'
  <2>1. /\ loop = "run" /\ failed \subseteq failed'
        /\ UNCHANGED <<numofstreams, file, url, received, metric, minbuffer, now>>
    BY <1>5 DEF Cut, Transferring, playoutVars
  <2>2. Behind'
    BY <1>1, <1>5, <2>1, BehindCut
  <2> QED
    BY <2>1, <2>2, QuietBuffer
<1>6. CASE SelectIdle \/ Wait
  <2>1. /\ loop \in {"run", "select"} /\ loop' = "run"
        /\ now' = now + 1
        /\ UNCHANGED <<numofstreams, file, url, received, metric, minbuffer, torn, active,
                       failed>>
    BY <1>6 DEF SelectIdle, Wait, TimePasses, loopVars, transferVars, historyVars
  <2>2. Behind'
    BY <1>1, <2>1, BehindKept
  <2> QED
    BY <2>1, <2>2, QuietBuffer
<1>7. CASE Progress
  <2>1. /\ loop = "run"
        /\ UNCHANGED <<numofstreams, file, received, metric, minbuffer, now, torn, active,
                       failed>>
    BY <1>7 DEF Progress, historyVars
  <2>2. \A i \in Streams : url'[i].range0 = url[i].range0 /\ url'[i].range1 = url[i].range1
    BY <1>7, ProgressStream DEF LoopInv
  <2>3. Behind'
    BY <1>1, <2>1, <2>2, BehindKept
  <2> QED
    BY <2>1, <2>2, <2>3, QuietBuffer
<1>8. CASE Cleanup
  <2>1. ReportCode /\ loop' = "done"
    BY <1>8, CleanupKeeps DEF Cleanup, CurlCleanup
  <2> QED
    BY <2>1, LeftBuffer DEF ReportCode
<1>9. CASE PerformFails
  BY <1>9, LeftBuffer DEF PerformFails, CurlCleanup
<1>10. CASE CleanupUnmaps \/ RunsOnFreed
  BY <1>10, LeftBuffer DEF CleanupUnmaps, RunsOnFreed, Dies, playoutVars
<1> QED
  BY <1>2, <1>3, <1>4, <1>5, <1>6, <1>7, <1>8, <1>9, <1>10 DEF LoopRuns, LoopSuffers

\* The files of a level are media, whatever is on the page.
LEMMA FilesAreMedia ==
    ASSUME file' = Files, numofstreams' = IF HasAudio THEN 2 ELSE 1
    PROVE  Media'
<1>1. HasAudio => stage = "adaptive"
  BY DEF HasAudio
<1>2. \A entry, tracks :
          /\ FileOf(entry, tracks).tracks \in {{}, tracks}
          /\ FileOf(entry, tracks).bitrate \in {0, PacketSize * Cardinality(tracks)}
  BY DEF FileOf
<1>3. file'[0] = IF stage = "plain" THEN FileOf(Entry, Streams) ELSE FileOf(Entry, {0})
  BY DEF Files, Streams
<1>4. file'[1] = IF HasAudio THEN FileOf(audios[AudioIndex], {1}) ELSE NoFile
  BY <1>1 DEF Files, Streams
<1>5. /\ file'[0].tracks = {} \/ file'[0].tracks = (IF stage = "plain" THEN Streams ELSE {0})
      /\ file'[0].tracks # {} =>
            file'[0].bitrate \in {0, PacketSize * Cardinality(file'[0].tracks)}
  BY <1>2, <1>3
<1>6. /\ file'[1].tracks = {} \/ (HasAudio /\ file'[1].tracks = {1})
      /\ file'[1].tracks # {} =>
            file'[1].bitrate \in {0, PacketSize * Cardinality(file'[1].tracks)}
  BY <1>2, <1>4 DEF NoFile
<1>7. 0 \in Indices' /\ (HasAudio => 1 \in Indices') /\ numofstreams' \in {1, 2}
  BY DEF Indices, Streams
<1>8. stage = "plain" => numofstreams' = 1
  BY <1>1
<1>9. \A i \in Streams : i = 0 \/ i = 1
  BY DEF Streams
<1> QED
  BY <1>5, <1>6, <1>7, <1>8, <1>9 DEF Media

\* An attempt begins with an empty buffer.
LEMMA RestartBuffer ==
    ASSUME IInv, NEW fail, NewAttempt(fail)
    PROVE  /\ metric'.TSlist = [i \in Streams |-> 0] /\ metric'.TS0 = 0
           /\ metric'.initialprebuftime = -1 /\ BufferBounded'
<1>1. metric \in Metric /\ metric' = RestartMetrics(metric, now, fail)
  BY DEF IInv, Sound, NewAttempt
<1>2. /\ metric'.TSlist = [i \in Streams |-> 0] /\ metric'.TS0 = 0
      /\ metric'.initialprebuftime = -1
  BY <1>1 DEF RestartMetrics, Metric
<1> QED
  BY <1>2 DEF BufferBounded, Started

\* A step that leaves downloadfiles alone.
LEMMA AloneBuffer ==
    ASSUME TracksEndTogether, IInv, LoopInv, BufferInv, IInv', LoopInv', Buffering',
           UNCHANGED loopVars, UNCHANGED <<metric, minbuffer, now>>
    PROVE  BufferInv'
<1>1. UNCHANGED <<loop, numofstreams, file, url, received, torn, active, failed>>
  BY DEF loopVars, transferVars, historyVars
<1>2. CASE loop \in {"top", "run", "select"}
  <2>1. Behind'
    BY <1>1, <1>2, BehindKept DEF BufferInv, Filling
  <2> QED
    BY <1>1, <1>2, <2>1, QuietBuffer
<1>3. CASE loop \notin {"top", "run", "select"}
  BY <1>1, <1>3, LeftBuffer
<1> QED
  BY <1>2, <1>3

LEMMA MainStepBuffer ==
    ASSUME TracksEndTogether, TcpInv, BufferInv,
           MainRuns \/ PageFails \/ HeadFails \/ Signal, IInv', LoopInv', Buffering'
    PROVE  BufferInv'
<1> USE DEF TcpInv
<1>1. CASE Signal \/ ReadPage \/ Measure \/ ParserExits
  <2>1. UNCHANGED loopVars /\ UNCHANGED <<metric, minbuffer, now>>
    BY <1>1 DEF Signal, ReadPage, Measure, ParserExits, playoutVars
  <2> QED
    BY <2>1, AloneBuffer
<1>2. CASE PageFails \/ Unmeasurable \/ HeadFails
  <2>1. UNCHANGED loopVars /\ UNCHANGED <<metric, minbuffer, now>>
    BY <1>2 DEF PageFails, Unmeasurable, HeadFails, NoMedia
  <2> QED
    BY <2>1, AloneBuffer
<1>3. CASE ReadPageDies \/ MeasureDies \/ NoAdaptiveUrl
  <2>1. loop' = "crashed" /\ UNCHANGED <<metric, now>>
    BY <1>3 DEF ReadPageDies, MeasureDies, NoAdaptiveUrl, MainDies, playoutVars
  <2> QED
    BY <2>1, LeftBuffer
<1>4. CASE SkipLevel
  <2>1. NewAttempt(TRUE) /\ loop' = "idle"
    BY <1>4 DEF SkipLevel, CanChoose, Choosing
  <2> QED
    BY <2>1, RestartBuffer DEF BufferInv
<1>5. CASE TryLevel
  <2>1. \E fail : StartAttempt(IF HasAudio THEN 2 ELSE 1, Files, fail)
    BY <1>5, Zenon DEF TryLevel
  <2>2. PICK fail : StartAttempt(IF HasAudio THEN 2 ELSE 1, Files, fail)
    BY <2>1, Zenon
  <2>3. /\ NewAttempt(fail) /\ loop' = "top" /\ file' = Files
        /\ numofstreams' = IF HasAudio THEN 2 ELSE 1
        /\ url' = [i \in Streams |-> FreshUrl] /\ received' = [i \in Streams |-> 0]
        /\ active' = {} /\ failed' = {}
    BY <2>2, Zenon DEF StartAttempt
  <2>4. Media'
    BY <2>3, FilesAreMedia
  <2>5. \A i \in Streams : url'[i].range1 = 0 /\ received'[i] = 0
    BY <2>3 DEF FreshUrl
  <2>6. /\ metric'.TSlist = [i \in Streams |-> 0] /\ metric'.TS0 = 0
        /\ metric'.initialprebuftime = -1 /\ BufferBounded'
    BY <2>3, RestartBuffer
  <2>7. Filling'
    BY <2>3, <2>4, <2>5, <2>6, FillingStarts DEF LoopInv
  <2> QED
    BY <2>6, <2>7 DEF BufferInv
<1>6. CASE JudgeAttempt
  <2>1. loop' = "idle" /\ UNCHANGED <<metric, now>>
    BY <1>6 DEF JudgeAttempt
  <2> QED
    BY <2>1, LeftBuffer
<1> QED
  BY <1>1, <1>2, <1>3, <1>4, <1>5, <1>6 DEF MainRuns

LEMMA BufferStarts == Init => BufferInv
<1> SUFFICES ASSUME Init PROVE BufferInv
  OBVIOUS
<1>1. loop = "idle" /\ Buffering /\ metric.initialprebuftime = -1
  BY BufferingInit DEF Init, LoopInit, PlayoutInit, InitMetrics
<1> QED
  BY <1>1 DEF BufferInv, BufferBounded, Started

LEMMA BufferNext ==
    ASSUME ChunksFillBuffers, TracksEndTogether, TcpInv, BufferInv, [Next]_vars
    PROVE  BufferInv'
<1>1. /\ IInv /\ LoopInv /\ [PlayoutNext]_playoutVars /\ IInv' /\ LoopInv'
  BY TcpNext DEF TcpInv
<1>2. Buffering'
  BY <1>1, BufferingNext DEF BufferInv
<1>3. CASE LoopRuns \/ LoopSuffers
  BY <1>1, <1>2, <1>3, LoopStepBuffer
<1>4. CASE MainRuns \/ PageFails \/ HeadFails \/ Signal
  BY <1>1, <1>2, <1>4, MainStepBuffer
<1>5. CASE UNCHANGED vars
  <2>1. UNCHANGED loopVars /\ UNCHANGED <<metric, minbuffer, now>>
    BY <1>5 DEF vars, playoutVars
  <2> QED
    BY <1>1, <1>2, <2>1, AloneBuffer
<1> QED
  BY <1>3, <1>4, <1>5 DEF Next, PlayerRuns, Finished
-----------------------------------------------------------------------------
(* The levels. *)

LEMMA PagesType ==
    ASSUME NEW p \in Pages
    PROVE  /\ p.duration \in Nat \cup {-1}
           /\ p.plain \in Seq(Piece) /\ p.adaptive \in Seq(Piece)
           /\ \A i \in DOMAIN p.plain :
                 p.plain[i].url \notin NoUrls => FileSizes[p.plain[i].url] \in Int
BY TcpPlayerAssumption

\* A step that leaves the lists alone.
LEMMA ListsKept ==
    ASSUME ListsInv, UNCHANGED listVars,
           stage' \in {stage, "exit"} \/ (stage = "adaptive" /\ stage' = "plain")
    PROVE  ListsInv'
<1>1. UNCHANGED <<page, videos, audios, plains>>
  BY DEF listVars
<1>2. stage' = "measure" => stage = "measure"
  OBVIOUS
<1>3. stage' \in {"adaptive", "plain"} => stage \in {"adaptive", "plain"}
  OBVIOUS
<1>4. ListsTellPage'
  BY <1>1, <1>3 DEF ListsInv, ListsTellPage
<1> QED
  BY <1>1, <1>2, <1>4 DEF ListsInv

\* downloadfiles runs only after it was called, and leaves its arguments alone.
LEMMA LoopStays ==
    ASSUME LoopRuns \/ LoopSuffers
    PROVE  loop # "idle" /\ numofstreams' = numofstreams /\ file' = file
<1>1. CASE \E i \in Streams : Packet(i) \/ TornBytes(i) \/ Done(i)
  BY <1>1 DEF Packet, TornBytes, Done, Transferring
<1>2. CASE \E i \in Streams : Cut(i) \/ ErrorPage(i)
  BY <1>2 DEF Cut, ErrorPage, Transferring
<1>3. CASE LoadStreams \/ SelectIdle \/ Progress
  BY <1>3 DEF LoadStreams, SelectIdle, Progress
<1>4. CASE Cleanup \/ PerformFails
  BY <1>4 DEF Cleanup, PerformFails, CurlCleanup
<1>5. CASE CleanupUnmaps \/ RunsOnFreed
  BY <1>5 DEF CleanupUnmaps, RunsOnFreed, Dies
<1>6. CASE Wait
  BY <1>6 DEF Wait, loopVars
<1> QED
  BY <1>1, <1>2, <1>3, <1>4, <1>5, <1>6 DEF LoopRuns, LoopSuffers

\* No byte comes from an empty url.
LEMMA NoPacket ==
    ASSUME LoopType, file = [i \in Streams |-> NoFile], NEW i \in Streams
    PROVE  ~Packet(i)
<1>1. file[i].tracks = {} /\ {} # Streams
  BY DEF NoFile, Streams
<1>2. FileSize(i) = PacketSize * 0
  BY <1>1 DEF FileSize
<1>3. FileSize(i) = 0
  BY <1>2, TcpLoopAssumption
<1>4. url[i].range0 \in Nat /\ url[i].range1 \in Nat /\ got[i] \in Nat
  BY DEF LoopType, VideoUrl
<1>5. Offered(i) = 0
  BY <1>3, <1>4 DEF Offered
<1> QED
  BY <1>4, <1>5 DEF Packet

LEMMA NoPlainUrlKept ==
    ASSUME LoopType, NoPlainUrl, LoopRuns \/ LoopSuffers, UNCHANGED mainVars
    PROVE  NoPlainUrl'
<1>1. loop # "idle" /\ numofstreams' = numofstreams /\ file' = file
      /\ stage' = stage /\ plains' = plains
  BY LoopStays DEF mainVars, listVars
<1> SUFFICES ASSUME stage = "plain", plains = <<>>
             PROVE  errorcode' \notin {"ERROR_STALL", "TOO_FAST"}
  BY <1>1 DEF NoPlainUrl
<1>2. file = [i \in Streams |-> NoFile] /\ errorcode \notin {"ERROR_STALL", "TOO_FAST"}
  BY <1>1 DEF NoPlainUrl
<1>3. \A i \in Streams : ~Packet(i)
  BY <1>2, NoPacket
<1>4. CASE \E i \in Streams : TornBytes(i) \/ Done(i)
  BY <1>2, <1>4 DEF TornBytes, Done, playoutVars
<1>5. CASE \E i \in Streams : Cut(i) \/ ErrorPage(i)
  BY <1>2, <1>5 DEF Cut, ErrorPage, playoutVars
<1>6. CASE LoadStreams \/ SelectIdle
  BY <1>2, <1>6 DEF LoadStreams, SelectIdle, TimePasses
<1>7. CASE Progress
  BY <1>2, <1>7 DEF Progress
<1>8. CASE Cleanup \/ PerformFails
  BY <1>2, <1>8 DEF Cleanup, PerformFails, CurlCleanup
<1>9. CASE CleanupUnmaps \/ RunsOnFreed
  BY <1>2, <1>9 DEF CleanupUnmaps, RunsOnFreed, Dies, playoutVars
<1>10. CASE Wait
  BY <1>2, <1>10 DEF Wait, TimePasses
<1> QED
  BY <1>3, <1>4, <1>5, <1>6, <1>7, <1>8, <1>9, <1>10 DEF LoopRuns, LoopSuffers

LEMMA CheckedFails ==
    ASSUME NEW list, NEW end
    PROVE  CheckedMetric(list, end).fail_on_stall = metric.fail_on_stall
<1>1. Arrived(list).fail_on_stall = metric.fail_on_stall
  BY DEF Arrived, FirstPacket
<1>2. Judged(list).fail_on_stall = metric.fail_on_stall
  BY <1>1 DEF Judged, Stall
<1> QED
  BY <1>2 DEF CheckedMetric, StartPlayout

LEMMA LoopStallFails ==
    ASSUME StallFails, LoopRuns \/ LoopSuffers
    PROVE  StallFails'
<1> USE DEF StallFails
<1>1. CASE UNCHANGED <<metric, errorcode>>
  BY <1>1
<1>2. ASSUME NEW i \in Streams, Packet(i) PROVE StallFails'
  <2>1. ASSUME NEW k, NEW ts, Frame(k, ts) PROVE StallFails'
    BY <2>1, CheckedFails DEF Frame, Checkstall
  <2> QED
    BY <1>2, <2>1, <1>1 DEF Packet, playoutVars
<1>3. CASE \E i \in Streams : TornBytes(i) \/ Done(i) \/ Cut(i) \/ ErrorPage(i)
  BY <1>3 DEF TornBytes, Done, Cut, ErrorPage, playoutVars
<1>4. CASE LoadStreams \/ SelectIdle \/ Wait
  BY <1>4 DEF LoadStreams, SelectIdle, Wait, TimePasses
<1>5. CASE Progress
  BY <1>5 DEF Progress
<1>6. CASE Cleanup
  BY <1>6, CheckedFails DEF Cleanup, CurlCleanup
<1>7. CASE PerformFails
  BY <1>7 DEF PerformFails, CurlCleanup
<1>8. CASE CleanupUnmaps \/ RunsOnFreed
  BY <1>8 DEF CleanupUnmaps, RunsOnFreed, Dies, playoutVars
<1> QED
  BY <1>2, <1>3, <1>4, <1>5, <1>6, <1>7, <1>8 DEF LoopRuns, LoopSuffers

\* The steps of downloadfiles.
LEMMA LoopKeepsMain ==
    ASSUME MainInv, Downloading, LoopRuns \/ LoopSuffers, UNCHANGED mainVars
    PROVE  ListsInv' /\ LevelInv'
<1> USE DEF MainInv
<1>1. /\ loop # "idle" /\ numofstreams' = numofstreams
      /\ UNCHANGED <<listVars, stage, level, audio, lines>>
  BY LoopStays DEF mainVars
<1>2. ListsInv'
  BY <1>1, ListsKept
<1>3. NoPlainUrl'
  BY NoPlainUrlKept DEF TcpInv, LoopInv, LevelInv
<1>4. AudioIsBest'
  <2>1. UNCHANGED <<videos, audios>>
    BY <1>1 DEF listVars
  <2> QED
    BY <1>1, <2>1 DEF LevelInv, AudioIsBest
<1>5. GivesUpLast'
  BY <1>1 DEF Downloading, GivesUpLast
<1>6. PlainAlone'
  BY <1>1 DEF LevelInv, PlainAlone
<1>7. StallFails'
  BY LoopStallFails DEF LevelInv
<1>8. LevelInv'
  BY <1>1, <1>3, <1>4, <1>5, <1>6, <1>7 DEF LevelInv, listVars
<1> QED
  BY <1>2, <1>8

LEMMA ExitLineType ==
    ASSUME NEW code \in ErrorCodes, lines \in Seq(Reported)
    PROVE  lines \o ExitLine(code) \in Seq(Reported)
<1>1. (IF code = "0" THEN "WERSCREWED" ELSE code) \in Reported
  BY DEF Reported
<1>2. ExitLine(code) \in Seq(Reported)
  BY <1>1 DEF ExitLine
<1> QED
  BY <1>2

\* The program ends before the first attempt, with a signal, or because a parser exits.
LEMMA ExitKeeps ==
    ASSUME MainInv, NEW code \in ErrorCodes, ExitWith(code),
           UNCHANGED <<loop, metric, listVars, level, audio>>,
           \/ loop = "exited" /\ UNCHANGED errorcode
           \/ errorcode' \notin {"ERROR_STALL", "TOO_FAST"}
    PROVE  ListsInv' /\ LevelInv'
<1> USE DEF MainInv
<1>1. stage' = "exit" /\ lines' \in Seq(Reported)
  BY ExitLineType DEF ExitWith, LevelInv
<1>2. ListsInv'
  BY <1>1, ListsKept
<1>3. LevelInv'
  BY <1>1 DEF LevelInv, Stages, NoPlainUrl, PlainAlone, StallFails, AudioIsBest, GivesUpLast
<1> QED
  BY <1>2, <1>3

\* The process dies before downloadfiles is called, with every list as it was.
LEMMA MainDiesKeeps ==
    ASSUME MainInv, MainDies, loop = "idle",
           \/ stage \in {"page", "measure"}
           \/ stage = "adaptive" /\ (videos = <<>> \/ audios = <<>>)
    PROVE  ListsInv' /\ LevelInv'
<1> USE DEF MainInv
<1>1. UNCHANGED <<metric, errorcode, numofstreams, listVars, stage, level, audio, lines>>
  BY DEF MainDies, mainVars, playoutVars
<1>2. ListsInv'
  BY <1>1, ListsKept
<1>3. LevelInv'
  <2>1. UNCHANGED <<videos, audios, plains>>
    BY <1>1 DEF listVars
  <2>2. numofstreams' = 0
    BY <1>1 DEF LevelInv
  <2>3. NoPlainUrl' /\ PlainAlone' /\ AudioIsBest' /\ GivesUpLast'
    BY <1>1, <2>2 DEF NoPlainUrl, PlainAlone, AudioIsBest, GivesUpLast
  <2> QED
    BY <1>1, <2>1, <2>3 DEF LevelInv, StallFails
<1> QED
  BY <1>2, <1>3

\* The steps of extract_media_urls.
LEMMA ReadPageKeeps == MainInv /\ ReadPage => ListsInv' /\ LevelInv'
<1> SUFFICES ASSUME MainInv, ReadPage PROVE ListsInv' /\ LevelInv'
  OBVIOUS
<1> USE DEF MainInv
<1>1. /\ stage = "page" /\ stage' = "measure" /\ loop' = "idle" /\ numofstreams' = numofstreams
      /\ plains' = SplitUrls(page.plain, FALSE)
      /\ ~FreesForeign(page.plain) /\ ~FreesForeign(page.adaptive)
      /\ UNCHANGED <<metric, errorcode, page, videos, audios, level, audio, lines>>
  BY DEF ReadPage, In, loopVars, playoutVars, TcpInv, PageFirst
<1>2. plains' \in Seq(EntryType)
  <2>1. page.plain \in Seq(Piece)
    BY PagesType DEF ListsInv
  <2> QED
    BY <1>1, <2>1, SplitList
<1>3. ListsInv'
  BY <1>1, <1>2 DEF ListsInv, ListsTellPage
<1>4. LevelInv'
  BY <1>1 DEF LevelInv, Stages, NoPlainUrl, PlainAlone, StallFails, AudioIsBest,
     GivesUpLast
<1> QED
  BY <1>3, <1>4

LEMMA MeasureKeeps == MainInv /\ Measure => ListsInv' /\ LevelInv'
<1> SUFFICES ASSUME MainInv, Measure PROVE ListsInv' /\ LevelInv'
  OBVIOUS
<1> USE DEF MainInv
<1>1. /\ stage = "measure" /\ stage' = "adaptive" /\ loop' = "idle"
      /\ numofstreams' = numofstreams
      /\ UNCHANGED <<metric, errorcode, page, level, audio, lines>>
  BY DEF Measure, In, loopVars, playoutVars, TcpInv, PageFirst
<1>2. /\ page \in Pages
      /\ plains = SplitUrls(page.plain, FALSE)
      /\ ~FreesForeign(page.plain) /\ ~FreesForeign(page.adaptive)
  BY <1>1 DEF ListsInv
<1>3. /\ Measurable(plains, page.duration)
      /\ plains' \in Sorted(Measured(plains, page.duration), DOMAIN plains)
      /\ videos' \in Sorted(SplitUrls(page.adaptive, TRUE),
                            OfKind(SplitUrls(page.adaptive, TRUE), "video"))
      /\ audios' \in Sorted(SplitUrls(page.adaptive, TRUE),
                            OfKind(SplitUrls(page.adaptive, TRUE), "audio"))
  BY DEF Measure
<1>4. /\ plains' \in Seq(EntryType) /\ Descending(plains')
      /\ Cardinality(KeptPieces(page.plain)) = Len(plains')
      /\ \A i \in KeptPieces(page.plain) :
            \E k \in DOMAIN plains' : SaysFile(page.plain, page.duration, i, plains'[k])
      /\ \A k \in DOMAIN plains' :
            \E i \in KeptPieces(page.plain) : SaysFile(page.plain, page.duration, i, plains'[k])
  <2>1. page.duration \in Int
    BY <1>2, PagesType
  <2>2. /\ page.plain \in Seq(Piece)
        /\ \A i \in DOMAIN page.plain :
              page.plain[i].url \notin NoUrls => FileSizes[page.plain[i].url] \in Int
    BY <1>2, PagesType
  <2> QED
    BY <1>2, <1>3, <2>1, <2>2, PlainTells
<1>5. page.adaptive \in Seq(Piece)
  BY <1>2, PagesType
<1> DEFINE Tell(kind, list) ==
              /\ list \in Seq(EntryType) /\ Descending(list)
              /\ \A i \in KeptPieces(page.adaptive) :
                    page.adaptive[i].type.kind = kind =>
                        \E k \in DOMAIN list : Says(page.adaptive, i, list[k])
              /\ \A k \in DOMAIN list :
                    \E i \in KeptPieces(page.adaptive) : Says(page.adaptive, i, list[k])
<1>6. Tell("video", videos')
  BY <1>2, <1>3, <1>5, AdaptiveTells
<1>7. Tell("audio", audios')
  BY <1>2, <1>3, <1>5, AdaptiveTells
<1>8. ListsTellPage'
  BY <1>1, <1>4, <1>6, <1>7 DEF ListsTellPage
<1>9. ListsInv'
  BY <1>1, <1>2, <1>4, <1>6, <1>7, <1>8 DEF ListsInv
<1>10. LevelInv'
  BY <1>1 DEF LevelInv, Stages, NoPlainUrl, PlainAlone, StallFails, AudioIsBest,
     GivesUpLast
<1> QED
  BY <1>9, <1>10

\* The audio of a level is a matching entry, and no earlier one matches.
LEMMA FirstAudio ==
    ASSUME ListsInv, HasAudio
    PROVE  /\ AudioIndex \in DOMAIN audios
           /\ AudioIndex \in AudioMatches(videos, level, audios)
           /\ \A k \in AudioMatches(videos, level, audios) : AudioIndex <= k
<1> DEFINE matches == AudioMatches(videos, level, audios)
<1>1. DOMAIN audios \subseteq Nat
  BY DEF ListsInv
<1>2. matches \subseteq DOMAIN audios /\ matches # {}
  BY DEF HasAudio, AudioMatches
<1> HIDE DEF matches
<1>3. matches \in SUBSET Nat
  BY <1>1, <1>2
<1>4. \E j \in matches : \A k \in matches : j <= k
  BY <1>2, <1>3, LeastElement
<1>5. AudioIndex = CHOOSE j \in matches : \A k \in matches : j <= k
  BY DEF AudioIndex, matches
<1>6. AudioIndex \in matches /\ \A k \in matches : AudioIndex <= k
  BY <1>4, <1>5
<1> QED
  BY <1>2, <1>6 DEF matches

LEMMA AudioBitrateType == ASSUME ListsInv, audio \in Nat PROVE AudioBitrate \in Nat
<1>1. CASE HasAudio
  <2>1. AudioIndex \in DOMAIN audios
    BY <1>1, FirstAudio
  <2>2. audios[AudioIndex] \in EntryType
    BY <2>1 DEF ListsInv
  <2> QED
    BY <1>1, <2>2 DEF AudioBitrate, EntryType
<1>2. CASE ~HasAudio
  BY <1>2 DEF AudioBitrate
<1> QED
  BY <1>1, <1>2

\* The next level is in its list; after the last one of the files the program exits.
LEMMA NextLevelKeeps ==
    ASSUME MainInv, NEW report \in Seq(Reported), NEW code \in ErrorCodes, NEW rate \in Nat,
           NextLevel(report, code, rate), stage \in {"adaptive", "plain"}, loop' = "idle",
           numofstreams' = numofstreams, UNCHANGED listVars,
           stage = "plain" /\ plains = <<>> => errorcode' \notin {"ERROR_STALL", "TOO_FAST"},
           stage = "plain" /\ errorcode' = "ERROR_STALL" => numofstreams = 1,
           StallFails'
    PROVE  ListsInv' /\ LevelInv'
<1> USE DEF MainInv
<1>1. UNCHANGED <<videos, audios, plains>>
  BY DEF listVars
<1>2. /\ plains \in Seq(EntryType) /\ level \in Nat \ {0} /\ lines \in Seq(Reported)
      /\ stage = "plain" /\ plains # <<>> => level \in DOMAIN plains
      /\ stage = "adaptive" /\ (videos = <<>> \/ audios = <<>>) => numofstreams = 0
  BY DEF ListsInv, LevelInv
<1>3. NoPlainUrl' /\ PlainAlone' /\ AudioIsBest'
  BY DEF NoPlainUrl, PlainAlone, AudioIsBest
<1>4. lines \o report \in Seq(Reported)
  BY <1>2
<1>5. CASE /\ MoreLevels
           /\ level' = level + 1 /\ lines' = lines \o report /\ audio' = rate
           /\ UNCHANGED <<stage, totalbytes>>
  <2>1. ListsInv'
    BY <1>5, ListsKept
  <2>2. stage' = "plain" => level' \in DOMAIN plains
    BY <1>5 DEF MoreLevels, List, IsUrlLeft
  <2>3. GivesUpLast'
    BY <1>5 DEF GivesUpLast
  <2>4. level' \in Nat \ {0}
    BY <1>2, <1>5
  <2>5. LevelInv'
    BY <1>1, <1>2, <1>3, <1>4, <1>5, <2>2, <2>3, <2>4 DEF LevelInv, Stages
  <2> QED
    BY <2>1, <2>5
<1>6. CASE /\ ~MoreLevels /\ stage = "adaptive"
           /\ stage' = "plain" /\ level' = 1 /\ lines' = lines \o report
           /\ audio' = 0 /\ totalbytes' = [totalbytes EXCEPT ![1] = 0]
  <2>1. ListsInv'
    BY <1>6, ListsKept
  <2>2. plains # <<>> => 1 \in DOMAIN plains
    BY <1>2
  <2>3. GivesUpLast'
    BY <1>6 DEF GivesUpLast
  <2>4. LevelInv'
    BY <1>1, <1>3, <1>4, <1>6, <2>2, <2>3 DEF LevelInv, Stages
  <2> QED
    BY <2>1, <2>4
<1>7. CASE /\ ~MoreLevels /\ stage = "plain"
           /\ stage' = "exit" /\ lines' = lines \o report \o ExitLine(code) /\ audio' = rate
           /\ UNCHANGED <<level, totalbytes>>
  <2>1. ListsInv'
    BY <1>7, ListsKept
  <2>2. lines' \in Seq(Reported)
    <3>1. ExitLine(code) \in Seq(Reported)
      BY DEF ExitLine, Reported
    <3> QED
      BY <1>4, <1>7, <3>1
  <2>3. GivesUpLast'
    <3>1. ~IsUrlLeft(plains, level + 1)
      BY <1>7 DEF MoreLevels, List
    <3>2. plains' = plains /\ level' = level
      BY <1>1, <1>7
    <3> QED
      BY <1>7, <3>1, <3>2 DEF GivesUpLast, IsUrlLeft
  <2>4. LevelInv'
    BY <1>2, <1>3, <1>7, <2>2, <2>3 DEF LevelInv, Stages
  <2> QED
    BY <2>1, <2>4
<1> QED
  BY <1>5, <1>6, <1>7 DEF NextLevel

LEMMA SkipLevelKeeps == MainInv /\ SkipLevel => ListsInv' /\ LevelInv'
<1> SUFFICES ASSUME MainInv, SkipLevel PROVE ListsInv' /\ LevelInv'
  OBVIOUS
<1>1. /\ NextLevel(<<>>, "0", AudioBitrate) /\ loop' = "idle" /\ errorcode' = "0"
      /\ stage \in {"adaptive", "plain"}
      /\ numofstreams' = numofstreams /\ UNCHANGED listVars
  BY DEF SkipLevel, CanChoose, Choosing, NewAttempt
<1>2. AudioBitrate \in Nat
  BY AudioBitrateType DEF MainInv, LevelInv
<1>3. <<>> \in Seq(Reported) /\ "0" \in ErrorCodes
  BY DEF ErrorCodes
<1>4. StallFails'
  BY <1>1 DEF StallFails
<1> QED
  BY <1>1, <1>2, <1>3, <1>4, NextLevelKeeps

\* The audio of an attempt is the first of its format, which is the best.
LEMMA BestAudio ==
    ASSUME ListsInv, HasAudio, videos # <<>>, LevelBitrate <= MaxBitrate
    PROVE  /\ videos[level].bitrate + AudioBitrate <= MaxBitrate
           /\ \E j \in DOMAIN audios :
                 /\ audios[j].bitrate = AudioBitrate
                 /\ audios[j].type.format = videos[level].type.format
           /\ (\A k \in DOMAIN audios : audios[k].url # "") =>
                 \A k \in DOMAIN audios :
                     audios[k].type.format = videos[level].type.format =>
                         audios[k].bitrate <= AudioBitrate
<1>1. stage = "adaptive" /\ AudioBitrate = audios[AudioIndex].bitrate
  BY DEF HasAudio, AudioBitrate
<1>2. videos[level].bitrate + AudioBitrate <= MaxBitrate
  BY <1>1 DEF LevelBitrate, Entry, List
<1>3. /\ AudioIndex \in DOMAIN audios
      /\ AudioIndex \in AudioMatches(videos, level, audios)
      /\ \A k \in AudioMatches(videos, level, audios) : AudioIndex <= k
  BY FirstAudio
<1>4. audios[AudioIndex].type.format = videos[level].type.format
  BY <1>3 DEF AudioMatches
<1>5. Descending(audios) /\ audios \in Seq(EntryType)
  BY <1>1 DEF ListsInv, ListsTellPage
<1>6. ASSUME \A k \in DOMAIN audios : audios[k].url # "",
             NEW k \in DOMAIN audios, audios[k].type.format = videos[level].type.format
      PROVE  audios[k].bitrate <= AudioBitrate
  <2>1. DOMAIN audios = 1..Len(audios) /\ Len(audios) \in Nat
    BY <1>5
  <2>2. ASSUME NEW l \in 2..k PROVE IsUrlLeft(audios, l)
    <3>1. l \in DOMAIN audios
      BY <2>1
    <3> QED
      BY <1>6, <3>1, Zenon DEF IsUrlLeft
  <2>3. AudioIndex <= k
    BY <1>3, <1>6, <2>2 DEF AudioMatches
  <2>4. audios[k].bitrate \in Nat /\ audios[AudioIndex].bitrate \in Nat
    <3>1. audios[k] \in EntryType /\ audios[AudioIndex] \in EntryType
      BY <1>3, <1>5
    <3> QED
      BY <3>1 DEF EntryType
  <2>5. CASE AudioIndex = k
    BY <1>1, <2>4, <2>5
  <2>6. CASE AudioIndex < k
    BY <1>1, <1>3, <1>5, <2>4, <2>6 DEF Descending
  <2> QED
    BY <1>3, <2>1, <2>3, <2>5, <2>6
<1> QED
  BY <1>1, <1>2, <1>3, <1>4, <1>6

LEMMA TryLevelKeeps == MainInv /\ TryLevel => ListsInv' /\ LevelInv'
<1> SUFFICES ASSUME MainInv, TryLevel PROVE ListsInv' /\ LevelInv'
  OBVIOUS
<1> USE DEF MainInv
<1>1. /\ stage \in {"adaptive", "plain"}
      /\ stage = "adaptive" => videos # <<>> /\ audios # <<>>
      /\ LevelBitrate <= MaxBitrate
      /\ audio' = AudioBitrate /\ UNCHANGED <<listVars, stage, level, lines>>
  BY DEF TryLevel, CanChoose, Choosing
<1>2. /\ numofstreams' = (IF HasAudio THEN 2 ELSE 1) /\ file' = Files
      /\ errorcode' = "0"
  BY DEF TryLevel, StartAttempt, NewAttempt
<1>3. UNCHANGED <<videos, audios, plains>>
  BY <1>1 DEF listVars
<1>4. ListsInv'
  BY <1>1, ListsKept
<1>5. audio' \in Nat
  BY <1>1, AudioBitrateType DEF LevelInv
<1>6. NoPlainUrl'
  <2> SUFFICES ASSUME stage = "plain", plains = <<>>
               PROVE  file' = [i \in Streams |-> NoFile]
    BY <1>1, <1>2, <1>3 DEF NoPlainUrl
  <2>1. Entry = EmptyEntry
    BY DEF Entry, List
  <2>2. FileOf(Entry, Streams) = NoFile
    BY <2>1 DEF FileOf, EmptyEntry, NoFile
  <2>3. Files = [i \in Streams |-> NoFile]
    BY <2>2 DEF Files
  <2> QED
    BY <1>2, <2>3
<1>7. AudioIsBest'
  <2>1. CASE HasAudio
    <3>1. ListsInv /\ videos # <<>>
      BY <1>1, <2>1 DEF HasAudio
    <3> HIDE DEF MainInv
    <3>2. /\ videos[level].bitrate + AudioBitrate <= MaxBitrate
          /\ \E j \in DOMAIN audios :
                /\ audios[j].bitrate = AudioBitrate
                /\ audios[j].type.format = videos[level].type.format
          /\ (\A k \in DOMAIN audios : audios[k].url # "") =>
                \A k \in DOMAIN audios :
                    audios[k].type.format = videos[level].type.format =>
                        audios[k].bitrate <= AudioBitrate
      BY <1>1, <2>1, <3>1, BestAudio
    <3> QED
      BY <1>1, <1>3, <3>2, Zenon DEF AudioIsBest
  <2>2. CASE ~HasAudio
    <3>1. numofstreams' # 2
      BY <1>2, <2>2
    <3> QED
      BY <3>1, Zenon DEF AudioIsBest
  <2> QED
    BY <2>1, <2>2
<1>8. GivesUpLast'
  BY <1>1 DEF GivesUpLast
<1>9. PlainAlone' /\ StallFails'
  BY <1>1, <1>2 DEF PlainAlone, StallFails, HasAudio
<1>10. LevelInv'
  BY <1>1, <1>3, <1>5, <1>6, <1>7, <1>8, <1>9 DEF LevelInv
<1> QED
  BY <1>4, <1>10

LEMMA JudgeAttemptKeeps == MainInv /\ JudgeAttempt => ListsInv' /\ LevelInv'
<1> SUFFICES ASSUME MainInv, JudgeAttempt PROVE ListsInv' /\ LevelInv'
  OBVIOUS
<1> USE DEF MainInv
<1>1. /\ loop = "done" /\ loop' = "idle" /\ stage # "exit"
      /\ UNCHANGED <<metric, numofstreams, listVars>>
      /\ \/ UNCHANGED errorcode
         \/ errorcode = "ITWORKED" /\ errorcode' = "TOO_FAST"
      /\ StallFails /\ StallFails' /\ PlainAlone
  BY DEF JudgeAttempt, StallFails, LevelInv
<1>2. stage \in {"adaptive", "plain"}
  BY <1>1 DEF TcpInv, PageFirst, LevelInv, Stages
<1>3. errorcode' \in ErrorCodes
  BY <1>1 DEF TcpInv, IInv, ErrorCodes
<1>4. CASE Retries(errorcode') /\ NextLevel(<<errorcode'>>, errorcode', audio)
  <2>1. errorcode' \in {"ERROR_STALL", "TOO_FAST"}
    BY <1>4 DEF Retries
  <2>2. <<errorcode'>> \in Seq(Reported)
    BY <2>1 DEF Reported, ErrorCodes
  <2>3. stage = "plain" /\ plains = <<>> => errorcode' \notin {"ERROR_STALL", "TOO_FAST"}
    <3> SUFFICES ASSUME stage = "plain", plains = <<>>
                 PROVE  errorcode' \notin {"ERROR_STALL", "TOO_FAST"}
      OBVIOUS
    <3>1. /\ numofstreams = 1 /\ file = [i \in Streams |-> NoFile]
          /\ errorcode \notin {"ERROR_STALL", "TOO_FAST"}
      BY <1>1 DEF LevelInv, NoPlainUrl, PlainAlone
    <3>2. 0 \in Indices /\ 0 \in Unranged
      BY <3>1 DEF Indices, Unranged, NoFile, Streams
    <3>3. errorcode # "ITWORKED"
      BY <1>1, <3>2, WorkedAttempt
    <3> QED
      BY <1>1, <3>1, <3>3
  <2>4. audio \in Nat
    BY DEF LevelInv
  <2>5. stage = "plain" => numofstreams = 1
    BY <1>1 DEF PlainAlone
  <2> QED
    BY <1>1, <1>2, <1>3, <1>4, <2>2, <2>3, <2>4, <2>5, NextLevelKeeps
<1>5. CASE ~Retries(errorcode') /\ ExitWith(errorcode') /\ UNCHANGED <<level, audio, totalbytes>>
  <2>1. stage' = "exit" /\ lines' \in Seq(Reported)
    BY <1>3, <1>5, ExitLineType DEF ExitWith, LevelInv
  <2>2. ListsInv'
    BY <1>1, <2>1, ListsKept
  <2>3. GivesUpLast'
    BY <1>1, <1>5 DEF GivesUpLast, Retries, StallFails
  <2>4. LevelInv'
    BY <1>1, <1>5, <2>1, <2>3 DEF LevelInv, Stages, NoPlainUrl, PlainAlone, AudioIsBest
  <2> QED
    BY <2>2, <2>4
<1> QED
  BY <1>4, <1>5 DEF JudgeAttempt

LEMMA MainInit == Init => ListsInv /\ LevelInv
<1> SUFFICES ASSUME Init PROVE ListsInv /\ LevelInv
  OBVIOUS
<1>1. /\ page \in Pages /\ videos = <<>> /\ audios = <<>> /\ plains = <<>>
      /\ stage = "page" /\ level = 1 /\ audio = 0 /\ lines = <<>>
      /\ loop = "idle" /\ numofstreams = 0 /\ errorcode = "0"
  BY DEF Init, LoopInit, PlayoutInit
<1>2. ListsInv
  BY <1>1 DEF ListsInv, ListsTellPage
<1>3. LevelInv
  BY <1>1 DEF LevelInv, Stages, NoPlainUrl, PlainAlone, StallFails, AudioIsBest,
     GivesUpLast
<1> QED
  BY <1>2, <1>3

LEMMA MainStepKeeps ==
    ASSUME MainInv, MainRuns \/ PageFails \/ HeadFails \/ Signal
    PROVE  ListsInv' /\ LevelInv'
<1>1. ASSUME NEW code \in ErrorCodes \ {"ERROR_STALL", "TOO_FAST"}, NoMedia(code)
      PROVE  ListsInv' /\ LevelInv'
  BY <1>1, ExitKeeps DEF NoMedia, loopVars
<1>2. CASE Signal
  BY <1>2, ExitKeeps DEF Signal, loopVars, ErrorCodes
<1>3. CASE PageFails \/ Unmeasurable \/ HeadFails
  BY <1>1, <1>3 DEF PageFails, Unmeasurable, HeadFails, ErrorCodes
<1>4. CASE ParserExits
  <2>1. errorcode \in ErrorCodes
    BY DEF MainInv, TcpInv, IInv
  <2> QED
    BY <1>4, <2>1, ExitKeeps DEF ParserExits, loopVars, playoutVars
<1>5. CASE ReadPageDies \/ MeasureDies
  <2>1. MainDies /\ loop = "idle" /\ stage \in {"page", "measure"}
    BY <1>5 DEF ReadPageDies, MeasureDies, In, MainInv, TcpInv, PageFirst
  <2> QED
    BY <2>1, MainDiesKeeps
<1>6. CASE NoAdaptiveUrl
  BY <1>6, MainDiesKeeps DEF NoAdaptiveUrl, Choosing
<1> QED
  BY <1>2, <1>3, <1>4, <1>5, <1>6, ReadPageKeeps, MeasureKeeps, SkipLevelKeeps,
     TryLevelKeeps, JudgeAttemptKeeps DEF MainRuns

LEMMA MainInvariant == Spec => []MainInv
<1>1. Init => MainInv
  BY TcpInit, MainInit DEF MainInv
<1>2. MainInv /\ [Next]_vars => MainInv'
  <2> SUFFICES ASSUME MainInv, [Next]_vars PROVE MainInv'
    OBVIOUS
  <2>1. TcpInv'
    BY TcpNext DEF MainInv
  <2>2. CASE Downloading /\ (LoopRuns \/ LoopSuffers) /\ UNCHANGED mainVars
    BY <2>1, <2>2, LoopKeepsMain DEF MainInv
  <2>3. CASE MainRuns \/ PageFails \/ HeadFails \/ Signal
    BY <2>1, <2>3, MainStepKeeps DEF MainInv
  <2>4. CASE UNCHANGED vars
    <3>1. UNCHANGED <<listVars, stage, level, audio, lines, loop, numofstreams, file, errorcode, metric>>
      BY <2>4 DEF vars, mainVars, loopVars, playoutVars
    <3>2. UNCHANGED <<page, videos, audios, plains>>
      BY <3>1 DEF listVars
    <3>3. ListsInv'
      BY <3>1, ListsKept DEF MainInv
    <3>4. AudioIsBest' /\ GivesUpLast' /\ NoPlainUrl' /\ PlainAlone' /\ StallFails'
      BY <3>1, <3>2 DEF MainInv, LevelInv, AudioIsBest, GivesUpLast, NoPlainUrl, PlainAlone,
         StallFails
    <3>5. LevelInv'
      BY <3>1, <3>2, <3>4 DEF MainInv, LevelInv
    <3> QED
      BY <2>1, <3>3, <3>5 DEF MainInv
  <2> QED
    BY <2>2, <2>3, <2>4 DEF Next, PlayerRuns, Finished
<1> QED
  BY <1>1, <1>2, PTL DEF Spec
-----------------------------------------------------------------------------
(* The theorems. *)

\* downloadfiles and main move the playout only in the ways of Playout: the measurements
\* of a download over TCP are those of a playout.
THEOREM TcpImplementsPlayout == Spec => ImplementsPlayout
<1>1. TcpInv /\ [Next]_vars => TcpInv' /\ [PlayoutNext]_playoutVars
  BY TcpNext
<1>2. Init => PlayoutInit /\ TcpInv
  BY TcpInit
<1> QED
  BY <1>1, <1>2, PTL DEF Spec, PlayoutSpec, ImplementsPlayout

\* The stalls that youtube_tcp_test reports account for the time of every attempt.
THEOREM TcpStallsAccounted == Spec => []StallAccounting
BY TcpImplementsPlayout, StallsAccounted DEF ImplementsPlayout

\* The ranges that load_streams asks for continue each other, for any bitrates and chunk
\* sizes and whatever the state of the buffer: only a failed transfer leaves a gap.
THEOREM RangesContinue == Spec => []TornOnlyByFailure
<1>1. TcpInv => TornOnlyByFailure
  BY DEF TcpInv, LoopInv, TransferInv
<1> QED
  BY <1>1, TcpInvariant, PTL

\* process_running stops a stream that did not fail only at the end of its file: what
\* worked is complete.
THEOREM WorkedIsComplete == Spec => []WorkedMeansComplete
<1>1. TcpInv => WorkedMeansComplete
  <2> SUFFICES ASSUME TcpInv, loop = "done", errorcode = "ITWORKED",
                      NEW i \in Indices, i \notin failed
               PROVE  received[i] = FileSize(i)
    BY DEF WorkedMeansComplete
  <2>1. StreamInv(i) /\ ~Moving(i) /\ ~Playing(i) /\ i \notin Unranged
    BY WorkedAttempt
  <2> QED
    BY <2>1 DEF StreamInv, Whole
<1> QED
  BY <1>1, TcpInvariant, PTL

\* update_curl_progress adds every byte of an attempt that worked to the totals once,
\* whatever number of transfers brought it, although my_curl_cleanup counts what still plays
\* again.
THEOREM WorkedIsCounted == Spec => []AddedExact
<1>1. TcpInv => AddedExact
  <2> SUFFICES ASSUME TcpInv, loop = "done", errorcode = "ITWORKED",
                      NEW i \in Indices, i \notin torn
               PROVE  totalbytes[i] - before[i] = received[i]
    BY DEF AddedExact
  <2>1. Fed(i) /\ ~Moving(i) /\ i \in Streams
    BY WorkedAttempt, IndicesAreStreams DEF StreamInv
  <2>2. totalbytes[i] = before[i] + received[i] - 0
    BY <2>1 DEF Fed
  <2>3. before[i] \in Nat /\ received[i] \in Nat
    BY <2>1 DEF TcpInv, LoopInv, LoopType
  <2> QED
    BY <2>2, <2>3
<1> QED
  BY <1>1, TcpInvariant, PTL

\* No index of a list, no error code and no exit line leaves its domain: an attempt without a
\* plain url, or without an audio of its format, included.
THEOREM TcpPlayerTypeCorrect == Spec => []TypeOK
<1>1. MainInv => TypeOK
  <2> SUFFICES ASSUME MainInv PROVE TypeOK
    OBVIOUS
  <2>1. PlayoutTypeOK
    BY InvariantImplies DEF MainInv, TcpInv
  <2> QED
    BY <2>1 DEF MainInv, TcpInv, LoopInv, LoopType, ListsInv, LevelInv, Reported, TypeOK
<1> QED
  BY <1>1, MainInvariant, PTL

\* extract_media_urls keeps every piece of a page that is not cut off, with what it says,
\* whatever the pieces are and in whatever order; sorting loses none.
THEOREM ListsAreThePage == Spec => []ListsTellPage
<1>1. MainInv => ListsTellPage
  BY DEF MainInv, ListsInv
<1> QED
  BY <1>1, MainInvariant, PTL

\* process_adaptive takes the first audio of the format of the video, which is the one with
\* the highest bitrate, and respects --maxbitrate with the two together.
THEOREM AudioOfLevelIsBest == Spec => []AudioIsBest
<1>1. MainInv => AudioIsBest
  BY DEF MainInv, LevelInv
<1> QED
  BY <1>1, MainInvariant, PTL

\* A stall is the result of the program only at the last file: in every other attempt it is
\* ignored, or the next level is tried.
THEOREM OnlyLastGivesUp == Spec => []GivesUpLast
<1>1. MainInv => GivesUpLast
  BY DEF MainInv, LevelInv
<1> QED
  BY <1>1, MainInvariant, PTL

\* While the video plays, no stream is downloaded further ahead of the playout than the
\* buffer of the arguments and one chunk, whichever chunk sizes load_streams asked for,
\* and whatever transfers failed, tore a stream or ended early.
THEOREM TcpBufferIsBounded ==
    ASSUME ChunksFillBuffers, TracksEndTogether
    PROVE  Spec => []BufferBounded
<1>1. Init => TcpInv /\ BufferInv
  BY TcpInit, BufferStarts
<1>2. TcpInv /\ BufferInv /\ [Next]_vars => TcpInv' /\ BufferInv'
  BY TcpNext, BufferNext
<1>3. BufferInv => BufferBounded
  BY DEF BufferInv
<1> QED
  BY <1>1, <1>2, <1>3, PTL DEF Spec
=============================================================================
