---------------------------- MODULE MCYoutubeTest ----------------------------
(* Instances of main of youtube_test for TLC.                              *)
EXTENDS YoutubeTest, TLC

CONSTANTS VideoLength, AudioLength

MCLength == (0 :> VideoLength) @@ (1 :> AudioLength)

\* The site knows nothing of the size of "z".
MCFileSizes == ("p" :> 12) @@ ("q" :> 3) @@ ("z" :> 0)

Type(kind, format) == [kind |-> kind, format |-> format]
MCPiece(type, bitrate, u) == [itag |-> TRUE, type |-> type, bitrate |-> bitrate, url |-> u]
Plain(u) == MCPiece(Type("video", "mp4"), NoBitrate, u)
Video(format, bitrate, u) == MCPiece(Type("video", format), bitrate, u)
Audio(format, bitrate, u) == MCPiece(Type("audio", format), bitrate, u)

MCPage(duration, plains, adaptives) ==
    [duration |-> duration, plain |-> plains, adaptive |-> adaptives]

\* Two levels of three below the limit; the files in the wrong order.
Levels == <<Audio("mp4", 1, "a1"), Video("mp4", 1, "v1"), Video("mp4", 4, "v4"),
            Video("mp4", 2, "v2")>>
Files == <<Plain("q"), Plain("p")>>
OnePair(bitrate, u) == <<Video("mp4", bitrate, u), Audio("mp4", 1, "a1")>>

\* The better audio goes with the lower video, which is above the limit then.
Crossed == <<Video("webm", 1, "v1"), Video("mp4", 2, "v2"), Audio("webm", 3, "a3"),
             Audio("mp4", 1, "a1")>>

MCPages ==
    {MCPage(3, Files, Levels),
     MCPage(3, <<>>, Levels),
     MCPage(3, Files, OnePair(1, "v1")),
     MCPage(3, <<Plain("p")>>, OnePair(4, "v4")),
     MCPage(3, <<Plain("q")>>, Crossed),
     MCPage(3, <<Plain("q")>>, <<Video("mp4", 1, "v1")>>),
     MCPage(-1, <<Plain("q")>>, <<>>),
     MCPage(0, <<Plain("q")>>, <<>>),
     MCPage(3, <<Plain("q"), Plain("z")>>, <<>>),
     MCPage(3, <<Plain("none")>>, <<>>),
     MCPage(3, <<Plain("bare")>>, <<>>)}

MCAdaptive == {<<>>, <<5, 3, 2>>, <<3, 4>>, <<5>>, <<2>>}
MCPlain == {<<>>, <<4>>, <<4, 1>>, <<1>>}

\* IPv4 only, both versions, and a tunnel without an address that is read or not.
MCHosts == {<<"packet", "loopback", "inet">>, <<"loopback", "inet", "inet6">>,
            <<"loopback", "null">>, <<"inet", "multicast6", "null">>}
=============================================================================
