----------------------------- MODULE MCTcpPlayer -----------------------------
(* Instances of the TCP player for TLC.                                    *)
EXTENDS TcpPlayer, TLC

CONSTANTS VideoLength, AudioLength

MCLength == (0 :> VideoLength) @@ (1 :> AudioLength)

MCFileSizes == ("p" :> 9) @@ ("q" :> 3) @@ ("r" :> 12)

Type(kind, format) == [kind |-> kind, format |-> format]
MCPiece(type, bitrate, u) == [itag |-> TRUE, type |-> type, bitrate |-> bitrate, url |-> u]
Plain(u) == MCPiece(Type("video", "mp4"), NoBitrate, u)
Video(format, bitrate, u) == MCPiece(Type("video", format), bitrate, u)
Audio(format, bitrate, u) == MCPiece(Type("audio", format), bitrate, u)

MCPage(duration, plain, adaptive) ==
    [duration |-> duration, plain |-> plain, adaptive |-> adaptive]

\* Two formats, a level above the limit, a piece without itag, a cut off one whose type
\* stays, one without a type; two plain files in the wrong order, with a cut off one.
Rich == MCPage(3, <<Plain("q"), MCPiece(Type("video", "webm"), 7, "cut"),
                    MCPiece(NoType, NoBitrate, "p")>>,
               <<Audio("webm", 1, "a1"), Video("mp4", 1, "v1"),
                 [Video("mp4", 5, "x") EXCEPT !.itag = FALSE],
                 Audio("mp4", 1, "cut"), MCPiece(NoType, NoBitrate, "a2"),
                 Video("webm", 2, "v2"), Audio("webm", 2, "a3"), Video("mp4", 4, "v4")>>)

\* Video without an audio of its format, behind one above the limit; the same of the files.
Mixed == MCPage(3, <<Plain("q"), Plain("r")>>,
                <<Video("mp4", 4, "v4"), Video("webm", 1, "v1"), Audio("mp4", 1, "a1")>>)

\* An entry without url ends the lists; at the level before it a stall is ignored.
Holes == MCPage(3, <<Plain("q")>>,
                <<Video("mp4", 2, "v2"), Video("mp4", 1, "v1"), Video("mp4", 0, "none"),
                  Audio("webm", 1, "none"), Audio("mp4", 1, "a1")>>)

MCPages ==
    {Rich, Mixed, Holes,
     MCPage(3, <<Plain("q")>>, <<Video("mp4", 1, "v1")>>),
     MCPage(-1, <<Plain("q")>>, <<>>),
     MCPage(0, <<Plain("q")>>, <<>>),
     MCPage(3, <<Plain("none")>>, <<>>),
     MCPage(3, <<Plain("bare")>>, <<>>)}

\* One level of each kind.
MCShortPages == {MCPage(3, <<Plain("q")>>, <<Video("mp4", 1, "v1"), Audio("mp4", 1, "a1")>>)}

\* Every level is above the limit, and no plain file is left.
MCEndlessPages == {MCPage(3, <<>>, <<Video("mp4", 9, "v9"), Audio("mp4", 1, "a1")>>)}
=============================================================================
