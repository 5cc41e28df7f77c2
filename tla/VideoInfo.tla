------------------------------ MODULE VideoInfo ------------------------------
(***************************************************************************)
(* The lists of media urls that getinfo.c reads from the page of a video:  *)
(* the text of a list is split at its commas, each piece fills one entry,  *)
(* the entries are given bitrates and sorted.                              *)
(*                                                                         *)
(* A page is abstracted to what the regular expressions find in it.        *)
(***************************************************************************)
EXTENDS Integers, Sequences, FiniteSets, Functions

CONSTANTS
    FileSizes   \* what a HEAD request tells of a url of a single file

\* A piece without "type=", and one without "bitrate=".
NoType == [kind |-> "none", format |-> "none"]
NoBitrate == -1

PieceType == [kind : {"video", "audio"}, format : STRING] \cup {NoType}
Piece == [itag : BOOLEAN, type : PieceType, bitrate : Nat \cup {NoBitrate}, url : STRING]

\* The url of a piece: "none" without "url="; "cut" with nothing behind it; "bare"
\* when it holds no encoded symbol; a name otherwise.
NoUrls == {"none", "cut", "bare"}

\* An entry of a list that memzero cleared.
EntryType == [type : PieceType, bitrate : Nat, url : STRING \cup {""}]
EmptyEntry == [type |-> NoType, bitrate |-> 0, url |-> ""]

Descending(list) ==
    \A i, j \in DOMAIN list : i < j => list[i].bitrate >= list[j].bitrate
-----------------------------------------------------------------------------
(* split_urls *)

\* What a piece with an itag writes into the entry that comes next: a field that the
\* piece does not have keeps what an earlier piece left there.
Fill(slot, piece, adaptive) ==
    [type    |-> IF piece.type = NoType THEN slot.type ELSE piece.type,
     bitrate |-> IF adaptive /\ piece.bitrate # NoBitrate THEN piece.bitrate
                 ELSE slot.bitrate,
     url     |-> IF piece.url \in NoUrls THEN slot.url ELSE piece.url]

\* Mutation of Rejected: a piece without "url=" is rejected too.
RejectedWithoutUrl(piece) == piece.url \in {"none", "cut"}

\* copy_to_videourl is false.
Rejected(piece) == piece.url = "cut"

\* One pass of the loop: a piece without itag is skipped, a rejected one has been
\* written all the same.
SplitPiece(split, piece, adaptive) ==
    IF ~piece.itag THEN split
    ELSE IF Rejected(piece)
         THEN [split EXCEPT !.slot = Fill(split.slot, piece, adaptive)]
         ELSE [list |-> Append(split.list, Fill(split.slot, piece, adaptive)),
               slot |-> EmptyEntry]

\* The list and its next entry after each number of passes.
SplitPasses(pieces, adaptive) ==
    LET split[i \in 0..Len(pieces)] ==
            IF i = 0 THEN [list |-> <<>>, slot |-> EmptyEntry]
            ELSE SplitPiece(split[i - 1], pieces[i], adaptive)
    IN  split

SplitUrls(pieces, adaptive) == SplitPasses(pieces, adaptive)[Len(pieces)].list

\* replace_html_codes frees what it was given when nothing had to be replaced, and
\* that was never allocated.
FreesForeign(pieces) == \E i \in DOMAIN pieces : pieces[i].itag /\ pieces[i].url = "bare"
-----------------------------------------------------------------------------
(* findformat *)

\* The entries of list that are copied to the list of this kind.
OfKind(list, kind) == {i \in DOMAIN list : list[i].type.kind = kind}

\* The results of qsort by compar_bitrate for the chosen entries of list: the order of equal
\* bitrates is free.
Sorted(list, chosen) ==
    LET places == 1..Cardinality(chosen)
    IN  {s \in {[k \in places |-> list[order[k]]] : order \in Bijection(places, chosen)} :
            Descending(s)}

\* getbitrate of every url succeeds: the HEAD requests are answered, and the page
\* told a duration.
Measurable(list, duration) ==
    list # <<>> => /\ duration > 0
                   /\ \A i \in DOMAIN list : list[i].url # "" /\ FileSizes[list[i].url] > 0

\* The bitrate of a file is its size over the duration.
Measured(list, duration) ==
    [i \in DOMAIN list |->
        [list[i] EXCEPT !.bitrate = FileSizes[list[i].url] \div duration]]

\* The duration is zero where the first size is divided by it.
DividesByZero(list, duration) ==
    duration = 0 /\ list # <<>> /\ list[1].url # "" /\ FileSizes[list[1].url] > 0
-----------------------------------------------------------------------------
(* The lists in use. *)

\* is_url_left: an empty url ends the list.
IsUrlLeft(list, i) == i \in DOMAIN list /\ list[i].url # ""

\* Mutation of AudioMatches: any audio matches.
AudioMatchesAny(videos, i, audios) ==
    {j \in DOMAIN audios : \A k \in 2..j : IsUrlLeft(audios, k)}

\* The audio entries that process_adaptive reaches and that have the format of the
\* video entry; the first is compared even if its url is empty.
AudioMatches(videos, i, audios) ==
    {j \in DOMAIN audios : /\ \A k \in 2..j : IsUrlLeft(audios, k)
                           /\ audios[j].type.format = videos[i].type.format}
-----------------------------------------------------------------------------
(* What the lists are to tell of the page. *)

\* The pieces that become entries: those with an itag that are not cut off.
KeptPieces(pieces) ==
    {i \in DOMAIN pieces : pieces[i].itag /\ pieces[i].url # "cut"}

\* The cut off pieces between piece i and the one kept before it.
CutBefore(pieces, i) ==
    {j \in 1..(i - 1) : /\ pieces[j].itag /\ pieces[j].url = "cut"
                       /\ \A k \in j..(i - 1) : k \notin KeptPieces(pieces)}

\* Entry has the url of the piece i of pieces, and its type where it has one.  Any other
\* type is that of a cut off piece right before it.
Names(pieces, i, entry) ==
    /\ entry.url = (IF pieces[i].url = "none" THEN "" ELSE pieces[i].url)
    /\ pieces[i].type # NoType => entry.type = pieces[i].type
    /\ \/ entry.type \in {NoType, pieces[i].type}
       \/ \E j \in CutBefore(pieces, i) : entry.type = pieces[j].type

\* An adaptive entry has its bitrate from the piece, or in the same way.
Says(pieces, i, entry) ==
    /\ Names(pieces, i, entry)
    /\ pieces[i].bitrate # NoBitrate => entry.bitrate = pieces[i].bitrate
    /\ \/ entry.bitrate \in {0, pieces[i].bitrate}
       \/ \E j \in CutBefore(pieces, i) : entry.bitrate = pieces[j].bitrate

\* The entry of a file has the bitrate that its size makes.
SaysFile(pieces, duration, i, entry) ==
    /\ Names(pieces, i, entry)
    /\ entry.bitrate = FileSizes[entry.url] \div duration
=============================================================================
