----------------------------- MODULE HeaderReader -----------------------------
(***************************************************************************)
(* How quic_probe reads one answer: connection_read_handler.c collects the *)
(* header in temp_buffer until its end sequence, reads the status from it  *)
(* (html_header_parser.c), and hands what follows to the buffer of the     *)
(* request and to its on_write.                                            *)
(*                                                                         *)
(* QuicEngine knows of a read only how it ends; this module shows which of *)
(* those ends the bytes of an answer lead to, in whatever portions lsquic  *)
(* gives them out.  A byte is a token: "status" is one of the status line  *)
(* before its code, "digit" one of the code; a header field is one token.  *)
(***************************************************************************)
EXTENDS Integers, Sequences

CONSTANTS
    Responses,         \* what a peer may send: header, code, body
    Requests,          \* what the caller may ask for, see Request
    MaxHttpHeaderSize, \* MAX_HTTP_HEADER_SIZE, the size of temp_buffer
    HeaderHeap,        \* HEADER_HEAP
    StatusSize,        \* what of the status line is before its code
    Faults             \* what the peer and the network may do wrong

\* data_ref is NULL.
NoBuffer == 0

Request == [allocated_size : Nat, max_write_size : Nat \ {0}, header_only : BOOLEAN]
\* length is what the field "content-length" says, if the header has it.
Response == [header : Seq(STRING), code : 100..599, length : Nat, body : Seq(STRING)]

\* The digits of a code.
CodeSize == 3

EndHeader == <<"\r", "\n", "\r", "\n">>
EndHeaderSize == Len(EndHeader)

\* The end sequence is at the end of a header and nowhere before.
EndsAt(text, p) == p >= EndHeaderSize /\ SubSeq(text, p - EndHeaderSize + 1, p) = EndHeader

ASSUME HeaderReaderAssumption ==
    /\ Requests \subseteq Request /\ Responses \subseteq Response
    /\ \A response \in Responses :
          /\ Len(response.header) >= StatusSize + CodeSize + EndHeaderSize
          /\ \A p \in 1..(StatusSize + CodeSize) :
                response.header[p] = IF p <= StatusSize THEN "status" ELSE "digit"
          /\ \A p \in 1..Len(response.header) :
                EndsAt(response.header, p) <=> p = Len(response.header)
    /\ \A request \in Requests : request.header_only => request.allocated_size = NoBuffer
    /\ MaxHttpHeaderSize \in Nat \ {0} /\ HeaderHeap \in Nat \ {0} /\ StatusSize \in Nat \ {0}
    /\ Faults \subseteq {"earlyFin", "reset"}

VARIABLES
    response,         \* the answer of the peer
    request,          \* data_pointer->request_args
    arrived,          \* bytes of the answer that lsquic has
    fin,              \* the peer ended the stream after them
    taken,            \* bytes that lsquic_stream_read gave out
    place,            \* "wait", "reading": outside and inside of http_client_on_read;
                      \* "overrun", "crashed": undefined behaviour
    used_temp_buffer,
    header_info,      \* header_info_ref, or NoInfo
    buffer_left,
    data_pointer,     \* it is not NULL
    closed,           \* lsquic_stream_close was called
    posted,           \* what was put on the output stack, or back into the request queue
    out,              \* history: the bytes written for the caller
    split             \* history: the header came in more than one read

peerVars == <<response, request, arrived, fin>>
vars == <<peerVars, taken, place, used_temp_buffer, header_info, buffer_left,
          data_pointer, closed, posted, out, split>>

NoInfo == [response_code |-> -1, redirect |-> FALSE, content_length |-> 0]

Sent == response.header \o response.body

\* prepare_stream_output, http_client_on_new_stream
Init ==
    /\ response \in Responses /\ request \in Requests
    /\ request.header_only => response.body = <<>>  \* the method is HEAD
    /\ arrived = 0 /\ fin = FALSE /\ taken = 0
    /\ place = "wait"
    /\ used_temp_buffer = 0 /\ header_info = NoInfo
    /\ buffer_left = request.allocated_size
    /\ data_pointer = TRUE /\ closed = FALSE
    /\ posted = <<>> /\ out = <<>> /\ split = FALSE
-----------------------------------------------------------------------------
(* The peer and lsquic. *)

\* A part of the answer arrives, with or without the end of the stream.
Arrive ==
    /\ place = "wait" /\ ~fin /\ ~closed
    /\ arrived' \in arrived..Len(Sent)
    /\ fin' \in BOOLEAN
    /\ arrived' > arrived \/ fin'
    /\ fin' => arrived' = Len(Sent) \/ "earlyFin" \in Faults
    /\ UNCHANGED <<response, request, taken, place, used_temp_buffer, header_info,
                   buffer_left, data_pointer, closed, posted, out, split>>

Available == arrived - taken

\* What lsquic_stream_read gives out of a stream that has bytes.
Least(a, b) == IF a < b THEN a ELSE b
ReadLen(size) == Least(Available, size)

\* http_client_on_read is called, and has somewhere to put the data.
OnRead ==
    /\ place = "wait" /\ ~closed /\ data_pointer
    /\ Available > 0 \/ fin \/ "reset" \in Faults
    /\ place' = "reading"
    /\ UNCHANGED <<peerVars, taken, used_temp_buffer, header_info, buffer_left,
                   data_pointer, closed, posted, out, split>>
-----------------------------------------------------------------------------
(* report_stream_error, process_finished_stream *)

\* data_pointer goes to its reader with this code and size.
Post(code, size) ==
    /\ posted' = Append(posted, [code |-> code, size |-> size])
    /\ data_pointer' = FALSE

Stays == UNCHANGED <<posted, data_pointer, closed>>

\* read_data returned -1 without lsquic: errno is of an earlier call.  EWOULDBLOCK
\* ends the callback; any other is reported, with a data_pointer that is NULL.
GivesUp == place' \in {"wait", "crashed"}

\* Mutation of Success: 200 is taken for the bound.
SuccessAbove200(code) == code \in 201..299

Success(code) == code \in 200..299

\* What process_finished_stream makes of the header; data_size is the size of the body
\* unless only the header was asked for.
Finish(info, bytes) ==
    /\ closed' = TRUE
    /\ IF info = NoInfo \/ ~data_pointer
       THEN place' = "crashed" /\ UNCHANGED <<posted, data_pointer>>
       ELSE /\ place' = "wait"
            /\ Post(IF Success(info.response_code) THEN "OK"
                    ELSE IF info.redirect THEN "redirect" ELSE "BAD_RESPONSE",
                    IF request.header_only THEN info.content_length ELSE Len(bytes))

\* Mutation of HasEndCode: every code ends the loop.
HasEndCodeAny(info) == info # NoInfo

\* A code that ends the loop of http_client_on_read, whatever is still to be read.
HasEndCode(info) == info # NoInfo /\ info.response_code \notin {0, 200}
-----------------------------------------------------------------------------
(* on_read_to_buffer *)

\* These bytes of the answer are written for the caller.
Write(bytes) ==
    /\ out' = out \o bytes
    /\ buffer_left' = IF request.allocated_size = NoBuffer THEN buffer_left
                      ELSE buffer_left - Len(bytes)

\* The buffer is full: that is an overflow, even if the body ends here.
Fills(bytes) == request.allocated_size # NoBuffer /\ Len(bytes) = buffer_left

\* memcpy of a remainder that is longer than the buffer.
Overruns(bytes) == request.allocated_size # NoBuffer /\ Len(bytes) > buffer_left
-----------------------------------------------------------------------------
(* check_end_sequence, get_response_header *)

\* What the search in data finds with seq bytes behind start that are the first of the end
\* sequence: the position behind that, or 0.  After a mismatch it begins again at the byte
\* that follows start.
EndSearch(data) ==
    LET search[at \in (0..Len(data)) \X (0..(EndHeaderSize - 1))] ==
            LET start == at[1]
                seq   == at[2]
            IN  IF start + seq >= Len(data) THEN 0
                ELSE IF data[start + seq + 1] # EndHeader[seq + 1] THEN search[<<start + 1, 0>>]
                ELSE IF seq + 1 = EndHeaderSize THEN start + EndHeaderSize
                ELSE search[<<start, seq + 1>>]
    IN  search

CheckEndSequence(data) == EndSearch(data)[<<0, 0>>]

\* The field is in the first size bytes of temp_buffer, and something follows it.
Seen(field, size) ==
    \E p \in 1..(Least(HeaderHeap, size) - 1) : response.header[p] = field

\* The code as far as its digits are in the first size bytes, if there is one.
CodeDigits(size) == Least(size - StatusSize, CodeSize)

Code(size) ==
    CASE CodeDigits(size) <= 0 -> -1
      [] CodeDigits(size) = 1  -> response.code \div 100
      [] CodeDigits(size) = 2  -> response.code \div 10
      [] OTHER                 -> response.code

\* get_response_header of the first size bytes: NoInfo when it redirects nowhere.
GetResponseHeader(size) ==
    LET redirects == Code(size) \in 300..399
    IN  IF redirects /\ ~Seen("location", size) THEN NoInfo
        ELSE [response_code  |-> Code(size), redirect |-> redirects,
              content_length |-> IF request.header_only /\ Seen("content-length", size)
                                 THEN response.length ELSE 0]
-----------------------------------------------------------------------------
(* read_header *)

Reading == place = "reading"
InHeader == Reading /\ header_info = NoInfo

HeaderTooLong ==
    /\ InHeader /\ used_temp_buffer >= MaxHttpHeaderSize
    /\ Post("BUFFER_OVERFLOW", 0) /\ closed' = TRUE
    /\ GivesUp
    /\ UNCHANGED <<peerVars, taken, used_temp_buffer, header_info, buffer_left, out, split>>

\* Mutation of SearchedFrom: only the new bytes are searched.
SearchedFromNew == used_temp_buffer

\* prev_header_size - possible_offset: the search begins a few bytes before the new ones.
SearchedFrom == used_temp_buffer - Least(EndHeaderSize, used_temp_buffer)

\* temp_buffer after a read of n bytes.
Filled(n) == SubSeq(Sent, 1, used_temp_buffer + n)

\* header_len: counted from where the search began.
HeaderLen(n) == CheckEndSequence(SubSeq(Filled(n), SearchedFrom + 1, used_temp_buffer + n))

\* Mutation of DataStart: header_len is taken for the length of the header.
DataStartOfLength(n) == HeaderLen(n)

\* Where copy_header_remainder_to_buffer begins.
DataStart(n) == SearchedFrom + HeaderLen(n)

Remainder(n) == IF request.header_only THEN <<>>
                ELSE SubSeq(Filled(n), DataStart(n) + 1, used_temp_buffer + n)

\* The bytes that the next read of the header gets.
HeaderBytes == ReadLen(Least(MaxHttpHeaderSize - used_temp_buffer, request.max_write_size))

ReadsHeader ==
    /\ InHeader /\ used_temp_buffer < MaxHttpHeaderSize /\ HeaderBytes > 0
    /\ taken' = taken + HeaderBytes
    /\ used_temp_buffer' = used_temp_buffer + HeaderBytes

HeaderGoesOn ==
    /\ ReadsHeader
    /\ HeaderLen(HeaderBytes) = 0
    /\ split' = TRUE
    /\ Stays
    /\ UNCHANGED <<peerVars, place, header_info, buffer_left, out>>

\* The header parsed as far as header_len has no status, or redirects nowhere: the
\* stream is reported but not closed.
BadHeader ==
    /\ ReadsHeader
    /\ HeaderLen(HeaderBytes) > 0
    /\ LET info == GetResponseHeader(HeaderLen(HeaderBytes))
       IN  info = NoInfo \/ info.response_code < 0
    /\ Post("BAD_RESPONSE", 0) /\ UNCHANGED closed
    /\ GivesUp
    /\ UNCHANGED <<peerVars, header_info, buffer_left, out, split>>

\* The header is there; what was read behind it is written.  The overflow of the buffer
\* is reported, and then forgotten: the loop goes on, or finishes.
HeaderEnds ==
    /\ ReadsHeader
    /\ HeaderLen(HeaderBytes) > 0
    /\ LET info  == GetResponseHeader(HeaderLen(HeaderBytes))
           bytes == Remainder(HeaderBytes)
       IN  /\ info # NoInfo /\ info.response_code >= 0
           /\ header_info' = info
           /\ IF Overruns(bytes)
              THEN place' = "overrun" /\ Stays /\ UNCHANGED <<out, buffer_left>>
              ELSE /\ Write(bytes)
                   /\ IF Fills(bytes)
                      THEN /\ Post("BUFFER_OVERFLOW", 0) /\ closed' = TRUE
                           /\ place' = IF HasEndCode(info) THEN "crashed" ELSE "reading"
                      ELSE IF HasEndCode(info) THEN Finish(info, out')
                      ELSE Stays /\ place' = "reading"
    /\ UNCHANGED <<peerVars, split>>
-----------------------------------------------------------------------------
(* read_data, and what lsquic_stream_read returns without data *)

BodyBytes ==
    ReadLen(IF request.allocated_size = NoBuffer THEN MaxHttpHeaderSize
            ELSE Least(buffer_left, request.max_write_size))

ReadBody ==
    /\ Reading /\ header_info # NoInfo /\ ~closed /\ BodyBytes > 0
    /\ taken' = taken + BodyBytes
    /\ LET bytes == SubSeq(Sent, taken + 1, taken + BodyBytes)
       IN  /\ Write(bytes)
           /\ IF Fills(bytes)
              THEN Post("BUFFER_OVERFLOW", 0) /\ closed' = TRUE /\ GivesUp
              ELSE Stays /\ UNCHANGED place
    /\ UNCHANGED <<peerVars, used_temp_buffer, header_info, split>>

\* lsquic_stream_read does not read from a stream that was closed: the error is
\* reported a second time.
ReadClosed ==
    /\ Reading /\ closed
    /\ place' = "crashed"
    /\ UNCHANGED <<peerVars, taken, used_temp_buffer, header_info, buffer_left,
                   data_pointer, closed, posted, out, split>>

OutOfData == Reading /\ ~closed /\ Available = 0
             /\ (header_info = NoInfo => used_temp_buffer < MaxHttpHeaderSize)

WouldBlock ==
    /\ OutOfData /\ ~fin
    /\ place' = "wait"
    /\ UNCHANGED <<peerVars, taken, used_temp_buffer, header_info, buffer_left,
                   data_pointer, closed, posted, out, split>>

\* Mutation of EndOfStream: the loop goes on after a read of nothing.
EndOfStreamLoops == OutOfData /\ fin /\ UNCHANGED vars

EndOfStream ==
    /\ OutOfData /\ fin
    /\ Finish(header_info, out)
    /\ UNCHANGED <<peerVars, taken, used_temp_buffer, header_info, buffer_left, out, split>>

\* The peer reset the stream.
ReadError ==
    /\ Reading /\ ~closed /\ "reset" \in Faults
    /\ (header_info = NoInfo => used_temp_buffer < MaxHttpHeaderSize)
    /\ Post("CONNECTION_FAIL", 0) /\ closed' = TRUE
    /\ place' = "wait"
    /\ UNCHANGED <<peerVars, taken, used_temp_buffer, header_info, buffer_left, out, split>>

Dead == place \in {"overrun", "crashed"}

\* The steps of the callback.
ReadRuns ==
    \/ HeaderTooLong \/ HeaderGoesOn \/ BadHeader \/ HeaderEnds
    \/ ReadBody \/ ReadClosed \/ WouldBlock \/ EndOfStream

Finished == (Dead \/ posted # <<>>) /\ UNCHANGED vars

Next == Arrive \/ OnRead \/ ReadRuns \/ ReadError \/ Finished

Spec == Init /\ [][Next]_vars

\* lsquic calls on_read while there is something to read, and the callback returns.
FairSpec == Spec /\ WF_vars(OnRead) /\ WF_vars(ReadRuns)
-----------------------------------------------------------------------------
(* Properties. *)

HeaderSize == Len(response.header)

\* The caller gets the bytes of the body and only those, in their order, from the first
\* on and without a gap: no byte of the header, wherever the reads cut the answer.
BodyExact ==
    /\ Len(out) <= Len(response.body)
    /\ out = SubSeq(response.body, 1, Len(out))

\* Among the bytes read there is the whole header exactly when it was found: the end
\* sequence is not missed where two reads share it, and nothing else is taken for it.
HeaderEndFound ==
    ~Dead /\ posted = <<>> => (header_info # NoInfo <=> taken >= HeaderSize)

\* A result without an error for an answer of 200 has every byte that the peer sent
\* before it ended the stream, and says how many; when only the header was asked for, it
\* says what the header says, if that came in one piece.
OkMeansComplete ==
    \A k \in DOMAIN posted :
        posted[k].code = "OK" /\ header_info.response_code = 200 =>
            /\ fin
            /\ out = SubSeq(Sent, HeaderSize + 1, arrived)
            /\ IF request.header_only
               THEN ~split /\ Seen("content-length", HeaderSize) =>
                        posted[k].size = response.length
               ELSE posted[k].size = Len(out)

\* There is one result, and it is the right one: a success or a redirection only for an
\* answer that is one, and a bad response, unless reads have split the header, only for
\* an answer that is neither or that redirects nowhere.
RightOutcome ==
    /\ Len(posted) <= 1
    /\ \A k \in DOMAIN posted :
          /\ posted[k].code = "OK" => response.code \in 200..299
          /\ posted[k].code = "redirect" => response.code \in 300..399
          /\ posted[k].code = "BAD_RESPONSE" /\ ~split =>
                \/ response.code \notin 200..399
                \/ response.code \in 300..399 /\ ~Seen("location", HeaderSize)

\* Once the peer has ended its stream, the request gets its result or the process dies.
ReadEnds == fin ~> (posted # <<>> \/ Dead)
=============================================================================
