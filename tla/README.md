# Verification of the QUIC download library and its video player

This directory holds TLA+ specifications of the code under
`src/2018-sergey-masters-code`: the client library `quic_probe`, which downloads
over QUIC, and two programs that play a video without showing it and measure how well
it would have played: `youtube_test`, which downloads with that library, and
`youtube_tcp_test`, which downloads with libcurl. The specifications are checked with TLC on
small instances, and the central invariants are proved with TLAPS for all values of
the constants. `PROJECT.json` maps each definition to the lines it stands for.

## 1. The system

| component | state | operations | modelled by |
|---|---|---|---|
| client engine (`quic_downloader.c`, `quic_engine_holder.c`, `engine_structs.c`) | `is_closed`, request queue, output stack, `reading_streams_count`, events | `create_client`, `start_downloading`, `get_download_result`, `destroy_client` | `QuicEngine` |
| connection establishment (`connection_*.c`) | connections, their streams, free ports | `connect_event_handler`, `quic_connect`, creation and close of connections and streams | `QuicEngine` |
| reading and writing of streams | `data_pointer`, `is_read`, `is_header_sent` of a stream | `http_client_on_read`, `http_client_on_write`, redirects | `QuicEngine` (how a read ends), `HeaderReader` (the bytes) |
| timer (`event_handlers.c`) | one timer event | `on_timeout` | `QuicEngine` |
| sockets, addresses | descriptors bound to ports | open, bind, read, shut down; parse and resolve | outcomes only, in `QuicEngine` |
| playout metrics (`metrics.c`, parts of `mm_parser.c` and `youtube-dl.c`) | clock values and timestamps of `metric`, `minbuffer` | `checkstall`, `restart_metrics` | `Playout` |
| download loop (`download_ops.c`) | ranges of two streams, requests in flight | `downloadfiles` and what it calls | `DownloadLoop` |
| quality ladder (`youtube-dl.c`) | the url lists, the level, the printed lines | `process_adaptive`, `process_nonadaptive`, exit | `Player` |
| media parser (`mm_parser.c`, `coro.c`) | a coroutine per stream | hand-over of buffers, packet loop | the packet loop only |
| header reader (`connection_read_handler.c`, `html_header_parser.c`, `mono_parser.c`) | `temp_buffer`, `header_info`, the rest of the body buffer | search of the end of the header, status and fields, portions to the caller | `HeaderReader` |
| containers (`queue.c`, `stack.c`, `simple_list.c`) | linked containers on the heap, an enumerator | put, pull, insert, remove, enumerate, destroy | `Containers`, `LinkedContainers` |
| video information (`getinfo.c`, the same text in both programs) | three lists of urls | split the page, measure, sort | `VideoInfo` |
| `main` of `youtube_test` (`youtube-dl.c`, `getfilesize`, `network_addresses.c`) | the client, the page, the entry being measured | choice of the IP version, page, sizes, signals, exit | `YoutubeTest` |
| TCP transfer loop (`curlops.c`) | easy handles in one multi handle, ranges, `totalbytes` | `downloadfiles` and what it calls | `TcpLoop` |
| TCP player (`youtube-dl.c`, `adaptive.c` of `youtube_tcp_test`) | the lists, the level, the audio entry, the printed lines | page, ladders, exit, signals | `TcpPlayer` |
| command line, clock and text helpers | none that lasts | text processing | not modelled |

Interaction: the player calls the library and blocks in `get_download_result`, which
runs libevent; libevent runs the handlers of the library, which call lsquic; lsquic
calls back into the library from `lsquic_engine_process_conns`; the write callback of
a request hands bytes to the parser coroutine of the player, which calls `checkstall`.
In `youtube_tcp_test`, `curl_multi_perform` takes the place of the library.
All of this is one thread. What makes it hard is the order: libevent may activate
a timer, a socket and the connect event in one poll; handlers call lsquic, which runs
other callbacks before it returns; a call may break the event loop while activated
events remain; results of several requests come in any order.

What must be right: no request answered twice or forgotten, the counter that decides
whether to wait, no lost wake-up, nothing that points to freed memory, ports that are
given out once; every byte of a body handed out once and none of its header, wherever
the reads cut the answer; in the players, timestamps and stall times that account for the time,
ranges without gaps, totals that count each byte once, lists that say what the page
says, a ladder that takes a stall for its result at its last level only, a buffer that is
bounded, and a program that ends. (A test that was too fast is not retried while lower
levels are left: `fail_on_stall` is false there, and `check_process_errors` does not go on.
No document promises otherwise.)

## 2. Modules

    DownloadService   <-- implemented by --  QuicEngine, with QuicEngineProps
    Playout           <-- implemented by --  YoutubeTest  EXTENDS  Player, VideoInfo
                                             Player  EXTENDS  DownloadLoop
    Playout           <-- implemented by --  TcpPlayer  EXTENDS  TcpLoop, VideoInfo
    Containers        <-- implemented by --  LinkedContainers
    HeaderReader          refines the data of one read of QuicEngine (by hand, section 6)

* **QuicEngine**: state is the C state, field by field (`VARIABLES` name the
  fields). `ctl` is the function that holds the thread, `caller` who called
  `lsquic_engine_process_conns`. An action is one callback or one return of a
  blocking call, with everything the code does in it. `active` is libevent's queue of
  activated events in the order they run. A wild `stream_ref` or a cleared
  `data_pointer` that the code uses is a choice between a crash and going on.
* **QuicEngineProps**: its properties, and the inductive invariants.
* **DownloadService**: what a caller may rely on: an accepted request is answered at
  most once, a service that broke owes nothing. `QuicEngineProps!Service` maps the
  engine to it: `asked` is what was accepted, `answers` what was handed out (a request, or
  `NoReq` for an error that concerns none), `open` is `~is_closed`, `waiting` a blocked
  call, which may return one error more when the service broke.
* **Playout**: `checkstall` as a function of the metrics (`FirstPacket`, `Stalls`,
  `Stall`, `StartPlayout` in the order of the code), the reset between attempts, and
  the ways a playout may move: a frame, the end of the video, a new attempt, time.
* **DownloadLoop**: `downloadfiles` of one attempt: the head of the loop with its
  wait and `load_streams` (`LoadStreams`), bytes that arrive (`Packet`; `TornBytes` behind a
  gap), results (`Result`, `ResultError`, `ResultOfEngine`, `NoResult`) and the clean-up.
  The library reports OK for whatever came before an answer ended (`CutResult`). `received`,
  `torn`, `cut` are history: what each parser got without a gap, and the streams that had a
  gap or an answer that ended early.
* **Player**: the two ladders over sorted bitrates, `check_process_errors` and the
  exit line. A packet or a result comes from the library in the order it likes: the
  player uses the library by the promises of `DownloadService`.
* **YoutubeTest**: `main` of `youtube_test` around `Player`. `stage` says where `main` is:
  the client with its IP version (`InitClient`, `LocalSupport`, `IsIpv4`), the page
  (`ReadPage`), one HEAD request after the other (`MeasureUrl`), the sorted lists
  (`SortLists`), then the steps of `Player` (`Plays`). Each step has its failures beside it;
  `ExitsWith` is an exit through `mainexit`, `Dies` the death of the process. `Signal` may
  come anywhere. `Player` by itself, whose lists are constants, is for its violated runs.
* **VideoInfo**: what `getinfo.c` makes of a page. The text of a list is a sequence of
  pieces; `SplitUrls` is the recursive function `SplitPasses` of `SplitPiece` over them, with
  the slot that a rejected piece has already written (`Fill`, `Rejected`); `Sorted` is what `qsort` may return,
  `Measurable`, `DividesByZero` and `FreesForeign` name how reading a page may fail.
* **TcpLoop**: `downloadfiles` of `curlops.c`: the head of the loop (`LoadStreams`),
  what libcurl does while it runs (`Packet`, `TornBytes`, `Done`, `Cut`, `ErrorPage`),
  a pass of `process_running` (`Progress`), `my_curl_cleanup` (`Cleanup`,
  `PerformFails`), and the two ways to die there (`RunsOnFreed`, `CleanupUnmaps`).
* **TcpPlayer**: `main` of the TCP player from the page (`ReadPage`, `Measure` and their
  failures) over the two ladders (`TryLevel`, `SkipLevel`, `JudgeAttempt`) to the exit
  line, with a signal at any point. `received`, `torn`, `failed`, `before` are history:
  what the parsers got, and what the totals were.
* **HeaderReader**: one answer, token by token: `Arrive` is the peer, `OnRead` lsquic,
  the other actions are the returns of `lsquic_stream_read` inside of the callback, with
  everything the code does until the next one. It closes the gap that `QuicEngine`
  leaves: which of its results the bytes of an answer lead to.
* **Containers**: a FIFO, a LIFO, and a list that is enumerated while it changes, with
  no word of pointers. **LinkedContainers**: the three C files pointer by pointer on one
  heap, which `malloc` allots and `free` takes back.
* **MCQuicEngine**, **MCPlayer**, **MCYoutubeTest**, **MCTcpPlayer**, **MCHeaderReader**,
  **MCLinkedContainers** give the constants values for TLC.
* The proofs are in **QuicEngineProofs** (types, the counter, wakeups, events, connections),
  **QuicEngineServiceProofs** (outcomes, the service, what an undisturbed engine keeps),
  **PlayoutProofs**, **YoutubeTestProofs** (`Player` and `YoutubeTest`), **VideoInfoProofs**
  (the lists), **TcpPlayerProofs**, **HeaderReaderProofs** and **LinkedContainersProofs**.

Definitions whose comment begins with "Mutation of" are faulty variants of the
definition they precede. They are used nowhere; each shows that a property notices the
bug when it replaces the original.

## 3. Runs

| run | instance | result |
|---|---|---|
| `engine_all` | two requests to one host, one port, a good and a bad redirect, all failures; no fairness; 0.56 million states | the counter covers the unread streams, one outcome per request, one connection per host, nothing dangles, no lost wake-up, `DownloadService` implemented |
| `engine_dedicated` | a connection per stream, two connections for one port, network failures, a redirect, fairness; 0.34 million states | types, one stream per connection, ports apart; every wait with an armed time-out, and every one before the first redirect, ends |
| `engine_undisturbed` | two hosts, two redirects, HTTP errors, time-outs, a program that keeps asking; 66 thousand states | the counter is exact, requests are conserved; NULL only when nothing is owed but a redirected request; every request is answered, unless a redirect leaves a wait without a time-out |
| `engine_timeout` | a silent server | violated: the time-out closes a stream that was never created |
| `engine_redirect` | one request, one redirect, a silent server, no failure; fairness | violated: after a redirect that meets the time-out a wait has no time-out and never ends |
| `player_all` | the whole of `youtube_test`: eleven pages, four hosts, video of 4 and audio of 3 packets; answers that end early, all failures, signals; fairness; 1.14 million states | stall accounting; ranges without gaps and "worked" only when complete, unless an answer ended early; bounded buffer, `Playout` implemented, the program ends |
| `player_false_stall` | one level, no failure | violated: the first packet counts as a stall |
| `tcp_all` | eight pages, video of 4 and audio of 3 packets; broken and refused transfers, failures of libcurl, signals; fairness; 0.26 million states | what an attempt adds to the totals is exact; ranges without gaps and "worked" only when complete, unless a transfer failed; bounded buffer, lists as on the page, best audio, a stall is the result only at the last file, `Playout` implemented, the program ends |
| `tcp_endless` | a page whose levels are all above the limit, no failure | violated: the program never ends |
| `tcp_size` | a page with one adaptive level and a file, no failure | violated: the size of the video that is printed holds the bytes of the attempt before |
| `header_reader` | eight answers, eight requests, an early end, a reset; 57 thousand states | body exact, header end found, one right result, complete when OK, the read ends |
| `containers` | five containers, two data, symmetry; 89 thousand states | no container lost or reused, `Containers` implemented |

The runs that are violated quote in `PROJECT.json` the comment they contradict. Six
more things were met while modelling that no run is kept for: a port that is back in the
queue of free ports may still be bound, since its connection closes its socket later;
a stall of `youtube_test` does not lead to a lower bitrate, although `arguments_parser.h:29`
promises to "terminate current transfer if a stall occurs and try downloading a lower bit
rate", because `fail_on_stall` is cleared exactly when a lower url is left
(`youtube-dl.c:312-314`); a chunk that is one byte short does not end its stream
(`download_ops.c:322-323` says "test ends on downloaded size less then requested" but compares
with one byte less than the range holds);
`youtube_test` reports LSQUIC_ENGINE_ERROR when nothing failed but no stream had room in
its buffer, because it then asks for a result that nothing owes; a video that ended
while it was buffering stays paused, because `downloadfiles` leaves its loop without an
error only when no stream plays; and a host with IPv4 only never gets the page of
`youtube_test` unless the user asks for IPv4, because `init_quic_client` assigns `is_ipv4`
only when both or no versions were found, and it is zero otherwise (moreover
`get_ip_version_support` counts the IPv4 loopback, and of IPv6 only multicast addresses).

Bounds, and why they are enough. Engine: two requests are what makes sharing of
connections, the counter and the stack interesting; `MaxRedirects` bounds 3xx answers
(one redirect already puts a request back into the queue while another is read);
`MaxOutput` bounds the results not yet collected; constants `Faults` name the
failures a run allows, so that a property that survives no failure is still checked
without it. Player: lengths of 3 and 4 packets with a buffer of 2 make a first chunk,
a refill, a wait for the buffer and a last short chunk happen; `MaxNow` bounds the
time the network may waste, five units with a test time of four in `player_all` and six in the
violated runs, enough for stalls before, during and after the
prebuffer and for the test to run too long; a packet has two bytes, so that a range
may end inside it. `Epoch` stands for a clock that is far from zero.
The eleven pages of `youtube_test`: two usable levels with and without files behind them, one
level with a file to go on with, a ladder whose order the best audio disturbs, only levels
that are skipped, no pair, and a page each for a missing and a zero
duration, a file without a size, an empty url and a url without an encoded symbol; the four
hosts have IPv4 only, both versions, or an interface without an address that is read or not.
TCP player: the same lengths and buffer. Each of the eight pages is there for a path:
two formats with a level above the limit, a cut-off piece and one without a type; video
without audio of its format; an entry without url; no adaptive pair; no duration and
zero duration; a url that cannot be read; a url without an encoded symbol. Two plain
files in the wrong order show the sorting, three adaptive levels the descent; time may
be wasted for two units, which with a test time of one makes MAXTESTRUNTIME happen.
Header reader: a `temp_buffer` of 18 tokens is longer than all headers but one;
`StatusSize` is 5, so that a header may be split before, inside of and behind the digits of
its status; `HeaderHeap` is 13, so that one redirection is behind what is searched for it.
A body buffer of 2 is smaller, one of 6 larger than the body; portions
of 3 and 20 make the caller's callback run once and often; bodies that look like the end
of a header, and answers with no body. Every split of an answer into arrivals is tried.
Containers: five containers with the two sentinels of the queue leave three elements to
move between the structures, enough for an insertion or removal at the head, in the
middle and at the end, next to the enumerator's place, and for a freed container to come
back elsewhere.

The states in which a program has stopped (exit, crash, destroyed client, a result that
was posted, structures that were destroyed) have an explicit stuttering action; deadlock
is checked in all runs.

## 4. Fairness

`QuicEngine!FairSpec` asks for weak fairness of the steps of the library itself (the
thread keeps running) and strong fairness of a poll that finds the armed timer
expired: time passes, and libevent reports an expired timer. Nothing is assumed of
servers. `DrainingSpec` adds a program that calls `get_download_result` again and
again, as `process_outputs` does. `Player!FairSpec` asks for weak fairness of the
player together with the arrival of what it waits for: the library delivers or
times out, which is what `TimedWaitEnds` and `EveryRequestAnswered` establish of the
engine (no fairness of failures: `ResultError`, `CutResult`, `ResultOfEngine` and `Wait` are not
in it; `Wait` ends at `MaxNow`). There is one exception: a redirect may leave the library
waiting without a time-out (`engine_redirect`); `WaitsUntimed` is that wait, which both
properties except and nothing else. `ExitReached` of `youtube_test` is therefore
shown for servers that do not redirect a request and then fall silent; and `NoResult`, which
returns NULL only when nothing is in flight, rests on `NullMeansIdle`, which
excepts a redirected request that is still queued. A crash counts as an end in `ExitReached` and `TimedWaitEnds`.

`YoutubeTest!MainFairSpec` adds the steps of `MainRuns` to that: `main` goes on, and the page
and the sizes are answered or the library ends the wait after `TIMEOUT_MS` (a failure is a
choice of the environment, a signal too; neither is assumed to happen).

`TcpPlayer!FairSpec` asks for weak fairness of `PlayerRuns`: the thread runs, and libcurl
delivers the bytes a transfer waits for or ends the transfer. The code sets a time limit
on every transfer (`CURLOPT_TIMEOUT`: 330 seconds for a range, 60 for the page, 30 for a
HEAD request), so that no transfer waits for ever. Nothing is assumed of failures,
signals and `Wait`. `HeaderReader!FairSpec` asks for weak fairness of `OnRead`, since
lsquic calls a wanted read while the stream has bytes or an end, and of the callback itself;
nothing is assumed of the peer, so `ReadEnds` starts at the end of its stream.

## 5. Proofs

All are for every value of the constants, from the named assumptions of the modules.

* `TypeCorrect`: types of the engine, action by action.
* `CountCovers`: `reading_streams_count` is an unsigned int; it must never be
  decremented below what is unread. By itself this is not inductive: a stream may be
  closed by the timer, by lsquic, or with its connection. `CountInv` adds that the
  stream `quic_connect` holds is alone (`HeldByQuicConnect`), that listed streams are
  on live connections, that a stream whose end was processed is closing
  (`ReadIsClosing`), that nothing is closing outside of `process_conns` (`Settled`),
  and that the timer leaves nothing to read.
* `WakeupNeverLost`: a queued request has an activated connect event, or the handler
  that serves the queue is running (`WakeupInv`).
* `NothingLeftDangling`: what libevent has queued exists. `EventInv` adds that no event is
  queued twice and that an armed time-out is not queued, because a handler removes one event.
* `PortsStayApart`, `HostsShareConnections`: a step leaves the phase, host and port of every
  live connection as they are (`SameConns`), or opens one, or closes some; only the
  opening has to be looked at.
* `StreamsStayAlone`: `AloneInv` adds to `CountInv` that the connection opened for a stream
  that is still attached has no other.
* `OneOutcomeEach`: `OutcomeInv` adds that a stream whose request was not sent still points to
  it (`UnsentHasData`), so that an error posted for it is its first outcome. The copies of a
  request are counted over queue, streams, stack and results (`Copies`, by the lemmas
  `Entries...`), and each action moves one or lets one go.
* `EngineImplementsService`: every step of the engine is a step of `DownloadService` or none.
  Needed besides `OutcomeInv`: only a closed engine has errors that concern no
  request (`EngineErrorsCloseIt`).
* `CountIsExact`, `RequestsAreConserved`, `NullIsIdle`: promises that the engine keeps only while
  some things do not happen, so the theorems have hypotheses. `Undisturbed`: HTTP errors
  are the only failures, and no local ports are configured. Ports are a failure in disguise:
  a closed connection shuts its socket down but does not close it, so a port may be handed
  out again while it is bound. `UrlsParse`: the program and the servers name urls that parse.
  `NullIsIdle` excepts queued requests once a server has redirected: a redirected request is
  queued while a time-out may be activated, whose handler breaks the loop before the connect
  event runs. The counter is not
  exact by itself: `ExactInv` adds that a listed stream points to its request until it was
  read (`Pointing`), that no unread stream is closing (`UnreadStayOpen`), and that a broken
  loop and a user that holds the thread leave nothing unread. `NullInv` adds that, until a
  server redirects, requests wait in the queue only before anything is read, and that the
  connect event runs before the time-out (`QueueFirst`).
* `TimestampsStayOrdered`, `StallsAccounted`, `StallsHaveBegun`: of `Playout`, from
  `IInv`. Accounting is not inductive before the video starts: `IInv` adds that until
  then nothing is accounted for (`Silent`), that an attempt that has begun to buffer
  has `Tmin < 0` (`NotYet`) and that an attempt without a packet has all timestamps
  zero (`Untouched`). That the first packet may be taken for a stall (section 3) does not
  disturb the accounting, because its timestamp is zero.
* `PlayerImplementsPlayout` (and `PlayerTypeCorrect`, `PlayerStallsAccounted`): every step
  of the player is a step of `Playout` or none. The invariant needed is `Stopped`: the
  loop ends without an error only when no stream plays, so `cleanup_download_loop`
  never un-pauses. That is also the reason why a video that ended while it was buffering
  stays paused.
* `PlayerRangesContinue`, `PlayerWorkedIsComplete`: the bytes of the ladder. `DownloadInv`
  says of each stream without an answer that ended early how its range and the bytes used of
  it continue what was received (`Ranged`), and of the loop which error codes may stand at
  its end (`Codes`). The heart is `ResultRanged`: `Short`, which compares with a range counted
  without its first byte, ends a stream only at the end of its file. A cut stream may have
  any gap; nothing is said of it.
* `TestImplementsPlayout`, `TestTypeCorrect`, `TestStallsAccounted`, `TestRangesContinue`,
  `TestWorkedIsComplete`: the same of the whole program. The steps before the ladder and
  the signals leave the downloads alone (`BeforePlay`); the lists that the ladder gets are
  those the page leads to, because an entry that was measured had a url, a size and a
  positive duration (`Entered`), so that the list was `Measurable` when `SortLists` runs.
  `MainAssumption` says of the constants that they hold what the pages lead to; TLC evaluates
  it for the eleven pages.
* `TcpImplementsPlayout`, `TcpStallsAccounted`, `RangesContinue`, `WorkedIsComplete`,
  `WorkedIsCounted`: the TCP player, for any page, bitrates, lengths, packet sizes, chunk
  sizes, buffer and failures. None of the last three is inductive: what was counted lags
  behind what the parser got while a transfer moves, and what the parser got is not where
  the next range starts once a range reached behind the end of the file. `TcpInv` says so per
  stream: `Ranged` (how a range may look, and that only an entry without a bitrate asks for
  nothing new), `Fed` (a stream without a gap: the total is what was received before
  the transfer that moves), `Whole` (a stream without a failed transfer: its next range
  continues the last or lies behind a file that is complete, and it stops only there);
  and of the loop: `Phases`, `Stopped`, `NotYetWorked`, `PageFirst`. The heart is
  `EndOfTransfer`: whether `Short`, which compares with a range counted without its first byte,
  is right for each position of the range to the end of the file. An entry with bitrate
  0 asks for its first byte again and again, which is why `TornOnlyByFailure` excepts it;
  it never ends (`tcp_endless`), so it cannot be an attempt that worked.

* `TcpPlayerTypeCorrect`, `ListsAreThePage`, `AudioOfLevelIsBest`, `OnlyLastGivesUp`: the lists
  and the ladders of the TCP player, for any page. `SplitSound` says what the passes of
  `split_urls` leave: each kept piece in one entry that tells what the piece says, by a
  bijection between them (`SplitInv`), unless a piece without type made it free foreign memory.
  The sorted lists have the same entries (`SortedIs`, `AdaptiveTells`, `PlainTells`).
  An entry of a piece without a type or a bitrate has them, if at all, from a cut off piece
  right before it (`CutBefore`). `ListsInv` carries that through the program; `LevelInv` adds
  where the level stands, that nothing is downloaded where no url is (`NoPlainUrl`), and that
  a stall makes an error only of an attempt that is to fail on it (`StallFails`).
* `BodyIsExact`, `HeaderEndIsFound`, `OkIsComplete`, `OutcomeIsRight`: the header reader, for any
  answers, requests and sizes of the buffers. First the search: `check_end_sequence` finds the
  first end of a header in what it is given (`CheckEndSequenceFinds`, by the closed form
  `Finds` of its two loops), and so the end of the header when the reads cut it
  (`HeaderEndIs`). Then `ReaderInv`: what was read of the header is in `temp_buffer` and
  what was read of the body was handed out (`BodyInv`), the fields are those of the header
  (`Parsed`), and the one result tells the truth (`PostInv`, `Tells`). A header that was read in
  several parts is parsed only as far as the length of its last part, which is what the code
  passes on; hence `RightOutcome` excepts it (`split`).
* `HeapStaysExact`, `LinkedContainersImplement`: the containers, for any number of them on the
  heap. `HeapInv` gives each container of a structure its place (`QueueAt`, `StackAt`,
  `ListAt`), with links from place to place and no container in two structures
  (`Separate`). The walks along the links lead to places (`AfterIs`, `BehindIs`, `Walks`);
  each call is then one lemma, for the invariant and the abstract call together.
* `PlayerBufferIsBounded`, `TestBufferIsBounded`, `TcpBufferIsBounded`: how far the packets are
  ahead of the playout. The loop compares the playout with the stream that is behind, and
  only at its head; in between a stream may get a whole chunk, a packet may start the
  playout or start it again, and one stream may end before the other. `Filling` therefore
  speaks of the playing time that was asked for (`Goal`) and not of what has arrived. While
  the video plays, that is ahead of the playout by at most the buffer and `ChunkFetch`;
  while it is paused, by no more than that of where it will go on, unless a track that gets
  nothing more keeps it from going on (`Fits`). A new range keeps this because a track that
  goes on was asked for no less far than the other (`Even`), is not far behind of it
  (`Near`), and gets what it was asked for as a prefix of its packets (`ReadToEnd`).
  An answer may also end early, and in the TCP player a transfer may fail; the bytes that were
  missed are not asked for again, so that no packet of the stream arrives any more (`Lost`,
  `Dry`, `Behind`) and it can only hold the playout back.
  There are two hypotheses. `ChunksFillBuffers`: what a playout waits for is no longer than
  the chunk that is asked for meanwhile, at the start (`MIN_PREBUFFER`, 2 s, and
  `LEN_CHUNK_MINIMUM`, 5 s) and after a stall (`MIN_STALLBUFFER`, 1 s, and
  `LEN_CHUNK_FETCH`, 1 s), as in `youtube-dl.h:65,76,77` and `arguments_parser.h:16` of both
  programs. `TracksEndTogether`: the tracks of a single file end at most one packet apart.
  Else a chunk holds twice the playing time once the shorter track has ended; and where
  the audio is the longer one, the timestamp that the loop looks at stands still and the
  rest of the file is asked for at once. The runs have lengths 4 and 3, which satisfy it.

What recursive definitions compute (the walks, the search, the passes of `split_urls`) is
proved by the least counterexample: a set of numbers without the property has a least element,
by `WFMin`. No definition is `RECURSIVE`.

Only model-checked: liveness (`TimedWaitEnds`, `EveryRequestAnswered`, `ExitReached`,
`ReadEnds`), which is out of the prover's reach. Every invariant, action property and
refinement that the runs check is also a theorem.

## 6. What is assumed of external code

* lsquic: closing a connection or stream runs its close callbacks before
  `lsquic_engine_process_conns` returns; a stream for which `on_new_stream` never ran
  gets no `on_close`; a connection just opened is not closed in the same call; `on_read`
  is called while the stream has bytes or an end; a read of a closed stream fails.
* libevent: activated events run first in, first out; `event_add` takes an event
  activated by its time-out back; `loopbreak` leaves the remaining events activated.
* A stale `errno` read by the code has either value.
* What `HeaderReader` posts as "OK", "redirect", `BAD_RESPONSE` or `CONNECTION_FAIL` are the
  ends of a read between which `QuicEngine` chooses; no run composes the two.
* libcurl: `curl_multi_perform` delivers in any order and ends every transfer in the time
  limit that was set; a server sends exactly the range that was asked for, cut at the end of
  the file; an error page is shorter than a chunk.
* A page has fewer urls than a list has places (`URLLISTSIZE`). In `youtube_test`, adaptive
  entries have a url and a bitrate, and a video has an audio of its format if there is any
  audio; measured files have a bitrate that does not round to zero. `tcp_all` has pages
  without, of the same code.
* A host reaches the site over each version of IP it has an address of, and over no other.
* The demuxer does not return at the end of the bytes it has, it waits for more; what it
  makes of bytes that leave a gap is any of: nothing, `exit`, the return of a coroutine
  that has nowhere to return to.
* The callers of the containers keep to what `simple_list.c` does not test: positions are
  inside of the list, and the container at which an enumerator stands is not removed. The
  engine never does either: its only enumerations are loops that remove nothing, since lsquic
  calls `on_close` later, from `lsquic_engine_process_conns`.
* Media files: packets have one size, alternate between tracks in a single file and
  come with ascending timestamps; the server truncates a range to the file. The tracks of a
  single file end together, in the theorems on `BufferBounded`.
* The build has no optimisation flags (as in the CMake file), so `check_errors` and
  `init_quic_client`, which have no return value for success, return zero.

## 7. What is not modelled

* Memory exhaustion, the log file, debug output, the shutdown after more than 100 failing
  `sendmsg` calls, command lines, shell scripts.
* Text: the request header, regular expressions over urls and addresses, the http version,
  `filetype_from_text` (its result is only printed), `set_ip_version`, `text.c`; and
  `cycle_buffer.c`, which nothing uses.
* Rates, byte counts and times that are only printed; fractions of seconds in the players.
* The switch between coroutines (`coro.c` is vendored): it is a call and a return.
* The body of a redirect or of an HTTP error, whose bytes before the end of the read reach the
  parser of the player; and answers that end early inside of a packet (`CutResult` ends where
  a packet does, or where a range lacks its last byte).
* In `youtube_test`: an adaptive video without any matching audio; and, in the ladder, a NULL
  result while a request is still open, which section 3 names (before it, `ResultIsNull`).
* Undefined behaviour (freed or foreign pointers, a division by zero, an unmapped stack) is
  a step that kills the process, or a choice between that and going on, not the memory
  itself.

Each request structure is submitted once. Connection lists are sets in `QuicEngine`,
since only membership and emptiness are used there; `LinkedContainers` shows the lists.
Hazards that only bite in printed values, leaked handles and memory, and a missing
`return` whose outcome depends on the build have no property; those that matter are in
`PROJECT.json` with a note.

## 8. Plan

Done: the engine, both programs from start to exit, the header reader, the containers; every
invariant, action property and refinement that the runs check is proved. What is left:
`HeaderReader` composed with the stream of `QuicEngine`, so that the ends of a read the
engine chooses between are those of the reader; and single files whose tracks end far
apart, of which only a weaker bound than `BufferBounded` can hold.
