# A specification of smartstreaming

smartstreaming pulls live streams and files from an origin server on demand and
distributes them to any number of viewers.  This directory holds TLA+ models of
its core, the TLC runs that check them on small instances and proofs, checked by
TLAPS, that hold for every instance.  Paths below are relative to the repository.

## The system

One OS thread runs everything.  Concurrency comes from state threads (`st`):
coroutines that give up the processor only inside blocking calls (connect, read,
write, condition wait, sleep).  Code between two blocking calls is atomic, and
every hazard sits at a blocking call: what was read before it may be stale after.

| component | state | operations | interacts with |
|---|---|---|---|
| Channel, ChannelPool (`src/base/cache/tmss_channel`) | status, idle_at, channel_exit_time, input_queue, output_queue, segment_cache; a map from key to channel | fetch_or_create, add/del input and output, run, on_init, fetch, dispatch, on_stop, check_expire, the pool's sweep every 5 s | created by requests, run in its own coroutine, calls the media source back |
| InputHandler (`tmss_input`) | status, is_stop, its packet queue, origin connection, demuxer | probe, origin_start, cycle, set_stop, on_thread_stop | reads the origin, feeds its queue, leaves its channel |
| OutputHandler (`tmss_output`) | status, is_stop, its packet queue, viewer connection, muxer | run, cycle, set_stop, on_thread_stop | is fed by dispatch, writes to the viewer |
| MediaSource (`media_source/media_source_handler`) | none of its own | handle_play_stream, handle_play_segment, handle_play_file, create_origin_*, handle_cycle | the plug-in that wires channel, input, output and formats together |
| PacketQueue, Pool (`tmss_cache`) | a queue and a condition variable | enqueue, dequeue with timeout, send_no_msg | base class of the handlers |
| Buffer, IOBuffer (`base/io`) | an array with a read and a write position | reads and writes of bytes, words, strings; seek; the contiguous areas | between connections, parsers and formats |
| raw format (`format/raw`) | a Buffer | handle_input, on_ingest, handle_output, flush | between handler and packets |
| HTTP client (`protocol/http/http_client`, `http_stack`) | an IOBuffer | request, read_data | the origin |
| static file cache (`tmss_static`) | files with a buffer, a write position, a condition variable; a map from name to file | append, seek_range, add and get file, FileInputHandler::cycle | file and segment requests |
| segment cache (`tmss_segment`) | the current segment with its timestamps, a file cache | handle_packet | fed by dispatch, writes files |
| HTTP server and request parser (`protocol/http`), Server (`protocol/server`) | the registered connections, what has been read of a request | accept, parse, dispatch, remove | media source |
| coroutines (`base/coroutine`) | started, interrupted, disposed, cycle_done, trd_err | start, stop, interrupt, pull | everything |
| TCP transport (`transport/tmss_trans_tcp`) | a socket | connect, read, write, accept, close | connections |
| SRT transport (`transport/tmss_trans_srt`, `st_trans/st_srt`) | srt sockets, an epoll, the conditions of coroutines that wait, by socket | connect, read, write, accept, close; the dispatcher's cycle | no server or client uses it yet |
| RTMP chunk streams (`protocol/rtmp/rtmp_stack`) | a header and a half-read message per chunk stream, the size of chunks | recv_packet, send_packet, set_chunk_size | nothing makes a handler yet |
| RTMP packets and AMF0 (`rtmp_stack`, `rtmp_amf`) | the fields of a packet, the commands sent by transaction | decode, get_size, encode_packet, do_decode_message | chunk streams |
| RTMP client (`rtmp_client`) | | handshake, connect_app, create_stream, play | nothing |
| ffmpeg format (`format/ffmpeg`) | libavformat's contexts | on_ingest, handle_input, handle_output | between handler and packets; the demuxer of every origin stream |
| timer, log, util, dll, main, `3rdparty` | | | |

What is hard, and what each component has to get right:

* **Channel.** Requests block while they connect the origin, so that a second
  request, an ending input, the channel's own coroutine and the pool's sweep run
  in between.  It is right when no viewer is left on a channel that nobody runs,
  when the times that end a channel mean what the sweep takes them for, and when
  an abandoned channel stops pulling.
* **The stream's path.** Five buffers in four coroutines, each with its own
  boundary cases, partial reads and failed writes.  It is right when a viewer
  gets an unbroken part of the body.
* **Buffer.** Arithmetic modulo the size, with equal positions meaning empty.  It
  is right when it is a queue of bytes and lends out only its own memory.
* **Coroutines.** A handler may stop itself, be stopped twice, before it has
  run, or by several others.
* **File cache.** Readers follow a file that is being written, and a segment is
  written through a weak pointer while the next one takes its name.  It is right
  when no reader waits for what is there, when what is written is still in the
  cache, and when a reader gets what was written.
* **Requests.** A text is taken apart by `find` and `substr`, whose `npos` and
  off-by-ones no single URL exercises, from reads that may end anywhere.  It is
  right when what is served is what was asked for.
* **SRT.** One dispatcher wakes many coroutines from level-triggered events, and
  each of them rewrites the subscription of a socket that others wait on.  It is
  right when it knows all who wait, none who has left, and stays subscribed.
* **RTMP.** Messages are interleaved in chunks with abbreviated headers; commands
  have optional fields and nested values that may end anywhere.  It is right when
  what is received is what was sent, and when no reader asks for a byte that is
  not there.

## Modules

| module | what it is |
|---|---|
| `Channel` | the life of the channels of one stream key, with requests, inputs, outputs, the pool and its clocks |
| `MCChannel` | `Channel` with symmetry, for TLC |
| `ChannelProofs` | proofs about `Channel` |
| `RingBuffer` | class Buffer as operators on records |
| `ByteQueue` | what class Buffer promises: a bounded queue of bytes |
| `Buffer` | class Buffer as a state machine; it implements `ByteQueue` |
| `BufferProofs` | lemmas about `RingBuffer`, and proofs about `Buffer` |
| `StreamPath` | a stream's bytes from the origin to the viewers; built on `RingBuffer` |
| `StreamPathProofs` | proofs about `StreamPath`, and lemmas about `FlattenSeq` |
| `MCStreamPath` | `StreamPath` with symmetry and a bound, for TLC |
| `Coroutine` | class STCoroutine as operators on a record of its flags |
| `Connection` | viewers' connections from accept to close; built on `Coroutine` |
| `ConnectionProofs` | proofs about `Connection` |
| `HttpRequest` | a request from its first read to its route |
| `MCHttpRequest` | the requests that TLC tries |
| `HttpRequestProofs` | proofs about `HttpRequest`, and lemmas about texts |
| `FileCache` | static files, segments and the requests that read them |
| `FileCacheProofs` | proofs about `FileCache` |
| `SrtDispatch` | srt sockets, the coroutines on them and the dispatcher |
| `SrtDispatchProofs` | proofs about `SrtDispatch` |
| `ChunkStream` | RTMP messages from chunks, and the peer that cuts them up |
| `ChunkStreamProofs` | proofs about `ChunkStream` |
| `Amf` | AMF0's sizes, writers and readers as operators |
| `RtmpCommands` | RTMP's packets and their decoding; built on `Amf` |
| `MCRtmpCommands` | the packets and rests of streams that TLC tries |

### Channel

A request `r` owns an OutputHandler and, if it opens the origin, an InputHandler;
all three carry the name `r`.  One action is the code from one blocking call to
the next: `Open` is `handle_play_stream` up to the first `connect` inside
`on_init`; `ProbeNext`, `RunSucceeds` and `RunFails` are what follows when that
connect returns.  `FetchBegins`, `FetchPacket`, `FetchTimeout` and `LoopBreaks`
are `handle_cycle` around `dequeue`, with `on_stop` at its end.  `InputStarts` to
`InputBreaks` are `InputHandler::cycle`, whose two rounds are `second`;
`OutputEnds` and `OutputLeaves` are the end of `OutputHandler::cycle` and
`on_thread_stop`, between which the output waits for its connection.

`fetch` and `on_init` walk a vector while they block.  `Slots` gives what such a
walk may find after the vector has changed: the element it saw, the one that
moved there, or an empty pointer; the last makes `FetchOverrun` crash the process.

Times are `Clock`s: unset, set, and set for longer than the limit the code
compares with.  Packets are counted (`pending`); their contents are in
`StreamPath`.

Two simplifications.  A thread can always be created: `RunSucceeds` leaves out that
`start` and the inputs' `run` may fail for want of memory, after which a handler
would take itself to be running and never run, and `StartedIsRunning` and the
liveness properties would not hold.  And `on_init` walks over inputs and outputs
that run already, whose `init_input` and `init_output` it calls again
(`tmss_channel.cpp:145` to 172): that replaces the buffers of their demuxers and
muxers and nothing of the state in this module.

### Buffer

`RingBuffer` has one operator per operation of class Buffer, with its arithmetic;
`Buffer` lets them happen in any order with any arguments and keeps the bytes the
last operation handed out.  `QueueSpec` is the refinement: `Contents(ring)` is the
abstract queue.

### StreamPath

The bytes of the response are numbered, header first, so that a missing, repeated
or overtaken byte shows.  `RequestReads` is the loop of `HttpClient::request`, one
byte a step; `TakeByte` decides when the response is complete (with
`Content-Length`: header and body; without: the header).  `CachedRead` and
`DirectRead` are `IOBuffer::read_bytes` before and after `probe` sets `no_cache`.
The plug-in always gives an origin stream the flv demuxer, `BaseDeMux` over
libavformat, which is external: `avio` holds what it has read and not handed out,
and it asks for any number of bytes and cuts frames of any size.  `OpenReads`,
`OpenSucceeds` and `OpenFails` are `on_ingest`, whose failure `request` ignores;
`FrameReads` and `FrameIsRead` are `handle_input` in `cycle_interleave`.
`LoopFetches`, `LoopWakes` and `LoopEnds` are the channel's coroutine;
`OutputSends` is `dequeue`, the status line and `RawMux::handle_output`, whose
writes may each fail after any part, and which refuses a frame larger than its
buffer and so ends the output.  The writes of one packet are one step, although
other coroutines run while they block: nobody else uses the output's mux and
connection, and the output looks at its queue and stop flag only when it is back, so
that what the others do meanwhile they might as well do before or after.  `failed` and `miscounted` are history variables,
for properties that hold unless something went wrong.

### Connection

A connection `c` is one object, `TcpStreamConn`, held by its handler (as long as
`conn_pool` holds the handler) and by the output that writes to it.  `handler`
says in which blocking call the handler's coroutine is: reading the request
(`parse`), connecting the origin (`play`), waiting for a file (`file`), writing a
404 (`refuse`) or reading on behind the request to notice the client's end
(`drain`).  Three parties may end a connection: the client (`ClientLeaves`), the
handler (`ParseFails`, `DrainEnds`, `RefuseCloses`) and the output
(`OutputEnds`, which is `on_thread_stop` up to the wait inside `close`, and
`OutputJoins`, the rest).  `Destroy` is the destructor, for whichever of handler
and output lets go last.  `RefuseCloses` is the 404 of a segment, where the
handler closes its own connection and so stops itself.  `AcceptFails` is the
return of `IServer::cycle` when no thread can be started, after which nobody
accepts.  `errTo` is a history variable: what the memory was that `pfn` wrote the
handler's error to.  The text of requests is left out.

### HttpRequest

A text is a sequence of tokens: the characters the parser looks for (a slash, a
question mark, the end of a line, the name of a header), and words that it only
passes on.  `find`, `find_last_of` and `substr` are those of `std::string`, with
`npos`, and a count that wraps around when it is negative.  `Read` is one round of
the loop in `HttpParser::parse_request`: each piece overwrites the one before
(`buff'`), while the room shrinks (`size'`).  `ParseReturns` is what follows in
`HttpConnHandler::cycle`: `Understood` is `CHttp::parse_request`, whose result is
ignored, so that a text it cannot parse is served as a request for nothing
(`Blank`), with an uninitialised `is_transcode`.  `Parsed` is `parseGetRequest`,
and `Route` the choice in `handle_play`.  After `Served` the handler reads on
(`drain`) and drops what it reads.

`Asks` are what clients may ask for: method, directories, name, parameters,
headers and body, each in its words (a length of the body is a header like any
other, and may be wrong), and what is meant by them, the host and
whether a stream, a segment or a file is wanted (`Meant`: the last parameter of the
form `mode=value` counts).  `Text` writes a request down.  So
`WholeRequestIsUnderstood` compares the parser with an intention and not with
itself.  `AsksAssumption` is the grammar of HTTP that clients keep to: no word of
the head holds a line end and none of a URL a space, the separators of paths and
queries are in none of their parts, and the first header with `Host: ` in it is
that header.  Nothing is assumed of the order or number of anything.

`BodyIsComplete` is `checkHttpInputWithLength`.  The end of the body is an unsigned
sum, so that a length below 0 makes it an earlier place in the head, which is
complete, or a place beyond any text; a length that is no number is 0.
`WholeRequestIsServed` speaks of requests that send at least the body they declare,
in a header and nowhere else: the others are incomplete for the code, and for them
`ParseEnds` says that the handler does not wait for ever.

### FileCache

Two uses of `File`.  A request for a static file finds one (`PlayFile`) or makes
one with an input that connects the origin (`CreateOriginFile`); when that connect
succeeds, `FileInputHandler::cycle` uses a client nobody has set and the process
ends (`InputConnects`).  A segment request (`PlaySegment`) switches the segment
cache on; `HandlePacket` is `SegmentsCache::handle_packet` and
`SegmentHandler::handle_packet` with the append and its broadcast.  A reader is
the loop of `handle_play_file` and `handle_play_segment`: `Continues` is its head,
`Copies` the rest of `seek_range` and the write to the client.

`InitBuffer` and `Overwritten` keep what the code does rather than what it means:
an array that has to grow is copied to a new one that is dropped while `size` says
it is there, and each append goes to the start.  `written` is a history variable,
the bytes a file should have; `good` compares what a reader copies with them.
What a read beyond the array finds is `Junk`, or the end of the process.

### SrtDispatch

A coroutine is idle, tries its operation (`try`), waits in `st_srt_epoll`
(`wait`), or has been woken and not run yet (`woken`).  `EpollWait` is
`st_srt_epoll` before its wait and `Resume` what follows it; `WaitEnds` is a time
out or an interrupt, and `Poll` one round of `SrtStDispatch::cycle` for any set of
sockets that the epoll reports.  `keys` and `conditions` are the two levels of the
map: an entry whose set of conditions is empty differs from no entry, since an
entry is updated in the epoll and no entry is added.  Sockets, their readiness and
the subscriptions are libsrt's and behave in any way its interface allows; its
numbers are not used again.  The model keeps the results that callers confuse: a
timed-out operation returns 0 (`zero`), an accept that fails returns an error code
that is taken for a socket (`bogus`), and any result of `connect` but `SRT_ERROR` is
taken for a connection.

### ChunkStream

`Recv` is one round of `recv_interlaced_message` and of the loop in `recv_packet`
around it: the basic header, the message header of one of four formats
(`Refused`, `Headed`), the payload (`Filled`), and, when the message is entire,
`on_recv_message`.  The peer cuts messages up as `send_packet` does, abbreviates
headers wherever the protocol allows, changes the size of its chunks, or is
`Confused`.  Three things put the reader out of step, after which it reads headers
out of payload and the model says no more than `lost`: an extended timestamp, of
which it takes the bytes from the wrong place; one that `chunk_header_c3` repeats
where the reader expects none, since the peer had abbreviated the message's first
header; and a chunk size other than the peer's, since nothing sets
`in_chunk_size` and the message that would is always refused.  Within them `ReceivedIsSent` says that each stream's messages arrive as
they were sent.

### Amf and RtmpCommands

`Amf` has the size, the writer and the reader of every AMF0 value, on a stream
which is the sequence of bytes that class Buffer implements (`Buffer` refines
`ByteQueue`).  Readers ask first (`Required`, for `read_require`) or do not
(`ReadBytes`, which ends the process when nothing is there); `Then` is the chain
of early returns.  `RtmpCommands` describes a packet class as the fields that
`decode` reads, each with its kind, its default and whether it is optional, and as
the numbers of fields that `get_size` counts and `encode_packet` writes.  A run
receives one message (`Receive`: a packet, cut off at any byte, with other bytes
behind it) and decodes it as its own class (`DecodePacket`) or through
`do_decode_message` (`DecodeMessage`), which restarts on a stream that `reset` has
emptied.  `SizeIsWritten` compares `get_size` with what `encode_packet` writes on a
stream with room for it: the assertions on room in the writers of class Buffer
(`io_buffer.cpp:219` to 300) are left out.  (A Buffer of exactly `get_size` bytes, as
`RtmpPacket::encode` makes it, has room for one byte less.)  Of `do_decode_message`
only typing is checked, since nothing is decoded there behind the name: the comment
at `rtmp_stack.cpp:3198` wants data that cannot be decoded to be no error, and the
exception at 3204 is all that is left of it; data without a readable name, or with a
known one, is an error.

## Runs

| run | instance | shows |
|---|---|---|
| `channel_safety` | two live requests and a segment request, two channels, one waiting packet | typing, `NoStrandedViewer`, `StartedIsRunning`, `ExitTimeMeansDrained`, `ViewerlessIsIdle`, `IdleMeansNoInputOrOutput`, `KillOnlyDrained` |
| `channel_liveness` | two live requests, one channel object, no symmetry | `StoppedViewerLeaves`, `AbandonedChannelStops`, `PoolForgetsTheDead` |
| `connection` | two connections | typing, `StopMeansHandlerOver`, `OpenWhileUsed`, `GoneIsClosed`, `OutputEndsConnection` |
| `buffer` | an array of 4, two byte values, words of 1 and 2 bytes | typing, `AreasFit`, the refinement `QueueSpec` |
| `stream` | two viewers, streams of 2, 4 and 5 bytes, header 1, Content-Length absent or 1 to 3, buffers of 3, a response array of 4 | typing, `ViewersGetARun`, `NothingLostOnTheWay`, `MuxIsDrained` |
| `http` | 20 requests, with lengths equal to the body, above, below, negative and unreadable, a buffer of 25 tokens | typing, `WholeRequestIsUnderstood`, `NoEarlyAnswer`, `WholeRequestIsServed`, `ParseEnds` |
| `file_cache` | two readers, one name, three files, four packets of up to 2 bytes, timestamps up to 3 | typing, `NoMissedBroadcast`, `CurrentIsCached`, `OneWriteIsDelivered` |
| `srt` | two coroutines, the listener and one socket, writes of one piece | typing, `ConditionsAreTheWaiters`, `WaiterIsWatched`, `ReadyIsServed` |
| `chunks` | chunk streams 2 and 320, three messages of 0, 2 or 4 bytes, chunks of 1 or 2, extended timestamps from 3, time modulo 5 | typing with the bound of the payload, `ReceivedIsSent` |
| `commands` | packets of every class, cut at every byte, with up to two bytes behind | typing (no reader asks for what is not there), `CommandIsUnderstood`, `SizeIsWritten` |

Two runs show where the code departs from what the repository says:

| run | claim | what happens |
|---|---|---|
| `converge` | `readme.md:19`, requests converge to one source | a request that comes while the first one connects opens a second origin |
| `error` | `coroutine.cpp:189`, the error goes to the coroutine's own object | `on_thread_stop` has destroyed the object when `pfn` stores the error |

Every property is also run against a mutant, a version of one definition with a
plausible bug (a dropped guard, a missing reset, a boundary off by one), which it
must refute; the mutants stand beside the definitions they change and are listed in
`PROJECT.json`.

### Bounds

Two live requests and two channels (`channel_safety`) are the smallest instance in
which a request meets another one's half-open channel, a channel is killed while
held, and a new one takes its place; every interleaving hazard listed in
`PROJECT.json` is between two requests, or a request and the pool.  The segment
request adds the segment cache, with which a channel is never idle for want of
outputs; the constraint `SegmentInOneChannel` keeps it to one channel object and
one `on_init` at a time, since what differs with it is when a channel may end.
`MaxPending = 1` distinguishes an empty queue from one with a packet, all that the
control depends on.

In `buffer`, four bytes let each operation wrap at each position; the proofs cover
all sizes.  In `stream`, positions wrap within a stream of five bytes, a frame may
fill the muxer's buffer or be too large for it, `IOBuffer` reads past the response
or does not, and the lengths try a response without Content-Length, one that fits
the array and one that does not.  Viewers do not share anything but the frame that
is dispatched, so `SecondOfShort` lets a second one join only one of the streams.
Connections meet only in the accept loop and the pool, so two of them show what
one can do to another.

In `http` the buffer is one token larger than the longest request that fits it,
one request is longer, and every cut of each is tried.  In `file_cache` three
files are two segments and a static file, or the segment that replaces one of the
same name; four packets fill the first array, ask for a larger one, and roll over
to the next segment.  In `srt` two coroutines on one socket are all that the
subscription of a socket and its entry relate; a third would be another of the
same kind (and the proofs are for any number).  In `chunks` the two ids are of one and
of three bytes (a chunk stream in the small array and one in the map), a message
takes up to four chunks, and time wraps within two messages; one chunk on its way
suffices, since the reader's steps depend on the order of chunks only (and the
proofs are for any number).  In
`commands` a stream is cut at each of its bytes, and the bytes behind are the
markers that the readers branch on and a negative length.

Deadlock is not checked in `Channel`, `Connection`, `StreamPath`, `FileCache`,
`ChunkStream`, `HttpRequest` and `RtmpCommands`: requests, bytes, packets and
messages are finite there, and the system rests when all have been served; in
`Channel` and `FileCache` it also rests when the process has crashed.

### Fairness

Weak fairness on each coroutine's steps: the scheduler's run queue is first come
first served, and every blocking call of these coroutines ends: connects, reads
and writes after 3 s, `dequeue` after 10 s in the channel and 2 s in an output.
The clocks elapse and the sweep runs every 5 s.  There is no fairness for requests
to arrive, nor for a viewer to leave unless it is told to stop.  In `Connection`
every blocking call of a handler ends (after 3 s, when the client leaves or by an
interrupt) except the wait for a file, and an output looks at the stop flag at
least every 2 s; clients need not leave.  A crashed process does nothing more, so
each liveness property of `Channel` allows for the crash.

In `SrtDispatch` the dispatcher reports each socket that stays ready: its
coroutine sleeps 10 ms between rounds and is never ended, and its events are
level-triggered (the masks have `SRT_EPOLL_ETONLY`, which is the edge of another
event, and never `SRT_EPOLL_ET`).  No
fairness is assumed of coroutines, time-outs or the network.  In `HttpRequest` a
read that can return does, and one that waits in the first `parse_request` ends
after 3 s (`tmss_conn.cpp:15`, `TcpStreamConn::read`); nothing is assumed of the
client or of the handler.

## Proofs

`ChannelProofs` proves, for all sets of requests and channels and any bound, that
`TypeOK` and each of the six safety properties of `channel_safety` hold.  The
inductive invariant `IInv` is their conjunction with `OutputsAttached`: outputs
that run are in the queue of the channel their request holds.  It is needed
because `on_stop` tells only the outputs in `output_queue` to stop, and
`NoStrandedViewer` speaks about all.  There is one lemma per action group, and
`KillsOnlyDrained` follows from `ExitTimeMeansDrained`: the sweep kills when the
exit time has elapsed, and until then everything attached was told to stop.

`BufferProofs` develops the arithmetic modulo the size (positions, distances,
what a copy in two pieces contains) and concludes that `TypeOK` and `AreasFit` are
invariants for every size, and that every step of `Buffer` is a step of `ByteQueue`
or a stutter (`IsAQueue`).

`ConnectionProofs` proves typing (no descriptor is closed twice),
`StopMeansHandlerOver` and `OpenWhileUsed` for any number of connections.  Its
invariant `ConnInv` says of each connection what the states of handler, output,
descriptor, pool and stop flag imply of each other: that a stop flag means an
ended handler depends on an output running only beside a draining handler.

`SrtDispatchProofs` proves typing, `ConditionsAreTheWaiters` and `WaiterIsWatched`
for any number of coroutines and sockets.  The two properties need each other:
that `Resume` leaves the others subscribed holds because their conditions are
still in the set the new mask is made of, and that `Poll` keeps the entry of one it
does not notify because its condition is in the entry.  `OneWaiter` and
`AllWaiters` turn the invariant, which speaks of sockets, into what it says of each
coroutine, and back.  `WritesLeft` is there for the type of the pieces left.

`FileCacheProofs` proves typing, `NoMissedBroadcast`, `CurrentIsCached` and
`OneWriteIsDelivered` for any number of requests and files.  `ReaderInv` adds to
`NoMissedBroadcast` that nobody is beyond the end of its file, so that a reader
that does not wait there has something to read.  `CurrentInv` adds to
`CurrentIsCached` that the file exists and has its array, and that the timestamps
of the segment are past: files are replaced only when a segment begins, and what
replaces them is then the current file.  For `OneWriteIsDelivered`, `FilesFit` says
of every file (`Keeps`) that as long as all its bytes came with one packet they are
what its array begins with: only then do the copies to its start do no harm.  That
an array once there never grows (`GrowsOnlyFromEmpty`) is part of it.

`StreamPathProofs` proves typing, `MuxIsDrained`, `ViewersGetARun` and
`NothingLostOnTheWay` for any number of viewers, any sizes of buffers, any stream
and any way it is cut.  The bytes are numbers, so each part of the way (`IOBuffer`,
`avio`, the input's packets, the viewer's queue, what it has received) must hold
the run of numbers that ends where the next part begins; `FromCache`, `FromAvio`,
`FromPackets`, `FromQueue` and `FromMux` count where that is, and `InputInv` and
`ViewerInv` say it.  A miscounted read, or a write that failed, ends what they say
of the parts behind it, as it ends what the properties say.  `StatusInv` is for
the 404.  The module rests on the lemmas of `BufferProofs` about rings, which it
takes from an instance of that module (`R`; `Same` shows that the instance's
operators are those of `RingBuffer`), and on what
`FlattenSeq` does to a sequence whose first element is taken or that gets a new
last one.  `FlattenSeq` is defined recursively in the community modules; its
equation is proved by taking the smallest length at which it would fail
(`LeastNumber`, from the library's `WFMin`), since the induction theorems
themselves cannot be instantiated.

`ChunkStreamProofs` proves typing and `ReceivedIsSent` for any set of chunk
streams, any lengths and any number of chunks on their way.  Typing bounds the size
of a half-read message by the length in a header that may have come after the
payload was made: `StreamOK` says that the room for the payload is 0 or that
length, which holds because the reader refuses a length that changes inside a
message.  `ReceivedIsSent` speaks of what has been read, while the peer is ahead by
the chunks on their way.  `InStep` relates the two: there is a chain of reader
states, each what one chunk makes of the one before (`After`, which `RecvIsAfter`
shows to be `Recv`), in all of which only what was sent has been received, and the
last of which has stopped or is as far as the peer (`CaughtUp`: the same header,
the same part of the same message).  `Recv` takes the chain's first step away; a
peer's step adds one at its end, unless the reader stops before.

`HttpRequestProofs` proves typing, `NoEarlyAnswer` and `WholeRequestIsUnderstood`
for every set of requests that keep to the grammar, every buffer size and every way
in which a text is cut into pieces.  The invariant is small (`IInv`: the types, and
that the text is what the client writes); the work is in what a chain of `find` and
`substr` returns.

* The operators: `FindWord`, `FindTwo`, `LastIs`, `Sliced` say what each returns on
  a text of which certain places are known.  `FlattenRuns` says where the parts of a
  `FlattenSeq` are in the whole, and `TextIs` where the parts of a request are.
* `NoEarlyAnswer`: `HeadEndsOnce` shows that no two line ends follow each other
  before the end of the head, since no header is empty.  A piece that `checkRequest`
  accepts holds a blank line (`BlankLineIsThere`), so it reaches the end of the head.
* `WholeRequestIsUnderstood`: a first piece with the whole head agrees with the text
  that far (`Begun`).  `RequestLine`, `QuestionMark`, `PathIsCut`, `QueryIsCut`,
  `NameIsCut`, `FolderIsCut` and `HeaderIsCut` follow `parseGetRequest` line by line
  and show that each `find` stops where the client ended a part.  `NoLateMark` is
  where `Plain` is needed: a question mark behind the URL would end the path there.
* The mode: `SplitListed` shows that `split_string` is the inverse of joining with
  ampersands, `ModePair` that a parameter splits into two parts at `=`, the first of
  them `mode`, exactly when it sets the mode, and `RouteIs` that the last such
  parameter decides, as `Meant` says.  A query without words (`NoQuery`) has none.

The only assumptions are the named ones on the constants, which TLC evaluates.

Model-checked only:

* every liveness property (`StoppedViewerLeaves`, `AbandonedChannelStops`,
  `PoolForgetsTheDead`, `GoneIsClosed`, `OutputEndsConnection`, `ReadyIsServed`,
  `WholeRequestIsServed`, `ParseEnds`), which need fairness and with it ENABLED;
* `Amf` with `RtmpCommands`, whose readers are recursive over nested values: what
  they compute is an induction over data, and RECURSIVE operators are beyond the
  prover.

## Not modelled

* `BaseMux`, the muxer of viewers that ask for flv or ts: what it does to a packet
  happens inside libavformat.
* `RawDeMux`, which the plug-in gives only to inputs without a client: publish
  inputs, whose `probe` dereferences it, and `FileInputHandler`, whose first read
  does.
* `FileInputHandler` beyond its connect, for the same reason, and with it the
  last-modified and revalidation fields that nothing else sets.
* Publish and API handlers, stubs in the code; configuration, logging, the cached
  clock, loading of the plug-in: start-up code and helpers without lasting state.
* `StSrtSocket` (`st_srt.cpp:636`) and the SRT statistics, which nothing uses.
* RTMP's `recv_message` (`rtmp_stack.cpp:2293` to 2334) and the branch of
  `recv_interlaced_message` for it (2409 to 2417), which reads every payload into one
  buffer of the caller's; only `RtmpClient` calls it.  `RtmpPacket::encode` (158 to 177), which
  makes a payload only for a caller whose `size` is positive and returns no value.
* RTMP's handshake, whose reads are stubs that return 0; acknowledgements, whose
  window is never set; `human_print` and `copy`; `RtmpClient`, whose
  `connect_app` (`rtmp_client.cpp:175`) and requests (233, 269) dereference
  pointers that nobody has set.

Some parts of the repository cannot run as they stand; the models of them are of
units, driven as their interfaces allow:

* SRT: `SrtStDispatch::init` calls `start`, and so `shared_from_this`, on an object
  that no `shared_ptr` owns; no server uses the transport.
* RTMP chunks: `IOBuffer` returns the number of bytes, which the chunk reader takes
  for an error, so that `Recv` describes reads that return `error_success` and
  `RecvFails` all others.
* RTMP packets: a `Buffer` made around an array starts empty, so that every decode
  fails at once in this build; `do_decode_message` calls `reset`, which empties the
  stream (`rtmp_stack.cpp:3047`, 3090), and replaces a command it has decoded by an
  empty packet (3103); writers ask `read_require` for room to write;
  `Amf0Any::discovery` and `amf0_is_object_eof` mean to look ahead, but
  `seek_read` refuses to go back, so that bytes of an object's first property are
  lost.  `RtmpCommands` starts from a stream that holds the
  message and keeps the rest as it is.

## Plan

`Amf` with recursive functions in place of RECURSIVE operators, after which that
no reader asks for what is not there could be proved by the smallest
counterexample, as for `FlattenSeq`.
