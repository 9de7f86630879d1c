----------------------------- MODULE StreamPath -----------------------------
(* The way of a live stream's bytes through one channel with one input: the  *)
(* origin's connection, IOBuffer, HttpClient::request, libavformat as        *)
(* BaseDeMux uses it, the input's PacketQueue, MediaSource::handle_cycle     *)
(* with dispatch, each output's PacketQueue, RawMux (the muxer of a request  *)
(* that asks neither for flv nor for ts) and the viewer's connection.        *)
(* Bytes are numbered as the origin sends them, the response's header first; *)
(* those which the demuxer strips from a frame are left out.                 *)
EXTENDS RingBuffer, SequencesExt

CONSTANTS
    Viewers,       \* the outputs of the channel
    HeaderLen,     \* bytes of the response header
    Totals,        \* how many bytes the origin may send, bounds the run
    Lengths,       \* Content-Length values tried; Null: no such header
    Null,
    ResponseSize,  \* the array in HttpClient::request (1024)
    CacheSize,     \* IOBuffer's buffer (16 K)
    AvioSize,      \* bytes libavformat holds at most, a bound of the model
    MuxSize        \* RawMux's buffer (16 K)

ASSUME SizesAssumption ==
    /\ {HeaderLen, ResponseSize, CacheSize, AvioSize, MuxSize} \cup Totals \subseteq Nat
    /\ Lengths \ {Null} \subseteq Nat
    /\ HeaderLen < ResponseSize
    /\ CacheSize >= 2 /\ MuxSize >= 2 /\ AvioSize >= 1

VARIABLES
    total,       \* bytes the origin sends before it closes the connection
    length,      \* the response's Content-Length
    arrived,     \* how many bytes have been read from the connection
    cache,       \* IOBuffer::buffer
    response,    \* what HttpClient::request has read
    avio,        \* what libavformat has read and not handed out in frames
    input,       \* the input: in request(), in on_ingest, reading frames, ended
    tries,       \* its cycle_interleave calls so far
    packets,     \* its PacketQueue
    loop,        \* the channel's coroutine: before fetch, in dequeue, or ended
    out,         \* each output: not there yet, at its loop's top, in dequeue, ended
    queue,       \* its PacketQueue
    stop,        \* OutputHandler::is_stop
    status,      \* the status line it has written, whether or not that failed
    mux,         \* RawMux::buffer
    received,    \* history: the body bytes the viewer's connection took
    failed,      \* history: a write to the viewer has failed
    miscounted   \* history: read_bytes returned less than it took from its buffer

inputVars == <<total, length, arrived, cache, response, avio, input, tries>>
outputVars == <<out, queue, stop, status, mux, received, failed>>
vars == <<inputVars, packets, loop, outputVars, miscounted>>

Garbage == 0
Byte == Nat
Zeros(n) == [i \in 0..(n - 1) |-> Garbage]

TypeOK ==
    /\ length \in Lengths
    /\ total \in Totals /\ arrived \in 0..total
    /\ IsRing(cache, Byte)
    /\ response \in Seq(Byte) /\ avio \in Seq(Byte)
    /\ input \in {"request", "open", "body", "done", "crashed"}
    /\ tries \in 1..2
    /\ packets \in Seq(Seq(Byte))
    /\ loop \in {"top", "wait", "off"}
    /\ out \in [Viewers -> {"off", "top", "wait", "done"}]
    /\ queue \in [Viewers -> Seq(Seq(Byte))]
    /\ stop \in [Viewers -> BOOLEAN]
    /\ status \in [Viewers -> {"none", "200", "404"}]
    /\ DOMAIN mux = Viewers /\ \A v \in Viewers : IsRing(mux[v], Byte)
    /\ received \in [Viewers -> Seq(Byte)]
    /\ failed \in [Viewers -> BOOLEAN]
    /\ miscounted \in BOOLEAN

Init ==
    /\ total \in Totals
    /\ length \in Lengths
    /\ arrived = 0
    /\ cache = Ring(CacheSize, Zeros(CacheSize))
    /\ response = <<>>
    /\ avio = <<>>
    /\ input = "request"
    /\ tries = 1
    /\ packets = <<>>
    /\ loop = "top"
    /\ out = [v \in Viewers |-> "off"]
    /\ queue = [v \in Viewers |-> <<>>]
    /\ stop = [v \in Viewers |-> FALSE]
    /\ status = [v \in Viewers |-> "none"]
    /\ mux = [v \in Viewers |-> Ring(MuxSize, Zeros(MuxSize))]
    /\ received = [v \in Viewers |-> <<>>]
    /\ failed = [v \in Viewers |-> FALSE]
    /\ miscounted = FALSE

-----------------------------------------------------------------------------
(* The input.                                                                *)

\* The connection's read of at most n bytes: their number, 0 at the end of the
\* stream, -1 for an error or a timeout.
ConnRead(n) ==
    {k \in -1..n : k = 0 => n = 0 \/ arrived = total}
        \cap -1..Lesser(n, total - arrived)

\* The next k bytes of the connection.
NextBytes(k) == [i \in 1..k |-> arrived + i]

\* IOBuffer::read_bytes of n bytes, as [cache |-> the buffer afterwards,
\* fresh |-> the bytes read from the connection, bytes |-> those the caller is
\* given, lost |-> whether it is given fewer than were taken].
\*
\* While the response is read: what the buffer has, and if that is not enough,
\* what the connection fills it with once; an error is returned for all.
CachedRead(n) ==
    LET had  == ReadSize(cache, n)
        rest == ReadBytes(cache, n)
        Filled(k) == SeekWrite(Store(rest, NextBytes(k)), k)
    IN  IF had = n
        THEN {[cache |-> rest, fresh |-> 0, bytes |-> CopyOut(cache, n), lost |-> FALSE]}
        ELSE {[cache |-> ReadBytes(Filled(k), n - had), fresh |-> k, lost |-> FALSE,
               bytes |-> CopyOut(cache, had)
                             \o CopyOut(Filled(k), ReadSize(Filled(k), n - had))]
                 : k \in ConnRead(ContinuousWriteLeft(rest)) \ {-1}}
             \cup {[cache |-> rest, fresh |-> 0, bytes |-> <<>>, lost |-> had > 0]}

\* With no_cache set: what the buffer has, and the rest from the connection,
\* whose error code is added to the size like a length.
DirectRead_PastBuffer(n) ==
    {[cache |-> cache, fresh |-> Len(NextBytes(r)), bytes |-> NextBytes(r), lost |-> FALSE]
        : r \in ConnRead(n)}
DirectRead(n) ==
    LET had == ReadSize(cache, n) IN
    {[cache |-> ReadBytes(cache, n), fresh |-> Len(NextBytes(r)),
      bytes |-> SubSeq(CopyOut(cache, had) \o NextBytes(r), 1, had + r),
      lost |-> r = -1 /\ had > 0]
        : r \in ConnRead(n - had)}

\* The state after such a read, but for the bytes.
HasRead(r) ==
    /\ cache' = r.cache
    /\ arrived' = arrived + r.fresh
    /\ miscounted' = (miscounted \/ r.lost)
    /\ UNCHANGED <<total, length, loop, outputVars>>

\* HttpClient::request has read one more byte.  A response that is complete
\* opens the demuxer, unless its status is not 200; the body's bytes that were
\* read with it go to on_ingest, which does not look at them.
TakeByte(byte) ==
    LET r == Append(response, byte)
        need == IF length = Null THEN HeaderLen ELSE HeaderLen + length
    IN  IF Len(r) < ResponseSize /\ Len(r) # need
        THEN response' = r /\ UNCHANGED input
        ELSE /\ response' = <<>>
             /\ input' \in IF Len(r) < ResponseSize THEN {"open", "done"} ELSE {"done"}

\* request reads the response byte by byte.  A connection that fails or ends
\* within it, which fetch_stream reports alike, ends the input.
RequestReads ==
    /\ input = "request"
    /\ \E r \in CachedRead(1) :
          /\ HasRead(r)
          /\ IF r.bytes # <<>> THEN TakeByte(r.bytes[1])
             ELSE input' = "done" /\ response' = <<>>
    /\ UNCHANGED <<avio, tries, packets>>

\* BaseDeMux::on_ingest: libavformat reads until it knows the format,
OpenReads ==
    /\ input = "open"
    /\ \E n \in 1..(AvioSize - Len(avio)) : \E r \in CachedRead(n) :
          HasRead(r) /\ avio' = avio \o r.bytes
    /\ UNCHANGED <<response, input, tries, packets>>

\* and knows it; probe sets no_cache.
OpenSucceeds ==
    /\ input = "open" /\ avio # <<>>
    /\ input' = "body"
    /\ UNCHANGED <<total, length, arrived, cache, response, avio, tries, packets, loop,
                   outputVars, miscounted>>

\* Or it does not and frees its context.  request ignores the result, so that
\* the input's coroutine reads its first frame from a null context.
OpenFails ==
    /\ input = "open"
    /\ input' = "crashed"
    /\ UNCHANGED <<total, length, arrived, cache, response, avio, tries, packets, loop,
                   outputVars, miscounted>>

\* av_read_frame reads; its failure ends the cycle_interleave, and the second
\* one the input, as does a stop of the channel.
FrameReads ==
    /\ input = "body"
    /\ \E n \in 1..(AvioSize - Len(avio)) : \E r \in DirectRead(n) :
          /\ HasRead(r)
          /\ avio' = avio \o r.bytes
          /\ IF r.bytes # <<>> THEN UNCHANGED <<input, tries>>
             ELSE /\ tries' = 2
                  /\ input' = IF tries = 2 \/ loop = "off" THEN "done" ELSE input
    /\ UNCHANGED <<response, packets>>

\* or returns a frame of any size, which becomes a packet.
FrameIsRead ==
    /\ input = "body"
    /\ \E n \in 1..Len(avio) :
          /\ packets' = Append(packets, SubSeq(avio, 1, n))
          /\ avio' = SubSeq(avio, n + 1, Len(avio))
    /\ input' = IF loop = "off" THEN "done" ELSE input
    /\ UNCHANGED <<total, length, arrived, cache, response, tries, loop, outputVars,
                   miscounted>>

-----------------------------------------------------------------------------
\* The input's null context ends the process.
Alive == input # "crashed"

(* The channel's coroutine.                                                  *)

Attached == {v \in Viewers : out[v] \in {"top", "wait"}}

\* dequeue returns a packet and dispatch queues it for every output.
Dispatch_ToWaiting ==
    /\ packets' = Tail(packets)
    /\ queue' = [v \in Viewers |-> IF out[v] = "wait" THEN Append(queue[v], Head(packets))
                                   ELSE queue[v]]
Dispatch ==
    /\ packets' = Tail(packets)
    /\ queue' = [v \in Viewers |-> IF v \in Attached THEN Append(queue[v], Head(packets))
                                   ELSE queue[v]]

\* fetch with the input still in input_queue: a packet waits, or dequeue blocks.
LoopFetches ==
    /\ loop = "top" /\ input = "body"
    /\ \/ packets # <<>> /\ Dispatch /\ UNCHANGED loop
       \/ packets = <<>> /\ loop' = "wait" /\ UNCHANGED <<packets, queue>>
    /\ UNCHANGED <<inputVars, out, stop, status, mux, received, failed, miscounted>>

\* dequeue is woken by a packet.
LoopWakes ==
    /\ Alive /\ loop = "wait" /\ packets # <<>>
    /\ Dispatch
    /\ loop' = "top"
    /\ UNCHANGED <<inputVars, out, stop, status, mux, received, failed, miscounted>>

\* No packet in 10 s, the input's end wakes dequeue empty-handed, or the input
\* has left input_queue, with the packets it still had: on_stop.
LoopEnds ==
    /\ Alive
    /\ \/ loop = "wait" /\ packets = <<>>
       \/ loop = "top" /\ input = "done"
    /\ loop' = "off"
    /\ stop' = [v \in Viewers |-> stop[v] \/ v \in Attached]
    /\ UNCHANGED <<inputVars, packets, out, queue, status, mux, received, failed,
                   miscounted>>

-----------------------------------------------------------------------------
(* An output.                                                                *)

\* add_output, and the output's coroutine.
OutputJoins(v) ==
    /\ Alive /\ out[v] = "off" /\ loop # "off"
    /\ out' = [out EXCEPT ![v] = "top"]
    /\ UNCHANGED <<inputVars, packets, loop, queue, stop, status, mux, received,
                   failed, miscounted>>

\* A write to the connection: all of s, or an error after the first of it.
ConnWrite(s) ==
    {[sent |-> s, ok |-> TRUE]}
        \cup {[sent |-> SubSeq(s, 1, k), ok |-> FALSE] : k \in 0..(Len(s) - 1)}

\* The n bytes of memory from rcurrent() on, beyond the buffer if n is too large.
Memory(b, n) ==
    [i \in 1..n |-> IF b.rpos + i <= b.size THEN b.buf[b.rpos + i - 1] ELSE Garbage]

\* RawMux::flush_write: the area up to the end of the buffer, and what is then
\* left, the results of the writes not being looked at.
Flush_KeepsRest(b) ==
    {[ring |-> IF w.ok THEN SeekRead(b, ContinuousReadLeft(b)) ELSE b,
      sent |-> w.sent, ok |-> w.ok]
        : w \in ConnWrite(Memory(b, ContinuousReadLeft(b)))}
Flush(b) ==
    UNION {LET rest == IF w.ok THEN SeekRead(b, ContinuousReadLeft(b)) ELSE b IN
           IF ReadLeft(rest) = 0
           THEN {[ring |-> rest, sent |-> w.sent, ok |-> w.ok]}
           ELSE {[ring |-> Reset(rest), sent |-> w.sent \o x.sent, ok |-> w.ok /\ x.ok]
                    : x \in ConnWrite(Memory(rest, ReadLeft(rest)))}
        : w \in ConnWrite(Memory(b, ContinuousReadLeft(b)))}

\* RawMux::handle_output: a packet that does not fit makes it flush first; then
\* it refuses it, or writes it to the buffer and flushes.  It never reports a
\* failed write.
HandleOutput(b, packet) ==
    LET first == IF WriteLeft(b) >= Len(packet)
                 THEN {[ring |-> b, sent |-> <<>>, ok |-> TRUE]} ELSE Flush(b)
    IN  UNION {IF WriteLeft(f.ring) < Len(packet)
               THEN {[ring |-> f.ring, sent |-> f.sent, ok |-> f.ok, fits |-> FALSE]}
               ELSE {[ring |-> g.ring, sent |-> f.sent \o g.sent, ok |-> f.ok /\ g.ok,
                      fits |-> TRUE]
                        : g \in Flush(WriteBytes(f.ring, packet))}
            : f \in first}

\* dequeue returns a packet: 200 before the first one, then the packet.  The
\* output ends only if the packet is refused.  The writes may block, and others
\* run meanwhile; what they change, the queues and stop, the output does not
\* look at until it is back, and nobody else uses its mux and connection, so
\* that the writes are one step with the dequeue.
OutputSends(v) ==
    /\ Alive
    /\ \/ out[v] = "top" /\ ~stop[v]
       \/ out[v] = "wait"
    /\ queue[v] # <<>>
    /\ queue' = [queue EXCEPT ![v] = Tail(@)]
    /\ status' = [status EXCEPT ![v] = IF @ = "none" THEN "200" ELSE @]
    /\ \E h \in HandleOutput(mux[v], Head(queue[v])) :
          /\ mux' = [mux EXCEPT ![v] = h.ring]
          /\ received' = [received EXCEPT ![v] = @ \o h.sent]
          /\ failed' = [failed EXCEPT ![v] = @ \/ ~h.ok]
          /\ out' = [out EXCEPT ![v] = IF h.fits THEN "top" ELSE "done"]
    /\ UNCHANGED <<inputVars, packets, loop, stop, miscounted>>

OutputWaits(v) ==
    /\ Alive /\ out[v] = "top" /\ ~stop[v] /\ queue[v] = <<>>
    /\ out' = [out EXCEPT ![v] = "wait"]
    /\ UNCHANGED <<inputVars, packets, loop, queue, stop, status, mux, received,
                   failed, miscounted>>

\* The output finds itself stopped, or its connection: 404 if nothing was sent.
OutputStopped(v) ==
    /\ Alive /\ out[v] = "top"
    /\ out' = [out EXCEPT ![v] = "done"]
    /\ status' = [status EXCEPT ![v] = IF @ = "none" THEN "404" ELSE @]
    /\ UNCHANGED <<inputVars, packets, loop, queue, stop, mux, received, failed,
                   miscounted>>

\* No packet in 2 s: the output ends without a status line.
OutputTimesOut(v) ==
    /\ Alive /\ out[v] = "wait" /\ queue[v] = <<>>
    /\ out' = [out EXCEPT ![v] = "done"]
    /\ UNCHANGED <<inputVars, packets, loop, queue, stop, status, mux, received,
                   failed, miscounted>>

-----------------------------------------------------------------------------
InputStep ==
    RequestReads \/ OpenReads \/ OpenSucceeds \/ OpenFails \/ FrameReads \/ FrameIsRead

LoopStep == LoopFetches \/ LoopWakes \/ LoopEnds

OutputStep(v) ==
    OutputJoins(v) \/ OutputSends(v) \/ OutputWaits(v) \/ OutputStopped(v)
        \/ OutputTimesOut(v)

Next == InputStep \/ LoopStep \/ \E v \in Viewers : OutputStep(v)

Spec == Init /\ [][Next]_vars

-----------------------------------------------------------------------------
\* The numbers in s follow each other.
IsRun(s) == \A i \in 1..(Len(s) - 1) : s[i + 1] = s[i] + 1

\* What a viewer receives, and is queued for it while its output runs, is an
\* unbroken part of the body: no byte of the header, none twice, missing or out
\* of order, unless a write to the viewer failed or a read was miscounted; and a viewer that was told 404
\* gets no byte of the stream.
ViewersGetARun ==
    \A v \in Viewers :
        LET all == received[v] \o (IF v \in Attached THEN FlattenSeq(queue[v]) ELSE <<>>) IN
        /\ (~failed[v] /\ ~miscounted)
              => (IsRun(all) /\ (all # <<>> => all[1] > HeaderLen))
        /\ received[v] # <<>> => status[v] = "200"

\* While the channel runs, every byte that has arrived since the viewer joined
\* is on its way to the viewer or has reached it, in the order of the buffers:
\* no buffer drops or overtakes another.
NothingLostOnTheWay ==
    \A v \in Attached :
        LET way == received[v] \o FlattenSeq(queue[v]) \o FlattenSeq(packets)
                      \o avio \o Contents(cache)
        IN  (input \in {"open", "body"} /\ loop # "off" /\ ~failed[v] /\ ~miscounted
               /\ way # <<>>)
                => (IsRun(way) /\ Last(way) = arrived)

\* RawMux leaves nothing in its buffer, so that handle_output gives up on a live
\* viewer only for a frame larger than the whole buffer, and the new buffer
\* that on_init may give a running output drops nothing.
MuxIsDrained == \A v \in Viewers : ReadLeft(mux[v]) = 0
=============================================================================
