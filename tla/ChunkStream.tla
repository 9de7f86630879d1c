---------------------------- MODULE ChunkStream ----------------------------
(***************************************************************************)
(* The chunk stream of RTMP (protocol/rtmp/rtmp_stack, rtmp_message):      *)
(* RtmpProtocolHandler::recv_packet puts messages together again from the  *)
(* chunks that its peer interleaves.  The peer speaks the protocol; it     *)
(* cuts messages up as send_packet does and writes the headers that        *)
(* chunk_header_c0 and chunk_header_c3 make, or shorter ones that the      *)
(* protocol allows.                                                        *)
(*                                                                         *)
(* The handler takes anything but error_success from                       *)
(* IOBuffer::read_bytes for an error.  The IOBuffer of this repository     *)
(* returns the number of bytes instead, and nothing makes an               *)
(* RtmpProtocolHandler yet.  A read here may return either, whatever it    *)
(* has read; what is said below of messages is about the reads that return *)
(* error_success.                                                          *)
(*                                                                         *)
(* Once the reader is out of step with the chunks it reads headers out of  *)
(* payload and means nothing any more: "lost".                             *)
(***************************************************************************)
EXTENDS Integers, Sequences

CONSTANTS
    Cids,        \* chunk stream ids in use
    Lengths,     \* lengths of messages
    ChunkSizes,  \* sizes of chunks
    Deltas,      \* by how much a timestamp exceeds the one before
    Extended,    \* 0xFFFFFF, from which on timestamps are written elsewhere
    Wrap,        \* 2^32
    MaxMessages, \* bound: how many messages the peer starts
    MaxWire      \* bound: how many chunks are on their way

ASSUME ChunkStreamAssumption ==
    /\ Cids \subseteq Nat /\ \A cid \in Cids : 2 <= cid /\ cid <= 65599
    /\ Lengths \subseteq Nat
    /\ ChunkSizes \subseteq Nat \ {0}
    /\ Extended \in Nat \ {0} /\ Wrap \in Nat /\ Extended < Wrap
    /\ MaxMessages \in Nat \ {0} /\ MaxWire \in Nat \ {0}
    /\ Deltas \subseteq 0..(Extended - 1)

VARIABLES
    chunks,        \* the RtmpChunkStreams, in cs_cache and chunk_streams
    in_chunk_size,
    at,            \* the handler: reading, failed or lost
    received,      \* history: what recv_packet got, by chunk stream
    peer,          \* the peer's state of each chunk stream
    peer_chunk,    \* the size of the peer's chunks
    sent,          \* history: what it has sent, by chunk stream
    count,         \* how many messages it has started
    wire           \* the chunks on their way

readerVars == <<chunks, in_chunk_size, at, received>>
peerVars == <<peer, peer_chunk, sent, count>>
vars == <<chunks, in_chunk_size, at, received, peer, peer_chunk, sent, count, wire>>

----------------------------------------------------------------------------
\* Message types, as far as on_recv_message tells them apart: those that it
\* decodes, and the others.
Types == {"control", "media"}

\* How many bytes class Buffer has to read when it is made around an array: it
\* starts empty, whatever the array holds.
FreshReadLeft == 0

\* decode of RtmpSetChunkSizePacket, RtmpSetWindowAckSizePacket and
\* RtmpUserControlPacket: refused unless there are as many bytes to read as
\* the first field has.
Decodes(field) == field <= FreshReadLeft

\* in_ack_size.window is set by a message of a type that is never decoded, so
\* response_acknowledgement_message has nothing to answer; the result of
\* on_recv_message is that of the decoding.
OnRecvMessage(type) == type = "control" => Decodes(2)

NoMessage == [size |-> -1, room |-> 0, payload |-> <<>>]

FreshStream ==
    [timestamp |-> 0, timestamp_delta |-> 0, payload_length |-> 0, type |-> "media",
     extended |-> FALSE, count |-> 0, msg |-> NoMessage]

IsFirstChunk(s) == s.msg = NoMessage

----------------------------------------------------------------------------
\* Headers.  A chunk: the bytes of its basic header, the fields of the message
\* header, whether an extended timestamp follows, and the payload.

\* The basic header in one, two or three bytes.
Basic(fmt, cid) ==
    IF cid < 64 THEN <<64 * fmt + cid>>
    ELSE IF cid < 320 THEN <<64 * fmt, cid - 64>>
    ELSE <<64 * fmt + 1, (cid - 64) % 256, (cid - 64) \div 256>>

Chunk(basic, time, length, type, extended) ==
    [basic |-> basic, time |-> time, length |-> length, type |-> type,
     extended |-> extended, payload |-> <<>>]

\* chunk_header_c0 and chunk_header_c3: always one byte of basic header.
C0(cid, time, length, type) ==
    Chunk(<<cid % 64>>, IF time < Extended THEN time ELSE Extended, length, type,
          time >= Extended)

C3(cid, time) == Chunk(<<192 + (cid % 64)>>, 0, 0, "media", time >= Extended)

\* The peer writes longer basic headers where they are needed.
WithCid(chunk, fmt, cid) == IF cid < 64 THEN chunk ELSE [chunk EXCEPT !.basic = Basic(fmt, cid)]

----------------------------------------------------------------------------
\* The reader.

\* read_basic_header
Fmt(basic) == basic[1] \div 64

Cid(basic) ==
    LET cid == basic[1] % 64 IN
    IF cid > 1 THEN cid
    ELSE IF cid = 0 THEN 64 + basic[2]
    ELSE 64 + basic[2] + basic[3] * 256

\* read_message_header, error_rtmp_chunk_start: a stream starts with fmt 0 (or,
\* for librtmp, 1), and no chunk within a message does.
StartRefused(s, fmt) ==
    (s.count = 0 /\ fmt \notin {0, 1}) \/ (~IsFirstChunk(s) /\ fmt = 0)

LengthRefused_Never(s, c) == FALSE \* a mutant

\* error_rtmp_packet_size: a message does not change its length.
LengthRefused(s, c) == ~IsFirstChunk(s) /\ Fmt(c.basic) = 1 /\ s.payload_length # c.length

Refused(s, c) == StartRefused(s, Fmt(c.basic)) \/ LengthRefused(s, c)

\* Whether the header says that there is an extended timestamp; fmt 3 has it
\* from the header before.
IsExtended(s, c) == IF Fmt(c.basic) <= 2 THEN c.time >= Extended ELSE s.extended

\* timestamp &= 0xffffffff
Masked(time) == time % Wrap

\* The time of a chunk: absolute in fmt 0, a difference in fmt 1 and 2; in fmt
\* 3 the last difference again, when it starts a message.
Timestamp(s, c) ==
    LET fmt == Fmt(c.basic) IN
    IF IsExtended(s, c) \/ (fmt = 3 /\ ~IsFirstChunk(s)) THEN s.timestamp
    ELSE IF fmt = 0 THEN c.time
    ELSE Masked(s.timestamp + (IF fmt = 3 THEN s.timestamp_delta ELSE c.time))

\* A mutant: the last difference outlives an absolute time.
TimestampDelta_Kept(s, c) == IF Fmt(c.basic) \in {1, 2} THEN c.time ELSE s.timestamp_delta

TimestampDelta(s, c) ==
    LET fmt == Fmt(c.basic) IN
    IF fmt = 3 THEN s.timestamp_delta
    ELSE IF fmt = 0 /\ ~IsExtended(s, c) THEN 0
    ELSE c.time

\* A message is made for the first chunk before its header is read.
Opened(s) ==
    IF IsFirstChunk(s) THEN [s EXCEPT !.msg = [size |-> 0, room |-> 0, payload |-> <<>>]] ELSE s

\* read_message_header as a whole; length and type come with fmt 0 and 1.
Headed(s, c) ==
    LET new == Fmt(c.basic) <= 1 IN
    [s EXCEPT !.timestamp = Timestamp(s, c),
              !.timestamp_delta = TimestampDelta(s, c),
              !.extended = IsExtended(s, c),
              !.payload_length = IF new THEN c.length ELSE @,
              !.type = IF new THEN c.type ELSE @,
              !.count = 1,
              !.msg = Opened(s).msg]

\* What a refused header leaves: one that may not start here nothing, one that
\* changes the length the time, which has been read by then.
HeadRefused(s, c) ==
    IF StartRefused(s, Fmt(c.basic)) THEN s
    ELSE [s EXCEPT !.timestamp = Timestamp(s, c),
                   !.timestamp_delta = TimestampDelta(s, c),
                   !.extended = IsExtended(s, c)]

\* read_message_payload: how much of the payload it asks for.
PayloadSize(s) ==
    LET left == s.payload_length - s.msg.size IN
    IF left < in_chunk_size THEN left ELSE in_chunk_size

\* After an extended timestamp, of which the four bytes are taken from beyond
\* the array that the header was read to, the reader is four bytes behind; so it
\* is after one that chunk_header_c3 writes and the reader does not expect.
\* With another chunk size than the peer's it is elsewhere, too.
OutOfStep(s, c) ==
    \/ s.extended \/ c.extended
    \/ s.payload_length > 0 /\ PayloadSize(s) # Len(c.payload)

\* The payload is made, once, for the length that the header has then.
Filled(s, c) ==
    [s EXCEPT !.msg = [size |-> @.size + PayloadSize(s),
                       room |-> IF @.room = 0 THEN s.payload_length ELSE @.room,
                       payload |-> @.payload \o c.payload]]

IsEntire(s) == s.msg.size = s.payload_length

\* The message goes, the header stays.
Taken(s) == [s EXCEPT !.msg = NoMessage]

\* recv_packet: an empty message is no message.
Ignores(s) == s.payload_length <= 0

----------------------------------------------------------------------------
NoPeer == [type |-> "media", length |-> 0, time |-> 0, delta |-> 0, left |-> 0, used |-> FALSE]

Messages == [type: Types, time: 0..(Wrap - 1), payload: Seq((1..MaxMessages) \X Nat)]

\* read_message_payload writes behind what it has, and never beyond the payload,
\* which was made for the length in an earlier header; also when the peer is
\* confused.
TypeOK ==
    /\ DOMAIN chunks = Cids
    /\ \A cid \in Cids :
        LET s == chunks[cid] IN
        /\ s.timestamp \in 0..(Wrap - 1)
        /\ s.timestamp_delta \in 0..Extended
        /\ s.payload_length \in Lengths \cup {0}
        /\ s.msg.size \in -1..s.payload_length
        /\ ~IsFirstChunk(s) => s.msg.size <= s.msg.room
    /\ in_chunk_size \in ChunkSizes
    /\ at \in {"read", "failed", "lost"}
    /\ DOMAIN received = Cids
    /\ \A cid \in Cids : received[cid] \in Seq(Messages) /\ sent[cid] \in Seq(Messages)
    /\ count \in 0..MaxMessages
    /\ Len(wire) \in 0..MaxWire

\* Nothing sets in_chunk_size: it is what the memory held.
Init ==
    /\ chunks = [cid \in Cids |-> FreshStream]
    /\ in_chunk_size \in ChunkSizes
    /\ at = "read"
    /\ received = [cid \in Cids |-> <<>>]
    /\ peer = [cid \in Cids |-> NoPeer]
    /\ peer_chunk \in ChunkSizes
    /\ sent = [cid \in Cids |-> <<>>]
    /\ count = 0
    /\ wire = <<>>

----------------------------------------------------------------------------
\* The peer.

\* A chunk of message id: as much payload as a chunk takes.
Payload(id, length, left) ==
    LET n == IF left < peer_chunk THEN left ELSE peer_chunk IN
    [i \in 1..n |-> <<id, length - left + i>>]

\* The loop of send_packet puts a chunk of the message on the way.
SendsChunk(cid, p, header, id) ==
    LET bytes == Payload(id, p.length, p.left) IN
    /\ Len(wire) < MaxWire
    /\ wire' = Append(wire, [header EXCEPT !.payload = bytes])
    /\ peer' = [peer EXCEPT ![cid] = [p EXCEPT !.left = @ - Len(bytes), !.used = TRUE]]

\* A message starts with an absolute time, or with the difference to the one
\* before; what is as in that one is left out.
StartMessage(cid, type, length, delta) ==
    LET old == peer[cid]
        id == count + 1
        time == (old.time + delta) % Wrap
        p == [old EXCEPT !.type = type, !.length = length, !.time = time, !.left = length]
        message == [type |-> type, time |-> time,
                    payload |-> [i \in 1..length |-> <<id, i>>]]
        same == old.used /\ type = old.type /\ length = old.length
        header(fmt) == Chunk(Basic(fmt, cid), IF fmt = 3 THEN 0 ELSE delta, length, type, FALSE)
    IN  /\ old.left = 0
        /\ count < MaxMessages
        /\ \/ SendsChunk(cid, [p EXCEPT !.delta = 0],
                         WithCid(C0(cid, time, length, type), 0, cid), id)
           \/ SendsChunk(cid, [p EXCEPT !.delta = delta], header(1), id)
           \/ same /\ SendsChunk(cid, [p EXCEPT !.delta = delta], header(2), id)
           \/ same /\ delta = old.delta /\ SendsChunk(cid, p, header(3), id)
        /\ count' = id
        /\ sent' = [sent EXCEPT ![cid] = IF length = 0 THEN @ ELSE Append(@, message)]
        /\ UNCHANGED <<peer_chunk, chunks, in_chunk_size, at, received>>

\* The identity of the message that is being sent.
CurrentId(cid) == sent[cid][Len(sent[cid])].payload[1][1]

ContinueMessage(cid) ==
    LET p == peer[cid] IN
    /\ p.left > 0
    /\ SendsChunk(cid, p, WithCid(C3(cid, p.time), 3, cid), CurrentId(cid))
    /\ UNCHANGED <<peer_chunk, sent, count, chunks, in_chunk_size, at, received>>

\* send_packet changes the size of chunks after a message that says so.
ChangeChunkSize(size) ==
    /\ \E cid \in Cids : peer[cid].used /\ peer[cid].left = 0 /\ peer[cid].type = "control"
    /\ peer_chunk' = size
    /\ UNCHANGED <<peer, sent, count, wire, chunks, in_chunk_size, at, received>>

\* A peer that is confused: chunks in an order that the protocol does not have,
\* or a message that becomes longer while it is sent.
Confused(cid, fmt, length) ==
    LET p == peer[cid]
        chunk == Chunk(Basic(fmt, cid), 0, length, p.type, FALSE)
        left == length - (p.length - p.left)
    IN  /\ Len(wire) < MaxWire
        /\ \/ /\ ~p.used
              /\ fmt \in {2, 3}
              /\ wire' = Append(wire, chunk)
           \/ /\ p.left > 0
              /\ fmt = 0 \/ (fmt = 1 /\ length > p.length)
              /\ left > 0
              /\ wire' = Append(wire, [chunk EXCEPT !.payload = Payload(CurrentId(cid), length, left)])
        /\ UNCHANGED <<peerVars, readerVars>>

----------------------------------------------------------------------------
\* One round of recv_interlaced_message, and of the loop of recv_packet around
\* it, when every read returns error_success.  recv_packet hands it no buffer:
\* every message has a payload of its own.
Recv ==
    LET c == Head(wire)
        cid == Cid(c.basic)
        s == Headed(chunks[cid], c)
        filled == Filled(s, c)
        message == [type |-> s.type, time |-> s.timestamp, payload |-> filled.msg.payload]
    IN  /\ at = "read"
        /\ wire # <<>>
        /\ wire' = Tail(wire)
        /\ \/ /\ Refused(chunks[cid], c)
              /\ at' = "failed"
              /\ chunks' = [chunks EXCEPT ![cid] = HeadRefused(@, c)]
              /\ UNCHANGED received
           \/ /\ ~Refused(chunks[cid], c)
              /\ OutOfStep(s, c)
              /\ at' = "lost"
              /\ UNCHANGED <<chunks, received>>
           \/ /\ ~Refused(chunks[cid], c)
              /\ ~OutOfStep(s, c)
              /\ ~IsEntire(filled)
              /\ chunks' = [chunks EXCEPT ![cid] = filled]
              /\ UNCHANGED <<at, received>>
           \/ /\ ~Refused(chunks[cid], c)
              /\ ~OutOfStep(s, c)
              /\ IsEntire(filled)
              /\ chunks' = [chunks EXCEPT ![cid] = Taken(filled)]
              /\ IF Ignores(s)
                 THEN UNCHANGED <<at, received>>
                 ELSE /\ at' = IF OnRecvMessage(s.type) THEN "read" ELSE "failed"
                      /\ received' = [received EXCEPT ![cid] = Append(@, message)]
        /\ UNCHANGED <<in_chunk_size, peerVars>>

\* A read that returns anything else: recv_packet returns it, and its callers
\* give up.  It may be the one of the basic header, of the message header or of
\* the payload.
RecvFails ==
    /\ at = "read"
    /\ at' = "failed"
    /\ \/ UNCHANGED chunks
       \/ /\ wire # <<>>
          /\ LET c == Head(wire)
                 cid == Cid(c.basic)
             IN  /\ ~Refused(chunks[cid], c)
                 /\ \/ /\ Fmt(c.basic) <= 2
                       /\ chunks' = [chunks EXCEPT ![cid] = Opened(@)]
                    \/ /\ ~IsExtended(chunks[cid], c)
                       /\ chunks' = [chunks EXCEPT ![cid] = Headed(@, c)]
    /\ UNCHANGED <<in_chunk_size, received, peerVars, wire>>

Next ==
    \/ Recv
    \/ RecvFails
    \/ \E cid \in Cids :
        \/ ContinueMessage(cid)
        \/ \E type \in Types, length \in Lengths, delta \in Deltas :
            StartMessage(cid, type, length, delta)
        \/ \E fmt \in 0..3, length \in Lengths : Confused(cid, fmt, length)
    \/ \E size \in ChunkSizes : ChangeChunkSize(size)

Spec == Init /\ [][Next]_vars

----------------------------------------------------------------------------
\* As long as the reader is in step, the messages that recv_packet gets from a
\* chunk stream are those that the peer sent on it, one after the other, with
\* their types, times and payloads, however the chunks of several streams
\* interleave and whichever headers the peer abbreviates; none of them is
\* empty, although empty ones may come in between.
ReceivedIsSent ==
    \A cid \in Cids :
        /\ Len(received[cid]) <= Len(sent[cid])
        /\ \A i \in 1..Len(received[cid]) : received[cid][i] = sent[cid][i]
=============================================================================
