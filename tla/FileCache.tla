----------------------------- MODULE FileCache -----------------------------
(***************************************************************************)
(* Files in memory (base/cache/tmss_static, tmss_segment): the server's    *)
(* cache of static files, each filled by an input of its own, and the      *)
(* segments that a channel cuts its stream into.  Request handlers         *)
(* (handle_play_file and handle_play_segment in media_source_handler) copy *)
(* a file to their clients while it grows.                                 *)
(*                                                                         *)
(* An action is the code between two blocking calls: seek_range's wait,    *)
(* the writes to a client, and the connect of a file's input.  Bytes are   *)
(* numbered in the order in which the muxer of a segment wrote them.       *)
(***************************************************************************)
EXTENDS Naturals, Sequences, FiniteSets, Functions

CONSTANTS
    Readers,     \* the requests
    Keys,        \* names of static files
    MaxFiles,    \* bound: how many File objects are made
    MaxPackets,  \* bound: how many packets the channel dispatches
    Steps,       \* by how much a timestamp exceeds the one before
    MaxTime,     \* bound: the last timestamp
    Chunk,       \* the 1024 bytes a reader copies at a time
    MuxBuffer,   \* the 16 KiB that a muxer hands on at most
    InitSize,    \* the 16 KiB a segment's file starts with
    Growth,      \* the factor 16 it grows by
    SizeLimit,   \* the 1 GiB that no file reaches
    SegmentMs    \* the 5 s after which a segment ends

ASSUME FileCacheAssumption ==
    /\ {MaxFiles, MaxPackets, MaxTime, Chunk, MuxBuffer, InitSize, Growth, SizeLimit,
        SegmentMs} \subseteq Nat \ {0}
    /\ Steps \subseteq Nat
    /\ MuxBuffer <= InitSize

VARIABLES
    files,      \* the File objects, in the order they were made
    written,    \* history: what was appended to each of them
    file_cache, \* the server's FileCache
    input,      \* a file's FileInputHandler: none, connecting or ended
    enabled,    \* the channel has a SegmentsCache
    segments,   \* SegmentsCache::static_cache
    current,    \* SegmentsCache::current_segment
    packets,    \* how many packets there were
    now,        \* the timestamp of the last one
    reader,     \* the requests
    crashed     \* the process has ended

fileVars == <<files, written>>
vars == <<files, written, file_cache, input, enabled, segments, current, packets, now,
          reader, crashed>>

----------------------------------------------------------------------------
FileIds == 1..Len(files)

\* A byte that was never written, or one beyond the array.
Junk == 0

\* data is what is in the array; size is what the File takes its length for.
NewFile(name) ==
    [name |-> name, data |-> <<>>, size |-> 0, pos |-> 0, total_length |-> 0]

Complete(f) == f.total_length > 0 /\ f.pos >= f.total_length

LeftSize(f) == f.size - f.pos

\* init_buffer: a larger array is filled with what there is, and let go again
\* (data is not set to new_data), while size says it is there.
TooLarge(size) == size >= SizeLimit

Buffered(f, size) ==
    [f EXCEPT !.data = IF f.data = <<>> THEN [i \in 1..size |-> Junk] ELSE @,
              !.size = size]

InitBuffer(f, size) == IF TooLarge(size) \/ size < f.size THEN f ELSE Buffered(f, size)

\* append, when it has to, asks for a multiple of what it needs.
Grown(f, n) ==
    IF n > LeftSize(f)
        THEN InitBuffer(f, Growth * ((IF f.size > n THEN f.size ELSE n) + 1))
        ELSE f

\* The array with bytes copied to it from an index on.  What lies beyond its
\* end is memory of somebody else's.
Stored(data, from, bytes) ==
    LET end == IF from + Len(bytes) > Len(data) THEN from + Len(bytes) ELSE Len(data) IN
    [i \in 1..end |->
        IF i \in (from + 1)..(from + Len(bytes)) THEN bytes[i - from]
        ELSE IF i <= Len(data) THEN data[i] ELSE Junk]

\* A mutant: the bytes go to where the file ends, of an array that has not
\* grown.
Overwritten_AtPos(f, bytes) == Stored(f.data, f.pos, bytes)

\* memcpy(data, buffer, append_size): always to the start of the array.
Overwritten(f, bytes) == Stored(f.data, 0, bytes)

\* append: refused when the file cannot grow any more.
Fits(f, n) == n <= LeftSize(Grown(f, n))

Appended(f, bytes) ==
    LET g == Grown(f, Len(bytes)) IN
    [g EXCEPT !.data = Overwritten(g, bytes), !.pos = @ + Len(bytes)]

----------------------------------------------------------------------------
NoSegment == [file |-> 0, duration_ms |-> 0, last_timestamp |-> 0, first_timestamp |-> 0]

ReaderStates == {"new", "wait", "woken", "write", "ended"}

Stamps == 0..MaxTime

\* The muxer's buffer is not larger than a segment's first array, so that a
\* write, which goes to its start, stays inside, although later on the file
\* believes in more room than it has.
TypeOK ==
    /\ files \in Seq([name: Keys \cup {"segment"}, data: Seq(0..(MaxPackets * MuxBuffer)),
                      size: 0..SizeLimit, pos: Nat, total_length: {0}])
    /\ Len(files) <= MaxFiles
    /\ \A id \in FileIds : Len(files[id].data) <= InitSize
    /\ DOMAIN written = FileIds
    /\ file_cache \in [Keys -> 0..MaxFiles]
    /\ input \in [1..MaxFiles -> {"none", "connect", "ended"}]
    /\ enabled \in BOOLEAN
    /\ segments \in [Stamps -> 0..MaxFiles]
    /\ current \in [file: 0..MaxFiles, duration_ms: Nat,
                   last_timestamp: Stamps, first_timestamp: Stamps]
    /\ packets \in 0..MaxPackets
    /\ now \in Stamps
    /\ reader \in [Readers -> [at: ReaderStates, file: 0..MaxFiles, offset: Nat, good: BOOLEAN]]
    /\ crashed \in BOOLEAN

Init ==
    /\ files = <<>>
    /\ written = <<>>
    /\ file_cache = [k \in Keys |-> 0]
    /\ input = [id \in 1..MaxFiles |-> "none"]
    /\ enabled = FALSE
    /\ segments = [t \in Stamps |-> 0]
    /\ current = NoSegment
    /\ packets = 0
    /\ now = 0
    /\ reader = [r \in Readers |-> [at |-> "new", file |-> 0, offset |-> 0, good |-> TRUE]]
    /\ crashed = FALSE

----------------------------------------------------------------------------
\* A mutant: memcpy(buffer, data, wanted_size).
Copies_FromStart(r, id, offset) ==
    LET f == files[id]
        n == IF f.pos - offset < Chunk THEN f.pos - offset ELSE Chunk
        bytes == [i \in 1..n |-> IF i <= Len(f.data) THEN f.data[i] ELSE Junk]
    IN  /\ reader' = [reader EXCEPT ![r] =
                        [at |-> "write", file |-> id, offset |-> offset + n,
                         good |-> @.good /\ bytes = SubSeq(written[id], offset + 1, offset + n)]]
        /\ crashed' = FALSE

\* The rest of seek_range, after its wait or without one, and the write that
\* follows.  good notes whether the bytes are those of the file.  Beyond the
\* array there is junk, or nothing at all.
Copies(r, id, offset) ==
    LET f == files[id]
        n == IF f.pos - offset < Chunk THEN f.pos - offset ELSE Chunk
        bytes == [i \in 1..n |-> IF offset + i <= Len(f.data) THEN f.data[offset + i] ELSE Junk]
    IN  /\ reader' = [reader EXCEPT ![r] =
                        [at |-> "write", file |-> id, offset |-> offset + n,
                         good |-> @.good /\ bytes = SubSeq(written[id], offset + 1, offset + n)]]
        /\ crashed' \in (IF offset + n > Len(f.data) THEN BOOLEAN ELSE {FALSE})

\* The head of the readers' loop: done, wait for more, or copy.
Continues(r, id, offset) ==
    LET f == files[id]
        done == Complete(f) /\ offset >= f.total_length
    IN  IF (done \/ offset >= f.pos)
            THEN /\ reader' = [reader EXCEPT ![r].at = IF done THEN "ended" ELSE "wait",
                                             ![r].file = id]
                 /\ UNCHANGED crashed
            ELSE Copies(r, id, offset)

\* Which cached file serves a request.  An update time within the last second
\* would do as well; nothing ever sets it, since no input gets that far.
Reusable(f) == ~Complete(f)

Found(k) == file_cache[k] # 0 /\ Reusable(files[file_cache[k]])

\* handle_play_file: a request for a file that is there,
PlayFile(r, k) ==
    /\ reader[r].at = "new"
    /\ Found(k)
    /\ Continues(r, file_cache[k], 0)
    /\ UNCHANGED <<files, written, file_cache, input, enabled, segments, current, packets, now>>

\* and for one that is not: create_origin_file makes it and runs its input.
CreateOriginFile(r, k) ==
    LET id == Len(files) + 1 IN
    /\ reader[r].at = "new"
    /\ ~Found(k)
    /\ id <= MaxFiles
    /\ files' = Append(files, NewFile(k))
    /\ written' = Append(written, <<>>)
    /\ file_cache' = [file_cache EXCEPT ![k] = id]
    /\ input' = [input EXCEPT ![id] = "connect"]
    /\ reader' = [reader EXCEPT ![r].at = "wait", ![r].file = id]
    /\ UNCHANGED <<enabled, segments, current, packets, now, crashed>>

\* FileInputHandler::cycle: when the connect succeeds, the request is made
\* with a client that nobody has set.
InputConnects(id) ==
    /\ input[id] = "connect"
    /\ \/ input' = [input EXCEPT ![id] = "ended"] /\ UNCHANGED crashed
       \/ crashed' = TRUE /\ UNCHANGED input
    /\ UNCHANGED <<fileVars, file_cache, enabled, segments, current, packets, now, reader>>

\* handle_play_segment: the first request gives the channel its segments; the
\* one that is asked for is there, or the answer is 404 and the client may ask
\* again.
PlaySegment(r, t) ==
    /\ reader[r].at = "new"
    /\ enabled' = TRUE
    /\ \/ segments[t] # 0 /\ Continues(r, segments[t], 0)
       \/ segments[t] = 0 /\ UNCHANGED <<reader, crashed>>
    /\ UNCHANGED <<fileVars, file_cache, input, segments, current, packets, now>>

\* seek_range's wait ends: an append has broadcast, or an interrupt.
Interrupted(r) ==
    /\ reader[r].at = "wait"
    /\ reader' = [reader EXCEPT ![r].at = "woken"]
    /\ UNCHANGED <<fileVars, file_cache, input, enabled, segments, current, packets, now, crashed>>

SeekRange(r) ==
    /\ reader[r].at = "woken"
    /\ Copies(r, reader[r].file, reader[r].offset)
    /\ UNCHANGED <<fileVars, file_cache, input, enabled, segments, current, packets, now>>

\* The write to the client has ended.  That it failed shows nowhere: RawMux
\* returns no error for it, and the reader goes on.
Written(r) ==
    /\ reader[r].at = "write"
    /\ Continues(r, reader[r].file, reader[r].offset)
    /\ UNCHANGED <<fileVars, file_cache, input, enabled, segments, current, packets, now>>

----------------------------------------------------------------------------
\* A mutant: a name that is taken keeps its file.
AddFile_IfAbsent(cache, name, id) == IF cache[name] = 0 THEN [cache EXCEPT ![name] = id] ELSE cache

\* FileCache::add_file
AddFile(cache, name, id) == [cache EXCEPT ![name] = id]

\* A mutant: st_cond_signal.
Notified_One(id) ==
    LET waiting == {r \in Readers : reader[r].at = "wait" /\ reader[r].file = id}
    IN  IF waiting = {} THEN {} ELSE {CHOOSE r \in waiting : TRUE}

\* st_cond_broadcast, in append.
Notified(id) == {r \in Readers : reader[r].at = "wait" /\ reader[r].file = id}

\* SegmentHandler
NewSegment(id) ==
    [file |-> id, duration_ms |-> 0, last_timestamp |-> 0, first_timestamp |-> 0]

\* append_pts
Duration(segment, t) ==
    segment.duration_ms
        + (IF segment.last_timestamp > 0 THEN t - segment.last_timestamp ELSE 0)

\* Whether a segment ends before a packet.  The file of the next one is named
\* after the first timestamp of the one that ends.
Rolls(t, is_key_frame) ==
    current # NoSegment /\ is_key_frame /\ Duration(current, t) >= SegmentMs

\* SegmentsCache::handle_packet up to SegmentHandler::handle_packet: which
\* segment the packet is for.  <<segment, files, segments>>
Target(t, is_key_frame) ==
    LET id == Len(files) + 1
        file == InitBuffer(NewFile("segment"), InitSize)
    IN  IF current # NoSegment /\ ~Rolls(t, is_key_frame)
            THEN <<[current EXCEPT !.duration_ms = Duration(current, t)], files, segments>>
            ELSE <<NewSegment(id), Append(files, file),
                   AddFile(segments, IF current = NoSegment THEN t
                                     ELSE current.first_timestamp, id)>>

\* SegmentHandler::handle_packet: the muxer, whose format makes of a packet
\* what it likes, hands n bytes on to write.  They are refused when the file is
\* full; the packet's timestamp is then not noted.
HandlePacket(t, is_key_frame, n) ==
    LET target == Target(t, is_key_frame)
        segment == target[1]
        made == target[2]
        id == segment.file
        bytes == [i \in 1..n |-> packets * MuxBuffer + i]
        first == segment.first_timestamp
    IN  /\ enabled
        /\ packets < MaxPackets
        /\ Len(made) <= MaxFiles
        /\ packets' = packets + 1
        /\ now' = t
        /\ segments' = target[3]
        /\ \/ /\ Fits(made[id], n)
              /\ files' = [made EXCEPT ![id] = IF n = 0 THEN @ ELSE Appended(@, bytes)]
              /\ written' = IF id \in FileIds THEN [written EXCEPT ![id] = @ \o bytes]
                                              ELSE Append(written, bytes)
              /\ current' = [segment EXCEPT !.last_timestamp = t,
                                            !.first_timestamp = IF first = 0 THEN t ELSE first]
              /\ reader' = [r \in Readers |-> IF n > 0 /\ r \in Notified(id)
                                                  THEN [reader[r] EXCEPT !.at = "woken"]
                                                  ELSE reader[r]]
           \/ /\ ~Fits(made[id], n)
              /\ files' = made
              /\ written' = IF id \in FileIds THEN written ELSE Append(written, <<>>)
              /\ current' = segment
              /\ UNCHANGED reader
        /\ UNCHANGED <<file_cache, input, enabled, crashed>>

Next ==
    /\ ~crashed
    /\ \/ \E r \in Readers :
            \/ \E k \in Keys : PlayFile(r, k) \/ CreateOriginFile(r, k)
            \/ \E t \in Stamps : PlaySegment(r, t)
            \/ Interrupted(r) \/ SeekRange(r) \/ Written(r)
       \/ \E id \in FileIds : InputConnects(id)
       \/ \E step \in Steps, is_key_frame \in BOOLEAN, n \in 0..MuxBuffer :
            now + step <= MaxTime /\ HandlePacket(now + step, is_key_frame, n)

Spec == Init /\ [][Next]_vars

----------------------------------------------------------------------------
\* seek_range waits only for bytes that are not there yet: no append, in
\* whatever order it comes to the other readers and requests, leaves one
\* waiting for what it has brought.
NoMissedBroadcast ==
    \A r \in Readers : reader[r].at = "wait" => reader[r].offset = files[reader[r].file].pos

\* SegmentHandler refers to its file weakly, and write uses it unasked: what is
\* being written is always in the cache, under whatever name.
CurrentIsCached ==
    current # NoSegment => \E t \in Stamps : segments[t] = current.file

\* What is written at once is read as it was written, in pieces, by readers who
\* come before, between and after.  What is written in several pieces is not:
\* each of them goes to the start of the array.
OneWriteIsDelivered ==
    \A r \in Readers : reader[r].file # 0 =>
        LET pieces == {(b - 1) \div MuxBuffer : b \in Range(written[reader[r].file])}
        IN  Cardinality(pieces) <= 1 => reader[r].good
=============================================================================
