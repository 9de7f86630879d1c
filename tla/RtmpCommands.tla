---------------------------- MODULE RtmpCommands ----------------------------
(***************************************************************************)
(* The packets of RTMP (protocol/rtmp/rtmp_stack): what decode, get_size   *)
(* and encode_packet of each class do, and do_decode_message, which        *)
(* chooses the class.                                                      *)
(*                                                                         *)
(* In this build none of it sees a byte: a Buffer made around an array is  *)
(* empty (see FreshReadLeft in ChunkStream), so that RtmpPacket::encode    *)
(* and on_recv_message fail in their first question for bytes, and         *)
(* on_recv_message hands commands to nobody.  Here the Buffer of decode    *)
(* has been written to: it holds a message, the start of one, or one       *)
(* followed by something else.                                             *)
(***************************************************************************)
EXTENDS Amf, FiniteSets

CONSTANTS
    Packets,     \* what the peer may send: its class and its fields
    Tails,       \* what may follow on the stream
    Tables       \* what requests may hold: the commands sent, by transaction

\* The names of commands and data, one byte for each.
Name == [connect |-> <<67>>, createStream |-> <<83>>, closeStream |-> <<88>>, play |-> <<80>>,
         pause |-> <<85>>, onStatus |-> <<79>>, result |-> <<82>>, error |-> <<69>>,
         releaseStream |-> <<76>>, FCPublish |-> <<70>>, FCUnpublish |-> <<78>>,
         publish |-> <<66>>, onMetaData |-> <<77>>, setDataFrame |-> <<64>>,
         code |-> <<111>>, startPublish |-> <<97>>, stopPlay |-> <<98>>, finished |-> <<99>>, playing |-> <<100>>]

BandwidthChecks == {Name.startPublish, Name.stopPlay, Name.finished, Name.playing}

\* 0.0, 1.0, 2.0, -1.0 and -2.0.
Zero     == Number(<<0, 0, 0, 0, 0, 0, 0, 0>>)
One      == Number(<<63, 240, 0, 0, 0, 0, 0, 0>>)
Two      == Number(<<64, 0, 0, 0, 0, 0, 0, 0>>)
MinusOne == Number(<<191, 240, 0, 0, 0, 0, 0, 0>>)
MinusTwo == Number(<<192, 0, 0, 0, 0, 0, 0, 0>>)

None == [type |-> "none"]           \* a null pointer
Raw(bytes) == [type |-> "int", bytes |-> bytes]

----------------------------------------------------------------------------
(* What decode reads: a field of a kind, which keeps its old value when      *)
(* nothing is read, may be one of some values only, and may be missing at    *)
(* the end of the stream.                                                    *)

Field(kind, old) == [kind |-> kind, old |-> old, only |-> {}, optional |-> FALSE]
Only(f, values)  == [f EXCEPT !.only = values]
Opt(f)           == [f EXCEPT !.optional = TRUE]

\* A name that must be one of some; the first of them is the constructor's.
Named(name, others) == Only(Field("string", String(name)), {String(n) : n \in {name} \cup others})
Num(bits) == Field("number", bits)
Nil == Field("null", Null)
Str == Field("string", String(<<>>))
Obj == Field("object", Object(<<>>))

\* The packet classes: what decode reads, and how many of the fields get_size
\* counts and encode_packet writes.  A class without decode or encode_packet
\* has those of RtmpPacket, which fail.
Invalid == <<Field("invalid", None)>>
RtmpPacket == [decode |-> Invalid, size |-> 0, encode |-> 0]

RtmpConnectAppPacket ==
    [decode |-> <<Named(Name.connect, {}), Num(One), Obj, Opt(Field("object or none", None))>>,
     size |-> 4, encode |-> 4]
RtmpConnectAppResPacket ==
    [decode |-> <<Named(Name.result, {}), Num(One), Opt(Field("object or old", Object(<<>>))), Obj>>,
     size |-> 4, encode |-> 4]
RtmpSetWindowAckSizePacket ==
    [decode |-> <<Field("int4", Raw(<<0, 0, 0, 0>>))>>, size |-> 1, encode |-> 1]
RtmpPlayPacket ==
    [decode |-> <<Named(Name.play, {}), Num(Zero), Nil, Str,
                  Opt(Num(MinusTwo)), Opt(Num(MinusOne)), Opt(Field("flag", Boolean(TRUE)))>>,
     size |-> 7, encode |-> 7]
RtmpPlayResPacket == [decode |-> Invalid, size |-> 4, encode |-> 4]
RtmpSetChunkSizePacket ==
    [decode |-> <<Field("int4", Raw(<<0, 0, 0, 128>>))>>, size |-> 1, encode |-> 1]
RtmpSetPeerBandwidthPacket == [decode |-> Invalid, size |-> 2, encode |-> 2]
RtmpUserControlPacket ==
    [decode |-> <<Field("int2", Raw(<<0, 0>>)), Field("event data", Raw(<<0, 0, 0, 0>>)),
                  Field("extra data", Raw(<<0, 0, 0, 0>>))>>,
     size |-> 3, encode |-> 3]
RtmpCreateStreamPacket ==
    [decode |-> <<Named(Name.createStream, {}), Num(Two), Nil>>, size |-> 3, encode |-> 3]
RtmpCreateStreamResPacket ==
    [decode |-> <<Named(Name.result, {}), Num(Zero), Nil, Num(Zero)>>, size |-> 4, encode |-> 4]
RtmpFMLEStartPacket ==
    [decode |-> <<Named(Name.releaseStream, {Name.FCPublish, Name.FCUnpublish}), Num(Zero), Nil, Str>>,
     size |-> 4, encode |-> 4]
RtmpFMLEStartResPacket ==
    [decode |-> <<Named(Name.result, {}), Num(Zero), Nil, Field("undefined", Undefined)>>,
     size |-> 4, encode |-> 4]

\* A mutant: the type is read without asking whether the stream goes on.
RtmpPublishPacket_TypeRequired ==
    [decode |-> <<Named(Name.publish, {}), Num(Zero), Nil, Str, Field("string", String(<<108>>))>>,
     size |-> 5, encode |-> 5]

RtmpPublishPacket ==
    [decode |-> <<Named(Name.publish, {}), Num(Zero), Nil, Str, Opt(Field("string", String(<<108>>)))>>,
     size |-> 5, encode |-> 5]
RtmpPausePacket ==
    [decode |-> <<Named(Name.pause, {}), Num(Zero), Nil, Field("boolean", Boolean(TRUE)), Num(Zero)>>,
     size |-> 0, encode |-> 0]
RtmpOnStatusCallPacket ==
    [decode |-> <<Named(Name.onStatus, {}), Only(Num(Zero), {Zero}), Nil, Field("status", Object(<<>>))>>,
     size |-> 4, encode |-> 4]
RtmpOnMetaDataPacket ==
    [decode |-> <<Field("data name", String(Name.onMetaData)), Field("metadata", Object(<<>>))>>,
     size |-> 2, encode |-> 2]
RtmpBandwidthPacket ==
    [decode |-> <<Field("string", String(Name.onStatus)), Num(Zero), Nil,
                  Field("data of some", Object(<<>>))>>,
     size |-> 4, encode |-> 4]
RtmpCloseStreamPacket ==
    [decode |-> <<Field("string", String(Name.closeStream)), Num(Zero), Nil>>, size |-> 0, encode |-> 0]
RtmpCallPacket ==
    [decode |-> <<Field("some string", String(<<>>)), Num(Zero), Field("any", None),
                  Opt(Field("any", None))>>,
     size |-> 4, encode |-> 4]
RtmpCallResPacket == [decode |-> Invalid, size |-> 4, encode |-> 4]
RtmpOnCustomAmfDataPacket == [decode |-> <<Str>>, size |-> 0, encode |-> 0]
RtmpAcknowledgementPacket ==
    [decode |-> <<Field("int4", Raw(<<0, 0, 0, 0>>))>>, size |-> 1, encode |-> 1]

Class ==
    [Packet |-> RtmpPacket, ConnectApp |-> RtmpConnectAppPacket,
     ConnectAppRes |-> RtmpConnectAppResPacket, SetWindowAckSize |-> RtmpSetWindowAckSizePacket,
     Play |-> RtmpPlayPacket, PlayRes |-> RtmpPlayResPacket,
     SetChunkSize |-> RtmpSetChunkSizePacket, SetPeerBandwidth |-> RtmpSetPeerBandwidthPacket,
     UserControl |-> RtmpUserControlPacket, CreateStream |-> RtmpCreateStreamPacket,
     CreateStreamRes |-> RtmpCreateStreamResPacket, FMLEStart |-> RtmpFMLEStartPacket,
     FMLEStartRes |-> RtmpFMLEStartResPacket, Publish |-> RtmpPublishPacket,
     Pause |-> RtmpPausePacket, OnStatusCall |-> RtmpOnStatusCallPacket,
     OnMetaData |-> RtmpOnMetaDataPacket, Bandwidth |-> RtmpBandwidthPacket,
     CloseStream |-> RtmpCloseStreamPacket, Call |-> RtmpCallPacket, CallRes |-> RtmpCallResPacket,
     OnCustomAmfData |-> RtmpOnCustomAmfDataPacket,
     Acknowledgement |-> RtmpAcknowledgementPacket]

ControlClasses ==
    {"SetWindowAckSize", "SetChunkSize", "SetPeerBandwidth", "UserControl", "Acknowledgement"}

\* The events of RtmpUserControlPacket that have fields of their own.
SetBufferLength == Raw(<<0, 3>>)
FmsEvent0       == Raw(<<0, 26>>)

ReadInt(s, n) == Then(Required(s, n), LAMBDA r : Done(r.left, Raw(r.value)))

\* A byte as event_data holds it: int8_t, extended to four bytes.
Extended(b) == LET sign == IF b >= 128 THEN 255 ELSE 0 IN Raw(<<sign, sign, sign, b>>)

\* The value of a field of a kind, after those in before.
ReadKind(f, s, before) ==
    CASE f.kind = "string"    -> ReadString(s, f.old.str)
      [] f.kind = "some string" -> Then(ReadString(s, f.old.str), LAMBDA r :
              IF r.value.str = <<>> THEN Fail(r.left) ELSE r)
      [] f.kind = "number"    -> ReadNumber(s)
      [] f.kind = "null"      -> ReadNull(s)
      [] f.kind = "boolean"   -> ReadBoolean(s)
      [] f.kind = "undefined" -> ReadUndefined(s)
      [] f.kind = "object"    -> ReadObject(s)
      [] f.kind = "any"       -> ReadAny(s)
      [] f.kind \in {"object or none", "object or old"} -> Then(ReadAny(s), LAMBDA r :
              Done(r.left, IF r.value.type = "object" THEN r.value ELSE f.old))
      [] f.kind = "flag" -> Then(ReadAny(s), LAMBDA r :
              CASE r.value.type = "boolean" -> r
                [] r.value.type = "number"  -> Done(r.left, Boolean(r.value # Zero))
                [] OTHER                    -> Fail(r.left))
      [] f.kind = "status" -> Then(ReadObject(s), LAMBDA r :
              IF GetProperty(r.value.props, Name.code) = {} THEN [r EXCEPT !.ret = "crash"] ELSE r)
      [] f.kind = "data name" -> Then(ReadString(s, f.old.str), LAMBDA r :
              IF r.value.str = Name.setDataFrame THEN ReadString(r.left, r.value.str) ELSE r)
      [] f.kind = "metadata" -> Then(ReadAny(s), LAMBDA r :
              CASE r.value.type = "object" -> r
                [] r.value.type = "ecma_array" ->
                     Done(r.left, Object(FoldLeft(LAMBDA ps, p : Set(ps, p.name, p.value),
                                                  f.old.props, r.value.props)))
                [] OTHER -> Done(r.left, f.old))
      [] f.kind = "data of some" ->
              IF before[1].str \in {Name.stopPlay, Name.startPublish, Name.finished}
                  THEN ReadObject(s) ELSE Done(s, f.old)
      [] f.kind = "int2" -> ReadInt(s, 2)
      [] f.kind = "int4" -> ReadInt(s, 4)
      [] f.kind = "event data" ->
              IF before[1] = FmsEvent0
                  THEN Then(Required(s, 1), LAMBDA r : Done(r.left, Extended(r.value[1])))
                  ELSE ReadInt(s, 4)
      [] f.kind = "extra data" ->
              IF before[1] = SetBufferLength THEN ReadInt(s, 4) ELSE Done(s, f.old)
      [] f.kind = "invalid" -> Fail(s)

ReadField(r, f) ==
    IF f.optional /\ r.left = <<>> THEN Done(r.left, Append(r.value, f.old))
    ELSE Then(ReadKind(f, r.left, r.value), LAMBDA q :
        IF f.only # {} /\ q.value \notin f.only THEN Fail(q.left)
                                                ELSE Done(q.left, Append(r.value, q.value)))

\* The decode of each class.
Decode(class, s) ==
    FoldLeft(LAMBDA r, f : Then(r, LAMBDA q : ReadField(q, f)), Done(s, <<>>), Class[class].decode)

----------------------------------------------------------------------------
(* What get_size counts and encode_packet writes.                            *)

\* The fields of RtmpPlayPacket that are not what they are by default.
PlaySized(v) ==
    IF ~v[7].flag THEN 7 ELSE IF v[6] # MinusOne THEN 6 ELSE IF v[5] # MinusTwo THEN 5 ELSE 4
PlayEncoded(v) ==
    4 + (IF v[5] # MinusTwo \/ v[6] # MinusOne \/ ~v[7].flag THEN 1 ELSE 0)
      + (IF v[6] # MinusOne \/ ~v[7].flag THEN 1 ELSE 0)
      + (IF ~v[7].flag THEN 1 ELSE 0)

Present(values) == SelectSeq(values, LAMBDA v : v # None)

\* A mutant: the extra data is counted for no event.
ControlSize_NoExtra(p) ==
    IF p.class = "UserControl" THEN 2 + (IF p.values[1] = FmsEvent0 THEN 1 ELSE 4)
    ELSE IF p.class = "SetPeerBandwidth" THEN 5 ELSE 4

ControlSize(p) ==
    IF p.class = "UserControl"
        THEN 2 + (IF p.values[1] = FmsEvent0 THEN 1 ELSE 4)
               + (IF p.values[1] = SetBufferLength THEN 4 ELSE 0)
        ELSE IF p.class = "SetPeerBandwidth" THEN 5 ELSE 4

GetSize(p) ==
    LET n == IF p.class = "Play" THEN PlaySized(p.values) ELSE Class[p.class].size IN
    IF p.class \in ControlClasses THEN ControlSize(p)
    ELSE FoldLeft(LAMBDA m, v : m + TotalSize(v), 0, Present(SubSeq(p.values, 1, n)))

ControlBytes(p) ==
    IF p.class = "UserControl"
        THEN p.values[1].bytes
             \o (IF p.values[1] = FmsEvent0 THEN <<Last(p.values[2].bytes)>> ELSE p.values[2].bytes)
             \o (IF p.values[1] = SetBufferLength THEN p.values[3].bytes ELSE <<>>)
        ELSE FoldLeft(LAMBDA b, v : b \o v.bytes, <<>>, p.values)

WriteFields(s, values) ==
    FoldLeft(LAMBDA r, v : Then(r, LAMBDA q : WriteAny(q.left, v)), Done(s, Null), values)

\* encode_packet of the classes; that of RtmpPacket is an error.
EncodePacket(p, s) ==
    LET n == IF p.class = "Play" THEN PlayEncoded(p.values) ELSE Class[p.class].encode IN
    IF p.class \in ControlClasses THEN Write(s, ControlBytes(p))
    ELSE IF n = 0 THEN Fail(s)
    ELSE WriteFields(s, Present(SubSeq(p.values, 1, n)))

----------------------------------------------------------------------------
(* do_decode_message.                                                        *)

\* Buffer::reset, before a packet's decode is to read the message once more,
\* empties the stream; the seek_read for AMF3 is then refused.
Restarted(s) == <<>>

CommandClass(name, header) ==
    CASE name = Name.connect      -> "ConnectApp"
      [] name = Name.createStream -> "CreateStream"
      [] name = Name.play         -> "Play"
      [] name = Name.pause        -> "Pause"
      [] name \in {Name.releaseStream, Name.FCPublish, Name.FCUnpublish} -> "FMLEStart"
      [] name = Name.publish      -> "Publish"
      [] name = Name.onStatus     -> "OnStatusCall"
      [] name \in {Name.setDataFrame, Name.onMetaData} -> "OnMetaData"
      [] name \in BandwidthChecks -> "Bandwidth"
      [] name = Name.closeStream  -> "CloseStream"
      [] OTHER -> IF header \in {"amf0 command", "amf3 command"} THEN "Call" ELSE "OnCustomAmfData"

\* A packet that tells something only, and data of others, may fail to decode;
\* on a Buffer that is Restarted the latter always does.
DoDecodeCommand(header, name, s) ==
    LET class == CommandClass(name, header)
        r == Decode(class, s)
    IN  IF class \in {"OnStatusCall", "OnCustomAmfData"} /\ r.ret = "error"
            THEN Done(r.left, <<>>) ELSE r

\* The class of the answer to a command that requests has.
ResponseClass(command) ==
    CASE command = Name.connect      -> "ConnectAppRes"
      [] command = Name.createStream -> "CreateStreamRes"
      [] command \in {Name.releaseStream, Name.FCPublish, Name.FCUnpublish} -> "FMLEStartRes"
      [] OTHER -> "Packet"

DecodeResponse(s, table) ==
    Then(ReadNumber(s), LAMBDA r :
        IF r.value.bits \notin DOMAIN table THEN Fail(Restarted(s))
        ELSE Decode(ResponseClass(table[r.value.bits]), Restarted(s)))

\* For a command that is decoded the packet is an RtmpPacket all the same.
DecodeCommand(header, s, table) ==
    LET body == IF header = "amf3 command" /\ s # <<>> THEN Tail(s) ELSE s IN
    Then(ReadString(body, <<>>), LAMBDA name :
        IF name.value.str \in {Name.result, Name.error} THEN DecodeResponse(name.left, table)
        ELSE Then(DoDecodeCommand(header, name.value.str, Restarted(s)), LAMBDA r :
            Done(r.left, <<>>)))

DoDecodeMessage(header, s, table) ==
    CASE header \in {"amf0 command", "amf3 command", "amf0 data", "amf3 data"} ->
            DecodeCommand(header, s, table)
      [] header \in {"SetWindowAckSize", "SetChunkSize", "UserControl"} -> Decode(header, s)
      [] OTHER -> Done(s, <<>>)

----------------------------------------------------------------------------
(* Messages arrive, and are decoded.                                         *)

VARIABLES
    message,     \* what the peer has sent: packet, cut, tail
    header,      \* its message type
    requests,
    stream,      \* the Buffer that is decoded
    phase,       \* idle, arrived, or which of the functions has returned
    result       \* what it returned

vars == <<message, header, requests, stream, phase, result>>

Nothing == [packet |-> None, cut |-> 0, tail |-> <<>>]

\* The fields of a packet that are sent: an RtmpPlayPacket leaves out what it
\* can.  There is enough to read on the Buffer they are written to.
Sent(p) ==
    Present(SubSeq(p.values, 1, IF p.class = "Play" THEN PlayEncoded(p.values) ELSE Len(p.values)))
Filler == [i \in 1..16 |-> 0]
Written(r) == Dropped(r.left, Len(Filler))
Wire(p) == IF p.class \in ControlClasses THEN ControlBytes(p)
                                         ELSE Written(WriteFields(Filler, Sent(p)))

\* Where the first k of these fields end.
EndOf(p, k) ==
    IF p.class \in ControlClasses
        THEN Len(ControlBytes(p)) - (IF k = 0 THEN Len(ControlBytes(p)) ELSE 0)
        ELSE Len(Written(WriteFields(Filler, SubSeq(Sent(p), 1, k))))

Headers(p) ==
    IF p.class \in ControlClasses THEN {p.class}
    ELSE IF p.class \in {"OnMetaData", "OnCustomAmfData"} THEN {"amf0 data", "amf3 data"}
    ELSE {"amf0 command", "amf3 command"}

Init ==
    /\ message = Nothing /\ header = "none" /\ requests = <<>>
    /\ stream = <<>> /\ phase = "idle" /\ result = Done(<<>>, <<>>)

Receive(p, cut, tail, h, table) ==
    /\ phase = "idle"
    /\ message' = [packet |-> p, cut |-> cut, tail |-> tail]
    /\ header' = h
    /\ requests' = table
    /\ stream' = (IF h = "amf3 command" THEN <<0>> ELSE <<>>) \o SubSeq(Wire(p), 1, cut) \o tail
    /\ phase' = "arrived"
    /\ UNCHANGED result

\* The decode of the class that the peer has sent.
DecodePacket ==
    /\ phase = "arrived" /\ header # "amf3 command"
    /\ result' = Decode(message.packet.class, stream)
    /\ stream' = result'.left
    /\ phase' = "packet"
    /\ UNCHANGED <<message, header, requests>>

DecodeMessage ==
    /\ phase = "arrived"
    /\ result' = DoDecodeMessage(header, stream, requests)
    /\ stream' = result'.left
    /\ phase' = "message"
    /\ UNCHANGED <<message, header, requests>>

Next ==
    \/ /\ phase = "idle"
       /\ \E p \in Packets, tail \in Tails, table \in Tables :
             \E cut \in 0..Len(Wire(p)), h \in Headers(p) : Receive(p, cut, tail, h, table)
    \/ DecodePacket
    \/ DecodeMessage

Spec == Init /\ [][Next]_vars

----------------------------------------------------------------------------
\* Whatever is on the stream, cut off anywhere or followed by anything, no
\* reader asks a Buffer for more than it holds, which would end the process.
TypeOK ==
    /\ phase \in {"idle", "arrived", "packet", "message"}
    /\ result.ret \in {"success", "error", "crash"}
    /\ result.left \in Seq(0..255)

\* The packets without values inside of values.
Plain(p) ==
    /\ \A f \in ToSet(Class[p.class].decode) :
          f.kind \in {"string", "number", "null", "boolean", "undefined", "int2", "int4",
                      "event data", "extra data", "flag"}
    /\ \A i \in DOMAIN Class[p.class].decode :
          Class[p.class].decode[i].kind = "flag" => Len(Sent(p)) < i

\* An empty string on the wire leaves a field as it was.
Kept(f, v) == IF v = String(<<>>) THEN f.old ELSE v

\* The fields that rtmp_stack.hpp calls optional: a client may leave them out.
MayBeMissing(p) == CASE p.class = "Play" -> 5..7 [] p.class = "Publish" -> {5} [] OTHER -> {}

\* A plain packet is understood if it is whole, or if all that is missing of it
\* are fields that may be missing, which then have their default values; and
\* what is understood is what was sent.  All other beginnings of it are
\* refused.
CommandIsUnderstood ==
    LET p == message.packet IN
    phase = "packet" /\ message.tail = <<>> /\ Plain(p) =>
        LET fields == Class[p.class].decode
            enough == {k \in 0..Len(Sent(p)) :
                          /\ EndOf(p, k) = message.cut
                          /\ (k + 1)..Len(Sent(p)) \subseteq MayBeMissing(p)}
        IN  /\ result.ret = "success" <=> enough # {}
            /\ \A k \in enough : \A i \in DOMAIN fields :
                  result.value[i] = IF i <= k THEN Kept(fields[i], p.values[i]) ELSE fields[i].old

\* get_size, for which RtmpPacket::encode makes a payload, is the size of what
\* encode_packet writes, on a Buffer with room for it.
SizeIsWritten ==
    LET p == message.packet
        r == EncodePacket(p, Filler)
    IN  phase = "arrived" /\ r.ret = "success" => Len(Written(r)) = GetSize(p)
=============================================================================
