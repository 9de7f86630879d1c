-------------------------------- MODULE Amf --------------------------------
(***************************************************************************)
(* AMF0, the encoding of RTMP's commands (protocol/rtmp/rtmp_amf): the     *)
(* sizes, writers and readers of its values as operators.                  *)
(*                                                                         *)
(* A stream is the sequence of bytes that a class Buffer holds (Buffer     *)
(* implements ByteQueue, which is such a sequence).  A reader or writer    *)
(* returns what is left of the stream, the value it has read and ret,      *)
(* which is "assert" when a Buffer would stop the process.                 *)
(*                                                                         *)
(* Two things that the code means to do with a Buffer are not done by it:  *)
(*   - seek_read refuses a negative length, so that what is only to be     *)
(*     looked at is read;                                                  *)
(*   - the writers ask read_require for room, which tells what there is to *)
(*     read.                                                               *)
(*                                                                         *)
(* A Buffer that is written to has room: the assertion of write_1byte and  *)
(* the others that there is, and the refusal of write_bytes, are left out. *)
(***************************************************************************)
EXTENDS Integers, SequencesExt

\* The markers of rtmp_amf.hpp.
Marker == [number |-> 0, boolean |-> 1, string |-> 2, object |-> 3, null |-> 5,
           undefined |-> 6, ecma_array |-> 8, object_end |-> 9, strict_array |-> 10,
           date |-> 11]

\* The classes of Amf0Any.  A double, a date and a time zone are the bytes that
\* are copied.
Number(bits)             == [type |-> "number", bits |-> bits]
Boolean(flag)            == [type |-> "boolean", flag |-> flag]
String(str)              == [type |-> "string", str |-> str]
Null                     == [type |-> "null"]
Undefined                == [type |-> "undefined"]
Date(bits, zone)         == [type |-> "date", bits |-> bits, zone |-> zone]
Object(props)            == [type |-> "object", props |-> props]
EcmaArray(count, props)  == [type |-> "ecma_array", count |-> count, props |-> props]
StrictArray(count, list) == [type |-> "strict_array", count |-> count, list |-> list]
ObjectEOF                == [type |-> "object_end"]

\* UnSortedHashtable::set: a property that is there moves to the end.
Set(props, name, value) ==
    Append(SelectSeq(props, LAMBDA p : p.name # name), [name |-> name, value |-> value])

\* UnSortedHashtable::get_property, as the set of what it finds.
GetProperty(props, name) == {props[i].value : i \in {j \in DOMAIN props : props[j].name = name}}

----------------------------------------------------------------------------
(* Amf0Size.                                                                 *)

SizeOfUtf8(str) == 2 + Len(str)

RECURSIVE TotalSize(_)
SizeOfProperties(props) ==
    FoldLeft(LAMBDA n, p : n + SizeOfUtf8(p.name) + TotalSize(p.value), 0, props) + 3
TotalSize(v) ==
    CASE v.type = "number"       -> 1 + 8
      [] v.type = "boolean"      -> 1 + 1
      [] v.type = "string"       -> 1 + SizeOfUtf8(v.str)
      [] v.type = "date"         -> 1 + 8 + 2
      [] v.type = "object"       -> 1 + SizeOfProperties(v.props)
      [] v.type = "ecma_array"   -> 1 + 4 + SizeOfProperties(v.props)
      [] v.type = "strict_array" -> FoldLeft(LAMBDA n, e : n + TotalSize(e), 1 + 4, v.list)
      [] v.type = "object_end"   -> 3
      [] OTHER                   -> 1

----------------------------------------------------------------------------
(* Results, one after the other.                                             *)

Done(left, value) == [ret |-> "success", left |-> left, value |-> value]
Fail(left)        == [ret |-> "error", left |-> left, value |-> Null]

Then(r, Next(_)) == IF r.ret = "success" THEN Next(r) ELSE r

Dropped(s, n) == SubSeq(s, n + 1, Len(s))

\* Buffer::read_1byte to read_8bytes, read_string: with an assertion;
ReadBytes(s, n) ==
    IF n <= Len(s) THEN Done(Dropped(s, n), SubSeq(s, 1, n))
                   ELSE [Fail(s) EXCEPT !.ret = "assert"]

\* and after the question for the n bytes, read_require(n).
Required(s, n) == IF n <= Len(s) THEN ReadBytes(s, n) ELSE Fail(s)

\* What each writer does: n bytes to read are asked for, then n are written.
Write(s, bytes) == IF Len(bytes) <= Len(s) THEN Done(s \o bytes, Null) ELSE Fail(s)

----------------------------------------------------------------------------
(* The writers.                                                              *)

Bytes2(n) == <<(n \div 256) % 256, n % 256>>
Bytes4(n) == <<0, 0>> \o Bytes2(n)

WriteUtf8(s, str) ==
    Then(Write(s, Bytes2(Len(str))),
         LAMBDA r : IF str = <<>> THEN r ELSE Write(r.left, str))

WriteObjectEOF(s) ==
    Then(Write(s, <<0, 0>>), LAMBDA r : Write(r.left, <<Marker.object_end>>))

RECURSIVE WriteAny(_, _)
WriteProperties(s, props) ==
    Then(FoldLeft(LAMBDA r, p : Then(Then(r, LAMBDA q : WriteUtf8(q.left, p.name)),
                                     LAMBDA q : WriteAny(q.left, p.value)),
                  Done(s, Null), props),
         LAMBDA r : WriteObjectEOF(r.left))

\* amf0_write_any: the write of each class, which starts with its marker.
WriteAny(s, v) ==
    IF v.type = "object_end" THEN WriteObjectEOF(s)
    ELSE Then(Write(s, <<Marker[v.type]>>), LAMBDA r :
        CASE v.type = "number"     -> Write(r.left, v.bits)
          [] v.type = "boolean"    -> Write(r.left, <<IF v.flag THEN 1 ELSE 0>>)
          [] v.type = "string"     -> WriteUtf8(r.left, v.str)
          [] v.type = "date"       -> Then(Write(r.left, v.bits),
                                           LAMBDA q : Write(q.left, v.zone))
          [] v.type = "object"     -> WriteProperties(r.left, v.props)
          [] v.type = "ecma_array" -> Then(Write(r.left, Bytes4(v.count)),
                                           LAMBDA q : WriteProperties(q.left, v.props))
          [] v.type = "strict_array" ->
                FoldLeft(LAMBDA q, e : Then(q, LAMBDA p : WriteAny(p.left, e)),
                         Write(r.left, Bytes4(v.count)), v.list)
          [] OTHER                 -> r)

----------------------------------------------------------------------------
(* The readers.                                                              *)

Signed(byte) == IF byte >= 128 THEN byte - 256 ELSE byte
Int16(b) == Signed(b[1]) * 256 + b[2]
Int32(b) == ((Signed(b[1]) * 256 + b[2]) * 256 + b[3]) * 256 + b[4]

\* A value of one of the classes: its marker first.
Marked(s, type) ==
    Then(Required(s, 1), LAMBDA r : IF r.value = <<Marker[type]>> THEN r ELSE Fail(r.left))

\* amf0_read_utf8: a length that is not positive, as a signed number of two
\* bytes, leaves the caller's string as it was.
ReadUtf8(s, old) ==
    Then(Required(s, 2), LAMBDA r :
        LET n == Int16(r.value) IN IF n <= 0 THEN Done(r.left, old) ELSE Required(r.left, n))

ReadString(s, old) ==
    Then(Marked(s, "string"), LAMBDA r :
        Then(ReadUtf8(r.left, old), LAMBDA q : Done(q.left, String(q.value))))

\* A mutant: the value is taken without asking whether it is there.
ReadNumber_Unasked(s) ==
    Then(Marked(s, "number"), LAMBDA r :
        Then(ReadBytes(r.left, 8), LAMBDA q : Done(q.left, Number(q.value))))

ReadNumber(s) ==
    Then(Marked(s, "number"), LAMBDA r :
        Then(Required(r.left, 8), LAMBDA q : Done(q.left, Number(q.value))))

ReadBoolean(s) ==
    Then(Marked(s, "boolean"), LAMBDA r :
        Then(Required(r.left, 1), LAMBDA q : Done(q.left, Boolean(q.value # <<0>>))))

ReadNull(s)      == Then(Marked(s, "null"), LAMBDA r : Done(r.left, Null))
ReadUndefined(s) == Then(Marked(s, "undefined"), LAMBDA r : Done(r.left, Undefined))

ReadDate(s) ==
    Then(Marked(s, "date"), LAMBDA r :
        Then(Required(r.left, 8), LAMBDA day :
            Then(Required(day.left, 2), LAMBDA q : Done(q.left, Date(day.value, q.value)))))

ReadObjectEOF(s) ==
    Then(Required(s, 2), LAMBDA r :
        IF r.value # <<0, 0>> THEN Fail(r.left)
        ELSE Then(Required(r.left, 1), LAMBDA q :
            IF q.value = <<Marker.object_end>> THEN Done(q.left, ObjectEOF) ELSE Fail(q.left)))

\* amf0_is_object_eof, and what it leaves: three bytes less, if there are three.
IsObjectEOF(s)    == Len(s) >= 3 /\ SubSeq(s, 1, 3) = <<0, 0, Marker.object_end>>
AfterEOFCheck(s)  == IF Len(s) >= 3 THEN Dropped(s, 3) ELSE s

\* Amf0Any::discovery: the type of the next value, without its marker.
Discovery(s) ==
    IF IsObjectEOF(s) THEN Done(AfterEOFCheck(s), "object_end")
    ELSE Then(Required(AfterEOFCheck(s), 1), LAMBDA r :
        LET types == {t \in DOMAIN Marker \ {"object_end"} : <<Marker[t]>> = r.value}
        IN  IF types = {} THEN Fail(r.left)
                          ELSE Done(r.left, CHOOSE t \in types : TRUE))

RECURSIVE ReadTyped(_, _), ReadProperties(_, _, _), ReadElements(_, _, _)

\* amf0_read_any.
ReadAny(s) == Then(Discovery(s), LAMBDA r : ReadTyped(r.left, r.value))

\* The loop of an object, or of an array of at most count properties.  A stream
\* that is over ends it without an error.
ReadProperties(s, props, count) ==
    IF s = <<>> \/ Len(props) >= count THEN Done(s, props)
    ELSE IF IsObjectEOF(s)
        THEN Then(ReadObjectEOF(AfterEOFCheck(s)), LAMBDA r : Done(r.left, props))
        ELSE Then(ReadUtf8(AfterEOFCheck(s), <<>>), LAMBDA name :
            Then(ReadAny(name.left), LAMBDA r :
                ReadProperties(r.left, Set(props, name.value, r.value), count)))

\* Amf0StrictArray's loop.
ReadElements(s, list, count) ==
    IF s = <<>> \/ Len(list) >= count THEN Done(s, list)
    ELSE Then(ReadAny(s), LAMBDA r : ReadElements(r.left, Append(list, r.value), count))

ReadObject(s) ==
    Then(Marked(s, "object"), LAMBDA r :
        Then(ReadProperties(r.left, <<>>, Len(r.left)), LAMBDA q : Done(q.left, Object(q.value))))

ReadEcmaArray(s) ==
    Then(Marked(s, "ecma_array"), LAMBDA r :
        Then(Required(r.left, 4), LAMBDA n :
            Then(ReadProperties(n.left, <<>>, Int32(n.value)), LAMBDA q :
                Done(q.left, EcmaArray(Int32(n.value), q.value)))))

ReadStrictArray(s) ==
    Then(Marked(s, "strict_array"), LAMBDA r :
        Then(Required(r.left, 4), LAMBDA n :
            Then(ReadElements(n.left, <<>>, Int32(n.value)), LAMBDA q :
                Done(q.left, StrictArray(Int32(n.value), q.value)))))

\* The read of each class.
ReadTyped(s, type) ==
    CASE type = "number"       -> ReadNumber(s)
      [] type = "boolean"      -> ReadBoolean(s)
      [] type = "string"       -> ReadString(s, <<>>)
      [] type = "null"         -> ReadNull(s)
      [] type = "undefined"    -> ReadUndefined(s)
      [] type = "date"         -> ReadDate(s)
      [] type = "object"       -> ReadObject(s)
      [] type = "ecma_array"   -> ReadEcmaArray(s)
      [] type = "strict_array" -> ReadStrictArray(s)
      [] type = "object_end"   -> ReadObjectEOF(s)
=============================================================================
