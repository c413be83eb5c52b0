-------------------------------- MODULE ProvPb --------------------------------
(***************************************************************************)
(* The protobuf reader of esp_prov_pb.c over the bytes of a message, and   *)
(* its parsers: Sec1 session and its two commands, Wi-Fi configuration,    *)
(* the type of a scan command and CmdScanResult.  They share one loop and  *)
(* differ in the fields they know and in what they make of an error.       *)
(*                                                                         *)
(* A message is a sequence of bytes, a reader the part of it still to be   *)
(* read, and what a parser finds is a number or the place of some bytes.   *)
(***************************************************************************)
EXTENDS ProvPage, FiniteSetsExt, SequencesExt

CONSTANTS
    Digits,    \* 10, the longest varint
    Word64,    \* 2^64
    KeyLen,    \* 32, the length of a public key
    Messages,  \* well-formed messages: records of a parser and its fields
    Raw        \* any other messages: sequences of bytes

VARIABLES
    parser,  \* which parser runs, or "none"
    msg,     \* its input
    formed,  \* history: the input is a well-formed message
    fields,  \* history: the fields of a well-formed message
    reader,  \* the bytes still to be read, from reader.p up to reader.end
    outer,   \* the message around a submessage that is read
    depth,   \* 1 in a submessage
    got,     \* the output parameters
    result   \* "run", "ok" or "error"

inputVars == <<parser, msg, formed, fields>>
pbVars == <<inputVars, reader, outer, depth, got, result>>

Parsers == {"session", "sc0", "sc1", "config", "type", "result"}
Absent == Word - 1                \* 0xffffffff
Null == [from |-> 0, len |-> 0]   \* no bytes
Numbers == {"version", "msg", "field", "start", "count"}
Views == {"sec1", "inner", "key", "verify", "ssid", "pass"}

-------------------------------------------------------------------------------
\* pb_put_varint and pb_encode_ld: the writers.

PutVarint[v \in Nat] ==
    IF v < 128 THEN <<v>> ELSE <<128 + (v % 128)>> \o PutVarint[v \div 128]

Tag(field, wire) == PutVarint[field * 8 + wire]
EncodeLd(field, bytes) == Tag(field, 2) \o PutVarint[Len(bytes)] \o bytes

\* A field is a number, some bytes, fixed bytes of wire type 1 or 5, or a submessage.
EncodeFlat(f) ==
    CASE f.kind = "number" -> Tag(f.field, 0) \o PutVarint[f.val]
      [] f.kind = "bytes" -> EncodeLd(f.field, f.val)
      [] f.kind = "fixed" -> Tag(f.field, IF Len(f.val) = 4 THEN 5 ELSE 1) \o f.val

EncodeSub(fs) == FlattenSeq([k \in DOMAIN fs |-> EncodeFlat(fs[k])])

EncodeField(f) == IF f.kind = "sub" THEN EncodeLd(f.field, EncodeSub(f.val)) ELSE EncodeFlat(f)
EncodeFields(fs) == FlattenSeq([k \in DOMAIN fs |-> EncodeField(fs[k])])

-------------------------------------------------------------------------------
\* The fields a parser knows: where they are, and what they are for.
Known ==
    [session |-> {<<0, 2, 0, "version">>, <<0, 11, 2, "sec1">>, <<1, 1, 0, "msg">>}
                 \cup {<<1, f, 2, "inner">> : f \in 20 .. 23},
     sc0     |-> {<<0, 1, 2, "key">>},
     sc1     |-> {<<0, 2, 2, "verify">>},
     config  |-> {<<0, 1, 0, "msg">>, <<0, 12, 2, "enter">>,
                  <<1, 1, 2, "ssid">>, <<1, 2, 2, "pass">>},
     type    |-> {<<0, 1, 0, "msg">>},
     result  |-> {<<0, 14, 2, "enter">>, <<1, 1, 0, "start">>, <<1, 2, 0, "count">>}]

Defaults == [version |-> Absent, msg |-> Absent, field |-> 0, start |-> 0, count |-> 4]

\* Well-formed messages.  A field number has 29 bits.
FlatField ==
    [field : 0 .. Word \div 8 - 1, kind : {"number"}, val : 0 .. Word64 - 1]
        \cup [field : 0 .. Word \div 8 - 1, kind : {"bytes"}, val : Seq(0 .. 255)]
        \cup [field : 0 .. Word \div 8 - 1, kind : {"fixed"},
              val : [1 .. 4 -> 0 .. 255] \cup [1 .. 8 -> 0 .. 255]]

Field == FlatField \cup [field : 0 .. Word \div 8 - 1, kind : {"sub"}, val : Seq(FlatField)]

SubField(p) == CASE p = "session" -> 11 [] p = "config" -> 12 [] p = "result" -> 14 [] OTHER -> 0

\* A number that a parser knows fits its word, and is not the mark of one that is missing.
Fits(p, d, f) ==
    \A name \in Numbers :
        f.kind = "number" /\ <<d, f.field, 0, name>> \in Known[p] =>
            f.val < Word /\ (Defaults[name] = Absent => f.val # Absent)

\* The fields that a message of this kind has at most once.
Single(p, f) ==
    \/ p = "session" /\ f.kind = "sub"
    \/ p = "sc0" /\ f.kind = "bytes" /\ f.field = 1
    \/ p = "sc1" /\ f.kind = "bytes" /\ f.field = 2

WellFormed(m) ==
    /\ m.parser \in Parsers /\ m.fields \in Seq(Field)
    /\ Len(EncodeFields(m.fields)) < Word64
    /\ \A k \in DOMAIN m.fields :
          /\ Fits(m.parser, 0, m.fields[k])
          /\ m.fields[k].kind = "bytes" => m.fields[k].field # SubField(m.parser)
          /\ m.fields[k].kind = "sub" =>
                /\ m.fields[k].field = SubField(m.parser)
                /\ \A j \in DOMAIN m.fields[k].val : Fits(m.parser, 1, m.fields[k].val[j])
    /\ \A j, k \in DOMAIN m.fields :
          Single(m.parser, m.fields[j]) /\ Single(m.parser, m.fields[k]) => j = k

ASSUME PbAssumption ==
    /\ Word64 \in Nat /\ Word <= Word64
    /\ Digits \in Nat /\ Len(PutVarint[Word64 - 1]) <= Digits
    /\ KeyLen \in Nat
    /\ Raw \subseteq Seq(0 .. 255)
    /\ \A m \in Messages : WellFormed(m)

-------------------------------------------------------------------------------
\* The reader.

Rem(r) == r.end - r.p
Advance(r, bytes) == [r EXCEPT !.p = @ + bytes]

\* Seven bits of each byte, the least significant first.
Base128[bytes \in Seq(0 .. 255)] ==
    IF bytes = <<>> THEN 0 ELSE (bytes[1] % 128) + 128 * Base128[Tail(bytes)]

Value(r, len) == Base128[SubSeq(msg, r.p, r.p + len - 1)] % Word64

\* Where a varint may end: a byte without the continuation bit.
Ends(r) == {k \in 1 .. Digits : k <= Rem(r) /\ msg[r.p + k - 1] < 128}

PullVarint(r) ==
    IF Ends(r) = {} THEN [ok |-> FALSE, val |-> 0, rest |-> r]
    ELSE [ok |-> TRUE, val |-> Value(r, Min(Ends(r))), rest |-> Advance(r, Min(Ends(r)))]

\* A key that does not end in time is taken as far as it goes; a key that is the
\* last thing in the message is none.
PullTag(r) ==
    LET len == IF Ends(r) = {} THEN Min({Rem(r), Digits}) ELSE Min(Ends(r))
        key == Value(r, len)
    IN  [ok |-> Rem(r) > 0 /\ len < Rem(r), wire |-> key % 8, field |-> (key \div 8) % Word,
         rest |-> Advance(r, len)]

MutantPullBytes(r) ==
    LET l == PullVarint(r) IN
    IF ~l.ok THEN [ok |-> FALSE, val |-> Null, rest |-> l.rest]
    ELSE [ok |-> TRUE, val |-> [from |-> l.rest.p, len |-> l.val],
          rest |-> Advance(l.rest, l.val)]

\* When the length is more than there is, the length itself has been read.
PullBytes(r) ==
    LET l == PullVarint(r) IN
    IF ~l.ok \/ l.val > Rem(l.rest) THEN [ok |-> FALSE, val |-> Null, rest |-> l.rest]
    ELSE [ok |-> TRUE, val |-> [from |-> l.rest.p, len |-> l.val],
          rest |-> Advance(l.rest, l.val)]

MutantSkipField(r, wire) ==
    CASE wire = 0 -> PullVarint(r).rest
      [] wire = 2 -> PullBytes(r).rest
      [] wire = 5 /\ Rem(r) >= 4 -> Advance(r, 4)
      [] OTHER -> r

SkipField(r, wire) ==
    CASE wire = 0 -> PullVarint(r).rest
      [] wire = 2 -> PullBytes(r).rest
      [] wire = 5 /\ Rem(r) >= 4 -> Advance(r, 4)
      [] wire = 1 /\ Rem(r) >= 8 -> Advance(r, 8)
      [] OTHER -> r

-------------------------------------------------------------------------------
For(d, tag) ==
    {name \in Numbers \cup Views \cup {"enter"} :
        <<d, tag.field, tag.wire, name>> \in Known[parser]}

Unset == [name \in Numbers \cup Views |-> IF name \in Views THEN Null ELSE Defaults[name]]
Whole(bytes) == [p |-> 1, end |-> Len(bytes) + 1]

PbIdle ==
    /\ parser = "none" /\ msg = <<>> /\ formed = FALSE /\ fields = <<>>
    /\ reader = Whole(<<>>) /\ outer = Whole(<<>>) /\ depth = 0
    /\ got = Unset
    /\ result = "ok"

PbInit ==
    /\ \/ \E m \in Messages :
             /\ parser = m.parser /\ msg = EncodeFields(m.fields)
             /\ formed = TRUE /\ fields = m.fields
       \/ /\ parser \in Parsers /\ msg \in Raw
          /\ formed = FALSE /\ fields = <<>>
    /\ reader = Whole(msg) /\ outer = Whole(<<>>) /\ depth = 0
    /\ got = Unset
    /\ result = "run"

-------------------------------------------------------------------------------
Running == result = "run"
Lenient == parser = "result"
Gets(names, val) == got' = [name \in DOMAIN got |-> IF name \in names THEN val ELSE got[name]]

MutantFails(r) ==
    IF Lenient
    THEN UNCHANGED <<reader, result>>
    ELSE /\ result' = "error"
         /\ UNCHANGED reader

\* Most parsers refuse the message; the one of CmdScanResult leaves the loop it is
\* in, with what it has.
Fails(r) ==
    IF Lenient
    THEN /\ reader' = [r EXCEPT !.p = r.end]
         /\ UNCHANGED result
    ELSE /\ result' = "error"
         /\ UNCHANGED reader

Reading == Running /\ Rem(reader) > 0

BadTag ==
    /\ Reading /\ ~PullTag(reader).ok
    /\ Fails(reader)
    /\ UNCHANGED <<inputVars, outer, depth, got>>

Number ==
    Reading /\ \E tag \in {PullTag(reader)} : \E name \in Numbers :
        /\ tag.ok /\ name \in For(depth, tag)
        /\ LET v == PullVarint(tag.rest) IN
              /\ IF v.ok
                 THEN reader' = v.rest /\ UNCHANGED result
                 ELSE IF Lenient
                 THEN reader' = tag.rest /\ UNCHANGED result
                 ELSE Fails(tag.rest)
              /\ IF v.ok THEN Gets({name}, v.val % Word) ELSE UNCHANGED got
        /\ UNCHANGED <<inputVars, outer, depth>>

\* The two commands of the handshake are read up to the field they want.
Bytes ==
    Reading /\ \E tag \in {PullTag(reader)} : \E name \in Views :
        /\ tag.ok /\ name \in For(depth, tag)
        /\ LET b == PullBytes(tag.rest) IN
              IF b.ok /\ (name = "key" => b.val.len = KeyLen)
              THEN /\ reader' = b.rest
                   /\ got' = [got EXCEPT ![name] = b.val,
                                         !.field = IF name = "inner" THEN tag.field ELSE @]
                   /\ result' = IF name \in {"key", "verify"} THEN "ok" ELSE result
              ELSE Fails(tag.rest) /\ UNCHANGED got
        /\ UNCHANGED <<inputVars, outer, depth>>

Enter ==
    Reading /\ \E tag \in {PullTag(reader)} :
        /\ tag.ok /\ "enter" \in For(depth, tag)
        /\ LET b == PullBytes(tag.rest) IN
              IF b.ok
              THEN /\ outer' = b.rest
                   /\ reader' = [p |-> b.val.from, end |-> b.val.from + b.val.len]
                   /\ depth' = 1
                   /\ UNCHANGED result
              ELSE Fails(tag.rest) /\ UNCHANGED <<outer, depth>>
        /\ UNCHANGED <<inputVars, got>>

Skip ==
    Reading /\ \E tag \in {PullTag(reader)} :
        /\ tag.ok /\ For(depth, tag) = {}
        /\ reader' = SkipField(tag.rest, tag.wire)
        /\ UNCHANGED <<inputVars, outer, depth, got, result>>

Leave ==
    /\ Running /\ Rem(reader) = 0 /\ depth = 1 /\ parser # "session"
    /\ reader' = outer /\ depth' = 0
    /\ UNCHANGED <<inputVars, outer, got, result>>

\* The Sec1 payload is read once the session message has been read to its end.
EnterSec1 ==
    /\ Running /\ Rem(reader) = 0 /\ depth = 0 /\ parser = "session"
    /\ IF got.version = Absent \/ got.sec1 = Null
       THEN result' = "error" /\ UNCHANGED <<reader, depth>>
       ELSE /\ reader' = [p |-> got.sec1.from, end |-> got.sec1.from + got.sec1.len]
            /\ depth' = 1
            /\ UNCHANGED result
    /\ UNCHANGED <<inputVars, outer, got>>

\* proto3 leaves out a number that is 0; of a session command the field that came
\* tells which it is.
Inferred == IF parser = "session" THEN got.field - 20 ELSE 0

Finish ==
    /\ Running /\ Rem(reader) = 0
    /\ IF parser = "session" THEN depth = 1 ELSE depth = 0
    /\ result' = IF parser \in {"sc0", "sc1"} \/ (parser = "session" /\ got.inner = Null)
                 THEN "error" ELSE "ok"
    /\ IF got.msg = Absent /\ result' = "ok" THEN Gets({"msg"}, Inferred) ELSE UNCHANGED got
    /\ UNCHANGED <<inputVars, reader, outer, depth>>

Parse == BadTag \/ Number \/ Bytes \/ Enter \/ Skip \/ Leave \/ EnterSec1 \/ Finish

PageIdle ==
    /\ n = 0 /\ aps = <<>> /\ asked = [start |-> 0, count |-> 0] /\ page = "sent"
    /\ i = 0 /\ used = 0 /\ written = <<>> /\ from = 0 /\ told = <<>>

Init ==
    \/ PbInit /\ PageIdle
    \/ PageInit /\ PbIdle

Next ==
    \/ Parse /\ UNCHANGED pageVars
    \/ PageSteps /\ UNCHANGED pbVars

Spec == Init /\ [][Next]_<<pbVars, pageVars>> /\ WF_<<pbVars, pageVars>>(Next)

-------------------------------------------------------------------------------
\* What a message says, by its fields: the last one of a kind counts, one that is
\* not there has its default.

Flat(d) ==
    IF d = 0 THEN fields
    ELSE FlattenSeq([k \in DOMAIN fields |->
                        IF fields[k].kind = "sub" THEN fields[k].val ELSE <<>>])

AllOf(fs, field, kind) == {k \in DOMAIN fs : fs[k].field = field /\ fs[k].kind = kind}

LastIn(fs, field, kind) ==
    IF AllOf(fs, field, kind) = {} THEN <<>> ELSE <<fs[Max(AllOf(fs, field, kind))].val>>

NumberIn(fs, field, default) ==
    IF AllOf(fs, field, "number") = {} THEN default ELSE LastIn(fs, field, "number")[1]

LastOf(d, field, kind) == LastIn(Flat(d), field, kind)
NumberOr(d, field, default) == NumberIn(Flat(d), field, default)

BytesAt(v) == IF v = Null THEN <<>> ELSE <<SubSeq(msg, v.from, v.from + v.len - 1)>>

\* A well-formed message, with any unknown fields in it, is read as what it says.
RoundTrip ==
    formed /\ ~Running =>
        CASE parser = "config" ->
                /\ result = "ok"
                /\ got.msg = NumberOr(0, 1, 0)
                /\ BytesAt(got.ssid) = LastOf(1, 1, "bytes")
                /\ BytesAt(got.pass) = LastOf(1, 2, "bytes")
          [] parser = "type" -> result = "ok" /\ got.msg = NumberOr(0, 1, 0)
          [] parser = "result" ->
                /\ result = "ok"
                /\ got.start = NumberOr(1, 1, 0) /\ got.count = NumberOr(1, 2, 4)
          [] parser = "sc1" ->
                IF LastOf(0, 2, "bytes") = <<>> THEN result = "error"
                ELSE result = "ok" /\ BytesAt(got.verify) = LastOf(0, 2, "bytes")
          [] parser = "sc0" ->
                IF LastOf(0, 1, "bytes") = <<>> \/ Len(LastOf(0, 1, "bytes")[1]) # KeyLen
                THEN result = "error"
                ELSE result = "ok" /\ BytesAt(got.key) = LastOf(0, 1, "bytes")
          [] parser = "session" ->
                LET inner == {f \in 20 .. 23 : LastOf(1, f, "bytes") # <<>>} IN
                IF inner = {} \/ LastOf(0, 2, "number") = <<>> THEN result = "error"
                ELSE /\ result = "ok"
                     /\ got.version = NumberOr(0, 2, 0)
                     /\ \E f \in inner :
                           /\ BytesAt(got.inner) = LastOf(1, f, "bytes")
                           /\ got.msg = NumberOr(1, 1, f - 20)

\* Whatever the bytes are, what a parser hands on lies in the message, and a
\* submessage is read to its own end only.
ViewsInside ==
    /\ reader.end <= Len(msg) + 1 /\ reader.p \in 1 .. reader.end
    /\ depth = 1 /\ parser # "session" => reader.end <= outer.p /\ outer.end = Len(msg) + 1
    /\ \A v \in Views : got[v] # Null =>
          got[v].from \in 1 .. Len(msg) + 1 /\ got[v].from + got[v].len <= Len(msg) + 1

\* Whatever the bytes are, every parser comes to an end.
AlwaysEnds == <>(result # "run")
===============================================================================
