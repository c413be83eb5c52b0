---------------------------------- MODULE MCPb ----------------------------------
(***************************************************************************)
(* Messages and lists for the codec.  The widths are scaled down: a varint *)
(* has at most three bytes, a word of 64 bits holds less than three of     *)
(* their digits and one of 32 bits two of them.                            *)
(***************************************************************************)
EXTENDS ProvPb

Num(f, v) == [field |-> f, kind |-> "number", val |-> v]
Str(f, bytes) == [field |-> f, kind |-> "bytes", val |-> bytes]
Sub(f, fs) == [field |-> f, kind |-> "sub", val |-> fs]
Fix(f, len) == [field |-> f, kind |-> "fixed", val |-> [k \in 1 .. len |-> 10]]

\* Fields no parser knows, of every wire type, with bytes that look like fields.
Unknown == {Num(3, 300), Str(9, <<8, 7>>), Str(30, <<>>), Fix(5, 4), Fix(18, 8)}

UpTo(len, S) == UNION {[1 .. k -> S] : k \in 0 .. len}

ConfigSub == UpTo(2, {Str(1, <<65>>), Str(1, <<>>), Str(2, <<66, 8>>), Num(3, 300)})
                \cup {<<Str(2, <<66>>), u, Str(1, <<10, 65>>)>> : u \in Unknown}
ConfigFields == UpTo(2, {Num(1, 2), Num(1, 0), Str(1, <<4>>)} \cup Unknown
                             \cup {Sub(12, s) : s \in ConfigSub})
                   \cup {<<u, Num(1, 4), Sub(12, s)>> : u \in Unknown, s \in ConfigSub}

ResultSub == UpTo(3, {Num(1, 5), Num(2, 8), Num(2, 200), Str(2, <<16, 1>>), Fix(5, 4)})
ResultFields == {<<u, Sub(14, s), Num(1, 4)>> : u \in Unknown, s \in ResultSub}
                   \cup {<<>>, <<Num(1, 4)>>}

Sec1Sub == {<<Num(1, v), Str(f, <<18, 1, 7>>)>> : v \in {0, 2}, f \in {20, 22}}
              \cup {<<Str(f, <<18, 1, 7>>), u>> : f \in 20 .. 23, u \in Unknown} \cup {<<>>}
SessionFields == {<<Num(2, 1), Sub(11, s)>> : s \in Sec1Sub}
                    \cup {<<Sub(11, s), u, Num(2, 1)>> : s \in Sec1Sub, u \in Unknown}
                    \cup {<<Sub(11, s)>> : s \in Sec1Sub}

KeyFields == {<<u, Str(f, bytes)>> :
                  u \in Unknown, f \in 1 .. 2, bytes \in {<<>>, <<18, 1>>, <<18, 1, 8>>}}

MessagesDef ==
    [parser : {"config"}, fields : ConfigFields]
        \cup [parser : {"type"}, fields : UpTo(2, {Num(1, 2), Num(1, 300)} \cup Unknown)]
        \cup [parser : {"result"}, fields : ResultFields]
        \cup [parser : {"session"}, fields : SessionFields]
        \cup [parser : {"sc0", "sc1"}, fields : KeyFields]

\* Tags the parsers know, lengths, ends and continuations of varints.
RawDef == UpTo(4, {0, 1, 2, 8, 10, 98, 114, 128, 255})
             \cup {<<16, 1, 90, a, b, c>> : a \in 0 .. 4, b \in {8, 162, 128}, c \in {1, 2, 129}}
             \cup {<<98, a, 10, b, 18, c, 65>> : a \in 0 .. 6, b \in 0 .. 3, c \in 0 .. 2}

ApsDef ==
    {[ssid |-> 32, channel |-> 165, negative |-> TRUE, open |-> FALSE],
     [ssid |-> 0, channel |-> 1, negative |-> FALSE, open |-> TRUE]}

RequestsDef == [start : {0, 3, 19, Word - 1}, count : {0, 1, 4, 8, 9, Word - 2, Word - 1}]
===============================================================================
