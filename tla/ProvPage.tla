------------------------------- MODULE ProvPage -------------------------------
(***************************************************************************)
(* The answer to CmdScanResult: one page of the list of access points, put *)
(* entry by entry into a buffer that may be too small for the page, and    *)
(* the phone that asks for page after page until it has the list.          *)
(*                                                                         *)
(* Of an entry all that matters is how many bytes it takes.                *)
(***************************************************************************)
EXTENDS Integers, Sequences

CONSTANTS
    Word,      \* 2^32, where start + count wraps
    MaxAps,    \* SCAN_MAX_APS
    Aps,       \* the kinds of access points
    Requests   \* what a phone begins with: records of a start and a count

ASSUME PageAssumption ==
    /\ Word \in Nat \ {0} /\ MaxAps \in Nat
    /\ MaxAps <= Word - MaxAps
    /\ Aps \subseteq [ssid : 0 .. 32, channel : 0 .. 255, negative : BOOLEAN, open : BOOLEAN]
    /\ Requests \subseteq [start : 0 .. Word - 1, count : 0 .. Word - 1]

MutantInnerCap == 448

InnerCap == 480  \* inner[]
OuterCap == 512  \* tmp[], and the buffer of either transport

VARIABLES
    n,        \* the list's length, scan_ap_count
    aps,      \* aps[i]: the kind of the i-th
    asked,    \* the phone's request: start and count
    page,     \* where the building of the answer is
    i,        \* the entry it is at
    used,     \* bytes of inner[] in use, ip
    written,  \* the entries in it
    from,     \* history: where the phone began
    told      \* history: the entries of all the answers so far

listVars == <<n, aps>>
bufVars == <<i, used, written>>
historyVars == <<from, told>>
pageVars == <<listVars, asked, page, bufVars, historyVars>>

-------------------------------------------------------------------------------
VarintSize(v) == IF v < 128 THEN 1 ELSE IF v < 16384 THEN 2 ELSE 3

\* pb_encode_ld: a tag of one byte, the length and the data.
LdSize(bytes) == 1 + VarintSize(bytes) + bytes

\* rssi is sign-extended: ten bytes when it is negative.
EntrySize(ap) ==
    LdSize(ap.ssid) + LdSize(6)
    + 1 + VarintSize(ap.channel)
    + 1 + (IF ap.negative THEN 10 ELSE 1)
    + (IF ap.open THEN 0 ELSE 2)

MutantEnd == (asked.start + asked.count) % Word

End == LET sum == (asked.start + asked.count) % Word IN IF sum > n THEN n ELSE sum

-------------------------------------------------------------------------------
PageInit ==
    /\ n \in 0 .. MaxAps
    /\ \E ap \in Aps : aps = [k \in 0 .. MaxAps - 1 |-> ap]
    /\ asked \in Requests
    /\ page = "loop" /\ i = asked.start /\ used = 0 /\ written = <<>>
    /\ from = asked.start /\ told = <<>>

PageEntry ==
    /\ page = "loop" /\ i < End
    /\ used + LdSize(EntrySize(aps[i])) <= InnerCap
    /\ used' = used + LdSize(EntrySize(aps[i]))
    /\ written' = Append(written, i)
    /\ i' = i + 1
    /\ UNCHANGED <<listVars, asked, page, historyVars>>

\* All that was asked for, or no room for the next.
PageEnds ==
    /\ page = "loop"
    /\ i < End => used + LdSize(EntrySize(aps[i])) > InnerCap
    /\ page' = IF 4 + LdSize(used) <= OuterCap THEN "sent" ELSE "error"
    /\ told' = IF page' = "sent" THEN told \o written ELSE told
    /\ UNCHANGED <<listVars, asked, bufVars, from>>

\* The phone goes on with the page that follows; every answer starts an empty
\* buffer.
PageNext ==
    /\ page = "sent" /\ asked.count > 0 /\ asked.start + asked.count < n
    /\ asked' = [asked EXCEPT !.start = @ + asked.count]
    /\ page' = "loop" /\ i' = asked'.start /\ used' = 0 /\ written' = <<>>
    /\ UNCHANGED <<listVars, historyVars>>

PageSteps == PageEntry \/ PageEnds \/ PageNext

PageSpec == PageInit /\ [][PageSteps]_pageVars

-------------------------------------------------------------------------------
\* A page holds entries of the list only, in order and without a gap, from the
\* first one asked for, whatever start and count add up to.
PageIsOfTheList ==
    /\ \A k \in 1 .. Len(written) : written[k] = asked.start + k - 1
    /\ Len(written) > 0 => asked.start + Len(written) <= n
    /\ page = "loop" /\ i < End => i < n

\* Up to eight entries always fit, however long their names are: a phone that asks
\* for pages of at most eight is told of every access point from where it began,
\* each one once.
EveryApOnce ==
    page # "loop" /\ asked.count <= 8 /\ asked.start + asked.count < Word =>
        LET last == IF asked.start + asked.count < n THEN asked.start + asked.count ELSE n
        IN  /\ Len(told) = IF from < last THEN last - from ELSE 0
            /\ \A k \in 1 .. Len(told) : told[k] = from + k - 1
===============================================================================
