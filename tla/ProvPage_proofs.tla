---------------------------- MODULE ProvPage_proofs ----------------------------
(***************************************************************************)
(* For any list of access points, however many, and any page size up to    *)
(* eight: a page holds entries of the list only, and a phone that pages is *)
(* told of every access point once.                                        *)
(***************************************************************************)
EXTENDS ProvPage, TLAPS

PageTypes ==
    /\ n \in 0 .. MaxAps
    /\ aps \in [0 .. MaxAps - 1 -> Aps]
    /\ asked \in [start : 0 .. Word - 1, count : 0 .. Word - 1]
    /\ page \in {"loop", "sent", "error"}
    /\ i \in Nat /\ used \in Nat /\ from \in Nat
    /\ written \in Seq(Nat) /\ told \in Seq(Nat)

\* Where the building of a page is: the entries so far end at i, none of them is
\* wrapped in more than sixty bytes, and together they fit.
PagePlace ==
    /\ i = asked.start + Len(written)
    /\ \A k \in 1 .. Len(written) : written[k] = asked.start + k - 1
    /\ Len(written) > 0 => i <= End
    /\ used <= 60 * Len(written)
    /\ used <= InnerCap

\* How many entries there are from where the phone began up to entry s.
UpTo(s) ==
    LET last == IF s < n THEN s ELSE n IN IF from < last THEN last - from ELSE 0

\* What the phone knows: all up to the present page, or with it.
Known ==
    /\ from <= asked.start
    /\ asked.count <= 8 /\ asked.start + asked.count < Word =>
        /\ page # "error"
        /\ Len(told) = UpTo(IF page = "loop" THEN asked.start ELSE asked.start + asked.count)
        /\ \A k \in 1 .. Len(told) : told[k] = from + k - 1

PageInv == PageTypes /\ PagePlace /\ Known

-------------------------------------------------------------------------------
\* pb_encode_ld adds at most four bytes to what fits in the page, and two to an
\* entry.
LEMMA LdBounds ==
    ASSUME NEW bytes \in Nat
    PROVE  /\ LdSize(bytes) \in Nat
           /\ bytes < 128 => LdSize(bytes) = bytes + 2
           /\ LdSize(bytes) <= bytes + 4
BY DEF LdSize, VarintSize

\* The longest name, channel, signal strength and security make an entry of 58
\* bytes, 60 with its tag and length.
LEMMA EntryBound ==
    ASSUME NEW ap \in Aps
    PROVE  LdSize(EntrySize(ap)) \in 1 .. 60
<1>. ap \in [ssid : 0 .. 32, channel : 0 .. 255, negative : BOOLEAN, open : BOOLEAN]
  BY PageAssumption
<1>1. LdSize(ap.ssid) \in 2 .. 34
  BY LdBounds
<1>2. LdSize(6) = 8
  BY LdBounds
<1>3. VarintSize(ap.channel) \in 1 .. 2
  BY DEF VarintSize
<1>4. EntrySize(ap) \in 0 .. 58
  BY <1>1, <1>2, <1>3 DEF EntrySize
<1>. QED
  BY <1>4, LdBounds

\* Eight of them fit in the page.
LEMMA RoomForEight ==
    ASSUME NEW len \in Nat, NEW bytes \in Nat, NEW more \in 1 .. 60, bytes <= 60 * len
    PROVE  /\ bytes + more \in Nat
           /\ bytes + more <= 60 * (len + 1)
           /\ len < 8 => bytes + more <= 480
OBVIOUS

\* The last entry asked for is in the list, whatever start and count add up to.
LEMMA EndBounds ==
    ASSUME PageTypes
    PROVE  /\ End \in Nat /\ End <= n
           /\ asked.start + asked.count < Word =>
                 End = IF asked.start + asked.count < n THEN asked.start + asked.count ELSE n
<1>. DEFINE sum == asked.start + asked.count
<1>1. sum \in Nat /\ Word \in Nat \ {0} /\ n \in Nat
  BY PageAssumption DEF PageTypes
<1>2. sum % Word \in Nat /\ (sum < Word => sum % Word = sum)
  BY <1>1
<1>. HIDE DEF sum
<1>3. End = IF sum % Word > n THEN n ELSE sum % Word
  BY DEF End, sum
<1>. QED
  BY <1>1, <1>2, <1>3 DEF sum

-------------------------------------------------------------------------------
LEMMA PageStart == PageInit => PageInv
<1>. SUFFICES ASSUME PageInit PROVE PageInv
  OBVIOUS
<1>1. PageTypes
  BY PageAssumption DEF PageInit, PageTypes
<1>2. PagePlace
  BY <1>1 DEF PageInit, PageTypes, PagePlace, InnerCap
<1>3. Known
  BY <1>1 DEF PageInit, PageTypes, Known, UpTo
<1>. QED
  BY <1>1, <1>2, <1>3 DEF PageInv

LEMMA EntryStep ==
    ASSUME PageInv, PageEntry
    PROVE  PageInv'
<1>. USE DEF PageInv, PageEntry, listVars, historyVars
<1>1. End' = End
  BY DEF End
<1>2. i < n /\ i \in 0 .. MaxAps - 1
  <2>1. End \in Nat /\ End <= n
    BY EndBounds
  <2>2. i \in Nat /\ i < End /\ n \in 0 .. MaxAps /\ MaxAps \in Nat
    BY PageAssumption DEF PageTypes
  <2>. QED
    BY <2>1, <2>2
<1>3. LdSize(EntrySize(aps[i])) \in 1 .. 60
  BY <1>2, EntryBound DEF PageTypes
<1>4. PageTypes'
  <2>1. used' \in Nat
    <3>1. used \in Nat /\ used' = used + LdSize(EntrySize(aps[i]))
      BY DEF PageTypes
    <3>. HIDE DEF PageEntry
    <3>. QED
      BY <1>3, <3>1
  <2>2. i \in Nat /\ i' \in Nat /\ written' \in Seq(Nat)
    BY DEF PageTypes
  <2>. QED
    BY <2>1, <2>2 DEF PageTypes
<1>5. Len(written') = Len(written) + 1 /\ Len(written) \in Nat
  BY DEF PageTypes
<1>6. ASSUME NEW k \in 1 .. Len(written')
      PROVE  written'[k] = asked.start + k - 1
  <2>1. CASE k = Len(written')
    <3>1. written'[k] = i
      BY <1>5, <2>1 DEF PageTypes
    <3>. QED
      BY <1>5, <2>1, <3>1 DEF PageTypes, PagePlace
  <2>2. CASE k # Len(written')
    <3>1. k \in 1 .. Len(written) /\ written'[k] = written[k]
      BY <1>5, <2>2 DEF PageTypes
    <3>. QED
      BY <3>1 DEF PagePlace
  <2>. QED
    BY <2>1, <2>2
<1>7. PagePlace'
  <2>. USE <1>1, <1>3, <1>5 DEF PageTypes, PagePlace
  <2>1. i' = asked'.start + Len(written') /\ (Len(written') > 0 => i' <= End')
    BY SMTT(30), EndBounds
  <2>2. used' <= 60 * Len(written') /\ used' <= InnerCap'
    <3>1. used' = used + LdSize(EntrySize(aps[i])) /\ used' <= 480 /\ InnerCap' = 480
      BY DEF InnerCap
    <3>2. used \in Nat /\ used <= 60 * Len(written) /\ Len(written) \in Nat
      OBVIOUS
    <3>. HIDE DEF PageEntry, PagePlace
    <3>. QED
      BY <1>3, <1>5, <3>1, <3>2, RoomForEight
  <2>. QED
    BY <1>6, <2>1, <2>2
<1>8. Known'
  BY DEF Known, UpTo
<1>. QED
  BY <1>4, <1>7, <1>8

LEMMA EndsStep ==
    ASSUME PageInv, PageEnds
    PROVE  PageInv'
<1>. USE DEF PageInv, PageEnds, listVars, bufVars
<1>1. page' \in {"sent", "error"} /\ PageTypes'
  BY DEF PageTypes
<1>2. PagePlace'
  BY DEF PagePlace, End, InnerCap
<1>3. Known'
  <2>1. SUFFICES ASSUME asked.count <= 8, asked.start + asked.count < Word
                 PROVE  /\ page' = "sent"
                        /\ Len(told') = UpTo(asked.start + asked.count)
                        /\ \A k \in 1 .. Len(told') : told'[k] = from + k - 1
    BY DEF Known, UpTo
  <2>. DEFINE last == IF asked.start + asked.count < n THEN asked.start + asked.count ELSE n
  <2>2. End = last /\ last \in Nat
    BY <2>1, EndBounds
  <2>3. page' = "sent"
    <3>1. used \in Nat /\ used <= 480
      BY DEF PageTypes, PagePlace, InnerCap
    <3>2. LdSize(used) \in Nat /\ LdSize(used) <= 484
      BY <3>1, LdBounds
    <3>. QED
      BY <3>2 DEF OuterCap
  <2>4. i >= last
    <3>1. SUFFICES ASSUME i < last PROVE FALSE
      BY <2>2 DEF PageTypes
    <3>2. /\ asked.start \in Nat /\ asked.count \in Nat /\ Len(written) \in Nat
          /\ i \in Nat /\ used \in Nat /\ n \in 0 .. MaxAps /\ MaxAps \in Nat
      BY PageAssumption DEF PageTypes
    <3>3. Len(written) < 8 /\ used <= 420
      BY <2>1, <3>1, <3>2 DEF PagePlace
    <3>4. i \in 0 .. MaxAps - 1
      BY <3>1, <3>2
    <3>5. LdSize(EntrySize(aps[i])) \in 1 .. 60
      BY <3>4, EntryBound DEF PageTypes
    <3>6. i < End => used + LdSize(EntrySize(aps[i])) > 480
      BY DEF InnerCap
    <3>7. i < End
      BY <2>2, <3>1
    <3>8. /\ used + LdSize(EntrySize(aps[i])) \in Nat
          /\ used + LdSize(EntrySize(aps[i])) <= 480
      <4>. HIDE DEF PageEnds
      <4>. QED
        BY ZenonT(60), <3>2, <3>3, <3>5, RoomForEight DEF PagePlace
    <3>9. used + LdSize(EntrySize(aps[i])) > 480
      BY <3>6, <3>7
    <3>. HIDE DEF PageEnds, PageInv
    <3>. DEFINE full == used + LdSize(EntrySize(aps[i]))
    <3>. HIDE DEF full
    <3>10. full \in Nat /\ full <= 480 /\ full > 480
      BY <3>8, <3>9 DEF full
    <3>. QED
      BY <3>10
  <2>5. told' = told \o written /\ Len(told') = Len(told) + Len(written)
    BY <2>3 DEF PageTypes
  <2>6. /\ Len(told) = UpTo(asked.start)
        /\ \A k \in 1 .. Len(told) : told[k] = from + k - 1
    BY <2>1 DEF Known
  <2>7. CASE Len(written) = 0
    <3>1. UpTo(asked.start) = UpTo(asked.start + asked.count)
      BY <2>4, <2>7 DEF PageTypes, PagePlace, UpTo
    <3>2. told' = told
      BY <2>5, <2>7 DEF PageTypes
    <3>. QED
      BY <2>3, <2>6, <3>1, <3>2
  <2>8. CASE Len(written) > 0
    <3>1. i = last /\ asked.start < last /\ last <= n
      BY <2>2, <2>4, <2>8 DEF PageTypes, PagePlace
    <3>2. Len(told) = asked.start - from
      BY <2>6, <3>1 DEF PageTypes, UpTo, Known
    <3>3. Len(told') = last - from
      <4>1. /\ asked.start \in Nat /\ from \in Nat /\ Len(written) \in Nat
            /\ i = asked.start + Len(written)
        BY DEF PageTypes, PagePlace
      <4>. QED
        BY <2>5, <3>1, <3>2, <4>1
    <3>4. UpTo(asked.start + asked.count) = last - from
      <4>1. from \in Nat /\ from < last
        BY <2>2, <3>1 DEF PageTypes, Known
      <4>. QED
        BY <4>1 DEF UpTo
    <3>5. ASSUME NEW k \in 1 .. Len(told')
          PROVE  told'[k] = from + k - 1
      <4>1. CASE k <= Len(told)
        BY <2>5, <2>6, <4>1 DEF PageTypes
      <4>2. CASE k > Len(told)
        <5>1. k - Len(told) \in 1 .. Len(written) /\ told'[k] = written[k - Len(told)]
          BY <2>5, <4>2 DEF PageTypes
        <5>2. written[k - Len(told)] = asked.start + (k - Len(told)) - 1
          BY <5>1 DEF PagePlace
        <5>. QED
          <6>1. Len(told) \in Nat /\ asked.start \in Nat /\ from \in Nat
            BY DEF PageTypes
          <6>. QED
            BY SMTT(30), <3>2, <5>1, <5>2, <6>1
      <4>. QED
        BY <2>5, <4>1, <4>2 DEF PageTypes
    <3>. QED
      BY <2>3, <3>3, <3>4, <3>5
  <2>9. Len(written) \in Nat
    BY DEF PageTypes
  <2>. QED
    BY <2>7, <2>8, <2>9
<1>. QED
  BY <1>1, <1>2, <1>3

LEMMA NextStep ==
    ASSUME PageInv, PageNext
    PROVE  PageInv'
<1>. USE DEF PageInv, PageNext, listVars, historyVars
<1>1. /\ asked'.start = asked.start + asked.count /\ asked'.count = asked.count
      /\ asked' \in [start : 0 .. Word - 1, count : 0 .. Word - 1]
  <2>1. asked.start + asked.count \in 0 .. Word - 1
    BY PageAssumption DEF PageTypes
  <2>2. asked' = [asked EXCEPT !.start = asked.start + asked.count]
    OBVIOUS
  <2>. QED
    BY <2>1, <2>2 DEF PageTypes
<1>2. PageTypes'
  BY <1>1 DEF PageTypes
<1>3. PagePlace'
  BY <1>1, <1>2 DEF PageTypes, PagePlace, InnerCap
<1>4. asked.start + asked.count < Word
  BY PageAssumption DEF PageTypes
<1>5. Known'
  BY <1>1, <1>4 DEF PageTypes, Known, UpTo
<1>. QED
  BY <1>2, <1>3, <1>5

LEMMA PageKept == PageInv /\ [PageSteps]_pageVars => PageInv'
<1>. SUFFICES ASSUME PageInv, [PageSteps]_pageVars PROVE PageInv'
  OBVIOUS
<1>1. CASE PageEntry
  BY <1>1, EntryStep
<1>2. CASE PageEnds
  BY <1>2, EndsStep
<1>3. CASE PageNext
  BY <1>3, NextStep
<1>4. CASE UNCHANGED pageVars
  BY <1>4 DEF pageVars, listVars, bufVars, historyVars, PageInv, PageTypes, PagePlace, Known,
              UpTo, End
<1>. QED
  BY <1>1, <1>2, <1>3, <1>4 DEF PageSteps

LEMMA PageAlways == PageSpec => []PageInv
BY PageStart, PageKept, PTL DEF PageSpec

\* A page of the answer to CmdScanResult holds entries of the list only, for any
\* list, start and count.
THEOREM PageHolds == PageSpec => []PageIsOfTheList
<1>1. PageInv => PageIsOfTheList
  <2>. SUFFICES ASSUME PageInv PROVE PageIsOfTheList
    OBVIOUS
  <2>. QED
    BY EndBounds DEF PageInv, PageTypes, PagePlace, PageIsOfTheList
<1>. QED
  BY <1>1, PageAlways, PTL

\* A phone that asks for pages of at most eight entries is told of every access
\* point once, for any list.
THEOREM PagingHolds == PageSpec => []EveryApOnce
<1>1. PageInv => EveryApOnce
  BY DEF PageInv, PageTypes, Known, UpTo, EveryApOnce
<1>. QED
  BY <1>1, PageAlways, PTL
===============================================================================
