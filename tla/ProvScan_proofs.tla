---------------------------- MODULE ProvScan_proofs ---------------------------
(***************************************************************************)
(* Theorems about the scan cache, for every size of the list, number of    *)
(* rescans, timeout and build.                                             *)
(***************************************************************************)
EXTENDS ProvScan, TLAPS

\* One scan is on its way at most, as long as no older one was at the request.
OneScan ==
    quiet =>
        /\ Clearing => ~queued /\ running # "scan" /\ driver = NoScan /\ count = 0
        /\ queued => running # "scan" /\ driver = NoScan
        /\ running = "scan" => driver = NoScan
        /\ driver # NoScan => driver = request

\* The flag that makes the next work item clear the list is up only between an
\* empty pass and that item.
RetryOfEmpty ==
    quiet /\ retry => count = 0 /\ driver = NoScan /\ running # "scan"

\* What the request may still cost: the scans started, the rescans left, and the
\* work items that will start one.
Cost == passes + budget + (IF queued THEN 1 ELSE 0)
                        + (IF running = "scan" THEN 1 ELSE 0)
CostBounded ==
    Cost <= Rescans + (IF quiet THEN 1 ELSE 2) - (IF Clearing THEN 1 ELSE 0)

RequestLeft == phase = "prescan" => request < MaxRequests

ScanInv ==
    /\ TypeOK
    /\ RequestLeft
    /\ WakeupArmed
    /\ OneScan
    /\ RetryOfEmpty
    /\ ListIsOfRequest
    /\ CostBounded

-------------------------------------------------------------------------------
\* TypeOK in two halves: the provers take truth values and numbers apart.
FlagTypes ==
    /\ finished \in BOOLEAN /\ retry \in BOOLEAN /\ prewarmed \in BOOLEAN
    /\ queued \in BOOLEAN /\ quiet \in BOOLEAN
NumberTypes ==
    /\ count \in 0 .. MaxAps /\ cache \in [Slots -> 0 .. MaxRequests]
    /\ budget \in 0 .. Rescans /\ timer \in Off .. ScanTimeout
    /\ running \in {"nothing", "scan", "timeout"} /\ driver \in 0 .. MaxRequests
    /\ phase \in Phases /\ wait \in 0 .. PrescanWait
    /\ request \in 0 .. MaxRequests /\ passes \in Nat

LEMMA InitInv == Init => ScanInv
<1>1. Init => FlagTypes
  BY DEF Init, FlagTypes
<1>2. Init => NumberTypes
  BY ScanAssumption DEF ScanAssumption, Init, NumberTypes, Phases, Empty, Slots, Off, NoScan
<1>3. Init => TypeOK
  BY <1>1, <1>2 DEF TypeOK, FlagTypes, NumberTypes
<1>. QED
  BY <1>3, ScanAssumption
   DEF ScanAssumption, Init, ScanInv, TypeOK, RequestLeft, WakeupArmed, OneScan,
       RetryOfEmpty, ListIsOfRequest, CostBounded, Cost, Clearing, Phases, Empty,
       Slots, NoScan, Off

\* What the session does: begin, end, and the first scan.
LEMMA SessionStep ==
    ASSUME ScanInv,
           SessionBegins \/ SessionEnds \/ PrescanReset \/
           PrescanSucceeds \/ PrescanGivesUp
    PROVE  ScanInv'
<1>. USE ScanAssumption DEF ScanAssumption, ScanInv, NoScan, Off, listVars,
       flagVars, historyVars
<1>1. CASE SessionBegins
  <2>1. TypeOK'
    BY <1>1 DEF SessionBegins, TypeOK, Phases, Slots, Empty
  <2>2. (RequestLeft /\ WakeupArmed)'
    BY <1>1 DEF SessionBegins, RequestLeft, WakeupArmed, TypeOK, Clearing
  <2>3. (OneScan /\ RetryOfEmpty)'
    BY <1>1 DEF SessionBegins, OneScan, RetryOfEmpty, TypeOK, Clearing
  <2>4. ListIsOfRequest'
    BY <1>1 DEF SessionBegins, ListIsOfRequest, OneScan, RetryOfEmpty, TypeOK,
           Clearing, Slots, Empty
  <2>5. CostBounded'
    BY <1>1 DEF SessionBegins, CostBounded, Cost, OneScan, TypeOK, Clearing
  <2>. QED BY <2>1, <2>2, <2>3, <2>4, <2>5
<1>2. CASE SessionEnds
  <2>1. TypeOK'
    BY <1>2 DEF SessionEnds, TypeOK, Phases, Slots, Empty
  <2>2. (RequestLeft /\ WakeupArmed)'
    BY <1>2 DEF SessionEnds, RequestLeft, WakeupArmed, TypeOK, Clearing
  <2>3. (OneScan /\ RetryOfEmpty)'
    BY <1>2 DEF SessionEnds, OneScan, RetryOfEmpty, TypeOK, Clearing
  <2>4. ListIsOfRequest'
    BY <1>2 DEF SessionEnds, ListIsOfRequest, OneScan, RetryOfEmpty, TypeOK,
           Clearing, Slots, Empty
  <2>5. CostBounded'
    BY <1>2 DEF SessionEnds, CostBounded, Cost, OneScan, TypeOK, Clearing
  <2>. QED BY <2>1, <2>2, <2>3, <2>4, <2>5
<1>3. CASE PrescanReset
  <2>1. TypeOK'
    <3>1. FlagTypes'
      BY <1>3 DEF PrescanReset, ResetCounters, FlagTypes, TypeOK
    <3>2. NumberTypes'
      BY <1>3 DEF PrescanReset, ResetCounters, NumberTypes, RequestLeft, TypeOK, Phases, Slots, Empty
    <3>. QED BY <3>1, <3>2 DEF TypeOK, FlagTypes, NumberTypes
  <2>2. (RequestLeft /\ WakeupArmed)'
    BY <1>3 DEF PrescanReset, ResetCounters, RequestLeft, WakeupArmed, TypeOK, Clearing
  <2>3. (OneScan /\ RetryOfEmpty)'
    BY <1>3 DEF PrescanReset, ResetCounters, OneScan, RetryOfEmpty, TypeOK, Clearing
  <2>4. ListIsOfRequest'
    BY <1>3 DEF PrescanReset, ResetCounters, ListIsOfRequest, OneScan, RetryOfEmpty, TypeOK,
           Clearing, Slots, Empty
  <2>5. CostBounded'
    BY <1>3 DEF PrescanReset, ResetCounters, CostBounded, Cost, OneScan, TypeOK, Clearing
  <2>. QED BY <2>1, <2>2, <2>3, <2>4, <2>5
<1>4. CASE PrescanSucceeds
  <2>1. TypeOK'
    BY <1>4 DEF PrescanSucceeds, TypeOK, Phases, Slots, Empty
  <2>2. (RequestLeft /\ WakeupArmed)'
    BY <1>4 DEF PrescanSucceeds, RequestLeft, WakeupArmed, TypeOK, Clearing
  <2>3. (OneScan /\ RetryOfEmpty)'
    BY <1>4 DEF PrescanSucceeds, OneScan, RetryOfEmpty, TypeOK, Clearing
  <2>4. ListIsOfRequest'
    BY <1>4 DEF PrescanSucceeds, ListIsOfRequest, OneScan, RetryOfEmpty, TypeOK,
           Clearing, Slots, Empty
  <2>5. CostBounded'
    BY <1>4 DEF PrescanSucceeds, CostBounded, Cost, OneScan, TypeOK, Clearing
  <2>. QED BY <2>1, <2>2, <2>3, <2>4, <2>5
<1>5. CASE PrescanGivesUp
  <2>1. TypeOK'
    <3>1. FlagTypes'
      BY <1>5 DEF PrescanGivesUp, FlagTypes, TypeOK
    <3>2. NumberTypes'
      BY <1>5 DEF PrescanGivesUp, NumberTypes, TypeOK, Phases, Slots, Empty
    <3>. QED BY <3>1, <3>2 DEF TypeOK, FlagTypes, NumberTypes
  <2>2. (RequestLeft /\ WakeupArmed)'
    BY <1>5 DEF PrescanGivesUp, RequestLeft, WakeupArmed, TypeOK, Clearing
  <2>3. (OneScan /\ RetryOfEmpty)'
    BY <1>5 DEF PrescanGivesUp, OneScan, RetryOfEmpty, TypeOK, Clearing
  <2>4. ListIsOfRequest'
    BY <1>5 DEF PrescanGivesUp, ListIsOfRequest, OneScan, RetryOfEmpty, TypeOK,
           Clearing, Slots, Empty
  <2>5. CostBounded'
    BY <1>5 DEF PrescanGivesUp, CostBounded, Cost, OneScan, TypeOK, Clearing
  <2>. QED BY <2>1, <2>2, <2>3, <2>4, <2>5
<1>. QED BY <1>1, <1>2, <1>3, <1>4, <1>5

\* The phone's request, and the clearing of the list.
LEMMA RequestStep ==
    ASSUME ScanInv,
           ScanStartHttp \/ ScanStartBle \/ ClearList
    PROVE  ScanInv'
<1>. USE ScanAssumption DEF ScanAssumption, ScanInv, NoScan, Off, listVars,
       flagVars, historyVars
<1>1. CASE ScanStartHttp
  <2>1. TypeOK'
    <3>1. FlagTypes'
      BY <1>1 DEF ScanStartHttp, ResetCounters, FlagTypes, TypeOK
    <3>2. NumberTypes'
      BY <1>1 DEF ScanStartHttp, ResetCounters, NumberTypes, TypeOK, Phases, Slots, Empty
    <3>. QED BY <3>1, <3>2 DEF TypeOK, FlagTypes, NumberTypes
  <2>2. (RequestLeft /\ WakeupArmed)'
    BY <1>1 DEF ScanStartHttp, ResetCounters, RequestLeft, WakeupArmed, TypeOK, Clearing
  <2>3. (OneScan /\ RetryOfEmpty)'
    BY <1>1 DEF ScanStartHttp, ResetCounters, OneScan, RetryOfEmpty, TypeOK, Clearing
  <2>4. ListIsOfRequest'
    BY <1>1 DEF ScanStartHttp, ResetCounters, ListIsOfRequest, OneScan, RetryOfEmpty, TypeOK,
           Clearing, Slots, Empty
  <2>5. CostBounded'
    BY <1>1 DEF ScanStartHttp, ResetCounters, CostBounded, Cost, OneScan, TypeOK, Clearing
  <2>. QED BY <2>1, <2>2, <2>3, <2>4, <2>5
<1>2. CASE ScanStartBle
  <2>1. TypeOK'
    <3>1. FlagTypes'
      BY <1>2 DEF ScanStartBle, FlagTypes, TypeOK
    <3>2. NumberTypes'
      BY <1>2 DEF ScanStartBle, NumberTypes, TypeOK, Phases, Slots, Empty
    <3>. QED BY <3>1, <3>2 DEF TypeOK, FlagTypes, NumberTypes
  <2>2. (RequestLeft /\ WakeupArmed)'
    BY <1>2 DEF ScanStartBle, RequestLeft, WakeupArmed, TypeOK, Clearing
  <2>3. (OneScan /\ RetryOfEmpty)'
    BY <1>2 DEF ScanStartBle, OneScan, RetryOfEmpty, TypeOK, Clearing
  <2>4. ListIsOfRequest'
    BY <1>2 DEF ScanStartBle, ListIsOfRequest, OneScan, RetryOfEmpty, TypeOK,
           Clearing, Slots, Empty
  <2>5. CostBounded'
    BY <1>2 DEF ScanStartBle, CostBounded, Cost, OneScan, TypeOK, Clearing
  <2>. QED BY <2>1, <2>2, <2>3, <2>4, <2>5
<1>3. CASE ClearList
  <2>1. TypeOK'
    BY <1>3 DEF ClearList, TypeOK, Phases, Slots, Empty
  <2>2. (RequestLeft /\ WakeupArmed)'
    BY <1>3 DEF ClearList, RequestLeft, WakeupArmed, TypeOK, Clearing
  <2>3. (OneScan /\ RetryOfEmpty)'
    BY <1>3 DEF ClearList, OneScan, RetryOfEmpty, TypeOK, Clearing
  <2>4. ListIsOfRequest'
    BY <1>3 DEF ClearList, ListIsOfRequest, OneScan, RetryOfEmpty, TypeOK,
           Clearing, Slots, Empty
  <2>5. CostBounded'
    BY <1>3 DEF ClearList, CostBounded, Cost, OneScan, TypeOK, Clearing
  <2>. QED BY <2>1, <2>2, <2>3, <2>4, <2>5
<1>. QED BY <1>1, <1>2, <1>3

\* The scan work queue and the clock.
LEMMA QueueStep ==
    ASSUME ScanInv,
           WorkBegins \/ WorkRequests \/ TimeoutBegins \/
           TimeoutSets \/ Tick
    PROVE  ScanInv'
<1>. USE ScanAssumption DEF ScanAssumption, ScanInv, NoScan, Off, listVars,
       flagVars, historyVars
<1>1. CASE WorkBegins
  <2>1. TypeOK'
    <3>1. FlagTypes'
      BY <1>1 DEF WorkBegins, FlagTypes, TypeOK
    <3>2. NumberTypes'
      BY <1>1 DEF WorkBegins, NumberTypes, TypeOK, Phases, Slots, Empty
    <3>. QED BY <3>1, <3>2 DEF TypeOK, FlagTypes, NumberTypes
  <2>2. (RequestLeft /\ WakeupArmed)'
    BY <1>1 DEF WorkBegins, RequestLeft, WakeupArmed, TypeOK, Clearing
  <2>3. (OneScan /\ RetryOfEmpty)'
    BY <1>1 DEF WorkBegins, OneScan, RetryOfEmpty, TypeOK, Clearing
  <2>4. ListIsOfRequest'
    BY <1>1 DEF WorkBegins, ListIsOfRequest, OneScan, RetryOfEmpty, TypeOK,
           Clearing, Slots, Empty
  <2>5. CostBounded'
    BY <1>1 DEF WorkBegins, CostBounded, Cost, OneScan, TypeOK, Clearing
  <2>. QED BY <2>1, <2>2, <2>3, <2>4, <2>5
<1>2. CASE WorkRequests
  <2>1. TypeOK'
    <3>1. FlagTypes'
      BY <1>2 DEF WorkRequests, FlagTypes, TypeOK
    <3>2. NumberTypes'
      BY <1>2 DEF WorkRequests, NumberTypes, TypeOK, Phases, Slots, Empty
    <3>. QED BY <3>1, <3>2 DEF TypeOK, FlagTypes, NumberTypes
  <2>2. (RequestLeft /\ WakeupArmed)'
    BY <1>2 DEF WorkRequests, RequestLeft, WakeupArmed, TypeOK, Clearing
  <2>3. (OneScan /\ RetryOfEmpty)'
    BY <1>2 DEF WorkRequests, OneScan, RetryOfEmpty, TypeOK, Clearing
  <2>4. ListIsOfRequest'
    BY <1>2 DEF WorkRequests, ListIsOfRequest, OneScan, RetryOfEmpty, TypeOK,
           Clearing, Slots, Empty
  <2>5. CostBounded'
    BY <1>2 DEF WorkRequests, CostBounded, Cost, OneScan, TypeOK, Clearing
  <2>. QED BY <2>1, <2>2, <2>3, <2>4, <2>5
<1>3. CASE TimeoutBegins
  <2>1. TypeOK'
    BY <1>3 DEF TimeoutBegins, TypeOK, Phases, Slots, Empty
  <2>2. (RequestLeft /\ WakeupArmed)'
    BY <1>3 DEF TimeoutBegins, RequestLeft, WakeupArmed, TypeOK, Clearing
  <2>3. (OneScan /\ RetryOfEmpty)'
    BY <1>3 DEF TimeoutBegins, OneScan, RetryOfEmpty, TypeOK, Clearing
  <2>4. ListIsOfRequest'
    BY <1>3 DEF TimeoutBegins, ListIsOfRequest, OneScan, RetryOfEmpty, TypeOK,
           Clearing, Slots, Empty
  <2>5. CostBounded'
    BY <1>3 DEF TimeoutBegins, CostBounded, Cost, OneScan, TypeOK, Clearing
  <2>. QED BY <2>1, <2>2, <2>3, <2>4, <2>5
<1>4. CASE TimeoutSets
  <2>1. TypeOK'
    BY <1>4 DEF TimeoutSets, TypeOK, Phases, Slots, Empty
  <2>2. (RequestLeft /\ WakeupArmed)'
    BY <1>4 DEF TimeoutSets, RequestLeft, WakeupArmed, TypeOK, Clearing
  <2>3. (OneScan /\ RetryOfEmpty)'
    BY <1>4 DEF TimeoutSets, OneScan, RetryOfEmpty, TypeOK, Clearing
  <2>4. ListIsOfRequest'
    BY <1>4 DEF TimeoutSets, ListIsOfRequest, OneScan, RetryOfEmpty, TypeOK,
           Clearing, Slots, Empty
  <2>5. CostBounded'
    BY <1>4 DEF TimeoutSets, CostBounded, Cost, OneScan, TypeOK, Clearing
  <2>. QED BY <2>1, <2>2, <2>3, <2>4, <2>5
<1>5. CASE Tick
  <2>1. TypeOK'
    BY <1>5 DEF Tick, TypeOK, Phases, Slots, Empty
  <2>2. (RequestLeft /\ WakeupArmed)'
    BY <1>5 DEF Tick, RequestLeft, WakeupArmed, TypeOK, Clearing
  <2>3. (OneScan /\ RetryOfEmpty)'
    BY <1>5 DEF Tick, OneScan, RetryOfEmpty, TypeOK, Clearing
  <2>4. ListIsOfRequest'
    BY <1>5 DEF Tick, ListIsOfRequest, OneScan, RetryOfEmpty, TypeOK,
           Clearing, Slots, Empty
  <2>5. CostBounded'
    BY <1>5 DEF Tick, CostBounded, Cost, OneScan, TypeOK, Clearing
  <2>. QED BY <2>1, <2>2, <2>3, <2>4, <2>5
<1>. QED BY <1>1, <1>2, <1>3, <1>4, <1>5

\* The events of the driver.
LEMMA DriverStep ==
    ASSUME ScanInv,
           ScanResult \/ ScanDone \/ DoneIsLost
    PROVE  ScanInv'
<1>. USE ScanAssumption DEF ScanAssumption, ScanInv, NoScan, Off, listVars,
       flagVars, historyVars
<1>1. CASE ScanResult
  <2>1. TypeOK'
    BY <1>1 DEF ScanResult, TypeOK, Phases, Slots, Empty
  <2>2. (RequestLeft /\ WakeupArmed)'
    BY <1>1 DEF ScanResult, RequestLeft, WakeupArmed, TypeOK, Clearing
  <2>3. (OneScan /\ RetryOfEmpty)'
    BY <1>1 DEF ScanResult, OneScan, RetryOfEmpty, TypeOK, Clearing
  <2>4. ListIsOfRequest'
    BY <1>1 DEF ScanResult, ListIsOfRequest, OneScan, RetryOfEmpty, TypeOK,
           Clearing, Slots, Empty
  <2>5. CostBounded'
    BY <1>1 DEF ScanResult, CostBounded, Cost, OneScan, TypeOK, Clearing
  <2>. QED BY <2>1, <2>2, <2>3, <2>4, <2>5
<1>2. CASE ScanDone
  <2>1. TypeOK'
    <3>1. FlagTypes'
      BY <1>2 DEF ScanDone, FlagTypes, TypeOK
    <3>2. NumberTypes'
      BY <1>2 DEF ScanDone, NumberTypes, TypeOK, Phases, Slots, Empty
    <3>. QED BY <3>1, <3>2 DEF TypeOK, FlagTypes, NumberTypes
  <2>2. (RequestLeft /\ WakeupArmed)'
    BY <1>2 DEF ScanDone, RequestLeft, WakeupArmed, TypeOK, Clearing
  <2>3. (OneScan /\ RetryOfEmpty)'
    BY <1>2 DEF ScanDone, OneScan, RetryOfEmpty, TypeOK, Clearing
  <2>4. ListIsOfRequest'
    BY <1>2 DEF ScanDone, ListIsOfRequest, OneScan, RetryOfEmpty, TypeOK,
           Clearing, Slots, Empty
  <2>5. CostBounded'
    BY <1>2 DEF ScanDone, CostBounded, Cost, OneScan, TypeOK, Clearing
  <2>. QED BY <2>1, <2>2, <2>3, <2>4, <2>5
<1>3. CASE DoneIsLost
  <2>1. TypeOK'
    BY <1>3 DEF DoneIsLost, TypeOK, Phases, Slots, Empty
  <2>2. (RequestLeft /\ WakeupArmed)'
    BY <1>3 DEF DoneIsLost, RequestLeft, WakeupArmed, TypeOK, Clearing
  <2>3. (OneScan /\ RetryOfEmpty)'
    BY <1>3 DEF DoneIsLost, OneScan, RetryOfEmpty, TypeOK, Clearing
  <2>4. ListIsOfRequest'
    BY <1>3 DEF DoneIsLost, ListIsOfRequest, OneScan, RetryOfEmpty, TypeOK,
           Clearing, Slots, Empty
  <2>5. CostBounded'
    BY <1>3 DEF DoneIsLost, CostBounded, Cost, OneScan, TypeOK, Clearing
  <2>. QED BY <2>1, <2>2, <2>3, <2>4, <2>5
<1>. QED BY <1>1, <1>2, <1>3
LEMMA StutterStep == ScanInv /\ UNCHANGED vars => ScanInv'
BY DEF ScanInv, TypeOK, RequestLeft, WakeupArmed, OneScan, RetryOfEmpty,
       ListIsOfRequest, CostBounded, Cost, Clearing, vars, listVars, flagVars,
       historyVars

LEMMA NextInv == ScanInv /\ [Next]_vars => ScanInv'
BY SessionStep, RequestStep, QueueStep, DriverStep, StutterStep
   DEF Next, Session, Prescan, ScanStart, ScanQueue, Driver

-------------------------------------------------------------------------------
LEMMA ScanInvariant == Spec => []ScanInv
BY InitInv, NextInv, PTL DEF Spec

\* The variables keep their types; in particular the count stays within the list.
THEOREM ScanTypes == Spec => []TypeOK
BY ScanInvariant, PTL DEF ScanInv

\* A phone that is told to wait does not wait for something that was cancelled.
THEOREM WakeupHolds == Spec => []WakeupArmed
BY ScanInvariant, PTL DEF ScanInv

\* Counted entries are filled, and found for this request (from a quiet start).
THEOREM ListHolds == Spec => []ListIsOfRequest
BY ScanInvariant, PTL DEF ScanInv

\* A request costs a bounded number of scans.
THEOREM PassesHold == Spec => []PassesBounded
<1>1. ScanInv => PassesBounded
  BY ScanAssumption
     DEF ScanAssumption, ScanInv, TypeOK, CostBounded, Cost, PassesBounded
<1>. QED BY <1>1, ScanInvariant, PTL

ListStays == quiet /\ finished /\ count > 0 /\ request' = request =>
                /\ count' >= count
                /\ \A i \in 0 .. count - 1 : cache'[i] = cache[i]

\* The list a phone was told about is not cleared or shortened behind its back.
THEOREM ListStaysHolds == Spec => AnnouncedListStays
<1>1. ScanInv /\ [Next]_vars => ListStays
  <2> SUFFICES ASSUME ScanInv, [Next]_vars, quiet, finished, count > 0,
                      request' = request
               PROVE  count' >= count /\ \A i \in 0 .. count - 1 : cache'[i] = cache[i]
    BY DEF ListStays
  <2>. USE DEF ScanInv, TypeOK, listVars, flagVars, historyVars
  <2>1. CASE Session \/ PrescanSucceeds \/ WorkRequests \/ TimeoutBegins
             \/ TimeoutSets \/ ScanDone \/ DoneIsLost \/ Tick \/ UNCHANGED vars
    <3>1. UNCHANGED listVars
      BY <2>1 DEF Session, SessionBegins, SessionEnds, PrescanSucceeds, WorkRequests,
                  TimeoutBegins, TimeoutSets, ScanDone, DoneIsLost, Tick, vars
    <3>. QED BY <3>1
  <2>2. CASE PrescanReset \/ ScanStart
    BY <2>2 DEF PrescanReset, ScanStart, ScanStartHttp, ScanStartBle, ResetCounters
  <2>3. CASE PrescanGivesUp
    BY <2>3 DEF PrescanGivesUp
  <2>4. CASE ClearList
    BY <2>4 DEF ClearList, OneScan
  <2>5. CASE WorkBegins
    BY <2>5 DEF WorkBegins, RetryOfEmpty
  <2>6. CASE ScanResult
    BY <2>6 DEF ScanResult, Slots
  <2>. QED BY <2>1, <2>2, <2>3, <2>4, <2>5, <2>6
           DEF Next, Prescan, ScanQueue, Driver
<1>. QED BY <1>1, ScanInvariant, PTL DEF Spec, AnnouncedListStays, ListStays
===============================================================================
