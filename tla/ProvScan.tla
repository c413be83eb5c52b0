------------------------------- MODULE ProvScan -------------------------------
(***************************************************************************)
(* The scan cache of esp_prov_shared.c: one list of access points, filled  *)
(* by the events of the Wi-Fi driver, kept by a work queue of its own and  *)
(* read by the phone's CmdScanStatus and CmdScanResult.                    *)
(*                                                                         *)
(* Threads: the phone's handler (Bluetooth RX, cooperative, or prov-http), *)
(* the routine (the first scan after the AP is up), the scan work queue    *)
(* and the network event thread.  The threads with a preemptible priority  *)
(* are cut where another can come between two of their writes.             *)
(*                                                                         *)
(* An entry of the list is the number of the request it was found for.     *)
(***************************************************************************)
EXTENDS Integers

CONSTANTS
    Built,        \* the transports built in: "BLE", "SOFTAP"
    MaxAps,       \* SCAN_MAX_APS
    Rescans,      \* the rescans after an empty pass: 2
    ScanTimeout,  \* SCAN_TIMEOUT_SECS, in ticks
    PrescanWait,  \* PRESCAN_WAIT_SECS, in ticks
    MaxRequests   \* bound: requests for a list

ASSUME ScanAssumption ==
    /\ Built \subseteq {"BLE", "SOFTAP"}
    /\ MaxAps \in Nat /\ Rescans \in Nat /\ MaxRequests \in Nat
    /\ ScanTimeout \in Nat \ {0} /\ PrescanWait \in Nat \ {0}

Off == -1    \* a timer that is not scheduled
NoScan == 0  \* the driver is idle; in the list: an entry that was never filled

VARIABLES
    count,      \* scan_ap_count
    cache,      \* scan_cache
    finished,   \* scan_finished
    budget,     \* s_scan_empty_rescan_budget
    retry,      \* s_scan_retry_after_empty
    prewarmed,  \* s_scan_prewarmed
    queued,     \* s_scan_dwork is scheduled
    timer,      \* ticks before s_scan_timeout_work, or Off
    running,    \* what the scan queue's thread is in the middle of
    driver,     \* the request the driver is scanning for, or NoScan
    phase,      \* where the session is, see below
    wait,       \* ticks before the deadline of the first scan
    request,    \* history: the number of the latest request
    quiet,      \* history: no older scan was under way at that request
    passes      \* history: scans the driver has started for it

listVars == <<count, cache>>
flagVars == <<finished, budget, retry>>
historyVars == <<request, quiet, passes>>
vars == <<listVars, flagVars, prewarmed, queued, timer, running, driver, phase,
          wait, historyVars>>

(***************************************************************************)
(* out: no session.  prescan, poll: the routine in                         *)
(* esp_prov_shared_prescan_after_ap.  serve: a phone may ask.              *)
(* clear, serveclear: the routine, prov-http, between the reset of the     *)
(* counters and the clearing of the list.                                  *)
(***************************************************************************)
Phases == {"out", "prescan", "clear", "poll", "serve", "serveclear"}
Clearing == phase \in {"clear", "serveclear"}

Slots == 0 .. MaxAps - 1
Empty == [i \in Slots |-> NoScan]

TypeOK ==
    /\ count \in 0 .. MaxAps
    /\ cache \in [Slots -> 0 .. MaxRequests]
    /\ budget \in 0 .. Rescans
    /\ finished \in BOOLEAN /\ retry \in BOOLEAN /\ prewarmed \in BOOLEAN
    /\ queued \in BOOLEAN
    /\ timer \in Off .. ScanTimeout
    /\ running \in {"nothing", "scan", "timeout"}
    /\ driver \in 0 .. MaxRequests
    /\ phase \in Phases
    /\ wait \in 0 .. PrescanWait
    /\ request \in 0 .. MaxRequests
    /\ quiet \in BOOLEAN
    /\ passes \in Nat

Init ==
    /\ count = 0 /\ cache = Empty
    /\ finished = FALSE /\ budget = 0 /\ retry = FALSE /\ prewarmed = FALSE
    /\ queued = FALSE /\ timer = Off /\ running = "nothing"
    /\ driver = NoScan
    /\ phase = "out" /\ wait = 0
    /\ request = 0 /\ quiet = TRUE /\ passes = 0

-------------------------------------------------------------------------------
\* The session, as far as the scan cache sees it.

\* esp_prov_shared_reset clears prewarmed; only a SoftAP build scans in advance.
SessionBegins ==
    /\ phase = "out" /\ request < MaxRequests
    /\ prewarmed' = FALSE
    /\ phase' = IF "SOFTAP" \in Built THEN "prescan" ELSE "serve"
    /\ UNCHANGED <<listVars, flagVars, queued, timer, running, driver, wait,
                   historyVars>>

SessionEnds ==
    /\ phase = "serve"
    /\ phase' = "out"
    /\ prewarmed' = FALSE
    /\ UNCHANGED <<listVars, flagVars, queued, timer, running, driver, wait,
                   historyVars>>

MutantResetCounters ==
    /\ queued' = FALSE
    /\ timer' = Off
    /\ finished' = FALSE
    /\ budget' = Rescans
    /\ retry' = FALSE
    /\ request' = request + 1
    /\ quiet' = (driver = NoScan /\ running # "scan")
    /\ passes' = 0
    /\ UNCHANGED <<count, running, driver, prewarmed>>

\* The first half of scan_start and of the first scan.  Cancelling a work item
\* does not stop the one that is running.
ResetCounters ==
    /\ queued' = FALSE
    /\ timer' = Off
    /\ count' = 0
    /\ finished' = FALSE
    /\ budget' = Rescans
    /\ retry' = FALSE
    /\ request' = request + 1
    /\ quiet' = (driver = NoScan /\ running # "scan")
    /\ passes' = 0
    /\ UNCHANGED <<running, driver, prewarmed>>

PrescanReset ==
    /\ phase = "prescan"
    /\ ResetCounters
    /\ phase' = "clear"
    /\ wait' = PrescanWait
    /\ UNCHANGED cache

\* CmdScanStart over HTTP: prov-http may be preempted after the reset.
ScanStartHttp ==
    /\ "SOFTAP" \in Built
    /\ phase = "serve" /\ ~prewarmed /\ request < MaxRequests
    /\ ResetCounters
    /\ phase' = "serveclear"
    /\ UNCHANGED <<cache, wait>>

\* The second half.
ClearList ==
    /\ Clearing
    /\ cache' = Empty
    /\ queued' = TRUE
    /\ phase' = IF phase = "clear" THEN "poll" ELSE "serve"
    /\ UNCHANGED <<count, flagVars, prewarmed, timer, running, driver, wait,
                   historyVars>>

\* CmdScanStart over BLE: the cooperative thread does both halves at once.
ScanStartBle ==
    /\ "BLE" \in Built
    /\ phase = "serve" /\ ~prewarmed /\ request < MaxRequests
    /\ queued' = TRUE
    /\ timer' = Off
    /\ count' = 0
    /\ cache' = Empty
    /\ finished' = FALSE
    /\ budget' = Rescans
    /\ retry' = FALSE
    /\ request' = request + 1
    /\ quiet' = (driver = NoScan /\ running # "scan")
    /\ passes' = 0
    /\ UNCHANGED <<running, driver, prewarmed, phase, wait>>

\* The polling loop of the first scan sees the flag.
PrescanSucceeds ==
    /\ phase = "poll" /\ finished
    /\ prewarmed' = TRUE
    /\ phase' = "serve"
    /\ UNCHANGED <<listVars, flagVars, queued, timer, running, driver, wait,
                   historyVars>>

\* ... or its deadline.  The phone's CmdScanStart will then scan on demand.
PrescanGivesUp ==
    /\ phase = "poll" /\ ~finished /\ wait = 0
    /\ queued' = FALSE
    /\ timer' = Off
    /\ count' = 0
    /\ finished' = TRUE
    /\ phase' = "serve"
    /\ UNCHANGED <<cache, budget, retry, prewarmed, running, driver, wait,
                   historyVars>>

-------------------------------------------------------------------------------
\* The scan work queue: one item at a time.

\* scan_work_fn up to the request.
WorkBegins ==
    /\ queued /\ running = "nothing"
    /\ queued' = FALSE
    /\ running' = "scan"
    /\ retry' = FALSE
    /\ IF retry THEN count' = 0 /\ cache' = Empty ELSE UNCHANGED listVars
    /\ UNCHANGED <<finished, budget, prewarmed, timer, driver, phase, wait,
                   historyVars>>

MutantWorkRequests ==
    /\ running = "scan"
    /\ running' = "nothing"
    /\ \/ /\ finished' = TRUE
          /\ UNCHANGED <<driver, passes>>
       \/ /\ driver = NoScan
          /\ driver' = request
          /\ passes' = passes + 1
          /\ UNCHANGED finished
    /\ UNCHANGED <<listVars, budget, retry, prewarmed, queued, timer, phase,
                   wait, request, quiet>>

\* The rest of scan_work_fn: there is no interface or the driver refuses, as it
\* does while it scans, or the scan starts and the timeout is armed.
WorkRequests ==
    /\ running = "scan"
    /\ running' = "nothing"
    /\ \/ /\ finished' = TRUE
          /\ UNCHANGED <<timer, driver, passes>>
       \/ /\ driver = NoScan
          /\ driver' = request
          /\ timer' = ScanTimeout
          /\ passes' = passes + 1
          /\ UNCHANGED finished
    /\ UNCHANGED <<listVars, budget, retry, prewarmed, queued, phase, wait,
                   request, quiet>>

\* scan_timeout_fn reads the flag ...
TimeoutBegins ==
    /\ timer = 0 /\ running = "nothing"
    /\ timer' = Off
    /\ running' = IF finished THEN "nothing" ELSE "timeout"
    /\ UNCHANGED <<listVars, flagVars, prewarmed, queued, driver, phase, wait,
                   historyVars>>

\* ... and sets it, though a new request may have come in between.
TimeoutSets ==
    /\ running = "timeout"
    /\ running' = "nothing"
    /\ finished' = TRUE
    /\ UNCHANGED <<listVars, budget, retry, prewarmed, queued, timer, driver,
                   phase, wait, historyVars>>

-------------------------------------------------------------------------------
\* scan_event_cb, on the network event thread.

MutantScanResult ==
    /\ driver # NoScan
    /\ count <= MaxAps
    /\ cache' = [cache EXCEPT ![count] = driver]
    /\ count' = count + 1
    /\ UNCHANGED <<flagVars, prewarmed, queued, timer, running, driver, phase,
                   wait, historyVars>>

\* NET_EVENT_WIFI_SCAN_RESULT; one that finds the list full changes nothing.
ScanResult ==
    /\ driver # NoScan
    /\ count < MaxAps
    /\ cache' = [cache EXCEPT ![count] = driver]
    /\ count' = count + 1
    /\ UNCHANGED <<flagVars, prewarmed, queued, timer, running, driver, phase,
                   wait, historyVars>>

MutantScanDone ==
    /\ driver # NoScan
    /\ driver' = NoScan
    /\ IF count = 0
       THEN /\ retry' = TRUE
            /\ finished' = FALSE
            /\ timer' = ScanTimeout
            /\ queued' = TRUE
       ELSE /\ finished' = TRUE
            /\ timer' = Off
            /\ UNCHANGED <<retry, queued>>
    /\ UNCHANGED <<listVars, budget, prewarmed, running, phase, wait,
                   historyVars>>

MutantScanDoneAgain ==
    /\ driver # NoScan
    /\ driver' = NoScan
    /\ IF budget > 0
       THEN /\ budget' = budget - 1
            /\ retry' = TRUE
            /\ finished' = FALSE
            /\ timer' = ScanTimeout
            /\ queued' = TRUE
       ELSE /\ finished' = TRUE
            /\ timer' = Off
            /\ UNCHANGED <<budget, retry, queued>>
    /\ UNCHANGED <<listVars, prewarmed, running, phase, wait, historyVars>>

\* NET_EVENT_WIFI_SCAN_DONE: a pass without any result is repeated.
ScanDone ==
    /\ driver # NoScan
    /\ driver' = NoScan
    /\ IF count = 0 /\ budget > 0
       THEN /\ budget' = budget - 1
            /\ retry' = TRUE
            /\ finished' = FALSE
            /\ timer' = ScanTimeout
            /\ queued' = TRUE
       ELSE /\ finished' = TRUE
            /\ timer' = Off
            /\ UNCHANGED <<budget, retry, queued>>
    /\ UNCHANGED <<listVars, prewarmed, running, phase, wait, historyVars>>

\* The event queue is full, or the driver stops without telling.
DoneIsLost ==
    /\ driver # NoScan
    /\ driver' = NoScan
    /\ UNCHANGED <<listVars, flagVars, prewarmed, queued, timer, running, phase,
                   wait, historyVars>>

-------------------------------------------------------------------------------
\* The clock.  A tick is longer than the deferral of a scan (900 ms, 800 ms):
\* it waits for the scan queue and for the threads that are not asleep.
Tick ==
    /\ running = "nothing" /\ ~queued /\ timer # 0
    /\ phase \notin {"prescan", "clear", "serveclear"}
    /\ phase = "poll" => ~finished /\ wait > 0
    /\ timer' = IF timer > 0 THEN timer - 1 ELSE timer
    /\ wait' = IF phase = "poll" THEN wait - 1 ELSE wait
    /\ UNCHANGED <<listVars, flagVars, prewarmed, queued, running, driver,
                   phase, historyVars>>

Session == SessionBegins \/ SessionEnds
Prescan == PrescanReset \/ PrescanSucceeds \/ PrescanGivesUp
ScanStart == ScanStartHttp \/ ScanStartBle
ScanQueue == WorkBegins \/ WorkRequests \/ TimeoutBegins \/ TimeoutSets
Driver == ScanResult \/ ScanDone \/ DoneIsLost

Next == Session \/ Prescan \/ ScanStart \/ ClearList \/ ScanQueue \/ Driver \/ Tick

Spec == Init /\ [][Next]_vars

\* The device's threads run when they are ready; the driver may stay silent.
FairSpec ==
    /\ Spec
    /\ WF_vars(Prescan) /\ WF_vars(ClearList) /\ WF_vars(ScanQueue)
    /\ SF_vars(Tick)

-------------------------------------------------------------------------------
\* While a phone reads "not finished" something is on its way that will finish
\* the scan: the work item, the timeout, or the thread that is about to schedule
\* them.  A scan whose DONE event is lost must not leave the phone waiting.
WakeupArmed ==
    request > 0 /\ ~finished =>
        queued \/ running # "nothing" \/ timer # Off \/ Clearing

\* When nothing of an older request was under way, the list holds results of
\* this request only, and no counted entry is blank: neither the rescans nor
\* the timeouts leave a count that disagrees with the list.
ListIsOfRequest ==
    quiet => \A i \in 0 .. count - 1 : cache[i] = request

\* A list that was announced as finished and not empty stays as it is, or grows,
\* until the next request: a phone reads it in several pages.
AnnouncedListStays ==
    [][quiet /\ finished /\ count > 0 /\ request' = request =>
          /\ count' >= count
          /\ \A i \in 0 .. count - 1 : cache'[i] = cache[i]]_vars

\* The radio is used at most 1 + Rescans times for one request; once more when
\* the request came in the middle of an older one.
PassesBounded == passes <= Rescans + (IF quiet THEN 1 ELSE 2)

\* Every scan ends, whatever the driver does or omits.
ScanEnds == (request > 0 /\ ~finished) ~> finished
===============================================================================
