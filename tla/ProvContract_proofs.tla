-------------------------- MODULE ProvContract_proofs --------------------------
(***************************************************************************)
(* Why a session ends as esp_prov.h promises, for every build, every set   *)
(* of faults and all limits within the stated inequalities: what exists    *)
(* where in the routine, the clean return, the bounded join, the teardown  *)
(* by old work items, and the refinement of ProvContract.                  *)
(***************************************************************************)
EXTENDS ProvSession_proofs

-------------------------------------------------------------------------------
(* Most steps are neither the caller's, nor the routine's, nor the clock's. *)

Elsewhere ==
    \/ AppCancel
    \/ SysWork
    \/ BleTimersFire
    \/ HttpRuns
    \/ DnsRuns
    \/ BlePhone /\ UNCHANGED <<httpVars, sessionVars>>
    \/ HttpPhone /\ UNCHANGED <<bleVars, sessionVars>>

\* What they all leave alone: everything of the session but wqJob.
courseVars == <<ctlVars, rt, busy, ret, result, bleUp, ap, dhcp>>

LEMMA Split ==
    ASSUME [Next]_vars
    PROVE  Run \/ Controller \/ Routine \/ Elsewhere \/ Tick \/ UNCHANGED vars
BY DEF Next, Device, Outside, Elsewhere

LEMMA SignalSets ==
    ASSUME SignalFinished
    PROVE  finished => finished'
BY DEF SignalFinished

\* A step elsewhere sets the flags of the abort, never clears one; it may shut a
\* listener or end the name server, never start one.
LEMMA ElsewhereSteps ==
    ASSUME TypeOK, abandoned => "SOFTAP" \in Built, Elsewhere
    PROVE  /\ UNCHANGED courseVars
           /\ stop => stop'
           /\ finished => finished'
           /\ abandoned => abandoned'
           /\ listener = "closed" <=> listener' = "closed"
           /\ dns' => dns
<1>. USE DEF courseVars, ctlVars, sessionVars
<1>1. CASE AppCancel
  BY <1>1 DEF AppCancel, Cancel, CancelFrom, CancelIsr, ShutSockets, httpVars
<1>2. CASE SysWork
  BY <1>2 DEF SysWork, SysJoined, SysSoftapShutdown, SysBleStop, SysAbortNet, BleWork,
     AdvRestartWork, IdleCancels, IdleIgnored, CancelFrom, ShutSockets, BleStop,
     sharedVars, transportVars, httpVars
<1>3. CASE BleTimersFire
  BY <1>3 DEF BleTimersFire, BleTimers, AdvTimerFires, IdleTimerFires, sharedVars, httpVars
<1>4. CASE HttpRuns
  BY <1>4, SignalSets DEF HttpRuns, HttpThread, HttpExit, HttpHangUp, HttpPlain, HttpSession,
     HttpNotReady, HttpNoEntropy, HttpScan, HttpConfig, HttpSignal, sharedVars,
     transportVars
<1>5. CASE DnsRuns
  BY <1>5 DEF DnsRuns, DnsExit, sharedVars, transportVars
<1>6. CASE BlePhone /\ UNCHANGED <<httpVars, sessionVars>>
  <2>1. SelectBle => (abandoned => abandoned')
    BY DEF SelectBle
  <2>. QED
    BY <1>6, <2>1, SignalSets DEF BlePhone, BleConnect, BleDisconnect, BleStrayLeaves, BleWriteSession,
       BleWriteOther, BleWriteConfig, BleRead, sharedVars, transportVars, httpVars
<1>7. CASE HttpPhone /\ UNCHANGED <<bleVars, sessionVars>>
  BY <1>7 DEF HttpPhone, HttpAccept, HttpHangUp, HttpHeader, sharedVars, transportVars
<1>. QED
  BY <1>1, <1>2, <1>3, <1>4, <1>5, <1>6, <1>7 DEF Elsewhere

-------------------------------------------------------------------------------
(* What exists where in the routine.                                       *)

Placed ==
    /\ abandoned => "SOFTAP" \in Built
    /\ ap => rt \in {"prescan", "listen", "http", "dns", "ble", "wait", "join", "stop",
                     "cleanup"}
    /\ listener # "closed" => rt \in {"http", "dns", "ble", "wait", "join", "stop"}
    /\ dns => rt \in {"ble", "wait", "join"}
    /\ rt \in {"prescan", "listen", "http", "dns"} => ap
    /\ rt \in {"http", "dns"} => listener # "closed"
    /\ rt \in {"ble", "wait"} /\ "SOFTAP" \in Built => ap /\ listener # "closed"
    /\ ctl = "idle" => rt = "none" \/ reply = "INTERNAL"

LEMMA RoutinePlaced ==
    ASSUME TypeOK, ArbitrationInv, Placed, Routine
    PROVE  Placed'
<1>. USE DEF Placed, Goto, RoutineFrame, ctlVars
<1>1. CASE RtSetup
  BY <1>1 DEF RtSetup
<1>2. CASE RtChoose
  BY <1>2 DEF RtChoose, httpVars
<1>3. CASE RtSettled \/ RtDhcp \/ RtAp \/ RtPrescan
  BY <1>3 DEF RtSettled, RtDhcp, RtAp, RtPrescan, transportVars, httpVars
<1>4. CASE RtListen
  BY <1>4 DEF RtListen, httpVars
<1>5. CASE RtStartHttp \/ RtStartDns
  BY <1>5 DEF RtStartHttp, RtStartDns, transportVars
<1>6. CASE RtStartBle
  BY <1>6 DEF RtStartBle, httpVars
<1>7. CASE RtDone \/ RtStopped
  BY <1>7 DEF RtDone, RtStopped, Leave, transportVars, httpVars
<1>8. CASE RtJoin
  BY <1>8 DEF RtJoin, transportVars, httpVars
<1>9. CASE RtStop \/ RtCleanup
  BY <1>9 DEF RtStop, RtCleanup, RadiosOff, httpVars
<1>10. CASE RtReset
  BY <1>10 DEF RtReset
<1>. QED
  BY <1>1, <1>2, <1>3, <1>4, <1>5, <1>6, <1>7, <1>8, <1>9, <1>10 DEF Routine

LEMMA NextPlaced ==
    ASSUME TypeOK, ArbitrationInv, Placed, [Next]_vars
    PROVE  Placed'
<1>1. CASE Run
  BY <1>1 DEF Run, Placed, transportVars, httpVars
<1>2. CASE Controller
  BY <1>2 DEF Controller, Joined, Expire, GiveUp, ReturnToCaller, Cancel, CancelFrom,
     ShutSockets, Placed, transportVars, httpVars
<1>3. CASE Elsewhere
  <2>1. /\ UNCHANGED courseVars
        /\ listener = "closed" <=> listener' = "closed"
        /\ dns' => dns
    BY <1>3, ElsewhereSteps DEF Placed
  <2>2. abandoned' => "SOFTAP" \in Built
    BY <1>3 DEF Placed, Elsewhere, AppCancel, SysWork, SysJoined, SysSoftapShutdown,
       SysBleStop, SysAbortNet, BleWork, AdvRestartWork, IdleCancels, IdleIgnored,
       BleTimersFire, BleTimers, AdvTimerFires, IdleTimerFires, HttpRuns, HttpThread,
       HttpExit, HttpHangUp, HttpPlain, HttpSession, HttpNotReady, HttpNoEntropy,
       HttpScan, HttpConfig, HttpSignal, DnsRuns, DnsExit, BlePhone, BleConnect,
       BleDisconnect, BleStrayLeaves, BleWriteSession, BleWriteOther, BleWriteConfig, BleRead, SelectBle,
       HttpPhone, HttpAccept, HttpHeader, transportVars
  <2>. QED
    BY <2>1, <2>2 DEF Placed, courseVars, ctlVars
<1>4. CASE Tick
  BY <1>4 DEF Tick, Placed, transportVars, httpVars
<1>5. CASE UNCHANGED vars
  BY <1>5 DEF vars, Placed, transportVars, httpVars, sessionVars
<1>. QED
  BY <1>1, <1>2, <1>3, <1>4, <1>5, RoutinePlaced, Split

LEMMA AlwaysPlaced == Spec => []Placed
<1>1. Init => Placed
  BY DEF Init, TransportInit, HttpInit, Placed
<1>2. TypeOK /\ ArbitrationInv /\ Placed /\ [Next]_vars => Placed'
  BY NextPlaced
<1>. QED
  BY <1>1, <1>2, TypeCorrect, Arbitration, PTL DEF Spec

-------------------------------------------------------------------------------
(* The clean return.  The only thing an exit of the routine leaves behind   *)
(* is the DHCP server, and it does so before the deadline, with INTERNAL.   *)

InTime ==
    /\ rt \in {"created", "choose"} => ctl = "polling" /\ left > SettleTime
    /\ rt = "settle" => ctl = "polling" /\ left > busy
    /\ rt \in {"dhcp", "ap"} => ctl = "polling" /\ left > 0
    /\ rt \in {"choose", "settle", "dhcp", "ap"} => ret = "INTERNAL"

Leftover ==
    dhcp /\ rt \in {"reset", "none"} =>
        \/ rt = "reset" /\ ret = "INTERNAL" /\ ctl = "polling" /\ left > 0
        \/ rt = "none" /\ ctl = "polling" /\ result = "INTERNAL"
        \/ rt = "none" /\ ctl = "idle" /\ reply = "INTERNAL"

LEMMA RoutineInTime ==
    ASSUME TypeOK, InTime, Leftover, Routine
    PROVE  InTime' /\ Leftover'
<1>. USE DEF InTime, Leftover, Goto, RoutineFrame, ctlVars, TypeOK, SessionTypeOK
<1>1. CASE RtSetup
  BY <1>1 DEF RtSetup
<1>2. CASE RtChoose
  BY <1>2, SessionAssumption DEF RtChoose
<1>3. CASE RtSettled \/ RtDhcp \/ RtAp
  BY <1>3 DEF RtSettled, RtDhcp, RtAp
<1>4. CASE RtPrescan \/ RtListen \/ RtStartHttp \/ RtStartDns \/ RtStartBle
  BY <1>4 DEF RtPrescan, RtListen, RtStartHttp, RtStartDns, RtStartBle
<1>5. CASE RtDone \/ RtStopped \/ RtJoin
  BY <1>5 DEF RtDone, RtStopped, Leave, RtJoin
<1>6. CASE RtStop \/ RtCleanup
  BY <1>6 DEF RtStop, RtCleanup, RadiosOff
<1>7. CASE RtReset
  BY <1>7 DEF RtReset
<1>. QED
  BY <1>1, <1>2, <1>3, <1>4, <1>5, <1>6, <1>7 DEF Routine

LEMMA NextInTime ==
    ASSUME SessionLimit > SettleTime, TypeOK, Placed, InTime, Leftover, [Next]_vars
    PROVE  InTime' /\ Leftover'
<1>1. CASE Run
  BY <1>1, SessionAssumption DEF Run, InTime, Leftover
<1>2. CASE Controller
  BY <1>2, SessionAssumption DEF Controller, Joined, Expire, GiveUp, ReturnToCaller, InTime,
     Leftover, Placed, TypeOK, SessionTypeOK
<1>3. CASE Elsewhere
  BY <1>3, ElsewhereSteps DEF Placed, InTime, Leftover, courseVars, ctlVars
<1>4. CASE Tick
  BY <1>4 DEF Tick, Quiet, CallerQuiet, RoutineQuiet, Less, InTime, Leftover, TypeOK,
     SessionTypeOK
<1>5. CASE UNCHANGED vars
  BY <1>5 DEF vars, InTime, Leftover, sessionVars
<1>. QED
  BY <1>1, <1>2, <1>3, <1>4, <1>5, RoutineInTime, Split

LEMMA AlwaysInTime ==
    ASSUME SessionLimit > SettleTime
    PROVE  Spec => [](InTime /\ Leftover)
<1>1. Init => InTime /\ Leftover
  BY DEF Init, InTime, Leftover
<1>2. TypeOK /\ Placed /\ (InTime /\ Leftover) /\ [Next]_vars => (InTime /\ Leftover)'
  BY NextInTime
<1>. QED
  BY <1>1, <1>2, TypeCorrect, AlwaysPlaced, PTL DEF Spec

\* Nothing of a session is in use when esp_prov_run has returned anything but an
\* internal error, nor before its first call.
LEMMA NothingInUse ==
    ASSUME ArbitrationInv, Placed, Leftover, ctl = "idle", reply # "INTERNAL"
    PROVE  /\ rt = "none" /\ http = "down" /\ ~dns /\ listener = "closed" /\ ~ap /\ ~dhcp
           /\ ~gatt
BY DEF ArbitrationInv, WorkersInside, ServiceInside, Placed, Leftover

\* Every exit of esp_prov_routine_run undoes what it has brought up, but for the
\* DHCP server, and that exit is reported as an internal error when the session
\* limit is longer than the settling time.
THEOREM CleanReturns ==
    ASSUME SessionLimit > SettleTime
    PROVE  Spec => []CleanReturn
<1>1. ArbitrationInv /\ Placed /\ (InTime /\ Leftover) => CleanReturn
  BY NothingInUse DEF CleanReturn
<1>. QED
  BY <1>1, Arbitration, AlwaysPlaced, AlwaysInTime, PTL

-------------------------------------------------------------------------------
(* The bounded join.  What the routine may still need once it is told to    *)
(* stop is less than what its caller will still wait.                       *)

Needs ==
    CASE rt \in {"created", "choose"} -> SettleTime + PrescanLimit + TeardownLimit
      [] rt = "settle" -> busy + PrescanLimit + TeardownLimit
      [] rt \in {"dhcp", "ap"} -> PrescanLimit + TeardownLimit
      [] rt = "prescan" -> busy + TeardownLimit
      [] rt \in {"listen", "http", "dns", "ble", "wait", "join"} -> TeardownLimit
      [] rt = "stop" -> busy
      [] OTHER -> 0

WaitsLongEnough ==
    /\ ctl = "idle" => rt = "none"
    /\ ctl = "polling" => Needs < left + JoinLimit
    /\ ctl = "polling" /\ rt = "created" => left > 0
    /\ ctl = "reaping" /\ rt # "none" => rt # "created" /\ stop /\ Needs < grace

LEMMA NeedsNat == TypeOK => Needs \in Nat /\ TeardownLimit \in Nat
BY SessionAssumption DEF Needs, TypeOK, SessionTypeOK, RoutineStates

LEMMA RoutineWaits ==
    ASSUME TypeOK, WaitsLongEnough, Routine
    PROVE  WaitsLongEnough'
<1>. USE SessionAssumption
     DEF WaitsLongEnough, Goto, RoutineFrame, ctlVars, TypeOK, SessionTypeOK
<1>1. Needs' \in Nat /\ Needs' <= Needs
  <2>1. CASE RtSetup
    BY <2>1 DEF RtSetup, Needs
  <2>2. CASE RtChoose
    BY <2>2 DEF RtChoose, Needs
  <2>3. CASE RtSettled
    BY <2>3 DEF RtSettled, Needs
  <2>4. CASE RtDhcp \/ RtAp
    BY <2>4 DEF RtDhcp, RtAp, Needs
  <2>5. CASE RtPrescan \/ RtListen \/ RtStartHttp \/ RtStartDns \/ RtStartBle
    BY <2>5 DEF RtPrescan, RtListen, RtStartHttp, RtStartDns, RtStartBle, Needs
  <2>6. CASE RtDone \/ RtStopped \/ RtJoin
    BY <2>6 DEF RtDone, RtStopped, Leave, RtJoin, Needs
  <2>7. CASE RtStop \/ RtCleanup \/ RtReset
    BY <2>7 DEF RtStop, RtCleanup, RtReset, Needs
  <2>. QED
    BY <2>1, <2>2, <2>3, <2>4, <2>5, <2>6, <2>7 DEF Routine
<1>2. UNCHANGED ctlVars /\ rt # "none" /\ rt' # "created" /\ (rt # "created" /\ stop => stop')
  BY DEF Routine, RtSetup, RtChoose, RtSettled, RtDhcp, RtAp, RtPrescan, RtListen,
     RtStartHttp, RtStartDns, RtStartBle, RtDone, RtStopped, Leave, RtJoin, RtStop,
     RtCleanup, RtReset, sharedVars
<1>3. Needs \in Nat
  BY NeedsNat
<1>. QED
  BY <1>1, <1>2, <1>3

LEMMA NextWaits ==
    ASSUME SessionLimit > 0, TeardownLimit < JoinLimit,
           SettleTime + PrescanLimit + TeardownLimit < SessionLimit + JoinLimit,
           TypeOK, Placed, WaitsLongEnough, [Next]_vars
    PROVE  WaitsLongEnough'
<1>. USE SessionAssumption
<1>1. CASE Run
  BY <1>1 DEF Run, WaitsLongEnough, Needs
<1>2. CASE Controller
  <2>1. Needs' = Needs
    BY <1>2 DEF Controller, Joined, Expire, GiveUp, ReturnToCaller, Needs
  <2>. QED
    BY <1>2, <2>1, NeedsNat DEF Controller, Joined, Expire, GiveUp, ReturnToCaller, Cancel,
       CancelFrom, WaitsLongEnough, TypeOK, SessionTypeOK
<1>3. CASE Elsewhere
  <2>1. UNCHANGED courseVars /\ (stop => stop')
    BY <1>3, ElsewhereSteps DEF Placed
  <2>2. Needs' = Needs
    BY <2>1 DEF courseVars, Needs
  <2>. QED
    BY <2>1, <2>2 DEF courseVars, ctlVars, WaitsLongEnough
<1>4. CASE Tick
  <2>1. UNCHANGED <<ctl, rt, stop>> /\ left' = Less(left) /\ grace' = Less(grace)
        /\ busy' = Less(busy)
    BY <1>4 DEF Tick, sharedVars
  <2>2. CASE ctl = "idle"
    BY <2>1, <2>2 DEF WaitsLongEnough
  <2>3. CASE ctl = "polling"
    <3>1. left > 0 /\ rt # "none" /\ left \in Nat /\ busy \in Nat
      BY <1>4, <2>3 DEF Tick, Quiet, CallerQuiet, TypeOK, SessionTypeOK
    <3>2. (rt \in {"settle", "prescan", "stop"} /\ busy > 0) \/ rt = "wait"
      BY <1>4, <3>1 DEF Tick, Quiet, RoutineQuiet
    <3>3. CASE rt = "wait"
      BY <2>1, <2>3, <3>1, <3>3 DEF WaitsLongEnough, Needs, Less
    <3>4. CASE rt \in {"settle", "prescan", "stop"} /\ busy > 0
      <4>1. Needs' = Needs - 1
        BY <2>1, <3>1, <3>4 DEF Needs, Less
      <4>2. left' = left - 1
        BY <2>1, <3>1 DEF Less
      <4>. QED
        BY <2>1, <2>3, <3>1, <3>4, <4>1, <4>2, NeedsNat DEF WaitsLongEnough
    <3>. QED
      BY <3>2, <3>3, <3>4
  <2>4. CASE ctl = "reaping"
    <3>1. grace > 0 /\ rt # "none" /\ grace \in Nat /\ busy \in Nat /\ stop
      BY <1>4, <2>4 DEF Tick, Quiet, CallerQuiet, WaitsLongEnough, TypeOK, SessionTypeOK
    <3>2. rt \in {"settle", "prescan", "stop"} /\ busy > 0
      BY <1>4, <3>1 DEF Tick, Quiet, RoutineQuiet
    <3>3. Needs' = Needs - 1 /\ grace' = grace - 1
      BY <2>1, <3>1, <3>2 DEF Needs, Less
    <3>. QED
      BY <2>1, <2>4, <3>1, <3>2, <3>3, NeedsNat DEF WaitsLongEnough
  <2>. QED
    BY <2>2, <2>3, <2>4 DEF TypeOK, SessionTypeOK
<1>5. CASE UNCHANGED vars
  <2>1. Needs' = Needs
    BY <1>5 DEF vars, sessionVars, Needs
  <2>. QED
    BY <1>5, <2>1 DEF vars, sharedVars, sessionVars, WaitsLongEnough
<1>. QED
  BY <1>1, <1>2, <1>3, <1>4, <1>5, RoutineWaits, Split

\* esp_prov_run never returns while its routine thread runs, if there is a session
\* limit, the teardown takes less than the bounded join, and the two limits
\* together are longer than the settling time, the first scan and the teardown.
THEOREM JoinedReturns ==
    ASSUME SessionLimit > 0, TeardownLimit < JoinLimit,
           SettleTime + PrescanLimit + TeardownLimit < SessionLimit + JoinLimit
    PROVE  Spec => []ReturnMeansJoined
<1>1. Init => WaitsLongEnough
  BY DEF Init, WaitsLongEnough
<1>2. TypeOK /\ Placed /\ WaitsLongEnough /\ [Next]_vars => WaitsLongEnough'
  BY NextWaits
<1>3. WaitsLongEnough => ReturnMeansJoined
  BY DEF WaitsLongEnough, ReturnMeansJoined
<1>. QED
  BY <1>1, <1>2, <1>3, TypeCorrect, AlwaysPlaced, PTL DEF Spec

-------------------------------------------------------------------------------
(* Old work items.  Before the routine touches the radios the work queue    *)
(* has been idle for as long as it settles, so what is queued afterwards    *)
(* was queued by this session, and the flag it was queued with is still up. *)

Settling == rt \in {"none", "created", "choose"} \/ (rt = "settle" /\ busy = SettleTime)

OwnWork ==
    ~Settling =>
        /\ "abort_net" \in pending => stop
        /\ "softap_shutdown" \in pending => abandoned

LEMMA RoutineOwnWork ==
    ASSUME SettleTime > 0, TypeOK, Placed, OwnWork, NoStaleTeardown, Routine
    PROVE  OwnWork' /\ NoStaleTeardown'
<1>. USE DEF OwnWork, NoStaleTeardown, Settling, Goto, RoutineFrame, sharedVars
<1>1. CASE RtSetup \/ RtChoose
  BY <1>1 DEF RtSetup, RtChoose, Placed
<1>2. CASE RtSettled
  BY <1>2, SessionAssumption DEF RtSettled, transportVars
<1>3. CASE RtDhcp \/ RtAp \/ RtPrescan
  BY <1>3 DEF RtDhcp, RtAp, RtPrescan, transportVars
<1>4. CASE RtListen
  BY <1>4 DEF RtListen
<1>5. CASE RtStartHttp \/ RtStartDns
  BY <1>5 DEF RtStartHttp, RtStartDns, transportVars
<1>6. CASE RtStartBle
  BY <1>6 DEF RtStartBle, BleStart
<1>7. CASE RtDone \/ RtStopped \/ RtJoin
  BY <1>7 DEF RtDone, RtStopped, Leave, RtJoin, transportVars
<1>8. CASE RtStop \/ RtCleanup
  BY <1>8 DEF RtStop, RtCleanup, RadiosOff, BleStop
<1>9. CASE RtReset
  BY <1>9 DEF RtReset
<1>. QED
  BY <1>1, <1>2, <1>3, <1>4, <1>5, <1>6, <1>7, <1>8, <1>9 DEF Routine

\* Whoever queues the abort has set the stop flag, whoever queues the shutdown has
\* set the abandoned flag, and sockets are shut by these two and by a cancel.
LEMMA ElsewhereQueues ==
    ASSUME TypeOK, Placed, Elsewhere
    PROVE  /\ "abort_net" \in pending' => "abort_net" \in pending \/ stop'
           /\ "softap_shutdown" \in pending' => "softap_shutdown" \in pending \/ abandoned'
           /\ listener' = "shut" => \/ listener = "shut"
                                    \/ listener = "open" /\ stop'
                                    \/ listener = "open" /\ "abort_net" \in pending
                                    \/ listener = "open" /\ "softap_shutdown" \in pending
<1>1. CASE AppCancel
  BY <1>1 DEF AppCancel, Cancel, CancelFrom, CancelIsr, ShutSockets
<1>2. CASE SysWork
  BY <1>2 DEF SysWork, SysJoined, SysSoftapShutdown, SysBleStop, SysAbortNet, BleWork,
     AdvRestartWork, IdleCancels, IdleIgnored, CancelFrom, ShutSockets, BleStop,
     transportVars
<1>3. CASE BleTimersFire
  BY <1>3 DEF BleTimersFire, BleTimers, AdvTimerFires, IdleTimerFires
<1>4. CASE HttpRuns \/ DnsRuns
  BY <1>4 DEF HttpRuns, HttpThread, HttpExit, HttpHangUp, HttpPlain, HttpSession,
     HttpNotReady, HttpNoEntropy, HttpScan, HttpConfig, HttpSignal, DnsRuns, DnsExit,
     transportVars
<1>5. CASE BlePhone /\ UNCHANGED <<httpVars, sessionVars>>
  <2>1. SelectBle => /\ "abort_net" \in pending' => "abort_net" \in pending
                     /\ "softap_shutdown" \in pending' =>
                            "softap_shutdown" \in pending \/ abandoned'
    BY DEF SelectBle
  <2>. QED
    BY <1>5, <2>1 DEF BlePhone, BleConnect, BleDisconnect, BleStrayLeaves, BleWriteSession, BleWriteOther,
       BleWriteConfig, BleRead, transportVars
<1>6. CASE HttpPhone /\ UNCHANGED <<bleVars, sessionVars>>
  BY <1>6 DEF HttpPhone, HttpAccept, HttpHangUp, HttpHeader, SelectSoftap, transportVars
<1>. QED
  BY <1>1, <1>2, <1>3, <1>4, <1>5, <1>6 DEF Elsewhere

LEMMA NextOwnWork ==
    ASSUME SettleTime > 0, TypeOK, Placed, OwnWork, NoStaleTeardown, [Next]_vars
    PROVE  OwnWork' /\ NoStaleTeardown'
<1>1. CASE Run
  BY <1>1 DEF Run, OwnWork, NoStaleTeardown, Settling, sharedVars, transportVars
<1>2. CASE Controller
  BY <1>2 DEF Controller, Joined, Expire, GiveUp, ReturnToCaller, Cancel, CancelFrom,
     ShutSockets, OwnWork, NoStaleTeardown, Settling, sharedVars, transportVars
<1>3. CASE Elsewhere
  <2>1. UNCHANGED <<rt, busy>> /\ (stop => stop') /\ (abandoned => abandoned')
    BY <1>3, ElsewhereSteps DEF Placed, courseVars
  <2>2. listener = "open" => ~Settling
    BY DEF Placed, Settling
  <2>. QED
    BY <1>3, <2>1, <2>2, ElsewhereQueues DEF OwnWork, NoStaleTeardown, Settling
<1>4. CASE Tick
  <2>1. pending' = {}
    BY <1>4 DEF Tick, Quiet, QueueQuiet, transportVars
  <2>. QED
    BY <1>4, <2>1 DEF Tick, OwnWork, NoStaleTeardown, sharedVars, transportVars
<1>5. CASE UNCHANGED vars
  BY <1>5 DEF vars, OwnWork, NoStaleTeardown, Settling, sharedVars, transportVars,
     sessionVars
<1>. QED
  BY <1>1, <1>2, <1>3, <1>4, <1>5, RoutineOwnWork, Split

LEMMA AlwaysOwnWork ==
    ASSUME SettleTime > 0
    PROVE  Spec => [](OwnWork /\ NoStaleTeardown)
<1>1. Init => OwnWork /\ NoStaleTeardown
  BY DEF Init, TransportInit, OwnWork, NoStaleTeardown, Settling
<1>2. TypeOK /\ Placed /\ (OwnWork /\ NoStaleTeardown) /\ [Next]_vars
          => (OwnWork /\ NoStaleTeardown)'
  BY NextOwnWork
<1>. QED
  BY <1>1, <1>2, TypeCorrect, AlwaysPlaced, PTL DEF Spec

\* The sockets of a session are shut only because that session ends or because BLE
\* has won: the settling time lets the work items of the previous session pass.
THEOREM NoStaleTeardownHolds ==
    ASSUME SettleTime > 0
    PROVE  Spec => []NoStaleTeardown
BY AlwaysOwnWork, PTL

\* prov-http lives until it sees the abort.
HttpLives ==
    rt \in {"dns", "ble", "wait"} /\ "SOFTAP" \in Built /\ http = "down" => Abort

LEMMA NextHttpLives ==
    ASSUME "poll" \notin Faults, TypeOK, Placed, HttpLives, [Next]_vars
    PROVE  HttpLives'
<1>. USE DEF HttpLives, Abort
<1>1. CASE Run
  BY <1>1 DEF Run
<1>2. CASE Controller
  BY <1>2 DEF Controller, Joined, Expire, GiveUp, ReturnToCaller, Cancel, CancelFrom,
     sharedVars, transportVars, httpVars
<1>3. CASE Routine
  BY <1>3 DEF Routine, RtSetup, RtChoose, RtSettled, RtDhcp, RtAp, RtPrescan, RtListen,
     RtStartHttp, RtStartDns, RtStartBle, RtDone, RtStopped, Leave, RtJoin, RtStop,
     RtCleanup, RtReset, Goto, sharedVars, transportVars, httpVars
<1>4. CASE Elsewhere
  <2>1. /\ rt' = rt
        /\ stop => stop'
        /\ finished => finished'
        /\ abandoned => abandoned'
    BY <1>4, ElsewhereSteps DEF Placed, courseVars
  <2>2. http' = "down" => http = "down" \/ Abort
    BY <1>4 DEF Elsewhere, AppCancel, SysWork, SysJoined, SysSoftapShutdown, SysBleStop,
       SysAbortNet, BleTimersFire, HttpRuns, HttpThread, HttpExit, HttpHangUp, HttpPlain,
       HttpSession, HttpNotReady, HttpNoEntropy, HttpScan, HttpConfig, HttpSignal,
       NextRequest, DnsRuns, DnsExit, HttpPhone, HttpAccept, HttpHeader, httpVars
  <2>. QED
    BY <2>1, <2>2
<1>5. CASE Tick
  BY <1>5 DEF Tick, sharedVars, transportVars, httpVars
<1>6. CASE UNCHANGED vars
  BY <1>6 DEF vars, sharedVars, transportVars, httpVars, sessionVars
<1>. QED
  BY <1>1, <1>2, <1>3, <1>4, <1>5, <1>6, Split

\* While a session waits for a phone its SoftAP side can be reached unless BLE has
\* won, whatever work items, cancels and phones of this or an earlier session do,
\* as long as the poll of the listeners does not fail.
THEOREM SoftapReachableHolds ==
    ASSUME SettleTime > 0, "poll" \notin Faults
    PROVE  Spec => []SoftapReachable
<1>1. Init => HttpLives
  BY DEF Init, HttpLives
<1>2. TypeOK /\ Placed /\ HttpLives /\ [Next]_vars => HttpLives'
  BY NextHttpLives
<1>3. TypeOK /\ Placed /\ NoStaleTeardown /\ HttpLives => SoftapReachable
  BY DEF TypeOK, TransportTypeOK, Placed, NoStaleTeardown, HttpLives, SoftapReachable, Abort
<1>. QED
  BY <1>1, <1>2, <1>3, TypeCorrect, AlwaysPlaced, NoStaleTeardownHolds, PTL DEF Spec

-------------------------------------------------------------------------------
(* What is delivered.  Whoever signals the end of a session has answered    *)
(* "connected", so the store holds a pair that a phone sent as one.         *)

Delivered ==
    /\ haveCred => cred \in Networks
    /\ http = "sent" => haveCred
    /\ gatt /\ readFinish => haveCred
    /\ rt \notin {"none", "created"} => /\ done => finished
                                        /\ ret = "OK" => finished
                                        /\ finished => out \in Networks
    /\ rt = "none" /\ result = "OK" => out \in Networks

\* Credentials of a network are stored whole when no passphrase is too long.
LEMMA DispatchDelivers ==
    ASSUME \A n \in Networks : n.psk # TooLong, haveCred => cred \in Networks,
           NEW m, DispatchConfig(m)
    PROVE  /\ haveCred => haveCred'
           /\ haveCred' => cred' \in Networks
<1>1. CASE \E n \in Networks : SetConfig(n.ssid, n.psk)
  <2>. PICK n \in Networks : SetConfig(n.ssid, n.psk)
    BY <1>1
  <2>. QED
    BY SharedAssumption DEF SetConfig
<1>2. CASE ApplyConfig \/ UNCHANGED <<cred, haveCred, apply>>
  BY <1>2 DEF ApplyConfig
<1>. QED
  BY <1>1, <1>2 DEF DispatchConfig

LEMMA RoutineDelivers ==
    ASSUME TypeOK, ArbitrationInv, Delivered, Routine
    PROVE  Delivered'
<1>. USE DEF Delivered, Goto, RoutineFrame, ArbitrationInv, WorkersInside, ServiceInside
<1>1. CASE RtSetup
  BY <1>1 DEF RtSetup, SharedSetup, SharedReset
<1>2. CASE RtChoose \/ RtSettled \/ RtDhcp \/ RtAp \/ RtPrescan \/ RtListen
  BY <1>2 DEF RtChoose, RtSettled, RtDhcp, RtAp, RtPrescan, RtListen, sharedVars, bleVars,
     httpVars
<1>3. CASE RtStartHttp \/ RtStartDns
  BY <1>3 DEF RtStartHttp, RtStartDns, sharedVars, bleVars
<1>4. CASE RtStartBle
  BY <1>4 DEF RtStartBle, BleStart, sharedVars, bleVars, httpVars
<1>5. CASE RtDone \/ RtStopped
  BY <1>5 DEF RtDone, RtStopped, Leave, bleVars, httpVars
<1>6. CASE RtJoin
  BY <1>6 DEF RtJoin, sharedVars, bleVars, httpVars
<1>7. CASE RtStop \/ RtCleanup
  BY <1>7 DEF RtStop, RtCleanup, BleStop, sharedVars, bleVars, httpVars
<1>8. CASE RtReset
  BY <1>8 DEF RtReset, SharedReset
<1>. QED
  BY <1>1, <1>2, <1>3, <1>4, <1>5, <1>6, <1>7, <1>8 DEF Routine

\* A signal with a whole pair in the store, in a session that is set up.
LEMMA SignalDelivers ==
    ASSUME Delivered, haveCred, rt \notin {"none", "created"}, UNCHANGED <<rt, ret, cred>>,
           SignalFinished
    PROVE  /\ done' => finished'
           /\ ret' = "OK" => finished'
           /\ finished' => out' \in Networks
BY DEF Delivered, SignalFinished

LEMMA ElsewhereDelivers ==
    ASSUME \A n \in Networks : n.psk # TooLong,
           TypeOK, ArbitrationInv, Placed, Delivered, Elsewhere
    PROVE  Delivered'
<1>0. UNCHANGED <<rt, ret, result>>
  BY ElsewhereSteps DEF Placed, courseVars
<1>1. CASE AppCancel \/ SysWork \/ BleTimersFire
  BY <1>0, <1>1 DEF AppCancel, Cancel, CancelFrom, CancelIsr, SysWork, SysJoined,
     SysSoftapShutdown, SysBleStop, SysAbortNet, BleWork, AdvRestartWork, IdleCancels,
     IdleIgnored, BleStop, BleTimersFire, BleTimers, AdvTimerFires, IdleTimerFires,
     sharedVars, bleVars, httpVars, Delivered
<1>2. CASE HttpConfig /\ UNCHANGED <<bleVars, sessionVars>>
  <2>1. /\ haveCred => haveCred'
        /\ haveCred' => cred' \in Networks
    BY <1>2, DispatchDelivers DEF HttpConfig, Delivered
  <2>2. http' = "sent" => haveCred'
    BY <1>2 DEF HttpConfig, NextRequest, DispatchConfig, StatusConnected
  <2>. QED
    BY <1>0, <1>2, <2>1, <2>2 DEF HttpConfig, Delivered, bleVars
<1>3. CASE HttpSignal /\ UNCHANGED <<bleVars, sessionVars>>
  <2>1. haveCred /\ rt \notin {"none", "created"}
    BY <1>3 DEF HttpSignal, Delivered, ArbitrationInv, WorkersInside
  <2>. QED
    BY <1>0, <1>3, <2>1, SignalDelivers DEF HttpSignal, Delivered, bleVars
<1>4. CASE (HttpRuns /\ ~(HttpConfig \/ HttpSignal)) \/ DnsRuns
  BY <1>0, <1>4 DEF HttpRuns, HttpThread, HttpExit, HttpHangUp, HttpPlain, HttpSession,
     HttpNotReady, HttpNoEntropy, HttpScan, NextRequest, DnsRuns, DnsExit, sharedVars,
     bleVars, Delivered
<1>5. CASE HttpPhone /\ UNCHANGED <<bleVars, sessionVars>>
  BY <1>0, <1>5 DEF HttpPhone, HttpAccept, HttpHangUp, HttpHeader, sharedVars, bleVars,
     Delivered
<1>6. ASSUME NEW m \in {"set", "apply", "status"}, BleWriteConfig(m),
             UNCHANGED <<httpVars, sessionVars>>
      PROVE  Delivered'
  <2>1. /\ haveCred => haveCred'
        /\ haveCred' => cred' \in Networks
    BY <1>6, DispatchDelivers DEF BleWriteConfig, Delivered
  <2>2. rt \notin {"none", "created"}
    BY <1>6 DEF BleWriteConfig, BleWriting, Linked, ArbitrationInv, ServiceInside
  <2>3. CASE m = "status" /\ StatusConnected
    <3>1. haveCred /\ UNCHANGED <<cred, haveCred>>
      BY <1>6, <2>3 DEF BleWriteConfig, DispatchConfig, StatusConnected
    <3>2. CASE SignalFinished /\ UNCHANGED readFinish
      BY <1>0, <1>6, <2>2, <3>1, <3>2, SignalDelivers DEF BleWriteConfig, Delivered, httpVars
    <3>3. CASE UNCHANGED <<finished, out, done>>
      BY <1>0, <1>6, <3>1, <3>3 DEF BleWriteConfig, Delivered, httpVars
    <3>. QED
      BY <1>6, <2>3, <3>2, <3>3 DEF BleWriteConfig
  <2>4. CASE ~(m = "status" /\ StatusConnected)
    BY <1>0, <1>6, <2>1, <2>4 DEF BleWriteConfig, Delivered, httpVars
  <2>. QED
    BY <2>3, <2>4
<1>7. CASE BleRead /\ UNCHANGED <<httpVars, sessionVars>>
  <2>1. haveCred /\ rt \notin {"none", "created"}
    BY <1>7 DEF BleRead, Linked, Delivered, ArbitrationInv, ServiceInside
  <2>. QED
    BY <1>0, <1>7, <2>1, SignalDelivers DEF BleRead, Delivered, httpVars
<1>8. CASE /\ BleConnect \/ BleDisconnect \/ BleStrayLeaves \/ BleWriteOther
              \/ \E m \in {"cmd0", "cmd1"} : BleWriteSession(m)
           /\ UNCHANGED <<httpVars, sessionVars>>
  BY <1>0, <1>8 DEF BleConnect, BleDisconnect, BleStrayLeaves, BleWriteOther, BleWriteSession,
     sharedVars, transportVars, bleVars, httpVars, Delivered
<1>. QED
  BY <1>1, <1>2, <1>3, <1>4, <1>5, <1>6, <1>7, <1>8
     DEF Elsewhere, BlePhone, HttpRuns

LEMMA NextDelivers ==
    ASSUME \A n \in Networks : n.psk # TooLong,
           TypeOK, ArbitrationInv, Placed, Delivered, [Next]_vars
    PROVE  Delivered'
<1>1. CASE Run
  BY <1>1 DEF Run, Delivered, sharedVars, bleVars, httpVars
<1>2. CASE Controller
  BY <1>2 DEF Controller, Joined, Expire, GiveUp, ReturnToCaller, Delivered, sharedVars,
     bleVars, httpVars
<1>3. CASE Tick
  BY <1>3 DEF Tick, Delivered, sharedVars, httpVars
<1>4. CASE UNCHANGED vars
  BY <1>4 DEF vars, Delivered, sharedVars, bleVars, httpVars, sessionVars
<1>. QED
  BY <1>1, <1>2, <1>3, <1>4, RoutineDelivers, ElsewhereDelivers, Split

LEMMA AlwaysDelivered ==
    ASSUME \A n \in Networks : n.psk # TooLong
    PROVE  Spec => []Delivered
<1>1. Init => Delivered
  BY DEF Init, SharedInit, BleInit, HttpInit, Delivered
<1>2. TypeOK /\ ArbitrationInv /\ Placed /\ Delivered /\ [Next]_vars => Delivered'
  BY NextDelivers
<1>. QED
  BY <1>1, <1>2, TypeCorrect, Arbitration, AlwaysPlaced, PTL DEF Spec

-------------------------------------------------------------------------------
(* The refinement of ProvContract: initial states map to initial states and *)
(* every step to a step or to nothing.                                      *)

LEMMA ContractStart == Init => Contract!Init
<1>. SUFFICES ASSUME Init PROVE Contract!Init
  OBVIOUS
<1>1. NoCredentials \notin Networks
  BY SharedAssumption DEF NoCredentials, Ssids
<1>2. InUse = {}
  BY DEF Init, TransportInit, BleInit, HttpInit, InUse
<1>. QED
  BY <1>1, <1>2 DEF Init, SharedInit, NoReply, Contract!Init

\* What a step that is not a signal leaves of the caller's credentials.
LEMMA IdleKeepsOut ==
    ASSUME TypeOK, ArbitrationInv, rt = "none", [Next]_vars
    PROVE  out' = out
<1>. USE DEF ArbitrationInv, WorkersInside, ServiceInside
<1>1. CASE Run \/ Controller \/ Tick \/ UNCHANGED vars
  BY <1>1 DEF Run, Controller, Joined, Expire, GiveUp, ReturnToCaller, Tick, vars, sharedVars
<1>2. CASE Routine
  BY <1>2 DEF Routine, RtSetup, RtChoose, RtSettled, RtDhcp, RtAp, RtPrescan, RtListen,
     RtStartHttp, RtStartDns, RtStartBle, RtDone, RtStopped, Leave, RtJoin, RtStop,
     RtCleanup, RtReset, Goto
<1>3. CASE Elsewhere
  <2>1. CASE AppCancel \/ SysWork \/ BleTimersFire
    BY <2>1 DEF AppCancel, SysWork, SysJoined, SysSoftapShutdown, SysBleStop, SysAbortNet,
       BleWork, AdvRestartWork, IdleCancels, IdleIgnored, BleTimersFire, BleTimers,
       AdvTimerFires, IdleTimerFires, sharedVars
  <2>2. CASE HttpRuns \/ DnsRuns
    BY <2>2 DEF HttpRuns, HttpThread, HttpExit, HttpHangUp, HttpPlain, HttpSession,
       HttpNotReady, HttpNoEntropy, HttpScan, HttpConfig, HttpSignal, DnsRuns, DnsExit,
       sharedVars
  <2>3. CASE BlePhone \/ HttpPhone
    BY <2>3 DEF BlePhone, BleConnect, BleDisconnect, BleStrayLeaves, BleWriteSession, BleWriteOther,
       BleWriteConfig, BleWriting, Linked, BleRead, HttpPhone, HttpAccept, HttpHangUp, HttpHeader,
       sharedVars
  <2>. QED
    BY <1>3, <2>1, <2>2, <2>3 DEF Elsewhere
<1>. QED
  BY <1>1, <1>2, <1>3, Split

LEMMA ContractReturns ==
    ASSUME TypeOK, ArbitrationInv, Placed, Leftover, Delivered,
           ArbitrationInv', Placed', Leftover', Joined \/ GiveUp
    PROVE  Contract!Next
<1>1. /\ ctl # "idle" /\ ctl' = "idle"
      /\ UNCHANGED <<out, InUse>>
  BY DEF Joined, GiveUp, ReturnToCaller, InUse, sharedVars, transportVars, bleVars, httpVars
<1>2. reply' \in {"OK", "CANCELLED", "TIMEOUT", "INTERNAL"}
  BY DEF Joined, GiveUp, ReturnToCaller, TypeOK, SessionTypeOK, Results
<1>3. reply' = "OK" => out \in Networks
  BY DEF Joined, GiveUp, ReturnToCaller, Delivered
<1>4. reply' # "INTERNAL" => InUse = {}
  <2>1. reply' # "INTERNAL" => InUse' = {}
    BY <1>1 DEF ArbitrationInv, WorkersInside, ServiceInside, Placed, Leftover, InUse
  <2>. QED
    BY <1>1, <2>1
<1>. QED
  BY <1>1, <1>2, <1>3, <1>4 DEF Contract!Next, Contract!Return

LEMMA ContractStep ==
    ASSUME TypeOK, ArbitrationInv, Placed, Leftover, Delivered,
           ArbitrationInv', Placed', Leftover', [Next]_vars
    PROVE  [Contract!Next]_Contract!contractVars
<1>1. CASE Run
  <2>1. InUse \subseteq InUse'
    BY <1>1 DEF Run, InUse, transportVars, bleVars, httpVars
  <2>. QED
    BY <1>1, <2>1 DEF Run, NoReply, sharedVars, Contract!Next, Contract!Call
<1>2. CASE Joined \/ GiveUp
  BY <1>2, ContractReturns
<1>3. CASE ~(Run \/ Joined \/ GiveUp)
  <2>1. UNCHANGED reply /\ (ctl' = "idle" <=> ctl = "idle")
    <3>1. CASE Expire
      BY <3>1 DEF Expire
    <3>2. CASE Routine
      BY <3>2 DEF Routine, RtSetup, RtChoose, RtSettled, RtDhcp, RtAp, RtPrescan, RtListen,
         RtStartHttp, RtStartDns, RtStartBle, RtDone, RtStopped, Leave, RtJoin, RtStop,
         RtCleanup, RtReset, RoutineFrame, ctlVars
    <3>3. CASE Elsewhere
      BY <3>3, ElsewhereSteps DEF Placed, courseVars, ctlVars
    <3>4. CASE Tick \/ UNCHANGED vars
      BY <3>4 DEF Tick, vars, sessionVars
    <3>. QED
      BY <1>3, <3>1, <3>2, <3>3, <3>4, Split DEF Controller
  <2>2. CASE ctl # "idle" \/ reply = "INTERNAL"
    <3>1. InUse' \subseteq Parts
      BY DEF InUse, Parts
    <3>. QED
      BY <2>1, <2>2, <3>1 DEF Contract!Next, Contract!Work
  <2>3. CASE ctl = "idle" /\ reply # "INTERNAL"
    <3>1. InUse = {} /\ rt = "none"
      BY <2>3, NothingInUse DEF InUse
    <3>2. InUse' = {}
      BY <2>1, <2>3
         DEF ArbitrationInv, WorkersInside, ServiceInside, Placed, Leftover, InUse
    <3>3. out' = out
      BY <3>1, IdleKeepsOut
    <3>. QED
      BY <2>1, <2>3, <3>1, <3>2, <3>3 DEF Contract!contractVars
  <2>. QED
    BY <2>2, <2>3
<1>. QED
  BY <1>1, <1>2, <1>3

\* esp_prov_run keeps the contract of esp_prov.h, whatever is built in and
\* whatever fails: ESP_PROV_OK comes with a network that a phone sent, anything
\* but an internal error with everything released, and between two calls nothing
\* of the caller's is touched.  For a session limit longer than the settling time,
\* and phones that send no passphrase that is too long.
THEOREM ContractKept ==
    ASSUME SessionLimit > SettleTime, \A n \in Networks : n.psk # TooLong
    PROVE  Spec => KeepsContract
<1>1. Init => Contract!Init
  BY ContractStart
<1>2. /\ TypeOK /\ ArbitrationInv /\ Placed /\ (InTime /\ Leftover) /\ Delivered
      /\ (ArbitrationInv /\ Placed /\ (InTime /\ Leftover))'
      /\ [Next]_vars
      => [Contract!Next]_Contract!contractVars
  BY ContractStep
<1>3. Spec => [](InTime /\ Leftover)
  BY AlwaysInTime
<1>4. Spec => []Delivered
  BY AlwaysDelivered
<1>. QED
  BY <1>1, <1>2, <1>3, <1>4, TypeCorrect, Arbitration, AlwaysPlaced, PTL
     DEF Spec, KeepsContract, Contract!Spec
===============================================================================
