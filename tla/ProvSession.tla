------------------------------ MODULE ProvSession -----------------------------
(***************************************************************************)
(* Provisioning sessions, one after the other: esp_prov_run (the caller's  *)
(* thread, prov_controller.c), the prov-routine thread it creates for each *)
(* session (esp_prov_routine_run), the cancel calls of the application and *)
(* the system workqueue, composed with the two transports.                 *)
(*                                                                         *)
(* Threads interleave freely.  Time is counted in ticks of about two       *)
(* seconds and passes only when no thread can go on by itself (Quiet): the *)
(* device computes in no time.  A wait has an exact length (SettleTime),   *)
(* or an upper bound (PrescanLimit, TeardownLimit), in ticks.              *)
(***************************************************************************)
EXTENDS ProvBle, ProvHttp

CONSTANTS
    SessionLimit,   \* CONFIG_ESP_PROV_SESSION_TIMEOUT_SEC
    JoinLimit,      \* the 30 s the caller waits for the routine after a cancel
    SettleTime,     \* the 2 s before the radios are touched
    PrescanLimit,   \* the 32 s the first scan may take
    TeardownLimit,  \* what the drivers take to stop the radios
    MaxSessions     \* bound: calls of esp_prov_run

ASSUME SessionAssumption ==
    /\ SessionLimit \in Nat /\ JoinLimit \in Nat /\ SettleTime \in Nat
    /\ PrescanLimit \in Nat /\ TeardownLimit \in Nat /\ MaxSessions \in Nat

VARIABLES
    ctl,       \* the caller: idle, polling (join and deadline), reaping (expired)
    left,      \* ticks until the deadline
    grace,     \* ticks until the bounded join of an expired session gives up
    reply,     \* what the last esp_prov_run returned
    sessions,  \* calls of esp_prov_run so far
    rt,        \* where the routine thread is
    busy,      \* ticks its current wait may still take
    ret,       \* the routine's local ret
    result,    \* ctx.result
    bleUp,     \* the routine's local ble_up
    ap,        \* the access point is enabled
    dhcp,      \* the DHCP server runs on it
    wqJob      \* joining while softap_shutdown_work_fn waits for the workers

sessionVars == <<ctl, left, grace, reply, sessions, rt, busy, ret, result, bleUp,
                 ap, dhcp, wqJob>>

vars == <<sharedVars, transportVars, bleVars, httpVars, sessionVars>>

Results == {"OK", "CANCELLED", "TIMEOUT", "INTERNAL"}
NoReply == "none"

\* The routine, in the order of esp_prov_routine_run; none: no live thread.
RoutineStates == {"none", "created", "choose", "settle", "dhcp", "ap", "prescan",
                  "listen", "http", "dns", "ble", "wait", "join", "stop", "cleanup",
                  "reset"}

SessionTypeOK ==
    /\ ctl \in {"idle", "polling", "reaping"}
    /\ left \in 0..SessionLimit
    /\ grace \in 0..JoinLimit
    /\ reply \in Results \cup {NoReply}
    /\ sessions \in 0..MaxSessions
    /\ rt \in RoutineStates
    /\ busy \in Nat
    /\ ret \in Results
    /\ result \in Results
    /\ bleUp \in BOOLEAN
    /\ ap \in BOOLEAN
    /\ dhcp \in BOOLEAN
    /\ wqJob \in {"none", "joining"}

\* Every variable has its type.
TypeOK == SharedTypeOK /\ TransportTypeOK /\ BleTypeOK /\ HttpTypeOK /\ SessionTypeOK

Init ==
    /\ SharedInit /\ TransportInit /\ BleInit /\ HttpInit
    /\ ctl = "idle"
    /\ left = 0
    /\ grace = 0
    /\ reply = NoReply
    /\ sessions = 0
    /\ rt = "none"
    /\ busy = 0
    /\ ret = "INTERNAL"
    /\ result = "INTERNAL"
    /\ bleUp = FALSE
    /\ ap = FALSE
    /\ dhcp = FALSE
    /\ wqJob = "none"

-------------------------------------------------------------------------------
(* The caller: prov_controller_run_blocking.                               *)

ctlVars == <<ctl, left, grace, reply, sessions>>

\* esp_prov_run is called.  The thread object and its stack are static: a call
\* while the previous routine still runs would create it a second time, which
\* has no defined outcome, and the model stops there.
Run ==
    /\ ctl = "idle" /\ rt = "none"
    /\ sessions < MaxSessions
    /\ sessions' = sessions + 1
    /\ ctl' = "polling"
    /\ left' = SessionLimit
    /\ reply' = NoReply
    /\ rt' = "created"
    /\ result' = "INTERNAL"
    /\ UNCHANGED <<sharedVars, transportVars, bleVars, httpVars, grace, busy, ret,
                   bleUp, ap, dhcp, wqJob>>

\* esp_prov_run returns r.
ReturnToCaller(r) ==
    /\ ctl' = "idle"
    /\ reply' = r
    /\ left' = 0
    /\ grace' = 0
    /\ UNCHANGED <<sharedVars, transportVars, bleVars, httpVars, sessions, rt, busy,
                   ret, result, bleUp, ap, dhcp, wqJob>>

\* The join succeeds: before the deadline the result is the routine's, after it
\* the result is TIMEOUT whatever the routine returned.
Joined ==
    /\ ctl # "idle" /\ rt = "none"
    /\ ReturnToCaller(IF ctl = "polling" THEN result ELSE "TIMEOUT")

MutantExpire ==
    /\ ctl = "polling" /\ rt # "none"
    /\ left = 0
    /\ ctl' = "reaping"
    /\ grace' = JoinLimit
    /\ UNCHANGED <<sharedVars, transportVars, bleVars, httpVars, left, reply,
                   sessions, rt, busy, ret, result, bleUp, ap, dhcp, wqJob>>

MutantExpireNever == FALSE /\ MutantExpire

\* The deadline has passed and the routine is not over: esp_prov_cancel_system.
Expire ==
    /\ ctl = "polling" /\ rt # "none"
    /\ left = 0
    /\ Cancel
    /\ ctl' = "reaping"
    /\ grace' = JoinLimit
    /\ UNCHANGED <<finished, done, out, cred, haveCred, apply, choice, abandoned,
                   sec, bleVars, httpVars, left, reply, sessions, rt, busy, ret,
                   result, bleUp, ap, dhcp, wqJob>>

\* The bounded join of an expired session fails: the routine is left behind.
GiveUp ==
    /\ ctl = "reaping" /\ rt # "none"
    /\ grace = 0
    /\ ReturnToCaller("INTERNAL")

Controller == Joined \/ Expire \/ GiveUp

\* esp_prov_cancel and esp_prov_cancel_isr, called by the application whenever
\* it likes.
AppCancel ==
    /\ Cancel \/ CancelIsr
    /\ UNCHANGED <<finished, done, out, cred, haveCred, apply, choice, abandoned,
                   sec, bleVars, httpVars, sessionVars>>

-------------------------------------------------------------------------------
(* The routine thread: esp_prov_routine_run.                               *)

\* What every step of the routine before its end leaves alone.
RoutineFrame == UNCHANGED <<ctlVars, result, wqJob>>

Goto(from, to) == rt = from /\ rt' = to

\* The output is cleared and the shared state set up; a cancel that came since
\* the thread was created is cleared with it.
RtSetup ==
    /\ Goto("created", "choose")
    /\ out' = NoCredentials
    /\ SharedSetup
    /\ SharedReset
    /\ SecReset
    /\ opened' = FALSE
    /\ cookie' = FALSE
    /\ listener' = "closed"
    /\ ret' = "INTERNAL"
    /\ bleUp' = FALSE
    /\ UNCHANGED <<choice, abandoned, pending, gatt, adv, conn, stray, hadLink,
                   readFinish, advTimer, idleLeft, http, req, fresh, dns, busy, ap,
                   dhcp>>
    /\ RoutineFrame

RtChoose ==
    /\ Goto("choose", "settle")
    /\ choice' = "NONE"
    /\ abandoned' = FALSE
    /\ busy' = SettleTime
    /\ UNCHANGED <<sharedVars, sec, listener, pending, bleVars, httpVars, ret, bleUp,
                   ap, dhcp>>
    /\ RoutineFrame

MutantRtSettled ==
    /\ \/ Goto("settle", "dhcp") /\ "SOFTAP" \in Built
       \/ Goto("settle", "ble") /\ "SOFTAP" \notin Built
    /\ UNCHANGED <<sharedVars, transportVars, bleVars, httpVars, busy, ret, bleUp,
                   ap, dhcp>>
    /\ RoutineFrame

\* After the settling time; the SoftAP interface may be missing.
RtSettled ==
    /\ \/ Goto("settle", "dhcp") /\ "SOFTAP" \in Built
       \/ Goto("settle", "reset") /\ "SOFTAP" \in Built /\ "sap" \in Faults
       \/ Goto("settle", "ble") /\ "SOFTAP" \notin Built
    /\ busy = 0
    /\ UNCHANGED <<sharedVars, transportVars, bleVars, httpVars, busy, ret, bleUp,
                   ap, dhcp>>
    /\ RoutineFrame

\* enable_dhcp_and_ip.  The DHCP server refuses to start twice.
RtDhcp ==
    /\ \/ Goto("dhcp", "ap") /\ ~dhcp /\ dhcp' = TRUE
       \/ Goto("dhcp", "reset") /\ (dhcp \/ "dhcp" \in Faults) /\ UNCHANGED dhcp
    /\ UNCHANGED <<sharedVars, transportVars, bleVars, httpVars, busy, ret, bleUp,
                   ap>>
    /\ RoutineFrame

\* wifi_ap_start.  When it fails the DHCP server stays.
RtAp ==
    /\ \/ Goto("ap", "prescan") /\ ap' = TRUE /\ busy' = PrescanLimit
       \/ Goto("ap", "reset") /\ "ap" \in Faults /\ UNCHANGED <<ap, busy>>
    /\ UNCHANGED <<sharedVars, transportVars, bleVars, httpVars, ret, bleUp, dhcp>>
    /\ RoutineFrame

\* esp_prov_shared_prescan_after_ap returns; it does not look at the stop flag.
RtPrescan ==
    /\ Goto("prescan", "listen")
    /\ busy' = 0
    /\ UNCHANGED <<sharedVars, transportVars, bleVars, httpVars, ret, bleUp, ap,
                   dhcp>>
    /\ RoutineFrame

\* socket, bind, listen
RtListen ==
    /\ \/ Goto("listen", "http") /\ listener' = "open"
       \/ Goto("listen", "cleanup") /\ "socket" \in Faults /\ UNCHANGED listener
    /\ UNCHANGED <<sharedVars, choice, abandoned, sec, pending, bleVars, httpVars,
                   busy, ret, bleUp, ap, dhcp>>
    /\ RoutineFrame

RtStartHttp ==
    /\ Goto("http", "dns")
    /\ http' = "accept"
    /\ UNCHANGED <<sharedVars, transportVars, bleVars, req, fresh, cookie, dns, busy,
                   ret, bleUp, ap, dhcp>>
    /\ RoutineFrame

RtStartDns ==
    /\ Goto("dns", "ble")
    /\ dns' = TRUE
    /\ UNCHANGED <<sharedVars, transportVars, bleVars, http, req, fresh, cookie, busy,
                   ret, bleUp, ap, dhcp>>
    /\ RoutineFrame

\* BLE comes up whatever the HTTP worker has done meanwhile.
RtStartBle ==
    /\ Goto("ble", "wait")
    /\ \/ /\ "BLE" \in Built
          /\ \E up \in BOOLEAN : BleStart(up) /\ bleUp' = up
       \/ /\ "BLE" \notin Built
          /\ UNCHANGED <<bleVars, pending, bleUp>>
    /\ UNCHANGED <<sharedVars, choice, abandoned, sec, listener, httpVars, busy, ret,
                   ap, dhcp>>
    /\ RoutineFrame

\* The wait for the end of the session: k_sem_take, then the stop flag, every
\* 200 ms.  After either the stop flag is up: the workers leave.
Leave(r) ==
    /\ Goto("wait", "join")
    /\ stop' = TRUE
    /\ ret' = r
    /\ UNCHANGED <<finished, out, cred, haveCred, apply, transportVars, bleVars,
                   httpVars, busy, bleUp, ap, dhcp>>
    /\ RoutineFrame

RtDone == done /\ done' = FALSE /\ Leave("OK")

MutantRtStopped == stop /\ finished /\ UNCHANGED done /\ Leave("CANCELLED")

\* done may have come up since the semaphore was last tried.
RtStopped == stop /\ UNCHANGED done /\ Leave("CANCELLED")

MutantRtJoin ==
    /\ Goto("join", "stop")
    /\ busy' = TeardownLimit
    /\ UNCHANGED <<sharedVars, transportVars, bleVars, httpVars, ret, bleUp, ap,
                   dhcp>>
    /\ RoutineFrame

\* Both workers are joined.  Everything they wait for ends within half a second
\* of an abort (poll and socket timeouts), so the 30 s and 5 s bounds of these
\* joins are not reached.
RtJoin ==
    /\ Goto("join", "stop")
    /\ http = "down" /\ ~dns
    /\ busy' = TeardownLimit
    /\ UNCHANGED <<sharedVars, transportVars, bleVars, httpVars, ret, bleUp, ap,
                   dhcp>>
    /\ RoutineFrame

MutantRadiosOff == listener' = "closed" /\ ap' = FALSE /\ UNCHANGED dhcp

RadiosOff == listener' = "closed" /\ ap' = FALSE /\ dhcp' = FALSE

\* BLE is stopped only if this session brought it up; then the listeners, the
\* DHCP server and the access point go.
RtStop ==
    /\ Goto("stop", "reset")
    /\ RadiosOff
    /\ \/ bleUp /\ BleStop(pending)
       \/ ~bleUp /\ UNCHANGED <<bleVars, pending>>
    /\ UNCHANGED <<sharedVars, choice, abandoned, sec, httpVars, busy, ret, bleUp>>
    /\ RoutineFrame

\* cleanup_sock and cleanup_ap
RtCleanup ==
    /\ Goto("cleanup", "reset")
    /\ RadiosOff
    /\ UNCHANGED <<sharedVars, choice, abandoned, sec, pending, bleVars, httpVars,
                   busy, ret, bleUp>>
    /\ RoutineFrame

\* The end of every path: secrets and credentials are wiped, the thread is over.
RtReset ==
    /\ Goto("reset", "none")
    /\ SecReset
    /\ opened' = FALSE
    /\ cookie' = FALSE
    /\ SharedReset
    /\ result' = ret
    /\ busy' = 0
    /\ UNCHANGED <<stop, done, out, choice, abandoned, listener, pending, gatt, adv,
                   conn, stray, hadLink, readFinish, advTimer, idleLeft, http, req,
                   fresh, dns, ret, bleUp, ap, dhcp, wqJob, ctlVars>>

Routine ==
    \/ RtSetup \/ RtChoose \/ RtSettled \/ RtDhcp \/ RtAp \/ RtPrescan \/ RtListen
    \/ RtStartHttp \/ RtStartDns \/ RtStartBle \/ RtDone \/ RtStopped \/ RtJoin
    \/ RtStop \/ RtCleanup \/ RtReset

-------------------------------------------------------------------------------
(* The system workqueue: one item at a time.                               *)

\* softap_shutdown_work_fn: sockets, then the joins of both workers, which end
\* before their bounds as those of RtJoin do.
SysSoftapShutdown ==
    /\ "softap_shutdown" \in pending
    /\ pending' = pending \ {"softap_shutdown"}
    /\ ShutSockets
    /\ wqJob' = "joining"
    /\ UNCHANGED <<sharedVars, choice, abandoned, sec, bleVars, httpVars, ctlVars, rt,
                   busy, ret, result, bleUp, ap, dhcp>>

SysJoined ==
    /\ wqJob = "joining"
    /\ http = "down" /\ ~dns
    /\ wqJob' = "none"
    /\ UNCHANGED <<sharedVars, transportVars, bleVars, httpVars, ctlVars, rt, busy,
                   ret, result, bleUp, ap, dhcp>>

MutantSysBleStop ==
    /\ "ble_stop_only" \in pending
    /\ ShutSockets
    /\ BleStop(pending \ {"ble_stop_only"})
    /\ UNCHANGED <<sharedVars, choice, abandoned, sec, httpVars, sessionVars>>

\* ble_stop_only_work_fn
SysBleStop ==
    /\ "ble_stop_only" \in pending
    /\ BleStop(pending \ {"ble_stop_only"})
    /\ UNCHANGED <<sharedVars, choice, abandoned, sec, listener, httpVars,
                   sessionVars>>

\* prov_abort_net_work_fn
SysAbortNet ==
    /\ "abort_net" \in pending
    /\ ShutSockets
    /\ BleStop(pending \ {"abort_net"})
    /\ UNCHANGED <<sharedVars, choice, abandoned, sec, httpVars, sessionVars>>

SysWork ==
    \/ SysJoined
    \/ wqJob = "none" /\ SysSoftapShutdown
    \/ wqJob = "none" /\ SysBleStop
    \/ wqJob = "none" /\ SysAbortNet
    \/ wqJob = "none" /\ BleWork /\ UNCHANGED <<httpVars, sessionVars>>

-------------------------------------------------------------------------------
(* Time.                                                                   *)

CallerQuiet ==
    \/ ctl = "idle"
    \/ ctl = "polling" /\ rt # "none" /\ left > 0
    \/ ctl = "reaping" /\ rt # "none" /\ grace > 0

RoutineQuiet ==
    \/ rt = "none"
    \/ rt \in {"settle", "prescan", "stop"} /\ busy > 0
    \/ rt = "wait" /\ ~done /\ ~stop

WorkersQuiet ==
    /\ http # "sent"
    /\ Abort => http = "down" /\ ~dns

QueueQuiet ==
    /\ pending = {} /\ wqJob = "none"
    /\ ~advTimer /\ idleLeft # 0

Quiet == CallerQuiet /\ RoutineQuiet /\ WorkersQuiet /\ QueueQuiet

Less(t) == IF t > 0 THEN t - 1 ELSE 0

\* A tick.  Links, requests and cancels come before or after it as they like.
Tick ==
    /\ Quiet
    /\ left' = Less(left)
    /\ grace' = Less(grace)
    /\ busy' = Less(busy)
    /\ idleLeft' = IF idleLeft = IdleOff THEN IdleOff ELSE idleLeft - 1
    /\ UNCHANGED <<sharedVars, transportVars, gatt, adv, conn, stray, opened,
                   hadLink, readFinish, advTimer, httpVars, ctl, reply, sessions, rt, ret, result, bleUp,
                   ap, dhcp, wqJob>>

-------------------------------------------------------------------------------
BleTimersFire == BleTimers /\ UNCHANGED <<httpVars, sessionVars>>
HttpRuns == HttpThread /\ UNCHANGED <<bleVars, sessionVars>>
DnsRuns == DnsExit /\ UNCHANGED <<bleVars, sessionVars>>

\* What the device does by itself.
Device ==
    \/ Controller
    \/ Routine
    \/ SysWork
    \/ BleTimersFire
    \/ HttpRuns
    \/ DnsRuns

\* What the application and the phones do.
Outside ==
    \/ Run
    \/ AppCancel
    \/ BlePhone /\ UNCHANGED <<httpVars, sessionVars>>
    \/ HttpPhone /\ UNCHANGED <<bleVars, sessionVars>>

Next == Device \/ Outside \/ Tick

\* Every thread of the device gets the processor, and time goes on whenever it
\* may.  Nothing is assumed of the application or of the phones.
Fairness ==
    /\ WF_vars(Controller)
    /\ WF_vars(Routine)
    /\ WF_vars(SysWork)
    /\ WF_vars(BleTimersFire)
    /\ WF_vars(HttpRuns)
    /\ WF_vars(DnsRuns)
    /\ SF_vars(Tick)

Spec == Init /\ [][Next]_vars
FairSpec == Spec /\ Fairness

-------------------------------------------------------------------------------
(* Properties.                                                             *)

\* A transport has a security session over which credentials can be sent only
\* if it is the one the session is committed to, though the HTTP handler does
\* not ask who won (esp_prov_try_select_softap returns nothing).
OneTransport == \A t \in Transports : sec[t] = "done" => choice = t

\* Why OneTransport and ListenerOutlivesWorker hold: the inductive invariant of
\* the arbitration.  A transport has a handshake only after a choice and BLE only
\* when it won; when BLE has won, the HTTP thread has at most one more request
\* in it, which starts from a closed security session and cannot finish the
\* handshake.  The rest says where in the routine the workers, the service and
\* the listeners live.
WorkersInside ==
    /\ http # "down" => rt \in {"dns", "ble", "wait", "join"}
    /\ rt \in {"dhcp", "ap", "prescan", "listen", "http", "dns", "cleanup"} =>
           "SOFTAP" \in Built
    /\ http # "down" => "SOFTAP" \in Built

ServiceInside == gatt => bleUp /\ rt \in {"wait", "join", "stop"}

ListenerInside == rt = "http" \/ http # "down" => listener # "closed"

HandshakeAfterChoice ==
    /\ choice # "BLE" \/ rt = "choose" => sec["BLE"] = "cmd0"
    /\ choice = "NONE" \/ rt = "choose" => sec["SOFTAP"] = "cmd0"
    /\ http = "req" /\ req \in Provisioning => choice # "NONE"

LastRequest ==
    choice = "BLE" =>
        /\ "SOFTAP" \in Built => abandoned
        /\ sec["SOFTAP"] # "done"
        /\ http \in {"head", "req"} => sec["SOFTAP"] = "cmd0"

ArbitrationInv ==
    /\ WorkersInside
    /\ ServiceInside
    /\ ListenerInside
    /\ HandshakeAfterChoice
    /\ LastRequest

\* When esp_prov_run has returned anything but INTERNAL, nothing of the session
\* is left: no thread, no socket, no access point, no registered service.  (It
\* holds for SessionLimit > SettleTime.  With a shorter limit a failure to enable
\* the access point, which leaves the DHCP server, is reported as TIMEOUT.)
CleanReturn ==
    ctl = "idle" /\ reply \in {"OK", "CANCELLED", "TIMEOUT"} =>
        /\ rt = "none" /\ http = "down" /\ ~dns
        /\ listener = "closed" /\ ~ap /\ ~dhcp
        /\ ~gatt

\* ESP_PROV_OK comes with the credentials of a network that a phone sent: not
\* with credentials that were wiped, nor with halves of two networks.
OkIsANetwork == ctl = "idle" /\ reply = "OK" => out \in Networks

Parts == {"routine", "http", "dns", "listener", "ap", "dhcp", "gatt"}

InUse == {p \in Parts :
    \/ p = "routine" /\ rt # "none"
    \/ p = "http" /\ http # "down"
    \/ p = "dns" /\ dns
    \/ p = "listener" /\ listener # "closed"
    \/ p = "ap" /\ ap
    \/ p = "dhcp" /\ dhcp
    \/ p = "gatt" /\ gatt}

Contract == INSTANCE ProvContract WITH
    phase <- IF ctl = "idle" THEN "idle" ELSE "running",
    creds <- out,
    inUse <- InUse

\* esp_prov_run keeps its contract: it returns with everything released and
\* touches neither the device nor the caller's credentials afterwards.
KeepsContract == Contract!Spec

\* The sockets of a session are shut only because that session ends or because
\* BLE has won: no work item left over from an earlier cancel shuts them.
NoStaleTeardown == listener = "shut" => stop \/ abandoned

\* While a session waits for a phone, its SoftAP side can be reached unless BLE
\* has won: the access point, the listener and the HTTP thread are all there.
SoftapReachable ==
    (rt = "wait" /\ "SOFTAP" \in Built /\ ~Abort) =>
        ap /\ listener = "open" /\ http # "down"

\* The HTTP thread never polls a listener that has been closed under it.
ListenerOutlivesWorker == http # "down" => listener # "closed"

\* The choice of a transport is final: only the next session withdraws it.
ChoiceIsFinal == [][choice # "NONE" => choice' = choice \/ rt = "choose"]_vars

\* esp_prov_run does not return while its routine thread runs.
ReturnMeansJoined == ctl = "idle" => rt = "none"

\* Once the stop flag is up in a session that has been set up, its routine ends.
StopEndsRoutine == (stop /\ rt \notin {"none", "created"}) ~> rt = "none"

\* A call of esp_prov_run returns.
RunReturns == (ctl # "idle") ~> (ctl = "idle")
===============================================================================
