------------------------------- MODULE ProvBle --------------------------------
(***************************************************************************)
(* esp_prov_ble.c: the GATT transport.  Its handlers run on the Bluetooth  *)
(* RX thread when the phone connects, writes, reads or goes away; its      *)
(* delayed work items run on the system workqueue; start and stop are      *)
(* called by the routine thread and by work items.                         *)
(*                                                                         *)
(* Time is counted in ticks (see ProvSession).  The 150 ms of the restart  *)
(* delay is shorter than a tick; the idle delay is IdleLimit ticks, 0 is   *)
(* off.                                                                    *)
(***************************************************************************)
EXTENDS ProvTransport

CONSTANT IdleLimit  \* CONFIG_ESP_PROV_BLE_IDLE_AFTER_DISCONNECT_SEC in ticks

ASSUME BleAssumption == IdleLimit \in Nat

VARIABLES
    gatt,        \* prov_gatt_registered
    adv,         \* the controller advertises (implies ble_adv_on)
    conn,        \* ble_conn # NULL
    stray,       \* some link is up that ble_conn does not name
    opened,      \* sid of the BLE context is ble_sess_id, of the link conn
    hadLink,     \* ble_had_central_link
    readFinish,  \* ble_cfg_finish_signal_after_read
    advTimer,    \* ble_adv_restart_work is armed
    idleLeft     \* ticks until ble_idle_after_disc_work is due, or IdleOff

bleVars ==
    <<gatt, adv, conn, stray, opened, hadLink, readFinish, advTimer, idleLeft>>

IdleOff == IdleLimit + 1

BleTypeOK ==
    /\ gatt \in BOOLEAN
    /\ adv \in BOOLEAN
    /\ conn \in BOOLEAN
    /\ stray \in BOOLEAN
    /\ opened \in BOOLEAN
    /\ hadLink \in BOOLEAN
    /\ readFinish \in BOOLEAN
    /\ advTimer \in BOOLEAN
    /\ idleLeft \in 0..IdleOff

BleInit ==
    /\ gatt = FALSE
    /\ adv = FALSE
    /\ conn = FALSE
    /\ stray = FALSE
    /\ opened = FALSE
    /\ hadLink = FALSE
    /\ readFinish = FALSE
    /\ advTimer = FALSE
    /\ idleLeft = IdleOff

-------------------------------------------------------------------------------
(* The links: ble_connected, ble_disconnected.                             *)

\* A central connects; connectable advertising ends.  The link is taken only
\* while the service is registered, nobody else is connected and there is
\* entropy; else it is stray until its disconnect is complete (which is asked
\* for in the last two cases only).
BleConnect ==
    /\ adv
    /\ adv' = FALSE
    /\ \/ /\ ~gatt \/ conn
          /\ stray' = TRUE
          /\ UNCHANGED <<conn, opened, hadLink, readFinish, idleLeft, sec, pending>>
       \/ /\ gatt /\ ~conn
          /\ conn' = TRUE
          /\ opened' = TRUE
          /\ hadLink' = TRUE
          /\ readFinish' = FALSE
          /\ idleLeft' = IdleOff
          /\ pending' = pending \ {"idle_after_disc"}
          /\ sec' = [sec EXCEPT !["BLE"] = "cmd0"]
          /\ UNCHANGED stray
       \/ /\ gatt /\ ~conn
          /\ "rng" \in Faults
          /\ stray' = TRUE
          /\ hadLink' = FALSE
          /\ idleLeft' = IdleOff
          /\ pending' = pending \ {"idle_after_disc"}
          /\ UNCHANGED <<conn, opened, readFinish, sec>>
    /\ UNCHANGED <<sharedVars, choice, abandoned, listener, gatt, advTimer>>

\* The link goes down: the phone left, or the disconnect the device asked for
\* in BleStop or in a refused write is complete.  The callback may come much
\* later than the request, in the next session even: then the context was reset
\* meanwhile, its sid is gone and it is not closed again.
BleDisconnect ==
    LET live == ~finished /\ ~stop IN
    /\ conn
    /\ conn' = FALSE
    /\ opened' = FALSE
    /\ sec' = IF opened THEN [sec EXCEPT !["BLE"] = "cmd0"] ELSE sec
    /\ \/ /\ choice = "SOFTAP"
          /\ UNCHANGED <<advTimer, idleLeft, pending>>
       \/ /\ choice = "BLE"
          /\ idleLeft' = IF IdleLimit > 0 /\ live THEN IdleLimit ELSE idleLeft
          /\ pending' = IF IdleLimit > 0 /\ live
                           THEN pending \ {"idle_after_disc"} ELSE pending
          /\ UNCHANGED advTimer
       \/ /\ choice = "NONE"
          /\ advTimer' = (advTimer \/ live)
          /\ idleLeft' = IF IdleLimit = 0 THEN idleLeft
                         ELSE IF hadLink /\ live THEN IdleLimit ELSE IdleOff
          /\ pending' = IF IdleLimit > 0
                           THEN pending \ {"idle_after_disc"} ELSE pending
    /\ UNCHANGED <<sharedVars, choice, abandoned, listener, gatt, adv, stray,
                   hadLink, readFinish>>

\* The last stray link goes down: ble_disconnected has nothing to do.
BleStrayLeaves ==
    /\ stray
    /\ stray' = FALSE
    /\ UNCHANGED <<sharedVars, transportVars, gatt, adv, conn, opened, hadLink,
                   readFinish, advTimer, idleLeft>>

-------------------------------------------------------------------------------
(* The endpoints: prov_write_ep and prov_read_ep.  They serve any link     *)
(* while the service is registered, also one that ble_conn does not name.  *)
(* A write is refused, and changes nothing, once SoftAP has won; else it   *)
(* selects BLE first.                                                      *)

Linked == gatt /\ (conn \/ stray)

BleWriting == Linked /\ choice # "SOFTAP"

\* prov-session
BleWriteSession(m) ==
    /\ BleWriting
    /\ SelectBle
    /\ \E s \in SecAfter(sec["BLE"], m) : sec' = [sec EXCEPT !["BLE"] = s]
    /\ UNCHANGED <<sharedVars, listener, bleVars>>

\* prov-scan, and any request that is refused: it has selected BLE all the same.
BleWriteOther ==
    /\ BleWriting
    /\ SelectBle
    /\ UNCHANGED <<sharedVars, sec, listener, bleVars>>

\* prov-config.  When the answer is "connected" and its notification is not
\* sent (the phone has not subscribed) the end waits for the phone to read it.
BleWriteConfig(m) ==
    /\ BleWriting
    /\ sec["BLE"] = "done"
    /\ SelectBle
    /\ DispatchConfig(m)
    /\ \/ /\ m = "status" /\ StatusConnected
          /\ SignalFinished
          /\ UNCHANGED readFinish
       \/ /\ m = "status" /\ StatusConnected
          /\ readFinish' = TRUE
          /\ UNCHANGED <<finished, out, done>>
       \/ /\ ~(m = "status" /\ StatusConnected)
          /\ UNCHANGED <<finished, out, done, readFinish>>
    /\ UNCHANGED <<stop, sec, listener, gatt, adv, conn, stray, opened, hadLink,
                   advTimer, idleLeft>>

\* The phone reads prov-config to its end.
BleRead ==
    /\ Linked
    /\ readFinish
    /\ readFinish' = FALSE
    /\ SignalFinished
    /\ UNCHANGED <<stop, cred, haveCred, apply, transportVars, gatt, adv, conn,
                   stray, opened, hadLink, advTimer, idleLeft>>

BlePhone ==
    \/ BleConnect
    \/ BleDisconnect
    \/ BleStrayLeaves
    \/ \E m \in {"cmd0", "cmd1"} : BleWriteSession(m)
    \/ BleWriteOther
    \/ \E m \in {"set", "apply", "status"} : BleWriteConfig(m)
    \/ BleRead

-------------------------------------------------------------------------------
(* Delayed work.                                                           *)

AdvTimerFires ==
    /\ advTimer
    /\ advTimer' = FALSE
    /\ pending' = pending \cup {"adv_restart"}
    /\ UNCHANGED <<sharedVars, choice, abandoned, sec, listener, gatt, adv, conn,
                   stray, opened, hadLink, readFinish, idleLeft>>

IdleTimerFires ==
    /\ idleLeft = 0
    /\ idleLeft' = IdleOff
    /\ pending' = pending \cup {"idle_after_disc"}
    /\ UNCHANGED <<sharedVars, choice, abandoned, sec, listener, gatt, adv, conn,
                   stray, opened, hadLink, readFinish, advTimer>>

BleTimers == AdvTimerFires \/ IdleTimerFires

\* ble_adv_restart_work_fn.  It does not look at the registration.
AdvRestartWork ==
    /\ "adv_restart" \in pending
    /\ pending' = pending \ {"adv_restart"}
    /\ \/ /\ choice # "SOFTAP" /\ ~finished /\ ~stop /\ ~conn
          /\ adv' = TRUE
       \/ /\ choice = "SOFTAP" \/ finished \/ stop \/ conn \/ "adv" \in Faults
          /\ UNCHANGED adv
    /\ UNCHANGED <<sharedVars, choice, abandoned, sec, listener, gatt, conn,
                   stray, opened, hadLink, readFinish, advTimer, idleLeft>>

\* ble_idle_after_disc_work_fn when it ends the session, and when it does not.
IdleCancels ==
    /\ "idle_after_disc" \in pending
    /\ choice # "SOFTAP" /\ ~finished /\ ~stop /\ ~conn /\ hadLink
    /\ CancelFrom(pending \ {"idle_after_disc"})
    /\ UNCHANGED <<finished, done, out, cred, haveCred, apply, choice, abandoned,
                   sec, bleVars>>

IdleIgnored ==
    /\ "idle_after_disc" \in pending
    /\ choice = "SOFTAP" \/ finished \/ stop \/ conn \/ ~hadLink
    /\ pending' = pending \ {"idle_after_disc"}
    /\ UNCHANGED <<sharedVars, choice, abandoned, sec, listener, bleVars>>

BleWork == AdvRestartWork \/ IdleCancels \/ IdleIgnored

-------------------------------------------------------------------------------
(* Start and stop, called from outside: pieces of actions.                 *)

\* esp_prov_bt_enable and esp_prov_ble_start.  up is what the caller learns.
\* The host refuses to start advertising when it already advertises, and then
\* the service is unregistered again.
BleStart(up) ==
    \/ /\ up = FALSE
       /\ "bt" \in Faults
       /\ UNCHANGED <<bleVars, pending>>
    \/ /\ up => ~adv
       /\ ~up => adv \/ "adv" \in Faults
       /\ adv' = (adv \/ up)
       /\ gatt' = up
       /\ readFinish' = FALSE
       /\ hadLink' = FALSE
       /\ idleLeft' = IdleOff
       /\ pending' = pending \ {"idle_after_disc"}
       /\ UNCHANGED <<conn, stray, opened, advTimer>>

MutantBleStop(works) ==
    /\ advTimer' = FALSE
    /\ idleLeft' = IdleOff
    /\ pending' = works \ {"adv_restart", "idle_after_disc"}
    /\ adv' = FALSE
    /\ UNCHANGED <<gatt, conn, stray, opened, hadLink, readFinish>>

\* esp_prov_ble_stop with the given work items queued.  The link ble_conn names
\* is asked to close; conn falls only when BleDisconnect happens.
BleStop(works) ==
    /\ advTimer' = FALSE
    /\ idleLeft' = IdleOff
    /\ pending' = works \ {"adv_restart", "idle_after_disc"}
    /\ adv' = FALSE
    /\ gatt' = FALSE
    /\ UNCHANGED <<conn, stray, opened, hadLink, readFinish>>
===============================================================================
