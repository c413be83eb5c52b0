---------------------------- MODULE ProvTransport -----------------------------
(***************************************************************************)
(* The transport arbitration and the teardown calls of esp_prov_run.c, and *)
(* the state of the two security sessions of esp_prov_sec1.c.              *)
(*                                                                         *)
(* One phone wins a session: the first protocomm request, over BLE or over *)
(* the SoftAP's HTTP server, commits the device to that transport and      *)
(* schedules the end of the other one on Zephyr's system workqueue.        *)
(*                                                                         *)
(* pending is the set of work items submitted and not started.  The queue  *)
(* is FIFO and holds an item at most once; the set forgets the order, so   *)
(* it allows every order the queue does.                                   *)
(***************************************************************************)
EXTENDS ProvShared

CONSTANTS
    Built,  \* the transports built in: CONFIG_ESP_PROV_USE_BLE / _SOFTAP
    Faults  \* the external calls that may fail in this instance

Transports == {"BLE", "SOFTAP"}

ASSUME BuiltAssumption == Built \subseteq Transports /\ Built # {}

VARIABLES
    choice,     \* s_transport_choice
    abandoned,  \* s_softap_abandoned
    sec,        \* sec[t]: the handshake state of transport t's sec1 context
    listener,   \* the TCP listeners behind s_listen_fd: closed, open, shut
    pending     \* work items waiting in the system workqueue

transportVars == <<choice, abandoned, sec, listener, pending>>

Works == {"softap_shutdown", "ble_stop_only", "abort_net", "adv_restart",
          "idle_after_disc"}

\* ST_CMD0: waiting for the key exchange, ST_CMD1: for the proof, ST_DONE: ready
SecStates == {"cmd0", "cmd1", "done"}

TransportTypeOK ==
    /\ choice \in Transports \cup {"NONE"}
    /\ abandoned \in BOOLEAN
    /\ sec \in [Transports -> SecStates]
    /\ listener \in {"closed", "open", "shut"}
    /\ pending \subseteq Works

TransportInit ==
    /\ choice = "NONE"
    /\ abandoned = FALSE
    /\ sec = [t \in Transports |-> "cmd0"]
    /\ listener = "closed"
    /\ pending = {}

-------------------------------------------------------------------------------
\* prov_http_dns_abort: what the HTTP and DNS loops look at.
Abort == stop \/ finished \/ abandoned

MutantSelectBle ==
    /\ choice' = "BLE"
    /\ pending' = IF choice = "NONE" /\ "SOFTAP" \in Built
                     THEN pending \cup {"softap_shutdown"} ELSE pending
    /\ UNCHANGED abandoned

\* esp_prov_try_select_ble when it returns true.  It runs on the Bluetooth RX
\* thread, which is cooperative: no HTTP step comes between the choice and the
\* abandoned flag.
SelectBle ==
    \/ /\ choice = "NONE"
       /\ choice' = "BLE"
       /\ abandoned' = ("SOFTAP" \in Built)
       /\ pending' = IF "SOFTAP" \in Built
                        THEN pending \cup {"softap_shutdown"} ELSE pending
    \/ /\ choice = "BLE"
       /\ UNCHANGED <<choice, abandoned, pending>>

MutantSelectSoftap ==
    /\ choice' = "SOFTAP"
    /\ pending' = pending \cup {"ble_stop_only"}

\* esp_prov_try_select_softap.  It returns nothing: the HTTP handler goes on in
\* the same way when BLE has already won.
SelectSoftap ==
    \/ /\ choice = "NONE"
       /\ choice' = "SOFTAP"
       /\ pending' = IF "BLE" \in Built
                        THEN pending \cup {"ble_stop_only"} ELSE pending
    \/ /\ choice # "NONE"
       /\ UNCHANGED <<choice, pending>>

\* prov_shutdown_prov_sockets, for the listeners: shut down, not closed.
ShutSockets ==
    listener' = IF listener = "open" THEN "shut" ELSE listener

\* prov_cancel_apply, from a thread.  After this nothing connects any more.
\* others is what the calling work item leaves in the queue.
CancelFrom(others) ==
    /\ stop' = TRUE
    /\ ShutSockets
    /\ pending' = others \cup {"abort_net"}

\* esp_prov_cancel and esp_prov_cancel_system
Cancel == CancelFrom(pending)

\* esp_prov_cancel_isr: the sockets are left to the work item.
CancelIsr ==
    /\ stop' = TRUE
    /\ pending' = pending \cup {"abort_net"}
    /\ UNCHANGED listener

-------------------------------------------------------------------------------
\* esp_prov_sec1_process_session: the states a context in state s may be in
\* after message m.  A key exchange always restarts the handshake, and may
\* fail; a proof counts only after a key exchange, and may be wrong.
SecAfter(s, m) ==
    CASE m = "cmd0" -> {"cmd0", "cmd1"}
      [] m = "cmd1" /\ s = "cmd1" -> {"cmd1", "done"}
      [] OTHER -> {s}

SecReset == sec' = [t \in Transports |-> "cmd0"]
===============================================================================
