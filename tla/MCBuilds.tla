-------------------------------- MODULE MCBuilds -------------------------------
(***************************************************************************)
(* The two builds with a single transport, side by side in one instance:   *)
(* ProvSession with CONFIG_ESP_PROV_USE_BLE alone, and with                *)
(* CONFIG_ESP_PROV_USE_SOFTAP alone (which has no idle limit).  The        *)
(* variable build says which of them a behaviour is of.                    *)
(***************************************************************************)
CONSTANTS Networks, Blank, TooLong, Faults, SessionLimit, JoinLimit, SettleTime,
          PrescanLimit, TeardownLimit, MaxSessions

VARIABLES build,
          stop, finished, done, out, cred, haveCred, apply,
          choice, abandoned, sec, listener, pending,
          gatt, adv, conn, stray, opened, hadLink, readFinish, advTimer, idleLeft,
          http, req, fresh, cookie, dns,
          ctl, left, grace, reply, sessions, rt, busy, ret, result, bleUp, ap, dhcp,
          wqJob

Ble == INSTANCE ProvSession WITH Built <- {"BLE"}, IdleLimit <- 1
Softap == INSTANCE ProvSession WITH Built <- {"SOFTAP"}, IdleLimit <- 0

Init ==
    \/ build = "BLE" /\ Ble!Init
    \/ build = "SOFTAP" /\ Softap!Init

Next ==
    /\ UNCHANGED build
    /\ \/ build = "BLE" /\ Ble!Next
       \/ build = "SOFTAP" /\ Softap!Next

Spec == Init /\ [][Next]_<<build, Ble!vars>>

\* Networks for the instance: one with a passphrase and an open one.
CONSTANTS s1, s2, p1
WithOpenNetwork == {[ssid |-> s1, psk |-> p1], [ssid |-> s2, psk |-> Blank]}
AllFaults == {"sap", "dhcp", "ap", "socket", "poll", "dns", "bt", "adv", "rng"}

\* A build with one transport keeps the contract of esp_prov_run as the full
\* one does (esp_prov_routine_run without its SOFTAP or its BLE parts).
KeepsContract == Ble!KeepsContract
===============================================================================
