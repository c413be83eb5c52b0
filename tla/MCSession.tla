------------------------------- MODULE MCSession ------------------------------
(***************************************************************************)
(* Small instances of ProvSession for TLC.                                 *)
(***************************************************************************)
EXTENDS ProvSession

CONSTANTS s1, s2, p1  \* model values: two network names and a passphrase

\* One phone's network, and one with a passphrase that does not fit.
OneNetwork == {[ssid |-> s1, psk |-> p1]}
WithLongPassphrase == OneNetwork \cup {[ssid |-> s2, psk |-> TooLong]}

BothTransports == {"BLE", "SOFTAP"}
BleOnly == {"BLE"}

NoFaults == {}
AllFaults == {"sap", "dhcp", "ap", "socket", "poll", "dns", "bt", "adv", "rng"}
===============================================================================
