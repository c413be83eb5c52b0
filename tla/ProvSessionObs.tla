---------------------------- MODULE ProvSessionObs ----------------------------
(***************************************************************************)
(* ProvSession with a history variable, for what the documentation         *)
(* promises about a whole session: whether the application cancelled it.   *)
(* The history only watches: every behaviour of ProvSession is kept.       *)
(***************************************************************************)
EXTENDS MCSession

VARIABLE asked  \* the application has cancelled this call of esp_prov_run

obsVars == <<vars, asked>>

ObsInit == Init /\ asked = FALSE

NewCall == Run /\ asked' = FALSE

Observe == ~Run /\ asked' = (asked \/ (ctl # "idle" /\ AppCancel))

ObsSpec == ObsInit /\ [][Next /\ (NewCall \/ Observe)]_obsVars

-------------------------------------------------------------------------------
(* What the documentation says and the code does not do: both properties   *)
(* below are violated.                                                     *)

\* A cancel that comes during a session is not forgotten (the cancel calls set
\* stop_flag, which esp_prov_shared_setup clears).
CancelSticks == asked /\ ctl # "idle" => stop

\* When SoftAP has won and its work item has run, BLE does not advertise (the
\* start of BLE in esp_prov_routine_run against esp_prov_try_select_softap).
SoftapStopsBle ==
    choice = "SOFTAP" /\ rt = "wait" /\ "ble_stop_only" \notin pending => ~adv
===============================================================================
