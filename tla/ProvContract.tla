----------------------------- MODULE ProvContract ------------------------------
(***************************************************************************)
(* What esp_prov_run promises its caller, from esp_prov.h: it blocks, and  *)
(* while it does everything it uses and the caller's credentials may       *)
(* change; when it returns, ESP_PROV_OK comes with the credentials of one  *)
(* network, and unless it reports an internal error it has released all it *)
(* used and touches nothing until it is called again.                      *)
(***************************************************************************)
CONSTANTS
    Networks,  \* the credentials that may be provisioned
    Parts      \* what a session uses: threads, sockets, radios, services

VARIABLES
    phase,   \* idle or running
    reply,   \* what the last call returned
    creds,   \* the caller's credentials
    inUse    \* the parts in use

contractVars == <<phase, reply, creds, inUse>>

Init ==
    /\ phase = "idle"
    /\ reply = "none"
    /\ creds \notin Networks
    /\ inUse = {}

Call ==
    /\ phase = "idle"
    /\ phase' = "running"
    /\ reply' = "none"
    /\ UNCHANGED creds
    /\ inUse \subseteq inUse'

\* The session works, or after an internal error what it left behind does.
Work ==
    /\ phase = "running" \/ reply = "INTERNAL"
    /\ inUse' \subseteq Parts
    /\ UNCHANGED <<phase, reply>>

Return(r) ==
    /\ phase = "running"
    /\ r = "OK" => creds \in Networks
    /\ r # "INTERNAL" => inUse = {}
    /\ phase' = "idle"
    /\ reply' = r
    /\ UNCHANGED <<creds, inUse>>

Next == Call \/ Work \/ \E r \in {"OK", "CANCELLED", "TIMEOUT", "INTERNAL"} : Return(r)

Spec == Init /\ [][Next]_contractVars
===============================================================================
