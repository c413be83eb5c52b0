------------------------------ MODULE ProvShared ------------------------------
(***************************************************************************)
(* esp_prov_shared.c without the scan cache: the flags and the credential  *)
(* store that both transports, the routine thread and the cancel calls     *)
(* share.  The operators are pieces of actions: each constrains only the   *)
(* variables its C function writes, and the modules above compose them.    *)
(*                                                                         *)
(* Every function below either is one atomic operation or holds cred_mu /  *)
(* finish_mu around its writes, so each is one step.                       *)
(***************************************************************************)
EXTENDS Integers

CONSTANTS
    Networks,  \* what phones send: records with an ssid (a name of 1 to 32 bytes)
               \* and a psk
    Blank,     \* the empty string: no name, or the passphrase of an open network
    TooLong    \* a passphrase of more than 64 bytes

Ssids == {n.ssid : n \in Networks}
Psks == ({n.psk : n \in Networks} \ {TooLong}) \cup {Blank}

ASSUME SharedAssumption ==
    /\ \A n \in Networks : n = [ssid |-> n.ssid, psk |-> n.psk]
    /\ Blank \notin Ssids
    /\ TooLong # Blank

VARIABLES
    stop,      \* stop_flag
    finished,  \* finished_once
    done,      \* done_sem: its count is 0 or 1
    out,       \* what out_dest points to, the caller's credentials
    cred,      \* sh_ssid and sh_psk
    haveCred,  \* sh_have_cred
    apply      \* sh_apply

sharedVars == <<stop, finished, done, out, cred, haveCred, apply>>

Credentials == [ssid : Ssids \cup {Blank}, psk : Psks]
NoCredentials == [ssid |-> Blank, psk |-> Blank]

SharedTypeOK ==
    /\ stop \in BOOLEAN
    /\ finished \in BOOLEAN
    /\ done \in BOOLEAN
    /\ out \in Credentials
    /\ cred \in Credentials
    /\ haveCred \in BOOLEAN
    /\ apply \in BOOLEAN

SharedInit ==
    /\ stop = FALSE
    /\ finished = FALSE
    /\ done = FALSE
    /\ out = NoCredentials
    /\ cred = NoCredentials
    /\ haveCred = FALSE
    /\ apply = FALSE

-------------------------------------------------------------------------------
MutantSharedSetup ==
    /\ finished' = FALSE
    /\ stop' = FALSE
    /\ UNCHANGED done

\* A new session: the flags of the previous one are cleared, whoever set them.
SharedSetup ==
    /\ finished' = FALSE
    /\ stop' = FALSE
    /\ done' = FALSE

\* The stop flag survives the reset: it is still up when a session has ended.
SharedReset ==
    /\ finished' = FALSE
    /\ cred' = NoCredentials
    /\ haveCred' = FALSE
    /\ apply' = FALSE

\* Only the first call of a session copies the credentials and wakes the waiter.
SignalFinished ==
    \/ /\ finished
       /\ UNCHANGED <<finished, out, done>>
    \/ /\ ~finished
       /\ finished' = TRUE
       /\ out' = cred
       /\ done' = TRUE

MutantSetConfig(name, pass) ==
    /\ cred' = [ssid |-> name, psk |-> pass]
    /\ haveCred' = TRUE
    /\ UNCHANGED apply

\* CmdSetConfig.  The name is stored before the passphrase is looked at, so a
\* message that is refused for its passphrase has replaced half of the pair.
\* (A name of a wrong length is refused before anything is stored: no step.)
SetConfig(name, pass) ==
    /\ UNCHANGED apply
    /\ \/ /\ pass = TooLong
          /\ cred' = [cred EXCEPT !.ssid = name]
          /\ UNCHANGED haveCred
       \/ /\ pass # TooLong
          /\ cred' = [ssid |-> name, psk |-> pass]
          /\ haveCred' = TRUE

\* CmdApplyConfig
ApplyConfig ==
    /\ apply' = TRUE
    /\ UNCHANGED <<cred, haveCred>>

\* esp_prov_shared_dispatch_config on a message it can parse.
DispatchConfig(m) ==
    \/ m = "set" /\ \E n \in Networks : SetConfig(n.ssid, n.psk)
    \/ m = "apply" /\ ApplyConfig
    \/ m = "status" /\ UNCHANGED <<cred, haveCred, apply>>

\* What CmdGetStatus answers: TRUE is "connected", and the transport that sends
\* the answer must then signal that the session is over.
StatusConnected == apply /\ haveCred
===============================================================================
