--------------------------- MODULE ProvSession_proofs --------------------------
(***************************************************************************)
(* Theorems about ProvSession, for every number and kind of networks,      *)
(* every choice of transports built in, every set of faults, and all the   *)
(* time limits.  First the type invariant, then the invariant of the       *)
(* transport arbitration, each with one lemma per thread of the device and *)
(* one step per action; the theorems about the properties follow from it.  *)
(***************************************************************************)
EXTENDS ProvSession, TLAPS

-------------------------------------------------------------------------------
(* Types: a part of the state that a step leaves alone keeps its type.     *)

LEMMA SharedFrame == ASSUME SharedTypeOK, UNCHANGED sharedVars PROVE SharedTypeOK'
BY DEF SharedTypeOK, sharedVars

LEMMA TransportFrame ==
    ASSUME TransportTypeOK, UNCHANGED transportVars PROVE TransportTypeOK'
BY DEF TransportTypeOK, transportVars

LEMMA BleFrame == ASSUME BleTypeOK, UNCHANGED bleVars PROVE BleTypeOK'
BY DEF BleTypeOK, bleVars

LEMMA HttpFrame == ASSUME HttpTypeOK, UNCHANGED httpVars PROVE HttpTypeOK'
BY DEF HttpTypeOK, httpVars

LEMMA SessionFrame == ASSUME SessionTypeOK, UNCHANGED sessionVars PROVE SessionTypeOK'
BY DEF SessionTypeOK, sessionVars

(* What the pieces of the actions in ProvShared, ProvTransport and ProvBle *)
(* do to the types.                                                        *)

LEMMA IdleRange == IdleOff \in 0..IdleOff /\ IdleLimit \in 0..IdleOff
BY BleAssumption DEF BleAssumption, IdleOff

LEMMA CredentialPairs ==
    /\ NoCredentials \in Credentials
    /\ \A n \in Networks : n.psk # TooLong => [ssid |-> n.ssid, psk |-> n.psk] \in Credentials
    /\ \A c \in Credentials, n \in Networks : [c EXCEPT !.ssid = n.ssid] \in Credentials
BY DEF NoCredentials, Credentials, Psks, Ssids

LEMMA DispatchType ==
    ASSUME SharedTypeOK, NEW m, DispatchConfig(m)
    PROVE  /\ cred' \in Credentials
           /\ haveCred' \in BOOLEAN
           /\ apply' \in BOOLEAN
<1>1. CASE \E n \in Networks : SetConfig(n.ssid, n.psk)
  <2> PICK n \in Networks : SetConfig(n.ssid, n.psk)
    BY <1>1
  <2>1. CASE n.psk = TooLong
    BY <2>1, CredentialPairs DEF SetConfig, SharedTypeOK
  <2>2. CASE n.psk # TooLong
    BY <2>2, CredentialPairs DEF SetConfig, SharedTypeOK
  <2>. QED BY <2>1, <2>2
<1>2. CASE ApplyConfig
  BY <1>2 DEF ApplyConfig, SharedTypeOK
<1>3. CASE UNCHANGED <<cred, haveCred, apply>>
  BY <1>3 DEF SharedTypeOK
<1>. QED BY <1>1, <1>2, <1>3 DEF DispatchConfig

LEMMA SignalType ==
    ASSUME SharedTypeOK, SignalFinished
    PROVE  finished' \in BOOLEAN /\ out' \in Credentials /\ done' \in BOOLEAN
BY DEF SharedTypeOK, SignalFinished

LEMMA SelectBleType ==
    ASSUME TransportTypeOK, SelectBle
    PROVE  /\ choice' = "BLE"
           /\ abandoned' \in BOOLEAN
           /\ pending' \subseteq Works
<1>1. CASE choice = "NONE"
  <2>1. abandoned' = ("SOFTAP" \in Built)
    BY <1>1 DEF SelectBle
  <2>2. abandoned' \in BOOLEAN
    BY <2>1
  <2>3. pending' \subseteq Works
    BY <1>1 DEF SelectBle, TransportTypeOK, Works
  <2>. QED BY <1>1, <2>2, <2>3 DEF SelectBle
<1>2. CASE choice = "BLE"
  BY <1>2 DEF SelectBle, TransportTypeOK
<1>. QED BY <1>1, <1>2 DEF SelectBle

LEMMA BleStopType ==
    ASSUME BleTypeOK, NEW works, works \subseteq Works, BleStop(works)
    PROVE  BleTypeOK' /\ pending' \subseteq Works
BY IdleRange DEF BleTypeOK, BleStop

LEMMA BleStartType ==
    ASSUME BleTypeOK, TransportTypeOK, NEW up \in BOOLEAN, BleStart(up)
    PROVE  BleTypeOK' /\ pending' \subseteq Works
<1>1. CASE UNCHANGED <<bleVars, pending>>
  BY <1>1 DEF BleTypeOK, bleVars, TransportTypeOK
<1>2. CASE /\ adv' = (adv \/ up)
           /\ gatt' = up
           /\ readFinish' = FALSE
           /\ hadLink' = FALSE
           /\ idleLeft' = IdleOff
           /\ pending' = pending \ {"idle_after_disc"}
           /\ UNCHANGED <<conn, stray, opened, advTimer>>
  BY <1>2, IdleRange DEF BleTypeOK, TransportTypeOK
<1>. QED BY <1>1, <1>2 DEF BleStart

(* One lemma per thread.                                                   *)

LEMMA ControllerType == ASSUME TypeOK, Controller PROVE TypeOK'
<1> USE DEF TypeOK
<1>1. CASE Joined
  <2>1. SessionTypeOK'
    BY <1>1, SessionAssumption
       DEF SessionAssumption, Joined, ReturnToCaller, SessionTypeOK, Results
  <2>. QED
    BY <1>1, <2>1, SharedFrame, TransportFrame, BleFrame, HttpFrame
       DEF Joined, ReturnToCaller
<1>2. CASE Expire
  BY <1>2, SessionAssumption, BleFrame, HttpFrame DEF SessionAssumption,
     Expire, Cancel, CancelFrom, ShutSockets, SharedTypeOK, sharedVars,
     Credentials, NoCredentials, Psks, Ssids, TransportTypeOK, transportVars,
     Transports, SecStates, Works, SessionTypeOK, sessionVars, RoutineStates,
     Results, NoReply
<1>3. CASE GiveUp
  <2>1. SessionTypeOK'
    BY <1>3, SessionAssumption
       DEF SessionAssumption, GiveUp, ReturnToCaller, SessionTypeOK, Results
  <2>. QED
    BY <1>3, <2>1, SharedFrame, TransportFrame, BleFrame, HttpFrame
       DEF GiveUp, ReturnToCaller
<1>. QED
  BY <1>1, <1>2, <1>3 DEF Controller

LEMMA RoutineType == ASSUME TypeOK, Routine PROVE TypeOK'
<1> USE DEF TypeOK
<1>1. CASE RtSetup
  <2>1. SharedTypeOK'
    BY <1>1 DEF RtSetup, SharedSetup, SharedReset, SecReset, Goto,
       RoutineFrame, ctlVars, transportVars, httpVars, sessionVars,
       SharedTypeOK, sharedVars, Credentials, NoCredentials, Psks, Ssids
  <2>2. TransportTypeOK'
    BY <1>1 DEF RtSetup, SharedSetup, SharedReset, SecReset, Goto,
       RoutineFrame, ctlVars, sharedVars, httpVars, sessionVars,
       TransportTypeOK, transportVars, Transports, SecStates, Works
  <2>3. HttpTypeOK'
    BY <1>1 DEF RtSetup, SharedSetup, SharedReset, SecReset, Goto,
       RoutineFrame, ctlVars, sharedVars, transportVars, sessionVars,
       HttpTypeOK, httpVars, Requests, Provisioning, NoRequest
  <2>4. SessionTypeOK'
    BY <1>1 DEF RtSetup, SharedSetup, SharedReset, SecReset, Goto,
       RoutineFrame, ctlVars, sharedVars, transportVars, httpVars,
       SessionTypeOK, sessionVars, RoutineStates, Results, NoReply
  <2>5. BleTypeOK'
    BY <1>1 DEF RtSetup, BleTypeOK
  <2>. QED
    BY <1>1, <2>1, <2>2, <2>3, <2>4, <2>5 DEF TypeOK
<1>2. CASE RtChoose
  <2>1. TransportTypeOK'
    BY <1>2 DEF RtChoose, Goto, RoutineFrame, ctlVars, sessionVars,
       TransportTypeOK, transportVars, Transports, SecStates, Works
  <2>2. SessionTypeOK'
    BY <1>2, SessionAssumption DEF SessionAssumption, RtChoose, Goto,
       RoutineFrame, ctlVars, transportVars, SessionTypeOK, sessionVars,
       RoutineStates, Results, NoReply
  <2>. QED
    BY <1>2, <2>1, <2>2, SharedFrame, BleFrame, HttpFrame DEF RtChoose,
       RoutineFrame
<1>3. CASE RtSettled
  BY <1>3, SharedFrame, TransportFrame, BleFrame, HttpFrame DEF RtSettled,
     Goto, RoutineFrame, ctlVars, SessionTypeOK, sessionVars, RoutineStates,
     Results, NoReply
<1>4. CASE RtDhcp
  <2>1. SessionTypeOK'
    BY <1>4 DEF RtDhcp, Goto, RoutineFrame, ctlVars, SessionTypeOK,
       RoutineStates
  <2>. QED
    BY <1>4, <2>1, SharedFrame, TransportFrame, BleFrame, HttpFrame DEF RtDhcp,
       RoutineFrame
<1>5. CASE RtAp
  <2>1. SessionTypeOK'
    BY <1>5, SessionAssumption DEF SessionAssumption, RtAp, Goto, RoutineFrame,
       ctlVars, SessionTypeOK, RoutineStates
  <2>. QED
    BY <1>5, <2>1, SharedFrame, TransportFrame, BleFrame, HttpFrame DEF RtAp,
       RoutineFrame
<1>6. CASE RtPrescan
  BY <1>6, SharedFrame, TransportFrame, BleFrame, HttpFrame DEF RtPrescan,
     Goto, RoutineFrame, ctlVars, SessionTypeOK, sessionVars, RoutineStates,
     Results, NoReply
<1>7. CASE RtListen
  BY <1>7, SharedFrame, BleFrame, HttpFrame DEF RtListen, Goto, RoutineFrame,
     ctlVars, TransportTypeOK, transportVars, Transports, SecStates, Works,
     SessionTypeOK, sessionVars, RoutineStates, Results, NoReply
<1>8. CASE RtStartHttp
  BY <1>8, SharedFrame, TransportFrame, BleFrame DEF RtStartHttp, Goto,
     RoutineFrame, ctlVars, HttpTypeOK, httpVars, Requests, Provisioning,
     NoRequest, SessionTypeOK, sessionVars, RoutineStates, Results, NoReply
<1>9. CASE RtStartDns
  BY <1>9, SharedFrame, TransportFrame, BleFrame DEF RtStartDns, Goto,
     RoutineFrame, ctlVars, HttpTypeOK, httpVars, Requests, Provisioning,
     NoRequest, SessionTypeOK, sessionVars, RoutineStates, Results, NoReply
<1>10. CASE RtStartBle
  <2>1. BleTypeOK' /\ pending' \subseteq Works
    BY <1>10, BleStartType, BleFrame DEF RtStartBle, TransportTypeOK
  <2>2. TransportTypeOK'
    BY <1>10, <2>1 DEF RtStartBle, TransportTypeOK
  <2>3. SessionTypeOK'
    BY <1>10 DEF RtStartBle, Goto, RoutineFrame, ctlVars, SessionTypeOK,
       RoutineStates
  <2>. QED
    BY <1>10, <2>1, <2>2, <2>3, SharedFrame, HttpFrame DEF RtStartBle
<1>11. CASE RtDone
  <2>1. SharedTypeOK'
    BY <1>11 DEF RtDone, Leave, Goto, RoutineFrame, ctlVars, sessionVars,
       SharedTypeOK, sharedVars, Credentials, NoCredentials, Psks, Ssids
  <2>2. SessionTypeOK'
    BY <1>11 DEF RtDone, Leave, Goto, RoutineFrame, ctlVars, sharedVars,
       SessionTypeOK, sessionVars, RoutineStates, Results, NoReply
  <2>. QED
    BY <1>11, <2>1, <2>2, TransportFrame, BleFrame, HttpFrame DEF RtDone,
       Leave, RoutineFrame
<1>12. CASE RtStopped
  BY <1>12, TransportFrame, BleFrame, HttpFrame DEF RtStopped, Leave, Goto,
     RoutineFrame, ctlVars, SharedTypeOK, sharedVars, Credentials,
     NoCredentials, Psks, Ssids, SessionTypeOK, sessionVars, RoutineStates,
     Results, NoReply
<1>13. CASE RtJoin
  BY <1>13, SessionAssumption, SharedFrame, TransportFrame, BleFrame, HttpFrame
     DEF SessionAssumption, RtJoin, Goto, RoutineFrame, ctlVars, SessionTypeOK,
     sessionVars, RoutineStates, Results, NoReply
<1>14. CASE RtStop
  <2>1. BleTypeOK' /\ pending' \subseteq Works
    BY <1>14, BleStopType, BleFrame DEF RtStop, TransportTypeOK
  <2>2. TransportTypeOK'
    BY <1>14, <2>1 DEF RtStop, RadiosOff, TransportTypeOK
  <2>3. SessionTypeOK'
    BY <1>14 DEF RtStop, RadiosOff, Goto, RoutineFrame, ctlVars, SessionTypeOK,
       RoutineStates
  <2>. QED
    BY <1>14, <2>1, <2>2, <2>3, SharedFrame, HttpFrame DEF RtStop
<1>15. CASE RtCleanup
  <2>1. TransportTypeOK'
    BY <1>15 DEF RtCleanup, RadiosOff, Goto, RoutineFrame, ctlVars,
       sessionVars, TransportTypeOK, transportVars, Transports, SecStates,
       Works
  <2>2. SessionTypeOK'
    BY <1>15 DEF RtCleanup, RadiosOff, Goto, RoutineFrame, ctlVars,
       transportVars, SessionTypeOK, sessionVars, RoutineStates, Results,
       NoReply
  <2>. QED
    BY <1>15, <2>1, <2>2, SharedFrame, BleFrame, HttpFrame DEF RtCleanup,
       RoutineFrame
<1>16. CASE RtReset
  <2>1. SharedTypeOK'
    BY <1>16 DEF RtReset, SecReset, SharedReset, Goto, RoutineFrame, ctlVars,
       transportVars, httpVars, sessionVars, SharedTypeOK, sharedVars,
       Credentials, NoCredentials, Psks, Ssids
  <2>2. TransportTypeOK'
    BY <1>16 DEF RtReset, SecReset, SharedReset, Goto, RoutineFrame, ctlVars,
       sharedVars, httpVars, sessionVars, TransportTypeOK, transportVars,
       Transports, SecStates, Works
  <2>3. HttpTypeOK'
    BY <1>16 DEF RtReset, SecReset, SharedReset, Goto, RoutineFrame, ctlVars,
       sharedVars, transportVars, sessionVars, HttpTypeOK, httpVars, Requests,
       Provisioning, NoRequest
  <2>4. SessionTypeOK'
    BY <1>16 DEF RtReset, SecReset, SharedReset, Goto, RoutineFrame, ctlVars,
       sharedVars, transportVars, httpVars, SessionTypeOK, sessionVars,
       RoutineStates, Results, NoReply
  <2>5. BleTypeOK'
    BY <1>16 DEF RtReset, BleTypeOK
  <2>. QED
    BY <1>16, <2>1, <2>2, <2>3, <2>4, <2>5 DEF TypeOK
<1>. QED
  BY <1>1, <1>2, <1>3, <1>4, <1>5, <1>6, <1>7, <1>8, <1>9, <1>10, <1>11, <1>12,
     <1>13, <1>14, <1>15, <1>16 DEF Routine

LEMMA SysWorkType == ASSUME TypeOK, SysWork PROVE TypeOK'
<1> USE DEF TypeOK
<1>1. CASE SysJoined
  BY <1>1, SharedFrame, TransportFrame, BleFrame, HttpFrame DEF SysJoined,
     ctlVars, SessionTypeOK, sessionVars, RoutineStates, Results, NoReply
<1>2. CASE SysSoftapShutdown
  BY <1>2, SharedFrame, BleFrame, HttpFrame DEF SysSoftapShutdown, ShutSockets,
     ctlVars, TransportTypeOK, transportVars, Transports, SecStates, Works,
     SessionTypeOK, sessionVars, RoutineStates, Results, NoReply
<1>3. CASE SysBleStop
  <2>1. BleTypeOK' /\ pending' \subseteq Works
    BY <1>3, BleStopType DEF SysBleStop, TransportTypeOK
  <2>2. TransportTypeOK'
    BY <1>3, <2>1 DEF SysBleStop, TransportTypeOK
  <2>. QED
    BY <1>3, <2>1, <2>2, SharedFrame, HttpFrame, SessionFrame DEF SysBleStop
<1>4. CASE SysAbortNet
  <2>1. BleTypeOK' /\ pending' \subseteq Works
    BY <1>4, BleStopType DEF SysAbortNet, TransportTypeOK
  <2>2. TransportTypeOK'
    BY <1>4, <2>1 DEF SysAbortNet, ShutSockets, TransportTypeOK
  <2>. QED
    BY <1>4, <2>1, <2>2, SharedFrame, HttpFrame, SessionFrame DEF SysAbortNet
<1>5. CASE AdvRestartWork /\ UNCHANGED <<httpVars, sessionVars>>
  <2>1. TransportTypeOK'
    BY <1>5 DEF AdvRestartWork, TransportTypeOK, Works
  <2>2. BleTypeOK'
    BY <1>5 DEF AdvRestartWork, BleTypeOK
  <2>. QED
    BY <1>5, <2>1, <2>2, SharedFrame, HttpFrame, SessionFrame DEF AdvRestartWork
<1>6. CASE IdleCancels /\ UNCHANGED <<httpVars, sessionVars>>
  BY <1>6, BleFrame, HttpFrame, SessionFrame DEF IdleCancels, CancelFrom,
     ShutSockets, SharedTypeOK, sharedVars, Credentials, NoCredentials, Psks,
     Ssids, TransportTypeOK, transportVars, Transports, SecStates, Works
<1>7. CASE IdleIgnored /\ UNCHANGED <<httpVars, sessionVars>>
  BY <1>7, SharedFrame, BleFrame, HttpFrame, SessionFrame DEF IdleIgnored,
     TransportTypeOK, transportVars, Transports, SecStates, Works
<1>. QED
  BY <1>1, <1>2, <1>3, <1>4, <1>5, <1>6, <1>7 DEF SysWork, BleWork

LEMMA BleTimersType == ASSUME TypeOK, BleTimersFire PROVE TypeOK'
<1> USE DEF TypeOK
<1>1. CASE AdvTimerFires /\ UNCHANGED <<httpVars, sessionVars>>
  <2>1. TransportTypeOK'
    BY <1>1 DEF AdvTimerFires, TransportTypeOK, Works
  <2>2. BleTypeOK'
    BY <1>1 DEF AdvTimerFires, BleTypeOK
  <2>. QED
    BY <1>1, <2>1, <2>2, SharedFrame, HttpFrame, SessionFrame DEF AdvTimerFires
<1>2. CASE IdleTimerFires /\ UNCHANGED <<httpVars, sessionVars>>
  <2>1. TransportTypeOK'
    BY <1>2 DEF IdleTimerFires, TransportTypeOK, Works
  <2>2. BleTypeOK'
    BY <1>2, IdleRange DEF IdleTimerFires, BleTypeOK
  <2>. QED
    BY <1>2, <2>1, <2>2, SharedFrame, HttpFrame, SessionFrame DEF IdleTimerFires
<1>. QED
  BY <1>1, <1>2 DEF BleTimersFire, BleTimers

LEMMA WorkersType == ASSUME TypeOK, HttpRuns \/ DnsRuns PROVE TypeOK'
<1> USE DEF TypeOK
<1>1. CASE HttpExit /\ UNCHANGED <<bleVars, sessionVars>>
  BY <1>1, SharedFrame, TransportFrame, BleFrame, SessionFrame DEF HttpExit,
     HttpTypeOK, httpVars, Requests, Provisioning, NoRequest
<1>2. CASE HttpHangUp /\ UNCHANGED <<bleVars, sessionVars>>
  BY <1>2, SharedFrame, TransportFrame, BleFrame, SessionFrame DEF HttpHangUp,
     HttpTypeOK, httpVars, Requests, Provisioning, NoRequest
<1>3. CASE HttpPlain /\ UNCHANGED <<bleVars, sessionVars>>
  BY <1>3, SharedFrame, TransportFrame, BleFrame, SessionFrame DEF HttpPlain, NextRequest,
     HttpTypeOK, httpVars, Requests, Provisioning, NoRequest
<1>4. CASE HttpSession /\ UNCHANGED <<bleVars, sessionVars>>
  BY ZenonT(60), <1>4, SharedFrame, BleFrame, SessionFrame DEF HttpSession, EnsureSession,
     SecAfter, NextRequest, TransportTypeOK, transportVars, Transports,
     SecStates, Works, HttpTypeOK, httpVars, Requests, Provisioning, NoRequest
<1>5. CASE HttpNotReady /\ UNCHANGED <<bleVars, sessionVars>>
  BY <1>5, SharedFrame, BleFrame, SessionFrame DEF HttpNotReady, EnsureSession,
     TransportTypeOK, transportVars, Transports, SecStates, Works, HttpTypeOK,
     httpVars, Requests, Provisioning, NoRequest
<1>6. CASE HttpNoEntropy /\ UNCHANGED <<bleVars, sessionVars>>
  BY <1>6, SharedFrame, BleFrame, SessionFrame DEF HttpNoEntropy,
     TransportTypeOK, transportVars, Transports, SecStates, Works, HttpTypeOK,
     httpVars, Requests, Provisioning, NoRequest
<1>7. CASE HttpScan /\ UNCHANGED <<bleVars, sessionVars>>
  BY <1>7, SharedFrame, TransportFrame, BleFrame, SessionFrame DEF HttpScan,
     EnsureSession, NextRequest, HttpTypeOK, httpVars, Requests, Provisioning,
     NoRequest
<1>8. CASE HttpConfig /\ UNCHANGED <<bleVars, sessionVars>>
  <2>1. SharedTypeOK'
    BY <1>8, DispatchType DEF HttpConfig, SharedTypeOK
  <2>2. HttpTypeOK'
    BY <1>8 DEF HttpConfig, EnsureSession, NextRequest, DispatchConfig,
       SetConfig, ApplyConfig, sharedVars, HttpTypeOK, httpVars, Requests,
       Provisioning, NoRequest
  <2>. QED
    BY <1>8, <2>1, <2>2, TransportFrame, BleFrame, SessionFrame DEF HttpConfig
<1>9. CASE HttpSignal /\ UNCHANGED <<bleVars, sessionVars>>
  <2>1. SharedTypeOK'
    BY <1>9 DEF HttpSignal, SignalFinished, httpVars, SharedTypeOK, sharedVars,
       Credentials, NoCredentials, Psks, Ssids
  <2>2. HttpTypeOK'
    BY <1>9 DEF HttpSignal, SignalFinished, sharedVars, HttpTypeOK, httpVars,
       Requests, Provisioning, NoRequest
  <2>. QED
    BY <1>9, <2>1, <2>2, TransportFrame, BleFrame, SessionFrame DEF HttpSignal
<1>10. CASE DnsExit /\ UNCHANGED <<bleVars, sessionVars>>
  BY <1>10, SharedFrame, TransportFrame, BleFrame, SessionFrame DEF DnsExit,
     HttpTypeOK, httpVars, Requests, Provisioning, NoRequest
<1>. QED
  BY <1>1, <1>2, <1>3, <1>4, <1>5, <1>6, <1>7, <1>8, <1>9, <1>10 DEF HttpRuns,
     HttpThread, DnsRuns

LEMMA BlePhoneType ==
    ASSUME TypeOK, BlePhone /\ UNCHANGED <<httpVars, sessionVars>>
    PROVE  TypeOK'
<1> USE DEF TypeOK
<1>1. CASE BleConnect /\ UNCHANGED <<httpVars, sessionVars>>
  <2>1. TransportTypeOK'
    BY <1>1 DEF BleConnect, bleVars, TransportTypeOK, transportVars,
       Transports, SecStates, Works
  <2>2. BleTypeOK'
    BY <1>1, IdleRange DEF BleConnect, BleTypeOK
  <2>. QED
    BY <1>1, <2>1, <2>2, SharedFrame, HttpFrame, SessionFrame DEF BleConnect
<1>2. CASE BleDisconnect /\ UNCHANGED <<httpVars, sessionVars>>
  <2>1. TransportTypeOK'
    BY <1>2 DEF BleDisconnect, bleVars, TransportTypeOK, transportVars,
       Transports, SecStates, Works
  <2>2. BleTypeOK'
    BY <1>2, IdleRange DEF BleDisconnect, BleTypeOK
  <2>. QED
    BY <1>2, <2>1, <2>2, SharedFrame, HttpFrame, SessionFrame DEF BleDisconnect
<1>3. CASE (\E m \in {"cmd0", "cmd1"} : BleWriteSession(m)) /\ UNCHANGED
         <<httpVars, sessionVars>>
  <2>1. TransportTypeOK'
    BY <1>3, SelectBleType DEF BleWriteSession, SecAfter, TransportTypeOK,
       Transports, SecStates
  <2>. QED
    BY <1>3, <2>1, SharedFrame, BleFrame, HttpFrame, SessionFrame DEF
       BleWriteSession
<1>4. CASE BleWriteOther /\ UNCHANGED <<httpVars, sessionVars>>
  <2>1. TransportTypeOK'
    BY <1>4, SelectBleType DEF BleWriteOther, TransportTypeOK, Transports
  <2>. QED
    BY <1>4, <2>1, SharedFrame, BleFrame, HttpFrame, SessionFrame DEF
       BleWriteOther
<1>5. CASE (\E m \in {"set", "apply", "status"} : BleWriteConfig(m)) /\
         UNCHANGED <<httpVars, sessionVars>>
  <2>1. SharedTypeOK'
    BY <1>5, DispatchType, SignalType DEF BleWriteConfig, SharedTypeOK
  <2>2. TransportTypeOK'
    BY <1>5, SelectBleType DEF BleWriteConfig, TransportTypeOK, Transports
  <2>3. BleTypeOK'
    BY <1>5, IdleRange DEF BleWriteConfig, BleWriting, SelectBle,
       SignalFinished, DispatchConfig, SetConfig, ApplyConfig, sharedVars,
       transportVars, BleTypeOK, bleVars
  <2>. QED
    BY <1>5, <2>1, <2>2, <2>3, HttpFrame, SessionFrame DEF BleWriteConfig
<1>6. CASE BleRead /\ UNCHANGED <<httpVars, sessionVars>>
  <2>1. SharedTypeOK'
    BY <1>6, SignalType DEF BleRead, SharedTypeOK
  <2>2. BleTypeOK'
    BY <1>6 DEF BleRead, BleTypeOK
  <2>. QED
    BY <1>6, <2>1, <2>2, TransportFrame, HttpFrame, SessionFrame DEF BleRead
<1>7. CASE BleStrayLeaves /\ UNCHANGED <<httpVars, sessionVars>>
  BY <1>7, SharedFrame, TransportFrame, HttpFrame, SessionFrame DEF BleStrayLeaves,
     BleTypeOK
<1>. QED
  BY <1>1, <1>2, <1>3, <1>4, <1>5, <1>6, <1>7 DEF BlePhone

LEMMA HttpPhoneType ==
    ASSUME TypeOK, HttpPhone /\ UNCHANGED <<bleVars, sessionVars>>
    PROVE  TypeOK'
<1> USE DEF TypeOK
<1>1. CASE HttpAccept /\ UNCHANGED <<bleVars, sessionVars>>
  BY <1>1, SharedFrame, TransportFrame, BleFrame, SessionFrame DEF HttpAccept,
     HttpTypeOK, httpVars, Requests, Provisioning, NoRequest
<1>2. CASE HttpHangUp /\ UNCHANGED <<bleVars, sessionVars>>
  BY <1>2, SharedFrame, TransportFrame, BleFrame, SessionFrame DEF HttpHangUp,
     HttpTypeOK, httpVars, Requests, Provisioning, NoRequest
<1>3. CASE (\E r \in Requests : HttpHeader(r)) /\ UNCHANGED <<bleVars,
         sessionVars>>
  BY ZenonT(60), <1>3, SharedFrame, BleFrame, SessionFrame DEF HttpHeader, SelectSoftap,
     TransportTypeOK, transportVars, Transports, SecStates, Works, HttpTypeOK,
     httpVars, Requests, Provisioning, NoRequest
<1>. QED
  BY <1>1, <1>2, <1>3 DEF HttpPhone

LEMMA NextType == ASSUME TypeOK, [Next]_vars PROVE TypeOK'
<1> USE DEF TypeOK
<1>1. CASE Run
  BY <1>1, SessionAssumption, SharedFrame, TransportFrame, BleFrame, HttpFrame
     DEF SessionAssumption, Run, SessionTypeOK, sessionVars, RoutineStates,
     Results, NoReply
<1>2. CASE AppCancel
  <2>1. SharedTypeOK'
    BY <1>2 DEF AppCancel, Cancel, CancelFrom, CancelIsr, ShutSockets,
       transportVars, SharedTypeOK, sharedVars, Credentials, NoCredentials,
       Psks, Ssids
  <2>2. TransportTypeOK'
    BY <1>2 DEF AppCancel, Cancel, CancelFrom, CancelIsr, ShutSockets,
       sharedVars, TransportTypeOK, transportVars, Transports, SecStates, Works
  <2>. QED
    BY <1>2, <2>1, <2>2, BleFrame, HttpFrame, SessionFrame DEF AppCancel
<1>3. CASE Tick
  <2>1. BleTypeOK'
    BY <1>3, BleAssumption DEF BleAssumption, Tick, Quiet, QueueQuiet, IdleOff,
       BleTypeOK
  <2>2. SessionTypeOK'
    BY <1>3, SessionAssumption DEF SessionAssumption, Tick, Less, bleVars,
       SessionTypeOK, sessionVars, RoutineStates, Results, NoReply
  <2>. QED
    BY <1>3, <2>1, <2>2, SharedFrame, TransportFrame, HttpFrame DEF Tick
<1>4. CASE UNCHANGED vars
  BY <1>4, SharedFrame, TransportFrame, BleFrame, HttpFrame, SessionFrame DEF vars
<1>. QED
  BY <1>1, <1>2, <1>3, <1>4, ControllerType, RoutineType, SysWorkType, BleTimersType,
     WorkersType, BlePhoneType, HttpPhoneType DEF Next, Device, Outside

\* Every variable has its type in every reachable state: in particular the
\* credentials, of the caller and of the store, are pairs of a name and a
\* passphrase that fit (SetConfig refuses a passphrase that does not).
THEOREM TypeCorrect == Spec => []TypeOK
<1>1. Init => TypeOK
  <2> SUFFICES ASSUME Init PROVE TypeOK
    OBVIOUS
  <2>1. SharedTypeOK
    BY CredentialPairs DEF Init, SharedInit, SharedTypeOK
  <2>2. TransportTypeOK
    BY DEF Init, TransportInit, TransportTypeOK, SecStates
  <2>3. BleTypeOK
    BY IdleRange DEF Init, BleInit, BleTypeOK
  <2>4. HttpTypeOK
    BY DEF Init, HttpInit, HttpTypeOK
  <2>5. SessionTypeOK
    <3>1. left \in 0..SessionLimit /\ grace \in 0..JoinLimit
          /\ sessions \in 0..MaxSessions /\ busy \in Nat
      BY SessionAssumption DEF SessionAssumption, Init
    <3>. QED
      BY <3>1 DEF Init, SessionTypeOK, Results, NoReply, RoutineStates
  <2>. QED
    BY <2>1, <2>2, <2>3, <2>4, <2>5 DEF TypeOK
<1>2. TypeOK /\ [Next]_vars => TypeOK'
  BY NextType
<1>. QED
  BY <1>1, <1>2, PTL DEF Spec

-------------------------------------------------------------------------------
(* The arbitration of the transports.                                      *)

\* The part of the state that ArbitrationInv is about.
arbVars == <<choice, abandoned, sec, listener, gatt, bleUp, http, req, rt>>

LEMMA ArbitrationFrame ==
    ASSUME ArbitrationInv, UNCHANGED arbVars PROVE ArbitrationInv'
BY DEF arbVars, ArbitrationInv, WorkersInside, ServiceInside, ListenerInside,
       HandshakeAfterChoice, LastRequest

LEMMA ControllerArbitration ==
    ASSUME TypeOK, ArbitrationInv, Controller
    PROVE  ArbitrationInv'
<1> USE DEF ArbitrationInv, WorkersInside, ServiceInside, ListenerInside,
            HandshakeAfterChoice, LastRequest
<1>1. CASE Joined
  BY <1>1, ArbitrationFrame DEF Joined, ReturnToCaller, arbVars, transportVars,
     bleVars, httpVars, sessionVars
<1>2. CASE Expire
  BY <1>2 DEF Expire, Cancel, CancelFrom, ShutSockets, TypeOK, TransportTypeOK,
     HttpTypeOK, Transports, SecStates, Provisioning, NoRequest, transportVars,
     bleVars, httpVars, sessionVars, ctlVars
<1>3. CASE GiveUp
  BY <1>3, ArbitrationFrame DEF GiveUp, ReturnToCaller, arbVars, transportVars,
     bleVars, httpVars, sessionVars
<1>. QED
  BY <1>1, <1>2, <1>3 DEF Controller

LEMMA RoutineArbitration ==
    ASSUME TypeOK, ArbitrationInv, Routine
    PROVE  ArbitrationInv'
<1> USE DEF ArbitrationInv, WorkersInside, ServiceInside, ListenerInside,
            HandshakeAfterChoice, LastRequest
<1>1. CASE RtSetup
  BY <1>1 DEF RtSetup, SecReset, Goto, TypeOK, TransportTypeOK, HttpTypeOK,
     Transports, SecStates, Provisioning, NoRequest, transportVars, bleVars,
     httpVars, sessionVars, RoutineFrame
<1>2. CASE RtChoose
  BY <1>2 DEF RtChoose, Goto, TypeOK, TransportTypeOK, HttpTypeOK, Transports,
     SecStates, Provisioning, NoRequest, transportVars, bleVars, httpVars,
     sessionVars, RoutineFrame
<1>3. CASE RtSettled
  BY <1>3 DEF RtSettled, Goto, TypeOK, TransportTypeOK, HttpTypeOK, Transports,
     SecStates, Provisioning, NoRequest, transportVars, bleVars, httpVars,
     sessionVars, RoutineFrame
<1>4. CASE RtDhcp
  BY <1>4 DEF RtDhcp, Goto, TypeOK, TransportTypeOK, HttpTypeOK, Transports,
     SecStates, Provisioning, NoRequest, transportVars, bleVars, httpVars,
     sessionVars, RoutineFrame
<1>5. CASE RtAp
  BY <1>5 DEF RtAp, Goto, TypeOK, TransportTypeOK, HttpTypeOK, Transports,
     SecStates, Provisioning, NoRequest, transportVars, bleVars, httpVars,
     sessionVars, RoutineFrame
<1>6. CASE RtPrescan
  BY <1>6 DEF RtPrescan, Goto, TypeOK, TransportTypeOK, HttpTypeOK, Transports,
     SecStates, Provisioning, NoRequest, transportVars, bleVars, httpVars,
     sessionVars, RoutineFrame
<1>7. CASE RtListen
  BY <1>7 DEF RtListen, Goto, TypeOK, TransportTypeOK, HttpTypeOK, Transports,
     SecStates, Provisioning, NoRequest, transportVars, bleVars, httpVars,
     sessionVars, RoutineFrame
<1>8. CASE RtStartHttp
  BY <1>8 DEF RtStartHttp, Goto, TypeOK, TransportTypeOK, HttpTypeOK,
     Transports, SecStates, Provisioning, NoRequest, transportVars, bleVars,
     httpVars, sessionVars, RoutineFrame
<1>9. CASE RtStartDns
  BY <1>9 DEF RtStartDns, Goto, TypeOK, TransportTypeOK, HttpTypeOK,
     Transports, SecStates, Provisioning, NoRequest, transportVars, bleVars,
     httpVars, sessionVars, RoutineFrame
<1>10. CASE RtStartBle
  BY <1>10 DEF RtStartBle, BleStart, Goto, TypeOK, TransportTypeOK, HttpTypeOK,
     Transports, SecStates, Provisioning, NoRequest, transportVars, bleVars,
     httpVars, sessionVars, RoutineFrame
<1>11. CASE RtDone
  BY <1>11 DEF RtDone, Leave, Goto, TypeOK, TransportTypeOK, HttpTypeOK,
     Transports, SecStates, Provisioning, NoRequest, transportVars, bleVars,
     httpVars, sessionVars, RoutineFrame
<1>12. CASE RtStopped
  BY <1>12 DEF RtStopped, Leave, Goto, TypeOK, TransportTypeOK, HttpTypeOK,
     Transports, SecStates, Provisioning, NoRequest, transportVars, bleVars,
     httpVars, sessionVars, RoutineFrame
<1>13. CASE RtJoin
  BY <1>13 DEF RtJoin, Goto, TypeOK, TransportTypeOK, HttpTypeOK, Transports,
     SecStates, Provisioning, NoRequest, transportVars, bleVars, httpVars,
     sessionVars, RoutineFrame
<1>14. CASE RtStop
  BY <1>14 DEF RtStop, Goto, RadiosOff, BleStop, TypeOK, TransportTypeOK,
     HttpTypeOK, Transports, SecStates, Provisioning, NoRequest, transportVars,
     bleVars, httpVars, sessionVars, RoutineFrame
<1>15. CASE RtCleanup
  BY <1>15 DEF RtCleanup, Goto, RadiosOff, TypeOK, TransportTypeOK, HttpTypeOK,
     Transports, SecStates, Provisioning, NoRequest, transportVars, bleVars,
     httpVars, sessionVars, RoutineFrame
<1>16. CASE RtReset
  BY <1>16 DEF RtReset, SecReset, Goto, TypeOK, TransportTypeOK, HttpTypeOK,
     Transports, SecStates, Provisioning, NoRequest, transportVars, bleVars,
     httpVars, sessionVars, RoutineFrame
<1>. QED
  BY <1>1, <1>2, <1>3, <1>4, <1>5, <1>6, <1>7, <1>8, <1>9, <1>10, <1>11, <1>12,
     <1>13, <1>14, <1>15, <1>16 DEF Routine

LEMMA SysWorkArbitration ==
    ASSUME TypeOK, ArbitrationInv, SysWork
    PROVE  ArbitrationInv'
<1> USE DEF ArbitrationInv, WorkersInside, ServiceInside, ListenerInside,
            HandshakeAfterChoice, LastRequest
<1>1. CASE SysJoined
  BY <1>1, ArbitrationFrame DEF SysJoined, arbVars, transportVars, bleVars,
     httpVars, sessionVars, ctlVars
<1>2. CASE SysSoftapShutdown
  BY <1>2 DEF SysSoftapShutdown, ShutSockets, TypeOK, TransportTypeOK,
     HttpTypeOK, Transports, SecStates, Provisioning, NoRequest, transportVars,
     bleVars, httpVars, sessionVars, ctlVars
<1>3. CASE SysBleStop
  BY <1>3 DEF SysBleStop, BleStop, TypeOK, TransportTypeOK, HttpTypeOK,
     Transports, SecStates, Provisioning, NoRequest, transportVars, bleVars,
     httpVars, sessionVars, ctlVars
<1>4. CASE SysAbortNet
  BY <1>4 DEF SysAbortNet, ShutSockets, BleStop, TypeOK, TransportTypeOK,
     HttpTypeOK, Transports, SecStates, Provisioning, NoRequest, transportVars,
     bleVars, httpVars, sessionVars, ctlVars
<1>5. CASE AdvRestartWork /\ UNCHANGED <<httpVars, sessionVars>>
  BY <1>5, ArbitrationFrame DEF AdvRestartWork, arbVars, transportVars,
     bleVars, httpVars, sessionVars, ctlVars
<1>6. CASE IdleCancels /\ UNCHANGED <<httpVars, sessionVars>>
  BY <1>6 DEF IdleCancels, CancelFrom, ShutSockets, TypeOK, TransportTypeOK,
     HttpTypeOK, Transports, SecStates, Provisioning, NoRequest, transportVars,
     bleVars, httpVars, sessionVars, ctlVars
<1>7. CASE IdleIgnored /\ UNCHANGED <<httpVars, sessionVars>>
  BY <1>7, ArbitrationFrame DEF IdleIgnored, arbVars, transportVars, bleVars,
     httpVars, sessionVars, ctlVars
<1>. QED
  BY <1>1, <1>2, <1>3, <1>4, <1>5, <1>6, <1>7 DEF SysWork, BleWork

LEMMA BleTimersArbitration ==
    ASSUME TypeOK, ArbitrationInv, BleTimersFire
    PROVE  ArbitrationInv'
<1> USE DEF ArbitrationInv, WorkersInside, ServiceInside, ListenerInside,
            HandshakeAfterChoice, LastRequest
<1>1. CASE AdvTimerFires /\ UNCHANGED <<httpVars, sessionVars>>
  BY <1>1, ArbitrationFrame DEF AdvTimerFires, arbVars, transportVars, bleVars,
     httpVars, sessionVars
<1>2. CASE IdleTimerFires /\ UNCHANGED <<httpVars, sessionVars>>
  BY <1>2, ArbitrationFrame DEF IdleTimerFires, arbVars, transportVars,
     bleVars, httpVars, sessionVars
<1>. QED
  BY <1>1, <1>2 DEF BleTimersFire, BleTimers

LEMMA WorkersArbitration ==
    ASSUME TypeOK, ArbitrationInv, HttpRuns \/ DnsRuns
    PROVE  ArbitrationInv'
<1> USE DEF ArbitrationInv, WorkersInside, ServiceInside, ListenerInside,
            HandshakeAfterChoice, LastRequest
<1>1. CASE HttpExit /\ UNCHANGED <<bleVars, sessionVars>>
  BY <1>1 DEF HttpExit, TypeOK, TransportTypeOK, HttpTypeOK, Transports,
     SecStates, Provisioning, NoRequest, transportVars, bleVars, httpVars,
     sessionVars
<1>2. CASE HttpHangUp /\ UNCHANGED <<bleVars, sessionVars>>
  BY <1>2 DEF HttpHangUp, TypeOK, TransportTypeOK, HttpTypeOK, Transports,
     SecStates, Provisioning, NoRequest, transportVars, bleVars, httpVars,
     sessionVars
<1>3. CASE HttpPlain /\ UNCHANGED <<bleVars, sessionVars>>
  BY <1>3 DEF HttpPlain, NextRequest, Abort, TypeOK, TransportTypeOK, HttpTypeOK,
     Transports, SecStates, Provisioning, NoRequest, transportVars, bleVars,
     httpVars, sessionVars
<1>4. CASE HttpSession /\ UNCHANGED <<bleVars, sessionVars>>
  BY <1>4 DEF HttpSession, EnsureSession, SecAfter, NextRequest, Abort, TypeOK,
     TransportTypeOK, HttpTypeOK, Transports, SecStates, Provisioning,
     NoRequest, transportVars, bleVars, httpVars, sessionVars
<1>5. CASE HttpNotReady /\ UNCHANGED <<bleVars, sessionVars>>
  BY <1>5 DEF HttpNotReady, EnsureSession, TypeOK, TransportTypeOK, HttpTypeOK,
     Transports, SecStates, Provisioning, NoRequest, transportVars, bleVars,
     httpVars, sessionVars
<1>6. CASE HttpNoEntropy /\ UNCHANGED <<bleVars, sessionVars>>
  BY <1>6 DEF HttpNoEntropy, TypeOK, TransportTypeOK, HttpTypeOK, Transports,
     SecStates, Provisioning, NoRequest, transportVars, bleVars, httpVars,
     sessionVars
<1>7. CASE HttpScan /\ UNCHANGED <<bleVars, sessionVars>>
  BY <1>7 DEF HttpScan, EnsureSession, NextRequest, Abort, TypeOK,
     TransportTypeOK, HttpTypeOK, Transports, SecStates, Provisioning,
     NoRequest, transportVars, bleVars, httpVars, sessionVars
<1>8. CASE HttpConfig /\ UNCHANGED <<bleVars, sessionVars>>
  BY <1>8 DEF HttpConfig, EnsureSession, NextRequest, Abort, TypeOK,
     TransportTypeOK, HttpTypeOK, Transports, SecStates, Provisioning,
     NoRequest, transportVars, bleVars, httpVars, sessionVars
<1>9. CASE HttpSignal /\ UNCHANGED <<bleVars, sessionVars>>
  BY <1>9 DEF HttpSignal, TypeOK, TransportTypeOK, HttpTypeOK, Transports,
     SecStates, Provisioning, NoRequest, transportVars, bleVars, httpVars,
     sessionVars
<1>10. CASE DnsExit /\ UNCHANGED <<bleVars, sessionVars>>
  BY <1>10, ArbitrationFrame DEF DnsExit, arbVars, transportVars, bleVars,
     httpVars, sessionVars
<1>. QED
  BY <1>1, <1>2, <1>3, <1>4, <1>5, <1>6, <1>7, <1>8, <1>9, <1>10 DEF HttpRuns,
     HttpThread, DnsRuns

LEMMA SelectBleArbitration ==
    ASSUME choice \in Transports \cup {"NONE"}, SelectBle
    PROVE  /\ choice' = "BLE"
           /\ choice = "NONE" \/ choice = "BLE"
           /\ choice = "BLE" => abandoned' = abandoned
           /\ choice = "NONE" => ("SOFTAP" \in Built => abandoned')
BY DEF SelectBle, Transports

LEMMA BlePhoneArbitration ==
    ASSUME TypeOK, ArbitrationInv, BlePhone /\ UNCHANGED <<httpVars, sessionVars>>
    PROVE  ArbitrationInv'
<1> USE DEF ArbitrationInv, WorkersInside, ServiceInside, ListenerInside,
            HandshakeAfterChoice, LastRequest
<1>1. CASE BleConnect /\ UNCHANGED <<httpVars, sessionVars>>
  BY <1>1 DEF BleConnect, TypeOK, TransportTypeOK, HttpTypeOK, Transports,
     SecStates, Provisioning, NoRequest, transportVars, bleVars, httpVars,
     sessionVars
<1>2. CASE BleDisconnect /\ UNCHANGED <<httpVars, sessionVars>>
  BY <1>2 DEF BleDisconnect, TypeOK, TransportTypeOK, HttpTypeOK, Transports,
     SecStates, Provisioning, NoRequest, transportVars, bleVars, httpVars,
     sessionVars
<1>3. CASE (\E m \in {"cmd0", "cmd1"} : BleWriteSession(m)) /\ UNCHANGED
         <<httpVars, sessionVars>>
  BY <1>3, SelectBleArbitration DEF BleWriteSession, BleWriting, Linked, SecAfter, TypeOK,
     TransportTypeOK, HttpTypeOK, Transports, SecStates, bleVars, httpVars,
     sessionVars
<1>4. CASE BleWriteOther /\ UNCHANGED <<httpVars, sessionVars>>
  BY <1>4, SelectBleArbitration DEF BleWriteOther, BleWriting, Linked, TypeOK,
     TransportTypeOK, HttpTypeOK, Transports, SecStates, bleVars, httpVars,
     sessionVars
<1>5. CASE (\E m \in {"set", "apply", "status"} : BleWriteConfig(m)) /\
         UNCHANGED <<httpVars, sessionVars>>
  BY <1>5 DEF BleWriteConfig, BleWriting, Linked, SelectBle, TypeOK, TransportTypeOK,
     HttpTypeOK, Transports, SecStates, Provisioning, NoRequest, transportVars,
     bleVars, httpVars, sessionVars
<1>6. CASE BleRead /\ UNCHANGED <<httpVars, sessionVars>>
  BY <1>6, ArbitrationFrame DEF BleRead, arbVars, transportVars, bleVars,
     httpVars, sessionVars
<1>7. CASE BleStrayLeaves /\ UNCHANGED <<httpVars, sessionVars>>
  BY <1>7, ArbitrationFrame DEF BleStrayLeaves, arbVars, transportVars, bleVars,
     httpVars, sessionVars
<1>. QED
  BY <1>1, <1>2, <1>3, <1>4, <1>5, <1>6, <1>7 DEF BlePhone

LEMMA HttpPhoneArbitration ==
    ASSUME TypeOK, ArbitrationInv, HttpPhone /\ UNCHANGED <<bleVars, sessionVars>>
    PROVE  ArbitrationInv'
<1> USE DEF ArbitrationInv, WorkersInside, ServiceInside, ListenerInside,
            HandshakeAfterChoice, LastRequest
<1>1. CASE HttpAccept /\ UNCHANGED <<bleVars, sessionVars>>
  BY <1>1 DEF HttpAccept, Abort, TypeOK, TransportTypeOK, HttpTypeOK,
     Transports, SecStates, Provisioning, NoRequest, transportVars, bleVars,
     httpVars, sessionVars
<1>2. CASE HttpHangUp /\ UNCHANGED <<bleVars, sessionVars>>
  BY <1>2 DEF HttpHangUp, TypeOK, TransportTypeOK, HttpTypeOK, Transports,
     SecStates, Provisioning, NoRequest, transportVars, bleVars, httpVars,
     sessionVars
<1>3. CASE (\E r \in Requests : HttpHeader(r)) /\ UNCHANGED <<bleVars,
         sessionVars>>
  BY <1>3 DEF HttpHeader, SelectSoftap, TypeOK, TransportTypeOK, HttpTypeOK,
     Transports, SecStates, Provisioning, NoRequest, transportVars, bleVars,
     httpVars, sessionVars
<1>. QED
  BY <1>1, <1>2, <1>3 DEF HttpPhone

LEMMA NextArbitration ==
    ASSUME TypeOK, ArbitrationInv, [Next]_vars PROVE ArbitrationInv'
<1>1. CASE Run
  BY <1>1 DEF Run, transportVars, bleVars, httpVars, ArbitrationInv, WorkersInside,
     ServiceInside, ListenerInside, HandshakeAfterChoice, LastRequest
<1>2. CASE AppCancel
  BY <1>2 DEF AppCancel, Cancel, CancelFrom, CancelIsr, ShutSockets, bleVars, httpVars,
     sessionVars, ArbitrationInv, WorkersInside, ServiceInside, ListenerInside,
     HandshakeAfterChoice, LastRequest
<1>3. CASE Tick
  BY <1>3, ArbitrationFrame DEF Tick, arbVars, transportVars, httpVars
<1>4. CASE UNCHANGED vars
  BY <1>4, ArbitrationFrame DEF vars, arbVars, transportVars, bleVars, httpVars,
     sessionVars
<1>. QED
  BY <1>1, <1>2, <1>3, <1>4, ControllerArbitration, RoutineArbitration,
     SysWorkArbitration, BleTimersArbitration, WorkersArbitration,
     BlePhoneArbitration, HttpPhoneArbitration DEF Next, Device, Outside

\* The arbitration invariant: handshakes only after a choice, over BLE only when
\* BLE has won, and at most one request left in the HTTP thread that lost.
THEOREM Arbitration == Spec => []ArbitrationInv
<1>1. Init => ArbitrationInv
  BY DEF Init, TransportInit, BleInit, HttpInit, Transports, ArbitrationInv,
     WorkersInside, ServiceInside, ListenerInside, HandshakeAfterChoice, LastRequest
<1>2. TypeOK /\ ArbitrationInv /\ [Next]_vars => ArbitrationInv'
  BY NextArbitration
<1>. QED
  BY <1>1, <1>2, TypeCorrect, PTL DEF Spec

\* Credentials can be sent only over the transport the session is committed to,
\* though esp_prov_try_select_softap does not tell its caller who has won.
THEOREM OneTransportHolds == Spec => []OneTransport
<1>1. TypeOK /\ ArbitrationInv => OneTransport
  BY DEF TypeOK, TransportTypeOK, Transports, ArbitrationInv, HandshakeAfterChoice,
     LastRequest, OneTransport
<1>. QED
  BY <1>1, TypeCorrect, Arbitration, PTL

\* http_server_thread never polls a listening socket that the routine has
\* closed: the routine closes it only after it has joined the thread.
THEOREM ListenerHolds == Spec => []ListenerOutlivesWorker
<1>1. ArbitrationInv => ListenerOutlivesWorker
  BY DEF ArbitrationInv, ListenerInside, ListenerOutlivesWorker
<1>. QED
  BY <1>1, Arbitration, PTL

-------------------------------------------------------------------------------
(* The choice is final: only BLE's selection, SoftAP's selection and the   *)
(* set-up of the next session write it.                                    *)

KeepsChoice == choice # "NONE" => choice' = choice

LEMMA SelectKeepsChoice == SelectBle \/ SelectSoftap => KeepsChoice
BY DEF SelectBle, SelectSoftap, KeepsChoice

LEMMA RoutineKeepsChoice == Routine => KeepsChoice \/ rt = "choose"
<1> SUFFICES ASSUME Routine PROVE KeepsChoice \/ rt = "choose"
  OBVIOUS
<1> USE DEF KeepsChoice, transportVars
<1>1. CASE RtChoose
  BY <1>1 DEF RtChoose, Goto
<1>2. CASE RtSetup \/ RtSettled \/ RtDhcp \/ RtAp \/ RtPrescan \/ RtListen
  BY <1>2 DEF RtSetup, RtSettled, RtDhcp, RtAp, RtPrescan, RtListen
<1>3. CASE RtStartHttp \/ RtStartDns \/ RtStartBle
  BY <1>3 DEF RtStartHttp, RtStartDns, RtStartBle
<1>4. CASE RtDone \/ RtStopped \/ RtJoin
  BY <1>4 DEF RtDone, RtStopped, Leave, RtJoin
<1>5. CASE RtStop \/ RtCleanup \/ RtReset
  BY <1>5 DEF RtStop, RtCleanup, RtReset
<1>. QED
  BY <1>1, <1>2, <1>3, <1>4, <1>5 DEF Routine

LEMMA WorkKeepsChoice == SysWork \/ BleTimersFire => KeepsChoice
BY DEF SysWork, BleTimersFire, SysJoined, SysSoftapShutdown, SysBleStop, SysAbortNet,
   BleWork, AdvRestartWork, IdleCancels, IdleIgnored, BleTimers, AdvTimerFires,
   IdleTimerFires, KeepsChoice, transportVars

LEMMA WorkersKeepChoice == HttpRuns \/ DnsRuns => KeepsChoice
BY DEF HttpRuns, DnsRuns, HttpThread, HttpExit, HttpHangUp, HttpPlain, HttpSession,
   HttpNotReady, HttpNoEntropy, HttpScan, HttpConfig, HttpSignal, DnsExit,
   KeepsChoice, transportVars

LEMMA PhonesKeepChoice == BlePhone \/ HttpPhone => KeepsChoice
<1>1. BlePhone => KeepsChoice
  BY SelectKeepsChoice DEF BlePhone, BleConnect, BleDisconnect, BleStrayLeaves,
     BleWriteSession, BleWriteOther, BleWriteConfig, BleRead, KeepsChoice, transportVars
<1>2. HttpPhone => KeepsChoice
  BY SelectKeepsChoice DEF HttpPhone, HttpAccept, HttpHangUp, HttpHeader,
     KeepsChoice, transportVars
<1>. QED
  BY <1>1, <1>2

\* Once a transport has won, no phone, worker, work item or cancel call makes the
\* other one win: esp_prov_try_select_ble and _softap only choose from none.
THEOREM ChoiceFinal == Spec => ChoiceIsFinal
<1>1. [Next]_vars => [choice # "NONE" => choice' = choice \/ rt = "choose"]_vars
  <2> SUFFICES ASSUME Next PROVE KeepsChoice \/ rt = "choose"
    BY DEF KeepsChoice
  <2>1. CASE Controller \/ Run \/ AppCancel \/ Tick
    BY <2>1 DEF Controller, Joined, ReturnToCaller, Expire, GiveUp, Run, AppCancel,
       Tick, KeepsChoice, transportVars
  <2>. QED
    BY <2>1, RoutineKeepsChoice, WorkKeepsChoice, WorkersKeepChoice,
       PhonesKeepChoice DEF Next, Device, Outside
<1>. QED
  BY <1>1, PTL DEF Spec, ChoiceIsFinal
===============================================================================
