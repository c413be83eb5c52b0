------------------------------- MODULE ProvHttp -------------------------------
(***************************************************************************)
(* The SoftAP workers of esp_prov_run.c: prov-http, a single thread that   *)
(* accepts one TCP client at a time and answers its requests one by one,   *)
(* and prov-dns, the captive name server.                                  *)
(*                                                                         *)
(* http is the program counter of prov-http:                               *)
(*   down    the thread does not exist, or has returned                    *)
(*   accept  at the top of the accept loop, polling the listeners          *)
(*   head    http_handle_client waits for the header of a request          *)
(*   req     a header was read: the request is being received and handled  *)
(*   sent    a "connected" answer was handed to the socket; the end of the *)
(*           session is not signalled yet                                  *)
(* The Bluetooth RX thread, the workqueue, the routine and a cancelling    *)
(* thread run between any two of these.                                    *)
(***************************************************************************)
EXTENDS ProvTransport

VARIABLES
    http,    \* where prov-http is
    req,     \* the request it handles, or NoRequest
    fresh,   \* no POST has been handled on this TCP connection yet
    cookie,  \* s_have_cookie: a security session was opened over HTTP
    dns      \* prov-dns runs

httpVars == <<http, req, fresh, cookie, dns>>

NoRequest == "none"

\* What a phone (or its captive-portal probe) may ask for.  probe: a captive
\* probe, or GET of an unknown page.  post: POST to an unknown page.  proto:
\* GET or POST /proto-ver.  cmd0, cmd1: POST /prov-session.  scan, set, apply,
\* status: POST /prov-scan and /prov-config.
Provisioning == {"proto", "cmd0", "cmd1", "scan", "set", "apply", "status"}
Requests == Provisioning \cup {"probe", "post"}

HttpTypeOK ==
    /\ http \in {"down", "accept", "head", "req", "sent"}
    /\ req \in Requests \cup {NoRequest}
    /\ fresh \in BOOLEAN
    /\ cookie \in BOOLEAN
    /\ dns \in BOOLEAN

HttpInit ==
    /\ http = "down"
    /\ req = NoRequest
    /\ fresh = FALSE
    /\ cookie = FALSE
    /\ dns = FALSE

-------------------------------------------------------------------------------
(* The accept loop.                                                        *)

\* A client connects while the loop polls.
HttpAccept ==
    /\ http = "accept" /\ ~Abort
    /\ listener = "open"
    /\ http' = "head"
    /\ fresh' = TRUE
    /\ UNCHANGED <<sharedVars, transportVars, req, cookie, dns>>

\* The loop sees the abort, or the poll fails: the thread returns.
HttpExit ==
    /\ http = "accept"
    /\ Abort \/ "poll" \in Faults
    /\ http' = "down"
    /\ UNCHANGED <<sharedVars, transportVars, req, fresh, cookie, dns>>

\* The connection ends and its socket is closed: the peer went away, or the
\* header or the body read sees the abort.
HttpHangUp ==
    /\ http \in {"head", "req"}
    /\ http' = "accept"
    /\ req' = NoRequest
    /\ UNCHANGED <<sharedVars, transportVars, fresh, cookie, dns>>

-------------------------------------------------------------------------------
(* One request: http_handle_client.                                        *)

\* A header is read.  Data that was already there is taken even if the session
\* has been aborted since the last look.
HttpHeader(r) ==
    /\ http = "head"
    /\ http' = "req"
    /\ req' = r
    /\ \/ r \in Provisioning /\ SelectSoftap
       \/ r \notin Provisioning /\ UNCHANGED <<choice, pending>>
    /\ UNCHANGED <<sharedVars, abandoned, sec, listener, fresh, cookie, dns>>

\* Where the thread goes after a request: the loop looks at the abort first.
NextRequest == http' = IF Abort THEN "accept" ELSE "head"

\* ensure_session: the first POST of a connection keeps the security session of
\* an earlier connection only if it shows its cookie; else a new one is opened.
\* s is the state of the context from which the request is then handled.
EnsureSession(s) ==
    /\ fresh' = FALSE
    /\ \/ /\ ~fresh \/ cookie
          /\ s = sec["SOFTAP"]
          /\ UNCHANGED cookie
       \/ /\ fresh
          /\ s = "cmd0"
          /\ cookie' = TRUE

\* GET, and /proto-ver: answered without a security session.  The connection of
\* a captive probe is closed after the answer.
HttpPlain ==
    /\ http = "req"
    /\ req \in {"probe", "proto"}
    /\ req' = NoRequest
    /\ NextRequest \/ (req = "probe" /\ http' = "accept")
    /\ UNCHANGED <<sharedVars, transportVars, fresh, cookie, dns>>

\* /prov-session, and a POST that is answered 404.
HttpSession ==
    /\ http = "req"
    /\ req \in {"cmd0", "cmd1", "post"}
    /\ req' = NoRequest
    /\ \E s \in SecStates :
          /\ EnsureSession(s)
          /\ \E t \in SecAfter(s, req) : sec' = [sec EXCEPT !["SOFTAP"] = t]
    /\ NextRequest
    /\ UNCHANGED <<sharedVars, choice, abandoned, listener, pending, dns>>

\* /prov-scan and /prov-config while the handshake is not done: no answer, the
\* connection is closed.
HttpNotReady ==
    /\ http = "req"
    /\ req \in {"scan", "set", "apply", "status"}
    /\ req' = NoRequest
    /\ \E s \in SecStates \ {"done"} :
          /\ EnsureSession(s)
          /\ sec' = [sec EXCEPT !["SOFTAP"] = s]
    /\ http' = "accept"
    /\ UNCHANGED <<sharedVars, choice, abandoned, listener, pending, dns>>

\* A POST whose new security session cannot be opened for want of entropy: no
\* answer.  The previous session is closed already.
HttpNoEntropy ==
    /\ http = "req"
    /\ req \notin {"probe", "proto"}
    /\ fresh
    /\ "rng" \in Faults
    /\ req' = NoRequest
    /\ sec' = [sec EXCEPT !["SOFTAP"] = "cmd0"]
    /\ http' = "accept"
    /\ UNCHANGED <<sharedVars, choice, abandoned, listener, pending, fresh, cookie,
                   dns>>

HttpScan ==
    /\ http = "req"
    /\ req = "scan"
    /\ req' = NoRequest
    /\ EnsureSession("done")
    /\ NextRequest
    /\ UNCHANGED <<sharedVars, transportVars, dns>>

\* /prov-config.  The answer is sent first; "connected" leads to the signal,
\* whether the answer reached the phone or not.
HttpConfig ==
    /\ http = "req"
    /\ req \in {"set", "apply", "status"}
    /\ req' = NoRequest
    /\ EnsureSession("done")
    /\ DispatchConfig(req)
    /\ \/ req = "status" /\ StatusConnected /\ http' = "sent"
       \/ ~(req = "status" /\ StatusConnected) /\ NextRequest
    /\ UNCHANGED <<stop, finished, done, out, transportVars, dns>>

\* The signal.  The loop then sees that the session is finished.
HttpSignal ==
    /\ http = "sent"
    /\ SignalFinished
    /\ http' = "accept"
    /\ UNCHANGED <<stop, cred, haveCred, apply, transportVars, req, fresh, cookie,
                   dns>>

-------------------------------------------------------------------------------
\* prov-dns returns when it sees the abort; it may fail to open its socket.
DnsExit ==
    /\ dns
    /\ Abort \/ "dns" \in Faults
    /\ dns' = FALSE
    /\ UNCHANGED <<sharedVars, transportVars, http, req, fresh, cookie>>

HttpPhone ==
    \/ HttpAccept
    \/ HttpHangUp
    \/ \E r \in Requests : HttpHeader(r)

\* The steps the thread takes by itself.
HttpThread ==
    \/ HttpExit
    \/ Abort /\ HttpHangUp
    \/ HttpPlain
    \/ HttpSession
    \/ HttpNotReady
    \/ HttpNoEntropy
    \/ HttpScan
    \/ HttpConfig
    \/ HttpSignal
===============================================================================
