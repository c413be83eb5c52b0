------------------------------ MODULE ProvSockets ------------------------------
(***************************************************************************)
(* Who may use, shut and close the sockets of SoftAP provisioning: the     *)
(* routine, prov-http, prov-dns, a thread of the application that cancels  *)
(* and the work items, over one table of descriptors that the application  *)
(* uses as well.                                                           *)
(*                                                                         *)
(* A descriptor is a number.  Once its socket is closed the next one       *)
(* opened, by anybody, may have the same number, so everything turns on    *)
(* who still holds a number, and who gives it back.                        *)
(***************************************************************************)
EXTENDS Integers, FiniteSets

CONSTANTS
    Fds,         \* the descriptors of the table
    MaxSessions, \* bound: calls of the routine
    MaxCancels   \* bound: cancels in each session

ASSUME SocketsAssumption ==
    /\ Fds \subseteq Nat
    /\ MaxSessions \in Nat /\ MaxCancels \in Nat

NoFd == -1

\* Those who run prov_shutdown_*: the thread that cancels, the system work queue
\* and, for its own socket, prov-dns.
Closers == {"app", "sysq", "dns"}

\* The globals that hold a descriptor: s_http_cfd, s_listen_fd, s_tls_probe_fd and
\* s_dns_fd, by the socket they are for.
Slots == {"client", "listen", "tls", "dns"}

VARIABLES
    use,        \* use[fd]: what the descriptor is open for, or "free"
    shut,       \* the descriptors that were shut since they were opened
    slot,       \* slot[s]: the global for s
    routine,    \* where esp_prov_routine_run is
    listener,   \* its listen_fd
    http,       \* where prov-http is
    cfd,        \* the client it serves
    dns,        \* where prov-dns is
    dfd,        \* its fd
    closer,     \* closer[c]: where c is in prov_shutdown_*
    stop,       \* stop_flag, or the session is finished
    abandoned,  \* s_softap_abandoned
    queued,     \* work items submitted
    session,    \* number of the session
    cancels     \* cancels in it

routineVars == <<routine, listener>>
httpVars == <<http, cfd>>
dnsVars == <<dns, dfd>>
flagVars == <<stop, abandoned>>
boundVars == <<session, cancels>>
vars == <<use, shut, slot, routineVars, httpVars, dnsVars, closer, flagVars, queued,
          boundVars>>

MaybeFd == Fds \cup {NoFd}
Idle == [at |-> "idle", for |-> "client", fd |-> NoFd, same |-> TRUE]

TypeOK ==
    /\ use \in [Fds -> Slots \cup {"probe", "app", "free"}]
    /\ shut \subseteq Fds
    /\ slot \in [Slots -> MaybeFd]
    /\ routine \in {"out", "settle", "tls", "start", "loop", "join", "joindns",
                    "forget", "closetls", "forgettls", "close"}
    /\ listener \in MaybeFd
    /\ http \in {"gone", "check", "poll", "probe", "accept", "store", "serve", "take", "close"}
    /\ cfd \in MaybeFd
    /\ dns \in {"gone", "open", "store", "loop", "close"}
    /\ dfd \in MaybeFd
    /\ closer \in [Closers -> [at : {"idle", "load", "shut", "take", "close"},
                               for : Slots, fd : MaybeFd, same : BOOLEAN]]
    /\ stop \in BOOLEAN /\ abandoned \in BOOLEAN
    /\ queued \subseteq {"softap", "abort"}
    /\ session \in 0 .. MaxSessions
    /\ cancels \in 0 .. MaxCancels
    /\ http \in {"probe", "store", "serve", "close"} => cfd \in Fds
    /\ dns \in {"store", "loop", "close"} => dfd \in Fds
    /\ \A c \in Closers : closer[c].at \in {"shut", "take", "close"} => closer[c].fd \in Fds
    /\ routine \notin {"out", "settle"} => listener \in Fds

Init ==
    /\ use = [fd \in Fds |-> "free"]
    /\ shut = {}
    /\ slot = [s \in Slots |-> NoFd]
    /\ routine = "out" /\ listener = NoFd
    /\ http = "gone" /\ cfd = NoFd
    /\ dns = "gone" /\ dfd = NoFd
    /\ closer = [c \in Closers |-> Idle]
    /\ stop = FALSE /\ abandoned = FALSE
    /\ queued = {}
    /\ session = 0 /\ cancels = 0

-------------------------------------------------------------------------------
\* The descriptor table of Zephyr, which is external: it gives the lowest number
\* that is free.

Opens(fd, for) ==
    /\ use[fd] = "free"
    /\ \A lower \in Fds : lower < fd => use[lower] # "free"
    /\ use' = [use EXCEPT ![fd] = for]
    /\ shut' = shut \ {fd}

\* A closer that still holds the number holds it in vain from now on.
Closes(fd) ==
    /\ use' = [use EXCEPT ![fd] = "free"]
    /\ shut' = shut \ {fd}

Outlived(fd, c) == [c EXCEPT !.same = c.same /\ c.fd # fd]

\* zsock_close by a thread that is not in prov_shutdown_*.
Frees(fd) ==
    /\ Closes(fd)
    /\ closer' = [c \in Closers |-> Outlived(fd, closer[c])]

AppOpens ==
    /\ \A fd \in Fds : use[fd] # "app"
    /\ \E fd \in Fds : Opens(fd, "app")
    /\ UNCHANGED <<slot, routineVars, httpVars, dnsVars, closer, flagVars, queued,
                   boundVars>>

AppCloses(fd) ==
    /\ use[fd] = "app"
    /\ Frees(fd)
    /\ UNCHANGED <<slot, routineVars, httpVars, dnsVars, flagVars, queued, boundVars>>

-------------------------------------------------------------------------------
\* prov_shutdown_http_client_socket, prov_shutdown_prov_sockets and
\* prov_shutdown_dns_socket.

After(s) == CASE s = "client" -> "listen" [] s = "listen" -> "tls" [] OTHER -> "dns"

Starts(c, s) == [closer EXCEPT ![c] = [Idle EXCEPT !.at = "load", !.for = s]]

\* The next socket, or the end of prov_shutdown_*.
Onward(c) ==
    IF closer[c].for = "dns" THEN Idle
    ELSE [Idle EXCEPT !.at = "load", !.for = After(closer[c].for)]

\* What the end of prov_shutdown_* is followed by: prov_cancel_apply submits the
\* abort work item, prov-dns ends.
Ends(c) ==
    LET last == closer'[c].at = "idle" IN
    /\ queued' = IF last /\ c = "app" THEN queued \cup {"abort"} ELSE queued
    /\ IF last /\ c = "dns" THEN dns' = "gone" /\ dfd' = NoFd ELSE UNCHANGED dnsVars

Load(c) ==
    /\ closer[c].at = "load"
    /\ LET fd == slot[closer[c].for] IN
       closer' = [closer EXCEPT ![c] =
                      IF fd = NoFd THEN Onward(c)
                      ELSE [@ EXCEPT !.at = "shut", !.fd = fd]]
    /\ Ends(c)
    /\ UNCHANGED <<use, shut, slot, routineVars, httpVars, flagVars, boundVars>>

\* The listeners are only shut.
Shut(c) ==
    /\ closer[c].at = "shut"
    /\ shut' = IF use[closer[c].fd] = "free" THEN shut ELSE shut \cup {closer[c].fd}
    /\ closer' = [closer EXCEPT ![c] =
                      IF closer[c].for \in {"listen", "tls"} THEN Onward(c)
                      ELSE [@ EXCEPT !.at = "take"]]
    /\ Ends(c)
    /\ UNCHANGED <<use, slot, routineVars, httpVars, flagVars, boundVars>>

MutantTake(c) ==
    /\ closer[c].at = "take"
    /\ slot' = [slot EXCEPT ![closer[c].for] = NoFd]
    /\ closer' = [closer EXCEPT ![c].at = "close"]
    /\ Ends(c)
    /\ UNCHANGED <<use, shut, routineVars, httpVars, flagVars, boundVars>>

\* atomic_cas: who finds the number still there may close it.
Take(c) ==
    /\ closer[c].at = "take"
    /\ IF slot[closer[c].for] = closer[c].fd
       THEN /\ slot' = [slot EXCEPT ![closer[c].for] = NoFd]
            /\ closer' = [closer EXCEPT ![c].at = "close"]
       ELSE /\ closer' = [closer EXCEPT ![c] = Onward(c)]
            /\ UNCHANGED slot
    /\ Ends(c)
    /\ UNCHANGED <<use, shut, routineVars, httpVars, flagVars, boundVars>>

Close(c) ==
    /\ closer[c].at = "close"
    /\ Closes(closer[c].fd)
    /\ closer' = [d \in Closers |-> IF d = c THEN Onward(c)
                                    ELSE Outlived(closer[c].fd, closer[d])]
    /\ Ends(c)
    /\ UNCHANGED <<slot, routineVars, httpVars, flagVars, boundVars>>

Closer(c) == Load(c) \/ Shut(c) \/ Take(c) \/ Close(c)

-------------------------------------------------------------------------------
\* Those who ask the session to stop.

Abort == stop \/ abandoned

MutantCancel ==
    /\ cancels < MaxCancels
    /\ cancels' = cancels + 1
    /\ \/ /\ closer["app"].at = "idle"
          /\ closer' = Starts("app", "client")
          /\ UNCHANGED queued
       \/ queued' = queued \cup {"abort"} /\ UNCHANGED closer
    /\ UNCHANGED <<use, shut, slot, routineVars, httpVars, dnsVars, flagVars, session>>

\* prov_cancel_apply raises the flag before it looks for sockets; from an interrupt
\* it only submits.
Cancel ==
    /\ cancels < MaxCancels
    /\ cancels' = cancels + 1
    /\ stop' = TRUE
    /\ \/ /\ closer["app"].at = "idle"
          /\ closer' = Starts("app", "client")
          /\ UNCHANGED queued
       \/ queued' = queued \cup {"abort"} /\ UNCHANGED closer
    /\ UNCHANGED <<use, shut, slot, routineVars, httpVars, dnsVars, abandoned, session>>

MutantSelectBle ==
    /\ routine \in {"loop", "join", "joindns"}
    /\ queued' = queued \cup {"softap"}
    /\ UNCHANGED <<use, shut, slot, routineVars, httpVars, dnsVars, closer, flagVars, boundVars>>

\* esp_prov_try_select_ble, while Bluetooth is up.
SelectBle ==
    /\ routine \in {"loop", "join", "joindns"}
    /\ ~abandoned
    /\ abandoned' = TRUE
    /\ queued' = queued \cup {"softap"}
    /\ UNCHANGED <<use, shut, slot, routineVars, httpVars, dnsVars, closer, stop, boundVars>>

\* softap_shutdown_work_fn and prov_abort_net_work_fn, one at a time; the joins
\* and esp_prov_ble_stop that follow only take time.
Work(w) ==
    /\ w \in queued /\ closer["sysq"].at = "idle"
    /\ queued' = queued \ {w}
    /\ closer' = Starts("sysq", "client")
    /\ UNCHANGED <<use, shut, slot, routineVars, httpVars, dnsVars, flagVars, boundVars>>

\* signal_finished, by a phone.
Finish ==
    /\ routine = "loop"
    /\ stop' = TRUE
    /\ UNCHANGED <<use, shut, slot, routineVars, httpVars, dnsVars, closer, abandoned,
                   queued, boundVars>>

-------------------------------------------------------------------------------
\* prov-http.

MutantHttpCheck ==
    /\ http = "check"
    /\ http' = IF stop THEN "gone" ELSE "poll"
    /\ UNCHANGED <<use, shut, slot, routineVars, cfd, dnsVars, closer, flagVars, queued,
                   boundVars>>

HttpCheck ==
    /\ http = "check"
    /\ http' = IF Abort THEN "gone" ELSE "poll"
    /\ UNCHANGED <<use, shut, slot, routineVars, cfd, dnsVars, closer, flagVars, queued,
                   boundVars>>

\* Nothing came, or poll fails; a connection to :443, which is only closed; or to
\* the listener.
HttpPoll ==
    /\ http = "poll"
    /\ \/ http' \in {"check", "gone", "accept"} /\ UNCHANGED <<use, shut, cfd>>
       \/ /\ slot["tls"] # NoFd /\ slot["tls"] \notin shut
          /\ \E fd \in Fds : Opens(fd, "probe") /\ cfd' = fd
          /\ http' = "probe"
    /\ UNCHANGED <<slot, routineVars, dnsVars, closer, flagVars, queued, boundVars>>

HttpProbe ==
    /\ http = "probe"
    /\ Frees(cfd)
    /\ cfd' = NoFd
    /\ http' \in {"check", "accept"}
    /\ UNCHANGED <<slot, routineVars, dnsVars, flagVars, queued, boundVars>>

HttpAccept ==
    /\ http = "accept"
    /\ \/ http' = "check" /\ UNCHANGED <<use, shut, cfd>>
       \/ /\ slot["listen"] \notin shut
          /\ \E fd \in Fds : Opens(fd, "client") /\ cfd' = fd
          /\ http' = "store"
    /\ UNCHANGED <<slot, routineVars, dnsVars, closer, flagVars, queued, boundVars>>

HttpStore ==
    /\ http = "store"
    /\ slot' = [slot EXCEPT !["client"] = cfd]
    /\ http' = "serve"
    /\ UNCHANGED <<use, shut, routineVars, cfd, dnsVars, closer, flagVars, queued, boundVars>>

\* http_handle_client goes by its own copy of the number.
HttpServed ==
    /\ http = "serve"
    /\ http' = "take"
    /\ UNCHANGED <<use, shut, slot, routineVars, cfd, dnsVars, closer, flagVars, queued,
                   boundVars>>

MutantHttpTake ==
    /\ http = "take"
    /\ http' = "close"
    /\ UNCHANGED slot
    /\ UNCHANGED <<use, shut, routineVars, cfd, dnsVars, closer, flagVars, queued,
                   boundVars>>

MutantHttpTakeBlind ==
    /\ http = "take"
    /\ slot' = [slot EXCEPT !["client"] = NoFd]
    /\ http' = "close"
    /\ cfd' = slot["client"]
    /\ UNCHANGED <<use, shut, routineVars, dnsVars, closer, flagVars, queued, boundVars>>

\* atomic_set: it closes only what it finds.
HttpTake ==
    /\ http = "take"
    /\ slot' = [slot EXCEPT !["client"] = NoFd]
    /\ http' = IF slot["client"] = NoFd THEN "check" ELSE "close"
    /\ cfd' = slot["client"]
    /\ UNCHANGED <<use, shut, routineVars, dnsVars, closer, flagVars, queued, boundVars>>

HttpClose ==
    /\ http = "close"
    /\ Frees(cfd)
    /\ cfd' = NoFd
    /\ http' = "check"
    /\ UNCHANGED <<slot, routineVars, dnsVars, flagVars, queued, boundVars>>

Http == HttpCheck \/ HttpPoll \/ HttpProbe \/ HttpAccept \/ HttpStore \/ HttpServed
        \/ HttpTake \/ HttpClose

-------------------------------------------------------------------------------
\* prov-dns.

DnsOpen ==
    /\ dns = "open"
    /\ \/ dns' = "gone" /\ UNCHANGED <<use, shut, dfd>>
       \/ /\ \E fd \in Fds : Opens(fd, "dns") /\ dfd' = fd
          /\ dns' = "store"
    /\ UNCHANGED <<slot, routineVars, httpVars, closer, flagVars, queued, boundVars>>

DnsStore ==
    /\ dns = "store"
    /\ slot' = [slot EXCEPT !["dns"] = dfd]
    /\ dns' = "loop"
    /\ UNCHANGED <<use, shut, routineVars, httpVars, dfd, closer, flagVars, queued, boundVars>>

MutantDnsEnds ==
    /\ dns = "loop" /\ Abort
    /\ dns' = "gone"
    /\ UNCHANGED <<use, shut, slot, routineVars, httpVars, dfd, closer, flagVars, queued,
                   boundVars>>

DnsEnds ==
    /\ dns = "loop" /\ Abort
    /\ dns' = "close"
    /\ closer' = Starts("dns", "dns")
    /\ UNCHANGED <<use, shut, slot, routineVars, httpVars, dfd, flagVars, queued, boundVars>>

Dns == DnsOpen \/ DnsStore \/ DnsEnds

\* Whose recv may be waiting on a socket that is not its own.
HttpAstray == http = "serve" /\ use[cfd] \notin {"client", "free"}
DnsAstray == dns = "loop" /\ use[dfd] \notin {"dns", "free"}

-------------------------------------------------------------------------------
\* esp_prov_routine_run.

RtBegin ==
    /\ routine = "out" /\ session < MaxSessions
    /\ http = "gone" /\ dns = "gone"
    /\ routine' = "settle"
    /\ slot' = [slot EXCEPT !["listen"] = NoFd, !["tls"] = NoFd]
    /\ stop' = FALSE /\ abandoned' = FALSE
    /\ session' = session + 1 /\ cancels' = 0
    /\ UNCHANGED <<use, shut, listener, httpVars, dnsVars, closer, queued>>

\* Nobody is in the middle of prov_shutdown_* for longer than the settle time and
\* the first scan.
Settled == queued = {} /\ \A c \in Closers : closer[c].at = "idle"

RtSocket ==
    /\ routine = "settle" /\ Settled
    /\ \/ /\ \E fd \in Fds : Opens(fd, "listen") /\ listener' = fd
          /\ routine' = "tls"
       \/ routine' = "out" /\ UNCHANGED <<use, shut, listener>>
    /\ UNCHANGED <<slot, httpVars, dnsVars, closer, flagVars, queued, boundVars>>

\* bind or listen fails; or the socket for :443 is there, or is not.
RtTls ==
    /\ routine = "tls"
    /\ \/ routine' = "close" /\ UNCHANGED <<use, shut, slot>>
       \/ routine' = "start" /\ UNCHANGED <<use, shut, slot>>
       \/ /\ \E fd \in Fds : Opens(fd, "tls") /\ slot' = [slot EXCEPT !["tls"] = fd]
          /\ routine' = "start"
    /\ UNCHANGED <<listener, httpVars, dnsVars, closer, flagVars, queued, boundVars>>

RtStart ==
    /\ routine = "start"
    /\ slot' = [slot EXCEPT !["listen"] = listener]
    /\ http' = "check" /\ dns' = "open"
    /\ routine' = "loop"
    /\ UNCHANGED <<use, shut, listener, cfd, dfd, closer, flagVars, queued, boundVars>>

RtLeave ==
    /\ routine = "loop" /\ stop
    /\ routine' = "join"
    /\ UNCHANGED <<use, shut, slot, listener, httpVars, dnsVars, closer, flagVars, queued,
                   boundVars>>

\* The joins are bounded, and longer than a worker takes that waits on its own
\* socket.
RtJoin ==
    /\ \/ routine = "join" /\ (http = "gone" \/ HttpAstray) /\ routine' = "joindns"
       \/ routine = "joindns" /\ (dns = "gone" \/ DnsAstray) /\ routine' = "forget"
    /\ UNCHANGED <<use, shut, slot, listener, httpVars, dnsVars, closer, flagVars, queued,
                   boundVars>>

RtForget ==
    /\ \/ /\ routine = "forget" /\ routine' = "closetls"
          /\ slot' = [slot EXCEPT !["listen"] = NoFd]
       \/ /\ routine = "forgettls" /\ routine' = "close"
          /\ slot' = [slot EXCEPT !["tls"] = NoFd]
    /\ UNCHANGED <<use, shut, listener, httpVars, dnsVars, closer, flagVars, queued,
                   boundVars>>

RtCloseTls ==
    /\ routine = "closetls"
    /\ IF slot["tls"] = NoFd
       THEN routine' = "close" /\ UNCHANGED <<use, shut, closer>>
       ELSE routine' = "forgettls" /\ Frees(slot["tls"])
    /\ UNCHANGED <<slot, listener, httpVars, dnsVars, flagVars, queued, boundVars>>

RtClose ==
    /\ routine = "close"
    /\ Frees(listener)
    /\ listener' = NoFd
    /\ routine' = "out"
    /\ UNCHANGED <<slot, httpVars, dnsVars, flagVars, queued, boundVars>>

Routine == RtBegin \/ RtSocket \/ RtTls \/ RtStart \/ RtLeave \/ RtJoin \/ RtForget
           \/ RtCloseTls \/ RtClose

-------------------------------------------------------------------------------
Next ==
    \/ Routine \/ Http \/ Dns
    \/ \E c \in Closers : Closer(c)
    \/ Cancel \/ SelectBle \/ Finish \/ \E w \in {"softap", "abort"} : Work(w)
    \/ AppOpens \/ \E fd \in Fds : AppCloses(fd)

Spec == Init /\ [][Next]_vars

\* A recv on the thread's own socket comes back within half a second; on another's
\* it need not.
FairSpec ==
    /\ Spec
    /\ WF_vars(Http /\ ~HttpAstray)
    /\ WF_vars(Dns /\ ~DnsAstray)
    /\ WF_vars(Closer("dns"))

-------------------------------------------------------------------------------
\* A global names an open socket of its own kind, whoever closed what in between.
SlotsNameOwn ==
    /\ slot["client"] # NoFd => use[slot["client"]] = "client"
    /\ slot["dns"] # NoFd => use[slot["dns"]] = "dns"
    /\ slot["listen"] # NoFd => use[slot["listen"]] = "listen"
    /\ slot["tls"] # NoFd /\ routine # "forgettls" => use[slot["tls"]] = "tls"

\* The compare-and-set never takes a newer socket that has the old one's number.
TakesWhatItShut ==
    \A c \in Closers :
        closer[c].at = "take" /\ slot[closer[c].for] = closer[c].fd => closer[c].same

\* From the settle time until a session is told to stop, nobody shuts its sockets,
\* and its workers read from no socket of another: not even what was left of the
\* session before.
LiveUntilStopped ==
    \/ Abort \/ routine = "settle"
    \/ /\ \A fd \in shut : use[fd] \in {"app", "free"}
       /\ ~HttpAstray /\ ~DnsAstray

\* When the routine has returned and whoever cancelled is done, everything that was
\* opened is closed: the next session finds its ports free.
NothingLeft ==
    routine = "out" /\ (\A c \in Closers : closer[c].at = "idle")
        => \A fd \in Fds : use[fd] \in {"app", "free"}

\* No close of the library hits a socket of the application.
AppKeepsItsSockets ==
    [][\A fd \in Fds : use[fd] = "app" /\ use'[fd] # "app" => AppCloses(fd)]_vars

\* Told to stop, both workers come to an end, but for one whose number the
\* application has been given.
StopEndsWorkers == Abort ~> (HttpAstray \/ DnsAstray \/ (http = "gone" /\ dns = "gone"))
===============================================================================
