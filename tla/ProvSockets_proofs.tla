--------------------------- MODULE ProvSockets_proofs --------------------------
(***************************************************************************)
(* Theorems about the sockets, for every table of descriptors and any      *)
(* number of sessions and cancels.                                         *)
(***************************************************************************)
EXTENDS ProvSockets, TLAPS

-------------------------------------------------------------------------------
(* Types.                                                                  *)

CloserStates == [at : {"idle", "load", "shut", "take", "close"},
                 for : Slots, fd : MaybeFd, same : BOOLEAN]

\* How the closers change: to the next socket, or in same only.
LEMMA NextCloser ==
    ASSUME TypeOK, NEW c \in Closers
    PROVE  /\ Onward(c) \in CloserStates
           /\ Onward(c).at \in {"idle", "load"} /\ Onward(c).same
           /\ Onward(c).at = "load" => Onward(c).for \in {"listen", "tls", "dns"}
           /\ Onward(c).at = "load" => closer[c].for # "dns"
BY DEF TypeOK, Onward, Idle, After, Slots, MaybeFd, CloserStates, Closers

LEMMA StartsTypes ==
    ASSUME TypeOK, NEW c \in Closers, NEW s \in Slots, closer' = Starts(c, s)
    PROVE  /\ closer' \in [Closers -> CloserStates]
           /\ closer'[c].at = "load" /\ closer'[c].for = s /\ closer'[c].same
           /\ \A d \in Closers \ {c} : closer'[d] = closer[d]
<1>. DEFINE r == [Idle EXCEPT !.at = "load", !.for = s]
<1>1. r \in CloserStates /\ r.at = "load" /\ r.for = s /\ r.same
  BY DEF Idle, CloserStates, MaybeFd, Slots
<1>2. closer \in [Closers -> CloserStates] /\ closer' = [closer EXCEPT ![c] = r]
  BY DEF TypeOK, CloserStates, Starts
<1>. HIDE DEF r
<1>. QED BY <1>1, <1>2

LEMMA OutlivedCloser ==
    ASSUME NEW fd, NEW r \in CloserStates
    PROVE  /\ Outlived(fd, r) \in CloserStates
           /\ Outlived(fd, r).at = r.at /\ Outlived(fd, r).for = r.for
           /\ Outlived(fd, r).fd = r.fd
           /\ Outlived(fd, r).same = (r.same /\ r.fd # fd)
BY DEF Outlived, CloserStates

LEMMA FreesTypes ==
    ASSUME TypeOK, NEW fd \in Fds, Frees(fd)
    PROVE  /\ use' \in [Fds -> Slots \cup {"probe", "app", "free"}]
           /\ shut' \subseteq Fds
           /\ closer' \in [Closers -> CloserStates]
           /\ \A c \in Closers : /\ closer'[c].at = closer[c].at
                                 /\ closer'[c].for = closer[c].for
                                 /\ closer'[c].fd = closer[c].fd
<1>1. closer \in [Closers -> CloserStates]
  BY DEF TypeOK, CloserStates
<1>. QED BY <1>1, OutlivedCloser DEF Frees, Closes, TypeOK

LEMMA OpensTypes ==
    ASSUME TypeOK, NEW fd \in Fds, NEW for \in Slots \cup {"probe", "app"}, Opens(fd, for)
    PROVE  /\ use' \in [Fds -> Slots \cup {"probe", "app", "free"}]
           /\ shut' \subseteq Fds
BY DEF Opens, TypeOK

LEMMA InitTypes == Init => TypeOK
<1>. SUFFICES ASSUME Init PROVE TypeOK
  OBVIOUS
<1>1. Idle \in CloserStates /\ Idle.at = "idle"
  BY DEF Idle, CloserStates, Slots, MaybeFd
<1>2. closer \in [Closers -> CloserStates] /\ \A c \in Closers : closer[c].at = "idle"
  BY <1>1 DEF Init
<1>3. slot \in [Slots -> MaybeFd] /\ listener \in MaybeFd /\ cfd \in MaybeFd
      /\ dfd \in MaybeFd
  BY DEF Init, MaybeFd
<1>4. session \in 0 .. MaxSessions /\ cancels \in 0 .. MaxCancels
  BY SocketsAssumption DEF Init, SocketsAssumption
<1>. QED
  BY <1>2, <1>3, <1>4 DEF Init, TypeOK, CloserStates

LEMMA CloserTypes ==
    ASSUME TypeOK, NEW c \in Closers, Closer(c)
    PROVE  TypeOK'
<1>0. /\ closer \in [Closers -> CloserStates]
      /\ closer[c] \in CloserStates
      /\ Onward(c) \in CloserStates /\ Onward(c).at \in {"idle", "load"}
  BY NextCloser DEF TypeOK, CloserStates
<1>1. /\ dns' \in {"gone", "open", "store", "loop", "close"} /\ dfd' \in MaybeFd
      /\ dns' \in {"store", "loop", "close"} => dfd' \in Fds
      /\ queued' \subseteq {"softap", "abort"}
  BY DEF Closer, Load, Shut, Take, Close, Ends, TypeOK, dnsVars, MaybeFd
<1>2. CASE Load(c)
  BY ZenonT(60), <1>0, <1>1, <1>2 DEF Load, TypeOK, CloserStates, MaybeFd, routineVars, httpVars,
     flagVars, boundVars
<1>3. CASE Shut(c)
  BY <1>0, <1>1, <1>3 DEF Shut, TypeOK, CloserStates, MaybeFd, routineVars, httpVars,
     flagVars, boundVars
<1>4. CASE Take(c)
  BY <1>0, <1>1, <1>4 DEF Take, TypeOK, CloserStates, MaybeFd, routineVars, httpVars,
     flagVars, boundVars
<1>5. CASE Close(c)
  <2>1. \A d \in Closers \ {c} : /\ closer'[d] \in CloserStates
                                 /\ closer'[d].at = closer[d].at
                                 /\ closer'[d].fd = closer[d].fd
    BY <1>0, <1>5, OutlivedCloser DEF Close
  <2>2. closer' \in [Closers -> CloserStates] /\ closer'[c] = Onward(c)
    BY <1>0, <1>5, <2>1 DEF Close
  <2>3. use' \in [Fds -> Slots \cup {"probe", "app", "free"}] /\ shut' \subseteq Fds
    BY <1>5 DEF Close, Closes, TypeOK
  <2>. QED
    BY <1>0, <1>1, <1>5, <2>1, <2>2, <2>3 DEF Close, TypeOK, CloserStates, routineVars,
       httpVars, flagVars, boundVars
<1>. QED BY <1>2, <1>3, <1>4, <1>5 DEF Closer

LEMMA AskTypes ==
    ASSUME TypeOK, Cancel \/ SelectBle \/ Finish \/ \E w \in {"softap", "abort"} : Work(w)
    PROVE  TypeOK'
<1>. USE DEF TypeOK, routineVars, httpVars, dnsVars, flagVars, boundVars
<1>1. CASE Cancel
  <2>1. CASE closer' = Starts("app", "client") /\ UNCHANGED queued
    <3>. "app" \in Closers /\ "client" \in Slots
      BY DEF Closers, Slots
    <3>. QED
      BY <1>1, <2>1, StartsTypes, SocketsAssumption DEF Cancel, SocketsAssumption,
         CloserStates
  <2>2. CASE queued' = queued \cup {"abort"} /\ UNCHANGED closer
    BY <1>1, <2>2, SocketsAssumption DEF Cancel, SocketsAssumption
  <2>. QED BY <1>1, <2>1, <2>2 DEF Cancel
<1>2. CASE SelectBle
  BY <1>2 DEF SelectBle
<1>3. CASE Finish
  BY <1>3 DEF Finish
<1>4. ASSUME NEW w \in {"softap", "abort"}, Work(w) PROVE TypeOK'
  <2>. "sysq" \in Closers /\ "client" \in Slots
    BY DEF Closers, Slots
  <2>. QED
    BY <1>4, StartsTypes DEF Work, CloserStates
<1>. QED BY <1>1, <1>2, <1>3, <1>4

LEMMA AppTypes ==
    ASSUME TypeOK, AppOpens \/ \E fd \in Fds : AppCloses(fd)
    PROVE  TypeOK'
<1>1. CASE AppOpens
  BY <1>1, OpensTypes DEF AppOpens, TypeOK, routineVars, httpVars, dnsVars, flagVars,
     boundVars
<1>2. ASSUME NEW fd \in Fds, AppCloses(fd) PROVE TypeOK'
  BY <1>2, FreesTypes DEF AppCloses, TypeOK, CloserStates, routineVars, httpVars, dnsVars,
     flagVars, boundVars
<1>. QED BY <1>1, <1>2

LEMMA HttpTypes ==
    ASSUME TypeOK, Http
    PROVE  TypeOK'
<1>. USE DEF TypeOK, MaybeFd, routineVars, httpVars, dnsVars, flagVars, boundVars
<1>1. CASE HttpCheck \/ HttpServed
  BY ZenonT(60), <1>1 DEF HttpCheck, HttpServed
<1>5. CASE HttpStore
  BY <1>5 DEF HttpStore
<1>6. CASE HttpTake
  BY <1>6 DEF HttpTake, Slots
<1>2. CASE HttpPoll
  BY <1>2, OpensTypes DEF HttpPoll, Slots
<1>3. CASE HttpProbe \/ HttpClose
  <2>. cfd \in Fds /\ Frees(cfd)
    BY <1>3 DEF HttpProbe, HttpClose
  <2>1. /\ use' \in [Fds -> Slots \cup {"probe", "app", "free"}] /\ shut' \subseteq Fds
        /\ closer' \in [Closers -> CloserStates]
        /\ \A c \in Closers : closer'[c].at = closer[c].at /\ closer'[c].fd = closer[c].fd
    BY FreesTypes
  <2>. QED
    BY ZenonT(60), <1>3, <2>1 DEF HttpProbe, HttpClose, CloserStates
<1>4. CASE HttpAccept
  BY <1>4, OpensTypes DEF HttpAccept, Slots
<1>. QED BY <1>1, <1>2, <1>3, <1>4, <1>5, <1>6 DEF Http

LEMMA DnsTypes ==
    ASSUME TypeOK, Dns
    PROVE  TypeOK'
<1>. USE DEF TypeOK, MaybeFd, routineVars, httpVars, dnsVars, flagVars, boundVars
<1>1. CASE DnsOpen
  BY <1>1, OpensTypes DEF DnsOpen, Slots
<1>2. CASE DnsStore
  BY <1>2 DEF DnsStore, Slots
<1>3. CASE DnsEnds
  <2>. "dns" \in Closers /\ "dns" \in Slots
    BY DEF Closers, Slots
  <2>. QED
    BY <1>3, StartsTypes DEF DnsEnds, CloserStates
<1>. QED BY <1>1, <1>2, <1>3 DEF Dns

LEMMA RoutineTypes ==
    ASSUME TypeOK, Routine
    PROVE  TypeOK'
<1>. USE DEF TypeOK, routineVars, httpVars, dnsVars, flagVars, boundVars
<1>1. CASE RtBegin
  <2>1. slot' \in [Slots -> MaybeFd]
    BY <1>1 DEF RtBegin, MaybeFd
  <2>2. session' \in 0 .. MaxSessions /\ cancels' \in 0 .. MaxCancels
    BY <1>1, SocketsAssumption DEF RtBegin, SocketsAssumption
  <2>. QED
    BY <1>1, <2>1, <2>2 DEF RtBegin
<1>2. CASE RtSocket
  BY <1>2, OpensTypes DEF RtSocket, Slots, MaybeFd
<1>3. CASE RtTls
  BY <1>3, OpensTypes DEF RtTls, Slots, MaybeFd
<1>4. CASE RtStart \/ RtForget
  <2>1. slot' \in [Slots -> MaybeFd]
    BY <1>4 DEF RtStart, RtForget, MaybeFd
  <2>. QED
    BY ZenonT(60), <1>4, <2>1 DEF RtStart, RtForget
<1>7. CASE RtLeave \/ RtJoin
  BY ZenonT(60), <1>7 DEF RtLeave, RtJoin
<1>5. CASE RtCloseTls
  <2>1. CASE slot["tls"] = NoFd
    BY <1>5, <2>1 DEF RtCloseTls
  <2>2. CASE slot["tls"] # NoFd
    BY <1>5, <2>2, FreesTypes DEF RtCloseTls, Slots, CloserStates, MaybeFd
  <2>. QED BY <2>1, <2>2
<1>6. CASE RtClose
  BY <1>6, FreesTypes DEF RtClose, CloserStates, MaybeFd
<1>. QED BY <1>1, <1>2, <1>3, <1>4, <1>5, <1>6, <1>7 DEF Routine

LEMMA TypesStep == TypeOK /\ [Next]_vars => TypeOK'
<1>1. CASE UNCHANGED vars
  BY <1>1 DEF vars, TypeOK, routineVars, httpVars, dnsVars, flagVars, boundVars
<1>. QED
  BY <1>1, CloserTypes, AskTypes, AppTypes, HttpTypes, DnsTypes, RoutineTypes DEF Next

\* Every variable has its type, and who is to close a descriptor has one.
THEOREM SocketTypes == Spec => []TypeOK
BY InitTypes, TypesStep, PTL DEF Spec

-------------------------------------------------------------------------------
(* Ownership: who holds the number of an open socket, in a global or in a  *)
(* variable of its own, and where everybody is meanwhile.                  *)

Holds(c) == closer[c].at \in {"shut", "take", "close"}
HoldsFor(c, s) == Holds(c) /\ closer[c].for = s
Closing(c, s) == closer[c].at = "close" /\ closer[c].for = s

\* What prov-http, prov-dns and the routine name is open, and for what they think.
HttpOwns ==
    /\ http = "probe" => use[cfd] = "probe"
    /\ http \in {"store", "close"} => use[cfd] = "client"
    /\ slot["client"] # NoFd =>
           http \in {"serve", "take"} /\ slot["client"] = cfd /\ use[cfd] = "client"

DnsOwns ==
    /\ dns = "store" => use[dfd] = "dns"
    /\ slot["dns"] # NoFd =>
           dns \in {"loop", "close"} /\ slot["dns"] = dfd /\ use[dfd] = "dns"

RoutineOwns ==
    /\ routine \notin {"out", "settle"} => use[listener] = "listen"
    /\ slot["listen"] # NoFd =>
           routine \in {"loop", "join", "joindns", "forget"} /\ slot["listen"] = listener
    /\ slot["tls"] # NoFd =>
           /\ routine \notin {"out", "settle", "tls", "close"}
           /\ routine # "forgettls" => use[slot["tls"]] = "tls"

\* A closer knows a number that is still of the kind it looked for, or that no global
\* of that kind holds any more; it never closes a listener.
CloserHolds(c) ==
    /\ closer[c].at = "load" => closer[c].same /\ closer[c].fd = NoFd
    /\ closer[c].at \in {"take", "close"} => closer[c].for \in {"client", "dns"}
    /\ HoldsFor(c, "client") =>
           /\ http \in {"serve", "take", "close", "check", "gone"}
           /\ http # "gone" => Abort
           /\ slot["client"] \in {NoFd, closer[c].fd}
    /\ HoldsFor(c, "dns") =>
           /\ dns \in {"loop", "close", "gone"}
           /\ slot["dns"] \in {NoFd, closer[c].fd}
    /\ closer[c].at \in {"shut", "take"} /\ closer[c].for \in {"client", "dns"} =>
           IF closer[c].same THEN use[closer[c].fd] = closer[c].for
                             ELSE slot[closer[c].for] = NoFd
    /\ closer[c].at = "close" =>
           /\ use[closer[c].fd] = closer[c].for
           /\ slot[closer[c].for] = NoFd
           /\ closer[c].for = "client" => http # "close"
           /\ \A d \in Closers : Closing(d, closer[c].for) => d = c

ClosersHold == \A c \in Closers : CloserHolds(c)

\* The workers are there, and the closers at work, only when the routine lets them.
Begun ==
    /\ routine \in {"settle", "tls", "start"} => http = "gone" /\ dns = "gone"
    /\ routine \in {"tls", "start"} =>
           \A c \in Closers : ~HoldsFor(c, "client") /\ ~HoldsFor(c, "dns")
    /\ closer["dns"].at # "idle" => dns = "close" /\ closer["dns"].for = "dns"

\* What the joins leave behind.
Ended ==
    /\ routine \in {"join", "joindns", "forget", "closetls", "forgettls"} => stop
    /\ routine \notin {"loop", "join"} =>
           /\ http \in {"gone", "serve", "take", "check"}
           /\ slot["client"] = NoFd
           /\ http # "gone" => Abort
    /\ routine \notin {"loop", "join", "joindns"} =>
           dns \in {"gone", "loop", "close"} /\ slot["dns"] = NoFd

\* Until a session is told to stop nobody is at its sockets.
Undisturbed ==
    ~Abort /\ routine # "settle" =>
        /\ queued = {} /\ \A c \in Closers : closer[c].at = "idle"
        /\ http \in {"serve", "take"} => slot["client"] = cfd
        /\ dns = "loop" => slot["dns"] = dfd
        /\ \A fd \in shut : use[fd] \in {"app", "free"}

\* Whatever is open is held by somebody who will close it.
NothingLost ==
    \A fd \in Fds :
        /\ use[fd] = "client" =>
              \/ slot["client"] = fd
              \/ http \in {"store", "close"} /\ cfd = fd
              \/ \E c \in Closers : Closing(c, "client") /\ closer[c].fd = fd
        /\ use[fd] = "dns" =>
              \/ slot["dns"] = fd
              \/ dns = "store" /\ dfd = fd
              \/ \E c \in Closers : Closing(c, "dns") /\ closer[c].fd = fd
        /\ use[fd] = "probe" => http = "probe" /\ cfd = fd
        /\ use[fd] = "listen" => routine \notin {"out", "settle"} /\ listener = fd
        /\ use[fd] = "tls" => routine # "forgettls" /\ slot["tls"] = fd

Inv == /\ HttpOwns /\ DnsOwns /\ RoutineOwns
       /\ ClosersHold /\ Begun /\ Ended /\ Undisturbed /\ NothingLost

LEMMA NoFdIsNone == NoFd \notin Fds
BY SocketsAssumption DEF SocketsAssumption, NoFd

LEMMA NamesAreFds ==
    ASSUME TypeOK
    PROVE  \A s \in {"client", "listen", "tls", "dns"} : slot[s] = NoFd \/ slot[s] \in Fds
BY DEF TypeOK, Slots, MaybeFd

LEMMA InitInv == Init => Inv
<1>. SUFFICES ASSUME Init PROVE Inv
  OBVIOUS
<1>1. Idle.at = "idle"
  BY DEF Idle
<1>2. /\ \A c \in Closers : closer[c].at = "idle"
      /\ \A fd \in Fds : use[fd] = "free"
      /\ \A s \in Slots : slot[s] = NoFd
  BY <1>1 DEF Init
<1>. QED
  BY <1>2 DEF Init, Inv, HttpOwns, DnsOwns, RoutineOwns, ClosersHold, CloserHolds, Begun,
     Ended,
     Undisturbed, NothingLost, HoldsFor, Holds, Closing, Abort, Closers, Slots

-------------------------------------------------------------------------------
(* What a step does to the table and to the closers, field by field.       *)

Opened(fd, for) ==
    /\ use[fd] = "free"
    /\ \A g \in Fds : use'[g] = IF g = fd THEN for ELSE use[g]
    /\ shut' = shut \ {fd}

Closed(fd) ==
    /\ \A g \in Fds : use'[g] = IF g = fd THEN "free" ELSE use[g]
    /\ shut' = shut \ {fd}

Outlives(fd, c) ==
    /\ closer'[c].at = closer[c].at /\ closer'[c].for = closer[c].for
    /\ closer'[c].fd = closer[c].fd
    /\ closer'[c].same = (closer[c].same /\ closer[c].fd # fd)

Freed(fd) == Closed(fd) /\ \A c \in Closers : Outlives(fd, c)

OnlyMoves(c) == \A d \in Closers \ {c} : closer'[d] = closer[d]

Begins(c, s) ==
    /\ closer'[c].at = "load" /\ closer'[c].for = s
    /\ closer'[c].same /\ closer'[c].fd = NoFd

GoesOn(c) ==
    /\ closer'[c].at \in {"idle", "load"}
    /\ closer'[c].at = "load" =>
           /\ closer[c].for # "dns" /\ closer'[c].for \in {"listen", "tls", "dns"}
           /\ closer'[c].same /\ closer'[c].fd = NoFd

StepsTo(c, at, fd) ==
    /\ closer'[c].at = at /\ closer'[c].for = closer[c].for
    /\ closer'[c].fd = fd /\ closer'[c].same = closer[c].same

EndOf(c) ==
    /\ queued' = IF c = "app" /\ closer'[c].at = "idle" THEN queued \cup {"abort"}
                 ELSE queued
    /\ IF c = "dns" /\ closer'[c].at = "idle" THEN dns' = "gone" /\ dfd' = NoFd
       ELSE UNCHANGED <<dns, dfd>>

LEMMA OpensOpened ==
    ASSUME TypeOK, NEW fd \in Fds, NEW for, Opens(fd, for)
    PROVE  Opened(fd, for)
BY DEF TypeOK, Opens, Opened

LEMMA FreesFreed ==
    ASSUME TypeOK, NEW fd \in Fds, Frees(fd)
    PROVE  Freed(fd)
<1>1. closer \in [Closers -> CloserStates]
  BY DEF TypeOK, CloserStates
<1>. QED
  BY <1>1, OutlivedCloser DEF Frees, Closes, TypeOK, Freed, Closed, Outlives

LEMMA StartsBegins ==
    ASSUME TypeOK, NEW c \in Closers, NEW s \in Slots, closer' = Starts(c, s)
    PROVE  Begins(c, s) /\ OnlyMoves(c)
<1>. DEFINE r == [Idle EXCEPT !.at = "load", !.for = s]
<1>1. r.at = "load" /\ r.for = s /\ r.same /\ r.fd = NoFd
  BY DEF Idle
<1>2. closer \in [Closers -> CloserStates] /\ closer' = [closer EXCEPT ![c] = r]
  BY DEF TypeOK, CloserStates, Starts
<1>. HIDE DEF r
<1>. QED BY <1>1, <1>2 DEF Begins, OnlyMoves

LEMMA OnwardGoesOn ==
    ASSUME TypeOK, NEW c \in Closers, closer'[c] = Onward(c)
    PROVE  GoesOn(c)
BY NextCloser DEF GoesOn, Onward, Idle

LEMMA EndsEnd ==
    ASSUME NEW c \in Closers, Ends(c)
    PROVE  EndOf(c)
BY DEF Ends, EndOf, dnsVars

-------------------------------------------------------------------------------
(* Every step of everybody keeps it.                                       *)

LEMMA AppInv ==
    ASSUME TypeOK, TypeOK', Inv, AppOpens \/ \E fd \in Fds : AppCloses(fd)
    PROVE  Inv'
<1>. USE NoFdIsNone, NamesAreFds
<1>. USE DEF TypeOK, Slots, Closers, Inv, HttpOwns, DnsOwns, RoutineOwns, ClosersHold,
         CloserHolds, Begun, Ended, Undisturbed, NothingLost, HoldsFor, Holds, Closing, Abort,
         routineVars, httpVars, dnsVars, flagVars, boundVars
<1>1. ASSUME NEW fd \in Fds, Opened(fd, "app"),
             UNCHANGED <<slot, routineVars, httpVars, dnsVars, closer, flagVars, queued>>
      PROVE  Inv'
  BY <1>1 DEF Opened
<1>2. ASSUME NEW fd \in Fds, AppCloses(fd), Freed(fd) PROVE Inv'
  BY <1>2 DEF AppCloses, Freed, Closed, Outlives
<1>. QED
  BY <1>1, <1>2, OpensOpened, FreesFreed DEF AppOpens, AppCloses

LEMMA AskInv ==
    ASSUME TypeOK, TypeOK', Inv,
           Cancel \/ SelectBle \/ Finish \/ \E w \in {"softap", "abort"} : Work(w)
    PROVE  Inv'
<1>0. "app" \in Closers /\ "sysq" \in Closers /\ "client" \in Slots
  BY DEF Closers, Slots
<1>. USE NoFdIsNone, NamesAreFds
<1>. USE DEF TypeOK, Slots, Closers, Inv, HttpOwns, DnsOwns, RoutineOwns, ClosersHold,
         CloserHolds, Begun, Ended, Undisturbed, NothingLost, HoldsFor, Holds, Closing, Abort, Begins,
         OnlyMoves, routineVars, httpVars, dnsVars, flagVars, boundVars
<1>1. CASE Cancel
  <2>1. CASE Begins("app", "client") /\ OnlyMoves("app") /\ UNCHANGED queued
    BY <1>1, <2>1 DEF Cancel
  <2>2. CASE UNCHANGED closer
    BY <1>1, <2>2 DEF Cancel
  <2>. QED BY ONLY <1>0, <1>1, <2>1, <2>2, StartsBegins, TypeOK DEF Cancel
<1>2. CASE SelectBle
  BY <1>2 DEF SelectBle
<1>3. CASE Finish
  BY <1>3 DEF Finish
<1>4. ASSUME NEW w \in {"softap", "abort"}, Work(w) PROVE Inv'
  <2>1. Begins("sysq", "client") /\ OnlyMoves("sysq")
    BY ONLY <1>0, <1>4, StartsBegins, TypeOK DEF Work
  <2>. QED BY <1>4, <2>1 DEF Work
<1>. QED BY ONLY <1>1, <1>2, <1>3, <1>4,
           Cancel \/ SelectBle \/ Finish \/ \E w \in {"softap", "abort"} : Work(w)

LEMMA HttpInv ==
    ASSUME TypeOK, TypeOK', Inv, Http
    PROVE  Inv'
<1>. USE NoFdIsNone, NamesAreFds
<1>. USE DEF TypeOK, Slots, Closers, Inv, HttpOwns, DnsOwns, RoutineOwns, ClosersHold,
         CloserHolds, Begun, Ended, Undisturbed, NothingLost, HoldsFor, Holds, Closing, Abort,
         Opened, Freed, Closed, Outlives, routineVars, httpVars, dnsVars, flagVars,
         boundVars
<1>1. CASE HttpCheck \/ HttpServed
  BY <1>1 DEF HttpCheck, HttpServed
<1>2. CASE HttpPoll
  <2>1. CASE http' \in {"check", "gone", "accept"} /\ UNCHANGED <<use, shut, cfd>>
    BY <1>2, <2>1 DEF HttpPoll
  <2>2. ASSUME NEW fd \in Fds, Opened(fd, "probe"), cfd' = fd, http' = "probe"
        PROVE  Inv'
    BY <1>2, <2>2 DEF HttpPoll
  <2>. QED BY ONLY <1>2, <2>1, <2>2, OpensOpened, TypeOK DEF HttpPoll, Slots
<1>3. CASE HttpProbe \/ HttpClose
  <2>1. cfd \in Fds /\ Freed(cfd)
    BY <1>3, FreesFreed DEF HttpProbe, HttpClose
  <2>. QED BY <1>3, <2>1 DEF HttpProbe, HttpClose
<1>4. CASE HttpAccept
  <2>1. CASE http' = "check" /\ UNCHANGED <<use, shut, cfd>>
    BY <1>4, <2>1 DEF HttpAccept
  <2>2. ASSUME NEW fd \in Fds, Opened(fd, "client"), cfd' = fd, http' = "store"
        PROVE  Inv'
    BY <1>4, <2>2 DEF HttpAccept
  <2>. QED BY ONLY <1>4, <2>1, <2>2, OpensOpened, TypeOK DEF HttpAccept, Slots
<1>5. CASE HttpStore
  BY <1>5 DEF HttpStore
<1>6. CASE HttpTake
  BY <1>6 DEF HttpTake
<1>. QED BY <1>1, <1>2, <1>3, <1>4, <1>5, <1>6 DEF Http

LEMMA DnsInv ==
    ASSUME TypeOK, TypeOK', Inv, Dns
    PROVE  Inv'
<1>0. "dns" \in Closers /\ "dns" \in Slots
  BY DEF Closers, Slots
<1>. USE NoFdIsNone, NamesAreFds
<1>. USE DEF TypeOK, Slots, Closers, Inv, HttpOwns, DnsOwns, RoutineOwns, ClosersHold,
         CloserHolds, Begun, Ended, Undisturbed, NothingLost, HoldsFor, Holds, Closing, Abort,
         Opened, Begins, OnlyMoves, routineVars, httpVars, dnsVars, flagVars, boundVars
<1>1. CASE DnsOpen
  <2>1. CASE dns' = "gone" /\ UNCHANGED <<use, shut, dfd>>
    BY <1>1, <2>1 DEF DnsOpen
  <2>2. ASSUME NEW fd \in Fds, Opened(fd, "dns"), dfd' = fd, dns' = "store"
        PROVE  Inv'
    BY <1>1, <2>2 DEF DnsOpen
  <2>. QED BY ONLY <1>1, <2>1, <2>2, OpensOpened, TypeOK DEF DnsOpen, Slots
<1>2. CASE DnsStore
  BY <1>2 DEF DnsStore
<1>3. CASE DnsEnds
  <2>1. Begins("dns", "dns") /\ OnlyMoves("dns")
    BY ONLY <1>0, <1>3, StartsBegins, TypeOK DEF DnsEnds
  <2>. QED BY <1>3, <2>1 DEF DnsEnds
<1>. QED BY <1>1, <1>2, <1>3 DEF Dns

LEMMA RoutineInv ==
    ASSUME TypeOK, TypeOK', Inv, Routine
    PROVE  Inv'
<1>. USE NoFdIsNone, NamesAreFds
<1>. USE DEF TypeOK, Slots, Closers, Inv, HttpOwns, DnsOwns, RoutineOwns, ClosersHold,
         CloserHolds, Begun, Ended, Undisturbed, NothingLost, HoldsFor, Holds, Closing, Abort,
         Opened, Freed, Closed, Outlives, HttpAstray, DnsAstray, routineVars, httpVars,
         dnsVars, flagVars, boundVars
<1>1. CASE RtBegin
  BY <1>1 DEF RtBegin
<1>2. CASE RtSocket
  <2>1. CASE routine' = "out" /\ UNCHANGED <<use, shut, listener>>
    BY <1>2, <2>1 DEF RtSocket, Settled
  <2>2. ASSUME NEW fd \in Fds, Opened(fd, "listen"), listener' = fd, routine' = "tls"
        PROVE  Inv'
    BY <1>2, <2>2 DEF RtSocket, Settled
  <2>. QED BY ONLY <1>2, <2>1, <2>2, OpensOpened, TypeOK DEF RtSocket, Slots
<1>3. CASE RtTls
  <2>1. CASE routine' \in {"close", "start"} /\ UNCHANGED <<use, shut, slot>>
    BY <1>3, <2>1 DEF RtTls
  <2>2. ASSUME NEW fd \in Fds, Opened(fd, "tls"), slot' = [slot EXCEPT !["tls"] = fd],
               routine' = "start"
        PROVE  Inv'
    BY <1>3, <2>2 DEF RtTls
  <2>. QED BY ONLY <1>3, <2>1, <2>2, OpensOpened, TypeOK DEF RtTls, Slots
<1>4. CASE RtStart
  BY <1>4 DEF RtStart
<1>5. CASE RtLeave \/ RtJoin
  BY <1>5 DEF RtLeave, RtJoin
<1>6. CASE RtForget
  BY <1>6 DEF RtForget
<1>7. CASE RtCloseTls
  <2>1. CASE slot["tls"] = NoFd
    BY <1>7, <2>1 DEF RtCloseTls
  <2>2. CASE slot["tls"] # NoFd
    <3>1. slot["tls"] \in Fds /\ Freed(slot["tls"])
      BY <1>7, <2>2, FreesFreed DEF RtCloseTls
    <3>. QED BY <1>7, <2>2, <3>1 DEF RtCloseTls
  <2>. QED BY <2>1, <2>2
<1>8. CASE RtClose
  <2>1. listener \in Fds /\ Freed(listener)
    BY <1>8, FreesFreed DEF RtClose
  <2>. QED BY <1>8, <2>1 DEF RtClose
<1>. QED BY <1>1, <1>2, <1>3, <1>4, <1>5, <1>6, <1>7, <1>8 DEF Routine

LEMMA CloserInv ==
    ASSUME TypeOK, TypeOK', Inv, NEW c \in Closers, Closer(c)
    PROVE  Inv'
<1>0. /\ closer \in [Closers -> CloserStates]
      /\ closer[c] \in CloserStates
      /\ c \in {"app", "sysq", "dns"}
  BY DEF TypeOK, CloserStates, Closers
<1>1. EndOf(c)
  BY EndsEnd DEF Closer, Load, Shut, Take, Close
<1>. USE NoFdIsNone, NamesAreFds
<1>. USE DEF TypeOK, Slots, Closers, Inv, HttpOwns, DnsOwns, RoutineOwns, ClosersHold,
         CloserHolds, Begun, Ended, Undisturbed, NothingLost, HoldsFor, Holds, Closing, Abort, EndOf,
         OnlyMoves, GoesOn, StepsTo, routineVars, httpVars, dnsVars, flagVars, boundVars
<1>2. CASE Load(c)
  <2>1. CASE slot[closer[c].for] = NoFd
    <3>1. GoesOn(c) /\ OnlyMoves(c)
      BY ONLY <1>0, <1>2, <2>1, OnwardGoesOn, TypeOK DEF Load, OnlyMoves
    <3>. QED BY <1>1, <1>2, <2>1, <3>1 DEF Load
  <2>2. CASE slot[closer[c].for] # NoFd
    <3>1. StepsTo(c, "shut", slot[closer[c].for]) /\ OnlyMoves(c)
      BY ONLY <1>0, <1>2, <2>2 DEF Load, OnlyMoves, StepsTo, CloserStates
    <3>2. HttpOwns' /\ DnsOwns' /\ RoutineOwns'
      BY <1>0, <1>1, <1>2, <2>2, <3>1 DEF Load, CloserStates
    <3>3. ClosersHold'
      <4>1. CloserHolds(c)'
        BY <1>0, <1>1, <1>2, <2>2, <3>1 DEF Load, CloserStates
      <4>2. ASSUME NEW d \in Closers \ {c} PROVE CloserHolds(d)'
        BY <1>0, <1>1, <1>2, <2>2, <3>1, <4>2 DEF Load, CloserStates
      <4>. QED BY ONLY <4>1, <4>2 DEF ClosersHold
    <3>4. Begun' /\ Ended'
      <4>1. /\ closer'[c].at = "shut" /\ closer'[c].for = closer[c].for
            /\ UNCHANGED <<slot, routine, http, dns, stop, abandoned>>
        BY ONLY <1>1, <1>2, <3>1 DEF Load, StepsTo, EndOf, routineVars, httpVars, flagVars
      <4>2. routine \in {"tls", "start"} => closer[c].for \notin {"client", "dns"}
        BY ONLY <2>2, Inv DEF Inv, Begun, HttpOwns, DnsOwns
      <4>. QED
        BY ONLY <1>2, <3>1, <4>1, <4>2, Inv DEF Load, OnlyMoves, Inv, Begun, Ended, HoldsFor,
           Holds, Abort, Closers
    <3>5. Undisturbed'
      BY ONLY <1>0, <1>1, <1>2, <2>2, <3>1, Inv, TypeOK DEF Load, StepsTo,
         OnlyMoves, EndOf, Inv, Undisturbed, Abort, Closers, CloserStates,
         TypeOK, routineVars, httpVars, dnsVars, flagVars, boundVars
    <3>6. NothingLost'
      BY <1>0, <1>1, <1>2, <2>2, <3>1 DEF Load, CloserStates
    <3>. QED BY ONLY <3>2, <3>3, <3>4, <3>5, <3>6 DEF Inv
  <2>. QED BY <2>1, <2>2
<1>3. CASE Shut(c)
  <2>1. CASE closer[c].for \in {"listen", "tls"}
    <3>1. GoesOn(c) /\ OnlyMoves(c)
      BY ONLY <1>0, <1>3, <2>1, OnwardGoesOn, TypeOK DEF Shut, OnlyMoves
    <3>2. HttpOwns' /\ DnsOwns' /\ RoutineOwns'
      BY <1>1, <1>3, <2>1, <3>1 DEF Shut
    <3>3. ClosersHold'
      BY <1>1, <1>3, <2>1, <3>1 DEF Shut
    <3>4. Begun' /\ Ended'
      BY ONLY <1>1, <1>3, <2>1, <3>1, Inv, TypeOK DEF Shut, GoesOn,
         OnlyMoves, EndOf, Inv, Begun, Ended, HoldsFor, Holds, Abort, Closers, CloserStates,
         TypeOK, routineVars, httpVars, dnsVars, flagVars, boundVars
    <3>5. Undisturbed'
      BY ONLY <1>1, <1>3, <2>1, <3>1, Inv, TypeOK DEF Shut, GoesOn,
         OnlyMoves, EndOf, Inv, Undisturbed, Abort, Closers, CloserStates,
         TypeOK, routineVars, httpVars, dnsVars, flagVars, boundVars
    <3>6. NothingLost'
      BY <1>1, <1>3, <2>1, <3>1 DEF Shut
    <3>. QED BY ONLY <3>2, <3>3, <3>4, <3>5, <3>6 DEF Inv
  <2>2. CASE closer[c].for \notin {"listen", "tls"}
    <3>1. StepsTo(c, "take", closer[c].fd) /\ OnlyMoves(c)
      BY ONLY <1>0, <1>3, <2>2 DEF Shut, OnlyMoves, StepsTo, CloserStates
    <3>2. HttpOwns' /\ DnsOwns' /\ RoutineOwns'
      BY <1>0, <1>1, <1>3, <2>2, <3>1 DEF Shut, CloserStates
    <3>3. ClosersHold'
      BY <1>0, <1>1, <1>3, <2>2, <3>1 DEF Shut, CloserStates
    <3>4. Begun' /\ Ended'
      BY ONLY <1>0, <1>1, <1>3, <2>2, <3>1, Inv, TypeOK DEF Shut, StepsTo,
         OnlyMoves, EndOf, Inv, Begun, Ended, HoldsFor, Holds, Abort, Closers, CloserStates,
         TypeOK, routineVars, httpVars, dnsVars, flagVars, boundVars
    <3>5. Undisturbed'
      BY ONLY <1>0, <1>1, <1>3, <2>2, <3>1, Inv, TypeOK DEF Shut, StepsTo,
         OnlyMoves, EndOf, Inv, Undisturbed, Abort, Closers, CloserStates,
         TypeOK, routineVars, httpVars, dnsVars, flagVars, boundVars
    <3>6. NothingLost'
      BY <1>0, <1>1, <1>3, <2>2, <3>1 DEF Shut, CloserStates
    <3>. QED BY ONLY <3>2, <3>3, <3>4, <3>5, <3>6 DEF Inv
  <2>. QED BY <2>1, <2>2
<1>4. CASE Take(c)
  <2>1. CASE slot[closer[c].for] = closer[c].fd
    <3>1. StepsTo(c, "close", closer[c].fd) /\ OnlyMoves(c)
      BY ONLY <1>0, <1>4, <2>1 DEF Take, OnlyMoves, StepsTo, CloserStates
    <3>. QED BY <1>1, <1>4, <2>1, <3>1 DEF Take
  <2>2. CASE slot[closer[c].for] # closer[c].fd
    <3>1. GoesOn(c) /\ OnlyMoves(c)
      BY ONLY <1>0, <1>4, <2>2, OnwardGoesOn, TypeOK DEF Take, OnlyMoves
    <3>. QED BY <1>1, <1>4, <2>2, <3>1 DEF Take
  <2>. QED BY <2>1, <2>2
<1>5. CASE Close(c)
  <2>1. closer[c].fd \in Fds
    BY ONLY <1>5, TypeOK DEF Close, TypeOK
  <2>2. Closed(closer[c].fd)
    BY ONLY <1>5, <2>1, TypeOK DEF Close, Closes, Closed, TypeOK
  <2>3. GoesOn(c)
    BY ONLY <1>5, OnwardGoesOn, TypeOK DEF Close
  <2>4. \A d \in Closers \ {c} : Outlives(closer[c].fd, d)
    BY ONLY <1>0, <1>5, OutlivedCloser DEF Close, Outlives
  <2>5. HttpOwns' /\ DnsOwns' /\ RoutineOwns'
    BY <1>1, <1>5, <2>1, <2>2, <2>3, <2>4 DEF Close, Closed, Outlives
  <2>6. ClosersHold'
    <3>1. CloserHolds(c)'
      BY <1>1, <1>5, <2>1, <2>2, <2>3, <2>4 DEF Close, Closed, Outlives
    <3>2. ASSUME NEW d \in Closers \ {c} PROVE CloserHolds(d)'
      <4>1. closer[d].at = "close" => closer[d].fd # closer[c].fd
        BY <1>5, <3>2 DEF Close
      <4>2. /\ closer[d].at \in {"shut", "take"} /\ closer[d].for \in {"client", "dns"}
            /\ closer[d].fd = closer[c].fd
            => slot[closer[d].for] = NoFd
        BY <1>5, <3>2 DEF Close
      <4>3. /\ UNCHANGED <<slot, http, stop, abandoned>> /\ (UNCHANGED dns \/ dns' = "gone")
            /\ \A e \in Closers : closer'[e].at = "close" => closer[e].at = "close"
            /\ \A e \in Closers \ {c} : closer'[e].for = closer[e].for
        BY ONLY <1>1, <1>5, <2>3, <2>4 DEF Close, Outlives, GoesOn, EndOf, httpVars, flagVars
      <4>4. closer[d].fd # closer[c].fd /\ Holds(d) => use'[closer[d].fd] = use[closer[d].fd]
        BY ONLY <2>2, TypeOK, <3>2 DEF Closed, Holds, TypeOK
      <4>5. /\ closer'[d].at = closer[d].at /\ closer'[d].for = closer[d].for
            /\ closer'[d].fd = closer[d].fd /\ CloserHolds(d)
            /\ closer'[d].same <=> closer[d].same /\ closer[d].fd # closer[c].fd
        BY ONLY <2>4, <3>2, Inv DEF Outlives, Inv, ClosersHold
      <4>6. \A e \in Closers : closer'[e].at = "close" =>
               closer[e].at = "close" /\ closer'[e].for = closer[e].for
        BY ONLY <2>3, <4>3 DEF GoesOn
      <4>7. closer[d].at = "load" \/ ~Holds(d) => CloserHolds(d)'
        BY ONLY <2>1, <3>2, <4>3, <4>5, NoFdIsNone DEF CloserHolds, HoldsFor, Holds, Abort
      <4>8. closer[d].at \in {"shut", "take"} => CloserHolds(d)'
        BY ONLY <3>2, <4>2, <4>3, <4>4, <4>5 DEF CloserHolds, HoldsFor, Holds, Abort
      <4>9. closer[d].at = "close" => CloserHolds(d)'
        BY ONLY <3>2, <4>1, <4>3, <4>4, <4>5, <4>6
           DEF CloserHolds, HoldsFor, Holds, Closing, Abort
      <4>. QED BY ONLY <4>7, <4>8, <4>9 DEF Holds
    <3>. QED BY ONLY <3>1, <3>2 DEF ClosersHold
  <2>7. Begun' /\ Ended'
    BY <1>1, <1>5, <2>1, <2>2, <2>3, <2>4 DEF Close, Closed, Outlives
  <2>8. Undisturbed'
    BY <1>1, <1>5, <2>1, <2>2, <2>3, <2>4 DEF Close, Closed, Outlives
  <2>9. NothingLost'
    BY <1>1, <1>5, <2>1, <2>2, <2>3, <2>4 DEF Close, Closed, Outlives
  <2>. QED BY ONLY <2>5, <2>6, <2>7, <2>8, <2>9 DEF Inv
<1>. QED BY <1>2, <1>3, <1>4, <1>5 DEF Closer

LEMMA InvStep == TypeOK /\ TypeOK' /\ Inv /\ [Next]_vars => Inv'
<1>1. ASSUME Inv, UNCHANGED vars PROVE Inv'
  BY <1>1 DEF vars, Inv, HttpOwns, DnsOwns, RoutineOwns, ClosersHold, CloserHolds, Begun,
     Ended,
     Undisturbed, NothingLost, HoldsFor, Holds, Closing, Abort, routineVars, httpVars,
     dnsVars, flagVars
<1>. QED
  BY <1>1, CloserInv, AskInv, AppInv, HttpInv, DnsInv, RoutineInv DEF Next

LEMMA InvHolds == Spec => [](TypeOK /\ Inv)
<1>1. Init => TypeOK /\ Inv
  BY InitTypes, InitInv
<1>2. TypeOK /\ Inv /\ [Next]_vars => (TypeOK /\ Inv)'
  BY TypesStep, InvStep
<1>. QED BY <1>1, <1>2, PTL DEF Spec

-------------------------------------------------------------------------------
(* What follows.                                                           *)

\* The number in a global is that of an open socket of its own kind: what
\* prov_shutdown_* finds there is a socket of provisioning, however many closers have
\* been at work and whatever the application has opened since.
THEOREM OwnHolds == Spec => []SlotsNameOwn
<1>1. Inv => SlotsNameOwn
  BY DEF Inv, HttpOwns, DnsOwns, RoutineOwns, SlotsNameOwn
<1>. QED BY <1>1, InvHolds, PTL

\* A compare-and-set that succeeds takes the very socket the closer has shut, never a
\* later one with its number.
THEOREM TakesHolds == Spec => []TakesWhatItShut
<1>1. TypeOK /\ Inv => TakesWhatItShut
  <2>. SUFFICES ASSUME TypeOK, Inv, NEW c \in Closers, closer[c].at = "take",
                       slot[closer[c].for] = closer[c].fd
                PROVE  closer[c].same
    BY DEF TakesWhatItShut
  <2>1. closer[c].fd # NoFd
    BY NoFdIsNone DEF TypeOK
  <2>. QED BY <2>1 DEF Inv, ClosersHold, CloserHolds
<1>. QED BY <1>1, InvHolds, PTL

\* Until it is told to stop, nothing of a session is shut, neither by a work item or a
\* closer of the session before nor by its own threads, and its workers read from their
\* own sockets.
THEOREM LiveHolds == Spec => []LiveUntilStopped
<1>1. TypeOK /\ Inv => LiveUntilStopped
  BY NoFdIsNone DEF TypeOK, Abort, Inv, HttpOwns, DnsOwns, Undisturbed, LiveUntilStopped, HttpAstray,
     DnsAstray
<1>. QED BY <1>1, InvHolds, PTL

\* Once the routine has returned and the closers are done, no socket of provisioning is
\* open: the joins that run out included.
THEOREM NothingLeftHolds == Spec => []NothingLeft
<1>1. TypeOK /\ Inv => NothingLeft
  BY NoFdIsNone DEF TypeOK, Inv, RoutineOwns, Ended, NothingLost, Closing, NothingLeft, Slots
<1>. QED BY <1>1, InvHolds, PTL

\* Only the application closes a socket of the application: what the library closes is
\* its own.
THEOREM AppSocketsHold == Spec => AppKeepsItsSockets
<1>1. TypeOK /\ Inv /\ [Next]_vars =>
          [\A fd \in Fds : use[fd] = "app" /\ use'[fd] # "app" => AppCloses(fd)]_vars
  <2>. SUFFICES ASSUME TypeOK, Inv, Next, NEW fd \in Fds, use[fd] = "app",
                       use'[fd] # "app"
                PROVE  AppCloses(fd)
    OBVIOUS
  <2>1. ASSUME NEW g \in Fds, NEW for, Opens(g, for) PROVE FALSE
    BY <2>1 DEF Opens, TypeOK
  <2>2. ASSUME NEW g \in Fds, Closes(g) PROVE g = fd
    BY <2>2 DEF Closes, TypeOK
  <2>3. CASE \E c \in Closers : Closer(c)
    BY <2>2, <2>3 DEF Closer, Load, Shut, Take, Close, Inv, ClosersHold,
       CloserHolds, TypeOK
  <2>4. CASE Http
    BY <2>1, <2>2, <2>4 DEF Http, HttpCheck, HttpPoll, HttpProbe, HttpAccept, HttpStore,
       HttpServed, HttpTake, HttpClose, Frees, Inv, HttpOwns, TypeOK
  <2>5. CASE Dns
    BY <2>1, <2>5 DEF Dns, DnsOpen, DnsStore, DnsEnds
  <2>6. CASE Routine
    BY <2>1, <2>2, <2>6, NamesAreFds DEF Routine, RtBegin, RtSocket, RtTls, RtStart,
       RtLeave, RtJoin, RtForget, RtCloseTls, RtClose, Frees, Inv, RoutineOwns, TypeOK
  <2>7. CASE Cancel \/ SelectBle \/ Finish \/ \E w \in {"softap", "abort"} : Work(w)
    BY <2>7 DEF Cancel, SelectBle, Finish, Work
  <2>8. CASE AppOpens \/ \E g \in Fds : AppCloses(g)
    BY <2>1, <2>2, <2>8 DEF AppOpens, AppCloses, Frees
  <2>. QED BY <2>3, <2>4, <2>5, <2>6, <2>7, <2>8 DEF Next
<1>. QED BY <1>1, InvHolds, PTL DEF Spec, AppKeepsItsSockets
===============================================================================
