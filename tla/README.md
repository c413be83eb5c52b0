# esp-provisioning-zephyr in TLA+

A verification project for the provisioning module in `src/`: TLA+ modules that
model its control, TLC runs on small instances, and theorems checked by TLAPS.
Line numbers refer to the files under `src/`.

## 1. The system

`esp_prov_run()` blocks its caller until a phone has sent the credentials of a
Wi-Fi network, over BLE (GATT) or over the device's own access point (HTTP). The
first phone that speaks protocomm wins the session for its transport; the other
transport is taken down. The phone opens a security session (sec1: key exchange,
proof, then AES-CTR), sends `CmdSetConfig`, `CmdApplyConfig` and
`CmdGetStatus`; the answer "connected" ends the session.

### Threads

| Thread | Code | Runs |
|---|---|---|
| caller | `prov_controller.c` | creates the routine, joins it or expires the session |
| prov-routine | `esp_prov_routine_run` | brings the transports up, waits, takes them down |
| prov-http | `http_server_thread` | one TCP client at a time, one request at a time |
| prov-dns | `dns_server_thread` | captive name server |
| Bluetooth RX | GATT and connection callbacks of `esp_prov_ble.c` | cooperative: no other thread of the module interrupts it |
| system workqueue | `softap_shutdown_work`, `ble_stop_only_work`, `prov_abort_net_work`, the two delayed BLE works | one item at a time |
| application | `esp_prov_cancel`, `esp_prov_cancel_isr` | whenever it likes |

### Components

**Controller** (`prov_controller.c`). State: the deadline, whether it expired,
`ctx.result`. Operations: create, join, expire (cancel and bounded join), return.
Hard: the bounded join against a routine that cannot be interrupted; the deadline
against a session that has just succeeded. Correct when every call returns, only
after its routine, with everything released and a truthful result.

**Routine** (`esp_prov_run.c`, `esp_prov_routine_run`). State: its position, `ret`,
`ble_up`, the sockets, AP and DHCP. Operations: set up, settle, DHCP, AP, first
scan, listeners, workers, BLE, wait, join, stop, reset; five error exits. Hard: a
partial failure must undo what came before; a cancel may come at every step.

**Arbitration and cancel** (`esp_prov_run.c`). State: `s_transport_choice`,
`s_softap_abandoned`, the work items. Operations: `esp_prov_try_select_ble`,
`esp_prov_try_select_softap`, the cancel calls and the work functions. Hard: two
phones race; a work item runs after the session that queued it. Correct when one
transport wins for good and only that one can receive credentials.

**Shared state** (`esp_prov_shared.c`). State: `stop_flag`, `finished_once`,
`done_sem`, the credential store. Operations: setup, reset, stop, signal, the
three commands. Hard: flags of one session seen in the next, half-written pairs.

**BLE transport** (`esp_prov_ble.c`). State: the registration, advertising, the
link, two delayed works, the deferred end after a read. Operations: link up and
down, write and read an endpoint, the delayed works, start and stop. Hard: a
disconnect is reported late; timers outlive what armed them; the endpoints serve every
link, also one that `ble_conn` does not name.

**SoftAP workers** (`esp_prov_run.c`). State: the worker's position, the security
cookie. Operations: accept, header, each kind of request, hang up, exit. Hard: the
handler does not learn that BLE has won; answers get lost; abort at any point.

**sec1** (`esp_prov_sec1.c`). State: the handshake state of a context, its key, its
place in the AES-CTR stream. Operations: open, `handle_cmd0`, `handle_cmd1`,
decipher and encipher, close. Hard: the two ends must walk the stream in step
through lost answers, wrong proofs and refused commands. Correct when the ends
agree unless a message was lost, a context ready for commands was proven, and a
new key exchange repairs whatever happened.

**Scan cache** (`esp_prov_shared.c`). State: the list, its count, `scan_finished`,
the retry budget, a work item and its timeout. Operations: the first scan,
`CmdScanStart`, the work function, the timeout, the driver's events. Hard: events of
an older scan, a driver that stays silent, a rescan when nobody waits.

**Sockets** (`esp_prov_run.c`). State: `s_listen_fd`, `s_tls_probe_fd`, `s_http_cfd`,
`s_dns_fd`. Operations: who opens stores, `prov_shutdown_*` loads, shuts, takes
and closes. Hard: a number is given again to somebody else as soon as its socket is
closed. Correct when each socket is closed once, by the library only its own.

**HTTP stream** (`esp_prov_run.c`). State: the header's buffer, how much of the body
came with it. Operations: `read_http_headers`, `header_content_length`, `recv_body`.
Hard: TCP cuts anywhere, and a header may be longer than its buffer.

**Protobuf codec** (`esp_prov_pb.c`): a reader with six parsers, and builders. Hard:
lengths that lie, fields left out or in any order, a page of results in a buffer of
fixed size.

**Trace**, **sample shell application**, **build configuration**.

## 2. The modules

| Module | Models | Extends |
|---|---|---|
| `ProvShared` | flags, semaphore, credential store, the commands | |
| `ProvTransport` | arbitration, cancel, sockets as open/shut/closed, sec1's handshake states, the work queue | `ProvShared` |
| `ProvBle` | the GATT transport | `ProvTransport` |
| `ProvHttp` | prov-http and prov-dns | `ProvTransport` |
| `ProvSession` | controller, routine, work functions, time; composes all of the above; properties | `ProvBle`, `ProvHttp` |
| `ProvContract` | what `esp_prov.h` promises the caller | |
| `ProvSessionObs` | a history variable and two promises that the code does not keep | `MCSession` |
| `MCSession` | small sets for TLC | `ProvSession` |
| `MCBuilds` | the two single-transport builds side by side | instances of `ProvSession` |
| `ProvScan` | the scan cache with its work queue, timeout, rescans and the driver's events | |
| `ProvSec1` | one security context, several phones, loss and refusal, the two places in the cipher stream | |
| `ProvSockets` | the four globals that hold a descriptor, those who close, a table whose numbers are used again | |
| `ProvPage` | the page of `CmdScanResult` and a phone that pages | |
| `ProvPb` | the protobuf reader and its parsers over bytes | `ProvPage` |
| `ProvHttpStream` | one TCP connection of prov-http as a stream of bytes | |
| `MCPb`, `MCWire` | messages, lists and requests for TLC; a behaviour of `MCWire` is of the codec or of a connection | `ProvPb`; `MCPb`, `ProvHttpStream` |
| `ProvSession_proofs`, `ProvContract_proofs`, `ProvScan_proofs`, `ProvSec1_proofs`, `ProvSockets_proofs`, `ProvPage_proofs`, `ProvPb_proofs`, `ProvHttpStream_proofs` | theorems and proofs | the module of the name, `TLAPS` |

`ProvSession` is the whole program at the level of handlers. `ProvScan`, `ProvSec1`,
`ProvSockets` and `ProvHttpStream` each take one part of it that `ProvSession`
abstracts and model it more finely, with the rest of the program as its environment:
the first scan is only a wait in `ProvSession`, a handshake a relation on states
(`SecAfter`), a socket open, shut or closed, and a request is read in one step.

The shared modules define *pieces of actions* (`SharedSetup`, `SelectBle`,
`BleStop`, `DispatchConfig`), one per C function, constraining only what that
function writes. The modules above compose them, so an action is a whole
handler: `BleWriteConfig` is the write callback with selection, dispatch and
signal; `RtReset` is the common tail of every path of the routine.

### What is one step

* A Bluetooth callback is one step. The RX thread is cooperative and everything
  it calls is short and takes no lock held across a wait. So the choice of BLE
  and `s_softap_abandoned` change together.
* prov-http moves from `head` to `req` (header read, transport selected), then
  handles the request, and for "connected" stops once more between the answer and
  the signal (`sent`). Everything else may run between these.
* The routine has a step for each call that can fail or wait, and one for each
  piece of setup. Its teardown is `RtJoin` (the worker joins), then `RtStop`
  (BLE stop and the radios, which take up to `TeardownLimit`), then `RtReset`.
* `softap_shutdown_work_fn` has two steps (shut, joined); while it joins, the
  queue runs nothing else. The other work functions are one step.
* `esp_prov_ble_stop` is one step. The link it asks to close goes down in
  `BleDisconnect`, which may be as late as the next session. The context was reset
  meanwhile and has lost its `sid` (`opened` is FALSE), so that disconnect does not
  close it (`esp_prov_sec1.c:141`).
* A link that `ble_connected` does not take (before the service is registered, a second
  central, no entropy) is `stray` until `BleStrayLeaves`, however long that takes.
  `prov_write_ep` and `prov_read_ep` do not ask which link a request came over, so
  while the service is registered a stray link reads and writes as the other does
  (`Linked`). What holds it is the selection of BLE before every write.

The queue is a set of items instead of a FIFO: it allows every order the queue
allows, and more.

### Time

Ticks of about 2 s, with maximal progress: `Tick` is enabled only when no
thread of the device can go on by itself (`Quiet`), since the device computes in
milliseconds and each wait of a worker ends within half a second of an abort (250 ms
socket timeouts at run.c:1611, poll of 500 ms at run.c:1525, DNS 500 ms). Phones and application act
at any moment between ticks. The settling time and the BLE idle delay are exact,
the first scan and the teardown are upper bounds.

The joins of the workers have bounds in the code: 30 s and 5 s in the routine
(`esp_prov_run.c:1885-1886`), 10 s and 5 s in the work item (474-475). `RtJoin` and
`SysJoined` wait for the workers instead. The assumption is that a worker ends within
those bounds: it leaves at the first wait after an abort, none of which is longer than
half a second. It can fail for a worker that reads from a number the application was
given meanwhile; `ProvSockets` has that case (`HttpAstray`, `DnsAstray`), with the join
that gives up.

### Data

A network is a record of a name and a passphrase, both model values; `Blank` is
the empty string and `TooLong` a passphrase of more than 64 bytes. The SSID of a
refused length changes nothing, so it has no step. Requests that are malformed
are those that change nothing but the choice of transport (`BleWriteOther`,
`HttpSession` with `post`).

`Faults` names the calls that may fail: SoftAP interface, DHCP, AP, socket, poll,
DNS socket, Bluetooth enable, advertising, entropy.

### The finer modules

* `ProvScan`: the phone's handler over BLE runs on the cooperative RX thread and
  is one step; prov-http, the routine and the scan queue can be cut between two of
  their writes, and are (`ScanStartHttp` then `ClearList`, `TimeoutBegins` then
  `TimeoutSets`). An entry of the list is the number of the request it was found
  for. The driver may refuse, stay silent, answer late or find nothing. `quiet` is
  a history: nothing of an older request was under way at this one.
* `ProvSec1`: over BLE its connections are those that `ble_connected` takes, one at a
  time. A stray link writes into the same context (`ProvBle` has the step), and whose
  key that context then has is not spoken of here. A key is who has it, and `ahead` how many blocks the phone is ahead
  of the device. A message deciphered at another place is noise, and noise is no
  command. Messages are lost only with their connection.
* `ProvSockets`: each of load, shut, compare-and-set and close of `prov_shutdown_*`
  is a step of whoever runs it (a cancelling thread, the work queue, prov-dns). A
  new socket gets the lowest free number, as Zephyr's table gives it. `Settled`: the
  two seconds of settling are longer than any closer of the session before needs.
  A cancel from an interrupt only queues the work item. The work item's joins are
  left out: they only delay it.
* `ProvPb`: one step for each field, with six parsers sharing one loop. A submessage
  is a reader inside a reader, and what a parser finds is a number or a place in the
  message.
* `ProvHttpStream`: one step for each `recv`. A request is where it starts and how
  long it is. Two assumptions on the client: it waits for an answer before it sends
  the next request, and no middle of a request reads as the line of a GET or a POST.
  Which path was asked for only matters as to what is done with the body.

### Calling again after ESP_PROV_ERR_INTERNAL

`Run` requires that the previous routine thread is over. After a bounded join
that gave up (finding `short_limit`) it need not be; creating the same static
thread again has no defined outcome and is not modelled.

Definitions named `Mutant...` are slips a programmer could make in the definition
that follows them (a missing reset, a dropped guard). No specification
uses them; they show that the properties depend on the code being right.

## 3. The runs

Bounds common to the runs: one network unless said otherwise (two, when a pair
can be mixed), every limit at most 5 ticks, one or two calls of `esp_prov_run`.
Two calls are what it takes for anything left by one session to meet the next:
the next session's setup clears all flags, so a third adds no new pair.

| Run | Checks | Shows |
|---|---|---|
| `session` | `OneTransport`, `NoStaleTeardown`, `SoftapReachable`, `ListenerOutlivesWorker`, `ChoiceIsFinal`, `KeepsContract` | two sessions, both transports, no faults |
| `session_faults` | `TypeOK`, `ArbitrationInv`, `CleanReturn` | one session, all faults, an over-long passphrase |
| `session_times` | `ReturnMeansJoined`, `StopEndsRoutine`, `RunReturns` | the session ends, under fairness, when the limits fit |
| `builds` | `KeepsContract` | the single-transport builds, two sessions, all faults |
| `scan` | `TypeOK`, `WakeupArmed`, `ListIsOfRequest`, `PassesBounded`, `AnnouncedListStays`, `ScanEnds` | three requests for a list of two entries |
| `sec1` | `TypeOK`, `InStep`, `ReadyIsProven`, `ContextIsHolders`, `Recovers` | two phones, either transport, four faults |
| `sockets` | `TypeOK`, `SlotsNameOwn`, `TakesWhatItShut`, `LiveUntilStopped`, `NothingLeft`, `AppKeepsItsSockets`, `StopEndsWorkers` | two sessions, a cancel in each, three descriptors |
| `wire` | `RoundTrip`, `ViewsInside`, `AlwaysEnds`; `PageIsOfTheList`, `EveryApOnce`; `BodyIsOwn`, `HandledOnce`, `KeepsInStep`, `HandlesAll` | codec, pages, and one HTTP connection |

* `OneTransport`: credentials can reach the device only over the transport that
  won. prov-http never asks who won; what saves it is that the worker sees the
  abandoned flag before it can finish a handshake.
* `NoStaleTeardown`: a work item of one session does not shut the sockets of
  the next. It holds because of the two seconds of settling, during which the
  queue is drained: without the wait (`MutantRtSettled`) it is violated.
* `SoftapReachable`: while a session waits for a phone its SoftAP side is up,
  unless BLE has won, whatever work items do.
* `ListenerOutlivesWorker`: the listener is closed only after prov-http.
* `ChoiceIsFinal`: no step but the next session's setup changes a choice.
* `KeepsContract`: `ProvSession` implements `ProvContract` under the mapping
  in `ProvSession` (`phase` from `ctl`, `creds` from `out`, the parts in use).
  With one network in play `ESP_PROV_OK` comes with the phone's credentials, all
  is released at the return, and the credentials of the caller are never written
  after it. `builds` adds the faults and the open network.
* `CleanReturn`: the same release in detail under all faults. It requires
  `SessionLimit > SettleTime`: with a limit of two seconds or less a session that
  fails to enable its AP is reported as TIMEOUT with its DHCP server left on.
* `ReturnMeansJoined`, `StopEndsRoutine`, `RunReturns`: what remains of
  `SettleTime + PrescanLimit` at the deadline, and the teardown, must fit in the
  30 s of the bounded join. `ReturnMeansJoined` holds if `SessionLimit > 0`,
  `TeardownLimit < JoinLimit` and `SettleTime + PrescanLimit + TeardownLimit <
  SessionLimit + JoinLimit`. `session_times` satisfies it by one tick (4 < 5);
  with equality `ReturnMeansJoined` fails. With the default limit of 30 s the
  code satisfies it. With a limit of a few seconds it does not (`short_limit`).
* `WakeupArmed`, `ScanEnds`: while a phone is told "not finished" something that
  will finish the scan is queued, running or timed, so a lost event of the driver
  does not make it poll for ever. Without the timeout (`MutantWorkRequests`) it does.
* `ListIsOfRequest`, `AnnouncedListStays`: a counted entry was found for the present
  request, and a list announced as finished is neither cleared nor shortened while a
  phone reads it page by page. Both speak of requests with no older scan under way;
  for the others the code promises nothing and mixes the results of both.
* `PassesBounded`: a request costs three scans at most, four if it came in the
  middle of an older one.
* `InStep`: whenever both ends rest they are at the same place in the stream,
  unless a message was lost under this key. A refused, malformed or wrongly proven
  message must not move one end only.
* `ReadyIsProven`, `ContextIsHolders`: a context that deciphers commands has seen a
  right proof of its present key, also when a second key exchange fails half way; and
  a client without the cookie does not continue the session of another. Over BLE this
  is said of the links that `ble_connected` takes.
* `Recovers`: once the faults are over, commands are answered again and again: a
  new key exchange repairs every state.
* `SlotsNameOwn`, `TakesWhatItShut`, `AppKeepsItsSockets`: whatever closer is cut
  where, a global never names a foreign socket, the compare-and-set never takes a
  newer socket that has the old one's number, and no close hits a socket of the
  application. A *shutdown* may hit one: a closer loads a number, loses the
  processor, and the number is given away. The model has the step.
* `LiveUntilStopped`: until a session is told to stop nothing of the session before
  shuts its sockets, and each worker reads from its own.
* `NothingLeft`: after the routine and the closers, no socket is left open.
* `StopEndsWorkers`: told to stop, both workers end, but for one whose own copy of
  the number the application has been given in between.
* `RoundTrip`: a well-formed message with unknown fields, repeated fields and
  fields left out is read as what it says, by a reference definition on its fields.
  `ViewsInside`: whatever the bytes are, what a parser hands on lies in the message.
  `AlwaysEnds`: whatever the bytes are, the parser comes to an end.
* `PageIsOfTheList`, `EveryApOnce`: a page holds entries of the list only, also
  when `start + count` wraps, and a phone that asks for at most eight at a time is
  told of every access point once: eight of the longest entries fit. With 448 bytes
  instead of 480 (`MutantInnerCap`) they do not.
* `BodyIsOwn`, `HandledOnce`: wherever TCP cuts, a POST is handled once and with its
  own body. The exception is in the property: a header that does not fit its buffer has
  its `Content-Length` not seen, and is handled with an empty body.
* `KeepsInStep`: wherever TCP cuts, what is parsed as a request begins where a request
  does, if headers fit and only POSTs have a body. Without that the body of a GET, or
  the rest of a long header, is read as the next request; the model has it (`Misread`,
  `BadRequest`), and `HandledOnce` is the property for it, under the assumption on the
  client that no middle of a request reads as the line of a GET or a POST.
* `HandlesAll`: under the same condition prov-http never waits for bytes it has
  already taken.

Bounds. `scan`: a list of two and three requests let a list be full, a pass be
empty twice and a request interrupt another; timeouts of 2 and 3 ticks keep the
two apart. `sec1`: one phone can disturb another, and four faults are a lost
message under each of two keys with a wrong proof and a failed exchange; loss,
failure and refusal share the bound. `sockets`: three numbers are one fewer than
the listeners, the client and the name server can use together, so numbers are
reused at once and running out is reached. `wire`: widths are scaled down, a varint
has at most three bytes, a word of 64 bits holds 2^20 and one of 32 bits 2^14, a
public key has two bytes; a page has the buffers of the code with lists of up to
twenty, the code's limit. A header's buffer has 11 bytes and a `recv` 3: headers
of 7 bytes always fit, of 9 it depends on the cut, of 13 never; two requests are
what it takes for one to be taken for part of the other.

Fairness. `session_times` (`FairSpec`): weak fairness for each thread of the
device, since Zephyr's scheduler runs a ready thread and the module has none that
spins; weak fairness of the queue and the timers; strong fairness of `Tick`, since
phones and application may make the device busy again and again but cannot stop
the clock. Nothing is assumed of phones, application or driver there, nor in `scan`,
which has the same fairness for its threads and the clock. `sec1`: `Recovers` speaks
of phones that go on trying, so it is fair to them, to the device and to connecting;
faults are bounded by a guard, never by fairness. `sockets`: weak fairness of the
two workers, whose waits end within half a second on a socket of their own, and not
of one that reads from a number that is now another's. `wire`: a parser and the
HTTP thread go on while they can; nothing is assumed of the network or the client.

`RunReturns` does not depend on a phone: the deadline ends the session.
Deadlock is checked in the runs of `ProvSession`, `ProvScan` and `ProvSec1`. In every
stopped state of `ProvSession` the clock still ticks, and that is intended: a
device whose sessions are over is idle. `sockets` and `wire` stop when their
sessions or messages are used up.

### Disagreements found

Four have a run in which TLC shows the violation. They are about documented
behaviour; `PROJECT.json` has the quotes.

| Run | What the code does |
|---|---|
| `cancel_lost` | a cancel between `k_thread_create` and `esp_prov_shared_setup` is cleared |
| `short_limit` | a short limit and a long first scan: `esp_prov_run` returns while its routine runs, with pointers into the returned frame |
| `torn_pair` | a refused `CmdSetConfig` leaves the new name with the old passphrase, and `ESP_PROV_OK` delivers the pair for the application to join with (`README.md:45`), though it is no network's |
| `ble_after_softap` | BLE comes up after SoftAP has won, and stays |

The history of `ProvSessionObs` (`asked`) only watches: each step of `ProvSession`
is allowed and determines it.

Four more without a run of their own; the model has each of them:

* a session limit of 0, which `references/component.md:180` calls no limit and
  `zephyr/Kconfig:67` allows, expires in the first pass of the loop
  (`prov_controller.c:89`, `Expire`);
* `ble_had_central_link` is cleared only when BLE starts (`esp_prov_ble.c:657`),
  so a late disconnect of the previous session's link arms the idle cancel of the
  new session, against the comment at `esp_prov_ble.c:114` (`BleDisconnect`);
* the exit at `esp_prov_run.c:1939` leaves the DHCP server on when the AP could not
  be enabled, against `references/component.md:266` (`RtAp`, `CleanReturn`);
* an empty pass that is reported after the timeout rescans while a phone is served
  (`esp_prov_shared.c:280`), which `esp_prov_internal.h:93-94` gives as what the first
  scan is there to avoid (`ScanDone`, bounded by `PassesBounded`).

Four behaviours the documents do not settle: success before the deadline is
reported as TIMEOUT when the teardown crosses the deadline (`Joined`); SoftAP ends
the session although the "connected" answer was not sent (`HttpSignal`); a central
that connected and left without committing ends the session for SoftAP phones too
(`BleDisconnect`, `IdleCancels`); a late disconnect restarts advertising before BLE
starts, so that BLE then fails to start and nothing stops that advertising
(`AdvRestartWork`, `BleStart`).

## 4. The proofs

`ProvSession_proofs` proves, for every set of networks, every build, every set
of faults and every value of the limits:

* `TypeCorrect`: `Spec => []TypeOK`;
* `Arbitration`: `Spec => []ArbitrationInv`;
* `OneTransportHolds`: `Spec => []OneTransport`;
* `ListenerHolds`: `Spec => []ListenerOutlivesWorker`;
* `ChoiceFinal`: `Spec => ChoiceIsFinal`, from the actions alone: only the two
  selections and `RtChoose` write the choice, and the selections only from none.

Assumptions: `SharedAssumption` (networks are records, `Blank` is not a name and
is not too long), `BuiltAssumption`, `BleAssumption` and `SessionAssumption` (the limits
are natural numbers). TLC evaluates them in every run.

`OneTransport` is not inductive. A state in which BLE has won while prov-http
still handles a request with a finished handshake satisfies it until the
request opens the context again. The strengthening `ArbitrationInv` says why
such a state is not reached:

* `WorkersInside`, `ServiceInside`, `ListenerInside`: where in the routine
  prov-http, the BLE service and the listeners exist. They give the start and
  the reset of a session a known state: when `RtReset` closes the contexts
  and `RtChoose` withdraws the choice, no worker is left to open one.
* `HandshakeAfterChoice`: a context leaves `cmd0` only after a choice, and BLE's
  only if BLE won; a provisioning request in prov-http means a choice was made.
* `LastRequest`: once BLE has won, the abandoned flag is up, and prov-http has at
  most one more request in it. That request starts from a context in `cmd0`, so
  it ends at most in `cmd1`, and the worker leaves before the next one.

The proof that a step preserves `TypeOK /\ ArbitrationInv` has one lemma per
group of actions and one step per action. `ListenerOutlivesWorker` and `OneTransport` follow from the
invariant by definition.

`ProvContract_proofs` goes on from there. Its invariant places everything the
routine brings up (AP, DHCP, service, workers, listeners) at the steps between which it
exists, bounds the clock of the caller by the position of the routine, and says which
reply can follow from where.

* `CleanReturns`: `SessionLimit > SettleTime => (Spec => []CleanReturn)`;
* `JoinedReturns`: `[]ReturnMeansJoined` from `SessionLimit > 0`, `TeardownLimit <
  JoinLimit` and the inequality of section 3. The argument is a budget: the time
  the caller still waits is never less than what the routine can still take;
* `NoStaleTeardownHolds`: `[]NoStaleTeardown` from `SettleTime > 0`: time passes only
  when the work queue is empty, so no item outlives the settling;
* `SoftapReachableHolds`: `[]SoftapReachable` from `SettleTime > 0` and a `poll` that
  does not fail;
* `ContractKept`: `Spec => KeepsContract`, the refinement, from `SessionLimit >
  SettleTime` and phones that send no passphrase that is too long (with one,
  `torn_pair`). Every step maps to a step of `ProvContract` or to a stutter.

`ProvScan_proofs`: `ScanTypes`, `WakeupHolds`, `ListHolds`, `PassesHold`,
`ListStaysHolds` for every size of the list, number of rescans, timeout and build.
The strengthening says that one scan at most is on its way after a quiet start
(`OneScan`), that the retry flag is up only between an empty pass and its work item
(`RetryOfEmpty`), and that scans started, rescans left and items queued together
stay within the budget (`CostBounded`).

`ProvSec1_proofs`: `ContextHolds` and `ReadyHolds` for any number of phones and
faults, from `Ownership`: whose the context is over either transport, and that an
answer is on its way only to that phone, which alone can learn the key.

`StreamTypes` and `InStepHolds`, of the two places in the cipher stream, need more.
`InStep` speaks of two ends at rest; whether they will be at the same place is decided
while a message is under way. `Talk` says what a phone waits for when a message is on
its way, `Said` and `Together` how far it is ahead by then (by the length of what it
sent, until the device has read it; behind by the length of the answer, until it has
read that), `Walked` and `Apart` that only faults move the two ends apart, by at most
two places for each. The last two bound the variables for any number of faults, so the
ranges in `TypeOK` follow from the steps and cut nothing off.

`ProvSockets_proofs`: `SocketTypes`, `OwnHolds`, `TakesHolds`, `LiveHolds`,
`NothingLeftHolds`, `AppSocketsHold` for any set of descriptors, sessions and
cancels. The invariant says of each thread what its own copies and the globals name
(`HttpOwns`, `DnsOwns`, `RoutineOwns`), of a closer in the middle that either its
number is still the socket it loaded or the compare-and-set will fail
(`ClosersHold`), and of a session that nothing is under way when it begins (`Begun`,
`Ended`, `Undisturbed`) and nothing of it is open without a name (`NothingLost`).

`ProvPage_proofs`: `PageHolds`, `PagingHolds` for every list, start and count. Two
facts carry it: an entry takes at most 60 bytes, so eight fit in 480
(`EntryBound`, `RoomForEight`), and what the phone knows is a prefix (`Known`).

`ProvPb_proofs`, for every width of a word, every message and every length:

* `EveryViewInside`: `[]ViewsInside` for all bytes. `PbInv` adds where the readers are
  (`Inside`), that a submessage ends before what follows it, and that the command found
  in a session message is one of the four.
* `ParsersComeDown`: every step of a parser ends it or makes `Left` smaller, which is a
  natural number. `Left` counts a session message twice, since its payload is read after
  it. This is all that `AlwaysEnds` rests on but the fairness.
* `VarintReadBack`: what `pb_put_varint` writes is what `pb_pull_varint` reads.
* `MessageReadBack`: `[]RoundTrip`, for every well-formed message. `FormInv` says that a
  running parser is at a place of the message: behind the first `k` of its fields
  (`InMessage`), behind `j` of those of the submessage it is in (`InSub`), or in the Sec1
  payload that it has found (`InPayload`); and that what it has found is what the fields
  up to there say (`Heard`). The lemmas below it: a varint, a tag and bytes that lie in a
  message are read as they were written (`VarintAt`, `TagAt`, `BytesAre`), so a field is
  read as it was, or skipped to its end whatever its wire type (`FieldAt`); behind it
  lies the next one (`StandNext`); and one field more changes what all of them say under
  its own name only (`LastGrows`, `Silent`).

The writers and the library's `FlattenSeq` recur over data. The induction theorems of the
library, which take an operator, cannot be used for that. `LeastNumber` is used instead: a
claim that fails somewhere fails at a least number, and a recursion that comes down in a
rank has a function that obeys it (`Recursion`).

The assumption, `PbAssumption`: a word of 32 bits is not wider than one of 64; the longest
varint that is read is as long as any of 64 bits (ten bytes, the loop's bound); the
messages called well formed are (`WellFormed`): numbers that a parser keeps fit its word
and are not the mark it uses for a missing one (0xffffffff), a field that holds a
submessage holds one, and there is one Sec1 payload, one key and one proof. With two of
these the code takes the last payload, or the first key or proof, which is not what the
reference definition says; protobuf would merge or take the last, and no encoder
writes them twice.

`ProvHttpStream_proofs`: `BodyIsOwnHolds`, `HandledOnceHolds`, `KeepsInStepHolds` for
all sizes of buffers, requests and cuts. The main lemma (`OwnEnd`): with the buffer at the start of a
request, the first empty line in it is that request's own, and when there is none
the header did not fit. `Behind` orders what was handled by where it starts.

Assumptions of the finer modules are their `...Assumption`s: constants are of their
types, timeouts are not 0, the header's buffer has room for an empty line, the list is
short against a word. TLC evaluates them in every run.

Model-checked only: the liveness properties (`StopEndsRoutine`, `RunReturns`,
`ScanEnds`, `Recovers`, `StopEndsWorkers`, `AlwaysEnds`, `HandlesAll`), which are out of the
prover's reach. Every safety invariant and every action property that a passing run checks
is stated by a theorem. Of `AlwaysEnds` the safety half is proved (`ParsersComeDown`).

## 5. What is not modelled

* The protobuf builders other than the page of scan results: straight lines of
  constant tags and sizes into buffers that are larger than any of them.
* Long (prepared) GATT writes and the response buffers of the endpoints: the module
  refuses offsets by bounds alone, and the host stack assembles what is long.
* The split of `esp_prov_ble_stop`: a central that connects in the middle of it is, for
  all the properties say, one whose link outlives the session, and that is modelled.
* Which credentials are meant when they change between `CmdApplyConfig` and the end:
  the model takes the steps, the documents do not say.
* A socket of the application that is *shut* by a stale number: the model takes the
  steps, and nothing promises that it cannot happen.
* A client that sends a request before it has its answer: the code drops what came
  with the header and is longer than the body, so such a client loses requests.
* The comparison of header names and paths, DNS packets, cookies' values, the bytes of
  cryptography, stack sizes, logging, tracing, SoftAP event callbacks (they log and
  dump leases), the DRBG prewarm.
* The sample shell application: a console menu that calls `esp_prov_run` from one
  thread; what it relies on is `ProvContract`.
