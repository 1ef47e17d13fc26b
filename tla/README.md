# Verification of the remote device visualization console

TLA+ models of the programs in this repository, the TLC configurations that
check them on small instances, and proofs checked by TLAPS of what holds for
every instance. Paths below are relative to the repository root (`src/` in
`PROJECT.json`); `server:257` stands for `apps/server/main.cpp:257`, likewise
`loadgen`, `viewer` and `simulator`, and `worker` for
`apps/viewer/network_worker.cpp`.

    tlc -workers 2 -config MCServer.cfg MCServer
    tlapm ServerProofs.tla

## 1. The system

| Part | State | Operations | Talks to |
|---|---|---|---|
| Telemetry server (`apps/server/main.cpp`) | line buffer per descriptor, set of clients, set of viewers, counters, stop flag | epoll loop: accept, receive, take lines, HELLO, STATUS, reject, ACK, broadcast, disconnect, METRICS report, signal | clients over TCP, status store, MQTT bridge |
| Status store (`libs/common`) | latest status per device | `upsert`, `size` (`find` has no caller) | called by the server |
| Protocol (`libs/protocol`) | none | parse STATUS, parse and format METRICS | server, viewer |
| Load generator (`apps/loadgen/main.cpp`) | per connection: phase, sequence, receive buffer; send credit, turn, sent / acked / errors | connect all, handshake loop, send in turn at a rate, receive ACKs, summary | server |
| Viewer (`apps/viewer/main.cpp`, `network_worker.cpp`) | UI thread: pending statuses, table, map, button, label; worker thread: socket, receive buffer | flush timer, click, shutdown; connect, disconnect, read, parse, emit | server; the two threads through posted calls and shared variables |
| Simulator (`apps/simulator/main.cpp`) | none | connect, send one line, perhaps wait for its ACK, end | server |
| Fleet map, metrics chart (`apps/viewer`) | devices, pan and zoom; a bounded series | upsert, fit, select, paint; append, paint | viewer |
| MQTT bridge (`apps/server/mqtt_bridge.cpp`) | enabled flag, library client with a thread of its own | start, publish | server, broker |

The hard behaviours, each a row of `hazards` in `PROJECT.json` with its line:

* the server handles a *batch* of events that name descriptors, while it closes
  and accepts descriptors in the middle of the batch (`server:445-488`);
* TCP splits and merges lines, ends a stream behind a last line, and reports a
  reset, and `send()` on a full buffer cuts or drops a line (`server:334`);
* the load generator's loop ends only when every report is answered
  (`loadgen:394`), and connections can be lost, refused or slow;
* the lambdas of the viewer that name no receiver run in the worker thread and
  share variables with the UI thread without a lock (`viewer:247-288`), and
  shutdown races with posted calls (`viewer:294-296`);
* numbers have limits, and four programs write and read the same lines in
  separate code.

What makes each part correct, in a line: the **server** keeps its tables in
agreement, mixes no two connections, counts and handles each line once, sends
each client only what is its own, in order, and keeps running; the **load
generator** accounts for every report, measures the answered one, treats its
connections alike and ends; the **viewer** loses no status, joins no bytes of
two connections, says Connected of a connected socket alone and quits; the **protocol**
reads what the programs write and rejects the rest as a whole.

## 2. Modules

| Module | Models | Checked by |
|---|---|---|
| `Server` | server, store, kernel sockets, clients | `MCServer`, `MCRelay`, `ServerProofs`, `ServerStreamProofs` |
| `Relay` | abstract specification of the server | through `ServerRelay` |
| `ServerRelay` | the refinement mapping from `Server` to `Relay` | `MCRelay`, `RelayProofs` |
| `Loadgen` | load generator, with its server and network reduced to what it sees | `MCLoadgen`, `LoadgenProofs` |
| `System` | `Loadgen` and `Server` over the same sockets | `MCSystem`, `SystemProofs` |
| `Viewer` | viewer's two threads, Qt's queues, the connection | `MCViewer`, `ViewerProofs` |
| `FleetMap` | the fleet map: devices, view, mouse, painting | `MCWidgets`, `WidgetProofs` |
| `DeviceAges` | ages and STALE in table and map, with the timers | `MCWidgets`, `WidgetProofs` |
| `MetricsChart` | the chart's series, appended to and painted by two threads | `MCParts`, `WidgetProofs` |
| `MqttBridge` | the bridge, with libmosquitto's thread | `MCParts`, `PartsProofs` |
| `Protocol` | parsers and writers of the two line formats | `MCParts`, `PartsProofs` |
| `ServerProofs`, `ServerStreamProofs`, `RelayProofs`, `LoadgenProofs`, `SystemProofs`, `ViewerProofs`, `WidgetProofs`, `PartsProofs` | theorems (section 4) | `tlapm` |

### Server

`pc` is the place in `run_event_loop`: `loop` (the test of `g_should_stop`),
`wait` (epoll_wait), `events` (between two events of the batch), `accept`
(inside `accept_ready_clients`), `lines` (the inner `while` of one client),
`acked` (between the `send()` of an ACK and `++counters.ack_sent`), `report` (`print_metrics_if_due`), `stopped`, `failed` (an exception has reached
`main`). The containers keep their names. `events` is the rest of the batch,
`cur` and `still_connected` the locals of the inner loop. `fd_table` is the
kernel's: the connection behind each descriptor; `peer[c]` is the connection as
the kernel of the server sees it (`fin`: the client closed after reading
everything, `rst`: with bytes unread, `dead`: the server wrote to a closed one).

A line travels as two chunks, of which the second carries the newline. That is
the smallest representation in which a line can be split between two `recv()`
calls, merged with the next, or cut by a short `send()`.

One action per step of the loop; a client may act between any two. `recv()` is
repeated until `EAGAIN` (`server:242-257`): the model receives all there is in
one step, since bytes that arrive between two rounds could as well have
arrived before the first. `accept()` is one step per connection because
descriptors and the backlog are shared with other steps; the last round wants a
descriptor before it looks for a connection, so that a table that is full throws
also when nobody waits. A STATUS is handled in one step (store, ACK, broadcast), as
no client's step in between could make a difference but to how full its own queue
is, which is arbitrary anyway. The count of the ACK is a step of its own
(`CountAck`), because the client may have the ACK before: in `System` it may act on
it. (In the code the broadcast comes behind the count; no client sees the count.)

A signal sets `g_should_stop` at any place. It ends a wait only where the loop
is in one: if it comes between the test (`server:434`) and `epoll_wait`, the wait
begins all the same, and its limit of a second is what leads back to the test
(`EpollTimeout`).

Faults that are modelled: split lines, short and refused `send()`, close with
and without unread bytes at any moment, a client that closes in the middle of a
line, descriptors exhausted, signals.

`SendBuf >= 2`: a send buffer that cannot hold one line would make the server
unable to acknowledge anything; the kernel's smallest is 4608 bytes.

### Relay and ServerRelay

`Relay` is what a client may rely on, in terms of clients only: one queue from
the client's `send()` to the handling of a line, handled whole, in order and
once; a status stored, acknowledged and offered to the other viewers; nobody let
go before the complete lines it wrote are handled. The mapping puts a
connection's buffer and its kernel queue together, and forgets descriptors,
batches, epoll and counters. `ImplementsRelay` is checked as a property of
`Server`'s `Spec`. It is a statement of safety: `Relay` has no fairness.

### Loadgen

`pc`: `connect`, `handshakes` and `hevents` are `connect_clients`; `loop`,
`send`, `poll`, `acks` are `run_loadgen`; `done` and `aborted` are the ends.
`sent` (between `send()` and `++sent`) is a place of its own, since the server may
have the report, and the client the answer, before the report is counted.
`order` is the iteration order of the `unordered_map`, fixed but unknown.
`acked` is `latencies.size()`. The credit is counted in whole reports: `Tick`
adds any number, up to `Quota` in all, which is the bound `rate * duration`
that the code's arithmetic has (`loadgen:399-402`). `over` is the clock having
passed `test_end_ms`; the loop reads it in its condition and again in
`current_ms`, and `Tick` lets the time run out in between: `in_time` is what the
second reading said. The server appears
as far as a client sees it: a handshake completes or is refused, an ACK comes in
two pieces, a connection is closed or reset. The set `Faults` says which faults
an instance has.

A `send()` that finds no room ends the sending of this round like the turn of a
client that is not ready (the same `break`), which is one action of the model. One
that takes a part of the line throws (`loadgen:237-239`) on a live connection as
one on a reset connection does: the fault `cut` (`SendThrows`).

### System

`System` extends `Server` and instantiates `Loadgen` with the server's
connections; the variables that both modules have are renamed (`lg_pc`,
`lg_events`, `lg_inbox`). What each module imagines of the other is replaced: the
clients of `Server` only do what `Loadgen` does, and `Deliver`, `Establish`,
`Refuse` and `ServerCloses` of `Loadgen` happen together with the step of
`Server` that causes them, or when it has ended. Between them is the network:
the first part of a line is in the server's kernel when `send()` returns, the
rest follows by itself (`RestOfLine`), an ACK comes in two pieces (`Arrival`), the
server learns of a close behind the bytes (`ClientGone`), by a reset if the
client left bytes unread. The load generator may be killed at any moment, also
between an ACK and its reading. `AcksAsExpected` is what justifies the
environment of `Loadgen`: what its `reply` says is on its way is on its way.

The fault `cut` is not in `System` (`SystemAssumption`): a socket buffer holds many
of these lines, and a connection has at most one under way. `System` thus does not
show what a line that was cut by the load generator does to the server; in `Server`
any client may end in the middle of a line.

### Viewer

The signals `connected`, `disconnected`, `errorOccurred`, `statusReceived` and
`metricsReceived` are connected to lambdas without a receiver object
(`viewer:247-288`): Qt calls those in the emitting thread, the worker.
`statusMessageChanged` is connected to the label and is queued to the UI thread.
`invokeMethod` to the worker is queued as well. `ui` and `worker` are the places
of the two threads.

The flush (`viewer:204-221`) is taken apart: start, one step at the beginning
and one at the end of the copying of an entry, the `clear()`, the hand-over to
the map. What is undefined is nondeterministic: a status stored while its entry
is read may show in either copy, in part; an entry inserted during the
iteration may or may not be visited; an insertion during the iteration or the
`clear()` may crash the program (`ui = "crashed"`). `raced` remembers the
devices whose last status came during a flush.

Qt itself is external: `QTcpSocket` emits `disconnected` only if it was
connected, waits for unwritten bytes before it closes, connects a socket that is
asked to disconnect meanwhile and then closes it, and refuses to connect one
that is closing. `QThread::quit` ends the event loop after the event in
progress, with or without those still queued.

### FleetMap

One action per event handler, as the UI thread runs them one at a time; `mouse` is
where the mouse is and `last_mouse_position_` where the code believes a drag is.
Lengths are in tenths of a pixel and the scale in tenths of a pixel per unit, so
that the constants of the code (margins, 12 percent, limits 2, 80 and 140, factor
1.15) are themselves; a view computed in one order and in another may differ by
a rounded tenth. Of the doubles that are no numbers only what IEEE arithmetic
makes of them is kept: `std::min` and `std::max` skip a NaN, an infinite
coordinate gives the axis an infinite span and a centre that is not a number, and
a marker that has no finite position is not drawn. An axis on which every
device reports NaN ends in an infinite `pan_`, which is written `NaN` as well: it
shows nothing either, and no drag or zoom makes it finite. (`QRectF::contains`
lets a NaN pass at `fleet_map_widget.cpp:242`, and `drawEllipse` then draws
nothing.) `wanted` is no variable of the code: it is the view that the user's last
drag or turn of the wheel made, until a double click. Of devices equally near
to the mouse any may be picked, since the order is that of an `unordered_map`.
The initial scale 1 stays until the first fit.

### DeviceAges

The flush with `set_device_row`, the timer of the table, the timer and the
painting of the map, and the clock, in units of the map's timer (500 ms; the flush
period is less than one unit). The module states what the UI thread promises as
long as it keeps up: the clock does not pass a timer that is due. In `Viewer` the
same flush is taken apart into steps, without a clock.

### MetricsChart

`appendSample` is called by the worker and `paintEvent` by the UI thread (see
`Viewer`). Both are taken apart into steps; a painting during which the worker is
inside `appendSample` draws `Undefined` or crashes the program. `update()` out of
the worker, which Qt does not allow, asks for a painting, or asks for none, or
crashes the program. Nothing is therefore promised of the two threads together:
the properties are about the series between two appends and about a painting that
met none. The paths are computed with the divisors of `build_path`.

### MqttBridge

`bridge` is the place in `main`: in `start()`, in the event loop, in the
destructor, which runs when the loop returns and when it throws. The library is
modelled by what its documentation says of the calls used here:
`mosquitto_connect` opens the socket before it returns, `publish` without a socket
fails, with one it queues; at QoS 0 the queue is lost with the connection, above
it would be sent again; `loop_stop` with force cancels the thread, without it it
waits for the thread, which ends after `mosquitto_disconnect` only; `disconnect`
writes what the socket takes of the queue. The subscription is left out:
`handle_connect` queues a SUBSCRIBE and passes over what becomes of it, and
`handle_message` only prints. `start()` returns at each of its calls
that can fail, and `StartWithoutMqtt` is the build without the library.

### Protocol

A line is a first word and tokens; a value is a sign, digits and what follows,
as `std::from_chars` takes it apart. Integers have their width as constants
(`Bits`, `IntBits`), so that a small instance reaches the limits. What the writers
are given is constants, too: the ids and coordinates that a user of the simulator
types (`Ids`, `Coordinates`), the indices of the load generator's clients, times and
the values of the ten counters (`Numbers`, for each counter on its own). A text of
the user with a blank in it makes other tokens of the line; that is a line of
`Foreign` tokens. The split of a
line at spaces and the trimming of its end are abstracted. The parsers take one
token after the other (`ParseToken`), by a recursive function. Each behaviour is one
line being written: by one of our programs in one step, or token by token by a
program we do not know; it then ends, hence `CHECK_DEADLOCK FALSE`.

## 3. Runs

| Run | Instance | Properties |
|---|---|---|
| `server` | viewer, load generator, simulator; 3 descriptors; 4 lines; `SendBuf` 3, batch of 2, no report | 6 invariants |
| `relay` | 2 clients that view and report on one device, with 2 lines and 1, one of them may be rejected; `SendBuf` 3, batch of 1, 1 report | routing, order, store, counting, `ImplementsRelay` |
| `server_keeps_running` | as `server`, fewer lines | `KeepsRunning` is **violated** |
| `system` | load generator with 2 connections, 2 reports, timeouts, a kill; the server with 3 descriptors, a batch of 2 and a signal | `AcksAsExpected`, `CountsAgree`, `ServerOutlivesLoadgen` |
| `system_live` | the same with 1 report, fairness | `StopsOnSignal`, `RunEndsWithServer`, `ConnectionsReleased` |
| `loadgen` | 3 connections, 4 reports, batch of 2, all faults | 5 invariants |
| `loadgen_lost` | 2 connections, 2 reports; the server may close; fairness | `RunEnds` is **violated** |
| `viewer` | 2 devices, 2 lines, 3 clicks, fairness | 4 invariants, `QuitCompletes` |
| `viewer_loses_updates` | 2 devices, 2 lines, 1 click | `UpToDate` is **violated** |
| `widgets` | map: 2 devices, 4 positions (one infinite, one NaN), 3 sizes (one collapsed), 2 gestures; ages: 2 devices, stale after 4 units, clock to 9 | map: 3 invariants and 1 action property; ages: `StaleInTime` |
| `fleet_blank` | as `widgets` | `FleetDisplayed` is **violated** |
| `parts` | protocol: 8-bit numbers, 2 ids, 5 coordinates, 5 clients, 3 values of each counter, lines of up to 4 of 17 foreign tokens; chart: 3 of 5 samples; bridge: 3 statuses; fairness of the destructor | 3 of the protocol, 2 of the chart, 2 of the bridge |

`MCWidgets` and `MCParts` put modules that share no state into one run: in each
behaviour one of them moves. Their deadlock check is off because the clock of
`DeviceAges` is bounded, a line ends, and a bridge is destroyed.

**What the server runs show.** `TablesAgree`, `NoStaleEvent`,
`BytesStayWithConnection` and `ActiveMatchesCounters` are about descriptor reuse:
the code closes only the descriptor whose event it handles, each descriptor is
in the batch once, and every table is cleaned before `close()`, so a descriptor
that `accept()` hands out within the batch has no event left in it. Consequently
the branch `server:455-458` is never taken. `Routing`, `ViewerStreamOrdered` and
`ViewerNeverAheadOfStore` are about who hears what: also a client that reports
and views never hears itself, and what a viewer reads is in order even when its
queue overflows (the pieces of a cut line and its missing neighbours are what it
may lose). `EveryLineCountedOnce` covers the lines received with the end of the
stream. `AckOwed` is stated for clients that do not view: one
that does can have its send buffer filled by broadcasts, and its ACK is then cut
or dropped, which `MCRelay` reaches. `AckOwed` thus relies on the fact that a
client waiting for an ACK has nothing else in its queue.

**What the load generator's runs show.** `ReportsAccounted` relates four
quantities that the code changes in four places. `AckMatchesReport` says the
bytes between the server and the client are the answer to the report in flight,
so no latency belongs to another report. `ClientsTakeTurns` holds while no
connection is lost; after that the turns shift, and the code promises nothing.
`SummaryIsComplete`: a run that ends normally has an answer for every report, also
where the time runs out between the two readings of the clock.

**What the system runs show.** The environment each program was checked in alone
is the one it has (`AcksAsExpected`). `CountsAgree` orders the four places where
two programs count the same reports. Each program counts behind its `send()`
(`server:471-472`, `loadgen:409-410`), so that the other may be ahead by the one
report, or ACK, between the two, and stays ahead by the report if the load generator
is killed there; the property has this one and no other slack. With
`SummaryIsComplete` the counts are equal after a run without errors.
`ServerOutlivesLoadgen` bounds the first disagreement below: of the repository's
own programs, the load generator brings the server down only if it is killed with
an ACK unread, never by ending, whatever the deadline does (and, which the theorem
covers and the run does not, a signal to the load generator).
`RunEndsWithServer` says that the second one needs the server to end: nothing
else makes the load generator wait for ever. `ConnectionsReleased` covers also
the connections that were in the middle of a line or in the backlog.

**What the widgets run shows.** `FitIsCurrent` is about the order of updates,
resizes and double clicks, with the widget collapsed in between; `FleetInView` is
that a fit is right at all: every marker is inside the plot area itself. `UserViewIsKept`
compares the view with the one that the user's last gesture made (`wanted`), not with
a flag of the code: a gesture that left the auto fit on would fail at the next update.
`PointUnderMouseStays` is what a gesture does. `FleetInView` leaves out a fleet that is wider than
the smallest scale shows (the area in pixels over 2.48): part of it is then
outside although the auto fit is on. `StaleInTime` relates the rows of the table,
whose texts are cached and refreshed by a timer, and the shades of the map to the
silence of each device: none is early, none later than one period.

**What the parts run shows.** For the protocol, that what our programs write is
read back, and what they do not write is read as its last tokens say or rejected
as a whole. For the chart, that the series is the newest samples, and that a
painting which met no append fills the plot area and stays in it; what its two
threads do together is undefined, and no property is about it. For the bridge, that its destructor ends (`BridgeEnds`: with `force` only, as it
stops the thread before it disconnects) and that the broker gets no status twice
or out of order (`AtMostOnceInOrder`, which rests on QoS 0).

**What the viewer's runs show.** Apart from the race, nothing is lost
(`UpToDateUnlessRaced`), no bytes survive a reconnect, the button agrees with the
socket between two calls of the worker, and so do all texts of the label once the
posted ones are shown, but one (`OnlyConnectingIsStale`): `errorOccurred` sets Error
directly (`viewer:263-265`), and the Connecting that was posted before then covers it
and stays, over a socket that failed. `QuitCompletes` holds in every state of the connection. The
configuration turns the deadlock check off because a program that hangs in
`wait()` is what the property itself excludes.

### Disagreements with the documentation

1. `KeepsRunning`: `recv()` on a connection that was reset throws
   (`server:257`) and ends the server; README.md:184 says it keeps running until
   Ctrl+C. A client that is closed before it has read its ACK or a broadcast
   suffices. `accept()` without free descriptors (`server:220`) does the same.
2. `RunEnds`: a connection lost while it waits for an ACK makes the loop
   condition `loadgen:394` true for ever; no summary, no exit code 1.
3. `UpToDate`: a status stored between the copying of its entry and `clear()`
   (`viewer:219`) is never shown, unless the device reports again.
4. `FleetDisplayed`: one device with an infinite `x` or `y`, which the parser
   accepts, makes the centre of the fit not a number
   (`apps/viewer/fleet_map_widget.cpp:117`, `:151`), and no marker is painted;
   README.md:773 says the map displays the devices of the load generator. A
   double click repeats the same fit, and devices are never removed.

The comment `viewer:292-293` is optimistic in the same way: the posted request to
close the socket may never run before the thread stops (`viewer:294-295`), and
the deletion of the worker closes it. The model has those behaviours
(`WorkerFinishes` does not wait for `worker_queue`); as nothing follows from them
for the user, no property is about it.

### Bounds, and why they are enough

Three connections on three descriptors are what a reuse needs: one to leave, one
to take its descriptor, one to be sent to, and a descriptor for `accept()` to find
that nobody waits. Two events per batch let one event be
about a descriptor that the other has closed; with `MaxEvents` 1 (`MCRelay`)
ready descriptors are left for the next wait. Two lines in a row from one client
make merged lines and a second ACK possible; with `SendBuf` 3 a second line is
cut, and a third dropped. One METRICS report meets a full queue (`MCRelay`; the other large runs
have none, since it goes the way of a STATUS). Three
connections of the load generator are needed for a turn that shifts, four
reports for a client's second turn. In the viewer a status, a second one of the
same device are two lines, and a line of METRICS or a bad one may take the place
of either; connect, disconnect, connect are three clicks. For the protocol, a token that is right, its repetition, the
mandatory field and a wrong one are four.

In `relay` both clients have a descriptor each; reuse of descriptors is the
`server` run's. Two reports of the load generator, on either connection, are what
`CountsAgree` needs to tell an answer of the one from one of the other; liveness
in `system_live` is about one report, as the second goes the way of the first. Its
descriptors are numbers, of which `accept()` hands out the lowest, as POSIX says
(`LowestFirst`); the other runs leave the choice open, which symmetry makes cheap.
In the map two devices span a fleet, and a position each of an infinite and a
missing number are combined with finite ones on the other axis; two gestures are a
drag and a zoom in either order. The ages reach one unit behind the moment when
both timers must have fired. Three samples are the first series with an inner
point, and the fourth and fifth are dropped from a full one.

Every bound is a constant: `LineLimit`, `SendBuf`, `MaxEvents`, `MaxMetrics`
(`Server`), `Quota` (`Loadgen`, `System`), `LineLimit`, `ClickLimit` (`Viewer`),
`LineLimit`, `Bits`, `IntBits` (`Protocol`), `GestureLimit` (`FleetMap`), `Horizon`
(`DeviceAges`), `MaxSamples`, `SampleLimit` (`MetricsChart`), `PublishLimit`
(`MqttBridge`). Symmetry is used over descriptors, connections and devices, in
runs of invariants and of action properties only; the `CHOOSE`s in the models are
of unique values. `SysFairness` is checked with the iteration order of the load
generator fixed (`MCFairSpec`), which symmetry of the connections would otherwise
stand for.

### Fairness

* `System`: weak fairness of the server's loop and of the load generator (two
  threads that run), and of clock and network together (time passes, TCP
  delivers). None of signals and of the kill. The server's loop cannot be kept in
  one batch for ever, since a batch is finite, a client writes finitely often,
  and `accept()` rounds are bounded by the connections there are.
* `MqttBridge`: weak fairness of the destructor's steps only; the library's thread
  and the broker owe nothing.
* `Loadgen`: weak fairness of the program, of the clock, of handshakes and of the
  delivery of what the server owes. None of faults.
* `Viewer`: weak fairness of both threads' own steps and of the end of a thread
  that was told to quit; none of the user and the network.

## 4. Proofs

Every safety property that a passing run checks, invariants and action properties
alike, is a theorem too, and so is the refinement of `Relay`: the runs show them
on small instances, the theorems for every value of the constants. The constants
are restricted only by the assumptions of the modules, which TLC evaluates in the
runs:

* `ServerAssumption`: finite sets of connections and descriptors, `SendBuf >= 2`,
  at least one event per batch. `LoadgenAssumption`: a finite number of clients,
  at least one. `SystemAssumption`: every client of the system reports and asks for
  an ACK, as the load generator does. `ViewerAssumption`: the bounds are numbers.
* `FleetMapAssumption`: finitely many devices; the infinities and NaN are not
  numbers. `AgesAssumption`: a fresh age below the stale one, as in the code (1.2 and
  5 seconds), and no device that reports the state "STALE". `ChartAssumption`: a
  plot with room.
* `ProtocolAssumption`: the integers are wide enough for what our programs write
  as constants (`seq=1`, `battery=87`), which 64 and 32 bits are. `WritersAssumption`:
  ids and coordinates are texts, indices are numbers, times and counters fit their
  width.
  `BridgeAssumption`: the bound is a number.

| Theorem | States | Module |
|---|---|---|
| `TypeCorrect` | `[]TypeOK` of `Server`, with the room of the send buffer | `ServerProofs` |
| `TablesStayInAgreement` | `[]TablesAgree` | `ServerProofs` |
| `EventsStayFresh` | `[]NoStaleEvent` | `ServerProofs` |
| `NoForeignBytes` | `[]BytesStayWithConnection` | `ServerProofs` |
| `RoutingIsCorrect` | `[]Routing` | `ServerProofs` |
| `ActiveCountIsExact` | `[]ActiveMatchesCounters` | `ServerProofs` |
| `ViewersReadInOrder` | `[]ViewerStreamOrdered` | `ServerStreamProofs` |
| `StoreLeads` | `[]ViewerNeverAheadOfStore` | `ServerStreamProofs` |
| `EveryLineCounts` | `[]EveryLineCountedOnce` | `ServerStreamProofs` |
| `AcksAreOwed` | `[]AckOwed` | `ServerStreamProofs` |
| `ServerImplementsRelay` | `ImplementsRelay`, that is `Hub!Spec` | `RelayProofs` |
| `TypesCorrect` | `[]TypeOK` of `Loadgen` | `LoadgenProofs` |
| `NoReportForgotten` | `[]ReportsAccounted` | `LoadgenProofs` |
| `AnswersMatch` | `[]AckMatchesReport` | `LoadgenProofs` |
| `TurnsAreFair` | `[]ClientsTakeTurns` | `LoadgenProofs` |
| `SummaryComplete` | `[]SummaryIsComplete` | `LoadgenProofs` |
| `AnswersExpected` | `[]AcksAsExpected` | `SystemProofs` |
| `CountersAgree` | `[]CountsAgree` | `SystemProofs` |
| `ServerSurvives` | `[]ServerOutlivesLoadgen`, with one descriptor more than connections | `SystemProofs` |
| `TypesCorrect` | `[]TypeOK` of `Viewer` | `ViewerProofs` |
| `LinesAreOfOneConnection` | `[]BufferIsOfThisConnection` | `ViewerProofs` |
| `NoStatusIsLost` | `[]UpToDateUnlessRaced` | `ViewerProofs` |
| `LabelAgrees` | `[]OnlyConnectingIsStale` | `ViewerProofs` |
| `FitStaysCurrent` | `[]FitIsCurrent` | `WidgetProofs` |
| `FleetIsShown` | `[]FleetInView` | `WidgetProofs` |
| `ViewBelongsToUser` | `[]UserViewIsKept` | `WidgetProofs` |
| `MouseHoldsPoint` | `PointUnderMouseStays` | `WidgetProofs` |
| `StaleInGoodTime` | `[]StaleInTime` | `WidgetProofs` |
| `SeriesStaysRecent` | `[]SeriesIsRecent` | `WidgetProofs` |
| `SeriesIsBounded` | the series exceeds its limit only inside `appendSample`, by one | `WidgetProofs` |
| `LinesReachTheEdges` | `[]LinesFillPlot` | `WidgetProofs` |
| `LinesAreTyped` | `[]TypeOK` of `Protocol` | `PartsProofs` |
| `LastTokenWins` | `[]ParserReadsTheLine` | `PartsProofs` |
| `WrittenIsRead` | `[]WritersAreUnderstood` | `PartsProofs` |
| `PublishedInOrderOnce` | `[]AtMostOnceInOrder` | `PartsProofs` |
| `CallbacksHaveClient`, `FailedStartIsQuiet` | the other promises of the bridge | `PartsProofs` |

Almost none of these properties is inductive. What each proof adds, and why:

**Server** (`ServerProofs`, `Inv`). `EventsKnown` strengthens `NoStaleEvent`: while
a client's lines are handled, its descriptor is not in the rest of the batch, so
closing it makes no event stale. `PeersKnown` says a connection in the backlog has
no descriptor, so that none gets two and a new one finds its descriptor without
entries. `LinesOwned` extends `BytesStayWithConnection` to the kernel's queues, and
`ViewersSaluted` says every viewer wrote HELLO, which is what `Routing` rests on
when a line is broadcast. The count of active connections has an induction of its
own on top of `Inv`.

**What the server does with lines** (`ServerStreamProofs`, `StreamInv`). The
properties are about what was handled, and the state has only what was not. The
invariant closes the gap: the unhandled bytes of a connection, in its buffer and in
the kernel, are whole lines as written and perhaps half of one more (`InputKept`),
and everything sent is about lines older than all of these (`OutputOlder`).
`PeersPlaced` and `EndIsLast` say that a connection is known to the kernel from
`connect()` to `close()` and that its end is seen behind its last byte. For
`AckOwed` the conversation with a client that only reports is silent, asking or
answered (`Talk`). The count of lines needs to know that finitely many were
written.

**Refinement** (`RelayProofs`). Each kind of step of `Server` is mapped: a
handled line, a byte that is sent, an accepted and a released connection to
`Relay`'s action, everything else to a stutter (`UnseenIsStutter`). The invariant
needed is `Inv /\ StreamInv`: `Relay` lets nobody go before the lines are handled,
which the server knows from `EndIsLast`.

**Load generator** (`LoadgenProofs`, `Inv`). `Books` relates what is sent, answered,
waited for and lost; `Wire` says that a connection was up before its client is ready;
`Turns` makes fairness exact: as long as nothing is lost, the clients before the turn
have sent once more than those behind it (`sent % N`).

**System** (`SystemProofs`, `SysInv`). The invariants of both programs are kept by the
composed steps; `Ends`, `Linked`, `Counted` and `Calm` relate the two ends of a
connection: where it is in its life, that `reply` is the image of the server's
`outbox`, what each side has counted, and that a load generator that is left alone
loses no connection and leaves nothing unread. `SysInv` was checked by TLC as an
invariant of an instance of `System` before it was proved. `Counted` speaks of `Acked`
and `SentOut`, the counts with the one that is behind its `send()`. `ServerSurvives`
has the hypothesis `Cardinality(Conns) < Cardinality(Fds)`: without a free descriptor
`accept4` throws, also if nobody waits any more, which is the other cause named in the
first disagreement above.

**Viewer** (`ViewerProofs`, `Inv`). `Stream`: the bytes not handled are whole lines of the
current connection, numbered in a row. `Requests`: every connection has its click.
`Known` and `Fresh`: what the table, the map and the local copies of a flush hold of
a device in every phase of the flush. `TextAgrees`: the last text posted, shown or
not, agrees with the socket, unless it is Connecting.

**Widgets** (`WidgetProofs`). `MapInv` adds to the types that a drag starts from where
the mouse is (`DragsFromMouse`); without it a drag would jump, and
`PointUnderMouseStays` is false. `UserOwns` says that while there is a view the user
wants, the auto fit is off. `FleetInView` comes down to the arithmetic of the fit:
a marker at the edge of the bounds is half a span from the centre, and the margins are
larger than what rounding may take. `AgesInv` says that a row, and the shade
of a marker, was right when its timer last fired (`RowAsOf`), which bounds how late it
is by one period. `SeriesInv` says
that the series is the end of all samples also inside `appendSample`.

**Protocol and bridge** (`PartsProofs`). Parsing and number formatting are recursive
functions. A solution of the recursion is shown to exist, and what holds at each of
its steps is proved at the least place where it would fail (`LeastNatural`, from the
well-foundedness of `<`), in place of an induction theorem. `OneTokenMore` is the
step of the parser; `NumbersRoundTrip` says that `std::from_chars` reads what
`std::to_string` wrote, for every number; so `WrittenIsRead` holds whatever a user
types and for all ten counters together. `LineInv` says that a line is either of a
stranger's tokens or one that our programs wrote whole. For the bridge, `Stages` says
what there is at each place of `main`, and `SentInOrder` that what waits in the
library is in order and behind all that was sent.

What proof attempts changed in the models: an infinity that equals a number would hide
a marker that the code shows, hence the assumption on `PosInf`, `NegInf` and `NaN`; extremes
of an infinite fleet do not exist, hence `IsFiniteSet(MapDevices)`; the bound of a line in
`Protocol!TypeOK` was false for a `LineLimit` above 10. `Loadgen`'s turn is given by who is ahead
in the iteration order and the parsers by recursive functions, because the operators
used before could not be reasoned about.

Only model-checked: the liveness properties (`StopsOnSignal`, `RunEndsWithServer`,
`ConnectionsReleased`, `QuitCompletes`, `BridgeEnds`), since the provers know
neither fairness nor ENABLED, and the four violated properties.

## 5. Not modelled

* Building, option parsing, wording of log lines, the placeholder `src/main.cpp`,
  the empty `libs/net`.
* Percentiles and throughput of the summary, the looks of the widgets: grid,
  legend, labels, tool tips, colours other than by age.
* The server's call of `publish_status` and the bridge's state at once: in
  `Server` the call changes nothing, and in `MqttBridge` the server is the numbers
  of the statuses it has handled.
* `rate * duration` of the load generator is computed as an `int` (`loadgen:379`)
  and overflows for large options; `Quota` is the number it should be.
* The wall clock being set: ages are differences of it, and the clock of
  `DeviceAges` only advances.
* What a thread that `mosquitto_loop_stop` cancels leaves behind in the library
  or in `std::cout`, and what Qt makes of a label that is set by the worker.
* The subscription of the bridge and the messages it brings, which it prints.
* What the load generator's `send()` cut in the middle of a line does to the server
  (`System`).
* The simulator's exit code and what it prints; its connection and its line are
  in `Server` and `Protocol`.
* Errors of system calls that the programs answer by ending before they have any
  state (`socket`, `bind`, `listen`, `epoll_create1`, `fcntl`).
* Qt and the kernel, beyond the behaviour described above.

## 6. Plan

Done: all modules of section 2, the runs of section 3, and the theorems of section
4, which state every safety property of the passing runs.

Open:

1. Safety parts of the liveness properties that could be proved: that the server's
   loop has a step enabled in every state before its end, action by action.
2. Hazards that no property covers, because no document promises anything there: a
   connect request that Qt refuses while the socket closes (`worker:26`), the errors
   counted after a timeout of the handshakes (`loadgen:340`), a `send()` that aborts
   the run (`loadgen:409`), and what is painted while the worker appends
   (`viewer:287`).
