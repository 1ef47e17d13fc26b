------------------------------- MODULE Viewer -------------------------------
(***************************************************************************)
(* The viewer of apps/viewer: the UI thread that runs main's event loop,   *)
(* the worker thread that owns the socket (NetworkWorker), the two queues  *)
(* of posted calls between them, and the variables of main they share.     *)
(*                                                                         *)
(* The signals of the worker that main connects to a lambda name no        *)
(* receiver, so Qt calls the lambda in the thread that emits: connected,   *)
(* disconnected, errorOccurred, statusReceived and metricsReceived are     *)
(* handled by the worker.  Only statusMessageChanged has a receiver, the   *)
(* label, and is posted to the UI thread.                                  *)
(***************************************************************************)
EXTENDS Integers, Sequences

CONSTANTS
  Devices,     \* the device ids that statuses are about
  LineLimit,   \* bound: how many lines the server sends
  ClickLimit   \* bound: how often the user clicks the button

ASSUME ViewerAssumption == LineLimit \in Nat /\ ClickLimit \in Nat

\* A line is known by its number, which grows with time; half of it, as TCP may
\* split it, by whether it ends with the newline.
Kinds == {"STATUS", "METRICS", "BAD"}
Chunk == [conn : Nat, n : Nat, kind : Kinds, dev : Devices, nl : BOOLEAN]

VARIABLES
  ui,               \* where the UI thread is
  label,            \* the text of status_label
  viewer_connected, \* the text of connect_button goes with it
  pending_statuses, \* device to the status not shown yet
  table_devices,    \* device to the statuses its row shows parts of
  devices_by_id_,   \* the same for the fleet map
  metrics,          \* the METRICS line the labels show
  todo,             \* the keys the flush has to visit
  statuses,         \* the vector the flush fills
  seen              \* the entry being copied, with what it held meanwhile
widgetVars == <<label, viewer_connected, metrics>>
shownVars == <<table_devices, devices_by_id_>>
flushVars == <<todo, statuses, seen>>

VARIABLES
  worker,           \* where the worker thread is
  socket,           \* socket_, by its state
  pending_close,    \* asked to disconnect while connecting
  unflushed,        \* HELLO written to the socket, not to the kernel
  receive_buffer_,
  quit              \* network_thread->quit() was called
socketVars == <<socket, pending_close, unflushed>>
workerVars == <<worker, socketVars, receive_buffer_, quit>>

VARIABLES
  ui_queue,         \* texts posted to the label
  worker_queue,     \* calls posted to the worker
  wire,             \* sent by the server on this connection, not read
  conn, produced, clicks,
  received,         \* the last status the worker parsed, per device
  raced             \* the devices whose last status came during a flush
queueVars == <<ui_queue, worker_queue>>
netVars == <<wire, conn, produced>>
historyVars == <<clicks, received, raced>>

vars == <<ui, widgetVars, pending_statuses, shownVars, flushVars, workerVars,
          queueVars, netVars, historyVars>>

Nothing == [d \in {} |-> 0]

Init ==
  /\ ui = "idle" /\ label = "Disconnected" /\ viewer_connected = FALSE
  /\ pending_statuses = Nothing
  /\ table_devices = [d \in Devices |-> {}]
  /\ devices_by_id_ = [d \in Devices |-> {}]
  /\ metrics = 0
  /\ todo = {} /\ statuses = Nothing /\ seen = Nothing
  /\ worker = "loop" /\ socket = "null"
  /\ pending_close = FALSE /\ unflushed = FALSE
  /\ receive_buffer_ = <<>> /\ quit = FALSE
  /\ ui_queue = <<>> /\ worker_queue = <<>>
  /\ wire = <<>> /\ conn = 0 /\ produced = 0 /\ clicks = 0
  /\ received = [d \in Devices |-> 0] /\ raced = {}

-----------------------------------------------------------------------------
(* The UI thread: the flush timer.                                         *)

FlushBegin ==
  /\ ui = "idle" /\ pending_statuses # Nothing
  /\ todo' = DOMAIN pending_statuses
  /\ ui' = "rows"
  /\ UNCHANGED <<widgetVars, pending_statuses, shownVars, statuses, seen,
                 workerVars, queueVars, netVars, historyVars>>

\* An entry inserted since may or may not lie ahead of the iterator.
RowBegin(d) ==
  /\ ui = "rows" /\ d \in DOMAIN pending_statuses \ DOMAIN statuses
  /\ seen' = [e \in {d} |-> {pending_statuses[d]}]
  /\ ui' = "row"
  /\ UNCHANGED <<widgetVars, pending_statuses, shownVars, todo, statuses,
                 workerVars, queueVars, netVars, historyVars>>

\* The entry is read twice, for the table and for the vector; each copy has
\* fields of any of the statuses that were there during the reading.
RowEnd(d) ==
  /\ ui = "row" /\ d \in DOMAIN seen
  /\ \E row, copy \in (SUBSET seen[d]) \ {{}} :
       /\ table_devices' = [table_devices EXCEPT ![d] = row]
       /\ statuses' = [e \in DOMAIN statuses \cup {d} |->
                         IF e = d THEN copy ELSE statuses[e]]
  /\ seen' = Nothing
  /\ ui' = "rows"
  /\ UNCHANGED <<widgetVars, pending_statuses, devices_by_id_, todo,
                 workerVars, queueVars, netVars, historyVars>>

RowsDone ==
  /\ ui = "rows" /\ todo \subseteq DOMAIN statuses
  /\ ui' = "clear"
  /\ UNCHANGED <<widgetVars, pending_statuses, shownVars, flushVars,
                 workerVars, queueVars, netVars, historyVars>>

ClearPending ==
  /\ ui = "clear"
  /\ pending_statuses' = Nothing
  /\ ui' = "upsert"
  /\ UNCHANGED <<widgetVars, shownVars, flushVars, workerVars, queueVars,
                 netVars, historyVars>>

\* FleetMapWidget::upsertDevices; then the vector goes out of scope.
UpsertDevices ==
  /\ ui = "upsert"
  /\ devices_by_id_' = [d \in Devices |-> IF d \in DOMAIN statuses THEN statuses[d]
                                         ELSE devices_by_id_[d]]
  /\ todo' = {} /\ statuses' = Nothing
  /\ ui' = "idle"
  /\ UNCHANGED <<widgetVars, pending_statuses, table_devices, seen, workerVars,
                 queueVars, netVars, historyVars>>

-----------------------------------------------------------------------------
(* The UI thread: the button, the label, the end.                          *)

ReadFlag ==
  /\ ui = "idle" /\ clicks < ClickLimit
  /\ clicks' = clicks + 1
  /\ IF viewer_connected THEN ui' = "disconnect" /\ UNCHANGED label
     ELSE ui' = "connect" /\ label' = "Connecting"
  /\ UNCHANGED <<viewer_connected, pending_statuses, shownVars, metrics,
                 flushVars, workerVars, queueVars, netVars, received, raced>>

PostRequest ==
  /\ ui \in {"connect", "disconnect"}
  /\ worker_queue' = Append(worker_queue, ui)
  /\ ui' = "idle"
  /\ UNCHANGED <<widgetVars, pending_statuses, shownVars, flushVars,
                 workerVars, ui_queue, netVars, historyVars>>

SetText ==
  /\ ui = "idle" /\ ui_queue # <<>>
  /\ label' = Head(ui_queue)
  /\ ui_queue' = Tail(ui_queue)
  /\ UNCHANGED <<ui, viewer_connected, pending_statuses, shownVars, metrics,
                 flushVars, workerVars, worker_queue, netVars, historyVars>>

AboutToQuit ==
  /\ ui = "idle"
  /\ worker_queue' = Append(worker_queue, "disconnect")
  /\ ui' = "quit"
  /\ UNCHANGED <<widgetVars, pending_statuses, shownVars, flushVars,
                 workerVars, ui_queue, netVars, historyVars>>

\* Waiting for a thread that nobody told to end.
WaitOnly ==
  /\ ui = "quit"
  /\ ui' = "wait"
  /\ UNCHANGED <<widgetVars, pending_statuses, shownVars, flushVars, workerVars,
                 queueVars, netVars, historyVars>>

QuitThread ==
  /\ ui = "quit"
  /\ quit' = TRUE
  /\ ui' = "wait"
  /\ UNCHANGED <<widgetVars, pending_statuses, shownVars, flushVars, worker,
                 socketVars, receive_buffer_, queueVars, netVars, historyVars>>

Waited ==
  /\ ui = "wait" /\ worker = "finished"
  /\ ui' = "returned"
  /\ UNCHANGED <<widgetVars, pending_statuses, shownVars, flushVars,
                 workerVars, queueVars, netVars, historyVars>>

UI == \/ FlushBegin \/ RowsDone \/ ClearPending \/ UpsertDevices
      \/ PostRequest \/ SetText \/ QuitThread \/ Waited
      \/ \E d \in Devices : RowBegin(d) \/ RowEnd(d)

-----------------------------------------------------------------------------
(* The worker thread: posted calls and socket events.                      *)

Running == worker = "loop" /\ ui # "crashed"

\* The texts a disconnection posts, after those already due; and one that says
\* nothing.
ToldNothing(texts) == texts
Told(texts) == texts \o <<"Disconnected">>

\* A disconnection that leaves the bytes it has received.
DisconnectedDirty(texts) ==
  /\ socket' = "Unconnected"
  /\ viewer_connected' = FALSE
  /\ ui_queue' = ui_queue \o Told(texts)
  /\ wire' = <<>>
  /\ unflushed' = FALSE
  /\ UNCHANGED <<pending_close, receive_buffer_>>

\* QTcpSocket becomes Unconnected after having been Connected.
Disconnected(texts) ==
  /\ socket' = "Unconnected"
  /\ receive_buffer_' = <<>>
  /\ viewer_connected' = FALSE
  /\ ui_queue' = ui_queue \o Told(texts)
  /\ wire' = <<>>
  /\ unflushed' = FALSE
  /\ UNCHANGED pending_close

\* connectToServer; Qt refuses to connect a socket that is still closing.
connectToServer ==
  /\ IF socket \in {"Connected", "Connecting"}
       THEN UNCHANGED <<socket, ui_queue>>
       ELSE /\ ui_queue' = Append(ui_queue, "Connecting")
            /\ socket' = IF socket = "Closing" THEN socket ELSE "Connecting"
  /\ UNCHANGED <<viewer_connected, pending_close, unflushed, receive_buffer_, wire>>

disconnectFromServer ==
  CASE socket = "null" ->
         /\ viewer_connected' = FALSE
         /\ UNCHANGED <<socketVars, receive_buffer_, wire, ui_queue>>
    [] socket = "Connecting" ->
         /\ pending_close' = TRUE
         /\ UNCHANGED <<viewer_connected, socket, unflushed, receive_buffer_, wire, ui_queue>>
    [] socket = "Connected" /\ unflushed ->
         /\ socket' = "Closing"
         /\ ui_queue' = Append(ui_queue, "Closing")
         /\ UNCHANGED <<viewer_connected, pending_close, unflushed, receive_buffer_, wire>>
    [] socket = "Connected" /\ ~unflushed -> Disconnected(<<"Closing">>)
    [] OTHER ->
         UNCHANGED <<viewer_connected, socketVars, receive_buffer_, wire, ui_queue>>

TakeCall ==
  /\ Running /\ worker_queue # <<>>
  /\ worker_queue' = Tail(worker_queue)
  /\ IF Head(worker_queue) = "connect" THEN connectToServer ELSE disconnectFromServer
  /\ UNCHANGED <<ui, label, pending_statuses, shownVars, metrics, flushVars,
                 worker, quit, conn, produced, historyVars>>

\* connected(): a request to disconnect that came meanwhile is obeyed now.
SocketConnected ==
  /\ Running /\ socket = "Connecting"
  /\ viewer_connected' = TRUE
  /\ socket' = IF pending_close THEN "Closing" ELSE "Connected"
  /\ ui_queue' = ui_queue \o <<"Connected">> \o (IF pending_close THEN <<"Closing">> ELSE <<>>)
  /\ pending_close' = FALSE
  /\ unflushed' = TRUE
  /\ conn' = conn + 1
  /\ UNCHANGED <<ui, label, pending_statuses, shownVars, metrics, flushVars,
                 worker, receive_buffer_, quit, worker_queue, wire, produced,
                 historyVars>>

\* errorOccurred() sets the label at once; a socket that never was connected
\* emits no disconnected().
ConnectFailed ==
  /\ Running /\ socket = "Connecting"
  /\ label' = "Error"
  /\ socket' = "Unconnected"
  /\ pending_close' = FALSE
  /\ UNCHANGED <<ui, viewer_connected, pending_statuses, shownVars, metrics,
                 flushVars, worker, unflushed, receive_buffer_, quit,
                 queueVars, netVars, historyVars>>

\* HELLO reaches the kernel, and a socket that waited for that closes.
Flush ==
  /\ Running /\ unflushed
  /\ IF socket = "Closing" THEN Disconnected(<<>>)
     ELSE /\ unflushed' = FALSE
          /\ UNCHANGED <<socket, pending_close, receive_buffer_, viewer_connected, ui_queue, wire>>
  /\ UNCHANGED <<ui, label, pending_statuses, shownVars, metrics, flushVars,
                 worker, quit, worker_queue, conn, produced, historyVars>>

\* The server closes or resets the connection, or the network does.
RemoteClosed ==
  /\ Running /\ socket \in {"Connected", "Closing"}
  /\ label' = "Error"
  /\ Disconnected(<<>>)
  /\ UNCHANGED <<ui, pending_statuses, shownVars, metrics, flushVars, worker,
                 quit, worker_queue, conn, produced, historyVars>>

ReadyRead ==
  /\ Running /\ socket = "Connected"
  /\ \E arrived \in 1..Len(wire) :
       /\ receive_buffer_' = receive_buffer_ \o SubSeq(wire, 1, arrived)
       /\ wire' = SubSeq(wire, arrived + 1, Len(wire))
  /\ worker' = "lines"
  /\ UNCHANGED <<ui, widgetVars, pending_statuses, shownVars, flushVars,
                 socketVars, quit, queueVars, conn, produced, historyVars>>

WorkerFinishes ==
  /\ Running /\ quit
  /\ worker' = "finished"
  /\ UNCHANGED <<ui, widgetVars, pending_statuses, shownVars, flushVars,
                 socketVars, receive_buffer_, quit, queueVars, netVars,
                 historyVars>>

-----------------------------------------------------------------------------
(* The worker thread: consume_status_lines.                                *)

HasLine == \E i \in DOMAIN receive_buffer_ : receive_buffer_[i].nl
Newline == CHOOSE i \in DOMAIN receive_buffer_ :
             receive_buffer_[i].nl /\ \A j \in 1..(i - 1) : ~receive_buffer_[j].nl

\* Two assignments that are none: emplace of an element already there, and one
\* that leaves the element as it was constructed.
Emplaced(map, d, n) ==
  [e \in DOMAIN map \cup {d} |-> IF e \in DOMAIN map THEN map[e] ELSE n]
Constructed(map, d, n) ==
  [e \in DOMAIN map \cup {d} |-> IF e = d THEN 0 ELSE map[e]]

\* pending_statuses[status.device_id] = status
Assigned(map, d, n) ==
  [e \in DOMAIN map \cup {d} |-> IF e = d THEN n ELSE map[e]]

Flushing == ui \in {"rows", "row", "clear"}

\* The lambda of statusReceived, run by the worker.  While the UI thread
\* iterates over the map or clears it, anything may happen to both.
Store(d, n) ==
  /\ pending_statuses' = Assigned(pending_statuses, d, n)
  /\ seen' = [e \in DOMAIN seen |-> IF e = d THEN seen[e] \cup {n} ELSE seen[e]]
  /\ received' = [received EXCEPT ![d] = n]
  /\ raced' = IF Flushing THEN raced \cup {d} ELSE raced \ {d}
  /\ \/ UNCHANGED ui
     \/ Flushing /\ ui' = "crashed"

ConsumeLine ==
  /\ worker = "lines" /\ HasLine /\ ui # "crashed"
  /\ LET line == receive_buffer_[Newline]
     IN  \/ /\ line.kind = "METRICS"
            /\ metrics' = line.n
            /\ UNCHANGED <<ui, pending_statuses, seen, received, raced>>
         \/ line.kind = "STATUS" /\ Store(line.dev, line.n) /\ UNCHANGED metrics
         \/ line.kind = "BAD" /\ UNCHANGED <<ui, metrics, pending_statuses, seen, received, raced>>
  /\ receive_buffer_' = SubSeq(receive_buffer_, Newline + 1, Len(receive_buffer_))
  /\ UNCHANGED <<label, viewer_connected, shownVars, todo, statuses, worker,
                 socketVars, quit, queueVars, netVars, clicks>>

LinesDone ==
  /\ worker = "lines" /\ ~HasLine /\ ui # "crashed"
  /\ worker' = "loop"
  /\ UNCHANGED <<ui, widgetVars, pending_statuses, shownVars, flushVars,
                 socketVars, receive_buffer_, quit, queueVars, netVars,
                 historyVars>>

-----------------------------------------------------------------------------
(* The server, which answers a HELLO with a stream of lines.               *)

\* A line that is no status is about no device: any will do.
AnyDevice == CHOOSE d \in Devices : TRUE

ServerSends ==
  /\ socket = "Connected" /\ ~unflushed /\ worker # "finished"
  /\ produced < LineLimit
  /\ \E kind \in Kinds, d \in Devices :
       /\ kind # "STATUS" => d = AnyDevice
       /\ LET half(nl) == [conn |-> conn, n |-> produced + 1, kind |-> kind, dev |-> d, nl |-> nl]
          IN  wire' = wire \o <<half(FALSE), half(TRUE)>>
  /\ produced' = produced + 1
  /\ UNCHANGED <<ui, widgetVars, pending_statuses, shownVars, flushVars,
                 workerVars, queueVars, conn, historyVars>>

\* main has returned, or the program has crashed.
Ended == (ui = "crashed" \/ ui = "returned") /\ UNCHANGED vars

User == ReadFlag \/ AboutToQuit
Worker == TakeCall \/ Flush \/ ReadyRead \/ ConsumeLine \/ LinesDone
Network == SocketConnected \/ ConnectFailed \/ RemoteClosed \/ ServerSends

Next == UI \/ User \/ Worker \/ WorkerFinishes \/ Network \/ Ended
Spec == Init /\ [][Next]_vars

\* Both event loops run; the user and the network need not do anything.
Fairness == WF_vars(UI) /\ WF_vars(Worker) /\ WF_vars(WorkerFinishes)
FairSpec == Spec /\ Fairness

-----------------------------------------------------------------------------
(* Properties.                                                             *)

Texts == {"Connecting", "Connected", "Closing", "Disconnected"}

\* Types, and the scope of the variables of one flush.
TypeOK ==
  /\ ui \in {"idle", "rows", "row", "clear", "upsert", "connect", "disconnect",
             "quit", "wait", "returned", "crashed"}
  /\ label \in Texts \cup {"Error"}
  /\ viewer_connected \in BOOLEAN /\ pending_close \in BOOLEAN
  /\ unflushed \in BOOLEAN /\ quit \in BOOLEAN
  /\ DOMAIN pending_statuses \subseteq Devices /\ todo \subseteq Devices
  /\ \A d \in Devices :
       /\ received[d] \in 0..produced
       /\ table_devices[d] \subseteq 1..received[d]
       /\ devices_by_id_[d] \subseteq 1..received[d]
       /\ d \in DOMAIN pending_statuses => pending_statuses[d] \in 1..received[d]
  /\ ui = "idle" => todo = {} /\ statuses = Nothing /\ seen = Nothing
  /\ worker \in {"loop", "lines", "finished"}
  /\ socket \in {"null", "Connecting", "Connected", "Closing", "Unconnected"}
  /\ receive_buffer_ \in Seq(Chunk) /\ wire \in Seq(Chunk)
  /\ ui_queue \in Seq(Texts) /\ worker_queue \in Seq({"connect", "disconnect"})
  /\ metrics \in 0..produced /\ conn \in 0..ClickLimit

\* A line is never put together from bytes of two connections: what is buffered
\* came on the current one, and follows what was handled of it without a gap.
BufferIsOfThisConnection ==
  /\ \A i \in DOMAIN receive_buffer_ : receive_buffer_[i].conn = conn
  /\ socket = "Unconnected" => receive_buffer_ = <<>>
  /\ LET bytes == receive_buffer_ \o wire
     IN  \A i \in 2..Len(bytes) :
           IF bytes[i].nl THEN bytes[i - 1] = [bytes[i] EXCEPT !.nl = FALSE]
           ELSE bytes[i - 1].nl /\ bytes[i].n = bytes[i - 1].n + 1

\* Where the UI thread and the worker do not meet in the map, no status is lost:
\* between two flushes the last status of a device waits in pending_statuses or
\* is what the table and the map show.
UpToDateUnlessRaced ==
  ui = "idle" => \A d \in Devices \ raced :
    \/ received[d] = 0
    \/ d \in DOMAIN pending_statuses /\ pending_statuses[d] = received[d]
    \/ table_devices[d] = {received[d]} /\ devices_by_id_[d] = {received[d]}

\* "The viewer batches incoming STATUS updates every 100ms before updating the
\* table and fleet map" (README.md:785): the same, of every device.
UpToDate ==
  ui = "idle" => \A d \in Devices :
    \/ received[d] = 0
    \/ d \in DOMAIN pending_statuses /\ pending_statuses[d] = received[d]
    \/ table_devices[d] = {received[d]} /\ devices_by_id_[d] = {received[d]}

\* Direct and posted signals are handled in different orders, yet the button agrees
\* with the socket between two calls of the worker, and once the posted texts are
\* shown the label says Connected of a connected socket alone, Closing of a closing
\* one and Disconnected or Error of one without a connection.  What may stay is
\* Connecting: the text posted by connect() can overtake the Error that a lambda
\* sets directly, and then it stands for good over a socket that failed.
OnlyConnectingIsStale ==
  /\ worker = "loop" => (viewer_connected <=> socket \in {"Connected", "Closing"})
  /\ worker = "loop" /\ ui = "idle" /\ ui_queue = <<>> =>
       /\ label = "Connected" <=> socket = "Connected"
       /\ label = "Closing" => socket = "Closing"
       /\ label \in {"Disconnected", "Error"} => socket \in {"null", "Unconnected"}

\* Quitting the application ends: wait() does not wait for ever.
QuitCompletes == ui = "quit" ~> ui = "returned"
=============================================================================
