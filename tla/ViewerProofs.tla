---------------------------- MODULE ViewerProofs ----------------------------
(***************************************************************************)
(* The safety properties of the viewer, proved for every set of devices,   *)
(* every number of lines and of clicks.                                    *)
(*                                                                         *)
(* None of the properties of Viewer is inductive.  The invariant Inv adds  *)
(* what they silently rest on: that the bytes not yet handled are whole    *)
(* lines of the current connection, numbered in a row (Stream); that no    *)
(* more connections are made than clicks (Requests); what the table, the   *)
(* map and the local variables of a flush hold of a device in every phase  *)
(* of the flush (Fresh); and that it is the last text posted that agrees   *)
(* with the socket, shown or not (LastText).                               *)
(***************************************************************************)
EXTENDS Viewer, SequenceTheorems, TLAPS

UiStates == {"idle", "rows", "row", "clear", "upsert", "connect", "disconnect",
             "quit", "wait", "returned", "crashed"}
Sockets == {"null", "Connecting", "Connected", "Closing", "Unconnected"}

\* Types, and where one variable decides the type or the scope of another.
Typed ==
  /\ ui \in UiStates
  /\ label \in Texts \cup {"Error"}
  /\ viewer_connected \in BOOLEAN /\ pending_close \in BOOLEAN
  /\ unflushed \in BOOLEAN /\ quit \in BOOLEAN
  /\ worker \in {"loop", "lines", "finished"}
  /\ socket \in Sockets
  /\ receive_buffer_ \in Seq(Chunk) /\ wire \in Seq(Chunk)
  /\ ui_queue \in Seq(Texts) /\ worker_queue \in Seq({"connect", "disconnect"})
  /\ metrics \in 0 .. produced /\ conn \in Nat /\ produced \in Nat
  /\ received \in [Devices -> Nat]

\* A click makes at most one connection: it is the request on its way, the
\* attempt, or the connection.  The last request of a program that quits is the
\* one to disconnect that no click has posted.
Quitting == ui \in {"quit", "wait", "returned"}
Asked == Len(worker_queue) + (IF ui \in {"connect", "disconnect"} THEN 1 ELSE 0)
           - (IF Quitting /\ worker_queue # <<>> THEN 1 ELSE 0)
Requests ==
  /\ clicks \in 0 .. ClickLimit
  /\ conn + (IF socket = "Connecting" THEN 1 ELSE 0) + Asked =< clicks
  /\ Quitting /\ worker_queue # <<>> => worker_queue[Len(worker_queue)] = "disconnect"

\* The bytes the worker has not handled: whole lines of this connection, each
\* newer than the one before and than every status parsed so far.
Bytes == receive_buffer_ \o wire
Stream ==
  /\ socket \notin {"Connected", "Closing"} => Bytes = <<>>
  /\ \A i \in DOMAIN Bytes : Bytes[i].conn = conn /\ Bytes[i].n \in 1 .. produced
  /\ Bytes # <<>> => /\ ~Bytes[1].nl
                     /\ Bytes[Len(Bytes)].nl /\ Bytes[Len(Bytes)].n = produced
  /\ \A i \in 2 .. Len(Bytes) :
       IF Bytes[i].nl THEN Bytes[i - 1] = [Bytes[i] EXCEPT !.nl = FALSE]
       ELSE Bytes[i - 1].nl /\ Bytes[i].n = Bytes[i - 1].n + 1
  /\ \A i, j \in DOMAIN Bytes : i < j /\ Bytes[i].nl => Bytes[i].n < Bytes[j].n
  /\ \A d \in Devices :
       /\ received[d] =< produced
       /\ \A i \in DOMAIN Bytes : received[d] < Bytes[i].n

\* The states of the connection, and the flag main keeps of it.
Connection ==
  /\ viewer_connected <=> socket \in {"Connected", "Closing"}
  /\ unflushed => socket \in {"Connected", "Closing"}

\* What is kept of a device is what was received of it; where no status came
\* during the flush, it is the last one, and one place that survives has it.
Known ==
  /\ DOMAIN table_devices = Devices /\ DOMAIN devices_by_id_ = Devices
  /\ DOMAIN pending_statuses \subseteq Devices /\ todo \subseteq Devices
  /\ DOMAIN statuses \subseteq Devices /\ DOMAIN seen \subseteq Devices
  /\ \A d \in Devices :
       /\ table_devices[d] \subseteq 1 .. received[d]
       /\ devices_by_id_[d] \subseteq 1 .. received[d]
       /\ d \in DOMAIN statuses => statuses[d] \subseteq 1 .. received[d]
       /\ d \in DOMAIN seen => seen[d] \subseteq 1 .. received[d]
       /\ d \in DOMAIN pending_statuses =>
            pending_statuses[d] = received[d] /\ received[d] # 0

FlushStates == {"rows", "row", "clear", "upsert", "crashed"}
Current(d) ==
  \/ received[d] = 0
  \/ d \in DOMAIN pending_statuses
  \/ d \in DOMAIN statuses /\ statuses[d] = {received[d]} /\ table_devices[d] = {received[d]}
  \/ /\ d \notin DOMAIN statuses
     /\ table_devices[d] = {received[d]} /\ devices_by_id_[d] = {received[d]}
Copied(d) ==
  /\ d \in DOMAIN pending_statuses => d \in todo
  /\ d \in DOMAIN statuses => statuses[d] = {received[d]} /\ table_devices[d] = {received[d]}
  /\ d \in DOMAIN seen => seen[d] = {received[d]}
Fresh ==
  /\ ui # "row" /\ ui # "crashed" => seen = Nothing
  /\ ui \notin FlushStates => todo = {} /\ statuses = Nothing
  /\ ui = "clear" => todo \subseteq DOMAIN statuses
  /\ ui # "crashed" => \A d \in Devices \ raced : Current(d)
  /\ Flushing => \A d \in Devices \ raced : Copied(d)

LastText == IF ui_queue = <<>> THEN label ELSE ui_queue[Len(ui_queue)]
TextAgrees ==
  /\ LastText = "Connected" <=> socket = "Connected"
  /\ LastText = "Closing" => socket = "Closing"
  /\ LastText \in {"Disconnected", "Error"} => socket \in {"null", "Unconnected"}

Inv == Typed /\ Requests /\ Stream /\ Connection /\ Known /\ Fresh /\ TextAgrees

-----------------------------------------------------------------------------
(* The bytes.                                                              *)

\* find('\n') of a buffer of whole lines and perhaps a first half: the first
\* newline is its second byte (consume_status_lines, network_worker.cpp).
LEMMA FirstLine ==
  ASSUME Typed, Stream, HasLine
  PROVE  /\ Newline = 2 /\ Len(receive_buffer_) >= 2
         /\ Bytes[2] = receive_buffer_[2] /\ Bytes[2].nl
         /\ receive_buffer_[2] \in Chunk
  <1> DEFINE b == receive_buffer_
  <1>1. b \in Seq(Chunk) /\ wire \in Seq(Chunk)
    BY DEF Typed
  <1>2. PICK i \in DOMAIN b : b[i].nl
    BY DEF HasLine
  <1>3. Len(b) \in Nat /\ Len(wire) \in Nat /\ i \in 1 .. Len(b) /\ DOMAIN b = 1 .. Len(b)
    BY <1>1, <1>2
  <1>4. Len(Bytes) = Len(b) + Len(wire) /\ \A j \in 1 .. Len(b) : Bytes[j] = b[j]
    BY <1>1 DEF Bytes
  <1>5. Bytes # <<>>
    BY <1>3, <1>4
  <1>6. ~b[1].nl
    <2>1. ~Bytes[1].nl
      BY <1>5 DEF Stream
    <2> QED BY <2>1, <1>3, <1>4
  <1>7. i # 1
    BY <1>2, <1>6
  <1>8. Len(b) >= 2
    BY <1>3, <1>7
  <1>9. Bytes[1] = b[1] /\ Bytes[2] = b[2]
    BY <1>3, <1>4, <1>8
  <1>10. Bytes[2].nl
    <2>1. 2 \in 2 .. Len(Bytes) /\ 2 - 1 = 1
      BY <1>3, <1>4, <1>8
    <2>2. ~Bytes[2].nl => Bytes[1].nl
      BY <2>1 DEF Stream
    <2> QED BY <2>2, <1>6, <1>9
  <1>11. 2 \in DOMAIN b /\ b[2].nl /\ \A j \in 1 .. (2 - 1) : ~b[j].nl
    BY <1>3, <1>6, <1>8, <1>9, <1>10
  <1>12. ASSUME NEW k \in DOMAIN b, b[k].nl, \A j \in 1 .. (k - 1) : ~b[j].nl
         PROVE  k = 2
    <2>1. k \in 1 .. Len(b) /\ k # 1
      BY <1>3, <1>6, <1>12
    <2>2. ~(2 < k)
      <3> SUFFICES ASSUME 2 < k PROVE FALSE
        OBVIOUS
      <3>1. 2 \in 1 .. (k - 1)
        BY <2>1
      <3> QED BY <3>1, <1>12, <1>11
    <2> QED BY <2>1, <2>2
  <1>13. Newline = 2
    BY <1>11, <1>12 DEF Newline
  <1>14. b[2] \in Chunk
    BY <1>1, <1>11
  <1> QED BY <1>8, <1>9, <1>10, <1>13, <1>14

\* Reading moves bytes from the network to the buffer and loses none.
LEMMA ReadyReadEffect ==
  ASSUME Typed, ReadyRead
  PROVE  Bytes' = Bytes /\ receive_buffer_' \in Seq(Chunk) /\ wire' \in Seq(Chunk)
  <1>1. receive_buffer_ \in Seq(Chunk) /\ wire \in Seq(Chunk)
    BY DEF Typed
  <1>2. PICK arrived \in 1 .. Len(wire) :
          /\ receive_buffer_' = receive_buffer_ \o SubSeq(wire, 1, arrived)
          /\ wire' = SubSeq(wire, arrived + 1, Len(wire))
    BY DEF ReadyRead
  <1> DEFINE b == receive_buffer_
             r == SubSeq(wire, 1, arrived)
             s == SubSeq(wire, arrived + 1, Len(wire))
  <1>3. r \in Seq(Chunk) /\ s \in Seq(Chunk)
    BY <1>1
  <1>4. r \o s = wire
    BY <1>1
  <1>5. receive_buffer_' \o wire' = (b \o r) \o s /\ Bytes = b \o (r \o s)
    BY <1>2, <1>4 DEF Bytes
  <1>6. b \o r \in Seq(Chunk)
    BY <1>1, <1>3
  <1>7. (b \o r) \o s = b \o (r \o s)
    <2>1. b \in Seq(Chunk)
      BY <1>1
    <2> HIDE DEF b, r, s
    <2> QED BY <2>1, <1>3
  <1>8. Bytes' = receive_buffer_' \o wire'
    BY DEF Bytes
  <1> QED BY <1>2, <1>3, <1>5, <1>6, <1>7, <1>8

\* Handling a line takes its two halves off the bytes.
LEMMA ConsumeLineEffect ==
  ASSUME Typed, Stream, ConsumeLine
  PROVE  /\ receive_buffer_' \in Seq(Chunk) /\ wire' = wire
         /\ Len(Bytes) \in Nat /\ Len(Bytes) >= 2 /\ Len(Bytes') = Len(Bytes) - 2
         /\ \A i \in 1 .. Len(Bytes') : Bytes'[i] = Bytes[i + 2]
         /\ DOMAIN Bytes = 1 .. Len(Bytes) /\ DOMAIN Bytes' = 1 .. Len(Bytes')
  <1> DEFINE b == receive_buffer_
             r == SubSeq(b, 3, Len(b))
  <1>1. b \in Seq(Chunk) /\ wire \in Seq(Chunk) /\ Len(b) \in Nat
    BY DEF Typed
  <1>2. HasLine /\ wire' = wire /\ b' = SubSeq(b, Newline + 1, Len(b))
    BY DEF ConsumeLine, netVars, workerVars
  <1>3. Newline = 2 /\ Len(b) >= 2
    BY <1>2, FirstLine
  <1>4. b' = r
    BY <1>2, <1>3
  <1>5. /\ r \in Seq(Chunk) /\ Len(r) = Len(b) - 2 /\ Len(r) \in Nat
        /\ \A i \in 1 .. Len(r) : r[i] = b[i + 2]
    <2>1. r \in Seq(Chunk)
      BY <1>1
    <2>2. Len(r) = Len(b) - 2
      <3> DEFINE k == Len(b)
      <3>1. k \in Nat /\ k >= 2 /\ \A i \in 3 .. k : b[i] \in Chunk
        BY <1>1, <1>3
      <3> HIDE DEF k
      <3>2. Len(SubSeq(b, 3, k)) = IF 3 =< k THEN k - 3 + 1 ELSE 0
        BY <3>1, SubSeqProperties
      <3>3. Len(SubSeq(b, 3, k)) = k - 2
        BY <3>1, <3>2
      <3> QED BY <3>3 DEF k
    <2>3. \A i \in 1 .. Len(r) : r[i] = b[i + 2]
      BY <2>2, <1>1, <1>3
    <2> QED BY <2>1, <2>2, <2>3, <1>1, <1>3
  <1>6. Bytes' = r \o wire
    BY <1>2, <1>4 DEF Bytes
  <1>7. Len(Bytes) = Len(b) + Len(wire) /\ DOMAIN Bytes = 1 .. Len(Bytes) /\ Len(wire) \in Nat
    BY <1>1 DEF Bytes
  <1>8. Len(Bytes') = Len(r) + Len(wire) /\ DOMAIN Bytes' = 1 .. Len(Bytes')
    BY <1>1, <1>5, <1>6
  <1>9. ASSUME NEW i \in 1 .. Len(Bytes') PROVE Bytes'[i] = Bytes[i + 2]
    <2>1. i \in Nat /\ i =< Len(r) + Len(wire)
      BY <1>5, <1>7, <1>8
    <2> HIDE DEF r
    <2>2. Len(b) \in Nat /\ Len(r) = Len(b) - 2
      BY <1>1, <1>5
    <2>3. CASE i =< Len(r)
      <3>1. Bytes'[i] = r[i]
        BY <2>1, <2>3, <1>1, <1>5, <1>6
      <3>2. Bytes[i + 2] = b[i + 2]
        BY <2>1, <2>3, <1>1, <1>5 DEF Bytes
      <3> QED BY <2>1, <2>3, <3>1, <3>2, <1>5
    <2>4. CASE i > Len(r)
      <3>1. Bytes'[i] = wire[i - Len(r)]
        BY <2>1, <2>4, <1>1, <1>5, <1>6, <1>7
      <3>2. Bytes[i + 2] = wire[i + 2 - Len(b)]
        <4>1. i + 2 > Len(b) /\ i + 2 =< Len(b) + Len(wire) /\ i + 2 \in Nat
          BY <2>1, <2>4, <2>2, <1>7
        <4> QED BY <4>1, <1>1, <1>7 DEF Bytes
      <3>3. i - Len(r) = i + 2 - Len(b)
        BY <2>1, <2>2
      <3> QED BY <3>1, <3>2, <3>3
    <2> QED BY <2>1, <2>2, <2>3, <2>4, <1>5
  <1> QED BY <1>1, <1>2, <1>3, <1>4, <1>5, <1>7, <1>8, <1>9

\* The server adds a whole line, newer than all before.
LEMMA ServerSendsEffect ==
  ASSUME Typed, ServerSends
  PROVE  /\ wire' \in Seq(Chunk)
         /\ Len(Bytes) \in Nat /\ Len(Bytes') = Len(Bytes) + 2
         /\ DOMAIN Bytes = 1 .. Len(Bytes) /\ DOMAIN Bytes' = 1 .. Len(Bytes')
         /\ \A i \in 1 .. Len(Bytes) : Bytes'[i] = Bytes[i]
         /\ \E kind \in Kinds, d \in Devices :
              /\ Bytes'[Len(Bytes) + 1] =
                   [conn |-> conn, n |-> produced + 1, kind |-> kind, dev |-> d, nl |-> FALSE]
              /\ Bytes'[Len(Bytes) + 2] =
                   [conn |-> conn, n |-> produced + 1, kind |-> kind, dev |-> d, nl |-> TRUE]
  <1> DEFINE b == receive_buffer_
  <1>1. b \in Seq(Chunk) /\ wire \in Seq(Chunk) /\ conn \in Nat /\ produced \in Nat
    BY DEF Typed
  <1>2. PICK kind \in Kinds, d \in Devices :
          wire' = wire \o
            << [conn |-> conn, n |-> produced + 1, kind |-> kind, dev |-> d, nl |-> FALSE],
               [conn |-> conn, n |-> produced + 1, kind |-> kind, dev |-> d, nl |-> TRUE] >>
    BY DEF ServerSends
  <1> DEFINE x == [conn |-> conn, n |-> produced + 1, kind |-> kind, dev |-> d, nl |-> FALSE]
             y == [conn |-> conn, n |-> produced + 1, kind |-> kind, dev |-> d, nl |-> TRUE]
  <1>3. x \in Chunk /\ y \in Chunk
    BY <1>1 DEF Chunk
  <1>4. wire' = wire \o <<x, y>> /\ b' = b
    BY <1>2 DEF ServerSends, workerVars
  <1>5. Bytes' = b \o (wire \o <<x, y>>) /\ Bytes = b \o wire
    BY <1>4 DEF Bytes
  <1> HIDE DEF x, y
  <1>6. <<x, y>> \in Seq(Chunk) /\ wire \o <<x, y>> \in Seq(Chunk)
    BY <1>1, <1>3
  <1>7. Len(Bytes) \in Nat /\ DOMAIN Bytes = 1 .. Len(Bytes) /\ Len(Bytes) = Len(b) + Len(wire)
    BY <1>1, <1>5
  <1>8. Len(Bytes') = Len(Bytes) + 2 /\ DOMAIN Bytes' = 1 .. Len(Bytes')
    BY <1>1, <1>5, <1>6, <1>7
  <1>9. ASSUME NEW i \in 1 .. Len(Bytes) PROVE Bytes'[i] = Bytes[i]
    BY <1>1, <1>5, <1>6, <1>7
  <1>10. Bytes'[Len(Bytes) + 1] = x /\ Bytes'[Len(Bytes) + 2] = y
    <2>1. /\ Bytes'[Len(Bytes) + 1] = (wire \o <<x, y>>)[Len(wire) + 1]
          /\ Bytes'[Len(Bytes) + 2] = (wire \o <<x, y>>)[Len(wire) + 2]
      BY <1>1, <1>5, <1>6, <1>7
    <2>2. /\ (wire \o <<x, y>>)[Len(wire) + 1] = x
          /\ (wire \o <<x, y>>)[Len(wire) + 2] = y
      BY <1>1, <1>3
    <2> QED BY <2>1, <2>2
  <1> QED BY <1>4, <1>6, <1>7, <1>8, <1>9, <1>10 DEF x, y

-----------------------------------------------------------------------------
(* Types, connections and requests.                                        *)

\* The flush touches nothing but its own variables, what is shown and the map
\* of pending statuses.
FlushStep == \/ FlushBegin \/ RowsDone \/ ClearPending \/ UpsertDevices
             \/ \E d \in Devices : RowBegin(d) \/ RowEnd(d)

\* So do its steps, from one state of the UI thread to another.
LEMMA FlushStepEffect ==
  ASSUME FlushStep
  PROVE  /\ UNCHANGED <<widgetVars, workerVars, queueVars, netVars, historyVars>>
         /\ ui \notin {"connect", "disconnect", "quit", "wait", "returned", "crashed"}
         /\ ui' \in {"idle", "rows", "row", "clear", "upsert"}
  <1>1. CASE FlushBegin
    BY <1>1 DEF FlushBegin
  <1>2. CASE RowsDone
    BY <1>2 DEF RowsDone
  <1>3. CASE ClearPending
    BY <1>3 DEF ClearPending
  <1>4. CASE UpsertDevices
    BY <1>4 DEF UpsertDevices
  <1>5. ASSUME NEW d \in Devices, RowBegin(d)
        PROVE  /\ UNCHANGED <<widgetVars, workerVars, queueVars, netVars, historyVars>>
               /\ ui = "rows" /\ ui' = "row"
    BY <1>5 DEF RowBegin
  <1>6. ASSUME NEW d \in Devices, RowEnd(d)
        PROVE  /\ UNCHANGED <<widgetVars, workerVars, queueVars, netVars, historyVars>>
               /\ ui = "row" /\ ui' = "rows"
    BY <1>6 DEF RowEnd
  <1> QED BY <1>1, <1>2, <1>3, <1>4, <1>5, <1>6 DEF FlushStep

\* Next, regrouped.
LEMMA StepKinds ==
  ASSUME [Next]_vars
  PROVE  \/ UNCHANGED vars \/ FlushStep
         \/ ReadFlag \/ PostRequest \/ SetText \/ AboutToQuit \/ QuitThread \/ Waited
         \/ TakeCall \/ SocketConnected \/ ConnectFailed \/ Flush \/ RemoteClosed
         \/ ReadyRead \/ WorkerFinishes \/ ConsumeLine \/ LinesDone \/ ServerSends
  BY DEF Next, UI, User, Worker, Network, Ended, FlushStep

\* What a posted call may do (connectToServer, disconnectFromServer).
LEMMA TakeCallEffect ==
  ASSUME Typed, Connection, TakeCall
  PROVE  /\ UNCHANGED <<ui, label, pending_statuses, shownVars, metrics, flushVars,
                        worker, quit, conn, produced, historyVars>>
         /\ ui # "crashed"
         /\ worker_queue # <<>> /\ worker_queue' = Tail(worker_queue)
         /\ \/ /\ UNCHANGED <<socketVars, receive_buffer_, wire, ui_queue, viewer_connected>>
            \/ /\ Head(worker_queue) = "connect"
               /\ socket \notin {"Connected", "Connecting"}
               /\ socket' = IF socket = "Closing" THEN socket ELSE "Connecting"
               /\ ui_queue' = Append(ui_queue, "Connecting")
               /\ UNCHANGED <<viewer_connected, pending_close, unflushed, receive_buffer_, wire>>
            \/ /\ socket = "Connecting" /\ pending_close' = TRUE
               /\ UNCHANGED <<viewer_connected, socket, unflushed, receive_buffer_, wire, ui_queue>>
            \/ /\ socket = "Connected" /\ socket' = "Closing"
               /\ ui_queue' = Append(ui_queue, "Closing")
               /\ UNCHANGED <<viewer_connected, pending_close, unflushed, receive_buffer_, wire>>
            \/ socket = "Connected" /\ Disconnected(<<"Closing">>)
  <1>1. CASE Head(worker_queue) = "connect"
    <2>1. connectToServer
      BY <1>1 DEF TakeCall
    <2> QED BY <1>1, <2>1 DEF TakeCall, Running, connectToServer, socketVars
  <1>2. CASE Head(worker_queue) # "connect"
    <2>1. disconnectFromServer
      BY <1>2 DEF TakeCall
    <2>2. CASE socket = "null"
      <3>1. viewer_connected' = FALSE /\ UNCHANGED <<socketVars, receive_buffer_, wire, ui_queue>>
        BY <2>1, <2>2 DEF disconnectFromServer
      <3>2. viewer_connected = FALSE
        BY <2>2 DEF Typed, Connection
      <3> QED BY <3>1, <3>2 DEF TakeCall, Running
    <2>3. CASE socket = "Connecting"
      BY <2>1, <2>3 DEF disconnectFromServer, TakeCall, Running
    <2>4. CASE socket = "Connected" /\ unflushed
      BY <2>1, <2>4 DEF disconnectFromServer, TakeCall, Running
    <2>5. CASE socket = "Connected" /\ ~unflushed
      BY <2>1, <2>5 DEF disconnectFromServer, TakeCall, Running
    <2>6. CASE socket \notin {"null", "Connecting", "Connected"}
      BY <2>1, <2>6 DEF disconnectFromServer, TakeCall, Running
    <2> QED BY <2>2, <2>3, <2>4, <2>5, <2>6 DEF Typed
  <1> QED BY <1>1, <1>2

\* The last element of two sequences one after the other.
LEMMA LastOfConcat ==
  ASSUME NEW S, NEW s \in Seq(S), NEW t \in Seq(S), t # <<>>
  PROVE  s \o t \in Seq(S) /\ s \o t # <<>> /\ (s \o t)[Len(s \o t)] = t[Len(t)]
  <1>1. Len(s) \in Nat /\ Len(t) \in Nat /\ Len(t) # 0
    OBVIOUS
  <1>2. s \o t \in Seq(S)
    OBVIOUS
  <1>3. Len(s \o t) = Len(s) + Len(t)
    OBVIOUS
  <1>4. (s \o t)[Len(s) + Len(t)] = t[Len(t)]
    BY <1>1, <1>3
  <1> QED BY <1>1, <1>2, <1>3, <1>4

\* A disconnection, whichever action brings it about.
LEMMA DisconnectedEffect ==
  ASSUME Typed, NEW texts \in Seq(Texts), Disconnected(texts)
  PROVE  /\ socket' = "Unconnected" /\ viewer_connected' = FALSE /\ unflushed' = FALSE
         /\ receive_buffer_' = <<>> /\ wire' = <<>> /\ pending_close' = pending_close
         /\ ui_queue' \in Seq(Texts) /\ ui_queue' # <<>>
         /\ ui_queue'[Len(ui_queue')] = "Disconnected"
  <1> DEFINE t == <<"Disconnected">>
             u == texts \o t
             q == ui_queue \o u
  <1>1. ui_queue \in Seq(Texts) /\ t \in Seq(Texts) /\ t # <<>> /\ t[Len(t)] = "Disconnected"
    BY DEF Typed, Texts
  <1> HIDE DEF t
  <1>2. u \in Seq(Texts) /\ u # <<>> /\ u[Len(u)] = "Disconnected"
    BY <1>1, LastOfConcat
  <1> HIDE DEF u
  <1>3. q \in Seq(Texts) /\ q # <<>> /\ q[Len(q)] = "Disconnected"
    BY <1>1, <1>2, LastOfConcat
  <1>4. ui_queue' = q
    BY DEF Disconnected, Told, u, t
  <1> HIDE DEF q
  <1> QED BY <1>3, <1>4 DEF Disconnected

\* The texts posted on connected().
LEMMA SocketConnectedTexts ==
  ASSUME Typed, SocketConnected
  PROVE  /\ ui_queue' \in Seq(Texts) /\ ui_queue' # <<>>
         /\ ui_queue'[Len(ui_queue')] = IF pending_close THEN "Closing" ELSE "Connected"
  <1> DEFINE s == <<"Connected">>
             t == <<"Closing">>
             u == ui_queue \o s
             q == u \o t
  <1>1. /\ ui_queue \in Seq(Texts)
        /\ s \in Seq(Texts) /\ s # <<>> /\ s[Len(s)] = "Connected"
        /\ t \in Seq(Texts) /\ t # <<>> /\ t[Len(t)] = "Closing"
    BY DEF Typed, Texts
  <1>2. ui_queue' = IF pending_close THEN u \o t ELSE u \o <<>>
    BY DEF SocketConnected
  <1> HIDE DEF s, t
  <1>3. u \in Seq(Texts) /\ u # <<>> /\ u[Len(u)] = "Connected"
    BY <1>1, LastOfConcat
  <1> HIDE DEF u
  <1>4. q \in Seq(Texts) /\ q # <<>> /\ q[Len(q)] = "Closing"
    BY <1>1, <1>3, LastOfConcat
  <1>5. u \o <<>> = u
    BY <1>3
  <1> QED BY <1>2, <1>3, <1>4, <1>5

\* Flush as a choice of two.
LEMMA FlushEffect ==
  ASSUME Typed, Connection, Flush
  PROVE  /\ UNCHANGED <<ui, label, pending_statuses, shownVars, metrics, flushVars,
                        worker, quit, worker_queue, conn, produced, historyVars>>
         /\ \/ socket = "Closing" /\ Disconnected(<<>>)
            \/ /\ socket = "Connected" /\ unflushed' = FALSE
               /\ UNCHANGED <<socket, pending_close, receive_buffer_, viewer_connected,
                              ui_queue, wire>>
  BY DEF Flush, Connection

\* The viewer begins typed.
LEMMA TypedInit == Init => Typed
  <1> SUFFICES ASSUME Init PROVE Typed
    OBVIOUS
  <1>1. <<>> \in Seq(Chunk) /\ <<>> \in Seq(Texts) /\ <<>> \in Seq({"connect", "disconnect"})
    OBVIOUS
  <1>2. received \in [Devices -> Nat]
    BY DEF Init
  <1>3. label \in Texts /\ ui \in UiStates /\ socket \in Sockets
    BY DEF Init, Texts, UiStates, Sockets
  <1>4. viewer_connected = FALSE /\ pending_close = FALSE /\ unflushed = FALSE /\ quit = FALSE
    BY DEF Init
  <1>5. metrics = 0 /\ produced = 0 /\ conn = 0 /\ worker = "loop"
    BY DEF Init
  <1>6. metrics \in 0 .. produced
    BY <1>5
  <1>7. receive_buffer_ \in Seq(Chunk) /\ wire \in Seq(Chunk)
        /\ ui_queue \in Seq(Texts) /\ worker_queue \in Seq({"connect", "disconnect"})
    BY <1>1 DEF Init
  <1> QED BY <1>2, <1>3, <1>4, <1>5, <1>6, <1>7 DEF Typed

\* No step leaves the types.
LEMMA TypedStep ==
  ASSUME Typed, Stream, Connection, [Next]_vars
  PROVE  Typed'
  <1> USE DEF UiStates, Sockets
  <1>1. CASE UNCHANGED vars
    BY <1>1 DEF vars, Typed, widgetVars, workerVars, socketVars, queueVars, netVars, historyVars
  <1>2. CASE FlushStep
    BY <1>2, FlushStepEffect DEF Typed, widgetVars, workerVars, socketVars, queueVars, netVars, historyVars
  <1>3. CASE ReadFlag
    BY <1>3 DEF ReadFlag, Typed, Texts, workerVars, socketVars, queueVars, netVars
  <1>4. CASE PostRequest
    <2>1. worker_queue' \in Seq({"connect", "disconnect"})
      BY <1>4 DEF PostRequest, Typed
    <2> QED BY <1>4, <2>1 DEF PostRequest, Typed, widgetVars, workerVars, socketVars, netVars, historyVars
  <1>5. CASE SetText
    <2>1. ui_queue' \in Seq(Texts) /\ label' \in Texts
      BY <1>5, HeadTailProperties DEF SetText, Typed
    <2> QED BY <1>5, <2>1 DEF SetText, Typed, workerVars, socketVars, netVars, historyVars
  <1>6. CASE AboutToQuit
    <2>1. worker_queue' \in Seq({"connect", "disconnect"})
      BY <1>6 DEF AboutToQuit, Typed
    <2> QED BY <1>6, <2>1 DEF AboutToQuit, Typed, widgetVars, workerVars, socketVars, netVars, historyVars
  <1>7. CASE QuitThread
    BY <1>7 DEF QuitThread, Typed, widgetVars, socketVars, queueVars, netVars, historyVars
  <1>8. CASE Waited
    BY <1>8 DEF Waited, Typed, widgetVars, workerVars, socketVars, queueVars, netVars, historyVars
  <1>9. CASE TakeCall
    <2>1. worker_queue' \in Seq({"connect", "disconnect"})
      BY <1>9, TakeCallEffect, HeadTailProperties DEF Typed
    <2>2. UNCHANGED <<ui, label, metrics, worker, quit, conn, produced, received>>
      BY <1>9, TakeCallEffect DEF historyVars
    <2>3. <<"Closing">> \in Seq(Texts) /\ "Closing" \in Texts /\ "Connecting" \in Texts
      BY DEF Texts
    <2>4. CASE Disconnected(<<"Closing">>)
      <3>1. <<>> \in Seq(Chunk)
        OBVIOUS
      <3> QED BY <2>1, <2>2, <2>3, <2>4, <3>1, DisconnectedEffect DEF Typed
    <2>5. CASE ~Disconnected(<<"Closing">>)
      <3>1. ui_queue' \in Seq(Texts)
        <4>1. \/ ui_queue' = ui_queue \/ ui_queue' = Append(ui_queue, "Connecting")
              \/ ui_queue' = Append(ui_queue, "Closing")
          BY <1>9, <2>5, TakeCallEffect
        <4>2. ui_queue \in Seq(Texts)
          BY DEF Typed
        <4>3. Append(ui_queue, "Connecting") \in Seq(Texts) /\ Append(ui_queue, "Closing") \in Seq(Texts)
          BY <4>2, <2>3, AppendProperties
        <4> QED BY <4>1, <4>2, <4>3
      <3>2. UNCHANGED <<viewer_connected, unflushed, receive_buffer_, wire>>
        BY <1>9, <2>5, TakeCallEffect DEF socketVars
      <3>3. pending_close' \in BOOLEAN /\ socket' \in Sockets
        BY <1>9, <2>5, TakeCallEffect DEF socketVars, Typed
      <3> QED BY <2>1, <2>2, <3>1, <3>2, <3>3 DEF Typed
    <2> QED BY <2>4, <2>5
  <1>10. CASE SocketConnected
    <2>1. ui_queue' \in Seq(Texts)
      BY <1>10, SocketConnectedTexts
    <2>2. conn' \in Nat /\ socket' \in Sockets /\ received' = received /\ metrics' = metrics
      BY <1>10 DEF SocketConnected, Typed, historyVars
    <2>3. UNCHANGED <<ui, label, worker, receive_buffer_, quit, worker_queue, wire, produced>>
      BY <1>10 DEF SocketConnected
    <2>4. viewer_connected' = TRUE /\ pending_close' = FALSE /\ unflushed' = TRUE
      BY <1>10 DEF SocketConnected
    <2> QED BY <2>1, <2>2, <2>3, <2>4 DEF Typed
  <1>11. CASE ConnectFailed
    BY <1>11 DEF ConnectFailed, Typed, queueVars, netVars, historyVars
  <1>12. CASE Flush
    <2>1. UNCHANGED <<ui, label, metrics, worker, quit, worker_queue, conn, produced, received>>
      BY <1>12, FlushEffect DEF historyVars
    <2>2. <<>> \in Seq(Texts) /\ <<>> \in Seq(Chunk)
      OBVIOUS
    <2>3. CASE Disconnected(<<>>)
      BY <2>1, <2>2, <2>3, DisconnectedEffect DEF Typed
    <2>4. CASE ~Disconnected(<<>>)
      <3>1. /\ unflushed' = FALSE
            /\ UNCHANGED <<socket, pending_close, receive_buffer_, viewer_connected, ui_queue, wire>>
        BY <1>12, <2>4, FlushEffect
      <3> QED BY <2>1, <3>1 DEF Typed
    <2> QED BY <2>3, <2>4
  <1>13. CASE RemoteClosed
    <2>1. UNCHANGED <<ui, metrics, worker, quit, worker_queue, conn, produced, received>>
      BY <1>13 DEF RemoteClosed, historyVars
    <2>2. <<>> \in Seq(Texts) /\ <<>> \in Seq(Chunk)
      OBVIOUS
    <2>3. Disconnected(<<>>) /\ label' = "Error"
      BY <1>13 DEF RemoteClosed
    <2> QED BY <2>1, <2>2, <2>3, DisconnectedEffect DEF Typed
  <1>14. CASE ReadyRead
    <2>1. receive_buffer_' \in Seq(Chunk) /\ wire' \in Seq(Chunk)
      BY <1>14, ReadyReadEffect
    <2>2. /\ UNCHANGED <<ui, label, viewer_connected, metrics, socket, pending_close, unflushed>>
          /\ UNCHANGED <<quit, ui_queue, worker_queue, conn, produced, received>>
          /\ worker' = "lines"
      BY <1>14 DEF ReadyRead, widgetVars, socketVars, queueVars, historyVars
    <2> QED BY <2>1, <2>2 DEF Typed
  <1>15. CASE WorkerFinishes
    BY <1>15 DEF WorkerFinishes, Typed, widgetVars, socketVars, queueVars, netVars, historyVars
  <1>16. CASE ConsumeLine
    <2>1. receive_buffer_' \in Seq(Chunk) /\ wire' \in Seq(Chunk)
      BY <1>16, ConsumeLineEffect DEF Typed
    <2>2. /\ UNCHANGED <<label, viewer_connected, socket, pending_close, unflushed, worker>>
          /\ UNCHANGED <<quit, ui_queue, worker_queue, conn, produced>>
      BY <1>16 DEF ConsumeLine, socketVars, queueVars, netVars
    <2>3. ui' \in UiStates
      BY <1>16 DEF ConsumeLine, Store, Typed
    <2>4. HasLine
      BY <1>16 DEF ConsumeLine
    <2> DEFINE line == receive_buffer_[Newline]
    <2>5. line = Bytes[2] /\ line \in Chunk /\ 2 \in DOMAIN Bytes
      BY <2>4, <1>16, FirstLine, ConsumeLineEffect
    <2>6. line.n \in 1 .. produced
      BY <2>5 DEF Stream
    <2>7. line.n \in Nat /\ line.n \in 0 .. produced
      BY <2>6 DEF Typed
    <2>8. metrics' \in 0 .. produced
      BY <1>16, <2>7 DEF ConsumeLine, Store, Typed
    <2>9. received' \in [Devices -> Nat]
      <3>1. \/ UNCHANGED received
            \/ received' = [received EXCEPT ![line.dev] = line.n]
        BY <1>16 DEF ConsumeLine, Store
      <3>2. line.dev \in Devices
        BY <2>5 DEF Chunk
      <3> QED BY <3>1, <3>2, <2>7 DEF Typed
    <2> QED BY <2>1, <2>2, <2>3, <2>8, <2>9 DEF Typed
  <1>17. CASE LinesDone
    BY <1>17 DEF LinesDone, Typed, widgetVars, socketVars, queueVars, netVars, historyVars
  <1>18. CASE ServerSends
    <2>1. wire' \in Seq(Chunk)
      BY <1>18, ServerSendsEffect
    <2>2. produced' = produced + 1 /\ conn' = conn /\ received' = received /\ metrics' = metrics
      BY <1>18 DEF ServerSends, widgetVars, historyVars
    <2>3. UNCHANGED <<ui, label, viewer_connected, workerVars, queueVars>>
      BY <1>18 DEF ServerSends, widgetVars
    <2>4. produced' \in Nat /\ metrics' \in 0 .. produced'
      BY <2>2 DEF Typed
    <2> QED BY <2>1, <2>2, <2>3, <2>4 DEF Typed, workerVars, socketVars, queueVars
  <1> QED BY StepKinds, <1>1, <1>2, <1>3, <1>4, <1>5, <1>6, <1>7, <1>8, <1>9, <1>10, <1>11,
        <1>12, <1>13, <1>14, <1>15, <1>16, <1>17, <1>18

\* Who changes the phase of the UI thread, beside the UI thread: a crash.
LEMMA ConsumeLineUi ==
  ASSUME ConsumeLine
  PROVE  ui' = ui \/ (Flushing /\ ui' = "crashed")
  BY DEF ConsumeLine, Store

\* Connections are counted by what asked for them.
LEMMA RequestsStep ==
  ASSUME Typed, Connection, Requests, [Next]_vars
  PROVE  Requests'
  <1> DEFINE Same == UNCHANGED <<clicks, conn, worker_queue>>
  <1>1. CASE Same /\ ui' = ui /\ (socket' = "Connecting" => socket = "Connecting")
    <2>1. Asked' = Asked
      BY <1>1 DEF Asked, Quitting
    <2>2. Asked \in Int /\ conn \in Nat /\ clicks \in Nat
      BY DEF Asked, Typed, Requests
    <2> QED BY <1>1, <2>1, <2>2 DEF Requests, Quitting
  <1>2. CASE /\ Same /\ socket' = socket
             /\ ui \notin {"connect", "disconnect", "quit", "wait", "returned"}
             /\ ui' \notin {"connect", "disconnect", "quit", "wait", "returned"}
    <2>1. Asked' = Asked
      BY <1>2 DEF Asked, Quitting
    <2> QED BY <1>2, <2>1 DEF Requests, Quitting
  <1>3. CASE Same /\ socket' = socket /\ Quitting /\ Quitting'
    <2>1. Asked' = Asked
      BY <1>3 DEF Asked, Quitting
    <2> QED BY <1>3, <2>1 DEF Requests, Quitting
  <1>4. CASE UNCHANGED vars
    BY <1>1, <1>4 DEF vars, workerVars, socketVars, queueVars, netVars, historyVars
  <1>5. CASE FlushStep
    <2>1. Same /\ socket' = socket
      BY <1>5, FlushStepEffect DEF workerVars, socketVars, queueVars, netVars, historyVars
    <2> QED BY <2>1, <1>2, <1>5, FlushStepEffect
  <1>6. CASE ReadFlag
    <2>1. /\ clicks' = clicks + 1 /\ clicks < ClickLimit /\ UNCHANGED <<conn, worker_queue, socket>>
          /\ ui = "idle" /\ ui' \in {"connect", "disconnect"}
      BY <1>6 DEF ReadFlag, workerVars, socketVars, queueVars, netVars
    <2>2. Asked' = Asked + 1 /\ Asked \in Int
      BY <2>1 DEF Asked, Quitting, Typed
    <2> DEFINE c == IF socket = "Connecting" THEN 1 ELSE 0
    <2>3. c' = c /\ c \in Nat /\ conn \in Nat
      BY <2>1 DEF Typed
    <2>4. clicks' \in 0 .. ClickLimit
      BY <2>1, ViewerAssumption DEF Requests
    <2>5. conn + c + Asked =< clicks /\ clicks \in Nat
      BY DEF Requests
    <2> HIDE DEF c
    <2>6. conn' + c' + Asked' =< clicks'
      BY <2>1, <2>2, <2>3, <2>5
    <2> QED BY <2>1, <2>4, <2>6 DEF Requests, Quitting, c
  <1>7. CASE PostRequest
    <2>1. /\ UNCHANGED <<clicks, conn, socket>> /\ worker_queue' = Append(worker_queue, ui)
          /\ ui' = "idle" /\ ui \in {"connect", "disconnect"}
      BY <1>7 DEF PostRequest, workerVars, socketVars, netVars, historyVars
    <2>2. Len(worker_queue') = Len(worker_queue) + 1 /\ Len(worker_queue) \in Nat
      BY <2>1 DEF Typed
    <2>3. Asked' = Asked
      BY <2>1, <2>2 DEF Asked, Quitting
    <2> QED BY <2>1, <2>3 DEF Requests, Quitting
  <1>8. CASE SetText
    BY <1>1, <1>8 DEF SetText, workerVars, socketVars, netVars, historyVars
  <1>9. CASE AboutToQuit
    <2>1. /\ UNCHANGED <<clicks, conn, socket>> /\ worker_queue' = Append(worker_queue, "disconnect")
          /\ ui' = "quit" /\ ui = "idle"
      BY <1>9 DEF AboutToQuit, workerVars, socketVars, netVars, historyVars
    <2>2. /\ Len(worker_queue') = Len(worker_queue) + 1 /\ Len(worker_queue) \in Nat
          /\ worker_queue'[Len(worker_queue')] = "disconnect"
          /\ worker_queue' # <<>>
      BY <2>1 DEF Typed
    <2>3. Asked' = Asked
      BY <2>1, <2>2 DEF Asked, Quitting
    <2> QED BY <2>1, <2>2, <2>3 DEF Requests, Quitting
  <1>10. CASE QuitThread
    BY <1>3, <1>10 DEF QuitThread, Quitting, socketVars, queueVars, netVars, historyVars
  <1>11. CASE Waited
    BY <1>3, <1>11 DEF Waited, Quitting, workerVars, socketVars, queueVars, netVars, historyVars
  <1>12. CASE TakeCall
    <2>1. UNCHANGED <<ui, clicks, conn>> /\ worker_queue # <<>> /\ worker_queue' = Tail(worker_queue)
      BY <1>12, TakeCallEffect DEF historyVars
    <2>2. worker_queue \in Seq({"connect", "disconnect"})
      BY DEF Typed
    <2>3. /\ Len(worker_queue) \in Nat /\ Len(worker_queue) >= 1
          /\ Len(worker_queue') = Len(worker_queue) - 1
          /\ \A i \in 1 .. Len(worker_queue') : worker_queue'[i] = worker_queue[i + 1]
      BY <2>1, <2>2
    <2>4. worker_queue' # <<>> <=> Len(worker_queue') # 0
      <3>1. worker_queue' \in Seq({"connect", "disconnect"})
        BY <2>1, <2>2
      <3> QED BY <3>1
    <2>5. Quitting /\ worker_queue' # <<>> => worker_queue'[Len(worker_queue')] = "disconnect"
      <3> SUFFICES ASSUME Quitting, worker_queue' # <<>>
                   PROVE  worker_queue'[Len(worker_queue')] = "disconnect"
        OBVIOUS
      <3>1. Len(worker_queue') \in 1 .. Len(worker_queue')
        BY <2>3, <2>4
      <3>2. worker_queue'[Len(worker_queue')] = worker_queue[Len(worker_queue)]
        BY <3>1, <2>3
      <3> QED BY <3>2, <2>1 DEF Requests
    <2>6. Head(worker_queue) = worker_queue[1]
      BY <2>1, <2>2
    <2> DEFINE q == Len(worker_queue)
               a == IF ui \in {"connect", "disconnect"} THEN 1 ELSE 0
    <2>9. /\ q \in Nat /\ q >= 1 /\ a \in Nat /\ conn' = conn /\ clicks' = clicks
          /\ Asked = q + a - (IF Quitting THEN 1 ELSE 0)
      BY <2>1, <2>3 DEF Asked
    <2>10. Asked' = (q - 1) + a - (IF Quitting /\ q - 1 # 0 THEN 1 ELSE 0)
      <3>1. a' = a /\ Quitting' = Quitting
        BY <2>1 DEF Quitting
      <3>2. Asked' = Len(worker_queue') + a' - (IF Quitting' /\ worker_queue' # <<>> THEN 1 ELSE 0)
        BY DEF Asked
      <3> QED BY <3>1, <3>2, <2>3, <2>4
    <2> HIDE DEF q, a
    <2>7. CASE socket' = "Connecting" => socket = "Connecting"
      <3>1. Asked' =< Asked /\ Asked \in Int /\ Asked' \in Int
        BY <2>9, <2>10
      <3> DEFINE c == IF socket = "Connecting" THEN 1 ELSE 0
      <3>2. c' =< c /\ c \in Nat /\ c' \in Nat /\ conn \in Nat /\ clicks \in Nat
        BY <2>7 DEF Typed, Requests
      <3>3. conn + c + Asked =< clicks
        BY DEF Requests
      <3> HIDE DEF c
      <3>4. conn + c' + Asked' =< clicks
        <4>1. c' =< c /\ c \in Int /\ c' \in Int /\ conn \in Int /\ clicks \in Int
          BY <3>2
        <4>2. \A k, l, x, y, u, v \in Int : x =< y /\ u =< v /\ k + y + v =< l => k + x + u =< l
          OBVIOUS
        <4> QED BY <3>1, <3>3, <4>1, <4>2, Zenon
      <3>5. conn' + c' + Asked' =< clicks'
        BY <2>9, <3>4
      <3> QED BY <2>1, <2>5, <3>5 DEF Requests, Quitting, c
    <2>8. CASE socket' = "Connecting" /\ socket # "Connecting"
      <3>1. Head(worker_queue) = "connect"
        <4>1. Disconnected(<<"Closing">>) => socket' = "Unconnected"
          BY DEF Disconnected
        <4> QED BY <4>1, <2>8, <1>12, TakeCallEffect DEF socketVars
      <3>2. Quitting => Len(worker_queue) # 1
        BY <3>1, <2>1, <2>6 DEF Requests
      <3>3. Asked' = Asked - 1 /\ Asked \in Int
        BY <2>9, <2>10, <3>2 DEF q
      <3>4. conn \in Nat /\ clicks \in Nat /\ conn + 0 + Asked =< clicks
        BY <2>8 DEF Typed, Requests
      <3>5. conn' + 1 + Asked' =< clicks'
        BY <2>1, <3>3, <3>4
      <3> QED BY <2>1, <2>5, <2>8, <3>5 DEF Requests, Quitting
    <2> QED BY <2>7, <2>8
  <1>13. CASE SocketConnected
    <2>1. /\ UNCHANGED <<ui, clicks, worker_queue>> /\ conn' = conn + 1
          /\ socket = "Connecting" /\ socket' # "Connecting"
      BY <1>13 DEF SocketConnected, historyVars
    <2>2. Asked' = Asked /\ Asked \in Int /\ conn \in Nat /\ clicks \in Nat
      BY <2>1 DEF Asked, Quitting, Typed, Requests
    <2>3. conn + 1 + Asked =< clicks
      BY <2>1 DEF Requests
    <2>4. conn' + 0 + Asked' =< clicks'
      BY <2>1, <2>2, <2>3
    <2> QED BY <2>1, <2>4 DEF Requests, Quitting
  <1>14. CASE ConnectFailed
    BY <1>1, <1>14 DEF ConnectFailed, queueVars, netVars, historyVars
  <1>15. CASE Flush
    BY <1>1, <1>15, FlushEffect DEF Disconnected, historyVars
  <1>16. CASE RemoteClosed
    BY <1>1, <1>16 DEF RemoteClosed, Disconnected, historyVars
  <1>17. CASE ReadyRead
    BY <1>1, <1>17 DEF ReadyRead, socketVars, queueVars, historyVars
  <1>18. CASE WorkerFinishes
    BY <1>1, <1>18 DEF WorkerFinishes, socketVars, queueVars, netVars, historyVars
  <1>19. CASE ConsumeLine
    <2>1. Same /\ socket' = socket
      BY <1>19 DEF ConsumeLine, socketVars, queueVars, netVars
    <2>2. CASE ui' = ui
      BY <1>1, <2>1, <2>2
    <2>3. CASE Flushing /\ ui' = "crashed"
      BY <1>2, <2>1, <2>3 DEF Flushing
    <2> QED BY <2>2, <2>3, <1>19, ConsumeLineUi
  <1>20. CASE LinesDone
    BY <1>1, <1>20 DEF LinesDone, socketVars, queueVars, netVars, historyVars
  <1>21. CASE ServerSends
    BY <1>1, <1>21 DEF ServerSends, workerVars, socketVars, queueVars, historyVars
  <1> QED BY StepKinds, <1>4, <1>5, <1>6, <1>7, <1>8, <1>9, <1>10, <1>11, <1>12, <1>13, <1>14,
        <1>15, <1>16, <1>17, <1>18, <1>19, <1>20, <1>21

\* main's flag of the connection and the socket.
LEMMA ConnectionStep ==
  ASSUME Typed, Connection, [Next]_vars
  PROVE  Connection'
  <1>1. CASE UNCHANGED <<viewer_connected, socket, unflushed>>
    BY <1>1 DEF Connection
  <1>2. CASE \/ UNCHANGED vars \/ ReadFlag \/ PostRequest \/ SetText \/ AboutToQuit
    BY <1>1, <1>2 DEF vars, ReadFlag, PostRequest, SetText, AboutToQuit,
      widgetVars, workerVars, socketVars
  <1>3. CASE \/ QuitThread \/ Waited \/ WorkerFinishes \/ ReadyRead
    BY <1>1, <1>3 DEF QuitThread, Waited, WorkerFinishes, ReadyRead, widgetVars, workerVars, socketVars
  <1>4. CASE \/ ConsumeLine \/ LinesDone \/ ServerSends
    BY <1>1, <1>4 DEF ConsumeLine, LinesDone, ServerSends, widgetVars, workerVars, socketVars
  <1>5. CASE FlushStep
    BY <1>1, <1>5, FlushStepEffect DEF widgetVars, workerVars, socketVars
  <1>6. CASE TakeCall
    <2>1. CASE Disconnected(<<"Closing">>)
      BY <2>1 DEF Disconnected, Connection
    <2>2. CASE ~Disconnected(<<"Closing">>)
      <3>1. UNCHANGED <<viewer_connected, unflushed>>
        BY <1>6, <2>2, TakeCallEffect DEF socketVars
      <3>2. socket' \in {"Connected", "Closing"} <=> socket \in {"Connected", "Closing"}
        BY <1>6, <2>2, TakeCallEffect DEF socketVars
      <3> QED BY <3>1, <3>2 DEF Connection
    <2> QED BY <2>1, <2>2
  <1>7. CASE SocketConnected
    BY <1>7 DEF SocketConnected, Connection
  <1>8. CASE ConnectFailed
    BY <1>8 DEF ConnectFailed, Connection
  <1>9. CASE Flush
    BY <1>9, FlushEffect DEF Disconnected, Connection
  <1>10. CASE RemoteClosed
    BY <1>10 DEF RemoteClosed, Disconnected, Connection
  <1> QED BY StepKinds, <1>2, <1>3, <1>4, <1>5, <1>6, <1>7, <1>8, <1>9, <1>10

-----------------------------------------------------------------------------
(* The stream of lines.                                                    *)

\* A step that neither reads, parses nor sends leaves the stream, or ends it
\* with the connection.
LEMMA StreamQuiet ==
  ASSUME Stream, Bytes' = Bytes, UNCHANGED <<conn, produced, received>>,
         socket \notin {"Connected", "Closing"} \/ socket' \in {"Connected", "Closing"}
  PROVE  Stream'
  BY DEF Stream

\* A new or a lost connection begins and ends without bytes.
LEMMA StreamEmpty ==
  ASSUME Stream, Bytes' = <<>>, UNCHANGED <<produced, received>>
  PROVE  Stream'
  <1>1. DOMAIN Bytes' = {} /\ Len(Bytes') = 0
    OBVIOUS
  <1> QED BY <1>1 DEF Stream

\* The line that is handled was the oldest: what remains is newer.
LEMMA StreamConsumed ==
  ASSUME Typed, Stream, ConsumeLine
  PROVE  Stream'
  <1> DEFINE B == Bytes
             L == Len(Bytes)
             M == Len(Bytes')
             line == receive_buffer_[Newline]
  <1>1. /\ L \in Nat /\ L >= 2 /\ M = L - 2
        /\ \A i \in 1 .. M : Bytes'[i] = B[i + 2]
        /\ DOMAIN B = 1 .. L /\ DOMAIN Bytes' = 1 .. M
    BY ConsumeLineEffect
  <1>2. UNCHANGED <<socket, conn, produced>>
    BY DEF ConsumeLine, socketVars, netVars
  <1>3. HasLine
    BY DEF ConsumeLine
  <1>4. line = B[2] /\ B[2].nl /\ B[2] \in Chunk
    BY <1>3, FirstLine
  <1>5. received' = received \/ received' = [received EXCEPT ![line.dev] = line.n]
    BY DEF ConsumeLine, Store
  <1>6. \A i \in 1 .. M : i \in DOMAIN B /\ i + 2 \in DOMAIN B /\ 2 \in DOMAIN B /\ 2 < i + 2
    BY <1>1
  <1>7. \A i, j \in DOMAIN B : i < j /\ B[i].nl => B[i].n < B[j].n
    BY DEF Stream
  <1>8. \A i \in 1 .. M : B[2].n < B[i + 2].n
    BY <1>4, <1>6, <1>7
  <1>9. \A d \in Devices : received'[d] = received[d] \/ received'[d] = B[2].n
    <2>1. received \in [Devices -> Nat]
      BY DEF Typed
    <2> QED BY <2>1, <1>4, <1>5
  <1>10. 2 \in DOMAIN B
    BY <1>1
  <1>11. B[2].n \in 1 .. produced /\ produced \in Nat
    BY <1>10 DEF Stream, Typed
  <1>12. \A d \in Devices :
           received'[d] =< produced' /\ \A i \in DOMAIN Bytes' : received'[d] < Bytes'[i].n
    <2> TAKE d \in Devices
    <2>1. received[d] =< produced /\ \A i \in DOMAIN B : received[d] < B[i].n
      BY DEF Stream
    <2>2. received'[d] =< produced'
      BY <2>1, <1>2, <1>9, <1>11
    <2>3. ASSUME NEW i \in DOMAIN Bytes' PROVE received'[d] < Bytes'[i].n
      <3>1. i \in 1 .. M /\ Bytes'[i] = B[i + 2] /\ i + 2 \in DOMAIN B
        BY <1>1, <1>6
      <3> QED BY <3>1, <2>1, <1>8, <1>9
    <2> QED BY <2>2, <2>3
  <1>13. \A i, j \in DOMAIN Bytes' : i < j /\ Bytes'[i].nl => Bytes'[i].n < Bytes'[j].n
    <2> SUFFICES ASSUME NEW i \in DOMAIN Bytes', NEW j \in DOMAIN Bytes', i < j, Bytes'[i].nl
                 PROVE  Bytes'[i].n < Bytes'[j].n
      OBVIOUS
    <2>1. /\ i \in 1 .. M /\ j \in 1 .. M /\ i + 2 \in DOMAIN B /\ j + 2 \in DOMAIN B
          /\ Bytes'[i] = B[i + 2] /\ Bytes'[j] = B[j + 2]
      BY <1>1, <1>6
    <2>2. i + 2 < j + 2
      BY <2>1, <1>1
    <2> QED BY <2>1, <2>2, <1>7
  <1>14. \A i \in DOMAIN Bytes' : Bytes'[i].conn = conn' /\ Bytes'[i].n \in 1 .. produced'
    <2>1. \A i \in DOMAIN B : B[i].conn = conn /\ B[i].n \in 1 .. produced
      BY DEF Stream
    <2> QED BY <2>1, <1>1, <1>2, <1>6
  <1>15. \A i \in 2 .. M :
           IF Bytes'[i].nl THEN Bytes'[i - 1] = [Bytes'[i] EXCEPT !.nl = FALSE]
           ELSE Bytes'[i - 1].nl /\ Bytes'[i].n = Bytes'[i - 1].n + 1
    <2> TAKE i \in 2 .. M
    <2>1. i \in 1 .. M /\ i - 1 \in 1 .. M /\ (i - 1) + 2 = (i + 2) - 1 /\ i + 2 \in 2 .. L
      BY <1>1
    <2>2. Bytes'[i] = B[i + 2] /\ Bytes'[i - 1] = B[(i + 2) - 1]
      BY <2>1, <1>1
    <2> DEFINE k == i + 2
    <2>3. IF B[k].nl THEN B[k - 1] = [B[k] EXCEPT !.nl = FALSE]
          ELSE B[k - 1].nl /\ B[k].n = B[k - 1].n + 1
      BY <2>1 DEF Stream
    <2> QED BY <2>2, <2>3
  <1>16. Bytes' # <<>> => ~Bytes'[1].nl /\ Bytes'[M].nl /\ Bytes'[M].n = produced'
    <2> SUFFICES ASSUME Bytes' # <<>> PROVE ~Bytes'[1].nl /\ Bytes'[M].nl /\ Bytes'[M].n = produced'
      OBVIOUS
    <2>1. M # 0
      BY <1>1 DEF Bytes
    <2>2. 1 \in 1 .. M /\ M \in 1 .. M /\ 1 + 2 = 3 /\ M + 2 = L /\ 3 \in 2 .. L /\ 3 - 1 = 2
      BY <2>1, <1>1
    <2>3. Bytes'[1] = B[3] /\ Bytes'[M] = B[L]
      BY <2>2, <1>1
    <2>4. B # <<>>
      BY <1>1
    <2>5. B[L].nl /\ B[L].n = produced
      BY <2>4 DEF Stream
    <2>6. ~B[3].nl
      <3> SUFFICES ASSUME B[3].nl PROVE FALSE
        OBVIOUS
      <3>1. B[3 - 1] = [B[3] EXCEPT !.nl = FALSE]
        BY <2>2 DEF Stream
      <3>2. 3 \in DOMAIN B
        BY <2>2, <1>1
      <3>3. B[3] \in Chunk
        BY <3>2 DEF Bytes, Typed
      <3>4. B[2].nl = FALSE
        BY <3>1, <3>3, <2>2 DEF Chunk
      <3> QED BY <3>4, <1>4
    <2> QED BY <2>3, <2>5, <2>6, <1>2
  <1>17. socket' \notin {"Connected", "Closing"} => Bytes' = <<>>
    <2>1. B # <<>>
      BY <1>1
    <2> QED BY <2>1, <1>2 DEF Stream
  <1> QED BY <1>12, <1>13, <1>14, <1>15, <1>16, <1>17 DEF Stream

\* Two halves of a line differ in the newline alone.
LEMMA OtherHalf ==
  ASSUME NEW y \in Chunk, NEW a
  PROVE  [y EXCEPT !.nl = a] =
           [conn |-> y.conn, n |-> y.n, kind |-> y.kind, dev |-> y.dev, nl |-> a]
  BY DEF Chunk

\* A line that is sent is newer than all that came before it.
LEMMA StreamSent ==
  ASSUME Typed, Stream, ServerSends
  PROVE  Stream'
  <1> DEFINE B == Bytes
             C == Bytes'
             L == Len(Bytes)
  <1>1. /\ L \in Nat /\ Len(C) = L + 2
        /\ DOMAIN B = 1 .. L /\ DOMAIN C = 1 .. Len(C)
        /\ \A i \in 1 .. L : C[i] = B[i]
    BY ServerSendsEffect
  <1>2. PICK kind \in Kinds, d \in Devices :
          /\ C[L + 1] = [conn |-> conn, n |-> produced + 1, kind |-> kind, dev |-> d, nl |-> FALSE]
          /\ C[L + 2] = [conn |-> conn, n |-> produced + 1, kind |-> kind, dev |-> d, nl |-> TRUE]
    BY ServerSendsEffect
  <1> DEFINE x == C[L + 1]
             y == C[L + 2]
  <1>3. /\ x.conn = conn /\ y.conn = conn /\ x.n = produced + 1 /\ y.n = produced + 1
        /\ ~x.nl /\ y.nl /\ x = [y EXCEPT !.nl = FALSE]
    <2>1. /\ x = [conn |-> conn, n |-> produced + 1, kind |-> kind, dev |-> d, nl |-> FALSE]
          /\ y = [conn |-> conn, n |-> produced + 1, kind |-> kind, dev |-> d, nl |-> TRUE]
      BY <1>2
    <2> HIDE DEF C, x, y
    <2>2. x.conn = conn /\ y.conn = conn /\ x.n = produced + 1 /\ y.n = produced + 1
      BY <2>1
    <2>3. ~x.nl /\ y.nl
      BY <2>1
    <2>4. x = [y EXCEPT !.nl = FALSE]
      <3>1. y \in Chunk
        BY <2>1 DEF Chunk, Typed
      <3>2. y.conn = conn /\ y.n = produced + 1 /\ y.kind = kind /\ y.dev = d
        BY <2>1
      <3> QED BY <2>1, <3>1, <3>2, OtherHalf
    <2> QED BY <2>2, <2>3, <2>4
  <1>4. produced' = produced + 1 /\ produced \in Nat /\ UNCHANGED <<socket, conn, received>>
    BY DEF ServerSends, workerVars, socketVars, historyVars, Typed
  <1>5. socket = "Connected"
    BY DEF ServerSends
  <1>6. \A i \in 1 .. Len(C) : i \in 1 .. L \/ i = L + 1 \/ i = L + 2
    BY <1>1
  <1>7. \A i \in 1 .. L : B[i].conn = conn /\ B[i].n \in 1 .. produced
    BY <1>1 DEF Stream
  <1> HIDE DEF C, x, y
  <1>8. \A i \in DOMAIN C : C[i].conn = conn' /\ C[i].n \in 1 .. produced'
    <2> TAKE i \in DOMAIN C
    <2>1. CASE i \in 1 .. L
      BY <2>1, <1>1, <1>4, <1>7
    <2>2. CASE i = L + 1
      BY <2>2, <1>3, <1>4 DEF x
    <2>3. CASE i = L + 2
      BY <2>3, <1>3, <1>4 DEF y
    <2> QED BY <2>1, <2>2, <2>3, <1>1, <1>6
  <1>9. ~C[1].nl /\ C[Len(C)].nl /\ C[Len(C)].n = produced'
    <2>1. C[L + 2].nl /\ C[L + 2].n = produced'
      BY <1>3, <1>4 DEF y
    <2>4. L + 2 = Len(C) /\ L \in Nat
      BY <1>1 DEF C
    <2>2. CASE L = 0
      <3>1. C[1] = x
        BY <2>2 DEF x
      <3> QED BY <2>1, <2>4, <3>1, <1>3
    <2>3. CASE L # 0
      <3>1. 1 \in 1 .. L /\ B # <<>>
        BY <2>3, <1>1
      <3>2. ~B[1].nl
        BY <3>1 DEF Stream
      <3> QED BY <2>1, <2>4, <3>1, <3>2, <1>1
    <2> QED BY <2>2, <2>3
  <1>10. \A i \in 2 .. Len(C) :
           IF C[i].nl THEN C[i - 1] = [C[i] EXCEPT !.nl = FALSE]
           ELSE C[i - 1].nl /\ C[i].n = C[i - 1].n + 1
    <2> TAKE i \in 2 .. Len(C)
    <2>1. CASE i \in 1 .. L
      <3>1. i \in 2 .. L /\ i - 1 \in 1 .. L
        BY <2>1, <1>1
      <3>2. IF B[i].nl THEN B[i - 1] = [B[i] EXCEPT !.nl = FALSE]
            ELSE B[i - 1].nl /\ B[i].n = B[i - 1].n + 1
        BY <3>1 DEF Stream
      <3> QED BY <2>1, <3>1, <3>2, <1>1
    <2>2. CASE i = L + 1
      <3>1. L # 0 /\ i - 1 = L /\ L \in 1 .. L
        BY <2>2, <1>1
      <3>2. B # <<>>
        BY <3>1, <1>1
      <3>3. C[L] = B[L] /\ B[L].nl /\ B[L].n = produced
        BY <3>1, <3>2, <1>1 DEF Stream
      <3>4. C[i] = x
        BY <2>2 DEF x
      <3> QED BY <3>1, <3>3, <3>4, <1>3
    <2>3. CASE i = L + 2
      <3>1. i - 1 = L + 1
        BY <2>3, <1>1
      <3>2. C[i] = y /\ C[i - 1] = x
        BY <2>3, <3>1 DEF x, y
      <3> QED BY <3>2, <1>3
    <2>4. i \in 1 .. Len(C)
      BY <1>1
    <2> QED BY <2>1, <2>2, <2>3, <2>4, <1>6
  <1>11. \A i, j \in DOMAIN C : i < j /\ C[i].nl => C[i].n < C[j].n
    <2> SUFFICES ASSUME NEW i \in DOMAIN C, NEW j \in DOMAIN C, i < j, C[i].nl
                 PROVE  C[i].n < C[j].n
      OBVIOUS
    <2>1. CASE j \in 1 .. L
      <3>1. i \in 1 .. L /\ i \in DOMAIN B /\ j \in DOMAIN B
        BY <2>1, <1>1
      <3>2. B[i].nl => B[i].n < B[j].n
        BY <3>1 DEF Stream
      <3> QED BY <2>1, <3>1, <3>2, <1>1
    <2>2. CASE j \notin 1 .. L /\ i \in 1 .. L
      <3>1. j = L + 1 \/ j = L + 2
        BY <2>2, <1>1, <1>6
      <3>2. C[j].n = produced + 1
        BY <3>1, <1>3 DEF x, y
      <3>3. C[i].n \in 1 .. produced
        BY <2>2, <1>1, <1>7
      <3> QED BY <3>2, <3>3, <1>4
    <2>3. CASE j \notin 1 .. L /\ i \notin 1 .. L
      <3>1. i = L + 1
        BY <2>3, <1>1, <1>6
      <3>2. ~C[i].nl
        BY <3>1, <1>3 DEF x
      <3> QED BY <3>2
    <2> QED BY <2>1, <2>2, <2>3
  <1>12. ASSUME NEW e \in Devices
         PROVE  received'[e] =< produced' /\ \A i \in DOMAIN C : received'[e] < C[i].n
    <2>1. received[e] =< produced /\ (\A i \in DOMAIN B : received[e] < B[i].n) /\ received[e] \in Nat
      BY DEF Stream, Typed
    <2>2. received'[e] = received[e]
      BY <1>4
    <2>3. ASSUME NEW i \in DOMAIN C PROVE received[e] < C[i].n
      <3>1. CASE i \in 1 .. L
        BY <3>1, <2>1, <1>1
      <3>2. CASE i \notin 1 .. L
        <4>1. i = L + 1 \/ i = L + 2
          BY <3>2, <1>1, <1>6
        <4>2. C[i].n = produced + 1
          BY <4>1, <1>3 DEF x, y
        <4> QED BY <4>2, <2>1, <1>4
      <3> QED BY <3>1, <3>2
    <2> QED BY <2>1, <2>2, <2>3, <1>4
  <1> QED BY <1>4, <1>5, <1>8, <1>9, <1>10, <1>11, <1>12 DEF Stream, C

\* Every step keeps the bytes of one connection together.
LEMMA StreamStep ==
  ASSUME Typed, Stream, Connection, [Next]_vars
  PROVE  Stream'
  <1>1. CASE UNCHANGED <<socket, receive_buffer_, wire, conn, produced, received>>
    BY <1>1, StreamQuiet DEF Bytes
  <1>2. CASE \/ UNCHANGED vars \/ ReadFlag \/ PostRequest \/ SetText \/ AboutToQuit
    BY <1>1, <1>2 DEF vars, ReadFlag, PostRequest, SetText, AboutToQuit,
      workerVars, socketVars, netVars, historyVars
  <1>3. CASE \/ QuitThread \/ Waited \/ WorkerFinishes \/ LinesDone
    BY <1>1, <1>3 DEF QuitThread, Waited, WorkerFinishes, LinesDone,
      workerVars, socketVars, netVars, historyVars
  <1>4. CASE FlushStep
    BY <1>1, <1>4, FlushStepEffect DEF workerVars, socketVars, netVars, historyVars
  <1>5. ASSUME NEW texts, Disconnected(texts), UNCHANGED <<produced, historyVars>>
        PROVE  Stream'
    <2>1. Bytes' = <<>>
      BY <1>5 DEF Disconnected, Bytes
    <2> QED BY <1>5, <2>1, StreamEmpty DEF historyVars
  <1>6. CASE TakeCall
    <2>1. UNCHANGED <<conn, produced, historyVars>>
      BY <1>6, TakeCallEffect
    <2>2. CASE Disconnected(<<"Closing">>)
      BY <2>1, <2>2, <1>5
    <2>3. CASE ~Disconnected(<<"Closing">>)
      <3>1. UNCHANGED <<receive_buffer_, wire>>
        BY <1>6, <2>3, TakeCallEffect DEF socketVars
      <3>2. socket \notin {"Connected", "Closing"} \/ socket' \in {"Connected", "Closing"}
        BY <1>6, <2>3, TakeCallEffect DEF socketVars
      <3> QED BY <2>1, <3>1, <3>2, StreamQuiet DEF Bytes, historyVars
    <2> QED BY <2>2, <2>3
  <1>7. CASE SocketConnected
    <2>1. UNCHANGED <<receive_buffer_, wire, produced, received>> /\ socket = "Connecting"
      BY <1>7 DEF SocketConnected, historyVars
    <2>2. Bytes' = <<>>
      BY <2>1 DEF Bytes, Stream
    <2> QED BY <2>1, <2>2, StreamEmpty
  <1>8. CASE ConnectFailed
    <2>1. UNCHANGED <<receive_buffer_, wire, conn, produced, received>> /\ socket = "Connecting"
      BY <1>8 DEF ConnectFailed, netVars, historyVars
    <2> QED BY <2>1, StreamQuiet DEF Bytes
  <1>9. CASE Flush
    <2>1. CASE Disconnected(<<>>)
      BY <1>9, <2>1, <1>5, FlushEffect
    <2>2. CASE ~Disconnected(<<>>)
      BY <1>9, <2>2, <1>1, FlushEffect DEF historyVars
    <2> QED BY <2>1, <2>2
  <1>10. CASE RemoteClosed
    BY <1>10, <1>5 DEF RemoteClosed
  <1>11. CASE ReadyRead
    <2>1. Bytes' = Bytes
      BY <1>11, ReadyReadEffect
    <2>2. UNCHANGED <<socket, conn, produced, received>>
      BY <1>11 DEF ReadyRead, socketVars, historyVars
    <2> QED BY <2>1, <2>2, StreamQuiet
  <1>12. CASE ConsumeLine
    BY <1>12, StreamConsumed
  <1>13. CASE ServerSends
    BY <1>13, StreamSent
  <1> QED BY StepKinds, <1>2, <1>3, <1>4, <1>6, <1>7, <1>8, <1>9, <1>10, <1>11, <1>12, <1>13

\* The last text that was posted, shown or not, is about the socket as it is.
LEMMA TextAgreesStep ==
  ASSUME Typed, Connection, TextAgrees, [Next]_vars
  PROVE  TextAgrees'
  <1>1. CASE UNCHANGED <<ui_queue, label, socket>>
    BY <1>1 DEF TextAgrees, LastText
  <1>2. CASE \/ UNCHANGED vars \/ PostRequest \/ AboutToQuit
    BY <1>1, <1>2 DEF vars, PostRequest, AboutToQuit, widgetVars, workerVars, socketVars, queueVars
  <1>3. CASE \/ QuitThread \/ Waited \/ WorkerFinishes \/ ReadyRead
    BY <1>1, <1>3 DEF QuitThread, Waited, WorkerFinishes, ReadyRead,
      widgetVars, workerVars, socketVars, queueVars
  <1>4. CASE \/ ConsumeLine \/ LinesDone \/ ServerSends
    BY <1>1, <1>4 DEF ConsumeLine, LinesDone, ServerSends, widgetVars, workerVars, socketVars, queueVars
  <1>5. CASE FlushStep
    BY <1>1, <1>5, FlushStepEffect DEF widgetVars, workerVars, socketVars, queueVars
  <1>6. CASE ReadFlag
    <2>1. UNCHANGED <<ui_queue, socket>> /\ (label' = label \/ (~viewer_connected /\ label' = "Connecting"))
      BY <1>6 DEF ReadFlag, workerVars, socketVars, queueVars
    <2> QED BY <2>1 DEF TextAgrees, LastText, Connection
  <1>7. CASE SetText
    <2>1. /\ ui_queue # <<>> /\ label' = Head(ui_queue) /\ ui_queue' = Tail(ui_queue)
          /\ socket' = socket
      BY <1>7 DEF SetText, workerVars, socketVars
    <2>2. ui_queue \in Seq(Texts)
      BY DEF Typed
    <2>3. LastText' = LastText
      <3>1. CASE Len(ui_queue) = 1
        BY <3>1, <2>1, <2>2 DEF LastText
      <3>2. CASE Len(ui_queue) # 1
        <4>1. Len(ui_queue) > 1 /\ Len(ui_queue) \in Nat
          <5>1. Len(ui_queue) \in Nat
            BY <2>2
          <5>2. Len(ui_queue) # 0
            BY <2>1, <2>2
          <5>3. \A k \in Nat : k # 0 /\ k # 1 => k > 1
            OBVIOUS
          <5> QED BY <5>1, <5>2, <5>3, <3>2, Zenon
        <4>2. Len(ui_queue') = Len(ui_queue) - 1
          BY <2>1, <2>2
        <4>3. ui_queue' # <<>>
          BY <4>1, <4>2
        <4>4. ui_queue'[Len(ui_queue')] = ui_queue[Len(ui_queue)]
          BY <4>1, <4>2, <2>1, <2>2
        <4> QED BY <4>3, <4>4, <2>1 DEF LastText
      <3> QED BY <3>1, <3>2
    <2> QED BY <2>1, <2>3 DEF TextAgrees
  <1>8. ASSUME NEW texts \in Seq(Texts), Disconnected(texts)
        PROVE  TextAgrees'
    <2>1. socket' = "Unconnected" /\ ui_queue' # <<>> /\ ui_queue'[Len(ui_queue')] = "Disconnected"
      BY <1>8, DisconnectedEffect
    <2> QED BY <2>1 DEF TextAgrees, LastText
  <1>9. CASE TakeCall
    <2>1. label' = label /\ <<"Closing">> \in Seq(Texts)
      BY <1>9, TakeCallEffect DEF Texts
    <2>2. CASE Disconnected(<<"Closing">>)
      BY <2>1, <2>2, <1>8
    <2>3. CASE UNCHANGED <<socket, ui_queue>>
      BY <2>1, <2>3, <1>1
    <2>4. ASSUME NEW t \in {"Connecting", "Closing"}, ui_queue' = Append(ui_queue, t),
                 socket' # "Connected", t = "Closing" => socket' = "Closing"
          PROVE  TextAgrees'
      <3>1. ui_queue \in Seq(Texts) /\ t \in Texts
        BY DEF Typed, Texts
      <3>2. ui_queue' # <<>> /\ ui_queue'[Len(ui_queue')] = t
        BY <3>1, <2>4
      <3> QED BY <2>4, <3>2 DEF TextAgrees, LastText
    <2> QED BY <2>2, <2>3, <2>4, <1>9, TakeCallEffect DEF socketVars
  <1>10. CASE SocketConnected
    <2>1. socket' = IF pending_close THEN "Closing" ELSE "Connected"
      BY <1>10 DEF SocketConnected
    <2> QED BY <2>1, <1>10, SocketConnectedTexts DEF TextAgrees, LastText
  <1>11. CASE ConnectFailed
    BY <1>11 DEF ConnectFailed, queueVars, TextAgrees, LastText
  <1>12. CASE Flush
    <2>1. <<>> \in Seq(Texts)
      OBVIOUS
    <2> QED BY <2>1, <1>1, <1>8, <1>12, FlushEffect
  <1>13. CASE RemoteClosed
    <2>1. <<>> \in Seq(Texts)
      OBVIOUS
    <2> QED BY <2>1, <1>8, <1>13 DEF RemoteClosed
  <1> QED BY StepKinds, <1>2, <1>3, <1>4, <1>5, <1>6, <1>7, <1>9, <1>10, <1>11, <1>12, <1>13

-----------------------------------------------------------------------------
(* What is kept of each device.                                            *)

\* The lambdas of statusReceived and metricsReceived, with what the stream
\* says of the line: a status is newer than the last one of its device.
LEMMA ConsumeLineStores ==
  ASSUME Typed, Stream, ConsumeLine
  PROVE  /\ UNCHANGED <<shownVars, todo, statuses>>
         /\ ui # "crashed"
         /\ \/ UNCHANGED <<ui, pending_statuses, seen, received, raced>>
            \/ \E d \in Devices, n \in Nat : received[d] < n /\ Store(d, n)
  <1> DEFINE line == receive_buffer_[Newline]
  <1>1. HasLine /\ ui # "crashed" /\ UNCHANGED <<shownVars, todo, statuses>>
    BY DEF ConsumeLine
  <1>2. \/ UNCHANGED <<ui, pending_statuses, seen, received, raced>>
        \/ Store(line.dev, line.n)
    BY DEF ConsumeLine
  <1>3. line = Bytes[2] /\ line \in Chunk /\ 2 \in DOMAIN Bytes
    BY <1>1, FirstLine, ConsumeLineEffect
  <1>4. line.dev \in Devices /\ line.n \in Nat
    BY <1>3 DEF Chunk
  <1>5. received[line.dev] < line.n
    BY <1>3, <1>4 DEF Stream
  <1> QED BY <1>1, <1>2, <1>4, <1>5

\* The variables of the flush and of the map, left alone by all others.
FlushRelated == <<shownVars, flushVars, pending_statuses, received, raced>>

\* Every other step but the worker's on a line leaves them alone.
LEMMA OthersLeaveFlush ==
  ASSUME [Next]_vars, ~FlushStep, ~ConsumeLine
  PROVE  /\ UNCHANGED FlushRelated
         /\ ui' = ui \/ (ui \notin FlushStates /\ ui' \notin FlushStates)
  <1> USE DEF FlushRelated, FlushStates
  <1>1. CASE \/ UNCHANGED vars \/ ReadFlag \/ PostRequest \/ SetText \/ AboutToQuit
    BY <1>1 DEF vars, ReadFlag, PostRequest, SetText, AboutToQuit, historyVars
  <1>2. CASE \/ QuitThread \/ Waited \/ WorkerFinishes \/ LinesDone
    BY <1>2 DEF QuitThread, Waited, WorkerFinishes, LinesDone, historyVars
  <1>3. CASE \/ TakeCall \/ SocketConnected \/ ConnectFailed \/ Flush
    BY <1>3 DEF TakeCall, SocketConnected, ConnectFailed, Flush, historyVars
  <1>4. CASE \/ RemoteClosed \/ ReadyRead \/ ServerSends
    BY <1>4 DEF RemoteClosed, ReadyRead, ServerSends, historyVars
  <1> QED BY StepKinds, <1>1, <1>2, <1>3, <1>4

\* What is shown or kept for showing was received.
LEMMA KnownStep ==
  ASSUME Typed, Stream, Known, [Next]_vars
  PROVE  Known'
  <1>0. received \in [Devices -> Nat]
    BY DEF Typed
  <1>1. CASE ~FlushStep /\ ~ConsumeLine
    BY <1>1, OthersLeaveFlush DEF FlushRelated, shownVars, flushVars, Known
  <1>2. CASE FlushBegin
    BY <1>2 DEF FlushBegin, shownVars, historyVars, Known
  <1>3. ASSUME NEW d \in Devices, RowBegin(d)
        PROVE  Known'
    <2>1. /\ seen' = [e \in {d} |-> {pending_statuses[d]}] /\ d \in DOMAIN pending_statuses
          /\ UNCHANGED <<pending_statuses, shownVars, todo, statuses, received>>
      BY <1>3 DEF RowBegin, historyVars
    <2>2. pending_statuses[d] \in 1 .. received[d]
      BY <2>1, <1>0 DEF Known
    <2>3. DOMAIN seen' = {d} /\ seen'[d] \subseteq 1 .. received[d]
      BY <2>1, <2>2
    <2> QED BY <2>1, <2>3 DEF shownVars, Known
  <1>4. ASSUME NEW d \in Devices, RowEnd(d)
        PROVE  Known'
    <2>1. PICK row \in (SUBSET seen[d]) \ {{}}, copy \in (SUBSET seen[d]) \ {{}} :
            /\ table_devices' = [table_devices EXCEPT ![d] = row]
            /\ statuses' = [e \in DOMAIN statuses \cup {d} |->
                              IF e = d THEN copy ELSE statuses[e]]
      BY <1>4 DEF RowEnd
    <2>2. /\ d \in DOMAIN seen /\ seen' = Nothing
          /\ UNCHANGED <<pending_statuses, devices_by_id_, todo, received>>
      BY <1>4 DEF RowEnd, historyVars
    <2>3. row \subseteq 1 .. received[d] /\ copy \subseteq 1 .. received[d]
      BY <2>2 DEF Known
    <2>4. DOMAIN seen' = {}
      BY <2>2 DEF Nothing
    <2>5. /\ DOMAIN table_devices' = Devices
          /\ \A e \in Devices : table_devices'[e] \subseteq 1 .. received[e]
      BY <2>1, <2>3 DEF Known
    <2>6. /\ DOMAIN statuses' \subseteq Devices
          /\ \A e \in DOMAIN statuses' : statuses'[e] \subseteq 1 .. received[e]
      BY <2>1, <2>3 DEF Known
    <2> QED BY <2>2, <2>4, <2>5, <2>6 DEF Known
  <1>5. CASE RowsDone
    BY <1>5 DEF RowsDone, shownVars, flushVars, historyVars, Known
  <1>6. CASE ClearPending
    <2>1. DOMAIN pending_statuses' = {}
      BY <1>6 DEF ClearPending, Nothing
    <2> QED BY <1>6, <2>1 DEF ClearPending, shownVars, flushVars, historyVars, Known
  <1>7. CASE UpsertDevices
    <2>1. DOMAIN statuses' = {} /\ todo' = {}
      BY <1>7 DEF UpsertDevices, Nothing
    <2>2. /\ DOMAIN devices_by_id_' = Devices
          /\ \A e \in Devices : devices_by_id_'[e] \subseteq 1 .. received[e]
      BY <1>7 DEF UpsertDevices, Known
    <2>3. UNCHANGED <<pending_statuses, table_devices, seen, received>>
      BY <1>7 DEF UpsertDevices, historyVars
    <2> QED BY <2>1, <2>2, <2>3 DEF Known
  <1>8. CASE ConsumeLine
    <2>1. UNCHANGED <<table_devices, devices_by_id_, todo, statuses>>
      BY <1>8, ConsumeLineStores DEF shownVars
    <2>2. CASE UNCHANGED <<pending_statuses, seen, received>>
      BY <2>1, <2>2 DEF Known
    <2>3. ASSUME NEW d \in Devices, NEW n \in Nat, received[d] < n, Store(d, n)
          PROVE  Known'
      <3>1. /\ pending_statuses' = Assigned(pending_statuses, d, n)
            /\ seen' = [e \in DOMAIN seen |-> IF e = d THEN seen[e] \cup {n} ELSE seen[e]]
            /\ received' = [received EXCEPT ![d] = n]
        BY <2>3 DEF Store
      <3>2. received'[d] = n /\ \A e \in Devices \ {d} : received'[e] = received[e]
        BY <3>1, <1>0
      <3>3. n # 0 /\ received[d] \in Nat /\ 1 .. received[d] \subseteq 1 .. n /\ n \in 1 .. n
        BY <2>3, <1>0
      <3>4. /\ DOMAIN pending_statuses' \subseteq Devices
            /\ \A e \in DOMAIN pending_statuses' :
                 pending_statuses'[e] = received'[e] /\ received'[e] # 0
        BY <3>1, <3>2, <3>3 DEF Assigned, Known
      <3>5. \A e \in Devices : 1 .. received[e] \subseteq 1 .. received'[e]
        BY <3>2, <3>3
      <3>6. DOMAIN seen' = DOMAIN seen
        BY <3>1
      <3>7. \A e \in DOMAIN seen : seen'[e] \subseteq 1 .. received'[e]
        <4> TAKE e \in DOMAIN seen
        <4>1. e \in Devices /\ seen[e] \subseteq 1 .. received[e]
          BY DEF Known
        <4>2. CASE e = d
          <5>1. seen'[e] = seen[e] \cup {n}
            BY <3>1, <4>2
          <5> QED BY <5>1, <4>1, <4>2, <3>2, <3>3
        <4>3. CASE e # d
          <5>1. seen'[e] = seen[e]
            BY <3>1, <4>3
          <5> QED BY <5>1, <4>1, <4>3, <3>2
        <4> QED BY <4>2, <4>3
      <3>8. \A e \in Devices :
              /\ table_devices[e] \subseteq 1 .. received'[e]
              /\ devices_by_id_[e] \subseteq 1 .. received'[e]
              /\ e \in DOMAIN statuses => statuses[e] \subseteq 1 .. received'[e]
        <4> TAKE e \in Devices
        <4> DEFINE R == 1 .. received[e]
                   S == 1 .. received'[e]
        <4>1. /\ table_devices[e] \subseteq R /\ devices_by_id_[e] \subseteq R
              /\ e \in DOMAIN statuses => statuses[e] \subseteq R
          BY DEF Known
        <4>2. R \subseteq S
          BY <3>5
        <4> HIDE DEF R, S
        <4>3. /\ table_devices[e] \subseteq S /\ devices_by_id_[e] \subseteq S
              /\ e \in DOMAIN statuses => statuses[e] \subseteq S
          BY <4>1, <4>2
        <4> QED BY <4>3 DEF S
      <3>9. DOMAIN seen \subseteq Devices /\ DOMAIN statuses \subseteq Devices /\ todo \subseteq Devices
            /\ DOMAIN table_devices = Devices /\ DOMAIN devices_by_id_ = Devices
        BY DEF Known
      <3> QED BY <2>1, <3>4, <3>6, <3>7, <3>8, <3>9 DEF Known
    <2> QED BY <1>8, <2>2, <2>3, ConsumeLineStores
  <1> QED BY <1>1, <1>2, <1>3, <1>4, <1>5, <1>6, <1>7, <1>8 DEF FlushStep

\* The flush loses no status of a device that nothing came for meanwhile.
LEMMA FreshStep ==
  ASSUME Typed, Stream, Known, Fresh, [Next]_vars
  PROVE  Fresh'
  <1> USE DEF FlushStates
  <1>1. CASE ~FlushStep /\ ~ConsumeLine
    <2>1. /\ UNCHANGED <<table_devices, devices_by_id_, todo, statuses, seen>>
          /\ UNCHANGED <<pending_statuses, received, raced>>
          /\ ui' = ui \/ (ui \notin FlushStates /\ ui' \notin FlushStates)
      BY <1>1, OthersLeaveFlush DEF FlushRelated, shownVars, flushVars
    <2>2. \A d \in Devices : Current(d)' = Current(d) /\ Copied(d)' = Copied(d)
      BY <2>1 DEF Current, Copied
    <2> QED BY <2>1, <2>2 DEF Fresh, Flushing
  <1>2. CASE FlushBegin
    <2>1. /\ ui = "idle" /\ ui' = "rows" /\ todo' = DOMAIN pending_statuses
          /\ UNCHANGED <<pending_statuses, table_devices, devices_by_id_, statuses, seen, received, raced>>
      BY <1>2 DEF FlushBegin, shownVars, historyVars
    <2>2. statuses = Nothing /\ seen = Nothing
      BY <2>1 DEF Fresh
    <2>3. DOMAIN statuses = {} /\ DOMAIN seen = {}
      BY <2>2 DEF Nothing
    <2>4. \A d \in Devices : Current(d)' = Current(d) /\ Copied(d)'
      BY <2>1, <2>3 DEF Current, Copied
    <2> QED BY <2>1, <2>2, <2>4 DEF Fresh, Flushing
  <1>3. ASSUME NEW d \in Devices, RowBegin(d)
        PROVE  Fresh'
    <2>1. /\ seen' = [e \in {d} |-> {pending_statuses[d]}] /\ d \in DOMAIN pending_statuses
          /\ ui = "rows" /\ ui' = "row"
          /\ UNCHANGED <<pending_statuses, table_devices, devices_by_id_, todo, statuses, received, raced>>
      BY <1>3 DEF RowBegin, shownVars, historyVars
    <2>2. DOMAIN seen' = {d} /\ seen'[d] = {received[d]}
      BY <2>1 DEF Known
    <2>3. \A e \in Devices \ raced : Current(e)'
      BY <2>1 DEF Fresh, Current
    <2>4. \A e \in Devices \ raced : Copied(e)'
      BY <2>1, <2>2 DEF Fresh, Flushing, Copied
    <2> QED BY <2>1, <2>3, <2>4 DEF Fresh
  <1>4. ASSUME NEW d \in Devices, RowEnd(d)
        PROVE  Fresh'
    <2>1. PICK row \in (SUBSET seen[d]) \ {{}}, copy \in (SUBSET seen[d]) \ {{}} :
            /\ table_devices' = [table_devices EXCEPT ![d] = row]
            /\ statuses' = [e \in DOMAIN statuses \cup {d} |->
                              IF e = d THEN copy ELSE statuses[e]]
      BY <1>4 DEF RowEnd
    <2>2. /\ ui = "row" /\ ui' = "rows" /\ d \in DOMAIN seen /\ seen' = Nothing
          /\ UNCHANGED <<pending_statuses, devices_by_id_, todo, received, raced>>
      BY <1>4 DEF RowEnd, historyVars
    <2>3. DOMAIN seen' = {}
      BY <2>2 DEF Nothing
    <2>4. \A e \in Devices \ raced : Current(e) /\ Copied(e)
      BY <2>2 DEF Fresh, Flushing
    <2>5. d \notin raced => row = {received[d]} /\ copy = {received[d]}
      <3> SUFFICES ASSUME d \notin raced PROVE row = {received[d]} /\ copy = {received[d]}
        OBVIOUS
      <3>1. seen[d] = {received[d]}
        BY <2>2, <2>4 DEF Copied
      <3>2. /\ row \subseteq {received[d]} /\ row # {}
            /\ copy \subseteq {received[d]} /\ copy # {}
        <4>1. row \in (SUBSET seen[d]) \ {{}} /\ copy \in (SUBSET seen[d]) \ {{}}
          BY <2>1
        <4> QED BY <3>1, <4>1, Zenon
      <3> QED BY <3>2, Zenon
    <2>6. table_devices'[d] = row /\ statuses'[d] = copy /\ d \in DOMAIN statuses'
      BY <2>1 DEF Known
    <2>7. \A e \in Devices \ {d} :
            /\ table_devices'[e] = table_devices[e]
            /\ e \in DOMAIN statuses' <=> e \in DOMAIN statuses
            /\ e \in DOMAIN statuses => statuses'[e] = statuses[e]
      BY <2>1 DEF Known
    <2>8. \A e \in Devices \ raced : Current(e)'
      <3> TAKE e \in Devices \ raced
      <3>1. CASE e = d
        BY <3>1, <2>2, <2>5, <2>6 DEF Current
      <3>2. CASE e # d
        BY <3>2, <2>2, <2>4, <2>7 DEF Current
      <3> QED BY <3>1, <3>2
    <2>9. \A e \in Devices \ raced : Copied(e)'
      <3> TAKE e \in Devices \ raced
      <3>1. CASE e = d
        BY <3>1, <2>2, <2>3, <2>4, <2>5, <2>6 DEF Copied
      <3>2. CASE e # d
        BY <3>2, <2>2, <2>3, <2>4, <2>7 DEF Copied
      <3> QED BY <3>1, <3>2
    <2> QED BY <2>2, <2>8, <2>9 DEF Fresh
  <1>5. CASE RowsDone
    <2>1. /\ ui = "rows" /\ ui' = "clear" /\ todo \subseteq DOMAIN statuses
          /\ UNCHANGED <<pending_statuses, table_devices, devices_by_id_, todo, statuses, seen>>
          /\ UNCHANGED <<received, raced>>
      BY <1>5 DEF RowsDone, shownVars, flushVars, historyVars
    <2>2. \A d \in Devices : Current(d)' = Current(d) /\ Copied(d)' = Copied(d)
      BY <2>1 DEF Current, Copied
    <2> QED BY <2>1, <2>2 DEF Fresh, Flushing
  <1>6. CASE ClearPending
    <2>1. /\ ui = "clear" /\ ui' = "upsert" /\ pending_statuses' = Nothing
          /\ UNCHANGED <<table_devices, devices_by_id_, todo, statuses, seen, received, raced>>
      BY <1>6 DEF ClearPending, shownVars, flushVars, historyVars
    <2>2. DOMAIN pending_statuses' = {}
      BY <2>1 DEF Nothing
    <2>3. todo \subseteq DOMAIN statuses /\ seen = Nothing
      BY <2>1 DEF Fresh
    <2>4. \A d \in Devices \ raced : Current(d) /\ Copied(d)
      BY <2>1 DEF Fresh, Flushing
    <2>5. \A d \in Devices \ raced : Current(d)'
      BY <2>1, <2>2, <2>3, <2>4 DEF Current, Copied
    <2> QED BY <2>1, <2>3, <2>5 DEF Fresh, Flushing
  <1>7. CASE UpsertDevices
    <2>1. /\ ui = "upsert" /\ ui' = "idle" /\ todo' = {} /\ statuses' = Nothing
          /\ devices_by_id_' = [d \in Devices |-> IF d \in DOMAIN statuses THEN statuses[d]
                                                 ELSE devices_by_id_[d]]
          /\ UNCHANGED <<pending_statuses, table_devices, seen, received, raced>>
      BY <1>7 DEF UpsertDevices, historyVars
    <2>2. DOMAIN statuses' = {}
      BY <2>1 DEF Nothing
    <2>3. seen = Nothing /\ \A d \in Devices \ raced : Current(d)
      BY <2>1 DEF Fresh
    <2>4. \A d \in Devices \ raced : Current(d)'
      BY <2>1, <2>2, <2>3 DEF Current
    <2> QED BY <2>1, <2>3, <2>4 DEF Fresh, Flushing
  <1>8. CASE ConsumeLine
    <2>1. UNCHANGED <<table_devices, devices_by_id_, todo, statuses>> /\ ui # "crashed"
      BY <1>8, ConsumeLineStores DEF shownVars
    <2>2. CASE UNCHANGED <<ui, pending_statuses, seen, received, raced>>
      <3>1. \A d \in Devices : Current(d)' = Current(d) /\ Copied(d)' = Copied(d)
        BY <2>1, <2>2 DEF Current, Copied
      <3> QED BY <2>1, <2>2, <3>1 DEF Fresh, Flushing
    <2>3. ASSUME NEW d \in Devices, NEW n \in Nat, received[d] < n, Store(d, n)
          PROVE  Fresh'
      <3>1. /\ pending_statuses' = Assigned(pending_statuses, d, n)
            /\ seen' = [e \in DOMAIN seen |-> IF e = d THEN seen[e] \cup {n} ELSE seen[e]]
            /\ received' = [received EXCEPT ![d] = n]
            /\ raced' = IF Flushing THEN raced \cup {d} ELSE raced \ {d}
            /\ ui' = ui \/ (Flushing /\ ui' = "crashed")
        BY <2>3 DEF Store
      <3>2. seen = Nothing => seen' = Nothing
        BY <3>1 DEF Nothing
      <3>3. \A e \in Devices \ {d} :
              /\ received'[e] = received[e]
              /\ e \in DOMAIN pending_statuses' <=> e \in DOMAIN pending_statuses
              /\ e \in DOMAIN seen' <=> e \in DOMAIN seen
              /\ e \in DOMAIN seen => seen'[e] = seen[e]
        BY <3>1 DEF Assigned, Typed
      <3>4. d \in DOMAIN pending_statuses'
        BY <3>1 DEF Assigned
      <3>5. \A e \in Devices \ {d} : (Current(e) => Current(e)') /\ (Copied(e) => Copied(e)')
        BY <2>1, <3>3 DEF Current, Copied
      <3>6. Current(d)'
        BY <3>4 DEF Current
      <3>7. \A e \in Devices \ raced' : Current(e)'
        <4> TAKE e \in Devices \ raced'
        <4>1. CASE e = d
          BY <4>1, <3>6
        <4>2. CASE e # d
          <5>1. e \notin raced
            BY <4>2, <3>1
          <5> QED BY <4>2, <5>1, <3>5, <2>1 DEF Fresh
        <4> QED BY <4>1, <4>2
      <3>8. Flushing' => \A e \in Devices \ raced' : Copied(e)'
        <4> SUFFICES ASSUME Flushing', NEW e \in Devices \ raced'
                     PROVE  Copied(e)'
          OBVIOUS
        <4>1. Flushing
          BY <3>1 DEF Flushing
        <4>2. e # d /\ e \notin raced
          BY <4>1, <3>1
        <4> QED BY <4>1, <4>2, <3>5 DEF Fresh
      <3> QED BY <2>1, <3>1, <3>2, <3>7, <3>8 DEF Fresh, Flushing
    <2> QED BY <1>8, <2>2, <2>3, ConsumeLineStores
  <1> QED BY <1>1, <1>2, <1>3, <1>4, <1>5, <1>6, <1>7, <1>8 DEF FlushStep

-----------------------------------------------------------------------------
(* The theorems.                                                           *)

\* The invariant holds at the beginning.
LEMMA InvInit == Init => Inv
  <1> SUFFICES ASSUME Init PROVE Inv
    OBVIOUS
  <1>1. Typed
    BY TypedInit
  <1>2. Requests
    <2>1. Asked = 0
      BY DEF Init, Asked, Quitting
    <2> QED BY <2>1, ViewerAssumption DEF Init, Requests
  <1>3. Bytes = <<>> /\ Len(Bytes) = 0 /\ DOMAIN Bytes = {}
    BY DEF Init, Bytes
  <1>4. Stream
    BY <1>3 DEF Init, Stream
  <1>5. Connection
    BY DEF Init, Connection
  <1>6. DOMAIN pending_statuses = {} /\ DOMAIN statuses = {} /\ DOMAIN seen = {}
    BY DEF Init, Nothing
  <1>7. Known
    BY <1>6 DEF Init, Known
  <1>8. Fresh
    BY <1>6 DEF Init, Fresh, Current, FlushStates, Flushing
  <1>9. TextAgrees
    BY DEF Init, TextAgrees, LastText
  <1> QED BY <1>1, <1>2, <1>4, <1>5, <1>7, <1>8, <1>9 DEF Inv

\* Every reachable state of the viewer satisfies the inductive invariant.
THEOREM Invariance == Spec => []Inv
  <1>1. Inv /\ [Next]_vars => Inv'
    BY TypedStep, RequestsStep, StreamStep, ConnectionStep, KnownStep, FreshStep, TextAgreesStep DEF Inv
  <1> QED BY InvInit, <1>1, PTL DEF Spec

\* Types: among others, no connection is made that no click asked for, and the
\* table and the map show statuses that were received (NetworkWorker and main's
\* flush timer, network_worker.cpp and main.cpp of the viewer).
THEOREM TypesCorrect == Spec => []TypeOK
  <1>1. Inv => TypeOK
    <2> SUFFICES ASSUME Inv PROVE TypeOK
      OBVIOUS
    <2> USE DEF Inv
    <2>1. conn \in 0 .. ClickLimit
      <3> DEFINE c == IF socket = "Connecting" THEN 1 ELSE 0
      <3>1. Asked >= 0 /\ Asked \in Int
        <4> DEFINE q == Len(worker_queue)
        <4>1. q \in Nat
          BY DEF Typed
        <4>2. worker_queue # <<>> => q # 0
          BY DEF Typed
        <4>3. Asked = q + (IF ui \in {"connect", "disconnect"} THEN 1 ELSE 0)
                        - (IF Quitting /\ worker_queue # <<>> THEN 1 ELSE 0)
          BY DEF Asked
        <4> HIDE DEF q
        <4> QED BY <4>1, <4>2, <4>3
      <3>2. conn + c + Asked =< clicks /\ c \in Nat /\ conn \in Nat /\ clicks \in 0 .. ClickLimit
        BY DEF Requests, Typed
      <3> HIDE DEF c
      <3> QED BY <3>1, <3>2, ViewerAssumption
    <2>2. \A d \in Devices :
            /\ received[d] \in 0 .. produced
            /\ table_devices[d] \subseteq 1 .. received[d]
            /\ devices_by_id_[d] \subseteq 1 .. received[d]
            /\ d \in DOMAIN pending_statuses => pending_statuses[d] \in 1 .. received[d]
      <3> TAKE d \in Devices
      <3>1. received[d] \in Nat /\ produced \in Nat
        BY DEF Typed
      <3>2. received[d] =< produced
        BY DEF Stream
      <3>3. d \in DOMAIN pending_statuses => pending_statuses[d] = received[d] /\ received[d] # 0
        BY DEF Known
      <3>4. received[d] \in 0 .. produced
        BY <3>1, <3>2
      <3>5. d \in DOMAIN pending_statuses => pending_statuses[d] \in 1 .. received[d]
        BY <3>1, <3>3
      <3>6. table_devices[d] \subseteq 1 .. received[d] /\ devices_by_id_[d] \subseteq 1 .. received[d]
        BY DEF Known
      <3> QED BY <3>4, <3>5, <3>6
    <2>3. ui = "idle" => todo = {} /\ statuses = Nothing /\ seen = Nothing
      BY DEF Fresh, FlushStates
    <2> QED BY <2>1, <2>2, <2>3 DEF TypeOK, Typed, Known, UiStates, Sockets
  <1> QED BY <1>1, Invariance, PTL

\* consume_status_lines never puts a line together from bytes of two
\* connections, and misses none in between.
THEOREM LinesAreOfOneConnection == Spec => []BufferIsOfThisConnection
  <1>1. Inv => BufferIsOfThisConnection
    <2> SUFFICES ASSUME Inv PROVE BufferIsOfThisConnection
      OBVIOUS
    <2>1. receive_buffer_ \in Seq(Chunk) /\ wire \in Seq(Chunk)
      BY DEF Inv, Typed
    <2>2. ASSUME NEW i \in DOMAIN receive_buffer_ PROVE receive_buffer_[i].conn = conn
      <3>1. i \in DOMAIN Bytes /\ Bytes[i] = receive_buffer_[i]
        BY <2>1 DEF Bytes
      <3> QED BY <3>1 DEF Inv, Stream
    <2>3. socket = "Unconnected" => receive_buffer_ = <<>>
      <3> SUFFICES ASSUME socket = "Unconnected" PROVE receive_buffer_ = <<>>
        OBVIOUS
      <3>1. Bytes = <<>>
        BY DEF Inv, Stream
      <3>2. Len(Bytes) = Len(receive_buffer_) + Len(wire)
        BY <2>1 DEF Bytes
      <3> QED BY <2>1, <3>1, <3>2
    <2> QED BY <2>2, <2>3 DEF Inv, Stream, Bytes, BufferIsOfThisConnection
  <1> QED BY <1>1, Invariance, PTL

\* Between two flushes the last status of a device that did not come during one
\* waits in pending_statuses or is what the table and the map show.
THEOREM NoStatusIsLost == Spec => []UpToDateUnlessRaced
  <1>1. Inv => UpToDateUnlessRaced
    <2> SUFFICES ASSUME Inv, ui = "idle", NEW d \in Devices \ raced
                 PROVE  \/ received[d] = 0
                        \/ d \in DOMAIN pending_statuses /\ pending_statuses[d] = received[d]
                        \/ table_devices[d] = {received[d]} /\ devices_by_id_[d] = {received[d]}
      BY DEF UpToDateUnlessRaced
    <2>1. Current(d) /\ statuses = Nothing
      BY DEF Inv, Fresh, FlushStates
    <2>2. d \notin DOMAIN statuses
      BY <2>1 DEF Nothing
    <2>3. d \in DOMAIN pending_statuses => pending_statuses[d] = received[d]
      BY DEF Inv, Known
    <2> QED BY <2>1, <2>2, <2>3 DEF Current
  <1> QED BY <1>1, Invariance, PTL

\* Once the posted texts are shown, the label is wrong about the socket only where
\* it says Connecting, in whatever order direct and posted signals were handled; the
\* button is never wrong.
THEOREM LabelAgrees == Spec => []OnlyConnectingIsStale
  <1>1. Inv => OnlyConnectingIsStale
    BY DEF Inv, Connection, TextAgrees, LastText, OnlyConnectingIsStale
  <1> QED BY <1>1, Invariance, PTL
=============================================================================
