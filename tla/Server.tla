------------------------------- MODULE Server -------------------------------
(***************************************************************************)
(* The telemetry server of apps/server/main.cpp: one thread running an     *)
(* epoll loop over a listening socket and the connections accepted from    *)
(* it, together with the kernel objects it shares with its clients (the    *)
(* descriptor table, the accept queue and two byte queues per connection)  *)
(* and with what the client programs of this repository do on a socket.    *)
(*                                                                         *)
(* A line of the protocol travels as two chunks, and only the second one   *)
(* carries the newline: that is enough for TCP to split a line, to merge   *)
(* lines, and for a short send() to cut one.                               *)
(***************************************************************************)
EXTENDS Integers, Sequences, FiniteSets

CONSTANTS
  Conns,      \* the connections that clients make
  Fds,        \* the descriptors the kernel can hand to the server
  ListenFd,   \* the descriptor of the listening socket
  NoConn,     \* "no connection": a free descriptor
  Devices,    \* the device ids
  DeviceOf,   \* the device a connection reports on
  Says,       \* the kinds of line the program behind a connection writes
  LineLimit,  \* bound: how many lines a connection writes
  SendBuf,    \* room, in chunks, of the send buffer of an accepted socket
  MaxEvents,  \* kMaxEvents
  MaxMetrics  \* bound: how many METRICS lines are produced

\* What a client may write: a viewer's HELLO, a HELLO of another role, a STATUS
\* without and with ack=1, and a line the parser rejects.
ClientKinds == {"HELLO", "HELLO_OTHER", "STATUS", "STATUS_ACK", "BAD"}

ASSUME ServerAssumption ==
  /\ ListenFd \notin Fds
  /\ NoConn \notin Conns
  /\ IsFiniteSet(Conns) /\ IsFiniteSet(Fds)
  /\ DeviceOf \in [Conns -> Devices]
  /\ Says \in [Conns -> SUBSET ClientKinds]
  /\ LineLimit \in [Conns -> Nat]
  /\ SendBuf \in Nat \ {0, 1}
  /\ MaxEvents \in Nat \ {0}
  /\ MaxMetrics \in Nat

Line == [kind : ClientKinds \cup {"ACK", "METRICS"},
         src  : Conns \cup {NoConn},
         seq  : Nat]
Chunk == [line : Line, nl : BOOLEAN]

Halves(line) == <<[line |-> line, nl |-> FALSE], [line |-> line, nl |-> TRUE]>>
Garbled == [kind |-> "BAD", src |-> NoConn, seq |-> 0]

VARIABLES
  pc,                    \* where the loop is
  g_should_stop,
  events,                \* what epoll_wait returned and is not handled yet
  cur,                   \* the descriptor whose lines are being handled
  still_connected,
  client_buffers,        \* unordered_map<int, string>
  telemetry_client_fds,
  viewer_client_fds,
  status_store,          \* DeviceStatusStore: device id to latest line
  counters
batchVars == <<events, cur, still_connected>>
tableVars == <<client_buffers, telemetry_client_fds, viewer_client_fds>>
resultVars == <<status_store, counters>>
serverVars == <<pc, g_should_stop, batchVars, tableVars, resultVars>>

VARIABLES
  epoll,                 \* the interest list
  fd_table,              \* the connection behind each descriptor
  backlog,               \* established, not accepted yet
  peer,                  \* how the other end of a connection looks from here
  inbox,                 \* received by the kernel, not by recv()
  outbox                 \* accepted by send(), not read by the client
kernelVars == <<epoll, fd_table, backlog, peer, inbox, outbox>>

VARIABLES
  written,               \* the kinds of the complete lines a client wrote
  unfinished,            \* the kind of the line it is in the middle of
  awaiting               \* it waits for an ACK
clientVars == <<written, unfinished, awaiting>>

vars == <<serverVars, kernelVars, clientVars>>

Counters == [total_accepted : Nat, total_disconnected : Nat,
             status_received : Nat, ack_sent : Nat, parse_errors : Nat,
             broadcast_errors : Nat, last_report_status_received : Nat,
             reports : 0..MaxMetrics]

Init ==
  /\ pc = "loop"
  /\ g_should_stop = FALSE
  /\ events = {}
  /\ cur = ListenFd
  /\ still_connected = TRUE
  /\ client_buffers = [fd \in {} |-> <<>>]
  /\ telemetry_client_fds = {}
  /\ viewer_client_fds = {}
  /\ status_store = [d \in {} |-> Garbled]
  /\ counters = [total_accepted |-> 0, total_disconnected |-> 0,
                 status_received |-> 0, ack_sent |-> 0, parse_errors |-> 0,
                 broadcast_errors |-> 0, last_report_status_received |-> 0,
                 reports |-> 0]
  /\ epoll = {ListenFd}
  /\ fd_table = [fd \in Fds |-> NoConn]
  /\ backlog = {}
  /\ peer = [c \in Conns |-> "idle"]
  /\ inbox = [c \in Conns |-> <<>>]
  /\ outbox = [c \in Conns |-> <<>>]
  /\ written = [c \in Conns |-> <<>>]
  /\ unfinished = [c \in Conns |-> "none"]
  /\ awaiting = [c \in Conns |-> FALSE]

-----------------------------------------------------------------------------
(* The clients: simulator, load generator, viewer, or anything else.       *)

Connect(c) ==
  /\ peer[c] = "idle"
  /\ peer' = [peer EXCEPT ![c] = "open"]
  /\ backlog' = backlog \cup {c}
  /\ UNCHANGED <<serverVars, clientVars, epoll, fd_table, inbox, outbox>>

\* A line leaves in two pieces that may be received apart; a client that asked
\* for an ACK writes nothing before it has read it.
WriteHalf(c, kind) ==
  /\ peer[c] = "open" /\ ~awaiting[c]
  /\ unfinished[c] = "none" /\ Len(written[c]) < LineLimit[c]
  /\ kind \in Says[c]
  /\ LET line == [kind |-> kind, src |-> c, seq |-> Len(written[c]) + 1]
     IN  inbox' = [inbox EXCEPT ![c] = Append(@, Halves(line)[1])]
  /\ unfinished' = [unfinished EXCEPT ![c] = kind]
  /\ UNCHANGED <<serverVars, epoll, fd_table, backlog, peer, outbox, written, awaiting>>

WriteRest(c) ==
  /\ peer[c] = "open" /\ unfinished[c] # "none"
  /\ LET line == [kind |-> unfinished[c], src |-> c, seq |-> Len(written[c]) + 1]
     IN  inbox' = [inbox EXCEPT ![c] = Append(@, Halves(line)[2])]
  /\ written' = [written EXCEPT ![c] = Append(@, unfinished[c])]
  /\ awaiting' = [awaiting EXCEPT ![c] = (unfinished[c] = "STATUS_ACK")]
  /\ unfinished' = [unfinished EXCEPT ![c] = "none"]
  /\ UNCHANGED <<serverVars, epoll, fd_table, backlog, peer, outbox>>

ReadChunk(c) ==
  /\ peer[c] = "open" /\ outbox[c] # <<>>
  /\ outbox' = [outbox EXCEPT ![c] = Tail(@)]
  /\ awaiting' = [awaiting EXCEPT ![c] =
                    @ /\ ~(Head(outbox[c]).nl /\ Head(outbox[c]).line.kind = "ACK")]
  /\ UNCHANGED <<serverVars, epoll, fd_table, backlog, peer, inbox, written,
                 unfinished>>

\* close(), or the end of the process, at any moment: TCP sends a FIN when
\* everything received was read and a RST otherwise.
CloseClient(c) ==
  /\ peer[c] = "open"
  /\ peer' = [peer EXCEPT ![c] = IF outbox[c] = <<>> THEN "fin" ELSE "rst"]
  /\ outbox' = [outbox EXCEPT ![c] = <<>>]
  /\ UNCHANGED <<serverVars, clientVars, epoll, fd_table, backlog, inbox>>

ClientStep ==
  \E c \in Conns :
    \/ Connect(c)
    \/ \E kind \in ClientKinds : WriteHalf(c, kind)
    \/ WriteRest(c)
    \/ ReadChunk(c)
    \/ CloseClient(c)

-----------------------------------------------------------------------------
(* send() on the non-blocking socket of a connection.                      *)

\* The queue after send(): all of the line, the part that fits, or nothing.
Pushed(queue, line) ==
  LET room == SendBuf - Len(queue)
  IN  IF room > 1 THEN queue \o Halves(line)
      ELSE IF room = 1 THEN Append(queue, Halves(line)[1])
      ELSE queue

\* The first send() after the peer closed is accepted and answered with a RST,
\* which every later one reports; recv() has then nothing left to report but
\* the end of the stream.
SendFails(c) == c = NoConn \/ peer[c] \in {"rst", "dead"}
SendAccepts(c) == peer[c] = "fin" \/ (peer[c] = "open" /\ Len(outbox[c]) < SendBuf)

\* out: the line sent to each connection of its domain.
Transmit(out) ==
  /\ outbox' = [c \in Conns |-> IF c \in DOMAIN out /\ peer[c] = "open"
                                THEN Pushed(outbox[c], out[c]) ELSE outbox[c]]
  /\ peer' = [c \in Conns |-> IF c \in DOMAIN out /\ peer[c] # "open"
                              THEN "dead" ELSE peer[c]]

AckFor(line) == [kind |-> "ACK", src |-> line.src, seq |-> line.seq]
MetricsLine == [kind |-> "METRICS", src |-> NoConn, seq |-> 0]

\* Fault: the source hears its own report.
AudienceWithSource(source_fd) == {fd_table[fd] : fd \in viewer_client_fds}

\* broadcast_to_viewers(): the connections a line from source_fd goes to.
Audience(source_fd) == {fd_table[fd] : fd \in viewer_client_fds \ {source_fd}}
Refused(conns) == Cardinality({c \in conns : SendFails(c)})

-----------------------------------------------------------------------------
(* run_event_loop().                                                       *)

\* Fault: only bytes are an event, the end of a connection is none.
IsReadyWithBytes(fd) == IF fd = ListenFd THEN backlog # {} ELSE inbox[fd_table[fd]] # <<>>

IsReady(fd) == IF fd = ListenFd THEN backlog # {}
               ELSE inbox[fd_table[fd]] # <<>> \/ peer[fd_table[fd]] # "open"
ReadyFds == {fd \in epoll : IsReady(fd)}

\* A signal sets the flag, wherever the loop is.  It ends a wait only if that has
\* begun: one that comes between the test of the flag and the wait does not.
Signal ==
  /\ g_should_stop' = TRUE
  /\ \/ ~g_should_stop /\ UNCHANGED pc
     \/ pc = "wait" /\ ReadyFds = {} /\ pc' = "loop"
  /\ UNCHANGED <<kernelVars, clientVars, batchVars, tableVars, resultVars>>

LoopGoesOn == ~g_should_stop

LoopHead ==
  /\ pc = "loop"
  /\ pc' = IF LoopGoesOn THEN "wait" ELSE "stopped"
  /\ UNCHANGED <<kernelVars, clientVars, g_should_stop, batchVars, tableVars,
                 resultVars>>

\* Level-triggered epoll_wait(): up to kMaxEvents of the ready descriptors, in
\* an order that the loop below does not choose.
EpollWait ==
  /\ pc = "wait" /\ ReadyFds # {}
  /\ \E ready \in SUBSET ReadyFds :
       /\ \/ ready = ReadyFds /\ Cardinality(ready) <= MaxEvents
          \/ Cardinality(ready) = MaxEvents
       /\ events' = ready
  /\ pc' = "events"
  /\ UNCHANGED <<kernelVars, clientVars, g_should_stop, cur, still_connected,
                 tableVars, resultVars>>

\* Fault: a timeout of -1.
WaitsForEver == FALSE

WaitIsLimited == TRUE

\* No event for a second.
EpollTimeout ==
  /\ pc = "wait" /\ ReadyFds = {} /\ WaitIsLimited
  /\ pc' = "report"
  /\ UNCHANGED <<kernelVars, clientVars, g_should_stop, batchVars, tableVars,
                 resultVars>>

\* Fault: the loop over the batch does not advance behind a client.
SameEvent(fd) == events' = IF fd = ListenFd THEN events \ {fd} ELSE events

NextEvent(fd) == events' = events \ {fd}

ListenEvent ==
  /\ pc = "events" /\ ListenFd \in events
  /\ NextEvent(ListenFd)
  /\ pc' = "accept"
  /\ UNCHANGED <<kernelVars, clientVars, g_should_stop, cur, still_connected,
                 tableVars, resultVars>>

FreeFds == {fd \in Fds : fd_table[fd] = NoConn}

\* emplace(): an entry that is already there keeps its value.
Emplaced(fd) == [f \in DOMAIN client_buffers \cup {fd} |->
                   IF f \in DOMAIN client_buffers THEN client_buffers[f] ELSE <<>>]

\* One round of accept_ready_clients().
AcceptOne ==
  /\ pc = "accept"
  /\ \E c \in backlog, fd \in FreeFds :
       /\ backlog' = backlog \ {c}
       /\ fd_table' = [fd_table EXCEPT ![fd] = c]
       /\ epoll' = epoll \cup {fd}
       /\ client_buffers' = Emplaced(fd)
       /\ telemetry_client_fds' = telemetry_client_fds \cup {fd}
  /\ counters' = [counters EXCEPT !.total_accepted = @ + 1]
  /\ UNCHANGED <<clientVars, pc, g_should_stop, batchVars, viewer_client_fds,
                 status_store, peer, inbox, outbox>>

\* Its last round: the error that is thrown when no descriptor is left, because
\* accept() wants one before it looks for a connection; or EAGAIN.
AcceptEnd ==
  /\ pc = "accept"
  /\ backlog = {} \/ FreeFds = {}
  /\ pc' = IF FreeFds = {} THEN "failed" ELSE "events"
  /\ UNCHANGED <<kernelVars, clientVars, g_should_stop, batchVars, tableVars,
                 resultVars>>

\* Fault: close() alone.
CloseOnly(fd) ==
  /\ UNCHANGED epoll
  /\ fd_table' = [fd_table EXCEPT ![fd] = NoConn]
  /\ peer' = [peer EXCEPT ![fd_table[fd]] = "closed"]

\* remove_epoll_fd(): EPOLL_CTL_DEL and close().
RemoveEpollFd(fd) ==
  /\ epoll' = epoll \ {fd}
  /\ fd_table' = [fd_table EXCEPT ![fd] = NoConn]
  /\ peer' = [peer EXCEPT ![fd_table[fd]] = "closed"]

\* Faults: one of the lines of the clean-up is missing.
DisconnectButBuffer(fd) ==
  /\ UNCHANGED client_buffers
  /\ telemetry_client_fds' = telemetry_client_fds \ {fd}
  /\ viewer_client_fds' = viewer_client_fds \ {fd}
  /\ counters' = [counters EXCEPT !.total_disconnected = @ + 1]
  /\ RemoveEpollFd(fd)
DisconnectUncounted(fd) ==
  /\ client_buffers' = [f \in DOMAIN client_buffers \ {fd} |-> client_buffers[f]]
  /\ telemetry_client_fds' = telemetry_client_fds \ {fd}
  /\ viewer_client_fds' = viewer_client_fds \ {fd}
  /\ UNCHANGED counters
  /\ RemoveEpollFd(fd)

\* What the loop does with a connection that has ended.
Disconnect(fd) ==
  /\ client_buffers' = [f \in DOMAIN client_buffers \ {fd} |-> client_buffers[f]]
  /\ telemetry_client_fds' = telemetry_client_fds \ {fd}
  /\ viewer_client_fds' = viewer_client_fds \ {fd}
  /\ counters' = [counters EXCEPT !.total_disconnected = @ + 1]
  /\ RemoveEpollFd(fd)

\* Fault: assign() for append().
Replaced(buffer, bytes) == bytes

Appended(buffer, bytes) == buffer \o bytes

\* receive_available_data(): everything the kernel holds, then the end of the
\* stream, an error that is thrown, or EAGAIN.
Receive(fd) ==
  LET c == fd_table[fd] IN
  /\ client_buffers' = [client_buffers EXCEPT ![fd] = Appended(@, inbox[c])]
  /\ inbox' = [inbox EXCEPT ![c] = <<>>]
  /\ still_connected' = (peer[c] = "open")
  /\ cur' = fd
  /\ pc' = IF peer[c] = "rst" THEN "failed" ELSE "lines"

ClientEvent ==
  /\ pc = "events"
  /\ \E fd \in events \ {ListenFd} :
       /\ NextEvent(fd)
       /\ IF fd \in DOMAIN client_buffers
          THEN Receive(fd) /\ UNCHANGED <<epoll, fd_table, peer>>
          ELSE RemoveEpollFd(fd)
               /\ UNCHANGED <<pc, client_buffers, inbox, still_connected, cur>>
  /\ UNCHANGED <<clientVars, g_should_stop, telemetry_client_fds, viewer_client_fds,
                 resultVars, backlog, outbox>>

-----------------------------------------------------------------------------
(* take_next_line() and what the loop does with the line.                  *)

IsFirstNewline(buffer, i) == buffer[i].nl /\ \A j \in 1 .. i - 1 : ~buffer[j].nl

\* Fault: the lines that came with the end of the stream are not looked at.
HasLineWhileConnected(buffer) ==
  still_connected /\ \E i \in DOMAIN buffer : IsFirstNewline(buffer, i)

HasLine(buffer) == \E i \in DOMAIN buffer : IsFirstNewline(buffer, i)
LineEnd(buffer) == CHOOSE i \in DOMAIN buffer : IsFirstNewline(buffer, i)

\* The line the bytes spell: pieces of different lines spell none.
NextLine(buffer) == IF LineEnd(buffer) = 2 /\ buffer[1].line = buffer[2].line
                    THEN buffer[2].line ELSE Garbled

\* Faults: nothing is erased; the newline is left.
NothingErased(buffer) == buffer
NewlineLeft(buffer) == SubSeq(buffer, LineEnd(buffer), Len(buffer))

RestOf(buffer) == SubSeq(buffer, LineEnd(buffer) + 1, Len(buffer))

\* The next line of the buffer of cur is one of these kinds, and is taken.
TakeLine(kinds) ==
  /\ pc = "lines"
  /\ HasLine(client_buffers[cur])
  /\ NextLine(client_buffers[cur]).kind \in kinds
  /\ client_buffers' = [client_buffers EXCEPT ![cur] = RestOf(@)]

HandleHelloLine ==
  /\ TakeLine({"HELLO", "HELLO_OTHER"})
  /\ viewer_client_fds' = IF NextLine(client_buffers[cur]).kind = "HELLO"
                          THEN viewer_client_fds \cup {cur} ELSE viewer_client_fds
  /\ UNCHANGED <<kernelVars, clientVars, pc, g_should_stop, batchVars,
                 telemetry_client_fds, resultVars>>

HandleInvalidLine ==
  /\ TakeLine({"BAD"})
  /\ counters' = [counters EXCEPT !.parse_errors = @ + 1]
  /\ UNCHANGED <<kernelVars, clientVars, pc, g_should_stop, batchVars,
                 telemetry_client_fds, viewer_client_fds, status_store>>

\* Faults: the source for the key; insert() for insert_or_assign().
KeyedBySource(store, line) == [d \in DOMAIN store \cup {line.src} |->
                                 IF d = line.src THEN line ELSE store[d]]
InsertOnly(store, line) == [d \in DOMAIN store \cup {DeviceOf[line.src]} |->
                              IF d \in DOMAIN store THEN store[d] ELSE line]

\* DeviceStatusStore::upsert()
Upsert(store, line) == [d \in DOMAIN store \cup {DeviceOf[line.src]} |->
                          IF d = DeviceOf[line.src] THEN line ELSE store[d]]

\* Store, acknowledge to the source, relay to the viewers.  The hand-over to the
\* MQTT bridge changes nothing here.  An ACK that was sent is counted in a step of
\* its own, as the client may have it before; only this thread reads the count, so
\* that the relaying, which the code does behind it, may stand before it here.
HandleStatusLine ==
  LET line == NextLine(client_buffers[cur])
      source == fd_table[cur]
      acked == IF line.kind = "STATUS_ACK" THEN {source} ELSE {}
      audience == Audience(cur)
  IN
  /\ TakeLine({"STATUS", "STATUS_ACK"})
  /\ status_store' = Upsert(status_store, line)
  /\ Transmit([c \in acked \cup audience |->
                 IF c \in acked THEN AckFor(line) ELSE line])
  /\ counters' = [counters EXCEPT
                    !.status_received = @ + 1,
                    !.broadcast_errors = @ + Refused(audience)]
  /\ pc' = IF \E c \in acked : SendAccepts(c) THEN "acked" ELSE "lines"
  /\ UNCHANGED <<clientVars, g_should_stop, batchVars, telemetry_client_fds,
                 viewer_client_fds, epoll, fd_table, backlog, inbox>>

CountAck ==
  /\ pc = "acked"
  /\ counters' = [counters EXCEPT !.ack_sent = @ + 1]
  /\ pc' = "lines"
  /\ UNCHANGED <<kernelVars, clientVars, g_should_stop, batchVars, tableVars, status_store>>

\* No complete line is left: the next event, after closing what has ended.
LinesDone ==
  /\ pc = "lines" /\ ~HasLine(client_buffers[cur])
  /\ pc' = "events"
  /\ UNCHANGED <<clientVars, g_should_stop, batchVars, status_store, backlog, inbox,
                 outbox>>
  /\ \/ /\ still_connected
        /\ UNCHANGED <<tableVars, counters, epoll, fd_table, peer>>
     \/ ~still_connected /\ Disconnect(cur)

EventsDone ==
  /\ pc = "events" /\ events = {}
  /\ pc' = "report"
  /\ UNCHANGED <<kernelVars, clientVars, g_should_stop, batchVars, tableVars,
                 resultVars>>

\* print_metrics_if_due(): whether a second has passed is left open.
PrintMetricsIfDue ==
  /\ pc = "report"
  /\ pc' = "loop"
  /\ \/ UNCHANGED <<counters, peer, outbox>>
     \/ /\ counters.reports < MaxMetrics
        /\ Transmit([c \in Audience(ListenFd) |-> MetricsLine])
        /\ counters' = [counters EXCEPT
                          !.broadcast_errors = @ + Refused(Audience(ListenFd)),
                          !.last_report_status_received = counters.status_received,
                          !.reports = @ + 1]
  /\ UNCHANGED <<clientVars, g_should_stop, batchVars, tableVars, status_store, epoll,
                 fd_table, backlog, inbox>>

ServerStep ==
  \/ LoopHead \/ EpollWait \/ EpollTimeout
  \/ ListenEvent \/ AcceptOne \/ AcceptEnd \/ ClientEvent
  \/ HandleHelloLine \/ HandleInvalidLine \/ HandleStatusLine \/ CountAck \/ LinesDone
  \/ EventsDone \/ PrintMetricsIfDue

\* main() has returned.
Ended == pc \in {"stopped", "failed"}
AfterEnd == Ended /\ UNCHANGED vars

Next == ClientStep \/ Signal \/ ServerStep \/ AfterEnd
Spec == Init /\ [][Next]_vars

-----------------------------------------------------------------------------
(* Properties.                                                             *)

\* The type of every variable; no send() queues more than the buffer holds.
TypeOK ==
  /\ pc \in {"loop", "wait", "events", "accept", "lines", "acked", "report",
            "stopped", "failed"}
  /\ g_should_stop \in BOOLEAN /\ still_connected \in BOOLEAN
  /\ events \subseteq Fds \cup {ListenFd}
  /\ cur \in Fds \cup {ListenFd}
  /\ DOMAIN client_buffers \subseteq Fds
  /\ client_buffers \in [DOMAIN client_buffers -> Seq(Chunk)]
  /\ telemetry_client_fds \subseteq Fds /\ viewer_client_fds \subseteq Fds
  /\ DOMAIN status_store \subseteq Devices
  /\ status_store \in [DOMAIN status_store -> Line]
  /\ counters \in Counters
  /\ epoll \subseteq Fds \cup {ListenFd}
  /\ fd_table \in [Fds -> Conns \cup {NoConn}]
  /\ backlog \subseteq Conns
  /\ peer \in [Conns -> {"idle", "open", "fin", "rst", "dead", "closed"}]
  /\ inbox \in [Conns -> Seq(Chunk)]
  /\ outbox \in [Conns -> Seq(Chunk)]
  /\ written \in [Conns -> Seq(ClientKinds)]
  /\ unfinished \in [Conns -> ClientKinds \cup {"none"}]
  /\ awaiting \in [Conns -> BOOLEAN]
  /\ \A c \in Conns : Len(outbox[c]) <= SendBuf

\* The four tables that run_event_loop() and the kernel keep of the open
\* connections, in four containers, always describe the same ones.
OpenFds == {fd \in Fds : fd_table[fd] # NoConn}
TablesAgree ==
  /\ DOMAIN client_buffers = OpenFds
  /\ telemetry_client_fds = OpenFds
  /\ viewer_client_fds \subseteq OpenFds
  /\ epoll = OpenFds \cup {ListenFd}
  /\ \A f, g \in OpenFds : fd_table[f] = fd_table[g] => f = g

\* An event that waits in the batch is about a connection that is still open,
\* whatever the events before it closed or accepted: the branch of the loop that
\* closes an unknown descriptor is never taken.
NoStaleEvent ==
  /\ pc = "events" => events \subseteq DOMAIN client_buffers \cup {ListenFd}
  /\ pc \in {"lines", "acked"} => cur \in DOMAIN client_buffers

\* METRICS reports as active what was accepted and has not been disconnected.
ActiveMatchesCounters ==
  Cardinality(telemetry_client_fds) = counters.total_accepted - counters.total_disconnected

\* The bytes in the buffer of a descriptor came from the connection behind it:
\* none is left from the connection that had the descriptor before.
BytesStayWithConnection ==
  \A fd \in DOMAIN client_buffers : \A i \in DOMAIN client_buffers[fd] :
    client_buffers[fd][i].line.src = fd_table[fd]

\* "Only viewer clients receive STATUS/METRICS broadcasts. Load generator sockets
\* must see only ACK lines" (main.cpp:351): an ACK goes to the connection that
\* sent the line, everything else to another one that has sent a viewer's HELLO.
Saluted(c) == \E i \in DOMAIN written[c] : written[c][i] = "HELLO"
Routing ==
  \A c \in Conns : \A i \in DOMAIN outbox[c] :
    LET line == outbox[c][i].line
    IN  IF line.kind = "ACK" THEN line.src = c ELSE line.src # c /\ Saluted(c)

\* What a viewer reads of one reporter is in the order it was reported, and
\* nothing twice, however often the queue was full in between.
ViewerStreamOrdered ==
  \A c \in Conns : \A i, j \in DOMAIN outbox[c] :
    LET a == outbox[c][i]
        b == outbox[c][j]
    IN  i < j /\ a.nl = b.nl /\ a.line.src = b.line.src /\ a.line.src # NoConn
          => a.line.seq < b.line.seq

\* "The in-memory source of truth" (main.cpp:316): no viewer is shown a status
\* newer than the one stored for the device by the same reporter.
ViewerNeverAheadOfStore ==
  \A c \in Conns : \A i \in DOMAIN outbox[c] :
    LET line == outbox[c][i].line
        d == DeviceOf[line.src]
    IN  line.kind \in {"STATUS", "STATUS_ACK"} =>
          /\ d \in DOMAIN status_store
          /\ status_store[d].src = line.src => status_store[d].seq >= line.seq

\* A client that waits for an ACK and reports only, is never left waiting for
\* nothing: its line or the ACK in full is still on its way.
InTransit(c) == {inbox[c][i].line : i \in {k \in DOMAIN inbox[c] : inbox[c][k].nl}}
Buffered(c) ==
  UNION {{client_buffers[fd][i].line :
            i \in {k \in DOMAIN client_buffers[fd] : client_buffers[fd][k].nl}} :
         fd \in {f \in DOMAIN client_buffers : fd_table[f] = c}}
LastLine(c) == [kind |-> "STATUS_ACK", src |-> c, seq |-> Len(written[c])]
AckOwed ==
  \A c \in Conns :
    awaiting[c] /\ peer[c] = "open" /\ "HELLO" \notin Says[c] =>
      \/ LastLine(c) \in InTransit(c) \cup Buffered(c)
      \/ \E i \in DOMAIN outbox[c] :
           outbox[c][i] = [line |-> AckFor(LastLine(c)), nl |-> TRUE]

\* Every complete line is counted once, as a status or as a parse error, also
\* those that came just before the end of the stream or right behind one another.
WrittenLines(kinds) ==
  UNION {{[kind |-> written[c][i], src |-> c, seq |-> i] :
            i \in {k \in DOMAIN written[c] : written[c][k] \in kinds}} : c \in Conns}
Unhandled == UNION {InTransit(c) \cup Buffered(c) : c \in Conns}
EveryLineCountedOnce ==
  /\ counters.status_received = Cardinality(WrittenLines({"STATUS", "STATUS_ACK"}) \ Unhandled)
  /\ counters.parse_errors = Cardinality(WrittenLines({"BAD"}) \ Unhandled)

\* SIGINT and SIGTERM end the server, whatever the clients do meanwhile.
StopsOnSignal == g_should_stop ~> Ended

\* "Server keeps running until `Ctrl+C`." (README.md:184)
KeepsRunning == pc # "failed"
=============================================================================
