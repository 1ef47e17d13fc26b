---------------------------- MODULE ServerProofs ----------------------------
(***************************************************************************)
(* What Server promises for every set of connections, descriptors and      *)
(* devices, and every size of the send buffer.                             *)
(***************************************************************************)
EXTENDS Server, FiniteSetTheorems, SequenceTheorems, TLAPS

USE DEF batchVars, tableVars, resultVars

\* What the loop has still to handle is about open connections.
EventsKnown ==
  /\ pc \in {"events", "accept", "lines", "acked"} =>
       events \subseteq DOMAIN client_buffers \cup {ListenFd}
  /\ pc \in {"lines", "acked"} => cur \in DOMAIN client_buffers \ events

\* A connection is made once, waits in the backlog, then has one descriptor.
PeersKnown ==
  /\ \A c \in backlog : peer[c] # "idle" /\ \A fd \in Fds : fd_table[fd] # c
  /\ \A fd \in OpenFds : peer[fd_table[fd]] # "idle"

\* A chunk belongs to the connection it travels on, and the newline of a HELLO
\* is there only when that connection wrote it.
Genuine(c, queue, saluted) ==
  \A i \in DOMAIN queue :
    /\ queue[i].line.src = c
    /\ queue[i].nl /\ queue[i].line.kind = "HELLO" => saluted

LinesOwned ==
  /\ \A c \in Conns : Genuine(c, inbox[c], Saluted(c))
  /\ \A fd \in OpenFds : Genuine(fd_table[fd], client_buffers[fd], Saluted(fd_table[fd]))

Books == TypeOK /\ TablesAgree /\ EventsKnown /\ PeersKnown

ViewersSaluted == \A fd \in viewer_client_fds : Saluted(fd_table[fd])

\* The invariant that the theorems of this module follow from.
Inv == Books /\ LinesOwned /\ ViewersSaluted /\ Routing

-----------------------------------------------------------------------------
\* The parts of a line are chunks, and the line of each is that line.
LEMMA HalvesType ==
  ASSUME NEW line \in Line
  PROVE  /\ Halves(line) \in Seq(Chunk) /\ Len(Halves(line)) = 2
         /\ \A i \in 1 .. 2 : Halves(line)[i] \in Chunk /\ Halves(line)[i].line = line
         /\ ~Halves(line)[1].nl /\ Halves(line)[2].nl
  BY DEF Halves, Chunk

\* send() keeps what is queued, adds nothing but the line, and fits.
LEMMA PushedProperties ==
  ASSUME NEW queue \in Seq(Chunk), Len(queue) <= SendBuf, NEW line \in Line
  PROVE  /\ Pushed(queue, line) \in Seq(Chunk)
         /\ Len(Pushed(queue, line)) <= SendBuf
         /\ \A i \in DOMAIN Pushed(queue, line) :
              \/ Pushed(queue, line)[i].line = line
              \/ \E j \in DOMAIN queue : Pushed(queue, line)[i] = queue[j]
  <1> DEFINE halves == Halves(line)
  <1>1. halves \in Seq(Chunk) /\ Len(halves) = 2
    BY HalvesType
  <1>2. \A i \in 1 .. 2 : halves[i] \in Chunk /\ halves[i].line = line
    BY HalvesType
  <1>3. Len(queue) \in Nat /\ DOMAIN queue = 1 .. Len(queue) /\ SendBuf \in Nat
    BY LenProperties, ServerAssumption
  <1>4. Pushed(queue, line) = IF SendBuf - Len(queue) > 1 THEN queue \o halves
                              ELSE IF SendBuf - Len(queue) = 1 THEN Append(queue, halves[1])
                              ELSE queue
    BY DEF Pushed
  <1> HIDE DEF halves
  <1>5. CASE SendBuf - Len(queue) > 1
    <2> DEFINE both == queue \o halves
    <2>1. both \in Seq(Chunk) /\ Len(both) = Len(queue) + 2
      <3>1. halves \in Seq(Chunk)
        BY <1>1
      <3>2. both \in Seq(Chunk) /\ Len(both) = Len(queue) + Len(halves)
        BY <3>1, ConcatProperties, Zenon
      <3> QED BY <1>1, <3>2
    <2>2. DOMAIN both = 1 .. Len(queue) + 2
      BY <2>1, LenProperties
    <2>3. ASSUME NEW i \in DOMAIN both
          PROVE  both[i].line = line \/ \E j \in DOMAIN queue : both[i] = queue[j]
      <3>1. CASE i <= Len(queue)
        BY <1>1, <1>3, <2>2, <3>1, ConcatProperties
      <3>2. CASE i > Len(queue)
        <4>1. both[i] = halves[i - Len(queue)] /\ i - Len(queue) \in 1 .. 2
          BY <1>1, <1>3, <2>2, <3>2, ConcatProperties
        <4> QED BY <1>2, <4>1
      <3> QED BY <1>3, <2>2, <3>1, <3>2
    <2> HIDE DEF both
    <2>4. Pushed(queue, line) = both
      BY <1>4, <1>5 DEF both
    <2> QED BY <1>3, <1>5, <2>1, <2>3, <2>4
  <1>6. CASE SendBuf - Len(queue) = 1
    <2>1. Pushed(queue, line) = Append(queue, halves[1])
      BY <1>4, <1>6
    <2>2. halves[1] \in Chunk /\ halves[1].line = line
      BY <1>2
    <2> QED BY <1>3, <1>6, <2>1, <2>2, AppendProperties, LenProperties
  <1>7. CASE SendBuf - Len(queue) < 1
    BY <1>3, <1>4, <1>7
  <1> QED BY <1>3, <1>5, <1>6, <1>7

\* A buffer that has a line has a first newline.
LEMMA LineEndProperties ==
  ASSUME NEW buffer \in Seq(Chunk), HasLine(buffer)
  PROVE  LineEnd(buffer) \in DOMAIN buffer /\ IsFirstNewline(buffer, LineEnd(buffer))
  BY DEF HasLine, LineEnd

\* A buffer that has a line spells a line.
LEMMA NextLineType ==
  ASSUME NEW buffer \in Seq(Chunk), HasLine(buffer)
  PROVE  NextLine(buffer) \in Line
  <1>1. Garbled \in Line
    BY DEF Garbled, Line, ClientKinds
  <1>2. LineEnd(buffer) = 2 => buffer[2] \in Chunk
    BY LineEndProperties, LenProperties, ElementOfSeq
  <1> QED BY <1>1, <1>2 DEF NextLine, Chunk

\* What is left behind a line is a shorter buffer, of chunks that were there.
LEMMA RestOfProperties ==
  ASSUME NEW buffer \in Seq(Chunk), HasLine(buffer)
  PROVE  /\ RestOf(buffer) \in Seq(Chunk)
         /\ \A i \in DOMAIN RestOf(buffer) : \E j \in DOMAIN buffer : RestOf(buffer)[i] = buffer[j]
  <1> DEFINE m == LineEnd(buffer) + 1
             n == Len(buffer)
  <1>1. m \in Int /\ n \in Int /\ m > 0 /\ DOMAIN buffer = 1 .. n
    BY LineEndProperties, LenProperties
  <1>2. \A i \in m .. n : buffer[i] \in Chunk
    BY <1>1, LenProperties
  <1>3. /\ SubSeq(buffer, m, n) \in Seq(Chunk)
        /\ Len(SubSeq(buffer, m, n)) = IF m <= n THEN n - m + 1 ELSE 0
        /\ \A i \in 1 .. n - m + 1 : SubSeq(buffer, m, n)[i] = buffer[m + i - 1]
    BY <1>1, <1>2, SubSeqProperties
  <1>4. DOMAIN SubSeq(buffer, m, n) = 1 .. Len(SubSeq(buffer, m, n))
    BY <1>3, LenProperties
  <1>5. \A i \in DOMAIN SubSeq(buffer, m, n) :
          m + i - 1 \in DOMAIN buffer /\ SubSeq(buffer, m, n)[i] = buffer[m + i - 1]
    BY <1>1, <1>3, <1>4
  <1> QED BY <1>3, <1>5 DEF RestOf

-----------------------------------------------------------------------------
(* The bookkeeping of the loop.                                            *)

\* What is counted is a number.
LEMMA CountsType ==
  ASSUME NEW conns \in SUBSET Conns
  PROVE  Refused(conns) \in Nat
  <1> DEFINE refused == {c \in conns : SendFails(c)}
  <1>1. refused \in SUBSET Conns
    OBVIOUS
  <1>2. IsFiniteSet(Conns)
    BY ServerAssumption
  <1>3. IsFiniteSet(refused)
    BY <1>1, <1>2, FS_Subset
  <1> QED BY <1>3, FS_CardinalityType DEF Refused

\* Counters that are raised or set stay counters.
LEMMA CountersKept ==
  ASSUME NEW k \in Counters, NEW n \in Nat, NEW m \in Nat
  PROVE  /\ [k EXCEPT !.total_accepted = @ + 1] \in Counters
         /\ [k EXCEPT !.total_disconnected = @ + 1] \in Counters
         /\ [k EXCEPT !.parse_errors = @ + 1] \in Counters
         /\ [k EXCEPT !.ack_sent = @ + 1] \in Counters
         /\ [k EXCEPT !.status_received = @ + 1, !.broadcast_errors = @ + m] \in Counters
         /\ k.reports < MaxMetrics =>
              [k EXCEPT !.broadcast_errors = @ + n, !.last_report_status_received = m,
                        !.reports = @ + 1] \in Counters
  <1>1. [k EXCEPT !.total_accepted = @ + 1] \in Counters
    BY DEF Counters
  <1>2. [k EXCEPT !.total_disconnected = @ + 1] \in Counters
    BY DEF Counters
  <1>3. [k EXCEPT !.parse_errors = @ + 1] \in Counters
    BY DEF Counters
  <1>4. [k EXCEPT !.status_received = @ + 1, !.broadcast_errors = @ + m] \in Counters
    <2> DEFINE k1 == [k EXCEPT !.status_received = @ + 1]
               k2 == [k1 EXCEPT !.broadcast_errors = @ + m]
    <2>1. k1 \in Counters
      BY DEF Counters
    <2>2. k2 \in Counters
      <3> HIDE DEF k1
      <3> QED BY <2>1 DEF Counters
    <2> QED BY <2>2
  <1>6. [k EXCEPT !.ack_sent = @ + 1] \in Counters
    BY DEF Counters
  <1>5. ASSUME k.reports < MaxMetrics
        PROVE  [k EXCEPT !.broadcast_errors = @ + n, !.last_report_status_received = m,
                         !.reports = @ + 1] \in Counters
    <2> DEFINE k1 == [k EXCEPT !.broadcast_errors = @ + n]
               k2 == [k1 EXCEPT !.last_report_status_received = m]
               k3 == [k2 EXCEPT !.reports = @ + 1]
    <2>1. k1 \in Counters /\ k1.reports < MaxMetrics
      BY <1>5 DEF Counters
    <2>2. k2 \in Counters /\ k2.reports < MaxMetrics
      <3> HIDE DEF k1
      <3> QED BY <2>1 DEF Counters
    <2>3. k3 \in Counters
      <3> HIDE DEF k2
      <3> QED BY <2>2, ServerAssumption DEF Counters
    <2> QED BY <2>3
  <1> QED BY <1>1, <1>2, <1>3, <1>4, <1>5, <1>6

\* A broadcast goes to connections, never to a free descriptor.
LEMMA AudienceType ==
  ASSUME TypeOK, TablesAgree, NEW fd
  PROVE  Audience(fd) \in SUBSET Conns
  BY DEF TypeOK, TablesAgree, OpenFds, Audience

\* send() keeps the queues well typed and within their room, and makes or
\* unmakes no connection.
LEMMA TransmitProperties ==
  ASSUME TypeOK, NEW out, \A c \in DOMAIN out : out[c] \in Line, Transmit(out)
  PROVE  /\ outbox' \in [Conns -> Seq(Chunk)]
         /\ \A c \in Conns : Len(outbox'[c]) <= SendBuf
         /\ peer' \in [Conns -> {"idle", "open", "fin", "rst", "dead", "closed"}]
         /\ \A c \in Conns : peer'[c] = "idle" => peer[c] = "idle"
  <1>1. ASSUME NEW c \in Conns
        PROVE  outbox'[c] \in Seq(Chunk) /\ Len(outbox'[c]) <= SendBuf
    <2>1. outbox[c] \in Seq(Chunk) /\ Len(outbox[c]) <= SendBuf
      BY DEF TypeOK
    <2>2. outbox'[c] = outbox[c] \/ (c \in DOMAIN out /\ outbox'[c] = Pushed(outbox[c], out[c]))
      BY DEF Transmit
    <2> QED BY <2>1, <2>2, PushedProperties
  <1>2. outbox' \in [Conns -> Seq(Chunk)]
    <2>1. outbox' = [c \in Conns |-> outbox'[c]]
      BY DEF Transmit
    <2> QED BY <1>1, <2>1
  <1>3. peer' \in [Conns -> {"idle", "open", "fin", "rst", "dead", "closed"}]
    BY DEF Transmit, TypeOK
  <1>4. \A c \in Conns : peer'[c] = "idle" => peer[c] = "idle"
    BY DEF Transmit
  <1> QED BY <1>1, <1>2, <1>3, <1>4

\* The loop starts without connections.
LEMMA BooksInit == Init => Books
  <1> SUFFICES ASSUME Init PROVE Books
    OBVIOUS
  <1>1. TypeOK
    <2>1. <<>> \in Seq(Chunk) /\ Len(<<>>) = 0 /\ <<>> \in Seq(ClientKinds)
      BY EmptySeq
    <2>2. counters \in Counters
      BY ServerAssumption DEF Init, Counters
    <2>3. client_buffers \in [DOMAIN client_buffers -> Seq(Chunk)] /\ DOMAIN client_buffers = {}
      BY DEF Init
    <2>4. status_store \in [DOMAIN status_store -> Line] /\ DOMAIN status_store = {}
      BY DEF Init
    <2>5. /\ inbox \in [Conns -> Seq(Chunk)] /\ outbox \in [Conns -> Seq(Chunk)]
          /\ written \in [Conns -> Seq(ClientKinds)]
          /\ \A c \in Conns : Len(outbox[c]) <= SendBuf
      BY <2>1, ServerAssumption DEF Init
    <2> QED BY <2>2, <2>3, <2>4, <2>5 DEF Init, TypeOK
  <1>2. TablesAgree /\ EventsKnown /\ PeersKnown
    BY ServerAssumption DEF Init, TablesAgree, EventsKnown, PeersKnown, OpenFds
  <1> QED BY <1>1, <1>2 DEF Books

\* Every step keeps the four tables, the batch and the connections in order.
LEMMA BooksStep == Books /\ LinesOwned /\ [Next]_vars => Books'
  <1> SUFFICES ASSUME Books, LinesOwned, [Next]_vars PROVE Books'
    OBVIOUS
  <1> USE DEF Books
  <1>c. ASSUME NEW c \in Conns, Connect(c) PROVE Books'
    <2>1. TypeOK'
      BY <1>c DEF TypeOK, Connect, serverVars, clientVars
    <2>2. TablesAgree' /\ EventsKnown'
      BY <1>c DEF TablesAgree, EventsKnown, OpenFds, Connect, serverVars, clientVars
    <2>3. PeersKnown'
      BY <1>c, ServerAssumption DEF PeersKnown, OpenFds, TypeOK, Connect, serverVars, clientVars
    <2> QED BY <2>1, <2>2, <2>3
  <1>h. ASSUME NEW c \in Conns, NEW kind \in ClientKinds, WriteHalf(c, kind) PROVE Books'
    <2> DEFINE line == [kind |-> kind, src |-> c, seq |-> Len(written[c]) + 1]
    <2>1. line \in Line
      BY LenProperties DEF Line, TypeOK
    <2>2. Append(inbox[c], Halves(line)[1]) \in Seq(Chunk)
      BY <2>1, HalvesType, AppendProperties DEF TypeOK
    <2>3. TypeOK'
      BY <1>h, <2>2 DEF TypeOK, WriteHalf, serverVars
    <2>4. TablesAgree' /\ EventsKnown' /\ PeersKnown'
      BY <1>h DEF TablesAgree, EventsKnown, PeersKnown, OpenFds, WriteHalf, serverVars
    <2> QED BY <2>3, <2>4
  <1>w. ASSUME NEW c \in Conns, WriteRest(c) PROVE Books'
    <2> DEFINE line == [kind |-> unfinished[c], src |-> c, seq |-> Len(written[c]) + 1]
    <2>1. unfinished[c] \in ClientKinds
      BY <1>w DEF WriteRest, TypeOK
    <2>2. line \in Line
      BY <2>1, LenProperties DEF Line, TypeOK
    <2>3. Append(inbox[c], Halves(line)[2]) \in Seq(Chunk)
      BY <2>2, HalvesType, AppendProperties DEF TypeOK
    <2>4. Append(written[c], unfinished[c]) \in Seq(ClientKinds)
      BY <2>1, AppendProperties DEF TypeOK
    <2>5. TypeOK'
      BY <1>w, <2>3, <2>4 DEF TypeOK, WriteRest, serverVars
    <2>6. TablesAgree' /\ EventsKnown' /\ PeersKnown'
      BY <1>w DEF TablesAgree, EventsKnown, PeersKnown, OpenFds, WriteRest, serverVars
    <2> QED BY <2>5, <2>6
  <1>r. ASSUME NEW c \in Conns, ReadChunk(c) PROVE Books'
    <2>1. /\ Tail(outbox[c]) \in Seq(Chunk) /\ Len(Tail(outbox[c])) <= SendBuf
          /\ Head(outbox[c]) \in Chunk
      BY <1>r, HeadTailProperties, LenProperties, ServerAssumption DEF ReadChunk, TypeOK
    <2>2. (awaiting[c] /\ ~(Head(outbox[c]).nl /\ Head(outbox[c]).line.kind = "ACK")) \in BOOLEAN
      OBVIOUS
    <2>3. TypeOK'
      BY <1>r, <2>1, <2>2 DEF TypeOK, ReadChunk, serverVars
    <2>4. TablesAgree' /\ EventsKnown' /\ PeersKnown'
      BY <1>r DEF TablesAgree, EventsKnown, PeersKnown, OpenFds, ReadChunk, serverVars
    <2> QED BY <2>3, <2>4
  <1>x. ASSUME NEW c \in Conns, CloseClient(c) PROVE Books'
    <2>1. <<>> \in Seq(Chunk) /\ Len(<<>>) = 0
      BY EmptySeq
    <2>2. TypeOK'
      BY <1>x, <2>1, ServerAssumption DEF TypeOK, CloseClient, serverVars, clientVars
    <2>3. TablesAgree' /\ EventsKnown'
      BY <1>x DEF TablesAgree, EventsKnown, OpenFds, CloseClient, serverVars, clientVars
    <2>4. PeersKnown'
      BY <1>x DEF PeersKnown, OpenFds, TypeOK, CloseClient, serverVars, clientVars
    <2> QED BY <2>2, <2>3, <2>4
  <1>q. CASE \/ Signal \/ LoopHead \/ EpollTimeout \/ AcceptEnd
             \/ EventsDone \/ AfterEnd \/ UNCHANGED vars
    <2> USE <1>q DEF Signal, LoopHead, EpollTimeout, AcceptEnd, EventsDone, AfterEnd, vars, serverVars, kernelVars, clientVars
    <2>1. TypeOK'
      BY DEF TypeOK
    <2>2. TablesAgree' /\ PeersKnown'
      BY DEF TablesAgree, PeersKnown, OpenFds
    <2>3. EventsKnown'
      BY DEF EventsKnown
    <2> QED BY <2>1, <2>2, <2>3
  <1>p. CASE EpollWait
    <2> USE <1>p DEF EpollWait, kernelVars, clientVars
    <2>1. events' \subseteq epoll
      BY DEF ReadyFds
    <2>2. TypeOK'
      BY <2>1 DEF TypeOK
    <2>3. TablesAgree' /\ PeersKnown'
      BY DEF TablesAgree, PeersKnown, OpenFds
    <2>4. EventsKnown'
      BY <2>1 DEF EventsKnown, TablesAgree
    <2> QED BY <2>2, <2>3, <2>4
  <1>l. CASE ListenEvent
    <2> USE <1>l DEF ListenEvent, NextEvent, kernelVars, clientVars
    <2>1. TypeOK'
      BY DEF TypeOK
    <2>2. TablesAgree' /\ PeersKnown'
      BY DEF TablesAgree, PeersKnown, OpenFds
    <2>3. EventsKnown'
      BY DEF EventsKnown
    <2> QED BY <2>1, <2>2, <2>3
  <1>a. CASE AcceptOne
    <2>1. PICK c \in backlog, fd \in FreeFds :
            /\ backlog' = backlog \ {c}
            /\ fd_table' = [fd_table EXCEPT ![fd] = c]
            /\ epoll' = epoll \cup {fd}
            /\ client_buffers' = Emplaced(fd)
            /\ telemetry_client_fds' = telemetry_client_fds \cup {fd}
      BY <1>a DEF AcceptOne
    <2>2. c \in Conns /\ fd \in Fds /\ fd_table[fd] = NoConn /\ fd \notin OpenFds
      BY DEF TypeOK, FreeFds, OpenFds
    <2>3. c # NoConn
      BY <2>2, ServerAssumption
    <2>4. OpenFds' = OpenFds \cup {fd}
      BY <2>1, <2>2, <2>3 DEF OpenFds, TypeOK
    <2>5. DOMAIN client_buffers' = DOMAIN client_buffers \cup {fd}
      BY <2>1 DEF Emplaced
    <2>6. TypeOK'
      <3>1. client_buffers' \in [DOMAIN client_buffers' -> Seq(Chunk)]
        BY <2>1, EmptySeq DEF Emplaced, TypeOK
      <3>2. counters' \in Counters
        BY <1>a, CountersKept DEF AcceptOne, TypeOK
      <3> QED BY <1>a, <2>1, <2>2, <2>5, <3>1, <3>2 DEF AcceptOne, TypeOK, clientVars
    <2>7. TablesAgree'
      <3>1. \A f \in OpenFds : fd_table[f] # c
        BY DEF PeersKnown, OpenFds
      <3>2. \A f, g \in OpenFds' : fd_table'[f] = fd_table'[g] => f = g
        BY <2>1, <2>2, <2>4, <3>1 DEF TablesAgree, TypeOK, OpenFds
      <3> QED BY <1>a, <2>1, <2>4, <2>5, <3>2 DEF AcceptOne, TablesAgree
    <2>8. EventsKnown'
      BY <1>a, <2>5 DEF EventsKnown, AcceptOne
    <2>9. PeersKnown'
      <3>1. \A d \in backlog' : peer'[d] # "idle" /\ \A f \in Fds : fd_table'[f] # d
        BY <1>a, <2>1, <2>2 DEF PeersKnown, AcceptOne, TypeOK
      <3>2. \A f \in OpenFds' : peer'[fd_table'[f]] # "idle"
        BY <1>a, <2>1, <2>2, <2>4 DEF PeersKnown, AcceptOne, TypeOK, OpenFds
      <3> QED BY <3>1, <3>2 DEF PeersKnown
    <2> QED BY <2>6, <2>7, <2>8, <2>9
  <1>e. CASE ClientEvent
    <2>1. PICK fd \in events \ {ListenFd} :
            /\ NextEvent(fd)
            /\ IF fd \in DOMAIN client_buffers
               THEN Receive(fd) /\ UNCHANGED <<epoll, fd_table, peer>>
               ELSE RemoveEpollFd(fd)
                    /\ UNCHANGED <<pc, client_buffers, inbox, still_connected, cur>>
      BY <1>e DEF ClientEvent
    <2>2. fd \in DOMAIN client_buffers /\ fd \in Fds
      BY <1>e DEF EventsKnown, TypeOK, ClientEvent
    <2>3. fd_table[fd] \in Conns
      BY <2>2 DEF TablesAgree, OpenFds, TypeOK
    <2>4. Receive(fd) /\ UNCHANGED <<epoll, fd_table, peer>>
      BY <2>1, <2>2
    <2>5. Appended(client_buffers[fd], inbox[fd_table[fd]]) \in Seq(Chunk)
      BY <2>2, <2>3, ConcatProperties DEF TypeOK, Appended
    <2>6. DOMAIN client_buffers' = DOMAIN client_buffers
      BY <2>4 DEF Receive
    <2>7. TypeOK'
      <3>1. client_buffers' \in [DOMAIN client_buffers' -> Seq(Chunk)]
        BY <2>4, <2>5, <2>6 DEF Receive, TypeOK
      <3>2. inbox' \in [Conns -> Seq(Chunk)]
        BY <2>4, EmptySeq DEF Receive, TypeOK
      <3>3. pc' \in {"lines", "failed"} /\ still_connected' \in BOOLEAN /\ cur' = fd
        BY <2>4 DEF Receive
      <3> QED BY <1>e, <2>1, <2>2, <2>4, <2>6, <3>1, <3>2, <3>3
              DEF ClientEvent, TypeOK, NextEvent, clientVars
    <2>8. TablesAgree' /\ PeersKnown'
      BY <1>e, <2>4, <2>6 DEF TablesAgree, PeersKnown, OpenFds, ClientEvent
    <2>9. EventsKnown'
      BY <1>e, <2>1, <2>2, <2>4, <2>6 DEF EventsKnown, Receive, NextEvent, ClientEvent
    <2> QED BY <2>7, <2>8, <2>9
  <1>t. ASSUME NEW kinds, TakeLine(kinds)
        PROVE  /\ DOMAIN client_buffers' = DOMAIN client_buffers
               /\ client_buffers' \in [DOMAIN client_buffers -> Seq(Chunk)]
               /\ cur \in DOMAIN client_buffers /\ fd_table[cur] \in Conns
               /\ NextLine(client_buffers[cur]) \in Line
    <2>1. cur \in DOMAIN client_buffers
      BY <1>t DEF TakeLine, EventsKnown
    <2>2. client_buffers[cur] \in Seq(Chunk) /\ HasLine(client_buffers[cur])
      BY <1>t, <2>1 DEF TakeLine, TypeOK
    <2>3. RestOf(client_buffers[cur]) \in Seq(Chunk)
      BY <2>2, RestOfProperties
    <2>4. NextLine(client_buffers[cur]) \in Line
      BY <2>2, NextLineType
    <2>5. fd_table[cur] \in Conns
      BY <2>1 DEF TablesAgree, OpenFds, TypeOK
    <2> QED BY <1>t, <2>1, <2>3, <2>4, <2>5 DEF TakeLine, TypeOK
  <1>g. CASE HandleHelloLine
    <2>1. TakeLine({"HELLO", "HELLO_OTHER"}) /\ UNCHANGED pc
      BY <1>g DEF HandleHelloLine
    <2> USE <1>g, <1>t, <2>1 DEF HandleHelloLine, kernelVars, clientVars
    <2>2. viewer_client_fds' \subseteq OpenFds
      BY DEF TablesAgree
    <2>3. TypeOK'
      BY <2>2 DEF TypeOK, OpenFds
    <2>4. TablesAgree' /\ PeersKnown'
      BY <2>2 DEF TablesAgree, PeersKnown, OpenFds
    <2>5. EventsKnown'
      BY DEF EventsKnown
    <2> QED BY <2>3, <2>4, <2>5
  <1>i. CASE HandleInvalidLine
    <2>1. TakeLine({"BAD"}) /\ UNCHANGED pc
      BY <1>i DEF HandleInvalidLine
    <2> USE <1>i, <1>t, <2>1 DEF HandleInvalidLine, kernelVars, clientVars
    <2>2. counters' \in Counters
      BY CountersKept DEF TypeOK
    <2>3. TypeOK'
      BY <2>2 DEF TypeOK
    <2>4. TablesAgree' /\ PeersKnown'
      BY DEF TablesAgree, PeersKnown, OpenFds
    <2>5. EventsKnown'
      BY DEF EventsKnown
    <2> QED BY <2>3, <2>4, <2>5
  <1>s. CASE HandleStatusLine
    <2> DEFINE line == NextLine(client_buffers[cur])
               source == fd_table[cur]
               acked == IF line.kind = "STATUS_ACK" THEN {source} ELSE {}
               audience == Audience(cur)
               out == [c \in acked \cup audience |->
                         IF c \in acked THEN AckFor(line) ELSE line]
    <2>1. TakeLine({"STATUS", "STATUS_ACK"}) /\ pc' \in {"lines", "acked"}
      BY <1>s DEF HandleStatusLine
    <2>2. line \in Line /\ line.kind # "BAD" /\ cur \in DOMAIN client_buffers /\ source \in Conns
      BY <1>t, <2>1 DEF TakeLine
    <2>3. line.src \in Conns
      <3>1. client_buffers[cur] \in Seq(Chunk) /\ HasLine(client_buffers[cur])
        BY <2>1, <2>2 DEF TypeOK, TakeLine
      <3>2. line = client_buffers[cur][2].line /\ 2 \in DOMAIN client_buffers[cur]
        BY <2>2, <3>1, LineEndProperties DEF NextLine, Garbled
      <3> QED BY <2>2, <3>2 DEF LinesOwned, Genuine, TablesAgree
    <2>4. Transmit(out)
      BY <1>s DEF HandleStatusLine
    <2>5. \A c \in DOMAIN out : out[c] \in Line
      BY <2>2 DEF AckFor, Line
    <2>6. /\ outbox' \in [Conns -> Seq(Chunk)]
          /\ \A c \in Conns : Len(outbox'[c]) <= SendBuf
          /\ peer' \in [Conns -> {"idle", "open", "fin", "rst", "dead", "closed"}]
          /\ \A c \in Conns : peer'[c] = "idle" => peer[c] = "idle"
      <3> HIDE DEF out
      <3> QED BY <2>4, <2>5, TransmitProperties
    <2>7. status_store' \in [DOMAIN status_store' -> Line] /\ DOMAIN status_store' \subseteq Devices
      <3>1. status_store' = Upsert(status_store, line)
        BY <1>s DEF HandleStatusLine
      <3>2. DeviceOf[line.src] \in Devices
        BY <2>3, ServerAssumption
      <3> HIDE DEF line
      <3> QED BY <2>2, <3>1, <3>2 DEF Upsert, TypeOK
    <2>8. counters' \in Counters
      <3>1. Refused(audience) \in Nat
        <4> HIDE DEF audience
        <4> QED BY AudienceType, CountsType DEF audience
      <3>2. counters' = [counters EXCEPT !.status_received = @ + 1,
                                         !.broadcast_errors = @ + Refused(audience)]
        BY <1>s DEF HandleStatusLine
      <3> HIDE DEF audience
      <3> QED BY <3>1, <3>2, CountersKept DEF TypeOK
    <2> HIDE DEF out, acked, audience, line
    <2> USE <1>s, <1>t, <2>1 DEF HandleStatusLine, clientVars
    <2>9. TypeOK'
      BY <2>6, <2>7, <2>8 DEF TypeOK
    <2>10. TablesAgree' /\ PeersKnown'
      BY <2>6 DEF TablesAgree, PeersKnown, OpenFds, TypeOK
    <2>11. EventsKnown'
      BY DEF EventsKnown, TakeLine
    <2> QED BY <2>9, <2>10, <2>11
  <1>k. CASE CountAck
    <2> USE <1>k DEF CountAck, kernelVars, clientVars
    <2>1. counters' \in Counters
      BY CountersKept DEF TypeOK
    <2>2. TypeOK'
      BY <2>1 DEF TypeOK
    <2>3. TablesAgree' /\ PeersKnown'
      BY DEF TablesAgree, PeersKnown, OpenFds
    <2>4. EventsKnown'
      BY DEF EventsKnown
    <2> QED BY <2>2, <2>3, <2>4
  <1>d. CASE LinesDone
    <2>1. CASE still_connected
      <3>1. UNCHANGED <<client_buffers, telemetry_client_fds, viewer_client_fds, counters,
                        epoll, fd_table, peer>>
        BY <1>d, <2>1 DEF LinesDone
      <3> USE <1>d, <3>1 DEF LinesDone, clientVars
      <3>2. TypeOK'
        BY DEF TypeOK
      <3>3. TablesAgree' /\ PeersKnown'
        BY DEF TablesAgree, PeersKnown, OpenFds
      <3>4. EventsKnown'
        BY DEF EventsKnown
      <3> QED BY <3>2, <3>3, <3>4
    <2>2. CASE ~still_connected
      <3>1. Disconnect(cur)
        BY <1>d, <2>2 DEF LinesDone
      <3>2. cur \in DOMAIN client_buffers /\ cur \in Fds /\ cur \notin events
        BY <1>d DEF LinesDone, EventsKnown, TypeOK
      <3>3. OpenFds' = OpenFds \ {cur}
        BY <3>1, <3>2 DEF Disconnect, RemoveEpollFd, OpenFds, TypeOK
      <3>4. DOMAIN client_buffers' = DOMAIN client_buffers \ {cur}
        BY <3>1 DEF Disconnect
      <3>5. TypeOK'
        <4>1. client_buffers' \in [DOMAIN client_buffers' -> Seq(Chunk)]
          BY <3>1 DEF Disconnect, TypeOK
        <4>2. counters' \in Counters
          BY <3>1, CountersKept DEF Disconnect, TypeOK
        <4> QED BY <1>d, <3>1, <3>4, <4>1, <4>2
                DEF LinesDone, Disconnect, RemoveEpollFd, TypeOK, clientVars
      <3>6. TablesAgree'
        <4>1. \A f \in OpenFds' : fd_table'[f] = fd_table[f]
          BY <3>1, <3>3 DEF Disconnect, RemoveEpollFd, OpenFds, TypeOK
        <4>2. cur # ListenFd
          BY <3>2, ServerAssumption
        <4> QED BY <3>1, <3>3, <3>4, <4>1, <4>2 DEF TablesAgree, Disconnect, RemoveEpollFd
      <3>7. EventsKnown'
        BY <1>d, <3>2, <3>4 DEF EventsKnown, LinesDone
      <3>8. PeersKnown'
        BY <1>d, <3>1, <3>2, <3>3, ServerAssumption
           DEF PeersKnown, LinesDone, Disconnect, RemoveEpollFd, OpenFds, TypeOK
      <3> QED BY <3>5, <3>6, <3>7, <3>8
    <2> QED BY <2>1, <2>2
  <1>m. CASE PrintMetricsIfDue
    <2> DEFINE audience == Audience(ListenFd)
               out == [c \in audience |-> MetricsLine]
    <2>1. CASE UNCHANGED <<counters, peer, outbox>>
      <3> USE <1>m, <2>1 DEF PrintMetricsIfDue, clientVars
      <3>1. TypeOK'
        BY DEF TypeOK
      <3>2. TablesAgree' /\ PeersKnown'
        BY DEF TablesAgree, PeersKnown, OpenFds
      <3>3. EventsKnown'
        BY DEF EventsKnown
      <3> QED BY <3>1, <3>2, <3>3
    <2>2. CASE /\ counters.reports < MaxMetrics
               /\ Transmit(out)
               /\ counters' = [counters EXCEPT
                                 !.broadcast_errors = @ + Refused(audience),
                                 !.last_report_status_received = counters.status_received,
                                 !.reports = @ + 1]
      <3>1. audience \in SUBSET Conns
        BY AudienceType
      <3>2. \A c \in DOMAIN out : out[c] \in Line
        BY DEF MetricsLine, Line
      <3>3. Refused(audience) \in Nat /\ counters.status_received \in Nat
        <4> HIDE DEF audience
        <4> QED BY <3>1, CountsType DEF TypeOK, Counters
      <3>4. counters' \in Counters
        <4> HIDE DEF audience
        <4> QED BY <2>2, <3>3, CountersKept DEF TypeOK
      <3>5. /\ outbox' \in [Conns -> Seq(Chunk)]
            /\ \A c \in Conns : Len(outbox'[c]) <= SendBuf
            /\ peer' \in [Conns -> {"idle", "open", "fin", "rst", "dead", "closed"}]
            /\ \A c \in Conns : peer'[c] = "idle" => peer[c] = "idle"
        <4> HIDE DEF out
        <4> QED BY <2>2, <3>2, TransmitProperties
      <3> USE <1>m DEF PrintMetricsIfDue, clientVars
      <3>6. TypeOK'
        BY <3>4, <3>5 DEF TypeOK
      <3>7. TablesAgree' /\ PeersKnown'
        BY <3>5 DEF TablesAgree, PeersKnown, OpenFds, TypeOK
      <3>8. EventsKnown'
        BY DEF EventsKnown
      <3> QED BY <3>6, <3>7, <3>8
    <2> QED BY <1>m, <2>1, <2>2 DEF PrintMetricsIfDue
  <1> QED
    BY <1>c, <1>h, <1>w, <1>r, <1>x, <1>q, <1>p, <1>l, <1>a, <1>e, <1>g, <1>i, <1>s,
       <1>k, <1>d, <1>m DEF Next, ClientStep, ServerStep

-----------------------------------------------------------------------------
(* Whose lines they are, and who is sent what.                             *)

\* Growing, joining and consuming a queue keep its chunks genuine.
LEMMA GenuineAppend ==
  ASSUME NEW c, NEW saluted, NEW queue \in Seq(Chunk), Genuine(c, queue, saluted),
         NEW chunk \in Chunk, chunk.line.src = c,
         chunk.nl /\ chunk.line.kind = "HELLO" => saluted
  PROVE  Genuine(c, Append(queue, chunk), saluted)
  <1>1. DOMAIN Append(queue, chunk) = 1 .. Len(queue) + 1 /\ DOMAIN queue = 1 .. Len(queue)
    BY AppendProperties, LenProperties
  <1>2. ASSUME NEW i \in DOMAIN Append(queue, chunk)
        PROVE  Append(queue, chunk)[i] = chunk
               \/ (i \in DOMAIN queue /\ Append(queue, chunk)[i] = queue[i])
    BY <1>1, AppendProperties
  <1> QED BY <1>2 DEF Genuine

\* Bytes that recv() appends are genuine when all of them are.
LEMMA GenuineConcat ==
  ASSUME NEW c, NEW saluted, NEW queue \in Seq(Chunk), NEW more \in Seq(Chunk),
         Genuine(c, queue, saluted), Genuine(c, more, saluted)
  PROVE  Genuine(c, queue \o more, saluted)
  <1>1. /\ DOMAIN (queue \o more) = 1 .. Len(queue) + Len(more)
        /\ DOMAIN queue = 1 .. Len(queue) /\ DOMAIN more = 1 .. Len(more)
    BY ConcatProperties, LenProperties
  <1>2. ASSUME NEW i \in DOMAIN (queue \o more)
        PROVE  \/ i \in DOMAIN queue /\ (queue \o more)[i] = queue[i]
               \/ i - Len(queue) \in DOMAIN more /\ (queue \o more)[i] = more[i - Len(queue)]
    BY <1>1, ConcatProperties, LenProperties
  <1> QED BY <1>2 DEF Genuine

\* What take_next_line() leaves of a genuine buffer is genuine.
LEMMA GenuineRest ==
  ASSUME NEW c, NEW saluted, NEW buffer \in Seq(Chunk), HasLine(buffer),
         Genuine(c, buffer, saluted)
  PROVE  Genuine(c, RestOf(buffer), saluted)
  BY RestOfProperties DEF Genuine

\* A line taken from a genuine buffer was sent by its connection, unless it is
\* none; a HELLO was written.
LEMMA NextLineGenuine ==
  ASSUME NEW c, NEW saluted, NEW buffer \in Seq(Chunk), HasLine(buffer),
         Genuine(c, buffer, saluted), NextLine(buffer).kind # "BAD"
  PROVE  /\ NextLine(buffer).src = c
         /\ NextLine(buffer).kind = "HELLO" => saluted
  <1>1. LineEnd(buffer) = 2 /\ NextLine(buffer) = buffer[2].line
    BY DEF NextLine, Garbled
  <1>2. 2 \in DOMAIN buffer /\ buffer[2].nl
    BY <1>1, LineEndProperties DEF IsFirstNewline
  <1> QED BY <1>1, <1>2 DEF Genuine

\* What is in a queue to a connection may be there.
Routed(c, queue, saluted) ==
  \A i \in DOMAIN queue :
    IF queue[i].line.kind = "ACK" THEN queue[i].line.src = c
                                  ELSE queue[i].line.src # c /\ saluted

\* Routing, said of each queue by itself.
LEMMA RoutingIsRouted == Routing <=> \A c \in Conns : Routed(c, outbox[c], Saluted(c))
  BY DEF Routing, Routed

\* A HELLO is never unsaid.
LEMMA SalutedKept ==
  ASSUME TypeOK, [Next]_vars, NEW c \in Conns, Saluted(c)
  PROVE  Saluted(c)'
  <1>1. ASSUME UNCHANGED written
        PROVE  Saluted(c)'
    BY <1>1 DEF Saluted
  <1>2. ASSUME NEW d \in Conns, WriteRest(d)
        PROVE  Saluted(c)'
    <2>1. PICK i \in DOMAIN written[c] : written[c][i] = "HELLO"
      BY DEF Saluted
    <2>2. written[c] \in Seq(ClientKinds) /\ unfinished[d] \in ClientKinds
      BY <1>2 DEF TypeOK, WriteRest
    <2>3. written'[c] = written[c] \/ written'[c] = Append(written[c], unfinished[d])
      BY <1>2 DEF WriteRest, TypeOK
    <2>4. i \in DOMAIN written'[c] /\ written'[c][i] = "HELLO"
      BY <2>1, <2>2, <2>3, AppendProperties, LenProperties
    <2> QED BY <2>4 DEF Saluted
  <1>3. UNCHANGED written \/ \E d \in Conns : WriteRest(d)
    BY DEF Next, ClientStep, ServerStep, Connect, WriteHalf, ReadChunk, CloseClient,
           Signal, LoopHead, EpollWait, EpollTimeout, ListenEvent,
           AcceptOne, AcceptEnd, ClientEvent, HandleHelloLine, HandleInvalidLine,
           HandleStatusLine, CountAck, LinesDone, EventsDone, PrintMetricsIfDue, AfterEnd,
           vars, clientVars
  <1> QED BY <1>1, <1>2, <1>3

\* A send() of lines that may be sent keeps the queues routed.
LEMMA TransmitRouted ==
  ASSUME TypeOK, Routing, UNCHANGED written, NEW out, Transmit(out),
         \A c \in DOMAIN out : out[c] \in Line,
         \A c \in Conns \cap DOMAIN out :
           IF out[c].kind = "ACK" THEN out[c].src = c ELSE out[c].src # c /\ Saluted(c)
  PROVE  Routing'
  <1> SUFFICES ASSUME NEW c \in Conns PROVE Routed(c, outbox'[c], Saluted(c))
    BY DEF Routing, Routed, Saluted
  <1>1. Routed(c, outbox[c], Saluted(c))
    BY RoutingIsRouted
  <1>2. CASE outbox'[c] = outbox[c]
    BY <1>1, <1>2
  <1>3. CASE c \in DOMAIN out /\ outbox'[c] = Pushed(outbox[c], out[c])
    <2>1. outbox[c] \in Seq(Chunk) /\ Len(outbox[c]) <= SendBuf /\ out[c] \in Line
      BY <1>3 DEF TypeOK
    <2>2. \A i \in DOMAIN outbox'[c] :
            \/ outbox'[c][i].line = out[c]
            \/ \E j \in DOMAIN outbox[c] : outbox'[c][i] = outbox[c][j]
      BY <1>3, <2>1, PushedProperties
    <2> QED BY <1>1, <1>3, <2>2 DEF Routed
  <1>4. outbox'[c] = outbox[c] \/ (c \in DOMAIN out /\ outbox'[c] = Pushed(outbox[c], out[c]))
    BY DEF Transmit
  <1> QED BY <1>2, <1>3, <1>4

\* The two sides of a queue never mix, at the start.
LEMMA LinesInit == Init => LinesOwned /\ ViewersSaluted /\ Routing
  BY DEF Init, LinesOwned, Genuine, ViewersSaluted, Routing, OpenFds

\* Every step keeps the lines with their connections and the broadcasts with
\* those that asked for them.
LEMMA LinesStep == Inv /\ Books' /\ [Next]_vars => LinesOwned' /\ ViewersSaluted' /\ Routing'
  <1> SUFFICES ASSUME Inv, Books', [Next]_vars
               PROVE  LinesOwned' /\ ViewersSaluted' /\ Routing'
    OBVIOUS
  <1>0. \A c \in Conns : Saluted(c) => Saluted(c)'
    BY SalutedKept DEF Inv, Books
  <1>t. TypeOK /\ TypeOK' /\ TablesAgree /\ TablesAgree' /\ EventsKnown /\ PeersKnown
        /\ LinesOwned /\ ViewersSaluted /\ Routing
    BY DEF Inv, Books
  <1>f. \A fd \in OpenFds : fd_table[fd] \in Conns /\ fd \in DOMAIN client_buffers
                            /\ client_buffers[fd] \in Seq(Chunk)
    BY <1>t DEF OpenFds, TypeOK, TablesAgree
  <1>v. \A fd \in viewer_client_fds : fd \in OpenFds /\ fd_table[fd] \in Conns
    BY <1>t, <1>f DEF TablesAgree
  <1>k. ASSUME UNCHANGED <<inbox, outbox, client_buffers, fd_table, viewer_client_fds>>
        PROVE  LinesOwned' /\ ViewersSaluted' /\ Routing'
    BY <1>0, <1>t, <1>f, <1>v, <1>k DEF LinesOwned, Genuine, ViewersSaluted, Routing, OpenFds
  <1>c. ASSUME NEW c \in Conns, Connect(c) \/ ReadChunk(c) \/ CloseClient(c)
        PROVE  LinesOwned' /\ ViewersSaluted' /\ Routing'
    <2>1. UNCHANGED <<inbox, client_buffers, fd_table, viewer_client_fds, written>>
      BY <1>c DEF Connect, ReadChunk, CloseClient, serverVars, clientVars
    <2>2. LinesOwned' /\ ViewersSaluted'
      BY <1>t, <2>1 DEF LinesOwned, ViewersSaluted, OpenFds, Saluted
    <2>3. ASSUME NEW d \in Conns, NEW i \in DOMAIN outbox'[d]
          PROVE  \E j \in DOMAIN outbox[d] : outbox'[d][i] = outbox[d][j]
      <3>1. \/ outbox'[d] = outbox[d]
            \/ outbox'[d] = <<>>
            \/ outbox'[d] = Tail(outbox[d]) /\ outbox[d] # <<>>
        <4>1. CASE Connect(c)
          BY <4>1 DEF Connect
        <4>2. CASE ReadChunk(c)
          BY <4>2, <1>t DEF ReadChunk, TypeOK
        <4>3. CASE CloseClient(c)
          BY <4>3, <1>t DEF CloseClient, TypeOK
        <4> QED BY <1>c, <4>1, <4>2, <4>3
      <3>2. outbox[d] \in Seq(Chunk)
        BY <1>t DEF TypeOK
      <3>3. CASE outbox'[d] = Tail(outbox[d]) /\ outbox[d] # <<>>
        <4>1. i \in 1 .. Len(Tail(outbox[d])) /\ Len(Tail(outbox[d])) = Len(outbox[d]) - 1
              /\ outbox'[d][i] = outbox[d][i + 1]
          BY <3>2, <3>3, HeadTailProperties, LenProperties
        <4>2. i + 1 \in DOMAIN outbox[d]
          BY <3>2, <4>1, LenProperties
        <4> QED BY <4>1, <4>2
      <3> QED BY <3>1, <3>3
    <2>4. Routing'
      BY <1>t, <2>1, <2>3 DEF Routing, Saluted
    <2> QED BY <2>2, <2>4
  <1>h. ASSUME NEW c \in Conns, NEW kind \in ClientKinds, WriteHalf(c, kind)
        PROVE  LinesOwned' /\ ViewersSaluted' /\ Routing'
    <2> DEFINE line == [kind |-> kind, src |-> c, seq |-> Len(written[c]) + 1]
    <2>1. line \in Line
      BY <1>t, LenProperties DEF Line, TypeOK
    <2>2. /\ UNCHANGED <<outbox, client_buffers, fd_table, viewer_client_fds, written>>
          /\ inbox' = [inbox EXCEPT ![c] = Append(@, Halves(line)[1])]
      BY <1>h DEF WriteHalf, serverVars
    <2>4. line.src = c
      OBVIOUS
    <2> HIDE DEF line
    <2>3. Halves(line)[1] \in Chunk /\ Halves(line)[1].line = line /\ ~Halves(line)[1].nl
      BY <2>1, HalvesType
    <2>5. Genuine(c, Append(inbox[c], Halves(line)[1]), Saluted(c))
      BY <1>t, <2>3, <2>4, GenuineAppend DEF LinesOwned, TypeOK
    <2>6. LinesOwned'
      BY <1>t, <2>2, <2>5 DEF LinesOwned, TypeOK, OpenFds, Saluted
    <2>7. ViewersSaluted' /\ Routing'
      BY <1>t, <2>2 DEF ViewersSaluted, Routing, Saluted
    <2> QED BY <2>6, <2>7
  <1>w. ASSUME NEW c \in Conns, WriteRest(c)
        PROVE  LinesOwned' /\ ViewersSaluted' /\ Routing'
    <2> DEFINE line == [kind |-> unfinished[c], src |-> c, seq |-> Len(written[c]) + 1]
    <2>1. unfinished[c] \in ClientKinds /\ written[c] \in Seq(ClientKinds)
      BY <1>t, <1>w DEF WriteRest, TypeOK
    <2>2. line \in Line
      BY <2>1, LenProperties DEF Line
    <2>3. /\ UNCHANGED <<outbox, client_buffers, fd_table, viewer_client_fds>>
          /\ inbox' = [inbox EXCEPT ![c] = Append(@, Halves(line)[2])]
          /\ written' = [written EXCEPT ![c] = Append(@, unfinished[c])]
      BY <1>w DEF WriteRest, serverVars
    <2>4. Halves(line)[2] \in Chunk /\ Halves(line)[2].line = line
      BY <2>2, HalvesType
    <2>5. line.src = c /\ line.kind = unfinished[c]
      OBVIOUS
    <2> HIDE DEF line
    <2>6. unfinished[c] = "HELLO" => Saluted(c)'
      <3>1. Len(written[c]) + 1 \in DOMAIN written'[c]
            /\ written'[c][Len(written[c]) + 1] = unfinished[c]
        BY <1>t, <2>1, <2>3, AppendProperties, LenProperties DEF TypeOK
      <3> QED BY <3>1 DEF Saluted
    <2>7. Genuine(c, inbox[c], Saluted(c)')
      BY <1>0, <1>t DEF LinesOwned, Genuine
    <2>8. Genuine(c, Append(inbox[c], Halves(line)[2]), Saluted(c)')
      BY <1>t, <2>4, <2>5, <2>6, <2>7, GenuineAppend DEF TypeOK
    <2>9. \A d \in Conns : Genuine(d, inbox'[d], Saluted(d)')
      BY <1>0, <1>t, <2>3, <2>8 DEF LinesOwned, Genuine, TypeOK
    <2>10. \A fd \in OpenFds : Genuine(fd_table[fd], client_buffers[fd], Saluted(fd_table[fd])')
      BY <1>0, <1>t, <1>f, <2>3 DEF LinesOwned, Genuine
    <2>11. LinesOwned'
      BY <2>3, <2>9, <2>10 DEF LinesOwned, OpenFds, Saluted
    <2>12. ViewersSaluted'
      BY <1>0, <1>t, <1>v, <2>3 DEF ViewersSaluted, Saluted
    <2>13. Routing'
      BY <1>0, <1>t, <2>3 DEF Routing
    <2> QED BY <2>11, <2>12, <2>13
  <1>q. CASE \/ Signal \/ LoopHead \/ EpollWait \/ EpollTimeout \/ CountAck
             \/ ListenEvent \/ AcceptEnd \/ EventsDone \/ AfterEnd \/ UNCHANGED vars
    BY <1>k, <1>q DEF Signal, LoopHead, EpollWait, EpollTimeout, CountAck,
                      ListenEvent, AcceptEnd, EventsDone, AfterEnd, vars, serverVars, kernelVars
  <1>a. CASE AcceptOne
    <2>1. PICK c \in backlog, fd \in FreeFds :
            fd_table' = [fd_table EXCEPT ![fd] = c] /\ client_buffers' = Emplaced(fd)
      BY <1>a DEF AcceptOne
    <2>2. c \in Conns /\ fd \in Fds /\ fd \notin OpenFds /\ fd \notin DOMAIN client_buffers
      BY <1>t DEF TypeOK, FreeFds, OpenFds, TablesAgree
    <2>3. UNCHANGED <<inbox, outbox, viewer_client_fds, written>>
      BY <1>a DEF AcceptOne, clientVars
    <2>4. client_buffers'[fd] = <<>> /\ fd_table'[fd] = c
      BY <1>t, <2>1, <2>2 DEF Emplaced, TypeOK
    <2>5. OpenFds' = OpenFds \cup {fd}
          /\ \A f \in OpenFds : fd_table'[f] = fd_table[f] /\ client_buffers'[f] = client_buffers[f]
      BY <1>t, <1>f, <2>1, <2>2, ServerAssumption DEF Emplaced, OpenFds, TypeOK
    <2>6. Genuine(c, <<>>, Saluted(c))
      BY DEF Genuine
    <2>7. LinesOwned'
      <3>1. \A d \in Conns : Genuine(d, inbox'[d], Saluted(d)')
        BY <1>t, <2>3 DEF LinesOwned, Saluted
      <3>2. \A f \in OpenFds : Genuine(fd_table'[f], client_buffers'[f], Saluted(fd_table[f])')
        BY <1>t, <2>3, <2>5 DEF LinesOwned, Saluted
      <3>3. Genuine(fd_table'[fd], client_buffers'[fd], Saluted(fd_table[fd])')
        BY <2>4 DEF Genuine
      <3> QED BY <2>5, <3>1, <3>2, <3>3 DEF LinesOwned
    <2>8. ViewersSaluted' /\ Routing'
      BY <1>t, <1>v, <2>3, <2>5 DEF ViewersSaluted, Routing, Saluted
    <2> QED BY <2>7, <2>8
  <1>e. CASE ClientEvent
    <2>1. PICK fd \in events \ {ListenFd} :
            IF fd \in DOMAIN client_buffers
            THEN Receive(fd) /\ UNCHANGED <<epoll, fd_table, peer>>
            ELSE RemoveEpollFd(fd)
                 /\ UNCHANGED <<pc, client_buffers, inbox, still_connected, cur>>
      BY <1>e DEF ClientEvent
    <2>2. fd \in DOMAIN client_buffers /\ fd \in OpenFds
      BY <1>e, <1>t DEF EventsKnown, TablesAgree, ClientEvent
    <2>3. fd_table[fd] \in Conns
      BY <1>f, <2>2
    <2> DEFINE c == fd_table[fd]
    <2>4. /\ client_buffers' = [client_buffers EXCEPT ![fd] = @ \o inbox[c]]
          /\ inbox' = [inbox EXCEPT ![c] = <<>>]
          /\ UNCHANGED fd_table
      BY <2>1, <2>2 DEF Receive, Appended
    <2>5. UNCHANGED <<outbox, viewer_client_fds, written>>
      BY <1>e DEF ClientEvent, clientVars
    <2> HIDE DEF c
    <2>6. Genuine(c, client_buffers[fd] \o inbox[c], Saluted(c))
      BY <1>t, <1>f, <2>2, <2>3, GenuineConcat DEF LinesOwned, TypeOK, c
    <2>7. \A d \in Conns : Genuine(d, inbox'[d], Saluted(d))
      BY <1>t, <2>4 DEF LinesOwned, Genuine, TypeOK
    <2>8. \A f \in OpenFds : Genuine(fd_table[f], client_buffers'[f], Saluted(fd_table[f]))
      BY <1>t, <1>f, <2>2, <2>4, <2>6 DEF LinesOwned, c
    <2>9. LinesOwned'
      BY <2>4, <2>5, <2>7, <2>8 DEF LinesOwned, OpenFds, Saluted
    <2>10. ViewersSaluted' /\ Routing'
      BY <1>t, <2>4, <2>5 DEF ViewersSaluted, Routing, Saluted
    <2> QED BY <2>9, <2>10
  <1>n. ASSUME NEW kinds, TakeLine(kinds), UNCHANGED <<inbox, fd_table, written>>
        PROVE  /\ LinesOwned'
               /\ cur \in OpenFds /\ fd_table[cur] \in Conns
               /\ NextLine(client_buffers[cur]) \in Line
               /\ NextLine(client_buffers[cur]).kind \in kinds
               /\ NextLine(client_buffers[cur]).kind # "BAD" =>
                    /\ NextLine(client_buffers[cur]).src = fd_table[cur]
                    /\ NextLine(client_buffers[cur]).kind = "HELLO" => Saluted(fd_table[cur])
    <2>1. cur \in OpenFds /\ HasLine(client_buffers[cur])
      BY <1>t, <1>n DEF TakeLine, EventsKnown, TablesAgree
    <2>2. fd_table[cur] \in Conns /\ client_buffers[cur] \in Seq(Chunk)
          /\ cur \in DOMAIN client_buffers
      BY <1>f, <2>1
    <2>3. Genuine(fd_table[cur], client_buffers[cur], Saluted(fd_table[cur]))
      BY <1>t, <2>1 DEF LinesOwned
    <2>4. Genuine(fd_table[cur], RestOf(client_buffers[cur]), Saluted(fd_table[cur]))
      BY <2>1, <2>2, <2>3, GenuineRest
    <2>5. client_buffers' = [client_buffers EXCEPT ![cur] = RestOf(@)]
      BY <1>n DEF TakeLine
    <2>6. \A f \in OpenFds : Genuine(fd_table[f], client_buffers'[f], Saluted(fd_table[f]))
      BY <1>t, <1>f, <2>2, <2>4, <2>5 DEF LinesOwned
    <2>7. LinesOwned'
      BY <1>n, <1>t, <2>6 DEF LinesOwned, OpenFds, Saluted
    <2>8. NextLine(client_buffers[cur]).kind # "BAD" =>
            /\ NextLine(client_buffers[cur]).src = fd_table[cur]
            /\ NextLine(client_buffers[cur]).kind = "HELLO" => Saluted(fd_table[cur])
      BY <2>1, <2>2, <2>3, NextLineGenuine
    <2> QED BY <1>n, <2>1, <2>2, <2>7, <2>8, NextLineType DEF TakeLine
  <1>g. CASE HandleHelloLine
    <2>1. TakeLine({"HELLO", "HELLO_OTHER"}) /\ UNCHANGED <<inbox, outbox, fd_table, written>>
      BY <1>g DEF HandleHelloLine, kernelVars, clientVars
    <2>2. LinesOwned'
      BY <1>n, <2>1
    <2>3. \A f \in viewer_client_fds' : f \in viewer_client_fds \/ (f = cur /\ Saluted(fd_table[cur]))
      BY <1>g, <1>n, <2>1 DEF HandleHelloLine
    <2>4. ViewersSaluted' /\ Routing'
      BY <1>t, <2>1, <2>3 DEF ViewersSaluted, Routing, Saluted
    <2> QED BY <2>2, <2>4
  <1>i. CASE HandleInvalidLine
    <2>1. TakeLine({"BAD"})
          /\ UNCHANGED <<inbox, outbox, fd_table, written, viewer_client_fds>>
      BY <1>i DEF HandleInvalidLine, kernelVars, clientVars
    <2>2. LinesOwned'
      BY <1>n, <2>1
    <2>3. ViewersSaluted' /\ Routing'
      BY <1>t, <2>1 DEF ViewersSaluted, Routing, Saluted
    <2> QED BY <2>2, <2>3
  <1>s. CASE HandleStatusLine
    <2> DEFINE line == NextLine(client_buffers[cur])
               source == fd_table[cur]
               acked == IF line.kind = "STATUS_ACK" THEN {source} ELSE {}
               audience == Audience(cur)
               out == [c \in acked \cup audience |->
                         IF c \in acked THEN AckFor(line) ELSE line]
    <2>1. TakeLine({"STATUS", "STATUS_ACK"})
          /\ UNCHANGED <<inbox, fd_table, written, viewer_client_fds>>
      BY <1>s DEF HandleStatusLine, clientVars
    <2>2. LinesOwned' /\ line \in Line /\ line.kind \in {"STATUS", "STATUS_ACK"}
          /\ line.src = source /\ cur \in OpenFds /\ source \in Conns
      BY <1>n, <2>1
    <2>3. \A c \in audience : c # source /\ Saluted(c)
      <3>1. ASSUME NEW f \in viewer_client_fds \ {cur}
            PROVE  fd_table[f] # source /\ Saluted(fd_table[f])
        BY <1>t, <1>v, <2>2 DEF TablesAgree, ViewersSaluted
      <3> QED BY <3>1 DEF Audience
    <2>4. Transmit(out)
      BY <1>s DEF HandleStatusLine
    <2>5. \A c \in DOMAIN out : out[c] \in Line
      BY <2>2 DEF AckFor, Line
    <2>6. \A c \in Conns \cap DOMAIN out :
            IF out[c].kind = "ACK" THEN out[c].src = c ELSE out[c].src # c /\ Saluted(c)
      <3> HIDE DEF line, source, audience
      <3> QED BY <2>2, <2>3 DEF AckFor
    <2>7. Routing'
      <3> HIDE DEF out
      <3> QED BY <1>t, <2>1, <2>4, <2>5, <2>6, TransmitRouted
    <2>8. ViewersSaluted'
      BY <1>t, <2>1 DEF ViewersSaluted, Saluted
    <2> QED BY <2>2, <2>7, <2>8
  <1>d. CASE LinesDone
    <2>1. UNCHANGED <<inbox, outbox, written>>
      BY <1>d DEF LinesDone, clientVars
    <2>2. CASE UNCHANGED <<client_buffers, viewer_client_fds, fd_table>>
      BY <1>k, <2>1, <2>2
    <2>3. CASE Disconnect(cur)
      <3>1. /\ \A f \in OpenFds' : f \in OpenFds /\ fd_table'[f] = fd_table[f]
                                   /\ client_buffers'[f] = client_buffers[f]
            /\ viewer_client_fds' = viewer_client_fds \ {cur}
            /\ \A f \in viewer_client_fds' : fd_table'[f] = fd_table[f]
        BY <1>t, <1>f, <1>v, <2>3 DEF Disconnect, RemoveEpollFd, OpenFds, TypeOK
      <3>2. \A c : Saluted(c)' <=> Saluted(c)
        BY <2>1 DEF Saluted
      <3>3. LinesOwned'
        BY <1>t, <2>1, <3>1, <3>2 DEF LinesOwned, Genuine
      <3>4. ViewersSaluted'
        BY <1>t, <3>1, <3>2 DEF ViewersSaluted
      <3>5. Routing'
        BY <1>t, <2>1 DEF Routing, Saluted
      <3> QED BY <3>3, <3>4, <3>5
    <2>4. UNCHANGED <<client_buffers, viewer_client_fds, fd_table>> \/ Disconnect(cur)
      BY <1>d DEF LinesDone
    <2> QED BY <2>2, <2>3, <2>4
  <1>m. CASE PrintMetricsIfDue
    <2> DEFINE audience == Audience(ListenFd)
               out == [c \in audience |-> MetricsLine]
    <2>1. UNCHANGED <<inbox, client_buffers, fd_table, viewer_client_fds, written>>
      BY <1>m DEF PrintMetricsIfDue, clientVars
    <2>2. LinesOwned' /\ ViewersSaluted'
      BY <1>t, <2>1 DEF LinesOwned, ViewersSaluted, OpenFds, Saluted
    <2>3. CASE UNCHANGED outbox
      BY <1>k, <2>1, <2>3
    <2>4. CASE Transmit(out)
      <3>1. \A c \in DOMAIN out : out[c] \in Line
        BY DEF MetricsLine, Line
      <3>2. \A c \in audience : Saluted(c)
        BY <1>t, <1>v DEF Audience, ViewersSaluted
      <3>3. \A c \in Conns \cap DOMAIN out :
              IF out[c].kind = "ACK" THEN out[c].src = c ELSE out[c].src # c /\ Saluted(c)
        BY <3>2, ServerAssumption DEF MetricsLine
      <3>4. Routing'
        <4> HIDE DEF out
        <4> QED BY <1>t, <2>1, <2>4, <3>1, <3>3, TransmitRouted
      <3> QED BY <2>2, <3>4
    <2> QED BY <1>m, <2>3, <2>4 DEF PrintMetricsIfDue
  <1> QED
    BY <1>c, <1>h, <1>w, <1>q, <1>a, <1>e, <1>g, <1>i, <1>s, <1>d, <1>m
       DEF Next, ClientStep, ServerStep

-----------------------------------------------------------------------------
(* The theorems.                                                           *)

\* The invariant holds: at the start, and after every step.
LEMMA Invariant == Spec => []Inv
  <1>1. Init => Inv
    BY BooksInit, LinesInit DEF Inv
  <1>2. Inv /\ [Next]_vars => Inv'
    BY BooksStep, LinesStep DEF Inv
  <1> QED BY <1>1, <1>2, PTL DEF Spec

\* Every variable keeps its type, and no send() of the server, whole or cut,
\* queues more for a client than its send buffer has room for.
THEOREM TypeCorrect == Spec => []TypeOK
  <1>1. Inv => TypeOK
    BY DEF Inv, Books
  <1> QED BY <1>1, Invariant, PTL

\* The containers of run_event_loop(), the interest list and the descriptor
\* table describe the same connections after every accept and every close.
THEOREM TablesStayInAgreement == Spec => []TablesAgree
  <1>1. Inv => TablesAgree
    BY DEF Inv, Books
  <1> QED BY <1>1, Invariant, PTL

\* No event of a batch outlives its connection, however descriptors are reused
\* within the batch.
THEOREM EventsStayFresh == Spec => []NoStaleEvent
  <1>1. Inv => NoStaleEvent
    BY DEF Inv, Books, EventsKnown, NoStaleEvent
  <1> QED BY <1>1, Invariant, PTL

\* A reused descriptor starts with an empty buffer.
THEOREM NoForeignBytes == Spec => []BytesStayWithConnection
  <1>1. Inv => BytesStayWithConnection
    BY DEF Inv, Books, TablesAgree, LinesOwned, Genuine, BytesStayWithConnection
  <1> QED BY <1>1, Invariant, PTL

\* STATUS and METRICS reach only connections that said a viewer's HELLO, and no
\* report comes back to its source; ACKs reach nobody else.
THEOREM RoutingIsCorrect == Spec => []Routing
  <1>1. Inv => Routing
    BY DEF Inv
  <1> QED BY <1>1, Invariant, PTL

\* The number of connections that METRICS calls active is the number accepted
\* less the number disconnected: no connection is counted out twice or never.
THEOREM ActiveCountIsExact == Spec => []ActiveMatchesCounters
  <1>1. Init => ActiveMatchesCounters
    BY FS_EmptySet DEF Init, ActiveMatchesCounters
  <1>2. Inv /\ ActiveMatchesCounters /\ [Next]_vars => ActiveMatchesCounters'
    <2> SUFFICES ASSUME Inv, ActiveMatchesCounters, [Next]_vars
                 PROVE  ActiveMatchesCounters'
      OBVIOUS
    <2>1. TypeOK /\ TablesAgree /\ EventsKnown
      BY DEF Inv, Books
    <2>2. IsFiniteSet(telemetry_client_fds)
      BY <2>1, ServerAssumption, FS_Subset DEF TypeOK
    <2>3. counters.total_accepted \in Nat /\ counters.total_disconnected \in Nat
          /\ counters \in Counters
      BY <2>1 DEF TypeOK, Counters
    <2>4. CASE AcceptOne
      <3>1. PICK fd \in FreeFds : telemetry_client_fds' = telemetry_client_fds \cup {fd}
        BY <2>4 DEF AcceptOne
      <3>2. fd \notin telemetry_client_fds
        BY <2>1 DEF FreeFds, TablesAgree, OpenFds
      <3>3. Cardinality(telemetry_client_fds') = Cardinality(telemetry_client_fds) + 1
        BY <2>2, <3>1, <3>2, FS_AddElement
      <3>4. counters'.total_accepted = counters.total_accepted + 1
            /\ counters'.total_disconnected = counters.total_disconnected
        BY <2>3, <2>4 DEF AcceptOne, Counters
      <3> QED BY <2>3, <3>3, <3>4 DEF ActiveMatchesCounters
    <2>5. CASE LinesDone
      <3>1. CASE UNCHANGED <<telemetry_client_fds, counters>>
        BY <3>1 DEF ActiveMatchesCounters
      <3>2. CASE Disconnect(cur)
        <4>1. cur \in telemetry_client_fds
          BY <2>1, <2>5 DEF LinesDone, EventsKnown, TablesAgree
        <4>2. telemetry_client_fds' = telemetry_client_fds \ {cur}
          BY <3>2 DEF Disconnect
        <4>3. Cardinality(telemetry_client_fds') = Cardinality(telemetry_client_fds) - 1
          BY <2>2, <4>1, <4>2, FS_RemoveElement
        <4>4. Cardinality(telemetry_client_fds) \in Nat
          BY <2>2, FS_CardinalityType
        <4>5. counters'.total_accepted = counters.total_accepted
              /\ counters'.total_disconnected = counters.total_disconnected + 1
          BY <2>3, <3>2 DEF Disconnect, Counters
        <4> QED BY <2>3, <4>3, <4>4, <4>5 DEF ActiveMatchesCounters
      <3>3. UNCHANGED <<telemetry_client_fds, counters>> \/ Disconnect(cur)
        BY <2>5 DEF LinesDone
      <3> QED BY <3>1, <3>2, <3>3
    <2>6. CASE HandleInvalidLine \/ HandleStatusLine \/ CountAck \/ PrintMetricsIfDue
      <3>1. UNCHANGED telemetry_client_fds
        BY <2>6 DEF HandleInvalidLine, HandleStatusLine, CountAck,
           PrintMetricsIfDue
      <3>2. counters'.total_accepted = counters.total_accepted
            /\ counters'.total_disconnected = counters.total_disconnected
        BY <2>3, <2>6 DEF HandleInvalidLine, HandleStatusLine, CountAck, PrintMetricsIfDue,
           Counters
      <3> QED BY <3>1, <3>2 DEF ActiveMatchesCounters
    <2>7. AcceptOne \/ LinesDone \/ HandleInvalidLine \/ HandleStatusLine
          \/ CountAck \/ PrintMetricsIfDue \/ UNCHANGED <<telemetry_client_fds, counters>>
      BY DEF Next, ClientStep, ServerStep, Connect, WriteHalf, WriteRest, ReadChunk,
             CloseClient, Signal, LoopHead, EpollWait, EpollTimeout,
             ListenEvent, AcceptEnd, ClientEvent, HandleHelloLine, EventsDone, AfterEnd,
             vars, serverVars
    <2> QED BY <2>4, <2>5, <2>6, <2>7 DEF ActiveMatchesCounters
  <1> QED BY <1>1, <1>2, Invariant, PTL DEF Spec

=============================================================================
