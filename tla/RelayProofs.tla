---------------------------- MODULE RelayProofs ----------------------------
(***************************************************************************)
(* Server implements Relay, proved for every set of connections and        *)
(* descriptors, every batch size and every size of the send buffers: each  *)
(* step of the program is a step of the queues that Relay describes, or    *)
(* cannot be seen from outside.                                            *)
(*                                                                         *)
(* The refinement mapping is the one of ServerRelay.  What Relay has to    *)
(* know of the state is the invariant of ServerStreamProofs: the unhandled *)
(* bytes of a connection are lines in order (InputKept), a connection that *)
(* has left is one the kernel has closed (PeersPlaced), and the end of a   *)
(* stream is seen after its bytes (EndIsLast).                             *)
(***************************************************************************)
EXTENDS ServerStreamProofs

USE DEF batchVars, tableVars, resultVars

\* The mapped variables of Relay, by their names.
Left == {c \in Conns : peer[c] # "idle"} \ (Accepted \cup backlog)
Viewers == {fd_table[fd] : fd \in viewer_client_fds}
Said == [c \in Conns |-> Len(written[c])]
In == [c \in Conns |-> Unread(c)]

\* What every step of the proof may use.
Known == Inv /\ StreamInv

\* Nothing of this is seen.
Unseen ==
  /\ Ended' <=> Ended
  /\ Accepted' = Accepted /\ Left' = Left /\ Viewers' = Viewers
  /\ status_store' = status_store /\ Said' = Said /\ In' = In /\ outbox' = outbox

-----------------------------------------------------------------------------
\* The variables of Relay do not change when none of their images does.
LEMMA UnseenIsStutter == Unseen => UNCHANGED Hub!vars
  <1>1. Hub!vars = <<~Ended, Accepted, Left, Viewers, status_store, Said, In, outbox>>
    BY DEF Hub!vars, Left, Viewers, Said, In
  <1>2. (Hub!vars = <<~Ended, Accepted, Left, Viewers, status_store, Said, In, outbox>>)'
    BY <1>1, PTL
  <1> SUFFICES ASSUME Unseen
               PROVE  Hub!vars' = Hub!vars
    OBVIOUS
  <1>3. (~Ended)' = ~Ended
    BY DEF Unseen
  <1> QED BY <1>1, <1>2, <1>3 DEF Unseen

\* The server and Relay start alike.
LEMMA HubInit == Init => Hub!Init
  <1> SUFFICES ASSUME Init PROVE Hub!Init
    OBVIOUS
  <1>1. Accepted = {} /\ Viewers = {} /\ Left = {} /\ ~Ended
    BY DEF Init, Accepted, OpenFds, Viewers, Left, Ended
  <1>2. \A c \in Conns : Unread(c) = <<>> /\ Len(written[c]) = 0
    BY <1>1 DEF Init, Unread
  <1>3. In = [c \in Conns |-> <<>>] /\ Said = [c \in Conns |-> 0]
    BY <1>2 DEF In, Said
  <1>4. status_store = [d \in {} |-> Hub!Report] /\ outbox = [c \in Conns |-> <<>>]
    BY DEF Init
  <1> QED BY <1>1, <1>3, <1>4 DEF Hub!Init, Left, Viewers, Said, In

-----------------------------------------------------------------------------
(* The steps of Relay in terms of the state of Server.                     *)

\* A chunk with the newline is the second half of its line.
LEMMA Completed ==
  ASSUME NEW chunk \in Chunk
  PROVE  /\ [chunk EXCEPT !.nl = TRUE] = [line |-> chunk.line, nl |-> TRUE]
         /\ chunk.nl => chunk = [line |-> chunk.line, nl |-> TRUE]
  <1> DEFINE whole == [line |-> chunk.line, nl |-> TRUE]
             changed == [chunk EXCEPT !.nl = TRUE]
  <1>1. changed \in Chunk /\ changed.line = chunk.line /\ changed.nl = TRUE
    BY DEF Chunk
  <1>2. whole \in Chunk /\ whole.line = chunk.line /\ whole.nl = TRUE
    BY DEF Chunk
  <1>3. \A x, y \in Chunk : x.line = y.line /\ x.nl = y.nl => x = y
    BY DEF Chunk
  <1>4. chunk.nl => chunk.nl = TRUE
    BY DEF Chunk
  <1> HIDE DEF whole, changed
  <1>5. changed = whole /\ (chunk.nl => chunk = whole)
    BY <1>1, <1>2, <1>3, <1>4
  <1> QED BY <1>5 DEF whole, changed

\* Half a line is written.
LEMMA AsBegin ==
  ASSUME NEW c \in Conns, NEW kind \in ClientKinds, NEW line,
         c \notin Left, Unread(c) = <<>> \/ Unread(c)[Len(Unread(c))].nl,
         line = [kind |-> kind, src |-> c, seq |-> Len(written[c]) + 1],
         Unread(c)' = Append(Unread(c), [line |-> line, nl |-> FALSE]), KeepsBut(c),
         Ended' <=> Ended, Accepted' = Accepted, Left' = Left, Viewers' = Viewers,
         status_store' = status_store, Said' = Said, outbox' = outbox
  PROVE  Hub!Begin(c, kind)
  <1>1. In' = [In EXCEPT ![c] = Append(@, [line |-> line, nl |-> FALSE])]
    BY DEF In, KeepsBut
  <1>2. Hub!Halves(line)[1] = [line |-> line, nl |-> FALSE]
    BY DEF Hub!Halves
  <1>3. Said[c] = Len(written[c]) /\ In[c] = Unread(c)
    BY DEF Said, In
  <1>4. ~(Unread(c) # <<>> /\ ~Unread(c)[Len(Unread(c))].nl)
    OBVIOUS
  <1>5. (~Ended)' = ~Ended
    OBVIOUS
  <1> QED BY <1>1, <1>2, <1>3, <1>4, <1>5 DEF Hub!Begin, Hub!InMidLine, Left, Viewers, Said, In

\* The line is completed.
LEMMA AsFinish ==
  ASSUME NEW c \in Conns, NEW line \in Line,
         c \notin Left, Unread(c) # <<>>,
         Unread(c)[Len(Unread(c))] = [line |-> line, nl |-> FALSE],
         Unread(c)' = Append(Unread(c), [line |-> line, nl |-> TRUE]), KeepsBut(c),
         Said' = [Said EXCEPT ![c] = @ + 1],
         Ended' <=> Ended, Accepted' = Accepted, Left' = Left, Viewers' = Viewers,
         status_store' = status_store, outbox' = outbox
  PROVE  Hub!Finish(c)
  <1>1. [Unread(c)[Len(Unread(c))] EXCEPT !.nl = TRUE] = [line |-> line, nl |-> TRUE]
    <2>1. PICK last : last = Unread(c)[Len(Unread(c))]
      OBVIOUS
    <2>2. last \in Chunk /\ last.line = line
      BY <2>1 DEF Chunk
    <2> QED BY <2>1, <2>2, Completed
  <1>2. In[c] = Unread(c)
    BY DEF In
  <1>3. In' = [In EXCEPT ![c] = Append(@, [@[Len(@)] EXCEPT !.nl = TRUE])]
    BY <1>1, <1>2 DEF In, KeepsBut
  <1>4. Unread(c) # <<>> /\ ~Unread(c)[Len(Unread(c))].nl
    OBVIOUS
  <1>5. (~Ended)' = ~Ended
    OBVIOUS
  <1> QED BY <1>2, <1>3, <1>4, <1>5 DEF Hub!Finish, Hub!InMidLine, Left, Viewers, Said, In

\* A client reads, or closes without reading what is left.
LEMMA AsReadOrClose ==
  ASSUME NEW c \in Conns,
         \/ outbox[c] # <<>> /\ outbox' = [outbox EXCEPT ![c] = Tail(@)]
         \/ outbox' = [outbox EXCEPT ![c] = <<>>],
         Keeps, Ended' <=> Ended, Accepted' = Accepted, Left' = Left, Viewers' = Viewers,
         status_store' = status_store, Said' = Said
  PROVE  Hub!Read(c) \/ Hub!Close(c)
  <1>1. In' = In
    BY DEF In, Keeps
  <1>2. (~Ended)' = ~Ended
    OBVIOUS
  <1> QED BY <1>1, <1>2 DEF Hub!Read, Hub!Close, Left, Viewers, Said, In

\* A client is accepted.
LEMMA AsWelcome ==
  ASSUME NEW c \in Conns, c \notin Accepted \cup Left, ~Ended, ~Ended',
         Accepted' = Accepted \cup {c}, Keeps, Left' = Left, Viewers' = Viewers,
         status_store' = status_store, Said' = Said, outbox' = outbox
  PROVE  Hub!Welcome(c)
  <1>1. In' = In
    BY DEF In, Keeps
  <1>2. (~Ended)' = ~Ended
    OBVIOUS
  <1> QED BY <1>1, <1>2 DEF Hub!Welcome, Left, Viewers, Said, In

\* The oldest line of a client is taken.
Takes(c) ==
  /\ ~Ended /\ ~Ended' /\ c \in Accepted /\ Len(Unread(c)) >= 2
  /\ Unread(c)[2] = [Unread(c)[1] EXCEPT !.nl = TRUE]
  /\ Unread(c)' = SubSeq(Unread(c), 3, Len(Unread(c))) /\ KeepsBut(c)
  /\ Accepted' = Accepted /\ Left' = Left /\ Said' = Said

\* Taking it is taking a line of Relay.
LEMMA AsTakeLine ==
  ASSUME NEW c \in Conns, Takes(c)
  PROVE  Hub!TakeLine(c) /\ (~Ended)' = ~Ended
  <1>1. In[c] = Unread(c) /\ In' = [In EXCEPT ![c] = SubSeq(@, 3, Len(@))]
    BY DEF In, KeepsBut, Takes
  <1> QED BY <1>1 DEF Hub!TakeLine, Hub!HasLine, In, Takes

\* It is a HELLO: the client is a viewer from now on when the line says so.
LEMMA AsHello ==
  ASSUME NEW c \in Conns, Takes(c), NEW line, line = Unread(c)[1].line,
         line.kind \in {"HELLO", "HELLO_OTHER"},
         Viewers' = IF line.kind = "HELLO" THEN Viewers \cup {c} ELSE Viewers,
         status_store' = status_store, outbox' = outbox
  PROVE  Hub!Hello(c)
  <1>1. In[c] = Unread(c) /\ Hub!TakeLine(c) /\ (~Ended)' = ~Ended
    BY AsTakeLine DEF In
  <1> QED BY <1>1 DEF Hub!Hello, Takes, Left, Viewers, Said, In

\* It is not a line of the protocol.
LEMMA AsReject ==
  ASSUME NEW c \in Conns, Takes(c), Unread(c)[1].line.kind = "BAD",
         Viewers' = Viewers, status_store' = status_store, outbox' = outbox
  PROVE  Hub!Reject(c)
  <1>1. In[c] = Unread(c) /\ Hub!TakeLine(c) /\ (~Ended)' = ~Ended
    BY AsTakeLine DEF In
  <1> QED BY <1>1 DEF Hub!Reject, Takes, Left, Viewers, Said, In

\* A client is let go with nothing but half a line.
LEMMA AsLeave ==
  ASSUME NEW c \in Conns, c \in Accepted, ~Ended, ~Ended', ~(Len(Unread(c)) >= 2),
         Accepted' = Accepted \ {c}, Left' = Left \cup {c}, Viewers' = Viewers \ {c},
         Unread(c)' = <<>>, KeepsBut(c),
         status_store' = status_store, Said' = Said, outbox' = outbox
  PROVE  Hub!Leave(c)
  <1>1. In[c] = Unread(c) /\ In' = [In EXCEPT ![c] = <<>>]
    BY DEF In, KeepsBut
  <1>2. (~Ended)' = ~Ended
    OBVIOUS
  <1> QED BY <1>1, <1>2 DEF Hub!Leave, Hub!HasLine, Left, Viewers, Said, In

\* The server stops.
LEMMA AsStop ==
  ASSUME ~Ended, Ended', Keeps, Accepted' = Accepted, Left' = Left, Viewers' = Viewers,
         status_store' = status_store, Said' = Said, outbox' = outbox
  PROVE  Hub!Stop
  <1>1. In' = In
    BY DEF In, Keeps
  <1>2. (~Ended)' = FALSE
    OBVIOUS
  <1> QED BY <1>1, <1>2 DEF Hub!Stop, Left, Viewers, Said, In

-----------------------------------------------------------------------------
(* What send() makes of a line is an offer.                                *)

\* The beginnings of a line.
LEMMA Beginnings ==
  ASSUME NEW line \in Line
  PROVE  /\ SubSeq(Halves(line), 1, 2) = Halves(line)
         /\ SubSeq(Halves(line), 1, 1) = <<Halves(line)[1]>>
         /\ SubSeq(Halves(line), 1, 0) = <<>>
  <1> DEFINE halves == Halves(line)
  <1>1. halves \in Seq(Chunk) /\ Len(halves) = 2
    BY HalvesType
  <1> HIDE DEF halves
  <1>2. SubSeq(halves, 1, 2) = halves
    BY <1>1, SubSeqFull
  <1>3. SubSeq(halves, 1, 0) = <<>>
    BY SubSeqEmpty
  <1>4. SubSeq(halves, 1, 1) = SubSeq(halves, 1, 0) \o <<halves[1]>> /\ halves[1] \in Chunk
    BY <1>1, SubSeqRecursiveSecond
  <1>5. <<halves[1]>> \in Seq(Chunk)
    BY <1>4
  <1>6. SubSeq(halves, 1, 1) = <<halves[1]>>
    BY <1>3, <1>4, <1>5, ConcatEmptySeq
  <1> QED BY <1>2, <1>3, <1>6 DEF halves

\* All of the line, its first half or nothing of it gets into the queue.
LEMMA PushedIsOffered ==
  ASSUME NEW queue \in Seq(Chunk), Len(queue) <= SendBuf, NEW line \in Line
  PROVE  \E n \in 0 .. 2 : Pushed(queue, line) = queue \o SubSeq(Halves(line), 1, n)
  <1> DEFINE halves == Halves(line)
  <1>1. halves \in Seq(Chunk) /\ halves[1] \in Chunk
    BY HalvesType
  <1>2. Len(queue) \in Nat /\ SendBuf \in Nat
    BY LenProperties, ServerAssumption
  <1>3. Pushed(queue, line) = IF SendBuf - Len(queue) > 1 THEN queue \o halves
                              ELSE IF SendBuf - Len(queue) = 1 THEN Append(queue, halves[1])
                              ELSE queue
    BY DEF Pushed
  <1>4. /\ SubSeq(halves, 1, 2) = halves /\ SubSeq(halves, 1, 1) = <<halves[1]>>
        /\ SubSeq(halves, 1, 0) = <<>>
    BY Beginnings
  <1>5. queue \o <<>> = queue /\ queue \o <<halves[1]>> = Append(queue, halves[1])
    BY <1>1, ConcatEmptySeq, AppendIsConcat
  <1> HIDE DEF halves
  <1>6. CASE SendBuf - Len(queue) > 1
    <2>1. Pushed(queue, line) = queue \o SubSeq(halves, 1, 2)
      BY <1>3, <1>4, <1>6
    <2> QED BY <2>1 DEF halves
  <1>7. CASE SendBuf - Len(queue) = 1
    <2>1. Pushed(queue, line) = queue \o SubSeq(halves, 1, 1)
      BY <1>3, <1>4, <1>5, <1>7
    <2> QED BY <2>1 DEF halves
  <1>8. CASE SendBuf - Len(queue) < 1
    <2>1. Pushed(queue, line) = queue \o SubSeq(halves, 1, 0)
      BY <1>2, <1>3, <1>4, <1>5, <1>8
    <2> QED BY <2>1 DEF halves
  <1> QED BY <1>2, <1>6, <1>7, <1>8

\* Whatever is transmitted is offered.
LEMMA TransmitIsOffer ==
  ASSUME TypeOK, NEW lines, DOMAIN lines \subseteq Conns,
         \A c \in DOMAIN lines : lines[c] \in Line, Transmit(lines)
  PROVE  Hub!Offer(lines)
  <1>1. outbox' = [c \in Conns |-> IF c \in DOMAIN lines /\ peer[c] = "open"
                                   THEN Pushed(outbox[c], lines[c]) ELSE outbox[c]]
    BY DEF Transmit
  <1>2. ASSUME NEW c \in DOMAIN lines
        PROVE  \E n \in 0 .. 2 : outbox'[c] = outbox[c] \o SubSeq(Halves(lines[c]), 1, n)
    <2>1. c \in Conns /\ outbox[c] \in Seq(Chunk) /\ Len(outbox[c]) <= SendBuf /\ lines[c] \in Line
      BY DEF TypeOK
    <2>2. CASE peer[c] = "open"
      <3>1. outbox'[c] = Pushed(outbox[c], lines[c])
        BY <1>1, <2>1, <2>2
      <3>2. PICK n \in 0 .. 2 :
              Pushed(outbox[c], lines[c]) = outbox[c] \o SubSeq(Halves(lines[c]), 1, n)
        BY <2>1, PushedIsOffered
      <3> QED BY <3>1, <3>2
    <2>3. CASE peer[c] # "open"
      <3>1. outbox'[c] = outbox[c]
        BY <1>1, <2>1, <2>3
      <3>2. outbox[c] = outbox[c] \o SubSeq(Halves(lines[c]), 1, 0)
        <4>1. outbox[c] \o <<>> = outbox[c]
          BY <2>1, ConcatEmptySeq
        <4>2. SubSeq(Halves(lines[c]), 1, 0) = <<>>
          BY <2>1, Beginnings
        <4> QED BY <4>1, <4>2
      <3>3. 0 \in 0 .. 2
        OBVIOUS
      <3> QED BY <3>1, <3>2, <3>3, Zenon
    <2> QED BY <2>2, <2>3
  <1>3. \A line : Hub!Halves(line) = Halves(line)
    BY DEF Hub!Halves, Halves
  <1>4. DOMAIN outbox' = Conns /\ \A c \in Conns \ DOMAIN lines : outbox'[c] = outbox[c]
    BY <1>1
  <1> QED BY <1>2, <1>3, <1>4 DEF Hub!Offer

\* The report on the metrics goes to every viewer.
LEMMA AsReportMetrics ==
  ASSUME Hub!Offer([c \in Viewers |-> MetricsLine]), Keeps, ~Ended, ~Ended',
         Accepted' = Accepted, Left' = Left, Viewers' = Viewers,
         status_store' = status_store, Said' = Said
  PROVE  Hub!ReportMetrics
  <1>1. In' = In
    BY DEF In, Keeps
  <1>2. (~Ended)' = ~Ended /\ Hub!Report = MetricsLine
    BY DEF Hub!Report, MetricsLine
  <1>3. Hub!Offer([c \in Viewers |-> Hub!Report])
    BY <1>2
  <1> QED BY <1>1, <1>2, <1>3 DEF Hub!ReportMetrics, Left, Viewers, Said, In

\* A status is stored, acknowledged if its source asked, and relayed.
LEMMA AsStatus ==
  ASSUME NEW c \in Conns, Takes(c), NEW line, line = Unread(c)[1].line, line.src = c,
         line.kind \in {"STATUS", "STATUS_ACK"}, NEW asked,
         asked = IF line.kind = "STATUS_ACK" THEN {c} ELSE {},
         status_store' = Upsert(status_store, line),
         Hub!Offer([d \in asked \cup (Viewers \ {c}) |-> IF d \in asked THEN AckFor(line) ELSE line]),
         Viewers' = Viewers
  PROVE  Hub!Status(c)
  <1>1. In[c] = Unread(c) /\ Hub!TakeLine(c) /\ (~Ended)' = ~Ended
    BY AsTakeLine DEF In
  <1>2. Hub!Ack(line) = AckFor(line)
    BY DEF Hub!Ack, AckFor
  <1>3. [d \in asked \cup (Viewers \ {c}) |-> IF d \in asked THEN AckFor(line) ELSE line]
        = [d \in asked \cup (Viewers \ {c}) |-> IF d = c THEN Hub!Ack(line) ELSE line]
    BY <1>2
  <1>4. Hub!Offer([d \in asked \cup (Viewers \ {c}) |-> IF d = c THEN Hub!Ack(line) ELSE line])
    BY <1>3
  <1>5. status_store' = [d \in DOMAIN status_store \cup {DeviceOf[c]} |->
                           IF d = DeviceOf[c] THEN line ELSE status_store[d]]
    BY DEF Upsert
  <1> QED BY <1>1, <1>4, <1>5 DEF Hub!Status, Takes, Left, Viewers, Said, In

-----------------------------------------------------------------------------
(* What is not seen of the state stays as it is.                           *)

\* A connection that has left is one that the kernel has closed.
LEMMA LeftIsClosed == PeersPlaced => Left = {c \in Conns : peer[c] = "closed"}
  BY DEF PeersPlaced, Left

\* Nobody leaves while nobody's connection is closed.
LEMMA LeftKept ==
  ASSUME PeersPlaced, PeersPlaced', \A c \in Conns : peer'[c] = "closed" <=> peer[c] = "closed"
  PROVE  Left' = Left
  <1>1. (PeersPlaced => Left = {c \in Conns : peer[c] = "closed"})'
    BY LeftIsClosed, PTL
  <1> QED BY <1>1, LeftIsClosed

\* The server does not come back.
LEMMA EndedStays ==
  ASSUME [Next]_vars, Ended
  PROVE  Ended' /\ UNCHANGED pc
  BY DEF Ended, Next, ClientStep, Connect, WriteHalf, WriteRest, ReadChunk, CloseClient,
     Signal, ServerStep, LoopHead, EpollWait, EpollTimeout, ListenEvent,
     AcceptOne, AcceptEnd, ClientEvent, HandleHelloLine, HandleInvalidLine, HandleStatusLine,
     CountAck, TakeLine, LinesDone, EventsDone, PrintMetricsIfDue, AfterEnd, vars, serverVars

\* The tables that Relay sees stay.
LEMMA ServedKept ==
  ASSUME UNCHANGED <<fd_table, viewer_client_fds>>
  PROVE  Accepted' = Accepted /\ Viewers' = Viewers
  BY DEF Accepted, OpenFds, Viewers

\* send() ends a connection for the sender only: nobody has left.
LEMMA TransmitLeavesNobody ==
  ASSUME PeersPlaced, PeersPlaced', NEW lines, DOMAIN lines \subseteq Accepted, Transmit(lines)
  PROVE  Left' = Left
  <1>1. ASSUME NEW c \in Conns
        PROVE  peer'[c] = "closed" <=> peer[c] = "closed"
    <2>1. peer'[c] = IF c \in DOMAIN lines /\ peer[c] # "open" THEN "dead" ELSE peer[c]
      BY DEF Transmit
    <2>2. c \in Accepted => peer[c] # "closed"
      BY DEF PeersPlaced
    <2> QED BY <2>1, <2>2
  <1> QED BY <1>1, LeftKept

-----------------------------------------------------------------------------
(* Every step of Server is a step of Relay, or is not seen.                *)

\* The clients.
LEMMA HalfIsBegin ==
  ASSUME Known, Known', NEW c \in Conns, NEW kind \in ClientKinds, WriteHalf(c, kind)
  PROVE  Hub!Begin(c, kind)
  <1>k. Inv /\ Inv' /\ InputKept /\ PeersPlaced /\ PeersPlaced'
    BY DEF Known, StreamInv
  <1>1. PICK line : line = [kind |-> kind, src |-> c, seq |-> Len(written[c]) + 1]
    OBVIOUS
  <1>2. Unread(c)' = Append(Unread(c), [line |-> line, nl |-> FALSE]) /\ KeepsBut(c)
    BY <1>k, <1>1, HalfEffect
  <1>3. c \notin Left
    BY <1>k, LeftIsClosed DEF WriteHalf
  <1>4. Unread(c) = <<>> \/ Unread(c)[Len(Unread(c))].nl
    BY <1>k DEF WriteHalf, InputKept, KeptOf, EndsAsSaid
  <1>5. Ended' <=> Ended
    BY DEF WriteHalf, serverVars, Ended
  <1>6. Left' = Left
    BY <1>k, LeftKept DEF WriteHalf
  <1>7. Accepted' = Accepted /\ Viewers' = Viewers
    BY ServedKept DEF WriteHalf, serverVars
  <1>8. UNCHANGED <<status_store, written, outbox>>
    BY DEF WriteHalf, serverVars
  <1>9. Said' = Said
    BY <1>8 DEF Said
  <1> QED BY <1>1, <1>2, <1>3, <1>4, <1>5, <1>6, <1>7, <1>8, <1>9, AsBegin

\* The second half of a line completes it.
LEMMA RestIsFinish ==
  ASSUME Known, Known', NEW c \in Conns, WriteRest(c)
  PROVE  Hub!Finish(c)
  <1>k. Inv /\ Inv' /\ TypeOK /\ InputKept /\ PeersPlaced /\ PeersPlaced'
    BY DEF Known, StreamInv, Inv, Books
  <1>1. PICK line : line = HalfSaid(c)
    OBVIOUS
  <1>2. /\ line \in Line
        /\ Unread(c)' = Append(Unread(c), [line |-> line, nl |-> TRUE]) /\ KeepsBut(c)
    BY <1>k, <1>1, RestEffect
  <1>3. c \notin Left
    BY <1>k, LeftIsClosed DEF WriteRest
  <1>4. Unread(c) # <<>> /\ Unread(c)[Len(Unread(c))] = [line |-> line, nl |-> FALSE]
    BY <1>k, <1>1 DEF WriteRest, InputKept, KeptOf, EndsAsSaid
  <1>5. Ended' <=> Ended
    BY DEF WriteRest, serverVars, Ended
  <1>6. Left' = Left
    BY <1>k, LeftKept DEF WriteRest
  <1>7. Accepted' = Accepted /\ Viewers' = Viewers
    BY ServedKept DEF WriteRest, serverVars
  <1>8. UNCHANGED <<status_store, outbox>>
    BY DEF WriteRest, serverVars
  <1>9. Said' = [Said EXCEPT ![c] = @ + 1]
    <2>1. written[c] \in Seq(ClientKinds) /\ unfinished[c] \in ClientKinds
      BY <1>k DEF TypeOK, WriteRest
    <2>2. Len(Append(written[c], unfinished[c])) = Len(written[c]) + 1
      BY <2>1, AppendProperties
    <2>3. written' = [written EXCEPT ![c] = Append(written[c], unfinished[c])]
          /\ DOMAIN written = Conns
      BY <1>k DEF WriteRest, TypeOK
    <2>4. Len(written'[c]) = Len(written[c]) + 1
          /\ \A d \in Conns \ {c} : Len(written'[d]) = Len(written[d])
      BY <2>2, <2>3
    <2> QED BY <2>4 DEF Said
  <1> QED BY <1>2, <1>3, <1>4, <1>5, <1>6, <1>7, <1>8, <1>9, AsFinish

\* Only reading and closing are seen of what a client does with its connection.
LEMMA MoveIsSeen ==
  ASSUME Known, Known', NEW c \in Conns, MovesBytes(c)
  PROVE  UNCHANGED Hub!vars \/ Hub!Read(c) \/ Hub!Close(c)
  <1>k. Inv /\ Inv' /\ TypeOK /\ PeersPlaced /\ PeersPlaced'
    BY DEF Known, StreamInv, Inv, Books
  <1>1. Keeps
    BY <1>k, KeepsBytes
  <1>2. UNCHANGED <<serverVars, written, fd_table>>
    BY DEF MovesBytes, Connect, ReadChunk, CloseClient, clientVars
  <1>3. /\ Ended' <=> Ended
        /\ Accepted' = Accepted /\ Viewers' = Viewers /\ status_store' = status_store
        /\ Said' = Said
    BY <1>2, ServedKept DEF serverVars, Ended, Said
  <1>4. Left' = Left
    <2>1. \A d \in Conns : peer'[d] = "closed" <=> peer[d] = "closed"
      BY <1>k DEF MovesBytes, Connect, ReadChunk, CloseClient, TypeOK
    <2> QED BY <1>k, <2>1, LeftKept
  <1>5. CASE Connect(c)
    <2>1. In' = In /\ outbox' = outbox
      BY <1>1, <1>5 DEF Connect, In, Keeps
    <2> QED BY <1>3, <1>4, <2>1, UnseenIsStutter DEF Unseen
  <1>6. CASE ReadChunk(c)
    <2>1. outbox[c] # <<>> /\ outbox' = [outbox EXCEPT ![c] = Tail(@)]
      BY <1>6 DEF ReadChunk
    <2> QED BY <1>1, <1>3, <1>4, <2>1, AsReadOrClose
  <1>7. CASE CloseClient(c)
    <2>1. outbox' = [outbox EXCEPT ![c] = <<>>]
      BY <1>7 DEF CloseClient
    <2> QED BY <1>1, <1>3, <1>4, <2>1, AsReadOrClose
  <1> QED BY <1>5, <1>6, <1>7 DEF MovesBytes

\* accept() and recv().
LEMMA AcceptIsWelcome ==
  ASSUME Known, Known', AcceptOne
  PROVE  \E c \in Conns : Hub!Welcome(c)
  <1>k. /\ Inv /\ Inv' /\ TypeOK /\ PeersPlaced /\ PeersPlaced' /\ PeersKnown /\ TablesAgree
    BY DEF Known, StreamInv, Inv, Books
  <1>1. PICK c \in backlog, fd \in FreeFds : fd_table' = [fd_table EXCEPT ![fd] = c]
    BY DEF AcceptOne
  <1>2. /\ c \in Conns /\ c # NoConn /\ fd \in Fds /\ fd_table[fd] = NoConn
        /\ UNCHANGED <<pc, peer, viewer_client_fds, status_store, written, outbox>>
    BY <1>k, <1>1, ServerAssumption DEF AcceptOne, FreeFds, TypeOK, clientVars
  <1>3. Keeps
    BY <1>k, KeepsBytes
  <1>4. \A g \in Fds : fd_table'[g] = IF g = fd THEN c ELSE fd_table[g]
    BY <1>k, <1>1, <1>2 DEF TypeOK
  <1>5. OpenFds' = OpenFds \cup {fd} /\ fd \notin OpenFds
    BY <1>2, <1>4 DEF OpenFds
  <1>6. Accepted' = Accepted \cup {c}
    <2>1. \A e : e \in Accepted' <=> e \in Accepted \/ e = c
      BY <1>2, <1>4, <1>5 DEF Accepted, OpenFds
    <2> QED BY <2>1
  <1>7. Left' = Left
    BY <1>k, <1>2, LeftKept
  <1>8. c \notin Accepted \cup Left
    <2>1. c \notin Accepted
      BY <1>k, <1>1 DEF PeersKnown, Accepted, OpenFds
    <2> QED BY <1>1, <2>1 DEF Left
  <1>9. Viewers' = Viewers
    <2>1. \A g \in viewer_client_fds : g \in Fds /\ fd_table'[g] = fd_table[g]
      BY <1>k, <1>4, <1>5 DEF TablesAgree, OpenFds
    <2> QED BY <1>2, <2>1 DEF Viewers
  <1>10. ~Ended /\ ~Ended' /\ Said' = Said
    BY <1>2 DEF AcceptOne, Ended, Said
  <1>11. Hub!Welcome(c)
    BY <1>2, <1>3, <1>6, <1>7, <1>8, <1>9, <1>10, AsWelcome
  <1> QED BY <1>2, <1>11

\* recv() is not seen, but for the error that ends the server.
LEMMA ReceiveIsSeen ==
  ASSUME Known, Known', ClientEvent
  PROVE  UNCHANGED Hub!vars \/ Hub!Stop
  <1>k. /\ Inv /\ Inv' /\ PeersPlaced /\ PeersPlaced' /\ EventsKnown
    BY DEF Known, StreamInv, Inv, Books
  <1>1. UNCHANGED <<fd_table, peer, backlog, viewer_client_fds, status_store, written, outbox>>
    <2>1. \A fd \in events \ {ListenFd} : pc = "events" => fd \in DOMAIN client_buffers
      BY <1>k DEF EventsKnown
    <2> QED BY <2>1 DEF ClientEvent, clientVars
  <1>2. Keeps
    BY <1>k, KeepsBytes
  <1>3. /\ Accepted' = Accepted /\ Viewers' = Viewers /\ Said' = Said /\ Left' = Left
    BY <1>k, <1>1, ServedKept, LeftKept DEF Said
  <1>4. ~Ended
    BY DEF ClientEvent, Ended
  <1>5. CASE Ended'
    BY <1>1, <1>2, <1>3, <1>4, <1>5, AsStop
  <1>6. CASE ~Ended'
    <2>1. In' = In
      BY <1>2 DEF Keeps, In
    <2> QED BY <1>1, <1>3, <1>4, <1>6, <2>1, UnseenIsStutter DEF Unseen
  <1> QED BY <1>5, <1>6

\* Steps of the loop that only change where it is.
LEMMA IdleIsSeen ==
  ASSUME Known, Known', [Next]_vars, Idle
  PROVE  UNCHANGED Hub!vars \/ Hub!Stop
  <1>k. /\ Inv /\ Inv' /\ PeersPlaced /\ PeersPlaced'
    BY DEF Known, StreamInv, Inv, Books
  <1>1. UNCHANGED <<fd_table, peer, backlog, viewer_client_fds, status_store, written, outbox>>
    BY DEF Idle, kernelVars, clientVars
  <1>2. Keeps
    BY <1>k, KeepsBytes
  <1>3. /\ Accepted' = Accepted /\ Viewers' = Viewers /\ Said' = Said /\ Left' = Left
    BY <1>k, <1>1, ServedKept, LeftKept DEF Said
  <1>4. Ended => Ended'
    BY EndedStays
  <1>5. CASE ~Ended /\ Ended'
    BY <1>1, <1>2, <1>3, <1>5, AsStop
  <1>6. CASE Ended' <=> Ended
    <2>1. In' = In
      BY <1>2 DEF Keeps, In
    <2> QED BY <1>1, <1>3, <1>6, <2>1, UnseenIsStutter DEF Unseen
  <1> QED BY <1>4, <1>5, <1>6

-----------------------------------------------------------------------------
\* What is left behind the first line of a sequence.
LEMMA DroppedIsSubSeq ==
  ASSUME NEW q \in Seq(Chunk), NEW r \in Seq(Chunk), Dropped(q, r)
  PROVE  r = SubSeq(q, 3, Len(q))
  <1>1. PICK n \in Nat : n = Len(q)
    BY LenProperties
  <1>2. n >= 2 /\ Len(r) = n - 2 /\ \A i \in 1 .. Len(r) : r[i] = q[i + 2]
    BY <1>1 DEF Dropped
  <1>3. \A i \in 3 .. n : q[i] \in Chunk
    BY <1>1, LenProperties
  <1> DEFINE s == SubSeq(q, 3, n)
  <1>4. /\ s \in Seq(Chunk) /\ Len(s) = IF 3 <= n THEN n - 3 + 1 ELSE 0
        /\ \A i \in 1 .. n - 3 + 1 : s[i] = q[3 + i - 1]
    BY <1>3, SubSeqProperties
  <1> HIDE DEF s
  <1>5. Len(s) = n - 2
    BY <1>2, <1>4
  <1>6. ASSUME NEW i \in 1 .. Len(r)
        PROVE  r[i] = s[i]
    <2>1. i \in 1 .. n - 3 + 1 /\ 3 + i - 1 = i + 2
      BY <1>2
    <2> QED BY <1>2, <1>4, <2>1
  <1>7. r = s
    BY <1>2, <1>4, <1>5, <1>6, SeqEqual
  <1> QED BY <1>1, <1>7 DEF s

\* The three handlers take the oldest line of the connection they are about.
LEMMA HandlerTakes ==
  ASSUME Known, Known', Handle, NEW c \in Conns, c = fd_table[cur], Left' = Left
  PROVE  /\ Takes(c) /\ Unread(c)[1].line = NextLine(client_buffers[cur])
         /\ NextLine(client_buffers[cur]).src = c
         /\ NextLine(client_buffers[cur]) \in Line
  <1>k. Inv /\ Inv' /\ InputKept /\ TypeOK /\ TablesAgree /\ TypeOK' /\ TablesAgree'
    BY DEF Known, StreamInv, Inv, Books
  <1>1. PICK line : line = NextLine(client_buffers[cur])
    OBVIOUS
  <1>2. /\ cur \in OpenFds /\ Dropped(Unread(c), Unread(c)') /\ KeepsBut(c)
        /\ Unread(c)[2].nl /\ Unread(c)[2] \in Chunk /\ Unread(c)[2].line = line
        /\ UNCHANGED <<clientVars, fd_table>>
    BY <1>k, <1>1, HandleEffect
  <1>3. PICK q \in Seq(Chunk) : q = Unread(c)
    BY <1>k, UnreadType
  <1>4. PICK r \in Seq(Chunk) : r = Unread(c)'
    BY <1>k, UnreadTypeNext
  <1>5. /\ Dropped(q, r) /\ InOrder(c, q) /\ q[2].nl /\ q[2] \in Chunk /\ q[2].line = line
    BY <1>2, <1>3, <1>4, <1>k DEF InputKept, KeptOf
  <1>6. r = SubSeq(q, 3, Len(q))
    BY <1>5, DroppedIsSubSeq
  <1>7. Len(q) \in Nat /\ Len(q) >= 2 /\ DOMAIN q = 1 .. Len(q)
    BY <1>5, LenProperties DEF Dropped
  <1>8. q[1] \in Chunk /\ q[2].line = q[1].line /\ q[2].line.src = c
    <2>1. 1 \in DOMAIN q /\ 2 \in DOMAIN q /\ 2 \in 2 .. Len(q) /\ 2 - 1 = 1
      BY <1>7
    <2> QED BY <1>5, <2>1 DEF InOrder
  <1>9. q[2] = [q[1] EXCEPT !.nl = TRUE]
    <2>1. q[2] = [line |-> q[2].line, nl |-> TRUE]
      BY <1>5, Completed
    <2>2. [q[1] EXCEPT !.nl = TRUE] = [line |-> q[1].line, nl |-> TRUE]
      BY <1>8, Completed
    <2> QED BY <1>8, <2>1, <2>2
  <1>10. ~Ended /\ ~Ended' /\ Said' = Said
    BY <1>2 DEF Handle, HandleHelloLine, HandleInvalidLine, HandleStatusLine, TakeLine, Ended,
                Said, clientVars
  <1>11. Accepted' = Accepted /\ c \in Accepted
    BY <1>2 DEF Accepted, OpenFds
  <1>12. Takes(c)
    <2>1. Unread(c)' = SubSeq(Unread(c), 3, Len(Unread(c)))
      BY <1>3, <1>4, <1>6
    <2>2. Len(Unread(c)) >= 2 /\ Unread(c)[2] = [Unread(c)[1] EXCEPT !.nl = TRUE]
      BY <1>3, <1>7, <1>9
    <2> QED BY <2>1, <2>2, <1>2, <1>10, <1>11 DEF Takes
  <1>13. line \in Line
    BY <1>5 DEF Chunk
  <1> QED BY <1>1, <1>3, <1>5, <1>8, <1>12, <1>13

\* The connection that a handler is about.
LEMMA HandlersSource ==
  ASSUME Known, TakeLine({"HELLO", "HELLO_OTHER"}) \/ TakeLine({"BAD"})
                \/ TakeLine({"STATUS", "STATUS_ACK"})
  PROVE  fd_table[cur] \in Conns /\ cur \in OpenFds /\ fd_table[cur] \in Accepted
  BY DEF TakeLine, Known, Inv, Books, EventsKnown, TablesAgree, TypeOK, OpenFds, Accepted

\* The audience of a line is every viewer but its source.
LEMMA AudienceIsViewers ==
  ASSUME TypeOK, TablesAgree
  PROVE  /\ Audience(ListenFd) = Viewers
         /\ \A fd \in OpenFds : Audience(fd) = Viewers \ {fd_table[fd]}
  <1>1. ListenFd \notin viewer_client_fds
    BY ServerAssumption DEF TypeOK
  <1>2. Audience(ListenFd) = Viewers
    BY <1>1 DEF Audience, Viewers
  <1>3. ASSUME NEW fd \in OpenFds
        PROVE  Audience(fd) = Viewers \ {fd_table[fd]}
    <2>1. \A g \in viewer_client_fds : g \in OpenFds /\ (fd_table[g] = fd_table[fd] => g = fd)
      BY DEF TablesAgree
    <2> QED BY <2>1 DEF Audience, Viewers
  <1> QED BY <1>2, <1>3

\* A HELLO is handled as one.
LEMMA HelloIsHello ==
  ASSUME Known, Known', HandleHelloLine
  PROVE  \E c \in Conns : Hub!Hello(c)
  <1>k. PeersPlaced /\ PeersPlaced' /\ TypeOK
    BY DEF Known, StreamInv, Inv, Books
  <1>1. PICK line : line = NextLine(client_buffers[cur])
    OBVIOUS
  <1>2. PICK c \in Conns : c = fd_table[cur]
    BY HandlersSource DEF HandleHelloLine
  <1>3. /\ Handle /\ line.kind \in {"HELLO", "HELLO_OTHER"}
        /\ UNCHANGED <<fd_table, peer, status_store, outbox>>
        /\ viewer_client_fds' = IF line.kind = "HELLO" THEN viewer_client_fds \cup {cur}
                                ELSE viewer_client_fds
    BY <1>1 DEF Handle, HandleHelloLine, TakeLine, kernelVars
  <1>4. Left' = Left
    BY <1>k, <1>3, LeftKept
  <1>5. Takes(c) /\ Unread(c)[1].line = line
    BY <1>1, <1>2, <1>3, <1>4, HandlerTakes
  <1>6. Viewers' = IF line.kind = "HELLO" THEN Viewers \cup {c} ELSE Viewers
    BY <1>2, <1>3 DEF Viewers
  <1>7. Hub!Hello(c)
    BY <1>3, <1>5, <1>6, AsHello
  <1> QED BY <1>7

\* A line the parser rejects is rejected.
LEMMA InvalidIsReject ==
  ASSUME Known, Known', HandleInvalidLine
  PROVE  \E c \in Conns : Hub!Reject(c)
  <1>k. PeersPlaced /\ PeersPlaced' /\ TypeOK
    BY DEF Known, StreamInv, Inv, Books
  <1>2. PICK c \in Conns : c = fd_table[cur]
    BY HandlersSource DEF HandleInvalidLine
  <1>3. /\ Handle /\ NextLine(client_buffers[cur]).kind = "BAD"
        /\ UNCHANGED <<fd_table, viewer_client_fds, peer, status_store, outbox>>
    BY DEF Handle, HandleInvalidLine, TakeLine, kernelVars
  <1>4. Left' = Left
    BY <1>k, <1>3, LeftKept
  <1>5. Takes(c) /\ Unread(c)[1].line = NextLine(client_buffers[cur])
    BY <1>2, <1>3, <1>4, HandlerTakes
  <1>6. Viewers' = Viewers
    BY <1>3, ServedKept
  <1>7. Hub!Reject(c)
    BY <1>3, <1>5, <1>6, AsReject
  <1> QED BY <1>7

\* A status is stored, acknowledged and relayed in one step.
LEMMA StatusIsStatus ==
  ASSUME Known, Known', HandleStatusLine
  PROVE  \E c \in Conns : Hub!Status(c)
  <1>k. Inv /\ PeersPlaced /\ PeersPlaced' /\ TypeOK /\ TablesAgree
    BY DEF Known, StreamInv, Inv, Books
  <1>1. PICK line : line = NextLine(client_buffers[cur])
    OBVIOUS
  <1>2. PICK c \in Conns : c = fd_table[cur] /\ cur \in OpenFds /\ c \in Accepted
    BY HandlersSource DEF HandleStatusLine
  <1>3. PICK asked : asked = IF line.kind = "STATUS_ACK" THEN {c} ELSE {}
    OBVIOUS
  <1>4. Audience(cur) = Viewers \ {c}
    BY <1>k, <1>2, AudienceIsViewers
  <1> DEFINE out == [d \in asked \cup (Viewers \ {c}) |-> IF d \in asked THEN AckFor(line) ELSE line]
  <1>5. /\ Handle /\ line.kind \in {"STATUS", "STATUS_ACK"}
        /\ UNCHANGED <<fd_table, viewer_client_fds>>
        /\ status_store' = Upsert(status_store, line)
    BY <1>1 DEF Handle, HandleStatusLine, TakeLine
  <1>6. Transmit(out)
    BY <1>1, <1>2, <1>3, <1>4 DEF HandleStatusLine
  <1>7. DOMAIN out = asked \cup (Viewers \ {c})
    OBVIOUS
  <1>8. Viewers \subseteq Accepted /\ Accepted \subseteq Conns
    BY <1>k DEF TablesAgree, TypeOK, Viewers, Accepted, OpenFds
  <1>9. DOMAIN out \subseteq Accepted
    BY <1>2, <1>3, <1>7, <1>8
  <1>10. Left' = Left
    <2> HIDE DEF out
    <2> QED BY <1>k, <1>6, <1>9, TransmitLeavesNobody
  <1>11. Takes(c) /\ Unread(c)[1].line = line /\ line.src = c /\ line \in Line
    BY <1>1, <1>2, <1>5, <1>10, HandlerTakes
  <1>12. \A d \in DOMAIN out : out[d] \in Line
    <2>1. AckFor(line) \in Line
      BY <1>11 DEF AckFor, Line
    <2> QED BY <1>11, <2>1
  <1>13. Hub!Offer(out)
    <2>1. DOMAIN out \subseteq Conns
      BY <1>8, <1>9
    <2> HIDE DEF out
    <2> QED BY <1>k, <1>6, <1>12, <2>1, TransmitIsOffer
  <1>14. Viewers' = Viewers
    BY <1>5, ServedKept
  <1>15. Hub!Status(c)
    BY <1>3, <1>5, <1>11, <1>13, <1>14, AsStatus
  <1> QED BY <1>15

\* The end of a connection, behind its last line.
LEMMA DoneIsSeen ==
  ASSUME Known, Known', LinesDone
  PROVE  UNCHANGED Hub!vars \/ \E c \in Conns : Hub!Leave(c)
  <1>k. /\ Inv /\ Inv' /\ InputKept /\ EndIsLast /\ PeersPlaced /\ PeersPlaced'
        /\ TypeOK /\ TablesAgree /\ PeersKnown
    BY DEF Known, StreamInv, Inv, Books
  <1>l. (PeersPlaced => Left = {c \in Conns : peer[c] = "closed"})'
    BY LeftIsClosed, PTL
  <1>1. ~Ended /\ ~Ended' /\ Said' = Said /\ UNCHANGED <<status_store, outbox>>
    BY DEF LinesDone, Ended, Said, clientVars
  <1>2. CASE Keeps /\ UNCHANGED <<kernelVars, tableVars, resultVars>>
    <2>1. Accepted' = Accepted /\ Viewers' = Viewers
      BY <1>2, ServedKept DEF kernelVars
    <2>2. Left' = Left
      BY <1>2, <1>k, LeftKept DEF kernelVars
    <2>3. In' = In
      BY <1>2 DEF Keeps, In
    <2> QED BY <1>1, <2>1, <2>2, <2>3, UnseenIsStutter DEF Unseen
  <1>3. ASSUME NEW c \in Conns, c = fd_table[cur], cur \in OpenFds,
               peer' = [peer EXCEPT ![c] = "closed"], UNCHANGED <<inbox, outbox, backlog>>,
               ~HasLine(client_buffers[cur]), Unread(c) = client_buffers[cur],
               Unread(c)' = <<>>, KeepsBut(c), Accepted' = Accepted \ {c}, Disconnect(cur)
        PROVE  Hub!Leave(c)
    <2>1. c \in Accepted /\ c \notin backlog
      BY <1>k, <1>3 DEF Accepted, PeersKnown, OpenFds
    <2>2. ~(Len(Unread(c)) >= 2)
      <3>1. PICK b \in Seq(Chunk) : b = client_buffers[cur]
        BY <1>k, <1>3 DEF TypeOK, TablesAgree
      <3>2. InOrder(c, b) /\ ~HasLine(b)
        BY <1>k, <1>3, <3>1 DEF InputKept, KeptOf
      <3>3. Len(b) \in {0, 1}
        BY <3>2, NoNewline
      <3>4. ~(Len(b) >= 2)
        BY <3>3
      <3>5. Unread(c) = b
        BY <1>3, <3>1
      <3> QED BY <3>4, <3>5, Zenon
    <2>3. Left' = Left \cup {c}
      <3>2. \A d \in Conns : peer'[d] = IF d = c THEN "closed" ELSE peer[d]
        BY <1>k, <1>3 DEF TypeOK
      <3> QED BY <1>k, <1>l, <3>2, LeftIsClosed
    <2>4. Viewers' = Viewers \ {c}
      <3>1. viewer_client_fds' = viewer_client_fds \ {cur}
            /\ fd_table' = [fd_table EXCEPT ![cur] = NoConn]
        BY <1>3 DEF Disconnect, RemoveEpollFd
      <3>2. \A g \in viewer_client_fds : g \in OpenFds /\ (fd_table[g] = c => g = cur)
        BY <1>k, <1>3 DEF TablesAgree
      <3>3. \A g \in viewer_client_fds \ {cur} : fd_table'[g] = fd_table[g]
        BY <1>k, <3>1, <3>2 DEF TypeOK, OpenFds
      <3>4. Viewers' = {fd_table[g] : g \in viewer_client_fds \ {cur}}
        BY <3>1, <3>3 DEF Viewers
      <3> QED BY <1>3, <3>2, <3>4 DEF Viewers
    <2> QED BY <1>1, <1>3, <2>1, <2>2, <2>3, <2>4, AsLeave
  <1>4. \/ Keeps /\ UNCHANGED <<kernelVars, tableVars, resultVars>>
        \/ \E c \in Conns :
              /\ c = fd_table[cur] /\ cur \in OpenFds
              /\ peer' = [peer EXCEPT ![c] = "closed"] /\ UNCHANGED <<inbox, outbox, backlog>>
              /\ ~HasLine(client_buffers[cur])
              /\ Unread(c) = client_buffers[cur]
              /\ Unread(c)' = <<>> /\ KeepsBut(c)
              /\ Accepted' = Accepted \ {c}
              /\ Disconnect(cur)
    BY <1>k, EndEffect
  <1> QED BY <1>2, <1>3, <1>4

\* The report.
LEMMA MetricsAreSeen ==
  ASSUME Known, Known', PrintMetricsIfDue
  PROVE  UNCHANGED Hub!vars \/ Hub!ReportMetrics
  <1>k. Inv /\ Inv' /\ PeersPlaced /\ PeersPlaced' /\ TypeOK /\ TablesAgree
    BY DEF Known, StreamInv, Inv, Books
  <1>1. /\ ~Ended /\ ~Ended' /\ UNCHANGED <<fd_table, viewer_client_fds, status_store, written>>
        /\ UNCHANGED backlog
    BY DEF PrintMetricsIfDue, Ended, clientVars
  <1>2. Keeps
    BY <1>k, KeepsBytes
  <1>3. Accepted' = Accepted /\ Viewers' = Viewers /\ Said' = Said
    BY <1>1, ServedKept DEF Said
  <1>4. CASE UNCHANGED <<peer, outbox>>
    <2>1. Left' = Left
      BY <1>k, <1>4, LeftKept
    <2>2. In' = In
      BY <1>2 DEF Keeps, In
    <2> QED BY <1>1, <1>3, <1>4, <2>1, <2>2, UnseenIsStutter DEF Unseen
  <1> DEFINE out == [c \in Viewers |-> MetricsLine]
  <1>5. CASE Transmit(out)
    <2>1. DOMAIN out = Viewers /\ \A c \in DOMAIN out : out[c] = MetricsLine
      OBVIOUS
    <2>2. Viewers \subseteq Accepted /\ Accepted \subseteq Conns
      BY <1>k DEF TablesAgree, TypeOK, Viewers, Accepted, OpenFds
    <2>3. MetricsLine \in Line
      BY DEF MetricsLine, Line
    <2>4. Left' = Left
      <3> HIDE DEF out
      <3> QED BY <1>k, <1>5, <2>1, <2>2, TransmitLeavesNobody
    <2>5. Hub!Offer(out)
      <3> HIDE DEF out
      <3> QED BY <1>k, <1>5, <2>1, <2>2, <2>3, TransmitIsOffer
    <2>6. Hub!Offer([c \in Viewers |-> MetricsLine])
      BY <2>5
    <2> QED BY <1>1, <1>2, <1>3, <2>4, <2>6, AsReportMetrics
  <1>6. Audience(ListenFd) = Viewers
    BY <1>k, AudienceIsViewers
  <1>7. UNCHANGED <<peer, outbox>> \/ Transmit(out)
    BY <1>6 DEF PrintMetricsIfDue
  <1> QED BY <1>4, <1>5, <1>7

-----------------------------------------------------------------------------
\* Every step of the server or of a client is a step of Relay or not seen.
LEMMA HubStep == Known /\ Known' /\ [Next]_vars => Hub!Next \/ UNCHANGED Hub!vars
  <1> SUFFICES ASSUME Known, Known', [Next]_vars
               PROVE  Hub!Next \/ UNCHANGED Hub!vars
    OBVIOUS
  <1>c. Hub!ClientKinds = ClientKinds
    BY DEF Hub!ClientKinds, ClientKinds
  <1>1. ASSUME NEW c \in Conns, NEW kind \in ClientKinds, WriteHalf(c, kind)
        PROVE  Hub!Next
    BY <1>1, <1>c, HalfIsBegin DEF Hub!Next
  <1>2. ASSUME NEW c \in Conns, WriteRest(c)
        PROVE  Hub!Next
    BY <1>2, RestIsFinish DEF Hub!Next
  <1>3. ASSUME NEW c \in Conns, MovesBytes(c)
        PROVE  Hub!Next \/ UNCHANGED Hub!vars
    BY <1>3, MoveIsSeen DEF Hub!Next
  <1>4. CASE AcceptOne
    BY <1>4, AcceptIsWelcome DEF Hub!Next
  <1>5. CASE ClientEvent
    BY <1>5, ReceiveIsSeen DEF Hub!Next
  <1>6. CASE HandleHelloLine
    BY <1>6, HelloIsHello DEF Hub!Next
  <1>7. CASE HandleInvalidLine
    BY <1>7, InvalidIsReject DEF Hub!Next
  <1>8. CASE HandleStatusLine
    BY <1>8, StatusIsStatus DEF Hub!Next
  <1>9. CASE LinesDone
    BY <1>9, DoneIsSeen DEF Hub!Next
  <1>10. CASE PrintMetricsIfDue
    BY <1>10, MetricsAreSeen DEF Hub!Next
  <1>11. CASE Idle
    BY <1>11, IdleIsSeen DEF Hub!Next
  <1> QED BY <1>1, <1>2, <1>3, <1>4, <1>5, <1>6, <1>7, <1>8, <1>9, <1>10, <1>11, StepKinds
          DEF Handle

\* The server of main.cpp keeps what Relay promises: it handles the lines of a
\* client whole, in order and once, answers and relays each as it is handled,
\* and lets nobody go before, whatever descriptors, batches and buffers do.
THEOREM ServerImplementsRelay == Spec => ImplementsRelay
  <1>1. Init => Hub!Init
    BY HubInit
  <1>2. Known /\ Known' /\ [Next]_vars => (UNCHANGED Hub!vars \/ Hub!Next)
    BY HubStep
  <1>3. Spec => []Known
    BY Invariant, StreamInvariant, PTL DEF Known
  <1> QED BY <1>1, <1>2, <1>3, PTL DEF Spec, ImplementsRelay
=============================================================================
