------------------------- MODULE ServerStreamProofs -------------------------
(***************************************************************************)
(* What Server does with the lines of its clients, proved for every set of *)
(* connections and descriptors: none is handled twice, out of order or not *)
(* at all, and what is sent out follows the order in which they were       *)
(* handled.                                                                *)
(*                                                                         *)
(* The properties are about what was handled, and the state only has what  *)
(* was not.  The invariant closes the gap: the bytes of a connection that  *)
(* the server has not handled, in its buffer and in the kernel, are whole  *)
(* lines as they were written and perhaps the half of one more (InputKept);*)
(* what the server has sent is about lines older than all of these         *)
(* (OutputOlder).                                                          *)
(***************************************************************************)
EXTENDS ServerProofs, ServerRelay

USE DEF batchVars, tableVars, resultVars

\* Lines of c in the order of their numbers, each in two halves.
InOrder(c, q) ==
  /\ \A i \in DOMAIN q : q[i].line.src = c
  /\ q # <<>> => ~q[1].nl
  /\ \A i \in 2 .. Len(q) : IF q[i].nl THEN ~q[i - 1].nl /\ q[i].line = q[i - 1].line
                                       ELSE q[i - 1].nl
  /\ \A i, j \in DOMAIN q : i < j /\ q[i].nl => q[i].line.seq < q[j].line.seq

\* A line is there in full only when it was written, and only once.
Spoken(c, q) ==
  \A i \in DOMAIN q : q[i].nl => /\ q[i].line.seq \in DOMAIN written[c]
                                 /\ q[i].line.kind = written[c][q[i].line.seq]

\* What c has begun is what its bytes end with.
HalfSaid(c) == [kind |-> unfinished[c], src |-> c, seq |-> Len(written[c]) + 1]
EndsAsSaid(c, q) ==
  IF unfinished[c] = "none" THEN q = <<>> \/ q[Len(q)].nl
  ELSE q # <<>> /\ q[Len(q)] = [line |-> HalfSaid(c), nl |-> FALSE]

KeptOf(c) ==
  /\ InOrder(c, Unread(c)) /\ Spoken(c, Unread(c))
  /\ peer[c] \in {"idle", "open"} => EndsAsSaid(c, Unread(c))
InputKept == \A c \in Conns : KeptOf(c)

\* A connection is known to the kernel from connect() to close().
PeersPlaced == \A c \in Conns : peer[c] \in {"idle", "closed"} <=> c \notin Accepted \cup backlog

\* The event of a connection is being handled.
Serving == pc \in {"lines", "acked"}

\* The end of the stream is seen behind the last byte.
EndIsLast ==
  Serving /\ ~still_connected => /\ peer[fd_table[cur]] # "open"
                                 /\ inbox[fd_table[cur]] = <<>>

\* A client writes what its program writes, and nothing while it waits.
KeepsToItsProgram ==
  \A c \in Conns :
    /\ \A i \in DOMAIN written[c] : written[c][i] \in Says[c]
    /\ unfinished[c] # "none" => unfinished[c] \in Says[c] /\ ~awaiting[c]

\* What is sent is about lines that were handled.
Older(line) ==
  line.src # NoConn =>
    /\ line.src \in Conns /\ line.seq =< Len(written[line.src])
    /\ \A j \in DOMAIN Unread(line.src) : line.seq < Unread(line.src)[j].line.seq
OutputOlder == \A c \in Conns : \A i \in DOMAIN outbox[c] : Older(outbox[c][i].line)

\* The conversation of a client that only reports: it waits for nothing, or its
\* question is on the way, or the answer.
Questions(q) == {i \in DOMAIN q : q[i].nl /\ q[i].line.kind = "STATUS_ACK"}
Answer(c) == Halves(AckFor(LastLine(c)))
Silent(c) == ~awaiting[c] /\ outbox[c] = <<>> /\ Questions(Unread(c)) = {}
Asking(c) ==
  /\ awaiting[c] /\ outbox[c] = <<>>
  /\ \E i \in DOMAIN Unread(c) : /\ Questions(Unread(c)) = {i}
                                 /\ Unread(c)[i] = [line |-> LastLine(c), nl |-> TRUE]
Answered(c) ==
  /\ awaiting[c] /\ Questions(Unread(c)) = {}
  /\ outbox[c] = Answer(c) \/ outbox[c] = <<Answer(c)[2]>>
Talk(c) == Silent(c) \/ Asking(c) \/ Answered(c)
Talks == \A c \in Conns : "HELLO" \notin Says[c] /\ peer[c] \in {"idle", "open"} => Talk(c)

StreamInv == InputKept /\ PeersPlaced /\ EndIsLast /\ KeepsToItsProgram /\ OutputOlder

-----------------------------------------------------------------------------
(* The bytes of a connection that are not handled.                         *)

\* An open descriptor's bytes are its buffer and what the kernel holds.
LEMMA UnreadOpen ==
  ASSUME TypeOK, TablesAgree, NEW fd \in OpenFds
  PROVE  /\ fd_table[fd] \in Conns
         /\ Unread(fd_table[fd]) = client_buffers[fd] \o inbox[fd_table[fd]]
  <1> DEFINE c == fd_table[fd]
  <1>1. fd \in Fds /\ c \in Conns /\ c \in Accepted
    BY DEF OpenFds, TypeOK, Accepted
  <1>2. \A g \in Fds : fd_table[g] = c => g = fd
    BY <1>1, ServerAssumption DEF TablesAgree, OpenFds
  <1> HIDE DEF c
  <1>3. fd_table[fd] = c
    BY DEF c
  <1>4. FdOf(c) = fd
    BY <1>1, <1>2, <1>3 DEF FdOf
  <1> QED BY <1>1, <1>3, <1>4 DEF Unread

\* The same of the state after a step.
LEMMA UnreadOpenNext ==
  ASSUME TypeOK', TablesAgree', NEW c \in Conns, NEW fd \in OpenFds', fd_table'[fd] = c
  PROVE  Unread(c)' = client_buffers'[fd] \o inbox'[c]
  <1>1. fd \in Fds /\ c \in Accepted'
    BY DEF OpenFds, TypeOK, Accepted
  <1>2. \A g \in Fds : fd_table'[g] = c => g = fd
    BY <1>1, ServerAssumption DEF TablesAgree, OpenFds
  <1>4. FdOf(c)' = fd
    BY <1>1, <1>2 DEF FdOf
  <1> QED BY <1>1, <1>4 DEF Unread

\* Two sequences of chunks are one.
LEMMA Joined ==
  ASSUME NEW s \in Seq(Chunk), NEW t \in Seq(Chunk)
  PROVE  /\ s \o t \in Seq(Chunk) /\ Len(s \o t) = Len(s) + Len(t)
         /\ DOMAIN (s \o t) = 1 .. Len(s) + Len(t)
         /\ DOMAIN s = 1 .. Len(s) /\ DOMAIN t = 1 .. Len(t)
         /\ Len(s) \in Nat /\ Len(t) \in Nat
         /\ \A i \in 1 .. Len(s) : (s \o t)[i] = s[i]
         /\ \A i \in 1 .. Len(t) : (s \o t)[Len(s) + i] = t[i]
  <1>1. /\ s \o t \in Seq(Chunk) /\ Len(s \o t) = Len(s) + Len(t)
        /\ \A i \in 1 .. Len(s) + Len(t) :
              (s \o t)[i] = IF i <= Len(s) THEN s[i] ELSE t[i - Len(s)]
    BY ConcatProperties, Zenon
  <1>2. /\ Len(s) \in Nat /\ Len(t) \in Nat
        /\ DOMAIN s = 1 .. Len(s) /\ DOMAIN t = 1 .. Len(t)
    BY LenProperties
  <1>3. DOMAIN (s \o t) = 1 .. Len(s) + Len(t)
    BY <1>1, LenProperties, Zenon
  <1>4. \A i \in 1 .. Len(s) : (s \o t)[i] = s[i]
    BY <1>1, <1>2
  <1>5. \A i \in 1 .. Len(t) : (s \o t)[Len(s) + i] = t[i]
    BY <1>1, <1>2
  <1> QED BY <1>1, <1>2, <1>3, <1>4, <1>5

\* Unhandled bytes are bytes.
LEMMA UnreadType ==
  ASSUME TypeOK, TablesAgree, NEW c \in Conns
  PROVE  Unread(c) \in Seq(Chunk) /\ DOMAIN Unread(c) = 1 .. Len(Unread(c)) /\ Len(Unread(c)) \in Nat
  <1>1. inbox[c] \in Seq(Chunk)
    BY DEF TypeOK
  <1>2. Unread(c) \in Seq(Chunk)
    <2>1. CASE c \notin Accepted
      BY <1>1, <2>1 DEF Unread
    <2>2. CASE c \in Accepted
      <3>1. PICK fd \in OpenFds : fd_table[fd] = c
        BY <2>2 DEF Accepted
      <3>2. client_buffers[fd] \in Seq(Chunk)
        BY <3>1 DEF TypeOK, TablesAgree
      <3>3. Unread(c) = client_buffers[fd] \o inbox[c]
        BY <3>1, UnreadOpen
      <3> QED BY <1>1, <3>2, <3>3, Joined, Zenon
    <2> QED BY <2>1, <2>2
  <1> QED BY <1>2, LenProperties, Zenon

\* The same of the state after a step.
LEMMA UnreadTypeNext ==
  ASSUME TypeOK', TablesAgree', NEW c \in Conns
  PROVE  /\ Unread(c)' \in Seq(Chunk) /\ Len(Unread(c)') \in Nat
         /\ DOMAIN (Unread(c)') = 1 .. Len(Unread(c)')
  <1>1. inbox'[c] \in Seq(Chunk)
    BY DEF TypeOK
  <1>2. Unread(c)' \in Seq(Chunk)
    <2>1. CASE c \notin Accepted'
      BY <1>1, <2>1 DEF Unread
    <2>2. CASE c \in Accepted'
      <3>1. PICK fd \in OpenFds' : fd_table'[fd] = c
        BY <2>2 DEF Accepted
      <3>2. client_buffers'[fd] \in Seq(Chunk)
        BY <3>1 DEF TypeOK, TablesAgree
      <3>3. Unread(c)' = client_buffers'[fd] \o inbox'[c]
        BY <3>1, UnreadOpenNext
      <3> QED BY <1>1, <3>2, <3>3, Joined, Zenon
    <2> QED BY <2>1, <2>2
  <1> QED BY <1>2, LenProperties, Zenon

\* A connection is not read from where nothing of it changes.
LEMMA UnreadElsewhere ==
  ASSUME TypeOK, TablesAgree, TypeOK', TablesAgree', NEW c \in Conns,
         inbox'[c] = inbox[c],
         \A fd \in Fds : fd_table'[fd] = c <=> fd_table[fd] = c,
         \A fd \in Fds : fd_table[fd] = c => client_buffers'[fd] = client_buffers[fd]
  PROVE  Unread(c)' = Unread(c)
  <1>1. c # NoConn
    BY ServerAssumption
  <1>2. CASE c \in Accepted
    <2>1. PICK fd \in OpenFds : fd_table[fd] = c
      BY <1>2 DEF Accepted
    <2>2. fd \in Fds /\ fd \in OpenFds' /\ fd_table'[fd] = c
      BY <1>1, <2>1 DEF OpenFds
    <2>3. Unread(c) = client_buffers[fd] \o inbox[c]
      BY <2>1, UnreadOpen
    <2>4. Unread(c)' = client_buffers'[fd] \o inbox'[c]
      BY <2>2, UnreadOpenNext
    <2> QED BY <2>1, <2>2, <2>3, <2>4
  <1>3. CASE c \notin Accepted
    <2>1. c \notin Accepted'
      BY <1>3 DEF Accepted, OpenFds
    <2> QED BY <1>3, <2>1 DEF Unread
  <1> QED BY <1>2, <1>3

\* r is q without its first line.
Dropped(q, r) ==
  /\ Len(q) >= 2 /\ Len(r) = Len(q) - 2
  /\ \A i \in 1 .. Len(r) : r[i] = q[i + 2]

\* Where lines come in order, the first newline of a buffer is its second byte:
\* take_next_line() returns the oldest line that is not handled, as written.
LEMMA OldestLine ==
  ASSUME NEW c, NEW b \in Seq(Chunk), NEW more \in Seq(Chunk),
         InOrder(c, b \o more), HasLine(b)
  PROVE  /\ LineEnd(b) = 2 /\ Len(b) >= 2
         /\ 2 \in DOMAIN (b \o more) /\ (b \o more)[2] = b[2] /\ b[2] \in Chunk
         /\ b[2].nl /\ NextLine(b) = b[2].line
         /\ Dropped(b \o more, RestOf(b) \o more)
  <1> DEFINE q == b \o more
  <1>1. /\ Len(b) \in Nat /\ Len(more) \in Nat /\ DOMAIN b = 1 .. Len(b)
        /\ q \in Seq(Chunk) /\ Len(q) = Len(b) + Len(more) /\ DOMAIN q = 1 .. Len(q)
    OBVIOUS
  <1>2. \A i \in 1 .. Len(b) : q[i] = b[i]
    OBVIOUS
  <1> HIDE DEF q
  <1>o. InOrder(c, q)
    BY DEF q
  <1>3. LineEnd(b) \in DOMAIN b /\ IsFirstNewline(b, LineEnd(b))
    BY LineEndProperties
  <1>4. PICK k \in 1 .. Len(b) : k = LineEnd(b) /\ b[k].nl /\ \A j \in 1 .. k - 1 : ~b[j].nl
    BY <1>1, <1>3 DEF IsFirstNewline
  <1>5. k # 1
    <2>1. q # <<>>
      BY <1>1
    <2>2. ~q[1].nl
      BY <1>o, <2>1 DEF InOrder
    <2>3. 1 \in 1 .. Len(b)
      BY <1>1, <1>4
    <2>4. ~b[1].nl
      BY <1>2, <2>2, <2>3
    <2> QED BY <1>4, <2>4
  <1>6. Len(b) >= 2 /\ k >= 2
    BY <1>1, <1>4, <1>5
  <1>7. 1 \in 1 .. Len(b) /\ 2 \in 1 .. Len(b) /\ 2 \in 2 .. Len(q) /\ 2 - 1 = 1
    BY <1>1, <1>6
  <1>8. q[1] = b[1] /\ q[2] = b[2]
    BY <1>2, <1>7
  <1>9. IF q[2].nl THEN ~q[2 - 1].nl /\ q[2].line = q[2 - 1].line ELSE q[2 - 1].nl
    BY <1>o, <1>7 DEF InOrder
  <1>10. ~b[1].nl
    <2>1. 1 \in 1 .. k - 1
      BY <1>6
    <2> QED BY <1>4, <2>1
  <1>11. b[2].nl /\ b[2].line = b[1].line
    BY <1>7, <1>8, <1>9, <1>10
  <1>12. k = 2
    <2>1. ~(2 < k)
      <3> SUFFICES ASSUME 2 < k PROVE FALSE
        OBVIOUS
      <3>1. 2 \in 1 .. k - 1
        BY <1>4
      <3> QED BY <3>1, <1>4, <1>11
    <2> QED BY <2>1, <1>6
  <1>13. NextLine(b) = b[2].line
    BY <1>4, <1>11, <1>12 DEF NextLine
  <1> DEFINE r == SubSeq(b, 3, Len(b))
  <1>14. RestOf(b) = r
    BY <1>4, <1>12 DEF RestOf
  <1>15. r \in Seq(Chunk)
    BY <1>1
  <1>16. Len(r) = Len(b) - 2 /\ \A i \in 1 .. Len(r) : r[i] = b[i + 2]
    <2> DEFINE n == Len(b)
    <2>1. n \in Nat /\ n >= 2 /\ \A i \in 3 .. n : b[i] \in Chunk
      BY <1>1, <1>6
    <2> HIDE DEF n
    <2>2. /\ Len(SubSeq(b, 3, n)) = IF 3 =< n THEN n - 3 + 1 ELSE 0
          /\ \A i \in 1 .. n - 3 + 1 : SubSeq(b, 3, n)[i] = b[3 + i - 1]
      BY <2>1, SubSeqProperties
    <2>3. Len(SubSeq(b, 3, n)) = n - 2
      BY <2>1, <2>2
    <2>4. \A i \in 1 .. n - 2 : SubSeq(b, 3, n)[i] = b[i + 2]
      <3> TAKE i \in 1 .. n - 2
      <3>1. i \in 1 .. n - 3 + 1 /\ 3 + i - 1 = i + 2
        BY <2>1
      <3> QED BY <3>1, <2>2
    <2> QED BY <2>3, <2>4 DEF n
  <1> HIDE DEF r
  <1>17. Dropped(q, r \o more)
    <2>1. Len(r) \in Nat
      BY <1>15
    <2>2. Len(r \o more) = Len(r) + Len(more)
      BY <1>15
    <2>3. Len(q) >= 2 /\ Len(r \o more) = Len(q) - 2
      BY <1>1, <1>6, <1>16, <2>2
    <2>4. ASSUME NEW i \in 1 .. Len(r \o more)
          PROVE  (r \o more)[i] = q[i + 2]
      <3>1. i \in Nat /\ i >= 1 /\ i =< Len(r) + Len(more)
        BY <1>1, <2>1, <2>2
      <3>2. CASE i =< Len(r)
        <4>1. (r \o more)[i] = r[i] /\ i \in 1 .. Len(r)
          BY <3>1, <3>2, <1>15, <2>1
        <4>2. i + 2 \in 1 .. Len(b)
          BY <3>1, <3>2, <1>1, <1>16
        <4> QED BY <4>1, <4>2, <1>2, <1>16
      <3>3. CASE i > Len(r)
        <4>1. (r \o more)[i] = more[i - Len(r)]
          BY <3>1, <3>3, <1>15, <2>1, <1>1
        <4>2. i + 2 > Len(b) /\ i + 2 =< Len(b) + Len(more) /\ i + 2 \in Nat
          BY <3>1, <3>3, <1>1, <1>16
        <4>3. q[i + 2] = more[i + 2 - Len(b)]
          BY <4>2, <1>1 DEF q
        <4>4. i - Len(r) = i + 2 - Len(b)
          BY <3>1, <1>1, <1>16
        <4> QED BY <4>1, <4>3, <4>4
      <3> QED BY <3>1, <3>2, <3>3, <2>1
    <2> QED BY <2>3, <2>4 DEF Dropped
  <1>18. b[2] \in Chunk /\ 2 \in DOMAIN q
    BY <1>1, <1>7
  <1> QED BY <1>4, <1>6, <1>8, <1>11, <1>12, <1>13, <1>14, <1>17, <1>18 DEF q

-----------------------------------------------------------------------------
(* What the steps do to the bytes.                                         *)

\* Nothing that is related to the lines changes but that an ACK is counted, and no
\* batch of bytes begins.
Idle ==
  /\ UNCHANGED <<kernelVars, clientVars, tableVars, status_store>>
  /\ counters' = counters \/ counters' = [counters EXCEPT !.ack_sent = @ + 1]
  /\ ~Serving' \/ (Serving /\ UNCHANGED <<cur, still_connected>>)

\* The three ways to handle a line.
Handle == HandleHelloLine \/ HandleInvalidLine \/ HandleStatusLine

\* A connection changes hands, or its end is seen; its lines do not change.
MovesBytes(c) == Connect(c) \/ ReadChunk(c) \/ CloseClient(c)

\* Every step is of one of these kinds.
LEMMA StepKinds ==
  ASSUME [Next]_vars
  PROVE  \/ \E c \in Conns : \E kind \in ClientKinds : WriteHalf(c, kind)
         \/ \E c \in Conns : WriteRest(c)
         \/ \E c \in Conns : MovesBytes(c)
         \/ AcceptOne \/ ClientEvent \/ Handle \/ LinesDone \/ PrintMetricsIfDue
         \/ Idle
  <1>1. CASE \/ Signal \/ LoopHead \/ EpollWait \/ EpollTimeout
             \/ ListenEvent \/ AcceptEnd \/ EventsDone \/ AfterEnd \/ UNCHANGED vars
    BY <1>1 DEF Signal, LoopHead, EpollWait, EpollTimeout, ListenEvent, AcceptEnd, EventsDone,
                AfterEnd, vars, serverVars, batchVars, resultVars, kernelVars, clientVars, Idle,
                Serving
  <1>2. CASE CountAck
    BY <1>2 DEF CountAck, batchVars, Idle, Serving
  <1> QED BY <1>1, <1>2 DEF Next, ClientStep, ServerStep, Handle, MovesBytes

Keeps == \A d \in Conns : Unread(d)' = Unread(d)
KeepsBut(c) == \A d \in Conns \ {c} : Unread(d)' = Unread(d)

\* accept() and recv() move a connection and its bytes, and change none.
LEMMA KeepsBytes ==
  ASSUME Inv, Inv',
         \/ \E c \in Conns : MovesBytes(c)
         \/ AcceptOne \/ ClientEvent \/ PrintMetricsIfDue \/ Idle
  PROVE  Keeps
  <1>t. /\ TypeOK /\ TablesAgree /\ TypeOK' /\ TablesAgree' /\ PeersKnown /\ EventsKnown
    BY DEF Inv, Books
  <1>1. CASE UNCHANGED <<inbox, client_buffers, fd_table>>
    BY <1>1 DEF Keeps, Unread, FdOf, Accepted, OpenFds
  <1>2. CASE AcceptOne
    <2>1. PICK c \in backlog, fd \in FreeFds :
            /\ fd_table' = [fd_table EXCEPT ![fd] = c] /\ client_buffers' = Emplaced(fd)
      BY <1>2 DEF AcceptOne
    <2>2. /\ UNCHANGED inbox /\ c \in Conns /\ fd \in Fds /\ fd_table[fd] = NoConn
          /\ fd \notin DOMAIN client_buffers /\ c # NoConn
          /\ \A g \in Fds : fd_table[g] # c
      BY <1>2, <1>t, <2>1, ServerAssumption
         DEF AcceptOne, TypeOK, FreeFds, OpenFds, TablesAgree, PeersKnown
    <2>3. ASSUME NEW d \in Conns PROVE Unread(d)' = Unread(d)
      <3>1. inbox[d] \in Seq(Chunk)
        BY <1>t DEF TypeOK
      <3>2. CASE d = c
        <4>1. Unread(d) = inbox[d]
          BY <2>2, <3>2 DEF Unread, Accepted, OpenFds
        <4>2. fd \in OpenFds' /\ fd_table'[fd] = d /\ client_buffers'[fd] = <<>>
          BY <1>t, <2>1, <2>2, <3>2 DEF OpenFds, TypeOK, Emplaced
        <4>3. Unread(d)' = client_buffers'[fd] \o inbox'[d]
          BY <1>t, <4>2, UnreadOpenNext
        <4> QED BY <2>2, <3>1, <4>1, <4>2, <4>3, ConcatEmptySeq
      <3>3. CASE d # c
        <4>1. \A g \in Fds : fd_table'[g] = d <=> fd_table[g] = d
          BY <1>t, <2>1, <2>2, <3>3, ServerAssumption DEF TypeOK
        <4>2. \A g \in Fds : fd_table[g] = d => client_buffers'[g] = client_buffers[g]
          BY <1>t, <2>1, <2>2, ServerAssumption DEF Emplaced, TablesAgree, OpenFds
        <4> QED BY <1>t, <2>2, <4>1, <4>2, UnreadElsewhere
      <3> QED BY <3>2, <3>3
    <2> QED BY <2>3 DEF Keeps
  <1>3. CASE ClientEvent
    <2>1. PICK fd \in events \ {ListenFd} :
            IF fd \in DOMAIN client_buffers
            THEN Receive(fd) /\ UNCHANGED <<epoll, fd_table, peer>>
            ELSE RemoveEpollFd(fd)
                 /\ UNCHANGED <<pc, client_buffers, inbox, still_connected, cur>>
      BY <1>3 DEF ClientEvent
    <2>2. fd \in DOMAIN client_buffers /\ fd \in OpenFds /\ fd \in Fds
      BY <1>3, <1>t, <2>1 DEF EventsKnown, TablesAgree, ClientEvent, OpenFds
    <2>3. PICK c \in Conns : fd_table[fd] = c
      BY <1>t, <2>2 DEF OpenFds, TypeOK
    <2>4. /\ client_buffers' = [client_buffers EXCEPT ![fd] = @ \o inbox[c]]
          /\ inbox' = [inbox EXCEPT ![c] = <<>>]
          /\ UNCHANGED fd_table
      BY <2>1, <2>2, <2>3 DEF Receive, Appended
    <2>5. client_buffers[fd] \in Seq(Chunk) /\ inbox[c] \in Seq(Chunk)
      BY <1>t, <2>2 DEF TypeOK
    <2>6. /\ client_buffers'[fd] = client_buffers[fd] \o inbox[c] /\ inbox'[c] = <<>>
          /\ \A g \in DOMAIN client_buffers \ {fd} : client_buffers'[g] = client_buffers[g]
          /\ \A d \in Conns \ {c} : inbox'[d] = inbox[d]
      BY <1>t, <2>2, <2>4 DEF TypeOK
    <2>7. ASSUME NEW d \in Conns PROVE Unread(d)' = Unread(d)
      <3>1. CASE d = c
        <4>1. Unread(c) = client_buffers[fd] \o inbox[c]
          BY <1>t, <2>2, <2>3, UnreadOpen
        <4>2. fd \in OpenFds' /\ fd_table'[fd] = c
          BY <2>2, <2>3, <2>4 DEF OpenFds
        <4>3. Unread(c)' = client_buffers'[fd] \o inbox'[c]
          BY <1>t, <4>2, UnreadOpenNext
        <4>4. Unread(c)' = (client_buffers[fd] \o inbox[c]) \o <<>>
          BY <2>6, <4>3, Zenon
        <4>5. (client_buffers[fd] \o inbox[c]) \o <<>> = client_buffers[fd] \o inbox[c]
          BY <2>5, Joined, ConcatEmptySeq, Zenon
        <4> QED BY <3>1, <4>1, <4>4, <4>5, Zenon
      <3>2. CASE d # c
        <4>1. \A g \in Fds : fd_table[g] = d => client_buffers'[g] = client_buffers[g]
          BY <1>t, <2>3, <2>6, <3>2, ServerAssumption DEF TablesAgree, OpenFds
        <4> QED BY <1>t, <2>4, <2>6, <3>2, <4>1, UnreadElsewhere
      <3> QED BY <3>1, <3>2
    <2> QED BY <2>7 DEF Keeps
  <1>4. ASSUME NEW c \in Conns, MovesBytes(c)
        PROVE  UNCHANGED <<inbox, client_buffers, fd_table>>
    BY <1>4 DEF MovesBytes, Connect, ReadChunk, CloseClient, serverVars
  <1>5. ASSUME PrintMetricsIfDue \/ Idle
        PROVE  UNCHANGED <<inbox, client_buffers, fd_table>>
    BY <1>5 DEF PrintMetricsIfDue, Idle, kernelVars
  <1> QED BY <1>1, <1>2, <1>3, <1>4, <1>5

\* What is appended to a part at the end is appended to the whole.
LEMMA AppendJoined ==
  ASSUME NEW s \in Seq(Chunk), NEW t \in Seq(Chunk), NEW x \in Chunk
  PROVE  s \o Append(t, x) = Append(s \o t, x)
  <1>1. <<x>> \in Seq(Chunk)
    OBVIOUS
  <1>2. Append(t, x) = t \o <<x>>
    BY AppendProperties
  <1>3. s \o t \in Seq(Chunk)
    BY Joined
  <1>4. Append(s \o t, x) = (s \o t) \o <<x>>
    <2> DEFINE u == s \o t
    <2>1. u \in Seq(Chunk)
      BY <1>3
    <2> HIDE DEF u
    <2>2. Append(u, x) = u \o <<x>>
      BY <2>1, AppendProperties
    <2> QED BY <2>2 DEF u
  <1>5. (s \o t) \o <<x>> = s \o (t \o <<x>>)
    BY <1>1, ConcatAssociative
  <1> QED BY <1>2, <1>4, <1>5

\* A client's send() goes behind all bytes of its connection.
LEMMA SendUnread ==
  ASSUME Inv, Inv', NEW c \in Conns, NEW chunk \in Chunk,
         UNCHANGED <<client_buffers, fd_table>>,
         inbox' = [inbox EXCEPT ![c] = Append(@, chunk)]
  PROVE  Unread(c)' = Append(Unread(c), chunk) /\ KeepsBut(c)
  <1>t. TypeOK /\ TablesAgree /\ TypeOK' /\ TablesAgree'
    BY DEF Inv, Books
  <1>1. inbox[c] \in Seq(Chunk) /\ inbox'[c] = Append(inbox[c], chunk)
        /\ \A d \in Conns \ {c} : inbox'[d] = inbox[d]
    BY <1>t DEF TypeOK
  <1>2. KeepsBut(c)
    <2>1. \A d \in Conns \ {c} : Unread(d)' = Unread(d)
      BY <1>t, <1>1, UnreadElsewhere
    <2> QED BY <2>1 DEF KeepsBut
  <1>3. CASE c \in Accepted
    <2>1. PICK fd \in OpenFds : fd_table[fd] = c
      BY <1>3 DEF Accepted
    <2>2. client_buffers[fd] \in Seq(Chunk) /\ fd \in OpenFds' /\ fd_table'[fd] = c
      BY <1>t, <2>1 DEF TypeOK, TablesAgree, OpenFds
    <2>3. Unread(c) = client_buffers[fd] \o inbox[c]
      BY <1>t, <2>1, UnreadOpen
    <2>4. Unread(c)' = client_buffers[fd] \o inbox'[c]
      BY <1>t, <2>2, UnreadOpenNext
    <2>5. Unread(c)' = client_buffers[fd] \o Append(inbox[c], chunk)
      BY <1>1, <2>4, Zenon
    <2>6. client_buffers[fd] \o Append(inbox[c], chunk) = Append(client_buffers[fd] \o inbox[c], chunk)
      BY <1>1, <2>2, AppendJoined
    <2> QED BY <1>2, <2>3, <2>5, <2>6, Zenon
  <1>4. CASE c \notin Accepted
    <2>1. Unread(c) = inbox[c]
      BY <1>4 DEF Unread
    <2>2. c \notin Accepted'
      BY <1>4 DEF Accepted, OpenFds
    <2>3. Unread(c)' = inbox'[c]
      BY <2>2 DEF Unread
    <2> QED BY <1>1, <1>2, <2>1, <2>3
  <1> QED BY <1>3, <1>4

\* Its first half is the half of the next line.
LEMMA HalfEffect ==
  ASSUME Inv, Inv', NEW c \in Conns, NEW kind \in ClientKinds, WriteHalf(c, kind)
  PROVE  LET line == [kind |-> kind, src |-> c, seq |-> Len(written[c]) + 1]
         IN  /\ line \in Line
             /\ Unread(c)' = Append(Unread(c), [line |-> line, nl |-> FALSE]) /\ KeepsBut(c)
  <1> DEFINE line == [kind |-> kind, src |-> c, seq |-> Len(written[c]) + 1]
  <1>1. line \in Line
    BY LenProperties DEF Line, Inv, Books, TypeOK
  <1>2. /\ UNCHANGED <<client_buffers, fd_table>>
        /\ inbox' = [inbox EXCEPT ![c] = Append(@, Halves(line)[1])]
    BY DEF WriteHalf, serverVars
  <1> HIDE DEF line
  <1>3. Halves(line)[1] = [line |-> line, nl |-> FALSE] /\ Halves(line)[1] \in Chunk
    <2>1. Halves(line)[1] = [line |-> line, nl |-> FALSE]
      BY DEF Halves
    <2>2. Halves(line)[1] \in Chunk
      BY <1>1, HalvesType
    <2> QED BY <2>1, <2>2
  <1>4. Unread(c)' = Append(Unread(c), Halves(line)[1]) /\ KeepsBut(c)
    BY <1>2, <1>3, SendUnread
  <1> QED BY <1>1, <1>3, <1>4 DEF line

\* Its second half completes the line.
LEMMA RestEffect ==
  ASSUME Inv, Inv', NEW c \in Conns, WriteRest(c)
  PROVE  /\ HalfSaid(c) \in Line
         /\ Unread(c)' = Append(Unread(c), [line |-> HalfSaid(c), nl |-> TRUE])
         /\ KeepsBut(c)
  <1> DEFINE line == HalfSaid(c)
  <1>1. line \in Line
    BY LenProperties DEF HalfSaid, Line, Inv, Books, TypeOK, WriteRest
  <1>2. /\ UNCHANGED <<client_buffers, fd_table>>
        /\ inbox' = [inbox EXCEPT ![c] = Append(@, Halves(line)[2])]
    BY DEF WriteRest, serverVars, HalfSaid
  <1> HIDE DEF line
  <1>3. Halves(line)[2] = [line |-> line, nl |-> TRUE] /\ Halves(line)[2] \in Chunk
    <2>1. Halves(line)[2] = [line |-> line, nl |-> TRUE]
      BY DEF Halves
    <2>2. Halves(line)[2] \in Chunk
      BY <1>1, HalvesType
    <2> QED BY <2>1, <2>2
  <1>4. Unread(c)' = Append(Unread(c), Halves(line)[2]) /\ KeepsBut(c)
    BY <1>2, <1>3, SendUnread
  <1> QED BY <1>1, <1>3, <1>4 DEF line

\* take_next_line() takes the oldest line of one connection.
LEMMA TakeEffect ==
  ASSUME Inv, Inv', InputKept, NEW kinds, TakeLine(kinds), UNCHANGED <<inbox, fd_table>>,
         NEW c \in Conns, c = fd_table[cur]
  PROVE  /\ Dropped(Unread(c), Unread(c)') /\ KeepsBut(c)
         /\ Unread(c)[2].nl /\ Unread(c)[2] \in Chunk
         /\ Unread(c)[2].line = NextLine(client_buffers[cur])
         /\ Unread(c)[2].line.kind \in kinds
  <1>t. TypeOK /\ TablesAgree /\ TypeOK' /\ TablesAgree' /\ EventsKnown
    BY DEF Inv, Books
  <1>1. cur \in OpenFds /\ cur \in DOMAIN client_buffers /\ HasLine(client_buffers[cur])
        /\ client_buffers[cur] \in Seq(Chunk) /\ inbox[c] \in Seq(Chunk)
    BY <1>t DEF TakeLine, EventsKnown, TablesAgree, TypeOK
  <1>2. cur \in OpenFds' /\ fd_table'[cur] = c
    BY <1>1 DEF OpenFds
  <1>3. Unread(c) = client_buffers[cur] \o inbox[c]
    BY <1>t, <1>1, UnreadOpen
  <1>4. Unread(c)' = client_buffers'[cur] \o inbox'[c]
    BY <1>t, <1>2, UnreadOpenNext
  <1>5. client_buffers'[cur] = RestOf(client_buffers[cur])
        /\ \A fd \in DOMAIN client_buffers \ {cur} : client_buffers'[fd] = client_buffers[fd]
    BY <1>t, <1>1 DEF TakeLine, TypeOK
  <1>6. Unread(c)' = RestOf(client_buffers[cur]) \o inbox[c]
    BY <1>4, <1>5
  <1>7. InOrder(c, client_buffers[cur] \o inbox[c])
    BY <1>3 DEF InputKept, KeptOf
  <1>8. /\ Dropped(Unread(c), Unread(c)')
        /\ Unread(c)[2].nl /\ Unread(c)[2] \in Chunk
        /\ Unread(c)[2].line = NextLine(client_buffers[cur])
    <2> DEFINE b == client_buffers[cur]
               more == inbox[c]
    <2>1. b \in Seq(Chunk) /\ more \in Seq(Chunk) /\ HasLine(b) /\ InOrder(c, b \o more)
      BY <1>1, <1>7
    <2>2. Unread(c) = b \o more /\ Unread(c)' = RestOf(b) \o more
      BY <1>3, <1>6
    <2> HIDE DEF b, more
    <2>3. /\ (b \o more)[2] = b[2] /\ b[2] \in Chunk /\ b[2].nl /\ NextLine(b) = b[2].line
          /\ Dropped(b \o more, RestOf(b) \o more)
      BY <2>1, OldestLine
    <2>4. Dropped(Unread(c), Unread(c)')
      BY <2>2, <2>3, Zenon
    <2>5. Unread(c)[2] = b[2]
      BY <2>2, <2>3, Zenon
    <2> QED BY <2>3, <2>4, <2>5 DEF b
  <1>9. KeepsBut(c)
    <2>1. ASSUME NEW d \in Conns \ {c} PROVE Unread(d)' = Unread(d)
      <3>1. \A fd \in Fds : fd_table[fd] = d => client_buffers'[fd] = client_buffers[fd]
        BY <1>t, <1>5, ServerAssumption DEF TablesAgree, OpenFds
      <3> QED BY <1>t, <3>1, UnreadElsewhere
    <2> QED BY <2>1 DEF KeepsBut
  <1> QED BY <1>8, <1>9 DEF TakeLine

\* A handler takes a line of the connection whose event it is about.
LEMMA HandleEffect ==
  ASSUME Inv, Inv', InputKept, Handle
  PROVE  \E c \in Conns :
           /\ c = fd_table[cur] /\ cur \in OpenFds
           /\ Dropped(Unread(c), Unread(c)') /\ KeepsBut(c)
           /\ Unread(c)[2].nl /\ Unread(c)[2] \in Chunk
           /\ Unread(c)[2].line = NextLine(client_buffers[cur])
           /\ UNCHANGED <<clientVars, backlog, fd_table, inbox, still_connected, cur>>
  <1>1. PICK kinds : TakeLine(kinds)
    BY DEF Handle, HandleHelloLine, HandleInvalidLine, HandleStatusLine
  <1>2. UNCHANGED <<clientVars, backlog, fd_table, inbox, still_connected, cur>>
    BY DEF Handle, HandleHelloLine, HandleInvalidLine, HandleStatusLine, kernelVars
  <1>3. cur \in OpenFds
    BY <1>1 DEF TakeLine, Inv, Books, EventsKnown, TablesAgree
  <1>4. PICK c \in Conns : c = fd_table[cur]
    BY <1>3 DEF OpenFds, Inv, Books, TypeOK
  <1> QED BY <1>1, <1>2, <1>3, <1>4, TakeEffect

\* A connection is let go when nothing of it is left but half a line.
LEMMA EndEffect ==
  ASSUME Inv, Inv', EndIsLast, LinesDone
  PROVE  \/ Keeps /\ UNCHANGED <<kernelVars, tableVars, resultVars>> /\ still_connected
         \/ \E c \in Conns :
              /\ c = fd_table[cur] /\ cur \in OpenFds /\ peer[c] # "open"
              /\ peer' = [peer EXCEPT ![c] = "closed"] /\ UNCHANGED <<inbox, outbox, backlog>>
              /\ inbox[c] = <<>> /\ ~HasLine(client_buffers[cur])
              /\ Unread(c) = client_buffers[cur]
              /\ Unread(c)' = <<>> /\ KeepsBut(c)
              /\ OpenFds' = OpenFds \ {cur} /\ Accepted' = Accepted \ {c}
              /\ Disconnect(cur)
  <1>t. TypeOK /\ TablesAgree /\ TypeOK' /\ TablesAgree' /\ EventsKnown
    BY DEF Inv, Books
  <1>1. CASE still_connected /\ UNCHANGED <<tableVars, counters, epoll, fd_table, peer>>
    <2>1. UNCHANGED <<kernelVars, tableVars, resultVars>>
      BY <1>1 DEF LinesDone, kernelVars
    <2>2. Keeps
      BY <2>1 DEF kernelVars, Keeps, Unread, FdOf, Accepted, OpenFds
    <2> QED BY <1>1, <2>1, <2>2
  <1>2. CASE ~still_connected /\ Disconnect(cur)
    <2>1. cur \in OpenFds /\ cur \in DOMAIN client_buffers /\ cur \in Fds
      BY <1>t DEF LinesDone, EventsKnown, TablesAgree, OpenFds
    <2>2. PICK c \in Conns : c = fd_table[cur]
      BY <1>t, <2>1 DEF OpenFds, TypeOK
    <2>3. peer[c] # "open" /\ inbox[c] = <<>> /\ ~HasLine(client_buffers[cur])
          /\ UNCHANGED <<inbox, outbox, backlog>>
      BY <1>2, <2>2 DEF EndIsLast, Serving, LinesDone
    <2>4. /\ peer' = [peer EXCEPT ![c] = "closed"]
          /\ fd_table' = [fd_table EXCEPT ![cur] = NoConn]
          /\ \A fd \in DOMAIN client_buffers \ {cur} : client_buffers'[fd] = client_buffers[fd]
      BY <1>2, <2>2 DEF Disconnect, RemoveEpollFd
    <2>5. \A fd \in Fds : fd_table[fd] = c => fd = cur
      BY <1>t, <2>1, <2>2, ServerAssumption DEF TablesAgree, OpenFds
    <2>6. \A fd \in Fds : fd_table'[fd] = IF fd = cur THEN NoConn ELSE fd_table[fd]
      BY <1>t, <2>1, <2>4 DEF TypeOK
    <2>7. OpenFds' = OpenFds \ {cur}
      BY <2>6 DEF OpenFds
    <2>8. Accepted' = Accepted \ {c}
      BY <2>1, <2>2, <2>5, <2>6, <2>7 DEF Accepted, OpenFds
    <2>9. Unread(c)' = <<>>
      BY <2>3, <2>8 DEF Unread
    <2>10. Unread(c) = client_buffers[cur]
      <3>1. Unread(c) = client_buffers[cur] \o <<>> /\ client_buffers[cur] \in Seq(Chunk)
        BY <1>t, <2>1, <2>2, <2>3, UnreadOpen DEF TypeOK
      <3> QED BY <3>1, ConcatEmptySeq, Zenon
    <2>11. KeepsBut(c)
      <3>1. ASSUME NEW d \in Conns \ {c} PROVE Unread(d)' = Unread(d)
        <4>1. \A fd \in Fds : fd_table'[fd] = d <=> fd_table[fd] = d
          BY <2>2, <2>6, ServerAssumption
        <4>2. \A fd \in Fds : fd_table[fd] = d => client_buffers'[fd] = client_buffers[fd]
          BY <1>t, <2>2, <2>4, ServerAssumption DEF TablesAgree, OpenFds
        <4> QED BY <1>t, <2>3, <4>1, <4>2, UnreadElsewhere
      <3> QED BY <3>1 DEF KeepsBut
    <2> QED BY <1>2, <2>1, <2>2, <2>3, <2>4, <2>7, <2>8, <2>9, <2>10, <2>11
  <1> QED BY <1>1, <1>2 DEF LinesDone

-----------------------------------------------------------------------------
(* Sequences of lines in order.                                            *)

\* A byte is put behind others.
LEMMA Appending ==
  ASSUME NEW q \in Seq(Chunk), NEW x \in Chunk
  PROVE  /\ Append(q, x) \in Seq(Chunk) /\ Len(Append(q, x)) = Len(q) + 1
         /\ Len(q) \in Nat /\ DOMAIN q = 1 .. Len(q) /\ DOMAIN Append(q, x) = 1 .. Len(q) + 1
         /\ \A i \in 1 .. Len(q) : Append(q, x)[i] = q[i]
         /\ Append(q, x)[Len(q) + 1] = x
  BY AppendProperties, LenProperties

\* A half of a new line behind whole ones.
LEMMA OrderHalf ==
  ASSUME NEW c, NEW q \in Seq(Chunk), InOrder(c, q), q = <<>> \/ q[Len(q)].nl,
         NEW x \in Chunk, x.line.src = c, ~x.nl,
         \A i \in DOMAIN q : q[i].nl => q[i].line.seq < x.line.seq
  PROVE  InOrder(c, Append(q, x))
  <1>1. PICK n \in Nat : n = Len(q)
    BY LenProperties
  <1>2. PICK r : r = Append(q, x)
    OBVIOUS
  <1>3. /\ Len(r) = n + 1 /\ DOMAIN q = 1 .. n /\ DOMAIN r = 1 .. n + 1
        /\ \A i \in 1 .. n : r[i] = q[i]
        /\ r[n + 1] = x
    BY <1>1, <1>2, Appending
  <1>4. q = <<>> <=> n = 0
    BY <1>1, EmptySeq
  <1>5. /\ \A i \in 1 .. n : q[i].line.src = c
        /\ n # 0 => ~q[1].nl
        /\ \A i \in 2 .. n : IF q[i].nl THEN ~q[i - 1].nl /\ q[i].line = q[i - 1].line
                                        ELSE q[i - 1].nl
        /\ \A i, j \in 1 .. n : i < j /\ q[i].nl => q[i].line.seq < q[j].line.seq
    BY <1>1, <1>3, <1>4 DEF InOrder
  <1>6. \A i \in 1 .. n + 1 : r[i].line.src = c
    BY <1>3, <1>5
  <1>7. ~r[1].nl
    BY <1>3, <1>5
  <1>8. ASSUME NEW i \in 2 .. n + 1
        PROVE  IF r[i].nl THEN ~r[i - 1].nl /\ r[i].line = r[i - 1].line ELSE r[i - 1].nl
    <2>1. CASE i =< n
      <3>1. i \in 2 .. n /\ i \in 1 .. n /\ i - 1 \in 1 .. n
        BY <2>1
      <3> QED BY <1>3, <1>5, <3>1
    <2>2. CASE i = n + 1
      <3>1. i - 1 = n /\ n \in 1 .. n /\ n # 0
        BY <2>2
      <3>2. r[i] = x /\ r[i - 1] = q[n] /\ q[n].nl
        BY <1>1, <1>3, <1>4, <2>2, <3>1
      <3> QED BY <3>2
    <2> QED BY <2>1, <2>2
  <1>9. ASSUME NEW i \in 1 .. n + 1, NEW j \in 1 .. n + 1, i < j, r[i].nl
        PROVE  r[i].line.seq < r[j].line.seq
    <2>1. i \in 1 .. n /\ r[i] = q[i]
      BY <1>3, <1>9
    <2>2. CASE j \in 1 .. n
      BY <1>3, <1>5, <1>9, <2>1, <2>2
    <2>3. CASE j = n + 1
      BY <1>3, <1>9, <2>1, <2>3
    <2> QED BY <2>2, <2>3
  <1> QED BY <1>1, <1>2, <1>3, <1>6, <1>7, <1>8, <1>9 DEF InOrder

\* The other half behind it.
LEMMA OrderRest ==
  ASSUME NEW c, NEW q \in Seq(Chunk), InOrder(c, q), q # <<>>, ~q[Len(q)].nl,
         NEW x \in Chunk, x.line = q[Len(q)].line, x.nl,
         \A i \in DOMAIN q : q[i].nl => q[i].line.seq < x.line.seq
  PROVE  InOrder(c, Append(q, x))
  <1>1. PICK n \in Nat : n = Len(q)
    BY LenProperties
  <1>2. PICK r : r = Append(q, x)
    OBVIOUS
  <1>3. /\ Len(r) = n + 1 /\ DOMAIN q = 1 .. n /\ DOMAIN r = 1 .. n + 1
        /\ \A i \in 1 .. n : r[i] = q[i]
        /\ r[n + 1] = x
    BY <1>1, <1>2, Appending
  <1>4. n # 0 /\ n \in 1 .. n
    BY <1>1, EmptySeq
  <1>5. /\ \A i \in 1 .. n : q[i].line.src = c
        /\ ~q[1].nl
        /\ \A i \in 2 .. n : IF q[i].nl THEN ~q[i - 1].nl /\ q[i].line = q[i - 1].line
                                        ELSE q[i - 1].nl
        /\ \A i, j \in 1 .. n : i < j /\ q[i].nl => q[i].line.seq < q[j].line.seq
    BY <1>1, <1>3 DEF InOrder
  <1>6. \A i \in 1 .. n + 1 : r[i].line.src = c
    BY <1>1, <1>3, <1>4, <1>5
  <1>7. ~r[1].nl
    BY <1>3, <1>4, <1>5
  <1>8. ASSUME NEW i \in 2 .. n + 1
        PROVE  IF r[i].nl THEN ~r[i - 1].nl /\ r[i].line = r[i - 1].line ELSE r[i - 1].nl
    <2>1. CASE i =< n
      <3>1. i \in 2 .. n /\ i \in 1 .. n /\ i - 1 \in 1 .. n
        BY <2>1
      <3> QED BY <1>3, <1>5, <3>1
    <2>2. CASE i = n + 1
      <3>1. i - 1 = n
        BY <2>2
      <3>2. r[i] = x /\ r[i - 1] = q[n]
        BY <1>3, <1>4, <2>2, <3>1
      <3> QED BY <1>1, <3>2
    <2> QED BY <2>1, <2>2
  <1>9. ASSUME NEW i \in 1 .. n + 1, NEW j \in 1 .. n + 1, i < j, r[i].nl
        PROVE  r[i].line.seq < r[j].line.seq
    <2>1. i \in 1 .. n /\ r[i] = q[i]
      BY <1>3, <1>9
    <2>2. CASE j \in 1 .. n
      BY <1>3, <1>5, <1>9, <2>1, <2>2
    <2>3. CASE j = n + 1
      BY <1>3, <1>9, <2>1, <2>3
    <2> QED BY <2>2, <2>3
  <1> QED BY <1>1, <1>2, <1>3, <1>6, <1>7, <1>8, <1>9 DEF InOrder

\* What is left behind the first line.
LEMMA OrderDrop ==
  ASSUME NEW c, NEW q \in Seq(Chunk), NEW r \in Seq(Chunk), InOrder(c, q),
         Dropped(q, r), q[2].nl
  PROVE  /\ InOrder(c, r)
         /\ 2 \in DOMAIN q /\ Len(q) \in Nat
         /\ DOMAIN r = 1 .. Len(q) - 2 /\ DOMAIN q = 1 .. Len(q)
         /\ \A i \in DOMAIN r : i + 2 \in DOMAIN q /\ r[i] = q[i + 2] /\ i \in Nat
         /\ \A i \in DOMAIN r : q[2].line.seq < r[i].line.seq
         /\ q[2].line.src = c
         /\ r # <<>> => Len(q) > 2 /\ r[Len(r)] = q[Len(q)]
         /\ r = <<>> => Len(q) = 2
  <1>1. PICK n \in Nat : n = Len(q)
    BY LenProperties
  <1>2. PICK m \in Nat : m = Len(r)
    BY LenProperties
  <1>3. /\ n = m + 2 /\ DOMAIN q = 1 .. n /\ DOMAIN r = 1 .. m
        /\ \A i \in 1 .. m : r[i] = q[i + 2]
    BY <1>1, <1>2, LenProperties DEF Dropped
  <1>4. /\ \A i \in 1 .. n : q[i].line.src = c
        /\ \A i \in 2 .. n : IF q[i].nl THEN ~q[i - 1].nl /\ q[i].line = q[i - 1].line
                                        ELSE q[i - 1].nl
        /\ \A i, j \in 1 .. n : i < j /\ q[i].nl => q[i].line.seq < q[j].line.seq
    BY <1>1, <1>3 DEF InOrder
  <1>5. r = <<>> <=> m = 0
    BY <1>2, EmptySeq
  <1>6. \A i \in 1 .. m : i + 2 \in 1 .. n /\ i \in Nat
    BY <1>3
  <1>7. \A i \in 1 .. m : r[i].line.src = c
    BY <1>3, <1>4, <1>6
  <1>8. m # 0 => ~r[1].nl
    <2> SUFFICES ASSUME m # 0 PROVE ~r[1].nl
      OBVIOUS
    <2>1. 1 \in 1 .. m /\ 3 \in 2 .. n /\ 3 - 1 = 2
      BY <1>3
    <2>2. r[1] = q[3]
      BY <1>3, <2>1
    <2> QED BY <1>4, <2>1, <2>2
  <1>9. ASSUME NEW i \in 2 .. m
        PROVE  IF r[i].nl THEN ~r[i - 1].nl /\ r[i].line = r[i - 1].line ELSE r[i - 1].nl
    <2>1. i + 2 \in 2 .. n /\ i \in 1 .. m /\ i - 1 \in 1 .. m /\ (i + 2) - 1 = (i - 1) + 2
      BY <1>3
    <2>2. r[i] = q[i + 2] /\ r[i - 1] = q[(i + 2) - 1]
      BY <1>3, <2>1
    <2> QED BY <1>4, <2>1, <2>2
  <1>10. ASSUME NEW i \in 1 .. m, NEW j \in 1 .. m, i < j, r[i].nl
         PROVE  r[i].line.seq < r[j].line.seq
    <2>1. i + 2 \in 1 .. n /\ j + 2 \in 1 .. n /\ i + 2 < j + 2
      BY <1>3, <1>10
    <2>2. r[i] = q[i + 2] /\ r[j] = q[j + 2]
      BY <1>3
    <2> QED BY <1>4, <1>10, <2>1, <2>2
  <1>11. \A i \in 1 .. m : q[2].line.seq < r[i].line.seq
    <2> TAKE i \in 1 .. m
    <2>1. 2 \in 1 .. n /\ i + 2 \in 1 .. n /\ 2 < i + 2
      BY <1>3
    <2> QED BY <1>3, <1>4, <2>1
  <1>12. 2 \in 1 .. n /\ q[2].line.src = c
    <2>1. 2 \in 1 .. n
      BY <1>3
    <2> QED BY <1>4, <2>1
  <1>13. m # 0 => n > 2 /\ r[m] = q[n]
    BY <1>3
  <1>14. m = n - 2
    BY <1>3
  <1>15. InOrder(c, r)
    BY <1>2, <1>3, <1>5, <1>7, <1>8, <1>9, <1>10 DEF InOrder
  <1> QED BY <1>1, <1>2, <1>3, <1>5, <1>6, <1>11, <1>12, <1>13, <1>14, <1>15

-----------------------------------------------------------------------------
(* The steps keep the lines of every connection in order.                  *)

\* A connection is never opened again.
LEMMA PeerBack ==
  ASSUME TypeOK, [Next]_vars, NEW c \in Conns
  PROVE  /\ peer'[c] = "open" => peer[c] \in {"idle", "open"}
         /\ peer'[c] = "idle" => peer[c] = "idle"
  <1>1. CASE UNCHANGED peer
    BY <1>1
  <1>2. CASE \E out : Transmit(out)
    BY <1>2 DEF Transmit
  <1>3. CASE \E d \in Conns : MovesBytes(d)
    BY <1>3 DEF MovesBytes, Connect, ReadChunk, CloseClient, TypeOK
  <1>4. CASE \E fd : RemoveEpollFd(fd)
    BY <1>4 DEF RemoveEpollFd, TypeOK
  <1>5. UNCHANGED peer \/ (\E out : Transmit(out)) \/ (\E d \in Conns : MovesBytes(d))
        \/ \E fd : RemoveEpollFd(fd)
    BY StepKinds DEF WriteHalf, WriteRest, AcceptOne, ClientEvent, Handle, HandleHelloLine,
       HandleInvalidLine, HandleStatusLine, LinesDone, Disconnect, PrintMetricsIfDue, Idle,
       kernelVars
  <1> QED BY <1>1, <1>2, <1>3, <1>4, <1>5

\* Nothing of a connection changes that its lines depend on.
LEMMA KeptSame ==
  ASSUME NEW c \in Conns, KeptOf(c), Unread(c)' = Unread(c), written'[c] = written[c],
         unfinished'[c] = unfinished[c],
         peer'[c] \in {"idle", "open"} => peer[c] \in {"idle", "open"}
  PROVE  KeptOf(c)'
  <1>1. PICK q : q = Unread(c)
    OBVIOUS
  <1>2. q = Unread(c)'
    BY <1>1
  <1>3. InOrder(c, q) /\ Spoken(c, q) /\ (peer[c] \in {"idle", "open"} => EndsAsSaid(c, q))
    BY <1>1 DEF KeptOf
  <1>4. Spoken(c, q)'
    BY <1>3 DEF Spoken
  <1>5. peer'[c] \in {"idle", "open"} => EndsAsSaid(c, q)'
    BY <1>3 DEF EndsAsSaid, HalfSaid
  <1>6. Spoken(c, Unread(c))'
    BY <1>2, <1>4 DEF Spoken
  <1>7. peer'[c] \in {"idle", "open"} => EndsAsSaid(c, Unread(c))'
    BY <1>2, <1>5 DEF EndsAsSaid, HalfSaid
  <1> QED BY <1>2, <1>3, <1>6, <1>7 DEF KeptOf

\* Lines stay in order while they are written.
LEMMA KeptByHalf ==
  ASSUME Inv, Inv', NEW c \in Conns, KeptOf(c),
         NEW kind \in ClientKinds, WriteHalf(c, kind)
  PROVE  KeptOf(c)'
  <1> DEFINE line == [kind |-> kind, src |-> c, seq |-> Len(written[c]) + 1]
  <1>1. PICK q : q = Unread(c)
    OBVIOUS
  <1>2. PICK x : x = [line |-> line, nl |-> FALSE]
    OBVIOUS
  <1>3. line \in Line /\ Unread(c)' = Append(q, x)
    BY <1>1, <1>2, HalfEffect
  <1>4. /\ q \in Seq(Chunk) /\ DOMAIN q = 1 .. Len(q) /\ Len(q) \in Nat
        /\ written[c] \in Seq(ClientKinds)
    BY <1>1, UnreadType DEF Inv, Books, TypeOK
  <1>5. /\ peer[c] = "open" /\ unfinished[c] = "none"
        /\ UNCHANGED <<written, peer>> /\ unfinished'[c] = kind
    BY DEF WriteHalf, Inv, Books, TypeOK
  <1>6. InOrder(c, q) /\ Spoken(c, q) /\ EndsAsSaid(c, q)
    BY <1>1, <1>5 DEF KeptOf
  <1>7. x.line.src = c /\ x.line.seq = Len(written[c]) + 1 /\ ~x.nl
    BY <1>2
  <1>8. x \in Chunk
    BY <1>2, <1>3 DEF Chunk
  <1>9. \A i \in DOMAIN q : q[i].nl => q[i].line.seq < x.line.seq
    <2>1. Len(written[c]) \in Nat /\ DOMAIN written[c] = 1 .. Len(written[c])
      BY <1>4, LenProperties
    <2> QED BY <1>6, <1>7, <2>1 DEF Spoken
  <1>10. InOrder(c, Append(q, x))
    BY <1>4, <1>5, <1>6, <1>7, <1>8, <1>9, OrderHalf DEF EndsAsSaid
  <1>11. PICK r : r = Append(q, x)
    OBVIOUS
  <1>12. /\ DOMAIN r = 1 .. Len(q) + 1 /\ Len(r) = Len(q) + 1
         /\ \A i \in 1 .. Len(q) : r[i] = q[i]
         /\ r[Len(q) + 1] = x
    BY <1>4, <1>8, <1>11, Appending
  <1>13. \A i \in DOMAIN r : r[i].nl => i \in DOMAIN q /\ r[i] = q[i]
    BY <1>4, <1>7, <1>12
  <1>14. Spoken(c, r)'
    BY <1>5, <1>6, <1>13 DEF Spoken
  <1>15. r # <<>> /\ r[Len(r)] = x
    BY <1>4, <1>12
  <1>16. HalfSaid(c)' = line /\ kind # "none"
    BY <1>5 DEF HalfSaid, ClientKinds
  <1> HIDE DEF line
  <1>17. EndsAsSaid(c, r)'
    BY <1>2, <1>5, <1>15, <1>16 DEF EndsAsSaid
  <1>18. Unread(c)' = r
    BY <1>3, <1>11
  <1>19. Spoken(c, Unread(c))' /\ EndsAsSaid(c, Unread(c))'
    BY <1>14, <1>17, <1>18 DEF Spoken, EndsAsSaid
  <1> QED BY <1>10, <1>11, <1>18, <1>19 DEF KeptOf

\* And when one is complete.
LEMMA KeptByRest ==
  ASSUME Inv, Inv', NEW c \in Conns, KeptOf(c), WriteRest(c)
  PROVE  KeptOf(c)'
  <1>1. PICK q : q = Unread(c)
    OBVIOUS
  <1>2. PICK line : line = HalfSaid(c)
    OBVIOUS
  <1>3. PICK x : x = [line |-> line, nl |-> TRUE]
    OBVIOUS
  <1>4. line \in Line /\ Unread(c)' = Append(q, x)
    BY <1>1, <1>2, <1>3, RestEffect
  <1>5. /\ q \in Seq(Chunk) /\ DOMAIN q = 1 .. Len(q) /\ Len(q) \in Nat
        /\ written[c] \in Seq(ClientKinds) /\ unfinished[c] \in ClientKinds
    BY <1>1, UnreadType DEF Inv, Books, TypeOK, WriteRest
  <1>6. /\ peer[c] = "open" /\ unfinished[c] # "none"
        /\ written'[c] = Append(written[c], unfinished[c]) /\ unfinished'[c] = "none"
    BY DEF WriteRest, Inv, Books, TypeOK
  <1>7. InOrder(c, q) /\ Spoken(c, q) /\ EndsAsSaid(c, q)
    BY <1>1, <1>6 DEF KeptOf
  <1>8. q # <<>> /\ q[Len(q)] = [line |-> line, nl |-> FALSE]
    BY <1>2, <1>6, <1>7 DEF EndsAsSaid
  <1>9. x.line = line /\ x.nl /\ x \in Chunk
    BY <1>3, <1>4 DEF Chunk
  <1>10. line.kind = unfinished[c] /\ line.seq = Len(written[c]) + 1
    BY <1>2 DEF HalfSaid
  <1>11. /\ Len(written[c]) \in Nat /\ DOMAIN written[c] = 1 .. Len(written[c])
         /\ DOMAIN written'[c] = 1 .. Len(written[c]) + 1
         /\ \A i \in 1 .. Len(written[c]) : written'[c][i] = written[c][i]
         /\ written'[c][Len(written[c]) + 1] = unfinished[c]
    BY <1>5, <1>6, AppendProperties, LenProperties
  <1>12. \A i \in DOMAIN q : q[i].nl => q[i].line.seq < x.line.seq
    BY <1>7, <1>9, <1>10, <1>11 DEF Spoken
  <1>13. InOrder(c, Append(q, x))
    <2>1. ~q[Len(q)].nl /\ x.line = q[Len(q)].line
      BY <1>8, <1>9
    <2> QED BY <1>5, <1>7, <1>8, <1>9, <1>12, <2>1, OrderRest
  <1>14. PICK r : r = Append(q, x)
    OBVIOUS
  <1>15. /\ DOMAIN r = 1 .. Len(q) + 1 /\ Len(r) = Len(q) + 1
         /\ \A i \in 1 .. Len(q) : r[i] = q[i]
         /\ r[Len(q) + 1] = x
    BY <1>5, <1>9, <1>14, Appending
  <1>16. ASSUME NEW i \in DOMAIN r, r[i].nl
         PROVE  r[i].line.seq \in DOMAIN written'[c] /\ r[i].line.kind = written'[c][r[i].line.seq]
    <2>1. CASE i \in 1 .. Len(q)
      <3>1. r[i] = q[i] /\ i \in DOMAIN q
        BY <1>5, <1>15, <2>1
      <3>2. q[i].line.seq \in DOMAIN written[c] /\ q[i].line.kind = written[c][q[i].line.seq]
        BY <1>7, <1>16, <3>1 DEF Spoken
      <3> QED BY <1>11, <3>1, <3>2
    <2>2. CASE i = Len(q) + 1
      BY <1>9, <1>10, <1>11, <1>15, <2>2
    <2> QED BY <1>15, <2>1, <2>2, <1>5
  <1>17. r # <<>> /\ r[Len(r)].nl
    BY <1>5, <1>9, <1>15
  <1>18. Unread(c)' = r
    BY <1>4, <1>14
  <1>19. Spoken(c, Unread(c))'
    BY <1>16, <1>18 DEF Spoken
  <1>20. EndsAsSaid(c, Unread(c))'
    BY <1>6, <1>17, <1>18 DEF EndsAsSaid
  <1> QED BY <1>13, <1>14, <1>18, <1>19, <1>20 DEF KeptOf

\* And when the oldest is taken.
LEMMA KeptByTake ==
  ASSUME Inv, Inv', NEW c \in Conns, KeptOf(c), UNCHANGED <<written, unfinished>>,
         Dropped(Unread(c), Unread(c)'), Unread(c)[2].nl,
         peer'[c] \in {"idle", "open"} => peer[c] \in {"idle", "open"}
  PROVE  KeptOf(c)'
  <1>1. PICK q : q = Unread(c)
    OBVIOUS
  <1>2. PICK r : r = Unread(c)'
    OBVIOUS
  <1>3. q \in Seq(Chunk) /\ r \in Seq(Chunk)
    BY <1>1, <1>2, UnreadType, UnreadTypeNext DEF Inv, Books
  <1>4. InOrder(c, q) /\ Spoken(c, q) /\ (peer[c] \in {"idle", "open"} => EndsAsSaid(c, q))
    BY <1>1 DEF KeptOf
  <1>5. Dropped(q, r) /\ q[2].nl
    BY <1>1, <1>2
  <1>6. /\ InOrder(c, r) /\ 2 \in DOMAIN q
        /\ \A i \in DOMAIN r : i + 2 \in DOMAIN q /\ r[i] = q[i + 2]
        /\ r # <<>> => r[Len(r)] = q[Len(q)]
        /\ r = <<>> => Len(q) = 2
    BY <1>3, <1>4, <1>5, OrderDrop
  <1>7. Spoken(c, r)'
    BY <1>4, <1>6 DEF Spoken
  <1>8. ASSUME EndsAsSaid(c, q)
        PROVE  EndsAsSaid(c, r)'
    <2>1. UNCHANGED HalfSaid(c)
      BY DEF HalfSaid
    <2>2. CASE unfinished[c] = "none"
      BY <1>6, <1>8, <2>2 DEF EndsAsSaid
    <2>3. CASE unfinished[c] # "none"
      <3>1. q[Len(q)] = [line |-> HalfSaid(c), nl |-> FALSE]
        BY <1>8, <2>3 DEF EndsAsSaid
      <3>2. ~q[Len(q)].nl
        BY <3>1
      <3>3. r # <<>>
        BY <1>5, <1>6, <3>2
      <3> QED BY <1>6, <2>1, <2>3, <3>1, <3>3 DEF EndsAsSaid
    <2> QED BY <2>2, <2>3
  <1>9. Spoken(c, Unread(c))' /\ (peer'[c] \in {"idle", "open"} => EndsAsSaid(c, Unread(c))')
    BY <1>2, <1>4, <1>7, <1>8 DEF Spoken, EndsAsSaid
  <1> QED BY <1>2, <1>6, <1>9 DEF KeptOf

\* Every step keeps all lines in order.
LEMMA InputStep ==
  ASSUME Inv, Inv', InputKept, EndIsLast, [Next]_vars
  PROVE  InputKept'
  <1> SUFFICES ASSUME NEW c \in Conns PROVE KeptOf(c)'
    BY DEF InputKept
  <1>t. TypeOK /\ KeptOf(c)
    BY DEF Inv, Books, InputKept
  <1>p. peer'[c] \in {"idle", "open"} => peer[c] \in {"idle", "open"}
    BY <1>t, PeerBack
  <1>s. ASSUME Unread(c)' = Unread(c), written'[c] = written[c], unfinished'[c] = unfinished[c]
        PROVE  KeptOf(c)'
    BY <1>t, <1>p, <1>s, KeptSame
  <1>1. ASSUME NEW d \in Conns, NEW kind \in ClientKinds, WriteHalf(d, kind)
        PROVE  KeptOf(c)'
    <2>1. CASE c = d
      BY <1>t, <1>1, <2>1, KeptByHalf
    <2>2. CASE c # d
      <3>1. Unread(c)' = Unread(c)
        BY <1>1, <2>2, HalfEffect DEF KeepsBut
      <3>2. written'[c] = written[c] /\ unfinished'[c] = unfinished[c]
        BY <1>1, <1>t, <2>2 DEF WriteHalf, TypeOK
      <3> QED BY <1>s, <3>1, <3>2
    <2> QED BY <2>1, <2>2
  <1>2. ASSUME NEW d \in Conns, WriteRest(d)
        PROVE  KeptOf(c)'
    <2>1. CASE c = d
      BY <1>t, <1>2, <2>1, KeptByRest
    <2>2. CASE c # d
      <3>1. Unread(c)' = Unread(c)
        BY <1>2, <2>2, RestEffect DEF KeepsBut
      <3>2. written'[c] = written[c] /\ unfinished'[c] = unfinished[c]
        BY <1>2, <1>t, <2>2 DEF WriteRest, TypeOK
      <3> QED BY <1>s, <3>1, <3>2
    <2> QED BY <2>1, <2>2
  <1>3. CASE (\E d \in Conns : MovesBytes(d)) \/ AcceptOne \/ ClientEvent \/ PrintMetricsIfDue \/ Idle
    <2>1. Unread(c)' = Unread(c)
      BY <1>3, KeepsBytes DEF Keeps
    <2>2. UNCHANGED <<written, unfinished>>
      BY <1>3 DEF MovesBytes, Connect, ReadChunk, CloseClient, AcceptOne, ClientEvent,
                  PrintMetricsIfDue, Idle, clientVars
    <2> QED BY <1>s, <2>1, <2>2
  <1>4. CASE Handle
    <2>1. PICK d \in Conns :
            /\ Dropped(Unread(d), Unread(d)') /\ KeepsBut(d) /\ Unread(d)[2].nl
            /\ UNCHANGED clientVars
      BY <1>4, HandleEffect
    <2>2. UNCHANGED <<written, unfinished>>
      BY <2>1 DEF clientVars
    <2>3. CASE c = d
      BY <1>t, <1>p, <2>1, <2>2, <2>3, KeptByTake
    <2>4. CASE c # d
      BY <1>s, <2>1, <2>2, <2>4 DEF KeepsBut
    <2> QED BY <2>3, <2>4
  <1>5. CASE LinesDone
    <2>1. UNCHANGED <<written, unfinished>>
      BY <1>5 DEF LinesDone, clientVars
    <2>2. CASE Keeps
      BY <1>s, <2>1, <2>2 DEF Keeps
    <2>3. ASSUME NEW d \in Conns, peer' = [peer EXCEPT ![d] = "closed"],
                 Unread(d)' = <<>>, KeepsBut(d)
          PROVE  KeptOf(c)'
      <3>1. CASE c = d
        <4>1. peer'[c] = "closed"
          BY <1>t, <2>3, <3>1 DEF TypeOK
        <4>2. InOrder(c, Unread(c))' /\ Spoken(c, Unread(c))'
          BY <2>3, <3>1 DEF InOrder, Spoken
        <4> QED BY <4>1, <4>2 DEF KeptOf
      <3>2. CASE c # d
        BY <1>s, <2>1, <2>3, <3>2 DEF KeepsBut
      <3> QED BY <3>1, <3>2
    <2> QED BY <1>5, <2>2, <2>3, EndEffect
  <1> QED BY <1>1, <1>2, <1>3, <1>4, <1>5, StepKinds

-----------------------------------------------------------------------------
(* The connections, and the end of their streams.                          *)

\* The connections that something is sent to are served.
LEMMA SentToAccepted ==
  ASSUME Inv, NEW fd
  PROVE  Audience(fd) \subseteq Accepted
  BY DEF Inv, Books, TablesAgree, Audience, Accepted

\* Every step that sends, sends to connections that are served.
LEMMA Sending ==
  ASSUME Inv, HandleStatusLine \/ PrintMetricsIfDue
  PROVE  \/ UNCHANGED <<peer, outbox>>
         \/ \E out : Transmit(out) /\ DOMAIN out \subseteq Accepted
  <1>1. CASE HandleStatusLine
    <2> DEFINE line == NextLine(client_buffers[cur])
               acked == IF line.kind = "STATUS_ACK" THEN {fd_table[cur]} ELSE {}
               out == [c \in acked \cup Audience(cur) |->
                         IF c \in acked THEN AckFor(line) ELSE line]
    <2>1. Transmit(out)
      BY <1>1 DEF HandleStatusLine
    <2>2. fd_table[cur] \in Accepted
      BY <1>1 DEF HandleStatusLine, TakeLine, Inv, Books, EventsKnown, TablesAgree, Accepted
    <2>3. DOMAIN out \subseteq Accepted
      BY <2>2, SentToAccepted
    <2> HIDE DEF out
    <2> QED BY <2>1, <2>3
  <1>2. CASE PrintMetricsIfDue
    <2> DEFINE out == [c \in Audience(ListenFd) |-> MetricsLine]
    <2>1. UNCHANGED <<peer, outbox>> \/ Transmit(out)
      BY <1>2 DEF PrintMetricsIfDue
    <2>2. DOMAIN out \subseteq Accepted
      BY SentToAccepted
    <2> HIDE DEF out
    <2> QED BY <2>1, <2>2
  <1> QED BY <1>1, <1>2

\* Every step keeps the kernel's places of a connection apart.
LEMMA PlacesStep ==
  ASSUME Inv, Inv', EndIsLast, PeersPlaced, [Next]_vars
  PROVE  PeersPlaced'
  <1> SUFFICES ASSUME NEW c \in Conns
               PROVE  peer'[c] \in {"idle", "closed"} <=> c \notin Accepted' \cup backlog'
    BY DEF PeersPlaced
  <1>t. /\ TypeOK /\ TypeOK' /\ TablesAgree /\ PeersKnown
        /\ peer[c] \in {"idle", "closed"} <=> c \notin Accepted \cup backlog
    BY DEF Inv, Books, PeersPlaced
  <1>s. ASSUME UNCHANGED <<fd_table, backlog>>, UNCHANGED peer
        PROVE  peer'[c] \in {"idle", "closed"} <=> c \notin Accepted' \cup backlog'
    BY <1>s, <1>t DEF Accepted, OpenFds
  <1>x. ASSUME UNCHANGED <<fd_table, backlog>>,
               NEW out, Transmit(out), DOMAIN out \subseteq Accepted
        PROVE  peer'[c] \in {"idle", "closed"} <=> c \notin Accepted' \cup backlog'
    <2>1. Accepted' = Accepted
      BY <1>x DEF Accepted, OpenFds
    <2>2. peer'[c] = IF c \in DOMAIN out /\ peer[c] # "open" THEN "dead" ELSE peer[c]
      BY <1>x DEF Transmit
    <2> QED BY <1>t, <1>x, <2>1, <2>2
  <1>1. ASSUME NEW d \in Conns, NEW kind \in ClientKinds, WriteHalf(d, kind)
        PROVE  peer'[c] \in {"idle", "closed"} <=> c \notin Accepted' \cup backlog'
    BY <1>1, <1>s DEF WriteHalf
  <1>2. ASSUME NEW d \in Conns, WriteRest(d)
        PROVE  peer'[c] \in {"idle", "closed"} <=> c \notin Accepted' \cup backlog'
    BY <1>2, <1>s DEF WriteRest
  <1>3. ASSUME NEW d \in Conns, MovesBytes(d)
        PROVE  peer'[c] \in {"idle", "closed"} <=> c \notin Accepted' \cup backlog'
    <2>1. UNCHANGED fd_table
      BY <1>3 DEF MovesBytes, Connect, ReadChunk, CloseClient
    <2>2. Accepted' = Accepted
      BY <2>1 DEF Accepted, OpenFds
    <2>3. CASE Connect(d)
      BY <1>t, <2>2, <2>3 DEF Connect, TypeOK
    <2>4. CASE ReadChunk(d)
      BY <1>s, <2>4 DEF ReadChunk
    <2>5. CASE CloseClient(d)
      BY <1>t, <2>2, <2>5 DEF CloseClient, TypeOK
    <2> QED BY <1>3, <2>3, <2>4, <2>5 DEF MovesBytes
  <1>4. CASE AcceptOne
    <2>1. PICK d \in backlog, fd \in FreeFds :
            backlog' = backlog \ {d} /\ fd_table' = [fd_table EXCEPT ![fd] = d]
      BY <1>4 DEF AcceptOne
    <2>2. UNCHANGED peer /\ d \in Conns /\ d # NoConn /\ fd \in Fds /\ fd_table[fd] = NoConn
      BY <1>4, <1>t, <2>1, ServerAssumption DEF AcceptOne, TypeOK, FreeFds
    <2>3. \A g \in Fds : fd_table'[g] = IF g = fd THEN d ELSE fd_table[g]
      BY <1>t, <2>1, <2>2 DEF TypeOK
    <2>4. OpenFds' = OpenFds \cup {fd} /\ fd \notin OpenFds
      BY <2>2, <2>3 DEF OpenFds
    <2>5. \A e : e \in Accepted' <=> e \in Accepted \/ e = d
      BY <2>2, <2>3, <2>4 DEF Accepted, OpenFds
    <2> QED BY <1>t, <2>1, <2>2, <2>5
  <1>5. CASE ClientEvent
    <2>1. UNCHANGED <<fd_table, peer, backlog>>
      <3>1. \A fd \in events \ {ListenFd} : pc = "events" => fd \in DOMAIN client_buffers
        BY DEF Inv, Books, EventsKnown
      <3> QED BY <1>5, <3>1 DEF ClientEvent
    <2> QED BY <1>s, <2>1
  <1>6. CASE Handle
    <2>1. UNCHANGED <<fd_table, backlog>>
      BY <1>6, HandleEffect DEF Handle, HandleHelloLine, HandleInvalidLine, HandleStatusLine, kernelVars
    <2>2. UNCHANGED peer \/ \E out : Transmit(out) /\ DOMAIN out \subseteq Accepted
      BY <1>6, Sending DEF Handle, HandleHelloLine, HandleInvalidLine, kernelVars
    <2> QED BY <1>s, <1>x, <2>1, <2>2
  <1>7. CASE LinesDone
    <2>1. CASE UNCHANGED kernelVars
      BY <1>s, <2>1 DEF kernelVars
    <2>2. ASSUME NEW d \in Conns, d = fd_table[cur], cur \in OpenFds,
                 peer' = [peer EXCEPT ![d] = "closed"], UNCHANGED backlog,
                 Accepted' = Accepted \ {d}
          PROVE  peer'[c] \in {"idle", "closed"} <=> c \notin Accepted' \cup backlog'
      <3>1. d \notin backlog
        BY <1>t, <2>2 DEF PeersKnown, OpenFds
      <3> QED BY <1>t, <2>2, <3>1 DEF TypeOK
    <2> QED BY <1>7, <2>1, <2>2, EndEffect
  <1>8. CASE PrintMetricsIfDue
    <2>1. UNCHANGED <<fd_table, backlog>>
      BY <1>8 DEF PrintMetricsIfDue
    <2>2. UNCHANGED peer \/ \E out : Transmit(out) /\ DOMAIN out \subseteq Accepted
      BY <1>8, Sending
    <2> QED BY <1>s, <1>x, <2>1, <2>2
  <1>9. CASE Idle
    BY <1>9, <1>s DEF Idle, kernelVars
  <1> QED BY <1>1, <1>2, <1>3, <1>4, <1>5, <1>6, <1>7, <1>8, <1>9, StepKinds

\* What recv() saw last of a connection that has ended stays the last.
LEMMA EndStep ==
  ASSUME Inv, Inv', InputKept, EndIsLast, [Next]_vars
  PROVE  EndIsLast'
  <1> SUFFICES ASSUME Serving', ~still_connected'
               PROVE  peer'[fd_table'[cur']] # "open" /\ inbox'[fd_table'[cur']] = <<>>
    BY DEF EndIsLast
  <1>t. TypeOK /\ TypeOK' /\ TablesAgree /\ PeersKnown /\ EventsKnown /\ EventsKnown' /\ TablesAgree'
    BY DEF Inv, Books
  <1>1. CASE ClientEvent
    <2>1. PICK fd \in events \ {ListenFd} :
            IF fd \in DOMAIN client_buffers
            THEN Receive(fd) /\ UNCHANGED <<epoll, fd_table, peer>>
            ELSE RemoveEpollFd(fd)
                 /\ UNCHANGED <<pc, client_buffers, inbox, still_connected, cur>>
      BY <1>1 DEF ClientEvent
    <2>2. fd \in DOMAIN client_buffers /\ fd \in OpenFds
      BY <1>1, <1>t, <2>1 DEF EventsKnown, TablesAgree, ClientEvent
    <2>3. fd_table[fd] \in Conns
      BY <1>t, <2>2 DEF OpenFds, TypeOK
    <2>4. /\ inbox' = [inbox EXCEPT ![fd_table[fd]] = <<>>]
          /\ still_connected' = (peer[fd_table[fd]] = "open") /\ cur' = fd
          /\ UNCHANGED <<fd_table, peer>>
      BY <2>1, <2>2 DEF Receive
    <2> QED BY <1>t, <2>3, <2>4 DEF TypeOK
  <1>2. CASE Serving /\ UNCHANGED <<still_connected, cur, fd_table>>
    <2>1. cur \in OpenFds /\ Serving /\ ~still_connected
      BY <1>2, <1>t DEF EventsKnown, TablesAgree, Serving
    <2>2. PICK c \in Conns : c = fd_table[cur]
      BY <1>t, <2>1 DEF OpenFds, TypeOK
    <2>3. peer[c] # "open" /\ peer[c] # "idle" /\ inbox[c] = <<>>
      BY <1>t, <2>1, <2>2 DEF EndIsLast, PeersKnown
    <2>4. peer'[c] # "open"
      BY <1>t, <2>3, PeerBack
    <2>5. inbox'[c] = inbox[c]
      <3>1. ASSUME NEW d \in Conns, NEW kind \in ClientKinds, WriteHalf(d, kind) \/ WriteRest(d)
            PROVE  inbox'[c] = inbox[c]
        BY <1>t, <2>3, <3>1 DEF WriteHalf, WriteRest, TypeOK
      <3>2. CASE \/ \E d \in Conns : MovesBytes(d)
                 \/ AcceptOne \/ Handle \/ LinesDone \/ PrintMetricsIfDue \/ Idle
        BY <3>2 DEF MovesBytes, Connect, ReadChunk, CloseClient, AcceptOne, Handle,
                    HandleHelloLine, HandleInvalidLine, HandleStatusLine, LinesDone,
                    PrintMetricsIfDue, Idle, kernelVars
      <3>3. ~ClientEvent
        BY <2>1 DEF ClientEvent, Serving
      <3>4. ASSUME NEW d \in Conns, WriteRest(d) PROVE inbox'[c] = inbox[c]
        BY <1>t, <2>3, <3>4 DEF WriteRest, TypeOK
      <3> QED BY <3>1, <3>2, <3>3, <3>4, StepKinds
    <2> QED BY <1>2, <2>2, <2>4, <2>5, <2>3
  <1>3. ASSUME ~ClientEvent
        PROVE  Serving /\ UNCHANGED <<still_connected, cur, fd_table>>
    BY <1>3, StepKinds DEF Serving, TakeLine, WriteHalf, WriteRest, MovesBytes, Connect, ReadChunk, CloseClient,
       AcceptOne, Handle, HandleHelloLine, HandleInvalidLine, HandleStatusLine, LinesDone,
       PrintMetricsIfDue, Idle, kernelVars, serverVars
  <1> QED BY <1>1, <1>2, <1>3

\* A client goes on as its program says.
LEMMA ProgramStep ==
  ASSUME Inv, KeepsToItsProgram, [Next]_vars
  PROVE  KeepsToItsProgram'
  <1> SUFFICES ASSUME NEW c \in Conns
               PROVE  /\ \A i \in DOMAIN written'[c] : written'[c][i] \in Says[c]
                      /\ unfinished'[c] # "none" => unfinished'[c] \in Says[c] /\ ~awaiting'[c]
    BY DEF KeepsToItsProgram
  <1>t. /\ TypeOK
        /\ \A i \in DOMAIN written[c] : written[c][i] \in Says[c]
        /\ unfinished[c] # "none" => unfinished[c] \in Says[c] /\ ~awaiting[c]
    BY DEF Inv, Books, KeepsToItsProgram
  <1>1. ASSUME NEW d \in Conns, NEW kind \in ClientKinds, WriteHalf(d, kind)
        PROVE  /\ \A i \in DOMAIN written'[c] : written'[c][i] \in Says[c]
               /\ unfinished'[c] # "none" => unfinished'[c] \in Says[c] /\ ~awaiting'[c]
    BY <1>1, <1>t DEF WriteHalf, TypeOK
  <1>2. ASSUME NEW d \in Conns, WriteRest(d)
        PROVE  /\ \A i \in DOMAIN written'[c] : written'[c][i] \in Says[c]
               /\ unfinished'[c] # "none" => unfinished'[c] \in Says[c] /\ ~awaiting'[c]
    <2>1. CASE c = d
      <3>1. /\ written'[c] = Append(written[c], unfinished[c]) /\ unfinished'[c] = "none"
            /\ unfinished[c] # "none" /\ written[c] \in Seq(ClientKinds)
            /\ unfinished[c] \in ClientKinds
        BY <1>2, <1>t, <2>1 DEF WriteRest, TypeOK
      <3>2. \A i \in DOMAIN written'[c] : written'[c][i] \in Says[c]
        BY <1>t, <3>1, AppendProperties, LenProperties
      <3> QED BY <3>1, <3>2
    <2>2. CASE c # d
      BY <1>2, <1>t, <2>2 DEF WriteRest, TypeOK
    <2> QED BY <2>1, <2>2
  <1>3. ASSUME NEW d \in Conns, ReadChunk(d)
        PROVE  /\ \A i \in DOMAIN written'[c] : written'[c][i] \in Says[c]
               /\ unfinished'[c] # "none" => unfinished'[c] \in Says[c] /\ ~awaiting'[c]
    BY <1>3, <1>t DEF ReadChunk, TypeOK
  <1>4. CASE UNCHANGED clientVars
    BY <1>4, <1>t DEF clientVars
  <1>5. \/ \E d \in Conns : \/ \E kind \in ClientKinds : WriteHalf(d, kind)
                            \/ WriteRest(d) \/ ReadChunk(d)
        \/ UNCHANGED clientVars
    BY StepKinds DEF MovesBytes, Connect, CloseClient, AcceptOne, ClientEvent, Handle,
       HandleHelloLine, HandleInvalidLine, HandleStatusLine, LinesDone, PrintMetricsIfDue, Idle
  <1> QED BY <1>1, <1>2, <1>3, <1>4, <1>5

-----------------------------------------------------------------------------
(* What is sent.                                                           *)

\* send() puts the halves of the line behind what is queued, as far as they fit.
LEMMA PushedShape ==
  ASSUME NEW queue \in Seq(Chunk), NEW line \in Line
  PROVE  /\ Pushed(queue, line) \in Seq(Chunk)
         /\ Len(queue) \in Nat /\ Len(Pushed(queue, line)) \in Len(queue) .. Len(queue) + 2
         /\ DOMAIN queue = 1 .. Len(queue)
         /\ DOMAIN Pushed(queue, line) = 1 .. Len(Pushed(queue, line))
         /\ \A i \in 1 .. Len(queue) : Pushed(queue, line)[i] = queue[i]
         /\ \A i \in Len(queue) + 1 .. Len(Pushed(queue, line)) :
              Pushed(queue, line)[i] = Halves(line)[i - Len(queue)]
  <1> DEFINE halves == Halves(line)
  <1>1. halves \in Seq(Chunk) /\ Len(halves) = 2 /\ halves[1] \in Chunk
    BY HalvesType
  <1>2. PICK n \in Nat : n = Len(queue)
    BY LenProperties
  <1>3. DOMAIN queue = 1 .. n
    BY <1>2, LenProperties
  <1>4. SendBuf \in Nat
    BY ServerAssumption
  <1>5. Pushed(queue, line) = IF SendBuf - n > 1 THEN queue \o halves
                              ELSE IF SendBuf - n = 1 THEN Append(queue, halves[1])
                              ELSE queue
    BY <1>2 DEF Pushed
  <1> HIDE DEF halves
  <1>6. CASE Pushed(queue, line) = queue \o halves
    <2>1. PICK r : r = queue \o halves
      OBVIOUS
    <2>2. /\ r \in Seq(Chunk) /\ Len(r) = n + 2 /\ DOMAIN r = 1 .. n + 2
          /\ \A i \in 1 .. n : r[i] = queue[i]
          /\ \A i \in 1 .. 2 : r[n + i] = halves[i]
      <3>1. /\ r \in Seq(Chunk) /\ Len(r) = Len(queue) + Len(halves)
            /\ DOMAIN r = 1 .. Len(queue) + Len(halves)
            /\ \A i \in 1 .. Len(queue) : r[i] = queue[i]
            /\ \A i \in 1 .. Len(halves) : r[Len(queue) + i] = halves[i]
        BY <1>1, <2>1, Joined, Zenon
      <3> QED BY <1>1, <1>2, <3>1, Zenon
    <2>3. \A i \in n + 1 .. n + 2 : r[i] = halves[i - n]
      <3> TAKE i \in n + 1 .. n + 2
      <3>1. i - n \in 1 .. 2 /\ n + (i - n) = i
        OBVIOUS
      <3> QED BY <2>2, <3>1
    <2> QED BY <1>2, <1>3, <1>6, <2>1, <2>2, <2>3 DEF halves
  <1>7. CASE Pushed(queue, line) = Append(queue, halves[1])
    <2>1. PICK r : r = Append(queue, halves[1])
      OBVIOUS
    <2>2. /\ r \in Seq(Chunk) /\ Len(r) = n + 1 /\ DOMAIN r = 1 .. n + 1
          /\ \A i \in 1 .. n : r[i] = queue[i]
          /\ r[n + 1] = halves[1]
      BY <1>1, <1>2, <2>1, Appending
    <2>3. \A i \in n + 1 .. n + 1 : r[i] = halves[i - n]
      <3> TAKE i \in n + 1 .. n + 1
      <3>1. i - n = 1 /\ i = n + 1
        OBVIOUS
      <3> QED BY <2>2, <3>1
    <2> QED BY <1>2, <1>3, <1>7, <2>1, <2>2, <2>3 DEF halves
  <1>8. CASE Pushed(queue, line) = queue
    BY <1>2, <1>3, <1>8
  <1> QED BY <1>5, <1>6, <1>7, <1>8

\* What is older than the lines that are not handled stays older.
LEMMA OlderKept ==
  ASSUME Inv, Inv', InputKept, EndIsLast, [Next]_vars, NEW line \in Line, Older(line)
  PROVE  Older(line)'
  <1> SUFFICES ASSUME NEW s \in Conns, s = line.src
               PROVE  /\ line.seq =< Len(written'[s])
                      /\ \A j \in DOMAIN (Unread(s)') : line.seq < Unread(s)'[j].line.seq
    BY DEF Older
  <1>1. PICK q : q = Unread(s)
    OBVIOUS
  <1>2. PICK r : r = Unread(s)'
    OBVIOUS
  <1>3. /\ q \in Seq(Chunk) /\ DOMAIN q = 1 .. Len(q) /\ Len(q) \in Nat
        /\ r \in Seq(Chunk) /\ InOrder(s, q)
    BY <1>1, <1>2, UnreadType, UnreadTypeNext DEF Inv, Books, InputKept, KeptOf
  <1>4. /\ line.seq =< Len(written[s]) /\ line.seq \in Nat /\ Len(written[s]) \in Nat
        /\ \A j \in DOMAIN q : line.seq < q[j].line.seq
        /\ written[s] \in Seq(ClientKinds)
    <2>1. s # NoConn
      BY ServerAssumption
    <2>2. written[s] \in Seq(ClientKinds)
      BY DEF Inv, Books, TypeOK
    <2>3. Len(written[s]) \in Nat /\ line.seq \in Nat
      BY <2>2, LenProperties DEF Line
    <2> QED BY <1>1, <2>1, <2>2, <2>3 DEF Older
  <1>5. ASSUME r = q, written'[s] = written[s]
        PROVE  line.seq =< Len(written'[s]) /\ \A j \in DOMAIN r : line.seq < r[j].line.seq
    BY <1>4, <1>5
  <1>6. ASSUME NEW x \in Chunk, r = Append(q, x), x.line.seq = Len(written[s]) + 1
        PROVE  \A j \in DOMAIN r : line.seq < r[j].line.seq
    <2>1. /\ DOMAIN r = 1 .. Len(q) + 1 /\ r[Len(q) + 1] = x
          /\ \A i \in 1 .. Len(q) : r[i] = q[i]
      BY <1>3, <1>6, Appending
    <2>2. line.seq < x.line.seq
      BY <1>4, <1>6
    <2> QED BY <1>3, <1>4, <2>1, <2>2
  <1>7. ASSUME NEW d \in Conns, NEW kind \in ClientKinds, WriteHalf(d, kind)
        PROVE  line.seq =< Len(written'[s]) /\ \A j \in DOMAIN r : line.seq < r[j].line.seq
    <2>1. UNCHANGED written
      BY <1>7 DEF WriteHalf
    <2>2. CASE s = d
      <3> DEFINE half == [kind |-> kind, src |-> d, seq |-> Len(written[d]) + 1]
                 x == [line |-> half, nl |-> FALSE]
      <3>1. half \in Line /\ r = Append(q, x)
        BY <1>1, <1>2, <1>7, <2>2, HalfEffect
      <3>2. x \in Chunk /\ x.line.seq = Len(written[s]) + 1
        BY <2>2, <3>1 DEF Chunk
      <3> HIDE DEF x
      <3> QED BY <1>4, <1>6, <2>1, <3>1, <3>2
    <2>3. CASE s # d
      BY <1>1, <1>2, <1>5, <1>7, <2>1, <2>3, HalfEffect DEF KeepsBut
    <2> QED BY <2>2, <2>3
  <1>8. ASSUME NEW d \in Conns, WriteRest(d)
        PROVE  line.seq =< Len(written'[s]) /\ \A j \in DOMAIN r : line.seq < r[j].line.seq
    <2>1. CASE s = d
      <3> DEFINE x == [line |-> HalfSaid(d), nl |-> TRUE]
      <3>1. HalfSaid(d) \in Line /\ r = Append(q, x)
        BY <1>1, <1>2, <1>8, <2>1, RestEffect
      <3>2. x \in Chunk /\ x.line.seq = Len(written[s]) + 1
        BY <2>1, <3>1 DEF Chunk, HalfSaid
      <3>3. written'[s] = Append(written[s], unfinished[s]) /\ unfinished[s] \in ClientKinds
        BY <1>8, <2>1 DEF WriteRest, Inv, Books, TypeOK
      <3>4. Len(written'[s]) = Len(written[s]) + 1
        BY <1>4, <3>3, AppendProperties
      <3> HIDE DEF x
      <3> QED BY <1>4, <1>6, <3>1, <3>2, <3>4
    <2>2. CASE s # d
      <3>1. written'[s] = written[s]
        BY <1>8, <2>2 DEF WriteRest, Inv, Books, TypeOK
      <3> QED BY <1>1, <1>2, <1>5, <1>8, <2>2, <3>1, RestEffect DEF KeepsBut
    <2> QED BY <2>1, <2>2
  <1>9. CASE (\E d \in Conns : MovesBytes(d)) \/ AcceptOne \/ ClientEvent \/ PrintMetricsIfDue \/ Idle
    <2>1. r = q
      BY <1>1, <1>2, <1>9, KeepsBytes DEF Keeps
    <2>2. UNCHANGED written
      BY <1>9 DEF MovesBytes, Connect, ReadChunk, CloseClient, AcceptOne, ClientEvent,
                  PrintMetricsIfDue, Idle, clientVars
    <2> QED BY <1>2, <1>5, <2>1, <2>2
  <1>10. CASE Handle
    <2>1. PICK d \in Conns :
            /\ Dropped(Unread(d), Unread(d)') /\ KeepsBut(d) /\ Unread(d)[2].nl
            /\ UNCHANGED clientVars
      BY <1>10, HandleEffect
    <2>2. UNCHANGED written
      BY <2>1 DEF clientVars
    <2>3. CASE s = d
      <3>1. Dropped(q, r) /\ q[2].nl
        BY <1>1, <1>2, <2>1, <2>3
      <3>2. \A i \in DOMAIN r : i + 2 \in DOMAIN q /\ r[i] = q[i + 2]
        BY <1>3, <3>1, OrderDrop
      <3> QED BY <1>2, <1>4, <2>2, <3>2
    <2>4. CASE s # d
      BY <1>1, <1>2, <1>5, <2>1, <2>2, <2>4 DEF KeepsBut
    <2> QED BY <2>3, <2>4, <1>2
  <1>11. CASE LinesDone
    <2>1. UNCHANGED written
      BY <1>11 DEF LinesDone, clientVars
    <2>2. r = q \/ r = <<>>
      BY <1>1, <1>2, <1>11, EndEffect DEF Keeps, KeepsBut
    <2>3. CASE r = <<>>
      BY <1>2, <1>4, <2>1, <2>3
    <2> QED BY <1>2, <1>5, <2>1, <2>2, <2>3
  <1> QED BY <1>2, <1>7, <1>8, <1>9, <1>10, <1>11, StepKinds

\* The line that is stored, acknowledged and relayed is the oldest of its
\* connection that is not handled.
LEMMA StatusEffect ==
  ASSUME Inv, Inv', InputKept, HandleStatusLine, NEW line, line = NextLine(client_buffers[cur])
  PROVE  /\ line \in Line /\ line.src \in Conns /\ line.src = fd_table[cur]
         /\ line.kind \in {"STATUS", "STATUS_ACK"}
         /\ 2 \in DOMAIN Unread(line.src) /\ Unread(line.src)[2].line = line
         /\ Older(line)'
  <1>2. Handle /\ TakeLine({"STATUS", "STATUS_ACK"}) /\ UNCHANGED <<inbox, fd_table, written>>
    BY DEF Handle, HandleStatusLine, clientVars
  <1>3. PICK c \in Conns : /\ c = fd_table[cur]
                           /\ Dropped(Unread(c), Unread(c)')
                           /\ Unread(c)[2].nl /\ Unread(c)[2] \in Chunk
                           /\ Unread(c)[2].line = line
    BY <1>2, HandleEffect
  <1>4. PICK q : q = Unread(c)
    OBVIOUS
  <1>5. PICK r : r = Unread(c)'
    OBVIOUS
  <1>6. q \in Seq(Chunk) /\ r \in Seq(Chunk) /\ InOrder(c, q) /\ Spoken(c, q)
        /\ Dropped(q, r) /\ q[2].nl /\ q[2] \in Chunk /\ q[2].line = line
    BY <1>3, <1>4, <1>5, UnreadType, UnreadTypeNext DEF Inv, Books, InputKept, KeptOf
  <1>7. /\ 2 \in DOMAIN q /\ line.src = c
        /\ \A i \in DOMAIN r : line.seq < r[i].line.seq
    BY <1>6, OrderDrop
  <1>8. line.seq =< Len(written[c])
    <2>1. line.seq \in DOMAIN written[c] /\ written[c] \in Seq(ClientKinds)
      BY <1>6, <1>7 DEF Spoken, Inv, Books, TypeOK
    <2>2. Len(written[c]) \in Nat /\ DOMAIN written[c] = 1 .. Len(written[c])
      BY <2>1, LenProperties
    <2> QED BY <2>1, <2>2
  <1>9. Older(line)'
    BY <1>2, <1>5, <1>7, <1>8 DEF Older
  <1>10. line \in Line
    BY <1>6 DEF Chunk
  <1>11. line.kind \in {"STATUS", "STATUS_ACK"}
    BY <1>2 DEF TakeLine
  <1> QED BY <1>3, <1>4, <1>6, <1>7, <1>9, <1>10, <1>11

\* A line that is sent to d: the report, the status that is handled to others
\* than its source, and its ACK to that.
Sent(d, line) ==
  \/ PrintMetricsIfDue /\ line = MetricsLine
  \/ /\ HandleStatusLine
     /\ LET status == NextLine(client_buffers[cur])
        IN  \/ line = AckFor(status) /\ d = fd_table[cur] /\ status.kind = "STATUS_ACK"
            \/ line = status /\ d \in Audience(cur)

\* What a step does to the bytes that go to a connection.
LEMMA OutputEffect ==
  ASSUME Inv, Inv', InputKept, [Next]_vars, NEW d \in Conns
  PROVE  \/ outbox'[d] = outbox[d]
         \/ outbox'[d] = <<>>
         \/ outbox[d] # <<>> /\ outbox'[d] = Tail(outbox[d])
         \/ \E line \in Line : outbox'[d] = Pushed(outbox[d], line) /\ Sent(d, line)
  <1>t. TypeOK
    BY DEF Inv, Books
  <1>1. CASE UNCHANGED outbox
    BY <1>1
  <1>2. ASSUME NEW c \in Conns, MovesBytes(c)
        PROVE  \/ outbox'[d] = outbox[d] \/ outbox'[d] = <<>>
               \/ outbox[d] # <<>> /\ outbox'[d] = Tail(outbox[d])
    BY <1>2, <1>t DEF MovesBytes, Connect, ReadChunk, CloseClient, TypeOK
  <1>3. CASE HandleStatusLine
    <2>1. PICK line : line = NextLine(client_buffers[cur])
      OBVIOUS
    <2> DEFINE acked == IF line.kind = "STATUS_ACK" THEN {fd_table[cur]} ELSE {}
               out == [c \in acked \cup Audience(cur) |->
                         IF c \in acked THEN AckFor(line) ELSE line]
    <2>2. Transmit(out)
      BY <1>3, <2>1 DEF HandleStatusLine
    <2>3. line \in Line
      BY <1>3, <2>1, StatusEffect
    <2>4. AckFor(line) \in Line
      BY <2>3 DEF AckFor, Line
    <2>5. \A c \in DOMAIN out : out[c] \in Line /\ Sent(c, out[c])
      BY <1>3, <2>1, <2>3, <2>4 DEF Sent
    <2>6. outbox'[d] = outbox[d] \/ (d \in DOMAIN out /\ outbox'[d] = Pushed(outbox[d], out[d]))
      <3> HIDE DEF out
      <3> QED BY <2>2 DEF Transmit
    <2> HIDE DEF out
    <2> QED BY <2>5, <2>6
  <1>4. CASE PrintMetricsIfDue /\ ~UNCHANGED outbox
    <2> DEFINE out == [c \in Audience(ListenFd) |-> MetricsLine]
    <2>1. Transmit(out)
      BY <1>4 DEF PrintMetricsIfDue
    <2>2. MetricsLine \in Line
      BY DEF MetricsLine, Line
    <2>3. \A c \in DOMAIN out : out[c] \in Line /\ Sent(c, out[c])
      BY <1>4, <2>2 DEF Sent
    <2>4. outbox'[d] = outbox[d] \/ (d \in DOMAIN out /\ outbox'[d] = Pushed(outbox[d], out[d]))
      <3> HIDE DEF out
      <3> QED BY <2>1 DEF Transmit
    <2> HIDE DEF out
    <2> QED BY <2>3, <2>4
  <1>5. UNCHANGED outbox \/ (\E c \in Conns : MovesBytes(c)) \/ HandleStatusLine \/ PrintMetricsIfDue
    BY StepKinds DEF WriteHalf, WriteRest, AcceptOne, ClientEvent, Handle, HandleHelloLine,
       HandleInvalidLine, LinesDone, Idle, kernelVars
  <1> QED BY <1>1, <1>2, <1>3, <1>4, <1>5

\* The rest of a queue is its chunks from the second on.
LEMMA TailShape ==
  ASSUME NEW q \in Seq(Chunk), q # <<>>
  PROVE  \A i \in DOMAIN Tail(q) : i \in Nat /\ i + 1 \in DOMAIN q /\ Tail(q)[i] = q[i + 1]
  <1>1. /\ Tail(q) \in Seq(Chunk) /\ Len(Tail(q)) = Len(q) - 1
        /\ \A i \in 1 .. Len(Tail(q)) : Tail(q)[i] = q[i + 1]
    BY HeadTailProperties
  <1>2. Len(q) \in Nat /\ DOMAIN q = 1 .. Len(q) /\ DOMAIN Tail(q) = 1 .. Len(Tail(q))
    BY <1>1, LenProperties
  <1> QED BY <1>1, <1>2

\* A line that is sent is about what was handled by then.
LEMMA SentOlder ==
  ASSUME Inv, Inv', InputKept, NEW d \in Conns, NEW line \in Line, Sent(d, line)
  PROVE  Older(line)'
  <1>1. CASE line = MetricsLine
    BY <1>1 DEF MetricsLine, Older
  <1>2. CASE HandleStatusLine
    <2>1. PICK status : status = NextLine(client_buffers[cur])
      OBVIOUS
    <2>2. Older(status)'
      BY <1>2, <2>1, StatusEffect
    <2>3. line = AckFor(status) \/ line = status \/ line = MetricsLine
      BY <2>1 DEF Sent
    <2>4. CASE line = AckFor(status)
      <3>1. line.src = status.src /\ line.seq = status.seq
        BY <2>4 DEF AckFor
      <3> QED BY <2>2, <3>1 DEF Older
    <2> QED BY <1>1, <2>2, <2>3, <2>4
  <1> QED BY <1>1, <1>2 DEF Sent

\* Every step keeps the output older than what is not handled.
LEMMA OutputStep ==
  ASSUME Inv, Inv', InputKept, EndIsLast, OutputOlder, [Next]_vars
  PROVE  OutputOlder'
  <1> SUFFICES ASSUME NEW d \in Conns, NEW i \in DOMAIN outbox'[d],
                      NEW sent, sent = outbox'[d][i].line
               PROVE  Older(sent)'
    BY DEF OutputOlder
  <1>1. outbox[d] \in Seq(Chunk)
    BY DEF Inv, Books, TypeOK
  <1>2. ASSUME NEW j \in DOMAIN outbox[d], outbox'[d][i] = outbox[d][j]
        PROVE  Older(sent)'
    <2>1. PICK line : line = outbox[d][j].line
      OBVIOUS
    <2>2. line \in Line /\ Older(line)
      <3>1. outbox[d][j] \in Chunk
        BY <1>1, LenProperties, ElementOfSeq
      <3> QED BY <2>1, <3>1 DEF Chunk, OutputOlder
    <2>3. Older(line)'
      BY <2>2, OlderKept
    <2> QED BY <1>2, <2>1, <2>3
  <1>3. CASE outbox'[d] = outbox[d]
    BY <1>2, <1>3
  <1>4. CASE outbox'[d] = <<>>
    BY <1>4
  <1>5. CASE outbox[d] # <<>> /\ outbox'[d] = Tail(outbox[d])
    <2>1. i + 1 \in DOMAIN outbox[d] /\ outbox'[d][i] = outbox[d][i + 1]
      BY <1>1, <1>5, TailShape
    <2> QED BY <1>2, <2>1
  <1>6. ASSUME NEW line \in Line, outbox'[d] = Pushed(outbox[d], line), Sent(d, line)
        PROVE  Older(sent)'
    <2>1. \/ outbox'[d][i].line = line
          \/ \E j \in DOMAIN outbox[d] : outbox'[d][i] = outbox[d][j]
      <3>1. Len(outbox[d]) <= SendBuf
        BY DEF Inv, Books, TypeOK
      <3> QED BY <1>1, <1>6, <3>1, PushedProperties
    <2>2. Older(line)'
      BY <1>6, SentOlder
    <2> QED BY <1>2, <2>1, <2>2
  <1> QED BY <1>3, <1>4, <1>5, <1>6, OutputEffect

\* The lines about one reporter in a queue, in the order of the reports.
QueueOrdered(q) ==
  \A i, j \in DOMAIN q :
    i < j /\ q[i].nl = q[j].nl /\ q[i].line.src = q[j].line.src /\ q[i].line.src # NoConn
      => q[i].line.seq < q[j].line.seq

\* Every step keeps the output in order.
LEMMA OrderStep ==
  ASSUME Inv, Inv', InputKept, OutputOlder, ViewerStreamOrdered, [Next]_vars
  PROVE  ViewerStreamOrdered'
  <1> SUFFICES ASSUME NEW d \in Conns PROVE QueueOrdered(outbox'[d])
    BY DEF ViewerStreamOrdered, QueueOrdered
  <1>1. PICK q : q = outbox[d]
    OBVIOUS
  <1>2. PICK r : r = outbox'[d]
    OBVIOUS
  <1>3. q \in Seq(Chunk) /\ QueueOrdered(q)
    BY <1>1 DEF Inv, Books, TypeOK, ViewerStreamOrdered, QueueOrdered
  <1>4. CASE r = q
    BY <1>2, <1>3, <1>4
  <1>5. CASE r = <<>>
    BY <1>2, <1>5 DEF QueueOrdered
  <1>6. CASE q # <<>> /\ r = Tail(q)
    <2>1. \A i \in DOMAIN r : i \in Nat /\ i + 1 \in DOMAIN q /\ r[i] = q[i + 1]
      BY <1>3, <1>6, TailShape
    <2>2. \A i, j \in DOMAIN r : i < j => i + 1 < j + 1
      BY <2>1
    <2> QED BY <1>2, <1>3, <2>1, <2>2 DEF QueueOrdered
  <1>7. ASSUME NEW line \in Line, r = Pushed(q, line), Sent(d, line)
        PROVE  QueueOrdered(r)
    <2>1. PICK n \in Nat : n = Len(q)
      BY <1>3, LenProperties
    <2>2. PICK m \in n .. n + 2 : m = Len(r)
      BY <1>3, <1>7, <2>1, PushedShape
    <2>3. /\ DOMAIN q = 1 .. n /\ DOMAIN r = 1 .. m
          /\ \A i \in 1 .. n : r[i] = q[i]
          /\ \A i \in n + 1 .. m : r[i] = Halves(line)[i - n]
      BY <1>3, <1>7, <2>1, <2>2, PushedShape
    <2>4. /\ Halves(line)[1].line = line /\ Halves(line)[2].line = line
          /\ Halves(line)[1].nl # Halves(line)[2].nl
      BY DEF Halves
    <2>5. ASSUME NEW i \in 1 .. n, q[i].line.src = line.src, line.src # NoConn
          PROVE  q[i].line.seq < line.seq
      <3>1. Older(q[i].line)
        BY <1>1, <2>3, <2>5 DEF OutputOlder
      <3>2. HandleStatusLine
        BY <1>7, <2>5 DEF Sent, MetricsLine
      <3>3. PICK status : status = NextLine(client_buffers[cur])
        OBVIOUS
      <3>4. line.src = status.src /\ line.seq = status.seq
        BY <1>7, <2>5, <3>3 DEF Sent, AckFor, MetricsLine
      <3>5. 2 \in DOMAIN Unread(status.src) /\ Unread(status.src)[2].line = status
        BY <3>2, <3>3, StatusEffect
      <3> QED BY <2>5, <3>1, <3>4, <3>5 DEF Older
    <2>6. ASSUME NEW i \in 1 .. m, NEW j \in 1 .. m, i < j,
                 r[i].nl = r[j].nl, r[i].line.src = r[j].line.src, r[i].line.src # NoConn
          PROVE  r[i].line.seq < r[j].line.seq
      <3>1. CASE j =< n
        <4>1. i \in 1 .. n /\ j \in 1 .. n
          BY <2>6, <3>1
        <4>2. r[i] = q[i] /\ r[j] = q[j]
          BY <2>3, <4>1
        <4> QED BY <1>3, <2>3, <2>6, <4>1, <4>2 DEF QueueOrdered
      <3>2. CASE i =< n /\ n < j
        <4>1. i \in 1 .. n /\ j \in n + 1 .. m /\ j - n \in 1 .. 2
          BY <2>2, <3>2
        <4>2. r[i] = q[i] /\ r[j] = Halves(line)[j - n]
          BY <2>3, <4>1
        <4>3. r[j].line = line
          <5>1. j - n = 1 \/ j - n = 2
            BY <4>1
          <5> QED BY <2>4, <4>2, <5>1
        <4> QED BY <2>5, <2>6, <4>1, <4>2, <4>3
      <3>3. CASE n < i
        <4>1. i \in n + 1 .. m /\ j \in n + 1 .. m /\ i - n = 1 /\ j - n = 2
          BY <2>2, <2>6, <3>3
        <4>2. r[i] = Halves(line)[1] /\ r[j] = Halves(line)[2]
          BY <2>3, <4>1
        <4> QED BY <2>4, <2>6, <4>2
      <3> QED BY <3>1, <3>2, <3>3
    <2> QED BY <2>3, <2>6 DEF QueueOrdered
  <1> QED BY <1>1, <1>2, <1>4, <1>5, <1>6, <1>7, OutputEffect

\* A line that a viewer gets is not newer than what is stored of the reporter.
NotAhead(line) ==
  LET d == DeviceOf[line.src]
  IN  line.kind \in {"STATUS", "STATUS_ACK"} =>
        /\ d \in DOMAIN status_store
        /\ status_store[d].src = line.src => status_store[d].seq >= line.seq

\* It stays so when more is stored.
LEMMA NotAheadKept ==
  ASSUME Inv, Inv', InputKept, [Next]_vars, NEW line \in Line, Older(line), NotAhead(line)
  PROVE  NotAhead(line)'
  <1>1. CASE UNCHANGED status_store
    BY <1>1 DEF NotAhead
  <1>2. CASE HandleStatusLine
    <2>1. PICK status : status = NextLine(client_buffers[cur])
      OBVIOUS
    <2>2. /\ status \in Line /\ status.src \in Conns
          /\ 2 \in DOMAIN Unread(status.src) /\ Unread(status.src)[2].line = status
      BY <1>2, <2>1, StatusEffect
    <2>3. status_store' = Upsert(status_store, status)
      BY <1>2, <2>1 DEF HandleStatusLine
    <2>4. DOMAIN status_store' = DOMAIN status_store \cup {DeviceOf[status.src]}
          /\ \A d \in DOMAIN status_store' :
               status_store'[d] = IF d = DeviceOf[status.src] THEN status ELSE status_store[d]
      BY <2>3 DEF Upsert
    <2>5. ASSUME line.src = status.src
          PROVE  status.seq >= line.seq
      <3>1. line.seq \in Nat /\ status.seq \in Nat /\ status.src # NoConn
        BY <2>2, ServerAssumption DEF Line
      <3>2. line.seq < status.seq
        BY <2>2, <2>5, <3>1 DEF Older
      <3> QED BY <3>1, <3>2
    <2> SUFFICES ASSUME line.kind \in {"STATUS", "STATUS_ACK"}
                 PROVE  /\ DeviceOf[line.src] \in DOMAIN status_store'
                        /\ status_store'[DeviceOf[line.src]].src = line.src =>
                             status_store'[DeviceOf[line.src]].seq >= line.seq
      BY DEF NotAhead
    <2>6. /\ DeviceOf[line.src] \in DOMAIN status_store
          /\ status_store[DeviceOf[line.src]].src = line.src =>
               status_store[DeviceOf[line.src]].seq >= line.seq
      BY DEF NotAhead
    <2>7. CASE DeviceOf[line.src] = DeviceOf[status.src]
      BY <2>4, <2>5, <2>7
    <2>8. CASE DeviceOf[line.src] # DeviceOf[status.src]
      BY <2>4, <2>6, <2>8
    <2> QED BY <2>7, <2>8
  <1>3. UNCHANGED status_store \/ HandleStatusLine
    BY StepKinds DEF WriteHalf, WriteRest, MovesBytes, Connect, ReadChunk, CloseClient,
       AcceptOne, ClientEvent, Handle, HandleHelloLine, HandleInvalidLine, LinesDone,
       PrintMetricsIfDue, Idle, serverVars
  <1> QED BY <1>1, <1>2, <1>3

\* A status is stored before it is sent.
LEMMA SentNotAhead ==
  ASSUME Inv, Inv', InputKept, NEW d \in Conns, NEW line \in Line, Sent(d, line)
  PROVE  NotAhead(line)'
  <1>1. CASE line.kind \notin {"STATUS", "STATUS_ACK"}
    BY <1>1 DEF NotAhead
  <1>2. CASE line.kind \in {"STATUS", "STATUS_ACK"}
    <2>1. HandleStatusLine /\ line = NextLine(client_buffers[cur])
      BY <1>2 DEF Sent, MetricsLine, AckFor
    <2>2. status_store' = Upsert(status_store, line)
      BY <2>1 DEF HandleStatusLine
    <2>3. DeviceOf[line.src] \in DOMAIN status_store' /\ status_store'[DeviceOf[line.src]] = line
      BY <2>2 DEF Upsert
    <2>4. line.seq \in Nat
      BY DEF Line
    <2> QED BY <2>3, <2>4 DEF NotAhead
  <1> QED BY <1>1, <1>2

\* Every step keeps the viewers behind the store.
LEMMA StoreStep ==
  ASSUME Inv, Inv', InputKept, OutputOlder, ViewerNeverAheadOfStore, [Next]_vars
  PROVE  ViewerNeverAheadOfStore'
  <1> SUFFICES ASSUME NEW d \in Conns, NEW i \in DOMAIN outbox'[d],
                      NEW sent, sent = outbox'[d][i].line
               PROVE  NotAhead(sent)'
    BY DEF ViewerNeverAheadOfStore, NotAhead
  <1>1. outbox[d] \in Seq(Chunk)
    BY DEF Inv, Books, TypeOK
  <1>2. ASSUME NEW j \in DOMAIN outbox[d], outbox'[d][i] = outbox[d][j]
        PROVE  NotAhead(sent)'
    <2>1. PICK line : line = outbox[d][j].line
      OBVIOUS
    <2>2. line \in Line /\ Older(line) /\ NotAhead(line)
      <3>1. outbox[d][j] \in Chunk
        BY <1>1, LenProperties, ElementOfSeq
      <3>2. NotAhead(outbox[d][j].line)
        BY DEF ViewerNeverAheadOfStore, NotAhead
      <3> QED BY <2>1, <3>1, <3>2 DEF Chunk, OutputOlder
    <2>3. NotAhead(line)'
      BY <2>2, NotAheadKept
    <2> QED BY <1>2, <2>1, <2>3
  <1>3. CASE outbox'[d] = outbox[d]
    BY <1>2, <1>3
  <1>4. CASE outbox'[d] = <<>>
    BY <1>4
  <1>5. CASE outbox[d] # <<>> /\ outbox'[d] = Tail(outbox[d])
    <2>1. i + 1 \in DOMAIN outbox[d] /\ outbox'[d][i] = outbox[d][i + 1]
      BY <1>1, <1>5, TailShape
    <2> QED BY <1>2, <2>1
  <1>6. ASSUME NEW line \in Line, outbox'[d] = Pushed(outbox[d], line), Sent(d, line)
        PROVE  NotAhead(sent)'
    <2>1. \/ outbox'[d][i].line = line
          \/ \E j \in DOMAIN outbox[d] : outbox'[d][i] = outbox[d][j]
      <3>1. Len(outbox[d]) <= SendBuf
        BY DEF Inv, Books, TypeOK
      <3> QED BY <1>1, <1>6, <3>1, PushedProperties
    <2>2. NotAhead(line)'
      BY <1>6, SentNotAhead
    <2> QED BY <1>2, <2>1, <2>2
  <1> QED BY <1>3, <1>4, <1>5, <1>6, OutputEffect

-----------------------------------------------------------------------------
(* Every line is counted once.                                             *)

\* The complete lines that are not handled.
FullLines(c) == {Unread(c)[i].line : i \in {k \in DOMAIN Unread(c) : Unread(c)[k].nl}}
AllFull == UNION {FullLines(c) : c \in Conns}

\* They are in the kernel or in a buffer.
LEMMA FullOf ==
  ASSUME TypeOK, TablesAgree, NEW c \in Conns
  PROVE  InTransit(c) \cup Buffered(c) = FullLines(c)
  <1>1. inbox[c] \in Seq(Chunk)
    BY DEF TypeOK
  <1>2. CASE c \in Accepted
    <2>1. PICK fd \in OpenFds : fd_table[fd] = c
      BY <1>2 DEF Accepted
    <2>2. fd \in DOMAIN client_buffers /\ client_buffers[fd] \in Seq(Chunk)
      BY <2>1 DEF TypeOK, TablesAgree
    <2>3. Unread(c) = client_buffers[fd] \o inbox[c]
      BY <2>1, UnreadOpen
    <2>4. \A f \in DOMAIN client_buffers : fd_table[f] = c <=> f = fd
      BY <2>1, <2>2 DEF TablesAgree
    <2>5. Buffered(c) = {client_buffers[fd][i].line :
                           i \in {k \in DOMAIN client_buffers[fd] : client_buffers[fd][k].nl}}
      <3>1. {f \in DOMAIN client_buffers : fd_table[f] = c} = {fd}
        BY <2>2, <2>4
      <3> QED BY <3>1 DEF Buffered
    <2>6. PICK b : b = client_buffers[fd]
      OBVIOUS
    <2>7. PICK m : m = inbox[c]
      OBVIOUS
    <2>8. PICK q : q = b \o m
      OBVIOUS
    <2>9. /\ DOMAIN b = 1 .. Len(b) /\ DOMAIN m = 1 .. Len(m)
          /\ DOMAIN q = 1 .. Len(b) + Len(m)
          /\ Len(b) \in Nat /\ Len(m) \in Nat
          /\ \A i \in 1 .. Len(b) : q[i] = b[i]
          /\ \A i \in 1 .. Len(m) : q[Len(b) + i] = m[i]
      BY <1>1, <2>2, <2>6, <2>7, <2>8, Joined
    <2>10. ASSUME NEW i \in DOMAIN q
           PROVE  (\E j \in DOMAIN b : q[i] = b[j]) \/ \E j \in DOMAIN m : q[i] = m[j]
      <3>1. CASE i \in 1 .. Len(b)
        BY <2>9, <3>1
      <3>2. CASE i \notin 1 .. Len(b)
        <4>1. i - Len(b) \in 1 .. Len(m) /\ Len(b) + (i - Len(b)) = i
          BY <2>9, <3>2
        <4> QED BY <2>9, <4>1
      <3> QED BY <3>1, <3>2
    <2>11. /\ \A j \in DOMAIN b : j \in DOMAIN q /\ q[j] = b[j]
           /\ \A j \in DOMAIN m : Len(b) + j \in DOMAIN q /\ q[Len(b) + j] = m[j]
      BY <2>9
    <2>12. FullLines(c) = {q[i].line : i \in {k \in DOMAIN q : q[k].nl}}
      BY <2>3, <2>6, <2>7, <2>8 DEF FullLines
    <2>13. InTransit(c) = {m[i].line : i \in {k \in DOMAIN m : m[k].nl}}
      BY <2>7 DEF InTransit
    <2> QED BY <2>5, <2>6, <2>10, <2>11, <2>12, <2>13
  <1>3. CASE c \notin Accepted
    <2>1. Buffered(c) = {}
      BY <1>3 DEF Buffered, Accepted, TablesAgree
    <2>2. Unread(c) = inbox[c]
      BY <1>3 DEF Unread
    <2> QED BY <2>1, <2>2 DEF InTransit, FullLines
  <1> QED BY <1>2, <1>3

\* They are the unhandled lines of EveryLineCountedOnce.
LEMMA FullIsUnhandled == TypeOK /\ TablesAgree => Unhandled = AllFull
  BY FullOf DEF Unhandled, AllFull

\* What a chunk behind the others does to them.
LEMMA FullAppend ==
  ASSUME Inv, Inv', NEW c \in Conns, NEW x \in Chunk,
         Unread(c)' = Append(Unread(c), x), KeepsBut(c)
  PROVE  AllFull' = IF x.nl THEN AllFull \cup {x.line} ELSE AllFull
  <1>1. PICK q : q = Unread(c)
    OBVIOUS
  <1>2. PICK r : r = Unread(c)'
    OBVIOUS
  <1>3. q \in Seq(Chunk) /\ r = Append(q, x)
    BY <1>1, <1>2, UnreadType DEF Inv, Books
  <1>4. /\ DOMAIN q = 1 .. Len(q) /\ DOMAIN r = 1 .. Len(q) + 1 /\ Len(q) \in Nat
        /\ \A i \in 1 .. Len(q) : r[i] = q[i]
        /\ r[Len(q) + 1] = x
    BY <1>3, Appending
  <1>5. /\ \A i \in DOMAIN q : i \in DOMAIN r /\ r[i] = q[i]
        /\ \E i \in DOMAIN r : r[i] = x
        /\ \A i \in DOMAIN r : r[i] = x \/ (i \in DOMAIN q /\ r[i] = q[i])
    BY <1>4
  <1>6. FullLines(c) = {q[i].line : i \in {k \in DOMAIN q : q[k].nl}}
    BY <1>1 DEF FullLines
  <1>7. FullLines(c)' = {r[i].line : i \in {k \in DOMAIN r : r[k].nl}}
    BY <1>2 DEF FullLines
  <1>8. FullLines(c)' = IF x.nl THEN FullLines(c) \cup {x.line} ELSE FullLines(c)
    BY <1>5, <1>6, <1>7
  <1>9. \A d \in Conns \ {c} : FullLines(d)' = FullLines(d)
    BY DEF KeepsBut, FullLines
  <1> QED BY <1>8, <1>9 DEF AllFull

\* What handling a line does to them.
LEMMA FullDrop ==
  ASSUME Inv, Inv', InputKept, NEW c \in Conns, NEW line, line = Unread(c)[2].line,
         Dropped(Unread(c), Unread(c)'), KeepsBut(c), Unread(c)[2].nl, Unread(c)[2] \in Chunk
  PROVE  AllFull' = AllFull \ {line} /\ line \in AllFull
  <1>1. PICK q : q = Unread(c)
    OBVIOUS
  <1>2. PICK r : r = Unread(c)'
    OBVIOUS
  <1>3. q \in Seq(Chunk) /\ r \in Seq(Chunk) /\ InOrder(c, q)
    BY <1>1, <1>2, UnreadType, UnreadTypeNext DEF Inv, Books, InputKept, KeptOf
  <1>4. Dropped(q, r) /\ q[2].nl /\ line = q[2].line /\ line.seq \in Nat
    BY <1>1, <1>2 DEF Chunk, Line
  <1>5. /\ 2 \in DOMAIN q /\ line.src = c
        /\ DOMAIN r = 1 .. Len(q) - 2 /\ DOMAIN q = 1 .. Len(q) /\ Len(q) \in Nat
        /\ \A i \in DOMAIN r : i + 2 \in DOMAIN q /\ r[i] = q[i + 2]
        /\ \A i \in DOMAIN r : line.seq < r[i].line.seq
    BY <1>3, <1>4, OrderDrop
  <1>6. ~q[1].nl
    <2>1. q # <<>>
      BY <1>3, <1>5, EmptySeq
    <2> QED BY <1>3, <2>1 DEF InOrder
  <1>7. ASSUME NEW i \in DOMAIN q, q[i].nl, i # 2
        PROVE  \E j \in DOMAIN r : r[j] = q[i]
    <2>1. i # 1
      BY <1>6, <1>7
    <2>2. i - 2 \in DOMAIN r /\ (i - 2) + 2 = i
      BY <1>5, <1>7, <2>1
    <2> QED BY <1>5, <2>2
  <1>8. \A i \in DOMAIN r : r[i].line # line
    <2> TAKE i \in DOMAIN r
    <2>1. line.seq < r[i].line.seq
      BY <1>5
    <2>2. ~(line.seq < line.seq)
      BY <1>4
    <2> QED BY <2>1, <2>2
  <1>9. FullLines(c) = {q[i].line : i \in {k \in DOMAIN q : q[k].nl}}
    BY <1>1 DEF FullLines
  <1>10. FullLines(c)' = {r[i].line : i \in {k \in DOMAIN r : r[k].nl}}
    BY <1>2 DEF FullLines
  <1>11. line \in FullLines(c)
    BY <1>4, <1>5, <1>9
  <1>12. FullLines(c)' = FullLines(c) \ {line}
    <2>1. \A l \in FullLines(c)' : l \in FullLines(c) \ {line}
      BY <1>5, <1>8, <1>9, <1>10
    <2>2. \A l \in FullLines(c) \ {line} : l \in FullLines(c)'
      BY <1>4, <1>7, <1>9, <1>10
    <2> QED BY <2>1, <2>2
  <1>13. ASSUME NEW d \in Conns \ {c}
         PROVE  FullLines(d)' = FullLines(d) /\ line \notin FullLines(d)
    <2>1. FullLines(d)' = FullLines(d)
      BY DEF KeepsBut, FullLines
    <2>2. \A i \in DOMAIN Unread(d) : Unread(d)[i].line.src = d
      BY DEF InputKept, KeptOf, InOrder
    <2> QED BY <1>5, <2>1, <2>2 DEF FullLines
  <1> QED BY <1>11, <1>12, <1>13 DEF AllFull

\* A line that was written can be counted, whatever kind is looked for.
LEMMA WrittenIs ==
  ASSUME NEW kinds, NEW line
  PROVE  line \in WrittenLines(kinds) <=>
           \E c \in Conns : \E i \in DOMAIN written[c] :
             written[c][i] \in kinds /\ line = [kind |-> written[c][i], src |-> c, seq |-> i]
  BY DEF WrittenLines

\* The same after a step.
LEMMA WrittenIsNext ==
  ASSUME NEW kinds, NEW line
  PROVE  line \in WrittenLines(kinds)' <=>
           \E c \in Conns : \E i \in DOMAIN written'[c] :
             written'[c][i] \in kinds /\ line = [kind |-> written'[c][i], src |-> c, seq |-> i]
  BY DEF WrittenLines

\* Finitely many lines have been written.
FinitelyManyWritten == IsFiniteSet(WrittenLines(ClientKinds))

\* A newline adds one to the lines that were written.
LEMMA WrittenGrows ==
  ASSUME Inv, NEW c \in Conns, WriteRest(c), NEW line, line = HalfSaid(c), NEW kinds
  PROVE  /\ WrittenLines(kinds)' = IF line.kind \in kinds THEN WrittenLines(kinds) \cup {line}
                                                          ELSE WrittenLines(kinds)
         /\ line \notin WrittenLines(kinds)
  <1>1. PICK w : w = written[c]
    OBVIOUS
  <1>2. PICK k : k = unfinished[c]
    OBVIOUS
  <1>3. /\ w \in Seq(ClientKinds) /\ k \in ClientKinds
        /\ written'[c] = Append(w, k) /\ \A d \in Conns \ {c} : written'[d] = written[d]
    BY <1>1, <1>2 DEF WriteRest, Inv, Books, TypeOK
  <1>4. PICK n \in Nat : n = Len(w)
    BY <1>3, LenProperties
  <1>5. /\ DOMAIN w = 1 .. n /\ DOMAIN written'[c] = 1 .. n + 1
        /\ \A i \in 1 .. n : written'[c][i] = w[i]
        /\ written'[c][n + 1] = k
    BY <1>3, <1>4, AppendProperties, LenProperties
  <1>6. line = [kind |-> k, src |-> c, seq |-> n + 1]
    BY <1>1, <1>2, <1>4 DEF HalfSaid
  <1>7. \A i \in DOMAIN written'[c] : i = n + 1 \/ (i \in DOMAIN w /\ i # n + 1)
    BY <1>5
  <1>8. n + 1 \in DOMAIN written'[c] /\ n + 1 \notin DOMAIN w
        /\ \A i \in DOMAIN w : i \in DOMAIN written'[c]
    BY <1>5
  <1>9. line \notin WrittenLines(kinds)
    <2> SUFFICES ASSUME NEW d \in Conns, NEW i \in DOMAIN written[d],
                        line = [kind |-> written[d][i], src |-> d, seq |-> i]
                 PROVE  FALSE
      BY WrittenIs
    <2>1. d = c /\ i = n + 1
      BY <1>6
    <2> QED BY <1>1, <1>8, <2>1
  <1>10. ASSUME NEW l
         PROVE  l \in WrittenLines(kinds)' <=>
                  l \in WrittenLines(kinds) \/ (l = line /\ k \in kinds)
    <2>1. ASSUME NEW d \in Conns, NEW i \in DOMAIN written'[d], written'[d][i] \in kinds,
                 l = [kind |-> written'[d][i], src |-> d, seq |-> i]
          PROVE  l \in WrittenLines(kinds) \/ (l = line /\ k \in kinds)
      <3>1. CASE d = c /\ i = n + 1
        BY <1>5, <1>6, <2>1, <3>1
      <3>2. CASE d = c /\ i # n + 1
        <4>1. i \in DOMAIN w /\ written'[c][i] = w[i]
          BY <1>5, <1>7, <3>2
        <4> QED BY <1>1, <2>1, <3>2, <4>1, WrittenIs
      <3>3. CASE d # c
        BY <1>3, <2>1, <3>3, WrittenIs
      <3> QED BY <3>1, <3>2, <3>3
    <2>2. ASSUME NEW d \in Conns, NEW i \in DOMAIN written[d], written[d][i] \in kinds,
                 l = [kind |-> written[d][i], src |-> d, seq |-> i]
          PROVE  l \in WrittenLines(kinds)'
      <3>1. i \in DOMAIN written'[d] /\ written'[d][i] = written[d][i]
        BY <1>1, <1>3, <1>5, <1>8
      <3> QED BY <2>2, <3>1, WrittenIsNext
    <2>3. ASSUME l = line, k \in kinds
          PROVE  l \in WrittenLines(kinds)'
      BY <1>5, <1>6, <1>8, <2>3, WrittenIsNext
    <2> QED BY <2>1, <2>2, <2>3, WrittenIs, WrittenIsNext
  <1>11. line.kind = k
    BY <1>6
  <1> QED BY <1>9, <1>10, <1>11

\* In order and without a complete line, there is half a line at most.
LEMMA NoNewline ==
  ASSUME NEW c, NEW b \in Seq(Chunk), InOrder(c, b), ~HasLine(b)
  PROVE  Len(b) \in {0, 1} /\ \A i \in DOMAIN b : ~b[i].nl
  <1>1. PICK n \in Nat : n = Len(b)
    BY LenProperties
  <1>2. DOMAIN b = 1 .. n /\ (n # 0 => b # <<>>)
    BY <1>1, LenProperties, EmptySeq
  <1>3. n # 0 => ~b[1].nl
    BY <1>2 DEF InOrder
  <1>4. ~(n >= 2)
    <2> SUFFICES ASSUME n >= 2 PROVE FALSE
      OBVIOUS
    <2>1. 2 \in 2 .. n /\ 2 \in 1 .. n /\ 2 - 1 = 1
      OBVIOUS
    <2>2. b[2].nl
      BY <1>1, <1>3, <2>1 DEF InOrder
    <2>3. \A j \in 1 .. 1 : ~b[j].nl
      BY <1>3
    <2>4. IsFirstNewline(b, 2)
      BY <2>1, <2>2, <2>3 DEF IsFirstNewline
    <2> QED BY <1>2, <2>1, <2>4 DEF HasLine
  <1> QED BY <1>1, <1>2, <1>3, <1>4

\* What was written of some kinds, and handled.
Handled(kinds) == WrittenLines(kinds) \ AllFull

\* The sets that are counted are finite.
LEMMA HandledFinite ==
  ASSUME FinitelyManyWritten, NEW kinds \in SUBSET ClientKinds
  PROVE  IsFiniteSet(Handled(kinds))
  <1>1. WrittenLines(kinds) \subseteq WrittenLines(ClientKinds)
    <2>1. \A l \in WrittenLines(kinds) : l \in WrittenLines(ClientKinds)
      BY WrittenIs
    <2> QED BY <2>1
  <1>2. Handled(kinds) \in SUBSET WrittenLines(ClientKinds)
    BY <1>1 DEF Handled
  <1> QED BY <1>2, FS_Subset DEF FinitelyManyWritten

\* Only a handler adds to what was handled, and only the line it takes.
LEMMA HandledStep ==
  ASSUME Inv, Inv', InputKept, EndIsLast, [Next]_vars, NEW kinds
  PROVE  \/ Handled(kinds)' = Handled(kinds) /\ ~Handle
         \/ /\ Handle
            /\ \E c \in Conns : c = fd_table[cur] /\ LET line == Unread(c)[2].line IN
                 /\ line = NextLine(client_buffers[cur]) /\ line \notin Handled(kinds)
                 /\ Handled(kinds)' = IF line.kind \in kinds THEN Handled(kinds) \cup {line}
                                                             ELSE Handled(kinds)
  <1>w. ASSUME UNCHANGED written
        PROVE  WrittenLines(kinds)' = WrittenLines(kinds)
    BY <1>w DEF WrittenLines
  <1>1. ASSUME NEW c \in Conns, NEW kind \in ClientKinds, WriteHalf(c, kind)
        PROVE  Handled(kinds)' = Handled(kinds) /\ ~Handle
    <2> DEFINE line == [kind |-> kind, src |-> c, seq |-> Len(written[c]) + 1]
               x == [line |-> line, nl |-> FALSE]
    <2>1. line \in Line /\ Unread(c)' = Append(Unread(c), x) /\ KeepsBut(c)
      BY <1>1, HalfEffect
    <2>2. x \in Chunk /\ ~x.nl
      BY <2>1 DEF Chunk
    <2> HIDE DEF x
    <2>3. AllFull' = AllFull
      BY <2>1, <2>2, FullAppend
    <2>4. UNCHANGED written /\ ~Handle
      BY <1>1 DEF WriteHalf, Handle, HandleHelloLine, HandleInvalidLine, HandleStatusLine, clientVars,
         Inv, Books, TypeOK, ClientKinds
    <2> QED BY <1>w, <2>3, <2>4 DEF Handled
  <1>2. ASSUME NEW c \in Conns, WriteRest(c)
        PROVE  Handled(kinds)' = Handled(kinds) /\ ~Handle
    <2>1. PICK line : line = HalfSaid(c)
      OBVIOUS
    <2> DEFINE x == [line |-> line, nl |-> TRUE]
    <2>2. line \in Line /\ Unread(c)' = Append(Unread(c), x) /\ KeepsBut(c)
      BY <1>2, <2>1, RestEffect
    <2>3. x \in Chunk /\ x.nl /\ x.line = line
      BY <2>2 DEF Chunk
    <2> HIDE DEF x
    <2>4. AllFull' = AllFull \cup {line}
      BY <2>2, <2>3, FullAppend
    <2>5. /\ WrittenLines(kinds)' = IF line.kind \in kinds THEN WrittenLines(kinds) \cup {line}
                                                           ELSE WrittenLines(kinds)
          /\ line \notin WrittenLines(kinds)
      BY <1>2, <2>1, WrittenGrows
    <2>6. ~Handle
      BY <1>2 DEF WriteRest, Handle, HandleHelloLine, HandleInvalidLine, HandleStatusLine, clientVars,
         Inv, Books, TypeOK, ClientKinds
    <2> QED BY <2>4, <2>5, <2>6 DEF Handled
  <1>3. CASE (\E d \in Conns : MovesBytes(d)) \/ AcceptOne \/ ClientEvent \/ PrintMetricsIfDue \/ Idle
    <2>1. Keeps
      BY <1>3, KeepsBytes
    <2>2. AllFull' = AllFull
      BY <2>1 DEF Keeps, AllFull, FullLines
    <2>3. UNCHANGED written
      BY <1>3 DEF MovesBytes, Connect, ReadChunk, CloseClient, AcceptOne, ClientEvent,
                  PrintMetricsIfDue, Idle, clientVars
    <2>4. Handled(kinds)' = Handled(kinds)
      BY <1>w, <2>2, <2>3 DEF Handled
    <2>5. ~Handle
      <3> SUFFICES ASSUME Handle PROVE FALSE
        OBVIOUS
      <3>1. PICK d \in Conns : Dropped(Unread(d), Unread(d)')
        BY HandleEffect
      <3>2. Unread(d)' = Unread(d)
        BY <2>1 DEF Keeps
      <3>3. Len(Unread(d)) \in Nat
        BY UnreadType DEF Inv, Books
      <3> QED BY <3>1, <3>2, <3>3 DEF Dropped
    <2> QED BY <2>4, <2>5
  <1>4. CASE Handle
    <2>1. PICK c \in Conns : /\ c = fd_table[cur]
                             /\ Dropped(Unread(c), Unread(c)') /\ KeepsBut(c) /\ Unread(c)[2].nl
                             /\ Unread(c)[2] \in Chunk
                             /\ Unread(c)[2].line = NextLine(client_buffers[cur])
                             /\ UNCHANGED clientVars
      BY <1>4, HandleEffect
    <2>2. PICK line : line = Unread(c)[2].line
      OBVIOUS
    <2>3. AllFull' = AllFull \ {line} /\ line \in AllFull
      BY <2>1, <2>2, FullDrop
    <2>4. WrittenLines(kinds)' = WrittenLines(kinds)
      BY <1>w, <2>1 DEF clientVars
    <2>5. line \in WrittenLines(kinds) <=> line.kind \in kinds
      <3>1. line.seq \in DOMAIN written[c] /\ line.kind = written[c][line.seq] /\ line.src = c
        <4>1. PICK q : q = Unread(c)
          OBVIOUS
        <4>2. q \in Seq(Chunk) /\ InOrder(c, q) /\ Spoken(c, q)
          BY <4>1, UnreadType DEF Inv, Books, InputKept, KeptOf
        <4>3. 2 \in DOMAIN q
          <5>1. Dropped(q, Unread(c)') /\ q[2].nl
            BY <2>1, <4>1
          <5>2. Len(q) \in Nat /\ DOMAIN q = 1 .. Len(q)
            BY <4>2, LenProperties
          <5> QED BY <5>1, <5>2 DEF Dropped
        <4> QED BY <2>1, <2>2, <4>1, <4>2, <4>3 DEF InOrder, Spoken
      <3>2. line \in Line
        BY <2>1, <2>2 DEF Chunk
      <3>3. line = [kind |-> line.kind, src |-> line.src, seq |-> line.seq]
        BY <3>2 DEF Line
      <3>4. line.kind \in kinds => line \in WrittenLines(kinds)
        BY <3>1, <3>3, WrittenIs
      <3>5. line \in WrittenLines(kinds) => line.kind \in kinds
        BY WrittenIs
      <3> QED BY <3>4, <3>5
    <2>6. Handled(kinds)' = IF line.kind \in kinds THEN Handled(kinds) \cup {line} ELSE Handled(kinds)
      BY <2>3, <2>4, <2>5 DEF Handled
    <2>7. line \notin Handled(kinds)
      BY <2>3 DEF Handled
    <2> QED BY <1>4, <2>1, <2>2, <2>6, <2>7
  <1>5. CASE LinesDone
    <2>1. ~Handle
      BY <1>5 DEF LinesDone, Handle, HandleHelloLine, HandleInvalidLine, HandleStatusLine, TakeLine
    <2>2. UNCHANGED written
      BY <1>5 DEF LinesDone, clientVars
    <2>3. CASE Keeps
      <3>1. AllFull' = AllFull
        BY <2>3 DEF Keeps, AllFull, FullLines
      <3> QED BY <1>w, <2>1, <2>2, <3>1 DEF Handled
    <2>4. ASSUME NEW c \in Conns, Unread(c)' = <<>>, KeepsBut(c), cur \in OpenFds,
                 ~HasLine(client_buffers[cur]), Unread(c) = client_buffers[cur]
          PROVE  Handled(kinds)' = Handled(kinds)
      <3>1. \A i \in DOMAIN Unread(c) : ~Unread(c)[i].nl
        <4>1. PICK b : b = client_buffers[cur]
          OBVIOUS
        <4>2. b \in Seq(Chunk) /\ ~HasLine(b) /\ InOrder(c, b)
          BY <2>4, <4>1 DEF Inv, Books, TypeOK, TablesAgree, InputKept, KeptOf
        <4>3. \A i \in DOMAIN b : ~b[i].nl
          BY <4>2, NoNewline
        <4> QED BY <2>4, <4>1, <4>3
      <3>2. FullLines(c) = {} /\ FullLines(c)' = {}
        BY <2>4, <3>1 DEF FullLines
      <3>3. \A d \in Conns \ {c} : FullLines(d)' = FullLines(d)
        BY <2>4 DEF KeepsBut, FullLines
      <3>4. AllFull' = AllFull
        BY <3>2, <3>3 DEF AllFull
      <3> QED BY <1>w, <2>2, <3>4 DEF Handled
    <2> QED BY <1>5, <2>1, <2>3, <2>4, EndEffect
  <1> QED BY <1>1, <1>2, <1>3, <1>4, <1>5, StepKinds

\* The counters count what was handled.
Counting ==
  /\ FinitelyManyWritten
  /\ counters.status_received = Cardinality(Handled({"STATUS", "STATUS_ACK"}))
  /\ counters.parse_errors = Cardinality(Handled({"BAD"}))

\* Nobody counts but the handlers.
LEMMA CountersStep ==
  ASSUME Inv, [Next]_vars
  PROVE  LET kind == NextLine(client_buffers[cur]).kind
             got == counters.status_received
             bad == counters.parse_errors
         IN  /\ got \in Nat /\ bad \in Nat
             /\ \/ ~Handle /\ UNCHANGED <<got, bad>>
                \/ HandleHelloLine /\ UNCHANGED <<got, bad>> /\ kind \in {"HELLO", "HELLO_OTHER"}
                \/ HandleInvalidLine /\ got' = got /\ bad' = bad + 1 /\ kind = "BAD"
                \/ HandleStatusLine /\ got' = got + 1 /\ bad' = bad /\ kind \in {"STATUS", "STATUS_ACK"}
  <1>1. counters \in Counters /\ counters.status_received \in Nat /\ counters.parse_errors \in Nat
    BY DEF Inv, Books, TypeOK, Counters
  <1>2. CASE HandleHelloLine
    BY <1>1, <1>2 DEF HandleHelloLine, TakeLine
  <1>3. CASE HandleInvalidLine
    BY <1>1, <1>3 DEF HandleInvalidLine, TakeLine, Counters
  <1>4. CASE HandleStatusLine
    BY <1>1, <1>4 DEF HandleStatusLine, TakeLine, Counters
  <1>5. ASSUME ~Handle
        PROVE  /\ counters'.status_received = counters.status_received
               /\ counters'.parse_errors = counters.parse_errors
    <2>1. \/ AcceptOne \/ LinesDone \/ PrintMetricsIfDue \/ UNCHANGED counters
          \/ counters' = [counters EXCEPT !.ack_sent = @ + 1]
      BY <1>5, StepKinds DEF WriteHalf, WriteRest, MovesBytes, Connect, ReadChunk, CloseClient,
         ClientEvent, Idle, serverVars
    <2> QED BY <1>1, <2>1 DEF AcceptOne, LinesDone, Disconnect, PrintMetricsIfDue, Counters
  <1> QED BY <1>1, <1>2, <1>3, <1>4, <1>5 DEF Handle

\* Every step keeps the count.
LEMMA CountStep ==
  ASSUME Inv, Inv', InputKept, EndIsLast, Counting, [Next]_vars
  PROVE  Counting'
  <1>1. PICK kind : kind = NextLine(client_buffers[cur]).kind
    OBVIOUS
  <1>2. FinitelyManyWritten'
    <2>1. CASE UNCHANGED written
      BY <2>1 DEF Counting, FinitelyManyWritten, WrittenLines
    <2>2. ASSUME NEW c \in Conns, WriteRest(c) PROVE FinitelyManyWritten'
      <3>1. PICK line : line = HalfSaid(c)
        OBVIOUS
      <3>2. WrittenLines(ClientKinds)' = WrittenLines(ClientKinds) \cup {line}
            \/ WrittenLines(ClientKinds)' = WrittenLines(ClientKinds)
        BY <2>2, <3>1, WrittenGrows
      <3>3. IsFiniteSet(WrittenLines(ClientKinds))
        BY DEF Counting, FinitelyManyWritten
      <3>4. IsFiniteSet(WrittenLines(ClientKinds) \cup {line})
        BY <3>3, FS_AddElement
      <3> QED BY <3>2, <3>3, <3>4 DEF FinitelyManyWritten
    <2>3. UNCHANGED written \/ \E c \in Conns : WriteRest(c)
      BY StepKinds DEF WriteHalf, MovesBytes, Connect, ReadChunk, CloseClient, AcceptOne,
         ClientEvent, Handle, HandleHelloLine, HandleInvalidLine, HandleStatusLine, LinesDone,
         PrintMetricsIfDue, Idle, clientVars
    <2> QED BY <2>1, <2>2, <2>3
  <1>3. ASSUME NEW kinds \in SUBSET ClientKinds
        PROVE  /\ Cardinality(Handled(kinds)) \in Nat
               /\ Cardinality(Handled(kinds)') =
                    IF Handle /\ kind \in kinds THEN Cardinality(Handled(kinds)) + 1
                                                ELSE Cardinality(Handled(kinds))
    <2>1. IsFiniteSet(Handled(kinds))
      BY HandledFinite DEF Counting
    <2>2. CASE Handled(kinds)' = Handled(kinds) /\ ~Handle
      BY <2>1, <2>2, FS_CardinalityType
    <2>3. ASSUME Handle, NEW line, line.kind = kind, line \notin Handled(kinds),
                 Handled(kinds)' = IF line.kind \in kinds THEN Handled(kinds) \cup {line}
                                                          ELSE Handled(kinds)
          PROVE  Cardinality(Handled(kinds)') =
                    IF Handle /\ kind \in kinds THEN Cardinality(Handled(kinds)) + 1
                                                ELSE Cardinality(Handled(kinds))
      <3>1. Cardinality(Handled(kinds) \cup {line}) = Cardinality(Handled(kinds)) + 1
        BY <2>1, <2>3, FS_AddElement
      <3> QED BY <2>3, <3>1
    <2> QED BY <1>1, <2>1, <2>2, <2>3, HandledStep, FS_CardinalityType
  <1>4. {"STATUS", "STATUS_ACK"} \in SUBSET ClientKinds /\ {"BAD"} \in SUBSET ClientKinds
    BY DEF ClientKinds
  <1>5. PICK S : S = {"STATUS", "STATUS_ACK"}
    OBVIOUS
  <1>6. PICK B : B = {"BAD"}
    OBVIOUS
  <1>7. /\ Cardinality(Handled(S)) = counters.status_received
        /\ Cardinality(Handled(B)) = counters.parse_errors
    BY <1>5, <1>6 DEF Counting
  <1>8. /\ Cardinality(Handled(S)') = counters'.status_received
        /\ Cardinality(Handled(B)') = counters'.parse_errors
    <2>1. /\ Cardinality(Handled(S)') = IF Handle /\ kind \in S
                                        THEN counters.status_received + 1 ELSE counters.status_received
          /\ Cardinality(Handled(B)') = IF Handle /\ kind \in B
                                        THEN counters.parse_errors + 1 ELSE counters.parse_errors
      BY <1>3, <1>4, <1>5, <1>6, <1>7
    <2> QED BY <1>1, <1>5, <1>6, <2>1, CountersStep DEF Handle
  <1> QED BY <1>2, <1>5, <1>6, <1>8 DEF Counting

-----------------------------------------------------------------------------
(* The conversation of a client that only reports.                         *)

\* A chunk behind the others adds a question or none.
LEMMA QuestionsAppend ==
  ASSUME NEW q \in Seq(Chunk), NEW x \in Chunk
  PROVE  Questions(Append(q, x)) = IF x.nl /\ x.line.kind = "STATUS_ACK"
                                   THEN Questions(q) \cup {Len(q) + 1} ELSE Questions(q)
  <1>1. PICK r : r = Append(q, x)
    OBVIOUS
  <1>2. PICK n \in Nat : n = Len(q)
    BY LenProperties
  <1>3. /\ DOMAIN q = 1 .. n /\ DOMAIN r = 1 .. n + 1
        /\ \A i \in 1 .. n : r[i] = q[i]
        /\ r[n + 1] = x
    BY <1>1, <1>2, Appending
  <1>4. \A i \in DOMAIN r : i = n + 1 \/ i \in DOMAIN q
    BY <1>3
  <1>5. n + 1 \notin DOMAIN q /\ n + 1 \in DOMAIN r /\ DOMAIN q \subseteq DOMAIN r
    BY <1>3
  <1>6. Questions(r) = IF x.nl /\ x.line.kind = "STATUS_ACK"
                       THEN Questions(q) \cup {n + 1} ELSE Questions(q)
    BY <1>3, <1>4, <1>5 DEF Questions
  <1> QED BY <1>1, <1>2, <1>6

\* Handling the first line removes it, and no other.
LEMMA QuestionsDrop ==
  ASSUME NEW c, NEW q \in Seq(Chunk), NEW r \in Seq(Chunk), InOrder(c, q),
         Dropped(q, r), q[2].nl
  PROVE  /\ \A i \in Questions(r) : i \in DOMAIN r /\ i + 2 \in Questions(q) /\ i + 2 # 2
         /\ \A i \in Questions(q) : i # 2 => i - 2 \in Questions(r) /\ r[i - 2] = q[i]
         /\ 2 \in Questions(q) <=> q[2].line.kind = "STATUS_ACK"
  <1>1. /\ 2 \in DOMAIN q /\ DOMAIN r = 1 .. Len(q) - 2 /\ DOMAIN q = 1 .. Len(q) /\ Len(q) \in Nat
        /\ \A i \in DOMAIN r : i + 2 \in DOMAIN q /\ r[i] = q[i + 2] /\ i \in Nat
    BY OrderDrop
  <1>2. ~q[1].nl
    <2>1. q # <<>>
      BY <1>1, EmptySeq
    <2> QED BY <2>1 DEF InOrder
  <1>3. ASSUME NEW i \in Questions(r)
        PROVE  i \in DOMAIN r /\ i + 2 \in Questions(q) /\ i + 2 # 2
    <2>1. i \in DOMAIN r /\ i + 2 \in Questions(q)
      BY <1>1 DEF Questions
    <2> QED BY <1>1, <2>1
  <1>4. ASSUME NEW i \in Questions(q), i # 2
        PROVE  i - 2 \in Questions(r) /\ r[i - 2] = q[i]
    <2>1. i \in DOMAIN q /\ q[i].nl /\ i # 1
      BY <1>2 DEF Questions
    <2>2. i - 2 \in DOMAIN r /\ (i - 2) + 2 = i
      BY <1>1, <1>4, <2>1
    <2>3. r[i - 2] = q[i]
      BY <1>1, <2>2
    <2> QED BY <2>2, <2>3 DEF Questions
  <1>5. 2 \in Questions(q) <=> q[2].line.kind = "STATUS_ACK"
    BY <1>1 DEF Questions
  <1> QED BY <1>3, <1>4, <1>5

\* A client that says no HELLO hears no broadcast.
LEMMA NotInAudience ==
  ASSUME Inv, KeepsToItsProgram, NEW c \in Conns, "HELLO" \notin Says[c], NEW fd
  PROVE  c \notin Audience(fd)
  <1> SUFFICES ASSUME NEW f \in viewer_client_fds, fd_table[f] = c
               PROVE  FALSE
    BY DEF Audience
  <1>1. Saluted(c)
    BY DEF Inv, ViewersSaluted
  <1> QED BY <1>1 DEF Saluted, KeepsToItsProgram

\* It is sent the answer to its question, in full when nothing is queued, and
\* nothing else.
LEMMA AnswerSent ==
  ASSUME Inv, KeepsToItsProgram, NEW c \in Conns, "HELLO" \notin Says[c], peer[c] = "open",
         Handle \/ PrintMetricsIfDue,
         NEW line, line = NextLine(client_buffers[cur])
  PROVE  outbox'[c] = IF Handle /\ c = fd_table[cur] /\ line.kind = "STATUS_ACK"
                      THEN Pushed(outbox[c], AckFor(line)) ELSE outbox[c]
  <1>1. \A fd : c \notin Audience(fd)
    BY NotInAudience
  <1>2. CASE HandleStatusLine
    <2> DEFINE acked == IF line.kind = "STATUS_ACK" THEN {fd_table[cur]} ELSE {}
               out == [d \in acked \cup Audience(cur) |->
                         IF d \in acked THEN AckFor(line) ELSE line]
    <2>1. Transmit(out)
      BY <1>2 DEF HandleStatusLine
    <2>2. outbox'[c] = IF c \in DOMAIN out THEN Pushed(outbox[c], out[c]) ELSE outbox[c]
      <3> HIDE DEF out
      <3> QED BY <2>1 DEF Transmit
    <2>3. c \in DOMAIN out <=> c \in acked
      BY <1>1
    <2>4. c \in acked => out[c] = AckFor(line)
      OBVIOUS
    <2>5. c \in acked <=> c = fd_table[cur] /\ line.kind = "STATUS_ACK"
      OBVIOUS
    <2> HIDE DEF out, acked
    <2> QED BY <1>2, <2>2, <2>3, <2>4, <2>5 DEF Handle
  <1>3. CASE HandleHelloLine \/ HandleInvalidLine
    <2>1. UNCHANGED outbox
      BY <1>3 DEF HandleHelloLine, HandleInvalidLine, kernelVars
    <2>2. line.kind # "STATUS_ACK"
      BY <1>3 DEF HandleHelloLine, HandleInvalidLine, TakeLine
    <2> QED BY <2>1, <2>2
  <1>4. CASE PrintMetricsIfDue
    <2>1. CASE UNCHANGED outbox
      BY <1>4, <2>1 DEF PrintMetricsIfDue, Handle, HandleHelloLine, HandleInvalidLine,
         HandleStatusLine, TakeLine
    <2> DEFINE out == [d \in Audience(ListenFd) |-> MetricsLine]
    <2>2. CASE Transmit(out)
      <3>1. c \notin DOMAIN out
        BY <1>1
      <3> HIDE DEF out
      <3>2. UNCHANGED outbox[c]
        BY <2>2, <3>1 DEF Transmit
      <3>3. ~Handle
        BY <1>4 DEF PrintMetricsIfDue, Handle, HandleHelloLine, HandleInvalidLine,
           HandleStatusLine, TakeLine
      <3> QED BY <3>2, <3>3
    <2> QED BY <1>4, <2>1, <2>2 DEF PrintMetricsIfDue
  <1> QED BY <1>2, <1>3, <1>4 DEF Handle

\* An empty queue has room for an ACK.
LEMMA PushedWhole ==
  ASSUME NEW line \in Line
  PROVE  Pushed(<<>>, line) = Halves(line)
  <1>1. SendBuf - Len(<<>>) > 1
    BY ServerAssumption
  <1>2. Halves(line) \in Seq(Chunk)
    BY HalvesType
  <1>3. <<>> \o Halves(line) = Halves(line)
    BY <1>2, ConcatEmptySeq
  <1> QED BY <1>1, <1>3 DEF Pushed

\* Nothing of the conversation changes.
LEMMA TalkSame ==
  ASSUME NEW c \in Conns, Talk(c), Unread(c)' = Unread(c), awaiting'[c] = awaiting[c],
         outbox'[c] = outbox[c], written'[c] = written[c]
  PROVE  Talk(c)'
  <1>1. PICK q : q = Unread(c)
    OBVIOUS
  <1>2. PICK last : last = LastLine(c)
    OBVIOUS
  <1>3. Unread(c)' = q /\ LastLine(c)' = last
    BY <1>1, <1>2 DEF LastLine
  <1>4. CASE Silent(c)
    BY <1>1, <1>3, <1>4 DEF Silent, Talk, Questions
  <1>5. CASE Asking(c)
    <2>1. PICK i \in DOMAIN q : Questions(q) = {i} /\ q[i] = [line |-> last, nl |-> TRUE]
      BY <1>1, <1>2, <1>5 DEF Asking
    <2>2. awaiting'[c] /\ outbox'[c] = <<>>
      BY <1>5 DEF Asking
    <2>3. Asking(c)'
      BY <1>3, <2>1, <2>2 DEF Asking, Questions
    <2> QED BY <2>3 DEF Talk
  <1>6. CASE Answered(c)
    <2>1. Answer(c)' = Answer(c)
      BY <1>2, <1>3 DEF Answer, AckFor, Halves
    <2>2. Questions(q) = {} /\ awaiting'[c]
      BY <1>1, <1>6 DEF Answered
    <2>3. outbox'[c] = Answer(c)' \/ outbox'[c] = <<Answer(c)'[2]>>
      BY <1>6, <2>1 DEF Answered
    <2>4. Answered(c)'
      BY <1>3, <2>2, <2>3 DEF Answered, Questions
    <2> QED BY <2>4 DEF Talk
  <1> QED BY <1>4, <1>5, <1>6 DEF Talk

\* Writing moves the conversation to a question, or leaves it silent.
LEMMA TalkByRest ==
  ASSUME Inv, Inv', KeepsToItsProgram, NEW c \in Conns, Talk(c), WriteRest(c)
  PROVE  Talk(c)'
  <1>1. PICK q : q = Unread(c)
    OBVIOUS
  <1>2. PICK line : line = HalfSaid(c)
    OBVIOUS
  <1>3. PICK x : x = [line |-> line, nl |-> TRUE]
    OBVIOUS
  <1>4. line \in Line /\ Unread(c)' = Append(q, x)
    BY <1>1, <1>2, <1>3, RestEffect
  <1>5. q \in Seq(Chunk) /\ x \in Chunk
    BY <1>1, <1>3, <1>4, UnreadType DEF Inv, Books, Chunk
  <1>6. PICK r : r = Append(q, x)
    OBVIOUS
  <1>7. ~awaiting[c] /\ unfinished[c] # "none"
    BY DEF WriteRest, KeepsToItsProgram
  <1>8. outbox[c] = <<>> /\ Questions(q) = {}
    BY <1>1, <1>7 DEF Talk, Silent, Asking, Answered
  <1>9. /\ UNCHANGED outbox /\ awaiting'[c] = (unfinished[c] = "STATUS_ACK")
        /\ written'[c] = Append(written[c], unfinished[c])
        /\ written[c] \in Seq(ClientKinds) /\ unfinished[c] \in ClientKinds
    BY DEF WriteRest, Inv, Books, TypeOK
  <1>10. line.kind = unfinished[c] /\ x.nl /\ x.line = line
    BY <1>2, <1>3 DEF HalfSaid
  <1>11. Questions(r) = IF line.kind = "STATUS_ACK" THEN {Len(q) + 1} ELSE {}
    BY <1>5, <1>6, <1>8, <1>10, QuestionsAppend
  <1>12. Unread(c)' = r
    BY <1>4, <1>6
  <1>13. CASE unfinished[c] # "STATUS_ACK"
    <2>1. Questions(r) = {} /\ ~awaiting'[c] /\ outbox'[c] = <<>>
      BY <1>8, <1>9, <1>10, <1>11, <1>13
    <2> QED BY <1>12, <2>1 DEF Talk, Silent, Questions
  <1>14. CASE unfinished[c] = "STATUS_ACK"
    <2>1. Len(written'[c]) = Len(written[c]) + 1
      BY <1>9, AppendProperties
    <2>2. LastLine(c)' = line
      BY <1>2, <1>14, <2>1 DEF LastLine, HalfSaid
    <2>3. Len(q) + 1 \in DOMAIN r /\ r[Len(q) + 1] = x
      BY <1>5, <1>6, Appending
    <2>4. Questions(r) = {Len(q) + 1} /\ awaiting'[c] /\ outbox'[c] = <<>>
      BY <1>8, <1>9, <1>10, <1>11, <1>14
    <2>5. Asking(c)'
      BY <1>3, <1>12, <2>2, <2>3, <2>4 DEF Asking, Questions
    <2> QED BY <2>5 DEF Talk
  <1> QED BY <1>13, <1>14

\* A half line changes nothing of it.
LEMMA TalkByHalf ==
  ASSUME Inv, Inv', NEW c \in Conns, Talk(c),
         NEW kind \in ClientKinds, WriteHalf(c, kind)
  PROVE  Talk(c)'
  <1> DEFINE line == [kind |-> kind, src |-> c, seq |-> Len(written[c]) + 1]
             x == [line |-> line, nl |-> FALSE]
  <1>1. PICK q : q = Unread(c)
    OBVIOUS
  <1>2. line \in Line /\ Unread(c)' = Append(q, x)
    BY <1>1, HalfEffect
  <1>3. q \in Seq(Chunk) /\ x \in Chunk /\ ~x.nl
    BY <1>1, <1>2, UnreadType DEF Inv, Books, Chunk
  <1> HIDE DEF x
  <1>4. PICK r : r = Append(q, x)
    OBVIOUS
  <1>5. Questions(r) = Questions(q)
    BY <1>3, <1>4, QuestionsAppend
  <1>6. ~awaiting[c] /\ UNCHANGED <<awaiting, outbox>>
    BY DEF WriteHalf
  <1>7. outbox[c] = <<>> /\ Questions(q) = {}
    BY <1>1, <1>6 DEF Talk, Silent, Asking, Answered
  <1>8. Questions(r) = {} /\ ~awaiting'[c] /\ outbox'[c] = <<>>
    BY <1>5, <1>6, <1>7
  <1>9. Unread(c)' = r
    BY <1>2, <1>4
  <1> QED BY <1>8, <1>9 DEF Talk, Silent, Questions

\* The ACK is read in two pieces, and the second one ends the wait.
LEMMA TalkByRead ==
  ASSUME Inv, Inv', NEW c \in Conns, Talk(c), ReadChunk(c)
  PROVE  Talk(c)'
  <1>1. Unread(c)' = Unread(c)
    BY KeepsBytes DEF Keeps, MovesBytes
  <1>2. PICK q : q = Unread(c)
    OBVIOUS
  <1>3. /\ outbox[c] # <<>> /\ outbox'[c] = Tail(outbox[c]) /\ UNCHANGED written
        /\ awaiting'[c] = (awaiting[c] /\ ~(Head(outbox[c]).nl /\ Head(outbox[c]).line.kind = "ACK"))
    BY DEF ReadChunk, Inv, Books, TypeOK
  <1>4. Answered(c)
    BY <1>3 DEF Talk, Silent, Asking
  <1>5. PICK ack : ack = AckFor(LastLine(c))
    OBVIOUS
  <1>6. PICK first : first = [line |-> ack, nl |-> FALSE]
    OBVIOUS
  <1>7. PICK second : second = [line |-> ack, nl |-> TRUE]
    OBVIOUS
  <1>8. Answer(c) = <<first, second>>
    BY <1>5, <1>6, <1>7 DEF Answer, Halves
  <1>9. Answer(c)' = <<first, second>>
    BY <1>3, <1>5, <1>6, <1>7 DEF Answer, Halves, LastLine, AckFor
  <1>10. ~first.nl /\ second.nl /\ second.line.kind = "ACK"
    BY <1>5, <1>6, <1>7 DEF AckFor
  <1>11. awaiting[c] /\ Questions(q) = {}
    BY <1>2, <1>4 DEF Answered
  <1>12. CASE outbox[c] = <<first, second>>
    <2>1. Head(outbox[c]) = first /\ outbox'[c] = <<second>>
      BY <1>3, <1>12
    <2>2. awaiting'[c]
      BY <1>3, <1>10, <1>11, <2>1
    <2>3. outbox'[c] = <<Answer(c)'[2]>>
      BY <1>9, <2>1
    <2>4. Answered(c)'
      BY <1>1, <1>2, <1>11, <2>2, <2>3 DEF Answered, Questions
    <2> QED BY <2>4 DEF Talk
  <1>13. CASE outbox[c] = <<second>>
    <2>1. Head(outbox[c]) = second /\ outbox'[c] = <<>>
      BY <1>3, <1>13
    <2>2. ~awaiting'[c]
      BY <1>3, <1>10, <2>1
    <2> QED BY <1>1, <1>2, <1>11, <2>1, <2>2 DEF Talk, Silent, Questions
  <1>14. Answer(c)[2] = second
    BY <1>8
  <1> QED BY <1>4, <1>8, <1>12, <1>13, <1>14 DEF Answered

\* Its question is answered when it is handled.
LEMMA TalkByTake ==
  ASSUME Inv, Inv', InputKept, KeepsToItsProgram, NEW c \in Conns, Talk(c), "HELLO" \notin Says[c],
         peer[c] = "open", Handle, c = fd_table[cur],
         Dropped(Unread(c), Unread(c)'), Unread(c)[2].nl,
         Unread(c)[2].line = NextLine(client_buffers[cur]), UNCHANGED clientVars
  PROVE  Talk(c)'
  <1>1. PICK q : q = Unread(c)
    OBVIOUS
  <1>2. PICK r : r = Unread(c)'
    OBVIOUS
  <1>3. q \in Seq(Chunk) /\ r \in Seq(Chunk) /\ InOrder(c, q) /\ Dropped(q, r) /\ q[2].nl
    BY <1>1, <1>2, UnreadType, UnreadTypeNext DEF Inv, Books, InputKept, KeptOf
  <1>4. PICK line : line = NextLine(client_buffers[cur])
    OBVIOUS
  <1>5. q[2].line = line
    BY <1>1, <1>4
  <1>6. /\ \A i \in Questions(r) : i \in DOMAIN r /\ i + 2 \in Questions(q) /\ i + 2 # 2
        /\ \A i \in Questions(q) : i # 2 => i - 2 \in Questions(r) /\ r[i - 2] = q[i]
        /\ 2 \in Questions(q) <=> line.kind = "STATUS_ACK"
    BY <1>3, <1>5, QuestionsDrop
  <1>7. outbox'[c] = IF line.kind = "STATUS_ACK" THEN Pushed(outbox[c], AckFor(line)) ELSE outbox[c]
    BY <1>4, AnswerSent
  <1>8. UNCHANGED <<written, awaiting>>
    BY DEF clientVars
  <1>9. PICK last : last = LastLine(c)
    OBVIOUS
  <1>10. LastLine(c)' = last
    BY <1>8, <1>9 DEF LastLine
  <1>11. CASE Questions(q) = {}
    <2>1. Questions(r) = {} /\ outbox'[c] = outbox[c]
      BY <1>6, <1>7, <1>11
    <2>2. CASE Silent(c)
      BY <1>2, <1>8, <2>1, <2>2 DEF Silent, Talk, Questions
    <2>3. CASE Answered(c)
      <3>1. Answer(c)' = Answer(c)
        BY <1>9, <1>10 DEF Answer, AckFor, Halves
      <3>2. awaiting'[c]
        BY <1>8, <2>3 DEF Answered
      <3>3. outbox'[c] = Answer(c)' \/ outbox'[c] = <<Answer(c)'[2]>>
        BY <2>1, <2>3, <3>1 DEF Answered
      <3>4. Answered(c)'
        BY <1>2, <2>1, <3>2, <3>3 DEF Answered, Questions
      <3> QED BY <3>4 DEF Talk
    <2>4. ~Asking(c)
      BY <1>1, <1>11 DEF Asking
    <2> QED BY <2>2, <2>3, <2>4 DEF Talk
  <1>12. CASE Questions(q) # {}
    <2>1. Asking(c)
      BY <1>1, <1>12 DEF Talk, Silent, Answered
    <2>2. PICK i \in DOMAIN q : Questions(q) = {i} /\ q[i] = [line |-> last, nl |-> TRUE]
      BY <1>1, <1>9, <2>1 DEF Asking
    <2>3. awaiting'[c] /\ outbox[c] = <<>>
      BY <1>8, <2>1 DEF Asking
    <2>4. CASE i = 2
      <3>1. Questions(r) = {}
        BY <1>6, <2>2, <2>4
      <3>2. line.kind = "STATUS_ACK" /\ line = last
        <4>1. q[2].line = last
          BY <2>2, <2>4
        <4> QED BY <1>5, <1>6, <2>2, <2>4, <4>1
      <3>3. AckFor(line) \in Line
        <4>1. q[2] \in Chunk
          BY <1>3, <2>2, <2>4, LenProperties, ElementOfSeq
        <4> QED BY <1>5, <4>1 DEF AckFor, Line, Chunk
      <3>4. outbox'[c] = Halves(AckFor(last))
        BY <1>7, <2>3, <3>2, <3>3, PushedWhole
      <3>5. outbox'[c] = Answer(c)'
        BY <1>10, <3>4 DEF Answer, Halves, AckFor
      <3>6. Answered(c)'
        BY <1>2, <2>3, <3>1, <3>5 DEF Answered, Questions
      <3> QED BY <3>6 DEF Talk
    <2>5. CASE i # 2
      <3>1. line.kind # "STATUS_ACK" /\ outbox'[c] = <<>>
        BY <1>6, <1>7, <2>2, <2>3, <2>5
      <3>2. i - 2 \in Questions(r) /\ r[i - 2] = q[i] /\ i - 2 \in DOMAIN r
        BY <1>6, <2>2, <2>5
      <3>3. \A j \in Questions(r) : j = i - 2
        <4> TAKE j \in Questions(r)
        <4>1. j + 2 = i /\ j \in DOMAIN r
          BY <1>6, <2>2
        <4>2. DOMAIN r = 1 .. Len(r) /\ Len(r) \in Nat
          BY <1>3, LenProperties
        <4> QED BY <4>1, <4>2
      <3>4. Questions(r) = {i - 2}
        BY <3>2, <3>3
      <3>5. Asking(c)'
        BY <1>2, <1>10, <2>2, <2>3, <3>1, <3>2, <3>4 DEF Asking, Questions
      <3> QED BY <3>5 DEF Talk
    <2> QED BY <2>4, <2>5
  <1> QED BY <1>11, <1>12

\* Every step carries the conversations on.
LEMMA TalkStep ==
  ASSUME Inv, Inv', InputKept, EndIsLast, KeepsToItsProgram, Talks, [Next]_vars
  PROVE  Talks'
  <1> SUFFICES ASSUME NEW c \in Conns, "HELLO" \notin Says[c], peer'[c] \in {"idle", "open"}
               PROVE  Talk(c)'
    BY DEF Talks
  <1>t. TypeOK /\ peer[c] \in {"idle", "open"} /\ Talk(c)
    BY PeerBack DEF Inv, Books, Talks
  <1>s. ASSUME Unread(c)' = Unread(c), awaiting'[c] = awaiting[c],
               outbox'[c] = outbox[c], written'[c] = written[c]
        PROVE  Talk(c)'
    BY <1>s, <1>t, TalkSame
  <1>1. ASSUME NEW d \in Conns, NEW kind \in ClientKinds, WriteHalf(d, kind)
        PROVE  Talk(c)'
    <2>1. CASE c = d
      BY <1>1, <1>t, <2>1, TalkByHalf
    <2>2. CASE c # d
      BY <1>1, <1>s, <2>2, HalfEffect DEF KeepsBut, WriteHalf
    <2> QED BY <2>1, <2>2
  <1>2. ASSUME NEW d \in Conns, WriteRest(d)
        PROVE  Talk(c)'
    <2>1. CASE c = d
      BY <1>2, <1>t, <2>1, TalkByRest
    <2>2. CASE c # d
      <3>1. awaiting'[c] = awaiting[c] /\ written'[c] = written[c] /\ UNCHANGED outbox
        BY <1>2, <1>t, <2>2 DEF WriteRest, TypeOK
      <3> QED BY <1>2, <1>s, <2>2, <3>1, RestEffect DEF KeepsBut
    <2> QED BY <2>1, <2>2
  <1>3. ASSUME NEW d \in Conns, MovesBytes(d)
        PROVE  Talk(c)'
    <2>1. Unread(c)' = Unread(c) /\ UNCHANGED written
      BY <1>3, KeepsBytes DEF Keeps, MovesBytes, Connect, ReadChunk, CloseClient, clientVars
    <2>2. CASE ReadChunk(d) /\ c = d
      BY <1>t, <2>2, TalkByRead
    <2>3. CASE ~(ReadChunk(d) /\ c = d)
      <3>1. awaiting'[c] = awaiting[c]
        BY <1>3, <1>t, <2>3 DEF MovesBytes, Connect, ReadChunk, CloseClient, clientVars, TypeOK
      <3>2. outbox'[c] = outbox[c]
        BY <1>3, <1>t, <2>3 DEF MovesBytes, Connect, ReadChunk, CloseClient, TypeOK
      <3> QED BY <1>s, <2>1, <3>1, <3>2
    <2> QED BY <2>2, <2>3
  <1>4. CASE AcceptOne \/ ClientEvent \/ Idle
    <2>1. Unread(c)' = Unread(c)
      BY <1>4, KeepsBytes DEF Keeps
    <2>2. UNCHANGED <<written, awaiting, outbox>>
      BY <1>4 DEF AcceptOne, ClientEvent, Idle, clientVars, kernelVars
    <2> QED BY <1>s, <2>1, <2>2
  <1>5. CASE PrintMetricsIfDue
    <2>1. Unread(c)' = Unread(c) /\ UNCHANGED <<written, awaiting>>
      BY <1>5, KeepsBytes DEF Keeps, PrintMetricsIfDue, clientVars
    <2>2. outbox'[c] = outbox[c]
      <3>1. CASE UNCHANGED outbox
        BY <3>1
      <3>2. CASE Transmit([d \in Audience(ListenFd) |-> MetricsLine])
        BY <3>2, NotInAudience DEF Transmit
      <3> QED BY <1>5, <3>1, <3>2 DEF PrintMetricsIfDue
    <2> QED BY <1>s, <2>1, <2>2
  <1>6. CASE Handle
    <2>1. PICK d \in Conns : /\ d = fd_table[cur] /\ cur \in OpenFds
                             /\ Dropped(Unread(d), Unread(d)') /\ KeepsBut(d) /\ Unread(d)[2].nl
                             /\ Unread(d)[2].line = NextLine(client_buffers[cur])
                             /\ UNCHANGED clientVars
      BY <1>6, HandleEffect
    <2>2. CASE c = d
      <3>1. peer[c] = "open"
        BY <1>t, <2>1, <2>2 DEF Inv, Books, PeersKnown
      <3> QED BY <1>6, <1>t, <2>1, <2>2, <3>1, TalkByTake
    <2>3. CASE c # d
      <3>1. Unread(c)' = Unread(c) /\ UNCHANGED <<awaiting, written>>
        BY <2>1, <2>3 DEF KeepsBut, clientVars
      <3>2. outbox'[c] = outbox[c]
        <4>1. CASE peer[c] = "open"
          BY <1>6, <2>1, <2>3, <4>1, AnswerSent
        <4>2. CASE peer[c] = "idle"
          <5>1. UNCHANGED outbox \/ \E out : Transmit(out)
            BY <1>6 DEF Handle, HandleHelloLine, HandleInvalidLine, HandleStatusLine, kernelVars
          <5> QED BY <4>2, <5>1 DEF Transmit
        <4> QED BY <1>t, <4>1, <4>2
      <3> QED BY <1>s, <3>1, <3>2
    <2> QED BY <2>2, <2>3
  <1>7. CASE LinesDone
    <2>1. UNCHANGED <<awaiting, written>> /\ UNCHANGED outbox
      BY <1>7 DEF LinesDone, clientVars
    <2>2. CASE Keeps
      BY <1>s, <2>1, <2>2 DEF Keeps
    <2>3. ASSUME NEW d \in Conns, peer' = [peer EXCEPT ![d] = "closed"], KeepsBut(d)
          PROVE  Talk(c)'
      <3>1. c # d
        BY <1>t, <2>3 DEF TypeOK
      <3> QED BY <1>s, <2>1, <2>3, <3>1 DEF KeepsBut
    <2> QED BY <1>7, <2>2, <2>3, EndEffect
  <1> QED BY <1>1, <1>2, <1>3, <1>4, <1>5, <1>6, <1>7, StepKinds

-----------------------------------------------------------------------------
(* The theorems.                                                           *)

\* Nothing is written, handled or sent at the start.
LEMMA StreamInit == Init => StreamInv /\ Talks /\ Counting /\ ViewerStreamOrdered /\ ViewerNeverAheadOfStore
  <1> SUFFICES ASSUME Init
               PROVE  StreamInv /\ Talks /\ Counting /\ ViewerStreamOrdered /\ ViewerNeverAheadOfStore
    OBVIOUS
  <1>1. Accepted = {}
    BY DEF Init, Accepted, OpenFds
  <1>2. \A c \in Conns : /\ Unread(c) = <<>> /\ outbox[c] = <<>> /\ written[c] = <<>>
                         /\ unfinished[c] = "none" /\ ~awaiting[c] /\ peer[c] = "idle"
    BY <1>1 DEF Init, Unread
  <1>3. InputKept
    BY <1>2 DEF InputKept, KeptOf, InOrder, Spoken, EndsAsSaid
  <1>4. PeersPlaced
    BY <1>1, <1>2 DEF PeersPlaced, Init
  <1>5. EndIsLast
    BY DEF EndIsLast, Init
  <1>6. KeepsToItsProgram
    BY <1>2 DEF KeepsToItsProgram
  <1>7. OutputOlder /\ ViewerStreamOrdered /\ ViewerNeverAheadOfStore
    BY <1>2 DEF OutputOlder, ViewerStreamOrdered, ViewerNeverAheadOfStore
  <1>8. Talks
    BY <1>2 DEF Talks, Talk, Silent, Questions
  <1>9. Counting
    <2>1. \A kinds : WrittenLines(kinds) = {}
      BY <1>2 DEF WrittenLines
    <2>2. \A kinds : Handled(kinds) = {}
      BY <2>1 DEF Handled
    <2>3. counters.status_received = 0 /\ counters.parse_errors = 0
      BY DEF Init
    <2> QED BY <2>1, <2>2, <2>3, FS_EmptySet DEF Counting, FinitelyManyWritten
  <1> QED BY <1>3, <1>4, <1>5, <1>6, <1>7, <1>8, <1>9 DEF StreamInv

\* The lines of every connection are kept in order, whatever happens.
LEMMA StreamInvariant == Spec => []StreamInv
  <1>1. Init => StreamInv
    BY StreamInit
  <1>2. Inv /\ Inv' /\ StreamInv /\ [Next]_vars => StreamInv'
    BY InputStep, PlacesStep, EndStep, ProgramStep, OutputStep DEF StreamInv
  <1> QED BY <1>1, <1>2, Invariant, PTL DEF Spec

\* A viewer reads what it is sent of one reporter in the order of the reports,
\* each line once, however its queue filled up and ran empty (main.cpp:342).
THEOREM ViewersReadInOrder == Spec => []ViewerStreamOrdered
  <1>1. Init => ViewerStreamOrdered
    BY StreamInit
  <1>2. Inv /\ Inv' /\ StreamInv /\ ViewerStreamOrdered /\ [Next]_vars => ViewerStreamOrdered'
    BY OrderStep DEF StreamInv
  <1> QED BY <1>1, <1>2, Invariant, StreamInvariant, PTL DEF Spec

\* The status store is the source of truth: whatever a viewer has still to read
\* of a reporter, the store has that line or a later one (main.cpp:316).
THEOREM StoreLeads == Spec => []ViewerNeverAheadOfStore
  <1>1. Init => ViewerNeverAheadOfStore
    BY StreamInit
  <1>2. Inv /\ Inv' /\ StreamInv /\ ViewerNeverAheadOfStore /\ [Next]_vars => ViewerNeverAheadOfStore'
    BY StoreStep DEF StreamInv
  <1> QED BY <1>1, <1>2, Invariant, StreamInvariant, PTL DEF Spec

\* Every complete line is counted as received or as a parse error once: none is
\* lost with a split, a merge or the end of its connection (main.cpp:463).
THEOREM EveryLineCounts == Spec => []EveryLineCountedOnce
  <1>1. Init => Counting
    BY StreamInit
  <1>2. Inv /\ Inv' /\ StreamInv /\ Counting /\ [Next]_vars => Counting'
    BY CountStep DEF StreamInv
  <1>3. Inv /\ Counting => EveryLineCountedOnce
    <2> SUFFICES ASSUME Inv, Counting PROVE EveryLineCountedOnce
      OBVIOUS
    <2>1. Unhandled = AllFull
      BY FullIsUnhandled DEF Inv, Books
    <2> QED BY <2>1 DEF Counting, Handled, EveryLineCountedOnce
  <1> QED BY <1>1, <1>2, <1>3, Invariant, StreamInvariant, PTL DEF Spec

\* A client that only reports and waits for an ACK waits for something: its line
\* is still to be handled, or the ACK, both halves or the last, is in its queue.
THEOREM AcksAreOwed == Spec => []AckOwed
  <1>1. Init => Talks
    BY StreamInit
  <1>2. Inv /\ Inv' /\ StreamInv /\ Talks /\ [Next]_vars => Talks'
    BY TalkStep DEF StreamInv
  <1>3. Inv /\ Talks => AckOwed
    <2> SUFFICES ASSUME Inv, Talks, NEW c \in Conns,
                        awaiting[c], peer[c] = "open", "HELLO" \notin Says[c]
                 PROVE  \/ LastLine(c) \in InTransit(c) \cup Buffered(c)
                        \/ \E i \in DOMAIN outbox[c] :
                             outbox[c][i] = [line |-> AckFor(LastLine(c)), nl |-> TRUE]
      BY DEF AckOwed
    <2>1. Asking(c) \/ Answered(c)
      BY DEF Talks, Talk, Silent
    <2>2. CASE Asking(c)
      <3>1. PICK i \in DOMAIN Unread(c) : Unread(c)[i] = [line |-> LastLine(c), nl |-> TRUE]
        BY <2>2 DEF Asking
      <3>2. LastLine(c) \in FullLines(c)
        BY <3>1 DEF FullLines
      <3> QED BY <3>2, FullOf DEF Inv, Books
    <2>3. CASE Answered(c)
      <3>1. Answer(c)[2] = [line |-> AckFor(LastLine(c)), nl |-> TRUE]
        BY DEF Answer, Halves
      <3>2. Len(Answer(c)) = 2 /\ 2 \in DOMAIN Answer(c)
        BY DEF Answer, Halves
      <3>3. 1 \in DOMAIN <<Answer(c)[2]>> /\ <<Answer(c)[2]>>[1] = Answer(c)[2]
        OBVIOUS
      <3> QED BY <2>3, <3>1, <3>2, <3>3 DEF Answered
    <2> QED BY <2>1, <2>2, <2>3
  <1> QED BY <1>1, <1>2, <1>3, Invariant, StreamInvariant, PTL DEF Spec
=============================================================================
