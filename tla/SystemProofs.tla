---------------------------- MODULE SystemProofs ----------------------------
(***************************************************************************)
(* What the server and the load generator promise together, proved for     *)
(* every number of connections, reports and descriptors.                   *)
(*                                                                         *)
(* The invariants of the two programs are kept by the composed steps: each *)
(* step of System is a step of the one, of the other, or of both.  What is *)
(* added to them relates the two ends of a connection: where it is in its  *)
(* life (Ends), what is on its way (Linked), what each side has counted    *)
(* (Counted), and that the load generator leaves without harm (Calm).      *)
(***************************************************************************)
EXTENDS System, ServerStreamProofs

USE DEF batchVars, tableVars, resultVars

\* The proofs about the load generator, for the one of this system.
LP == INSTANCE LoadgenProofs WITH
  Clients <- Conns, Faults <- Faults \ {"kill"}, pc <- lg_pc, events <- lg_events, inbox <- lg_inbox

ServerInv == Inv /\ StreamInv /\ Talks /\ Counting

LoadgenInv == IF killed THEN lg_pc = "aborted" /\ sent \in Nat /\ acked \in Nat ELSE LP!Inv

\* A connection is idle at the server's end until its handshake, and the server
\* closes none before it ends.
Fresh(c) == written[c] = <<>> /\ unfinished[c] = "none" /\ ~awaiting[c] /\ outbox[c] = <<>>
Ends ==
  /\ killed \in BOOLEAN /\ link \in [Conns -> {"none", "syn", "up", "eof", "reset"}]
  /\ \A c \in Conns :
       /\ link[c] \in {"none", "syn"} => peer[c] = "idle"
       /\ peer[c] = "idle" => Fresh(c)
       /\ link[c] \in {"eof", "reset"} => Ended
       /\ lg_pc = "connect" /\ c \notin LP!Open => link[c] = "none"

\* The reports that c has begun, as the server's end has them.
Begun(c) == Len(written[c]) + (IF unfinished[c] = "none" THEN 0 ELSE 1)

\* The bytes of the server as the load generator sees them.
Image(bytes) == [i \in DOMAIN bytes |-> [seq |-> bytes[i].line.seq, nl |-> bytes[i].nl]]

\* The last report of c is not handled yet.
Unanswered(c) == unfinished[c] # "none" \/ (awaiting[c] /\ outbox[c] = <<>>)

LinkedTo(c) ==
  /\ link[c] \in {"syn", "up"} => clients[c].sequence = Begun(c)
  /\ link[c] = "up" =>
       /\ peer[c] = "open"
       /\ reply[c] = IF Unanswered(c) THEN LP!AckLine(clients[c].sequence) ELSE Image(outbox[c])
  /\ outbox[c] # <<>> => LP!Received(c) < 2
Linked == \A c \in Conns : Held(c) => LinkedTo(c)

\* The ACKs that send() took, the one that is counted next among them.
Acked == counters.ack_sent + (IF pc = "acked" THEN 1 ELSE 0)

\* The reports that send() took, the one that is counted next, or never after a
\* kill, among them.
SentOut == sent + (IF lg_pc = "sent" \/ killed THEN 1 ELSE 0)

\* Answers that the server has sent and the load generator has not counted.
Answering == {c \in Conns : Held(c) /\ (outbox[c] # <<>> \/ LP!Received(c) > 0)}
Reports == UNION {{<<c, i>> : i \in 1 .. Begun(c)} : c \in Conns}
Counted ==
  /\ acked + Cardinality(Answering) <= Acked
  /\ Acked <= counters.status_received
  /\ IsFiniteSet(Reports) /\ Cardinality(Reports) <= SentOut

\* As long as neither program was ended from outside, the load generator loses
\* no connection, and closes its connections when nothing is left on them.
AllQuiet == \A c \in Conns : /\ outbox[c] = <<>> /\ lg_inbox[c] = <<>>
                             /\ unfinished[c] = "none" /\ ~awaiting[c]
Calm ==
  ~killed /\ ~Ended =>
    /\ lg_pc # "aborted"
    /\ \A c \in DOMAIN lg_events : "err" \notin lg_events[c]
    /\ \A c \in Conns : lg_pc # "done" /\ link[c] # "none" => c \in LP!Open
    /\ \A c \in Conns : peer[c] # "rst"
    /\ lg_pc = "done" => AllQuiet

SysInv == ServerInv /\ LoadgenInv /\ Ends /\ Linked /\ Counted /\ Calm

-----------------------------------------------------------------------------
(* The two instances of the load generator are one program.                *)

\* The constants of the system are constants of its load generator.
LEMMA LoadgenConstants == LP!LoadgenAssumption
  <1>1. LP!IsFiniteSet(Conns)
    BY ServerAssumption DEF IsFiniteSet, LP!IsFiniteSet
  <1>2. Faults \ {"kill"} \subseteq {"refuse", "close", "slow", "signal"}
    BY SystemAssumption
  <1> QED BY <1>1, <1>2, ServerAssumption, SystemAssumption DEF LP!LoadgenAssumption

\* Both instances count alike.
LEMMA SameCount == \A S : L!Cardinality(S) = LP!Cardinality(S)
  BY DEF L!Cardinality, LP!Cardinality, L!IsFiniteSet, LP!IsFiniteSet

\* What both instances call by the same name is the same.
LEMMA SameState ==
  /\ L!Open = LP!Open /\ (L!Open)' = (LP!Open)' /\ L!vars = LP!vars
  /\ L!netVars = LP!netVars /\ L!loopVars = LP!loopVars /\ L!countVars = LP!countVars
  /\ \A seq : L!AckLine(seq) = LP!AckLine(seq)
  <1>1. L!netVars = LP!netVars /\ L!loopVars = LP!loopVars /\ L!countVars = LP!countVars
    BY DEF L!loopVars, L!countVars, L!netVars, LP!loopVars, LP!countVars, LP!netVars
  <1> QED BY <1>1 DEF L!Open, L!vars, LP!Open, LP!vars, L!AckLine, LP!AckLine

\* Both find the same client's turn.
LEMMA SameTurn == L!Turn = LP!Turn
  <1>1. \A i : L!Ahead(i) = LP!Ahead(i)
    BY SameCount, SameState DEF L!Ahead, LP!Ahead
  <1> QED BY <1>1, SameCount, SameState DEF L!Turn, LP!Turn

\* The steps of the environment.
LEMMA SameEnvironment ==
  /\ L!TimeUp <=> LP!TimeUp
  /\ \A c \in Conns : /\ L!Establish(c) <=> LP!Establish(c)
                      /\ L!Refuse(c) <=> LP!Refuse(c)
                      /\ L!Deliver(c) <=> LP!Deliver(c)
                      /\ L!ServerCloses(c) <=> LP!ServerCloses(c)
  BY DEF L!TimeUp, LP!TimeUp, L!Establish, LP!Establish, L!Refuse, LP!Refuse, L!Deliver, LP!Deliver,
     L!ServerCloses, LP!ServerCloses,
     L!loopVars, L!countVars, L!netVars, LP!loopVars, LP!countVars, LP!netVars

\* The steps of the program.
LEMMA SameProgram ==
  /\ L!LocalStep <=> LP!LocalStep
  /\ L!SendNext <=> LP!SendNext
  /\ L!ConnectThrows <=> LP!ConnectThrows
  <1> USE DEF L!loopVars, L!countVars, L!netVars, LP!loopVars, LP!countVars, LP!netVars
  <1>1. L!MaySend <=> LP!MaySend
    BY DEF L!MaySend, LP!MaySend, L!Open, LP!Open
  <1>2. \A client : L!Reported(client) = LP!Reported(client)
    BY DEF L!Reported, LP!Reported
  <1>3. L!SendNext <=> LP!SendNext
    BY <1>1, <1>2, SameTurn, SameState DEF L!SendNext, LP!SendNext
  <1>4. L!ConnectThrows <=> LP!ConnectThrows
    BY DEF L!ConnectThrows, LP!ConnectThrows
  <1>5. /\ \A c \in Conns : L!Flags(c) = LP!Flags(c)
        /\ L!ReadyConns = LP!ReadyConns /\ L!Batches = LP!Batches
    <2>1. \A c : L!Flags(c) = LP!Flags(c)
      BY DEF L!Flags, LP!Flags
    <2>2. L!ReadyConns = LP!ReadyConns
      BY <2>1, SameState DEF L!ReadyConns, LP!ReadyConns
    <2> QED BY <2>1, <2>2, SameCount DEF L!Batches, LP!Batches
  <1>6. \A c \in Conns : /\ L!Drop(c) <=> LP!Drop(c)
                         /\ L!EventTaken(c) <=> LP!EventTaken(c)
    BY DEF L!Drop, LP!Drop, L!close_client, LP!close_client, L!EventTaken, LP!EventTaken, L!Open, LP!Open
  <1>7. \A c \in Conns : /\ L!StartConnect(c) <=> LP!StartConnect(c)
                         /\ L!HandshakeEvent(c) <=> LP!HandshakeEvent(c)
    BY <1>6 DEF L!StartConnect, LP!StartConnect, L!HandshakeEvent, LP!HandshakeEvent, L!Open, LP!Open
  <1>8. \A c \in Conns : L!AckEvent(c) <=> LP!AckEvent(c)
    <2>1. \A client, bytes : L!Appended(client, bytes) = LP!Appended(client, bytes)
      BY DEF L!Appended, LP!Appended
    <2>2. \A client : L!Answered(client) = LP!Answered(client)
      BY DEF L!Answered, LP!Answered
    <2>3. \A buffer : L!HasLine(buffer) = LP!HasLine(buffer)
      BY DEF L!HasLine, LP!HasLine
    <2>4. \A c \in Conns : L!receive_ack(c) <=> LP!receive_ack(c)
      BY <1>6, <2>1, <2>2, <2>3 DEF L!receive_ack, LP!receive_ack
    <2> QED BY <1>6, <2>4 DEF L!AckEvent, LP!AckEvent
  <1>9. L!AllReady <=> LP!AllReady
    BY SameState DEF L!AllReady, LP!AllReady
  <1>10. L!LoopGoesOn <=> LP!LoopGoesOn
    BY DEF L!LoopGoesOn, LP!LoopGoesOn
  <1>11. /\ L!HandshakesDone <=> LP!HandshakesDone
         /\ L!HandshakeWait <=> LP!HandshakeWait
         /\ L!HandshakeGivesUp <=> LP!HandshakeGivesUp
         /\ L!HandshakeEventsDone <=> LP!HandshakeEventsDone
    <2>1. L!HandshakeWait <=> LP!HandshakeWait
      BY <1>5, <1>9 DEF L!HandshakeWait, LP!HandshakeWait, L!Flags, LP!Flags
    <2> QED BY <1>5, <1>9, <2>1, SameCount, SameState DEF L!HandshakesDone, LP!HandshakesDone,
           L!HandshakeGivesUp, LP!HandshakeGivesUp, L!HandshakeEventsDone, LP!HandshakeEventsDone
  <1>12. /\ L!Tick <=> LP!Tick
         /\ L!LoopEnds <=> LP!LoopEnds
    BY <1>10 DEF L!Tick, LP!Tick, L!LoopEnds, LP!LoopEnds
  <1>13. /\ L!NothingToSend <=> LP!NothingToSend
         /\ L!SendThrows <=> LP!SendThrows
    BY <1>1, SameTurn DEF L!NothingToSend, LP!NothingToSend, L!SendThrows, LP!SendThrows,
       L!SendingDone, LP!SendingDone
  <1>14. /\ L!Poll <=> LP!Poll
         /\ L!AckEventsDone <=> LP!AckEventsDone
    BY <1>5 DEF L!Poll, LP!Poll, L!AckEventsDone, LP!AckEventsDone, L!Flags, LP!Flags
  <1>15. L!CountSent <=> LP!CountSent
    BY DEF L!CountSent, LP!CountSent
  <1>16. L!LocalStep <=> LP!LocalStep
    BY <1>7, <1>8, <1>11, <1>12, <1>13, <1>14, <1>15 DEF L!LocalStep, LP!LocalStep
  <1> QED BY <1>3, <1>4, <1>16

\* They begin alike.
LEMMA SameInit == L!Init <=> LP!Init
  BY SameCount DEF L!Init, LP!Init
-----------------------------------------------------------------------------
(* The steps of the server.                                                *)

\* The server's invariant is kept by its own steps and those of its clients.
LEMMA ServerInvStep ==
  ASSUME ServerInv, [Next]_vars
  PROVE  ServerInv'
  <1>1. Inv'
    BY BooksStep, LinesStep DEF ServerInv, Inv
  <1>2. StreamInv'
    BY <1>1, InputStep, PlacesStep, EndStep, ProgramStep, OutputStep DEF ServerInv, StreamInv
  <1> QED BY <1>1, <1>2, TalkStep, CountStep DEF ServerInv, StreamInv

\* The load generator never says HELLO, so nothing is broadcast.
LEMMA NoAudience ==
  ASSUME ServerInv, NEW fd
  PROVE  Audience(fd) = {}
  <1>1. \A c \in Conns : c \notin Audience(fd)
    BY SystemAssumption, NotInAudience DEF ServerInv, StreamInv
  <1>2. Audience(fd) \subseteq Conns
    BY DEF Audience, ServerInv, Inv, Books, TypeOK, TablesAgree, OpenFds
  <1> QED BY <1>1, <1>2

\* The server answers the question that c waits with.
Answers(c) ==
  /\ peer[c] = "open" /\ awaiting[c] /\ outbox[c] = <<>>
  /\ outbox' = [outbox EXCEPT ![c] = Answer(c)]
  /\ Acked' = Acked + 1
  /\ counters'.status_received = counters.status_received + 1

\* It sends nothing that will be read.
SendsNothing ==
  /\ UNCHANGED outbox
  /\ \E m, n \in {0, 1} : /\ m <= n
                          /\ Acked' = Acked + m
                          /\ counters'.status_received = counters.status_received + n

\* It leaves alone the connections that the client holds.
KeepsPeers ==
  \A c \in Conns :
    /\ peer[c] \in {"idle", "open"} => peer'[c] = peer[c]
    /\ peer'[c] \in {"idle", "open", "rst"} => peer'[c] = peer[c]

\* What is behind send() and is not counted yet belongs to the count.
LEMMA AckedIs ==
  ASSUME TypeOK
  PROVE  /\ counters.ack_sent \in Nat /\ Acked \in Nat /\ counters.ack_sent <= Acked
         /\ counters'.ack_sent = counters.ack_sent /\ (pc' = "acked" <=> pc = "acked") => Acked' = Acked + 0
         /\ CountAck => Acked' = Acked + 0
         /\ HandleStatusLine => Acked' = Acked + (IF pc' = "acked" THEN 1 ELSE 0)
  <1>1. counters \in Counters /\ counters.ack_sent \in Nat
    BY DEF TypeOK, Counters
  <1>2. Acked \in Nat /\ counters.ack_sent <= Acked
    BY <1>1 DEF Acked
  <1>3. ASSUME counters'.ack_sent = counters.ack_sent, pc' = "acked" <=> pc = "acked"
        PROVE  Acked' = Acked + 0
    BY <1>1, <1>3 DEF Acked
  <1>4. ASSUME CountAck
        PROVE  Acked' = Acked + 0
    <2>1. counters'.ack_sent = counters.ack_sent + 1
      BY <1>1, <1>4 DEF CountAck, Counters
    <2> QED BY <1>1, <1>4, <2>1 DEF Acked, CountAck
  <1>5. ASSUME HandleStatusLine
        PROVE  Acked' = Acked + (IF pc' = "acked" THEN 1 ELSE 0)
    <2>1. counters'.ack_sent = counters.ack_sent
      BY <1>1, <1>5 DEF HandleStatusLine, Counters
    <2>2. pc = "lines" /\ pc' \in {"acked", "lines"}
      BY <1>5 DEF HandleStatusLine, TakeLine
    <2> QED BY <1>1, <2>1, <2>2 DEF Acked
  <1> QED BY <1>1, <1>2, <1>3, <1>4, <1>5

\* A send to nobody.
LEMMA TransmitNothing ==
  ASSUME TypeOK, NEW out, DOMAIN out = {}, Transmit(out)
  PROVE  UNCHANGED <<outbox, peer>>
  <1>1. \A c \in Conns : outbox'[c] = outbox[c] /\ peer'[c] = peer[c]
    BY DEF Transmit
  <1>2. outbox' \in [Conns -> {outbox[c] : c \in Conns}] /\ peer' \in [Conns -> {peer[c] : c \in Conns}]
    BY <1>1 DEF Transmit
  <1> QED BY <1>1, <1>2 DEF TypeOK, Transmit

\* What is handled is the question of the client that waits.
LEMMA QuestionIsLast ==
  ASSUME ServerInv, Handle, NEW c \in Conns, c = fd_table[cur], peer[c] = "open",
         NEW line, line = NextLine(client_buffers[cur]), line.kind = "STATUS_ACK",
         Inv'
  PROVE  awaiting[c] /\ outbox[c] = <<>> /\ line = LastLine(c)
  <1>1. /\ Unread(c)[2].nl /\ Unread(c)[2].line = line /\ Dropped(Unread(c), Unread(c)')
    BY HandleEffect DEF ServerInv, StreamInv
  <1>2. 2 \in DOMAIN Unread(c)
    BY <1>1, UnreadType DEF Dropped, ServerInv, Inv, Books
  <1>3. 2 \in Questions(Unread(c))
    BY <1>1, <1>2 DEF Questions
  <1>4. Talk(c)
    BY SystemAssumption DEF ServerInv, Talks
  <1>5. Asking(c)
    BY <1>3, <1>4 DEF Talk, Silent, Answered
  <1>6. Unread(c)[2] = [line |-> LastLine(c), nl |-> TRUE]
    BY <1>3, <1>5 DEF Asking
  <1> QED BY <1>1, <1>5, <1>6 DEF Asking

\* A step of the server answers one client or sends nothing.
LEMMA ServerEffect ==
  ASSUME ServerInv, ServerStep \/ Signal
  PROVE  /\ UNCHANGED clientVars /\ KeepsPeers
         /\ SendsNothing \/ \E c \in Conns : Answers(c)
         /\ Ended => UNCHANGED <<pc, counters, outbox, peer>>
  <1>1. [Next]_vars /\ Inv' /\ TypeOK /\ TablesAgree /\ counters \in Counters
    BY ServerInvStep DEF Next, ServerInv, Inv, Books, TypeOK
  <1>2. /\ counters.status_received \in Nat
        /\ counters.status_received = counters.status_received + 0
    BY <1>1 DEF Counters
  <1>3. Ended => Signal
    BY DEF Ended, ServerStep, LoopHead, EpollWait, EpollTimeout, ListenEvent,
       AcceptOne, AcceptEnd, ClientEvent, HandleHelloLine, HandleInvalidLine, HandleStatusLine,
       CountAck, TakeLine, LinesDone, EventsDone, PrintMetricsIfDue
  <1>4. CASE HandleStatusLine
    <2> DEFINE line == NextLine(client_buffers[cur])
               d == fd_table[cur]
               acked_conns == IF line.kind = "STATUS_ACK" THEN {d} ELSE {}
               out == [c \in acked_conns \cup Audience(cur) |->
                         IF c \in acked_conns THEN AckFor(line) ELSE line]
    <2>1. /\ Transmit(out) /\ UNCHANGED clientVars
          /\ counters' = [counters EXCEPT
                !.status_received = @ + 1,
                !.broadcast_errors = @ + Refused(Audience(cur))]
          /\ pc' = IF \E c \in acked_conns : SendAccepts(c) THEN "acked" ELSE "lines"
      BY <1>4 DEF HandleStatusLine
    <2>2. Audience(cur) = {}
      BY NoAudience
    <2>3. d \in Conns /\ peer[d] # "idle"
      <3>1. cur \in OpenFds
        BY <1>4 DEF HandleStatusLine, TakeLine, ServerInv, Inv, Books, EventsKnown, TablesAgree
      <3> QED BY <3>1 DEF ServerInv, Inv, Books, TypeOK, OpenFds, PeersKnown
    <2>4. counters'.status_received = counters.status_received + 1
          /\ Acked' = Acked + (IF pc' = "acked" THEN 1 ELSE 0)
      BY <1>1, <1>4, <2>1, AckedIs DEF Counters
    <2>5. CASE line.kind # "STATUS_ACK"
      <3>1. acked_conns = {}
        BY <2>5
      <3>2. DOMAIN out = {}
        BY <2>2, <3>1
      <3> HIDE DEF out
      <3>3. UNCHANGED <<outbox, peer>>
        BY <1>1, <2>1, <3>2, TransmitNothing
      <3>4. pc' = "lines"
        BY <2>1, <3>1
      <3>5. Acked' = Acked + 0
        BY <2>4, <3>4
      <3>6. SendsNothing
        BY <2>4, <3>3, <3>5 DEF SendsNothing
      <3> QED BY <1>3, <1>4, <2>1, <3>3, <3>6 DEF KeepsPeers, HandleStatusLine, TakeLine, Ended
    <2>6. CASE line.kind = "STATUS_ACK"
      <3>1. acked_conns = {d} /\ DOMAIN out = {d} /\ out[d] = AckFor(line)
        BY <2>2, <2>6
      <3>2. \A c \in Conns : /\ outbox'[c] = IF c = d /\ peer[c] = "open" THEN Pushed(outbox[c], AckFor(line))
                                             ELSE outbox[c]
                             /\ peer'[c] = IF c = d /\ peer[c] # "open" THEN "dead" ELSE peer[c]
        <4> HIDE DEF out
        <4> QED BY <2>1, <3>1 DEF Transmit
      <3>3. DOMAIN outbox' = Conns /\ outbox' = [c \in Conns |-> outbox'[c]]
        <4> HIDE DEF out
        <4> QED BY <2>1 DEF Transmit
      <3>4. KeepsPeers
        BY <2>3, <3>2 DEF KeepsPeers
      <3>5. CASE peer[d] = "open"
        <4>1. awaiting[d] /\ outbox[d] = <<>> /\ line = LastLine(d)
          BY <1>1, <1>4, <2>3, <2>6, <3>5, QuestionIsLast DEF Handle
        <4>2. Pushed(<<>>, AckFor(line)) = Answer(d)
          <5>1. LastLine(d) \in Line
            BY <2>3, <1>1, LenProperties DEF LastLine, Line, TypeOK, ClientKinds
          <5>2. AckFor(LastLine(d)) \in Line
            BY <5>1 DEF AckFor, Line
          <5> QED BY <4>1, <5>2, PushedWhole DEF Answer
        <4>3. outbox' = [outbox EXCEPT ![d] = Answer(d)]
          BY <1>1, <2>3, <3>2, <3>3, <3>5, <4>1, <4>2 DEF TypeOK
        <4>4. pc' = "acked"
          <5>1. SendAccepts(d)
            BY <3>5, <4>1, ServerAssumption DEF SendAccepts
          <5> QED BY <2>1, <3>1, <5>1
        <4>5. Acked' = Acked + 1
          BY <2>4, <4>4
        <4>6. Answers(d)
          BY <2>4, <3>5, <4>1, <4>3, <4>5 DEF Answers
        <4> QED BY <1>3, <1>4, <2>1, <2>3, <3>4, <4>6 DEF HandleStatusLine, TakeLine, Ended
      <3>6. CASE peer[d] # "open"
        <4>1. \A c \in Conns : outbox'[c] = outbox[c]
          BY <3>2, <3>6
        <4>2. UNCHANGED outbox
          BY <1>1, <3>3, <4>1 DEF TypeOK
        <4>4. SendsNothing
          BY <2>4, <4>2 DEF SendsNothing
        <4> QED BY <1>3, <1>4, <2>1, <3>4, <4>4 DEF HandleStatusLine, TakeLine, Ended
      <3> QED BY <3>5, <3>6
    <2> QED BY <2>5, <2>6
  <1>5. CASE PrintMetricsIfDue
    <2> DEFINE out == [c \in Audience(ListenFd) |-> MetricsLine]
    <2>1. UNCHANGED <<outbox, peer>>
      <3>1. UNCHANGED <<outbox, peer>> \/ Transmit(out)
        BY <1>5 DEF PrintMetricsIfDue
      <3>2. DOMAIN out = {}
        BY NoAudience
      <3> HIDE DEF out
      <3> QED BY <1>1, <3>1, <3>2, TransmitNothing
    <2>2. Acked' = Acked + 0 /\ counters'.status_received = counters.status_received
      BY <1>1, <1>5, AckedIs DEF PrintMetricsIfDue, Counters
    <2> QED BY <1>2, <1>3, <1>5, <2>1, <2>2 DEF PrintMetricsIfDue, KeepsPeers, SendsNothing, Ended
  <1>6. CASE LinesDone
    <2>1. UNCHANGED clientVars /\ UNCHANGED outbox
      BY <1>6 DEF LinesDone
    <2>2. Acked' = Acked + 0 /\ counters'.status_received = counters.status_received
      BY <1>1, <1>6, AckedIs DEF LinesDone, Disconnect, Counters
    <2>3. KeepsPeers
      <3>1. CASE UNCHANGED peer
        BY <3>1 DEF KeepsPeers
      <3>2. ASSUME NEW c \in Conns, peer[c] # "open", peer' = [peer EXCEPT ![c] = "closed"],
                   c = fd_table[cur], cur \in OpenFds
            PROVE  KeepsPeers
        <4>1. peer[c] # "idle"
          BY <3>2 DEF ServerInv, Inv, Books, PeersKnown
        <4> QED BY <1>1, <3>2, <4>1 DEF KeepsPeers, TypeOK
      <3> QED BY <1>1, <1>6, <3>1, <3>2, EndEffect DEF ServerInv, StreamInv, kernelVars
    <2> QED BY <1>2, <1>3, <1>6, <2>1, <2>2, <2>3 DEF LinesDone, SendsNothing, Ended
  <1>7. CASE ClientEvent
    <2>1. UNCHANGED <<clientVars, counters, outbox>>
      BY <1>7 DEF ClientEvent
    <2>2. UNCHANGED peer
      BY <1>7 DEF ClientEvent, ServerInv, Inv, Books, EventsKnown
    <2>3. Acked' = Acked + 0
      BY <1>1, <1>7, <2>1, AckedIs DEF ClientEvent, Receive
    <2> QED BY <1>2, <1>3, <1>7, <2>1, <2>2, <2>3 DEF ClientEvent, KeepsPeers, SendsNothing, Ended
  <1>8. CASE AcceptOne
    <2>1. UNCHANGED <<clientVars, outbox, peer>>
          /\ Acked' = Acked + 0 /\ counters'.status_received = counters.status_received
      BY <1>1, <1>8, AckedIs DEF AcceptOne, Counters
    <2> QED BY <1>2, <1>3, <1>8, <2>1 DEF AcceptOne, KeepsPeers, SendsNothing, Ended
  <1>9. CASE HandleHelloLine \/ HandleInvalidLine
    <2>1. UNCHANGED <<clientVars, outbox, peer>>
          /\ Acked' = Acked + 0 /\ counters'.status_received = counters.status_received
      BY <1>1, <1>9, AckedIs DEF HandleHelloLine, HandleInvalidLine, TakeLine, kernelVars, Counters
    <2> QED BY <1>2, <1>3, <1>9, <2>1 DEF HandleHelloLine, HandleInvalidLine, TakeLine, KeepsPeers,
               SendsNothing, Ended
  <1>10. CASE \/ LoopHead \/ EpollWait \/ EpollTimeout \/ ListenEvent
              \/ AcceptEnd \/ EventsDone \/ Signal
    <2>1. UNCHANGED <<clientVars, outbox, peer, counters>> /\ (pc' = "acked" <=> pc = "acked")
      BY <1>10 DEF LoopHead, EpollWait, EpollTimeout, ListenEvent, AcceptEnd, EventsDone, Signal,
         kernelVars
    <2>2. Ended => UNCHANGED pc
      BY <1>3 DEF Signal, Ended
    <2>3. Acked' = Acked + 0
      BY <1>1, <2>1, AckedIs
    <2> QED BY <1>2, <2>1, <2>2, <2>3 DEF KeepsPeers, SendsNothing
  <1>11. CASE CountAck
    <2>1. UNCHANGED <<clientVars, outbox, peer>> /\ counters'.status_received = counters.status_received
      BY <1>1, <1>11 DEF CountAck, kernelVars, Counters
    <2>2. Acked' = Acked + 0
      BY <1>1, <1>11, AckedIs
    <2> QED BY <1>2, <1>3, <1>11, <2>1, <2>2 DEF KeepsPeers, SendsNothing, CountAck, Ended
  <1> QED BY <1>4, <1>5, <1>6, <1>7, <1>8, <1>9, <1>10, <1>11 DEF ServerStep

\* The client resets a connection on which it left bytes unread.
Reset(c) ==
  /\ peer[c] = "open"
  /\ peer' = [peer EXCEPT ![c] = "rst"] /\ outbox' = [outbox EXCEPT ![c] = <<>>]
  /\ UNCHANGED <<serverVars, clientVars, epoll, fd_table, backlog, inbox>>

\* The server's invariant does not depend on why a connection was reset.
LEMMA ServerInvReset ==
  ASSUME ServerInv, NEW c \in Conns, Reset(c)
  PROVE  ServerInv'
  <1>1. /\ TypeOK /\ peer \in [Conns -> {"idle", "open", "fin", "rst", "dead", "closed"}]
        /\ outbox \in [Conns -> Seq(Chunk)]
    BY DEF ServerInv, Inv, Books, TypeOK
  <1>2. /\ \A d \in Conns : /\ peer'[d] = IF d = c THEN "rst" ELSE peer[d]
                            /\ outbox'[d] = IF d = c THEN <<>> ELSE outbox[d]
        /\ UNCHANGED <<pc, events, cur, still_connected, client_buffers, telemetry_client_fds,
                       viewer_client_fds, status_store, counters, epoll, fd_table, backlog, inbox,
                       written, unfinished, awaiting>>
    BY <1>1 DEF Reset, serverVars, clientVars
  <1>3. TypeOK'
    <2>1. <<>> \in Seq(Chunk) /\ Len(<<>>) = 0
      OBVIOUS
    <2>2. outbox' \in [Conns -> Seq(Chunk)] /\ peer' \in [Conns -> {"idle", "open", "fin", "rst", "dead", "closed"}]
      BY <1>1, <2>1 DEF Reset
    <2>3. \A d \in Conns : Len(outbox'[d]) <= SendBuf
      BY <1>1, <1>2, <2>1, ServerAssumption DEF TypeOK
    <2> QED BY <1>1, <2>2, <2>3 DEF TypeOK, Reset, serverVars, clientVars
  <1>4. (\A d \in Conns : Unread(d)' = Unread(d)) /\ Accepted' = Accepted /\ OpenFds' = OpenFds
    BY <1>2 DEF Unread, FdOf, Accepted, OpenFds
  <1>5. Books'
    BY <1>2, <1>3, <1>4 DEF ServerInv, Inv, Books, TablesAgree, EventsKnown, PeersKnown, Reset, OpenFds
  <1>6. LinesOwned' /\ ViewersSaluted'
    BY <1>2, <1>4 DEF ServerInv, Inv, LinesOwned, ViewersSaluted, Genuine, Saluted
  <1>7. Routing'
    <2>1. \A d \in Conns : Saluted(d)' <=> Saluted(d)
      BY <1>2 DEF Saluted
    <2>2. DOMAIN <<>> = {}
      OBVIOUS
    <2> QED BY <1>2, <2>1, <2>2 DEF ServerInv, Inv, Routing
  <1>8. InputKept'
    <2>1. \A d \in Conns : peer'[d] \in {"idle", "open"} => peer[d] \in {"idle", "open"}
      BY <1>2
    <2> QED BY <1>2, <1>4, <2>1 DEF ServerInv, StreamInv, InputKept, KeptOf, InOrder, Spoken,
               EndsAsSaid, HalfSaid
  <1>9. PeersPlaced' /\ EndIsLast'
    BY <1>2, <1>4 DEF ServerInv, StreamInv, PeersPlaced, EndIsLast, Serving, Reset
  <1>10. KeepsToItsProgram'
    BY <1>2 DEF ServerInv, StreamInv, KeepsToItsProgram
  <1>11. OutputOlder'
    <2> SUFFICES ASSUME NEW d \in Conns, NEW i \in DOMAIN outbox'[d], NEW line, line = outbox'[d][i].line,
                        line.src # NoConn
                 PROVE  /\ line.src \in Conns /\ line.seq =< Len(written'[line.src])
                        /\ \A j \in DOMAIN (Unread(line.src)') : line.seq < Unread(line.src)'[j].line.seq
      BY DEF OutputOlder, Older
    <2>1. DOMAIN <<>> = {}
      OBVIOUS
    <2>2. d # c /\ i \in DOMAIN outbox[d] /\ line = outbox[d][i].line
      BY <1>2, <2>1
    <2>3. Older(line)
      BY <2>2 DEF ServerInv, StreamInv, OutputOlder
    <2>4. /\ line.src \in Conns /\ line.seq =< Len(written[line.src])
          /\ \A j \in DOMAIN Unread(line.src) : line.seq < Unread(line.src)[j].line.seq
      BY <2>3 DEF Older
    <2>5. Unread(line.src)' = Unread(line.src) /\ written'[line.src] = written[line.src]
      BY <1>2, <1>4, <2>4
    <2> QED BY <2>4, <2>5
  <1>12. Talks'
    <2> SUFFICES ASSUME NEW d \in Conns, "HELLO" \notin Says[d], peer'[d] \in {"idle", "open"}
                 PROVE  Talk(d)'
      BY DEF Talks
    <2>1. d # c /\ peer'[d] = peer[d] /\ outbox'[d] = outbox[d]
      BY <1>2
    <2>2. Talk(d)
      BY <2>1 DEF ServerInv, Talks
    <2> QED BY <1>2, <1>4, <2>1, <2>2, TalkSame
  <1>13. Counting'
    <2>1. \A kinds : WrittenLines(kinds)' = WrittenLines(kinds)
      BY <1>2 DEF WrittenLines
    <2>2. AllFull' = AllFull
      BY <1>4 DEF AllFull, FullLines
    <2> QED BY <1>2, <2>1, <2>2 DEF ServerInv, Counting, FinitelyManyWritten, Handled
  <1> QED BY <1>5, <1>6, <1>7, <1>8, <1>9, <1>10, <1>11, <1>12, <1>13 DEF ServerInv, Inv, StreamInv

-----------------------------------------------------------------------------
(* The steps of the two programs.                                          *)

\* The load generator's invariant is kept by its own steps and those of the
\* server it imagines.
LEMMA LoadgenInvStep ==
  ASSUME LP!Inv, [LP!Next]_LP!vars
  PROVE  LP!Inv'
  BY LoadgenConstants, LP!TypedStep, LP!BooksStep, LP!ReportsStep, LP!WireStep, LP!TurnsStep DEF LP!Inv

\* The load generator by itself: connect() throws only when the server has ended.
ProgramAlone ==
  /\ LP!LocalStep \/ LP!TimeUp \/ (Ended /\ LP!ConnectThrows)
  /\ UNCHANGED <<vars, killed>>

\* A step of the system, with the names of this module.
LEMMA SystemSteps ==
  ASSUME [SysNext]_sysVars
  PROVE  \/ ProgramAlone
         \/ LoadgenSends \/ Kill
         \/ (ServerStep \/ Signal) /\ UNCHANGED <<lgVars, killed>>
         \/ \E c \in Conns : Net(c)
         \/ UNCHANGED sysVars
  <1>1. CASE Client
    BY <1>1, SameProgram DEF Client, LoadgenStep, LoadgenConnectThrows, ProgramAlone
  <1>2. CASE Clock
    BY <1>2, SameEnvironment DEF Clock, ProgramAlone
  <1> QED BY <1>1, <1>2 DEF SysNext, ServerRuns, ServerSignal, AllEnded

\* The load generator's variables in one order or the other.
LEMMA SameVariables == UNCHANGED lgVars <=> UNCHANGED LP!vars
  BY DEF lgVars, LP!vars, LP!loopVars, LP!countVars, LP!netVars

\* A connection is reset only by its client.
LEMMA ClientGoneKinds ==
  ASSUME NEW c \in Conns, ClientGone(c)
  PROVE  /\ ~Held(c) /\ UNCHANGED <<lgVars, killed>>
         /\ CloseClient(c) \/ (Reset(c) /\ lg_inbox[c] # <<>>)
  BY DEF ClientGone, Reset

\* A report goes out on a connection that has nothing on its way.
Sends(c) ==
  /\ ~killed /\ LP!Inv /\ c \in LP!Open /\ Held(c)
  /\ SentOut' = SentOut + 1 /\ lg_pc = "send" /\ lg_pc' = "sent" /\ LP!Open' = LP!Open
  /\ UNCHANGED <<link, lg_events, lg_inbox, acked, killed>>
  /\ reply[c] = <<>> /\ LP!Received(c) = 0 /\ LP!Received(c)' = 0
  /\ clients'[c].sequence = clients[c].sequence + 1
  /\ \A d \in LP!Open : d # c => clients'[d] = clients[d]
  /\ \A d \in Conns : d # c => reply'[d] = reply[d]
  /\ \/ /\ link[c] = "up" /\ WriteHalf(c, "STATUS_ACK")
        /\ reply'[c] = LP!AckLine(clients[c].sequence + 1)
     \/ link[c] = "eof" /\ UNCHANGED vars

\* send_status() is one of these steps.
LEMMA SendsEffect ==
  ASSUME LoadgenInv, killed \in BOOLEAN, LoadgenSends
  PROVE  \E c \in Conns : Sends(c)
  <1>1. LP!SendNext /\ lg_pc = "send" /\ killed' = killed
    BY SameProgram DEF LoadgenSends, LP!SendNext
  <1>2. LP!Inv /\ ~killed
    BY <1>1 DEF LoadgenInv
  <1>3. LP!Typed
    BY <1>2 DEF LP!Inv
  <1>4. PICK c : c = LP!Turn
    OBVIOUS
  <1>5. PICK client : client = LP!Reported(clients[c])
    OBVIOUS
  <1>6. /\ c \in LP!Open /\ c \in Conns /\ clients[c].phase = "Ready" /\ link[c] \in {"up", "eof"}
        /\ clients' = [clients EXCEPT ![c] = client]
        /\ client \in LP!Client /\ client.sequence = clients[c].sequence + 1
        /\ client.receive_buffer = clients[c].receive_buffer
        /\ lg_pc' = "sent" /\ UNCHANGED <<sent, acked, lg_events, link, lg_inbox>>
    BY <1>1, <1>2, <1>4, <1>5, LoadgenConstants, LP!SendEffect
  <1>7. reply' = IF link[c] = "up" THEN [reply EXCEPT ![c] = reply[c] \o LP!AckLine(clients[c].sequence + 1)]
                 ELSE reply
    BY <1>1, <1>4 DEF LP!SendNext
  <1>8. clients[c] \in LP!Client /\ lg_inbox[c] \in Seq(LP!Chunk) /\ reply[c] \in Seq(LP!Chunk)
    BY <1>3, <1>6, LoadgenConstants, LP!BytesTyped
  <1>9. reply[c] = <<>> /\ clients[c].receive_buffer = <<>> /\ lg_inbox[c] = <<>>
    <2>1. LP!Due(clients[c], lg_inbox[c], reply[c], link[c])
      BY <1>2, <1>6, LoadgenConstants, LP!AckPerConnection DEF LP!Inv
    <2> QED BY <1>6, <1>8, <2>1, LoadgenConstants, LP!DueNothing
  <1>10. clients'[c] = client /\ LP!Open' = LP!Open /\ \A d \in LP!Open : d # c => clients'[d] = clients[d]
    <2>1. clients \in [LP!Open -> LP!Client]
      BY <1>3 DEF LP!Typed
    <2> QED BY <1>6, <2>1 DEF LP!Open
  <1>11. LP!Received(c) = 0 /\ LP!Received(c)' = 0
    <2>1. Len(<<>>) + Len(<<>>) = 0
      OBVIOUS
    <2>2. clients'[c].receive_buffer = <<>> /\ lg_inbox'[c] = <<>>
      BY <1>6, <1>9, <1>10
    <2> QED BY <1>9, <2>1, <2>2 DEF LP!Received
  <1>12. /\ \A d \in Conns : d # c => reply'[d] = reply[d]
         /\ link[c] = "up" => reply'[c] = LP!AckLine(clients[c].sequence + 1)
    <2>1. reply \in [Conns -> Seq(LP!Chunk)]
      BY <1>3 DEF LP!Typed
    <2>2. <<>> \o LP!AckLine(clients[c].sequence + 1) = LP!AckLine(clients[c].sequence + 1)
      <3>1. clients[c].sequence + 1 \in Nat
        BY <1>8 DEF LP!Client
      <3>2. PICK a \in Seq(LP!Chunk) : a = LP!AckLine(clients[c].sequence + 1)
        BY <3>1, LoadgenConstants, LP!AckLineType
      <3>3. <<>> \o a = a
        BY ConcatEmptySeq
      <3> QED BY <3>2, <3>3
    <2> QED BY <1>6, <1>7, <1>9, <2>1, <2>2
  <1>13. /\ Held(c)
         /\ \/ link[c] = "up" /\ WriteHalf(c, "STATUS_ACK")
            \/ link[c] = "eof" /\ UNCHANGED vars
    BY <1>1, <1>4, <1>6, SameTurn, SameState DEF LoadgenSends, Held, Running
  <1>14. SentOut' = SentOut + 1
    BY <1>1, <1>2, <1>3, <1>6 DEF SentOut, LP!Typed
  <1>15. Sends(c)
    BY <1>1, <1>2, <1>6, <1>9, <1>10, <1>11, <1>12, <1>13, <1>14 DEF Sends
  <1> QED BY <1>6, <1>15

\* For the server, each is a step of its own, a step of a client, or a reset.
LEMMA ServerSees ==
  ASSUME LoadgenInv, killed \in BOOLEAN, [SysNext]_sysVars
  PROVE  [Next]_vars \/ \E c \in Conns : Reset(c)
  <1>1. CASE ProgramAlone \/ Kill \/ UNCHANGED sysVars
    BY <1>1 DEF ProgramAlone, Kill, sysVars
  <1>2. CASE LoadgenSends
    <2>1. PICK c \in Conns : Sends(c)
      BY <1>2, SendsEffect
    <2> QED BY <2>1 DEF Sends, Next, ClientStep, ClientKinds
  <1>3. CASE ServerStep \/ Signal
    BY <1>3 DEF Next
  <1>4. ASSUME NEW c \in Conns, Net(c)
        PROVE  Next \/ UNCHANGED vars \/ Reset(c)
    <2>1. CASE Connect(c) \/ WriteRest(c) \/ ReadChunk(c) \/ CloseClient(c)
      BY <2>1 DEF Next, ClientStep
    <2> QED BY <1>4, <2>1, ClientGoneKinds DEF Net, Handshake, NobodyListens, RestOfLine, Arrival, ServerGone
  <1> QED BY <1>1, <1>2, <1>3, <1>4, SystemSteps

\* For the load generator, each is one of its own or of its environment, or its end.
LEMMA LoadgenSees ==
  ASSUME [SysNext]_sysVars
  PROVE  /\ [LP!Next]_LP!vars \/ Kill
         /\ killed' = killed \/ Kill
         /\ ~Running => UNCHANGED <<lgVars, killed>>
  <1> USE DEF Running
  <1>1. CASE ProgramAlone
    <2>1. LP!Next
      BY <1>1 DEF ProgramAlone, LP!Next, LP!Program, LP!Environment
    <2>2. Running
      BY <1>1 DEF ProgramAlone, LP!LocalStep, LP!TimeUp, LP!ConnectThrows,
         LP!HandshakesDone, LP!HandshakeWait, LP!HandshakeGivesUp, LP!HandshakeEventsDone,
         LP!Tick, LP!LoopEnds, LP!NothingToSend, LP!SendThrows, LP!CountSent, LP!Poll, LP!AckEventsDone,
         LP!StartConnect, LP!HandshakeEvent, LP!AckEvent
    <2> QED BY <1>1, <2>1, <2>2 DEF ProgramAlone
  <1>2. CASE LoadgenSends
    BY <1>2, SameProgram DEF LoadgenSends, LP!Next, LP!Program, LP!SendNext
  <1>3. CASE Kill
    BY <1>3 DEF Kill
  <1>4. CASE UNCHANGED <<lgVars, killed>>
    BY <1>4, SameVariables
  <1>5. CASE UNCHANGED sysVars
    BY <1>4, <1>5 DEF sysVars
  <1>6. ASSUME NEW c \in Conns, Net(c)
        PROVE  UNCHANGED <<lgVars, killed>> \/ (LP!Next /\ Running /\ killed' = killed)
    <2>1. CASE LP!Establish(c) \/ LP!Refuse(c) \/ LP!Deliver(c) \/ LP!ServerCloses(c)
      <3>1. LP!Next
        BY <2>1 DEF LP!Next, LP!Environment
      <3>2. CASE ClientGone(c) \/ RestOfLine(c)
        BY <3>2 DEF ClientGone, RestOfLine
      <3> QED BY <1>6, <3>1, <3>2 DEF Net, Handshake, NobodyListens, Arrival, ServerGone, Held
    <2> QED BY <1>6, <2>1, SameEnvironment, ClientGoneKinds
            DEF Net, Handshake, NobodyListens, RestOfLine, Arrival, ServerGone
  <1> QED BY <1>1, <1>2, <1>3, <1>4, <1>5, <1>6, SystemSteps

\* Both invariants are kept.
LEMMA ProgramsStep ==
  ASSUME SysInv, [SysNext]_sysVars
  PROVE  ServerInv' /\ LoadgenInv'
  <1>1. ServerInv'
    BY ServerInvStep, ServerInvReset, ServerSees DEF SysInv, Ends
  <1>2. CASE killed
    <2>1. UNCHANGED <<lgVars, killed>>
      BY <1>2, LoadgenSees DEF SysInv, LoadgenInv, Running
    <2> QED BY <1>1, <1>2, <2>1 DEF SysInv, LoadgenInv, lgVars
  <1>3. CASE ~killed
    <2>1. LP!Inv
      BY <1>3 DEF SysInv, LoadgenInv
    <2>2. CASE Kill
      BY <1>1, <2>1, <2>2 DEF Kill, LoadgenInv, LP!Inv, LP!Typed
    <2>3. CASE ~Kill
      <3>1. LP!Inv' /\ ~killed'
        BY <1>3, <2>1, <2>3, LoadgenInvStep, LoadgenSees
      <3> QED BY <1>1, <3>1 DEF LoadgenInv
    <2> QED BY <2>2, <2>3
  <1> QED BY <1>2, <1>3

-----------------------------------------------------------------------------
(* The life of a connection.                                               *)

\* As long as the load generator runs, its invariant holds.
LEMMA WhileRunning ==
  ASSUME LoadgenInv, Running
  PROVE  ~killed /\ LP!Inv /\ LP!Typed
  BY DEF LoadgenInv, Running, LP!Inv

\* The program takes its steps while it runs.
LEMMA AloneRunning ==
  ASSUME LoadgenInv, ProgramAlone
  PROVE  Running /\ LP!Alone /\ ~killed /\ LP!Inv /\ LP!Typed /\ UNCHANGED <<vars, killed>>
  <1>1. Running
    BY DEF ProgramAlone, LP!LocalStep, LP!TimeUp, LP!ConnectThrows,
       LP!HandshakesDone, LP!HandshakeWait, LP!HandshakeGivesUp, LP!HandshakeEventsDone,
       LP!Tick, LP!LoopEnds, LP!NothingToSend, LP!SendThrows, LP!CountSent, LP!Poll, LP!AckEventsDone,
       LP!StartConnect, LP!HandshakeEvent, LP!AckEvent, Running
  <1> QED BY <1>1, WhileRunning DEF ProgramAlone, LP!Alone

\* The types of the server's end of the connections.
LEMMA KernelTypes ==
  ASSUME ServerInv
  PROVE  /\ TypeOK /\ TablesAgree
         /\ peer \in [Conns -> {"idle", "open", "fin", "rst", "dead", "closed"}]
         /\ outbox \in [Conns -> Seq(Chunk)] /\ inbox \in [Conns -> Seq(Chunk)]
         /\ written \in [Conns -> Seq(ClientKinds)]
         /\ unfinished \in [Conns -> ClientKinds \cup {"none"}] /\ awaiting \in [Conns -> BOOLEAN]
         /\ counters.ack_sent \in Nat /\ counters.status_received \in Nat
  BY DEF ServerInv, Inv, Books, TypeOK, Counters

\* Ends, for one connection.
EndsOf(c) ==
  /\ link[c] \in {"none", "syn"} => peer[c] = "idle"
  /\ peer[c] = "idle" => Fresh(c)
  /\ link[c] \in {"eof", "reset"} => Ended
  /\ lg_pc = "connect" /\ c \notin LP!Open => link[c] = "none"

\* A connection to which nothing happens keeps its place.
LEMMA EndsSame ==
  ASSUME NEW c \in Conns, EndsOf(c), Ended => UNCHANGED pc,
         link'[c] = link[c], peer'[c] = peer[c],
         peer[c] = "idle" => /\ written'[c] = written[c] /\ unfinished'[c] = unfinished[c]
                             /\ awaiting'[c] = awaiting[c] /\ outbox'[c] = outbox[c],
         lg_pc' = "connect" => lg_pc = "connect" /\ LP!Open \subseteq LP!Open'
  PROVE  EndsOf(c)'
  BY DEF EndsOf, Fresh, Ended

\* A step of the server leaves every connection in its place.
LEMMA EndsByServer ==
  ASSUME SysInv, ServerStep \/ Signal, UNCHANGED <<lgVars, killed>>, NEW c \in Conns
  PROVE  EndsOf(c)'
  <1>1. ServerInv /\ EndsOf(c)
    BY DEF SysInv, Ends, EndsOf
  <1>2. UNCHANGED clientVars /\ KeepsPeers /\ (Ended => UNCHANGED pc)
        /\ (SendsNothing \/ \E d \in Conns : Answers(d))
    BY <1>1, ServerEffect
  <1>3. UNCHANGED <<lg_pc, link, clients, written, unfinished, awaiting>>
    BY <1>2 DEF clientVars, lgVars
  <1>4. peer'[c] \in {"idle"} => peer'[c] = peer[c]
    BY <1>2 DEF KeepsPeers
  <1>5. peer[c] = "idle" => peer'[c] = peer[c] /\ outbox'[c] = outbox[c]
    <2>1. peer[c] = "idle" => peer'[c] = peer[c]
      BY <1>2 DEF KeepsPeers
    <2>2. ASSUME peer[c] = "idle", NEW d \in Conns, Answers(d)
          PROVE  outbox'[c] = outbox[c]
      BY <2>2, <1>1, KernelTypes DEF Answers
    <2> QED BY <1>2, <2>1, <2>2 DEF SendsNothing
  <1> QED BY <1>1, <1>2, <1>3, <1>4, <1>5 DEF EndsOf, Fresh, Ended, LP!Open

\* Each step keeps every connection in its place.
LEMMA EndsStep ==
  ASSUME SysInv, [SysNext]_sysVars
  PROVE  Ends'
  <1>1. /\ ServerInv /\ LoadgenInv /\ \A c \in Conns : EndsOf(c)
        /\ killed \in BOOLEAN /\ link \in [Conns -> {"none", "syn", "up", "eof", "reset"}]
        /\ peer \in [Conns -> {"idle", "open", "fin", "rst", "dead", "closed"}]
        /\ outbox \in [Conns -> Seq(Chunk)]
    BY KernelTypes DEF SysInv, Ends, EndsOf
  <1>2. killed' \in BOOLEAN
    BY <1>1, LoadgenSees DEF Kill
  <1>3. link' \in [Conns -> {"none", "syn", "up", "eof", "reset"}]
    <2>1. CASE killed'
      <3>1. UNCHANGED link
        BY <2>1, LoadgenSees DEF Kill, LoadgenInv, SysInv, Running, lgVars
      <3> QED BY <1>1, <3>1
    <2>2. CASE ~killed'
      BY <2>2, ProgramsStep DEF LoadgenInv, LP!Inv, LP!Typed
    <2> QED BY <2>1, <2>2
  <1>4. SUFFICES ASSUME NEW d \in Conns
                 PROVE  EndsOf(d)'
    BY <1>2, <1>3 DEF Ends, EndsOf
  <1>5. EndsOf(d)
    BY <1>1
  <1>6. CASE ProgramAlone
    <2>1. LP!Alone /\ LP!Inv /\ UNCHANGED <<vars, killed>>
      BY <1>1, <1>6, AloneRunning
    <2>2. /\ link'[d] # link[d] => d \in LP!Open' \ LP!Open /\ link'[d] = "syn" /\ lg_pc = "connect"
          /\ lg_pc' = "connect" => lg_pc = "connect" /\ LP!Open \subseteq LP!Open'
      BY <2>1, LoadgenConstants, LP!AloneLinks
    <2>3. UNCHANGED <<pc, peer, outbox, written, unfinished, awaiting>>
      BY <2>1 DEF vars, serverVars, kernelVars, clientVars
    <2>4. CASE link'[d] = link[d]
      BY <1>5, <2>2, <2>3, <2>4, EndsSame
    <2>5. CASE link'[d] # link[d]
      BY <1>5, <2>2, <2>3, <2>5 DEF EndsOf, Fresh
    <2> QED BY <2>4, <2>5
  <1>7. CASE LoadgenSends
    <2>1. PICK c \in Conns : Sends(c)
      BY <1>1, <1>7, SendsEffect
    <2>2. link'[d] = link[d] /\ lg_pc' = "sent"
      BY <2>1 DEF Sends
    <2>3. CASE UNCHANGED vars
      BY <1>5, <2>2, <2>3, EndsSame DEF vars, serverVars, kernelVars, clientVars
    <2>4. CASE WriteHalf(c, "STATUS_ACK")
      <3>1. UNCHANGED <<pc, peer, outbox, written, awaiting>> /\ peer[c] = "open"
        BY <2>4 DEF WriteHalf, serverVars
      <3>2. peer[d] = "idle" => unfinished'[d] = unfinished[d]
        BY <1>1, <2>4, <3>1, KernelTypes DEF WriteHalf
      <3> QED BY <1>5, <2>2, <3>1, <3>2, EndsSame
    <2> QED BY <2>1, <2>3, <2>4 DEF Sends
  <1>8. CASE Kill
    BY <1>5, <1>8, EndsSame DEF Kill, vars, serverVars, kernelVars, clientVars
  <1>9. CASE (ServerStep \/ Signal) /\ UNCHANGED <<lgVars, killed>>
    BY <1>9, EndsByServer
  <1>10. ASSUME NEW c \in Conns, Handshake(c)
         PROVE  EndsOf(d)'
    <2>1. /\ link[c] = "syn" /\ peer[c] = "idle" /\ UNCHANGED <<lg_pc, clients>>
          /\ \A e \in Conns : link'[e] = IF e = c THEN "up" ELSE link[e]
      BY <1>1, <1>10 DEF Handshake, L!Establish, Connect
    <2>2. /\ \A e \in Conns : peer'[e] = IF e = c THEN "open" ELSE peer[e]
          /\ UNCHANGED <<pc, outbox, written, unfinished, awaiting>>
      BY <1>1, <1>10 DEF Handshake, Connect, serverVars, clientVars
    <2>3. CASE d # c
      BY <1>5, <2>1, <2>2, <2>3, EndsSame DEF LP!Open
    <2>4. CASE d = c
      BY <1>5, <2>1, <2>2, <2>4 DEF EndsOf, LP!Open
    <2> QED BY <2>3, <2>4
  <1>11. ASSUME NEW c \in Conns, NobodyListens(c) \/ ServerGone(c)
         PROVE  EndsOf(d)'
    <2>1. /\ Ended /\ link[c] \in {"syn", "up", "eof"} /\ UNCHANGED <<vars, lg_pc, clients>>
          /\ \A e \in Conns : e # c => link'[e] = link[e]
          /\ link'[c] \in {"eof", "reset"}
      BY <1>1, <1>11 DEF NobodyListens, ServerGone, L!Refuse, L!ServerCloses
    <2>2. UNCHANGED <<pc, peer, outbox, written, unfinished, awaiting>>
      BY <2>1 DEF vars, serverVars, kernelVars, clientVars
    <2>3. CASE d # c
      BY <1>5, <2>1, <2>2, <2>3, EndsSame DEF LP!Open
    <2>4. CASE d = c
      BY <1>5, <2>1, <2>2, <2>4 DEF EndsOf, LP!Open, Ended, Fresh
    <2> QED BY <2>3, <2>4
  <1>12. ASSUME NEW c \in Conns, RestOfLine(c) \/ Arrival(c)
         PROVE  EndsOf(d)'
    <2>1. peer[c] = "open" /\ UNCHANGED <<pc, peer, lg_pc, clients, link>>
      BY <1>12 DEF RestOfLine, Arrival, WriteRest, ReadChunk, L!Deliver, lgVars, serverVars
    <2>2. d # c => /\ written'[d] = written[d] /\ unfinished'[d] = unfinished[d]
                   /\ awaiting'[d] = awaiting[d] /\ outbox'[d] = outbox[d]
      BY <1>1, <1>12, KernelTypes DEF RestOfLine, Arrival, WriteRest, ReadChunk
    <2> QED BY <1>5, <2>1, <2>2, EndsSame DEF LP!Open
  <1>13. ASSUME NEW c \in Conns, ClientGone(c)
         PROVE  EndsOf(d)'
    <2>1. /\ peer[c] = "open" /\ peer'[c] \in {"fin", "rst"}
          /\ UNCHANGED <<lg_pc, clients, link, pc, written, unfinished, awaiting>>
          /\ \A e \in Conns : e # c => peer'[e] = peer[e] /\ outbox'[e] = outbox[e]
      BY <1>1, <1>13, ClientGoneKinds DEF CloseClient, Reset, lgVars, serverVars, clientVars
    <2>2. CASE d # c
      BY <1>5, <2>1, <2>2, EndsSame DEF LP!Open
    <2>3. CASE d = c
      BY <1>5, <2>1, <2>3 DEF EndsOf, LP!Open, Ended
    <2> QED BY <2>2, <2>3
  <1>14. CASE UNCHANGED sysVars
    BY <1>5, <1>14, EndsSame DEF sysVars, lgVars, vars, serverVars, kernelVars, clientVars, LP!Open
  <1> QED BY <1>6, <1>7, <1>8, <1>9, <1>10, <1>11, <1>12, <1>13, <1>14, SystemSteps DEF Net

-----------------------------------------------------------------------------
(* What is on its way.                                                     *)

\* The image of bytes is as long as they are.
LEMMA ImageShape ==
  ASSUME NEW q \in Seq(Chunk)
  PROVE  /\ Image(q) \in Seq(LP!Chunk) /\ Len(Image(q)) = Len(q) /\ Len(q) \in Nat
         /\ Image(q) = <<>> <=> q = <<>>
         /\ q # <<>> => Image(Tail(q)) = Tail(Image(q)) /\ Tail(q) \in Seq(Chunk)
  <1>1. /\ DOMAIN q = 1 .. Len(q) /\ Len(q) \in Nat
        /\ \A i \in 1 .. Len(q) : q[i] \in Chunk
    BY LenProperties
  <1>2. \A i \in 1 .. Len(q) : [seq |-> q[i].line.seq, nl |-> q[i].nl] \in LP!Chunk
    BY <1>1 DEF Chunk, Line, LP!Chunk
  <1>3. Image(q) = [i \in 1 .. Len(q) |-> [seq |-> q[i].line.seq, nl |-> q[i].nl]]
    BY <1>1 DEF Image
  <1>4. Image(q) \in [1 .. Len(q) -> LP!Chunk]
    BY <1>2, <1>3
  <1>5. Image(q) \in Seq(LP!Chunk) /\ Len(Image(q)) = Len(q)
    <2>1. PICK m \in [1 .. Len(q) -> LP!Chunk] : m = Image(q)
      BY <1>4
    <2>2. m \in Seq(LP!Chunk)
      BY <1>1, <2>1, IsASeq
    <2>3. Len(m) = Len(q)
      BY <1>1, <2>2, LenProperties
    <2> QED BY <2>1, <2>2, <2>3
  <1>6. Image(q) = <<>> <=> q = <<>>
    <2>1. PICK m \in Seq(LP!Chunk) : m = Image(q) /\ Len(m) = Len(q)
      BY <1>5
    <2> QED BY <2>1, EmptySeq
  <1>7. ASSUME q # <<>>
        PROVE  Image(Tail(q)) = Tail(Image(q)) /\ Tail(q) \in Seq(Chunk)
    <2>1. PICK m \in Seq(LP!Chunk) : m = Image(q) /\ Len(m) = Len(q) /\ m # <<>>
      BY <1>5, <1>6, <1>7
    <2>2. PICK t \in Seq(Chunk) : t = Tail(q) /\ Len(t) = Len(q) - 1
                                  /\ \A i \in 1 .. Len(t) : t[i] = q[i + 1]
      BY <1>7, HeadTailProperties
    <2>3. PICK u \in Seq(LP!Chunk) : u = Tail(m) /\ Len(u) = Len(m) - 1
                                     /\ \A i \in 1 .. Len(u) : u[i] = m[i + 1]
      BY <2>1, HeadTailProperties
    <2>4. Image(t) = [i \in 1 .. Len(t) |-> [seq |-> t[i].line.seq, nl |-> t[i].nl]]
      BY LenProperties DEF Image
    <2>5. u = [i \in 1 .. Len(u) |-> u[i]]
      BY LenProperties
    <2>6. \A i \in 1 .. Len(u) : u[i] = [seq |-> t[i].line.seq, nl |-> t[i].nl]
      <3>1. ASSUME NEW i \in 1 .. Len(u)
            PROVE  u[i] = [seq |-> t[i].line.seq, nl |-> t[i].nl]
        <4>1. i + 1 \in 1 .. Len(q) /\ i \in 1 .. Len(t)
          BY <1>1, <2>1, <2>2, <2>3
        <4>2. m[i + 1] = [seq |-> q[i + 1].line.seq, nl |-> q[i + 1].nl]
          BY <1>3, <2>1, <4>1
        <4> QED BY <2>2, <2>3, <4>1, <4>2
      <3> QED BY <3>1
    <2>7. Len(u) = Len(t)
      BY <2>1, <2>2, <2>3
    <2>8. Image(t) = u
      BY <2>4, <2>5, <2>6, <2>7
    <2> QED BY <2>1, <2>2, <2>3, <2>8
  <1> QED BY <1>1, <1>5, <1>6, <1>7

\* A sequence of two.
LEMMA TwoOf ==
  ASSUME NEW S, NEW a \in S, NEW b \in S
  PROVE  /\ <<a, b>> \in Seq(S) /\ Len(<<a, b>>) = 2 /\ Tail(<<a, b>>) = <<b>>
         /\ <<b>> \in Seq(S) /\ Len(<<b>>) = 1
  OBVIOUS

\* The image of two chunks.
LEMMA ImageOfTwo ==
  ASSUME NEW a, NEW b
  PROVE  Image(<<a, b>>) = <<[seq |-> a.line.seq, nl |-> a.nl], [seq |-> b.line.seq, nl |-> b.nl]>>
  BY DEF Image

\* The server's answer is the one the load generator expects.
LEMMA ImageAnswer ==
  ASSUME NEW c \in Conns, ServerInv
  PROVE  /\ Len(written[c]) \in Nat
         /\ Answer(c) \in Seq(Chunk) /\ Len(Answer(c)) = 2
         /\ Tail(Answer(c)) = <<Answer(c)[2]>> /\ <<Answer(c)[2]>> \in Seq(Chunk)
         /\ Len(<<Answer(c)[2]>>) = 1 /\ Tail(<<Answer(c)[2]>>) = <<>>
         /\ Head(<<Answer(c)[2]>>) = Answer(c)[2]
         /\ Answer(c)[2].nl /\ Answer(c)[2].line.kind = "ACK"
         /\ Image(Answer(c)) = LP!AckLine(Len(written[c]))
  <1>1. Len(written[c]) \in Nat
    BY KernelTypes, LenProperties
  <1>2. PICK line : line = AckFor(LastLine(c))
    OBVIOUS
  <1>3. line \in Line /\ line.seq = Len(written[c]) /\ line.kind = "ACK"
    BY <1>1, <1>2 DEF AckFor, LastLine, Line
  <1>4. PICK a : a = [line |-> line, nl |-> FALSE]
    OBVIOUS
  <1>5. PICK b : b = [line |-> line, nl |-> TRUE]
    OBVIOUS
  <1>6. a \in Chunk /\ b \in Chunk /\ a.line = line /\ a.nl = FALSE /\ b.line = line /\ b.nl = TRUE
    BY <1>3, <1>4, <1>5 DEF Chunk
  <1>7. Answer(c) = <<a, b>> /\ <<a, b>>[2] = b
    BY <1>2, <1>4, <1>5 DEF Answer, Halves
  <1>8. Image(<<a, b>>) = LP!AckLine(line.seq)
    BY <1>6, ImageOfTwo DEF LP!AckLine
  <1>9. Tail(<<b>>) = <<>> /\ Head(<<b>>) = b
    OBVIOUS
  <1>10. /\ <<a, b>> \in Seq(Chunk) /\ Len(<<a, b>>) = 2 /\ Tail(<<a, b>>) = <<b>>
         /\ <<b>> \in Seq(Chunk) /\ Len(<<b>>) = 1
    BY <1>6, TwoOf
  <1> QED BY <1>1, <1>3, <1>6, <1>7, <1>8, <1>9, <1>10

\* A client that reports waits for the answer or says nothing.
LEMMA Conversation ==
  ASSUME ServerInv, NEW c \in Conns, peer[c] \in {"idle", "open"}
  PROVE  /\ ~awaiting[c] => outbox[c] = <<>>
         /\ unfinished[c] # "none" => ~awaiting[c] /\ unfinished[c] = "STATUS_ACK"
         /\ outbox[c] # <<>> => /\ awaiting[c]
                                /\ outbox[c] = Answer(c) \/ outbox[c] = <<Answer(c)[2]>>
  <1>1. Talk(c)
    BY SystemAssumption DEF ServerInv, Talks
  <1>2. unfinished[c] # "none" => ~awaiting[c] /\ unfinished[c] = "STATUS_ACK"
    BY SystemAssumption DEF ServerInv, StreamInv, KeepsToItsProgram
  <1> QED BY <1>1, <1>2 DEF Talk, Silent, Asking, Answered

\* The reports begun are counted.
LEMMA BegunType ==
  ASSUME ServerInv, NEW c \in Conns
  PROVE  /\ Len(written[c]) \in Nat /\ Begun(c) \in Nat
         /\ Fresh(c) => Begun(c) = 0
  <1>1. Len(written[c]) \in Nat
    BY KernelTypes, LenProperties
  <1>2. Begun(c) = Len(written[c]) \/ Begun(c) = Len(written[c]) + 1
    <2>1. \A n \in Nat : n + 0 = n
      OBVIOUS
    <2> QED BY <1>1, <2>1 DEF Begun
  <1>3. ASSUME Fresh(c)
        PROVE  Begun(c) = 0
    <2>1. Len(<<>>) + 0 = 0
      OBVIOUS
    <2> QED BY <1>3, <2>1 DEF Begun, Fresh
  <1>4. \A n \in Nat : n + 1 \in Nat
    OBVIOUS
  <1> QED BY <1>1, <1>2, <1>3, <1>4

\* A connection to which nothing happens keeps what is on its way.
LEMMA LinkedSame ==
  ASSUME NEW c \in Conns, LinkedTo(c),
         link'[c] = link[c], reply'[c] = reply[c], clients'[c].sequence = clients[c].sequence,
         peer'[c] = peer[c], written'[c] = written[c], unfinished'[c] = unfinished[c],
         awaiting'[c] = awaiting[c], outbox'[c] = outbox[c],
         LP!Received(c)' = LP!Received(c) \/ LP!Received(c)' < 2
  PROVE  LinkedTo(c)'
  BY DEF LinkedTo, Begun, Unanswered, Image, LP!AckLine

\* What is known of a connection that the load generator holds.
LEMMA HeldFacts ==
  ASSUME SysInv, NEW c \in Conns, Held(c)
  PROVE  /\ ~killed /\ LP!Inv /\ LP!Typed /\ Running /\ c \in LP!Open /\ LinkedTo(c) /\ EndsOf(c)
         /\ Len(reply[c]) \in Nat /\ LP!Received(c) \in Nat /\ LP!Received(c) + Len(reply[c]) <= 2
         /\ clients[c] \in LP!Client /\ lg_inbox[c] \in Seq(LP!Chunk) /\ reply[c] \in Seq(LP!Chunk)
         /\ link[c] \in {"syn", "up", "eof", "reset"}
  <1>1. Running /\ c \in LP!Open /\ LinkedTo(c) /\ EndsOf(c)
    BY SameState DEF SysInv, Linked, Held, Ends, EndsOf
  <1>2. ~killed /\ LP!Inv /\ LP!Typed
    BY <1>1, WhileRunning DEF SysInv
  <1>3. Len(reply[c]) \in Nat /\ LP!Received(c) \in Nat /\ LP!Received(c) + Len(reply[c]) <= 2
    BY <1>1, <1>2, LoadgenConstants, LP!ReceivedAndOwed
  <1>4. clients[c] \in LP!Client /\ lg_inbox[c] \in Seq(LP!Chunk) /\ reply[c] \in Seq(LP!Chunk)
    BY <1>1, <1>2, LoadgenConstants, LP!BytesTyped
  <1>5. link[c] \in {"syn", "up", "eof", "reset"}
    BY <1>1, <1>2 DEF LP!Inv, LP!Wire, LP!Typed
  <1> QED BY <1>1, <1>2, <1>3, <1>4, <1>5

\* The load generator by itself begins, keeps or ends an exchange.
LEMMA LinkedByAlone ==
  ASSUME SysInv, ProgramAlone, NEW c \in Conns, Held(c)'
  PROVE  LinkedTo(c)'
  <1>1. LP!Alone /\ LP!Inv /\ Running
        /\ UNCHANGED <<peer, written, unfinished, awaiting, outbox>>
    BY AloneRunning DEF SysInv, vars, kernelVars, clientVars
  <1>2. c \in LP!Open'
    BY SameState DEF Held
  <1>3. \/ LP!Begins(c)
        \/ LP!Keeps(c) /\ LP!Received(c)' = LP!Received(c)
        \/ LP!Keeps(c) /\ LP!ReadsAnswer(c)
    BY <1>1, <1>2, LoadgenConstants, LP!AloneEffect
  <1>4. CASE LP!Begins(c)
    <2>1. Fresh(c)
      BY <1>4 DEF LP!Begins, SysInv, Ends
    <2>2. Begun(c) = 0
      BY <2>1, BegunType DEF SysInv
    <2>3. Begun(c)' = Begun(c)
      BY <1>1 DEF Begun
    <2>4. clients'[c].sequence = Begun(c)' /\ link'[c] = "syn" /\ outbox'[c] = <<>>
      BY <1>1, <1>4, <2>1, <2>2, <2>3 DEF LP!Begins, Fresh
    <2> QED BY <2>4 DEF LinkedTo
  <1>5. CASE LP!Keeps(c)
    <2>1. Held(c) /\ LinkedTo(c)
      BY <1>1, <1>5, SameState DEF LP!Keeps, Held, SysInv, Linked
    <2>2. CASE LP!Received(c)' = LP!Received(c)
      BY <1>1, <1>5, <2>1, <2>2, LinkedSame DEF LP!Keeps
    <2>3. CASE LP!ReadsAnswer(c)
      <3>1. LP!Received(c)' < 2
        BY <2>3 DEF LP!ReadsAnswer
      <3> QED BY <1>1, <1>5, <2>1, <3>1, LinkedSame DEF LP!Keeps
    <2> QED BY <1>3, <1>5, <2>2, <2>3 DEF LP!Begins, LP!Keeps
  <1> QED BY <1>3, <1>4, <1>5

\* A report of the load generator is a report for the server.
LEMMA LinkedBySend ==
  ASSUME SysInv, NEW d \in Conns, Sends(d), NEW c \in Conns, Held(c)'
  PROVE  LinkedTo(c)'
  <1>1. Held(c) /\ LinkedTo(c)
    BY SameState DEF Sends, Held, Running, SysInv, Linked
  <1>2. /\ TypeOK /\ unfinished \in [Conns -> ClientKinds \cup {"none"}] /\ inbox \in [Conns -> Seq(Chunk)]
    BY KernelTypes DEF SysInv
  <1>3. CASE c # d
    <2>1. /\ link'[c] = link[c] /\ reply'[c] = reply[c] /\ clients'[c] = clients[c] /\ c \in LP!Open
          /\ lg_inbox'[c] = lg_inbox[c]
      BY <1>1, <1>3, SameState DEF Sends, Held
    <2>2. LP!Received(c)' = LP!Received(c)
      BY <2>1 DEF LP!Received
    <2>3. /\ peer'[c] = peer[c] /\ written'[c] = written[c] /\ unfinished'[c] = unfinished[c]
          /\ awaiting'[c] = awaiting[c] /\ outbox'[c] = outbox[c]
      <3>1. CASE UNCHANGED vars
        BY <3>1 DEF vars, kernelVars, clientVars
      <3>2. CASE WriteHalf(d, "STATUS_ACK")
        BY <1>2, <1>3, <3>2 DEF WriteHalf
      <3> QED BY <3>1, <3>2 DEF Sends
    <2> QED BY <1>1, <2>1, <2>2, <2>3, LinkedSame
  <1>4. CASE c = d /\ link[d] = "up"
    <2>1. /\ WriteHalf(c, "STATUS_ACK") /\ link' = link /\ LP!Received(c)' = 0
          /\ clients'[c].sequence = clients[c].sequence + 1
          /\ reply'[c] = LP!AckLine(clients[c].sequence + 1)
      BY <1>4 DEF Sends
    <2>2. /\ peer'[c] = "open" /\ unfinished'[c] = "STATUS_ACK" /\ unfinished[c] = "none"
          /\ UNCHANGED <<written, awaiting, outbox>>
      BY <1>2, <2>1 DEF WriteHalf
    <2>3. clients[c].sequence = Begun(c)
      BY <1>1, <1>4 DEF LinkedTo
    <2>4. clients'[c].sequence = Begun(c)'
      <3>1. Len(written[c]) \in Nat
        BY BegunType DEF SysInv
      <3>2. Begun(c) = Len(written[c]) + 0 /\ Begun(c)' = Len(written[c]) + 1
        BY <2>2 DEF Begun
      <3> QED BY <2>1, <2>3, <3>1, <3>2
    <2>5. Unanswered(c)'
      BY <2>2 DEF Unanswered
    <2>6. reply'[c] = LP!AckLine(clients[c].sequence)' /\ LP!Received(c)' < 2
      BY <2>1 DEF LP!AckLine
    <2> QED BY <1>4, <2>1, <2>2, <2>4, <2>5, <2>6 DEF LinkedTo
  <1>5. CASE c = d /\ link[d] = "eof"
    <2>1. link'[c] = "eof" /\ LP!Received(c)' = 0
      BY <1>5 DEF Sends
    <2> QED BY <2>1 DEF LinkedTo
  <1> QED BY <1>3, <1>4, <1>5 DEF Sends

\* An answer of the server is the one that is expected.
LEMMA LinkedByServer ==
  ASSUME SysInv, ServerStep \/ Signal, UNCHANGED <<lgVars, killed>>, NEW c \in Conns, Held(c)'
  PROVE  LinkedTo(c)'
  <1>1. ServerInv /\ TypeOK /\ outbox \in [Conns -> Seq(Chunk)]
    BY KernelTypes DEF SysInv
  <1>2. UNCHANGED <<lg_pc, clients, link, reply, lg_inbox>>
    BY DEF lgVars
  <1>3. Held(c)
    BY <1>2, SameState DEF Held, Running, LP!Open
  <1>4. LinkedTo(c) /\ EndsOf(c)
    BY <1>3, HeldFacts
  <1>5. /\ UNCHANGED <<written, unfinished, awaiting>> /\ KeepsPeers
        /\ SendsNothing \/ \E d \in Conns : Answers(d)
        /\ Ended => UNCHANGED counters
    BY <1>1, ServerEffect DEF clientVars
  <1>6. LP!Received(c)' = LP!Received(c)
    BY <1>2 DEF LP!Received
  <1>7. CASE outbox'[c] = outbox[c]
    <2>1. peer'[c] = peer[c] \/ link[c] # "up"
      BY <1>4, <1>5 DEF LinkedTo, KeepsPeers
    <2> QED BY <1>2, <1>4, <1>5, <1>6, <1>7, <2>1
            DEF LinkedTo, Begun, Unanswered, Image, LP!AckLine, EndsOf
  <1>8. ASSUME NEW d \in Conns, Answers(d), d # c
        PROVE  outbox'[c] = outbox[c]
    BY <1>1, <1>8 DEF Answers
  <1>9. CASE Answers(c)
    <2>1. /\ peer[c] = "open" /\ awaiting[c] /\ outbox[c] = <<>> /\ outbox'[c] = Answer(c)
          /\ counters'.status_received = counters.status_received + 1
          /\ counters.status_received \in Nat
      BY <1>1, <1>9, KernelTypes DEF Answers, SysInv
    <2>2. ~Ended
      BY <1>5, <2>1
    <2>3. link[c] = "up"
      BY <1>3, <1>4, <2>1, <2>2, HeldFacts DEF EndsOf
    <2>4. unfinished[c] = "none"
      BY <1>1, <2>1, Conversation
    <2>5. clients[c].sequence = Len(written[c])
      <3>1. clients[c].sequence = Begun(c)
        BY <1>4, <2>3 DEF LinkedTo
      <3> QED BY <1>1, <2>4, <3>1, ImageAnswer DEF Begun
    <2>6. reply[c] = LP!AckLine(clients[c].sequence)
      BY <1>4, <2>1, <2>3 DEF LinkedTo, Unanswered
    <2>7. Image(Answer(c)) = LP!AckLine(clients[c].sequence) /\ Answer(c) # <<>>
      <3>1. Answer(c) \in Seq(Chunk) /\ Len(Answer(c)) = 2
        BY <1>1, ImageAnswer
      <3>2. Answer(c) # <<>>
        BY <3>1, EmptySeq
      <3> QED BY <1>1, <2>5, <3>2, ImageAnswer
    <2>8. LP!Received(c) = 0
      <3>1. PICK n \in Nat : n = clients[c].sequence
        BY <1>1, <2>5, ImageAnswer
      <3>2. Len(LP!AckLine(n)) = 2
        BY LoadgenConstants, LP!AckLineType
      <3>3. LP!Received(c) \in Nat /\ LP!Received(c) + 2 <= 2
        BY <1>3, <2>6, <3>1, <3>2, HeldFacts
      <3> QED BY <3>3
    <2>9. peer'[c] = "open"
      BY <1>5, <2>1 DEF KeepsPeers
    <2>10. ~Unanswered(c)' /\ Image(outbox[c])' = LP!AckLine(clients[c].sequence)
      <3>1. PICK a : a = Answer(c)
        OBVIOUS
      <3>2. outbox'[c] = a /\ a # <<>> /\ Image(a) = LP!AckLine(clients[c].sequence)
        BY <2>1, <2>7, <3>1
      <3> QED BY <1>5, <2>4, <3>2 DEF Unanswered, Image
    <2>11. reply'[c] = Image(outbox[c])' /\ LP!Received(c)' < 2
      BY <1>2, <1>6, <2>6, <2>8, <2>10
    <2>12. clients'[c].sequence = Begun(c)'
      BY <1>2, <1>4, <1>5, <2>3 DEF LinkedTo, Begun
    <2> QED BY <2>9, <2>10, <2>11, <2>12 DEF LinkedTo
  <1> QED BY <1>5, <1>7, <1>8, <1>9 DEF SendsNothing

\* A step of the network on another connection.
LEMMA LinkedElsewhere ==
  ASSUME SysInv, NEW d \in Conns, Net(d), NEW c \in Conns, Held(c)', c # d
  PROVE  LinkedTo(c)'
  <1>1. /\ ServerInv /\ LoadgenInv /\ TypeOK /\ peer \in [Conns -> {"idle", "open", "fin", "rst", "dead", "closed"}]
        /\ outbox \in [Conns -> Seq(Chunk)] /\ written \in [Conns -> Seq(ClientKinds)]
        /\ unfinished \in [Conns -> ClientKinds \cup {"none"}] /\ awaiting \in [Conns -> BOOLEAN]
        /\ link \in [Conns -> {"none", "syn", "up", "eof", "reset"}]
    BY KernelTypes DEF SysInv, Ends
  <1>2. /\ peer'[c] = peer[c] /\ written'[c] = written[c] /\ unfinished'[c] = unfinished[c]
        /\ awaiting'[c] = awaiting[c] /\ outbox'[c] = outbox[c]
    <2>1. CASE Connect(d)
      BY <1>1, <2>1 DEF Connect, clientVars
    <2>2. CASE UNCHANGED vars
      BY <2>2 DEF vars, kernelVars, clientVars
    <2>3. CASE WriteRest(d)
      BY <1>1, <2>3 DEF WriteRest
    <2>4. CASE ReadChunk(d)
      BY <1>1, <2>4 DEF ReadChunk
    <2>5. CASE CloseClient(d)
      BY <1>1, <2>5 DEF CloseClient, clientVars
    <2>6. CASE Reset(d)
      BY <1>1, <2>6 DEF Reset, clientVars
    <2> QED BY <2>1, <2>2, <2>3, <2>4, <2>5, <2>6, ClientGoneKinds
            DEF Net, Handshake, NobodyListens, RestOfLine, Arrival, ServerGone
  <1>3. UNCHANGED <<lg_pc, clients>>
    BY ClientGoneKinds DEF Net, Handshake, NobodyListens, RestOfLine, Arrival, ServerGone,
       L!Establish, L!Refuse, L!Deliver, L!ServerCloses, L!countVars, L!loopVars, lgVars
  <1>4. Held(c) /\ LinkedTo(c) /\ LP!Typed
    <2>1. Held(c)
      BY <1>3, SameState DEF Held, Running, LP!Open
    <2> QED BY <2>1, HeldFacts
  <1>5. link'[c] = link[c] /\ reply'[c] = reply[c] /\ lg_inbox'[c] = lg_inbox[c]
    <2>1. CASE UNCHANGED lgVars
      BY <2>1 DEF lgVars
    <2>2. reply \in [Conns -> Seq(LP!Chunk)] /\ lg_inbox \in [Conns -> Seq(LP!Chunk)]
      BY <1>4 DEF LP!Typed
    <2>3. CASE L!Establish(d) \/ L!Refuse(d)
      BY <1>1, <2>3 DEF L!Establish, L!Refuse
    <2>4. CASE L!Deliver(d) \/ L!ServerCloses(d)
      BY <1>1, <2>2, <2>4 DEF L!Deliver, L!ServerCloses
    <2> QED BY <2>1, <2>3, <2>4, ClientGoneKinds
            DEF Net, Handshake, NobodyListens, RestOfLine, Arrival, ServerGone
  <1>6. LP!Received(c)' = LP!Received(c)
    BY <1>3, <1>5 DEF LP!Received
  <1> QED BY <1>2, <1>3, <1>4, <1>5, <1>6, LinkedSame

\* A connection that is established has nothing on its way.
LEMMA LinkedByHandshake ==
  ASSUME SysInv, NEW c \in Conns, Handshake(c), Held(c)'
  PROVE  LinkedTo(c)'
  <1>1. /\ link[c] = "syn" /\ peer[c] = "idle" /\ link' = [link EXCEPT ![c] = "up"]
        /\ peer' = [peer EXCEPT ![c] = "open"] /\ link'[c] = "up" /\ peer'[c] = "open"
        /\ UNCHANGED <<lg_pc, clients, reply, lg_inbox, outbox, written, unfinished, awaiting>>
    BY KernelTypes DEF Handshake, L!Establish, Connect, clientVars, SysInv, Ends
  <1>2. Held(c)
    BY <1>1, SameState DEF Held, Running, LP!Open
  <1>3. /\ LP!Inv /\ c \in LP!Open /\ LinkedTo(c) /\ clients[c] \in LP!Client
        /\ lg_inbox[c] \in Seq(LP!Chunk) /\ reply[c] \in Seq(LP!Chunk)
    BY <1>2, HeldFacts
  <1>4. Fresh(c)
    BY <1>1 DEF SysInv, Ends
  <1>5. clients[c].phase # "WaitingAck"
    BY <1>1, <1>3 DEF LP!Inv, LP!Wire, LP!WasUp
  <1>6. reply[c] = <<>>
    <2>1. LP!Due(clients[c], lg_inbox[c], reply[c], link[c])
      BY <1>3, LoadgenConstants, LP!AckPerConnection DEF LP!Inv
    <2> QED BY <1>3, <1>5, <2>1, LoadgenConstants, LP!DueNothing
  <1>7. Image(outbox[c])' = <<>>
    <2> <<>> \in Seq(Chunk)
      OBVIOUS
    <2>1. PICK q \in Seq(Chunk) : q = <<>>
      OBVIOUS
    <2>2. Image(q) = <<>>
      BY <2>1, ImageShape
    <2> QED BY <1>1, <1>4, <2>1, <2>2 DEF Fresh, Image
  <1>8. ~Unanswered(c)' /\ outbox'[c] = <<>>
    BY <1>1, <1>4 DEF Unanswered, Fresh
  <1>9. clients'[c].sequence = Begun(c)'
    BY <1>1, <1>3 DEF LinkedTo, Begun
  <1> QED BY <1>1, <1>6, <1>7, <1>8, <1>9 DEF LinkedTo

\* The rest of a line makes a report that is not answered.
LEMMA LinkedByRest ==
  ASSUME SysInv, NEW c \in Conns, RestOfLine(c), Held(c)'
  PROVE  LinkedTo(c)'
  <1>1. /\ WriteRest(c) /\ UNCHANGED <<lg_pc, clients, link, reply, lg_inbox, peer, outbox>>
        /\ peer[c] = "open" /\ unfinished[c] # "none"
    BY DEF RestOfLine, WriteRest, lgVars
  <1>2. Held(c)
    BY <1>1, SameState DEF Held, Running, LP!Open
  <1>3. LinkedTo(c)
    BY <1>2, HeldFacts
  <1>4. ServerInv /\ unfinished[c] = "STATUS_ACK" /\ outbox[c] = <<>>
    BY <1>1, Conversation DEF SysInv
  <1>5. awaiting'[c] /\ unfinished'[c] = "none" /\ written'[c] = Append(written[c], unfinished[c])
    BY <1>1, <1>4, KernelTypes DEF WriteRest
  <1>6. Begun(c)' = Begun(c)
    <2>1. PICK w \in Seq(ClientKinds) : w = written[c]
      BY <1>4, KernelTypes
    <2>2. unfinished[c] \in ClientKinds
      BY <1>4 DEF ClientKinds
    <2>3. Len(Append(w, unfinished[c])) = Len(w) + 1 /\ Len(w) \in Nat
      BY <2>2, AppendProperties, LenProperties
    <2>4. Begun(c) = Len(w) + 1
      BY <1>1, <2>1 DEF Begun
    <2>5. Begun(c)' = Len(Append(w, unfinished[c])) + 0
      BY <1>5, <2>1 DEF Begun
    <2> QED BY <2>3, <2>4, <2>5
  <1>7. Unanswered(c) /\ Unanswered(c)'
    BY <1>1, <1>4, <1>5 DEF Unanswered
  <1>8. link'[c] = "up" => reply'[c] = LP!AckLine(clients[c].sequence)' /\ peer'[c] = "open"
    BY <1>1, <1>3, <1>7 DEF LinkedTo, LP!AckLine
  <1>9. link'[c] \in {"syn", "up"} => clients'[c].sequence = Begun(c)'
    BY <1>1, <1>3, <1>6 DEF LinkedTo
  <1> QED BY <1>1, <1>4, <1>7, <1>8, <1>9 DEF LinkedTo

\* What arrives leaves the server's end and enters the load generator's.
LEMMA LinkedByArrival ==
  ASSUME SysInv, NEW c \in Conns, Arrival(c)
  PROVE  /\ LinkedTo(c)' /\ Held(c)
         /\ outbox[c] # <<>> /\ awaiting[c] /\ unfinished[c] = "none"
         /\ outbox'[c] = <<>> => ~awaiting'[c]
  <1>1. /\ Held(c) /\ link[c] = "up" /\ peer[c] = "open" /\ outbox[c] # <<>>
        /\ UNCHANGED <<lg_pc, clients, link, peer, written, unfinished>>
    BY DEF Arrival, L!Deliver, ReadChunk
  <1>2. /\ ServerInv /\ outbox \in [Conns -> Seq(Chunk)] /\ awaiting \in [Conns -> BOOLEAN]
    BY KernelTypes DEF SysInv
  <1>3. /\ LP!Inv /\ LP!Typed /\ c \in LP!Open /\ LinkedTo(c) /\ clients[c] \in LP!Client
        /\ lg_inbox[c] \in Seq(LP!Chunk) /\ reply[c] \in Seq(LP!Chunk)
        /\ Len(reply[c]) \in Nat /\ LP!Received(c) \in Nat /\ LP!Received(c) + Len(reply[c]) <= 2
    BY <1>1, HeldFacts
  <1>4. /\ awaiting[c] /\ unfinished[c] = "none"
        /\ outbox[c] = Answer(c) \/ outbox[c] = <<Answer(c)[2]>>
    BY <1>1, <1>2, Conversation
  <1>5. PICK q \in Seq(Chunk) : q = outbox[c] /\ q # <<>>
    BY <1>1, <1>2
  <1>6. reply[c] = Image(q) /\ Len(reply[c]) = Len(q) /\ Image(Tail(q)) = Tail(reply[c])
    <2>1. reply[c] = Image(q)
      BY <1>1, <1>3, <1>4, <1>5 DEF LinkedTo, Unanswered
    <2> QED BY <1>5, <2>1, ImageShape
  <1>7. /\ outbox'[c] = Tail(q) /\ reply'[c] = Tail(reply[c])
        /\ lg_inbox'[c] = Append(lg_inbox[c], Head(reply[c]))
        /\ awaiting'[c] = (awaiting[c] /\ ~(Head(q).nl /\ Head(q).line.kind = "ACK"))
    <2>1. reply \in [Conns -> Seq(LP!Chunk)] /\ lg_inbox \in [Conns -> Seq(LP!Chunk)]
      BY <1>3 DEF LP!Typed
    <2>2. /\ outbox' = [outbox EXCEPT ![c] = Tail(@)] /\ reply' = [reply EXCEPT ![c] = Tail(@)]
          /\ lg_inbox' = [lg_inbox EXCEPT ![c] = Append(@, Head(reply[c]))]
          /\ awaiting' = [awaiting EXCEPT ![c] = @ /\ ~(Head(outbox[c]).nl /\ Head(outbox[c]).line.kind = "ACK")]
      BY DEF Arrival, L!Deliver, ReadChunk
    <2>3. awaiting'[c] = (awaiting[c] /\ ~(Head(outbox[c]).nl /\ Head(outbox[c]).line.kind = "ACK"))
      BY <1>2, <2>2, Zenon
    <2> QED BY <1>2, <1>5, <2>1, <2>2, <2>3
  <1>8. LP!Received(c)' = LP!Received(c) + 1
    <2>1. PICK b \in Seq(LP!Chunk) : b = clients[c].receive_buffer
      BY <1>3 DEF LP!Client
    <2>2. PICK i \in Seq(LP!Chunk) : i = lg_inbox[c]
      BY <1>3
    <2>3. PICK r \in Seq(LP!Chunk) : r = reply[c] /\ r # <<>>
      <3>1. Image(q) # <<>>
        BY <1>5, ImageShape
      <3> QED BY <1>3, <1>6, <3>1
    <2>4. Len(Append(i, Head(r))) = Len(i) + 1 /\ Len(i) \in Nat /\ Len(b) \in Nat
      <3>1. Head(r) \in LP!Chunk
        BY <2>3, HeadTailProperties
      <3> QED BY <3>1, AppendProperties, LenProperties
    <2>5. LP!Received(c) = Len(b) + Len(i) /\ LP!Received(c)' = Len(b) + Len(Append(i, Head(r)))
      BY <1>1, <1>7, <2>1, <2>2, <2>3 DEF LP!Received
    <2> QED BY <2>4, <2>5
  <1>9. ASSUME q = Answer(c)
        PROVE  /\ ~Unanswered(c)' /\ (outbox'[c] = <<>> => ~awaiting'[c])
               /\ outbox'[c] # <<>> => LP!Received(c)' < 2
    <2>1. Len(q) = 2 /\ Tail(q) = <<Answer(c)[2]>> /\ Tail(q) # <<>>
      <3>1. Len(<<Answer(c)[2]>>) = 1 /\ <<Answer(c)[2]>> \in Seq(Chunk)
        BY <1>2, ImageAnswer
      <3>2. <<Answer(c)[2]>> # <<>>
        BY <3>1, EmptySeq
      <3> QED BY <1>2, <1>9, <3>2, ImageAnswer
    <2>2. LP!Received(c)' < 2
      BY <1>3, <1>6, <1>8, <2>1
    <2>3. outbox'[c] # <<>>
      BY <1>7, <2>1
    <2>4. ~Unanswered(c)' /\ (outbox'[c] = <<>> => ~awaiting'[c])
      BY <1>1, <1>4, <2>3 DEF Unanswered
    <2> QED BY <2>2, <2>4
  <1>10. ASSUME q = <<Answer(c)[2]>>
         PROVE  /\ ~Unanswered(c)' /\ outbox'[c] = <<>> /\ ~awaiting'[c]
    <2>1. /\ Tail(q) = <<>> /\ Head(q) = Answer(c)[2] /\ Answer(c)[2].nl
          /\ Answer(c)[2].line.kind = "ACK"
      BY <1>2, <1>10, ImageAnswer
    <2>2. outbox'[c] = <<>> /\ ~awaiting'[c]
      BY <1>7, <2>1
    <2>3. ~Unanswered(c)'
      BY <1>1, <1>4, <2>2 DEF Unanswered
    <2> QED BY <2>2, <2>3
  <1>11. /\ ~Unanswered(c)' /\ (outbox'[c] = <<>> => ~awaiting'[c])
         /\ outbox'[c] # <<>> => LP!Received(c)' < 2
    BY <1>4, <1>5, <1>9, <1>10
  <1>12. reply'[c] = Image(outbox[c])'
    <2>1. PICK t : t = Tail(q)
      OBVIOUS
    <2>2. outbox'[c] = t /\ reply'[c] = Image(t)
      BY <1>6, <1>7, <2>1
    <2> QED BY <2>2 DEF Image
  <1>13. clients'[c].sequence = Begun(c)'
    BY <1>1, <1>3 DEF LinkedTo, Begun
  <1>14. LinkedTo(c)'
    BY <1>1, <1>11, <1>12, <1>13 DEF LinkedTo
  <1> QED BY <1>1, <1>4, <1>11, <1>14

\* Each step keeps every connection that the load generator holds linked.
LEMMA LinkedStep ==
  ASSUME SysInv, [SysNext]_sysVars
  PROVE  Linked'
  <1>1. SUFFICES ASSUME NEW c \in Conns, Held(c)'
                 PROVE  LinkedTo(c)'
    BY DEF Linked
  <1>2. ServerInv /\ LoadgenInv /\ killed \in BOOLEAN
    BY DEF SysInv, Ends
  <1>3. CASE LoadgenSends
    BY <1>1, <1>2, <1>3, SendsEffect, LinkedBySend
  <1>4. CASE Kill
    BY <1>1, <1>4 DEF Kill, Held, Running
  <1>5. ASSUME NEW d \in Conns, Net(d), c = d
        PROVE  LinkedTo(c)'
    <2>1. CASE Handshake(c)
      BY <1>1, <2>1, LinkedByHandshake
    <2>2. CASE RestOfLine(c)
      BY <1>1, <2>2, LinkedByRest
    <2>3. CASE Arrival(c)
      BY <2>3, LinkedByArrival
    <2>4. CASE ClientGone(c)
      BY <1>1, <2>4, ClientGoneKinds, SameState DEF Held, Running, LP!Open, lgVars
    <2>5. CASE NobodyListens(c) \/ ServerGone(c)
      <3>1. UNCHANGED <<lg_pc, clients, lg_inbox, vars>> /\ link'[c] \in {"eof", "reset"}
        BY <2>5 DEF NobodyListens, ServerGone, L!Refuse, L!ServerCloses, SysInv, Ends
      <3>2. Held(c)
        BY <1>1, <3>1, SameState DEF Held, Running, LP!Open
      <3>3. LinkedTo(c) /\ LP!Received(c)' = LP!Received(c) /\ UNCHANGED outbox
        BY <3>1, <3>2, HeldFacts DEF LP!Received, vars, kernelVars
      <3> QED BY <3>1, <3>3 DEF LinkedTo
    <2> QED BY <1>5, <2>1, <2>2, <2>3, <2>4, <2>5 DEF Net
  <1>6. CASE UNCHANGED sysVars
    <2>1. /\ UNCHANGED <<lg_pc, clients, link, reply, lg_inbox, peer, written, unfinished, awaiting, outbox>>
      BY <1>6 DEF sysVars, lgVars, vars, kernelVars, clientVars
    <2>2. Held(c)
      BY <1>1, <2>1, SameState DEF Held, Running, LP!Open
    <2>3. LP!Received(c)' = LP!Received(c)
      BY <2>1 DEF LP!Received
    <2> QED BY <2>1, <2>2, <2>3, HeldFacts, LinkedSame
  <1> QED BY <1>1, <1>3, <1>4, <1>5, <1>6, SystemSteps, LinkedByAlone, LinkedByServer, LinkedElsewhere

-----------------------------------------------------------------------------
(* What is counted.                                                        *)

\* Answers on their way belong to connections, so they can be counted.
LEMMA AnsweringKnown == Answering \subseteq Conns /\ Answering' \subseteq Conns
  BY DEF Answering

\* There are finitely many.
LEMMA AnsweringFinite == IsFiniteSet(Answering) /\ Cardinality(Answering) \in Nat
  BY AnsweringKnown, ServerAssumption, FS_Subset, FS_CardinalityType

\* A set without one of its members, and with one more.
LEMMA CountLess ==
  ASSUME NEW S, NEW T, IsFiniteSet(S), T \subseteq S, Cardinality(S) \in Nat
  PROVE  /\ IsFiniteSet(T) /\ Cardinality(T) \in Nat /\ Cardinality(T) <= Cardinality(S)
         /\ \A x \in S : x \notin T => Cardinality(T) + 1 <= Cardinality(S)
  <1>1. IsFiniteSet(T) /\ Cardinality(T) \in Nat /\ Cardinality(T) <= Cardinality(S)
    BY FS_Subset, FS_CardinalityType
  <1>2. ASSUME NEW x \in S, x \notin T
        PROVE  Cardinality(T) + 1 <= Cardinality(S)
    <2>1. /\ IsFiniteSet(T \cup {x}) /\ Cardinality(T \cup {x}) = Cardinality(T) + 1
      BY <1>1, <1>2, FS_AddElement
    <2>2. T \cup {x} \subseteq S
      OBVIOUS
    <2>3. Cardinality(T \cup {x}) <= Cardinality(S)
      BY <2>2, FS_Subset
    <2> QED BY <2>1, <2>3
  <1> QED BY <1>1, <1>2

\* A set that may have one member more.
LEMMA CountMore ==
  ASSUME NEW S, NEW T, NEW x, IsFiniteSet(S), T \subseteq S \cup {x}, Cardinality(S) \in Nat
  PROVE  IsFiniteSet(T) /\ Cardinality(T) \in Nat /\ Cardinality(T) <= Cardinality(S) + 1
  <1>1. /\ IsFiniteSet(S \cup {x}) /\ Cardinality(S \cup {x}) \in Nat
        /\ Cardinality(S \cup {x}) <= Cardinality(S) + 1
    BY FS_AddElement, FS_CardinalityType
  <1>2. IsFiniteSet(T) /\ Cardinality(T) \in Nat /\ Cardinality(T) <= Cardinality(S \cup {x})
    BY <1>1, CountLess
  <1> QED BY <1>1, <1>2

\* The counters as numbers.
LEMMA CountsKnown ==
  ASSUME SysInv
  PROVE  /\ acked \in Nat /\ SentOut \in Nat /\ Acked \in Nat /\ counters.status_received \in Nat
         /\ IsFiniteSet(Answering) /\ Cardinality(Answering) \in Nat
         /\ IsFiniteSet(Reports) /\ Cardinality(Reports) \in Nat /\ Cardinality(Reports) <= SentOut
         /\ acked + Cardinality(Answering) <= Acked
         /\ Acked <= counters.status_received
  <1>1. acked \in Nat /\ SentOut \in Nat
    BY DEF SysInv, LoadgenInv, LP!Inv, LP!Typed, SentOut
  <1>2. Acked \in Nat /\ counters.status_received \in Nat
    BY KernelTypes, AckedIs DEF SysInv
  <1>3. IsFiniteSet(Answering) /\ Cardinality(Answering) \in Nat
    BY AnsweringFinite
  <1>4. /\ IsFiniteSet(Reports) /\ Cardinality(Reports) <= SentOut
        /\ acked + Cardinality(Answering) <= Acked
        /\ Acked <= counters.status_received
    BY Zenon DEF SysInv, Counted
  <1>5. Cardinality(Reports) \in Nat
    BY <1>4, FS_CardinalityType, Zenon
  <1> QED BY <1>1, <1>2, <1>3, <1>4, <1>5, Zenon

\* No answer more, no report more.
LEMMA CountedSame ==
  ASSUME SysInv, Answering' \subseteq Answering, Reports' = Reports, UNCHANGED acked,
         SentOut' \in Nat, SentOut' >= SentOut,
         \E m, n \in {0, 1} : /\ m <= n
                              /\ Acked' = Acked + m
                              /\ counters'.status_received = counters.status_received + n
  PROVE  Counted'
  <1>1. PICK m, n \in {0, 1} : /\ m <= n
                               /\ Acked' = Acked + m
                               /\ counters'.status_received = counters.status_received + n
    OBVIOUS
  <1>2. Cardinality(Answering') \in Nat /\ Cardinality(Answering') <= Cardinality(Answering)
    BY CountsKnown, CountLess
  <1>3. PICK x \in Nat : x = Cardinality(Answering')
    BY <1>2
  <1>4. acked + x <= Acked' /\ Acked' <= counters'.status_received
    BY <1>1, <1>2, <1>3, CountsKnown
  <1>5. Cardinality(Answering)' = x
    BY <1>3
  <1>6. IsFiniteSet(Reports') /\ Cardinality(Reports') <= SentOut'
    BY CountsKnown
  <1> QED BY <1>4, <1>5, <1>6 DEF Counted

\* The reports of a connection follow from what was begun on it.
LEMMA ReportsSame ==
  ASSUME \A c \in Conns : Begun(c)' = Begun(c)
  PROVE  Reports' = Reports
  BY DEF Reports

\* Who waits for the rest of an answer, connection by connection.
LEMMA AnsweringIs ==
  /\ \A c \in Conns : c \in Answering <=> Held(c) /\ (outbox[c] # <<>> \/ LP!Received(c) > 0)
  /\ \A c \in Conns : c \in Answering' <=> Held(c)' /\ (outbox'[c] # <<>> \/ LP!Received(c)' > 0)
  BY DEF Answering

\* The load generator by itself counts the answers it reads.
LEMMA CountedByAlone ==
  ASSUME SysInv, ProgramAlone
  PROVE  Counted'
  <1>1. LP!Alone /\ LP!Inv /\ LP!Typed /\ Running
        /\ UNCHANGED <<pc, counters, peer, written, unfinished, awaiting, outbox>>
    BY AloneRunning DEF SysInv, vars, serverVars, kernelVars, clientVars
  <1>2. \A c \in LP!Open : c \in Conns /\ Held(c)
    BY <1>1, SameState DEF LP!Typed, Held
  <1>3. Reports' = Reports
    BY <1>1, ReportsSame DEF Begun
  <1>4. ASSUME NEW c \in Answering'
        PROVE  c \in Answering /\ ~LP!ReadsAnswer(c)
    <2>1. c \in Conns /\ c \in LP!Open' /\ (outbox[c] # <<>> \/ LP!Received(c)' > 0)
      BY <1>1, AnsweringKnown, AnsweringIs, SameState DEF Held
    <2>2. \/ LP!Begins(c)
          \/ LP!Keeps(c) /\ LP!Received(c)' = LP!Received(c)
          \/ LP!Keeps(c) /\ LP!ReadsAnswer(c)
      BY <1>1, <2>1, LoadgenConstants, LP!AloneEffect
    <2>3. ~LP!Begins(c)
      <3>1. ASSUME LP!Begins(c)
            PROVE  outbox[c] = <<>> /\ LP!Received(c)' = 0
        BY <2>1, <3>1 DEF LP!Begins, SysInv, Ends, Fresh
      <3> QED BY <2>1, <3>1
    <2>4. ~LP!ReadsAnswer(c)
      <3>1. ASSUME LP!ReadsAnswer(c), LP!Keeps(c)
            PROVE  outbox[c] = <<>> /\ LP!Received(c)' = 0
        <4>1. LP!Received(c) = 2 /\ LP!Received(c)' = 0
          BY <3>1 DEF LP!ReadsAnswer
        <4>2. LinkedTo(c)
          BY <1>2, <2>1, <3>1, HeldFacts DEF LP!Keeps
        <4> QED BY <4>1, <4>2 DEF LinkedTo
      <3> QED BY <2>1, <2>2, <2>3, <3>1 DEF LP!Begins, LP!Keeps, LP!ReadsAnswer, LP!AnswerTaken, LP!Waiting
    <2>5. c \in Answering
      BY <1>2, <2>1, <2>2, <2>3, <2>4, AnsweringIs DEF LP!Keeps
    <2> QED BY <2>4, <2>5
  <1>5. UNCHANGED SentOut /\ (UNCHANGED acked \/
           (acked' = acked + 1 /\ \E c \in Conns : c \in LP!Open' /\ LP!ReadsAnswer(c)))
    <2>1. UNCHANGED LP!Issued /\ (UNCHANGED acked \/
             (acked' = acked + 1 /\ \E c \in Conns : c \in LP!Open' /\ LP!ReadsAnswer(c)))
      BY <1>1, LoadgenConstants, LP!AloneCounts
    <2>2. ~killed /\ ~killed'
      BY AloneRunning DEF SysInv
    <2>3. SentOut = LP!Issued /\ SentOut' = LP!Issued'
      BY <2>2 DEF SentOut, LP!Issued
    <2> QED BY <2>1, <2>3
  <1>8. Acked' = Acked
    BY <1>1 DEF Acked
  <1>6. CASE UNCHANGED acked
    <2>1. /\ Acked' = Acked + 0
          /\ counters'.status_received = counters.status_received + 0
      BY <1>1, <1>8, CountsKnown
    <2>2. Answering' \subseteq Answering
      BY <1>4
    <2> QED BY <1>3, <1>5, <1>6, <2>1, <2>2, CountsKnown, CountedSame
  <1>7. ASSUME acked' = acked + 1, NEW c \in Conns, LP!ReadsAnswer(c)
        PROVE  Counted'
    <2>1. c \in Answering
      <3>1. c \in LP!Open /\ LP!Received(c) = 2
        BY <1>7 DEF LP!ReadsAnswer, LP!AnswerTaken, LP!Waiting
      <3>2. LP!Received(c) > 0
        BY <3>1
      <3> QED BY <1>2, <3>1, <3>2, AnsweringIs
    <2>2. c \notin Answering'
      BY <1>4, <1>7
    <2>3. Answering' \subseteq Answering
      BY <1>4
    <2>4. Cardinality(Answering') \in Nat /\ Cardinality(Answering') + 1 <= Cardinality(Answering)
      BY <2>1, <2>2, <2>3, CountsKnown, CountLess
    <2>5. PICK x \in Nat : x = Cardinality(Answering')
      BY <2>4
    <2>6. acked' + x <= Acked'
      BY <1>7, <1>8, <2>4, <2>5, CountsKnown
    <2>7. Cardinality(Answering)' = x
      BY <2>5
    <2>8. IsFiniteSet(Reports') /\ Cardinality(Reports') <= SentOut'
      BY <1>3, <1>5, CountsKnown
    <2>9. Acked' <= counters'.status_received
      BY <1>1, <1>8, CountsKnown
    <2> QED BY <2>6, <2>7, <2>8, <2>9 DEF Counted
  <1> QED BY <1>5, <1>6, <1>7

\* A report that goes out is counted when it is sent.
LEMMA CountedBySend ==
  ASSUME SysInv, NEW d \in Conns, Sends(d)
  PROVE  Counted'
  <1>1. /\ SentOut' = SentOut + 1 /\ UNCHANGED <<acked, lg_inbox, killed>> /\ LP!Open' = LP!Open
        /\ lg_pc = "send" /\ lg_pc' = "sent"
        /\ LP!Received(d) = 0 /\ LP!Received(d)' = 0
        /\ \A c \in LP!Open : c # d => clients'[c] = clients[c]
    BY DEF Sends
  <1>2. ServerInv /\ TypeOK /\ unfinished \in [Conns -> ClientKinds \cup {"none"}]
    BY KernelTypes DEF SysInv
  <1>3. /\ UNCHANGED <<counters, outbox, written>> /\ Acked' = Acked
        /\ \A c \in Conns : c # d => unfinished'[c] = unfinished[c]
        /\ Begun(d)' = Begun(d) \/ Begun(d)' = Begun(d) + 1
    <2>1. CASE UNCHANGED vars
      <3>1. UNCHANGED <<pc, counters, outbox, written, unfinished>>
        BY <2>1 DEF vars, serverVars, kernelVars, clientVars
      <3> QED BY <3>1 DEF Begun, Acked
    <2>2. CASE WriteHalf(d, "STATUS_ACK")
      <3>1. /\ UNCHANGED <<pc, counters, outbox, written>> /\ unfinished[d] = "none"
            /\ unfinished' = [unfinished EXCEPT ![d] = "STATUS_ACK"]
        BY <2>2 DEF WriteHalf, serverVars
      <3>2. unfinished'[d] = "STATUS_ACK" /\ \A c \in Conns : c # d => unfinished'[c] = unfinished[c]
        BY <1>2, <3>1
      <3>3. Len(written[d]) \in Nat
        BY <1>2, BegunType
      <3>4. Begun(d) = Len(written[d]) + 0 /\ Begun(d)' = Len(written[d]) + 1
        BY <3>1, <3>2 DEF Begun
      <3>5. Acked' = Acked
        BY <3>1 DEF Acked
      <3> QED BY <3>1, <3>2, <3>3, <3>4, <3>5
    <2> QED BY <2>1, <2>2 DEF Sends
  <1>4. Answering' \subseteq Answering
    <2> SUFFICES ASSUME NEW c \in Answering'
                 PROVE  c \in Answering
      OBVIOUS
    <2>1. c \in Conns /\ Held(c)' /\ (outbox[c] # <<>> \/ LP!Received(c)' > 0)
      BY <1>3, AnsweringKnown, AnsweringIs
    <2>2. Held(c) /\ c \in LP!Open
      BY <1>1, <2>1, SameState DEF Held, Running
    <2>3. LP!Received(c)' = LP!Received(c)
      <3>1. CASE c = d
        BY <1>1, <3>1
      <3>2. CASE c # d
        BY <1>1, <2>2, <3>2 DEF LP!Received
      <3> QED BY <3>1, <3>2
    <2> QED BY <2>1, <2>2, <2>3, AnsweringIs
  <1>5. Reports' \subseteq Reports \cup {<<d, Begun(d) + 1>>}
    <2>1. \A c \in Conns : Begun(c) \in Nat
      BY <1>2, BegunType
    <2>2. \A c \in Conns : c # d => Begun(c)' = Begun(c)
      BY <1>3 DEF Begun
    <2>3. ASSUME NEW c \in Conns, NEW i \in 1 .. Begun(c)'
          PROVE  <<c, i>> \in Reports \cup {<<d, Begun(d) + 1>>}
      <3>1. CASE i \in 1 .. Begun(c)
        BY <3>1 DEF Reports
      <3>2. CASE i \notin 1 .. Begun(c)
        <4>1. c = d
          BY <2>2, <2>3, <3>2
        <4>2. PICK n \in Nat : n = Begun(d)
          BY <2>1
        <4>3. i \in 1 .. n + 1 /\ i \notin 1 .. n
          <5>1. CASE Begun(d)' = Begun(d)
            BY <2>3, <3>2, <4>1, <5>1
          <5>2. CASE Begun(d)' = Begun(d) + 1
            BY <2>3, <3>2, <4>1, <4>2, <5>2
          <5> QED BY <1>3, <5>1, <5>2
        <4>4. i = n + 1
          BY <4>3
        <4> QED BY <4>1, <4>2, <4>4
      <3> QED BY <3>1, <3>2
    <2> QED BY <2>3 DEF Reports
  <1>6. IsFiniteSet(Reports') /\ Cardinality(Reports') <= SentOut'
    <2>1. PICK new : new = <<d, Begun(d) + 1>>
      OBVIOUS
    <2>2. IsFiniteSet(Reports') /\ Cardinality(Reports') \in Nat /\ Cardinality(Reports') <= Cardinality(Reports) + 1
      BY <1>5, <2>1, CountsKnown, CountMore
    <2> QED BY <1>1, <2>2, CountsKnown
  <1>7. acked' + Cardinality(Answering') <= Acked'
    <2>1. Cardinality(Answering') \in Nat /\ Cardinality(Answering') <= Cardinality(Answering)
      BY <1>4, CountsKnown, CountLess
    <2> QED BY <1>1, <1>3, <2>1, CountsKnown
  <1> QED BY <1>3, <1>6, <1>7, CountsKnown DEF Counted

\* The server counts a report with the answer it sends.
LEMMA CountedByServer ==
  ASSUME SysInv, ServerStep \/ Signal, UNCHANGED <<lgVars, killed>>
  PROVE  Counted'
  <1>1. UNCHANGED <<lg_pc, clients, lg_inbox, acked>> /\ SentOut' = SentOut
    BY DEF lgVars, SentOut
  <1>2. /\ UNCHANGED <<written, unfinished>>
        /\ SendsNothing \/ \E d \in Conns : Answers(d)
    BY ServerEffect DEF clientVars, SysInv
  <1>3. Reports' = Reports
    BY <1>2, ReportsSame DEF Begun
  <1>4. \A c \in Conns : (Held(c)' <=> Held(c)) /\ LP!Received(c)' = LP!Received(c)
    BY <1>1, SameState DEF Held, Running, LP!Open, LP!Received
  <1>5. CASE SendsNothing
    <2>1. Answering' \subseteq Answering
      BY <1>4, <1>5, AnsweringKnown, AnsweringIs DEF SendsNothing
    <2> QED BY <1>1, <1>3, <1>5, <2>1, CountsKnown, CountedSame DEF SendsNothing
  <1>6. ASSUME NEW d \in Conns, Answers(d)
        PROVE  Counted'
    <2>1. /\ Acked' = Acked + 1
          /\ counters'.status_received = counters.status_received + 1
          /\ \A c \in Conns : c # d => outbox'[c] = outbox[c]
      BY <1>6, KernelTypes DEF Answers, SysInv
    <2>2. Answering' \subseteq Answering \cup {d}
      BY <1>4, <2>1, AnsweringKnown, AnsweringIs
    <2>3. Cardinality(Answering') \in Nat /\ Cardinality(Answering') <= Cardinality(Answering) + 1
      BY <2>2, CountsKnown, CountMore
    <2>4. PICK x \in Nat : x = Cardinality(Answering')
      BY <2>3
    <2>5. acked' + x <= Acked' /\ Acked' <= counters'.status_received
      BY <1>1, <2>1, <2>3, <2>4, CountsKnown
    <2>6. Cardinality(Answering)' = x
      BY <2>4
    <2>7. IsFiniteSet(Reports') /\ Cardinality(Reports') <= SentOut'
      BY <1>1, <1>3, CountsKnown
    <2> QED BY <2>5, <2>6, <2>7 DEF Counted
  <1> QED BY <1>2, <1>5, <1>6

\* The network counts nothing.
LEMMA CountedByNet ==
  ASSUME SysInv, NEW d \in Conns, Net(d)
  PROVE  Counted'
  <1>1. /\ ServerInv /\ TypeOK /\ outbox \in [Conns -> Seq(Chunk)]
        /\ written \in [Conns -> Seq(ClientKinds)]
        /\ unfinished \in [Conns -> ClientKinds \cup {"none"}]
    BY KernelTypes DEF SysInv
  <1>2. UNCHANGED <<lg_pc, clients, acked, sent, killed>> /\ SentOut' = SentOut
    BY ClientGoneKinds DEF Net, Handshake, NobodyListens, RestOfLine, Arrival, ServerGone,
       L!Establish, L!Refuse, L!Deliver, L!ServerCloses, L!countVars, L!loopVars, lgVars, SentOut
  <1>3. UNCHANGED <<pc, counters>>
    BY ClientGoneKinds DEF Net, Handshake, NobodyListens, RestOfLine, Arrival, ServerGone,
       Connect, WriteRest, ReadChunk, CloseClient, Reset, vars, serverVars
  <1>4. Reports' = Reports
    <2>1. CASE RestOfLine(d)
      <3>1. /\ written' = [written EXCEPT ![d] = Append(@, unfinished[d])] /\ unfinished[d] # "none"
            /\ unfinished' = [unfinished EXCEPT ![d] = "none"]
        BY <2>1 DEF RestOfLine, WriteRest
      <3>2. ASSUME NEW c \in Conns
            PROVE  Begun(c)' = Begun(c)
        <4>1. CASE c # d
          BY <1>1, <3>1, <4>1 DEF Begun
        <4>2. CASE c = d
          <5>1. PICK w \in Seq(ClientKinds) : w = written[c]
            BY <1>1
          <5>2. unfinished[c] \in ClientKinds
            BY <1>1, <3>1, <4>2
          <5>3. Len(Append(w, unfinished[c])) = Len(w) + 1 /\ Len(w) \in Nat
            BY <5>2, AppendProperties, LenProperties
          <5>4. Begun(c) = Len(w) + 1
            BY <3>1, <4>2, <5>1 DEF Begun
          <5>5. Begun(c)' = Len(Append(w, unfinished[c])) + 0
            BY <1>1, <3>1, <4>2, <5>1 DEF Begun
          <5> QED BY <5>3, <5>4, <5>5
        <4> QED BY <4>1, <4>2
      <3> QED BY <3>2, ReportsSame
    <2>2. CASE UNCHANGED <<written, unfinished>>
      BY <2>2, ReportsSame DEF Begun
    <2> QED BY <2>1, <2>2, ClientGoneKinds
            DEF Net, Handshake, NobodyListens, Arrival, ServerGone,
            Connect, ReadChunk, CloseClient, Reset, vars, clientVars
  <1>5. Answering' \subseteq Answering
    <2> SUFFICES ASSUME NEW c \in Answering'
                 PROVE  c \in Answering
      OBVIOUS
    <2>1. c \in Conns /\ Held(c)' /\ (outbox'[c] # <<>> \/ LP!Received(c)' > 0)
      BY AnsweringKnown, AnsweringIs
    <2>2. Held(c)
      BY <1>2, <2>1, SameState DEF Held, Running, LP!Open
    <2>3. CASE c = d /\ Arrival(d)
      <3>1. outbox[c] # <<>>
        BY <2>3 DEF Arrival, ReadChunk
      <3> QED BY <2>1, <2>2, <3>1, AnsweringIs
    <2>4. CASE ~(c = d /\ Arrival(d))
      <3>1. c # d \/ UNCHANGED lg_inbox
        BY <2>4, ClientGoneKinds DEF Net, Handshake, NobodyListens, RestOfLine, ServerGone,
           L!Establish, L!Refuse, L!ServerCloses, lgVars
      <3>2. lg_inbox'[c] = lg_inbox[c]
        <4>1. CASE UNCHANGED lg_inbox
          BY <4>1
        <4>2. CASE L!Deliver(d) /\ c # d
          <5>1. lg_inbox \in [Conns -> Seq(LP!Chunk)]
            BY <2>1, <2>2, HeldFacts DEF LP!Typed
          <5> QED BY <2>1, <4>2, <5>1 DEF L!Deliver
        <4> QED BY <3>1, <4>1, <4>2, ClientGoneKinds
                DEF Net, Handshake, NobodyListens, RestOfLine, Arrival, ServerGone,
                L!Establish, L!Refuse, L!ServerCloses, lgVars
      <3>3. LP!Received(c)' = LP!Received(c)
        BY <1>2, <3>2 DEF LP!Received
      <3>4. outbox'[c] # <<>> => outbox[c] # <<>>
        <4>1. CASE UNCHANGED outbox
          BY <4>1
        <4>2. CASE ReadChunk(d) /\ c # d
          BY <1>1, <2>1, <4>2 DEF ReadChunk
        <4>3. CASE CloseClient(d) \/ Reset(d)
          BY <1>1, <2>1, <4>3 DEF CloseClient, Reset
        <4> QED BY <2>4, <4>1, <4>2, <4>3, ClientGoneKinds
                DEF Net, Handshake, NobodyListens, RestOfLine, Arrival, ServerGone,
                Connect, WriteRest, vars, kernelVars
      <3> QED BY <2>1, <2>2, <3>3, <3>4, AnsweringIs
    <2> QED BY <2>3, <2>4
  <1>6. /\ Acked' = Acked + 0
        /\ counters'.status_received = counters.status_received + 0
    BY <1>3, CountsKnown DEF Acked
  <1> QED BY <1>2, <1>4, <1>5, <1>6, CountsKnown, CountedSame

\* Each step keeps the counts in their order.
LEMMA CountedStep ==
  ASSUME SysInv, [SysNext]_sysVars
  PROVE  Counted'
  <1>1. LoadgenInv /\ killed \in BOOLEAN
    BY DEF SysInv, Ends
  <1>2. CASE LoadgenSends
    BY <1>1, <1>2, SendsEffect, CountedBySend
  <1>3. CASE Kill
    <2>1. Answering' = {}
      BY <1>3, AnsweringKnown, AnsweringIs DEF Kill, Held, Running
    <2>2. UNCHANGED <<acked, sent, pc, counters, written, unfinished>>
      BY <1>3 DEF Kill, vars, serverVars, clientVars
    <2>5. SentOut' \in Nat /\ SentOut' >= SentOut
      BY <1>3, <2>2, CountsKnown DEF Kill, SentOut, SysInv, LoadgenInv, LP!Inv, LP!Typed
    <2>3. Reports' = Reports
      BY <2>2, ReportsSame DEF Begun
    <2>4. /\ Acked' = Acked + 0
          /\ counters'.status_received = counters.status_received + 0
      BY <2>2, CountsKnown DEF Acked
    <2> QED BY <2>1, <2>2, <2>3, <2>4, <2>5, CountedSame
  <1>4. CASE UNCHANGED sysVars
    <2>1. /\ UNCHANGED <<acked, pc, counters, written, unfinished, outbox, lg_pc, clients, lg_inbox>>
          /\ SentOut' = SentOut
      BY <1>4 DEF SentOut, sysVars, lgVars, vars, serverVars, kernelVars, clientVars
    <2>2. Reports' = Reports
      BY <2>1, ReportsSame DEF Begun
    <2>3. Answering' \subseteq Answering
      <3>1. \A c \in Conns : (Held(c)' <=> Held(c)) /\ LP!Received(c)' = LP!Received(c)
        BY <2>1, SameState DEF Held, Running, LP!Open, LP!Received
      <3> QED BY <2>1, <3>1, AnsweringKnown, AnsweringIs
    <2>4. /\ Acked' = Acked + 0
          /\ counters'.status_received = counters.status_received + 0
      BY <2>1, CountsKnown DEF Acked
    <2> QED BY <2>1, <2>2, <2>3, <2>4, CountsKnown, CountedSame
  <1> QED BY <1>2, <1>3, <1>4, SystemSteps, CountedByAlone, CountedByServer, CountedByNet

-----------------------------------------------------------------------------
(* An orderly end.                                                         *)

\* The load generator's own steps leave everything in order.
LEMMA CalmByAlone ==
  ASSUME SysInv, ProgramAlone
  PROVE  Calm'
  <1> SUFFICES ASSUME ~killed', ~Ended'
               PROVE  Calm'
    BY DEF Calm
  <1>1. /\ LP!Inv /\ LP!Typed /\ Running /\ ~killed /\ UNCHANGED <<vars, killed>>
        /\ UNCHANGED <<pc, peer, outbox, written, unfinished, awaiting>>
    BY AloneRunning DEF SysInv, vars, serverVars, kernelVars, clientVars
  <1>2. ~Ended
    BY <1>1 DEF Ended
  <1>3. /\ \A c \in DOMAIN lg_events : "err" \notin lg_events[c]
        /\ \A c \in Conns : link[c] # "none" => c \in LP!Open
        /\ \A c \in Conns : peer[c] # "rst"
    BY <1>1, <1>2 DEF SysInv, Calm, Running
  <1>4. \A c \in Conns : link[c] \notin {"eof", "reset"}
    BY <1>2 DEF SysInv, Ends
  <1>5. (LP!LocalStep \/ LP!TimeUp) /\ lg_pc # "aborted"
    BY <1>1, <1>2 DEF ProgramAlone, Running
  <1>6. /\ lg_pc' # "aborted"
        /\ \A c \in DOMAIN lg_events' : "err" \notin lg_events'[c]
        /\ lg_pc' # "done" => LP!Open \subseteq LP!Open'
        /\ \A c \in Conns : link'[c] # link[c] => c \in LP!Open'
        /\ lg_pc' = "done" => LP!LoopEnds
    <2>1. "cut" \notin Faults \ {"kill"}
      BY SystemAssumption
    <2> QED BY <1>1, <1>3, <1>4, <1>5, <2>1, LoadgenConstants, LP!AloneCalm DEF Running
  <1>7. ASSUME LP!LoopEnds
        PROVE  AllQuiet'
    <2> SUFFICES ASSUME NEW c \in Conns
                 PROVE  /\ outbox'[c] = <<>> /\ lg_inbox'[c] = <<>>
                        /\ unfinished'[c] = "none" /\ ~awaiting'[c]
      BY DEF AllQuiet
    <2>1. reply[c] = <<>> /\ lg_inbox'[c] = <<>>
      <3>1. reply[c] = <<>> /\ lg_inbox[c] = <<>>
        BY <1>1, <1>7, LoadgenConstants, LP!NothingLeft
      <3> QED BY <1>7, <3>1 DEF LP!LoopEnds, LP!netVars
    <2>2. CASE link[c] = "up"
      <3>1. Held(c)
        BY <1>1, <1>3, <2>2, SameState DEF Held
      <3>2. reply[c] = IF Unanswered(c) THEN LP!AckLine(clients[c].sequence) ELSE Image(outbox[c])
        BY <2>2, <3>1, HeldFacts DEF LinkedTo
      <3>3. LP!AckLine(clients[c].sequence) # <<>>
        <4>1. PICK n \in Nat : n = clients[c].sequence
          BY <3>1, HeldFacts DEF LP!Client
        <4>2. LP!AckLine(n) \in Seq(LP!Chunk) /\ Len(LP!AckLine(n)) = 2
          BY LoadgenConstants, LP!AckLineType
        <4>3. LP!AckLine(n) # <<>>
          BY <4>2, EmptySeq
        <4> QED BY <4>1, <4>3
      <3>4. ~Unanswered(c) /\ outbox[c] = <<>>
        BY <2>1, <3>2, <3>3, ImageShape, KernelTypes DEF SysInv
      <3> QED BY <1>1, <2>1, <3>4 DEF Unanswered
    <2>3. CASE link[c] \in {"none", "syn"}
      BY <1>1, <2>1, <2>3 DEF SysInv, Ends, Fresh
    <2>4. link[c] \in {"none", "syn", "up"}
      BY <1>4 DEF SysInv, Ends
    <2> QED BY <2>2, <2>3, <2>4
  <1>8. \A c \in Conns : lg_pc' # "done" /\ link'[c] # "none" => c \in LP!Open'
    BY <1>3, <1>6
  <1> QED BY <1>1, <1>3, <1>6, <1>7, <1>8 DEF Calm

\* As long as nothing is wrong, a connection that the load generator has let go
\* of is one that it did not open, or one that is quiet.
LEMMA CalmGone ==
  ASSUME SysInv, ~killed, ~Ended, NEW c \in Conns, peer[c] = "open", ~Held(c)
  PROVE  lg_pc = "done" /\ AllQuiet
  <1>1. link[c] # "none"
    BY DEF SysInv, Ends
  <1>2. lg_pc = "done"
    BY <1>1, SameState DEF SysInv, Calm, Held, Running
  <1> QED BY <1>2 DEF SysInv, Calm

\* What the server and the network do disturbs nothing.
LEMMA CalmStep ==
  ASSUME SysInv, [SysNext]_sysVars
  PROVE  Calm'
  <1>1. /\ ServerInv /\ LoadgenInv /\ killed \in BOOLEAN /\ TypeOK
        /\ peer \in [Conns -> {"idle", "open", "fin", "rst", "dead", "closed"}]
        /\ outbox \in [Conns -> Seq(Chunk)] /\ awaiting \in [Conns -> BOOLEAN]
        /\ unfinished \in [Conns -> ClientKinds \cup {"none"}]
        /\ link \in [Conns -> {"none", "syn", "up", "eof", "reset"}]
    BY KernelTypes DEF SysInv, Ends
  <1>2. SUFFICES ASSUME ~killed', ~Ended', ~ProgramAlone
                 PROVE  Calm'
    BY CalmByAlone DEF Calm
  <1>3. ~killed /\ ~Kill
    BY <1>1, <1>2, LoadgenSees DEF Kill, LoadgenInv, Running
  <1>4. ASSUME NEW d \in Conns, Sends(d)
        PROVE  ~Ended /\ lg_pc # "done" /\ UNCHANGED peer
    <2>1. UNCHANGED <<pc, peer>>
      BY <1>4 DEF Sends, WriteHalf, vars, serverVars, kernelVars
    <2> QED BY <1>2, <1>4, <2>1 DEF Sends, Ended
  <1>5. CASE LoadgenSends
    <2>1. PICK d \in Conns : Sends(d)
      BY <1>1, <1>5, SendsEffect
    <2>2. /\ UNCHANGED <<lg_events, link, peer>> /\ LP!Open' = LP!Open /\ ~Ended /\ lg_pc # "done"
          /\ lg_pc' = "sent"
      BY <1>4, <2>1 DEF Sends
    <2> QED BY <1>3, <2>2 DEF SysInv, Calm
  <1>6. CASE (ServerStep \/ Signal) /\ UNCHANGED <<lgVars, killed>>
    <2>1. /\ UNCHANGED clientVars /\ KeepsPeers /\ (Ended => UNCHANGED pc)
          /\ SendsNothing \/ \E c \in Conns : Answers(c)
      BY <1>1, <1>6, ServerEffect
    <2>2. ~Ended
      BY <1>2, <2>1 DEF Ended
    <2>3. UNCHANGED <<lg_pc, lg_events, link, clients, lg_inbox, unfinished, awaiting>>
      BY <1>6, <2>1 DEF lgVars, clientVars
    <2>4. \A c \in Conns : peer'[c] # "rst"
      BY <1>3, <2>1, <2>2 DEF SysInv, Calm, KeepsPeers
    <2>5. lg_pc = "done" => AllQuiet'
      <3>1. ASSUME AllQuiet
            PROVE  UNCHANGED outbox
        BY <2>1, <3>1 DEF AllQuiet, Answers, SendsNothing
      <3> QED BY <1>3, <2>2, <2>3, <3>1 DEF SysInv, Calm, AllQuiet
    <2> QED BY <1>3, <2>2, <2>3, <2>4, <2>5 DEF SysInv, Calm, LP!Open
  <1>7. ASSUME NEW d \in Conns, Net(d)
        PROVE  Calm'
    <2>1. UNCHANGED <<pc, lg_pc, lg_events, clients>>
      BY <1>7, ClientGoneKinds DEF Net, Handshake, NobodyListens, RestOfLine, Arrival, ServerGone,
         L!Establish, L!Refuse, L!Deliver, L!ServerCloses, lgVars,
         Connect, WriteRest, ReadChunk, CloseClient, Reset, vars, serverVars
    <2>2. ~Ended /\ LP!Open' = LP!Open
      BY <1>2, <2>1 DEF Ended, LP!Open
    <2>3. /\ lg_pc # "aborted" /\ (\A c \in DOMAIN lg_events : "err" \notin lg_events[c])
          /\ (\A c \in Conns : lg_pc # "done" /\ link[c] # "none" => c \in LP!Open)
          /\ (\A c \in Conns : peer[c] # "rst") /\ (lg_pc = "done" => AllQuiet)
      BY <1>3, <2>2 DEF SysInv, Calm
    <2>4. CASE Handshake(d)
      <3>1. /\ link[d] = "syn" /\ lg_pc # "done" /\ link' = [link EXCEPT ![d] = "up"]
            /\ peer' = [peer EXCEPT ![d] = "open"]
        BY <2>4 DEF Handshake, L!Establish, Connect, Running
      <3>2. \A c \in Conns : peer'[c] # "rst" /\ (link'[c] # "none" => link[c] # "none")
        BY <1>1, <2>3, <3>1
      <3> QED BY <2>1, <2>2, <2>3, <3>1, <3>2 DEF Calm
    <2>5. CASE RestOfLine(d)
      <3>1. UNCHANGED <<link, peer>> /\ unfinished[d] # "none"
        BY <2>5 DEF RestOfLine, WriteRest, lgVars
      <3>2. lg_pc # "done"
        BY <2>3, <3>1 DEF AllQuiet
      <3> QED BY <2>1, <2>2, <2>3, <3>1, <3>2 DEF Calm
    <2>6. CASE Arrival(d)
      <3>1. UNCHANGED <<link, peer>> /\ lg_pc # "done"
        BY <2>6 DEF Arrival, Held, Running, L!Deliver, ReadChunk
      <3> QED BY <2>1, <2>2, <2>3, <3>1 DEF Calm
    <2>7. CASE ClientGone(d)
      <3>1. ~Held(d) /\ UNCHANGED <<link, lg_inbox>> /\ peer[d] = "open"
            /\ (CloseClient(d) \/ (Reset(d) /\ lg_inbox[d] # <<>>))
        BY <2>7, ClientGoneKinds DEF lgVars, CloseClient, Reset
      <3>2. lg_pc = "done" /\ AllQuiet
        BY <1>3, <2>2, <3>1, CalmGone
      <3>3. CloseClient(d) /\ outbox[d] = <<>>
        BY <3>1, <3>2 DEF AllQuiet
      <3>4. /\ \A c \in Conns : peer'[c] # "rst" /\ outbox'[c] = outbox[c]
            /\ UNCHANGED <<unfinished, awaiting>>
        BY <1>1, <2>3, <3>3 DEF CloseClient, clientVars
      <3>5. AllQuiet'
        BY <3>1, <3>2, <3>4 DEF AllQuiet
      <3>6. UNCHANGED <<lg_pc, lg_events, link>> /\ \A c \in Conns : peer'[c] # "rst"
        BY <2>1, <3>1, <3>4
      <3> QED BY <2>2, <2>3, <3>5, <3>6 DEF Calm
    <2>8. CASE NobodyListens(d) \/ ServerGone(d)
      BY <2>2, <2>8 DEF NobodyListens, ServerGone
    <2> QED BY <1>7, <2>4, <2>5, <2>6, <2>7, <2>8 DEF Net
  <1>8. CASE UNCHANGED sysVars
    BY <1>2, <1>8 DEF sysVars, lgVars, vars, serverVars, kernelVars, clientVars, SysInv, Calm, AllQuiet,
       Ended, LP!Open
  <1> QED BY <1>2, <1>3, <1>5, <1>6, <1>7, <1>8, SystemSteps

-----------------------------------------------------------------------------
(* The invariant and what follows from it.                                 *)

\* It holds when neither program has begun.
LEMMA SysInvInit == SysInit => SysInv
  <1> SUFFICES ASSUME SysInit
               PROVE  SysInv
    OBVIOUS
  <1>1. Init /\ LP!Init /\ ~killed /\ killed \in BOOLEAN
    BY SameInit DEF SysInit
  <1>2. ServerInv
    BY <1>1, BooksInit, LinesInit, StreamInit DEF ServerInv, Inv
  <1>3. LP!Inv /\ LoadgenInv
    BY <1>1, LoadgenConstants, LP!InvInit DEF LoadgenInv
  <1>4. \A c \in Conns : /\ link[c] = "none" /\ peer[c] = "idle" /\ outbox[c] = <<>> /\ lg_inbox[c] = <<>>
                         /\ written[c] = <<>> /\ unfinished[c] = "none" /\ ~awaiting[c]
    BY <1>1 DEF Init, LP!Init
  <1>5. /\ pc = "loop" /\ lg_pc = "connect" /\ acked = 0 /\ sent = 0
        /\ counters.ack_sent = 0 /\ counters.status_received = 0
    BY <1>1 DEF Init, LP!Init
  <1>6. LP!Open = {} /\ Answering = {}
    BY <1>1 DEF LP!Init, LP!Open, Answering, Held, L!Open
  <1>7. Ends
    <2>1. link \in [Conns -> {"none", "syn", "up", "eof", "reset"}]
      BY <1>1 DEF LP!Init
    <2> QED BY <1>1, <1>4, <2>1 DEF Ends, Fresh
  <1>8. Linked
    BY <1>6, SameState DEF Linked, Held
  <1>9. Counted
    <2>1. \A c \in Conns : Begun(c) = 0
      <3>1. Len(<<>>) = 0
        OBVIOUS
      <3>2. ASSUME NEW c \in Conns
            PROVE  Begun(c) = 0
        <4>1. Begun(c) = Len(written[c]) + 0
          BY <1>4 DEF Begun
        <4>2. Len(written[c]) = 0
          BY <1>4, <3>1
        <4> QED BY <4>1, <4>2
      <3> QED BY <3>2
    <2>2. Reports = {}
      <3>1. \A c \in Conns : {<<c, i>> : i \in 1 .. Begun(c)} = {}
        BY <2>1
      <3> QED BY <3>1 DEF Reports
    <2>3. Acked = 0 /\ SentOut = 0
      BY <1>1, <1>5 DEF Acked, SentOut
    <2> QED BY <1>5, <1>6, <2>2, <2>3, FS_EmptySet DEF Counted
  <1>10. Calm
    <2>1. \A c \in DOMAIN lg_events : "err" \notin lg_events[c]
      BY <1>1 DEF LP!Init
    <2> QED BY <1>4, <1>5, <2>1 DEF Calm
  <1> QED BY <1>2, <1>3, <1>7, <1>8, <1>9, <1>10 DEF SysInv

\* Every step keeps it.
LEMMA SysInvariant == SysSpec => []SysInv
  <1>1. SysInv /\ [SysNext]_sysVars => SysInv'
    BY ProgramsStep, EndsStep, LinkedStep, CountedStep, CalmStep DEF SysInv
  <1> QED BY <1>1, SysInvInit, PTL DEF SysSpec

\* What is on its way to a client of the load generator is the answer that it
\* expects, and an answer that is expected and not on its way is one that the
\* server has yet to give (HandleStatusLine of the one, read_acks of the other).
THEOREM AnswersExpected == SysSpec => []AcksAsExpected
  <1>1. SysInv => AcksAsExpected
    <2> SUFFICES ASSUME SysInv, NEW c \in Conns, Held(c), link[c] = "up"
                 PROVE  \/ outbox[c] = [i \in DOMAIN reply[c] |->
                             [line |-> AckFor([kind |-> "STATUS_ACK", src |-> c, seq |-> reply[c][i].seq]),
                              nl   |-> reply[c][i].nl]]
                        \/ /\ outbox[c] = <<>> /\ reply[c] = L!AckLine(clients[c].sequence)
                           /\ unfinished[c] = "STATUS_ACK"
                                \/ LastLine(c) \in InTransit(c) \cup Buffered(c)
      BY DEF AcksAsExpected
    <2>1. /\ ServerInv /\ TypeOK /\ TablesAgree
          /\ outbox \in [Conns -> Seq(Chunk)] /\ awaiting \in [Conns -> BOOLEAN]
      BY KernelTypes DEF SysInv
    <2>2. /\ peer[c] = "open"
          /\ reply[c] = IF Unanswered(c) THEN LP!AckLine(clients[c].sequence) ELSE Image(outbox[c])
      BY HeldFacts DEF LinkedTo
    <2>3. /\ ~awaiting[c] => outbox[c] = <<>>
          /\ unfinished[c] # "none" => ~awaiting[c] /\ unfinished[c] = "STATUS_ACK"
          /\ outbox[c] # <<>> => outbox[c] = Answer(c) \/ outbox[c] = <<Answer(c)[2]>>
      BY <2>1, <2>2, Conversation
    <2>4. CASE Unanswered(c)
      <3>1. outbox[c] = <<>> /\ reply[c] = L!AckLine(clients[c].sequence)
        BY <2>2, <2>3, <2>4, SameState DEF Unanswered
      <3>2. CASE unfinished[c] # "none"
        BY <2>3, <3>1, <3>2
      <3>3. CASE unfinished[c] = "none"
        <4>1. awaiting[c] /\ Talk(c)
          BY <2>1, <2>2, <2>4, <3>3, SystemAssumption DEF Unanswered, ServerInv, Talks
        <4>2. Answer(c) # <<>> /\ <<Answer(c)[2]>> # <<>>
          BY DEF Answer, Halves
        <4>3. Asking(c)
          BY <3>1, <4>1, <4>2 DEF Talk, Silent, Answered
        <4>4. PICK i \in DOMAIN Unread(c) : Unread(c)[i] = [line |-> LastLine(c), nl |-> TRUE]
          BY <4>3 DEF Asking
        <4>5. LastLine(c) \in FullLines(c)
          BY <4>4 DEF FullLines
        <4>6. LastLine(c) \in InTransit(c) \cup Buffered(c)
          BY <2>1, <4>5, FullOf
        <4> QED BY <3>1, <4>6
      <3> QED BY <3>2, <3>3
    <2>5. CASE ~Unanswered(c)
      <3>1. PICK line : line = AckFor(LastLine(c))
        OBVIOUS
      <3>2. Answer(c) = <<[line |-> line, nl |-> FALSE], [line |-> line, nl |-> TRUE]>>
        BY <3>1 DEF Answer, Halves
      <3>3. AckFor([kind |-> "STATUS_ACK", src |-> c, seq |-> line.seq]) = line
        BY <3>1 DEF AckFor, LastLine
      <3>4. \A i \in DOMAIN outbox[c] : outbox[c][i].line = line
        BY <2>3, <3>2
      <3>5. /\ outbox[c] \in Seq(Chunk) /\ DOMAIN Image(outbox[c]) = DOMAIN outbox[c]
            /\ \A i \in DOMAIN outbox[c] : outbox[c][i] \in Chunk
        BY <2>1, LenProperties, ElementOfSeq DEF Image
      <3>6. PICK q \in Seq(Chunk) : q = outbox[c]
        BY <3>5
      <3>7. PICK r : r = reply[c]
        OBVIOUS
      <3>8. /\ DOMAIN r = DOMAIN q
            /\ \A i \in DOMAIN q : r[i].seq = q[i].line.seq /\ r[i].nl = q[i].nl
        BY <2>2, <2>5, <3>6, <3>7 DEF Image
      <3>9. \A i \in DOMAIN q : q[i] = [line |-> line, nl |-> q[i].nl] /\ q[i].line = line
        BY <3>4, <3>5, <3>6 DEF Chunk
      <3>10. q = [i \in DOMAIN r |-> [line |-> AckFor([kind |-> "STATUS_ACK", src |-> c, seq |-> r[i].seq]),
                                      nl   |-> r[i].nl]]
        <4>1. \A i \in DOMAIN q : AckFor([kind |-> "STATUS_ACK", src |-> c, seq |-> r[i].seq]) = line
          BY <3>3, <3>8, <3>9
        <4>2. q = [i \in DOMAIN q |-> q[i]]
          OBVIOUS
        <4>3. \A i \in DOMAIN q : q[i] = [line |-> AckFor([kind |-> "STATUS_ACK", src |-> c, seq |-> r[i].seq]),
                                          nl   |-> r[i].nl]
          BY <3>8, <3>9, <4>1
        <4> QED BY <3>8, <4>2, <4>3
      <3> QED BY <3>6, <3>7, <3>10
    <2> QED BY <2>4, <2>5
  <1> QED BY <1>1, SysInvariant, PTL

\* The lines that the server has handled are reports that were begun.
LEMMA HandledReports ==
  ASSUME SysInv
  PROVE  /\ IsFiniteSet(Handled({"STATUS", "STATUS_ACK"}))
         /\ Cardinality(Handled({"STATUS", "STATUS_ACK"})) <= Cardinality(Reports)
         /\ Cardinality(Reports) \in Nat
         /\ Handled({"BAD"}) = {}
  <1> DEFINE kinds == {"STATUS", "STATUS_ACK"}
             place(line) == <<line.src, line.seq>>
             handled == Handled(kinds)
             places == {place(line) : line \in handled}
  <1>1. /\ ServerInv /\ KeepsToItsProgram /\ FinitelyManyWritten /\ IsFiniteSet(Reports)
        /\ written \in [Conns -> Seq(ClientKinds)]
    BY KernelTypes DEF SysInv, ServerInv, StreamInv, Counting, Counted
  <1>2. IsFiniteSet(handled)
    BY <1>1, HandledFinite DEF ClientKinds
  <1>3. \A line \in handled :
          \E c \in Conns : \E i \in DOMAIN written[c] :
            line = [kind |-> "STATUS_ACK", src |-> c, seq |-> i]
    <2> SUFFICES ASSUME NEW line \in handled
                 PROVE  \E c \in Conns : \E i \in DOMAIN written[c] :
                          line = [kind |-> "STATUS_ACK", src |-> c, seq |-> i]
      OBVIOUS
    <2>1. \A c \in Conns : \A i \in DOMAIN written[c] : written[c][i] = "STATUS_ACK"
      BY <1>1, SystemAssumption DEF KeepsToItsProgram
    <2> QED BY <2>1, WrittenIs DEF Handled
  <1>4. places \subseteq Reports
    <2> SUFFICES ASSUME NEW line \in handled
                 PROVE  place(line) \in Reports
      OBVIOUS
    <2>1. PICK c \in Conns : \E i \in DOMAIN written[c] :
            line = [kind |-> "STATUS_ACK", src |-> c, seq |-> i]
      BY <1>3
    <2>2. PICK i \in DOMAIN written[c] : line = [kind |-> "STATUS_ACK", src |-> c, seq |-> i]
      BY <2>1
    <2>3. PICK w \in Seq(ClientKinds) : w = written[c]
      BY <1>1
    <2>4. DOMAIN w = 1 .. Len(w) /\ Len(w) \in Nat
      BY LenProperties
    <2>5. Begun(c) = Len(w) \/ Begun(c) = Len(w) + 1
      <3>1. CASE unfinished[c] = "none"
        <4>1. Begun(c) = Len(w) + 0
          BY <2>3, <3>1 DEF Begun
        <4> QED BY <2>4, <4>1
      <3>2. CASE unfinished[c] # "none"
        BY <2>3, <3>2 DEF Begun
      <3> QED BY <3>1, <3>2
    <2>6. i \in 1 .. Begun(c)
      BY <2>3, <2>4, <2>5
    <2> QED BY <2>2, <2>6 DEF Reports
  <1>5. \A a, b \in handled : place(a) = place(b) => a = b
    BY <1>3
  <1>6. Cardinality(places) = Cardinality(handled)
    <2>1. PICK f : f = [line \in handled |-> place(line)]
      OBVIOUS
    <2>2. f \in Bijection(handled, places)
      BY <1>5, <2>1 DEF Bijection, Injection, Surjection, IsInjective
    <2> QED BY <1>2, <2>2, FS_Bijection DEF ExistsBijection
  <1>7. Cardinality(places) <= Cardinality(Reports) /\ Cardinality(Reports) \in Nat
    BY <1>1, <1>4, FS_Subset, FS_CardinalityType
  <1>8. Handled({"BAD"}) = {}
    <2> SUFFICES ASSUME NEW line \in Handled({"BAD"})
                 PROVE  FALSE
      OBVIOUS
    <2>1. PICK c \in Conns : \E i \in DOMAIN written[c] : written[c][i] \in {"BAD"}
      BY WrittenIs DEF Handled
    <2> QED BY <1>1, <2>1, SystemAssumption DEF KeepsToItsProgram
  <1> QED BY <1>2, <1>6, <1>7, <1>8

\* The load generator's summary and the METRICS of the server contradict each other
\* by no more than what one of them has sent and is about to count: what is answered
\* was acknowledged, what is acknowledged was received, what was received was sent,
\* and no line is rejected.
THEOREM CountersAgree == SysSpec => []CountsAgree
  <1>1. SysInv => CountsAgree
    <2> SUFFICES ASSUME SysInv
                 PROVE  CountsAgree
      OBVIOUS
    <2>1. /\ acked \in Nat /\ Acked \in Nat /\ SentOut \in Nat /\ Cardinality(Answering) \in Nat
          /\ counters.ack_sent \in Nat /\ counters.status_received \in Nat
          /\ counters.ack_sent <= Acked /\ Cardinality(Reports) \in Nat
      BY CountsKnown, AnsweringFinite, HandledReports, KernelTypes, AckedIs DEF SysInv
    <2>2. PICK x \in Nat : x = Cardinality(Answering)
      BY <2>1
    <2>3. PICK y \in Nat : y = Cardinality(Reports)
      BY <2>1
    <2>4. /\ acked + x <= Acked /\ Acked <= counters.status_received
          /\ y <= SentOut
      BY <2>2, <2>3 DEF SysInv, Counted
    <2>5. counters.status_received <= y
      BY <2>3, HandledReports DEF SysInv, ServerInv, Counting
    <2>6. counters.parse_errors = 0
      BY HandledReports, FS_EmptySet DEF SysInv, ServerInv, Counting
    <2>7. acked <= Acked /\ counters.ack_sent <= counters.status_received
          /\ counters.status_received <= SentOut
      BY <2>1, <2>4, <2>5
    <2> QED BY <2>6, <2>7 DEF CountsAgree, Acked, SentOut
  <1> QED BY <1>1, SysInvariant, PTL

\* The connections do not take every descriptor.
LEMMA DescriptorLeft ==
  ASSUME Cardinality(Conns) < Cardinality(Fds), ServerInv
  PROVE  FreeFds # {}
  <1> SUFFICES ASSUME FreeFds = {}
               PROVE  FALSE
    OBVIOUS
  <1>1. fd_table \in [Fds -> Conns \cup {NoConn}] /\ TablesAgree
    BY DEF ServerInv, Inv, Books, TypeOK
  <1>4. fd_table \in [Fds -> Conns]
    BY <1>1 DEF FreeFds
  <1>5. \A f, g \in Fds : fd_table[f] = fd_table[g] => f = g
    BY <1>1 DEF TablesAgree, OpenFds, FreeFds
  <1>6. fd_table \in Injection(Fds, Conns)
    BY <1>4, <1>5 DEF Injection, IsInjective
  <1>7. Cardinality(Fds) <= Cardinality(Conns)
    BY <1>6, FS_Injection, ServerAssumption
  <1>8. Cardinality(Fds) \in Nat /\ Cardinality(Conns) \in Nat
    BY ServerAssumption, FS_CardinalityType
  <1> QED BY <1>7, <1>8

\* What makes the server fail: an accept() without a descriptor, or a RST.
LEMMA FailsHow ==
  ASSUME ServerInv, ServerStep, pc' = "failed"
  PROVE  ~Ended /\ (FreeFds = {} \/ \E c \in Conns : peer[c] = "rst")
  <1>1. TypeOK /\ TablesAgree
    BY DEF ServerInv, Inv, Books
  <1>2. CASE AcceptEnd
    BY <1>2 DEF AcceptEnd, Ended
  <1>3. CASE ClientEvent
    <2>1. PICK fd \in events \ {ListenFd} :
            IF fd \in DOMAIN client_buffers THEN Receive(fd) ELSE UNCHANGED pc
      BY <1>3 DEF ClientEvent
    <2>2. pc = "events"
      BY <1>3 DEF ClientEvent
    <2>3. fd \in DOMAIN client_buffers /\ Receive(fd)
      BY <2>1, <2>2
    <2>4. fd_table[fd] \in Conns
      BY <1>1, <2>3 DEF TypeOK, TablesAgree, OpenFds
    <2> QED BY <2>2, <2>3, <2>4 DEF Receive, Ended
  <1> QED BY <1>2, <1>3 DEF ServerStep, LoopHead, EpollWait, EpollTimeout, ListenEvent,
          AcceptOne, HandleHelloLine, HandleInvalidLine, HandleStatusLine, CountAck, TakeLine, batchVars,
          LinesDone, EventsDone, PrintMetricsIfDue

\* With a descriptor more than there are connections, as accept() takes one before it
\* finds that nobody waits, no run of the load generator ends the
\* server: it closes nothing unread (close_client after the last ACK), so that
\* recv() reports no reset, unless it was killed.
THEOREM ServerSurvives ==
  ASSUME Cardinality(Conns) < Cardinality(Fds)
  PROVE  SysSpec => []ServerOutlivesLoadgen
  <1>1. SysInit => ServerOutlivesLoadgen
    BY DEF SysInit, Init, ServerOutlivesLoadgen
  <1>2. SysInv /\ SysInv' /\ ServerOutlivesLoadgen /\ [SysNext]_sysVars => ServerOutlivesLoadgen'
    <2> SUFFICES ASSUME SysInv, ServerOutlivesLoadgen, [SysNext]_sysVars, pc' = "failed", ~killed'
                 PROVE  FALSE
      BY DEF ServerOutlivesLoadgen, SysInv, Ends
    <2>1. ~killed
      BY LoadgenSees DEF Kill, SysInv, LoadgenInv, Running
    <2>2. pc # "failed"
      BY <2>1 DEF ServerOutlivesLoadgen
    <2>3. LoadgenInv /\ killed \in BOOLEAN /\ ServerInv
      BY DEF SysInv, Ends
    <2>4. ServerStep
      <3>1. CASE LoadgenSends
        BY <2>2, <2>3, <3>1, SendsEffect DEF Sends, WriteHalf, vars, serverVars
      <3>2. ASSUME NEW c \in Conns, Net(c)
            PROVE  UNCHANGED pc
        BY <3>2, ClientGoneKinds DEF Net, Handshake, NobodyListens, RestOfLine, Arrival, ServerGone,
           Connect, WriteRest, ReadChunk, CloseClient, Reset, vars, serverVars
      <3> QED BY <2>2, <3>1, <3>2, SystemSteps
              DEF ProgramAlone, Kill, Signal, sysVars, vars, serverVars
    <2>5. ~Ended /\ (FreeFds = {} \/ \E c \in Conns : peer[c] = "rst")
      BY <2>3, <2>4, FailsHow
    <2>6. \A c \in Conns : peer[c] # "rst"
      BY <2>1, <2>5 DEF SysInv, Calm
    <2> QED BY <2>3, <2>5, <2>6, DescriptorLeft
  <1> QED BY <1>1, <1>2, SysInvariant, PTL DEF SysSpec
=============================================================================
