------------------------------- MODULE Loadgen ------------------------------
(***************************************************************************)
(* The load generator of apps/loadgen/main.cpp: one thread that opens many *)
(* connections, waits for their handshakes, then sends reports in turn at  *)
(* a given rate, one unanswered report per connection, until its time is   *)
(* up and every report is answered.                                        *)
(*                                                                         *)
(* The server and the network are the other actor: they complete or refuse *)
(* a handshake, send the two halves of an ACK line apart, and close or     *)
(* reset a connection.  Server.tla is the server in full.                  *)
(***************************************************************************)
EXTENDS Integers, Sequences, FiniteSets

CONSTANTS
  Clients,    \* one per connection; options.connections is their number
  Quota,      \* whole reports that rate_per_second * duration_seconds allows
  MaxEvents,  \* kMaxEvents
  Faults      \* what may go wrong around the program in this instance

ASSUME LoadgenAssumption ==
  /\ IsFiniteSet(Clients) /\ Clients # {}
  /\ Quota \in Nat
  /\ MaxEvents \in Nat \ {0}
  /\ Faults \subseteq {"refuse", "close", "slow", "signal", "cut"}

Phases == {"Connecting", "Ready", "WaitingAck"}
Chunk == [seq : Nat, nl : BOOLEAN]
AckLine(seq) == <<[seq |-> seq, nl |-> FALSE], [seq |-> seq, nl |-> TRUE]>>

VARIABLES
  pc,                 \* where the thread is
  order,              \* the iteration order of the unordered_map
  clients,            \* the map itself: the connections still open
  next_client_index,
  send_credit,        \* whole reports that may be sent now
  granted,            \* what send_credit has received so far
  in_time,            \* current_ms < test_end_ms, as read by the last tick
  sent, acked, errors, \* acked is latencies.size()
  events              \* what epoll_wait returned and is not handled yet
loopVars == <<next_client_index, send_credit, granted, in_time>>
countVars == <<sent, acked, errors>>

VARIABLES
  link,               \* each connection as this end sees it
  reply,              \* ACK bytes the server has not sent yet
  inbox,              \* ACK bytes received by the kernel, not by recv()
  over                \* now_ms() >= test_end_ms
netVars == <<link, reply, inbox>>

vars == <<pc, order, clients, loopVars, countVars, events, netVars, over>>

Init ==
  /\ pc = "connect"
  /\ order \in {s \in [1..Cardinality(Clients) -> Clients] :
                  \A i, j \in DOMAIN s : s[i] = s[j] => i = j}
  /\ clients = [c \in {} |-> [phase |-> "Connecting", sequence |-> 0, receive_buffer |-> <<>>]]
  /\ next_client_index = 0 /\ send_credit = 0 /\ granted = 0 /\ in_time = TRUE
  /\ sent = 0 /\ acked = 0 /\ errors = 0
  /\ events = [c \in {} |-> {}]
  /\ link = [c \in Clients |-> "none"]
  /\ reply = [c \in Clients |-> <<>>]
  /\ inbox = [c \in Clients |-> <<>>]
  /\ over = FALSE

-----------------------------------------------------------------------------
(* The server and the network.                                             *)

Establish(c) ==
  /\ link[c] = "syn"
  /\ link' = [link EXCEPT ![c] = "up"]
  /\ UNCHANGED <<pc, order, clients, loopVars, countVars, events, reply, inbox, over>>

Refuse(c) ==
  /\ "refuse" \in Faults /\ link[c] = "syn"
  /\ link' = [link EXCEPT ![c] = "reset"]
  /\ UNCHANGED <<pc, order, clients, loopVars, countVars, events, reply, inbox, over>>

Deliver(c) ==
  /\ link[c] = "up" /\ reply[c] # <<>>
  /\ inbox' = [inbox EXCEPT ![c] = Append(@, Head(reply[c]))]
  /\ reply' = [reply EXCEPT ![c] = Tail(@)]
  /\ UNCHANGED <<pc, order, clients, loopVars, countVars, events, link, over>>

\* The server closes the connection, orderly or not; what it still owed on it
\* will not come.
ServerCloses(c) ==
  /\ "close" \in Faults
  /\ \/ link[c] = "up" /\ link' = [link EXCEPT ![c] = "eof"]
     \/ link[c] \in {"up", "eof"} /\ link' = [link EXCEPT ![c] = "reset"]
  /\ reply' = [reply EXCEPT ![c] = <<>>]
  /\ UNCHANGED <<pc, order, clients, loopVars, countVars, events, inbox, over>>

\* test_end_ms lies in the future of connected_ms, and then passes.
TimeUp ==
  /\ pc \in {"loop", "send", "sent", "poll", "acks"} /\ ~over
  /\ over' = TRUE
  /\ UNCHANGED <<pc, order, clients, loopVars, countVars, events, netVars>>

Environment ==
  \/ TimeUp
  \/ \E c \in Clients : Establish(c) \/ Refuse(c) \/ Deliver(c) \/ ServerCloses(c)

-----------------------------------------------------------------------------
(* Sockets.                                                                *)

Open == DOMAIN clients

\* What epoll reports of a connection, given what is asked of it: EPOLLOUT
\* until the handshake is handled, EPOLLIN after.  A closed peer is readable.
Flags(c) ==
  IF link[c] = "syn" THEN {}
  ELSE IF link[c] = "reset" THEN {"err"}
  ELSE IF clients[c].phase = "Connecting" THEN {"out"}
  ELSE IF inbox[c] # <<>> \/ link[c] = "eof" THEN {"in"}
  ELSE {}
ReadyConns == {c \in Open : Flags(c) # {}}

\* epoll_wait: at most MaxEvents of the connections that are ready.
Batches == {batch \in SUBSET ReadyConns :
              \/ batch = ReadyConns /\ Cardinality(batch) <= MaxEvents
              \/ Cardinality(batch) = MaxEvents}

close_client(c) ==
  /\ clients' = [d \in Open \ {c} |-> clients[d]]
  /\ reply' = [reply EXCEPT ![c] = <<>>]
  /\ inbox' = [inbox EXCEPT ![c] = <<>>]

EventTaken(c) == events' = [d \in DOMAIN events \ {c} |-> events[d]]

\* The handler of one event throws: the connection counts as an error and goes.
Drop(c) ==
  /\ errors' = errors + 1
  /\ close_client(c)
  /\ UNCHANGED <<sent, acked, link>>

-----------------------------------------------------------------------------
(* connect_clients                                                         *)

StartConnect(c) ==
  /\ pc = "connect" /\ c \notin Open
  /\ clients' = [d \in Open \cup {c} |-> IF d = c
                   THEN [phase |-> "Connecting", sequence |-> 0, receive_buffer |-> <<>>]
                   ELSE clients[d]]
  /\ link' = [link EXCEPT ![c] = "syn"]
  /\ pc' = IF Open \cup {c} = Clients THEN "handshakes" ELSE "connect"
  /\ UNCHANGED <<order, loopVars, countVars, events, reply, inbox, over>>

\* connect() itself fails: nothing catches it before main.
ConnectThrows ==
  /\ pc = "connect" /\ "refuse" \in Faults
  /\ pc' = "aborted"
  /\ UNCHANGED <<order, clients, loopVars, countVars, events, netVars, over>>

AllReady == \A c \in Open : clients[c].phase = "Ready"

HandshakesDone ==
  /\ pc = "handshakes" /\ AllReady
  /\ pc' = "loop"
  /\ UNCHANGED <<order, clients, loopVars, countVars, events, netVars, over>>

HandshakeWait ==
  /\ pc = "handshakes" /\ ~AllReady /\ ReadyConns # {}
  /\ \E batch \in Batches : events' = [c \in batch |-> Flags(c)]
  /\ pc' = "hevents"
  /\ UNCHANGED <<order, clients, loopVars, countVars, netVars, over>>

\* Five quiet seconds, or a signal: every connection counts as an error, the
\* ready ones too, and all of them stay in the map.
HandshakeGivesUp ==
  /\ pc = "handshakes" /\ ~AllReady
  /\ "signal" \in Faults \/ ("slow" \in Faults /\ ReadyConns = {})
  /\ errors' = errors + Cardinality(Open)
  /\ pc' = "loop"
  /\ UNCHANGED <<order, clients, loopVars, sent, acked, events, netVars, over>>

\* finish_connect reads SO_ERROR now, which may be later than the event.
HandshakeEvent(c) ==
  /\ pc = "hevents" /\ c \in DOMAIN events
  /\ \/ /\ "err" \in events[c] \/ (clients[c].phase = "Connecting" /\ link[c] = "reset")
        /\ Drop(c)
     \/ /\ "out" \in events[c] /\ link[c] # "reset"
        /\ clients' = [clients EXCEPT ![c].phase = "Ready"]
        /\ UNCHANGED <<countVars, netVars>>
     \/ /\ events[c] = {"in"}
        /\ UNCHANGED <<clients, countVars, netVars>>
  /\ EventTaken(c)
  /\ UNCHANGED <<pc, order, loopVars, over>>

HandshakeEventsDone ==
  /\ pc = "hevents" /\ events = [c \in {} |-> {}]
  /\ pc' = "handshakes"
  /\ UNCHANGED <<order, clients, loopVars, countVars, events, netVars, over>>

-----------------------------------------------------------------------------
(* run_loadgen                                                             *)

\* Fault: a loop that stops when its time is up.
StopsAtDeadline == ~over

LoopGoesOn == ~over \/ acked < sent

\* Behind the test of the condition the clock is read again, and may have passed
\* the end meanwhile.
Tick ==
  /\ pc = "loop" /\ LoopGoesOn
  /\ over' \in {over, TRUE}
  /\ in_time' = ~over'
  /\ \E credit \in 0..(IF over' THEN 0 ELSE Quota - granted) :
       send_credit' = send_credit + credit /\ granted' = granted + credit
  /\ pc' = "send"
  /\ UNCHANGED <<order, clients, next_client_index, countVars, events, netVars>>

LoopEnds ==
  /\ pc = "loop" /\ ~LoopGoesOn
  /\ pc' = "done"
  /\ clients' = [c \in {} |-> clients[c]]
  /\ UNCHANGED <<order, loopVars, countVars, events, netVars, over>>

\* Sending that does not look at the credit.
IgnoresCredit == Open # {} /\ in_time

MaySend == send_credit >= 1 /\ Open # {} /\ in_time

\* How many clients of the map come before the place i of the order.
Ahead(i) == Cardinality({j \in 1..(i - 1) : order[j] \in Open})

\* Turns that go to the first client that is ready.
FirstReady ==
  LET left == {i \in DOMAIN order : order[i] \in Open}
      ready == {i \in left : clients[order[i]].phase = "Ready"}
  IN  order[CHOOSE i \in left : \/ i \in ready /\ \A j \in ready : i <= j
                               \/ ready = {}]

\* The client whose turn it is: the one next_client_index leads to among those
\* the map still holds.
Turn == order[CHOOSE i \in DOMAIN order :
                /\ order[i] \in Open
                /\ Ahead(i) = next_client_index % Cardinality(Open)]

SendingDone(next) ==
  /\ pc' = next
  /\ UNCHANGED <<order, clients, loopVars, countVars, events, netVars, over>>

\* The turn of a client that is not ready ends the sending: nobody overtakes it.
\* So does a full send buffer.
NothingToSend ==
  /\ pc = "send"
  /\ MaySend => clients[Turn].phase # "Ready" \/ link[Turn] # "reset"
  /\ SendingDone("poll")

\* What nothing catches: send() to a connection that was reset, and the refusal to
\* go on behind a send() that took a part of the line.
SendThrows ==
  /\ pc = "send" /\ MaySend /\ clients[Turn].phase = "Ready"
  /\ link[Turn] = "reset" \/ "cut" \in Faults
  /\ SendingDone("aborted")

\* A report that leaves its client ready for the next one.
ReportedNotWaiting(client) == [client EXCEPT !.sequence = @ + 1]

Reported(client) == [client EXCEPT !.sequence = @ + 1, !.phase = "WaitingAck"]

\* A peer that only closed its side still lets send() succeed.  The server may have
\* the report, and the answer may be here, before the report is counted.
SendNext ==
  /\ pc = "send" /\ MaySend
  /\ clients[Turn].phase = "Ready" /\ link[Turn] # "reset"
  /\ clients' = [clients EXCEPT ![Turn] = Reported(@)]
  /\ reply' = IF link[Turn] = "up"
                THEN [reply EXCEPT ![Turn] = @ \o AckLine(clients[Turn].sequence + 1)]
                ELSE reply
  /\ pc' = "sent"
  /\ UNCHANGED <<order, loopVars, countVars, events, link, inbox, over>>

CountSent ==
  /\ pc = "sent"
  /\ sent' = sent + 1
  /\ send_credit' = send_credit - 1
  /\ next_client_index' = next_client_index + 1
  /\ pc' = "send"
  /\ UNCHANGED <<order, clients, granted, in_time, acked, errors, events, netVars, over>>

\* Up to ten milliseconds; an interrupted wait comes to an empty batch.
Poll ==
  /\ pc = "poll"
  /\ \E batch \in Batches : events' = [c \in batch |-> Flags(c)]
  /\ pc' = "acks"
  /\ UNCHANGED <<order, clients, loopVars, countVars, netVars, over>>

\* has_ack_line: the buffer without its first line, which is an ACK because the
\* server writes nothing else to a connection that did not say HELLO.
HasLine(buffer) == \E i \in DOMAIN buffer : buffer[i].nl
Appended(client, bytes) == [client EXCEPT !.receive_buffer = @ \o bytes]

\* A line that is read and stays in the buffer.
AnsweredNotErased(client) == [client EXCEPT !.phase = "Ready"]

Answered(client) ==
  LET buffer == client.receive_buffer
      newline == CHOOSE i \in DOMAIN buffer : buffer[i].nl /\ \A j \in 1..(i - 1) : ~buffer[j].nl
  IN  [client EXCEPT !.receive_buffer = SubSeq(buffer, newline + 1, Len(buffer)),
                     !.phase = "Ready"]

\* receive_ack reads until it has a line, the socket is empty, or the peer is
\* found gone.
receive_ack(c) ==
  LET client == Appended(clients[c], inbox[c])
  IN  \/ /\ HasLine(client.receive_buffer)
         /\ clients' = [clients EXCEPT ![c] = Answered(client)]
         /\ acked' = acked + 1
         /\ inbox' = [inbox EXCEPT ![c] = <<>>]
         /\ UNCHANGED <<sent, errors, link, reply>>
      \/ /\ ~HasLine(client.receive_buffer) /\ link[c] = "up"
         /\ clients' = [clients EXCEPT ![c] = client]
         /\ inbox' = [inbox EXCEPT ![c] = <<>>]
         /\ UNCHANGED <<countVars, link, reply>>
      \/ ~HasLine(client.receive_buffer) /\ link[c] # "up" /\ Drop(c)

AckEvent(c) ==
  /\ pc = "acks" /\ c \in DOMAIN events
  /\ \/ "err" \in events[c] /\ Drop(c)
     \/ "in" \in events[c] /\ clients[c].phase = "WaitingAck" /\ receive_ack(c)
     \/ /\ "err" \notin events[c]
        /\ ~("in" \in events[c] /\ clients[c].phase = "WaitingAck")
        /\ UNCHANGED <<clients, countVars, netVars>>
  /\ EventTaken(c)
  /\ UNCHANGED <<pc, order, loopVars, over>>

AckEventsDone ==
  /\ pc = "acks" /\ events = [c \in {} |-> {}]
  /\ pc' = "loop"
  /\ UNCHANGED <<order, clients, loopVars, countVars, events, netVars, over>>

\* main has returned.
Exited == pc \in {"done", "aborted"} /\ UNCHANGED vars

\* The steps that write nothing to a connection.
LocalStep ==
  \/ HandshakesDone \/ HandshakeWait \/ HandshakeGivesUp \/ HandshakeEventsDone
  \/ Tick \/ LoopEnds \/ NothingToSend \/ SendThrows \/ CountSent \/ Poll \/ AckEventsDone
  \/ \E c \in Clients : StartConnect(c) \/ HandshakeEvent(c) \/ AckEvent(c)

Program == ConnectThrows \/ SendNext \/ LocalStep

Next == Program \/ Environment \/ Exited
Spec == Init /\ [][Next]_vars

\* The program runs, the clock advances, and a server that is up completes
\* handshakes and sends what it owes.
Fairness ==
  /\ WF_vars(Program) /\ WF_vars(TimeUp)
  /\ \A c \in Clients : WF_vars(Establish(c)) /\ WF_vars(Deliver(c))
FairSpec == Spec /\ Fairness

-----------------------------------------------------------------------------
(* Properties.                                                             *)

\* Types, and the rate: what was sent and what may still be sent is what the
\* clock granted, which never exceeds rate * duration.
TypeOK ==
  /\ pc \in {"connect", "handshakes", "hevents", "loop", "send", "sent", "poll",
             "acks", "done", "aborted"}
  /\ Open \subseteq Clients
  /\ \A c \in Open : clients[c] \in
       [phase : Phases, sequence : 0..Quota, receive_buffer : Seq(Chunk)]
  /\ next_client_index = sent
  /\ send_credit \in Nat /\ granted \in 0..Quota /\ sent + send_credit = granted
  /\ pc = "sent" => send_credit > 0
  /\ in_time \in BOOLEAN /\ over \in BOOLEAN
  /\ acked \in Nat /\ errors \in Nat
  /\ DOMAIN events \subseteq Open
  /\ \A c \in DOMAIN events : events[c] \subseteq {"in", "out", "err"}
  /\ link \in [Clients -> {"none", "syn", "up", "eof", "reset"}]
  /\ \A c \in Clients : reply[c] \in Seq(Chunk) /\ inbox[c] \in Seq(Chunk)

Waiting == {c \in Open : clients[c].phase = "WaitingAck"}

\* Every report is accounted for: it was answered, its client still waits for
\* the answer, or the connection it went out on was counted as an error.
Issued == sent + (IF pc = "sent" THEN 1 ELSE 0)
ReportsAccounted == Issued - acked - Cardinality(Waiting) \in 0..errors

\* On a connection that is up, the bytes between the server and receive_ack are
\* exactly the answer to the report in flight, and nothing when there is none:
\* so the latency that is recorded is that of the report that was answered.
AckMatchesReport ==
  \A c \in Open :
    LET bytes == clients[c].receive_buffer \o inbox[c] \o reply[c]
        due == AckLine(clients[c].sequence)
    IN  IF c \notin Waiting THEN bytes = <<>>
        ELSE IF link[c] = "up" THEN bytes = due
        ELSE \E n \in 0..2 : bytes = SubSeq(due, 1, n)

\* While no connection was lost, the clients send in turn: an earlier one in
\* the iteration order has sent as often as a later one, or once more.
ClientsTakeTurns ==
  errors = 0 =>
    \A i, j \in DOMAIN order :
      i < j /\ order[i] \in Open /\ order[j] \in Open =>
        clients[order[i]].sequence - clients[order[j]].sequence \in {0, 1}

\* A run that ends normally leaves no report behind: the summary that
\* print_summary writes counts an answer for each one sent, and the server
\* owes none.
SummaryIsComplete ==
  pc = "done" => sent = acked /\ \A c \in Clients : reply[c] = <<>>

\* The run ends, with its summary or with an error: "Metrics produced by
\* loadgen", PROJECT_HANDOFF.md:88, are printed after the loop.
RunEnds == <>(pc \in {"done", "aborted"})
=============================================================================
