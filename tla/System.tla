------------------------------- MODULE System -------------------------------
(***************************************************************************)
(* The server and the load generator over the same connections: the        *)
(* clients of Server are replaced by the program of Loadgen, and the       *)
(* server that Loadgen imagines (its ServerCloses, Refuse and Deliver) by  *)
(* what Server does.  The load generator may also be killed.               *)
(*                                                                         *)
(* The variables of Server keep their names; those of Loadgen that have a  *)
(* namesake there are called lg_pc, lg_events and lg_inbox.                *)
(***************************************************************************)
EXTENDS Server

CONSTANTS Quota, Faults

\* Every line of the load generator is a STATUS that asks for an ACK.
ASSUME SystemAssumption ==
  /\ Conns # {}
  /\ Quota \in Nat
  /\ Faults \subseteq {"refuse", "close", "slow", "signal", "kill"}
  /\ \A c \in Conns : Says[c] = {"STATUS_ACK"}

VARIABLES
  lg_pc, lg_events, lg_inbox,
  order, clients, next_client_index, send_credit, granted, in_time,
  sent, acked, errors, link, reply, over,
  killed    \* the load generator was ended from outside

L == INSTANCE Loadgen WITH
  Clients <- Conns, Faults <- Faults \ {"kill"}, pc <- lg_pc, events <- lg_events, inbox <- lg_inbox

lgVars == <<lg_pc, lg_events, lg_inbox, order, clients, next_client_index,
            send_credit, granted, in_time, sent, acked, errors, link, reply, over>>
sysVars == <<vars, lgVars, killed>>

SysInit == Init /\ L!Init /\ killed = FALSE

-----------------------------------------------------------------------------
(* The load generator.                                                     *)

Running == lg_pc \notin {"done", "aborted"}

LoadgenStep ==
  /\ L!LocalStep
  /\ UNCHANGED <<vars, killed>>

\* connect() itself fails when nobody listens.
LoadgenConnectThrows ==
  /\ Ended /\ L!ConnectThrows
  /\ UNCHANGED <<vars, killed>>

\* A report: the first part of the line is in the server's kernel when send()
\* returns; nobody reads what is sent to a closed socket.
LoadgenSends ==
  /\ L!SendNext
  /\ \/ link[L!Turn] = "up" /\ WriteHalf(L!Turn, "STATUS_ACK")
     \/ link[L!Turn] = "eof" /\ UNCHANGED vars
  /\ UNCHANGED killed

Kill ==
  /\ "kill" \in Faults /\ Running
  /\ lg_pc' = "aborted" /\ killed' = TRUE
  /\ UNCHANGED <<vars, lg_events, lg_inbox, order, clients, next_client_index,
                 send_credit, granted, in_time, sent, acked, errors, link, reply, over>>

Clock == L!TimeUp /\ UNCHANGED <<vars, killed>>

-----------------------------------------------------------------------------
(* The server.                                                             *)

ServerRuns == ServerStep /\ UNCHANGED <<lgVars, killed>>
ServerSignal == Signal /\ UNCHANGED <<lgVars, killed>>

-----------------------------------------------------------------------------
(* The network.                                                            *)

\* The kernel of the server completes the handshake before accept() is called.
Handshake(c) ==
  /\ ~Ended /\ Running
  /\ L!Establish(c) /\ Connect(c)
  /\ UNCHANGED killed

NobodyListens(c) ==
  /\ Ended /\ Running
  /\ L!Refuse(c)
  /\ UNCHANGED <<vars, killed>>

RestOfLine(c) ==
  /\ WriteRest(c)
  /\ UNCHANGED <<lgVars, killed>>

\* The client's kernel holds c: the program has neither closed it nor ended.
Held(c) == c \in L!Open /\ Running

\* One piece of what the server sent on c arrives.
Arrival(c) ==
  /\ Held(c)
  /\ L!Deliver(c) /\ ReadChunk(c)
  /\ UNCHANGED killed

\* The server learns that the client has closed c, behind the bytes sent before;
\* or at once and by a RST, if the client left bytes unread.
ClientGone(c) ==
  /\ ~Held(c)
  /\ \/ lg_inbox[c] = <<>> /\ unfinished[c] = "none" /\ CloseClient(c)
     \/ /\ lg_inbox[c] # <<>> /\ peer[c] = "open"
        /\ peer' = [peer EXCEPT ![c] = "rst"]
        /\ outbox' = [outbox EXCEPT ![c] = <<>>]
        /\ UNCHANGED <<serverVars, clientVars, epoll, fd_table, backlog, inbox>>
  /\ UNCHANGED <<lgVars, killed>>

\* The server's kernel closes what is left when the server has ended: orderly,
\* behind what was sent, or by a RST, if the server left bytes unread.
ServerGone(c) ==
  /\ Ended /\ Held(c)
  /\ L!ServerCloses(c)
  /\ link'[c] = "eof" => outbox[c] = <<>>
  /\ UNCHANGED <<vars, killed>>

Net(c) == \/ Handshake(c) \/ NobodyListens(c) \/ RestOfLine(c)
          \/ Arrival(c) \/ ClientGone(c) \/ ServerGone(c)

-----------------------------------------------------------------------------
\* Both programs have ended and the connections are gone.
AllEnded == Ended /\ ~Running /\ UNCHANGED sysVars

Client == LoadgenStep \/ LoadgenConnectThrows \/ LoadgenSends

SysNext ==
  \/ Client \/ Kill \/ Clock
  \/ ServerRuns \/ ServerSignal
  \/ \E c \in Conns : Net(c)
  \/ AllEnded

SysSpec == SysInit /\ [][SysNext]_sysVars

\* Both programs run, the clock advances and the network delivers; nobody has
\* to stop either program.
SysFairness ==
  /\ WF_sysVars(ServerRuns) /\ WF_sysVars(Client)
  /\ WF_sysVars(Clock \/ \E c \in Conns : Net(c))
SysFairSpec == SysSpec /\ SysFairness

-----------------------------------------------------------------------------
(* Properties.                                                             *)

\* The server that Loadgen imagines is the server there is: what is on its way
\* to a client is the answer Loadgen expects (the rest of the ACK of the report
\* in flight, with its sequence number), and an answer that is expected and not
\* on its way is one the server has yet to give.
AcksAsExpected ==
  \A c \in Conns : Held(c) /\ link[c] = "up" =>
    \/ outbox[c] = [i \in DOMAIN reply[c] |->
         [line |-> AckFor([kind |-> "STATUS_ACK", src |-> c, seq |-> reply[c][i].seq]),
          nl   |-> reply[c][i].nl]]
    \/ /\ outbox[c] = <<>> /\ reply[c] = L!AckLine(clients[c].sequence)
       /\ unfinished[c] = "STATUS_ACK" \/ LastLine(c) \in InTransit(c) \cup Buffered(c)

\* Two programs count the same reports at four places: sent and answered in the
\* load generator's summary, received and acknowledged in the server's METRICS.  None
\* is ahead of the one before it by more than the one report, or ACK, that send() has
\* let go and that its sender counts next, or never if it is killed in between; and
\* the server rejects none.
CountsAgree ==
  /\ acked <= counters.ack_sent + (IF pc = "acked" THEN 1 ELSE 0)
  /\ counters.ack_sent <= counters.status_received
  /\ counters.status_received <= sent + (IF lg_pc = "sent" \/ killed THEN 1 ELSE 0)
  /\ counters.parse_errors = 0

\* "Server keeps running until `Ctrl+C`" (README.md:184) through every run of the
\* load generator: it closes no connection with an ACK unread, which is what
\* would end the server, unless it is killed.
ServerOutlivesLoadgen == pc = "failed" => killed

\* The load generator ends, unless the server does.
RunEndsWithServer == <>(Ended \/ ~Running)

\* When it has ended, the server lets go of all of its connections.
ConnectionsReleased ==
  ~Running ~> (Ended \/ (telemetry_client_fds = {} /\ backlog = {}))
=============================================================================
