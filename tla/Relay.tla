-------------------------------- MODULE Relay -------------------------------
(***************************************************************************)
(* What the telemetry server promises its clients, without the way it is   *)
(* done: no descriptors, no epoll, no batches of events, no buffers.       *)
(*                                                                         *)
(* A client's bytes are one queue, from its send() to the moment the       *)
(* server handles a line of them.  Lines are handled whole, in the order   *)
(* of each client and once; a status is stored, acknowledged to its source *)
(* if that asked, and offered to everybody else who has said HELLO as a    *)
(* viewer; nobody leaves before the lines it has written are handled.      *)
(* An offer may be cut or lost, as a full send buffer does.                *)
(***************************************************************************)
EXTENDS Integers, Sequences

CONSTANTS Conns, NoConn, DeviceOf

ClientKinds == {"HELLO", "HELLO_OTHER", "STATUS", "STATUS_ACK", "BAD"}
Halves(line) == <<[line |-> line, nl |-> FALSE], [line |-> line, nl |-> TRUE]>>
Ack(line) == [kind |-> "ACK", src |-> line.src, seq |-> line.seq]
Report == [kind |-> "METRICS", src |-> NoConn, seq |-> 0]

VARIABLES
  up,        \* the server runs
  present,   \* the clients it serves
  left,      \* those it has served
  viewers,   \* those that said HELLO as a viewer
  store,     \* the latest line of each device
  said,      \* how many complete lines a client has written
  in,        \* what a client has written and the server has not handled
  out        \* what the server has sent to a client and that has not read
vars == <<up, present, left, viewers, store, said, in, out>>

Init ==
  /\ up = TRUE
  /\ present = {} /\ left = {} /\ viewers = {}
  /\ store = [d \in {} |-> Report]
  /\ said = [c \in Conns |-> 0]
  /\ in = [c \in Conns |-> <<>>]
  /\ out = [c \in Conns |-> <<>>]

-----------------------------------------------------------------------------
(* The clients.                                                            *)

InMidLine(c) == in[c] # <<>> /\ ~in[c][Len(in[c])].nl

Begin(c, kind) ==
  /\ c \notin left /\ ~InMidLine(c)
  /\ LET line == [kind |-> kind, src |-> c, seq |-> said[c] + 1]
     IN  in' = [in EXCEPT ![c] = Append(@, Halves(line)[1])]
  /\ UNCHANGED <<up, present, left, viewers, store, said, out>>

Finish(c) ==
  /\ c \notin left /\ InMidLine(c)
  /\ in' = [in EXCEPT ![c] = Append(@, [@[Len(@)] EXCEPT !.nl = TRUE])]
  /\ said' = [said EXCEPT ![c] = @ + 1]
  /\ UNCHANGED <<up, present, left, viewers, store, out>>

Read(c) ==
  /\ out[c] # <<>>
  /\ out' = [out EXCEPT ![c] = Tail(@)]
  /\ UNCHANGED <<up, present, left, viewers, store, said, in>>

\* A client that closes never sees what it has not read.
Close(c) ==
  /\ out' = [out EXCEPT ![c] = <<>>]
  /\ UNCHANGED <<up, present, left, viewers, store, said, in>>

-----------------------------------------------------------------------------
(* The server.                                                             *)

\* The line that each of some clients is offered arrives whole, cut, or not at all.
Offer(lines) ==
  /\ DOMAIN out' = Conns
  /\ \A c \in Conns \ DOMAIN lines : out'[c] = out[c]
  /\ \A c \in DOMAIN lines : \E n \in 0..2 : out'[c] = out[c] \o SubSeq(Halves(lines[c]), 1, n)

Welcome(c) ==
  /\ up /\ c \notin present \cup left
  /\ present' = present \cup {c}
  /\ UNCHANGED <<up, left, viewers, store, said, in, out>>

HasLine(c) == Len(in[c]) >= 2
TakeLine(c) == /\ up /\ c \in present /\ HasLine(c)
               /\ in[c][2] = [in[c][1] EXCEPT !.nl = TRUE]
               /\ in' = [in EXCEPT ![c] = SubSeq(@, 3, Len(@))]

Hello(c) ==
  /\ TakeLine(c) /\ in[c][1].line.kind \in {"HELLO", "HELLO_OTHER"}
  /\ viewers' = IF in[c][1].line.kind = "HELLO" THEN viewers \cup {c} ELSE viewers
  /\ UNCHANGED <<up, present, left, store, said, out>>

Reject(c) ==
  /\ TakeLine(c) /\ in[c][1].line.kind = "BAD"
  /\ UNCHANGED <<up, present, left, viewers, store, said, out>>

Status(c) ==
  LET line == in[c][1].line
      asked == IF line.kind = "STATUS_ACK" THEN {c} ELSE {}
  IN  /\ TakeLine(c) /\ line.kind \in {"STATUS", "STATUS_ACK"}
      /\ store' = [d \in DOMAIN store \cup {DeviceOf[c]} |->
                     IF d = DeviceOf[c] THEN line ELSE store[d]]
      /\ Offer([d \in asked \cup (viewers \ {c}) |-> IF d = c THEN Ack(line) ELSE line])
      /\ UNCHANGED <<up, present, left, viewers, said>>

\* Half a line that its client will never finish is forgotten.
Leave(c) ==
  /\ up /\ c \in present /\ ~HasLine(c)
  /\ present' = present \ {c} /\ left' = left \cup {c} /\ viewers' = viewers \ {c}
  /\ in' = [in EXCEPT ![c] = <<>>]
  /\ UNCHANGED <<up, store, said, out>>

ReportMetrics ==
  /\ up
  /\ Offer([c \in viewers |-> Report])
  /\ UNCHANGED <<up, present, left, viewers, store, said, in>>

Stop ==
  /\ up /\ up' = FALSE
  /\ UNCHANGED <<present, left, viewers, store, said, in, out>>

Next ==
  \/ \E c \in Conns :
       \/ \E kind \in ClientKinds : Begin(c, kind)
       \/ Finish(c) \/ Read(c) \/ Close(c)
       \/ Welcome(c) \/ Hello(c) \/ Reject(c) \/ Status(c) \/ Leave(c)
  \/ ReportMetrics \/ Stop

Spec == Init /\ [][Next]_vars
=============================================================================
