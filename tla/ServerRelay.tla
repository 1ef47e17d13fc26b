----------------------------- MODULE ServerRelay ----------------------------
(***************************************************************************)
(* Server implements Relay: descriptors, the four tables, the buffers and  *)
(* the batch of events cannot be told from outside.                        *)
(***************************************************************************)
EXTENDS Server

\* The descriptor of a connection, if it has one.
FdOf(c) == CHOOSE fd \in Fds : fd_table[fd] = c
Accepted == {fd_table[fd] : fd \in OpenFds}

\* All bytes of a connection on the server's side, received or not.
Unread(c) == IF c \in Accepted THEN client_buffers[FdOf(c)] \o inbox[c] ELSE inbox[c]

Hub == INSTANCE Relay WITH
  up      <- ~Ended,
  present <- Accepted,
  left    <- {c \in Conns : peer[c] # "idle"} \ (Accepted \cup backlog),
  viewers <- {fd_table[fd] : fd \in viewer_client_fds},
  store   <- status_store,
  said    <- [c \in Conns |-> Len(written[c])],
  in      <- [c \in Conns |-> Unread(c)],
  out     <- outbox

\* Every step of the server and of its clients is a step of Relay or cannot be
\* seen from outside.  In particular a reused descriptor carries nothing over,
\* no batch reorders the lines of a client, and a connection that has ended is
\* let go only after its last complete line (main.cpp:463) was handled.  This is
\* Hub!Spec, with the steps that cannot be seen put first.
ImplementsRelay == Hub!Init /\ [][UNCHANGED Hub!vars \/ Hub!Next]_vars
=============================================================================
