----------------------------- MODULE MqttBridge -----------------------------
(***************************************************************************)
(* MqttBridge of apps/server, from main's start() to its destructor, with  *)
(* libmosquitto's network thread, which runs beside the event loop, calls  *)
(* handle_connect, and loses and reopens the connection by itself.         *)
(*                                                                         *)
(* handle_connect asks for a subscription and handle_message prints: what  *)
(* the broker makes of the first, and the second, are left out.            *)
(***************************************************************************)
EXTENDS Integers, Sequences

CONSTANT PublishLimit \* bound: how many statuses the server handles

ASSUME BridgeAssumption == PublishLimit \in Nat

VARIABLES
  bridge,     \* where main is in start(), the event loop and ~MqttBridge()
  client_,    \* "null", "live" or "destroyed"
  enabled_,
  lib,        \* mosquitto_lib_init() without its cleanup
  thread,     \* the library's thread runs
  sock,       \* the client's socket; "online" after a CONNACK
  out,        \* handed to the library, not sent
  broker,     \* the statuses the broker got
  handled     \* how many statuses the server has handled
libVars == <<thread, sock, out, broker>>
bridgeVars == <<bridge, client_, enabled_, lib, libVars, handled>>

BridgeInit ==
  /\ bridge = "start" /\ client_ = "null" /\ enabled_ = FALSE /\ lib = FALSE
  /\ thread = FALSE /\ sock = "closed"
  /\ out = <<>> /\ broker = <<>> /\ handled = 0

-----------------------------------------------------------------------------
(* start()                                                                 *)

\* Built without the library.
StartWithoutMqtt ==
  /\ bridge = "start" /\ bridge' = "serving"
  /\ UNCHANGED <<client_, enabled_, lib, libVars, handled>>

\* mosquitto_lib_init() and mosquitto_new().
StartNew ==
  /\ bridge = "start" /\ lib' = TRUE
  /\ \/ bridge' = "serving" /\ UNCHANGED client_
     \/ bridge' = "connect" /\ client_' = "live"
  /\ UNCHANGED <<enabled_, libVars, handled>>

\* mosquitto_connect() opens the socket, or start() gives up.
StartConnects ==
  /\ bridge = "connect"
  /\ \/ bridge' = "serving" /\ UNCHANGED sock
     \/ bridge' = "loop" /\ sock' = "open"
  /\ UNCHANGED <<client_, enabled_, lib, thread, out, broker, handled>>

\* mosquitto_loop_start() starts the thread, or start() gives up.
StartLoop ==
  /\ bridge = "loop"
  /\ \/ UNCHANGED <<thread, enabled_>>
     \/ thread' = TRUE /\ enabled_' = TRUE
  /\ bridge' = "serving"
  /\ UNCHANGED <<client_, lib, sock, out, broker, handled>>

-----------------------------------------------------------------------------
(* The event loop                                                          *)

\* Fault: QoS 1.
AtLeastOnce == 1

Qos == 0

\* publish_status(): without a socket the library refuses, and the error is
\* printed.
PublishStatus ==
  /\ bridge = "serving" /\ handled < PublishLimit
  /\ handled' = handled + 1
  /\ out' = IF enabled_ /\ sock # "closed" THEN Append(out, handled') ELSE out
  /\ UNCHANGED <<bridge, client_, enabled_, lib, thread, sock, broker>>

\* run_event_loop() returns or throws.
ServingEnds ==
  /\ bridge = "serving"
  /\ bridge' = IF client_ = "null" THEN "ended" ELSE "stop"
  /\ UNCHANGED <<client_, enabled_, lib, libVars, handled>>

-----------------------------------------------------------------------------
(* ~MqttBridge()                                                           *)

\* Fault: wait for the thread to end by itself.
NotForced == FALSE

Forced == TRUE

\* mosquitto_loop_stop(): joins the thread, which ends when it is cancelled or
\* when mosquitto_disconnect() has been called; not before.
LoopStop ==
  /\ bridge = "stop" /\ (Forced \/ ~thread)
  /\ thread' = FALSE
  /\ bridge' = "disconnect"
  /\ UNCHANGED <<client_, enabled_, lib, sock, out, broker, handled>>

\* mosquitto_disconnect(): what the socket takes of the queue goes first.
Disconnects ==
  /\ bridge = "disconnect" /\ bridge' = "destroy"
  /\ \E n \in 0 .. Len(out) :
       /\ sock = "closed" => n = 0
       /\ broker' = broker \o SubSeq(out, 1, n)
  /\ out' = <<>> /\ sock' = "closed"
  /\ UNCHANGED <<client_, enabled_, lib, thread, handled>>

\* mosquitto_destroy() and mosquitto_lib_cleanup().
Destroy ==
  /\ bridge = "destroy" /\ bridge' = "ended"
  /\ client_' = "destroyed" /\ lib' = FALSE
  /\ UNCHANGED <<enabled_, libVars, handled>>

-----------------------------------------------------------------------------
(* The library's thread and the broker                                     *)

\* The CONNACK; the broker closes a connection it refuses.  handle_connect only
\* queues a SUBSCRIBE, and passes over what becomes of it.
Connack ==
  /\ thread /\ sock = "open"
  /\ sock' \in {"online", "closed"}
  /\ out' = IF sock' = "closed" /\ Qos = 0 THEN <<>> ELSE out
  /\ UNCHANGED <<bridge, client_, enabled_, lib, thread, broker, handled>>

\* At QoS 0 a message is forgotten when it is sent; above, when it is confirmed.
Sends ==
  /\ thread /\ sock # "closed" /\ out # <<>>
  /\ broker' = Append(broker, Head(out))
  /\ \E confirmed \in BOOLEAN :
       out' = IF Qos = 0 \/ confirmed THEN Tail(out) ELSE out
  /\ UNCHANGED <<bridge, client_, enabled_, lib, thread, sock, handled>>

Loses ==
  /\ thread /\ sock # "closed"
  /\ sock' = "closed"
  /\ out' = IF Qos = 0 THEN <<>> ELSE out
  /\ UNCHANGED <<bridge, client_, enabled_, lib, thread, broker, handled>>

Reconnects ==
  /\ thread /\ sock = "closed"
  /\ sock' = "open"
  /\ UNCHANGED <<bridge, client_, enabled_, lib, thread, out, broker, handled>>

-----------------------------------------------------------------------------
Start == StartWithoutMqtt \/ StartNew \/ StartConnects \/ StartLoop
Destructor == LoopStop \/ Disconnects \/ Destroy
Library == Connack \/ Sends \/ Loses \/ Reconnects

BridgeNext == Start \/ PublishStatus \/ ServingEnds \/ Destructor \/ Library

\* main's thread runs; nobody has to end the event loop.
BridgeFairness == WF_bridgeVars(Destructor)
BridgeSpec == BridgeInit /\ [][BridgeNext]_bridgeVars /\ BridgeFairness

-----------------------------------------------------------------------------
(* Properties.                                                             *)

Status == 1 .. PublishLimit
BridgeTypeOK ==
  /\ bridge \in {"start", "connect", "loop", "serving", "stop", "disconnect",
                 "destroy", "ended"}
  /\ client_ \in {"null", "live", "destroyed"}
  /\ enabled_ \in BOOLEAN /\ lib \in BOOLEAN
  /\ thread \in BOOLEAN
  /\ sock \in {"closed", "open", "online"}
  /\ handled \in 0 .. PublishLimit
  /\ out \in Seq(Status) /\ broker \in Seq(Status)

\* The library's thread runs on a client that is there, in a library that is
\* initialised: the destructor ends it before it frees either.
ThreadHasClient == thread => client_ = "live" /\ lib

\* A bridge that is not enabled hands nothing to a client that start() left
\* behind half made, whose queue nobody would empty.
DisabledIsQuiet == ~enabled_ => out = <<>> /\ broker = <<>>

\* The broker gets the statuses in the order the server handled them, none of
\* them twice, over every loss of the connection and at shutdown.
AtMostOnceInOrder ==
  \A i, j \in DOMAIN broker : i < j => broker[i] < broker[j]

\* The destructor ends in every state of the connection, although it stops the
\* thread before it disconnects.
BridgeEnds == (bridge = "stop") ~> (bridge = "ended")
=============================================================================
