------------------------------ MODULE MCParts -------------------------------
(***************************************************************************)
(* Three parts that share no state, with few states each: Protocol,        *)
(* MetricsChart and MqttBridge.  In each behaviour one of them moves and   *)
(* the others stay as they began.                                          *)
(*                                                                         *)
(* Protocol has eight-bit numbers, which hold the battery of 87, texts a   *)
(* user may type, and tokens a foreign program may get right or wrong.     *)
(***************************************************************************)
EXTENDS Protocol, MetricsChart, MqttBridge

MCForeign ==
  { Token("device_id", word("a")), Token("device_id", word("b")),
    Token("state", word("OK")), Token("state", Empty),
    Token("battery", [to_string(128) EXCEPT !.minus = TRUE]), Token("battery", to_string(128)),
    Token("x", word("nan")), Token("x", word("near")),
    Token("seq", to_string(255)), Token("seq", to_string(256)),
    Token("seq", [to_string(1) EXCEPT !.minus = TRUE]),
    Token("ack", word("true")), Token("ack", to_string(0)), Token("ack", word("yes")),
    Token("active", to_string(256)), Token("speed", to_string(9)), Token("", word("hello")) }

MCIds == {word("sim-001"), Empty}
MCCoordinates == {to_string(0), [to_string(7) EXCEPT !.minus = TRUE, !.tail = ".5"],
                  [word("inf") EXCEPT !.minus = TRUE], word("near"), Empty}

VARIABLE part
partsVars == <<part, vars, chartVars, bridgeVars>>

\* The lines of the parts that stay begin in one way only.
PartsInit ==
  /\ part \in {"protocol", "chart", "bridge"}
  /\ Init /\ ChartInit /\ BridgeInit
  /\ part # "protocol" => line.first = "STATUS"

ProtocolMoves == part = "protocol" /\ Next /\ UNCHANGED <<part, chartVars, bridgeVars>>
ChartMoves == part = "chart" /\ ChartNext /\ UNCHANGED <<part, vars, bridgeVars>>
BridgeMoves == part = "bridge" /\ BridgeNext /\ UNCHANGED <<part, vars, chartVars>>

PartsNext == ProtocolMoves \/ ChartMoves \/ BridgeMoves

PartsFairness == WF_partsVars(BridgeMoves /\ Destructor)
PartsSpec == PartsInit /\ [][PartsNext]_partsVars /\ PartsFairness
=============================================================================
