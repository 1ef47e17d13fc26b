----------------------------- MODULE MCWidgets ------------------------------
(***************************************************************************)
(* FleetMap and DeviceAges, which share no state: in each behaviour one of *)
(* them moves and the other stays as it began.                             *)
(***************************************************************************)
EXTENDS FleetMap, DeviceAges, TLC

CONSTANTS a, b

MCCoords == {0, 40, 60, 100}
MCPositions == {<<0, 0>>, <<100, 40>>, <<PosInf, 0>>, <<NaN, 60>>}
MCSizes == {<<0, 0>>, <<528, 352>>, <<280, 352>>}
MCPoints == {<<143, 304>>, <<264, 184>>}
DeviceSymmetry == Permutations({a, b})

VARIABLE part
widgetsVars == <<part, mapVars, agesVars>>

\* The part that stays begins in one way only.
WidgetsInit ==
  /\ part \in {"map", "ages"} /\ MapInit /\ AgesInit
  /\ part = "map" => table_due = 1
  /\ part = "ages" => map_size = <<0, 0>> /\ mouse = <<264, 184>>

MapMoves == part = "map" /\ MapNext /\ UNCHANGED <<part, agesVars>>
AgesMove == part = "ages" /\ AgesNext /\ UNCHANGED <<part, mapVars>>

WidgetsNext == MapMoves \/ AgesMove

WidgetsSpec == WidgetsInit /\ [][WidgetsNext]_widgetsVars
=============================================================================
