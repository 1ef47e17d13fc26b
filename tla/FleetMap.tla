------------------------------ MODULE FleetMap ------------------------------
(***************************************************************************)
(* FleetMapWidget of apps/viewer: the devices, the view (scale_ and pan_,  *)
(* in tenths of a pixel) and who sets it, the auto fit or the user.        *)
(*                                                                         *)
(* All handlers run in the UI thread, one at a time.  Coordinates are      *)
(* doubles that from_chars reads, so they may also be infinite or not a    *)
(* number; only what IEEE arithmetic makes of those is kept.               *)
(***************************************************************************)
EXTENDS Integers, FiniteSets

CONSTANTS
  MapDevices,
  NoDevice,
  Coords,      \* whole coordinates; NaN and the infinities are apart
  PosInf, NegInf, NaN,
  Positions,   \* the <<x, y>> the devices report
  MapSizes,    \* the <<width, height>> the layout gives the widget
  Points,      \* where the mouse may be, in pixels of the widget
  GestureLimit \* bound: the drags and turns of the wheel

Coordinates == Coords \cup {PosInf, NegInf, NaN}

ASSUME FleetMapAssumption ==
  /\ Coords \subseteq Int /\ \A special \in {PosInf, NegInf, NaN} : special \notin Int
  /\ Positions \subseteq Coordinates \X Coordinates
  /\ MapSizes \subseteq Nat \X Nat /\ Points \subseteq Nat \X Nat
  /\ NoDevice \notin MapDevices /\ IsFiniteSet(MapDevices) /\ GestureLimit \in Nat

VARIABLES
  map_devices,        \* devices_by_id_: device to the position of its status
  hovered_device_id_, selected_device_id_,
  last_mouse_position_,
  pan_,               \* per axis, NaN when it is no finite number
  scale_,
  auto_fit_enabled_,
  dragging_,
  map_size,           \* rect()
  mouse,              \* where the mouse is
  gestures,
  wanted              \* the view as the user's last gesture left it
viewVars == <<pan_, scale_>>
pickVars == <<hovered_device_id_, selected_device_id_>>
mapVars == <<map_devices, pickVars, last_mouse_position_, viewVars,
             auto_fit_enabled_, dragging_, map_size, mouse, gestures, wanted>>

Axes == {1, 2}
Tenth == 10

\* No view that anybody wants: before the first drag or turn of the wheel, and
\* from a double click to the next.
NoView == [scale |-> 0, pan |-> <<0, 0>>]

MapInit ==
  /\ map_devices = [d \in {} |-> 0]
  /\ hovered_device_id_ = NoDevice /\ selected_device_id_ = NoDevice
  /\ last_mouse_position_ = <<0, 0>>
  /\ pan_ = <<0, 0>> /\ scale_ = Tenth
  /\ auto_fit_enabled_ = TRUE /\ dragging_ = FALSE
  /\ map_size \in MapSizes /\ mouse \in Points
  /\ gestures = 0 /\ wanted = NoView

-----------------------------------------------------------------------------
(* The geometry, in tenths of a pixel.                                     *)

Least(S) == CHOOSE m \in S : \A n \in S : m <= n
Most(S) == CHOOSE m \in S : \A n \in S : n <= m
Between(low, n, high) == Most({low, Least({n, high})})

\* plotArea(): rect() less its margins.
PlotLow(axis) == Tenth * (IF axis = 1 THEN 16 ELSE 34)
PlotLength(axis, size) == Tenth * (size[axis] - (IF axis = 1 THEN 32 ELSE 52))
Drawable(size) == \A axis \in Axes : PlotLength(axis, size) > Tenth

\* std::min and std::max with a NaN on the right keep what is on the left, and
\* an infinite coordinate makes the span infinite and the centre a NaN.
Values(axis, devices) == {devices[d][axis] : d \in DOMAIN devices} \ {NaN}
Finite(axis, devices) == Values(axis, devices) \cap {PosInf, NegInf} = {}

\* The larger of kMinimumWorldSpan and what the devices take up.
Span(axis, devices) ==
  LET V == Values(axis, devices)
  IN IF V = {} THEN 10 ELSE Most({10, Most(V) - Least(V)})

\* worldBounds() pads the span by 12 percent on both sides.
FitScale(axis, devices, size) ==
  IF ~Finite(axis, devices) THEN 0
  ELSE IF DOMAIN devices = {} THEN (PlotLength(axis, size)) \div 20
  ELSE (100 * PlotLength(axis, size)) \div (124 * Span(axis, devices))

\* Twice the coordinate of bounds.center().
Centre2(axis, devices) == 2 * Least(Values(axis, devices)) + Span(axis, devices)

FitPan(axis, devices, size, scale) ==
  LET middle2 == 2 * PlotLow(axis) + PlotLength(axis, size)
      turn == IF axis = 1 THEN 1 ELSE -1
  IN IF DOMAIN devices = {} THEN middle2 \div 2
     ELSE IF Values(axis, devices) = {} \/ ~Finite(axis, devices) THEN NaN
     ELSE (middle2 - turn * Centre2(axis, devices) * scale) \div 2

\* Fault: std::max.
LargerScale(scales) == Most(scales)

SmallerScale(scales) == Least(scales)

\* updateAutoFit(): the view it leaves.
Fit(devices, size) ==
  LET scale == Between(2 * Tenth,
                       SmallerScale({FitScale(axis, devices, size) : axis \in Axes}),
                       80 * Tenth)
  IN [scale |-> scale,
      pan |-> <<FitPan(1, devices, size, scale), FitPan(2, devices, size, scale)>>]

View == [scale |-> scale_, pan |-> pan_]
updateAutoFit(devices, size) == IF Drawable(size) THEN Fit(devices, size) ELSE View

\* worldToScreen()
Screen(position, view) ==
  [axis \in Axes |->
     IF position[axis] \notin Coords \/ view.pan[axis] = NaN THEN NaN
     ELSE (IF axis = 1 THEN 1 ELSE -1) * position[axis] * view.scale + view.pan[axis]]

\* The marker of d is in the plot area, or at most so far off.
InPlot(d, off) ==
  LET p == Screen(map_devices[d], View)
  IN \A axis \in Axes :
       /\ p[axis] # NaN
       /\ p[axis] >= PlotLow(axis) - off
       /\ p[axis] <= PlotLow(axis) + PlotLength(axis, map_size) + off

\* paintEvent() leaves out a marker more than 12 pixels off the plot area; it
\* does not leave out one that has no position, but drawEllipse() draws nothing.
Painted(d) == InPlot(d, 12 * Tenth)

-----------------------------------------------------------------------------
(* Picking: distances in whole pixels.                                     *)

Distance2(d, point, view) ==
  LET p == Screen(map_devices[d], view)
      off(axis) == (p[axis] - Tenth * point[axis]) \div Tenth
  IN off(1) * off(1) + off(2) * off(2)

InReach(point, view) ==
  {d \in DOMAIN map_devices :
     /\ NaN \notin {Screen(map_devices[d], view)[axis] : axis \in Axes}
     /\ Distance2(d, point, view) <= 100}

\* nearestDeviceId(): of devices equally near, the order of an unordered_map
\* decides.
Nearest(point, view) ==
  LET near == InReach(point, view)
  IN IF near = {} THEN {NoDevice}
     ELSE {d \in near : \A e \in near : Distance2(d, point, view) <= Distance2(e, point, view)}

-----------------------------------------------------------------------------
(* The handlers.                                                           *)

Upserted(batch) ==
  [d \in DOMAIN map_devices \cup DOMAIN batch |->
     IF d \in DOMAIN batch THEN batch[d] ELSE map_devices[d]]

ViewBecomes(view) == scale_' = view.scale /\ pan_' = view.pan

\* Fault: the fit comes before the insertion.
RefittedBefore(devices, size) ==
  IF auto_fit_enabled_ THEN updateAutoFit(map_devices, size) ELSE View

\* The view after a change of the devices or of the size.
Refitted(devices, size) ==
  IF auto_fit_enabled_ THEN updateAutoFit(devices, size) ELSE View

upsertDevices ==
  /\ \E D \in (SUBSET MapDevices) \ {{}} : \E batch \in [D -> Positions] :
       /\ map_devices' = Upserted(batch)
       /\ ViewBecomes(Refitted(Upserted(batch), map_size))
  /\ UNCHANGED <<pickVars, last_mouse_position_, auto_fit_enabled_, dragging_,
                 map_size, mouse, gestures, wanted>>

resizeEvent ==
  /\ \E size \in MapSizes \ {map_size} :
       /\ map_size' = size
       /\ ViewBecomes(Refitted(map_devices, size))
  /\ UNCHANGED <<map_devices, pickVars, last_mouse_position_, auto_fit_enabled_,
                 dragging_, mouse, gestures, wanted>>

mousePressEvent ==
  /\ selected_device_id_' \in Nearest(mouse, View)
  /\ dragging_' = (selected_device_id_' = NoDevice)
  /\ last_mouse_position_' = mouse
  /\ UNCHANGED <<map_devices, hovered_device_id_, viewVars, auto_fit_enabled_,
                 map_size, mouse, gestures, wanted>>

\* Fault: the flag is not cleared.
FitGoesOn == UNCHANGED auto_fit_enabled_

UserTakesView == auto_fit_enabled_' = FALSE

Moved(axis, to) ==
  IF pan_[axis] = NaN THEN NaN
  ELSE pan_[axis] + Tenth * (to[axis] - last_mouse_position_[axis])

\* mouseMoveEvent() while the user drags ...
Drag(to) ==
  /\ dragging_ /\ gestures < GestureLimit
  /\ gestures' = gestures + 1
  /\ UserTakesView
  /\ pan_' = <<Moved(1, to), Moved(2, to)>>
  /\ last_mouse_position_' = to
  /\ mouse' = to
  /\ wanted' = [scale |-> scale_, pan |-> pan_']
  /\ UNCHANGED <<map_devices, pickVars, scale_, dragging_, map_size>>

\* ... and while not.
Hover(to) ==
  /\ ~dragging_
  /\ hovered_device_id_' \in Nearest(to, View)
  /\ mouse' = to
  /\ UNCHANGED <<map_devices, selected_device_id_, last_mouse_position_, viewVars,
                 auto_fit_enabled_, dragging_, map_size, gestures, wanted>>

mouseMoveEvent == \E to \in Points \ {mouse} : Drag(to) \/ Hover(to)

mouseReleaseEvent ==
  /\ dragging_
  /\ dragging_' = FALSE
  /\ UNCHANGED <<map_devices, pickVars, last_mouse_position_, viewVars,
                 auto_fit_enabled_, map_size, mouse, gestures, wanted>>

\* autoFit(), also by another button than the one that drags.
mouseDoubleClickEvent ==
  /\ auto_fit_enabled_' = TRUE
  /\ wanted' = NoView
  /\ ViewBecomes(updateAutoFit(map_devices, map_size))
  /\ UNCHANGED <<map_devices, pickVars, last_mouse_position_, dragging_, map_size,
                 mouse, gestures>>

Zoomed(in) ==
  Between(2 * Tenth, IF in THEN (scale_ * 115) \div 100 ELSE (scale_ * 100) \div 115,
          140 * Tenth)

\* Fault: zooms about the origin of the world.
PanKept(axis, scale) == pan_[axis]

\* The pan that keeps the world point under the mouse where it is.
Repanned(axis, scale) ==
  IF pan_[axis] = NaN THEN NaN
  ELSE Tenth * mouse[axis] - ((Tenth * mouse[axis] - pan_[axis]) * scale) \div scale_

wheelEvent ==
  /\ gestures < GestureLimit
  /\ gestures' = gestures + 1
  /\ UserTakesView
  /\ \E in \in BOOLEAN :
       LET scale == Zoomed(in)
           view == [scale |-> scale, pan |-> <<Repanned(1, scale), Repanned(2, scale)>>]
       IN /\ ViewBecomes(view) /\ wanted' = view
          /\ hovered_device_id_' \in Nearest(mouse, view)
  /\ UNCHANGED <<map_devices, selected_device_id_, last_mouse_position_, dragging_,
                 map_size, mouse>>

MapNext ==
  \/ upsertDevices \/ resizeEvent
  \/ mousePressEvent \/ mouseMoveEvent \/ mouseReleaseEvent
  \/ mouseDoubleClickEvent \/ wheelEvent

MapSpec == MapInit /\ [][MapNext]_mapVars

-----------------------------------------------------------------------------
(* Properties.                                                             *)

\* While the auto fit is on, the view is the one that fits the devices and the
\* size there are now: no order of updates, resizes and double clicks, with the
\* widget collapsed in between, leaves an older one.
Fitted == auto_fit_enabled_ /\ Drawable(map_size) /\ map_devices # [d \in {} |-> 0]
FitIsCurrent == Fitted => View = Fit(map_devices, map_size)

\* Auto fit shows the whole fleet: with finite positions, and a spread that the
\* smallest scale can show, every marker is inside the plot area.
FleetInView ==
  /\ Fitted
  /\ \A d \in DOMAIN map_devices : map_devices[d] \in Coords \X Coords
  /\ \A axis \in Axes : FitScale(axis, map_devices, map_size) >= 2 * Tenth
  => \A d \in DOMAIN map_devices : InPlot(d, 0)

\* The view is as the user's last drag or turn of the wheel left it, whatever
\* updates, resizes, clicks and moves of the mouse have followed, until a double
\* click gives it up.
UserViewIsKept == wanted # NoView => View = wanted

\* What is under the mouse stays under it while the user drags and zooms, in
\* whatever order: the world point below it, (mouse - pan_) / scale_, is the same
\* up to a rounded tenth of a pixel.
SamePoint(axis) ==
  \/ pan_[axis] = NaN
  \/ LET before == Tenth * mouse[axis] - pan_[axis]
         after == Tenth * mouse'[axis] - pan_'[axis]
     IN before * scale_' - after * scale_ \in -scale_ .. scale_
PointUnderMouseStays ==
  [][~auto_fit_enabled_' /\ viewVars' # viewVars => \A axis \in Axes : SamePoint(axis)]_mapVars

\* README: the map keeps every device visible, stale ones too.  While the auto
\* fit is on, every device with a finite position is painted.
FleetDisplayed ==
  Fitted => \A d \in DOMAIN map_devices :
              map_devices[d] \in Coords \X Coords => Painted(d)
=============================================================================
