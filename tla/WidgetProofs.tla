---------------------------- MODULE WidgetProofs ----------------------------
(***************************************************************************)
(* What the viewer's widgets show, for every set of devices, positions,    *)
(* sizes, samples and periods: who sets the view of FleetMap and what is   *)
(* in it, the series and the lines of MetricsChart, and the ages of        *)
(* DeviceAges.                                                             *)
(***************************************************************************)
EXTENDS FleetMap, DeviceAges, MetricsChart, SequenceTheorems, FiniteSetTheorems,
        WellFoundedInduction, TLAPS

-----------------------------------------------------------------------------
(* The view of the fleet map.                                              *)

\* updateAutoFit() where there is room to draw.
LEMMA FittedView ==
  ASSUME NEW devices, NEW size, ViewBecomes(updateAutoFit(devices, size)), Drawable(size)
  PROVE  View' = Fit(devices, size)
<1>1. updateAutoFit(devices, size) = Fit(devices, size)
  BY DEF updateAutoFit
<1>2. PICK scale, pan : Fit(devices, size) = [scale |-> scale, pan |-> pan]
  BY DEF Fit
<1> QED BY <1>1, <1>2 DEF ViewBecomes, View

\* A view that becomes what it is.
LEMMA SameView == ViewBecomes(View) => UNCHANGED viewVars
BY DEF ViewBecomes, View, viewVars

\* A step that leaves the view, the devices, the size and who sets the view.
LEMMA FitUntouched ==
  ASSUME FitIsCurrent, UNCHANGED <<viewVars, map_devices, map_size, auto_fit_enabled_>>
  PROVE  FitIsCurrent'
<1>1. Fitted' = Fitted
  BY DEF Fitted, Drawable, PlotLength
<1>2. View' = View
  BY DEF View, viewVars
<1>3. Fit(map_devices, map_size)' = Fit(map_devices, map_size)
  OBVIOUS
<1> QED BY <1>1, <1>2, <1>3 DEF FitIsCurrent

\* Every handler leaves the fit current.
LEMMA FitIsCurrentStep == FitIsCurrent /\ [MapNext]_mapVars => FitIsCurrent'
<1> SUFFICES ASSUME FitIsCurrent, [MapNext]_mapVars, Fitted'
             PROVE  View' = Fit(map_devices', map_size')
  BY DEF FitIsCurrent
<1>a. auto_fit_enabled_' /\ Drawable(map_size')
  BY DEF Fitted
<1>b. ASSUME UNCHANGED <<viewVars, map_devices, map_size, auto_fit_enabled_>>
      PROVE  View' = Fit(map_devices', map_size')
  BY <1>b, FitUntouched DEF FitIsCurrent
<1>1. CASE upsertDevices
  <2>1. PICK D \in (SUBSET MapDevices) \ {{}} : \E batch \in [D -> Positions] :
          /\ map_devices' = Upserted(batch)
          /\ ViewBecomes(Refitted(Upserted(batch), map_size))
    BY <1>1 DEF upsertDevices
  <2>2. auto_fit_enabled_ /\ map_size' = map_size
    BY <1>1, <1>a DEF upsertDevices
  <2>3. ViewBecomes(updateAutoFit(map_devices', map_size'))
    BY <2>1, <2>2 DEF Refitted
  <2> QED BY <1>a, <2>3, FittedView
<1>2. CASE resizeEvent
  <2>1. PICK size \in MapSizes \ {map_size} :
          map_size' = size /\ ViewBecomes(Refitted(map_devices, size))
    BY <1>2 DEF resizeEvent
  <2>2. auto_fit_enabled_ /\ map_devices' = map_devices
    BY <1>2, <1>a DEF resizeEvent
  <2>3. ViewBecomes(updateAutoFit(map_devices', map_size'))
    BY <2>1, <2>2 DEF Refitted
  <2> QED BY <1>a, <2>3, FittedView
<1>3. CASE mousePressEvent
  BY <1>3, <1>b DEF mousePressEvent
<1>4. CASE mouseMoveEvent
  <2>1. PICK to \in Points \ {mouse} : Drag(to) \/ Hover(to)
    BY <1>4 DEF mouseMoveEvent
  <2>2. CASE Drag(to)
    BY <1>a, <2>2 DEF Drag, UserTakesView
  <2>3. CASE Hover(to)
    BY <1>b, <2>3 DEF Hover
  <2> QED BY <2>1, <2>2, <2>3
<1>5. CASE mouseReleaseEvent
  BY <1>5, <1>b DEF mouseReleaseEvent
<1>6. CASE mouseDoubleClickEvent
  <2>1. ViewBecomes(updateAutoFit(map_devices', map_size'))
    BY <1>6 DEF mouseDoubleClickEvent
  <2> QED BY <1>a, <2>1, FittedView
<1>7. CASE wheelEvent
  BY <1>a, <1>7 DEF wheelEvent, UserTakesView
<1>8. CASE UNCHANGED mapVars
  BY <1>b, <1>8 DEF mapVars
<1> QED BY <1>1, <1>2, <1>3, <1>4, <1>5, <1>6, <1>7, <1>8 DEF MapNext

\* upsertDevices, resizeEvent and autoFit: no order of updates, resizes, gestures
\* and double clicks leaves a view that was fitted to other devices or another size.
THEOREM FitStaysCurrent == MapSpec => []FitIsCurrent
<1>1. MapInit => FitIsCurrent
  BY DEF MapInit, FitIsCurrent, Fitted
<1> QED BY <1>1, FitIsCurrentStep, PTL DEF MapSpec

-----------------------------------------------------------------------------
\* A view that the user wants is the view there is, and no fit is due.
UserOwns == wanted # NoView => View = wanted /\ auto_fit_enabled_ = FALSE

\* mouseMoveEvent, wheelEvent, upsertDevices, resizeEvent: a view that the user has
\* set is left alone until a double click.
THEOREM ViewBelongsToUser == MapSpec => []UserViewIsKept
<1>1. MapInit => UserOwns
  BY DEF MapInit, UserOwns
<1>2. UserOwns /\ [MapNext]_mapVars => UserOwns'
  <2> SUFFICES ASSUME UserOwns, [MapNext]_mapVars, wanted' # NoView
               PROVE  View' = wanted' /\ auto_fit_enabled_' = FALSE
    BY DEF UserOwns
  <2>a. ASSUME UNCHANGED <<viewVars, wanted, auto_fit_enabled_>>
        PROVE  View' = wanted' /\ auto_fit_enabled_' = FALSE
    BY <2>a DEF UserOwns, View, viewVars
  <2>b. ASSUME UNCHANGED <<wanted, auto_fit_enabled_>>
        PROVE  View = wanted /\ auto_fit_enabled_ = FALSE
    BY <2>b DEF UserOwns
  <2>1. CASE upsertDevices
    <3>1. PICK D \in (SUBSET MapDevices) \ {{}} : \E batch \in [D -> Positions] :
            ViewBecomes(Refitted(Upserted(batch), map_size))
      BY <2>1 DEF upsertDevices
    <3>2. UNCHANGED <<wanted, auto_fit_enabled_>>
      BY <2>1 DEF upsertDevices
    <3> QED BY <2>a, <2>b, <3>1, <3>2, SameView DEF Refitted
  <2>2. CASE resizeEvent
    <3>1. PICK size \in MapSizes \ {map_size} : ViewBecomes(Refitted(map_devices, size))
      BY <2>2 DEF resizeEvent
    <3>2. UNCHANGED <<wanted, auto_fit_enabled_>>
      BY <2>2 DEF resizeEvent
    <3> QED BY <2>a, <2>b, <3>1, <3>2, SameView DEF Refitted
  <2>3. CASE mousePressEvent \/ mouseReleaseEvent
    BY <2>a, <2>3 DEF mousePressEvent, mouseReleaseEvent
  <2>4. CASE mouseDoubleClickEvent
    BY <2>4 DEF mouseDoubleClickEvent
  <2>5. CASE mouseMoveEvent
    <3>1. PICK to \in Points \ {mouse} : Drag(to) \/ Hover(to)
      BY <2>5 DEF mouseMoveEvent
    <3>2. CASE Drag(to)
      BY <3>2 DEF Drag, UserTakesView, View
    <3>3. CASE Hover(to)
      BY <2>a, <3>3 DEF Hover
    <3> QED BY <3>1, <3>2, <3>3
  <2>6. CASE wheelEvent
    <3>1. PICK view \in {[scale |-> Zoomed(in), pan |-> <<Repanned(1, Zoomed(in)), Repanned(2, Zoomed(in))>>] :
                         in \in BOOLEAN} : ViewBecomes(view) /\ wanted' = view
      BY <2>6 DEF wheelEvent
    <3>2. PICK scale, pan : view = [scale |-> scale, pan |-> pan]
      OBVIOUS
    <3> QED BY <2>6, <3>1, <3>2 DEF wheelEvent, UserTakesView, ViewBecomes, View
  <2>7. CASE UNCHANGED mapVars
    BY <2>a, <2>7 DEF mapVars
  <2> QED BY <2>1, <2>2, <2>3, <2>4, <2>5, <2>6, <2>7 DEF MapNext
<1>3. UserOwns => UserViewIsKept
  BY DEF UserOwns, UserViewIsKept
<1> QED BY <1>1, <1>2, <1>3, PTL DEF MapSpec

-----------------------------------------------------------------------------
(* What the fit computes.                                                  *)

Pans == Int \cup {NaN}

\* Devices the map can hold.
IsFleet(devices) ==
  DOMAIN devices \subseteq MapDevices /\ devices \in [DOMAIN devices -> Positions]

\* A set of natural numbers has a least one.
LEMMA LeastNatural ==
  ASSUME NEW T, T \subseteq Nat, T # {}
  PROVE  \E m \in T : \A n \in T : m <= n
<1>1. \E m \in T : \A n \in T : ~(<<n, m>> \in OpToRel(<, Nat))
  BY NatLessThanWellFounded, WFMin, Zenon
<1>2. PICK m \in T : \A n \in T : ~(<<n, m>> \in OpToRel(<, Nat))
  BY <1>1
<1>3. ASSUME NEW n \in T PROVE m <= n
  <2>1. m \in Nat /\ n \in Nat
    OBVIOUS
  <2>2. ~(n < m)
    <3>1. <<n, m>> \notin OpToRel(<, Nat)
      BY <1>2
    <3> QED BY <2>1, <3>1 DEF OpToRel
  <2> QED BY <2>1, <2>2
<1> QED BY <1>3

\* A finite set has an element with none before it, in any strict order.
LEMMA FirstOfFinite ==
  ASSUME NEW S, IsFiniteSet(S), S # {}, NEW less,
         \A m \in S : <<m, m>> \notin less,
         \A k, m, n \in S : <<k, m>> \in less /\ <<m, n>> \in less => <<k, n>> \in less
  PROVE  \E m \in S : \A n \in S : <<n, m>> \notin less
<1> DEFINE Before(m) == {n \in S : <<n, m>> \in less}
           Sizes == {Cardinality(Before(m)) : m \in S}
<1>1. \A m \in S : IsFiniteSet(Before(m)) /\ Cardinality(Before(m)) \in Nat
  <2> TAKE m \in S
  <2>1. Before(m) \subseteq S
    OBVIOUS
  <2> QED BY <2>1, FS_Subset, FS_CardinalityType
<1>2. Sizes \subseteq Nat /\ Sizes # {}
  <2> HIDE DEF Before
  <2> QED BY <1>1
<1>3. PICK k \in Sizes : \A j \in Sizes : k <= j
  BY <1>2, LeastNatural
<1>4. PICK m \in S : k = Cardinality(Before(m))
  BY <1>3
<1>5. ASSUME NEW n \in S, <<n, m>> \in less PROVE FALSE
  <2>1. Before(n) \subseteq Before(m) /\ n \in Before(m) /\ n \notin Before(n)
    BY <1>5
  <2>2. PICK j : j = Cardinality(Before(n))
    OBVIOUS
  <2>3. j \in Sizes /\ j \in Nat /\ k \in Nat
    <3> HIDE DEF Before
    <3> QED BY <1>1, <1>4, <2>2
  <2>4. j <= k /\ j # k
    <3> HIDE DEF Before
    <3>1. Before(n) # Before(m)
      BY <2>1
    <3> QED BY <1>1, <1>4, <2>1, <2>2, <3>1, FS_Subset
  <2> QED BY <1>3, <2>3, <2>4
<1> QED BY <1>5

\* A finite set of integers has a least one and a largest one.
LEMMA ExtremesExist ==
  ASSUME NEW S, S \subseteq Int, IsFiniteSet(S), S # {}
  PROVE  /\ Least(S) \in S /\ \A n \in S : Least(S) <= n
         /\ Most(S) \in S /\ \A n \in S : n <= Most(S)
<1>1. \E m \in S : \A n \in S : m <= n
  <2> DEFINE less == {p \in S \X S : p[1] < p[2]}
  <2>1. \A m, n \in S : <<m, n>> \in less <=> m < n
    OBVIOUS
  <2> HIDE DEF less
  <2>2. /\ \A m \in S : <<m, m>> \notin less
        /\ \A k, m, n \in S : <<k, m>> \in less /\ <<m, n>> \in less => <<k, n>> \in less
    BY <2>1
  <2>3. PICK m \in S : \A n \in S : <<n, m>> \notin less
    BY <2>2, FirstOfFinite
  <2>4. ASSUME NEW n \in S PROVE ~(n < m)
    BY <2>1, <2>3
  <2>5. \A n \in S : n \in Int /\ m \in Int
    OBVIOUS
  <2> QED BY <2>4, <2>5
<1>2. \E m \in S : \A n \in S : n <= m
  <2> DEFINE less == {p \in S \X S : p[2] < p[1]}
  <2>1. \A m, n \in S : <<m, n>> \in less <=> n < m
    OBVIOUS
  <2> HIDE DEF less
  <2>2. /\ \A m \in S : <<m, m>> \notin less
        /\ \A k, m, n \in S : <<k, m>> \in less /\ <<m, n>> \in less => <<k, n>> \in less
    BY <2>1
  <2>3. PICK m \in S : \A n \in S : <<n, m>> \notin less
    BY <2>2, FirstOfFinite
  <2>4. ASSUME NEW n \in S PROVE ~(m < n)
    BY <2>1, <2>3
  <2>5. \A n \in S : n \in Int /\ m \in Int
    OBVIOUS
  <2> QED BY <2>4, <2>5
<1> QED BY <1>1, <1>2 DEF Least, Most

\* The smaller of two numbers, the larger, and std::clamp.
LEMMA OfTwo ==
  ASSUME NEW m \in Int, NEW n \in Int
  PROVE  /\ Least({m, n}) \in {m, n} /\ Least({m, n}) <= m /\ Least({m, n}) <= n
         /\ Most({m, n}) \in {m, n} /\ Most({m, n}) >= m /\ Most({m, n}) >= n
<1>1. IsFiniteSet({m, n})
  <2>1. IsFiniteSet({} \cup {m})
    BY FS_EmptySet, FS_AddElement
  <2>2. IsFiniteSet(({} \cup {m}) \cup {n})
    BY <2>1, FS_AddElement
  <2>3. ({} \cup {m}) \cup {n} = {m, n}
    OBVIOUS
  <2> QED BY <2>2, <2>3, Zenon
<1>2. {m, n} \subseteq Int /\ {m, n} # {} /\ m \in {m, n} /\ n \in {m, n}
  OBVIOUS
<1> QED BY <1>1, <1>2, ExtremesExist

\* std::clamp stays within its limits.
LEMMA BetweenIs ==
  ASSUME NEW low \in Int, NEW n \in Int, NEW high \in Int, low <= high
  PROVE  Between(low, n, high) \in low .. high /\ (n >= low => Between(low, n, high) <= n)
<1>1. PICK k : k = Least({n, high})
  OBVIOUS
<1>2. k \in {n, high} /\ k <= n /\ k <= high
  BY <1>1, OfTwo
<1>3. PICK m : m = Most({low, k})
  OBVIOUS
<1>4. m \in {low, k} /\ m >= low /\ m >= k
  BY <1>2, <1>3, OfTwo
<1>5. Between(low, n, high) = m
  BY <1>1, <1>3 DEF Between
<1> QED BY <1>2, <1>4, <1>5

\* worldBounds(): the span covers all devices, and is never 0.
LEMMA SpanIs ==
  ASSUME NEW devices, IsFleet(devices), NEW axis \in Axes, Finite(axis, devices)
  PROVE  /\ Span(axis, devices) \in Nat /\ Span(axis, devices) >= 10
         /\ Values(axis, devices) \subseteq Int
         /\ Values(axis, devices) # {} =>
              /\ Least(Values(axis, devices)) \in Int
              /\ \A v \in Values(axis, devices) :
                   /\ Least(Values(axis, devices)) <= v
                   /\ v <= Least(Values(axis, devices)) + Span(axis, devices)
<1> DEFINE V == Values(axis, devices)
<1>1. V \subseteq Int
  <2> SUFFICES ASSUME NEW d \in DOMAIN devices, devices[d][axis] \in V
               PROVE  devices[d][axis] \in Int
    BY DEF Values
  <2>1. devices[d] \in Coordinates \X Coordinates
    BY FleetMapAssumption DEF IsFleet
  <2>2. devices[d][axis] \in Coordinates
    BY <2>1 DEF Axes
  <2>3. devices[d][axis] \notin {PosInf, NegInf, NaN}
    BY DEF Finite, Values
  <2> QED BY <2>2, <2>3, FleetMapAssumption DEF Coordinates
<1>2. IsFiniteSet(V)
  <2>1. IsFiniteSet(DOMAIN devices)
    BY FS_Subset, FleetMapAssumption DEF IsFleet
  <2>2. IsFiniteSet({devices[d][axis] : d \in DOMAIN devices})
    <3> DEFINE T == {devices[d][axis] : d \in DOMAIN devices}
               f == [d \in DOMAIN devices |-> devices[d][axis]]
    <3>1. f \in Surjection(DOMAIN devices, T)
      BY DEF Surjection
    <3> QED BY <2>1, <3>1, FS_Surjection
  <2>3. V \subseteq {devices[d][axis] : d \in DOMAIN devices}
    BY DEF Values
  <2> QED BY <2>2, <2>3, FS_Subset
<1>3. CASE V = {}
  <2>1. Span(axis, devices) = 10
    BY <1>3 DEF Span
  <2> QED BY <1>1, <1>3, <2>1
<1>4. CASE V # {}
  <2> HIDE DEF V
  <2>1. PICK low : low = Least(V)
    OBVIOUS
  <2>2. PICK high : high = Most(V)
    OBVIOUS
  <2>3. /\ low \in Int /\ high \in Int /\ \A v \in V : v \in Int /\ low <= v /\ v <= high
    BY <1>1, <1>2, <1>4, <2>1, <2>2, ExtremesExist
  <2>4. PICK span : span = Most({10, high - low})
    OBVIOUS
  <2>5. span \in {10, high - low} /\ span >= 10 /\ span >= high - low
    <3>1. PICK gap \in Int : gap = high - low
      BY <2>3
    <3> QED BY <2>4, <3>1, OfTwo
  <2>6. Span(axis, devices) = span
    BY <1>4, <2>1, <2>2, <2>4 DEF Span, V
  <2>7. \A v \in V : v <= low + span
    BY <2>3, <2>5
  <2>8. span \in Nat /\ span >= 10
    BY <2>3, <2>5
  <2> QED BY <1>1, <2>1, <2>3, <2>6, <2>7, <2>8 DEF V
<1> QED BY <1>3, <1>4

\* plotArea() and the scale that fits one axis.
LEMMA FitScaleIs ==
  ASSUME NEW devices, IsFleet(devices), NEW size \in MapSizes, NEW axis \in Axes
  PROVE  /\ PlotLow(axis) \in Nat /\ PlotLength(axis, size) \in Int
         /\ FitScale(axis, devices, size) \in Int
<1>1. PlotLow(axis) \in Nat /\ PlotLength(axis, size) \in Int
  <2>1. size[axis] \in Nat
    BY FleetMapAssumption DEF Axes
  <2> QED BY <2>1 DEF PlotLow, PlotLength, Tenth
<1>2. CASE ~Finite(axis, devices)
  BY <1>1, <1>2 DEF FitScale
<1>3. CASE Finite(axis, devices)
  <2>1. PICK length : length = PlotLength(axis, size)
    OBVIOUS
  <2>2. PICK span : span = Span(axis, devices)
    OBVIOUS
  <2>3. length \in Int /\ span \in Nat \ {0}
    BY <1>1, <1>3, <2>1, <2>2, SpanIs
  <2>4. length \div 20 \in Int
    BY <2>3
  <2>5. PICK whole : whole = 124 * span
    OBVIOUS
  <2>6. (100 * length) \div whole \in Int
    BY <2>3, <2>5
  <2> QED BY <1>1, <1>3, <2>1, <2>2, <2>4, <2>5, <2>6 DEF FitScale
<1> QED BY <1>2, <1>3

\* updateAutoFit(): the scale is one of the code's limits or what fits both axes.
LEMMA FitIs ==
  ASSUME NEW devices, IsFleet(devices), NEW size \in MapSizes
  PROVE  LET view == Fit(devices, size)
         IN /\ view.scale \in 20 .. 800
            /\ \A axis \in Axes :
                 /\ FitScale(axis, devices, size) \in Int
                 /\ view.pan[axis] = FitPan(axis, devices, size, view.scale)
            /\ (\A axis \in Axes : FitScale(axis, devices, size) >= 20) =>
                  \A axis \in Axes : view.scale <= FitScale(axis, devices, size)
            /\ view.pan \in Pans \X Pans
<1>1. PICK f1 : f1 = FitScale(1, devices, size)
  OBVIOUS
<1>2. PICK f2 : f2 = FitScale(2, devices, size)
  OBVIOUS
<1>3. f1 \in Int /\ f2 \in Int /\ \A axis \in Axes : axis = 1 \/ axis = 2
  BY <1>1, <1>2, FitScaleIs DEF Axes
<1>4. PICK least : least = SmallerScale({FitScale(axis, devices, size) : axis \in Axes})
  OBVIOUS
<1>5. least \in {f1, f2} /\ least <= f1 /\ least <= f2
  <2>1. {FitScale(axis, devices, size) : axis \in Axes} = {f1, f2}
    BY <1>1, <1>2 DEF Axes
  <2>2. least = Least({f1, f2})
    BY <1>4, <2>1 DEF SmallerScale
  <2> QED BY <1>3, <2>2, OfTwo
<1>6. PICK scale : scale = Between(20, least, 800)
  OBVIOUS
<1>7. scale \in 20 .. 800 /\ (least >= 20 => scale <= least)
  <2>1. least \in Int
    BY <1>3, <1>5
  <2>2. PICK low \in Int, high \in Int : low = 20 /\ high = 800
    OBVIOUS
  <2>3. scale = Between(low, least, high)
    BY <1>6, <2>2, Zenon
  <2>4. low <= high
    BY <2>2
  <2>5. scale \in low .. high /\ (least >= low => scale <= least)
    BY <2>1, <2>3, <2>4, BetweenIs
  <2> QED BY <2>2, <2>5
<1>8. Fit(devices, size) = [scale |-> scale, pan |-> <<FitPan(1, devices, size, scale), FitPan(2, devices, size, scale)>>]
  <2>1. 2 * Tenth = 20 /\ 80 * Tenth = 800
    BY DEF Tenth
  <2> QED BY <1>4, <1>6, <2>1 DEF Fit
<1>9. \A axis \in Axes : FitPan(axis, devices, size, scale) \in Pans
  <2> TAKE axis \in Axes
  <2>1. PICK low : low = PlotLow(axis)
    OBVIOUS
  <2>2. PICK length : length = PlotLength(axis, size)
    OBVIOUS
  <2>3. low \in Int /\ length \in Int
    BY <2>1, <2>2, FitScaleIs
  <2>4. CASE DOMAIN devices = {}
    <3>1. FitPan(axis, devices, size, scale) = (2 * low + length) \div 2
      BY <2>1, <2>2, <2>4 DEF FitPan
    <3> QED BY <2>3, <3>1 DEF Pans
  <2>5. CASE DOMAIN devices # {} /\ (Values(axis, devices) = {} \/ ~Finite(axis, devices))
    BY <2>5 DEF FitPan, Pans
  <2>6. CASE DOMAIN devices # {} /\ Values(axis, devices) # {} /\ Finite(axis, devices)
    <3>1. PICK c : c = Centre2(axis, devices)
      OBVIOUS
    <3>2. c \in Int
      <4>1. Least(Values(axis, devices)) \in Int /\ Span(axis, devices) \in Int
        BY <2>6, SpanIs
      <4> QED BY <3>1, <4>1 DEF Centre2
    <3>3. PICK far : far = (IF axis = 1 THEN 1 ELSE -1) * Centre2(axis, devices) * scale
      OBVIOUS
    <3>4. far \in Int
      <4>1. (1 * c) * scale \in Int /\ (-1 * c) * scale \in Int
        BY <1>7, <3>2
      <4>2. CASE axis = 1
        BY <3>1, <3>3, <4>1, <4>2
      <4>3. CASE axis # 1
        BY <3>1, <3>3, <4>1, <4>3
      <4> QED BY <4>2, <4>3
    <3>5. PICK middle2 : middle2 = 2 * PlotLow(axis) + PlotLength(axis, size)
      OBVIOUS
    <3>6. FitPan(axis, devices, size, scale) = (middle2 - far) \div 2
      BY <2>6, <3>3, <3>5, Zenon DEF FitPan
    <3>7. middle2 = 2 * low + length
      BY <2>1, <2>2, <3>5, Zenon
    <3>8. (middle2 - far) \div 2 \in Int
      BY <2>3, <3>4, <3>7
    <3> QED BY <3>6, <3>8 DEF Pans
  <2> QED BY <2>4, <2>5, <2>6
<1>10. 1 \in Axes /\ 2 \in Axes
  BY DEF Axes
<1> QED BY <1>1, <1>2, <1>3, <1>5, <1>7, <1>8, <1>9, <1>10

-----------------------------------------------------------------------------
(* The mouse and the view.                                                 *)

MapTypes ==
  /\ IsFleet(map_devices) /\ map_size \in MapSizes /\ mouse \in Points
  /\ last_mouse_position_ \in Nat \X Nat
  /\ scale_ \in Nat \ {0} /\ pan_ \in Pans \X Pans
  /\ dragging_ \in BOOLEAN

\* While the user drags, the position the code remembers is where the mouse is.
DragsFromMouse == dragging_ => last_mouse_position_ = mouse

MapInv == MapTypes /\ DragsFromMouse /\ FitIsCurrent

IsView(view) == view.scale \in Nat \ {0} /\ view.pan \in Pans \X Pans

\* A change of the devices or of the size leaves a view.
LEMMA RefittedIs ==
  ASSUME MapTypes, NEW devices, IsFleet(devices), NEW size \in MapSizes
  PROVE  IsView(Refitted(devices, size)) /\ IsView(updateAutoFit(devices, size))
<1>1. IsView(View)
  BY DEF MapTypes, View, IsView
<1>2. IsView(Fit(devices, size))
  <2>1. PICK view : view = Fit(devices, size)
    OBVIOUS
  <2>2. view.scale \in 20 .. 800 /\ view.pan \in Pans \X Pans
    BY <2>1, FitIs
  <2>3. view.scale \in Nat \ {0}
    BY <2>2
  <2> QED BY <2>1, <2>2, <2>3 DEF IsView
<1> QED BY <1>1, <1>2 DEF Refitted, updateAutoFit

\* A zoom leaves a scale.
LEMMA ZoomedIs ==
  ASSUME scale_ \in Nat \ {0}, NEW in \in BOOLEAN
  PROVE  Zoomed(in) \in Nat \ {0}
<1>1. PICK zoomed : zoomed = IF in THEN (scale_ * 115) \div 100 ELSE (scale_ * 100) \div 115
  OBVIOUS
<1>2. zoomed \in Int
  BY <1>1
<1>3. PICK low \in Int, high \in Int : low = 20 /\ high = 1400
  OBVIOUS
<1>4. Zoomed(in) = Between(low, zoomed, high)
  <2>1. 2 * Tenth = low /\ 140 * Tenth = high
    BY <1>3 DEF Tenth
  <2> QED BY <1>1, <2>1, Zenon DEF Zoomed
<1>5. Zoomed(in) \in low .. high
  <2>1. low <= high
    BY <1>3
  <2> QED BY <1>2, <1>4, <2>1, BetweenIs
<1> QED BY <1>3, <1>5

\* The pan of an axis after a drag and after a zoom.
LEMMA PanIs ==
  ASSUME MapTypes, NEW axis \in Axes
  PROVE  /\ pan_[axis] \in Pans /\ mouse[axis] \in Nat /\ last_mouse_position_[axis] \in Nat
         /\ \A to \in Points : to[axis] \in Nat /\ Moved(axis, to) \in Pans
         /\ \A scale \in Nat : Repanned(axis, scale) \in Pans
<1>1. \A to \in Points : to[axis] \in Nat
  BY FleetMapAssumption DEF Axes
<1>2. pan_[axis] \in Pans /\ mouse[axis] \in Nat /\ last_mouse_position_[axis] \in Nat
  BY <1>1 DEF MapTypes, Axes
<1>3. ASSUME NEW to \in Points PROVE Moved(axis, to) \in Pans
  <2>1. CASE pan_[axis] = NaN
    BY <2>1 DEF Moved, Pans
  <2>2. CASE pan_[axis] # NaN
    <3>1. pan_[axis] \in Int /\ to[axis] \in Nat
      BY <1>1, <1>2, <2>2 DEF Pans
    <3> QED BY <1>2, <2>2, <3>1 DEF Moved, Pans, Tenth
  <2> QED BY <2>1, <2>2
<1>4. ASSUME NEW scale \in Nat PROVE Repanned(axis, scale) \in Pans
  <2>1. CASE pan_[axis] = NaN
    BY <2>1 DEF Repanned, Pans
  <2>2. CASE pan_[axis] # NaN
    <3>1. pan_[axis] \in Int /\ scale_ \in Nat \ {0}
      BY <1>2, <2>2 DEF Pans, MapTypes
    <3>2. PICK off \in Int : off = Tenth * mouse[axis] - pan_[axis]
      BY <1>2, <3>1 DEF Tenth
    <3>3. (off * scale) \div scale_ \in Int
      BY <3>1
    <3>4. Repanned(axis, scale) = Tenth * mouse[axis] - (off * scale) \div scale_
      BY <2>2, <3>2, Zenon DEF Repanned
    <3> QED BY <1>2, <3>3, <3>4 DEF Pans, Tenth
  <2> QED BY <2>1, <2>2
<1> QED BY <1>1, <1>2, <1>3, <1>4

\* Every handler keeps the types and the drag's position.
LEMMA MapInvStep == MapInv /\ [MapNext]_mapVars => MapInv'
<1> SUFFICES ASSUME MapInv, [MapNext]_mapVars
             PROVE  MapTypes' /\ DragsFromMouse'
  BY FitIsCurrentStep DEF MapInv
<1> USE DEF MapInv
<1>1. CASE upsertDevices
  <2>1. PICK D \in (SUBSET MapDevices) \ {{}} : \E batch \in [D -> Positions] :
          map_devices' = Upserted(batch) /\ ViewBecomes(Refitted(Upserted(batch), map_size))
    BY <1>1 DEF upsertDevices
  <2>2. PICK batch \in [D -> Positions] :
          map_devices' = Upserted(batch) /\ ViewBecomes(Refitted(Upserted(batch), map_size))
    BY <2>1
  <2>3. IsFleet(Upserted(batch))
    BY <2>2 DEF Upserted, IsFleet, MapTypes
  <2>4. IsFleet(map_devices)'
    BY <2>2, <2>3 DEF IsFleet
  <2>5. scale_' \in Nat \ {0} /\ pan_' \in Pans \X Pans
    BY <2>2, <2>3, RefittedIs DEF ViewBecomes, IsView, MapTypes
  <2> QED BY <1>1, <2>4, <2>5 DEF upsertDevices, MapTypes, DragsFromMouse
<1>2. CASE resizeEvent
  <2>1. PICK size \in MapSizes : map_size' = size /\ ViewBecomes(Refitted(map_devices, size))
    BY <1>2 DEF resizeEvent
  <2>2. scale_' \in Nat \ {0} /\ pan_' \in Pans \X Pans
    BY <2>1, RefittedIs DEF ViewBecomes, IsView, MapTypes
  <2> QED BY <1>2, <2>1, <2>2 DEF resizeEvent, MapTypes, DragsFromMouse, IsFleet
<1>3. CASE mousePressEvent
  <2>1. mouse \in Nat \X Nat
    BY FleetMapAssumption DEF MapTypes
  <2> QED BY <1>3, <2>1 DEF mousePressEvent, MapTypes, DragsFromMouse, IsFleet, viewVars
<1>4. CASE mouseMoveEvent
  <2>1. PICK to \in Points : Drag(to) \/ Hover(to)
    BY <1>4 DEF mouseMoveEvent
  <2>2. CASE Drag(to)
    <3>1. pan_' = <<Moved(1, to), Moved(2, to)>> /\ to \in Nat \X Nat
      BY <2>2, FleetMapAssumption DEF Drag
    <3>2. Moved(1, to) \in Pans /\ Moved(2, to) \in Pans
      BY PanIs DEF Axes
    <3>3. pan_' \in Pans \X Pans
      BY <3>1, <3>2
    <3> QED BY <2>2, <3>1, <3>3 DEF Drag, MapTypes, DragsFromMouse, IsFleet
  <2>3. CASE Hover(to)
    BY <2>3 DEF Hover, MapTypes, DragsFromMouse, IsFleet, viewVars
  <2> QED BY <2>1, <2>2, <2>3
<1>5. CASE mouseReleaseEvent
  BY <1>5 DEF mouseReleaseEvent, MapTypes, DragsFromMouse, IsFleet, viewVars
<1>6. CASE mouseDoubleClickEvent
  <2>1. scale_' \in Nat \ {0} /\ pan_' \in Pans \X Pans
    BY <1>6, RefittedIs DEF mouseDoubleClickEvent, ViewBecomes, IsView, MapTypes
  <2> QED BY <1>6, <2>1 DEF mouseDoubleClickEvent, MapTypes, DragsFromMouse, IsFleet
<1>7. CASE wheelEvent
  <2>1. PICK in \in BOOLEAN :
          scale_' = Zoomed(in) /\ pan_' = <<Repanned(1, Zoomed(in)), Repanned(2, Zoomed(in))>>
    BY <1>7 DEF wheelEvent, ViewBecomes
  <2>2. Zoomed(in) \in Nat \ {0}
    BY ZoomedIs DEF MapTypes
  <2>3. Repanned(1, Zoomed(in)) \in Pans /\ Repanned(2, Zoomed(in)) \in Pans
    BY <2>2, PanIs DEF Axes
  <2>4. scale_' \in Nat \ {0} /\ pan_' \in Pans \X Pans
    BY <2>1, <2>2, <2>3
  <2> QED BY <1>7, <2>4 DEF wheelEvent, MapTypes, DragsFromMouse, IsFleet
<1>8. CASE UNCHANGED mapVars
  BY <1>8 DEF mapVars, viewVars, MapTypes, DragsFromMouse, IsFleet
<1> QED BY <1>1, <1>2, <1>3, <1>4, <1>5, <1>6, <1>7, <1>8 DEF MapNext

\* They hold at all times.
LEMMA MapInvariant == MapSpec => []MapInv
<1>1. MapInit => MapInv
  <2> SUFFICES ASSUME MapInit PROVE MapInv
    OBVIOUS
  <2>1. IsFleet(map_devices)
    BY DEF MapInit, IsFleet
  <2>2. scale_ = 10 /\ pan_ = <<0, 0>> /\ 0 \in Pans
    BY DEF MapInit, Tenth, Pans
  <2>3. FitIsCurrent
    BY DEF MapInit, FitIsCurrent, Fitted
  <2>4. last_mouse_position_ \in Nat \X Nat /\ pan_ \in Pans \X Pans
    BY <2>2 DEF MapInit
  <2>5. scale_ \in Nat \ {0} /\ dragging_ = FALSE /\ map_size \in MapSizes /\ mouse \in Points
    BY <2>2 DEF MapInit
  <2> QED BY <2>1, <2>3, <2>4, <2>5, Zenon DEF MapInv, MapTypes, DragsFromMouse
<1> QED BY <1>1, MapInvStep, PTL DEF MapSpec

\* What is under the mouse stays under it while the user drags and zooms, in any
\* order: the world point below the mouse moves by less than a rounded tenth.
THEOREM MouseHoldsPoint == MapSpec => PointUnderMouseStays
<1>1. ASSUME MapInv, [MapNext]_mapVars, ~auto_fit_enabled_', viewVars' # viewVars,
             NEW axis \in Axes
      PROVE  SamePoint(axis)
  <2>1. CASE pan_[axis] = NaN
    BY <2>1 DEF SamePoint
  <2>2. CASE pan_[axis] # NaN
    <3>1. PICK p \in Int : p = pan_[axis]
      BY <1>1, <2>2, PanIs DEF MapInv, Pans
    <3>2. PICK m \in Nat : m = mouse[axis]
      BY <1>1, PanIs DEF MapInv
    <3>3. PICK s \in Nat \ {0} : s = scale_
      BY <1>1 DEF MapInv, MapTypes
    <3>4. CASE mouseMoveEvent
      <4>1. PICK to \in Points : Drag(to)
        BY <1>1, <3>4 DEF mouseMoveEvent, Hover
      <4>2. last_mouse_position_ = mouse /\ scale_' = s /\ mouse' = to
        BY <1>1, <3>3, <4>1 DEF Drag, MapInv, DragsFromMouse
      <4>3. PICK t \in Nat : t = to[axis]
        BY <1>1, PanIs DEF MapInv
      <4>4. pan_'[axis] = p + 10 * (t - m)
        <5>1. pan_'[axis] = Moved(axis, to)
          BY <4>1 DEF Drag, Axes
        <5> QED BY <2>2, <3>1, <3>2, <4>2, <4>3, <5>1 DEF Moved, Tenth
      <4>5. (10 * m - p) * s - (10 * t - (p + 10 * (t - m))) * s \in -s .. s
        <5>1. 10 * t - (p + 10 * (t - m)) = 10 * m - p
          OBVIOUS
        <5>2. PICK k \in Int : k = (10 * m - p) * s
          OBVIOUS
        <5>3. k - k \in -s .. s
          OBVIOUS
        <5> QED BY <5>1, <5>2, <5>3
      <4> QED BY <3>1, <3>2, <3>3, <4>2, <4>3, <4>4, <4>5 DEF SamePoint, Tenth
    <3>5. CASE wheelEvent
      <4>1. PICK in \in BOOLEAN :
              scale_' = Zoomed(in) /\ pan_' = <<Repanned(1, Zoomed(in)), Repanned(2, Zoomed(in))>>
        BY <3>5 DEF wheelEvent, ViewBecomes
      <4>2. PICK z \in Nat : z = Zoomed(in)
        BY <3>3, ZoomedIs
      <4>3. PICK off \in Int : off = 10 * m - p
        <5>1. 10 * m - p \in Int
          OBVIOUS
        <5> QED BY <5>1
      <4>4. PICK k \in Int : k = (off * z) \div s
        OBVIOUS
      <4>5. pan_'[axis] = 10 * m - k
        <5>1. pan_'[axis] = Repanned(axis, z)
          BY <4>1, <4>2 DEF Axes
        <5> QED BY <2>2, <3>1, <3>2, <3>3, <4>3, <4>4, <5>1 DEF Repanned, Tenth
      <4>6. off * z - k * s \in -s .. s
        <5>1. PICK w \in Int : w = off * z
          OBVIOUS
        <5>2. PICK r \in 0 .. s - 1 : w = s * k + r
          BY <4>4, <5>1
        <5> QED BY <5>1, <5>2
      <4>7. mouse' = mouse /\ scale_' = z /\ 10 * m - (10 * m - k) = k
        BY <3>5, <4>1, <4>2 DEF wheelEvent
      <4> QED BY <3>1, <3>2, <3>3, <4>3, <4>5, <4>6, <4>7 DEF SamePoint, Tenth
    <3>6. CASE upsertDevices \/ resizeEvent
      <4>1. auto_fit_enabled_ = auto_fit_enabled_'
        BY <3>6 DEF upsertDevices, resizeEvent
      <4>2. ViewBecomes(View)
        BY <1>1, <3>6, <4>1 DEF upsertDevices, resizeEvent, Refitted
      <4> QED BY <1>1, <4>2, SameView
    <3>7. CASE mousePressEvent \/ mouseReleaseEvent \/ mouseDoubleClickEvent \/ UNCHANGED mapVars
      BY <1>1, <3>7 DEF mousePressEvent, mouseReleaseEvent, mouseDoubleClickEvent, mapVars
    <3> QED BY <1>1, <3>4, <3>5, <3>6, <3>7 DEF MapNext
  <2> QED BY <2>1, <2>2
<1>2. MapInv /\ [MapNext]_mapVars =>
        [~auto_fit_enabled_' /\ viewVars' # viewVars => \A axis \in Axes : SamePoint(axis)]_mapVars
  BY <1>1
<1> QED BY <1>2, MapInvariant, PTL DEF MapSpec, PointUnderMouseStays

\* worldToScreen() of a coordinate within the span is inside the plot area, with
\* the axis turned or not, when the scale is at most what fits 124 percent of it.
LEMMA MarkerInside ==
  ASSUME NEW low \in Int, NEW length \in Int, NEW span \in Nat \ {0},
         NEW first \in Int, NEW x \in Int, first <= x, x <= first + span,
         NEW scale \in Nat, scale <= (100 * length) \div (124 * span)
  PROVE  /\ x * scale + (2 * low + length - (2 * first + span) * scale) \div 2 \in low .. low + length
         /\ (2 * low + length + (2 * first + span) * scale) \div 2 - x * scale \in low .. low + length
<1>1. PICK k \in Nat : k = span * scale
  OBVIOUS
<1>2. k <= length
  <2>1. PICK whole \in Nat \ {0} : whole = 124 * span
    OBVIOUS
  <2>2. PICK q \in Int : q = (100 * length) \div whole
    OBVIOUS
  <2>3. whole * q <= 100 * length
    BY <2>2
  <2>4. scale <= q
    BY <2>1, <2>2
  <2>5. whole * scale <= whole * q
    BY <2>4
  <2>6. whole * scale = 124 * k
    BY <1>1, <2>1
  <2>7. PICK n \in Int : n = whole * q
    OBVIOUS
  <2>8. 124 * k <= n /\ n <= 100 * length
    BY <2>3, <2>5, <2>6, <2>7
  <2> QED BY <2>8
<1>3. PICK f \in Int : f = first * scale
  OBVIOUS
<1>4. PICK u \in Int : u = (x - first) * scale
  OBVIOUS
<1>5. u \in 0 .. k
  <2>1. PICK d \in 0 .. span : d = x - first
    OBVIOUS
  <2>2. u = d * scale /\ d * scale >= 0 /\ d * scale <= span * scale
    BY <1>4, <2>1
  <2> QED BY <1>1, <2>2
<1>6. x * scale = f + u /\ (2 * first + span) * scale = 2 * f + k
  BY <1>1, <1>3, <1>4
<1>7. f + u + (2 * low + length - (2 * f + k)) \div 2 \in low .. low + length
  BY <1>2, <1>5
<1>8. (2 * low + length + (2 * f + k)) \div 2 - (f + u) \in low .. low + length
  BY <1>2, <1>5
<1> QED BY <1>6, <1>7, <1>8

\* Auto fit shows the whole fleet: the padding, the limits of the scale, the turned
\* y axis and the rounding leave every finite marker inside the plot area, unless
\* the fleet is wider than the smallest scale can show.
THEOREM FleetIsShown == MapSpec => []FleetInView
<1>1. MapInv => FleetInView
  <2> SUFFICES ASSUME MapInv, Fitted,
                      \A d \in DOMAIN map_devices : map_devices[d] \in Coords \X Coords,
                      \A axis \in Axes : FitScale(axis, map_devices, map_size) >= 20,
                      NEW d \in DOMAIN map_devices
               PROVE  InPlot(d, 0)
    <3>1. 2 * Tenth = 20
      BY DEF Tenth
    <3> QED BY <3>1 DEF FleetInView
  <2>1. View = Fit(map_devices, map_size) /\ IsFleet(map_devices) /\ map_size \in MapSizes
    BY DEF MapInv, MapTypes, FitIsCurrent
  <2>2. PICK s \in 20 .. 800 : s = scale_
    BY <2>1, FitIs DEF View
  <2> DEFINE p == Screen(map_devices[d], View)
  <2>3. ASSUME NEW axis \in Axes
        PROVE  p[axis] \in PlotLow(axis) .. PlotLow(axis) + PlotLength(axis, map_size)
    <3>1. PICK low \in Int : low = PlotLow(axis)
      BY <2>1, FitScaleIs
    <3>2. PICK length \in Int : length = PlotLength(axis, map_size)
      BY <2>1, FitScaleIs
    <3>3. PICK x \in Int : x = map_devices[d][axis]
      BY FleetMapAssumption DEF Axes
    <3>4. x \in Coords
      BY <3>3 DEF Axes
    <3>5. Finite(axis, map_devices) /\ x \in Values(axis, map_devices)
      <4>1. \A e \in DOMAIN map_devices : map_devices[e][axis] \in Int
        BY FleetMapAssumption DEF Axes
      <4>2. Values(axis, map_devices) \subseteq Int
        BY <4>1 DEF Values
      <4> QED BY <3>3, <4>2, FleetMapAssumption DEF Finite, Values
    <3>6. PICK span \in Nat \ {0} : span = Span(axis, map_devices)
      BY <2>1, <3>5, SpanIs
    <3>7. PICK first \in Int : first = Least(Values(axis, map_devices))
      BY <2>1, <3>5, SpanIs
    <3>8. first <= x /\ x <= first + span
      BY <2>1, <3>5, <3>6, <3>7, SpanIs
    <3>9. s <= (100 * length) \div (124 * span)
      <4>1. FitScale(axis, map_devices, map_size) = (100 * length) \div (124 * span)
        BY <3>2, <3>5, <3>6, Zenon DEF FitScale
      <4>2. s <= FitScale(axis, map_devices, map_size)
        BY <2>1, <2>2, FitIs DEF View
      <4> QED BY <4>1, <4>2
    <3>10. PICK c \in Int : c = Centre2(axis, map_devices) /\ c = 2 * first + span
      BY <3>6, <3>7 DEF Centre2
    <3>11. pan_[axis] = ((2 * low + length) - (IF axis = 1 THEN 1 ELSE -1) * c * s) \div 2
      <4>1. pan_[axis] = FitPan(axis, map_devices, map_size, s)
        BY <2>1, <2>2, FitIs DEF View
      <4>2. DOMAIN map_devices # {} /\ Values(axis, map_devices) # {}
        BY <3>5
      <4>3. FitPan(axis, map_devices, map_size, s) =
              ((2 * PlotLow(axis) + PlotLength(axis, map_size))
               - (IF axis = 1 THEN 1 ELSE -1) * Centre2(axis, map_devices) * s) \div 2
        BY <3>5, <4>2, Zenon DEF FitPan
      <4> QED BY <3>1, <3>2, <3>10, <4>1, <4>3, Zenon
    <3>12. CASE axis = 1
      <4>1. PICK pan : pan = (2 * low + length - (2 * first + span) * s) \div 2
        OBVIOUS
      <4>2. pan \in Int /\ x * s + pan \in low .. low + length
        BY <3>8, <3>9, <4>1, MarkerInside
      <4>3. pan_[axis] = pan
        BY <3>10, <3>11, <3>12, <4>1
      <4>4. p[axis] = x * s + pan
        <5>1. pan_[axis] # NaN /\ map_devices[d][axis] \in Coords
          BY <3>3, <3>4, <4>2, <4>3, FleetMapAssumption
        <5> QED BY <2>2, <3>3, <3>12, <4>2, <4>3, <5>1 DEF Screen, View
      <4> QED BY <3>1, <3>2, <4>2, <4>4
    <3>13. CASE axis # 1
      <4>1. PICK pan : pan = (2 * low + length + (2 * first + span) * s) \div 2
        OBVIOUS
      <4>2. pan \in Int /\ pan - x * s \in low .. low + length
        BY <3>8, <3>9, <4>1, MarkerInside
      <4>3. pan_[axis] = pan
        <5>1. PICK k \in Int : k = (2 * first + span) * s
          OBVIOUS
        <5>2. (-1) * c * s = -k
          BY <3>10, <5>1
        <5>3. pan_[axis] = (2 * low + length - (-k)) \div 2
          BY <3>11, <3>13, <5>2
        <5>4. 2 * low + length - (-k) = 2 * low + length + k
          OBVIOUS
        <5> QED BY <4>1, <5>1, <5>3, <5>4
      <4>4. p[axis] = pan - x * s
        <5>1. pan_[axis] # NaN /\ map_devices[d][axis] \in Coords
          BY <3>3, <3>4, <4>2, <4>3, FleetMapAssumption
        <5>2. p[axis] = (-1) * x * s + pan
          BY <2>2, <3>3, <3>13, <4>2, <4>3, <5>1 DEF Screen, View
        <5> QED BY <4>2, <5>2
      <4> QED BY <3>1, <3>2, <4>2, <4>4
    <3> QED BY <3>12, <3>13
  <2>4. ASSUME NEW axis \in Axes
        PROVE  /\ p[axis] # NaN
               /\ p[axis] >= PlotLow(axis) - 0
               /\ p[axis] <= PlotLow(axis) + PlotLength(axis, map_size) + 0
    <3>1. PICK low \in Int : low = PlotLow(axis)
      BY <2>1, FitScaleIs
    <3>2. PICK high \in Int : high = PlotLow(axis) + PlotLength(axis, map_size)
      BY <2>1, FitScaleIs
    <3>3. PICK at \in Int : at = p[axis] /\ low <= at /\ at <= high
      BY <2>3, <3>1, <3>2
    <3> QED BY <3>1, <3>2, <3>3, FleetMapAssumption
  <2> QED BY <2>4 DEF InPlot
<1> QED BY <1>1, MapInvariant, PTL

-----------------------------------------------------------------------------
(* The series of the metrics chart.                                        *)

Sample == [msg_per_sec : Figures, active : Figures]
SeriesType ==
  samples_ \in Seq(Sample) /\ appended \in Seq(Sample) /\ appending \in BOOLEAN

\* The series is longer than the limit by one sample at most, inside appendSample.
Bounded ==
  Len(samples_) <= MaxSamples \/ (appending = TRUE /\ Len(samples_) = MaxSamples + 1)

\* The series is the end of all samples, and not cut more than the limit asks for.
SeriesInv ==
  /\ SeriesType
  /\ Len(samples_) <= Len(appended)
  /\ Len(samples_) >= MaxSamples \/ Len(samples_) = Len(appended)
  /\ Bounded
  /\ \A i \in 1 .. Len(samples_) : samples_[i] = appended[Len(appended) - Len(samples_) + i]

\* Every step of the two threads keeps the series.
LEMMA SeriesInvStep == SeriesInv /\ [ChartNext]_chartVars => SeriesInv'
<1> SUFFICES ASSUME SeriesInv, [ChartNext]_chartVars
             PROVE  SeriesInv'
  OBVIOUS
<1> USE ChartAssumption DEF SeriesType
<1>a. Len(samples_) \in Nat /\ Len(appended) \in Nat
  BY DEF SeriesInv
<1>1. CASE PushBack
  <2>1. PICK sample \in Sample :
          samples_' = Append(samples_, sample) /\ appended' = Append(appended, sample)
    BY <1>1 DEF PushBack, Sample
  <2>2. samples_' \in Seq(Sample) /\ appended' \in Seq(Sample) /\ appending' \in BOOLEAN
    BY <1>1, <2>1 DEF PushBack, SeriesInv
  <2>3. Len(samples_') = Len(samples_) + 1 /\ Len(appended') = Len(appended) + 1
    BY <2>1 DEF SeriesInv
  <2>4. \A i \in 1 .. Len(samples_') : samples_'[i] = appended'[Len(appended') - Len(samples_') + i]
    <3> SUFFICES ASSUME NEW i \in 1 .. Len(samples_) + 1
                 PROVE  samples_'[i] = appended'[Len(appended) - Len(samples_) + i]
      BY <1>a, <2>3
    <3>1. CASE i \in 1 .. Len(samples_)
      BY <1>a, <2>1, <3>1 DEF SeriesInv
    <3>2. CASE i = Len(samples_) + 1
      BY <1>a, <2>1, <3>2 DEF SeriesInv
    <3> QED BY <1>a, <3>1, <3>2
  <2>5. appending = FALSE /\ appending' = TRUE
    BY <1>1 DEF PushBack, SeriesInv
  <2>6. Bounded'
    BY <1>a, <2>3, <2>5 DEF Bounded, SeriesInv
  <2> QED BY <1>a, <2>2, <2>3, <2>4, <2>6 DEF SeriesInv
<1>2. CASE PopFront
  <2>1. samples_' = Tail(samples_) /\ appended' = appended /\ appending' = appending
        /\ Len(samples_) > MaxSamples
    BY <1>2 DEF PopFront, Trimmed, AboveLimit
  <2>2. /\ samples_' \in Seq(Sample) /\ Len(samples_') = Len(samples_) - 1
        /\ \A i \in 1 .. Len(samples_) - 1 : samples_'[i] = samples_[i + 1]
    BY <1>a, <2>1 DEF SeriesInv
  <2>3. \A i \in 1 .. Len(samples_') : samples_'[i] = appended'[Len(appended') - Len(samples_') + i]
    <3> SUFFICES ASSUME NEW i \in 1 .. Len(samples_) - 1
                 PROVE  samples_[i + 1] = appended[Len(appended) - Len(samples_) + (i + 1)]
      BY <1>a, <2>1, <2>2
    <3> QED BY <1>a DEF SeriesInv
  <2>4. appending' \in BOOLEAN /\ Len(samples_) = MaxSamples + 1
    BY <1>a, <2>1 DEF SeriesInv, Bounded
  <2>5. Bounded'
    BY <1>a, <2>2, <2>4 DEF Bounded
  <2>6. SeriesType'
    BY <2>1, <2>2, <2>4 DEF SeriesInv
  <2>7. /\ Len(samples_') <= Len(appended')
        /\ Len(samples_') >= MaxSamples \/ Len(samples_') = Len(appended')
    BY <1>a, <2>1, <2>2, <2>4 DEF SeriesInv
  <2> QED BY <2>3, <2>5, <2>6, <2>7 DEF SeriesInv
<1>3. CASE Update
  <2>1. UNCHANGED <<samples_, appended>> /\ appending' = FALSE /\ Len(samples_) <= MaxSamples
    BY <1>3, <1>a DEF Update, AboveLimit
  <2>2. SeriesType' /\ Bounded'
    BY <2>1 DEF SeriesInv, Bounded
  <2> QED BY <2>1, <2>2 DEF SeriesInv
<1>4. CASE PaintBegin \/ PaintEnd \/ Expose \/ UNCHANGED chartVars
  <2>1. UNCHANGED <<samples_, appended, appending>>
    BY <1>4 DEF PaintBegin, PaintEnd, Expose, chartVars
  <2> QED BY <2>1 DEF SeriesInv, Bounded
<1> QED BY <1>1, <1>2, <1>3, <1>4 DEF ChartNext

\* The series is kept at all times.
LEMMA SeriesInvariant == ChartSpec => []SeriesInv
<1>1. ChartInit => SeriesInv
  <2> SUFFICES ASSUME ChartInit PROVE SeriesInv
    OBVIOUS
  <2>1. samples_ = <<>> /\ appended = <<>> /\ appending = FALSE
    BY DEF ChartInit
  <2>2. SeriesType
    <3>1. <<>> \in Seq(Sample)
      OBVIOUS
    <3> QED BY <2>1, <3>1, Zenon DEF SeriesType
  <2>3. Len(samples_) = 0 /\ Len(appended) = 0
    BY <2>1
  <2> QED BY <2>2, <2>3, ChartAssumption DEF SeriesInv, Bounded
<1> QED BY <1>1, SeriesInvStep, PTL DEF ChartSpec

\* Between two calls of appendSample the series is the newest samples, in order.
THEOREM SeriesStaysRecent == ChartSpec => []SeriesIsRecent
<1>1. SeriesInv => SeriesIsRecent
  <2> SUFFICES ASSUME SeriesInv, ~appending
               PROVE  samples_ = Recent
    BY DEF SeriesIsRecent
  <2> DEFINE first == IF Len(appended) > MaxSamples THEN Len(appended) - MaxSamples + 1 ELSE 1
  <2>1. /\ Len(samples_) \in Nat /\ Len(appended) \in Nat /\ MaxSamples \in Nat \ {0}
        /\ Len(samples_) <= MaxSamples
    <3>1. appending # TRUE
      OBVIOUS
    <3> QED BY <3>1, ChartAssumption DEF SeriesInv, SeriesType, Bounded
  <2>2. first \in 1 .. Len(appended) + 1 /\ Len(samples_) = Len(appended) - first + 1
    <3>1. /\ Len(samples_) <= Len(appended)
          /\ Len(samples_) >= MaxSamples \/ Len(samples_) = Len(appended)
      BY DEF SeriesInv
    <3>2. CASE Len(appended) > MaxSamples
      BY <2>1, <3>1, <3>2
    <3>3. CASE ~(Len(appended) > MaxSamples)
      <4>1. Len(samples_) = Len(appended) /\ first = 1
        BY <2>1, <3>1, <3>3
      <4> QED BY <2>1, <4>1
    <3> QED BY <3>2, <3>3
  <2> HIDE DEF first
  <2>3. /\ SubSeq(appended, first, Len(appended)) \in Seq(Sample)
        /\ Len(SubSeq(appended, first, Len(appended))) = Len(samples_)
        /\ \A i \in 1 .. Len(samples_) :
             SubSeq(appended, first, Len(appended))[i] = appended[first + i - 1]
    BY <2>1, <2>2 DEF SeriesInv, SeriesType
  <2>4. \A i \in 1 .. Len(samples_) :
          samples_[i] = SubSeq(appended, first, Len(appended))[i]
    BY <2>1, <2>2, <2>3 DEF SeriesInv
  <2>5. samples_ = SubSeq(appended, first, Len(appended))
    BY <2>3, <2>4, SeqEqual DEF SeriesInv, SeriesType
  <2> QED BY <2>5 DEF Recent, first
<1> QED BY <1>1, SeriesInvariant, PTL

\* appendSample lets the series grow beyond the limit by one sample at most, and
\* only until it returns.
THEOREM SeriesIsBounded == ChartSpec => []Bounded
<1>1. SeriesInv => Bounded
  BY DEF SeriesInv
<1> QED BY <1>1, SeriesInvariant, PTL

-----------------------------------------------------------------------------
(* The lines of the metrics chart.                                         *)

\* The figures of a series have a bound.
LEMMA FiguresBounded ==
  ASSUME NEW n \in Nat, NEW f \in [1 .. n -> Nat]
  PROVE  \E b \in Nat : \A i \in 1 .. n : f[i] <= b
<1> DEFINE Bound(k) == \E b \in Nat : \A i \in 1 .. k : f[i] <= b
           Unbounded == {k \in Nat : k <= n /\ ~Bound(k)}
<1>1. Unbounded = {}
  <2> HIDE DEF Bound
  <2> SUFFICES ASSUME Unbounded # {} PROVE FALSE
    OBVIOUS
  <2>1. Unbounded \subseteq Nat
    OBVIOUS
  <2> HIDE DEF Unbounded
  <2>2. PICK k \in Unbounded : \A j \in Unbounded : k <= j
    BY <2>1, LeastNatural
  <2> USE DEF Unbounded
  <2>3. k \in Nat /\ k <= n /\ ~Bound(k)
    OBVIOUS
  <2>4. Bound(0)
    <3>1. 0 \in Nat /\ \A i \in 1 .. 0 : f[i] <= 0
      OBVIOUS
    <3> QED BY <3>1 DEF Bound
  <2>5. k # 0
    BY <2>3, <2>4
  <2>6. k - 1 \in Nat /\ k - 1 <= n /\ ~(k <= k - 1)
    BY <2>3, <2>5
  <2>7. k - 1 \notin Unbounded
    BY <2>2, <2>6
  <2>8. Bound(k - 1)
    BY <2>6, <2>7
  <2>9. PICK b \in Nat : \A i \in 1 .. k - 1 : f[i] <= b
    BY <2>8 DEF Bound
  <2>10. f[k] \in Nat
    BY <2>3, <2>5
  <2>11. b + f[k] \in Nat /\ \A i \in 1 .. k : f[i] <= b + f[k]
    <3>1. ASSUME NEW i \in 1 .. k PROVE f[i] <= b + f[k]
      <4>1. CASE i = k
        BY <2>10, <4>1
      <4>2. CASE i # k
        <5>1. i \in 1 .. k - 1 /\ i \in 1 .. n
          BY <2>3, <3>1, <4>2
        <5>2. f[i] <= b /\ f[i] \in Nat
          BY <2>9, <5>1
        <5> QED BY <2>10, <5>2
      <4> QED BY <4>1, <4>2
    <3> QED BY <2>10, <3>1
  <2>12. Bound(k)
    BY <2>11 DEF Bound
  <2> QED BY <2>3, <2>12
<1>2. Bound(n)
  <2> HIDE DEF Bound
  <2> QED BY <1>1
<1> QED BY <1>2

\* max_msg_rate() and max_active(): at least 1, no figure is above it, and it is
\* a figure of the series unless they are all 0.
LEMMA MaximumIs ==
  ASSUME NEW s \in Seq(Sample), NEW field \in {"msg_per_sec", "active"}
  PROVE  LET m == Maximum(s, field)
         IN /\ m \in Nat \ {0}
            /\ \A i \in 1 .. Len(s) : s[i][field] \in 0 .. m
            /\ (\E i \in 1 .. Len(s) : s[i][field] = m) \/ (\A i \in 1 .. Len(s) : s[i][field] = 0)
<1> DEFINE f == [i \in 1 .. Len(s) |-> s[i][field]]
           Tops == {m \in Nat : m >= 1 /\ \A i \in 1 .. Len(s) : m >= f[i]}
           Rates == {1} \cup {s[i][field] : i \in DOMAIN s}
<1>1. Len(s) \in Nat /\ DOMAIN s = 1 .. Len(s)
  OBVIOUS
<1>2. \A i \in 1 .. Len(s) : f[i] = s[i][field] /\ f[i] \in Nat
  <2> TAKE i \in 1 .. Len(s)
  <2>1. s[i] \in Sample
    BY <1>1
  <2> QED BY <2>1, ChartAssumption DEF Sample
<1> HIDE DEF f
<1>3. PICK b \in Nat : \A i \in 1 .. Len(s) : f[i] <= b
  <2>1. f \in [1 .. Len(s) -> Nat]
    BY <1>2 DEF f
  <2> QED BY <1>1, <2>1, FiguresBounded
<1>4. b + 1 \in Tops
  BY <1>2, <1>3
<1>5. PICK m \in Tops : \A c \in Tops : m <= c
  BY <1>4, LeastNatural
<1>6. m \in Rates
  <2> SUFFICES ASSUME m # 1, \A i \in 1 .. Len(s) : f[i] # m PROVE FALSE
    BY <1>1, <1>2
  <2>1. m - 1 \in Tops
    BY <1>2, <1>5
  <2> QED BY <1>5, <2>1
<1>7. m >= 1 /\ \A i \in DOMAIN s : m >= s[i][field]
  BY <1>1, <1>2, <1>5
<1> DEFINE top == Maximum(s, field)
<1>8. top \in Rates /\ top >= 1 /\ \A i \in DOMAIN s : top >= s[i][field]
  BY <1>6, <1>7 DEF Maximum
<1> HIDE DEF top
<1>9. top \in Nat \ {0} /\ \A i \in 1 .. Len(s) : s[i][field] \in 0 .. top
  BY <1>1, <1>2, <1>8
<1>10. ASSUME \A i \in 1 .. Len(s) : s[i][field] # top
       PROVE  \A i \in 1 .. Len(s) : s[i][field] = 0
  <2>1. top = 1
    BY <1>1, <1>8, <1>10
  <2> QED BY <1>9, <1>10, <2>1
<1> QED BY <1>9, <1>10 DEF top

\* A part of a length is between 0 and the length, and reaches both.
LEMMA PartOf ==
  ASSUME NEW w \in Nat, NEW b \in Nat \ {0}, NEW a \in 0 .. b
  PROVE  /\ (w * a) \div b \in 0 .. w
         /\ a = 0 => (w * a) \div b = 0
         /\ a = b => (w * a) \div b = w
<1> DEFINE p == w * a
           q == p \div b
           r == p % b
<1>1. p \in Nat /\ p <= w * b
  OBVIOUS
<1> HIDE DEF p
<1>2. q \in Nat /\ r \in 0 .. b - 1 /\ p = b * q + r
  BY <1>1
<1> HIDE DEF q, r
<1>3. q <= w
  <2> SUFFICES ASSUME w + 1 <= q PROVE FALSE
    BY <1>2
  <2>1. b * (w + 1) <= b * q
    BY <1>2
  <2> QED BY <1>1, <1>2, <2>1
<1>4. ASSUME a = 0 PROVE q = 0
  <2>1. p = 0
    BY <1>4 DEF p
  <2> SUFFICES ASSUME 1 <= q PROVE FALSE
    BY <1>2
  <2>2. b * 1 <= b * q
    BY <1>2
  <2> QED BY <1>2, <2>1, <2>2
<1>5. ASSUME a = b PROVE q = w
  <2>1. p = b * w
    BY <1>5 DEF p
  <2> SUFFICES ASSUME q + 1 <= w PROVE FALSE
    BY <1>2, <1>3
  <2>2. b * (q + 1) <= b * w
    BY <1>2
  <2> QED BY <1>2, <2>1, <2>2
<1> QED BY <1>2, <1>3, <1>4, <1>5 DEF p, q

\* The length of a sequence that is written as a function.
LEMMA LengthOf ==
  ASSUME NEW n \in Nat, NEW s, s = [i \in 1 .. n |-> s[i]]
  PROVE  Len(s) = n
<1> DEFINE T == {s[i] : i \in 1 .. n}
<1>1. s \in [1 .. n -> T]
  OBVIOUS
<1>2. s \in Seq(T)
  BY <1>1, SeqDef
<1>3. DOMAIN s = 1 .. Len(s) /\ Len(s) \in Nat
  BY <1>2, LenProperties
<1>4. 1 .. Len(s) = 1 .. n
  BY <1>1, <1>3
<1> QED BY <1>3, <1>4

\* build_path() of a series that is not empty.
LEMMA PathIs ==
  ASSUME NEW s \in Seq(Sample), s # <<>>, NEW field \in {"msg_per_sec", "active"}
  PROVE  PathFills(BuildPath(s, field)) /\ Len(BuildPath(s, field)) = Len(s)
<1> DEFINE path == BuildPath(s, field)
           n == Len(s)
           m == Maximum(s, field)
<1>1. n \in Nat \ {0} /\ DOMAIN s = 1 .. n
  OBVIOUS
<1>2. PICK g : g = Gaps(s)
  OBVIOUS
<1>3. /\ g \in Nat \ {0} /\ (n > 1 => g = n - 1)
      /\ \A i \in 1 .. n : i - 1 \in 0 .. g
  <2>1. g = IF n > 1 THEN n - 1 ELSE 1
    BY <1>2 DEF Gaps
  <2> HIDE DEF n
  <2>2. CASE n > 1
    BY <1>1, <2>1, <2>2
  <2>3. CASE ~(n > 1)
    <3>1. n = 1 /\ g = 1
      BY <1>1, <2>1, <2>3
    <3> QED BY <3>1
  <2> QED BY <2>2, <2>3
<1>4. /\ m \in Nat \ {0} /\ \A i \in 1 .. n : s[i][field] \in 0 .. m
      /\ (\E i \in 1 .. n : s[i][field] = m) \/ (\A i \in 1 .. n : s[i][field] = 0)
  BY MaximumIs
<1> HIDE DEF m, n
<1>5. path = [i \in 1 .. n |-> [x |-> (Width * (i - 1)) \div g, y |-> (Height * s[i][field]) \div m]]
  BY <1>1, <1>2 DEF BuildPath, m
<1> HIDE DEF path
<1>6. \A i \in 1 .. n : /\ path[i].x = (Width * (i - 1)) \div g
                        /\ path[i].y = (Height * s[i][field]) \div m
  BY <1>5
<1>7. Len(path) = n /\ DOMAIN path = 1 .. n
  <2>1. path = [i \in 1 .. n |-> path[i]]
    BY <1>5
  <2> QED BY <1>1, <2>1, LengthOf
<1>8. ASSUME NEW i \in 1 .. n PROVE path[i].x \in 0 .. Width /\ path[i].y \in 0 .. Height
  <2>1. i - 1 \in 0 .. g /\ s[i][field] \in 0 .. m
    BY <1>3, <1>4
  <2>2. (Width * (i - 1)) \div g \in 0 .. Width
    BY <1>3, <2>1, PartOf, ChartAssumption
  <2>3. (Height * s[i][field]) \div m \in 0 .. Height
    BY <1>4, <2>1, PartOf, ChartAssumption
  <2> QED BY <1>6, <2>2, <2>3
<1>9. path[1].x = 0
  <2>1. 1 \in 1 .. n /\ 1 - 1 = 0 /\ 0 \in 0 .. g
    BY <1>1, <1>3
  <2>2. (Width * 0) \div g = 0
    BY <1>3, <2>1, PartOf, ChartAssumption
  <2> QED BY <1>6, <2>1, <2>2
<1>10. ASSUME n > 1 PROVE Last(path).x = Width
  <2>1. n \in 1 .. n /\ n - 1 = g /\ g \in 0 .. g
    BY <1>1, <1>3, <1>10
  <2>2. (Width * g) \div g = Width
    BY <1>3, <2>1, PartOf, ChartAssumption
  <2>3. path[n].x = Width
    BY <1>6, <2>1, <2>2
  <2> QED BY <1>7, <2>3 DEF Last
<1>11. \/ \E i \in 1 .. n : path[i].y = Height
       \/ \A i \in 1 .. n : path[i].y = 0
  <2>1. CASE \E i \in 1 .. n : s[i][field] = m
    <3>1. PICK i \in 1 .. n : s[i][field] = m
      BY <2>1
    <3>2. m \in 0 .. m
      BY <1>4
    <3>3. (Height * m) \div m = Height
      BY <1>4, <3>2, PartOf, ChartAssumption
    <3> QED BY <1>6, <3>1, <3>3
  <2>2. CASE \A i \in 1 .. n : s[i][field] = 0
    <3>1. 0 \in 0 .. m
      BY <1>4
    <3>2. (Height * 0) \div m = 0
      BY <1>4, <3>1, PartOf, ChartAssumption
    <3> QED BY <1>6, <2>2, <3>2
  <2> QED BY <1>4, <2>1, <2>2
<1>12. PathFills(path)
  BY <1>7, <1>8, <1>9, <1>10, <1>11 DEF PathFills
<1> QED BY <1>7, <1>12 DEF path, n

\* A painting that met no append fills the plot area from the left edge to the
\* right one and to its top, and stays inside it: paintEvent's divisors and the
\* gaps of build_path() are right for every series.
THEOREM LinesReachTheEdges == ChartSpec => []LinesFillPlot
<1>1. ChartInit => LinesFillPlot
  BY DEF ChartInit, Blank, LinesFillPlot
<1>2. SeriesInv /\ LinesFillPlot /\ [ChartNext]_chartVars => LinesFillPlot'
  <2> SUFFICES ASSUME SeriesInv, LinesFillPlot, [ChartNext]_chartVars
               PROVE  LinesFillPlot'
    OBVIOUS
  <2>1. CASE PaintEnd
    <3>1. CASE overlap
      <4>1. drawn' = Undefined \/ drawn' = drawn
        BY <2>1, <3>1 DEF PaintEnd
      <4> QED BY <4>1 DEF Undefined, LinesFillPlot
    <3>2. CASE ~overlap /\ samples_ = <<>>
      <4>1. drawn' = Waiting
        BY <2>1, <3>2 DEF PaintEnd, Drawing
      <4> QED BY <4>1 DEF Waiting, LinesFillPlot
    <3>3. CASE ~overlap /\ samples_ # <<>>
      <4>1. /\ drawn'.msg_path = BuildPath(samples_, "msg_per_sec")
            /\ drawn'.active_path = BuildPath(samples_, "active")
        BY <2>1, <3>3 DEF PaintEnd, Drawing
      <4>2. /\ PathFills(BuildPath(samples_, "msg_per_sec")) /\ PathFills(BuildPath(samples_, "active"))
            /\ Len(BuildPath(samples_, "msg_per_sec")) = Len(samples_)
            /\ Len(BuildPath(samples_, "active")) = Len(samples_)
        BY <3>3, PathIs DEF SeriesInv, SeriesType
      <4> QED BY <4>1, <4>2 DEF LinesFillPlot
    <3> QED BY <3>1, <3>2, <3>3
  <2>2. CASE PushBack \/ PopFront \/ Update \/ PaintBegin \/ Expose \/ UNCHANGED chartVars
    <3>1. drawn' = drawn
      BY <2>2 DEF PushBack, PopFront, Update, PaintBegin, Expose, chartVars
    <3> QED BY <3>1 DEF LinesFillPlot
  <2> QED BY <2>1, <2>2 DEF ChartNext
<1> QED BY <1>1, <1>2, SeriesInvariant, PTL DEF ChartSpec

-----------------------------------------------------------------------------
(* The ages in the table and on the map.                                   *)

AgesTypes ==
  /\ now \in Nat /\ dirty \in BOOLEAN
  /\ table_due \in now .. now + Second /\ map_due \in now .. now + MapPeriod
  /\ IsFiniteSet(DOMAIN pending) /\ pending \in [DOMAIN pending -> States]
  /\ IsFiniteSet(DOMAIN table_devices)
  /\ table_devices \in [DOMAIN table_devices ->
                          [row : Nat, status : States, last_seen_ms : 0 .. now]]
  /\ snapshots = [d \in DOMAIN table_devices |-> table_devices[d].last_seen_ms]

\* Every device has a row, and its own.
RowsPlaced ==
  /\ rows = [i \in 1 .. Len(rows) |-> rows[i]]
  /\ Len(rows) = Cardinality(DOMAIN table_devices)
  /\ \A d \in DOMAIN table_devices : table_devices[d].row \in 1 .. Len(rows)
  /\ \A d, e \in DOMAIN table_devices : table_devices[d].row = table_devices[e].row => d = e

\* What waits for the next flush is newer than what the table holds.
LastSaid ==
  /\ DOMAIN pending \cup DOMAIN table_devices \subseteq DOMAIN arrived
  /\ \A d \in DOMAIN pending : pending[d] = arrived[d]
  /\ \A d \in DOMAIN table_devices \ DOMAIN pending : table_devices[d].status = arrived[d]

\* A row, and a marker that is not due, was right when its timer fired last.
RowAsOf(d, t) ==
  /\ table_devices[d].last_seen_ms <= t /\ table_due - Second <= t
  /\ rows[table_devices[d].row] = Row(d, table_devices[d].status, t - table_devices[d].last_seen_ms)
ShadeAsOf(d, t) ==
  /\ table_devices[d].last_seen_ms <= t /\ map_due - MapPeriod <= t
  /\ shades[d] = Shade(t - table_devices[d].last_seen_ms)
AgesShown ==
  /\ \A d \in DOMAIN table_devices : \E t \in 0 .. now : RowAsOf(d, t)
  /\ ~dirty => \A d \in DOMAIN table_devices : \E t \in 0 .. now : ShadeAsOf(d, t)

AgesInv == AgesTypes /\ RowsPlaced /\ LastSaid /\ AgesShown

\* A second more makes one more second of age at most.
LEMMA WholeSeconds ==
  ASSUME NEW early \in Nat, NEW late \in Nat, early <= late, late <= early + Second
  PROVE  AgeText(late) - AgeText(early) \in 0 .. 1
<1>1. Second \in Nat \ {0}
  BY AgesAssumption
<1> DEFINE p == early \div Second
           q == late \div Second
           r == early % Second
           s == late % Second
<1>2. /\ p \in Nat /\ q \in Nat /\ r \in 0 .. Second - 1 /\ s \in 0 .. Second - 1
      /\ early = Second * p + r /\ late = Second * q + s
  BY <1>1
<1> HIDE DEF p, q, r, s
<1>3. q >= p
  <2> SUFFICES ASSUME q + 1 <= p PROVE FALSE
    BY <1>2
  <2>1. Second * (q + 1) <= Second * p
    BY <1>1, <1>2
  <2> QED BY <1>1, <1>2, <2>1
<1>4. q <= p + 1
  <2> SUFFICES ASSUME p + 2 <= q PROVE FALSE
    BY <1>2
  <2>1. Second * (p + 2) <= Second * q
    BY <1>1, <1>2
  <2> QED BY <1>1, <1>2, <2>1
<1> QED BY <1>2, <1>3, <1>4 DEF AgeText, p, q

\* A row that is refreshed keeps what it says and whose it is.
LEMMA RowAgain ==
  ASSUME NEW d, NEW says, NEW s, NEW a, NEW g, NEW state, NEW age, NEW grey
  PROVE  [[id |-> d, says |-> says, state |-> s, age |-> a, grey |-> g]
            EXCEPT !.state = state, !.age = age, !.grey = grey]
         = [id |-> d, says |-> says, state |-> state, age |-> age, grey |-> grey]
<1>1. [[id |-> d, says |-> says, state |-> s, age |-> a, grey |-> g] EXCEPT !.state = state]
        = [id |-> d, says |-> says, state |-> state, age |-> a, grey |-> g]
  OBVIOUS
<1>2. [[id |-> d, says |-> says, state |-> state, age |-> a, grey |-> g] EXCEPT !.age = age]
        = [id |-> d, says |-> says, state |-> state, age |-> age, grey |-> g]
  OBVIOUS
<1>3. [[id |-> d, says |-> says, state |-> state, age |-> age, grey |-> g] EXCEPT !.grey = grey]
        = [id |-> d, says |-> says, state |-> state, age |-> age, grey |-> grey]
  OBVIOUS
<1> QED BY <1>1, <1>2, <1>3

\* refresh_table_ages() makes of a row what it would be if it were written now.
LEMMA RefreshedRow ==
  ASSUME NEW d, NEW info, NEW age
  PROVE  Refreshed(Row(d, info.status, age), info) = Row(d, info.status, now - info.last_seen_ms)
<1>1. PICK says, s, a, g : says = info.status /\ s = DisplayState(says, age) /\ a = AgeText(age) /\ g = Stale(age)
  OBVIOUS
<1>2. PICK n : n = now - info.last_seen_ms
  OBVIOUS
<1>3. PICK state, text, grey : state = DisplayState(says, n) /\ text = AgeText(n) /\ grey = Stale(n)
  OBVIOUS
<1>4. Refreshed(Row(d, says, age), info)
        = [[id |-> d, says |-> says, state |-> s, age |-> a, grey |-> g]
             EXCEPT !.state = state, !.age = text, !.grey = grey]
  BY <1>1, <1>2, <1>3, Zenon DEF Refreshed, Row
<1>5. Row(d, says, n) = [id |-> d, says |-> says, state |-> state, age |-> text, grey |-> grey]
  BY <1>3, Zenon DEF Row
<1> QED BY <1>1, <1>2, <1>4, <1>5, RowAgain, Zenon

\* Nothing is shown when the clock starts.
LEMMA AgesInvInit == AgesInit => AgesInv
<1> SUFFICES ASSUME AgesInit PROVE AgesInv
  OBVIOUS
<1>1. /\ DOMAIN pending = {} /\ DOMAIN table_devices = {} /\ DOMAIN snapshots = {} /\ DOMAIN arrived = {}
      /\ pending = [d \in {} |-> 0] /\ table_devices = [d \in {} |-> 0] /\ snapshots = [d \in {} |-> 0]
  BY DEF AgesInit, None
<1>2. IsFiniteSet({}) /\ Cardinality({}) = 0
  BY FS_EmptySet
<1>3. AgesTypes
  <2>1. now = 0 /\ dirty = FALSE /\ table_due \in 1 .. Second /\ map_due = 1
    BY DEF AgesInit, MapPeriod
  <2>4. dirty \in BOOLEAN
    BY <2>1
  <2>2. now \in Nat /\ table_due \in now .. now + Second /\ map_due \in now .. now + 1
    <3>1. Second \in Nat
      BY AgesAssumption
    <3>2. \A k \in 1 .. Second : k \in 0 .. 0 + Second
      BY <3>1
    <3> QED BY <2>1, <3>2
  <2>3. /\ pending \in [DOMAIN pending -> States]
        /\ table_devices \in [DOMAIN table_devices -> [row : Nat, status : States, last_seen_ms : 0 .. now]]
        /\ snapshots = [d \in DOMAIN table_devices |-> table_devices[d].last_seen_ms]
    BY <1>1
  <2> QED BY <1>1, <1>2, <2>2, <2>3, <2>4 DEF AgesTypes, MapPeriod
<1>4. RowsPlaced
  <2>1. rows = <<>> /\ Len(<<>>) = 0 /\ <<>> = [i \in 1 .. 0 |-> <<>>[i]]
    BY DEF AgesInit
  <2> QED BY <1>1, <1>2, <2>1 DEF RowsPlaced
<1> QED BY <1>1, <1>3, <1>4 DEF AgesInv, LastSaid, AgesShown

\* A status arrives: only what waits for the flush changes.
LEMMA AgesArrive ==
  ASSUME AgesInv, Arrives
  PROVE  AgesInv'
<1>1. PICK d \in TableDevices, state \in States :
        /\ pending' = Overlaid(pending, [e \in {d} |-> state])
        /\ arrived' = Overlaid(arrived, [e \in {d} |-> state])
  BY DEF Arrives
<1>2. UNCHANGED <<now, table_due, map_due, table_devices, rows, snapshots, dirty, shades>>
  BY DEF Arrives
<1>3. /\ DOMAIN pending' = DOMAIN pending \cup {d} /\ pending'[d] = state
      /\ \A e \in DOMAIN pending : e # d => pending'[e] = pending[e]
      /\ DOMAIN arrived' = DOMAIN arrived \cup {d} /\ arrived'[d] = state
      /\ \A e \in DOMAIN arrived : e # d => arrived'[e] = arrived[e]
  BY <1>1 DEF Overlaid
<1>4. AgesTypes'
  <2>1. IsFiniteSet(DOMAIN pending')
    BY <1>3, FS_AddElement DEF AgesInv, AgesTypes
  <2>2. pending' \in [DOMAIN pending' -> States]
    <3>1. pending' = [e \in DOMAIN pending' |-> pending'[e]]
      BY <1>1 DEF Overlaid
    <3>2. \A e \in DOMAIN pending' : pending'[e] \in States
      BY <1>3 DEF AgesInv, AgesTypes
    <3> QED BY <3>1, <3>2
  <2> QED BY <1>2, <2>1, <2>2 DEF AgesInv, AgesTypes
<1>5. LastSaid'
  BY <1>2, <1>3 DEF AgesInv, LastSaid
<1>6. RowsPlaced' /\ AgesShown'
  BY <1>2 DEF AgesInv, RowsPlaced, AgesShown, RowAsOf, ShadeAsOf, Row, DisplayState, Stale, AgeText, Shade
<1> QED BY <1>4, <1>5, <1>6 DEF AgesInv

\* The timers of the table and of the map, the painting and the clock.
LEMMA AgesTimers ==
  ASSUME AgesInv, TableTimer \/ MapTimer \/ PaintMap \/ Passes
  PROVE  AgesInv'
<1> DEFINE T == DOMAIN table_devices
<1>1. UNCHANGED <<pending, table_devices, snapshots, arrived>>
  BY DEF TableTimer, MapTimer, PaintMap, Passes
<1>2. /\ now \in Nat /\ table_due \in now .. now + Second /\ map_due \in now .. now + 1
      /\ table_due \in Nat /\ map_due \in Nat
      /\ Second \in Nat \ {0} /\ dirty \in BOOLEAN
      /\ \A d \in T : table_devices[d].last_seen_ms \in 0 .. now /\ snapshots[d] = table_devices[d].last_seen_ms
      /\ DOMAIN snapshots = T
  BY AgesAssumption DEF AgesInv, AgesTypes, MapPeriod
<1>3. LastSaid'
  BY <1>1 DEF AgesInv, LastSaid
<1>4. AgesTypes'
  <2>1. /\ now' \in Nat /\ now <= now' /\ dirty' \in BOOLEAN
        /\ table_due' \in now' .. now' + Second /\ map_due' \in now' .. now' + 1
    <3>1. CASE TableTimer
      BY <1>2, <3>1 DEF TableTimer
    <3>2. CASE MapTimer
      <4>1. map_due <= now /\ map_due' = now + 1 /\ UNCHANGED <<now, table_due>>
        BY <3>2 DEF MapTimer, MapPeriod
      <4>2. dirty' \in BOOLEAN
        BY <3>2 DEF MapTimer
      <4> QED BY <1>2, <4>1, <4>2
    <3>3. CASE PaintMap
      <4>1. dirty' = FALSE /\ UNCHANGED <<now, table_due, map_due>>
        BY <3>3 DEF PaintMap
      <4>2. dirty' \in BOOLEAN
        BY <4>1
      <4> QED BY <1>2, <4>1, <4>2
    <3>4. CASE Passes
      <4>1. /\ now' = now + 1 /\ now < table_due /\ now < map_due
            /\ UNCHANGED <<table_due, map_due, dirty>>
        BY <3>4 DEF Passes
      <4> QED BY <1>2, <4>1
    <3> QED BY <3>1, <3>2, <3>3, <3>4
  <2>2. table_devices' \in [DOMAIN table_devices' -> [row : Nat, status : States, last_seen_ms : 0 .. now']]
    <3>1. 0 .. now \subseteq 0 .. now'
      BY <1>2, <2>1
    <3>2. table_devices \in [T -> [row : Nat, status : States, last_seen_ms : 0 .. now]]
      BY DEF AgesInv, AgesTypes
    <3> QED BY <1>1, <3>1, <3>2
  <2> QED BY <1>1, <2>1, <2>2 DEF AgesInv, AgesTypes, MapPeriod
<1>5. RowsPlaced' /\ \A d \in T : \E t \in 0 .. now' : RowAsOf(d, t)'
  <2>1. CASE TableTimer
    <3>1. /\ table_due' = now + Second /\ now' = now
          /\ rows' = [i \in DOMAIN rows |->
                LET d == CHOOSE e \in T : table_devices[e].row = i
                IN Refreshed(rows[i], table_devices[d])]
      BY <2>1 DEF TableTimer
    <3>2. DOMAIN rows = 1 .. Len(rows) /\ Len(rows) \in Nat
      BY FS_CardinalityType DEF AgesInv, AgesTypes, RowsPlaced
    <3>3. rows' = [i \in 1 .. Len(rows) |-> rows'[i]] /\ Len(rows') = Len(rows)
      <4>1. rows' = [i \in 1 .. Len(rows) |-> rows'[i]]
        BY <3>1, <3>2
      <4> QED BY <3>2, <4>1, LengthOf
    <3>4. RowsPlaced'
      BY <1>1, <3>3 DEF AgesInv, RowsPlaced
    <3>5. PICK n \in 0 .. now' : n = now
      BY <1>2, <3>1
    <3>6. ASSUME NEW d \in T
          PROVE  RowAsOf(d, n)'
      <4>1. PICK info : info = table_devices[d]
        OBVIOUS
      <4>2. info.row \in 1 .. Len(rows) /\ (CHOOSE e \in T : table_devices[e].row = info.row) = d
        BY <4>1 DEF AgesInv, RowsPlaced
      <4>3. rows'[info.row] = Refreshed(rows[info.row], info)
        BY <3>1, <3>2, <4>1, <4>2
      <4>4. PICK t : RowAsOf(d, t)
        BY DEF AgesInv, AgesShown
      <4>5. rows[info.row] = Row(d, info.status, t - info.last_seen_ms)
        BY <4>1, <4>4 DEF RowAsOf
      <4>6. rows'[info.row] = Row(d, info.status, now - info.last_seen_ms)
        BY <4>3, <4>5, RefreshedRow
      <4>7. table_devices'[d] = info /\ info.last_seen_ms <= now
        BY <1>1, <1>2, <4>1
      <4> QED BY <1>2, <3>1, <3>5, <4>6, <4>7 DEF RowAsOf, Row, DisplayState, Stale, AgeText
    <3> QED BY <3>4, <3>6
  <2>2. CASE UNCHANGED <<rows, table_due>>
    <3>1. now <= now' /\ now' \in Nat
      BY <1>2 DEF TableTimer, MapTimer, PaintMap, Passes
    <3>2. ASSUME NEW d \in T
          PROVE  \E t \in 0 .. now' : RowAsOf(d, t)'
      <4>1. PICK t \in 0 .. now : RowAsOf(d, t)
        BY DEF AgesInv, AgesShown
      <4>2. t \in 0 .. now'
        BY <1>2, <3>1
      <4>3. RowAsOf(d, t)'
        BY <1>1, <2>2, <4>1 DEF RowAsOf, Row, DisplayState, Stale, AgeText
      <4> QED BY <4>2, <4>3
    <3> QED BY <1>1, <2>2, <3>2 DEF AgesInv, RowsPlaced
  <2> QED BY <2>1, <2>2 DEF MapTimer, PaintMap, Passes
<1>6. ASSUME ~dirty', NEW d \in T
      PROVE  \E t \in 0 .. now' : ShadeAsOf(d, t)'
  <2>1. CASE PaintMap
    <3>1. now' = now /\ map_due' = map_due /\ shades'[d] = Shade(now - snapshots[d])
      BY <1>2, <2>1 DEF PaintMap
    <3>2. PICK n \in 0 .. now' : n = now
      BY <1>2, <3>1
    <3>3. ShadeAsOf(d, n)'
      BY <1>1, <1>2, <3>1, <3>2 DEF ShadeAsOf, Shade, MapPeriod
    <3> QED BY <3>3
  <2>2. CASE MapTimer
    <3>1. snapshots = None
      BY <1>6, <2>2 DEF MapTimer
    <3> QED BY <1>2, <1>6, <3>1 DEF None
  <2>3. CASE UNCHANGED <<shades, map_due, dirty>>
    <3>1. now <= now' /\ now' \in Nat
      BY <1>2 DEF TableTimer, MapTimer, PaintMap, Passes
    <3>2. PICK t \in 0 .. now : ShadeAsOf(d, t)
      BY <1>6, <2>3 DEF AgesInv, AgesShown
    <3>3. t \in 0 .. now'
      BY <1>2, <3>1
    <3>4. ShadeAsOf(d, t)'
      BY <1>1, <2>3, <3>2 DEF ShadeAsOf, Shade
    <3> QED BY <3>3, <3>4
  <2> QED BY <2>1, <2>2, <2>3 DEF TableTimer, Passes
<1> QED BY <1>1, <1>3, <1>4, <1>5, <1>6 DEF AgesInv, AgesShown

\* The flush writes the rows of what has arrived, old ones and new ones.
LEMMA AgesFlush ==
  ASSUME AgesInv, Flushes
  PROVE  AgesInv'
<1> DEFINE T == DOMAIN table_devices
           P == DOMAIN pending
           fresh == P \ T
           N == Len(rows)
           info(d) == table_devices'[d]
<1>1. /\ now \in Nat /\ IsFiniteSet(P) /\ IsFiniteSet(T) /\ N = Cardinality(T) /\ N \in Nat
      /\ table_devices \in [T -> [row : Nat, status : States, last_seen_ms : 0 .. now]]
      /\ \A d \in P : pending[d] \in States
      /\ snapshots = [d \in T |-> table_devices[d].last_seen_ms]
      /\ \A d \in T : table_devices[d].row \in 1 .. N
      /\ \A d, e \in T : table_devices[d].row = table_devices[e].row => d = e
  BY FS_CardinalityType DEF AgesInv, AgesTypes, RowsPlaced
<1>2. PICK place \in Places(fresh) :
        table_devices' = Overlaid(table_devices,
          [d \in P |-> [row |-> IF d \in DOMAIN place THEN place[d] ELSE table_devices[d].row,
                        status |-> pending[d], last_seen_ms |-> now]])
  BY DEF Flushes
<1>3. /\ snapshots' = Overlaid(snapshots, [d \in P |-> now]) /\ dirty' = TRUE /\ pending' = None
      /\ UNCHANGED <<now, table_due, map_due, shades, arrived>>
  BY DEF Flushes
<1>4. PICK k \in Nat : k = Cardinality(fresh)
  BY <1>1, FS_Difference, FS_CardinalityType
<1>5. /\ place \in [fresh -> N + 1 .. N + k]
      /\ \A d, e \in fresh : place[d] = place[e] => d = e
  BY <1>2, <1>4 DEF Places
<1>6. /\ DOMAIN table_devices' = T \cup P
      /\ \A d \in fresh : info(d) = [row |-> place[d], status |-> pending[d], last_seen_ms |-> now]
      /\ \A d \in P \cap T : info(d) = [row |-> table_devices[d].row, status |-> pending[d],
                                        last_seen_ms |-> now]
      /\ \A d \in T \ P : info(d) = table_devices[d]
  BY <1>2, <1>5 DEF Overlaid
<1>7. IsFiniteSet(T \cup P) /\ Cardinality(T \cup P) = N + k
  <2>1. T \cup P = T \cup fresh /\ T \cap fresh = {}
    OBVIOUS
  <2>2. IsFiniteSet(fresh) /\ IsFiniteSet(T \cup P)
    BY <1>1, FS_Difference, FS_Union
  <2>3. Cardinality(T \cup fresh) = Cardinality(T) + Cardinality(fresh) - Cardinality({})
    BY <1>1, <2>1, <2>2, FS_Union
  <2>4. Cardinality({}) = 0
    BY FS_EmptySet
  <2>5. Cardinality(T \cup P) = Cardinality(T \cup fresh)
    BY <2>1, Zenon
  <2>6. PICK m : m = Cardinality(T \cup fresh)
    OBVIOUS
  <2>7. m = N + k
    BY <1>1, <1>4, <2>3, <2>4, <2>6
  <2> QED BY <2>2, <2>5, <2>6, <2>7
<1>8. \A d \in T \cup P : /\ info(d).row \in 1 .. N + k
                          /\ info(d).status \in States /\ info(d).last_seen_ms \in 0 .. now
                          /\ d \in P => info(d).status = pending[d] /\ info(d).last_seen_ms = now
                          /\ d \in T => info(d).row = table_devices[d].row
                          /\ d \in fresh => info(d).row \in N + 1 .. N + k
  <2> SUFFICES ASSUME NEW d \in T \cup P, NEW i, i = info(d)
               PROVE  /\ i.row \in 1 .. N + k /\ i.status \in States /\ i.last_seen_ms \in 0 .. now
                      /\ d \in P => i.status = pending[d] /\ i.last_seen_ms = now
                      /\ d \in T => i.row = table_devices[d].row
                      /\ d \in fresh => i.row \in N + 1 .. N + k
    OBVIOUS
  <2> HIDE DEF info
  <2>1. CASE d \in fresh
    <3>1. i = [row |-> place[d], status |-> pending[d], last_seen_ms |-> now] /\ place[d] \in N + 1 .. N + k
      BY <1>5, <1>6, <2>1
    <3>2. i.row = place[d] /\ i.status = pending[d] /\ i.last_seen_ms = now
      BY <3>1
    <3> QED BY <1>1, <1>4, <2>1, <3>1, <3>2
  <2>2. CASE d \in P \cap T
    <3>1. i = [row |-> table_devices[d].row, status |-> pending[d], last_seen_ms |-> now]
      BY <1>6, <2>2
    <3>2. i.row = table_devices[d].row /\ i.status = pending[d] /\ i.last_seen_ms = now
      BY <3>1
    <3> QED BY <1>1, <1>4, <2>2, <3>2
  <2>3. CASE d \in T \ P
    <3>1. i = table_devices[d] /\ i \in [row : Nat, status : States, last_seen_ms : 0 .. now]
      BY <1>1, <1>6, <2>3
    <3> QED BY <1>1, <1>4, <2>3, <3>1
  <2> QED BY <2>1, <2>2, <2>3
<1>9. ASSUME NEW d \in T \cup P, NEW e \in T \cup P, info(d).row = info(e).row
      PROVE  d = e
  <2>1. CASE d \in T /\ e \in T
    BY <1>1, <1>8, <1>9, <2>1
  <2>2. CASE d \in fresh /\ e \in fresh
    BY <1>5, <1>6, <1>9, <2>2
  <2>3. CASE (d \in fresh /\ e \in T) \/ (d \in T /\ e \in fresh)
    BY <1>1, <1>4, <1>8, <1>9, <2>3
  <2> QED BY <2>1, <2>2, <2>3
<1>10. table_devices' \in [T \cup P -> [row : Nat, status : States, last_seen_ms : 0 .. now]]
  <2>1. ASSUME NEW d \in T \cup P
        PROVE  info(d) \in [row : Nat, status : States, last_seen_ms : 0 .. now]
    <3>1. CASE d \in T \ P
      BY <1>1, <1>6, <3>1
    <3>2. CASE d \in P
      <4>1. PICK r, s, t : info(d) = [row |-> r, status |-> s, last_seen_ms |-> t]
        BY <1>6, <3>2
      <4>2. r \in Nat /\ s \in States /\ t \in 0 .. now
        BY <1>1, <1>4, <1>8, <4>1
      <4> QED BY <4>1, <4>2
    <3> QED BY <3>1, <3>2
  <2>2. table_devices' = [d \in T \cup P |-> info(d)]
    BY <1>2, <1>6 DEF Overlaid
  <2> HIDE DEF info
  <2> QED BY <2>1, <2>2
<1>11. AgesTypes'
  <2>1. snapshots' = [d \in T \cup P |-> info(d).last_seen_ms]
    BY <1>1, <1>3, <1>6 DEF Overlaid
  <2>2. IsFiniteSet(DOMAIN pending') /\ pending' \in [DOMAIN pending' -> States]
    BY <1>3, FS_EmptySet DEF None
  <2>3. dirty' \in BOOLEAN
    BY <1>3
  <2> QED BY <1>3, <1>6, <1>7, <1>10, <2>1, <2>2, <2>3 DEF AgesInv, AgesTypes
<1>12. /\ rows' = [i \in 1 .. N + k |-> rows'[i]] /\ Len(rows') = N + k
       /\ \A i \in 1 .. N + k :
            /\ \A d \in P : info(d).row = i => rows'[i] = Row(d, pending[d], 0)
            /\ (\A d \in P : info(d).row # i) => rows'[i] = rows[i]
  <2>1. rows' = [i \in 1 .. N + k |->
                  IF \E d \in P : info(d).row = i
                  THEN LET d == CHOOSE e \in P : info(e).row = i IN WrittenRow(d, pending[d])
                  ELSE rows[i]]
    BY <1>6, <1>7 DEF Flushes
  <2>2. rows' = [i \in 1 .. N + k |-> rows'[i]]
    BY <2>1
  <2>3. Len(rows') = N + k
    BY <1>1, <1>4, <2>2, LengthOf
  <2>4. ASSUME NEW i \in 1 .. N + k, NEW d \in P, info(d).row = i
        PROVE  rows'[i] = Row(d, pending[d], 0)
    <3>1. (CHOOSE e \in P : info(e).row = i) = d
      BY <1>9, <2>4
    <3> QED BY <2>1, <2>4, <3>1 DEF WrittenRow
  <2> HIDE DEF info
  <2>5. ASSUME NEW i \in 1 .. N + k, \A d \in P : info(d).row # i
        PROVE  rows'[i] = rows[i]
    BY <2>1, <2>5
  <2> QED BY <2>2, <2>3, <2>4, <2>5
<1>13. RowsPlaced'
  BY <1>6, <1>7, <1>8, <1>9, <1>12 DEF RowsPlaced
<1>14. LastSaid'
  BY <1>3, <1>6, <1>8 DEF AgesInv, LastSaid, None
<1>15. ASSUME NEW d \in T \cup P
       PROVE  \E t \in 0 .. now' : RowAsOf(d, t)'
  <2>1. CASE d \in P
    <3>1. PICK n \in 0 .. now' : n = now
      BY <1>1, <1>3
    <3>2. rows'[info(d).row] = Row(d, info(d).status, n - info(d).last_seen_ms)
      <4>1. rows'[info(d).row] = Row(d, pending[d], 0)
        BY <1>8, <1>12, <2>1
      <4>2. info(d).status = pending[d] /\ n - info(d).last_seen_ms = 0
        BY <1>1, <1>8, <2>1, <3>1
      <4> QED BY <4>1, <4>2
    <3>3. info(d).last_seen_ms <= n /\ table_due' - Second <= n
      <4>1. Second \in Nat /\ table_due \in now .. now + Second
        BY AgesAssumption DEF AgesInv, AgesTypes
      <4> QED BY <1>1, <1>3, <1>8, <2>1, <3>1, <4>1
    <3>4. RowAsOf(d, n)'
      BY <1>3, <3>2, <3>3 DEF RowAsOf, Row, DisplayState, Stale, AgeText
    <3> QED BY <3>4
  <2>2. CASE d \notin P
    <3>1. PICK t \in 0 .. now : RowAsOf(d, t)
      BY <2>2 DEF AgesInv, AgesShown
    <3>2. info(d) = table_devices[d] /\ info(d).row \in 1 .. N + k /\ d \in T
      BY <1>6, <1>8, <2>2
    <3>3. \A e \in P : info(e).row # info(d).row
      BY <1>9, <2>2
    <3>4. rows'[info(d).row] = rows[info(d).row]
      BY <1>12, <3>2, <3>3
    <3>5. RowAsOf(d, t)'
      BY <1>3, <3>1, <3>2, <3>4 DEF RowAsOf, Row, DisplayState, Stale, AgeText
    <3> QED BY <1>3, <3>5
  <2> QED BY <2>1, <2>2
<1> QED BY <1>3, <1>6, <1>11, <1>13, <1>14, <1>15 DEF AgesInv, AgesShown

\* Every reachable state of the two widgets' ages.
LEMMA AgesInvariant == AgesSpec => []AgesInv
<1>1. AgesInv /\ [AgesNext]_agesVars => AgesInv'
  <2>1. CASE UNCHANGED agesVars
    BY <2>1 DEF agesVars, AgesInv, AgesTypes, RowsPlaced, LastSaid, AgesShown, RowAsOf, ShadeAsOf,
                Row, DisplayState, Stale, AgeText, Shade
  <2> QED BY <2>1, AgesArrive, AgesFlush, AgesTimers DEF AgesNext
<1> QED BY <1>1, AgesInvInit, PTL DEF AgesSpec

\* The table and the map call a silent device stale, and neither does too soon:
\* refresh_table_ages() and the repainting bring each row and marker up to date
\* once a period, and a flush in between starts the age of its devices again.
THEOREM StaleInGoodTime == AgesSpec => []StaleInTime
<1>1. AgesInv => StaleInTime
  <2> SUFFICES ASSUME AgesInv PROVE StaleInTime
    OBVIOUS
  <2>1. Len(rows) = Cardinality(DOMAIN table_devices)
    BY DEF AgesInv, RowsPlaced
  <2>2. /\ now \in Nat /\ table_due \in now .. now + Second /\ map_due \in now .. now + 1
        /\ Second \in Nat \ {0} /\ StaleAge \in Nat /\ FreshAge \in Nat /\ FreshAge < StaleAge
        /\ "STALE" \notin States
    BY AgesAssumption DEF AgesInv, AgesTypes, MapPeriod
  <2>3. ASSUME NEW d \in DOMAIN table_devices
        PROVE  RowTells(d, rows[table_devices[d].row])
    <3>1. PICK info : info = table_devices[d]
      OBVIOUS
    <3>2. info.status \in States /\ info.last_seen_ms \in 0 .. now
      BY <3>1 DEF AgesInv, AgesTypes
    <3>3. PICK t \in 0 .. now : RowAsOf(d, t)
      BY DEF AgesInv, AgesShown
    <3>4. PICK early \in Nat : early = t - info.last_seen_ms
      BY <2>2, <3>1, <3>2, <3>3 DEF RowAsOf
    <3>5. PICK late \in Nat : late = now - info.last_seen_ms
      BY <2>2, <3>2
    <3>6. early <= late /\ late <= early + Second
      BY <2>2, <3>1, <3>2, <3>3, <3>4, <3>5 DEF RowAsOf
    <3>7. PICK row : row = rows[info.row]
      OBVIOUS
    <3>8. row = Row(d, info.status, early)
      BY <3>1, <3>3, <3>4, <3>7 DEF RowAsOf
    <3>9. /\ row.id = d /\ row.says = info.status /\ row.age = AgeText(early)
          /\ row.state = (IF early > StaleAge THEN "STALE" ELSE info.status)
          /\ row.grey = (early > StaleAge)
      BY <3>8 DEF Row, DisplayState, Stale
    <3>10. d \notin DOMAIN pending => row.says = arrived[d]
      BY <3>1, <3>9 DEF AgesInv, LastSaid
    <3>11. row.grey <=> row.state = "STALE"
      BY <2>2, <3>2, <3>9
    <3>12. /\ late <= StaleAge => row.state = row.says
           /\ late > StaleAge + Second => row.state = "STALE"
      BY <2>2, <3>6, <3>9
    <3>13. AgeText(late) - row.age \in 0 .. 1
      BY <3>6, <3>9, WholeSeconds
    <3>14. Silence(d) = late
      BY <3>1, <3>5 DEF Silence
    <3> QED BY <3>1, <3>7, <3>9, <3>10, <3>11, <3>12, <3>13, <3>14 DEF RowTells
  <2>4. ASSUME ~dirty, NEW d \in DOMAIN table_devices
        PROVE  MapTells(d)
    <3>1. PICK info : info = table_devices[d]
      OBVIOUS
    <3>2. info.last_seen_ms \in 0 .. now
      BY <3>1 DEF AgesInv, AgesTypes
    <3>3. PICK t \in 0 .. now : ShadeAsOf(d, t)
      BY <2>4 DEF AgesInv, AgesShown
    <3>4. PICK early \in Nat : early = t - info.last_seen_ms
      BY <2>2, <3>1, <3>2, <3>3 DEF ShadeAsOf
    <3>5. PICK late \in Nat : late = now - info.last_seen_ms
      BY <2>2, <3>2
    <3>6. early <= late /\ late <= early + 1
      BY <2>2, <3>1, <3>2, <3>3, <3>4, <3>5 DEF ShadeAsOf, MapPeriod
    <3>7. shades[d] = Shade(early)
      BY <3>1, <3>3, <3>4 DEF ShadeAsOf
    <3>8. Silence(d) = late
      BY <3>1, <3>5 DEF Silence
    <3> QED BY <2>2, <3>6, <3>7, <3>8 DEF MapTells, Shade, MapPeriod
  <2> QED BY <2>1, <2>3, <2>4 DEF StaleInTime
<1> QED BY <1>1, AgesInvariant, PTL
=============================================================================
