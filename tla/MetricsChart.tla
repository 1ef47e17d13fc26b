---------------------------- MODULE MetricsChart ----------------------------
(***************************************************************************)
(* MetricsChartWidget of apps/viewer.  appendSample runs in the worker     *)
(* thread, as metricsReceived is connected to a lambda without a receiver; *)
(* paintEvent runs in the UI thread.  Nothing locks samples_, and update() *)
(* may be called in the UI thread only: what a painting draws that         *)
(* overlaps an append is undefined, a call of update() may be lost, and    *)
(* either may bring the program down.                                      *)
(***************************************************************************)
EXTENDS Integers, Sequences, FiniteSets, SequencesExt

CONSTANTS
  MaxSamples,   \* kMaxSamples
  SampleLimit,  \* bound: how many METRICS lines arrive
  Figures,      \* values of msg_per_sec and of active
  Width, Height \* the plot area, in pixels

ASSUME ChartAssumption ==
  /\ MaxSamples \in Nat \ {0} /\ SampleLimit \in Nat
  /\ Figures \subseteq Nat /\ Width \in Nat \ {0} /\ Height \in Nat \ {0}

VARIABLES
  samples_,
  appending,  \* the worker is inside appendSample
  painting,   \* the UI thread is inside paintEvent
  repaint,    \* update() was called and paintEvent not yet
  overlap,    \* the painting under way met an append
  drawn,      \* what the widget shows
  appended,   \* every sample so far
  crashed     \* the program is gone
chartVars == <<samples_, appending, painting, repaint, overlap, drawn, appended, crashed>>

Blank == [kind |-> "nothing"]
Undefined == [kind |-> "undefined"]
Waiting == [kind |-> "Waiting for metrics"]

ChartInit ==
  /\ samples_ = <<>> /\ appended = <<>>
  /\ appending = FALSE /\ painting = FALSE
  /\ repaint = TRUE /\ overlap = FALSE
  /\ drawn = Blank /\ crashed = FALSE

-----------------------------------------------------------------------------
(* appendSample                                                            *)

PushBack ==
  /\ ~crashed /\ ~appending /\ Len(appended) < SampleLimit
  /\ \E rate, active \in Figures :
       LET sample == [msg_per_sec |-> rate, active |-> active]
       IN samples_' = Append(samples_, sample) /\ appended' = Append(appended, sample)
  /\ appending' = TRUE
  /\ overlap' = painting
  /\ UNCHANGED <<painting, repaint, drawn, crashed>>

AboveLimit == Len(samples_) > MaxSamples

\* Fault: pop_back() for pop_front().
NewestDropped(samples) == Front(samples)

Trimmed(samples) == Tail(samples)

PopFront ==
  /\ ~crashed /\ appending /\ AboveLimit
  /\ samples_' = Trimmed(samples_)
  /\ overlap' = painting
  /\ UNCHANGED <<appending, painting, repaint, drawn, appended, crashed>>

\* update(), and the return.  Out of the worker it asks for a painting, or does
\* not, or ends the program in the window's own bookkeeping.
Update ==
  /\ ~crashed /\ appending /\ ~AboveLimit
  /\ \/ repaint' \in {repaint, TRUE} /\ UNCHANGED crashed
     \/ crashed' = TRUE /\ UNCHANGED repaint
  /\ appending' = FALSE
  /\ UNCHANGED <<samples_, painting, overlap, drawn, appended>>

-----------------------------------------------------------------------------
(* paintEvent                                                              *)

\* max_msg_rate() and max_active(): the divisor is never 0.
Maximum(samples, field) ==
  CHOOSE m \in {1} \cup {samples[i][field] : i \in DOMAIN samples} :
    m >= 1 /\ \A i \in DOMAIN samples : m >= samples[i][field]

\* Fault: the number of samples for the number of gaps.
NotGaps(samples) == IF Len(samples) > 1 THEN Len(samples) ELSE 1

Gaps(samples) == IF Len(samples) > 1 THEN Len(samples) - 1 ELSE 1

\* build_path(): from the left, heights above the bottom line.
BuildPath(samples, field) ==
  [i \in DOMAIN samples |->
     [x |-> (Width * (i - 1)) \div Gaps(samples),
      y |-> (Height * samples[i][field]) \div Maximum(samples, field)]]

Drawing(samples) ==
  IF samples = <<>> THEN Waiting
  ELSE [kind |-> "lines",
        msg_path |-> BuildPath(samples, "msg_per_sec"),
        active_path |-> BuildPath(samples, "active"),
        latest |-> Last(samples)]

PaintBegin ==
  /\ ~crashed /\ repaint /\ ~painting
  /\ repaint' = FALSE /\ painting' = TRUE
  /\ overlap' = appending
  /\ UNCHANGED <<samples_, appending, drawn, appended, crashed>>

PaintEnd ==
  /\ ~crashed /\ painting
  /\ painting' = FALSE
  /\ \/ /\ drawn' = IF overlap THEN Undefined ELSE Drawing(samples_)
        /\ UNCHANGED crashed
     \/ overlap /\ crashed' = TRUE /\ UNCHANGED drawn
  /\ UNCHANGED <<samples_, appending, repaint, overlap, appended>>

\* The window system asks for a painting.
Expose ==
  /\ ~crashed /\ ~repaint
  /\ repaint' = TRUE
  /\ UNCHANGED <<samples_, appending, painting, overlap, drawn, appended, crashed>>

ChartNext == PushBack \/ PopFront \/ Update \/ PaintBegin \/ PaintEnd \/ Expose

ChartSpec == ChartInit /\ [][ChartNext]_chartVars

-----------------------------------------------------------------------------
(* Properties.                                                             *)

\* "keeps the latest 60 samples" (README.md:727): between two calls the series
\* is the newest samples, in order.
Recent == SubSeq(appended, IF Len(appended) > MaxSamples
                           THEN Len(appended) - MaxSamples + 1 ELSE 1, Len(appended))
SeriesIsRecent == ~appending => samples_ = Recent

\* A painting that met no append stays inside the plot area; two samples or more
\* fill it from the left edge to the right one, and a series with a figure above
\* 0 reaches its top.
PathFills(path) ==
  /\ \A i \in DOMAIN path : path[i].x \in 0 .. Width /\ path[i].y \in 0 .. Height
  /\ path[1].x = 0 /\ (Len(path) > 1 => Last(path).x = Width)
  /\ \/ \E i \in DOMAIN path : path[i].y = Height
     \/ \A i \in DOMAIN path : path[i].y = 0
LinesFillPlot ==
  drawn.kind = "lines" =>
    /\ PathFills(drawn.msg_path) /\ PathFills(drawn.active_path)
    /\ Len(drawn.msg_path) = Len(drawn.active_path)
=============================================================================
