----------------------------- MODULE DeviceAges -----------------------------
(***************************************************************************)
(* How the viewer's table and map show the age of a status: the flush that *)
(* writes a row, the timer of the table that refreshes ages and turns      *)
(* states into STALE, and the repainting of the map with its own timer.    *)
(*                                                                         *)
(* All of it runs in the UI thread, which is taken to keep up: the clock   *)
(* does not pass a timer that is due.  Time is in units of MapPeriod.      *)
(***************************************************************************)
EXTENDS Integers, Sequences, FiniteSets

CONSTANTS
  TableDevices,
  States,      \* what a status may say
  FreshAge,    \* kFreshMs
  StaleAge,    \* kStaleMs and kTableStaleMs
  Second,      \* 1000 ms, also the period of table_age_timer
  Horizon      \* bound on the clock

ASSUME AgesAssumption ==
  /\ FreshAge \in Nat /\ StaleAge \in Nat /\ FreshAge < StaleAge
  /\ Second \in Nat \ {0} /\ Horizon \in Nat
  /\ "STALE" \notin States

VARIABLES
  now,
  table_due, map_due, \* when the two timers fire next
  pending,            \* pending_statuses, by what the status says
  table_devices,      \* device to its row, its status and when it was seen
  rows,               \* the model behind the table
  snapshots,          \* last_seen_ms in devices_by_id_
  dirty,              \* the map has to be painted
  shades,             \* how the map shows each device
  arrived             \* what each device reported last
agesVars == <<now, table_due, map_due, pending, table_devices, rows, snapshots,
              dirty, shades, arrived>>

MapPeriod == 1
None == [d \in {} |-> 0]

AgesInit ==
  /\ now = 0 /\ table_due \in 1 .. Second /\ map_due = MapPeriod
  /\ pending = None /\ table_devices = None /\ rows = <<>>
  /\ snapshots = None /\ dirty = FALSE /\ shades = None /\ arrived = None

\* f with g's values where g has some.
Overlaid(f, g) ==
  [d \in DOMAIN f \cup DOMAIN g |-> IF d \in DOMAIN g THEN g[d] ELSE f[d]]

-----------------------------------------------------------------------------
\* A status reaches pending_statuses.
Arrives ==
  /\ \E d \in TableDevices, state \in States :
       /\ pending' = Overlaid(pending, [e \in {d} |-> state])
       /\ arrived' = Overlaid(arrived, [e \in {d} |-> state])
  /\ UNCHANGED <<now, table_due, map_due, table_devices, rows, snapshots, dirty, shades>>

\* age_text(): whole seconds, the first of them "now".
AgeText(age) == age \div Second

\* Fault: at the limit, not behind it.
StaleEarly(age) == age >= StaleAge

Stale(age) == age > StaleAge
DisplayState(state, age) == IF Stale(age) THEN "STALE" ELSE state

Row(d, state, age) ==
  [id |-> d, says |-> state, state |-> DisplayState(state, age),
   age |-> AgeText(age), grey |-> Stale(age)]

\* set_device_row()
WrittenRow(d, state) == Row(d, state, 0)

\* A new device gets the row behind the last one, in the order of the map.
Places(new) ==
  {place \in [new -> Len(rows) + 1 .. Len(rows) + Cardinality(new)] :
     \A d, e \in new : place[d] = place[e] => d = e}

\* device_flush_timer, down to upsertDevices().
Flushes ==
  /\ pending # None
  /\ \E place \in Places(DOMAIN pending \ DOMAIN table_devices) :
       table_devices' = Overlaid(table_devices,
         [d \in DOMAIN pending |->
            [row |-> IF d \in DOMAIN place THEN place[d] ELSE table_devices[d].row,
             status |-> pending[d], last_seen_ms |-> now]])
  /\ rows' = [i \in 1 .. Cardinality(DOMAIN table_devices') |->
                IF \E d \in DOMAIN pending : table_devices'[d].row = i
                THEN LET d == CHOOSE e \in DOMAIN pending : table_devices'[e].row = i
                     IN WrittenRow(d, pending[d])
                ELSE rows[i]]
  /\ snapshots' = Overlaid(snapshots, [d \in DOMAIN pending |-> now])
  /\ dirty' = TRUE
  /\ pending' = None
  /\ UNCHANGED <<now, table_due, map_due, shades, arrived>>

Refreshed(row, info) ==
  LET age == now - info.last_seen_ms
  IN [row EXCEPT !.state = DisplayState(info.status, age),
                 !.age = AgeText(age), !.grey = Stale(age)]

\* table_age_timer: refresh_table_ages()
TableTimer ==
  /\ table_due <= now
  /\ table_due' = now + Second
  /\ rows' = [i \in DOMAIN rows |->
                LET d == CHOOSE e \in DOMAIN table_devices : table_devices[e].row = i
                IN Refreshed(rows[i], table_devices[d])]
  /\ UNCHANGED <<now, map_due, pending, table_devices, snapshots, dirty, shades, arrived>>

\* refresh_timer of the map
MapTimer ==
  /\ map_due <= now
  /\ map_due' = now + MapPeriod
  /\ dirty' = (dirty \/ snapshots # None)
  /\ UNCHANGED <<now, table_due, pending, table_devices, rows, snapshots, shades, arrived>>

\* color_for_state()
Shade(age) == IF age > StaleAge THEN "stale" ELSE IF age > FreshAge THEN "aging" ELSE "fresh"

PaintMap ==
  /\ dirty /\ dirty' = FALSE
  /\ shades' = [d \in DOMAIN snapshots |-> Shade(now - snapshots[d])]
  /\ UNCHANGED <<now, table_due, map_due, pending, table_devices, rows, snapshots, arrived>>

\* The flush period, 100 ms, is less than a unit of time.
Passes ==
  /\ now < Horizon /\ now' = now + 1
  /\ now < table_due /\ now < map_due /\ ~dirty /\ pending = None
  /\ UNCHANGED <<table_due, map_due, pending, table_devices, rows, snapshots, dirty,
                 shades, arrived>>

AgesNext == Arrives \/ Flushes \/ TableTimer \/ MapTimer \/ PaintMap \/ Passes
AgesSpec == AgesInit /\ [][AgesNext]_agesVars

-----------------------------------------------------------------------------
(* Properties.                                                             *)

\* README: rows are marked STALE after 5 seconds without a new status, and have
\* an Age.  Every device has a row of its own with what it said last.  Neither
\* widget shows it as stale too soon, both do when one period of their timer is
\* over, a device that reports again is shown so in both, and the Age is never
\* ahead of the clock nor more than a second behind it.
Silence(d) == now - table_devices[d].last_seen_ms
RowTells(d, row) ==
  /\ row.id = d /\ (d \notin DOMAIN pending => row.says = arrived[d])
  /\ row.grey <=> row.state = "STALE"
  /\ Silence(d) <= StaleAge => row.state = row.says
  /\ Silence(d) > StaleAge + Second => row.state = "STALE"
  /\ AgeText(Silence(d)) - row.age \in 0 .. 1
MapTells(d) ==
  /\ Silence(d) <= StaleAge => shades[d] # "stale"
  /\ Silence(d) > StaleAge + MapPeriod => shades[d] = "stale"
StaleInTime ==
  /\ Len(rows) = Cardinality(DOMAIN table_devices)
  /\ \A d \in DOMAIN table_devices : RowTells(d, rows[table_devices[d].row])
  /\ ~dirty => \A d \in DOMAIN table_devices : MapTells(d)
=============================================================================
