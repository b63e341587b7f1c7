----------------------------- MODULE HealthMonitor -----------------------------
(***************************************************************************)
(* backend/health_monitor.py beside the history database and the window    *)
(* that owns both. A check runs in the thread of a threading.Timer and     *)
(* starts its successor itself; the UI thread starts and stops the monitor *)
(* each time the settings are saved, and saves and deletes the rows that a *)
(* sweep is working through.                                               *)
(***************************************************************************)
EXTENDS Integers, Sequences, FiniteSets, FiniteSetsExt

CONSTANTS
  Timers,    \* timer threads that can be alive at a time (a bound)
  MaxRows,   \* rows ever inserted (a bound)
  Limit,     \* list_recent(limit)
  MaxFaults, \* transient database errors (a bound)
  Linkless,  \* rows whose config has no share link
  Broken,    \* rows whose stored result no longer validates
  None       \* None

ASSUME TimersAssumption == IsFiniteSet(Timers) /\ None \notin Timers
ASSUME LimitAssumption == Limit \in Nat \ {0}
ASSUME BoundsAssumption == MaxRows \in Nat /\ MaxFaults \in Nat
ASSUME RowKindsAssumption == Linkless \subseteq 1..MaxRows /\ Broken \subseteq 1..MaxRows

VARIABLES
  open,     \* the window exists and the process runs
  enabled,  \* settings.enable_health_monitor
  running,  \* self._running
  timer,    \* self._timer
  pc,       \* pc[t]: where the thread of timer t is
  todo,     \* todo[t]: the rows listed and not yet checked
  lastId,   \* ids are AUTOINCREMENT: never used twice
  health,   \* health_status of the rows in the database
  faults    \* database errors so far

vars == <<open, enabled, running, timer, pc, todo, lastId, health, faults>>

Ids == 1..MaxRows
Rows == DOMAIN health

\* The window starts the monitor itself if the stored settings say so.
Init ==
  /\ open = TRUE
  /\ enabled \in BOOLEAN /\ running = enabled
  /\ timer \in IF enabled THEN Timers ELSE {None}
  /\ pc = [t \in Timers |-> IF t = timer THEN "waiting" ELSE "free"]
  /\ todo = [t \in Timers |-> <<>>]
  /\ lastId = 0
  /\ health = [r \in {} |-> "unknown"]
  /\ faults = 0

\* Timer.cancel: a thread that is already checking does not notice.
Cancelled(t) == IF t # None /\ pc[t] = "waiting" THEN [pc EXCEPT ![t] = "free"] ELSE pc

--------------------------------------------------------------------------------
(* The UI thread. *)

\* Faulty variant: a monitor that has had a timer is taken for a running one.
StartOnce(t) ==
  /\ running' = TRUE
  /\ IF timer = None
       THEN timer' = t /\ pc' = [pc EXCEPT ![t] = "waiting"]
       ELSE UNCHANGED <<timer, pc>>

\* start, once more each time: a chain that is alive is not looked for.
Start(t) ==
  /\ running' = TRUE
  /\ timer' = t
  /\ pc' = [pc EXCEPT ![t] = "waiting"]

\* Faulty variant: the timer is cancelled and the flag stays.
StopOnlyCancels ==
  /\ pc' = Cancelled(timer)
  /\ UNCHANGED <<running, timer>>

\* stop: only the latest timer is cancelled.
Stop ==
  /\ running' = FALSE
  /\ pc' = Cancelled(timer)
  /\ UNCHANGED timer

\* SettingsDialog._save and _on_settings_saved.
SettingsSaved ==
  /\ open
  /\ \/ enabled' = TRUE /\ \E t \in Timers : pc[t] = "free" /\ Start(t)
     \/ enabled' = FALSE /\ Stop
  /\ UNCHANGED <<open, todo, lastId, health, faults>>

\* AnalysisDatabase.save
SaveRow ==
  /\ open
  /\ lastId < MaxRows
  /\ lastId' = lastId + 1
  /\ health' = [r \in Rows \cup {lastId'} |-> IF r \in Rows THEN health[r] ELSE "unknown"]
  /\ UNCHANGED <<open, enabled, running, timer, pc, todo, faults>>

\* AnalysisDatabase.delete
DeleteRow(r) ==
  /\ open
  /\ r \in Rows
  /\ health' = [q \in Rows \ {r} |-> health[q]]
  /\ UNCHANGED <<open, enabled, running, timer, pc, todo, lastId, faults>>

\* _on_close: stop, and the process ends with its daemon threads.
Close ==
  /\ open
  /\ open' = FALSE
  /\ Stop
  /\ UNCHANGED <<enabled, todo, lastId, health, faults>>

--------------------------------------------------------------------------------
(* The thread of a timer. *)

Fire(t) ==
  /\ open
  /\ pc[t] = "waiting"
  /\ pc' = [pc EXCEPT ![t] = "list"]
  /\ UNCHANGED <<open, enabled, running, timer, todo, lastId, health, faults>>

\* list_recent, ORDER BY id DESC LIMIT: the k-th row has k - 1 newer ones.
ListRecent ==
  [k \in 1..Min({Cardinality(Rows), Limit}) |->
     CHOOSE r \in Rows : Cardinality({q \in Rows : q > r}) = k - 1]

List(t) ==
  /\ open
  /\ pc[t] = "list"
  /\ todo' = [todo EXCEPT ![t] = ListRecent]
  /\ pc' = [pc EXCEPT ![t] = "load"]
  /\ UNCHANGED <<open, enabled, running, timer, lastId, health, faults>>

\* Faulty variant: an error ends the thread without a successor.
AbortWithoutTimer(t) ==
  /\ pc' = [pc EXCEPT ![t] = "free"]
  /\ todo' = [todo EXCEPT ![t] = <<>>]

\* An exception that leaves _check_all ends the sweep, whatever is left of it.
Abort(t) ==
  /\ pc' = [pc EXCEPT ![t] = "schedule"]
  /\ todo' = [todo EXCEPT ![t] = <<>>]

\* The database is locked for too long while rows are listed or loaded.
Fault(t) ==
  /\ open
  /\ pc[t] \in {"list", "load"}
  /\ faults < MaxFaults
  /\ faults' = faults + 1
  /\ Abort(t)
  /\ UNCHANGED <<open, enabled, running, timer, lastId, health>>

\* The next row: gone or without a link, it is skipped; broken, load raises.
Load(t) ==
  /\ open
  /\ pc[t] = "load"
  /\ LET next == todo[t] IN
       \/ /\ next = <<>>
          /\ pc' = [pc EXCEPT ![t] = "schedule"]
          /\ UNCHANGED todo
       \/ /\ next # <<>> /\ Head(next) \in Rows \cap Broken
          /\ Abort(t)
       \/ /\ next # <<>> /\ Head(next) \notin Rows \ Linkless
          /\ Head(next) \notin Rows \cap Broken
          /\ todo' = [todo EXCEPT ![t] = Tail(next)]
          /\ UNCHANGED pc
       \/ /\ next # <<>> /\ Head(next) \in (Rows \ Linkless) \ Broken
          /\ pc' = [pc EXCEPT ![t] = "check"]
          /\ UNCHANGED todo
  /\ UNCHANGED <<open, enabled, running, timer, lastId, health, faults>>

\* Faulty variant: the status is inserted if the row is not there.
UpdateHealthUpsert(r, status) ==
  health' = [q \in Rows \cup {r} |-> IF q = r THEN status ELSE health[q]]

\* update_health: UPDATE ... WHERE id=?, nothing if the row was deleted.
UpdateHealth(r, status) ==
  health' = [q \in Rows |-> IF q = r THEN status ELSE health[q]]

\* The analysis ends: with a score, or with an exception that is only logged.
Check(t) ==
  /\ open
  /\ pc[t] = "check"
  /\ \/ \E status \in {"OK", "DEGRADED"} : UpdateHealth(Head(todo[t]), status)
     \/ UNCHANGED health
  /\ todo' = [todo EXCEPT ![t] = Tail(@)]
  /\ pc' = [pc EXCEPT ![t] = "load"]
  /\ UNCHANGED <<open, enabled, running, timer, lastId, faults>>

\* Faulty variant: _running is not looked at.
ScheduleAlways(t) ==
  /\ open
  /\ pc[t] = "schedule"
  /\ pc' = [pc EXCEPT ![t] = "start"]
  /\ UNCHANGED <<open, enabled, running, timer, todo, lastId, health, faults>>

\* _schedule looks at _running ...
Schedule(t) ==
  /\ open
  /\ pc[t] = "schedule"
  /\ pc' = [pc EXCEPT ![t] = IF running THEN "start" ELSE "free"]
  /\ UNCHANGED <<open, enabled, running, timer, todo, lastId, health, faults>>

\* ... and then starts the next timer, which takes the place of this one.
StartTimer(t) ==
  /\ open
  /\ pc[t] = "start"
  /\ timer' = t
  /\ pc' = [pc EXCEPT ![t] = "waiting"]
  /\ UNCHANGED <<open, enabled, running, todo, lastId, health, faults>>

--------------------------------------------------------------------------------
TimerStep(t) == Fire(t) \/ List(t) \/ Fault(t) \/ Load(t) \/ Check(t) \/ Schedule(t) \/ StartTimer(t)

User == SettingsSaved \/ SaveRow \/ Close \/ \E r \in Ids : DeleteRow(r)

Next == User \/ \E t \in Timers : TimerStep(t)

Spec == Init /\ [][Next]_vars

\* Timers fire and their threads run; the analysis of a row has timeouts.
FairSpec == Spec /\ \A t \in Timers : WF_vars(TimerStep(t))

--------------------------------------------------------------------------------
(* Properties. *)

PCs == {"free", "waiting", "list", "load", "check", "schedule", "start"}

Live(t) == pc[t] # "free"

\* A sweep works through rows that were once inserted, the newest first and
\* none of them twice, and a thread that checks has one to check.
SweepOK(t) ==
  /\ todo[t] \in Seq(1..lastId) /\ Len(todo[t]) <= Limit
  /\ \A k, l \in DOMAIN todo[t] : k < l => todo[t][k] > todo[t][l]
  /\ pc[t] = "check" => todo[t] # <<>>

TypeOK ==
  /\ open \in BOOLEAN /\ enabled \in BOOLEAN /\ running \in BOOLEAN
  /\ timer \in Timers \cup {None}
  /\ pc \in [Timers -> PCs]
  /\ DOMAIN todo = Timers /\ \A t \in Timers : SweepOK(t)
  /\ lastId \in 0..MaxRows
  /\ Rows \subseteq 1..lastId
  /\ \A r \in Rows : health[r] \in {"unknown", "OK", "DEGRADED"}
  /\ faults \in 0..MaxFaults

\* A monitor that is on has a thread that will check again, also after it was
\* stopped and started while a sweep was running, and after a sweep failed.
RunningHasChain == open /\ running => \E t \in Timers : Live(t)

\* A row that the user deletes while it is being checked does not come back.
DeletedStaysDeleted == [][\A r \in 1..lastId : r \notin Rows => r \notin Rows']_vars

\* stop and start keep to the setting that was saved last.
RunsAsEnabled == open => (running = enabled)

\* After the monitor is stopped for good, every thread ends: a chain whose
\* timer was not the latest one makes one more sweep at most.
StopEndsChains == []<>(running \/ \A t \in Timers : ~Live(t) \/ ~open)

\* Sweeps reach row r: it is recent, has a link, and no newer row is broken.
Reachable(r) ==
  /\ open /\ running
  /\ r \in (Rows \ Linkless) \ Broken
  /\ Cardinality({q \in Rows : q > r}) < Limit
  /\ \A q \in Rows : q > r => q \notin Broken

\* While the monitor stays on, each such row is checked again and again.
CheckedAgain ==
  \A r \in Ids : []<>(~Reachable(r) \/ \E t \in Timers : pc[t] = "check" /\ Head(todo[t]) = r)

\* The monitor is periodic: one timer or one sweep at a time.
OneChain == \A t, u \in Timers : Live(t) /\ Live(u) => t = u
================================================================================
