------------------------------- MODULE AppWindow -------------------------------
(***************************************************************************)
(* The main window of gui/app.py: one UI thread that runs callbacks, and   *)
(* worker threads that analyse a text or a subscription. A worker writes   *)
(* the window's attributes itself and leaves everything else to callbacks  *)
(* it posts with after(0, ...), which the UI thread runs in order, but in  *)
(* any order with the user's clicks.                                       *)
(***************************************************************************)
EXTENDS Naturals, Sequences, FiniteSets

CONSTANTS
  Workers,        \* threads the user can start, each once
  Nothing         \* None

\* The results of the batch a worker analysed; 1 is batch.results[0].
Results == Workers \X {1, 2}

ASSUME WorkersAssumption == IsFiniteSet(Workers)
ASSUME NothingAssumption == Nothing \notin Workers \cup Results

VARIABLES
  open,       \* the window exists and the process runs
  phase,      \* phase[w]: where worker w is
  sub,        \* sub[w]: w runs _run_subscription
  size,       \* size[w]: number of results of w's batch
  analyzing,  \* self._analyzing
  result,     \* self._result
  batch,      \* self._batch, by the worker that made it
  compare,    \* self._compare_result
  shown,      \* self.tabs._result
  panel,      \* self.batch_panel._batch
  rows,       \* analyses in the history database
  saves,      \* saves[r]: how often r was inserted
  selected,   \* self.history_panel._selected_id
  events      \* callbacks posted with after(0, ...)

vars == <<open, phase, sub, size, analyzing, result, batch, compare, shown, panel, rows, saves,
          selected, events>>
viewVars == <<compare, shown, panel, rows, saves, selected>>

BatchResults(w) == {w} \X (1..size[w])

Post(kind, w) == events' = Append(events, [kind |-> kind, worker |-> w])

Init ==
  /\ open = TRUE
  /\ phase = [w \in Workers |-> "unused"]
  /\ sub = [w \in Workers |-> FALSE]
  /\ size = [w \in Workers |-> 0]
  /\ analyzing = FALSE
  /\ result = Nothing /\ batch = Nothing /\ compare = Nothing
  /\ shown = Nothing /\ panel = Nothing /\ selected = Nothing
  /\ rows = {}
  /\ saves = [r \in Results |-> 0]
  /\ events = <<>>

--------------------------------------------------------------------------------
(* The user, on the UI thread. *)

\* Faulty variant: the click is not refused while an analysis runs.
StartAnalysisUnguarded(w) ==
  /\ open
  /\ phase[w] = "unused"
  /\ analyzing' = TRUE
  /\ panel' = Nothing
  /\ phase' = [phase EXCEPT ![w] = "analyze"]
  /\ UNCHANGED <<open, sub, size, result, batch, compare, shown, rows, saves, selected, events>>

\* _start_analysis. tabs.clear() empties the panels and keeps tabs._result.
StartAnalysis(w) ==
  /\ open /\ ~analyzing
  /\ phase[w] = "unused"
  /\ analyzing' = TRUE
  /\ panel' = Nothing
  /\ phase' = [phase EXCEPT ![w] = "analyze"]
  /\ UNCHANGED <<open, sub, size, result, batch, compare, shown, rows, saves, selected, events>>

\* _start_subscription
StartSubscription(w) ==
  /\ open /\ ~analyzing
  /\ phase[w] = "unused"
  /\ analyzing' = TRUE
  /\ sub' = [sub EXCEPT ![w] = TRUE]
  /\ phase' = [phase EXCEPT ![w] = "fetch"]
  /\ UNCHANGED <<open, size, result, batch, viewVars, events>>

\* _select_batch_result, from a button of the batch panel.
SelectBatchResult(r) ==
  /\ open
  /\ panel # Nothing /\ r \in BatchResults(panel)
  /\ result' = r
  /\ shown' = r
  /\ UNCHANGED <<open, phase, sub, size, analyzing, batch, compare, panel, rows, saves, selected, events>>

\* HistoryPanel._select and _load_history.
LoadHistory(r) ==
  /\ open
  /\ r \in rows
  /\ selected' = r
  /\ result' = r
  /\ shown' = r
  /\ UNCHANGED <<open, phase, sub, size, analyzing, batch, compare, panel, rows, saves, events>>

\* HistoryPanel._delete_selected
DeleteSelected ==
  /\ open
  /\ selected # Nothing
  /\ rows' = rows \ {selected}
  /\ selected' = Nothing
  /\ UNCHANGED <<open, phase, sub, size, analyzing, result, batch, compare, shown, panel, saves, events>>

\* _diff_configs: the first press keeps A, the second compares and forgets it.
Diff ==
  /\ open
  /\ result # Nothing
  /\ compare' = IF compare = Nothing THEN result ELSE Nothing
  /\ UNCHANGED <<open, phase, sub, size, analyzing, result, batch, shown, panel, rows, saves, selected,
                 events>>

\* _on_close: the main loop ends, and daemon workers end with the process.
Close ==
  /\ open
  /\ open' = FALSE
  /\ UNCHANGED <<phase, sub, size, analyzing, result, batch, viewVars, events>>

--------------------------------------------------------------------------------
(* A worker thread. *)

\* fetch_subscription: no configs or an exception end the worker with a
\* message; otherwise the links go to the sidebar and are analysed.
Fetch(w) ==
  /\ open
  /\ phase[w] = "fetch"
  /\ \/ Post("error", w) /\ phase' = [phase EXCEPT ![w] = "clear"]
     \/ Post("settext", w) /\ phase' = [phase EXCEPT ![w] = "analyze"]
  /\ UNCHANGED <<open, sub, size, analyzing, result, batch, viewVars>>

\* analyze_sync returns a batch, maybe without results, or raises.
Analyze(w) ==
  /\ open
  /\ phase[w] = "analyze"
  /\ \/ \E n \in 0..2 :
          /\ size' = [size EXCEPT ![w] = n]
          /\ batch' = w
          /\ IF n > 0
               THEN phase' = [phase EXCEPT ![w] = "store"] /\ UNCHANGED events
               ELSE phase' = [phase EXCEPT ![w] = "finally"] /\ Post("error", w)
     \/ /\ phase' = [phase EXCEPT ![w] = "finally"]
        /\ Post("error", w)
        /\ UNCHANGED <<size, batch>>
  /\ UNCHANGED <<open, sub, analyzing, result, viewVars>>

\* self._result = batch.results[0], then the completion callback is posted.
StoreResult(w) ==
  /\ open
  /\ phase[w] = "store"
  /\ result' = <<w, 1>>
  /\ phase' = [phase EXCEPT ![w] = "post"]
  /\ UNCHANGED <<open, sub, size, analyzing, batch, viewVars, events>>

\* Faulty variant: the result is kept and nobody is told.
PostCompleteForgotten(w) ==
  /\ open
  /\ phase[w] = "post"
  /\ phase' = [phase EXCEPT ![w] = "finally"]
  /\ UNCHANGED <<open, sub, size, analyzing, result, batch, viewVars, events>>

PostComplete(w) ==
  /\ open
  /\ phase[w] = "post"
  /\ Post("complete", w)
  /\ phase' = [phase EXCEPT ![w] = "finally"]
  /\ UNCHANGED <<open, sub, size, analyzing, result, batch, viewVars>>

\* Faulty variant: the flag is cleared on success only.
RunAnalysisFinallyOnSuccess(w) ==
  /\ open
  /\ phase[w] = "finally"
  /\ analyzing' = (analyzing /\ size[w] = 0)
  /\ Post("progress", w)
  /\ phase' = [phase EXCEPT ![w] = IF sub[w] THEN "clear" ELSE "gone"]
  /\ UNCHANGED <<open, sub, size, result, batch, viewVars>>

\* finally of _run_analysis: the flag first, then the progress bar.
RunAnalysisFinally(w) ==
  /\ open
  /\ phase[w] = "finally"
  /\ analyzing' = FALSE
  /\ Post("progress", w)
  /\ phase' = [phase EXCEPT ![w] = IF sub[w] THEN "clear" ELSE "gone"]
  /\ UNCHANGED <<open, sub, size, result, batch, viewVars>>

\* finally of _run_subscription: the flag again, whoever holds it by now.
RunSubscriptionFinally(w) ==
  /\ open
  /\ phase[w] = "clear"
  /\ analyzing' = FALSE
  /\ phase' = [phase EXCEPT ![w] = "gone"]
  /\ UNCHANGED <<open, sub, size, result, batch, viewVars, events>>

--------------------------------------------------------------------------------
(* The UI thread runs the oldest posted callback. *)

\* Faulty variant: a batch is saved again for each of its results.
OnAnalysisCompleteTwice(w) ==
  /\ shown' = <<w, 1>>
  /\ panel' = w
  /\ rows' = rows \cup BatchResults(w)
  /\ saves' = [r \in Results |-> IF r \in BatchResults(w) THEN saves[r] + size[w] ELSE saves[r]]

\* _on_analysis_complete: tabs, status, batch panel, database, history list.
OnAnalysisComplete(w) ==
  /\ shown' = <<w, 1>>
  /\ panel' = w
  /\ rows' = rows \cup BatchResults(w)
  /\ saves' = [r \in Results |-> IF r \in BatchResults(w) THEN saves[r] + 1 ELSE saves[r]]

RunCallback ==
  /\ open
  /\ events # <<>>
  /\ events' = Tail(events)
  /\ IF Head(events).kind = "complete"
       THEN OnAnalysisComplete(Head(events).worker)
       ELSE UNCHANGED <<shown, panel, rows, saves>>
  /\ UNCHANGED <<open, phase, sub, size, analyzing, result, batch, compare, selected>>

--------------------------------------------------------------------------------
WorkerStep(w) ==
  \/ Fetch(w) \/ Analyze(w) \/ StoreResult(w) \/ PostComplete(w)
  \/ RunAnalysisFinally(w) \/ RunSubscriptionFinally(w)

User ==
  \/ \E w \in Workers : StartAnalysis(w) \/ StartSubscription(w)
  \/ \E r \in Results : SelectBatchResult(r) \/ LoadHistory(r)
  \/ DeleteSelected \/ Diff \/ Close

Next == User \/ RunCallback \/ \E w \in Workers : WorkerStep(w)

Spec == Init /\ [][Next]_vars

\* Threads run, every probe of an analysis has a timeout, and the main loop
\* serves its queue; the user owes nothing.
Fairness == WF_vars(RunCallback) /\ \A w \in Workers : WF_vars(WorkerStep(w))

FairSpec == Spec /\ Fairness

--------------------------------------------------------------------------------
(* Properties. *)

Running(w) == phase[w] \in {"fetch", "analyze", "store", "post"}

TypeOK ==
  /\ open \in BOOLEAN /\ analyzing \in BOOLEAN
  /\ phase \in [Workers -> {"unused", "fetch", "analyze", "store", "post", "finally", "clear", "gone"}]
  /\ sub \in [Workers -> BOOLEAN]
  /\ size \in [Workers -> 0..2]
  /\ {result, shown, compare, selected} \subseteq Results \cup {Nothing}
  /\ {batch, panel} \subseteq Workers \cup {Nothing}
  /\ rows \subseteq Results
  /\ saves \in [Results -> Nat]
  /\ events \in Seq([kind : {"complete", "progress", "error", "settext"}, worker : Workers])

\* Both entry points refuse a click with "Analysis already in progress.": at
\* any time at most one worker is fetching or analysing.
OneAnalysisAtATime == Cardinality({w \in Workers : Running(w)}) <= 1

\* As long as no subscription was fetched, the flag that keeps a second click
\* away does what the message says.
OneAnalysisFromText == (\A w \in Workers : ~sub[w]) => OneAnalysisAtATime

\* A result reaches the history database at most once, and the batch panel and
\* the tabs offer only results that have been saved.
SavedOnce ==
  /\ \A r \in Results : saves[r] <= 1
  /\ \A r \in rows \cup ({shown} \ {Nothing}) : saves[r] = 1
  /\ panel # Nothing => \A r \in BatchResults(panel) : saves[r] = 1

\* What Export, QR and Diff would use is a result of some finished analysis,
\* and once its callback has run it is one the history has had.
ResultHasSource ==
  \A r \in {result, compare} \ {Nothing} :
    /\ r \in BatchResults(r[1])
    /\ \/ saves[r] = 1
       \/ phase[r[1]] = "post"
       \/ \E i \in DOMAIN events : events[i] = [kind |-> "complete", worker |-> r[1]]

\* A batch with results is saved in the end, unless the window is closed first.
ResultsAreSaved ==
  \A w \in Workers : phase[w] = "store" ~> (saves[<<w, 1>>] = 1 \/ ~open)

\* The window never stays busy: the flag is cleared whatever the analysis did.
BusyEnds == analyzing ~> (~analyzing \/ ~open)
================================================================================
