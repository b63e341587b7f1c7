---------------------------- MODULE AppWindowProofs ----------------------------
(***************************************************************************)
(* Proofs about AppWindow for any number of workers: a batch is saved once *)
(* and what the window offers has been saved, what Export, QR and Diff use *)
(* comes from a finished analysis, and as long as no subscription is       *)
(* fetched one analysis runs at a time. The argument follows the callback  *)
(* of a worker: it is posted once, after the worker has its batch, and     *)
(* until it runs nothing of the batch is saved.                            *)
(***************************************************************************)
EXTENDS AppWindow, FiniteSetTheorems, SequenceTheorems, TLAPS

Callback == [kind : {"complete", "progress", "error", "settext"}, worker : Workers]

Completes(i, w) == events[i].kind = "complete" /\ events[i].worker = w

\* A posted callback is the last one, and those before it stay.
LEMMA PostAppends ==
  ASSUME events \in Seq(Callback), NEW k \in {"complete", "progress", "error", "settext"}, NEW w \in Workers,
         Post(k, w)
  PROVE  /\ events' \in Seq(Callback) /\ Len(events') = Len(events) + 1
         /\ \A i \in 1..Len(events) : events'[i] = events[i]
         /\ events'[Len(events')].kind = k /\ events'[Len(events')].worker = w
<1> DEFINE e == [kind |-> k, worker |-> w]
<1>1. e \in Callback /\ e.kind = k /\ e.worker = w
  BY DEF Callback
<1>2. events' = Append(events, e)
  BY DEF Post
<1> HIDE DEF e
<1>3. /\ events' \in Seq(Callback) /\ Len(events') = Len(events) + 1
      /\ \A i \in 1..Len(events) : events'[i] = events[i]
      /\ events'[Len(events) + 1] = e
  BY <1>1, <1>2, AppendProperties
<1> QED BY <1>1, <1>3

\* Running a callback takes the first one away.
LEMMA CallbackShifts ==
  ASSUME events \in Seq(Callback), RunCallback
  PROVE  /\ events' \in Seq(Callback) /\ Len(events) \in Nat \ {0} /\ Len(events') = Len(events) - 1
         /\ Head(events) = events[1] /\ events[1] \in Callback
         /\ \A i \in 1..Len(events') : events'[i] = events[i + 1]
<1>1. events # <<>> /\ events' = Tail(events)
  BY DEF RunCallback
<1>2. Len(events) \in Nat \ {0}
  BY <1>1, EmptySeq
<1> QED BY <1>1, <1>2, HeadTailProperties, ElementOfSeq

--------------------------------------------------------------------------------
(* Types. *)

THEOREM TypeCorrect == Spec => []TypeOK
<1> USE DEF TypeOK
<1>1. Init => TypeOK
  <2> SUFFICES ASSUME Init PROVE TypeOK
    OBVIOUS
  <2>1. events \in Seq(Callback)
    BY EmptySeq DEF Init
  <2>2. saves \in [Results -> Nat]
    BY DEF Init
  <2>3. /\ phase \in [Workers -> {"unused", "fetch", "analyze", "store", "post", "finally", "clear", "gone"}]
        /\ sub \in [Workers -> BOOLEAN] /\ size \in [Workers -> 0..2]
    BY DEF Init
  <2>4. open \in BOOLEAN /\ analyzing \in BOOLEAN
    BY DEF Init
  <2>5. /\ {result, shown, compare, selected} \subseteq Results \cup {Nothing}
        /\ {batch, panel} \subseteq Workers \cup {Nothing}
        /\ rows \subseteq Results
    BY DEF Init
  <2> QED BY <2>1, <2>2, <2>3, <2>4, <2>5, Zenon DEF Callback
<1>2. TypeOK /\ [Next]_vars => TypeOK'
  <2> SUFFICES ASSUME TypeOK, [Next]_vars PROVE TypeOK'
    OBVIOUS
  <2> USE DEF viewVars
  <2>0. events \in Seq(Callback)
    BY DEF Callback
  <2>1. ASSUME NEW w \in Workers, StartAnalysis(w) \/ StartSubscription(w) PROVE TypeOK'
    BY <2>1 DEF StartAnalysis, StartSubscription
  <2>2. ASSUME NEW r \in Results, SelectBatchResult(r) \/ LoadHistory(r) PROVE TypeOK'
    BY <2>2 DEF SelectBatchResult, LoadHistory
  <2>3. CASE DeleteSelected
    BY <2>3 DEF DeleteSelected
  <2>4. CASE Diff
    BY <2>4 DEF Diff
  <2>5. CASE Close
    BY <2>5 DEF Close
  <2>6. CASE RunCallback
    <3>1. events' \in Seq(Callback) /\ Head(events) \in Callback
      BY <2>0, <2>6, CallbackShifts
    <3>2. CASE Head(events).kind = "complete"
      <4> DEFINE w == Head(events).worker
      <4>1. w \in Workers /\ <<w, 1>> \in Results
        BY <3>1 DEF Callback, Results
      <4>2. OnAnalysisComplete(w)
        BY <2>6, <3>2 DEF RunCallback
      <4> HIDE DEF w
      <4>3. \A r \in Results : saves[r] + 1 \in Nat /\ saves[r] \in Nat
        OBVIOUS
      <4>4. saves' \in [Results -> Nat]
        BY <4>2, <4>3 DEF OnAnalysisComplete
      <4>5. BatchResults(w) \subseteq Results
        BY <4>1 DEF BatchResults, Results
      <4>6. rows' \subseteq Results
        BY <4>2, <4>5 DEF OnAnalysisComplete
      <4>7. shown' = <<w, 1>> /\ panel' = w
        BY <4>2 DEF OnAnalysisComplete
      <4> QED BY <2>6, <3>1, <4>1, <4>4, <4>6, <4>7 DEF RunCallback, Callback
    <3>3. CASE Head(events).kind # "complete"
      BY <2>6, <3>1, <3>3 DEF RunCallback, Callback
    <3> QED BY <3>2, <3>3
  <2>7. ASSUME NEW w \in Workers, Fetch(w) PROVE TypeOK'
    <3>1. events' \in Seq(Callback)
      BY <2>0, <2>7, PostAppends DEF Fetch
    <3> QED BY <2>7, <3>1 DEF Fetch, Callback
  <2>8. ASSUME NEW w \in Workers, Analyze(w) PROVE TypeOK'
    <3>1. events' \in Seq(Callback)
      BY <2>0, <2>8, PostAppends DEF Analyze
    <3>2. size' \in [Workers -> 0..2] /\ batch' \in Workers \cup {Nothing}
      BY <2>8 DEF Analyze
    <3>3. \E p \in {"store", "finally"} : phase' = [phase EXCEPT ![w] = p]
      BY <2>8, Zenon DEF Analyze
    <3>4. UNCHANGED <<open, sub, analyzing, result, viewVars>>
      BY <2>8, Zenon DEF Analyze
    <3> QED BY <3>1, <3>2, <3>3, <3>4 DEF Callback
  <2>9. ASSUME NEW w \in Workers, StoreResult(w) PROVE TypeOK'
    <3>1. <<w, 1>> \in Results
      BY DEF Results
    <3> QED BY <2>9, <3>1 DEF StoreResult
  <2>10. ASSUME NEW w \in Workers, PostComplete(w) \/ RunAnalysisFinally(w) PROVE TypeOK'
    <3>1. events' \in Seq(Callback)
      BY <2>0, <2>10, PostAppends DEF PostComplete, RunAnalysisFinally
    <3>2. CASE PostComplete(w)
      BY <3>1, <3>2 DEF PostComplete, Callback
    <3>3. CASE RunAnalysisFinally(w)
      BY <3>1, <3>3 DEF RunAnalysisFinally, Callback
    <3> QED BY <2>10, <3>2, <3>3
  <2>11. ASSUME NEW w \in Workers, RunSubscriptionFinally(w) PROVE TypeOK'
    BY <2>11 DEF RunSubscriptionFinally
  <2>12. CASE UNCHANGED vars
    BY <2>12 DEF vars
  <2> QED
    BY <2>1, <2>2, <2>3, <2>4, <2>5, <2>6, <2>7, <2>8, <2>9, <2>10, <2>11, <2>12 DEF Next, User, WorkerStep
<1> QED
  BY <1>1, <1>2, PTL DEF Spec

--------------------------------------------------------------------------------
(* A batch is saved once. *)

Early == {"unused", "fetch", "analyze", "store", "post"}

Unsaved(w) == saves[<<w, 1>>] = 0 /\ saves[<<w, 2>>] = 0

\* The callback of a worker is posted once, when its batch is there and none of
\* it is saved.
PendingInv ==
  /\ \A i \in 1..Len(events), w \in Workers :
       Completes(i, w) => phase[w] \notin Early /\ size[w] >= 1 /\ Unsaved(w)
  /\ \A i, j \in 1..Len(events), w \in Workers : Completes(i, w) /\ Completes(j, w) => i = j

EarlyIsUnsaved == \A w \in Workers : phase[w] \in Early => Unsaved(w)

StoredHasResults == \A w \in Workers : phase[w] \in {"store", "post"} => size[w] >= 1

SavedIsResult ==
  \A w \in Workers : \A n \in {1, 2} : saves[<<w, n>>] # 0 => saves[<<w, n>>] = 1 /\ n <= size[w]

\* What the tabs, the history and the batch panel offer has been saved.
OfferedIsSaved ==
  /\ \A r \in rows : saves[r] = 1
  /\ shown # Nothing => saves[shown] = 1
  /\ panel # Nothing => size[panel] >= 1 /\ \A r \in BatchResults(panel) : saves[r] = 1

SaveInv == TypeOK /\ PendingInv /\ EarlyIsUnsaved /\ StoredHasResults /\ SavedIsResult /\ OfferedIsSaved

\* A step other than RunCallback: a worker only goes on, the batch it has left
\* behind does not change, and nothing is saved or newly offered.
OrderStep ==
  /\ \A w \in Workers : phase'[w] \in Early => phase[w] \in Early
  /\ \A w \in Workers : phase[w] # "analyze" => size'[w] = size[w]
  /\ \A w \in Workers : phase'[w] \in {"store", "post"} => size'[w] >= 1
  /\ saves' = saves /\ panel' \in {panel, Nothing} /\ rows' \subseteq rows
  /\ shown' = shown \/ saves[shown'] = 1

\* Only a worker that has stored its result posts its completion.
PostStep ==
  \/ UNCHANGED events
  \/ \E k \in {"complete", "progress", "error", "settext"}, w \in Workers :
       Post(k, w) /\ (k = "complete" => phase[w] = "post" /\ phase'[w] = "finally")

LEMMA StepOrder == SaveInv /\ [Next]_vars /\ ~RunCallback => OrderStep /\ PostStep
<1> SUFFICES ASSUME SaveInv, [Next]_vars, ~RunCallback PROVE OrderStep /\ PostStep
  OBVIOUS
<1> USE DEF SaveInv, TypeOK, StoredHasResults, OrderStep, PostStep, Early, viewVars
<1>1. ASSUME NEW w \in Workers, StartAnalysis(w) \/ StartSubscription(w) PROVE OrderStep /\ PostStep
  BY <1>1 DEF StartAnalysis, StartSubscription
<1>2. ASSUME NEW r \in Results, SelectBatchResult(r) \/ LoadHistory(r) PROVE OrderStep /\ PostStep
  BY <1>2 DEF SelectBatchResult, LoadHistory, OfferedIsSaved
<1>3. CASE DeleteSelected \/ Diff \/ Close
  BY <1>3 DEF DeleteSelected, Diff, Close
<1>4. ASSUME NEW w \in Workers, Fetch(w) PROVE OrderStep /\ PostStep
  <2>1. OrderStep
    BY <1>4 DEF Fetch
  <2>2. PostStep
    BY <1>4, Zenon DEF Fetch
  <2> QED BY <2>1, <2>2
<1>5. ASSUME NEW w \in Workers, Analyze(w) PROVE OrderStep /\ PostStep
  <2>1. OrderStep
    <3>1. phase[w] = "analyze" /\ UNCHANGED <<compare, shown, panel, rows, saves, selected>>
      BY <1>5, Zenon DEF Analyze
    <3>2. PICK n \in 0..2 : /\ size' = [size EXCEPT ![w] = n] \/ size' = size
                            /\ \/ phase' = [phase EXCEPT ![w] = "finally"]
                               \/ /\ phase' = [phase EXCEPT ![w] = "store"]
                                  /\ size' = [size EXCEPT ![w] = n] /\ n > 0
      BY <1>5 DEF Analyze
    <3> QED BY <3>1, <3>2
  <2>2. PostStep
    BY <1>5, Zenon DEF Analyze
  <2> QED BY <2>1, <2>2
<1>6. ASSUME NEW w \in Workers, StoreResult(w) PROVE OrderStep /\ PostStep
  BY <1>6 DEF StoreResult
<1>7. ASSUME NEW w \in Workers, PostComplete(w) PROVE OrderStep /\ PostStep
  <2>1. OrderStep
    BY <1>7 DEF PostComplete
  <2>2. phase[w] = "post" /\ phase'[w] = "finally" /\ Post("complete", w)
    BY <1>7 DEF PostComplete
  <2> QED BY <2>1, <2>2
<1>8. ASSUME NEW w \in Workers, RunAnalysisFinally(w) PROVE OrderStep /\ PostStep
  <2>1. OrderStep
    BY <1>8 DEF RunAnalysisFinally
  <2>2. PostStep
    BY <1>8, Zenon DEF RunAnalysisFinally
  <2> QED BY <2>1, <2>2
<1>9. ASSUME NEW w \in Workers, RunSubscriptionFinally(w) PROVE OrderStep /\ PostStep
  BY <1>9 DEF RunSubscriptionFinally
<1>10. CASE UNCHANGED vars
  BY <1>10 DEF vars
<1> QED
  BY <1>1, <1>2, <1>3, <1>4, <1>5, <1>6, <1>7, <1>8, <1>9, <1>10 DEF Next, User, WorkerStep

LEMMA UnsavedAre ==
  ASSUME NEW w, NEW n \in {1, 2}, Unsaved(w)
  PROVE  saves[<<w, n>>] # 1
<1>1. CASE n = 1
  BY <1>1 DEF Unsaved
<1>2. CASE n = 2
  BY <1>2 DEF Unsaved
<1> QED BY <1>1, <1>2

LEMMA BatchResultsAre ==
  ASSUME TypeOK, NEW w \in Workers
  PROVE  \A r : r \in BatchResults(w) <=> \E n \in {1, 2} : n <= size[w] /\ r = <<w, n>>
<1>1. size[w] \in 0..2
  BY DEF TypeOK
<1>2. \A n : n \in 1..size[w] <=> n \in {1, 2} /\ n <= size[w]
  BY <1>1
<1> QED BY <1>2 DEF BatchResults

\* Running a completion saves the results of its batch, and those only.
LEMMA CompletionSaves ==
  ASSUME TypeOK, NEW v \in Workers, Unsaved(v), OnAnalysisComplete(v), NEW w \in Workers, NEW n \in {1, 2}
  PROVE  saves'[<<w, n>>] = IF w = v /\ n <= size[v] THEN 1 ELSE saves[<<w, n>>]
<1>1. <<w, n>> \in Results
  BY DEF Results
<1>2. <<w, n>> \in BatchResults(v) <=> w = v /\ n <= size[v]
  BY BatchResultsAre
<1>3. saves'[<<w, n>>] = IF <<w, n>> \in BatchResults(v) THEN saves[<<w, n>>] + 1 ELSE saves[<<w, n>>]
  BY <1>1 DEF OnAnalysisComplete
<1>4. w = v => saves[<<w, n>>] = 0
  BY DEF Unsaved
<1> QED BY <1>2, <1>3, <1>4

\* What RunCallback finds when the callback is a completion.
LEMMA CompletionFound ==
  ASSUME SaveInv, RunCallback, Head(events).kind = "complete"
  PROVE  \E v \in Workers : /\ v = Head(events).worker /\ Completes(1, v) /\ OnAnalysisComplete(v)
                            /\ phase[v] \notin Early /\ size[v] \in 1..2 /\ Unsaved(v)
<1> DEFINE v == Head(events).worker
<1>1. events \in Seq(Callback)
  BY DEF SaveInv, TypeOK, Callback
<1>2. 1 \in 1..Len(events) /\ Head(events) = events[1] /\ v \in Workers
  BY <1>1, CallbackShifts DEF Callback
<1>3. Completes(1, v)
  BY <1>2 DEF Completes
<1>4. OnAnalysisComplete(v)
  BY DEF RunCallback
<1> HIDE DEF v
<1>5. phase[v] \notin Early /\ size[v] >= 1 /\ Unsaved(v) /\ size[v] \in 0..2
  BY <1>2, <1>3 DEF SaveInv, PendingInv, TypeOK
<1> QED BY <1>2, <1>3, <1>4, <1>5 DEF v

LEMMA PendingKept == SaveInv /\ [Next]_vars => PendingInv'
<1> SUFFICES ASSUME SaveInv, [Next]_vars PROVE PendingInv'
  OBVIOUS
<1> events \in Seq(Callback)
  BY DEF SaveInv, TypeOK, Callback
<1> Len(events) \in Nat
  BY LenProperties
<1>1. CASE ~RunCallback
  <2> OrderStep /\ PostStep
    BY <1>1, StepOrder
  <2>1. \A w \in Workers : phase[w] \notin Early => phase'[w] \notin Early /\ size'[w] = size[w]
    BY DEF OrderStep, Early
  <2>2. \A w \in Workers : Unsaved(w)' <=> Unsaved(w)
    BY DEF OrderStep, Unsaved
  <2>3. CASE UNCHANGED events
    BY <2>1, <2>2, <2>3 DEF SaveInv, PendingInv, Completes
  <2>4. ASSUME NEW k \in {"complete", "progress", "error", "settext"}, NEW v \in Workers, Post(k, v),
               k = "complete" => phase[v] = "post" /\ phase'[v] = "finally"
        PROVE  PendingInv'
    <3>1. /\ Len(events') = Len(events) + 1 /\ \A i \in 1..Len(events) : events'[i] = events[i]
          /\ events'[Len(events')].kind = k /\ events'[Len(events')].worker = v
      BY <2>4, PostAppends
    <3>2. k = "complete" => /\ phase'[v] \notin Early /\ size'[v] >= 1 /\ Unsaved(v)'
                            /\ \A i \in 1..Len(events) : ~Completes(i, v)
      BY <2>2, <2>4 DEF SaveInv, PendingInv, EarlyIsUnsaved, StoredHasResults, OrderStep, Early
    <3>3. \A i \in 1..Len(events'), w \in Workers :
            Completes(i, w)' => (i \in 1..Len(events) /\ Completes(i, w)) \/ (i = Len(events') /\ w = v /\ k = "complete")
      BY <3>1 DEF Completes
    <3>4. \A i \in 1..Len(events), w \in Workers :
            Completes(i, w) => phase[w] \notin Early /\ size[w] >= 1 /\ Unsaved(w)
      BY DEF SaveInv, PendingInv
    <3>5. \A i, j \in 1..Len(events), w \in Workers : Completes(i, w) /\ Completes(j, w) => i = j
      BY DEF SaveInv, PendingInv
    <3>6. \A i \in 1..Len(events'), w \in Workers :
            Completes(i, w)' => phase'[w] \notin Early /\ size'[w] >= 1 /\ Unsaved(w)'
      BY <2>1, <2>2, <3>2, <3>3, <3>4
    <3>7. \A i, j \in 1..Len(events'), w \in Workers : Completes(i, w)' /\ Completes(j, w)' => i = j
      BY <3>2, <3>3, <3>5
    <3> QED BY <3>6, <3>7 DEF PendingInv, Early
  <2> QED BY <2>3, <2>4 DEF PostStep
<1>2. CASE RunCallback
  <2>1. /\ Len(events') = Len(events) - 1 /\ Len(events) \in Nat \ {0}
        /\ \A i \in 1..Len(events') : events'[i] = events[i + 1]
    BY <1>2, CallbackShifts
  <2>2. UNCHANGED <<phase, size>>
    BY <1>2 DEF RunCallback
  <2>3. \A i \in 1..Len(events'), w \in Workers : Completes(i, w)' => i + 1 \in 2..Len(events) /\ Completes(i + 1, w)
    BY <2>1 DEF Completes
  <2>4. \A i \in 2..Len(events), w \in Workers : Completes(i, w) => Unsaved(w)'
    <3> SUFFICES ASSUME NEW i \in 2..Len(events), NEW w \in Workers, Completes(i, w) PROVE Unsaved(w)'
      OBVIOUS
    <3>1. Unsaved(w)
      BY DEF SaveInv, PendingInv
    <3>2. CASE Head(events).kind = "complete"
      <4>1. PICK v \in Workers : Completes(1, v) /\ OnAnalysisComplete(v) /\ Unsaved(v)
        BY <1>2, <3>2, CompletionFound
      <4>2. w # v
        BY <2>1, <4>1 DEF SaveInv, PendingInv
      <4> QED BY <3>1, <4>1, <4>2, CompletionSaves DEF Unsaved, SaveInv
    <3>3. CASE Head(events).kind # "complete"
      BY <1>2, <3>1, <3>3 DEF RunCallback, Unsaved
    <3> QED BY <3>2, <3>3
  <2>5. \A i \in 1..Len(events'), w \in Workers :
          Completes(i, w)' => phase'[w] \notin Early /\ size'[w] >= 1 /\ Unsaved(w)'
    BY <2>2, <2>3, <2>4 DEF SaveInv, PendingInv
  <2>6. \A i, j \in 1..Len(events'), w \in Workers : Completes(i, w)' /\ Completes(j, w)' => i = j
    <3> SUFFICES ASSUME NEW i \in 1..Len(events'), NEW j \in 1..Len(events'), NEW w \in Workers,
                        Completes(i, w)', Completes(j, w)'
                 PROVE  i = j
      OBVIOUS
    <3>1. i + 1 \in 1..Len(events) /\ j + 1 \in 1..Len(events) /\ Completes(i + 1, w) /\ Completes(j + 1, w)
      BY <2>3
    <3>2. i + 1 = j + 1
      BY <3>1 DEF SaveInv, PendingInv
    <3> QED BY <2>1, <3>2
  <2> QED BY <2>5, <2>6 DEF PendingInv, Early
<1> QED BY <1>1, <1>2

\* What RunCallback does to the counts: the batch of one worker, none of it
\* saved before, is saved once; or nothing changes.
LEMMA CallbackSaves ==
  ASSUME SaveInv, RunCallback
  PROVE  /\ UNCHANGED <<phase, size>>
         /\ \/ UNCHANGED <<shown, panel, rows, saves>>
            \/ \E v \in Workers :
                 /\ phase[v] \notin Early /\ size[v] \in 1..2 /\ Unsaved(v)
                 /\ shown' = <<v, 1>> /\ panel' = v /\ rows' = rows \cup BatchResults(v)
                 /\ \A w \in Workers : \A n \in {1, 2} :
                      saves'[<<w, n>>] = IF w = v /\ n <= size[v] THEN 1 ELSE saves[<<w, n>>]
<1>1. UNCHANGED <<phase, size>>
  BY DEF RunCallback
<1>2. CASE Head(events).kind = "complete"
  <2>1. PICK v \in Workers : OnAnalysisComplete(v) /\ phase[v] \notin Early /\ size[v] \in 1..2 /\ Unsaved(v)
    BY <1>2, CompletionFound
  <2>2. \A w \in Workers : \A n \in {1, 2} :
          saves'[<<w, n>>] = IF w = v /\ n <= size[v] THEN 1 ELSE saves[<<w, n>>]
    BY <2>1, CompletionSaves DEF SaveInv
  <2>3. shown' = <<v, 1>> /\ panel' = v /\ rows' = rows \cup BatchResults(v)
    BY <2>1 DEF OnAnalysisComplete
  <2> QED BY <1>1, <2>1, <2>2, <2>3
<1>3. CASE Head(events).kind # "complete"
  BY <1>1, <1>3 DEF RunCallback
<1> QED BY <1>2, <1>3

LEMMA SavesKept == SaveInv /\ [Next]_vars => EarlyIsUnsaved' /\ StoredHasResults' /\ SavedIsResult'
<1> SUFFICES ASSUME SaveInv, [Next]_vars PROVE EarlyIsUnsaved' /\ StoredHasResults' /\ SavedIsResult'
  OBVIOUS
<1> USE DEF SaveInv
<1>1. CASE ~RunCallback
  <2> OrderStep
    BY <1>1, StepOrder
  <2>1. EarlyIsUnsaved' /\ StoredHasResults'
    BY DEF OrderStep, EarlyIsUnsaved, StoredHasResults, Unsaved
  <2>2. \A w \in Workers : \A n \in {1, 2} : saves[<<w, n>>] # 0 => size'[w] = size[w]
    BY DEF OrderStep, EarlyIsUnsaved, Unsaved, Early
  <2> QED BY <2>1, <2>2 DEF SavedIsResult, OrderStep
<1>2. CASE RunCallback
  <2>1. UNCHANGED <<phase, size>>
    BY <1>2, CallbackSaves
  <2>2. CASE UNCHANGED saves
    BY <2>1, <2>2 DEF EarlyIsUnsaved, StoredHasResults, SavedIsResult, Unsaved
  <2>3. ASSUME NEW v \in Workers, phase[v] \notin Early,
               \A w \in Workers : \A n \in {1, 2} :
                 saves'[<<w, n>>] = IF w = v /\ n <= size[v] THEN 1 ELSE saves[<<w, n>>]
        PROVE  EarlyIsUnsaved' /\ StoredHasResults' /\ SavedIsResult'
    BY <2>1, <2>3 DEF EarlyIsUnsaved, StoredHasResults, SavedIsResult, Unsaved
  <2> QED BY <1>2, <2>2, <2>3, CallbackSaves
<1> QED BY <1>1, <1>2

LEMMA OfferedKept == SaveInv /\ [Next]_vars => OfferedIsSaved'
<1> SUFFICES ASSUME SaveInv, [Next]_vars PROVE OfferedIsSaved'
  OBVIOUS
<1> TypeOK /\ EarlyIsUnsaved /\ OfferedIsSaved
  BY DEF SaveInv
<1> Nothing \notin Workers \cup Results
  BY NothingAssumption
<1>1. CASE ~RunCallback
  <2> OrderStep
    BY <1>1, StepOrder
  <2>1. panel # Nothing => size'[panel] = size[panel]
    <3> SUFFICES ASSUME panel # Nothing PROVE size'[panel] = size[panel]
      OBVIOUS
    <3>1. panel \in Workers /\ size[panel] >= 1
      BY DEF TypeOK, OfferedIsSaved
    <3>2. <<panel, 1>> \in BatchResults(panel)
      BY <3>1, BatchResultsAre
    <3>3. saves[<<panel, 1>>] = 1
      BY <3>1, <3>2 DEF OfferedIsSaved
    <3>4. phase[panel] \notin Early
      BY <3>1, <3>3, UnsavedAre DEF EarlyIsUnsaved
    <3> QED BY <3>1, <3>4 DEF Early, OrderStep
  <2>2. panel' = panel => BatchResults(panel)' = BatchResults(panel) \/ panel = Nothing
    BY <2>1 DEF BatchResults
  <2>3. panel' # Nothing => size'[panel'] >= 1 /\ \A r \in BatchResults(panel)' : saves'[r] = 1
    BY <2>1, <2>2 DEF OfferedIsSaved, OrderStep
  <2> QED BY <2>3 DEF OfferedIsSaved, OrderStep
<1>2. CASE RunCallback
  <2>1. UNCHANGED <<phase, size>>
    BY <1>2, CallbackSaves
  <2>2. CASE UNCHANGED <<shown, panel, rows, saves>>
    BY <2>1, <2>2 DEF OfferedIsSaved, BatchResults
  <2>3. ASSUME NEW v \in Workers, size[v] \in 1..2,
               shown' = <<v, 1>>, panel' = v, rows' = rows \cup BatchResults(v),
               \A w \in Workers : \A n \in {1, 2} :
                 saves'[<<w, n>>] = IF w = v /\ n <= size[v] THEN 1 ELSE saves[<<w, n>>]
        PROVE  OfferedIsSaved'
    <3>1. \A r \in BatchResults(v) : saves'[r] = 1
      <4> SUFFICES ASSUME NEW r \in BatchResults(v) PROVE saves'[r] = 1
        OBVIOUS
      <4>1. PICK n \in {1, 2} : n <= size[v] /\ r = <<v, n>>
        BY BatchResultsAre
      <4> QED BY <2>3, <4>1
    <3>2. <<v, 1>> \in BatchResults(v)
      BY <2>3, BatchResultsAre
    <3>3. \A r \in rows : saves'[r] = 1
      <4> SUFFICES ASSUME NEW r \in rows PROVE saves'[r] = 1
        OBVIOUS
      <4>1. PICK w \in Workers, n \in {1, 2} : r = <<w, n>>
        BY DEF TypeOK, Results
      <4>2. saves[r] = 1
        BY DEF OfferedIsSaved
      <4> QED BY <2>3, <4>1, <4>2
    <3>4. BatchResults(panel)' = BatchResults(v)
      BY <2>1, <2>3 DEF BatchResults
    <3> QED BY <2>1, <2>3, <3>1, <3>2, <3>3, <3>4 DEF OfferedIsSaved
  <2> QED BY <1>2, <2>2, <2>3, CallbackSaves
<1> QED BY <1>1, <1>2

THEOREM SaveInvHolds == Spec => []SaveInv
<1>1. Init /\ TypeOK => SaveInv
  <2> SUFFICES ASSUME Init, TypeOK PROVE SaveInv
    OBVIOUS
  <2>1. \A w \in Workers : \A n \in {1, 2} : saves[<<w, n>>] = 0
    BY DEF Init, Results
  <2>2. Len(events) = 0
    BY EmptySeq DEF Init
  <2>3. PendingInv
    BY <2>2 DEF PendingInv
  <2>4. EarlyIsUnsaved /\ SavedIsResult
    BY <2>1 DEF EarlyIsUnsaved, SavedIsResult, Unsaved
  <2>5. StoredHasResults
    BY DEF Init, StoredHasResults
  <2>6. OfferedIsSaved
    BY DEF Init, OfferedIsSaved
  <2> QED BY <2>3, <2>4, <2>5, <2>6 DEF SaveInv
<1>2. Spec => []TypeOK
  BY TypeCorrect
<1>3. SaveInv /\ TypeOK' /\ [Next]_vars => SaveInv'
  BY PendingKept, SavesKept, OfferedKept DEF SaveInv
<1> QED
  BY <1>1, <1>2, <1>3, PTL DEF Spec

\* A result reaches the database at most once, and the tabs, the history and
\* the batch panel offer saved results only, whatever the user clicks between
\* the end of a worker and its callback.
THEOREM SavedOnceHolds == Spec => []SavedOnce
<1>1. SaveInv => SavedOnce
  <2> SUFFICES ASSUME SaveInv PROVE SavedOnce
    OBVIOUS
  <2>1. \A r \in Results : saves[r] <= 1
    <3> SUFFICES ASSUME NEW r \in Results PROVE saves[r] <= 1
      OBVIOUS
    <3>1. PICK w \in Workers, n \in {1, 2} : r = <<w, n>>
      BY DEF Results
    <3>2. saves[<<w, n>>] # 0 => saves[<<w, n>>] = 1
      BY DEF SaveInv, SavedIsResult
    <3> QED BY <3>1, <3>2
  <2>2. OfferedIsSaved
    BY DEF SaveInv
  <2> QED BY <2>1, <2>2 DEF SavedOnce, OfferedIsSaved
<1> QED
  BY <1>1, SaveInvHolds, PTL

--------------------------------------------------------------------------------
(* What Export, QR and Diff use. *)

\* The result of a worker: one of its batch, saved, or about to be posted, or
\* waiting in a callback.
Sourced(r) ==
  \E w \in Workers : \E n \in {1, 2} :
    /\ r = <<w, n>> /\ n <= size[w]
    /\ saves[r] = 1 \/ phase[w] = "post" \/ \E i \in 1..Len(events) : Completes(i, w)

AllSourced == (result # Nothing => Sourced(result)) /\ (compare # Nothing => Sourced(compare))

LEMMA SourcedKept ==
  ASSUME SaveInv, [Next]_vars, NEW r, Sourced(r)
  PROVE  Sourced(r)'
<1> events \in Seq(Callback)
  BY DEF SaveInv, TypeOK, Callback
<1> Len(events) \in Nat
  BY LenProperties
<1>1. PICK w \in Workers, n \in {1, 2} :
        /\ r = <<w, n>> /\ n <= size[w]
        /\ saves[r] = 1 \/ phase[w] = "post" \/ \E i \in 1..Len(events) : Completes(i, w)
  BY DEF Sourced
<1>2. phase[w] = "post" \/ phase[w] \notin Early
  <2>1. CASE saves[r] = 1
    <3>1. saves[<<w, n>>] = 1
      BY <1>1, <2>1
    <3> QED BY <3>1, UnsavedAre DEF SaveInv, EarlyIsUnsaved
  <2>2. ASSUME NEW i \in 1..Len(events), Completes(i, w) PROVE phase[w] \notin Early
    BY <2>2 DEF SaveInv, PendingInv
  <2> QED BY <1>1, <2>1, <2>2
<1>3. CASE ~RunCallback
  <2> OrderStep /\ PostStep
    BY <1>3, StepOrder
  <2>1. n <= size'[w] /\ saves' = saves
    BY <1>1, <1>2 DEF OrderStep, Early
  <2>2. ASSUME NEW i \in 1..Len(events), Completes(i, w) PROVE \E j \in 1..Len(events') : Completes(j, w)'
    <3>1. CASE UNCHANGED events
      BY <2>2, <3>1 DEF Completes
    <3>2. ASSUME NEW k \in {"complete", "progress", "error", "settext"}, NEW v \in Workers, Post(k, v)
          PROVE  \E j \in 1..Len(events') : Completes(j, w)'
      <4>1. Len(events') = Len(events) + 1 /\ events'[i] = events[i]
        BY <3>2, PostAppends
      <4> QED BY <2>2, <4>1 DEF Completes
    <3> QED BY <3>1, <3>2 DEF PostStep
  <2>3. phase[w] = "post" => phase'[w] = "post" \/ \E j \in 1..Len(events') : Completes(j, w)'
    <3> SUFFICES ASSUME phase[w] = "post", phase'[w] # "post" PROVE \E j \in 1..Len(events') : Completes(j, w)'
      OBVIOUS
    <3>1. PostComplete(w)
      BY DEF SaveInv, TypeOK, Next, User, WorkerStep, StartAnalysis, StartSubscription, SelectBatchResult, LoadHistory,
             DeleteSelected, Diff, Close, RunCallback, Fetch, Analyze, StoreResult, PostComplete, RunAnalysisFinally,
             RunSubscriptionFinally, vars
    <3>2. Post("complete", w)
      BY <3>1 DEF PostComplete
    <3>3. /\ Len(events') = Len(events) + 1
          /\ events'[Len(events')].kind = "complete" /\ events'[Len(events')].worker = w
      BY <3>2, PostAppends
    <3> QED BY <3>3 DEF Completes
  <2> QED BY <1>1, <2>1, <2>2, <2>3 DEF Sourced
<1>4. CASE RunCallback
  <2>1. UNCHANGED <<phase, size>>
    BY <1>4, CallbackSaves
  <2>2. /\ Len(events') = Len(events) - 1 /\ Len(events) \in Nat \ {0}
        /\ Head(events) = events[1]
        /\ \A i \in 1..Len(events') : events'[i] = events[i + 1]
    BY <1>4, CallbackShifts
  <2>3. saves[r] = 1 => saves'[r] = 1
    BY <1>1, <1>4, CallbackSaves
  <2>4. ASSUME NEW i \in 1..Len(events), Completes(i, w), i # 1
        PROVE  \E j \in 1..Len(events') : Completes(j, w)'
    <3>1. i - 1 \in 1..Len(events') /\ events'[i - 1] = events[i]
      BY <2>2, <2>4
    <3> QED BY <2>4, <3>1 DEF Completes
  <2>5. ASSUME Completes(1, w) PROVE saves'[r] = 1
    <3>1. Head(events).kind = "complete" /\ Head(events).worker = w
      BY <2>2, <2>5 DEF Completes
    <3>2. Unsaved(w) /\ OnAnalysisComplete(w)
      BY <1>4, <3>1, CompletionFound
    <3> QED BY <1>1, <3>2, CompletionSaves DEF SaveInv
  <2> QED BY <1>1, <2>1, <2>3, <2>4, <2>5 DEF Sourced
<1> QED BY <1>3, <1>4

LEMMA SavedIsSourced ==
  ASSUME SaveInv, NEW r \in Results, saves[r] = 1
  PROVE  Sourced(r)
<1>1. PICK w \in Workers, n \in {1, 2} : r = <<w, n>>
  BY DEF Results
<1>2. saves[<<w, n>>] = 1
  BY <1>1
<1>3. saves[<<w, n>>] # 0 => n <= size[w]
  BY DEF SaveInv, SavedIsResult
<1>4. n <= size[w]
  BY <1>2, <1>3
<1> QED BY <1>1, <1>4 DEF Sourced

LEMMA AllSourcedKept == SaveInv /\ AllSourced /\ SaveInv' /\ [Next]_vars => AllSourced'
<1> SUFFICES ASSUME SaveInv, AllSourced, SaveInv', [Next]_vars PROVE AllSourced'
  OBVIOUS
<1> TypeOK
  BY DEF SaveInv
<1>1. ASSUME NEW r \in {result, compare}, r # Nothing PROVE Sourced(r)'
  BY <1>1, SourcedKept DEF AllSourced
<1>2. ASSUME NEW r \in Results, SelectBatchResult(r) \/ LoadHistory(r) PROVE AllSourced'
  <2>1. saves[r] = 1
    BY <1>2 DEF SelectBatchResult, LoadHistory, SaveInv, OfferedIsSaved
  <2>2. Sourced(r)'
    BY <2>1, SavedIsSourced, SourcedKept
  <2>3. result' = r /\ compare' = compare
    BY <1>2 DEF SelectBatchResult, LoadHistory
  <2> QED BY <1>1, <2>2, <2>3 DEF AllSourced
<1>3. ASSUME NEW w \in Workers, StoreResult(w) PROVE AllSourced'
  <2>1. result' = <<w, 1>> /\ compare' = compare /\ phase'[w] = "post" /\ size'[w] = size[w]
    BY <1>3 DEF StoreResult, viewVars, TypeOK
  <2>2. size[w] >= 1
    BY <1>3 DEF StoreResult, SaveInv, StoredHasResults
  <2>3. Sourced(<<w, 1>>)'
    BY <2>1, <2>2 DEF Sourced
  <2> QED BY <1>1, <2>1, <2>3 DEF AllSourced
<1>4. CASE Diff
  BY <1>1, <1>4 DEF Diff, AllSourced
<1>5. CASE UNCHANGED <<result, compare>>
  BY <1>1, <1>5 DEF AllSourced
<1> QED
  BY <1>2, <1>3, <1>4, <1>5
  DEF Next, User, WorkerStep, StartAnalysis, StartSubscription, DeleteSelected, Close, RunCallback, Fetch,
      Analyze, PostComplete, RunAnalysisFinally, RunSubscriptionFinally, vars, viewVars

\* What Export, QR and Diff would use comes from a batch that is finished, and
\* is saved or on its way to be.
THEOREM ResultHasSourceHolds == Spec => []ResultHasSource
<1>1. Init => AllSourced
  BY DEF Init, AllSourced
<1>2. SaveInv /\ AllSourced /\ SaveInv' /\ [Next]_vars => AllSourced'
  BY AllSourcedKept
<1>3. SaveInv /\ AllSourced => ResultHasSource
  <2> SUFFICES ASSUME SaveInv, AllSourced, NEW r \in {result, compare} \ {Nothing}
               PROVE  /\ r \in BatchResults(r[1])
                      /\ \/ saves[r] = 1
                         \/ phase[r[1]] = "post"
                         \/ \E i \in DOMAIN events : events[i] = [kind |-> "complete", worker |-> r[1]]
    BY DEF ResultHasSource
  <2>1. PICK w \in Workers, n \in {1, 2} :
          /\ r = <<w, n>> /\ n <= size[w]
          /\ saves[r] = 1 \/ phase[w] = "post" \/ \E i \in 1..Len(events) : Completes(i, w)
    BY DEF AllSourced, Sourced
  <2>2. r[1] = w
    BY <2>1
  <2>3. r \in BatchResults(w)
    BY <2>1, BatchResultsAre DEF SaveInv
  <2>4. events \in Seq(Callback) /\ DOMAIN events = 1..Len(events)
    BY LenProperties DEF SaveInv, TypeOK, Callback
  <2>5. ASSUME NEW i \in 1..Len(events), Completes(i, w)
        PROVE  events[i] = [kind |-> "complete", worker |-> w]
    <3>1. events[i] \in Callback
      BY <2>4, ElementOfSeq
    <3> QED BY <2>5, <3>1 DEF Callback, Completes
  <2> QED BY <2>1, <2>2, <2>3, <2>4, <2>5
<1> QED
  BY <1>1, <1>2, <1>3, SaveInvHolds, PTL DEF Spec

--------------------------------------------------------------------------------
(* One analysis at a time. *)

Active(w) == phase[w] \in {"fetch", "analyze", "store", "post", "finally"}

\* Without a subscription the flag is held by the one worker that runs.
FlagIsHeld ==
  /\ \A w \in Workers : phase[w] \in {"fetch", "clear"} => sub[w]
  /\ (\A w \in Workers : ~sub[w]) =>
       /\ \A v, w \in Workers : Active(v) /\ Active(w) => v = w
       /\ \A w \in Workers : Active(w) => analyzing

LEMMA FlagIsHeldKept == TypeOK /\ FlagIsHeld /\ [Next]_vars => FlagIsHeld'
<1> SUFFICES ASSUME TypeOK, FlagIsHeld, [Next]_vars PROVE FlagIsHeld'
  OBVIOUS
<1> USE DEF TypeOK, FlagIsHeld, Active, viewVars
<1>1. ASSUME NEW w \in Workers, StartAnalysis(w) PROVE FlagIsHeld'
  BY <1>1 DEF StartAnalysis
<1>2. ASSUME NEW w \in Workers, StartSubscription(w) PROVE FlagIsHeld'
  BY <1>2 DEF StartSubscription
<1>3. ASSUME NEW w \in Workers, WorkerStep(w) PROVE FlagIsHeld'
  <2>1. CASE Fetch(w)
    BY <2>1 DEF Fetch
  <2>2. CASE Analyze(w)
    BY <2>2 DEF Analyze
  <2>3. CASE StoreResult(w) \/ PostComplete(w)
    BY <2>3 DEF StoreResult, PostComplete
  <2>4. CASE RunAnalysisFinally(w)
    BY <2>4 DEF RunAnalysisFinally
  <2>5. CASE RunSubscriptionFinally(w)
    BY <2>5 DEF RunSubscriptionFinally
  <2> QED BY <1>3, <2>1, <2>2, <2>3, <2>4, <2>5 DEF WorkerStep
<1>4. CASE UNCHANGED <<phase, sub, analyzing>>
  BY <1>4
<1> QED
  BY <1>1, <1>2, <1>3, <1>4
  DEF Next, User, SelectBatchResult, LoadHistory, DeleteSelected, Diff, Close, RunCallback, vars

\* As long as no subscription is fetched, the flag keeps a second analysis
\* away, which is what "Analysis already in progress." says.
THEOREM OneAnalysisFromTextHolds == Spec => []OneAnalysisFromText
<1>1. Init => FlagIsHeld
  BY DEF Init, FlagIsHeld, Active
<1>2. FlagIsHeld => OneAnalysisFromText
  <2> SUFFICES ASSUME FlagIsHeld, \A w \in Workers : ~sub[w]
               PROVE  Cardinality({w \in Workers : Running(w)}) <= 1
    BY DEF OneAnalysisFromText, OneAnalysisAtATime
  <2> DEFINE S == {w \in Workers : Running(w)}
  <2>1. \A v, w \in S : v = w
    BY DEF FlagIsHeld, Active, Running
  <2>2. S = {} \/ \E w : S = {w}
    BY <2>1
  <2> HIDE DEF S
  <2>3. Cardinality(S) \in {0, 1}
    BY <2>2, FS_EmptySet, FS_Singleton
  <2>4. Cardinality(S) <= 1
    BY <2>3
  <2> QED BY <2>4 DEF S
<1> QED
  BY <1>1, <1>2, FlagIsHeldKept, TypeCorrect, PTL DEF Spec
================================================================================
