----------------------------- MODULE BatchAnalysis -----------------------------
(***************************************************************************)
(* analyze_text and analyze of backend/analyzer.py on one event loop: a    *)
(* task for each config of the input, a semaphore that admits Limit of     *)
(* them, in each analysis two groups of tasks that are gathered without    *)
(* return_exceptions, and one list of results and one of errors at the     *)
(* end. Steps are what runs between two awaits.                            *)
(***************************************************************************)
EXTENDS Naturals, Sequences, FiniteSets

CONSTANTS
  N,         \* configs parsed from the input, 1..N
  Limit,     \* BATCH_PARALLEL_LIMIT
  Probes,    \* tasks of stage 3: network, connectivity, tls, traceroute, ct
  Enrichers, \* tasks of stage 4: tunnel, threat
  MayRaise   \* the tasks that can end with an exception

Configs == 1..N
Tasks == Probes \cup Enrichers

ASSUME NAssumption == N \in Nat \ {0}
ASSUME LimitAssumption == Limit \in Nat \ {0}
ASSUME TasksAssumption == IsFiniteSet(Tasks) /\ MayRaise \subseteq Tasks

VARIABLES
  phase,    \* phase[i]: where the analysis of config i is
  permits,  \* value of the semaphore
  live,     \* <<i, t>>: task t of config i runs
  results,  \* batch.results, by the config each is about
  errors,   \* batch.errors, by the config each is about
  call      \* analyze_sync: "running", "collected" (analyze_text is over), "returned"

vars == <<phase, permits, live, results, errors, call>>

Init ==
  /\ phase = [i \in Configs |-> "queued"]
  /\ permits = Limit
  /\ live = {}
  /\ results = <<>> /\ errors = <<>>
  /\ call = "running"

\* The exits of analyze, under "async with sem".
Leave(i, how) ==
  /\ phase' = [phase EXCEPT ![i] = how]
  /\ permits' = permits + 1

Gather(i, group, next) ==
  /\ phase' = [phase EXCEPT ![i] = next]
  /\ live' = live \cup ({i} \X group)

\* The semaphore is first come, first served, and the tasks came in order.
\* validate_config runs at once, then the analysis waits for DNS.
Acquire(i) ==
  /\ call = "running"
  /\ phase[i] = "queued"
  /\ \A j \in 1..(i - 1) : phase[j] # "queued"
  /\ permits > 0
  /\ permits' = permits - 1
  /\ phase' = [phase EXCEPT ![i] = "resolve"]
  /\ UNCHANGED <<live, results, errors, call>>

\* resolve_endpoint_targets: stage 3 starts, or an exception ends it all.
Resolve(i) ==
  /\ phase[i] = "resolve"
  /\ \/ Gather(i, Probes, "probe") /\ UNCHANGED permits
     \/ Leave(i, "raised") /\ UNCHANGED live
  /\ UNCHANGED <<results, errors, call>>

TaskEnds(i, t) ==
  /\ call # "returned"
  /\ <<i, t>> \in live
  /\ live' = live \ {<<i, t>>}
  /\ UNCHANGED <<phase, permits, results, errors, call>>

\* Faulty variant: the semaphore is not released when a task raises.
TaskRaisesKeepingPermit(i, t) ==
  /\ call # "returned"
  /\ <<i, t>> \in live /\ t \in MayRaise
  /\ live' = live \ {<<i, t>>}
  /\ phase' = IF phase[i] \in {"probe", "enrich"} THEN [phase EXCEPT ![i] = "raised"] ELSE phase
  /\ UNCHANGED <<permits, results, errors, call>>

\* The first exception leaves gather and analyze at once; the other tasks of
\* the group run on. An exception of one of those is dropped.
TaskRaises(i, t) ==
  /\ call # "returned"
  /\ <<i, t>> \in live /\ t \in MayRaise
  /\ live' = live \ {<<i, t>>}
  /\ IF phase[i] \in {"probe", "enrich"}
       THEN Leave(i, "raised")
       ELSE UNCHANGED <<phase, permits>>
  /\ UNCHANGED <<results, errors, call>>

\* The group of stage 3 is complete.
Enrich(i) ==
  /\ phase[i] = "probe"
  /\ \A t \in Tasks : <<i, t>> \notin live
  /\ Gather(i, Enrichers, "enrich")
  /\ UNCHANGED <<permits, results, errors, call>>

\* Faulty variant: the live test does not wait for stage 4.
EnrichedEarly(i) ==
  /\ phase[i] = "enrich"
  /\ phase' = [phase EXCEPT ![i] = "xray"]
  /\ UNCHANGED <<permits, live, results, errors, call>>

\* The group of stage 4 is complete: scores, and then the live Xray test.
Enriched(i) ==
  /\ phase[i] = "enrich"
  /\ \A t \in Tasks : <<i, t>> \notin live
  /\ phase' = [phase EXCEPT ![i] = "xray"]
  /\ UNCHANGED <<permits, live, results, errors, call>>

\* The live test, the reports, the plugins and the upload: a result, or an
\* exception of one of them.
Conclude(i) ==
  /\ phase[i] = "xray"
  /\ \/ Leave(i, "done")
     \/ Leave(i, "raised")
  /\ UNCHANGED <<live, results, errors, call>>

InOrder(s) == \A k, l \in DOMAIN s : k < l => s[k] < s[l]

\* The loop over the outcomes of gather, after the k-th: they come in the order
\* of the input, and an exception goes to the errors.
Sorted[k \in 0..N] ==
  IF k = 0 THEN [results |-> <<>>, errors |-> <<>>]
  ELSE IF phase[k] = "done" THEN [Sorted[k - 1] EXCEPT !.results = Append(@, k)]
  ELSE [Sorted[k - 1] EXCEPT !.errors = Append(@, k)]

\* Faulty variant: a failed config leaves a place in the results.
CollectAll ==
  /\ call = "running"
  /\ \A i \in Configs : phase[i] \in {"done", "raised"}
  /\ results' = [i \in Configs |-> i]
  /\ errors' = Sorted[N].errors
  /\ call' = "collected"
  /\ UNCHANGED <<phase, permits, live>>

\* gather has an outcome for each config.
Collect ==
  /\ call = "running"
  /\ \A i \in Configs : phase[i] \in {"done", "raised"}
  /\ results' = Sorted[N].results
  /\ errors' = Sorted[N].errors
  /\ call' = "collected"
  /\ UNCHANGED <<phase, permits, live>>

\* asyncio.run cancels the tasks that are left and waits for their threads.
Return ==
  /\ call = "collected"
  /\ call' = "returned"
  /\ live' = {}
  /\ UNCHANGED <<phase, permits, results, errors>>

Step(i) == Acquire(i) \/ Resolve(i) \/ Enrich(i) \/ Enriched(i) \/ Conclude(i)

TaskStep(i, t) == TaskEnds(i, t) \/ TaskRaises(i, t)

Next ==
  \/ \E i \in Configs : Step(i)
  \/ \E i \in Configs, t \in Tasks : TaskStep(i, t)
  \/ Collect \/ Return

Spec == Init /\ [][Next]_vars

\* Every await of analyze has a timeout of its own, and the loop runs.
Fairness ==
  /\ \A i \in Configs : WF_vars(Step(i))
  /\ \A i \in Configs, t \in Tasks : WF_vars(TaskStep(i, t))
  /\ WF_vars(Collect) /\ WF_vars(Return)

FairSpec == Spec /\ Fairness

--------------------------------------------------------------------------------
(* Properties. *)

Phases == {"queued", "resolve", "probe", "enrich", "xray", "done", "raised"}

InFlight == {i \in Configs : phase[i] \in {"resolve", "probe", "enrich", "xray"}}

\* The tasks of gathered groups whose analysis is over.
Orphans == {x \in live : phase[x[1]] \in {"done", "raised"}}

TypeOK ==
  /\ phase \in [Configs -> Phases]
  /\ permits \in 0..Limit
  /\ live \subseteq Configs \X Tasks
  /\ results \in Seq(Configs) /\ errors \in Seq(Configs)
  /\ call \in {"running", "collected", "returned"}

\* Each way out of an analysis gives its permit back, exactly once.
PermitsConserved == permits + Cardinality(InFlight) = Limit

\* Every config of the input is in the results or in the errors, once, in the
\* order of the input, and according to how its analysis ended.
Partition ==
  call # "running" =>
    /\ InOrder(results) /\ InOrder(errors)
    /\ \A i \in Configs :
         /\ phase[i] = "done" <=> \E k \in DOMAIN results : results[k] = i
         /\ phase[i] = "raised" <=> \E k \in DOMAIN errors : errors[k] = i

\* The scores and the live test see all of their inputs: no task of a config
\* runs beside them, and a task outlives its analysis only if that failed.
InputsComplete ==
  \A x \in live : phase[x[1]] \in {"probe", "enrich", "raised"}

\* The batch ends, whatever fails, with one outcome for each config.
BatchReturns == <>(call = "returned" /\ Len(results) + Len(errors) = N)

\* At most Limit configs are being worked on in batch mode.
WithinLimit == Cardinality({i \in Configs : i \in InFlight \/ \E t \in Tasks : <<i, t>> \in live}) <= Limit
================================================================================
