-------------------------- MODULE BatchAnalysisProofs --------------------------
(***************************************************************************)
(* For every number of configs, every limit and every set of tasks: each   *)
(* way out of an analysis returns its permit once, so that at most Limit   *)
(* configs are between entry and exit, and no score or live test is        *)
(* computed while a task of its config still runs.                         *)
(***************************************************************************)
EXTENDS BatchAnalysis, FiniteSetTheorems, WellFoundedInduction, TLAPS

InvPhase == phase \in [Configs -> Phases]

InvPermits == permits \in Nat /\ PermitsConserved

InvLive == live \subseteq Configs \X Tasks /\ InputsComplete

IInv == InvPhase /\ InvPermits /\ InvLive

Active == {"resolve", "probe", "enrich", "xray"}

LEMMA InFlightFinite == IsFiniteSet(InFlight)
<1>1. IsFiniteSet(Configs)
  BY NAssumption, FS_Interval DEF Configs
<1> QED
  BY <1>1, FS_Subset DEF InFlight

\* A step that leaves config i in flight, or out of it, moves no permit.
LEMMA SamePermits ==
  ASSUME IInv, NEW i \in Configs, NEW p \in Phases,
         phase' = [phase EXCEPT ![i] = p], phase[i] \in Active <=> p \in Active,
         permits' = permits
  PROVE  InvPhase' /\ InvPermits'
<1>1. InvPhase'
  BY DEF IInv, InvPhase
<1>2. InFlight' = InFlight
  BY DEF InFlight, IInv, InvPhase, Active
<1> QED
  BY <1>1, <1>2 DEF IInv, InvPermits, PermitsConserved

\* Entering takes one permit.
LEMMA EnterTakesOne ==
  ASSUME IInv, NEW i \in Configs, NEW p \in Phases \cap Active,
         phase' = [phase EXCEPT ![i] = p], phase[i] \notin Active,
         permits > 0, permits' = permits - 1
  PROVE  InvPhase' /\ InvPermits'
<1>1. InvPhase'
  BY DEF IInv, InvPhase
<1>2. InFlight' = InFlight \cup {i} /\ i \notin InFlight
  BY DEF InFlight, IInv, InvPhase, Active
<1>3. Cardinality(InFlight') = Cardinality(InFlight) + 1 /\ Cardinality(InFlight) \in Nat
  BY <1>2, InFlightFinite, FS_AddElement, FS_CardinalityType
<1> QED
  BY <1>1, <1>3, LimitAssumption DEF IInv, InvPermits, PermitsConserved

\* Leaving gives one back.
LEMMA LeaveGivesOne ==
  ASSUME IInv, NEW i \in Configs, NEW p \in {"done", "raised"}, phase[i] \in Active, Leave(i, p)
  PROVE  InvPhase' /\ InvPermits' /\ phase' = [phase EXCEPT ![i] = p]
<1>1. phase' = [phase EXCEPT ![i] = p] /\ permits' = permits + 1
  BY DEF Leave
<1>2. InvPhase'
  BY <1>1 DEF IInv, InvPhase, Phases
<1>3. InFlight' = InFlight \ {i} /\ i \in InFlight
  BY <1>1 DEF InFlight, IInv, InvPhase, Active
<1>4. Cardinality(InFlight') = Cardinality(InFlight) - 1 /\ Cardinality(InFlight) \in Nat
  BY <1>3, InFlightFinite, FS_RemoveElement, FS_CardinalityType
<1> QED
  BY <1>1, <1>2, <1>4, LimitAssumption DEF IInv, InvPermits, PermitsConserved

\* Tasks may stop at any time, and their config may move among the phases
\* that tasks run in, or to any phase once it has no task.
LEMMA LiveKept ==
  ASSUME IInv, NEW i \in Configs, NEW p \in Phases,
         phase' = [phase EXCEPT ![i] = p], live' \subseteq live,
         p \in {"probe", "enrich", "raised"} \/ \A t \in Tasks : <<i, t>> \notin live
  PROVE  InvLive'
<1>1. live' \subseteq Configs \X Tasks
  BY DEF IInv, InvLive
<1>2. ASSUME NEW x \in live'
      PROVE  phase'[x[1]] \in {"probe", "enrich", "raised"}
  <2>1. x \in live /\ x[1] \in Configs /\ x[2] \in Tasks /\ x = <<x[1], x[2]>>
    BY <1>2 DEF IInv, InvLive
  <2>2. phase[x[1]] \in {"probe", "enrich", "raised"}
    BY <2>1 DEF IInv, InvLive, InputsComplete
  <2> QED BY <2>1, <2>2 DEF IInv, InvPhase
<1> QED
  BY <1>1, <1>2 DEF InvLive, InputsComplete

\* A group starts.
LEMMA GatherKept ==
  ASSUME IInv, NEW i \in Configs, NEW p \in {"probe", "enrich"}, NEW G \in SUBSET Tasks, Gather(i, G, p)
  PROVE  InvLive' /\ phase' = [phase EXCEPT ![i] = p]
<1>1. phase' = [phase EXCEPT ![i] = p] /\ live' = live \cup ({i} \X G)
  BY DEF Gather
<1>2. live' \subseteq Configs \X Tasks
  BY <1>1 DEF IInv, InvLive
<1>3. ASSUME NEW x \in live'
      PROVE  phase'[x[1]] \in {"probe", "enrich", "raised"}
  <2>1. CASE x \in {i} \X G
    BY <1>1, <2>1 DEF IInv, InvPhase
  <2>2. CASE x \in live
    <3>1. x[1] \in Configs /\ phase[x[1]] \in {"probe", "enrich", "raised"}
      BY <2>2 DEF IInv, InvLive, InputsComplete
    <3> QED BY <1>1, <3>1 DEF IInv, InvPhase
  <2> QED BY <1>1, <1>3, <2>1, <2>2
<1> QED
  BY <1>1, <1>2, <1>3 DEF InvLive, InputsComplete

LEMMA StepKept ==
  ASSUME IInv, NEW i \in Configs, Step(i)
  PROVE  IInv'
<1> USE DEF Active, Phases
<1>0. phase[i] \notin {"probe", "enrich", "raised"} => \A t \in Tasks : <<i, t>> \notin live
  BY DEF IInv, InvLive, InputsComplete
<1>1. CASE Acquire(i)
  <2>1. /\ phase[i] = "queued" /\ permits > 0 /\ permits' = permits - 1
        /\ phase' = [phase EXCEPT ![i] = "resolve"] /\ live' = live
    BY <1>1 DEF Acquire
  <2>2. InvPhase' /\ InvPermits'
    BY <2>1, EnterTakesOne
  <2>3. InvLive'
    BY <1>0, <2>1, LiveKept
  <2> QED BY <2>2, <2>3 DEF IInv
<1>2. CASE Resolve(i)
  <2>0. phase[i] = "resolve"
    BY <1>2 DEF Resolve
  <2>1. CASE Gather(i, Probes, "probe") /\ UNCHANGED permits
    <3>1. InvLive' /\ phase' = [phase EXCEPT ![i] = "probe"]
      BY <2>1, GatherKept DEF Tasks
    <3> QED BY <2>0, <2>1, <3>1, SamePermits DEF IInv
  <2>2. CASE Leave(i, "raised") /\ UNCHANGED live
    <3>1. InvPhase' /\ InvPermits' /\ phase' = [phase EXCEPT ![i] = "raised"]
      BY <2>0, <2>2, LeaveGivesOne
    <3>2. InvLive'
      BY <2>2, <3>1, LiveKept
    <3> QED BY <3>1, <3>2 DEF IInv
  <2> QED BY <1>2, <2>1, <2>2 DEF Resolve
<1>3. CASE Enrich(i)
  <2>1. phase[i] = "probe" /\ Gather(i, Enrichers, "enrich") /\ permits' = permits
    BY <1>3 DEF Enrich
  <2>2. InvLive' /\ phase' = [phase EXCEPT ![i] = "enrich"]
    BY <2>1, GatherKept DEF Tasks
  <2> QED BY <2>1, <2>2, SamePermits DEF IInv
<1>4. CASE Enriched(i)
  <2>1. /\ phase[i] = "enrich" /\ phase' = [phase EXCEPT ![i] = "xray"]
        /\ permits' = permits /\ live' = live /\ \A t \in Tasks : <<i, t>> \notin live
    BY <1>4 DEF Enriched
  <2>2. InvPhase' /\ InvPermits'
    BY <2>1, SamePermits
  <2>3. InvLive'
    BY <2>1, LiveKept
  <2> QED BY <2>2, <2>3 DEF IInv
<1>5. CASE Conclude(i)
  <2>1. phase[i] = "xray" /\ live' = live
    BY <1>5 DEF Conclude
  <2>2. ASSUME NEW p \in {"done", "raised"}, Leave(i, p)
        PROVE  IInv'
    <3>1. InvPhase' /\ InvPermits' /\ phase' = [phase EXCEPT ![i] = p]
      BY <2>1, <2>2, LeaveGivesOne
    <3>2. InvLive'
      BY <1>0, <2>1, <3>1, LiveKept
    <3> QED BY <3>1, <3>2 DEF IInv
  <2> QED BY <1>5, <2>2 DEF Conclude
<1> QED
  BY <1>1, <1>2, <1>3, <1>4, <1>5 DEF Step

LEMMA TaskStepKept ==
  ASSUME IInv, NEW i \in Configs, NEW t \in Tasks, TaskStep(i, t)
  PROVE  IInv'
<1>1. ASSUME live' \subseteq live, UNCHANGED <<phase, permits>>
      PROVE  IInv'
  BY <1>1 DEF IInv, InvPhase, InvPermits, InvLive, PermitsConserved, InFlight, InputsComplete
<1>2. CASE TaskEnds(i, t)
  BY <1>1, <1>2 DEF TaskEnds
<1>3. CASE TaskRaises(i, t)
  <2>1. live' \subseteq live
    BY <1>3 DEF TaskRaises
  <2>2. CASE phase[i] \in {"probe", "enrich"}
    <3>1. Leave(i, "raised") /\ phase[i] \in Active
      BY <1>3, <2>2 DEF TaskRaises, Active
    <3>2. InvPhase' /\ InvPermits' /\ phase' = [phase EXCEPT ![i] = "raised"]
      BY <3>1, LeaveGivesOne
    <3>3. InvLive'
      BY <2>1, <3>2, LiveKept DEF Phases
    <3> QED BY <3>2, <3>3 DEF IInv
  <2>3. CASE phase[i] \notin {"probe", "enrich"}
    BY <1>1, <1>3, <2>1, <2>3 DEF TaskRaises
  <2> QED BY <2>2, <2>3
<1> QED
  BY <1>2, <1>3 DEF TaskStep

LEMMA InitHolds == Init => IInv
<1> SUFFICES ASSUME Init PROVE IInv
  OBVIOUS
<1>1. InFlight = {}
  BY DEF Init, InFlight
<1>2. Cardinality(InFlight) = 0
  BY <1>1, FS_EmptySet
<1> QED
  BY <1>2, LimitAssumption DEF Init, IInv, InvPhase, InvPermits, InvLive, PermitsConserved, InputsComplete, Phases

LEMMA NextKept == IInv /\ [Next]_vars => IInv'
<1> SUFFICES ASSUME IInv, [Next]_vars PROVE IInv'
  OBVIOUS
<1>1. CASE Collect \/ UNCHANGED vars
  <2>1. UNCHANGED <<phase, permits, live>>
    BY <1>1 DEF Collect, vars
  <2> QED
    BY <2>1 DEF IInv, InvPhase, InvPermits, InvLive, PermitsConserved, InFlight, InputsComplete
<1>2. CASE Return
  <2>1. UNCHANGED <<phase, permits>> /\ live' = {}
    BY <1>2 DEF Return
  <2> QED
    BY <2>1 DEF IInv, InvPhase, InvPermits, InvLive, PermitsConserved, InFlight, InputsComplete
<1> QED
  BY <1>1, <1>2, StepKept, TaskStepKept DEF Next

\* The inductive invariant of the batch.
THEOREM Inductive == Spec => []IInv
  BY InitHolds, NextKept, PTL DEF Spec

\* "async with sem": whatever raises where, permits are neither lost nor
\* given back twice.
THEOREM PermitsConservedHolds == Spec => []PermitsConserved
<1>1. IInv => PermitsConserved
  BY DEF IInv, InvPermits
<1> QED
  BY <1>1, Inductive, PTL

\* No task of a config runs while its scores and its live test are computed.
THEOREM InputsCompleteHolds == Spec => []InputsComplete
<1>1. IInv => InputsComplete
  BY DEF IInv, InvLive
<1> QED
  BY <1>1, Inductive, PTL

--------------------------------------------------------------------------------
(* The loop over the outcomes. *)

\* Induction over the naturals, for a set in place of a predicate: the least number
\* outside the set would be the successor of one in it.
LEMMA NatSetInduction ==
  ASSUME NEW T, 0 \in T, \A n \in Nat : n \in T => n + 1 \in T
  PROVE  \A n \in Nat : n \in T
<1> DEFINE B == {n \in Nat : n \notin T}
<1> SUFFICES ASSUME B # {} PROVE FALSE
  OBVIOUS
<1>1. PICK b \in B : \A y \in B : ~(<<y, b>> \in OpToRel(<, Nat))
  BY NatLessThanWellFounded, WFMin
<1>2. b \in Nat /\ b # 0 /\ b \notin T
  OBVIOUS
<1>3. b - 1 \in Nat /\ b - 1 < b /\ (b - 1) + 1 = b
  BY <1>2
<1>4. <<b - 1, b>> \in OpToRel(<, Nat)
  BY <1>2, <1>3 DEF OpToRel
<1>5. b - 1 \in T
  BY <1>1, <1>3, <1>4
<1> QED BY <1>2, <1>3, <1>5

\* Nothing sorted yet, and one turn of the loop.
Unsorted == [results |-> <<>>, errors |-> <<>>]

Turn(o, k) ==
  IF phase[k] = "done" THEN [o EXCEPT !.results = Append(@, k)] ELSE [o EXCEPT !.errors = Append(@, k)]

\* The loop is well defined: its first n turns are, for every n.
LEMMA LoopExists == \E f : f = [k \in 0..N |-> IF k = 0 THEN Unsorted ELSE Turn(f[k - 1], k)]
<1> DEFINE UpTo(f, n) == f = [k \in 0..n |-> IF k = 0 THEN Unsorted ELSE Turn(f[k - 1], k)]
           T == {n \in Nat : \E f : UpTo(f, n)}
<1>1. 0 \in T
  <2> DEFINE f == [k \in 0..0 |-> Unsorted]
  <2>1. UpTo(f, 0)
    OBVIOUS
  <2> QED BY <2>1
<1>2. ASSUME NEW n \in Nat, n \in T PROVE n + 1 \in T
  <2>1. PICK f : UpTo(f, n)
    BY <1>2
  <2> DEFINE g == [k \in 0..(n + 1) |-> IF k <= n THEN f[k] ELSE Turn(f[n], n + 1)]
  <2>2. \A k \in 0..(n + 1) : g[k] = IF k <= n THEN f[k] ELSE Turn(f[n], n + 1)
    OBVIOUS
  <2>3. \A k \in 0..n : f[k] = IF k = 0 THEN Unsorted ELSE Turn(f[k - 1], k)
    BY <2>1
  <2>4. ASSUME NEW k \in 0..(n + 1)
        PROVE  g[k] = IF k = 0 THEN Unsorted ELSE Turn(g[k - 1], k)
    <3>1. CASE k = 0
      BY <2>2, <2>3, <3>1
    <3>2. CASE k # 0 /\ k <= n
      <4>1. k - 1 \in 0..(n + 1) /\ k - 1 <= n /\ k \in 0..n
        BY <3>2
      <4>2. g[k - 1] = f[k - 1] /\ g[k] = f[k]
        BY <2>2, <3>2, <4>1
      <4> QED BY <2>3, <3>2, <4>1, <4>2
    <3>3. CASE k = n + 1
      <4>1. n \in 0..(n + 1) /\ n <= n /\ ~(k <= n) /\ k - 1 = n /\ k # 0
        BY <3>3
      <4>2. g[n] = f[n] /\ g[k] = Turn(f[n], k)
        BY <2>2, <3>3, <4>1
      <4> QED BY <4>1, <4>2
    <3> QED BY <3>1, <3>2, <3>3
  <2>5. g = [k \in 0..(n + 1) |-> g[k]]
    OBVIOUS
  <2> HIDE DEF g
  <2>6. UpTo(g, n + 1)
    BY <2>4, <2>5
  <2> HIDE DEF UpTo
  <2>7. \E h : UpTo(h, n + 1)
    BY <2>6
  <2> QED BY <2>7
<1>3. \A n \in Nat : n \in T
  <2> HIDE DEF T
  <2> QED BY <1>1, <1>2, NatSetInduction
<1> QED BY <1>3, NAssumption

\* Each entry follows from the one before it.
LEMMA SortedTurns ==
  /\ Sorted[0] = Unsorted
  /\ \A k \in Configs : Sorted[k] = Turn(Sorted[k - 1], k)
<1> DEFINE Loop(f) == [k \in 0..N |-> IF k = 0 THEN Unsorted ELSE Turn(f[k - 1], k)]
<1>1. Sorted = CHOOSE f : f = Loop(f)
  BY DEF Sorted, Turn, Unsorted
<1>2. Sorted = Loop(Sorted)
  BY <1>1, LoopExists
<1>3. \A k \in 0..N : Sorted[k] = IF k = 0 THEN Unsorted ELSE Turn(Sorted[k - 1], k)
  BY <1>2
<1>4. 0 \in 0..N /\ \A k \in Configs : k \in 0..N /\ k # 0
  BY NAssumption DEF Configs
<1> QED BY <1>3, <1>4

\* What one of the two lists holds: the numbers up to k that it is to hold, in order.
Lists(s, k, Wanted) ==
  /\ s \in Seq(1..k)
  /\ InOrder(s)
  /\ \A i \in 1..k : i \in Wanted <=> \E n \in DOMAIN s : s[n] = i

\* The next number goes to the end, or nowhere.
LEMMA ListGrows ==
  ASSUME NEW k \in Nat, NEW s, NEW Wanted, Lists(s, k, Wanted)
  PROVE  /\ k + 1 \in Wanted => Lists(Append(s, k + 1), k + 1, Wanted)
         /\ k + 1 \notin Wanted => Lists(s, k + 1, Wanted)
<1>1. s \in Seq(1..k) /\ Len(s) \in Nat /\ DOMAIN s = 1..Len(s) /\ \A n \in DOMAIN s : s[n] \in 1..k
  BY DEF Lists
<1>2. s \in Seq(1..(k + 1))
  BY <1>1
<1>3. ASSUME k + 1 \notin Wanted
      PROVE  Lists(s, k + 1, Wanted)
  <2>1. \A n \in DOMAIN s : s[n] # k + 1
    BY <1>1
  <2>2. \A i \in 1..(k + 1) : i \in 1..k \/ i = k + 1
    OBVIOUS
  <2> QED BY <1>2, <1>3, <2>1, <2>2 DEF Lists
<1>4. ASSUME k + 1 \in Wanted
      PROVE  Lists(Append(s, k + 1), k + 1, Wanted)
  <2> DEFINE t == Append(s, k + 1)
  <2>1. /\ t \in Seq(1..(k + 1)) /\ DOMAIN t = 1..(Len(s) + 1)
        /\ t[Len(s) + 1] = k + 1 /\ \A n \in DOMAIN s : t[n] = s[n]
    BY <1>1, <1>2
  <2>2. \A n \in DOMAIN t : n \in DOMAIN s \/ n = Len(s) + 1
    BY <1>1, <2>1
  <2> HIDE DEF t
  <2>3. InOrder(t)
    <3> SUFFICES ASSUME NEW m \in DOMAIN t, NEW n \in DOMAIN t, m < n PROVE t[m] < t[n]
      BY DEF InOrder
    <3>1. m \in DOMAIN s
      BY <1>1, <2>1
    <3>2. CASE n \in DOMAIN s
      BY <2>1, <3>1, <3>2 DEF Lists, InOrder
    <3>3. CASE n = Len(s) + 1
      BY <1>1, <2>1, <3>1, <3>3
    <3> QED BY <2>2, <3>2, <3>3
  <2>4. ASSUME NEW i \in 1..(k + 1)
        PROVE  i \in Wanted <=> \E n \in DOMAIN t : t[n] = i
    <3>1. CASE i = k + 1
      BY <1>1, <1>4, <2>1, <3>1
    <3>2. CASE i \in 1..k
      <4>1. \A n \in DOMAIN s : n \in DOMAIN t
        BY <1>1, <2>1
      <4>2. t[Len(s) + 1] # i
        BY <2>1, <3>2
      <4> QED BY <2>1, <2>2, <3>2, <4>1, <4>2 DEF Lists
    <3> QED BY <3>1, <3>2
  <2>5. Lists(t, k + 1, Wanted)
    BY <2>1, <2>3, <2>4 DEF Lists
  <2> QED BY <2>5 DEF t
<1> QED BY <1>3, <1>4

Done == {i \in Configs : phase[i] = "done"}

\* Before the first turn both lists are empty.
LEMMA NothingListed == ASSUME NEW Wanted PROVE Lists(<<>>, 0, Wanted)
<1>1. <<>> \in Seq(1..0) /\ DOMAIN <<>> = {} /\ 1..0 = {}
  OBVIOUS
<1> QED BY <1>1 DEF Lists, InOrder

\* After k turns the two lists have the first k configs.
LEMMA LoopSorts ==
  /\ Lists(Sorted[N].results, N, Done)
  /\ Lists(Sorted[N].errors, N, Configs \ Done)
  /\ Len(Sorted[N].results) + Len(Sorted[N].errors) = N
<1> DEFINE Right(o, k) == /\ o = [results |-> o.results, errors |-> o.errors]
                          /\ Len(o.results) + Len(o.errors) = k
                          /\ Lists(o.results, k, Done) /\ Lists(o.errors, k, Configs \ Done)
           T == {k \in Nat : k <= N => Right(Sorted[k], k)}
<1>1. 0 \in T
  <2>1. Sorted[0].results = <<>> /\ Sorted[0].errors = <<>> /\ Sorted[0] = Unsorted
    BY SortedTurns DEF Unsorted
  <2>2. Right(Sorted[0], 0)
    BY <2>1, NothingListed DEF Unsorted
  <2> QED BY <2>2
<1>2. ASSUME NEW k \in Nat, k \in T PROVE k + 1 \in T
  <2> SUFFICES ASSUME k + 1 <= N PROVE Right(Sorted[k + 1], k + 1)
    <3> HIDE DEF Right
    <3> QED OBVIOUS
  <2>0. k + 1 \in Configs /\ (k + 1) - 1 = k /\ k <= N
    BY NAssumption DEF Configs
  <2>1. Right(Sorted[k], k)
    BY <1>2, <2>0
  <2> DEFINE done == Sorted[k].results
             failed == Sorted[k].errors
  <2>5. /\ Len(done) \in Nat /\ Len(failed) \in Nat /\ Len(done) + Len(failed) = k
        /\ Len(Append(done, k + 1)) = Len(done) + 1 /\ Len(Append(failed, k + 1)) = Len(failed) + 1
    <3>1. done \in Seq(1..k) /\ failed \in Seq(1..k) /\ Len(done) + Len(failed) = k
      BY <2>1 DEF Lists
    <3> HIDE DEF done, failed
    <3> QED BY <3>1
  <2>2. Sorted[k + 1] = Turn(Sorted[k], k + 1)
    BY <2>0, SortedTurns
  <2>3. CASE phase[k + 1] = "done"
    <3>1. Sorted[k + 1] = [results |-> Append(done, k + 1), errors |-> failed]
      BY <2>1, <2>2, <2>3 DEF Turn
    <3>2. k + 1 \in Done /\ k + 1 \notin Configs \ Done
      BY <2>0, <2>3 DEF Done
    <3>3. Lists(Append(done, k + 1), k + 1, Done) /\ Lists(failed, k + 1, Configs \ Done)
      BY <2>1, <3>2, ListGrows
    <3>4. Len(Append(done, k + 1)) + Len(failed) = k + 1
      <4> HIDE DEF done, failed
      <4> QED BY <2>5
    <3>5. Sorted[k + 1].results = Append(done, k + 1) /\ Sorted[k + 1].errors = failed
      BY <3>1
    <3> QED BY <3>1, <3>3, <3>4, <3>5
  <2>4. CASE phase[k + 1] # "done"
    <3>1. Sorted[k + 1] = [results |-> done, errors |-> Append(failed, k + 1)]
      BY <2>1, <2>2, <2>4 DEF Turn
    <3>2. k + 1 \notin Done /\ k + 1 \in Configs \ Done
      BY <2>0, <2>4 DEF Done
    <3>3. Lists(done, k + 1, Done) /\ Lists(Append(failed, k + 1), k + 1, Configs \ Done)
      BY <2>1, <3>2, ListGrows
    <3>4. Len(done) + Len(Append(failed, k + 1)) = k + 1
      <4> HIDE DEF done, failed
      <4> QED BY <2>5
    <3>5. Sorted[k + 1].results = done /\ Sorted[k + 1].errors = Append(failed, k + 1)
      BY <3>1
    <3> QED BY <3>1, <3>3, <3>4, <3>5
  <2> QED BY <2>3, <2>4
<1>3. \A k \in Nat : k \in T
  <2> HIDE DEF T
  <2> QED BY <1>1, <1>2, NatSetInduction
<1>4. N \in Nat /\ N <= N
  BY NAssumption
<1>5. N \in T
  <2> HIDE DEF T
  <2> QED BY <1>3, <1>4
<1>6. Right(Sorted[N], N)
  BY <1>4, <1>5
<1> QED BY <1>6

\* Once the outcomes are collected every analysis is over, and none moves any more.
Over == call # "running" => \A i \in Configs : phase[i] \in {"done", "raised"}

\* Collecting sorts every config by how its analysis ended.
LEMMA CollectSorts ==
  ASSUME Collect
  PROVE  Partition' /\ Over'
<1>1. /\ \A i \in Configs : phase[i] \in {"done", "raised"}
      /\ results' = Sorted[N].results /\ errors' = Sorted[N].errors /\ phase' = phase
  BY DEF Collect
<1>2. Over'
  BY <1>1 DEF Over
<1>3. Lists(results', N, Done) /\ Lists(errors', N, Configs \ Done)
  BY <1>1, LoopSorts
<1>4. InOrder(results)' /\ InOrder(errors)'
  BY <1>3 DEF Lists, InOrder
<1>5. ASSUME NEW i \in Configs
      PROVE  /\ phase'[i] = "done" <=> \E k \in DOMAIN results' : results'[k] = i
             /\ phase'[i] = "raised" <=> \E k \in DOMAIN errors' : errors'[k] = i
  <2>1. i \in 1..N
    BY DEF Configs
  <2>2. phase[i] = "done" <=> i \in Done
    BY DEF Done
  <2>3. phase[i] = "raised" <=> i \in Configs \ Done
    BY <1>1 DEF Done
  <2> QED BY <1>1, <1>3, <2>1, <2>2, <2>3 DEF Lists
<1> QED BY <1>2, <1>4, <1>5 DEF Partition

LEMMA PartitionKept == Partition /\ Over /\ [Next]_vars => Partition' /\ Over'
<1> SUFFICES ASSUME Partition, Over, [Next]_vars PROVE Partition' /\ Over'
  OBVIOUS
<1>1. CASE Collect
  BY <1>1, CollectSorts
<1>2. CASE /\ UNCHANGED <<results, errors, call>>
           /\ UNCHANGED phase \/ call = "running"
  BY <1>2 DEF Partition, Over, InOrder
<1>3. CASE Return
  <2>1. UNCHANGED <<phase, results, errors>> /\ call # "running"
    BY <1>3 DEF Return
  <2> QED BY <2>1 DEF Partition, Over, InOrder
<1>4. ASSUME NEW i \in Configs, Step(i)
      PROVE  UNCHANGED <<results, errors, call>> /\ call = "running"
  <2>1. UNCHANGED <<results, errors, call>> /\ phase[i] \notin {"done", "raised"}
    BY <1>4 DEF Step, Acquire, Resolve, Enrich, Enriched, Conclude
  <2> QED BY <2>1 DEF Over
<1>5. ASSUME NEW i \in Configs, NEW t \in Tasks, TaskStep(i, t)
      PROVE  /\ UNCHANGED <<results, errors, call>>
             /\ UNCHANGED phase \/ call = "running"
  <2>1. CASE TaskEnds(i, t)
    BY <2>1 DEF TaskEnds
  <2>2. CASE TaskRaises(i, t)
    <3>1. UNCHANGED <<results, errors, call>>
      BY <2>2 DEF TaskRaises
    <3>2. CASE phase[i] \in {"probe", "enrich"}
      BY <3>1, <3>2 DEF Over
    <3>3. CASE phase[i] \notin {"probe", "enrich"}
      BY <2>2, <3>1, <3>3 DEF TaskRaises
    <3> QED BY <3>2, <3>3
  <2> QED BY <1>5, <2>1, <2>2 DEF TaskStep
<1>6. CASE UNCHANGED vars
  BY <1>2, <1>6 DEF vars
<1> QED
  BY <1>1, <1>2, <1>3, <1>4, <1>5, <1>6 DEF Next

\* However the analyses end and in whatever order, each config of the input is among
\* the results or among the errors, once and in the order of the input.
THEOREM PartitionHolds == Spec => []Partition
<1>1. Init => Partition /\ Over
  BY DEF Init, Partition, Over
<1> QED
  BY <1>1, PartitionKept, PTL DEF Spec

\* gather with return_exceptions loses no outcome: when the batch is collected there are
\* as many results and errors as configs. BatchReturns adds that it will be.
THEOREM NoOutcomeLost == Spec => [](call # "running" => Len(results) + Len(errors) = N)
<1> DEFINE Counted == call # "running" => Len(results) + Len(errors) = N
<1>1. Init => Counted
  BY DEF Init
<1>2. Counted /\ [Next]_vars => Counted'
  <2> SUFFICES ASSUME Counted, [Next]_vars PROVE Counted'
    OBVIOUS
  <2>1. CASE Collect
    BY <2>1, LoopSorts DEF Collect
  <2>2. CASE Return
    BY <2>2 DEF Return
  <2>3. CASE UNCHANGED <<results, errors, call>>
    BY <2>3
  <2> QED
    BY <2>1, <2>2, <2>3 DEF Next, Step, Acquire, Resolve, Enrich, Enriched, Conclude, TaskStep, TaskEnds, TaskRaises, vars
<1> QED
  BY <1>1, <1>2, PTL DEF Spec

--------------------------------------------------------------------------------
(* The limit. *)

\* Every task belongs to an analysis that waits for its group.
Attended == \A x \in live : phase[x[1]] \in {"probe", "enrich"}

\* A config that moves on has no task then, or only those that it starts.
LEMMA AttendedKept ==
  ASSUME IInv, Attended, NEW i \in Configs, NEW p, phase' = [phase EXCEPT ![i] = p],
         \A x \in live' : IF x[1] = i THEN p \in {"probe", "enrich"} ELSE x \in live
  PROVE  Attended'
<1> SUFFICES ASSUME NEW x \in live' PROVE phase'[x[1]] \in {"probe", "enrich"}
  BY DEF Attended
<1>1. CASE x[1] = i
  BY <1>1 DEF IInv, InvPhase
<1>2. CASE x[1] # i
  <2>1. x \in live /\ x[1] \in Configs
    BY <1>2 DEF IInv, InvLive
  <2> QED BY <1>2, <2>1 DEF Attended, IInv, InvPhase
<1> QED BY <1>1, <1>2

LEMMA StepAttended ==
  ASSUME IInv, Attended, NEW i \in Configs, Step(i)
  PROVE  Attended'
<1>1. live \subseteq Configs \X Tasks
  BY DEF IInv, InvLive
<1>2. (\A t \in Tasks : <<i, t>> \notin live) => \A x \in live : x[1] # i
  BY <1>1
<1>3. phase[i] \notin {"probe", "enrich"} => \A x \in live : x[1] # i
  BY DEF Attended
<1>4. ASSUME NEW G \in SUBSET Tasks, NEW p \in {"probe", "enrich"}, Gather(i, G, p) PROVE Attended'
  <2>1. phase' = [phase EXCEPT ![i] = p] /\ live' = live \cup ({i} \X G)
    BY <1>4 DEF Gather
  <2>2. \A x \in live' : IF x[1] = i THEN p \in {"probe", "enrich"} ELSE x \in live
    BY <2>1
  <2> QED BY <2>1, <2>2, AttendedKept
<1>5. ASSUME NEW p, phase' = [phase EXCEPT ![i] = p], live' = live, \A x \in live : x[1] # i PROVE Attended'
  BY <1>5, AttendedKept
<1>6. CASE Acquire(i)
  BY <1>3, <1>5, <1>6 DEF Acquire
<1>7. CASE Resolve(i)
  <2>1. CASE Gather(i, Probes, "probe")
    BY <1>4, <2>1 DEF Tasks
  <2>2. CASE Leave(i, "raised") /\ UNCHANGED live
    BY <1>3, <1>5, <1>7, <2>2 DEF Resolve, Leave
  <2> QED BY <1>7, <2>1, <2>2 DEF Resolve
<1>8. CASE Enrich(i)
  BY <1>4, <1>8 DEF Enrich, Tasks
<1>9. CASE Enriched(i)
  BY <1>2, <1>5, <1>9 DEF Enriched
<1>10. CASE Conclude(i)
  BY <1>3, <1>5, <1>10 DEF Conclude, Leave
<1> QED BY <1>6, <1>7, <1>8, <1>9, <1>10 DEF Step

\* Only an exception in a task takes a config past the limit: where no task of a group
\* raises, the semaphore bounds the configs being worked on, tasks included.
THEOREM WithinLimitHolds == MayRaise = {} => (Spec => []WithinLimit)
<1> SUFFICES ASSUME MayRaise = {} PROVE Spec => []WithinLimit
  OBVIOUS
<1>1. Init => Attended
  BY DEF Init, Attended
<1>2. IInv /\ Attended /\ [Next]_vars => Attended'
  <2> SUFFICES ASSUME IInv, Attended, [Next]_vars PROVE Attended'
    OBVIOUS
  <2>1. ASSUME NEW i \in Configs, NEW t \in Tasks, TaskStep(i, t) PROVE Attended'
    <3>1. live' \subseteq live /\ phase' = phase
      BY <2>1 DEF TaskStep, TaskEnds, TaskRaises
    <3> QED BY <3>1 DEF Attended
  <2>2. CASE Collect \/ UNCHANGED vars
    BY <2>2 DEF Collect, vars, Attended
  <2>3. CASE Return
    BY <2>3 DEF Return, Attended
  <2> QED BY <2>1, <2>2, <2>3, StepAttended DEF Next
<1>3. IInv /\ Attended => WithinLimit
  <2> SUFFICES ASSUME IInv, Attended PROVE WithinLimit
    OBVIOUS
  <2>1. \A i \in Configs, t \in Tasks : <<i, t>> \in live => i \in InFlight
    BY DEF Attended, InFlight
  <2>2. {i \in Configs : i \in InFlight \/ \E t \in Tasks : <<i, t>> \in live} = InFlight
    BY <2>1 DEF InFlight
  <2>3. Cardinality(InFlight) \in Nat
    BY InFlightFinite, FS_CardinalityType
  <2>4. Cardinality(InFlight) <= Limit
    BY <2>3, LimitAssumption DEF IInv, InvPermits, PermitsConserved
  <2> QED BY <2>2, <2>4 DEF WithinLimit
<1> QED
  BY <1>1, <1>2, <1>3, Inductive, PTL DEF Spec

--------------------------------------------------------------------------------
(* Types. *)

\* The semaphore never admits more than Limit configs and never goes negative, and the lists
\* name configs of the input.
THEOREM TypeCorrect == Spec => []TypeOK
<1>1. IInv => permits \in 0..Limit
  <2> SUFFICES ASSUME IInv PROVE permits \in 0..Limit
    OBVIOUS
  <2>1. Cardinality(InFlight) \in Nat
    BY InFlightFinite, FS_CardinalityType
  <2> QED BY <2>1, LimitAssumption DEF IInv, InvPermits, PermitsConserved
<1> DEFINE Called == /\ results \in Seq(Configs) /\ errors \in Seq(Configs)
                     /\ call \in {"running", "collected", "returned"}
<1>2. Init => Called
  BY DEF Init
<1>3. Called /\ [Next]_vars => Called'
  <2> SUFFICES ASSUME Called, [Next]_vars PROVE Called'
    OBVIOUS
  <2>1. CASE Collect
    <3>1. Sorted[N].results \in Seq(Configs) /\ Sorted[N].errors \in Seq(Configs)
      BY LoopSorts DEF Lists, Configs
    <3> QED BY <2>1, <3>1 DEF Collect
  <2>2. CASE ~Collect
    BY <2>2 DEF Next, Step, Acquire, Resolve, Enrich, Enriched, Conclude, TaskStep, TaskEnds, TaskRaises, Return, vars
  <2> QED BY <2>1, <2>2
<1>4. IInv /\ Called => TypeOK
  BY <1>1 DEF IInv, InvPhase, InvLive, TypeOK
<1> QED
  BY <1>2, <1>3, <1>4, Inductive, PTL DEF Spec
================================================================================
