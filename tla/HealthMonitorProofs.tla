-------------------------- MODULE HealthMonitorProofs --------------------------
(***************************************************************************)
(* What HealthMonitor guarantees for every number of timers, rows and      *)
(* faults. The chain invariant needs the shape of pc beside it and nothing *)
(* about the sweeps: a thread leaves its slot only by Schedule, when the   *)
(* monitor is off, and Stop and Close turn the monitor off themselves.     *)
(***************************************************************************)
EXTENDS HealthMonitor, FiniteSetTheorems, WellFoundedInduction, TLAPS

ChainInv ==
  /\ pc \in [Timers -> PCs]
  /\ timer \in Timers \cup {None}
  /\ RunningHasChain

\* A thread that moves on without ending keeps the monitor alive.
LEMMA MoveKeepsChain ==
  ASSUME ChainInv, NEW t \in Timers, NEW p \in PCs, p # "free", pc' = [pc EXCEPT ![t] = p],
         timer' \in Timers \cup {None}
  PROVE  ChainInv'
<1>1. pc' \in [Timers -> PCs]
  BY DEF ChainInv
<1>2. pc'[t] # "free"
  BY DEF ChainInv
<1> QED
  BY <1>1, <1>2 DEF ChainInv, RunningHasChain, Live

\* stop leaves the flag off, so nothing need be alive.
LEMMA StopKeepsChain ==
  ASSUME ChainInv, Stop
  PROVE  ChainInv'
<1>1. pc' \in [Timers -> PCs]
  BY DEF ChainInv, Stop, Cancelled, PCs
<1> QED
  BY <1>1 DEF ChainInv, Stop, RunningHasChain

LEMMA TimerStepKeepsChain ==
  ASSUME ChainInv, NEW t \in Timers, TimerStep(t)
  PROVE  ChainInv'
<1> USE DEF PCs
<1>1. CASE Fire(t)
  <2>1. timer' \in Timers \cup {None} /\ pc' = [pc EXCEPT ![t] = "list"]
    BY <1>1 DEF Fire, ChainInv
  <2> QED BY <2>1, MoveKeepsChain
<1>2. CASE List(t)
  <2>1. timer' \in Timers \cup {None} /\ pc' = [pc EXCEPT ![t] = "load"]
    BY <1>2 DEF List, ChainInv
  <2> QED BY <2>1, MoveKeepsChain
<1>3. CASE Fault(t)
  <2>1. timer' \in Timers \cup {None} /\ pc' = [pc EXCEPT ![t] = "schedule"]
    BY <1>3 DEF Fault, Abort, ChainInv
  <2> QED BY <2>1, MoveKeepsChain
<1>4. CASE Load(t)
  <2>1. timer' \in Timers \cup {None}
    BY <1>4 DEF Load, ChainInv
  <2>2. CASE UNCHANGED pc
    <3>1. UNCHANGED <<open, running>>
      BY <1>4 DEF Load
    <3> QED BY <2>1, <2>2, <3>1 DEF ChainInv, RunningHasChain, Live
  <2>3. CASE \E p \in {"schedule", "check"} : pc' = [pc EXCEPT ![t] = p]
    BY <2>1, <2>3, MoveKeepsChain
  <2>4. UNCHANGED pc \/ \E p \in {"schedule", "check"} : pc' = [pc EXCEPT ![t] = p]
    BY <1>4 DEF Load, Abort
  <2> QED BY <2>2, <2>3, <2>4
<1>5. CASE Check(t)
  <2>1. timer' \in Timers \cup {None} /\ pc' = [pc EXCEPT ![t] = "load"]
    BY <1>5 DEF Check, ChainInv
  <2> QED BY <2>1, MoveKeepsChain
<1>6. CASE Schedule(t)
  <2>1. timer' \in Timers \cup {None} /\ UNCHANGED <<open, running>>
    BY <1>6 DEF Schedule, ChainInv
  <2>2. CASE running
    <3>1. pc' = [pc EXCEPT ![t] = "start"]
      BY <1>6, <2>2 DEF Schedule
    <3> QED BY <2>1, <3>1, MoveKeepsChain
  <2>3. CASE ~running
    <3>1. pc' \in [Timers -> PCs]
      BY <1>6, <2>3 DEF Schedule, ChainInv
    <3> QED BY <2>1, <2>3, <3>1 DEF ChainInv, RunningHasChain
  <2> QED BY <2>2, <2>3
<1>7. CASE StartTimer(t)
  <2>1. timer' \in Timers \cup {None} /\ pc' = [pc EXCEPT ![t] = "waiting"]
    BY <1>7 DEF StartTimer, ChainInv
  <2> QED BY <2>1, MoveKeepsChain
<1> QED
  BY <1>1, <1>2, <1>3, <1>4, <1>5, <1>6, <1>7 DEF TimerStep

LEMMA UserKeepsChain ==
  ASSUME ChainInv, User
  PROVE  ChainInv'
<1>1. CASE SettingsSaved
  <2>1. CASE Stop
    BY <2>1, StopKeepsChain
  <2>2. ASSUME NEW t \in Timers, Start(t)
        PROVE  ChainInv'
    <3>1. timer' \in Timers \cup {None} /\ pc' = [pc EXCEPT ![t] = "waiting"]
      BY <2>2 DEF Start
    <3>2. "waiting" \in PCs
      BY DEF PCs
    <3> QED BY <3>1, <3>2, MoveKeepsChain
  <2> QED BY <1>1, <2>1, <2>2 DEF SettingsSaved
<1>2. CASE SaveRow
  BY <1>2 DEF SaveRow, ChainInv, RunningHasChain, Live
<1>3. CASE Close
  BY <1>3, StopKeepsChain DEF Close
<1>4. ASSUME NEW r \in Ids, DeleteRow(r)
      PROVE  ChainInv'
  BY <1>4 DEF DeleteRow, ChainInv, RunningHasChain, Live
<1> QED
  BY <1>1, <1>2, <1>3, <1>4 DEF User

\* A monitor that is on has a thread that will check again (start, stop,
\* _run_check and _schedule in any order).
THEOREM RunningHasChainHolds == Spec => []RunningHasChain
<1>1. Init => ChainInv
  <2> SUFFICES ASSUME Init PROVE ChainInv
    OBVIOUS
  <2>1. pc \in [Timers -> PCs] /\ timer \in Timers \cup {None}
    BY DEF Init, PCs
  <2>2. running => timer \in Timers /\ pc[timer] = "waiting"
    BY DEF Init
  <2> QED BY <2>1, <2>2 DEF ChainInv, RunningHasChain, Live
<1>2. ChainInv /\ [Next]_vars => ChainInv'
  <2> SUFFICES ASSUME ChainInv, [Next]_vars PROVE ChainInv'
    OBVIOUS
  <2>1. CASE User
    BY <2>1, UserKeepsChain
  <2>2. ASSUME NEW t \in Timers, TimerStep(t) PROVE ChainInv'
    BY <2>2, TimerStepKeepsChain
  <2>3. CASE UNCHANGED vars
    BY <2>3 DEF vars, ChainInv, RunningHasChain, Live
  <2> QED BY <2>1, <2>2, <2>3 DEF Next
<1>3. ChainInv => RunningHasChain
  BY DEF ChainInv
<1> QED
  BY <1>1, <1>2, <1>3, PTL DEF Spec

\* The monitor runs exactly when the setting saved last enables it.
THEOREM RunsAsEnabledHolds == Spec => []RunsAsEnabled
<1>1. Init => RunsAsEnabled
  BY DEF Init, RunsAsEnabled
<1>2. RunsAsEnabled /\ [Next]_vars => RunsAsEnabled'
  <2> SUFFICES ASSUME RunsAsEnabled, [Next]_vars PROVE RunsAsEnabled'
    OBVIOUS
  <2>1. CASE SettingsSaved
    <3>1. \/ enabled' = TRUE /\ running' = TRUE
          \/ enabled' = FALSE /\ running' = FALSE
      BY <2>1 DEF SettingsSaved, Start, Stop
    <3>2. running' = enabled'
      <4>1. CASE enabled' = TRUE /\ running' = TRUE
        BY <4>1, Zenon
      <4>2. CASE enabled' = FALSE /\ running' = FALSE
        BY <4>2, Zenon
      <4> QED BY <3>1, <4>1, <4>2, Zenon
    <3> QED BY <3>2, Zenon DEF RunsAsEnabled
  <2>2. CASE Close
    BY <2>2 DEF Close, RunsAsEnabled
  <2>3. CASE SaveRow \/ \E r \in Ids : DeleteRow(r)
    BY <2>3 DEF SaveRow, DeleteRow, RunsAsEnabled
  <2>4. ASSUME NEW t \in Timers, TimerStep(t) PROVE RunsAsEnabled'
    BY <2>4 DEF TimerStep, Fire, List, Fault, Load, Check, Schedule, StartTimer, RunsAsEnabled
  <2>5. CASE UNCHANGED vars
    BY <2>5 DEF vars, RunsAsEnabled
  <2> QED BY <2>1, <2>2, <2>3, <2>4, <2>5 DEF Next, User
<1> QED
  BY <1>1, <1>2, PTL DEF Spec

\* No step of a sweep or of the window brings a deleted row back: ids are
\* never used twice, and update_health writes only rows that are there.
THEOREM DeletedStaysDeletedHolds == Spec => DeletedStaysDeleted
<1> DEFINE Gone == \A r \in 1..lastId : r \notin Rows => r \notin Rows'
<1>1. Init => lastId \in Nat
  BY DEF Init
<1>2. lastId \in Nat /\ [Next]_vars => lastId' \in Nat /\ (Gone \/ UNCHANGED vars)
  <2> SUFFICES ASSUME lastId \in Nat, [Next]_vars PROVE lastId' \in Nat /\ (Gone \/ UNCHANGED vars)
    OBVIOUS
  <2>1. CASE UNCHANGED <<lastId, health>>
    BY <2>1 DEF Rows
  <2>2. CASE SaveRow
    BY <2>2 DEF SaveRow, Rows
  <2>3. ASSUME NEW r \in Ids, DeleteRow(r) PROVE lastId' \in Nat /\ Gone
    BY <2>3 DEF DeleteRow, Rows
  <2>4. ASSUME NEW t \in Timers, Check(t) PROVE lastId' \in Nat /\ Gone
    BY <2>4 DEF Check, UpdateHealth, Rows
  <2>5. ASSUME NEW t \in Timers, TimerStep(t), ~Check(t) PROVE UNCHANGED <<lastId, health>>
    BY <2>5 DEF TimerStep, Fire, List, Fault, Load, Schedule, StartTimer
  <2>6. CASE SettingsSaved \/ Close
    BY <2>1, <2>6 DEF SettingsSaved, Close
  <2>7. CASE UNCHANGED vars
    BY <2>1, <2>7 DEF vars
  <2> QED BY <2>1, <2>2, <2>3, <2>4, <2>5, <2>6, <2>7 DEF Next, User
<1>3. lastId \in Nat /\ [Next]_vars => [\A r \in 1..lastId : r \notin Rows => r \notin Rows']_vars
  BY <1>2
<1>4. lastId \in Nat /\ [Next]_vars => (lastId \in Nat)'
  BY <1>2
<1> QED
  BY <1>1, <1>3, <1>4, PTL DEF Spec, DeletedStaysDeleted

--------------------------------------------------------------------------------
(* Types: the rows in the database are rows that were once inserted. *)

\* A nonempty set of naturals has a least element, and with a bound a greatest one.
LEMMA Least ==
  ASSUME NEW S \in SUBSET Nat, S # {}
  PROVE  \E m \in S : \A x \in S : m <= x
<1>1. PICK m \in S : \A y \in S : ~(<<y, m>> \in OpToRel(<, Nat))
  BY NatLessThanWellFounded, WFMin
<1>2. ASSUME NEW x \in S, ~(m <= x) PROVE FALSE
  <2>1. x \in Nat /\ m \in Nat /\ x < m
    BY <1>2
  <2>2. <<x, m>> \in OpToRel(<, Nat)
    BY <2>1 DEF OpToRel
  <2> QED BY <1>1, <2>2
<1> QED BY <1>2

LEMMA Greatest ==
  ASSUME NEW hi \in Nat, NEW S \in SUBSET (0..hi), S # {}
  PROVE  \E m \in S : \A x \in S : m >= x
<1> DEFINE T == {hi - x : x \in S}
<1>1. T \in SUBSET Nat /\ T # {}
  <2>1. \A x \in S : hi - x \in Nat
    OBVIOUS
  <2>2. PICK x \in S : TRUE
    OBVIOUS
  <2>3. hi - x \in T
    BY <2>2
  <2> QED BY <2>1, <2>3, Zenon
<1>2. PICK d \in T : \A e \in T : d <= e
  <2> HIDE DEF T
  <2> QED BY <1>1, Least
<1>3. PICK m \in S : d = hi - m
  BY <1>2
<1>4. \A x \in S : hi - x \in T
  OBVIOUS
<1>5. ASSUME NEW x \in S PROVE m >= x
  <2>1. hi - m <= hi - x
    BY <1>2, <1>3, <1>4
  <2> QED BY <2>1
<1> QED BY <1>5

\* The members of S above r.
Above(S, r) == {q \in S : q > r}

LEMMA AboveFinite ==
  ASSUME NEW hi \in Nat, NEW S \in SUBSET (0..hi), NEW r
  PROVE  IsFiniteSet(S) /\ Cardinality(S) \in Nat /\ IsFiniteSet(Above(S, r)) /\ Cardinality(Above(S, r)) \in Nat
<1>1. IsFiniteSet(0..hi)
  BY FS_Interval
<1>2. IsFiniteSet(S)
  BY <1>1, FS_Subset
<1>3. IsFiniteSet(Above(S, r))
  BY <1>2, FS_Subset DEF Above
<1> QED BY <1>2, <1>3, FS_CardinalityType

\* Every rank up to the number of members is taken: the greatest member with at least
\* k - 1 above it has no more, or the least of those above it would do as well.
LEMMA RankTaken ==
  ASSUME NEW hi \in Nat, NEW S \in SUBSET (0..hi), NEW k \in Nat, 1 <= k, k <= Cardinality(S)
  PROVE  \E r \in S : Cardinality(Above(S, r)) = k - 1
<1> DEFINE Low == {r \in S : Cardinality(Above(S, r)) >= k - 1}
<1>0. IsFiniteSet(S) /\ Cardinality(S) \in Nat /\ \A r : IsFiniteSet(Above(S, r)) /\ Cardinality(Above(S, r)) \in Nat
  BY AboveFinite
<1>9. S \in SUBSET Nat /\ \A x, y \in S : x <= y <=> ~(x > y)
  OBVIOUS
<1>1. Low # {}
  <2>1. S # {} /\ S \in SUBSET Nat
    BY <1>0, <1>9, FS_EmptySet
  <2>2. PICK m \in S : \A x \in S : m <= x
    BY <2>1, Least
  <2>3. Above(S, m) = S \ {m}
    <3>1. \A q \in S : q > m <=> q # m
      BY <2>1, <2>2
    <3> QED BY <3>1 DEF Above
  <2>4. Cardinality(Above(S, m)) = Cardinality(S) - 1
    BY <1>0, <2>2, <2>3, FS_RemoveElement
  <2>5. Cardinality(Above(S, m)) >= k - 1
    BY <1>0, <2>4
  <2> QED BY <2>2, <2>5
<1>2. PICK r \in Low : \A x \in Low : r >= x
  <2>1. Low \in SUBSET (0..hi)
    OBVIOUS
  <2> HIDE DEF Low
  <2> QED BY <1>1, <2>1, Greatest
<1>3. ASSUME Cardinality(Above(S, r)) # k - 1 PROVE FALSE
  <2>1. Cardinality(Above(S, r)) >= k
    BY <1>0, <1>2, <1>3
  <2>2. Above(S, r) # {} /\ Above(S, r) \in SUBSET Nat
    <3>1. Above(S, r) # {}
      BY <1>0, <2>1, FS_EmptySet
    <3> QED BY <1>9, <3>1 DEF Above
  <2>3. PICK m \in Above(S, r) : \A x \in Above(S, r) : m <= x
    BY <2>2, Least
  <2>4. m \in S /\ r \in S /\ m > r /\ m \in Nat /\ r \in Nat
    BY <1>2, <1>9, <2>3 DEF Above
  <2>5. Above(S, m) = Above(S, r) \ {m}
    <3>1. \A q \in S : q > m <=> q > r /\ q # m
      <4>1. \A q \in S : q > r => m <= q
        BY <2>3 DEF Above
      <4> QED BY <1>9, <2>4, <4>1
    <3> QED BY <3>1 DEF Above
  <2>6. Cardinality(Above(S, m)) = Cardinality(Above(S, r)) - 1
    BY <1>0, <2>3, <2>5, FS_RemoveElement
  <2>7. Cardinality(Above(S, m)) >= k - 1
    BY <1>0, <2>1, <2>6
  <2>8. m \in Low
    BY <2>4, <2>7
  <2> QED BY <1>2, <2>4, <2>8
<1> QED BY <1>2, <1>3

\* Fewer above is higher up.
LEMMA FewerIsHigher ==
  ASSUME NEW hi \in Nat, NEW S \in SUBSET (0..hi), NEW r \in S, NEW q \in S,
         Cardinality(Above(S, r)) < Cardinality(Above(S, q))
  PROVE  r > q
<1> SUFFICES ASSUME ~(r > q) PROVE FALSE
  OBVIOUS
<1>1. Above(S, q) \subseteq Above(S, r)
  <2>1. \A x \in S : x \in Nat
    OBVIOUS
  <2>2. \A x \in S : x > q => x > r
    BY <2>1
  <2> QED BY <2>2 DEF Above
<1>2. IsFiniteSet(Above(S, r)) /\ Cardinality(Above(S, r)) \in Nat /\ Cardinality(Above(S, q)) \in Nat
  BY AboveFinite
<1>3. Cardinality(Above(S, q)) <= Cardinality(Above(S, r))
  BY <1>1, <1>2, FS_Subset
<1> QED BY <1>2, <1>3

LEMMA MinOfTwo == ASSUME NEW a \in Nat, NEW b \in Nat PROVE Min({a, b}) \in Nat /\ Min({a, b}) <= a /\ Min({a, b}) <= b
<1>1. \E x \in {a, b} : \A y \in {a, b} : x <= y
  <2>1. CASE a <= b
    BY <2>1
  <2>2. CASE b <= a
    BY <2>2
  <2> QED BY <2>1, <2>2
<1>2. Min({a, b}) \in {a, b} /\ \A y \in {a, b} : Min({a, b}) <= y
  BY <1>1 DEF Min
<1> QED BY <1>2

\* A listing has at most Limit rows, each once and the newest first.
LEMMA ListRecentOK ==
  ASSUME TypeOK
  PROVE  /\ ListRecent \in Seq(1..lastId) /\ Len(ListRecent) <= Limit
         /\ \A k, l \in DOMAIN ListRecent : k < l => ListRecent[k] > ListRecent[l]
<1> DEFINE n == Min({Cardinality(Rows), Limit})
           kth(k) == CHOOSE r \in Rows : Cardinality(Above(Rows, r)) = k - 1
<1>1. lastId \in Nat /\ Rows \in SUBSET (0..lastId) /\ Rows \subseteq 1..lastId
  BY BoundsAssumption DEF TypeOK
<1>2. Cardinality(Rows) \in Nat
  BY <1>1, AboveFinite
<1>3. n \in Nat /\ n <= Cardinality(Rows) /\ n <= Limit
  BY <1>2, LimitAssumption, MinOfTwo
<1>4. ListRecent = [k \in 1..n |-> kth(k)]
  BY DEF ListRecent, Above
<1>5. ASSUME NEW k \in 1..n
      PROVE  kth(k) \in Rows /\ Cardinality(Above(Rows, kth(k))) = k - 1
  <2> HIDE DEF n
  <2>1. k \in Nat /\ 1 <= k /\ k <= Cardinality(Rows)
    BY <1>2, <1>3
  <2>2. \E r \in Rows : Cardinality(Above(Rows, r)) = k - 1
    BY <1>1, <2>1, RankTaken
  <2> QED BY <2>2
<1> HIDE DEF kth, n
<1>6. ListRecent \in Seq(1..lastId) /\ Len(ListRecent) = n /\ DOMAIN ListRecent = 1..n
  <2>1. \A k \in 1..n : kth(k) \in 1..lastId
    BY <1>1, <1>5
  <2> QED BY <1>3, <1>4, <2>1
<1>7. ASSUME NEW k \in 1..n, NEW l \in 1..n, k < l
      PROVE  ListRecent[k] > ListRecent[l]
  <2>1. kth(k) \in Rows /\ kth(l) \in Rows
    BY <1>5
  <2>2. Cardinality(Above(Rows, kth(k))) < Cardinality(Above(Rows, kth(l)))
    <3>1. Cardinality(Above(Rows, kth(k))) = k - 1 /\ Cardinality(Above(Rows, kth(l))) = l - 1
      BY <1>5
    <3> QED BY <1>3, <1>7, <3>1
  <2>3. kth(k) > kth(l)
    BY <1>1, <2>1, <2>2, FewerIsHigher
  <2> QED BY <1>4, <2>3
<1> QED BY <1>3, <1>6, <1>7

\* What is left of a sweep after its first row.
LEMMA TailOK ==
  ASSUME NEW n, NEW s \in Seq(1..n), s # <<>>, Len(s) <= Limit,
         \A k, l \in DOMAIN s : k < l => s[k] > s[l]
  PROVE  /\ Tail(s) \in Seq(1..n) /\ Len(Tail(s)) <= Limit
         /\ \A k, l \in DOMAIN Tail(s) : k < l => Tail(s)[k] > Tail(s)[l]
<1>1. /\ Len(s) \in Nat /\ Len(s) > 0 /\ Tail(s) \in Seq(1..n) /\ Len(Tail(s)) = Len(s) - 1
      /\ DOMAIN s = 1..Len(s) /\ DOMAIN Tail(s) = 1..(Len(s) - 1)
      /\ \A k \in 1..(Len(s) - 1) : Tail(s)[k] = s[k + 1]
  OBVIOUS
<1>2. \A k \in 1..(Len(s) - 1) : k + 1 \in 1..Len(s)
  BY <1>1
<1> QED BY <1>1, <1>2, LimitAssumption

\* A thread leaves the sweeps of the others alone, and its own has fewer rows or is new.
LEMMA SweepKept ==
  ASSUME TypeOK, NEW t \in Timers, TimerStep(t), NEW u \in Timers
  PROVE  SweepOK(u)'
<1> DEFINE Ordered(s) == /\ s \in Seq(1..lastId) /\ Len(s) <= Limit
                         /\ \A k, l \in DOMAIN s : k < l => s[k] > s[l]
<1>1. lastId' = lastId
  BY DEF TimerStep, Fire, List, Fault, Load, Check, Schedule, StartTimer
<1>2. DOMAIN todo = Timers /\ pc \in [Timers -> PCs] /\ SweepOK(u) /\ SweepOK(t)
  BY DEF TypeOK
<1>3. CASE u # t
  <2>1. todo'[u] = todo[u] /\ pc'[u] = pc[u]
    BY <1>2, <1>3 DEF TimerStep, Fire, List, Fault, Load, Check, Schedule, StartTimer, Abort
  <2> QED BY <1>1, <1>2, <2>1 DEF SweepOK
<1>4. CASE u = t
  <2>1. Ordered(todo[t]) /\ (pc[t] = "check" => todo[t] # <<>>)
    BY <1>2 DEF SweepOK
  <2>2. Ordered(<<>>)
    BY LimitAssumption
  <2>3. Ordered(ListRecent)
    BY ListRecentOK
  <2>4. todo[t] # <<>> => Ordered(Tail(todo[t]))
    BY <2>1, TailOK
  <2>5. todo'[t] = <<>> \/ todo'[t] = ListRecent \/ todo'[t] = todo[t]
        \/ (todo[t] # <<>> /\ todo'[t] = Tail(todo[t]))
    <3>1. CASE Check(t)
      BY <1>2, <2>1, <3>1 DEF Check
    <3>2. CASE Load(t)
      BY <1>2, <3>2 DEF Load, Abort
    <3>3. CASE List(t) \/ Fault(t)
      BY <1>2, <3>3 DEF List, Fault, Abort
    <3>4. CASE Fire(t) \/ Schedule(t) \/ StartTimer(t)
      BY <3>4 DEF Fire, Schedule, StartTimer
    <3> QED BY <3>1, <3>2, <3>3, <3>4 DEF TimerStep
  <2>6. pc'[t] = "check" => todo'[t] # <<>>
    <3>1. CASE Check(t)
      BY <1>2, <3>1 DEF Check
    <3>2. CASE Load(t)
      BY <1>2, <3>2 DEF Load, Abort
    <3>3. CASE List(t) \/ Fault(t) \/ Fire(t) \/ StartTimer(t)
      BY <1>2, <3>3 DEF List, Fault, Abort, Fire, StartTimer
    <3>4. CASE Schedule(t)
      BY <1>2, <2>1, <3>4 DEF Schedule
    <3> QED BY <3>1, <3>2, <3>3, <3>4 DEF TimerStep
  <2> HIDE DEF Ordered
  <2>7. Ordered(todo'[t])
    BY <2>1, <2>2, <2>3, <2>4, <2>5
  <2> QED BY <1>1, <1>4, <2>6, <2>7 DEF SweepOK, Ordered
<1> QED BY <1>3, <1>4

LEMMA PcTyped ==
  ASSUME TypeOK
  PROVE  \A t \in Timers, p \in PCs : [pc EXCEPT ![t] = p] \in [Timers -> PCs]
BY DEF TypeOK

THEOREM TypeCorrect == Spec => []TypeOK
<1>1. Init => TypeOK
  <2> SUFFICES ASSUME Init PROVE TypeOK
    OBVIOUS
  <2>1. Rows = {}
    BY DEF Init, Rows
  <2>2. timer \in Timers \cup {None} /\ pc \in [Timers -> PCs]
    BY DEF Init, PCs
  <2>3. 0 \in 0..MaxRows /\ 0 \in 0..MaxFaults
    BY BoundsAssumption
  <2>4. open \in BOOLEAN /\ enabled \in BOOLEAN /\ running \in BOOLEAN
    BY DEF Init
  <2>5. DOMAIN todo = Timers /\ lastId = 0 /\ faults = 0
    BY DEF Init
  <2>6. \A t \in Timers : SweepOK(t)
    <3>1. \A t \in Timers : todo[t] = <<>> /\ pc[t] # "check"
      BY DEF Init
    <3>2. <<>> \in Seq(1..lastId) /\ Len(<<>>) = 0 /\ DOMAIN <<>> = {}
      OBVIOUS
    <3>3. Len(<<>>) <= Limit
      BY <3>2, LimitAssumption
    <3>4. ASSUME NEW t \in Timers PROVE SweepOK(t)
      BY <3>1, <3>2, <3>3 DEF SweepOK
    <3> QED BY <3>4
  <2> QED BY <2>1, <2>2, <2>3, <2>4, <2>5, <2>6 DEF TypeOK
<1>2. TypeOK /\ [Next]_vars => TypeOK'
  <2> SUFFICES ASSUME TypeOK, [Next]_vars PROVE TypeOK'
    OBVIOUS
  <2>0. lastId \in Nat /\ MaxRows \in Nat /\ MaxFaults \in Nat
    BY BoundsAssumption DEF TypeOK
  <2>7. ASSUME todo' = todo, lastId <= lastId', lastId' \in Nat, \A t \in Timers : pc'[t] = "check" => pc[t] = "check"
        PROVE  \A t \in Timers : SweepOK(t)'
    <3>1. ASSUME NEW t \in Timers PROVE SweepOK(t)'
      <4>1. SweepOK(t)
        BY DEF TypeOK
      <4>2. \A s \in Seq(1..lastId) : s \in Seq(1..lastId')
        BY <2>0, <2>7
      <4> QED BY <2>7, <4>1, <4>2 DEF SweepOK
    <3> QED BY <3>1
  <2>1. CASE SettingsSaved
    <3>1. pc' \in [Timers -> PCs] /\ timer' \in Timers \cup {None}
      BY <2>1 DEF SettingsSaved, Start, Stop, Cancelled, TypeOK, PCs
    <3>2. enabled' \in BOOLEAN /\ running' \in BOOLEAN /\ UNCHANGED <<open, todo, lastId, health, faults>>
      BY <2>1 DEF SettingsSaved, Start, Stop
    <3>3. \A t \in Timers : pc'[t] = "check" => pc[t] = "check"
      BY <2>1 DEF SettingsSaved, Start, Stop, Cancelled, TypeOK
    <3> QED BY <2>0, <2>7, <3>1, <3>2, <3>3 DEF TypeOK, Rows
  <2>2. CASE SaveRow
    <3>1. lastId' = lastId + 1 /\ lastId' \in 0..MaxRows /\ Rows' = Rows \cup {lastId'}
      BY <2>0, <2>2 DEF SaveRow, TypeOK, Rows
    <3>2. \A r \in Rows' : health'[r] = IF r \in Rows THEN health[r] ELSE "unknown"
      BY <2>2, <3>1 DEF SaveRow
    <3>3. UNCHANGED <<open, enabled, running, timer, pc, todo, faults>>
      BY <2>2 DEF SaveRow
    <3> QED BY <2>0, <2>7, <3>1, <3>2, <3>3 DEF TypeOK
  <2>3. ASSUME NEW r \in Ids, DeleteRow(r) PROVE TypeOK'
    <3>1. Rows' = Rows \ {r} /\ \A q \in Rows' : health'[q] = health[q]
      BY <2>3 DEF DeleteRow, Rows
    <3>2. UNCHANGED <<open, enabled, running, timer, pc, todo, lastId, faults>>
      BY <2>3 DEF DeleteRow
    <3>3. \A t \in Timers : SweepOK(t)'
      BY <2>0, <2>7, <3>2
    <3> QED BY <3>1, <3>2, <3>3 DEF TypeOK
  <2>4. CASE Close
    <3>1. pc' \in [Timers -> PCs]
      BY <2>4 DEF Close, Stop, Cancelled, TypeOK, PCs
    <3>2. open' = FALSE /\ running' = FALSE /\ UNCHANGED <<enabled, timer, todo, lastId, health, faults>>
      BY <2>4 DEF Close, Stop
    <3>3. \A t \in Timers : pc'[t] = "check" => pc[t] = "check"
      BY <2>4 DEF Close, Stop, Cancelled, TypeOK
    <3>4. \A t \in Timers : SweepOK(t)'
      BY <2>0, <2>7, <3>2, <3>3
    <3> QED BY <3>1, <3>2, <3>4 DEF TypeOK, Rows
  <2>5. ASSUME NEW t \in Timers, TimerStep(t) PROVE TypeOK'
    <3>1. pc' \in [Timers -> PCs]
      <4>1. \/ UNCHANGED pc
            \/ \E p \in PCs : pc' = [pc EXCEPT ![t] = p]
        BY <2>5 DEF TimerStep, Fire, List, Fault, Load, Check, Schedule, StartTimer, Abort, PCs
      <4> QED BY <4>1, PcTyped DEF TypeOK
    <3>2. DOMAIN todo' = Timers
      BY <2>5 DEF TimerStep, Fire, List, Fault, Load, Check, Schedule, StartTimer, Abort, TypeOK
    <3>3. faults' \in 0..MaxFaults
      BY <2>0, <2>5 DEF TimerStep, Fire, List, Fault, Load, Check, Schedule, StartTimer, TypeOK
    <3>4. timer' \in {timer, t} /\ UNCHANGED <<open, enabled, running, lastId>>
      BY <2>5 DEF TimerStep, Fire, List, Fault, Load, Check, Schedule, StartTimer
    <3>5. Rows' = Rows /\ \A r \in Rows : health'[r] \in {"unknown", "OK", "DEGRADED"}
      <4>1. CASE UNCHANGED health
        BY <4>1 DEF TypeOK, Rows
      <4>2. ASSUME NEW status \in {"OK", "DEGRADED"}, NEW row, UpdateHealth(row, status)
            PROVE  Rows' = Rows /\ \A r \in Rows : health'[r] \in {"unknown", "OK", "DEGRADED"}
        BY <4>2 DEF UpdateHealth, TypeOK, Rows
      <4> QED
        BY <2>5, <4>1, <4>2 DEF TimerStep, Fire, List, Fault, Load, Check, Schedule, StartTimer
    <3>6. \A u \in Timers : SweepOK(u)'
      BY <2>5, SweepKept
    <3> QED BY <3>1, <3>2, <3>3, <3>4, <3>5, <3>6 DEF TypeOK
  <2>6. CASE UNCHANGED vars
    BY <2>0, <2>6, <2>7 DEF vars, TypeOK, Rows
  <2> QED BY <2>1, <2>2, <2>3, <2>4, <2>5, <2>6 DEF Next, User
<1> QED
  BY <1>1, <1>2, PTL DEF Spec
================================================================================
