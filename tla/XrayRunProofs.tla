----------------------------- MODULE XrayRunProofs -----------------------------
(***************************************************************************)
(* TLAPS proofs about XrayRun: the inductive invariant IInv, from it the   *)
(* safety properties for any runs, ports and number of attempts, and that  *)
(* XrayRun implements ExitClaim as long as one of the two defences against *)
(* foreign listeners works.                                                *)
(***************************************************************************)
EXTENDS XrayRun, TLAPS

USE AttemptsAssumption, ListenersAssumption, NoPortAssumption, SwitchesAssumption
USE DEF Attempts, Procs, Own, IsAlive, Live, Ended, At, Goto, osVars

--------------------------------------------------------------------------------
(* What the writers of the result record do to the fields the invariant reads. *)

LEMMA NewResultFields ==
  ASSUME NEW b \in BOOLEAN
  PROVE  /\ NewResult(b) \in Results
         /\ NewResult(b).config_validation # "Invalid"
         /\ NewResult(b).proxy_test # "Valid"
         /\ NewResult(b).status = "Pending"
         /\ ~NewResult(b).internet_e2e_verified
  BY DEF NewResult, Results, Statuses

LEMMA SkippedFields ==
  ASSUME NEW x \in Results
  PROVE  /\ Skipped(x) \in Results
         /\ Skipped(x).status = "Skipped"
         /\ Skipped(x).proxy_test = x.proxy_test
         /\ Skipped(x).internet_e2e_verified = x.internet_e2e_verified
  BY DEF Skipped, Results, Statuses

LEMMA RejectedFields ==
  ASSUME NEW x \in Results
  PROVE  /\ Rejected(x) \in Results
         /\ Rejected(x).status = "Invalid"
         /\ Rejected(x).proxy_test = "Not tested"
         /\ Rejected(x).internet_e2e_verified = x.internet_e2e_verified
  BY DEF Rejected, Results, Statuses

LEMMA ValidatedFields ==
  ASSUME NEW x \in Results, NEW val \in {"Valid", "Skipped"}
  PROVE  /\ Validated(x, val) \in Results
         /\ Validated(x, val).config_validation # "Invalid"
         /\ Validated(x, val).status = x.status
         /\ Validated(x, val).proxy_test = x.proxy_test
         /\ Validated(x, val).internet_e2e_verified = x.internet_e2e_verified
  BY DEF Validated, Results, Statuses

LEMMA ReadyFields ==
  ASSUME NEW x \in Results
  PROVE  /\ Ready(x) \in Results
         /\ Ready(x).socks_handshake_verified
         /\ Ready(x).config_validation = x.config_validation
         /\ Ready(x).status = x.status
         /\ Ready(x).proxy_test = x.proxy_test
         /\ Ready(x).internet_e2e_verified = x.internet_e2e_verified
  BY DEF Ready, Results, Statuses

LEMMA ProbedFields ==
  ASSUME NEW x \in Results, NEW ok \in BOOLEAN
  PROVE  /\ Probed(x, ok) \in Results
         /\ Probed(x, ok).proxy_test = "Valid" <=> ok
         /\ Probed(x, ok).e2e_contract_ok = ok
         /\ Probed(x, ok).socks_handshake_verified = x.socks_handshake_verified
         /\ Probed(x, ok).config_validation = x.config_validation
         /\ Probed(x, ok).status = x.status
         /\ Probed(x, ok).internet_e2e_verified = x.internet_e2e_verified
  BY DEF Probed, Results, Statuses

LEMMA InvalidatedFields ==
  ASSUME NEW x \in Results
  PROVE  /\ Invalidated(x) \in Results
         /\ Invalidated(x).status = "Invalid"
         /\ Invalidated(x).proxy_test = "Invalid"
         /\ ~Invalidated(x).internet_e2e_verified
  BY DEF Invalidated, Results, Statuses

\* xray run -test alone ends with no claim, whatever it answered.
LEMMA ConfigOnlyFields ==
  ASSUME NEW x \in Results, NEW val \in {"Valid", "Skipped"}
  PROVE  /\ ConfigOnly(x, val) \in Results
         /\ ConfigOnly(x, val).proxy_test = "Not tested"
         /\ ~ConfigOnly(x, val).internet_e2e_verified
  BY DEF ConfigOnly, Finalized, InternetVerified, Results, Statuses

\* A run that validated, shook hands, met the contract and stayed alive keeps
\* its claim through _finalize_run.
LEMMA VerifiedFields ==
  ASSUME NEW x \in Results,
         x.config_validation # "Invalid", x.proxy_test = "Valid",
         x.socks_handshake_verified, x.e2e_contract_ok
  PROVE  /\ Verified(x) \in Results
         /\ Verified(x).internet_e2e_verified
         /\ InternetVerified(Verified(x))
  BY DEF Verified, Finalized, InternetVerified, Results, Statuses

--------------------------------------------------------------------------------
(* A step leaves the part of the invariant about a run alone when it leaves *)
(* the run's own variables alone.                                           *)

Same(q) ==
  /\ pc'[q] = pc[q]
  /\ real'[q] = real[q]
  /\ attempt'[q] = attempt[q]
  /\ result'[q] = result[q]
  /\ via'[q] = via[q]
  /\ port'[Own(q)] = port[Own(q)]
  /\ proc'[Own(q)] = proc[Own(q)]

LEMMA Frame ==
  ASSUME NEW q \in Runs, RunInv(q), Same(q)
  PROVE  RunInv(q)'
<1>1. ProcFollowsControl(q)'
  BY DEF RunInv, Same, ProcFollowsControl
<1>2. ReadyHasBound(q)'
  BY DEF RunInv, Same, ReadyHasBound
<1>3. AnswerIsOwn(q)'
  BY DEF RunInv, Same, AnswerIsOwn
<1>4. ResultFollowsControl(q)'
  BY DEF RunInv, Same, ResultFollowsControl
<1>5. ClaimedOwn(q)'
  BY DEF RunInv, Same, ClaimedOwn
<1> QED BY <1>1, <1>2, <1>3, <1>4, <1>5 DEF RunInv

--------------------------------------------------------------------------------
(* One lemma per action of Next: the invariant is preserved, first its parts *)
(* about all ports and processes, then the part about each run.              *)

LEMMA BeginStep ==
  ASSUME IInv, NEW r \in Runs, Begin(r)
  PROVE  IInv'
<1>1. RunInv(r) /\ result[r] \in Results
  BY DEF IInv, TypeOK
<1>2. UNCHANGED <<attempt, osVars>>
  BY DEF Begin
<1>3. TypeOK'
  <2>1. pc' \in [Runs -> Labels]
    BY DEF IInv, TypeOK, Begin, Labels, Awaiting
  <2>2. result' \in [Runs -> Results]
    BY SkippedFields, <1>1 DEF IInv, TypeOK, Begin
  <2> QED BY <2>1, <2>2, <1>2 DEF IInv, TypeOK, Begin
<1>4. ListenerIsServer' /\ OneAttemptLives'
  BY <1>2 DEF IInv, ListenerIsServer, OneAttemptLives
<1>5. ASSUME NEW q \in Runs \ {r} PROVE RunInv(q)'
  BY Frame DEF IInv, TypeOK, Same, Begin
<1>6. RunInv(r)'
  <2>1. ProcFollowsControl(r)'
    BY <1>1, <1>2 DEF IInv, TypeOK, RunInv, ProcFollowsControl, Begin, BeforeSpawn, InWaitReady, PastReady
  <2>2. ReadyHasBound(r)'
    BY <1>1, <1>2 DEF IInv, TypeOK, RunInv, ReadyHasBound, ProcFollowsControl, ListenerIsServer,
       Begin, BeforeSpawn, InWaitReady, PastReady
  <2>3. AnswerIsOwn(r)'
    BY SkippedFields, <1>1, <1>2 DEF IInv, TypeOK, RunInv, AnswerIsOwn, ReadyHasBound,
       ProcFollowsControl, ListenerIsServer, Begin, BeforeSpawn, InWaitReady, PastReady
  <2>4. ResultFollowsControl(r)'
    BY SkippedFields, <1>1 DEF IInv, TypeOK, RunInv, ResultFollowsControl, Begin, BeforeSpawn,
       InWaitReady, PastReady
  <2>5. ClaimedOwn(r)'
    BY SkippedFields, <1>1, <1>2 DEF IInv, TypeOK, RunInv, ClaimedOwn, ResultFollowsControl,
       AnswerIsOwn, Begin, BeforeSpawn, InWaitReady, PastReady
  <2> QED BY <2>1, <2>2, <2>3, <2>4, <2>5 DEF RunInv
<1> QED BY <1>3, <1>4, <1>5, <1>6 DEF IInv

LEMMA ValidateStep ==
  ASSUME IInv, NEW r \in Runs, Validate(r)
  PROVE  IInv'
<1>1. RunInv(r) /\ result[r] \in Results
  BY DEF IInv, TypeOK
<1>2. UNCHANGED <<attempt, osVars>>
  BY DEF Validate
<1>e. /\ result'[r] \in Results
      /\ result' = [result EXCEPT ![r] = result'[r]]
      /\ UNCHANGED via
      /\ result'[r].internet_e2e_verified => result[r].internet_e2e_verified
      /\ \/ /\ pc'[r] = "stop"
            /\ result'[r].status = "Invalid" \/ ~real[r]
            /\ result'[r].proxy_test = "Not tested"
         \/ /\ pc'[r] = "spawn" /\ real[r]
            /\ result'[r].config_validation # "Invalid"
            /\ result'[r].status = result[r].status
            /\ result'[r].proxy_test = result[r].proxy_test
  <2>1. CASE result' = [result EXCEPT ![r] = Rejected(@)] /\ Goto(r, "stop")
    BY <2>1, <1>1, RejectedFields DEF IInv, TypeOK, Validate
  <2>2. ASSUME NEW val \in {"Valid", "Skipped"}, real[r],
               result' = [result EXCEPT ![r] = Validated(@, val)], Goto(r, "spawn")
        PROVE <1>e
    BY <2>2, <1>1, ValidatedFields DEF IInv, TypeOK, Validate
  <2>3. ASSUME NEW val \in {"Valid", "Skipped"}, ~real[r],
               result' = [result EXCEPT ![r] = ConfigOnly(@, val)], Goto(r, "stop")
        PROVE <1>e
    BY <2>3, <1>1, ConfigOnlyFields DEF IInv, TypeOK, Validate
  <2> QED BY <2>1, <2>2, <2>3 DEF Validate
<1>3. TypeOK'
  <2>1. pc' \in [Runs -> Labels]
    BY DEF IInv, TypeOK, Validate, Labels, Awaiting
  <2>2. result' \in [Runs -> Results]
    BY <1>e DEF IInv, TypeOK
  <2> QED BY <2>1, <2>2, <1>2 DEF IInv, TypeOK, Validate
<1>4. ListenerIsServer' /\ OneAttemptLives'
  BY <1>2 DEF IInv, ListenerIsServer, OneAttemptLives
<1>5. ASSUME NEW q \in Runs \ {r} PROVE RunInv(q)'
  BY Frame DEF IInv, TypeOK, Same, Validate
<1>6. RunInv(r)'
  <2>1. ProcFollowsControl(r)'
    BY <1>1, <1>2 DEF IInv, TypeOK, RunInv, ProcFollowsControl, Validate, BeforeSpawn, InWaitReady, PastReady
  <2>2. ReadyHasBound(r)'
    BY <1>1, <1>2 DEF IInv, TypeOK, RunInv, ReadyHasBound, ProcFollowsControl, ListenerIsServer,
       Validate, BeforeSpawn, InWaitReady, PastReady
  <2>3. AnswerIsOwn(r)'
    BY <1>e, <1>1, <1>2 DEF IInv, TypeOK, RunInv, AnswerIsOwn, ReadyHasBound, ProcFollowsControl,
       ListenerIsServer, Validate, BeforeSpawn, InWaitReady, PastReady
  <2>4. ResultFollowsControl(r)'
    BY <1>e, <1>1 DEF IInv, TypeOK, RunInv, ResultFollowsControl, Validate, BeforeSpawn,
       InWaitReady, PastReady
  <2>5. ClaimedOwn(r)'
    BY <1>e, <1>1, <1>2 DEF IInv, TypeOK, RunInv, ClaimedOwn, ResultFollowsControl, AnswerIsOwn,
       Validate, BeforeSpawn, InWaitReady, PastReady
  <2> QED BY <2>1, <2>2, <2>3, <2>4, <2>5 DEF RunInv
<1> QED BY <1>3, <1>4, <1>5, <1>6 DEF IInv

LEMMA HandshakeStep ==
  ASSUME IInv, NEW r \in Runs, Handshake(r)
  PROVE  IInv'
<1>1. RunInv(r) /\ result[r] \in Results
  BY DEF IInv, TypeOK
<1>2. UNCHANGED <<attempt, osVars>>
  BY DEF Handshake
<1>3. TypeOK'
  <2>1. pc' \in [Runs -> Labels]
    BY DEF IInv, TypeOK, Handshake, Labels, Awaiting
  <2>2. result' \in [Runs -> Results]
    BY <1>1 DEF IInv, TypeOK, Handshake
  <2> QED BY <2>1, <2>2, <1>2 DEF IInv, TypeOK, Handshake, Accepts
<1>4. ListenerIsServer' /\ OneAttemptLives'
  BY <1>2 DEF IInv, ListenerIsServer, OneAttemptLives
<1>5. ASSUME NEW q \in Runs \ {r} PROVE RunInv(q)'
  BY Frame DEF IInv, TypeOK, Same, Handshake
<1>6. RunInv(r)'
  <2>1. ProcFollowsControl(r)'
    BY <1>1, <1>2 DEF IInv, TypeOK, RunInv, ProcFollowsControl, Handshake, BeforeSpawn, InWaitReady, PastReady
  <2>2. ReadyHasBound(r)'
    BY <1>1, <1>2 DEF IInv, TypeOK, RunInv, ReadyHasBound, ProcFollowsControl, ListenerIsServer,
       Handshake, Accepts, BeforeSpawn, InWaitReady, PastReady
  <2>3. AnswerIsOwn(r)'
    BY <1>1, <1>2 DEF IInv, TypeOK, RunInv, AnswerIsOwn, ReadyHasBound, ProcFollowsControl,
       ListenerIsServer, Handshake, Accepts, BeforeSpawn, InWaitReady, PastReady
  <2>4. ResultFollowsControl(r)'
    BY <1>1 DEF IInv, TypeOK, RunInv, ResultFollowsControl, Handshake, BeforeSpawn, InWaitReady, PastReady
  <2>5. ClaimedOwn(r)'
    BY <1>1, <1>2 DEF IInv, TypeOK, RunInv, ClaimedOwn, ResultFollowsControl, AnswerIsOwn,
       Handshake, BeforeSpawn, InWaitReady, PastReady
  <2> QED BY <2>1, <2>2, <2>3, <2>4, <2>5 DEF RunInv
<1> QED BY <1>3, <1>4, <1>5, <1>6 DEF IInv

LEMMA ProbeStep ==
  ASSUME IInv, NEW r \in Runs, Probe(r)
  PROVE  IInv'
<1>1. RunInv(r) /\ result[r] \in Results
  BY DEF IInv, TypeOK
<1>2. UNCHANGED <<attempt, osVars>>
  BY DEF Probe
<1>e. /\ result'[r] \in Results
      /\ result' = [result EXCEPT ![r] = result'[r]]
      /\ pc'[r] = "answered"
      /\ result'[r].socks_handshake_verified = result[r].socks_handshake_verified
      /\ result'[r].config_validation = result[r].config_validation
      /\ result'[r].status = result[r].status
      /\ result'[r].internet_e2e_verified = result[r].internet_e2e_verified
      /\ \/ /\ Accepts(listener[port[Own(r)]], r)
            /\ via' = [via EXCEPT ![r] = listener[port[Own(r)]]]
         \/ /\ result'[r].proxy_test # "Valid"
            /\ via' = via
  <2>1. ASSUME NEW ok \in BOOLEAN, result' = [result EXCEPT ![r] = Probed(@, ok)]
        PROVE  /\ result'[r] \in Results
               /\ result' = [result EXCEPT ![r] = result'[r]]
               /\ result'[r].socks_handshake_verified = result[r].socks_handshake_verified
               /\ result'[r].config_validation = result[r].config_validation
               /\ result'[r].status = result[r].status
               /\ result'[r].internet_e2e_verified = result[r].internet_e2e_verified
               /\ result'[r].proxy_test = "Valid" <=> ok
    <3>1. result'[r] = Probed(result[r], ok) /\ result' = [result EXCEPT ![r] = result'[r]]
      BY <2>1 DEF IInv, TypeOK
    <3>2. /\ Probed(result[r], ok) \in Results
          /\ Probed(result[r], ok).proxy_test = "Valid" <=> ok
          /\ Probed(result[r], ok).socks_handshake_verified = result[r].socks_handshake_verified
          /\ Probed(result[r], ok).config_validation = result[r].config_validation
          /\ Probed(result[r], ok).status = result[r].status
          /\ Probed(result[r], ok).internet_e2e_verified = result[r].internet_e2e_verified
      BY <1>1, ProbedFields
    <3> QED BY <3>1, <3>2
  <2> QED BY <2>1 DEF Probe, IInv, TypeOK
<1>3. TypeOK'
  <2>1. pc' \in [Runs -> Labels]
    BY DEF IInv, TypeOK, Probe, Labels, Awaiting
  <2>2. result' \in [Runs -> Results]
    BY <1>e DEF IInv, TypeOK
  <2>3. via' \in [Runs -> Procs \cup {Free, Foreign}]
    <3>1. via \in [Runs -> Procs \cup {Free, Foreign}]
      BY DEF IInv, TypeOK
    <3>2. Own(r) \in Procs
      BY DEF IInv, TypeOK
    <3>3. Accepts(listener[port[Own(r)]], r) => listener[port[Own(r)]] \in Procs \cup {Free, Foreign}
      BY <3>2 DEF Accepts
    <3> QED BY <3>1, <3>3, <1>e
  <2> QED BY <2>1, <2>2, <2>3, <1>2 DEF IInv, TypeOK, Probe
<1>4. ListenerIsServer' /\ OneAttemptLives'
  BY <1>2 DEF IInv, ListenerIsServer, OneAttemptLives
<1>5. ASSUME NEW q \in Runs \ {r} PROVE RunInv(q)'
  BY Frame DEF IInv, TypeOK, Same, Probe
<1>6. RunInv(r)'
  <2>1. ProcFollowsControl(r)'
    BY <1>1, <1>2 DEF IInv, TypeOK, RunInv, ProcFollowsControl, Probe, BeforeSpawn, InWaitReady, PastReady
  <2>2. ReadyHasBound(r)'
    BY <1>1, <1>2 DEF IInv, TypeOK, RunInv, ReadyHasBound, ProcFollowsControl, ListenerIsServer,
       Probe, Accepts, BeforeSpawn, InWaitReady, PastReady
  <2>3. AnswerIsOwn(r)'
    BY <1>e, <1>1, <1>2 DEF IInv, TypeOK, RunInv, AnswerIsOwn, ReadyHasBound, ProcFollowsControl,
       ListenerIsServer, Probe, Accepts, BeforeSpawn, InWaitReady, PastReady
  <2>4. ResultFollowsControl(r)'
    BY <1>e, <1>1 DEF IInv, TypeOK, RunInv, ResultFollowsControl, Probe, BeforeSpawn, InWaitReady, PastReady
  <2>5. ClaimedOwn(r)'
    BY <1>e, <1>1, <1>2 DEF IInv, TypeOK, RunInv, ClaimedOwn, ResultFollowsControl, AnswerIsOwn,
       Probe, BeforeSpawn, InWaitReady, PastReady
  <2> QED BY <2>1, <2>2, <2>3, <2>4, <2>5 DEF RunInv
<1> QED BY <1>3, <1>4, <1>5, <1>6 DEF IInv

LEMMA CheckAnswerStep ==
  ASSUME IInv, NEW r \in Runs, CheckAnswer(r)
  PROVE  IInv'
<1>1. RunInv(r) /\ result[r] \in Results
  BY DEF IInv, TypeOK
<1>2. UNCHANGED <<attempt, osVars>>
  BY DEF CheckAnswer
<1>3. TypeOK'
  <2>1. pc' \in [Runs -> Labels]
    BY DEF IInv, TypeOK, CheckAnswer, Labels, Awaiting
  <2>2. result' \in [Runs -> Results]
    BY InvalidatedFields, <1>1 DEF IInv, TypeOK, CheckAnswer
  <2> QED BY <2>1, <2>2, <1>2 DEF IInv, TypeOK, CheckAnswer
<1>4. ListenerIsServer' /\ OneAttemptLives'
  BY <1>2 DEF IInv, ListenerIsServer, OneAttemptLives
<1>5. ASSUME NEW q \in Runs \ {r} PROVE RunInv(q)'
  BY Frame DEF IInv, TypeOK, Same, CheckAnswer
<1>6. RunInv(r)'
  <2>1. ProcFollowsControl(r)'
    BY <1>1, <1>2 DEF IInv, TypeOK, RunInv, ProcFollowsControl, CheckAnswer, BeforeSpawn,
       InWaitReady, PastReady
  <2>2. ReadyHasBound(r)'
    BY <1>1, <1>2 DEF IInv, TypeOK, RunInv, ReadyHasBound, ProcFollowsControl, ListenerIsServer,
       CheckAnswer, BeforeSpawn, InWaitReady, PastReady
  <2>3. AnswerIsOwn(r)'
    BY InvalidatedFields, <1>1, <1>2 DEF IInv, TypeOK, RunInv, AnswerIsOwn, ReadyHasBound,
       ProcFollowsControl, ListenerIsServer, CheckAnswer, BeforeSpawn, InWaitReady, PastReady
  <2>4. ResultFollowsControl(r)'
    BY InvalidatedFields, <1>1 DEF IInv, TypeOK, RunInv, ResultFollowsControl, CheckAnswer,
       BeforeSpawn, InWaitReady, PastReady
  <2>5. ClaimedOwn(r)'
    BY InvalidatedFields, <1>1, <1>2 DEF IInv, TypeOK, RunInv, ClaimedOwn, ResultFollowsControl,
       AnswerIsOwn, CheckAnswer, BeforeSpawn, InWaitReady, PastReady
  <2> QED BY <2>1, <2>2, <2>3, <2>4, <2>5 DEF RunInv
<1> QED BY <1>3, <1>4, <1>5, <1>6 DEF IInv

LEMMA ConcludeStep ==
  ASSUME IInv, NEW r \in Runs, Conclude(r)
  PROVE  IInv'
<1>1. RunInv(r) /\ result[r] \in Results
  BY DEF IInv, TypeOK
<1>2. UNCHANGED <<attempt, osVars>>
  BY DEF Conclude
<1>3. TypeOK'
  <2>1. pc' \in [Runs -> Labels]
    BY DEF IInv, TypeOK, Conclude, Labels, Awaiting
  <2>2. result' \in [Runs -> Results]
    BY InvalidatedFields, VerifiedFields, <1>1 DEF IInv, TypeOK, RunInv, ResultFollowsControl,
       Conclude, PastReady
  <2> QED BY <2>1, <2>2, <1>2 DEF IInv, TypeOK, Conclude
<1>4. ListenerIsServer' /\ OneAttemptLives'
  BY <1>2 DEF IInv, ListenerIsServer, OneAttemptLives
<1>5. ASSUME NEW q \in Runs \ {r} PROVE RunInv(q)'
  BY Frame DEF IInv, TypeOK, Same, Conclude
<1>6. RunInv(r)'
  <2>1. ProcFollowsControl(r)'
    BY <1>1, <1>2 DEF IInv, TypeOK, RunInv, ProcFollowsControl, Conclude, BeforeSpawn, InWaitReady, PastReady
  <2>2. ReadyHasBound(r)'
    BY <1>1, <1>2 DEF IInv, TypeOK, RunInv, ReadyHasBound, ProcFollowsControl, ListenerIsServer,
       Conclude, BeforeSpawn, InWaitReady, PastReady
  <2>3. AnswerIsOwn(r)'
    BY InvalidatedFields, VerifiedFields, <1>1, <1>2 DEF IInv, TypeOK, RunInv, AnswerIsOwn,
       ReadyHasBound, ProcFollowsControl, ListenerIsServer, Conclude, BeforeSpawn, InWaitReady, PastReady
  <2>4. ResultFollowsControl(r)'
    BY InvalidatedFields, VerifiedFields, <1>1 DEF IInv, TypeOK, RunInv, ResultFollowsControl,
       Conclude, BeforeSpawn, InWaitReady, PastReady
  <2>5. ClaimedOwn(r)'
    BY InvalidatedFields, VerifiedFields, <1>1, <1>2 DEF IInv, TypeOK, RunInv, ClaimedOwn,
       ResultFollowsControl, AnswerIsOwn, Conclude, BeforeSpawn, InWaitReady, PastReady
  <2> QED BY <2>1, <2>2, <2>3, <2>4, <2>5 DEF RunInv
<1> QED BY <1>3, <1>4, <1>5, <1>6 DEF IInv

LEMMA AllocateStep ==
  ASSUME IInv, NEW r \in Runs, Allocate(r)
  PROVE  IInv'
<1>1. RunInv(r) /\ result[r] \in Results /\ Own(r) \in Procs
  BY DEF IInv, TypeOK
<1>2. TypeOK'
  <2>1. pc' \in [Runs -> Labels]
    BY DEF IInv, TypeOK, Allocate, Labels, Awaiting
  <2>2. port' \in [Procs -> Ports \cup {NoPort}]
    BY <1>1 DEF IInv, TypeOK, Allocate
  <2>3. proc' \in [Procs -> {"none", "starting", "serving", "exited"}]
    BY <1>1 DEF IInv, TypeOK, Allocate
  <2>4. listener' \in [Ports -> Procs \cup {Free, Foreign}]
    BY <1>1 DEF IInv, TypeOK, Allocate
  <2>5. late' \in [Runs -> BOOLEAN]
    BY DEF IInv, TypeOK, Allocate
  <2> QED BY <2>1, <2>2, <2>3, <2>4, <2>5 DEF IInv, TypeOK, Allocate
<1>3. ListenerIsServer' /\ OneAttemptLives'
  <2>1. ListenerIsServer'
    BY <1>1 DEF IInv, TypeOK, ListenerIsServer, RunInv, ProcFollowsControl, BeforeSpawn, Allocate
  <2>2. OneAttemptLives'
    BY <1>1 DEF IInv, TypeOK, OneAttemptLives, Allocate
  <2> QED BY <2>1, <2>2
<1>4. ASSUME NEW q \in Runs \ {r} PROVE RunInv(q)'
  BY Frame DEF IInv, TypeOK, Same, Allocate
<1>5. RunInv(r)'
  <2>1. ProcFollowsControl(r)'
    BY <1>1 DEF IInv, TypeOK, RunInv, ProcFollowsControl, OneAttemptLives, Allocate, BeforeSpawn,
       InWaitReady, PastReady
  <2>2. ReadyHasBound(r)'
    BY <1>1 DEF IInv, TypeOK, RunInv, ReadyHasBound, ProcFollowsControl, OneAttemptLives, Allocate,
       BeforeSpawn, InWaitReady, PastReady
  <2>3. AnswerIsOwn(r)'
    BY <1>1 DEF IInv, TypeOK, RunInv, AnswerIsOwn, Allocate, BeforeSpawn, InWaitReady, PastReady
  <2>4. ResultFollowsControl(r)'
    BY <1>1 DEF IInv, TypeOK, RunInv, ResultFollowsControl, Allocate, BeforeSpawn, InWaitReady, PastReady
  <2>5. ClaimedOwn(r)'
    BY <1>1 DEF IInv, TypeOK, RunInv, ClaimedOwn, ResultFollowsControl, Allocate, BeforeSpawn,
       InWaitReady, PastReady
  <2> QED BY <2>1, <2>2, <2>3, <2>4, <2>5 DEF RunInv
<1> QED BY <1>2, <1>3, <1>4, <1>5 DEF IInv

LEMMA SpawnStep ==
  ASSUME IInv, NEW r \in Runs, Spawn(r)
  PROVE  IInv'
<1>1. RunInv(r) /\ result[r] \in Results /\ Own(r) \in Procs
  BY DEF IInv, TypeOK
<1>2. TypeOK'
  <2>1. pc' \in [Runs -> Labels]
    BY DEF IInv, TypeOK, Spawn, Labels, Awaiting
  <2>2. port' \in [Procs -> Ports \cup {NoPort}]
    BY <1>1 DEF IInv, TypeOK, Spawn
  <2>3. proc' \in [Procs -> {"none", "starting", "serving", "exited"}]
    BY <1>1 DEF IInv, TypeOK, Spawn
  <2>4. listener' \in [Ports -> Procs \cup {Free, Foreign}]
    BY <1>1 DEF IInv, TypeOK, Spawn
  <2>5. late' \in [Runs -> BOOLEAN]
    BY DEF IInv, TypeOK, Spawn
  <2> QED BY <2>1, <2>2, <2>3, <2>4, <2>5 DEF IInv, TypeOK, Spawn
<1>3. ListenerIsServer' /\ OneAttemptLives'
  <2>1. ListenerIsServer'
    <3>1. proc[Own(r)] = "none"
      BY <1>1 DEF IInv, RunInv, ProcFollowsControl, BeforeSpawn, Spawn
    <3>2. /\ UNCHANGED <<listener, port>>
          /\ \/ proc' = proc
             \/ proc' = [proc EXCEPT ![Own(r)] = "starting"]
      BY DEF Spawn
    <3> QED BY <1>1, <3>1, <3>2 DEF IInv, TypeOK, ListenerIsServer
  <2>2. OneAttemptLives'
    BY <1>1 DEF IInv, TypeOK, OneAttemptLives, Spawn
  <2> QED BY <2>1, <2>2
<1>4. ASSUME NEW q \in Runs \ {r} PROVE RunInv(q)'
  BY Frame DEF IInv, TypeOK, Same, Spawn
<1>5. RunInv(r)'
  <2>1. ProcFollowsControl(r)'
    BY <1>1 DEF IInv, TypeOK, RunInv, ProcFollowsControl, OneAttemptLives, Spawn, BeforeSpawn,
       InWaitReady, PastReady
  <2>2. ReadyHasBound(r)'
    BY <1>1 DEF IInv, TypeOK, RunInv, ReadyHasBound, ProcFollowsControl, OneAttemptLives, Spawn,
       BeforeSpawn, InWaitReady, PastReady
  <2>3. AnswerIsOwn(r)'
    BY <1>1 DEF IInv, TypeOK, RunInv, AnswerIsOwn, Spawn, BeforeSpawn, InWaitReady, PastReady
  <2>4. ResultFollowsControl(r)'
    BY <1>1 DEF IInv, TypeOK, RunInv, ResultFollowsControl, Spawn, BeforeSpawn, InWaitReady, PastReady
  <2>5. ClaimedOwn(r)'
    BY <1>1 DEF IInv, TypeOK, RunInv, ClaimedOwn, ResultFollowsControl, Spawn, BeforeSpawn,
       InWaitReady, PastReady
  <2> QED BY <2>1, <2>2, <2>3, <2>4, <2>5 DEF RunInv
<1> QED BY <1>2, <1>3, <1>4, <1>5 DEF IInv

LEMMA StopStep ==
  ASSUME IInv, NEW r \in Runs, Stop(r)
  PROVE  IInv'
<1>1. RunInv(r) /\ result[r] \in Results /\ Own(r) \in Procs
  BY DEF IInv, TypeOK
<1>2. TypeOK'
  <2>1. pc' \in [Runs -> Labels]
    BY DEF IInv, TypeOK, Stop, Labels, Awaiting
  <2>2. port' \in [Procs -> Ports \cup {NoPort}]
    BY <1>1 DEF IInv, TypeOK, Stop
  <2>3. proc' \in [Procs -> {"none", "starting", "serving", "exited"}]
    BY <1>1 DEF IInv, TypeOK, Stop, Stopped, Closed
  <2>4. listener' \in [Ports -> Procs \cup {Free, Foreign}]
    BY <1>1 DEF IInv, TypeOK, Stop, Stopped, Closed
  <2>5. late' \in [Runs -> BOOLEAN]
    BY DEF IInv, TypeOK, Stop
  <2> QED BY <2>1, <2>2, <2>3, <2>4, <2>5 DEF IInv, TypeOK, Stop
<1>3. ListenerIsServer' /\ OneAttemptLives'
  <2>1. ListenerIsServer'
    BY <1>1 DEF IInv, TypeOK, ListenerIsServer, RunInv, ProcFollowsControl, BeforeSpawn, Stop, Stopped, Closed
  <2>2. OneAttemptLives'
    BY <1>1 DEF IInv, TypeOK, OneAttemptLives, Stop, Stopped, Closed
  <2> QED BY <2>1, <2>2
<1>4. ASSUME NEW q \in Runs \ {r} PROVE RunInv(q)'
  BY Frame DEF IInv, TypeOK, Same, Stop, Stopped, Closed
<1>5. RunInv(r)'
  <2>1. ProcFollowsControl(r)'
    BY <1>1 DEF IInv, TypeOK, RunInv, ProcFollowsControl, OneAttemptLives, Stop, Stopped, Closed,
       BeforeSpawn, InWaitReady, PastReady
  <2>2. ReadyHasBound(r)'
    BY <1>1 DEF IInv, TypeOK, RunInv, ReadyHasBound, ProcFollowsControl, OneAttemptLives, Stop,
       Stopped, Closed, BeforeSpawn, InWaitReady, PastReady
  <2>3. AnswerIsOwn(r)'
    BY <1>1 DEF IInv, TypeOK, RunInv, AnswerIsOwn, Stop, Stopped, Closed, BeforeSpawn, InWaitReady, PastReady
  <2>4. ResultFollowsControl(r)'
    BY <1>1 DEF IInv, TypeOK, RunInv, ResultFollowsControl, Stop, Stopped, Closed, BeforeSpawn,
       InWaitReady, PastReady
  <2>5. ClaimedOwn(r)'
    BY <1>1 DEF IInv, TypeOK, RunInv, ClaimedOwn, ResultFollowsControl, Stop, Stopped, Closed,
       BeforeSpawn, InWaitReady, PastReady
  <2> QED BY <2>1, <2>2, <2>3, <2>4, <2>5 DEF RunInv
<1> QED BY <1>2, <1>3, <1>4, <1>5 DEF IInv

\* Giving up an attempt, from either place wait_ready does it.
LEMMA NotReadyStep ==
  ASSUME IInv, NEW r \in Runs, pc[r] \in {"poll", "pid"}, NotReady(r)
  PROVE  IInv'
<1>1. RunInv(r) /\ result[r] \in Results /\ Own(r) \in Procs
  BY DEF IInv, TypeOK
<1>2. TypeOK'
  <2>1. pc' \in [Runs -> Labels]
    BY DEF IInv, TypeOK, NotReady, Labels, Awaiting
  <2>2. proc' \in [Procs -> {"none", "starting", "serving", "exited"}]
    BY <1>1 DEF IInv, TypeOK, NotReady, Stopped
  <2>3. listener' \in [Ports -> Procs \cup {Free, Foreign}]
    BY <1>1 DEF IInv, TypeOK, NotReady, Closed
  <2>4. attempt' \in [Runs -> Attempts]
    BY DEF IInv, TypeOK, NotReady
  <2>5. result' \in [Runs -> Results]
    BY <1>1, InvalidatedFields DEF IInv, TypeOK, NotReady
  <2> QED BY <2>1, <2>2, <2>3, <2>4, <2>5 DEF IInv, TypeOK, NotReady
<1>3. ListenerIsServer' /\ OneAttemptLives'
  <2>1. ListenerIsServer'
    BY <1>1 DEF IInv, TypeOK, ListenerIsServer, NotReady, Stopped, Closed
  <2>2. OneAttemptLives'
    BY <1>1 DEF IInv, TypeOK, OneAttemptLives, NotReady, Stopped
  <2> QED BY <2>1, <2>2
<1>4. ASSUME NEW q \in Runs \ {r} PROVE RunInv(q)'
  BY Frame DEF IInv, TypeOK, Same, NotReady, Stopped, Closed
<1>5. RunInv(r)'
  <2>1. ProcFollowsControl(r)'
    BY <1>1 DEF IInv, TypeOK, RunInv, ProcFollowsControl, OneAttemptLives, NotReady, Stopped,
       Closed, BeforeSpawn, InWaitReady, PastReady
  <2>2. ReadyHasBound(r)'
    BY <1>1 DEF IInv, TypeOK, RunInv, ReadyHasBound, ProcFollowsControl, OneAttemptLives, NotReady,
       Stopped, Closed, BeforeSpawn, InWaitReady, PastReady
  <2>3. AnswerIsOwn(r)'
    BY InvalidatedFields, <1>1 DEF IInv, TypeOK, RunInv, AnswerIsOwn, NotReady, Stopped, Closed,
       BeforeSpawn, InWaitReady, PastReady
  <2>4. ResultFollowsControl(r)'
    BY InvalidatedFields, <1>1 DEF IInv, TypeOK, RunInv, ResultFollowsControl, NotReady, Stopped,
       Closed, BeforeSpawn, InWaitReady, PastReady
  <2>5. ClaimedOwn(r)'
    BY InvalidatedFields, <1>1 DEF IInv, TypeOK, RunInv, ClaimedOwn, ResultFollowsControl,
       NotReady, Stopped, Closed, BeforeSpawn, InWaitReady, PastReady
  <2> QED BY <2>1, <2>2, <2>3, <2>4, <2>5 DEF RunInv
<1> QED BY <1>2, <1>3, <1>4, <1>5 DEF IInv

LEMMA PollStep ==
  ASSUME IInv, NEW r \in Runs, Poll(r)
  PROVE  IInv'
<1>1. CASE NotReady(r)
  BY <1>1, NotReadyStep DEF Poll
<1>2. CASE Goto(r, "handshake") /\ UNCHANGED <<real, attempt, late, result, via, osVars>>
  <2>1. TypeOK'
    BY <1>2 DEF IInv, TypeOK, Labels, Awaiting
  <2>2. ListenerIsServer' /\ OneAttemptLives'
    BY <1>2 DEF IInv, ListenerIsServer, OneAttemptLives
  <2>3. ASSUME NEW q \in Runs \ {r} PROVE RunInv(q)'
    BY <1>2, Frame DEF IInv, TypeOK, Same
  <2>4. RunInv(r)'
    BY <1>2 DEF IInv, TypeOK, RunInv, ProcFollowsControl, ReadyHasBound, AnswerIsOwn,
       ResultFollowsControl, ClaimedOwn, Poll, BeforeSpawn, InWaitReady, PastReady
  <2> QED BY <2>1, <2>2, <2>3, <2>4 DEF IInv
<1> QED BY <1>1, <1>2 DEF Poll

LEMMA PidCheckStep ==
  ASSUME IInv, NEW r \in Runs, PidCheck(r)
  PROVE  IInv'
<1>1. RunInv(r) /\ result[r] \in Results /\ Own(r) \in Procs
  BY DEF IInv, TypeOK
<1>2. CASE PidAnswers /\ listener[port[Own(r)]] # Own(r)
  BY <1>2, NotReadyStep DEF PidCheck
<1>3. CASE ~(PidAnswers /\ listener[port[Own(r)]] # Own(r))
  <2>0. /\ pc[r] = "pid"
        /\ Goto(r, "probe")
        /\ result' = [result EXCEPT ![r] = Ready(@)]
        /\ UNCHANGED <<real, attempt, late, via, osVars>>
    BY <1>3 DEF PidCheck
  <2>1. TypeOK'
    <3>1. pc' \in [Runs -> Labels]
      BY <2>0 DEF IInv, TypeOK, Labels, Awaiting
    <3>2. result' \in [Runs -> Results]
      BY <2>0, <1>1, ReadyFields DEF IInv, TypeOK
    <3> QED BY <2>0, <3>1, <3>2 DEF IInv, TypeOK
  <2>2. ListenerIsServer' /\ OneAttemptLives'
    BY <2>0 DEF IInv, ListenerIsServer, OneAttemptLives
  <2>3. ASSUME NEW q \in Runs \ {r} PROVE RunInv(q)'
    BY <2>0, Frame DEF IInv, TypeOK, Same
  <2>4. RunInv(r)'
    <3>1. ProcFollowsControl(r)'
      BY <2>0, <1>1 DEF IInv, TypeOK, RunInv, ProcFollowsControl, BeforeSpawn, InWaitReady, PastReady
    <3>2. ReadyHasBound(r)'
      BY <2>0, <1>1, <1>3 DEF IInv, TypeOK, RunInv, ReadyHasBound, ProcFollowsControl, ListenerIsServer,
         OneDefence, BeforeSpawn, InWaitReady, PastReady
    <3>3. AnswerIsOwn(r)'
      BY <2>0 DEF IInv, TypeOK, AnswerIsOwn
    <3>4. ResultFollowsControl(r)'
      BY <2>0, <1>1, ReadyFields DEF IInv, TypeOK, RunInv, ResultFollowsControl, BeforeSpawn,
         InWaitReady, PastReady
    <3>5. ClaimedOwn(r)'
      BY <2>0, <1>1, ReadyFields DEF IInv, TypeOK, RunInv, ClaimedOwn, BeforeSpawn, InWaitReady, PastReady
    <3> QED BY <3>1, <3>2, <3>3, <3>4, <3>5 DEF RunInv
  <2> QED BY <2>1, <2>2, <2>3, <2>4 DEF IInv
<1> QED BY <1>2, <1>3

\* A live process belongs to the current attempt of its run.
LEMMA OwnIfLive ==
  ASSUME IInv, NEW q \in Procs, Live(q)
  PROVE  q[1] \in Runs /\ q = Own(q[1])
<1>1. q[1] \in Runs /\ q[2] \in Nat /\ q = <<q[1], q[2]>>
  OBVIOUS
<1>2. attempt[q[1]] \in Nat
  BY <1>1 DEF IInv, TypeOK
<1>3. ~(q[2] < attempt[q[1]]) /\ ~(q[2] > attempt[q[1]])
  BY DEF IInv, OneAttemptLives
<1> QED BY <1>1, <1>2, <1>3

LEMMA BindStep ==
  ASSUME IInv, NEW q \in Procs, Bind(q)
  PROVE  IInv'
<1>1. q[1] \in Runs /\ q = Own(q[1])
  BY OwnIfLive DEF Bind
<1>2. /\ port[q] \in Ports
      /\ pc[q[1]] \notin BeforeSpawn
      /\ OneDefence => pc[q[1]] \notin PastReady \cup {"stop", "unwind"}
      /\ ~Ended(q[1])
  BY <1>1 DEF IInv, TypeOK, RunInv, ProcFollowsControl, ReadyHasBound, Bind, Labels,
     Awaiting, BeforeSpawn, InWaitReady, PastReady
<1>3. TypeOK'
  BY <1>2 DEF IInv, TypeOK, Bind
<1>4. ListenerIsServer' /\ OneAttemptLives'
  <2>1. ListenerIsServer'
    BY <1>2 DEF IInv, TypeOK, ListenerIsServer, Bind
  <2>2. OneAttemptLives'
    BY <1>1 DEF IInv, TypeOK, OneAttemptLives, Bind
  <2> QED BY <2>1, <2>2
<1>5. proc' = [proc EXCEPT ![q] = proc'[q]] /\ proc'[q] \in {"serving", "exited"}
  BY DEF IInv, TypeOK, Bind
<1>6. UNCHANGED <<pc, real, attempt, late, port, result, via>>
  BY DEF Bind
<1>7. ASSUME NEW r \in Runs PROVE RunInv(r)'
  <2>1. CASE r # q[1]
    <3>1. Own(r) # q
      BY <2>1
    <3> QED BY <2>1, <3>1, <1>5, <1>6, Frame DEF IInv, TypeOK, Same
  <2>2. CASE r = q[1]
    <3>1. proc'[Own(r)] \in {"serving", "exited"}
      BY <1>1, <1>5, <2>2
    <3> QED BY <1>1, <1>2, <1>6, <2>2, <3>1 DEF IInv, TypeOK, RunInv, ProcFollowsControl,
          ReadyHasBound, AnswerIsOwn, ResultFollowsControl, ClaimedOwn, InternetVerified, Bind,
          BeforeSpawn, InWaitReady, PastReady
  <2> QED BY <2>1, <2>2
<1> QED BY <1>3, <1>4, <1>7 DEF IInv

LEMMA DieStep ==
  ASSUME IInv, NEW q \in Procs, Die(q)
  PROVE  IInv'
<1>1. q[1] \in Runs /\ q = Own(q[1])
  BY OwnIfLive DEF Die
<1>2. TypeOK'
  BY DEF IInv, TypeOK, Die, Closed
<1>3. ListenerIsServer' /\ OneAttemptLives'
  <2>1. ListenerIsServer'
    BY DEF IInv, TypeOK, ListenerIsServer, Die, Closed
  <2>2. OneAttemptLives'
    BY DEF IInv, TypeOK, OneAttemptLives, Die
  <2> QED BY <2>1, <2>2
<1>4. ASSUME NEW r \in Runs PROVE RunInv(r)'
  <2>1. CASE r # q[1]
    <3>1. Own(r) # q
      BY <2>1
    <3> QED BY <2>1, <3>1, Frame DEF IInv, TypeOK, Same, Die
  <2>2. CASE r = q[1]
    <3>1. proc'[Own(r)] = "exited"
      BY <1>1, <2>2 DEF IInv, TypeOK, Die
    <3> QED BY <1>1, <2>2, <3>1 DEF IInv, TypeOK, RunInv, ProcFollowsControl, ReadyHasBound,
          AnswerIsOwn, ResultFollowsControl, ClaimedOwn, InternetVerified, Die, BeforeSpawn,
             InWaitReady, PastReady
  <2> QED BY <2>1, <2>2
<1> QED BY <1>2, <1>3, <1>4 DEF IInv

LEMMA ForeignStep ==
  ASSUME IInv, NEW p \in Ports, ForeignBind(p) \/ ForeignRelease(p)
  PROVE  IInv'
<1>1. TypeOK'
  BY DEF IInv, TypeOK, ForeignBind, ForeignRelease
<1>2. ListenerIsServer' /\ OneAttemptLives'
  BY DEF IInv, TypeOK, ListenerIsServer, OneAttemptLives, ForeignBind, ForeignRelease
<1>3. ASSUME NEW r \in Runs PROVE RunInv(r)'
  BY Frame DEF IInv, Same, ForeignBind, ForeignRelease
<1> QED BY <1>1, <1>2, <1>3 DEF IInv

LEMMA DeadlineStep ==
  ASSUME IInv, NEW r \in Runs, DeadlinePasses(r)
  PROVE  IInv'
<1>1. TypeOK'
  BY DEF IInv, TypeOK, DeadlinePasses
<1>2. ListenerIsServer' /\ OneAttemptLives'
  BY DEF IInv, ListenerIsServer, OneAttemptLives, DeadlinePasses
<1>3. ASSUME NEW q \in Runs PROVE RunInv(q)'
  BY Frame DEF IInv, Same, DeadlinePasses
<1> QED BY <1>1, <1>2, <1>3 DEF IInv

--------------------------------------------------------------------------------
\* IInv holds initially and every step preserves it.
LEMMA InitIInv == Init => IInv
<1> SUFFICES ASSUME Init PROVE IInv
  OBVIOUS
<1>1. TypeOK
  BY NewResultFields DEF Init, TypeOK, Labels, Awaiting
<1>2. ListenerIsServer /\ OneAttemptLives
  BY DEF Init, ListenerIsServer, OneAttemptLives
<1>3. ASSUME NEW r \in Runs PROVE RunInv(r)
  BY <1>1, NewResultFields DEF Init, TypeOK, RunInv, ProcFollowsControl, ReadyHasBound, AnswerIsOwn,
     ResultFollowsControl, ClaimedOwn, BeforeSpawn, InWaitReady, PastReady
<1> QED BY <1>1, <1>2, <1>3 DEF IInv

LEMMA StutterStep == IInv /\ UNCHANGED vars => IInv'
<1> SUFFICES ASSUME IInv, UNCHANGED vars PROVE IInv'
  OBVIOUS
<1>1. ASSUME NEW r \in Runs PROVE RunInv(r)'
  BY Frame DEF IInv, Same, vars
<1>2. TypeOK' /\ ListenerIsServer' /\ OneAttemptLives'
  BY DEF IInv, TypeOK, ListenerIsServer, OneAttemptLives, vars
<1> QED BY <1>1, <1>2 DEF IInv

LEMMA NextIInv == IInv /\ [Next]_vars => IInv'
<1> SUFFICES ASSUME IInv, [Next]_vars PROVE IInv'
  OBVIOUS
<1>1. ASSUME NEW r \in Runs, Step(r) PROVE IInv'
  BY <1>1, BeginStep, AllocateStep, ValidateStep, SpawnStep, PollStep, HandshakeStep, PidCheckStep,
     ProbeStep, CheckAnswerStep, ConcludeStep, StopStep DEF Step
<1>2. CASE Environment
  BY <1>2, BindStep, DieStep, ForeignStep, DeadlineStep DEF Environment
<1>3. CASE UNCHANGED vars
  BY <1>3, StutterStep
<1> QED BY <1>1, <1>2, <1>3 DEF Next

THEOREM Inductive == Spec => []IInv
<1>1. Init => IInv
  BY InitIInv
<1>2. IInv /\ [Next]_vars => IInv'
  BY NextIInv
<1> QED BY <1>1, <1>2, PTL DEF Spec

\* Type correctness, for any number of runs, ports and attempts.
THEOREM TypeCorrect == Spec => []TypeOK
<1>1. IInv => TypeOK
  BY DEF IInv
<1> QED BY <1>1, Inductive, PTL

\* No xray-core process outlives its attempt or its run, for any number of
\* runs and retries and whichever exit of test_config_with_xray is taken.
THEOREM NoOrphanHolds == Spec => []NoOrphan
<1>1. IInv => NoOrphan
  <2> SUFFICES ASSUME IInv, NEW q \in Procs, Live(q) PROVE q = Own(q[1]) /\ ~Ended(q[1])
    BY DEF NoOrphan
  <2>1. q[1] \in Runs /\ q = Own(q[1])
    BY OwnIfLive
  <2> QED BY <2>1 DEF IInv, RunInv, ProcFollowsControl
<1> QED BY <1>1, Inductive, PTL

\* A returned result that looks usable in any one field passes every criterion
\* of evaluate_xray_test_result.
THEOREM UsableIsVerifiedHolds == Spec => []UsableIsVerified
<1>1. IInv => UsableIsVerified
  BY DEF IInv, TypeOK, RunInv, ResultFollowsControl, UsableIsVerified, InternetVerified
<1> QED BY <1>1, Inductive, PTL

\* When foreign servers reject unknown credentials or psutil can tell who
\* listens, a run claims internet only if its own process carried the probe.
THEOREM ClaimIsOwnHolds == OneDefence => (Spec => []ClaimIsOwn)
<1> SUFFICES ASSUME OneDefence PROVE Spec => []ClaimIsOwn
  OBVIOUS
<1>1. IInv => ClaimIsOwn
  BY DEF IInv, RunInv, ClaimedOwn, ClaimIsOwn, InternetVerified
<1> QED BY <1>1, Inductive, PTL

\* Under the same premise, runs past readiness never share a port.
THEOREM NoCrossTalkHolds == OneDefence => (Spec => []NoCrossTalk)
<1> SUFFICES ASSUME OneDefence PROVE Spec => []NoCrossTalk
  OBVIOUS
<1>1. IInv => NoCrossTalk
  <2> SUFFICES ASSUME IInv, NEW q \in Runs, NEW r \in Runs, q # r,
                      pc[q] \in PastReady, IsAlive(q), pc[r] \in PastReady, IsAlive(r)
               PROVE  port[Own(q)] # port[Own(r)]
    BY DEF NoCrossTalk, PastReady
  <2>1. ASSUME NEW s \in Runs, pc[s] \in PastReady, IsAlive(s)
        PROVE  port[Own(s)] \in Ports /\ listener[port[Own(s)]] = Own(s)
    <3>1. Own(s) \in Procs
      BY DEF IInv, TypeOK
    <3>2. proc[Own(s)] = "serving" /\ port[Own(s)] \in Ports
      BY <2>1, <3>1 DEF IInv, TypeOK, RunInv, ProcFollowsControl, ReadyHasBound
    <3> QED BY <3>1, <3>2 DEF IInv, ListenerIsServer
  <2> QED BY <2>1
<1> QED BY <1>1, Inductive, PTL

--------------------------------------------------------------------------------
(* XrayRun implements ExitClaim. *)

Holder == [p \in Ports |-> IF listener[p] \in Procs THEN listener[p][1] ELSE Free]
Verdicts == [r \in Runs |-> Verdict(r)]

\* The verdict of a run depends on its own variables only.
SameVerdict(q) ==
  /\ pc'[q] = pc[q]
  /\ attempt'[q] = attempt[q]
  /\ result'[q] = result[q]
  /\ via'[q] = via[q]

LEMMA VerdictFrame == ASSUME NEW q \in Runs, SameVerdict(q) PROVE Verdict(q)' = Verdict(q)
BY DEF SameVerdict, Verdict, InternetVerified

LEMMA VerdictOpen ==
  ASSUME NEW r \in Runs, pc[r] \in BeforeSpawn \cup InWaitReady \cup {"probe"}
  PROVE  Verdict(r) = "open"
BY DEF Verdict, BeforeSpawn, InWaitReady

LEMMA VerdictOpenNext ==
  ASSUME NEW r \in Runs, pc'[r] \in BeforeSpawn \cup InWaitReady \cup {"probe"}
  PROVE  Verdict(r)' = "open"
BY DEF Verdict, BeforeSpawn, InWaitReady

LEMMA VerdictRefusedNext ==
  ASSUME NEW r \in Runs, pc'[r] \in {"stop", "unwind", "done", "raised"},
         result'[r].proxy_test # "Valid"
  PROVE  Verdict(r)' = "refused"
BY DEF Verdict, InternetVerified

--------------------------------------------------------------------------------
(* Ports and their holders. *)

\* A run holds a port exactly when the process of its attempt listens on it.
LEMMA HolderIsOwn ==
  ASSUME IInv, NEW r \in Runs, NEW p \in Ports
  PROVE  Holder[p] = r <=> listener[p] = Own(r)
<1>1. Own(r) \in Procs /\ Own(r)[1] = r BY DEF IInv, TypeOK
<1>2. CASE listener[p] \in Procs
  <2>1. Live(listener[p]) BY <1>2 DEF IInv, ListenerIsServer
  <2>2. listener[p] = Own(listener[p][1]) BY <1>2, <2>1, OwnIfLive
  <2> QED BY <1>1, <1>2, <2>2 DEF Holder
<1>3. CASE listener[p] \notin Procs BY <1>1, <1>3 DEF Holder
<1> QED BY <1>2, <1>3

LEMMA ReleasedHolder ==
  ASSUME IInv, NEW r \in Runs, listener' = Closed(Own(r))
  PROVE  Holder' = [p \in Ports |-> IF Holder[p] = r THEN Free ELSE Holder[p]]
<1>1. ASSUME NEW p \in Ports PROVE Holder'[p] = IF Holder[p] = r THEN Free ELSE Holder[p]
  <2>1. CASE listener[p] = Own(r)
    <3>1. listener'[p] = Free BY <2>1 DEF Closed
    <3>2. Holder'[p] = Free BY <3>1 DEF Holder
    <3> QED BY <2>1, <3>2, HolderIsOwn
  <2>2. CASE listener[p] # Own(r)
    <3>1. listener'[p] = listener[p] BY <2>2 DEF Closed
    <3>2. Holder'[p] = Holder[p] BY <3>1 DEF Holder
    <3> QED BY <2>2, <3>2, HolderIsOwn
  <2> QED BY <2>1, <2>2
<1> QED BY <1>1 DEF Holder

LEMMA HoldsOnePort ==
  ASSUME IInv, NEW r \in Runs, NEW p \in Ports, NEW s \in Ports, Holder[p] = r, Holder[s] = r
  PROVE  p = s
<1>1. Own(r) \in Procs /\ listener[p] = Own(r) /\ listener[s] = Own(r)
  BY HolderIsOwn DEF IInv, TypeOK
<1> QED BY <1>1 DEF IInv, ListenerIsServer

--------------------------------------------------------------------------------
(* Steps of the abstract machine. *)

LEMMA StutterAbstract ==
  ASSUME Holder' = Holder, Verdicts' = Verdicts
  PROVE  [Abstract!Next]_Abstract!vars
BY DEF Abstract!vars, Holder, Verdicts

\* A process stops while its run goes on, or after its run has its verdict.
LEMMA LoseAbstract ==
  ASSUME IInv, NEW r \in Runs, listener' = Closed(Own(r)), Verdicts' = Verdicts
  PROVE  [Abstract!Next]_Abstract!vars
<1>1. CASE \E p \in Ports : Holder[p] = r
  <2>1. PICK p \in Ports : Holder[p] = r BY <1>1
  <2>2. Holder' = [Holder EXCEPT ![p] = Free]
    <3>1. \A s \in Ports : Holder[s] = r <=> s = p BY <2>1, HoldsOnePort
    <3>2. Holder' = [s \in Ports |-> IF Holder[s] = r THEN Free ELSE Holder[s]]
      BY ReleasedHolder
    <3>3. Holder' = [s \in Ports |-> IF s = p THEN Free ELSE Holder[s]] BY <3>1, <3>2
    <3>4. Holder = [s \in Ports |-> Holder[s]] BY DEF Holder
    <3> QED BY <3>3, <3>4
  <2>3. Holder[p] # Free BY <2>1
  <2>4. \A i : i = p => Abstract!Lose(i)
    BY <2>2, <2>3 DEF Abstract!Lose, Holder, Verdicts
  <2> QED BY <2>4 DEF Abstract!Next
<1>2. CASE ~\E p \in Ports : Holder[p] = r
  <2>1. Holder' = Holder BY <1>2, ReleasedHolder DEF Holder
  <2> QED BY <2>1, StutterAbstract
<1> QED BY <1>1, <1>2

LEMMA RefuseAbstract ==
  ASSUME IInv, NEW r \in Runs, Verdict(r) \in {"open", "answered"}, Verdict(r)' = "refused",
         \A q \in Runs \ {r} : Verdict(q)' = Verdict(q),
         Holder' = Holder \/ listener' = Closed(Own(r))
  PROVE  [Abstract!Next]_Abstract!vars
<1>1. Verdicts' = [Verdicts EXCEPT ![r] = "refused"] BY DEF Verdicts
<1>2. \/ Holder' = Holder
      \/ Holder' = [p \in Ports |-> IF Holder[p] = r THEN Free ELSE Holder[p]]
  BY ReleasedHolder
<1>3. Verdicts[r] \in {"open", "answered"} BY DEF Verdicts
<1>4. \A s : s = r => Abstract!Refuse(s)
  BY <1>1, <1>2, <1>3 DEF Abstract!Refuse, Abstract!Released, Holder, Verdicts
<1> QED BY <1>4 DEF Abstract!Next

LEMMA AnswerAbstract ==
  ASSUME NEW r \in Runs, Verdict(r) = "open", Verdict(r)' = "answered",
         \A q \in Runs \ {r} : Verdict(q)' = Verdict(q),
         Holder' = Holder, \E p \in Ports : Holder[p] = r
  PROVE  [Abstract!Next]_Abstract!vars
<1>1. Verdicts' = [Verdicts EXCEPT ![r] = "answered"] BY DEF Verdicts
<1>2. Verdicts[r] = "open" BY DEF Verdicts
<1>3. \A s : s = r => Abstract!Answer(s)
  BY <1>1, <1>2 DEF Abstract!Answer, Abstract!Holds, Holder, Verdicts
<1> QED BY <1>3 DEF Abstract!Next

LEMMA ClaimAbstract ==
  ASSUME NEW r \in Runs, Verdict(r) = "answered", Verdict(r)' = "claimed",
         \A q \in Runs \ {r} : Verdict(q)' = Verdict(q),
         Holder' = Holder, \E p \in Ports : Holder[p] = r
  PROVE  [Abstract!Next]_Abstract!vars
<1>1. Verdicts' = [Verdicts EXCEPT ![r] = "claimed"] BY DEF Verdicts
<1>2. Verdicts[r] = "answered" BY DEF Verdicts
<1>3. \A s : s = r => Abstract!Claim(s)
  BY <1>1, <1>2 DEF Abstract!Claim, Abstract!Holds, Holder, Verdicts
<1> QED BY <1>3 DEF Abstract!Next
--------------------------------------------------------------------------------
(* One lemma per kind of step of a run. *)

\* The places where the verdict is still open, and where it is given.
LEMMA VerdictNotGiven ==
  ASSUME NEW r \in Runs, pc[r] \in Labels, pc[r] \notin {"stop", "unwind", "done", "raised"}
  PROVE  Verdict(r) \in {"open", "answered"}
BY DEF Verdict

\* A step that leaves the ports and keeps the verdict of its run open.
LEMMA QuietAbstract ==
  ASSUME IInv, NEW r \in Runs, \A q \in Runs \ {r} : SameVerdict(q),
         pc[r] \in BeforeSpawn \cup InWaitReady, pc'[r] \in BeforeSpawn \cup InWaitReady \cup {"probe"},
         listener' = listener
  PROVE  [Abstract!Next]_Abstract!vars
<1>1. Verdict(r)' = Verdict(r) BY VerdictOpen, VerdictOpenNext
<1>2. \A q \in Runs : Verdict(q)' = Verdict(q) BY <1>1, VerdictFrame
<1> QED BY <1>2, StutterAbstract DEF Verdicts, Holder

\* A step that gives the verdict up and leaves the ports.
LEMMA GiveUpAbstract ==
  ASSUME IInv, NEW r \in Runs, \A q \in Runs \ {r} : SameVerdict(q),
         pc[r] \notin {"stop", "unwind", "done", "raised"},
         pc'[r] \in {"stop", "unwind", "done", "raised"}, result'[r].proxy_test # "Valid",
         listener' = listener
  PROVE  [Abstract!Next]_Abstract!vars
<1>1. Verdict(r) \in {"open", "answered"} BY VerdictNotGiven DEF IInv, TypeOK
<1>2. Verdict(r)' = "refused" BY VerdictRefusedNext
<1>3. \A q \in Runs \ {r} : Verdict(q)' = Verdict(q) BY VerdictFrame
<1>4. Holder' = Holder BY DEF Holder
<1> QED BY <1>1, <1>2, <1>3, <1>4, RefuseAbstract

LEMMA BeginAbstract ==
  ASSUME IInv, NEW r \in Runs, Begin(r) PROVE [Abstract!Next]_Abstract!vars
<1>1. listener' = listener /\ \A q \in Runs \ {r} : SameVerdict(q)
  BY DEF IInv, TypeOK, Begin, SameVerdict
<1>2. CASE Goto(r, "allocate") /\ UNCHANGED result
  BY <1>1, <1>2, QuietAbstract DEF IInv, TypeOK, Begin, BeforeSpawn
<1>3. CASE Goto(r, "done") /\ result' = [result EXCEPT ![r] = Skipped(@)]
  <2>1. result[r] \in Results /\ result[r].proxy_test # "Valid"
    BY DEF IInv, TypeOK, RunInv, ResultFollowsControl, Begin, BeforeSpawn
  <2>2. result'[r].proxy_test # "Valid" BY <1>3, <2>1, SkippedFields DEF IInv, TypeOK
  <2> QED BY <1>1, <1>3, <2>2, GiveUpAbstract DEF IInv, TypeOK, Begin
<1> QED BY <1>2, <1>3 DEF Begin

LEMMA AllocateAbstract ==
  ASSUME IInv, NEW r \in Runs, Allocate(r) PROVE [Abstract!Next]_Abstract!vars
<1>1. listener' = listener /\ \A q \in Runs \ {r} : SameVerdict(q)
  BY DEF IInv, TypeOK, Allocate, SameVerdict
<1>2. CASE pc' = [pc EXCEPT ![r] = "validate"]
  BY <1>1, <1>2, QuietAbstract DEF IInv, TypeOK, Allocate, BeforeSpawn
<1>3. CASE pc' = [pc EXCEPT ![r] = "unwind"]
  <2>1. result'[r].proxy_test # "Valid"
    BY DEF IInv, RunInv, ResultFollowsControl, Allocate, BeforeSpawn
  <2> QED BY <1>1, <1>3, <2>1, GiveUpAbstract DEF IInv, TypeOK, Allocate
<1> QED BY <1>2, <1>3 DEF Allocate

LEMMA ValidateAbstract ==
  ASSUME IInv, NEW r \in Runs, Validate(r) PROVE [Abstract!Next]_Abstract!vars
<1>1. listener' = listener /\ \A q \in Runs \ {r} : SameVerdict(q)
  BY DEF IInv, TypeOK, Validate, SameVerdict
<1>2. result[r] \in Results BY DEF IInv, TypeOK
<1>3. CASE pc' = [pc EXCEPT ![r] = "spawn"]
  BY <1>1, <1>3, QuietAbstract DEF IInv, TypeOK, Validate, BeforeSpawn
<1>4. CASE result' = [result EXCEPT ![r] = Rejected(@)] /\ pc' = [pc EXCEPT ![r] = "stop"]
  <2>1. result'[r].proxy_test # "Valid" BY <1>2, <1>4, RejectedFields DEF IInv, TypeOK
  <2> QED BY <1>1, <1>4, <2>1, GiveUpAbstract DEF IInv, TypeOK, Validate
<1>5. ASSUME NEW val \in {"Valid", "Skipped"}, result' = [result EXCEPT ![r] = ConfigOnly(@, val)],
             pc' = [pc EXCEPT ![r] = "stop"]
      PROVE  [Abstract!Next]_Abstract!vars
  <2>1. result'[r].proxy_test # "Valid" BY <1>2, <1>5, ConfigOnlyFields DEF IInv, TypeOK
  <2> QED BY <1>1, <1>5, <2>1, GiveUpAbstract DEF IInv, TypeOK, Validate
<1> QED BY <1>3, <1>4, <1>5 DEF Validate

LEMMA SpawnAbstract ==
  ASSUME IInv, NEW r \in Runs, Spawn(r) PROVE [Abstract!Next]_Abstract!vars
<1>1. listener' = listener /\ \A q \in Runs \ {r} : SameVerdict(q)
  BY DEF IInv, TypeOK, Spawn, SameVerdict
<1>2. CASE pc' = [pc EXCEPT ![r] = "poll"]
  BY <1>1, <1>2, QuietAbstract DEF IInv, TypeOK, Spawn, BeforeSpawn, InWaitReady
<1>3. CASE pc' = [pc EXCEPT ![r] = "unwind"]
  <2>1. result'[r].proxy_test # "Valid"
    BY DEF IInv, RunInv, ResultFollowsControl, Spawn, BeforeSpawn
  <2> QED BY <1>1, <1>3, <2>1, GiveUpAbstract DEF IInv, TypeOK, Spawn
<1> QED BY <1>2, <1>3 DEF Spawn

LEMMA HandshakeAbstract ==
  ASSUME IInv, NEW r \in Runs, Handshake(r) PROVE [Abstract!Next]_Abstract!vars
<1>1. listener' = listener /\ \A q \in Runs \ {r} : SameVerdict(q)
  BY DEF IInv, TypeOK, Handshake, SameVerdict
<1> QED BY <1>1, QuietAbstract DEF IInv, TypeOK, Handshake, InWaitReady

\* An attempt is given up: its port is lost, and with the last one the verdict.
LEMMA NotReadyAbstract ==
  ASSUME IInv, NEW r \in Runs, pc[r] \in InWaitReady, NotReady(r)
  PROVE  [Abstract!Next]_Abstract!vars
<1>1. listener' = Closed(Own(r)) /\ result[r] \in Results BY DEF IInv, TypeOK, NotReady
<1>2. \A q \in Runs \ {r} : SameVerdict(q) BY DEF IInv, TypeOK, NotReady, SameVerdict
<1>3. CASE attempt[r] < MaxAttempts
  <2>1. pc'[r] = "allocate" BY <1>3 DEF IInv, TypeOK, NotReady
  <2>2. Verdict(r)' = Verdict(r) BY <2>1, VerdictOpen, VerdictOpenNext DEF BeforeSpawn
  <2>3. Verdicts' = Verdicts BY <1>2, <2>2, VerdictFrame DEF Verdicts
  <2> QED BY <1>1, <2>3, LoseAbstract
<1>4. CASE ~(attempt[r] < MaxAttempts)
  <2>1. pc'[r] = "stop" /\ result'[r] = Invalidated(result[r])
    BY <1>4 DEF IInv, TypeOK, NotReady
  <2>2. Verdict(r)' = "refused" BY <1>1, <2>1, InvalidatedFields, VerdictRefusedNext
  <2>3. Verdict(r) = "open" BY VerdictOpen
  <2> QED BY <1>1, <1>2, <2>2, <2>3, VerdictFrame, RefuseAbstract
<1> QED BY <1>3, <1>4

LEMMA PollAbstract ==
  ASSUME IInv, NEW r \in Runs, Poll(r) PROVE [Abstract!Next]_Abstract!vars
<1>1. CASE NotReady(r) BY <1>1, NotReadyAbstract DEF Poll, InWaitReady
<1>2. CASE ~NotReady(r)
  <2>1. listener' = listener /\ pc' = [pc EXCEPT ![r] = "handshake"] /\ pc[r] = "poll"
        /\ \A q \in Runs \ {r} : SameVerdict(q)
    BY <1>2 DEF IInv, TypeOK, Poll, SameVerdict
  <2> QED BY <2>1, QuietAbstract DEF IInv, TypeOK, InWaitReady
<1> QED BY <1>1, <1>2

LEMMA PidCheckAbstract ==
  ASSUME IInv, NEW r \in Runs, PidCheck(r) PROVE [Abstract!Next]_Abstract!vars
<1>1. CASE NotReady(r) BY <1>1, NotReadyAbstract DEF PidCheck, InWaitReady
<1>2. CASE ~NotReady(r)
  <2>1. listener' = listener /\ pc' = [pc EXCEPT ![r] = "probe"] /\ pc[r] = "pid"
        /\ \A q \in Runs \ {r} : SameVerdict(q)
    BY <1>2 DEF IInv, TypeOK, PidCheck, SameVerdict
  <2> QED BY <2>1, QuietAbstract DEF IInv, TypeOK, InWaitReady
<1> QED BY <1>1, <1>2

\* The probe is an answer only when the run's own process carried it.
LEMMA ProbeAbstract ==
  ASSUME IInv, NEW r \in Runs, Probe(r) PROVE [Abstract!Next]_Abstract!vars
<1>1. Own(r) \in Procs /\ result[r] \in Results /\ pc[r] = "probe" /\ pc'[r] = "answered"
      /\ listener' = listener /\ attempt' = attempt
  BY DEF IInv, TypeOK, Probe
<1>2. \A q \in Runs \ {r} : Verdict(q)' = Verdict(q)
  <2>1. \A q \in Runs \ {r} : SameVerdict(q) BY DEF IInv, TypeOK, Probe, SameVerdict
  <2> QED BY <2>1, VerdictFrame
<1>3. Verdict(r) = "open" BY <1>1, VerdictOpen
<1>4. Holder' = Holder BY <1>1 DEF Holder
<1>5. Verdict(r)' = IF result'[r].proxy_test = "Valid" /\ via'[r] = Own(r) THEN "answered" ELSE "open"
  BY <1>1 DEF Verdict
<1>6. CASE result'[r].proxy_test = "Valid" /\ via'[r] = Own(r)
  <2>1. via'[r] = listener[port[Own(r)]]
    <3>1. CASE result' = [result EXCEPT ![r] = Probed(@, FALSE)]
      BY <1>1, <1>6, <3>1, ProbedFields DEF IInv, TypeOK
    <3>2. CASE via' = [via EXCEPT ![r] = listener[port[Own(r)]]]
      BY <3>2 DEF IInv, TypeOK
    <3> QED BY <3>1, <3>2 DEF Probe
  <2>2. port[Own(r)] \in Ports
    BY <1>1 DEF IInv, RunInv, ProcFollowsControl, PastReady
  <2>3. Holder[port[Own(r)]] = r BY <1>6, <2>1, <2>2, HolderIsOwn
  <2>4. Verdict(r)' = "answered" BY <1>5, <1>6
  <2> QED BY <1>2, <1>3, <1>4, <2>2, <2>3, <2>4, AnswerAbstract
<1>7. CASE ~(result'[r].proxy_test = "Valid" /\ via'[r] = Own(r))
  <2>1. Verdict(r)' = Verdict(r) BY <1>3, <1>5, <1>7
  <2>2. Verdicts' = Verdicts BY <1>2, <2>1 DEF Verdicts
  <2> QED BY <1>4, <2>2, StutterAbstract
<1> QED BY <1>6, <1>7

LEMMA CheckAnswerAbstract ==
  ASSUME IInv, NEW r \in Runs, CheckAnswer(r) PROVE [Abstract!Next]_Abstract!vars
<1>1. listener' = listener /\ result[r] \in Results /\ \A q \in Runs \ {r} : SameVerdict(q)
  BY DEF IInv, TypeOK, CheckAnswer, SameVerdict
<1>2. CASE pc' = [pc EXCEPT ![r] = "diagnose"] /\ UNCHANGED result
  <2>1. Verdict(r)' = Verdict(r) BY <1>2 DEF IInv, TypeOK, CheckAnswer, Verdict
  <2>2. Verdicts' = Verdicts BY <1>1, <2>1, VerdictFrame DEF Verdicts
  <2> QED BY <1>1, <2>2, StutterAbstract DEF Holder
<1>3. CASE pc' = [pc EXCEPT ![r] = "stop"] /\ result' = [result EXCEPT ![r] = Invalidated(@)]
  <2>1. result'[r].proxy_test # "Valid" BY <1>1, <1>3, InvalidatedFields DEF IInv, TypeOK
  <2> QED BY <1>1, <1>3, <2>1, GiveUpAbstract DEF IInv, TypeOK, CheckAnswer
<1> QED BY <1>2, <1>3 DEF CheckAnswer

\* The claim: the process is alive, so it listens, and it gave the answer.
LEMMA ConcludeAbstract ==
  ASSUME OneDefence, IInv, NEW r \in Runs, Conclude(r) PROVE [Abstract!Next]_Abstract!vars
<1>1. /\ listener' = listener /\ result[r] \in Results /\ Own(r) \in Procs
      /\ pc[r] = "diagnose" /\ pc'[r] = "stop" /\ pc' = [pc EXCEPT ![r] = "stop"]
      /\ \A q \in Runs \ {r} : SameVerdict(q)
  BY DEF IInv, TypeOK, Conclude, SameVerdict
<1>2. CASE ~IsAlive(r)
  <2>1. result'[r].proxy_test # "Valid"
    BY <1>1, <1>2, InvalidatedFields DEF IInv, TypeOK, Conclude
  <2> QED BY <1>1, <2>1, GiveUpAbstract
<1>3. CASE IsAlive(r)
  <2>1. /\ result[r].config_validation # "Invalid" /\ result[r].proxy_test = "Valid"
        /\ result[r].socks_handshake_verified /\ result[r].e2e_contract_ok
    BY <1>1 DEF IInv, RunInv, ResultFollowsControl, PastReady
  <2>2. result'[r] = Verified(result[r]) BY <1>3 DEF IInv, TypeOK, Conclude
  <2>3. InternetVerified(result'[r]) BY <1>1, <2>1, <2>2, VerifiedFields
  <2>4. Verdict(r)' = "claimed" BY <1>1, <2>3 DEF Verdict
  <2>5. via[r] = Own(r) BY <1>1, <1>3, <2>1 DEF IInv, RunInv, AnswerIsOwn
  <2>6. Verdict(r) = "answered" BY <1>1, <2>1, <2>5 DEF Verdict
  <2>7. proc[Own(r)] = "serving" /\ port[Own(r)] \in Ports
    BY <1>1, <1>3 DEF IInv, TypeOK, RunInv, ProcFollowsControl, ReadyHasBound, PastReady
  <2>8. listener[port[Own(r)]] = Own(r) BY <1>1, <2>7 DEF IInv, ListenerIsServer
  <2>9. \E p \in Ports : Holder[p] = r BY <2>7, <2>8, HolderIsOwn
  <2>10. Holder' = Holder BY <1>1 DEF Holder
  <2> QED BY <1>1, <2>4, <2>6, <2>9, <2>10, VerdictFrame, ClaimAbstract
<1> QED BY <1>2, <1>3

LEMMA StopAbstract ==
  ASSUME IInv, NEW r \in Runs, Stop(r) PROVE [Abstract!Next]_Abstract!vars
<1>1. listener' = Closed(Own(r)) /\ \A q \in Runs \ {r} : SameVerdict(q)
  BY DEF IInv, TypeOK, Stop, SameVerdict
<1>2. Verdict(r)' = Verdict(r) BY DEF IInv, TypeOK, Stop, Verdict, InternetVerified
<1>3. Verdicts' = Verdicts BY <1>1, <1>2, VerdictFrame DEF Verdicts
<1> QED BY <1>1, <1>3, LoseAbstract

--------------------------------------------------------------------------------
(* The operating system. *)

LEMMA BindAbstract ==
  ASSUME OneDefence, IInv, NEW q \in Procs, Bind(q) PROVE [Abstract!Next]_Abstract!vars
<1> DEFINE r == q[1]
           p == port[q]
<1>1. r \in Runs /\ q = Own(r) BY OwnIfLive DEF Bind
<1>2. p \in Ports /\ pc[r] \in InWaitReady
  BY <1>1 DEF IInv, TypeOK, RunInv, ProcFollowsControl, ReadyHasBound, Bind, Labels, Awaiting,
     BeforeSpawn, InWaitReady, PastReady
<1>3. Verdicts' = Verdicts
  BY VerdictFrame DEF Bind, SameVerdict, Verdicts
<1>4. CASE listener[p] = Free
  <2>1. listener' = [listener EXCEPT ![p] = q] BY <1>4 DEF Bind
  <2>2. Holder[p] = Free BY <1>2, <1>4 DEF Holder
  <2>3. Holder' = [Holder EXCEPT ![p] = r] BY <1>2, <2>1 DEF Holder, IInv, TypeOK
  <2>4. Verdicts[r] = "open" BY <1>1, <1>2, VerdictOpen DEF Verdicts
  <2>5. \A s, i : s = r /\ i = p => Abstract!Acquire(s, i)
    BY <1>3, <2>2, <2>3, <2>4 DEF Abstract!Acquire, Holder, Verdicts
  <2> QED BY <1>1, <1>2, <2>5 DEF Abstract!Next
<1>5. CASE listener[p] # Free
  <2>1. Holder' = Holder BY <1>5 DEF Bind, Holder
  <2> QED BY <1>3, <2>1, StutterAbstract
<1> QED BY <1>4, <1>5

LEMMA DieAbstract ==
  ASSUME IInv, NEW q \in Procs, Die(q) PROVE [Abstract!Next]_Abstract!vars
<1>1. q[1] \in Runs /\ q = Own(q[1]) BY OwnIfLive DEF Die
<1>2. listener' = Closed(Own(q[1])) BY <1>1 DEF Die
<1>3. Verdicts' = Verdicts BY VerdictFrame DEF Die, SameVerdict, Verdicts
<1> QED BY <1>1, <1>2, <1>3, LoseAbstract

LEMMA ForeignAbstract ==
  ASSUME IInv, NEW p \in Ports, ForeignBind(p) \/ ForeignRelease(p)
  PROVE  [Abstract!Next]_Abstract!vars
<1>1. Holder' = Holder BY DEF ForeignBind, ForeignRelease, Holder, IInv, TypeOK
<1>2. Verdicts' = Verdicts BY VerdictFrame DEF ForeignBind, ForeignRelease, SameVerdict, Verdicts
<1> QED BY <1>1, <1>2, StutterAbstract

LEMMA DeadlineAbstract ==
  ASSUME IInv, NEW r \in Runs, DeadlinePasses(r) PROVE [Abstract!Next]_Abstract!vars
<1>1. Holder' = Holder BY DEF DeadlinePasses, Holder
<1>2. Verdicts' = Verdicts BY VerdictFrame DEF DeadlinePasses, SameVerdict, Verdicts
<1> QED BY <1>1, <1>2, StutterAbstract

--------------------------------------------------------------------------------
LEMMA InitAbstract == Init => Abstract!Init
<1> SUFFICES ASSUME Init PROVE Abstract!Init OBVIOUS
<1>1. \A r \in Runs : Verdict(r) = "open" BY VerdictOpen DEF Init, BeforeSpawn
<1> QED BY <1>1 DEF Init, Abstract!Init

LEMMA NextAbstract ==
  ASSUME OneDefence PROVE IInv /\ [Next]_vars => [Abstract!Next]_Abstract!vars
<1> SUFFICES ASSUME IInv, [Next]_vars PROVE [Abstract!Next]_Abstract!vars OBVIOUS
<1>1. ASSUME NEW r \in Runs, Step(r) PROVE [Abstract!Next]_Abstract!vars
  BY <1>1, BeginAbstract, AllocateAbstract, ValidateAbstract, SpawnAbstract, PollAbstract,
     HandshakeAbstract, PidCheckAbstract, ProbeAbstract, CheckAnswerAbstract, ConcludeAbstract,
     StopAbstract DEF Step
<1>2. CASE Environment
  BY <1>2, BindAbstract, DieAbstract, ForeignAbstract, DeadlineAbstract DEF Environment
<1>3. CASE UNCHANGED vars
  <2>1. Holder' = Holder BY <1>3 DEF vars, Holder
  <2>2. Verdicts' = Verdicts BY <1>3, VerdictFrame DEF vars, SameVerdict, Verdicts
  <2> QED BY <2>1, <2>2, StutterAbstract
<1> QED BY <1>1, <1>2, <1>3 DEF Next

\* A run makes one final verdict, and claims the internet only while its own
\* process holds the port and after that process carried the probe.
THEOREM Implements == OneDefence => (Spec => ImplementsExitClaim)
<1> SUFFICES ASSUME OneDefence PROVE Spec => ImplementsExitClaim OBVIOUS
<1>1. Init => Abstract!Init BY InitAbstract
<1>2. IInv /\ [Next]_vars => [Abstract!Next]_Abstract!vars BY NextAbstract
<1> QED BY <1>1, <1>2, Inductive, PTL DEF Spec, ImplementsExitClaim, Abstract!Spec
================================================================================
