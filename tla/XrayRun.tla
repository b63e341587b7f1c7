-------------------------------- MODULE XrayRun --------------------------------
(***************************************************************************)
(* One verification run of xray/tester.py:test_config_with_xray, many at a *)
(* time: pick a loopback port by a bind probe that reserves nothing, have  *)
(* xray-core validate the config, start a process on the port, wait for a  *)
(* SOCKS handshake with the run's own credentials, ask psutil who listens, *)
(* fetch the probe URL through the port, run the diagnostics, and claim    *)
(* "internet verified" if the process is still alive.                      *)
(*                                                                         *)
(* The operating system is the environment: processes bind late or die at  *)
(* any moment, and other programs take and release ports.                  *)
(***************************************************************************)
EXTENDS Naturals

CONSTANTS
  Runs,               \* configs under test, each with its own run_id
  Ports,              \* loopback ports the allocator may draw
  MaxAttempts,        \* MAX_PORT_START_RETRIES
  Free,               \* listener of a port nobody listens on
  Foreign,            \* a listener started by some other program
  NoPort,             \* the attempt has drawn no port yet
  ForeignAcceptsAny,  \* a foreign SOCKS server may accept any credentials
  PidAnswers,         \* psutil is present, permitted and answers within 2 s
  ProbeSeesListeners, \* bind() fails on a port somebody listens on
  SharedLoop          \* the runs are coroutines of one event loop (a batch)

Attempts == 1..MaxAttempts

\* The process of attempt a of run r. Its credentials are drawn afresh for
\* the attempt, so no other process of the program accepts them.
Procs == Runs \X Attempts

ASSUME AttemptsAssumption == MaxAttempts \in Nat \ {0}
ASSUME ListenersAssumption ==
  /\ Free \notin Procs \cup Runs
  /\ Foreign \notin Procs
  /\ Free # Foreign
ASSUME NoPortAssumption == NoPort \notin Ports
ASSUME SwitchesAssumption ==
  /\ ForeignAcceptsAny \in BOOLEAN
  /\ PidAnswers \in BOOLEAN
  /\ ProbeSeesListeners \in BOOLEAN
  /\ SharedLoop \in BOOLEAN

VARIABLES
  pc,        \* pc[r]: where the coroutine of run r is
  real,      \* real[r]: real_proxy_test
  attempt,   \* attempt[r]: the iteration of the retry loop
  late,      \* late[r]: the 22 s readiness deadline has passed
  port,      \* port[q]: the inbound port in the config of process q
  proc,      \* proc[q]: life of process q
  listener,  \* listener[p]: who accepts connections on port p
  result,    \* result[r]: the XrayTestResult under construction
  via        \* history: who carried the probe of run r, Free if nobody yet

vars == <<pc, real, attempt, late, port, proc, listener, result, via>>
osVars == <<port, proc, listener>>

Own(r) == <<r, attempt[r]>>
IsAlive(r) == proc[Own(r)] # "exited"

--------------------------------------------------------------------------------
(* The result record and its two pure functions. *)

Statuses == {"Valid", "Invalid", "Pending", "Skipped", "Not tested"}

Results == [status : Statuses, config_validation : Statuses, proxy_test : Statuses,
            socks_handshake_verified : BOOLEAN, process_alive_after_e2e : BOOLEAN,
            e2e_contract_ok : BOOLEAN, internet_e2e_verified : BOOLEAN]

NewResult(isReal) ==
  [status |-> "Pending", config_validation |-> "Pending",
   proxy_test |-> IF isReal THEN "Pending" ELSE "Not tested",
   socks_handshake_verified |-> FALSE, process_alive_after_e2e |-> FALSE,
   e2e_contract_ok |-> FALSE, internet_e2e_verified |-> FALSE]

\* evaluate_xray_test_result(x).internet_verified
InternetVerified(x) ==
  /\ x.config_validation # "Invalid"
  /\ x.proxy_test = "Valid"
  /\ x.socks_handshake_verified
  /\ x.process_alive_after_e2e
  /\ x.e2e_contract_ok
  /\ x.internet_e2e_verified

\* Faulty variant: the probe's verdict survives the loss of the process.
InvalidatedKeepsProbe(x) ==
  [x EXCEPT !.status = "Invalid", !.internet_e2e_verified = FALSE,
            !.process_alive_after_e2e = FALSE, !.e2e_contract_ok = FALSE]

\* invalidate_proxy_after_process_loss, with the status its callers set.
Invalidated(x) ==
  [x EXCEPT !.status = "Invalid", !.proxy_test = "Invalid",
            !.internet_e2e_verified = FALSE, !.process_alive_after_e2e = FALSE,
            !.e2e_contract_ok = FALSE]

\* _finalize_run
Finalized(x) ==
  LET verified == InternetVerified(x)
      untested == x.proxy_test = "Not tested"
  IN [x EXCEPT !.internet_e2e_verified = verified,
               !.status = IF verified \/ (untested /\ x.config_validation = "Valid")
                          THEN "Valid"
                          ELSE IF untested THEN @ ELSE "Invalid"]

\* What test_config_with_xray writes at its early returns and stages.
Skipped(x) == [x EXCEPT !.status = "Skipped"]
Validated(x, val) == [x EXCEPT !.config_validation = val]
Rejected(x) ==
  [x EXCEPT !.config_validation = "Invalid", !.status = "Invalid", !.proxy_test = "Not tested"]
ConfigOnly(x, val) == Finalized(
  [x EXCEPT !.config_validation = val, !.proxy_test = "Not tested", !.internet_e2e_verified = FALSE,
            !.status = IF val = "Valid" THEN "Valid" ELSE "Invalid"])
Ready(x) == [x EXCEPT !.socks_handshake_verified = TRUE]
Probed(x, ok) ==
  [x EXCEPT !.proxy_test = IF ok THEN "Valid" ELSE "Invalid", !.e2e_contract_ok = ok]
Verified(x) == Finalized(
  [x EXCEPT !.process_alive_after_e2e = TRUE, !.internet_e2e_verified = TRUE])

--------------------------------------------------------------------------------
(* Control of the coroutine. *)

\* Suspended at an await, or not running: another coroutine may go on.
Awaiting == {"idle", "poll", "handshake", "pid", "probe", "diagnose", "done", "raised"}

\* In one event loop a run moves only while no other is between two awaits:
\* `xray run -test`, terminate() and wait() block the loop.
MayRun(r) == SharedLoop => \A q \in Runs \ {r} : pc[q] \in Awaiting

At(r, l) == pc[r] = l /\ MayRun(r)
Goto(r, l) == pc' = [pc EXCEPT ![r] = l]

\* proc.terminate(), or kill() five seconds later: the process is gone, and
\* with it its listening socket.
Stopped(q) == [proc EXCEPT ![q] = IF @ = "none" THEN @ ELSE "exited"]
Closed(q) == [p \in Ports |-> IF listener[p] = q THEN Free ELSE listener[p]]

Init ==
  /\ pc = [r \in Runs |-> "idle"]
  /\ real \in [Runs -> BOOLEAN]
  /\ attempt = [r \in Runs |-> 1]
  /\ late = [r \in Runs |-> FALSE]
  /\ port = [q \in Procs |-> NoPort]
  /\ proc = [q \in Procs |-> "none"]
  /\ listener = [p \in Ports |-> Free]
  /\ result = [r \in Runs |-> NewResult(real[r])]
  /\ via = [r \in Runs |-> Free]

\* Binary present and protocol supported, or SKIPPED at once.
Begin(r) ==
  /\ At(r, "idle")
  /\ \/ Goto(r, "allocate") /\ UNCHANGED result
     \/ Goto(r, "done") /\ result' = [result EXCEPT ![r] = Skipped(@)]
  /\ UNCHANGED <<real, attempt, late, via, osVars>>

\* allocate_loopback_port: a port whose bind probe succeeds. The probe closes
\* its socket, so nothing is reserved. All draws may hit occupied ports.
Allocate(r) ==
  /\ At(r, "allocate")
  /\ \/ \E p \in Ports :
          /\ ProbeSeesListeners => listener[p] = Free
          /\ port' = [port EXCEPT ![Own(r)] = p]
          /\ Goto(r, "validate")
     \/ /\ \E p \in Ports : listener[p] # Free
        /\ Goto(r, "unwind")
        /\ UNCHANGED port
  /\ UNCHANGED <<real, attempt, late, proc, listener, result, via>>

\* validate_config_file and the branches on its status. It answers SKIPPED
\* when the binary has disappeared since Begin.
Validate(r) ==
  /\ At(r, "validate")
  /\ \/ /\ result' = [result EXCEPT ![r] = Rejected(@)]
        /\ Goto(r, "stop")
     \/ \E val \in {"Valid", "Skipped"} :
          IF real[r]
          THEN result' = [result EXCEPT ![r] = Validated(@, val)] /\ Goto(r, "spawn")
          ELSE result' = [result EXCEPT ![r] = ConfigOnly(@, val)] /\ Goto(r, "stop")
  /\ UNCHANGED <<real, attempt, late, via, osVars>>

\* start_background. Popen raises when the binary is missing or unusable.
Spawn(r) ==
  /\ At(r, "spawn")
  /\ \/ /\ proc' = [proc EXCEPT ![Own(r)] = "starting"]
        /\ late' = [late EXCEPT ![r] = FALSE]
        /\ Goto(r, "poll")
     \/ Goto(r, "unwind") /\ UNCHANGED <<proc, late>>
  /\ UNCHANGED <<real, attempt, port, listener, result, via>>

\* Faulty variant: the retry forgets the process of the failed attempt.
NotReadyKeepsProcess(r) ==
  /\ IF attempt[r] < MaxAttempts
       THEN /\ attempt' = [attempt EXCEPT ![r] = @ + 1]
            /\ Goto(r, "allocate")
            /\ UNCHANGED result
       ELSE /\ result' = [result EXCEPT ![r] = Invalidated(@)]
            /\ Goto(r, "stop")
            /\ UNCHANGED attempt
  /\ UNCHANGED <<real, late, port, via, proc, listener>>

\* Faulty variant: one attempt too many.
NotReadyOffByOne(r) ==
  /\ proc' = Stopped(Own(r))
  /\ listener' = Closed(Own(r))
  /\ IF attempt[r] <= MaxAttempts
       THEN /\ attempt' = [attempt EXCEPT ![r] = @ + 1]
            /\ Goto(r, "allocate")
            /\ UNCHANGED result
       ELSE /\ result' = [result EXCEPT ![r] = Invalidated(@)]
            /\ Goto(r, "stop")
            /\ UNCHANGED attempt
  /\ UNCHANGED <<real, late, port, via>>

\* The attempt is given up: stop its process, then retry or invalidate.
NotReady(r) ==
  /\ proc' = Stopped(Own(r))
  /\ listener' = Closed(Own(r))
  /\ IF attempt[r] < MaxAttempts
       THEN /\ attempt' = [attempt EXCEPT ![r] = @ + 1]
            /\ Goto(r, "allocate")
            /\ UNCHANGED result
       ELSE /\ result' = [result EXCEPT ![r] = Invalidated(@)]
            /\ Goto(r, "stop")
            /\ UNCHANGED attempt
  /\ UNCHANGED <<real, late, port, via>>

\* Faulty variant: the loop looks at the process only, never at the clock.
PollWithoutDeadline(r) ==
  /\ At(r, "poll")
  /\ IF ~IsAlive(r)
       THEN NotReady(r)
       ELSE Goto(r, "handshake") /\ UNCHANGED <<real, attempt, late, result, via, osVars>>

\* Top of the wait_ready loop: the deadline, then poll().
Poll(r) ==
  /\ At(r, "poll")
  /\ IF late[r] \/ ~IsAlive(r)
       THEN NotReady(r)
       ELSE Goto(r, "handshake") /\ UNCHANGED <<real, attempt, late, result, via, osVars>>

\* verify_socks5_username_auth in a worker thread: a process accepts its own
\* credentials, a foreign server possibly any. It may always fail or time out.
Accepts(l, r) == l = Own(r) \/ (l = Foreign /\ ForeignAcceptsAny)

Handshake(r) ==
  /\ At(r, "handshake")
  /\ \/ Accepts(listener[port[Own(r)]], r) /\ Goto(r, "pid")
     \/ Goto(r, "poll")
  /\ UNCHANGED <<real, attempt, late, result, via, osVars>>

\* Faulty variant: the answer of psutil is logged and ignored.
PidCheckIgnored(r) ==
  /\ At(r, "pid")
  /\ result' = [result EXCEPT ![r] = Ready(@)]
  /\ Goto(r, "probe")
  /\ UNCHANGED <<real, attempt, late, via, osVars>>

\* pid_listening_on_port. No answer (None) is taken for ready, unverified.
PidCheck(r) ==
  /\ At(r, "pid")
  /\ IF PidAnswers /\ listener[port[Own(r)]] # Own(r)
       THEN NotReady(r)
       ELSE /\ result' = [result EXCEPT ![r] = Ready(@)]
            /\ Goto(r, "probe")
            /\ UNCHANGED <<real, attempt, late, via, osVars>>

\* _test_socks_e2e: whoever listens on the port carries the request.
Probe(r) ==
  /\ At(r, "probe")
  /\ \/ /\ Accepts(listener[port[Own(r)]], r)
        /\ via' = [via EXCEPT ![r] = listener[port[Own(r)]]]
        /\ result' = [result EXCEPT ![r] = Probed(@, TRUE)]
     \/ UNCHANGED via /\ result' = [result EXCEPT ![r] = Probed(@, FALSE)]
  /\ Goto(r, "answered")
  /\ UNCHANGED <<real, attempt, late, osVars>>

\* is_alive() and the contract, before the diagnostics.
CheckAnswer(r) ==
  /\ At(r, "answered")
  /\ IF IsAlive(r) /\ result[r].proxy_test = "Valid" /\ result[r].e2e_contract_ok
       THEN Goto(r, "diagnose") /\ UNCHANGED result
       ELSE /\ result' = [result EXCEPT ![r] = Invalidated(@)]
            /\ Goto(r, "stop")
  /\ UNCHANGED <<real, attempt, late, via, osVars>>

\* Faulty variant: the claim trusts the is_alive() made before the diagnostics.
ConcludeUnchecked(r) ==
  /\ At(r, "diagnose")
  /\ result' = [result EXCEPT ![r] = Verified(@)]
  /\ Goto(r, "stop")
  /\ UNCHANGED <<real, attempt, late, via, osVars>>

\* The diagnostics are over, or raised and were swallowed: is_alive() again,
\* then the claim.
Conclude(r) ==
  /\ At(r, "diagnose")
  /\ result' = [result EXCEPT ![r] = IF IsAlive(r) THEN Verified(@) ELSE Invalidated(@)]
  /\ Goto(r, "stop")
  /\ UNCHANGED <<real, attempt, late, via, osVars>>

\* finally: manager.stop_run(bg_run), on a return and on an exception.
Stop(r) ==
  /\ \/ At(r, "stop") /\ Goto(r, "done")
     \/ At(r, "unwind") /\ Goto(r, "raised")
  /\ proc' = Stopped(Own(r))
  /\ listener' = Closed(Own(r))
  /\ UNCHANGED <<real, attempt, late, port, result, via>>

--------------------------------------------------------------------------------
(* The operating system. *)

\* xray-core opens its inbound, or exits because the port is taken.
Bind(q) ==
  /\ proc[q] = "starting"
  /\ IF listener[port[q]] = Free
       THEN /\ listener' = [listener EXCEPT ![port[q]] = q]
            /\ proc' = [proc EXCEPT ![q] = "serving"]
       ELSE proc' = [proc EXCEPT ![q] = "exited"] /\ UNCHANGED listener
  /\ UNCHANGED <<pc, real, attempt, late, port, result, via>>

Die(q) ==
  /\ proc[q] \in {"starting", "serving"}
  /\ proc' = [proc EXCEPT ![q] = "exited"]
  /\ listener' = Closed(q)
  /\ UNCHANGED <<pc, real, attempt, late, port, result, via>>

ForeignBind(p) ==
  /\ listener[p] = Free
  /\ listener' = [listener EXCEPT ![p] = Foreign]
  /\ UNCHANGED <<pc, real, attempt, late, port, proc, result, via>>

ForeignRelease(p) ==
  /\ listener[p] = Foreign
  /\ listener' = [listener EXCEPT ![p] = Free]
  /\ UNCHANGED <<pc, real, attempt, late, port, proc, result, via>>

DeadlinePasses(r) ==
  /\ pc[r] \in {"poll", "handshake"}
  /\ ~late[r]
  /\ late' = [late EXCEPT ![r] = TRUE]
  /\ UNCHANGED <<pc, real, attempt, port, proc, listener, result, via>>

--------------------------------------------------------------------------------
Step(r) ==
  \/ Begin(r) \/ Allocate(r) \/ Validate(r) \/ Spawn(r) \/ Poll(r) \/ Handshake(r)
  \/ PidCheck(r) \/ Probe(r) \/ CheckAnswer(r) \/ Conclude(r) \/ Stop(r)

Environment ==
  \/ \E q \in Procs : Bind(q) \/ Die(q)
  \/ \E p \in Ports : ForeignBind(p) \/ ForeignRelease(p)
  \/ \E r \in Runs : DeadlinePasses(r)

Next == (\E r \in Runs : Step(r)) \/ Environment

Spec == Init /\ [][Next]_vars

\* Every await of the coroutine has a timeout and every blocking call one too,
\* so a run that may move does; clocks reach their deadlines.
Fairness == \A r \in Runs : WF_vars(Step(r)) /\ WF_vars(DeadlinePasses(r))

FairSpec == Spec /\ Fairness

--------------------------------------------------------------------------------
(* Properties. *)

Labels == Awaiting \cup {"allocate", "validate", "spawn", "answered", "stop", "unwind"}

\* Every variable of the coroutines, the processes and the ports has its type.
TypeOK ==
  /\ pc \in [Runs -> Labels]
  /\ real \in [Runs -> BOOLEAN]
  /\ attempt \in [Runs -> Attempts]
  /\ late \in [Runs -> BOOLEAN]
  /\ port \in [Procs -> Ports \cup {NoPort}]
  /\ proc \in [Procs -> {"none", "starting", "serving", "exited"}]
  /\ listener \in [Ports -> Procs \cup {Free, Foreign}]
  /\ result \in [Runs -> Results]
  /\ via \in [Runs -> Procs \cup {Free, Foreign}]

Ended(r) == pc[r] \in {"done", "raised"}
Live(q) == proc[q] \in {"starting", "serving"}

\* e2e_validity.py calls a run verified when it "truly verified internet via
\* this config": the process of the attempt that made the claim, and no
\* foreign server, sibling run or earlier attempt, carried the probe.
ClaimIsOwn ==
  \A r \in Runs : InternetVerified(result[r]) => via[r] = Own(r)

\* The finally clause and the retry loop leak no xray-core process: a run has
\* at most the process of its current attempt alive, and none once it ended.
NoOrphan ==
  \A q \in Procs : Live(q) => q = Own(q[1]) /\ ~Ended(q[1])

\* "Ensure a dead process cannot leave a usable VALID proxy_test": whatever
\* happened on the way, a returned result that looks usable in any one field
\* passes every criterion, and xray -test alone never claims internet.
UsableIsVerified ==
  \A r \in Runs : pc[r] = "done" =>
    /\ (\/ result[r].proxy_test = "Valid"
        \/ result[r].internet_e2e_verified
        \/ real[r] /\ result[r].status = "Valid") => InternetVerified(result[r])
    /\ ~real[r] => ~InternetVerified(result[r])

\* Ports are not reserved, yet two runs that are past readiness with their
\* processes alive never talk to the same port.
NoCrossTalk ==
  \A q, r \in Runs :
    /\ q # r
    /\ pc[q] \in {"probe", "answered", "diagnose"} /\ IsAlive(q)
    /\ pc[r] \in {"probe", "answered", "diagnose"} /\ IsAlive(r)
    => port[Own(q)] # port[Own(r)]

\* Every run comes to its end, whatever processes and ports do: no retry loop
\* and no readiness loop goes on forever.
Terminates == \A r \in Runs : <>Ended(r)

\* The abstract machine a run implements: ports for inbounds, the process that
\* listens for the holder, control and result for the verdict.
Verdict(r) ==
  IF pc[r] \in {"stop", "unwind", "done", "raised"}
  THEN IF InternetVerified(result[r]) THEN "claimed" ELSE "refused"
  ELSE IF pc[r] \in {"answered", "diagnose"} /\ result[r].proxy_test = "Valid" /\ via[r] = Own(r)
       THEN "answered" ELSE "open"

Abstract == INSTANCE ExitClaim WITH
  Inbounds <- Ports,
  Nobody <- Free,
  holder <- [p \in Ports |-> IF listener[p] \in Procs THEN listener[p][1] ELSE Free],
  verdict <- [r \in Runs |-> Verdict(r)]

\* The runs keep the promise of ExitClaim: one final verdict each, and a claim
\* only by a run whose own process answered and still holds its port.
ImplementsExitClaim == Abstract!Spec

--------------------------------------------------------------------------------
(* The inductive invariant behind the safety properties. *)

\* One of the two defences against a foreign listener on the drawn port works:
\* it does not accept credentials it has never seen, or psutil unmasks it.
OneDefence == ForeignAcceptsAny => PidAnswers

BeforeSpawn == {"idle", "allocate", "validate", "spawn"}
InWaitReady == {"poll", "handshake", "pid"}
PastReady == {"probe", "answered", "diagnose"}

\* A process serves exactly the port of its config, and only from the listener.
ListenerIsServer ==
  \A q \in Procs, p \in Ports : listener[p] = q <=> (proc[q] = "serving" /\ port[q] = p)

\* Earlier attempts are over, later ones have not begun.
OneAttemptLives ==
  \A q \in Procs :
    /\ q[2] < attempt[q[1]] => ~Live(q)
    /\ q[2] > attempt[q[1]] => proc[q] = "none"

\* The process of the current attempt follows the coroutine.
ProcFollowsControl(r) ==
  /\ pc[r] \in BeforeSpawn => proc[Own(r)] = "none"
  /\ pc[r] \in {"validate", "spawn"} \cup InWaitReady \cup PastReady => port[Own(r)] \in Ports
  /\ pc[r] \in InWaitReady \cup PastReady => proc[Own(r)] # "none"
  /\ Live(Own(r)) => port[Own(r)] \in Ports
  /\ Ended(r) => ~Live(Own(r))

\* Past the readiness check a run's process has bound its port, and before
\* psutil was asked it has too unless foreign servers accept anything.
ReadyHasBound(r) ==
  /\ pc[r] = "pid" /\ ~ForeignAcceptsAny => proc[Own(r)] # "starting"
  /\ OneDefence /\ pc[r] \in PastReady \cup {"stop", "unwind"} => proc[Own(r)] # "starting"

\* A positive answer came from the run's process, or that process is gone.
AnswerIsOwn(r) ==
  /\ OneDefence
  /\ pc[r] \in {"answered", "diagnose"} /\ result[r].proxy_test = "Valid" /\ IsAlive(r)
  => via[r] = Own(r)

\* What each place in the code has written into the result so far.
ResultFollowsControl(r) ==
  LET x == result[r] IN
  /\ x.internet_e2e_verified => pc[r] \in {"stop", "done"} /\ InternetVerified(x) /\ real[r]
  /\ pc[r] \in BeforeSpawn \cup InWaitReady \cup PastReady =>
       /\ x.config_validation # "Invalid"
       /\ x.status = "Pending"
  /\ pc[r] \in BeforeSpawn \cup InWaitReady \cup {"probe"} => x.proxy_test # "Valid"
  /\ pc[r] \in {"spawn"} \cup InWaitReady \cup PastReady => real[r]
  /\ pc[r] \in PastReady => x.socks_handshake_verified
  /\ pc[r] = "diagnose" => x.proxy_test = "Valid" /\ x.e2e_contract_ok
  /\ pc[r] \in {"stop", "done"} /\ ~x.internet_e2e_verified =>
       /\ x.proxy_test # "Valid"
       /\ real[r] => x.status # "Valid"

\* The claim was made by the process that carried the probe.
ClaimedOwn(r) == OneDefence /\ result[r].internet_e2e_verified => via[r] = Own(r)

RunInv(r) ==
  /\ ProcFollowsControl(r)
  /\ ReadyHasBound(r)
  /\ AnswerIsOwn(r)
  /\ ResultFollowsControl(r)
  /\ ClaimedOwn(r)

\* TLC checks it beside the properties; XrayRunProofs shows it inductive.
IInv ==
  /\ TypeOK
  /\ ListenerIsServer
  /\ OneAttemptLives
  /\ \A r \in Runs : RunInv(r)
================================================================================
