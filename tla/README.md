# XrayBOMB in TLA+

XrayBOMB takes VLESS, VMess, Trojan and Shadowsocks configs, probes their
servers, scores them, starts a real `xray-core` with each and reports whether
the internet can be reached through it. Around that analysis are a CustomTkinter
window, a history database, a health monitor, an SSH console with an encrypted
vault, and some forty network tools.

The modules here model two things: the parts of the program where threads,
processes, sockets and failures meet, one module each; and one analysis from the
pasted text to the Result tab, with every stage's decisions. TLC checks them on
small instances, and TLAPS proves the most important of their properties for all
values of the constants.
`PROJECT.json` maps each definition to the lines it was translated from.

Check an instance with `tlc -config X.cfg MCModule`, a proof with
`tlapm ModuleProofs.tla`.

## 1. Inventory

### Components that keep state and run beside each other

| Component | Code | State | Operations | What makes it correct |
|---|---|---|---|---|
| Verification run | `xray/tester.py`, `xray/manager.py`, `utils/port_allocator.py`, `utils/socks_verify.py`, `backend/e2e_validity.py` | a port, a subprocess, credentials, the `XrayTestResult` being written | allocate, `xray -test`, start, wait for readiness, probe, diagnose, claim, stop | a claim "internet verified" rests on the run's own live process; no process is leaked; a result is consistent in all its fields |
| Analysis pipeline | `backend/analyzer.py` | a semaphore, gathered tasks, results and errors | `analyze_text`, `analyze`, `analyze_sync` | permits come back, each config has one outcome in input order, scores see complete inputs, the call returns |
| Main window | `gui/app.py`, `gui/components/history_panel.py`, `batch_panel.py` | `_analyzing`, `_result`, `_batch`, `_compare_result`, the posted callbacks | analyse, subscribe, select, load, delete, diff, close | one analysis at a time, each result saved once, never busy forever |
| History database | `database/db.py` | rows with AUTOINCREMENT ids | save, delete, load, list, update_health | deleted rows stay deleted |
| Health monitor | `backend/health_monitor.py` | `_running`, `_timer`, the sweeps in progress | start, stop, sweep, schedule | on exactly when the settings say so, one chain of sweeps, every recent row checked again and again |
| SSH console | `tools/ssh_interactive.py`, `gui/tools/ssh_console_panel.py` | client, channel, flags and event shared by three kinds of thread | connect, disconnect, read, close | one connection, one reader, a status that is true |
| SSH vault | `tools/ssh_vault.py`, profile bar of `gui/tools/ssh_remote_window.py` | key file, encrypted rows, the windows' lists and selections | open, list, save, delete, pick | saved passwords stay readable, no profile overwrites another |
| Geo cache, plugin manager, settings, Xray download, redaction's literals | `utils/geo_cache.py`, `backend/plugins.py`, `utils/settings.py`, `xray/manager.py`, `utils/redaction.py` | module-global objects and files without locks | see the hazards | two threads, or a restart, find them whole |
| Tool windows, server setup, toast, progress bar, terminal buffer | `gui/tools/`, `gui/components/`, `utils/helpers.py` | a running flag, timers, pending text | run, finish, close, feed | a callback or timer acts on what it was started for |

### Components that compute

They keep no state between calls; what they get and return is in the records of
one analysis.

| Component | Code | Operations | What makes it correct |
|---|---|---|---|
| Config parsing and links | `config_parser`, `share_link_builder` | links of every scheme, JSON outbounds, validation, the link that is offered | a link or outbound written by the program reads back as the config it was written from, but for what the format or the parser cannot carry |
| Xray config building | `stream_builder`, `config_generator`, `effective_client`, `_build_outbound` | two builders, one for the test and one for the user | what is shown and exported is what was tested |
| Probes | `network/`, `dns_analyzer/`, `tls/`, `backend/test_environment.py` | resolve, look up, connect, handshake, trace | an answer that failed is not read as one that was good |
| Live test | `xray/tester.py`, `proxy_diagnostics.py` | baseline, sites, speed, leak verdict, criteria | a usable proxy met all criteria in this run |
| Security, deployment, tunnels | `security`, `intelligence`, `tunnel_detection` | scores, guesses, matches | percentages stay in range, levels follow the evidence |
| Stealth | `dpi_intelligence`, `camouflage_intelligence`, `origin_intelligence`, `stealth_common` | three scores from factors | a factor exists only with its evidence |
| Calibration and architecture | `confidence_engine`, `architecture_*`, `implementation_analysis` | conflicts, caps, fronting tier, scenario, alignment | the conclusions do not contradict each other or the wire |
| Advice and guides | `config_optimizer`, `deployment_guide`, `how_to_run*` | offers, scores, sections | nothing is sold that carried no traffic |
| Result tab | `result_summary` | ranked scenarios, verdict, sections | five places that say whether it works say the same |
| Redaction and upload | `utils/redaction.py`, `backend/cloud_sync.py` | collect secrets, mask | no secret leaves the program whole |

Exporters, the command line, the catalogues and some forty network tools format
or look up data.

### How they interact

* The window starts a daemon thread that calls `analyze_sync`, which opens an
  event loop of its own. The thread writes the window's attributes directly and
  posts everything else with `after(0, ...)` to the UI thread.
* `analyze_sync` runs `analyze` for each config under a semaphore; one of
  its later stages is a verification run, so several of them, from one loop or from
  several (the window's and the health monitor's), draw ports and start processes
  at a time. The operating system, with the processes and the other programs on
  it, takes part as an environment.
* Inside `analyze` the stages hand one result object on. Guides, offers and
  diagnostics are written from the conclusions as they stand; a last pass
  (`align_analysis_with_architecture`) rewrites some of those conclusions from the
  diagnostics, and the window builds the Result tab from what is left.
* The health monitor re-analyses database rows in timer threads and writes their
  status, while the window saves and deletes rows.
* The console's connect thread and its readers work on the fields of one session
  object which the UI thread closes; every Remote Server Manager window has its
  own session and its own copy of the vault's list.

### What is hard

`PROJECT.json` lists the hazards, each at its line. In short: bind probes that
reserve nothing, a process that dies between two checks, a retry that must leave
nothing behind, a flag cleared by a thread that no longer owns it,
`asyncio.gather` that leaves tasks running behind an exception, a timer that is
restarted while its predecessor works, `connect()` and `disconnect()` between
each other's assignments, a key file created by two processes, an `UPDATE` that
hits no row; and, within one analysis, conclusions that are revised after others
were drawn from them, two builders and two rankings for one purpose, a verdict
that five places compute, and secrets copied into links, guides and queries.

## 2. Modules

| Module | Models | Extends or instantiates |
|---|---|---|
| `ExitClaim` | abstract: what one verification run promises | |
| `XrayRun` | verification runs and the operating system | implements `ExitClaim` |
| `XrayRunProofs` | theorems about `XrayRun`, its refinement of `ExitClaim` | `XrayRun`, TLAPS |
| `AppWindow`, `AppWindowProofs` | the main window, its workers and callbacks | |
| `HealthMonitor`, `HealthMonitorProofs` | the monitor beside the database and the window | |
| `BatchAnalysis`, `BatchAnalysisProofs` | the analysis of a batch on its event loop | |
| `SSHSession`, `SSHSessionProofs` | the console's session, panel and reader threads | |
| `PasswordStore` | abstract: what the vault promises | |
| `SSHVault`, `SSHVaultProofs` | key file, table and windows | implements `PasswordStore` |
| `Evidence` | the records an analysis is made of, sections, statuses, criteria | |
| `ShareLink` | parsing, validation, building of links | `Evidence` |
| `ClientConfig` | outbounds, stream settings, client configs, redaction | `ShareLink` |
| `Deployment` | security score, deployment guesses, threat list, tunnel matches | `Evidence` |
| `Probes` | what each probe makes of an answer | `Deployment` |
| `LiveTest` | what a live test leaves in the result | `Evidence` |
| `Stealth` | DPI, camouflage and origin reports | `Evidence` |
| `Architecture` | calibration, diagnostics, alignment, reconstruction guide | `Deployment`, `ClientConfig` |
| `Optimizer` | offers, scores and checklists for a seller | `Architecture` |
| `Guide` | setup guide and How to Run | `Architecture` |
| `ResultSummary` | scenarios, verdict and sections of the Result tab | `Guide` |
| `Pipeline`, `PipelineProofs` | one analysis, stage by stage | all of the above |
| `RatingProofs` | lemmas about the operators of the analysis, for `PipelineProofs` | what `Pipeline` extends, TLAPS |
| `MC...` | instances for TLC, with symmetry where it is used | the module named |

Definitions whose comment begins with "Faulty variant" or "Mutant" are mutated
forms of the definition below them. No specification uses them: each is there to show that
some property fails when the code has that bug.

### XrayRun

`pc[r]` is the place of run `r` in `test_config_with_xray`; each action is the
code between two awaits, or one blocking call. `Allocate` draws a port whose bind
probe succeeds and reserves nothing. `Validate` is `xray run -test` with the
branches on its answer. `Spawn` is `Popen`. `Poll`, `Handshake` and `PidCheck`
are one turn of `wait_ready` (deadline, SOCKS handshake with the attempt's own
credentials, psutil's answer about the listener). `NotReady` stops the process
and retries or gives up. `Probe` fetches the probe URL through whoever listens.
`CheckAnswer` and `Conclude` are the two `is_alive()` checks with the diagnostics
between them. `Stop` is the `finally` clause, also reached by an exception
(`unwind`). `Bind`, `Die`, `ForeignBind`, `ForeignRelease` and `DeadlinePasses`
are the environment.

Four switches describe the machine: whether a foreign SOCKS server accepts any
credentials, whether psutil answers, whether a bind probe sees listeners, and
whether the runs share an event loop. In a shared loop a run moves only while the
others are suspended at an await (`MayRun`), because subprocess calls block it.

A result is the record of the seven fields that `evaluate_xray_test_result`,
`_finalize_run` and the reports look at. The diagnostics are one step.

`ExitClaim` knows of no ports, handshakes and retries: a run may hold an inbound,
an answer counts only if its own inbound gave it, and a claim is made at most
once, finally, by a run that holds its inbound and has had its answer. The
refinement maps the listener of a port to the holder of an inbound, and control
and result to the verdict.

### AppWindow

Workers are threads: `fetch` (subscriptions), `analyze`, `store`
(`self._result = ...`), `post` (the completion callback), `finally`, and for a
subscription `clear`, the second `finally`. The user's clicks and `RunCallback`
share the UI thread; callbacks run in order, and clicks fall anywhere between.
A result is `<<worker, position>>`. Dialogs, exports and the QR and JSON windows
read this state and are left out.

### HealthMonitor

A timer thread is `waiting` until it fires, then `list`, `load` and `check` each
row, `schedule` (the look at `_running`) and `start` (the new timer, a separate
step, as `stop` may come between). An exception in `list_recent` or `load` leaves
`_check_all`; one in the analysis is logged for its row. `SaveRow`, `DeleteRow`
and `UpdateHealth` are the database.

### BatchAnalysis

A task per config, a semaphore served in order, two groups of gathered tasks.
`TaskRaises` takes the analysis out of the semaphore and leaves its siblings
alive; `Collect` is the outer gather's `return_exceptions=True`, and `Return`
waits for what is left. `MayRaise` names the tasks whose code lets an exception
out.

### SSHSession

The assignments of `connect()` are steps (`WorkerDisconnect` to `StartReader`), as
the UI thread's `disconnect()` may fall between any two. `disconnect()` itself,
which both threads run, goes statement by statement (`DisconnectStep`): it tests a
field, closes what is in it by then, and clears it. `Dial` and `OpenShell` are the
two calls that may raise before anything is stored; after the second, a connection
is open that no field names. A connection (`net`) and its channel (`shell`) end
apart: a shell that has ended leaves its channel open with an exit status. Readers
look at the session's fields, not at their own, and end on an exit status or an
exception while the channel may still be open.

Three history variables name what the properties have to except: `lateDial`, the
window was closed during a connect; `strays`, connections that the session has
lost sight of; `unread`, channels on which a reader raised.

### SSHVault

The key file is `None`, `Partial` (created, not written) or a key; a process can
end at any step. A window's list is what it last read, so `Pick` may load what
has been changed or deleted since. `deletedBy` and `raced` are history variables.
A profile is its password, since the code treats the other columns alike.

### Pipeline and the modules it composes

`stage` is the next step of `ConfigAnalyzer.analyze`; each action is one stage of
it, in the order of the code:

| Action | Code |
|---|---|
| `Parse`, `ParseFails`, `Validate` | `parse_input`, `validate_config` |
| `ResolveTargets`, `ResolveRaises` | `analyze_dns`, `resolve_endpoint_targets` |
| `ProbeTargets` | stage 3: network, connectivity, TLS, route, certificate log |
| `GatherIntel` | stage 4: tunnel route, `_run_threat_intel` |
| `Conclude` | deployment, security score, reproduction guide |
| `LiveTest` | the Xray test with its diagnostics, or its absence |
| `Assess` | tunnels, stealth reports, calibration |
| `BuildReports`, `Align` | guide, optimizer, implementation, diagnostics, environment; `align_analysis_with_architecture` |
| `RunHooks`, `HookReturnsNothing` | `PluginManager.run_hooks` |
| `SyncUpload` | `deep_redact` and the upload |
| `ShowSummary` | the Result tab, built in the window |

`r` is the `AnalysisResult` with a field per part; `settings` is the user's,
`report` the finished tab, `uploaded` what the cloud got. What the outside
answers (resolver, lookups, sockets, certificate, `xray-core`, plugin) is chosen
in the stage that asks, from sets of answer records. The probes of one group
share nothing but the result they fill in, so a group is one step here; their
interleavings, and a raised exception among other configs, are in `BatchAnalysis`.
What can happen between two statements of a live test is in `XrayRun`; `LiveTest`
is the result as a function of the outcome.

A list of which only membership is asked is a set; a list whose order decides is
a sequence or carries positions. A chain of `if`s that picks one text is a table
of `<<condition, value>>` rows (`FirstOf`), one that collects texts is `Selected`.
A sentence is a tag. Scores are integers as in the code; confidences are in
hundredths, after multiplication in ten-thousandths, so that products are exact.
Where the code keeps a Python `set` and takes its first element, the order is an
input (`SetOrders`).

## 3. Runs

| Run | Instance | Distinct states | What it shows |
|---|---|---|---|
| `xray_run_pid` | 2 runs, 1 port, 2 attempts, one loop, foreign servers accept anything | 100 072 | the PID check and the two liveness checks keep claims, ports and processes apart; the runs implement `ExitClaim`, every run ends |
| `app_window` | 2 workers, batches of 0 to 2 results | 292 526 | each batch saved once, results have a source, the window does not stay busy |
| `app_window_overlap` | 3 workers | violation | `OneAnalysisAtATime` fails |
| `health_monitor` | 2 timers, 4 rows (one broken, one without a link), sweeps of 2, one fault | 295 254 | the monitor follows the settings, sweeps go on and end |
| `health_monitor_chains` | 2 timers | violation | `OneChain` fails |
| `batch` | 4 configs, 2 permits, 3 probes, 2 enrichers | 81 355 | permits, partition, complete inputs, return |
| `batch_limit` | 3 configs, 2 permits | violation | `WithinLimit` fails |
| `ssh_session` | 2 connections, a callback waiting at a click | 265 611 | one connection, true status, usable sessions have readers, connects end |
| `ssh_session_readers` | 2 connections | violation | `OneReader` fails |
| `ssh_vault` | 2 processes with 1 window, 2 keys, 2 rows | 67 452 | passwords stay readable, the vault implements `PasswordStore` |
| `pipeline` | 20 texts, 2 settings, all combinations of the answers | 93 567 | links and outbounds read back as far as their formats reach, the shown config is the tested one but for two protocols, no secret is uploaded whole, claims are observed and do not contradict each other, every analysis ends |
| `pipeline_baseline` | the same | violation | `BaselineIsHeard` fails |

Why the bounds are enough:

* `MaxAttempts` is 2 where the code has 3: one retry after a failure and one
  failure without a retry. Two runs on one port is full contention.
* Two workers give every overlap of a worker with a click; the overlap of two
  analyses needs a third, whose click the second `finally` lets in.
* Two timers give a chain and its duplicate. Four rows with a limit of 2 put rows
  inside, at the edge of and outside a sweep, with the broken one below the others.
* Four configs over two permits queue for two rounds. Three probes put a raising
  one between others of its group.
* Two connections are one, whole or lost, and the one dialled after or over it;
  `OneOpen` relates two. For more of them there are the theorems.
* Two processes race for the key file, with a third key excluded: a restarted
  process would need one only if the file had gone. Two rows show one profile
  overwriting another.
* The twenty texts have every transport and security the branches tell apart,
  a literal and a resolved address, an IPv6 host with and without brackets, a CDN
  edge, a port of its own, ids that need quoting and ids already quoted, a
  parameter repeated where it is read and where it is not, imported outbounds with
  `vnext` (one with REALITY) and one without, and each way of failing to parse. The
  answers have a fronted, a direct, an unreachable and a contradictory server (a
  cache header of one CDN at the address of another, a failed handshake), a
  resolver that finds an edge, an origin or nothing, listed and unlisted
  addresses, and a live test that verifies the exit, loses its process, loses its
  diagnostics, is refused or is invalid.

What the credentials of an attempt do without the PID check (no psutil, several
ports, separate loops) is answered by `ClaimIsOwnHolds` for all values of the
constants and by no run: one of the two defences suffices.

`CHECK_DEADLOCK FALSE` is set where the system stops: when all runs have ended,
the window is closed, the batch has returned, or a bound is used up. The pipeline
has an explicit end (`Ended`) instead.

### Fairness

Weak fairness is given to threads and event loops, never to users, networks or
processes.

* `XrayRun`: a run that can move moves, since each await and each blocking call
  of the coroutine has a timeout, and clocks reach the readiness deadline. Processes
  need not bind nor die.
* `AppWindow`: workers run, because every probe of an analysis has a timeout, and
  the main loop serves its queue as long as the window is open.
* `HealthMonitor`: timers fire and sweeps go on; stopping is the user's.
* `BatchAnalysis`: tasks end or raise, and the loop runs its ready tasks.
* `SSHSession`: `client.connect` has a timeout; the UI thread ends what it began;
  readers poll with a timeout.
* `Pipeline`: the thread of the analysis goes on to its next stage, because the
  waits of a stage have timeouts. `WF_stage(Advances)` is weak fairness of `Next`
  written with a cheaper action: every step but the stuttering `Ended` changes the
  stage, and the deadlock check shows one enabled in every state. That an
  analysis ends is then that no combination of answers leaves a stage without a
  step: an exception no handler expects would be a deadlock.
* `SSHVault` states no liveness.

## 4. Where the code says one thing and does another

Each is a run that TLC finds violated, and an entry under `findings`.

1. `OneAnalysisAtATime`: `_run_subscription` clears `_analyzing` again after
   `_run_analysis` has cleared it (`gui/app.py:345`); by then the flag may belong
   to the next analysis.
2. `OneChain`: `HealthMonitor.start` does not look for a chain that is alive, and
   each save of the settings calls it (`backend/health_monitor.py:30`).
3. `WithinLimit`: the probes left behind by an exception run on outside the
   semaphore (`backend/analyzer.py:149`).
4. `OneReader`: `connect()` clears the stop event that an old reader has not seen
   yet, and both readers go on with the new channel (`tools/ssh_interactive.py:86`).
5. `BaselineIsHeard`: `valid_ips` is annotated as a set and is a list, so `.add`
   raises after the row has its address, and a run with direct samples reports
   that it has none (`xray/proxy_diagnostics.py:188`). `ip_leak` is therefore
   never decided, and several verdicts take their "nothing measured" branch.

Other facts about the code which the models contain and no run reports:

* An `UPDATE` of a profile that another window has deleted changes no row, and
  the window says it was saved (`tools/ssh_vault.py:133`).
* The suggested "VLESS link" is always the original link
  (`config_optimizer.py:509`, `share_link_builder.py:69`).
* An HTTPUpgrade config loses its path and host on the way to the stream
  settings, though `effective_client.py:1` says that its rules are the stream's.
* The default of `vnext` is a list with an empty server, so the JSON import of a
  Trojan or Shadowsocks outbound never looks at `servers` and gets an empty
  address (`config_parser.py:383`); of every outbound it drops flow, ALPN,
  fingerprint and `allowInsecure` (`config_parser.py:420`), so a REALITY outbound
  with Vision, written by the program and imported again, is not the same one.
* `build_vless_link` quotes the id, which `parse_vless` does not unquote
  (`share_link_builder.py:62`, `config_parser.py:68`): an id with a character to
  quote reads back quoted. It writes an IPv6 address without the brackets that
  `urlparse` took off (`share_link_builder.py:64`), and then no parser can read the
  link: the port is not a number. A host reads back in lower case. A link built
  for an imported config holds the whole outbound as a parameter
  (`share_link_builder.py:57`).
* `wireguard://` raises a `KeyError`; a query parameter given twice becomes a list
  and raises where a parser needs it to be text, not where it only keeps it; a JSON
  array raises an `AttributeError` (`config_parser.py:368`), and a WireGuard file
  is not reached from `parse_input`.
* `parse_trojan` ignores the REALITY parameters; the transport names of a VMess
  body lack HTTPUpgrade and XHTTP.
* `config_generator` writes a Hysteria2 or TUIC outbound as `freedom`
  (`config_generator.py:55`) where the live test runs the protocol
  (`tester.py:102`): the config that is shown and exported is not the tested one
  and proxies nothing.
* A secret of fewer than four characters is masked only in its own field, and a
  mask keeps the first and last four characters of a value of more than eight
  (`helpers.py:47`); the set of known secrets is one of the process
  (`redaction.py:118`).
* A connect whose `invoke_shell` raises leaves its SSH connection open, with no
  field naming it (`tools/ssh_interactive.py:73`): neither a disconnect nor closing
  the window ends it. A `disconnect()` between closing the client and clearing the
  field forgets a client stored in between (`tools/ssh_interactive.py:161`).
* A reader ends when the shell has an exit status and at any exception, one of the
  output callback included, and leaves the channel open and the flag up
  (`tools/ssh_interactive.py:115`, `121`): the panel shows a session that no one reads.
* The alignment withdraws a CDN from the conclusions, but checklists of the guide
  keep "CDN DNS"; the primary scenario of the Result tab need not be
  `tun.primary_type`, nor `primary_id` the one that calibration puts first.
* "TLS Enabled" passes with a failed handshake (`security.py:29`); a DNSBL query
  that times out counts as not listed; a test the user has switched off is
  reported like a missing binary (`analyzer.py:188`).
* `exit_ip` stays in the result of a run that was not verified
  (`tester.py:318`), and "no leak" is said of a leak that was not measured.
* The fingerprint probe replaces the CDN evidence of the baseline probe
  (`connectivity.py:245`).
* `confidence_engine.py:149` and the grey-cloud branch at
  `origin_intelligence.py:85` cannot be reached; `reality_test` is never valid.

## 5. Proofs

All theorems hold for every value of the constants that satisfies the named
assumptions of the module (`AttemptsAssumption`, `ListenersAssumption` and so on:
bounds are positive, model values differ from each other, sets of threads are
finite). `Pipeline` assumes three things. `TextsAssumption`: `parse_input` knows
four kinds of text, a JSON object, a JSON array, a WireGuard file and lines of
links. `BriefAssumption`: a secret of fewer than four characters has at most eight.
`SetOrdersAssumption`: an order of a Python `set` puts each CDN name at some
place. Nothing is assumed of `Quote` and `Hostname`, what the quoting of an id and
`urlparse` make of a text. TLC evaluates the same assumptions in each run.

* `XrayRunProofs`: `TypeCorrect`, `NoOrphanHolds`, `UsableIsVerifiedHolds`,
  `ClaimIsOwnHolds`, `NoCrossTalkHolds`. `TypeOK` and the properties are not
  inductive: that a claim is the run's own depends on who held the port three
  steps earlier. `IInv` adds that a listener is exactly a serving process
  (`ListenerIsServer`), that attempts before the current one are over and those
  after it have not begun (`OneAttemptLives`), and for each run what its place in
  the code says about its process (`ProcFollowsControl`, `ReadyHasBound`), the
  answer (`AnswerIsOwn`) and the result (`ResultFollowsControl`, `ClaimedOwn`).
  The key argument: past readiness a process is never `"starting"` again, so if
  it is still alive when the answer is judged, it has held its port all along,
  and the answer was its own.
* The premise `OneDefence` (foreign servers check credentials, or psutil answers)
  is needed: with neither, a foreign server that accepts any credentials on the
  drawn port carries the probe while the process is still starting. `TypeOK`,
  `NoOrphan` and `UsableIsVerified` need no premise.
* `XrayRunProofs`, second part: `Implements`, `OneDefence => (Spec => ImplementsExitClaim)`.
  One lemma per action says which abstract step it is: `Bind` acquires, `Die` and
  the stops lose or refuse, `Probe` answers, `Conclude` claims or refuses, and the
  rest stutter. It uses `IInv` in the first state of each step.
* `AppWindowProofs`: `TypeCorrect`, `SavedOnceHolds`, `ResultHasSourceHolds`,
  `OneAnalysisFromTextHolds`. `SavedOnce` is not inductive: a batch may only be
  saved by the completion callback of its worker, so `SaveInv` says that the
  callback is posted at most once, is in the queue at most once, and that before
  it has run nothing of its worker's batch is in the database. `Sourced` says of
  every result the window holds that its worker has stored it. `FlagIsHeld` says
  that a text worker at work means the flag is up, for as long as no subscription
  has ever been started: with one, `OneAnalysisAtATime` is false.
* `HealthMonitorProofs`: `TypeCorrect`, `RunningHasChainHolds`,
  `RunsAsEnabledHolds`, `DeletedStaysDeletedHolds`. `RunningHasChain` is made
  inductive together with where the timer is; `DeletedStaysDeleted` needs only
  that ids are not used twice. `TypeOK` includes what a sweep works through
  (`SweepOK`): rows that were once inserted, at most `Limit`, the newest first
  and none twice, and a thread that checks has one to check. That a listing is
  such a sequence is `ListRecentOK`: for every k up to the number of rows one
  row has k - 1 newer ones (`RankTaken`), and fewer newer ones means newer.
* `BatchAnalysisProofs`: `TypeCorrect`, `PermitsConservedHolds`, by cardinalities
  of the set of analyses in flight, and `InputsCompleteHolds`, which needs that a
  config before stage 3 has no task and that stage 4 begins when those of stage 3
  have ended. `PartitionHolds` is about the loop over the outcomes, a recursive
  function (`Sorted`): that it exists, and what its two lists hold after the k-th
  turn, are inductions over k. `NoOutcomeLost` counts the two lists, the safety
  half of `BatchReturns`. `WithinLimitHolds` says what finding 3 depends on: the
  limit holds in full where no task of a gathered group raises, since then every
  task belongs to an analysis that waits for it (`Attended`).
* `SSHSessionProofs`: `TypeCorrect`, `OneOpenHolds`, `ClosedIsDisconnectedHolds`,
  `QuietOffIsOffHolds`, `UsableHasReaderHolds`. `ConnInv` follows a connection from
  the dial over the local variable to the client field: while it is open it is in
  one of these places or among the `strays`, and a disconnect that is about to
  clear the field has closed what is in it or lost it (`Emptied`). So the two ways
  into `strays`, a shell that cannot be opened and a client stored inside a
  disconnect, are the only ones, which is what `OneOpen` and `ClosedIsDisconnected`
  say. `PanelInv` adds what the panel has been told or will be told
  by a callback that is still queued (`Announced`, `TellsTheTruth`), that the flag
  is up only while no connect is being made (`FlagAtRest`), and that a usable session has a reader
  unless its shell has ended or a reader raised on its channel (`HasReader`).
* `SSHVaultProofs`: `TypeCorrect`, `ReadableHolds`, `SelectionNotDeletedHereHolds`
  and `Implements`. `IInv` relates a window's list and selection to the rows its
  own deletes left, and bounds all ids by `lastId`, so that an insert is never the
  profile some stale window still selects. `KeyInv` says that without a race every
  process that has a key has the key of the file, and every row was encrypted with it.
* `PipelineProofs`: every invariant of the pipeline's run, for every set of
  texts, answers and settings. Each proof follows some values from the stage that
  makes them to the report, with an invariant that says what they are from which
  stage on:
  * `NoSecretUploadedHolds`: `deep_redact` collects each secret from the field
    that is named for it, so that every other part that repeats it (link, query,
    guide) is masked by value, whatever the stages before have put there. What is shown is
    that no secret is there whole, and of one of at most eight characters not even
    the ends; those of a longer one a mask shows. Its hypothesis is that neither
    the config's secret nor its password is the tag for the run's id.
  * `CdnClaimIsObservedHolds`: a fronting tier above "unconfirmed" needs a CDN
    that was named over HTTP, and the alignment erases the CDN for the lowest tier.
  * `ShownConfigIsTestedHolds`: two builders, protocol by protocol. They agree on
    what both know; for Hysteria2 and TUIC they differ, and the theorem says how.
  * `OneStrongCdnHolds` and `UnverifiedIsCappedHolds` share `RatedInv`: the guesses
    have integer scores from the deployment to the live test, and from the
    assessment on they, the matches and the insights are calibrated. Each rule of
    the calibration keeps the cap; the resolver of conflicts leaves one strong
    guess in a group; the alignment raises nothing.
  * `VerdictsAgreeHolds`: `SaysInv` holds the reports to one live test. The test
    is consistent (its status says "Valid" exactly when the whole criterion holds),
    each report was written from it, and the alignment changes none of that. That
    no config without traffic is ready to sell is a sum: all credits but the one
    for traffic come to 73, and the threshold is 75.
  * `TopologyAgreesHolds`: `TopologyInv`. Behind a CDN seen on the wire the plain
    server stays at 25, the CDN's guess at 58 or more and no direct match is left;
    without one a CDN's match stays at 42 or less, below the 48 of a direct server.
    Scenarios are ranked by these numbers, and the alignment keeps them apart.
  * `TypeCorrect`: `TypeInv`. Each score is a percentage from the stage that writes
    it, and the upload holds only what the config and the run are known by.
  * `LinkReadsBackHolds` and `OutboundReadsBackHolds`: `Readable` says what the
    parsers guarantee, protocol by protocol: flags are Booleans, and the query
    that a VLESS config keeps says nothing the config does not say. Without it a
    field the config has dropped would come back through the query, which the
    builder copies last. A link gives back every field it can say, the id as the
    builder quoted it and the host as `urlparse` reads it, and cannot be read at all
    exactly when the address is a bare IPv6 address or the port is out of range.
    It cannot say port 0; an unknown `network` of an imported outbound becomes
    `tcp`; a path and a host are written for some transports only; an imported TLS
    outbound with a host but no server name gets the host for one. An outbound gives
    back server, id, security and the settings of its transport, and the theorem
    names what is lost: flow, ALPN, fingerprint, `allowInsecure` and remark always,
    path and host of HTTPUpgrade, the transport XHTTP, and the server of every
    protocol that is not written under `vnext`.
* `RatingProofs`: the lemmas these rest on, about tables of rows (`FirstOf`,
  `Selected`), bounds, sums over finite sets, the confidence of a CDN, the
  deployment's guesses, calibration and conflict rules, alignment, the scores of
  the optimizer, of the stealth reports and of security, and the ranking of
  scenarios. The library's induction cannot be cited with an operator, so here and
  for the batch it is stated of a set (`NatSetInduction`) and proved from the least
  number outside it.

Checked by TLC only:

* liveness (`Terminates` of a run and of an analysis, `ResultsAreSaved`,
  `BusyEnds`, `StopEndsChains`, `CheckedAgain`, `BatchReturns`, `ConnectEnds`),
  because the prover does not handle fairness and `ENABLED`. Every invariant and
  action property of the runs is a theorem.

## 6. Not modelled

* Sentences, colours, layout, and the order of equal scores.
* The sockets under a probe. A probe is what it makes of an answer; that it ends
  is assumed from its timeout, so `BatchReturns` and `Terminates` do not speak of a
  thread that never comes back.
* Time. A timer may fire at any moment after it starts, a deadline may pass at any
  moment while it runs; intervals and the two-second callbacks are not measured.
* A crash of the program during a verification run: daemon threads end without
  their `finally`, and `xray-core` is left running (`xray/tester.py:339`). No part
  of the code looks for it at the next start.
* The message of a failed analysis, whose lambda reads `exc` after the `except`
  block has deleted it (`gui/app.py:285`); the monitor's interval, which may be
  zero (`gui/components/settings_dialog.py:102`); two downloads of `xray-core` at
  a time (`xray/manager.py:163`); the plugin manager published before its plugins
  are loaded (`backend/plugins.py:87`); chunks of terminal output cut inside an
  escape sequence (`utils/helpers.py:105`); the timer of a toast that was replaced
  (`gui/components/toast.py:23`); the profile selected while a server action runs
  (`gui/tools/ssh_remote_window.py:272`). Those
  that are components of their own are planned below; the first two are plain
  mistakes of a line, which a model would only repeat.
* Locked databases, except in the health monitor's sweep; full disks.
* `touch()` and the order of the vault's list; the console's command history.
* Of the parsers, subscriptions and the files of OpenVPN and WireGuard; of the stream settings, header
  tables and padding; of the Result tab, the playbook and the list of evidence.
* The components that `PROJECT.json` lists as `not_modelled`, each with its reason.

## 7. Plan

Done, in this order: `XrayRun` with `ExitClaim`, `AppWindow`, `HealthMonitor`,
`BatchAnalysis`, `SSHSession`, `SSHVault` with `PasswordStore`; then the analysis
as a whole, `Evidence` to `Pipeline`; then the proofs of `AppWindow`,
`SSHSession`, the vault's `Readable` and all invariants of `Pipeline`.

Next, components with state:

1. `GeoCache` and `Settings`: dictionary, file and expiry under two threads and a
   restart; `BatchAnalysis` gets the exception from there.
2. `PluginManager`: first use from two threads, loading twice.
3. `ToolWindow` and `ServerSetup`: worker, callbacks and close; two actions on one
   server, the selection read at the end of an action.
4. `XrayDownload` beside verification runs.
5. `TerminalBuffer`: feed and flush against the reference "the lines of the
   concatenated input"; `Toast` and progress timers.

Proofs: every safety invariant and action property of the components above is a
theorem. Next: the conditions under which the properties of section 4 do hold, as
`OneAnalysisFromText` and `WithinLimitHolds` are for the first and the third;
invariants the reports rely on and no run states yet; and the components of this
list as they come.
