------------------------------- MODULE Pipeline -------------------------------
(***************************************************************************)
(* One analysis, from the pasted text to the finished report               *)
(* (ConfigAnalyzer.analyze in src/backend/analyzer.py).  The stages run in *)
(* sequence; what the outside answers is chosen stage by stage.  The       *)
(* probes of a group share nothing, so a group is one step here: their     *)
(* interleavings, and what a raised exception does to a batch, are in      *)
(* BatchAnalysis.                                                          *)
(***************************************************************************)
EXTENDS ResultSummary, Optimizer, Stealth, Probes, LiveTest

CONSTANTS
  Texts,         \* what is pasted
  Short,         \* the secrets with fewer than four characters
  Brief,         \* those with at most eight, which a mask hides completely
  Unencodable,   \* host names the system resolver cannot even ask for
  DnsAnswers, NetAnswers, ConnAnswers(_), TlsAnswers, RouteAnswers, CtAnswers,
  DnsblAnswers,  \* functions from addresses to the answers of the two zones
  Clients,       \* the countries of the user, "" when the lookup failed
  Outcomes,      \* of a live test
  ExitLookups,   \* the country the lookup of the exit found, "" when it failed
  SetOrders,     \* the orders a Python set of CDN names may come in
  Environments,  \* of the process: the proxy variable
  Hooks,         \* what the plugin hooks did
  Settings       \* run_test, installed, real, threat, route, ct, sync, redact

\* A text is a JSON object, a JSON array, a WireGuard file or lines of links.
ASSUME TextsAssumption == \A text \in Texts : text.kind \in {"json", "array", "conf", "links"}

\* Fewer than four are at most eight.
ASSUME BriefAssumption == Short \subseteq Brief

\* An order gives every CDN its place.
ASSUME SetOrdersAssumption == \A order \in SetOrders : \A t \in CdnTunnels : order[t[1]] \in Nat

VARIABLES
  stage,     \* the next step of the analysis
  settings,
  r,         \* what is known so far
  report,    \* the Result tab, once shown
  uploaded   \* the secrets and identifiers the cloud got whole, and those whose ends it got

vars == <<stage, settings, r, report, uploaded>>

NotYet == [none |-> TRUE]

NothingUploaded == [whole |-> {}, ends |-> {}]

NothingKnown(c) ==
    [cfg |-> c, valid |-> FALSE, endpoints |-> NotYet, dns |-> EmptyDns(""), net |-> {}, conn |-> NotYet,
     tls |-> TlsOff, trace |-> 0, ct |-> NoCt, threat |-> {}, tunnel |-> "", dep |-> NotYet,
     security |-> NotYet, reproduction |-> NotYet, xray |-> NoRun, exit_intel |-> "", tun |-> NotYet,
     setOrder |-> [label \in {t[1] : t \in CdnTunnels} |-> 0], dpi |-> NotYet, camouflage |-> NotYet,
     origin |-> NotYet, insights |-> {}, guide |-> NotYet, optimization |-> NotYet,
     implementation |-> NotYet, arch |-> NotYet, environment |-> NotYet]

Init ==
  /\ stage = "parse"
  /\ settings \in Settings
  /\ r = NothingKnown(NoConfig)
  /\ report = NotYet
  /\ uploaded = NothingUploaded

Goes(from, to) == stage = from /\ stage' = to

\* One of the configs of the text; BatchAnalysis has all of them.
Parse ==
  /\ Goes("parse", "validate")
  /\ \E text \in Texts :
        /\ ~ParseRaises(text)
        /\ \E i \in DOMAIN ParseInput(text) : r' = NothingKnown(ParseInput(text)[i])
  /\ UNCHANGED <<settings, report, uploaded>>

\* One bad link, or none at all, fails the whole text.
ParseFails ==
  /\ Goes("parse", "failed")
  /\ \E text \in Texts : ParseRaises(text) \/ ParseInput(text) = << >>
  /\ UNCHANGED <<settings, r, report, uploaded>>

\* Errors are recorded and nothing else: the analysis goes on.
Validate ==
  /\ Goes("validate", "dns")
  /\ r' = [r EXCEPT !.valid = ValidateConfig(r.cfg)]
  /\ UNCHANGED <<settings, report, uploaded>>

ResolveTargets ==
  /\ Goes("dns", "probe")
  /\ {t.host : t \in ToSet(DnsTasks(r.cfg))} \cap Unencodable = {}
  /\ \E answers \in [DOMAIN DnsTasks(r.cfg) -> DnsAnswers] :
        LET results == [i \in DOMAIN answers |-> AnalyzeDns(DnsTasks(r.cfg)[i].host, answers[i])]
            endpoints == ResolveEndpointTargets(r.cfg, results)
        IN  r' = [r EXCEPT !.endpoints = endpoints, !.dns = endpoints.connect]
  /\ UNCHANGED <<settings, report, uploaded>>

\* Only gaierror is caught around getaddrinfo: another error ends the analysis.
ResolveRaises ==
  /\ Goes("dns", "failed")
  /\ {t.host : t \in ToSet(DnsTasks(r.cfg))} \cap Unencodable # {}
  /\ UNCHANGED <<settings, r, report, uploaded>>

ProbeTargets ==
  /\ Goes("probe", "intel")
  /\ \E net \in NetAnswers, conn \in ConnAnswers(r.cfg), tls \in TlsAnswers,
        route \in RouteAnswers, ct \in CtAnswers :
        r' = [r EXCEPT
                !.net = LookupNetwork(r.endpoints.ips, r.dns.reverse, net),
                !.conn = RunConnectivityTests(r.cfg, conn),
                !.tls = AnalyzeTls(r.cfg, tls),
                !.trace = IF settings.route THEN HopCount(route) ELSE 0,
                !.ct = IF settings.ct THEN LookupCertTransparency(r.cfg, ct) ELSE NoCt]
  /\ UNCHANGED <<settings, report, uploaded>>

\* The route is drawn from the same objects that the verdicts overwrite.
GatherIntel ==
  /\ Goes("intel", "conclude")
  /\ \E zones \in DnsblAnswers, client \in Clients :
        LET threats == IF ~settings.threat THEN {} ELSE {ThreatIntel(n, zones[n.ip]) : n \in r.net}
        IN  r' = [r EXCEPT !.threat = threats, !.tunnel = TunnelRoute(client, r.net),
                           !.net = IF settings.threat THEN ApplyThreats(@, threats) ELSE @]
  /\ UNCHANGED <<settings, report, uploaded>>

Conclude ==
  /\ Goes("conclude", "live_test")
  /\ r' = [r EXCEPT
             !.dep = AnalyzeDeployment(r.cfg, r.dns, r.net, r.conn, r.trace),
             !.security = AnalyzeSecurity(r.cfg, r.tls, r.conn, r.net),
             !.reproduction = ReproductionGuide(r.cfg)]
  /\ UNCHANGED <<settings, report, uploaded>>

\* A test the user has switched off and one without a binary end alike.
LiveTest ==
  /\ Goes("live_test", "assess")
  /\ IF settings.run_test /\ settings.installed
     THEN \E o \in Outcomes, country \in ExitLookups :
            LET x == TestConfigWithXray(r.cfg, settings.real, o)
            IN  /\ x.exit_ip = "" => country = ""
                /\ r' = [r EXCEPT !.xray = x, !.exit_intel = country]
     ELSE r' = [r EXCEPT !.xray = SkippedByAnalyzer]
  /\ UNCHANGED <<settings, report, uploaded>>

AnalyzeTunnels(q) ==
    LET matches == DetectedTunnels(q)
        tops == PrimaryTunnels(matches)
        top == CHOOSE m \in tops : TRUE
    IN  [detected |-> matches, primary_id |-> IF tops = {} THEN "" ELSE top.id,
         primary_type |-> IF tops = {} THEN "unknown" ELSE top.id,
         primary_conf |-> IF tops = {} THEN 0 ELSE top.conf * 100]

\* Scores first, then the calibration that replaces guesses and matches.
AssessStealth(q) ==
    LET dpi == DpiReport(q)
        camouflage == CamouflageReport(q)
        origin == OriginReport(q)
        calibration == CalibrationOf(q, dpi, camouflage, origin)
    IN  [q EXCEPT !.dpi = dpi, !.camouflage = camouflage, !.origin = origin,
                  !.insights = calibration.insights, !.dep.guesses = calibration.guesses,
                  !.tun.detected = calibration.tunnels, !.tun.primary_conf = calibration.primary_cal]

Assess ==
  /\ Goes("assess", "report")
  /\ \E order \in SetOrders :
        LET q == [r EXCEPT !.setOrder = order]
        IN  r' = AssessStealth([q EXCEPT !.tun = AnalyzeTunnels(q)])
  /\ UNCHANGED <<settings, report, uploaded>>

\* Written one after another, each from the conclusions as they stand now.
BuildReports ==
  /\ Goes("report", "align")
  /\ \E env \in Environments :
        r' = [r EXCEPT !.guide = SetupGuide(r), !.optimization = ConfigOptimization(r, TopGuess(r).name),
                       !.implementation = ImplementationAnalysis(r),
                       !.arch = ArchitectureDiagnostics(r), !.environment = TestEnvironment(r, env)]
  /\ UNCHANGED <<settings, report, uploaded>>

AlignWithArchitecture(q) ==
    [q EXCEPT !.dep = AlignDeployment(@, q.arch.tier), !.tun = AlignTunnels(@, q.arch),
              !.guide = AlignSetupGuide(@, q.arch)]

\* Mutant: the reports are written again until the alignment changes nothing.
AlignUntilStable ==
  /\ stage = "align"
  /\ stage' = IF AlignWithArchitecture(r) = r THEN "plugins" ELSE "report"
  /\ r' = AlignWithArchitecture(r)
  /\ UNCHANGED <<settings, report, uploaded>>

Align ==
  /\ Goes("align", "plugins")
  /\ r' = AlignWithArchitecture(r)
  /\ UNCHANGED <<settings, report, uploaded>>

\* An exception of a hook is caught; a hook that returns nothing is not.
RunHooks ==
  /\ Goes("plugins", "upload")
  /\ \E hook \in Hooks : hook # "returned nothing"
  /\ UNCHANGED <<settings, r, report, uploaded>>

HookReturnsNothing ==
  /\ Goes("plugins", "failed")
  /\ "returned nothing" \in Hooks
  /\ UNCHANGED <<settings, r, report, uploaded>>

\* The values of the config that nobody else may see.
Secrets(c) ==
    Selected(<< <<c.secret # "", c.secret>>, <<c.password # "", c.password>>,
                <<c.public_key, "pbk">>, <<c.short_id, "sid">> >>)

\* An imported outbound is kept whole: the ids of its users, the passwords of
\* its servers and the keys of REALITY with it.
IsImported(c) == c.raw = NoLink /\ "outbound" \in DOMAIN c.extra

ImportedIds(c) ==
    IF ~IsImported(c) THEN {}
    ELSE LET to == c.extra.outbound.settings
         IN  {Get(n, "secret", "") : n \in ToSet(Get(to, "vnext", << >>))
                                            \cup ToSet(Get(to, "servers", << >>))} \ {""}

ImportedKey(c, name) ==
    /\ IsImported(c)
    /\ \E tls \in {"tlsSettings", "realitySettings"} :
          Get(Get(c.extra.outbound.stream, tls, << >>), name, FALSE) = TRUE

\* The secrets among the values of the query, not all of which are parsed, or
\* of an imported outbound.
Quoted(c) ==
    Selected(<< <<"id" \in DOMAIN c.extra, c.secret>>,
                <<"pbk" \in DOMAIN c.extra \/ ImportedKey(c, "publicKey"), "pbk">>,
                <<"sid" \in DOMAIN c.extra \/ ImportedKey(c, "shortId"), "sid">> >>)

\* The parts of a result that hold a secret: fields of their own, the query
\* of the link, the steps that may spell them out and the suggested link.
Dump(q) ==
    LET c == q.cfg
        field(key, value) == [key |-> key, says |-> value, ends |-> {}]
        link(l) == IF l = NoLink THEN {} ELSE {"link"}
    IN  {field("uuid", {c.secret} \ {""}),
         field("password", {c.password} \ {""}),
         field("public_key", IF c.public_key THEN {"pbk"} ELSE {}),
         field("short_id", IF c.short_id THEN {"sid"} ELSE {}),
         field("raw_url", link(c.raw)),
         field("extra", Quoted(c)),
         field("users.id", ImportedIds(c)),
         field("reproduction_guide", Secrets(c)),
         field("setup_guide", Secrets(c)),
         field("suggested_share_link", link(q.optimization.suggested)),
         field("run_id", {"run"})}

\* What a dump gives away.
Upload(dump) == [whole |-> UNION {e.says : e \in dump}, ends |-> UNION {e.ends : e \in dump}]

SyncUpload ==
  /\ Goes("upload", "done")
  /\ LET dump == IF settings.redact THEN DeepRedact(Dump(r), Short, Brief) ELSE Dump(r)
     IN  uploaded' = IF settings.sync THEN Upload(dump) ELSE NothingUploaded
  /\ UNCHANGED <<settings, r, report>>

\* The window builds the Result tab from the finished analysis.
ShowSummary ==
  /\ Goes("done", "shown")
  /\ report' = Summary(r)
  /\ UNCHANGED <<settings, r, uploaded>>

Ended == stage \in {"shown", "failed"} /\ UNCHANGED vars

Next ==
  \/ Parse \/ ParseFails \/ Validate \/ ResolveTargets \/ ResolveRaises \/ ProbeTargets \/ GatherIntel
  \/ Conclude \/ LiveTest \/ Assess \/ BuildReports \/ Align
  \/ RunHooks \/ HookReturnsNothing \/ SyncUpload \/ ShowSummary \/ Ended

Stages == {"parse", "validate", "dns", "probe", "intel", "conclude", "live_test", "assess",
           "report", "align", "plugins", "upload", "done", "shown", "failed"}

\* Every wait of a stage has a timeout: the analysis does not stay where it is.
\* Each step but the last changes the stage, and TLC finds one in every state,
\* so this is weak fairness of Next, at a lower price.
Advances == stage \notin {"shown", "failed"} /\ stage' \in Stages \ {stage}

Fairness == WF_stage(Advances)

Spec == Init /\ [][Next]_vars /\ Fairness

----------------------------------------------------------------------------
(* Properties. *)

Finished == stage \in {"plugins", "upload", "done", "shown"}
Shown == stage = "shown"
Parsed == stage \notin {"parse", "failed"}

\* Scores are percentages, grades and levels come from their lists.
TypeOK ==
  /\ stage \in Stages
  /\ settings \in Settings
  /\ Finished =>
        /\ UNION {r.dpi.score, r.camouflage.score, r.origin.score} \subseteq 0..100
        /\ {r.optimization.iran, r.optimization.sell, r.security.score} \subseteq 0..100
        /\ r.optimization.grade \in Grades
        /\ \A i \in r.insights : i.level \in ToSet(Levels)
        /\ \A m \in r.tun.detected : m.conf \in 0..100 /\ m.cal \in 0..ConfidenceCap
  /\ Shown => \A s \in report.ranked : s.conf \in 0..100
  /\ uploaded.whole \cup uploaded.ends
       \subseteq UNION {Secrets(r.cfg), Quoted(r.cfg), ImportedIds(r.cfg), {"link", "run"}}

\* The link built from a config says what the config says (build_vless_link
\* against parse_vless): whoever imports it gets the same outbound, but for an id
\* that needs quoting, which comes back quoted, and a host, which comes back in
\* lower case.  The link of an IPv6 address cannot be read at all, nor that of a
\* port out of range.  A link has no way to say port 0, a transport it has no
\* name for or a handshake without a server name, and its keys count for REALITY
\* only.
LinkReadsBack ==
  Parsed /\ BuildVlessLink(r.cfg) # NoLink =>
    LET link == BuildVlessLink(r.cfg)
        back == ParseVless(link)
    IN  IF r.cfg.address \in Ipv6 \/ r.cfg.port < 0 THEN LinkRaises(link)
        ELSE /\ ~LinkRaises(link)
             /\ back.secret = Quote(r.cfg.secret) /\ back.address = Hostname(r.cfg.address)
             /\ \A f \in {"flow", "tls", "reality", "alpn", "path", "fingerprint", "allow_insecure", "remark"} :
                   back[f] = r.cfg[f]
             /\ back.port = (IF r.cfg.port = 0 THEN 443 ELSE r.cfg.port)
             /\ r.cfg.reality => back.public_key = r.cfg.public_key /\ back.short_id = r.cfg.short_id
             /\ r.cfg.tls /\ r.cfg.sni # "" => back.sni = r.cfg.sni
             /\ r.cfg.transport \in DOMAIN LinkNetworks => back.transport = r.cfg.transport
             /\ r.cfg.transport \in {"WebSocket", "HTTPUpgrade", "XHTTP"} => back.host = r.cfg.host
             /\ r.cfg.transport = "gRPC" => back.service = r.cfg.service

\* An outbound written by the program and imported again (_build_outbound
\* against parse_json_config).  One of VLESS or VMess keeps the server, the id,
\* the security and what its transport needs, except for HTTPUpgrade, which is
\* written without its path and host, and XHTTP, which the import does not know.
\* The flow, ALPN, the fingerprint, allowInsecure and the remark are always
\* lost.  The outbound of another protocol comes back without its server.
OutboundReadsBack ==
  Parsed /\ BuildOutbound(r.cfg) # NoOutbound =>
    LET c == r.cfg
        back == ParseOutbound(BuildOutbound(c))
    IN  /\ back.protocol = c.protocol
        /\ \A f \in {"flow", "alpn", "fingerprint", "allow_insecure", "remark"} : back[f] = NoConfig[f]
        /\ IF c.protocol \notin {"VLESS", "VMESS"}
           THEN back.address = "" /\ back.secret = "" /\ back.port = 443
           ELSE /\ \A f \in {"address", "port", "secret", "reality"} : back[f] = c[f]
                /\ back.tls = (c.tls \/ c.reality)
                /\ c.reality => back.public_key = c.public_key /\ back.short_id = c.short_id
                /\ back.tls => back.sni = ServerName(c)
                /\ c.transport \in {"TCP", "WebSocket", "gRPC", "HTTPUpgrade", "QUIC"} => back.transport = c.transport
                /\ c.transport = "XHTTP" => back.transport = "Unknown"
                /\ back.host = (IF c.transport = "WebSocket" THEN HostName(c) ELSE "")
                /\ back.path = (IF c.transport = "WebSocket" THEN PathOrRoot(c) ELSE "")
                /\ back.service = (IF c.transport = "gRPC" THEN c.service ELSE "")

\* The config shown and exported proxies through the outbound that was tested
\* for the protocols both builders know (config_generator.py and tester.py).
\* For Hysteria2 and TUIC, which the live test runs, the shown config is another
\* one: everything goes out unproxied.
ShownConfigIsTested ==
  Parsed /\ BuildOutbound(r.cfg) # NoOutbound =>
    LET shown == GenerateXrayClientConfig(r.cfg).outbounds
        tested == BuildTempConfig(BuildOutbound(r.cfg), "").outbounds
    IN  IF r.cfg.protocol \in {"Hysteria2", "TUIC"}
        THEN shown # tested /\ \A i \in DOMAIN shown : shown[i].protocol = "freedom"
        ELSE shown = tested

\* With redaction on, no secret of the config leaves the program whole in any
\* part of the upload, nor does a link; the first and the last four characters
\* do, unless it has no more than eight.  A secret of less than four is masked
\* only in its own field.
NoSecretUploaded ==
  settings.redact => /\ uploaded.whole \cap ((Secrets(r.cfg) \ Short) \cup {"link"}) = {}
                     /\ uploaded.ends \cap Brief = {}

\* A finished analysis that names a CDN saw that CDN on the wire: addresses,
\* name servers and autonomous systems alone do not survive the alignment.
CdnClaimIsObserved ==
  Finished /\ r.dep.cdn_type # "" => r.conn.http_cdn # ""

\* The tunnel type, the scenarios of the Result tab and the CDN that it names
\* are computed apart and must not contradict each other.
TopologyAgrees ==
  Shown =>
    /\ r.arch.tier = "unconfirmed" =>
          /\ r.tun.primary_type \notin CdnTunnelIds
          /\ \A s \in report.primaries : s.id \notin CdnTunnelIds
    /\ report.cdn # "" =>
          /\ r.tun.primary_type \notin DirectTopologyIds
          /\ \A s \in report.primaries : s.id \notin DirectTopologyIds

\* Without verified traffic nothing is proven and no tunnel is rated above the
\* cap, whatever was raised, demoted or aligned on the way.
UnverifiedIsCapped ==
  Finished /\ ~LiveProxyOk(r) =>
    /\ \A i \in r.insights : i.level # "Proven"
    /\ \A m \in r.tun.detected : m.cal <= NoLiveCap

\* Five parts of the report say whether the config works, some from one field
\* and some from all the criteria: they say the same, and nothing is called
\* ready to sell that did not carry traffic.
VerdictsAgree ==
  Shown =>
    /\ r.optimization.verdict = "Ready to sell" => LiveProxyOk(r)
    /\ \A says \in {"E2E OK" \in report.verdict, r.arch.evidence["Xray E2E"] = "confirmed",
                 r.implementation.e2e = "verified", "proxy valid" \in r.guide.checklist,
                 [item |-> "live", done |-> TRUE] \in r.optimization.checklist} :
         says = LiveProxyOk(r)

\* At most one CDN is a strong guess, however many left traces.
OneStrongCdn ==
  Finished =>
    Cardinality({g \in r.dep.guesses : g.name \in CdnGuessNames /\ g.level \in {"Proven", "Strong"}}) <= 1

\* Every pasted text ends in a report or in an error.
Terminates == <>(stage \in {"shown", "failed"})

\* A run whose direct samples named a public address has a baseline.  Violated:
\* adding the address to the set, which is a list, raises.
BaselineIsHeard ==
  Finished /\ r.xray.heard \cap Ips # {} => r.xray.baseline # "missing"

=============================================================================
