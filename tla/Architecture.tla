---------------------------- MODULE Architecture ----------------------------
(***************************************************************************)
(* Calibration of the conclusions (src/backend/confidence_engine.py), the  *)
(* evidence-based architecture summary (architecture_diagnostics.py), the  *)
(* pass that aligns the earlier conclusions with it                        *)
(* (architecture_consistency.py) and the reconstruction guide              *)
(* (implementation_analysis.py).  A calibrated confidence is in            *)
(* ten-thousandths, so the code's products are exact; the rounding to      *)
(* three digits before some of them are stored is left out.                *)
(***************************************************************************)
EXTENDS Deployment, ClientConfig

CdnTunnelIds == {"cdn_fronting", "cloudflare_cdn", "arvan_cdn", "akamai_cdn",
                 "fastly_cdn", "cloudfront_cdn", "bunny_cdn", "gcore_cdn"}
DirectTopologyIds == {"direct_xray_inbound", "direct_vps"}
CdnGuessNames == {"CDN Fronted", "Cloudflare CDN", "Arvan CDN", "Akamai CDN",
                  "Fastly CDN", "AWS CloudFront", "BunnyCDN", "Gcore CDN"}

----------------------------------------------------------------------------
(* How sure the analysis may be that a CDN edge is on the path. *)

EdgeHeaders == {"cf-ray", "x-arvan", "x-sid", "x-cache"}

WireHeaders(conn) == IF conn.baseline_headers # {} THEN conn.baseline_headers ELSE conn.headers

CdnFrontingTier(r) ==
    FirstOf(<< <<r.conn.http_cdn # "" /\ WireHeaders(r.conn) \cap EdgeHeaders # {}, "confirmed">>,
               <<r.conn.http_cdn # "", "probable">> >>, "unconfirmed")

CdnDetected(r) ==
    \/ CdnFrontingTier(r) = "confirmed"
    \/ r.conn.http_cdn # "" /\ "cf-ray" \in r.conn.headers

----------------------------------------------------------------------------
(* Calibration of one raw confidence. *)

ConfidenceCap == 9200
NoLiveCap == 7200

Calibrated(value, level) == [value |-> value, level |-> level]

CalibrateEvidence(raw, live, count, direct, heuristic) ==
    FirstOf(<<
        <<heuristic, Calibrated(Min({5400, raw * 85}), "Speculative")>>,
        <<live /\ direct /\ count >= 2 /\ raw >= 68,
          Calibrated(Min({ConfidenceCap, raw * 100 + 1000}), "Proven")>>,
        <<live /\ count >= 2 /\ raw >= 58,
          Calibrated(Min({ConfidenceCap, raw * 100 + 600}), "Strong")>>,
        <<direct /\ raw >= 78,
          Calibrated(Min({IF live THEN ConfidenceCap ELSE NoLiveCap, raw * 100}), "Strong")>>,
        <<raw >= 72 /\ count >= 1,
          Calibrated(Min({IF live THEN ConfidenceCap - 500 ELSE NoLiveCap, raw * 100}), "Strong")>>,
        <<raw >= 45 /\ count >= 1,
          Calibrated(Min({IF live THEN NoLiveCap ELSE 6480, raw * 100}), "Weak")>> >>,
        Calibrated(Min({5760, raw * 88}), "Speculative"))

\* The evidence strings that name something seen on the wire.
DirectObservation(evidence) ==
    \/ "CNAME" \in evidence
    \/ "internet_e2e_verified" \in evidence /\ "panel" \in evidence

RatedTunnel(m, cal) ==
    [id |-> m.id, conf |-> m.conf, evidence |-> m.evidence, place |-> m.place,
     cal |-> cal.value, level |-> cal.level]

\* Mutant: the live test is taken for granted.
CalibratedAsLive(m, live) ==
    LET cal == CalibrateEvidence(m.conf, TRUE, Cardinality(m.evidence), FALSE, FALSE)
    IN  RatedTunnel(m, cal)

CalibratedTunnel(m, live) ==
    LET count == Cardinality(m.evidence)
        cal == CalibrateEvidence(m.conf, live, count, DirectObservation(m.evidence),
                                 m.conf < 40 /\ count < 2)
    IN  RatedTunnel(m, cal)

\* A strong CDN contradicts a direct inbound; a CDN nobody saw is demoted.
ResolveTunnel(m, r, cdnStrong) ==
    LET onCdn == m.id \in CdnTunnelIds
        contradicted == cdnStrong /\ m.id \in DirectTopologyIds
        unseen == onCdn /\ ~CdnDetected(r) /\ m.conf < 75
        proxied == m.id = "direct_xray_inbound" /\ r.conn.http_reverse_proxy # ""
    IN  [m EXCEPT
            !.cal = Min({@} \cup (IF contradicted THEN {5500} ELSE {})
                            \cup (IF unseen THEN {6200} ELSE {})
                            \cup (IF proxied THEN {5000} ELSE {})),
            !.level = FirstOf(<< <<proxied, "Weak">>, <<contradicted, Demote(@, 2)>>,
                                 <<unseen, Demote(@, 1)>> >>, @)]

TunnelConflictRules(matches, r) ==
    LET onCdn(S) == {m \in S : m.id \in CdnTunnelIds}
        cdnStrong == CdnDetected(r) /\ \E m \in onCdn(matches) : m.conf >= 65
        updated == {ResolveTunnel(m, r, cdnStrong) : m \in matches}
        best == Max({0} \cup {m.cal : m \in onCdn(updated)})
    IN  {IF m \in onCdn(updated) /\ m.cal < best
         THEN [m EXCEPT !.cal = Min({@, best - 1500}), !.level = Demote(@, 1)] ELSE m : m \in updated}

CalibratedGuess(name, conf, r) ==
    LET live == LiveProxyOk(r)
        cal == IF conf < 35 THEN CalibrateEvidence(conf, live, 0, FALSE, TRUE)
               ELSE CalibrateEvidence(conf, live, IF conf >= 60 THEN 1 ELSE 0,
                        conf >= 75 /\ CdnDetected(r) /\ name \in CdnGuessNames, conf < 45)
    IN  [name |-> name, conf |-> conf, cal |-> cal.value, level |-> cal.level]

ResolveGuess(g, r, cdnStrong) ==
    LET direct == cdnStrong /\ g.name = "Direct VPS"
        hidden == cdnStrong /\ g.name = "Reverse Proxy" /\ r.conn.http_reverse_proxy = ""
        unseen == g.name \in CdnGuessNames /\ ~CdnDetected(r) /\ g.conf < 55
    IN  [g EXCEPT
            !.cal = Min({@} \cup (IF direct THEN {5200} ELSE {}) \cup (IF hidden THEN {4800} ELSE {})),
            !.level = FirstOf(<< <<direct, Demote(@, 2)>>, <<hidden, "Weak">>,
                                 <<unseen, Demote(@, 1)>> >>, @)]

\* Mutant: every guess is resolved by itself.
ResolvedGuesses(guesses, r) ==
    LET cdnStrong == CdnDetected(r) /\ \E g \in guesses : g.name \in CdnGuessNames /\ g.conf >= 70
    IN  {ResolveGuess(g, r, cdnStrong) : g \in guesses}

\* Only one CDN guess may stay strong.
DeploymentConflictRules(guesses, r) ==
    LET likely(S) == {g \in S : g.name \in CdnGuessNames /\ g.conf >= 55}
        cdnStrong == CdnDetected(r) /\ \E g \in guesses : g.name \in CdnGuessNames /\ g.conf >= 70
        updated == {ResolveGuess(g, r, cdnStrong) : g \in guesses}
        winners == {g \in likely(updated) : \A o \in likely(updated) : o.cal <= g.cal}
        winner == CHOOSE g \in winners : \A o \in winners :
                      o.conf < g.conf \/ (o.conf = g.conf /\ GuessPos(g.name) <= GuessPos(o.name))
    IN  IF Cardinality(likely(updated)) < 2 THEN updated
        ELSE {IF g \in likely(updated) \ {winner}
              THEN [g EXCEPT !.cal = Min({@, 5800}), !.level = "Weak"] ELSE g : g \in updated}

Insight(category, title, level) == [category |-> category, title |-> title, level |-> level]

\* Matches without evidence are dropped, whatever the primary type was.
CalibrationOf(r, dpi, camouflage, origin) ==
    LET live == LiveProxyOk(r)
        tunnels == TunnelConflictRules(
            {CalibratedTunnel(m, live) : m \in {t \in r.tun.detected : t.evidence # {}}}, r)
        guesses == DeploymentConflictRules(
            {CalibratedGuess(n, r.dep.guesses[n], r) : n \in DOMAIN r.dep.guesses}, r)
        tops == {m \in tunnels : \A o \in tunnels : o.cal <= m.cal}
        scored == IF live THEN "Strong" ELSE "Weak"
    IN  [tunnels |-> tunnels, guesses |-> guesses,
         primary_cal |-> IF tops = {} THEN r.tun.primary_conf ELSE Max({m.cal : m \in tops}),
         insights |->
            {Insight("Tunnel", m.id, m.level) : m \in tunnels} \cup
            {Insight("Deployment", g.name, g.level) : g \in {h \in guesses : h.conf >= 35}} \cup
            Selected(<<
                <<dpi.score # NoScore, Insight("DPI", "dpi", scored)>>,
                <<camouflage.score # NoScore, Insight("Camouflage", "camouflage", scored)>>,
                <<origin.score # NoScore,
                  Insight("Origin", "origin", IF origin.factors # {} THEN "Strong" ELSE "Speculative")>> >>)]

----------------------------------------------------------------------------
(* Architecture diagnostics. *)

EvidenceStatus(status) ==
    FirstOf(<< <<status = "Valid", "confirmed">>,
               <<status \in {"Warning", "Inconclusive"}, "probable">>,
               <<status \in {"Invalid", "Failed"}, "failed">>,
               <<status = "Not applicable", "n/a">> >>, "unknown")

XrayEvidence(r) ==
    FirstOf(<< <<LiveProxyOk(r), "confirmed">>, <<r.xray.status = "Skipped", "unknown">> >>, "failed")

WebSocketEvidence(conn) ==
    FirstOf(<< <<conn.ws_validated, "confirmed">>, <<conn.websocket_upgrade = "Warning", "probable">> >>,
            EvidenceStatus(conn.websocket_upgrade))

ConnectIp(r) == IF r.net = {} THEN "" ELSE (CHOOSE n \in r.net : n.pos = 1).ip

TargetIp(r) == IF r.dns.first # "" THEN r.dns.first ELSE ConnectIp(r)

TlsActive(c) == c.tls \/ c.security \in {"tls", "reality"}

\* The verdict on the architecture: its title, and what speaks for, against and is unknown.
AssessArchitecture(r) ==
    LET c == r.cfg
        conn == r.conn
        tier == CdnFrontingTier(r)
        ws == c.transport = "WebSocket"
        exit == ExitIp(r)
        compared == exit # "" /\ TargetIp(r) # ""
    IN  [title |-> FirstOf(<< <<tier = "confirmed", "CDN-fronted - probable">>,
                              <<tier = "probable", "Direct or CDN-fronted - inconclusive">> >>,
                           "Direct Xray - probable"),
         positive |-> Selected(<<
             <<conn.tcp_connect = "Valid", "tcp">>,
             <<ws /\ conn.ws_validated, "ws_validated">>,
             <<ws /\ ~conn.ws_validated /\ conn.websocket_upgrade = "Valid", "ws_probe">>,
             <<LiveProxyOk(r), "e2e">>,
             <<conn.http_reverse_proxy # "", "reverse_proxy">>,
             <<compared /\ exit = TargetIp(r), "exit_is_target">>,
             <<compared /\ exit # TargetIp(r), "exit_differs">> >>),
         negative |-> Selected(<<
             <<ws /\ ~conn.ws_validated /\ conn.websocket_upgrade = "Invalid", "ws_failed">>,
             <<~LiveProxyOk(r) /\ r.xray.status # "Skipped", "e2e">> >>),
         unknown |-> {"origin", "server_layout"} \cup Selected(<<
             <<tier = "probable", "cdn_edge">>,
             <<tier = "unconfirmed" /\ r.dns.provider # "", "dns_provider">>,
             <<conn.http_reverse_proxy = "", "hidden_proxy">>,
             <<compared /\ exit # TargetIp(r), "hops">> >>)]

ArchitectureDiagnostics(r) ==
    LET c == r.cfg
        conn == r.conn
        assessment == AssessArchitecture(r)
        probes == {"DNS resolve", "TCP", "HTTP baseline", "Xray E2E"} \cup Selected(<<
            <<c.transport = "WebSocket", "WebSocket handshake">>, <<TlsActive(c), "TLS probe">> >>)
    IN  [evidence |-> [probe \in probes |->
            CASE probe = "DNS resolve" -> EvidenceStatus(conn.dns_resolve)
              [] probe = "TCP" -> EvidenceStatus(conn.tcp_connect)
              [] probe = "HTTP baseline" -> EvidenceStatus(conn.http_baseline)
              [] probe = "Xray E2E" -> XrayEvidence(r)
              [] probe = "WebSocket handshake" -> WebSocketEvidence(conn)
              [] probe = "TLS probe" -> EvidenceStatus(conn.tls_handshake)],
         infrastructure |->
            [dns_provider |-> IF r.dns.provider # "" THEN "probable" ELSE "unknown",
             target_ip |-> IF r.dns.a # {} THEN "confirmed" ELSE "unknown",
             asn |-> IF \E n \in r.net : n.pos = 1 /\ n.asn # "" THEN "probable" ELSE "unknown",
             cdn_fronting |-> CdnFrontingTier(r),
             exit_ip |-> IF r.xray.exit_ip # "" THEN "confirmed" ELSE "unknown"],
         assessment |-> assessment,
         client |-> {"connect", "host"} \cup Selected(<<
             <<TlsActive(c), "sni">>,
             <<~TlsActive(c) /\ (c.sni # "" \/ c.host # ""), "no_tls">>,
             <<IsIp(c.address) /\ c.sni # "" /\ TlsActive(c), "ip_with_sni">> >>),
         effective |-> EffectiveClientParams(c),
         tier |-> CdnFrontingTier(r),
         direct_vps_compatible |-> CdnFrontingTier(r) # "confirmed"]

----------------------------------------------------------------------------
(* Alignment of the earlier conclusions with the diagnostics. *)

CapTunnelConfidence(id, conf, tier) ==
    FirstOf(<< <<id \in CdnTunnelIds /\ tier = "unconfirmed", Min({conf, 42})>>,
               <<id \in CdnTunnelIds /\ tier = "probable", Min({conf, 62})>>,
               <<id = "direct_vps" /\ tier # "confirmed", Max({conf, 48})>> >>, conf)

CatalogStatus(id, conf, tier) ==
    FirstOf(<< <<conf >= 30, "COMPATIBLE weighted">>,
               <<id = "direct_vps" /\ tier = "confirmed", "UNLIKELY">>,
               <<id = "direct_vps", "COMPATIBLE">>,
               <<id \in CdnTunnelIds /\ tier = "unconfirmed", "UNCONFIRMED">>,
               <<id \in CdnTunnelIds /\ tier = "probable", "POSSIBLE">> >>, "UNKNOWN")

AlignedGuess(g, tier) ==
    [g EXCEPT !.conf = FirstOf(<<
        <<g.name \in CdnGuessNames /\ tier = "unconfirmed", Min({@, 40})>>,
        <<g.name \in CdnGuessNames /\ tier = "probable", Min({@, 58})>>,
        <<g.name = "Direct VPS" /\ tier = "unconfirmed", Max({@, 52})>> >>, @)]

\* Mutant: the CDN of the deployment stays.
AlignGuessesOnly(dep, tier) ==
    [dep EXCEPT !.guesses = {AlignedGuess(g, tier) : g \in @}]

AlignDeployment(dep, tier) ==
    [dep EXCEPT
        !.guesses = {AlignedGuess(g, tier) : g \in @},
        !.cdn_type = IF tier = "unconfirmed" THEN "" ELSE @,
        !.uncertain = (IF tier = "unconfirmed" THEN @ \ {"CDN edge IPs"} ELSE @)
                      \cup (IF "Real server IP" \in @ THEN {} ELSE {"Origin IP"})]

\* Mutant: the matches stay as the calibration left them.
KeepTunnels(tun, diag) == tun

\* Ties for the top keep the order the list came in: the first one wins.
AlignTunnels(tun, diag) ==
    LET tier == diag.tier
        matches == {[m EXCEPT !.conf = CapTunnelConfidence(m.id, @, tier),
                              !.evidence = IF m.id \in CdnTunnelIds /\ tier = "unconfirmed"
                                           THEN @ \cup {"cdn_unconfirmed"} ELSE @] : m \in tun.detected}
        tops == {m \in matches : \A o \in matches : o.conf <= m.conf}
        before(m) == CHOOSE o \in tun.detected : o.id = m.id
        top == CHOOSE m \in tops : \A o \in tops :
                   \/ before(m).conf > before(o).conf
                   \/ before(m).conf = before(o).conf /\ m.place <= o.place
        direct == {m \in matches : m.id = "direct_vps"}
        withdrawn == tier = "unconfirmed" /\ top.id \in CdnTunnelIds
    IN  [tun EXCEPT
            !.detected = matches,
            !.primary_type = IF matches = {} THEN diag.assessment.title
                             ELSE IF ~withdrawn THEN top.id
                             ELSE IF direct # {} THEN "direct_vps" ELSE diag.assessment.title,
            !.primary_conf = IF matches = {} THEN @
                             ELSE IF ~withdrawn THEN top.conf * 100
                             ELSE IF direct # {} THEN Max({m.conf * 100 : m \in direct}) ELSE @]

AlignSetupGuide(guide, diag) ==
    [guide EXCEPT
        !.scenario = diag.assessment.title,
        !.facts = (@ \ {"Detected CDN"}) \cup
            {IF diag.tier = "confirmed" THEN "CDN fronting confirmed" ELSE "CDN not proven", "Origin IP unknown"}]

----------------------------------------------------------------------------
(* The reconstruction guide. *)

ScenarioFrom(m, r) ==
    [id |-> m.id,
     supporting |-> m.evidence \cup (IF LiveProxyOk(r) THEN {"e2e"} ELSE {})
                    \cup (IF m.id = r.tun.primary_id THEN {"primary"} ELSE {}),
     contradicting |-> Selected(<<
         <<m.id \in CdnTunnelIds /\ \A ip \in r.net : ip.cdn = "", "no_cdn_ip">>,
         <<m.id \in CdnTunnelIds, "asn_is_no_proof">>,
         <<~LiveProxyOk(r), "no_e2e">>,
         <<r.conn.http_reverse_proxy # "", "reverse_proxy">> >>)]

\* Three egress sentences that must not claim more than was observed.
ImplementationAnalysis(r) ==
    [e2e |-> FirstOf(<< <<LiveProxyOk(r), "verified">>, <<r.xray.proxy_test = "Not tested", "syntax_only">> >>,
                     VerifiedStage(r.xray)),
     cdn_evidence |-> Selected(<<
         <<\E n \in r.net : n.pos = 1 /\ n.cdn # "", "geo_hint">>, <<r.conn.http_cdn # "", "http_hint">> >>),
     baseline |-> IF r.xray.baseline = "none" THEN "not_collected" ELSE r.xray.baseline,
     entry_vs_exit |-> IF ConnectIp(r) # "" /\ ExitIp(r) # "" THEN "compared" ELSE "incomplete",
     effective |-> EffectiveClientParams(r.cfg),
     scenarios |-> {ScenarioFrom(m, r) : m \in r.tun.detected}]

=============================================================================
