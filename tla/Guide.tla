-------------------------------- MODULE Guide --------------------------------
(***************************************************************************)
(* The setup guide (src/backend/deployment_guide.py) and its How to Run    *)
(* part (src/backend/how_to_run*.py).  A line of text is a tag for what it *)
(* says; a section is [title, steps].  The guide is written from the       *)
(* calibrated conclusions, before they are aligned with the architecture   *)
(* diagnostics, and the alignment rewrites only its head.                  *)
(***************************************************************************)
EXTENDS Architecture

Section(title, steps) == [title |-> title, steps |-> steps]

GuessConf(r, name) == Max({0} \cup {g.conf : g \in {h \in r.dep.guesses : h.name = name}})

\* The guess list keeps the order of the raw confidences.
TopGuess(r) ==
    CHOOSE g \in r.dep.guesses : \A o \in r.dep.guesses :
        o.conf < g.conf \/ (o.conf = g.conf /\ GuessPos(g.name) <= GuessPos(o.name))

----------------------------------------------------------------------------
(* Facts, authentication, transport and security steps. *)

InfrastructureFacts(r) ==
    {"protocol", "address", TopGuess(r).name} \cup Selected(<<
        <<r.cfg.remark # {}, "remark">>,
        <<r.dns.a # {}, "A">>,
        <<r.dns.cname # {}, "CNAME">>,
        <<r.dep.cdn_type # "", "Detected CDN">>,
        <<r.dep.cdn_type # "" /\ r.dep.cdn_ips # {}, "CDN IPs">>,
        <<r.dep.real_server_ip # "", "real_server_ip">>,
        <<r.net # {}, "IP infrastructure">>,
        <<r.conn.tcp_connect # "Pending", "TCP">>,
        <<r.tls.enabled, "TLS">>,
        <<r.trace > 0, "hop count">>,
        <<r.xray.proxy_test \notin {"Pending", "Skipped"}, "proxy test">>,
        <<r.xray.proxy_test \notin {"Pending", "Skipped"} /\ r.xray.exit_ip # "", "exit IP">> >>)

AuthSteps(c) ==
    LET secret(yes, no) == IF c.secret # "" THEN {yes} ELSE no
    IN  FirstOf(<<
            <<c.protocol \in {"VLESS", "VMESS"},
              secret("uuid", {"uuid missing"}) \cup (IF c.flow # "" THEN {"flow"} ELSE {})>>,
            <<c.protocol = "Trojan", secret("password", {"password missing"})>>,
            <<c.protocol = "Shadowsocks", secret("password", {})>>,
            <<c.protocol = "Hysteria2", secret("password", {}) \cup (IF c.sni # "" THEN {"sni"} ELSE {})>>,
            <<c.protocol = "TUIC",
              secret("uuid", {}) \cup (IF c.password # "" THEN {"password"} ELSE {})>> >>, {})

\* What the REALITY or TLS stack makes of an XHTTP link without a mode.
XhttpMode(c) ==
    FirstOf(<< <<c.reality, "stream-one">>, <<c.tls /\ "h2" \in c.alpn, "stream-up">> >>, "auto")

TransportSteps(c) ==
    LET t == EffectiveTransport(c)
        path == IF c.path # "" THEN {"path"} ELSE {}
        host == IF c.host # "" \/ c.sni # "" THEN {"host"} ELSE {}
    IN  FirstOf(<<
            <<t = "Unknown", {"transport unknown"}>>,
            <<t = "XHTTP", {t, XhttpMode(c)} \cup path \cup host>>,
            <<t \in {"WebSocket", "HTTPUpgrade"}, {t} \cup path \cup host>>,
            <<t = "gRPC", {t, "serviceName"}>>,
            <<t = "QUIC", {t} \cup (IF c.sni # "" THEN {"sni"} ELSE {})>> >>, {t})

SecuritySteps(c, tls) ==
    IF c.reality
    THEN {"REALITY", IF c.public_key THEN "pbk" ELSE "pbk missing"} \cup Selected(<<
             <<c.sni # "", "dest">>, <<c.short_id, "sid">>, <<c.fingerprint # "", "fp">> >>)
    ELSE IF c.tls
    THEN {"TLS", "allowInsecure"} \cup Selected(<<
             <<c.sni # "" \/ c.host # "", "sni">>, <<c.alpn # {}, "alpn">>, <<c.fingerprint # "", "fp">>,
             <<tls.enabled /\ tls.subject # "", "certificate">>, <<tls.enabled /\ tls.sha256, "sha256">> >>)
    ELSE {"none"}

LinkSteps(r) == AuthSteps(r.cfg) \cup TransportSteps(r.cfg) \cup SecuritySteps(r.cfg, r.tls)

----------------------------------------------------------------------------
(* Panels. *)

XrayProtocols == {"VLESS", "VMESS", "Trojan", "Shadowsocks"}
PanelProtocols == XrayProtocols \cup {"Hysteria2", "TUIC"}

RecommendPanels(p) ==
    FirstOf(<< <<p \in XrayProtocols, {"3x-ui", "Marzban"}>>, <<p = "Hysteria2", {"3x-ui Hysteria2"}>>,
               <<p = "TUIC", {"Marzban TUIC"}>>, <<p = "WireGuard", {"wg-easy"}>>,
               <<p = "OpenVPN", {"OpenVPN AS"}>> >>, {"manual"})

Panel3xui(r) == {"port", "restart"} \cup LinkSteps(r)
PanelMarzban(r) == {"port", "subscription"} \cup LinkSteps(r)

ManualXray(r) ==
    FirstOf(<< <<r.cfg.protocol \in {"WireGuard", "OpenVPN"}, {"not Xray"}>>,
               <<r.cfg.protocol \in {"Hysteria2", "TUIC"}, {"sing-box", "port"} \cup LinkSteps(r)>> >>,
            {"install", "port", "systemctl"} \cup LinkSteps(r))

----------------------------------------------------------------------------
(* The scenario sections, each under its own condition. *)

\* dns.hostname is the link's address, a literal one too, so it comes first.
HasGuideHost(c) == c.address # "" \/ c.sni # "" \/ c.host # ""

CdnScenario(r, guess, label, title) ==
    IF (r.dep.cdn_type # label /\ GuessConf(r, guess) < 55) \/ ~HasGuideHost(r.cfg) THEN {}
    ELSE {Section(title, {"CDN " \o label} \cup Selected(<<
            <<r.dns.a # {}, "A">>,
            <<label = "Cloudflare" /\ IsIp(r.cfg.address), "link and DNS in range">>,
            <<label = "Cloudflare" /\ r.dep.cdn_ips # {}, "CDN IPs">>,
            <<label = "Cloudflare", "origin not in link">> >>))}

ScenarioOrigin(r) ==
    LET behind == r.dep.cdn_type # ""
        origin == r.dep.real_server_ip # "" \/ IsIp(r.cfg.address)
    IN  IF r.net = {} /\ ~origin THEN {}
        ELSE {Section(IF behind THEN "Origin Server (Behind CDN)" ELSE "Origin Server (VPS)",
                {"firewall"} \cup Selected(<<
                    <<behind, "link IP is CDN edge">>,
                    <<~behind /\ GuessConf(r, "Direct VPS") >= 45, "direct">>,
                    <<origin, "link IP">>,
                    <<\E n \in r.net : n.pos = 1 /\ n.is_datacenter, "datacenter">>,
                    <<\E n \in r.net : n.pos = 1 /\ n.cdn # "", "CDN on IP">>,
                    <<r.cfg.protocol \in {"Hysteria2", "TUIC"} \/ EffectiveTransport(r.cfg) = "QUIC", "UDP">> >>))}

Proxied == {"WebSocket", "XHTTP", "gRPC", "HTTPUpgrade"}

ScenarioReverseProxy(r) ==
    LET c == r.cfg
        conf == GuessConf(r, "Reverse Proxy")
        served == r.conn.http_response = "Valid"
    IN  IF \/ EffectiveTransport(c) \notin Proxied
           \/ conf < 45 /\ ~served
           \/ ~HasGuideHost(c) THEN {}
        ELSE {Section("Reverse Proxy (Nginx/Caddy)", Selected(<<
                <<EffectiveTransport(c) = "WebSocket" /\ c.path # "", "location">>,
                <<EffectiveTransport(c) = "XHTTP" /\ c.path # "", "path and host">>,
                <<EffectiveTransport(c) = "gRPC", "grpc_pass">>,
                <<served, "HTTP valid">>, <<r.conn.http_response = "Invalid", "Xray-only path">> >>))}

ScenarioTunnels(r) ==
    Selected(<<
        <<GuessConf(r, "Cloudflare Tunnel") >= 50 \/ "cfargotunnel" \in r.dns.cname,
          Section("Cloudflare Tunnel (cloudflared)", {"cloudflared"})>>,
        <<GuessConf(r, "Reverse Tunnel") >= 35, Section("Reverse Tunnel (frp/nps)", {"frpc"})>>,
        <<r.cfg.reality, Section("REALITY", SecuritySteps(r.cfg, r.tls))>>,
        <<r.cfg.protocol = "WireGuard", Section("WireGuard", {"endpoint"})>>,
        <<r.cfg.protocol = "OpenVPN", Section("OpenVPN", {"server"})>> >>)

TunnelTypesSection(tun) ==
    Section("Tunnel Type Detection",
            IF tun.detected = {} THEN {"unknown"} ELSE {m.id : m \in tun.detected})

DeploymentGuessesSection(dep) ==
    Section("Deploy Type Detection", {g.name : g \in dep.guesses} \cup dep.uncertain)

GuideChecklist(r) ==
    {"port"} \cup Selected(<<
        <<r.cfg.secret # "", "uuid">>, <<r.cfg.path # "", "path">>,
        <<r.cfg.sni # "" \/ r.cfg.host # "", "sni">>,
        <<r.dep.cdn_type # "", "CDN DNS + SSL">>,
        <<r.tls.enabled /\ \E d \in r.tls.days : d < 30, "renew">>,
        <<r.xray.proxy_test = "Valid", "proxy valid">>,
        <<r.xray.proxy_test \notin {"Valid", "Pending", "Skipped"}, "proxy not valid">> >>)

GuideTips(r) ==
    Selected(<< <<EffectiveTransport(r.cfg) = "WebSocket", "WebSocket deprecated">>,
                <<IsIp(r.cfg.address) /\ r.dep.cdn_type = "", "origin exposed">> >>)

----------------------------------------------------------------------------
(* How to Run: one scenario, built of shared blocks. *)

\* A literal address is the origin even when it belongs to a CDN edge.
RunOrigin(r) ==
    FirstOf(<< <<r.dep.real_server_ip # "", r.dep.real_server_ip>>,
               <<IsIp(r.cfg.address) /\ r.dep.cdn_type = "", r.cfg.address>> >>, "")

NeedsReverseProxy(r) ==
    /\ EffectiveTransport(r.cfg) \in Proxied
    /\ ~(r.conn.http_panel /\ r.conn.http_reverse_proxy = "")

\* The primary of the detection, whatever the calibration did to its rank.
PickPrimaryTunnelId(r) ==
    LET byGuess == ("Arvan CDN" :> "arvan_cdn") @@ ("Cloudflare CDN" :> "cloudflare_cdn")
                   @@ ("CDN Fronted" :> "cdn_fronting") @@ ("Reverse Proxy" :> "reverse_proxy")
        name == TopGuess(r).name
    IN  FirstOf(<< <<r.tun.primary_id # "", r.tun.primary_id>>,
                   <<name \in DOMAIN byGuess, IF name \in DOMAIN byGuess THEN byGuess[name] ELSE "">> >>,
                "direct_vps")

OriginLayer(r) == IF NeedsReverseProxy(r) THEN {"nginx"} ELSE {"direct inbound"}

InboundFields(c) ==
    {c.protocol, "uuid"} \cup Selected(<<
        <<c.flow # "", "flow">>,
        <<EffectiveTransport(c) \in {"XHTTP", "HTTPUpgrade"} /\ XhttpMode(c) # "auto", XhttpMode(c)>>,
        <<c.reality, "REALITY">>, <<c.tls /\ ~c.reality, "TLS">> >>)

\* Every scenario with an Xray inbound begins with these three blocks.
OriginBlocks == {"vps", "panel", "inbound"}

\* The edge's own console, or the console of a provider without a section.
CdnPanel(front) ==
    FirstOf(<< <<front = "arvan_cdn", {"arvan panel"}>>, <<front = "cloudflare_cdn", {"cloudflare panel"}>>,
               <<front = "cdn_fronting", {"domain", "edge settings"}>>,
               <<front \in {"akamai_cdn", "fastly_cdn", "gcore_cdn"}, {"provider panel", "edge settings"}>> >>,
            {"provider panel"})

\* steps_verify adds the edge's two boxes when it is told of a CDN.
Verify(cdn) == {"verify"} \cup (IF cdn THEN {"verify cdn"} ELSE {})

\* cdn_fronting is the section of the provider, when it has one.
FrontOf(r, id) ==
    IF id # "cdn_fronting" THEN id
    ELSE FirstOf(<< <<r.dep.cdn_type = "ArvanCloud", "arvan_cdn">>,
                    <<r.dep.cdn_type = "Cloudflare", "cloudflare_cdn">> >>, id)

CdnSection(r, front) ==
    OriginBlocks \cup OriginLayer(r) \cup CdnPanel(front) \cup {"client link"} \cup Verify(TRUE)

\* A split or fronted name leaves the client link to the reader.
FrontingSection(r) == OriginBlocks \cup OriginLayer(r) \cup Verify(TRUE)

DirectSection == OriginBlocks \cup {"client link"} \cup Verify(FALSE)

\* A daemon on the origin that dials out, or a web server before the inbound.
ServedSection(r, front) ==
    OriginBlocks \cup {"client link"} \cup
        FirstOf(<< <<front = "cloudflare_tunnel", {"cloudflared"} \cup Verify(TRUE)>>,
                   <<front = "reverse_proxy", {"nginx"} \cup Verify(FALSE)>> >>,
                Verify(r.dep.cdn_type # ""))

RelaySection(front) ==
    OriginBlocks \cup (IF front \in {"multi_hop", "ssh_tunnel"} THEN {} ELSE Verify(FALSE))

\* Protocols with a server of their own need no panel.
ProtocolSection(front) == {"vps"} \cup (IF front = "tuic_quic" THEN Verify(FALSE) ELSE {})

\* The section of each scenario; one without a section gets the direct one.
RunBlocks(r, id) ==
    LET front == FrontOf(r, id)
    IN  FirstOf(<<
            <<front \in CdnTunnelIds, CdnSection(r, front)>>,
            <<front \in {"sni_fronting", "host_sni_split", "xhttp_split"}, FrontingSection(r)>>,
            <<front \in {"cloudflare_tunnel", "reverse_proxy", "direct_xray_inbound"}, ServedSection(r, front)>>,
            <<front \in {"reverse_tunnel_frp", "multi_hop", "load_balancer", "ssh_tunnel", "gost_relay"},
              RelaySection(front)>>,
            <<front \in {"wireguard_tunnel", "openvpn_tunnel", "hysteria2_quic", "tuic_quic"},
              ProtocolSection(front)>> >>,
            DirectSection)

\* REALITY wins over whatever was detected.
HowToRun(r) ==
    LET id == IF r.cfg.reality THEN "reality_camouflage" ELSE PickPrimaryTunnelId(r)
        blocks == RunBlocks(r, id)
    IN  [id |-> id, blocks |-> blocks, origin |-> RunOrigin(r),
         inbound |-> IF "inbound" \in blocks THEN InboundFields(r.cfg) ELSE {},
         checklist |-> {"port", "link", "live test"} \cup (IF r.dep.cdn_type # "" THEN {"CDN DNS"} ELSE {})]

SetupGuide(r) ==
    [scenario |-> r.tun.primary_type,
     facts |-> InfrastructureFacts(r),
     panels |-> RecommendPanels(r.cfg.protocol),
     sections |->
        {Section("Infrastructure Profile", InfrastructureFacts(r)), TunnelTypesSection(r.tun),
         DeploymentGuessesSection(r.dep), Section("Manual Xray-core Install", ManualXray(r))}
        \cup CdnScenario(r, "Cloudflare CDN", "Cloudflare", "Cloudflare CDN Setup")
        \cup CdnScenario(r, "Arvan CDN", "ArvanCloud", "Arvan CDN Setup")
        \cup ScenarioOrigin(r) \cup ScenarioReverseProxy(r) \cup ScenarioTunnels(r)
        \cup (IF r.cfg.protocol \notin PanelProtocols THEN {}
              ELSE {Section("3x-ui Panel Setup", Panel3xui(r)), Section("Marzban Panel Setup", PanelMarzban(r))}),
     checklist |-> GuideChecklist(r),
     tips |-> GuideTips(r),
     run |-> HowToRun(r)]

=============================================================================
